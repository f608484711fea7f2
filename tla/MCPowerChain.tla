---------------------------- MODULE MCPowerChain ----------------------------
EXTENDS PowerChain

\* The settings form sends every key; other clients send some.
Form(keys, w, h, d) ==
  [key \in Key |-> CASE key = "window" -> w [] key = "hardware" -> h
                     [] key = "delay" -> d [] OTHER -> key \in keys]

Relayed == {"relay", "turnOnUrl", "turnOff", "keepAlive", "timed"}

MCKept == {Form(Relayed, 6, 4, 1), Form({"keepAlive", "timed"}, 5, 4, 0)}

MCBodies ==
  {Form(Relayed, w, h, d) : w \in {3, 4, 7}, h \in {2, 4}, d \in {0, 1}}
  \cup {Form(Relayed \ {"relay"}, 3, 4, 0), Form(Relayed \ {"turnOff", "timed"}, 3, 4, 0),
        Form(Relayed, 7, 4, 2), Form(Relayed, 0, 4, 0), Form(Relayed, 7, 3, 0)}
  \cup {[k \in {"window"} |-> 4], [k \in {"turnOff"} |-> FALSE],
        [k \in {"timed"} |-> FALSE]}
=============================================================================
