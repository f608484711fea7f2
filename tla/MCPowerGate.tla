----------------------------- MODULE MCPowerGate -----------------------------
(* Values for PowerGate's sequence constant. *)
EXTENDS PowerGate

MCWaits == <<4, 3>>
=============================================================================
