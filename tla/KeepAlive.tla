------------------------------ MODULE KeepAlive ------------------------------
(***************************************************************************)
(* The keep-alive heartbeat (src/services/printer_service.py): the calls   *)
(* that start and stop its thread, which no lock serialises, the threads   *)
(* they leave behind, and the print port the heartbeat shares with the     *)
(* queue worker under _io_lock.                                            *)
(*                                                                         *)
(* An Event is named after the thread its call is about to create; the     *)
(* thread gets whichever event the service holds when it is created.       *)
(***************************************************************************)
EXTENDS Integers, FiniteSets

CONSTANTS
  Callers,        \* API threads in update_keep_alive
  Workers,        \* keep-alive threads (bound: one for each start)
  Printer,        \* the queue worker, when it sends to the printer
  None,           \* Python's None
  FloatInterval,  \* the interval is a float: both validators take one
  MaxFailures     \* bound: failures from which on 2 ** n exceeds a float

ASSUME KeepAliveAssumption ==
  /\ None \notin Workers
  /\ Printer \notin Workers
  /\ None # Printer
  /\ FloatInterval \in BOOLEAN
  /\ MaxFailures \in Nat \ {0}

VARIABLES
  handle,   \* keep_alive_thread
  event,    \* keep_alive_stop_event
  told,     \* the events that are set
  heeds,    \* the event each thread was given
  beat,     \* position of each thread
  failures, \* consecutive_failures
  call,     \* position of each caller
  then,     \* where a caller goes when stop_keep_alive returns
  mine,     \* the thread a caller's start creates
  crossed,  \* history: a start and another call have been under way at once
  ioLock,   \* holder of _io_lock
  open,     \* the last print lies within the keep-alive window
  late      \* history: threads that have written since the window closed

service == <<handle, event, told>>
threads == <<heeds, beat, failures>>
calls   == <<call, then, mine, crossed>>
wire    == <<ioLock, open, late>>
vars    == <<service, threads, calls, wire>>

Dead     == {"unborn", "new", "dead"}
Alive(w) == beat[w] \notin Dead

\* Threads nothing has told to stop.
Beating == {w \in Workers : Alive(w) /\ heeds[w] \notin told}

-----------------------------------------------------------------------------
\* What init_keep_alive leaves: a thread, or none when keep-alive is off or
\* start_keep_alive refused the printer.
Init ==
  /\ \E boot \in {None} \cup Workers :
       /\ handle = boot /\ event = boot
       /\ heeds = [w \in Workers |-> IF w = boot THEN w ELSE None]
       /\ beat = [w \in Workers |-> IF w = boot THEN "top" ELSE "unborn"]
  /\ told = {}
  /\ failures = [w \in Workers |-> 0]
  /\ call = [c \in Callers |-> "idle"]
  /\ then = [c \in Callers |-> "idle"]
  /\ mine = [c \in Callers |-> None]
  /\ crossed = FALSE
  /\ ioLock = None
  /\ open \in BOOLEAN
  /\ late = {}

Goto(c, where) == call' = [call EXCEPT ![c] = where]
Step(w, where) == beat' = [beat EXCEPT ![w] = where]

-----------------------------------------------------------------------------
(* update_keep_alive.  What it does to the settings is SettingsStore's      *)
(* matter, as is the write at the end of start_keep_alive.                 *)

UnderWay == {c \in Callers : call[c] # "idle"}
Starting == {c \in UnderWay : then[c] = "event"}

Disable(c) ==
  /\ call[c] = "idle"
  /\ crossed' = (crossed \/ Starting # {})
  /\ Goto(c, "stop")
  /\ then' = [then EXCEPT ![c] = "idle"]
  /\ UNCHANGED <<service, threads, mine, wire>>

\* A start refused for want of a network printer changes nothing of this.
Enable(c) ==
  /\ call[c] = "idle"
  /\ crossed' = (crossed \/ UnderWay # {})
  /\ \E w \in Workers :
       /\ beat[w] = "unborn" /\ w \notin {mine[d] : d \in Callers}
       /\ mine' = [mine EXCEPT ![c] = w]
  /\ Goto(c, "stop")
  /\ then' = [then EXCEPT ![c] = "event"]
  /\ UNCHANGED <<service, threads, wire>>

-----------------------------------------------------------------------------
(* stop_keep_alive, called on its own or by start_keep_alive.              *)

\* History: when a stop returns alone and nothing beats, nothing of what has
\* crossed is left.
Settles(c) == UnderWay = {c} /\ then[c] = "idle" /\ Beating = {}

Return(c) == Goto(c, then[c]) /\ crossed' = (crossed /\ ~Settles(c))

StopLooks(c) ==
  /\ call[c] = "stop"
  /\ IF handle # None /\ Alive(handle)
     THEN Goto(c, "signal") /\ UNCHANGED crossed
     ELSE Return(c)
  /\ UNCHANGED <<service, threads, then, mine, wire>>

\* Mutant of StopSignals: the event is replaced, not set.
StopForgets(c) ==
  /\ call[c] = "signal"
  /\ event' = None
  /\ Goto(c, "join")
  /\ UNCHANGED <<handle, told, threads, then, mine, crossed, wire>>

StopSignals(c) ==
  /\ call[c] = "signal"
  /\ told' = told \cup {event}
  /\ Goto(c, "join")
  /\ UNCHANGED <<handle, event, threads, then, mine, crossed, wire>>

\* join(timeout=5) raises without a thread, or with one not yet started; the
\* except clause answers and the thread stays with the service.
StopJoins(c) ==
  /\ call[c] = "join"
  /\ IF handle # None /\ beat[handle] # "new"
     THEN Goto(c, "joining") /\ UNCHANGED crossed
     ELSE Return(c)
  /\ UNCHANGED <<service, threads, then, mine, wire>>

\* The thread has ended, or five seconds have passed: it may be in a ping.
StopForgetsThread(c) ==
  /\ call[c] = "joining"
  /\ handle' = None
  /\ Return(c)
  /\ UNCHANGED <<event, told, threads, then, mine, wire>>

-----------------------------------------------------------------------------
(* start_keep_alive, once the old thread is stopped.                       *)

StartEvent(c) ==
  /\ call[c] = "event"
  /\ event' = mine[c]
  /\ Goto(c, "thread")
  /\ UNCHANGED <<handle, told, threads, then, mine, crossed, wire>>

StartThread(c) ==
  /\ call[c] = "thread"
  /\ handle' = mine[c]
  /\ heeds' = [heeds EXCEPT ![mine[c]] = event]
  /\ Step(mine[c], "new")
  /\ Goto(c, "run")
  /\ UNCHANGED <<event, told, failures, then, mine, crossed, wire>>

\* It starts the thread the service holds now, and raises when that is gone or
\* already started: the call then fails.
StartRuns(c) ==
  /\ call[c] = "run"
  /\ IF handle # None /\ beat[handle] = "new"
     THEN Step(handle, "top")
     ELSE UNCHANGED beat
  /\ Goto(c, "idle")
  /\ then' = [then EXCEPT ![c] = "idle"]
  /\ mine' = [mine EXCEPT ![c] = None]
  /\ UNCHANGED <<service, heeds, failures, crossed, wire>>

Stop(c)  == StopLooks(c) \/ StopSignals(c) \/ StopJoins(c) \/ StopForgetsThread(c)
Start(c) == StartEvent(c) \/ StartThread(c) \/ StartRuns(c)

-----------------------------------------------------------------------------
(* _keep_alive_worker and _write_keepalive.                                *)

Told(w) == heeds[w] \in told

Fails(w) == failures' =
  [failures EXCEPT ![w] = IF @ = MaxFailures THEN MaxFailures ELSE @ + 1]

\* The thread ends, and what it counted with it.
Ends(w) ==
  /\ Told(w)
  /\ Step(w, "dead")
  /\ failures' = [failures EXCEPT ![w] = 0]
  /\ late' = late \ {w}
  /\ UNCHANGED <<service, heeds, calls, ioLock, open>>

GoesOn(w, where) ==
  /\ ~Told(w)
  /\ Step(w, where)
  /\ UNCHANGED <<service, heeds, failures, calls, wire>>

\* interval * (2 ** consecutive_failures) raises; the iteration ends there.
Overflows(w) == FloatInterval /\ failures[w] = MaxFailures

\* wait(interval) has returned, at its end or because the event is set, and the
\* loop tests the event.
LoopTest(w) ==
  /\ beat[w] = "top"
  /\ ~Overflows(w) \/ Told(w)
  /\ Ends(w) \/ GoesOn(w, IF failures[w] > 0 THEN "backoff" ELSE "window")

BackoffRaises(w) ==
  /\ beat[w] = "top"
  /\ Overflows(w) /\ ~Told(w)
  /\ Fails(w)
  /\ UNCHANGED <<service, heeds, beat, calls, wire>>

\* The back-off wait ends the thread when the event is set during it.
Backoff(w) ==
  /\ beat[w] = "backoff"
  /\ Ends(w) \/ GoesOn(w, "window")

\* Mutant of Window: the window is not looked at.
WindowAlways(w) ==
  /\ beat[w] = "window"
  /\ Step(w, "port")
  /\ UNCHANGED <<service, heeds, failures, calls, wire>>

\* Outside the window the thread only waits.
Window(w) ==
  /\ beat[w] = "window"
  /\ Step(w, IF open THEN "port" ELSE "top")
  /\ UNCHANGED <<service, heeds, failures, calls, wire>>

\* The print that holds the port is heartbeat enough.
PortBusy(w) ==
  /\ beat[w] = "port"
  /\ ioLock # None
  /\ Step(w, "top")
  /\ failures' = [failures EXCEPT ![w] = 0]
  /\ UNCHANGED <<service, heeds, calls, wire>>

PortTaken(w) ==
  /\ beat[w] = "port"
  /\ ioLock = None
  /\ ioLock' = w
  /\ Step(w, "write")
  /\ late' = IF open THEN late ELSE late \cup {w}
  /\ UNCHANGED <<service, heeds, failures, calls, open>>

\* Mutant of Written: a heartbeat that fails keeps the lock.
WrittenHolds(w) ==
  /\ beat[w] = "write"
  /\ \/ Step(w, "top") /\ failures' = [failures EXCEPT ![w] = 0] /\ ioLock' = None
     \/ Step(w, "ping") /\ UNCHANGED <<failures, ioLock>>
  /\ UNCHANGED <<service, heeds, calls, open, late>>

\* ESC @ went out, or the port did not take it; the lock is released.
Written(w) ==
  /\ beat[w] = "write"
  /\ ioLock' = IF ioLock = w THEN None ELSE ioLock
  /\ \/ Step(w, "top") /\ failures' = [failures EXCEPT ![w] = 0]
     \/ Step(w, "ping") /\ UNCHANGED failures
  /\ UNCHANGED <<service, heeds, calls, open, late>>

\* _ipp_ping and _tcp_ping only tell whether the printer is there.
Ping(w) ==
  /\ beat[w] = "ping"
  /\ failures' = [failures EXCEPT ![w] = 0] \/ Fails(w)
  /\ Step(w, "top")
  /\ UNCHANGED <<service, heeds, calls, wire>>

Beat(w) ==
  \/ LoopTest(w) \/ BackoffRaises(w) \/ Backoff(w) \/ Window(w) \/ PortBusy(w) \/ PortTaken(w)
  \/ Written(w) \/ Ping(w)

-----------------------------------------------------------------------------
(* _send_to_printer on the queue worker, and the window's end.             *)

PrintBegins ==
  /\ ioLock = None
  /\ ioLock' = Printer
  /\ UNCHANGED <<service, threads, calls, open, late>>

\* _last_print_at is set when the write has returned, and only then.
PrintEnds ==
  /\ ioLock = Printer
  /\ ioLock' = None
  /\ \/ open' = TRUE /\ late' = {}
     \/ UNCHANGED <<open, late>>
  /\ UNCHANGED <<service, threads, calls>>

\* The window runs out, or the settings that make it change.
WindowMoves ==
  /\ open' = ~open
  /\ late' = {}
  /\ UNCHANGED <<service, threads, calls, ioLock>>

Next ==
  \/ \E c \in Callers : Disable(c) \/ Enable(c) \/ Stop(c) \/ Start(c)
  \/ \E w \in Workers : Beat(w)
  \/ PrintBegins \/ PrintEnds \/ WindowMoves

Spec == Init /\ [][Next]_vars

\* Threads are scheduled and their waits time out; a call that was made runs
\* to its end, and so does a print.  Nobody has to call or to print.
Fairness ==
  /\ \A w \in Workers : WF_vars(Beat(w))
  /\ \A c \in Callers : WF_vars(Stop(c) \/ Start(c))
  /\ WF_vars(PrintEnds)

FairSpec == Spec /\ Fairness

-----------------------------------------------------------------------------
(* Properties                                                              *)

TypeOK ==
  /\ handle \in Workers \cup {None} /\ event \in Workers \cup {None}
  /\ told \subseteq Workers \cup {None}
  /\ heeds \in [Workers -> Workers \cup {None}]
  /\ beat \in [Workers -> {"unborn", "new", "top", "backoff", "window", "port",
                           "write", "ping", "dead"}]
  /\ failures \in [Workers -> 0 .. MaxFailures]
  /\ call \in [Callers -> {"idle", "stop", "signal", "join", "joining", "event",
                           "thread", "run"}]
  /\ then \in [Callers -> {"idle", "event"}]
  /\ mine \in [Callers -> Workers \cup {None}]
  /\ crossed \in BOOLEAN
  /\ ioLock \in Workers \cup {Printer, None}
  /\ open \in BOOLEAN
  /\ late \subseteq Workers

\* Two heartbeats never run at once: the old thread is told to stop before a
\* new one starts, even when it has not ended in the five seconds of join().
OneHeartbeat == ~crossed => \A v, w \in Beating : v = w

\* Between calls every thread that beats is the one the service holds, by the
\* event it heeds: keep_alive_status tells of it and stop_keep_alive ends it.
\* Only a start that another call crosses leaves one behind that neither knows,
\* and a stop that silences everything makes that good; stops may cross.
NoOrphan ==
  ~crossed /\ UnderWay = {} => \A w \in Beating : handle = w /\ event = heeds[w]

\* The heartbeat's bytes and a print's never mix on the port.
WireIsOnesOwn ==
  \A w \in Workers : beat[w] = "write" => ioLock = w

\* When update_keep_alive(enabled=False) returns, nothing beats any more, unless
\* a start has crossed another call.
StopSilences ==
  [][\A c \in Callers :
       ~crossed /\ call[c] # "idle" /\ call'[c] = "idle" /\ then[c] = "idle" => Beating' = {}]_vars

\* Outside the window a thread sends one heartbeat at most, the one it had
\* already decided on when the window closed.
OneLateHeartbeat ==
  [][\A w \in Workers : ~open /\ ioLock # w /\ ioLock' = w => w \notin late]_vars

Stragglers == {w \in Workers : Alive(w) /\ Told(w)}

\* Threads that are told to stop end, whatever the printer answers.
ToldEnds == Stragglers # {} ~> Stragglers = {}

\* While the window stays open and a thread nobody stops runs, the printer goes
\* on receiving data: a busy port is no excuse for ever.  Only a back-off that
\* overflows ends that for good; "Exponential backoff with a maximum" knows no
\* such end.
HeartbeatGoesOn ==
  <>[](open /\ \E w \in Beating : ~Overflows(w)) =>
    []<>(ioLock = Printer \/ \E v \in Workers : beat[v] = "write")

\* A heartbeat ends when it is told to and only then.
EndsWhenTold == ToldEnds /\ HeartbeatGoesOn

\* The invariant of calls that no start crosses: a start is alone, ...
StartsAlone == \A c \in Starting : UnderWay = {c}

\* ... where a call is, the old thread has been told to stop or the new one is
\* still to be created, ...
CallKnowsThread ==
  /\ \A c \in Callers : call[c] \in {"join", "joining", "event", "thread", "run"} => Beating = {}
  /\ \A c \in Starting :
       /\ call[c] # "run" => beat[mine[c]] = "unborn"
       /\ call[c] = "run" => handle = mine[c] /\ event = heeds[mine[c]]

\* ... and what beats is the thread the service holds, by the event it heeds.
HeldByService == \A w \in Beating : handle = w /\ event = heeds[w]

Uncrossed == StartsAlone /\ CallKnowsThread /\ HeldByService

\* Crossed or not, a call that creates a thread is a start and knows which.
StartsKnow ==
  /\ \A c \in Callers : call[c] \in {"event", "thread", "run"} => c \in Starting
  /\ \A c \in Starting : mine[c] # None

IInv == TypeOK /\ StartsKnow /\ (~crossed => Uncrossed)

=============================================================================
