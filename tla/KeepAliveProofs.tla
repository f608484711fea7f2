--------------------------- MODULE KeepAliveProofs ---------------------------
(* What TLAPS proves of the keep-alive heartbeat, for every set of callers  *)
(* and threads.                                                             *)
EXTENDS KeepAlive, TLAPS

\* The types are correct initially.
LEMMA TypeInit == Init => TypeOK
<1> SUFFICES ASSUME Init PROVE TypeOK
  OBVIOUS
<1>1. crossed \in BOOLEAN /\ open \in BOOLEAN
  BY Zenon DEF Init
<1> QED
  BY <1>1, KeepAliveAssumption DEF KeepAliveAssumption, Init, TypeOK

\* A start sets out for its event when the stop returns, and any other call ends.
LEMMA ReturnTypes ==
  ASSUME TypeOK, NEW c \in Callers, Return(c)
  PROVE  /\ call' = [call EXCEPT ![c] = then[c]]
         /\ call' \in [Callers -> {"idle", "stop", "signal", "join", "joining", "event",
                                   "thread", "run"}]
         /\ crossed' \in BOOLEAN
         /\ crossed' = (crossed /\ ~Settles(c))
<1>1. then[c] \in {"idle", "event"}
  BY DEF TypeOK
<1>2. crossed' = (crossed /\ ~Settles(c))
  BY DEF Return
<1>3. crossed' \in BOOLEAN
  BY <1>2, Zenon DEF TypeOK
<1> QED
  BY <1>1, <1>2, <1>3 DEF Return, Goto, TypeOK

\* What a caller does keeps the types.
LEMMA TypeCall ==
  ASSUME TypeOK, StartsKnow, NEW c \in Callers, Disable(c) \/ Enable(c) \/ Stop(c) \/ Start(c)
  PROVE  TypeOK'
<1> USE DEF TypeOK, Goto, Step, service, threads, wire
<1>0. crossed \in BOOLEAN
  BY Zenon
<1>1. CASE Disable(c)
  BY <1>1 DEF Disable
<1>2. CASE Enable(c)
  BY <1>2 DEF Enable
<1>3. CASE StopLooks(c)
  BY <1>3, ReturnTypes DEF StopLooks
<1>4. CASE StopSignals(c)
  BY <1>4 DEF StopSignals
<1>5. CASE StopJoins(c)
  BY <1>5, ReturnTypes DEF StopJoins
<1>6. CASE StopForgetsThread(c)
  BY <1>6, ReturnTypes DEF StopForgetsThread
<1>7. CASE StartEvent(c)
  <2>1. mine[c] \in Workers
    BY <1>7 DEF StartEvent, StartsKnow
  <2> QED
    BY <1>7, <2>1 DEF StartEvent
<1>8. CASE StartThread(c)
  <2>1. mine[c] \in Workers
    BY <1>8 DEF StartThread, StartsKnow
  <2> QED
    BY <1>8, <2>1 DEF StartThread
<1>9. CASE StartRuns(c)
  BY <1>9 DEF StartRuns
<1> QED
  BY <1>1, <1>2, <1>3, <1>4, <1>5, <1>6, <1>7, <1>8, <1>9 DEF Stop, Start

\* What a heartbeat thread does keeps the types.
LEMMA TypeBeat ==
  ASSUME TypeOK, NEW w \in Workers, Beat(w)
  PROVE  TypeOK'
<1> USE DEF TypeOK, Step, service, calls, wire
<1>1. CASE LoopTest(w) \/ Backoff(w)
  BY <1>1, KeepAliveAssumption DEF KeepAliveAssumption, LoopTest, Backoff, Ends, GoesOn
<1>6. CASE BackoffRaises(w) \/ Window(w)
  BY <1>6, KeepAliveAssumption DEF KeepAliveAssumption, BackoffRaises, Window, Fails
<1>2. CASE PortBusy(w)
  BY <1>2, KeepAliveAssumption DEF KeepAliveAssumption, PortBusy
<1>3. CASE PortTaken(w)
  BY <1>3 DEF PortTaken
<1>4. CASE Written(w)
  BY <1>4, KeepAliveAssumption DEF KeepAliveAssumption, Written
<1>5. CASE Ping(w)
  BY <1>5, KeepAliveAssumption DEF KeepAliveAssumption, Ping, Fails
<1> QED
  BY <1>1, <1>2, <1>3, <1>4, <1>5, <1>6 DEF Beat

\* A heartbeat thread leaves the service, its callers and the threads' events alone.
LEMMA BeatLeaves ==
  ASSUME TypeOK, NEW w \in Workers, Beat(w)
  PROVE  /\ UNCHANGED service /\ UNCHANGED calls /\ heeds' = heeds
         /\ beat[w] \notin Dead
         /\ \A v \in Workers : v # w => beat'[v] = beat[v]
         /\ beat'[w] \notin {"unborn", "new"}
<1> USE DEF TypeOK, Step, Dead
<1>1. CASE LoopTest(w) \/ Backoff(w)
  BY <1>1 DEF LoopTest, Backoff, Ends, GoesOn
<1>2. CASE BackoffRaises(w) \/ Window(w) \/ PortBusy(w)
  BY <1>2 DEF BackoffRaises, Window, PortBusy
<1>3. CASE PortTaken(w) \/ Written(w) \/ Ping(w)
  BY <1>3 DEF PortTaken, Written, Ping
<1> QED
  BY <1>1, <1>2, <1>3 DEF Beat

\* A call that creates a thread knows which, whatever crosses it.
LEMMA StartsKnowStep == TypeOK /\ StartsKnow /\ [Next]_vars => StartsKnow'
<1> SUFFICES ASSUME TypeOK, StartsKnow, [Next]_vars PROVE StartsKnow'
  OBVIOUS
<1> USE DEF StartsKnow, Starting, UnderWay
<1>1. ASSUME NEW c \in Callers, Disable(c) PROVE StartsKnow'
  BY <1>1 DEF Disable, Goto, TypeOK
<1>2. ASSUME NEW c \in Callers, Enable(c) PROVE StartsKnow'
  BY <1>2, KeepAliveAssumption DEF KeepAliveAssumption, Enable, Goto, TypeOK
<1>3. ASSUME NEW c \in Callers, Stop(c) PROVE StartsKnow'
  <2>1. UNCHANGED <<then, mine>> /\ call[c] # "idle"
    BY <1>3 DEF Stop, StopLooks, StopSignals, StopJoins, StopForgetsThread
  <2>2. \/ call' = [call EXCEPT ![c] = then[c]]
        \/ \E where \in {"signal", "join", "joining"} : call' = [call EXCEPT ![c] = where]
    BY <1>3 DEF Stop, StopLooks, StopSignals, StopJoins, StopForgetsThread, Return, Goto
  <2>3. then[c] \in {"idle", "event"}
    BY DEF TypeOK
  <2> QED
    BY <2>1, <2>2, <2>3 DEF TypeOK
<1>4. ASSUME NEW c \in Callers, Start(c) PROVE StartsKnow'
  BY <1>4 DEF Start, StartEvent, StartThread, StartRuns, Goto, TypeOK
<1>5. CASE UNCHANGED calls
  BY <1>5 DEF calls
<1> QED
  BY <1>1, <1>2, <1>3, <1>4, <1>5, BeatLeaves
  DEF Next, PrintBegins, PrintEnds, WindowMoves, vars, calls

\* Every step keeps the types.
LEMMA TypeStep == TypeOK /\ StartsKnow /\ [Next]_vars => TypeOK'
<1> SUFFICES ASSUME TypeOK, StartsKnow, [Next]_vars PROVE TypeOK'
  OBVIOUS
<1>1. CASE \E c \in Callers : Disable(c) \/ Enable(c) \/ Stop(c) \/ Start(c)
  BY <1>1, TypeCall
<1>2. CASE \E w \in Workers : Beat(w)
  BY <1>2, TypeBeat
<1>3. CASE PrintBegins \/ PrintEnds \/ WindowMoves
  BY <1>3 DEF PrintBegins, PrintEnds, WindowMoves, service, threads, calls, TypeOK
<1>4. CASE UNCHANGED vars
  BY <1>4 DEF vars, service, threads, calls, wire, TypeOK
<1> QED
  BY <1>1, <1>2, <1>3, <1>4 DEF Next

\* The types are correct in every reachable state.
THEOREM TypeCorrect == Spec => []TypeOK
<1>1. Init => TypeOK /\ StartsKnow
  BY TypeInit DEF Init, StartsKnow, Starting, UnderWay
<1> QED
  BY <1>1, TypeStep, StartsKnowStep, PTL DEF Spec

-----------------------------------------------------------------------------
\* Whoever writes holds the lock: no step of another thread takes it away.
LEMMA WireStep == TypeOK /\ WireIsOnesOwn /\ [Next]_vars => WireIsOnesOwn'
<1> SUFFICES ASSUME TypeOK, WireIsOnesOwn, [Next]_vars PROVE WireIsOnesOwn'
  OBVIOUS
<1> USE KeepAliveAssumption DEF KeepAliveAssumption, TypeOK, WireIsOnesOwn, Step
<1>1. ASSUME NEW c \in Callers, Disable(c) \/ Enable(c) \/ Stop(c) \/ Start(c)
      PROVE  WireIsOnesOwn'
  <2>1. ioLock' = ioLock
    BY <1>1 DEF Disable, Enable, Stop, Start, StopLooks, StopSignals, StopJoins,
                StopForgetsThread, StartEvent, StartThread, StartRuns, wire
  <2>2. \A w \in Workers : beat'[w] = "write" => beat[w] = "write"
    BY <1>1 DEF Disable, Enable, Stop, Start, StopLooks, StopSignals, StopJoins,
                StopForgetsThread, StartEvent, StartThread, StartRuns, threads
  <2> QED
    BY <2>1, <2>2
<1>2. ASSUME NEW w \in Workers, Beat(w) PROVE WireIsOnesOwn'
  <2>1. CASE PortTaken(w)
    BY <2>1 DEF PortTaken
  <2>2. CASE Written(w)
    BY <2>2 DEF Written
  <2>3. CASE LoopTest(w) \/ BackoffRaises(w) \/ Backoff(w) \/ Window(w) \/ PortBusy(w)
            \/ Ping(w)
    BY <2>3 DEF LoopTest, BackoffRaises, Backoff, Window, PortBusy, Ping, Ends, GoesOn, wire
  <2> QED
    BY <1>2, <2>1, <2>2, <2>3 DEF Beat
<1>3. CASE PrintBegins \/ PrintEnds \/ WindowMoves
  BY <1>3 DEF PrintBegins, PrintEnds, WindowMoves, threads
<1>4. CASE UNCHANGED vars
  BY <1>4 DEF vars, threads, wire
<1> QED
  BY <1>1, <1>2, <1>3, <1>4 DEF Next

\* However many threads are left behind, no heartbeat writes while a print or
\* another heartbeat has the port.
THEOREM PortIsExclusive == Spec => []WireIsOnesOwn
<1>1. Init => WireIsOnesOwn
  BY DEF Init, WireIsOnesOwn
<1> QED
  BY <1>1, WireStep, TypeCorrect, PTL DEF Spec

-----------------------------------------------------------------------------
(* Outside the window.                                                     *)

\* A thread that has written since the window closed is past the decision to
\* write: only an open window sends it to the port again.
LateIsPastThePort == ~open => \A w \in late : beat[w] # "port"

\* Every step keeps that.
LEMMA LateStep == TypeOK /\ LateIsPastThePort /\ [Next]_vars => LateIsPastThePort'
<1> SUFFICES ASSUME TypeOK, LateIsPastThePort, [Next]_vars PROVE LateIsPastThePort'
  OBVIOUS
<1> USE DEF TypeOK, LateIsPastThePort, Step
<1>1. ASSUME NEW c \in Callers, Disable(c) \/ Enable(c) \/ Stop(c) \/ Start(c)
      PROVE  LateIsPastThePort'
  <2>1. open' = open /\ late' = late
    BY <1>1 DEF Disable, Enable, Stop, Start, StopLooks, StopSignals, StopJoins,
                StopForgetsThread, StartEvent, StartThread, StartRuns, wire
  <2>2. \A w \in Workers : beat'[w] = "port" => beat[w] = "port"
    BY <1>1 DEF Disable, Enable, Stop, Start, StopLooks, StopSignals, StopJoins,
                StopForgetsThread, StartEvent, StartThread, StartRuns, threads
  <2> QED
    BY <2>1, <2>2
<1>2. ASSUME NEW w \in Workers, Beat(w) PROVE LateIsPastThePort'
  <2>1. CASE PortTaken(w)
    BY <2>1 DEF PortTaken
  <2>2. CASE Written(w)
    BY <2>2 DEF Written
  <2>3. CASE LoopTest(w) \/ BackoffRaises(w) \/ Backoff(w) \/ Window(w) \/ PortBusy(w)
            \/ Ping(w)
    BY <2>3 DEF LoopTest, BackoffRaises, Backoff, Window, PortBusy, Ping, Ends, GoesOn, wire
  <2> QED
    BY <1>2, <2>1, <2>2, <2>3 DEF Beat
<1>3. CASE PrintBegins \/ PrintEnds \/ WindowMoves
  BY <1>3 DEF PrintBegins, PrintEnds, WindowMoves, threads
<1>4. CASE UNCHANGED vars
  BY <1>4 DEF vars, threads, wire
<1> QED
  BY <1>1, <1>2, <1>3, <1>4 DEF Next

\* Outside the window a thread sends one heartbeat at most, however many
\* threads there are and whatever its port and its waits do.
THEOREM OneHeartbeatAtMostIsLate == Spec => OneLateHeartbeat
<1>1. Init => LateIsPastThePort
  BY DEF Init, LateIsPastThePort
<1>2. TypeOK /\ LateIsPastThePort /\ [Next]_vars =>
        [\A w \in Workers : ~open /\ ioLock # w /\ ioLock' = w => w \notin late]_vars
  <2> SUFFICES ASSUME TypeOK, LateIsPastThePort, Next,
                      NEW w \in Workers, ~open, ioLock # w, ioLock' = w
               PROVE  w \notin late
    BY DEF vars
  <2>1. ~PrintBegins /\ ~PrintEnds /\ ~WindowMoves
    BY KeepAliveAssumption DEF KeepAliveAssumption, PrintBegins, PrintEnds, WindowMoves
  <2>2. \A c \in Callers : ~(Disable(c) \/ Enable(c) \/ Stop(c) \/ Start(c))
    BY DEF Disable, Enable, Stop, Start, StopLooks, StopSignals, StopJoins,
           StopForgetsThread, StartEvent, StartThread, StartRuns, wire
  <2>3. PICK v \in Workers : Beat(v)
    BY <2>1, <2>2 DEF Next
  <2>4. PortTaken(v)
    BY <2>3, KeepAliveAssumption
    DEF KeepAliveAssumption, Beat, LoopTest, BackoffRaises, Backoff, Window, PortBusy,
        Written, Ping, Ends, GoesOn, wire
  <2>5. v = w /\ beat[w] = "port"
    BY <2>4 DEF PortTaken
  <2> QED
    BY <2>5 DEF LateIsPastThePort
<1> QED
  BY <1>1, <1>2, LateStep, TypeCorrect, PTL DEF Spec, OneLateHeartbeat

-----------------------------------------------------------------------------
(* The calls: every thread is told to stop before the next is started, so  *)
(* that at most one beats and the service holds it, unless a start crosses *)
(* another call; a stop that leaves nothing beating makes that good.       *)

\* What a heartbeat thread, a print or the window does leaves that as it is.
LEMMA QuietStep ==
  ASSUME TypeOK, Uncrossed, UNCHANGED service, UNCHANGED calls, heeds' = heeds,
         Beating' \subseteq Beating,
         \A w \in Workers : beat[w] = "unborn" => beat'[w] = "unborn",
         StartsKnow
  PROVE  Uncrossed'
<1>1. StartsAlone'
  BY DEF Uncrossed, StartsAlone, Starting, UnderWay, calls
<1>2. \A c \in Starting : mine[c] \in Workers
  BY DEF StartsKnow, Starting, UnderWay, TypeOK
<1>3. CallKnowsThread'
  BY <1>2 DEF Uncrossed, CallKnowsThread, Starting, UnderWay, calls, service
<1>4. HeldByService'
  BY DEF Uncrossed, HeldByService, service
<1> QED
  BY <1>1, <1>3, <1>4 DEF Uncrossed

\* With no call under way and nothing beating nothing is crossed.
LEMMA NothingIsCrossed == UnderWay = {} /\ Beating = {} => Uncrossed
<1> SUFFICES ASSUME UnderWay = {}, Beating = {} PROVE Uncrossed
  OBVIOUS
<1>1. \A c \in Callers : call[c] = "idle"
  BY DEF UnderWay
<1> QED
  BY <1>1 DEF Uncrossed, StartsAlone, CallKnowsThread, HeldByService, Starting, UnderWay

\* What is under way once a call has come to its end.
LEMMA ReturnLeaves ==
  ASSUME TypeOK, NEW c \in Callers, Return(c), then' = then, Beating' = Beating
  PROVE  /\ Settles(c) => UnderWay' = {} /\ Beating' = {}
         /\ UnderWay' \subseteq UnderWay \cup {c}
<1>1. call' = [call EXCEPT ![c] = then[c]]
  BY DEF Return, Goto
<1> QED
  BY <1>1 DEF Settles, UnderWay, TypeOK

\* The stop of a call returns with everything told to stop, or settles what was crossed.
LEMMA UncrossedReturn ==
  ASSUME TypeOK, StartsKnow, NEW c \in Callers, ~crossed => Uncrossed /\ Beating = {},
         call[c] # "idle", call[c] \notin {"event", "thread", "run"}, Return(c), ~crossed',
         UNCHANGED <<event, told, threads, then, mine>>
  PROVE  Uncrossed'
<1>1. Beating' = Beating
  BY DEF Beating, Alive, threads
<1>2. CASE crossed
  <2>1. Settles(c)
    BY <1>2, ReturnTypes
  <2>2. (UnderWay = {} /\ Beating = {})'
    BY <1>1, <2>1, ReturnLeaves
  <2> QED
    BY <2>2, NothingIsCrossed, PTL
<1>3. CASE ~crossed
  <2>1. Uncrossed /\ Beating = {} /\ Beating' = {}
    BY <1>1, <1>3
  <2>2. /\ call' = [call EXCEPT ![c] = then[c]] /\ then[c] \in {"idle", "event"}
        /\ c \in UnderWay
    BY DEF Return, Goto, TypeOK, UnderWay
  <2>3. UnderWay' \subseteq UnderWay /\ Starting' \subseteq Starting
    BY <2>2 DEF UnderWay, Starting, TypeOK
  <2>4. StartsAlone'
    <3> SUFFICES ASSUME NEW d \in Starting' PROVE UnderWay' = {d}
      BY DEF StartsAlone
    <3>1. UnderWay = {d}
      BY <2>1, <2>3 DEF Uncrossed, StartsAlone
    <3>2. d \in UnderWay'
      BY DEF Starting
    <3> QED
      BY <2>3, <3>1, <3>2
  <2>5. ASSUME NEW d \in Starting'
        PROVE  /\ call'[d] # "run" => beat'[mine'[d]] = "unborn"
               /\ call'[d] = "run" => handle' = mine'[d] /\ event' = heeds'[mine'[d]]
    <3>1. d \in Starting /\ UnderWay = {d}
      BY <2>1, <2>3 DEF Uncrossed, StartsAlone
    <3>2. d = c
      BY <2>2, <3>1
    <3>3. call'[d] # "run" /\ beat[mine[d]] = "unborn"
      BY <2>1, <2>2, <3>1, <3>2 DEF Uncrossed, CallKnowsThread, TypeOK
    <3> QED
      BY <3>3 DEF threads
  <2> QED
    BY <2>1, <2>4, <2>5 DEF Uncrossed, CallKnowsThread, HeldByService
<1> QED
  BY <1>2, <1>3

\* Where nothing has crossed and the service's thread is not alive, nothing beats.
LEMMA NothingBeats ==
  ASSUME TypeOK, Uncrossed, handle = None \/ ~Alive(handle)
  PROVE  Beating = {}
<1>1. \A w \in Beating : w \in Workers /\ Alive(w) /\ handle = w
  BY DEF Uncrossed, HeldByService, Beating
<1> QED
  BY <1>1, KeepAliveAssumption DEF KeepAliveAssumption

\* The steps of a stop.
LEMMA UncrossedStop ==
  ASSUME TypeOK, StartsKnow, ~crossed => Uncrossed, NEW c \in Callers, Stop(c), ~crossed'
  PROVE  Uncrossed'
<1>1. CASE StopLooks(c)
  <2>1. UNCHANGED <<handle, event, told, threads, then, mine>> /\ call[c] = "stop"
    BY <1>1 DEF StopLooks, service
  <2>2. CASE handle # None /\ Alive(handle)
    <3>1. call' = [call EXCEPT ![c] = "signal"] /\ crossed' = crossed
      BY <1>1, <2>2 DEF StopLooks, Goto
    <3>2. Beating' = Beating
      BY <2>1 DEF Beating, Alive, threads
    <3>3. UnderWay' = UnderWay /\ Starting' = Starting
      BY <2>1, <3>1 DEF UnderWay, Starting, TypeOK
    <3> QED
      BY <2>1, <3>1, <3>2, <3>3
      DEF Uncrossed, StartsAlone, CallKnowsThread, HeldByService, Starting, UnderWay, TypeOK,
          threads
  <2>3. CASE ~(handle # None /\ Alive(handle))
    <3>1. ~crossed => Uncrossed /\ Beating = {}
      BY <2>3, NothingBeats
    <3>2. Return(c)
      BY <1>1, <2>3 DEF StopLooks
    <3> QED
      BY <2>1, <3>1, <3>2, UncrossedReturn
  <2> QED
    BY <2>2, <2>3
<1>2. CASE StopSignals(c)
  <2>1. /\ call[c] = "signal" /\ told' = told \cup {event}
        /\ call' = [call EXCEPT ![c] = "join"] /\ crossed' = crossed
        /\ UNCHANGED <<handle, event, heeds, beat, then, mine>>
    BY <1>2 DEF StopSignals, Goto, threads
  <2>2. Beating' = {}
    BY <2>1 DEF Uncrossed, HeldByService, Beating, Alive
  <2>3. UnderWay' = UnderWay /\ Starting' = Starting
    BY <2>1 DEF UnderWay, Starting, TypeOK
  <2> QED
    BY <2>1, <2>2, <2>3
    DEF Uncrossed, StartsAlone, CallKnowsThread, HeldByService, Starting, UnderWay, TypeOK
<1>3. CASE StopJoins(c)
  <2>1. /\ UNCHANGED <<handle, event, told, threads, then, mine>> /\ call[c] = "join"
        /\ Return(c) \/ (call' = [call EXCEPT ![c] = "joining"] /\ crossed' = crossed)
    BY <1>3 DEF StopJoins, service, Goto
  <2>2. ~crossed => Beating = {}
    BY <2>1 DEF Uncrossed, CallKnowsThread
  <2>3. CASE Return(c)
    BY <2>1, <2>2, <2>3, UncrossedReturn
  <2>4. CASE call' = [call EXCEPT ![c] = "joining"] /\ crossed' = crossed
    <3>1. Beating' = {}
      BY <2>1, <2>2, <2>4 DEF Beating, Alive, threads
    <3>2. UnderWay' = UnderWay /\ Starting' = Starting
      BY <2>1, <2>4 DEF UnderWay, Starting, TypeOK
    <3> QED
      BY <2>1, <2>4, <3>1, <3>2
      DEF Uncrossed, StartsAlone, CallKnowsThread, HeldByService, Starting, UnderWay, TypeOK,
          threads
  <2> QED
    BY <2>1, <2>3, <2>4
<1>4. CASE StopForgetsThread(c)
  <2>1. /\ UNCHANGED <<event, told, threads, then, mine>> /\ call[c] = "joining" /\ Return(c)
    BY <1>4 DEF StopForgetsThread
  <2>2. ~crossed => Beating = {}
    BY <2>1 DEF Uncrossed, CallKnowsThread
  <2> QED
    BY <2>1, <2>2, UncrossedReturn
<1> QED
  BY <1>1, <1>2, <1>3, <1>4 DEF Stop

\* The steps of a start, which is alone unless something has crossed.
LEMMA UncrossedStart ==
  ASSUME TypeOK, StartsKnow, Uncrossed, NEW c \in Callers, Start(c)
  PROVE  Uncrossed'
<1>1. /\ c \in Starting /\ mine[c] \in Workers /\ Beating = {}
      /\ \A d \in Callers : d # c => call[d] = "idle"
  <2>1. c \in Starting
    BY DEF Start, StartEvent, StartThread, StartRuns, StartsKnow
  <2>2. UnderWay = {c}
    BY <2>1 DEF Uncrossed, StartsAlone
  <2>3. Beating = {}
    BY DEF Start, StartEvent, StartThread, StartRuns, Uncrossed, CallKnowsThread
  <2> QED
    BY <2>1, <2>2, <2>3 DEF UnderWay, StartsKnow, TypeOK
<1>2. ASSUME NEW where, call' = [call EXCEPT ![c] = where]
      PROVE  /\ call'[c] = where /\ \A d \in Callers : d # c => call'[d] = "idle"
             /\ where # "idle" => UnderWay' = {c} /\ Starting' \subseteq {c}
             /\ where = "idle" => UnderWay' = {} /\ Starting' = {}
  BY <1>1, <1>2 DEF UnderWay, Starting, TypeOK
<1>3. CASE StartEvent(c)
  <2>1. /\ call' = [call EXCEPT ![c] = "thread"] /\ call[c] = "event"
        /\ UNCHANGED <<told, heeds, beat, mine>>
    BY <1>3 DEF StartEvent, Goto, threads
  <2>2. Beating' = {}
    BY <1>1, <2>1 DEF Beating, Alive
  <2>3. beat[mine[c]] = "unborn"
    BY <1>1, <2>1 DEF Uncrossed, CallKnowsThread
  <2>4. UnderWay' = {c} /\ Starting' \subseteq {c} /\ call'[c] = "thread"
    BY <1>2, <2>1
  <2>5. StartsAlone' /\ HeldByService'
    BY <2>2, <2>4 DEF StartsAlone, HeldByService
  <2>6. CallKnowsThread'
    BY <2>1, <2>2, <2>3, <2>4 DEF CallKnowsThread
  <2> QED
    BY <2>5, <2>6 DEF Uncrossed
<1>4. CASE StartThread(c)
  <2>1. /\ call' = [call EXCEPT ![c] = "run"] /\ handle' = mine[c]
        /\ heeds' = [heeds EXCEPT ![mine[c]] = event]
        /\ beat' = [beat EXCEPT ![mine[c]] = "new"]
        /\ UNCHANGED <<event, told, mine>>
    BY <1>4 DEF StartThread, Goto, Step
  <2>2. Beating' = {}
    BY <1>1, <2>1 DEF Beating, Alive, Dead, TypeOK
  <2>3. heeds'[mine'[c]] = event'
    BY <1>1, <2>1 DEF TypeOK
  <2> QED
    BY <1>2, <2>1, <2>2, <2>3 DEF Uncrossed, StartsAlone, CallKnowsThread, HeldByService
<1>5. CASE StartRuns(c)
  <2>1. /\ call' = [call EXCEPT ![c] = "idle"] /\ call[c] = "run"
        /\ beat' = [beat EXCEPT ![handle] = "top"] \/ beat' = beat
        /\ UNCHANGED <<handle, event, told, heeds>>
    BY <1>5 DEF StartRuns, Goto, Step, service
  <2>2. handle = mine[c] /\ event = heeds[handle]
    BY <1>1, <2>1 DEF Uncrossed, CallKnowsThread
  <2>3. \A w \in Beating' : w = handle
    BY <1>1, <2>1, <2>2 DEF Beating, Alive, TypeOK
  <2> QED
    BY <1>2, <2>1, <2>2, <2>3 DEF Uncrossed, StartsAlone, CallKnowsThread, HeldByService
<1> QED
  BY <1>3, <1>4, <1>5 DEF Start

\* A call begins; a start that finds another under way, or a stop that finds a
\* start, has crossed it.
LEMMA UncrossedCall ==
  ASSUME TypeOK, StartsKnow, Uncrossed, NEW c \in Callers, Disable(c) \/ Enable(c), ~crossed'
  PROVE  Uncrossed'
<1>1. /\ call[c] = "idle" /\ call' = [call EXCEPT ![c] = "stop"]
      /\ UNCHANGED <<handle, event, told, heeds, beat>>
  BY DEF Disable, Enable, Goto, service, threads
<1>2. Beating' = Beating
  BY <1>1 DEF Beating, Alive
<1>3. UnderWay' = UnderWay \cup {c}
  BY <1>1 DEF UnderWay, TypeOK
<1>4. CASE Disable(c)
  <2>1. then' = [then EXCEPT ![c] = "idle"] /\ Starting = {}
    BY <1>4 DEF Disable
  <2>2. Starting' = {}
    BY <1>1, <1>3, <2>1 DEF Starting, UnderWay, TypeOK
  <2> QED
    BY <1>1, <1>2, <2>2 DEF Uncrossed, StartsAlone, CallKnowsThread, HeldByService, TypeOK
<1>5. CASE Enable(c)
  <2>1. UnderWay = {}
    BY <1>5 DEF Enable
  <2>2. PICK w \in Workers : beat[w] = "unborn" /\ mine' = [mine EXCEPT ![c] = w]
    BY <1>5 DEF Enable
  <2>3. UnderWay' = {c} /\ Starting' \subseteq {c}
    BY <1>3, <2>1 DEF Starting
  <2>4. call'[c] = "stop" /\ mine'[c] = w
    BY <1>1, <2>2 DEF TypeOK
  <2>5. \A d \in Callers : call'[d] \in {"idle", "stop"}
    BY <1>1, <2>1 DEF UnderWay, TypeOK
  <2> QED
    BY <1>1, <1>2, <2>2, <2>3, <2>4, <2>5
    DEF Uncrossed, StartsAlone, CallKnowsThread, HeldByService
<1> QED
  BY <1>4, <1>5

\* So the invariant is inductive.
LEMMA IInvStep == IInv /\ [Next]_vars => IInv'
<1> SUFFICES ASSUME IInv, [Next]_vars PROVE IInv'
  OBVIOUS
<1>1. TypeOK' /\ StartsKnow'
  BY TypeStep, StartsKnowStep DEF IInv
<1>2. ASSUME NEW c \in Callers, Disable(c) \/ Enable(c) \/ Stop(c) \/ Start(c), ~crossed'
      PROVE  Uncrossed'
  <2>1. CASE Stop(c)
    BY <1>2, <2>1, UncrossedStop DEF IInv
  <2>2. CASE Start(c)
    <3>1. crossed' = crossed
      BY <2>2 DEF Start, StartEvent, StartThread, StartRuns
    <3> QED
      BY <1>2, <2>2, <3>1, UncrossedStart DEF IInv
  <2>3. CASE Disable(c) \/ Enable(c)
    <3>1. ~crossed
      BY <1>2, <2>3 DEF Disable, Enable
    <3> QED
      BY <1>2, <2>3, <3>1, UncrossedCall DEF IInv
  <2> QED
    BY <1>2, <2>1, <2>2, <2>3
<1>3. ASSUME NEW w \in Workers, Beat(w), ~crossed' PROVE Uncrossed'
  <2>1. /\ UNCHANGED service /\ UNCHANGED calls /\ heeds' = heeds
        /\ beat[w] \notin Dead
        /\ \A v \in Workers : v # w => beat'[v] = beat[v]
    BY <1>3, BeatLeaves DEF IInv
  <2>2. Beating' \subseteq Beating
    BY <2>1 DEF Beating, Alive, service
  <2>3. \A v \in Workers : beat[v] = "unborn" => beat'[v] = "unborn"
    BY <2>1 DEF Dead
  <2>4. Uncrossed
    BY <1>3, <2>1 DEF IInv, calls
  <2> QED
    BY <2>1, <2>2, <2>3, <2>4, QuietStep DEF IInv
<1>4. ASSUME PrintBegins \/ PrintEnds \/ WindowMoves \/ UNCHANGED vars, ~crossed'
      PROVE  Uncrossed'
  <2>1. UNCHANGED service /\ UNCHANGED calls /\ UNCHANGED threads
    BY <1>4 DEF PrintBegins, PrintEnds, WindowMoves, vars
  <2>2. Beating' = Beating
    BY <2>1 DEF Beating, Alive, service, threads
  <2>3. Uncrossed
    BY <1>4, <2>1 DEF IInv, calls
  <2> QED
    BY <2>1, <2>2, <2>3, QuietStep DEF IInv, threads
<1> QED
  BY <1>1, <1>2, <1>3, <1>4 DEF Next, IInv

\* The invariant of the calls, however they overlap.
THEOREM CallsInvariant == Spec => []IInv
<1>1. Init => IInv
  <2> SUFFICES ASSUME Init PROVE IInv
    OBVIOUS
  <2>1. TypeOK /\ UnderWay = {}
    BY TypeInit DEF Init, UnderWay
  <2>2. StartsKnow /\ StartsAlone
    BY <2>1 DEF Init, StartsKnow, StartsAlone, Starting, UnderWay
  <2>3. CallKnowsThread /\ HeldByService
    BY <2>1 DEF Init, CallKnowsThread, HeldByService, Starting, UnderWay, Beating, Alive, Dead
  <2> QED
    BY <2>1, <2>2, <2>3 DEF IInv, Uncrossed
<1> QED
  BY <1>1, IInvStep, PTL DEF Spec

\* Between calls the one heartbeat that runs is the one the service holds, unless a
\* start has crossed another call and nothing has settled it since.
THEOREM HeartbeatIsHeld == Spec => [](OneHeartbeat /\ NoOrphan)
<1>1. IInv => OneHeartbeat /\ NoOrphan
  BY DEF IInv, Uncrossed, HeldByService, OneHeartbeat, NoOrphan
<1> QED
  BY <1>1, CallsInvariant, PTL

\* When a stop that no start crosses returns nothing beats, whichever other stops
\* overlap it (update_keep_alive, stop_keep_alive).
THEOREM StopLeavesSilence == Spec => StopSilences
<1>1. IInv /\ [Next]_vars =>
        [\A c \in Callers :
           ~crossed /\ call[c] # "idle" /\ call'[c] = "idle" /\ then[c] = "idle"
             => Beating' = {}]_vars
  <2> SUFFICES ASSUME IInv, Next, NEW c \in Callers, ~crossed,
                      call[c] # "idle", call'[c] = "idle", then[c] = "idle"
               PROVE  Beating' = {}
    BY DEF vars
  <2>1. TypeOK /\ Uncrossed /\ StartsKnow
    BY DEF IInv
  <2>2. PICK d \in Callers : Disable(d) \/ Enable(d) \/ Stop(d) \/ Start(d)
    BY <2>1, BeatLeaves DEF Next, PrintBegins, PrintEnds, WindowMoves, calls
  <2>3. d = c
    BY <2>1, <2>2 DEF Disable, Enable, Stop, StopLooks, StopSignals, StopJoins,
                      StopForgetsThread, Return, Start, StartEvent, StartThread, StartRuns,
                      Goto, TypeOK
  <2>4. ~Disable(c) /\ ~Enable(c) /\ ~StopSignals(c) /\ ~Start(c)
    BY <2>1 DEF Disable, Enable, StopSignals, Start, StartEvent, StartThread, StartRuns, Goto,
                StartsKnow, Starting, TypeOK
  <2>5. StopLooks(c) \/ StopJoins(c) \/ StopForgetsThread(c)
    BY <2>2, <2>3, <2>4 DEF Stop
  <2>6. Beating' = Beating
    BY <2>5 DEF StopLooks, StopJoins, StopForgetsThread, service, threads, Beating, Alive
  <2>7. CASE StopLooks(c)
    <3>1. handle = None \/ ~Alive(handle)
      BY <2>1, <2>7 DEF StopLooks, Goto, TypeOK
    <3> QED
      BY <2>1, <2>6, <3>1, NothingBeats
  <2>8. CASE StopJoins(c) \/ StopForgetsThread(c)
    BY <2>1, <2>6, <2>8 DEF StopJoins, StopForgetsThread, Uncrossed, CallKnowsThread
  <2> QED
    BY <2>5, <2>7, <2>8
<1> QED
  BY <1>1, CallsInvariant, PTL DEF Spec, StopSilences

=============================================================================
