--------------------------- MODULE RelayPowerProofs ---------------------------
(* What TLAPS proves of relay power control, for every offset, every age a   *)
(* tick's clock may have, and any number of settings changes and restarts.   *)
EXTENDS RelayPower, TLAPS

\* The bound on a recorded moment survives the passing of time.
LEMMA LaterType ==
  ASSUME NEW m \in Moments
  PROVE  /\ Later(m) \in Moments
         /\ Later(m) = NoMoment <=> m = NoMoment
         /\ m # NoMoment => Later(m) \in Int /\ m \in Int /\ Later(m) >= m - 1
                            /\ (m > 0 - MaxAge => Later(m) = m - 1)
                            /\ (m = 0 - MaxAge => Later(m) = m)
  BY RelayAssumption DEF RelayAssumption, Later, Moments

\* The initial states satisfy the invariant.
LEMMA IInvInit == Init => IInv
<1> SUFFICES ASSUME Init PROVE IInv
  OBVIOUS
<1> USE RelayAssumption DEF Init, RelayAssumption
<1>1. TypeOK
  <2>1. /\ quiet \in 0 .. Offset /\ tries \in 0 .. MaxTries
        /\ changes \in 0 .. MaxChanges /\ crashes \in 0 .. MaxCrashes
    BY DEF MaxTries
  <2>2. /\ age \in [Threads -> 0 .. MaxAge] /\ moment \in [Threads -> Moments]
        /\ mem \in Moments /\ disk \in Moments
    BY DEF Moments
  <2> QED
    BY <2>1, <2>2 DEF TypeOK
<1>2. Control /\ Covered
  BY DEF Control, Covered, Threads, InCall
<1>3. Arming /\ ArmedIsOnDisk /\ Window
  BY DEF Arming, ArmedIsOnDisk, Window, Threads
<1> QED
  BY <1>1, <1>2, <1>3 DEF IInv

\* One thread's move to another position leaves a function of positions.
LEMMA GotoType ==
  ASSUME TypeOK, NEW t \in Threads,
         NEW where \in Aging \cup {"idle", "send", "disarm", "clear", "queued",
                      "gate", "switch", "boot", "print", "printed", "letgo"},
         Goto(t, where)
  PROVE  /\ pc' \in [Threads -> Aging \cup {"idle", "send", "disarm", "clear", "queued",
                      "gate", "switch", "boot", "print", "printed", "letgo"}]
         /\ pc'[t] = where
         /\ \A u \in Threads \ {t} : pc'[u] = pc[u]
  BY DEF TypeOK, Goto

-----------------------------------------------------------------------------
(* arm() and disarm().                                                     *)

\* arm() computes its moment from settings and origin before it takes the lock.
LEMMA ArmReadsStep == ASSUME IInv, NEW t \in Threads, ArmReads(t) PROVE IInv'
<1> USE DEF IInv, ArmReads, power, schedule, history, bounds
<1>1. TypeOK'
  BY GotoType, RelayAssumption
     DEF TypeOK, Origin, Moments, RelayAssumption, Aging, Threads
<1>2. Control'
  BY GotoType DEF TypeOK, Control, InCall, Threads, Aging
<1>3. Arming'
  BY GotoType, RelayAssumption DEF TypeOK, Arming, Origin, RelayAssumption, Aging
<1>4. ArmedIsOnDisk' /\ Window'
  BY DEF ArmedIsOnDisk, Window
<1>5. Covered'
  BY GotoType DEF TypeOK, Covered, Threads, Aging
<1> QED
  BY <1>1, <1>2, <1>3, <1>4, <1>5

\* arm() records its moment in memory and on disk in one critical section.
LEMMA ArmWritesStep == ASSUME IInv, NEW t \in Threads, ArmWrites(t) PROVE IInv'
<1> USE DEF IInv, ArmWrites, power, bounds
<1>0. moment[t] \in (Offset - age[t]) .. Offset /\ age[t] \in 0 .. MaxAge
  BY DEF Arming, TypeOK
<1>1. TypeOK'
  <2>1. moment[t] \in Moments /\ moment' \in [Threads -> Moments]
    BY DEF TypeOK, Moments
  <2>2. quiet' \in 0 .. Offset
    BY <1>0, RelayAssumption DEF TypeOK, RelayAssumption
  <2>3. pc' \in [Threads -> Aging \cup {"idle", "send", "disarm", "clear", "queued",
                      "gate", "switch", "boot", "print", "printed", "letgo"}]
    BY DEF TypeOK, Goto
  <2> QED
    BY <2>1, <2>2, <2>3 DEF TypeOK
<1>2. Control'
  BY DEF TypeOK, Control, InCall, Threads, Goto
<1>3. Arming'
  BY DEF TypeOK, Control, InCall, Threads, Arming, Goto
<1>4. ArmedIsOnDisk' /\ Window'
  BY <1>0, RelayAssumption DEF TypeOK, ArmedIsOnDisk, Window, RelayAssumption
<1>5. Covered'
  BY DEF TypeOK, Control, InCall, Covered, Threads, Goto
<1> QED
  BY <1>1, <1>2, <1>3, <1>4, <1>5

\* disarm() reads the schedule, loading it if it is the first to do so.
LEMMA DisarmReadsStep == ASSUME IInv, NEW t \in Threads, DisarmReads(t) PROVE IInv'
<1> USE DEF IInv, DisarmReads, Load, Scheduled, power, history, bounds
<1>1. TypeOK'
  BY GotoType DEF TypeOK
<1>2. Control'
  BY GotoType DEF TypeOK, Control, InCall, Threads
<1>3. Arming'
  BY GotoType DEF TypeOK, Arming
<1>4. ArmedIsOnDisk' /\ Window'
  BY DEF ArmedIsOnDisk, Window
<1>5. Covered'
  BY GotoType DEF TypeOK, Covered, Threads
<1> QED
  BY <1>1, <1>2, <1>3, <1>4, <1>5

\* disarm() clears memory, and the file unless it saw nothing scheduled.
LEMMA DisarmWritesStep == ASSUME IInv, NEW t \in Threads, DisarmWrites(t) PROVE IInv'
<1> USE DEF IInv, DisarmWrites, power, history, bounds
<1>1. TypeOK'
  <2>1. pc' \in [Threads -> Aging \cup {"idle", "send", "disarm", "clear", "queued",
                      "gate", "switch", "boot", "print", "printed", "letgo"}]
    BY DEF TypeOK, Goto
  <2> QED
    BY <2>1 DEF TypeOK, Moments
<1>2. Control'
  BY DEF TypeOK, Control, InCall, Threads, Goto
<1>3. Arming'
  BY DEF TypeOK, Control, InCall, Threads, Arming, Goto
<1>4. ArmedIsOnDisk' /\ Window'
  BY DEF ArmedIsOnDisk, Window
<1>5. Covered'
  BY DEF TypeOK, Control, InCall, Covered, Threads, Goto
<1> QED
  BY <1>1, <1>2, <1>3, <1>4, <1>5

-----------------------------------------------------------------------------
(* The scheduler and the worker.                                           *)

\* A tick: its clock is taken, the queue is asked, the moment is looked at.
LEMMA TickStep ==
  ASSUME IInv,
         TickBegins \/ TickDropsStale \/ TickProbesQueue \/ TickReadsSchedule
         \/ TurnOffDelivered \/ TurnOffFails
  PROVE  IInv'
<1> USE DEF IInv, Load, Scheduled, Call, calls, schedule, power, history, bounds
<1>0. "scheduler" \in Threads /\ "worker" \in Threads
  BY DEF Threads
<1>1. CASE TickBegins
  <2>1. TypeOK'
    BY <1>0, <1>1, GotoType, RelayAssumption
       DEF TickBegins, TypeOK, Aging, RelayAssumption
  <2>2. Control' /\ Covered'
    BY <1>0, <1>1, GotoType DEF TickBegins, TypeOK, Control, Covered, InCall, Aging
  <2>3. Arming' /\ ArmedIsOnDisk' /\ Window'
    BY <1>0, <1>1, GotoType
       DEF TickBegins, TypeOK, Arming, ArmedIsOnDisk, Window, Threads, Aging
  <2> QED
    BY <2>1, <2>2, <2>3
<1>2. CASE TickDropsStale
  <2>1. TypeOK'
    BY <1>0, <1>2, GotoType DEF TickDropsStale, TypeOK
  <2>2. Control' /\ Covered'
    BY <1>0, <1>2, GotoType DEF TickDropsStale, TypeOK, Control, Covered, InCall
  <2>3. Arming' /\ ArmedIsOnDisk' /\ Window'
    BY <1>0, <1>2, GotoType
       DEF TickDropsStale, TypeOK, Arming, ArmedIsOnDisk, Window, Threads
  <2> QED
    BY <2>1, <2>2, <2>3
<1>3. CASE TickProbesQueue
  <2>1. TypeOK'
    BY <1>0, <1>3, GotoType DEF TickProbesQueue, TypeOK, Aging
  <2>2. Control' /\ Covered'
    BY <1>0, <1>3, GotoType DEF TickProbesQueue, TypeOK, Control, Covered, InCall, Aging
  <2>3. Arming' /\ ArmedIsOnDisk' /\ Window'
    BY <1>0, <1>3, GotoType
       DEF TickProbesQueue, TypeOK, Arming, ArmedIsOnDisk, Window, Threads, Aging
  <2> QED
    BY <2>1, <2>2, <2>3
<1>4. CASE TickReadsSchedule
  <2>1. TypeOK'
    BY <1>0, <1>4, GotoType DEF TickReadsSchedule, TypeOK
  <2>2. Control' /\ Covered'
    BY <1>0, <1>4, GotoType DEF TickReadsSchedule, TypeOK, Control, Covered, InCall
  <2>3. Arming' /\ ArmedIsOnDisk' /\ Window'
    BY <1>0, <1>4, GotoType
       DEF TickReadsSchedule, TypeOK, Arming, ArmedIsOnDisk, Window, Threads
  <2> QED
    BY <2>1, <2>2, <2>3
<1>5. CASE TurnOffDelivered \/ TurnOffFails
  <2>1. TypeOK'
    <3>1. mains' \in BOOLEAN /\ up' \in BOOLEAN
      BY <1>5 DEF TurnOffDelivered, TurnOffFails, TypeOK
    <3>2. /\ age' \in [Threads -> 0 .. MaxAge]
          /\ after' \in [Threads -> {"idle", "print", "printed"}]
      BY <1>5, RelayAssumption
         DEF TurnOffDelivered, TurnOffFails, TypeOK, RelayAssumption
    <3>3. Goto("scheduler", "disarm")
      BY <1>5 DEF TurnOffDelivered, TurnOffFails
    <3> QED
      BY <1>0, <1>5, <3>1, <3>2, <3>3, GotoType
         DEF TurnOffDelivered, TurnOffFails, TypeOK
  <2>2. Control' /\ Covered'
    BY <1>0, <1>5, GotoType
       DEF TurnOffDelivered, TurnOffFails, TypeOK, Control, Covered, InCall
  <2>3. Arming' /\ ArmedIsOnDisk' /\ Window'
    BY <1>0, <1>5, GotoType
       DEF TurnOffDelivered, TurnOffFails, TypeOK, Arming, ArmedIsOnDisk, Window, Threads
  <2> QED
    BY <2>1, <2>2, <2>3
<1> QED
  BY <1>1, <1>2, <1>3, <1>4, <1>5

\* The worker's own steps leave the schedule alone: they move it, count its
\* webhooks, and end the pending work.
LEMMA WorkerStep ==
  ASSUME IInv,
         \/ Submit \/ JobWithdrawn \/ TakeJob \/ GatePasses \/ GateMustSwitch
         \/ TurnOnDelivered \/ TurnOnFails \/ GateReleases \/ GateWaitsInVain
         \/ PrintReachesPrinter \/ PrintContinues \/ PrintFails \/ LetGo
  PROVE  IInv'
<1> USE DEF IInv, Call, calls, schedule, power, history, bounds
<1>0. "scheduler" \in Threads /\ "worker" \in Threads
  BY DEF Threads
<1>1. /\ UNCHANGED <<settings, schedule, moment, current, quiet, changes, crashes>>
      /\ \E where \in {"idle", "queued", "gate", "print", "switch", "boot", "letgo",
                       "arm", "printed"} : Goto("worker", where)
  BY DEF Submit, JobWithdrawn, TakeJob, GatePasses, GateMustSwitch, TurnOnDelivered,
         TurnOnFails, GateReleases, GateWaitsInVain, PrintReachesPrinter,
         PrintContinues, PrintFails, LetGo
<1>2. /\ pc' \in [Threads -> Aging \cup {"idle", "send", "disarm", "clear", "queued",
                      "gate", "switch", "boot", "print", "printed", "letgo"}]
      /\ pc'["scheduler"] = pc["scheduler"]
      /\ pc'["worker"] # "armWrite"
  BY <1>0, <1>1, GotoType DEF Aging
<1>3. /\ age' \in [Threads -> 0 .. MaxAge] /\ age'["scheduler"] = age["scheduler"]
      /\ after' \in [Threads -> {"idle", "print", "printed"}]
      /\ after'["scheduler"] = after["scheduler"]
  <2>1. CASE GateReleases \/ PrintReachesPrinter
    BY <1>0, <2>1, RelayAssumption
       DEF RelayAssumption, GateReleases, PrintReachesPrinter, TypeOK
  <2>2. CASE UNCHANGED <<after, age>>
    BY <2>2 DEF TypeOK
  <2> QED
    BY <2>1, <2>2 DEF Submit, JobWithdrawn, TakeJob, GatePasses, GateMustSwitch,
       TurnOnDelivered, TurnOnFails, GateWaitsInVain, PrintContinues, PrintFails, LetGo
<1>7. mains' \in BOOLEAN /\ up' \in BOOLEAN
  <2>1. UNCHANGED up /\ (mains' = mains \/ mains' = TRUE)
    BY DEF Submit, JobWithdrawn, TakeJob, GatePasses, GateMustSwitch, TurnOnDelivered,
       TurnOnFails, GateReleases, GateWaitsInVain, PrintReachesPrinter,
       PrintContinues, PrintFails, LetGo
  <2> QED
    BY <2>1 DEF TypeOK
<1>8. \/ UNCHANGED <<busy, covered>>
      \/ busy' = TRUE /\ UNCHANGED covered
      \/ busy' = FALSE /\ covered' = FALSE
  BY DEF Submit, JobWithdrawn, TakeJob, GatePasses, GateMustSwitch, TurnOnDelivered,
     TurnOnFails, GateReleases, GateWaitsInVain, PrintReachesPrinter,
     PrintContinues, PrintFails, LetGo
<1>9. busy' \in BOOLEAN /\ covered' \in BOOLEAN
  BY <1>8 DEF TypeOK
<1>4. tries' \in 0 .. MaxTries /\ Control'
  <2>1. CASE Submit \/ JobWithdrawn \/ TakeJob \/ GatePasses
    BY <1>0, <2>1, GotoType DEF Submit, JobWithdrawn, TakeJob, GatePasses, TypeOK,
       Control, InCall
  <2>2. CASE GateMustSwitch
    BY <1>0, <2>2, GotoType DEF GateMustSwitch, TypeOK, Control, InCall, MaxTries
  <2>6. CASE TurnOnFails
    BY <1>0, <2>6, GotoType DEF TurnOnFails, TypeOK, Control, InCall
  <2>5. CASE TurnOnDelivered
    <3>1. tries' = tries + 1 /\ tries \in 0 .. 2 /\ tries < 2
      BY <2>5 DEF TurnOnDelivered, TypeOK, Control, MaxTries
    <3>2. pc'["worker"] = "boot"
      BY <1>0, <2>5, GotoType DEF TurnOnDelivered
    <3>3. Control'
      BY <2>5, <3>2 DEF TurnOnDelivered, Control, InCall
    <3> QED
      BY <3>1, <3>3 DEF MaxTries
  <2>3. CASE GateWaitsInVain \/ PrintContinues \/ PrintFails \/ LetGo
    BY <1>0, <2>3, GotoType DEF GateWaitsInVain, PrintContinues, PrintFails, LetGo,
       TypeOK, Control, InCall, MaxTries
  <2>4. CASE GateReleases \/ PrintReachesPrinter
    BY <1>0, <2>4, GotoType DEF GateReleases, PrintReachesPrinter, TypeOK, Control,
       InCall, Aging
  <2> QED
    BY <2>1, <2>2, <2>3, <2>4, <2>5, <2>6
<1>5. TypeOK'
  BY <1>1, <1>2, <1>3, <1>4, <1>7, <1>9 DEF TypeOK
<1>6. Arming' /\ ArmedIsOnDisk' /\ Window'
  BY <1>1, <1>2, <1>3 DEF Arming, ArmedIsOnDisk, Window, Threads
<1>10. Covered'
  BY <1>2, <1>8 DEF Covered
<1> QED
  BY <1>4, <1>5, <1>6, <1>10

-----------------------------------------------------------------------------
(* The surroundings.                                                       *)

\* Time passes for every recorded and every held moment alike.
LEMMA ElapseStep == ASSUME IInv, Elapse PROVE IInv'
<1> USE DEF IInv, Elapse, power, bounds
<1>0. /\ Later(mem) \in Moments /\ Later(disk) \in Moments
      /\ \A t \in Threads : Later(moment[t]) \in Moments
      /\ \A t \in Threads : age[t] \in Nat /\ age[t] <= MaxAge
  BY LaterType, RelayAssumption DEF TypeOK, RelayAssumption
<1>1. TypeOK'
  <2>1. age' \in [Threads -> 0 .. MaxAge]
    BY <1>0, RelayAssumption DEF RelayAssumption
  <2>2. quiet' \in 0 .. Offset
    BY RelayAssumption DEF TypeOK, RelayAssumption
  <2> QED
    BY <1>0, <2>1, <2>2 DEF TypeOK
<1>2. Control' /\ Covered'
  BY DEF Control, Covered
<1>3. Arming'
  <2>1. SUFFICES ASSUME NEW t \in Threads, pc[t] = "armWrite"
                 PROVE  moment'[t] \in (Offset - age'[t]) .. Offset
    BY DEF Arming
  <2>2. moment[t] \in (Offset - age[t]) .. Offset /\ age[t] < MaxAge
    BY <2>1 DEF Arming, Aging
  <2>3. moment[t] \in Int /\ moment[t] > 0 - MaxAge /\ moment[t] # NoMoment
    BY <1>0, <2>2, RelayAssumption DEF RelayAssumption
  <2>4. moment'[t] = moment[t] - 1 /\ age'[t] = age[t] + 1
    BY <2>1, <2>3, RelayAssumption DEF Later, Aging, RelayAssumption
  <2> QED
    BY <1>0, <2>2, <2>3, <2>4, RelayAssumption DEF RelayAssumption
<1>4. ArmedIsOnDisk'
  BY LaterType DEF ArmedIsOnDisk, TypeOK
<1>5. Window'
  <2>1. CASE disk = NoMoment
    BY <2>1, LaterType DEF TypeOK, Window
  <2>2. CASE disk # NoMoment
    <3>1. /\ disk \in Int /\ disk' \in Int /\ disk' >= disk - 1
          /\ (disk = 0 - MaxAge => disk' = disk)
          /\ disk >= 0 - MaxAge /\ disk' >= 0 - MaxAge
      BY <2>2, LaterType, RelayAssumption DEF TypeOK, Moments, RelayAssumption
    <3>2. quiet \in Int /\ quiet' = IF quiet < Offset THEN quiet + 1 ELSE quiet
      BY DEF TypeOK
    <3>3. disk + quiet + MaxAge >= Offset
      BY <2>2 DEF Window
    <3> QED
      BY <3>1, <3>2, <3>3, RelayAssumption DEF Window, RelayAssumption
  <2> QED
    BY <2>1, <2>2
<1> QED
  BY <1>1, <1>2, <1>3, <1>4, <1>5

\* Printer, hand-sent webhooks, readers and settings leave the threads alone.
LEMMA SurroundingsStep ==
  ASSUME IInv, PrinterChanges \/ SendNow \/ StatusReads \/ ChangeSettings
  PROVE  IInv'
<1> USE DEF IInv, PrinterChanges, SendNow, StatusReads, ChangeSettings, Load, Scheduled,
       power, schedule, calls, history, bounds
<1>1. TypeOK'
  <2>1. mains' \in BOOLEAN /\ up' \in BOOLEAN /\ settings' \in Settings
    BY DEF TypeOK
  <2>2. mem' \in Moments /\ loaded' \in BOOLEAN /\ UNCHANGED disk
    BY DEF TypeOK
  <2>3. changes' \in 0 .. MaxChanges
    BY RelayAssumption DEF TypeOK, RelayAssumption
  <2> QED
    BY <2>1, <2>2, <2>3 DEF TypeOK
<1>2. Control' /\ Arming' /\ Covered'
  BY DEF Control, Arming, Covered
<1>3. ArmedIsOnDisk' /\ Window'
  BY DEF ArmedIsOnDisk, Window
<1> QED
  BY <1>1, <1>2, <1>3

\* A restart forgets the threads and memory; what is on disk still holds.
LEMMA RestartStep == ASSUME IInv, Restart PROVE IInv'
<1> USE DEF IInv, Restart, power
<1>1. TypeOK'
  <2>1. crashes' \in 0 .. MaxCrashes /\ tries' \in 0 .. MaxTries
    BY RelayAssumption DEF TypeOK, RelayAssumption, MaxTries
  <2>2. age' \in [Threads -> 0 .. MaxAge] /\ moment' \in [Threads -> Moments]
        /\ mem' \in Moments
    BY RelayAssumption DEF RelayAssumption, Moments
  <2> QED
    BY <2>1, <2>2 DEF TypeOK
<1>2. Control' /\ Arming' /\ Covered' /\ ArmedIsOnDisk' /\ Window'
  BY DEF Control, Arming, Covered, ArmedIsOnDisk, Window, Threads, InCall
<1> QED
  BY <1>1, <1>2

\* Every step of every thread and of the surroundings keeps the invariant.
LEMMA IInvStep == IInv /\ [Next]_vars => IInv'
<1> SUFFICES ASSUME IInv, [Next]_vars PROVE IInv'
  OBVIOUS
<1>1. ASSUME NEW t \in Threads, Calls(t) PROVE IInv'
  BY <1>1, ArmReadsStep, ArmWritesStep, DisarmReadsStep, DisarmWritesStep DEF Calls
<1>2. CASE Scheduler
  BY <1>1, <1>2, TickStep DEF Scheduler, Threads
<1>3. CASE Worker \/ Submit \/ JobWithdrawn
  BY <1>1, <1>3, WorkerStep DEF Worker, Threads
<1>4. CASE PrinterChanges \/ SendNow \/ StatusReads \/ ChangeSettings
  BY <1>4, SurroundingsStep
<1>5. CASE UNCHANGED vars
  BY <1>5 DEF IInv, TypeOK, Control, Arming, ArmedIsOnDisk, Window, Covered, vars,
              power, schedule, calls, history, bounds
<1> QED
  BY <1>2, <1>3, <1>4, <1>5, ElapseStep, RestartStep DEF Next

\* The invariant every other theorem of this module rests on.
THEOREM PowerInvariant == Spec => []IInv
  BY IInvInit, IInvStep, PTL DEF Spec

-----------------------------------------------------------------------------
(* The theorems.                                                           *)

\* Every variable stays in its type: no moment older than a tick's clock is
\* recorded, and the gate sends turn_on no more often than turn_on_waits says.
THEOREM PowerTypeCorrect == Spec => []TypeOK
  BY PowerInvariant, PTL DEF IInv

\* Whatever tick(), the gate and a print do to each other, a schedule that
\* stands in memory stands in relay_power.json.
THEOREM ScheduleIsOnDisk == Spec => []ArmedIsOnDisk
  BY PowerInvariant, PTL DEF IInv

\* While nobody changes the settings every step keeps memory and file equal.
LEMMA UndisturbedStep == IInv /\ Undisturbed /\ [Next]_vars => Undisturbed'
<1> SUFFICES ASSUME IInv, Undisturbed, [Next]_vars, changes' = 0 PROVE Undisturbed'
  BY DEF Undisturbed
<1>a. ~ChangeSettings
  BY DEF IInv, TypeOK, ChangeSettings
<1>b. ASSUME NEW t \in Threads, Calls(t) PROVE changes' = changes /\ settings' = settings
  BY <1>b DEF Calls, ArmReads, ArmWrites, DisarmReads, DisarmWrites, bounds
<1>c. ASSUME Scheduler PROVE changes' = changes /\ settings' = settings
  BY <1>b, <1>c DEF Scheduler, Threads, bounds, TickBegins, TickDropsStale,
     TickProbesQueue, TickReadsSchedule, TurnOffDelivered, TurnOffFails
<1>d. ASSUME Worker PROVE changes' = changes /\ settings' = settings
  BY <1>b, <1>d DEF Worker, Threads, bounds, TakeJob, GatePasses, GateMustSwitch,
     TurnOnDelivered, TurnOnFails, GateReleases, GateWaitsInVain, PrintReachesPrinter,
     PrintContinues, PrintFails, LetGo
<1>0. changes = 0 /\ settings' = settings
  BY <1>a, <1>c, <1>d DEF Next, Submit, JobWithdrawn, Elapse, PrinterChanges, SendNow,
     StatusReads, Restart, bounds, vars
<1>e. DOMAIN pc = Threads /\ DOMAIN current = Threads /\ pc = [t \in Threads |-> pc[t]]
  BY DEF IInv, TypeOK
<1>f. Control
  BY DEF IInv
<1> USE <1>0, <1>e DEF Undisturbed, Goto, Call, calls, schedule, Threads, Load, Scheduled
<1>1. ASSUME NEW t \in Threads, Calls(t) PROVE Undisturbed'
  <2>1. CASE ArmReads(t) BY <1>1, <2>1 DEF ArmReads
  <2>2. CASE ArmWrites(t)
    <3>1. moment[t] # NoMoment
      BY <2>2, RelayAssumption DEF ArmWrites, IInv, TypeOK, Arming, RelayAssumption
    <3> QED
      BY <1>1, <1>f, <2>2, <3>1 DEF ArmWrites, Control, InCall
  <2>3. CASE DisarmReads(t) BY <1>1, <2>3 DEF DisarmReads
  <2>4. CASE DisarmWrites(t) BY <1>1, <1>f, <2>4 DEF DisarmWrites, Control, InCall
  <2> QED BY <1>1, <2>1, <2>2, <2>3, <2>4 DEF Calls
<1>2. CASE TickBegins \/ TickDropsStale
  BY <1>2 DEF TickBegins, TickDropsStale
<1>3. CASE TickProbesQueue \/ TickReadsSchedule
  BY <1>3 DEF TickProbesQueue, TickReadsSchedule
<1>4. ASSUME TurnOffDelivered \/ TurnOffFails PROVE Undisturbed'
  BY <1>4 DEF TurnOffDelivered, TurnOffFails
<1>5. CASE TakeJob \/ GatePasses \/ GateMustSwitch \/ TurnOnDelivered \/ TurnOnFails
  BY <1>5 DEF TakeJob, GatePasses, GateMustSwitch, TurnOnDelivered, TurnOnFails
<1>10. CASE GateReleases \/ PrintReachesPrinter
  BY <1>10 DEF GateReleases, PrintReachesPrinter
<1>11. CASE GateWaitsInVain \/ PrintContinues \/ PrintFails \/ LetGo
  BY <1>11 DEF GateWaitsInVain, PrintContinues, PrintFails, LetGo
<1>12. CASE Worker
  BY <1>1, <1>5, <1>10, <1>11, <1>12 DEF Worker
<1>13. CASE Scheduler
  BY <1>1, <1>2, <1>3, <1>4, <1>13 DEF Scheduler
<1>6. CASE Submit \/ JobWithdrawn
  BY <1>6 DEF Submit, JobWithdrawn
<1>7. CASE Elapse
  <2>1. /\ Later(mem) = NoMoment <=> mem = NoMoment
        /\ Later(disk) = NoMoment <=> disk = NoMoment
    BY LaterType DEF IInv, TypeOK
  <2> QED
    BY <1>7, <2>1 DEF Elapse
<1>8. CASE PrinterChanges \/ SendNow \/ StatusReads \/ UNCHANGED vars
  BY <1>8 DEF PrinterChanges, SendNow, StatusReads, vars
<1>9. CASE Restart
  BY <1>9 DEF Restart
<1> QED
  BY <1>a, <1>6, <1>7, <1>8, <1>9, <1>12, <1>13 DEF Next

\* A restart at any moment finds in relay_power.json the schedule that stands;
\* while nobody changes the settings it finds nothing else there.
THEOREM RestartFindsSchedule == Spec => []RestartKeepsSchedule
<1>1. Init => Undisturbed
  BY DEF Init, Undisturbed, Threads
<1>2. IInv /\ Undisturbed => RestartKeepsSchedule
  BY DEF IInv, Undisturbed, RestartKeepsSchedule, RestartSeesSchedule
<1> QED
  BY <1>1, <1>2, UndisturbedStep, PowerInvariant, PTL DEF Spec

\* A tick under which work stayed pending never reaches the turn_off.
THEOREM WorkKeepsPower == Spec => []NoCutThroughPendingWork
<1>1. IInv => NoCutThroughPendingWork
  BY DEF IInv, Covered, NoCutThroughPendingWork
<1> QED
  BY <1>1, PowerInvariant, PTL

\* The turn_off is never sent before the window after the last recorded
\* print is over, to within the age of the tick's clock.
THEOREM WindowIsKept == Spec => CutKeepsWindow
<1>1. ASSUME IInv, [Next]_vars PROVE [CutIsDue]_vars
  <2> SUFFICES ASSUME pc["scheduler"] # "send", pc'["scheduler"] = "send"
               PROVE  quiet + MaxAge >= Offset
    BY DEF CutIsDue
  <2>1. TickReadsSchedule
    BY <1>1 DEF IInv, TypeOK, Control, Next, Scheduler, Worker, Calls, vars, InCall,
       TickBegins, TickDropsStale, TickProbesQueue, TurnOffDelivered, TurnOffFails,
       ArmReads, ArmWrites, DisarmReads, DisarmWrites, Submit, JobWithdrawn, TakeJob,
       GatePasses, GateMustSwitch, TurnOnDelivered, TurnOnFails, GateReleases,
       GateWaitsInVain, PrintReachesPrinter, PrintContinues, PrintFails, LetGo,
       Elapse, PrinterChanges, SendNow, StatusReads, ChangeSettings, Restart, Goto, Call,
       Threads
  <2>2. /\ Scheduled # NoMoment /\ ~(Scheduled + age["scheduler"] > 0)
        /\ age["scheduler"] \in 0 .. MaxAge
    BY <1>1, <2>1 DEF TickReadsSchedule, IInv, TypeOK, Goto, calls, Threads
  <2>3. disk = Scheduled /\ disk + quiet + MaxAge >= Offset
    BY <1>1, <2>2 DEF IInv, ArmedIsOnDisk, Window, Scheduled
  <2>4. disk \in Int /\ quiet \in Int
    BY <1>1, <2>2, <2>3, RelayAssumption DEF IInv, TypeOK, Moments, RelayAssumption
  <2> QED
    BY <2>2, <2>3, <2>4, RelayAssumption DEF RelayAssumption
<1> QED
  BY <1>1, PowerInvariant, PTL DEF Spec, CutKeepsWindow
=============================================================================
