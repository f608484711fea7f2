------------------------------ MODULE RelayPower ------------------------------
(***************************************************************************)
(* Relay power control (src/services/relay_service.py): the turn-off       *)
(* schedule kept in memory and in relay_power.json, the scheduler thread   *)
(* that acts on it, and the queue worker that switches the printer on in   *)
(* the pre-job gate and re-arms the schedule after a print.                *)
(*                                                                         *)
(* Moments are kept as the time remaining until them, so that the passing  *)
(* of time is one action and the state space stays finite; a "now" a       *)
(* thread has taken is kept as its age.                                    *)
(***************************************************************************)
EXTENDS Integers

CONSTANTS
  Offset,      \* turn_off_offset_seconds, window plus delay, in units of time
  MaxAge,      \* bound: how old a thread's "now" may be when it is used
  MaxChanges,  \* bound on settings changes
  MaxCrashes,  \* bound on restarts
  NoMoment     \* Python's None where a moment is expected

ASSUME RelayAssumption ==
  /\ Offset \in Nat
  /\ MaxAge \in Nat
  /\ MaxAge < Offset
  /\ MaxChanges \in Nat
  /\ MaxCrashes \in Nat
  /\ NoMoment \notin Int

VARIABLES
  settings,   \* what the settings ask for, see Settings
  mains,      \* the relay is closed
  up,         \* the printer answers
  mem,        \* _turn_off_at
  loaded,     \* _state_loaded
  disk,       \* turn_off_at in relay_power.json
  pc,         \* position of each thread
  after,      \* where a thread goes when arm() or disarm() returns
  age,        \* age of the moment each thread took as its origin
  moment,     \* arm()'s local moment
  current,    \* disarm()'s local current, is it a moment?
  tries,      \* turn_on webhooks the gate has sent for the job in hand
  busy,       \* print_queue.has_pending_work()
  covered,    \* history: work has been pending since the tick under way began
  quiet,      \* history: time since the last print whose arm() was recorded
  changes,    \* settings changes so far
  crashes     \* restarts so far

power    == <<mains, up>>
schedule == <<mem, loaded, disk>>
calls    == <<after, age, moment, current>>
history  == <<covered, quiet>>
bounds   == <<changes, crashes>>
vars     == <<settings, power, schedule, pc, calls, tries, busy, history, bounds>>

-----------------------------------------------------------------------------
Threads == {"scheduler", "worker"}

\* "off": relay control off.  "on": the gate works, no turn-off configured.
\* "timed": turn_off_offset_seconds has an answer.
Settings == {"off", "on", "timed"}

Moments == ((0 - MaxAge) .. Offset) \cup {NoMoment}
MaxTries == 2      \* turn_on_waits has two entries

\* Positions between a thread's reading of the clock and the use of it.
Aging == {"stale", "probe", "due", "arm", "armWrite"}

Init ==
  /\ settings \in Settings
  /\ mains \in BOOLEAN
  /\ up = mains
  /\ mem = NoMoment
  /\ loaded = FALSE
  /\ disk = NoMoment
  /\ pc = [t \in Threads |-> "idle"]
  /\ after = [t \in Threads |-> "idle"]
  /\ age = [t \in Threads |-> 0]
  /\ moment = [t \in Threads |-> NoMoment]
  /\ current = [t \in Threads |-> FALSE]
  /\ tries = 0
  /\ busy = FALSE
  /\ covered = FALSE
  /\ quiet = Offset
  /\ changes = 0
  /\ crashes = 0

Goto(t, where) == pc' = [pc EXCEPT ![t] = where]

\* Calling arm(origin) or disarm(), to come back to "where".
Call(t, what, where, origin) ==
  /\ Goto(t, what)
  /\ after' = [after EXCEPT ![t] = where]
  /\ age' = [age EXCEPT ![t] = origin]
  /\ UNCHANGED <<moment, current>>

-----------------------------------------------------------------------------
(* arm(), disarm() and scheduled_turn_off_at(), on either thread.          *)

\* Mutant of Scheduled: the file is never read back.
ScheduledInMemory == mem

\* scheduled_turn_off_at(): the first read loads the file.
Scheduled == IF loaded THEN mem ELSE disk
Load      == mem' = Scheduled /\ loaded' = TRUE /\ UNCHANGED disk

\* The origin of arm(origin), as an age: the gate calls arm() without one.
Origin(t) == IF after[t] = "print" THEN 0 ELSE age[t]

ArmReads(t) ==
  /\ pc[t] = "arm"
  /\ IF settings = "timed"
     THEN /\ moment' = [moment EXCEPT ![t] = Offset - Origin(t)]
          /\ Goto(t, "armWrite")
     ELSE Goto(t, "disarm") /\ UNCHANGED moment
  /\ UNCHANGED <<settings, power, schedule, after, age, current, tries, busy,
                 history, bounds>>

\* Mutant of ArmWrites: a schedule that stands is not moved.
ArmKeepsFirst(t) ==
  /\ pc[t] = "armWrite"
  /\ LET kept == IF loaded /\ mem # NoMoment THEN mem ELSE moment[t]
     IN  mem' = kept /\ disk' = kept
  /\ loaded' = TRUE
  /\ moment' = [moment EXCEPT ![t] = NoMoment]
  /\ Goto(t, after[t])
  /\ quiet' = IF t = "worker" /\ after[t] = "printed" THEN Offset - moment[t] ELSE quiet
  /\ UNCHANGED <<settings, power, after, age, current, tries, busy, covered, bounds>>

ArmWrites(t) ==
  /\ pc[t] = "armWrite"
  /\ mem' = moment[t]
  /\ loaded' = TRUE
  /\ disk' = moment[t]
  /\ moment' = [moment EXCEPT ![t] = NoMoment]
  /\ Goto(t, after[t])
  /\ quiet' = IF t = "worker" /\ after[t] = "printed" THEN Offset - moment[t] ELSE quiet
  /\ UNCHANGED <<settings, power, after, age, current, tries, busy, covered, bounds>>

\* disarm() looks at the schedule first, in a critical section of its own.
DisarmReads(t) ==
  /\ pc[t] = "disarm"
  /\ Load
  /\ current' = [current EXCEPT ![t] = Scheduled # NoMoment]
  /\ Goto(t, "clear")
  /\ UNCHANGED <<settings, power, after, age, moment, tries, busy, history, bounds>>

\* Mutant of DisarmWrites: memory is cleared, the file is not.
DisarmInMemory(t) ==
  /\ pc[t] = "clear"
  /\ mem' = NoMoment
  /\ loaded' = TRUE
  /\ current' = [current EXCEPT ![t] = FALSE]
  /\ Goto(t, after[t])
  /\ UNCHANGED <<settings, power, disk, after, age, moment, tries, busy, history,
                 bounds>>

DisarmWrites(t) ==
  /\ pc[t] = "clear"
  /\ mem' = NoMoment
  /\ loaded' = TRUE
  /\ disk' = IF current[t] THEN NoMoment ELSE disk
  /\ current' = [current EXCEPT ![t] = FALSE]
  /\ Goto(t, after[t])
  /\ UNCHANGED <<settings, power, after, age, moment, tries, busy, history, bounds>>

-----------------------------------------------------------------------------
(* tick(), on the scheduler thread.                                        *)

TickBegins ==
  /\ pc["scheduler"] = "idle"
  /\ Goto("scheduler", IF settings = "timed" THEN "probe" ELSE "stale")
  /\ age' = [age EXCEPT !["scheduler"] = 0]
  /\ covered' = busy
  /\ UNCHANGED <<settings, power, schedule, after, moment, current, tries, busy,
                 quiet, bounds>>

\* No turn-off configured: a schedule made under the old settings goes.
TickDropsStale ==
  /\ pc["scheduler"] = "stale"
  /\ Load
  /\ IF Scheduled # NoMoment
     THEN Call("scheduler", "disarm", "idle", age["scheduler"])
     ELSE Goto("scheduler", "idle") /\ UNCHANGED calls
  /\ UNCHANGED <<settings, power, tries, busy, history, bounds>>

\* Mutant of TickProbesQueue: only a running print counts as work.
TickProbesPrint ==
  /\ pc["scheduler"] = "probe"
  /\ IF pc["worker"] = "print"
     THEN Call("scheduler", "arm", "idle", age["scheduler"])
     ELSE Goto("scheduler", "due") /\ UNCHANGED calls
  /\ UNCHANGED <<settings, power, schedule, tries, busy, history, bounds>>

\* Pending work pushes the moment out.
TickProbesQueue ==
  /\ pc["scheduler"] = "probe"
  /\ IF busy
     THEN Call("scheduler", "arm", "idle", age["scheduler"])
     ELSE Goto("scheduler", "due") /\ UNCHANGED calls
  /\ UNCHANGED <<settings, power, schedule, tries, busy, history, bounds>>

TickReadsSchedule ==
  /\ pc["scheduler"] = "due"
  /\ Load
  /\ IF Scheduled = NoMoment \/ Scheduled + age["scheduler"] > 0
     THEN Goto("scheduler", "idle")
     ELSE Goto("scheduler", "send")
  /\ UNCHANGED <<settings, power, calls, tries, busy, history, bounds>>

TurnOffDelivered ==
  /\ pc["scheduler"] = "send"
  /\ mains' = FALSE
  /\ up' = FALSE
  /\ Call("scheduler", "disarm", "idle", 0)
  /\ UNCHANGED <<settings, schedule, tries, busy, history, bounds>>

\* An unconfirmed delivery may have been acted on; the schedule goes anyway.
TurnOffFails ==
  /\ pc["scheduler"] = "send"
  /\ \/ UNCHANGED power
     \/ mains' = FALSE /\ up' = FALSE
  /\ Call("scheduler", "disarm", "idle", 0)
  /\ UNCHANGED <<settings, schedule, tries, busy, history, bounds>>

-----------------------------------------------------------------------------
(* The queue's worker: the gate, the print, note_print_activity().         *)

Submit ==
  /\ pc["worker"] = "idle"
  /\ busy' = TRUE
  /\ Goto("worker", "queued")
  /\ UNCHANGED <<settings, power, schedule, calls, tries, history, bounds>>

\* The job is cancelled before the worker has it, and nothing is left to do.
JobWithdrawn ==
  /\ pc["worker"] = "queued"
  /\ busy' = FALSE
  /\ covered' = FALSE
  /\ Goto("worker", "idle")
  /\ UNCHANGED <<settings, power, schedule, calls, tries, quiet, bounds>>

TakeJob ==
  /\ pc["worker"] = "queued"
  /\ Goto("worker", "gate")
  /\ UNCHANGED <<settings, power, schedule, calls, tries, busy, history, bounds>>

\* Relay control off, or a printer that answers: nothing to switch on.
GatePasses ==
  /\ pc["worker"] = "gate"
  /\ settings = "off" \/ up
  /\ Goto("worker", "print")
  /\ UNCHANGED <<settings, power, schedule, calls, tries, busy, history, bounds>>

GateMustSwitch ==
  /\ pc["worker"] = "gate"
  /\ settings # "off" /\ ~up
  /\ Goto("worker", "switch")
  /\ UNCHANGED <<settings, power, schedule, calls, tries, busy, history, bounds>>

TurnOnDelivered ==
  /\ pc["worker"] = "switch"
  /\ mains' = TRUE
  /\ tries' = tries + 1
  /\ Goto("worker", "boot")
  /\ UNCHANGED <<settings, up, schedule, calls, busy, history, bounds>>

TurnOnFails ==
  /\ pc["worker"] = "switch"
  /\ mains' \in {mains, TRUE}
  /\ Goto("worker", "letgo")
  /\ UNCHANGED <<settings, up, schedule, calls, tries, busy, history, bounds>>

\* The wait ended with the printer up: arm from now, then print.
GateReleases ==
  /\ pc["worker"] = "boot"
  /\ up
  /\ Call("worker", "arm", "print", 0)
  /\ UNCHANGED <<settings, power, schedule, tries, busy, history, bounds>>

\* It did not come up: send again, or fail the job.
GateWaitsInVain ==
  /\ pc["worker"] = "boot"
  /\ Goto("worker", IF tries < MaxTries THEN "switch" ELSE "letgo")
  /\ UNCHANGED <<settings, power, schedule, calls, tries, busy, history, bounds>>

PrintReachesPrinter ==
  /\ pc["worker"] = "print"
  /\ up
  /\ Call("worker", "arm", "printed", 0)
  /\ UNCHANGED <<settings, power, schedule, tries, busy, history, bounds>>

\* The next page of a PDF, the next step of a calibration sweep.
PrintContinues ==
  /\ pc["worker"] = "printed"
  /\ Goto("worker", "print")
  /\ UNCHANGED <<settings, power, schedule, calls, tries, busy, history, bounds>>

\* The print raised, or the job was cancelled while the gate held it.
PrintFails ==
  /\ pc["worker"] = "print"
  /\ Goto("worker", "letgo")
  /\ UNCHANGED <<settings, power, schedule, calls, tries, busy, history, bounds>>

\* The worker's finally clause; another job may be waiting behind this one.
LetGo ==
  /\ pc["worker"] \in {"printed", "letgo"}
  /\ tries' = 0
  /\ \/ /\ Goto("worker", "idle")
        /\ busy' = FALSE
        /\ covered' = FALSE
     \/ /\ Goto("worker", "queued")
        /\ UNCHANGED <<busy, covered>>
  /\ UNCHANGED <<settings, power, schedule, calls, quiet, bounds>>

-----------------------------------------------------------------------------
(* The surroundings.                                                       *)

Later(m) == IF m = NoMoment \/ m = 0 - MaxAge THEN m ELSE m - 1

\* Time passes, except that no thread sits on a "now" for more than MaxAge.
Elapse ==
  /\ \A t \in Threads : pc[t] \in Aging => age[t] < MaxAge
  /\ mem' = Later(mem)
  /\ disk' = Later(disk)
  /\ moment' = [t \in Threads |-> Later(moment[t])]
  /\ age' = [t \in Threads |-> IF pc[t] \in Aging THEN age[t] + 1 ELSE age[t]]
  /\ quiet' = IF quiet < Offset THEN quiet + 1 ELSE quiet
  /\ UNCHANGED <<settings, power, loaded, pc, after, current, tries, busy,
                 covered, bounds>>

\* A powered printer boots, or switches itself off and back on.
PrinterChanges ==
  /\ up' = (mains /\ ~up)
  /\ UNCHANGED <<settings, mains, schedule, pc, calls, tries, busy, history, bounds>>

\* send_now(): the relay is switched by hand, or the delivery fails; the
\* schedule is read for the report, when it shows one, and stays as it is.
SendNow ==
  /\ settings # "off"
  /\ \/ mains' = TRUE /\ UNCHANGED up
     \/ mains' = FALSE /\ up' = FALSE
     \/ UNCHANGED power
  /\ Load \/ UNCHANGED schedule
  /\ UNCHANGED <<settings, pc, calls, tries, busy, history, bounds>>

\* status(), on an API thread, may be the first to read the schedule.
StatusReads ==
  /\ Load
  /\ UNCHANGED <<settings, power, pc, calls, tries, busy, history, bounds>>

ChangeSettings ==
  /\ changes < MaxChanges
  /\ settings' \in Settings \ {settings}
  /\ changes' = changes + 1
  /\ UNCHANGED <<power, schedule, pc, calls, tries, busy, history, crashes>>

\* A restart: what was in memory is gone, job included; the file is not.
Restart ==
  /\ crashes < MaxCrashes
  /\ crashes' = crashes + 1
  /\ mem' = NoMoment
  /\ loaded' = FALSE
  /\ pc' = [t \in Threads |-> "idle"]
  /\ after' = [t \in Threads |-> "idle"]
  /\ age' = [t \in Threads |-> 0]
  /\ moment' = [t \in Threads |-> NoMoment]
  /\ current' = [t \in Threads |-> FALSE]
  /\ tries' = 0
  /\ busy' = FALSE
  /\ covered' = FALSE
  /\ UNCHANGED <<settings, power, disk, quiet, changes>>

-----------------------------------------------------------------------------
Calls(t) == ArmReads(t) \/ ArmWrites(t) \/ DisarmReads(t) \/ DisarmWrites(t)

Scheduler ==
  \/ TickBegins
  \/ TickDropsStale
  \/ TickProbesQueue
  \/ TickReadsSchedule
  \/ TurnOffDelivered
  \/ TurnOffFails
  \/ Calls("scheduler")

Worker ==
  \/ TakeJob
  \/ GatePasses
  \/ GateMustSwitch
  \/ TurnOnDelivered
  \/ TurnOnFails
  \/ GateReleases
  \/ GateWaitsInVain
  \/ PrintReachesPrinter
  \/ PrintContinues
  \/ PrintFails
  \/ LetGo
  \/ Calls("worker")

Next ==
  \/ Scheduler
  \/ Worker
  \/ Submit
  \/ JobWithdrawn
  \/ Elapse
  \/ PrinterChanges
  \/ SendNow
  \/ StatusReads
  \/ ChangeSettings
  \/ Restart

Spec == Init /\ [][Next]_vars

\* The scheduler thread ticks for as long as the process lives, and its
\* webhook times out; the worker's waits are bounded; time goes on.
Fairness == WF_vars(Scheduler) /\ WF_vars(Worker) /\ WF_vars(Elapse)

FairSpec == Spec /\ Fairness

-----------------------------------------------------------------------------
(* Properties.                                                             *)

TypeOK ==
  /\ settings \in Settings
  /\ mains \in BOOLEAN
  /\ up \in BOOLEAN
  /\ mem \in Moments
  /\ loaded \in BOOLEAN
  /\ disk \in Moments
  /\ pc \in [Threads -> Aging \cup {"idle", "send", "disarm", "clear", "queued",
                      "gate", "switch", "boot", "print", "printed", "letgo"}]
  /\ after \in [Threads -> {"idle", "print", "printed"}]
  /\ age \in [Threads -> 0 .. MaxAge]
  /\ moment \in [Threads -> Moments]
  /\ current \in [Threads -> BOOLEAN]
  /\ tries \in 0 .. MaxTries
  /\ busy \in BOOLEAN
  /\ covered \in BOOLEAN
  /\ quiet \in 0 .. Offset
  /\ changes \in 0 .. MaxChanges
  /\ crashes \in 0 .. MaxCrashes

\* A schedule in memory is on disk too, whichever thread armed it last and
\* whatever became of the settings, so a restart in mid-window keeps it.
ArmedIsOnDisk == loaded /\ mem # NoMoment => disk = mem

\* While nobody changes the settings the file says exactly what memory says:
\* no interleaving of tick(), the gate and a print makes a restart revive a
\* schedule that was cleared or lose one that stands.
RestartSeesSchedule == changes = 0 /\ loaded => disk = mem

\* A restart at any moment finds the schedule that stands, and once nobody has
\* changed the settings it finds no other.
RestartKeepsSchedule == ArmedIsOnDisk /\ RestartSeesSchedule

\* A tick that began with work pending, still pending, never gets to send:
\* the queue stays busy through the gate, retries and a cancelled job.
NoCutThroughPendingWork == covered => pc["scheduler"] # "send"

\* Power is cut on schedule only a whole window after the last recorded
\* print, to within the age of a tick's clock, restarts included.
CutIsDue ==
  pc["scheduler"] # "send" /\ pc'["scheduler"] = "send" => quiet + MaxAge >= Offset

CutKeepsWindow == [][CutIsDue]_vars

\* While nobody changes the settings, a persisted schedule is acted on or
\* cleared, or work postpones it; it never sits in the file with the relay on
\* forever, restart or no restart.
ScheduleIsResolved ==
  (disk # NoMoment) ~> (disk = NoMoment \/ busy \/ changes > 0)

\* Module docstring: "turn_off never fires while a job is queued or printing".
NeverCutWhilePrinting ==
  [][pc["scheduler"] = "send" /\ mains /\ ~mains' /\ pc'["scheduler"] # "send"
       => pc["worker"] # "print"]_vars

\* ensure_printer_powered: "the relay must still be scheduled to switch off
\* instead of being left on": a moment still to come is not thrown away.
FutureScheduleKept ==
  [][loaded /\ loaded' /\ mem # NoMoment /\ mem' = NoMoment => mem <= 0]_vars

\* disarm(): "Clear any scheduled turn-off, on disk as well as in memory."
DisarmClearsDisk ==
  [][\A t \in Threads : pc[t] = "clear" /\ pc'[t] # "clear" /\ loaded'
       => disk' = NoMoment]_vars
-----------------------------------------------------------------------------
(* The inductive invariant behind the safety properties.                   *)

InCall == {"arm", "armWrite", "disarm", "clear"}

\* Where arm() and disarm() return to, and the webhooks the gate has left.
Control ==
  /\ after["scheduler"] = "idle"
  /\ pc["worker"] \in InCall => after["worker"] \in {"print", "printed"}
  /\ pc["worker"] \in {"idle", "queued", "gate"} => tries = 0
  /\ pc["worker"] = "switch" => tries < MaxTries

\* The moment a thread is about to record is an offset from a recent origin.
Arming ==
  \A t \in Threads : pc[t] = "armWrite" => moment[t] \in (Offset - age[t]) .. Offset

\* The recorded moment leaves the last print its window.
Window == disk # NoMoment => disk + quiet + MaxAge >= Offset

\* Pending work seen by a tick keeps it away from the turn-off.
Covered == covered => busy /\ pc["scheduler"] \notin {"due", "send"}

\* What keeps memory and file equal while nobody changes the settings: under
\* "timed" only the scheduler disarms, and only what it has seen standing;
\* otherwise nothing is ever recorded.
Undisturbed ==
  changes = 0 =>
    /\ loaded => disk = mem
    /\ settings = "timed" =>
         /\ pc["worker"] \notin {"disarm", "clear"} /\ pc["scheduler"] # "stale"
         /\ pc["scheduler"] \in {"send", "disarm"} => loaded /\ mem # NoMoment
         /\ pc["scheduler"] = "clear" => current["scheduler"]
    /\ settings # "timed" =>
         disk = NoMoment /\ \A t \in Threads : pc[t] # "armWrite"

IInv ==
  /\ TypeOK
  /\ Control
  /\ Arming
  /\ ArmedIsOnDisk
  /\ Window
  /\ Covered
=============================================================================
