------------------------------ MODULE PrintQueue ------------------------------
(***************************************************************************)
(* The in-process print queue (src/services/queue_service.py).             *)
(*                                                                         *)
(* API threads register jobs, enqueue them, cancel, remove, clear, pause   *)
(* and stop; one worker thread takes jobs off the FIFO, holds each in the  *)
(* pre-job gate and runs its print, possibly on an attempt schedule.  An   *)
(* action is one critical section of the registry lock, or one access to   *)
(* state the lock does not cover (the FIFO and the resume event).          *)
(***************************************************************************)
EXTENDS Naturals, Sequences, FiniteSets

CONSTANTS
  Jobs,         \* every id uuid4 hands out in a run
  NoJob,        \* Python's None where a job id is expected
  MaxHistory,   \* _MAX_HISTORY, the registry's cap
  Schedules,    \* attempt schedules the gate may hand back: pauses in slices
  MaxWrites     \* bound on the raster writes one print begins (pages, copies)

ASSUME QueueAssumption ==
  /\ NoJob \notin Jobs
  /\ MaxHistory \in Nat
  /\ Schedules \subseteq Seq(Nat)
  /\ <<>> \in Schedules
  /\ MaxWrites \in Nat

VARIABLES
  status,     \* the registry: "unborn" before submit, "removed" once gone
  ticket,     \* position in _order, by the number of jobs registered before
  tickets,    \* jobs registered so far
  putting,    \* registered by submit or reprint, not yet put on the FIFO
  fifo,       \* _queue
  resumed,    \* _resume_event is set
  stopping,   \* a stop() has paused and not yet cancelled
  clearing,   \* a clear_all() has cancelled and not yet removed
  current,    \* _current_job_id
  activity,   \* the activity token on each job
  pc,         \* where the worker is
  job,        \* the worker's local job_id
  delays,     \* the attempt schedule in force
  attempt,    \* the attempt the worker is on
  left,       \* slices left of the pause before that attempt
  begun,      \* raster writes begun during the running attempt
  reached     \* history: attempts of a job that began a write

registry == <<status, ticket, tickets, putting, activity>>
control  == <<resumed, stopping, clearing>>
local    == <<job, delays, attempt, left>>
wire     == <<begun, reached>>
vars     == <<registry, fifo, control, current, pc, local, wire>>

-----------------------------------------------------------------------------
Finished == {"done", "failed", "cancelled"}     \* _FINISHED_STATES
Active   == {"queued", "printing"}
Settled  == Finished \cup {"removed"}
Status   == Active \cup Settled \cup {"unborn"}

GateActivities == {"switching_on", "waiting_for_printer", "printer_settling"}
Activities     == GateActivities \cup {"printing", "retrying"}

Registered == {j \in Jobs : status[j] \in Active \cup Finished}

\* Mutant of Gone: only a removed job is let go, a cancelled one prints.
GoneWhenRemoved(j) == j \notin Registered

\* "job is None or job['status'] == 'cancelled'", the worker's test before
\* it touches a job again.
Gone(j) == j \notin Registered \/ status[j] = "cancelled"

\* Worker positions with a job in hand, up to the worker's finally clause.
InHand == {"gate", "attempt", "slice", "check", "start", "fn", "done", "failed"}

Init ==
  /\ status = [j \in Jobs |-> "unborn"]
  /\ ticket = [j \in Jobs |-> 0]
  /\ tickets = 0
  /\ putting = {}
  /\ fifo = <<>>
  /\ resumed = TRUE
  /\ stopping = FALSE
  /\ clearing = FALSE
  /\ current = NoJob
  /\ activity = [j \in Jobs |-> "none"]
  /\ pc = "get"
  /\ job = NoJob
  /\ delays = <<>>
  /\ attempt = 1
  /\ left = 0
  /\ begun = 0
  /\ reached = [j \in Jobs |-> 0]

-----------------------------------------------------------------------------
(* What the API threads do to the registry.                                *)

\* Mutant of Pruned: the newest finished jobs go first.
PrunedNewestFirst ==
  LET finished == {f \in Jobs : status[f] \in Finished}
      newer(f) == {g \in finished : ticket[g] > ticket[f]}
  IN  {f \in finished :
         Cardinality(newer(f)) + MaxHistory < Cardinality(Registered) + 1}

\* _prune_locked, run with one more job registered: the oldest finished
\* jobs, as many as the registry is over its cap.
Pruned ==
  LET finished == {f \in Jobs : status[f] \in Finished}
      older(f) == {g \in finished : ticket[g] < ticket[f]}
  IN  {f \in finished :
         Cardinality(older(f)) + MaxHistory < Cardinality(Registered) + 1}

\* Dropping jobs from the registry drops everything kept under their ids.
Drop(gone, update) ==
  /\ status' = [j \in Jobs |-> IF j \in gone THEN "removed" ELSE update[j]]
  /\ activity' = [j \in Jobs |-> IF j \in gone THEN "none" ELSE activity[j]]

\* The locked half of submit().
Register(j) ==
  /\ status[j] = "unborn"
  /\ Drop(Pruned, [status EXCEPT ![j] = "queued"])
  /\ ticket' = [ticket EXCEPT ![j] = tickets]
  /\ tickets' = tickets + 1
  /\ putting' = putting \cup {j}
  /\ UNCHANGED <<fifo, control, current, pc, local, wire>>

\* The locked half of reprint(): a new job, as long as the source is there.
Reprint(source, j) ==
  /\ source \in Registered
  /\ Register(j)

\* The second half of submit() and reprint(), outside the lock.
Put(j) ==
  /\ j \in putting
  /\ fifo' = Append(fifo, j)
  /\ putting' = putting \ {j}
  /\ UNCHANGED <<status, ticket, tickets, activity, control, current, pc,
                 local, wire>>

CancelThese(those) ==
  /\ status' = [j \in Jobs |-> IF j \in those THEN "cancelled" ELSE status[j]]
  /\ activity' = [j \in Jobs |-> IF j \in those THEN "none" ELSE activity[j]]
  /\ UNCHANGED <<ticket, tickets, putting>>

Queued == {j \in Jobs : status[j] = "queued"}

\* cancel(): only a queued job; current is deliberately left alone.
Cancel(j) ==
  /\ status[j] = "queued"
  /\ CancelThese({j})
  /\ UNCHANGED <<fifo, control, current, pc, local, wire>>

\* Mutant of Remove: a printing job may be removed too.
RemoveAny(j) ==
  /\ j \in Registered
  /\ Drop({j}, status)
  /\ UNCHANGED <<ticket, tickets, putting, fifo, control, current, pc, local,
                 wire>>

Remove(j) ==
  /\ j \in Registered
  /\ status[j] # "printing"
  /\ Drop({j}, status)
  /\ UNCHANGED <<ticket, tickets, putting, fifo, control, current, pc, local,
                 wire>>

ClearFinished ==
  /\ Drop({j \in Jobs : status[j] \in Finished}, status)
  /\ UNCHANGED <<ticket, tickets, putting, fifo, control, current, pc, local,
                 wire>>

Pause ==
  /\ resumed' = FALSE
  /\ UNCHANGED <<registry, fifo, stopping, clearing, current, pc, local, wire>>

\* Mutant of Resume: a worker already blocked is not woken.
ResumeUnheard ==
  /\ resumed' = TRUE
  /\ UNCHANGED <<registry, fifo, stopping, clearing, current, pc, local, wire>>

\* Setting the event wakes a worker blocked on it, and the worker does not
\* look at the event again: a pause right after comes too late for it.
Resume ==
  /\ resumed' = TRUE
  /\ pc' = IF pc = "blocked" THEN "take" ELSE pc
  /\ UNCHANGED <<registry, fifo, stopping, clearing, current, local, wire>>

\* stop(): pause(), then cancel_all_queued().
StopPauses ==
  /\ ~stopping
  /\ stopping' = TRUE
  /\ resumed' = FALSE
  /\ UNCHANGED <<registry, fifo, clearing, current, pc, local, wire>>

StopCancels ==
  /\ stopping
  /\ stopping' = FALSE
  /\ CancelThese(Queued)
  /\ UNCHANGED <<fifo, resumed, clearing, current, pc, local, wire>>

\* clear_all(): cancel_all_queued(), then drop all but the printing job.
ClearAllCancels ==
  /\ ~clearing
  /\ clearing' = TRUE
  /\ CancelThese(Queued)
  /\ UNCHANGED <<fifo, resumed, stopping, current, pc, local, wire>>

ClearAllRemoves ==
  /\ clearing
  /\ clearing' = FALSE
  /\ Drop({j \in Registered : status[j] # "printing"}, status)
  /\ UNCHANGED <<ticket, tickets, putting, fifo, resumed, stopping, current,
                 pc, local, wire>>

-----------------------------------------------------------------------------
(* The worker: _run, _print_job and _hold_before_attempt.                  *)

Dequeue ==
  /\ pc = "get"
  /\ fifo # <<>>
  /\ job' = Head(fifo)
  /\ fifo' = Tail(fifo)
  /\ pc' = "wait"
  /\ UNCHANGED <<registry, control, current, delays, attempt, left, wire>>

\* _resume_event.wait(): straight through when set, else block until a set.
AwaitResume ==
  /\ pc = "wait"
  /\ pc' = IF resumed THEN "take" ELSE "blocked"
  /\ UNCHANGED <<registry, fifo, control, current, local, wire>>

Take ==
  /\ pc = "take"
  /\ IF Gone(job)
     THEN pc' = "final" /\ UNCHANGED current
     ELSE pc' = "gate" /\ current' = job
  /\ UNCHANGED <<registry, fifo, control, local, wire>>

\* Mutant of GateReports: no look at the job's status.
GateReportsAnyway(token) ==
  /\ pc = "gate"
  /\ current \in Registered
  /\ activity' = [activity EXCEPT ![current] = token]
  /\ UNCHANGED <<status, ticket, tickets, putting, fifo, control, current, pc,
                 local, wire>>

\* report_activity() from inside the gate; _set_activity_locked drops it on
\* a job that is gone or finished.
GateReports(token) ==
  /\ pc = "gate"
  /\ current \in Registered
  /\ status[current] \notin Finished
  /\ activity' = [activity EXCEPT ![current] = token]
  /\ UNCHANGED <<status, ticket, tickets, putting, fifo, control, current, pc,
                 local, wire>>

GateReleases(schedule) ==
  /\ pc = "gate"
  /\ delays' = schedule
  /\ attempt' = 1
  /\ pc' = "attempt"
  /\ UNCHANGED <<registry, fifo, control, current, job, left, wire>>

Record(outcome) ==
  status' = IF job \in Registered THEN [status EXCEPT ![job] = outcome]
                                  ELSE status

Describe(token) ==
  activity' = IF job \in Registered THEN [activity EXCEPT ![job] = token]
                                    ELSE activity

\* The gate raised: the job fails, whatever became of it meanwhile.
GateRaises ==
  /\ pc = "gate"
  /\ Record("failed")
  /\ Describe("none")
  /\ pc' = "final"
  /\ UNCHANGED <<ticket, tickets, putting, fifo, control, current, local, wire>>

PauseBefore == IF attempt <= Len(delays) THEN delays[attempt] ELSE 0
Attempts    == IF Len(delays) = 0 THEN 1 ELSE Len(delays)

\* The top of the attempt loop when no pause precedes the attempt.
SkipHold ==
  /\ pc = "attempt"
  /\ PauseBefore = 0
  /\ pc' = "start"
  /\ UNCHANGED <<registry, fifo, control, current, local, wire>>

\* _hold_before_attempt, its first critical section.
BeginHold ==
  /\ pc = "attempt"
  /\ PauseBefore > 0
  /\ IF Gone(job)
     THEN pc' = "final" /\ UNCHANGED <<status, activity, left>>
     ELSE /\ pc' = "slice"
          /\ status' = [status EXCEPT ![job] = "queued"]
          /\ Describe(IF attempt = 1 THEN "printer_settling" ELSE "retrying")
          /\ left' = PauseBefore
  /\ UNCHANGED <<ticket, tickets, putting, fifo, control, current, job, delays,
                 attempt, wire>>

\* Mutant of HoldSlice: a pause ends the hold without failing the job.
HoldSliceForgets ==
  /\ pc = "slice"
  /\ left' = left - 1
  /\ pc' = IF resumed THEN "check" ELSE "final"
  /\ UNCHANGED <<registry, fifo, control, current, job, delays, attempt, wire>>

\* One slice of sleep, then is_paused().
HoldSlice ==
  /\ pc = "slice"
  /\ left' = left - 1
  /\ pc' = IF resumed THEN "check" ELSE "failed"
  /\ UNCHANGED <<registry, fifo, control, current, job, delays, attempt, wire>>

\* The critical section that ends a slice, and the deadline test after it.
HoldCheck ==
  /\ pc = "check"
  /\ pc' = IF Gone(job) THEN "final" ELSE IF left = 0 THEN "start" ELSE "slice"
  /\ UNCHANGED <<registry, fifo, control, current, local, wire>>

Start ==
  /\ pc = "start"
  /\ IF Gone(job)
     THEN pc' = "final" /\ UNCHANGED <<status, activity, begun>>
     ELSE /\ pc' = "fn"
          /\ status' = [status EXCEPT ![job] = "printing"]
          /\ Describe("printing")
          /\ begun' = 0
  /\ UNCHANGED <<ticket, tickets, putting, fifo, control, current, local,
                 reached>>

\* The print begins one raster write (_send_to_printer's counter).
BeginWrite ==
  /\ pc = "fn"
  /\ begun < MaxWrites
  /\ begun' = begun + 1
  /\ reached' = IF begun = 0 THEN [reached EXCEPT ![job] = @ + 1] ELSE reached
  /\ UNCHANGED <<registry, fifo, control, current, pc, local>>

PrintReturns ==
  /\ pc = "fn"
  /\ pc' = "done"
  /\ UNCHANGED <<registry, fifo, control, current, local, wire>>

\* Mutant of MayRetry: an attempt that wrote is tried again.
RetryAfterWrite == attempt < Attempts /\ resumed

MayRetry == attempt < Attempts /\ begun = 0 /\ resumed

PrintRaises ==
  /\ pc = "fn"
  /\ IF MayRetry THEN attempt' = attempt + 1 /\ pc' = "attempt"
                 ELSE pc' = "failed" /\ UNCHANGED attempt
  /\ UNCHANGED <<registry, fifo, control, current, job, delays, left, wire>>

\* _finish(): the outcome is written onto the job, whatever its status.
Finish ==
  /\ pc \in {"done", "failed"}
  /\ Record(pc)
  /\ pc' = "final"
  /\ UNCHANGED <<ticket, tickets, putting, activity, fifo, control, current,
                 local, wire>>

\* The finally clause of the worker loop; the locals of the job go with it.
LetGo ==
  /\ pc = "final"
  /\ Describe("none")
  /\ current' = NoJob
  /\ job' = NoJob
  /\ delays' = <<>>
  /\ attempt' = 1
  /\ left' = 0
  /\ begun' = 0
  /\ pc' = "get"
  /\ UNCHANGED <<status, ticket, tickets, putting, fifo, control, reached>>

-----------------------------------------------------------------------------
Api ==
  \/ \E j \in Jobs : Register(j) \/ Put(j) \/ Cancel(j) \/ Remove(j)
  \/ \E source, j \in Jobs : Reprint(source, j)
  \/ ClearFinished
  \/ Pause
  \/ Resume
  \/ StopPauses
  \/ StopCancels
  \/ ClearAllCancels
  \/ ClearAllRemoves

\* What the worker does on its own account, each bounded in the code.
Advance ==
  \/ Dequeue
  \/ AwaitResume
  \/ Take
  \/ \E schedule \in Schedules : GateReleases(schedule)
  \/ GateRaises
  \/ SkipHold
  \/ BeginHold
  \/ HoldSlice
  \/ HoldCheck
  \/ Start
  \/ PrintReturns
  \/ PrintRaises
  \/ Finish
  \/ LetGo

Next ==
  \/ Api
  \/ Advance
  \/ \E token \in GateActivities : GateReports(token)
  \/ BeginWrite

Spec == Init /\ [][Next]_vars

\* The worker thread runs, the gate and the print return (both wait under
\* deadlines), and a submitting thread reaches its put.
Fairness == WF_vars(Advance) /\ \A j \in Jobs : WF_vars(Put(j))

FairSpec == Spec /\ Fairness

-----------------------------------------------------------------------------
(* What the queue answers to its readers.                                  *)

\* _current_activity_locked, the activity queue_status() reports.
ReportedActivity ==
  IF current \in Registered /\ status[current] \notin Finished
  THEN activity[current] ELSE "none"

\* Mutant of HasPendingWork: the job statuses alone.
PendingByStatus == \E j \in Jobs : status[j] \in Active

HasPendingWork == current # NoJob \/ \E j \in Jobs : status[j] \in Active

-----------------------------------------------------------------------------
(* Properties.                                                             *)

InFifo(j) == \E i \in 1 .. Len(fifo) : fifo[i] = j

\* Every variable stays in its type.
TypeOK ==
  /\ status \in [Jobs -> Status]
  /\ ticket \in [Jobs -> Nat]
  /\ tickets \in Nat
  /\ putting \subseteq Jobs
  /\ fifo \in Seq(Jobs)
  /\ resumed \in BOOLEAN
  /\ stopping \in BOOLEAN
  /\ clearing \in BOOLEAN
  /\ current \in Jobs \cup {NoJob}
  /\ activity \in [Jobs -> Activities \cup {"none"}]
  /\ pc \in InHand \cup {"get", "wait", "blocked", "take", "final"}
  /\ job \in Jobs \cup {NoJob}
  /\ delays \in Schedules
  /\ attempt \in Nat \ {0}
  /\ left \in Nat
  /\ begun \in 0 .. MaxWrites
  /\ reached \in [Jobs -> Nat]

\* The printer is driven for one job at a time, and that job is in the
\* registry as "printing" for as long as its print runs: no cancel, remove,
\* clear or prune by an API thread, in any order, takes it from under it.
OneJobOnTheWire ==
  /\ pc = "fn" => status[job] = "printing" /\ current = job
  /\ \A j \in Jobs : status[j] = "printing" => j = job /\ current = job

\* A queued job is always on its way: about to be put, on the FIFO, or with
\* the worker.  No interleaving of submitters and the worker strands it.
NothingStranded ==
  \A j \in Jobs : status[j] = "queued" => j \in putting \/ InFifo(j) \/ j = job

\* A job's print reaches the printer in at most one of its attempts, so the
\* attempt schedule never prints part of a job a second time.
NeverPrintedTwice == \A j \in Jobs : reached[j] <= 1

\* A running gate is pending work even after its job was cancelled or
\* removed underneath it: has_pending_work() keeps mains power on for it.
GateIsPendingWork == pc \in InHand => HasPendingWork

\* A finished job is described as doing something only between _finish()
\* and the worker's finally: no report of a gate that outlives a cancel, and
\* no cancel in mid-retry, leaves an activity on a job that is over.
FinishedShowsNothing ==
  \A j \in Jobs : status[j] \in Finished /\ activity[j] # "none"
                    => j = job /\ pc = "final"

\* Only the job in hand carries an activity: cancelling, retrying, failing
\* and pruning leave no description behind on a job nobody is working on.
ActivityOnlyInHand ==
  \A j \in Jobs : activity[j] # "none" => j = job /\ current = job

\* A job that was cancelled, failed, done or removed never begins another
\* write and never becomes active again, whatever stop(), clear_all() or a
\* retry are in the middle of.
SettledIsLeftAlone ==
  \A j \in Jobs : status[j] \in Settled =>
    reached'[j] = reached[j] /\ status'[j] \in Settled

SettledStaysOffTheWire == [][SettledIsLeftAlone]_vars

\* Registering a job evicts finished jobs only, the oldest first and no more
\* than the cap asks for; over the cap nothing but active jobs is left.
EvictsOldestFinished ==
  [][tickets' # tickets =>
       LET evicted == {j \in Registered : status'[j] = "removed"}
           kept    == {j \in Jobs : status'[j] \in Active \cup Finished}
           spared  == {j \in kept : status'[j] \in Finished}
       IN  /\ \A e \in evicted : /\ status[e] \in Finished
                                 /\ \A s \in spared : ticket[e] < ticket[s]
           /\ evicted # {} => Cardinality(kept) >= MaxHistory
           /\ spared # {} => Cardinality(kept) <= MaxHistory]_vars

\* Every submitted job is eventually printed, failed, cancelled or removed,
\* as long as somebody keeps resuming the queue.
EveryJobSettles ==
  ([]<>resumed) =>
    \A j \in Jobs : (status[j] = "queued") ~> (status[j] \in Settled)

\* queue_service.pause(): "the worker holds before starting the next job":
\* no job goes from queued to printing while the queue is paused.
PausedStartsNothing ==
  [][\A j \in Jobs : status[j] = "queued" /\ status'[j] = "printing"
                       => resumed]_vars

\* "Terminal job states (no further transitions are possible)": a finished
\* job keeps its outcome until it leaves the registry.
TerminalIsFinal ==
  [][\A j \in Jobs : status[j] \in Finished
                       => status'[j] \in {status[j], "removed"}]_vars

\* queue_status(): "the same value GET /jobs reports on the job itself [...]
\* so the two cannot disagree".
ReadersAgree == \A j \in Jobs : activity[j] # "none" => ReportedActivity = activity[j]

-----------------------------------------------------------------------------
(* The inductive invariant behind the safety properties.                   *)

Enqueued(j) == j \in putting \/ InFifo(j)

\* A job is in one place: with its submitter, once on the FIFO, or in hand.
Placement ==
  /\ \A i, k \in 1 .. Len(fifo) : fifo[i] = fifo[k] => i = k
  /\ \A j \in putting : ~InFifo(j)
  /\ \A j \in Jobs : Enqueued(j) => j # job /\ status[j] \notin {"done", "failed"}
  /\ \A j \in Jobs : status[j] = "unborn" => ~Enqueued(j) /\ j # job

\* What the worker's position says of the job it holds.
Hand ==
  /\ pc = "get" <=> job = NoJob
  /\ pc \in InHand => current = job
  /\ pc = "final" => status[job] \in Settled /\ current \in {job, NoJob}
  /\ pc \notin {"get", "final"} => status[job] \notin {"done", "failed"}
  /\ pc = "slice" => left > 0
  /\ pc \in {"get", "wait", "blocked", "take"} => current = NoJob

\* Where a job can be printing.
Printing ==
  /\ \A j \in Jobs : status[j] = "printing" =>
       /\ j = job
       /\ pc \in {"attempt", "start", "fn", "done", "failed"}
  /\ pc \in {"fn", "done"} => status[job] = "printing"

\* Nothing was written for a job before its running attempt.
Reach ==
  /\ \A j \in Jobs : reached[j] <= 1
  /\ \A j \in Jobs : Enqueued(j) \/ status[j] = "unborn" => reached[j] = 0
  /\ pc \in {"wait", "blocked", "take", "gate", "attempt", "slice", "check", "start"}
       => reached[job] = 0
  /\ pc = "fn" /\ begun = 0 => reached[job] = 0

Described ==
  /\ ActivityOnlyInHand
  /\ FinishedShowsNothing
  /\ \A j \in Jobs : j \notin Registered => activity[j] = "none"

IInv ==
  /\ TypeOK
  /\ Placement
  /\ Hand
  /\ Printing
  /\ Reach
  /\ Described
  /\ NothingStranded

=============================================================================
