--------------------------- MODULE PrintQueueProofs ---------------------------
(* What TLAPS proves of the print queue, for every set of jobs, history     *)
(* cap, set of attempt schedules and number of writes.                      *)
EXTENDS PrintQueue, TLAPS, FiniteSetTheorems, WellFoundedInduction

\* The queue starts empty, resumed and well typed.
LEMMA TypeInit == Init => TypeOK
<1> SUFFICES ASSUME Init PROVE TypeOK
  OBVIOUS
<1>1. fifo \in Seq(Jobs) /\ delays \in Schedules /\ begun \in 0 .. MaxWrites
  BY QueueAssumption DEF Init, QueueAssumption
<1>2. /\ status \in [Jobs -> Status]
      /\ activity \in [Jobs -> Activities \cup {"none"}]
  BY DEF Init, Status, Active, Settled, Activities
<1>3. /\ ticket \in [Jobs -> Nat] /\ tickets \in Nat /\ putting \subseteq Jobs
      /\ reached \in [Jobs -> Nat] /\ attempt \in Nat \ {0} /\ left \in Nat
  BY DEF Init
<1> QED
  BY <1>1, <1>2, <1>3 DEF Init, TypeOK

\* Pruning touches finished jobs only.
LEMMA PrunedAreFinished == Pruned \subseteq {j \in Jobs : status[j] \in Finished}
  BY DEF Pruned

\* No API call breaks the types.
LEMMA TypeApi == TypeOK /\ Api => TypeOK'
<1> SUFFICES ASSUME TypeOK, Api PROVE TypeOK'
  OBVIOUS
<1> USE QueueAssumption DEF QueueAssumption, TypeOK, Status, Active, Settled, Finished, Activities, GateActivities, InHand
<1>1. ASSUME NEW j \in Jobs, Register(j) PROVE TypeOK'
  BY <1>1, PrunedAreFinished DEF Register, Drop, control, local, wire
<1>2. ASSUME NEW j \in Jobs, Put(j) PROVE TypeOK'
  BY <1>2 DEF Put, control, local, wire
<1>3. ASSUME NEW j \in Jobs, Cancel(j) PROVE TypeOK'
  BY <1>3 DEF Cancel, CancelThese, control, local, wire
<1>4. ASSUME NEW j \in Jobs, Remove(j) PROVE TypeOK'
  BY <1>4 DEF Remove, Drop, control, local, wire
<1>5. CASE ClearFinished
  BY <1>5 DEF ClearFinished, Drop, control, local, wire
<1>6. CASE Pause \/ Resume \/ StopPauses
  BY <1>6 DEF Pause, Resume, StopPauses, registry, local, wire
<1>7. CASE StopCancels \/ ClearAllCancels
  BY <1>7 DEF StopCancels, ClearAllCancels, CancelThese, local, wire
<1>8. CASE ClearAllRemoves
  BY <1>8 DEF ClearAllRemoves, Drop, local, wire
<1> QED
  BY <1>1, <1>2, <1>3, <1>4, <1>5, <1>6, <1>7, <1>8 DEF Api, Reprint

\* No step of the worker breaks the types.
LEMMA TypeAdvance == TypeOK /\ Hand /\ Advance => TypeOK'
<1> SUFFICES ASSUME TypeOK, Hand, Advance PROVE TypeOK'
  OBVIOUS
<1> USE QueueAssumption DEF QueueAssumption, TypeOK, Status, Active, Settled, Finished, Activities, GateActivities, InHand
<1>0. delays \in Seq(Nat) /\ (attempt <= Len(delays) => delays[attempt] \in Nat)
  OBVIOUS
<1>1. CASE Dequeue
  <2>1. Head(fifo) \in Jobs /\ Tail(fifo) \in Seq(Jobs)
    BY <1>1 DEF Dequeue
  <2> QED
    BY <1>1, <2>1 DEF Dequeue, registry, control, wire
<1>2. CASE AwaitResume
  BY <1>2 DEF AwaitResume, registry, control, local, wire
<1>3. CASE Take
  BY <1>3 DEF Take, Gone, Registered, registry, control, local, wire
<1>4. ASSUME NEW s \in Schedules, GateReleases(s) PROVE TypeOK'
  BY <1>4 DEF GateReleases, registry, control, wire
<1>5. CASE GateRaises
  BY <1>5 DEF GateRaises, Record, Describe, Registered, control, local, wire
<1>6. CASE SkipHold
  BY <1>6 DEF SkipHold, registry, control, local, wire
<1>7. CASE BeginHold
  <2>1. PauseBefore \in Nat
    BY <1>0 DEF PauseBefore
  <2>2. /\ left' \in Nat
        /\ status' \in [Jobs -> Status]
        /\ activity' \in [Jobs -> Activities \cup {"none"}]
        /\ pc' \in {"slice", "final"}
    BY <1>7, <2>1 DEF BeginHold, Describe
  <2> QED
    BY <1>7, <2>2 DEF BeginHold, control, wire
<1>8. CASE HoldSlice
  BY <1>8 DEF HoldSlice, Hand, registry, control, wire
<1>9. CASE HoldCheck
  BY <1>9 DEF HoldCheck, registry, control, local, wire
<1>10. CASE Start
  <2>1. /\ status' \in [Jobs -> Status]
        /\ activity' \in [Jobs -> Activities \cup {"none"}]
        /\ pc' \in {"fn", "final"}
    BY <1>10 DEF Start, Describe
  <2>2. begun' \in 0 .. MaxWrites
    BY <1>10 DEF Start
  <2> QED
    BY <1>10, <2>1, <2>2 DEF Start, control, local
<1>11. CASE PrintReturns
  BY <1>11 DEF PrintReturns, registry, control, local, wire
<1>12. CASE PrintRaises
  BY <1>12 DEF PrintRaises, registry, control, wire
<1>13. CASE Finish
  BY <1>13 DEF Finish, Record, Registered, control, local, wire
<1>14. CASE LetGo
  BY <1>14 DEF LetGo, Describe, Registered, control
<1> QED
  BY <1>1, <1>2, <1>3, <1>4, <1>5, <1>6, <1>7, <1>8, <1>9, <1>10, <1>11,
     <1>12, <1>13, <1>14 DEF Advance

-----------------------------------------------------------------------------
(* Membership of the FIFO across its two operations.                       *)

\* Putting a job on the FIFO adds that job and no other.
LEMMA AppendMember ==
  ASSUME fifo \in Seq(Jobs), NEW j \in Jobs, fifo' = Append(fifo, j)
  PROVE  \A k \in Jobs : InFifo(k)' <=> InFifo(k) \/ k = j
<1>1. /\ Len(fifo') = Len(fifo) + 1
      /\ fifo'[Len(fifo) + 1] = j
      /\ \A i \in 1 .. Len(fifo) : fifo'[i] = fifo[i]
      /\ Len(fifo) \in Nat
  OBVIOUS
<1> QED
  BY <1>1 DEF InFifo

\* Taking the head off a FIFO without repetitions removes that job and no other.
LEMMA TailMember ==
  ASSUME fifo \in Seq(Jobs), fifo # <<>>, fifo' = Tail(fifo),
         \A i, k \in 1 .. Len(fifo) : fifo[i] = fifo[k] => i = k
  PROVE  /\ \A k \in Jobs : InFifo(k)' <=> InFifo(k) /\ k # Head(fifo)
         /\ \A i, k \in 1 .. Len(fifo') : fifo'[i] = fifo'[k] => i = k
<1>1. /\ Len(fifo) \in Nat \ {0}
      /\ Len(fifo') = Len(fifo) - 1
      /\ \A i \in 1 .. Len(fifo') : fifo'[i] = fifo[i + 1]
      /\ Head(fifo) = fifo[1]
  OBVIOUS
<1>2. ASSUME NEW k \in Jobs PROVE InFifo(k)' <=> InFifo(k) /\ k # Head(fifo)
  <2>1. ASSUME NEW i \in 1 .. Len(fifo), fifo[i] = k, i # 1 PROVE InFifo(k)'
    <3>1. i - 1 \in 1 .. Len(fifo') /\ fifo'[i - 1] = k
      BY <1>1, <2>1
    <3> QED
      BY <3>1 DEF InFifo
  <2>2. ASSUME NEW i \in 1 .. Len(fifo'), fifo'[i] = k
        PROVE  InFifo(k) /\ k # Head(fifo)
    <3>1. i + 1 \in 1 .. Len(fifo) /\ fifo[i + 1] = k /\ 1 \in 1 .. Len(fifo)
      BY <1>1, <2>2
    <3> QED
      BY <1>1, <3>1 DEF InFifo
  <2> QED
    BY <1>1, <2>1, <2>2 DEF InFifo
<1>3. ASSUME NEW i \in 1 .. Len(fifo'), NEW k \in 1 .. Len(fifo'), fifo'[i] = fifo'[k]
      PROVE  i = k
  BY <1>1, <1>3
<1> QED
  BY <1>2, <1>3

-----------------------------------------------------------------------------
(* The inductive invariant.                                                *)

\* What every API operation but Register, Put and Resume does to a job:
\* nothing, or it takes a job that is not printing out of the game.
Tame ==
  /\ \A j \in Jobs :
       \/ status'[j] = status[j] /\ activity'[j] = activity[j]
       \/ /\ status[j] \in Finished \cup {"queued"}
          /\ status'[j] \in {"cancelled", "removed"}
          /\ activity'[j] = "none"
  /\ UNCHANGED <<putting, fifo, current, pc, local, wire>>

\* An API call other than register, put and resume is tame: it settles queued jobs
\* or forgets settled ones, and leaves the worker's variables alone.
LEMMA ApiIsTame ==
  ASSUME TypeOK,
         \/ \E j \in Jobs : Cancel(j) \/ Remove(j)
         \/ ClearFinished \/ Pause \/ StopPauses \/ StopCancels
         \/ ClearAllCancels \/ ClearAllRemoves
  PROVE  Tame
<1> USE DEF TypeOK, Tame, Status, Active, Settled, Finished
<1>1. ASSUME NEW j \in Jobs, Cancel(j) PROVE Tame
  BY <1>1 DEF Cancel, CancelThese
<1>2. ASSUME NEW j \in Jobs, Remove(j) PROVE Tame
  BY <1>2 DEF Remove, Drop, Registered
<1>3. CASE ClearFinished
  BY <1>3 DEF ClearFinished, Drop
<1>4. CASE Pause \/ StopPauses
  BY <1>4 DEF Pause, StopPauses, registry
<1>5. CASE StopCancels \/ ClearAllCancels
  BY <1>5 DEF StopCancels, ClearAllCancels, CancelThese, Queued
<1>6. CASE ClearAllRemoves
  BY <1>6 DEF ClearAllRemoves, Drop, Registered
<1> QED
  BY <1>1, <1>2, <1>3, <1>4, <1>5, <1>6

\* A tame step keeps the invariant.
LEMMA TameStep == ASSUME IInv, TypeOK', Tame PROVE IInv'
<1> USE DEF IInv, Tame, local, wire, Status, Active, Settled, Finished
<1>0. \A j \in Jobs : InFifo(j)' <=> InFifo(j)
  BY DEF InFifo
<1>1. Placement'
  <2>1. \A j \in Jobs : Enqueued(j)' <=> Enqueued(j)
    BY <1>0 DEF Enqueued
  <2>2. \A j \in Jobs : /\ status'[j] = "unborn" => status[j] = "unborn"
                        /\ status'[j] \in {"done", "failed"} => status'[j] = status[j]
    OBVIOUS
  <2> QED
    BY <1>0, <2>1, <2>2 DEF Placement, TypeOK
<1>2. Hand'
  BY QueueAssumption DEF Hand, InHand, TypeOK, QueueAssumption
<1>3. Printing'
  BY DEF Printing, Hand, InHand, TypeOK
<1>4. Reach'
  BY <1>0 DEF Reach, Enqueued, TypeOK
<1>5. Described'
  BY DEF Described, ActivityOnlyInHand, FinishedShowsNothing, Registered, TypeOK
<1>6. NothingStranded'
  BY <1>0 DEF NothingStranded, TypeOK
<1> QED
  BY <1>1, <1>2, <1>3, <1>4, <1>5, <1>6

\* Registering a job: the newcomer is with its submitter, and pruning is tame.
LEMMA RegisterStep ==
  ASSUME IInv, TypeOK', NEW j \in Jobs, Register(j) PROVE IInv'
<1> USE DEF IInv, local, wire, Status, Active, Settled, Finished
<1>1. /\ status[j] = "unborn" /\ status'[j] = "queued" /\ activity'[j] = activity[j]
      /\ \A k \in Jobs \ {j} :
           \/ status'[k] = status[k] /\ activity'[k] = activity[k]
           \/ /\ status[k] \in Finished
              /\ status'[k] = "removed" /\ activity'[k] = "none"
      /\ putting' = putting \cup {j}
      /\ UNCHANGED <<fifo, current, pc, job, left, begun, reached>>
  BY PrunedAreFinished DEF Register, Drop, TypeOK
<1>0. \A k \in Jobs : InFifo(k)' <=> InFifo(k)
  BY <1>1 DEF InFifo
<1>2. Placement'
  BY <1>0, <1>1 DEF Placement, Enqueued, TypeOK
<1>3. Hand'
  BY <1>1, QueueAssumption DEF Hand, InHand, TypeOK, Placement, QueueAssumption
<1>4. Printing'
  BY <1>1 DEF Printing, Hand, InHand, TypeOK, Placement
<1>5. Reach'
  BY <1>0, <1>1 DEF Reach, Enqueued, TypeOK
<1>6. Described'
  BY <1>1 DEF Described, ActivityOnlyInHand, FinishedShowsNothing, Registered, TypeOK
<1>7. NothingStranded'
  BY <1>0, <1>1 DEF NothingStranded, TypeOK
<1> QED
  BY <1>2, <1>3, <1>4, <1>5, <1>6, <1>7

\* The second half of submit(): the job moves from its submitter to the FIFO.
LEMMA PutStep ==
  ASSUME IInv, TypeOK', NEW j \in Jobs, Put(j) PROVE IInv'
<1> USE DEF IInv, local, wire, Put
<1>0. \A k \in Jobs : InFifo(k)' <=> InFifo(k) \/ k = j
  BY AppendMember DEF TypeOK
<1>1. Placement'
  <2>1. \A i \in 1 .. Len(fifo) : fifo[i] # j
    BY DEF Placement, InFifo
  <2>2. /\ Len(fifo') = Len(fifo) + 1 /\ fifo'[Len(fifo) + 1] = j
        /\ \A i \in 1 .. Len(fifo) : fifo'[i] = fifo[i]
        /\ Len(fifo) \in Nat
    BY DEF TypeOK
  <2>3. \A i, k \in 1 .. Len(fifo') : fifo'[i] = fifo'[k] => i = k
    BY <2>1, <2>2 DEF Placement
  <2> QED
    BY <1>0, <2>3 DEF Placement, Enqueued, TypeOK
<1>2. Hand' /\ Printing'
  BY DEF Hand, Printing
<1>3. Reach'
  BY <1>0 DEF Reach, Enqueued, TypeOK
<1>4. Described'
  BY DEF Described, ActivityOnlyInHand, FinishedShowsNothing, Registered
<1>5. NothingStranded'
  BY <1>0 DEF NothingStranded
<1> QED
  BY <1>1, <1>2, <1>3, <1>4, <1>5

\* A resume moves a blocked worker on and nothing else.
LEMMA ResumeStep == ASSUME IInv, TypeOK', Resume PROVE IInv'
<1> USE DEF IInv, local, wire, registry, Resume
<1>0. \A k \in Jobs : InFifo(k)' <=> InFifo(k)
  BY DEF InFifo
<1>1. Placement'
  BY <1>0 DEF Placement, Enqueued, TypeOK
<1>5. NothingStranded'
  BY <1>0 DEF NothingStranded
<1>2. Hand'
  BY DEF Hand, InHand
<1>3. Printing' /\ Reach'
  BY <1>0 DEF Printing, Reach, Enqueued
<1>4. Described'
  BY DEF Described, ActivityOnlyInHand, FinishedShowsNothing, Registered
<1> QED
  BY <1>1, <1>2, <1>3, <1>4, <1>5

\* A job the worker finds gone is settled: it cannot be one never submitted.
LEMMA GoneIsSettled ==
  ASSUME IInv, pc # "get"
  PROVE  job \in Jobs /\ (Gone(job) => status[job] \in Settled)
<1>1. job \in Jobs /\ status[job] # "unborn" /\ status[job] \in Status
  BY DEF IInv, TypeOK, Hand, Placement
<1> QED
  BY <1>1 DEF Gone, Registered, Status, Active, Settled, Finished

\* Worker steps that leave the registry, the FIFO and the job in hand alone.
LEMMA QuietStep ==
  ASSUME IInv, TypeOK', UNCHANGED <<registry, fifo, job>>,
         \/ AwaitResume \/ Take \/ SkipHold \/ HoldSlice \/ HoldCheck
         \/ BeginWrite \/ PrintReturns \/ PrintRaises
         \/ \E schedule \in Schedules : GateReleases(schedule)
  PROVE  IInv'
<1> USE DEF IInv, registry
<1>0. \A k \in Jobs : InFifo(k)' <=> InFifo(k)
  BY DEF InFifo
<1>1. Placement'
  BY <1>0 DEF Placement, Enqueued, TypeOK
<1>2. NothingStranded'
  BY <1>0 DEF NothingStranded
<1>3. current' \in {current, job} /\ (current # NoJob => current' = current)
  BY DEF AwaitResume, Take, SkipHold, HoldSlice, HoldCheck, BeginWrite,
         PrintReturns, PrintRaises, GateReleases, Hand
<1>4. pc # "final"
  BY DEF AwaitResume, Take, SkipHold, HoldSlice, HoldCheck, BeginWrite,
         PrintReturns, PrintRaises, GateReleases
<1>5. Described'
  BY <1>3, <1>4, QueueAssumption
     DEF Described, ActivityOnlyInHand, FinishedShowsNothing, Registered, TypeOK, QueueAssumption
<1>6. CASE AwaitResume
  BY <1>0, <1>1, <1>2, <1>5, <1>6
     DEF AwaitResume, Hand, InHand, Printing, Reach, Enqueued, local, wire
<1>7. CASE Take
  <2>1. Gone(job) => status[job] \in Settled
    BY <1>7, GoneIsSettled DEF Take
  <2> QED
    BY <1>0, <1>1, <1>2, <1>5, <1>7, <2>1
       DEF Take, Hand, InHand, Printing, Reach, Enqueued, local, wire
<1>8. CASE \E schedule \in Schedules : GateReleases(schedule)
  BY <1>0, <1>1, <1>2, <1>5, <1>8
     DEF GateReleases, Hand, InHand, Printing, Reach, Enqueued, wire
<1>9. CASE SkipHold
  BY <1>0, <1>1, <1>2, <1>5, <1>9
     DEF SkipHold, Hand, InHand, Printing, Reach, Enqueued, local, wire
<1>10. CASE HoldSlice
  BY <1>0, <1>1, <1>2, <1>5, <1>10
     DEF HoldSlice, Hand, InHand, Printing, Reach, Enqueued, wire
<1>11. CASE HoldCheck
  <2>1. Gone(job) => status[job] \in Settled
    BY <1>11, GoneIsSettled DEF HoldCheck
  <2> QED
    BY <1>0, <1>1, <1>2, <1>5, <1>11, <2>1
       DEF HoldCheck, Hand, InHand, Printing, Reach, Enqueued, local, wire, TypeOK
<1>12. CASE BeginWrite
  <2>1. Hand' /\ Printing'
    BY <1>12 DEF BeginWrite, Hand, InHand, Printing, local
  <2>2. Reach'
    BY <1>0, <1>12 DEF BeginWrite, Hand, InHand, Printing, Reach, Enqueued,
                       Placement, local, TypeOK
  <2> QED
    BY <1>1, <1>2, <1>5, <2>1, <2>2
<1>13. CASE PrintReturns
  BY <1>0, <1>1, <1>2, <1>5, <1>13
     DEF PrintReturns, Hand, InHand, Printing, Reach, Enqueued, local, wire
<1>14. CASE PrintRaises
  BY <1>0, <1>1, <1>2, <1>5, <1>14
     DEF PrintRaises, MayRetry, Hand, InHand, Printing, Reach, Enqueued, wire
<1> QED
  BY <1>6, <1>7, <1>8, <1>9, <1>10, <1>11, <1>12, <1>13, <1>14

\* The worker takes a job off the FIFO: it is in hand and nowhere else.
LEMMA DequeueStep == ASSUME IInv, TypeOK', Dequeue PROVE IInv'
<1> USE DEF IInv, registry, Dequeue
<1>1. \A i, k \in 1 .. Len(fifo) : fifo[i] = fifo[k] => i = k
  BY DEF Placement
<1>2. \A k \in Jobs : InFifo(k)' <=> InFifo(k) /\ k # job'
  BY <1>1, TailMember DEF TypeOK
<1>3. InFifo(job') /\ job' \in Jobs
  <2>1. Head(fifo) = fifo[1] /\ 1 \in 1 .. Len(fifo) /\ Head(fifo) \in Jobs
    BY DEF TypeOK
  <2> QED
    BY <2>1 DEF InFifo
<1>4. job = NoJob /\ current = NoJob /\ job' # NoJob
  BY <1>3, QueueAssumption DEF Hand, QueueAssumption
<1>5. Placement'
  <2>1. \A i, k \in 1 .. Len(fifo') : fifo'[i] = fifo'[k] => i = k
    BY <1>1, TailMember DEF TypeOK
  <2> QED
    BY <1>2, <1>3, <2>1 DEF Placement, Enqueued, TypeOK
<1>6. Hand'
  BY <1>3, <1>4 DEF Hand, InHand, Placement, Enqueued
<1>7. Printing'
  BY <1>4, QueueAssumption DEF Printing, QueueAssumption
<1>8. Reach'
  BY <1>2, <1>3 DEF Reach, Enqueued, wire
<1>9. Described'
  BY <1>4, QueueAssumption
     DEF Described, ActivityOnlyInHand, FinishedShowsNothing, Registered, QueueAssumption
<1>10. NothingStranded'
  BY <1>2, <1>4, QueueAssumption DEF NothingStranded, QueueAssumption
<1> QED
  BY <1>5, <1>6, <1>7, <1>8, <1>9, <1>10

\* Worker steps that change the status or the activity of the job in hand.
LEMMA InHandStep ==
  ASSUME IInv, TypeOK',
         \/ GateRaises \/ BeginHold \/ Start \/ Finish \/ LetGo
         \/ \E token \in GateActivities : GateReports(token)
  PROVE  IInv'
<1> USE DEF IInv
<1>0. /\ UNCHANGED <<putting, fifo>>
      /\ pc # "get" /\ (pc # "final" => current = job)
      /\ job' \in {job, NoJob} /\ current' \in {current, NoJob}
      /\ \A j \in Jobs \ {job} : status'[j] = status[j] /\ activity'[j] = activity[j]
  BY DEF GateRaises, BeginHold, Start, Finish, LetGo, GateReports, Record,
         Describe, Hand, InHand, local, TypeOK
<1>1. /\ job \in Jobs
      /\ Gone(job) => status[job] \in Settled
      /\ ~Gone(job) => job \in Registered /\ status[job] # "cancelled"
      /\ job \notin Registered => status[job] = "removed"
  <2>1. status[job] \in Status /\ status[job] # "unborn"
    BY <1>0, GoneIsSettled DEF TypeOK, Placement
  <2> QED
    BY <1>0, <2>1, GoneIsSettled
       DEF Gone, Registered, Status, Active, Settled, Finished
<1>2. status'[job] # "unborn" /\ status'[job] \in Status
  BY <1>0, <1>1 DEF GateRaises, BeginHold, Start, Finish, LetGo, GateReports,
         Record, Placement, TypeOK
<1>3. \A k \in Jobs : InFifo(k)' <=> InFifo(k)
  BY <1>0 DEF InFifo
<1>4. Placement'
  BY <1>0, <1>1, <1>2, <1>3, QueueAssumption
     DEF Placement, Enqueued, QueueAssumption, TypeOK
<1> USE DEF Settled, Finished
<1>5. CASE GateRaises
  <2>1. status'[job] \in {"failed", "removed"} /\ activity'[job] = "none"
    BY <1>1, <1>5 DEF GateRaises, Record, Describe, Described, TypeOK
  <2>2. Hand'
    BY <1>0, <1>5, <2>1 DEF GateRaises, Hand, InHand, local
  <2>3. Printing' /\ Reach'
    BY <1>0, <1>3, <1>5, <2>1 DEF GateRaises, Printing, Reach, Enqueued, local, wire
  <2>4. Described'
    BY <1>0, <1>5, <2>1
       DEF GateRaises, Described, ActivityOnlyInHand, FinishedShowsNothing, Registered, local
  <2>5. NothingStranded'
    BY <1>0, <1>3, <1>5, <2>1 DEF GateRaises, NothingStranded, local
  <2> QED
    BY <1>4, <2>2, <2>3, <2>4, <2>5
<1>6. CASE BeginHold
  <2>1. CASE Gone(job)
    BY <1>0, <1>1, <1>3, <1>4, <1>6, <2>1
       DEF BeginHold, Hand, InHand, Printing, Reach, Enqueued, Described,
           ActivityOnlyInHand, FinishedShowsNothing, Registered, NothingStranded, wire
  <2>2. CASE ~Gone(job)
    <3>1. status'[job] = "queued" /\ pc' = "slice" /\ left' > 0
      BY <1>1, <1>6, <2>2 DEF BeginHold, TypeOK
    <3>2. Hand' /\ Printing'
      BY <1>0, <1>6, <3>1 DEF BeginHold, Hand, InHand, Printing
    <3>3. Reach' /\ NothingStranded'
      BY <1>0, <1>3, <1>6, <3>1 DEF BeginHold, Reach, Enqueued, NothingStranded, wire
    <3>4. Described'
      BY <1>0, <1>1, <1>6, <2>2, <3>1
         DEF BeginHold, Described, ActivityOnlyInHand, FinishedShowsNothing,
             Registered, Active, Hand, InHand
    <3> QED
      BY <1>4, <3>2, <3>3, <3>4
  <2> QED
    BY <2>1, <2>2
<1>7. CASE Start
  <2>1. CASE Gone(job)
    BY <1>0, <1>1, <1>3, <1>4, <1>7, <2>1
       DEF Start, Hand, InHand, Printing, Reach, Enqueued, Described, local,
           ActivityOnlyInHand, FinishedShowsNothing, Registered, NothingStranded
  <2>2. CASE ~Gone(job)
    <3>1. status'[job] = "printing" /\ pc' = "fn" /\ begun' = 0
      BY <1>1, <1>7, <2>2 DEF Start, TypeOK
    <3>2. Hand' /\ Printing'
      BY <1>0, <1>7, <3>1 DEF Start, Hand, InHand, Printing, local
    <3>3. Reach' /\ NothingStranded'
      BY <1>0, <1>3, <1>7, <3>1 DEF Start, Reach, Enqueued, NothingStranded, local
    <3>4. Described'
      BY <1>0, <1>1, <1>7, <2>2, <3>1
         DEF Start, Described, ActivityOnlyInHand, FinishedShowsNothing,
             Registered, Active, Hand, InHand, local
    <3> QED
      BY <1>4, <3>2, <3>3, <3>4
  <2> QED
    BY <2>1, <2>2
<1>8. CASE Finish
  <2>1. status'[job] \in {"done", "failed", "removed"}
    BY <1>1, <1>8 DEF Finish, Record, TypeOK
  <2>2. Hand'
    BY <1>0, <1>8, <2>1 DEF Finish, Hand, InHand, local
  <2>3. Printing' /\ Reach'
    BY <1>0, <1>3, <1>8, <2>1 DEF Finish, Printing, Reach, Enqueued, local, wire
  <2>4. Described'
    BY <1>0, <1>1, <1>8, <2>1
       DEF Finish, Record, Described, ActivityOnlyInHand, FinishedShowsNothing,
           Registered, Active, Hand, InHand, local
  <2>5. NothingStranded'
    BY <1>0, <1>3, <1>8, <2>1 DEF Finish, NothingStranded, local
  <2> QED
    BY <1>4, <2>2, <2>3, <2>4, <2>5
<1>9. CASE LetGo
  <2>1. activity'[job] = "none" /\ status'[job] = status[job] /\ status[job] \in Settled
    BY <1>1, <1>9 DEF LetGo, Describe, Described, Hand, TypeOK
  <2>2. Hand'
    BY <1>9 DEF LetGo, Hand, InHand
  <2>3. Printing' /\ Reach'
    BY <1>0, <1>3, <1>9, <2>1 DEF LetGo, Printing, Reach, Enqueued
  <2>4. Described'
    BY <1>0, <1>9, <2>1
       DEF LetGo, Described, ActivityOnlyInHand, FinishedShowsNothing, Registered
  <2>5. NothingStranded'
    BY <1>0, <1>3, <1>9, <2>1 DEF LetGo, NothingStranded
  <2> QED
    BY <1>4, <2>2, <2>3, <2>4, <2>5
<1>10. CASE \E token \in GateActivities : GateReports(token)
  <2>1. /\ job \in Registered /\ status[job] \notin Finished
        /\ UNCHANGED <<status, putting, fifo, current, pc, local, wire>>
    BY <1>0, <1>10 DEF GateReports
  <2>2. Hand' /\ Printing' /\ Reach' /\ NothingStranded'
    BY <1>3, <2>1 DEF Hand, Printing, Reach, Enqueued, NothingStranded, local, wire
  <2>3. Described'
    BY <1>0, <1>10, <2>1
       DEF GateReports, Described, ActivityOnlyInHand, FinishedShowsNothing, Registered, local
  <2> QED
    BY <1>4, <2>2, <2>3
<1> QED
  BY <1>5, <1>6, <1>7, <1>8, <1>9, <1>10

\* The initial state satisfies the invariant.
LEMMA IInvInit == Init => IInv
<1> SUFFICES ASSUME Init PROVE IInv
  OBVIOUS
<1>1. TypeOK
  BY TypeInit
<1>2. \A j \in Jobs : ~InFifo(j) /\ ~Enqueued(j)
  BY DEF Init, InFifo, Enqueued
<1>3. Placement
  BY <1>2, QueueAssumption DEF Init, Placement, QueueAssumption
<1>4. Hand /\ Printing
  BY DEF Init, Hand, InHand, Printing
<1>5. Reach /\ Described /\ NothingStranded
  BY DEF Init, Reach, Described, ActivityOnlyInHand, FinishedShowsNothing, NothingStranded
<1> QED
  BY <1>1, <1>3, <1>4, <1>5 DEF IInv

\* Every step keeps the invariant.
LEMMA IInvStep == IInv /\ [Next]_vars => IInv'
<1> SUFFICES ASSUME IInv, [Next]_vars PROVE IInv'
  OBVIOUS
<1>1. CASE Api
  <2>1. TypeOK'
    BY <1>1, TypeApi DEF IInv
  <2>2. ASSUME NEW j \in Jobs, Register(j) PROVE IInv'
    BY <2>1, <2>2, RegisterStep
  <2>3. ASSUME NEW j \in Jobs, Put(j) PROVE IInv'
    BY <2>1, <2>3, PutStep
  <2>4. CASE Resume
    BY <2>1, <2>4, ResumeStep
  <2>5. CASE \/ \E j \in Jobs : Cancel(j) \/ Remove(j)
             \/ ClearFinished \/ Pause \/ StopPauses \/ StopCancels
             \/ ClearAllCancels \/ ClearAllRemoves
    BY <2>1, <2>5, ApiIsTame, TameStep DEF IInv
  <2> QED
    BY <1>1, <2>2, <2>3, <2>4, <2>5 DEF Api, Reprint
<1>2. CASE Advance
  <2>1. TypeOK'
    BY <1>2, TypeAdvance DEF IInv
  <2>2. CASE Dequeue
    BY <2>1, <2>2, DequeueStep
  <2>3. CASE \/ AwaitResume \/ Take \/ SkipHold \/ HoldSlice \/ HoldCheck
             \/ PrintReturns \/ PrintRaises
             \/ \E schedule \in Schedules : GateReleases(schedule)
    <3>1. UNCHANGED <<registry, fifo, job>>
      BY <2>3 DEF AwaitResume, Take, SkipHold, HoldSlice, HoldCheck, PrintReturns,
                  PrintRaises, GateReleases, local
    <3> QED
      BY <2>1, <2>3, <3>1, QuietStep
  <2>4. CASE GateRaises \/ BeginHold \/ Start \/ Finish \/ LetGo
    BY <2>1, <2>4, InHandStep
  <2> QED
    BY <1>2, <2>2, <2>3, <2>4 DEF Advance
<1>3. ASSUME NEW token \in GateActivities, GateReports(token) PROVE IInv'
  <2>1. TypeOK'
    BY <1>3 DEF IInv, GateReports, TypeOK, Activities, control, local, wire
  <2> QED
    BY <1>3, <2>1, InHandStep
<1>4. CASE BeginWrite
  <2>1. begun' \in 0 .. MaxWrites /\ reached' \in [Jobs -> Nat]
    <3>1. begun \in Nat /\ MaxWrites \in Nat /\ begun < MaxWrites
      BY <1>4, QueueAssumption DEF IInv, BeginWrite, TypeOK, QueueAssumption
    <3>2. begun + 1 \in 0 .. MaxWrites
      BY <3>1
    <3>3. reached \in [Jobs -> Nat] /\ job \in Jobs /\ reached[job] + 1 \in Nat
      BY <1>4, GoneIsSettled DEF IInv, TypeOK, BeginWrite
    <3>4. reached' \in [Jobs -> Nat]
      BY <1>4, <3>3 DEF BeginWrite
    <3> QED
      BY <1>4, <3>2, <3>4 DEF BeginWrite
  <2>2. TypeOK' /\ UNCHANGED <<registry, fifo, job>>
    BY <1>4, <2>1 DEF IInv, BeginWrite, TypeOK, registry, control, local
  <2> QED
    BY <1>4, <2>2, QuietStep
<1>5. CASE UNCHANGED vars
  <2>1. TypeOK'
    BY <1>5 DEF IInv, TypeOK, vars, registry, control, local, wire
  <2>2. Tame
    BY <1>5 DEF Tame, vars, registry
  <2> QED
    BY <2>1, <2>2, TameStep
<1> QED
  BY <1>1, <1>2, <1>3, <1>4, <1>5 DEF Next

\* Where jobs are, what the worker holds, what was written and what is shown
\* for them (IInv) holds in every reachable state of the queue.
THEOREM InductiveInvariant == Spec => []IInv
  BY IInvInit, IInvStep, PTL DEF Spec

-----------------------------------------------------------------------------
(* The theorems.                                                           *)

\* Every variable of the queue stays in its type, in every instance.
THEOREM TypeCorrect == Spec => []TypeOK
  BY InductiveInvariant, PTL DEF IInv

\* The job whose print runs is in the registry as printing, and no other is:
\* _print_job's unlocked fn() is never overtaken by a cancel or a remove.
THEOREM WireIsExclusive == Spec => []OneJobOnTheWire
<1>1. IInv => OneJobOnTheWire
  BY DEF IInv, OneJobOnTheWire, Hand, InHand, Printing
<1> QED
  BY <1>1, InductiveInvariant, PTL

\* The attempt schedule never lets two attempts of one job write.
THEOREM WrittenByOneAttempt == Spec => []NeverPrintedTwice
<1>1. IInv => NeverPrintedTwice
  BY DEF IInv, NeverPrintedTwice, Reach
<1> QED
  BY <1>1, InductiveInvariant, PTL

\* A job the registry shows as queued is on its way to the worker.
THEOREM NoJobStranded == Spec => []NothingStranded
  BY InductiveInvariant, PTL DEF IInv

\* A running gate keeps has_pending_work() true, cancelled job or not.
THEOREM GateKeepsQueueBusy == Spec => []GateIsPendingWork
<1>1. IInv => GateIsPendingWork
  BY QueueAssumption
     DEF IInv, GateIsPendingWork, HasPendingWork, Hand, InHand, TypeOK, QueueAssumption
<1> QED
  BY <1>1, InductiveInvariant, PTL

\* Activities are found on the job in hand only, and on a finished job only
\* in the worker's last step with it.
THEOREM ActivitiesAreCurrent == Spec => [](ActivityOnlyInHand /\ FinishedShowsNothing)
  BY InductiveInvariant, PTL DEF IInv, Described

\* No step writes for a settled job or makes it active again.
LEMMA SettledStep ==
  ASSUME IInv, [Next]_vars, NEW j \in Jobs, status[j] \in Settled
  PROVE  reached'[j] = reached[j] /\ status'[j] \in Settled
<1> USE DEF Settled, Finished
<1>1. CASE Api
  <2>1. ASSUME NEW k \in Jobs, Register(k) PROVE status'[j] \in Settled /\ UNCHANGED wire
    BY <2>1 DEF IInv, TypeOK, Register, Drop
  <2>2. ASSUME NEW k \in Jobs, Put(k) PROVE UNCHANGED <<status, wire>>
    BY <2>2 DEF Put
  <2>3. CASE Resume
    BY <2>3 DEF Resume, registry, wire
  <2>4. CASE \/ \E k \in Jobs : Cancel(k) \/ Remove(k)
             \/ ClearFinished \/ Pause \/ StopPauses \/ StopCancels
             \/ ClearAllCancels \/ ClearAllRemoves
    BY <2>4, ApiIsTame DEF IInv, Tame, wire
  <2> QED
    BY <1>1, <2>1, <2>2, <2>3, <2>4 DEF Api, Reprint, wire
<1>2. CASE Advance
  <2>1. CASE Dequeue \/ AwaitResume \/ Take \/ SkipHold \/ HoldSlice \/ HoldCheck
             \/ PrintReturns \/ PrintRaises
             \/ \E schedule \in Schedules : GateReleases(schedule)
    BY <2>1 DEF Dequeue, AwaitResume, Take, SkipHold, HoldSlice, HoldCheck,
                PrintReturns, PrintRaises, GateReleases, registry, wire
  <2>2. CASE GateRaises \/ Finish \/ LetGo
    BY <2>2 DEF IInv, TypeOK, GateRaises, Finish, LetGo, Record, wire
  <2>3. CASE BeginHold \/ Start
    <3>1. pc \in {"attempt", "start"}
      BY <2>3 DEF BeginHold, Start
    <3>2. job = j => Gone(job)
      BY <3>1 DEF IInv, Hand, Gone, Registered, Active
    <3>3. UNCHANGED reached
      BY <2>3 DEF BeginHold, Start, wire
    <3>4. status'[j] = status[j]
      BY <2>3, <3>2 DEF IInv, TypeOK, BeginHold, Start
    <3> QED
      BY <3>3, <3>4
  <2> QED
    BY <1>2, <2>1, <2>2, <2>3 DEF Advance
<1>3. ASSUME NEW token \in GateActivities, GateReports(token)
      PROVE  UNCHANGED <<status, wire>>
  BY <1>3 DEF GateReports
<1>4. CASE BeginWrite
  BY <1>4 DEF IInv, TypeOK, Printing, BeginWrite, registry
<1>5. CASE UNCHANGED vars
  BY <1>5 DEF vars, registry, wire
<1> QED
  BY <1>1, <1>2, <1>3, <1>4, <1>5 DEF Next, wire

\* cancel(), remove(), stop() and clear_all() hold: a settled job begins no
\* further write and is never made active again.
THEOREM CancelIsHonoured == Spec => SettledStaysOffTheWire
<1>1. IInv /\ [Next]_vars => [SettledIsLeftAlone]_vars
  BY SettledStep DEF SettledIsLeftAlone
<1> QED
  BY <1>1, InductiveInvariant, PTL DEF Spec, SettledStaysOffTheWire

-----------------------------------------------------------------------------
(* The registry's cap: which jobs registering one more evicts.             *)

FinishedJobs == {j \in Jobs : status[j] \in Finished}
Older(f)     == {g \in FinishedJobs : ticket[g] < ticket[f]}

\* There are finitely many registered jobs, each with a ticket of its own.
Numbered ==
  /\ IsFiniteSet(Registered)
  /\ \A i \in Registered : ticket[i] < tickets
  /\ \A i, j \in Registered : ticket[i] = ticket[j] => i = j

\* Every step but a registration leaves the tickets alone and the registry no
\* larger: what was removed does not come back.
LEMMA NothingComesBack ==
  ASSUME TypeOK, [Next]_vars, \A j \in Jobs : ~Register(j)
  PROVE  UNCHANGED <<ticket, tickets>> /\ Registered' \subseteq Registered
<1> USE DEF TypeOK, Registered, Active, Finished
<1>1. CASE Api
  <2>1. ASSUME NEW j \in Jobs, Put(j) \/ Cancel(j) \/ Remove(j)
        PROVE  UNCHANGED <<ticket, tickets>> /\ Registered' \subseteq Registered
    BY <2>1 DEF Put, Cancel, CancelThese, Remove, Drop
  <2>2. CASE ClearFinished \/ ClearAllRemoves
    BY <2>2 DEF ClearFinished, ClearAllRemoves, Drop
  <2>3. CASE StopCancels \/ ClearAllCancels
    BY <2>3 DEF StopCancels, ClearAllCancels, CancelThese, Queued
  <2>4. CASE Pause \/ Resume \/ StopPauses
    BY <2>4 DEF Pause, Resume, StopPauses, registry
  <2> QED
    BY <1>1, <2>1, <2>2, <2>3, <2>4 DEF Api, Reprint
<1>2. CASE Advance
  <2>1. CASE Dequeue \/ AwaitResume \/ Take \/ SkipHold \/ HoldSlice \/ HoldCheck
             \/ PrintReturns \/ PrintRaises
             \/ \E schedule \in Schedules : GateReleases(schedule)
    BY <2>1 DEF Dequeue, AwaitResume, Take, SkipHold, HoldSlice, HoldCheck,
                PrintReturns, PrintRaises, GateReleases, registry
  <2>2. CASE GateRaises \/ Finish \/ LetGo
    BY <2>2 DEF GateRaises, Finish, LetGo, Record
  <2>3. CASE BeginHold \/ Start
    BY <2>3 DEF BeginHold, Start, Gone
  <2> QED
    BY <1>2, <2>1, <2>2, <2>3 DEF Advance
<1>3. ASSUME NEW token \in GateActivities, GateReports(token)
      PROVE  UNCHANGED <<status, ticket, tickets>>
  BY <1>3 DEF GateReports
<1>4. CASE BeginWrite \/ UNCHANGED vars
  BY <1>4 DEF BeginWrite, vars, registry
<1> QED
  BY <1>1, <1>2, <1>3, <1>4 DEF Next

\* Tickets stay unique.
LEMMA NumberedStep == ASSUME TypeOK, Numbered, [Next]_vars PROVE Numbered'
<1>1. ASSUME NEW j \in Jobs, Register(j) PROVE Numbered'
  <2>1. /\ Registered' \subseteq Registered \cup {j} /\ j \notin Registered
        /\ ticket' = [ticket EXCEPT ![j] = tickets] /\ tickets' = tickets + 1
    BY <1>1 DEF Register, Drop, Registered, TypeOK, Active, Finished
  <2>2. IsFiniteSet(Registered')
    BY <2>1, FS_AddElement, FS_Subset DEF Numbered
  <2>3. \A i \in Registered' : ticket'[i] = IF i = j THEN tickets ELSE ticket[i]
    BY <2>1 DEF TypeOK, Registered
  <2>4. \A i \in Registered : ticket[i] \in Nat
    BY DEF TypeOK, Registered
  <2> QED
    BY <2>1, <2>2, <2>3, <2>4 DEF Numbered, TypeOK
<1>2. CASE \A j \in Jobs : ~Register(j)
  <2>1. UNCHANGED <<ticket, tickets>> /\ Registered' \subseteq Registered
    BY <1>2, NothingComesBack
  <2>2. IsFiniteSet(Registered')
    BY <2>1, FS_Subset DEF Numbered
  <2> QED
    BY <2>1, <2>2 DEF Numbered
<1> QED
  BY <1>1, <1>2

\* A nonempty set of naturals has a least element.
LEMMA Least ==
  ASSUME NEW S \in SUBSET Nat, S # {}
  PROVE  \E m \in S : \A n \in S : m <= n
<1> DEFINE R == {p \in Nat \X Nat : p[1] < p[2]}
<1>1. IsWellFoundedOn(R, Nat)
  BY NatLessThanWellFounded DEF OpToRel
<1>2. \A m, n \in Nat : n < m => <<n, m>> \in R
  OBVIOUS
<1> HIDE DEF R
<1>3. PICK m \in S : \A n \in S : <<n, m>> \notin R
  BY <1>1, WFMin
<1>4. \A n \in S : m <= n
  <2> SUFFICES ASSUME NEW n \in S PROVE m <= n
    OBVIOUS
  <2>1. m \in Nat /\ n \in Nat /\ ~(n < m)
    BY <1>2, <1>3
  <2> QED
    BY <2>1
<1> QED
  BY <1>4

\* The finished jobs older than one are finitely many, and fewer for the older
\* of two.
LEMMA OlderAreFewer ==
  ASSUME TypeOK, Numbered, NEW e \in FinishedJobs
  PROVE  /\ IsFiniteSet(Older(e)) /\ Cardinality(Older(e)) \in Nat
         /\ \A f \in FinishedJobs : ticket[e] < ticket[f] =>
              Cardinality(Older(e)) < Cardinality(Older(f))
<1>1. FinishedJobs \subseteq Registered /\ IsFiniteSet(FinishedJobs)
  BY FS_Subset DEF Numbered, FinishedJobs, Registered, Finished
<1>2. ASSUME NEW f \in FinishedJobs
      PROVE  IsFiniteSet(Older(f)) /\ Cardinality(Older(f)) \in Nat
  BY <1>1, FS_Subset, FS_CardinalityType DEF Older
<1>3. ASSUME NEW f \in FinishedJobs, ticket[e] < ticket[f]
      PROVE  Cardinality(Older(e)) < Cardinality(Older(f))
  <2>1. \A g \in FinishedJobs : ticket[g] \in Nat
    BY DEF TypeOK, FinishedJobs
  <2>2. Older(e) \cup {e} \subseteq Older(f) /\ e \notin Older(e)
    BY <1>3, <2>1 DEF Older
  <2>3. Cardinality(Older(e) \cup {e}) = Cardinality(Older(e)) + 1
    BY <1>2, <2>2, FS_AddElement
  <2>4. Cardinality(Older(e) \cup {e}) <= Cardinality(Older(f))
    BY <1>2, <2>2, FS_Subset
  <2> QED
    BY <1>2, <2>3, <2>4
<1> QED
  BY <1>2, <1>3

\* _prune_locked takes the oldest, no more than the registry will be over its
\* cap by, and as many unless it runs out of finished jobs.
LEMMA PrunedCount ==
  ASSUME TypeOK, Numbered
  PROVE  /\ IsFiniteSet(Pruned) /\ Pruned \subseteq FinishedJobs
         /\ FinishedJobs \subseteq Registered
         /\ \A e \in Pruned, s \in FinishedJobs \ Pruned : ticket[e] < ticket[s]
         /\ Pruned # {} =>
              Cardinality(Pruned) + MaxHistory <= Cardinality(Registered) + 1
         /\ FinishedJobs \ Pruned # {} =>
              Cardinality(Registered) + 1 <= Cardinality(Pruned) + MaxHistory
<1> DEFINE rank(f) == Cardinality(Older(f))
           over    == Cardinality(Registered) + 1 - MaxHistory
<1>1. FinishedJobs \subseteq Registered /\ IsFiniteSet(Registered)
  BY DEF Numbered, FinishedJobs, Registered, Finished
<1>2. Cardinality(Registered) \in Nat /\ MaxHistory \in Nat
  BY <1>1, FS_CardinalityType, QueueAssumption DEF QueueAssumption
<1>3. \A f \in FinishedJobs : /\ IsFiniteSet(Older(f)) /\ rank(f) \in Nat
                              /\ ticket[f] \in Nat
  BY OlderAreFewer DEF TypeOK, FinishedJobs
<1>4. \A e, f \in FinishedJobs : ticket[e] < ticket[f] => rank(e) < rank(f)
  BY OlderAreFewer
<1>5. Pruned \subseteq FinishedJobs /\ \A f \in FinishedJobs : f \in Pruned <=> rank(f) < over
  <2>1. Pruned = {f \in FinishedJobs : rank(f) + MaxHistory < Cardinality(Registered) + 1}
    BY DEF Pruned, FinishedJobs, Older
  <2> HIDE DEF rank
  <2> QED
    BY <1>2, <1>3, <2>1
<1>6. IsFiniteSet(Pruned)
  BY <1>1, <1>5, FS_Subset
<1>7. Cardinality(Pruned) \in Nat
  BY <1>6, FS_CardinalityType
<1>8. over \in Int
  BY <1>2
<1> HIDE DEF rank
<1>9. ASSUME NEW e \in Pruned, NEW s \in FinishedJobs \ Pruned PROVE ticket[e] < ticket[s]
  <2>1. rank(e) < over /\ ~(rank(s) < over) /\ rank(e) \in Nat /\ rank(s) \in Nat
    BY <1>3, <1>5
  <2>2. ~(ticket[s] < ticket[e])
    BY <1>4, <1>5, <1>8, <2>1
  <2>3. ticket[s] # ticket[e]
    BY <1>1, <1>5 DEF Numbered
  <2> QED
    BY <1>3, <1>5, <2>2, <2>3
<1>10. ASSUME Pruned # {} PROVE Cardinality(Pruned) <= over
  <2> DEFINE f == [e \in Pruned |-> rank(e)]
  <2>1. over \in Nat /\ over > 0
    BY <1>3, <1>5, <1>8, <1>10
  <2>2. /\ IsFiniteSet(0 .. over - 1) /\ Cardinality(0 .. over - 1) = over
    BY <2>1, FS_Interval
  <2>3. f \in [Pruned -> 0 .. over - 1]
    BY <1>3, <1>5, <1>8
  <2>4. ASSUME NEW d \in Pruned, NEW e \in Pruned, d # e PROVE f[d] # f[e]
    <3>1. ticket[d] # ticket[e]
      BY <1>1, <1>5, <2>4 DEF Numbered
    <3>2. ticket[d] < ticket[e] \/ ticket[e] < ticket[d]
      BY <1>3, <1>5, <3>1
    <3>3. rank(d) # rank(e)
      BY <1>3, <1>4, <1>5, <3>2
    <3> QED
      BY <3>3
  <2> HIDE DEF f, over
  <2>5. f \in Injection(Pruned, 0 .. over - 1)
    BY <2>3, <2>4 DEF Injection, IsInjective
  <2> QED
    BY <2>2, <2>5, FS_Injection
<1>11. ASSUME FinishedJobs \ Pruned # {} PROVE over <= Cardinality(Pruned)
  <2> DEFINE moments == {ticket[s] : s \in FinishedJobs \ Pruned}
  <2>1. moments \in SUBSET Nat /\ moments # {}
    BY <1>3, <1>11
  <2>2. PICK m \in moments : \A n \in moments : m <= n
    BY <2>1, Least
  <2>3. PICK s \in FinishedJobs \ Pruned : \A r \in FinishedJobs \ Pruned : ticket[s] <= ticket[r]
    BY <2>2
  <2>4. Older(s) \subseteq Pruned
    <3> SUFFICES ASSUME NEW g \in FinishedJobs, ticket[g] < ticket[s] PROVE g \in Pruned
      BY DEF Older
    <3> QED
      BY <1>3, <2>3
  <2>5. rank(s) <= Cardinality(Pruned)
    BY <1>6, <2>4, FS_Subset DEF rank
  <2>6. ~(rank(s) < over) /\ rank(s) \in Nat
    BY <1>3, <1>5
  <2> QED
    BY <1>7, <1>8, <2>5, <2>6
<1> QED
  BY <1>1, <1>2, <1>5, <1>6, <1>7, <1>9, <1>10, <1>11

\* What is evicted, spared and kept when a job is registered.
LEMMA RegisterEvicts ==
  ASSUME TypeOK, Numbered, NEW j \in Jobs, Register(j)
  PROVE  LET evicted == {e \in Registered : status'[e] = "removed"}
             kept    == {k \in Jobs : status'[k] \in Active \cup Finished}
             spared  == {k \in kept : status'[k] \in Finished}
         IN  /\ evicted = Pruned
             /\ spared = FinishedJobs \ Pruned
             /\ kept = (Registered \ Pruned) \cup {j}
             /\ j \notin Registered
<1>1. /\ status[j] = "unborn" /\ j \notin Pruned
      /\ \A k \in Jobs : status'[k] = IF k \in Pruned THEN "removed"
                                      ELSE IF k = j THEN "queued" ELSE status[k]
  BY PrunedAreFinished DEF Register, Drop, TypeOK, Finished
<1>2. Pruned \subseteq FinishedJobs
  BY PrunedAreFinished DEF FinishedJobs
<1> QED
  BY <1>1, <1>2 DEF Registered, FinishedJobs, Active, Finished, TypeOK

\* Registering a job evicts the oldest finished jobs, no more of them than the
\* cap asks for, and while one is left as many as it asks for.
THEOREM HistoryIsCapped == Spec => EvictsOldestFinished
<1>1. Init => Numbered
  <2> SUFFICES ASSUME Init PROVE Numbered
    OBVIOUS
  <2>1. Registered = {}
    BY DEF Init, Registered, Active, Finished
  <2> QED
    BY <2>1, FS_EmptySet DEF Numbered
<1>2. TypeOK /\ Numbered /\ [Next]_vars => Numbered'
  BY NumberedStep
<1>3. TypeOK /\ Numbered /\ [Next]_vars =>
  [tickets' # tickets =>
       LET evicted == {j \in Registered : status'[j] = "removed"}
           kept    == {j \in Jobs : status'[j] \in Active \cup Finished}
           spared  == {j \in kept : status'[j] \in Finished}
       IN  /\ \A e \in evicted : /\ status[e] \in Finished
                                 /\ \A s \in spared : ticket[e] < ticket[s]
           /\ evicted # {} => Cardinality(kept) >= MaxHistory
           /\ spared # {} => Cardinality(kept) <= MaxHistory]_vars
  <2> SUFFICES ASSUME TypeOK, Numbered, [Next]_vars, tickets' # tickets
      PROVE  LET evicted == {j \in Registered : status'[j] = "removed"}
                 kept    == {j \in Jobs : status'[j] \in Active \cup Finished}
                 spared  == {j \in kept : status'[j] \in Finished}
             IN  /\ \A e \in evicted : /\ status[e] \in Finished
                                       /\ \A s \in spared : ticket[e] < ticket[s]
                 /\ evicted # {} => Cardinality(kept) >= MaxHistory
                 /\ spared # {} => Cardinality(kept) <= MaxHistory
    OBVIOUS
  <2>1. PICK j \in Jobs : Register(j)
    BY NothingComesBack
  <2> DEFINE evicted == {e \in Registered : status'[e] = "removed"}
             kept    == {k \in Jobs : status'[k] \in Active \cup Finished}
             spared  == {k \in kept : status'[k] \in Finished}
  <2>2. /\ evicted = Pruned /\ spared = FinishedJobs \ Pruned
        /\ kept = (Registered \ Pruned) \cup {j} /\ j \notin Registered
    BY <2>1, RegisterEvicts
  <2>3. Cardinality(kept) = Cardinality(Registered) + 1 - Cardinality(Pruned)
    <3>1. IsFiniteSet(Registered) /\ Pruned \subseteq Registered /\ IsFiniteSet(Pruned)
      BY PrunedCount DEF Numbered
    <3>2. IsFiniteSet(Registered \ Pruned) /\ (Registered \ Pruned) \cup Pruned = Registered
      BY <3>1, FS_Subset
    <3>3. (Registered \ Pruned) \cap Pruned = {}
      OBVIOUS
    <3>4. /\ Cardinality(Registered) \in Nat /\ Cardinality(Pruned) \in Nat
          /\ Cardinality(Registered \ Pruned) \in Nat
      BY <3>1, <3>2, FS_CardinalityType
    <3>5. Cardinality(Registered) =
            Cardinality(Registered \ Pruned) + Cardinality(Pruned) - Cardinality({})
      BY <3>1, <3>2, <3>3, FS_Union
    <3>6. Cardinality(kept) = Cardinality(Registered \ Pruned) + 1
      BY <2>2, <3>2, FS_AddElement
    <3> QED
      BY <3>4, <3>5, <3>6, FS_EmptySet
  <2>4. /\ Cardinality(Registered) \in Nat /\ Cardinality(Pruned) \in Nat /\ MaxHistory \in Nat
    BY PrunedCount, FS_CardinalityType, QueueAssumption DEF Numbered, QueueAssumption
  <2>5. \A e \in evicted : status[e] \in Finished
    BY <2>2, PrunedAreFinished
  <2>6. \A e \in evicted, s \in spared : ticket[e] < ticket[s]
    BY <2>2, PrunedCount
  <2> HIDE DEF evicted, kept, spared
  <2>7. evicted # {} => Cardinality(kept) >= MaxHistory
    BY <2>2, <2>3, <2>4, PrunedCount
  <2>8. spared # {} => Cardinality(kept) <= MaxHistory
    BY <2>2, <2>3, <2>4, PrunedCount
  <2> QED
    BY <2>5, <2>6, <2>7, <2>8 DEF evicted, kept, spared
<1> QED
  BY <1>1, <1>2, <1>3, TypeCorrect, PTL DEF Spec, EvictsOldestFinished

=============================================================================
