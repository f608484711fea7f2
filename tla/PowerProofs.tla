----------------------------- MODULE PowerProofs -----------------------------
(***************************************************************************)
(* Proofs about the relay's power control, its two ends: the pre-job gate  *)
(* (PowerGate: the bounds on how long it holds a job, what it releases one *)
(* on, and that it keeps the contract of JobGate) and the chain of moments *)
(* after a print (PowerChain: they come in order, and power is cut under   *)
(* no printer that is awake), for all windows, timers, delays and saves.   *)
(***************************************************************************)
EXTENDS PowerGate, PowerChain, TLAPS, SequenceTheorems

-----------------------------------------------------------------------------
(* The pre-job gate.                                                       *)

\* The constants' types, and a deadline that is a moment once a webhook is out.
LEMMA Moments ==
  /\ Blind \in Nat /\ Pause \in Nat /\ SettlePause \in Nat /\ Settle \in Nat
  /\ IppMax \in Nat /\ TcpMax \in Nat
  /\ Len(Waits) \in Nat /\ Len(Waits) > 0
  /\ \A n \in 1 .. Len(Waits) : Waits[n] \in Nat
  /\ NoMoment \notin Nat
BY GateAssumption DEF GateAssumption

\* Once a webhook has been delivered both deadlines are moments, in order.
LEMMA Deadlines ==
  ASSUME GateTypeOK, attempt > 0
  PROVE  /\ Deadline \in Nat /\ HardDeadline \in Nat
         /\ Blind <= Deadline /\ Deadline <= HardDeadline
         /\ HardDeadline = Deadline + Settle
<1>1. Waits[attempt] \in Nat
  BY Moments DEF GateTypeOK
<1> QED
  BY <1>1, Moments DEF Deadline, HardDeadline

-----------------------------------------------------------------------------
(* The inductive invariant.                                                *)

\* The gate starts with nothing sent, nothing read and nothing shown.
LEMMA GateInvInit == GateInit => GateInv
<1> SUFFICES ASSUME GateInit PROVE GateInv
  OBVIOUS
<1>1. GateTypeOK
  <2>1. ipp \in {"ready", "blocked", "silent"} /\ missed \in BOOLEAN /\ reported \in BOOLEAN
    BY DEF GateInit
  <2>2. readySince \in Nat \cup {NoMoment}
    BY DEF GateInit
  <2> QED
    BY <2>1, <2>2, Moments DEF GateInit, GateTypeOK, Timed, Answers
<1>2. Control /\ Timers /\ HeldBounded /\ Evidence /\ Announced /\ ShownIsTrue
  BY Moments DEF GateInit, Control, Timers, HeldBounded, Evidence, Announced, ShownIsTrue,
     Timed, Answers
<1>3. Sampled
  BY Moments DEF GateInit, Sampled
<1>4. pc = "pause" => reported = (since # NoMoment)
  BY DEF GateInit
<1> QED
  BY <1>1, <1>2, <1>3, <1>4 DEF GateInv

\* What a beginning does to the clock and the place.
LEMMA BeginFacts ==
  ASSUME NEW where, NEW most \in Nat, now \in Nat, Begin(where, most)
  PROVE  pc' = where /\ wake' \in Nat /\ now <= wake' /\ wake' <= now + most
BY DEF Begin

\* A reading that states nothing begins or continues a run, any other ends it.
LEMMA RunFacts ==
  ASSUME NEW s, Found(s)
  PROVE  since' = NoMoment \/ (s # "unreachable" /\ (since' = now \/ since' = since))
<1>1. since' = IF attempt = 0 THEN NoMoment ELSE Run(s)
  BY DEF Found
<1>2. CASE attempt = 0
  BY <1>1, <1>2
<1>3. CASE s \notin {"blocked", "unknown"}
  BY <1>1, <1>3 DEF Run
<1>4. CASE s \in {"blocked", "unknown"} /\ attempt # 0
  BY <1>1, <1>4 DEF Run
<1> QED
  BY <1>2, <1>3, <1>4

\* Every step keeps the types.
LEMMA TypeStep == ASSUME GateInv, [GateNext]_gateVars PROVE GateTypeOK'
<1> USE Moments DEF GateInv, GateTypeOK, Timed, Answers
<1>1. CASE PassesUnlooked BY <1>1 DEF PassesUnlooked, printer
<1>2. CASE Looks BY <1>2, BeginFacts DEF Looks, Query
<1>3. CASE FindsItUp BY <1>3 DEF FindsItUp, printer
<1>4. CASE FindsItOff BY <1>4 DEF FindsItOff, printer
<1>5. CASE IppAnswers BY <1>5 DEF IppAnswers, Found, Run, printer
<1>6. CASE IppSilent BY <1>6, BeginFacts DEF IppSilent, printer
<1>7. CASE TcpAnswers BY <1>7 DEF TcpAnswers, Found, Run, printer
<1>8. CASE TurnOn
  <2>1. attempt' \in 0 .. Len(Waits)
    BY <1>8 DEF TurnOn, Control
  <2>2. readySince' \in Nat \cup {NoMoment}
    BY <1>8 DEF TurnOn
  <2>3. /\ pc' = "blind" /\ now' = 0 /\ wake' = Blind /\ since' = NoMoment
        /\ reported' = FALSE /\ shown' = "waiting_for_printer" /\ heard' = Blind
        /\ UNCHANGED <<reading, schedule, ipp, missed>>
    BY <1>8 DEF TurnOn
  <2> QED
    BY <2>1, <2>2, <2>3
<1>9. CASE TurnOnFails BY <1>9 DEF TurnOnFails, printer
<1>10. CASE WakesUp BY <1>10, BeginFacts DEF WakesUp, Query
<1>11. CASE Release BY <1>11 DEF Release, printer
<1>12. CASE GiveUp BY <1>12 DEF GiveUp, Report, printer
<1>13. CASE WaitOn BY <1>13 DEF WaitOn, Report, printer
<1>14. CASE Tick BY <1>14 DEF Tick, printer
<1>15. CASE PrinterChanges BY <1>15 DEF PrinterChanges
<1>16. CASE UNCHANGED gateVars BY <1>16 DEF gateVars, printer
<1> QED
  BY <1>1, <1>2, <1>3, <1>4, <1>5, <1>6, <1>7, <1>8, <1>9, <1>10, <1>11, <1>12,
     <1>13, <1>14, <1>15, <1>16 DEF GateNext, Gate

\* Every step keeps the gate where its webhooks allow it to be.
LEMMA ControlStep == ASSUME GateInv, [GateNext]_gateVars PROVE Control'
<1> USE Moments DEF GateInv, GateTypeOK, Control, Timed, Answers
<1>1. CASE PassesUnlooked BY <1>1 DEF PassesUnlooked, printer
<1>2. CASE Looks BY <1>2, BeginFacts DEF Looks, Query
<1>3. CASE FindsItUp BY <1>3 DEF FindsItUp, printer
<1>4. CASE FindsItOff BY <1>4 DEF FindsItOff, printer
<1>5. CASE IppAnswers BY <1>5 DEF IppAnswers, Found, Run, printer
<1>6. CASE IppSilent BY <1>6, BeginFacts DEF IppSilent, printer
<1>7. CASE TcpAnswers BY <1>7 DEF TcpAnswers, Found, Run, printer
<1>8. CASE TurnOn BY <1>8 DEF TurnOn
<1>9. CASE TurnOnFails BY <1>9 DEF TurnOnFails, printer
<1>10. CASE WakesUp BY <1>10, BeginFacts DEF WakesUp, Query
<1>11. CASE Release BY <1>11 DEF Release, Judging, printer
<1>12. CASE GiveUp BY <1>12 DEF GiveUp, Judging, Report, printer
<1>13. CASE WaitOn BY <1>13 DEF WaitOn, Judging, Report, printer
<1>14. CASE Tick BY <1>14 DEF Tick, printer
<1>15. CASE PrinterChanges BY <1>15 DEF PrinterChanges
<1>16. CASE UNCHANGED gateVars BY <1>16 DEF gateVars, printer
<1> QED
  BY <1>1, <1>2, <1>3, <1>4, <1>5, <1>6, <1>7, <1>8, <1>9, <1>10, <1>11, <1>12,
     <1>13, <1>14, <1>15, <1>16 DEF GateNext, Gate

\* A run of answers stays in order with the last silence and the clock.
LEMMA EvidenceStep == ASSUME GateInv, [GateNext]_gateVars PROVE Evidence'
<1> USE Moments DEF GateInv, GateTypeOK, Control, Timers, Ends, Evidence, Timed
<1>1. CASE PassesUnlooked BY <1>1 DEF PassesUnlooked, printer
<1>2. CASE Looks BY <1>2, BeginFacts DEF Looks, Query
<1>3. CASE FindsItUp BY <1>3 DEF FindsItUp, printer
<1>4. CASE FindsItOff BY <1>4 DEF FindsItOff, printer
<1>5. CASE IppAnswers
  <2>1. PICK s \in {"ready", "blocked", "unknown", "unreachable"} : Found(s)
    BY <1>5 DEF IppAnswers
  <2>2. since' = NoMoment \/ (s # "unreachable" /\ (since' = now \/ since' = since))
    BY <2>1, RunFacts
  <2>3. heard' = (IF s = "unreachable" THEN now ELSE heard) /\ now' = now /\ pc' = "judge"
    BY <2>1 DEF Found
  <2>4. pc # "blind"
    BY <1>5 DEF IppAnswers
  <2> QED
    BY <2>2, <2>3, <2>4
<1>6. CASE IppSilent BY <1>6, BeginFacts DEF IppSilent, printer
<1>7. CASE TcpAnswers
  <2>1. PICK s \in {"ready", "blocked", "unknown", "unreachable"} : Found(s)
    BY <1>7 DEF TcpAnswers
  <2>2. since' = NoMoment \/ (s # "unreachable" /\ (since' = now \/ since' = since))
    BY <2>1, RunFacts
  <2>3. heard' = (IF s = "unreachable" THEN now ELSE heard) /\ now' = now /\ pc' = "judge"
    BY <2>1 DEF Found
  <2>4. pc # "blind"
    BY <1>7 DEF TcpAnswers
  <2> QED
    BY <2>2, <2>3, <2>4
<1>8. CASE TurnOn BY <1>8 DEF TurnOn
<1>9. CASE TurnOnFails BY <1>9 DEF TurnOnFails, printer
<1>10. CASE WakesUp BY <1>10, BeginFacts DEF WakesUp, Query
<1>11. CASE Release BY <1>11 DEF Release, Judging, printer
<1>12. CASE GiveUp BY <1>12 DEF GiveUp, Report, Judging, printer
<1>13. CASE WaitOn BY <1>13 DEF WaitOn, Report, Judging, printer
<1>14. CASE Tick BY <1>14 DEF Tick, printer
<1>15. CASE PrinterChanges BY <1>15 DEF PrinterChanges
<1>16. CASE UNCHANGED gateVars BY <1>16 DEF gateVars, printer
<1> QED
  BY <1>1, <1>2, <1>3, <1>4, <1>5, <1>6, <1>7, <1>8, <1>9, <1>10, <1>11, <1>12,
     <1>13, <1>14, <1>15, <1>16 DEF GateNext, Gate

\* Every step keeps what the last query can have missed.
LEMMA SampledStep == ASSUME GateInv, [GateNext]_gateVars PROVE Sampled'
<1> USE Moments DEF GateInv, GateTypeOK, Control, Sampled, Timed
<1>1. CASE PassesUnlooked BY <1>1 DEF PassesUnlooked, printer
<1>2. CASE Looks
  <2>1. pc' = "ipp" /\ wake' <= now + IppMax /\ wake' \in Nat
    BY <1>2, BeginFacts DEF Looks, Query
  <2>2. missed' = (ipp = "silent") /\ now' = now /\ ipp' = ipp /\ readySince' = readySince
    BY <1>2 DEF Looks, Query
  <2>3. readySince' # NoMoment => ~missed'
    BY <2>2
  <2> QED
    BY <2>1, <2>2, <2>3
<1>3. CASE FindsItUp BY <1>3 DEF FindsItUp, printer
<1>4. CASE FindsItOff BY <1>4 DEF FindsItOff, printer
<1>5. CASE IppAnswers BY <1>5 DEF IppAnswers, Found, Run, printer
<1>6. CASE IppSilent BY <1>6, BeginFacts DEF IppSilent, printer
<1>7. CASE TcpAnswers BY <1>7 DEF TcpAnswers, Found, Run, printer
<1>8. CASE TurnOn BY <1>8 DEF TurnOn
<1>9. CASE TurnOnFails BY <1>9 DEF TurnOnFails, printer
<1>10. CASE WakesUp
  <2>1. pc' = "ipp" /\ wake' <= now + IppMax /\ wake' \in Nat
    BY <1>10, BeginFacts DEF WakesUp, Query
  <2>2. missed' = (ipp = "silent") /\ now' = now /\ ipp' = ipp /\ readySince' = readySince
    BY <1>10 DEF WakesUp, Query
  <2>3. readySince' # NoMoment => ~missed'
    BY <2>2
  <2> QED
    BY <2>1, <2>2, <2>3
<1>11. CASE Release BY <1>11 DEF Release, printer
<1>12. CASE GiveUp BY <1>12 DEF GiveUp, Report, Judging, printer
<1>13. CASE WaitOn BY <1>13 DEF WaitOn, Report, Judging, printer
<1>14. CASE Tick BY <1>14 DEF Tick, printer
<1>15. CASE PrinterChanges
  <2>1. /\ readySince' # NoMoment => ipp' = "ready"
        /\ readySince' \in {NoMoment, readySince, now}
    BY <1>15 DEF PrinterChanges
  <2>2. /\ missed' = (missed \/ ipp' = "silent") /\ ipp' \in {"ready", "blocked", "silent"}
        /\ pc' = pc /\ wake' = wake /\ now' = now /\ reading' = reading
    BY <1>15 DEF PrinterChanges
  <2>3. readySince' = readySince /\ readySince # NoMoment => missed' = missed
    BY <2>1, <2>2
  <2>4. ipp' = "silent" /\ pc' = "ipp" => missed'
    BY <2>2
  <2>5. pc' = "ipp" /\ missed' /\ readySince' # NoMoment => wake' <= readySince' + IppMax
    BY <2>1, <2>2, <2>3
  <2>6. pc' = "tcp" /\ readySince' # NoMoment => wake' <= readySince' + IppMax + TcpMax
    BY <2>1, <2>2
  <2>7. pc' = "judge" /\ reading' # "ready" /\ readySince' # NoMoment =>
          now' <= readySince' + IppMax + TcpMax
    BY <2>1, <2>2
  <2> QED
    BY <2>1, <2>2, <2>4, <2>5, <2>6, <2>7
<1>16. CASE UNCHANGED gateVars BY <1>16 DEF gateVars, printer
<1> QED
  BY <1>1, <1>2, <1>3, <1>4, <1>5, <1>6, <1>7, <1>8, <1>9, <1>10, <1>11, <1>12,
     <1>13, <1>14, <1>15, <1>16 DEF GateNext, Gate

\* While the gate waits or asks, the activity shown is the announced one.
LEMMA AnnouncedStep == ASSUME GateInv, [GateNext]_gateVars PROVE Announced'
<1> USE Moments DEF GateInv, GateTypeOK, Control, Announced, Timed, Answers
<1>1. CASE PassesUnlooked BY <1>1 DEF PassesUnlooked, printer
<1>2. CASE Looks BY <1>2, BeginFacts DEF Looks, Query
<1>3. CASE FindsItUp BY <1>3 DEF FindsItUp, printer
<1>4. CASE FindsItOff BY <1>4 DEF FindsItOff, printer
<1>5. CASE IppAnswers BY <1>5 DEF IppAnswers, Found, Run, printer
<1>6. CASE IppSilent BY <1>6, BeginFacts DEF IppSilent, printer
<1>7. CASE TcpAnswers BY <1>7 DEF TcpAnswers, Found, Run, printer
<1>8. CASE TurnOn BY <1>8 DEF TurnOn
<1>9. CASE TurnOnFails BY <1>9 DEF TurnOnFails, printer
<1>10. CASE WakesUp BY <1>10, BeginFacts DEF WakesUp, Query
<1>11. CASE Release BY <1>11 DEF Release, printer
<1>12. CASE GiveUp BY <1>12 DEF GiveUp, Report, Judging, printer
<1>13. CASE WaitOn BY <1>13 DEF WaitOn, Report, Judging, printer
<1>14. CASE Tick BY <1>14 DEF Tick, printer
<1>15. CASE PrinterChanges BY <1>15 DEF PrinterChanges
<1>16. CASE UNCHANGED gateVars BY <1>16 DEF gateVars, printer
<1> QED
  BY <1>1, <1>2, <1>3, <1>4, <1>5, <1>6, <1>7, <1>8, <1>9, <1>10, <1>11, <1>12,
     <1>13, <1>14, <1>15, <1>16 DEF GateNext, Gate

\* The deadlines move with a webhook only.
LEMMA DeadlinesStay ==
  ASSUME attempt' = attempt
  PROVE  Deadline' = Deadline /\ HardDeadline' = HardDeadline
BY DEF Deadline, HardDeadline

\* What is under way ends by the moment the invariant names.
LEMMA UnderWayEnds ==
  ASSUME GateInv, attempt > 0, pc \in Timed
  PROVE  /\ Deadline \in Nat /\ HardDeadline = Deadline + Settle
         /\ wake <= HardDeadline + Pause + IppMax + TcpMax
         /\ since = NoMoment => wake <= Deadline + Pause + IppMax + TcpMax
<1>1. /\ Deadline \in Nat /\ HardDeadline \in Nat
      /\ Blind <= Deadline /\ HardDeadline = Deadline + Settle
  BY Deadlines DEF GateInv
<1> QED
  BY <1>1, Moments DEF GateInv, GateTypeOK, Timers, Ends, Timed

\* Every step keeps the timers within the deadlines, and the gate with them.
LEMMA TimersStep == ASSUME GateInv, [GateNext]_gateVars PROVE Timers' /\ HeldBounded'
<1> USE Moments DEF GateInv, GateTypeOK, Control, Timers, Ends, HeldBounded, Timed, Answers
<1>a. CASE TurnOn
  <2>1. /\ pc' = "blind" /\ now' = 0 /\ wake' = Blind /\ attempt' > 0
    BY <1>a DEF TurnOn
  <2>2. Deadline' \in Nat
    <3>1. attempt' \in 1 .. Len(Waits)
      BY <1>a DEF TurnOn
    <3>2. Waits[attempt'] \in Nat
      BY <3>1
    <3> QED
      BY <3>2 DEF Deadline
  <2>3. HeldBounded'
    <3>1. \A d \in Nat : 0 <= d + Settle + Pause + IppMax + TcpMax
      OBVIOUS
    <3>2. 0 <= Deadline' + Settle + Pause + IppMax + TcpMax
      BY <2>2, <3>1
    <3> QED
      BY <2>1, <3>2
  <2>4. Timers'
    BY <2>1
  <2> QED
    BY <2>3, <2>4
<1>b. ASSUME attempt' = attempt, attempt > 0 PROVE Timers' /\ HeldBounded'
  <2> USE <1>b
  <2>d. /\ Deadline \in Nat /\ HardDeadline = Deadline + Settle /\ Blind <= Deadline
        /\ Deadline' = Deadline /\ HardDeadline' = HardDeadline
    BY Deadlines, DeadlinesStay
  <2>1. CASE PassesUnlooked BY <2>1 DEF PassesUnlooked
  <2>2. CASE Looks BY <2>2 DEF Looks
  <2>3. CASE FindsItUp BY <2>3 DEF FindsItUp
  <2>4. CASE FindsItOff BY <2>4 DEF FindsItOff
  <2>5. CASE IppAnswers BY <2>5, <2>d DEF IppAnswers, Found
  <2>6. CASE IppSilent
    <3>1. /\ pc' = "tcp" /\ wake' \in Nat /\ now <= wake' /\ wake' <= now + TcpMax
          /\ now' = now /\ since' = since /\ pc = "ipp" /\ now = wake
      BY <2>6, BeginFacts DEF IppSilent
    <3> QED
      BY <3>1, <2>d
  <2>7. CASE TcpAnswers BY <2>7, <2>d DEF TcpAnswers, Found
  <2>9. CASE TurnOnFails BY <2>9, <2>d DEF TurnOnFails
  <2>10. CASE WakesUp
    <3>1. /\ pc' = "ipp" /\ wake' \in Nat /\ now <= wake' /\ wake' <= now + IppMax
          /\ now' = now /\ since' = since /\ pc \in {"blind", "pause"} /\ now = wake
      BY <2>10, BeginFacts DEF WakesUp, Query
    <3> QED
      BY <3>1, <2>d
  <2>11. CASE Release BY <2>11, <2>d DEF Release
  <2>12. CASE GiveUp BY <2>12, <2>d DEF GiveUp
  <2>13. CASE WaitOn
    <3>1. /\ pc' = "pause" /\ wake' \in Nat /\ now <= wake' /\ wake' <= now + Pause
          /\ now' = now /\ since' = since
      BY <2>13 DEF WaitOn
    <3>2. now < HardDeadline /\ (since = NoMoment => now < Deadline)
      BY <2>13, <2>d DEF WaitOn, Over
    <3> QED
      BY <3>1, <3>2, <2>d
  <2>14. CASE Tick
    <3>1. /\ now' = now + 1 /\ now < wake /\ wake' = wake /\ pc' = pc /\ pc \in Timed
          /\ since' = since
      BY <2>14 DEF Tick
    <3>2. now' <= HardDeadline + Pause + IppMax + TcpMax
      BY <3>1, UnderWayEnds, <2>d
    <3> QED
      BY <3>1, <3>2, <2>d
  <2>15. CASE PrinterChanges BY <2>15, <2>d DEF PrinterChanges
  <2>16. CASE UNCHANGED gateVars BY <2>16, <2>d DEF gateVars
  <2>17. ~TurnOn
    BY DEF TurnOn
  <2> QED
    BY <2>1, <2>2, <2>3, <2>4, <2>5, <2>6, <2>7, <2>9, <2>10, <2>11, <2>12, <2>13,
       <2>14, <2>15, <2>16, <2>17 DEF GateNext, Gate
<1>c. ASSUME attempt' = attempt, attempt = 0 PROVE Timers' /\ HeldBounded'
  <2>1. pc' \in Timed => now' <= wake'
    <3>1. CASE Looks BY <3>1, BeginFacts DEF Looks, Query
    <3>2. CASE IppSilent BY <3>2, BeginFacts DEF IppSilent
    <3>3. CASE Tick BY <3>3 DEF Tick
    <3>4. CASE PrinterChanges BY <3>4 DEF PrinterChanges
    <3>5. CASE UNCHANGED gateVars BY <3>5 DEF gateVars
    <3>6. CASE WakesUp BY <3>6, <1>c DEF WakesUp
    <3>7. CASE WaitOn BY <3>7, <1>c DEF WaitOn, Judging
    <3>8. CASE PassesUnlooked \/ FindsItUp \/ FindsItOff \/ IppAnswers \/ TcpAnswers
      BY <3>8 DEF PassesUnlooked, FindsItUp, FindsItOff, IppAnswers, TcpAnswers, Found
    <3>9. CASE TurnOn \/ TurnOnFails \/ Release \/ GiveUp
      BY <3>9, <1>c DEF TurnOn, TurnOnFails, Release, GiveUp
    <3> QED
      BY <3>1, <3>2, <3>3, <3>4, <3>5, <3>6, <3>7, <3>8, <3>9 DEF GateNext, Gate
  <2> QED
    BY <1>c, <2>1
<1>d. CASE attempt' = attempt
  BY <1>b, <1>c, <1>d
<1>e. TurnOn \/ attempt' = attempt
  BY DEF GateNext, Gate, gateVars, PassesUnlooked, Looks, FindsItUp, FindsItOff, IppAnswers, Found,
     IppSilent, TcpAnswers, TurnOnFails, WakesUp, Release, GiveUp, WaitOn, Tick,
     PrinterChanges
<1> QED
  BY <1>a, <1>d, <1>e

\* What the queue shows during a pause is what the gate pauses for.
LEMMA ShownStep ==
  ASSUME GateInv, [GateNext]_gateVars
  PROVE  ShownIsTrue' /\ (pc' = "pause" => reported' = (since' # NoMoment))
<1> DEFINE Told == pc = "pause" => reported = (since # NoMoment)
<1>1. Announced' /\ Control'
  BY AnnouncedStep, ControlStep
<1>2. Told'
  <2>1. CASE WaitOn BY <2>1 DEF WaitOn, Report
  <2>2. CASE Tick BY <2>2 DEF Tick, GateInv
  <2>3. CASE PrinterChanges BY <2>3 DEF PrinterChanges, GateInv
  <2>4. CASE UNCHANGED gateVars BY <2>4 DEF gateVars, GateInv
  <2>5. ~(WaitOn \/ Tick \/ PrinterChanges \/ UNCHANGED gateVars) => pc' # "pause"
    BY DEF GateNext, Gate, PassesUnlooked, Looks, Query, Begin, FindsItUp, FindsItOff, IppAnswers,
       Found, IppSilent, TcpAnswers, TurnOn, TurnOnFails, WakesUp, Release, GiveUp
  <2> QED
    BY <2>1, <2>2, <2>3, <2>4, <2>5
<1>3. ShownIsTrue'
  <2> SUFFICES ASSUME pc' = "pause"
      PROVE shown' = IF since' = NoMoment THEN "waiting_for_printer" ELSE "printer_settling"
    BY DEF ShownIsTrue
  <2>1. attempt' > 0
    BY <1>1 DEF Control
  <2>2. shown' = IF reported' THEN "printer_settling" ELSE "waiting_for_printer"
    BY <1>1, <2>1 DEF Announced, Timed
  <2> QED
    BY <1>2, <2>2
<1> QED
  BY <1>2, <1>3

\* The gate's invariant is inductive.
LEMMA GateInvStep == GateInv /\ [GateNext]_gateVars => GateInv'
<1> SUFFICES ASSUME GateInv, [GateNext]_gateVars PROVE GateInv'
  OBVIOUS
<1> QED
  BY TypeStep, ControlStep, EvidenceStep, SampledStep, AnnouncedStep, TimersStep, ShownStep
  DEF GateInv

\* The inductive invariant holds in every reachable state, for any waits,
\* pauses, settle and probe durations.
THEOREM GateInvariant == GateSpec => []GateInv
BY GateInvInit, GateInvStep, PTL DEF GateSpec

-----------------------------------------------------------------------------
(* How long a job is held.                                                 *)

\* A job is held for its deadline, one settle, one pause and one probe at most:
\* a printer that flickers cannot stretch the wait of _wait_until_ready().
THEOREM WaitIsBounded == GateSpec => []HeldBounded
<1>1. GateInv => HeldBounded
  BY DEF GateInv
<1> QED
  BY <1>1, GateInvariant, PTL

\* A printer that shows nothing is given up at the deadline, the pause and the
\* probe under way apart.
THEOREM SilenceIsBounded == GateSpec => []SilenceIsGivenUp
<1>1. GateInv => SilenceIsGivenUp
  <2> SUFFICES ASSUME GateInv, attempt > 0, pc \in {"pause", "ipp", "tcp"}, since = NoMoment
      PROVE now <= Deadline + Pause + IppMax + TcpMax
    BY DEF SilenceIsGivenUp
  <2>1. pc \in Timed /\ now <= wake /\ now \in Nat /\ wake \in Nat
    BY DEF GateInv, Timers, Timed, GateTypeOK
  <2> QED
    BY <2>1, UnderWayEnds, Moments
<1> QED
  BY <1>1, GateInvariant, PTL

\* However the printer behaves, a job is held for a bounded time.
THEOREM WaitEnds == GateSpec => []WaitIsLimited
  BY WaitIsBounded, SilenceIsBounded, PTL DEF WaitIsLimited

\* The activity shown during a pause of the gate is the one it pauses for.
THEOREM ActivityIsTrue == GateSpec => []ShownIsTrue
<1>1. GateInv => ShownIsTrue
  BY DEF GateInv
<1> QED
  BY <1>1, GateInvariant, PTL

-----------------------------------------------------------------------------
(* What a job is released or failed on.                                    *)

\* A judgement of an attempt is a release, a give-up or a further wait.
LEMMA Judgement ==
  ASSUME GateInv, [GateNext]_gateVars, pc = "judge", attempt > 0, pc' # "judge"
  PROVE  Release \/ GiveUp \/ WaitOn
BY DEF GateInv, GateTypeOK, GateNext, Gate, gateVars, Judging, PassesUnlooked, Looks, FindsItUp, FindsItOff,
   IppAnswers, IppSilent, TcpAnswers, TurnOn, TurnOnFails, WakesUp, Tick, Timed,
   PrinterChanges

\* A printer switched on for a job gets it on a stated readiness, or when no
\* probe found nothing for a whole settle.
THEOREM EvidenceNeeded == GateSpec => ReleasedOnEvidence
<1> DEFINE Step == pc = "judge" /\ attempt > 0 /\ pc' = "released"
                     => reading = "ready" \/ now - heard >= Settle
<1>1. GateInv /\ [GateNext]_gateVars => [Step]_gateVars
  <2> SUFFICES ASSUME GateInv, [GateNext]_gateVars, pc = "judge", attempt > 0, pc' = "released"
      PROVE reading = "ready" \/ now - heard >= Settle
    OBVIOUS
  <2>1. Release
    BY Judgement DEF GiveUp, WaitOn
  <2>2. CASE reading = "ready"
    BY <2>2
  <2>3. CASE Steady
    <3>1. heard <= since /\ since \in Nat /\ now - since >= Settle
      BY <2>3 DEF Steady, GateInv, Evidence, GateTypeOK
    <3> QED
      BY <3>1, Moments DEF GateInv, GateTypeOK
  <2> QED
    BY <2>1, <2>2, <2>3 DEF Release, Stated
<1> QED
  BY <1>1, GateInvariant, PTL DEF GateSpec, ReleasedOnEvidence

\* A give-up comes past the hard deadline, or past the deadline in silence.
LEMMA GivenUpWhenOver ==
  ASSUME GateInv, [GateNext]_gateVars, pc = "judge", attempt > 0, pc' \in {"switch", "absent"}
  PROVE  GiveUp /\ Over /\ ~Steady /\ ~Stated
<1>1. GiveUp
  BY Judgement DEF Release, WaitOn
<1> QED
  BY <1>1 DEF GiveUp

\* A run of answers that began by the deadline is given its whole settle.
THEOREM LateAnswerGetsItsSettle == GateSpec => LateAnswerIsHeard
<1> DEFINE Step == pc = "judge" /\ attempt > 0 /\ pc' \in {"switch", "absent"}
                     => since = NoMoment \/ since > Deadline
<1>1. GateInv /\ [GateNext]_gateVars => [Step]_gateVars
  <2> SUFFICES ASSUME GateInv, [GateNext]_gateVars, pc = "judge", attempt > 0,
                      pc' \in {"switch", "absent"}, since # NoMoment
      PROVE since > Deadline
    OBVIOUS
  <2>1. Deadline \in Nat /\ HardDeadline = Deadline + Settle
    BY Deadlines DEF GateInv
  <2>2. now >= HardDeadline /\ now - since < Settle
    <3>1. since \in Nat /\ now \in Nat
      BY DEF GateInv, GateTypeOK
    <3> QED
      BY <3>1, GivenUpWhenOver, Moments DEF Over, Steady
  <2> QED
    BY <2>1, <2>2, Moments DEF GateInv, GateTypeOK
<1> QED
  BY <1>1, GateInvariant, PTL DEF GateSpec, LateAnswerIsHeard

\* A printer that has said it is ready for a whole probe before the deadline
\* is not given up.
THEOREM ReadyIsSeen == GateSpec => ReadyIsNotGivenUp
<1> DEFINE Step == pc = "judge" /\ attempt > 0 /\ pc' \in {"switch", "absent"}
                     => readySince = NoMoment \/ readySince + IppMax + TcpMax >= Deadline
<1>1. GateInv /\ [GateNext]_gateVars => [Step]_gateVars
  <2> SUFFICES ASSUME GateInv, [GateNext]_gateVars, pc = "judge", attempt > 0,
                      pc' \in {"switch", "absent"}, readySince # NoMoment
      PROVE readySince + IppMax + TcpMax >= Deadline
    OBVIOUS
  <2>1. Deadline \in Nat /\ HardDeadline = Deadline + Settle
    BY Deadlines DEF GateInv
  <2>2. Over /\ reading # "ready"
    BY GivenUpWhenOver DEF Stated
  <2>3. now >= Deadline
    BY <2>1, <2>2, Moments DEF Over, GateInv, GateTypeOK
  <2>4. now <= readySince + IppMax + TcpMax
    BY <2>2 DEF GateInv, Sampled
  <2> QED
    BY <2>1, <2>3, <2>4, Moments DEF GateInv, GateTypeOK
<1> QED
  BY <1>1, GateInvariant, PTL DEF GateSpec, ReadyIsNotGivenUp

\* Neither a run of answers in time nor a stated readiness is given up on.
THEOREM AnswersAreHeard == GateSpec => AnswersCount
  BY LateAnswerGetsItsSettle, ReadyIsSeen DEF AnswersCount

-----------------------------------------------------------------------------
(* The gate implements the contract the queue relies on.                   *)

\* A job nobody has answered for is held.
LEMMA HeldUntilAnswered ==
  ASSUME pc \notin Answers, pc' \notin Answers, attempt' = attempt, schedule' = schedule
  PROVE  UNCHANGED Contract!vars
BY DEF Contract!vars

\* A step of the gate is a webhook, a release or a failure of the contract, or
\* none of its business.
LEMMA ContractStep == ASSUME GateInv, [GateNext]_gateVars PROVE [Contract!Next]_(Contract!vars)
<1> USE DEF Answers
<1>1. CASE PassesUnlooked
  <2>1. pc = "asked" /\ pc' = "released" /\ attempt' = attempt /\ attempt = 0 /\ schedule' = "once"
    BY <1>1 DEF PassesUnlooked, GateInv, Control
  <2> QED
    BY <2>1 DEF Contract!Next, Contract!LetThrough
<1>2. CASE FindsItUp
  <2>1. pc = "judge" /\ pc' = "released" /\ attempt' = attempt /\ attempt = 0 /\ schedule' = "once"
    BY <1>2 DEF FindsItUp
  <2> QED
    BY <2>1 DEF Contract!Next, Contract!LetThrough
<1>3. CASE Release
  <2>1. /\ pc = "judge" /\ pc' = "released" /\ attempt' = attempt /\ attempt # 0
        /\ schedule' = "retries"
    BY <1>3, Moments DEF Release, Judging, GateInv, GateTypeOK
  <2> QED
    BY <2>1 DEF Contract!Next, Contract!LetThrough
<1>4. CASE TurnOn
  <2>1. /\ pc = "switch" /\ pc' = "blind" /\ attempt' = attempt + 1 /\ schedule' = schedule
        /\ attempt < Len(Waits)
    BY <1>4 DEF TurnOn, GateInv, Control
  <2> QED
    BY <2>1 DEF Contract!Next, Contract!SwitchOn
<1>5. CASE TurnOnFails
  <2>1. /\ pc = "switch" /\ pc' = "undelivered" /\ attempt' = attempt /\ schedule' = schedule
        /\ attempt < Len(Waits)
    BY <1>5 DEF TurnOnFails, GateInv, Control
  <2> QED
    BY <2>1 DEF Contract!Next, Contract!Undelivered
<1>6. CASE GiveUp
  <2>1. pc = "judge" /\ attempt' = attempt /\ schedule' = schedule
    BY <1>6 DEF GiveUp, Judging
  <2>2. CASE attempt < Len(Waits)
    BY <1>6, <2>1, <2>2, HeldUntilAnswered DEF GiveUp
  <2>3. CASE ~(attempt < Len(Waits))
    <3>1. attempt = Len(Waits)
      BY <2>3, Moments DEF GateInv, GateTypeOK
    <3>2. pc' = "absent"
      BY <1>6, <2>3 DEF GiveUp
    <3> QED
      BY <2>1, <3>1, <3>2 DEF Contract!Next, Contract!Absent
  <2> QED
    BY <2>2, <2>3
<1>7. CASE Looks \/ FindsItOff \/ IppAnswers \/ IppSilent \/ TcpAnswers \/ WakesUp \/ WaitOn
  BY <1>7, HeldUntilAnswered DEF Looks, Query, Begin, FindsItOff, IppAnswers, IppSilent,
     TcpAnswers, Found, WakesUp, WaitOn, Judging
<1>8. CASE Tick \/ PrinterChanges \/ UNCHANGED gateVars
  BY <1>8 DEF Tick, PrinterChanges, gateVars, Contract!vars
<1> QED
  BY <1>1, <1>2, <1>3, <1>4, <1>5, <1>6, <1>7, <1>8 DEF GateNext, Gate

\* The gate switches on, releases and fails only as JobGate says: a schedule of
\* retries exactly after a switch-on, no absent printer before the last webhook.
THEOREM GateKeepsContract == GateSpec => KeepsContract
<1>1. GateInit => Contract!Init
  BY DEF GateInit, Contract!Init, Answers
<1> QED
  BY <1>1, ContractStep, GateInvariant, PTL DEF GateSpec, KeepsContract, Contract!Spec

-----------------------------------------------------------------------------
(* The chain after a print.                                                *)

(* The arithmetic. *)

\* The heartbeat ends within the window; a turn-off comes no sooner than the
\* device's timer after that, counted from the origin or from now.
LEMMA Offsets ==
  ASSUME NEW s \in Document, Valid(s)
  PROVE  /\ Effective(s) # Never =>
              /\ Effective(s) \in Nat /\ Effective(s) <= s.window
              /\ Effective(s) + Device <= Horizon
         /\ TurnOffOffset(s) # Never =>
              /\ TurnOffOffset(s) \in Nat /\ Effective(s) # Never
              /\ s.hardware <= s.window /\ Effective(s) + s.hardware = s.window
              /\ s.window <= TurnOffOffset(s)
  <1>1. /\ s.window \in Nat /\ s.window + Device <= Horizon
        /\ s.hardware \in Nat /\ s.delay \in Nat
        /\ s.relay \in BOOLEAN /\ s.timed \in BOOLEAN /\ s.keepAlive \in BOOLEAN
    BY DEF Document
  <1>2. Never \notin Int /\ Horizon \in Nat
    BY ChainAssumption DEF ChainAssumption
  <1>3. ASSUME Effective(s) # Never
        PROVE  /\ Effective(s) \in Nat /\ Effective(s) <= s.window
               /\ Effective(s) + Device <= Horizon
    <2>1. CASE HardwareOffsetApplied(s)
      <3>1. Effective(s) \in Nat /\ Effective(s) <= s.window
        BY <1>1, <2>1 DEF Effective
      <3>2. Device \in Nat
        BY ChainAssumption DEF ChainAssumption
      <3> QED
        BY <1>1, <1>2, <3>1, <3>2
    <2>2. CASE ~ HardwareOffsetApplied(s)
      <3>1. Effective(s) = s.window
        BY <1>3, <2>2 DEF Effective, TimedWindow
      <3> QED
        BY <3>1, <1>1
    <2> QED
      BY <2>1, <2>2
  <1>4. ASSUME TurnOffOffset(s) # Never
        PROVE  /\ TurnOffOffset(s) \in Nat /\ Effective(s) # Never
               /\ s.hardware <= s.window /\ Effective(s) + s.hardware = s.window
               /\ s.window <= TurnOffOffset(s)
    <2>1. /\ s.relay /\ s.turnOff /\ s.keepAlive /\ s.timed /\ s.window > 0
          /\ TurnOffOffset(s) = s.window + s.delay /\ TimedWindow(s) # Never
      BY <1>4 DEF TurnOffOffset, ConfiguredWindow, TimedWindow
    <2>2. s.window >= s.hardware
      BY <2>1 DEF Valid, RelayRules, HasWindow
    <2>3. Effective(s) = IF s.window > s.hardware THEN s.window - s.hardware ELSE 0
      BY <2>1 DEF Effective, HardwareOffsetApplied
    <2> QED
      BY <2>1, <2>2, <2>3, <1>1, <1>2
  <1> QED
    BY <1>3, <1>4

\* With a turn-off configured the steps come in the order the report lists them,
\* and the printer sleeps at the end of the window, whatever the numbers are.
THEOREM ChainIsInOrder ==
  ASSUME NEW s \in Document, Valid(s), TurnOffOffset(s) # Never
  PROVE  /\ 0 <= KeepAliveEndOffset(s)
         /\ KeepAliveEndOffset(s) <= PrinterPowerOffOffset(s)
         /\ PrinterPowerOffOffset(s) = s.window
         /\ PrinterPowerOffOffset(s) <= TurnOffOffset(s)
  <1>1. ConfiguredWindow(s) # Never
    BY DEF TurnOffOffset
  <1>2. /\ Effective(s) # Never /\ Effective(s) \in Nat /\ s.hardware <= s.window
        /\ Effective(s) + s.hardware = s.window /\ s.window <= TurnOffOffset(s)
    BY Offsets
  <1>3. /\ KeepAliveEndOffset(s) = Effective(s)
        /\ PrinterPowerOffOffset(s) = s.window
    BY <1>1, <1>2 DEF KeepAliveEndOffset, PrinterPowerOffOffset, PrinterPowerOff
  <1>4. s.hardware \in Nat /\ s.window \in Nat
    BY DEF Document
  <1> QED
    BY <1>2, <1>3, <1>4

-----------------------------------------------------------------------------
(* The inductive invariant. *)

\* While nothing moved the end of the window since the turn-off was set, the
\* turn-off is at least a device's timer away from the last data the printer may
\* have received, and from the end of the heartbeats.
FollowsTheWindow ==
  due # Never /\ ~ disturbed /\ Device <= stored.hardware =>
    /\ Effective(stored) # Never
    /\ up => Device - idle <= due
    /\ Effective(stored) + Device <= due + age

\* Of a printer left to its heartbeats: the last one came within the window, and
\* the thread is back in time while the window is open.
Paced ==
  steady /\ running /\ up /\ Effective(stored) # Never =>
    /\ age <= idle + Effective(stored)
    /\ \/ idle + beat <= Longest
       \/ beat = 0 /\ age = 0 /\ Effective(stored) # 0
       \/ Effective(stored) + idle <= age + Longest

IInv == TypeOK /\ FollowsTheWindow /\ Paced

\* A record of these fields is a document.
LEMMA DocumentOfFields ==
  ASSUME NEW a \in BOOLEAN, NEW b \in BOOLEAN, NEW c \in BOOLEAN, NEW d \in BOOLEAN,
         NEW e \in BOOLEAN, NEW w \in {i \in Nat : i + Device <= Horizon},
         NEW h \in Nat, NEW l \in Nat
  PROVE  [relay |-> a, turnOnUrl |-> b, turnOff |-> c, keepAlive |-> d, timed |-> e,
          window |-> w, hardware |-> h, delay |-> l] \in Document
  BY DEF Document

\* A body merged onto the stored document is one the clocks can run on, if it is valid.
LEMMA MergedIsDocument ==
  ASSUME NEW body \in Bodies, TypeOK,
         Valid([key \in Key |-> IF key \in DOMAIN body THEN body[key] ELSE stored[key]])
  PROVE  [key \in Key |-> IF key \in DOMAIN body THEN body[key] ELSE stored[key]]
           \in Document
  <1> DEFINE s == [key \in Key |-> IF key \in DOMAIN body THEN body[key] ELSE stored[key]]
  <1>1. stored \in Document
    BY DEF TypeOK
  <1>2. /\ stored.relay \in BOOLEAN /\ stored.turnOnUrl \in BOOLEAN
        /\ stored.turnOff \in BOOLEAN /\ stored.keepAlive \in BOOLEAN
        /\ stored.timed \in BOOLEAN
    BY <1>1 DEF Document
  <1>3. stored.window \in Nat /\ stored.window + Device <= Horizon
    BY <1>1 DEF Document
  <1>4. /\ s.relay \in BOOLEAN /\ s.turnOnUrl \in BOOLEAN /\ s.turnOff \in BOOLEAN
        /\ s.keepAlive \in BOOLEAN /\ s.timed \in BOOLEAN
    BY <1>2, ChainAssumption DEF ChainAssumption, Key
  <1>5. s.window \in Int /\ s.window + Device <= Horizon
    BY <1>3, ChainAssumption DEF ChainAssumption, Key
  <1>6. s = [relay |-> s.relay, turnOnUrl |-> s.turnOnUrl, turnOff |-> s.turnOff,
             keepAlive |-> s.keepAlive, timed |-> s.timed, window |-> s.window,
             hardware |-> s.hardware, delay |-> s.delay]
    BY DEF Key
  <1>7. Valid(s)
    OBVIOUS
  <1>8. s \in Document
    <2> HIDE DEF s
    <2>1. s.hardware \in Choices /\ s.delay \in 0..DelayLimit /\ s.window >= 0
      BY <1>7 DEF Valid
    <2>2. Choices \subseteq Nat /\ DelayLimit \in Nat
      BY ChainAssumption DEF ChainAssumption
    <2>3. s.hardware \in Nat /\ s.delay \in Nat
      <3>1. s.hardware \in Nat
        BY ONLY <2>1, <2>2
      <3>2. s.delay \in Nat
        BY ONLY <2>1, <2>2
      <3> QED
        BY <3>1, <3>2
    <2>4. s.window \in {w \in Nat : w + Device <= Horizon}
      BY <1>5, <2>1
    <2>5. [relay |-> s.relay, turnOnUrl |-> s.turnOnUrl, turnOff |-> s.turnOff,
           keepAlive |-> s.keepAlive, timed |-> s.timed, window |-> s.window,
           hardware |-> s.hardware, delay |-> s.delay] \in Document
      BY ONLY DocumentOfFields, <1>4, <2>3, <2>4
    <2> QED
      BY ONLY <1>6, <2>5
  <1> QED
    BY <1>8

\* The constants' types.
LEMMA Constants ==
  /\ Device \in Nat /\ Device > 0 /\ Horizon \in Nat
  /\ Intervals \subseteq Nat /\ Backoff \in Nat
  /\ Never \notin Int /\ Kept \subseteq Document /\ MaxSaves \in Nat
  BY ChainAssumption DEF ChainAssumption

\* A wait is never shorter than the interval, however that compares with the limit.
LEMMA WaitTimes ==
  ASSUME TypeOK
  PROVE  interval \in Nat /\ Longest \in Nat /\ interval <= Longest
  BY Constants DEF Longest, TypeOK

\* A new thread looks at the window at once, whatever its interval.
LEMMA ZeroWait == ASSUME interval' \in Intervals PROVE 0 \in 0..Longest'
  BY Constants DEF Longest

\* A clock may be set back to nothing.
LEMMA Zeroes ==
  /\ 0 \in 0..(Device - 1) /\ 0 \in 0..Horizon
  /\ 0 \in 0..MaxSaves /\ Horizon \in 0..Horizon
  BY Constants

\* The invariant holds when the service starts.
LEMMA Initially == Init => IInv
  <1> SUFFICES ASSUME Init PROVE TypeOK /\ FollowsTheWindow /\ Paced
    BY DEF IInv
  <1>1. TypeOK
    <2>1. stored \in Document /\ Valid(stored)
      BY Constants DEF Init
    <2>2. interval \in Intervals /\ beat \in 0..Longest
      BY Constants DEF Init, Longest
    <2> QED
      BY <2>1, <2>2, Zeroes DEF Init, TypeOK
  <1>2. FollowsTheWindow
    BY DEF Init, FollowsTheWindow
  <1>3. Paced
    BY DEF Init, Paced
  <1> QED
    BY <1>1, <1>2, <1>3

\* Setting the turn-off from here on: it is a window away, whatever the window is.
LEMMA ArmFollows ==
  ASSUME IInv, Arm, stored' = stored, age' \in {age, 0},
         up' => idle' \in Nat
  PROVE  (due' = Never \/ due' \in Nat) /\ FollowsTheWindow'
  <1>1. stored \in Document /\ Valid(stored) /\ age \in Nat
    BY DEF IInv, TypeOK
  <1>2. stored.hardware \in Nat /\ stored.window \in Nat
    BY <1>1 DEF Document
  <1>3. CASE TurnOffOffset(stored) = Never
    BY <1>3 DEF Arm, FollowsTheWindow
  <1>4. CASE TurnOffOffset(stored) # Never
    <2>1. /\ TurnOffOffset(stored) \in Nat /\ Effective(stored) # Never
          /\ Effective(stored) \in Nat
          /\ Effective(stored) + stored.hardware <= TurnOffOffset(stored)
      BY <1>1, <1>2, <1>4, Offsets
    <2>2. due' = TurnOffOffset(stored) /\ due' \in Nat
      BY <2>1 DEF Arm
    <2>3. ASSUME Device <= stored.hardware
          PROVE  /\ up' => Device - idle' <= due'
                 /\ Effective(stored) + Device <= due' + age'
      <3>1. Device <= due' /\ Effective(stored) + Device <= due'
        BY <1>2, <2>1, <2>2, <2>3, Constants
      <3>2. age' \in Nat
        BY <1>1
      <3> QED
        BY <3>1, <3>2, <2>1, <2>2, Constants
    <2> QED
      BY <2>1, <2>2, <2>3 DEF FollowsTheWindow
  <1> QED
    BY <1>3, <1>4

\* A print restarts the window and arms the turn-off after it.
LEMMA PrintFollows == IInv /\ PrintSent => IInv'
  <1> SUFFICES ASSUME IInv, PrintSent PROVE IInv'
    OBVIOUS
  <1>1. (due' = Never \/ due' \in Nat) /\ FollowsTheWindow'
    BY ArmFollows DEF PrintSent
  <1>2. TypeOK'
    <2>1. up' \in BOOLEAN /\ idle' \in 0..(Device - 1) /\ age' \in 0..Horizon
      BY Zeroes DEF IInv, TypeOK, PrintSent
    <2> QED
      BY <1>1, <2>1 DEF IInv, TypeOK, Longest, PrintSent, Arm, thread
  <1>3. Paced'
    <2>1. idle' = 0 /\ age' = 0 /\ UNCHANGED <<stored, beat>>
      BY DEF PrintSent, thread
    <2>2. Effective(stored) # Never => Effective(stored) \in Nat
      BY Offsets DEF IInv, TypeOK
    <2>3. beat \in 0..Longest
      BY DEF IInv, TypeOK
    <2> QED
      BY <2>1, <2>2, <2>3, Constants, WaitTimes DEF IInv, Paced, Longest, PrintSent, thread
  <1> QED
    BY <1>1, <1>2, <1>3 DEF IInv

\* The gate switches the printer on.
LEMMA GateFollows == IInv /\ GateSwitchesOn => IInv'
  <1> SUFFICES ASSUME IInv, GateSwitchesOn PROVE IInv'
    OBVIOUS
  <1>1. (due' = Never \/ due' \in Nat) /\ FollowsTheWindow'
    BY ArmFollows DEF GateSwitchesOn
  <1>2. TypeOK'
    <2>1. up' \in BOOLEAN /\ idle' \in 0..(Device - 1) /\ age' \in 0..Horizon
      BY Zeroes DEF IInv, TypeOK, GateSwitchesOn
    <2> QED
      BY <1>1, <2>1 DEF IInv, TypeOK, Longest, GateSwitchesOn, Arm, thread
  <1>3. Paced'
    BY DEF GateSwitchesOn, Paced
  <1> QED
    BY <1>1, <1>2, <1>3 DEF IInv

\* A turn-off that finds work pending is put off.
LEMMA PostponeFollows == IInv /\ Postpone => IInv'
  <1> SUFFICES ASSUME IInv, Postpone PROVE IInv'
    OBVIOUS
  <1>0. idle' \in Nat
    BY Constants DEF IInv, TypeOK, Postpone
  <1>1. (due' = Never \/ due' \in Nat) /\ FollowsTheWindow'
    BY <1>0, ArmFollows DEF Postpone
  <1>2. TypeOK'
    BY <1>1, Constants DEF IInv, TypeOK, Longest, Postpone, Arm, thread
  <1>3. Paced'
    BY DEF Postpone, IInv, Paced, Longest, thread
  <1> QED
    BY <1>1, <1>2, <1>3 DEF IInv

-----------------------------------------------------------------------------
\* A save that ends the window no later leaves the turn-off where it belongs.
LEMMA SaveFollows ==
  ASSUME IInv, NEW s \in Document, Stores(s),
         UNCHANGED <<up, idle, age, due>>
  PROVE  FollowsTheWindow' /\ Valid(stored') /\ stored' \in Document
         /\ disturbed' \in BOOLEAN /\ saves' \in 0..MaxSaves
  <1>1. stored' = s /\ Valid(s)
    BY DEF Stores
  <1>2. disturbed' \in BOOLEAN /\ saves' \in 0..MaxSaves
    BY Constants DEF Stores, IInv, TypeOK
  <1>3. SUFFICES ASSUME due # Never, ~ disturbed', Device <= s.hardware
                 PROVE  /\ Effective(s) # Never
                        /\ up => Device - idle <= due
                        /\ Effective(s) + Device <= due + age
    BY <1>1, <1>2 DEF FollowsTheWindow
  <1>4. /\ ~ disturbed /\ s.hardware = stored.hardware
        /\ Effective(s) # Never /\ Effective(stored) # Never
        /\ ~ Effective(s) > Effective(stored)
    BY <1>3 DEF Stores, EndsLater
  <1>5. /\ up => Device - idle <= due
        /\ Effective(stored) + Device <= due + age
    BY <1>3, <1>4 DEF IInv, FollowsTheWindow
  <1>6. Effective(s) \in Nat
    BY <1>1, <1>4, Offsets
  <1>7. Effective(stored) \in Nat
    BY <1>4, Offsets DEF IInv, TypeOK
  <1>8. age \in Nat /\ due \in Nat
    BY <1>3 DEF IInv, TypeOK
  <1> QED
    BY <1>4, <1>5, <1>6, <1>7, <1>8, Constants

\* Settings saved through the endpoint.
LEMMA PutSettingsFollows ==
  ASSUME IInv, NEW body \in Bodies, PutSettings(body)
  PROVE  IInv'
  <1> DEFINE s == [key \in Key |-> IF key \in DOMAIN body THEN body[key] ELSE stored[key]]
  <1>1. Stores(s) /\ UNCHANGED <<up, idle, alive, thread, age, due>> /\ steady' = FALSE
    BY DEF PutSettings
  <1>2. s \in Document
    BY <1>1, MergedIsDocument DEF IInv, Stores
  <1>3. /\ FollowsTheWindow' /\ Valid(stored') /\ stored' \in Document
        /\ disturbed' \in BOOLEAN /\ saves' \in 0..MaxSaves
    <2> HIDE DEF s
    <2> QED
      BY <1>1, <1>2, SaveFollows
  <1>4. TypeOK'
    <2> HIDE DEF s
    <2> QED
      BY <1>1, <1>3 DEF IInv, TypeOK, Longest, thread
  <1>5. Paced'
    BY <1>1 DEF Paced
  <1> QED
    BY <1>3, <1>4, <1>5 DEF IInv

\* Keep-alive switched on or off, which replaces the thread.
LEMMA UpdateKeepAliveFollows ==
  ASSUME IInv, NEW enabled \in BOOLEAN, NEW every \in Intervals,
         UpdateKeepAlive(enabled, every)
  PROVE  IInv'
  <1> DEFINE s == [stored EXCEPT !.keepAlive = enabled]
  <1>1. /\ Stores(s) /\ UNCHANGED <<up, idle, alive, age, due>> /\ alive
        /\ running' = enabled /\ beat' = 0 /\ interval' \in Intervals
        /\ steady' = (steady /\ running /\ interval' = interval)
    BY DEF UpdateKeepAlive, IInv, TypeOK
  <1>2. s \in Document
    BY DEF IInv, TypeOK, Document
  <1>3. /\ FollowsTheWindow' /\ Valid(stored') /\ stored' \in Document
        /\ disturbed' \in BOOLEAN /\ saves' \in 0..MaxSaves
    <2> HIDE DEF s
    <2> QED
      BY <1>1, <1>2, SaveFollows
  <1>4. steady' \in BOOLEAN
    BY <1>1
  <1>5. TypeOK'
    <2> HIDE DEF s
    <2> QED
      BY <1>1, <1>3, <1>4, ZeroWait DEF IInv, TypeOK
  <1>6. Effective(s) = Effective(stored)
    <2>1. /\ s.timed = stored.timed /\ s.window = stored.window
          /\ s.relay = stored.relay /\ s.hardware = stored.hardware
      BY DEF IInv, TypeOK, Document
    <2> HIDE DEF s
    <2> QED
      BY <2>1 DEF Effective, HardwareOffsetApplied, TimedWindow
  <1>7. Paced'
    <2> HIDE DEF s
    <2>1. SUFFICES ASSUME steady', running', up', Effective(stored') # Never
                   PROVE  /\ age <= idle + Effective(stored)
                          /\ \/ idle <= Longest
                             \/ age = 0 /\ Effective(stored) # 0
                             \/ Effective(stored) + idle <= age + Longest
      <3>1. stored' = s /\ beat' = 0 /\ idle' = idle /\ age' = age /\ idle + 0 = idle
        BY <1>1 DEF Stores, IInv, TypeOK
      <3>2. Effective(stored') = Effective(stored)
        BY <3>1, <1>6
      <3>3. steady' => Longest' = Longest
        BY <1>1 DEF Longest
      <3> QED
        BY <3>1, <3>2, <3>3 DEF Paced
    <2>2. steady /\ running /\ up /\ Effective(stored) # Never
      BY <1>1, <1>6, <2>1 DEF Stores
    <2>3. idle \in Nat /\ beat \in Nat
      BY Constants DEF IInv, TypeOK
    <2> QED
      BY <2>2, <2>3, WaitTimes DEF IInv, Paced
  <1> QED
    BY <1>3, <1>5, <1>7 DEF IInv

-----------------------------------------------------------------------------
\* The thread, the tick, the process and the hand.
LEMMA BeatFollows == IInv /\ Beat => IInv'
  <1> SUFFICES ASSUME IInv, Beat PROVE IInv'
    OBVIOUS
  <1>1. UNCHANGED <<stored, up, alive, running, interval, age, due, steady, disturbed, saves>>
    BY DEF Beat, chain
  <1>2. idle' = idle \/ (Open /\ idle' = 0)
    BY DEF Beat
  <1>3. beat' \in 0..Longest
    BY WaitTimes DEF Beat, IInv
  <1>4. idle' \in 0..(Device - 1)
    BY <1>2, Constants DEF IInv, TypeOK
  <1>5. TypeOK'
    BY <1>1, <1>3, <1>4 DEF IInv, TypeOK, Longest
  <1>6. ASSUME due # Never, ~ disturbed, Device <= stored.hardware, Open
        PROVE  Device <= due
    <2>1. /\ Effective(stored) # Never
          /\ Effective(stored) + Device <= due + age
      BY <1>6 DEF IInv, FollowsTheWindow
    <2>2. age <= Effective(stored)
      BY <1>6, <2>1 DEF Open
    <2>3. Effective(stored) \in Nat
      BY <2>1, Offsets DEF IInv, TypeOK
    <2>4. age \in Nat /\ due \in Nat
      BY <1>6 DEF IInv, TypeOK
    <2> QED
      BY <2>1, <2>2, <2>3, <2>4, Constants
  <1>7. FollowsTheWindow'
    <2>1. CASE idle' = idle
      BY <1>1, <2>1 DEF IInv, FollowsTheWindow
    <2>2. CASE Open /\ idle' = 0
      <3>1. Device - idle' = Device
        BY <2>2, Constants
      <3> QED
        BY <1>1, <1>6, <2>2, <3>1 DEF IInv, FollowsTheWindow
    <2> QED
      BY <1>2, <2>1, <2>2
  <1>8. Paced'
    <2>1. SUFFICES ASSUME steady, running, up, Effective(stored) # Never
                   PROVE  /\ age <= idle' + Effective(stored)
                          /\ \/ idle' + beat' <= Longest
                             \/ beat' = 0 /\ age = 0 /\ Effective(stored) # 0
                             \/ Effective(stored) + idle' <= age + Longest
      BY <1>1 DEF Paced, Longest
    <2>2. /\ age <= idle + Effective(stored)
          /\ \/ idle + beat <= Longest
             \/ beat = 0 /\ age = 0 /\ Effective(stored) # 0
             \/ Effective(stored) + idle <= age + Longest
      BY <2>1 DEF IInv, Paced
    <2>3. Effective(stored) \in Nat
      BY <2>1, Offsets DEF IInv, TypeOK
    <2>4. age \in Nat /\ idle \in Nat /\ beat = 0
      BY Constants DEF IInv, TypeOK, Beat
    <2>5. CASE Open /\ idle' = 0 /\ beat' = interval
      <3>1. age <= Effective(stored)
        BY <2>1, <2>5 DEF Open
      <3> QED
        BY <2>3, <2>4, <2>5, <3>1, WaitTimes DEF IInv
    <2>6. CASE (~ Open \/ age = Effective(stored)) /\ idle' = idle
      <3>1. age >= Effective(stored)
        BY <2>1, <2>3, <2>4, <2>6 DEF Open
      <3> QED
        BY <2>2, <2>3, <2>4, <2>6, <3>1, WaitTimes DEF IInv
    <2> QED
      BY <2>1, <2>5, <2>6 DEF Beat
  <1> QED
    BY <1>5, <1>7, <1>8 DEF IInv

\* Actions that leave the turn-off, the origin and the settings alone, and let the
\* printer receive data only while the window is open.
LEMMA HeldOpenFollows ==
  ASSUME IInv, UNCHANGED <<stored, age, due>>,
         ~ disturbed' => ~ disturbed,
         ~ disturbed' /\ up' => Open /\ idle' = 0
  PROVE  FollowsTheWindow'
  <1>1. SUFFICES ASSUME due # Never, ~ disturbed', Device <= stored.hardware
                 PROVE  /\ Effective(stored) # Never
                        /\ up' => Device - idle' <= due
                        /\ Effective(stored) + Device <= due + age
    BY DEF FollowsTheWindow
  <1>2. /\ Effective(stored) # Never
        /\ Effective(stored) + Device <= due + age
    BY <1>1 DEF IInv, FollowsTheWindow
  <1>3. Effective(stored) \in Nat
    BY <1>2, Offsets DEF IInv, TypeOK
  <1>4. age \in Nat /\ due \in Nat
    BY <1>1 DEF IInv, TypeOK
  <1>5. ASSUME up' PROVE Device - idle' <= due
    <2>1. idle' = 0 /\ age <= Effective(stored)
      BY <1>1, <1>2, <1>5 DEF Open
    <2> QED
      BY <1>2, <1>3, <1>4, <2>1, Constants
  <1> QED
    BY <1>2, <1>5

\* A print that breaks off in mid-write.
LEMMA PrintBreaksFollows == IInv /\ PrintBreaks => IInv'
  <1> SUFFICES ASSUME IInv, PrintBreaks PROVE IInv'
    OBVIOUS
  <1>0. (disturbed \/ ~ Open) \in BOOLEAN /\ (steady /\ Open) \in BOOLEAN
    OBVIOUS
  <1>1. TypeOK'
    BY <1>0, Zeroes DEF IInv, TypeOK, Longest, PrintBreaks, thread
  <1>2. FollowsTheWindow'
    BY HeldOpenFollows DEF PrintBreaks
  <1>3. Paced'
    <2>1. /\ idle' = 0 /\ UNCHANGED <<stored, age, beat, running, up>>
          /\ steady' => Open
      BY DEF PrintBreaks, thread
    <2>2. Effective(stored) # Never => Effective(stored) \in Nat
      BY Offsets DEF IInv, TypeOK
    <2>3. beat \in 0..Longest /\ age \in Nat
      BY DEF IInv, TypeOK
    <2> QED
      BY <2>1, <2>2, <2>3, WaitTimes DEF IInv, Paced, Open, Longest, PrintBreaks, thread
  <1> QED
    BY <1>1, <1>2, <1>3 DEF IInv

\* A hand at the printer or the relay.
LEMMA SwitchByHandFollows == IInv /\ SwitchByHand => IInv'
  <1> SUFFICES ASSUME IInv, SwitchByHand PROVE IInv'
    OBVIOUS
  <1>0. (disturbed \/ ~ Open) \in BOOLEAN /\ (~ up) \in BOOLEAN
    OBVIOUS
  <1>1. TypeOK'
    BY <1>0, Zeroes DEF IInv, TypeOK, Longest, SwitchByHand, thread
  <1>2. FollowsTheWindow'
    BY HeldOpenFollows DEF SwitchByHand
  <1>3. Paced'
    BY DEF SwitchByHand, Paced
  <1> QED
    BY <1>1, <1>2, <1>3 DEF IInv

\* Actions of the scheduler and the process after which no turn-off stands, or
\* one that is not vouched for.
LEMMA QuietFollows ==
  ASSUME IInv, Drop \/ Cut \/ Stop \/ Start
  PROVE  IInv'
  <1>1. CASE Drop
    <2>1. TypeOK'
      BY <1>1 DEF IInv, TypeOK, Longest, Drop, thread
    <2>2. FollowsTheWindow'
      BY <1>1 DEF Drop, FollowsTheWindow
    <2>3. Paced'
      BY <1>1 DEF Drop, IInv, Paced, Longest, thread
    <2> QED
      BY <2>1, <2>2, <2>3 DEF IInv
  <1>2. CASE Cut
    <2>1. up' \in BOOLEAN
      BY <1>2 DEF Cut, IInv, TypeOK
    <2>2. TypeOK'
      BY <1>2, <2>1 DEF IInv, TypeOK, Longest, Cut, thread
    <2>3. FollowsTheWindow'
      BY <1>2 DEF Cut, FollowsTheWindow
    <2>4. Paced'
      BY <1>2 DEF Cut, IInv, Paced, Longest, thread
    <2> QED
      BY <2>2, <2>3, <2>4 DEF IInv
  <1>3. CASE Stop
    <2>1. TypeOK'
      BY <1>3, ZeroWait DEF IInv, TypeOK, Stop
    <2>2. FollowsTheWindow'
      BY <1>3 DEF Stop, IInv, FollowsTheWindow
    <2>3. Paced'
      BY <1>3 DEF Stop, Paced
    <2> QED
      BY <2>1, <2>2, <2>3 DEF IInv
  <1>4. CASE Start
    <2>1. (disturbed \/ due # Never) \in BOOLEAN /\ stored.keepAlive \in BOOLEAN
          /\ (stored.keepAlive /\ Effective(stored) # 0) \in BOOLEAN
      BY DEF IInv, TypeOK, Document
    <2>2. TypeOK'
      BY <1>4, <2>1, Zeroes, ZeroWait DEF IInv, TypeOK, Start
    <2>3. FollowsTheWindow'
      BY <1>4 DEF Start, FollowsTheWindow
    <2>4. Paced'
      <3>1. /\ age' = 0 /\ beat' = 0 /\ UNCHANGED <<stored, idle>>
            /\ steady' => Effective(stored) # 0
        BY <1>4 DEF Start
      <3>2. idle \in Nat
        BY Constants DEF IInv, TypeOK
      <3>3. Effective(stored) # Never => Effective(stored) \in Nat
        BY Offsets DEF IInv, TypeOK
      <3> QED
        BY <3>1, <3>2, <3>3, Constants DEF Paced
    <2> QED
      BY <2>2, <2>3, <2>4 DEF IInv
  <1> QED
    BY <1>1, <1>2, <1>3, <1>4

\* Time: the turn-off, the printer's timer and the window move by the same tick.
LEMMA ElapseFollows == IInv /\ Elapse => IInv'
  <1> SUFFICES ASSUME IInv, Elapse PROVE IInv'
    OBVIOUS
  <1>1. /\ age' = (IF age < Horizon THEN age + 1 ELSE age)
        /\ due' = Sooner(due) /\ beat' = Sooner(beat)
        /\ up' = (up /\ idle + 1 < Device)
        /\ idle' = (IF up' THEN idle + 1 ELSE 0)
        /\ UNCHANGED <<stored, alive, running, interval, steady, disturbed, saves>>
    BY DEF Elapse
  <1>2. /\ age \in 0..Horizon /\ idle \in 0..(Device - 1) /\ beat \in 0..Longest
        /\ due = Never \/ due \in Nat
    BY DEF IInv, TypeOK
  <1>3. age' \in 0..Horizon /\ beat' \in 0..Longest
    <2>1. Longest \in Nat
      BY WaitTimes DEF IInv
    <2> QED
      BY <1>1, <1>2, <2>1, Constants DEF Sooner
  <1>4. due' = Never \/ due' \in Nat
    BY <1>1, <1>2, Constants DEF Sooner
  <1>5. up' => idle + 1 < Device
    BY <1>1
  <1>6. idle' \in 0..(Device - 1)
    <2>1. CASE up'
      BY <1>1, <1>2, <1>5, <2>1, Constants
    <2>2. CASE ~ up'
      BY <1>1, <2>2, Zeroes
    <2> QED
      BY <2>1, <2>2
  <1>7. up' \in BOOLEAN
    BY <1>1
  <1>8. TypeOK'
    BY <1>1, <1>3, <1>4, <1>6, <1>7 DEF IInv, TypeOK, Longest
  <1>9. FollowsTheWindow'
    <2>1. SUFFICES ASSUME due' # Never, ~ disturbed, Device <= stored.hardware
                   PROVE  /\ Effective(stored) # Never
                          /\ up' => Device - idle' <= due'
                          /\ Effective(stored) + Device <= due' + age'
      BY <1>1 DEF FollowsTheWindow
    <2>2. due # Never /\ due \in Nat
      BY <1>1, <1>2, <2>1 DEF Sooner
    <2>3. due' = IF due = 0 THEN 0 ELSE due - 1
      BY <1>1, <2>2 DEF Sooner
    <2>4. /\ Effective(stored) # Never
          /\ up => Device - idle <= due
          /\ Effective(stored) + Device <= due + age
      BY <2>1, <2>2 DEF IInv, FollowsTheWindow
    <2>5. Effective(stored) \in Nat /\ Effective(stored) + Device <= Horizon
      BY <2>4, Offsets DEF IInv, TypeOK
    <2>6. ASSUME up' PROVE Device - idle' <= due'
      <3>1. up /\ idle' = idle + 1 /\ idle + 1 < Device
        BY <1>1, <2>6
      <3> QED
        BY <1>2, <2>2, <2>3, <2>4, <3>1, Constants
    <2>7. Effective(stored) + Device <= due' + age'
      <3>1. CASE age < Horizon
        BY <1>1, <1>2, <2>2, <2>3, <2>4, <2>5, <3>1, Constants
      <3>2. CASE age = Horizon
        BY <1>1, <2>2, <2>3, <2>5, <3>2, Constants
      <3> QED
        BY <1>2, <3>1, <3>2, Constants
    <2> QED
      BY <2>4, <2>6, <2>7
  <1>10. Paced'
    <2>1. SUFFICES ASSUME steady, running, up', Effective(stored) # Never
                   PROVE  /\ age' <= idle' + Effective(stored)
                          /\ \/ idle' + beat' <= Longest
                             \/ beat' = 0 /\ age' = 0 /\ Effective(stored) # 0
                             \/ Effective(stored) + idle' <= age' + Longest
      BY <1>1 DEF Paced, Longest
    <2>2. up /\ idle' = idle + 1 /\ idle + 1 < Device
      BY <1>1, <2>1
    <2>3. beat # 0 /\ beat' = beat - 1
      <3>1. beat # 0
        BY <2>1 DEF Elapse, IInv, TypeOK
      <3>2. beat # Never
        BY <1>2, Constants
      <3> QED
        BY <1>1, <3>1, <3>2 DEF Sooner
    <2>4. /\ age <= idle + Effective(stored)
          /\ \/ idle + beat <= Longest
             \/ Effective(stored) + idle <= age + Longest
      BY <2>1, <2>2, <2>3 DEF IInv, Paced
    <2>5. Effective(stored) \in Nat /\ Effective(stored) + Device <= Horizon
      BY <2>1, Offsets DEF IInv, TypeOK
    <2>6. age' = age + 1
      BY <1>1, <1>2, <2>2, <2>4, <2>5, Constants
    <2> QED
      BY <1>2, <2>2, <2>3, <2>4, <2>5, <2>6, WaitTimes DEF IInv
  <1> QED
    BY <1>8, <1>9, <1>10 DEF IInv

\* Every step keeps the invariant.
LEMMA Inductive == IInv /\ [Next]_vars => IInv'
  <1> SUFFICES ASSUME IInv, [Next]_vars PROVE IInv'
    OBVIOUS
  <1>1. CASE \E body \in Bodies : PutSettings(body)
    BY <1>1, PutSettingsFollows
  <1>2. CASE \E enabled \in BOOLEAN, every \in Intervals : UpdateKeepAlive(enabled, every)
    BY <1>2, UpdateKeepAliveFollows
  <1>3. CASE Beat
    BY <1>3, BeatFollows
  <1>4. CASE PrintSent
    BY <1>4, PrintFollows
  <1>5. CASE PrintBreaks
    BY <1>5, PrintBreaksFollows
  <1>6. CASE GateSwitchesOn
    BY <1>6, GateFollows
  <1>7. CASE Postpone
    BY <1>7, PostponeFollows
  <1>8. CASE Drop \/ Cut \/ Stop \/ Start
    BY <1>8, QuietFollows
  <1>9. CASE SwitchByHand
    BY <1>9, SwitchByHandFollows
  <1>10. CASE Elapse
    BY <1>10, ElapseFollows
  <1>11. CASE UNCHANGED vars
    BY <1>11 DEF IInv, TypeOK, Longest, FollowsTheWindow, Paced, vars, thread, chain
  <1> QED
    BY <1>1, <1>2, <1>3, <1>4, <1>5, <1>6, <1>7, <1>8, <1>9, <1>10, <1>11 DEF Next

-----------------------------------------------------------------------------
(* What follows for every behaviour. *)

\* The inductive invariant holds, for any windows, timers, delays, backoff and
\* number of saves.
THEOREM ChainInvariant == Spec => []IInv
  BY Initially, Inductive, PTL DEF Spec

\* The types hold, and the stored settings are always a document the validator
\* accepts (settings_service._validate_settings), saves of any bodies included.
THEOREM TypeCorrect == Spec => []TypeOK
  <1>1. IInv => TypeOK
    BY DEF IInv
  <1> QED
    BY <1>1, ChainInvariant, PTL

\* Power is cut under no printer that is awake, as long as nothing moved the end of
\* its wake-time after the turn-off was set.
THEOREM PrinterSleepsBeforeTheCut == Spec => []CutFindsItAsleep
  <1>1. IInv => CutFindsItAsleep
    <2> SUFFICES ASSUME IInv, due = 0, Device <= stored.hardware, ~ disturbed, up
                 PROVE  FALSE
      BY DEF CutFindsItAsleep
    <2>1. due # Never
      BY Constants
    <2>2. Device - idle <= due
      BY <2>1 DEF IInv, FollowsTheWindow
    <2>3. idle \in 0..(Device - 1)
      BY DEF IInv, TypeOK
    <2> QED
      BY <2>2, <2>3, Constants
  <1> QED
    BY <1>1, ChainInvariant, PTL

\* A printer left to its heartbeats is never awake past the moment the report names,
\* for any interval; it sleeps one wait of the thread before it at most, when that is
\* shorter than the device's timer.  With relay control the moment is the window's end.
THEOREM SleepsOnTime == Spec => SleepsAsTold
  <1>1. ASSUME IInv, Elapse, up, ~ up', steady, running,
               PrinterPowerOffOffset(stored) # Never, Device = stored.hardware
        PROVE  /\ age' <= PrinterPowerOffOffset(stored)
               /\ Longest < Device => PrinterPowerOffOffset(stored) - Longest <= age'
               /\ stored.relay => PrinterPowerOffOffset(stored) = stored.window
    <2>1. stored \in Document /\ Valid(stored) /\ idle \in 0..(Device - 1)
          /\ beat \in 0..Longest /\ age \in 0..Horizon /\ alive
      BY <1>1 DEF IInv, TypeOK
    <2>2. /\ ConfiguredWindow(stored) # Never /\ Effective(stored) # Never
          /\ PrinterPowerOffOffset(stored) = Effective(stored) + Device
      BY <1>1 DEF PrinterPowerOffOffset, PrinterPowerOff
    <2>3. Effective(stored) \in Nat /\ Effective(stored) + Device <= Horizon
      BY <2>1, <2>2, Offsets
    <2>4. idle + 1 = Device /\ beat # 0
      <3>1. /\ (alive /\ running => beat # 0)
            /\ up' = (up /\ idle + 1 < Device)
        BY <1>1 DEF Elapse
      <3>2. beat # 0 /\ ~ idle + 1 < Device
        BY <1>1, <2>1, <3>1
      <3> QED
        BY <2>1, <3>2, Constants
    <2>5. /\ age <= idle + Effective(stored)
          /\ \/ idle + beat <= Longest
             \/ Effective(stored) + idle <= age + Longest
      BY <1>1, <2>2, <2>4 DEF IInv, Paced
    <2>6. age' = age + 1
      BY <1>1, <2>1, <2>3, <2>4, <2>5, Constants DEF Elapse
    <2>7. stored.relay => PrinterPowerOffOffset(stored) = stored.window
      <3>1. SUFFICES ASSUME stored.relay
                     PROVE  Effective(stored) + stored.hardware = stored.window
        BY <1>1, <2>2
      <3>2. stored.keepAlive /\ stored.timed /\ stored.window > 0
            /\ TimedWindow(stored) # Never
        BY <2>2 DEF ConfiguredWindow, TimedWindow
      <3>3. stored.window >= stored.hardware
        BY <2>1, <3>1, <3>2 DEF Valid, RelayRules, HasWindow
      <3>4. stored.window \in Nat /\ stored.hardware \in Nat
        BY <2>1 DEF Document
      <3> QED
        BY <3>1, <3>2, <3>3, <3>4 DEF Effective, HardwareOffsetApplied
    <2>8. /\ Longest < Device => Effective(stored) + Device - Longest <= age + 1
          /\ age + 1 <= Effective(stored) + Device
      BY <1>1, <2>1, <2>3, <2>4, <2>5, WaitTimes DEF IInv
    <2>9. /\ Longest < Device => PrinterPowerOffOffset(stored) - Longest <= age'
          /\ age' <= PrinterPowerOffOffset(stored)
      <3>1. PrinterPowerOffOffset(stored) = Effective(stored) + Device
        BY <2>2
      <3>2. age' = age + 1
        BY <2>6
      <3>3. Longest \in Nat
        BY <1>1, WaitTimes DEF IInv
      <3> QED
        BY <2>1, <2>3, <2>8, <3>1, <3>2, <3>3, Constants
    <2> QED
      BY <2>7, <2>9
  <1>2. IInv /\ [Next]_vars =>
          [LET told == PrinterPowerOffOffset(stored)
           IN  /\ Elapse /\ up /\ ~ up' /\ steady /\ running
               /\ told # Never /\ Device = stored.hardware
               => /\ age' <= told
                  /\ Longest < Device => told - Longest <= age'
                  /\ stored.relay => told = stored.window]_vars
    BY <1>1
  <1> QED
    BY <1>2, ChainInvariant, PTL DEF Spec, SleepsAsTold

\* While a window is held open for a printer that was left to its heartbeats, the
\* report names as next a step that is still ahead of the printer, and never calls
\* the chain idle over a printer that is awake.
THEOREM PanelNamesTheNextStep == Spec => []PanelIsTrue
  <1>1. ASSUME IInv, alive, running, steady, ~ disturbed, up,
               ConfiguredWindow(stored) # Never, Device = stored.hardware
        PROVE  NextStep \in {"keep_alive_end", "printer_power_off"} /\ ~ RunOut
    <2> DEFINE end == KeepAliveEndOffset(stored) - age
               off == PrinterPowerOffOffset(stored) - age
               M(i) == Moment(Steps[i])
               ahead == {i \in 1..3 : Ahead(Moment(Steps[i]))}
               Before(i, j) == \/ Moment(Steps[i]) < Moment(Steps[j])
                               \/ Moment(Steps[i]) = Moment(Steps[j]) /\ i <= j
    <2>1. stored \in Document /\ Valid(stored) /\ idle \in 0..(Device - 1)
          /\ age \in 0..Horizon /\ (due = Never \/ due \in Nat)
      BY <1>1 DEF IInv, TypeOK
    <2>2. Effective(stored) # Never
      <3>1. TimedWindow(stored) # Never /\ stored.window \in Nat /\ stored.hardware \in Nat
        BY <1>1, <2>1 DEF ConfiguredWindow, Document
      <3> QED
        BY <3>1, Constants DEF Effective
    <2>3. /\ KeepAliveEndOffset(stored) = Effective(stored)
          /\ PrinterPowerOffOffset(stored) = Effective(stored) + Device
      BY <1>1, <2>2 DEF KeepAliveEndOffset, PrinterPowerOffOffset, PrinterPowerOff
    <2>4. Effective(stored) \in Nat
      BY <2>1, <2>2, Offsets
    <2>5. age <= idle + Effective(stored)
      BY <1>1, <2>2 DEF IInv, Paced
    <2>6. end \in Int /\ off \in Int /\ off > 0
      BY <2>1, <2>3, <2>4, <2>5, Constants
    <2>7. /\ Left(KeepAliveEndOffset(stored)) = end
          /\ Left(PrinterPowerOffOffset(stored)) = off
      <3>1. KeepAliveEndOffset(stored) # Never /\ PrinterPowerOffOffset(stored) # Never
        BY <2>3, <2>4, Constants
      <3> QED
        BY <3>1 DEF Left
    <2>8. ~ RunOut
      <3>1. off # Never
        BY <2>6, Constants
      <3> QED
        BY <2>6, <2>7, <3>1 DEF RunOut, Ahead
    <2>9. M(1) = end /\ M(2) = off /\ M(3) = Scheduled
      BY <2>7, <2>8 DEF Moment, Steps
    <2>10. Scheduled # Never => Scheduled \in Nat /\ off <= Scheduled
      <3>1. SUFFICES ASSUME Scheduled # Never PROVE due \in Nat /\ off <= due
        BY DEF Scheduled
      <3>2. due # Never
        BY <3>1 DEF Scheduled
      <3>3. Effective(stored) + Device <= due + age
        BY <1>1, <2>1, <3>2, Constants DEF IInv, FollowsTheWindow, Document
      <3> QED
        BY <2>1, <2>3, <2>4, <3>2, <3>3, Constants
    <2> HIDE DEF end, off
    <2>11. \A i \in ahead : i \in 1..3 /\ M(i) # Never /\ M(i) > 0
      BY DEF Ahead
    <2>12. 2 \in ahead
      <3>1. off # Never
        BY <2>6, Constants
      <3> QED
        BY <2>6, <2>9, <3>1 DEF Ahead
    <2>13. 3 \in ahead => M(3) \in Nat /\ M(2) <= M(3)
      BY <2>9, <2>10, <2>11
    <2>14. M(1) \in Int /\ M(2) \in Int
      BY <2>6, <2>9
    <2>15. ahead \subseteq {1, 2, 3}
      BY DEF ahead
    <2> HIDE DEF M, ahead
    <2>16. \E i \in ahead : \A j \in ahead : M(i) < M(j) \/ (M(i) = M(j) /\ i <= j)
      <3>1. CASE 1 \in ahead /\ M(1) <= M(2)
        <4>1. \A j \in ahead : M(1) < M(j) \/ (M(1) = M(j) /\ 1 <= j)
          BY <2>13, <2>14, <2>15, <3>1
        <4> QED
          BY <3>1, <4>1
      <3>2. CASE ~ (1 \in ahead /\ M(1) <= M(2))
        <4>1. \A j \in ahead : M(2) < M(j) \/ (M(2) = M(j) /\ 2 <= j)
          BY <2>13, <2>14, <2>15, <3>2
        <4> QED
          BY <2>12, <4>1
      <3> QED
        BY <3>1, <3>2
    <2> DEFINE c == CHOOSE i \in ahead : \A j \in ahead : Before(i, j)
    <2>17. \E i \in ahead : \A j \in ahead : Before(i, j)
      BY <2>16 DEF M
    <2>18. c \in ahead /\ \A j \in ahead : Before(c, j)
      BY <2>17
    <2>19. c \in {1, 2}
      <3>1. Before(c, 2)
        BY <2>12, <2>18
      <3>2. M(c) < M(2) \/ (M(c) = M(2) /\ c <= 2)
        BY <3>1 DEF M
      <3>3. c \in {1, 2, 3}
        BY <2>15, <2>18
      <3> HIDE DEF c, Before
      <3>4. c # 3
        BY <2>13, <2>14, <2>18, <3>2
      <3> QED
        BY <3>3, <3>4
    <2>20. NextStep = Steps[c]
      BY <2>12 DEF NextStep, ahead
    <2> HIDE DEF c
    <2>21. NextStep \in {"keep_alive_end", "printer_power_off"}
      BY <2>19, <2>20 DEF Steps
    <2> QED
      BY <2>8, <2>21
  <1>2. IInv => PanelIsTrue
    BY <1>1 DEF PanelIsTrue, RunOut
  <1> QED
    BY <1>2, ChainInvariant, PTL
==============================================================================
