------------------------------ MODULE PowerGate ------------------------------
(***************************************************************************)
(* The pre-job gate of relay power control: ensure_printer_powered() and   *)
(* _wait_until_ready() in src/services/relay_service.py, with the status   *)
(* probe of src/services/printer_service.py they read the printer through. *)
(*                                                                         *)
(* Time is a clock of the turn_on attempt under way: it starts when the    *)
(* webhook has been delivered.  The printer is free: its IPP server comes  *)
(* and goes at any moment, which is what a boot does.                      *)
(***************************************************************************)
EXTENDS Integers, Sequences

CONSTANTS
  Waits,        \* turn_on_waits: the probing window after each webhook
  Blind,        \* blind_wait
  Pause,        \* probe_pause
  SettlePause,  \* settle_probe_pause
  Settle,       \* answering_settle
  IppMax,       \* bound on the time an IPP query takes
  TcpMax,       \* bound on the time a TCP connect takes
  NoMoment      \* Python's None where a moment is expected

ASSUME GateAssumption ==
  /\ Waits \in Seq(Nat) /\ Waits # <<>>
  /\ {Blind, Pause, SettlePause, Settle, IppMax, TcpMax} \subseteq Nat
  /\ NoMoment \notin Int

VARIABLES
  pc,          \* where the gate is
  attempt,     \* turn_on webhooks delivered for this job
  now,         \* time since the last of them was
  wake,        \* when the wait or the network call under way ends
  reading,     \* what the last probe found
  since,       \* answering_since
  reported,    \* reported_settle: the settle has been announced
  shown,       \* the activity the queue shows for the job
  schedule,    \* the gate's answer
  ipp,         \* the printer's IPP server: says ready, says blocked, or silent
  missed,      \* it was silent at some moment of the query under way
  heard,       \* history: the last probe that found nothing, or the first one
  readySince   \* history: since when the printer has been saying it is ready

printer == <<ipp, missed, readySince>>
gateVars == <<pc, attempt, now, wake, reading, since, reported, shown, schedule,
              printer, heard>>

-----------------------------------------------------------------------------
Timed    == {"blind", "ipp", "tcp", "pause"}
Answers  == {"released", "undelivered", "absent"}

GateInit ==
  /\ pc = "asked"
  /\ attempt = 0 /\ now = 0 /\ wake = 0
  /\ reading = "unreachable"
  /\ since = NoMoment
  /\ reported = FALSE
  /\ shown = "nothing"
  /\ schedule = "none"
  /\ ipp \in {"ready", "blocked", "silent"}
  /\ missed = FALSE
  /\ heard = 0
  /\ readySince = IF ipp = "ready" THEN 0 ELSE NoMoment

\* Starts something that takes at most "most".
Begin(where, most) ==
  /\ pc' = where
  /\ wake' \in now .. (now + most)

Query ==
  /\ Begin("ipp", IppMax)
  /\ missed' = (ipp = "silent")
  /\ UNCHANGED <<ipp, readySince>>

-----------------------------------------------------------------------------
(* The probe, check_printer_status(): IPP, then a plain TCP connect.       *)

\* Mutant of Run: a printer that drops out keeps the run it had.
RunGoesOn(s) == IF since = NoMoment /\ s # "unreachable" THEN now ELSE since

\* answering_since after a reading: a run of answers that state no readiness.
Run(s) ==
  IF s \notin {"blocked", "unknown"} THEN NoMoment
  ELSE IF since = NoMoment THEN now ELSE since

Found(s) ==
  /\ pc' = "judge"
  /\ reading' = s
  /\ since' = IF attempt = 0 THEN NoMoment ELSE Run(s)
  /\ heard' = IF s = "unreachable" THEN now ELSE heard
  /\ UNCHANGED <<attempt, now, wake, reported, shown, schedule, printer>>

IppAnswers ==
  /\ pc = "ipp" /\ now = wake
  /\ ipp # "silent"
  /\ Found(ipp)

\* A query fails by a server that was silent for part of it (a lost SYN is
\* repeated a second later).
IppSilent ==
  /\ pc = "ipp" /\ now = wake
  /\ missed
  /\ Begin("tcp", TcpMax)
  /\ UNCHANGED <<attempt, now, reading, since, reported, shown, schedule, printer,
                 heard>>

\* The raw port accepts the connection, or does not.
TcpAnswers ==
  /\ pc = "tcp" /\ now = wake
  /\ \E s \in {"unknown", "unreachable"} : Found(s)

-----------------------------------------------------------------------------
(* ensure_printer_powered(): look once, then switch on and wait.           *)

\* The feature is off, or has no turn_on URL: no probe, no webhook.
PassesUnlooked ==
  /\ pc = "asked"
  /\ pc' = "released"
  /\ schedule' = "once"
  /\ UNCHANGED <<attempt, now, wake, reading, since, reported, shown, printer, heard>>

Looks ==
  /\ pc = "asked"
  /\ Query
  /\ UNCHANGED <<attempt, now, reading, since, reported, shown, schedule, heard>>

\* A printer that answers at all is left alone.
FindsItUp ==
  /\ pc = "judge" /\ attempt = 0
  /\ reading # "unreachable"
  /\ pc' = "released"
  /\ schedule' = "once"
  /\ UNCHANGED <<attempt, now, wake, reading, since, reported, shown, printer, heard>>

FindsItOff ==
  /\ pc = "judge" /\ attempt = 0
  /\ reading = "unreachable"
  /\ pc' = "switch"
  /\ shown' = "switching_on"
  /\ UNCHANGED <<attempt, now, wake, reading, since, reported, schedule, printer,
                 heard>>

\* The webhook is delivered: nothing is asked of the printer for "Blind".
TurnOn ==
  /\ pc = "switch"
  /\ pc' = "blind"
  /\ attempt' = attempt + 1
  /\ now' = 0
  /\ wake' = Blind
  /\ since' = NoMoment
  /\ reported' = FALSE
  /\ shown' = "waiting_for_printer"
  /\ heard' = Blind
  /\ readySince' = IF ipp = "ready" THEN 0 ELSE NoMoment
  /\ UNCHANGED <<reading, schedule, ipp, missed>>

TurnOnFails ==
  /\ pc = "switch"
  /\ pc' = "undelivered"
  /\ UNCHANGED <<attempt, now, wake, reading, since, reported, shown, schedule,
                 printer, heard>>

\* The blind wait, or the pause between two probes, is over.
WakesUp ==
  /\ pc \in {"blind", "pause"} /\ now = wake
  /\ Query
  /\ UNCHANGED <<attempt, now, reading, since, reported, shown, schedule, heard>>

-----------------------------------------------------------------------------
(* _wait_until_ready(), after a probe: released, given up, or once more.   *)

Deadline == Blind + Waits[attempt]

\* Mutant of HardDeadline: the settle may not pass the deadline.
HardIsDeadline == Deadline

HardDeadline == Deadline + Settle

Judging == pc = "judge" /\ attempt > 0
Stated  == reading = "ready"
Steady  == since # NoMoment /\ now - since >= Settle

\* Mutant of Over: a silent printer is waited for as long as a settling one.
OverAtTheEnd == now >= HardDeadline

Over == now >= HardDeadline \/ (now >= Deadline /\ since = NoMoment)

\* arm() is called, and the queue is told to try more than once.
Release ==
  /\ Judging
  /\ Stated \/ Steady
  /\ pc' = "released"
  /\ schedule' = "retries"
  /\ UNCHANGED <<attempt, now, wake, reading, since, reported, shown, printer, heard>>

\* Mutant of Report: only the beginning of a settle is announced.
ReportOnce ==
  /\ reported' = (reported \/ since # NoMoment)
  /\ shown' = IF ~reported /\ since # NoMoment THEN "printer_settling" ELSE shown

\* The settle is announced when it begins and when it is lost.
Report ==
  /\ reported' = (since # NoMoment)
  /\ shown' = IF reported = (since # NoMoment) THEN shown
              ELSE IF reported THEN "waiting_for_printer" ELSE "printer_settling"

\* Mutant of GiveUp: the job fails without the second webhook.
GiveUpAtOnce ==
  /\ Judging
  /\ ~Stated /\ ~Steady
  /\ Over
  /\ pc' = "absent"
  /\ Report
  /\ UNCHANGED <<attempt, now, wake, reading, since, schedule, printer, heard>>

\* Mutant of GiveUp: the same attempt is made again.
GiveUpRepeats ==
  /\ Judging
  /\ ~Stated /\ ~Steady
  /\ Over
  /\ pc' = "switch"
  /\ attempt' = attempt - 1
  /\ reported' = (since # NoMoment)
  /\ shown' = "switching_on"
  /\ UNCHANGED <<now, wake, reading, since, schedule, printer, heard>>

GiveUp ==
  /\ Judging
  /\ ~Stated /\ ~Steady
  /\ Over
  /\ IF attempt < Len(Waits)
     THEN /\ pc' = "switch"
          /\ reported' = (since # NoMoment)
          /\ shown' = "switching_on"
     ELSE /\ pc' = "absent"
          /\ Report
  /\ UNCHANGED <<attempt, now, wake, reading, since, schedule, printer, heard>>

\* Probed faster once something is answering.
WaitOn ==
  /\ Judging
  /\ ~Stated /\ ~Steady
  /\ ~Over
  /\ Report
  /\ pc' = "pause"
  /\ wake' = now + (IF since # NoMoment /\ SettlePause < Pause THEN SettlePause ELSE Pause)
  /\ UNCHANGED <<attempt, now, reading, since, schedule, printer, heard>>

-----------------------------------------------------------------------------
(* The surroundings: time, and a printer that boots.                       *)

Tick ==
  /\ pc \in Timed /\ now < wake
  /\ now' = now + 1
  /\ UNCHANGED <<pc, attempt, wake, reading, since, reported, shown, schedule,
                 printer, heard>>

PrinterChanges ==
  /\ pc \notin Answers
  /\ ipp' \in {"ready", "blocked", "silent"}
  /\ missed' = (missed \/ ipp' = "silent")
  /\ readySince' = IF ipp' # "ready" THEN NoMoment
                   ELSE IF ipp = "ready" THEN readySince ELSE now
  /\ UNCHANGED <<pc, attempt, now, wake, reading, since, reported, shown, schedule,
                 heard>>

Gate ==
  \/ PassesUnlooked \/ Looks \/ FindsItUp \/ FindsItOff
  \/ IppAnswers \/ IppSilent \/ TcpAnswers
  \/ TurnOn \/ TurnOnFails \/ WakesUp
  \/ Release \/ GiveUp \/ WaitOn

GateNext == Gate \/ Tick \/ PrinterChanges

GateSpec == GateInit /\ [][GateNext]_gateVars

\* The worker's thread runs, its sockets time out and its waits end.
GateFairSpec == GateSpec /\ WF_gateVars(Gate \/ Tick)

-----------------------------------------------------------------------------
(* Properties.                                                             *)

GateTypeOK ==
  /\ pc \in Timed \cup Answers \cup {"asked", "judge", "switch"}
  /\ attempt \in 0 .. Len(Waits)
  /\ now \in Nat /\ wake \in Nat
  /\ reading \in {"ready", "blocked", "unknown", "unreachable"}
  /\ since \in Nat \cup {NoMoment}
  /\ reported \in BOOLEAN
  /\ shown \in {"nothing", "switching_on", "waiting_for_printer", "printer_settling"}
  /\ schedule \in {"none", "once", "retries"}
  /\ ipp \in {"ready", "blocked", "silent"}
  /\ missed \in BOOLEAN
  /\ heard \in Nat
  /\ readySince \in Nat \cup {NoMoment}

\* A job goes to a printer that was switched on for it only on a stated
\* readiness, or when no probe found nothing for a whole settle.
ReleasedOnEvidence ==
  [][pc = "judge" /\ attempt > 0 /\ pc' = "released"
       => reading = "ready" \/ now - heard >= Settle]_gateVars

\* "A device that flickers in and out cannot stretch the wait indefinitely":
\* by the settle, and by the one pause and probe under way.
HeldBounded ==
  attempt > 0 =>
    now <= Deadline + Settle + Pause + IppMax + TcpMax

\* A printer that shows nothing is not waited for past the deadline, the probe
\* under way and the pause before it apart.
SilenceIsGivenUp ==
  attempt > 0 /\ pc \in {"pause", "ipp", "tcp"} /\ since = NoMoment =>
    now <= Deadline + Pause + IppMax + TcpMax

\* No printer, however it behaves, holds the queue's only worker longer than
\* the wait it was given allows.
WaitIsLimited == HeldBounded /\ SilenceIsGivenUp

\* "Failing a printer for answering one probe before the end would be
\* perverse": a run of answers begun by the deadline is given its settle.
LateAnswerIsHeard ==
  [][pc = "judge" /\ attempt > 0 /\ pc' \in {"switch", "absent"}
       => since = NoMoment \/ since > Deadline]_gateVars

\* A printer that has been saying it is ready for one whole probe before the
\* deadline is never given up.
ReadyIsNotGivenUp ==
  [][pc = "judge" /\ attempt > 0 /\ pc' \in {"switch", "absent"}
       => readySince = NoMoment \/ readySince + IppMax + TcpMax >= Deadline]_gateVars

\* What the printer said in time counts: the gate gives up neither on a run of
\* answers begun by the deadline nor on a stated readiness it had a probe for.
AnswersCount == LateAnswerIsHeard /\ ReadyIsNotGivenUp

\* While the gate pauses the queue shows what it pauses for.
ShownIsTrue ==
  pc = "pause" =>
    shown = IF since = NoMoment THEN "waiting_for_printer" ELSE "printer_settling"

\* However the printer flickers, the job is let through or failed.
GateAnswers == <>(pc \in Answers)

-----------------------------------------------------------------------------
(* The gate keeps the promise the queue relies on.                         *)

Contract == INSTANCE JobGate WITH
  MaxSends <- Len(Waits),
  phase    <- IF pc \in Answers THEN pc ELSE "held",
  sent     <- attempt,
  schedule <- schedule

\* Every webhook, release and failure of the gate is one the queue was told
\* to expect: retries exactly after a switch-on, no failure over an absent
\* printer before the last webhook.
KeepsContract == Contract!Spec

-----------------------------------------------------------------------------
(* The inductive invariant behind the safety properties.                   *)

\* Where the gate can be before and after the first webhook.
Control ==
  /\ pc = "asked" => attempt = 0 /\ schedule = "none"
  /\ pc \in {"blind", "pause"} => attempt > 0
  /\ pc = "switch" => attempt < Len(Waits)
  /\ pc \notin Answers => schedule = "none"
  /\ attempt = 0 => since = NoMoment

\* What is under way ends in time.
Ends(late) ==
  /\ pc = "blind" => wake = Blind
  /\ pc = "pause" => wake <= late + Pause
  /\ pc = "ipp"   => wake <= late + Pause + IppMax
  /\ pc = "tcp"   => wake <= late + Pause + IppMax + TcpMax

Timers ==
  /\ pc \in Timed => now <= wake
  /\ attempt > 0 => Ends(HardDeadline)
  /\ attempt > 0 /\ since = NoMoment => Ends(Deadline)

\* A run of answers began after the last silence and not in the future.
Evidence ==
  /\ IF pc = "blind" THEN heard = Blind ELSE heard <= now
  /\ since # NoMoment => heard <= since /\ since <= now

\* The printer has not been ready since before the last query of it.
Sampled ==
  /\ readySince # NoMoment => ipp = "ready"
  /\ ipp = "silent" /\ pc = "ipp" => missed
  /\ pc = "ipp" => wake <= now + IppMax
  /\ pc = "tcp" => wake <= now + TcpMax
  /\ pc = "ipp" /\ missed /\ readySince # NoMoment => wake <= readySince + IppMax
  /\ pc = "tcp" /\ readySince # NoMoment => wake <= readySince + IppMax + TcpMax
  /\ pc = "judge" /\ reading # "ready" /\ readySince # NoMoment =>
       now <= readySince + IppMax + TcpMax

Announced ==
  attempt > 0 /\ pc \in Timed \cup {"judge"} =>
    shown = IF reported THEN "printer_settling" ELSE "waiting_for_printer"

GateInv ==
  /\ GateTypeOK
  /\ Control
  /\ Timers
  /\ HeldBounded
  /\ Evidence
  /\ Sampled
  /\ Announced
  /\ ShownIsTrue
  /\ pc = "pause" => reported = (since # NoMoment)
=============================================================================
