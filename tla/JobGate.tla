------------------------------- MODULE JobGate -------------------------------
(***************************************************************************)
(* What the print queue may rely on of its pre-job gate (set_pre_job_gate  *)
(* in src/services/queue_service.py), whoever installs it: the gate holds  *)
(* the job for a while, switching the printer on at most MaxSends times,   *)
(* and then lets it through with a schedule of attempts or raises.         *)
(***************************************************************************)
EXTENDS Naturals

CONSTANT MaxSends    \* turn_on webhooks one job may cost

VARIABLES
  phase,     \* what has become of the job at the gate
  sent,      \* webhooks delivered for it
  schedule   \* how the queue is to print it

vars == <<phase, sent, schedule>>

Init == phase = "held" /\ sent = 0 /\ schedule = "none"

SwitchOn ==
  /\ phase = "held"
  /\ sent < MaxSends
  /\ sent' = sent + 1
  /\ UNCHANGED <<phase, schedule>>

\* A printer this gate switched on is printed to more than once, any other
\* printer exactly once.
LetThrough ==
  /\ phase = "held"
  /\ phase' = "released"
  /\ schedule' = IF sent = 0 THEN "once" ELSE "retries"
  /\ UNCHANGED sent

\* The job fails over a webhook that was not delivered ...
Undelivered ==
  /\ phase = "held"
  /\ sent < MaxSends
  /\ phase' = "undelivered"
  /\ UNCHANGED <<sent, schedule>>

\* ... or over an absent printer, after every webhook it may cost.
Absent ==
  /\ phase = "held"
  /\ sent = MaxSends
  /\ phase' = "absent"
  /\ UNCHANGED <<sent, schedule>>

Next == SwitchOn \/ LetThrough \/ Undelivered \/ Absent

Spec == Init /\ [][Next]_vars
=============================================================================
