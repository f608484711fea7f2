------------------------------ MODULE PowerChain ------------------------------
(***************************************************************************)
(* The timing chain: the keep-alive heartbeat, the printer's own           *)
(* auto-power-off timer and the relay's turn-off, which are to end in this *)
(* order, under settings that may be saved, a process that may be          *)
(* restarted and a printer that may be switched by hand at any moment.     *)
(* src/services/relay_service.py holds the arithmetic and the status       *)
(* report, settings_service.py the rules a save has to meet,               *)
(* printer_service.py the origin and the heartbeat.                        *)
(*                                                                         *)
(* Time is counted in ticks.  A moment ahead is the ticks left to it, a    *)
(* moment passed the ticks since, up to Horizon.  A settings document has  *)
(* the keys the chain reads; the rest of a save is SettingsStore's, arm()  *)
(* and tick() step by step are RelayPower's, the heartbeat's threads       *)
(* KeepAlive's.                                                            *)
(***************************************************************************)
EXTENDS Integers

CONSTANTS
  Choices,     \* PRINTER_AUTO_POWER_OFF_CHOICES, in ticks
  DelayLimit,  \* TURN_OFF_DELAY_LIMIT_MINUTES, in ticks
  Bodies,      \* what is sent to PUT /settings
  Kept,        \* documents the application may start with
  Device,      \* the timer set in the printer's own menu
  Intervals,   \* what a heartbeat thread may be started with, in ticks
  Backoff,     \* max_backoff, the limit of the waits after a failed heartbeat
  Never,       \* None, where a moment or a length of time is expected
  Horizon,     \* bound on the age of a moment
  MaxSaves     \* bound on the saves that change something

Key  == {"relay", "turnOnUrl", "turnOff", "keepAlive", "timed", "window",
         "hardware", "delay"}

VARIABLES
  stored,      \* the settings
  up,          \* the printer is on
  idle,        \* ticks since it last received data
  alive,       \* the application runs
  running,     \* a heartbeat thread does
  interval,    \* the one it was started with
  beat,        \* ticks to the thread's next look at the window
  age,         \* ticks since the origin: the last print, or the start
  due,         \* ticks to the persisted turn-off
  steady,      \* history: nothing but heartbeats of one interval since the origin
  disturbed,   \* history: the end of the window moved after the turn-off was set
  saves        \* history: saves that changed something

chain == <<age, due, steady, disturbed>>
thread == <<running, interval, beat>>
vars == <<stored, up, idle, alive, thread, chain, saves>>

-----------------------------------------------------------------------------
(* What a save must meet: _validate_settings, _validate_relay_power.       *)

Default(key) ==
  CASE key \in {"window", "delay"} -> 0
    [] key = "hardware" -> CHOOSE h \in Choices : \A g \in Choices : h <= g
    [] OTHER -> FALSE

\* What settings.get() answers of a document that lacks some of the keys.
Read(body) == [key \in Key |-> IF key \in DOMAIN body THEN body[key] ELSE Default(key)]

HasWindow(s) == s.keepAlive /\ s.timed /\ s.window > 0

\* Mutant of RelayRules: the window may be shorter than the device's timer.
RelayRulesAnyWindow(s) ==
  s.relay => s.turnOnUrl /\ (s.turnOff => HasWindow(s))

RelayRules(s) ==
  s.relay =>
    /\ s.turnOnUrl
    /\ HasWindow(s) => s.window >= s.hardware
    /\ s.turnOff => HasWindow(s)

Valid(s) ==
  /\ s.hardware \in Choices
  /\ s.delay \in 0..DelayLimit
  /\ s.window >= 0
  /\ RelayRules(s)

-----------------------------------------------------------------------------
(* The arithmetic of the chain, as offsets from the origin.                *)

TimedWindow(s) == IF s.timed /\ s.window > 0 THEN s.window ELSE Never

ConfiguredWindow(s) == IF s.keepAlive THEN TimedWindow(s) ELSE Never

HardwareOffsetApplied(s) == s.relay /\ TimedWindow(s) # Never

\* Mutant of Effective: the window is not shortened by the device's timer.
EffectiveUnshortened(s) == TimedWindow(s)

\* How long the heartbeat goes on.
Effective(s) ==
  IF ~ HardwareOffsetApplied(s) THEN TimedWindow(s)
  ELSE IF s.window > s.hardware THEN s.window - s.hardware ELSE 0

PrinterPowerOff(s) ==
  IF Effective(s) = Never THEN Never ELSE Effective(s) + s.hardware

KeepAliveEndOffset(s) ==
  IF ConfiguredWindow(s) = Never THEN Never ELSE Effective(s)

PrinterPowerOffOffset(s) ==
  IF ConfiguredWindow(s) = Never THEN Never ELSE PrinterPowerOff(s)

TurnOffOffset(s) ==
  IF s.relay /\ s.turnOff /\ ConfiguredWindow(s) # Never
  THEN s.window + s.delay ELSE Never

-----------------------------------------------------------------------------
(* The status report.                                                      *)

Left(offset) == IF offset = Never THEN Never ELSE offset - age

Ahead(moment) == moment # Never /\ moment > 0

Scheduled == IF stored.relay /\ stored.turnOff THEN due ELSE Never

\* Mutant of RunOut: the turn-off is not one of the steps to wait for.
RunOutWithoutTurnOff ==
  /\ KeepAliveEndOffset(stored) # Never
  /\ ~ Ahead(Left(KeepAliveEndOffset(stored)))
  /\ ~ Ahead(Left(PrinterPowerOffOffset(stored)))

\* Every step of the chain is over: it is shown as from now, as "idle".
RunOut ==
  /\ KeepAliveEndOffset(stored) # Never
  /\ ~ Ahead(Left(KeepAliveEndOffset(stored)))
  /\ ~ Ahead(Left(PrinterPowerOffOffset(stored)))
  /\ ~ Ahead(Scheduled)

Moment(step) ==
  CASE step = "turn_off" -> Scheduled
    [] step = "keep_alive_end" ->
         IF RunOut THEN KeepAliveEndOffset(stored)
         ELSE Left(KeepAliveEndOffset(stored))
    [] OTHER ->
         IF RunOut THEN PrinterPowerOffOffset(stored)
         ELSE Left(PrinterPowerOffOffset(stored))

Steps == <<"keep_alive_end", "printer_power_off", "turn_off">>

\* The next step: the first ahead; of two at the same moment the one listed first.
NextStep ==
  LET ahead == {i \in 1..3 : Ahead(Moment(Steps[i]))}
      Before(i, j) == \/ Moment(Steps[i]) < Moment(Steps[j])
                      \/ Moment(Steps[i]) = Moment(Steps[j]) /\ i <= j
  IN  IF ahead = {} THEN "none"
      ELSE Steps[CHOOSE i \in ahead : \A j \in ahead : Before(i, j)]

-----------------------------------------------------------------------------
Init ==
  /\ stored \in Kept /\ Valid(stored)
  /\ up = FALSE /\ idle = 0
  /\ alive = FALSE /\ running = FALSE /\ interval \in Intervals /\ beat = 0
  /\ age = Horizon /\ due = Never
  /\ steady = FALSE /\ disturbed = FALSE
  /\ saves = 0

\* A window that ends later, or a new statement about the device.
EndsLater(s) ==
  \/ Effective(s) = Never \/ Effective(stored) = Never
  \/ Effective(s) > Effective(stored)
  \/ s.hardware # stored.hardware

Stores(s) ==
  /\ Valid(s) /\ saves < MaxSaves
  /\ stored' = s /\ saves' = saves + 1
  /\ disturbed' = (disturbed \/ EndsLater(s))

\* PUT /settings: the body is validated by itself, then merged and validated
\* again.  No heartbeat is started or stopped.
PutSettings(body) ==
  /\ alive /\ Valid(Read(body))
  /\ LET merged == [key \in Key |-> IF key \in DOMAIN body THEN body[key] ELSE stored[key]]
     IN  merged # stored /\ Stores(merged)
  /\ steady' = FALSE
  /\ UNCHANGED <<up, idle, alive, thread, age, due>>

\* PUT /printers/keep-alive: the thread is replaced by one with the interval asked
\* for, or by none.
UpdateKeepAlive(enabled, every) ==
  /\ alive
  /\ LET merged == [stored EXCEPT !.keepAlive = enabled]
     IN  Stores(merged)
  /\ running' = enabled /\ beat' = 0
  /\ interval' = IF enabled THEN every ELSE interval
  /\ steady' = (steady /\ running /\ interval' = interval)
  /\ UNCHANGED <<up, idle, alive, age, due>>

-----------------------------------------------------------------------------
\* Mutant of Open: the heartbeat goes on for the window as configured.
OpenAsConfigured == TimedWindow(stored) # Never => age <= TimedWindow(stored)

\* The heartbeat's own test, of the clock and the settings of the moment.
Open == Effective(stored) # Never => age <= Effective(stored)

\* min(interval * 2^failures, max_backoff), of which the interval is taken off before
\* it is waited for: nothing, when the limit is the shorter one.
Longest == IF interval <= Backoff THEN Backoff ELSE interval

\* One round of the thread: a heartbeat inside the window, which an awake
\* printer receives; a failed one may be followed by a longer wait.  The last
\* tick of the window may be over when the thread looks.
Beat ==
  /\ alive /\ running /\ beat = 0
  /\ \/ /\ Open
        /\ IF up THEN idle' = 0 /\ beat' = interval
           ELSE beat' \in interval..Longest /\ UNCHANGED idle
     \/ /\ ~ Open \/ age = Effective(stored)
        /\ beat' = interval /\ UNCHANGED idle
  /\ UNCHANGED <<stored, up, alive, running, interval, chain, saves>>

\* arm(): from the origin of the moment, on the settings of the moment.
Arm ==
  /\ due' = TurnOffOffset(stored)
  /\ disturbed' = FALSE

\* A print: both windows start over, at the same instant.
PrintSent ==
  /\ alive /\ up
  /\ idle' = 0 /\ age' = 0 /\ steady' = TRUE
  /\ Arm
  /\ UNCHANGED <<stored, up, alive, thread, saves>>

\* A print that breaks after its first bytes: the printer's timer starts over,
\* neither window does.
PrintBreaks ==
  /\ alive /\ up
  /\ idle' = 0
  /\ disturbed' = (disturbed \/ ~ Open)
  /\ steady' = (steady /\ Open)
  /\ UNCHANGED <<stored, up, alive, thread, age, due, saves>>

\* The gate switches the printer on, it comes up and the turn-off is armed.
GateSwitchesOn ==
  /\ alive /\ stored.relay /\ ~ up
  /\ up' = TRUE /\ idle' = 0 /\ steady' = FALSE
  /\ Arm
  /\ UNCHANGED <<stored, alive, thread, age, saves>>

\* tick() with work pending: the turn-off is put off, from now on.
Postpone ==
  /\ alive /\ TurnOffOffset(stored) # Never
  /\ Arm
  /\ UNCHANGED <<stored, up, idle, alive, thread, age, steady, saves>>

\* tick(): the turn-off is no longer configured.
Drop ==
  /\ alive /\ TurnOffOffset(stored) = Never /\ due # Never
  /\ due' = Never
  /\ UNCHANGED <<stored, up, idle, alive, thread, age, steady, disturbed, saves>>

\* tick(): the turn-off is due, and sent; or it fails, delivered or not.
Cut ==
  /\ alive /\ TurnOffOffset(stored) # Never /\ due = 0
  /\ due' = Never
  /\ up' \in {FALSE, up}
  /\ UNCHANGED <<stored, idle, alive, thread, age, steady, disturbed, saves>>

-----------------------------------------------------------------------------
\* The application stops; the settings and the turn-off are on disk.
Stop ==
  /\ alive
  /\ alive' = FALSE /\ running' = FALSE /\ beat' = 0 /\ steady' = FALSE
  /\ UNCHANGED <<stored, up, idle, interval, age, due, disturbed, saves>>

\* It starts: a window begins although nothing was printed, and the turn-off
\* of the last process still stands.
Start ==
  /\ ~ alive
  /\ alive' = TRUE /\ age' = 0
  /\ running' = stored.keepAlive /\ interval' \in Intervals /\ beat' = 0
  /\ steady' = (stored.keepAlive /\ Effective(stored) # 0)
  /\ disturbed' = (disturbed \/ due # Never)
  /\ UNCHANGED <<stored, up, idle, due, saves>>

\* The button on the printer, the relay switched by hand, a printer that
\* comes up after the gate has given it up.
SwitchByHand ==
  /\ up' = ~ up /\ idle' = 0 /\ steady' = FALSE
  /\ disturbed' = (disturbed \/ ~ Open)
  /\ UNCHANGED <<stored, alive, thread, age, due, saves>>

Sooner(moment) == IF moment = Never \/ moment = 0 THEN moment ELSE moment - 1

\* A tick: the printer's own timer runs while it receives nothing.
Elapse ==
  /\ alive /\ running => beat # 0
  /\ age' = IF age < Horizon THEN age + 1 ELSE age
  /\ due' = Sooner(due) /\ beat' = Sooner(beat)
  /\ up' = (up /\ idle + 1 < Device)
  /\ idle' = IF up' THEN idle + 1 ELSE 0
  /\ UNCHANGED <<stored, alive, running, interval, steady, disturbed, saves>>

Next ==
  \/ \E body \in Bodies : PutSettings(body)
  \/ \E enabled \in BOOLEAN, every \in Intervals : UpdateKeepAlive(enabled, every)
  \/ Beat \/ PrintSent \/ PrintBreaks \/ GateSwitchesOn
  \/ Postpone \/ Drop \/ Cut
  \/ Stop \/ Start \/ SwitchByHand \/ Elapse

Spec == Init /\ [][Next]_vars

-----------------------------------------------------------------------------
Document ==
  [relay : BOOLEAN, turnOnUrl : BOOLEAN, turnOff : BOOLEAN,
   keepAlive : BOOLEAN, timed : BOOLEAN,
   window : {w \in Nat : w + Device <= Horizon}, hardware : Nat, delay : Nat]

\* A window and the device's timer after it fit below Horizon.  The heartbeat may be
\* slower than that timer: the validator does not compare them.
ASSUME ChainAssumption ==
  /\ Choices \subseteq Nat /\ Choices # {} /\ DelayLimit \in Nat
  /\ Device \in Nat \ {0} /\ Horizon \in Nat
  /\ Intervals \subseteq Nat \ {0} /\ Backoff \in Nat
  /\ Never \notin Int
  /\ \A body \in Bodies, key \in Key :
       key \in DOMAIN body =>
         /\ key \in {"window", "hardware", "delay"} => body[key] \in Int
         /\ key \notin {"window", "hardware", "delay"} => body[key] \in BOOLEAN
         /\ key = "window" => body[key] + Device <= Horizon
  /\ Kept \subseteq Document
  /\ MaxSaves \in Nat

\* The settings are a document the validator accepts, an awake printer has been
\* idle for less than its timer, and a thread runs only in a live application.
TypeOK ==
  /\ stored \in Document /\ Valid(stored)
  /\ up \in BOOLEAN /\ idle \in 0..(Device - 1)
  /\ alive \in BOOLEAN /\ running \in BOOLEAN /\ (running => alive)
  /\ interval \in Intervals /\ beat \in 0..Longest /\ age \in 0..Horizon
  /\ due = Never \/ due \in Nat
  /\ steady \in BOOLEAN /\ disturbed \in BOOLEAN
  /\ saves \in 0..MaxSaves

\* When the turn-off is due the printer has gone to sleep by itself, whatever was
\* printed, broke off, was pinged, saved or switched by hand meanwhile - as long as
\* the device's own timer is not longer than the settings say, and no save, restart
\* or hand moved the end of the wake-time after the turn-off was last set.
\* (default_settings.py: "`turn_off`, fired once everything has wound down".)
CutFindsItAsleep ==
  due = 0 /\ Device <= stored.hardware /\ ~ disturbed => ~ up

\* A printer left to its heartbeats never goes to sleep later than the report says,
\* and earlier by one wait of the thread at most, unless that wait is as long as the
\* device's own timer; with relay control the moment told is the configured window.
\* (relay_service.printer_power_off_offset_seconds.)
SleepsAsTold ==
  [][ LET told == PrinterPowerOffOffset(stored)
      IN  /\ Elapse /\ up /\ ~ up' /\ steady /\ running
          /\ told # Never /\ Device = stored.hardware
          => /\ age' <= told
             /\ Longest < Device => told - Longest <= age'
             /\ stored.relay => told = stored.window ]_vars

\* While a window is held open the report names a step still ahead of an awake
\* printer, and calls the chain idle only when the printer sleeps and no turn-off
\* is ahead.  (relay_service.status, the panel's countdown.)
PanelIsTrue ==
  /\ alive /\ running /\ steady /\ ~ disturbed
  /\ ConfiguredWindow(stored) # Never /\ Device = stored.hardware
  =>
  /\ up => NextStep \in {"keep_alive_end", "printer_power_off"}
  /\ RunOut => ~ up /\ ~ Ahead(Scheduled)

=============================================================================
