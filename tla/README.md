# A verification of the Brother QL label printing service

This directory holds TLA+ models of the service in `src/`, the TLC runs that
model-check them and the TLAPS proofs about them.  It is meant to be read beside
the code: every definition that models code is listed in `PROJECT.json` ("map")
with the file and lines it stands for.

Contents: [1 the system](#1-the-system), [2 the modules](#2-the-modules),
[3 the runs](#3-the-runs), [4 fairness](#4-fairness),
[5 what is proved](#5-what-is-proved), [6 disagreements](#6-disagreements-between-the-code-and-its-documentation),
[7 limits of the models](#7-limits-of-the-models), [8 plan](#8-plan).


## 1 The system

A Flask/ASGI application prints labels on a networked Brother QL printer.  It runs
as **one process** (`asgi.py`, one gunicorn worker) with these threads:

* API calls, on a thread pool (`src/api/*_controller.py`);
* one print queue worker (`queue_service.PrintQueueService._run`);
* one relay scheduler (`relay_service.RelayPowerService._run`, a tick every few
  seconds);
* one keep-alive thread at a time, or what is meant to be one
  (`printer_service._keep_alive_worker`);

and a browser front end without a framework (`src/static/js`), any number of tabs of
which poll and change the same server state.

### 1.1 Inventory

| Component | State it keeps | Operations | Hard behaviour | What makes it correct |
|---|---|---|---|---|
| **Print queue** `services/queue_service.py`, `utils/job_activity.py` | registry and order of jobs, FIFO, resume event, id of the job in hand, activity shown on each job | submit, reprint, cancel, remove, clear finished, clear all, pause, resume, stop; the worker: dequeue, gate, attempts with pauses, print, finish | API calls between any two critical sections of the worker; the FIFO and the resume event are not under the registry's lock; a gate and the pauses between attempts last minutes | one job on the wire, never taken from under the printer; nothing stranded; no job printed twice; cancelled means cancelled; eviction takes the oldest finished jobs; each job settles |
| **Relay power: schedule** `services/relay_service.py` | turn-off moment in memory and in `relay_power.json`, `loaded` flag, scheduler thread | arm, disarm, tick, send_now, status, note_print_activity | scheduler and worker arm and disarm concurrently; restarts inside the window; settings change in mid-tick; the webhook takes seconds | power is cut only a whole window after the last print and not with work pending; a schedule survives a restart; no schedule sits in the file for ever |
| **Relay power: pre-job gate** `services/relay_service.py` | position in the wait, deadlines, run of answers | ensure_printer_powered, _wait_until_ready | the printer's IPP port opens, closes and reopens while it is sampled; two deadlines and a settle | bounded wait; a job is released on evidence and failed only after every webhook; the queue is told to retry exactly when this app switched the printer on |
| **Settings store** `services/settings_service.py` | `settings.json`, its temporary file, cache with mtime | load, get, update, save; pre-update hook | saves are not serialised; failures and crashes between the steps of a save; cache filled in two reads | the file is never torn; no stale settings; a setting changes only when asked |
| **Keep-alive** `services/printer_service.py` | thread handle, stop event, failure count | start, stop, loop with back-off | start and stop take no lock and may leave threads behind; the port is shared with prints | one heartbeat; never on a busy port; told threads end; the heartbeat recovers |
| **Printer I/O** `printer_service._send_to_printer` | port lock, write counter, last print time | convert, send | counter and time are read by other threads | retries only when nothing was written |
| **Label geometry, bleed, calibration, raster placement** `printer_service` 309-970, 1325-2060 | a table of label sizes edited for the length of a print | pixel arithmetic on millimetres, offsets, margins | roundings, clamping at the edges of the head, readers of the edited table | content fits the printable area; nothing is placed off the head; the table is restored |
| **Media resolution and switching** `printer_service` 968-1225, 2355-2800; `static/js/media.js` | loaded-media cache (15 s), owned media, memory of choices | resolve a detected medium to a label, plan a switch, record a choice | stale cache; a user's choice against an automatic switch; several tabs | the label printed for is the roll that is loaded or the one the user chose |
| **Status and IPP** `services/ipp_client.py`, `check_printer_status` | none | IPP query, TCP connect | time-outs | a blocked printer is never reported ready |
| **Rendering** `printer_service`, `utils/text_markup.py`, `services/pdf_renderer.py` | none | word wrap, mark-up runs, QR layout, PDF pages | recursion, page ranges | all of the text is laid out; the pages asked for are printed once |
| **Job files, share staging** `queue_service` 344-402, `api/share_controller.py` | files with a time to live | store, sweep, serve | a sweep against a reprint or a download | a listed job can be reprinted, an offered file fetched |
| **API, request utilities** `api/`, `utils/` | none | validate, enqueue | guards against large batches | nothing is queued that was refused |
| **Front end** `static/js` | last drawn state, settings form, timers | poll, draw, preview, save | responses out of order, several tabs | the page shows the newest answer |
| **Wiring, container, tools, tests** | none | start-up order | restart | threads are started once |

### 1.2 Interactions

* API threads put jobs on the queue; the worker calls the **gate**
  (`set_pre_job_gate`, installed by `app.py`), which switches the printer on through
  the relay and reports activities back into the queue while it waits.
* The worker's print goes through `_send_to_printer`, which takes the port lock the
  **heartbeat** try-locks, counts the write the queue's retry rule reads, and calls
  `note_print_activity()`, which arms the **schedule**.
* The **scheduler** asks the queue `has_pending_work()` before it cuts power.
* Relay control, the heartbeat and the printer service read the **settings** at the
  start of each operation; the heartbeat's start and stop write them.


## 2 The modules

| Module | Models | Notes |
|---|---|---|
| `PrintQueue` | the queue | an action is one critical section of `_lock`, or one access to state the lock does not cover |
| `RelayPower` | schedule, scheduler, the worker's part in it | moments are kept as time remaining, a clock reading as its age, so that time passing is one action |
| `PowerGate` | the pre-job gate and its probe | a clock of the turn_on attempt under way |
| `JobGate` | abstract: what the queue relies on of any gate | `PowerGate` is shown to implement it |
| `SettingsStore` | file, temporary file, cache, saves and loads | a path names an inode, an open file keeps its own |
| `KeepAlive` | start, stop, heartbeat threads, the port | an event is named after the thread its call creates |
| `RasterPlacement` | bleed, sideways offset, the paste under the head, the edit of the media table around a conversion, what is reported of it | the arithmetic is operators, the conversions and the endpoint are actions |
| `MediaChoice` | the label the application prints for: pages, status checks, automatic switching, saves, the server's settings and its reading of the roll | a handler of a page runs to completion; checks and saves are in slots and may be late |
| `PowerChain` | the timing chain: heartbeat, the printer's own timer and the turn-off, the rules a save must meet, the status report | composes the clocks of `KeepAlive` and `RelayPower` with the settings and the printer; their threads' steps stay in those modules |
| `PrintFiles` | what requests, prints and previews do with files: uploads under `jobs/`, shared files, the pipelines' artefacts; page selections, retries | a request is a list of stages; a stage that raises skips to its `finally` |
| `MC...` | values of the constants that a `.cfg` cannot write, symmetry | |
| `...Proofs` | the proofs about the module of that name | `PowerProofs` is about `PowerGate` and `PowerChain`, whose specification it keeps apart as `GateInit`, `GateNext`, `GateSpec`, `GateInv` |

Each module has its state as VARIABLES, `Init`, one action per critical section or
step of the code, `Next`, `Spec` (and `FairSpec`), its properties, and `IInv`, the
inductive invariant the proofs use.  A definition whose comment says "Mutant of X"
is a plausible bug in the code X models; it is not part of the model, and is there to
show that a property would notice.

### 2.1 PrintQueue and the code

`status`, `ticket` and `activity` are the registry (`_jobs`, `_order`,
`job_activity`), `fifo` the `queue.Queue`, `resumed` the event behind pause and
resume, `current` is `_current_job_id`.  `pc`, `job`, `delays`, `attempt`, `left` are
the worker's locals in `_run`, `_print_job` and `_hold_before_attempt`; a job is
`"unborn"` before `submit` and `"removed"` after it left the registry.  `submit` and
`reprint` are two actions (`Register`, `Put`), because the job is registered under the
lock and put on the FIFO after it; `stop` and `clear_all` are two as well.  A pause
before an attempt is counted in the slices `_hold_before_attempt` sleeps.  The gate
reports any activity any number of times, then releases with one of the `Schedules`
or raises.  `begun` stands for the difference of `writes_begun()` over an attempt.

### 2.2 RelayPower and the code

`mem`, `loaded`, `disk` are `_turn_off_at`, `_state_loaded` and the file.  `arm` and
`disarm` are two steps each, on either thread, with a return position, because
`disarm` looks at the schedule before it takes the lock and `arm` reads settings
before it does.  `tick` is split at every read: the clock, the settings, the queue,
the schedule, the webhook.  The worker's actions follow `ensure_printer_powered`, the
print and `note_print_activity`.  `Restart` forgets everything but the file.

### 2.3 PowerGate and the code

`now` is the time since the webhook of the attempt under way; `wake` is when the
wait or network call under way ends, chosen between nothing and its time-out; `since`
and `reported` are `answering_since` and `reported_settle`.  The IPP server may go
silent or come back at any moment, `missed` records that it was silent for part of a
query; the raw port answers as it likes.  `heard` and `readySince` are history for the
properties.  `JobGate` has four actions, `SwitchOn`, `LetThrough`, `Undelivered` and
`Absent`; the refinement maps every gate position before the answer to `"held"`.

### 2.4 SettingsStore and the code

`save_settings` is `Open`, `Dump`, `Replace`, `RefreshSettings`, `RefreshStamp` and
their failures; `update_settings` merges request and hook onto what is stored
(`Begin`).  `OpenFails` is a `makedirs` or `open` that raises: nothing was opened, but the
clean-up still removes whatever has the temporary name.  `start_keep_alive` reads the
settings and saves the whole snapshot back a while later (`UpdateFromSnapshot`).
`get_settings` holds the cache lock from `GetMisses` to `GetLoads`.  A
second `open` of the temporary name truncates the inode another save is writing,
`os.replace` moves whatever has the name: this is the file system's behaviour, not
an assumption that saves are atomic.  Saves overlap in any way; `beside` records which
keys were named by the saves beside one (or since its snapshot was taken), and `clashed`
that two have been between `open` and `os.replace` at once.

### 2.5 KeepAlive and the code

A call of `update_keep_alive` is `Disable` or `Enable`, then the steps of
`stop_keep_alive` and `start_keep_alive`, split wherever they read or write the
handle or the event; calls overlap in any order.  `crossed` records that a start and
another call were under way at once, until a stop returns alone and nothing beats.  A
thread is at `"top"` (its wait, and the test of the event after it), `"backoff"`,
`"window"`, `"port"`, `"write"` or `"ping"` of `_keep_alive_worker`.  `ioLock` is `_io_lock`,
taken by the heartbeat without blocking and by prints with.

### 2.6 RasterPlacement and the code

Lengths are hundredths of a millimetre, positions dots of 300 dpi.  `Planned` is
`plan_raster_placement`, `Published` the entry `placed_raster` puts into
`label_type_specs`, `Reported` is `applied_calibration_offset`, `Drawn` the width of
`get_label_geometry`.  A conversion is at `"placing"` after
`_reject_transposed_die_cut`, at `"converting"` inside `placed_raster`, and leaves it
through the `finally` from `"leaving"`, `"raising"` (convert refused the width) or
`"failing"` (it raised for another reason).  `PastedAt` and `Convert` are what
brother_ql does with the entry, taken from the docstrings and tests that rely on it.
`Describe` is the calibration endpoint, which reads the table without the lock.


### 2.7 MediaChoice and the code

`tab[t]` is what one page holds: `#label-size` (`choice`), the mirrored settings
(`auto`, `owned`, `memory`), the report as the printer gave it (`report`, narrowed by
`Loaded`), `autoSwitchSuppressedFor` (`held`) and whether the list is open.  `stored`
and `cache` are the server's settings and the reading of the roll it keeps for
`MEDIA_CACHE_TTL_SECONDS`; time is abstracted, a reading may be used or be too old.
`Follow` is a handler's last call, `maybeAutoSwitchMedia`: the page stays as it is or
switches and begins a save.  A save (`putSettingsPatch`) is `"reading"` until its GET
is answered and `"sent"` until its PUT is; the Settings form sends at once.  A check
fixes, when it is asked, what the server will say of each roll (`decides`: the settings
are read before the printer is asked), is answered by `Probe` and taken by the page
later.  `OpenJob` is `openJob` with `applySettingsToForm`: the label of a job printed before is put on the
form without a change event, so nothing is saved, remembered or held off.  `meant`,
`said`, `last`, `savedBy` and `fromJob` are history for the properties: which labels
somebody named, the choice by hand that still counts, the save begun last while it is
under way, the page whose save was begun last and has landed, and the pages that show an
opened job's label they have not saved since.

### 2.8 PowerChain and the code

`stored` has the keys of the settings the chain reads; `age` is the time since
`_last_print_at`, `due` what is left to the persisted turn-off, `idle` the time since
the printer received data, `beat` the time to the thread's next round.  `Valid` is what
`_validate_settings` and `_validate_relay_power` ask of these keys, `Effective` to
`TurnOffOffset` are the class methods of the same names, `RunOut`, `Moment` and
`NextStep` what `status` makes of them.  `PutSettings` validates the body alone and then
the merged document, as the endpoint does; only `UpdateKeepAlive` replaces the thread.
`Elapse` is a tick of all clocks, in which the printer's own timer may put it to sleep.
`disturbed` is history: something moved the end of the wake-time after the turn-off was
set (a longer window, another statement about the device, a restart, a hand at the
printer or a broken print after the window).  `steady` is history: nothing but
heartbeats since the origin.

### 2.9 PrintFiles and the code

`stored` and `staged` are `uploads/jobs` and `uploads/shared` with the age of each file,
`root` the upload folder itself.  `run[a]` is what a thread is in the middle of: the
stages ahead, those of its `finally`, its list of temporary files.  The pipelines
(`print_text` and the others) and the handlers are lists of stages built from the
settings: whether the print is turned, which pages were selected.  A stage that writes
may fail before or after the file is there; a clean-up may fail for any file.  `litter`
is history: the names a fault left behind.  The worker sweeps, waits out the gate,
attempts and retries as `PrintQueue` has it, reduced to what the files see.


## 3 The runs

| Run | Bounds | What it asks |
|---|---|---|
| `queue_safety` | 3 jobs (symmetric), registry of 2, schedules of no and of two attempts | all safety properties of the queue |
| `queue_liveness` | 2 jobs, registry of 1 | every job settles |
| `relay_schedule` | window of 2, clock age 1, one settings change, one restart | the schedule's safety properties and that it is resolved |
| `relay_printing` (violated) | as above, no change, no restart | power is never cut under a print |
| `gate_boot` | two attempts with windows of 4 and 3, blind wait 2, settle 3, pauses 2 and 1, queries up to 1 and 2 | bounds, evidence, refinement of `JobGate`, an answer |
| `store_saves` | two savers (symmetric inodes), one of which also reads and saves what it read; 2 keys of 2 values, 3 updates, one restart | saves that overlap, fail or are cut short: what they may cost and what not |
| `store_atomic` (violated) | two savers | the file is never torn |
| `keepalive_heartbeat` | two callers whose calls overlap, 2 threads, an interval given as a float, 2 failures until it overflows | safety of start and stop; told threads end, the heartbeat goes on |
| `raster_placement` | two converters (symmetric), four media of a 720-dot head, bleeds of none, half a millimetre and too much, offsets of none, 4 mm and too much, turned and not | the table is restored, widths agree, ink lands, captions are true |
| `media_choice` | one page, a 62 mm roll that may be the red one and a 29 mm roll, one swap, two clicks or opened jobs, one check and two saves under way | manual choices hold, special rolls are used on request only, what is called saved is stored |
| `power_chain` | device timer of 4, heartbeats of 2 and of 4 (as long as the timer), back-off limit of 3, windows of 0 to 7, two device statements, delays of 0 to 2, two saves of full and partial documents | the steps of the chain end in order and when the report says |
| `print_files` | one request beside the worker, two places in the registry, 3 names, two attempts, a document of two pages, one upload or share kept, one fault | files live as promised, nothing strays without a fault, no label twice |

Why the bounds are enough.  *Queue*: three jobs are one in hand, one on the FIFO and one
being submitted or evicted; a registry of two makes every submission of the third
evict; a two-attempt schedule with a pause of one slice puts a cancel, pause or stop
into the gate, before the first attempt and between attempts.  *Schedule*: a window of
two and a clock that may be one old tell "due", "not due" and "due by a stale clock"
apart; one settings change and one restart may fall anywhere.  *Gate*: the settle (3)
is longer than a pause and shorter than a window, so that a run of answers can begin
at the first probe, in the middle, on the last probe before the deadline and past it,
and two windows of different length tell the attempts apart.  *Store*: three updates
are one to replace, one beside it and one to fail, or a save of a snapshot older than
both; four inodes are the file, the temporary one and one per saver.  *Keep-alive*: two
callers are a stop or a start and one that crosses it; two threads are one left in a long
ping and the one that replaces it, or the two that two starts leave; two failures are one
that backs off and one that overflows.  *Raster*: the media are a tape and a label that
fill the head when bled, a round label with room on both sides and a tape that sits
closer to the right end than its bleed grows; each offset is within the travel of one
and beyond that of another.  *Media*: one medium is ambiguous and one is not; two saves are
one and another that overlaps it; two clicks are a choice by hand and whatever may undo
it, an entry on the owned list and a choice, or an opened job and a save.  Checks that overtake each other and
several pages are left to the proofs, which have them all.  *Chain*: windows
below, at and above the device's timer, and one value of each key the validator refuses;
an interval below the timer and the limit of the back-off, and one that is below neither; the clock runs past the longest chain.  *Files*: one registry place to reprint from and
one to reprint to; three names are an upload, its label and one more to collide with; a
page selection that is reversed and repeats a page, and one past the end.  The proofs
(section 5) hold for every value of the constants.

The **properties**, in one line each, are in the modules above their definitions.  Type
correctness is the first conjunct of every `IInv` and is proved (section 5), not
repeated in the runs.
`CHECK_DEADLOCK FALSE` is used by `gate_boot` only: a gate that has answered is over.


## 4 Fairness

* Queue: the worker thread advances (`WF(Advance)`) and a submitter that registered a
  job reaches its `put`.  The gate and the print return: both wait under deadlines
  and socket time-outs.  Nobody is assumed to submit, cancel or resume; the liveness
  property asks for a queue that is resumed again and again.
* Schedule: scheduler and worker threads run and time passes.
* Gate: the worker thread runs and its waits end (`WF(Gate \/ Tick)`); the printer
  owes nothing.
* Keep-alive: threads are scheduled, a call once made runs to its end, a print ends.
* Raster: no liveness is claimed; a conversion holds the lock for as long as
  brother_ql takes.
* Settings store: no liveness is claimed.  A `threading.Lock` is not fair, and a
  reader could be overtaken.


## 5 What is proved

Eight modules of proofs, checked by TLAPS for every value of the constants that
satisfies the named assumptions (`QueueAssumption`, `RelayAssumption`,
`GateAssumption`, `StoreAssumption`, `KeepAliveAssumption`, `RasterAssumption`,
`MediaAssumption`, `RollAssumption`, `ChainAssumption`, `FilesAssumption`).  Each proves
`Init => IInv`, `IInv /\ [Next]_vars => IInv'`, and derives the properties from it.

* **PrintQueueProofs.** None of the properties is inductive alone.  `IInv` adds
  where a job can be (`Placement`: with its submitter, once on the FIFO, or in
  hand), what the worker's position says of the job it holds (`Hand`), where a job
  can be printing (`Printing`), that nothing was written before the running attempt
  (`Reach`) and who may carry an activity (`Described`).  The steps of API threads
  are treated together: they never touch the job at the wire (`ApiIsTame`).  Proved:
  `TypeOK`, `OneJobOnTheWire`, `NeverPrintedTwice`, `NothingStranded`,
  `GateIsPendingWork`, `ActivityOnlyInHand`, `FinishedShowsNothing`,
  `SettledStaysOffTheWire`, for any number
  of jobs, any cap and any schedules.  Eviction is a second argument: finitely many jobs
  are registered, each with a ticket of its own (`Numbered`), so a finished job's rank
  counts the finished jobs older than it, ranks are distinct, and the jobs below a rank
  are as many as the rank (`PrunedCount`); hence `EvictsOldestFinished`.
* **RelayPowerProofs.** `IInv` ties the recorded moment to the time since the last
  print (`Window`), the moment a thread is about to record to the age of its clock
  (`Arming`) and pending work to the tick's position (`Covered`).  Proved: types,
  `RestartKeepsSchedule` (what is armed is on disk, and a restart finds it),
  `NoCutThroughPendingWork`, `CutKeepsWindow`, for any window, clock age and number of
  changes and restarts.
* **PowerProofs**, the gate.  `GateInv` bounds what is under way by the deadlines (`Timers`),
  keeps the run of answers after the last silence (`Evidence`) and bounds what a
  query can have missed (`Sampled`).  Proved: the wait is bounded, silence is given up
  in time, a job is released on evidence only, a late answer gets its settle, a ready
  printer is seen, the activity shown is true, and the gate implements `JobGate`.
* **SettingsStoreProofs.** For any number of savers whose saves overlap: types, and that
  invalid settings never reach the file.  The rest says what overlapping saves can cost.
  `IInv` holds until two of them have been between `open` and `os.replace` at once
  (`clashed`): up to there the writer has the temporary file to itself (`OwnTemporary`),
  the cache is behind the file by the saves still to refresh it (`CacheFollows`), and what
  a save or a snapshot holds differs from the file only in keys named by it or beside it
  (`KeepsRest`).  From these `TornByClashOnly`, `CacheIsTheFile`, `AnsweredTruly` (what
  will be answered as saved is stored, and nothing else changes the file) and
  `OnlyAskedChange` (a lost update costs only keys that a save beside it has named).
* **KeepAliveProofs.** For any number of callers and left-over threads a heartbeat
  writes only while it holds the port, and after the window has closed a thread writes
  once at most, since what has written is past the decision to (`LateIsPastThePort`).
  For any number of calls that overlap in any order, `IInv` says what holds while no
  start is `crossed` by another call, stops crossing each other or not: a start is alone
  (`StartsAlone`), past its stop nothing beats (`CallKnowsThread`), and what beats is
  what the service holds (`HeldByService`); and a stop that silences everything makes a
  crossing good.  Hence `OneHeartbeat`, `NoOrphan`, `StopSilences`.
* **RasterPlacementProofs.** For any catalogue that satisfies `MediaAssumption` (unbled,
  every medium lies under the head), any head, limits, requests and number of
  converting threads.  The arithmetic comes first: what an edit contains
  (`EditFields`), where a raster published by it is pasted (`PasteLands`), and that a
  whole number of dots survives being reported and stored again
  (`FedBackUnchanged`).  `IInv` says that the holder of the lock published the edit of
  its own request on an unedited table and keeps the original to put back (`Holding`,
  `Owning`), and that what a conversion read is its own edit (`Reading`).  From these
  `EditsAreUndone`, `FitsTheLabel`, `LandsWhereAsked`, `ReportIsAppliedWithRoom`.
* **MediaChoiceProofs.** For any media, any number of pages, of checks and saves under
  way, and of clicks.  Three arguments share one `IInv`.  `Held`: a choice that counts
  was made against what the page holds off, and the report is that or nothing, so
  automatic mode cannot move (`FollowHolds`); hence `ManualChoiceHolds`.
  `EverythingIsMeant`: every place a label is taken from (preference, memory, owned
  list, decisions under way, saves under way) holds labels somebody named, and a rule
  that has none of those ends at the plain variant (`ReportedIsMeant`, `TargetIsMeant`);
  hence `SpecialIsMeant`.  `SavesAgree`: the
  save begun last says what its page shows, the label of an opened job excepted, whatever
  other saves are under way; hence `ShownIsStored`.
* **PowerProofs**, the chain.  First the arithmetic: with a turn-off configured, heartbeat end,
  printer power-off and turn-off come in this order and the power-off is the window
  (`ChainIsInOrder`).  `IInv` then says that an undisturbed turn-off is at least a
  device's timer away from the last data and from the end of the heartbeats
  (`FollowsTheWindow`), and that a printer left to its heartbeats had the last one inside
  the window and gets the next in time (`Paced`).  Hence `CutFindsItAsleep`,
  `SleepsAsTold` and `PanelIsTrue`, for any windows, timers, delays, back-off and
  intervals, those that are longer than the timer among them.
* **PrintFilesProofs.** For any number of requests, places in the registry and uuids, any
  document, limit and selections.  What a stage may do depends on where in its list it is,
  so `IInv` says, for a request (`RequestsInOrder`) and for the worker (`WorkerInOrder`),
  which stages can be ahead and what the thread tracks and has put out at that point: a
  print between two labels is `Makes`, in its `finally` `Ends`, and the labels out are a
  prefix of the job's.  `Apart` has no two threads work with one uuid, nor a request with a
  job's; `Kept` has what a thread tracks in the folder and the folder in what is tracked;
  `JobsInOrder` ties the job in hand to the worker.  A rename keeps the uuid, so `Apart`
  survives every stage.  Hence `ArtefactsStay`, `NoStrays`, `EachLabelOnce` and
  `KeptForTheirTtl`; of the page selection, that it stays in the document and under the
  limit (`SelectionIsLimited`), and that a document is put out as its selected pages,
  once each and in ascending order (`PagesInOrder`: a page is found by how many selected
  pages lie below it, and each count from nothing up belongs to one, `CountsBelow`).

No theorem assumes that calls or saves are serialised, or that the settings make sense
of the printer's timer: where a property has a condition (`clashed`, `crossed`,
`disturbed`, an interval below the timer) it is part of the property, checked and proved
with it, and section 6 says what happens outside it.

Left to TLC: the liveness properties (the prover does not do fairness or `ENABLED`):
`EveryJobSettles`, `ScheduleIsResolved`, `EndsWhenTold` and `GateAnswers`.  Every other
property of a passing run is also a theorem.


## 6 Disagreements between the code and its documentation

Shown by runs that must find a violation:

* `relay_printing`: `relay_service.py:133`, "turn_off never fires while a job is queued
  or printing"; the queue is asked once, before the schedule is read and the webhook
  sent.
* `store_atomic`: `settings_service.py:41`, "atomic writes"; two saves share one
  temporary name and one can move the other's empty file into place.

Met while modelling and stated in the modules, outside the listed runs:

* `TerminalIsFinal` (PrintQueue): `queue_service.py:58` calls terminal states final; a job
  cancelled in the gate becomes "failed" when the gate raises, or when a stop ends its
  hold.
* `ToldIsApplied` (RasterPlacement): `printer_service.py:4656` calls the calibration
  endpoint's answer "deterministic"; asked while another label of the medium is being
  converted, it is computed on that print's edit of the media table and names an offset
  the queued print will not apply.
* `PausedStartsNothing` (PrintQueue): `queue_service.pause` says the worker "holds
  before starting the next job" (558-561); a job in the gate, or released by a resume
  that a pause follows at once, still starts.
* `ReadersAgree` (PrintQueue): `queue_status` says its activity and the job's "cannot
  disagree" (655-656); after a cancel in the gate the job's own activity and the
  queue's are cleared at different moments.
* `FutureScheduleKept` (RelayPower): the relay must not be "left on indefinitely"
  (1538-1540); `tick` disarms after its webhook, whatever was armed while the webhook
  was in flight.
* `DisarmClearsDisk` (RelayPower): `disarm` clears "on disk as well as in memory"
  (865); a schedule armed between its look and its lock stays in the file.
* After two saves have clashed in the temporary file, `CacheIsTheFile`, `AnsweredTruly`
  and `OnlyAskedChange` (SettingsStore) fail as `NeverTorn` does; the properties end
  there.  And a save does put back keys it was not asked to change, when one beside it has
  changed them since it read the file (`settings_service.py` 861, 876):
  `OnlyAskedChange` bounds that loss to keys the saves beside it name.
* `HeartbeatGoesOn` (KeepAlive) claims nothing of a back-off that overflows; without
  its conjunct `~Overflows(w)` it fails for a float interval: `printer_service.py:6063`
  says "exponential backoff with a maximum", but the product overflows before the
  minimum is taken, and after 1024 failed pings no iteration reaches the printer again.
* `ReportIsApplied` (RasterPlacement): the caption of a label as wide as the head names
  the offset asked for (1957), though nothing is moved; `AppliedCalibration.x_mm` is to
  be the offset "the printer will actually apply" (1899).
* `BleedStaysCentred` (RasterPlacement): a bleed is said to keep the label "centred";
  on a medium that sits closer to the right end of the head than its bleed grows ("29")
  it moves the ink left.
* `NobodySeesAnEdit` (RasterPlacement): "no two conversions in this process can see
  each other's edit" (2010); a conversion that corrects nothing takes no lock and would
  see one.  The service has one converting thread.
* Two starts that cross, or a stop that crosses a start, can leave a heartbeat that
  neither the handle nor the event reaches (`printer_service.py:5422`): `NoOrphan`,
  `StopSilences` and `OneHeartbeat` (KeepAlive) say nothing from such a crossing until a
  stop comes through to silence, which it may never do for an orphan.
* `EveryChoiceHolds` (MediaChoice): "a manual choice holds automatic switching off until
  the printer reports something else" (`media.js` 793-794).  Picking the label already
  shown raises no change event and holds nothing off: with the list open while an
  answer reports another roll, the pick closes the list and the page switches away from
  the label just picked.  `ManualChoiceHolds` is the same of picks that change the label.
* `ShownIsStored` (MediaChoice) ends where a save lands after one that was begun later:
  `putSettingsPatch` (`media.js` 1258) neither queues nor numbers its requests, and the
  page goes on saying "Saved. The app prints for" the newer label (1240).
* Opening a stored job puts its label on the form without saving it (`api.js` 2466-2484).
  Until something is saved the page shows a label the server does not print for; with
  automatic mode on the next answer switches away from it; and the next save, be it about
  the owned list only, stores the old job's label (`ShownIsStored` has the first as
  `fromJob`).
* `CutFindsItAsleep` (PowerChain) excludes what `disturbed` records.  `default_settings.py`
  (113) has the turn-off "fired once everything has wound down" and `tick` says "a
  schedule made under the old configuration must not outlive it" (1604-1605), but a
  schedule armed under a shorter window, or under another statement about the device,
  stands until the next print; and a restart opens a new window (`_last_print_at` is the
  start) under the turn-off of the last process.  Power may then be cut under a printer
  the heartbeat is still keeping awake.
* The report's moments "exist only while a timed keep-alive window is actually running"
  (`relay_service.py` 110-111); `PUT /settings` may set `keep_alive_enabled` without
  starting or stopping the thread, so the report can name the end of a window nobody
  holds open.  `PanelIsTrue` asks for a running thread.
* A heartbeat interval is checked to be at least ten seconds (`settings_service.py` 216),
  not to be below the device's timer; with a longer one the printer sleeps inside the
  window, before the moment the report names.  `SleepsAsTold` bounds how early only where
  the longest wait is shorter than the timer, and TLC refutes it without that condition
  in `power_chain`.  That the printer is never awake past the moment holds regardless.
* `pdf_controller.py` 37-38, "the uploaded file is always cleaned up afterwards": it stays
  under `jobs/` for the sweep, for reprints.  A reprint does not make the file younger,
  and the worker sweeps before it prints, so a job that waited longer than the time to
  live behind a paused queue loses its own upload.
* Nothing sweeps the upload folder itself: artefacts of a write that broke, of a clean-up
  that failed or of a process that was killed stay there (`NoStrays` names them `litter`).


## 7 Limits of the models

* Queue: all prints go through the queue; at most one `stop` and one `clear_all` are
  in flight; names, messages and stored parameters of a job are left out.
* Schedule: a failing write of the state file is not modelled; relay control without
  a turn_on URL is treated as off.
* Gate: settings are read once, as in the code; nothing in the application calls
  `RelayPowerService.stop`, so waits are not cut short; a webhook's delivery time is
  not part of the attempt's clock.
* Store: a settings document is one flush of the buffer (it is below 8 KiB), writes
  at different moments have different mtimes, the merge of missing keys with the
  defaults is folded into "what is stored", a crash of the operating system (loss of
  what was written but not synced) is not modelled.  The validator is a set.
* Keep-alive: the settings written by start and stop belong to `SettingsStore`; a
  refused start changes nothing; the window is open or closed; `MaxFailures` stands
  for the number of failures (1024) from which the float overflows.
* Raster: unknown labels and models (which are not bled, shifted or bounded), the feed
  axis and the size correction, `dpi_600`, and lengths finer than a hundredth of a
  millimetre are left out; ink means the raster's columns, not what is drawn in them.
* Media: how a medium is identified from the printer's dimensions is the constant
  `Media`; the pill, warnings and announcements are left out.  A page's loading is one
  step.  Re-checks on a timer are `Poll`, possible at any moment.  Keys of the settings
  that have nothing to do with the label are not part of a save.  The calibration panel's
  save (`calibration.js` 469-491), which writes back the label it has just read and can
  so undo a save that lands in between, is left out.
* Chain: clocks are ticks, the heartbeat and its rounds take no time, and the gate's boot
  wait is one step.  A body also sends the printer's address,
  model and label, and with keep-alive its interval, as the validator demands; which interval a thread is started with
  is any of `Intervals`, since none is compared with anything else.  The schedule's races with the tick are `RelayPower`'s.
* Files: verifying, rasterising and the encoding of a preview are one stage that may
  raise; a size or type that is refused before anything is written is left out.  Names
  are unique (`uuid4`).  A restart forgets the registry, as the code does.
* Not modelled at all, and why, is in `PROJECT.json`, "components".


## 8 Plan

The project keeps at most twelve runs, and forty properties of passing runs (the two
violated ones come on top), so that all of them can be run together; a further module takes the place of a run.  In order of what they would
show:

1. The feed axis and the size correction of `_send_to_printer`, beside
   `RasterPlacement`; the round and vertical layouts as operators.
2. The shape rules of the validator (calibration, bleed, media): what it accepts it
   accepts again.
3. `PageViews`: polling and previews of one tab, latest answer wins; the relay
   countdown of `relay.js` against `PowerChain`'s report.
4. Text wrap and mark-up runs: recursive functions against reference definitions.
