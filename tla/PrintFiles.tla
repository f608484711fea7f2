------------------------------ MODULE PrintFiles ------------------------------
(***************************************************************************)
(* The files behind prints and previews: uploads kept for a job            *)
(* (uploads/jobs), files staged by a share (uploads/shared) and the images *)
(* the pipelines of src/services/printer_service.py leave in the upload    *)
(* folder while they run.                                                  *)
(*                                                                         *)
(* A request or a print is a list of stages, which a print goes through    *)
(* for each label; a stage that raises skips to the `finally' stages still *)
(* ahead.  Files are named by a uuid; rotating or resizing a file prefixes *)
(* its name.  The queue is PrintQueue's, reduced to what decides when a    *)
(* job's print runs and runs again.                                        *)
(***************************************************************************)
EXTENDS Integers, Sequences, SequencesExt, FiniteSets

CONSTANTS
  Token,       \* what uuid4 hands out for file names
  Nothing,     \* None, where a uuid, a job or a file is expected
  Job,         \* places in the queue's registry
  Request,     \* API threads
  Worker,      \* the queue's thread
  Ttl,         \* JOB_FILE_TTL_SECONDS, in ticks
  ShareTtl,    \* SHARE_TTL_SECONDS, in ticks
  Attempts,    \* attempts the gate's schedule allows
  Total,       \* pages of an uploaded document
  MaxPages,    \* MAX_PDF_PAGES, 0 for no limit
  Rotations,   \* whether a print is turned
  Specs,       \* page selections asked for
  Sweeps,      \* labels of a calibration run
  MaxKept,     \* bound on the files kept under jobs/ and shared/
  MaxLitter    \* bound on the files a fault may leave behind

\* A file in the upload folder: a uuid, and what was prefixed to it.
Name == [of : Token, by : SUBSET {"rotated", "resized"}]

Bare(t) == [of |-> t, by |-> {}]

ASSUME FilesAssumption ==
  /\ Nothing \notin Token \cup Job \cup Name
  /\ Worker \notin Request
  /\ Ttl \in Nat /\ ShareTtl \in Nat
  /\ Attempts \in Nat \ {0}
  /\ Total \in Nat \ {0} /\ MaxPages \in Nat
  /\ Rotations \subseteq BOOLEAN /\ Sweeps \subseteq Nat \ {0}
  /\ \A spec \in Specs : \A i \in DOMAIN spec : spec[i] = <<>> \/ spec[i] \in Int \X Int
  /\ MaxKept \in Nat /\ MaxLitter \in Nat

VARIABLES
  root,      \* names in the upload folder itself
  stored,    \* uploads under jobs/, with their age in ticks
  staged,    \* files under shared/, with their age in ticks
  job,       \* the registry
  run,       \* what each thread is in the middle of
  hand,      \* the job the worker holds
  attempt,   \* which attempt at it
  wrote,     \* the attempt has begun a raster write
  printed,   \* history: labels of the job in hand whose write began
  litter     \* history: names a fault left behind

files  == <<root, stored, staged, litter>>
worker == <<hand, attempt, wrote>>
vars   == <<files, job, run, worker, printed>>

-----------------------------------------------------------------------------
(* Page selections (src/services/pdf_renderer.py).  A selection is a       *)
(* sequence of tokens <<first, last>>, a single page being <<p, p>>; what  *)
(* the parser cannot read as numbers is <<0, 0>>, a stray comma <<>>.      *)

Readable(token) ==
  token # <<>> => /\ 1 <= token[1] /\ token[1] <= token[2]
                  /\ token[2] <= Total

\* The pages a selection names, {} where the parser raises.
ParsePageRange(spec) ==
  IF spec = <<>> THEN 1..Total
  ELSE IF \E i \in DOMAIN spec : ~ Readable(spec[i]) THEN {}
  ELSE UNION {spec[i][1]..spec[i][2] : i \in {k \in DOMAIN spec : spec[k] # <<>>}}

\* What render_pdf rasterises: nothing when the selection is over the limit.
Selected(spec) ==
  LET pages == ParsePageRange(spec)
  IN  IF MaxPages # 0 /\ Cardinality(pages) > MaxPages THEN {} ELSE pages

-----------------------------------------------------------------------------
(* The pipelines, as the stages they go through.                           *)

Turned(rotate) == IF rotate THEN <<"rotate">> ELSE <<>>

\* The pages in order: the i-th is the one with i - 1 below it.
Ascending(pages) ==
  [i \in 1..Cardinality(pages) |->
     CHOOSE p \in pages : Cardinality({q \in pages : q < p}) = i - 1]

\* A print: the stages up to its first label, those of each further one, and the
\* labels it is to put out, in order.
Puts(setup, page, labels) ==
  [first |-> setup \o page, page |-> page, labels |-> labels]

PrintText(rotate) ==
  Puts(<<>>, <<"create">> \o Turned(rotate) \o <<"send">>, <<1>>)
PrintQrCode(rotate) == PrintText(rotate)
PrintImage(rotate) == Puts(<<>>, Turned(rotate) \o <<"resize", "send">>, <<1>>)
PrintTextImage(rotate) ==
  Puts(<<>>, <<"compose">> \o Turned(rotate) \o <<"send">>, <<1>>)
PrintPdf(rotate, spec) ==
  Puts(IF Selected(spec) = {} THEN <<"refuse">> ELSE <<"render">>,
       <<"page">> \o Turned(rotate) \o <<"resize", "send">>,
       Ascending(Selected(spec)))
PrintCalibration(n) == Puts(<<>>, <<"create", "send">>, [i \in 1..n |-> i])

Prints ==
  (UNION {{PrintText(r), PrintQrCode(r), PrintImage(r), PrintTextImage(r)}
            : r \in Rotations})
    \cup {PrintPdf(r, s) : r \in Rotations, s \in Specs}
    \cup {PrintCalibration(n) : n \in Sweeps}

-----------------------------------------------------------------------------
(* The requests.  `after' is what a finally clause does, `print' the job   *)
(* the request registers.                                                  *)

Asks(todo, after, print) == [todo |-> todo, after |-> after, print |-> print]

\* Renders without an upload: previews, and dry runs of the same kind.
PreviewText(rotate) ==
  Asks(<<"create">> \o Turned(rotate), <<"cleanup">>, Nothing)
PreviewQrCode(rotate) == PreviewText(rotate)
PreviewLabel(rotate) == PreviewQrCode(rotate)
PreviewImage(rotate) ==
  Asks(<<"borrow">> \o Turned(rotate) \o <<"resize">>, <<"cleanup", "discard">>,
       Nothing)
PreviewPdf == Asks(<<"borrow">>, <<"discard">>, Nothing)

AskText(rotate)      == Asks(<<"submit">>, <<>>, PrintText(rotate))
AskQrCode(rotate)    == Asks(<<"submit">>, <<>>, PrintQrCode(rotate))
AskLabel(rotate)     == AskQrCode(rotate)
AskImage(rotate)     == Asks(<<"save", "check", "submit">>, <<>>, PrintImage(rotate))
AskTextImage(rotate) ==
  Asks(<<"save", "check", "submit">>, <<>>, PrintTextImage(rotate))
AskPdf(rotate, spec) == Asks(<<"save", "submit">>, <<>>, PrintPdf(rotate, spec))
AskCalibration(n)    == Asks(<<"submit">>, <<>>, PrintCalibration(n))

Share     == Asks(<<"sweepShares", "stage">>, <<>>, Nothing)
GetShared == Asks(<<"sweepShares">>, <<>>, Nothing)

Asked ==
  (UNION {{PreviewText(r), PreviewQrCode(r), PreviewLabel(r), PreviewImage(r),
           AskText(r), AskQrCode(r), AskLabel(r), AskImage(r), AskTextImage(r)}
            : r \in Rotations})
    \cup {AskPdf(r, s) : r \in Rotations, s \in Specs}
    \cup {AskCalibration(n) : n \in Sweeps}
    \cup {PreviewPdf, Share, GetShared}

-----------------------------------------------------------------------------
Actor == Request \cup {Worker}
\* A thread between two requests, or the worker between two attempts.
Idle == [todo |-> <<>>, after |-> <<>>, print |-> Nothing, of |-> Nothing,
         cur |-> Nothing, temps |-> {}, own |-> {}, ok |-> TRUE, sent |-> 0]

\* A place in the registry no job has.
Free == [state |-> "free", print |-> Nothing, of |-> Nothing]

Init ==
  /\ root = {} /\ stored = <<>> /\ staged = <<>> /\ litter = {}
  /\ job = [j \in Job |-> Free]
  /\ run = [a \in Actor |-> Idle]
  /\ hand = Nothing /\ attempt = 1 /\ wrote = FALSE
  /\ printed = <<>>

\* uuid4: a name no file, job or thread has.
Fresh ==
  Token \ ({n.of : n \in root} \cup DOMAIN stored \cup DOMAIN staged
             \cup {job[j].of : j \in Job} \cup {run[a].of : a \in Actor})

At(a, stages) == run[a].todo # <<>> /\ Head(run[a].todo) \in stages

\* Into the finally clause, which knows the lists of files and nothing else.
Finally(a, ok) ==
  IF run[a].after = <<>> THEN Idle
  ELSE [Idle EXCEPT !.todo = run[a].after, !.temps = run[a].temps,
                    !.own = run[a].own, !.ok = ok \/ a # Worker]

\* On to the next stage; after the last one the finally clause, then idle.
Went(a) ==
  IF Len(run[a].todo) > 1 THEN [run[a] EXCEPT !.todo = Tail(@)]
  ELSE Finally(a, TRUE)

\* An exception: on to the finally clause at once.
Raised(a) == Finally(a, FALSE)

CanKeep == Cardinality(DOMAIN stored) + Cardinality(DOMAIN staged) < MaxKept
CanLitter(names) == Cardinality(litter \cup names) <= MaxLitter

-----------------------------------------------------------------------------
(* Folders swept by the age of a file alone.                               *)

Written(folder, t) ==
  [u \in DOMAIN folder \cup {t} |-> IF u = t THEN 0 ELSE folder[u]]

Older(folder, ttl) ==
  [t \in DOMAIN folder |-> IF folder[t] > ttl THEN folder[t] ELSE folder[t] + 1]

\* Mutant of Swept: a file goes when its time to live is reached.
SweptEarly(folder, ttl) == Restrict(folder, {t \in DOMAIN folder : folder[t] < ttl})

Swept(folder, ttl) == Restrict(folder, {t \in DOMAIN folder : folder[t] <= ttl})

-----------------------------------------------------------------------------
(* The stages of a request.                                                *)

Receive(r) ==
  /\ run[r] = Idle
  /\ \E asked \in Asked :
       run' = [run EXCEPT ![r] = [Idle EXCEPT !.todo = asked.todo,
                                              !.after = asked.after,
                                              !.print = asked.print]]
  /\ UNCHANGED <<files, job, worker, printed>>

\* The upload of a print is written under jobs/; a write that breaks leaves
\* what it had there, for the sweep.
Save(r) ==
  /\ At(r, {"save"}) /\ CanKeep
  /\ \E t \in Fresh :
       /\ stored' = Written(stored, t)
       /\ run' \in {[run EXCEPT ![r] = [Went(r) EXCEPT !.of = t]],
                    [run EXCEPT ![r] = Raised(r)]}
  /\ UNCHANGED <<root, staged, litter, job, worker, printed>>

\* The upload of a preview is written into the folder itself.
Borrow(r) ==
  /\ At(r, {"borrow"})
  /\ \E t \in Fresh :
       /\ root' = root \cup {Bare(t)}
       /\ \/ /\ run' = [run EXCEPT ![r] = [Went(r) EXCEPT
                          !.of = t, !.cur = Bare(t), !.own = {Bare(t)}]]
             /\ UNCHANGED litter
          \/ /\ CanLitter({Bare(t)})
             /\ run' = [run EXCEPT ![r] = Raised(r)]
             /\ litter' = litter \cup {Bare(t)}
  /\ UNCHANGED <<stored, staged, job, worker, printed>>

\* Image.verify() before a job is made of an upload: what it rejects is
\* deleted again; any other exception leaves the file to the sweep.
Check(r) ==
  /\ At(r, {"check"})
  /\ \/ run' = [run EXCEPT ![r] = Went(r)] /\ UNCHANGED stored
     \/ /\ run' = [run EXCEPT ![r] = Raised(r)]
        /\ stored' \in {stored, Restrict(stored, DOMAIN stored \ {run[r].of})}
  /\ UNCHANGED <<root, staged, litter, job, worker, printed>>

\* print_queue.submit(): a sweep, then the registration.
Submit(r) ==
  /\ At(r, {"submit"})
  /\ stored' = Swept(stored, Ttl)
  /\ \E j \in Job \ {hand} :
       /\ job[j] = Free
       /\ job' = [job EXCEPT ![j] = [state |-> "queued",
                    print |-> run[r].print, of |-> run[r].of]]
  /\ run' = [run EXCEPT ![r] = Idle]
  /\ UNCHANGED <<root, staged, litter, worker, printed>>

\* Every share and every fetch of a shared file begins with a sweep.
SweepShares(r) ==
  /\ At(r, {"sweepShares"})
  /\ staged' = Swept(staged, ShareTtl)
  /\ run' = [run EXCEPT ![r] = Went(r)]
  /\ UNCHANGED <<root, stored, litter, job, worker, printed>>

Stage(r) ==
  /\ At(r, {"stage"}) /\ CanKeep
  /\ \E t \in Fresh : staged' = Written(staged, t)
  /\ run' = [run EXCEPT ![r] = Went(r)]
  /\ UNCHANGED <<root, stored, litter, job, worker, printed>>

-----------------------------------------------------------------------------
(* The registry.                                                           *)

\* A job that is over is done, failed or cancelled.

\* reprint(): a new job with the old one's print and file; nothing is swept
\* and the file is as old as it was.
Reprint(j, k) ==
  /\ job[j] # Free /\ job[k] = Free /\ k # hand
  /\ job' = [job EXCEPT ![k] = [job[j] EXCEPT !.state = "queued"]]
  /\ UNCHANGED <<files, run, worker, printed>>

Cancel(j) ==
  /\ job[j].state = "queued"
  /\ job' = [job EXCEPT ![j].state = "over"]
  /\ UNCHANGED <<files, run, worker, printed>>

\* remove(), clear_finished(), clear_all() and the registry's cap: the job
\* goes, its file stays for the sweep.
RemoveJob(j) ==
  /\ job[j].state \notin {"free", "printing"}
  /\ job' = [job EXCEPT ![j] = Free]
  /\ UNCHANGED <<files, run, worker, printed>>

-----------------------------------------------------------------------------
(* The stages of a pipeline.                                               *)

HasUpload(a) ==
  IF a = Worker THEN run[a].of \in DOMAIN stored ELSE Bare(run[a].of) \in root

\* What a stage opens is there.
CanOpen(a) ==
  \/ At(a, {"create", "page"})
  \/ At(a, {"compose", "render"}) /\ HasUpload(a)
  \/ /\ At(a, {"rotate", "resize", "send"})
     /\ IF run[a].of # Nothing /\ run[a].cur = Bare(run[a].of)
        THEN HasUpload(a) ELSE run[a].cur \in root

\* render_pdf rasterises the pages before the first is printed, or raises.
Render ==
  /\ At(Worker, {"render", "refuse"})
  /\ \/ CanOpen(Worker) /\ run' = [run EXCEPT ![Worker] = Went(Worker)]
     \/ run' = [run EXCEPT ![Worker] = Raised(Worker)]
  /\ UNCHANGED <<files, job, worker, printed>>

\* Mutant of Made: the label's file is named for what it is, not by a uuid.
MadeByKind(a) ==
  IF At(a, {"create", "compose", "page"})
  THEN {Bare(CHOOSE t \in Token : TRUE)}
  ELSE {[run[a].cur EXCEPT !.by = @ \cup
           {IF At(a, {"rotate"}) THEN "rotated" ELSE "resized"}]}

\* The names a stage may give what it writes.
Made(a) ==
  IF At(a, {"create", "compose", "page"}) THEN {Bare(t) : t \in Fresh}
  ELSE {[run[a].cur EXCEPT !.by = @ \cup
           {IF At(a, {"rotate"}) THEN "rotated" ELSE "resized"}]}

\* Mutant of Tracked: the rotated file takes the place of its source.
TrackedLast(temps, name) == {name}

\* temp_files.append(name)
Tracked(temps, name) == temps \cup {name}

\* A stage that writes a file: the caller tracks it once it is written, so a
\* write that breaks leaves one nobody tracks.
Produce(a) ==
  /\ At(a, {"create", "compose", "page", "rotate", "resize"})
  /\ \/ /\ run' = [run EXCEPT ![a] = Raised(a)]
        /\ UNCHANGED <<root, litter>>
     \/ /\ CanOpen(a)
        /\ \E name \in Made(a) :
             /\ root' = root \cup {name}
             /\ \/ /\ run' = [run EXCEPT ![a] = [Went(a) EXCEPT
                                !.temps = Tracked(@, name), !.cur = name]]
                   /\ litter' = litter \ {name}
                \/ /\ CanLitter({name})
                   /\ run' = [run EXCEPT ![a] = Raised(a)]
                   /\ litter' = litter \cup {name}
  /\ UNCHANGED <<stored, staged, job, worker, printed>>

\* _cleanup_temp_files: a file that cannot be removed is logged and stays.
Cleanup(a) ==
  /\ At(a, {"cleanup"})
  /\ \E stuck \in SUBSET (run[a].temps \cap root) :
       /\ CanLitter(stuck)
       /\ root' = root \ (run[a].temps \ stuck)
       /\ litter' = litter \cup stuck
  /\ run' = [run EXCEPT ![a] =
       IF Len(run[a].todo) > 1 THEN [run[a] EXCEPT !.todo = Tail(@), !.temps = {}]
       ELSE Idle]
  /\ UNCHANGED <<stored, staged, job, worker, printed>>

\* The upload of a preview goes with the request.
Discard(r) ==
  /\ At(r, {"discard"})
  /\ \/ root' = root \ run[r].own /\ UNCHANGED litter
     \/ /\ run[r].own \subseteq root /\ CanLitter(run[r].own)
        /\ litter' = litter \cup run[r].own /\ UNCHANGED root
  /\ run' = [run EXCEPT ![r] = Went(r)]
  /\ UNCHANGED <<stored, staged, job, worker, printed>>

-----------------------------------------------------------------------------
(* The worker.                                                             *)

\* The worker takes a job and sweeps before it looks at it.
Take(j) ==
  /\ hand = Nothing /\ job[j].state = "queued"
  /\ hand' = j /\ attempt' = 1 /\ wrote' = FALSE /\ printed' = <<>>
  /\ stored' = Swept(stored, Ttl)
  /\ UNCHANGED <<root, staged, litter, job, run>>

\* The worker is done with its job, and with all it knew of it.
LetGo == hand' = Nothing /\ attempt' = 1 /\ wrote' = FALSE /\ printed' = <<>>

\* The gate, or a pause between attempts, is over.
Begin ==
  /\ hand # Nothing /\ run[Worker] = Idle
  /\ IF job[hand].state \in {"free", "over"}
     THEN LetGo /\ UNCHANGED <<job, run>>
     ELSE LET of == job[hand].of
          IN  /\ job' = [job EXCEPT ![hand].state = "printing"]
              /\ run' = [run EXCEPT ![Worker] = [Idle EXCEPT
                           !.todo = job[hand].print.first,
                           !.after = <<"cleanup", "outcome">>,
                           !.of = of,
                           !.cur = IF of = Nothing THEN Nothing ELSE Bare(of)]]
              /\ wrote' = FALSE
              /\ UNCHANGED <<hand, attempt, printed>>
  /\ UNCHANGED files

\* The gate raises, or the queue is stopped while the job waits.
GiveUp ==
  /\ hand # Nothing /\ run[Worker] = Idle
  /\ IF job[hand] = Free THEN UNCHANGED job
     ELSE job' = [job EXCEPT ![hand].state = "over"]
  /\ LetGo
  /\ UNCHANGED <<files, run>>

\* Mutant of Wrote: the write is counted once it went through.
WroteWhenDone(through) == wrote \/ through

\* _send_to_printer counts a write as it begins it.
Wrote(through) == TRUE

\* A label went out: on to the next one, after the last to the finally clause.
Sent(print) ==
  IF run[Worker].sent + 1 < Len(print.labels)
  THEN [run[Worker] EXCEPT !.todo = print.page, !.sent = @ + 1]
  ELSE Finally(Worker, TRUE)

\* _send_to_printer: the printer refuses before anything is written, or the
\* write begins and goes through or breaks.
Send ==
  /\ At(Worker, {"send"})
  /\ \/ /\ run' = [run EXCEPT ![Worker] = Raised(Worker)]
        /\ UNCHANGED <<wrote, printed>>
     \/ \E through \in BOOLEAN :
          /\ CanOpen(Worker)
          /\ wrote' = Wrote(through)
          /\ printed' =
               Append(printed, job[hand].print.labels[run[Worker].sent + 1])
          /\ run' = [run EXCEPT ![Worker] =
               IF through THEN Sent(job[hand].print) ELSE Raised(Worker)]
  /\ UNCHANGED <<files, job, hand, attempt>>

MayRetry == attempt < Attempts /\ ~ wrote

\* The end of an attempt; a paused queue abandons the schedule.
Outcome ==
  /\ At(Worker, {"outcome"})
  /\ run' = [run EXCEPT ![Worker] = Idle]
  /\ \/ /\ job' = [job EXCEPT ![hand].state = "over"]
        /\ LetGo
     \/ /\ ~ run[Worker].ok /\ MayRetry
        /\ job' = [job EXCEPT ![hand].state = "queued"]
        /\ attempt' = attempt + 1 /\ UNCHANGED <<hand, wrote, printed>>
  /\ UNCHANGED files

-----------------------------------------------------------------------------
Tick ==
  /\ stored' = Older(stored, Ttl)
  /\ staged' = Older(staged, ShareTtl)
  /\ <<stored, staged>>' # <<stored, staged>>
  /\ UNCHANGED <<root, litter, job, run, worker, printed>>

\* The process dies and comes back: files stay, jobs and threads do not.
Restart ==
  /\ CanLitter(root)
  /\ litter' = root
  /\ job' = [j \in Job |-> Free]
  /\ run' = [a \in Actor |-> Idle]
  /\ LetGo
  /\ UNCHANGED <<root, stored, staged>>

OfRequest(r) ==
  \/ Receive(r) \/ Save(r) \/ Borrow(r) \/ Check(r) \/ Submit(r)
  \/ SweepShares(r) \/ Stage(r) \/ Discard(r)

OfPipeline(a) == Produce(a) \/ Cleanup(a)

OfWorker == (\E j \in Job : Take(j)) \/ Begin \/ GiveUp \/ Render \/ Send \/ Outcome

Next ==
  \/ \E r \in Request : OfRequest(r)
  \/ \E a \in Actor : OfPipeline(a)
  \/ OfWorker
  \/ \E j, k \in Job : Reprint(j, k)
  \/ \E j \in Job : Cancel(j) \/ RemoveJob(j)
  \/ Tick
  \/ Restart

Spec == Init /\ [][Next]_vars

-----------------------------------------------------------------------------
\* What a request or a pipeline goes through.
Stages ==
  {"save", "check", "submit", "sweepShares", "stage", "borrow", "discard", "create",
   "compose", "render", "refuse", "page", "rotate", "resize", "send", "cleanup", "outcome"}

Running ==
  [todo : Seq(Stages), after : Seq(Stages), print : Prints \cup {Nothing},
   of : Token \cup {Nothing}, cur : Name \cup {Nothing},
   temps : SUBSET Name, own : SUBSET Name, ok : BOOLEAN, sent : Nat]

TypeOK ==
  /\ root \subseteq Name /\ litter \subseteq Name
  /\ stored \in UNION {[S -> 0..Ttl + 1] : S \in SUBSET Token}
  /\ staged \in UNION {[S -> 0..ShareTtl + 1] : S \in SUBSET Token}
  /\ job \in [Job -> [state : {"free", "queued", "printing", "over"},
                      print : Prints \cup {Nothing}, of : Token \cup {Nothing}]]
  /\ run \in [Actor -> Running]
  /\ hand \in Job \cup {Nothing}
  /\ attempt \in 1..Attempts /\ wrote \in BOOLEAN

\* An upload under jobs/ and a file under shared/ go only once they are older
\* than their time to live, or while the request that saved them still
\* checks them: no print, preview, reprint or removal of a job deletes them.
KeptForTheirTtl ==
  [][/\ \A t \in DOMAIN stored \ DOMAIN stored' :
          stored[t] > Ttl \/ \E r \in Request : At(r, {"check"}) /\ run[r].of = t
     /\ \A t \in DOMAIN staged \ DOMAIN staged' : staged[t] > ShareTtl]_vars

\* What a thread tracks is in the folder until that thread removes it:
\* nobody else's clean-up, no restart and no rename takes it away.
ArtefactsStay ==
  /\ \A a \in Actor : run[a].temps \cup run[a].own \subseteq root
  /\ \A a, b \in Actor : a # b =>
       (run[a].temps \cup run[a].own) \cap (run[b].temps \cup run[b].own) = {}

\* The upload folder, which nothing sweeps, holds what running pipelines and
\* previews track, and beyond that only what a fault left there.
NoStrays ==
  root \subseteq litter \cup UNION {run[a].temps \cup run[a].own : a \in Actor}

\* No label of a job is written twice, whatever attempts its schedule grants,
\* labels come in order, and a job that is done put out all of them.
EachLabelOnce ==
  hand # Nothing /\ job[hand] # Free =>
    /\ IsPrefix(printed, job[hand].print.labels)
    /\ At(Worker, {"outcome"}) /\ run[Worker].ok =>
         printed = job[hand].print.labels
=============================================================================
