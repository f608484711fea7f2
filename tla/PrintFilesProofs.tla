-------------------------- MODULE PrintFilesProofs --------------------------
(***************************************************************************)
(* Proofs about the files behind prints and previews: what a pipeline      *)
(* makes stays until it removes it and does not stay longer, files under   *)
(* jobs/ and shared/ live as long as promised, and a job's labels are put  *)
(* out once and in order, for any number of requests, jobs and files, any  *)
(* documents and any page selections.                                      *)
(***************************************************************************)
EXTENDS PrintFiles, FiniteSetTheorems, SequenceTheorems, TLAPS

-----------------------------------------------------------------------------
(* The inductive invariant.                                                *)

\* The files a thread tracks, and the uuids it works with.
Names(x) == x.temps \cup x.own

Tokens(x) == ({n.of : n \in Names(x)} \cup {x.of}) \ {Nothing}

\* Up to its finally clause a pipeline is at a file it tracks, or at the upload it
\* was given.
Follows(x) ==
  \/ x.after = <<>> \/ x.cur = Nothing
  \/ x.cur \in Names(x)
  \/ x.of # Nothing /\ x.cur = Bare(x.of)

\* No two threads work with the same uuid, nor does a request with a job's.
Apart ==
  /\ \A a, b \in Actor : a # b => Tokens(run[a]) \cap Tokens(run[b]) = {}
  /\ \A r \in Request, j \in Job : job[j].of \notin Tokens(run[r])
  /\ \A a \in Actor : Follows(run[a])

\* Where a request may be, and what it then knows.
Submits(x) ==
  /\ x.todo \in {<<"save", "check", "submit">>, <<"save", "submit">>,
                 <<"check", "submit">>, <<"submit">>}
  /\ x.after = <<>>
  /\ x.print \in Prints /\ Names(x) = {}

Shares(x) ==
  /\ x.todo \in {<<"sweepShares", "stage">>, <<"sweepShares">>, <<"stage">>}
  /\ x.after = <<>>
  /\ Names(x) = {}

Draws(x) ==
  /\ x.todo \in Seq({"create", "rotate"}) /\ x.after = <<"cleanup">>
  /\ x.own = {}

Uploads(x) ==
  /\ x.todo \in Seq({"borrow", "rotate", "resize"}) /\ x.todo # <<>>
  /\ x.todo[1] = "borrow" /\ Tail(x.todo) \in Seq({"rotate", "resize"})
  /\ x.after \in {<<"discard">>, <<"cleanup", "discard">>}
  /\ x.after = <<"discard">> => Len(x.todo) = 1
  /\ Names(x) = {}

\* The upload goes under its own name, what is made of it under a longer one.
Longer(x) == (\A n \in x.own : n.by = {}) /\ (\A n \in x.temps : n.by # {})

Converts(x) ==
  /\ x.todo \in Seq({"rotate", "resize"}) /\ x.after = <<"cleanup", "discard">>
  /\ Longer(x)

Clears(x) ==
  /\ x.after = <<>>
  /\ \/ x.todo = <<"cleanup">> /\ x.own = {}
     \/ x.todo = <<"cleanup", "discard">> /\ Longer(x)
     \/ x.todo = <<"discard">> /\ x.temps = {}

InPlace(x) ==
  x = Idle \/ Submits(x) \/ Shares(x) \/ Draws(x) \/ Uploads(x) \/ Converts(x) \/ Clears(x)

RequestsInOrder == \A r \in Request : InPlace(run[r])

\* The stages of a label: whatever makes it, then the write.
Making == {"create", "compose", "page", "render", "refuse", "rotate", "resize"}

EndsInSend(stages) ==
  /\ stages \in Seq(Making \cup {"send"}) /\ Len(stages) > 0
  /\ stages[Len(stages)] = "send"
  /\ \A i \in 1..Len(stages) : i < Len(stages) => stages[i] \in Making

\* The labels put out are the first of those asked for.
FirstOf(labels, n) == [i \in 1..n |-> labels[i]]

Labels == job[hand].print.labels

\* The worker is at a label, or past the last one it will try, having put out `done'.
Makes(x, done) ==
  /\ EndsInSend(x.todo) /\ x.after = <<"cleanup", "outcome">>
  /\ x.of = job[hand].of
  /\ x.todo[1] = "refuse" \/ x.sent < Len(Labels)
  /\ x.sent <= Len(Labels) /\ done = FirstOf(Labels, x.sent)

Ends(x, done) ==
  /\ x.after = <<>>
  /\ \/ x.todo = <<"cleanup", "outcome">>
     \/ x.todo = <<"outcome">> /\ x.temps = {}
  /\ \E n \in 0..Len(Labels) : done = FirstOf(Labels, n)
  /\ x.ok => done = FirstOf(Labels, Len(Labels))

WorkerInOrder ==
  IF run[Worker] = Idle THEN hand # Nothing => printed = <<>>
  ELSE /\ hand # Nothing /\ job[hand].state = "printing"
       /\ run[Worker].own = {}
       /\ ~ wrote => printed = <<>>
       /\ Makes(run[Worker], printed) \/ Ends(run[Worker], printed)

JobsInOrder ==
  \A j \in Job :
    /\ job[j] = Free \/ (job[j].state # "free" /\ job[j].print \in Prints)
    /\ job[j].state = "printing" => j = hand /\ run[Worker] # Idle

\* ArtefactsStay and NoStrays, without what Apart says of two threads.
Kept ==
  /\ \A a \in Actor : Names(run[a]) \subseteq root
  /\ root \subseteq litter \cup UNION {Names(run[a]) : a \in Actor}

IInv ==
  /\ TypeOK /\ Apart /\ Kept
  /\ RequestsInOrder /\ WorkerInOrder /\ JobsInOrder

-----------------------------------------------------------------------------
(* Page selections and pipelines.                                          *)

\* However a selection is put together, it names pages of the document, finitely
\* many of them.
LEMMA PagesSelected ==
  ASSUME NEW spec \in Specs
  PROVE  /\ Selected(spec) \subseteq 1..Total /\ IsFiniteSet(Selected(spec))
         /\ Cardinality(Selected(spec)) \in Nat
         /\ Cardinality(Selected(spec)) = 0 <=> Selected(spec) = {}
  <1>1. ParsePageRange(spec) \subseteq 1..Total
    <2>1. ASSUME NEW i \in DOMAIN spec, spec[i] # <<>>, Readable(spec[i])
          PROVE  spec[i][1]..spec[i][2] \subseteq 1..Total
      <3>1. spec[i] \in Int \X Int /\ Total \in Nat
        BY <2>1, FilesAssumption DEF FilesAssumption
      <3>2. spec[i][1] \in Int /\ spec[i][2] \in Int
        BY <3>1
      <3> QED
        BY <2>1, <3>1, <3>2 DEF Readable
    <2> QED
      BY <2>1 DEF ParsePageRange
  <1>2. Selected(spec) \subseteq 1..Total
    BY <1>1 DEF Selected
  <1>3. IsFiniteSet(1..Total)
    BY FS_Interval, FilesAssumption DEF FilesAssumption
  <1>4. IsFiniteSet(Selected(spec))
    BY <1>2, <1>3, FS_Subset
  <1> QED
    BY <1>2, <1>4, FS_CardinalityType, FS_EmptySet

\* How many numbers of a finite set lie below one of them: each count from 0 up
\* belongs to exactly one, and grows with it.
LEMMA CountsBelow ==
  ASSUME NEW S \in SUBSET Int, IsFiniteSet(S)
  PROVE  LET below(p) == Cardinality({q \in S : q < p})
         IN  /\ Cardinality(S) \in Nat
             /\ \A p \in S : below(p) \in 0..Cardinality(S) - 1
             /\ \A i \in 1..Cardinality(S) : \E p \in S : below(p) = i - 1
             /\ \A p, r \in S : p < r => below(p) < below(r)
  <1> DEFINE Below(p) == {q \in S : q < p}
             below(p) == Cardinality(Below(p))
             f == [p \in S |-> below(p)]
             size == Cardinality(S)
  <1>1. size \in Nat
    BY FS_CardinalityType
  <1>2. \A p \in S : IsFiniteSet(Below(p)) /\ below(p) \in Nat
    BY FS_Subset, FS_CardinalityType
  <1>3. ASSUME NEW p \in S, NEW T, T \subseteq S, Below(p) \cup {p} \subseteq T
        PROVE  below(p) < Cardinality(T)
    <2>1. IsFiniteSet(T) /\ Cardinality(T) \in Nat
      BY <1>3, FS_Subset, FS_CardinalityType
    <2>2. p \notin Below(p)
      OBVIOUS
    <2>3. Cardinality(Below(p) \cup {p}) = below(p) + 1
      BY <1>2, <2>2, FS_AddElement
    <2>4. Cardinality(Below(p) \cup {p}) <= Cardinality(T)
      BY <1>3, <2>1, FS_Subset
    <2> QED
      BY <1>2, <2>1, <2>3, <2>4
  <1>4. \A p \in S : below(p) < size
    BY <1>3
  <1>5. ASSUME NEW p \in S, NEW r \in S, p < r PROVE below(p) < below(r)
    <2>1. \A q \in S : q < p => q < r
      <3> SUFFICES ASSUME NEW q \in S, q < p PROVE q < r
        OBVIOUS
      <3>1. p \in Int /\ q \in Int /\ r \in Int
        OBVIOUS
      <3> QED
        BY <1>5, <3>1
    <2>2. Below(p) \cup {p} \subseteq Below(r) /\ Below(r) \subseteq S
      BY <1>5, <2>1
    <2> QED
      BY <1>3, <2>2
  <1> HIDE DEF Below, below
  <1>6. \A p \in S : below(p) \in 0..size - 1
    BY <1>1, <1>2, <1>4
  <1>7. \A p, r \in S : below(p) = below(r) => p = r
    <2> SUFFICES ASSUME NEW p \in S, NEW r \in S, p # r PROVE below(p) # below(r)
      OBVIOUS
    <2>1. p < r \/ r < p
      OBVIOUS
    <2> QED
      BY <1>2, <1>5, <2>1
  <1>8. f \in Injection(S, 0..size - 1)
    BY <1>6, <1>7 DEF Injection, IsInjective
  <1>9. IsFiniteSet(0..size - 1) /\ Cardinality(0..size - 1) = size
    BY <1>1, FS_Interval
  <1>10. f \in Surjection(S, 0..size - 1)
    <2> HIDE DEF f
    <2> QED
      BY <1>8, <1>9, FS_Injection
  <1>11. ASSUME NEW i \in 1..size PROVE \E p \in S : below(p) = i - 1
    <2>1. i - 1 \in 0..size - 1
      BY <1>1
    <2>2. PICK p \in S : f[p] = i - 1
      BY <1>10, <2>1 DEF Surjection
    <2> QED
      BY <2>2
  <1> QED
    BY <1>1, <1>5, <1>6, <1>11 DEF below, Below

\* A document is put out as its selected pages, each once and in ascending order,
\* whatever the order and the repetitions of the selection.
THEOREM PagesInOrder ==
  ASSUME NEW spec \in Specs, NEW rotate \in Rotations
  PROVE  LET pages == PrintPdf(rotate, spec).labels
         IN  /\ {pages[i] : i \in DOMAIN pages} = Selected(spec)
             /\ \A i, k \in DOMAIN pages : i < k => pages[i] < pages[k]
  <1> DEFINE S == Selected(spec)
             below(p) == Cardinality({q \in S : q < p})
             pages == Ascending(S)
  <1>1. S \in SUBSET Int /\ IsFiniteSet(S)
    BY PagesSelected, FilesAssumption DEF FilesAssumption
  <1>2. /\ Cardinality(S) \in Nat
        /\ \A p \in S : below(p) \in 0..Cardinality(S) - 1
        /\ \A i \in 1..Cardinality(S) : \E p \in S : below(p) = i - 1
        /\ \A p, r \in S : p < r => below(p) < below(r)
    <2> HIDE DEF S
    <2> QED
      BY <1>1, CountsBelow
  <1>3. /\ DOMAIN pages = 1..Cardinality(S)
        /\ \A i \in 1..Cardinality(S) : pages[i] = CHOOSE p \in S : below(p) = i - 1
    BY DEF Ascending
  <1> HIDE DEF S, below, pages
  <1>4. \A i \in DOMAIN pages : pages[i] \in S /\ below(pages[i]) = i - 1
    BY <1>2, <1>3
  <1>5. \A i, k \in DOMAIN pages : i < k => pages[i] < pages[k]
    <2> SUFFICES ASSUME NEW i \in DOMAIN pages, NEW k \in DOMAIN pages, i < k
                 PROVE  pages[i] < pages[k]
      OBVIOUS
    <2>1. i \in Int /\ k \in Int
      BY <1>2, <1>3
    <2>2. pages[i] \in Int /\ pages[k] \in Int
      BY <1>1, <1>4
    <2>4. below(pages[i]) < below(pages[k])
      BY <1>4, <2>1
    <2>3. ~(pages[k] < pages[i]) /\ pages[k] # pages[i]
      <3>1. \A m \in Int : ~(m < m)
        OBVIOUS
      <3>2. pages[k] < pages[i] => below(pages[k]) < below(pages[i])
        BY <1>2, <1>4
      <3> QED
        BY <1>4, <2>1, <2>4, <3>1, <3>2
    <2> QED
      BY <2>2, <2>3
  <1>6. \A p \in S : \E i \in DOMAIN pages : pages[i] = p
    <2> SUFFICES ASSUME NEW p \in S PROVE \E i \in DOMAIN pages : pages[i] = p
      OBVIOUS
    <2>1. below(p) + 1 \in DOMAIN pages /\ below(p) \in Int
      BY <1>2, <1>3
    <2>2. below(pages[below(p) + 1]) = below(p) /\ pages[below(p) + 1] \in S
      BY <1>4, <2>1
    <2>3. pages[below(p) + 1] = p
      <3>1. p \in Int /\ pages[below(p) + 1] \in Int
        BY <1>1, <2>2
      <3> QED
        BY <1>2, <2>1, <2>2, <3>1
    <2> QED
      BY <2>1, <2>3
  <1>7. PrintPdf(rotate, spec).labels = pages
    BY DEF PrintPdf, Puts, pages, S
  <1>8. {pages[i] : i \in DOMAIN pages} = S
    BY <1>4, <1>6
  <1> QED
    BY <1>5, <1>7, <1>8 DEF S

\* No print rasterises more pages than the limit allows, or pages the document
\* does not have: such a selection is refused as a whole.
THEOREM SelectionIsLimited ==
  ASSUME NEW spec \in Specs
  PROVE  /\ Selected(spec) \subseteq 1..Total
         /\ MaxPages # 0 => Cardinality(Selected(spec)) <= MaxPages
  <1>1. ASSUME MaxPages # 0 PROVE Cardinality(Selected(spec)) <= MaxPages
    <2>1. CASE Cardinality(ParsePageRange(spec)) > MaxPages
      <3>1. Selected(spec) = {}
        BY <1>1, <2>1 DEF Selected
      <3> QED
        BY <3>1, FS_EmptySet, FilesAssumption DEF FilesAssumption
    <2>2. CASE ~ Cardinality(ParsePageRange(spec)) > MaxPages
      <3>1. Selected(spec) = ParsePageRange(spec)
        BY <2>2 DEF Selected
      <3> QED
        BY <2>2, <3>1, PagesSelected, FilesAssumption DEF FilesAssumption
    <2> QED
      BY <2>1, <2>2
  <1> QED
    BY <1>1, PagesSelected

\* The stages of a further label end in its write.
LEMMA SendEnds ==
  /\ EndsInSend(<<"send">>)
  /\ EndsInSend(<<"resize", "send">>)
  /\ EndsInSend(<<"create", "send">>)
  BY DEF EndsInSend, Making

\* Stages put before a list that ends in a write leave it one that does.
LEMMA SendStillEnds ==
  ASSUME NEW s \in Seq(Making), NEW t, EndsInSend(t)
  PROVE  EndsInSend(s \o t)
  BY DEF EndsInSend

\* No stage, and one stage alone, are lists of stages.
LEMMA ShortStages ==
  /\ <<>> \in Seq(Making)
  /\ \A stage \in Making : <<stage>> \in Seq(Making)
  OBVIOUS

\* Turning a label is a stage of making it, or none.
LEMMA Turning == \A rotate \in Rotations : Turned(rotate) \in Seq(Making)
  <1>1. "rotate" \in Making
    BY DEF Making
  <1> QED
    BY <1>1, ShortStages DEF Turned

\* A print whose stages end in a write, as long as there is a label to write.
LEMMA PutsInOrder ==
  ASSUME NEW setup \in {<<>>, <<"render">>, <<"refuse">>}, NEW page, EndsInSend(page),
         NEW labels, Len(labels) \in Nat, 0 < Len(labels) \/ setup = <<"refuse">>
  PROVE  LET print == Puts(setup, page, labels)
         IN  /\ EndsInSend(print.first) /\ EndsInSend(print.page)
             /\ Len(print.labels) \in Nat
             /\ print.first[1] = "refuse" \/ 0 < Len(print.labels)
  <1>1. setup \in Seq(Making)
    <2>1. "render" \in Making /\ "refuse" \in Making
      BY DEF Making
    <2> QED
      BY <2>1, ShortStages
  <1>2. EndsInSend(setup \o page)
    BY <1>1, SendStillEnds
  <1>3. setup = <<"refuse">> => (setup \o page)[1] = "refuse"
    BY DEF EndsInSend
  <1> QED
    BY <1>2, <1>3 DEF Puts

\* What each pipeline puts out: its stages end in a write, and there is a label
\* to write unless it refuses.
LEMMA PrintsEndInSend ==
  ASSUME NEW print \in Prints
  PROVE  /\ EndsInSend(print.first) /\ EndsInSend(print.page)
         /\ Len(print.labels) \in Nat
         /\ print.first[1] = "refuse" \/ 0 < Len(print.labels)
  <1> DEFINE Ordered(p) == /\ EndsInSend(p.first) /\ EndsInSend(p.page)
                           /\ Len(p.labels) \in Nat
                           /\ p.first[1] = "refuse" \/ 0 < Len(p.labels)
  <1>1. ASSUME NEW rotate \in Rotations, NEW made \in {"create", "compose", "page"}
        PROVE  /\ <<made>> \in Seq(Making)
               /\ <<made>> \o Turned(rotate) \in Seq(Making)
               /\ Turned(rotate) \in Seq(Making)
    BY Turning DEF Making
  <1>2. Len(<<1>>) = 1
    OBVIOUS
  <1>3. ASSUME NEW rotate \in Rotations, NEW made \in {"create", "compose"}
        PROVE  Ordered(Puts(<<>>, <<made>> \o Turned(rotate) \o <<"send">>, <<1>>))
    <2>1. EndsInSend(<<made>> \o Turned(rotate) \o <<"send">>)
      BY <1>1, SendEnds, SendStillEnds
    <2> QED
      BY <1>2, <2>1, PutsInOrder
  <1>4. \A rotate \in Rotations :
          Ordered(PrintText(rotate)) /\ Ordered(PrintQrCode(rotate))
            /\ Ordered(PrintTextImage(rotate))
    BY <1>3 DEF PrintText, PrintQrCode, PrintTextImage
  <1>5. ASSUME NEW rotate \in Rotations PROVE Ordered(PrintImage(rotate))
    <2>1. EndsInSend(Turned(rotate) \o <<"resize", "send">>)
      BY <1>1, SendEnds, SendStillEnds
    <2> QED
      BY <1>2, <2>1, PutsInOrder DEF PrintImage
  <1>6. ASSUME NEW rotate \in Rotations, NEW spec \in Specs
        PROVE  Ordered(PrintPdf(rotate, spec))
    <2> DEFINE setup == IF Selected(spec) = {} THEN <<"refuse">> ELSE <<"render">>
               pages == Ascending(Selected(spec))
    <2>1. EndsInSend(<<"page">> \o Turned(rotate) \o <<"resize", "send">>)
      BY <1>1, SendEnds, SendStillEnds
    <2>2. Len(pages) = Cardinality(Selected(spec))
      BY PagesSelected DEF Ascending
    <2>3. Len(pages) \in Nat /\ (0 < Len(pages) \/ setup = <<"refuse">>)
      BY <2>2, PagesSelected
    <2>4. setup \in {<<>>, <<"render">>, <<"refuse">>}
      OBVIOUS
    <2> HIDE DEF setup, pages
    <2>5. Ordered(Puts(setup, <<"page">> \o Turned(rotate) \o <<"resize", "send">>, pages))
      BY <2>1, <2>3, <2>4, PutsInOrder
    <2> QED
      BY <2>5 DEF PrintPdf, setup, pages
  <1>7. ASSUME NEW n \in Sweeps PROVE Ordered(PrintCalibration(n))
    <2>1. n \in Nat \ {0}
      BY FilesAssumption DEF FilesAssumption
    <2>2. Len([i \in 1..n |-> i]) = n
      BY <2>1
    <2> QED
      BY <2>1, <2>2, SendEnds, PutsInOrder DEF PrintCalibration
  <1> QED
    BY <1>4, <1>5, <1>6, <1>7 DEF Prints

-----------------------------------------------------------------------------
(* What every step of a thread comes down to.                              *)

\* An idle thread tracks nothing, knows no uuid and has nothing ahead.
LEMMA IdleFacts ==
  /\ Idle \in Running /\ Idle.todo = <<>> /\ Idle.after = <<>> /\ Idle.of = Nothing
  /\ Names(Idle) = {} /\ Tokens(Idle) = {} /\ Follows(Idle)
  BY DEF Idle, Running, Names, Tokens, Follows

\* The worker is a thread of its own.
LEMMA WorkerIsNoRequest == Worker \in Actor /\ Request \subseteq Actor /\ Worker \notin Request
  BY FilesAssumption DEF FilesAssumption, Actor

\* A new uuid is nobody's.
LEMMA FreshFacts ==
  ASSUME TypeOK, Kept, NEW t \in Fresh
  PROVE  /\ t \in Token /\ t # Nothing /\ Bare(t) \in Name /\ Bare(t) \notin root
         /\ t \notin DOMAIN stored \cup DOMAIN staged
         /\ \A a \in Actor : t \notin Tokens(run[a])
         /\ \A j \in Job : job[j].of # t
  <1>1. t \in Token /\ t # Nothing /\ Bare(t) \in Name
    BY FilesAssumption DEF FilesAssumption, Fresh, Bare, Name
  <1>2. \A n \in root : n.of # t
    BY DEF Fresh
  <1>3. Bare(t) \notin root
    BY <1>2 DEF Bare
  <1>4. \A a \in Actor : t \notin Tokens(run[a])
    BY <1>2 DEF Fresh, Tokens, Kept
  <1> QED
    BY <1>1, <1>3, <1>4 DEF Fresh

\* The finally clause keeps what it has to clean up, and forgets the rest.
LEMMA FinallyFacts ==
  ASSUME TypeOK, NEW a \in Actor, NEW ok \in BOOLEAN
  PROVE  /\ Finally(a, ok) \in Running
         /\ Tokens(Finally(a, ok)) \subseteq Tokens(run[a])
         /\ Follows(Finally(a, ok))
         /\ run[a].after = <<>> => Finally(a, ok) = Idle
         /\ run[a].after # <<>> =>
              /\ Finally(a, ok).todo = run[a].after /\ Finally(a, ok).after = <<>>
              /\ Finally(a, ok).temps = run[a].temps /\ Finally(a, ok).own = run[a].own
              /\ Finally(a, ok).ok = (ok \/ a # Worker)
  <1>1. CASE run[a].after = <<>>
    <2>1. Finally(a, ok) = Idle
      BY <1>1 DEF Finally
    <2> QED
      BY <1>1, <2>1, IdleFacts
  <1>2. CASE run[a].after # <<>>
    <2> DEFINE x == [Idle EXCEPT !.todo = run[a].after, !.temps = run[a].temps,
                                 !.own = run[a].own, !.ok = ok \/ a # Worker]
    <2>1. Finally(a, ok) = x
      BY <1>2 DEF Finally
    <2>2. run[a] \in Running
      BY DEF TypeOK
    <2>3. /\ x \in Running /\ x.todo = run[a].after /\ x.after = <<>>
          /\ x.temps = run[a].temps /\ x.own = run[a].own /\ x.of = Nothing
          /\ x.ok = (ok \/ a # Worker)
      <3>1. (ok \/ a # Worker) \in BOOLEAN
        OBVIOUS
      <3>2. x \in Running
        BY <2>2, <3>1, IdleFacts DEF Running
      <3>3. /\ x.todo = run[a].after /\ x.after = <<>> /\ x.temps = run[a].temps
            /\ x.own = run[a].own /\ x.of = Nothing
        BY DEF Idle
      <3>4. x.ok = (ok \/ a # Worker)
        BY Zenon DEF Idle
      <3> QED
        BY <3>2, <3>3, <3>4
    <2>4. Tokens(x) \subseteq Tokens(run[a]) /\ Follows(x)
      BY <2>3 DEF Tokens, Names, Follows
    <2> QED
      BY <1>2, <2>1, <2>3, <2>4
  <1> QED
    BY <1>1, <1>2

\* A thread goes on with its own uuids, takes new ones, or is the worker at a job's.
TakesUp(a, x) ==
  \/ Tokens(x) \subseteq Tokens(run[a]) \cup Fresh
  \/ a = Worker /\ \E j \in Job : Tokens(x) \subseteq {job[j].of}

\* A job's upload is one a job had, or one that a request gives up to it.
KnownUploads(a, x) ==
  \A j \in Job :
    \/ job'[j].of = Nothing \/ \E i \in Job : job'[j].of = job[i].of
    \/ a \in Request /\ job'[j].of = run[a].of /\ Tokens(x) = {}

\* A step of one thread that tracks files that are there and removes none but its own.
LEMMA ActorStep ==
  ASSUME IInv, NEW a \in Actor, NEW x \in Running, run' = [run EXCEPT ![a] = x],
         TakesUp(a, x), KnownUploads(a, x), Follows(x), Names(x) \subseteq root',
         root \ root' \subseteq Names(run[a]),
         root' \subseteq root \cup litter' \cup Names(x),
         Names(run[a]) \cap root' \subseteq litter' \cup Names(x),
         (litter \cap root') \ litter' \subseteq Names(x)
  PROVE  run' \in [Actor -> Running] /\ Apart' /\ Kept'
  <1>1. run \in [Actor -> Running] /\ root \subseteq Name
    BY DEF IInv, TypeOK
  <1>2. run' \in [Actor -> Running] /\ run'[a] = x
        /\ \A b \in Actor : b # a => run'[b] = run[b]
    BY <1>1
  <1>3. \A b \in Actor : \A n \in Names(run[b]) : n.of \in Tokens(run[b])
    <2>1. \A b \in Actor : \A n \in Names(run[b]) : n \in Name
      BY <1>1 DEF IInv, Kept
    <2>2. \A n \in Name : n.of # Nothing
      BY FilesAssumption DEF FilesAssumption, Name
    <2> QED
      BY <2>1, <2>2 DEF Tokens
  <1>4. ASSUME NEW b \in Actor, b # a PROVE Tokens(x) \cap Tokens(run[b]) = {}
    <2>1. CASE Tokens(x) \subseteq Tokens(run[a]) \cup Fresh
      BY <1>4, <2>1, FreshFacts DEF IInv, Apart
    <2>2. CASE a = Worker /\ \E j \in Job : Tokens(x) \subseteq {job[j].of}
      <3>1. b \in Request
        BY <1>4, <2>2 DEF Actor
      <3> QED
        BY <2>2, <3>1 DEF IInv, Apart
    <2> QED
      BY <2>1, <2>2 DEF TakesUp
  <1>5. Apart'
    <2>1. \A b, c \in Actor : b # c => Tokens(run'[b]) \cap Tokens(run'[c]) = {}
      BY <1>2, <1>4 DEF IInv, Apart
    <2>2. \A r \in Request, j \in Job : job'[j].of \notin Tokens(run'[r])
      <3>1. ASSUME NEW r \in Request, NEW j \in Job PROVE job[j].of \notin Tokens(run'[r])
        <4>1. CASE r = a
          BY <1>2, <4>1, FreshFacts, WorkerIsNoRequest DEF IInv, Apart, TakesUp
        <4>2. CASE r # a
          BY <1>2, <4>2, WorkerIsNoRequest DEF IInv, Apart
        <4> QED
          BY <4>1, <4>2
      <3>2. \A r \in Request : Nothing \notin Tokens(run'[r])
        BY DEF Tokens
      <3>3. ASSUME NEW r \in Request, a \in Request, Tokens(x) = {}
            PROVE  run[a].of \notin Tokens(run'[r])
        <4>1. CASE r = a
          BY <1>2, <3>3, <4>1
        <4>2. CASE r # a
          <5>1. run[a].of = Nothing \/ run[a].of \in Tokens(run[a])
            BY DEF Tokens
          <5> QED
            BY <1>2, <3>2, <4>2, <5>1, WorkerIsNoRequest DEF IInv, Apart
        <4> QED
          BY <4>1, <4>2
      <3> QED
        BY <3>1, <3>2, <3>3 DEF KnownUploads
    <2>3. \A b \in Actor : Follows(run'[b])
      BY <1>2 DEF IInv, Apart
    <2> QED
      BY <2>1, <2>2, <2>3 DEF Apart
  <1>6. Kept'
    <2>1. ASSUME NEW b \in Actor, b # a PROVE Names(run[b]) \subseteq root'
      <3>1. Names(run[b]) \cap Names(run[a]) = {}
        BY <1>3, <2>1 DEF IInv, Apart
      <3> QED
        BY <2>1, <3>1 DEF IInv, Kept
    <2>2. \A b \in Actor : Names(run'[b]) \subseteq root'
      BY <1>2, <2>1
    <2>3. ASSUME NEW n \in root'
          PROVE  n \in litter' \/ \E b \in Actor : n \in Names(run'[b])
      BY <1>2, <2>3 DEF IInv, Kept
    <2> QED
      BY <2>2, <2>3 DEF Kept
  <1> QED
    BY <1>2, <1>5, <1>6

\* A folder after a write, a sweep, a deletion or a tick is a folder.
Folder(ttl) == UNION {[S -> 0..ttl + 1] : S \in SUBSET Token}

\* Writing, sweeping, ageing and deleting leave a folder with ages in range.
LEMMA FolderFacts ==
  ASSUME NEW ttl \in Nat, NEW folder \in Folder(ttl)
  PROVE  /\ \A t \in Token : Written(folder, t) \in Folder(ttl)
         /\ Swept(folder, ttl) \in Folder(ttl) /\ Older(folder, ttl) \in Folder(ttl)
         /\ \A S \in SUBSET DOMAIN folder : Restrict(folder, S) \in Folder(ttl)
  <1>1. PICK S \in SUBSET Token : folder \in [S -> 0..ttl + 1]
    BY DEF Folder
  <1>2. ASSUME NEW t \in Token PROVE Written(folder, t) \in Folder(ttl)
    <2>1. Written(folder, t) \in [S \cup {t} -> 0..ttl + 1]
      BY <1>1 DEF Written
    <2> QED
      BY <2>1 DEF Folder
  <1>3. ASSUME NEW T \in SUBSET DOMAIN folder PROVE Restrict(folder, T) \in Folder(ttl)
    <2>1. Restrict(folder, T) \in [T -> 0..ttl + 1] /\ T \in SUBSET Token
      BY <1>1 DEF Restrict
    <2> QED
      BY <2>1 DEF Folder
  <1>4. Swept(folder, ttl) \in Folder(ttl)
    BY <1>3 DEF Swept
  <1>5. Older(folder, ttl) \in Folder(ttl)
    <2>1. Older(folder, ttl) \in [S -> 0..ttl + 1]
      BY <1>1 DEF Older
    <2> QED
      BY <2>1 DEF Folder
  <1> QED
    BY <1>2, <1>3, <1>4, <1>5

\* Both folders have a time to live.
LEMMA Ttls ==
  /\ Ttl \in Nat /\ ShareTtl \in Nat
  /\ TypeOK => stored \in Folder(Ttl) /\ staged \in Folder(ShareTtl)
  BY FilesAssumption DEF FilesAssumption, TypeOK, Folder

\* On to the next stage, or into the finally clause.
LEMMA WentFacts ==
  ASSUME TypeOK, NEW a \in Actor, run[a].todo # <<>>
  PROVE  /\ Went(a) \in Running
         /\ Tokens(Went(a)) \subseteq Tokens(run[a])
         /\ Follows(run[a]) => Follows(Went(a))
         /\ Len(run[a].todo) > 1 =>
              /\ Went(a).todo = Tail(run[a].todo) /\ Went(a).after = run[a].after
              /\ Went(a).print = run[a].print /\ Went(a).of = run[a].of
              /\ Went(a).cur = run[a].cur /\ Went(a).temps = run[a].temps
              /\ Went(a).own = run[a].own /\ Went(a).ok = run[a].ok
              /\ Went(a).sent = run[a].sent
         /\ ~ Len(run[a].todo) > 1 => Went(a) = Finally(a, TRUE)
  <1>1. CASE Len(run[a].todo) > 1
    <2> DEFINE x == [run[a] EXCEPT !.todo = Tail(@)]
    <2>1. Went(a) = x
      BY <1>1 DEF Went
    <2>2. run[a] \in Running
      BY DEF TypeOK
    <2>3. /\ x \in Running /\ x.todo = Tail(run[a].todo) /\ x.after = run[a].after
          /\ x.print = run[a].print /\ x.of = run[a].of
          /\ x.cur = run[a].cur /\ x.temps = run[a].temps
          /\ x.own = run[a].own /\ x.ok = run[a].ok /\ x.sent = run[a].sent
      <3>1. run[a].todo \in Seq(Stages) /\ run[a].todo # <<>>
        BY <2>2 DEF Running
      <3>a. Tail(run[a].todo) \in Seq(Stages)
        BY <3>1, HeadTailProperties
      <3>2. x \in Running
        BY <2>2, <3>a DEF Running
      <3> QED
        BY <2>2, <3>2 DEF Running
    <2>4. Tokens(x) = Tokens(run[a]) /\ (Follows(run[a]) => Follows(x))
      BY <2>3 DEF Tokens, Names, Follows
    <2> QED
      BY <1>1, <2>1, <2>3, <2>4
  <1>2. CASE ~ Len(run[a].todo) > 1
    BY <1>2, FinallyFacts DEF Went
  <1> QED
    BY <1>1, <1>2

\* A step of a request that leaves the queue and the worker alone.
LEMMA RequestStep ==
  ASSUME IInv, NEW r \in Request, NEW x \in Running, run' = [run EXCEPT ![r] = x],
         UNCHANGED <<job, worker, printed>>,
         root' \subseteq Name, litter' \subseteq Name,
         stored' \in Folder(Ttl), staged' \in Folder(ShareTtl),
         InPlace(x), Tokens(x) \subseteq Tokens(run[r]) \cup Fresh, Follows(x),
         Names(x) \subseteq root', root \ root' \subseteq Names(run[r]),
         root' \subseteq root \cup litter' \cup Names(x),
         Names(run[r]) \cap root' \subseteq litter' \cup Names(x),
         (litter \cap root') \ litter' \subseteq Names(x)
  PROVE  IInv'
  <1>1. r \in Actor /\ r # Worker
    BY WorkerIsNoRequest
  <1>2. run' \in [Actor -> Running] /\ Apart' /\ Kept'
    <2>1. KnownUploads(r, x)
      BY DEF KnownUploads
    <2>2. TakesUp(r, x)
      BY DEF TakesUp
    <2> QED
      BY <1>1, <2>1, <2>2, ActorStep
  <1>3. \A b \in Actor : b # r => run'[b] = run[b]
    BY <1>1 DEF IInv, TypeOK
  <1>4. run'[r] = x
    BY <1>1 DEF IInv, TypeOK
  <1>5. TypeOK'
    BY <1>2 DEF IInv, TypeOK, Folder, worker
  <1>6. RequestsInOrder'
    BY <1>3, <1>4, WorkerIsNoRequest DEF IInv, RequestsInOrder
  <1>7. run'[Worker] = run[Worker]
    BY <1>1, <1>3, WorkerIsNoRequest
  <1>8. WorkerInOrder' /\ JobsInOrder'
    BY <1>7 DEF IInv, WorkerInOrder, JobsInOrder, Makes, Ends, Labels, worker
  <1> QED
    BY <1>2, <1>5, <1>6, <1>8 DEF IInv

\* A request that goes on, or into its finally clause, is in place.
LEMMA RequestGoesOn ==
  ASSUME IInv, NEW r \in Request, run[r].todo # <<>>
  PROVE  /\ At(r, {"save", "check", "submit"}) <=> Submits(run[r])
         /\ At(r, {"sweepShares", "stage"}) <=> Shares(run[r])
         /\ At(r, {"borrow"}) <=> Uploads(run[r])
         /\ At(r, {"create", "rotate", "resize"}) => Draws(run[r]) \/ Converts(run[r])
         /\ At(r, {"cleanup", "discard"}) <=> Clears(run[r])
         /\ ~ At(r, {"compose", "page", "render", "refuse", "send", "outcome"})
  <1> DEFINE x == run[r]
  <1>1. InPlace(x) /\ x # Idle /\ x.todo # <<>>
    BY IdleFacts DEF IInv, RequestsInOrder
  <1>2. Submits(x) => Head(x.todo) \in {"save", "check", "submit"}
    BY DEF Submits
  <1>3. Shares(x) => Head(x.todo) \in {"sweepShares", "stage"}
    BY DEF Shares
  <1>4. Draws(x) => Head(x.todo) \in {"create", "rotate"}
    <2> SUFFICES ASSUME Draws(x) PROVE Head(x.todo) \in {"create", "rotate"}
      OBVIOUS
    <2>1. x.todo \in Seq({"create", "rotate"})
      BY DEF Draws
    <2> QED
      BY <1>1, <2>1, HeadTailProperties
  <1>5. Uploads(x) => Head(x.todo) = "borrow"
    BY DEF Uploads
  <1>6. Converts(x) => Head(x.todo) \in {"rotate", "resize"}
    <2> SUFFICES ASSUME Converts(x) PROVE Head(x.todo) \in {"rotate", "resize"}
      OBVIOUS
    <2>1. x.todo \in Seq({"rotate", "resize"})
      BY DEF Converts
    <2> QED
      BY <1>1, <2>1, HeadTailProperties
  <1>7. Clears(x) => Head(x.todo) \in {"cleanup", "discard"}
    BY DEF Clears
  <1> HIDE DEF x
  <1>8. \A stages : At(r, stages) <=> Head(x.todo) \in stages
    BY <1>1 DEF At, x
  <1> QED
    BY <1>1, <1>2, <1>3, <1>4, <1>5, <1>6, <1>7, <1>8 DEF InPlace, x

\* Whatever it was at, a request that raises is left with its finally clause.
LEMMA RequestRaises ==
  ASSUME IInv, NEW r \in Request, NEW ok \in BOOLEAN
  PROVE  InPlace(Finally(r, ok))
  <1> DEFINE x == run[r]
             y == Finally(r, ok)
  <1>1. r \in Actor /\ InPlace(x) /\ TypeOK
    BY WorkerIsNoRequest DEF IInv, RequestsInOrder
  <1>2. /\ x.after = <<>> => y = Idle
        /\ x.after # <<>> => /\ y.todo = x.after /\ y.after = <<>>
                             /\ y.temps = x.temps /\ y.own = x.own
    BY <1>1, FinallyFacts
  <1> HIDE DEF x, y
  <1>3. x.after = <<>> => InPlace(y)
    BY <1>2 DEF InPlace
  <1>4. Draws(x) => Clears(y)
    BY <1>2 DEF Draws, Clears
  <1>5. Uploads(x) => Clears(y)
    BY <1>2 DEF Uploads, Clears, Names, Longer
  <1>6. Converts(x) => Clears(y)
    BY <1>2 DEF Converts, Clears, Longer
  <1>7. x = Idle \/ Submits(x) \/ Shares(x) \/ Clears(x) => x.after = <<>>
    BY IdleFacts DEF Submits, Shares, Clears
  <1> QED
    BY <1>1, <1>3, <1>4, <1>5, <1>6, <1>7 DEF InPlace, y

\* The stages of the fixed lists, one after the other.
LEMMA TwoStages ==
  ASSUME NEW s, NEW t
  PROVE  /\ Head(<<s, t>>) = s /\ Tail(<<s, t>>) = <<t>> /\ Len(<<s, t>>) = 2
         /\ Head(<<s>>) = s /\ Len(<<s>>) = 1 /\ Tail(<<s>>) = <<>>
  OBVIOUS

\* Head and tail of three stages.
LEMMA ThreeStages ==
  ASSUME NEW s, NEW t, NEW u
  PROVE  Head(<<s, t, u>>) = s /\ Tail(<<s, t, u>>) = <<t, u>> /\ Len(<<s, t, u>>) = 3
  OBVIOUS

\* What is ahead of a request that saves and submits an upload.
LEMMA SubmitStages ==
  ASSUME NEW x, Submits(x)
  PROVE  /\ Head(x.todo) = "save" =>
              Len(x.todo) > 1 /\ Tail(x.todo) \in {<<"check", "submit">>, <<"submit">>}
         /\ Head(x.todo) = "check" => Len(x.todo) > 1 /\ Tail(x.todo) = <<"submit">>
  <1>1. CASE x.todo = <<"save", "check", "submit">>
    <2>1. /\ Head(x.todo) = "save" /\ Tail(x.todo) = <<"check", "submit">>
          /\ Len(x.todo) = 3
      BY <1>1, ThreeStages
    <2> QED
      BY <2>1
  <1>2. ASSUME NEW s, x.todo = <<s, "submit">>
        PROVE  Head(x.todo) = s /\ Tail(x.todo) = <<"submit">> /\ Len(x.todo) = 2
    BY <1>2, TwoStages
  <1>3. CASE x.todo = <<"submit">>
    <2>1. Head(x.todo) = "submit"
      BY <1>3, TwoStages
    <2> QED
      BY <2>1
  <1>4. CASE x.todo = <<"save", "submit">> \/ x.todo = <<"check", "submit">>
    <2>1. PICK s \in {"save", "check"} : x.todo = <<s, "submit">>
      BY <1>4
    <2>2. Head(x.todo) = s /\ Tail(x.todo) = <<"submit">> /\ Len(x.todo) = 2
      BY <2>1, <1>2
    <2>3. Len(x.todo) > 1
      BY <2>2
    <2> QED
      BY <2>2, <2>3
  <1> QED
    BY <1>1, <1>3, <1>4 DEF Submits

\* A step of a request that leaves the upload folder alone.
LEMMA QuietStep ==
  ASSUME IInv, NEW r \in Request, NEW x \in Running, run' = [run EXCEPT ![r] = x],
         UNCHANGED <<root, litter, job, worker, printed>>,
         stored' \in Folder(Ttl), staged' \in Folder(ShareTtl),
         InPlace(x), Tokens(x) \subseteq Tokens(run[r]) \cup Fresh, Follows(x),
         Names(x) = Names(run[r])
  PROVE  IInv'
  <1>1. /\ Names(x) \subseteq root' /\ root \ root' \subseteq Names(run[r])
        /\ root' \subseteq root \cup litter' \cup Names(x)
        /\ Names(run[r]) \cap root' \subseteq litter' \cup Names(x)
        /\ (litter \cap root') \ litter' \subseteq Names(x)
    BY WorkerIsNoRequest DEF IInv, Kept
  <1>2. root' \subseteq Name /\ litter' \subseteq Name
    BY DEF IInv, TypeOK
  <1> QED
    BY <1>1, <1>2, RequestStep

\* An idle thread is where a request may be.
LEMMA IdleNow == Follows(Idle) /\ InPlace(Idle)
  BY IdleFacts DEF InPlace

-----------------------------------------------------------------------------
(* One lemma per action.                                                   *)

\* The upload of a print, written under jobs/ or broken off.
LEMMA SaveKeeps == ASSUME IInv, NEW r \in Request, Save(r) PROVE IInv'
  <1>1. PICK t \in Fresh :
          /\ stored' = Written(stored, t)
          /\ run' \in {[run EXCEPT ![r] = [Went(r) EXCEPT !.of = t]],
                       [run EXCEPT ![r] = Raised(r)]}
    BY DEF Save
  <1>2. TypeOK /\ r \in Actor /\ Kept /\ run[r].todo # <<>> /\ t \in Token /\ t # Nothing
        /\ Follows(run[r])
    BY WorkerIsNoRequest, FreshFacts DEF IInv, Save, At, Apart
  <1>3. stored' \in Folder(Ttl) /\ staged' \in Folder(ShareTtl)
    BY <1>1, <1>2, Ttls, FolderFacts DEF Save
  <1>4. Submits(run[r]) /\ Head(run[r].todo) = "save"
    BY <1>2, RequestGoesOn DEF Save, At
  <1>5. Len(run[r].todo) > 1
        /\ Tail(run[r].todo) \in {<<"check", "submit">>, <<"submit">>}
    BY <1>4, SubmitStages
  <1>6. CASE run' = [run EXCEPT ![r] = [Went(r) EXCEPT !.of = t]]
    <2> DEFINE x == [Went(r) EXCEPT !.of = t]
    <2>1. /\ Went(r) \in Running /\ Went(r).todo = Tail(run[r].todo)
          /\ Went(r).after = <<>> /\ Went(r).print \in Prints
          /\ Went(r).temps = run[r].temps /\ Went(r).own = run[r].own
      BY <1>2, <1>4, <1>5, WentFacts DEF Submits
    <2>2. /\ x \in Running /\ x.todo = Tail(run[r].todo) /\ x.after = <<>>
          /\ x.print \in Prints /\ x.of = t
          /\ x.temps = run[r].temps /\ x.own = run[r].own
      BY <1>2, <2>1 DEF Running
    <2> HIDE DEF x
    <2>3. Names(x) = Names(run[r]) /\ Names(x) = {} /\ Follows(x)
      BY <1>4, <2>2 DEF Names, Submits, Follows
    <2>4. Tokens(x) \subseteq Tokens(run[r]) \cup Fresh
      BY <1>1, <2>2, <2>3 DEF Tokens
    <2>5. InPlace(x)
      BY <1>5, <2>2, <2>3 DEF InPlace, Submits
    <2> QED
      BY <1>3, <1>6, <2>2, <2>3, <2>4, <2>5, QuietStep DEF Save, files, x
  <1>7. CASE run' = [run EXCEPT ![r] = Raised(r)]
    <2>1. Raised(r) = Idle
      BY <1>2, <1>4, FinallyFacts DEF Raised, Submits
    <2>2. Names(run[r]) = Names(Idle)
      BY <1>4, IdleFacts DEF Submits
    <2> QED
      BY <1>3, <1>7, <2>1, <2>2, IdleFacts, IdleNow, QuietStep DEF Save
  <1> QED
    BY <1>1, <1>6, <1>7

\* The upload of a preview, written into the folder or broken off.
LEMMA BorrowKeeps == ASSUME IInv, NEW r \in Request, Borrow(r) PROVE IInv'
  <1>1. PICK t \in Fresh :
          /\ root' = root \cup {Bare(t)}
          /\ \/ /\ run' = [run EXCEPT ![r] = [Went(r) EXCEPT
                             !.of = t, !.cur = Bare(t), !.own = {Bare(t)}]]
                /\ UNCHANGED litter
             \/ /\ run' = [run EXCEPT ![r] = Raised(r)]
                /\ litter' = litter \cup {Bare(t)}
    BY DEF Borrow
  <1>2. TypeOK /\ r \in Actor /\ Kept /\ run[r].todo # <<>> /\ t \in Token /\ t # Nothing
        /\ Bare(t) \in Name /\ run[r] \in Running
    BY WorkerIsNoRequest, FreshFacts DEF IInv, Borrow, At, TypeOK
  <1>3. stored' \in Folder(Ttl) /\ staged' \in Folder(ShareTtl)
        /\ root' \subseteq Name /\ litter' \subseteq Name /\ UNCHANGED <<job, worker, printed>>
    BY <1>1, <1>2, Ttls DEF Borrow, TypeOK
  <1>4. Uploads(run[r])
    BY <1>2, RequestGoesOn DEF Borrow
  <1>5. /\ run[r].temps = {} /\ run[r].own = {} /\ run[r].after # <<>>
        /\ Names(run[r]) = {} /\ Len(run[r].todo) \in Nat
    BY <1>2, <1>4 DEF Uploads, Names, Running
  <1>6. /\ Finally(r, TRUE).todo = run[r].after /\ Finally(r, TRUE).after = <<>>
        /\ Finally(r, TRUE).temps = {} /\ Finally(r, TRUE).own = {}
        /\ Finally(r, FALSE).temps = {} /\ Finally(r, FALSE).own = {}
    BY <1>2, <1>5, FinallyFacts
  <1>7. CASE run' = [run EXCEPT ![r] = [Went(r) EXCEPT
                       !.of = t, !.cur = Bare(t), !.own = {Bare(t)}]]
             /\ UNCHANGED litter
    <2> DEFINE w == Went(r)
               x == [w EXCEPT !.of = t, !.cur = Bare(t), !.own = {Bare(t)}]
    <2>1. /\ w \in Running /\ w.temps = {}
          /\ \/ /\ Len(run[r].todo) > 1
                /\ w.todo = Tail(run[r].todo) /\ w.after = run[r].after
             \/ w.todo = run[r].after /\ w.after = <<>>
      BY <1>2, <1>5, <1>6, WentFacts
    <2> HIDE DEF w
    <2>2. /\ x \in Running /\ x.todo = w.todo /\ x.after = w.after /\ x.temps = {}
          /\ x.of = t /\ x.cur = Bare(t) /\ x.own = {Bare(t)}
      BY <1>2, <2>1 DEF Running
    <2> HIDE DEF x
    <2>3. Names(x) = {Bare(t)} /\ Tokens(x) \subseteq Fresh /\ Follows(x) /\ Longer(x)
      BY <1>1, <1>2, <2>2 DEF Names, Tokens, Follows, Longer, Bare
    <2>4. InPlace(x)
      <3>1. CASE Len(run[r].todo) > 1 /\ x.todo = Tail(run[r].todo) /\ x.after = run[r].after
        BY <1>4, <2>3, <3>1 DEF Uploads, Converts, InPlace
      <3>2. CASE x.todo = run[r].after /\ x.after = <<>>
        BY <1>4, <2>2, <2>3, <3>2 DEF Uploads, Clears, InPlace
      <3> QED
        BY <2>1, <2>2, <3>1, <3>2
    <2> QED
      BY <1>1, <1>3, <1>5, <1>7, <2>2, <2>3, <2>4, RequestStep DEF x, w
  <1>8. CASE run' = [run EXCEPT ![r] = Raised(r)] /\ litter' = litter \cup {Bare(t)}
    <2>1. Names(Raised(r)) = {}
      BY <1>6 DEF Names, Raised
    <2>2. Raised(r) \in Running /\ Tokens(Raised(r)) \subseteq Tokens(run[r])
          /\ Follows(Raised(r)) /\ InPlace(Raised(r))
      BY <1>2, FinallyFacts, RequestRaises DEF Raised
    <2> QED
      BY <1>1, <1>3, <1>5, <1>8, <2>1, <2>2, RequestStep
  <1> QED
    BY <1>1, <1>7, <1>8

\* The check of an upload, which lets it pass or deletes it.
LEMMA CheckKeeps == ASSUME IInv, NEW r \in Request, Check(r) PROVE IInv'
  <1>1. TypeOK /\ r \in Actor /\ run[r].todo # <<>> /\ Follows(run[r])
    BY WorkerIsNoRequest DEF IInv, Check, At, Apart
  <1>2. stored' \in Folder(Ttl) /\ staged' \in Folder(ShareTtl)
        /\ UNCHANGED <<root, litter, job, worker, printed>>
    <2>1. DOMAIN stored \ {run[r].of} \in SUBSET DOMAIN stored
      OBVIOUS
    <2> QED
      BY <1>1, <2>1, Ttls, FolderFacts DEF Check
  <1>3. Submits(run[r]) /\ Head(run[r].todo) = "check"
    BY <1>1, RequestGoesOn DEF Check, At
  <1>4. Len(run[r].todo) > 1 /\ Tail(run[r].todo) = <<"submit">>
    BY <1>3, SubmitStages
  <1>5. CASE run' = [run EXCEPT ![r] = Went(r)]
    <2>1. /\ Went(r) \in Running /\ Went(r).todo = <<"submit">>
          /\ Went(r).after = run[r].after /\ Went(r).print = run[r].print
          /\ Went(r).temps = run[r].temps /\ Went(r).own = run[r].own
          /\ Tokens(Went(r)) \subseteq Tokens(run[r]) /\ Follows(Went(r))
      BY <1>1, <1>4, WentFacts
    <2>2. Submits(Went(r)) /\ Names(Went(r)) = Names(run[r])
      BY <1>3, <2>1 DEF Submits, Names
    <2> QED
      BY <1>2, <1>5, <2>1, <2>2, QuietStep DEF InPlace
  <1>6. CASE run' = [run EXCEPT ![r] = Raised(r)]
    <2>1. Raised(r) = Idle
      BY <1>1, <1>3, FinallyFacts DEF Raised, Submits
    <2>2. Names(run[r]) = Names(Idle)
      BY <1>3, IdleFacts DEF Submits
    <2> QED
      BY <1>2, <1>6, <2>1, <2>2, IdleFacts, IdleNow, QuietStep
  <1> QED
    BY <1>5, <1>6 DEF Check

\* A step of a share that leaves jobs/ and the upload folder alone.
LEMMA ShareStep ==
  ASSUME IInv, NEW r \in Request, At(r, {"sweepShares", "stage"}),
         run' = [run EXCEPT ![r] = Went(r)], staged' \in Folder(ShareTtl),
         UNCHANGED <<root, stored, litter, job, worker, printed>>
  PROVE  IInv'
  <1>1. /\ TypeOK /\ r \in Actor /\ run[r].todo # <<>> /\ Follows(run[r])
        /\ stored' \in Folder(Ttl)
    BY WorkerIsNoRequest, Ttls DEF IInv, At, Apart
  <1>2. Shares(run[r])
    BY <1>1, RequestGoesOn
  <1>3. Tokens(Went(r)) \subseteq Tokens(run[r]) /\ Follows(Went(r)) /\ Went(r) \in Running
    BY <1>1, WentFacts
  <1>4. CASE Len(run[r].todo) > 1
    <2>1. Tail(run[r].todo) = <<"stage">>
      <3>1. ASSUME NEW s, run[r].todo = <<s>> PROVE FALSE
        <4>1. Len(run[r].todo) = 1
          BY <3>1, TwoStages
        <4> QED
          BY <1>4, <4>1
      <3>2. run[r].todo = <<"sweepShares", "stage">>
        BY <1>2, <3>1 DEF Shares
      <3> QED
        BY <3>2, TwoStages
    <2>2. Went(r).todo = <<"stage">> /\ Went(r).after = <<>>
          /\ Went(r).temps = run[r].temps /\ Went(r).own = run[r].own
      BY <1>1, <1>2, <1>4, <2>1, WentFacts DEF Shares
    <2>3. Shares(Went(r)) /\ Names(Went(r)) = Names(run[r])
      BY <1>2, <2>2 DEF Shares, Names
    <2> QED
      BY <1>1, <1>3, <2>3, QuietStep DEF InPlace
  <1>5. CASE ~ Len(run[r].todo) > 1
    <2>1. Went(r) = Idle
      BY <1>1, <1>2, <1>5, WentFacts, FinallyFacts DEF Shares
    <2>2. Names(run[r]) = Names(Idle)
      BY <1>2, IdleFacts DEF Shares
    <2> QED
      BY <1>1, <1>3, <2>1, <2>2, IdleNow, QuietStep
  <1> QED
    BY <1>4, <1>5

\* Staging and sweeping of shared files.
LEMMA SharesKeep ==
  ASSUME IInv, NEW r \in Request, SweepShares(r) \/ Stage(r) PROVE IInv'
  <1>1. At(r, {"sweepShares", "stage"}) /\ TypeOK
    BY DEF SweepShares, Stage, At, IInv
  <1>2. staged' \in Folder(ShareTtl)
    BY <1>1, Ttls, FolderFacts DEF SweepShares, Stage, Fresh
  <1> QED
    BY <1>1, <1>2, ShareStep DEF SweepShares, Stage

\* Nobody else's files: a request that gives up what it tracks, tracked or thrown.
LEMMA DiscardKeeps == ASSUME IInv, NEW r \in Request, Discard(r) PROVE IInv'
  <1>1. /\ TypeOK /\ r \in Actor /\ run[r].todo # <<>> /\ Follows(run[r])
        /\ stored' \in Folder(Ttl) /\ staged' \in Folder(ShareTtl)
        /\ UNCHANGED <<job, worker, printed>> /\ run' = [run EXCEPT ![r] = Went(r)]
    BY WorkerIsNoRequest, Ttls DEF IInv, Discard, At, Apart
  <1>2. Clears(run[r]) /\ Head(run[r].todo) = "discard"
    BY <1>1, RequestGoesOn DEF Discard, At
  <1>3. run[r].todo = <<"discard">> /\ run[r].temps = {} /\ run[r].after = <<>>
    BY <1>2, TwoStages DEF Clears
  <1>4. Went(r) = Idle
    <2>1. Len(run[r].todo) = 1
      BY <1>3, TwoStages
    <2>2. ~ Len(run[r].todo) > 1
      BY <2>1
    <2> QED
      BY <1>1, <1>3, <2>2, WentFacts, FinallyFacts
  <1>5. Names(run[r]) = run[r].own /\ Names(run[r]) \subseteq root
    BY <1>1, <1>3 DEF Names, IInv, Kept
  <1>6. \/ root' = root \ Names(run[r]) /\ litter' = litter
        \/ litter' = litter \cup Names(run[r]) /\ root' = root
    BY <1>5 DEF Discard
  <1>7. root' \subseteq Name /\ litter' \subseteq Name
    BY <1>1, <1>5, <1>6 DEF TypeOK
  <1> QED
    BY <1>1, <1>4, <1>6, <1>7, IdleFacts, IdleNow, RequestStep

\* The clean-up at the end of a preview takes that preview's files only.
LEMMA RequestCleanupKeeps == ASSUME IInv, NEW r \in Request, Cleanup(r) PROVE IInv'
  <1>1. PICK stuck \in SUBSET (run[r].temps \cap root) :
          root' = root \ (run[r].temps \ stuck) /\ litter' = litter \cup stuck
    BY DEF Cleanup
  <1>2. /\ TypeOK /\ r \in Actor /\ run[r].todo # <<>> /\ run[r] \in Running
        /\ stored' \in Folder(Ttl) /\ staged' \in Folder(ShareTtl)
        /\ UNCHANGED <<job, worker, printed>>
        /\ Names(run[r]) \subseteq root
    BY WorkerIsNoRequest, Ttls DEF IInv, Cleanup, At, Kept, TypeOK
  <1>3. Clears(run[r]) /\ Head(run[r].todo) = "cleanup"
    BY <1>2, RequestGoesOn DEF Cleanup, At
  <1>4. root' \subseteq Name /\ litter' \subseteq Name
    BY <1>1, <1>2 DEF TypeOK
  <1>5. CASE run[r].todo = <<"cleanup">> /\ run[r].own = {}
    <2>1. run' = [run EXCEPT ![r] = Idle]
      <3>1. Len(run[r].todo) = 1
        BY <1>5, TwoStages
      <3>2. run' = [run EXCEPT ![r] = IF Len(run[r].todo) > 1
                      THEN [run[r] EXCEPT !.todo = Tail(run[r].todo), !.temps = {}] ELSE Idle]
        BY DEF Cleanup
      <3> QED
        BY <3>1, <3>2
    <2>2. Names(run[r]) = run[r].temps
      BY <1>5 DEF Names
    <2> QED
      BY <1>1, <1>2, <1>4, <2>1, <2>2, IdleFacts, IdleNow, RequestStep
  <1>6. CASE run[r].todo = <<"cleanup", "discard">> /\ Longer(run[r])
    <2> DEFINE x == [run[r] EXCEPT !.todo = Tail(run[r].todo), !.temps = {}]
    <2>1. run' = [run EXCEPT ![r] = x]
      <3>1. Len(run[r].todo) = 2
        BY <1>6, TwoStages
      <3>2. run' = [run EXCEPT ![r] = IF Len(run[r].todo) > 1
                      THEN [run[r] EXCEPT !.todo = Tail(run[r].todo), !.temps = {}] ELSE Idle]
        BY DEF Cleanup
      <3> QED
        BY <3>1, <3>2
    <2>2. Tail(run[r].todo) = <<"discard">> /\ Tail(run[r].todo) \in Seq(Stages)
      <3>1. run[r].todo \in Seq(Stages)
        BY <1>2 DEF Running
      <3> QED
        BY <1>2, <1>6, <3>1, TwoStages, HeadTailProperties
    <2>3. /\ x \in Running /\ x.todo = <<"discard">> /\ x.temps = {} /\ x.after = <<>>
          /\ x.own = run[r].own /\ x.of = run[r].of
      <3>1. x \in Running
        BY <1>2, <2>2 DEF Running
      <3> QED
        BY <1>2, <1>3, <2>2 DEF Running, Clears
    <2> HIDE DEF x
    <2>4. /\ Names(x) = run[r].own /\ Tokens(x) \subseteq Tokens(run[r])
          /\ Follows(x) /\ InPlace(x)
      BY <2>3 DEF Names, Tokens, Follows, InPlace, Clears
    <2>5. run[r].own \cap run[r].temps = {} /\ Names(run[r]) = run[r].own \cup run[r].temps
      BY <1>6 DEF Longer, Names
    <2> QED
      BY <1>1, <1>2, <1>4, <2>1, <2>3, <2>4, <2>5, RequestStep
  <1> QED
    BY <1>3, <1>5, <1>6, TwoStages DEF Clears

\* A request that begins knows no file, whatever it is to do.
Begins(asked) ==
  [Idle EXCEPT !.todo = asked.todo, !.after = asked.after, !.print = asked.print]

Ready(x) ==
  x \in Running /\ InPlace(x) /\ Names(x) = {} /\ Tokens(x) = {} /\ Follows(x)

\* A request begins with what it was asked for and knows no file.
LEMMA Beginning ==
  ASSUME NEW asked, asked.todo \in Seq(Stages), asked.after \in Seq(Stages),
         asked.print \in Prints \cup {Nothing}
  PROVE  LET x == Begins(asked)
         IN  /\ x.todo = asked.todo /\ x.after = asked.after /\ x.print = asked.print
             /\ Names(x) = {} /\ x.own = {} /\ Tokens(x) = {} /\ Follows(x)
             /\ x \in Running
  <1> DEFINE x == Begins(asked)
  <1>1. x \in Running
    BY IdleFacts DEF Running, Begins
  <1>2. /\ x.todo = asked.todo /\ x.after = asked.after /\ x.print = asked.print
        /\ x.of = Nothing /\ x.cur = Nothing /\ x.temps = {} /\ x.own = {}
    BY DEF Idle, Begins
  <1> HIDE DEF x
  <1>3. Names(x) = {} /\ Tokens(x) = {} /\ Follows(x)
    BY <1>2 DEF Names, Tokens, Follows
  <1> QED
    BY <1>1, <1>2, <1>3 DEF x

\* Short lists of stages, for any set of stages.
LEMMA StageLists ==
  ASSUME NEW S, NEW s \in S, NEW t \in S, NEW u \in S
  PROVE  /\ <<>> \in Seq(S) /\ <<s>> \in Seq(S)
         /\ <<s, t>> \in Seq(S) /\ <<s, t, u>> \in Seq(S)
  OBVIOUS

\* A stage put before a list is its first, and the list its tail.
LEMMA FirstStage ==
  ASSUME NEW S, NEW s \in S, NEW t \in Seq(S)
  PROVE  LET l == <<s>> \o t
         IN  l \in Seq(S) /\ l # <<>> /\ l[1] = s /\ Tail(l) = t
  <1> DEFINE l == <<s>> \o t
  <1>1. <<s>> \in Seq(S) /\ Len(<<s>>) = 1
    OBVIOUS
  <1>2. /\ l \in Seq(S) /\ Len(l) = 1 + Len(t) /\ Len(t) \in Nat
        /\ \A i \in 1..Len(l) : l[i] = IF i <= 1 THEN s ELSE t[i - 1]
    BY <1>1, ConcatProperties, LenProperties
  <1> HIDE DEF l
  <1>3. l # <<>> /\ l[1] = s
    BY <1>2
  <1>4. /\ Tail(l) \in Seq(S) /\ Len(Tail(l)) = Len(t)
        /\ \A i \in 1..Len(t) : Tail(l)[i] = t[i]
    BY <1>2, <1>3, HeadTailProperties
  <1>5. Tail(l) = t
    BY <1>4, SeqEqual
  <1> QED
    BY <1>2, <1>3, <1>5 DEF l

\* The stages of the renders that may be turned.
LEMMA TurnedStages ==
  ASSUME NEW rotate \in Rotations
  PROVE  /\ <<"create">> \o Turned(rotate) \in Seq({"create", "rotate"})
         /\ LET todo == <<"borrow">> \o Turned(rotate) \o <<"resize">>
            IN  /\ todo \in Seq({"borrow", "rotate", "resize"}) /\ todo # <<>>
                /\ todo[1] = "borrow" /\ Tail(todo) \in Seq({"rotate", "resize"})
  <1>1. ASSUME NEW S, "rotate" \in S PROVE Turned(rotate) \in Seq(S)
    BY <1>1, StageLists DEF Turned
  <1>2. ASSUME NEW S, "rotate" \in S, "resize" \in S
        PROVE  Turned(rotate) \o <<"resize">> \in Seq(S)
    BY <1>1, <1>2, StageLists, ConcatProperties
  <1>3. <<"create">> \o Turned(rotate) \in Seq({"create", "rotate"})
    BY <1>1, FirstStage
  <1> DEFINE S == {"borrow", "rotate", "resize"}
             todo == <<"borrow">> \o (Turned(rotate) \o <<"resize">>)
  <1>4. "borrow" \in S /\ "rotate" \in S /\ "resize" \in S
    OBVIOUS
  <1> HIDE DEF S
  <1>5. <<"borrow">> \in Seq(S) /\ <<"resize">> \in Seq(S) /\ Turned(rotate) \in Seq(S)
    BY <1>1, <1>4, StageLists
  <1>6. <<"borrow">> \o Turned(rotate) \o <<"resize">> = todo
    BY <1>5, ConcatAssociative
  <1>7. /\ todo \in Seq(S) /\ todo # <<>> /\ todo[1] = "borrow"
        /\ Tail(todo) = Turned(rotate) \o <<"resize">>
    BY <1>2, <1>4, FirstStage
  <1>8. Tail(todo) \in Seq({"rotate", "resize"})
    BY <1>2, <1>7
  <1> QED
    BY <1>3, <1>6, <1>7, <1>8 DEF S

\* Where a request begins is a place in order.
LEMMA AskedInPlace == \A asked \in Asked : Ready(Begins(asked))
  <1>1. /\ <<>> \in Seq(Stages) /\ <<"cleanup">> \in Seq(Stages)
        /\ <<"discard">> \in Seq(Stages) /\ <<"cleanup", "discard">> \in Seq(Stages)
        /\ <<"submit">> \in Seq(Stages) /\ <<"save", "submit">> \in Seq(Stages)
        /\ <<"save", "check", "submit">> \in Seq(Stages)
        /\ <<"sweepShares">> \in Seq(Stages) /\ <<"sweepShares", "stage">> \in Seq(Stages)
    BY StageLists DEF Stages
  <1>2. ASSUME NEW asked, asked.todo \in Seq(Stages), asked.after \in Seq(Stages),
               asked.print \in Prints \cup {Nothing}, InPlace(Begins(asked))
        PROVE  Ready(Begins(asked))
    BY <1>2, Beginning DEF Ready
  <1>3. ASSUME NEW asked, asked.todo \in Seq({"create", "rotate"}),
               asked.after = <<"cleanup">>, asked.print = Nothing
        PROVE  Ready(Begins(asked))
    <2>1. asked.todo \in Seq(Stages)
      BY <1>3, SeqMonotonic DEF Stages
    <2>2. Draws(Begins(asked))
      BY <1>1, <1>3, <2>1, Beginning DEF Draws
    <2> QED
      BY <1>1, <1>2, <1>3, <2>1, <2>2 DEF InPlace
  <1>4. ASSUME NEW asked, asked.todo \in Seq({"borrow", "rotate", "resize"}),
               asked.todo # <<>>, asked.todo[1] = "borrow",
               Tail(asked.todo) \in Seq({"rotate", "resize"}),
               asked.after \in {<<"discard">>, <<"cleanup", "discard">>},
               asked.after = <<"discard">> => Len(asked.todo) = 1,
               asked.print = Nothing
        PROVE  Ready(Begins(asked))
    <2>1. asked.todo \in Seq(Stages)
      BY <1>4, SeqMonotonic DEF Stages
    <2>2. Uploads(Begins(asked))
      BY <1>1, <1>4, <2>1, Beginning DEF Uploads
    <2> QED
      BY <1>1, <1>2, <1>4, <2>1, <2>2 DEF InPlace
  <1>5. ASSUME NEW asked, asked.after = <<>>, asked.print \in Prints,
               asked.todo \in {<<"save", "check", "submit">>, <<"save", "submit">>,
                               <<"submit">>}
        PROVE  Ready(Begins(asked))
    <2>1. Submits(Begins(asked))
      BY <1>1, <1>5, Beginning DEF Submits
    <2> QED
      BY <1>1, <1>2, <1>5, <2>1 DEF InPlace
  <1>6. ASSUME NEW asked, asked.after = <<>>, asked.print = Nothing,
               asked.todo \in {<<"sweepShares", "stage">>, <<"sweepShares">>}
        PROVE  Ready(Begins(asked))
    <2>1. Shares(Begins(asked))
      BY <1>1, <1>6, Beginning DEF Shares
    <2> QED
      BY <1>1, <1>2, <1>6, <2>1 DEF InPlace
  <1>7. ASSUME NEW todo, NEW after, NEW print
        PROVE  LET asked == Asks(todo, after, print)
               IN  asked.todo = todo /\ asked.after = after /\ asked.print = print
    BY DEF Asks
  <1>8. ASSUME NEW rotate \in Rotations
        PROVE  /\ Ready(Begins(PreviewText(rotate)))
               /\ Ready(Begins(PreviewQrCode(rotate)))
               /\ Ready(Begins(PreviewLabel(rotate)))
    BY <1>3, <1>7, TurnedStages DEF PreviewText, PreviewQrCode, PreviewLabel
  <1>9. ASSUME NEW rotate \in Rotations PROVE Ready(Begins(PreviewImage(rotate)))
    <2>1. <<"cleanup", "discard">> # <<"discard">>
      <3>1. Head(<<"cleanup", "discard">>) # Head(<<"discard">>)
        BY TwoStages
      <3> QED
        BY <3>1
    <2>2. /\ PreviewImage(rotate).todo = <<"borrow">> \o Turned(rotate) \o <<"resize">>
          /\ PreviewImage(rotate).after = <<"cleanup", "discard">>
          /\ PreviewImage(rotate).print = Nothing
      <3> DEFINE todo == <<"borrow">> \o Turned(rotate) \o <<"resize">>
                 after == <<"cleanup", "discard">>
      <3>1. PreviewImage(rotate) = Asks(todo, after, Nothing)
        BY DEF PreviewImage
      <3> HIDE DEF todo, after
      <3>2. /\ PreviewImage(rotate).todo = todo /\ PreviewImage(rotate).after = after
            /\ PreviewImage(rotate).print = Nothing
        BY <1>7, <3>1
      <3> QED
        BY <3>2 DEF todo, after
    <2> QED
      BY <1>4, <2>1, <2>2, TurnedStages
  <1>10. ASSUME NEW rotate \in Rotations
         PROVE  /\ Ready(Begins(AskText(rotate))) /\ Ready(Begins(AskQrCode(rotate)))
                /\ Ready(Begins(AskLabel(rotate))) /\ Ready(Begins(AskImage(rotate)))
                /\ Ready(Begins(AskTextImage(rotate)))
    <2>1. /\ PrintText(rotate) \in Prints /\ PrintQrCode(rotate) \in Prints
          /\ PrintImage(rotate) \in Prints /\ PrintTextImage(rotate) \in Prints
      BY DEF Prints
    <2> QED
      BY <1>5, <1>7, <2>1 DEF AskText, AskQrCode, AskLabel, AskImage, AskTextImage
  <1>11. /\ \A rotate \in Rotations, spec \in Specs : Ready(Begins(AskPdf(rotate, spec)))
         /\ \A n \in Sweeps : Ready(Begins(AskCalibration(n)))
    <2>1. /\ \A rotate \in Rotations, spec \in Specs : PrintPdf(rotate, spec) \in Prints
          /\ \A n \in Sweeps : PrintCalibration(n) \in Prints
      BY DEF Prints
    <2> QED
      BY <1>5, <1>7, <2>1 DEF AskPdf, AskCalibration
  <1>12. Ready(Begins(PreviewPdf))
    <2>1. /\ <<"borrow">> \in Seq({"borrow", "rotate", "resize"}) /\ <<"borrow">> # <<>>
          /\ <<"borrow">>[1] = "borrow" /\ Tail(<<"borrow">>) \in Seq({"rotate", "resize"})
          /\ Len(<<"borrow">>) = 1
      OBVIOUS
    <2>2. /\ PreviewPdf.todo = <<"borrow">> /\ PreviewPdf.after = <<"discard">>
          /\ PreviewPdf.print = Nothing
      BY <1>7 DEF PreviewPdf
    <2> QED
      BY <1>4, <2>1, <2>2
  <1>13. Ready(Begins(Share)) /\ Ready(Begins(GetShared))
    BY <1>6, <1>7 DEF Share, GetShared
  <1> QED
    BY <1>8, <1>9, <1>10, <1>11, <1>12, <1>13 DEF Asked

\* A request arrives.
LEMMA ReceiveKeeps == ASSUME IInv, NEW r \in Request, Receive(r) PROVE IInv'
  <1>1. PICK asked \in Asked : run' = [run EXCEPT ![r] = Begins(asked)]
    BY DEF Receive, Begins
  <1>2. Names(run[r]) = {} /\ stored' \in Folder(Ttl) /\ staged' \in Folder(ShareTtl)
    BY IdleFacts, Ttls DEF Receive, files, IInv
  <1>3. Ready(Begins(asked))
    BY AskedInPlace
  <1> QED
    BY <1>1, <1>2, <1>3, QuietStep DEF Receive, files, Ready

Registry ==
  [Job -> [state : {"free", "queued", "printing", "over"},
           print : Prints \cup {Nothing}, of : Token \cup {Nothing}]]

\* A step of one thread, whatever it does to the queue.
LEMMA ThreadStep ==
  ASSUME IInv, NEW a \in Actor, NEW x \in Running, run' = [run EXCEPT ![a] = x],
         root' \subseteq Name, litter' \subseteq Name,
         stored' \in Folder(Ttl), staged' \in Folder(ShareTtl),
         job' \in Registry, hand' \in Job \cup {Nothing},
         attempt' \in 1..Attempts, wrote' \in BOOLEAN,
         TakesUp(a, x), KnownUploads(a, x), Follows(x), Names(x) \subseteq root',
         root \ root' \subseteq Names(run[a]),
         root' \subseteq root \cup litter' \cup Names(x),
         Names(run[a]) \cap root' \subseteq litter' \cup Names(x),
         (litter \cap root') \ litter' \subseteq Names(x),
         a = Worker \/ InPlace(x), WorkerInOrder', JobsInOrder'
  PROVE  IInv'
  <1>1. run' \in [Actor -> Running] /\ Apart' /\ Kept'
    BY ActorStep
  <1>2. TypeOK'
    BY <1>1 DEF TypeOK, Folder, Registry
  <1>3. RequestsInOrder'
    BY WorkerIsNoRequest DEF IInv, TypeOK, RequestsInOrder
  <1> QED
    BY <1>1, <1>2, <1>3 DEF IInv

\* A request's upload becomes a job's.
LEMMA SubmitKeeps == ASSUME IInv, NEW r \in Request, Submit(r) PROVE IInv'
  <1>1. PICK j \in Job \ {hand} :
          /\ job[j] = Free
          /\ job' = [job EXCEPT ![j] = [state |-> "queued",
                                        print |-> run[r].print, of |-> run[r].of]]
    BY DEF Submit
  <1>2. /\ TypeOK /\ r \in Actor /\ r # Worker /\ run[r].todo # <<>> /\ run[r] \in Running
        /\ staged' \in Folder(ShareTtl) /\ stored' \in Folder(Ttl)
        /\ root' \subseteq Name /\ litter' \subseteq Name /\ job \in Registry
    BY WorkerIsNoRequest, Ttls, FolderFacts DEF IInv, Submit, At, TypeOK, Registry
  <1>3. Submits(run[r])
    BY <1>2, RequestGoesOn DEF Submit, At
  <1> DEFINE new == [state |-> "queued", print |-> run[r].print, of |-> run[r].of]
  <1>4. /\ job' \in Registry /\ job'[j] = new
        /\ \A i \in Job : i # j => job'[i] = job[i]
    <2>1. new \in [state : {"free", "queued", "printing", "over"},
                   print : Prints \cup {Nothing}, of : Token \cup {Nothing}]
      BY <1>2, <1>3 DEF Running, Submits
    <2> QED
      BY <1>1, <1>2, <2>1 DEF Registry
  <1>5. TakesUp(r, Idle) /\ KnownUploads(r, Idle)
    BY <1>4, IdleFacts DEF TakesUp, KnownUploads
  <1>6. Names(run[r]) = {}
    BY <1>3 DEF Submits
  <1>7. run'[Worker] = run[Worker]
    BY <1>2 DEF Submit
  <1>8. WorkerInOrder'
    <2>1. CASE run[Worker] = Idle
      BY <1>7, <2>1 DEF Submit, worker, IInv, WorkerInOrder
    <2>2. CASE run[Worker] # Idle
      <3>1. job'[hand] = job[hand]
        BY <1>2, <1>4, <2>2 DEF IInv, WorkerInOrder, TypeOK
      <3> QED
        BY <1>7, <2>2, <3>1
           DEF Submit, worker, IInv, WorkerInOrder, Makes, Ends, Labels
    <2> QED
      BY <2>1, <2>2
  <1>9. JobsInOrder'
    BY <1>3, <1>4, <1>7 DEF Submit, worker, IInv, JobsInOrder, Submits
  <1> QED
    BY <1>2, <1>4, <1>5, <1>6, <1>8, <1>9, IdleFacts, IdleNow, ThreadStep
       DEF Submit, TypeOK, worker

\* What a stage makes has a new uuid, or the one of the file it is made from.
LEMMA MadeFacts ==
  ASSUME IInv, NEW a \in Actor, CanOpen(a), run[a].after # <<>>, NEW name \in Made(a),
         At(a, {"create", "compose", "page", "rotate", "resize"})
  PROVE  /\ name \in Name /\ name.of \in Tokens(run[a]) \cup Fresh
         /\ ~ At(a, {"create", "compose", "page"}) => name.by # {}
  <1>1. CASE At(a, {"create", "compose", "page"})
    <2>1. PICK t \in Fresh : name = Bare(t)
      BY <1>1 DEF Made
    <2> QED
      BY <1>1, <2>1, FreshFacts DEF IInv, Bare
  <1>2. CASE ~ At(a, {"create", "compose", "page"})
    <2> DEFINE cur == run[a].cur
               longer == IF At(a, {"rotate"}) THEN "rotated" ELSE "resized"
    <2>1. name = [cur EXCEPT !.by = @ \cup {longer}]
      BY <1>2 DEF Made
    <2>2. Follows(run[a]) /\ run[a] \in Running /\ root \subseteq Name
          /\ Names(run[a]) \subseteq root
      BY DEF IInv, Apart, TypeOK, Kept
    <2>3. At(a, {"rotate", "resize", "send"})
      BY <1>2 DEF At
    <2>4. \/ run[a].of # Nothing /\ cur = Bare(run[a].of)
          \/ cur \in root
      BY <1>2, <2>3 DEF CanOpen, At
    <2>5. cur \in Name /\ cur.of \in Tokens(run[a])
      <3>1. CASE run[a].of # Nothing /\ cur = Bare(run[a].of)
        BY <2>2, <3>1 DEF Running, Tokens, Bare, Name
      <3>2. CASE cur \in root
        <4>1. cur \in Name /\ cur # Nothing /\ cur.of # Nothing
          BY <2>2, <3>2, FilesAssumption DEF FilesAssumption, Name
        <4>2. cur \in Names(run[a]) \/ (run[a].of # Nothing /\ cur = Bare(run[a].of))
          BY <2>2, <4>1 DEF Follows
        <4> QED
          BY <4>1, <4>2, <3>1 DEF Tokens
      <3> QED
        BY <2>4, <3>1, <3>2
    <2>6. longer \in {"rotated", "resized"}
      OBVIOUS
    <2> HIDE DEF cur, longer
    <2>7. name \in Name /\ name.of = cur.of /\ name.by # {}
      BY <2>1, <2>5, <2>6 DEF Name
    <2> QED
      BY <2>5, <2>7
  <1> QED
    BY <1>1, <1>2

\* A pipeline goes on with the file it has made, and tracks it.
LEMMA TrackingFacts ==
  ASSUME IInv, NEW a \in Actor, run[a].todo # <<>>, run[a].after # <<>>,
         NEW name \in Name, name.of \in Tokens(run[a]) \cup Fresh
  PROVE  LET x == [Went(a) EXCEPT !.temps = Tracked(@, name), !.cur = name]
         IN  /\ x \in Running /\ Names(x) = Names(run[a]) \cup {name}
             /\ x.own = run[a].own /\ x.temps = run[a].temps \cup {name}
             /\ Tokens(x) \subseteq Tokens(run[a]) \cup Fresh /\ Follows(x)
             /\ Len(run[a].todo) > 1 =>
                  /\ x.todo = Tail(run[a].todo) /\ x.after = run[a].after
                  /\ x.of = run[a].of /\ x.sent = run[a].sent
             /\ ~ Len(run[a].todo) > 1 => x.todo = run[a].after /\ x.after = <<>>
  <1> DEFINE w == Went(a)
             x == [w EXCEPT !.temps = Tracked(@, name), !.cur = name]
  <1>1. TypeOK
    BY DEF IInv
  <1>2. /\ w \in Running /\ Tokens(w) \subseteq Tokens(run[a])
        /\ w.temps = run[a].temps /\ w.own = run[a].own
        /\ Len(run[a].todo) > 1 =>
             /\ w.todo = Tail(run[a].todo) /\ w.after = run[a].after
             /\ w.of = run[a].of /\ w.sent = run[a].sent
        /\ ~ Len(run[a].todo) > 1 => w.todo = run[a].after /\ w.after = <<>>
    BY <1>1, WentFacts, FinallyFacts
  <1> HIDE DEF w
  <1>3. /\ x \in Running /\ x.todo = w.todo /\ x.after = w.after /\ x.of = w.of
        /\ x.own = w.own /\ x.temps = w.temps \cup {name} /\ x.cur = name
        /\ x.sent = w.sent
    BY <1>2 DEF Running, Tracked
  <1> HIDE DEF x
  <1>4. Names(x) = Names(w) \cup {name} /\ Names(w) = Names(run[a])
    BY <1>2, <1>3 DEF Names
  <1>5. Tokens(x) \subseteq Tokens(w) \cup {name.of}
    BY <1>3, <1>4 DEF Tokens
  <1>6. Follows(x)
    BY <1>3, <1>4 DEF Follows
  <1> QED
    BY <1>2, <1>3, <1>4, <1>5, <1>6 DEF x, w

\* An exception leaves the files tracked.
LEMMA RaisedFacts ==
  ASSUME IInv, NEW a \in Actor, run[a].after # <<>>
  PROVE  LET x == Raised(a)
         IN  /\ x \in Running /\ Names(x) = Names(run[a]) /\ x.own = run[a].own
             /\ Tokens(x) \subseteq Tokens(run[a]) \cup Fresh /\ Follows(x)
             /\ x.todo = run[a].after /\ x.after = <<>> /\ x.ok = (a # Worker)
  <1> DEFINE x == Finally(a, FALSE)
  <1>1. TypeOK /\ FALSE \in BOOLEAN
    BY DEF IInv
  <1>2. /\ x \in Running /\ Tokens(x) \subseteq Tokens(run[a]) /\ Follows(x)
        /\ x.todo = run[a].after /\ x.after = <<>>
        /\ x.temps = run[a].temps /\ x.own = run[a].own
    BY <1>1, FinallyFacts
  <1>3. x.ok = (a # Worker)
    <2>1. x.ok = (FALSE \/ a # Worker)
      BY <1>1, FinallyFacts, Zenon
    <2> QED
      BY <2>1
  <1>4. Names(x) = Names(run[a])
    BY <1>2 DEF Names
  <1> QED
    BY <1>2, <1>3, <1>4 DEF Raised

\* A preview makes a file, breaks off half way or before it.
LEMMA RequestProduceKeeps == ASSUME IInv, NEW r \in Request, Produce(r) PROVE IInv'
  <1>1. /\ TypeOK /\ r \in Actor /\ run[r].todo # <<>> /\ run[r] \in Running
        /\ stored' \in Folder(Ttl) /\ staged' \in Folder(ShareTtl)
        /\ UNCHANGED <<job, worker, printed>>
    BY WorkerIsNoRequest, Ttls DEF IInv, Produce, At, TypeOK
  <1>2. Draws(run[r]) \/ (Converts(run[r]) /\ ~ At(r, {"create", "compose", "page"}))
    <2>1. ~ At(r, {"compose", "page"})
      BY <1>1, RequestGoesOn DEF At
    <2>2. At(r, {"create", "rotate", "resize"})
      BY <2>1 DEF Produce, At
    <2>3. ASSUME Converts(run[r]) PROVE Head(run[r].todo) \in {"rotate", "resize"}
      BY <1>1, <2>3, HeadTailProperties DEF Converts
    <2> QED
      BY <1>1, <2>1, <2>2, <2>3, RequestGoesOn DEF At
  <1>3. run[r].after # <<>>
    BY <1>2, TwoStages DEF Draws, Converts
  <1>4. /\ Raised(r) \in Running /\ Names(Raised(r)) = Names(run[r])
        /\ Tokens(Raised(r)) \subseteq Tokens(run[r]) \cup Fresh
        /\ Follows(Raised(r)) /\ InPlace(Raised(r))
    BY <1>1, <1>3, RaisedFacts, RequestRaises DEF Raised
  <1>5. Names(run[r]) \subseteq root
    BY <1>1 DEF IInv, Kept
  <1>6. CASE run' = [run EXCEPT ![r] = Raised(r)] /\ UNCHANGED <<root, litter>>
    BY <1>1, <1>4, <1>6, QuietStep
  <1>7. CASE /\ CanOpen(r)
             /\ \E name \in Made(r) :
                  /\ root' = root \cup {name}
                  /\ \/ /\ run' = [run EXCEPT ![r] = [Went(r) EXCEPT
                                     !.temps = Tracked(@, name), !.cur = name]]
                        /\ litter' = litter \ {name}
                     \/ /\ run' = [run EXCEPT ![r] = Raised(r)]
                        /\ litter' = litter \cup {name}
    <2>1. PICK name \in Made(r) :
            /\ root' = root \cup {name}
            /\ \/ /\ run' = [run EXCEPT ![r] = [Went(r) EXCEPT
                               !.temps = Tracked(@, name), !.cur = name]]
                  /\ litter' = litter \ {name}
               \/ /\ run' = [run EXCEPT ![r] = Raised(r)]
                  /\ litter' = litter \cup {name}
      BY <1>7
    <2>2. /\ name \in Name /\ name.of \in Tokens(run[r]) \cup Fresh
          /\ ~ At(r, {"create", "compose", "page"}) => name.by # {}
      BY <1>1, <1>3, <1>7, MadeFacts DEF Produce
    <2>3. root' \subseteq Name /\ litter' \subseteq Name
      BY <1>1, <2>1, <2>2 DEF TypeOK
    <2>4. CASE run' = [run EXCEPT ![r] = Raised(r)] /\ litter' = litter \cup {name}
      BY <1>1, <1>4, <1>5, <2>1, <2>3, <2>4, RequestStep
    <2>5. CASE /\ run' = [run EXCEPT ![r] = [Went(r) EXCEPT
                            !.temps = Tracked(@, name), !.cur = name]]
               /\ litter' = litter \ {name}
      <3> DEFINE x == [Went(r) EXCEPT !.temps = Tracked(@, name), !.cur = name]
      <3>1. /\ x \in Running /\ Names(x) = Names(run[r]) \cup {name}
            /\ x.own = run[r].own /\ x.temps = run[r].temps \cup {name}
            /\ Tokens(x) \subseteq Tokens(run[r]) \cup Fresh /\ Follows(x)
            /\ Len(run[r].todo) > 1 => x.todo = Tail(run[r].todo) /\ x.after = run[r].after
            /\ ~ Len(run[r].todo) > 1 => x.todo = run[r].after /\ x.after = <<>>
        BY <1>1, <1>3, <2>2, TrackingFacts
      <3> HIDE DEF x
      <3>2. InPlace(x)
        <4>1. CASE Draws(run[r])
          <5>1. run[r].todo \in Seq({"create", "rotate"}) /\ run[r].after = <<"cleanup">>
                /\ run[r].own = {}
            BY <4>1 DEF Draws
          <5>2. Tail(run[r].todo) \in Seq({"create", "rotate"})
            BY <1>1, <5>1, HeadTailProperties
          <5> QED
            BY <3>1, <5>1, <5>2 DEF InPlace, Draws, Clears
        <4>2. CASE Converts(run[r]) /\ ~ At(r, {"create", "compose", "page"})
          <5>1. /\ run[r].todo \in Seq({"rotate", "resize"})
                /\ run[r].after = <<"cleanup", "discard">> /\ Longer(run[r])
            BY <4>2 DEF Converts
          <5>2. Tail(run[r].todo) \in Seq({"rotate", "resize"})
            BY <1>1, <5>1, HeadTailProperties
          <5>3. Longer(x)
            BY <2>2, <3>1, <4>2, <5>1 DEF Longer
          <5> QED
            BY <3>1, <5>1, <5>2, <5>3 DEF InPlace, Converts, Clears
        <4> QED
          BY <1>2, <4>1, <4>2
      <3> QED
        BY <1>1, <1>5, <2>1, <2>3, <2>5, <3>1, <3>2, RequestStep DEF x
    <2> QED
      BY <2>1, <2>4, <2>5
  <1> QED
    BY <1>6, <1>7 DEF Produce

\* A print's next stage makes something or is its write.
LEMMA MakingFacts ==
  ASSUME NEW s, EndsInSend(s)
  PROVE  /\ s \in Seq(Stages) /\ s # <<>> /\ s[1] = Head(s) /\ Len(s) \in Nat \ {0}
         /\ Head(s) \in Making \cup {"send"} /\ Head(s) # "cleanup" /\ Head(s) # "outcome"
         /\ Len(s) > 1 => Head(s) \in Making /\ EndsInSend(Tail(s))
         /\ ~ Len(s) > 1 => Head(s) = "send"
  <1>1. /\ s \in Seq(Making \cup {"send"}) /\ s # <<>> /\ Len(s) \in Nat \ {0}
        /\ s[Len(s)] = "send" /\ \A i \in 1..Len(s) : i < Len(s) => s[i] \in Making
    BY DEF EndsInSend
  <1>2. s \in Seq(Stages)
    BY <1>1, SeqMonotonic DEF Making, Stages
  <1>3. s[1] = Head(s) /\ Head(s) \in Making \cup {"send"}
    BY <1>1, HeadTailProperties
  <1>4. Head(s) # "cleanup" /\ Head(s) # "outcome"
    BY <1>3 DEF Making
  <1>5. CASE Len(s) > 1
    <2>1. /\ Tail(s) \in Seq(Making \cup {"send"}) /\ Len(Tail(s)) = Len(s) - 1
          /\ \A i \in 1..Len(Tail(s)) : Tail(s)[i] = s[i + 1]
      BY <1>1, HeadTailProperties
    <2>2. EndsInSend(Tail(s))
      BY <1>1, <1>5, <2>1 DEF EndsInSend
    <2> QED
      BY <1>1, <1>2, <1>3, <1>4, <1>5, <2>2
  <1>6. CASE ~ Len(s) > 1
    <2>1. Len(s) = 1
      <3>1. Len(s) \in Nat \ {0}
        BY <1>1
      <3>2. \A n \in Nat \ {0} : ~ n > 1 => n = 1
        OBVIOUS
      <3> HIDE DEF EndsInSend
      <3> QED
        BY <1>6, <3>1, <3>2, Zenon
    <2> QED
      BY <1>1, <1>2, <1>3, <1>4, <1>6, <2>1
  <1> QED
    BY <1>5, <1>6

\* Where the worker is, by the stage it is at.
LEMMA WorkerGoesOn ==
  ASSUME IInv, run[Worker].todo # <<>>
  PROVE  /\ run[Worker] # Idle /\ run[Worker].own = {} /\ run[Worker] \in Running
         /\ hand \in Job /\ job[hand].state = "printing" /\ job[hand].print \in Prints
         /\ Len(Labels) \in Nat
         /\ ~ wrote => printed = <<>>
         /\ ~ At(Worker, {"cleanup", "outcome"}) => Makes(run[Worker], printed)
         /\ At(Worker, {"cleanup", "outcome"}) => Ends(run[Worker], printed)
  <1> DEFINE x == run[Worker]
  <1>1. x # Idle /\ x \in Running
    BY IdleFacts, WorkerIsNoRequest DEF IInv, TypeOK
  <1>2. /\ hand \in Job /\ job[hand].state = "printing" /\ x.own = {}
        /\ ~ wrote => printed = <<>>
        /\ Makes(x, printed) \/ Ends(x, printed)
    BY <1>1 DEF IInv, WorkerInOrder, TypeOK
  <1>3. job[hand].print \in Prints
    BY <1>2 DEF IInv, JobsInOrder, Free
  <1>4. Len(Labels) \in Nat
    BY <1>3, PrintsEndInSend DEF Labels
  <1>5. Makes(x, printed) => ~ At(Worker, {"cleanup", "outcome"})
    BY MakingFacts DEF Makes, At
  <1>6. Ends(x, printed) => At(Worker, {"cleanup", "outcome"})
    BY TwoStages DEF Ends, At
  <1> QED
    BY <1>1, <1>2, <1>3, <1>4, <1>5, <1>6

\* A step of the worker in the middle of an attempt.
LEMMA PipelineStep ==
  ASSUME IInv, NEW x \in Running, run' = [run EXCEPT ![Worker] = x],
         run[Worker].todo # <<>>, UNCHANGED <<stored, staged, job, hand, attempt>>,
         root' \subseteq Name, litter' \subseteq Name, wrote' \in BOOLEAN,
         Tokens(x) \subseteq Tokens(run[Worker]) \cup Fresh, Follows(x),
         Names(x) \subseteq root', root \ root' \subseteq Names(run[Worker]),
         root' \subseteq root \cup litter' \cup Names(x),
         Names(run[Worker]) \cap root' \subseteq litter' \cup Names(x),
         (litter \cap root') \ litter' \subseteq Names(x),
         x.own = {}, x.todo # <<>>, ~ wrote' => printed' = <<>>,
         Makes(x, printed') \/ Ends(x, printed')
  PROVE  IInv'
  <1>1. /\ TypeOK /\ Worker \in Actor /\ x # Idle
        /\ stored' \in Folder(Ttl) /\ staged' \in Folder(ShareTtl)
    BY WorkerIsNoRequest, IdleFacts, Ttls DEF IInv
  <1>2. run'[Worker] = x
    BY <1>1 DEF TypeOK
  <1>3. WorkerInOrder'
    <2>1. /\ hand \in Job /\ hand # Nothing /\ job[hand].state = "printing"
          /\ hand' = hand /\ job' = job
      BY WorkerGoesOn, FilesAssumption DEF FilesAssumption
    <2>2. Makes(x, printed') => Makes(run[Worker], printed)'
      BY <1>2, <2>1 DEF Makes, Labels
    <2>3. Ends(x, printed') => Ends(run[Worker], printed)'
      BY <1>2, <2>1 DEF Ends, Labels
    <2>4. run'[Worker] # Idle' /\ run'[Worker].own = {}
      BY <1>1, <1>2 DEF Idle
    <2> QED
      BY <2>1, <2>2, <2>3, <2>4 DEF WorkerInOrder
  <1>4. JobsInOrder'
    BY <1>1, <1>2, WorkerGoesOn DEF IInv, JobsInOrder
  <1>5. TakesUp(Worker, x) /\ KnownUploads(Worker, x)
    BY DEF TakesUp, KnownUploads
  <1>6. /\ job' \in Registry /\ hand' \in Job \cup {Nothing}
        /\ attempt' \in 1..Attempts /\ wrote' \in BOOLEAN
    BY <1>1 DEF TypeOK, Registry
  <1> QED
    BY <1>1, <1>3, <1>4, <1>5, <1>6, ThreadStep

\* A print that raises goes to its clean-up with the labels it has put out.
LEMMA WorkerRaises ==
  ASSUME IInv, run[Worker].todo # <<>>, run[Worker].after = <<"cleanup", "outcome">>,
         NEW n \in 0..Len(Labels)
  PROVE  Ends(Raised(Worker), FirstOf(Labels, n)) /\ Raised(Worker).todo # <<>>
  <1>1. /\ Raised(Worker).todo = <<"cleanup", "outcome">> /\ Raised(Worker).after = <<>>
        /\ Raised(Worker).ok = (Worker # Worker)
    BY RaisedFacts, WorkerIsNoRequest, TwoStages
  <1>2. ~ Raised(Worker).ok
    BY <1>1
  <1> QED
    BY <1>1, <1>2 DEF Ends

\* A stage short of the write is followed by the next of the same label.
LEMMA LabelGoesOn ==
  ASSUME IInv, run[Worker].todo # <<>>, Makes(run[Worker], printed),
         Head(run[Worker].todo) \in Making \ {"refuse"}, NEW y,
         y.todo = Tail(run[Worker].todo), y.after = run[Worker].after,
         y.of = run[Worker].of, y.sent = run[Worker].sent
  PROVE  Len(run[Worker].todo) > 1 /\ Makes(y, printed) /\ y.todo # <<>>
  <1> DEFINE x == run[Worker]
  <1>1. EndsInSend(x.todo)
    BY DEF Makes
  <1>2. Len(x.todo) > 1
    <2>1. Head(x.todo) # "send"
      BY DEF Making
    <2> QED
      BY <1>1, <2>1, MakingFacts
  <1>3. EndsInSend(Tail(x.todo)) /\ x.todo[1] = Head(x.todo)
    BY <1>1, <1>2, MakingFacts
  <1>4. x.sent < Len(Labels)
    BY <1>3 DEF Makes
  <1>5. Tail(x.todo) # <<>>
    BY <1>3, MakingFacts
  <1> QED
    BY <1>2, <1>3, <1>4, <1>5 DEF Makes

\* An exception while a label is made leaves what was put out before it.
LEMMA LabelRaises ==
  ASSUME IInv, run[Worker].todo # <<>>, Makes(run[Worker], printed)
  PROVE  LET x == Raised(Worker)
         IN  /\ x \in Running /\ Names(x) = Names(run[Worker]) /\ x.own = {}
             /\ Tokens(x) \subseteq Tokens(run[Worker]) \cup Fresh /\ Follows(x)
             /\ Ends(x, printed) /\ x.todo # <<>>
  <1>1. run[Worker].after = <<"cleanup", "outcome">> /\ run[Worker].after # <<>>
    BY TwoStages DEF Makes
  <1>2. run[Worker].sent \in 0..Len(Labels) /\ printed = FirstOf(Labels, run[Worker].sent)
    BY WorkerGoesOn DEF Makes, Running
  <1>3. Ends(Raised(Worker), printed) /\ Raised(Worker).todo # <<>>
    BY <1>1, <1>2, WorkerRaises
  <1> QED
    BY <1>1, <1>3, RaisedFacts, WorkerGoesOn, WorkerIsNoRequest

\* Nothing in the folder or the queue changes.
LEMMA WorkerQuietStep ==
  ASSUME IInv, NEW x \in Running, run' = [run EXCEPT ![Worker] = x],
         run[Worker].todo # <<>>,
         UNCHANGED <<root, stored, staged, litter, job, hand, attempt>>,
         wrote' \in BOOLEAN, Names(x) = Names(run[Worker]),
         Tokens(x) \subseteq Tokens(run[Worker]) \cup Fresh, Follows(x),
         x.own = {}, x.todo # <<>>, ~ wrote' => printed' = <<>>,
         Makes(x, printed') \/ Ends(x, printed')
  PROVE  IInv'
  <1>1. /\ Names(x) \subseteq root' /\ root \ root' \subseteq Names(run[Worker])
        /\ root' \subseteq root \cup litter' \cup Names(x)
        /\ Names(run[Worker]) \cap root' \subseteq litter' \cup Names(x)
        /\ (litter \cap root') \ litter' \subseteq Names(x)
    BY WorkerIsNoRequest DEF IInv, Kept
  <1>2. root' \subseteq Name /\ litter' \subseteq Name
    BY DEF IInv, TypeOK
  <1> QED
    BY <1>1, <1>2, PipelineStep

\* The pages are rasterised, or the selection is refused.
LEMMA RenderKeeps == ASSUME IInv, Render PROVE IInv'
  <1>1. /\ TypeOK /\ run[Worker].todo # <<>> /\ Worker \in Actor /\ wrote' \in BOOLEAN
        /\ Makes(run[Worker], printed) /\ Follows(run[Worker])
        /\ UNCHANGED <<root, stored, staged, litter, job, hand, attempt, wrote, printed>>
    BY WorkerGoesOn, WorkerIsNoRequest DEF Render, At, files, worker, IInv, TypeOK, Apart
  <1>2. CASE CanOpen(Worker) /\ run' = [run EXCEPT ![Worker] = Went(Worker)]
    <2>1. Head(run[Worker].todo) = "render"
      BY <1>2 DEF Render, CanOpen, At
    <2>2. Head(run[Worker].todo) \in Making \ {"refuse"}
      BY <2>1 DEF Making
    <2>3. Len(run[Worker].todo) > 1
      <3>1. Head(run[Worker].todo) # "send"
        BY <2>1
      <3> QED
        BY <1>1, <3>1, MakingFacts DEF Makes
    <2>4. /\ Went(Worker).todo = Tail(run[Worker].todo)
          /\ Went(Worker).after = run[Worker].after /\ Went(Worker).of = run[Worker].of
          /\ Went(Worker).sent = run[Worker].sent /\ Went(Worker).own = run[Worker].own
          /\ Went(Worker).temps = run[Worker].temps /\ Went(Worker) \in Running
          /\ Tokens(Went(Worker)) \subseteq Tokens(run[Worker]) /\ Follows(Went(Worker))
      BY <1>1, <2>3, WentFacts
    <2>5. Makes(Went(Worker), printed) /\ Went(Worker).todo # <<>>
      BY <1>1, <2>2, <2>4, LabelGoesOn
    <2>6. Names(Went(Worker)) = Names(run[Worker])
      BY <2>4 DEF Names
    <2> QED
      BY <1>1, <1>2, <2>4, <2>5, <2>6, WorkerGoesOn, WorkerQuietStep
  <1>3. CASE run' = [run EXCEPT ![Worker] = Raised(Worker)]
    BY <1>1, <1>3, LabelRaises, WorkerGoesOn, WorkerQuietStep
  <1> QED
    BY <1>2, <1>3 DEF Render

\* A print makes a file, breaks off half way or before it.
LEMMA WorkerProduceKeeps == ASSUME IInv, Produce(Worker) PROVE IInv'
  <1>1. /\ TypeOK /\ run[Worker].todo # <<>> /\ Worker \in Actor /\ wrote' \in BOOLEAN
        /\ Makes(run[Worker], printed) /\ run[Worker].own = {}
        /\ ~ wrote => printed = <<>>
        /\ UNCHANGED <<stored, staged, job, hand, attempt, wrote, printed>>
    BY WorkerGoesOn, WorkerIsNoRequest DEF Produce, At, worker, IInv, TypeOK
  <1>2. /\ Head(run[Worker].todo) \in Making \ {"refuse"}
        /\ Names(run[Worker]) \subseteq root /\ run[Worker].after # <<>>
    <2>1. run[Worker].after # <<>>
      BY <1>1, TwoStages DEF Makes
    <2>2. Head(run[Worker].todo) \in Making \ {"refuse"}
      BY DEF Produce, At, Making
    <2> QED
      BY <1>1, <2>1, <2>2 DEF IInv, Kept
  <1>3. CASE run' = [run EXCEPT ![Worker] = Raised(Worker)] /\ UNCHANGED <<root, litter>>
    BY <1>1, <1>3, LabelRaises, WorkerQuietStep
  <1>4. CASE /\ CanOpen(Worker)
             /\ \E name \in Made(Worker) :
                  /\ root' = root \cup {name}
                  /\ \/ /\ run' = [run EXCEPT ![Worker] = [Went(Worker) EXCEPT
                                     !.temps = Tracked(@, name), !.cur = name]]
                        /\ litter' = litter \ {name}
                     \/ /\ run' = [run EXCEPT ![Worker] = Raised(Worker)]
                        /\ litter' = litter \cup {name}
    <2>1. PICK name \in Made(Worker) :
            /\ root' = root \cup {name}
            /\ \/ /\ run' = [run EXCEPT ![Worker] = [Went(Worker) EXCEPT
                               !.temps = Tracked(@, name), !.cur = name]]
                  /\ litter' = litter \ {name}
               \/ /\ run' = [run EXCEPT ![Worker] = Raised(Worker)]
                  /\ litter' = litter \cup {name}
      BY <1>4
    <2>2. name \in Name /\ name.of \in Tokens(run[Worker]) \cup Fresh
      BY <1>1, <1>2, <1>4, MadeFacts DEF Produce
    <2>3. root' \subseteq Name /\ litter' \subseteq Name
      BY <1>1, <2>1, <2>2 DEF TypeOK
    <2>4. CASE run' = [run EXCEPT ![Worker] = Raised(Worker)] /\ litter' = litter \cup {name}
      BY <1>1, <1>2, <2>1, <2>3, <2>4, LabelRaises, PipelineStep
    <2>5. CASE /\ run' = [run EXCEPT ![Worker] = [Went(Worker) EXCEPT
                            !.temps = Tracked(@, name), !.cur = name]]
               /\ litter' = litter \ {name}
      <3> DEFINE x == [Went(Worker) EXCEPT !.temps = Tracked(@, name), !.cur = name]
      <3>1. Len(run[Worker].todo) > 1
        <4>1. Head(run[Worker].todo) # "send"
          BY <1>2 DEF Making
        <4> QED
          BY <1>1, <4>1, MakingFacts DEF Makes
      <3>2. /\ x \in Running /\ Names(x) = Names(run[Worker]) \cup {name}
            /\ x.own = run[Worker].own
            /\ Tokens(x) \subseteq Tokens(run[Worker]) \cup Fresh /\ Follows(x)
            /\ x.todo = Tail(run[Worker].todo) /\ x.after = run[Worker].after
            /\ x.of = run[Worker].of /\ x.sent = run[Worker].sent
        BY <1>1, <1>2, <2>2, <3>1, TrackingFacts
      <3> HIDE DEF x
      <3>3. Makes(x, printed) /\ x.todo # <<>>
        BY <1>1, <1>2, <3>2, LabelGoesOn
      <3> QED
        BY <1>1, <1>2, <2>1, <2>3, <2>5, <3>2, <3>3, PipelineStep DEF x
    <2> QED
      BY <2>1, <2>4, <2>5
  <1> QED
    BY <1>3, <1>4 DEF Produce

\* One label more.
LEMMA OneMore ==
  ASSUME NEW labels, NEW n \in Nat
  PROVE  Append(FirstOf(labels, n), labels[n + 1]) = FirstOf(labels, n + 1)
  BY DEF FirstOf

\* After a write that went through, the next label or the clean-up is ahead.
LEMMA SentFacts ==
  ASSUME IInv, At(Worker, {"send"})
  PROVE  LET x == Sent(job[hand].print)
             done == FirstOf(Labels, run[Worker].sent + 1)
         IN  /\ x \in Running /\ Names(x) = Names(run[Worker]) /\ x.own = {}
             /\ Tokens(x) \subseteq Tokens(run[Worker]) \cup Fresh /\ Follows(x)
             /\ x.todo # <<>> /\ (Makes(x, done) \/ Ends(x, done))
  <1> DEFINE r == run[Worker]
             n == r.sent
             done == FirstOf(Labels, n + 1)
             print == job[hand].print
  <1>1. /\ TypeOK /\ Worker \in Actor /\ r.todo # <<>> /\ r.own = {} /\ r \in Running
        /\ Makes(r, printed) /\ print \in Prints /\ Len(Labels) \in Nat /\ n \in Nat
        /\ Follows(r)
    BY WorkerGoesOn, WorkerIsNoRequest DEF At, IInv, Running, Apart
  <1>2. n < Len(Labels)
    <2>1. r.todo[1] = "send"
      BY <1>1, MakingFacts DEF Makes, At
    <2> QED
      BY <1>1, <2>1 DEF Makes
  <1>3. EndsInSend(print.page) /\ print.page \in Seq(Stages) /\ print.page # <<>>
    BY <1>1, PrintsEndInSend, MakingFacts
  <1>4. CASE n + 1 < Len(Labels)
    <2> DEFINE x == [r EXCEPT !.todo = print.page, !.sent = n + 1]
    <2>1. Sent(print) = x
      BY <1>4 DEF Sent, Labels
    <2>2. /\ x \in Running /\ x.todo = print.page /\ x.sent = n + 1 /\ x.after = r.after
          /\ x.of = r.of /\ x.cur = r.cur /\ x.temps = r.temps /\ x.own = r.own
      <3>1. n + 1 \in Nat
        BY <1>1
      <3>2. ASSUME NEW page \in Seq(Stages), NEW sent \in Nat
            PROVE  [r EXCEPT !.todo = page, !.sent = sent] \in Running
        BY <1>1 DEF Running
      <3>3. x \in Running
        BY <1>3, <3>1, <3>2
      <3> QED
        BY <1>1, <3>3 DEF Running
    <2> HIDE DEF x
    <2>3. Names(x) = Names(r) /\ Tokens(x) = Tokens(r) /\ Follows(x)
      BY <1>1, <2>2 DEF Names, Tokens, Follows
    <2>4. Makes(x, done)
      BY <1>1, <1>3, <1>4, <2>2 DEF Makes
    <2> QED
      BY <1>1, <1>3, <2>1, <2>2, <2>3, <2>4
  <1>5. CASE ~ n + 1 < Len(Labels)
    <2> DEFINE x == Finally(Worker, TRUE)
    <2>1. Sent(print) = x
      BY <1>5 DEF Sent, Labels
    <2>2. n + 1 = Len(Labels)
      BY <1>1, <1>2, <1>5
    <2>3. r.after = <<"cleanup", "outcome">> /\ r.after # <<>>
      BY <1>1, TwoStages DEF Makes
    <2>4. /\ x \in Running /\ Tokens(x) \subseteq Tokens(r) /\ Follows(x)
          /\ x.todo = <<"cleanup", "outcome">> /\ x.after = <<>>
          /\ x.temps = r.temps /\ x.own = r.own
      BY <1>1, <2>3, FinallyFacts
    <2> HIDE DEF x
    <2>5. Names(x) = Names(r)
      BY <2>4 DEF Names
    <2>6. Ends(x, done)
      BY <1>1, <2>2, <2>4 DEF Ends
    <2>7. x.todo # <<>>
      BY <2>3, <2>4
    <2> QED
      BY <1>1, <2>1, <2>4, <2>5, <2>6, <2>7
  <1> QED
    BY <1>4, <1>5

\* A label is written, broken off in mid-write, or refused.
LEMMA SendKeeps == ASSUME IInv, Send PROVE IInv'
  <1>1. /\ TypeOK /\ run[Worker].todo # <<>> /\ Worker \in Actor
        /\ Makes(run[Worker], printed) /\ run[Worker].own = {} /\ run[Worker] \in Running
        /\ ~ wrote => printed = <<>>
        /\ UNCHANGED <<root, litter, stored, staged, job, hand, attempt>>
        /\ Len(Labels) \in Nat /\ hand \in Job
    BY WorkerGoesOn, WorkerIsNoRequest DEF Send, At, files, IInv
  <1>2. CASE run' = [run EXCEPT ![Worker] = Raised(Worker)] /\ UNCHANGED <<wrote, printed>>
    <2>1. wrote' \in BOOLEAN
      BY <1>1, <1>2 DEF TypeOK
    <2> QED
      BY <1>1, <1>2, <2>1, LabelRaises, WorkerQuietStep
  <1>3. ASSUME NEW through \in BOOLEAN, wrote' = Wrote(through),
               printed' = Append(printed, job[hand].print.labels[run[Worker].sent + 1]),
               run' = [run EXCEPT ![Worker] =
                         IF through THEN Sent(job[hand].print) ELSE Raised(Worker)]
        PROVE  IInv'
    <2> DEFINE n == run[Worker].sent
    <2>1. n \in Nat /\ printed = FirstOf(Labels, n) /\ n < Len(Labels)
      <3>1. run[Worker].todo[1] = "send"
        BY <1>1, MakingFacts DEF Makes, At, Send
      <3> QED
        BY <1>1, <3>1 DEF Makes, Running
    <2>2. printed' = FirstOf(Labels, n + 1)
      BY <1>3, <2>1, OneMore DEF Labels
    <2>3. wrote' = TRUE
      BY <1>3 DEF Wrote
    <2>4. CASE through
      <3>1. run' = [run EXCEPT ![Worker] = Sent(job[hand].print)]
        BY <1>3, <2>4
      <3> QED
        BY <1>1, <2>2, <2>3, <3>1, SentFacts, WorkerQuietStep DEF Send
    <2>5. CASE ~ through
      <3>1. run' = [run EXCEPT ![Worker] = Raised(Worker)]
        BY <1>3, <2>5
      <3>2. Ends(Raised(Worker), printed')
        <4>1. run[Worker].after = <<"cleanup", "outcome">> /\ n + 1 \in 0..Len(Labels)
          BY <1>1, <2>1 DEF Makes
        <4>2. Ends(Raised(Worker), FirstOf(Labels, n + 1))
          BY <1>1, <4>1, WorkerRaises
        <4> QED
          BY <2>2, <4>2
      <3> QED
        BY <1>1, <2>3, <3>1, <3>2, LabelRaises, WorkerQuietStep
    <2> QED
      BY <2>4, <2>5
  <1> QED
    BY <1>2, <1>3 DEF Send

\* The clean-up at the end of a print takes that print's files only.
LEMMA WorkerCleanupKeeps == ASSUME IInv, Cleanup(Worker) PROVE IInv'
  <1>1. PICK stuck \in SUBSET (run[Worker].temps \cap root) :
          root' = root \ (run[Worker].temps \ stuck) /\ litter' = litter \cup stuck
    BY DEF Cleanup
  <1>2. /\ TypeOK /\ Worker \in Actor /\ run[Worker].todo # <<>> /\ run[Worker] \in Running
        /\ UNCHANGED <<stored, staged, job, hand, attempt, wrote, printed>>
        /\ Names(run[Worker]) \subseteq root /\ Ends(run[Worker], printed)
        /\ run[Worker].own = {} /\ (~ wrote => printed = <<>>) /\ wrote' \in BOOLEAN
    BY WorkerGoesOn, WorkerIsNoRequest DEF IInv, Cleanup, At, Kept, TypeOK, worker
  <1>3. run[Worker].todo = <<"cleanup", "outcome">>
    BY <1>2, TwoStages DEF Ends, Cleanup, At
  <1>4. root' \subseteq Name /\ litter' \subseteq Name
    BY <1>1, <1>2 DEF TypeOK
  <1> DEFINE x == [run[Worker] EXCEPT !.todo = Tail(run[Worker].todo), !.temps = {}]
  <1>5. run' = [run EXCEPT ![Worker] = x]
    <2>1. Len(run[Worker].todo) = 2
      BY <1>3, TwoStages
    <2>2. run' = [run EXCEPT ![Worker] = IF Len(run[Worker].todo) > 1
                    THEN [run[Worker] EXCEPT !.todo = Tail(run[Worker].todo), !.temps = {}]
                    ELSE Idle]
      BY DEF Cleanup
    <2> QED
      BY <2>1, <2>2
  <1>6. Tail(run[Worker].todo) = <<"outcome">> /\ Tail(run[Worker].todo) \in Seq(Stages)
    <2>1. run[Worker].todo \in Seq(Stages)
      BY <1>2 DEF Running
    <2> QED
      BY <1>2, <1>3, <2>1, TwoStages, HeadTailProperties
  <1>7. /\ x \in Running /\ x.todo = <<"outcome">> /\ x.temps = {} /\ x.after = <<>>
        /\ x.own = {} /\ x.of = run[Worker].of /\ x.ok = run[Worker].ok
    <2>1. x \in Running
      BY <1>2, <1>6 DEF Running
    <2> QED
      BY <1>2, <1>6 DEF Running, Ends
  <1> HIDE DEF x
  <1>8. Names(x) = {} /\ Tokens(x) \subseteq Tokens(run[Worker]) /\ Follows(x)
    BY <1>7 DEF Names, Tokens, Follows
  <1>9. Ends(x, printed) /\ x.todo # <<>>
    BY <1>2, <1>7 DEF Ends
  <1>10. Names(run[Worker]) = run[Worker].temps
    BY <1>2 DEF Names
  <1> QED
    BY <1>1, <1>2, <1>4, <1>5, <1>7, <1>8, <1>9, <1>10, PipelineStep

\* A step of the registry, or of the worker between attempts.
LEMMA QueueStep ==
  ASSUME IInv, UNCHANGED <<root, litter, run>>,
         stored' \in Folder(Ttl), staged' \in Folder(ShareTtl),
         job' \in Registry, hand' \in Job \cup {Nothing},
         attempt' \in 1..Attempts, wrote' \in BOOLEAN,
         \A j \in Job : job'[j].of = Nothing \/ \E i \in Job : job'[j].of = job[i].of,
         WorkerInOrder', JobsInOrder'
  PROVE  IInv'
  <1>1. TypeOK'
    BY DEF IInv, TypeOK, Folder, Registry
  <1>2. \A r \in Request : Nothing \notin Tokens(run[r])
    BY DEF Tokens
  <1>3. Apart'
    BY <1>2 DEF IInv, Apart
  <1>4. Kept' /\ RequestsInOrder'
    BY DEF IInv, Kept, RequestsInOrder
  <1> QED
    BY <1>1, <1>3, <1>4 DEF IInv

\* The types of what the queue's own steps touch.
LEMMA QueueTypes ==
  ASSUME IInv
  PROVE  /\ TypeOK /\ job \in Registry /\ hand \in Job \cup {Nothing}
         /\ attempt \in 1..Attempts /\ wrote \in BOOLEAN /\ 1 \in 1..Attempts
         /\ stored \in Folder(Ttl) /\ staged \in Folder(ShareTtl)
         /\ Attempts \in Nat \ {0} /\ run \in [Actor -> Running] /\ Worker \in Actor
         /\ Free \in [state : {"free", "queued", "printing", "over"},
                      print : Prints \cup {Nothing}, of : Token \cup {Nothing}]
         /\ Free.state = "free" /\ Free.of = Nothing
         /\ Nothing \notin Job
  BY Ttls, WorkerIsNoRequest, FilesAssumption
     DEF FilesAssumption, IInv, TypeOK, Registry, Free

\* A job that is not printing is not at a label: the worker is between attempts, or
\* at another job.
LEMMA NotPrinting ==
  ASSUME IInv
  PROVE  /\ \A j \in Job : job[j].state # "printing" => run[Worker] = Idle \/ j # hand
         /\ \A j \in Job : run[Worker] = Idle => job[j].state # "printing"
  BY DEF IInv, WorkerInOrder, JobsInOrder

\* The worker is not at the job that changes.
LEMMA OtherJobStep ==
  ASSUME IInv, NEW j \in Job, run[Worker] = Idle \/ j # hand,
         NEW new \in [state : {"free", "queued", "over"},
                      print : Prints \cup {Nothing}, of : Token \cup {Nothing}],
         new = Free \/ (new.state # "free" /\ new.print \in Prints),
         new.of = Nothing \/ \E i \in Job : new.of = job[i].of,
         job' = [job EXCEPT ![j] = new],
         UNCHANGED <<files, run, worker, printed>>
  PROVE  IInv'
  <1>1. /\ job' \in Registry /\ job'[j] = new
        /\ \A i \in Job : i # j => job'[i] = job[i]
    BY QueueTypes DEF Registry
  <1>2. /\ UNCHANGED <<root, stored, staged, litter, run, hand, attempt, wrote, printed>>
    BY DEF files, worker
  <1>3. WorkerInOrder'
    <2>1. CASE run[Worker] = Idle
      BY <1>2, <2>1 DEF IInv, WorkerInOrder
    <2>2. CASE run[Worker] # Idle
      <3>1. hand # j /\ hand \in Job
        BY <2>2, QueueTypes DEF IInv, WorkerInOrder
      <3>2. job'[hand] = job[hand]
        BY <1>1, <3>1
      <3> QED
        BY <1>2, <2>2, <3>2 DEF IInv, WorkerInOrder, Makes, Ends, Labels
    <2> QED
      BY <2>1, <2>2
  <1>4. JobsInOrder'
    BY <1>1, <1>2 DEF IInv, JobsInOrder
  <1>5. \A i \in Job : job'[i].of = Nothing \/ \E k \in Job : job'[i].of = job[k].of
    BY <1>1
  <1> QED
    BY <1>1, <1>2, <1>3, <1>4, <1>5, QueueTypes, QueueStep

\* Reprints, cancels and removals.
LEMMA RegistryKeeps ==
  ASSUME IInv, NEW j \in Job, NEW k \in Job, Reprint(j, k) \/ Cancel(j) \/ RemoveJob(j)
  PROVE  IInv'
  <1>1. /\ job \in Registry /\ \A i \in Job :
             job[i] = Free \/ (job[i].state # "free" /\ job[i].print \in Prints)
    BY QueueTypes DEF IInv, JobsInOrder
  <1>2. CASE Reprint(j, k)
    <2> DEFINE new == [job[j] EXCEPT !.state = "queued"]
    <2>1. /\ new \in [state : {"free", "queued", "over"},
                      print : Prints \cup {Nothing}, of : Token \cup {Nothing}]
          /\ new.state = "queued" /\ new.print \in Prints /\ new.of = job[j].of
      BY <1>1, <1>2 DEF Registry, Reprint
    <2>2. k # hand /\ job' = [job EXCEPT ![k] = new]
          /\ UNCHANGED <<files, run, worker, printed>>
      BY <1>2 DEF Reprint
    <2> QED
      BY <2>1, <2>2, OtherJobStep
  <1>3. CASE Cancel(j)
    <2> DEFINE new == [job[j] EXCEPT !.state = "over"]
    <2>1. /\ new \in [state : {"free", "queued", "over"},
                      print : Prints \cup {Nothing}, of : Token \cup {Nothing}]
          /\ new.state = "over" /\ new.print \in Prints /\ new.of = job[j].of
      <3>1. job[j] # Free
        BY <1>3, QueueTypes DEF Cancel
      <3> QED
        BY <1>1, <3>1 DEF Registry
    <2>2. run[Worker] = Idle \/ j # hand
      BY <1>3, NotPrinting DEF Cancel
    <2>3. job' = [job EXCEPT ![j] = new] /\ UNCHANGED <<files, run, worker, printed>>
      BY <1>1, <1>3 DEF Cancel, Registry
    <2> QED
      BY <2>1, <2>2, <2>3, OtherJobStep
  <1>4. CASE RemoveJob(j)
    <2>1. run[Worker] = Idle \/ j # hand
      BY <1>4, NotPrinting DEF RemoveJob
    <2>2. Free \in [state : {"free", "queued", "over"},
                    print : Prints \cup {Nothing}, of : Token \cup {Nothing}]
          /\ Free.of = Nothing
      BY DEF Free
    <2> QED
      BY <1>4, <2>1, <2>2, OtherJobStep DEF RemoveJob
  <1> QED
    BY <1>2, <1>3, <1>4

\* The worker takes a job and sweeps.
LEMMA TakeKeeps == ASSUME IInv, NEW j \in Job, Take(j) PROVE IInv'
  <1>1. /\ UNCHANGED <<root, staged, litter, job, run>> /\ hand = Nothing
        /\ hand' = j /\ attempt' = 1 /\ wrote' = FALSE /\ printed' = <<>>
        /\ stored' \in Folder(Ttl)
    BY QueueTypes, Ttls, FolderFacts DEF Take
  <1>2. run[Worker] = Idle
    BY <1>1 DEF IInv, WorkerInOrder
  <1>3. WorkerInOrder' /\ JobsInOrder'
    BY <1>1, <1>2, NotPrinting DEF WorkerInOrder, JobsInOrder, IInv
  <1> QED
    BY <1>1, <1>3, QueueTypes, QueueStep

\* The gate raises, or the queue is stopped while the job waits.
LEMMA GiveUpKeeps == ASSUME IInv, GiveUp PROVE IInv'
  <1>1. /\ UNCHANGED <<root, stored, staged, litter, run>> /\ hand \in Job
        /\ hand' = Nothing /\ attempt' = 1 /\ wrote' = FALSE /\ printed' = <<>>
        /\ run[Worker] = Idle
    BY QueueTypes DEF GiveUp, files, LetGo
  <1>2. /\ job' \in Registry
        /\ \A j \in Job : job'[j].state # "printing" /\ job'[j].of = job[j].of
        /\ \A j \in Job : job'[j] = Free \/ (job'[j].state # "free" /\ job'[j].print \in Prints)
    <2>1. CASE job[hand] = Free
      BY <1>1, <2>1, NotPrinting, QueueTypes DEF GiveUp, IInv, JobsInOrder
    <2>2. CASE job[hand] # Free
      <3>1. job' = [job EXCEPT ![hand].state = "over"]
        BY <2>2 DEF GiveUp
      <3>2. job' \in Registry /\ job'[hand].state = "over" /\ job'[hand].of = job[hand].of
            /\ job'[hand].print = job[hand].print
            /\ \A j \in Job : j # hand => job'[j] = job[j]
        BY <1>1, <3>1, QueueTypes DEF Registry
      <3> QED
        BY <1>1, <2>2, <3>2, NotPrinting DEF IInv, JobsInOrder
    <2> QED
      BY <2>1, <2>2
  <1>3. WorkerInOrder' /\ JobsInOrder'
    BY <1>1, <1>2 DEF WorkerInOrder, JobsInOrder
  <1> QED
    BY <1>1, <1>2, <1>3, QueueTypes, QueueStep

\* An attempt begins, or finds its job gone.
LEMMA BeginKeeps == ASSUME IInv, Begin PROVE IInv'
  <1>1. /\ UNCHANGED <<root, stored, staged, litter>> /\ hand \in Job /\ run[Worker] = Idle
        /\ printed = <<>>
    BY QueueTypes DEF Begin, files, IInv, WorkerInOrder
  <1>2. CASE job[hand].state \in {"free", "over"}
    <2>1. /\ UNCHANGED <<job, run>> /\ hand' = Nothing /\ attempt' = 1 /\ wrote' = FALSE
          /\ printed' = <<>>
      BY <1>2 DEF Begin, LetGo
    <2>2. WorkerInOrder' /\ JobsInOrder'
      BY <1>1, <2>1, NotPrinting DEF WorkerInOrder, JobsInOrder, IInv
    <2> QED
      BY <1>1, <2>1, <2>2, QueueTypes, QueueStep
  <1>3. CASE job[hand].state \notin {"free", "over"}
    <2> DEFINE of == job[hand].of
               print == job[hand].print
               cur == IF of = Nothing THEN Nothing ELSE Bare(of)
               x == [Idle EXCEPT !.todo = print.first, !.after = <<"cleanup", "outcome">>,
                                 !.of = of, !.cur = cur]
    <2>1. /\ job' = [job EXCEPT ![hand].state = "printing"]
          /\ run' = [run EXCEPT ![Worker] = x]
          /\ wrote' = FALSE /\ UNCHANGED <<hand, attempt, printed>>
      BY <1>3 DEF Begin
    <2>2. print \in Prints /\ of \in Token \cup {Nothing}
      BY <1>1, <1>3, QueueTypes DEF IInv, JobsInOrder, Registry
    <2>3. /\ EndsInSend(print.first) /\ print.first \in Seq(Stages) /\ print.first # <<>>
          /\ Len(print.labels) \in Nat
          /\ print.first[1] = "refuse" \/ 0 < Len(print.labels)
      BY <2>2, PrintsEndInSend, MakingFacts
    <2>4. cur \in Name \cup {Nothing}
      BY <2>2 DEF Name, Bare
    <2>5. <<"cleanup", "outcome">> \in Seq(Stages)
      BY StageLists DEF Stages
    <2>6. /\ x \in Running /\ x.todo = print.first /\ x.after = <<"cleanup", "outcome">>
          /\ x.of = of /\ x.cur = cur /\ x.temps = {} /\ x.own = {} /\ x.sent = 0
      <3>1. x \in Running
        BY <2>2, <2>3, <2>4, <2>5, IdleFacts DEF Running
      <3> QED
        BY <3>1 DEF Idle
    <2> HIDE DEF x
    <2>7. Names(x) = {} /\ Tokens(x) \subseteq {of} /\ Follows(x)
      BY <2>6 DEF Names, Tokens, Follows
    <2>8. /\ job' \in Registry /\ job'[hand].state = "printing"
          /\ job'[hand].print = print /\ job'[hand].of = of
          /\ \A j \in Job : j # hand => job'[j] = job[j]
      BY <1>1, <2>1, QueueTypes DEF Registry
    <2>9. TakesUp(Worker, x) /\ KnownUploads(Worker, x)
      <3>1. \A j \in Job : \E i \in Job : job'[j].of = job[i].of
        BY <1>1, <2>8
      <3> QED
        BY <1>1, <2>7, <3>1 DEF TakesUp, KnownUploads
    <2>10. run'[Worker] = x /\ x # Idle
      BY <2>1, <2>3, <2>6, IdleFacts, QueueTypes
    <2>11. Makes(run[Worker], printed)'
      <3>1. /\ run'[Worker].todo = print.first /\ run'[Worker].sent = 0
            /\ run'[Worker].after = <<"cleanup", "outcome">> /\ run'[Worker].of = of
        BY <2>6, <2>10
      <3>2. Labels' = print.labels /\ job'[hand'].of = of /\ printed' = <<>>
        BY <1>1, <2>1, <2>8 DEF Labels
      <3>3. FirstOf(print.labels, 0) = <<>>
        BY DEF FirstOf
      <3> QED
        BY <2>3, <3>1, <3>2, <3>3 DEF Makes, FirstOf
    <2>12. WorkerInOrder'
      <3>1. /\ hand' # Nothing /\ job'[hand'].state = "printing" /\ run'[Worker].own = {}
            /\ printed' = <<>>
        BY <1>1, <2>1, <2>6, <2>8, <2>10, QueueTypes
      <3> QED
        BY <2>10, <2>11, <3>1 DEF WorkerInOrder, Idle
    <2>13. JobsInOrder'
      <3>1. \A j \in Job : j # hand => job'[j].state # "printing"
        BY <1>1, <2>8, NotPrinting
      <3>2. run'[Worker] # Idle
        BY <2>10
      <3> QED
        BY <2>1, <2>2, <2>8, <3>1, <3>2 DEF IInv, JobsInOrder, Idle, Free
    <2>14. Names(run[Worker]) = {}
      BY <1>1, IdleFacts
    <2> QED
      BY <1>1, <2>1, <2>6, <2>7, <2>8, <2>9, <2>12, <2>13, <2>14, QueueTypes, ThreadStep
         DEF TypeOK
  <1> QED
    BY <1>2, <1>3

\* An attempt ends: the job is over, or tried again with nothing put out.
LEMMA OutcomeKeeps == ASSUME IInv, Outcome PROVE IInv'
  <1>1. /\ UNCHANGED <<root, stored, staged, litter>> /\ hand \in Job
        /\ run' = [run EXCEPT ![Worker] = Idle]
        /\ ~ wrote => printed = <<>>
        /\ job[hand].print \in Prints
        /\ Ends(run[Worker], printed) /\ run[Worker].own = {}
    BY WorkerGoesOn DEF Outcome, files, At
  <1>2. Names(run[Worker]) = {}
    BY <1>1, TwoStages DEF Ends, Names, Outcome, At
  <1>3. run'[Worker] = Idle
    BY <1>1, QueueTypes
  <1>4. /\ job' \in Registry /\ \A j \in Job : job'[j].state # "printing"
        /\ \A j \in Job : job'[j].of = job[j].of
        /\ \A j \in Job : job'[j] = Free \/ (job'[j].state # "free" /\ job'[j].print \in Prints)
    <2>1. PICK state \in {"over", "queued"} : job' = [job EXCEPT ![hand].state = state]
      BY DEF Outcome
    <2>2. /\ job' \in Registry /\ job'[hand].state = state
          /\ job'[hand].of = job[hand].of /\ job'[hand].print = job[hand].print
          /\ \A j \in Job : j # hand => job'[j] = job[j]
      BY <1>1, <2>1, QueueTypes DEF Registry
    <2> QED
      BY <1>1, <2>1, <2>2 DEF IInv, JobsInOrder
  <1>5. \/ hand' = Nothing /\ attempt' = 1 /\ wrote' = FALSE /\ printed' = <<>>
        \/ /\ ~ wrote /\ attempt < Attempts /\ attempt' = attempt + 1
           /\ UNCHANGED <<hand, wrote, printed>>
    BY DEF Outcome, LetGo, MayRetry
  <1>6. hand' \in Job \cup {Nothing} /\ attempt' \in 1..Attempts /\ wrote' \in BOOLEAN
    <2>1. attempt < Attempts => attempt + 1 \in 1..Attempts
      BY QueueTypes
    <2>2. hand \in Job \cup {Nothing} /\ wrote \in BOOLEAN /\ 1 \in 1..Attempts
      BY QueueTypes
    <2> QED
      BY <1>5, <2>1, <2>2
  <1>7. WorkerInOrder' /\ JobsInOrder'
    BY <1>1, <1>3, <1>4, <1>5 DEF WorkerInOrder, JobsInOrder, Idle
  <1>8. TakesUp(Worker, Idle) /\ KnownUploads(Worker, Idle)
    BY <1>4, IdleFacts DEF TakesUp, KnownUploads
  <1> QED
    BY <1>1, <1>2, <1>4, <1>6, <1>7, <1>8, IdleFacts, QueueTypes, ThreadStep DEF TypeOK

\* Files grow older.
LEMMA TickKeeps == ASSUME IInv, Tick PROVE IInv'
  <1>1. /\ UNCHANGED <<root, litter, job, run, hand, attempt, wrote, printed>>
        /\ stored' \in Folder(Ttl) /\ staged' \in Folder(ShareTtl)
    BY QueueTypes, Ttls, FolderFacts DEF Tick, worker
  <1>2. WorkerInOrder' /\ JobsInOrder'
    BY <1>1 DEF IInv, WorkerInOrder, JobsInOrder, Makes, Ends, Labels
  <1> QED
    BY <1>1, <1>2, QueueTypes, QueueStep

\* Nothing happens.
LEMMA StutterKeeps == ASSUME IInv, UNCHANGED vars PROVE IInv'
  <1>1. UNCHANGED <<root, stored, staged, litter, job, run, hand, attempt, wrote, printed>>
    BY DEF vars, files, worker
  <1>2. WorkerInOrder' /\ JobsInOrder'
    BY <1>1 DEF IInv, WorkerInOrder, JobsInOrder, Makes, Ends, Labels
  <1> QED
    BY <1>1, <1>2, QueueTypes, QueueStep

\* A beginning: nobody tracks a file, and there is no job.
NoneRunning ==
  /\ run = [a \in Actor |-> Idle] /\ job = [j \in Job |-> Free] /\ hand = Nothing
  /\ root \subseteq litter

\* With nothing running and nothing registered the invariant holds.
LEMMA Anew == NoneRunning /\ TypeOK => IInv
  <1> SUFFICES ASSUME NoneRunning, TypeOK PROVE IInv
    OBVIOUS
  <1> USE DEF NoneRunning
  <1>1. \A a \in Actor : run[a] = Idle
    OBVIOUS
  <1>2. \A j \in Job : job[j] = Free /\ Free.state = "free"
    BY DEF Free
  <1>3. Apart /\ Kept
    BY <1>1, IdleFacts, WorkerIsNoRequest DEF Apart, Kept
  <1>4. RequestsInOrder
    BY <1>1, IdleNow, WorkerIsNoRequest DEF RequestsInOrder
  <1>5. WorkerInOrder /\ JobsInOrder
    BY <1>1, <1>2, WorkerIsNoRequest DEF WorkerInOrder, JobsInOrder
  <1> QED
    BY <1>3, <1>4, <1>5 DEF IInv

\* The service starts with empty folders.
LEMMA Beginnings == Init => IInv
  <1> SUFFICES ASSUME Init PROVE IInv
    OBVIOUS
  <1>1. TypeOK
    <2>1. <<>> \in Folder(Ttl) /\ <<>> \in Folder(ShareTtl)
      <3>1. \A ttl \in Nat : <<>> \in [{} -> 0..ttl + 1] /\ {} \in SUBSET Token
        OBVIOUS
      <3> QED
        BY <3>1, Ttls DEF Folder
    <2>2. /\ Free \in [state : {"free", "queued", "printing", "over"},
                       print : Prints \cup {Nothing}, of : Token \cup {Nothing}]
          /\ 1 \in 1..Attempts
      BY FilesAssumption DEF FilesAssumption, Free
    <2> QED
      BY <2>1, <2>2, IdleFacts DEF Init, TypeOK, Folder
  <1> QED
    BY <1>1, Anew DEF Init, NoneRunning

\* After a restart what was in the folder is litter.
LEMMA RestartKeeps == ASSUME IInv, Restart PROVE IInv'
  <1>1. /\ root' = root /\ litter' = root /\ stored' = stored /\ staged' = staged
        /\ job' = [j \in Job |-> Free] /\ run' = [a \in Actor |-> Idle]
        /\ hand' = Nothing /\ attempt' = 1 /\ wrote' = FALSE
    BY DEF Restart, LetGo
  <1>2. TypeOK'
    BY <1>1, QueueTypes, IdleFacts DEF TypeOK, Registry, Folder
  <1>3. NoneRunning'
    BY <1>1 DEF NoneRunning, Free, Idle, Actor
  <1> QED
    BY <1>2, <1>3, Anew, PTL

\* Every step keeps the invariant.
LEMMA Inductive == IInv /\ [Next]_vars => IInv'
  <1> SUFFICES ASSUME IInv, [Next]_vars PROVE IInv'
    OBVIOUS
  <1>1. CASE \E r \in Request : OfRequest(r)
    BY <1>1, ReceiveKeeps, SaveKeeps, BorrowKeeps, CheckKeeps, SubmitKeeps, SharesKeep,
       DiscardKeeps DEF OfRequest
  <1>2. CASE \E a \in Actor : OfPipeline(a)
    BY <1>2, RequestProduceKeeps, WorkerProduceKeeps, RequestCleanupKeeps,
       WorkerCleanupKeeps DEF OfPipeline, Actor
  <1>3. CASE OfWorker
    BY <1>3, TakeKeeps, BeginKeeps, GiveUpKeeps, RenderKeeps, SendKeeps, OutcomeKeeps
       DEF OfWorker
  <1>4. CASE \E j, k \in Job : Reprint(j, k)
    BY <1>4, RegistryKeeps
  <1>5. CASE \E j \in Job : Cancel(j) \/ RemoveJob(j)
    BY <1>5, RegistryKeeps
  <1>6. CASE Tick
    BY <1>6, TickKeeps
  <1>7. CASE Restart
    BY <1>7, RestartKeeps
  <1>8. CASE UNCHANGED vars
    BY <1>8, StutterKeeps
  <1> QED
    BY <1>1, <1>2, <1>3, <1>4, <1>5, <1>6, <1>7, <1>8 DEF Next

-----------------------------------------------------------------------------
(* The results.                                                            *)

\* Whatever requests, prints, faults and restarts come together, every thread is at
\* a stage of what it was asked for, works on uuids of its own, and the files it
\* tracks are in the upload folder.
THEOREM FilesInvariant == Spec => []IInv
  BY Beginnings, Inductive, PTL DEF Spec

\* Files are known by uuid and prefix, ages stay in their range, and the registry,
\* the threads and the worker hold what they may.
THEOREM TypeCorrect == Spec => []TypeOK
  <1>1. IInv => TypeOK
    BY DEF IInv
  <1> QED
    BY <1>1, FilesInvariant, PTL

\* The file a thread has just made or uploaded stays until that thread removes it:
\* no other thread's clean-up, no rename and no restart takes it away.
THEOREM NobodyElseRemoves == Spec => []ArtefactsStay
  <1>1. IInv => ArtefactsStay
    <2> SUFFICES ASSUME IInv PROVE ArtefactsStay
      OBVIOUS
    <2>1. \A a \in Actor : Names(run[a]) \subseteq root /\ root \subseteq Name
      BY DEF IInv, Kept, TypeOK
    <2>2. \A n \in Name : n.of # Nothing
      BY FilesAssumption DEF FilesAssumption, Name
    <2>3. \A a \in Actor : \A n \in Names(run[a]) : n.of \in Tokens(run[a])
      BY <2>1, <2>2 DEF Tokens
    <2>4. \A a, b \in Actor : a # b => Names(run[a]) \cap Names(run[b]) = {}
      BY <2>3 DEF IInv, Apart
    <2> QED
      BY <2>1, <2>4 DEF ArtefactsStay, Names
  <1> QED
    BY <1>1, FilesInvariant, PTL

\* The upload folder, which nothing sweeps, holds nothing that no running pipeline
\* or preview tracks, but for what a fault or a restart left.
THEOREM FolderStaysClean == Spec => []NoStrays
  <1>1. IInv => NoStrays
    BY DEF IInv, Kept, NoStrays, Names
  <1> QED
    BY <1>1, FilesInvariant, PTL

\* Every pipeline's labels are a list.
LEMMA LabelsAreLists ==
  ASSUME NEW print \in Prints
  PROVE  print.labels = FirstOf(print.labels, Len(print.labels))
  <1>1. ASSUME NEW setup, NEW page, NEW labels
        PROVE  Puts(setup, page, labels).labels = labels
    BY DEF Puts
  <1>2. <<1>> = FirstOf(<<1>>, Len(<<1>>))
    BY DEF FirstOf
  <1>3. ASSUME NEW n \in Nat, NEW labels, labels = [i \in 1..n |-> labels[i]]
        PROVE  labels = FirstOf(labels, Len(labels))
    <2>1. Len(labels) = n
      BY <1>3
    <2> QED
      BY <1>3, <2>1 DEF FirstOf
  <1>4. ASSUME NEW spec \in Specs
        PROVE  LET pages == Ascending(Selected(spec))
               IN  pages = FirstOf(pages, Len(pages))
    <2>1. Cardinality(Selected(spec)) \in Nat
      BY PagesSelected
    <2> DEFINE pages == Ascending(Selected(spec))
               n == Cardinality(Selected(spec))
               page(i) == CHOOSE p \in Selected(spec) :
                            Cardinality({q \in Selected(spec) : q < p}) = i - 1
    <2>2. pages = [i \in 1..n |-> page(i)]
      BY DEF Ascending
    <2> HIDE DEF pages, page, n
    <2>3. pages = [i \in 1..n |-> pages[i]]
      BY <2>2
    <2>4. pages = FirstOf(pages, Len(pages))
      BY <1>3, <2>1, <2>3 DEF n
    <2> QED
      BY <2>4 DEF pages
  <1>5. ASSUME NEW n \in Sweeps
        PROVE  [i \in 1..n |-> i] = FirstOf([i \in 1..n |-> i], Len([i \in 1..n |-> i]))
    <2>1. n \in Nat
      BY FilesAssumption DEF FilesAssumption
    <2> QED
      BY <1>3, <2>1
  <1>6. \A rotate \in Rotations :
          /\ PrintText(rotate).labels = <<1>> /\ PrintQrCode(rotate).labels = <<1>>
          /\ PrintImage(rotate).labels = <<1>> /\ PrintTextImage(rotate).labels = <<1>>
    BY <1>1 DEF PrintText, PrintQrCode, PrintImage, PrintTextImage
  <1>7. \A rotate \in Rotations, spec \in Specs :
          PrintPdf(rotate, spec).labels = Ascending(Selected(spec))
    BY <1>1 DEF PrintPdf
  <1>8. \A n \in Sweeps : PrintCalibration(n).labels = [i \in 1..n |-> i]
    BY <1>1 DEF PrintCalibration
  <1> DEFINE Listed(labels) == labels = FirstOf(labels, Len(labels))
  <1>9. /\ Listed(<<1>>) /\ \A spec \in Specs : Listed(Ascending(Selected(spec)))
        /\ \A n \in Sweeps : Listed([i \in 1..n |-> i])
    BY <1>2, <1>4, <1>5
  <1> HIDE DEF Listed
  <1>10. /\ \A rotate \in Rotations :
              /\ Listed(PrintText(rotate).labels) /\ Listed(PrintQrCode(rotate).labels)
              /\ Listed(PrintImage(rotate).labels) /\ Listed(PrintTextImage(rotate).labels)
         /\ \A rotate \in Rotations, spec \in Specs : Listed(PrintPdf(rotate, spec).labels)
         /\ \A n \in Sweeps : Listed(PrintCalibration(n).labels)
    BY <1>6, <1>7, <1>8, <1>9
  <1>11. Listed(print.labels)
    BY <1>10 DEF Prints
  <1> QED
    BY <1>11 DEF Listed

\* However often its schedule lets the worker try again, no label of a job is
\* written twice, labels come in order, and a job that is done put out all of them.
THEOREM LabelsInOrder == Spec => []EachLabelOnce
  <1>1. IInv => EachLabelOnce
    <2> SUFFICES ASSUME IInv, hand # Nothing, job[hand] # Free
                 PROVE  /\ IsPrefix(printed, Labels)
                        /\ At(Worker, {"outcome"}) /\ run[Worker].ok => printed = Labels
      BY DEF EachLabelOnce, Labels
    <2>1. hand \in Job /\ job[hand].print \in Prints
      BY QueueTypes DEF IInv, JobsInOrder
    <2>2. Labels = FirstOf(Labels, Len(Labels)) /\ Len(Labels) \in Nat
      BY <2>1, LabelsAreLists, PrintsEndInSend DEF Labels
    <2>3. PICK n \in 0..Len(Labels) : printed = FirstOf(Labels, n)
      <3>1. CASE run[Worker] = Idle
        <4>1. printed = FirstOf(Labels, 0)
          BY <3>1 DEF IInv, WorkerInOrder, FirstOf
        <4> QED
          BY <2>2, <4>1
      <3>2. CASE run[Worker] # Idle /\ Makes(run[Worker], printed)
        <4>1. run[Worker].sent \in Nat
          BY QueueTypes DEF Running
        <4> QED
          BY <2>2, <3>2, <4>1 DEF Makes
      <3>3. CASE run[Worker] # Idle /\ Ends(run[Worker], printed)
        BY <3>3 DEF Ends
      <3> QED
        BY <3>1, <3>2, <3>3 DEF IInv, WorkerInOrder
    <2>4. IsPrefix(printed, Labels)
      <3>1. Len(printed) = n /\ printed = [i \in 1..n |-> Labels[i]]
        BY <2>3 DEF FirstOf
      <3>2. SubSeq(printed, 1, n) = SubSeq(Labels, 1, n)
        BY <2>2, <2>3, <3>1
      <3> QED
        BY <2>2, <2>3, <3>1, <3>2 DEF IsPrefix
    <2>5. ASSUME At(Worker, {"outcome"}), run[Worker].ok PROVE printed = Labels
      <3>1. Ends(run[Worker], printed)
        BY <2>5, WorkerGoesOn DEF At
      <3> QED
        BY <2>2, <2>5, <3>1 DEF Ends
    <2> QED
      BY <2>4, <2>5
  <1> QED
    BY <1>1, FilesInvariant, PTL

\* What a sweep takes is past its time to live; a write and a tick take nothing.
LEMMA SweptIsOld ==
  ASSUME NEW ttl \in Nat, NEW folder \in Folder(ttl), NEW t \in DOMAIN folder
  PROVE  /\ t \notin DOMAIN Swept(folder, ttl) => folder[t] > ttl
         /\ \A u : t \in DOMAIN Written(folder, u)
         /\ t \in DOMAIN Older(folder, ttl)
  <1>1. folder[t] \in Nat
    BY DEF Folder
  <1>2. DOMAIN Swept(folder, ttl) = {u \in DOMAIN folder : folder[u] <= ttl}
    BY DEF Swept, Restrict
  <1> QED
    BY <1>1, <1>2 DEF Written, Older

\* An upload under jobs/ goes only past its time to live, or while the request that
\* saved it still checks it, and a shared file only past its own: no print, preview,
\* reprint, removal of a job or restart deletes one.
THEOREM FilesAreKept == Spec => KeptForTheirTtl
  <1> DEFINE A == /\ \A t \in DOMAIN stored \ DOMAIN stored' :
                       \/ stored[t] > Ttl
                       \/ \E r \in Request : At(r, {"check"}) /\ run[r].of = t
                  /\ \A t \in DOMAIN staged \ DOMAIN staged' : staged[t] > ShareTtl
  <1>1. TypeOK /\ [Next]_vars => [A]_vars
    <2> SUFFICES ASSUME TypeOK, Next PROVE A
      BY DEF vars
    <2>1. /\ stored \in Folder(Ttl) /\ staged \in Folder(ShareTtl)
          /\ Ttl \in Nat /\ ShareTtl \in Nat
      BY Ttls
    <2>2. stored' \in {stored, Swept(stored, Ttl)} /\ staged' = staged => A
      BY <2>1, SweptIsOld
    <2>3. ASSUME NEW r \in Request, OfRequest(r) PROVE A
      <3>1. CASE Receive(r) \/ Borrow(r) \/ Discard(r) \/ Submit(r)
        BY <2>2, <3>1 DEF Receive, Borrow, Discard, Submit, files
      <3>2. CASE Save(r)
        BY <2>1, <3>2, SweptIsOld DEF Save
      <3>3. CASE Check(r)
        <4>1. DOMAIN Restrict(stored, DOMAIN stored \ {run[r].of}) = DOMAIN stored \ {run[r].of}
          BY DEF Restrict
        <4> QED
          BY <2>3, <3>3, <4>1 DEF Check
      <3>4. CASE SweepShares(r) \/ Stage(r)
        BY <2>1, <3>4, SweptIsOld DEF SweepShares, Stage
      <3> QED
        BY <2>3, <3>1, <3>2, <3>3, <3>4 DEF OfRequest
    <2>4. ASSUME NEW a \in Actor, OfPipeline(a) PROVE A
      BY <2>2, <2>4 DEF OfPipeline, Produce, Cleanup
    <2>5. CASE OfWorker
      BY <2>2, <2>5 DEF OfWorker, Take, Begin, GiveUp, Render, Send, Outcome, files
    <2>6. CASE \E j, k \in Job : Reprint(j, k) \/ Cancel(j) \/ RemoveJob(j)
      BY <2>2, <2>6 DEF Reprint, Cancel, RemoveJob, files
    <2>7. CASE Tick
      BY <2>1, <2>7, SweptIsOld DEF Tick
    <2>8. CASE Restart
      BY <2>2, <2>8 DEF Restart
    <2> QED
      BY <2>3, <2>4, <2>5, <2>6, <2>7, <2>8 DEF Next
  <1>2. TypeOK /\ [Next]_vars =>
          [/\ \A t \in DOMAIN stored \ DOMAIN stored' :
                stored[t] > Ttl \/ \E r \in Request : At(r, {"check"}) /\ run[r].of = t
           /\ \A t \in DOMAIN staged \ DOMAIN staged' : staged[t] > ShareTtl]_vars
    BY <1>1
  <1> QED
    BY <1>2, TypeCorrect, PTL DEF Spec, KeptForTheirTtl
=============================================================================
