------------------------ MODULE RasterPlacementProofs ------------------------
(* Proofs about RasterPlacement, for any catalogue, head, model, limits and *)
(* number of converting threads.                                            *)
EXTENDS RasterPlacement, TLAPS

-----------------------------------------------------------------------------
(* Arithmetic.                                                              *)

\* A whole number of dots, told in hundredths of a millimetre and stored again,
\* converts to the same dots (applied_mm of a bleed, x_mm of a report).
THEOREM FedBackUnchanged == \A d \in Int : Dots(Hundredths(d)) = d
  BY SMTT(30) DEF Dots, Hundredths, Nearest

\* Conversions yield whole dots, never negative ones for a length.
LEMMA DotsWhole ==
  /\ \A h \in Int : Dots(h) \in Int
  /\ \A h \in Nat : Dots(h) \in Nat
  BY DEF Dots, Nearest

\* Clamping stays within ordered bounds.
LEMMA WithinBounds ==
  \A lo, x, hi \in Int : lo <= hi => Within(lo, x, hi) \in lo..hi
  BY DEF Within, Least, Greatest

\* An offset is a whole number of dots.
LEMMA OffsetWhole == \A x \in Int : OffsetDots(x) \in Int
<1> TAKE x \in Int
<1>1. Within(-CalibrationMax, x, CalibrationMax) \in Int
  BY WithinBounds, RasterAssumption DEF RasterAssumption
<1> QED
  BY <1>1, DotsWhole DEF OffsetDots

\* A bleed never makes a label wider than its paper or than the head.
LEMMA BleedFits ==
  ASSUME NEW l \in Labels, NEW h \in Int
  PROVE  /\ BleedDots(l, h) \in Nat
         /\ BleedLimit(l) \in Nat
         /\ BleedDots(l, h) <= BleedLimit(l)
         /\ Catalogue[l].width + 2 * BleedLimit(l) <= Head
<1> DEFINE e == Catalogue[l]
<1>1. e.width \in Nat /\ e.total \in Nat /\ e.width <= Head /\ Head \in Nat
  BY RasterAssumption DEF RasterAssumption, Entry
<1>2. /\ BleedLimit(l) \in Nat
      /\ e.width + 2 * BleedLimit(l) <= Head
  BY <1>1 DEF BleedLimit, Least, Greatest
<1>3. Within(0, h, BleedMax) \in Nat
  BY WithinBounds, RasterAssumption DEF RasterAssumption
<1>4. Dots(Within(0, h, BleedMax)) \in Nat
  BY <1>3, DotsWhole
<1>5. BleedDots(l, h) \in Nat /\ BleedDots(l, h) <= BleedLimit(l)
  BY <1>2, <1>4 DEF BleedDots, Least
<1> QED
  BY <1>2, <1>5

-----------------------------------------------------------------------------
(* The published entry.                                                     *)

\* The width, kind and margin of the entry published for a request.
LEMMA EditFields ==
  ASSUME NEW q \in Request
  PROVE  LET e    == Catalogue[q.label]
             b    == BleedDots(q.label, q.bleed)
             room == Head - (e.width + 2 * b)
             home == room - (e.margin - b + Addition)
         IN /\ Edit(q) \in Entry
            /\ Edit(q).width = e.width + 2 * b
            /\ Edit(q).tape = e.tape
            /\ room <= 0 => Edit(q).margin = e.margin - b
            /\ room > 0 => Edit(q).margin
                 = e.margin - b - (Within(0, home + OffsetDots(q.x), room) - home)
<1> DEFINE e     == Catalogue[q.label]
           b     == BleedDots(q.label, q.bleed)
           dx    == OffsetDots(q.x)
           room  == Head - (e.width + 2 * b)
           home  == room - (e.margin - b + Addition)
           moved == Within(0, home + dx, room) - home
           plan  == Planned(e, dx, b)
<1>1. /\ q.label \in Labels /\ e \in Entry /\ b \in Nat /\ dx \in Int
      /\ Head \in Int /\ Addition \in Int
  BY BleedFits, OffsetWhole, RasterAssumption DEF RasterAssumption, Request
<1>2. e.width \in Nat \ {0} /\ e.margin \in Int /\ e.tape \in BOOLEAN
  BY <1>1 DEF Entry
<1>3. room \in Int /\ home \in Int
  BY <1>1, <1>2
<1>4. CASE room <= 0
  <2>1. plan = None
    BY <1>4 DEF Planned
  <2>2. Edit(q) = [e EXCEPT !.width = @ + 2 * b, !.margin = @ - b]
    BY <2>1 DEF Edit, Published
  <2>3. e.width + 2 * b \in Nat \ {0} /\ e.margin - b \in Int
    BY <1>1, <1>2
  <2> HIDE DEF e, b, room, home
  <2>4. /\ Edit(q) \in Entry /\ Edit(q).width = e.width + 2 * b
        /\ Edit(q).tape = e.tape /\ Edit(q).margin = e.margin - b
    BY <1>1, <2>2, <2>3 DEF Entry
  <2>5. ~(room > 0)
    BY <1>3, <1>4
  <2> QED
    BY <2>4, <2>5 DEF e, b, room, home
<1>5. CASE room > 0
  <2>1. plan = [applied |-> moved, margin |-> e.margin - b - moved]
    BY <1>3, <1>5 DEF Planned
  <2>2. moved \in Int
    BY <1>1, <1>3 DEF Within, Least, Greatest
  <2>3. e.width + 2 * b \in Nat \ {0} /\ e.margin - b - moved \in Int
    <3> HIDE DEF moved, e, b
    <3> QED
      BY <1>1, <1>2, <2>2
  <2>4. plan # None /\ plan.margin = e.margin - b - moved
    <3> HIDE DEF moved, e, b, plan
    <3> QED
      BY <2>1, <2>2, <2>3, RasterAssumption DEF RasterAssumption
  <2>5. Edit(q) = [e EXCEPT !.width = @ + 2 * b, !.margin = e.margin - b - moved]
    BY <2>4 DEF Edit, Published
  <2> HIDE DEF e, b, moved, room, plan
  <2>6. /\ Edit(q) \in Entry /\ Edit(q).width = e.width + 2 * b
        /\ Edit(q).tape = e.tape /\ Edit(q).margin = e.margin - b - moved
    BY <1>1, <2>3, <2>5 DEF Entry
  <2>7. ~(room <= 0)
    BY <1>3, <1>5
  <2> QED
    BY <2>6, <2>7 DEF e, b, room, moved, home
<1> QED
  BY <1>3, <1>4, <1>5

\* The offset told is a number of hundredths of a millimetre, whatever entry it
\* is worked out on.
LEMMA ReportWhole ==
  ASSUME NEW q \in Request, NEW e \in Entry
  PROVE  Reported(e, q) \in Int
<1> DEFINE b     == BleedDots(q.label, q.bleed)
           dx    == OffsetDots(q.x)
           room  == Head - (e.width + 2 * b)
           home  == room - (e.margin - b + Addition)
           moved == Within(0, home + dx, room) - home
           plan  == Planned(e, dx, b)
<1>1. /\ b \in Nat /\ dx \in Int /\ Head \in Int /\ Addition \in Int
      /\ e.width \in Nat /\ e.margin \in Int
  BY BleedFits, OffsetWhole, RasterAssumption DEF RasterAssumption, Request, Entry
<1>2. moved \in Int
  BY <1>1 DEF Within, Least, Greatest
<1>3. plan = None \/ plan = [applied |-> moved, margin |-> e.margin - b - moved]
  BY DEF Planned
<1>4. Within(-CalibrationMax, q.x, CalibrationMax) \in Int
  BY WithinBounds, RasterAssumption DEF RasterAssumption, Request
<1> HIDE DEF moved, plan
<1>5. CASE plan = None
  BY <1>4, <1>5 DEF Reported, plan
<1>6. CASE plan # None
  <2>1. plan.applied \in Int
    BY <1>2, <1>3, <1>6
  <2>2. Hundredths(plan.applied) \in Int
    BY <2>1 DEF Hundredths, Nearest
  <2> QED
    BY <1>4, <2>2 DEF Reported, plan, b, dx
<1> QED
  BY <1>5, <1>6

\* A request that corrects nothing has no bleed.
LEMMA Uncorrected ==
  ASSUME NEW q \in Request, ~Corrected(q)
  PROVE  BleedDots(q.label, q.bleed) = 0 /\ OffsetDots(q.x) = 0
  BY DEF Corrected

-----------------------------------------------------------------------------
(* The arithmetic of a paste, for a raster published as an entry says.      *)

\* The raster pasted for a request, by its own edit or, corrected by nothing, by
\* the catalogue's entry, lies under the head and where it was asked for.
LEMMA PasteLands ==
  ASSUME NEW q \in Request, NEW s \in Entry,
         s = Edit(q) \/ (~Corrected(q) /\ s = Catalogue[q.label])
  PROVE  LET first == PastedAt(s, s.width)
             by    == 2 * first + s.width
                        - (2 * Home(q.label) + Catalogue[q.label].width)
             dx    == OffsetDots(q.x)
         IN /\ s.width = Drawn(q)
            /\ first \in Int
            /\ first >= 0
            /\ first + s.width <= Head
            /\ by < 2 * dx => first + s.width = Head
            /\ by > 2 * dx => first = 0
            /\ s.width < Head => /\ Planned(Catalogue[q.label], dx,
                                            BleedDots(q.label, q.bleed)) # None
                                 /\ Planned(Catalogue[q.label], dx,
                                            BleedDots(q.label, q.bleed)).applied \in Int
                                 /\ by = 2 * Planned(Catalogue[q.label], dx,
                                            BleedDots(q.label, q.bleed)).applied
<1> DEFINE e     == Catalogue[q.label]
           w     == e.width
           b     == BleedDots(q.label, q.bleed)
           limit == BleedLimit(q.label)
           dx    == OffsetDots(q.x)
           room  == Head - (w + 2 * b)
           home  == room - (e.margin - b + Addition)
<1>1. /\ q.label \in Labels /\ e \in Entry
      /\ b \in Nat /\ limit \in Nat /\ b <= limit /\ w + 2 * limit <= Head
      /\ dx \in Int /\ Head \in Nat /\ Addition \in Int
  BY BleedFits, OffsetWhole, RasterAssumption DEF RasterAssumption, Request
<1>2. w \in Nat \ {0} /\ e.margin \in Int /\ e.tape \in BOOLEAN
  BY <1>1 DEF Entry
<1>3. /\ (e.tape /\ w = Head) \/ e.margin + Addition \in 0..(Head - w)
      /\ (~e.tape /\ w + 2 * limit = Head) => e.margin + Addition = limit
  BY <1>1, MediaAssumption
<1>4. /\ s.width = w + 2 * b
      /\ s.tape = e.tape
      /\ s.margin \in Int
      /\ room <= 0 => s.margin = e.margin - b
      /\ room > 0 => \/ s.margin = e.margin - b - (Within(0, home + dx, room) - home)
                     \/ b = 0 /\ dx = 0 /\ s.margin = e.margin
  <2>1. CASE s = Edit(q)
    BY <2>1, EditFields DEF Entry
  <2>2. CASE ~Corrected(q) /\ s = e
    BY <2>2, <1>1, <1>2, Uncorrected
  <2> QED
    BY <2>1, <2>2
<1>5. s.width = Drawn(q)
  BY <1>4 DEF Drawn
<1> HIDE DEF e, w, b, limit, dx
<1>6. Home(q.label) = IF e.tape /\ w = Head THEN 0 ELSE Head - w - (e.margin + Addition)
  BY DEF Home, PastedAt, e, w
<1>7. PastedAt(s, s.width) = IF e.tape /\ w + 2 * b = Head THEN 0
                             ELSE Head - (w + 2 * b) - (s.margin + Addition)
  BY <1>4 DEF PastedAt
<1>8. CASE w + 2 * b = Head
  <2>1. PastedAt(s, s.width) = 0
    <3>1. CASE e.tape
      BY <3>1, <1>7, <1>8
    <3>2. CASE ~e.tape
      <4>1. w + 2 * limit = Head /\ b = limit
        BY <1>1, <1>2, <1>8
      <4>2. s.margin = e.margin - b
        BY <1>1, <1>2, <1>4, <1>8
      <4> QED
        BY <1>1, <1>2, <1>3, <1>7, <1>8, <3>2, <4>1, <4>2
    <3> QED
      BY <3>1, <3>2
  <2> QED
    BY <2>1, <1>1, <1>2, <1>4, <1>5, <1>8 DEF e, w, dx
<1>9. CASE w + 2 * b # Head
  <2>1. room > 0 /\ w < Head
    BY <1>1, <1>2, <1>9
  <2>2. PastedAt(s, s.width) = room - (s.margin + Addition)
    BY <1>7, <1>9
  <2>3. /\ Home(q.label) = Head - w - (e.margin + Addition)
        /\ e.margin + Addition \in 0..(Head - w)
    BY <1>1, <1>2, <1>3, <1>6, <2>1
  <2>4. PastedAt(s, s.width) = Within(0, home + dx, room)
    <3>1. home \in Int /\ room \in Nat
      BY <1>1, <1>2, <2>1
    <3>2. CASE s.margin = e.margin - b - (Within(0, home + dx, room) - home)
      <4>1. Within(0, home + dx, room) \in Int
        BY <3>1, <1>1 DEF Within, Least, Greatest
      <4> QED
        BY <3>1, <3>2, <4>1, <2>2, <1>1, <1>2
    <3>3. CASE b = 0 /\ dx = 0 /\ s.margin = e.margin
      BY <3>1, <3>3, <2>2, <2>3, <1>1, <1>2 DEF Within, Least, Greatest
    <3> QED
      BY <3>2, <3>3, <2>1, <1>4
  <2> DEFINE first == PastedAt(s, s.width)
  <2>5. /\ first \in 0..room
        /\ first < home + dx => first = room
        /\ first > home + dx => first = 0
    BY <2>1, <2>4, <1>1, <1>2 DEF Within, Least, Greatest
  <2>a. /\ Planned(e, dx, b) # None
        /\ Planned(e, dx, b).applied \in Int
        /\ Planned(e, dx, b).applied = first - home
    <3> DEFINE moved == Within(0, home + dx, room) - home
    <3>1. Planned(e, dx, b) = [applied |-> moved, margin |-> e.margin - b - moved]
      <4>1. ~(room <= 0)
        BY <2>1, <1>1, <1>2
      <4> QED
        BY <4>1 DEF Planned, w
    <3>2. moved \in Int /\ e.margin - b - moved \in Int
      BY <1>1, <1>2 DEF Within, Least, Greatest
    <3>3. moved = first - home
      BY <2>4
    <3> HIDE DEF moved, first, home
    <3>4. Planned(e, dx, b) \in [applied : Int, margin : Int]
      BY <3>1, <3>2
    <3> QED
      BY <3>1, <3>2, <3>3, <3>4, RasterAssumption DEF RasterAssumption
  <2>6. 2 * first + s.width - (2 * Home(q.label) + w) = 2 * (first - home)
    <3> HIDE DEF first
    <3> QED
      BY <2>3, <2>5, <1>1, <1>2, <1>4
  <2> HIDE DEF first
  <2>7. /\ first >= 0 /\ first + s.width <= Head /\ first \in Int
        /\ 2 * (first - home) < 2 * dx => first + s.width = Head
        /\ 2 * (first - home) > 2 * dx => first = 0
    BY <2>1, <2>5, <1>1, <1>2, <1>4
  <2> QED
    BY <2>6, <2>7, <2>a, <1>5 DEF e, w, b, dx, first
<1> QED
  BY <1>8, <1>9

-----------------------------------------------------------------------------
(* The inductive invariant.                                                 *)

\* A conversion under way has a request; the entry of its label is there.
LEMMA JobTyped ==
  ASSUME TypeOK, Holding, NEW t \in Converters, pc[t] # "idle"
  PROVE  /\ job[t] \in Request /\ job[t].label \in Labels
         /\ table[job[t].label] \in Entry
<1>1. job[t] \in Request
  BY RasterAssumption DEF RasterAssumption, Holding
<1>2. job[t].label \in Labels
  BY <1>1 DEF Request
<1> QED
  BY <1>1, <1>2 DEF TypeOK

\* The entry a conversion finds, when it corrects something, is its own edit.
LEMMA OwnEdit ==
  ASSUME IInv, NEW t \in Converters, pc[t] = "converting", Corrected(job[t])
  PROVE  table[job[t].label] = Edit(job[t])
<1>1. lock = t
  BY DEF IInv, Holding, Inside
<1> QED
  BY <1>1 DEF IInv, Owning

\* At the start nothing is edited and nobody converts.
LEMMA InitInvariant == Init => IInv
<1> SUFFICES ASSUME Init PROVE IInv
  OBVIOUS
<1> USE DEF Init
<1>1. TypeOK
  <2>1. table \in [Labels -> Entry]
    BY RasterAssumption DEF RasterAssumption
  <2> QED
    BY <2>1 DEF TypeOK, Type
<1>2. EditsAreUndone
  BY DEF EditsAreUndone
<1>3. Holding
  BY RasterAssumption DEF Holding, Inside, RasterAssumption
<1>4. Owning
  BY RasterAssumption DEF Owning, RasterAssumption
<1>5. Reading /\ Pasting
  BY DEF Reading, Pasting
<1> QED
  BY <1>1, <1>2, <1>3, <1>4, <1>5 DEF IInv

\* A request is drawn: nothing of another conversion changes.
LEMMA RenderKeeps ==
  ASSUME IInv, NEW t \in Converters, Render(t) PROVE IInv'
<1> PICK q \in Requests :
      /\ pc[t] \in {"idle", "done", "refused", "rejected"}
      /\ job'   = [job EXCEPT ![t] = q]
      /\ seen'  = [seen EXCEPT ![t] = None]
      /\ paste' = [paste EXCEPT ![t] = None]
      /\ pc' = [pc EXCEPT ![t] = IF Transposed(q) THEN "refused" ELSE "placing"]
      /\ UNCHANGED <<table, lock, saved, told>>
  BY Zenon DEF Render, Goto
<1>t. TypeOK
  BY DEF IInv
<1>f. /\ job' \in Type(Requests \cup {None}) /\ pc' \in Type({"idle", "refused",
           "placing", "converting", "leaving", "raising", "failing", "done", "rejected"})
      /\ seen' \in Type(Entry \cup {None})
      /\ paste' \in Type([first : Int, width : Nat] \cup {None})
  BY <1>t DEF TypeOK, Type
<1>1. TypeOK'
  BY <1>t, <1>f DEF TypeOK
<1>2. lock # t /\ \A u \in Converters : lock = u => pc'[u] = pc[u] /\ job'[u] = job[u]
  BY <1>t DEF IInv, TypeOK, Type, Holding, Inside
<1>3. EditsAreUndone'
  BY <1>2 DEF IInv, EditsAreUndone, Inside
<1>4. Holding'
  BY <1>2, <1>t DEF IInv, TypeOK, Type, Holding, Inside
<1>5. Owning'
  BY <1>2, <1>t DEF IInv, TypeOK, Type, Owning
<1>6. Reading'
  BY <1>t DEF IInv, TypeOK, Type, Reading
<1>7. Pasting'
  BY <1>t DEF IInv, TypeOK, Type, Pasting
<1> QED
  BY <1>1, <1>3, <1>4, <1>5, <1>6, <1>7 DEF IInv

\* A conversion with nothing to correct begins.
LEMMA SkipKeeps ==
  ASSUME IInv, NEW t \in Converters, Skip(t) PROVE IInv'
<1> USE DEF Skip, Goto
<1>t. TypeOK
  BY DEF IInv
<1>1. TypeOK'
  BY <1>t DEF TypeOK, Type
<1>2. lock # t
  BY DEF IInv, Holding
<1>3. EditsAreUndone'
  BY <1>2, <1>t DEF IInv, TypeOK, Type, EditsAreUndone, Inside
<1>4. Holding'
  BY <1>2, <1>t DEF IInv, TypeOK, Type, Holding, Inside
<1>5. Owning'
  BY DEF IInv, Owning
<1>6. Reading' /\ Pasting'
  BY <1>t DEF IInv, TypeOK, Type, Reading, Pasting
<1> QED
  BY <1>1, <1>3, <1>4, <1>5, <1>6 DEF IInv

\* The lock is free, so the table is the catalogue, and the edit is made of it.
LEMMA PublishKeeps ==
  ASSUME IInv, NEW t \in Converters, Publish(t) PROVE IInv'
<1> DEFINE l == job[t].label
<1>t. TypeOK /\ Holding /\ Owning
  BY DEF IInv
<1>0. /\ pc[t] = "placing" /\ Corrected(job[t]) /\ lock = None /\ lock' = t
      /\ pc' = [pc EXCEPT ![t] = "converting"]
      /\ UNCHANGED <<job, seen, paste, told>>
  BY DEF Publish, Goto
<1>1. None \notin Converters /\ None \notin Entry
  BY RasterAssumption DEF RasterAssumption
<1>2. job[t] \in Request /\ l \in Labels
  BY <1>0, <1>t, JobTyped
<1>3. \A k \in Labels : table[k] = Catalogue[k]
  BY <1>0, <1>1 DEF IInv, EditsAreUndone
<1>4. /\ saved' = [saved EXCEPT ![t] = IF Edit(job[t]) = Catalogue[l] THEN None ELSE Catalogue[l]]
      /\ table' = [table EXCEPT ![l] = Edit(job[t])]
  BY <1>2, <1>3 DEF Publish, Edit
<1>5. Edit(job[t]) \in Entry /\ Catalogue[l] \in Entry
  BY <1>2, EditFields, RasterAssumption DEF RasterAssumption
<1>6. \A u \in Converters : saved[u] = None
  BY <1>0, <1>1, <1>t DEF Owning
<1> HIDE DEF l
<1>7. TypeOK'
  <2>1. table' \in [Labels -> Entry]
    BY <1>2, <1>4, <1>5, <1>t DEF TypeOK
  <2>2. saved' \in Type(Entry \cup {None})
    BY <1>4, <1>5, <1>t DEF TypeOK, Type
  <2>3. pc' \in Type({"idle", "refused", "placing", "converting", "leaving",
                      "raising", "failing", "done", "rejected"})
    BY <1>0, <1>t DEF TypeOK, Type
  <2> QED
    BY <1>0, <2>1, <2>2, <2>3, <1>t DEF TypeOK
<1>8. pc'[t] = "converting" /\ \A u \in Converters \ {t} : pc'[u] = pc[u]
  BY <1>0, <1>t DEF TypeOK, Type
<1>9. \A u \in Converters \ {t} : ~(Inside(u) /\ Corrected(job[u]))
  BY <1>0, <1>1, <1>t DEF Holding
<1>10. EditsAreUndone'
  BY <1>0, <1>2, <1>3, <1>4, <1>8, <1>t DEF EditsAreUndone, Inside, TypeOK, l
<1>11. Holding'
  BY <1>0, <1>8, <1>9, <1>t DEF Holding, Inside
<1>12. Owning'
  <2>1. table'[l] = Edit(job[t])
    BY <1>2, <1>4, <1>t DEF TypeOK
  <2>2. saved'[t] = (IF Edit(job[t]) = Catalogue[l] THEN None ELSE Catalogue[l])
        /\ \A u \in Converters \ {t} : saved'[u] = None
    BY <1>4, <1>6, <1>t DEF TypeOK, Type
  <2> QED
    BY <1>0, <1>1, <1>5, <2>1, <2>2 DEF Owning, l
<1>13. Reading'
  BY <1>0, <1>8 DEF IInv, Reading
<1>14. Pasting'
  BY <1>0, <1>8 DEF IInv, Pasting
<1> QED
  BY <1>7, <1>10, <1>11, <1>12, <1>13, <1>14 DEF IInv

\* The edited entry is read, and the raster accepted or rejected.
LEMMA ConvertKeeps ==
  ASSUME IInv, NEW t \in Converters, Convert(t) \/ ConvertRaises(t) PROVE IInv'
<1> DEFINE e     == table[job[t].label]
           width == IF e.tape THEN e.width ELSE Drawn(job[t])
<1>t. TypeOK /\ Holding
  BY DEF IInv
<1>0. /\ pc[t] = "converting"
      /\ seen' = [seen EXCEPT ![t] = e]
      /\ UNCHANGED <<table, lock, job, saved, told>>
  BY DEF Convert, ConvertRaises
<1>1. \/ /\ width = e.width
         /\ paste' = [paste EXCEPT ![t] = [first |-> PastedAt(e, width), width |-> width]]
         /\ pc' = [pc EXCEPT ![t] = "leaving"]
      \/ /\ width # e.width
         /\ pc' = [pc EXCEPT ![t] = "raising"]
         /\ paste' = paste
      \/ /\ pc' = [pc EXCEPT ![t] = "failing"]
         /\ paste' = paste
  BY DEF Convert, ConvertRaises, Goto
<1>2. /\ job[t] \in Request /\ job[t].label \in Labels /\ e \in Entry
      /\ e.width \in Nat /\ e.margin \in Int /\ e.tape \in BOOLEAN
      /\ Head \in Int /\ Addition \in Int
  BY <1>0, <1>t, JobTyped, RasterAssumption DEF Entry, RasterAssumption
<1>3. Corrected(job[t]) => e = Edit(job[t])
  BY <1>0, OwnEdit
<1>4. /\ pc' \in Type({"idle", "refused", "placing", "converting", "leaving",
                       "raising", "failing", "done", "rejected"})
      /\ \A u \in Converters \ {t} : pc'[u] = pc[u]
      /\ pc'[t] \in {"leaving", "raising", "failing"}
  BY <1>1, <1>t DEF TypeOK, Type
<1>5. seen'[t] = e /\ \A u \in Converters \ {t} : seen'[u] = seen[u]
  BY <1>0, <1>t DEF TypeOK, Type
<1>6. /\ paste' \in Type([first : Int, width : Nat] \cup {None})
      /\ \A u \in Converters \ {t} : paste'[u] = paste[u]
      /\ pc'[t] = "leaving" => /\ paste'[t] = [first |-> PastedAt(e, e.width), width |-> e.width]
                               /\ e.tape \/ Drawn(job[t]) = e.width
      /\ pc'[t] = "raising" => ~e.tape /\ Drawn(job[t]) # e.width
  <2>1. PastedAt(e, e.width) \in Int
    <3> HIDE DEF e
    <3> QED
      BY <1>2 DEF PastedAt
  <2> DEFINE new == [first |-> PastedAt(e, e.width), width |-> e.width]
  <2>2. new \in [first : Int, width : Nat]
    BY <1>2, <2>1
  <2> HIDE DEF e, new
  <2>3. CASE width = e.width /\ paste' = [paste EXCEPT ![t] = new]
             /\ pc' = [pc EXCEPT ![t] = "leaving"]
    BY <2>2, <2>3, <1>t, <1>2 DEF TypeOK, Type, new
  <2>4. CASE width # e.width /\ pc' = [pc EXCEPT ![t] = "raising"] /\ paste' = paste
    BY <2>4, <1>t, <1>2 DEF TypeOK, Type
  <2>5. CASE pc' = [pc EXCEPT ![t] = "failing"] /\ paste' = paste
    BY <2>5, <1>t DEF TypeOK, Type
  <2> QED
    BY <1>1, <2>3, <2>4, <2>5 DEF new
<1> HIDE DEF e
<1>7. TypeOK'
  <2>1. seen' \in Type(Entry \cup {None})
    BY <1>0, <1>2, <1>t DEF TypeOK, Type, e
  <2> QED
    BY <1>0, <1>4, <1>6, <1>t, <2>1 DEF TypeOK
<1>8. \A u \in Converters : Inside(u)' <=> Inside(u)
  BY <1>0, <1>4 DEF Inside
<1>9. EditsAreUndone'
  BY <1>0, <1>8 DEF IInv, EditsAreUndone
<1>10. Holding'
  BY <1>0, <1>4, <1>8 DEF IInv, Holding
<1>11. Owning'
  BY <1>0 DEF IInv, Owning
<1>12. Reading'
  BY <1>0, <1>2, <1>3, <1>4, <1>5 DEF IInv, Reading
<1>13. Pasting'
  BY <1>0, <1>4, <1>5, <1>6 DEF IInv, Pasting
<1> QED
  BY <1>7, <1>9, <1>10, <1>11, <1>12, <1>13 DEF IInv

\* On every path the holder puts the catalogue's entry back.
LEMMA LeaveKeeps ==
  ASSUME IInv, NEW t \in Converters, Leave(t) PROVE IInv'
<1> DEFINE l == job[t].label
<1>t. TypeOK /\ Holding /\ Owning
  BY DEF IInv
<1>0. /\ pc[t] \in {"leaving", "raising", "failing"}
      /\ table' = IF saved[t] = None THEN table ELSE [table EXCEPT ![l] = saved[t]]
      /\ lock' = IF lock = t THEN None ELSE lock
      /\ saved' = [saved EXCEPT ![t] = None]
      /\ UNCHANGED <<job, seen, paste, told>>
  BY DEF Leave, PutBack
<1>1. /\ pc' = [pc EXCEPT ![t] = CASE pc[t] = "leaving" -> "done"
                                   [] pc[t] = "raising" -> "rejected"
                                   [] pc[t] = "failing" -> "idle"]
  BY DEF Leave, Goto
<1>2. None \notin Converters /\ None \notin Entry
  BY RasterAssumption DEF RasterAssumption
<1>3. job[t] \in Request /\ l \in Labels
  BY <1>0, <1>t, JobTyped
<1>4. /\ pc' \in Type({"idle", "refused", "placing", "converting", "leaving",
                       "raising", "failing", "done", "rejected"})
      /\ \A u \in Converters \ {t} : pc'[u] = pc[u]
      /\ pc'[t] \in {"done", "rejected", "idle"}
      /\ pc'[t] = "done" <=> pc[t] = "leaving"
      /\ pc'[t] = "rejected" <=> pc[t] = "raising"
  <2>1. pc \in Type({"idle", "refused", "placing", "converting", "leaving",
                     "raising", "failing", "done", "rejected"})
    BY <1>t DEF TypeOK
  <2>2. CASE pc[t] = "leaving"
    BY <1>1, <2>1, <2>2 DEF Type
  <2>3. CASE pc[t] = "raising"
    BY <1>1, <2>1, <2>3 DEF Type
  <2>4. CASE pc[t] = "failing"
    BY <1>1, <2>1, <2>4 DEF Type
  <2> QED
    BY <1>0, <2>2, <2>3, <2>4
<1> HIDE DEF l
<1>5. /\ saved'[t] = None /\ \A u \in Converters \ {t} : saved'[u] = saved[u]
      /\ saved' \in Type(Entry \cup {None})
  BY <1>0, <1>t DEF TypeOK, Type
<1>6. table' \in [Labels -> Entry]
  BY <1>0, <1>3, <1>t DEF TypeOK, Type
<1>7. TypeOK'
  BY <1>0, <1>4, <1>5, <1>6, <1>t DEF TypeOK
<1>8. \A u \in Converters \ {t} : Inside(u)' <=> Inside(u)
  BY <1>4 DEF Inside
<1>9. ~Inside(t)'
  BY <1>4 DEF Inside
<1>10. ASSUME lock = t PROVE EditsAreUndone' /\ Holding' /\ Owning'
  <2>1. table'[l] = Catalogue[l] /\ \A k \in Labels \ {l} : table'[k] = table[k]
    <3>1. CASE saved[t] = None
      BY <3>1, <1>0, <1>10, <1>t DEF Owning, l
    <3>2. CASE saved[t] # None
      <4>1. saved[t] = Catalogue[l]
        BY <3>2, <1>t DEF Owning, l
      <4> QED
        BY <3>2, <4>1, <1>0, <1>3, <1>t DEF TypeOK
    <3> QED
      BY <3>1, <3>2
  <2>2. \A k \in Labels : table'[k] = Catalogue[k]
    BY <2>1, <1>10 DEF IInv, EditsAreUndone, l
  <2>3. lock' = None /\ \A u \in Converters : lock' # u
    BY <1>0, <1>2, <1>10
  <2>4. EditsAreUndone'
    BY <2>2 DEF EditsAreUndone
  <2>5. Holding'
    BY <2>3, <1>0, <1>4, <1>8, <1>9, <1>10, <1>t DEF Holding
  <2>6. Owning'
    BY <2>3, <1>5, <1>10, <1>t DEF Owning
  <2> QED
    BY <2>4, <2>5, <2>6
<1>11. ASSUME lock # t PROVE EditsAreUndone' /\ Holding' /\ Owning'
  <2>1. saved[t] = None /\ table' = table /\ lock' = lock
    BY <1>0, <1>11, <1>t DEF Owning
  <2>2. EditsAreUndone'
    BY <2>1, <1>0, <1>8, <1>11 DEF IInv, EditsAreUndone
  <2>3. Holding'
    BY <2>1, <1>0, <1>4, <1>8, <1>9, <1>11, <1>t DEF Holding
  <2>4. Owning'
    BY <2>1, <1>0, <1>5, <1>11, <1>t DEF Owning
  <2> QED
    BY <2>2, <2>3, <2>4
<1>12. Reading'
  BY <1>0, <1>4 DEF IInv, Reading
<1>13. Pasting'
  BY <1>0, <1>4 DEF IInv, Pasting
<1> QED
  BY <1>7, <1>10, <1>11, <1>12, <1>13 DEF IInv

\* The endpoint answers from an entry, edited or not, and changes none.
LEMMA DescribeKeeps ==
  ASSUME IInv, Describe PROVE IInv'
<1>t. TypeOK
  BY DEF IInv
<1> PICK q \in Asked : /\ told' = [request |-> q, x |-> Reported(table[q.label], q)]
                       /\ UNCHANGED <<table, lock, pc, job, saved, seen, paste>>
  BY Zenon DEF Describe
<1>1. q \in Request /\ table[q.label] \in Entry
  BY <1>t, RasterAssumption DEF RasterAssumption, Request, TypeOK
<1>2. told' \in [request : Asked, x : Int]
  BY <1>1, ReportWhole
<1>3. TypeOK'
  BY <1>t, <1>2 DEF TypeOK
<1>4. EditsAreUndone' /\ Holding' /\ Owning' /\ Reading' /\ Pasting'
  BY DEF IInv, EditsAreUndone, Holding, Owning, Reading, Pasting, Inside
<1> QED
  BY <1>3, <1>4 DEF IInv

\* Every step preserves the invariant.
LEMMA NextInvariant == IInv /\ [Next]_vars => IInv'
<1> SUFFICES ASSUME IInv, [Next]_vars PROVE IInv'
  OBVIOUS
<1>1. ASSUME NEW t \in Converters, Render(t) PROVE IInv'
  BY <1>1, RenderKeeps
<1>2. ASSUME NEW t \in Converters, Skip(t) PROVE IInv'
  BY <1>2, SkipKeeps
<1>3. ASSUME NEW t \in Converters, Publish(t) PROVE IInv'
  BY <1>3, PublishKeeps
<1>4. ASSUME NEW t \in Converters, Convert(t) \/ ConvertRaises(t) PROVE IInv'
  BY <1>4, ConvertKeeps
<1>5. ASSUME NEW t \in Converters, Leave(t) PROVE IInv'
  BY <1>5, LeaveKeeps
<1>6. CASE Describe
  BY <1>6, DescribeKeeps
<1>7. CASE UNCHANGED vars
  BY <1>7 DEF vars, IInv, TypeOK, EditsAreUndone, Holding, Owning, Reading, Pasting, Inside
<1> QED
  BY <1>1, <1>2, <1>3, <1>4, <1>5, <1>6, <1>7 DEF Next

\* The inductive invariant of the conversions, for any number of threads.
THEOREM RasterInvariant == Spec => []IInv
  BY InitInvariant, NextInvariant, PTL DEF Spec

-----------------------------------------------------------------------------
(* The properties.                                                          *)

\* The media table is brother_ql's own whenever nobody holds the lock, and off
\* the holder's label at all times.
THEOREM TableIsRestored == Spec => []EditsAreUndone
<1>1. IInv => EditsAreUndone
  BY DEF IInv
<1> QED
  BY <1>1, RasterInvariant, PTL

\* What an undisturbed conversion read is its own edit or the catalogue's entry.
LEMMA ReadItsOwn ==
  ASSUME IInv, NEW t \in Converters, Undisturbed(t), pc[t] # "idle"
  PROVE  /\ job[t] \in Request /\ seen[t] \in Entry
         /\ seen[t] = Edit(job[t])
              \/ (~Corrected(job[t]) /\ seen[t] = Catalogue[job[t].label])
<1>1. job[t] \in Request
  BY JobTyped DEF IInv
<1> QED
  BY <1>1 DEF IInv, Undisturbed, Reading, TypeOK, Type

\* No label is rejected or scaled for its width: canvas, refusal and published
\* entry agree, for every medium, bleed and offset.
THEOREM WidthsAgree == Spec => []FitsTheLabel
<1>1. IInv => FitsTheLabel
  <2> SUFFICES ASSUME IInv, NEW t \in Converters, Undisturbed(t)
               PROVE  /\ pc[t] \notin {"raising", "rejected"}
                      /\ pc[t] \in {"leaving", "done"} => paste[t].width = Drawn(job[t])
    BY DEF FitsTheLabel
  <2>1. CASE pc[t] = "idle"
    BY <2>1
  <2>2. CASE pc[t] # "idle"
    <3>1. seen[t].width = Drawn(job[t])
      BY <2>2, ReadItsOwn, PasteLands
    <3>2. pc[t] \notin {"raising", "rejected"}
      BY <3>1 DEF IInv, Pasting
    <3>3. pc[t] \in {"leaving", "done"} => paste[t].width = seen[t].width
      <4> SUFFICES ASSUME pc[t] \in {"leaving", "done"} PROVE paste[t].width = seen[t].width
        OBVIOUS
      <4>1. paste[t] = [first |-> PastedAt(seen[t], seen[t].width), width |-> seen[t].width]
        BY DEF IInv, Pasting
      <4> QED
        BY <4>1
    <3> QED
      BY <3>1, <3>2, <3>3
  <2> QED
    BY <2>1, <2>2
<1> QED
  BY <1>1, RasterInvariant, PTL

\* Nothing is placed off the head, and the ink is where bleed and offset put it,
\* as far as the head reaches.
THEOREM InkLands == Spec => []LandsWhereAsked
<1>1. IInv => LandsWhereAsked
  <2> SUFFICES ASSUME IInv, NEW t \in Converters, pc[t] \in {"leaving", "done"},
                      Undisturbed(t)
               PROVE  LET dx == OffsetDots(job[t].x)
                      IN /\ paste[t].first >= 0
                         /\ paste[t].first + paste[t].width <= Head
                         /\ Moved(t) < 2 * dx => paste[t].first + paste[t].width = Head
                         /\ Moved(t) > 2 * dx => paste[t].first = 0
    BY DEF LandsWhereAsked
  <2>1. /\ paste[t].first = PastedAt(seen[t], seen[t].width)
        /\ paste[t].width = seen[t].width
    <3>1. paste[t] = [first |-> PastedAt(seen[t], seen[t].width), width |-> seen[t].width]
      BY DEF IInv, Pasting
    <3> QED
      BY <3>1
  <2> QED
    BY <2>1, ReadItsOwn, PasteLands DEF Moved
<1> QED
  BY <1>1, RasterInvariant, PTL

\* The offset told to the user, in hundredths of a millimetre, is the one the ink
\* was moved by, for every label the head has room beside.
THEOREM ReportsAreTrue == Spec => []ReportIsAppliedWithRoom
<1>1. IInv => ReportIsAppliedWithRoom
  <2> SUFFICES ASSUME IInv, NEW t \in Converters, pc[t] = "done", Undisturbed(t),
                      Drawn(job[t]) < Head
               PROVE  2 * Dots(Reported(Catalogue[job[t].label], job[t])) = Moved(t)
    BY DEF ReportIsAppliedWithRoom
  <2> DEFINE q    == job[t]
             dx   == OffsetDots(q.x)
             plan == Planned(Catalogue[q.label], dx, BleedDots(q.label, q.bleed))
  <2>1. /\ paste[t].first = PastedAt(seen[t], seen[t].width)
        /\ paste[t].width = seen[t].width
    <3>1. paste[t] = [first |-> PastedAt(seen[t], seen[t].width), width |-> seen[t].width]
      BY DEF IInv, Pasting
    <3> QED
      BY <3>1
  <2>2. plan # None /\ plan.applied \in Int /\ Moved(t) = 2 * plan.applied
    BY <2>1, ReadItsOwn, PasteLands DEF Moved
  <2>3. Dots(Reported(Catalogue[q.label], q)) = plan.applied
    <3>1. CASE plan.applied = dx
      <4>1. Reported(Catalogue[q.label], q) = Within(-CalibrationMax, q.x, CalibrationMax)
        BY <3>1 DEF Reported
      <4> QED
        BY <3>1, <4>1 DEF OffsetDots
    <3>2. CASE plan.applied # dx
      <4>1. Reported(Catalogue[q.label], q) = Hundredths(plan.applied)
        BY <2>2, <3>2 DEF Reported
      <4> QED
        BY <2>2, <4>1, FedBackUnchanged
    <3> QED
      BY <3>1, <3>2
  <2> QED
    BY <2>2, <2>3
<1> QED
  BY <1>1, RasterInvariant, PTL
=============================================================================
