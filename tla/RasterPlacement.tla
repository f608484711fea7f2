--------------------------- MODULE RasterPlacement ---------------------------
(***************************************************************************)
(* Where the ink of a label lands (src/services/printer_service.py): how   *)
(* far a medium may be bled, how far a calibration offset can move the     *)
(* raster under the print head, and the edit of brother_ql's process-wide  *)
(* media table by which a conversion is told of both.                      *)
(*                                                                         *)
(* Lengths are whole hundredths of a millimetre, positions whole dots of   *)
(* 300 dpi across the tape, counted from the left end of the head.         *)
(***************************************************************************)
EXTENDS Integers

CONSTANTS
  Converters,      \* threads that may run a conversion; the service has one
  Catalogue,       \* brother_ql's media: label -> its entry
  Head,            \* get_pixel_width() of the printer's model
  Addition,        \* right_margin_addition of the model
  BleedMax,        \* BLEED_LIMIT_MM
  CalibrationMax,  \* CALIBRATION_LIMIT_MM
  Requests,        \* what prints ask for
  Asked,           \* what the calibration endpoint is asked about
  None

Labels == DOMAIN Catalogue

\* width and height are dots_printable, total is dots_total[0]; a tape has no
\* fixed height.
Entry == [width : Nat \ {0}, height : Nat, total : Nat,
          margin : Int, tape : BOOLEAN]

\* turned: rotated a quarter after it was fitted to the label.
Request == [label : Labels, bleed : Int, x : Int, turned : BOOLEAN]

ASSUME RasterAssumption ==
  /\ Head \in Nat /\ Addition \in Int
  /\ BleedMax \in Nat /\ CalibrationMax \in Nat
  /\ Catalogue \in [Labels -> Entry]
  /\ \A l \in Labels : Catalogue[l].width <= Head
  /\ Requests \subseteq Request /\ Asked \subseteq Request
  /\ None \notin Entry /\ None \notin Converters /\ None \notin Requests
  /\ None \notin [applied : Int, margin : Int] /\ None \notin [request : Asked, x : Int]

VARIABLES
  table,  \* label_type_specs
  lock,   \* holder of _LABEL_SPEC_LOCK
  pc,     \* position of each conversion
  job,    \* what it prints
  saved,  \* the entry it has to put back
  seen,   \* the entry convert() read
  paste,  \* column the raster was pasted at, and the raster's width
  told    \* the calibration endpoint's last answer

vars == <<table, lock, pc, job, saved, seen, paste, told>>

-----------------------------------------------------------------------------
(* Millimetres, dots, limits. *)

Least(a, b)       == IF a <= b THEN a ELSE b
Greatest(a, b)    == IF a >= b THEN a ELSE b
Within(lo, x, hi) == Greatest(lo, Least(hi, x))

\* round(); neither conversion below has ties.
Nearest(n, d) == (2 * n + d) \div (2 * d)

Dots(length)     == Nearest(15 * length, 127)
Hundredths(dots) == Nearest(127 * dots, 15)

\* How far the raster can grow on each side: paper and head permitting.
BleedLimit(l) ==
  Greatest(0, (Least(Catalogue[l].total, Head) - Catalogue[l].width) \div 2)

BleedDots(l, length) == Least(Dots(Within(0, length, BleedMax)), BleedLimit(l))

OffsetDots(length) == Dots(Within(-CalibrationMax, length, CalibrationMax))

\* get_label_geometry: the canvas a label is designed on.
Drawn(q)  == Catalogue[q.label].width + 2 * BleedDots(q.label, q.bleed)
Height(q) == Catalogue[q.label].height

-----------------------------------------------------------------------------
(* The plan: what to publish so that the raster is pasted where it should.  *)

\* Mutant of Planned: the bleed is not taken off the margin.
PlannedOffCentre(e, dx, bleed) ==
  LET width == e.width + 2 * bleed
      room  == Head - width
      home  == room - (e.margin + Addition)
      moved == Within(0, home + dx, room) - home
  IN IF room <= 0 THEN None
     ELSE [applied |-> moved, margin |-> e.margin - moved]

Planned(e, dx, bleed) ==
  LET width == e.width + 2 * bleed
      room  == Head - width
      home  == room - (e.margin - bleed + Addition)
      moved == Within(0, home + dx, room) - home
  IN IF room <= 0 THEN None
     ELSE [applied |-> moved, margin |-> e.margin - bleed - moved]

\* Mutant of Published: convert() is told of the place and not of the width.
PublishedMargin(e, dx, bleed) ==
  LET plan == Planned(e, dx, bleed)
  IN [e EXCEPT !.margin = IF plan = None THEN @ - bleed ELSE plan.margin]

\* The entry placed_raster publishes; without room to move, the bleed alone.
Published(e, dx, bleed) ==
  LET plan == Planned(e, dx, bleed)
  IN [e EXCEPT !.width  = @ + 2 * bleed,
               !.margin = IF plan = None THEN @ - bleed ELSE plan.margin]

\* Mutant of Reported: the travel is the one the label has unbled.
ReportedUnbled(e, q) ==
  LET dx   == OffsetDots(q.x)
      plan == Planned(e, dx, 0)
  IN IF plan = None \/ plan.applied = dx
     THEN Within(-CalibrationMax, q.x, CalibrationMax)
     ELSE Hundredths(plan.applied)

\* applied_calibration_offset: the offset a target's caption and the API name.
Reported(e, q) ==
  LET dx   == OffsetDots(q.x)
      plan == Planned(e, dx, BleedDots(q.label, q.bleed))
  IN IF plan = None \/ plan.applied = dx
     THEN Within(-CalibrationMax, q.x, CalibrationMax)
     ELSE Hundredths(plan.applied)

\* convert(): it pastes what is narrower than the head, and every label.
PastedAt(e, width) ==
  IF e.tape /\ width = Head THEN 0 ELSE Head - width - (e.margin + Addition)

\* What the catalogue gives every medium a model takes: unbled it lies under the
\* head, and a label that can be bled to the whole head lies in the middle of it.
ASSUME MediaAssumption == \A l \in Labels :
  LET e == Catalogue[l]
  IN /\ (e.tape /\ e.width = Head) \/ e.margin + Addition \in 0..(Head - e.width)
     /\ (~e.tape /\ e.width + 2 * BleedLimit(l) = Head)
          => e.margin + Addition = BleedLimit(l)

-----------------------------------------------------------------------------
(* A print's conversion.                                                    *)

Corrected(q) == OffsetDots(q.x) # 0 \/ BleedDots(q.label, q.bleed) # 0

\* _reject_transposed_die_cut
Transposed(q) ==
  /\ ~Catalogue[q.label].tape
  /\ q.turned
  /\ Drawn(q) # Height(q)

Init ==
  /\ table = Catalogue
  /\ lock  = None
  /\ pc    = [t \in Converters |-> "idle"]
  /\ job   = [t \in Converters |-> None]
  /\ saved = [t \in Converters |-> None]
  /\ seen  = [t \in Converters |-> None]
  /\ paste = [t \in Converters |-> None]
  /\ told  = None

Goto(t, p) == pc' = [pc EXCEPT ![t] = p]

\* A label is drawn, turned as asked, and refused or handed to the rasteriser.
Render(t) == \E q \in Requests :
  /\ pc[t] \in {"idle", "done", "refused", "rejected"}
  /\ job'   = [job EXCEPT ![t] = q]
  /\ seen'  = [seen EXCEPT ![t] = None]
  /\ paste' = [paste EXCEPT ![t] = None]
  /\ Goto(t, IF Transposed(q) THEN "refused" ELSE "placing")
  /\ UNCHANGED <<table, lock, saved, told>>

\* Nothing to correct: neither the table nor the lock is touched.
Skip(t) ==
  /\ pc[t] = "placing"
  /\ ~Corrected(job[t])
  /\ Goto(t, "converting")
  /\ UNCHANGED <<table, lock, job, saved, seen, paste, told>>

Publish(t) ==
  /\ pc[t] = "placing"
  /\ Corrected(job[t])
  /\ lock = None
  /\ lock' = t
  /\ LET l    == job[t].label
         edit == Published(table[l], OffsetDots(job[t].x), BleedDots(l, job[t].bleed))
     IN /\ saved' = [saved EXCEPT ![t] = IF edit = table[l] THEN None ELSE table[l]]
        /\ table' = [table EXCEPT ![l] = edit]
  /\ Goto(t, "converting")
  /\ UNCHANGED <<job, seen, paste, told>>

\* convert() looks the medium up: a die-cut label of another size is rejected,
\* a tape of another width scaled to it.
Convert(t) ==
  LET e     == table[job[t].label]
      width == IF e.tape THEN e.width ELSE Drawn(job[t])
  IN /\ pc[t] = "converting"
     /\ seen' = [seen EXCEPT ![t] = e]
     /\ \/ /\ width = e.width
           /\ paste' = [paste EXCEPT ![t] = [first |-> PastedAt(e, width), width |-> width]]
           /\ Goto(t, "leaving")
        \/ /\ width # e.width
           /\ Goto(t, "raising")
           /\ UNCHANGED paste
     /\ UNCHANGED <<table, lock, job, saved, told>>

\* convert() raises for a reason of its own, with the table read.
ConvertRaises(t) ==
  /\ pc[t] = "converting"
  /\ seen' = [seen EXCEPT ![t] = table[job[t].label]]
  /\ Goto(t, "failing")
  /\ UNCHANGED <<table, lock, job, saved, paste, told>>

\* Mutant of PutBack: the entry is put back after a conversion that returned.
PutBackOnSuccess(t) ==
  table' = IF saved[t] = None \/ pc[t] # "leaving" THEN table
           ELSE [table EXCEPT ![job[t].label] = saved[t]]

PutBack(t) ==
  table' = IF saved[t] = None THEN table
           ELSE [table EXCEPT ![job[t].label] = saved[t]]

\* The end of placed_raster, on every path.
Leave(t) ==
  /\ pc[t] \in {"leaving", "raising", "failing"}
  /\ PutBack(t)
  /\ lock'  = IF lock = t THEN None ELSE lock
  /\ saved' = [saved EXCEPT ![t] = None]
  /\ Goto(t, CASE pc[t] = "leaving" -> "done"
               [] pc[t] = "raising" -> "rejected"
               [] pc[t] = "failing" -> "idle")
  /\ UNCHANGED <<job, seen, paste, told>>

\* describe_calibration_run, on an API thread before the job is queued: it takes
\* no lock, and plans on whatever entry the table has.
Describe == \E q \in Asked :
  /\ told' = [request |-> q, x |-> Reported(table[q.label], q)]
  /\ UNCHANGED <<table, lock, pc, job, saved, seen, paste>>

Next ==
  \/ \E t \in Converters :
       \/ Render(t) \/ Skip(t) \/ Publish(t) \/ Convert(t) \/ ConvertRaises(t) \/ Leave(t)
  \/ Describe

Spec == Init /\ [][Next]_vars

-----------------------------------------------------------------------------
(* Properties.                                                              *)

Type(S) == [Converters -> S]

TypeOK ==
  /\ table \in [Labels -> Entry]
  /\ lock \in Converters \cup {None}
  /\ pc \in Type({"idle", "refused", "placing", "converting", "leaving",
                  "raising", "failing", "done", "rejected"})
  /\ job \in Type(Requests \cup {None})
  /\ saved \in Type(Entry \cup {None})
  /\ seen \in Type(Entry \cup {None})
  /\ paste \in Type([first : Int, width : Nat] \cup {None})
  /\ told \in [request : Asked, x : Int] \cup {None}

Inside(t) == pc[t] \in {"converting", "leaving", "raising", "failing"}

\* An edit of the media table lasts as long as the conversion it is for: once
\* the lock is free, whatever was raised, the table is brother_ql's own.
EditsAreUndone ==
  \A l \in Labels : table[l] = Catalogue[l]
    \/ (lock \in Converters /\ Inside(lock) /\ job[lock].label = l)

\* A conversion that corrects something works on its own edit; any other one on
\* whatever entry it finds, which is its own while nobody edits it.
Undisturbed(t) ==
  seen[t] # None /\ (Corrected(job[t]) \/ seen[t] = Catalogue[job[t].label])

\* Three places compute the width of a bled label: the canvas it is drawn on,
\* the refusal of turned labels, and the published entry convert() insists on.
\* They agree: no label is rejected, and no tape scaled, for its width.
FitsTheLabel == \A t \in Converters : Undisturbed(t) =>
  /\ pc[t] \notin {"raising", "rejected"}
  /\ pc[t] \in {"leaving", "done"} => paste[t].width = Drawn(job[t])

\* Where the medium's own, uncorrected raster is pasted.
Home(l) == PastedAt(Catalogue[l], Catalogue[l].width)

\* Twice the distance by which the centre of the ink was moved.
Moved(t) == 2 * paste[t].first + paste[t].width
              - (2 * Home(job[t].label) + Catalogue[job[t].label].width)

\* Every column lands under the head, and the label is centred where an unbled,
\* uncalibrated one would be, moved by the offset asked for; it falls short only
\* where the raster has come up against that end of the head.
LandsWhereAsked == \A t \in Converters :
  (pc[t] \in {"leaving", "done"} /\ Undisturbed(t)) =>
    LET dx == OffsetDots(job[t].x)
    IN /\ paste[t].first >= 0
       /\ paste[t].first + paste[t].width <= Head
       /\ Moved(t) < 2 * dx => paste[t].first + paste[t].width = Head
       /\ Moved(t) > 2 * dx => paste[t].first = 0

\* The offset a target's caption and the API name, converted back to dots, is
\* the one the ink was moved by (AppliedCalibration: "Sideways offset the
\* printer will actually apply"; "fed back in, it converts to exactly the dots
\* that were applied").
ReportIsApplied == \A t \in Converters :
  (pc[t] = "done" /\ Undisturbed(t)) =>
    2 * Dots(Reported(Catalogue[job[t].label], job[t])) = Moved(t)

\* The same for every label the head has room beside.
ReportIsAppliedWithRoom == \A t \in Converters :
  (pc[t] = "done" /\ Undisturbed(t) /\ Drawn(job[t]) < Head) =>
    2 * Dots(Reported(Catalogue[job[t].label], job[t])) = Moved(t)

\* The endpoint's answer, given before the print, is the offset the print will
\* apply ("Deterministic and side-effect free, which is what lets the response
\* go out before the queue worker has printed anything").  While a print is
\* being converted, the answer is worked out on that print's edit.
ToldIsApplied ==
  told # None => told.x = Reported(Catalogue[told.request.label], told.request)

\* "still centred on the label": bleed alone does not move the ink.  It does on
\* media that sit closer to an end of the head than the bleed grows.
BleedStaysCentred == \A t \in Converters :
  (pc[t] = "done" /\ Undisturbed(t) /\ OffsetDots(job[t].x) = 0) => Moved(t) = 0

\* "no two conversions in this process can see each other's edit": a conversion
\* that corrects nothing takes no lock, and sees one.
NobodySeesAnEdit == \A t \in Converters : seen[t] # None => Undisturbed(t)

-----------------------------------------------------------------------------
(* The inductive invariant.                                                 *)

Edit(q) == Published(Catalogue[q.label], OffsetDots(q.x), BleedDots(q.label, q.bleed))

\* The holder of the lock is the one correcting conversion that is under way.
Holding == \A t \in Converters :
  /\ pc[t] # "idle" => job[t] \in Requests
  /\ lock = t <=> (Inside(t) /\ Corrected(job[t]))

\* What the holder published, and has to put back.
Owning == \A t \in Converters :
  /\ lock = t => table[job[t].label] = Edit(job[t])
  /\ (lock = t /\ saved[t] = None) => Edit(job[t]) = Catalogue[job[t].label]
  /\ saved[t] # None => lock = t /\ saved[t] = Catalogue[job[t].label]

\* What a conversion read, and what it made of it.
Reading == \A t \in Converters :
  /\ pc[t] \in {"refused", "placing", "converting"} => seen[t] = None
  /\ pc[t] \in {"leaving", "raising", "failing", "done", "rejected"} => seen[t] \in Entry
  /\ (seen[t] # None /\ pc[t] # "idle" /\ Corrected(job[t])) => seen[t] = Edit(job[t])

Pasting == \A t \in Converters :
  /\ pc[t] \in {"leaving", "done"} =>
       /\ paste[t] = [first |-> PastedAt(seen[t], seen[t].width), width |-> seen[t].width]
       /\ seen[t].tape \/ Drawn(job[t]) = seen[t].width
  /\ pc[t] \in {"raising", "rejected"} =>
       ~seen[t].tape /\ Drawn(job[t]) # seen[t].width

IInv == TypeOK /\ EditsAreUndone /\ Holding /\ Owning /\ Reading /\ Pasting
=============================================================================
