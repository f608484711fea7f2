-------------------------- MODULE MCRasterPlacement --------------------------
(* Four media of a 720-dot head: a tape and a label as wide as it, a round   *)
(* label with room on both sides, a tape close to the right end.             *)
EXTENDS RasterPlacement, TLC

MCTape(width, total, margin) ==
  [width |-> width, height |-> 0, total |-> total, margin |-> margin, tape |-> TRUE]
MCLabel(width, height, total, margin) ==
  [width |-> width, height |-> height, total |-> total, margin |-> margin, tape |-> FALSE]

MCCatalogue ==
  [l \in {"62", "62x29", "d24", "29"} |->
     CASE l = "62"    -> MCTape(696, 732, 12)
       [] l = "62x29" -> MCLabel(696, 271, 732, 12)
       [] l = "d24"   -> MCLabel(236, 236, 284, 42)
       [] l = "29"    -> MCTape(306, 342, 6)]

\* A bleed of half a millimetre and one of more than any medium has; offsets within
\* the travel of some media, and beyond the limit.
MCRequests ==
  {q \in [label : DOMAIN MCCatalogue, bleed : {0, 50, 600}, x : {-1200, 0, 400},
          turned : BOOLEAN] :
     /\ q.turned => ~MCCatalogue[q.label].tape
     /\ q.bleed = 50 => q.label = "d24"}

\* The offset tried on paper exceeds the travel of the bled label.
MCAsked == [label : {"d24"}, bleed : {600}, x : {400}, turned : {FALSE}]

MCSymmetry == Permutations(Converters)
=============================================================================
