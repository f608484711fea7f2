---------------------------- MODULE MCPrintQueue ----------------------------
(* Small instances of PrintQueue for TLC. *)
EXTENDS PrintQueue, TLC

\* No schedule (a printer that was up), and one of two attempts, each with
\* a pause of one slice: long enough for a stop to land inside it.
MCSchedules == {<<>>, <<1, 1>>}

MCSymmetry == Permutations(Jobs)
=============================================================================
