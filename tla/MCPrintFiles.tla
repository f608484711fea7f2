----------------------------- MODULE MCPrintFiles -----------------------------
EXTENDS PrintFiles, TLC

\* Pages 2 and 1, one of them twice; a page the document does not have.
MCSpecs == {<<<<2, 2>>, <<1, 2>>>>, <<<<1, 3>>>>}
Symmetry == Permutations(Token) \cup Permutations(Job)
=============================================================================
