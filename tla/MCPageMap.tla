------------------------------ MODULE MCPageMap ------------------------------
(* Symmetry for the runs of PageMap: all pages but page 0 are alike, and so  *)
(* are the indices of directories and of tables.                             *)
EXTENDS PageMap, TLC

Symmetry == Permutations(Page \ {Zero}) \cup Permutations(PDX) \cup Permutations(PTX)
==============================================================================
