----------------------------- MODULE MCCopState -----------------------------
(* Instances of CopState for TLC. *)
EXTENDS CopState, TLC

CONSTANTS root, lib, test, f1, f2, t1, t2

\* f1 is in the root, the other files are each in a directory of their own.
MCText == [f \in Files |-> IF f = f1 THEN t1 ELSE t2]

MCDir == [f \in Files |-> IF f = f1 THEN root ELSE IF f = f2 THEN lib ELSE test]

\* The texts of the files are of one length; corrections may make longer ones.
MCLength == [t \in Texts |-> IF t \in {t1, t2} THEN 1 ELSE 2]

Symmetry ==
  Permutations(Workers) \union Permutations(Places) \union Permutations(Addresses \ {Base})
=============================================================================
