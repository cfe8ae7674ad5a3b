---------------------------- MODULE MCCacheIndex ----------------------------
(***************************************************************************)
(* Symmetry for CacheIndex: runs, files, other sessions and the maps that  *)
(* are not empty can be swapped.  And a view of its states: what a file    *)
(* that has neither a name nor a handle held, and when it was written, can *)
(* no longer be seen.                                                      *)
(***************************************************************************)
EXTENDS CacheIndex, TLC

Symmetry == Permutations(Procs) \union Permutations(Inodes) \union Permutations(Others)
              \union Permutations(Maps \ {EmptyMap})

SeenData == [i \in Inodes |-> IF i \in Existing THEN data[i] ELSE None]
SeenAfter ==
  [x \in Others \union Inodes |-> IF x \in Existing THEN after[x] \cap Existing ELSE {}]
View == <<index, tmp, SeenData, pc, mem, dirty, fd, clash, offered, others, SeenAfter,
          doomed, raced>>
=============================================================================
