--------------------------- MODULE MCResultCache ---------------------------
(* Instances of ResultCache for TLC. *)
EXTENDS ResultCache, TLC

CONSTANT c

\* c has a length of its own, the other contents share one: an edit may keep the
\* size or change it.
MCSize == [x \in Contents |-> IF x = c THEN 2 ELSE 1]

\* Processes are interchangeable, and so are the files that are not skipped and the
\* valid contents of one length.
Symmetry ==
  Permutations(Procs) \union Permutations(Files \ Skipped)
    \union Permutations(Contents \ (InvalidUtf8 \union {c}))

\* What is in a skipped file, and with what options a run that is over was started,
\* no step looks at.
View ==
  <<now, [f \in Files \ Skipped |-> <<content[f], mtime[f]>>], stored, phase,
    [p \in Procs |-> IF Live(p) THEN opts[p] ELSE None],
    entries, dirty, pc, observed, result, raced>>
=============================================================================
