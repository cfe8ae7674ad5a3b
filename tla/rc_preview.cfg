\* One file that nobody edits, runs with and without --preview one after another.
CONSTANTS
  None = None
  c = c
  Procs = {p1}
  Files = {f1}
  Contents = {a}
  InvalidUtf8 = {}
  Skipped = {}
  Keys = {k1}
  Unkeyed = {stable, preview}
  Size <- MCSize
  MaxTime = 1
SPECIFICATION Spec
INVARIANT OptionChangeIsSeen
