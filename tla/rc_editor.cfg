\* One file beside an excluded one, two overlapping runs of one session, an editor that
\* keeps the size or not.
CONSTANTS
  None = None
  c = c
  Procs = {p1, p2}
  Files = {f1, f2}
  Contents = {a, b, c}
  InvalidUtf8 = {c}
  Skipped = {f2}
  Keys = {k1}
  Unkeyed = {u1}
  Size <- MCSize
  MaxTime = 2
SPECIFICATION Spec
INVARIANTS TypeOK ResultsAreOfTheFile StampsAreSound
PROPERTIES WorkIsSaved
SYMMETRY Symmetry
VIEW View
