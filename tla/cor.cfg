\* Up to three corrections of two cops over a source of four bytes, insertions and
\* deletions at one offset among them.
CONSTANTS
  Size = 4
  LastCop = 1
  MaxRaw = 3
SPECIFICATION Spec
INVARIANTS KeptIffUncontested  ResultTiles
CHECK_DEADLOCK FALSE
