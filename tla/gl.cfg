\* One invocation at a time, two gems, two versions of Gemfile.lock, two Rubies, and
\* every moment at which either changes or a gem goes or comes.
CONSTANTS
  Absent = Absent
  Empty = Empty
  Torn = Torn
  b1 = b1  r1 = r1  g1 = g1
  d1 = d1  d2 = d2
  Procs = {p1}
  Gems = {g1, g2}
  Bundles = {b1, b2}
  Rubies = {r1, r2}
  Paths = {d1, d2}
  Found <- MCFound
  MaxTime = 2
SPECIFICATION LockSpec
INVARIANTS LockTypeOK LockIsOfItsHash GemsAreOfTheBundle
