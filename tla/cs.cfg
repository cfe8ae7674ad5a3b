\* Two workers, a file in the root and one below a nested .rubocop.yml, up to two
\* passes over each.
CONSTANTS
  None = None
  root = root  lib = lib  test = test
  f1 = f1  f2 = f2
  t1 = t1  t2 = t2
  Workers = {w1, w2}
  Files = {f1, f2}
  Texts = {t1, t2, t3, t4}
  Dirs = {root, lib}
  Root = root
  Addresses = {a0, a1, a2}
  Base = a0
  Places = {p1, p2, p3}
  Text <- MCText
  Dir <- MCDir
  Length <- MCLength
  Broken = {t4}
  MaxPasses = 2
SPECIFICATION Spec
INVARIANTS RunTermsAreKept ContextsAreOfTheText LocalsAreOfTheText
SYMMETRY Symmetry
CHECK_DEADLOCK FALSE
