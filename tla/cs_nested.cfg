\* One worker, a file in the root and one in each of two directories with a .rubocop.yml.
CONSTANTS
  None = None
  root = root  lib = lib  test = test
  f1 = f1  f2 = f2
  t1 = t1  t2 = t2
  Workers = {w1}
  Files = {f1, f2, f3}
  Texts = {t1, t2}
  Dirs = {root, lib, test}
  Root = root
  Addresses = {a0, a1, a2}
  Base = a0
  Places = {p1, p2}
  Text <- MCText
  Dir <- MCDir
  Length <- MCLength
  Broken = {}
  MaxPasses = 1
SPECIFICATION Spec
INVARIANT TermsAreOfTheConfig
SYMMETRY Symmetry
CHECK_DEADLOCK FALSE
