\* Two runs of a session at once, whose flushes may overlap, with crashes, failed writes
\* and removed files, beside one other session of which eviction keeps the younger.
CONSTANTS
  None = None
  Empty = Empty
  Torn = Torn
  Procs = {p1, p2}
  EmptyMap = m0
  Maps = {m0, m1, m2}
  Inodes = {i1, i2, i3}
  Others = {s1}
  MaxSessions = 1
  Own = Own
SPECIFICATION Spec
PROPERTIES OnlyOverlapsBreak ImplementsIndexStore LoneFlushRepairs EvictionKeepsRecent
SYMMETRY Symmetry
VIEW View
