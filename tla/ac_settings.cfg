\* One cop that corrects before the walk and one that does in it, both allowlisted and
\* both told not to correct under -a.
CONSTANTS
  None = None
  Torn = Torn
  Texts = {t0, t1}
  Cops = {line, walk}
  Walkers = {walk}
  Allowlist = {line, walk}
  Unsafe = {line, walk}
  Disabled = {}
  Muted = {}
  MaxIterations = 1
SPECIFICATION Spec
INVARIANT SettingsHold
CHECK_DEADLOCK FALSE
