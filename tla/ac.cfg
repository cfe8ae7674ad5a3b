\* Two texts; one cop that corrects before the walk and is allowlisted, one that
\* corrects in the walk and is not, one that is told not to correct, one whose
\* offences are under a disable comment.
CONSTANTS
  None = None
  Torn = Torn
  Texts = {t0, t1}
  Cops = {line, walk, unsafe, muted}
  Walkers = {walk}
  Allowlist = {line, unsafe, muted}
  Unsafe = {unsafe}
  Disabled = {}
  Muted = {muted}
  MaxIterations = 3
SPECIFICATION FairSpec
INVARIANTS UnchangedFileIsNotRewritten SecondRunIsIdle ReportIsOfTheFile SafeModeIsAllowlisted
PROPERTIES OnlyValidRubyIsWritten Terminates
CHECK_DEADLOCK FALSE
