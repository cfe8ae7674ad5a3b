\* Up to three names in the comments of three lines, under eight kinds of run.
CONSTANTS
  Names <- MCNames
  KeyOf <- MCKeyOf
  Qualified <- MCQualified
  DeptOf <- MCDeptOf
  All = "all"
  Cops <- MCCops
  Redundant <- Self
  NewName <- MCNewName
  Aliases <- MCAliases
  Settings <- MCSettings
  Mentioned <- MCMentioned
  MaxLine = 3
  MaxNames = 3
  MaxOffences = 1
SPECIFICATION Spec
INVARIANTS SuppressedAsWritten ReportedIsRedundant RedundantIsReported
CHECK_DEADLOCK FALSE
