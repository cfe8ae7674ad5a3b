\* Every program of five reads, assignments and constructs that nest two deep, with
\* conditionals of up to three arms and up to two rescue clauses; an empty construct at its
\* end is left out.
CONSTANTS
  MaxPos = 6
  MaxDepth = 2
  MaxArms = 3
SPECIFICATION Spec
INVARIANTS LiveIsNotReported RaisedIsNotReported AroundIsNotReported
INVARIANTS CapturedIsNotReported LaterIsNotReported
VIEW View
CHECK_DEADLOCK FALSE
