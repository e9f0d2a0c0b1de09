SPECIFICATION Spec
CONSTANTS
  Sessions = {s1, s2, s3}
  None = None
SYMMETRY Symmetric
CONSTRAINT Patient
INVARIANT ReleasedOnEveryPath
CHECK_DEADLOCK FALSE
