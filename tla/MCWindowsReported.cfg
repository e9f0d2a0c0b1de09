SPECIFICATION Spec
CONSTANTS
  Sessions = {s1, s2}
  None = None
SYMMETRY Symmetric
INVARIANT DeliveredIsReported
CHECK_DEADLOCK FALSE
