SPECIFICATION Watched
CONSTANTS
  Sessions = {s1, s2}
  None = None
INVARIANTS WitnessNeverRuns
PROPERTIES ImplementsExchange HelperEnds ClientReturns
CHECK_DEADLOCK FALSE
