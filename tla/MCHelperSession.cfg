SPECIFICATION FairSpec
CONSTANTS
  Sessions = {s1, s2}
  HungClients = {s1}
  HungHelpers = {s2}
  None = None
PROPERTIES ImplementsExchange HelperEnds ClientReturns
CHECK_DEADLOCK FALSE
