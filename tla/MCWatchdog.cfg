SPECIFICATION FairSpec
CONSTANTS
  Watchdogs = {authentication, operation}
INVARIANT OverrunAborts
PROPERTIES SilentOnceDisarmed ExpiryIsEnforced DisarmReturns
CHECK_DEADLOCK FALSE
