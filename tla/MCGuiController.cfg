SPECIFICATION FairSpec
CONSTANTS
  BootIds = {b1, b2}
  None = None
INVARIANT OneOutstanding
PROPERTIES UnresolvedStaysClosed ConfigureNeedsConsent BusyEnds
