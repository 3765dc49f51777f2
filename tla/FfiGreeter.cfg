SPECIFICATION GreeterSpec
CONSTANTS
  Senders = {s1, s2}
  Cap = 2
  MaxUp = 3
  MaxDown = 4
INVARIANT CallComplete
PROPERTIES ImplementsPipes CancelReleases HandlerEnds
CHECK_DEADLOCK FALSE
