SPECIFICATION Spec
CONSTANTS
  Senders = {s1}
  Cap = 1
  MaxUp = 1
  MaxDown = 2
INVARIANT DataBeforeError
