\* A tunnel, with and without allowHalfOpen; the client may also send text.
CONSTANTS
  MaxUp = 1
  MaxText = 0
  MaxDown = 1
SPECIFICATION FairSpec
CHECK_DEADLOCK FALSE
PROPERTIES ClosingEitherClosesBoth
