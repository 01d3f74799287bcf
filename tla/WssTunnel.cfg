\* A tunnel, with and without allowHalfOpen; the client may also send text.
CONSTANTS
  MaxUp = 3
  MaxText = 1
  MaxDown = 2
SPECIFICATION FairSpec
INVARIANTS TypeOK UploadsAreAPrefix AnswerComesFirst FlushedBeforeClose CleanEndIsComplete
PROPERTIES ClientEndClosesTarget TargetEndClosesClient
CHECK_DEADLOCK FALSE
