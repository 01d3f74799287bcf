\* Both programs: every mode, two workers or clients, Accept errors and signals at any moment.
CONSTANTS
  c1 = c1  c2 = c2
  Conns = {c1, c2}
  Configs <- MCConfigs
  Peers = {c1}
  Messages <- MCMessages
  Responses <- MCResponses
  Width = 2
SPECIFICATION Spec
CHECK_DEADLOCK FALSE
INVARIANTS RepliesAreTruthful ExitStatusIsHonest EvenSpread
PROPERTY ProcessesEnd
