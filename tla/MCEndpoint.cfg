\* Three processes, each client or server or both, that exit, fail and close
\* each other; one endpoint, whose queue of two can be full.
CONSTANTS
  Procs = {a, b, c}
  NoProc = NoProc
  NEps = 1
  Queue = 2
  SlotsPerProc = 3
  RingSize = 1
  GenWrap = 4
  GenReply = 4
  ConGpu = TRUE
  MaxCalls = 2
SPECIFICATION Spec
SYMMETRY Symmetry
INVARIANTS
  TypeOK
  OneAnswer
  AnswerIsToThisCall
PROPERTIES
  KeepsThePromise
CHECK_DEADLOCK FALSE
