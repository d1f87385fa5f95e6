\* Three clients of a server whose queue holds two calls.  The generations
\* go round: the object of a reply is as wide as they are.
CONSTANTS
  Procs = {s, a, b, c}
  Servers = {s}
  NoProc = NoProc
  NEps = 1
  Queue = 2
  SlotsPerProc = 2
  RingSize = 1
  GenWrap = 2
  GenReply = 2
  ConGpu = FALSE
  MaxCalls = 2
SPECIFICATION LiveSpec
PROPERTIES
  EveryCallComesBack
