\* A process with a table of two slots and a caller without one: every
\* history of grants and revocations, with the generation going round.
CONSTANTS
  Callers = {0, 1}
  MaxProcs = 1
  SlotsPerProc = 2
  GenMax = 2
  Kinds = {canal, pantalla}
  Objects = {estuario}
  Rights = {leer}
  NoKind = NoKind
  NoObject = NoObject
  MaxGrants = 3
SPECIFICATION Spec
INVARIANTS
  TypeOK
  StaleHandleIsDead
  HandleOpensItsOwnGrant
  LiveHandleStillOpens
  FindIsWhatIsHeld
