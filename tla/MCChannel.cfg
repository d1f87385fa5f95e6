\* Rings of two entries and one request per beat: four messages go round
\* both rings once more.
CONSTANTS
  RingSize = 2
  Budget = 1
  Ops = {eco, muda}
  Vacio = vacio
  Mudas = {muda}
  Nada = nada
  MaxMensajes = 4
SPECIFICATION FairSpec
INVARIANTS
  TypeOK
  NoCompletionSleptOn
PROPERTIES
  KeepsTheQueues
  EveryRequestServed
CHECK_DEADLOCK FALSE
