CONSTANTS
  VueltasMax = 1
  NSlots = 5
  MaxTid = 5
  Quantum = 1
  QuantumDelante = 2
  MaxPlazo = 0
  MaxAparte = 0
  Llaves = {}
  Hilos = {}
  ConGpu = TRUE
SPECIFICATION PurgaSpec
INVARIANTS
  CpuIsCurrent
