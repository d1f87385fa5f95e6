CONSTANTS
  NSlots = 5
  MaxTid = 5
  Quantum = 2
  QuantumDelante = 3
  MaxPlazo = 2
  MaxAparte = 0
  Llaves = {}
  Hilos <- Bus
  ConGpu = FALSE
SPECIFICATION LiveSpec
PROPERTIES
  EveryoneGetsATurn
