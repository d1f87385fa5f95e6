CONSTANTS
  NSlots = 5
  MaxTid = 5
  Quantum = 2
  QuantumDelante = 3
  MaxPlazo = 0
  MaxAparte = 0
  Llaves = {}
  Hilos = {}
  ConGpu = TRUE
SPECIFICATION LiveSpec
PROPERTIES
  EveryoneGetsATurn
  DeadAreBuried
  NotedDeathComes
