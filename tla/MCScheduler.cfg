\* The shell, the idle thread, the undertaker and up to two more tasks at a
\* time, of three in all: programs that use the GPU, exit, fail and close one
\* another, the thread of the bus and that of the disk.
CONSTANTS
  NSlots = 5
  MaxTid = 6
  Quantum = 2
  QuantumDelante = 3
  MaxPlazo = 2
  MaxAparte = 1
  Llaves = {"canal"}
  Hilos <- BusAndDisk
  ConGpu = TRUE
SPECIFICATION Spec
INVARIANTS
  TypeOK
  CpuIsCurrent
  NothingDangles
  SavedContextIsWhole
  OwnRamp
PROPERTIES
  RankHonoured
  DeathWaitsForTheGpu
  CapabilitiesDieFirst
