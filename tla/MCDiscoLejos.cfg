\* Two files whose chains lie in different pages of the FAT.
CONSTANTS
  NRanuras = 2
  NTrozos = 1
  MaxAbiertas = 2
  MaxVaciados = 0
  NZonas = 2
SPECIFICATION Spec
PROPERTIES
  EveryReaderWakes
