\* Two slots, files of two orders, two opens and one written file closed
\* with its FLUSH in the device.
CONSTANTS
  NRanuras = 2
  NTrozos = 2
  MaxAbiertas = 2
  MaxVaciados = 1
  NZonas = 2
SPECIFICATION Spec
INVARIANTS
  TypeOK
  BytesAreTheFiles
  BufferOutlivesFlight
PROPERTIES
  ReaderWakes
  ReadersSeeTheLoad
