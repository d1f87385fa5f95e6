CONSTANTS
  Procesos = {p1, p2, p3}
  Marcos = {m1, m2}
  Nadie = Nadie
  SinMarco = SinMarco
  Tope = 2
  MaxPeticiones = 2
  MaxOfertas = 2
  SePasan = FALSE
SYMMETRY Simetria
SPECIFICATION Spec
INVARIANTS
  TypeOK
  FrameHasOneOwner
  ReturnIsNoticed
  HandleIsItsLoan
CHECK_DEADLOCK FALSE
