SPECIFICATION Spec
CONSTANT MaxMarcos = 4
INVARIANT Coincide
PROPERTY SiempreEncuentra
CHECK_DEADLOCK FALSE
