SPECIFICATION Spec
CONSTANTS
  p1 = p1
  p2 = p2
  p3 = p3
  p4 = p4
  NULO = NULO
  Procesos = {p1, p2, p3}
  Suspendibles = {p1, p2, p3}
  GRADO_MULTIPROGRAMACION = 1
  MaxIO = 2
SYMMETRY Simetria
INVARIANTS SuspensionSoloBloqueado SuspendidoSinFrames ResidentesAcotados
CHECK_DEADLOCK FALSE
