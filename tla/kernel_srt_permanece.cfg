SPECIFICATION SpecJusta
CONSTANTS
  p1 = p1
  p2 = p2
  p3 = p3
  NULO = NULO
  Procesos = {p1, p2}
  Suspendibles = {}
  ConIO = {}
  GRADO_MULTIPROGRAMACION = 2
  MaxIO = 0
PROPERTY ConsolaRecibeRespuesta
CHECK_DEADLOCK FALSE
