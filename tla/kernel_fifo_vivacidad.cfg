SPECIFICATION SpecJusta
CONSTANTS
  p1 = p1
  p2 = p2
  p3 = p3
  p4 = p4
  NULO = NULO
  Procesos = {p1, p2}
  Suspendibles = {p1}
  GRADO_MULTIPROGRAMACION = 2
  MaxIO = 2
PROPERTY TodosFinalizan
CHECK_DEADLOCK FALSE
