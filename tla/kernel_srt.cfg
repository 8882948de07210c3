SPECIFICATION SpecJusta
CONSTANTS
  p1 = p1
  p2 = p2
  p3 = p3
  NULO = NULO
  Procesos = {p1, p2}
  Suspendibles = {}
  ConIO = {p1}
  GRADO_MULTIPROGRAMACION = 2
  MaxIO = 1
INVARIANTS TypeOK CaidaSoloPorCarrera Inductiva EjecucionFiel NiPerdidoNiDuplicado GradoRespetado
PROPERTIES DesalojaAlQueDebe ImplementaCicloConDesalojo TodosFinalizan
CHECK_DEADLOCK FALSE
