SPECIFICATION Spec
CONSTANTS
  p1 = p1
  p2 = p2
  p3 = p3
  p4 = p4
  NULO = NULO
  Procesos = {p1, p2, p3}
  Suspendibles = {p1, p2, p3}
  GRADO_MULTIPROGRAMACION = 2
  MaxIO = 1
SYMMETRY Simetria
INVARIANTS TypeOK CaidaSoloPorCarrera UnSoloProcesoEnCPU GradoRespetado Inductiva
  RespuestaPropia TablaPropia NiPerdidoNiDuplicado
PROPERTY ImplementaCicloDeVida
CHECK_DEADLOCK FALSE
