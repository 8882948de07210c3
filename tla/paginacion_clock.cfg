SPECIFICATION Spec
CONSTANTS
  p1 = p1
  p2 = p2
  a = a
  b = b
  NULO = NULO
  BASURA = BASURA
  Procesos = {p1}
  CantidadDePaginas <- Tres
  ENTRADAS_POR_TABLA = 2
  MARCOS_POR_PROCESO = 2
  CantidadDeMarcos = 2
  ALGORITMO_REEMPLAZO = "CLOCK"
  BitsSinIniciar = {0, 1, 2}
  Valores = {a}
  ENTRADAS_TLB = 2
  REEMPLAZO_TLB = "LRU"
INVARIANT SinCaida
CHECK_DEADLOCK FALSE
