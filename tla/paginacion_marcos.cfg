SPECIFICATION SpecJusta
CONSTANTS
  p1 = p1
  p2 = p2
  a = a
  b = b
  NULO = NULO
  BASURA = BASURA
  Procesos = {p1, p2}
  CantidadDePaginas <- DosYUna
  ENTRADAS_POR_TABLA = 2
  MARCOS_POR_PROCESO = 1
  CantidadDeMarcos = 2
  ALGORITMO_REEMPLAZO = "CLOCK-M"
  BitsSinIniciar = {0, 1}
  Valores = {a}
  ENTRADAS_TLB = 1
  REEMPLAZO_TLB = "LRU"
INVARIANTS TypeOK Inductiva MarcosExclusivos BitmapFiel MarcosRespetados SwapFiel
PROPERTY AccesosTerminan
CHECK_DEADLOCK FALSE
