SPECIFICATION SpecJusta
CONSTANT Consolas = {c1, c2}
INVARIANTS TypeOK NadieTermina Inductiva
PROPERTIES TodosListos ConsolaAtendida
CHECK_DEADLOCK FALSE
