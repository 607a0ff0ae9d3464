\* One company, two plans over one module and two requests in flight.
CONSTANTS
  Empresas = {e1}
  Planes = {p1, p2}
  Modulos = {m1}
  Peticiones = {r1, r2}
  MaxEventos = 2
SPECIFICATION Spec
SYMMETRY Simetria
INVARIANTS
  TypeOK
  EliminadaInactiva
  CadenaIntacta
PROPERTY
  ModulosDelPlan
