\* One vacancy of one or two places, two candidates, two requests in flight.
CONSTANTS
  Vacantes = {v1}
  Postulantes = {ana, beto}
  Codigos = {k1, k2}
  Peticiones = {r1, r2}
  Cupos = {1, 2}
  MaxActivas = 1
  Ninguno = Ninguno
SPECIFICATION Spec
SYMMETRY Simetria
INVARIANTS
  TypeOK
  PostulacionesCoherentes
  
PROPERTIES
  ContratacionesFirmes
  LibroSpec
