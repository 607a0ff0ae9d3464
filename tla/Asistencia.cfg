\* One employee, the last two days of a month, at most one overtime hour a
\* day, two requests in flight.
CONSTANTS
  Empleados = {e1}
  UltimoDia = 2
  MaxExtra = 1
  Montos = {7, 9}
  Peticiones = {r1, r2}
SPECIFICATION Spec
SYMMETRY Simetria
INVARIANTS
  TypeOK
  NominaFiel
PROPERTIES
  MesFijo
