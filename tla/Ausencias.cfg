\* Two absences, a balance of a day, contract versions, three rows in
\* all, and the payroll of a month of two days; two requests in flight.
CONSTANTS
  Empleados = {e1}
  IdsAusencia = {a1, a2}
  UltimoDia = 2
  MaxSaldo = 1
  MaxFilas = 3
  Peticiones = {r1, r2}
SPECIFICATION Spec
SYMMETRY Simetria
INVARIANTS
  TypeOK
  SaldoExacto
  BoletaConHaber
