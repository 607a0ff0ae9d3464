\* Two companies with a job each, two replicas that may die.
CONSTANTS
  Empresas = {e1, e2}
  Obreros = {w1, w2}
  Peticiones = {p1}
  Puntual = TRUE
  Retencion = 0
  MaxDia = 1
  MaxTrabajos = 2
  MaxIntentos = 4
SPECIFICATION SpecJusta
PROPERTY
  TodoTermina
