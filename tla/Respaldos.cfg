\* One company, three jobs, two replicas, two planners or restores; a worker
\* that needs six hours is a dead one.  A document, an account and four copies
\* are what two restores that cross need; two backups of the whole system.
CONSTANTS
  Empresas = {e1}
  Obreros = {w1, w2}
  Peticiones = {p1, p2}
  Puntual = TRUE
  Retencion = 0
  MaxDia = 1
  MaxTrabajos = 3
  MaxIntentos = 4
  Documentos = {d1}
  Usuarios = {u1}
  Ordenadas = TRUE
  MaxCopias = 4
  Respaldos = {r1, r2}
  Tareas = {t1, t2}
  Apartada = TRUE
  Entera = TRUE
SPECIFICATION SpecMC
SYMMETRY Simetria
INVARIANTS
  Tipos
  ColaSegura
  
PROPERTIES
  CopiasFirmes
  
