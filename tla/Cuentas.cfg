\* A limit of one active account, which two requests in flight pass after the
\* company is restored, and a third account to see that they pass it by one.
CONSTANTS
  Usuarios = {u1, u2, u3}
  Fundador = u1
  MaxUsuarios = 1
  Peticiones = {r1, r2}
SPECIFICATION Spec
SYMMETRY Simetria
INVARIANTS
  TypeOK
  ExcesoAcotado
PROPERTIES
  RolesFirmes
