\* Two requests in flight; two tokens: a session and what it is exchanged for, or
\* another login that crosses a revocation; an earlier link and the one that
\* retires it.
CONSTANTS
  Tokens = {t1, t2}
  Enlaces = {e1, e2}
  Peticiones = {r1, r2}
  MaxIntentos = 2
SPECIFICATION Spec
SYMMETRY Simetria
INVARIANTS
  TypeOK
  DeUnUso
  SesionesCortadas
  
