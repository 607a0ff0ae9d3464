\* Two vacancies, two codes, two slots of the provider and two requests in
\* flight: an analysis against another, the portal, an edition or a closing.
CONSTANTS
  Vacantes = {v1, v2}
  Codigos = {k1, k2}
  Cupos = {s1, s2}
  Peticiones = {r1, r2}
  MaxEdiciones = 1
\* Nothing is left to do once the codes and the editions run out.
CHECK_DEADLOCK FALSE
SPECIFICATION Spec
SYMMETRY Simetria
INVARIANTS
  TypeOK
PROPERTIES
  AnalisisFirme
