\* Two interviews of up to two hours, two interviewers, two applications that
\* may be rejected or hired, two requests in flight.
CONSTANTS
  Postulaciones = {p1, p2}
  Entrevistadores = {e1, e2}
  Entrevistas = {i1, i2}
  Duraciones = {1, 2}
  MaxHora = 2
  Tramites = {r1, r2}
SPECIFICATION SpecAgenda
SYMMETRY Simetria
INVARIANTS
  TypeOKAgenda
  SinDobleReserva
PROPERTIES
  AgendaFirme
