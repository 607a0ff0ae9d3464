\* Two requests in flight over one event, delivered any number of times, and two
\* customers at Stripe, of two checkouts that overlap.
CONSTANTS
  Eventos = {e1}
  Clientes = {c1, c2}
  Gestiones = {r1, r2}
  ConFechas = TRUE
SPECIFICATION SpecJusta

INVARIANTS
  TypeOKSuscripcion
PROPERTIES
  ComprobanteLlega
  SuscripcionFirme
