---------------------------- MODULE Suscripcion ----------------------------
(***************************************************************************)
(* The subscription of one company: the events Stripe delivers to the      *)
(* webhook, once or many times, the receipt of a payment, the adjustments  *)
(* of the platform, the checkout and the daily reconciliation.  The plan   *)
(* it has and the modules that plan enables are module Plataforma.         *)
(*                                                                         *)
(* A request reads (Lee..., Reclama), sends its UPDATE of the subscription *)
(* (Ordena), which locks the row if any column changes, and then commits   *)
(* (Escribe).  The ORM updates only the columns that differ from what the  *)
(* request read; the others keep what they have by then.  Stripe and the   *)
(* mail provider are external: Stripe sends an event again until a         *)
(* delivery answers 2xx, and may repeat it after; the provider takes a     *)
(* receipt or not, and its answer may be lost.                             *)
(*                                                                         *)
(* The Roto... operators are plausible mistakes; no definition uses them,  *)
(* they show that a property can fail.                                     *)
(***************************************************************************)
EXTENDS Naturals, FiniteSets

CONSTANTS
  Eventos,     \* identifiers of Stripe events
  Clientes,    \* identifiers of Stripe customers
  Gestiones,   \* slots for the requests in flight
  ConFechas    \* bound: whether a subscription has an end date to reach

ASSUME NadieNoEsCliente == "NADIE" \notin Clientes
ASSUME ConFechasEsBooleano == ConFechas \in BOOLEAN
ASSUME IgualNoEsValor == "IGUAL" \notin Clientes

VARIABLES
  fila,     \* the row of suscripcion
  gracia,   \* subscription_grace_days passed since fila was last updated
  evento,   \* what Stripe emitted, and table stripe_evento
  recibos,  \* the invoices whose receipt the mail provider took
  creados,  \* customers created at Stripe for this company
  gestion   \* the requests in flight

varsSuscripcion == <<fila, gracia, evento, recibos, creados, gestion>>

----------------------------------------------------------------------------
(* The rows.  Of the states, what require_operational tells apart: ACTIVA   *)
(* is PRUEBA too, CORTADA is VENCIDA, CANCELADA, SUSPENDIDA and PENDIENTE.  *)
(* periodo_prueba_hasta is never set, so no trial expires.                  *)

Estados == {"ACTIVA", "PAGO_FALLIDO", "CORTADA"}
TiposEvento == {"CHECKOUT", "SUSCRIPCION", "PAGADA", "FALLIDA"}
Columnas == {"estado", "cliente", "fin"}
Fines == {"ABIERTO", "PASADO"}  \* PASADO: fecha_fin < today

SinEmitir == [tipo |-> "NADA", estado |-> "ACTIVA", cliente |-> "NADIE",
              registro |-> "NO", veces |-> 0]

(* require_operational and derived_status ask for the same grace.           *)
Operativa ==
  fila.estado = "ACTIVA" \/ (fila.estado = "PAGO_FALLIDO" /\ ~ gracia)

Derivado ==
  IF fila.fin = "PASADO" THEN "CORTADA"
  ELSE IF fila.estado = "PAGO_FALLIDO" /\ gracia THEN "CORTADA"
  ELSE fila.estado

(* Where the webhook finds the subscription, and what it makes of it.       *)
Hallada(e) == evento[e].tipo = "CHECKOUT" \/ evento[e].cliente = fila.cliente
RotoTrasEvento(e) == [fila EXCEPT !.cliente = evento[e].cliente,
                                  !.estado = evento[e].tipo]
TrasEvento(e) ==
  CASE evento[e].tipo = "CHECKOUT" ->
         [fila EXCEPT !.cliente = evento[e].cliente, !.estado = "ACTIVA"]
    [] evento[e].tipo = "SUSCRIPCION" ->
         [fila EXCEPT !.estado = evento[e].estado]
    [] evento[e].tipo = "PAGADA" -> [fila EXCEPT !.estado = "ACTIVA"]
    [] OTHER -> [fila EXCEPT !.estado = "PAGO_FALLIDO"]

----------------------------------------------------------------------------
(* The requests: the event, the columns that change and their values; toca: *)
(* it updates the row; pasada: another commit changed the row since         *)
(* reconciliation read it.                                                  *)

Igual == [c \in Columnas |-> "IGUAL"]
Cambios(quiere) ==
  [c \in Columnas |-> IF quiere[c] = fila[c] THEN "IGUAL" ELSE quiere[c]]
Aplicados(pide) ==
  [c \in Columnas |-> IF pide[c] = "IGUAL" THEN fila[c] ELSE pide[c]]

Ociosa == [tipo |-> "LIBRE", fase |-> "LEIDO", e |-> "NADA", pide |-> Igual,
          toca |-> FALSE, pasada |-> FALSE]

Atiende(r, p) ==
  /\ gestion[r] = Ociosa
  /\ gestion' = [gestion EXCEPT ![r] = p]
Fase(r, tipo, fase) == gestion[r].tipo = tipo /\ gestion[r].fase = fase

(* What a commit of the row does to the requests left in flight, pets.      *)
Adelantada(p) ==
  \/ p.pasada
  \/ p.tipo = "RECONCILIAR" /\ (fila' # fila \/ gracia' # gracia)
Adelanta(pets) == gestion' =
  [q \in Gestiones |-> [pets[q] EXCEPT !.pasada = Adelantada(pets[q])]]
Termina(r) == Adelanta([gestion EXCEPT ![r] = Ociosa])

(* The row locks: of the subscription, once its UPDATE is sent; of the      *)
(* event, from _claim_stripe_event to the first commit.                     *)
FilaLibre ==
  \A q \in Gestiones : gestion[q].fase = "ORDENADO" => ~ gestion[q].toca
RotoEventoLibre(e) == evento[e].registro = "NO" =>
  \A q \in Gestiones : ~ (gestion[q].e = e /\ gestion[q].fase = "LEIDO")
EventoLibre(e) == \A q \in Gestiones :
  ~ (gestion[q].e = e /\ gestion[q].fase \in {"LEIDO", "ORDENADO", "AJENO"})

----------------------------------------------------------------------------
(* Stripe emits an event about a customer of the company: what a checkout   *)
(* bought, a new state of its subscription, an invoice paid or not.         *)

Emite(e, tipo, estado, cliente) ==
  /\ evento[e] = SinEmitir /\ cliente \in creados
  /\ evento' = [evento EXCEPT ![e] =
       [tipo |-> tipo, estado |-> estado, cliente |-> cliente,
        registro |-> "NO", veces |-> 0]]
  /\ UNCHANGED <<fila, gracia, recibos, creados, gestion>>

(* A delivery: _claim_stripe_event, and the read of the subscription.  An   *)
(* event already processed is only answered.                                *)
Reclama(r, e) ==
  /\ evento[e].tipo # "NADA" /\ EventoLibre(e)
  /\ evento[e].registro # "PROCESADO"
  /\ Atiende(r, [Ociosa EXCEPT !.tipo = "AVISO", !.e = e,
       !.fase = IF Hallada(e) THEN "LEIDO" ELSE "AJENO",
       !.pide = IF Hallada(e) THEN Cambios(TrasEvento(e)) ELSE Igual])
  /\ UNCHANGED <<fila, gracia, evento, recibos, creados>>

(* The UPDATE of the subscription, which the first query of _sync_modules   *)
(* sends.  A payment updates its date as well; the others, maybe the plan   *)
(* or the next charge.                                                      *)
Ordena(r) ==
  LET p == gestion[r]
  IN
  /\ p.tipo \in {"AVISO", "ASIGNAR"} /\ p.fase = "LEIDO"
  /\ \E otras \in BOOLEAN :
       /\ p.tipo = "AVISO" /\ evento[p.e].tipo = "PAGADA" => otras
       /\ p.tipo = "AVISO" /\ evento[p.e].tipo = "FALLIDA" => ~ otras
       /\ otras \/ p.pide # Igual => FilaLibre
       /\ gestion' = [gestion EXCEPT ![r].fase = "ORDENADO",
            ![r].toca = otras \/ p.pide # Igual]
  /\ UNCHANGED <<fila, gracia, evento, recibos, creados>>

(* The commit.  That of an invoice paid leaves its mail to send.            *)
Confirma(p) ==
  /\ fila' = Aplicados(p.pide)
  /\ gracia' = (gracia /\ ~ p.toca)
Aplica(e, registro) ==
  evento' = [evento EXCEPT ![e].registro = registro,
    ![e].veces = IF @ < 2 THEN @ + 1 ELSE @]
EscribeAviso(r) ==
  LET p == gestion[r]
      paga == evento[p.e].tipo = "PAGADA"
  IN
  /\ Fase(r, "AVISO", "ORDENADO")
  /\ Confirma(p)
  /\ Aplica(p.e, IF paga THEN "PROCESANDO" ELSE "PROCESADO")
  /\ UNCHANGED <<recibos, creados>>
  /\ Adelanta([gestion EXCEPT ![r] =
       IF paga
       THEN [Ociosa EXCEPT !.tipo = "AVISO", !.e = p.e, !.fase = "CORREO"]
       ELSE Ociosa])

(* No subscription has that customer: a payment fails, the rest is done.    *)
RotoAjeno(e) == [evento[e] EXCEPT !.registro = "PROCESADO"]
Ajeno(e) ==
  [evento[e] EXCEPT !.registro =
    IF evento[e].tipo = "PAGADA" THEN "FALLIDO" ELSE "PROCESADO"]
EscribeAjeno(r) ==
  /\ Fase(r, "AVISO", "AJENO")
  /\ evento' = [evento EXCEPT ![gestion[r].e] = Ajeno(gestion[r].e)]
  /\ gestion' = [gestion EXCEPT ![r] = Ociosa]
  /\ UNCHANGED <<fila, gracia, recibos, creados>>

(* An exception inside the savepoint: only the failure is recorded.         *)
Falla(r) ==
  /\ Fase(r, "AVISO", "LEIDO") \/ Fase(r, "AVISO", "ORDENADO")
  /\ evento' = [evento EXCEPT ![gestion[r].e].registro = "FALLIDO"]
  /\ gestion' = [gestion EXCEPT ![r] = Ociosa]
  /\ UNCHANGED <<fila, gracia, recibos, creados>>

----------------------------------------------------------------------------
(* send_paid_invoice, with the payment committed and no lock held; then the *)
(* record of the event, whatever another delivery left there.               *)

Envia(r, fase) ==
  /\ Fase(r, "AVISO", "CORREO")
  /\ gestion' = [gestion EXCEPT ![r].fase = fase]
  /\ UNCHANGED <<fila, gracia, evento, creados>>
Acepta(r) == Envia(r, "ENVIADO") /\ recibos' = recibos \cup {gestion[r].e}
SinRespuesta(r) ==
  Envia(r, "SIN_CORREO") /\ recibos' = recibos \cup {gestion[r].e}
Rechaza(r) == Envia(r, "SIN_CORREO") /\ UNCHANGED recibos

RotoTrasCorreo(fase) == "PROCESADO"
TrasCorreo(fase) == IF fase = "ENVIADO" THEN "PROCESADO" ELSE "FALLIDO"
Concluye(r) ==
  LET e == gestion[r].e
  IN
  /\ gestion[r].fase \in {"ENVIADO", "SIN_CORREO"} /\ EventoLibre(e)
  /\ evento' = [evento EXCEPT ![e].registro = TrasCorreo(gestion[r].fase)]
  /\ gestion' = [gestion EXCEPT ![r] = Ociosa]
  /\ UNCHANGED <<fila, gracia, recibos, creados>>

----------------------------------------------------------------------------
(* The platform gives the company a plan, a state and an end date.  Bound:  *)
(* no end date assigned is already past.                                    *)

LeeAsigna(r, estado) ==
  /\ Atiende(r, [Ociosa EXCEPT !.tipo = "ASIGNAR",
       !.pide = Cambios([fila EXCEPT !.estado = estado, !.fin = "ABIERTO"])])
  /\ UNCHANGED <<fila, gracia, evento, recibos, creados>>
EscribeAsignar(r) ==
  /\ Fase(r, "ASIGNAR", "ORDENADO")
  /\ Confirma(gestion[r])
  /\ UNCHANGED <<evento, recibos, creados>>
  /\ Termina(r)

(* create_checkout: a customer at Stripe if the row it read has none, a     *)
(* session, whose identifier updates the row.                               *)
LeeCheckout(r) ==
  /\ IF fila.cliente # "NADIE" THEN creados' = creados /\
       Atiende(r, [Ociosa EXCEPT !.tipo = "PAGAR"])
     ELSE \E c \in Clientes \ creados :
       /\ creados' = creados \cup {c}
       /\ Atiende(r, [Ociosa EXCEPT !.tipo = "PAGAR", !.pide.cliente = c])
  /\ UNCHANGED <<fila, gracia, evento, recibos>>
(* reconcile_subscriptions, when it finds another state to write.           *)
LeeReconciliar(r) ==
  /\ Derivado # fila.estado
  /\ Atiende(r, [Ociosa EXCEPT !.tipo = "RECONCILIAR",
                                !.pide.estado = Derivado])
  /\ UNCHANGED <<fila, gracia, evento, recibos, creados>>
EscribeFila(r) ==
  /\ gestion[r].tipo \in {"PAGAR", "RECONCILIAR"} /\ FilaLibre
  /\ fila' = Aplicados(gestion[r].pide)
  /\ gracia' = FALSE
  /\ UNCHANGED <<evento, recibos, creados>>
  /\ Termina(r)

RevierteGestion(r) ==
  /\ gestion[r] # Ociosa
  /\ gestion' = [gestion EXCEPT ![r] = Ociosa]
  /\ UNCHANGED <<fila, gracia, evento, recibos, creados>>

(* The days pass.                                                           *)
PasaGracia ==
  /\ fila.estado = "PAGO_FALLIDO" /\ ~ gracia /\ gracia' = TRUE
  /\ UNCHANGED <<fila, evento, recibos, creados, gestion>>
PasaFecha ==
  /\ ConFechas /\ fila.fin = "ABIERTO"
  /\ fila' = [fila EXCEPT !.fin = "PASADO"]
  /\ UNCHANGED <<gracia, evento, recibos, creados, gestion>>

----------------------------------------------------------------------------
InitSuscripcion ==
  /\ fila = [estado |-> "ACTIVA", cliente |-> "NADIE", fin |-> "ABIERTO"]
  /\ gracia = FALSE
  /\ evento = [e \in Eventos |-> SinEmitir]
  /\ recibos = {} /\ creados = {}
  /\ gestion = [r \in Gestiones |-> Ociosa]

stripe_webhook(r) ==
  \/ \E e \in Eventos : Reclama(r, e)
  \/ EscribeAviso(r) \/ EscribeAjeno(r) \/ Falla(r)
  \/ Acepta(r) \/ SinRespuesta(r) \/ Rechaza(r) \/ Concluye(r)
asigna_suscripcion(r) ==
  \/ EscribeAsignar(r)
  \/ \E estado \in Estados : LeeAsigna(r, estado)
Stripe ==
  \E e \in Eventos, tipo \in TiposEvento, estado \in Estados, c \in Clientes :
    /\ tipo = "SUSCRIPCION" \/ estado = "ACTIVA"
    /\ Emite(e, tipo, estado, c)

NextSuscripcion ==
  \/ \E r \in Gestiones :
       \/ stripe_webhook(r) \/ asigna_suscripcion(r) \/ Ordena(r)
       \/ LeeCheckout(r) \/ LeeReconciliar(r) \/ EscribeFila(r)
       \/ RevierteGestion(r)
  \/ Stripe \/ PasaGracia \/ PasaFecha

SpecSuscripcion == InitSuscripcion /\ [][NextSuscripcion]_varsSuscripcion

(* Stripe delivers again an event that is not recorded as processed, every  *)
(* request goes on, and a delivery that waits for the row is served.        *)
Entrega(e) == \E r \in Gestiones : Reclama(r, e)
Fallo(r) == Falla(r) \/ SinRespuesta(r) \/ Rechaza(r) \/ RevierteGestion(r)
SigueGestion(r) ==
  \/ Ordena(r) \/ EscribeAviso(r) \/ EscribeAjeno(r) \/ Acepta(r) \/ Concluye(r)
  \/ EscribeAsignar(r) \/ EscribeFila(r) \/ Fallo(r)
Equidad ==
  /\ \A e \in Eventos : SF_varsSuscripcion(Entrega(e))
  /\ \A r \in Gestiones :
       /\ WF_varsSuscripcion(SigueGestion(r))
       /\ SF_varsSuscripcion(Fase(r, "AVISO", "LEIDO") /\ Ordena(r))
SpecJusta == SpecSuscripcion /\ Equidad

----------------------------------------------------------------------------
(* The rows and the requests are of their types, and only what Stripe       *)
(* emitted is recorded.                                                     *)
TypeOKSuscripcion ==
  /\ fila \in [estado : Estados, cliente : creados \cup {"NADIE"}, fin : Fines]
  /\ gracia \in BOOLEAN
  /\ evento \in [Eventos ->
       [tipo : TiposEvento \cup {"NADA"}, estado : Estados,
        cliente : Clientes \cup {"NADIE"}, veces : 0..2,
        registro : {"NO", "PROCESANDO", "PROCESADO", "FALLIDO"}]]
  /\ recibos \subseteq {e \in Eventos : evento[e].tipo = "PAGADA"}
  /\ creados \subseteq Clientes
  /\ \A r \in Gestiones : gestion[r].fase \in
       {"LEIDO", "AJENO", "ORDENADO", "CORREO", "ENVIADO", "SIN_CORREO"}

(* An event that mails nothing changes the subscription once at most,       *)
(* however many times and however together Stripe delivers it, and not at   *)
(* all while its record says it failed (_claim_stripe_event).               *)
UnaVez ==
  \A e \in Eventos : evento[e].tipo # "PAGADA" =>
    /\ evento[e].veces <= 1
    /\ evento[e].veces = 1 => evento[e].registro = "PROCESADO"

(* A receipt is mailed for a payment that is committed and no other, and an *)
(* invoice recorded as processed has its receipt (stripe_webhook).          *)
ComprobanteFiel ==
  \A e \in Eventos : evento[e].tipo = "PAGADA" =>
    /\ e \in recibos => evento[e].veces > 0
    /\ evento[e].registro = "PROCESADO" => e \in recibos

(* The company receives the receipt of every payment of its customer that   *)
(* Stripe notifies, however many deliveries and mails failed before the     *)
(* failures stop (stripe_webhook, send_paid_invoice).                       *)
DeSuCliente(e) ==
  evento[e].tipo = "PAGADA" /\ evento[e].cliente = fila.cliente
ComprobanteLlega ==
  <>[][\A r \in Gestiones : ~ Fallo(r)]_varsSuscripcion =>
    \A e \in Eventos : <>[]DeSuCliente(e) => <>(e \in recibos)

(* Reconciliation takes nothing from a company that may work until its end  *)
(* date passes, unless the row changed since it was read: it suspends for   *)
(* the grace that require_operational gives (derived_status).               *)
SoloCortaVencidas ==
  [][\A r \in Gestiones :
       /\ gestion[r].tipo = "RECONCILIAR" /\ ~ gestion[r].pasada
       /\ Operativa /\ ~ Operativa' /\ gestion'[r] = Ociosa
       => fila.fin = "PASADO"]_varsSuscripcion

(* Deliveries repeated, together and failing leave each event with the      *)
(* effects its record tells, on the row and on the mail, and a company      *)
(* keeps working while it may.                                              *)
SuscripcionFirme == [](UnaVez /\ ComprobanteFiel) /\ SoloCortaVencidas
=============================================================================
