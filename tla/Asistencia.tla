---------------------------- MODULE Asistencia ----------------------------
(***************************************************************************)
(* The attendance of one month and the overtime its payroll pays: clocking *)
(* in and out, corrections decided by the boss, overtime confirmed by the  *)
(* boss and authorised by human resources, and the period that opens, is   *)
(* calculated (again, if wanted) and approved.                             *)
(*                                                                         *)
(* As in Contratacion, Lee... takes the row locks, reads and checks and    *)
(* Escribe... writes and commits.  _editable_period locks the row of the   *)
(* period, and locks nothing while the period has not been opened; the     *)
(* clock looks at no period.                                               *)
(*                                                                         *)
(* Of calculate_period this module has what concerns attendance; its other *)
(* refusals (contracts, taxes, rates, absences) are a calculation that is  *)
(* not started, or Revierte.  The Roto... operators are plausible mistakes *)
(* no definition uses: they show that a property can fail.                 *)
(***************************************************************************)
EXTENDS Naturals

CONSTANTS
  Empleados,
  UltimoDia,     \* the days of the month are 1..UltimoDia
  MaxExtra,      \* bound on the overtime hours of one day
  Montos,        \* amounts that human resources may authorise (gt=0)
  Peticiones     \* slots for the requests in flight

ASSUME DiasPositivos == UltimoDia \in Nat \ {0}
ASSUME ExtraNatural == MaxExtra \in Nat
ASSUME MontosPositivos == Montos \subseteq Nat \ {0}

VARIABLES
  reloj,         \* the instant; see Local and Utc
  periodo,       \* periodo_nomina.estado of the month
  fichaje,       \* table asistencia, by its unique employee and date
  correccion,    \* the pending correction of that employee and date
  autorizacion,  \* table autorizacion_horas_extra, unique by asistencia
  pagado,        \* overtime each day put into the payslips
  peticion       \* the requests in flight

tablas == <<periodo, fichaje, correccion, autorizacion, pagado>>
vars == <<reloj, tablas, peticion>>

----------------------------------------------------------------------------
(* Time and rows. *)

(* Two instants per day: the day in Bolivia, and its last four hours, when  *)
(* it is already the next day in UTC.                                       *)
Local == reloj \div 2
Utc == (reloj + 1) \div 2
Instantes == 2 .. 2 * UltimoDia + 2

Dias == 1 .. UltimoDia
Fichajes == Empleados \X Dias
Horas == 0 .. MaxExtra
EstadosPeriodo == {"SIN_ABRIR", "ABIERTO", "CALCULADO", "APROBADO"}
Calculado == periodo \in {"CALCULADO", "APROBADO"}

Fichaje == [estado : {"NINGUNO", "ABIERTO", "CERRADO"}, extra : Horas]
Correccion == [estado : {"NINGUNA", "PENDIENTE"}, conFichaje : BOOLEAN,
               extra : Horas]
Autorizacion ==
  [estado : {"NINGUNA", "JEFE_PENDIENTE", "RRHH_PENDIENTE", "AUTORIZADO",
             "RECHAZADO"},
   horas : Horas, monto : Montos \cup {0}]

SinFichar == [estado |-> "NINGUNO", extra |-> 0]
SinCorregir == [estado |-> "NINGUNA", conFichaje |-> FALSE, extra |-> 0]
SinAutorizar == [estado |-> "NINGUNA", horas |-> 0, monto |-> 0]

Cerrado(f) == fichaje[f].estado = "CERRADO"
Corrigiendo(f) == correccion[f].estado = "PENDIENTE"
Autorizado(f) == autorizacion[f].estado = "AUTORIZADO"

(* What calculate_period adds to HORAS_EXTRA for the attendance f.          *)
AlPago(f) == IF Cerrado(f) /\ fichaje[f].extra > 0 /\ Autorizado(f)
             THEN autorizacion[f].monto ELSE 0

----------------------------------------------------------------------------
(* The requests in flight and their locks.  fila: the attendance is locked; *)
(* hay: the period exists and is locked.                                    *)

Reposo == [op |-> "libre"]
Ajuste ==
  [op : {"pedirCorreccion"}, f : Fichajes, fila : BOOLEAN, hay : BOOLEAN,
   extra : Horas]
  \cup [op : {"resolverCorreccion", "jefe"}, f : Fichajes, fila : BOOLEAN,
        hay : BOOLEAN, aprobar : BOOLEAN]
  \cup [op : {"pedirExtra"}, f : Fichajes, fila : BOOLEAN, hay : BOOLEAN,
        horas : Horas]
  \cup [op : {"rrhh"}, f : Fichajes, fila : BOOLEAN, hay : BOOLEAN,
        aprobar : BOOLEAN, monto : Montos]
Peticion ==
  {Reposo} \cup Ajuste
  \cup [op : {"calcular"}, pagado : [Fichajes -> Montos \cup {0}]]

En(r, op) == peticion[r].op = op
EsAjuste(r) == peticion[r].op \notin {"libre", "calcular"}
Empieza(r, m) ==
  /\ peticion[r] = Reposo
  /\ peticion' = [peticion EXCEPT ![r] = m]
  /\ UNCHANGED <<reloj, tablas>>
Termina(r) == peticion' = [peticion EXCEPT ![r] = Reposo]

RotoPeriodoLibre ==
  \A s \in Peticiones : EsAjuste(s) => ~ peticion[s].hay
PeriodoLibre ==
  \A s \in Peticiones :
    ~ En(s, "calcular") /\ (EsAjuste(s) => ~ peticion[s].hay)
FichajeLibre(f) ==
  \A s \in Peticiones :
    EsAjuste(s) /\ peticion[s].fila => peticion[s].f # f
CorreccionLibre(f) ==
  \A s \in Peticiones : ~ (En(s, "resolverCorreccion") /\ peticion[s].f = f)

(* _editable_period: hay tells whether there was a row to lock.             *)
RotoEditable(hay) ==
  /\ hay = (periodo # "SIN_ABRIR")
  /\ hay => PeriodoLibre /\ periodo # "APROBADO"
Editable(hay) ==
  /\ hay = (periodo # "SIN_ABRIR")
  /\ hay => PeriodoLibre /\ periodo = "ABIERTO"

----------------------------------------------------------------------------
Init ==
  /\ reloj = 2
  /\ periodo = "SIN_ABRIR"
  /\ fichaje = [f \in Fichajes |-> SinFichar]
  /\ correccion = [f \in Fichajes |-> SinCorregir]
  /\ autorizacion = [f \in Fichajes |-> SinAutorizar]
  /\ pagado = [f \in Fichajes |-> 0]
  /\ peticion = [r \in Peticiones |-> Reposo]

(* The clock of the employee. *)

Entrada(f) ==
  /\ f[2] = Local /\ fichaje[f] = SinFichar
  /\ fichaje' = [fichaje EXCEPT ![f].estado = "ABIERTO"]
  /\ UNCHANGED <<reloj, periodo, correccion, autorizacion, pagado, peticion>>

(* The last open entry, not older than a day. *)
Salida(f, x) ==
  /\ fichaje[f].estado = "ABIERTO" /\ FichajeLibre(f)
  /\ Local <= f[2] + 1
  /\ \A d \in Dias : d > f[2] => fichaje[<<f[1], d>>].estado # "ABIERTO"
  /\ fichaje' = [fichaje EXCEPT ![f] = [estado |-> "CERRADO", extra |-> x]]
  /\ UNCHANGED <<reloj, periodo, correccion, autorizacion, pagado, peticion>>

(* Corrections. *)

LeePedirCorreccion(r, f, fila, hay, x) ==
  /\ f[2] <= Local
  /\ IF fila THEN FichajeLibre(f) /\ fichaje[f].estado # "NINGUNO"
             ELSE fichaje[f].estado = "NINGUNO"
  /\ Editable(hay)
  /\ ~ Corrigiendo(f)
  /\ fila => autorizacion[f].estado = "NINGUNA"
  /\ Empieza(r, [op |-> "pedirCorreccion", f |-> f, fila |-> fila,
                 hay |-> hay, extra |-> x])

EscribePedirCorreccion(r) ==
  LET m == peticion[r] IN
  /\ En(r, "pedirCorreccion")
  /\ ~ Corrigiendo(m.f)
  /\ correccion' = [correccion EXCEPT ![m.f] =
       [estado |-> "PENDIENTE", conFichaje |-> m.fila, extra |-> m.extra]]
  /\ Termina(r)
  /\ UNCHANGED <<reloj, periodo, fichaje, autorizacion, pagado>>

LeeResolverCorreccion(r, f, hay, b) ==
  /\ Corrigiendo(f) /\ CorreccionLibre(f)
  /\ Editable(hay)
  /\ IF correccion[f].conFichaje THEN FichajeLibre(f)
     ELSE b => fichaje[f].estado = "NINGUNO"
  /\ Empieza(r, [op |-> "resolverCorreccion", f |-> f,
                 fila |-> correccion[f].conFichaje, hay |-> hay,
                 aprobar |-> b])

(* Approval rewrites the attendance, or inserts the one that was missing.   *)
EscribeResolverCorreccion(r) ==
  LET m == peticion[r] IN
  /\ En(r, "resolverCorreccion")
  /\ m.aprobar /\ ~ m.fila => fichaje[m.f].estado = "NINGUNO"
  /\ fichaje' = IF m.aprobar
       THEN [fichaje EXCEPT ![m.f] =
               [estado |-> "CERRADO", extra |-> correccion[m.f].extra]]
       ELSE fichaje
  /\ correccion' = [correccion EXCEPT ![m.f] = SinCorregir]
  /\ Termina(r)
  /\ UNCHANGED <<reloj, periodo, autorizacion, pagado>>

(* Overtime. *)

SinCorreccion(f) == ~ (Corrigiendo(f) /\ correccion[f].conFichaje)
LeePedirExtra(r, f, hay, h) ==
  /\ Cerrado(f) /\ FichajeLibre(f)
  /\ Editable(hay)
  /\ h > 0 /\ h <= fichaje[f].extra
  /\ autorizacion[f].estado = "NINGUNA"
  /\ SinCorreccion(f)
  /\ Empieza(r, [op |-> "pedirExtra", f |-> f, fila |-> TRUE, hay |-> hay,
                 horas |-> h])

EscribePedirExtra(r) ==
  LET m == peticion[r] IN
  /\ En(r, "pedirExtra")
  /\ autorizacion[m.f].estado = "NINGUNA"
  /\ autorizacion' = [autorizacion EXCEPT ![m.f] =
       [estado |-> "JEFE_PENDIENTE", horas |-> m.horas, monto |-> 0]]
  /\ Termina(r)
  /\ UNCHANGED <<reloj, periodo, fichaje, correccion, pagado>>

LeeJefe(r, f, hay, b) ==
  /\ autorizacion[f].estado = "JEFE_PENDIENTE" /\ FichajeLibre(f)
  /\ Editable(hay)
  /\ Empieza(r, [op |-> "jefe", f |-> f, fila |-> TRUE, hay |-> hay,
                 aprobar |-> b])

RotoTrasJefe(b) == IF b THEN "RRHH_PENDIENTE" ELSE "RECHAZADA"
TrasJefe(b) == IF b THEN "RRHH_PENDIENTE" ELSE "RECHAZADO"
EscribeJefe(r) ==
  LET m == peticion[r] IN
  /\ En(r, "jefe")
  /\ autorizacion' = [autorizacion EXCEPT ![m.f].estado = TrasJefe(m.aprobar)]
  /\ Termina(r)
  /\ UNCHANGED <<reloj, periodo, fichaje, correccion, pagado>>

LeeRrhh(r, f, hay, b, a) ==
  /\ autorizacion[f].estado = "RRHH_PENDIENTE" /\ FichajeLibre(f)
  /\ Editable(hay)
  /\ Empieza(r, [op |-> "rrhh", f |-> f, fila |-> TRUE, hay |-> hay,
                 aprobar |-> b, monto |-> a])

EscribeRrhh(r) ==
  LET m == peticion[r] IN
  /\ En(r, "rrhh")
  /\ autorizacion' = [autorizacion EXCEPT ![m.f] =
       [estado |-> IF m.aprobar THEN "AUTORIZADO" ELSE "RECHAZADO",
        horas |-> @.horas,
        monto |-> IF m.aprobar THEN m.monto ELSE @.monto]]
  /\ Termina(r)
  /\ UNCHANGED <<reloj, periodo, fichaje, correccion, pagado>>

----------------------------------------------------------------------------
(* The period. *)

Abrir ==
  /\ periodo = "SIN_ABRIR"
  /\ periodo' = "ABIERTO"
  /\ UNCHANGED <<reloj, fichaje, correccion, autorizacion, pagado, peticion>>

(* Nothing of the month waits for a decision.                               *)
Decidido(f) ==
  Cerrado(f) /\ fichaje[f].extra > 0 =>
    autorizacion[f].estado \in {"AUTORIZADO", "RECHAZADO"}
Completo(f) ==
  /\ ~ Corrigiendo(f)
  /\ fichaje[f].estado # "ABIERTO"
  /\ Decidido(f)

LeeCalcular(r) ==
  /\ periodo \in {"ABIERTO", "CALCULADO"} /\ PeriodoLibre
  /\ Utc > UltimoDia
  /\ \A f \in Fichajes :
       /\ Completo(f)
       /\ Cerrado(f) /\ Autorizado(f) /\ fichaje[f].extra > 0 =>
            autorizacion[f].horas <= fichaje[f].extra
  /\ Empieza(r, [op |-> "calcular", pagado |-> [f \in Fichajes |-> AlPago(f)]])

EscribeCalcular(r) ==
  /\ En(r, "calcular")
  /\ periodo' = "CALCULADO"
  /\ pagado' = peticion[r].pagado
  /\ Termina(r)
  /\ UNCHANGED <<reloj, fichaje, correccion, autorizacion>>

Aprobar ==
  /\ periodo = "CALCULADO" /\ PeriodoLibre
  /\ periodo' = "APROBADO"
  /\ UNCHANGED <<reloj, fichaje, correccion, autorizacion, pagado, peticion>>

(* The last instant stands for every later one. *)
Avanza ==
  /\ reloj' = IF reloj + 1 \in Instantes THEN reloj + 1 ELSE reloj
  /\ UNCHANGED <<tablas, peticion>>

Revierte(r) ==
  /\ ~ En(r, "libre")
  /\ Termina(r)
  /\ UNCHANGED <<reloj, tablas>>

----------------------------------------------------------------------------
Lee(r) ==
  \/ \E f \in Fichajes, hay, b \in BOOLEAN :
       \/ \E x \in Horas : LeePedirCorreccion(r, f, b, hay, x)
       \/ LeeResolverCorreccion(r, f, hay, b)
       \/ \E h \in Horas : LeePedirExtra(r, f, hay, h)
       \/ LeeJefe(r, f, hay, b)
       \/ \E a \in Montos : LeeRrhh(r, f, hay, b, a)
  \/ LeeCalcular(r)

Escribe(r) ==
  \/ EscribePedirCorreccion(r)
  \/ EscribeResolverCorreccion(r)
  \/ EscribePedirExtra(r)
  \/ EscribeJefe(r)
  \/ EscribeRrhh(r)
  \/ EscribeCalcular(r)

Next ==
  \/ \E r \in Peticiones : Lee(r) \/ Escribe(r) \/ Revierte(r)
  \/ \E f \in Fichajes : Entrada(f) \/ \E x \in Horas : Salida(f, x)
  \/ Abrir
  \/ Aprobar
  \/ Avanza

Spec == Init /\ [][Next]_vars

----------------------------------------------------------------------------
(* What must hold. *)

TypeOK ==
  /\ reloj \in Instantes
  /\ periodo \in EstadosPeriodo
  /\ fichaje \in [Fichajes -> Fichaje]
  /\ correccion \in [Fichajes -> Correccion]
  /\ autorizacion \in [Fichajes -> Autorizacion]
  /\ pagado \in [Fichajes -> Montos \cup {0}]
  /\ peticion \in [Peticiones -> Peticion]

(* "Las horas solicitadas superan las fichadas" stays impossible: whatever  *)
(* is corrected, clocked or decided in between, an overtime request never   *)
(* exceeds the overtime of its attendance.                                  *)
HorasFichadas ==
  \A f \in Fichajes : autorizacion[f].estado # "NINGUNA" =>
    Cerrado(f) /\ autorizacion[f].horas <= fichaje[f].extra

(* "Solo el importe final aprobado se incluye en la boleta": the payslips   *)
(* of a calculated month pay exactly the amounts authorised, also those of  *)
(* decisions that found no period to lock.                                  *)
PagaLoAutorizado ==
  Calculado => \A f \in Fichajes :
    pagado[f] = IF Autorizado(f) THEN autorizacion[f].monto ELSE 0

(* "Las solicitudes pendientes bloquean el calculo del mes".                *)
SinExtrasPendientes ==
  Calculado => \A f \in Fichajes :
    autorizacion[f].estado \notin {"JEFE_PENDIENTE", "RRHH_PENDIENTE"}

(* "No se modifica un mes ya calculado": no late correction or decision     *)
(* touches a complete attendance or an authorisation.                       *)
MesCalculadoFijo ==
  [][Calculado => \A f \in Fichajes :
       /\ autorizacion'[f] = autorizacion[f]
       /\ fichaje[f].estado # "ABIERTO" /\ f[2] < Local =>
            fichaje'[f] = fichaje[f]]_vars

(* An approved payroll is final, although it may be calculated again until  *)
(* the moment of its approval.                                              *)
AprobadaEsFinal ==
  [][periodo = "APROBADO" => UNCHANGED <<periodo, pagado>>]_vars

(* A calculated month is what was worked and authorised, and stays so.       *)
NominaFiel == HorasFichadas /\ PagaLoAutorizado /\ SinExtrasPendientes
MesFijo == MesCalculadoFijo /\ AprobadaEsFinal
=============================================================================
