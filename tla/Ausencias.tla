----------------------------- MODULE Ausencias -----------------------------
(***************************************************************************)
(* Absences, the vacation balance, contract versions and the paid days of  *)
(* the payroll of one month.  Employees request absences, bosses decide    *)
(* them, human resources assign balances, version contracts and register   *)
(* partial pay, and the period is calculated and approved.                 *)
(*                                                                         *)
(* As in Contratacion, Lee... takes the row locks, reads and checks and    *)
(* Escribe... writes and commits.  The period row is locked by whoever     *)
(* registers partial pay, calculates or approves; absences and contracts   *)
(* never look at it.  Of calculate_period this module has what concerns    *)
(* the paid days (Asistencia has the overtime); its other refusals are a   *)
(* calculation that is not started, or Revierte.  The Roto... operators    *)
(* are plausible mistakes no definition uses.                              *)
(***************************************************************************)
EXTENDS Naturals, FiniteSets, FiniteSetsExt, Functions

CONSTANTS
  Empleados,
  IdsAusencia,   \* identifiers of absence requests
  UltimoDia,     \* the days of the month are 1..UltimoDia
  MaxSaldo,      \* bound on dias_asignados
  MaxFilas,      \* bound on the absences, balances and versions together
  Peticiones     \* slots for the requests in flight

ASSUME DiasPositivos == UltimoDia \in Nat \ {0}
ASSUME FilasFinitas == IsFiniteSet(IdsAusencia)
ASSUME CotasNaturales == MaxSaldo \in Nat /\ MaxFilas \in Nat

VARIABLES
  mesCerrado,    \* the month is over
  periodo,       \* periodo_nomina.estado of the month
  ausencia,      \* table solicitud_ausencia
  saldo,         \* table saldo_vacacion of the year
  contratos,     \* table contrato
  haber,         \* table haber_proporcional of the month
  boleta,        \* dias_trabajados of the payslip of the month
  peticion       \* the requests in flight

tablas == <<periodo, ausencia, saldo, contratos, haber, boleta>>
vars == <<mesCerrado, tablas, peticion>>

----------------------------------------------------------------------------
(* The rows. *)

Dias == 1 .. UltimoDia

(* 0 is any day before the month, UltimoDia + 1 any day after it, or none.  *)
Fechas == 0 .. UltimoDia + 1
Hoy == IF mesCerrado THEN UltimoDia + 1 ELSE 1

EstadosPeriodo == {"SIN_ABRIR", "ABIERTO", "CALCULADO", "APROBADO"}
Calculado == periodo \in {"CALCULADO", "APROBADO"}

(* Two kinds of absence: unpaid leave, and paid leave that uses vacation.   *)
Ausencia ==
  [estado : {"PENDIENTE", "APROBADA", "RECHAZADA"}, e : Empleados,
   ini : Dias, fin : Dias, tipo : {"SIN_GOCE", "VACACION"},
   descontados : 0 .. UltimoDia]
SinPedir == [estado |-> "NO_CREADA"]

SinSaldo == [hay |-> FALSE, asignado |-> 0, usado |-> 0]
Saldo == [hay : BOOLEAN, asignado : 0 .. MaxSaldo, usado : 0 .. MaxSaldo]

Contrato == [ini : Fechas, fin : Fechas,
             estado : {"VIGENTE", "REEMPLAZADO", "VENCIDO"}]

SinHaber == [dias |-> 0, auto |-> FALSE]
Haber == [dias : 0 .. UltimoDia, auto : BOOLEAN]

Solicitada(a) == ausencia[a].estado # "NO_CREADA"
Viva(a) == ausencia[a].estado \in {"PENDIENTE", "APROBADA"}
Pendiente(a) == ausencia[a].estado = "PENDIENTE"
Cubre(a, d) == ausencia[a].ini <= d /\ d <= ausencia[a].fin
Largo(a) == ausencia[a].fin - ausencia[a].ini + 1

(* The bound: one more row may be inserted.                                 *)
Cabe ==
  Cardinality({a \in IdsAusencia : Solicitada(a)})
  + Cardinality({e \in Empleados : saldo[e].hay})
  + MapThenSumSet(LAMBDA e : Cardinality(contratos[e]), Empleados)
  < MaxFilas

----------------------------------------------------------------------------
(* What calculate_period finds for an employee. *)

DelMes(e) == {c \in contratos[e] : c.ini <= UltimoDia /\ c.fin >= 1}
EnPlanilla == {e \in Empleados : DelMes(e) # {}}
SinGoce(e) ==
  {a \in IdsAusencia : /\ ausencia[a].estado = "APROBADA"
                       /\ ausencia[a].e = e /\ ausencia[a].tipo = "SIN_GOCE"}

(* needs_review and suggest_calendar_proration. *)
Revisar(e) ==
  \/ SinGoce(e) # {}
  \/ \E c \in DelMes(e) : c.ini > 1 \/ c.fin < UltimoDia
Pagables(e) ==
  Cardinality({d \in Dias : /\ \E c \in DelMes(e) : c.ini <= d /\ d <= c.fin
                            /\ \A a \in SinGoce(e) : ~ Cubre(a, d)})

Calculable(e) ==
  /\ Cardinality(DelMes(e)) = 1
  /\ \A a \in IdsAusencia : Pendiente(a) => ausencia[a].e # e
  /\ IF Revisar(e) THEN Pagables(e) > 0 /\ haber[e].dias <= Pagables(e)
                   ELSE haber[e] = SinHaber

HaberAlCalcular(e) ==
  IF e \in EnPlanilla /\ Revisar(e) /\ haber[e] = SinHaber
  THEN [dias |-> Pagables(e), auto |-> TRUE]
  ELSE haber[e]

(* A full month is dias_trabajados 30, here UltimoDia. *)
DiasBoleta(e, h) ==
  IF e \notin EnPlanilla THEN 0
  ELSE IF h = SinHaber THEN UltimoDia ELSE h.dias

----------------------------------------------------------------------------
(* The requests in flight and their locks: resolver its absence and, if it  *)
(* uses vacation, the balance; asignar the balance when there is one;       *)
(* contrato the employee; calcular the period.                              *)

Reposo == [op |-> "libre"]
Peticion ==
  {Reposo}
  \cup [op : {"pedir"}, a : IdsAusencia, e : Empleados, ini : Dias, fin : Dias,
        tipo : {"SIN_GOCE", "VACACION"}]
  \cup [op : {"resolver"}, a : IdsAusencia, aprobar : BOOLEAN,
        habiles : 0 .. UltimoDia, usado : 0 .. MaxSaldo]
  \cup [op : {"asignar"}, e : Empleados, hay : BOOLEAN, dias : 0 .. MaxSaldo]
  \cup [op : {"contrato"}, e : Empleados, ini : Fechas, fin : Fechas]
  \cup [op : {"calcular"}, haber : [Empleados -> Haber],
        boleta : [Empleados -> 0 .. UltimoDia]]

En(r, op) == peticion[r].op = op
Empieza(r, m) ==
  /\ peticion[r] = Reposo
  /\ peticion' = [peticion EXCEPT ![r] = m]
  /\ UNCHANGED <<mesCerrado, tablas>>
Termina(r) == peticion' = [peticion EXCEPT ![r] = Reposo]

PeriodoLibre == \A s \in Peticiones : ~ En(s, "calcular")
AusenciaLibre(a) ==
  \A s \in Peticiones : ~ (En(s, "resolver") /\ peticion[s].a = a)
RotoSaldoLibre(e) ==
  \A s \in Peticiones :
    En(s, "asignar") /\ peticion[s].hay => peticion[s].e # e
SaldoLibre(e) ==
  \A s \in Peticiones :
    /\ En(s, "asignar") /\ peticion[s].hay => peticion[s].e # e
    /\ En(s, "resolver") /\ peticion[s].habiles > 0 =>
         ausencia[peticion[s].a].e # e
EmpleadoLibre(e) ==
  \A s \in Peticiones : ~ (En(s, "contrato") /\ peticion[s].e = e)

----------------------------------------------------------------------------
Init ==
  /\ mesCerrado = FALSE
  /\ periodo = "SIN_ABRIR"
  /\ ausencia = [a \in IdsAusencia |-> SinPedir]
  /\ saldo = [e \in Empleados |-> SinSaldo]
  /\ contratos = [e \in Empleados |-> {}]
  /\ haber = [e \in Empleados |-> SinHaber]
  /\ boleta = [e \in Empleados |-> 0]
  /\ peticion = [r \in Peticiones |-> Reposo]

(* Absences. *)

(* The identifier is a new one. *)
Inedita(a) ==
  /\ ~ Solicitada(a)
  /\ \A s \in Peticiones : ~ (En(s, "pedir") /\ peticion[s].a = a)
LeePedir(r, a, e, i, f, t) ==
  /\ i <= f /\ Cabe /\ Inedita(a)
  /\ \A b \in IdsAusencia :
       Viva(b) /\ ausencia[b].e = e => ausencia[b].ini > f \/ ausencia[b].fin < i
  /\ Empieza(r, [op |-> "pedir", a |-> a, e |-> e, ini |-> i, fin |-> f,
                 tipo |-> t])

EscribePedir(r) ==
  LET m == peticion[r] IN
  /\ En(r, "pedir")
  /\ Cabe /\ EmpleadoLibre(m.e)
  /\ ausencia' = [ausencia EXCEPT ![m.a] =
       [estado |-> "PENDIENTE", e |-> m.e, ini |-> m.ini, fin |-> m.fin,
        tipo |-> m.tipo, descontados |-> 0]]
  /\ Termina(r)
  /\ UNCHANGED <<mesCerrado, periodo, saldo, contratos, haber, boleta>>

(* n working days to take from the balance, none unless vacation is used.   *)
LeeResolver(r, a, b, n) ==
  LET e == ausencia[a].e IN
  /\ AusenciaLibre(a) /\ Pendiente(a)
  /\ IF b /\ ausencia[a].tipo = "VACACION"
     THEN /\ n > 0 /\ n <= Largo(a)
          /\ SaldoLibre(e) /\ saldo[e].hay
          /\ saldo[e].usado + n <= saldo[e].asignado
     ELSE n = 0
  /\ Empieza(r, [op |-> "resolver", a |-> a, aprobar |-> b, habiles |-> n,
                 usado |-> saldo[e].usado])

EscribeResolver(r) ==
  LET m == peticion[r] IN
  /\ En(r, "resolver")
  /\ ausencia' = [ausencia EXCEPT
       ![m.a].estado = IF m.aprobar THEN "APROBADA" ELSE "RECHAZADA",
       ![m.a].descontados = m.habiles]
  /\ saldo' = IF m.habiles > 0
       THEN [saldo EXCEPT ![ausencia[m.a].e].usado = m.usado + m.habiles]
       ELSE saldo
  /\ Termina(r)
  /\ UNCHANGED <<mesCerrado, periodo, contratos, haber, boleta>>

LeeAsignar(r, e, n) ==
  /\ IF saldo[e].hay THEN SaldoLibre(e) /\ n >= saldo[e].usado ELSE Cabe
  /\ Empieza(r, [op |-> "asignar", e |-> e, hay |-> saldo[e].hay,
                 dias |-> n])

EscribeAsignar(r) ==
  LET m == peticion[r] IN
  /\ En(r, "asignar")
  /\ ~ m.hay => Cabe /\ ~ saldo[m.e].hay /\ EmpleadoLibre(m.e)
  /\ saldo' = [saldo EXCEPT ![m.e].hay = TRUE, ![m.e].asignado = m.dias]
  /\ Termina(r)
  /\ UNCHANGED <<mesCerrado, periodo, ausencia, contratos, haber, boleta>>

(* Contracts: the new version replaces the one in force, if any.            *)

Vigentes(e) == {c \in contratos[e] : c.estado = "VIGENTE"}

RotoPosterior(e, i) == TRUE
Posterior(e, i) == \A c \in Vigentes(e) : i > c.ini
LeeContrato(r, e, i, f) ==
  /\ i <= f /\ EmpleadoLibre(e) /\ Cabe
  /\ Posterior(e, i)
  /\ ~ (periodo = "APROBADO" /\ boleta[e] > 0 /\ i <= UltimoDia)
  /\ Empieza(r, [op |-> "contrato", e |-> e, ini |-> i, fin |-> f])

EscribeContrato(r) ==
  LET m == peticion[r] IN
  /\ En(r, "contrato") /\ Cabe
  /\ contratos' = [contratos EXCEPT ![m.e] =
       (@ \ Vigentes(m.e))
       \cup {[c EXCEPT !.fin = m.ini - 1, !.estado = "REEMPLAZADO"] :
               c \in Vigentes(m.e)}
       \cup {[ini |-> m.ini, fin |-> m.fin,
              estado |-> IF m.fin < Hoy THEN "VENCIDO" ELSE "VIGENTE"]}]
  /\ Termina(r)
  /\ UNCHANGED <<mesCerrado, periodo, ausencia, saldo, haber, boleta>>

----------------------------------------------------------------------------
(* The period. *)

Abrir ==
  /\ periodo = "SIN_ABRIR"
  /\ periodo' = "ABIERTO"
  /\ UNCHANGED <<mesCerrado, ausencia, saldo, contratos, haber, boleta, peticion>>

(* register_proportional_pay. *)
RotoRegistrable == periodo \in {"ABIERTO", "CALCULADO"} /\ PeriodoLibre
Registrable == periodo = "ABIERTO" /\ PeriodoLibre
RegistraHaber(e, n) ==
  /\ Registrable /\ EmpleadoLibre(e)
  /\ haber' = [haber EXCEPT ![e] = [dias |-> n, auto |-> FALSE]]
  /\ UNCHANGED <<mesCerrado, periodo, ausencia, saldo, contratos, boleta, peticion>>

LeeCalcular(r) ==
  LET h == [e \in Empleados |-> HaberAlCalcular(e)] IN
  /\ periodo \in {"ABIERTO", "CALCULADO"} /\ PeriodoLibre
  /\ mesCerrado
  /\ EnPlanilla # {}
  /\ \A e \in EnPlanilla : Calculable(e)
  /\ Empieza(r, [op |-> "calcular", haber |-> h,
                 boleta |-> [e \in Empleados |-> DiasBoleta(e, h[e])]])

EscribeCalcular(r) ==
  /\ En(r, "calcular")
  /\ \A e \in Empleados : peticion[r].boleta[e] > 0 => EmpleadoLibre(e)
  /\ periodo' = "CALCULADO"
  /\ haber' = peticion[r].haber
  /\ boleta' = peticion[r].boleta
  /\ Termina(r)
  /\ UNCHANGED <<mesCerrado, ausencia, saldo, contratos>>

Aprobar ==
  /\ periodo = "CALCULADO" /\ PeriodoLibre
  /\ periodo' = "APROBADO"
  /\ UNCHANGED <<mesCerrado, ausencia, saldo, contratos, haber, boleta, peticion>>

TerminaElMes ==
  /\ mesCerrado' = TRUE
  /\ UNCHANGED <<tablas, peticion>>

Revierte(r) ==
  /\ ~ En(r, "libre")
  /\ Termina(r)
  /\ UNCHANGED <<mesCerrado, tablas>>

----------------------------------------------------------------------------
Lee(r) ==
  \/ \E a \in IdsAusencia :
       \/ \E e \in Empleados, i, f \in Dias, t \in {"SIN_GOCE", "VACACION"} :
            LeePedir(r, a, e, i, f, t)
       \/ \E b \in BOOLEAN, n \in 0 .. UltimoDia : LeeResolver(r, a, b, n)
  \/ \E e \in Empleados :
       \/ \E n \in 0 .. MaxSaldo : LeeAsignar(r, e, n)
       \/ \E i, f \in Fechas : LeeContrato(r, e, i, f)
  \/ LeeCalcular(r)

Escribe(r) ==
  \/ EscribePedir(r)
  \/ EscribeResolver(r)
  \/ EscribeAsignar(r)
  \/ EscribeContrato(r)
  \/ EscribeCalcular(r)

Next ==
  \/ \E r \in Peticiones : Lee(r) \/ Escribe(r) \/ Revierte(r)
  \/ \E e \in Empleados, n \in Dias : RegistraHaber(e, n)
  \/ Abrir
  \/ Aprobar
  \/ TerminaElMes

Spec == Init /\ [][Next]_vars

----------------------------------------------------------------------------
(* What must hold. *)

TypeOK ==
  /\ mesCerrado \in BOOLEAN
  /\ periodo \in EstadosPeriodo
  /\ ausencia \in [IdsAusencia -> Ausencia \cup {SinPedir}]
  /\ saldo \in [Empleados -> Saldo]
  /\ contratos \in [Empleados -> SUBSET Contrato]
  /\ haber \in [Empleados -> Haber]
  /\ boleta \in [Empleados -> 0 .. UltimoDia]
  /\ peticion \in [Peticiones -> Peticion]

(* The absences granted to an employee, and the days each one took.         *)
Concedidas(e) ==
  {a \in IdsAusencia : Solicitada(a) /\ ausencia[a].e = e
                       /\ ausencia[a].estado = "APROBADA"}
Descontados ==
  [a \in IdsAusencia |-> IF Solicitada(a) THEN ausencia[a].descontados ELSE 0]

(* The balance is the vacation approved, no more and no less, and never     *)
(* exceeds what was assigned: no decision is lost, none counts twice, and   *)
(* no reassignment overtakes a decision in flight.                          *)
SaldoExacto ==
  \A e \in Empleados :
    /\ saldo[e].usado = SumFunctionOnSet(Descontados, Concedidas(e))
    /\ saldo[e].usado <= saldo[e].asignado

(* The payslips of a calculated month pay the days of the partial pay that  *)
(* is on record, or the full month: no registration slips in between the    *)
(* calculation's reads and its commit, nor after it.                        *)
BoletaConHaber ==
  Calculado => \A e \in Empleados : boleta[e] > 0 =>
    boleta[e] = IF haber[e] = SinHaber THEN UltimoDia ELSE haber[e].dias
=============================================================================
