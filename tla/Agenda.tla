------------------------------ MODULE Agenda ------------------------------
(***************************************************************************)
(* The interviews of one company: scheduled and edited by recruiters,      *)
(* confirmed by them or by the candidate with a tracking code, cancelled,  *)
(* and closed with a result; and the evaluations of an application.        *)
(*                                                                         *)
(* As in Contratacion a request is a transaction: Lee... takes its row     *)
(* locks, reads and checks, Escribe... writes and commits.  A request      *)
(* whose every read is of a row it holds locked is one step.               *)
(* Nothing in the database forbids two interviews at the same time: the    *)
(* lock of the interviewer's user row is what makes sin_conflicto safe.    *)
(*                                                                         *)
(* The Roto... operators are plausible mistakes; no definition uses them,  *)
(* they show that a property can fail.                                     *)
(***************************************************************************)
EXTENDS Naturals

CONSTANTS
  Postulaciones,   \* identifiers of applications
  Entrevistadores, \* user accounts that interview
  Entrevistas,     \* identifiers of interviews
  Duraciones,      \* values of duracion_min (the schema says ge=1)
  MaxHora,         \* bound on time: interviews start at 1..MaxHora
  Tramites       \* slots for the requests in flight

ASSUME DuracionesPositivas == Duraciones \subseteq Nat \ {0}
ASSUME MaxHoraNatural == MaxHora \in Nat

VARIABLES
  ahora,           \* datetime.now
  postulacion,     \* postulacion.estado
  evaluada,        \* the application has some evaluation
  entrevista,      \* table entrevista
  tramite         \* the requests in flight

tablas == <<postulacion, evaluada, entrevista>>
varsAgenda == <<ahora, postulacion, evaluada, entrevista, tramite>>

----------------------------------------------------------------------------
(* The rows. *)

Horas == 1 .. MaxHora
EstadosPostulacion == {"ACTIVA", "RETIRADA", "DESCARTADA", "CONTRATADA"}

SinCrear == [estado |-> "NO_CREADA"]
Entrevista ==
  [estado : {"PROGRAMADA", "CONFIRMADA", "REALIZADA", "CANCELADA"},
   p : Postulaciones, e : Entrevistadores, hora : Horas, dur : Duraciones]
(* Of the evaluations, whether an application has any.                      *)
Evaluaciones == [Postulaciones -> BOOLEAN]

Creada(i) == entrevista[i].estado # "NO_CREADA"
Vigente(i) == entrevista[i].estado \in {"PROGRAMADA", "CONFIRMADA"}

(* transicion_entrevista: repeating the present state is allowed.           *)
Permitidas ==
  [PROGRAMADA |-> {"CONFIRMADA", "CANCELADA", "REALIZADA"},
   CONFIRMADA |-> {"CANCELADA", "REALIZADA"},
   REALIZADA  |-> {},
   CANCELADA  |-> {}]
PermiteCambio(actual, siguiente) ==
  siguiente = actual \/ siguiente \in Permitidas[actual]

(* sin_conflicto: the half-open interval [h, h + d) meets no interview in   *)
(* force of the interviewer, the edited one apart.                          *)
RotoSinConflicto(i, e, h, d) ==
  \A j \in Entrevistas \ {i} :
    ~ (Vigente(j) /\ entrevista[j].e = e /\ entrevista[j].hora = h)
SinConflicto(i, e, h, d) ==
  \A j \in Entrevistas \ {i} :
    Vigente(j) /\ entrevista[j].e = e =>
      \/ entrevista[j].hora >= h + d
      \/ entrevista[j].hora + entrevista[j].dur <= h

----------------------------------------------------------------------------
(* The requests in flight and the rows they hold FOR UPDATE: guardar its    *)
(* application, its interviewer and its interview; estado its interview;    *)
(* evaluar its application.                                                 *)

Reposo == [op |-> "libre"]
Tramite ==
  {Reposo}
  \cup [op : {"guardar"}, i : Entrevistas, p : Postulaciones,
        e : Entrevistadores, hora : Horas, dur : Duraciones]
  \cup [op : {"estado"}, i : Entrevistas, estado : {"CONFIRMADA", "CANCELADA"}]
  \cup [op : {"evaluar"}, p : Postulaciones]

En(r, op) == tramite[r].op = op
Empieza(r, m) ==
  /\ tramite[r] = Reposo
  /\ tramite' = [tramite EXCEPT ![r] = m]
  /\ UNCHANGED <<ahora, tablas>>
Termina(r) == tramite' = [tramite EXCEPT ![r] = Reposo]

RotoSinGuardar(p) ==
  \A s \in Tramites : ~ (En(s, "evaluar") /\ tramite[s].p = p)
PostulacionLibre(p) ==
  \A s \in Tramites :
    ~ (tramite[s].op \in {"guardar", "evaluar"} /\ tramite[s].p = p)
EntrevistadorLibre(e) ==
  \A s \in Tramites : ~ (En(s, "guardar") /\ tramite[s].e = e)
EntrevistaLibre(i) ==
  \A s \in Tramites :
    ~ (tramite[s].op \in {"guardar", "estado"} /\ tramite[s].i = i)

----------------------------------------------------------------------------
InitAgenda ==
  /\ ahora = 0
  /\ postulacion = [p \in Postulaciones |-> "ACTIVA"]
  /\ evaluada = [p \in Postulaciones |-> FALSE]
  /\ entrevista = [i \in Entrevistas |-> SinCrear]
  /\ tramite = [r \in Tramites |-> Reposo]

(* guardar_entrevista, for a new interview or for an edit of one in force   *)
(* of the same application.                                                 *)
LeeGuardar(r, i, p, e, h, d) ==
  /\ h > ahora
  /\ PostulacionLibre(p) /\ postulacion[p] = "ACTIVA"
  /\ EntrevistadorLibre(e)
  /\ EntrevistaLibre(i)
  /\ Creada(i) => Vigente(i) /\ entrevista[i].p = p
  /\ SinConflicto(i, e, h, d)
  /\ Empieza(r, [op |-> "guardar", i |-> i, p |-> p, e |-> e, hora |-> h,
                 dur |-> d])

(* An edit keeps the state: a confirmed interview that moves stays so.      *)
RotoEstadoAlGuardar(i) == entrevista[i].estado
EstadoAlGuardar(i) ==
  IF Creada(i) THEN entrevista[i].estado ELSE "PROGRAMADA"

EscribeGuardar(r) ==
  LET m == tramite[r] IN
  /\ En(r, "guardar")
  /\ entrevista' = [entrevista EXCEPT ![m.i] =
       [estado |-> EstadoAlGuardar(m.i),
        p |-> m.p, e |-> m.e, hora |-> m.hora, dur |-> m.dur]]
  /\ Termina(r)
  /\ UNCHANGED <<ahora, postulacion, evaluada>>

(* estado_entrevista: the application is read without a lock.               *)
LeeEstado(r, i, s) ==
  /\ EntrevistaLibre(i) /\ Creada(i)
  /\ PermiteCambio(entrevista[i].estado, s)
  /\ s = "CONFIRMADA" => postulacion[entrevista[i].p] = "ACTIVA"
  /\ Empieza(r, [op |-> "estado", i |-> i, estado |-> s])

EscribeEstado(r) ==
  LET m == tramite[r] IN
  /\ En(r, "estado")
  /\ entrevista' = [entrevista EXCEPT ![m.i].estado = m.estado]
  /\ Termina(r)
  /\ UNCHANGED <<ahora, postulacion, evaluada>>

RotoResultado(i) ==
  /\ EntrevistaLibre(i) /\ Creada(i)
  /\ PermiteCambio(entrevista[i].estado, "REALIZADA")
  /\ entrevista' = [entrevista EXCEPT ![i].estado = "REALIZADA"]
  /\ UNCHANGED <<ahora, postulacion, evaluada, tramite>>
Resultado(i) ==
  /\ EntrevistaLibre(i) /\ Creada(i)
  /\ entrevista[i].hora <= ahora
  /\ PermiteCambio(entrevista[i].estado, "REALIZADA")
  /\ entrevista' = [entrevista EXCEPT ![i].estado = "REALIZADA"]
  /\ UNCHANGED <<ahora, postulacion, evaluada, tramite>>

(* The candidate's tracking code: application, then interview, both locked. *)
ConfirmarPublica(i) ==
  /\ EntrevistaLibre(i) /\ entrevista[i].estado = "PROGRAMADA"
  /\ PostulacionLibre(entrevista[i].p)
  /\ postulacion[entrevista[i].p] = "ACTIVA"
  /\ entrevista[i].hora > ahora
  /\ entrevista' = [entrevista EXCEPT ![i].estado = "CONFIRMADA"]
  /\ UNCHANGED <<ahora, postulacion, evaluada, tramite>>

LeeEvaluar(r, p) ==
  /\ PostulacionLibre(p)
  /\ postulacion[p] \notin {"RETIRADA", "DESCARTADA"}
  /\ Empieza(r, [op |-> "evaluar", p |-> p])

EscribeEvaluar(r) ==
  /\ En(r, "evaluar")
  /\ evaluada' = [evaluada EXCEPT ![tramite[r].p] = TRUE]
  /\ Termina(r)
  /\ UNCHANGED <<ahora, postulacion, entrevista>>

(* The moves of the board and the hiring (Contratacion), which wait for the *)
(* row of the application.                                                  *)
MuevePostulacion(p) ==
  /\ PostulacionLibre(p)
  /\ \/ /\ postulacion[p] \in {"ACTIVA", "DESCARTADA"}
        /\ \E s \in {"ACTIVA", "DESCARTADA"} :
             postulacion' = [postulacion EXCEPT ![p] = s]
     \/ /\ postulacion[p] = "ACTIVA"
        /\ postulacion' = [postulacion EXCEPT ![p] = "CONTRATADA"]
  /\ UNCHANGED <<ahora, evaluada, entrevista, tramite>>

PasaHora ==
  /\ ahora < MaxHora
  /\ ahora' = ahora + 1
  /\ UNCHANGED <<tablas, tramite>>

RevierteTramite(r) ==
  /\ ~ En(r, "libre")
  /\ Termina(r)
  /\ UNCHANGED <<ahora, tablas>>

----------------------------------------------------------------------------
(* One operator for each endpoint: its reading step and its write.          *)
Guarda(r, is) ==
  \/ \E i \in is, p \in Postulaciones, e \in Entrevistadores,
        h \in Horas, d \in Duraciones : LeeGuardar(r, i, p, e, h, d)
  \/ EscribeGuardar(r)
crear_entrevista(r) == Guarda(r, {i \in Entrevistas : ~ Creada(i)})
editar_entrevista(r) == Guarda(r, {i \in Entrevistas : Creada(i)})

estado_entrevista(r) ==
  \/ \E i \in Entrevistas, s \in {"CONFIRMADA", "CANCELADA"} : LeeEstado(r, i, s)
  \/ EscribeEstado(r)

resultado == \E i \in Entrevistas : Resultado(i)

(* A correction goes through the same steps, for one already recorded.      *)
Evalua(r, ps) ==
  \/ \E p \in ps : LeeEvaluar(r, p)
  \/ EscribeEvaluar(r)
crear_evaluacion(r) == Evalua(r, Postulaciones)
Evaluadas == {p \in Postulaciones : evaluada[p]}
editar_evaluacion(r) == Evalua(r, Evaluadas)

Tramita(r) ==
  \/ crear_entrevista(r) \/ editar_entrevista(r) \/ estado_entrevista(r)
  \/ crear_evaluacion(r) \/ editar_evaluacion(r)

NextAgenda ==
  \/ \E r \in Tramites : Tramita(r) \/ RevierteTramite(r)
  \/ resultado
  \/ \E i \in Entrevistas : ConfirmarPublica(i)
  \/ \E p \in Postulaciones : MuevePostulacion(p)
  \/ PasaHora

SpecAgenda == InitAgenda /\ [][NextAgenda]_varsAgenda

----------------------------------------------------------------------------
(* What must hold. *)

TypeOKAgenda ==
  /\ ahora \in 0 .. MaxHora
  /\ postulacion \in [Postulaciones -> EstadosPostulacion]
  /\ evaluada \in Evaluaciones
  /\ entrevista \in [Entrevistas -> Entrevista \cup {SinCrear}]
  /\ tramite \in [Tramites -> Tramite]

(* No interviewer has two interviews in force that overlap, whatever two    *)
(* recruiters schedule, move, hand over or cancel at the same time.         *)
SinDobleReserva ==
  \A i, j \in Entrevistas :
    i # j /\ Vigente(i) /\ Vigente(j) /\ entrevista[i].e = entrevista[j].e =>
      \/ entrevista[i].hora + entrevista[i].dur <= entrevista[j].hora
      \/ entrevista[j].hora + entrevista[j].dur <= entrevista[i].hora

(* What a guardar in flight found is still so: the slot is free, and its    *)
(* interview is not created, or is in force for the same application.       *)
HuecoVigente ==
  \A r \in Tramites : En(r, "guardar") =>
    LET m == tramite[r] IN
    /\ SinConflicto(m.i, m.e, m.hora, m.dur)
    /\ Creada(m.i) => Vigente(m.i) /\ entrevista[m.i].p = m.p
    /\ postulacion[m.p] = "ACTIVA"

(* Likewise for the change of state of an interview.                        *)
CambioVigente ==
  \A r \in Tramites : En(r, "estado") =>
    LET m == tramite[r] IN
    Creada(m.i) /\ PermiteCambio(entrevista[m.i].estado, m.estado)

(* An interview with a result has started: no late edit moves it forward.   *)
RealizadaEmpezo ==
  \A i \in Entrevistas :
    entrevista[i].estado = "REALIZADA" => entrevista[i].hora <= ahora

(* An interview that was held or cancelled is never edited or revived.      *)
TerminadaFija ==
  [][\A i \in Entrevistas :
       entrevista[i].estado \in {"REALIZADA", "CANCELADA"} =>
         entrevista'[i] = entrevista[i]]_varsAgenda

(* An interview is given or moved to a time only while its application is   *)
(* active at the commit, and never changes application.                     *)
CitaSoloActiva ==
  [][\A i \in Entrevistas :
       /\ entrevista'[i] # entrevista[i]
       /\ Creada(i) => entrevista'[i].hora # entrevista[i].hora
       => /\ postulacion[entrevista'[i].p] = "ACTIVA"
          /\ Creada(i) => entrevista'[i].p = entrevista[i].p]_varsAgenda

(* An evaluation is recorded only while the application is not rejected at  *)
(* the commit.                                                              *)
EvaluaSoloVigente ==
  [][\A p \in Postulaciones : evaluada'[p] # evaluada[p] =>
       postulacion[p] \in {"ACTIVA", "CONTRATADA"}]_varsAgenda

(* Nothing is scheduled, moved or evaluated behind the back of a rejection, *)
(* a hiring, a cancellation or a result.                                    *)
AgendaFirme ==
  []RealizadaEmpezo /\ TerminadaFija /\ CitaSoloActiva /\ EvaluaSoloVigente
=============================================================================
