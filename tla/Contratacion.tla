--------------------------- MODULE Contratacion ---------------------------
(***************************************************************************)
(* Vacancies, applications and hiring of one company, as the concurrent    *)
(* HTTP requests of the backend execute them.                              *)
(*                                                                         *)
(* A request is one PostgreSQL transaction at READ COMMITTED               *)
(* (infrastructure/database/session.py).  It is modelled by two steps,     *)
(* between which any other request may run:                                *)
(*   Lee...      the row locks it takes, everything it reads and every     *)
(*               check that makes it answer an error;                      *)
(*   Escribe...  its statements and the commit that publishes them and     *)
(*               releases the locks.                                       *)
(* The rows a request reads WITHOUT a lock may have changed by the time it *)
(* writes, and the second step does not look again unless the code does.   *)
(* A request whose only check is the WHERE of its UPDATE is one step.      *)
(* A request that answers an error, and one whose connection or process    *)
(* dies, changes nothing and drops its locks: Revierte.                    *)
(*                                                                         *)
(* The Roto... operators are plausible mistakes; no definition uses them,  *)
(* they show that a property can fail.                                     *)
(***************************************************************************)
EXTENDS Naturals, FiniteSets

CONSTANTS
  Vacantes,      \* identifiers of vacancies
  Postulantes,   \* candidates; unique by lower(ci), so also the people
  Codigos,       \* employee codes
  Peticiones,    \* slots for the requests in flight
  Cupos,         \* values of cantidad_vacantes (the schema says gt=0)
  MaxActivas,    \* plan.max_vacantes_activas
  Ninguno        \* the NULL of empleado_id

ASSUME CuposPositivos == Cupos \subseteq Nat \ {0} /\ Cupos # {}
ASSUME PostulantesFinitos == IsFiniteSet(Postulantes)
ASSUME NingunoNoEsEmpleado == Ninguno \notin [ci : Postulantes, codigo : Codigos]

VARIABLES
  vacante,       \* table vacante: state, places, whether fecha_cierre is past
  postulacion,   \* table postulacion, keyed by its unique pair
  enBanco,       \* postulante.en_banco_talento
  empleados,     \* table empleado; a row is named by its two unique keys
  peticion       \* the requests in flight and what they remember

tablas == <<vacante, postulacion, enBanco, empleados>>
vars == <<vacante, postulacion, enBanco, empleados, peticion>>

----------------------------------------------------------------------------
(* The rows. *)

EstadosVacante ==
  {"NO_CREADA", "BORRADOR", "PUBLICADA", "PAUSADA", "CERRADA", "CANCELADA",
   "ELIMINADA"}
EstadosPostulacion ==
  {"NO_CREADA", "ACTIVA", "RETIRADA", "DESCARTADA", "CONTRATADA"}

(* Stages are told apart only by their flags: es_contratado, es_rechazado,  *)
(* or neither.                                                              *)
Etapas == {"abierta", "contratado", "rechazado"}

Postulaciones == Vacantes \X Postulantes
Vacante == [estado : EstadosVacante, cantidad : Cupos, vencida : BOOLEAN]
Empleado == [ci : Postulantes, codigo : Codigos]
Postulacion ==
  [estado : EstadosPostulacion, etapa : Etapas, motivo : BOOLEAN,
   empleado : Empleado \cup {Ninguno}]

Fila(estado, etapa, motivo, empleado) ==
  [estado |-> estado, etapa |-> etapa, motivo |-> motivo,
   empleado |-> empleado]
SinPostular == Fila("NO_CREADA", "abierta", FALSE, Ninguno)
Nueva == Fila("ACTIVA", "abierta", FALSE, Ninguno)

Existe(v) == vacante[v].estado \notin {"NO_CREADA", "ELIMINADA"}
Postulo(p) == postulacion[p].estado # "NO_CREADA"
Contratadas(v) ==
  {p \in Postulaciones : p[1] = v /\ postulacion[p].estado = "CONTRATADA"}
Activas == {v \in Vacantes : vacante[v].estado = "PUBLICADA"}

(* contratar still has a place to give in v.                                *)
RotoHayCupo(v) == Cardinality(Contratadas(v)) <= vacante[v].cantidad
HayCupo(v) == Cardinality(Contratadas(v)) < vacante[v].cantidad

(* The WHERE of the two UPDATEs of the board.                               *)
RotoMovible(p) == Postulo(p)
Movible(p) == postulacion[p].estado \in {"ACTIVA", "DESCARTADA"}

(* The foreign key of postulacion (RESTRICT) lets go of v.                  *)
SinReferencias(v) == \A c \in Postulantes : ~ Postulo(<<v, c>>)

(* The unique indexes of empleado on lower(ci) and lower(codigo).           *)
RotoCiLibre(ci) == TRUE
CiLibre(ci) == \A e \in empleados : e.ci # ci
CodigoLibre(k) == \A e \in empleados : e.codigo # k

----------------------------------------------------------------------------
(* The requests. *)

(* The state changes of a vacancy that share one shape: the states the use  *)
(* case admits and the state its UPDATE writes.                             *)
Admite ==
  [publicar |-> {"BORRADOR", "PAUSADA"}, reanudar |-> {"PAUSADA"},
   pausar |-> {"PUBLICADA"}, cerrar |-> {"PUBLICADA", "PAUSADA"}]
RotoDestino ==
  [publicar |-> "PUBLICADA", reanudar |-> "PUBLICADA", pausar |-> "SUSPENDIDA",
   cerrar |-> "CERRADA"]
Destino ==
  [publicar |-> "PUBLICADA", reanudar |-> "PUBLICADA", pausar |-> "PAUSADA",
   cerrar |-> "CERRADA"]
Transiciones == {"publicar", "reanudar", "pausar", "cerrar"}

Reposo == [op |-> "libre"]
Peticion ==
  {Reposo}
  \cup [op : Transiciones \cup {"eliminar"}, v : Vacantes]
  \cup [op : {"actualizar"}, v : Vacantes, cantidad : Cupos, vencida : BOOLEAN]
  \cup [op : {"postular", "asociar"}, v : Vacantes, c : Postulantes]
  \cup [op : {"contratar"}, v : Vacantes, c : Postulantes, k : Codigos,
        cuenta : Nat, cupo : Cupos]

Empieza(r, p) ==
  /\ peticion[r] = Reposo
  /\ peticion' = [peticion EXCEPT ![r] = p]
  /\ UNCHANGED tablas
Termina(r) == peticion' = [peticion EXCEPT ![r] = Reposo]
En(r, op) == peticion[r].op = op

(* FOR UPDATE locks, held from the reading step to the commit: contratar   *)
(* locks vacancy, application and candidate in that order, asociar the     *)
(* vacancy.  Another request that needs the row waits.                     *)
BloqueanVacante(v) ==
  {s \in Peticiones :
     peticion[s].op \in {"contratar", "asociar"} /\ peticion[s].v = v}
BloqueanPostulacion(p) ==
  {s \in Peticiones :
     En(s, "contratar") /\ <<peticion[s].v, peticion[s].c>> = p}
BloqueanPostulante(c) ==
  {s \in Peticiones : En(s, "contratar") /\ peticion[s].c = c}
VacanteLibre(v) == BloqueanVacante(v) = {}

----------------------------------------------------------------------------
(* Vacancies. *)

Init ==
  /\ vacante \in [Vacantes ->
       {f \in Vacante : f.estado = "NO_CREADA" /\ ~ f.vencida}]
  /\ postulacion = [p \in Postulaciones |-> SinPostular]
  /\ enBanco \in [Postulantes -> BOOLEAN]
  /\ empleados = {}
  /\ peticion = [r \in Peticiones |-> Reposo]

CrearVacante(v, n, b) ==
  /\ vacante[v].estado = "NO_CREADA"
  /\ vacante' = [vacante EXCEPT ![v] =
       [estado |-> "BORRADOR", cantidad |-> n, vencida |-> b]]
  /\ UNCHANGED <<postulacion, enBanco, empleados, peticion>>

LeeActualizar(r, v, n, b) ==
  /\ vacante[v].estado = "BORRADOR"
  /\ Empieza(r, [op |-> "actualizar", v |-> v, cantidad |-> n, vencida |-> b])

EscribeActualizar(r) ==
  LET m == peticion[r] IN
  /\ En(r, "actualizar")
  /\ Existe(m.v) /\ VacanteLibre(m.v)
  /\ vacante' = [vacante EXCEPT ![m.v].cantidad = m.cantidad,
                                ![m.v].vencida = m.vencida]
  /\ Termina(r)
  /\ UNCHANGED <<postulacion, enBanco, empleados>>

(* publicar, reanudar, pausar, cerrar: none of them locks the vacancy.      *)
LeeTransicion(r, v, op) ==
  /\ vacante[v].estado \in Admite[op]
  /\ op \in {"publicar", "reanudar"} =>
       Cardinality(Activas) < MaxActivas /\ ~ vacante[v].vencida
  /\ Empieza(r, [op |-> op, v |-> v])

EscribeTransicion(r) ==
  LET m == peticion[r] IN
  /\ m.op \in Transiciones
  /\ Existe(m.v) /\ VacanteLibre(m.v)
  /\ vacante' = [vacante EXCEPT ![m.v].estado = Destino[m.op]]
  /\ Termina(r)
  /\ UNCHANGED <<postulacion, enBanco, empleados>>

LeeEliminar(r, v) ==
  /\ Existe(v) /\ vacante[v].estado # "PUBLICADA"
  /\ Empieza(r, [op |-> "eliminar", v |-> v])

EscribeEliminar(r) ==
  LET v == peticion[r].v IN
  /\ En(r, "eliminar")
  /\ Existe(v) /\ VacanteLibre(v)
  /\ SinReferencias(v)
  /\ vacante' = [vacante EXCEPT ![v].estado = "ELIMINADA"]
  /\ Termina(r)
  /\ UNCHANGED <<postulacion, enBanco, empleados>>

(* The closing date goes by. *)
Vence(v) ==
  /\ Existe(v)
  /\ vacante' = [vacante EXCEPT ![v].vencida = TRUE]
  /\ UNCHANGED <<postulacion, enBanco, empleados, peticion>>

----------------------------------------------------------------------------
(* Applications. *)

(* The insert of postular and asociar: it waits for FOR UPDATE holders of   *)
(* the rows its foreign keys name, and the unique pair refuses a second one.*)
Inserta(r, p) ==
  /\ Existe(p[1]) /\ BloqueanVacante(p[1]) \subseteq {r}
  /\ BloqueanPostulante(p[2]) = {}
  /\ ~ Postulo(p)
  /\ postulacion' = [postulacion EXCEPT ![p] = Nueva]
  /\ Termina(r)
  /\ UNCHANGED <<vacante, enBanco, empleados>>

(* The public portal; the CV is uploaded between the two steps.             *)
LeePostular(r, v, c) ==
  /\ vacante[v].estado = "PUBLICADA" /\ ~ vacante[v].vencida
  /\ ~ Postulo(<<v, c>>)
  /\ Empieza(r, [op |-> "postular", v |-> v, c |-> c])

EscribePostular(r) ==
  /\ En(r, "postular")
  /\ Inserta(r, <<peticion[r].v, peticion[r].c>>)

LeeAsociar(r, v, c) ==
  /\ enBanco[c]
  /\ VacanteLibre(v)
  /\ vacante[v].estado = "PUBLICADA"
  /\ ~ Postulo(<<v, c>>)
  /\ Empieza(r, [op |-> "asociar", v |-> v, c |-> c])

EscribeAsociar(r) ==
  /\ En(r, "asociar")
  /\ Inserta(r, <<peticion[r].v, peticion[r].c>>)

(* The write of banco and of a manual registration.                         *)
Banco(c, b) ==
  /\ BloqueanPostulante(c) = {}
  /\ enBanco' = [enBanco EXCEPT ![c] = b]
  /\ UNCHANGED <<vacante, postulacion, empleados, peticion>>

(* The two conditional UPDATEs of the board; the WHERE is evaluated on the  *)
(* committed row, after waiting for its lock.                               *)
Mueve(p, fila) ==
  /\ Movible(p)
  /\ BloqueanPostulacion(p) = {}
  /\ postulacion' = [postulacion EXCEPT ![p] = fila]
  /\ UNCHANGED <<vacante, enBanco, empleados, peticion>>

RotoCambiarEtapa(p) ==
  Mueve(p, Fila("ACTIVA", "abierta", postulacion[p].motivo,
                postulacion[p].empleado))
CambiarEtapa(p) ==
  Mueve(p, Fila("ACTIVA", "abierta", FALSE, postulacion[p].empleado))
Rechazar(p) ==
  Mueve(p, Fila("DESCARTADA", "rechazado", TRUE, postulacion[p].empleado))

----------------------------------------------------------------------------
(* Hiring. *)

LeeContratar(r, v, c, k) ==
  LET p == <<v, c>> cuenta == Cardinality(Contratadas(v)) IN
  /\ VacanteLibre(v) /\ BloqueanPostulacion(p) = {}
  /\ BloqueanPostulante(c) = {}
  /\ postulacion[p].estado = "ACTIVA"
  /\ vacante[v].estado \notin {"CERRADA", "CANCELADA", "BORRADOR"}
  /\ HayCupo(v)
  /\ CiLibre(c) /\ CodigoLibre(k)
  /\ Empieza(r, [op |-> "contratar", v |-> v, c |-> c, k |-> k,
                 cuenta |-> cuenta, cupo |-> vacante[v].cantidad])

EscribeContratar(r) ==
  LET m == peticion[r]
      e == [ci |-> m.c, codigo |-> m.k] IN
  /\ En(r, "contratar")
  /\ CiLibre(m.c) /\ CodigoLibre(m.k)
  /\ empleados' = empleados \cup {e}
  /\ postulacion' = [postulacion EXCEPT ![<<m.v, m.c>>] =
       Fila("CONTRATADA", "contratado", FALSE, e)]
  /\ vacante' = [vacante EXCEPT ![m.v] =
       IF m.cuenta + 1 = m.cupo
       THEN [estado |-> "CERRADA", cantidad |-> @.cantidad, vencida |-> TRUE]
       ELSE @]
  /\ Termina(r)
  /\ UNCHANGED enBanco

(* Another door to the table empleado: a new record linked to a user        *)
(* account, or a row of an imported file.                                   *)
AltaEmpleado(ci, k) ==
  /\ CiLibre(ci) /\ CodigoLibre(k)
  /\ empleados' = empleados \cup {[ci |-> ci, codigo |-> k]}
  /\ UNCHANGED <<vacante, postulacion, enBanco, peticion>>

(* The request answers an error, or its connection or its process dies.     *)
Revierte(r) ==
  /\ ~ En(r, "libre")
  /\ Termina(r)
  /\ UNCHANGED tablas

----------------------------------------------------------------------------
(* One operator for each endpoint: its reading step and its write.          *)
crear_vacante ==
  \E v \in Vacantes, n \in Cupos, b \in BOOLEAN : CrearVacante(v, n, b)

actualizar_vacante(r) ==
  \/ \E v \in Vacantes, n \in Cupos, b \in BOOLEAN : LeeActualizar(r, v, n, b)
  \/ EscribeActualizar(r)

Transita(r, op) ==
  \/ \E v \in Vacantes : LeeTransicion(r, v, op)
  \/ En(r, op) /\ EscribeTransicion(r)
publicar_vacante(r) == Transita(r, "publicar")
reanudar_vacante(r) == Transita(r, "reanudar")
pausar_vacante(r) == Transita(r, "pausar")
cerrar_vacante(r) == Transita(r, "cerrar")

eliminar_vacante(r) ==
  \/ \E v \in Vacantes : LeeEliminar(r, v)
  \/ EscribeEliminar(r)

crear_postulacion_publica(r) ==
  \/ \E v \in Vacantes, c \in Postulantes : LeePostular(r, v, c)
  \/ EscribePostular(r)

asociar(r) ==
  \/ \E v \in Vacantes, c \in Postulantes : LeeAsociar(r, v, c)
  \/ EscribeAsociar(r)

contratar(r) ==
  \/ \E v \in Vacantes, c \in Postulantes, k \in Codigos :
       LeeContratar(r, v, c, k)
  \/ EscribeContratar(r)

banco == \E c \in Postulantes, b \in BOOLEAN : Banco(c, b)

(* A manual registration: the unique key refuses a person already there.    *)
crear_postulante ==
  \E c \in Postulantes :
    /\ \A v \in Vacantes : ~ Postulo(<<v, c>>)
    /\ ~ enBanco[c]
    /\ Banco(c, TRUE)

Peticiona(r) ==
  \/ actualizar_vacante(r) \/ publicar_vacante(r) \/ reanudar_vacante(r)
  \/ pausar_vacante(r) \/ cerrar_vacante(r) \/ eliminar_vacante(r)
  \/ crear_postulacion_publica(r) \/ asociar(r) \/ contratar(r)

Next ==
  \/ \E r \in Peticiones : Peticiona(r) \/ Revierte(r)
  \/ \E p \in Postulaciones : CambiarEtapa(p) \/ Rechazar(p)
  \/ crear_vacante \/ banco \/ crear_postulante
  \/ \E v \in Vacantes : Vence(v)
  \/ \E ci \in Postulantes, k \in Codigos : AltaEmpleado(ci, k)

Spec == Init /\ [][Next]_vars

----------------------------------------------------------------------------
(* What must hold. *)

(* Every row and every request in flight has its type; a request that has   *)
(* passed its reads belongs to a vacancy that was created.                  *)
TypeOK ==
  /\ vacante \in [Vacantes -> Vacante]
  /\ postulacion \in [Postulaciones -> Postulacion]
  /\ enBanco \in [Postulantes -> BOOLEAN]
  /\ empleados \subseteq Empleado
  /\ peticion \in [Peticiones -> Peticion]

(* No two requests hold the same row: two hirings (or a hiring and an       *)
(* association) of one vacancy, two hirings of one candidate.               *)
BloqueosExclusivos ==
  \A r, s \in Peticiones : r # s =>
    /\ \A v \in Vacantes : ~ {r, s} \subseteq BloqueanVacante(v)
    /\ \A c \in Postulantes : ~ {r, s} \subseteq BloqueanPostulante(c)

(* What contratar read before it writes is still so when it writes: the     *)
(* number of people hired, the places, the open application, a vacancy that *)
(* may hire.  It rests on every writer of those rows honouring the locks.   *)
Foto(m) ==
  /\ m.cuenta = Cardinality(Contratadas(m.v))
  /\ m.cuenta < m.cupo
  /\ m.cupo = vacante[m.v].cantidad
  /\ vacante[m.v].estado \notin {"CERRADA", "CANCELADA", "BORRADOR"}
  /\ postulacion[<<m.v, m.c>>].estado = "ACTIVA"
FotoVigente ==
  \A r \in Peticiones : En(r, "contratar") => Foto(peticion[r])

(* Stage, state, rejection reason and employee of an application agree,     *)
(* whatever the board, the portal and hiring did to it in what order.       *)
TableroCoherente ==
  \A p \in Postulaciones : LET f == postulacion[p] IN
    /\ f.estado = "ACTIVA" <=> Postulo(p) /\ f.etapa = "abierta"
    /\ f.estado = "DESCARTADA" <=> f.etapa = "rechazado"
    /\ f.estado = "CONTRATADA" <=> f.etapa = "contratado"
    /\ f.motivo <=> f.estado = "DESCARTADA"
    /\ f.empleado # Ninguno <=> f.estado = "CONTRATADA"

(* An application that ended in a contract names an employee that exists    *)
(* and is that same person.                                                 *)
ContratadaConEmpleado ==
  \A p \in Postulaciones : postulacion[p].estado = "CONTRATADA" =>
    /\ postulacion[p].empleado \in empleados
    /\ postulacion[p].empleado.ci = p[2]

(* A person is hired through one application only, even when two vacancies  *)
(* hire the same candidate at the same time.                                *)
UnaContratacionPorPersona ==
  \A p, q \in Postulaciones :
    /\ p[2] = q[2]
    /\ postulacion[p].estado = "CONTRATADA"
    /\ postulacion[q].estado = "CONTRATADA"
    => p = q

(* No person is two employees, although hiring, the accounts and the        *)
(* imports all insert employees after an unlocked look.                     *)
UnEmpleadoPorPersona == \A e, f \in empleados : e.ci = f.ci => e = f

(* A hired person is one employee, through one application.                 *)
ContratacionUnica ==
  /\ ContratadaConEmpleado
  /\ UnaContratacionPorPersona
  /\ UnEmpleadoPorPersona

(* No application outlives its vacancy, although eliminar looks at the      *)
(* vacancy without a lock and applications arrive meanwhile.                *)
SinPostulacionesHuerfanas ==
  \A p \in Postulaciones : Postulo(p) => Existe(p[1])

(* The board, the portal, hiring and eliminar leave no application out of   *)
(* step with itself or with its vacancy.                                    *)
PostulacionesCoherentes == TableroCoherente /\ SinPostulacionesHuerfanas

(* A step that hires leaves the vacancy within its places, and closed       *)
(* exactly when the last one is taken.                                      *)
CupoAlContratar ==
  [][\A v \in Vacantes : Contratadas(v)' # Contratadas(v) =>
       /\ Cardinality(Contratadas(v)') <= vacante'[v].cantidad
       /\ Cardinality(Contratadas(v)') = vacante'[v].cantidad
            <=> vacante'[v].estado = "CERRADA"]_vars

(* The board, a retry or a late request never undoes or rewrites a hiring.  *)
ContratadaEsFinal ==
  [][\A p \in Postulaciones : postulacion[p].estado = "CONTRATADA" =>
       postulacion'[p] = postulacion[p]]_vars

(* A hiring counts once, within the places, and for ever.                   *)
ContratacionesFirmes == CupoAlContratar /\ ContratadaEsFinal

(* The book of contracts this component implements. *)
Libro ==
  INSTANCE LibroContrataciones WITH
    cupo <- [v \in Vacantes |-> vacante[v].cantidad],
    contratadas <- {p \in Postulaciones : postulacion[p].estado = "CONTRATADA"}
LibroSpec == Libro!Spec
=============================================================================
