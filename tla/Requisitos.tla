---------------------------- MODULE Requisitos ----------------------------
(***************************************************************************)
(* The skills of a company and the ones its vacancies require.  The list a  *)
(* vacancy requires is replaced by a DELETE and INSERTs; the row of the     *)
(* vacancy, which would put two editions in a queue, is only locked when    *)
(* the edition changes something else than the skills.                     *)
(*                                                                         *)
(* An edition of a vacancy is a transaction in three steps.  Lee... reads   *)
(* and checks without a lock; Borra... has locked the row if it updates it  *)
(* and has started the DELETE: PostgreSQL fixes there the rows it will      *)
(* touch; Escribe... inserts and commits.                                   *)
(***************************************************************************)
EXTENDS FiniteSets

CONSTANTS
  Peticiones,   \* requests in flight
  Habilidades,  \* identifiers of skills: that of a deleted one serves again
  Nombres,      \* names of skills, folded
  Vacantes,     \* identifiers of vacancies
  NULL

VARIABLES
  habilidad,    \* table habilidad, NULL for no row
  vacante,      \* table vacante and, in requiere, table vacante_habilidad
  pedido        \* requests in flight

vars == <<habilidad, vacante, pedido>>

Reposo == [op |-> "libre"]
En(p, op) == pedido[p].op = op
Pasa(p, m) == pedido' = [pedido EXCEPT ![p] = m]

Vivas == {h \in Habilidades : habilidad[h] # NULL}
Fila(n, activo) == [nombre |-> n, activo |-> activo]
Requerida(h) ==
  \E v \in Vacantes : vacante[v] # NULL /\ h \in vacante[v].requiere

(* uq_habilidad_empresa_nombre_ci                                           *)
Cabe(h, n) == \A k \in Vivas \ {h} : habilidad[k].nombre # n

Init ==
  /\ habilidad = [h \in Habilidades |-> NULL]
  /\ vacante = [v \in Vacantes |-> NULL]
  /\ pedido = [p \in Peticiones |-> Reposo]

----------------------------------------------------------------------------
(* The skills. *)

(* One INSERT, whose failure is the answer: nothing is read before.         *)
SinNombrar(h) == \A p \in Peticiones :
  /\ En(p, "habilidad") => pedido[p].id # h
  /\ pedido[p].op \in {"alta", "edicion", "borrado"} =>
       h \notin pedido[p].piden \cup pedido[p].objetivos
crear_habilidad(h, fila) ==
  /\ habilidad[h] = NULL /\ SinNombrar(h) /\ Cabe(h, fila.nombre)
  /\ habilidad' = [habilidad EXCEPT ![h] = fila]
  /\ UNCHANGED <<vacante, pedido>>

LeeHabilidad(p, h, fila) ==
  /\ En(p, "libre") /\ h \in Vivas
  /\ Pasa(p, [op |-> "habilidad", id |-> h, fila |-> fila,
              foto |-> habilidad[h]])
  /\ UNCHANGED <<habilidad, vacante>>

(* The flush writes the columns that differ from the row as it was read,    *)
(* and finds it gone if it was deleted.                                     *)
Escrita(m) == [c \in {"nombre", "activo"} |->
  IF m.fila[c] # m.foto[c] THEN m.fila[c] ELSE habilidad[m.id][c]]
EscribeHabilidad(p) ==
  LET m == pedido[p] IN
  /\ En(p, "habilidad")
  /\ m.id \in Vivas /\ Cabe(m.id, Escrita(m).nombre)
  /\ habilidad' = [habilidad EXCEPT ![m.id] = Escrita(m)]
  /\ Pasa(p, Reposo)
  /\ UNCHANGED vacante

(* ON DELETE RESTRICT: the DELETE fails while a vacancy requires the skill. *)
eliminar_habilidad(h) ==
  /\ h \in Vivas /\ ~ Requerida(h)
  /\ habilidad' = [habilidad EXCEPT ![h] = NULL]
  /\ UNCHANGED <<vacante, pedido>>

actualizar_habilidad(p) ==
  \/ \E h \in Habilidades, n \in Nombres, activo \in BOOLEAN :
       LeeHabilidad(p, h, Fila(n, activo))
  \/ EscribeHabilidad(p)

----------------------------------------------------------------------------
(* The vacancies. *)

(* skills_belong_to_empresa: the skills given are there, and active.        *)
Admitidas(hs) == \A h \in hs : h \in Vivas /\ habilidad[h].activo

LeeAlta(p, hs) ==
  /\ En(p, "libre") /\ Admitidas(hs)
  /\ Pasa(p, [op |-> "alta", piden |-> hs, objetivos |-> {}])
  /\ UNCHANGED <<habilidad, vacante>>
EscribeAlta(p, v) ==
  /\ En(p, "alta") /\ vacante[v] = NULL
  /\ pedido[p].piden \subseteq Vivas
  /\ vacante' = [vacante EXCEPT ![v] =
                   [estado |-> "BORRADOR", requiere |-> pedido[p].piden]]
  /\ Pasa(p, Reposo)
  /\ UNCHANGED habilidad

(* GestionarVacantes.actualizar; fila: something else is given too.         *)
LeeEdicion(p, v, hs, fila) ==
  /\ En(p, "libre") /\ vacante[v] # NULL
  /\ vacante[v].estado = "BORRADOR" /\ Admitidas(hs)
  /\ Pasa(p, [op |-> "edicion", id |-> v, piden |-> hs, fila |-> fila,
              objetivos |-> {}, cruce |-> "NO"])
  /\ UNCHANGED <<habilidad, vacante>>

Retenida(v) == \E q \in Peticiones :
  En(q, "borrado") /\ pedido[q].id = v /\ pedido[q].fila

RotoBorra(p) ==
  LET m == pedido[p] IN
  /\ En(p, "edicion") /\ vacante[m.id] # NULL
  /\ Pasa(p, [m EXCEPT !.op = "borrado",
                       !.objetivos = vacante[m.id].requiere])
  /\ UNCHANGED <<habilidad, vacante>>
Borra(p) ==
  LET m == pedido[p] IN
  /\ En(p, "edicion") /\ vacante[m.id] # NULL
  /\ m.fila => ~ Retenida(m.id)
  /\ Pasa(p, [m EXCEPT !.op = "borrado",
                       !.objetivos = vacante[m.id].requiere])
  /\ UNCHANGED <<habilidad, vacante>>

(* cruce: whether an edition of the same vacancy committed since the DELETE *)
(* started, and whether it held the row.                                    *)
Cruza(q, m) ==
  IF En(q, "borrado") /\ pedido[q].id = m.id
  THEN [pedido[q] EXCEPT !.cruce = IF m.fila THEN "CON_FILA" ELSE "SIN_FILA"]
  ELSE pedido[q]
EscribeEdicion(p) ==
  LET m == pedido[p]
      quedan == vacante[m.id].requiere \ m.objetivos
  IN
  /\ En(p, "borrado") /\ vacante[m.id] # NULL
  /\ m.piden \cap quedan = {}     \* uq_vacante_habilidad_pair
  /\ m.piden \subseteq Vivas      \* the foreign key
  /\ vacante' = [vacante EXCEPT ![m.id].requiere = quedan \cup m.piden]
  /\ pedido' = [q \in Peticiones |-> IF q = p THEN Reposo ELSE Cruza(q, m)]
  /\ UNCHANGED habilidad

(* The other operations of a vacancy are those of module Contratacion: here *)
(* it leaves the state it can be edited in, or disappears with its rows,    *)
(* and the editions that read it find nothing to write.                     *)
publicar_vacante(v) ==
  /\ vacante[v] # NULL /\ vacante[v].estado = "BORRADOR" /\ ~ Retenida(v)
  /\ vacante' = [vacante EXCEPT ![v].estado = "PUBLICADA"]
  /\ UNCHANGED <<habilidad, pedido>>
eliminar_vacante(v) ==
  /\ vacante[v] # NULL /\ vacante[v].estado = "BORRADOR" /\ ~ Retenida(v)
  /\ vacante' = [vacante EXCEPT ![v] = NULL]
  /\ pedido' = [q \in Peticiones |->
       IF pedido[q].op \in {"edicion", "borrado"} /\ pedido[q].id = v
       THEN Reposo ELSE pedido[q]]
  /\ UNCHANGED habilidad

crear_vacante(p) ==
  \/ \E hs \in SUBSET Habilidades : LeeAlta(p, hs)
  \/ \E v \in Vacantes : EscribeAlta(p, v)
actualizar_vacante(p) ==
  \/ \E v \in Vacantes, hs \in SUBSET Habilidades, fila \in BOOLEAN :
       LeeEdicion(p, v, hs, fila)
  \/ Borra(p) \/ EscribeEdicion(p)

Revierte(p) ==
  /\ ~ En(p, "libre") /\ Pasa(p, Reposo)
  /\ UNCHANGED <<habilidad, vacante>>

Next ==
  \/ \E p \in Peticiones :
       \/ actualizar_habilidad(p) \/ crear_vacante(p)
       \/ actualizar_vacante(p) \/ Revierte(p)
  \/ \E h \in Habilidades :
       \/ \E n \in Nombres, activo \in BOOLEAN :
            crear_habilidad(h, Fila(n, activo))
       \/ eliminar_habilidad(h)
  \/ \E v \in Vacantes : publicar_vacante(v) \/ eliminar_vacante(v)

Spec == Init /\ [][Next]_vars

----------------------------------------------------------------------------
TypeOK ==
  /\ habilidad \in [Habilidades ->
       [nombre : Nombres, activo : BOOLEAN] \cup {NULL}]
  /\ vacante \in [Vacantes ->
       [estado : {"BORRADOR", "PUBLICADA"}, requiere : SUBSET Habilidades]
         \cup {NULL}]

(* What a vacancy requires exists, whatever is deleted while it is written  *)
(* (vacante_habilidad.habilidad_id), and no two skills share a name.        *)
RequeridaExiste ==
  /\ \A h \in Habilidades : Requerida(h) => h \in Vivas
  /\ \A h, k \in Vivas :
       habilidad[h].nombre = habilidad[k].nombre => h = k

(* An edition leaves the vacancy with the skills it asked for, no less and  *)
(* no more, unless another edition of the same vacancy committed since its  *)
(* DELETE started; between two that also update the row that never happens, *)
(* because the second one's DELETE starts after the first one's commit      *)
(* (vacante_repository.update).                                             *)
EdicionEntera ==
  [][\A p \in Peticiones :
       En(p, "borrado") /\ pedido'[p] = Reposo /\ vacante' # vacante
         /\ vacante'[pedido[p].id] # NULL =>
         LET m == pedido[p] IN
         /\ m.cruce = "CON_FILA" => ~ m.fila
         /\ m.cruce = "NO" => vacante'[m.id].requiere = m.piden]_vars

(* The requirements are those some request asked for.                       *)
RequisitosFirmes == []RequeridaExiste /\ EdicionEntera
=============================================================================
