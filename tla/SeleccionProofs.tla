--------------------------- MODULE SeleccionProofs ---------------------------
(***************************************************************************)
(* Proofs about what happens to an application while it is being selected: *)
(* its interviews and evaluations (Agenda), for any number of interviews,  *)
(* interviewers, applications, hours and requests in flight; and the       *)
(* analysis of its CV (AnalisisCV), for any vacancies, tracking codes,     *)
(* slots and requests in flight.                                           *)
(*                                                                         *)
(* Agenda: what a request found under its row locks is still so when it    *)
(* writes (HuecoVigente, CambioVigente).  No other request in flight has   *)
(* the same application, interviewer or interview (Ajenas), so its write   *)
(* cannot disturb what this one found.                                     *)
(*                                                                         *)
(* AnalisisCV: an analysis that has been compared and waits for its commit *)
(* holds the rows of its vacancy, application and candidate, so that what  *)
(* it read is still so (Frescas); the advisory locks leave one connected   *)
(* request per application, and none with the provider while another waits *)
(* for its commit (Turnos).  A code is of one request or of one            *)
(* application, and its file is there from before (Propios).               *)
(***************************************************************************)
EXTENDS Agenda, AnalisisCV, TLAPS

(***************************************************************************)
(* Agenda.                                                                 *)
(***************************************************************************)
USE DEF Evaluaciones, Evaluadas

----------------------------------------------------------------------------
(* The steps of NextAgenda by what they do, which is how the proofs go      *)
(* through them: a request reads, a request writes, one step does it all.   *)
Lee(r) ==
  \/ \E i \in Entrevistas, p \in Postulaciones, e \in Entrevistadores,
        h \in Horas, d \in Duraciones : LeeGuardar(r, i, p, e, h, d)
  \/ \E i \in Entrevistas, s \in {"CONFIRMADA", "CANCELADA"} : LeeEstado(r, i, s)
  \/ \E p \in Postulaciones : LeeEvaluar(r, p)

Escribe(r) == EscribeGuardar(r) \/ EscribeEstado(r) \/ EscribeEvaluar(r)

(* Every step of an endpoint is one of those (NextAgenda).                  *)
LEMMA PorPasosAgenda ==
  ASSUME NextAgenda
  PROVE  \/ \E r \in Tramites : Lee(r) \/ Escribe(r) \/ RevierteTramite(r)
         \/ \E i \in Entrevistas : Resultado(i) \/ ConfirmarPublica(i)
         \/ \E p \in Postulaciones : MuevePostulacion(p)
         \/ PasaHora
<1>1. ASSUME NEW r \in Tramites, Tramita(r)
      PROVE  Lee(r) \/ Escribe(r)
  BY <1>1 DEF Tramita, crear_entrevista, editar_entrevista, Guarda,
     estado_entrevista, crear_evaluacion, editar_evaluacion, Evalua, Lee,
     Escribe
<1> QED
  BY <1>1 DEF NextAgenda, resultado

----------------------------------------------------------------------------
(* Two requests in flight never lock the same row. *)
Ajenas ==
  \A r, s \in Tramites : r # s =>
    /\ tramite[r].op \in {"guardar", "evaluar"}
         /\ tramite[s].op \in {"guardar", "evaluar"}
         => tramite[r].p # tramite[s].p
    /\ tramite[r].op = "guardar" /\ tramite[s].op = "guardar"
         => tramite[r].e # tramite[s].e
    /\ tramite[r].op \in {"guardar", "estado"}
         /\ tramite[s].op \in {"guardar", "estado"}
         => tramite[r].i # tramite[s].i

(* An evaluation in flight found an application that is not rejected.       *)
EvaluaVigente ==
  \A r \in Tramites : En(r, "evaluar") =>
    postulacion[tramite[r].p] \in {"ACTIVA", "CONTRATADA"}

IInvAgenda ==
  /\ TypeOKAgenda
  /\ Ajenas
  /\ HuecoVigente
  /\ CambioVigente
  /\ EvaluaVigente
  /\ SinDobleReserva
  /\ RealizadaEmpezo

----------------------------------------------------------------------------
(* Every initial state satisfies the invariant.                             *)
LEMMA AlEmpezarAgenda == InitAgenda => IInvAgenda
<1> SUFFICES ASSUME InitAgenda PROVE IInvAgenda
  OBVIOUS
<1>1. TypeOKAgenda
  BY MaxHoraNatural DEF InitAgenda, TypeOKAgenda, EstadosPostulacion, Tramite
<1> QED
  BY <1>1 DEF InitAgenda, IInvAgenda, Ajenas, HuecoVigente, CambioVigente,
     EvaluaVigente, SinDobleReserva, RealizadaEmpezo, En, Reposo, Vigente, SinCrear

(* A reading step writes no table: it starts one request in a free slot.    *)
(* What the request found is so, and nobody else holds its rows.            *)
LEMMA LecturaFresca ==
  ASSUME TypeOKAgenda, NEW r \in Tramites, Lee(r)
  PROVE  /\ UNCHANGED <<ahora, tablas>>
         /\ \E m \in Tramite :
              /\ tramite' = [tramite EXCEPT ![r] = m]
              /\ m.op \in {"guardar", "evaluar"} => PostulacionLibre(m.p)
              /\ m.op = "guardar" =>
                   /\ EntrevistadorLibre(m.e)
                   /\ SinConflicto(m.i, m.e, m.hora, m.dur)
                   /\ Creada(m.i) => Vigente(m.i) /\ entrevista[m.i].p = m.p
                   /\ postulacion[m.p] = "ACTIVA"
              /\ m.op = "estado" =>
                   /\ Creada(m.i)
                   /\ PermiteCambio(entrevista[m.i].estado, m.estado)
              /\ m.op \in {"guardar", "estado"} => EntrevistaLibre(m.i)
              /\ m.op = "evaluar" =>
                   postulacion[m.p] \in {"ACTIVA", "CONTRATADA"}
<1>1. CASE \E i \in Entrevistas, p \in Postulaciones, e \in Entrevistadores,
             h \in Horas, d \in Duraciones : LeeGuardar(r, i, p, e, h, d)
  <2> PICK i \in Entrevistas, p \in Postulaciones, e \in Entrevistadores,
           h \in Horas, d \in Duraciones : LeeGuardar(r, i, p, e, h, d)
    BY <1>1
  <2> DEFINE m == [op |-> "guardar", i |-> i, p |-> p, e |-> e, hora |-> h,
                   dur |-> d]
  <2>1. m \in Tramite
    BY DEF Tramite
  <2> QED
    BY <2>1 DEF LeeGuardar, Empieza
<1>2. CASE \E i \in Entrevistas, s \in {"CONFIRMADA", "CANCELADA"} :
             LeeEstado(r, i, s)
  <2> PICK i \in Entrevistas, s \in {"CONFIRMADA", "CANCELADA"} :
           LeeEstado(r, i, s)
    BY <1>2
  <2> DEFINE m == [op |-> "estado", i |-> i, estado |-> s]
  <2>1. m \in Tramite
    BY DEF Tramite
  <2> QED
    BY <2>1 DEF LeeEstado, Empieza
<1>3. CASE \E p \in Postulaciones : LeeEvaluar(r, p)
  <2> PICK p \in Postulaciones : LeeEvaluar(r, p)
    BY <1>3
  <2> DEFINE m == [op |-> "evaluar", p |-> p]
  <2>1. m \in Tramite
    BY DEF Tramite
  <2> QED
    BY <2>1 DEF LeeEvaluar, Empieza, TypeOKAgenda, EstadosPostulacion
<1> QED
  BY <1>1, <1>2, <1>3 DEF Lee

(* A step that changes the state of interviews, and revives none of them,   *)
(* keeps the agenda free of conflicts and every slot that was found free.   *)
LEMMA SoloEstado ==
  ASSUME TypeOKAgenda, TypeOKAgenda',
         \A j \in Entrevistas : Vigente(j)' =>
           /\ Vigente(j)
           /\ entrevista'[j].e = entrevista[j].e
           /\ entrevista'[j].hora = entrevista[j].hora
           /\ entrevista'[j].dur = entrevista[j].dur
  PROVE  /\ SinDobleReserva => SinDobleReserva'
         /\ \A i \in Entrevistas, e \in Entrevistadores, h \in Horas,
              d \in Duraciones : SinConflicto(i, e, h, d) =>
                SinConflicto(i, e, h, d)'
<1>1. SinDobleReserva => SinDobleReserva'
  BY DEF SinDobleReserva, Vigente
<1>2. ASSUME NEW i \in Entrevistas, NEW e \in Entrevistadores,
             NEW h \in Horas, NEW d \in Duraciones, SinConflicto(i, e, h, d)
      PROVE  SinConflicto(i, e, h, d)'
  BY <1>2 DEF SinConflicto, Vigente
<1> QED
  BY <1>1, <1>2

(* A request that ends leaves the rows of the others theirs.                *)
LEMMA AjenasAlTerminar ==
  ASSUME TypeOKAgenda, Ajenas, NEW r \in Tramites, Termina(r)
  PROVE  Ajenas'
BY DEF TypeOKAgenda, Ajenas, Termina, Reposo

(* The fields of a request in flight.                                       *)
LEMMA Campos ==
  ASSUME TypeOKAgenda, NEW r \in Tramites
  PROVE  /\ En(r, "guardar") =>
              /\ tramite[r].i \in Entrevistas /\ tramite[r].p \in Postulaciones
              /\ tramite[r].e \in Entrevistadores /\ tramite[r].hora \in Horas
              /\ tramite[r].dur \in Duraciones
         /\ En(r, "estado") =>
              /\ tramite[r].i \in Entrevistas
              /\ tramite[r].estado \in {"CONFIRMADA", "CANCELADA"}
         /\ En(r, "evaluar") => tramite[r].p \in Postulaciones
BY DEF TypeOKAgenda, Tramite, En, Reposo

(* Reading preserves the invariant: the new request holds rows nobody held. *)
LEMMA PasoLee ==
  ASSUME IInvAgenda, NEW r \in Tramites, Lee(r)
  PROVE  IInvAgenda'
<1> USE DEF IInvAgenda
<1>1. PICK m \in Tramite :
        /\ UNCHANGED <<ahora, tablas>>
        /\ tramite' = [tramite EXCEPT ![r] = m]
        /\ m.op \in {"guardar", "evaluar"} => PostulacionLibre(m.p)
        /\ m.op = "guardar" =>
             /\ EntrevistadorLibre(m.e)
             /\ SinConflicto(m.i, m.e, m.hora, m.dur)
             /\ Creada(m.i) => Vigente(m.i) /\ entrevista[m.i].p = m.p
             /\ postulacion[m.p] = "ACTIVA"
        /\ m.op = "estado" =>
             Creada(m.i) /\ PermiteCambio(entrevista[m.i].estado, m.estado)
        /\ m.op \in {"guardar", "estado"} => EntrevistaLibre(m.i)
        /\ m.op = "evaluar" =>
             postulacion[m.p] \in {"ACTIVA", "CONTRATADA"}
  BY LecturaFresca
<1>2. /\ UNCHANGED <<ahora, postulacion, evaluada, entrevista>>
      /\ \A s \in Tramites :
           tramite'[s] = IF s = r THEN m ELSE tramite[s]
  BY <1>1 DEF tablas, TypeOKAgenda
<1>3. TypeOKAgenda'
  BY <1>1, <1>2 DEF TypeOKAgenda
<1>4. Ajenas'
  BY <1>1, <1>2 DEF Ajenas, PostulacionLibre, EntrevistadorLibre,
     EntrevistaLibre, En
<1>5. HuecoVigente'
  BY <1>1, <1>2 DEF HuecoVigente, En, SinConflicto, Vigente, Creada
<1>6. CambioVigente'
  BY <1>1, <1>2 DEF CambioVigente, En, Creada
<1>7. EvaluaVigente'
  BY <1>1, <1>2 DEF EvaluaVigente, En
<1>8. SinDobleReserva' /\ RealizadaEmpezo'
  BY <1>2 DEF SinDobleReserva, RealizadaEmpezo, Vigente
<1> QED
  BY <1>3, <1>4, <1>5, <1>6, <1>7, <1>8

(* guardar writes into the slot it found free. *)
LEMMA PasoGuardar ==
  ASSUME IInvAgenda, NEW r \in Tramites, EscribeGuardar(r)
  PROVE  IInvAgenda'
<1> USE DEF IInvAgenda
<1>1. PICK m : m = tramite[r]
  OBVIOUS
<1>2. PICK f : f = [estado |-> EstadoAlGuardar(m.i), p |-> m.p, e |-> m.e,
                    hora |-> m.hora, dur |-> m.dur]
  OBVIOUS
<1>3. /\ m.i \in Entrevistas /\ m.p \in Postulaciones
      /\ m.e \in Entrevistadores /\ m.hora \in Horas /\ m.dur \in Duraciones
      /\ m.op = "guardar" /\ En(r, "guardar")
  BY <1>1, Campos DEF EscribeGuardar, En
<1>4. /\ SinConflicto(m.i, m.e, m.hora, m.dur)
      /\ Creada(m.i) => Vigente(m.i) /\ entrevista[m.i].p = m.p
  BY <1>1, <1>3 DEF HuecoVigente
<1>5. /\ UNCHANGED <<ahora, postulacion, evaluada>>
      /\ entrevista' = [entrevista EXCEPT ![m.i] = f]
      /\ Termina(r)
  BY <1>1, <1>2 DEF EscribeGuardar
<1>6. f \in Entrevista /\ f.estado \in {"PROGRAMADA", "CONFIRMADA"}
  BY <1>2, <1>3, <1>4 DEF EstadoAlGuardar, Vigente, Entrevista
<1>7. \A i \in Entrevistas :
        entrevista'[i] = IF i = m.i THEN f ELSE entrevista[i]
  BY <1>5 DEF TypeOKAgenda
<1>8. \A s \in Tramites :
        tramite'[s] = IF s = r THEN Reposo ELSE tramite[s]
  BY <1>5 DEF TypeOKAgenda, Termina
<1>9. TypeOKAgenda'
  BY <1>3, <1>5, <1>6, <1>8 DEF TypeOKAgenda, Termina, Tramite
<1>10. Ajenas'
  BY <1>5, AjenasAlTerminar
<1>11. SinDobleReserva'
  <2> SUFFICES ASSUME NEW i \in Entrevistas, NEW j \in Entrevistas, i # j,
                      Vigente(i)', Vigente(j)',
                      entrevista'[i].e = entrevista'[j].e
               PROVE  \/ entrevista'[i].hora + entrevista'[i].dur
                           <= entrevista'[j].hora
                      \/ entrevista'[j].hora + entrevista'[j].dur
                           <= entrevista'[i].hora
    BY DEF SinDobleReserva
  <2>1. CASE i = m.i
    <3>1. /\ Vigente(j) /\ entrevista[j].e = m.e /\ entrevista'[i] = f
          /\ entrevista'[j] = entrevista[j]
      BY <2>1, <1>2, <1>7 DEF Vigente
    <3>2. \/ entrevista[j].hora >= m.hora + m.dur
          \/ entrevista[j].hora + entrevista[j].dur <= m.hora
      BY <3>1, <2>1, <1>4 DEF SinConflicto
    <3> QED
      BY <3>1, <3>2, <1>2
  <2>2. CASE j = m.i
    <3>1. /\ Vigente(i) /\ entrevista[i].e = m.e /\ entrevista'[j] = f
          /\ entrevista'[i] = entrevista[i]
      BY <2>2, <1>2, <1>7 DEF Vigente
    <3>2. \/ entrevista[i].hora >= m.hora + m.dur
          \/ entrevista[i].hora + entrevista[i].dur <= m.hora
      BY <3>1, <2>2, <1>4 DEF SinConflicto
    <3> QED
      BY <3>1, <3>2, <1>2
  <2>3. CASE i # m.i /\ j # m.i
    BY <2>3, <1>7 DEF SinDobleReserva, Vigente
  <2> QED
    BY <2>1, <2>2, <2>3
<1>12. HuecoVigente'
  <2> SUFFICES ASSUME NEW s \in Tramites, En(s, "guardar")'
               PROVE  /\ SinConflicto(tramite[s].i, tramite[s].e,
                                      tramite[s].hora, tramite[s].dur)'
                      /\ Creada(tramite[s].i)' =>
                           /\ Vigente(tramite[s].i)'
                           /\ entrevista'[tramite'[s].i].p = tramite'[s].p
                      /\ postulacion'[tramite'[s].p] = "ACTIVA"
    BY DEF HuecoVigente
  <2>1. s # r /\ tramite'[s] = tramite[s] /\ En(s, "guardar")
    BY <1>8 DEF En, Reposo
  <2>2. PICK n : n = tramite[s]
    OBVIOUS
  <2>3. n.i \in Entrevistas /\ n.i # m.i /\ n.e # m.e
    BY <2>1, <2>2, <1>1, <1>3, Campos DEF Ajenas, En
  <2>4. /\ SinConflicto(n.i, n.e, n.hora, n.dur)
        /\ Creada(n.i) => Vigente(n.i) /\ entrevista[n.i].p = n.p
        /\ postulacion[n.p] = "ACTIVA"
    BY <2>1, <2>2 DEF HuecoVigente
  <2>5. SinConflicto(n.i, n.e, n.hora, n.dur)'
    BY <2>2, <2>3, <2>4, <1>2, <1>7, <2>1 DEF SinConflicto, Vigente
  <2>6. /\ Creada(n.i)' => Vigente(n.i)' /\ entrevista'[n.i].p = n.p
        /\ postulacion'[n.p] = "ACTIVA"
    BY <2>1, <2>2, <2>3, <2>4, <1>5, <1>7 DEF Creada, Vigente
  <2> QED
    BY <2>1, <2>2, <2>5, <2>6
<1>13. CambioVigente'
  <2> SUFFICES ASSUME NEW s \in Tramites, En(s, "estado")'
               PROVE  /\ Creada(tramite[s].i)'
                      /\ PermiteCambio(entrevista'[tramite'[s].i].estado,
                                 tramite'[s].estado)
    BY DEF CambioVigente
  <2>1. s # r /\ tramite'[s] = tramite[s] /\ En(s, "estado")
    BY <1>8 DEF En, Reposo
  <2>2. tramite[s].i \in Entrevistas /\ tramite[s].i # m.i
    BY <2>1, <1>1, <1>3, Campos DEF Ajenas, En
  <2> QED
    BY <2>1, <2>2, <1>7 DEF CambioVigente, Creada
<1>14. EvaluaVigente'
  BY <1>5, <1>8 DEF EvaluaVigente, En, Reposo
<1>15. RealizadaEmpezo'
  BY <1>5, <1>6, <1>7 DEF RealizadaEmpezo
<1> QED
  BY <1>9, <1>10, <1>11, <1>12, <1>13, <1>14, <1>15

(* The three changes of state of an interview: an allowed one, of an        *)
(* interview that no other request in flight holds.                         *)
LEMMA CambiaEstado ==
  ASSUME IInvAgenda, TypeOKAgenda', Ajenas', NEW i \in Entrevistas,
         NEW estado \in {"CONFIRMADA", "REALIZADA", "CANCELADA"},
         Creada(i), PermiteCambio(entrevista[i].estado, estado),
         estado = "REALIZADA" => entrevista[i].hora <= ahora,
         entrevista' = [entrevista EXCEPT ![i].estado = estado],
         UNCHANGED <<ahora, postulacion>>,
         \A s \in Tramites :
           tramite'[s] # Reposo =>
             /\ tramite'[s] = tramite[s]
             /\ En(s, "guardar") \/ En(s, "estado") => tramite[s].i # i
  PROVE  IInvAgenda'
<1> USE DEF IInvAgenda
<1>1. PICK f : f = [entrevista[i] EXCEPT !.estado = estado]
  OBVIOUS
<1>2. \A j \in Entrevistas :
        entrevista'[j] = IF j = i THEN f ELSE entrevista[j]
  BY <1>1 DEF TypeOKAgenda
<1>3. entrevista[i] \in Entrevista
  BY DEF TypeOKAgenda, Creada, SinCrear
<1>4. /\ f.estado = estado /\ f.p = entrevista[i].p /\ f.e = entrevista[i].e
      /\ f.hora = entrevista[i].hora /\ f.dur = entrevista[i].dur
  BY <1>1, <1>3 DEF Entrevista
<1>5. f.estado \in {"PROGRAMADA", "CONFIRMADA"} => Vigente(i)
  BY <1>3, <1>4 DEF Vigente, PermiteCambio, Permitidas, Entrevista
<1>6. \A j \in Entrevistas : Vigente(j)' =>
        /\ Vigente(j)
        /\ entrevista'[j].e = entrevista[j].e
        /\ entrevista'[j].hora = entrevista[j].hora
        /\ entrevista'[j].dur = entrevista[j].dur
  BY <1>2, <1>4, <1>5 DEF Vigente
<1>7. \A s \in Tramites : tramite'[s].op # "libre" =>
        /\ tramite'[s] = tramite[s]
        /\ En(s, "guardar") \/ En(s, "estado") => tramite[s].i # i
  BY DEF Reposo
<1>8. SinDobleReserva'
  BY <1>6, SoloEstado
<1>9. HuecoVigente'
  <2> SUFFICES ASSUME NEW s \in Tramites, En(s, "guardar")'
               PROVE  /\ SinConflicto(tramite[s].i, tramite[s].e,
                                      tramite[s].hora, tramite[s].dur)'
                      /\ Creada(tramite[s].i)' =>
                           /\ Vigente(tramite[s].i)'
                           /\ entrevista'[tramite'[s].i].p = tramite'[s].p
                      /\ postulacion'[tramite'[s].p] = "ACTIVA"
    BY DEF HuecoVigente
  <2>1. tramite'[s] = tramite[s] /\ En(s, "guardar") /\ tramite[s].i # i
    BY <1>7 DEF En
  <2>2. PICK n : n = tramite[s]
    OBVIOUS
  <2>3. /\ n.i \in Entrevistas /\ n.e \in Entrevistadores
        /\ n.hora \in Horas /\ n.dur \in Duraciones
    BY <2>1, <2>2, Campos
  <2>4. /\ SinConflicto(n.i, n.e, n.hora, n.dur)
        /\ Creada(n.i) => Vigente(n.i) /\ entrevista[n.i].p = n.p
        /\ postulacion[n.p] = "ACTIVA"
    BY <2>1, <2>2 DEF HuecoVigente
  <2>5. SinConflicto(n.i, n.e, n.hora, n.dur)'
    BY <2>3, <2>4, <1>6, SoloEstado
  <2>6. /\ Creada(n.i)' => Vigente(n.i)' /\ entrevista'[n.i].p = n.p
        /\ postulacion'[n.p] = "ACTIVA"
    BY <2>1, <2>2, <2>3, <2>4, <1>2 DEF Creada, Vigente
  <2> QED
    BY <2>1, <2>2, <2>5, <2>6
<1>10. CambioVigente'
  <2> SUFFICES ASSUME NEW s \in Tramites, En(s, "estado")'
               PROVE  /\ Creada(tramite[s].i)'
                      /\ PermiteCambio(entrevista'[tramite'[s].i].estado,
                                 tramite'[s].estado)
    BY DEF CambioVigente
  <2>1. tramite'[s] = tramite[s] /\ En(s, "estado") /\ tramite[s].i # i
    BY <1>7 DEF En
  <2>2. tramite[s].i \in Entrevistas
    BY <2>1, Campos
  <2> QED
    BY <2>1, <2>2, <1>2 DEF CambioVigente, Creada
<1>11. EvaluaVigente'
  BY <1>7 DEF EvaluaVigente, En
<1>12. RealizadaEmpezo'
  <2> SUFFICES ASSUME NEW j \in Entrevistas, entrevista'[j].estado = "REALIZADA"
               PROVE  entrevista'[j].hora <= ahora'
    BY DEF RealizadaEmpezo
  <2>1. CASE j = i
    BY <2>1, <1>2, <1>4
  <2>2. CASE j # i
    BY <2>2, <1>2 DEF RealizadaEmpezo
  <2> QED
    BY <2>1, <2>2
<1> QED
  BY <1>8, <1>9, <1>10, <1>11, <1>12

(* The type of the table after such a change.                               *)
LEMMA TipoEstado ==
  ASSUME TypeOKAgenda, NEW i \in Entrevistas, Creada(i),
         NEW estado \in {"CONFIRMADA", "REALIZADA", "CANCELADA"}
  PROVE  [entrevista EXCEPT ![i].estado = estado]
           \in [Entrevistas -> Entrevista \cup {SinCrear}]
<1>1. entrevista[i] \in Entrevista
  BY DEF TypeOKAgenda, Creada, SinCrear
<1>2. [entrevista[i] EXCEPT !.estado = estado] \in Entrevista
  BY <1>1 DEF Entrevista
<1> QED
  BY <1>2 DEF TypeOKAgenda

(* The write of estado_entrevista makes an allowed change of its interview. *)
LEMMA PasoEstado ==
  ASSUME IInvAgenda, NEW r \in Tramites, EscribeEstado(r)
  PROVE  IInvAgenda'
<1> USE DEF IInvAgenda
<1>1. PICK m : m = tramite[r]
  OBVIOUS
<1>2. /\ m.i \in Entrevistas /\ m.estado \in {"CONFIRMADA", "CANCELADA"}
      /\ Creada(m.i) /\ PermiteCambio(entrevista[m.i].estado, m.estado)
      /\ m.op = "estado"
  BY <1>1, Campos DEF EscribeEstado, CambioVigente, En
<1>3. /\ entrevista' = [entrevista EXCEPT ![m.i].estado = m.estado]
      /\ Termina(r)
      /\ UNCHANGED <<ahora, postulacion, evaluada>>
  BY <1>1 DEF EscribeEstado
<1>4. TypeOKAgenda'
  BY <1>2, <1>3, TipoEstado DEF TypeOKAgenda, Termina, Tramite
<1>5. Ajenas'
  BY <1>3, AjenasAlTerminar
<1>6. ASSUME NEW s \in Tramites, tramite'[s] # Reposo
      PROVE  /\ tramite'[s] = tramite[s]
             /\ En(s, "guardar") \/ En(s, "estado") => tramite[s].i # m.i
  <2>1. s # r /\ tramite'[s] = tramite[s]
    BY <1>3, <1>6 DEF Termina, TypeOKAgenda
  <2> QED
    BY <2>1, <1>1, <1>2 DEF Ajenas, En
<1> QED
  BY <1>2, <1>3, <1>4, <1>5, <1>6, CambiaEstado

(* resultado_entrevista marks as held an interview that has started.        *)
LEMMA PasoResultado ==
  ASSUME IInvAgenda, NEW i \in Entrevistas, Resultado(i)
  PROVE  IInvAgenda'
<1> USE DEF IInvAgenda
<1>1. TypeOKAgenda'
  BY TipoEstado DEF Resultado, TypeOKAgenda
<1>2. Ajenas'
  BY DEF Resultado, Ajenas
<1> QED
  BY <1>1, <1>2, CambiaEstado DEF Resultado, EntrevistaLibre, En

(* The candidate's confirmation is an allowed change of a free interview.   *)
LEMMA PasoConfirmar ==
  ASSUME IInvAgenda, NEW i \in Entrevistas, ConfirmarPublica(i)
  PROVE  IInvAgenda'
<1> USE DEF IInvAgenda
<1>1. Creada(i) /\ PermiteCambio(entrevista[i].estado, "CONFIRMADA")
  BY DEF ConfirmarPublica, Creada, PermiteCambio, Permitidas
<1>2. TypeOKAgenda'
  BY <1>1, TipoEstado DEF ConfirmarPublica, TypeOKAgenda
<1>3. Ajenas'
  BY DEF ConfirmarPublica, Ajenas
<1> QED
  BY <1>1, <1>2, <1>3, CambiaEstado DEF ConfirmarPublica, EntrevistaLibre, En

(* An evaluation that commits, and a request that rolls back: no row of the *)
(* agenda changes and one request ends.                                     *)
LEMMA PasoSinAgenda ==
  ASSUME IInvAgenda, NEW r \in Tramites,
         EscribeEvaluar(r) \/ RevierteTramite(r)
  PROVE  IInvAgenda'
<1> USE DEF IInvAgenda
<1>1. /\ UNCHANGED <<ahora, postulacion, entrevista>> /\ Termina(r)
      /\ evaluada' \in [Postulaciones -> BOOLEAN]
  BY DEF EscribeEvaluar, RevierteTramite, tablas, TypeOKAgenda
<1>2. \A s \in Tramites :
        tramite'[s] = IF s = r THEN Reposo ELSE tramite[s]
  BY <1>1 DEF TypeOKAgenda, Termina
<1>3. TypeOKAgenda'
  BY <1>1 DEF TypeOKAgenda, Termina, Tramite
<1>4. Ajenas'
  BY <1>1, AjenasAlTerminar
<1>5. HuecoVigente'
  BY <1>1, <1>2 DEF HuecoVigente, En, Reposo, SinConflicto, Vigente, Creada
<1>6. CambioVigente' /\ EvaluaVigente'
  BY <1>1, <1>2 DEF CambioVigente, EvaluaVigente, En, Reposo, Creada
<1>7. SinDobleReserva' /\ RealizadaEmpezo'
  BY <1>1 DEF SinDobleReserva, RealizadaEmpezo, Vigente
<1> QED
  BY <1>3, <1>4, <1>5, <1>6, <1>7

(* The board waits for the row that a guardar or an evaluar holds.          *)
LEMMA PasoMueve ==
  ASSUME IInvAgenda, NEW p \in Postulaciones, MuevePostulacion(p)
  PROVE  IInvAgenda'
<1> USE DEF IInvAgenda
<1>1. /\ UNCHANGED <<ahora, evaluada, entrevista, tramite>>
      /\ PostulacionLibre(p)
      /\ \E s \in EstadosPostulacion :
           postulacion' = [postulacion EXCEPT ![p] = s]
  BY DEF MuevePostulacion, EstadosPostulacion
<1>2. TypeOKAgenda'
  BY <1>1 DEF TypeOKAgenda
<1>3. Ajenas' /\ CambioVigente' /\ SinDobleReserva' /\ RealizadaEmpezo'
  BY <1>1 DEF Ajenas, CambioVigente, SinDobleReserva, RealizadaEmpezo, En,
     Creada, Vigente
<1>4. \A s \in Tramites : En(s, "guardar") \/ En(s, "evaluar") =>
        postulacion'[tramite[s].p] = postulacion[tramite[s].p]
  BY <1>1, Campos DEF PostulacionLibre, En, TypeOKAgenda
<1>5. HuecoVigente' /\ EvaluaVigente'
  BY <1>1, <1>4 DEF HuecoVigente, EvaluaVigente, En, SinConflicto, Vigente,
     Creada
<1> QED
  BY <1>2, <1>3, <1>5

(* The passing of time keeps the invariant.                                 *)
LEMMA PasoPasaHora ==
  ASSUME IInvAgenda, PasaHora
  PROVE  IInvAgenda'
<1> USE DEF IInvAgenda
<1>1. UNCHANGED <<postulacion, evaluada, entrevista, tramite>>
      /\ ahora' = ahora + 1 /\ ahora < MaxHora
  BY DEF PasaHora, tablas
<1>2. TypeOKAgenda'
  BY <1>1, MaxHoraNatural DEF TypeOKAgenda
<1>3. RealizadaEmpezo'
  <2> SUFFICES ASSUME NEW i \in Entrevistas, entrevista[i].estado = "REALIZADA"
               PROVE  entrevista[i].hora <= ahora + 1
    BY <1>1 DEF RealizadaEmpezo
  <2>1. entrevista[i] \in Entrevista /\ entrevista[i].hora <= ahora
    BY DEF TypeOKAgenda, SinCrear, RealizadaEmpezo
  <2>2. entrevista[i].hora \in Nat /\ ahora \in Nat
    BY <2>1, MaxHoraNatural DEF Entrevista, Horas, TypeOKAgenda
  <2> QED
    BY <2>1, <2>2
<1>4. Ajenas' /\ CambioVigente' /\ SinDobleReserva' /\ HuecoVigente'
        /\ EvaluaVigente'
  BY <1>1 DEF Ajenas, CambioVigente, SinDobleReserva, HuecoVigente,
     EvaluaVigente, En, Creada, Vigente, SinConflicto
<1> QED
  BY <1>2, <1>3, <1>4

(* Every step preserves the invariant.                                      *)
LEMMA PasoAgenda == IInvAgenda /\ [NextAgenda]_varsAgenda => IInvAgenda'
<1> SUFFICES ASSUME IInvAgenda, [NextAgenda]_varsAgenda PROVE IInvAgenda'
  OBVIOUS
<1>1. CASE UNCHANGED varsAgenda
  BY <1>1 DEF varsAgenda, IInvAgenda, TypeOKAgenda, Ajenas, CambioVigente,
     SinDobleReserva,
     HuecoVigente, EvaluaVigente, RealizadaEmpezo, En, Creada, Vigente,
     SinConflicto
<1>2. ASSUME NEW r \in Tramites, Lee(r) \/ Escribe(r) \/ RevierteTramite(r)
      PROVE  IInvAgenda'
  BY <1>2, PasoLee, PasoGuardar, PasoEstado, PasoSinAgenda DEF Escribe
<1>3. ASSUME NEW i \in Entrevistas, Resultado(i) \/ ConfirmarPublica(i)
      PROVE  IInvAgenda'
  BY <1>3, PasoResultado, PasoConfirmar
<1>4. ASSUME NEW p \in Postulaciones, MuevePostulacion(p)
      PROVE  IInvAgenda'
  BY <1>4, PasoMueve
<1> QED
  BY <1>1, <1>2, <1>3, <1>4, PasoPasaHora, PorPasosAgenda

----------------------------------------------------------------------------
(* The invariant holds in every reachable state.                            *)
THEOREM InvarianteAgenda == SpecAgenda => []IInvAgenda
BY AlEmpezarAgenda, PasoAgenda, PTL DEF SpecAgenda

(* The tables and the requests in flight have their types (entrevista,      *)
(* postulacion, evaluacion).                                                *)
THEOREM TiposAgenda == SpecAgenda => []TypeOKAgenda
<1>1. IInvAgenda => TypeOKAgenda
  BY DEF IInvAgenda
<1> QED
  BY InvarianteAgenda, <1>1, PTL

(* No interviewer is ever booked twice for the same time, for any number of *)
(* recruiters scheduling at once (guardar_entrevista, sin_conflicto).       *)
THEOREM NadieDosVeces == SpecAgenda => []SinDobleReserva
<1>1. IInvAgenda => SinDobleReserva
  BY DEF IInvAgenda
<1> QED
  BY InvarianteAgenda, <1>1, PTL

(* A result is only ever recorded for an interview that has started, and no *)
(* late edit moves that interview forward (resultado_entrevista).           *)
THEOREM ResultadoTrasInicio == SpecAgenda => []RealizadaEmpezo
<1>1. IInvAgenda => RealizadaEmpezo
  BY DEF IInvAgenda
<1> QED
  BY InvarianteAgenda, <1>1, PTL

(* What guardar checked is still so at its commit (guardar_entrevista).     *)
THEOREM GuardarVigente == SpecAgenda => []HuecoVigente
<1>1. IInvAgenda => HuecoVigente
  BY DEF IInvAgenda
<1> QED
  BY InvarianteAgenda, <1>1, PTL

(* The ways an interview changes: guardar writes one that is in force, or   *)
(* new, for the active application it belongs to; the others change the     *)
(* state of one as transicion_entrevista allows.                            *)
LEMMA ComoCambia ==
  ASSUME IInvAgenda, [NextAgenda]_varsAgenda, NEW j \in Entrevistas,
         entrevista'[j] # entrevista[j]
  PROVE  \/ /\ Creada(j) => Vigente(j) /\ entrevista'[j].p = entrevista[j].p
            /\ postulacion[entrevista'[j].p] = "ACTIVA"
         \/ /\ Creada(j)
            /\ \E s \in {"CONFIRMADA", "REALIZADA", "CANCELADA"} :
                 /\ PermiteCambio(entrevista[j].estado, s)
                 /\ entrevista'[j] = [entrevista[j] EXCEPT !.estado = s]
<1> USE DEF IInvAgenda
<1>1. CASE \E r \in Tramites : EscribeGuardar(r)
  <2> PICK r \in Tramites : EscribeGuardar(r)
    BY <1>1
  <2>1. PICK m : m = tramite[r]
    OBVIOUS
  <2>2. /\ m.i \in Entrevistas /\ m.op = "guardar"
        /\ postulacion[m.p] = "ACTIVA"
        /\ Creada(m.i) => Vigente(m.i) /\ entrevista[m.i].p = m.p
    BY <2>1, Campos DEF EscribeGuardar, HuecoVigente, En
  <2>3. entrevista' = [entrevista EXCEPT ![m.i] =
           [estado |-> EstadoAlGuardar(m.i), p |-> m.p, e |-> m.e,
            hora |-> m.hora, dur |-> m.dur]]
    BY <2>1 DEF EscribeGuardar
  <2>4. j = m.i /\ entrevista'[j].p = m.p
    BY <2>2, <2>3 DEF TypeOKAgenda
  <2> QED
    BY <2>2, <2>4
<1>2. CASE \E r \in Tramites : EscribeEstado(r)
  <2> PICK r \in Tramites : EscribeEstado(r)
    BY <1>2
  <2>1. PICK m : m = tramite[r]
    OBVIOUS
  <2>2. /\ m.i \in Entrevistas /\ m.estado \in {"CONFIRMADA", "CANCELADA"}
        /\ Creada(m.i) /\ PermiteCambio(entrevista[m.i].estado, m.estado)
    BY <2>1, Campos DEF EscribeEstado, CambioVigente, En
  <2>3. entrevista' = [entrevista EXCEPT ![m.i].estado = m.estado]
    BY <2>1 DEF EscribeEstado
  <2>4. j = m.i /\ entrevista'[j] = [entrevista[j] EXCEPT !.estado = m.estado]
    BY <2>2, <2>3 DEF TypeOKAgenda
  <2> QED
    BY <2>2, <2>4
<1>3. CASE \E i \in Entrevistas : Resultado(i)
  BY <1>3 DEF Resultado, TypeOKAgenda
<1>4. CASE \E i \in Entrevistas : ConfirmarPublica(i)
  <2> PICK i \in Entrevistas : ConfirmarPublica(i)
    BY <1>4
  <2>1. Creada(i) /\ PermiteCambio(entrevista[i].estado, "CONFIRMADA")
    BY DEF ConfirmarPublica, Creada, PermiteCambio, Permitidas
  <2>2. i = j /\ entrevista'[j] = [entrevista[j] EXCEPT !.estado = "CONFIRMADA"]
    BY DEF ConfirmarPublica, TypeOKAgenda
  <2> QED
    BY <2>1, <2>2
<1>5. CASE \/ UNCHANGED varsAgenda
           \/ \E r \in Tramites :
                Lee(r) \/ EscribeEvaluar(r) \/ RevierteTramite(r)
           \/ \E p \in Postulaciones : MuevePostulacion(p)
           \/ PasaHora
  <2>1. ASSUME NEW r \in Tramites, Lee(r)
        PROVE  entrevista' = entrevista
    BY <2>1, LecturaFresca DEF tablas
  <2> QED
    BY <1>5, <2>1 DEF varsAgenda, EscribeEvaluar, RevierteTramite,
       MuevePostulacion, PasaHora, tablas
<1> QED
  BY <1>1, <1>2, <1>3, <1>4, <1>5, PorPasosAgenda DEF Escribe

(* A held or cancelled interview is never edited or revived, by no late     *)
(* edit, confirmation or cancellation (transicion_entrevista).              *)
THEOREM TerminadaNoCambia == SpecAgenda => TerminadaFija
<1>1. IInvAgenda /\ [NextAgenda]_varsAgenda =>
        [\A i \in Entrevistas :
           entrevista[i].estado \in {"REALIZADA", "CANCELADA"} =>
             entrevista'[i] = entrevista[i]]_varsAgenda
  <2> SUFFICES ASSUME IInvAgenda, [NextAgenda]_varsAgenda,
                      NEW i \in Entrevistas,
                      entrevista[i].estado \in {"REALIZADA", "CANCELADA"},
                      entrevista'[i] # entrevista[i]
               PROVE  FALSE
    OBVIOUS
  <2>1. Creada(i) /\ ~ Vigente(i)
    BY DEF Creada, Vigente
  <2>2. PICK s \in {"CONFIRMADA", "REALIZADA", "CANCELADA"} :
          /\ PermiteCambio(entrevista[i].estado, s)
          /\ entrevista'[i] = [entrevista[i] EXCEPT !.estado = s]
    BY <2>1, ComoCambia
  <2>3. s = entrevista[i].estado
    BY <2>2 DEF PermiteCambio, Permitidas
  <2>4. entrevista[i] \in Entrevista
    BY <2>1 DEF IInvAgenda, TypeOKAgenda, Creada, SinCrear
  <2>5. [entrevista[i] EXCEPT !.estado = s] = entrevista[i]
    BY <2>3, <2>4 DEF Entrevista
  <2> QED
    BY <2>2, <2>5
<1> QED
  BY InvarianteAgenda, <1>1, PTL DEF SpecAgenda, TerminadaFija

(* An interview is scheduled or moved only for an application that is       *)
(* active at the commit, and it never changes application                   *)
(* (guardar_entrevista).                                                    *)
THEOREM CitaConPostulacionActiva == SpecAgenda => CitaSoloActiva
<1>1. IInvAgenda /\ [NextAgenda]_varsAgenda =>
        [\A i \in Entrevistas :
           /\ entrevista'[i] # entrevista[i]
           /\ Creada(i) => entrevista'[i].hora # entrevista[i].hora
           => /\ postulacion[entrevista'[i].p] = "ACTIVA"
              /\ Creada(i) => entrevista'[i].p = entrevista[i].p]_varsAgenda
  <2> SUFFICES ASSUME IInvAgenda, [NextAgenda]_varsAgenda,
                      NEW i \in Entrevistas,
                      entrevista'[i] # entrevista[i],
                      Creada(i) => entrevista'[i].hora # entrevista[i].hora
               PROVE  /\ postulacion[entrevista'[i].p] = "ACTIVA"
                      /\ Creada(i) => entrevista'[i].p = entrevista[i].p
    OBVIOUS
  <2>1. ASSUME Creada(i), NEW s,
               entrevista'[i] = [entrevista[i] EXCEPT !.estado = s]
        PROVE  FALSE
    <3>1. entrevista[i] \in Entrevista
      BY <2>1 DEF IInvAgenda, TypeOKAgenda, Creada, SinCrear
    <3>2. [entrevista[i] EXCEPT !.estado = s].hora = entrevista[i].hora
      BY <3>1 DEF Entrevista
    <3> QED
      BY <2>1, <3>2
  <2> QED
    BY <2>1, ComoCambia
<1> QED
  BY InvarianteAgenda, <1>1, PTL DEF SpecAgenda, CitaSoloActiva

(* An evaluation commits only while its application is not rejected         *)
(* (guardar_evaluacion).                                                    *)
THEOREM EvaluaConPostulacionVigente == SpecAgenda => EvaluaSoloVigente
<1>1. IInvAgenda /\ [NextAgenda]_varsAgenda =>
        [\A p \in Postulaciones : evaluada'[p] # evaluada[p] =>
           postulacion[p] \in {"ACTIVA", "CONTRATADA"}]_varsAgenda
  <2> SUFFICES ASSUME IInvAgenda, [NextAgenda]_varsAgenda,
                      NEW p \in Postulaciones,
                      evaluada'[p] # evaluada[p]
               PROVE  postulacion[p] \in {"ACTIVA", "CONTRATADA"}
    OBVIOUS
  <2>1. ASSUME NEW r \in Tramites, EscribeEvaluar(r)
        PROVE  postulacion[p] \in {"ACTIVA", "CONTRATADA"}
    <3>1. tramite[r].p = p
      BY <2>1, Campos DEF EscribeEvaluar, IInvAgenda, TypeOKAgenda
    <3> QED
      BY <2>1, <3>1 DEF EscribeEvaluar, IInvAgenda, EvaluaVigente
  <2>2. ASSUME NEW r \in Tramites, Lee(r)
        PROVE  FALSE
    BY <2>2, LecturaFresca DEF tablas, IInvAgenda
  <2> QED
    BY <2>1, <2>2, PorPasosAgenda DEF Escribe, varsAgenda, tablas,
       EscribeGuardar, EscribeEstado, RevierteTramite, Resultado,
       ConfirmarPublica, MuevePostulacion, PasaHora
<1> QED
  BY InvarianteAgenda, <1>1, PTL DEF SpecAgenda, EvaluaSoloVigente

(* Nothing is scheduled, moved or evaluated behind the back of a rejection, *)
(* a hiring, a cancellation or a result (gestionar_seleccion).              *)
THEOREM AgendaEsFirme == SpecAgenda => AgendaFirme
  BY ResultadoTrasInicio, TerminadaNoCambia, CitaConPostulacionActiva,
     EvaluaConPostulacionVigente DEF AgendaFirme

(***************************************************************************)
(* AnalisisCV.                                                             *)
(***************************************************************************)
----------------------------------------------------------------------------
(* The inductive invariant. *)

ConVacante == {"VACANTE", "POSTULACION", "GUARDADO", "CONFIRMA", "EDITA"}
ConPostulacion == {"POSTULACION", "GUARDADO", "CONFIRMA", "CIERRA"}
ConPostulante == {"GUARDADO", "CONFIRMA", "INSERTA"}
Sondeadas == Curso \ {"TOMADO"}

(* Two requests hold no lock together.                                      *)
Turnos ==
  \A r, q \in Peticiones : LET a == peticion[r]
                               b == peticion[q] IN
    r # q =>
      /\ ~ (a.conexion /\ b.conexion /\ a.v = b.v)
      /\ ~ (a.fase \in ConVacante /\ b.fase \in ConVacante /\ a.v = b.v)
      /\ ~ (a.fase \in ConPostulacion /\ b.fase \in ConPostulacion
            /\ a.v = b.v)
      /\ ~ (a.fase \in ConPostulante /\ b.fase \in ConPostulante)
      /\ ~ (a.conexion /\ a.fase \in Sondeadas /\ b.fase = "CONFIRMA"
            /\ a.v = b.v)

(* What an analysis was compared with is still so at its commit, and so is  *)
(* what an edition found.                                                   *)
Frescas ==
  \A r \in Peticiones : LET p == peticion[r] IN
    /\ p.fase \in {"GUARDADO", "CONFIRMA"} =>
         p.v \in activa /\ p.foto.cv = cv /\ p.foto.edicion = edicion[p.v]
    /\ p.fase = "EDITA" => edicion[p.v] < MaxEdiciones

(* The code of an application in flight is its own, and its file is there.  *)
Propios ==
  /\ \A r \in Peticiones : LET p == peticion[r] IN
       /\ p.fase \in {"ARCHIVO", "INSERTA"} => p.k # "NADA"
       /\ p.k # "NADA" =>
            p.k \in archivos /\ \A v \in Vacantes : codigo[v] # p.k
  /\ \A r, q \in Peticiones :
       r # q /\ peticion[r].k = peticion[q].k => peticion[r].k = "NADA"

IInv ==
  /\ TypeOK
  /\ Turnos
  /\ Frescas
  /\ Propios
  /\ CvConArchivo

----------------------------------------------------------------------------
(* The requests. *)

Fases ==
  Curso \cup {"LIBRE", "LEIDO", "CONFIRMA", "ARCHIVO", "INSERTA", "EDITA",
              "CIERRA"}
FotoTipo ==
  [cv : CvPostulante, edicion : 0..MaxEdiciones, requisitos : BOOLEAN]
PeticionTipo ==
  [fase : Fases, v : Vacantes, k : CvPostulante, cupo : Cupos \cup {"NADA"},
   foto : FotoTipo, conexion : BOOLEAN]

LEMMA DeSuTipo ==
  ASSUME TypeOK
  PROVE  peticion \in [Peticiones -> PeticionTipo]
BY DEF TypeOK, PeticionTipo, Fases, FotoTipo, CvPostulante

LEMMA LibreTipo ==
  ASSUME NEW v \in Vacantes
  PROVE  /\ Libre(v) \in PeticionTipo
         /\ Libre(v).fase = "LIBRE" /\ Libre(v).v = v /\ Libre(v).k = "NADA"
         /\ ~ Libre(v).conexion
BY MaxEdicionesNatural
DEF Libre, SinFoto, PeticionTipo, Fases, FotoTipo, CvPostulante

LEMMA FotoEnTipo ==
  ASSUME TypeOK, NEW v \in Vacantes
  PROVE  /\ Foto(v) \in FotoTipo
         /\ Foto(v).cv = cv /\ Foto(v).edicion = edicion[v]
BY DEF Foto, FotoTipo, TypeOK, CvPostulante

(* Request r becomes m, the others stay.                                    *)
Sustituye(r, m) ==
  /\ m \in PeticionTipo
  /\ peticion' \in [Peticiones -> PeticionTipo]
  /\ peticion'[r] = m
  /\ \A q \in Peticiones \ {r} : peticion'[q] = peticion[q]

LEMMA AlSustituir ==
  ASSUME TypeOK, NEW r \in Peticiones, NEW m \in PeticionTipo,
         peticion' = [peticion EXCEPT ![r] = m]
  PROVE  Sustituye(r, m)
BY DeSuTipo DEF Sustituye

LEMMA AlDejar ==
  ASSUME TypeOK, NEW r \in Peticiones, NEW desde, Deja(r, desde)
  PROVE  \E v \in Vacantes : Sustituye(r, Libre(v))
<1>1. PICK v \in Vacantes : v = CHOOSE w \in Vacantes : TRUE
  BY HayVacantes
<1>2. peticion' = [peticion EXCEPT ![r] = Libre(v)]
  BY <1>1 DEF Deja, Pasa
<1> QED
  BY <1>1, <1>2, LibreTipo, AlSustituir

(* What a step that only changes the phase makes of its request.            *)
LEMMA AlAvanzar ==
  ASSUME TypeOK, NEW r \in Peticiones, NEW desde, NEW hasta \in Fases,
         Avanza(r, desde, hasta)
  PROVE  \E m \in PeticionTipo :
           /\ Sustituye(r, m)
           /\ m.fase = hasta /\ m.v = peticion[r].v /\ m.k = peticion[r].k
           /\ m.foto = peticion[r].foto
           /\ m.conexion <=> peticion[r].conexion
<1>1. PICK p \in PeticionTipo : p = peticion[r]
  BY DeSuTipo
<1>2. PICK m : m = [p EXCEPT !.fase = hasta]
  OBVIOUS
<1>3. /\ m \in PeticionTipo /\ m.fase = hasta /\ m.v = p.v /\ m.k = p.k
      /\ m.foto = p.foto /\ m.conexion = p.conexion
  BY <1>2 DEF PeticionTipo
<1>4. peticion' = [peticion EXCEPT ![r] = m]
  BY <1>1, <1>2 DEF Avanza, Pasa
<1> QED
  BY <1>1, <1>3, <1>4, AlSustituir

----------------------------------------------------------------------------
(* What the locks allow a request to become. *)

Permite(r, m) ==
  \A q \in Peticiones \ {r} : LET b == peticion[q] IN
    /\ ~ (m.conexion /\ b.conexion /\ m.v = b.v)
    /\ ~ (m.fase \in ConVacante /\ b.fase \in ConVacante /\ m.v = b.v)
    /\ ~ (m.fase \in ConPostulacion /\ b.fase \in ConPostulacion /\ m.v = b.v)
    /\ ~ (m.fase \in ConPostulante /\ b.fase \in ConPostulante)
    /\ ~ (m.conexion /\ m.fase \in Sondeadas /\ b.fase = "CONFIRMA"
          /\ m.v = b.v)
    /\ ~ (b.conexion /\ b.fase \in Sondeadas /\ m.fase = "CONFIRMA"
          /\ m.v = b.v)

LEMMA TurnosSiguen ==
  ASSUME Turnos, NEW r \in Peticiones, NEW m, Sustituye(r, m), Permite(r, m)
  PROVE  Turnos'
<1> SUFFICES ASSUME NEW s \in Peticiones, NEW q \in Peticiones, s # q
             PROVE  LET a == peticion'[s]
                        b == peticion'[q] IN
      /\ ~ (a.conexion /\ b.conexion /\ a.v = b.v)
      /\ ~ (a.fase \in ConVacante /\ b.fase \in ConVacante /\ a.v = b.v)
      /\ ~ (a.fase \in ConPostulacion /\ b.fase \in ConPostulacion
            /\ a.v = b.v)
      /\ ~ (a.fase \in ConPostulante /\ b.fase \in ConPostulante)
      /\ ~ (a.conexion /\ a.fase \in Sondeadas /\ b.fase = "CONFIRMA"
            /\ a.v = b.v)
  BY DEF Turnos
<1>1. CASE s = r
  BY <1>1 DEF Sustituye, Permite
<1>2. CASE q = r
  BY <1>2 DEF Sustituye, Permite
<1>3. CASE s # r /\ q # r
  BY <1>3 DEF Sustituye, Turnos
<1> QED
  BY <1>1, <1>2, <1>3

(* What it holds already, it may keep.                                      *)
LEMMA PermiteLoSuyo ==
  ASSUME Turnos, NEW r \in Peticiones, NEW m, m.v = peticion[r].v,
         m.conexion => peticion[r].conexion,
         m.fase \in ConVacante => peticion[r].fase \in ConVacante
           \/ BloqueanVacante(m.v) = {},
         m.fase \in ConPostulacion => peticion[r].fase \in ConPostulacion
           \/ BloqueanPostulacion(m.v) = {},
         m.fase \in ConPostulante => peticion[r].fase \in ConPostulante
           \/ BloqueanPostulante = {},
         m.conexion /\ m.fase \in Sondeadas =>
           peticion[r].fase \in Sondeadas \/ Persistiendo(m.v) = {},
         m.fase = "CONFIRMA" => peticion[r].fase = "CONFIRMA"
           \/ peticion[r].conexion
  PROVE  Permite(r, m)
<1> SUFFICES ASSUME NEW q \in Peticiones \ {r}
             PROVE  LET b == peticion[q] IN
    /\ ~ (m.conexion /\ b.conexion /\ m.v = b.v)
    /\ ~ (m.fase \in ConVacante /\ b.fase \in ConVacante /\ m.v = b.v)
    /\ ~ (m.fase \in ConPostulacion /\ b.fase \in ConPostulacion /\ m.v = b.v)
    /\ ~ (m.fase \in ConPostulante /\ b.fase \in ConPostulante)
    /\ ~ (m.conexion /\ m.fase \in Sondeadas /\ b.fase = "CONFIRMA"
          /\ m.v = b.v)
    /\ ~ (b.conexion /\ b.fase \in Sondeadas /\ m.fase = "CONFIRMA"
          /\ m.v = b.v)
  BY DEF Permite
<1>1. BloqueanVacante(m.v) = {} =>
        ~ (peticion[q].fase \in ConVacante /\ m.v = peticion[q].v)
  BY DEF BloqueanVacante, Sobre, EnFase, ConVacante
<1>2. BloqueanPostulacion(m.v) = {} =>
        ~ (peticion[q].fase \in ConPostulacion /\ m.v = peticion[q].v)
  BY DEF BloqueanPostulacion, Sobre, EnFase, ConPostulacion
<1>3. BloqueanPostulante = {} => peticion[q].fase \notin ConPostulante
  BY DEF BloqueanPostulante, EnFase, ConPostulante
<1>4. Persistiendo(m.v) = {} =>
        ~ (peticion[q].fase = "CONFIRMA" /\ m.v = peticion[q].v)
  BY DEF Persistiendo, Sobre, EnFase
<1> QED
  BY <1>1, <1>2, <1>3, <1>4 DEF Turnos

(* A request that starts holds at most the row it has just locked.          *)
LEMMA PermiteNueva ==
  ASSUME NEW r \in Peticiones, NEW m, ~ m.conexion,
         \/ m.fase \in {"LIBRE", "LEIDO", "ARCHIVO"}
         \/ m.fase = "EDITA" /\ BloqueanVacante(m.v) = {}
         \/ m.fase = "CIERRA" /\ BloqueanPostulacion(m.v) = {}
  PROVE  Permite(r, m)
BY DEF Permite, BloqueanVacante, BloqueanPostulacion, Sobre, EnFase,
       ConVacante, ConPostulacion, ConPostulante

----------------------------------------------------------------------------
LEMMA AlEmpezar == Init => IInv
<1> SUFFICES ASSUME Init PROVE IInv
  OBVIOUS
<1>1. PICK v \in Vacantes : v = CHOOSE w \in Vacantes : TRUE
  BY HayVacantes
<1>2. /\ peticion \in [Peticiones -> PeticionTipo]
      /\ \A r \in Peticiones : peticion[r] = Libre(v)
  BY <1>1, LibreTipo DEF Init
<1>3. \A r \in Peticiones :
        peticion[r].fase = "LIBRE" /\ peticion[r].k = "NADA"
        /\ ~ peticion[r].conexion
  BY <1>2, LibreTipo
<1>4. TypeOK
  <2>1. SinPuntaje \in [cv : Codigos \cup {"NADA"}, edicion : 0..MaxEdiciones]
        /\ 0 \in 0..MaxEdiciones
    BY MaxEdicionesNatural DEF SinPuntaje
  <2> QED
    BY <1>2, <1>3, <2>1
    DEF Init, TypeOK, PeticionTipo, Fases, FotoTipo, CvPostulante
<1>5. Turnos /\ Frescas /\ Propios
  BY <1>3 DEF Turnos, Frescas, Propios, ConVacante, ConPostulacion,
     ConPostulante
<1>6. CvConArchivo
  BY DEF Init, CvConArchivo
<1> QED
  BY <1>4, <1>5, <1>6 DEF IInv

(* The steps that write no row and no file.                                 *)
LEMMA PasoSinDatos ==
  ASSUME IInv, NEW r \in Peticiones, NEW m, Sustituye(r, m), Permite(r, m),
         UNCHANGED datos,
         m.conexion => m.fase \in Curso,
         m.fase \in {"GUARDADO", "CONFIRMA"} =>
           m.v \in activa /\ m.foto.cv = cv /\ m.foto.edicion = edicion[m.v],
         m.fase = "EDITA" =>
           edicion[m.v] < MaxEdiciones,
         m.k \in {"NADA", peticion[r].k},
         m.fase \in {"ARCHIVO", "INSERTA"} => m.k # "NADA"
  PROVE  IInv'
<1> USE DEF IInv
<1>1. /\ codigo' = codigo /\ activa' = activa /\ cv' = cv
      /\ archivos' = archivos /\ edicion' = edicion
      /\ requisitos' = requisitos /\ puntaje' = puntaje
  BY DEF datos
<1>2. TypeOK'
  <2>1. \A q \in Peticiones :
          peticion'[q].conexion => peticion'[q].fase \in Curso
    BY DEF Sustituye, TypeOK
  <2>2. peticion' \in [Peticiones -> PeticionTipo]
    BY DEF Sustituye
  <2> QED
    BY <1>1, <2>1, <2>2
    DEF TypeOK, PeticionTipo, Fases, FotoTipo, CvPostulante
<1>3. Turnos'
  BY TurnosSiguen
<1>4. Frescas'
  BY <1>1 DEF Frescas, Sustituye
<1>5. Propios'
  <2>1. \A q \in Peticiones :
          /\ peticion'[q].fase \in {"ARCHIVO", "INSERTA"}
               => peticion'[q].k # "NADA"
          /\ peticion'[q].k \in {"NADA", peticion[q].k}
    BY DEF Sustituye, Propios
  <2> QED
    BY <1>1, <2>1 DEF Propios
<1>6. CvConArchivo'
  BY <1>1 DEF CvConArchivo
<1> QED
  BY <1>2, <1>3, <1>4, <1>5, <1>6

(* The steps of an analysis that only change its phase.                     *)
LEMMA PasoAvanza ==
  ASSUME IInv, NEW r \in Peticiones, UNCHANGED datos,
         \/ Sondea(r) \/ Persiste(r) \/ BloqueaVacante(r)
         \/ BloqueaPostulacion(r) \/ GuardaAnalisis(r) \/ upsert_postulante(r)
  PROVE  IInv'
<1> USE DEF IInv
<1> DEFINE p == peticion[r]
<1>1. PICK hasta \in Fases :
        /\ \E desde \in Fases : Avanza(r, desde, hasta)
        /\ \/ hasta = "SONDEO" /\ p.fase = "TOMADO" /\ Persistiendo(p.v) = {}
           \/ hasta = "PERSISTE" /\ p.fase = "ANALIZA"
           \/ /\ hasta = "VACANTE" /\ p.fase = "PERSISTE"
              /\ BloqueanVacante(p.v) = {}
           \/ /\ hasta = "POSTULACION" /\ p.fase = "VACANTE"
              /\ BloqueanPostulacion(p.v) = {}
           \/ /\ hasta = "GUARDADO" /\ p.fase = "POSTULACION"
              /\ BloqueanPostulante = {} /\ Intacta(r)
           \/ /\ hasta = "INSERTA" /\ p.fase = "ARCHIVO"
              /\ BloqueanPostulante = {}
  BY DEF Sondea, Persiste, BloqueaVacante, BloqueaPostulacion, GuardaAnalisis,
         upsert_postulante, Fases, Curso, Avanza, Pasa
<1>2. PICK m \in PeticionTipo :
        /\ Sustituye(r, m)
        /\ m.fase = hasta /\ m.v = p.v /\ m.k = p.k
        /\ m.foto = p.foto
        /\ m.conexion <=> p.conexion
  BY <1>1, AlAvanzar
<1>3. Permite(r, m)
  BY <1>1, <1>2, PermiteLoSuyo
  DEF ConVacante, ConPostulacion, ConPostulante, Sondeadas, Curso
<1>4. m.conexion => m.fase \in Curso
  BY <1>1, <1>2 DEF TypeOK, Curso
<1>5. m.fase \in {"GUARDADO", "CONFIRMA"} =>
        m.v \in activa /\ m.foto.cv = cv /\ m.foto.edicion = edicion[m.v]
  BY <1>1, <1>2, FotoEnTipo DEF Intacta, Analizable, PeticionTipo
<1>6. m.fase \in {"ARCHIVO", "INSERTA"} => m.k # "NADA"
  BY <1>1, <1>2 DEF Propios
<1>7. m.fase # "EDITA"
  BY <1>1, <1>2
<1> QED
  BY <1>2, <1>3, <1>4, <1>5, <1>6, <1>7, PasoSinDatos

(* The steps that put a request in flight without writing anything.         *)
LEMMA PasoEmpieza ==
  ASSUME IInv, NEW r \in Peticiones, NEW v \in Vacantes,
         LeeAnalisis(r, v) \/ OrdenaEdicion(r, v) \/ BloqueaCierre(r, v)
  PROVE  IInv'
<1> USE DEF IInv
<1>1. PICK fase \in {"LEIDO", "EDITA", "CIERRA"}, foto \in FotoTipo :
        /\ \/ peticion' = [peticion EXCEPT ![r] =
                [Libre(v) EXCEPT !.fase = fase, !.foto = foto]]
           \/ peticion' = [peticion EXCEPT ![r] =
                [Libre(v) EXCEPT !.fase = fase]]
        /\ fase = "EDITA" =>
             BloqueanVacante(v) = {} /\ edicion[v] < MaxEdiciones
        /\ fase = "CIERRA" => BloqueanPostulacion(v) = {}
  BY FotoEnTipo DEF LeeAnalisis, OrdenaEdicion, BloqueaCierre, Pasa
<1>2. UNCHANGED datos
  BY DEF LeeAnalisis, OrdenaEdicion, BloqueaCierre
<1>3. PICK a \in PeticionTipo :
        a = Libre(v) /\ a.v = v /\ a.k = "NADA" /\ ~ a.conexion
  BY LibreTipo
<1>4. PICK b : b = [a EXCEPT !.fase = fase]
  OBVIOUS
<1>5. /\ b \in PeticionTipo /\ b.fase = fase /\ b.v = v /\ b.k = "NADA"
      /\ ~ b.conexion
  BY <1>3, <1>4 DEF PeticionTipo, Fases
<1>6. PICK c : c = [b EXCEPT !.foto = foto]
  OBVIOUS
<1>7. /\ c \in PeticionTipo /\ c.fase = fase /\ c.v = v /\ c.k = "NADA"
      /\ ~ c.conexion
  BY <1>5, <1>6 DEF PeticionTipo
<1>8. \/ peticion' = [peticion EXCEPT ![r] = b]
      \/ peticion' = [peticion EXCEPT ![r] = c]
  BY <1>1, <1>3, <1>4, <1>6
<1>9. PICK m \in PeticionTipo :
        /\ Sustituye(r, m)
        /\ m.fase = fase /\ m.v = v /\ m.k = "NADA" /\ ~ m.conexion
  BY <1>5, <1>7, <1>8, AlSustituir
<1>10. Permite(r, m)
  BY <1>1, <1>9, PermiteNueva
<1> QED
  BY <1>1, <1>2, <1>9, <1>10, PasoSinDatos

(* The advisory lock of the application: no other connected request has it. *)
LEMMA PasoToma ==
  ASSUME IInv, NEW r \in Peticiones, Toma(r)
  PROVE  IInv'
<1> USE DEF IInv
<1>1. PICK p \in PeticionTipo : p = peticion[r]
  BY DeSuTipo
<1>2. PICK a : a = [p EXCEPT !.fase = "TOMADO"]
  OBVIOUS
<1>3. /\ a \in PeticionTipo /\ a.fase = "TOMADO" /\ a.v = p.v /\ a.k = p.k
  BY <1>2 DEF PeticionTipo, Fases, Curso
<1>4. PICK m : m = [a EXCEPT !.conexion = TRUE]
  OBVIOUS
<1>5. /\ m \in PeticionTipo /\ m.fase = "TOMADO" /\ m.v = p.v /\ m.k = p.k
  BY <1>3, <1>4 DEF PeticionTipo
<1>6. Sustituye(r, m) /\ UNCHANGED datos /\ Corriendo(p.v) = {}
  BY <1>1, <1>2, <1>4, <1>5, AlSustituir DEF Toma, Pasa
<1>7. Permite(r, m)
  <2>1. \A q \in Peticiones : ~ (peticion[q].conexion /\ peticion[q].v = p.v)
    BY <1>6 DEF Corriendo, Conectadas, Sobre, EnFase, TypeOK
  <2> QED
    BY <1>5, <2>1 DEF Permite, ConVacante, ConPostulacion, ConPostulante,
       Sondeadas
<1> QED
  BY <1>1, <1>5, <1>6, <1>7, PasoSinDatos DEF Curso

(* A slot of the provider.                                                  *)
LEMMA PasoTomaCupo ==
  ASSUME IInv, NEW r \in Peticiones, TomaCupo(r)
  PROVE  IInv'
<1> USE DEF IInv
<1>1. PICK p \in PeticionTipo : p = peticion[r]
  BY DeSuTipo
<1>2. PICK c \in Cupos :
        peticion' = [peticion EXCEPT ![r] =
          [p EXCEPT !.fase = "ANALIZA", !.cupo = c]]
  BY <1>1 DEF TomaCupo, Pasa
<1>3. PICK a : a = [p EXCEPT !.fase = "ANALIZA"]
  OBVIOUS
<1>4. /\ a \in PeticionTipo /\ a.fase = "ANALIZA" /\ a.v = p.v /\ a.k = p.k
      /\ a.conexion = p.conexion
  BY <1>3 DEF PeticionTipo, Fases, Curso
<1>5. PICK m : m = [a EXCEPT !.cupo = c]
  OBVIOUS
<1>6. /\ m \in PeticionTipo /\ m.fase = "ANALIZA" /\ m.v = p.v /\ m.k = p.k
      /\ m.conexion = p.conexion
  BY <1>4, <1>5 DEF PeticionTipo
<1>7. Sustituye(r, m)
  BY <1>2, <1>3, <1>5, <1>6, AlSustituir
<1>8. /\ UNCHANGED datos /\ p.fase = "SONDEO"
  BY <1>1 DEF TomaCupo, Pasa
<1>9. Permite(r, m)
  BY <1>1, <1>6, <1>8, PermiteLoSuyo
  DEF ConVacante, ConPostulacion, ConPostulante, Sondeadas, Curso
<1> QED
  BY <1>1, <1>6, <1>7, <1>8, <1>9, PasoSinDatos DEF Curso

(* The request answers: the session locks go, those of the rows stay.       *)
LEMMA PasoSale ==
  ASSUME IInv, NEW r \in Peticiones, Sale(r)
  PROVE  IInv'
<1> USE DEF IInv
<1>1. PICK p \in PeticionTipo : p = peticion[r]
  BY DeSuTipo
<1>2. /\ p.conexion /\ p.fase = "GUARDADO" /\ UNCHANGED datos
      /\ peticion' = [peticion EXCEPT ![r] = [p EXCEPT
           !.fase = "CONFIRMA", !.conexion = FALSE, !.cupo = "NADA"]]
  BY <1>1 DEF Sale, Pasa
<1>3. PICK a : a = [p EXCEPT !.fase = "CONFIRMA"]
  OBVIOUS
<1>4. /\ a \in PeticionTipo /\ a.fase = "CONFIRMA" /\ a.v = p.v
      /\ a.k = p.k /\ a.foto = p.foto
  BY <1>3 DEF PeticionTipo, Fases
<1>5. PICK b : b = [a EXCEPT !.conexion = FALSE]
  OBVIOUS
<1>6. /\ b \in PeticionTipo /\ b.fase = "CONFIRMA" /\ b.v = p.v
      /\ b.k = p.k /\ b.foto = p.foto /\ ~ b.conexion
  BY <1>4, <1>5 DEF PeticionTipo
<1>7. PICK m : m = [b EXCEPT !.cupo = "NADA"]
  OBVIOUS
<1>8. /\ m \in PeticionTipo /\ m.fase = "CONFIRMA" /\ m.v = p.v
      /\ m.k = p.k /\ m.foto = p.foto /\ ~ m.conexion
  BY <1>6, <1>7 DEF PeticionTipo
<1>9. Sustituye(r, m)
  BY <1>2, <1>3, <1>5, <1>7, <1>8, AlSustituir
<1>10. Permite(r, m)
  BY <1>1, <1>2, <1>8, PermiteLoSuyo
  DEF ConVacante, ConPostulacion, ConPostulante
<1>11. m.v \in activa /\ m.foto.cv = cv /\ m.foto.edicion = edicion[m.v]
  BY <1>1, <1>2, <1>8 DEF Frescas
<1> QED
  BY <1>1, <1>2, <1>8, <1>9, <1>10, <1>11, PasoSinDatos

LEMMA PasoPierdeConexion ==
  ASSUME IInv, NEW r \in Peticiones, PierdeConexion(r)
  PROVE  IInv'
<1> USE DEF IInv
<1>1. PICK p \in PeticionTipo : p = peticion[r]
  BY DeSuTipo
<1>2. PICK m : m = [p EXCEPT !.conexion = FALSE]
  OBVIOUS
<1>3. /\ m \in PeticionTipo /\ m.fase = p.fase /\ m.v = p.v
      /\ m.k = p.k /\ m.foto = p.foto /\ ~ m.conexion
  BY <1>2 DEF PeticionTipo
<1>4. peticion' = [peticion EXCEPT ![r] = m]
  BY <1>1, <1>2, DeSuTipo DEF PierdeConexion
<1>5. Sustituye(r, m)
  BY <1>3, <1>4, AlSustituir
<1>6. Permite(r, m)
  BY <1>1, <1>3, PermiteLoSuyo
<1>7. m.fase \in {"GUARDADO", "CONFIRMA"} =>
        m.v \in activa /\ m.foto.cv = cv /\ m.foto.edicion = edicion[m.v]
  BY <1>1, <1>3 DEF Frescas
<1>8. m.fase \in {"ARCHIVO", "INSERTA"} => m.k # "NADA"
  BY <1>1, <1>3 DEF Propios
<1>9. UNCHANGED datos
  BY DEF PierdeConexion
<1>10. m.fase # "EDITA"
  BY <1>1, <1>3 DEF PierdeConexion, TypeOK, Curso
<1> QED
  BY <1>1, <1>3, <1>5, <1>6, <1>7, <1>8, <1>9, <1>10, PasoSinDatos

LEMMA PasoRevierte ==
  ASSUME IInv, NEW r \in Peticiones, Revierte(r)
  PROVE  IInv'
<1> USE DEF IInv
<1>1. PICK v \in Vacantes : Sustituye(r, Libre(v))
  BY AlDejar DEF Revierte
<1>2. PICK m : m = Libre(v)
  OBVIOUS
<1>3. m.fase = "LIBRE" /\ m.k = "NADA" /\ ~ m.conexion
  BY <1>2, LibreTipo
<1>4. Permite(r, m)
  BY <1>3, PermiteNueva
<1>5. Sustituye(r, m) /\ UNCHANGED datos
  BY <1>1, <1>2 DEF Revierte
<1> QED
  BY <1>3, <1>4, <1>5, PasoSinDatos

----------------------------------------------------------------------------
(* The commits.  The request that commits leaves its locks.                 *)

LEMMA AlConfirmar ==
  ASSUME IInv, NEW r \in Peticiones, NEW desde, Deja(r, desde)
  PROVE  /\ peticion' \in [Peticiones -> PeticionTipo] /\ Turnos'
         /\ \A q \in Peticiones :
              /\ peticion'[q].conexion => peticion'[q].fase \in Curso
              /\ q # r => peticion'[q] = peticion[q]
         /\ peticion'[r].fase = "LIBRE" /\ peticion'[r].k = "NADA"
<1> USE DEF IInv
<1>1. PICK v \in Vacantes : Sustituye(r, Libre(v))
  BY AlDejar
<1>2. PICK m : m = Libre(v)
  OBVIOUS
<1>3. m.fase = "LIBRE" /\ m.k = "NADA" /\ ~ m.conexion
  BY <1>2, LibreTipo
<1>4. Permite(r, m) /\ Sustituye(r, m)
  BY <1>1, <1>2, <1>3, PermiteNueva
<1>5. Turnos'
  BY <1>4, TurnosSiguen
<1> QED
  BY <1>3, <1>4, <1>5 DEF Sustituye, TypeOK

LEMMA PasoEscribeAnalisis ==
  ASSUME IInv, NEW r \in Peticiones, EscribeAnalisis(r)
  PROVE  IInv'
<1> USE DEF IInv
<1>1. /\ peticion' \in [Peticiones -> PeticionTipo] /\ Turnos'
      /\ \A q \in Peticiones :
           /\ peticion'[q].conexion => peticion'[q].fase \in Curso
           /\ q # r => peticion'[q] = peticion[q]
      /\ peticion'[r].fase = "LIBRE" /\ peticion'[r].k = "NADA"
  BY AlConfirmar DEF EscribeAnalisis
<1>2. UNCHANGED <<codigo, activa, cv, archivos, edicion, requisitos>>
  BY DEF EscribeAnalisis
<1>3. puntaje' \in [Vacantes ->
        [cv : Codigos \cup {"NADA"}, edicion : 0..MaxEdiciones]]
  <2>1. PICK p \in PeticionTipo : p = peticion[r]
    BY DeSuTipo
  <2>2. PICK f \in FotoTipo : f = p.foto
    BY DEF PeticionTipo
  <2>3. PICK n : n = [cv |-> f.cv, edicion |-> f.edicion]
    OBVIOUS
  <2>4. n \in [cv : Codigos \cup {"NADA"}, edicion : 0..MaxEdiciones]
    BY <2>3 DEF FotoTipo, CvPostulante
  <2>5. puntaje' = [puntaje EXCEPT ![p.v] = n]
    BY <2>1, <2>2, <2>3 DEF EscribeAnalisis
  <2> QED
    BY <2>4, <2>5 DEF TypeOK
<1>4. TypeOK'
  BY <1>1, <1>2, <1>3 DEF TypeOK, PeticionTipo, Fases, FotoTipo, CvPostulante
<1>5. Frescas' /\ Propios' /\ CvConArchivo'
  BY <1>1, <1>2 DEF Frescas, Propios, CvConArchivo
<1> QED
  BY <1>1, <1>4, <1>5

(* The application is inserted with its code and the CV replaces the one    *)
(* the candidate had: nobody compared holds the candidate's row.            *)
LEMMA PasoCreatePostulacion ==
  ASSUME IInv, NEW r \in Peticiones, create_postulacion(r)
  PROVE  IInv'
<1> USE DEF IInv
<1>1. /\ peticion' \in [Peticiones -> PeticionTipo] /\ Turnos'
      /\ \A q \in Peticiones :
           /\ peticion'[q].conexion => peticion'[q].fase \in Curso
           /\ q # r => peticion'[q] = peticion[q]
      /\ peticion'[r].fase = "LIBRE" /\ peticion'[r].k = "NADA"
  BY AlConfirmar DEF create_postulacion
<1>2. PICK p \in PeticionTipo : p = peticion[r] /\ p.fase = "INSERTA"
  BY DeSuTipo DEF create_postulacion, Deja, Pasa
<1>3. /\ codigo[p.v] = "NADA"
      /\ codigo' = [codigo EXCEPT ![p.v] = p.k]
      /\ activa' = activa \cup {p.v} /\ cv' = p.k
      /\ UNCHANGED <<archivos, edicion, requisitos, puntaje>>
  BY <1>2 DEF create_postulacion
<1>4. /\ p.v \in Vacantes /\ p.k \in Codigos \cup {"NADA"} /\ p.k # "NADA"
      /\ p.k \in archivos
      /\ \A v \in Vacantes : codigo[v] # p.k
  BY <1>2 DEF PeticionTipo, CvPostulante, Propios
<1>5. /\ codigo' \in [Vacantes -> Codigos \cup {"NADA"}]
      /\ \A v \in Vacantes : codigo'[v] = IF v = p.v THEN p.k ELSE codigo[v]
  BY <1>3, <1>4 DEF TypeOK
<1>6. TypeOK'
  <2>1. /\ \A v \in activa' : codigo'[v] # "NADA"
        /\ activa' \cup requisitos' \subseteq Vacantes
        /\ cv' \in CvPostulante
    BY <1>3, <1>4, <1>5 DEF TypeOK, CvPostulante
  <2>2. \A v, w \in Vacantes :
          codigo'[v] = codigo'[w] => v = w \/ codigo'[v] = "NADA"
    BY <1>4, <1>5 DEF TypeOK
  <2> QED
    BY <1>1, <1>3, <1>5, <2>1, <2>2
    DEF TypeOK, PeticionTipo, Fases, FotoTipo, CvPostulante
<1>7. Frescas'
  <2>1. \A q \in Peticiones :
          q # r => peticion[q].fase \notin {"GUARDADO", "CONFIRMA"}
    BY <1>2 DEF Turnos, ConPostulante
  <2> QED
    BY <1>1, <1>3, <2>1 DEF Frescas
<1>8. Propios'
  <2>1. \A q \in Peticiones :
          q # r => peticion[q].k # p.k
    BY <1>2, <1>4 DEF Propios
  <2> QED
    BY <1>1, <1>3, <1>5, <2>1 DEF Propios
<1>9. CvConArchivo'
  BY <1>3, <1>4, <1>5 DEF CvConArchivo
<1> QED
  BY <1>1, <1>6, <1>7, <1>8, <1>9

LEMMA PasoEscribeEdicion ==
  ASSUME IInv, NEW r \in Peticiones, EscribeEdicion(r)
  PROVE  IInv'
<1> USE DEF IInv
<1>1. /\ peticion' \in [Peticiones -> PeticionTipo] /\ Turnos'
      /\ \A q \in Peticiones :
           /\ peticion'[q].conexion => peticion'[q].fase \in Curso
           /\ q # r => peticion'[q] = peticion[q]
      /\ peticion'[r].fase = "LIBRE" /\ peticion'[r].k = "NADA"
  BY AlConfirmar DEF EscribeEdicion
<1>2. PICK p \in PeticionTipo : p = peticion[r] /\ p.fase = "EDITA"
  BY DeSuTipo DEF EscribeEdicion, Deja, Pasa
<1>3. /\ edicion' = [edicion EXCEPT ![p.v] = edicion[p.v] + 1]
      /\ requisitos' = requisitos \cup {p.v}
      /\ UNCHANGED <<codigo, activa, cv, archivos, puntaje>>
  BY <1>2 DEF EscribeEdicion
<1>4. p.v \in Vacantes /\ edicion[p.v] < MaxEdiciones
  BY <1>2 DEF PeticionTipo, Frescas
<1>5. /\ edicion' \in [Vacantes -> 0..MaxEdiciones]
      /\ \A v \in Vacantes : v # p.v => edicion'[v] = edicion[v]
  BY <1>3, <1>4, MaxEdicionesNatural DEF TypeOK
<1>6. TypeOK'
  BY <1>1, <1>3, <1>4, <1>5
  DEF TypeOK, PeticionTipo, Fases, FotoTipo, CvPostulante
<1>7. Frescas'
  <2>1. \A q \in Peticiones : q # r /\ peticion[q].v = p.v
          => peticion[q].fase \notin {"GUARDADO", "CONFIRMA", "EDITA"}
    BY <1>2 DEF Turnos, ConVacante
  <2>2. \A q \in Peticiones : peticion[q].v \in Vacantes
    BY DeSuTipo DEF PeticionTipo
  <2> QED
    BY <1>1, <1>3, <1>5, <2>1, <2>2 DEF Frescas
<1>8. Propios' /\ CvConArchivo'
  BY <1>1, <1>3 DEF Propios, CvConArchivo
<1> QED
  BY <1>1, <1>6, <1>7, <1>8

LEMMA PasoEscribeCierre ==
  ASSUME IInv, NEW r \in Peticiones, EscribeCierre(r)
  PROVE  IInv'
<1> USE DEF IInv
<1>1. /\ peticion' \in [Peticiones -> PeticionTipo] /\ Turnos'
      /\ \A q \in Peticiones :
           /\ peticion'[q].conexion => peticion'[q].fase \in Curso
           /\ q # r => peticion'[q] = peticion[q]
      /\ peticion'[r].fase = "LIBRE" /\ peticion'[r].k = "NADA"
  BY AlConfirmar DEF EscribeCierre
<1>2. PICK p \in PeticionTipo : p = peticion[r] /\ p.fase = "CIERRA"
  BY DeSuTipo DEF EscribeCierre, Deja, Pasa
<1>3. /\ activa' = activa \ {p.v}
      /\ UNCHANGED <<codigo, cv, archivos, edicion, requisitos, puntaje>>
  BY <1>2 DEF EscribeCierre
<1>4. TypeOK'
  BY <1>1, <1>3 DEF TypeOK, PeticionTipo, Fases, FotoTipo, CvPostulante
<1>5. Frescas'
  <2>1. \A q \in Peticiones : q # r /\ peticion[q].v = p.v
          => peticion[q].fase \notin {"GUARDADO", "CONFIRMA"}
    BY <1>2 DEF Turnos, ConPostulacion
  <2> QED
    BY <1>1, <1>3, <2>1 DEF Frescas
<1>6. Propios' /\ CvConArchivo'
  BY <1>1, <1>3 DEF Propios, CvConArchivo
<1> QED
  BY <1>1, <1>4, <1>5, <1>6

(* The file of a new application: its code was nobody's.                    *)
LEMMA PasoLeePostular ==
  ASSUME IInv, NEW r \in Peticiones, NEW v \in Vacantes, NEW k \in Codigos,
         LeePostular(r, v, k)
  PROVE  IInv'
<1> USE DEF IInv
<1>1. PICK a \in PeticionTipo : a = Libre(v) /\ a.v = v /\ ~ a.conexion
  BY LibreTipo
<1>2. PICK b : b = [a EXCEPT !.fase = "ARCHIVO"]
  OBVIOUS
<1>3. b \in PeticionTipo /\ b.fase = "ARCHIVO" /\ b.v = v /\ ~ b.conexion
  BY <1>1, <1>2 DEF PeticionTipo, Fases
<1>4. PICK m : m = [b EXCEPT !.k = k]
  OBVIOUS
<1>5. /\ m \in PeticionTipo /\ m.fase = "ARCHIVO" /\ m.v = v /\ m.k = k
      /\ ~ m.conexion
  BY <1>3, <1>4 DEF PeticionTipo, CvPostulante
<1>6. /\ peticion' = [peticion EXCEPT ![r] = m]
      /\ archivos' = archivos \cup {k} /\ k \notin Usados
      /\ UNCHANGED <<codigo, activa, cv, edicion, requisitos, puntaje>>
  BY <1>1, <1>2, <1>4 DEF LeePostular, Pasa, GuardaCv
<1>7. Sustituye(r, m)
  BY <1>5, <1>6, AlSustituir
<1>8. Turnos'
  BY <1>5, <1>7, PermiteNueva, TurnosSiguen
<1>9. /\ k # "NADA" /\ k \notin archivos
      /\ \A q \in Peticiones : peticion[q].k # k
      /\ \A w \in Vacantes : codigo[w] # k
  BY <1>6, NadaNoEsValor DEF Usados, CvConArchivo
<1>10. TypeOK'
  <2>1. /\ peticion' \in [Peticiones -> PeticionTipo]
        /\ \A q \in Peticiones :
             peticion'[q].conexion => peticion'[q].fase \in Curso
    BY <1>5, <1>7 DEF Sustituye, TypeOK
  <2> QED
    BY <1>6, <2>1 DEF TypeOK, PeticionTipo, Fases, FotoTipo, CvPostulante
<1>11. Frescas' /\ CvConArchivo'
  BY <1>5, <1>6, <1>7 DEF Frescas, CvConArchivo, Sustituye
<1>12. Propios'
  BY <1>5, <1>6, <1>7, <1>9 DEF Propios, Sustituye
<1> QED
  BY <1>8, <1>10, <1>11, <1>12

LEMMA PasoVaciaRequisitos ==
  ASSUME IInv, NEW v \in Vacantes, VaciaRequisitos(v)
  PROVE  IInv'
BY DEF VaciaRequisitos, IInv, TypeOK, Turnos, Frescas, Propios, CvConArchivo

----------------------------------------------------------------------------
(* The steps of Next, one by one. *)

LEMMA PorPasos ==
  ASSUME Next
  PROVE  \/ \E r \in Peticiones :
              \/ \E v \in Vacantes :
                   LeeAnalisis(r, v) \/ OrdenaEdicion(r, v)
                   \/ BloqueaCierre(r, v)
                   \/ \E k \in Codigos : LeePostular(r, v, k)
              \/ Toma(r) \/ Sondea(r) \/ TomaCupo(r) \/ Persiste(r)
              \/ BloqueaVacante(r) \/ BloqueaPostulacion(r)
              \/ GuardaAnalisis(r) \/ Sale(r) \/ EscribeAnalisis(r)
              \/ PierdeConexion(r) \/ upsert_postulante(r)
              \/ create_postulacion(r) \/ EscribeEdicion(r)
              \/ EscribeCierre(r) \/ Revierte(r)
         \/ \E v \in Vacantes : VaciaRequisitos(v)
BY DEF Next, analizar, analizar_cv, analysis_lock, crear_postulacion_publica

LEMMA Paso == IInv /\ [Next]_vars => IInv'
<1> SUFFICES ASSUME IInv, [Next]_vars PROVE IInv'
  OBVIOUS
<1>1. CASE UNCHANGED vars
  BY <1>1 DEF vars, IInv, TypeOK, Turnos, Frescas, Propios, CvConArchivo
<1>2. CASE \E v \in Vacantes : VaciaRequisitos(v)
  BY <1>2, PasoVaciaRequisitos
<1>3. ASSUME NEW r \in Peticiones, NEW v \in Vacantes,
             \/ LeeAnalisis(r, v) \/ OrdenaEdicion(r, v)
             \/ BloqueaCierre(r, v)
             \/ \E k \in Codigos : LeePostular(r, v, k)
      PROVE  IInv'
  BY <1>3, PasoEmpieza, PasoLeePostular
<1>4. ASSUME NEW r \in Peticiones,
             \/ Sondea(r) \/ Persiste(r) \/ BloqueaVacante(r)
             \/ BloqueaPostulacion(r) \/ GuardaAnalisis(r)
             \/ upsert_postulante(r)
      PROVE  IInv'
  <2>1. UNCHANGED datos
    BY <1>4 DEF Sondea, Persiste, BloqueaVacante, BloqueaPostulacion,
       GuardaAnalisis, upsert_postulante
  <2> QED
    BY <1>4, <2>1, PasoAvanza
<1>5. ASSUME NEW r \in Peticiones,
             \/ Toma(r) \/ TomaCupo(r) \/ Sale(r) \/ PierdeConexion(r)
             \/ Revierte(r)
      PROVE  IInv'
  BY <1>5, PasoToma, PasoTomaCupo, PasoSale, PasoPierdeConexion, PasoRevierte
<1>6. ASSUME NEW r \in Peticiones,
             \/ EscribeAnalisis(r) \/ create_postulacion(r)
             \/ EscribeEdicion(r) \/ EscribeCierre(r)
      PROVE  IInv'
  BY <1>6, PasoEscribeAnalisis, PasoCreatePostulacion, PasoEscribeEdicion,
     PasoEscribeCierre
<1> QED
  BY <1>1, <1>2, <1>3, <1>4, <1>5, <1>6, PorPasos

(* The inductive invariant holds in every reachable state.                  *)
THEOREM Invariante == Spec => []IInv
BY AlEmpezar, Paso, PTL DEF Spec

(* The rows, the files and the requests are always of their types, no code  *)
(* names two applications and no session lock outlives its analysis.        *)
THEOREM Tipos == Spec => []TypeOK
<1>1. IInv => TypeOK
  BY DEF IInv
<1> QED
  BY <1>1, Invariante, PTL

----------------------------------------------------------------------------
LEMMA SiempreUna == IInv => UnaPorPostulacion
<1> SUFFICES ASSUME IInv, NEW v \in Vacantes, NEW r \in Conectadas,
                    r \in Sobre(v, EnProveedor),
                    NEW q \in Sobre(v, EnProveedor \cup {"CONFIRMA"}) \ {r}
             PROVE  q \notin Conectadas /\ peticion[q].fase # "CONFIRMA"
  BY DEF UnaPorPostulacion
<1>1. /\ r \in Peticiones /\ q \in Peticiones /\ r # q
      /\ peticion[r].conexion /\ peticion[r].fase \in Sondeadas
      /\ peticion[r].v = v /\ peticion[q].v = v
  BY DEF Conectadas, Sobre, EnFase, EnProveedor, Sondeadas
<1> QED
  BY <1>1 DEF IInv, Turnos, Conectadas

VigentePaso ==
  \A v \in Vacantes : puntaje'[v] # puntaje[v] =>
    /\ v \in activa
    /\ puntaje'[v].cv = cv /\ puntaje'[v].edicion = edicion[v]

LEMMA SiempreVigente ==
  ASSUME IInv, [Next]_vars
  PROVE  VigentePaso
<1>1. CASE puntaje' = puntaje
  BY <1>1 DEF VigentePaso
<1>2. CASE \E r \in Peticiones : EscribeAnalisis(r)
  <2> PICK r \in Peticiones : EscribeAnalisis(r)
    BY <1>2
  <2>1. PICK p \in PeticionTipo : p = peticion[r] /\ p.fase = "CONFIRMA"
    BY DeSuTipo DEF IInv, EscribeAnalisis, Deja, Pasa
  <2>2. PICK n : n = [cv |-> p.foto.cv, edicion |-> p.foto.edicion]
    OBVIOUS
  <2>3. puntaje' = [puntaje EXCEPT ![p.v] = n]
    BY <2>1, <2>2 DEF EscribeAnalisis
  <2>4. /\ p.v \in activa
        /\ n.cv = cv /\ n.edicion = edicion[p.v]
    BY <2>1, <2>2 DEF IInv, Frescas
  <2> QED
    BY <2>3, <2>4 DEF VigentePaso, IInv, TypeOK
<1>3. puntaje' = puntaje \/ \E r \in Peticiones : EscribeAnalisis(r)
  BY PorPasos DEF datos, vars, LeeAnalisis, Toma, Sondea, TomaCupo, Persiste,
     BloqueaVacante, BloqueaPostulacion, GuardaAnalisis, Sale,
     PierdeConexion, LeePostular, upsert_postulante, create_postulacion,
     OrdenaEdicion, EscribeEdicion, BloqueaCierre, EscribeCierre, Revierte,
     VaciaRequisitos
<1> QED
  BY <1>1, <1>2, <1>3

(* One analysis of an application at a time, of a CV whose file is there;   *)
(* and a score is given to an active application, from the CV and from the  *)
(* vacancy as they are at the commit (analizar_cv, analysis_lock,           *)
(* CrearPostulacionPublica.execute).                                        *)
THEOREM SiempreFirme == Spec => AnalisisFirme
<1>1. IInv => AnalisisCoherente
  BY SiempreUna DEF IInv, AnalisisCoherente
<1>2. IInv /\ [Next]_vars => [VigentePaso]_vars
  BY SiempreVigente
<1>3. VigentePaso
      <=> \A v \in Vacantes : puntaje'[v] # puntaje[v] =>
            /\ v \in activa
            /\ puntaje'[v].cv = cv /\ puntaje'[v].edicion = edicion[v]
  BY DEF VigentePaso
<1> QED
  BY <1>1, <1>2, <1>3, Invariante, PTL DEF Spec, AnalisisFirme, AnalisisVigente
=============================================================================
