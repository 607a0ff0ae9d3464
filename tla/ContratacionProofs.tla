------------------------ MODULE ContratacionProofs ------------------------
(***************************************************************************)
(* Proofs about Contratacion, for any number of vacancies, candidates,     *)
(* codes, places and requests in flight.                                   *)
(*                                                                         *)
(* The argument: what contratar read is still so when it writes            *)
(* (FotoVigente), because the row locks are exclusive and every writer of  *)
(* those rows honours them.  It is inductive together with the types, the  *)
(* exclusive locks and the foreign key: IInv.                              *)
(***************************************************************************)
EXTENDS Contratacion, FiniteSetTheorems, TLAPS

----------------------------------------------------------------------------
(* The steps of Next by what they do, which is how the proofs go through    *)
(* them: a request reads, a request writes, one step does it all.           *)
Lee(r) ==
  \E v \in Vacantes :
    \/ \E n \in Cupos, b \in BOOLEAN : LeeActualizar(r, v, n, b)
    \/ \E op \in Transiciones : LeeTransicion(r, v, op)
    \/ LeeEliminar(r, v)
    \/ \E c \in Postulantes :
         \/ LeePostular(r, v, c)
         \/ LeeAsociar(r, v, c)
         \/ \E k \in Codigos : LeeContratar(r, v, c, k)

Escribe(r) ==
  \/ EscribeActualizar(r)
  \/ EscribeTransicion(r)
  \/ EscribeEliminar(r)
  \/ EscribePostular(r)
  \/ EscribeAsociar(r)
  \/ EscribeContratar(r)

DeUnPaso ==
  \/ \E c \in Postulantes, b \in BOOLEAN : Banco(c, b)
  \/ \E p \in Postulaciones : CambiarEtapa(p) \/ Rechazar(p)

Entorno ==
  \/ \E v \in Vacantes :
       \/ Vence(v)
       \/ \E n \in Cupos, b \in BOOLEAN : CrearVacante(v, n, b)
  \/ \E ci \in Postulantes, k \in Codigos : AltaEmpleado(ci, k)

(* Every step of an endpoint is one of those (Next).                        *)
LEMMA PorPasos ==
  ASSUME Next
  PROVE  \/ \E r \in Peticiones : Lee(r) \/ Escribe(r) \/ Revierte(r)
         \/ DeUnPaso
         \/ Entorno
<1>1. ASSUME NEW r \in Peticiones, Peticiona(r)
      PROVE  Lee(r) \/ Escribe(r)
  <2>1. ASSUME NEW op, Transita(r, op), op \in Transiciones
        PROVE  Lee(r) \/ Escribe(r)
    BY <2>1 DEF Transita, Lee, Escribe
  <2> QED
    BY <1>1, <2>1 DEF Peticiona, publicar_vacante, reanudar_vacante,
       pausar_vacante, cerrar_vacante, Transiciones, actualizar_vacante,
       eliminar_vacante, crear_postulacion_publica, asociar, contratar,
       Lee, Escribe
<1> QED
  BY <1>1 DEF Next, crear_vacante, banco, crear_postulante, DeUnPaso, Entorno

----------------------------------------------------------------------------
(* Facts about the operators. *)

(* A vacancy has finitely many hired applications.                          *)
LEMMA ContratadasFinitas ==
  ASSUME NEW v \in Vacantes
  PROVE  IsFiniteSet(Contratadas(v)) /\ Cardinality(Contratadas(v)) \in Nat
<1>1. Contratadas(v) \in SUBSET ({v} \X Postulantes)
  BY DEF Contratadas, Postulaciones
<1>2. IsFiniteSet({v} \X Postulantes)
  BY FS_Product, FS_Singleton, PostulantesFinitos
<1> QED
  BY <1>1, <1>2, FS_Subset, FS_CardinalityType

(* A step under which the same applications are hired leaves the set as it  *)
(* was.                                                                     *)
LEMMA ContratadasIguales ==
  ASSUME NEW v \in Vacantes,
         \A p \in Postulaciones : p[1] = v =>
           (postulacion'[p].estado = "CONTRATADA"
              <=> postulacion[p].estado = "CONTRATADA")
  PROVE  Contratadas(v)' = Contratadas(v)
  BY DEF Contratadas

(* What every reading step does: it writes no table, it starts one request  *)
(* in a free slot, and it starts a hiring or an association only when the   *)
(* locks are free and the snapshot is fresh.                                *)
LEMMA LecturaFresca ==
  ASSUME TypeOK, NEW r \in Peticiones, Lee(r)
  PROVE  /\ UNCHANGED tablas
         /\ peticion[r] = Reposo
         /\ \E m \in Peticion :
              /\ peticion' = [peticion EXCEPT ![r] = m]
              /\ m.op \in {"contratar", "asociar"} =>
                   m.v \in Vacantes /\ BloqueanVacante(m.v) = {}
              /\ m.op = "contratar" =>
                   /\ m.c \in Postulantes /\ BloqueanPostulante(m.c) = {}
                   /\ Foto(m)
<1> DEFINE Meta(m) ==
      /\ m.op \in {"contratar", "asociar"} =>
           m.v \in Vacantes /\ BloqueanVacante(m.v) = {}
      /\ m.op = "contratar" =>
           /\ m.c \in Postulantes /\ BloqueanPostulante(m.c) = {}
           /\ Foto(m)
<1>1. SUFFICES \E m \in Peticion : Empieza(r, m) /\ Meta(m)
  BY DEF Empieza
<1> USE DEF Peticion, Transiciones
<1>2. PICK v \in Vacantes :
        \/ \E n \in Cupos, b \in BOOLEAN : LeeActualizar(r, v, n, b)
        \/ \E op \in Transiciones : LeeTransicion(r, v, op)
        \/ LeeEliminar(r, v)
        \/ \E c \in Postulantes :
             \/ LeePostular(r, v, c)
             \/ LeeAsociar(r, v, c)
             \/ \E k \in Codigos : LeeContratar(r, v, c, k)
  BY DEF Lee
<1>3. ASSUME NEW n \in Cupos, NEW b \in BOOLEAN, LeeActualizar(r, v, n, b)
      PROVE  \E m \in Peticion : Empieza(r, m) /\ Meta(m)
  <2> DEFINE m == [op |-> "actualizar", v |-> v, cantidad |-> n, vencida |-> b]
  <2>1. m \in Peticion /\ Meta(m) /\ Empieza(r, m)
    BY <1>3 DEF LeeActualizar
  <2> QED
    BY <2>1
<1>4. ASSUME NEW op \in Transiciones, LeeTransicion(r, v, op)
      PROVE  \E m \in Peticion : Empieza(r, m) /\ Meta(m)
  <2> DEFINE m == [op |-> op, v |-> v]
  <2>1. m \in Peticion /\ Meta(m) /\ Empieza(r, m)
    BY <1>4 DEF LeeTransicion
  <2> QED
    BY <2>1
<1>5. ASSUME LeeEliminar(r, v)
      PROVE  \E m \in Peticion : Empieza(r, m) /\ Meta(m)
  <2> DEFINE m == [op |-> "eliminar", v |-> v]
  <2>1. m \in Peticion /\ Meta(m) /\ Empieza(r, m)
    BY <1>5 DEF LeeEliminar
  <2> QED
    BY <2>1
<1>6. ASSUME NEW c \in Postulantes, LeePostular(r, v, c)
      PROVE  \E m \in Peticion : Empieza(r, m) /\ Meta(m)
  <2> DEFINE m == [op |-> "postular", v |-> v, c |-> c]
  <2>1. m \in Peticion /\ Meta(m) /\ Empieza(r, m)
    BY <1>6 DEF LeePostular
  <2> QED
    BY <2>1
<1>7. ASSUME NEW c \in Postulantes, LeeAsociar(r, v, c)
      PROVE  \E m \in Peticion : Empieza(r, m) /\ Meta(m)
  <2> DEFINE m == [op |-> "asociar", v |-> v, c |-> c]
  <2>1. m \in Peticion /\ Meta(m) /\ Empieza(r, m)
    BY <1>7 DEF LeeAsociar, VacanteLibre
  <2> QED
    BY <2>1
<1>8. ASSUME NEW c \in Postulantes, NEW k \in Codigos, LeeContratar(r, v, c, k)
      PROVE  \E m \in Peticion : Empieza(r, m) /\ Meta(m)
  <2> DEFINE m == [op |-> "contratar", v |-> v, c |-> c, k |-> k,
                   cuenta |-> Cardinality(Contratadas(v)),
                   cupo |-> vacante[v].cantidad]
  <2>1. Empieza(r, m)
    BY <1>8 DEF LeeContratar
  <2>2. m \in Peticion
    BY ContratadasFinitas DEF TypeOK, Vacante
  <2>3. Meta(m)
    BY <1>8, ContratadasFinitas DEF LeeContratar, Foto, VacanteLibre, HayCupo
  <2> QED
    BY <2>1, <2>2, <2>3
<1> QED
  BY <1>2, <1>3, <1>4, <1>5, <1>6, <1>7, <1>8

----------------------------------------------------------------------------
(* Types. *)

(* Every initial state has its type.                                        *)
LEMMA TiposIniciales == Init => TypeOK
  BY DEF Init, TypeOK, Vacante, EstadosVacante, Postulacion, SinPostular, Fila,
         EstadosPostulacion, Etapas, Peticion, Reposo

(* Every handler of Contratacion writes rows and requests of their types.   *)
LEMMA TiposPaso == TypeOK /\ [Next]_vars => TypeOK'
<1> SUFFICES ASSUME TypeOK, [Next]_vars
             PROVE  TypeOK'
  OBVIOUS
<1> USE DEF TypeOK
<1>1. ASSUME NEW r \in Peticiones, Lee(r)
      PROVE  TypeOK'
  BY <1>1, LecturaFresca DEF tablas
<1>2. ASSUME NEW r \in Peticiones, Escribe(r)
      PROVE  TypeOK'
  <2> USE DEF Termina, En, Peticion, Reposo
  <2>1. CASE EscribeActualizar(r)
    BY <2>1 DEF EscribeActualizar, Vacante, Transiciones
  <2>2. CASE EscribeTransicion(r)
    BY <2>2 DEF EscribeTransicion, Vacante, Transiciones, Destino, EstadosVacante
  <2>3. CASE EscribeEliminar(r)
    BY <2>3 DEF EscribeEliminar, Vacante, EstadosVacante
  <2>4. ASSUME NEW p, Inserta(r, p)
        PROVE  TypeOK'
    BY <2>4 DEF Inserta, Nueva, Fila, Postulacion, EstadosPostulacion, Etapas
  <2>5. CASE EscribePostular(r) \/ EscribeAsociar(r)
    BY <2>4, <2>5 DEF EscribePostular, EscribeAsociar
  <2>6. CASE EscribeContratar(r)
    <3>1. /\ peticion[r].c \in Postulantes
          /\ peticion[r].k \in Codigos
      BY <2>6 DEF EscribeContratar, Transiciones
    <3>2. [ci |-> peticion[r].c, codigo |-> peticion[r].k] \in Empleado
      BY <3>1 DEF Empleado
    <3>3. vacante' \in [Vacantes -> Vacante]
      BY <2>6 DEF EscribeContratar, Vacante, EstadosVacante
    <3>4. postulacion' \in [Postulaciones -> Postulacion]
      BY <2>6, <3>2 DEF EscribeContratar, Postulacion, Fila, EstadosPostulacion,
                        Etapas
    <3> QED
      BY <2>6, <3>2, <3>3, <3>4 DEF EscribeContratar
  <2> QED
    BY <1>2, <2>1, <2>2, <2>3, <2>5, <2>6 DEF Escribe
<1>3. ASSUME NEW r \in Peticiones, Revierte(r)
      PROVE  TypeOK'
  BY <1>3 DEF Revierte, tablas, Termina, Peticion
<1>4. CASE DeUnPaso
  <2>1. ASSUME NEW c \in Postulantes, NEW b \in BOOLEAN, Banco(c, b)
        PROVE  TypeOK'
    BY <2>1 DEF Banco
  <2>2. ASSUME NEW p \in Postulaciones, CambiarEtapa(p) \/ Rechazar(p)
        PROVE  TypeOK'
    <3>1. postulacion[p].empleado \in Empleado \cup {Ninguno}
      BY DEF Postulacion
    <3>2. PICK f \in Postulacion : postulacion' = [postulacion EXCEPT ![p] = f]
      <4>1. /\ Fila("ACTIVA", "abierta", FALSE, postulacion[p].empleado)
                 \in Postulacion
            /\ Fila("DESCARTADA", "rechazado", TRUE, postulacion[p].empleado)
                 \in Postulacion
        BY <3>1 DEF Fila, Postulacion, EstadosPostulacion, Etapas
      <4> QED
        BY <2>2, <4>1 DEF CambiarEtapa, Rechazar, Mueve
    <3> QED
      BY <2>2, <3>2 DEF CambiarEtapa, Rechazar, Mueve
  <2> QED
    BY <1>4, <2>1, <2>2 DEF DeUnPaso
<1>5. CASE Entorno
  <2>1. ASSUME NEW v \in Vacantes, Vence(v)
        PROVE  TypeOK'
    BY <2>1 DEF Vence, Vacante
  <2>2. ASSUME NEW v \in Vacantes, NEW n \in Cupos, NEW b \in BOOLEAN,
               CrearVacante(v, n, b)
        PROVE  TypeOK'
    BY <2>2 DEF CrearVacante, Vacante, EstadosVacante
  <2>3. ASSUME NEW ci \in Postulantes, NEW k \in Codigos, AltaEmpleado(ci, k)
        PROVE  TypeOK'
    BY <2>3 DEF AltaEmpleado, Empleado
  <2> QED
    BY <1>5, <2>1, <2>2, <2>3 DEF Entorno
<1>6. CASE UNCHANGED vars
  BY <1>6 DEF vars
<1> QED
  BY <1>1, <1>2, <1>3, <1>4, <1>5, <1>6, PorPasos

(* Every row and every request in flight always has its type.               *)
THEOREM Tipos == Spec => []TypeOK
  BY TiposIniciales, TiposPaso, PTL DEF Spec

----------------------------------------------------------------------------
(* The locks are exclusive. *)

(* Ending a request, or leaving the requests alone, takes no lock.          *)
LEMMA SoltarConserva ==
  ASSUME BloqueosExclusivos, NEW r \in Peticiones, TypeOK,
         Termina(r) \/ UNCHANGED peticion
  PROVE  BloqueosExclusivos'
  BY DEF BloqueosExclusivos, Termina, BloqueanVacante, BloqueanPostulante, En,
         Reposo, TypeOK

(* A request takes a row lock only when nobody holds it, whatever the step. *)
LEMMA ExclusivosPaso ==
  TypeOK /\ BloqueosExclusivos /\ [Next]_vars => BloqueosExclusivos'
<1> SUFFICES ASSUME TypeOK, BloqueosExclusivos, [Next]_vars
             PROVE  BloqueosExclusivos'
  OBVIOUS
<1>1. ASSUME NEW r \in Peticiones, Lee(r)
      PROVE  BloqueosExclusivos'
  <2>1. PICK m \in Peticion :
          /\ peticion' = [peticion EXCEPT ![r] = m]
          /\ m.op \in {"contratar", "asociar"} =>
               m.v \in Vacantes /\ BloqueanVacante(m.v) = {}
          /\ m.op = "contratar" =>
               m.c \in Postulantes /\ BloqueanPostulante(m.c) = {}
    BY <1>1, LecturaFresca
  <2> QED
    BY <2>1 DEF BloqueosExclusivos, BloqueanVacante, BloqueanPostulante, En, TypeOK
<1>2. ASSUME NEW r \in Peticiones, Escribe(r) \/ Revierte(r)
      PROVE  BloqueosExclusivos'
  <2>1. Termina(r)
    BY <1>2 DEF Escribe, Revierte, EscribeActualizar, EscribeTransicion,
                EscribeEliminar, EscribePostular, EscribeAsociar, Inserta,
                EscribeContratar
  <2> QED
    BY <2>1, SoltarConserva
<1>3. CASE DeUnPaso \/ Entorno \/ UNCHANGED vars
  <2>1. UNCHANGED peticion
    BY <1>3 DEF DeUnPaso, Entorno, vars, Banco, CambiarEtapa, Rechazar, Mueve,
                Vence, CrearVacante, AltaEmpleado
  <2> QED
    BY <2>1 DEF BloqueosExclusivos, BloqueanVacante, BloqueanPostulante, En
<1> QED
  BY <1>1, <1>2, <1>3, PorPasos

(* No two requests ever hold the same vacancy or the same candidate.        *)
THEOREM Exclusivos == Spec => []BloqueosExclusivos
<1>1. Init => BloqueosExclusivos
  BY DEF Init, BloqueosExclusivos, BloqueanVacante, BloqueanPostulante, En, Reposo
<1> QED
  BY <1>1, Tipos, ExclusivosPaso, PTL DEF Spec

----------------------------------------------------------------------------
(* The snapshot of a hiring stays valid, and no application loses its       *)
(* vacancy.  Each needs the other: the vacancy of a hiring in flight exists *)
(* because its application does, so no new vacancy takes its row.           *)

IInv ==
  /\ TypeOK
  /\ BloqueosExclusivos
  /\ SinPostulacionesHuerfanas
  /\ FotoVigente

(* What a hiring in flight remembers has its type.                          *)
LEMMA TipoContratar ==
  ASSUME TypeOK, NEW s \in Peticiones, En(s, "contratar")
  PROVE  /\ peticion[s].v \in Vacantes
         /\ peticion[s].c \in Postulantes
         /\ peticion[s].k \in Codigos
         /\ peticion[s].cuenta \in Nat
         /\ peticion[s].cupo \in Nat
         /\ <<peticion[s].v, peticion[s].c>> \in Postulaciones
<1>1. peticion[s] \in [op : {"contratar"}, v : Vacantes, c : Postulantes,
                       k : Codigos, cuenta : Nat, cupo : Cupos]
  BY DEF TypeOK, Peticion, Reposo, Transiciones, En
<1> QED
  BY <1>1, CuposPositivos DEF Postulaciones

(* A hiring keeps its snapshot through a step that leaves alone the vacancy *)
(* and the application it locked and hires nobody in that vacancy.          *)
LEMMA FotoIgual ==
  ASSUME TypeOK, NEW s \in Peticiones, En(s, "contratar"), Foto(peticion[s]),
         peticion'[s] = peticion[s],
         vacante'[peticion[s].v].cantidad = vacante[peticion[s].v].cantidad,
         vacante'[peticion[s].v].estado = vacante[peticion[s].v].estado,
         postulacion'[<<peticion[s].v, peticion[s].c>>].estado = "ACTIVA",
         \A p \in Postulaciones : p[1] = peticion[s].v =>
           (postulacion'[p].estado = "CONTRATADA"
              <=> postulacion[p].estado = "CONTRATADA")
  PROVE  Foto(peticion[s])'
<1>1. Contratadas(peticion[s].v)' = Contratadas(peticion[s].v)
  BY TipoContratar DEF Contratadas
<1> QED
  BY <1>1 DEF Foto

(* The end of request r, or a step outside the requests, leaves every       *)
(* hiring in flight after it as it was before it.                           *)
LEMMA SiguenIgual ==
  ASSUME TypeOK,
         UNCHANGED peticion \/ \E r \in Peticiones : Termina(r),
         NEW s \in Peticiones, En(s, "contratar")'
  PROVE  En(s, "contratar") /\ peticion'[s] = peticion[s]
  BY DEF TypeOK, Termina, En, Reposo

(* A reading step keeps every snapshot in flight, and takes a fresh one.    *)
LEMMA FotoLee ==
  ASSUME IInv, NEW r \in Peticiones, Lee(r)
  PROVE  SinPostulacionesHuerfanas' /\ FotoVigente'
<1>1. UNCHANGED tablas
  BY LecturaFresca DEF IInv
<1>2. PICK m \in Peticion :
        /\ peticion' = [peticion EXCEPT ![r] = m]
        /\ m.op = "contratar" => Foto(m)
  BY LecturaFresca DEF IInv
<1>3. ASSUME NEW s \in Peticiones, En(s, "contratar")'
      PROVE  Foto(peticion[s])'
  <2>1. CASE s = r
    <3>1. peticion'[s] = m /\ Foto(m)
      BY <1>2, <1>3, <2>1 DEF IInv, TypeOK, En
    <3> QED
      BY <1>1, <3>1 DEF Foto, tablas, Contratadas
  <2>2. CASE s # r
    <3>1. peticion'[s] = peticion[s] /\ En(s, "contratar")
      BY <1>2, <1>3, <2>2 DEF IInv, TypeOK, En
    <3> QED
      BY ZenonT(60), <1>1, <3>1 DEF Foto, tablas, Contratadas, IInv, FotoVigente
  <2> QED
    BY <2>1, <2>2
<1> QED
  BY <1>1, <1>3 DEF FotoVigente, SinPostulacionesHuerfanas, tablas, Postulo,
                    Existe, IInv

(* A write of the vacancy v that nobody holds, and that does not remove it  *)
(* while it has applications.                                               *)
LEMMA FotoVacante ==
  ASSUME IInv, NEW v \in Vacantes,
         UNCHANGED peticion \/ \E r \in Peticiones : Termina(r),
         UNCHANGED postulacion,
         \A w \in Vacantes \ {v} : vacante'[w] = vacante[w],
         Existe(v)' \/ \A c \in Postulantes : ~ Postulo(<<v, c>>),
         \/ BloqueanVacante(v) = {}
         \/ vacante[v].estado = "NO_CREADA"
         \/ /\ vacante'[v].estado = vacante[v].estado
            /\ vacante'[v].cantidad = vacante[v].cantidad
  PROVE  SinPostulacionesHuerfanas' /\ FotoVigente'
<1> USE DEF IInv
<1>1. SinPostulacionesHuerfanas'
  BY DEF SinPostulacionesHuerfanas, Postulo, Existe, Postulaciones
<1>2. ASSUME NEW s \in Peticiones, En(s, "contratar")'
      PROVE  Foto(peticion[s])'
  <2>1. /\ En(s, "contratar") /\ peticion'[s] = peticion[s]
        /\ Foto(peticion[s])
    BY <1>2, SiguenIgual DEF FotoVigente
  <2>2. CASE peticion[s].v # v
    BY <2>1, <2>2, TipoContratar, FotoIgual DEF Foto
  <2>3. CASE peticion[s].v = v
    <3>1. s \in BloqueanVacante(v)
      BY <2>1, <2>3 DEF BloqueanVacante, En
    <3>2. vacante[v].estado # "NO_CREADA"
      BY <2>1, <2>3, TipoContratar
         DEF Foto, SinPostulacionesHuerfanas, Postulo, Existe, Postulaciones
    <3> QED
      BY <2>1, <2>3, <3>1, <3>2, TipoContratar, FotoIgual DEF Foto
  <2> QED
    BY <2>2, <2>3
<1> QED
  BY <1>1, <1>2 DEF FotoVigente

(* A write of one application that nobody holds, that neither hires nor     *)
(* undoes a hiring, in a vacancy that exists.                               *)
LEMMA FotoPostulacion ==
  ASSUME IInv, NEW p \in Postulaciones,
         UNCHANGED peticion \/ \E r \in Peticiones : Termina(r),
         UNCHANGED vacante, Existe(p[1]),
         \A q \in Postulaciones \ {p} : postulacion'[q] = postulacion[q],
         postulacion[p].estado # "CONTRATADA",
         postulacion'[p].estado # "CONTRATADA",
         postulacion[p].estado # "ACTIVA" \/ BloqueanPostulacion(p) = {}
  PROVE  SinPostulacionesHuerfanas' /\ FotoVigente'
<1> USE DEF IInv
<1>1. SinPostulacionesHuerfanas'
  BY DEF SinPostulacionesHuerfanas, Postulo, Existe
<1>2. ASSUME NEW s \in Peticiones, En(s, "contratar")'
      PROVE  Foto(peticion[s])'
  <2>1. /\ En(s, "contratar") /\ peticion'[s] = peticion[s]
        /\ Foto(peticion[s])
    BY <1>2, SiguenIgual DEF FotoVigente
  <2>2. <<peticion[s].v, peticion[s].c>> # p
    BY <2>1 DEF BloqueanPostulacion, Foto
  <2>3. \A q \in Postulaciones :
          postulacion'[q].estado = "CONTRATADA"
            <=> postulacion[q].estado = "CONTRATADA"
    OBVIOUS
  <2>4. postulacion'[<<peticion[s].v, peticion[s].c>>].estado = "ACTIVA"
    BY <2>1, <2>2, TipoContratar DEF Foto
  <2> QED
    BY <2>1, <2>3, <2>4, FotoIgual
<1> QED
  BY <1>1, <1>2 DEF FotoVigente

(* The write of a hiring touches a vacancy, an application and a candidate  *)
(* that only it holds.                                                      *)
LEMMA FotoContratar ==
  ASSUME IInv, NEW r \in Peticiones, EscribeContratar(r)
  PROVE  SinPostulacionesHuerfanas' /\ FotoVigente'
<1> USE DEF IInv
<1>0. PICK v \in Vacantes, p \in Postulaciones :
        v = peticion[r].v /\ p = <<peticion[r].v, peticion[r].c>>
  BY TipoContratar DEF EscribeContratar
<1>1. /\ p[1] = v /\ p = <<v, peticion[r].c>>
      /\ En(r, "contratar") /\ Termina(r) /\ Foto(peticion[r])
  BY <1>0 DEF EscribeContratar, FotoVigente
<1>2. \A w \in Vacantes \ {v} : vacante'[w] = vacante[w]
  BY <1>0, <1>1 DEF EscribeContratar, TypeOK
<1>3. \A q \in Postulaciones \ {p} : postulacion'[q] = postulacion[q]
  BY <1>0, <1>1 DEF EscribeContratar, TypeOK
<1>4. Existe(v)'
  <2>1. Existe(v)
    BY <1>0, <1>1 DEF Foto, SinPostulacionesHuerfanas, Postulo
  <2>2. vacante'[v].estado \in {vacante[v].estado, "CERRADA"}
    <3>1. vacante'[v] \in
            {vacante[v],
             [estado |-> "CERRADA", cantidad |-> vacante[v].cantidad,
              vencida |-> TRUE]}
      BY <1>0, <1>1 DEF EscribeContratar, TypeOK
    <3> QED
      BY <3>1
  <2> QED
    BY <2>1, <2>2 DEF Existe
<1>5. ASSUME NEW q \in Postulaciones, Postulo(q)'
      PROVE  Existe(q[1])'
  <2>1. CASE q[1] = v
    BY <1>4, <2>1
  <2>2. CASE q[1] # v
    <3>1. q[1] \in Vacantes /\ q # p
      BY <1>0, <1>1, <2>2 DEF Postulaciones
    <3>2. Existe(q[1])
      BY <1>3, <1>5, <3>1 DEF SinPostulacionesHuerfanas, Postulo
    <3> QED
      BY <1>2, <2>2, <3>1, <3>2 DEF Existe
  <2> QED
    BY <2>1, <2>2
<1>6. ASSUME NEW s \in Peticiones, En(s, "contratar")'
      PROVE  Foto(peticion[s])'
  <2>1. /\ En(s, "contratar") /\ peticion'[s] = peticion[s] /\ s # r
        /\ Foto(peticion[s])
    <3>1. s # r
      BY <1>1, <1>6 DEF Termina, En, Reposo, TypeOK
    <3> QED
      BY <1>1, <1>6, <3>1, SiguenIgual DEF FotoVigente
  <2>2. peticion[s].v # v
    BY <1>0, <1>1, <2>1 DEF BloqueosExclusivos, BloqueanVacante, En
  <2>3. /\ vacante'[peticion[s].v] = vacante[peticion[s].v]
        /\ <<peticion[s].v, peticion[s].c>> \in Postulaciones \ {p}
    BY <1>1, <1>2, <2>1, <2>2, TipoContratar
  <2>4. \A q \in Postulaciones : q[1] = peticion[s].v =>
          postulacion'[q] = postulacion[q]
    BY <1>1, <1>3, <2>2
  <2>5. postulacion'[<<peticion[s].v, peticion[s].c>>].estado = "ACTIVA"
    BY <1>3, <2>1, <2>3 DEF Foto
  <2> QED
    BY <2>1, <2>3, <2>4, <2>5, FotoIgual
<1> QED
  BY <1>5, <1>6 DEF FotoVigente, SinPostulacionesHuerfanas

(* Every step keeps the foreign key and the snapshots of the hirings.       *)
LEMMA FotoPaso == IInv /\ [Next]_vars => SinPostulacionesHuerfanas' /\ FotoVigente'
<1> SUFFICES ASSUME IInv, [Next]_vars
             PROVE  SinPostulacionesHuerfanas' /\ FotoVigente'
  OBVIOUS
<1> USE DEF IInv
<1>1. ASSUME NEW r \in Peticiones, Lee(r)
      PROVE  SinPostulacionesHuerfanas' /\ FotoVigente'
  BY <1>1, FotoLee
<1>2. ASSUME NEW r \in Peticiones, Escribe(r)
      PROVE  SinPostulacionesHuerfanas' /\ FotoVigente'
  <2>1. CASE EscribeActualizar(r)
    <3>1. PICK v \in Vacantes : v = peticion[r].v
      BY <2>1 DEF EscribeActualizar, En, TypeOK, Peticion, Reposo, Transiciones
    <3>2. /\ Termina(r) /\ UNCHANGED postulacion
          /\ \A w \in Vacantes \ {v} : vacante'[w] = vacante[w]
          /\ Existe(v)' /\ BloqueanVacante(v) = {}
      BY <2>1, <3>1 DEF EscribeActualizar, TypeOK, Vacante, Existe,
                        VacanteLibre
    <3> QED
      BY <3>2, FotoVacante
  <2>2. CASE EscribeTransicion(r)
    <3>1. PICK v \in Vacantes : v = peticion[r].v
      BY <2>2 DEF EscribeTransicion, TypeOK, Peticion, Reposo, Transiciones
    <3>2. Existe(v)'
      BY <2>2, <3>1 DEF EscribeTransicion, TypeOK, Vacante, Existe, Destino,
                        Transiciones
    <3>3. /\ Termina(r) /\ UNCHANGED postulacion
          /\ \A w \in Vacantes \ {v} : vacante'[w] = vacante[w]
          /\ BloqueanVacante(v) = {}
      BY <2>2, <3>1 DEF EscribeTransicion, TypeOK, VacanteLibre
    <3> QED
      BY <3>2, <3>3, FotoVacante
  <2>3. CASE EscribeEliminar(r)
    <3>1. PICK v \in Vacantes : v = peticion[r].v
      BY <2>3 DEF EscribeEliminar, En, TypeOK, Peticion, Reposo, Transiciones
    <3>2. /\ Termina(r) /\ UNCHANGED postulacion
          /\ \A w \in Vacantes \ {v} : vacante'[w] = vacante[w]
          /\ \A c \in Postulantes : ~ Postulo(<<v, c>>)
          /\ BloqueanVacante(v) = {}
      BY <2>3, <3>1 DEF EscribeEliminar, TypeOK, VacanteLibre, SinReferencias
    <3> QED
      BY <3>2, FotoVacante
  <2>4. CASE EscribePostular(r) \/ EscribeAsociar(r)
    <3>1. PICK p \in Postulaciones : Inserta(r, p)
      <4>1. peticion[r].v \in Vacantes /\ peticion[r].c \in Postulantes
        BY <2>4 DEF EscribePostular, EscribeAsociar, En, TypeOK, Peticion,
                    Reposo, Transiciones
      <4> QED
        BY <2>4, <4>1 DEF EscribePostular, EscribeAsociar, Postulaciones
    <3>2. /\ postulacion[p].estado = "NO_CREADA"
          /\ postulacion'[p].estado = "ACTIVA"
          /\ \A q \in Postulaciones \ {p} : postulacion'[q] = postulacion[q]
      BY <3>1 DEF Inserta, TypeOK, Nueva, Fila, Postulo
    <3> QED
      BY <3>1, <3>2, FotoPostulacion DEF Inserta
  <2>5. CASE EscribeContratar(r)
    BY <2>5, FotoContratar
  <2> QED
    BY <1>2, <2>1, <2>2, <2>3, <2>4, <2>5 DEF Escribe
<1>3. CASE \E r \in Peticiones : Revierte(r)
  <2>1. PICK r \in Peticiones : Termina(r) /\ UNCHANGED tablas
    BY <1>3 DEF Revierte
  <2>2. ASSUME NEW s \in Peticiones, En(s, "contratar")'
        PROVE  Foto(peticion[s])'
    BY <2>1, <2>2, SiguenIgual DEF tablas, Foto, FotoVigente, Contratadas
  <2> QED
    BY <2>1, <2>2 DEF FotoVigente, SinPostulacionesHuerfanas, tablas, Postulo,
                      Existe
<1>4. CASE DeUnPaso
  <2>1. ASSUME NEW c \in Postulantes, NEW b \in BOOLEAN, Banco(c, b)
        PROVE  SinPostulacionesHuerfanas' /\ FotoVigente'
    BY <2>1 DEF Banco, SinPostulacionesHuerfanas, Postulo, Existe, FotoVigente,
                Foto, Contratadas, En
  <2>2. ASSUME NEW p \in Postulaciones, CambiarEtapa(p) \/ Rechazar(p)
        PROVE  SinPostulacionesHuerfanas' /\ FotoVigente'
    <3>1. /\ postulacion[p].estado \in {"ACTIVA", "DESCARTADA"}
          /\ postulacion'[p].estado \in {"ACTIVA", "DESCARTADA"}
          /\ BloqueanPostulacion(p) = {}
          /\ UNCHANGED <<vacante, peticion>>
          /\ \A q \in Postulaciones \ {p} : postulacion'[q] = postulacion[q]
      BY <2>2 DEF CambiarEtapa, Rechazar, Mueve, Movible, Fila, TypeOK
    <3>2. Existe(p[1])
      BY <3>1 DEF SinPostulacionesHuerfanas, Postulo
    <3> QED
      BY <3>1, <3>2, FotoPostulacion
  <2> QED
    BY <1>4, <2>1, <2>2 DEF DeUnPaso
<1>5. CASE Entorno
  <2>1. ASSUME NEW v \in Vacantes,
               Vence(v) \/ \E n \in Cupos, b \in BOOLEAN : CrearVacante(v, n, b)
        PROVE  SinPostulacionesHuerfanas' /\ FotoVigente'
    <3>1. /\ UNCHANGED <<postulacion, peticion>>
          /\ Existe(v)'
          /\ \A w \in Vacantes \ {v} : vacante'[w] = vacante[w]
          /\ \/ vacante[v].estado = "NO_CREADA"
             \/ /\ vacante'[v].estado = vacante[v].estado
                /\ vacante'[v].cantidad = vacante[v].cantidad
      BY <2>1 DEF Vence, CrearVacante, Existe, TypeOK, Vacante
    <3> QED
      BY <3>1, FotoVacante
  <2>2. ASSUME NEW ci \in Postulantes, NEW k \in Codigos, AltaEmpleado(ci, k)
        PROVE  SinPostulacionesHuerfanas' /\ FotoVigente'
    BY <2>2 DEF AltaEmpleado, SinPostulacionesHuerfanas, Postulo, Existe,
                FotoVigente, Foto, Contratadas, En
  <2> QED
    BY <1>5, <2>1, <2>2 DEF Entorno
<1>6. CASE UNCHANGED vars
  BY <1>6 DEF vars, SinPostulacionesHuerfanas, Postulo, Existe, FotoVigente,
              Foto, Contratadas, En
<1> QED
  BY <1>1, <1>2, <1>3, <1>4, <1>5, <1>6, PorPasos

(* The inductive invariant of the component: types, exclusive locks, the    *)
(* foreign key, and the validity of what a hiring in flight read.           *)
THEOREM Invariante == Spec => []IInv
<1>1. Init => IInv
  <2>1. Init => SinPostulacionesHuerfanas
    BY DEF Init, SinPostulacionesHuerfanas, Postulo, SinPostular, Fila
  <2>2. Init => BloqueosExclusivos /\ FotoVigente
    BY DEF Init, BloqueosExclusivos, BloqueanVacante, BloqueanPostulante, En,
           Reposo, FotoVigente
  <2> QED
    BY <2>1, <2>2, TiposIniciales DEF IInv
<1>2. IInv /\ [Next]_vars => IInv'
  BY TiposPaso, ExclusivosPaso, FotoPaso DEF IInv
<1> QED
  BY <1>1, <1>2, PTL DEF Spec

(* What contratar read under its locks still holds when it writes.          *)
THEOREM FotoSiempreVigente == Spec => []FotoVigente
  BY Invariante, PTL DEF IInv

(* eliminar, which reads without a lock, never leaves an application        *)
(* without its vacancy.                                                     *)
THEOREM SinHuerfanas == Spec => []SinPostulacionesHuerfanas
  BY Invariante, PTL DEF IInv

----------------------------------------------------------------------------
(* What hiring promises. *)

(* What the write of a hiring does to the set of hired applications.        *)
LEMMA ContrataUna ==
  ASSUME IInv, NEW r \in Peticiones, EscribeContratar(r)
  PROVE  \E v \in Vacantes, p \in Postulaciones :
           /\ p[1] = v /\ p = <<peticion[r].v, peticion[r].c>>
           /\ postulacion[p].estado = "ACTIVA"
           /\ postulacion'[p] = Fila("CONTRATADA", "contratado", FALSE,
                [ci |-> peticion[r].c, codigo |-> peticion[r].k])
           /\ \A q \in Postulaciones \ {p} : postulacion'[q] = postulacion[q]
           /\ \A w \in Vacantes : vacante'[w].cantidad = vacante[w].cantidad
           /\ Cardinality(Contratadas(v)) < vacante[v].cantidad
           /\ Contratadas(v)' = Contratadas(v) \cup {p}
           /\ Cardinality(Contratadas(v)') = Cardinality(Contratadas(v)) + 1
           /\ vacante'[v].estado = "CERRADA"
                <=> Cardinality(Contratadas(v)) + 1 = vacante[v].cantidad
<1> USE DEF IInv
<1>1. PICK v \in Vacantes, p \in Postulaciones :
        v = peticion[r].v /\ p = <<peticion[r].v, peticion[r].c>>
  BY TipoContratar DEF EscribeContratar
<1>2. /\ p[1] = v /\ p = <<v, peticion[r].c>>
      /\ Foto(peticion[r])
  BY <1>1 DEF EscribeContratar, FotoVigente
<1>3. postulacion'[p] = Fila("CONTRATADA", "contratado", FALSE,
        [ci |-> peticion[r].c, codigo |-> peticion[r].k])
  BY <1>1 DEF EscribeContratar, TypeOK
<1>4. \A q \in Postulaciones \ {p} : postulacion'[q] = postulacion[q]
  BY <1>1 DEF EscribeContratar, TypeOK
<1>5. Contratadas(v)' = Contratadas(v) \cup {p} /\ p \notin Contratadas(v)
  BY <1>1, <1>2, <1>3, <1>4 DEF Contratadas, Fila, Foto
<1>6. Cardinality(Contratadas(v)') = Cardinality(Contratadas(v)) + 1
  BY <1>5, ContratadasFinitas, FS_AddElement
<1>7. vacante' = [vacante EXCEPT ![v] =
        IF Cardinality(Contratadas(v)) + 1 = vacante[v].cantidad
        THEN [estado |-> "CERRADA", cantidad |-> vacante[v].cantidad,
              vencida |-> TRUE]
        ELSE vacante[v]]
  BY <1>1, <1>2 DEF EscribeContratar, Foto
<1>8. /\ \A w \in Vacantes : vacante'[w].cantidad = vacante[w].cantidad
      /\ vacante'[v].estado = "CERRADA"
           <=> Cardinality(Contratadas(v)) + 1 = vacante[v].cantidad
  BY <1>1, <1>2, <1>7 DEF TypeOK, Foto
<1> QED
  BY ZenonT(60), <1>1, <1>2, <1>3, <1>4, <1>5, <1>6, <1>8 DEF Foto

(* Only the write of a hiring changes who is hired, in its own vacancy.     *)
LEMMA SoloContratarContrata ==
  ASSUME IInv, [Next]_vars, ~ \E r \in Peticiones : EscribeContratar(r)
  PROVE  \A p \in Postulaciones :
           (postulacion'[p].estado = "CONTRATADA"
              <=> postulacion[p].estado = "CONTRATADA")
           /\ (postulacion[p].estado = "CONTRATADA"
                => postulacion'[p] = postulacion[p])
<1> USE DEF IInv
<1>1. ASSUME NEW r \in Peticiones, EscribePostular(r) \/ EscribeAsociar(r)
      PROVE  \E p \in Postulaciones :
               /\ postulacion[p].estado = "NO_CREADA"
               /\ postulacion'[p].estado = "ACTIVA"
               /\ \A q \in Postulaciones \ {p} : postulacion'[q] = postulacion[q]
  <2>1. peticion[r].v \in Vacantes /\ peticion[r].c \in Postulantes
    BY <1>1 DEF EscribePostular, EscribeAsociar, En, TypeOK, Peticion, Reposo,
                Transiciones
  <2>2. PICK p \in Postulaciones : Inserta(r, p)
    BY <1>1, <2>1 DEF EscribePostular, EscribeAsociar, Postulaciones
  <2> QED
    BY <2>2 DEF Inserta, TypeOK, Nueva, Fila, Postulo
<1>2. ASSUME NEW p \in Postulaciones, CambiarEtapa(p) \/ Rechazar(p)
      PROVE  /\ postulacion[p].estado \in {"ACTIVA", "DESCARTADA"}
             /\ postulacion'[p].estado \in {"ACTIVA", "DESCARTADA"}
             /\ \A q \in Postulaciones \ {p} : postulacion'[q] = postulacion[q]
  BY <1>2 DEF CambiarEtapa, Rechazar, Mueve, Movible, Fila, TypeOK
<1>3. CASE UNCHANGED postulacion
  BY <1>3
<1>4. \/ UNCHANGED postulacion
      \/ \E r \in Peticiones : EscribePostular(r) \/ EscribeAsociar(r)
      \/ \E p \in Postulaciones : CambiarEtapa(p) \/ Rechazar(p)
  BY PorPasos, LecturaFresca
     DEF Escribe, Revierte, DeUnPaso, Entorno, vars, tablas, Banco, Vence,
         CrearVacante, AltaEmpleado, EscribeActualizar, EscribeTransicion,
         EscribeEliminar
<1> QED
  BY <1>1, <1>2, <1>3, <1>4

(* Every hiring leaves its vacancy within its places, and closed exactly    *)
(* when it took the last one.                                               *)
THEOREM CupoRespetado == Spec => CupoAlContratar
<1>1. ASSUME IInv, [Next]_vars, NEW v \in Vacantes,
             Contratadas(v)' # Contratadas(v)
      PROVE  /\ Cardinality(Contratadas(v)') <= vacante'[v].cantidad
             /\ Cardinality(Contratadas(v)') = vacante'[v].cantidad
                  <=> vacante'[v].estado = "CERRADA"
  <2>1. PICK r \in Peticiones : EscribeContratar(r)
    BY <1>1, SoloContratarContrata, ContratadasIguales
  <2>2. PICK w \in Vacantes, p \in Postulaciones :
          /\ p[1] = w
          /\ \A q \in Postulaciones \ {p} : postulacion'[q] = postulacion[q]
          /\ vacante'[w].cantidad = vacante[w].cantidad
          /\ Cardinality(Contratadas(w)) < vacante[w].cantidad
          /\ Cardinality(Contratadas(w)') = Cardinality(Contratadas(w)) + 1
          /\ vacante'[w].estado = "CERRADA"
               <=> Cardinality(Contratadas(w)) + 1 = vacante[w].cantidad
    BY <1>1, <2>1, ContrataUna
  <2>3. w = v
    BY <1>1, <2>2, ContratadasIguales
  <2>4. Cardinality(Contratadas(v)) \in Nat /\ vacante[v].cantidad \in Nat
    BY <1>1, ContratadasFinitas, CuposPositivos DEF IInv, TypeOK, Vacante
  <2> QED
    BY <2>2, <2>3, <2>4
<1>2. IInv /\ [Next]_vars =>
        [\A v \in Vacantes : Contratadas(v)' # Contratadas(v) =>
           /\ Cardinality(Contratadas(v)') <= vacante'[v].cantidad
           /\ Cardinality(Contratadas(v)') = vacante'[v].cantidad
                <=> vacante'[v].estado = "CERRADA"]_vars
  BY <1>1
<1> QED
  BY <1>2, Invariante, PTL DEF Spec, CupoAlContratar

(* Nothing undoes or rewrites a hiring.                                     *)
THEOREM ContratacionFinal == Spec => ContratadaEsFinal
<1>1. ASSUME IInv, [Next]_vars, NEW p \in Postulaciones,
             postulacion[p].estado = "CONTRATADA"
      PROVE  postulacion'[p] = postulacion[p]
  <2>1. ASSUME NEW r \in Peticiones, EscribeContratar(r)
        PROVE  postulacion'[p] = postulacion[p]
    BY <1>1, <2>1, ContrataUna
  <2> QED
    BY <1>1, <2>1, SoloContratarContrata
<1>2. IInv /\ [Next]_vars =>
        [\A p \in Postulaciones : postulacion[p].estado = "CONTRATADA" =>
           postulacion'[p] = postulacion[p]]_vars
  BY <1>1
<1> QED
  BY <1>2, Invariante, PTL DEF Spec, ContratadaEsFinal

(* A hiring stays within the places of its vacancy, closes it with the last *)
(* one and is never undone (contratar, cambiar_etapa, rechazar).            *)
THEOREM ContratacionesSonFirmes == Spec => ContratacionesFirmes
  BY CupoRespetado, ContratacionFinal DEF ContratacionesFirmes

----------------------------------------------------------------------------
(* One contract per person. *)

(* Every step keeps the hired bound to one employee each, and one per person. *)
LEMMA PersonasPaso ==
  IInv /\ ContratacionUnica /\ [Next]_vars => ContratacionUnica'
<1> SUFFICES ASSUME IInv, ContratacionUnica, [Next]_vars
             PROVE  ContratacionUnica'
  OBVIOUS
<1> USE DEF ContratacionUnica
<1>1. empleados \subseteq empleados'
  BY PorPasos, LecturaFresca
     DEF IInv, Escribe, Revierte, DeUnPaso, Entorno, vars, tablas, Banco,
         Vence, CrearVacante, AltaEmpleado, EscribeActualizar,
         EscribeTransicion, EscribeEliminar, EscribePostular, EscribeAsociar,
         Inserta, CambiarEtapa, Rechazar, Mueve, EscribeContratar
<1>2. CASE \E r \in Peticiones : EscribeContratar(r)
  <2>1. PICK r \in Peticiones : EscribeContratar(r)
    BY <1>2
  <2>2. PICK v \in Vacantes, p \in Postulaciones :
          /\ p = <<peticion[r].v, peticion[r].c>>
          /\ postulacion'[p] = Fila("CONTRATADA", "contratado", FALSE,
               [ci |-> peticion[r].c, codigo |-> peticion[r].k])
          /\ \A q \in Postulaciones \ {p} : postulacion'[q] = postulacion[q]
    BY <2>1, ContrataUna
  <2>3. /\ postulacion'[p].empleado \in empleados'
        /\ postulacion'[p].empleado.ci = p[2]
    BY <2>1, <2>2 DEF EscribeContratar, Fila
  <2>4. ASSUME NEW q \in Postulaciones, postulacion[q].estado = "CONTRATADA"
        PROVE  q[2] # p[2]
    BY <2>1, <2>2, <2>4 DEF EscribeContratar, CiLibre, ContratadaConEmpleado
  <2>5. ContratadaConEmpleado'
    BY ZenonT(60), <1>1, <2>2, <2>3 DEF ContratadaConEmpleado
  <2>6. UnaContratacionPorPersona'
    BY <2>2, <2>4 DEF UnaContratacionPorPersona
  <2>7. UnEmpleadoPorPersona'
    BY <2>1 DEF EscribeContratar, CiLibre, UnEmpleadoPorPersona
  <2> QED
    BY <2>5, <2>6, <2>7
<1>3. CASE ~ \E r \in Peticiones : EscribeContratar(r)
  <2>1. \A p \in Postulaciones :
          /\ postulacion'[p].estado = "CONTRATADA"
               <=> postulacion[p].estado = "CONTRATADA"
          /\ postulacion[p].estado = "CONTRATADA"
               => postulacion'[p] = postulacion[p]
    BY <1>3, SoloContratarContrata
  <2>2. ContratadaConEmpleado'
    BY <1>1, <2>1 DEF ContratadaConEmpleado
  <2>3. UnaContratacionPorPersona'
    BY <2>1 DEF UnaContratacionPorPersona
  <2>4. ASSUME NEW ci \in Postulantes, NEW k \in Codigos, AltaEmpleado(ci, k)
        PROVE  UnEmpleadoPorPersona'
    BY <2>4 DEF AltaEmpleado, CiLibre, UnEmpleadoPorPersona
  <2>5. \/ UNCHANGED empleados
        \/ \E ci \in Postulantes, k \in Codigos : AltaEmpleado(ci, k)
    BY <1>3, PorPasos, LecturaFresca
       DEF IInv, Escribe, Revierte, DeUnPaso, Entorno, vars, tablas,
           Banco, Vence, CrearVacante, EscribeActualizar, EscribeTransicion,
           EscribeEliminar, EscribePostular, EscribeAsociar, Inserta,
           CambiarEtapa, Rechazar, Mueve
  <2>6. UnEmpleadoPorPersona'
    BY <2>4, <2>5 DEF UnEmpleadoPorPersona
  <2> QED
    BY <2>2, <2>3, <2>6
<1> QED
  BY <1>2, <1>3

(* A hired application names an existing employee, who is that candidate, a *)
(* candidate is hired through one application only, and no person is two    *)
(* employees, whatever hiring, accounts and imports insert.                 *)
THEOREM UnaPorPersona == Spec => []ContratacionUnica
<1>1. Init => ContratacionUnica
  BY DEF Init, ContratacionUnica, ContratadaConEmpleado, SinPostular, Fila,
         UnaContratacionPorPersona, UnEmpleadoPorPersona
<1> QED
  BY <1>1, Invariante, PersonasPaso, PTL DEF Spec

----------------------------------------------------------------------------
(* The board. *)

(* Every step writes at most one application, and leaves it agreeing with   *)
(* itself: what the board moves had no employee, and a hiring names one.    *)
LEMMA TableroPaso ==
  IInv /\ TableroCoherente /\ [Next]_vars => TableroCoherente'
<1> SUFFICES ASSUME IInv, TableroCoherente, [Next]_vars
             PROVE  TableroCoherente'
  OBVIOUS
<1> USE DEF IInv
<1> DEFINE Acorde(f) ==
      /\ f.estado = "ACTIVA" <=> f.estado # "NO_CREADA" /\ f.etapa = "abierta"
      /\ f.estado = "DESCARTADA" <=> f.etapa = "rechazado"
      /\ f.estado = "CONTRATADA" <=> f.etapa = "contratado"
      /\ f.motivo <=> f.estado = "DESCARTADA"
      /\ f.empleado # Ninguno <=> f.estado = "CONTRATADA"
<1>1. ASSUME NEW p \in Postulaciones, NEW f,
             postulacion' = [postulacion EXCEPT ![p] = f], Acorde(f)
      PROVE  TableroCoherente'
  BY <1>1 DEF TableroCoherente, TypeOK, Postulo
<1>2. CASE \E r \in Peticiones : EscribePostular(r) \/ EscribeAsociar(r)
  <2>1. PICK r \in Peticiones : EscribePostular(r) \/ EscribeAsociar(r)
    BY <1>2
  <2>2. peticion[r].v \in Vacantes /\ peticion[r].c \in Postulantes
    BY <2>1 DEF EscribePostular, EscribeAsociar, En, TypeOK, Peticion, Reposo,
                Transiciones
  <2>3. PICK p \in Postulaciones :
          postulacion' = [postulacion EXCEPT ![p] = Nueva]
    BY <2>1, <2>2 DEF EscribePostular, EscribeAsociar, Inserta, Postulaciones
  <2>4. Acorde(Nueva)
    BY DEF Nueva, Fila
  <2> QED
    BY <1>1, <2>3, <2>4
<1>3. CASE \E p \in Postulaciones : CambiarEtapa(p) \/ Rechazar(p)
  <2>1. PICK p \in Postulaciones : CambiarEtapa(p) \/ Rechazar(p)
    BY <1>3
  <2>2. postulacion[p].empleado = Ninguno
    BY <2>1 DEF CambiarEtapa, Rechazar, Mueve, Movible, TableroCoherente
  <2>3. /\ Acorde(Fila("ACTIVA", "abierta", FALSE, Ninguno))
        /\ Acorde(Fila("DESCARTADA", "rechazado", TRUE, Ninguno))
    BY DEF Fila
  <2>4. \/ postulacion' = [postulacion EXCEPT ![p] =
             Fila("ACTIVA", "abierta", FALSE, Ninguno)]
        \/ postulacion' = [postulacion EXCEPT ![p] =
             Fila("DESCARTADA", "rechazado", TRUE, Ninguno)]
    BY <2>1, <2>2 DEF CambiarEtapa, Rechazar, Mueve
  <2> QED
    BY <1>1, <2>3, <2>4
<1>4. CASE \E r \in Peticiones : EscribeContratar(r)
  <2>1. PICK r \in Peticiones : EscribeContratar(r)
    BY <1>4
  <2>2. PICK e : e = [ci |-> peticion[r].c, codigo |-> peticion[r].k]
    OBVIOUS
  <2>3. <<peticion[r].v, peticion[r].c>> \in Postulaciones /\ e # Ninguno
    BY <2>1, <2>2, TipoContratar, NingunoNoEsEmpleado DEF EscribeContratar
  <2>4. postulacion' = [postulacion EXCEPT ![<<peticion[r].v, peticion[r].c>>] =
          Fila("CONTRATADA", "contratado", FALSE, e)]
    BY <2>1, <2>2 DEF EscribeContratar
  <2>5. Acorde(Fila("CONTRATADA", "contratado", FALSE, e))
    BY <2>3 DEF Fila
  <2> QED
    BY <1>1, <2>3, <2>4, <2>5
<1>5. CASE UNCHANGED postulacion
  BY <1>5 DEF TableroCoherente, Postulo
<1>6. \/ UNCHANGED postulacion
      \/ \E r \in Peticiones : EscribePostular(r) \/ EscribeAsociar(r)
      \/ \E p \in Postulaciones : CambiarEtapa(p) \/ Rechazar(p)
      \/ \E r \in Peticiones : EscribeContratar(r)
  BY PorPasos, LecturaFresca
     DEF Escribe, Revierte, DeUnPaso, Entorno, vars, tablas, Banco, Vence,
         CrearVacante, AltaEmpleado, EscribeActualizar, EscribeTransicion,
         EscribeEliminar
<1> QED
  BY <1>2, <1>3, <1>4, <1>5, <1>6

(* No order of board moves, rejections, hirings and deletions of vacancies  *)
(* leaves an application whose stage, state, reason and employee disagree,  *)
(* or whose vacancy is gone.                                                *)
THEOREM TableroSiempreCoherente == Spec => []PostulacionesCoherentes
<1>1. Init => TableroCoherente
  BY DEF Init, TableroCoherente, Postulo, SinPostular, Fila
<1>2. Spec => []TableroCoherente
  BY <1>1, Invariante, TableroPaso, PTL DEF Spec
<1>3. IInv /\ TableroCoherente => PostulacionesCoherentes
  BY DEF IInv, PostulacionesCoherentes
<1> QED
  BY <1>2, <1>3, Invariante, PTL

----------------------------------------------------------------------------
(* The component implements the book of contracts. *)

(* Initially the book has no contract.                                      *)
LEMMA LibroInicial == Init => Libro!Init
<1> SUFFICES ASSUME Init
             PROVE  Libro!Init
  OBVIOUS
<1>1. [v \in Vacantes |-> vacante[v].cantidad] \in [Vacantes -> Cupos]
  BY DEF Init, Vacante
<1>2. {p \in Postulaciones : postulacion[p].estado = "CONTRATADA"} = {}
  BY DEF Init, SinPostular, Fila
<1> QED
  BY <1>1, <1>2 DEF Libro!Init

(* A step of the component is a step of the book, or leaves it alone.       *)
LEMMA LibroPaso ==
  ASSUME IInv, ContratacionUnica, [Next]_vars
  PROVE  [Libro!Next]_(Libro!libro)
<1> USE DEF IInv
<1> DEFINE cupoL == [v \in Vacantes |-> vacante[v].cantidad]
           hechas == {p \in Postulaciones : postulacion[p].estado = "CONTRATADA"}
<1>1. CASE \E r \in Peticiones : EscribeContratar(r)
  <2>1. PICK r \in Peticiones : EscribeContratar(r)
    BY <1>1
  <2>2. PICK v \in Vacantes, p \in Postulaciones :
          /\ p[1] = v /\ p = <<peticion[r].v, peticion[r].c>>
          /\ postulacion'[p] = Fila("CONTRATADA", "contratado", FALSE,
               [ci |-> peticion[r].c, codigo |-> peticion[r].k])
          /\ \A q \in Postulaciones \ {p} : postulacion'[q] = postulacion[q]
          /\ \A w \in Vacantes : vacante'[w].cantidad = vacante[w].cantidad
          /\ Cardinality(Contratadas(v)) < vacante[v].cantidad
    BY <2>1, ContrataUna
  <2>3. PICK c \in Postulantes : p = <<v, c>> /\ c = peticion[r].c
    BY <2>2 DEF Postulaciones
  <2>4. \A q \in hechas : q[2] # c
    BY <2>1, <2>2, <2>3 DEF EscribeContratar, CiLibre, ContratacionUnica,
                            ContratadaConEmpleado
  <2>5. {q \in hechas : q[1] = v} = Contratadas(v)
    BY DEF Contratadas
  <2>6. hechas' = hechas \cup {<<v, c>>}
    BY <2>2, <2>3 DEF Fila
  <2>7. cupoL' = cupoL
    BY <2>2
  <2>8. Libro!Contrata(v, c)
    <3>1. Libro!Cardinality(Libro!Plazas(v)) = Cardinality(Contratadas(v))
      BY <2>5 DEF Libro!Plazas, Libro!Cardinality, Cardinality
    <3> QED
      BY <2>2, <2>4, <2>6, <2>7, <3>1 DEF Libro!Contrata
  <2> QED
    BY <2>8 DEF Libro!Next
<1>2. CASE ~ \E r \in Peticiones : EscribeContratar(r)
  <2>1. hechas' = hechas
    BY <1>2, SoloContratarContrata
  <2>2. CASE cupoL' = cupoL
    BY <2>1, <2>2 DEF Libro!libro
  <2>3. CASE cupoL' # cupoL
    <3>1. \E v \in Vacantes, n \in Cupos :
            /\ vacante'[v].cantidad = n
            /\ \A w \in Vacantes \ {v} : vacante'[w] = vacante[w]
      <4>1. \/ \E r \in Peticiones : EscribeActualizar(r)
            \/ \E v \in Vacantes, n \in Cupos, b \in BOOLEAN : CrearVacante(v, n, b)
        <5>1. ASSUME NEW r \in Peticiones, EscribeTransicion(r) \/ EscribeEliminar(r)
              PROVE  FALSE
          BY <2>3, <5>1 DEF EscribeTransicion, EscribeEliminar, TypeOK, Vacante
        <5>2. ASSUME NEW v \in Vacantes, Vence(v)
              PROVE  FALSE
          BY <2>3, <5>2 DEF Vence, TypeOK, Vacante
        <5>3. vacante' # vacante
          BY <2>3
        <5> QED
          BY <1>2, <5>1, <5>2, <5>3, PorPasos, LecturaFresca
             DEF Escribe, Revierte, DeUnPaso, Entorno, vars, tablas, Banco,
                 AltaEmpleado, EscribePostular, EscribeAsociar, Inserta,
                 CambiarEtapa, Rechazar, Mueve
      <4>2. ASSUME NEW r \in Peticiones, EscribeActualizar(r)
            PROVE  /\ peticion[r].v \in Vacantes /\ peticion[r].cantidad \in Cupos
                   /\ vacante'[peticion[r].v].cantidad = peticion[r].cantidad
                   /\ \A w \in Vacantes \ {peticion[r].v} : vacante'[w] = vacante[w]
        BY <4>2 DEF EscribeActualizar, En, TypeOK, Vacante, Peticion, Reposo,
                    Transiciones
      <4> QED
        BY <4>1, <4>2 DEF CrearVacante, TypeOK
    <3>2. PICK v \in Vacantes, n \in Cupos :
            /\ vacante'[v].cantidad = n
            /\ \A w \in Vacantes \ {v} : vacante'[w] = vacante[w]
      BY <3>1
    <3>3. cupoL' = [cupoL EXCEPT ![v] = n]
      BY <3>2
    <3>4. Libro!FijaCupo(v, n)
      BY <2>1, <3>3 DEF Libro!FijaCupo
    <3> QED
      BY <3>2, <3>4 DEF Libro!Next
  <2> QED
    BY <2>2, <2>3
<1> QED
  BY <1>1, <1>2

(* The requests of the component, with all their races, are steps or        *)
(* stutters of the book: one contract per person, never more contracts than *)
(* places when one is struck, no contract undone.                           *)
THEOREM ImplementaLibro == Spec => LibroSpec
<1>1. Init => ContratacionUnica
  BY DEF Init, ContratacionUnica, ContratadaConEmpleado, SinPostular, Fila,
         UnaContratacionPorPersona, UnEmpleadoPorPersona
<1> QED
  BY <1>1, LibroInicial, LibroPaso, Invariante, PersonasPaso, PTL
     DEF Spec, LibroSpec, Libro!Spec
=============================================================================
