-------------------------- MODULE RespaldosProofs --------------------------
(***************************************************************************)
(* Proofs about the backups, for any companies, workers, requests, rows,   *)
(* files and backups: the queue of the company backups (RespaldosEmpresa), *)
(* the restore of a company (RestauracionEmpresa, here R!) and the backups *)
(* of the whole system (RespaldoGlobal, here G!).                          *)
(*                                                                         *)
(* The queue.  However slow a worker is, a planner that found no copy of   *)
(* its day holds the row of its company until it queues one (IInvCola).    *)
(* While no live worker needs six hours for a job (Puntual), a job in      *)
(* progress has one worker, that knows what was uploaded for it (Vivo,     *)
(* Sustituida); so what is COMPLETADO has its object (CopiaIntegra), the   *)
(* newest copy of a company is never the one that expires (TieneUltima),   *)
(* and a company being restored has no job in progress (Quieta).           *)
(*                                                                         *)
(* The restore.  A package has the file of every row in it; one request at *)
(* a time writes or puts back files, and those it will remove belong to no *)
(* row (Retorno); the rows a restore takes away are in its safety copy.    *)
(*                                                                         *)
(* The whole system.  A restore runs alone (Sola), and between rmtree and  *)
(* copytree it carries the files of the rows it put back (EnManos).        *)
(***************************************************************************)
EXTENDS MCRespaldos, SequenceTheorems, TLAPS

----------------------------------------------------------------------------
(* The queue.  What holds however slow a worker is. *)

(* A job that can be claimed has a claim left; one that has none is with a  *)
(* worker, which Muere does not take (MaxIntentos bounds the model).        *)
Acotado ==
  \A j \in DOMAIN trabajo : LET t == trabajo[j] IN
    /\ t.estado = "PENDIENTE" => t.intentos < MaxIntentos
    /\ t.estado = "PROCESANDO" /\ t.vencido => t.intentos < MaxIntentos
    /\ t.estado = "PROCESANDO" /\ t.intentos = MaxIntentos =>
         \E w \in Obreros : Trabaja(w, j)

(* A worker has a job that exists.                                          *)
Asignado == \A w \in Obreros : ~ Hace(w, "ocioso") => Existe(obrero[w].j)

(* The row of a company is locked by one request at most.                   *)
Bloquea(p) == peticion[p].op \in {"planificar", "restaurar"}
Cerrojo ==
  \A p, q \in Peticiones :
    Bloquea(p) /\ Bloquea(q) /\ peticion[p].e = peticion[q].e => p = q

(* A planner found no automatic copy of its day.                            *)
SinRepetir ==
  \A p \in Peticiones : En(p, "planificar") =>
    \A j \in De(peticion[p].e) :
      ~ (trabajo[j].origen = "AUTO" /\ trabajo[j].dia = peticion[p].dia)

IInvCola ==
  TypeOK /\ Acotado /\ Asignado /\ Cerrojo /\ SinRepetir /\ UnaAutoPorDia

(* What holds when no live worker is taken for dead.                        *)

(* A live worker is the only one with its job, and what it uploaded is what *)
(* is in the store.                                                         *)
Vivo ==
  \A w \in Obreros, j \in Ids : Trabaja(w, j) =>
    /\ Esta(j, "PROCESANDO") /\ ~ trabajo[j].vencido
    /\ Hace(w, "registra") => objeto[j] = obrero[w].sha
    /\ \A v \in Obreros : Trabaja(v, j) => v = w

(* What expires has a newer copy, still when it is written.                 *)
Expira(w) == Hace(w, "borra") \/ Hace(w, "expira")
Sustituida ==
  \A w \in Obreros : Expira(w) =>
    LET j == obrero[w].j IN
    /\ Esta(j, "COMPLETADO") \/ Esta(j, "EXPIRADO")
    /\ HayNueva(j)

(* Among the complete copies of a company one is the newest.                *)
Ultima(j) == Esta(j, "COMPLETADO") /\ ~ HayNueva(j)
TieneUltima ==
  \A j \in DOMAIN trabajo : Esta(j, "COMPLETADO") =>
    \E k \in De(trabajo[j].empresa) : Ultima(k)

(* A restore that holds the company found no active job, and none comes.    *)
Quieta ==
  \A p \in Peticiones : En(p, "restaurar") => SinActivos(peticion[p].e)

IInvPuntual ==
  IInvCola /\ Vivo /\ Sustituida /\ TieneUltima /\ CopiaIntegra /\ Quieta

----------------------------------------------------------------------------
(* What the rows and the workers are made of. *)

LEMMA DelTrabajo ==
  ASSUME TypeOK
  PROVE  /\ Len(trabajo) \in Nat /\ DOMAIN trabajo = 1 .. Len(trabajo)
         /\ DOMAIN trabajo \subseteq Ids
         /\ \A j \in DOMAIN trabajo :
              /\ trabajo[j] \in Trabajo
              /\ trabajo[j].empresa \in Empresas
              /\ trabajo[j].dia \in Nat /\ trabajo[j].intentos \in Sumas
              /\ trabajo[j].sha \in Sumas
<1>1. /\ Len(trabajo) \in Nat /\ Len(trabajo) <= MaxTrabajos
      /\ DOMAIN trabajo = 1 .. Len(trabajo)
      /\ \A j \in 1 .. Len(trabajo) : trabajo[j] \in Trabajo
  BY DEF TypeOK
<1>2. \A t \in Trabajo : /\ t.empresa \in Empresas /\ t.dia \in Nat
                         /\ t.intentos \in Sumas /\ t.sha \in Sumas
  BY DEF Trabajo, Dias
<1> QED
  BY <1>1, <1>2, CotasRespaldo DEF Ids

LEMMA DelObrero ==
  ASSUME TypeOK, NEW w \in Obreros
  PROVE  /\ obrero[w] \in Obrero
         /\ obrero[w].paso \in
              {"ocioso", "empaca", "registra", "borra", "expira"}
         /\ Hace(w, "ocioso") => obrero[w] = Ocioso
         /\ Hace(w, "empaca") \/ Hace(w, "registra") =>
              /\ obrero[w].j \in Ids /\ obrero[w].sha \in Sumas
              /\ obrero[w] \in [paso : {"empaca", "registra"}, j : Ids,
                                sha : Sumas]
         /\ Expira(w) =>
              /\ obrero[w].j \in Ids
              /\ obrero[w] \in [paso : {"borra", "expira"}, j : Ids]
BY DEF TypeOK, Obrero, Ocioso, Hace, Expira

LEMMA DeLaPeticion ==
  ASSUME TypeOK, NEW p \in Peticiones
  PROVE  /\ peticion[p] \in Peticion
         /\ peticion[p].op \in
              {"libre", "planificar", "copia", "copiada", "restaurar"}
         /\ En(p, "libre") => peticion[p] = Reposo
         /\ ~ En(p, "libre") => peticion[p].e \in Empresas
         /\ En(p, "planificar") \/ En(p, "copia") => peticion[p].dia \in Dias
BY DEF TypeOK, Peticion, Reposo, En

(* A new row goes at the end.                                               *)
Nueva == Len(trabajo) + 1
Alta(t) == Len(trabajo) < MaxTrabajos /\ trabajo' = Append(trabajo, t)

LEMMA TrasAlta ==
  ASSUME TypeOK, NEW t \in Trabajo, Alta(t)
  PROVE  /\ trabajo' \in Seq(Trabajo) /\ Len(trabajo') <= MaxTrabajos
         /\ Nueva \in Ids /\ Nueva \notin DOMAIN trabajo
         /\ DOMAIN trabajo' = DOMAIN trabajo \cup {Nueva}
         /\ \A k \in DOMAIN trabajo : trabajo'[k] = trabajo[k]
         /\ trabajo'[Nueva] = t
<1>1. trabajo \in Seq(Trabajo)
  BY DEF TypeOK
<1>2. /\ trabajo' \in Seq(Trabajo) /\ Len(trabajo') = Len(trabajo) + 1
      /\ \A k \in 1 .. Len(trabajo) : trabajo'[k] = trabajo[k]
      /\ trabajo'[Len(trabajo) + 1] = t
  BY <1>1 DEF Alta
<1>3. DOMAIN trabajo' = 1 .. Len(trabajo')
  BY <1>2
<1> QED
  BY <1>2, <1>3, DelTrabajo, CotasRespaldo DEF Ids, Nueva, Alta

LEMMA DeInserta ==
  ASSUME NEW e \in Empresas, NEW origen \in {"AUTO", "MANUAL"},
         NEW d \in Dias, NEW estado \in {"PENDIENTE", "COMPLETADO"},
         NEW n \in Sumas, Inserta(e, origen, d, estado, n)
  PROVE  \E t \in Trabajo :
           /\ t = [empresa |-> e, origen |-> origen, dia |-> d,
                   estado |-> estado, intentos |-> n, vencido |-> FALSE,
                   sha |-> n]
           /\ Alta(t)
<1> DEFINE t == [empresa |-> e, origen |-> origen, dia |-> d,
                 estado |-> estado, intentos |-> n, vencido |-> FALSE,
                 sha |-> n]
<1>1. t \in Trabajo
  BY DEF Trabajo
<1> QED
  BY <1>1 DEF Inserta, Alta

(* The other writes change the state of one row, or of some, and never its  *)
(* company, its origin or its day.                                          *)
Mismas ==
  /\ trabajo' \in Seq(Trabajo) /\ Len(trabajo') = Len(trabajo)
  /\ DOMAIN trabajo' = DOMAIN trabajo
  /\ \A j \in DOMAIN trabajo :
       /\ trabajo'[j].empresa = trabajo[j].empresa
       /\ trabajo'[j].origen = trabajo[j].origen
       /\ trabajo'[j].dia = trabajo[j].dia

LEMMA Cambio ==
  ASSUME TypeOK, NEW j \in DOMAIN trabajo, NEW t \in Trabajo,
         t.empresa = trabajo[j].empresa, t.origen = trabajo[j].origen,
         t.dia = trabajo[j].dia,
         trabajo' = [trabajo EXCEPT ![j] = t]
  PROVE  /\ Mismas /\ trabajo'[j] = t
         /\ \A k \in DOMAIN trabajo : k # j => trabajo'[k] = trabajo[k]
BY DEF TypeOK, Mismas

(* A claim: the worker has one job, and gives back every other one that was *)
(* taken for dead.                                                          *)
Reclamado(w, j) ==
  /\ Reclamable(j)
  /\ obrero' = [obrero EXCEPT ![w] =
       [paso |-> "empaca", j |-> j, sha |-> trabajo[j].intentos + 1]]
  /\ trabajo[j].intentos + 1 \in Sumas
  /\ trabajo'[j] = [trabajo[j] EXCEPT !.estado = "PROCESANDO",
                                      !.intentos = trabajo[j].intentos + 1,
                                      !.vencido = FALSE]
  /\ \A k \in DOMAIN trabajo : k # j =>
       trabajo'[k] = IF Reclamable(k)
                     THEN [trabajo[k] EXCEPT !.estado = "PENDIENTE",
                                             !.vencido = FALSE]
                     ELSE trabajo[k]

LEMMA AlReclamar ==
  ASSUME TypeOK, Acotado, NEW w \in Obreros, Reclama(w)
  PROVE  /\ Mismas
         /\ \E j \in DOMAIN trabajo : Reclamado(w, j)
         /\ UNCHANGED <<hoy, objeto, peticion>>
<1>0. PICK j \in DOMAIN trabajo :
      /\ Reclamable(j)
      /\ trabajo' = [k \in DOMAIN trabajo |->
            IF k = j
            THEN [trabajo[j] EXCEPT !.estado = "PROCESANDO",
                                    !.intentos = trabajo[j].intentos + 1,
                                    !.vencido = FALSE]
            ELSE IF Reclamable(k)
            THEN [trabajo[k] EXCEPT !.estado = "PENDIENTE", !.vencido = FALSE]
            ELSE trabajo[k]]
      /\ obrero' = [obrero EXCEPT ![w] =
            [paso |-> "empaca", j |-> j, sha |-> trabajo[j].intentos + 1]]
  BY DEF Reclama
<1>1. trabajo[j].intentos + 1 \in Sumas
  <2>1. trabajo[j].intentos < MaxIntentos
    BY <1>0 DEF Acotado, Reclamable, Esta
  <2>2. trabajo[j].intentos \in Sumas
    BY DelTrabajo
  <2> QED
    BY <2>1, <2>2, CotasRespaldo DEF Sumas
<1>2. \A k \in DOMAIN trabajo :
        /\ trabajo'[k] \in Trabajo
        /\ trabajo'[k].empresa = trabajo[k].empresa
        /\ trabajo'[k].origen = trabajo[k].origen
        /\ trabajo'[k].dia = trabajo[k].dia
  BY <1>0, <1>1, DelTrabajo DEF Trabajo
<1>3. Mismas
  <2>1. DOMAIN trabajo' = 1 .. Len(trabajo)
    BY <1>0, DelTrabajo
  <2>2. trabajo' \in [1 .. Len(trabajo) -> Trabajo]
    BY <1>0, <1>2, <2>1, DelTrabajo
  <2>3. trabajo' \in Seq(Trabajo)
    BY <2>2, DelTrabajo, SeqDef
  <2>4. Len(trabajo') = Len(trabajo)
    BY <2>1, <2>3, DelTrabajo, LenProperties
  <2> QED
    BY <1>2, <2>1, <2>3, <2>4, DelTrabajo DEF Mismas
<1>4. Reclamado(w, j)
  BY <1>0, <1>1 DEF Reclamado
<1> QED
  BY <1>3, <1>4 DEF Reclama

(* The end of a job and of an expiry, and six hours, write one row.         *)
LEMMA AlRegistrar ==
  ASSUME TypeOK, NEW w \in Obreros, Registra(w), Existe(obrero[w].j)
  PROVE  LET j == obrero[w].j IN
         /\ Mismas
         /\ trabajo'[j] = [trabajo[j] EXCEPT !.estado = "COMPLETADO",
                                             !.sha = obrero[w].sha]
         /\ \A k \in DOMAIN trabajo : k # j => trabajo'[k] = trabajo[k]
         /\ Descansa(w) /\ UNCHANGED <<hoy, objeto, peticion>>
<1> DEFINE j == obrero[w].j
           t == [trabajo[j] EXCEPT !.estado = "COMPLETADO",
                                   !.sha = obrero[w].sha]
<1>1. obrero[w].sha \in Sumas /\ j \in DOMAIN trabajo
  BY DelObrero DEF Registra, Existe
<1>2. t \in Trabajo
  BY <1>1, DelTrabajo DEF Trabajo
<1>3. /\ t.empresa = trabajo[j].empresa /\ t.origen = trabajo[j].origen
      /\ t.dia = trabajo[j].dia
  BY <1>1, DelTrabajo DEF Trabajo
<1>4. trabajo' = [trabajo EXCEPT ![j] = t]
  BY <1>1 DEF Registra, TypeOK
<1> HIDE DEF t
<1>5. /\ Mismas /\ trabajo'[j] = t
      /\ \A k \in DOMAIN trabajo : k # j => trabajo'[k] = trabajo[k]
  BY <1>1, <1>2, <1>3, <1>4, Cambio
<1> QED
  BY <1>5 DEF t, Registra

SinOtros(j) ==
  \A k \in De(trabajo[j].empresa) : k # j => ~ Activo(k)

LEMMA AlFallar ==
  ASSUME TypeOK, NEW w \in Obreros, Falla(w), Existe(obrero[w].j)
  PROVE  LET j == obrero[w].j
             estado == TrasFallo(trabajo[j].intentos)
         IN
         /\ Mismas
         /\ \/ trabajo' = trabajo /\ estado = "PENDIENTE"
            \/ /\ trabajo'[j] = [trabajo[j] EXCEPT !.estado = estado]
               /\ estado = "PENDIENTE" => SinOtros(j)
         /\ \A k \in DOMAIN trabajo : k # j => trabajo'[k] = trabajo[k]
         /\ Descansa(w) /\ UNCHANGED <<hoy, objeto, peticion>>
<1> DEFINE j == obrero[w].j
           estado == TrasFallo(trabajo[j].intentos)
           t == [trabajo[j] EXCEPT !.estado = estado]
<1>1. j \in DOMAIN trabajo
  BY DEF Existe
<1>2. CASE trabajo' = trabajo /\ estado = "PENDIENTE"
  BY <1>1, <1>2 DEF Falla, Mismas, TypeOK
<1>3. CASE /\ trabajo' = [trabajo EXCEPT ![j].estado = estado]
           /\ estado = "PENDIENTE" => SinOtros(j)
  <2>1. estado \in {"PENDIENTE", "FALLIDO"}
    BY DEF TrasFallo
  <2>2. t \in Trabajo
    BY <1>1, <2>1, DelTrabajo DEF Trabajo
  <2>3. /\ t.empresa = trabajo[j].empresa /\ t.origen = trabajo[j].origen
        /\ t.dia = trabajo[j].dia
    BY <1>1, DelTrabajo DEF Trabajo
  <2>4. trabajo' = [trabajo EXCEPT ![j] = t]
    BY <1>1, <1>3 DEF TypeOK
  <2> HIDE DEF t, estado
  <2>5. /\ Mismas /\ trabajo'[j] = t
        /\ \A k \in DOMAIN trabajo : k # j => trabajo'[k] = trabajo[k]
    BY <1>1, <2>2, <2>3, <2>4, Cambio
  <2> QED
    BY <1>3, <2>5 DEF t, estado, Falla
<1> QED
  BY <1>2, <1>3 DEF Falla, SinOtros

LEMMA AlExpirar ==
  ASSUME TypeOK, NEW w \in Obreros, EscribeExpirar(w), Existe(obrero[w].j)
  PROVE  LET j == obrero[w].j IN
         /\ Mismas
         /\ trabajo'[j] = [trabajo[j] EXCEPT !.estado = "EXPIRADO"]
         /\ \A k \in DOMAIN trabajo : k # j => trabajo'[k] = trabajo[k]
         /\ Descansa(w) /\ UNCHANGED <<hoy, objeto, peticion>>
<1> DEFINE j == obrero[w].j
           t == [trabajo[j] EXCEPT !.estado = "EXPIRADO"]
<1>1. j \in DOMAIN trabajo
  BY DEF Existe
<1>2. t \in Trabajo
  BY <1>1, DelTrabajo DEF Trabajo
<1>3. /\ t.empresa = trabajo[j].empresa /\ t.origen = trabajo[j].origen
      /\ t.dia = trabajo[j].dia
  BY <1>1, DelTrabajo DEF Trabajo
<1>4. trabajo' = [trabajo EXCEPT ![j] = t]
  BY <1>1 DEF EscribeExpirar, TypeOK
<1> HIDE DEF t
<1>5. /\ Mismas /\ trabajo'[j] = t
      /\ \A k \in DOMAIN trabajo : k # j => trabajo'[k] = trabajo[k]
  BY <1>1, <1>2, <1>3, <1>4, Cambio
<1> QED
  BY <1>5 DEF t, EscribeExpirar

LEMMA TrasSeisHoras ==
  ASSUME TypeOK, NEW j \in Ids, SeisHoras(j)
  PROVE  /\ j \in DOMAIN trabajo /\ Mismas
         /\ trabajo'[j] = [trabajo[j] EXCEPT !.vencido = TRUE]
         /\ \A k \in DOMAIN trabajo : k # j => trabajo'[k] = trabajo[k]
         /\ UNCHANGED <<hoy, objeto, obrero, peticion>>
<1> DEFINE t == [trabajo[j] EXCEPT !.vencido = TRUE]
<1>1. j \in DOMAIN trabajo
  BY DEF SeisHoras, Esta, Existe
<1>2. t \in Trabajo
  BY <1>1, DelTrabajo DEF Trabajo
<1>3. /\ t.empresa = trabajo[j].empresa /\ t.origen = trabajo[j].origen
      /\ t.dia = trabajo[j].dia
  BY <1>1, DelTrabajo DEF Trabajo
<1>4. trabajo' = [trabajo EXCEPT ![j] = t]
  BY <1>1 DEF SeisHoras, TypeOK
<1> HIDE DEF t
<1>5. /\ Mismas /\ trabajo'[j] = t
      /\ \A k \in DOMAIN trabajo : k # j => trabajo'[k] = trabajo[k]
  BY <1>1, <1>2, <1>3, <1>4, Cambio
<1> QED
  BY <1>1, <1>5 DEF t, SeisHoras

----------------------------------------------------------------------------
(* The invariant of the queue, whatever the workers do. *)

(* What a step keeps that writes no row, or that changes states alone.      *)
LEMMA FilasIguales ==
  ASSUME IInvCola, Mismas \/ UNCHANGED trabajo, UNCHANGED peticion
  PROVE  Cerrojo' /\ SinRepetir' /\ UnaAutoPorDia'
<1>1. /\ DOMAIN trabajo' = DOMAIN trabajo
      /\ \A j \in DOMAIN trabajo :
           /\ trabajo'[j].empresa = trabajo[j].empresa
           /\ trabajo'[j].origen = trabajo[j].origen
           /\ trabajo'[j].dia = trabajo[j].dia
  BY DEF Mismas
<1> QED
  BY <1>1 DEF IInvCola, Cerrojo, Bloquea, SinRepetir, UnaAutoPorDia, De, En

LEMMA ColaInit == Init => IInvCola
<1> SUFFICES ASSUME Init PROVE IInvCola
  OBVIOUS
<1>1. TypeOK
  <2>1. /\ hoy \in Dias /\ 0 \in Sumas
    BY CotasRespaldo DEF Init, Dias, Sumas
  <2>2. trabajo \in Seq(Trabajo) /\ Len(trabajo) <= MaxTrabajos
    BY CotasRespaldo DEF Init
  <2> QED
    BY <2>1, <2>2 DEF Init, TypeOK, Obrero, Peticion
<1>2. DOMAIN trabajo = {}
  BY DEF Init
<1> QED
  BY <1>1, <1>2 DEF Init, IInvCola, Acotado, Asignado, Cerrojo, Bloquea,
     SinRepetir, UnaAutoPorDia, Hace, En, Ocioso, Reposo

(* The reads and the ends of planners and restores.                         *)
LEMMA ColaPeticiones ==
  ASSUME IInvCola, NEW p \in Peticiones,
         \/ \E e \in Empresas :
              LeeCopia(p, e) \/ \E d \in Dias : LeePlanificar(p, e, d)
         \/ LeeRestaurar(p) \/ EscribeRestaurar(p) \/ Revierte(p)
  PROVE  IInvCola'
<1> USE DEF IInvCola
<1>1. UNCHANGED <<hoy, trabajo, objeto, obrero>>
  BY DEF LeeCopia, LeePlanificar, LeeRestaurar, EscribeRestaurar, Revierte
<1>2. PICK m \in Peticion :
        /\ Pasa(p, m)
        /\ m.op \in {"planificar", "restaurar"} => EmpresaLibre(m.e)
        /\ m.op = "planificar" =>
             \A j \in De(m.e) :
               ~ (trabajo[j].origen = "AUTO" /\ trabajo[j].dia = m.dia)
  <2>1. CASE \E e \in Empresas : LeeCopia(p, e)
    <3> PICK e \in Empresas : LeeCopia(p, e)
      BY <2>1
    <3> DEFINE m == [op |-> "copia", e |-> e, dia |-> hoy]
    <3>1. m \in Peticion
      BY DEF Peticion, TypeOK
    <3> QED
      BY <3>1 DEF LeeCopia
  <2>2. CASE \E e \in Empresas, d \in Dias : LeePlanificar(p, e, d)
    <3> PICK e \in Empresas, d \in Dias : LeePlanificar(p, e, d)
      BY <2>2
    <3> DEFINE m == [op |-> "planificar", e |-> e, dia |-> d]
    <3>1. m \in Peticion
      BY DEF Peticion
    <3> QED
      BY <3>1 DEF LeePlanificar
  <2>3. CASE LeeRestaurar(p)
    <3> DEFINE m == [op |-> "restaurar", e |-> peticion[p].e]
    <3>1. m \in Peticion
      BY <2>3, DeLaPeticion DEF Peticion, LeeRestaurar, En
    <3> QED
      BY <2>3, <3>1 DEF LeeRestaurar, PuedeRestaurar
  <2>4. CASE EscribeRestaurar(p) \/ Revierte(p)
    BY <2>4 DEF EscribeRestaurar, Revierte, Peticion, Reposo
  <2> QED
    BY <2>1, <2>2, <2>3, <2>4
<1>3. \A q \in Peticiones : peticion'[q] = IF q = p THEN m ELSE peticion[q]
  BY <1>2 DEF Pasa, TypeOK
<1>4. TypeOK'
  BY <1>1, <1>2, <1>3 DEF TypeOK, Pasa
<1>5. Acotado' /\ Asignado' /\ UnaAutoPorDia'
  BY <1>1 DEF Acotado, Asignado, UnaAutoPorDia, Trabaja, Hace, Existe
<1>6. Cerrojo'
  BY <1>2, <1>3 DEF Cerrojo, Bloquea, EmpresaLibre
<1>7. SinRepetir'
  BY <1>1, <1>2, <1>3 DEF SinRepetir, De, En
<1> QED
  BY <1>4, <1>5, <1>6, <1>7

(* A new row: nobody works on it, and a planner adds the automatic copy of  *)
(* its day alone, with the company locked.                                  *)
LEMMA ColaAlta ==
  ASSUME IInvCola, NEW t \in Trabajo, Alta(t),
         t.estado # "PROCESANDO",
         t.estado = "PENDIENTE" => t.intentos < MaxIntentos,
         objeto' \in [Ids -> Sumas], UNCHANGED <<hoy, obrero>>,
         peticion' \in [Peticiones -> Peticion],
         \A q \in Peticiones : Bloquea(q)' => peticion'[q] = peticion[q],
         t.origen = "AUTO" => \E p \in Peticiones :
           /\ En(p, "planificar") /\ ~ Bloquea(p)'
           /\ peticion[p].e = t.empresa /\ peticion[p].dia = t.dia
  PROVE  IInvCola'
<1> USE DEF IInvCola
<1>1. /\ trabajo' \in Seq(Trabajo) /\ Len(trabajo') <= MaxTrabajos
      /\ Nueva \in Ids /\ Nueva \notin DOMAIN trabajo
      /\ DOMAIN trabajo' = DOMAIN trabajo \cup {Nueva}
      /\ \A k \in DOMAIN trabajo : trabajo'[k] = trabajo[k]
      /\ trabajo'[Nueva] = t
  BY TrasAlta
<1>2. TypeOK'
  BY <1>1 DEF TypeOK
<1>3. Acotado'
  BY <1>1 DEF Acotado, Trabaja, Hace
<1>4. Asignado' /\ Cerrojo'
  BY <1>1 DEF Asignado, Hace, Existe, Cerrojo, Bloquea
<1>5. SinRepetir'
  <2> SUFFICES ASSUME NEW q \in Peticiones, En(q, "planificar")',
                      NEW j \in De(peticion[q].e)'
               PROVE  ~ (trabajo'[j].origen = "AUTO"
                         /\ trabajo'[j].dia = peticion'[q].dia)
    BY DEF SinRepetir
  <2>1. peticion'[q] = peticion[q] /\ En(q, "planificar") /\ Bloquea(q)'
    BY DEF Bloquea, En
  <2>2. CASE j \in DOMAIN trabajo
    BY <1>1, <2>1, <2>2 DEF SinRepetir, De
  <2>3. CASE j = Nueva
    <3> SUFFICES ASSUME t.origen = "AUTO" PROVE FALSE
      BY <1>1, <2>3
    <3>1. PICK p \in Peticiones : /\ En(p, "planificar") /\ ~ Bloquea(p)'
                                  /\ peticion[p].e = t.empresa
      OBVIOUS
    <3>2. peticion[q].e = t.empresa
      BY <1>1, <2>1, <2>3 DEF De
    <3> QED
      BY <2>1, <3>1, <3>2 DEF Cerrojo, Bloquea, En
  <2> QED
    BY <1>1, <2>2, <2>3 DEF De
<1>6. UnaAutoPorDia'
  <2>1. ASSUME NEW j \in DOMAIN trabajo, t.origen = "AUTO",
               trabajo[j].origen = "AUTO", trabajo[j].empresa = t.empresa
        PROVE  trabajo[j].dia # t.dia
    BY <2>1 DEF SinRepetir, De
  <2> QED
    BY <1>1, <2>1 DEF UnaAutoPorDia
<1> QED
  BY <1>2, <1>3, <1>4, <1>5, <1>6

LEMMA ColaInserciones ==
  ASSUME IInvCola,
         \/ \E e \in Empresas : Encola(e)
         \/ \E p \in Peticiones : EscribePlanificar(p) \/ EscribeCopia(p)
  PROVE  IInvCola'
<1>0. 0 \in Sumas /\ 1 \in Sumas /\ 0 < MaxIntentos /\ TypeOK
  BY CotasRespaldo DEF Sumas, IInvCola
<1>1. ASSUME NEW e \in Empresas, Encola(e)
      PROVE  IInvCola'
  <2>1. /\ Inserta(e, "MANUAL", hoy, "PENDIENTE", 0)
        /\ UNCHANGED <<hoy, objeto, obrero, peticion>> /\ hoy \in Dias
    BY <1>0, <1>1 DEF Encola, TypeOK
  <2>2. PICK t \in Trabajo :
          /\ Alta(t) /\ t.estado = "PENDIENTE" /\ t.intentos = 0
          /\ t.origen = "MANUAL"
    BY <1>0, <2>1, DeInserta
  <2> QED
    BY <1>0, <2>1, <2>2, ColaAlta DEF TypeOK, Bloquea
<1>2. ASSUME NEW p \in Peticiones, EscribePlanificar(p)
      PROVE  IInvCola'
  <2>1. /\ Inserta(peticion[p].e, "AUTO", peticion[p].dia, "PENDIENTE", 0)
        /\ UNCHANGED <<hoy, objeto, obrero>> /\ Pasa(p, Reposo)
        /\ En(p, "planificar")
    BY <1>2 DEF EscribePlanificar
  <2>2. peticion[p].e \in Empresas /\ peticion[p].dia \in Dias
    BY <1>0, <2>1, DeLaPeticion DEF En
  <2>3. PICK t \in Trabajo :
          /\ Alta(t) /\ t.estado = "PENDIENTE" /\ t.intentos = 0
          /\ t.empresa = peticion[p].e /\ t.dia = peticion[p].dia
    BY <1>0, <2>1, <2>2, DeInserta
  <2>4. /\ peticion' \in [Peticiones -> Peticion]
        /\ \A q \in Peticiones :
             peticion'[q] = IF q = p THEN Reposo ELSE peticion[q]
    BY <1>0, <2>1 DEF TypeOK, Pasa, Peticion
  <2>5. /\ \A q \in Peticiones : Bloquea(q)' => peticion'[q] = peticion[q]
        /\ ~ Bloquea(p)' /\ objeto' \in [Ids -> Sumas]
    BY <1>0, <2>1, <2>4 DEF Bloquea, Reposo, TypeOK
  <2> QED
    BY <1>0, <2>1, <2>3, <2>4, <2>5, ColaAlta
<1>3. ASSUME NEW p \in Peticiones, EscribeCopia(p)
      PROVE  IInvCola'
  <2>1. /\ Inserta(peticion[p].e, "MANUAL", peticion[p].dia, "COMPLETADO", 1)
        /\ objeto' = [objeto EXCEPT ![Len(trabajo) + 1] = 1]
        /\ UNCHANGED <<hoy, obrero>>
        /\ Pasa(p, [op |-> "copiada", e |-> peticion[p].e])
        /\ En(p, "copia")
    BY <1>3 DEF EscribeCopia
  <2>2. peticion[p].e \in Empresas /\ peticion[p].dia \in Dias
    BY <1>0, <2>1, DeLaPeticion DEF En
  <2>3. PICK t \in Trabajo :
          Alta(t) /\ t.estado = "COMPLETADO" /\ t.origen = "MANUAL"
    BY <1>0, <2>1, <2>2, DeInserta
  <2>4. [op |-> "copiada", e |-> peticion[p].e] \in Peticion
    BY <2>2 DEF Peticion
  <2>5. /\ peticion' \in [Peticiones -> Peticion]
        /\ \A q \in Peticiones :
             peticion'[q] = IF q = p THEN [op |-> "copiada",
                                           e |-> peticion[p].e]
                            ELSE peticion[q]
    BY <1>0, <2>1, <2>4 DEF TypeOK, Pasa
  <2>6. \A q \in Peticiones : Bloquea(q)' => peticion'[q] = peticion[q]
    BY <2>5 DEF Bloquea
  <2>7. objeto' \in [Ids -> Sumas]
    BY <1>0, <2>1 DEF TypeOK
  <2> QED
    BY <1>0, <2>1, <2>3, <2>5, <2>6, <2>7, ColaAlta
<1> QED
  BY <1>1, <1>2, <1>3

(* The worker loops.                                                        *)
LEMMA ColaObreros ==
  ASSUME IInvCola, NEW w \in Obreros,
         Obra(w) \/ Muere(w) \/ \E j \in Ids : LeeExpirar(w, j)
  PROVE  IInvCola'
<1> USE DEF IInvCola
<1>1. ASSUME NEW o \in Obrero, obrero' = [obrero EXCEPT ![w] = o],
             UNCHANGED <<hoy, peticion>>, objeto' \in [Ids -> Sumas],
             Mismas \/ UNCHANGED trabajo,
             o # Ocioso => o.j \in DOMAIN trabajo,
             Acotado'
      PROVE  IInvCola'
  <2>1. TypeOK'
    BY <1>1 DEF TypeOK, Mismas
  <2>2. DOMAIN trabajo' = DOMAIN trabajo
    BY <1>1 DEF Mismas
  <2>3. \A v \in Obreros : obrero'[v] = IF v = w THEN o ELSE obrero[v]
    BY <1>1 DEF TypeOK
  <2>4. Asignado'
    BY <1>1, <2>2, <2>3 DEF Asignado, Existe, Hace, Ocioso
  <2> QED
    BY <1>1, <2>1, <2>4, FilasIguales
<1>2. CASE Reclama(w)
  <2>1. PICK j \in DOMAIN trabajo : Reclamado(w, j)
    BY <1>2, AlReclamar
  <2>2. Mismas /\ UNCHANGED <<hoy, objeto, peticion>>
    BY <1>2, AlReclamar
  <2> DEFINE o == [paso |-> "empaca", j |-> j, sha |-> trabajo[j].intentos + 1]
  <2>3. o \in Obrero /\ o.j = j /\ obrero' = [obrero EXCEPT ![w] = o]
    BY <2>1, DelTrabajo DEF Obrero, Reclamado
  <2>4. Acotado'
    <3>1. Trabaja(w, j)'
      BY <2>1 DEF Reclamado, TypeOK, Trabaja, Hace
    <3>2. ASSUME NEW k \in DOMAIN trabajo, k # j, ~ Reclamable(k),
                 trabajo[k].estado = "PROCESANDO",
                 trabajo[k].intentos = MaxIntentos
          PROVE  \E v \in Obreros : Trabaja(v, k)'
      <4>1. PICK v \in Obreros : Trabaja(v, k)
        BY <3>2 DEF Acotado
      <4>2. v # w
        BY <1>2, <4>1 DEF Reclama, Trabaja, Hace
      <4> QED
        BY <4>1, <4>2, <2>3 DEF TypeOK, Trabaja, Hace
    <3>3. ASSUME NEW k \in DOMAIN trabajo, k # j, Reclamable(k)
          PROVE  /\ trabajo'[k].estado = "PENDIENTE"
                 /\ trabajo'[k].intentos < MaxIntentos
      <4>1. trabajo[k].intentos < MaxIntentos
        BY <3>3 DEF Acotado, Reclamable, Esta
      <4>2. trabajo'[k] = [trabajo[k] EXCEPT !.estado = "PENDIENTE",
                                             !.vencido = FALSE]
        BY <2>1, <3>3 DEF Reclamado
      <4> QED
        BY <3>3, <4>1, <4>2, DelTrabajo DEF Trabajo
    <3>4. /\ trabajo'[j].estado = "PROCESANDO" /\ ~ trabajo'[j].vencido
          /\ \A k \in DOMAIN trabajo : k # j /\ ~ Reclamable(k) =>
               trabajo'[k] = trabajo[k]
          /\ DOMAIN trabajo' = DOMAIN trabajo
      BY <2>1, <2>2, DelTrabajo DEF Reclamado, Mismas, Trabajo
    <3>5. ASSUME NEW k \in DOMAIN trabajo'
          PROVE  LET t == trabajo'[k] IN
                 /\ t.estado = "PENDIENTE" => t.intentos < MaxIntentos
                 /\ t.estado = "PROCESANDO" /\ t.vencido =>
                      t.intentos < MaxIntentos
                 /\ t.estado = "PROCESANDO" /\ t.intentos = MaxIntentos =>
                      \E v \in Obreros : Trabaja(v, k)'
      <4>1. CASE k = j
        BY <3>1, <3>4, <4>1
      <4>2. CASE k # j /\ Reclamable(k)
        BY <3>3, <3>4, <4>2
      <4>3. CASE k # j /\ ~ Reclamable(k)
        BY <3>2, <3>4, <4>3, <3>5 DEF Acotado
      <4> QED
        BY <4>1, <4>2, <4>3
    <3> QED
      BY <3>5 DEF Acotado
  <2>5. objeto' \in [Ids -> Sumas]
    BY <2>2 DEF TypeOK
  <2> HIDE DEF o
  <2> QED
    BY <1>1, <2>2, <2>3, <2>4, <2>5
<1>3. CASE Sube(w) \/ Borra(w)
  <2>1. PICK j \in Ids : j = obrero[w].j /\ j \in DOMAIN trabajo
    BY <1>3, DelObrero DEF Sube, Borra, Expira, Asignado, Existe, Hace
  <2>2. PICK o \in Obrero :
          /\ obrero' = [obrero EXCEPT ![w] = o] /\ o.j = j
          /\ Trabaja(w, j) => o.paso = "registra"
    <3>1. CASE Sube(w)
      <4> DEFINE o == [obrero[w] EXCEPT !.paso = "registra"]
      <4>1. o \in Obrero /\ o.j = j /\ o.paso = "registra"
        BY <2>1, <3>1, DelObrero DEF Sube, Hace, Obrero
      <4> QED
        BY <3>1, <4>1 DEF Sube, TypeOK
    <3>2. CASE Borra(w)
      <4> DEFINE o == [obrero[w] EXCEPT !.paso = "expira"]
      <4>1. o \in Obrero /\ o.j = j
        BY <2>1, <3>2, DelObrero DEF Borra, Expira, Hace, Obrero
      <4>2. ~ Trabaja(w, j)
        BY <3>2 DEF Borra, Trabaja, Hace
      <4> QED
        BY <3>2, <4>1, <4>2 DEF Borra, TypeOK
    <3> QED
      BY <1>3, <3>1, <3>2
  <2>3. /\ objeto' \in [Ids -> Sumas] /\ UNCHANGED <<hoy, trabajo, peticion>>
    <3>1. CASE Sube(w)
      BY <3>1, DelObrero DEF Sube, TypeOK
    <3>2. CASE Borra(w)
      <4>1. 0 \in Sumas
        BY CotasRespaldo DEF Sumas
      <4> QED
        BY <3>2, <4>1 DEF Borra, TypeOK
    <3> QED
      BY <1>3, <3>1, <3>2
  <2>4. Acotado'
    <3>1. \A v \in Obreros, k \in Ids : Trabaja(v, k) => Trabaja(v, k)'
      BY <2>1, <2>2 DEF TypeOK, Trabaja, Hace
    <3> QED
      BY <2>3, <3>1, DelTrabajo DEF Acotado
  <2> QED
    BY <1>1, <2>1, <2>2, <2>3, <2>4
<1>4. CASE Registra(w) \/ Falla(w) \/ EscribeExpirar(w)
  <2>1. PICK j \in DOMAIN trabajo : j = obrero[w].j
    BY <1>4 DEF Registra, Falla, EscribeExpirar, Asignado, Existe, Hace
  <2>2. /\ Mismas /\ Descansa(w) /\ UNCHANGED <<hoy, objeto, peticion>>
        /\ \A k \in DOMAIN trabajo : k # j => trabajo'[k] = trabajo[k]
    BY <1>4, <2>1, AlRegistrar, AlFallar, AlExpirar DEF Existe
  <2>3. /\ trabajo'[j].estado \in
             {"COMPLETADO", "EXPIRADO", "FALLIDO", "PENDIENTE", "PROCESANDO"}
        /\ trabajo'[j].intentos = trabajo[j].intentos
        /\ trabajo'[j].estado \in {"PENDIENTE", "PROCESANDO"} =>
             trabajo'[j].intentos < 3
    <3>1. CASE Registra(w)
      <4>1. trabajo'[j] = [trabajo[j] EXCEPT !.estado = "COMPLETADO",
                                             !.sha = obrero[w].sha]
        BY <2>1, <3>1, AlRegistrar DEF Existe
      <4> QED
        BY <4>1, DelTrabajo DEF Trabajo
    <3>2. CASE Falla(w)
      <4>1. \/ trabajo' = trabajo /\ trabajo[j].intentos < 3
            \/ trabajo'[j] = [trabajo[j] EXCEPT !.estado =
                                TrasFallo(trabajo[j].intentos)]
        BY <2>1, <3>2, AlFallar DEF Existe, TrasFallo
      <4> QED
        BY <4>1, DelTrabajo DEF Trabajo, TrasFallo
    <3>3. CASE EscribeExpirar(w)
      <4>1. trabajo'[j] = [trabajo[j] EXCEPT !.estado = "EXPIRADO"]
        BY <2>1, <3>3, AlExpirar DEF Existe
      <4> QED
        BY <4>1, DelTrabajo DEF Trabajo
    <3> QED
      BY <1>4, <3>1, <3>2, <3>3
  <2>4. Acotado'
    <3>1. /\ trabajo'[j].estado \in {"PENDIENTE", "PROCESANDO"} =>
               trabajo'[j].intentos < MaxIntentos
          /\ DOMAIN trabajo' = DOMAIN trabajo
      BY <2>2, <2>3, DelTrabajo, CotasRespaldo DEF Mismas, Sumas
    <3>2. \A v \in Obreros, k \in DOMAIN trabajo : k # j /\ Trabaja(v, k) =>
            Trabaja(v, k)'
      BY <2>1, <2>2 DEF Descansa, TypeOK, Trabaja, Hace
    <3>3. ASSUME NEW k \in DOMAIN trabajo, k # j
          PROVE  LET t == trabajo'[k] IN
                 /\ t.estado = "PENDIENTE" => t.intentos < MaxIntentos
                 /\ t.estado = "PROCESANDO" /\ t.vencido =>
                      t.intentos < MaxIntentos
                 /\ t.estado = "PROCESANDO" /\ t.intentos = MaxIntentos =>
                      \E v \in Obreros : Trabaja(v, k)'
      BY <2>2, <3>2, <3>3 DEF Acotado
    <3>4. /\ trabajo'[j].intentos \in Nat
          /\ trabajo'[j].intentos = MaxIntentos =>
               trabajo'[j].estado \notin {"PENDIENTE", "PROCESANDO"}
      BY <2>3, <3>1, DelTrabajo, CotasRespaldo DEF Sumas
    <3> QED
      BY <3>1, <3>3, <3>4 DEF Acotado
  <2> QED
    BY <1>1, <2>2, <2>4 DEF Descansa, Obrero, TypeOK
<1>5. CASE Muere(w) \/ \E j \in Ids : LeeExpirar(w, j)
  <2>1. PICK o \in Obrero :
          /\ obrero' = [obrero EXCEPT ![w] = o]
          /\ o # Ocioso => o.j \in DOMAIN trabajo
    <3>1. CASE Muere(w)
      BY <3>1 DEF Muere, Descansa, Obrero
    <3>2. CASE \E j \in Ids : LeeExpirar(w, j)
      <4> PICK j \in Ids : LeeExpirar(w, j)
        BY <3>2
      <4> DEFINE o == [paso |-> "borra", j |-> j]
      <4>1. o \in Obrero /\ o.j = j
        BY DEF Obrero
      <4>2. j \in DOMAIN trabajo /\ obrero' = [obrero EXCEPT ![w] = o]
        BY DEF LeeExpirar, Esta, Existe
      <4> HIDE DEF o
      <4> QED
        BY <4>1, <4>2
    <3> QED
      BY <1>5, <3>1, <3>2
  <2>2. UNCHANGED <<hoy, trabajo, objeto, peticion>>
    BY <1>5 DEF Muere, LeeExpirar
  <2>3. Acotado'
    <3>1. ASSUME NEW k \in DOMAIN trabajo, trabajo[k].estado = "PROCESANDO",
                 trabajo[k].intentos = MaxIntentos
          PROVE  \E v \in Obreros : Trabaja(v, k)'
      <4>1. PICK v \in Obreros : Trabaja(v, k)
        BY <3>1 DEF Acotado
      <4>2. v # w
        BY <1>5, <3>1, <4>1, DelTrabajo, CotasRespaldo
           DEF Muere, LeeExpirar, Trabaja, Hace
      <4> QED
        BY <2>1, <4>1, <4>2 DEF TypeOK, Trabaja, Hace
    <3> QED
      BY <2>2, <3>1 DEF Acotado
  <2>4. objeto' \in [Ids -> Sumas]
    BY <2>2 DEF TypeOK
  <2> QED
    BY <1>1, <2>1, <2>2, <2>3, <2>4
<1> QED
  BY <1>2, <1>3, <1>4, <1>5 DEF Obra

(* Time.                                                                    *)
LEMMA ColaTiempo ==
  ASSUME IInvCola, Amanece \/ \E j \in Ids : SeisHoras(j)
  PROVE  IInvCola'
<1> USE DEF IInvCola
<1>1. CASE Amanece
  <2>1. TypeOK'
    BY <1>1, CotasRespaldo DEF Amanece, TypeOK, Dias
  <2>2. UNCHANGED <<trabajo, objeto, obrero, peticion>>
    BY <1>1 DEF Amanece
  <2>3. Acotado' /\ Asignado'
    BY <2>2 DEF Acotado, Asignado, Trabaja, Hace, Existe
  <2> QED
    BY <2>1, <2>2, <2>3, FilasIguales
<1>2. ASSUME NEW j \in Ids, SeisHoras(j)
      PROVE  IInvCola'
  <2>1. /\ j \in DOMAIN trabajo /\ Mismas
        /\ trabajo'[j] = [trabajo[j] EXCEPT !.vencido = TRUE]
        /\ \A k \in DOMAIN trabajo : k # j => trabajo'[k] = trabajo[k]
        /\ UNCHANGED <<hoy, objeto, obrero, peticion>>
    BY <1>2, TrasSeisHoras
  <2>2. TypeOK'
    BY <2>1 DEF TypeOK, Mismas
  <2>3. Acotado'
    <3>1. /\ trabajo'[j].estado = "PROCESANDO"
          /\ trabajo'[j].intentos = trabajo[j].intentos
      BY <1>2, <2>1, DelTrabajo DEF SeisHoras, Esta, Trabajo
    <3>2. trabajo[j].intentos < MaxIntentos
      <4>1. trabajo[j].intentos \in 0 .. MaxIntentos
        BY <2>1, DelTrabajo DEF Sumas
      <4>2. trabajo[j].intentos # MaxIntentos
        BY <1>2, <2>1, CotasRespaldo DEF SeisHoras, Esta, Acotado
      <4> QED
        BY <4>1, <4>2, CotasRespaldo
    <3>3. DOMAIN trabajo' = DOMAIN trabajo
      BY <2>1 DEF Mismas
    <3>4. trabajo[j].intentos # MaxIntentos
      BY <2>1, <3>2, DelTrabajo, CotasRespaldo DEF Sumas
    <3> QED
      BY <2>1, <3>1, <3>2, <3>3, <3>4 DEF Acotado, Trabaja, Hace
  <2>4. Asignado'
    BY <2>1 DEF Asignado, Hace, Existe, Mismas
  <2> QED
    BY <2>1, <2>2, <2>3, <2>4, FilasIguales
<1> QED
  BY <1>1, <1>2

(* Every step of the queue is one of those (Next).                          *)
LEMMA PasosCola ==
  ASSUME Next
  PROVE  \/ \E p \in Peticiones :
              \/ \E e \in Empresas :
                   LeeCopia(p, e) \/ \E d \in Dias : LeePlanificar(p, e, d)
              \/ LeeRestaurar(p) \/ EscribeRestaurar(p) \/ Revierte(p)
         \/ \E e \in Empresas : Encola(e)
         \/ \E p \in Peticiones : EscribePlanificar(p) \/ EscribeCopia(p)
         \/ \E w \in Obreros :
              Obra(w) \/ Muere(w) \/ \E j \in Ids : LeeExpirar(w, j)
         \/ Amanece \/ \E j \in Ids : SeisHoras(j)
BY Zenon DEF Next, Concluye

LEMMA ColaSigue == IInvCola /\ [Next]_vars => IInvCola'
<1> SUFFICES ASSUME IInvCola, [Next]_vars PROVE IInvCola'
  OBVIOUS
<1>1. CASE Next
  BY <1>1, PasosCola, ColaPeticiones, ColaInserciones, ColaObreros, ColaTiempo
<1>2. CASE UNCHANGED vars
  BY <1>2 DEF vars, IInvCola, TypeOK, Acotado, Asignado, Cerrojo, SinRepetir,
     UnaAutoPorDia, Trabaja, Hace, Existe, Bloquea, De, En
<1> QED
  BY <1>1, <1>2

----------------------------------------------------------------------------
(* The order of the copies, and what the complete ones become.              *)

AntesEn(s, j, k) ==
  \/ s[j].dia < s[k].dia
  \/ (s[j].dia = s[k].dia /\ j < k)

LEMMA OrdenEn ==
  ASSUME NEW s \in Seq(Trabajo)
  PROVE  /\ \A j \in DOMAIN s : ~ AntesEn(s, j, j)
         /\ \A i, j, k \in DOMAIN s :
              AntesEn(s, i, j) /\ AntesEn(s, j, k) => AntesEn(s, i, k)
<1>1. \A j \in DOMAIN s : j \in Nat /\ s[j] \in Trabajo
  OBVIOUS
<1>2. \A j \in DOMAIN s : s[j].dia \in Nat
  BY <1>1, CotasRespaldo DEF Trabajo, Dias
<1> QED
  BY <1>1, <1>2 DEF AntesEn

LEMMA Orden ==
  ASSUME TypeOK
  PROVE  /\ \A j \in DOMAIN trabajo : ~ Antes(j, j)
         /\ \A i, j, k \in DOMAIN trabajo :
              Antes(i, j) /\ Antes(j, k) => Antes(i, k)
BY OrdenEn DEF TypeOK, Antes, AntesEn

Completa(j) == Esta(j, "COMPLETADO")

(* The rows stay, with their company and their day.                         *)
Conserva ==
  /\ DOMAIN trabajo \subseteq DOMAIN trabajo'
  /\ \A j \in DOMAIN trabajo :
       /\ trabajo'[j].empresa = trabajo[j].empresa
       /\ trabajo'[j].dia = trabajo[j].dia

NuevasSiguen == \A j \in DOMAIN trabajo : HayNueva(j) => HayNueva(j)'

LEMMA CopiasIguales ==
  ASSUME TypeOK, TieneUltima, Conserva,
         \A j \in DOMAIN trabajo' :
           Completa(j)' <=> j \in DOMAIN trabajo /\ Completa(j)
  PROVE  NuevasSiguen /\ TieneUltima'
<1>1. \A j, k \in DOMAIN trabajo : Antes(j, k)' <=> Antes(j, k)
  BY DEF Antes, Conserva
<1>2. \A j \in DOMAIN trabajo : HayNueva(j)' <=> HayNueva(j)
  BY <1>1 DEF HayNueva, De, Completa, Conserva
<1>3. \A j \in DOMAIN trabajo : Ultima(j) => Ultima(j)'
  BY <1>2 DEF Ultima, Completa, Conserva
<1> QED
  BY <1>2, <1>3 DEF NuevasSiguen, TieneUltima, De, Completa, Conserva, Ultima

(* One more copy: the newest of its company is the one there was, or it.    *)
LEMMA UnaCopiaMas ==
  ASSUME TypeOK, TypeOK', TieneUltima, Conserva, NEW n \in DOMAIN trabajo',
         Completa(n)',
         \A j \in DOMAIN trabajo' : j # n =>
           (Completa(j)' <=> j \in DOMAIN trabajo /\ Completa(j))
  PROVE  NuevasSiguen /\ TieneUltima'
<1>1. \A j, k \in DOMAIN trabajo : Antes(j, k)' <=> Antes(j, k)
  BY DEF Antes, Conserva
<1>2. NuevasSiguen
  BY <1>1 DEF NuevasSiguen, HayNueva, De, Completa, Conserva
<1>3. ASSUME NEW j \in DOMAIN trabajo', Completa(j)'
      PROVE  \E k \in De(trabajo[j].empresa)' : Ultima(k)'
  <2>1. ASSUME NEW i \in DOMAIN trabajo, Completa(i),
               trabajo[i].empresa = trabajo'[n].empresa => Antes(n, i)'
        PROVE  \E k \in De(trabajo[i].empresa) : Ultima(k)'
    <3>1. PICK k \in De(trabajo[i].empresa) : Ultima(k)
      BY <2>1 DEF TieneUltima, Completa
    <3>2. k \in DOMAIN trabajo /\ Completa(k)'
      BY <3>1 DEF Ultima, Completa, De, Conserva
    <3>3. ASSUME NEW m \in De(trabajo[k].empresa)', Completa(m)',
                 Antes(k, m)'
          PROVE  FALSE
      <4>1. CASE m # n
        <5>1. m \in De(trabajo[k].empresa) /\ Completa(m)
          BY <3>2, <3>3, <4>1 DEF De, Conserva
        <5> QED
          BY <1>1, <3>1, <3>2, <3>3, <5>1 DEF Ultima, HayNueva, Completa, De
      <4>2. CASE m = n
        <5>1. trabajo[i].empresa = trabajo'[n].empresa
          BY <3>1, <3>2, <3>3, <4>2 DEF De, Conserva
        <5>2. Antes(k, i)'
          <6>1. /\ k \in DOMAIN trabajo' /\ n \in DOMAIN trabajo'
                /\ i \in DOMAIN trabajo'
            BY <2>1, <3>2 DEF Conserva
          <6>2. Antes(k, n)' /\ Antes(n, i)'
            BY <2>1, <3>3, <4>2, <5>1
          <6>3. \A a, b, c \in DOMAIN trabajo' :
                  Antes(a, b)' /\ Antes(b, c)' => Antes(a, c)'
            BY OrdenEn DEF TypeOK, Antes, AntesEn
          <6> QED
            BY <6>1, <6>2, <6>3
        <5> QED
          BY <1>1, <2>1, <3>1, <3>2, <5>2 DEF Ultima, HayNueva, Completa, De
      <4> QED
        BY <4>1, <4>2
    <3>4. Ultima(k)'
      BY <3>2, <3>3 DEF Ultima, HayNueva, Completa
    <3> QED
      BY <3>1, <3>4
  <2>2. CASE Ultima(n)' /\ trabajo'[j].empresa = trabajo'[n].empresa
    BY <2>2 DEF De
  <2>3. CASE ~ Ultima(n)' /\ trabajo'[j].empresa = trabajo'[n].empresa
    <3>1. PICK i \in De(trabajo[n].empresa)' : Completa(i)' /\ Antes(n, i)'
      BY <2>3 DEF Ultima, HayNueva, Completa
    <3>2. i # n
      <4>1. ~ Antes(n, n)'
        BY OrdenEn DEF TypeOK, Antes, AntesEn
      <4> QED
        BY <3>1, <4>1
    <3>3. i \in DOMAIN trabajo /\ Completa(i)
      BY <3>1, <3>2 DEF De
    <3>4. PICK k \in De(trabajo[i].empresa) : Ultima(k)'
      BY <2>1, <3>1, <3>3
    <3> QED
      BY <2>3, <3>1, <3>3, <3>4 DEF De, Conserva
  <2>4. CASE trabajo'[j].empresa # trabajo'[n].empresa
    <3>1. j \in DOMAIN trabajo /\ Completa(j)
      BY <1>3, <2>4
    <3>2. trabajo[j].empresa # trabajo'[n].empresa
      BY <2>4, <3>1 DEF Conserva
    <3>3. PICK k \in De(trabajo[j].empresa) : Ultima(k)'
      BY <2>1, <3>1, <3>2
    <3> QED
      BY <3>1, <3>3 DEF De, Conserva
  <2> QED
    BY <2>2, <2>3, <2>4
<1> QED
  BY <1>2, <1>3 DEF TieneUltima, Completa

(* One copy less, when a newer one is there.                                *)
LEMMA UnaCopiaMenos ==
  ASSUME TypeOK, TypeOK', TieneUltima, Conserva,
         NEW n \in DOMAIN trabajo, HayNueva(n),
         \A j \in DOMAIN trabajo' :
           Completa(j)' <=> j \in DOMAIN trabajo /\ Completa(j) /\ j # n
  PROVE  NuevasSiguen /\ TieneUltima'
<1>1. \A j, k \in DOMAIN trabajo : Antes(j, k)' <=> Antes(j, k)
  BY DEF Antes, Conserva
<1>2. ASSUME NEW j \in DOMAIN trabajo, HayNueva(j)
      PROVE  HayNueva(j)'
  <2>1. PICK k \in De(trabajo[j].empresa) : Completa(k) /\ Antes(j, k)
    BY <1>2 DEF HayNueva, Completa
  <2>2. PICK m \in De(trabajo[n].empresa) : Completa(m) /\ Antes(n, m)
    BY DEF HayNueva, Completa
  <2>3. m # n /\ m \in DOMAIN trabajo /\ k \in DOMAIN trabajo
    BY <2>1, <2>2, Orden DEF De
  <2>4. CASE k # n
    BY <1>1, <2>1, <2>3, <2>4 DEF HayNueva, De, Completa, Conserva
  <2>5. CASE k = n
    <3>1. Antes(j, m) /\ m \in De(trabajo[j].empresa)
      BY <2>1, <2>2, <2>3, <2>5, Orden DEF De
    <3> QED
      BY <1>1, <2>2, <2>3, <3>1 DEF HayNueva, De, Completa, Conserva
  <2> QED
    BY <2>4, <2>5
<1>3. \A j \in DOMAIN trabajo : HayNueva(j)' => HayNueva(j)
  BY <1>1 DEF HayNueva, De, Completa, Conserva
<1>4. \A j \in DOMAIN trabajo : Ultima(j) => Ultima(j)'
  BY <1>3 DEF Ultima, Completa, Conserva
<1> QED
  BY <1>2, <1>4 DEF NuevasSiguen, TieneUltima, De, Completa, Conserva, Ultima

----------------------------------------------------------------------------
(* The invariant of the copies, when no live worker is taken for dead.      *)

LEMMA PuntualInit == Init => IInvPuntual
<1> SUFFICES ASSUME Init PROVE IInvPuntual
  OBVIOUS
<1>1. IInvCola
  BY ColaInit
<1>2. DOMAIN trabajo = {}
  BY DEF Init
<1> QED
  BY <1>1, <1>2 DEF Init, IInvPuntual, Vivo, Sustituida, TieneUltima,
     CopiaIntegra, Quieta, Trabaja, Hace, Expira, Ocioso, Reposo, En

(* The reads and the ends of planners and restores.                         *)
LEMMA PuntualPeticiones ==
  ASSUME IInvPuntual, NEW p \in Peticiones,
         \/ \E e \in Empresas :
              LeeCopia(p, e) \/ \E d \in Dias : LeePlanificar(p, e, d)
         \/ LeeRestaurar(p) \/ EscribeRestaurar(p) \/ Revierte(p)
  PROVE  IInvPuntual'
<1> USE DEF IInvPuntual
<1>1. IInvCola'
  BY ColaPeticiones
<1>2. UNCHANGED <<hoy, trabajo, objeto, obrero>>
  BY DEF LeeCopia, LeePlanificar, LeeRestaurar, EscribeRestaurar, Revierte
<1>3. Vivo' /\ Sustituida' /\ TieneUltima' /\ CopiaIntegra'
  BY <1>2 DEF Vivo, Sustituida, TieneUltima, CopiaIntegra, Trabaja, Hace,
     Expira, Esta, Existe, HayNueva, De, Antes, Ultima, Integra
<1>4. \A e \in Empresas : SinActivos(e) => SinActivos(e)'
  BY <1>2 DEF SinActivos, Activo, Esta, Existe, De
<1>5. \A q \in Peticiones : En(q, "restaurar")' =>
        /\ peticion'[q].e \in Empresas
        /\ \/ En(q, "restaurar") /\ peticion'[q] = peticion[q]
           \/ SinActivos(peticion'[q].e)
  <2>1. TypeOK
    BY DEF IInvCola
  <2>2. \A q \in Peticiones : En(q, "restaurar") => peticion[q].e \in Empresas
    BY <2>1, DeLaPeticion DEF En
  <2>3. CASE LeeRestaurar(p)
    BY <2>1, <2>2, <2>3, DeLaPeticion
       DEF LeeRestaurar, PuedeRestaurar, Pasa, TypeOK, En
  <2>4. CASE \/ \E e \in Empresas :
                  LeeCopia(p, e) \/ \E d \in Dias : LeePlanificar(p, e, d)
             \/ EscribeRestaurar(p) \/ Revierte(p)
    <3>1. /\ ~ En(p, "restaurar")'
          /\ \A q \in Peticiones : q # p => peticion'[q] = peticion[q]
      BY <2>1, <2>4 DEF LeeCopia, LeePlanificar, EscribeRestaurar, Revierte,
         Pasa, TypeOK, En, Reposo
    <3> QED
      BY <2>2, <3>1 DEF En
  <2> QED
    BY <2>3, <2>4
<1>6. Quieta'
  BY <1>4, <1>5 DEF Quieta
<1> QED
  BY <1>1, <1>3, <1>6

(* A new row, PENDIENTE when nobody restores the company, or already with   *)
(* its copy.                                                                *)
LEMMA PuntualAlta ==
  ASSUME IInvPuntual, IInvCola', NEW t \in Trabajo, Alta(t),
         \/ t.estado = "PENDIENTE" /\ UNCHANGED objeto
         \/ /\ t.estado = "COMPLETADO"
            /\ objeto' = [objeto EXCEPT ![Nueva] = t.sha],
         UNCHANGED obrero,
         \A q \in Peticiones : En(q, "restaurar")' =>
           /\ En(q, "restaurar") /\ peticion'[q] = peticion[q]
           /\ t.estado = "PENDIENTE" => peticion[q].e # t.empresa
  PROVE  IInvPuntual'
<1> USE DEF IInvPuntual
<1>0. TypeOK /\ TypeOK' /\ Asignado
  BY DEF IInvCola
<1>1. /\ Nueva \in Ids /\ Nueva \notin DOMAIN trabajo
      /\ DOMAIN trabajo' = DOMAIN trabajo \cup {Nueva}
      /\ \A k \in DOMAIN trabajo : trabajo'[k] = trabajo[k]
      /\ trabajo'[Nueva] = t
  BY <1>0, TrasAlta
<1>2. PICK n \in Ids : n = Nueva
  BY <1>1
<1>3. Conserva
  BY <1>1 DEF Conserva
<1>4. NuevasSiguen /\ TieneUltima'
  <2>1. CASE t.estado = "PENDIENTE"
    <3>1. \A j \in DOMAIN trabajo' :
            Completa(j)' <=> j \in DOMAIN trabajo /\ Completa(j)
      BY <1>1, <2>1 DEF Completa, Esta, Existe
    <3> QED
      BY <1>0, <1>3, <3>1, CopiasIguales
  <2>2. CASE t.estado = "COMPLETADO"
    <3>1. /\ n \in DOMAIN trabajo' /\ Completa(n)'
          /\ \A j \in DOMAIN trabajo' : j # n =>
               (Completa(j)' <=> j \in DOMAIN trabajo /\ Completa(j))
      BY <1>1, <1>2, <2>2 DEF Completa, Esta, Existe
    <3> QED
      BY <1>0, <1>3, <3>1, UnaCopiaMas
  <2> QED
    BY <2>1, <2>2
<1>5. /\ \A j \in DOMAIN trabajo : objeto'[j] = objeto[j]
      /\ t.estado = "COMPLETADO" => objeto'[n] = t.sha
  <2>1. objeto \in [Ids -> Sumas] /\ n \notin DOMAIN trabajo
    BY <1>0, <1>1, <1>2 DEF TypeOK
  <2>2. DOMAIN trabajo \subseteq Ids
    BY <1>0, DelTrabajo
  <2> QED
    BY <1>2, <2>1, <2>2
<1>6. Vivo'
  BY <1>0, <1>1, <1>5, DelTrabajo DEF Vivo, Trabaja, Hace, Esta, Existe
<1>7. Sustituida'
  BY <1>0, <1>1, <1>4, DelTrabajo
     DEF Sustituida, Expira, Hace, Esta, Existe, NuevasSiguen
<1>8. CopiaIntegra'
  BY <1>1, <1>2, <1>4, <1>5
     DEF CopiaIntegra, Integra, Esta, Existe, NuevasSiguen
<1>9. Quieta'
  BY <1>1 DEF Quieta, SinActivos, De, Activo, Esta, Existe
<1> QED
  BY <1>4, <1>6, <1>7, <1>8, <1>9

LEMMA PuntualInserciones ==
  ASSUME IInvPuntual,
         \/ \E e \in Empresas : Encola(e)
         \/ \E p \in Peticiones : EscribePlanificar(p) \/ EscribeCopia(p)
  PROVE  IInvPuntual'
<1>0. /\ 0 \in Sumas /\ 1 \in Sumas
      /\ TypeOK /\ Cerrojo /\ IInvCola
  BY CotasRespaldo DEF Sumas, IInvPuntual, IInvCola
<1>1. IInvCola'
  BY <1>0, ColaInserciones
<1>2. ASSUME NEW e \in Empresas, Encola(e)
      PROVE  IInvPuntual'
  <2>1. /\ Inserta(e, "MANUAL", hoy, "PENDIENTE", 0) /\ EmpresaLibre(e)
        /\ UNCHANGED <<hoy, objeto, obrero, peticion>> /\ hoy \in Dias
    BY <1>0, <1>2 DEF Encola, TypeOK
  <2>2. PICK t \in Trabajo :
          /\ Alta(t) /\ t.estado = "PENDIENTE" /\ t.empresa = e
    BY <1>0, <2>1, DeInserta
  <2>3. \A q \in Peticiones : En(q, "restaurar")' =>
           /\ En(q, "restaurar") /\ peticion'[q] = peticion[q]
           /\ t.estado = "PENDIENTE" => peticion[q].e # t.empresa
    BY <2>1, <2>2 DEF EmpresaLibre, En
  <2> QED
    BY <1>1, <2>1, <2>2, <2>3, PuntualAlta
<1>3. ASSUME NEW p \in Peticiones, EscribePlanificar(p)
      PROVE  IInvPuntual'
  <2>1. /\ Inserta(peticion[p].e, "AUTO", peticion[p].dia, "PENDIENTE", 0)
        /\ UNCHANGED <<hoy, objeto, obrero>> /\ Pasa(p, Reposo)
        /\ En(p, "planificar")
    BY <1>3 DEF EscribePlanificar
  <2>2. peticion[p].e \in Empresas /\ peticion[p].dia \in Dias
    BY <1>0, <2>1, DeLaPeticion DEF En
  <2>3. PICK t \in Trabajo :
          Alta(t) /\ t.estado = "PENDIENTE" /\ t.empresa = peticion[p].e
    BY <1>0, <2>1, <2>2, DeInserta
  <2>4. \A q \in Peticiones : En(q, "restaurar")' =>
           /\ En(q, "restaurar") /\ peticion'[q] = peticion[q] /\ q # p
    BY <1>0, <2>1 DEF TypeOK, Pasa, Reposo, En
  <2>5. \A q \in Peticiones : En(q, "restaurar") /\ q # p =>
           peticion[q].e # peticion[p].e
    BY <1>0, <2>1 DEF Cerrojo, Bloquea, En
  <2> QED
    BY <1>1, <2>1, <2>3, <2>4, <2>5, PuntualAlta
<1>4. ASSUME NEW p \in Peticiones, EscribeCopia(p)
      PROVE  IInvPuntual'
  <2>1. /\ Inserta(peticion[p].e, "MANUAL", peticion[p].dia, "COMPLETADO", 1)
        /\ objeto' = [objeto EXCEPT ![Len(trabajo) + 1] = 1]
        /\ UNCHANGED <<hoy, obrero>>
        /\ Pasa(p, [op |-> "copiada", e |-> peticion[p].e])
        /\ En(p, "copia")
    BY <1>4 DEF EscribeCopia
  <2>2. peticion[p].e \in Empresas /\ peticion[p].dia \in Dias
    BY <1>0, <2>1, DeLaPeticion DEF En
  <2>3. PICK t \in Trabajo :
          Alta(t) /\ t.estado = "COMPLETADO" /\ t.sha = 1
    BY <1>0, <2>1, <2>2, DeInserta
  <2>4. \A q \in Peticiones : En(q, "restaurar")' =>
           En(q, "restaurar") /\ peticion'[q] = peticion[q]
    BY <1>0, <2>1 DEF TypeOK, Pasa, En
  <2>5. objeto' = [objeto EXCEPT ![Nueva] = t.sha]
    BY <2>1, <2>3 DEF Nueva
  <2> QED
    BY <1>1, <2>1, <2>3, <2>4, <2>5, PuntualAlta
<1> QED
  BY <1>2, <1>3, <1>4

(* The workers.  No step of theirs touches a job of another one, nor a      *)
(* complete copy, but that of an expiry.                                    *)
LEMMA PuntualReclama ==
  ASSUME IInvPuntual, NEW w \in Obreros, Reclama(w)
  PROVE  IInvPuntual'
<1> USE DEF IInvPuntual
<1>0. TypeOK /\ Acotado /\ Asignado /\ IInvCola'
  BY ColaObreros DEF IInvCola, Obra
<1>1. PICK j \in DOMAIN trabajo : Reclamado(w, j)
  BY <1>0, AlReclamar
<1>2. Mismas /\ UNCHANGED <<hoy, objeto, peticion>>
  BY <1>0, AlReclamar
<1>3. /\ trabajo'[j].estado = "PROCESANDO" /\ ~ trabajo'[j].vencido
      /\ Reclamable(j)
      /\ \A k \in DOMAIN trabajo : k # j /\ ~ Reclamable(k) =>
           trabajo'[k] = trabajo[k]
      /\ \A k \in DOMAIN trabajo : k # j /\ Reclamable(k) =>
           trabajo'[k].estado = "PENDIENTE"
      /\ DOMAIN trabajo' = DOMAIN trabajo
  BY <1>0, <1>1, <1>2, DelTrabajo DEF Reclamado, Mismas, Trabajo
<1>4. /\ obrero'[w].paso = "empaca" /\ obrero'[w].j = j
      /\ \A v \in Obreros : v # w => obrero'[v] = obrero[v]
  BY <1>0, <1>1 DEF Reclamado, TypeOK
<1>5. \A v \in Obreros, k \in Ids : Trabaja(v, k) => ~ Reclamable(k)
  BY DEF Vivo, Reclamable, Esta
<1>6. Vivo'
  <2> SUFFICES ASSUME NEW v \in Obreros, NEW k \in Ids, Trabaja(v, k)'
               PROVE  /\ Esta(k, "PROCESANDO")' /\ ~ trabajo'[k].vencido
                      /\ Hace(v, "registra")' => objeto'[k] = obrero'[v].sha
                      /\ \A u \in Obreros : Trabaja(u, k)' => u = v
    BY DEF Vivo
  <2>1. CASE v = w
    <3>1. k = j
      BY <1>4, <2>1 DEF Trabaja
    <3>2. \A u \in Obreros : u # w => ~ Trabaja(u, k)'
      <4> SUFFICES ASSUME NEW u \in Obreros, u # w, Trabaja(u, k)'
                   PROVE  FALSE
        OBVIOUS
      <4>1. Trabaja(u, k)
        BY <1>4 DEF Trabaja, Hace
      <4> QED
        BY <1>3, <1>5, <3>1, <4>1
    <3> QED
      BY <1>3, <1>4, <2>1, <3>1, <3>2 DEF Esta, Existe, Hace
  <2>2. CASE v # w
    <3>1. Trabaja(v, k) /\ ~ Reclamable(k) /\ k # j
      BY <1>1, <1>4, <1>5, <2>2 DEF Trabaja, Hace, Reclamado
    <3>2. k \in DOMAIN trabajo /\ trabajo'[k] = trabajo[k]
      BY <1>3, <3>1 DEF Vivo, Esta, Existe
    <3> QED
      BY <1>2, <1>3, <1>4, <2>2, <3>1, <3>2
         DEF Vivo, Esta, Existe, Trabaja, Hace
  <2> QED
    BY <2>1, <2>2
<1>7. \A k \in DOMAIN trabajo :
        \/ trabajo'[k] = trabajo[k]
        \/ /\ Activo(k) /\ ~ Completa(k)' /\ ~ Completa(k)
           /\ ~ Esta(k, "EXPIRADO")
  BY <1>3 DEF Reclamable, Activo, Completa, Esta, Existe
<1>8. Conserva
  BY <1>2 DEF Mismas, Conserva
<1>9. NuevasSiguen /\ TieneUltima'
  BY <1>0, <1>3, <1>7, <1>8, CopiasIguales DEF Completa, Esta, Existe
<1>10. Sustituida'
  BY <1>0, <1>3, <1>4, <1>7, <1>9
     DEF Sustituida, Expira, Hace, Esta, Existe, NuevasSiguen, Completa
<1>11. CopiaIntegra'
  BY <1>2, <1>3, <1>7, <1>9
     DEF CopiaIntegra, Integra, Esta, Existe, NuevasSiguen, Completa
<1>12. Quieta'
  BY <1>2, <1>3, <1>7 DEF Quieta, SinActivos, De, Activo, Esta, Existe, En,
     Mismas
<1> QED
  BY <1>0, <1>6, <1>9, <1>10, <1>11, <1>12

(* The steps that write no row.                                             *)
LEMMA PuntualObjeto ==
  ASSUME IInvPuntual, NEW w \in Obreros,
         Sube(w) \/ Borra(w) \/ Muere(w) \/ \E j \in Ids : LeeExpirar(w, j)
  PROVE  IInvPuntual'
<1> USE DEF IInvPuntual
<1>0. TypeOK /\ Asignado /\ IInvCola'
  BY ColaObreros DEF IInvCola, Obra
<1>1. UNCHANGED <<hoy, trabajo, peticion>>
  BY DEF Sube, Borra, Muere, LeeExpirar
<1>2. /\ NuevasSiguen /\ TieneUltima'
      /\ \A j \in DOMAIN trabajo : HayNueva(j)' <=> HayNueva(j)
  BY <1>1 DEF NuevasSiguen, TieneUltima, HayNueva, Ultima, Esta, Existe, De,
     Antes
<1>3. Quieta'
  BY <1>1 DEF Quieta, SinActivos, De, Activo, Esta, Existe, En
<1>4. \A v \in Obreros : v # w => obrero'[v] = obrero[v]
  BY <1>0 DEF Sube, Borra, Muere, LeeExpirar, Descansa, TypeOK
<1>5. CASE Sube(w)
  <2>1. PICK j \in DOMAIN trabajo : j = obrero[w].j
    BY <1>0, <1>5 DEF Sube, Asignado, Existe, Hace
  <2>2. /\ obrero'[w].paso = "registra" /\ obrero'[w].j = j
        /\ obrero'[w].sha = obrero[w].sha
        /\ objeto'[j] = obrero[w].sha
        /\ \A k \in Ids : k # j => objeto'[k] = objeto[k]
        /\ Trabaja(w, j)
    BY <1>0, <1>5, <2>1, DelObrero, DelTrabajo
       DEF Sube, TypeOK, Trabaja, Hace
  <2>3. Esta(j, "PROCESANDO") /\ ~ Completa(j)
    BY <2>1, <2>2, <1>0, DelTrabajo DEF Vivo, Esta, Completa
  <2>4. Vivo'
    <3> SUFFICES ASSUME NEW v \in Obreros, NEW k \in Ids, Trabaja(v, k)'
                 PROVE  /\ Esta(k, "PROCESANDO")' /\ ~ trabajo'[k].vencido
                        /\ Hace(v, "registra")' => objeto'[k] = obrero'[v].sha
                        /\ \A u \in Obreros : Trabaja(u, k)' => u = v
      BY DEF Vivo
    <3>1. \A u \in Obreros : Trabaja(u, k)' <=> Trabaja(u, k)
      BY <1>4, <1>5, <2>1, <2>2 DEF Trabaja, Hace
    <3>2. v # w => k # j
      BY <2>2, <3>1 DEF Vivo
    <3> QED
      BY <1>1, <1>4, <2>2, <3>1, <3>2 DEF Vivo, Esta, Existe, Hace, Trabaja
  <2>5. Sustituida'
    BY <1>1, <1>2, <1>4, <2>2, <1>0
       DEF Sustituida, Expira, Hace, Esta, Existe, Asignado
  <2>6. CopiaIntegra'
    BY <1>0, <1>1, <1>2, <2>2, <2>3, DelTrabajo
       DEF CopiaIntegra, Integra, Esta, Existe, Completa
  <2> QED
    BY <1>0, <1>2, <1>3, <2>4, <2>5, <2>6
<1>6. CASE Borra(w)
  <2>1. PICK j \in DOMAIN trabajo : j = obrero[w].j
    BY <1>0, <1>6 DEF Borra, Asignado, Existe, Hace
  <2>2. /\ obrero'[w].paso = "expira" /\ obrero'[w].j = j
        /\ objeto'[j] = 0
        /\ \A k \in Ids : k # j => objeto'[k] = objeto[k]
        /\ Expira(w)
    BY <1>0, <1>6, <2>1, DelObrero, DelTrabajo
       DEF Borra, TypeOK, Expira, Hace
  <2>3. HayNueva(j) /\ (Completa(j) \/ Esta(j, "EXPIRADO"))
    BY <2>1, <2>2 DEF Sustituida, Completa
  <2>4. Vivo'
    <3>1. ~ Esta(j, "PROCESANDO")
      BY <2>3 DEF Esta, Completa
    <3>2. \A u \in Obreros, k \in Ids : Trabaja(u, k)' <=> Trabaja(u, k)
      BY <1>4, <1>6, <2>2 DEF Trabaja, Hace, Borra
    <3> QED
      BY <1>1, <1>4, <1>6, <2>2, <3>1, <3>2
         DEF Vivo, Esta, Existe, Hace, Trabaja, Borra
  <2>5. Sustituida'
    BY <1>0, <1>1, <1>2, <1>4, <2>2, <2>3
       DEF Sustituida, Expira, Hace, Esta, Existe, Asignado, Completa
  <2>6. CopiaIntegra'
    BY <1>0, <1>1, <1>2, <2>2, <2>3, DelTrabajo
       DEF CopiaIntegra, Integra, Esta, Existe
  <2> QED
    BY <1>0, <1>2, <1>3, <2>4, <2>5, <2>6
<1>7. CASE Muere(w) \/ \E j \in Ids : LeeExpirar(w, j)
  <2>1. UNCHANGED objeto /\ ~ Hace(w, "empaca")' /\ ~ Hace(w, "registra")'
    BY <1>0, <1>7 DEF Muere, LeeExpirar, Descansa, TypeOK, Hace, Ocioso
  <2>2. Vivo'
    BY <1>1, <1>4, <2>1 DEF Vivo, Esta, Existe, Hace, Trabaja
  <2>3. Expira(w)' => LET j == obrero'[w].j IN
          /\ j \in DOMAIN trabajo /\ Esta(j, "COMPLETADO") /\ HayNueva(j)
    <3>1. CASE Muere(w)
      BY <1>0, <3>1 DEF Muere, Descansa, TypeOK, Expira, Hace, Ocioso
    <3>2. CASE \E j \in Ids : LeeExpirar(w, j)
      BY <1>0, <3>2 DEF LeeExpirar, TypeOK, Esta, Existe
    <3> QED
      BY <1>7, <3>1, <3>2
  <2>4. Sustituida'
    BY <1>0, <1>1, <1>2, <1>4, <2>3
       DEF Sustituida, Expira, Hace, Esta, Existe, Asignado
  <2>5. CopiaIntegra'
    BY <1>1, <1>2, <2>1 DEF CopiaIntegra, Integra, Esta, Existe
  <2> QED
    BY <1>0, <1>2, <1>3, <2>2, <2>4, <2>5
<1> QED
  BY <1>5, <1>6, <1>7

(* The end of a job, well or not, and the mark of six hours.                *)
LEMMA PuntualFila ==
  ASSUME IInvPuntual, NEW w \in Obreros,
         Registra(w) \/ Falla(w) \/ EscribeExpirar(w)
  PROVE  IInvPuntual'
<1> USE DEF IInvPuntual
<1>0. TypeOK /\ Asignado /\ IInvCola' /\ TypeOK'
  BY ColaObreros DEF IInvCola, Obra
<1>1. PICK j \in DOMAIN trabajo : j = obrero[w].j
  BY <1>0 DEF Registra, Falla, EscribeExpirar, Asignado, Existe, Hace
<1>2. /\ Mismas /\ Descansa(w) /\ UNCHANGED <<hoy, objeto, peticion>>
      /\ \A k \in DOMAIN trabajo : k # j => trabajo'[k] = trabajo[k]
  BY <1>0, <1>1, AlRegistrar, AlFallar, AlExpirar DEF Existe
<1>3. Conserva /\ DOMAIN trabajo' = DOMAIN trabajo /\ j \in Ids
  BY <1>0, <1>2, DelTrabajo DEF Mismas, Conserva
<1>4. /\ obrero'[w] = Ocioso
      /\ \A v \in Obreros : v # w => obrero'[v] = obrero[v]
  BY <1>0, <1>2 DEF Descansa, TypeOK
<1>5. \A v \in Obreros, k \in Ids : Trabaja(v, k)' =>
        v # w /\ Trabaja(v, k)
  BY <1>4 DEF Trabaja, Hace, Ocioso
<1>6. \A v \in Obreros : Expira(v)' => v # w /\ Expira(v)
  BY <1>4 DEF Expira, Hace, Ocioso
<1>7. CASE Registra(w) \/ Falla(w)
  <2>1. Trabaja(w, j) /\ Esta(j, "PROCESANDO")
    BY <1>1, <1>3, <1>7 DEF Registra, Falla, Trabaja, Hace, Vivo
  <2>2. \A v \in Obreros : ~ Trabaja(v, j)'
    BY <1>3, <1>5, <2>1 DEF Vivo
  <2>3. Vivo'
    <3> SUFFICES ASSUME NEW v \in Obreros, NEW k \in Ids, Trabaja(v, k)'
                 PROVE  /\ Esta(k, "PROCESANDO")' /\ ~ trabajo'[k].vencido
                        /\ Hace(v, "registra")' => objeto'[k] = obrero'[v].sha
                        /\ \A u \in Obreros : Trabaja(u, k)' => u = v
      BY DEF Vivo
    <3>1. k # j /\ Trabaja(v, k) /\ v # w /\ Esta(k, "PROCESANDO")
      BY <1>5, <2>2 DEF Vivo
    <3>2. k \in DOMAIN trabajo /\ trabajo'[k] = trabajo[k]
      BY <1>2, <3>1 DEF Esta, Existe
    <3> QED
      BY <1>2, <1>3, <1>4, <1>5, <3>1, <3>2 DEF Vivo, Esta, Existe, Hace
  <2>4. ~ Completa(j) /\ ~ Esta(j, "EXPIRADO")
    BY <2>1 DEF Esta, Completa
  <2>5. NuevasSiguen /\ TieneUltima'
    <3>1. \A k \in DOMAIN trabajo' : k # j =>
            (Completa(k)' <=> k \in DOMAIN trabajo /\ Completa(k))
      BY <1>2, <1>3 DEF Completa, Esta, Existe
    <3>2. CASE Completa(j)'
      BY <1>0, <1>3, <3>1, <3>2, UnaCopiaMas
    <3>3. CASE ~ Completa(j)'
      <4>1. \A k \in DOMAIN trabajo' :
              Completa(k)' <=> k \in DOMAIN trabajo /\ Completa(k)
        BY <2>4, <3>1, <3>3
      <4> QED
        BY <1>0, <1>3, <4>1, CopiasIguales
    <3> QED
      BY <3>2, <3>3
  <2>6. Sustituida'
    <3>1. \A v \in Obreros : Expira(v) => obrero[v].j # j
      BY <2>4 DEF Sustituida, Completa
    <3> QED
      BY <1>0, <1>2, <1>3, <1>4, <1>6, <2>5, <3>1
         DEF Sustituida, NuevasSiguen, Esta, Existe, Asignado, Expira, Hace
  <2>7. CopiaIntegra'
    <3>1. Completa(j)' => Integra(j)'
      <4>1. CASE Registra(w)
        <5>1. trabajo'[j] = [trabajo[j] EXCEPT !.estado = "COMPLETADO",
                                               !.sha = obrero[w].sha]
          BY <1>0, <1>1, <4>1, AlRegistrar DEF Existe
        <5>2. trabajo'[j].sha = obrero[w].sha
          BY <1>0, <5>1, DelTrabajo DEF Trabajo
        <5>3. objeto[j] = obrero[w].sha
          BY <1>3, <2>1, <4>1 DEF Vivo, Registra
        <5> QED
          BY <1>2, <5>2, <5>3 DEF Integra, Completa
      <4>2. CASE Falla(w)
        <5>1. \/ trabajo' = trabajo
              \/ trabajo'[j] = [trabajo[j] EXCEPT !.estado =
                                  TrasFallo(trabajo[j].intentos)]
          BY <1>0, <1>1, <4>2, AlFallar DEF Existe
        <5>2. trabajo'[j].estado \in {"PENDIENTE", "FALLIDO", "PROCESANDO"}
          BY <1>0, <2>1, <5>1, DelTrabajo DEF Trabajo, TrasFallo, Esta
        <5> QED
          BY <5>2 DEF Completa, Esta
      <4> QED
        BY <1>7, <4>1, <4>2
    <3>2. ASSUME NEW k \in DOMAIN trabajo, k # j, Completa(k)'
          PROVE  (Integra(k) \/ (objeto[k] = 0 /\ HayNueva(k)))'
      BY <1>2, <2>5, <3>2
         DEF CopiaIntegra, Integra, Completa, Esta, Existe, NuevasSiguen
    <3> QED
      BY <1>3, <3>1, <3>2 DEF CopiaIntegra, Completa
  <2>8. Quieta'
    BY <1>2, <1>3, <2>1 DEF Quieta, SinActivos, De, Activo, Esta, Existe, En,
       Mismas
  <2> QED
    BY <1>0, <2>3, <2>5, <2>6, <2>7, <2>8
<1>8. CASE EscribeExpirar(w)
  <2>1. /\ HayNueva(j) /\ (Completa(j) \/ Esta(j, "EXPIRADO"))
        /\ ~ Esta(j, "PROCESANDO")
    BY <1>1, <1>8 DEF EscribeExpirar, Sustituida, Expira, Completa, Esta
  <2>2. trabajo'[j].estado = "EXPIRADO"
    <3>1. trabajo'[j] = [trabajo[j] EXCEPT !.estado = "EXPIRADO"]
      BY <1>0, <1>1, <1>8, AlExpirar DEF Existe
    <3> QED
      BY <1>0, <3>1, DelTrabajo DEF Trabajo
  <2>3. NuevasSiguen /\ TieneUltima'
    <3>1. \A k \in DOMAIN trabajo' :
            Completa(k)' <=> k \in DOMAIN trabajo /\ Completa(k) /\ k # j
      BY <1>2, <1>3, <2>2 DEF Completa, Esta, Existe
    <3> QED
      BY <1>0, <1>3, <2>1, <3>1, UnaCopiaMenos
  <2>4. Vivo'
    <3> SUFFICES ASSUME NEW v \in Obreros, NEW k \in Ids, Trabaja(v, k)'
                 PROVE  /\ Esta(k, "PROCESANDO")' /\ ~ trabajo'[k].vencido
                        /\ Hace(v, "registra")' => objeto'[k] = obrero'[v].sha
                        /\ \A u \in Obreros : Trabaja(u, k)' => u = v
      BY DEF Vivo
    <3>1. k # j /\ Trabaja(v, k) /\ v # w /\ Esta(k, "PROCESANDO")
      BY <1>5, <2>1 DEF Vivo
    <3>2. k \in DOMAIN trabajo /\ trabajo'[k] = trabajo[k]
      BY <1>2, <3>1 DEF Esta, Existe
    <3> QED
      BY <1>2, <1>3, <1>4, <1>5, <3>1, <3>2 DEF Vivo, Esta, Existe, Hace
  <2>5. Sustituida'
    BY <1>0, <1>2, <1>3, <1>4, <1>6, <2>2, <2>3
       DEF Sustituida, NuevasSiguen, Esta, Existe, Asignado, Expira, Hace
  <2>6. CopiaIntegra'
    BY <1>2, <1>3, <2>2, <2>3
       DEF CopiaIntegra, Integra, Esta, Existe, NuevasSiguen
  <2>7. Quieta'
    BY <1>2, <1>3, <2>2 DEF Quieta, SinActivos, De, Activo, Esta, Existe, En,
       Mismas
  <2> QED
    BY <1>0, <2>3, <2>4, <2>5, <2>6, <2>7
<1> QED
  BY <1>7, <1>8

LEMMA PuntualTiempo ==
  ASSUME IInvPuntual, Puntual, Amanece \/ \E j \in Ids : SeisHoras(j)
  PROVE  IInvPuntual'
<1> USE DEF IInvPuntual
<1>0. TypeOK /\ Asignado /\ IInvCola'
  BY ColaTiempo DEF IInvCola
<1>1. CASE Amanece
  BY <1>0, <1>1 DEF Amanece, Vivo, Sustituida, TieneUltima, CopiaIntegra,
     Quieta, Trabaja, Hace, Expira, Esta, Existe, HayNueva, De, Antes, Ultima,
     Integra, SinActivos, Activo, En
<1>2. ASSUME NEW j \in Ids, SeisHoras(j)
      PROVE  IInvPuntual'
  <2>1. /\ j \in DOMAIN trabajo /\ Mismas
        /\ trabajo'[j] = [trabajo[j] EXCEPT !.vencido = TRUE]
        /\ \A k \in DOMAIN trabajo : k # j => trabajo'[k] = trabajo[k]
        /\ UNCHANGED <<hoy, objeto, obrero, peticion>>
    BY <1>0, <1>2, TrasSeisHoras
  <2>2. /\ trabajo[j].estado = "PROCESANDO"
        /\ trabajo'[j].estado = "PROCESANDO"
        /\ \A w \in Obreros : ~ Trabaja(w, j)
    BY <1>0, <1>2, <2>1, DelTrabajo DEF SeisHoras, Esta, Trabajo
  <2>3. Conserva /\ DOMAIN trabajo' = DOMAIN trabajo
    BY <2>1 DEF Mismas, Conserva
  <2>4. NuevasSiguen /\ TieneUltima'
    <3>1. \A k \in DOMAIN trabajo' :
            Completa(k)' <=> k \in DOMAIN trabajo /\ Completa(k)
      BY <2>1, <2>2, <2>3 DEF Completa, Esta, Existe
    <3> QED
      BY <1>0, <2>3, <3>1, CopiasIguales
  <2>5. Vivo'
    BY <2>1, <2>2, <2>3 DEF Vivo, Esta, Existe, Hace, Trabaja
  <2>6. Sustituida'
    BY <1>0, <2>1, <2>2, <2>3, <2>4
       DEF Sustituida, NuevasSiguen, Esta, Existe, Asignado, Expira, Hace
  <2>7. CopiaIntegra'
    BY <2>1, <2>2, <2>3, <2>4
       DEF CopiaIntegra, Integra, Esta, Existe, NuevasSiguen
  <2>8. Quieta'
    BY <2>1, <2>2, <2>3
       DEF Quieta, SinActivos, De, Activo, Esta, Existe, En, Mismas
  <2> QED
    BY <1>0, <2>4, <2>5, <2>6, <2>7, <2>8
<1> QED
  BY <1>1, <1>2

LEMMA PuntualSigue ==
  ASSUME Puntual
  PROVE  IInvPuntual /\ [Next]_vars => IInvPuntual'
<1> SUFFICES ASSUME IInvPuntual, [Next]_vars PROVE IInvPuntual'
  OBVIOUS
<1>1. CASE Next
  <2>1. ASSUME NEW w \in Obreros,
               Obra(w) \/ Muere(w) \/ \E j \in Ids : LeeExpirar(w, j)
        PROVE  IInvPuntual'
    BY <2>1, PuntualReclama, PuntualObjeto, PuntualFila DEF Obra
  <2> QED
    BY <1>1, <2>1, PasosCola, PuntualPeticiones, PuntualInserciones,
       PuntualTiempo
<1>2. CASE UNCHANGED vars
  <2>1. IInvCola'
    BY <1>2, ColaSigue DEF IInvPuntual
  <2> QED
    BY <1>2, <2>1 DEF vars, IInvPuntual, Vivo, Sustituida, TieneUltima,
     CopiaIntegra, Quieta, Trabaja, Hace, Expira, Esta, Existe, HayNueva, De,
     Antes, Ultima, Integra, SinActivos, Activo, En
<1> QED
  BY <1>1, <1>2

----------------------------------------------------------------------------
(* What no step does to a job that ended: a complete copy only expires, and *)
(* its object only goes, when there is a newer one.                         *)
LEMMA DelTerminado ==
  ASSUME IInvPuntual, [Next]_vars, NEW j \in DOMAIN trabajo, ~ Activo(j)
  PROVE  /\ j \in DOMAIN trabajo'
         /\ \/ trabajo'[j] = trabajo[j]
            \/ /\ HayNueva(j)
               /\ trabajo[j].estado \in {"COMPLETADO", "EXPIRADO"}
               /\ trabajo'[j] = [trabajo[j] EXCEPT !.estado = "EXPIRADO"]
         /\ objeto'[j] = objeto[j] \/ HayNueva(j)
<1> USE DEF IInvPuntual
<1>0. /\ TypeOK /\ Acotado /\ Asignado /\ Existe(j) /\ j \in Ids
      /\ objeto \in [Ids -> Sumas]
  BY DelTrabajo DEF IInvCola, Existe, TypeOK
<1>1. CASE UNCHANGED <<trabajo, objeto>>
  BY <1>1
<1>2. ASSUME NEW t \in Trabajo, Alta(t),
             UNCHANGED objeto \/ objeto' = [objeto EXCEPT ![Nueva] = t.sha]
      PROVE  /\ j \in DOMAIN trabajo' /\ trabajo'[j] = trabajo[j]
             /\ objeto'[j] = objeto[j]
  BY <1>0, <1>2, TrasAlta
<1>3. CASE \E e \in Empresas : Encola(e)
  <2>1. PICK e \in Empresas :
          /\ Inserta(e, "MANUAL", hoy, "PENDIENTE", 0) /\ UNCHANGED objeto
          /\ 0 \in Sumas /\ hoy \in Dias
    BY <1>0, <1>3, CotasRespaldo DEF Encola, Sumas, TypeOK
  <2>2. PICK t \in Trabajo : Alta(t)
    BY <2>1, DeInserta
  <2> QED
    BY <1>2, <2>1, <2>2
<1>4. CASE \E p \in Peticiones : EscribePlanificar(p) \/ EscribeCopia(p)
  <2>1. PICK p \in Peticiones : EscribePlanificar(p) \/ EscribeCopia(p)
    BY <1>4
  <2>2. /\ peticion[p].e \in Empresas /\ peticion[p].dia \in Dias
        /\ 0 \in Sumas /\ 1 \in Sumas
    BY <1>0, <2>1, DeLaPeticion, CotasRespaldo
       DEF EscribePlanificar, EscribeCopia, En, Sumas
  <2>3. CASE EscribePlanificar(p)
    <3>1. /\ Inserta(peticion[p].e, "AUTO", peticion[p].dia, "PENDIENTE", 0)
          /\ UNCHANGED objeto
      BY <2>3 DEF EscribePlanificar
    <3>2. PICK t \in Trabajo : Alta(t)
      BY <2>2, <3>1, DeInserta
    <3> QED
      BY <1>2, <3>1, <3>2
  <2>4. CASE EscribeCopia(p)
    <3>1. /\ Inserta(peticion[p].e, "MANUAL", peticion[p].dia, "COMPLETADO", 1)
          /\ objeto' = [objeto EXCEPT ![Nueva] = 1]
      BY <2>4 DEF EscribeCopia, Nueva
    <3>2. PICK t \in Trabajo : Alta(t) /\ t.sha = 1
      BY <2>2, <3>1, DeInserta
    <3> QED
      BY <1>2, <3>1, <3>2
  <2> QED
    BY <2>1, <2>3, <2>4
<1>5. ASSUME NEW w \in Obreros, Reclama(w)
      PROVE  /\ j \in DOMAIN trabajo' /\ trabajo'[j] = trabajo[j]
             /\ objeto'[j] = objeto[j]
  <2>1. PICK k \in DOMAIN trabajo : Reclamado(w, k)
    BY <1>0, <1>5, AlReclamar
  <2>2. ~ Reclamable(j) /\ j # k
    BY <2>1 DEF Reclamado, Reclamable, Activo
  <2> QED
    BY <1>0, <1>5, <2>1, <2>2, AlReclamar DEF Reclamado, Mismas
<1>6. ASSUME NEW w \in Obreros, Sube(w) \/ Borra(w)
      PROVE  /\ UNCHANGED trabajo
             /\ objeto'[j] = objeto[j] \/ HayNueva(j)
  <2>1. CASE Sube(w)
    <3>1. obrero[w].j # j
      BY <1>0, <2>1, DelObrero DEF Sube, Vivo, Trabaja, Activo, Hace
    <3> QED
      BY <1>0, <2>1, <3>1 DEF Sube
  <2>2. CASE Borra(w)
    <3>1. obrero[w].j = j => HayNueva(j)
      BY <2>2 DEF Borra, Sustituida, Expira
    <3> QED
      BY <1>0, <2>2, <3>1 DEF Borra
  <2> QED
    BY <1>6, <2>1, <2>2
<1>7. ASSUME NEW w \in Obreros, Registra(w) \/ Falla(w)
      PROVE  /\ j \in DOMAIN trabajo' /\ trabajo'[j] = trabajo[j]
             /\ objeto'[j] = objeto[j]
  <2>1. Existe(obrero[w].j)
    BY <1>0, <1>7 DEF Registra, Falla, Asignado, Hace
  <2>2. /\ Mismas /\ UNCHANGED objeto
        /\ \A k \in DOMAIN trabajo :
             k # obrero[w].j => trabajo'[k] = trabajo[k]
    BY <1>0, <1>7, <2>1, AlRegistrar, AlFallar
  <2>3. obrero[w].j # j
    BY <1>0, <1>7 DEF Registra, Falla, Vivo, Trabaja, Activo, Hace
  <2> QED
    BY <2>2, <2>3 DEF Mismas
<1>8. ASSUME NEW w \in Obreros, EscribeExpirar(w)
      PROVE  /\ j \in DOMAIN trabajo' /\ objeto'[j] = objeto[j]
             /\ \/ trabajo'[j] = trabajo[j]
                \/ /\ HayNueva(j)
                   /\ trabajo[j].estado \in {"COMPLETADO", "EXPIRADO"}
                   /\ trabajo'[j] = [trabajo[j] EXCEPT !.estado = "EXPIRADO"]
  <2>1. Existe(obrero[w].j)
    BY <1>0, <1>8 DEF EscribeExpirar, Asignado, Hace
  <2>2. /\ Mismas /\ UNCHANGED objeto
        /\ \A k \in DOMAIN trabajo :
             k # obrero[w].j => trabajo'[k] = trabajo[k]
        /\ trabajo'[obrero[w].j] =
             [trabajo[obrero[w].j] EXCEPT !.estado = "EXPIRADO"]
    BY <1>0, <1>8, <2>1, AlExpirar
  <2>3. obrero[w].j = j =>
          HayNueva(j) /\ trabajo[j].estado \in {"COMPLETADO", "EXPIRADO"}
    BY <1>8 DEF EscribeExpirar, Sustituida, Expira, Esta
  <2> QED
    BY <2>2, <2>3 DEF Mismas
<1>9. ASSUME NEW k \in Ids, SeisHoras(k)
      PROVE  /\ j \in DOMAIN trabajo' /\ trabajo'[j] = trabajo[j]
             /\ objeto'[j] = objeto[j]
  <2>1. k # j
    BY <1>9 DEF SeisHoras, Activo
  <2> QED
    BY <1>0, <1>9, <2>1, TrasSeisHoras DEF Mismas
<1>10. CASE Next
  <2>1. \A p \in Peticiones :
          \/ \E e \in Empresas :
               LeeCopia(p, e) \/ \E d \in Dias : LeePlanificar(p, e, d)
          \/ LeeRestaurar(p) \/ EscribeRestaurar(p) \/ Revierte(p)
          => UNCHANGED <<trabajo, objeto>>
    BY DEF LeeCopia, LeePlanificar, LeeRestaurar, EscribeRestaurar, Revierte
  <2>2. Amanece => UNCHANGED <<trabajo, objeto>>
    BY DEF Amanece
  <2>3. ASSUME NEW w \in Obreros,
               Muere(w) \/ \E k \in Ids : LeeExpirar(w, k)
        PROVE  UNCHANGED <<trabajo, objeto>>
    BY <2>3 DEF Muere, LeeExpirar
  <2>4. ASSUME NEW w \in Obreros,
               Obra(w) \/ Muere(w) \/ \E k \in Ids : LeeExpirar(w, k)
        PROVE  /\ j \in DOMAIN trabajo'
               /\ \/ trabajo'[j] = trabajo[j]
                  \/ /\ HayNueva(j)
                     /\ trabajo[j].estado \in {"COMPLETADO", "EXPIRADO"}
                     /\ trabajo'[j] = [trabajo[j] EXCEPT !.estado = "EXPIRADO"]
               /\ objeto'[j] = objeto[j] \/ HayNueva(j)
    <3>1. CASE Sube(w) \/ Borra(w)
      BY <1>6, <3>1
    <3>2. CASE Muere(w) \/ \E k \in Ids : LeeExpirar(w, k)
      BY <2>3, <3>2
    <3> QED
      BY <1>5, <1>7, <1>8, <2>4, <3>1, <3>2 DEF Obra
  <2>5. CASE Amanece \/ \E k \in Ids : SeisHoras(k)
    BY <1>1, <1>9, <2>2, <2>5
  <2>6. CASE \E p \in Peticiones :
               \/ \E e \in Empresas :
                    LeeCopia(p, e) \/ \E d \in Dias : LeePlanificar(p, e, d)
               \/ LeeRestaurar(p) \/ EscribeRestaurar(p) \/ Revierte(p)
    BY <1>1, <2>1, <2>6
  <2>7. CASE \E w \in Obreros :
               Obra(w) \/ Muere(w) \/ \E k \in Ids : LeeExpirar(w, k)
    BY <2>4, <2>7
  <2> QED
    BY <1>3, <1>4, <1>10, <2>5, <2>6, <2>7, PasosCola
<1> QED
  BY <1>1, <1>10 DEF vars

----------------------------------------------------------------------------
(* The theorems of the queue. *)

(* The rows, the workers and the requests are always of their types, a job  *)
(* is claimed at most MaxIntentos times and a planner never repeats a day.  *)
THEOREM ColaInvariante == Spec => []IInvCola
  BY ColaInit, ColaSigue, PTL DEF Spec

(* One automatic backup a day, however slow the workers and however many    *)
(* planners (schedule_daily_backups).                                       *)
THEOREM UnaPorDia == Spec => []UnaAutoPorDia
<1>1. IInvCola => UnaAutoPorDia
  BY DEF IInvCola
<1> QED
  BY <1>1, ColaInvariante, PTL

(* While no live worker needs six hours, a job in progress has one worker   *)
(* and what is COMPLETADO is there (_claim, _process).                      *)
THEOREM PuntualInvariante ==
  ASSUME Puntual
  PROVE  Spec => []IInvPuntual
BY PuntualInit, PuntualSigue, PTL DEF Spec

LEMMA ColaEsSegura == IInvPuntual => ColaSegura
<1> SUFFICES ASSUME IInvPuntual PROVE RestauraSinCopias
  BY DEF IInvPuntual, IInvCola, ColaSegura
<1> SUFFICES ASSUME NEW p \in Peticiones, NEW w \in Obreros,
                    En(p, "restaurar"), NEW j \in De(peticion[p].e),
                    Trabaja(w, j)
             PROVE  FALSE
  BY DEF RestauraSinCopias
<1>1. TypeOK /\ j \in DOMAIN trabajo
  BY DEF IInvPuntual, IInvCola, De
<1>2. j \in Ids
  BY <1>1, DelTrabajo
<1> QED
  BY <1>2 DEF IInvPuntual, Vivo, Quieta, SinActivos, Activo

(* The queue makes one automatic backup a day, works on no company that is  *)
(* being restored, and has what it calls complete, if no live worker needs  *)
(* six hours for one job.                                                   *)
THEOREM ColaSiempreSegura ==
  ASSUME Puntual
  PROVE  Spec => []ColaSegura
BY ColaEsSegura, PuntualInvariante, PTL

(* A company that can be restored can always be, and a job that ended stays *)
(* ended.                                                                   *)
LEMMA UltimaQueda ==
  ASSUME IInvPuntual, [Next]_vars, NEW e \in Empresas, Copias(e) # {}
  PROVE  Copias(e)' # {}
<1> USE DEF IInvPuntual
<1>1. PICK j \in De(e) : Completa(j)
  BY DEF Copias, Integra, Completa
<1>2. PICK k \in De(e) : Ultima(k)
  BY <1>1 DEF TieneUltima, De, Completa
<1>3. /\ k \in DOMAIN trabajo /\ trabajo[k].empresa = e
      /\ Integra(k) /\ ~ Activo(k) /\ ~ HayNueva(k)
  BY <1>2 DEF Ultima, CopiaIntegra, De, Activo, Esta
<1>4. /\ k \in DOMAIN trabajo' /\ trabajo'[k] = trabajo[k]
      /\ objeto'[k] = objeto[k]
  BY <1>3, DelTerminado
<1> QED
  BY <1>3, <1>4 DEF Copias, Integra, Esta, Existe, De

LEMMA PasoFirme ==
  ASSUME IInvPuntual, [Next]_vars, NEW j \in DOMAIN trabajo
  PROVE  /\ trabajo[j].estado \in {"FALLIDO", "EXPIRADO"} =>
              trabajo'[j] = trabajo[j]
         /\ trabajo[j].estado = "COMPLETADO" =>
              trabajo'[j] \in {trabajo[j],
                               [trabajo[j] EXCEPT !.estado = "EXPIRADO"]}
<1>1. CASE Activo(j)
  BY <1>1 DEF Activo, Esta
<1>2. CASE ~ Activo(j)
  <2>1. trabajo[j].estado = "EXPIRADO" =>
          [trabajo[j] EXCEPT !.estado = "EXPIRADO"] = trabajo[j]
    BY DelTrabajo DEF IInvPuntual, IInvCola, Trabajo
  <2> QED
    BY <1>2, <2>1, DelTerminado
<1> QED
  BY <1>1, <1>2

(* No step takes the last copy away from a company nor reopens a job, if no *)
(* live worker needs six hours for one job (expire_old_backups, _process).  *)
THEOREM CopiasSiempreFirmes ==
  ASSUME Puntual
  PROVE  Spec => CopiasFirmes
<1>1. IInvPuntual /\ [Next]_vars =>
        [\A e \in Empresas : Copias(e) # {} => Copias(e)' # {}]_vars
  BY UltimaQueda
<1>2. IInvPuntual /\ [Next]_vars =>
        [\A j \in DOMAIN trabajo :
           /\ trabajo[j].estado \in {"FALLIDO", "EXPIRADO"} =>
                trabajo'[j] = trabajo[j]
           /\ trabajo[j].estado = "COMPLETADO" =>
                trabajo'[j] \in {trabajo[j],
                                 [trabajo[j] EXCEPT !.estado = "EXPIRADO"]}]_vars
  BY PasoFirme
<1> QED
  BY <1>1, <1>2, PuntualInvariante, PTL
     DEF Spec, CopiasFirmes, ConservaCopia, TerminadoEsFinal

(***************************************************************************)
(* The restore of a company (RestauracionEmpresa).                         *)
(***************************************************************************)
(* The restore of a company: the inductive invariant. *)

(* A package has the file of every row in it that has one.                  *)
CopiasIntegras == \A k \in DOMAIN copias : R!Valida(k)

(* A restore goes on with a copy that exists and with its safety copy.      *)
ConFoto == {"copia", "seguridad", "copiada", "instala"}
ConCopia == {"seguridad", "copiada", "instala"}
Asegurada ==
  \A p \in Peticiones :
    /\ tramite[p].op \in ConCopia => tramite[p].k \in DOMAIN copias
    /\ R!En(p, "copiada") \/ R!En(p, "instala") =>
         tramite[p].foto \subseteq R!Guardado

(* All this whether or not restores wait for each other.                    *)
IInvCopias == R!TypeOK /\ CopiasIntegras /\ Asegurada /\ R!ConAutor

(* One request at a time puts files of copies on the volume or takes them   *)
(* back (Ordenadas).                                                        *)
Escribe(p) == R!En(p, "instala") \/ R!En(p, "deshace")
UnaEscribe == \A p, q \in Peticiones : Escribe(p) /\ Escribe(q) => p = q

(* A file that waits for its row is nobody else's.                          *)
SubidaSola ==
  \A p \in Peticiones : R!En(p, "sube") =>
    LET d == tramite[p].d IN
    /\ d \in disco \ filas
    /\ \A k \in DOMAIN copias : d \notin copias[k].filas
    /\ \A q \in Peticiones \ {p} : R!En(q, "sube") => tramite[q].d # d
    /\ \A q \in Peticiones : tramite[q].op \in ConFoto =>
         d \notin tramite[q].foto

(* The files of the copy are on the volume before its rows are back; those  *)
(* that a failure takes away are of the copy and of no row.                 *)
Retorno ==
  \A p \in Peticiones :
    /\ R!En(p, "instala") => copias[tramite[p].k].archivos \subseteq disco
    /\ Escribe(p) =>
         /\ tramite[p].nuevos \cap filas = {}
         /\ \E k \in DOMAIN copias :
              tramite[p].nuevos \subseteq copias[k].filas

IInvRestauracion ==
  IInvCopias /\ UnaEscribe /\ SubidaSola /\ Retorno /\ R!ConArchivo

----------------------------------------------------------------------------
(* What the copies and the requests are made of.                            *)
Empaquetado == [filas : SUBSET R!Cosas, archivos : SUBSET Documentos]

LEMMA DeLasCopias ==
  ASSUME R!TypeOK
  PROVE  /\ Len(copias) \in Nat /\ Len(copias) <= MaxCopias
         /\ DOMAIN copias = 1 .. Len(copias)
         /\ DOMAIN copias \subseteq 1 .. MaxCopias
         /\ copias \in Seq(Empaquetado)
         /\ \A k \in DOMAIN copias :
              /\ copias[k].filas \in SUBSET R!Cosas
              /\ copias[k].archivos \in SUBSET Documentos
<1>1. copias \in Seq(Empaquetado)
  BY DEF R!TypeOK, Empaquetado
<1>2. Len(copias) <= MaxCopias
  BY DEF R!TypeOK
<1>3. /\ Len(copias) \in Nat /\ DOMAIN copias = 1 .. Len(copias)
      /\ \A k \in DOMAIN copias : copias[k] \in Empaquetado
  BY <1>1
<1>4. DOMAIN copias \subseteq 1 .. MaxCopias
  BY <1>2, <1>3, CotaCopias
<1> QED
  BY <1>1, <1>2, <1>3, <1>4 DEF Empaquetado

LEMMA DelPedido ==
  ASSUME R!TypeOK, NEW p \in Peticiones
  PROVE  /\ tramite[p] \in R!Peticion
         /\ R!En(p, "sube") => tramite[p].d \in Documentos
         /\ tramite[p].op \in ConFoto => tramite[p].foto \in SUBSET R!Cosas
         /\ tramite[p].op \in ConCopia => tramite[p].k \in 1 .. MaxCopias
         /\ Escribe(p) => tramite[p].nuevos \in SUBSET Documentos
         /\ R!En(p, "seguridad") =>
              tramite[p] = [op |-> "seguridad", k |-> tramite[p].k,
                             foto |-> tramite[p].foto]
<1>1. tramite[p] \in R!Peticion
  BY DEF R!TypeOK
<1> QED
  BY <1>1 DEF R!Peticion, R!Reposo, R!En, Escribe, ConFoto, ConCopia

(* A package takes the next place, and it is valid.                         *)
LEMMA AlEmpaquetar ==
  ASSUME R!TypeOK, NEW foto \in SUBSET R!Cosas, R!Empaqueta(foto)
  PROVE  /\ copias' \in Seq(Empaquetado) /\ Len(copias') <= MaxCopias
         /\ \E n : /\ n \notin DOMAIN copias
                   /\ DOMAIN copias' = DOMAIN copias \cup {n}
                   /\ copias'[n] = [filas |-> foto,
                                    archivos |-> foto \cap Documentos]
                   /\ \A k \in DOMAIN copias : copias'[k] = copias[k]
<1> DEFINE k == [filas |-> foto, archivos |-> foto \cap Documentos]
<1>1. k \in Empaquetado
  BY DEF Empaquetado
<1>2. copias' = Append(copias, k) /\ Len(copias) < MaxCopias
  BY DEF R!Empaqueta
<1>3. copias \in Seq(Empaquetado) /\ Len(copias) \in Nat
      /\ DOMAIN copias = 1 .. Len(copias)
  BY DeLasCopias
<1> HIDE DEF k
<1>4. copias' \in Seq(Empaquetado) /\ Len(copias') = Len(copias) + 1
  BY <1>1, <1>2, <1>3
<1>5. /\ DOMAIN copias' = 1 .. Len(copias) + 1
      /\ copias'[Len(copias) + 1] = k
      /\ \A i \in DOMAIN copias : copias'[i] = copias[i]
  BY <1>1, <1>2, <1>3
<1>6. /\ Len(copias) + 1 \notin DOMAIN copias
      /\ DOMAIN copias' = DOMAIN copias \cup {Len(copias) + 1}
      /\ Len(copias') <= MaxCopias
  BY <1>2, <1>3, <1>4, <1>5, CotaCopias
<1> QED
  BY <1>4, <1>5, <1>6 DEF k

(* The steps of a request, and those of nobody's request.                   *)
Pisa(p) ==
  \/ R!upload_document(p) \/ R!create_tenant_package(p)
  \/ R!restore_tenant_backup(p) \/ R!Abandona(p)
DeLaEmpresa ==
  \/ \E u \in Usuarios : R!AltaUsuario(u) \/ R!Actua(u)
  \/ \E d \in Documentos : R!Limpia(d)

LEMMA Quietas ==
  ASSUME R!TypeOK, NEW p \in Peticiones, NEW m, R!Pasa(p, m)
  PROVE  /\ tramite'[p] = m
         /\ \A q \in Peticiones \ {p} : tramite'[q] = tramite[q]
BY DEF R!Pasa, R!TypeOK

LEMMA PasaTipoPedido ==
  ASSUME R!TypeOK, NEW p \in Peticiones, NEW m \in R!Peticion, R!Pasa(p, m)
  PROVE  tramite' \in [Peticiones -> R!Peticion]
BY DEF R!TypeOK, R!Pasa

LEMMA TipoSigue ==
  ASSUME IInvCopias, [R!Next]_deRestauracion
  PROVE  R!TypeOK'
<1> USE DEF IInvCopias
<1>0. R!Reposo \in R!Peticion /\ R!TypeOK
  BY DEF R!Peticion
<1> SUFFICES ASSUME R!Next PROVE R!TypeOK'
  BY DEF R!TypeOK, deRestauracion
<1>1. ASSUME NEW p \in Peticiones, NEW d \in Documentos, R!SubeArchivo(p, d)
      PROVE  R!TypeOK'
  <2>1. [op |-> "sube", d |-> d] \in R!Peticion
    BY DEF R!Peticion
  <2> QED
    BY <1>1, <2>1, PasaTipoPedido DEF R!SubeArchivo, R!TypeOK
<1>2. ASSUME NEW p \in Peticiones, R!InsertaFila(p) PROVE R!TypeOK'
  BY <1>0, <1>2, PasaTipoPedido, DelPedido DEF R!InsertaFila, R!TypeOK, R!Cosas
<1>3. ASSUME NEW p \in Peticiones, R!LeeCopia(p) PROVE R!TypeOK'
  <2>1. [op |-> "copia", foto |-> filas] \in R!Peticion
    BY <1>0 DEF R!Peticion, R!TypeOK
  <2> QED
    BY <1>0, <1>3, <2>1, PasaTipoPedido DEF R!LeeCopia, R!TypeOK
<1>4. ASSUME NEW p \in Peticiones, R!EscribeCopia(p) PROVE R!TypeOK'
  <2>1. tramite[p].foto \in SUBSET R!Cosas
    BY <1>4, DelPedido DEF R!EscribeCopia, R!En, ConFoto
  <2>2. copias' \in Seq(Empaquetado) /\ Len(copias') <= MaxCopias
    BY <1>4, <2>1, AlEmpaquetar DEF R!EscribeCopia
  <2> QED
    BY <1>0, <1>4, <2>2, PasaTipoPedido DEF R!EscribeCopia, R!TypeOK,
       Empaquetado
<1>5. ASSUME NEW p \in Peticiones, NEW k \in 1 .. MaxCopias, R!Pide(p, k)
      PROVE  R!TypeOK'
  <2>1. [op |-> "seguridad", k |-> k, foto |-> filas] \in R!Peticion
    BY <1>0 DEF R!Peticion, R!TypeOK
  <2> QED
    BY <1>0, <1>5, <2>1, PasaTipoPedido DEF R!Pide, R!TypeOK
<1>6. ASSUME NEW p \in Peticiones, R!Asegura(p) PROVE R!TypeOK'
  <2> DEFINE m == [tramite[p] EXCEPT !.op = "copiada"]
  <2>1. /\ tramite[p].foto \in SUBSET R!Cosas
        /\ tramite[p].k \in 1 .. MaxCopias
        /\ tramite[p] = [op |-> "seguridad", k |-> tramite[p].k,
                          foto |-> tramite[p].foto]
    BY <1>6, DelPedido DEF R!Asegura, R!En, ConFoto, ConCopia
  <2>2. m \in R!Peticion
    <3>1. m = [op |-> "copiada", k |-> tramite[p].k, foto |-> tramite[p].foto]
      BY <2>1
    <3> QED
      BY <2>1, <3>1 DEF R!Peticion
  <2>3. copias' \in Seq(Empaquetado) /\ Len(copias') <= MaxCopias
    BY <1>6, <2>1, AlEmpaquetar DEF R!Asegura
  <2> QED
    BY <1>6, <2>2, <2>3, PasaTipoPedido DEF R!Asegura, R!TypeOK, Empaquetado
<1>7. ASSUME NEW p \in Peticiones, R!Instala(p) PROVE R!TypeOK'
  <2> DEFINE k == tramite[p].k
             m == [op |-> "instala", k |-> k, foto |-> tramite[p].foto,
                   nuevos |-> R!Nuevos(k)]
  <2>1. /\ k \in DOMAIN copias /\ k \in 1 .. MaxCopias
        /\ tramite[p].foto \in SUBSET R!Cosas
    BY <1>7, DelPedido DEF R!Instala, R!En, ConFoto, ConCopia, Asegurada
  <2>2. copias[k].archivos \in SUBSET Documentos
    BY <2>1, DeLasCopias
  <2>3. m \in R!Peticion
    BY <2>1, <2>2 DEF R!Peticion, R!Nuevos
  <2> QED
    BY <1>7, <2>2, <2>3, PasaTipoPedido DEF R!Instala, R!TypeOK
<1>8. ASSUME NEW p \in Peticiones, R!Reemplaza(p) PROVE R!TypeOK'
  <2>1. tramite[p].k \in DOMAIN copias
    BY <1>8 DEF R!Reemplaza, R!En, ConCopia, Asegurada
  <2>2. copias[tramite[p].k].filas \subseteq R!Cosas
    BY <2>1, DeLasCopias
  <2> QED
    BY <1>0, <1>8, <2>2, PasaTipoPedido DEF R!Reemplaza, R!TypeOK
<1>9. ASSUME NEW p \in Peticiones, R!Falla(p) PROVE R!TypeOK'
  <2>1. tramite[p].nuevos \in SUBSET Documentos
    BY <1>9, DelPedido DEF R!Falla, Escribe
  <2>2. [op |-> "deshace", nuevos |-> tramite[p].nuevos] \in R!Peticion
    BY <2>1 DEF R!Peticion
  <2> QED
    BY <1>9, <2>2, PasaTipoPedido DEF R!Falla, R!TypeOK
<1>10. ASSUME NEW p \in Peticiones, R!Deshace(p) \/ R!Abandona(p)
       PROVE  R!TypeOK'
  BY <1>0, <1>10, PasaTipoPedido DEF R!Deshace, R!Abandona, R!TypeOK
<1>11. CASE DeLaEmpresa
  BY <1>0, <1>11 DEF DeLaEmpresa, R!AltaUsuario, R!Actua, R!Limpia, R!TypeOK,
     R!Cosas
<1> QED
  BY <1>1, <1>2, <1>3, <1>4, <1>5, <1>6, <1>7, <1>8, <1>9, <1>10, <1>11
     DEF R!Next, DeLaEmpresa, R!upload_document, R!create_tenant_package,
         R!restore_tenant_backup

----------------------------------------------------------------------------
(* The copies only grow, and a new one is the picture some request took.    *)
LEMMA CopiasCrecen ==
  ASSUME IInvCopias, [R!Next]_deRestauracion
  PROVE  /\ \A k \in DOMAIN copias :
              k \in DOMAIN copias' /\ copias'[k] = copias[k]
         /\ \A k \in DOMAIN copias' \ DOMAIN copias :
              /\ R!Valida(k)'
              /\ \E p \in Peticiones :
                   /\ tramite[p].op \in {"copia", "seguridad"}
                   /\ copias'[k].filas = tramite[p].foto
<1> USE DEF IInvCopias
<1>1. ASSUME NEW p \in Peticiones, R!EscribeCopia(p) \/ R!Asegura(p)
      PROVE  /\ \A k \in DOMAIN copias :
                  k \in DOMAIN copias' /\ copias'[k] = copias[k]
             /\ \A k \in DOMAIN copias' \ DOMAIN copias :
                  /\ R!Valida(k)'
                  /\ tramite[p].op \in {"copia", "seguridad"}
                  /\ copias'[k].filas = tramite[p].foto
  <2>1. /\ tramite[p].op \in {"copia", "seguridad"}
        /\ tramite[p].foto \in SUBSET R!Cosas
        /\ R!Empaqueta(tramite[p].foto)
    BY <1>1, DelPedido DEF R!EscribeCopia, R!Asegura, R!En, ConFoto
  <2>2. PICK n : /\ n \notin DOMAIN copias
                 /\ DOMAIN copias' = DOMAIN copias \cup {n}
                 /\ copias'[n] = [filas |-> tramite[p].foto,
                       archivos |-> tramite[p].foto \cap Documentos]
                 /\ \A k \in DOMAIN copias : copias'[k] = copias[k]
    BY <2>1, AlEmpaquetar
  <2> QED
    BY <2>1, <2>2 DEF R!Valida
<1>2. CASE copias' = copias
  BY <1>2
<1> QED
  BY <1>1, <1>2 DEF R!Next, deRestauracion, R!upload_document,
     R!create_tenant_package, R!restore_tenant_backup, R!SubeArchivo,
     R!InsertaFila, R!LeeCopia, R!Pide, R!Instala, R!Reemplaza, R!Falla,
     R!Deshace, R!Abandona, R!AltaUsuario, R!Actua, R!Limpia

LEMMA IntegrasSiguen ==
  ASSUME IInvCopias, [R!Next]_deRestauracion
  PROVE  CopiasIntegras' /\ R!Guardado \subseteq R!Guardado'
<1>1. \A k \in DOMAIN copias : R!Valida(k)'
  BY CopiasCrecen DEF IInvCopias, CopiasIntegras, R!Valida
<1>2. CopiasIntegras'
  BY <1>1, CopiasCrecen DEF CopiasIntegras
<1>3. ASSUME NEW x \in R!Guardado PROVE x \in R!Guardado'
  <2>1. PICK k \in DOMAIN copias : x \in copias[k].filas
    BY <1>3 DEF R!Guardado
  <2> QED
    BY <1>1, <2>1, CopiasCrecen DEF R!Guardado
<1> QED
  BY <1>2, <1>3

(* What the step of a request leaves it with.                               *)
LEMMA LlegaPedido ==
  ASSUME R!TypeOK, NEW p \in Peticiones, Pisa(p)
  PROVE  /\ \A q \in Peticiones \ {p} : tramite'[q] = tramite[q]
         /\ R!En(p, "sube")' =>
              \E d \in Documentos : R!SubeArchivo(p, d) /\ tramite'[p].d = d
         /\ R!En(p, "copia")' => R!LeeCopia(p) /\ tramite'[p].foto = filas
         /\ R!En(p, "seguridad")' => /\ tramite'[p].foto = filas
                                   /\ \E k \in 1 .. MaxCopias :
                                        R!Pide(p, k) /\ tramite'[p].k = k
         /\ R!En(p, "copiada")' => /\ R!Asegura(p)
                                 /\ tramite'[p].k = tramite[p].k
                                 /\ tramite'[p].foto = tramite[p].foto
         /\ R!En(p, "instala")' => /\ R!Instala(p)
                                 /\ tramite'[p].k = tramite[p].k
                                 /\ tramite'[p].foto = tramite[p].foto
                                 /\ tramite'[p].nuevos = R!Nuevos(tramite[p].k)
         /\ R!En(p, "deshace")' => /\ R!Falla(p)
                                 /\ tramite'[p].nuevos = tramite[p].nuevos
<1>1. \A m : R!Pasa(p, m) => /\ tramite'[p] = m
                           /\ \A q \in Peticiones \ {p} :
                                tramite'[q] = tramite[q]
  BY Quietas
<1>2. ASSUME R!Asegura(p)
      PROVE  /\ tramite'[p] = [op |-> "copiada", k |-> tramite[p].k,
                                foto |-> tramite[p].foto]
             /\ \A q \in Peticiones \ {p} : tramite'[q] = tramite[q]
  <2>1. tramite[p] = [op |-> "seguridad", k |-> tramite[p].k,
                       foto |-> tramite[p].foto]
    BY <1>2, DelPedido DEF R!Asegura
  <2> QED
    BY <1>1, <1>2, <2>1 DEF R!Asegura
<1>3. ASSUME NEW d \in Documentos, R!SubeArchivo(p, d)
      PROVE  /\ tramite'[p] = [op |-> "sube", d |-> d]
             /\ \A q \in Peticiones \ {p} : tramite'[q] = tramite[q]
  BY <1>1, <1>3 DEF R!SubeArchivo
<1>4. ASSUME NEW k \in 1 .. MaxCopias, R!Pide(p, k)
      PROVE  /\ tramite'[p] = [op |-> "seguridad", k |-> k, foto |-> filas]
             /\ \A q \in Peticiones \ {p} : tramite'[q] = tramite[q]
  BY <1>1, <1>4 DEF R!Pide
<1>5. ASSUME R!LeeCopia(p)
      PROVE  /\ tramite'[p] = [op |-> "copia", foto |-> filas]
             /\ \A q \in Peticiones \ {p} : tramite'[q] = tramite[q]
  BY <1>1, <1>5 DEF R!LeeCopia
<1>6. ASSUME R!Instala(p)
      PROVE  /\ tramite'[p] = [op |-> "instala", k |-> tramite[p].k,
                                foto |-> tramite[p].foto,
                                nuevos |-> R!Nuevos(tramite[p].k)]
             /\ \A q \in Peticiones \ {p} : tramite'[q] = tramite[q]
  BY <1>1, <1>6 DEF R!Instala
<1>7. ASSUME R!Falla(p)
      PROVE  /\ tramite'[p] = [op |-> "deshace", nuevos |-> tramite[p].nuevos]
             /\ \A q \in Peticiones \ {p} : tramite'[q] = tramite[q]
  BY <1>1, <1>7 DEF R!Falla
<1>8. ASSUME \/ R!InsertaFila(p) \/ R!EscribeCopia(p) \/ R!Reemplaza(p)
             \/ R!Deshace(p) \/ R!Abandona(p)
      PROVE  /\ tramite'[p] = R!Reposo
             /\ \A q \in Peticiones \ {p} : tramite'[q] = tramite[q]
  BY <1>1, <1>8 DEF R!InsertaFila, R!EscribeCopia, R!Reemplaza, R!Deshace,
     R!Abandona
<1>9. \/ \E d \in Documentos : R!SubeArchivo(p, d)
      \/ \E k \in 1 .. MaxCopias : R!Pide(p, k)
      \/ R!LeeCopia(p) \/ R!Instala(p) \/ R!Falla(p) \/ R!Asegura(p)
      \/ R!InsertaFila(p) \/ R!EscribeCopia(p) \/ R!Reemplaza(p)
      \/ R!Deshace(p) \/ R!Abandona(p)
  BY DEF Pisa, R!upload_document, R!create_tenant_package,
     R!restore_tenant_backup
<1> USE DEF R!En, R!Reposo
<1>10. CASE \E d \in Documentos : R!SubeArchivo(p, d)
  <2>1. PICK d \in Documentos : R!SubeArchivo(p, d)
    BY <1>10
  <2>2. /\ tramite'[p] = [op |-> "sube", d |-> d]
        /\ \A q \in Peticiones \ {p} : tramite'[q] = tramite[q]
    BY <1>3, <2>1
  <2> QED
    BY <2>1, <2>2
<1>11. CASE \E k \in 1 .. MaxCopias : R!Pide(p, k)
  <2>1. PICK k \in 1 .. MaxCopias : R!Pide(p, k)
    BY <1>11
  <2>2. /\ tramite'[p] = [op |-> "seguridad", k |-> k, foto |-> filas]
        /\ \A q \in Peticiones \ {p} : tramite'[q] = tramite[q]
    BY <1>4, <2>1
  <2> QED
    BY <2>1, <2>2
<1>12. CASE R!LeeCopia(p)
  BY <1>5, <1>12
<1>13. CASE R!Instala(p)
  BY <1>6, <1>13
<1>14. CASE R!Falla(p)
  BY <1>7, <1>14
<1>15. CASE R!Asegura(p)
  BY <1>2, <1>15
<1>16. CASE \/ R!InsertaFila(p) \/ R!EscribeCopia(p) \/ R!Reemplaza(p)
            \/ R!Deshace(p) \/ R!Abandona(p)
  BY <1>8, <1>16
<1> QED
  BY <1>9, <1>10, <1>11, <1>12, <1>13, <1>14, <1>15, <1>16

(* Everything else of the state stays when only a request moves.            *)
LEMMA SinPedido ==
  ASSUME [R!Next]_deRestauracion, ~ \E p \in Peticiones : Pisa(p)
  PROVE  tramite' = tramite /\ copias' = copias
BY DEF R!Next, Pisa, deRestauracion, R!AltaUsuario, R!Actua, R!Limpia

LEMMA AseguradaSigue ==
  ASSUME IInvCopias, [R!Next]_deRestauracion
  PROVE  Asegurada'
<1> USE DEF IInvCopias
<1>1. ASSUME NEW q \in Peticiones, tramite'[q] = tramite[q]
      PROVE  /\ tramite'[q].op \in ConCopia => tramite'[q].k \in DOMAIN copias'
             /\ R!En(q, "copiada")' \/ R!En(q, "instala")' =>
                  tramite'[q].foto \subseteq R!Guardado'
  BY <1>1, CopiasCrecen, IntegrasSiguen DEF Asegurada, R!En
<1>2. ASSUME NEW p \in Peticiones, Pisa(p)
      PROVE  Asegurada'
  <2>1. CASE R!En(p, "seguridad")'
    <3>1. \E k \in 1 .. MaxCopias : R!Pide(p, k) /\ tramite'[p].k = k
      BY <1>2, <2>1, LlegaPedido
    <3>2. tramite'[p].k \in DOMAIN copias'
      BY <3>1, CopiasCrecen DEF R!Pide, R!Valida
    <3> QED
      BY <1>1, <1>2, <2>1, <3>2, LlegaPedido DEF Asegurada, R!En
  <2>2. CASE R!En(p, "copiada")'
    <3>1. /\ R!Asegura(p) /\ tramite'[p].k = tramite[p].k
          /\ tramite'[p].foto = tramite[p].foto
      BY <1>2, <2>2, LlegaPedido
    <3>2. /\ tramite[p].op = "seguridad" /\ tramite[p].foto \in SUBSET R!Cosas
          /\ R!Empaqueta(tramite[p].foto)
      BY <3>1, DelPedido DEF R!Asegura, R!En, ConFoto
    <3>3. PICK n : /\ n \in DOMAIN copias'
                   /\ copias'[n].filas = tramite[p].foto
      <4>1. PICK n : /\ DOMAIN copias' = DOMAIN copias \cup {n}
                     /\ copias'[n] = [filas |-> tramite[p].foto,
                           archivos |-> tramite[p].foto \cap Documentos]
        BY <3>2, AlEmpaquetar
      <4> QED
        BY <4>1
    <3>4. tramite'[p].foto \subseteq R!Guardado'
      BY <3>1, <3>3, IntegrasSiguen DEF R!Guardado, CopiasIntegras
    <3>5. tramite'[p].k \in DOMAIN copias'
      BY <3>1, <3>2, CopiasCrecen DEF Asegurada, ConCopia
    <3> QED
      BY <1>1, <1>2, <2>2, <3>4, <3>5, LlegaPedido DEF Asegurada, R!En
  <2>3. CASE R!En(p, "instala")'
    <3>1. /\ R!Instala(p) /\ tramite'[p].k = tramite[p].k
          /\ tramite'[p].foto = tramite[p].foto
      BY <1>2, <2>3, LlegaPedido
    <3>2. /\ tramite[p].k \in DOMAIN copias
          /\ tramite[p].foto \subseteq R!Guardado
      BY <3>1 DEF R!Instala, R!En, Asegurada, ConCopia
    <3>3. /\ tramite'[p].k \in DOMAIN copias'
          /\ tramite'[p].foto \subseteq R!Guardado'
      BY <3>1, <3>2, CopiasCrecen, IntegrasSiguen
    <3> QED
      BY <1>1, <1>2, <2>3, <3>3, LlegaPedido DEF Asegurada, R!En
  <2>4. CASE /\ ~ R!En(p, "seguridad")' /\ ~ R!En(p, "copiada")'
             /\ ~ R!En(p, "instala")'
    BY <1>1, <1>2, <2>4, LlegaPedido DEF Asegurada, R!En, ConCopia
  <2> QED
    BY <2>1, <2>2, <2>3, <2>4
<1> QED
  BY <1>1, <1>2, SinPedido DEF Asegurada

LEMMA UnaSigue ==
  ASSUME Ordenadas, IInvRestauracion, [R!Next]_deRestauracion
  PROVE  UnaEscribe'
<1> USE DEF IInvRestauracion, IInvCopias
<1>1. ASSUME NEW p \in Peticiones, Pisa(p) PROVE UnaEscribe'
  <2>1. ASSUME NEW q \in Peticiones \ {p}, Escribe(q)', Escribe(p)'
        PROVE  FALSE
    <3>1. Escribe(q)
      BY <1>1, <2>1, LlegaPedido DEF Escribe, R!En
    <3>2. R!Instala(p) \/ R!Falla(p)
      BY <1>1, <2>1, LlegaPedido DEF Escribe
    <3>3. CASE R!Instala(p)
      BY <2>1, <3>1, <3>3 DEF R!Instala, R!EmpresaLibre, Escribe
    <3>4. CASE R!Falla(p)
      BY <2>1, <3>1, <3>4 DEF R!Falla, UnaEscribe, Escribe
    <3> QED
      BY <3>2, <3>3, <3>4
  <2>2. ASSUME NEW q \in Peticiones \ {p}, NEW s \in Peticiones \ {p},
               Escribe(q)', Escribe(s)'
        PROVE  q = s
    BY <1>1, <2>2, LlegaPedido DEF UnaEscribe, Escribe, R!En
  <2> QED
    BY <2>1, <2>2 DEF UnaEscribe
<1>2. CASE tramite' = tramite
  BY <1>2 DEF UnaEscribe, Escribe, R!En
<1> QED
  BY <1>1, <1>2, SinPedido

(* A file that waits for its row is not in any copy, present or next.       *)
LEMMA SubidaSigue ==
  ASSUME IInvRestauracion, [R!Next]_deRestauracion
  PROVE  SubidaSola'
<1> USE DEF IInvRestauracion, IInvCopias
<1>1. ASSUME NEW q \in Peticiones, R!En(q, "sube"), tramite'[q] = tramite[q]
      PROVE  \A k \in DOMAIN copias' : tramite'[q].d \notin copias'[k].filas
  <2>1. \A k \in DOMAIN copias : tramite[q].d \notin copias[k].filas
    BY <1>1 DEF SubidaSola
  <2>2. \A s \in Peticiones : tramite[s].op \in ConFoto =>
          tramite[q].d \notin tramite[s].foto
    BY <1>1 DEF SubidaSola
  <2> QED
    BY <1>1, <2>1, <2>2, CopiasCrecen DEF ConFoto
<1>2. ASSUME NEW q \in Peticiones, R!En(q, "sube"), tramite'[q] = tramite[q]
      PROVE  tramite'[q].d \in disco' \ filas'
  <2> DEFINE d == tramite[q].d
  <2>1. /\ d \in disco \ filas
        /\ \A k \in DOMAIN copias : d \notin copias[k].filas
        /\ \A s \in Peticiones \ {q} : R!En(s, "sube") => tramite[s].d # d
    BY <1>2 DEF SubidaSola
  <2>2. d \in disco'
    <3>1. ASSUME NEW p \in Peticiones, R!Deshace(p) PROVE d \in disco'
      <4>1. \E k \in DOMAIN copias :
              tramite[p].nuevos \subseteq copias[k].filas
        BY <3>1 DEF R!Deshace, Retorno, Escribe
      <4> QED
        BY <2>1, <3>1, <4>1 DEF R!Deshace
    <3>2. ASSUME NEW x \in Documentos, R!Limpia(x) PROVE d \in disco'
      BY <1>2, <3>2 DEF R!Limpia, R!En
    <3> QED
      BY <2>1, <3>1, <3>2 DEF R!Next, deRestauracion, R!upload_document,
         R!create_tenant_package, R!restore_tenant_backup, R!SubeArchivo,
         R!InsertaFila, R!LeeCopia, R!EscribeCopia, R!Pide, R!Asegura,
         R!Instala, R!Reemplaza, R!Falla, R!Abandona, R!AltaUsuario, R!Actua
  <2>3. d \notin filas'
    <3>1. ASSUME NEW p \in Peticiones, R!InsertaFila(p) PROVE d \notin filas'
      <4>1. p # q
        BY <1>2, <3>1, Quietas DEF R!InsertaFila, R!Reposo, R!En
      <4> QED
        BY <2>1, <3>1, <4>1 DEF R!InsertaFila
    <3>2. ASSUME NEW p \in Peticiones, R!Reemplaza(p) PROVE d \notin filas'
      BY <2>1, <3>2 DEF R!Reemplaza, Asegurada, ConCopia, R!En
    <3>3. ASSUME NEW u \in Usuarios, R!AltaUsuario(u) PROVE d \notin filas'
      BY <1>2, <2>1, <3>3 DEF R!AltaUsuario, R!Inedita
    <3> QED
      BY <2>1, <3>1, <3>2, <3>3 DEF R!Next, deRestauracion, R!upload_document,
         R!create_tenant_package, R!restore_tenant_backup, R!SubeArchivo,
         R!LeeCopia, R!EscribeCopia, R!Pide, R!Asegura, R!Instala, R!Falla,
         R!Deshace, R!Abandona, R!Actua, R!Limpia
  <2> QED
    BY <1>2, <2>2, <2>3
<1>3. ASSUME NEW p \in Peticiones, Pisa(p) PROVE SubidaSola'
  <2>0. \A q \in Peticiones \ {p} : tramite'[q] = tramite[q]
    BY <1>3, LlegaPedido
  <2>1. ASSUME NEW q \in Peticiones, R!En(q, "sube"),
               tramite'[q] = tramite[q], ~ R!En(p, "sube")'
        PROVE  /\ \A s \in Peticiones \ {q} : R!En(s, "sube")' =>
                    tramite'[s].d # tramite'[q].d
               /\ \A s \in Peticiones : tramite'[s].op \in ConFoto =>
                    tramite'[q].d \notin tramite'[s].foto
    <3>1. /\ tramite[q].d \notin filas
          /\ \A s \in Peticiones \ {q} : R!En(s, "sube") =>
               tramite[s].d # tramite[q].d
          /\ \A s \in Peticiones : tramite[s].op \in ConFoto =>
               tramite[q].d \notin tramite[s].foto
      BY <2>1 DEF SubidaSola
    <3>2. tramite'[p].op \in ConFoto =>
            \/ tramite'[p].foto = filas
            \/ tramite[p].op \in ConFoto /\ tramite'[p].foto = tramite[p].foto
      BY <1>3, LlegaPedido DEF ConFoto, R!En, R!Asegura, R!Instala
    <3> QED
      BY <2>0, <2>1, <3>1, <3>2 DEF R!En
  <2>2. CASE R!En(p, "sube")'
    <3>1. PICK d \in Documentos : R!SubeArchivo(p, d) /\ tramite'[p].d = d
      BY <1>3, <2>2, LlegaPedido
    <3>2. /\ d \in disco' \ filas' /\ filas' = filas /\ copias' = copias
          /\ \A k \in DOMAIN copias : d \notin copias[k].filas
          /\ \A q \in Peticiones : /\ R!En(q, "sube") => tramite[q].d # d
                                   /\ tramite[q].op \in ConFoto =>
                                        d \notin tramite[q].foto
      BY <3>1 DEF R!SubeArchivo, R!Inedita, ConFoto
    <3>3. ~ R!En(p, "sube") /\ ~ tramite'[p].op \in ConFoto
      BY <2>2, <3>1 DEF R!SubeArchivo, R!En, ConFoto
    <3>4. ASSUME NEW q \in Peticiones \ {p}, R!En(q, "sube")
          PROVE  /\ \A s \in Peticiones \ {q} : R!En(s, "sube") =>
                      tramite[s].d # tramite[q].d
                 /\ \A s \in Peticiones : tramite[s].op \in ConFoto =>
                      tramite[q].d \notin tramite[s].foto
                 /\ tramite[q].d # d
      BY <3>2, <3>4 DEF SubidaSola
    <3> QED
      BY <1>1, <1>2, <2>0, <2>2, <3>1, <3>2, <3>3, <3>4 DEF SubidaSola, R!En
  <2>3. CASE ~ R!En(p, "sube")'
    <3>1. ASSUME NEW q \in Peticiones, R!En(q, "sube")'
          PROVE  R!En(q, "sube") /\ tramite'[q] = tramite[q]
      BY <2>0, <2>3, <3>1 DEF R!En
    <3> QED
      BY <1>1, <1>2, <2>1, <2>3, <3>1 DEF SubidaSola
  <2> QED
    BY <2>2, <2>3
<1>4. CASE tramite' = tramite
  <2>1. ASSUME NEW q \in Peticiones, R!En(q, "sube")
        PROVE  /\ \A s \in Peticiones \ {q} : R!En(s, "sube") =>
                    tramite[s].d # tramite[q].d
               /\ \A s \in Peticiones : tramite[s].op \in ConFoto =>
                    tramite[q].d \notin tramite[s].foto
    BY <2>1 DEF SubidaSola
  <2> QED
    BY <1>1, <1>2, <1>4, <2>1 DEF SubidaSola, R!En
<1> QED
  BY <1>3, <1>4, SinPedido

(* The files and rows a restore that is still writing depends on.           *)
LEMMA RetornoSigue ==
  ASSUME Ordenadas, IInvRestauracion, [R!Next]_deRestauracion
  PROVE  Retorno'
<1> USE DEF IInvRestauracion, IInvCopias
<1> DEFINE Bien(p) ==
      /\ R!En(p, "instala") => copias[tramite[p].k].archivos \subseteq disco
      /\ Escribe(p) =>
           /\ tramite[p].nuevos \cap filas = {}
           /\ \E k \in DOMAIN copias :
              tramite[p].nuevos \subseteq copias[k].filas
<1>0. ASSUME NEW q \in Peticiones, Escribe(q),
             tramite'[q] = tramite[q]
      PROVE  Bien(q)'
  <2>1. PICK k \in DOMAIN copias : tramite[q].nuevos \subseteq copias[k].filas
    BY <1>0 DEF Retorno
  <2>2. /\ \E i \in DOMAIN copias' :
             tramite'[q].nuevos \subseteq copias'[i].filas
    BY <1>0, <2>1, CopiasCrecen
  <2>3. tramite'[q].nuevos \cap filas' = {}
    <3>1. ASSUME NEW p \in Peticiones, R!InsertaFila(p)
          PROVE  tramite[p].d \notin tramite[q].nuevos
      BY <2>1, <3>1 DEF R!InsertaFila, SubidaSola
    <3>2. ASSUME NEW p \in Peticiones, R!Reemplaza(p) PROVE FALSE
      <4>1. p # q
        BY <1>0, <3>2, Quietas DEF R!Reemplaza, Escribe, R!Reposo, R!En
      <4> QED
        BY <1>0, <3>2, <4>1 DEF R!Reemplaza, UnaEscribe, Escribe
    <3>3. ASSUME NEW u \in Usuarios, R!AltaUsuario(u)
          PROVE  u \notin tramite[q].nuevos
      BY <2>1, <3>3 DEF R!AltaUsuario, R!Inedita
    <3>4. tramite[q].nuevos \cap filas = {}
      BY <1>0 DEF Retorno
    <3>5. \/ filas' = filas
          \/ \E p \in Peticiones : R!InsertaFila(p) \/ R!Reemplaza(p)
          \/ \E u \in Usuarios : R!AltaUsuario(u)
      BY DEF R!Next, deRestauracion, R!upload_document,
         R!create_tenant_package, R!restore_tenant_backup, R!SubeArchivo,
         R!LeeCopia, R!EscribeCopia, R!Pide, R!Asegura, R!Instala, R!Falla,
         R!Deshace, R!Abandona, R!Actua, R!Limpia
    <3> QED
      BY <1>0, <3>1, <3>2, <3>3, <3>4, <3>5 DEF R!InsertaFila, R!AltaUsuario
  <2>4. R!En(q, "instala") => copias'[tramite'[q].k].archivos \subseteq disco'
    <3>1. SUFFICES ASSUME R!En(q, "instala")
                   PROVE  copias'[tramite'[q].k].archivos \subseteq disco'
      OBVIOUS
    <3>2. /\ copias[tramite[q].k].archivos \subseteq disco
          /\ tramite[q].k \in DOMAIN copias
      BY <3>1 DEF Retorno, Asegurada, ConCopia, R!En
    <3>3. ASSUME NEW p \in Peticiones, R!Deshace(p) PROVE FALSE
      BY <1>0, <3>1, <3>3 DEF R!Deshace, UnaEscribe, Escribe, R!En
    <3>4. ASSUME NEW d \in Documentos, R!Limpia(d) PROVE FALSE
      BY <3>1, <3>4 DEF R!Limpia, R!En
    <3>5. disco \subseteq disco'
      BY <3>3, <3>4 DEF R!Next, deRestauracion, R!upload_document,
         R!create_tenant_package, R!restore_tenant_backup, R!SubeArchivo,
         R!InsertaFila, R!LeeCopia, R!EscribeCopia, R!Pide, R!Asegura,
         R!Instala, R!Reemplaza, R!Falla, R!Abandona, R!AltaUsuario, R!Actua
    <3> QED
      BY <1>0, <3>2, <3>5, CopiasCrecen
  <2> QED
    BY <1>0, <2>2, <2>3, <2>4 DEF R!En
<1>1. ASSUME NEW p \in Peticiones, Pisa(p) PROVE Retorno'
  <2>0. ASSUME NEW q \in Peticiones \ {p} PROVE Bien(q)'
    <3>1. tramite'[q] = tramite[q]
      BY <1>1, LlegaPedido
    <3>2. Escribe(q) => Bien(q)'
      BY <1>0, <3>1
    <3> QED
      BY <3>1, <3>2 DEF Escribe, R!En
  <2>1. Bien(p)'
    <3>1. CASE R!En(p, "instala")'
      <4> DEFINE k == tramite[p].k
      <4>1. /\ R!Instala(p) /\ tramite'[p].k = k
            /\ tramite'[p].nuevos = R!Nuevos(k)
        BY <1>1, <3>1, LlegaPedido
      <4>2. k \in DOMAIN copias /\ R!Valida(k)
        BY <4>1 DEF R!Instala, R!En, Asegurada, ConCopia, CopiasIntegras
      <4>3. /\ copias' = copias /\ filas' = filas
            /\ disco' = disco \cup copias[k].archivos
        BY <4>1 DEF R!Instala
      <4>4. /\ R!Nuevos(k) \cap filas = {}
            /\ R!Nuevos(k) \subseteq copias[k].filas
        BY <4>2 DEF R!Nuevos, R!Valida, R!ConArchivo, R!Descargable
      <4> QED
        BY <3>1, <4>1, <4>2, <4>3, <4>4 DEF R!En
    <3>2. CASE R!En(p, "deshace")'
      <4>1. R!Falla(p) /\ tramite'[p].nuevos = tramite[p].nuevos
        BY <1>1, <3>2, LlegaPedido
      <4>2. /\ filas' = filas /\ copias' = copias /\ Escribe(p)
        BY <4>1 DEF R!Falla, Escribe
      <4> QED
        BY <3>2, <4>1, <4>2 DEF Retorno, R!En
    <3>3. CASE ~ Escribe(p)'
      BY <3>3 DEF Escribe
    <3> QED
      BY <3>1, <3>2, <3>3 DEF Escribe
  <2> QED
    BY <2>0, <2>1 DEF Retorno
<1>2. CASE tramite' = tramite
  <2>1. ASSUME NEW q \in Peticiones PROVE Bien(q)'
    <3>1. Escribe(q) => Bien(q)'
      BY <1>0, <1>2
    <3> QED
      BY <1>2, <3>1 DEF Escribe, R!En
  <2> QED
    BY <2>1 DEF Retorno
<1> QED
  BY <1>1, <1>2, SinPedido

LEMMA ArchivoSigue ==
  ASSUME IInvRestauracion, [R!Next]_deRestauracion
  PROVE  R!ConArchivo'
<1> USE DEF IInvRestauracion, IInvCopias
<1>0. filas \cap Documentos \subseteq disco
  BY DEF R!ConArchivo, R!Descargable
<1> SUFFICES filas' \cap Documentos \subseteq disco'
  BY DEF R!ConArchivo, R!Descargable
<1>1. ASSUME NEW p \in Peticiones, R!InsertaFila(p)
      PROVE  filas' \cap Documentos \subseteq disco'
  BY <1>0, <1>1 DEF R!InsertaFila, SubidaSola
<1>2. ASSUME NEW u \in Usuarios, R!AltaUsuario(u)
      PROVE  filas' \cap Documentos \subseteq disco'
  BY <1>0, <1>2, TablasDistintas DEF R!AltaUsuario
<1>3. ASSUME NEW p \in Peticiones, R!Reemplaza(p)
      PROVE  filas' \cap Documentos \subseteq disco'
  <2>1. /\ R!Valida(tramite[p].k)
        /\ copias[tramite[p].k].archivos \subseteq disco
    BY <1>3 DEF R!Reemplaza, Asegurada, ConCopia, R!En, CopiasIntegras, Retorno
  <2> QED
    BY <1>3, <2>1 DEF R!Reemplaza, R!Valida
<1>4. ASSUME NEW p \in Peticiones, R!Deshace(p)
      PROVE  filas' \cap Documentos \subseteq disco'
  <2>1. tramite[p].nuevos \cap filas = {}
    BY <1>4 DEF R!Deshace, Retorno, Escribe
  <2> QED
    BY <1>0, <1>4, <2>1 DEF R!Deshace
<1>5. ASSUME NEW d \in Documentos, R!Limpia(d)
      PROVE  filas' \cap Documentos \subseteq disco'
  BY <1>0, <1>5 DEF R!Limpia
<1>6. CASE filas' = filas /\ disco \subseteq disco'
  BY <1>0, <1>6
<1> QED
  BY <1>1, <1>2, <1>3, <1>4, <1>5, <1>6 DEF R!Next, deRestauracion,
     R!upload_document, R!create_tenant_package, R!restore_tenant_backup,
     R!SubeArchivo, R!LeeCopia, R!EscribeCopia, R!Pide, R!Asegura, R!Instala,
     R!Falla, R!Abandona, R!Actua

LEMMA AutorSigue ==
  ASSUME IInvCopias, [R!Next]_deRestauracion
  PROVE  R!ConAutor'
<1> USE DEF IInvCopias, R!ConAutor
<1>1. ASSUME NEW p \in Peticiones, R!Reemplaza(p) PROVE R!ConAutor'
  BY <1>1 DEF R!Reemplaza, R!SinPosteriores
<1>2. ASSUME NEW u \in Usuarios, R!Actua(u) PROVE R!ConAutor'
  BY <1>2 DEF R!Actua
<1>3. CASE bitacora' = bitacora /\ filas \subseteq filas'
  BY <1>3
<1> QED
  BY <1>1, <1>2, <1>3 DEF R!Next, deRestauracion, R!upload_document,
     R!create_tenant_package, R!restore_tenant_backup, R!SubeArchivo,
     R!InsertaFila, R!LeeCopia, R!EscribeCopia, R!Pide, R!Asegura, R!Instala,
     R!Falla, R!Deshace, R!Abandona, R!AltaUsuario, R!Limpia

LEMMA RestauracionInit == R!Init => IInvRestauracion
<1> SUFFICES ASSUME R!Init PROVE IInvRestauracion
  OBVIOUS
<1> USE DEF R!Init
<1>1. copias = <<>> /\ DOMAIN copias = {}
  OBVIOUS
<1>2. R!TypeOK
  BY <1>1, CotaCopias DEF R!TypeOK, R!Peticion
<1>3. CopiasIntegras /\ R!ConArchivo /\ R!ConAutor
  BY <1>1 DEF CopiasIntegras, R!ConArchivo, R!ConAutor
<1>4. Asegurada /\ UnaEscribe /\ SubidaSola /\ Retorno
  BY DEF Asegurada, UnaEscribe, SubidaSola, Retorno, R!En, Escribe, ConCopia,
     R!Reposo
<1> QED
  BY <1>2, <1>3, <1>4 DEF IInvRestauracion, IInvCopias

LEMMA CopiasSiguen ==
  ASSUME IInvCopias, [R!Next]_deRestauracion
  PROVE  IInvCopias'
BY TipoSigue, IntegrasSiguen, AseguradaSigue, AutorSigue DEF IInvCopias

LEMMA RestauracionSigue ==
  ASSUME Ordenadas, IInvRestauracion, [R!Next]_deRestauracion
  PROVE  IInvRestauracion'
BY CopiasSiguen, UnaSigue, SubidaSigue, RetornoSigue, ArchivoSigue
   DEF IInvRestauracion

(* Only a restore takes rows away, and its safety copy has those it knew.   *)
LEMMA PuedeVolver ==
  ASSUME IInvCopias, [R!Next]_deRestauracion, NEW x \in filas \ filas'
  PROVE  \/ x \in R!Guardado
         \/ \E p \in Peticiones :
              R!En(p, "instala") /\ x \notin tramite[p].foto
<1>1. PICK p \in Peticiones : R!Reemplaza(p)
  BY DEF R!Next, deRestauracion, R!upload_document, R!create_tenant_package,
     R!restore_tenant_backup, R!SubeArchivo, R!InsertaFila, R!LeeCopia,
     R!EscribeCopia, R!Pide, R!Asegura, R!Instala, R!Falla, R!Deshace,
     R!Abandona, R!AltaUsuario, R!Actua, R!Limpia
<1> QED
  BY <1>1 DEF R!Reemplaza, IInvCopias, Asegurada

(***************************************************************************)
(* The backups of the whole system (RespaldoGlobal).                       *)
(***************************************************************************)
(* The whole system: the inductive invariant. *)

(* The tasks in flight.                                                     *)
Tarea ==
  {G!Libre}
  \cup [op : {"sube"}, d : Documentos]
  \cup [op : {"crea", "vuelca", "registra", "elimina", "restaura", "aplica",
              "termina"}, r : Respaldos]
  \cup [op : {"empaca"}, r : Respaldos, fila : [Respaldos -> G!Filas],
        datos : SUBSET Documentos]
  \cup [op : {"borra", "repone"}, r : Respaldos, archivos : SUBSET Documentos]
FilasGlobales == [Respaldos -> G!Filas]

TiposGlobal ==
  /\ fila \in FilasGlobales
  /\ paquete \in [Respaldos -> G!Paquete]
  /\ datos \subseteq Documentos /\ archivos \subseteq Documentos
  /\ tarea \in [Tareas -> Tarea]

(* A restore runs alone (Programa, Empieza).                                *)
Sola ==
  \A t \in Tareas : G!Restaurando(t) =>
    \A s \in Tareas \ {t} : G!En(s, "libre")

(* A file is there before its row, and after the dump its rows' files.      *)
YaSubido ==
  \A t \in Tareas :
    /\ G!En(t, "sube") => tarea[t].d \in archivos
    /\ G!En(t, "empaca") => tarea[t].datos \subseteq archivos

(* Between rmtree and copytree the restore carries the files of the rows.   *)
Arrasa(t) == tarea[t].op \in {"borra", "repone"}
EnManos ==
  /\ \A t \in Tareas : Arrasa(t) => datos \subseteq tarea[t].archivos
  /\ (\A t \in Tareas : ~ Arrasa(t)) => datos \subseteq archivos

IInvGlobal ==
  TiposGlobal /\ Sola /\ YaSubido /\ EnManos /\ G!PaqueteCompleto

----------------------------------------------------------------------------
(* What the tasks are made of, and the types.                               *)
LEMMA DeLaTarea ==
  ASSUME TiposGlobal, NEW t \in Tareas
  PROVE  /\ tarea[t] \in Tarea
         /\ G!En(t, "sube") => tarea[t].d \in Documentos
         /\ ~ G!En(t, "libre") /\ ~ G!En(t, "sube") => tarea[t].r \in Respaldos
         /\ tarea[t].op \in {"crea", "vuelca", "registra", "elimina",
                             "restaura", "aplica", "termina"} =>
              \E r \in Respaldos : tarea[t] = [op |-> tarea[t].op, r |-> r]
         /\ G!En(t, "empaca") =>
              /\ tarea[t].fila \in FilasGlobales
              /\ tarea[t].datos \in SUBSET Documentos
         /\ Arrasa(t) => tarea[t].archivos \in SUBSET Documentos
         /\ Arrasa(t) =>
              tarea[t] = [op |-> tarea[t].op, r |-> tarea[t].r,
                          archivos |-> tarea[t].archivos]
<1>1. tarea[t] \in Tarea
  BY DEF TiposGlobal
<1> QED
  BY <1>1 DEF Tarea, G!En, Arrasa, G!Libre, FilasGlobales

LEMMA PasaTipo ==
  ASSUME TiposGlobal, NEW t \in Tareas, NEW m \in Tarea, G!Pasa(t, m)
  PROVE  tarea' \in [Tareas -> Tarea]
BY DEF TiposGlobal, G!Pasa

LEMMA PoneTipo ==
  ASSUME TiposGlobal, NEW r \in Respaldos,
         NEW e \in {"PROCESANDO", "COMPLETADO", "FALLIDO",
                    "RESTAURACION_PENDIENTE", "RESTAURANDO"},
         G!Pone(r, e)
  PROVE  fila' \in FilasGlobales
<1>1. [fila[r] EXCEPT !.estado = e] \in G!Filas
  BY DEF TiposGlobal, FilasGlobales, G!Filas
<1> QED
  BY <1>1 DEF TiposGlobal, FilasGlobales, G!Pone

LEMMA TiposSiguen ==
  ASSUME TiposGlobal, [G!Next]_deGlobal
  PROVE  TiposGlobal'
<1> SUFFICES ASSUME G!Next PROVE TiposGlobal'
  BY DEF TiposGlobal, deGlobal
<1> USE DEF TiposGlobal
<1>0. G!Libre \in Tarea /\ G!Vacio \in G!Paquete /\ G!Ninguna \in G!Filas
  BY DEF Tarea, G!Paquete, G!Filas, G!Ninguna
<1>1. ASSUME NEW t \in Tareas, NEW d \in Documentos, G!Sube(t, d)
      PROVE  TiposGlobal'
  <2>1. [op |-> "sube", d |-> d] \in Tarea
    BY DEF Tarea
  <2> QED
    BY <1>1, <2>1, PasaTipo DEF G!Sube
<1>2. ASSUME NEW t \in Tareas, G!Anota(t) PROVE TiposGlobal'
  BY <1>0, <1>2, PasaTipo, DeLaTarea DEF G!Anota
<1>3. ASSUME NEW t \in Tareas, NEW r \in Respaldos, G!Solicita(t, r)
      PROVE  TiposGlobal'
  <2>1. [op |-> "crea", r |-> r] \in Tarea
    BY DEF Tarea
  <2>2. [fila[r] EXCEPT !.estado = "PENDIENTE"] \in G!Filas
    BY DEF FilasGlobales, G!Filas
  <2> QED
    BY <1>3, <2>1, <2>2, PasaTipo DEF G!Solicita, FilasGlobales
<1>4. ASSUME NEW t \in Tareas, G!Procesa(t) PROVE TiposGlobal'
  <2>1. PICK r \in Respaldos : tarea[t] = [op |-> "crea", r |-> r]
    BY <1>4, DeLaTarea DEF G!Procesa, G!En
  <2>2. [tarea[t] EXCEPT !.op = "vuelca"] \in Tarea
    BY <2>1 DEF Tarea
  <2>3. tarea' \in [Tareas -> Tarea]
    BY <1>0, <1>4, <2>2, PasaTipo DEF G!Procesa, G!Avanza
  <2> QED
    BY <1>4, <2>1, <2>3, PoneTipo DEF G!Procesa
<1>5. ASSUME NEW t \in Tareas, G!Vuelca(t) PROVE TiposGlobal'
  <2>1. tarea[t].r \in Respaldos
    BY <1>5, DeLaTarea DEF G!Vuelca, G!En
  <2>2. [op |-> "empaca", r |-> tarea[t].r, fila |-> fila, datos |-> datos]
          \in Tarea
    BY <2>1 DEF Tarea, FilasGlobales
  <2> QED
    BY <1>5, <2>2, PasaTipo DEF G!Vuelca
<1>6. ASSUME NEW t \in Tareas, G!Empaca(t) PROVE TiposGlobal'
  <2> DEFINE m == tarea[t]
             k == [hay |-> TRUE, fila |-> m.fila, datos |-> m.datos,
                   archivos |-> archivos]
  <2>1. /\ m.r \in Respaldos /\ m.fila \in FilasGlobales
        /\ m.datos \in SUBSET Documentos
    BY <1>6, DeLaTarea DEF G!Empaca, G!En
  <2>2. [op |-> "registra", r |-> m.r] \in Tarea
    BY <2>1 DEF Tarea
  <2>3. k \in G!Paquete
    BY <2>1 DEF G!Paquete, FilasGlobales
  <2>4. paquete' = [paquete EXCEPT ![m.r] = k]
        /\ G!Pasa(t, [op |-> "registra", r |-> m.r])
        /\ UNCHANGED <<fila, datos, archivos>>
    BY <1>6 DEF G!Empaca
  <2> HIDE DEF k
  <2> QED
    BY <2>1, <2>2, <2>3, <2>4, PasaTipo
<1>7. ASSUME NEW t \in Tareas, G!Registra(t) PROVE TiposGlobal'
  <2>1. tarea[t].r \in Respaldos
    BY <1>7, DeLaTarea DEF G!Registra, G!En
  <2>2. [estado |-> "COMPLETADO", ruta |-> TRUE] \in G!Filas
    BY DEF G!Filas
  <2> QED
    BY <1>0, <1>7, <2>1, <2>2, PasaTipo DEF G!Registra, FilasGlobales
<1>8. ASSUME NEW t \in Tareas, G!FallaCrear(t) PROVE TiposGlobal'
  <2>1. tarea[t].r \in Respaldos
    BY <1>8, DeLaTarea DEF G!FallaCrear, G!En
  <2> QED
    BY <1>0, <1>8, <2>1, PasaTipo, PoneTipo DEF G!FallaCrear
<1>9. ASSUME NEW t \in Tareas, NEW r \in Respaldos, G!BorraObjeto(t, r)
      PROVE  TiposGlobal'
  <2>1. [op |-> "elimina", r |-> r] \in Tarea
    BY DEF Tarea
  <2> QED
    BY <1>0, <1>9, <2>1, PasaTipo DEF G!BorraObjeto
<1>10. ASSUME NEW t \in Tareas, G!BorraFila(t) PROVE TiposGlobal'
  <2>1. tarea[t].r \in Respaldos
    BY <1>10, DeLaTarea DEF G!BorraFila, G!En
  <2> QED
    BY <1>0, <1>10, <2>1, PasaTipo DEF G!BorraFila, FilasGlobales
<1>11. ASSUME NEW t \in Tareas, NEW r \in Respaldos, G!Programa(t, r)
       PROVE  TiposGlobal'
  <2>1. [op |-> "restaura", r |-> r] \in Tarea
    BY DEF Tarea
  <2> QED
    BY <1>11, <2>1, PasaTipo, PoneTipo DEF G!Programa
<1>12. ASSUME NEW t \in Tareas, G!Restaura(t) PROVE TiposGlobal'
  <2>1. PICK r \in Respaldos : tarea[t] = [op |-> "restaura", r |-> r]
    BY <1>12, DeLaTarea DEF G!Restaura, G!En
  <2>2. [tarea[t] EXCEPT !.op = "aplica"] \in Tarea
    BY <2>1 DEF Tarea
  <2>3. tarea' \in [Tareas -> Tarea]
    BY <1>0, <1>12, <2>2, PasaTipo DEF G!Restaura, G!Avanza
  <2> QED
    BY <1>12, <2>1, <2>3, PoneTipo DEF G!Restaura
<1>13. ASSUME NEW t \in Tareas, G!Aplica(t) PROVE TiposGlobal'
  <2> DEFINE k == paquete[tarea[t].r]
  <2>1. tarea[t].r \in Respaldos /\ k # G!Vacio
    BY <1>13, DeLaTarea DEF G!Aplica, G!En
  <2>2. /\ k.fila \in FilasGlobales /\ k.datos \subseteq Documentos
        /\ k.archivos \in SUBSET Documentos
    BY <2>1 DEF G!Paquete, FilasGlobales
  <2>3. [op |-> "borra", r |-> tarea[t].r, archivos |-> k.archivos] \in Tarea
    BY <2>1, <2>2 DEF Tarea
  <2> QED
    BY <1>13, <2>2, <2>3, PasaTipo DEF G!Aplica
<1>14. ASSUME NEW t \in Tareas, G!Borra(t) PROVE TiposGlobal'
  <2>1. [tarea[t] EXCEPT !.op = "repone"] \in Tarea
    BY <1>14, DeLaTarea DEF G!Borra, G!En, Arrasa, Tarea
  <2> QED
    BY <1>14, <2>1, PasaTipo DEF G!Borra, G!Avanza
<1>15. ASSUME NEW t \in Tareas, G!Repone(t) PROVE TiposGlobal'
  <2>1. /\ tarea[t].archivos \subseteq Documentos
        /\ [op |-> "termina", r |-> tarea[t].r] \in Tarea
    BY <1>15, DeLaTarea DEF G!Repone, G!En, Arrasa, Tarea
  <2> QED
    BY <1>15, <2>1, PasaTipo DEF G!Repone
<1>16. ASSUME NEW t \in Tareas, G!Termina(t) \/ G!FallaRestaurar(t)
       PROVE  TiposGlobal'
  <2>1. tarea[t].r \in Respaldos
    BY <1>16, DeLaTarea DEF G!Termina, G!FallaRestaurar, G!En
  <2> QED
    BY <1>0, <1>16, <2>1, PasaTipo, PoneTipo DEF G!Termina, G!FallaRestaurar
<1>17. CASE G!Cae
  BY <1>0, <1>17 DEF G!Cae
<1> QED
  BY <1>1, <1>2, <1>3, <1>4, <1>5, <1>6, <1>7, <1>8, <1>9, <1>10, <1>11,
     <1>12, <1>13, <1>14, <1>15, <1>16, <1>17
     DEF G!Next, G!create_backup_job, G!restore_backup_job

----------------------------------------------------------------------------
(* A restore runs alone. *)

(* The steps of a task.                                                     *)
DaPaso(t) ==
  \/ G!create_backup_job(t) \/ G!restore_backup_job(t)
  \/ G!Anota(t) \/ G!BorraFila(t)
  \/ \E d \in Documentos : G!Sube(t, d)
  \/ \E r \in Respaldos :
       G!Solicita(t, r) \/ G!BorraObjeto(t, r) \/ G!Programa(t, r)

(* What a task reaches, by the step it takes.                               *)
LEMMA Llega ==
  ASSUME TiposGlobal, NEW t \in Tareas, DaPaso(t)
  PROVE  /\ G!En(t, "sube")' => \E d \in Documentos : G!Sube(t, d)
         /\ G!En(t, "empaca")' => G!Vuelca(t)
         /\ G!En(t, "restaura")' => \E r \in Respaldos : G!Programa(t, r)
         /\ G!En(t, "aplica")' => G!Restaura(t)
         /\ G!En(t, "borra")' => G!Aplica(t)
         /\ G!En(t, "repone")' => G!Borra(t)
         /\ G!En(t, "termina")' => G!Repone(t)
<1>1. \A m : G!Pasa(t, m) => tarea'[t] = m
  BY DEF G!Pasa, TiposGlobal
<1>2. ASSUME NEW op, G!Avanza(t, op) PROVE tarea'[t].op = op
  BY <1>2 DEF G!Avanza, G!Pasa, TiposGlobal, Tarea, G!Libre
<1>3. /\ G!Procesa(t) => tarea'[t].op \in {"vuelca", "libre"}
      /\ G!Vuelca(t) => tarea'[t].op = "empaca"
      /\ G!Empaca(t) => tarea'[t].op = "registra"
      /\ G!Registra(t) \/ G!FallaCrear(t) => tarea'[t].op = "libre"
  BY <1>1, <1>2 DEF G!Procesa, G!Vuelca, G!Empaca, G!Registra, G!FallaCrear,
     G!Libre
<1>4. /\ G!Restaura(t) => tarea'[t].op \in {"aplica", "libre"}
      /\ G!Aplica(t) => tarea'[t].op = "borra"
      /\ G!Borra(t) => tarea'[t].op = "repone"
      /\ G!Repone(t) => tarea'[t].op = "termina"
      /\ G!Termina(t) \/ G!FallaRestaurar(t) => tarea'[t].op = "libre"
  BY <1>1, <1>2 DEF G!Restaura, G!Aplica, G!Borra, G!Repone, G!Termina,
     G!FallaRestaurar, G!Libre
<1>5. /\ G!Anota(t) \/ G!BorraFila(t) => tarea'[t].op = "libre"
      /\ \A d \in Documentos : G!Sube(t, d) => tarea'[t].op = "sube"
      /\ \A r \in Respaldos :
           /\ G!Solicita(t, r) => tarea'[t].op = "crea"
           /\ G!BorraObjeto(t, r) => tarea'[t].op = "elimina"
           /\ G!Programa(t, r) => tarea'[t].op = "restaura"
  BY <1>1 DEF G!Anota, G!BorraFila, G!Sube, G!Solicita, G!BorraObjeto,
     G!Programa, G!Libre
<1> QED
  BY <1>3, <1>4, <1>5 DEF G!En, DaPaso, G!create_backup_job,
     G!restore_backup_job

(* A task starts when nobody restores, and a restore when nobody works.     *)
LEMMA CadaPaso ==
  ASSUME Apartada, TiposGlobal, NEW t \in Tareas, DaPaso(t)
  PROVE  /\ \A s \in Tareas \ {t} : tarea'[s] = tarea[s]
         /\ G!En(t, "libre") => G!SinRestaurar
         /\ G!Restaurando(t)' => G!Restaurando(t) \/ G!SinTareas
<1>1. \E m : G!Pasa(t, m)
  BY DEF DaPaso, G!create_backup_job, G!restore_backup_job, G!Sube, G!Anota,
     G!Solicita, G!Procesa, G!Vuelca, G!Empaca, G!Registra, G!FallaCrear,
     G!BorraObjeto, G!BorraFila, G!Programa, G!Restaura, G!Aplica, G!Borra,
     G!Repone, G!Termina, G!FallaRestaurar, G!Avanza
<1>2. \A s \in Tareas \ {t} : tarea'[s] = tarea[s]
  BY <1>1 DEF G!Pasa, TiposGlobal
<1>3. G!En(t, "libre") => G!SinRestaurar
  BY DEF DaPaso, G!create_backup_job, G!restore_backup_job, G!Sube, G!Anota,
     G!Solicita, G!Procesa, G!Vuelca, G!Empaca, G!Registra, G!FallaCrear,
     G!BorraObjeto, G!BorraFila, G!Programa, G!Restaura, G!Aplica, G!Borra,
     G!Repone, G!Termina, G!FallaRestaurar, G!Empieza, G!En
<1>4. G!Restaurando(t)' => G!Restaurando(t) \/ G!SinTareas
  BY Llega DEF G!Restaurando, G!En, G!Programa, G!Restaura, G!Aplica, G!Borra,
     G!Repone
<1> QED
  BY <1>2, <1>3, <1>4

LEMMA SolaSigue ==
  ASSUME Apartada, IInvGlobal, [G!Next]_deGlobal
  PROVE  Sola'
<1> USE DEF IInvGlobal
<1>1. ASSUME NEW t \in Tareas, DaPaso(t) PROVE Sola'
  <2> SUFFICES ASSUME NEW u \in Tareas, G!Restaurando(u)',
                      NEW s \in Tareas \ {u}
               PROVE  G!En(s, "libre")'
    BY DEF Sola
  <2>1. CASE u = t
    BY <1>1, <2>1, CadaPaso DEF Sola, G!SinTareas, G!En
  <2>2. CASE u # t
    <3>1. G!Restaurando(u)
      BY <1>1, <2>2, CadaPaso DEF G!Restaurando
    <3> QED
      BY <1>1, <2>2, <3>1, CadaPaso DEF Sola, G!SinRestaurar
  <2> QED
    BY <2>1, <2>2
<1>2. CASE G!Cae
  BY <1>2 DEF G!Cae, Sola, G!Restaurando, G!Libre
<1>3. CASE UNCHANGED deGlobal
  BY <1>3 DEF deGlobal, Sola, G!Restaurando, G!En
<1> QED
  BY <1>1, <1>2, <1>3 DEF G!Next, DaPaso

----------------------------------------------------------------------------
(* The files of the rows. *)

(* Only _restore_files takes files away, and then no task waits for one.    *)
LEMMA ArchivosQuedan ==
  ASSUME IInvGlobal, [G!Next]_deGlobal, ~ (archivos \subseteq archivos')
  PROVE  \E t \in Tareas : G!Borra(t) \/ G!Repone(t)
BY DEF G!Next, deGlobal, G!create_backup_job, G!restore_backup_job, G!Sube,
   G!Anota, G!Solicita, G!Procesa, G!Vuelca, G!Empaca, G!Registra,
   G!FallaCrear, G!BorraObjeto, G!BorraFila, G!Programa, G!Restaura, G!Aplica,
   G!Termina, G!FallaRestaurar, G!Cae

LEMMA SubidoSigue ==
  ASSUME Apartada, IInvGlobal, [G!Next]_deGlobal
  PROVE  YaSubido'
<1> USE DEF IInvGlobal
<1>1. CASE \E t \in Tareas : G!Borra(t) \/ G!Repone(t)
  <2>0. PICK t \in Tareas : G!Borra(t) \/ G!Repone(t)
    BY <1>1
  <2>1. G!Restaurando(t) /\ DaPaso(t) /\ tarea'[t].op \in {"repone", "termina"}
    BY <2>0, DeLaTarea DEF G!Borra, G!Repone, G!Restaurando, G!En, DaPaso,
       G!Avanza, G!Pasa, G!restore_backup_job, TiposGlobal, Arrasa
  <2>2. \A s \in Tareas \ {t} : tarea'[s].op = "libre"
    BY <2>1, CadaPaso DEF Sola, G!En
  <2> QED
    BY <2>1, <2>2 DEF YaSubido, G!En
<1>2. CASE ~ \E t \in Tareas : G!Borra(t) \/ G!Repone(t)
  <2>1. archivos \subseteq archivos'
    BY <1>2, ArchivosQuedan
  <2>2. ASSUME NEW s \in Tareas, tarea'[s] = tarea[s]
        PROVE  /\ G!En(s, "sube")' => tarea'[s].d \in archivos'
               /\ G!En(s, "empaca")' => tarea'[s].datos \subseteq archivos'
    BY <2>1, <2>2 DEF YaSubido, G!En
  <2>3. ASSUME NEW t \in Tareas, DaPaso(t)
        PROVE  YaSubido'
    <3>1. CASE \E d \in Documentos : G!Sube(t, d)
      BY <2>2, <2>3, <3>1, CadaPaso DEF G!Sube, G!Pasa, G!En, TiposGlobal,
         YaSubido
    <3>2. CASE G!Vuelca(t)
      <4>1. datos \subseteq archivos
        <5>1. \A s \in Tareas : ~ G!Restaurando(s)
          BY <3>2 DEF G!Vuelca, Sola, G!En, G!Restaurando
        <5> QED
          BY <5>1 DEF EnManos, Arrasa, G!Restaurando
      <4> QED
        BY <2>2, <2>3, <3>2, <4>1, CadaPaso DEF G!Vuelca, G!Pasa, G!En,
           TiposGlobal, YaSubido
    <3>3. CASE ~ G!Vuelca(t) /\ ~ \E d \in Documentos : G!Sube(t, d)
      <4>1. ~ G!En(t, "sube")' /\ ~ G!En(t, "empaca")'
        BY <2>3, <3>3, Llega
      <4> QED
        BY <2>2, <2>3, <4>1, CadaPaso DEF YaSubido, G!En
    <3> QED
      BY <3>1, <3>2, <3>3
  <2>4. CASE G!Cae
    BY <2>4 DEF G!Cae, YaSubido, G!En, G!Libre
  <2>5. CASE UNCHANGED deGlobal
    BY <2>2, <2>5 DEF deGlobal, YaSubido
  <2> QED
    BY <2>3, <2>4, <2>5 DEF G!Next, DaPaso
<1> QED
  BY <1>1, <1>2

LEMMA ManosSiguen ==
  ASSUME Apartada, Entera, IInvGlobal, [G!Next]_deGlobal
  PROVE  EnManos'
<1> USE DEF IInvGlobal
<1>1. ASSUME NEW t \in Tareas, G!Aplica(t) PROVE EnManos'
  <2>1. tarea[t].r \in Respaldos /\ paquete[tarea[t].r] # G!Vacio
    BY <1>1, DeLaTarea DEF G!Aplica, G!En
  <2>2. Arrasa(t)' /\ datos' \subseteq tarea'[t].archivos
    BY <1>1, <2>1 DEF G!Aplica, G!Pasa, Arrasa, TiposGlobal, G!PaqueteCompleto
  <2>3. \A s \in Tareas \ {t} : ~ Arrasa(s)'
    BY <1>1 DEF G!Aplica, G!Pasa, Arrasa, TiposGlobal, Sola, G!Restaurando,
       G!En
  <2> QED
    BY <2>2, <2>3 DEF EnManos
<1>2. ASSUME NEW t \in Tareas, G!Borra(t) PROVE EnManos'
  <2>1. Arrasa(t) /\ tarea'[t] = [tarea[t] EXCEPT !.op = "repone"]
        /\ datos' = datos
    BY <1>2 DEF G!Borra, G!Avanza, G!Pasa, Arrasa, G!En, TiposGlobal
  <2>2. tarea'[t].op = "repone" /\ tarea'[t].archivos = tarea[t].archivos
    BY <2>1, DeLaTarea
  <2>3. \A s \in Tareas \ {t} : ~ Arrasa(s)'
    BY <1>2 DEF G!Borra, G!Avanza, G!Pasa, Arrasa, TiposGlobal, Sola,
       G!Restaurando, G!En
  <2> QED
    BY <2>1, <2>2, <2>3 DEF EnManos, Arrasa
<1>3. ASSUME NEW t \in Tareas, G!Repone(t) PROVE EnManos'
  <2>1. Arrasa(t) /\ archivos' = tarea[t].archivos /\ datos' = datos
    BY <1>3 DEF G!Repone, Arrasa, G!En
  <2>2. \A s \in Tareas : ~ Arrasa(s)'
    BY <1>3 DEF G!Repone, G!Pasa, Arrasa, TiposGlobal, Sola, G!Restaurando,
       G!En
  <2> QED
    BY <2>1, <2>2 DEF EnManos
<1>4. ASSUME NEW t \in Tareas, G!Anota(t) PROVE EnManos'
  <2>1. G!En(t, "sube") /\ tarea[t].d \in archivos
    BY <1>4 DEF G!Anota, YaSubido
  <2>2. \A s \in Tareas : ~ Arrasa(s)
    BY <2>1 DEF Sola, G!En, Arrasa, G!Restaurando
  <2>3. \A s \in Tareas : ~ Arrasa(s)'
    BY <1>4, <2>2 DEF G!Anota, G!Pasa, Arrasa, TiposGlobal, G!Libre
  <2> QED
    BY <1>4, <2>1, <2>2, <2>3 DEF G!Anota, EnManos
<1>5. CASE G!Cae
  <2>1. \A s \in Tareas : ~ Arrasa(s)
    BY <1>5 DEF G!Cae, Arrasa, G!En
  <2>2. \A s \in Tareas : ~ Arrasa(s)'
    BY <1>5 DEF G!Cae, Arrasa, G!Libre
  <2> QED
    BY <1>5, <2>1, <2>2 DEF EnManos, G!Cae
<1>6. ASSUME NEW t \in Tareas, DaPaso(t), ~ G!Aplica(t), ~ G!Borra(t),
             ~ G!Repone(t), ~ G!Anota(t)
      PROVE  EnManos'
  <2>1. ~ Arrasa(t)
    BY <1>6 DEF DaPaso, G!create_backup_job, G!restore_backup_job, G!Sube,
       G!Solicita, G!Procesa, G!Vuelca, G!Empaca, G!Registra, G!FallaCrear,
       G!BorraObjeto, G!BorraFila, G!Programa, G!Restaura, G!Termina,
       G!FallaRestaurar, G!Empieza, G!En, Arrasa
  <2>2. ~ Arrasa(t)'
    BY <1>6, Llega DEF Arrasa, G!En
  <2>3. \A s \in Tareas \ {t} : tarea'[s] = tarea[s]
    BY <1>6, CadaPaso
  <2>4. datos' = datos /\ archivos \subseteq archivos'
    BY <1>6 DEF DaPaso, G!create_backup_job, G!restore_backup_job, G!Sube,
       G!Solicita, G!Procesa, G!Vuelca, G!Empaca, G!Registra, G!FallaCrear,
       G!BorraObjeto, G!BorraFila, G!Programa, G!Restaura, G!Termina,
       G!FallaRestaurar
  <2> QED
    BY <2>1, <2>2, <2>3, <2>4 DEF EnManos, Arrasa
<1>7. CASE UNCHANGED deGlobal
  BY <1>7 DEF deGlobal, EnManos, Arrasa
<1> QED
  BY <1>1, <1>2, <1>3, <1>4, <1>5, <1>6, <1>7 DEF G!Next, DaPaso

(* A package is made from a dump whose files are there (Empaca).            *)
LEMMA PaquetesSiguen ==
  ASSUME IInvGlobal, [G!Next]_deGlobal
  PROVE  G!PaqueteCompleto'
<1> USE DEF IInvGlobal
<1>1. ASSUME NEW t \in Tareas, G!Empaca(t) PROVE G!PaqueteCompleto'
  <2> DEFINE m == tarea[t]
             k == [hay |-> TRUE, fila |-> m.fila, datos |-> m.datos,
                   archivos |-> archivos]
  <2>1. k.datos \subseteq k.archivos
    BY <1>1 DEF G!Empaca, YaSubido
  <2>2. paquete' = [paquete EXCEPT ![m.r] = k]
    BY <1>1 DEF G!Empaca
  <2> HIDE DEF k
  <2> QED
    BY <2>1, <2>2 DEF G!PaqueteCompleto, TiposGlobal
<1>2. ASSUME NEW t \in Tareas, NEW r \in Respaldos, G!BorraObjeto(t, r)
      PROVE  G!PaqueteCompleto'
  BY <1>2 DEF G!BorraObjeto, G!PaqueteCompleto, TiposGlobal
<1>3. CASE paquete' = paquete
  BY <1>3 DEF G!PaqueteCompleto
<1> QED
  BY <1>1, <1>2, <1>3 DEF G!Next, deGlobal, G!create_backup_job,
     G!restore_backup_job, G!Sube, G!Anota, G!Solicita, G!Procesa, G!Vuelca,
     G!Registra, G!FallaCrear, G!BorraFila, G!Programa, G!Restaura, G!Aplica,
     G!Borra, G!Repone, G!Termina, G!FallaRestaurar, G!Cae

----------------------------------------------------------------------------
LEMMA GlobalInit == G!Init => IInvGlobal
BY DEF G!Init, IInvGlobal, TiposGlobal, FilasGlobales, G!Filas, G!Ninguna,
   G!Paquete, G!Vacio, Tarea, G!Libre, Sola, G!Restaurando, YaSubido, EnManos,
   G!PaqueteCompleto, G!En, Arrasa

LEMMA GlobalSigue ==
  ASSUME Apartada, Entera, IInvGlobal, [G!Next]_deGlobal
  PROVE  IInvGlobal'
BY TiposSiguen, SolaSigue, SubidoSigue, ManosSiguen, PaquetesSiguen
   DEF IInvGlobal

LEMMA GlobalEsSegura == IInvGlobal => G!GlobalSegura
BY DEF IInvGlobal, G!GlobalSegura, G!FilasConArchivo, EnManos, Arrasa,
   G!SinRestaurar, G!Restaurando

----------------------------------------------------------------------------
(* The theorems of the restore, of the whole system and of the run.         *)

(* What the run follows are the three components, each by its own steps.    *)
THEOREM LosTres == SpecMC => Spec /\ R!Spec /\ G!Spec
<1>1. InitMC => Init /\ R!Init /\ G!Init
  BY DEF InitMC
<1>2. [NextMC]_variables => [Next]_vars
  BY DEF NextMC, variables, vars
<1>3. [NextMC]_variables => [R!Next]_deRestauracion
  BY DEF NextMC, variables, deRestauracion
<1>4. [NextMC]_variables => [G!Next]_deGlobal
  BY DEF NextMC, variables, deGlobal
<1>5. SpecMC => R!Init /\ [][R!Next]_deRestauracion
  BY <1>1, <1>3, PTL DEF SpecMC
<1>6. SpecMC => G!Init /\ [][G!Next]_deGlobal
  BY <1>1, <1>4, PTL DEF SpecMC
<1>7. SpecMC => Spec
  BY <1>1, <1>2, PTL DEF SpecMC, Spec
<1> QED
  BY <1>5, <1>6, <1>7 DEF R!Spec, R!vars, G!Spec, G!vars, deRestauracion,
     deGlobal

(* However restores cross, every package is whole, a restore that goes on   *)
(* has its copy and its safety copy, and every event its author.            *)
THEOREM CopiasInvariante == R!Spec => []IInvCopias
<1>1. R!Init => IInvCopias
  BY RestauracionInit DEF IInvRestauracion
<1>2. IInvCopias /\ [R!Next]_deRestauracion => IInvCopias'
  BY CopiasSiguen
<1>3. R!Init /\ [][R!Next]_deRestauracion => []IInvCopias
  BY <1>1, <1>2, PTL
<1> QED
  BY <1>3 DEF R!Spec, R!vars, deRestauracion

(* While no restore begins as another puts its files back, files that a     *)
(* failure removes belong to no row, and every row has its file.            *)
THEOREM RestauracionInvariante ==
  ASSUME Ordenadas
  PROVE  R!Spec => []IInvRestauracion
<1>1. R!Init => IInvRestauracion
  BY RestauracionInit
<1>2. IInvRestauracion /\ [R!Next]_deRestauracion => IInvRestauracion'
  BY RestauracionSigue
<1>3. R!Init /\ [][R!Next]_deRestauracion => []IInvRestauracion
  BY <1>1, <1>2, PTL
<1> QED
  BY <1>3 DEF R!Spec, R!vars, deRestauracion

(* A row that a restore takes away can be brought back (restore_company,    *)
(* create_safety_backup), however restores cross.                           *)
THEOREM SiempreSeVuelve == R!Spec => R!PuntoDeRetorno
<1>1. IInvCopias /\ [R!Next]_deRestauracion =>
        [\A x \in filas \ filas' :
           \/ x \in R!Guardado
           \/ \E p \in Peticiones :
                R!En(p, "instala") /\ x \notin tramite[p].foto]_deRestauracion
  BY PuedeVolver
<1>2. R!Spec => [][R!Next]_deRestauracion
  BY DEF R!Spec, R!vars, deRestauracion
<1>3. R!Spec =>
        [][\A x \in filas \ filas' :
             \/ x \in R!Guardado
             \/ \E p \in Peticiones :
                  R!En(p, "instala") /\ x \notin tramite[p].foto]_deRestauracion
  BY <1>1, <1>2, CopiasInvariante, PTL
<1> QED
  BY <1>3 DEF R!PuntoDeRetorno, R!vars, deRestauracion

(* A company that is restored keeps the files of its rows, the authors of   *)
(* its events and the way back, while no restore begins as another puts its *)
(* files back (restore_company, install_files, undo_files).                 *)
THEOREM RestauracionSiempreFirme ==
  ASSUME Ordenadas
  PROVE  R!Spec => RestauracionFirme
<1>1. IInvRestauracion => R!ConArchivo /\ R!ConAutor
  BY DEF IInvRestauracion, IInvCopias
<1>2. R!Spec => [](R!ConArchivo /\ R!ConAutor)
  BY <1>1, RestauracionInvariante, PTL
<1> QED
  BY <1>2, SiempreSeVuelve DEF RestauracionFirme, R!RestauracionFirme

(* A restore of the whole system runs alone, and carries the files of the   *)
(* rows it put back, if the system is not operated meanwhile.               *)
THEOREM GlobalInvariante ==
  ASSUME Apartada, Entera
  PROVE  G!Spec => []IInvGlobal
<1>1. IInvGlobal /\ [G!Next]_deGlobal => IInvGlobal'
  BY GlobalSigue
<1>2. G!Init /\ [][G!Next]_deGlobal => []IInvGlobal
  BY <1>1, GlobalInit, PTL
<1> QED
  BY <1>2 DEF G!Spec, G!vars, deGlobal

(* A package holds the files of its rows, and so does the system outside a  *)
(* restore (create_backup_job, restore_backup_job), if it is not operated   *)
(* while it is restored and the restore ends.                               *)
THEOREM GlobalSiempreSegura ==
  ASSUME Apartada, Entera
  PROVE  G!Spec => []GlobalSegura
<1>1. IInvGlobal => GlobalSegura
  BY GlobalEsSegura DEF GlobalSegura
<1> QED
  BY <1>1, GlobalInvariante, PTL

(* Jobs, copies, backups, requests and tasks always have their types,       *)
(* whatever is assumed of workers, restores and operators.                  *)
THEOREM TiposDeTodos == SpecMC => []Tipos
<1>1. Spec => []TypeOK
  <2>1. IInvCola => TypeOK
    BY DEF IInvCola
  <2> QED
    BY <2>1, ColaInvariante, PTL
<1>2. R!Spec => []R!TypeOK
  <2>1. IInvCopias => R!TypeOK
    BY DEF IInvCopias
  <2> QED
    BY <2>1, CopiasInvariante, PTL
<1>3. G!Spec => []TiposGlobal
  <2>1. G!Init => TiposGlobal
    BY GlobalInit DEF IInvGlobal
  <2>2. TiposGlobal /\ [G!Next]_deGlobal => TiposGlobal'
    BY TiposSiguen
  <2>3. G!Init /\ [][G!Next]_deGlobal => []TiposGlobal
    BY <2>1, <2>2, PTL
  <2> QED
    BY <2>3 DEF G!Spec, G!vars, deGlobal
<1>4. TiposGlobal => G!TypeOK
  BY DEF TiposGlobal, FilasGlobales, G!TypeOK
<1>5. TypeOK /\ R!TypeOK /\ G!TypeOK => Tipos
  BY DEF Tipos
<1> QED
  BY <1>1, <1>2, <1>3, <1>4, <1>5, LosTres, PTL

(* What the run checks, for all values of the constants.                    *)
THEOREM RespaldosSeguros ==
  ASSUME Puntual, Ordenadas, Apartada, Entera
  PROVE  SpecMC => /\ [](Tipos /\ ColaSegura /\ GlobalSegura)
                   /\ CopiasFirmes /\ RestauracionFirme
<1>1. SpecMC => []ColaSegura /\ CopiasFirmes
  BY LosTres, ColaSiempreSegura, CopiasSiempreFirmes
<1>2. SpecMC => []GlobalSegura /\ RestauracionFirme
  BY LosTres, GlobalSiempreSegura, RestauracionSiempreFirme
<1> QED
  BY <1>1, <1>2, TiposDeTodos, PTL
=============================================================================
