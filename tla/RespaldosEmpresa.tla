------------------------- MODULE RespaldosEmpresa -------------------------
(***************************************************************************)
(* The queue of company backups: requests and planners that enqueue jobs,  *)
(* the worker loops (one per replica of the backend) that claim a job,     *)
(* package, upload and record it, the expiry of old copies, and the        *)
(* restore of a company as far as the queue sees it.                       *)
(*                                                                         *)
(* A worker holds nothing in the database while it packages and uploads:   *)
(* a replica that dies leaves its job PROCESANDO, and another takes it for *)
(* dead after six hours, whether it is dead or slow.  Puntual says that no *)
(* live worker is that slow.                                               *)
(*                                                                         *)
(* Every audit row and every job refers to its company, so whoever holds   *)
(* the row of the company FOR UPDATE makes them wait: EmpresaLibre.        *)
(***************************************************************************)
EXTENDS Naturals, Sequences

CONSTANTS
  Empresas,
  Obreros,       \* worker loops, one per replica
  Peticiones,    \* planners and restores in flight
  Puntual,       \* no live worker needs six hours for one job
  Retencion,     \* settings.tenant_backup_retention_days
  MaxDia,        \* bound on the days
  MaxTrabajos,   \* bound on the jobs ever created
  MaxIntentos    \* bound on the claims of one job

ASSUME PuntualBooleano == Puntual \in BOOLEAN
ASSUME RetencionNatural == Retencion \in Nat
ASSUME CotasRespaldo ==
  MaxDia \in Nat /\ MaxTrabajos \in Nat /\ MaxIntentos \in Nat /\ MaxIntentos >= 3

VARIABLES
  hoy,           \* the day in America/La_Paz
  trabajo,       \* table respaldo_empresa, in order of insertion
  objeto,        \* the object store: the checksum of the object of each job
  obrero,        \* what each worker loop is doing
  peticion       \* planners and restores in flight

vars == <<hoy, trabajo, objeto, obrero, peticion>>

----------------------------------------------------------------------------
(* Jobs. *)

Dias == 0 .. MaxDia
Ids == 1 .. MaxTrabajos
Sumas == 0 .. MaxIntentos      \* checksums: the attempt that wrote; 0: none

(* vencido: fecha_inicio is more than six hours ago.                        *)
Trabajo ==
  [empresa : Empresas, origen : {"AUTO", "MANUAL"}, dia : Dias,
   estado : {"PENDIENTE", "PROCESANDO", "COMPLETADO", "FALLIDO", "EXPIRADO"},
   intentos : Sumas, vencido : BOOLEAN, sha : Sumas]

Existe(j) == j \in DOMAIN trabajo
Esta(j, estado) == Existe(j) /\ trabajo[j].estado = estado
Activo(j) == Esta(j, "PENDIENTE") \/ Esta(j, "PROCESANDO")
De(e) == {j \in DOMAIN trabajo : trabajo[j].empresa = e}

(* uq_respaldo_empresa_activo lets one more active job in.                  *)
SinActivos(e) == \A j \in De(e) : ~ Activo(j)

(* fecha_creacion: by day, and within a day in order of insertion.          *)
Antes(j, k) ==
  \/ trabajo[j].dia < trabajo[k].dia
  \/ (trabajo[j].dia = trabajo[k].dia /\ j < k)

RotoHayNueva(j) == TRUE
HayNueva(j) ==
  \E k \in De(trabajo[j].empresa) : Esta(k, "COMPLETADO") /\ Antes(j, k)

(* The copy can be downloaded and passes the comparison of its checksum.    *)
Integra(j) == Esta(j, "COMPLETADO") /\ objeto[j] = trabajo[j].sha
Copias(e) == {j \in De(e) : Integra(j)}

Inserta(e, origen, d, estado, n) ==
  /\ Len(trabajo) < MaxTrabajos
  /\ trabajo' = Append(trabajo,
       [empresa |-> e, origen |-> origen, dia |-> d, estado |-> estado,
        intentos |-> n, vencido |-> FALSE, sha |-> n])

----------------------------------------------------------------------------
(* Workers and requests. *)

Ocioso == [paso |-> "ocioso"]
Obrero ==
  {Ocioso}
  \cup [paso : {"empaca", "registra"}, j : Ids, sha : Sumas]
  \cup [paso : {"borra", "expira"}, j : Ids]
Hace(w, paso) == obrero[w].paso = paso
Trabaja(w, j) ==
  (Hace(w, "empaca") \/ Hace(w, "registra")) /\ obrero[w].j = j
Descansa(w) == obrero' = [obrero EXCEPT ![w] = Ocioso]

Reposo == [op |-> "libre"]
Peticion ==
  {Reposo}
  \cup [op : {"planificar", "copia"}, e : Empresas, dia : Dias]
  \cup [op : {"copiada", "restaurar"}, e : Empresas]
En(p, op) == peticion[p].op = op
Pasa(p, m) == peticion' = [peticion EXCEPT ![p] = m]

(* Nobody holds the row of company e FOR UPDATE.                            *)
RotoEmpresaLibre(e) == TRUE
EmpresaLibre(e) ==
  \A p \in Peticiones :
    ~ (peticion[p].op \in {"planificar", "restaurar"} /\ peticion[p].e = e)

Init ==
  /\ hoy = 0
  /\ trabajo = <<>>
  /\ objeto = [j \in Ids |-> 0]
  /\ obrero = [w \in Obreros |-> Ocioso]
  /\ peticion = [p \in Peticiones |-> Reposo]

----------------------------------------------------------------------------
(* Enqueuing. *)

(* enqueue_backup: the index refuses what its own check misses.             *)
Encola(e) ==
  /\ EmpresaLibre(e) /\ SinActivos(e)
  /\ Inserta(e, "MANUAL", hoy, "PENDIENTE", 0)
  /\ UNCHANGED <<hoy, objeto, obrero, peticion>>

(* schedule_daily_backups, for one company.  The instant was read before    *)
(* the company was locked, so d may be yesterday.                           *)
LeePlanificar(p, e, d) ==
  /\ En(p, "libre") /\ EmpresaLibre(e)
  /\ hoy \in {d, d + 1}
  /\ \A j \in De(e) : ~ (trabajo[j].origen = "AUTO" /\ trabajo[j].dia = d)
  /\ SinActivos(e)
  /\ Pasa(p, [op |-> "planificar", e |-> e, dia |-> d])
  /\ UNCHANGED <<hoy, trabajo, objeto, obrero>>

EscribePlanificar(p) ==
  /\ En(p, "planificar")
  /\ SinActivos(peticion[p].e)
  /\ Inserta(peticion[p].e, "AUTO", peticion[p].dia, "PENDIENTE", 0)
  /\ Pasa(p, Reposo)
  /\ UNCHANGED <<hoy, objeto, obrero>>

----------------------------------------------------------------------------
(* The worker loop. *)

(* _claim first gives back every job that started six hours ago.            *)
RotoSoloPendiente(j) == Esta(j, "PENDIENTE")
Reclamable(j) ==
  \/ Esta(j, "PENDIENTE")
  \/ (Esta(j, "PROCESANDO") /\ trabajo[j].vencido)

Reclama(w) ==
  /\ Hace(w, "ocioso")
  /\ \E j \in DOMAIN trabajo :
       /\ Reclamable(j)
       /\ \A k \in DOMAIN trabajo \ {j} : Reclamable(k) => Antes(j, k)
       /\ trabajo' = [k \in DOMAIN trabajo |->
            IF k = j
            THEN [trabajo[j] EXCEPT !.estado = "PROCESANDO", !.intentos = @ + 1,
                                    !.vencido = FALSE]
            ELSE IF Reclamable(k)
            THEN [trabajo[k] EXCEPT !.estado = "PENDIENTE", !.vencido = FALSE]
            ELSE trabajo[k]]
       /\ obrero' = [obrero EXCEPT ![w] =
            [paso |-> "empaca", j |-> j, sha |-> trabajo[j].intentos + 1]]
  /\ UNCHANGED <<hoy, objeto, peticion>>

(* The package is complete and uploaded under the key of the job.           *)
Sube(w) ==
  /\ Hace(w, "empaca")
  /\ objeto' = [objeto EXCEPT ![obrero[w].j] = obrero[w].sha]
  /\ obrero' = [obrero EXCEPT ![w].paso = "registra"]
  /\ UNCHANGED <<hoy, trabajo, peticion>>

(* Nothing asks whether the job is still this worker's.                     *)
Registra(w) ==
  LET m == obrero[w] IN
  /\ Hace(w, "registra")
  /\ EmpresaLibre(trabajo[m.j].empresa)
  /\ trabajo' = [trabajo EXCEPT ![m.j].estado = "COMPLETADO", ![m.j].sha = m.sha]
  /\ Descansa(w)
  /\ UNCHANGED <<hoy, objeto, peticion>>

RotoTrasFallo(n) == IF n < 3 THEN "PENDIENTE" ELSE "ERROR"
TrasFallo(n) == IF n < 3 THEN "PENDIENTE" ELSE "FALLIDO"

(* A package, an upload or a record that fails.  The index may refuse the   *)
(* return to PENDIENTE; the loop catches that and goes on.                  *)
Falla(w) ==
  LET m == obrero[w]
      estado == TrasFallo(trabajo[m.j].intentos)
      otros == De(trabajo[m.j].empresa) \ {m.j}
  IN
  /\ Hace(w, "empaca") \/ Hace(w, "registra")
  /\ EmpresaLibre(trabajo[m.j].empresa)
  /\ trabajo' = IF estado = "PENDIENTE" /\ \E k \in otros : Activo(k)
                THEN trabajo
                ELSE [trabajo EXCEPT ![m.j].estado = estado]
  /\ Descansa(w)
  /\ UNCHANGED <<hoy, objeto, peticion>>

(* expire_old_backups, one copy at a time, when there was nothing to claim. *)
LeeExpirar(w, j) ==
  /\ Hace(w, "ocioso")
  /\ \A k \in DOMAIN trabajo : ~ Reclamable(k)
  /\ Esta(j, "COMPLETADO") /\ trabajo[j].origen = "AUTO"
  /\ trabajo[j].dia + Retencion < hoy
  /\ HayNueva(j)
  /\ obrero' = [obrero EXCEPT ![w] = [paso |-> "borra", j |-> j]]
  /\ UNCHANGED <<hoy, trabajo, objeto, peticion>>

Borra(w) ==
  /\ Hace(w, "borra")
  /\ objeto' = [objeto EXCEPT ![obrero[w].j] = 0]
  /\ obrero' = [obrero EXCEPT ![w].paso = "expira"]
  /\ UNCHANGED <<hoy, trabajo, peticion>>

EscribeExpirar(w) ==
  LET j == obrero[w].j IN
  /\ Hace(w, "expira")
  /\ EmpresaLibre(trabajo[j].empresa)
  /\ trabajo' = [trabajo EXCEPT ![j].estado = "EXPIRADO"]
  /\ Descansa(w)
  /\ UNCHANGED <<hoy, objeto, peticion>>

(* The replica stops, or an error outside _process ends the round.          *)
Muere(w) ==
  /\ ~ Hace(w, "ocioso")
  /\ \A j \in Ids : Trabaja(w, j) => trabajo[j].intentos < MaxIntentos
  /\ Descansa(w)
  /\ UNCHANGED <<hoy, trabajo, objeto, peticion>>

----------------------------------------------------------------------------
(* The restore of a company: a safety copy, then, under the lock of the     *)
(* company, the replacement of its rows and files.                          *)

LeeCopia(p, e) ==
  /\ En(p, "libre") /\ Copias(e) # {}
  /\ Pasa(p, [op |-> "copia", e |-> e, dia |-> hoy])
  /\ UNCHANGED <<hoy, trabajo, objeto, obrero>>

(* The copy is uploaded before its row is inserted.                         *)
EscribeCopia(p) ==
  LET m == peticion[p] IN
  /\ En(p, "copia") /\ EmpresaLibre(m.e)
  /\ Inserta(m.e, "MANUAL", m.dia, "COMPLETADO", 1)
  /\ objeto' = [objeto EXCEPT ![Len(trabajo) + 1] = 1]
  /\ Pasa(p, [op |-> "copiada", e |-> m.e])
  /\ UNCHANGED <<hoy, obrero>>

PuedeRestaurar(e) == EmpresaLibre(e) /\ SinActivos(e)
LeeRestaurar(p) ==
  /\ En(p, "copiada") /\ PuedeRestaurar(peticion[p].e)
  /\ Pasa(p, [op |-> "restaurar", e |-> peticion[p].e])
  /\ UNCHANGED <<hoy, trabajo, objeto, obrero>>

EscribeRestaurar(p) ==
  /\ En(p, "restaurar")
  /\ Pasa(p, Reposo)
  /\ UNCHANGED <<hoy, trabajo, objeto, obrero>>

Revierte(p) ==
  /\ ~ En(p, "libre")
  /\ Pasa(p, Reposo)
  /\ UNCHANGED <<hoy, trabajo, objeto, obrero>>

----------------------------------------------------------------------------
(* Time. *)

SeisHoras(j) ==
  /\ Esta(j, "PROCESANDO") /\ ~ trabajo[j].vencido
  /\ (\E w \in Obreros : Trabaja(w, j)) =>
       ~ Puntual /\ trabajo[j].intentos < MaxIntentos
  /\ trabajo' = [trabajo EXCEPT ![j].vencido = TRUE]
  /\ UNCHANGED <<hoy, objeto, obrero, peticion>>

(* The last day stands for every later one.                                 *)
Amanece ==
  /\ hoy' = IF hoy < MaxDia THEN hoy + 1 ELSE hoy
  /\ UNCHANGED <<trabajo, objeto, obrero, peticion>>

----------------------------------------------------------------------------
Obra(w) ==
  \/ Reclama(w) \/ Sube(w) \/ Registra(w) \/ Falla(w)
  \/ Borra(w) \/ EscribeExpirar(w)

Concluye(p) ==
  EscribePlanificar(p) \/ EscribeCopia(p) \/ EscribeRestaurar(p) \/ Revierte(p)

Next ==
  \/ \E e \in Empresas : Encola(e)
  \/ \E w \in Obreros : Obra(w) \/ Muere(w) \/ \E j \in Ids : LeeExpirar(w, j)
  \/ \E p \in Peticiones :
       \/ \E e \in Empresas :
            LeeCopia(p, e) \/ \E d \in Dias : LeePlanificar(p, e, d)
       \/ LeeRestaurar(p)
       \/ Concluye(p)
  \/ \E j \in Ids : SeisHoras(j)
  \/ Amanece

(* A worker loop never stops: it catches every error, and a replica that    *)
(* dies is started again.  A transaction ends.  Six hours pass.             *)
Justicia ==
  /\ \A w \in Obreros : WF_vars(Obra(w))
  /\ \A p \in Peticiones : WF_vars(Concluye(p))
  /\ \A j \in Ids : WF_vars(SeisHoras(j))

Spec == Init /\ [][Next]_vars
SpecJusta == Spec /\ Justicia

----------------------------------------------------------------------------
(* What must hold. *)

TypeOK ==
  /\ hoy \in Dias
  /\ trabajo \in Seq(Trabajo) /\ Len(trabajo) <= MaxTrabajos
  /\ objeto \in [Ids -> Sumas]
  /\ obrero \in [Obreros -> Obrero]
  /\ peticion \in [Peticiones -> Peticion]

(* "encola una sola copia automatica por dia local", however many replicas  *)
(* and cron jobs plan at the same time, around midnight included.           *)
UnaAutoPorDia ==
  \A j, k \in DOMAIN trabajo :
    /\ j # k /\ trabajo[j].origen = "AUTO" /\ trabajo[k].origen = "AUTO"
    /\ trabajo[j].empresa = trabajo[k].empresa
    => trabajo[j].dia # trabajo[k].dia

(* A backup that says COMPLETADO can be downloaded and verified, except     *)
(* while it is being expired or after its expiry was cut short, and then a  *)
(* newer one says so too.                                                   *)
CopiaIntegra ==
  \A j \in DOMAIN trabajo : Esta(j, "COMPLETADO") =>
    Integra(j) \/ (objeto[j] = 0 /\ HayNueva(j))

(* "Preservar la ultima copia disponible": a company that has a copy it can *)
(* restore never stops having one, whatever expires, fails, dies or is      *)
(* planned.                                                                 *)
ConservaCopia ==
  [][\A e \in Empresas : Copias(e) # {} => Copias(e)' # {}]_vars

(* A job that ended is never worked on again: FALLIDO and EXPIRADO are      *)
(* final and COMPLETADO only expires.                                       *)
TerminadoEsFinal ==
  [][\A j \in DOMAIN trabajo :
       /\ trabajo[j].estado \in {"FALLIDO", "EXPIRADO"} =>
            trabajo'[j] = trabajo[j]
       /\ trabajo[j].estado = "COMPLETADO" =>
            trabajo'[j] \in {trabajo[j],
                             [trabajo[j] EXCEPT !.estado = "EXPIRADO"]}]_vars

(* The copies a company has outlive the jobs, and ended jobs do not return. *)
CopiasFirmes == ConservaCopia /\ TerminadoEsFinal

(* No worker packages a company while its rows and files are replaced.      *)
RestauraSinCopias ==
  \A p \in Peticiones, w \in Obreros : En(p, "restaurar") =>
    \A j \in De(peticion[p].e) : ~ Trabaja(w, j)

(* The queue: one automatic backup a day, none during a restore, and what   *)
(* it calls complete is there.                                              *)
ColaSegura == UnaAutoPorDia /\ RestauraSinCopias /\ CopiaIntegra

(* Every job ends, although its worker may fail, die and leave it to        *)
(* another.                                                                 *)
TodoTermina == \A j \in Ids : Activo(j) ~> ~ Activo(j)
=============================================================================
