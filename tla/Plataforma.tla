----------------------------- MODULE Plataforma -----------------------------
(***************************************************************************)
(* What the administrators of the platform do to the companies that rent   *)
(* it: provision, edit, suspend, delete and restore a company, plans and   *)
(* the modules they include, the modules of a company, and the audit chain *)
(* that all of them write (the one without company).                       *)
(*                                                                         *)
(* A request reads without locks (Lee...), sends its INSERT or UPDATE,     *)
(* which holds the row it touches (Ordena...), takes the date of its audit *)
(* record, waits for the advisory lock of the chain and reads the hash of  *)
(* the last record (Turno), and commits (Confirma).  The adjustment of a   *)
(* subscription and a payment write the chain of their company, which is   *)
(* alike and is left out; what else they do is module Suscripcion.  The    *)
(* accounts and sessions a deletion shuts down are Cuentas and Sesiones.   *)
(* The names of a company are unique in the database: a request that loses  *)
(* a name is one that reverts.                                             *)
(*                                                                         *)
(* The Roto... operators are plausible mistakes; no definition uses them,  *)
(* they show that a property can fail.                                     *)
(***************************************************************************)
EXTENDS Naturals, Sequences, FiniteSets, FiniteSetsExt

CONSTANTS
  Empresas,    \* identifiers of companies
  Planes,      \* plan_suscripcion
  Modulos,     \* modules a plan may include; the core ones are always enabled
  Peticiones,  \* slots for the requests in flight
  MaxEventos   \* bound on the audit records looked at

ASSUME MaxEventosNatural == MaxEventos \in Nat
ASSUME NadaNoEsNadie == "NADA" \notin Empresas \cup Planes

VARIABLES
  empresa,   \* table empresa
  suscrita,  \* suscripcion.plan_id of each company
  plan,      \* plan_suscripcion.activo
  incluye,   \* plan_modulo, where the code looks the modules of a plan up
  modulos,   \* empresa_modulo: the modules enabled in each company
  bitacora,  \* the audit records without company, in order of insertion
  reloj,     \* the last date given to a record
  peticion   \* the requests in flight

tablas == <<empresa, suscrita, plan, incluye, modulos, bitacora>>
vars == <<empresa, suscrita, plan, incluye, modulos, bitacora, reloj, peticion>>

----------------------------------------------------------------------------
(* The rows. *)

FilaEmpresa == [creada : BOOLEAN, activo : BOOLEAN, eliminada : BOOLEAN]
EmpresaModulo == [Empresas -> SUBSET Modulos]
SinCrear == [creada |-> FALSE, activo |-> FALSE, eliminada |-> FALSE]
Existe(e) == empresa[e].creada
EstadosPlan == {"NADA", "ACTIVO", "INACTIVO"}
RotoAbiertos == Planes
Abiertos == {p \in Planes : plan[p] = "ACTIVO"}

(* The audit chain.  A record is known by its date; its hash_anterior names *)
(* the record it was chained to, or 0.                                      *)
Registro == [fecha : 1..MaxEventos, anterior : 0..MaxEventos]
Fechas(filas) == {f.fecha : f \in filas}
Ultima(fechas) == IF fechas = {} THEN 0 ELSE Max(fechas)
Registros == {bitacora[i] : i \in DOMAIN bitacora}

(* verify_chain walks the records by date: each must name the one before.   *)
Verifica == \A f \in Registros :
  f.anterior = Ultima({d \in Fechas(Registros) : d < f.fecha})

----------------------------------------------------------------------------
(* The requests.  toca: it holds the row it writes; cambia: it changes the  *)
(* plan of the company; estado: the new state of the plan, if it changes;   *)
(* pone and quita, the modules it turns on and off; pasada: another commit  *)
(* changed the plan of the company, the modules of a plan or of the company *)
(* since it read.                                                           *)

DeEmpresa == {"EDITAR", "ACTIVAR", "SUSPENDER", "ELIMINAR", "RESTAURAR"}
DePlan == {"CREAR_PLAN", "EDITAR_PLAN"}
Sincronizan == {"ASIGNAR", "APROVISIONAR"}

Peticion ==
  [tipo : {"LIBRE", "MODULOS"} \cup DeEmpresa \cup DePlan \cup Sincronizan,
   fase : {"LEIDA", "BORRA", "FECHADA", "TURNO", "LISTA"},
   e : Empresas \cup {"NADA"}, plan : Planes \cup {"NADA"},
   estado : EstadosPlan, toca : BOOLEAN, cambia : BOOLEAN,
   pone : SUBSET Modulos, quita : SUBSET Modulos, fecha : 0..MaxEventos,
   anterior : 0..MaxEventos, pasada : BOOLEAN]
Libre == [tipo |-> "LIBRE", fase |-> "LEIDA", e |-> "NADA",
          plan |-> "NADA", estado |-> "NADA", toca |-> FALSE,
          cambia |-> FALSE, pone |-> {}, quita |-> {}, fecha |-> 0,
          anterior |-> 0, pasada |-> FALSE]

En(r, tipos, fase) == peticion[r].tipo \in tipos /\ peticion[r].fase = fase
Empieza(r, p) ==
  /\ peticion[r] = Libre
  /\ peticion' = [peticion EXCEPT ![r] = p]
  /\ UNCHANGED <<tablas, reloj>>

(* The date of the audit record, taken before its lock is asked for.        *)
(* Beyond the bound the records are not looked at.                          *)
Cabe == reloj < MaxEventos
_audit(r, p) ==
  /\ reloj' = IF Cabe THEN reloj + 1 ELSE reloj
  /\ peticion' = [peticion EXCEPT ![r] =
       [p EXCEPT !.fase = "FECHADA", !.fecha = IF Cabe THEN reloj + 1 ELSE 0]]
  /\ UNCHANGED tablas

Sigue(r, p) ==
  /\ peticion' = [peticion EXCEPT ![r] = [p EXCEPT !.fase = "LISTA"]]
  /\ UNCHANGED <<tablas, reloj>>

(* The rows other requests hold until they commit.                          *)
Tocan(campo, x) == {r \in Peticiones :
  peticion[r].toca /\ peticion[r][campo] = x}
EmpresaLibre(e) == \A r \in Tocan("e", e) : peticion[r].tipo \notin DeEmpresa
SuscripcionLibre(e) == \A r \in Tocan("e", e) : peticion[r].tipo # "ASIGNAR"
PlanLibre(p) == \A r \in Tocan("plan", p) : peticion[r].tipo \notin DePlan

----------------------------------------------------------------------------
(* Companies. *)

(* ProvisionEmpresa.execute: its check, then its rows, with the modules of  *)
(* an active plan (the cheapest; prices are not modelled).  The mail with   *)
(* the verification is sent before the commit.                              *)
LeeAprovisionar(r, e) ==
  /\ ~ Existe(e)
  /\ \A q \in Peticiones : peticion[q].e # e
  /\ Empieza(r, [Libre EXCEPT !.tipo = "APROVISIONAR", !.e = e])

(* The rows of empresa_modulo, of which pone are the enabled ones.          *)
_habilitar_modulos(k) == incluye[k]
OrdenaAprovisionar(r) ==
  LET p == peticion[r] IN
  /\ En(r, {"APROVISIONAR"}, "LEIDA")
  /\ \E k \in Abiertos :
       _audit(r, [p EXCEPT !.plan = k, !.pone = _habilitar_modulos(k)])

(* update_empresa, _set_empresa_status, delete_empresa, restore_empresa:    *)
(* what each asks of the row it reads without a lock.                       *)
Admite(tipo, e) ==
  /\ Existe(e)
  /\ tipo = "RESTAURAR" <=> empresa[e].eliminada
LeeEmpresa(r, e, tipo) ==
  /\ Admite(tipo, e)
  /\ Empieza(r, [Libre EXCEPT !.tipo = tipo, !.e = e])

(* The UPDATE: that of a deletion or a restore looks at the row again; the  *)
(* others write by identifier, and then need the company to answer with,    *)
(* which get_empresa does not return once it is deleted.                    *)
RotoResponde(e) == TRUE
Responde(e) == ~ empresa[e].eliminada
Coincide(tipo, e) ==
  CASE tipo = "ELIMINAR" -> ~ empresa[e].eliminada
    [] tipo = "RESTAURAR" -> empresa[e].eliminada
    [] OTHER -> TRUE
OrdenaEmpresa(r) ==
  LET p == peticion[r] IN
  /\ En(r, DeEmpresa, "LEIDA")
  /\ EmpresaLibre(p.e)
  /\ p.tipo # "ELIMINAR" /\ p.tipo # "RESTAURAR" => Responde(p.e)
  /\ _audit(r, [p EXCEPT !.toca = Coincide(p.tipo, p.e)])

TrasCambio(p) ==
  LET fila == empresa[p.e] IN
  CASE p.tipo = "APROVISIONAR" ->
         [creada |-> TRUE, activo |-> TRUE, eliminada |-> FALSE]
    [] p.tipo = "EDITAR" -> fila
    [] p.tipo = "ACTIVAR" -> [fila EXCEPT !.activo = TRUE]
    [] p.tipo = "SUSPENDER" -> [fila EXCEPT !.activo = FALSE]
    [] OTHER -> [fila EXCEPT !.activo = FALSE,
                             !.eliminada = p.tipo = "ELIMINAR"]

----------------------------------------------------------------------------
(* Plans.  update_plan deletes the modules of the plan that its statement   *)
(* sees (Borra), waits for the rows another deletion holds, sends the       *)
(* UPDATE if a column changes, and inserts the modules again.               *)

LeeCrear(r, k, estado, mods) ==
  /\ plan[k] = "NADA" /\ \A q \in Peticiones : peticion[q].plan # k
  /\ Empieza(r, [Libre EXCEPT !.tipo = "CREAR_PLAN", !.fase = "BORRA",
                              !.plan = k, !.estado = estado, !.pone = mods])
LeeEditar(r, k, estado, mods) ==
  /\ plan[k] # "NADA"
  /\ Empieza(r, [Libre EXCEPT !.tipo = "EDITAR_PLAN", !.plan = k,
       !.estado = IF estado = plan[k] THEN "NADA" ELSE estado, !.pone = mods])
Borra(r) ==
  LET p == peticion[r] IN
  /\ En(r, {"EDITAR_PLAN"}, "LEIDA")
  /\ peticion' = [peticion EXCEPT ![r].fase = "BORRA",
                                  ![r].quita = incluye[p.plan]]
  /\ UNCHANGED <<tablas, reloj>>

Borrables(p) == \A q \in Peticiones :
  peticion[q].plan = p.plan /\ peticion[q].fase \in {"FECHADA", "TURNO"}
    => peticion[q].quita \cap p.quita = {}
OrdenaPlan(r) ==
  LET p == peticion[r] IN
  /\ En(r, DePlan, "BORRA") /\ Borrables(p)
  /\ \E otras \in BOOLEAN :
       /\ p.estado # "NADA" => otras
       /\ otras => PlanLibre(p.plan)
       /\ _audit(r, [p EXCEPT !.toca = otras])

(* uq_plan_modulo refuses a module another request left there meanwhile.    *)
Insertables(p) == (incluye[p.plan] \ p.quita) \cap p.pone = {}
Reemplaza(p) == (incluye[p.plan] \ p.quita) \cup p.pone

----------------------------------------------------------------------------
(* The modules of a company. *)

(* assign_subscription, and the webhook (a checkout buys a plan, any other  *)
(* event keeps the one it read): the plan is read, the subscription         *)
(* updated, the modules synchronised.                                       *)
LeeAsignar(r, e, k) ==
  /\ Existe(e) /\ plan[k] # "NADA"
  /\ Empieza(r, [Libre EXCEPT !.tipo = "ASIGNAR", !.e = e, !.plan = k,
                              !.cambia = k # suscrita[e]])
OrdenaAsignar(r) ==
  LET p == peticion[r] IN
  /\ En(r, {"ASIGNAR"}, "LEIDA")
  /\ \E otras \in BOOLEAN :
       /\ otras \/ p.cambia => SuscripcionLibre(p.e)
       /\ Sigue(r, [p EXCEPT !.toca = otras \/ p.cambia,
                             !.pone = incluye[p.plan] \ modulos[p.e],
                             !.quita = modulos[p.e] \ incluye[p.plan]])

(* actualizar_modulos_de_empresa.                                           *)
LeeModulos(r, e, mods) ==
  /\ Existe(e)
  /\ Empieza(r, [Libre EXCEPT !.tipo = "MODULOS", !.fase = "LISTA", !.e = e,
                              !.pone = mods \ modulos[e],
                              !.quita = modulos[e] \ mods])

RotoSincroniza(p) == modulos[p.e] \cup p.pone
Sincroniza(p) == (modulos[p.e] \ p.quita) \cup p.pone

----------------------------------------------------------------------------
(* The audit record, and the commit. *)

RotoTurnoLibre == TRUE
TurnoLibre == \A r \in Peticiones : peticion[r].fase # "TURNO"
Turno(r) ==
  /\ peticion[r].fase = "FECHADA" /\ TurnoLibre
  /\ peticion' = [peticion EXCEPT ![r].fase = "TURNO",
       ![r].anterior = Ultima(Fechas(Registros))]
  /\ UNCHANGED <<tablas, reloj>>

Anota(p) == bitacora' =
  IF p.fecha = 0 THEN bitacora
  ELSE Append(bitacora, [fecha |-> p.fecha, anterior |-> p.anterior])

Envejece(r) == peticion' = [q \in Peticiones |->
  IF q = r \/ peticion[q] = Libre THEN Libre
  ELSE [peticion[q] EXCEPT !.pasada = @
          \/ /\ peticion[q].tipo \in Sincronizan
             /\ \/ incluye' # incluye
                \/ suscrita'[peticion[q].e] # suscrita[peticion[q].e]
                \/ modulos'[peticion[q].e] # modulos[peticion[q].e]]]

ConfirmaEmpresa(r) ==
  LET p == peticion[r] IN
  /\ En(r, DeEmpresa \cup {"APROVISIONAR"}, "TURNO")
  /\ empresa' = [empresa EXCEPT ![p.e] = 
         IF p.toca \/ p.tipo = "APROVISIONAR" THEN TrasCambio(p) ELSE @]
  /\ suscrita' = [suscrita EXCEPT ![p.e] =
       IF p.tipo = "APROVISIONAR" THEN p.plan ELSE @]
  /\ modulos' = [modulos EXCEPT ![p.e] =
       IF p.tipo = "APROVISIONAR" THEN p.pone ELSE @]
  /\ Anota(p)
  /\ UNCHANGED <<plan, incluye, reloj>>
  /\ Envejece(r)

ConfirmaPlan(r) ==
  LET p == peticion[r] IN
  /\ En(r, DePlan, "TURNO") /\ Insertables(p)
  /\ plan' = [plan EXCEPT ![p.plan] =
       IF p.estado = "NADA" THEN @ ELSE p.estado]
  /\ incluye' = [incluye EXCEPT ![p.plan] = Reemplaza(p)]
  /\ Anota(p)
  /\ UNCHANGED <<empresa, suscrita, modulos, reloj>>
  /\ Envejece(r)

ConfirmaModulos(r) ==
  LET p == peticion[r] IN
  /\ En(r, {"ASIGNAR", "MODULOS"}, "LISTA")
  /\ suscrita' = [suscrita EXCEPT ![p.e] =
       IF p.cambia THEN p.plan ELSE @]
  /\ modulos' = [modulos EXCEPT ![p.e] = Sincroniza(p)]
  /\ UNCHANGED <<empresa, plan, incluye, bitacora, reloj>>
  /\ Envejece(r)

(* The request answers an error, or its connection or its process dies.     *)
Revierte(r) ==
  /\ peticion[r] # Libre
  /\ peticion' = [peticion EXCEPT ![r] = Libre]
  /\ UNCHANGED <<tablas, reloj>>

----------------------------------------------------------------------------
Init ==
  /\ empresa = [e \in Empresas |-> SinCrear]
  /\ suscrita = [e \in Empresas |-> "NADA"]
  /\ plan \in [Planes -> {"NADA", "ACTIVO"}]
  /\ incluye \in {i \in [Planes -> SUBSET Modulos] :
                  \A k \in Planes : plan[k] = "NADA" => i[k] = {}}
  /\ modulos = [e \in Empresas |-> {}]
  /\ bitacora = <<>> /\ reloj = 0
  /\ peticion = [r \in Peticiones |-> Libre]

provision_empresa(r) ==
  \/ \E e \in Empresas : LeeAprovisionar(r, e)
  \/ OrdenaAprovisionar(r)
update_empresa(r) ==
  \E e \in Empresas : LeeEmpresa(r, e, "EDITAR")
_set_empresa_status(r) ==
  \E e \in Empresas, tipo \in {"ACTIVAR", "SUSPENDER"} :
    LeeEmpresa(r, e, tipo)
delete_empresa(r) ==
  \E e \in Empresas : LeeEmpresa(r, e, "ELIMINAR")
restore_empresa(r) ==
  \E e \in Empresas : LeeEmpresa(r, e, "RESTAURAR")

create_plan(r) ==
  \E k \in Planes, estado \in {"ACTIVO", "INACTIVO"}, mods \in SUBSET Modulos :
    LeeCrear(r, k, estado, mods)
update_plan(r) ==
  \/ \E k \in Planes, estado \in {"ACTIVO", "INACTIVO"}, mods \in SUBSET Modulos :
       LeeEditar(r, k, estado, mods)
  \/ Borra(r)
assign_subscription(r) ==
  \/ \E e \in Empresas, k \in Planes : LeeAsignar(r, e, k)
  \/ OrdenaAsignar(r)
actualizar_modulos_de_empresa(r) ==
  \E e \in Empresas, mods \in SUBSET Modulos : LeeModulos(r, e, mods)

Next == \E r \in Peticiones :
  \/ provision_empresa(r) \/ update_empresa(r) \/ _set_empresa_status(r)
  \/ delete_empresa(r) \/ restore_empresa(r) \/ OrdenaEmpresa(r)
  \/ create_plan(r) \/ update_plan(r) \/ OrdenaPlan(r)
  \/ assign_subscription(r) \/ actualizar_modulos_de_empresa(r)
  \/ Turno(r)
  \/ ConfirmaEmpresa(r) \/ ConfirmaPlan(r) \/ ConfirmaModulos(r)
  \/ Revierte(r)

Spec == Init /\ [][Next]_vars

----------------------------------------------------------------------------
(* What must hold. *)

(* Every row and every request has its type, and a company its plan.        *)
TypeOK ==
  /\ empresa \in [Empresas -> FilaEmpresa]
  /\ suscrita \in [Empresas -> Planes \cup {"NADA"}]
  /\ \A e \in Empresas :
       /\ Existe(e) <=> suscrita[e] # "NADA"
       /\ Existe(e) => plan[suscrita[e]] # "NADA"
  /\ plan \in [Planes -> EstadosPlan]
  /\ incluye \in [Planes -> SUBSET Modulos]
  /\ modulos \in EmpresaModulo
  /\ bitacora \in Seq(Registro)
  /\ reloj \in 0..MaxEventos
  /\ peticion \in [Peticiones -> Peticion]

(* A deleted company is not active, although an activation reads it without *)
(* a lock and writes by identifier (_set_empresa_status, update_empresa).   *)
EliminadaInactiva == \A e \in Empresas :
  empresa[e].eliminada => ~ empresa[e].activo

(* A request that assigns the modules of a plan leaves the company with     *)
(* those of the plan it has then, unless the plan, its modules or those of  *)
(* the company changed under it (_sync_modules, _habilitar_modulos).        *)
ModulosDelPlan ==
  [][\A r \in Peticiones :
       LET p == peticion[r] IN
       /\ p.tipo \in Sincronizan /\ ~ p.pasada
       /\ ConfirmaEmpresa(r) \/ ConfirmaModulos(r)
       => modulos'[p.e] = incluye[suscrita'[p.e]]]_vars

(* As long as the records enter in the order of their dates, verify_chain   *)
(* finds the chain whole, however many requests write it at the same time   *)
(* or give up (SqlAlchemyAuditLogRepository.add).                           *)
EnOrden == \A i, j \in DOMAIN bitacora :
  i < j => bitacora[i].fecha < bitacora[j].fecha
CadenaIntacta == EnOrden => Verifica
=============================================================================
