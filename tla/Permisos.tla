----------------------------- MODULE Permisos -----------------------------
(***************************************************************************)
(* Who may do what: the permissions of a role of one company, which two    *)
(* requests may replace at once, and the check every request passes.  The  *)
(* access token says who asks, of which company, and whether the account   *)
(* owed a change of password when it was issued; all the rest is read      *)
(* again in each request.                                                  *)
(*                                                                         *)
(* The Roto... operators are plausible mistakes; no definition uses them.  *)
(* Bounds: one account and one role of the company; the platform's own     *)
(* account keeps its permission and its token; of what may be off, one     *)
(* thing at a time.                                                        *)
(***************************************************************************)
CONSTANT Peticiones  \* slots for the requests in flight

VARIABLES
  permisos,  \* rol_permiso of the role of the company
  apagado,   \* which of the account, the role and the company are off
  empresa,   \* the module it hires, its subscription
  debe,      \* usuario.debe_cambiar_password
  fichas,    \* the access tokens of the account that have not expired
  peticion   \* the requests in flight

vars == <<permisos, apagado, empresa, debe, fichas, peticion>>

----------------------------------------------------------------------------
(* GESTIONAR is of a core module, CONTRATADO of a module the company may    *)
(* hire, PLATAFORMA starts with platform: and its module is in no catalogue.*)

Permiso == {"GESTIONAR", "CONTRATADO", "PLATAFORMA"}
Interruptores == {"cuenta", "rol", "empresa"}

(* get_modulos_habilitados, by the permission each module has.              *)
Listados ==
  {"GESTIONAR"} \cup {c \in {"CONTRATADO"} : empresa.modulo}

(* get_user_permission_codes.                                               *)
EsCore(c) == c # "CONTRATADO"
Filtra(c) == EsCore(c) \/ empresa.modulo
Codigos(f) ==
  IF f.quien = "PLATAFORMA" THEN {"PLATAFORMA"}
  ELSE {c \in permisos : apagado = {} /\ Filtra(c)}

(* GET /auth/me and GET /permisos.                                          *)
current_user(f) == [permissions |-> Codigos(f), modulos |-> Listados]
list_permisos == {c \in Listados : c # "PLATAFORMA"}

DePlataforma == [quien |-> "PLATAFORMA", debe |-> FALSE, previa |-> FALSE]
Fichas == fichas \cup {DePlataforma}

(* The dependencies of the endpoints; f is what decode_token returns.       *)
CheckPermission(f, c) == ~f.debe /\ c \in Codigos(f)
EsPlataforma(f) == f.quien = "PLATAFORMA"
require_permission(f, c, escribe) ==
  CheckPermission(f, c) /\ (EsPlataforma(f) \/ ~escribe \/ empresa.alDia)
require_platform_permission(f, c) ==
  require_permission(f, c, TRUE) /\ EsPlataforma(f)
Segun(f, deEmpresa, dePlataforma) ==
  IF EsPlataforma(f) THEN dePlataforma ELSE deEmpresa
require_scoped_permission(f) ==
  CheckPermission(f, Segun(f, "GESTIONAR", "PLATAFORMA"))
require_empresa_permission(f, propia) ==
  (EsPlataforma(f) \/ propia) /\ require_scoped_permission(f)
require_scoped_any_permission(f) ==
  \E c \in Segun(f, {"GESTIONAR", "CONTRATADO"}, {"PLATAFORMA"}) :
    CheckPermission(f, c)

----------------------------------------------------------------------------
(* The requests: f the token they showed; leidos, pedidos the permissions   *)
(* they read and want; pasada: another assignment committed since they read.*)

Libre == [tipo |-> "LIBRE", f |-> DePlataforma, leidos |-> {}, pedidos |-> {},
          pasada |-> FALSE]
Empieza(r, tipo, f, leidos, pedidos) ==
  /\ peticion[r] = Libre
  /\ peticion' = [peticion EXCEPT ![r] =
       [Libre EXCEPT !.tipo = tipo, !.f = f, !.leidos = leidos,
                     !.pedidos = pedidos]]
  /\ UNCHANGED <<permisos, apagado, empresa, debe, fichas>>
EnVuelo(r, tipo) == peticion[r].tipo = tipo
Acaba(r) == peticion' = [peticion EXCEPT ![r] = Libre]

(* Any other endpoint, its own company and that of another.                 *)
Autoriza(f) ==
  \/ \E c \in Permiso, escribe \in BOOLEAN :
       require_permission(f, c, escribe) \/ require_platform_permission(f, c)
  \/ \E propia \in BOOLEAN : require_empresa_permission(f, propia)
  \/ require_scoped_any_permission(f)
Opera(r, f) == Autoriza(f) /\ Empieza(r, "OPERA", f, {}, {})
Responde(r) ==
  /\ EnVuelo(r, "OPERA") /\ Acaba(r)
  /\ UNCHANGED <<permisos, apagado, empresa, debe, fichas>>

(* AssignPermissions: the role is loaded with its permissions, and what is  *)
(* written is the difference with them.  A row to delete that is gone       *)
(* raises StaleDataError, a row to insert that is there breaks the primary  *)
(* key; then nothing is kept (Revierte).                                    *)
LeeAsignar(r, f, pedidos) ==
  /\ require_scoped_permission(f)
  /\ "PLATAFORMA" \notin pedidos
  /\ Empieza(r, "ASIGNA", f, permisos, pedidos)
RotoDiferencia(p) == permisos \ (p.leidos \ p.pedidos)
Diferencia(p) ==
  (permisos \ (p.leidos \ p.pedidos)) \cup (p.pedidos \ p.leidos)
EscribeAsignar(r) ==
  LET p == peticion[r]
  IN
  /\ EnVuelo(r, "ASIGNA")
  /\ p.leidos \ p.pedidos \subseteq permisos
  /\ (p.pedidos \ p.leidos) \cap permisos = {}
  /\ permisos' = Diferencia(p)
  /\ peticion' = [q \in Peticiones |->
       IF q = r THEN Libre
       ELSE IF EnVuelo(q, "ASIGNA") THEN [peticion[q] EXCEPT !.pasada = TRUE]
       ELSE peticion[q]]
  /\ UNCHANGED <<apagado, empresa, debe, fichas>>
assign_permissions(r) ==
  \/ EscribeAsignar(r)
  \/ \E f \in Fichas, pedidos \in SUBSET Permiso : LeeAsignar(r, f, pedidos)

----------------------------------------------------------------------------
(* The tokens.  LoginUser and RefreshToken read the account and issue the   *)
(* token; previa: a change of password was demanded since they read.        *)

LeeEntrar(r) ==
  /\ apagado \cap {"cuenta", "empresa"} = {}
  /\ Empieza(r, "ENTRA",
       [quien |-> "EMPRESA", debe |-> debe, previa |-> FALSE], {}, {})
EscribeEntrar(r) ==
  /\ EnVuelo(r, "ENTRA") /\ Acaba(r)
  /\ fichas' = fichas \cup {peticion[r].f}
  /\ UNCHANGED <<permisos, apagado, empresa, debe>>
create_access_token(r) == LeeEntrar(r) \/ EscribeEntrar(r)
VenceFicha(f) ==
  /\ fichas' = fichas \ {f}
  /\ UNCHANGED <<permisos, apagado, empresa, debe, peticion>>

(* set_password with must_change, update_password without it.               *)
Anterior(f) ==
  IF f.quien = "EMPRESA" /\ ~f.debe THEN [f EXCEPT !.previa = TRUE] ELSE f
Exige ==
  /\ debe' = TRUE
  /\ fichas' = {Anterior(f) : f \in fichas}
  /\ peticion' = [r \in Peticiones |-> [peticion[r] EXCEPT !.f = Anterior(@)]]
  /\ UNCHANGED <<permisos, apagado, empresa>>
Cumple ==
  /\ debe' = FALSE
  /\ UNCHANGED <<permisos, apagado, empresa, fichas, peticion>>

----------------------------------------------------------------------------
(* What others change meanwhile: the account, the role and the company go   *)
(* on and off, the platform hires a module for it, its subscription lapses. *)

Conmuta(i) ==
  /\ apagado' = IF apagado = {} THEN {i} ELSE apagado \ {i}
  /\ UNCHANGED <<permisos, empresa, debe, fichas, peticion>>
Contrata(modulo, alDia) ==
  /\ empresa' = [modulo |-> modulo, alDia |-> alDia]
  /\ UNCHANGED <<permisos, apagado, debe, fichas, peticion>>

Revierte(r) ==
  /\ peticion[r] # Libre /\ Acaba(r)
  /\ UNCHANGED <<permisos, apagado, empresa, debe, fichas>>

(* The permissions of a base role, each of them one of the catalogue.       *)
DeRolBase == Permiso \ {"PLATAFORMA"}
Init ==
  /\ permisos = DeRolBase /\ apagado = {}
  /\ empresa = [modulo |-> TRUE, alDia |-> TRUE]
  /\ debe = TRUE
  /\ fichas = {} /\ peticion = [r \in Peticiones |-> Libre]

Next ==
  \/ \E r \in Peticiones :
       \/ assign_permissions(r) \/ create_access_token(r)
       \/ Responde(r) \/ Revierte(r)
       \/ \E f \in Fichas : Opera(r, f)
  \/ Exige \/ Cumple
  \/ (\E f \in fichas : VenceFicha(f))
  \/ (\E i \in Interruptores : Conmuta(i))
  \/ \E modulo, alDia \in BOOLEAN : Contrata(modulo, alDia)

Spec == Init /\ [][Next]_vars

----------------------------------------------------------------------------
(* The rows, the tokens and the requests are of their types.                *)
UnaFicha == [quien : {"EMPRESA", "PLATAFORMA"}, debe : BOOLEAN,
             previa : BOOLEAN]
TypeOK ==
  /\ permisos \subseteq Permiso
  /\ apagado \subseteq Interruptores
  /\ empresa \in [modulo : BOOLEAN, alDia : BOOLEAN]
  /\ debe \in BOOLEAN
  /\ fichas \subseteq UnaFicha
  /\ peticion \in [Peticiones ->
       [tipo : {"LIBRE", "OPERA", "ASIGNA", "ENTRA"}, f : UnaFicha,
        leidos : SUBSET Permiso, pedidos : SUBSET Permiso, pasada : BOOLEAN]]

(* No role of a company ever holds a permission of the platform, whatever   *)
(* assignments cross (AssignPermissions).                                   *)
SinGlobales == "PLATAFORMA" \notin permisos

(* What /auth/me returns agrees, though permissions and modules are two     *)
(* queries: each permission is of a listed module, and GET /permisos, a     *)
(* third one, would offer it (current_user, list_permisos).                 *)
MeCoherente ==
  \A f \in fichas :
    current_user(f).permissions \subseteq
      current_user(f).modulos \cap list_permisos

(* An assignment leaves the role with what it asked for, or another one     *)
(* committed after it read the role: two that cross leave a mixture nobody  *)
(* asked for (assign_permissions).                                          *)
PermisosPedidos ==
  [][\A r \in Peticiones :
       LET p == peticion[r]
       IN EnVuelo(r, "ASIGNA") /\ peticion'[r] = Libre
            /\ permisos' # permisos
          => permisos' = p.pedidos \/ p.pasada]_<<permisos, peticion>>

(* While the account owes a change of password, only a token issued, or     *)
(* being issued, before the change was demanded operates, and that until it *)
(* expires (require_permission reads the demand in the token).              *)
DeudaConFichaVieja ==
  [][\A r \in Peticiones :
       LET f == peticion'[r].f
       IN peticion[r] = Libre /\ peticion'[r].tipo \in {"OPERA", "ASIGNA"}
            /\ f.quien = "EMPRESA" /\ debe
          => f.previa]_<<debe, peticion>>

(* What a role grants and to whom, with requests that cross.                *)
PermisosFirmes ==
  [](SinGlobales /\ MeCoherente) /\ PermisosPedidos /\ DeudaConFichaVieja
=============================================================================
