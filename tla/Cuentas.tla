------------------------------ MODULE Cuentas ------------------------------
(***************************************************************************)
(* The accounts of one company and their roles: creation within the limit  *)
(* of the plan, activation, deactivation, logical deletion, restoration    *)
(* and changes of roles, with the two checks that count rows nobody locks: *)
(* the last administrator and the capacity of the plan.                    *)
(*                                                                         *)
(* Lee... reads and checks, Escribe... writes and commits.  A change of    *)
(* roles is a DELETE and an INSERT: Ordena... starts the DELETE, whose     *)
(* rows PostgreSQL fixes there; rows inserted later are not deleted.       *)
(* A request whose UPDATE checks again what it read is one step.           *)
(*                                                                         *)
(* The Roto... operators are plausible mistakes; no definition uses them,  *)
(* they show that a property can fail.                                     *)
(***************************************************************************)
EXTENDS Naturals, FiniteSets

CONSTANTS
  Usuarios,    \* identifiers of accounts
  Fundador,    \* the administrator ProvisionEmpresa creates
  Peticiones,  \* slots for the requests in flight
  MaxUsuarios  \* plan.max_usuarios

ASSUME FundadorEsUsuario == Fundador \in Usuarios
ASSUME UsuariosFinitos == IsFiniteSet(Usuarios) /\ IsFiniteSet(Peticiones)
ASSUME HayPeticiones == Peticiones # {}
ASSUME MaxUsuariosPositivo == MaxUsuarios \in Nat \ {0}

VARIABLES
  usuario,  \* tables usuario and usuario_rol
  rol,      \* which roles are active
  titulo,   \* the role named "Administrador de Empresa"
  peticion  \* the requests in flight

vars == <<usuario, rol, titulo, peticion>>

----------------------------------------------------------------------------
(* The rows.  BASE is the role with code ADMIN_EMPRESA, which es_base       *)
(* protects; OTRO is a role the company made, not created yet at first.     *)

Roles == {"BASE", "OTRO"}
Elecciones == {{c} : c \in Roles}  \* bound: a request asks for one role
Activos == {u \in Usuarios : usuario[u].estado = "ACTIVO"}
Vigentes == {c \in Roles : rol[c] = "ACTIVO"}

(* _admin_role_filter: by the code or by the name.                          *)
DeAdmin == {c \in Vigentes : c = "BASE" \/ c = titulo}
role_ids_include_admin(roles) == roles \cap DeAdmin # {}
EsAdmin(u) == role_ids_include_admin(usuario[u].roles)
Admins == {u \in Activos : EsAdmin(u)}

RotoQuedan(u) == EsAdmin(u) => Admins # {}
Quedan(u) == EsAdmin(u) => Cardinality(Admins) > 1

RotoCabe == Cardinality(Activos) <= MaxUsuarios
Cabe == Cardinality(Activos) < MaxUsuarios

----------------------------------------------------------------------------
(* The requests: the account and the roles they are about; nuevas: the      *)
(* roles others gave the account since their DELETE started; pasada: the    *)
(* administrators, or the roles that make one, changed since they counted.  *)

Libre == [tipo |-> "LIBRE", u |-> Fundador, roles |-> {}, nuevas |-> {},
          pasada |-> FALSE]

Empieza(r, tipo, u, roles) ==
  /\ peticion[r] = Libre
  /\ peticion' = [peticion EXCEPT ![r] =
       [Libre EXCEPT !.tipo = tipo, !.u = u, !.roles = roles]]
  /\ UNCHANGED <<usuario, rol, titulo>>
(* What a commit does to the requests left in flight, pets.                 *)
Retira(p) == p.tipo \in {"DESACTIVAR", "ELIMINAR", "ROLES", "CAMBIO"}
Envejece(pets) ==
  peticion' = IF Admins' = Admins /\ DeAdmin' = DeAdmin THEN pets
    ELSE [q \in Peticiones |-> [pets[q] EXCEPT !.pasada = Retira(pets[q])]]
Termina(r) == Envejece([peticion EXCEPT ![r] = Libre])
Pone(r, estado) ==
  /\ usuario' = [usuario EXCEPT ![peticion[r].u].estado = estado]
  /\ UNCHANGED <<rol, titulo>>
  /\ Termina(r)
EnVuelo(r, tipo) == peticion[r].tipo = tipo
Vive(u) == usuario[u].estado \in {"ACTIVO", "INACTIVO"}

(* require_user_capacity, the roles of the company; the insertion.          *)
LeeCrear(r, u, roles) ==
  /\ usuario[u].estado = "LIBRE" /\ Cabe
  /\ roles # {} /\ roles \subseteq Vigentes
  /\ \A q \in Peticiones : EnVuelo(q, "CREAR") => peticion[q].u # u
  /\ Empieza(r, "CREAR", u, roles)
EscribeCrear(r) ==
  /\ EnVuelo(r, "CREAR")
  /\ usuario' = [usuario EXCEPT ![peticion[r].u] =
       [estado |-> "ACTIVO", roles |-> peticion[r].roles]]
  /\ UNCHANGED <<rol, titulo>>
  /\ Termina(r)

(* The capacity is asked for an account that is active already too.         *)
LeeActivar(r, u) == Vive(u) /\ Cabe /\ Empieza(r, "ACTIVAR", u, {})
EscribeActivar(r) ==
  EnVuelo(r, "ACTIVAR") /\ Vive(peticion[r].u) /\ Pone(r, "ACTIVO")

(* An inactive administrator is counted against the others as well.         *)
LeeDesactivar(r, u) == Vive(u) /\ Quedan(u) /\ Empieza(r, "DESACTIVAR", u, {})
EscribeDesactivar(r) ==
  EnVuelo(r, "DESACTIVAR") /\ Vive(peticion[r].u) /\ Pone(r, "INACTIVO")

LeeEliminar(r, u) == Vive(u) /\ Quedan(u) /\ Empieza(r, "ELIMINAR", u, {})
EscribeEliminar(r) == EnVuelo(r, "ELIMINAR") /\ Pone(r, "ELIMINADO")

(* It comes back off, so the active accounts stay the same.                *)
RestaurarUsuario(u) ==
  /\ usuario[u].estado = "ELIMINADO"
  /\ usuario' = [usuario EXCEPT ![u].estado = "INACTIVO"]
  /\ UNCHANGED <<rol, titulo, peticion>>

----------------------------------------------------------------------------
(* ActualizarUsuario with role_ids: the check, the DELETE, the INSERT.      *)

LeeRoles(r, u, roles) ==
  /\ Vive(u) /\ roles # {} /\ roles \subseteq Vigentes
  /\ u \in Admins /\ ~ role_ids_include_admin(roles) => Quedan(u)
  /\ Empieza(r, "ROLES", u, roles)
OrdenaRoles(r) ==
  /\ EnVuelo(r, "ROLES")
  /\ peticion' = [peticion EXCEPT ![r].tipo = "CAMBIO"]
  /\ UNCHANGED <<usuario, rol, titulo>>

(* The rows another request inserted since stay; the primary key refuses    *)
(* one that is there already, and then nothing is kept (Revierte).          *)
RotoSinInsertar(p) == p.nuevas
RotoTrasCambio(p) == usuario[p.u].roles \cup p.roles
TrasCambio(p) == p.nuevas \cup p.roles
SinBorrar(r) == [q \in Peticiones |->
  IF q = r THEN Libre
  ELSE [peticion[q] EXCEPT !.nuevas =
    IF EnVuelo(q, "CAMBIO") /\ peticion[q].u = peticion[r].u
    THEN @ \cup peticion[r].roles ELSE @]]
update_usuario(p) ==
  /\ p.nuevas \cap p.roles = {}
  /\ usuario' = [usuario EXCEPT ![p.u].roles = TrasCambio(p)]
  /\ UNCHANGED <<rol, titulo>>
EscribeRoles(r) ==
  /\ EnVuelo(r, "CAMBIO") /\ Vive(peticion[r].u)
  /\ update_usuario(peticion[r])
  /\ Envejece(SinBorrar(r))

----------------------------------------------------------------------------
(* The roles: one row each, with a unique name; a base role stays active.   *)

SoloRoles == UNCHANGED usuario /\ Envejece(peticion)
Existe(c) == rol[c] # "LIBRE"
TituloLibre == titulo = "NADIE"
EsBase(c) == c = "BASE"
DaDeAlta(conTitulo) ==
  /\ rol' = [rol EXCEPT !["OTRO"] = "ACTIVO"]
  /\ titulo' = IF conTitulo THEN "OTRO" ELSE titulo
CreateRole(conTitulo) ==
  ~ Existe("OTRO") /\ (conTitulo => TituloLibre) /\ DaDeAlta(conTitulo)
create_role(conTitulo) == CreateRole(conTitulo) /\ SoloRoles
Renombra(c) ==
  /\ Existe(c)
  /\ \/ titulo = c /\ titulo' = "NADIE"
     \/ TituloLibre /\ titulo' = c
  /\ UNCHANGED rol /\ SoloRoles
Habilita(c, estado) ==
  /\ Existe(c) /\ (EsBase(c) => estado = "ACTIVO")
  /\ rol' = [rol EXCEPT ![c] = estado]
  /\ UNCHANGED titulo /\ SoloRoles
update_role(c) ==
  Renombra(c) \/ \E estado \in {"ACTIVO", "INACTIVO"} : Habilita(c, estado)
DeleteRole(c) == ~ EsBase(c) /\ Habilita(c, "INACTIVO")
delete_role(c) == DeleteRole(c)

(* soft_delete_empresa turns every account off; the restored company stays  *)
(* without administrators until the platform activates one.                 *)
BajaEmpresa ==
  /\ usuario' = [u \in Usuarios |->
       IF u \in Activos THEN [usuario[u] EXCEPT !.estado = "INACTIVO"]
       ELSE usuario[u]]
  /\ UNCHANGED <<rol, titulo>>
  /\ Envejece(peticion)

Revierte(r) ==
  /\ peticion[r] # Libre
  /\ UNCHANGED <<usuario, rol, titulo>>
  /\ Termina(r)

----------------------------------------------------------------------------
Init ==
  /\ usuario = [u \in Usuarios |->
       IF u = Fundador THEN [estado |-> "ACTIVO", roles |-> {"BASE"}]
       ELSE [estado |-> "LIBRE", roles |-> {}]]
  /\ rol = [c \in Roles |-> IF c = "BASE" THEN "ACTIVO" ELSE "LIBRE"]
  /\ titulo = "BASE"
  /\ peticion = [r \in Peticiones |-> Libre]

crear_usuario(r) ==
  \/ EscribeCrear(r)
  \/ \E u \in Usuarios, roles \in Elecciones : LeeCrear(r, u, roles)
activar_usuario(r) == EscribeActivar(r) \/ \E u \in Usuarios : LeeActivar(r, u)
desactivar_usuario(r) ==
  EscribeDesactivar(r) \/ \E u \in Usuarios : LeeDesactivar(r, u)
eliminar_usuario(r) ==
  EscribeEliminar(r) \/ \E u \in Usuarios : LeeEliminar(r, u)
actualizar_usuario(r) ==
  \/ OrdenaRoles(r) \/ EscribeRoles(r)
  \/ \E u \in Usuarios, roles \in Elecciones : LeeRoles(r, u, roles)
restaurar_usuario == \E u \in Usuarios : RestaurarUsuario(u)

Next ==
  \/ \E r \in Peticiones :
       \/ crear_usuario(r) \/ activar_usuario(r) \/ desactivar_usuario(r)
       \/ eliminar_usuario(r) \/ actualizar_usuario(r) \/ Revierte(r)
  \/ restaurar_usuario \/ BajaEmpresa
  \/ (\E conTitulo \in BOOLEAN : create_role(conTitulo))
  \/ \E c \in Roles : update_role(c) \/ delete_role(c)

Spec == Init /\ [][Next]_vars

----------------------------------------------------------------------------
(* The rows and the requests are of their types.                            *)
TypeOK ==
  /\ usuario \in [Usuarios ->
       [estado : {"LIBRE", "ACTIVO", "INACTIVO", "ELIMINADO"},
        roles : SUBSET Roles]]
  /\ \A u \in Usuarios : usuario[u].roles = {} <=> usuario[u].estado = "LIBRE"
  /\ rol \in [Roles -> {"LIBRE", "ACTIVO", "INACTIVO"}]
  /\ titulo \in Roles \cup {"NADIE"}
  /\ peticion \in [Peticiones ->
       [tipo : {"LIBRE", "CREAR", "ACTIVAR", "DESACTIVAR", "ELIMINAR", "ROLES",
                "CAMBIO"},
        u : Usuarios, roles : SUBSET Roles, nuevas : SUBSET Roles,
        pasada : BOOLEAN]]

(* The active accounts exceed the limit of the plan by what the requests    *)
(* in flight can add and no more: once the limit is reached nobody passes   *)
(* require_user_capacity (crear_usuario, activar_usuario).                  *)
ExcesoAcotado ==
  Cardinality(Activos) < MaxUsuarios + Cardinality(Peticiones)

(* No request takes the last administrator of a company away, by whatever   *)
(* of the three ways, if the administrators it counted, and the roles that  *)
(* make one, are the same when it commits: it takes another request in      *)
(* between, be it only the activation of an account that was off            *)
(* (DesactivarUsuario, EliminarUsuario, ActualizarUsuario).                 *)
Confirma(r) == peticion[r] # Libre /\ peticion'[r] = Libre
UltimoAdmin ==
  [][\A r \in Peticiones :
       Confirma(r) /\ Admins # {} /\ Admins' = {}
         => peticion[r].pasada]_vars

(* A change of roles leaves the account with the roles it asked for, unless *)
(* another change of the same account committed while it was deleting the   *)
(* old ones (assign_roles).                                                 *)
RolesPedidos ==
  [][\A r \in Peticiones :
       LET p == peticion[r]
       IN Confirma(r) /\ usuario'[p.u].roles # usuario[p.u].roles
          => usuario'[p.u].roles = p.roles \/ p.nuevas # {}]_vars

(* Requests that cross leave a company with who may administer it, and its  *)
(* accounts with the roles that were given to them.                         *)
RolesFirmes == UltimoAdmin /\ RolesPedidos
=============================================================================
