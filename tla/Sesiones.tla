----------------------------- MODULE Sesiones -----------------------------
(***************************************************************************)
(* The sessions of one account of one company: login with its failure      *)
(* counter and temporary lock, refresh tokens that are exchanged for new   *)
(* ones, the one-use links sent by mail, and the operations that revoke    *)
(* every session at once: a new password, the deletion of the user or of   *)
(* its company.                                                            *)
(*                                                                         *)
(* A request is a transaction in up to three steps.  Lee... reads and      *)
(* takes its FOR UPDATE lock on a token; Ordena... has updated the row of  *)
(* the user, which it holds until it commits, and has started the UPDATE   *)
(* that revokes the sessions: PostgreSQL fixes there the rows it will      *)
(* touch; Escribe... waits for the locks on those rows, writes, commits.   *)
(* Access tokens are signed and not stored: nothing revokes them, they     *)
(* only expire, and they are no part of the state.                         *)
(*                                                                         *)
(* The Roto... operators are plausible mistakes; no definition uses them,  *)
(* they show that a property can fail.                                     *)
(***************************************************************************)
EXTENDS Naturals, FiniteSets

CONSTANTS
  Tokens,      \* identifiers of refresh tokens: that of a closed one that no
               \* request names serves again, so the bound is on the open ones
  Enlaces,     \* identifiers of password-reset and e-mail verification links
  Peticiones,  \* slots for the requests in flight
  MaxIntentos  \* app_max_login_attempts

ASSUME MaxIntentosPositivo == MaxIntentos \in Nat \ {0}
ASSUME PeticionesFinitas == IsFiniteSet(Peticiones)

VARIABLES
  empresa,   \* empresa.activo, empresa.eliminado_at
  usuario,   \* the row of the account
  sesion,    \* table refresh_token, with what the properties remember of it
  enlace,    \* tables password_reset_token and email_verification_token
  peticion   \* the requests in flight

vars == <<empresa, usuario, sesion, enlace, peticion>>

----------------------------------------------------------------------------
(* The rows.  Of a token they remember: canjes, how many tokens were        *)
(* obtained with it; previa, a mass revocation committed after its login    *)
(* was checked; solapada, it or one it comes from was obtained by a request *)
(* that overlapped one.                                                     *)

SinSesion ==
  [estado |-> "CERRADA", previa |-> FALSE, solapada |-> FALSE, canjes |-> 0]
SinEnlace == [estado |-> "LIBRE", tipo |-> "CLAVE", usos |-> 0]
Cuenta(verificado) ==
  [activo |-> TRUE, eliminado |-> FALSE, verificado |-> verificado,
   fallos |-> 0, bloqueo |-> "NO"]
Abierta == [SinSesion EXCEPT !.estado = "ACTIVA"]
Enviado(tipo) == [SinEnlace EXCEPT !.estado = "ACTIVO", !.tipo = tipo]

Revocada(s) == [SinSesion EXCEPT !.canjes = s.canjes]

Activas == {t \in Tokens : sesion[t].estado = "ACTIVA"}
EnUso(tipo) ==
  {e \in Enlaces : enlace[e].estado = "ACTIVO" /\ enlace[e].tipo = tipo}

Vive == ~ usuario.eliminado
SinFallos(u) == [u EXCEPT !.fallos = 0, !.bloqueo = "NO"]

(* get_by_login: the company, active and not deleted, is part of the search *)
Encontrada == Vive /\ empresa.activa /\ ~ empresa.eliminada
Bloqueada == usuario.bloqueo = "VIGENTE"

(* RefreshToken: get_by_id does not look at empresa.eliminado_at.  The      *)
(* roles of the account are those of module Cuentas: here it may have one   *)
(* or none at each read.                                                    *)
Disponible ==
  /\ Vive /\ usuario.activo /\ empresa.activa
  /\ usuario.verificado /\ ~ Bloqueada

----------------------------------------------------------------------------
(* The requests and the rows they hold.                                     *)

Libre == [tipo |-> "LIBRE", fase |-> "LEIDA", id |-> "-", objetivos |-> {},
          cruzada |-> FALSE]  \* a mass revocation committed since its Lee
Cortes == {"CAMBIAR", "CONSOLA", "RESTABLECER", "ELIMINAR", "BAJA"}

Es(r, tipo, fase) == peticion[r].tipo = tipo /\ peticion[r].fase = fase
Empieza(r, tipo, id, objetivos) ==
  /\ peticion[r] = Libre
  /\ peticion' = [peticion EXCEPT ![r] =
       [tipo |-> tipo, fase |-> "LEIDA", id |-> id, objetivos |-> objetivos,
        cruzada |-> FALSE]]
Termina(r) == peticion' = [peticion EXCEPT ![r] = Libre]

Nueva(t) ==
  /\ t \notin Activas
  /\ \A r \in Peticiones : t # peticion[r].id /\ t \notin peticion[r].objetivos

RotoRetenidos == {}
Retenidos ==
  {peticion[r].id : r \in {q \in Peticiones :
     peticion[q].tipo \in {"RENOVAR", "RESTABLECER"}}}
Ordenadas == {r \in Peticiones : peticion[r].fase = "ORDENADA"}
UsuarioLibre == Ordenadas = {}
EmpresaLibre == \A r \in Ordenadas : peticion[r].tipo # "BAJA"

Solapa(r) == peticion[r].cruzada \/ Ordenadas # {}

----------------------------------------------------------------------------
(* Login.                                                                   *)

(* LoginUser reads the account once; correcta: the password given is that   *)
(* of the row, and the account has a role.  Every other refusal answers     *)
(* without a trace.                                                         *)
RotoLeeEntrar(r, correcta) ==
  /\ Encontrada
  /\ IF correcta /\ usuario.activo
     THEN usuario.verificado /\ Empieza(r, "ENTRAR", "-", {})
     ELSE Empieza(r, "FALLO", "-", {})
  /\ UNCHANGED <<empresa, usuario, sesion, enlace>>
LeeEntrar(r, correcta) ==
  /\ Encontrada /\ ~ Bloqueada
  /\ IF correcta /\ usuario.activo
     THEN usuario.verificado /\ Empieza(r, "ENTRAR", "-", {})
     ELSE Empieza(r, "FALLO", "-", {})
  /\ UNCHANGED <<empresa, usuario, sesion, enlace>>

(* record_successful_login and save_refresh_token: nothing is read again.   *)
EscribeEntrar(r, t) ==
  /\ Es(r, "ENTRAR", "LEIDA") /\ UsuarioLibre
  /\ Nueva(t)
  /\ usuario' = SinFallos(usuario)
  /\ sesion' = [sesion EXCEPT ![t] =
       [Abierta EXCEPT !.previa = peticion[r].cruzada, !.solapada = Solapa(r)]]
  /\ Termina(r)
  /\ UNCHANGED <<empresa, enlace>>

(* _record_failed_login, in a session of its own, and record_failed_login:  *)
(* one UPDATE whose right-hand sides read the row it locks.                 *)
RotoAlFallar(u) ==
  LET n == u.fallos + 1
  IN [u EXCEPT !.fallos = n,
               !.bloqueo = IF n > MaxIntentos THEN "VIGENTE" ELSE u.bloqueo]
AlFallar(u) ==
  LET n == IF u.bloqueo = "VENCIDO" THEN 1 ELSE u.fallos + 1
  IN [u EXCEPT !.fallos = n,
               !.bloqueo = IF n >= MaxIntentos THEN "VIGENTE" ELSE u.bloqueo]
EscribeFallo(r) ==
  /\ Es(r, "FALLO", "LEIDA")
  /\ IF Encontrada
     THEN UsuarioLibre /\ usuario' = AlFallar(usuario)
     ELSE UNCHANGED usuario
  /\ Termina(r)
  /\ UNCHANGED <<empresa, sesion, enlace>>

VenceBloqueo ==
  /\ Bloqueada
  /\ usuario' = [usuario EXCEPT !.bloqueo = "VENCIDO"]
  /\ UNCHANGED <<empresa, sesion, enlace, peticion>>

----------------------------------------------------------------------------
(* Refresh and logout.                                                      *)

LeeRenovar(r, t) ==
  /\ t \in Activas \ Retenidos /\ Disponible
  /\ Empieza(r, "RENOVAR", t, {})
  /\ UNCHANGED <<empresa, usuario, sesion, enlace>>

Canjeada(s) == [Revocada(s) EXCEPT !.canjes = @ + 1]
EscribeRenovar(r, t) ==
  /\ Es(r, "RENOVAR", "LEIDA") /\ Nueva(t)
  /\ LET vieja == peticion[r].id
     IN sesion' = [sesion EXCEPT
          ![vieja] = Canjeada(@),
          ![t] = [Abierta EXCEPT
                    !.previa = sesion[vieja].previa \/ peticion[r].cruzada,
                    !.solapada = sesion[vieja].solapada \/ Solapa(r)]]
  /\ Termina(r)
  /\ UNCHANGED <<empresa, usuario, enlace>>

(* The UPDATE of logout waits for an exchange of the same token and then    *)
(* finds it revoked: the new token stays.                                   *)
Salir(t) ==
  /\ t \in Activas \ Retenidos
  /\ sesion' = [sesion EXCEPT ![t] = Revocada(@)]
  /\ UNCHANGED <<empresa, usuario, enlace, peticion>>

(* expires_at: an exchange that has read the token goes on.                 *)
VenceToken(t) ==
  /\ t \in Activas
  /\ sesion' = [sesion EXCEPT ![t] = Revocada(@)]
  /\ UNCHANGED <<empresa, usuario, enlace, peticion>>

----------------------------------------------------------------------------
(* The links sent by mail.                                                  *)

(* RequestPasswordReset and RequestEmailVerification: the UPDATE that       *)
(* retires the earlier links fixes them when it starts.                     *)
LeePedir(r, tipo) ==
  /\ Encontrada /\ usuario.activo
  /\ tipo = "CORREO" => ~ usuario.verificado
  /\ Empieza(r, "PEDIR", tipo, EnUso(tipo))
  /\ UNCHANGED <<empresa, usuario, sesion, enlace>>

Usados(es, f) == [e \in Enlaces |->
  IF e \in es THEN [f[e] EXCEPT !.estado = "USADO"] ELSE f[e]]
Usan(es, f) == [e \in Enlaces |->
  IF e \in es THEN [f[e] EXCEPT !.usos = @ + 1] ELSE f[e]]

EscribePedir(r, e) ==
  /\ Es(r, "PEDIR", "LEIDA") /\ enlace[e].estado = "LIBRE"
  /\ peticion[r].objetivos \cap Retenidos = {}
  /\ enlace' = [Usados(peticion[r].objetivos, enlace) EXCEPT ![e] =
       Enviado(peticion[r].id)]
  /\ Termina(r)
  /\ UNCHANGED <<empresa, usuario, sesion>>

(* VerifyEmail reads only the link, which it locks: one step.               *)
Verificado(u) == [u EXCEPT !.verificado = TRUE]
Verificar(e) ==
  /\ e \in EnUso("CORREO") /\ UsuarioLibre
  /\ usuario' = Verificado(usuario)
  /\ enlace' = Usan({e}, Usados({e}, enlace))
  /\ UNCHANGED <<empresa, sesion, peticion>>

VenceEnlace(e) ==
  /\ enlace[e].estado = "ACTIVO"
  /\ enlace' = Usados({e}, enlace)
  /\ UNCHANGED <<empresa, usuario, sesion, peticion>>

----------------------------------------------------------------------------
(* The operations that revoke every session.                                *)

(* ChangePassword and CambiarPasswordUsuario, whose password changes alike; *)
(* EliminarUsuario.                                                         *)
LeeCorte(r, tipo) ==
  /\ Vive
  /\ Empieza(r, tipo, "-", {})
  /\ UNCHANGED <<empresa, usuario, sesion, enlace>>

LeeBaja(r) ==
  /\ ~ empresa.eliminada
  /\ Empieza(r, "BAJA", "-", {})
  /\ UNCHANGED <<empresa, usuario, sesion, enlace>>

LeeRestablecer(r, e) ==
  /\ e \in EnUso("CLAVE") \ Retenidos /\ Vive
  /\ Empieza(r, "RESTABLECER", e, {})
  /\ UNCHANGED <<empresa, usuario, sesion, enlace>>

(* The row of the user is updated and held; the revocation starts.          *)
Ordena(r) ==
  /\ peticion[r].tipo \in Cortes /\ peticion[r].fase = "LEIDA"
  /\ UsuarioLibre
  /\ peticion' = [peticion EXCEPT ![r].fase = "ORDENADA",
                                  ![r].objetivos = Activas]
  /\ UNCHANGED <<empresa, usuario, sesion, enlace>>

(* The console looks for the row, which is always there, and nothing else.  *)
OrdenaConsola(r) ==
  /\ peticion[r] = Libre /\ UsuarioLibre
  /\ peticion' = [peticion EXCEPT ![r] =
       [Libre EXCEPT !.tipo = "CONSOLA", !.fase = "ORDENADA",
                     !.objetivos = Activas]]
  /\ UNCHANGED <<empresa, usuario, sesion, enlace>>

RotoObjetivos(r) == [t \in Activas |-> sesion[t]]
RotoRevocadas(r) == [t \in Tokens |->
  IF t \in Activas THEN [sesion[t] EXCEPT !.previa = TRUE] ELSE sesion[t]]
Revocadas(r) == [t \in Tokens |->
  IF t \notin Activas THEN sesion[t]
  ELSE IF t \in peticion[r].objetivos THEN Revocada(sesion[t])
  ELSE [sesion[t] EXCEPT !.previa = TRUE]]

(* What the requests still in flight read is now older than a revocation.   *)
TrasCorte(r) == [q \in Peticiones |->
  IF q = r THEN Libre
  ELSE [peticion[q] EXCEPT !.cruzada =
          @ \/ peticion[q].tipo \in {"ENTRAR", "RENOVAR"}]]

(* The links that stop working with it: its own, which has done its work,   *)
(* or every link of the account.                                            *)
Propio(p) == IF p.tipo = "RESTABLECER" THEN {p.id} ELSE {}
Gastados(p) ==
  IF p.tipo \in {"ELIMINAR", "BAJA"} THEN EnUso("CLAVE") \cup EnUso("CORREO")
  ELSE Propio(p)

EscribeCorte(r) ==
  LET p == peticion[r]
  IN
  /\ r \in Ordenadas
  /\ (p.objetivos \cup Gastados(p)) \cap (Retenidos \ Propio(p)) = {}
  /\ sesion' = Revocadas(r)
  /\ enlace' = Usan(Propio(p), Usados(Gastados(p), enlace))
  /\ usuario' =
       IF p.tipo = "CONSOLA" THEN SinFallos(usuario)
       ELSE [usuario EXCEPT
              !.activo = @ /\ p.tipo \notin {"ELIMINAR", "BAJA"},
              !.eliminado = @ \/ p.tipo = "ELIMINAR"]
  /\ empresa' = IF p.tipo = "BAJA" THEN [activa |-> FALSE, eliminada |-> TRUE]
                ELSE empresa
  /\ peticion' = TrasCorte(r)

----------------------------------------------------------------------------
(* The administration of the account and of the company: each UPDATE        *)
(* decides with the row it writes, or commutes with what may come between.  *)

EscribeUsuario(nuevo) ==
  /\ UsuarioLibre /\ usuario' = nuevo
  /\ UNCHANGED <<empresa, sesion, enlace, peticion>>

Activar ==
  Vive /\ EscribeUsuario([usuario EXCEPT !.activo = TRUE])
Desactivar ==
  Vive /\ EscribeUsuario([usuario EXCEPT !.activo = FALSE])
Restaurar ==
  /\ usuario.eliminado
  /\ EscribeUsuario([usuario EXCEPT !.activo = FALSE, !.eliminado = FALSE])
Desbloquear == EscribeUsuario(SinFallos(usuario))

(* _set_empresa_status checks eliminado_at on an unlocked read, but what it *)
(* answers with is read after its UPDATE, and a company deleted meanwhile   *)
(* leaves it nothing: one step (Plataforma takes the two apart).            *)
EscribeEmpresa(activa) ==
  /\ ~ empresa.eliminada /\ EmpresaLibre
  /\ empresa' = [empresa EXCEPT !.activa = activa]
  /\ UNCHANGED <<usuario, sesion, enlace, peticion>>

RestaurarEmpresa ==
  /\ empresa.eliminada /\ EmpresaLibre
  /\ empresa' = [activa |-> FALSE, eliminada |-> FALSE]
  /\ UNCHANGED <<usuario, sesion, enlace, peticion>>

(* A refusal, an error, a deadlock victim or a crash: nothing is kept.      *)
Revierte(r) ==
  /\ peticion[r] # Libre /\ Termina(r)
  /\ UNCHANGED <<empresa, usuario, sesion, enlace>>

----------------------------------------------------------------------------
(* The account: the administrator of a new company, verified and with a     *)
(* link to verify it nevertheless, and with a session if the company        *)
(* registered itself; one an administrator made; or one of a row that was   *)
(* there before accounts were created verified.                             *)
Alta(verificado, abiertas, enviados) ==
  /\ usuario = Cuenta(verificado)
  /\ sesion = [t \in Tokens |-> IF t \in abiertas THEN Abierta ELSE SinSesion]
  /\ enlace = [e \in Enlaces |->
       IF e \in enviados THEN Enviado("CORREO") ELSE SinEnlace]
provision_empresa == \E e \in Enlaces : Alta(TRUE, {}, {e})
registro_empresa == \E t \in Tokens, e \in Enlaces : Alta(TRUE, {t}, {e})
create_usuario == Alta(TRUE, {}, {})
Anterior == Alta(FALSE, {}, {})

Init ==
  /\ empresa = [activa |-> TRUE, eliminada |-> FALSE]
  /\ provision_empresa \/ registro_empresa \/ create_usuario \/ Anterior
  /\ peticion = [r \in Peticiones |-> Libre]

(* The handlers, by their names.                                            *)
login_user(r) ==
  \/ \E correcta \in BOOLEAN : LeeEntrar(r, correcta)
  \/ EscribeFallo(r) \/ \E t \in Tokens : EscribeEntrar(r, t)
refresh_token(r) == \E t \in Tokens : LeeRenovar(r, t) \/ EscribeRenovar(r, t)
logout_user == \E t \in Tokens : Salir(t)

Pide(r, tipo) ==
  \/ LeePedir(r, tipo)
  \/ peticion[r].id = tipo /\ \E e \in Enlaces : EscribePedir(r, e)
forgot_password(r) == Pide(r, "CLAVE")
resend_email_verification(r) == Pide(r, "CORREO")
verify_email == \E e \in Enlaces : Verificar(e)
_verificar_email == EscribeUsuario(Verificado(usuario))
desbloquear_usuario == Vive /\ Desbloquear

Corta(r, tipo) == peticion[r].tipo = tipo /\ (Ordena(r) \/ EscribeCorte(r))
change_password(r) == LeeCorte(r, "CAMBIAR") \/ Corta(r, "CAMBIAR")
cambiar_password_usuario(r) == change_password(r)
_cambiar_password(r) == OrdenaConsola(r) \/ Corta(r, "CONSOLA")
reset_password(r) ==
  (\E e \in Enlaces : LeeRestablecer(r, e)) \/ Corta(r, "RESTABLECER")
eliminar_usuario(r) == LeeCorte(r, "ELIMINAR") \/ Corta(r, "ELIMINAR")
delete_empresa(r) == LeeBaja(r) \/ Corta(r, "BAJA")

_set_empresa_status == \E activa \in BOOLEAN : EscribeEmpresa(activa)

Handler(r) ==
  \/ login_user(r) \/ refresh_token(r)
  \/ forgot_password(r) \/ resend_email_verification(r)
  \/ cambiar_password_usuario(r) \/ _cambiar_password(r) \/ reset_password(r)
  \/ eliminar_usuario(r) \/ delete_empresa(r)
UnPaso ==
  \/ logout_user \/ verify_email
  \/ Activar \/ Desactivar \/ Restaurar \/ desbloquear_usuario
  \/ _set_empresa_status \/ RestaurarEmpresa \/ _verificar_email
Reloj ==
  \/ VenceBloqueo \/ (\E t \in Tokens : VenceToken(t))
  \/ \E e \in Enlaces : VenceEnlace(e)

Next == (\E r \in Peticiones : Handler(r) \/ Revierte(r)) \/ UnPaso \/ Reloj

Spec == Init /\ [][Next]_vars

----------------------------------------------------------------------------
(* The rows and the requests are of their types.                            *)
TypeOK ==
  /\ empresa \in [activa : BOOLEAN, eliminada : BOOLEAN]
  /\ usuario \in [activo : BOOLEAN, eliminado : BOOLEAN, verificado : BOOLEAN,
                  fallos : Nat,
                  bloqueo : {"NO", "VIGENTE", "VENCIDO"}]
  /\ sesion \in [Tokens -> [estado : {"ACTIVA", "CERRADA"},
                            previa : BOOLEAN, solapada : BOOLEAN, canjes : Nat]]
  /\ enlace \in [Enlaces -> [estado : {"LIBRE", "ACTIVO", "USADO"},
                             tipo : {"CLAVE", "CORREO"}, usos : Nat]]
  /\ peticion \in [Peticiones ->
       [tipo : Cortes \cup {"LIBRE", "ENTRAR", "FALLO", "RENOVAR", "PEDIR"},
        fase : {"LEIDA", "ORDENADA"},
        id : Tokens \cup Enlaces \cup {"-", "CLAVE", "CORREO"},
        objetivos : SUBSET (Tokens \cup Enlaces), cruzada : BOOLEAN]]

(* A refresh token is exchanged at most once, whatever the number of        *)
(* requests that present it at the same time and whatever revokes it in     *)
(* between (refresh: get_active_refresh_token ... FOR UPDATE).              *)
RotacionUnica == \A t \in Tokens : sesion[t].canjes <= 1

(* A link sent by mail does its work at most once: not for two requests at  *)
(* the same time, nor after a newer link or a deletion retired it           *)
(* (reset_password, verify_email: get_active_..._token ... FOR UPDATE).     *)
EnlaceDeUnUso == \A e \in Enlaces : enlace[e].usos <= 1

(* Tokens and links work once.                                              *)
DeUnUso == RotacionUnica /\ EnlaceDeUnUso

(* A new password, the deletion of the account or of the company ends       *)
(* every session, also after the account is restored and activated again:   *)
(* the only ones left from before come from a login or an exchange that     *)
(* overlapped that very operation (revoke_all_refresh_tokens).              *)
SesionesCortadas ==
  \A t \in Activas : sesion[t].previa => sesion[t].solapada

(* MaxIntentos wrong passwords lock the account, and only the attempts      *)
(* already past the check when it locked can still be counted: nobody gets  *)
(* more guesses than that from a counter (login, record_failed_login).      *)
IntentosAcotados ==
  /\ usuario.fallos >= MaxIntentos => usuario.bloqueo # "NO"
  /\ usuario.fallos < MaxIntentos + Cardinality(Peticiones)
=============================================================================
