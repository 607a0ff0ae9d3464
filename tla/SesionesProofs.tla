-------------------------- MODULE SesionesProofs --------------------------
(***************************************************************************)
(* Proofs about Sesiones, for any number of tokens, links and requests in  *)
(* flight and any limit of attempts.                                       *)
(*                                                                         *)
(* A token or link that a request holds FOR UPDATE has not been used, may  *)
(* have expired meanwhile, and is held by no other request (Retenciones),  *)
(* so its use is the first.  A session that a revocation in flight will    *)
(* not touch was opened while it was in flight (CortesFieles).  Attempts   *)
(* in flight when the account locks are bounded by the slots left.         *)
(***************************************************************************)
EXTENDS Sesiones, FiniteSetTheorems, TLAPS

----------------------------------------------------------------------------
(* The inductive invariant. *)

(* Each request names what its kind needs; only a revocation is ordered.    *)
Formada ==
  \A r \in Peticiones :
    /\ peticion[r].fase = "ORDENADA" => peticion[r].tipo \in Cortes
    /\ peticion[r].tipo = "RENOVAR" => peticion[r].id \in Tokens
    /\ peticion[r].tipo = "RESTABLECER" => peticion[r].id \in Enlaces

(* No token and no link is held by two requests.                            *)
Retenciones ==
  \A r, s \in Peticiones :
    /\ r # s /\ peticion[r].tipo = peticion[s].tipo
    /\ peticion[r].tipo \in {"RENOVAR", "RESTABLECER"}
    => peticion[r].id # peticion[s].id

(* A token that is open, or that a request is exchanging, was not exchanged *)
(* before, and no token was exchanged twice.                                *)
Canjes ==
  /\ \A t \in Tokens :
       sesion[t].canjes <= 1 /\ (t \in Activas => sesion[t].canjes = 0)
  /\ \A r \in Peticiones : peticion[r].tipo = "RENOVAR" =>
       sesion[peticion[r].id].canjes = 0

(* Likewise for links; only those to reset a password are ever held.        *)
Usos ==
  /\ \A e \in Enlaces :
       enlace[e].usos <= 1 /\ (enlace[e].estado # "USADO" => enlace[e].usos = 0)
  /\ \A r \in Peticiones : peticion[r].tipo = "RESTABLECER" =>
       LET e == peticion[r].id
       IN enlace[e].usos = 0 /\ enlace[e].tipo = "CLAVE"
          /\ enlace[e].estado # "LIBRE"

(* A session that the revocations in flight leave overlaps them.            *)
CortesFieles ==
  /\ \A t \in Tokens : sesion[t].previa => sesion[t].solapada
  /\ \A t \in Activas, r \in Ordenadas :
       t \notin peticion[r].objetivos => sesion[t].solapada

(* The failures that can still be counted while the account is locked.      *)
Fallando == {r \in Peticiones : peticion[r].tipo = "FALLO"}
Intentos ==
  /\ usuario.bloqueo = "NO" => usuario.fallos < MaxIntentos
  /\ usuario.bloqueo = "VENCIDO" =>
       usuario.fallos < MaxIntentos + Cardinality(Peticiones)
  /\ usuario.bloqueo = "VIGENTE" =>
       usuario.fallos + Cardinality(Fallando)
         < MaxIntentos + Cardinality(Peticiones)

IInv ==
  /\ TypeOK
  /\ Formada
  /\ Retenciones
  /\ Canjes
  /\ Usos
  /\ CortesFieles
  /\ Intentos

----------------------------------------------------------------------------
(* The requests. *)

PeticionTipo ==
  [tipo : Cortes \cup {"LIBRE", "ENTRAR", "FALLO", "RENOVAR", "PEDIR"},
   fase : {"LEIDA", "ORDENADA"},
   id : Tokens \cup Enlaces \cup {"-", "CLAVE", "CORREO"},
   objetivos : SUBSET (Tokens \cup Enlaces), cruzada : BOOLEAN]

LEMMA LibreTipo == Libre \in PeticionTipo
BY DEF Libre, PeticionTipo

(* A request that ends frees its slot and touches no other.                 *)
LEMMA AlTerminar ==
  ASSUME TypeOK, NEW r \in Peticiones, Termina(r)
  PROVE  /\ peticion' \in [Peticiones -> PeticionTipo]
         /\ \A s \in Peticiones :
              peticion'[s] = IF s = r THEN Libre ELSE peticion[s]
BY LibreTipo DEF TypeOK, Termina, PeticionTipo

(* The steps after which each request in flight is the one it was, or has   *)
(* ended.                                                                   *)
Merma ==
  \A s \in Peticiones :
    \/ peticion'[s] = Libre
    \/ /\ peticion'[s].tipo = peticion[s].tipo
       /\ peticion'[s].fase = peticion[s].fase
       /\ peticion'[s].id = peticion[s].id
       /\ peticion'[s].objetivos = peticion[s].objetivos

LEMMA MermaAlTerminar ==
  ASSUME TypeOK, NEW r \in Peticiones, Termina(r)
  PROVE  Merma
BY AlTerminar DEF Merma

(* The failures in flight are then those that were, or fewer.               *)
LEMMA FallandoFinito ==
  /\ IsFiniteSet(Fallando) /\ Cardinality(Fallando) \in Nat
  /\ Cardinality(Peticiones) \in Nat
  /\ Cardinality(Fallando) <= Cardinality(Peticiones)
<1>1. Fallando \subseteq Peticiones
  BY DEF Fallando
<1> QED
  BY <1>1, PeticionesFinitas, FS_Subset, FS_CardinalityType

LEMMA MenosFallos ==
  ASSUME Merma
  PROVE  /\ Cardinality(Fallando') <= Cardinality(Fallando)
         /\ Cardinality(Fallando') \in Nat
<1>1. Fallando' \subseteq Fallando
  BY DEF Merma, Fallando, Libre
<1> QED
  BY <1>1, FallandoFinito, FS_Subset, FS_CardinalityType

(* What such a step leaves of the invariant, but for the table it writes.   *)
LEMMA SigueMermando ==
  ASSUME IInv, TypeOK', Merma
  PROVE  /\ Formada' /\ Retenciones'
         /\ UNCHANGED sesion => Canjes' /\ CortesFieles'
         /\ UNCHANGED enlace => Usos'
         /\ usuario'.fallos = usuario.fallos
              /\ usuario'.bloqueo = usuario.bloqueo => Intentos'
<1> USE DEF IInv
<1>1. Formada' /\ Retenciones'
  BY DEF Merma, Formada, Retenciones, Libre
<1>2. UNCHANGED sesion => Canjes' /\ CortesFieles'
  BY DEF Merma, Canjes, CortesFieles, Activas, Ordenadas, Libre
<1>3. UNCHANGED enlace => Usos'
  BY DEF Merma, Usos, Libre
<1>4. ASSUME usuario'.fallos = usuario.fallos,
             usuario'.bloqueo = usuario.bloqueo
      PROVE  Intentos'
  <2>1. usuario.fallos \in Nat
    BY DEF TypeOK
  <2> QED
    BY <1>4, <2>1, MenosFallos, FallandoFinito, MaxIntentosPositivo DEF Intentos
<1> QED
  BY <1>1, <1>2, <1>3, <1>4

----------------------------------------------------------------------------
(* Every initial state satisfies the invariant.                             *)
LEMMA AlEmpezar == Init => IInv
<1> SUFFICES ASSUME Init PROVE IInv
  OBVIOUS
<1>1. /\ peticion = [r \in Peticiones |-> Libre]
      /\ empresa = [activa |-> TRUE, eliminada |-> FALSE]
      /\ \E v \in BOOLEAN, a \in SUBSET Tokens, s \in SUBSET Enlaces :
           Alta(v, a, s)
  BY DEF Init, provision_empresa, registro_empresa, create_usuario, Anterior
<1>2. PICK v \in BOOLEAN, a \in SUBSET Tokens, n \in SUBSET Enlaces :
        Alta(v, a, n)
  BY <1>1
<1>3. usuario = [activo |-> TRUE, eliminado |-> FALSE, verificado |-> v,
                 fallos |-> 0, bloqueo |-> "NO"]
  BY <1>2 DEF Alta, Cuenta
<1>4. /\ sesion \in [Tokens -> [estado : {"ACTIVA", "CERRADA"},
                                previa : BOOLEAN, solapada : BOOLEAN,
                                canjes : Nat]]
      /\ \A t \in Tokens : sesion[t].canjes = 0 /\ sesion[t].previa = FALSE
  BY <1>2 DEF Alta, Abierta, SinSesion
<1>5. /\ enlace \in [Enlaces -> [estado : {"LIBRE", "ACTIVO", "USADO"},
                                 tipo : {"CLAVE", "CORREO"}, usos : Nat]]
      /\ \A e \in Enlaces : enlace[e].usos = 0
  BY <1>2 DEF Alta, Enviado, SinEnlace
<1>6. TypeOK
  BY <1>1, <1>3, <1>4, <1>5, LibreTipo DEF TypeOK, PeticionTipo
<1>7. Formada /\ Retenciones
  BY <1>1 DEF Formada, Retenciones, Libre
<1>8. Canjes /\ CortesFieles
  <2>1. Ordenadas = {} /\ \A r \in Peticiones : peticion[r].tipo # "RENOVAR"
    BY <1>1 DEF Ordenadas, Libre
  <2> QED
    BY <2>1, <1>4 DEF Canjes, CortesFieles, Activas
<1>9. Usos
  <2>1. \A r \in Peticiones : peticion[r].tipo # "RESTABLECER"
    BY <1>1 DEF Libre
  <2> QED
    BY <2>1, <1>5 DEF Usos
<1>10. Intentos
  BY <1>3, MaxIntentosPositivo DEF Intentos
<1> QED
  BY <1>6, <1>7, <1>8, <1>9, <1>10 DEF IInv

----------------------------------------------------------------------------
(* The steps. *)

(* A reading step takes a free slot; a token it locks is open, a link has   *)
(* not been used, and nobody held them; no failure is counted for a locked  *)
(* account.                                                                 *)
Lectura(r) ==
  \/ \E correcta \in BOOLEAN : LeeEntrar(r, correcta)
  \/ \E t \in Tokens : LeeRenovar(r, t)
  \/ \E tipo \in {"CLAVE", "CORREO"} : LeePedir(r, tipo)
  \/ \E tipo \in {"CAMBIAR", "ELIMINAR"} : LeeCorte(r, tipo)
  \/ LeeBaja(r)
  \/ \E e \in Enlaces : LeeRestablecer(r, e)

LEMMA LecturaFresca ==
  ASSUME TypeOK, NEW r \in Peticiones, Lectura(r)
  PROVE  /\ UNCHANGED <<empresa, usuario, sesion, enlace>>
         /\ \E m \in PeticionTipo :
              /\ m.fase = "LEIDA"
              /\ peticion[r] = Libre
              /\ peticion' = [peticion EXCEPT ![r] = m]
              /\ m.tipo = "RENOVAR" =>
                   m.id \in Tokens /\ m.id \in Activas /\ m.id \notin Retenidos
              /\ m.tipo = "RESTABLECER" =>
                   m.id \in Enlaces /\ m.id \in EnUso("CLAVE")
                   /\ m.id \notin Retenidos
              /\ m.tipo = "FALLO" => ~ Bloqueada
<1> USE DEF PeticionTipo, Empieza, Cortes
<1>1. CASE \E correcta \in BOOLEAN : LeeEntrar(r, correcta)
  <2> DEFINE m(tipo) == [tipo |-> tipo, fase |-> "LEIDA", id |-> "-",
                         objetivos |-> {}, cruzada |-> FALSE]
  <2>1. m("ENTRAR") \in PeticionTipo /\ m("FALLO") \in PeticionTipo
    OBVIOUS
  <2>2. /\ UNCHANGED <<empresa, usuario, sesion, enlace>> /\ ~ Bloqueada
        /\ peticion[r] = Libre
        /\ \/ peticion' = [peticion EXCEPT ![r] = m("ENTRAR")]
           \/ peticion' = [peticion EXCEPT ![r] = m("FALLO")]
    BY <1>1 DEF LeeEntrar
  <2> QED
    BY <2>1, <2>2
<1>2. CASE \E t \in Tokens : LeeRenovar(r, t)
  <2> PICK t \in Tokens : LeeRenovar(r, t)
    BY <1>2
  <2> DEFINE m == [tipo |-> "RENOVAR", fase |-> "LEIDA", id |-> t,
                   objetivos |-> {}, cruzada |-> FALSE]
  <2>1. m \in PeticionTipo
    OBVIOUS
  <2> QED
    BY <2>1 DEF LeeRenovar
<1>3. CASE \E tipo \in {"CLAVE", "CORREO"} : LeePedir(r, tipo)
  <2> PICK tipo \in {"CLAVE", "CORREO"} : LeePedir(r, tipo)
    BY <1>3
  <2> DEFINE m == [tipo |-> "PEDIR", fase |-> "LEIDA", id |-> tipo,
                   objetivos |-> EnUso(tipo), cruzada |-> FALSE]
  <2>1. m \in PeticionTipo
    BY DEF EnUso
  <2> QED
    BY <2>1 DEF LeePedir
<1>4. CASE \/ \E tipo \in {"CAMBIAR", "ELIMINAR"} : LeeCorte(r, tipo)
           \/ LeeBaja(r)
  <2> PICK tipo \in {"CAMBIAR", "ELIMINAR", "BAJA"} :
           /\ Empieza(r, tipo, "-", {})
           /\ UNCHANGED <<empresa, usuario, sesion, enlace>>
    BY <1>4 DEF LeeCorte, LeeBaja
  <2> DEFINE m == [tipo |-> tipo, fase |-> "LEIDA", id |-> "-",
                   objetivos |-> {}, cruzada |-> FALSE]
  <2>1. m \in PeticionTipo
    OBVIOUS
  <2> QED
    BY <2>1
<1>5. CASE \E e \in Enlaces : LeeRestablecer(r, e)
  <2> PICK e \in Enlaces : LeeRestablecer(r, e)
    BY <1>5
  <2> DEFINE m == [tipo |-> "RESTABLECER", fase |-> "LEIDA", id |-> e,
                   objetivos |-> {}, cruzada |-> FALSE]
  <2>1. m \in PeticionTipo
    OBVIOUS
  <2> QED
    BY <2>1 DEF LeeRestablecer
<1> QED
  BY <1>1, <1>2, <1>3, <1>4, <1>5 DEF Lectura

LEMMA PasoLee ==
  ASSUME IInv, NEW r \in Peticiones, Lectura(r)
  PROVE  IInv'
<1> USE DEF IInv
<1>1. PICK m \in PeticionTipo :
        /\ m.fase = "LEIDA"
        /\ peticion[r] = Libre
        /\ peticion' = [peticion EXCEPT ![r] = m]
        /\ m.tipo = "RENOVAR" =>
             m.id \in Tokens /\ m.id \in Activas /\ m.id \notin Retenidos
        /\ m.tipo = "RESTABLECER" =>
             m.id \in Enlaces /\ m.id \in EnUso("CLAVE")
             /\ m.id \notin Retenidos
        /\ m.tipo = "FALLO" => ~ Bloqueada
  BY LecturaFresca
<1>2. /\ UNCHANGED <<empresa, usuario, sesion, enlace>>
      /\ \A s \in Peticiones :
           peticion'[s] = IF s = r THEN m ELSE peticion[s]
  BY <1>1, LecturaFresca DEF TypeOK
<1>3. TypeOK'
  BY <1>1, <1>2 DEF TypeOK, PeticionTipo
<1>4. Formada'
  BY <1>1, <1>2 DEF Formada
<1>5. Retenciones'
  BY <1>1, <1>2 DEF Retenciones, Retenidos
<1>6. Canjes' /\ CortesFieles'
  BY <1>1, <1>2 DEF Canjes, CortesFieles, Activas, Ordenadas
<1>7. Usos'
  BY <1>1, <1>2 DEF Usos, EnUso
<1>8. Intentos'
  <2>1. CASE m.tipo = "FALLO"
    BY <2>1, <1>1, <1>2 DEF Intentos, Bloqueada
  <2>2. CASE m.tipo # "FALLO"
    <3>1. Fallando' = Fallando
      BY <2>2, <1>1, <1>2 DEF Fallando, Libre
    <3> QED
      BY <3>1, <1>2 DEF Intentos
  <2> QED
    BY <2>1, <2>2
<1> QED
  BY <1>3, <1>4, <1>5, <1>6, <1>7, <1>8

(* A revocation starts: the sessions it will touch are those open now, so   *)
(* it leaves none but those that open after it.                             *)
LEMMA PasoOrdena ==
  ASSUME IInv, NEW r \in Peticiones, Ordena(r) \/ OrdenaConsola(r)
  PROVE  IInv'
<1> USE DEF IInv
<1>1. PICK m \in PeticionTipo :
        /\ m.tipo \in Cortes /\ m.objetivos = Activas
        /\ \/ m.tipo = peticion[r].tipo /\ m.id = peticion[r].id
           \/ m.tipo = "CONSOLA"
        /\ peticion' = [peticion EXCEPT ![r] = m]
        /\ UNCHANGED <<empresa, usuario, sesion, enlace>>
  <2>1. CASE Ordena(r)
    <3>1. PICK p \in PeticionTipo : p = peticion[r]
      BY DEF TypeOK, PeticionTipo
    <3>2. PICK q \in PeticionTipo : q = [p EXCEPT !.fase = "ORDENADA"]
      BY DEF PeticionTipo
    <3>3. Activas \in SUBSET (Tokens \cup Enlaces)
      BY DEF Activas
    <3>4. PICK m \in PeticionTipo : m = [q EXCEPT !.objetivos = Activas]
      BY <3>3 DEF PeticionTipo
    <3>5. /\ m.tipo = p.tipo /\ m.id = p.id /\ m.objetivos = Activas
      BY <3>2, <3>4 DEF PeticionTipo
    <3>6. peticion' = [peticion EXCEPT ![r] = m]
      BY <2>1, <3>1, <3>2, <3>4 DEF Ordena, TypeOK
    <3> QED
      BY <2>1, <3>1, <3>5, <3>6 DEF Ordena
  <2>2. CASE OrdenaConsola(r)
    <3>1. PICK p \in PeticionTipo : p = [Libre EXCEPT !.tipo = "CONSOLA"]
      BY LibreTipo DEF PeticionTipo, Cortes
    <3>2. PICK q \in PeticionTipo : q = [p EXCEPT !.fase = "ORDENADA"]
      BY DEF PeticionTipo
    <3>3. Activas \in SUBSET (Tokens \cup Enlaces)
      BY DEF Activas
    <3>4. PICK m \in PeticionTipo : m = [q EXCEPT !.objetivos = Activas]
      BY <3>3 DEF PeticionTipo
    <3>5. m.tipo = "CONSOLA" /\ m.objetivos = Activas
      BY <3>1, <3>2, <3>4, LibreTipo DEF PeticionTipo
    <3>6. peticion' = [peticion EXCEPT ![r] = m]
      BY <2>2, <3>1, <3>2, <3>4 DEF OrdenaConsola
    <3> QED
      BY <2>2, <3>5, <3>6 DEF OrdenaConsola, Cortes
  <2> QED
    BY <2>1, <2>2
<1>2. /\ UNCHANGED <<empresa, usuario, sesion, enlace>>
      /\ \A s \in Peticiones :
           peticion'[s] = IF s = r THEN m ELSE peticion[s]
  BY <1>1 DEF TypeOK
<1>3. TypeOK'
  BY <1>1, <1>2 DEF TypeOK, PeticionTipo
<1>4. /\ m.tipo # "RENOVAR" /\ m.tipo # "FALLO"
      /\ m.tipo = "RESTABLECER" =>
           peticion[r].tipo = "RESTABLECER" /\ m.id = peticion[r].id
  BY <1>1 DEF Cortes
<1>5. Formada' /\ Retenciones'
  BY <1>1, <1>2, <1>4 DEF Formada, Retenciones
<1>6. Canjes' /\ Usos'
  BY <1>2, <1>4 DEF Canjes, Usos, Activas
<1>7. CortesFieles'
  BY <1>1, <1>2 DEF CortesFieles, Activas, Ordenadas
<1>8. Intentos'
  <2>1. Fallando' \subseteq Fallando
    BY <1>2, <1>4 DEF Fallando
  <2>2. Cardinality(Fallando') \in Nat
        /\ Cardinality(Fallando') <= Cardinality(Fallando)
    BY <2>1, FallandoFinito, FS_Subset, FS_CardinalityType
  <2>3. usuario.fallos \in Nat
    BY DEF TypeOK
  <2> QED
    BY <1>2, <2>2, <2>3, FallandoFinito, MaxIntentosPositivo DEF Intentos
<1> QED
  BY <1>3, <1>5, <1>6, <1>7, <1>8

(* A session that opens while a revocation is in flight remembers it.       *)
LEMMA AbreSesion ==
  ASSUME CortesFieles, Merma,
         NEW s \in [Tokens -> [estado : {"ACTIVA", "CERRADA"}, previa : BOOLEAN,
                               solapada : BOOLEAN, canjes : Nat]],
         sesion' = s,
         \A t \in Tokens :
           \/ s[t] = sesion[t]
           \/ s[t].estado = "CERRADA" /\ ~ s[t].previa
           \/ s[t].previa \/ Ordenadas # {} => s[t].solapada
  PROVE  CortesFieles'
<1>1. Ordenadas' \subseteq Ordenadas
      /\ \A r \in Ordenadas' : peticion'[r].objetivos = peticion[r].objetivos
  BY DEF Merma, Ordenadas, Libre
<1> QED
  BY <1>1 DEF CortesFieles, Activas

(* What EscribeEntrar and EscribeRenovar insert.                            *)
SesionTipo ==
  [estado : {"ACTIVA", "CERRADA"}, previa : BOOLEAN, solapada : BOOLEAN,
   canjes : Nat]
Nacida(p, o) == [Abierta EXCEPT !.previa = p, !.solapada = o]

LEMMA NacidaTipo ==
  ASSUME NEW p \in BOOLEAN, NEW o \in BOOLEAN
  PROVE  /\ Nacida(p, o) \in SesionTipo
         /\ Nacida(p, o).estado = "ACTIVA" /\ Nacida(p, o).previa = p
         /\ Nacida(p, o).solapada = o /\ Nacida(p, o).canjes = 0
<1> USE DEF SesionTipo
<1>1. SinSesion \in SesionTipo /\ SinSesion.canjes = 0
  BY DEF SinSesion
<1>2. PICK a \in SesionTipo : a = [SinSesion EXCEPT !.estado = "ACTIVA"]
  BY <1>1
<1>3. a.estado = "ACTIVA" /\ a.canjes = 0
  BY <1>1, <1>2
<1>4. PICK b \in SesionTipo : b = [a EXCEPT !.previa = p]
  OBVIOUS
<1>5. b.estado = "ACTIVA" /\ b.canjes = 0 /\ b.previa = p
  BY <1>3, <1>4
<1>6. PICK c \in SesionTipo : c = [b EXCEPT !.solapada = o]
  OBVIOUS
<1>7. c.estado = "ACTIVA" /\ c.canjes = 0 /\ c.previa = p /\ c.solapada = o
  BY <1>5, <1>6
<1>8. c = Nacida(p, o)
  BY <1>2, <1>4, <1>6 DEF Nacida, Abierta
<1> QED
  BY <1>7, <1>8

(* What EscribeRenovar and the others that close a token leave of it.       *)
LEMMA RevocadaTipo ==
  ASSUME NEW s \in SesionTipo
  PROVE  /\ Revocada(s) \in SesionTipo
         /\ Revocada(s).estado = "CERRADA" /\ Revocada(s).previa = FALSE
         /\ Revocada(s).canjes = s.canjes
<1> USE DEF SesionTipo
<1>1. /\ SinSesion \in SesionTipo
      /\ SinSesion.estado = "CERRADA" /\ SinSesion.previa = FALSE
  BY DEF SinSesion
<1>2. PICK a \in SesionTipo : a = [SinSesion EXCEPT !.canjes = s.canjes]
  BY <1>1
<1> QED
  BY <1>1, <1>2 DEF Revocada

LEMMA PasoEntrar ==
  ASSUME IInv, NEW r \in Peticiones, NEW t \in Tokens, EscribeEntrar(r, t)
  PROVE  IInv'
<1> USE DEF IInv
<1>1. PICK p \in BOOLEAN, o \in BOOLEAN :
        p = peticion[r].cruzada /\ o = Solapa(r)
  BY DEF TypeOK, Solapa
<1>2. /\ Nueva(t) /\ Termina(r)
      /\ sesion' = [sesion EXCEPT ![t] = Nacida(p, o)]
      /\ usuario' = SinFallos(usuario)
      /\ UNCHANGED <<empresa, enlace>>
  BY <1>1 DEF EscribeEntrar, Nacida
<1>3. p \/ Ordenadas # {} => o
  BY <1>1 DEF Solapa
<1>4. sesion' \in [Tokens -> [estado : {"ACTIVA", "CERRADA"}, previa : BOOLEAN,
                              solapada : BOOLEAN, canjes : Nat]]
      /\ \A q \in Tokens :
           sesion'[q] = IF q = t THEN Nacida(p, o) ELSE sesion[q]
  BY <1>2, NacidaTipo DEF TypeOK, SesionTipo
<1>5. usuario' \in [activo : BOOLEAN, eliminado : BOOLEAN, verificado : BOOLEAN,
                    fallos : Nat, bloqueo : {"NO", "VIGENTE", "VENCIDO"}]
      /\ usuario'.fallos = 0 /\ usuario'.bloqueo = "NO"
  BY <1>2 DEF SinFallos, TypeOK
<1>6. TypeOK'
  BY <1>2, <1>4, <1>5, AlTerminar DEF TypeOK, PeticionTipo
<1>7. Merma
  BY <1>2, MermaAlTerminar
<1>8. Formada' /\ Retenciones' /\ Usos'
  BY <1>2, <1>6, <1>7, SigueMermando
<1>9. Canjes'
  <2>1. Nacida(p, o).canjes = 0
    BY NacidaTipo
  <2>2. \A q \in Tokens : q \in Activas' => q = t \/ q \in Activas
    BY <1>4 DEF Activas
  <2>3. \A s \in Peticiones : peticion[s].id # t
    BY <1>2 DEF Nueva
  <2> QED
    BY <1>4, <1>7, <2>1, <2>2, <2>3 DEF Canjes, Merma, Formada, Libre
<1>10. CortesFieles'
  BY <1>3, <1>4, <1>7, NacidaTipo, AbreSesion
<1>11. Intentos'
  BY <1>5, MaxIntentosPositivo DEF Intentos
<1> QED
  BY <1>6, <1>8, <1>9, <1>10, <1>11

(* An exchange closes the token it holds, whose first exchange this is.     *)
LEMMA PasoRenovar ==
  ASSUME IInv, NEW r \in Peticiones, NEW t \in Tokens, EscribeRenovar(r, t)
  PROVE  IInv'
<1> USE DEF IInv
<1>1. PICK v : v = peticion[r].id
  OBVIOUS
<1>2. /\ v \in Tokens /\ v # t /\ peticion[r].tipo = "RENOVAR"
      /\ sesion[v].canjes = 0
  BY <1>1 DEF EscribeRenovar, Es, Formada, Canjes, Nueva
<1>3. PICK p \in BOOLEAN, o \in BOOLEAN :
        /\ p = (sesion[v].previa \/ peticion[r].cruzada)
        /\ o = (sesion[v].solapada \/ Solapa(r))
  BY <1>2 DEF TypeOK, Solapa
<1>4. PICK b : b = Revocada(sesion[v])
  OBVIOUS
<1>5. PICK c \in SesionTipo :
        /\ c = [b EXCEPT !.canjes = b.canjes + 1]
        /\ c.estado = "CERRADA" /\ c.previa = FALSE /\ c.canjes = 1
  <2>1. /\ b \in SesionTipo /\ b.estado = "CERRADA" /\ b.previa = FALSE
        /\ b.canjes = 0
    BY <1>2, <1>4, RevocadaTipo DEF TypeOK, SesionTipo
  <2>2. PICK c : c = [b EXCEPT !.canjes = b.canjes + 1]
    OBVIOUS
  <2> QED
    BY <2>1, <2>2 DEF SesionTipo
<1>6. /\ Nueva(t) /\ Termina(r)
      /\ sesion' = [sesion EXCEPT ![v] = c, ![t] = Nacida(p, o)]
      /\ UNCHANGED <<empresa, usuario, enlace>>
  <2>1. sesion' = [sesion EXCEPT
           ![v] = Canjeada(sesion[v]),
           ![t] = [Abierta EXCEPT
                     !.previa = sesion[v].previa \/ peticion[r].cruzada,
                     !.solapada = sesion[v].solapada \/ Solapa(r)]]
    BY <1>1 DEF EscribeRenovar
  <2>2. sesion' = [sesion EXCEPT ![v] = c, ![t] = Nacida(p, o)]
    BY <2>1, <1>3, <1>4, <1>5 DEF Nacida, Canjeada
  <2> QED
    BY <2>2 DEF EscribeRenovar
<1>7. /\ sesion' \in [Tokens -> [estado : {"ACTIVA", "CERRADA"},
                                 previa : BOOLEAN, solapada : BOOLEAN,
                                 canjes : Nat]]
      /\ \A q \in Tokens : sesion'[q] =
           IF q = t THEN Nacida(p, o) ELSE IF q = v THEN c ELSE sesion[q]
  BY <1>2, <1>6, NacidaTipo DEF TypeOK, SesionTipo
<1>8. TypeOK'
  BY <1>6, <1>7, AlTerminar DEF TypeOK, PeticionTipo
<1>9. Merma
  BY <1>6, MermaAlTerminar
<1>10. Formada' /\ Retenciones' /\ Usos' /\ Intentos'
  BY <1>6, <1>8, <1>9, SigueMermando
<1>11. Canjes'
  <2>1. Nacida(p, o).canjes = 0 /\ c.canjes = 1 /\ c.estado = "CERRADA"
    BY <1>5, NacidaTipo
  <2>2. ASSUME NEW q \in Tokens
        PROVE  sesion'[q].canjes <= 1
               /\ (q \in Activas' => sesion'[q].canjes = 0)
    BY <2>1, <1>2, <1>7 DEF Canjes, Activas
  <2>3. ASSUME NEW s \in Peticiones, peticion'[s].tipo = "RENOVAR"
        PROVE  sesion'[peticion'[s].id].canjes = 0
    <3>1. s # r /\ peticion'[s] = peticion[s]
      BY <2>3, <1>6, AlTerminar DEF Libre
    <3>2. peticion[s].id \in Tokens /\ peticion[s].id # v /\ peticion[s].id # t
      BY <2>3, <3>1, <1>1, <1>2, <1>6 DEF Formada, Retenciones, Nueva
    <3> QED
      BY <2>3, <3>1, <3>2, <1>7 DEF Canjes
  <2> QED
    BY <2>2, <2>3 DEF Canjes
<1>12. CortesFieles'
  <2>1. p \/ Ordenadas # {} => o
    BY <1>2, <1>3 DEF Solapa, CortesFieles
  <2> QED
    BY <2>1, <1>5, <1>7, <1>9, NacidaTipo, AbreSesion
<1> QED
  BY <1>8, <1>10, <1>11, <1>12

(* A failure counted for a locked account was already in flight.            *)
LEMMA PasoFallo ==
  ASSUME IInv, NEW r \in Peticiones, EscribeFallo(r)
  PROVE  IInv'
<1> USE DEF IInv
<1>1. /\ Termina(r) /\ UNCHANGED <<empresa, sesion, enlace>>
      /\ peticion[r].tipo = "FALLO"
      /\ usuario' = AlFallar(usuario) \/ usuario' = usuario
  BY DEF EscribeFallo, Es
<1>2. PICK n \in Nat, b \in {"NO", "VIGENTE", "VENCIDO"} :
        /\ n = IF usuario.bloqueo = "VENCIDO" THEN 1 ELSE usuario.fallos + 1
        /\ b = IF n >= MaxIntentos THEN "VIGENTE" ELSE usuario.bloqueo
  BY DEF TypeOK
<1>3. PICK u : u = [usuario EXCEPT !.fallos = n]
  OBVIOUS
<1>4. PICK w : w = [u EXCEPT !.bloqueo = b]
  OBVIOUS
<1>5. /\ w \in [activo : BOOLEAN, eliminado : BOOLEAN, verificado : BOOLEAN,
                fallos : Nat, bloqueo : {"NO", "VIGENTE", "VENCIDO"}]
      /\ w.fallos = n /\ w.bloqueo = b
  BY <1>2, <1>3, <1>4 DEF TypeOK
<1>6. AlFallar(usuario) = w
  BY <1>2, <1>3, <1>4 DEF AlFallar
<1>7. TypeOK'
  BY <1>1, <1>5, <1>6, AlTerminar DEF TypeOK, PeticionTipo
<1>8. Merma
  BY <1>1, MermaAlTerminar
<1>9. Formada' /\ Retenciones' /\ Usos' /\ Canjes' /\ CortesFieles'
  BY <1>1, <1>7, <1>8, SigueMermando
<1>10. Intentos'
  <2>1. CASE usuario' = usuario
    BY <2>1, <1>7, <1>8, SigueMermando
  <2>2. CASE usuario' = w
    <3>1. Fallando' = Fallando \ {r} /\ r \in Fallando
      BY <1>1, AlTerminar DEF Fallando, Libre
    <3>2. Cardinality(Fallando') = Cardinality(Fallando) - 1
      BY <3>1, FallandoFinito, FS_RemoveElement
    <3>3. usuario.fallos \in Nat
          /\ usuario.bloqueo \in {"NO", "VIGENTE", "VENCIDO"}
      BY DEF TypeOK
    <3> QED
      BY <2>2, <3>2, <3>3, <1>2, <1>5, FallandoFinito, MaxIntentosPositivo
      DEF Intentos
  <2> QED
    BY <2>1, <2>2, <1>1, <1>6
<1> QED
  BY <1>7, <1>9, <1>10

----------------------------------------------------------------------------
(* The links. *)

EnlaceTipo ==
  [estado : {"LIBRE", "ACTIVO", "USADO"}, tipo : {"CLAVE", "CORREO"},
   usos : Nat]

LEMMA AlUsar ==
  ASSUME NEW es, NEW f \in [Enlaces -> EnlaceTipo]
  PROVE  /\ Usados(es, f) \in [Enlaces -> EnlaceTipo]
         /\ \A e \in Enlaces :
              /\ Usados(es, f)[e].estado =
                   IF e \in es THEN "USADO" ELSE f[e].estado
              /\ Usados(es, f)[e].tipo = f[e].tipo
              /\ Usados(es, f)[e].usos = f[e].usos
BY DEF Usados, EnlaceTipo

LEMMA AlContar ==
  ASSUME NEW es, NEW f \in [Enlaces -> EnlaceTipo]
  PROVE  /\ Usan(es, f) \in [Enlaces -> EnlaceTipo]
         /\ \A e \in Enlaces :
              /\ Usan(es, f)[e].estado = f[e].estado
              /\ Usan(es, f)[e].tipo = f[e].tipo
              /\ Usan(es, f)[e].usos =
                   IF e \in es THEN f[e].usos + 1 ELSE f[e].usos
BY DEF Usan, EnlaceTipo

LEMMA EnviadoTipo ==
  ASSUME NEW tipo \in {"CLAVE", "CORREO"}
  PROVE  /\ Enviado(tipo) \in EnlaceTipo /\ Enviado(tipo).estado = "ACTIVO"
         /\ Enviado(tipo).tipo = tipo /\ Enviado(tipo).usos = 0
<1> USE DEF EnlaceTipo
<1>1. SinEnlace \in EnlaceTipo /\ SinEnlace.usos = 0
  BY DEF SinEnlace
<1>2. PICK a \in EnlaceTipo : a = [SinEnlace EXCEPT !.estado = "ACTIVO"]
  BY <1>1
<1>3. PICK b \in EnlaceTipo : b = [a EXCEPT !.tipo = tipo]
  OBVIOUS
<1>4. b = Enviado(tipo)
  BY <1>2, <1>3 DEF Enviado
<1> QED
  BY <1>1, <1>2, <1>3, <1>4

(* A new link retires the earlier ones of its kind.                         *)
LEMMA PasoPedir ==
  ASSUME IInv, NEW r \in Peticiones, NEW e \in Enlaces,
         peticion[r].id \in {"CLAVE", "CORREO"}, EscribePedir(r, e)
  PROVE  IInv'
<1> USE DEF IInv
<1>1. /\ Termina(r) /\ UNCHANGED <<empresa, usuario, sesion>>
      /\ enlace[e].estado = "LIBRE"
      /\ enlace' = [Usados(peticion[r].objetivos, enlace) EXCEPT ![e] =
                      Enviado(peticion[r].id)]
  BY DEF EscribePedir
<1>2. enlace \in [Enlaces -> EnlaceTipo]
  BY DEF TypeOK, EnlaceTipo
<1>3. PICK g \in [Enlaces -> EnlaceTipo] :
        /\ g = Usados(peticion[r].objetivos, enlace)
        /\ \A q \in Enlaces :
             /\ g[q].estado = "USADO" \/ g[q].estado = enlace[q].estado
             /\ g[q].tipo = enlace[q].tipo /\ g[q].usos = enlace[q].usos
  BY <1>2, AlUsar
<1>4. PICK n \in EnlaceTipo :
        /\ n = Enviado(peticion[r].id)
        /\ n.estado = "ACTIVO" /\ n.usos = 0
  BY EnviadoTipo
<1>5. /\ enlace' \in [Enlaces -> EnlaceTipo]
      /\ \A q \in Enlaces : enlace'[q] = IF q = e THEN n ELSE g[q]
  BY <1>1, <1>3, <1>4
<1>6. TypeOK'
  BY <1>1, <1>5, AlTerminar DEF TypeOK, PeticionTipo, EnlaceTipo
<1>7. Merma
  BY <1>1, MermaAlTerminar
<1>8. Formada' /\ Retenciones' /\ Canjes' /\ CortesFieles' /\ Intentos'
  BY <1>1, <1>6, <1>7, SigueMermando
<1>9. Usos'
  <2>1. \A s \in Peticiones : peticion[s].tipo = "RESTABLECER" =>
          peticion[s].id \in Enlaces /\ peticion[s].id # e
    BY <1>1 DEF Formada, Usos
  <2>2. \A q \in Enlaces : enlace'[q].usos <= 1
          /\ (enlace'[q].estado # "USADO" => enlace'[q].usos = 0)
    BY <1>3, <1>4, <1>5 DEF Usos
  <2>3. ASSUME NEW s \in Peticiones, peticion'[s].tipo = "RESTABLECER"
        PROVE  /\ enlace'[peticion'[s].id].usos = 0
               /\ enlace'[peticion'[s].id].tipo = "CLAVE"
               /\ enlace'[peticion'[s].id].estado # "LIBRE"
    <3>1. peticion'[s] = peticion[s]
      BY <2>3, <1>1, AlTerminar DEF Libre
    <3> QED
      BY <2>1, <2>3, <3>1, <1>3, <1>5 DEF Usos
  <2> QED
    BY <2>2, <2>3 DEF Usos
<1> QED
  BY <1>6, <1>8, <1>9

----------------------------------------------------------------------------
(* The revocations. *)

LEMMA AlCortar ==
  ASSUME TypeOK, NEW r \in Peticiones, peticion' = TrasCorte(r)
  PROVE  /\ peticion' \in [Peticiones -> PeticionTipo]
         /\ \A s \in Peticiones : IF s = r THEN peticion'[s] = Libre ELSE
              /\ peticion'[s].tipo = peticion[s].tipo
              /\ peticion'[s].fase = peticion[s].fase
              /\ peticion'[s].id = peticion[s].id
              /\ peticion'[s].objetivos = peticion[s].objetivos
<1> DEFINE c(s) == peticion[s].cruzada
                   \/ peticion[s].tipo \in {"ENTRAR", "RENOVAR"}
           n(s) == [peticion[s] EXCEPT !.cruzada = c(s)]
<1>1. \A s \in Peticiones : peticion[s] \in PeticionTipo /\ c(s) \in BOOLEAN
  BY DEF TypeOK, PeticionTipo
<1>2. ASSUME NEW s \in Peticiones
      PROVE  /\ n(s) \in PeticionTipo
             /\ n(s).tipo = peticion[s].tipo /\ n(s).fase = peticion[s].fase
             /\ n(s).id = peticion[s].id
             /\ n(s).objetivos = peticion[s].objetivos
  BY <1>1 DEF PeticionTipo
<1>3. peticion' = [s \in Peticiones |-> IF s = r THEN Libre ELSE n(s)]
  BY DEF TrasCorte
<1> HIDE DEF n, c
<1> QED
  BY <1>2, <1>3, LibreTipo

(* The sessions it leaves open were opened while it was in flight.          *)
LEMMA AlRevocar ==
  ASSUME IInv, NEW r \in Peticiones, r \in Ordenadas
  PROVE  /\ Revocadas(r) \in [Tokens -> SesionTipo]
         /\ \A t \in Tokens :
              /\ Revocadas(r)[t].canjes = sesion[t].canjes
              /\ Revocadas(r)[t].previa => Revocadas(r)[t].solapada
              /\ Revocadas(r)[t].estado = "ACTIVA" =>
                   /\ t \in Activas
                   /\ Revocadas(r)[t].solapada = sesion[t].solapada
<1> USE DEF IInv
<1> DEFINE n(t) == [sesion[t] EXCEPT !.previa = TRUE]
<1>1. \A t \in Tokens : sesion[t] \in SesionTipo
  BY DEF TypeOK, SesionTipo
<1>2. ASSUME NEW t \in Tokens
      PROVE  /\ n(t) \in SesionTipo /\ n(t).canjes = sesion[t].canjes
             /\ n(t).estado = sesion[t].estado
             /\ n(t).solapada = sesion[t].solapada
  BY <1>1 DEF SesionTipo
<1>3. Revocadas(r) = [t \in Tokens |->
        IF t \notin Activas THEN sesion[t]
        ELSE IF t \in peticion[r].objetivos THEN Revocada(sesion[t]) ELSE n(t)]
  BY DEF Revocadas
<1> HIDE DEF n
<1>4. \A t \in Tokens :
        /\ Revocadas(r)[t] = IF t \notin Activas THEN sesion[t]
             ELSE IF t \in peticion[r].objetivos THEN Revocada(sesion[t])
             ELSE n(t)
        /\ Revocadas(r)[t] \in SesionTipo
  BY <1>1, <1>2, <1>3, RevocadaTipo
<1>5. ASSUME NEW t \in Tokens
      PROVE  /\ Revocadas(r)[t].canjes = sesion[t].canjes
             /\ Revocadas(r)[t].previa => Revocadas(r)[t].solapada
             /\ Revocadas(r)[t].estado = "ACTIVA" =>
                  t \in Activas /\ Revocadas(r)[t].solapada = sesion[t].solapada
  <2>1. CASE t \notin Activas
    BY <2>1, <1>1, <1>4 DEF CortesFieles, Activas, SesionTipo
  <2>2. CASE t \in Activas /\ t \in peticion[r].objetivos
    <3>1. PICK a \in SesionTipo : /\ a = Revocada(sesion[t])
            /\ a.estado = "CERRADA" /\ a.previa = FALSE
            /\ a.canjes = sesion[t].canjes
      BY <1>1, RevocadaTipo
    <3>2. Revocadas(r)[t] = a
      BY <2>2, <3>1, <1>4
    <3> QED
      BY <3>1, <3>2
  <2>3. CASE t \in Activas /\ t \notin peticion[r].objetivos
    BY <2>3, <1>2, <1>4 DEF CortesFieles
  <2> QED
    BY <2>1, <2>2, <2>3
<1> QED
  BY <1>3, <1>4, <1>5

LEMMA PasoCorte ==
  ASSUME IInv, NEW r \in Peticiones, EscribeCorte(r)
  PROVE  IInv'
<1> USE DEF IInv
<1>1. PICK p \in PeticionTipo : p = peticion[r]
  BY DEF TypeOK, PeticionTipo
<1>2. /\ r \in Ordenadas
      /\ sesion' = Revocadas(r)
      /\ enlace' = Usan(Propio(p), Usados(Gastados(p), enlace))
      /\ peticion' = TrasCorte(r)
  BY <1>1 DEF EscribeCorte
<1>3. /\ empresa' \in [activa : BOOLEAN, eliminada : BOOLEAN]
      /\ usuario' \in [activo : BOOLEAN, eliminado : BOOLEAN,
                       verificado : BOOLEAN, fallos : Nat,
                       bloqueo : {"NO", "VIGENTE", "VENCIDO"}]
      /\ \/ usuario'.fallos = 0 /\ usuario'.bloqueo = "NO"
         \/ usuario'.fallos = usuario.fallos
              /\ usuario'.bloqueo = usuario.bloqueo
  <2>1. empresa' \in [activa : BOOLEAN, eliminada : BOOLEAN]
    BY DEF EscribeCorte, TypeOK
  <2>2. CASE p.tipo = "CONSOLA"
    <3>1. usuario' = SinFallos(usuario)
      BY <2>2, <1>1 DEF EscribeCorte
    <3> QED
      BY <2>1, <3>1 DEF SinFallos, TypeOK
  <2>3. CASE p.tipo # "CONSOLA"
    <3>1. PICK a \in BOOLEAN, b \in BOOLEAN :
            /\ a = (usuario.activo /\ p.tipo \notin {"ELIMINAR", "BAJA"})
            /\ b = (usuario.eliminado \/ p.tipo = "ELIMINAR")
      BY DEF TypeOK
    <3>2. usuario' = [usuario EXCEPT !.activo = a, !.eliminado = b]
      BY <2>3, <1>1, <3>1 DEF EscribeCorte
    <3>3. PICK u : u = [usuario EXCEPT !.activo = a]
      OBVIOUS
    <3>4. usuario' = [u EXCEPT !.eliminado = b]
      BY <3>2, <3>3
    <3> QED
      BY <2>1, <3>3, <3>4 DEF TypeOK
  <2> QED
    BY <2>2, <2>3
<1>4. sesion' \in [Tokens -> SesionTipo]
  BY <1>2, AlRevocar
<1>5. PICK g \in [Enlaces -> EnlaceTipo] :
        /\ g = Usados(Gastados(p), enlace)
        /\ \A e \in Enlaces :
             /\ g[e].estado = IF e \in Gastados(p) THEN "USADO"
                              ELSE enlace[e].estado
             /\ g[e].tipo = enlace[e].tipo /\ g[e].usos = enlace[e].usos
  BY AlUsar DEF TypeOK, EnlaceTipo
<1>6. /\ enlace' \in [Enlaces -> EnlaceTipo]
      /\ \A e \in Enlaces :
           /\ enlace'[e].estado = g[e].estado /\ enlace'[e].tipo = g[e].tipo
           /\ enlace'[e].usos = IF e \in Propio(p) THEN g[e].usos + 1
                                ELSE g[e].usos
  BY <1>2, <1>5, AlContar
<1>7. TypeOK'
  BY <1>2, <1>3, <1>4, <1>6, AlCortar
  DEF TypeOK, PeticionTipo, SesionTipo, EnlaceTipo
<1>8. Merma
  BY <1>2, AlCortar DEF Merma
<1>9. Formada' /\ Retenciones'
  BY <1>7, <1>8, SigueMermando
<1>10. Canjes'
  <2>1. \A t \in Tokens : sesion'[t].canjes = sesion[t].canjes
          /\ (t \in Activas' => t \in Activas)
    BY <1>2, AlRevocar DEF Activas
  <2> QED
    BY <2>1, <1>8 DEF Canjes, Merma, Formada, Libre
<1>11. Usos'
  <2>1. Propio(p) \subseteq Gastados(p)
    BY DEF Propio, Gastados
  <2>2. \A e \in Enlaces : e \in Propio(p) =>
          p.tipo = "RESTABLECER" /\ e = p.id /\ enlace[e].usos = 0
    BY <1>1 DEF Propio, Usos
  <2>3. \A e \in Enlaces : enlace'[e].usos <= 1
          /\ (enlace'[e].estado # "USADO" => enlace'[e].usos = 0)
    BY <2>1, <2>2, <1>5, <1>6 DEF Usos
  <2>4. ASSUME NEW s \in Peticiones, peticion'[s].tipo = "RESTABLECER"
        PROVE  /\ enlace'[peticion'[s].id].usos = 0
               /\ enlace'[peticion'[s].id].tipo = "CLAVE"
               /\ enlace'[peticion'[s].id].estado # "LIBRE"
    <3>1. s # r /\ peticion[s].tipo = "RESTABLECER"
          /\ peticion'[s].id = peticion[s].id
      BY <2>4, <1>2, AlCortar DEF Libre
    <3>2. peticion[s].id \in Enlaces /\ peticion[s].id \notin Propio(p)
      BY <3>1, <1>1 DEF Formada, Retenciones, Propio
    <3> QED
      BY <3>1, <3>2, <1>5, <1>6 DEF Usos
  <2> QED
    BY <2>3, <2>4 DEF Usos
<1>12. CortesFieles'
  <2>1. \A t \in Tokens :
          /\ sesion'[t].previa => sesion'[t].solapada
          /\ t \in Activas' =>
               t \in Activas /\ sesion'[t].solapada = sesion[t].solapada
    BY <1>2, AlRevocar DEF Activas
  <2>2. \A q \in Ordenadas' :
          q \in Ordenadas /\ peticion'[q].objetivos = peticion[q].objetivos
    BY <1>8 DEF Ordenadas, Merma, Libre
  <2>3. Activas' \subseteq Tokens
    BY DEF Activas
  <2> QED
    BY <2>1, <2>2, <2>3 DEF CortesFieles
<1>13. Intentos'
  BY <1>3, <1>7, <1>8, SigueMermando, MaxIntentosPositivo DEF Intentos
<1> QED
  BY <1>7, <1>9, <1>10, <1>11, <1>12, <1>13

----------------------------------------------------------------------------
(* The steps that are not of a request, and the end of one. *)

(* A request that is rolled back leaves nothing.                            *)
LEMMA PasoRevierte ==
  ASSUME IInv, NEW r \in Peticiones, Revierte(r)
  PROVE  IInv'
<1>1. Termina(r) /\ UNCHANGED <<empresa, usuario, sesion, enlace>>
  BY DEF Revierte
<1>2. TypeOK'
  BY <1>1, AlTerminar DEF IInv, TypeOK, PeticionTipo
<1> QED
  BY <1>1, <1>2, MermaAlTerminar, SigueMermando DEF IInv

(* A token that is closed was not exchanged by it.                          *)
LEMMA PasoCierra ==
  ASSUME IInv, NEW t \in Tokens, Salir(t) \/ VenceToken(t)
  PROVE  IInv'
<1> USE DEF IInv
<1>1. /\ UNCHANGED <<empresa, usuario, enlace, peticion>>
      /\ sesion' = [sesion EXCEPT ![t] = Revocada(sesion[t])]
  BY DEF Salir, VenceToken
<1>2. /\ sesion \in [Tokens -> SesionTipo]
      /\ \A q \in Tokens :
           sesion'[q] = IF q = t THEN Revocada(sesion[t]) ELSE sesion[q]
  BY <1>1 DEF TypeOK, SesionTipo
<1>3. PICK a \in SesionTipo :
        /\ a = Revocada(sesion[t]) /\ a.estado = "CERRADA" /\ a.previa = FALSE
        /\ a.canjes = sesion[t].canjes
  BY <1>2, RevocadaTipo
<1>4. TypeOK'
  BY <1>1, <1>2, <1>3 DEF TypeOK, SesionTipo
<1>5. Merma
  BY <1>1 DEF Merma
<1>6. Formada' /\ Retenciones' /\ Usos' /\ Intentos'
  BY <1>1, <1>4, <1>5, SigueMermando
<1>7. Canjes' /\ CortesFieles'
  BY <1>1, <1>2, <1>3 DEF Canjes, CortesFieles, Activas, Ordenadas, Formada
<1> QED
  BY <1>4, <1>6, <1>7

(* A link stops working, having done its work or not.                       *)
LEMMA PasoEnlace ==
  ASSUME IInv, NEW e \in Enlaces, Verificar(e) \/ VenceEnlace(e)
  PROVE  IInv'
<1> USE DEF IInv
<1>1. PICK g \in [Enlaces -> EnlaceTipo] :
        /\ g = Usados({e}, enlace)
        /\ \A q \in Enlaces :
             /\ g[q].estado = IF q = e THEN "USADO" ELSE enlace[q].estado
             /\ g[q].tipo = enlace[q].tipo /\ g[q].usos = enlace[q].usos
  BY AlUsar DEF TypeOK, EnlaceTipo
<1>2. /\ UNCHANGED <<empresa, sesion, peticion>>
      /\ \/ usuario' = Verificado(usuario) /\ enlace[e].tipo = "CORREO"
              /\ enlace[e].estado = "ACTIVO" /\ enlace' = Usan({e}, g)
         \/ usuario' = usuario /\ enlace' = g
  BY <1>1 DEF Verificar, VenceEnlace, EnUso
<1>3. /\ enlace' \in [Enlaces -> EnlaceTipo]
      /\ \A q \in Enlaces :
           /\ enlace'[q].estado = g[q].estado /\ enlace'[q].tipo = g[q].tipo
           /\ enlace'[q].usos = g[q].usos
                \/ /\ q = e /\ enlace'[q].usos = g[q].usos + 1
                   /\ enlace[e].tipo = "CORREO" /\ enlace[e].estado = "ACTIVO"
  <2>1. CASE enlace' = g
    BY <2>1
  <2>2. CASE /\ enlace' = Usan({e}, g)
             /\ enlace[e].tipo = "CORREO" /\ enlace[e].estado = "ACTIVO"
    BY <2>2, AlContar
  <2> QED
    BY <1>2, <2>1, <2>2
<1>4. /\ usuario' \in [activo : BOOLEAN, eliminado : BOOLEAN,
                       verificado : BOOLEAN, fallos : Nat,
                       bloqueo : {"NO", "VIGENTE", "VENCIDO"}]
      /\ usuario'.fallos = usuario.fallos
      /\ usuario'.bloqueo = usuario.bloqueo
  BY <1>2, ZenonT(60) DEF TypeOK, Verificado
<1>5. TypeOK'
  BY <1>2, <1>3, <1>4 DEF TypeOK, EnlaceTipo
<1>6. Merma
  BY <1>2 DEF Merma
<1>7. Formada' /\ Retenciones' /\ Canjes' /\ CortesFieles' /\ Intentos'
  BY <1>2, <1>4, <1>5, <1>6, SigueMermando
<1>8. Usos'
  <2>1. ASSUME NEW q \in Enlaces
        PROVE  enlace'[q].usos <= 1
               /\ (enlace'[q].estado # "USADO" => enlace'[q].usos = 0)
    <3>1. enlace[q].usos \in Nat
      BY DEF TypeOK
    <3>2. /\ enlace[q].usos <= 1
          /\ enlace[q].estado # "USADO" => enlace[q].usos = 0
      BY DEF Usos
    <3>3. CASE q = e
      <4>1. enlace'[e].estado = "USADO" /\ g[e].usos = enlace[e].usos
        BY <1>1, <1>3
      <4>2. \/ enlace'[e].usos = enlace[e].usos
            \/ enlace'[e].usos = enlace[e].usos + 1 /\ enlace[e].usos = 0
        BY <3>2, <3>3, <4>1, <1>3
      <4> QED
        BY <3>1, <3>2, <3>3, <4>1, <4>2
    <3>4. CASE q # e
      BY <3>1, <3>2, <3>4, <1>1, <1>3
    <3> QED
      BY <3>3, <3>4
  <2>2. ASSUME NEW s \in Peticiones, peticion'[s].tipo = "RESTABLECER"
        PROVE  /\ enlace'[peticion'[s].id].usos = 0
               /\ enlace'[peticion'[s].id].tipo = "CLAVE"
               /\ enlace'[peticion'[s].id].estado # "LIBRE"
    <3>1. peticion' = peticion /\ peticion[s].id \in Enlaces
      BY <1>2, <2>2 DEF Formada
    <3>2. PICK q \in Enlaces : q = peticion'[s].id
      BY <3>1
    <3>3. enlace[q].usos = 0 /\ enlace[q].tipo = "CLAVE"
          /\ enlace[q].estado # "LIBRE"
      BY <2>2, <3>1, <3>2 DEF Usos
    <3>4. CASE q = e
      BY ZenonT(60), <3>2, <3>3, <3>4, <1>1, <1>3
    <3>5. CASE q # e
      BY ZenonT(60), <3>2, <3>3, <3>5, <1>1, <1>3
    <3> QED
      BY <3>4, <3>5
  <2> QED
    BY <2>1, <2>2 DEF Usos
<1> QED
  BY <1>5, <1>7, <1>8

(* The row of the account, or that of the company, is written alone.        *)
UsuarioTipo ==
  [activo : BOOLEAN, eliminado : BOOLEAN, verificado : BOOLEAN,
   fallos : Nat, bloqueo : {"NO", "VIGENTE", "VENCIDO"}]

Administra ==
  \/ Activar \/ Desactivar \/ Restaurar \/ desbloquear_usuario
  \/ _verificar_email \/ VenceBloqueo
  \/ _set_empresa_status \/ RestaurarEmpresa

LEMMA PasoAdministra ==
  ASSUME IInv, Administra
  PROVE  IInv'
<1> USE DEF IInv, UsuarioTipo
<1>1. UNCHANGED <<sesion, enlace, peticion>>
  BY DEF Administra, Activar, Desactivar, Restaurar, desbloquear_usuario,
         Desbloquear, _verificar_email, EscribeUsuario, VenceBloqueo,
         _set_empresa_status, EscribeEmpresa, RestaurarEmpresa
<1>2. empresa' \in [activa : BOOLEAN, eliminada : BOOLEAN]
  <2>1. CASE _set_empresa_status
    <3>1. PICK a \in BOOLEAN : empresa' = [empresa EXCEPT !.activa = a]
      BY <2>1 DEF _set_empresa_status, EscribeEmpresa
    <3> QED
      BY <3>1 DEF TypeOK
  <2>2. CASE RestaurarEmpresa
    BY <2>2 DEF RestaurarEmpresa
  <2>3. CASE UNCHANGED empresa
    BY <2>3 DEF TypeOK
  <2> QED
    BY <2>1, <2>2, <2>3
    DEF Administra, Activar, Desactivar, Restaurar, desbloquear_usuario,
        Desbloquear, _verificar_email, EscribeUsuario, VenceBloqueo
<1>3. /\ usuario' \in UsuarioTipo
      /\ \/ usuario'.fallos = usuario.fallos
              /\ usuario'.bloqueo = usuario.bloqueo
         \/ usuario'.fallos = 0 /\ usuario'.bloqueo = "NO"
         \/ usuario.bloqueo = "VIGENTE" /\ usuario'.bloqueo = "VENCIDO"
              /\ usuario'.fallos = usuario.fallos
  <2>1. CASE Activar \/ Desactivar \/ _verificar_email
    BY ZenonT(60), <2>1 DEF Activar, Desactivar, _verificar_email, Verificado,
                EscribeUsuario, TypeOK
  <2>2. CASE Restaurar
    <3>1. PICK u \in UsuarioTipo : u = [usuario EXCEPT !.activo = FALSE]
      BY DEF TypeOK
    <3>2. usuario' = [u EXCEPT !.eliminado = FALSE]
      BY <2>2, <3>1 DEF Restaurar, EscribeUsuario
    <3> QED
      BY <3>1, <3>2 DEF TypeOK
  <2>3. CASE desbloquear_usuario
    <3>1. usuario' = SinFallos(usuario)
      BY <2>3 DEF desbloquear_usuario, Desbloquear, EscribeUsuario
    <3> QED
      BY <3>1 DEF SinFallos, TypeOK
  <2>4. CASE VenceBloqueo
    BY <2>4 DEF VenceBloqueo, Bloqueada, TypeOK
  <2>5. CASE _set_empresa_status \/ RestaurarEmpresa
    BY <2>5 DEF _set_empresa_status, EscribeEmpresa, RestaurarEmpresa, TypeOK
  <2> QED
    BY <2>1, <2>2, <2>3, <2>4, <2>5 DEF Administra
<1>4. TypeOK'
  BY <1>1, <1>2, <1>3 DEF TypeOK
<1>5. Merma
  BY <1>1 DEF Merma
<1>6. /\ Formada' /\ Retenciones' /\ Canjes' /\ CortesFieles' /\ Usos'
      /\ usuario'.fallos = usuario.fallos
           /\ usuario'.bloqueo = usuario.bloqueo => Intentos'
  BY <1>1, <1>4, <1>5, SigueMermando
<1>7. Intentos'
  <2>1. usuario.fallos \in Nat
    BY DEF TypeOK
  <2> QED
    BY <1>3, <1>6, <2>1, FallandoFinito, MaxIntentosPositivo DEF Intentos
<1> QED
  BY <1>4, <1>6, <1>7

----------------------------------------------------------------------------
(* Every step of every handler is one of those above. *)
LEMMA PorPasos ==
  ASSUME Next
  PROVE  \/ \E r \in Peticiones :
              \/ Lectura(r) \/ Ordena(r) \/ OrdenaConsola(r)
              \/ EscribeFallo(r) \/ EscribeCorte(r) \/ Revierte(r)
              \/ \E t \in Tokens : EscribeEntrar(r, t) \/ EscribeRenovar(r, t)
              \/ peticion[r].id \in {"CLAVE", "CORREO"}
                   /\ \E e \in Enlaces : EscribePedir(r, e)
         \/ \E t \in Tokens : Salir(t) \/ VenceToken(t)
         \/ \E e \in Enlaces : Verificar(e) \/ VenceEnlace(e)
         \/ Administra
<1>1. CASE \E r \in Peticiones : Handler(r) \/ Revierte(r)
  BY <1>1 DEF Handler, login_user, refresh_token, forgot_password,
       resend_email_verification, Pide, cambiar_password_usuario,
       change_password, _cambiar_password, reset_password, eliminar_usuario,
       delete_empresa, Corta, Lectura
<1>2. CASE UnPaso
  BY <1>2 DEF UnPaso, logout_user, verify_email, Administra
<1>3. CASE Reloj
  BY <1>3 DEF Reloj, Administra
<1> QED
  BY <1>1, <1>2, <1>3 DEF Next

LEMMA Paso == IInv /\ [Next]_vars => IInv'
<1> SUFFICES ASSUME IInv, [Next]_vars PROVE IInv'
  OBVIOUS
<1>1. CASE Next
  BY <1>1, PorPasos, PasoLee, PasoOrdena, PasoFallo, PasoCorte, PasoRevierte,
     PasoEntrar, PasoRenovar, PasoPedir, PasoCierra, PasoEnlace, PasoAdministra
<1>2. CASE UNCHANGED vars
  <2>1. UNCHANGED <<empresa, usuario, sesion, enlace, peticion>>
    BY <1>2 DEF vars
  <2> QED
    BY <2>1 DEF IInv, TypeOK, Formada, Retenciones, Canjes, Usos, CortesFieles,
                Intentos, Activas, Ordenadas, Fallando
<1> QED
  BY <1>1, <1>2

----------------------------------------------------------------------------
(* The inductive invariant holds in every reachable state.                  *)
THEOREM Invariante == Spec => []IInv
BY AlEmpezar, Paso, PTL DEF Spec

(* The rows and the requests are of their types, however many there are.    *)
THEOREM Tipos == Spec => []TypeOK
<1>1. IInv => TypeOK
  BY DEF IInv
<1> QED
  BY <1>1, Invariante, PTL

(* A refresh token is exchanged and a link does its work at most once, for  *)
(* any number of requests that present them together (refresh and           *)
(* reset_password lock the row FOR UPDATE and find it still usable).        *)
THEOREM CadaUnoUnaVez == Spec => []DeUnUso
<1>1. IInv => DeUnUso
  BY DEF IInv, Canjes, Usos, DeUnUso, RotacionUnica, EnlaceDeUnUso
<1> QED
  BY <1>1, Invariante, PTL

(* A session that was open before a mass revocation committed, and outlives *)
(* it, comes from a request that overlapped it (revoke_all_refresh_tokens). *)
THEOREM TodasCortadas == Spec => []SesionesCortadas
<1>1. IInv => SesionesCortadas
  BY DEF IInv, CortesFieles, SesionesCortadas, Activas
<1> QED
  BY <1>1, Invariante, PTL

(* MaxIntentos failures lock the account, and never more than the requests  *)
(* that had passed the check are counted beyond (record_failed_login).      *)
THEOREM IntentosContados == Spec => []IntentosAcotados
<1>1. IInv => IntentosAcotados
  <2> SUFFICES ASSUME IInv PROVE IntentosAcotados
    OBVIOUS
  <2>1. usuario.fallos \in Nat
        /\ usuario.bloqueo \in {"NO", "VIGENTE", "VENCIDO"}
    BY DEF IInv, TypeOK
  <2> QED
    BY <2>1, FallandoFinito, MaxIntentosPositivo
    DEF IInv, Intentos, IntentosAcotados
<1> QED
  BY <1>1, Invariante, PTL
=============================================================================
