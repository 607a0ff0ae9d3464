--------------------------- MODULE CuentasProofs ---------------------------
(***************************************************************************)
(* Proofs about Cuentas, and about the four modules MCConfiguracion sums:  *)
(* Nomina, Permisos (A), Requisitos (R) and Catalogos (K).  For any number *)
(* of accounts and of requests in flight and any limit of the plan.        *)
(*                                                                         *)
(* What a request that takes an administrator away counted is still true   *)
(* when it commits unless pasada says that administrators, or the roles    *)
(* that make one, changed meanwhile (Contados).  What the requests that    *)
(* passed require_user_capacity may still add is bounded by the slots      *)
(* (Capacidad).  The invariant of each of the other four is introduced     *)
(* where its part begins.                                                  *)
(***************************************************************************)
EXTENDS Cuentas, MCConfiguracion, FiniteSetTheorems, TLAPS

----------------------------------------------------------------------------
(* The inductive invariant. *)

(* Each request names what its kind needs; an account being created is not  *)
(* there yet, and one being deleted is.                                     *)
Formada ==
  \A r \in Peticiones : LET p == peticion[r] IN
    /\ p.tipo = "LIBRE" => p = Libre
    /\ p.tipo = "CREAR" => p.roles # {} /\ usuario[p.u].estado = "LIBRE"
    /\ p.tipo \in {"ROLES", "CAMBIO"} => p.roles # {}
    /\ p.tipo = "ELIMINAR" => usuario[p.u].estado # "LIBRE"

(* No account is created twice.                                             *)
Altas ==
  \A r, s \in Peticiones :
    r # s /\ EnVuelo(r, "CREAR") /\ EnVuelo(s, "CREAR")
    => peticion[r].u # peticion[s].u

(* What a request about to take an administrator away counted.              *)
Contados ==
  \A r \in Peticiones : LET p == peticion[r] IN
    ~ p.pasada =>
      /\ p.tipo \in {"DESACTIVAR", "ELIMINAR"} /\ Admins # {}
           => Admins \ {p.u} # {}
      /\ p.tipo \in {"ROLES", "CAMBIO"} /\ p.u \in Admins
           /\ ~ role_ids_include_admin(p.roles)
           => Admins \ {p.u} # {}

(* The requests that passed the limit and have not committed.               *)
Sumando == {r \in Peticiones : peticion[r].tipo \in {"CREAR", "ACTIVAR"}}
Capacidad ==
  Cardinality(Activos) + Cardinality(Sumando)
    < MaxUsuarios + Cardinality(Peticiones)

IInv ==
  /\ TypeOK
  /\ Formada
  /\ Altas
  /\ Contados
  /\ Capacidad

----------------------------------------------------------------------------
(* The rows and the requests. *)

Tipo ==
  {"LIBRE", "CREAR", "ACTIVAR", "DESACTIVAR", "ELIMINAR", "ROLES", "CAMBIO"}
PeticionTipo ==
  [tipo : Tipo, u : Usuarios, roles : SUBSET Roles, nuevas : SUBSET Roles,
   pasada : BOOLEAN]
Estado == {"LIBRE", "ACTIVO", "INACTIVO", "ELIMINADO"}
CuentaTipo == [estado : Estado, roles : SUBSET Roles]

LEMMA LibreTipo == Libre \in PeticionTipo
BY FundadorEsUsuario DEF Libre, PeticionTipo, Tipo

(* The request that a reading step puts in flight.                          *)
Pedida(tipo, u, roles) == [Libre EXCEPT !.tipo = tipo, !.u = u, !.roles = roles]

LEMMA PedidaTipo ==
  ASSUME NEW tipo \in Tipo, NEW u \in Usuarios, NEW roles \in SUBSET Roles
  PROVE  /\ Pedida(tipo, u, roles) \in PeticionTipo
         /\ Pedida(tipo, u, roles).tipo = tipo
         /\ Pedida(tipo, u, roles).u = u
         /\ Pedida(tipo, u, roles).roles = roles
         /\ ~ Pedida(tipo, u, roles).pasada
<1> USE DEF PeticionTipo
<1>1. PICK a \in PeticionTipo : a = [Libre EXCEPT !.tipo = tipo]
  BY LibreTipo
<1>2. PICK b \in PeticionTipo : b = [a EXCEPT !.u = u]
  OBVIOUS
<1>3. PICK m \in PeticionTipo : m = [b EXCEPT !.roles = roles]
  OBVIOUS
<1>4. m.tipo = tipo /\ m.u = u /\ m.roles = roles /\ m.pasada = FALSE
  BY <1>1, <1>2, <1>3, LibreTipo DEF Libre
<1>5. m = Pedida(tipo, u, roles)
  BY <1>1, <1>2, <1>3 DEF Pedida
<1> QED
  BY <1>4, <1>5

(* What a commit does to the requests left in flight.                       *)
LEMMA AlEnvejecer ==
  ASSUME NEW pets \in [Peticiones -> PeticionTipo], Envejece(pets)
  PROVE  /\ peticion' \in [Peticiones -> PeticionTipo]
         /\ \A q \in Peticiones :
              /\ peticion'[q].tipo = pets[q].tipo
              /\ peticion'[q].u = pets[q].u
              /\ peticion'[q].roles = pets[q].roles
              /\ peticion'[q].nuevas = pets[q].nuevas
              /\ \/ /\ Admins' = Admins /\ DeAdmin' = DeAdmin
                    /\ peticion'[q].pasada = pets[q].pasada
                 \/ peticion'[q].pasada = Retira(pets[q])
              /\ pets[q] = Libre => peticion'[q] = Libre
<1> DEFINE n(q) == [pets[q] EXCEPT !.pasada = Retira(pets[q])]
<1>1. ASSUME NEW q \in Peticiones
      PROVE  /\ n(q) \in PeticionTipo
             /\ n(q).tipo = pets[q].tipo /\ n(q).u = pets[q].u
             /\ n(q).roles = pets[q].roles /\ n(q).nuevas = pets[q].nuevas
             /\ n(q).pasada = Retira(pets[q])
  <2> PICK p \in PeticionTipo : p = pets[q]
    OBVIOUS
  <2>1. PICK v : v = Retira(pets[q])
    OBVIOUS
  <2>3. v = TRUE \/ v = FALSE
    BY <2>1 DEF Retira
  <2>2. PICK m : m = [p EXCEPT !.pasada = v]
    OBVIOUS
  <2> QED
    BY <2>1, <2>2, <2>3 DEF PeticionTipo
<1>2. ASSUME NEW q \in Peticiones, pets[q] = Libre
      PROVE  n(q) = Libre
  <2>1. Retira(Libre) = FALSE
    BY DEF Retira, Libre
  <2>2. PICK m \in PeticionTipo : m = n(q)
    BY <1>1
  <2>3. /\ m.tipo = "LIBRE" /\ m.u = Fundador /\ m.roles = {}
        /\ m.nuevas = {} /\ m.pasada = FALSE
    BY <1>1, <1>2, <2>1, <2>2 DEF Libre
  <2>4. m = [tipo |-> "LIBRE", u |-> Fundador, roles |-> {}, nuevas |-> {},
             pasada |-> FALSE]
    BY <2>3 DEF PeticionTipo
  <2> QED
    BY <2>2, <2>4 DEF Libre
<1>3. CASE Admins' = Admins /\ DeAdmin' = DeAdmin
  BY <1>3 DEF Envejece
<1>4. CASE ~ (Admins' = Admins /\ DeAdmin' = DeAdmin)
  <2>1. peticion' = [q \in Peticiones |-> n(q)]
    BY <1>4 DEF Envejece
  <2> HIDE DEF n
  <2> QED
    BY <1>1, <1>2, <2>1
<1> QED
  BY <1>3, <1>4

LEMMA AlTerminar ==
  ASSUME TypeOK, NEW r \in Peticiones
  PROVE  /\ [peticion EXCEPT ![r] = Libre] \in [Peticiones -> PeticionTipo]
         /\ \A q \in Peticiones : [peticion EXCEPT ![r] = Libre][q] =
              IF q = r THEN Libre ELSE peticion[q]
BY LibreTipo DEF TypeOK, PeticionTipo, Tipo

(* The state of one account is written.                                     *)
LEMMA AlPoner ==
  ASSUME TypeOK, NEW u \in Usuarios, NEW e \in Estado,
         usuario' = [usuario EXCEPT ![u].estado = e]
  PROVE  /\ usuario' \in [Usuarios -> CuentaTipo]
         /\ \A x \in Usuarios :
              /\ usuario'[x].roles = usuario[x].roles
              /\ usuario'[x].estado = IF x = u THEN e ELSE usuario[x].estado
BY DEF TypeOK, CuentaTipo, Estado

----------------------------------------------------------------------------
(* The steps after which each request in flight is the one it was, or has   *)
(* ended, and knows whether the administrators changed.                     *)
Siguen ==
  \A q \in Peticiones :
    \/ peticion'[q] = Libre
    \/ /\ peticion'[q].tipo = peticion[q].tipo
       /\ peticion'[q].u = peticion[q].u
       /\ peticion'[q].roles = peticion[q].roles
       /\ \/ /\ Admins' = Admins /\ DeAdmin' = DeAdmin
             /\ peticion'[q].pasada = peticion[q].pasada
          \/ peticion'[q].pasada = Retira(peticion[q])

(* An account being created is not there, one being deleted is.             *)
Presentes ==
  \A q \in Peticiones : peticion'[q] # Libre =>
    /\ EnVuelo(q, "CREAR") => usuario'[peticion[q].u].estado = "LIBRE"
    /\ EnVuelo(q, "ELIMINAR") => usuario'[peticion[q].u].estado # "LIBRE"

LEMMA AlSeguir ==
  ASSUME IInv, Siguen, Presentes,
         \A q \in Peticiones : peticion[q] = Libre => peticion'[q] = Libre
  PROVE  Formada' /\ Altas' /\ Contados' /\ Sumando' \subseteq Sumando
<1> USE DEF IInv
<1>1. ASSUME NEW r \in Peticiones
      PROVE  LET p == peticion'[r] IN
             /\ p.tipo = "LIBRE" => p = Libre
             /\ p.tipo = "CREAR"
                  => p.roles # {} /\ usuario'[p.u].estado = "LIBRE"
             /\ p.tipo \in {"ROLES", "CAMBIO"} => p.roles # {}
             /\ p.tipo = "ELIMINAR" => usuario'[p.u].estado # "LIBRE"
  <2>1. CASE peticion'[r] = Libre
    BY <2>1 DEF Libre
  <2>2. CASE peticion'[r] # Libre
    BY <2>2 DEF Siguen, Presentes, Formada, EnVuelo
  <2> QED
    BY <2>1, <2>2
<1>2. Altas' /\ Sumando' \subseteq Sumando
  BY DEF Siguen, Altas, Sumando, EnVuelo, Libre
<1>3. Contados'
  <2>1. ASSUME NEW r \in Peticiones, peticion'[r] = Libre
        PROVE  peticion'[r].tipo = "LIBRE"
    BY <2>1 DEF Libre
  <2>2. ASSUME NEW r \in Peticiones, peticion'[r] # Libre
        PROVE  /\ peticion'[r].tipo = peticion[r].tipo
               /\ peticion'[r].u = peticion[r].u
               /\ peticion'[r].roles = peticion[r].roles
               /\ \/ /\ Admins' = Admins /\ DeAdmin' = DeAdmin
                     /\ peticion'[r].pasada = peticion[r].pasada
                  \/ peticion'[r].pasada = TRUE
                  \/ peticion[r].tipo \notin {"DESACTIVAR", "ELIMINAR", "ROLES",
                                             "CAMBIO"}
    BY <2>2 DEF Siguen, Retira
  <2> QED
    BY <2>1, <2>2 DEF Contados, role_ids_include_admin
<1>4. Formada'
  BY <1>1 DEF Formada
<1> QED
  BY <1>2, <1>3, <1>4

----------------------------------------------------------------------------
(* The limit of the plan. *)

LEMMA Finitos ==
  /\ IsFiniteSet(Activos) /\ Cardinality(Activos) \in Nat
  /\ IsFiniteSet(Sumando) /\ Cardinality(Sumando) \in Nat
  /\ Cardinality(Sumando) <= Cardinality(Peticiones)
  /\ IsFiniteSet(Admins) /\ Cardinality(Admins) \in Nat
  /\ Cardinality(Peticiones) \in Nat /\ Cardinality(Peticiones) # 0
<1>1. Activos \subseteq Usuarios /\ Sumando \subseteq Peticiones
      /\ Admins \subseteq Usuarios
  BY DEF Activos, Sumando, Admins
<1> QED
  BY <1>1, UsuariosFinitos, HayPeticiones, FS_Subset, FS_CardinalityType,
     FS_EmptySet

(* No account becomes active and no request passes the limit.               *)
LEMMA NadieSuma ==
  ASSUME Capacidad, Activos' \subseteq Activos, Sumando' \subseteq Sumando
  PROVE  Capacidad'
<1>1. /\ Cardinality(Activos') \in Nat /\ Cardinality(Sumando') \in Nat
      /\ Cardinality(Activos') <= Cardinality(Activos)
      /\ Cardinality(Sumando') <= Cardinality(Sumando)
  BY Finitos, FS_Subset, FS_CardinalityType
<1> QED
  BY <1>1, Finitos, MaxUsuariosPositivo DEF Capacidad

(* One that passed it turns its account on.                                 *)
LEMMA UnoSuma ==
  ASSUME Capacidad, NEW r \in Sumando, NEW u,
         Activos' \subseteq Activos \cup {u}, Sumando' \subseteq Sumando \ {r}
  PROVE  Capacidad'
<1>1. /\ Cardinality(Activos') \in Nat
      /\ Cardinality(Activos') <= Cardinality(Activos) + 1
  <2>1. /\ IsFiniteSet(Activos \cup {u})
        /\ Cardinality(Activos \cup {u}) <= Cardinality(Activos) + 1
        /\ Cardinality(Activos \cup {u}) \in Nat
    <3>1. /\ IsFiniteSet(Activos \cup {u})
          /\ \/ Cardinality(Activos \cup {u}) = Cardinality(Activos)
             \/ Cardinality(Activos \cup {u}) = Cardinality(Activos) + 1
      BY Finitos, FS_AddElement
    <3> QED
      BY <3>1, Finitos
  <2>2. IsFiniteSet(Activos') /\ Cardinality(Activos') \in Nat
        /\ Cardinality(Activos') <= Cardinality(Activos \cup {u})
    BY <2>1, FS_Subset, FS_CardinalityType
  <2> QED
    BY <2>1, <2>2, Finitos
<1>2. /\ Cardinality(Sumando') \in Nat
      /\ Cardinality(Sumando') <= Cardinality(Sumando) - 1
  <2>1. /\ IsFiniteSet(Sumando \ {r})
        /\ Cardinality(Sumando \ {r}) = Cardinality(Sumando) - 1
    BY Finitos, FS_RemoveElement
  <2>2. IsFiniteSet(Sumando') /\ Cardinality(Sumando') \in Nat
        /\ Cardinality(Sumando') <= Cardinality(Sumando \ {r})
    BY <2>1, FS_Subset, FS_CardinalityType
  <2> QED
    BY <2>1, <2>2
<1> QED
  BY <1>1, <1>2, Finitos, MaxUsuariosPositivo DEF Capacidad

(* What the requests in flight become: pets, once the commit ages them.     *)
LEMMA SiguenAlEnvejecer ==
  ASSUME TypeOK, NEW pets \in [Peticiones -> PeticionTipo], Envejece(pets),
         \A q \in Peticiones :
           \/ pets[q] = Libre
           \/ /\ pets[q].tipo = peticion[q].tipo
              /\ pets[q].u = peticion[q].u
              /\ pets[q].roles = peticion[q].roles
              /\ pets[q].pasada = peticion[q].pasada,
         \A q \in Peticiones : peticion[q] = Libre => pets[q] = Libre
  PROVE  /\ Siguen
         /\ peticion' \in [Peticiones -> PeticionTipo]
         /\ \A q \in Peticiones : pets[q] = Libre => peticion'[q] = Libre
         /\ \A q \in Peticiones : peticion'[q].tipo = pets[q].tipo
         /\ \A q \in Peticiones : peticion[q] = Libre => peticion'[q] = Libre
<1>1. \A q \in Peticiones :
        /\ peticion'[q].tipo = pets[q].tipo
        /\ peticion'[q].u = pets[q].u
        /\ peticion'[q].roles = pets[q].roles
        /\ \/ /\ Admins' = Admins /\ DeAdmin' = DeAdmin
              /\ peticion'[q].pasada = pets[q].pasada
           \/ peticion'[q].pasada = Retira(pets[q])
        /\ pets[q] = Libre => peticion'[q] = Libre
  BY AlEnvejecer
<1>2. Siguen
  BY <1>1 DEF Siguen, Retira
<1> QED
  BY <1>1, <1>2, AlEnvejecer

LEMMA SiguenAlTerminar ==
  ASSUME TypeOK, NEW r \in Peticiones, Termina(r)
  PROVE  /\ Siguen
         /\ peticion' \in [Peticiones -> PeticionTipo]
         /\ peticion'[r] = Libre
         /\ \A q \in Peticiones :
              q # r => peticion'[q].tipo = peticion[q].tipo
         /\ \A q \in Peticiones : peticion[q] = Libre => peticion'[q] = Libre
<1> DEFINE pets == [peticion EXCEPT ![r] = Libre]
<1>1. pets \in [Peticiones -> PeticionTipo]
      /\ \A q \in Peticiones : pets[q] = IF q = r THEN Libre ELSE peticion[q]
  BY AlTerminar
<1>2. Envejece(pets)
  BY DEF Termina
<1> HIDE DEF pets
<1> QED
  BY <1>1, <1>2, SiguenAlEnvejecer

LEMMA SiguenTodas ==
  ASSUME TypeOK, Envejece(peticion)
  PROVE  /\ Siguen
         /\ peticion' \in [Peticiones -> PeticionTipo]
         /\ \A q \in Peticiones : peticion'[q].tipo = peticion[q].tipo
         /\ \A q \in Peticiones : peticion[q] = Libre => peticion'[q] = Libre
<1>1. peticion \in [Peticiones -> PeticionTipo]
  BY DEF TypeOK, PeticionTipo, Tipo
<1> QED
  BY <1>1, SiguenAlEnvejecer

LEMMA SiguenAlCambiar ==
  ASSUME TypeOK, NEW r \in Peticiones, Envejece(SinBorrar(r))
  PROVE  /\ Siguen
         /\ peticion' \in [Peticiones -> PeticionTipo]
         /\ peticion'[r] = Libre
         /\ \A q \in Peticiones :
              q # r => peticion'[q].tipo = peticion[q].tipo
         /\ \A q \in Peticiones : peticion[q] = Libre => peticion'[q] = Libre
<1> DEFINE otras(q) == IF EnVuelo(q, "CAMBIO") /\ peticion[q].u = peticion[r].u
                       THEN peticion[q].nuevas \cup peticion[r].roles
                       ELSE peticion[q].nuevas
           n(q) == [peticion[q] EXCEPT !.nuevas = otras(q)]
<1>1. peticion \in [Peticiones -> PeticionTipo]
  BY DEF TypeOK, PeticionTipo, Tipo
<1>2. ASSUME NEW q \in Peticiones
      PROVE  /\ n(q) \in PeticionTipo
             /\ n(q).tipo = peticion[q].tipo /\ n(q).u = peticion[q].u
             /\ n(q).roles = peticion[q].roles
             /\ n(q).pasada = peticion[q].pasada /\ n(q).nuevas = otras(q)
  <2> PICK p \in PeticionTipo : p = peticion[q]
    BY <1>1
  <2>1. PICK v \in SUBSET Roles : v = otras(q)
    BY <1>1 DEF PeticionTipo
  <2>2. PICK m : m = [p EXCEPT !.nuevas = v]
    OBVIOUS
  <2>3. m = n(q)
    BY <2>1, <2>2
  <2> HIDE DEF otras, n
  <2> QED
    BY <2>1, <2>2, <2>3 DEF PeticionTipo
<1>3. ASSUME NEW q \in Peticiones, peticion[q] = Libre
      PROVE  n(q) = Libre
  <2>1. otras(q) = {}
    BY <1>3 DEF Libre, EnVuelo
  <2>2. PICK m \in PeticionTipo : m = n(q)
    BY <1>2
  <2>3. /\ m.tipo = "LIBRE" /\ m.u = Fundador /\ m.roles = {}
        /\ m.nuevas = {} /\ m.pasada = FALSE
    BY <1>2, <1>3, <2>1, <2>2 DEF Libre
  <2>4. m = [tipo |-> "LIBRE", u |-> Fundador, roles |-> {}, nuevas |-> {},
             pasada |-> FALSE]
    BY <2>3 DEF PeticionTipo
  <2> QED
    BY <2>2, <2>4 DEF Libre
<1>4. SinBorrar(r) = [q \in Peticiones |-> IF q = r THEN Libre ELSE n(q)]
  BY DEF SinBorrar
<1> HIDE DEF n, otras
<1>5. /\ SinBorrar(r) \in [Peticiones -> PeticionTipo]
      /\ \A q \in Peticiones :
           SinBorrar(r)[q] = IF q = r THEN Libre ELSE n(q)
  BY <1>2, <1>4, LibreTipo
<1> QED
  BY <1>2, <1>3, <1>5, SiguenAlEnvejecer

----------------------------------------------------------------------------
(* Every initial state satisfies the invariant.                             *)
LEMMA AlEmpezar == Init => IInv
<1> SUFFICES ASSUME Init PROVE IInv
  OBVIOUS
<1>1. \A r \in Peticiones : peticion[r] = Libre
  BY DEF Init
<1>2. TypeOK
  BY LibreTipo DEF Init, TypeOK, PeticionTipo, Tipo, Roles
<1>3. Formada /\ Altas /\ Contados
  <2>1. \A r \in Peticiones : peticion[r].tipo = "LIBRE"
    BY <1>1 DEF Libre
  <2> QED
    BY <1>1, <2>1 DEF Formada, Altas, Contados, EnVuelo
<1>4. Capacidad
  <2>1. Activos = {Fundador} /\ Sumando = {}
    BY <1>1, FundadorEsUsuario DEF Init, Activos, Sumando, Libre
  <2>2. Cardinality(Activos) = 1 /\ Cardinality(Sumando) = 0
    BY <2>1, FS_Singleton, FS_EmptySet
  <2> QED
    BY <2>2, Finitos, MaxUsuariosPositivo DEF Capacidad
<1> QED
  BY <1>2, <1>3, <1>4 DEF IInv

----------------------------------------------------------------------------
(* The steps. *)

(* Requests that go on over the same accounts.                              *)
LEMMA PresentesIgual ==
  ASSUME IInv, \A u \in Usuarios :
           usuario'[u].estado = "LIBRE" <=> usuario[u].estado = "LIBRE"
  PROVE  Presentes
<1>1. \A q \in Peticiones : peticion[q].u \in Usuarios
  BY DEF IInv, TypeOK
<1> QED
  BY <1>1 DEF IInv, Formada, Presentes, EnVuelo

(* What each commit has to show.                                            *)
LEMMA PasoQueSigue ==
  ASSUME IInv, Siguen, Presentes, Capacidad',
         peticion' \in [Peticiones -> PeticionTipo],
         \A q \in Peticiones : peticion[q] = Libre => peticion'[q] = Libre,
         usuario' \in [Usuarios -> CuentaTipo],
         \A u \in Usuarios :
           usuario'[u].roles = {} <=> usuario'[u].estado = "LIBRE",
         rol' \in [Roles -> {"LIBRE", "ACTIVO", "INACTIVO"}],
         titulo' \in Roles \cup {"NADIE"}
  PROVE  IInv'
BY AlSeguir DEF IInv, TypeOK, PeticionTipo, Tipo, CuentaTipo, Estado

(* Some reading step of request r.                                          *)
Lectura(r) ==
  \/ \E u \in Usuarios, roles \in Elecciones :
       LeeCrear(r, u, roles) \/ LeeRoles(r, u, roles)
  \/ \E u \in Usuarios :
       LeeActivar(r, u) \/ LeeDesactivar(r, u) \/ LeeEliminar(r, u)

(* What it finds: room in the plan, another administrator.                  *)
LEMMA LecturaFresca ==
  ASSUME NEW r \in Peticiones, Lectura(r)
  PROVE  \E tipo \in Tipo, u \in Usuarios, roles \in SUBSET Roles :
           /\ Empieza(r, tipo, u, roles)
           /\ tipo \in {"CREAR", "ACTIVAR", "DESACTIVAR", "ELIMINAR", "ROLES"}
           /\ tipo \in {"CREAR", "ACTIVAR"} => Cabe
           /\ tipo \in {"CREAR", "ROLES"} => roles # {}
           /\ tipo = "CREAR" =>
                /\ usuario[u].estado = "LIBRE"
                /\ \A q \in Peticiones :
                     EnVuelo(q, "CREAR") => peticion[q].u # u
           /\ tipo = "ELIMINAR" => usuario[u].estado # "LIBRE"
           /\ tipo \in {"DESACTIVAR", "ELIMINAR"} => Quedan(u)
           /\ tipo = "ROLES" /\ u \in Admins
                /\ ~ role_ids_include_admin(roles) => Quedan(u)
<1> USE DEF Tipo, Vive
<1>1. {} \in SUBSET Roles /\ Elecciones \subseteq SUBSET Roles
  BY DEF Elecciones
<1>2. CASE \E u \in Usuarios, roles \in Elecciones : LeeCrear(r, u, roles)
  <2> PICK u \in Usuarios, roles \in Elecciones : LeeCrear(r, u, roles)
    BY <1>2
  <2>1. roles \in SUBSET Roles
    BY <1>1
  <2> WITNESS "CREAR" \in Tipo, u \in Usuarios, roles \in SUBSET Roles
  <2> QED
    BY <1>1 DEF LeeCrear
<1>3. CASE \E u \in Usuarios, roles \in Elecciones : LeeRoles(r, u, roles)
  <2> PICK u \in Usuarios, roles \in Elecciones : LeeRoles(r, u, roles)
    BY <1>3
  <2>1. roles \in SUBSET Roles
    BY <1>1
  <2> WITNESS "ROLES" \in Tipo, u \in Usuarios, roles \in SUBSET Roles
  <2> QED
    BY DEF LeeRoles
<1>4. CASE \E u \in Usuarios : LeeActivar(r, u)
  <2> PICK u \in Usuarios : LeeActivar(r, u)
    BY <1>4
  <2> WITNESS "ACTIVAR" \in Tipo, u \in Usuarios, {} \in SUBSET Roles
  <2> QED
    BY DEF LeeActivar
<1>5. CASE \E u \in Usuarios : LeeDesactivar(r, u)
  <2> PICK u \in Usuarios : LeeDesactivar(r, u)
    BY <1>5
  <2> WITNESS "DESACTIVAR" \in Tipo, u \in Usuarios, {} \in SUBSET Roles
  <2> QED
    BY DEF LeeDesactivar
<1>6. CASE \E u \in Usuarios : LeeEliminar(r, u)
  <2> PICK u \in Usuarios : LeeEliminar(r, u)
    BY <1>6
  <2> WITNESS "ELIMINAR" \in Tipo, u \in Usuarios, {} \in SUBSET Roles
  <2> QED
    BY DEF LeeEliminar
<1> QED
  BY <1>2, <1>3, <1>4, <1>5, <1>6 DEF Lectura

(* With two administrators, without one of them there is another.           *)
LEMMA HayOtro ==
  ASSUME NEW u, Quedan(u), Admins # {}
  PROVE  Admins \ {u} # {}
<1>1. CASE u \in Admins
  <2>1. Cardinality(Admins) > 1
    BY <1>1 DEF Quedan, Admins
  <2>2. Cardinality(Admins \ {u}) = Cardinality(Admins) - 1
    BY <1>1, Finitos, FS_RemoveElement
  <2> QED
    BY <2>1, <2>2, Finitos, FS_EmptySet
<1>2. CASE u \notin Admins
  BY <1>2
<1> QED
  BY <1>1, <1>2

LEMMA PasoLee ==
  ASSUME IInv, NEW r \in Peticiones, Lectura(r)
  PROVE  IInv'
<1> USE DEF IInv
<1>1. PICK tipo \in Tipo, u \in Usuarios, roles \in SUBSET Roles :
        /\ Empieza(r, tipo, u, roles)
        /\ tipo \in {"CREAR", "ACTIVAR", "DESACTIVAR", "ELIMINAR", "ROLES"}
        /\ tipo \in {"CREAR", "ACTIVAR"} => Cabe
        /\ tipo \in {"CREAR", "ROLES"} => roles # {}
        /\ tipo = "CREAR" =>
             /\ usuario[u].estado = "LIBRE"
             /\ \A q \in Peticiones :
                  EnVuelo(q, "CREAR") => peticion[q].u # u
        /\ tipo = "ELIMINAR" => usuario[u].estado # "LIBRE"
        /\ tipo \in {"DESACTIVAR", "ELIMINAR"} => Quedan(u)
        /\ tipo = "ROLES" /\ u \in Admins
             /\ ~ role_ids_include_admin(roles) => Quedan(u)
  BY LecturaFresca
<1>2. PICK m \in PeticionTipo :
        /\ m.tipo = tipo /\ m.u = u /\ m.roles = roles /\ ~ m.pasada
        /\ peticion' \in [Peticiones -> PeticionTipo]
        /\ \A q \in Peticiones : peticion'[q] = IF q = r THEN m ELSE peticion[q]
  <2>1. PICK m : m = Pedida(tipo, u, roles)
    OBVIOUS
  <2>4. /\ Pedida(tipo, u, roles) \in PeticionTipo
        /\ Pedida(tipo, u, roles).tipo = tipo
        /\ Pedida(tipo, u, roles).u = u
        /\ Pedida(tipo, u, roles).roles = roles
    <3>1. tipo \in Tipo /\ u \in Usuarios /\ roles \in SUBSET Roles
      BY <1>1
    <3> QED
      BY <3>1, PedidaTipo
  <2>6. ~ Pedida(tipo, u, roles).pasada
    <3>1. tipo \in Tipo /\ u \in Usuarios /\ roles \in SUBSET Roles
      BY <1>1
    <3> QED
      BY <3>1, PedidaTipo
  <2>5. /\ m \in PeticionTipo
        /\ m.tipo = tipo /\ m.u = u /\ m.roles = roles /\ ~ m.pasada
    BY <2>1, <2>4, <2>6
  <2>2. peticion' = [peticion EXCEPT ![r] = m]
    BY <1>1, <2>1 DEF Empieza, Pedida
  <2>3. peticion \in [Peticiones -> PeticionTipo]
    BY DEF TypeOK, PeticionTipo, Tipo
  <2> QED
    BY <2>5, <2>2, <2>3
<1>3. UNCHANGED <<usuario, rol, titulo>> /\ peticion[r] = Libre
  BY <1>1 DEF Empieza
<1>4. TypeOK'
  BY <1>2, <1>3 DEF TypeOK, PeticionTipo, Tipo
<1>5. Formada' /\ Altas'
  BY <1>1, <1>2, <1>3 DEF Formada, Altas, EnVuelo
<1>6. Admins' = Admins /\ Activos' = Activos /\ DeAdmin' = DeAdmin
  BY <1>3
  DEF Admins, Activos, EsAdmin, role_ids_include_admin, DeAdmin, Vigentes
<1>7. Contados'
  <2>1. ASSUME NEW q \in Peticiones, q # r PROVE peticion'[q] = peticion[q]
    BY <2>1, <1>2
  <2>2. /\ tipo \in {"DESACTIVAR", "ELIMINAR"} /\ Admins # {}
             => Admins \ {u} # {}
        /\ tipo \in {"ROLES", "CAMBIO"} /\ u \in Admins
             /\ ~ role_ids_include_admin(roles)
             => Admins \ {u} # {}
    BY <1>1, HayOtro
  <2> QED
    BY <1>2, <1>6, <2>1, <2>2 DEF Contados, role_ids_include_admin
<1>8. Capacidad'
  <2>1. CASE tipo \in {"CREAR", "ACTIVAR"}
    <3>1. Cardinality(Activos) < MaxUsuarios
      BY <2>1, <1>1 DEF Cabe
    <3>2. /\ Cardinality(Sumando') \in Nat
          /\ Cardinality(Sumando') <= Cardinality(Peticiones)
      <4>1. Sumando' \subseteq Peticiones
        BY DEF Sumando
      <4> QED
        BY <4>1, UsuariosFinitos, FS_Subset, FS_CardinalityType
    <3> QED
      BY <3>1, <3>2, <1>6, Finitos, MaxUsuariosPositivo DEF Capacidad
  <2>2. CASE tipo \notin {"CREAR", "ACTIVAR"}
    <3>1. Sumando' = Sumando
      BY <2>2, <1>2, <1>3 DEF Sumando, Libre
    <3> QED
      BY <3>1, <1>6 DEF Capacidad
  <2> QED
    BY <2>1, <2>2
<1> QED
  BY <1>4, <1>5, <1>7, <1>8

(* The DELETE of a change of roles starts.                                  *)
LEMMA PasoOrdenaRoles ==
  ASSUME IInv, NEW r \in Peticiones, OrdenaRoles(r)
  PROVE  IInv'
<1> USE DEF IInv
<1>1. PICK p \in PeticionTipo : p = peticion[r] /\ p.tipo = "ROLES"
  BY DEF OrdenaRoles, EnVuelo, TypeOK, PeticionTipo, Tipo
<1>2. PICK m : m = [p EXCEPT !.tipo = "CAMBIO"]
  OBVIOUS
<1>3. /\ m \in PeticionTipo /\ m.tipo = "CAMBIO" /\ m.u = p.u
      /\ m.roles = p.roles /\ m.pasada = p.pasada
  BY <1>2 DEF PeticionTipo, Tipo
<1>4. /\ UNCHANGED <<usuario, rol, titulo>>
      /\ peticion' \in [Peticiones -> PeticionTipo]
      /\ \A q \in Peticiones : peticion'[q] = IF q = r THEN m ELSE peticion[q]
  BY <1>1, <1>2, <1>3 DEF OrdenaRoles, TypeOK, PeticionTipo, Tipo
<1>5. TypeOK'
  BY <1>4 DEF TypeOK, PeticionTipo, Tipo
<1>6. Formada' /\ Altas'
  BY <1>1, <1>3, <1>4 DEF Formada, Altas, EnVuelo
<1>7. Admins' = Admins /\ Activos' = Activos /\ DeAdmin' = DeAdmin
  BY <1>4
  DEF Admins, Activos, EsAdmin, role_ids_include_admin, DeAdmin, Vigentes
<1>8. Contados'
  BY <1>1, <1>3, <1>4, <1>7 DEF Contados, role_ids_include_admin
<1>9. Sumando' = Sumando
  BY <1>1, <1>3, <1>4 DEF Sumando
<1> QED
  BY <1>5, <1>6, <1>7, <1>8, <1>9 DEF Capacidad

(* Of the requests over the limit, the one that ends is no longer there.    *)
LEMMA SumandoSigue ==
  ASSUME Siguen
  PROVE  /\ Sumando' \subseteq Sumando
         /\ \A r \in Peticiones :
              peticion'[r] = Libre => Sumando' \subseteq Sumando \ {r}
BY DEF Siguen, Sumando, Libre

LEMMA PasoEscribeCrear ==
  ASSUME IInv, NEW r \in Peticiones, EscribeCrear(r)
  PROVE  IInv'
<1> USE DEF IInv
<1> DEFINE p == peticion[r]
           fila == [estado |-> "ACTIVO", roles |-> p.roles]
<1>1. /\ p \in PeticionTipo /\ p.tipo = "CREAR" /\ p.u \in Usuarios
      /\ p.roles \in SUBSET Roles /\ p.roles # {}
      /\ usuario[p.u].estado = "LIBRE"
  BY DEF EscribeCrear, EnVuelo, TypeOK, PeticionTipo, Tipo, Formada
<1>2. /\ fila \in CuentaTipo /\ fila.estado = "ACTIVO"
      /\ fila.roles = p.roles
  BY <1>1 DEF CuentaTipo, Estado
<1>3. /\ usuario' \in [Usuarios -> CuentaTipo]
      /\ \A x \in Usuarios :
           usuario'[x] = IF x = p.u THEN fila ELSE usuario[x]
  <2>1. usuario \in [Usuarios -> CuentaTipo]
    BY DEF TypeOK, CuentaTipo, Estado
  <2>2. usuario' = [usuario EXCEPT ![p.u] = fila]
    BY DEF EscribeCrear
  <2> HIDE DEF fila, p
  <2> QED
    BY <2>1, <2>2, <1>2
<1>4. /\ Siguen /\ peticion' \in [Peticiones -> PeticionTipo]
      /\ peticion'[r] = Libre
      /\ \A q \in Peticiones : peticion[q] = Libre => peticion'[q] = Libre
  BY SiguenAlTerminar DEF EscribeCrear
<1> HIDE DEF fila
<1>5. Presentes
  <2> SUFFICES ASSUME NEW q \in Peticiones, peticion'[q] # Libre
               PROVE  /\ EnVuelo(q, "CREAR") =>
                           usuario'[peticion[q].u].estado = "LIBRE"
                      /\ EnVuelo(q, "ELIMINAR") =>
                           usuario'[peticion[q].u].estado # "LIBRE"
    BY DEF Presentes
  <2>1. q # r /\ peticion[q].u \in Usuarios
    BY <1>4 DEF TypeOK
  <2>2. EnVuelo(q, "CREAR") => peticion[q].u # p.u
    BY <1>1, <2>1 DEF Altas, EnVuelo
  <2> QED
    BY <1>2, <1>3, <2>1, <2>2 DEF Formada, EnVuelo
<1>6. Capacidad'
  <2>1. Activos' \subseteq Activos \cup {p.u}
    BY <1>3 DEF Activos
  <2>2. r \in Sumando
    BY <1>1 DEF Sumando
  <2> HIDE DEF p
  <2> QED
    BY <1>4, <2>1, <2>2, SumandoSigue, UnoSuma
<1>7. \A x \in Usuarios :
        usuario'[x].roles = {} <=> usuario'[x].estado = "LIBRE"
  BY <1>1, <1>2, <1>3 DEF TypeOK
<1>8. /\ rol' \in [Roles -> {"LIBRE", "ACTIVO", "INACTIVO"}]
      /\ titulo' \in Roles \cup {"NADIE"}
  BY DEF EscribeCrear, TypeOK
<1> QED
  BY <1>3, <1>4, <1>5, <1>6, <1>7, <1>8, PasoQueSigue

(* The state of an account that is there is written.                        *)
LEMMA PasoPone ==
  ASSUME IInv, NEW r \in Peticiones,
         NEW e \in {"ACTIVO", "INACTIVO", "ELIMINADO"}, Pone(r, e),
         peticion[r] # Libre, usuario[peticion[r].u].estado # "LIBRE",
         e = "ACTIVO" => EnVuelo(r, "ACTIVAR")
  PROVE  IInv'
<1> USE DEF IInv
<1>1. PICK u \in Usuarios : u = peticion[r].u
  BY DEF TypeOK
<1>2. /\ usuario' \in [Usuarios -> CuentaTipo]
      /\ \A x \in Usuarios :
           /\ usuario'[x].roles = usuario[x].roles
           /\ usuario'[x].estado = IF x = u THEN e ELSE usuario[x].estado
  <2>1. e \in Estado /\ usuario' = [usuario EXCEPT ![u].estado = e]
    BY <1>1 DEF Pone, Estado
  <2> QED
    BY <2>1, AlPoner
<1>3. /\ Siguen /\ peticion' \in [Peticiones -> PeticionTipo]
      /\ peticion'[r] = Libre
      /\ \A q \in Peticiones : peticion[q] = Libre => peticion'[q] = Libre
  BY SiguenAlTerminar DEF Pone
<1>4. \A x \in Usuarios :
        usuario'[x].estado = "LIBRE" <=> usuario[x].estado = "LIBRE"
  BY <1>1, <1>2
<1>5. Presentes
  BY <1>4, PresentesIgual
<1>6. Capacidad'
  <2>1. CASE e = "ACTIVO"
    <3>1. Activos' \subseteq Activos \cup {u} /\ r \in Sumando
      BY <2>1, <1>1, <1>2 DEF Activos, Sumando, EnVuelo
    <3> QED
      BY <1>3, <3>1, SumandoSigue, UnoSuma
  <2>2. CASE e # "ACTIVO"
    <3>1. Activos' \subseteq Activos
      BY <2>2, <1>2 DEF Activos
    <3> QED
      BY <1>3, <3>1, SumandoSigue, NadieSuma
  <2> QED
    BY <2>1, <2>2
<1>7. \A x \in Usuarios :
        usuario'[x].roles = {} <=> usuario'[x].estado = "LIBRE"
  BY <1>2, <1>4 DEF TypeOK
<1>8. /\ rol' \in [Roles -> {"LIBRE", "ACTIVO", "INACTIVO"}]
      /\ titulo' \in Roles \cup {"NADIE"}
  BY DEF Pone, TypeOK
<1> QED
  BY <1>2, <1>3, <1>5, <1>6, <1>7, <1>8, PasoQueSigue

LEMMA PasoEscribeActivar ==
  ASSUME IInv, NEW r \in Peticiones, EscribeActivar(r)
  PROVE  IInv'
<1>1. Pone(r, "ACTIVO") /\ EnVuelo(r, "ACTIVAR") /\ Vive(peticion[r].u)
  BY DEF EscribeActivar
<1>2. peticion[r] # Libre /\ usuario[peticion[r].u].estado # "LIBRE"
  BY <1>1 DEF EnVuelo, Vive, Libre
<1> QED
  BY <1>1, <1>2, PasoPone

LEMMA PasoEscribeDesactivar ==
  ASSUME IInv, NEW r \in Peticiones, EscribeDesactivar(r)
  PROVE  IInv'
<1>1. Pone(r, "INACTIVO") /\ EnVuelo(r, "DESACTIVAR") /\ Vive(peticion[r].u)
  BY DEF EscribeDesactivar
<1>2. peticion[r] # Libre /\ usuario[peticion[r].u].estado # "LIBRE"
  BY <1>1 DEF EnVuelo, Vive, Libre
<1> QED
  BY <1>1, <1>2, PasoPone

LEMMA PasoEscribeEliminar ==
  ASSUME IInv, NEW r \in Peticiones, EscribeEliminar(r)
  PROVE  IInv'
<1>1. Pone(r, "ELIMINADO") /\ EnVuelo(r, "ELIMINAR")
  BY DEF EscribeEliminar
<1>2. peticion[r] # Libre /\ usuario[peticion[r].u].estado # "LIBRE"
  BY <1>1 DEF EnVuelo, Libre, IInv, Formada
<1> QED
  BY <1>1, <1>2, PasoPone

LEMMA PasoEscribeRoles ==
  ASSUME IInv, NEW r \in Peticiones, EscribeRoles(r)
  PROVE  IInv'
<1> USE DEF IInv
<1>1. PICK p \in PeticionTipo : p = peticion[r]
  BY DEF TypeOK, PeticionTipo, Tipo
<1>2. /\ p.u \in Usuarios /\ p.tipo = "CAMBIO" /\ p.roles # {}
      /\ usuario[p.u].estado # "LIBRE"
      /\ TrasCambio(p) \in SUBSET Roles /\ TrasCambio(p) # {}
  BY <1>1 DEF EscribeRoles, EnVuelo, Vive, Formada, TrasCambio, PeticionTipo
<1>3. /\ usuario' \in [Usuarios -> CuentaTipo]
      /\ \A x \in Usuarios :
           /\ usuario'[x].estado = usuario[x].estado
           /\ usuario'[x].roles =
                IF x = p.u THEN TrasCambio(p) ELSE usuario[x].roles
  <2>1. usuario' = [usuario EXCEPT ![p.u].roles = TrasCambio(p)]
    BY <1>1 DEF EscribeRoles, update_usuario
  <2>2. usuario \in [Usuarios -> CuentaTipo]
    BY DEF TypeOK, CuentaTipo, Estado
  <2> QED
    BY <2>1, <2>2, <1>2 DEF CuentaTipo
<1>4. UNCHANGED <<rol, titulo>> /\ Envejece(SinBorrar(r))
  BY DEF EscribeRoles, update_usuario
<1>5. /\ Siguen /\ peticion' \in [Peticiones -> PeticionTipo]
      /\ \A q \in Peticiones : peticion[q] = Libre => peticion'[q] = Libre
  BY <1>4, SiguenAlCambiar
<1>6. Presentes
  BY <1>3, PresentesIgual
<1>7. Capacidad'
  <2>1. Activos' \subseteq Activos
    BY <1>3 DEF Activos
  <2> QED
    BY <1>5, <2>1, SumandoSigue, NadieSuma
<1>8. \A x \in Usuarios :
        usuario'[x].roles = {} <=> usuario'[x].estado = "LIBRE"
  BY <1>2, <1>3 DEF TypeOK
<1>9. /\ rol' \in [Roles -> {"LIBRE", "ACTIVO", "INACTIVO"}]
      /\ titulo' \in Roles \cup {"NADIE"}
  BY <1>4 DEF TypeOK
<1> QED
  BY <1>3, <1>5, <1>6, <1>7, <1>8, <1>9, PasoQueSigue

LEMMA PasoRevierte ==
  ASSUME IInv, NEW r \in Peticiones, Revierte(r)
  PROVE  IInv'
<1> USE DEF IInv
<1>1. UNCHANGED <<usuario, rol, titulo>>
  BY DEF Revierte
<1>2. /\ Siguen /\ peticion' \in [Peticiones -> PeticionTipo]
      /\ \A q \in Peticiones : peticion[q] = Libre => peticion'[q] = Libre
  BY SiguenAlTerminar DEF Revierte
<1>3. Presentes
  BY <1>1, PresentesIgual
<1>4. Capacidad'
  <2>1. Activos' \subseteq Activos
    BY <1>1 DEF Activos
  <2> QED
    BY <1>2, <2>1, SumandoSigue, NadieSuma
<1>5. /\ usuario' \in [Usuarios -> CuentaTipo]
      /\ \A x \in Usuarios :
           usuario'[x].roles = {} <=> usuario'[x].estado = "LIBRE"
      /\ rol' \in [Roles -> {"LIBRE", "ACTIVO", "INACTIVO"}]
      /\ titulo' \in Roles \cup {"NADIE"}
  BY <1>1 DEF TypeOK, CuentaTipo, Estado
<1> QED
  BY <1>1, <1>2, <1>3, <1>4, <1>5, PasoQueSigue

(* A restored account comes back off: the administrators are the same.      *)
LEMMA PasoRestaurar ==
  ASSUME IInv, NEW u \in Usuarios, RestaurarUsuario(u)
  PROVE  IInv'
<1> USE DEF IInv
<1>1. /\ usuario' \in [Usuarios -> CuentaTipo]
      /\ \A x \in Usuarios :
           /\ usuario'[x].roles = usuario[x].roles
           /\ usuario'[x].estado =
                IF x = u THEN "INACTIVO" ELSE usuario[x].estado
  <2>1. "INACTIVO" \in Estado
    BY DEF Estado
  <2>2. usuario' = [usuario EXCEPT ![u].estado = "INACTIVO"]
    BY DEF RestaurarUsuario
  <2> QED
    BY <2>1, <2>2, AlPoner
<1>2. UNCHANGED <<rol, titulo, peticion>> /\ usuario[u].estado = "ELIMINADO"
  BY DEF RestaurarUsuario
<1>3. Activos' = Activos
  BY <1>1, <1>2 DEF Activos
<1>4. DeAdmin' = DeAdmin /\ Admins' = Admins
  BY <1>1, <1>2, <1>3
  DEF Admins, EsAdmin, role_ids_include_admin, DeAdmin, Vigentes, Activos
<1>5. \A x \in Usuarios :
        usuario'[x].estado = "LIBRE" <=> usuario[x].estado = "LIBRE"
  BY <1>1, <1>2
<1>6. Siguen
  BY <1>2, <1>4 DEF Siguen
<1>7. Presentes
  BY <1>5, PresentesIgual
<1>8. Capacidad'
  BY <1>3, <1>6, SumandoSigue, NadieSuma
<1>9. /\ \A x \in Usuarios :
           usuario'[x].roles = {} <=> usuario'[x].estado = "LIBRE"
      /\ rol' \in [Roles -> {"LIBRE", "ACTIVO", "INACTIVO"}]
      /\ titulo' \in Roles \cup {"NADIE"}
      /\ peticion' \in [Peticiones -> PeticionTipo]
  BY <1>1, <1>2, <1>5 DEF TypeOK, PeticionTipo, Tipo
<1> QED
  BY <1>1, <1>2, <1>6, <1>7, <1>8, <1>9, PasoQueSigue

LEMMA PasoBaja ==
  ASSUME IInv, BajaEmpresa
  PROVE  IInv'
<1> USE DEF IInv
<1>1. /\ usuario' \in [Usuarios -> CuentaTipo]
      /\ \A x \in Usuarios :
           /\ usuario'[x].roles = usuario[x].roles
           /\ usuario'[x].estado =
                IF x \in Activos THEN "INACTIVO" ELSE usuario[x].estado
  <2>1. ASSUME NEW x \in Usuarios
        PROVE  LET n == [usuario[x] EXCEPT !.estado = "INACTIVO"]
               IN  /\ n \in CuentaTipo /\ n.roles = usuario[x].roles
                   /\ n.estado = "INACTIVO"
    BY DEF TypeOK, CuentaTipo, Estado
  <2>2. usuario' = [x \in Usuarios |->
          IF x \in Activos THEN [usuario[x] EXCEPT !.estado = "INACTIVO"]
          ELSE usuario[x]]
    BY DEF BajaEmpresa
  <2>3. \A x \in Usuarios : usuario[x] \in CuentaTipo
    BY DEF TypeOK, CuentaTipo, Estado
  <2> QED
    BY <2>1, <2>2, <2>3
<1>2. UNCHANGED <<rol, titulo>> /\ Envejece(peticion)
  BY DEF BajaEmpresa
<1>3. Activos' \subseteq Activos
  BY <1>1 DEF Activos
<1>4. /\ Siguen /\ peticion' \in [Peticiones -> PeticionTipo]
      /\ \A q \in Peticiones : peticion[q] = Libre => peticion'[q] = Libre
  BY <1>2, SiguenTodas
<1>5. \A x \in Usuarios :
        usuario'[x].estado = "LIBRE" <=> usuario[x].estado = "LIBRE"
  BY <1>1 DEF Activos
<1>6. Presentes
  BY <1>5, PresentesIgual
<1>7. Capacidad'
  BY <1>3, <1>4, SumandoSigue, NadieSuma
<1>8. /\ \A x \in Usuarios :
           usuario'[x].roles = {} <=> usuario'[x].estado = "LIBRE"
      /\ rol' \in [Roles -> {"LIBRE", "ACTIVO", "INACTIVO"}]
      /\ titulo' \in Roles \cup {"NADIE"}
  BY <1>1, <1>2, <1>5 DEF TypeOK
<1> QED
  BY <1>1, <1>4, <1>6, <1>7, <1>8, PasoQueSigue

(* A change of the roles themselves: the accounts are not written.          *)
CambiaRol ==
  \/ \E conTitulo \in BOOLEAN : create_role(conTitulo)
  \/ \E c \in Roles : update_role(c) \/ delete_role(c)

LEMMA PasoRol ==
  ASSUME IInv, CambiaRol
  PROVE  IInv'
<1> USE DEF IInv
<1>1. SoloRoles
  BY DEF CambiaRol, create_role, update_role, Renombra, Habilita, delete_role,
         DeleteRole
<1>2. /\ rol' \in [Roles -> {"LIBRE", "ACTIVO", "INACTIVO"}]
      /\ titulo' \in Roles \cup {"NADIE"}
  <2>1. CASE \E conTitulo \in BOOLEAN : create_role(conTitulo)
    BY <2>1 DEF create_role, CreateRole, DaDeAlta, TypeOK, Roles
  <2>2. CASE \E c \in Roles : Renombra(c)
    BY <2>2 DEF Renombra, TypeOK
  <2>3. CASE \E c \in Roles, estado \in {"ACTIVO", "INACTIVO"} :
               Habilita(c, estado)
    BY <2>3 DEF Habilita, TypeOK
  <2> QED
    BY <2>1, <2>2, <2>3 DEF CambiaRol, update_role, delete_role, DeleteRole
<1>3. usuario' = usuario /\ Envejece(peticion)
  BY <1>1 DEF SoloRoles
<1>4. /\ Siguen /\ peticion' \in [Peticiones -> PeticionTipo]
      /\ \A q \in Peticiones : peticion[q] = Libre => peticion'[q] = Libre
  BY <1>3, SiguenTodas
<1>5. Presentes
  BY <1>3, PresentesIgual
<1>6. Capacidad'
  <2>1. Activos' \subseteq Activos
    BY <1>3 DEF Activos
  <2> QED
    BY <1>4, <2>1, SumandoSigue, NadieSuma
<1>7. /\ usuario' \in [Usuarios -> CuentaTipo]
      /\ \A x \in Usuarios :
           usuario'[x].roles = {} <=> usuario'[x].estado = "LIBRE"
  BY <1>3 DEF TypeOK, CuentaTipo, Estado
<1> QED
  BY <1>2, <1>4, <1>5, <1>6, <1>7, PasoQueSigue

----------------------------------------------------------------------------
(* The steps of Next, one by one. *)

Escritura(r) ==
  \/ EscribeCrear(r) \/ EscribeActivar(r) \/ EscribeDesactivar(r)
  \/ EscribeEliminar(r) \/ EscribeRoles(r) \/ Revierte(r)

LEMMA PorPasos ==
  ASSUME Next
  PROVE  \/ \E r \in Peticiones : Lectura(r) \/ OrdenaRoles(r) \/ Escritura(r)
         \/ (\E u \in Usuarios : RestaurarUsuario(u))
         \/ BajaEmpresa \/ CambiaRol
BY DEF Next, crear_usuario, activar_usuario, desactivar_usuario,
       eliminar_usuario, actualizar_usuario, restaurar_usuario, Lectura,
       Escritura, CambiaRol

LEMMA Paso == IInv /\ [Next]_vars => IInv'
<1> SUFFICES ASSUME IInv, [Next]_vars PROVE IInv'
  OBVIOUS
<1>1. CASE Next
  <2>1. CASE \E r \in Peticiones : Lectura(r)
    BY <2>1, PasoLee
  <2>2. CASE \E r \in Peticiones : OrdenaRoles(r)
    BY <2>2, PasoOrdenaRoles
  <2>3. CASE \E r \in Peticiones : Escritura(r)
    BY <2>3, PasoEscribeCrear, PasoEscribeActivar, PasoEscribeDesactivar,
       PasoEscribeEliminar, PasoEscribeRoles, PasoRevierte DEF Escritura
  <2>4. CASE (\E u \in Usuarios : RestaurarUsuario(u))
             \/ BajaEmpresa \/ CambiaRol
    BY <2>4, PasoRestaurar, PasoBaja, PasoRol
  <2> QED
    BY <1>1, <2>1, <2>2, <2>3, <2>4, PorPasos
<1>2. CASE UNCHANGED vars
  BY <1>2 DEF vars, IInv, TypeOK, Formada, Altas, Contados, Capacidad, EnVuelo,
     Admins, Activos, EsAdmin, role_ids_include_admin, DeAdmin, Vigentes,
     Sumando
<1> QED
  BY <1>1, <1>2

----------------------------------------------------------------------------
(* The inductive invariant holds in every reachable state.                  *)
THEOREM Invariante == Spec => []IInv
BY AlEmpezar, Paso, PTL DEF Spec

(* The rows of usuario, usuario_rol and rol, and the requests, are always   *)
(* of their types, and only an account that is not there has no roles.      *)
THEOREM Tipos == Spec => []TypeOK
<1>1. IInv => TypeOK
  BY DEF IInv
<1> QED
  BY <1>1, Invariante, PTL

(* However many requests cross the check of require_user_capacity, the      *)
(* active accounts exceed plan.max_usuarios by less than the requests in    *)
(* flight.                                                                  *)
THEOREM LimiteAcotado == Spec => []ExcesoAcotado
<1>1. IInv => ExcesoAcotado
  <2> SUFFICES ASSUME IInv PROVE ExcesoAcotado
    OBVIOUS
  <2> QED
    BY Finitos, MaxUsuariosPositivo DEF IInv, Capacidad, ExcesoAcotado
<1> QED
  BY <1>1, Invariante, PTL

----------------------------------------------------------------------------
(* What a commit may do to the administrators and to the roles. *)

(* A request whose kind stays did not commit.                               *)
LEMMA NoConfirma ==
  ASSUME IInv, NEW q \in Peticiones, peticion'[q].tipo = peticion[q].tipo
  PROVE  ~ Confirma(q)
<1>1. Libre.tipo = "LIBRE"
  BY DEF Libre
<1>2. peticion[q].tipo = "LIBRE" => peticion[q] = Libre
  BY DEF IInv, Formada
<1> QED
  BY <1>1, <1>2 DEF Confirma

(* Only a request that writes or gives up commits in a step.                *)
LEMMA QuienConfirma ==
  ASSUME IInv, [Next]_vars, NEW q \in Peticiones, Confirma(q)
  PROVE  Escritura(q)
<1> USE DEF IInv
<1>1. CASE \E r \in Peticiones : Lectura(r) \/ OrdenaRoles(r)
  <2> PICK r \in Peticiones : Lectura(r) \/ OrdenaRoles(r)
    BY <1>1
  <2>1. \/ peticion[r] = Libre /\ \A s \in Peticiones :
             s # r => peticion'[s] = peticion[s]
        \/ OrdenaRoles(r)
    BY DEF Lectura, LeeCrear, LeeRoles, LeeActivar, LeeDesactivar, LeeEliminar,
           Empieza, TypeOK
  <2>2. CASE OrdenaRoles(r)
    <3>1. PICK p \in PeticionTipo : p = peticion[r]
      BY DEF TypeOK, PeticionTipo, Tipo
    <3>2. PICK m : m = [p EXCEPT !.tipo = "CAMBIO"]
      OBVIOUS
    <3>3. m.tipo = "CAMBIO"
      BY <3>2 DEF PeticionTipo
    <3>4. \A s \in Peticiones :
            peticion'[s] = IF s = r THEN m ELSE peticion[s]
      BY <2>2, <3>1, <3>2 DEF OrdenaRoles, TypeOK
    <3> QED
      BY <3>3, <3>4, NoConfirma DEF Confirma, Libre
  <2> QED
    BY <2>1, <2>2 DEF Confirma
<1>2. CASE \E r \in Peticiones : Escritura(r)
  <2> PICK r \in Peticiones : Escritura(r)
    BY <1>2
  <2>1. \A s \in Peticiones : s # r => peticion'[s].tipo = peticion[s].tipo
    <3>1. Termina(r) \/ Envejece(SinBorrar(r))
      BY DEF Escritura, EscribeCrear, EscribeActivar, EscribeDesactivar,
             EscribeEliminar, EscribeRoles, Revierte, Pone
    <3> QED
      BY <3>1, SiguenAlTerminar, SiguenAlCambiar
  <2> QED
    BY <2>1, NoConfirma
<1>3. CASE (\E u \in Usuarios : RestaurarUsuario(u)) \/ UNCHANGED vars
  BY <1>3, NoConfirma DEF RestaurarUsuario, vars
<1>4. CASE BajaEmpresa \/ CambiaRol
  <2>1. Envejece(peticion)
    BY <1>4 DEF BajaEmpresa, CambiaRol, create_role, update_role, Renombra,
       Habilita, delete_role, DeleteRole, SoloRoles
  <2> QED
    BY <2>1, SiguenTodas, NoConfirma
<1> QED
  BY <1>1, <1>2, <1>3, <1>4, PorPasos

UltimoAdminPaso(r) ==
  Confirma(r) /\ Admins # {} /\ Admins' = {} => peticion[r].pasada
RolesPedidosPaso(r) ==
  LET p == peticion[r]
  IN Confirma(r) /\ usuario'[p.u].roles # usuario[p.u].roles
     => usuario'[p.u].roles = p.roles \/ p.nuevas # {}

(* Without the account of the request, the administrators are still there;  *)
(* the account itself too when its state or its roles still say so.         *)
LEMMA AdminsSiguen ==
  ASSUME NEW u, UNCHANGED <<rol, titulo>>,
         \A x \in Usuarios \ {u} : usuario'[x] = usuario[x]
  PROVE  Admins \ {u} \subseteq Admins'
BY DEF Admins, Activos, EsAdmin, role_ids_include_admin, DeAdmin, Vigentes

LEMMA SiempreUltimo ==
  ASSUME IInv, [Next]_vars, NEW r \in Peticiones
  PROVE  UltimoAdminPaso(r)
<1> SUFFICES ASSUME Confirma(r), Admins # {}, Admins' = {},
                    ~ peticion[r].pasada
             PROVE  FALSE
  BY DEF UltimoAdminPaso
<1> USE DEF IInv
<1>1. PICK p \in PeticionTipo : p = peticion[r]
  BY DEF TypeOK, PeticionTipo, Tipo
<1>2. p.u \in Usuarios
  BY DEF PeticionTipo
<1>3. Escritura(r)
  BY QuienConfirma
<1>4. CASE EscribeCrear(r)
  <2>1. p.u \notin Admins
    BY <1>4, <1>1 DEF EscribeCrear, EnVuelo, Formada, Admins, Activos
  <2>2. \A x \in Usuarios \ {p.u} : usuario'[x] = usuario[x]
    BY <1>4, <1>1 DEF EscribeCrear, TypeOK
  <2>3. UNCHANGED <<rol, titulo>>
    BY <1>4 DEF EscribeCrear
  <2> QED
    BY <2>1, <2>2, <2>3, AdminsSiguen
<1>5. ASSUME NEW e \in Estado, Pone(r, e)
      PROVE  /\ Admins \ {p.u} \subseteq Admins'
             /\ e = "ACTIVO" => Admins \subseteq Admins'
  <2>1. /\ \A x \in Usuarios \ {p.u} : usuario'[x] = usuario[x]
        /\ usuario'[p.u].roles = usuario[p.u].roles
        /\ usuario'[p.u].estado = e
        /\ UNCHANGED <<rol, titulo>>
    BY <1>5, <1>1, <1>2 DEF Pone, TypeOK
  <2>2. Admins \ {p.u} \subseteq Admins'
    BY <2>1, AdminsSiguen
  <2> QED
    BY <1>2, <2>1, <2>2
    DEF Admins, Activos, EsAdmin, role_ids_include_admin, DeAdmin, Vigentes
<1>6. CASE EscribeActivar(r)
  <2>1. "ACTIVO" \in Estado /\ Pone(r, "ACTIVO")
    BY <1>6 DEF Estado, EscribeActivar
  <2> QED
    BY <1>5, <2>1
<1>7. CASE EscribeDesactivar(r) \/ EscribeEliminar(r)
  <2>1. \E e \in Estado : Pone(r, e)
    BY <1>7 DEF Estado, EscribeDesactivar, EscribeEliminar
  <2>2. Admins \ {p.u} # {}
    BY <1>1, <1>7 DEF EscribeDesactivar, EscribeEliminar, EnVuelo, Contados
  <2> QED
    BY <1>5, <2>1, <2>2
<1>8. CASE EscribeRoles(r)
  <2>1. /\ UNCHANGED <<rol, titulo>>
        /\ \A x \in Usuarios \ {p.u} : usuario'[x] = usuario[x]
        /\ usuario'[p.u].roles = TrasCambio(p)
        /\ usuario'[p.u].estado = usuario[p.u].estado
    BY <1>8, <1>1, <1>2 DEF EscribeRoles, update_usuario, TypeOK
  <2>2. Admins \ {p.u} \subseteq Admins'
    BY <2>1, AdminsSiguen
  <2>3. p.u \in Admins
    BY <2>2
  <2>4. role_ids_include_admin(p.roles)
    BY <1>1, <1>8, <2>2, <2>3 DEF Contados, EscribeRoles, EnVuelo
  <2>5. p.u \in Admins'
    BY <2>1, <2>3, <2>4 DEF Admins, Activos, EsAdmin, role_ids_include_admin,
       DeAdmin, Vigentes, TrasCambio
  <2> QED
    BY <2>5
<1>9. CASE Revierte(r)
  BY <1>9
  DEF Revierte, Admins, Activos, EsAdmin, role_ids_include_admin, DeAdmin,
      Vigentes
<1> QED
  BY <1>3, <1>4, <1>6, <1>7, <1>8, <1>9 DEF Escritura

LEMMA SiemprePedidos ==
  ASSUME IInv, [Next]_vars, NEW r \in Peticiones
  PROVE  RolesPedidosPaso(r)
<1> SUFFICES ASSUME Confirma(r)
             PROVE  \/ usuario'[peticion[r].u].roles =
                         usuario[peticion[r].u].roles
                    \/ usuario'[peticion[r].u].roles = peticion[r].roles
                    \/ peticion[r].nuevas # {}
  BY DEF RolesPedidosPaso
<1> USE DEF IInv
<1>1. PICK p \in PeticionTipo : p = peticion[r]
  BY DEF TypeOK, PeticionTipo, Tipo
<1>2. p.u \in Usuarios
  BY DEF PeticionTipo
<1>3. Escritura(r)
  BY QuienConfirma
<1>4. CASE EscribeCrear(r)
  BY <1>4, <1>1, <1>2 DEF EscribeCrear, TypeOK
<1>5. CASE \E e \in Estado : Pone(r, e)
  BY <1>5, <1>1, <1>2 DEF Pone, TypeOK
<1>6. CASE EscribeRoles(r)
  <2>1. usuario'[p.u].roles = p.nuevas \cup p.roles
    BY <1>6, <1>1, <1>2 DEF EscribeRoles, update_usuario, TypeOK, TrasCambio
  <2> QED
    BY <1>1, <2>1
<1>7. CASE Revierte(r)
  BY <1>7 DEF Revierte
<1> QED
  BY <1>3, <1>4, <1>5, <1>6, <1>7
  DEF Escritura, EscribeActivar, EscribeDesactivar, EscribeEliminar, Estado

(* No request takes the last administrator away unless the administrators   *)
(* it counted changed before it committed; and a change of roles leaves the *)
(* roles it asked for unless another change of the account crossed it       *)
(* (DesactivarUsuario, EliminarUsuario, ActualizarUsuario, assign_roles).   *)
THEOREM SiempreRolesFirmes == Spec => RolesFirmes
<1>1. IInv /\ [Next]_vars
        => [\A r \in Peticiones : UltimoAdminPaso(r)]_vars
           /\ [\A r \in Peticiones : RolesPedidosPaso(r)]_vars
  BY SiempreUltimo, SiemprePedidos
<1>2. (\A r \in Peticiones : UltimoAdminPaso(r))
      <=> (\A r \in Peticiones :
             Confirma(r) /\ Admins # {} /\ Admins' = {} => peticion[r].pasada)
  BY DEF UltimoAdminPaso
<1>3. (\A r \in Peticiones : RolesPedidosPaso(r))
      <=> (\A r \in Peticiones :
             LET p == peticion[r]
             IN Confirma(r) /\ usuario'[p.u].roles # usuario[p.u].roles
                => usuario'[p.u].roles = p.roles \/ p.nuevas # {})
  BY DEF RolesPedidosPaso
<1> QED
  BY <1>1, <1>2, <1>3, Invariante, PTL
  DEF Spec, RolesFirmes, UltimoAdmin, RolesPedidos

----------------------------------------------------------------------------
(***************************************************************************)
(* Nomina.  The values of a legal parameter never overlap, so that at most *)
(* one of them covers the month: a search for overlaps sees what any other *)
(* registration committed, because the parameter is locked from the search *)
(* to the insert.  A calculation is under way only in a month that is not  *)
(* approved, and the rate it took stays the one in force.                  *)
(***************************************************************************)
TiposNomina ==
  /\ tramite = [p \in Tramites |-> tramite[p]]
  /\ valores \in [Codigos -> SUBSET Vigencia]
  /\ \A c \in Codigos : IsFiniteSet(valores[c])

SinSolapes ==
  \A c \in Codigos : \A i, j \in valores[c] : i # j => ~ Solapa(i, j)

VigenciaSegura(p) ==
  En(p, "valor") =>
    /\ tramite[p].codigo \in Codigos /\ tramite[p].vigencia \in Vigencia
    /\ SinSolape(tramite[p].codigo, tramite[p].vigencia)
    /\ \A q \in Tramites \ {p} :
         En(q, "valor") => tramite[q].codigo # tramite[p].codigo

Calculando(p) == En(p, "reglas") \/ En(p, "tasas")
MesVivo(p) == Calculando(p) => periodo \in {"ABIERTO", "CALCULADO"}

TasaLeida(p) ==
  En(p, "tasas") => HayUno("AFP") /\ tramite[p].tasa = Vigente("AFP")

(* A payslip was calculated with the one rate in force, which is still the  *)
(* only one (the part of TasaUnica that registrations could break).         *)
BoletaConTasa == boleta # NULL => HayUno("AFP")

IInvNomina ==
  /\ TiposNomina /\ SinSolapes /\ BoletaConTasa
  /\ \A p \in Tramites : VigenciaSegura(p) /\ MesVivo(p) /\ TasaLeida(p)

LEMMA AbreNomina == InitNomina => IInvNomina
BY FS_EmptySet DEF InitNomina, IInvNomina, TiposNomina, SinSolapes,
   VigenciaSegura, MesVivo, Calculando, TasaLeida, BoletaConTasa, En, Reposo

(* Two values that cover the month overlap in it.                           *)
LEMMA CubrenElMes ==
  ASSUME TiposNomina, SinSolapes, NEW c \in Codigos
  PROVE  \A i, j \in VigentesLegales(c) : i = j
<1>1. SUFFICES ASSUME NEW i \in VigentesLegales(c),
                      NEW j \in VigentesLegales(c)
               PROVE  Solapa(i, j) /\ i \in valores[c] /\ j \in valores[c]
      BY DEF SinSolapes
<1>2. /\ i \in valores[c] /\ j \in valores[c]
      /\ i.desde <= PrimerDia /\ i.hasta >= UltimoDia
      /\ j.desde <= PrimerDia /\ j.hasta >= UltimoDia
      BY DEF VigentesLegales
<1>3. i \in Vigencia /\ j \in Vigencia
      BY <1>2 DEF TiposNomina
<1>4. /\ i.desde \in Nat /\ i.hasta \in Nat
      /\ j.desde \in Nat /\ j.hasta \in Nat
      BY <1>3, MesConDias DEF Vigencia
<1>5. i.desde <= j.hasta /\ j.desde <= i.hasta
      BY <1>2, <1>4, MesConDias
<1> QED BY <1>2, <1>5 DEF Solapa

LEMMA UnaSola ==
  ASSUME TiposNomina, SinSolapes, NEW c \in Codigos
  PROVE  HayUno(c) <=> VigentesLegales(c) # {}
<1>1. IsFiniteSet(VigentesLegales(c))
      BY FS_Subset DEF TiposNomina, VigentesLegales
<1>2. HayUno(c) <=> \E x : VigentesLegales(c) = {x}
      BY <1>1, FS_Singleton DEF HayUno
<1>3. VigentesLegales(c) # {} => \E x : VigentesLegales(c) = {x}
  <2> SUFFICES ASSUME NEW x \in VigentesLegales(c)
               PROVE  VigentesLegales(c) = {x}
      OBVIOUS
  <2>1. \A i \in VigentesLegales(c) : i = x
        BY CubrenElMes
  <2> QED BY <2>1
<1> QED BY <1>2, <1>3

(* The rate in force stays the only one while values are only added.        *)
LEMMA SigueVigente ==
  ASSUME TiposNomina, SinSolapes, TiposNomina', SinSolapes',
         NEW c \in Codigos, valores[c] \subseteq valores'[c], HayUno(c)
  PROVE  HayUno(c)' /\ Vigente(c)' = Vigente(c)
<1>1. VigentesLegales(c) # {}
      BY UnaSola
<1>2. \A i, j \in VigentesLegales(c)' : i = j
  <2>1. SUFFICES ASSUME NEW i \in VigentesLegales(c)',
                        NEW j \in VigentesLegales(c)'
                 PROVE  Solapa(i, j) /\ i \in valores'[c] /\ j \in valores'[c]
        BY DEF SinSolapes
  <2>2. /\ i \in valores'[c] /\ j \in valores'[c]
        /\ i.desde <= PrimerDia /\ i.hasta >= UltimoDia
        /\ j.desde <= PrimerDia /\ j.hasta >= UltimoDia
        BY DEF VigentesLegales
  <2>3. i \in Vigencia /\ j \in Vigencia
        BY <2>2 DEF TiposNomina
  <2>4. /\ i.desde \in Nat /\ i.hasta \in Nat
        /\ j.desde \in Nat /\ j.hasta \in Nat
        BY <2>3, MesConDias DEF Vigencia
  <2>5. i.desde <= j.hasta /\ j.desde <= i.hasta
        BY <2>2, <2>4, MesConDias
  <2> QED BY <2>2, <2>5 DEF Solapa
<1>3. VigentesLegales(c) \subseteq VigentesLegales(c)'
      BY DEF VigentesLegales
<1>4. VigentesLegales(c)' = VigentesLegales(c)
      BY <1>1, <1>2, <1>3
<1>5. Vigente(c)' = Vigente(c)
      BY <1>4 DEF Vigente
<1> QED BY <1>4, <1>5 DEF HayUno

(* What a step of a request may do to the others and to the values.         *)
LEMMA OtrosIguales ==
  ASSUME TiposNomina, NEW p \in Tramites, NEW m, Pasa(p, m)
  PROVE  /\ tramite'[p] = m
         /\ \A q \in Tramites \ {p} : tramite'[q] = tramite[q]
         /\ tramite' = [q \in Tramites |-> tramite'[q]]
BY DEF TiposNomina, Pasa

(* The values only grow, and by one that overlaps none.                     *)
LEMMA ValoresCrecen ==
  ASSUME IInvNomina, [NextNomina]_varsNomina
  PROVE  /\ TiposNomina' /\ SinSolapes'
         /\ \A c \in Codigos : valores[c] \subseteq valores'[c]
<1>1. ASSUME NEW p \in Tramites, EscribeValor(p)
      PROVE  /\ TiposNomina' /\ SinSolapes'
             /\ \A c \in Codigos : valores[c] \subseteq valores'[c]
  <2> DEFINE m == tramite[p]
             k == m.codigo
             v == m.vigencia
  <2>1. /\ k \in Codigos /\ v \in Vigencia /\ SinSolape(k, v)
        /\ TiposNomina /\ SinSolapes
        BY <1>1 DEF EscribeValor, IInvNomina, VigenciaSegura
  <2>2. /\ valores' = [valores EXCEPT ![k] = @ \cup {v}]
        /\ Pasa(p, Reposo)
        BY <1>1 DEF EscribeValor
  <2>3. /\ valores'[k] = valores[k] \cup {v}
        /\ \A c \in Codigos \ {k} : valores'[c] = valores[c]
        /\ valores' \in [Codigos -> SUBSET Vigencia]
    <3>1. valores \in [Codigos -> SUBSET Vigencia]
          BY <2>1 DEF TiposNomina
    <3> HIDE DEF k, v
    <3> QED BY <2>1, <2>2, <3>1
  <2> HIDE DEF k, v
  <2>4. TiposNomina'
    <3>1. \A c \in Codigos : IsFiniteSet(valores'[c])
          BY <2>1, <2>3, FS_AddElement DEF TiposNomina
    <3> QED BY <2>1, <2>2, <2>3, <3>1, OtrosIguales DEF TiposNomina
  <2>5. \A j \in valores[k] : ~ Solapa(v, j) /\ ~ Solapa(j, v)
        BY <2>1 DEF SinSolape, Solapa
  <2>6. SinSolapes'
    <3>1. SUFFICES ASSUME NEW c \in Codigos, NEW i \in valores'[c],
                          NEW j \in valores'[c], i # j
                   PROVE  ~ Solapa(i, j)
          BY DEF SinSolapes
    <3>2. CASE c # k
          BY <2>1, <2>3, <3>1, <3>2 DEF SinSolapes
    <3>3. CASE c = k
      <4>1. /\ i \in valores[k] \/ i = v
            /\ j \in valores[k] \/ j = v
            BY <2>3, <3>3
      <4>2. i \in valores[k] /\ j \in valores[k] => ~ Solapa(i, j)
            BY <2>1, <3>1 DEF SinSolapes
      <4> QED BY <2>5, <3>1, <4>1, <4>2
    <3> QED BY <3>2, <3>3
  <2> QED BY <2>3, <2>4, <2>6
<1>2. ASSUME UNCHANGED valores,
             \/ UNCHANGED tramite
             \/ \E p \in Tramites : \E m : Pasa(p, m)
      PROVE  /\ TiposNomina' /\ SinSolapes'
             /\ \A c \in Codigos : valores[c] \subseteq valores'[c]
  <2>1. TiposNomina /\ SinSolapes
        BY DEF IInvNomina
  <2>2. tramite' = [q \in Tramites |-> tramite'[q]]
        BY <1>2, <2>1, OtrosIguales DEF TiposNomina
  <2> QED BY <1>2, <2>1, <2>2 DEF TiposNomina, SinSolapes
<1>3. CASE UNCHANGED varsNomina
      BY <1>2, <1>3 DEF varsNomina
<1>4. CASE Abre \/ Aprueba \/ (\E n \in Retenciones : RegistraRetencion(n))
             \/ (\E d \in Datos : RegistraDatos(d))
      BY <1>2, <1>4 DEF Abre, Aprueba, RegistraRetencion, RegistraDatos
<1>5. ASSUME NEW p \in Tramites, NEW c \in Codigos, NEW i \in Vigencia,
             LeeValor(p, c, i)
      PROVE  UNCHANGED valores /\ \E m : Pasa(p, m)
      BY <1>5 DEF LeeValor
<1>6. ASSUME NEW p \in Tramites,
             \/ \E r \in ReglasNuevas : LeeRegla(p, r)
             \/ EscribeRegla(p) \/ LeeReglas(p) \/ LeeTasas(p)
             \/ RevierteTramite(p)
      PROVE  UNCHANGED valores /\ \E m : Pasa(p, m)
      BY <1>6 DEF LeeRegla, EscribeRegla, LeeReglas, LeeTasas,
                  RevierteTramite
<1>7. ASSUME NEW p \in Tramites, NEW base \in Haberes, NEW extra \in Extras,
             EscribeCalculo(p, base, extra)
      PROVE  UNCHANGED valores /\ \E m : Pasa(p, m)
      BY <1>7 DEF EscribeCalculo
<1> QED BY <1>1, <1>2, <1>3, <1>4, <1>5, <1>6, <1>7 DEF NextNomina, Calcular

(* The month while no step of these is taken.                               *)
LEMMA TasasSiguen ==
  ASSUME IInvNomina, [NextNomina]_varsNomina
  PROVE  HayUno("AFP") => HayUno("AFP")' /\ Vigente("AFP")' = Vigente("AFP")
<1>1. "AFP" \in Codigos
      BY DEF Codigos
<1> QED BY <1>1, ValoresCrecen, SigueVigente DEF IInvNomina

(* What the three promises about a request become when it is another's step *)
(* and neither the values nor the month were touched.                       *)
LEMMA TasaAjena ==
  ASSUME IInvNomina, [NextNomina]_varsNomina, NEW q \in Tramites,
         tramite'[q] = tramite[q]
  PROVE  /\ TasaLeida(q)'
         /\ periodo' = periodo => MesVivo(q)'
<1>1. TasaLeida(q) /\ MesVivo(q)
      BY DEF IInvNomina
<1>2. TasaLeida(q)'
      BY <1>1, TasasSiguen DEF TasaLeida, En
<1> QED BY <1>1, <1>2 DEF MesVivo, Calculando, En

LEMMA VigenciaAjena ==
  ASSUME IInvNomina, NEW q \in Tramites, UNCHANGED valores,
         \A r \in Tramites : tramite'[r] = tramite[r] \/ ~ En(r, "valor")'
  PROVE  VigenciaSegura(q)'
<1>1. VigenciaSegura(q)
      BY DEF IInvNomina
<1>2. CASE ~ En(q, "valor")'
      BY <1>2 DEF VigenciaSegura
<1>3. CASE tramite'[q] = tramite[q]
  <2>1. \A r \in Tramites : En(r, "valor")' => tramite'[r] = tramite[r]
        OBVIOUS
  <2> QED BY <1>1, <1>3, <2>1 DEF VigenciaSegura, En, SinSolape
<1> QED BY <1>2, <1>3

(* Every step but a registration leaves the registrations as they were.     *)
LEMMA SinVigencias ==
  ASSUME IInvNomina, UNCHANGED valores, NEW p \in Tramites, NEW m,
         m.op # "valor", Pasa(p, m)
  PROVE  \A q \in Tramites : VigenciaSegura(q)'
<1>1. /\ tramite'[p] = m
      /\ \A q \in Tramites \ {p} : tramite'[q] = tramite[q]
      BY OtrosIguales DEF IInvNomina
<1>2. \A r \in Tramites : tramite'[r] = tramite[r] \/ ~ En(r, "valor")'
      BY <1>1 DEF En
<1> QED BY <1>2, VigenciaAjena

PideVigencia(p) ==
  \E c \in Codigos, i \in Vigencia : LeeValor(p, c, i)
LEMMA VigenciaPedida ==
  ASSUME IInvNomina, NEW p \in Tramites, PideVigencia(p), [NextNomina]_varsNomina
  PROVE  IInvNomina'
<1>1. PICK c \in Codigos, i \in Vigencia : LeeValor(p, c, i)
      BY DEF PideVigencia
<1> DEFINE m == [op |-> "valor", codigo |-> c, vigencia |-> i]
<1>2. /\ Pasa(p, m) /\ CatalogoLibre(c) /\ SinSolape(c, i)
      /\ UNCHANGED <<valores, periodo, boleta>>
      BY <1>1 DEF LeeValor
<1>3. /\ tramite'[p] = m
      /\ \A q \in Tramites \ {p} : tramite'[q] = tramite[q]
      BY <1>2, OtrosIguales DEF IInvNomina
<1>4. \A q \in Tramites \ {p} :
        En(q, "valor") => tramite[q].codigo # c
      BY <1>2 DEF CatalogoLibre
<1>5. VigenciaSegura(p)'
      BY <1>2, <1>3, <1>4 DEF VigenciaSegura, En, SinSolape
<1>6. ASSUME NEW q \in Tramites \ {p}
      PROVE  VigenciaSegura(q)'
  <2>1. VigenciaSegura(q)
        BY DEF IInvNomina
  <2>2. En(q, "valor") => tramite'[p].codigo # tramite[q].codigo
        BY <1>3, <1>4
  <2> QED BY <1>2, <1>3, <2>1, <2>2 DEF VigenciaSegura, En, SinSolape
<1>7. \A q \in Tramites : MesVivo(q)' /\ TasaLeida(q)'
  <2>1. MesVivo(p)' /\ TasaLeida(p)'
        BY <1>3 DEF MesVivo, TasaLeida, Calculando, En
  <2> QED BY <1>2, <1>3, <2>1, TasaAjena
<1>8. BoletaConTasa'
      BY <1>2, TasasSiguen DEF IInvNomina, BoletaConTasa
<1> QED BY <1>5, <1>6, <1>7, <1>8, ValoresCrecen DEF IInvNomina

LEMMA VigenciaEscrita ==
  ASSUME IInvNomina, NEW p \in Tramites, EscribeValor(p),
         [NextNomina]_varsNomina
  PROVE  IInvNomina'
<1> DEFINE k == tramite[p].codigo
           v == tramite[p].vigencia
<1>1. /\ Pasa(p, Reposo) /\ En(p, "valor")
      /\ valores' = [valores EXCEPT ![k] = @ \cup {v}]
      /\ UNCHANGED <<periodo, boleta>>
      BY DEF EscribeValor
<1>2. /\ tramite'[p] = Reposo
      /\ \A q \in Tramites \ {p} : tramite'[q] = tramite[q]
      BY <1>1, OtrosIguales DEF IInvNomina
<1>3. ASSUME NEW q \in Tramites
      PROVE  VigenciaSegura(q)'
  <2>1. CASE q = p
        BY <1>2, <2>1 DEF VigenciaSegura, En, Reposo
  <2>2. CASE q # p
    <3> SUFFICES ASSUME En(q, "valor")
                 PROVE  VigenciaSegura(q)'
        BY <1>2, <2>2 DEF VigenciaSegura, En
    <3>1. VigenciaSegura(q) /\ tramite[q].codigo # k
          BY <1>1, <2>2 DEF IInvNomina, VigenciaSegura
    <3>2. valores'[tramite[q].codigo] = valores[tramite[q].codigo]
          BY <1>1, <3>1 DEF IInvNomina, TiposNomina, VigenciaSegura
    <3>3. \A r \in Tramites \ {q} :
            En(r, "valor")' => tramite'[r].codigo # tramite[q].codigo
          BY <1>2, <3>1 DEF VigenciaSegura, En, Reposo
    <3> QED BY <1>2, <2>2, <3>1, <3>2, <3>3 DEF VigenciaSegura, En, SinSolape
  <2> QED BY <2>1, <2>2
<1>4. \A q \in Tramites : MesVivo(q)' /\ TasaLeida(q)'
  <2>1. MesVivo(p)' /\ TasaLeida(p)'
        BY <1>2 DEF MesVivo, TasaLeida, Calculando, En, Reposo
  <2> QED BY <1>1, <1>2, <2>1, TasaAjena
<1>5. BoletaConTasa'
      BY <1>1, TasasSiguen DEF IInvNomina, BoletaConTasa
<1> QED BY <1>3, <1>4, <1>5, ValoresCrecen DEF IInvNomina

(* The steps that read, and the ones that only end a request.               *)
SigueTramite(p) ==
  \/ \E r \in ReglasNuevas : LeeRegla(p, r)
  \/ EscribeRegla(p) \/ RevierteTramite(p)
  \/ LeeReglas(p) \/ LeeTasas(p)

LEMMA SigueLee ==
  ASSUME IInvNomina, NEW p \in Tramites, SigueTramite(p), [NextNomina]_varsNomina
  PROVE  IInvNomina'
<1>1. UNCHANGED <<valores, periodo, boleta>>
      BY DEF SigueTramite, LeeRegla, EscribeRegla, RevierteTramite, LeeReglas,
             LeeTasas
<1>2. \E m : /\ Pasa(p, m) /\ m.op # "valor"
             /\ m.op = "reglas" \/ m.op = "tasas" =>
                  periodo \in {"ABIERTO", "CALCULADO"}
             /\ m.op = "tasas" => HayUno("AFP") /\ m.tasa = Vigente("AFP")
  <2>1. CASE \E r \in ReglasNuevas : LeeRegla(p, r)
    <3>1. PICK r \in ReglasNuevas : Pasa(p, [op |-> "regla", regla |-> r])
          BY <2>1 DEF LeeRegla
    <3> QED BY <3>1
  <2>4. CASE EscribeRegla(p) \/ RevierteTramite(p)
    <3>1. Pasa(p, Reposo)
          BY <2>4 DEF EscribeRegla, RevierteTramite
    <3> QED BY <3>1 DEF Reposo
  <2>2. CASE LeeReglas(p)
        BY <2>2 DEF LeeReglas
  <2>3. CASE LeeTasas(p)
    <3>1. MesVivo(p)
          BY DEF IInvNomina
    <3> QED BY <2>3, <3>1 DEF LeeTasas, MesVivo, Calculando
  <2> QED BY <2>1, <2>2, <2>3, <2>4 DEF SigueTramite
<1>3. PICK m :
        /\ Pasa(p, m) /\ m.op # "valor"
        /\ m.op = "reglas" \/ m.op = "tasas" =>
             periodo \in {"ABIERTO", "CALCULADO"}
        /\ m.op = "tasas" => HayUno("AFP") /\ m.tasa = Vigente("AFP")
      BY <1>2
<1>4. /\ tramite'[p] = m
      /\ \A q \in Tramites \ {p} : tramite'[q] = tramite[q]
      BY <1>3, OtrosIguales DEF IInvNomina
<1>5. \A q \in Tramites : VigenciaSegura(q)'
      BY <1>1, <1>3, SinVigencias
<1>6. \A q \in Tramites : MesVivo(q)' /\ TasaLeida(q)'
  <2>1. MesVivo(p)' /\ TasaLeida(p)'
        BY <1>1, <1>3, <1>4, TasasSiguen DEF MesVivo, TasaLeida, Calculando, En
  <2> QED BY <1>1, <1>4, <2>1, TasaAjena
<1>7. BoletaConTasa'
      BY <1>1, TasasSiguen DEF IInvNomina, BoletaConTasa
<1> QED BY <1>5, <1>6, <1>7, ValoresCrecen DEF IInvNomina

Calculada(p) ==
  \E base \in Haberes, extra \in Extras : EscribeCalculo(p, base, extra)
LEMMA SigueCalculada ==
  ASSUME IInvNomina, NEW p \in Tramites, Calculada(p), [NextNomina]_varsNomina
  PROVE  IInvNomina'
<1>1. /\ UNCHANGED valores /\ Pasa(p, Reposo) /\ En(p, "tasas")
      /\ periodo' = "CALCULADO"
      BY DEF Calculada, EscribeCalculo
<1>2. /\ tramite'[p] = Reposo
      /\ \A q \in Tramites \ {p} : tramite'[q] = tramite[q]
      BY <1>1, OtrosIguales DEF IInvNomina
<1>3. \A q \in Tramites : VigenciaSegura(q)'
      BY <1>1, SinVigencias DEF Reposo
<1>4. \A q \in Tramites : MesVivo(q)'
      BY <1>1 DEF MesVivo
<1>5. \A q \in Tramites : TasaLeida(q)'
  <2>1. TasaLeida(p)'
        BY <1>2 DEF TasaLeida, En, Reposo
  <2> QED BY <1>2, <2>1, TasaAjena
<1>6. TasaLeida(p) /\ HayUno("AFP")
      BY <1>1 DEF IInvNomina, TasaLeida
<1>7. BoletaConTasa'
      BY <1>6, TasasSiguen DEF BoletaConTasa
<1> QED BY <1>3, <1>4, <1>5, <1>7, ValoresCrecen DEF IInvNomina

DelMes ==
  \/ Abre \/ Aprueba
  \/ \E n \in Retenciones : RegistraRetencion(n)
  \/ \E d \in Datos : RegistraDatos(d)
LEMMA SigueMes ==
  ASSUME IInvNomina, DelMes, [NextNomina]_varsNomina
  PROVE  IInvNomina'
<1>1. /\ UNCHANGED <<valores, boleta, tramite>>
      /\ \/ periodo' = periodo
         \/ \A q \in Tramites : ~ Calculando(q)
  <2>1. CASE Abre
        BY <2>1 DEF Abre, IInvNomina, MesVivo
  <2>2. CASE Aprueba
        BY <2>2 DEF Aprueba, PeriodoLibre, Calculando
  <2>3. CASE (\E n \in Retenciones : RegistraRetencion(n))
               \/ \E d \in Datos : RegistraDatos(d)
        BY <2>3 DEF RegistraRetencion, RegistraDatos
  <2> QED BY <2>1, <2>2, <2>3 DEF DelMes
<1>2. \A q \in Tramites : VigenciaSegura(q)'
      BY <1>1, VigenciaAjena
<1>3. \A q \in Tramites : TasaLeida(q)'
      BY <1>1, TasaAjena
<1>4. \A q \in Tramites : MesVivo(q)'
      BY <1>1 DEF IInvNomina, MesVivo, Calculando, En
<1>5. BoletaConTasa'
      BY <1>1, TasasSiguen DEF IInvNomina, BoletaConTasa
<1> QED BY <1>2, <1>3, <1>4, <1>5, ValoresCrecen DEF IInvNomina

LEMMA SigueNomina == IInvNomina /\ [NextNomina]_varsNomina => IInvNomina'
<1> SUFFICES ASSUME IInvNomina, [NextNomina]_varsNomina
             PROVE  IInvNomina'
    OBVIOUS
<1>1. CASE UNCHANGED varsNomina
      BY <1>1 DEF varsNomina, IInvNomina, TiposNomina, SinSolapes,
         VigenciaSegura, MesVivo, Calculando, TasaLeida, BoletaConTasa, En,
         HayUno, Vigente, VigentesLegales, SinSolape
<1>2. CASE DelMes
      BY <1>2, SigueMes
<1>3. ASSUME NEW p \in Tramites, PideVigencia(p)
      PROVE  IInvNomina'
      BY <1>3, VigenciaPedida
<1>4. ASSUME NEW p \in Tramites, EscribeValor(p)
      PROVE  IInvNomina'
      BY <1>4, VigenciaEscrita
<1>5. ASSUME NEW p \in Tramites, SigueTramite(p)
      PROVE  IInvNomina'
      BY <1>5, SigueLee
<1>6. ASSUME NEW p \in Tramites, Calculada(p)
      PROVE  IInvNomina'
      BY <1>6, SigueCalculada
<1> QED BY <1>1, <1>2, <1>3, <1>4, <1>5, <1>6
        DEF NextNomina, DelMes, PideVigencia, SigueTramite, Calcular, Calculada

(* A payslip rests on the one rate in force for its month, and no two       *)
(* values of a legal parameter are in force on the same day, however        *)
(* registrations and calculations interleave.                               *)
THEOREM TasaDelMes == SpecNomina => [](BoletaConTasa /\ SinSolapes)
<1>1. IInvNomina => BoletaConTasa /\ SinSolapes
      BY DEF IInvNomina
<1> QED BY AbreNomina, SigueNomina, <1>1, PTL DEF SpecNomina

(* What the employee can read of an approved month stays as it is           *)
(* (LoVistoQueda): no calculation is under way when it is approved.         *)
THEOREM NominaVistaQueda == SpecNomina => LoVistoQueda
<1> DEFINE Queda ==
      /\ MisBoletas \subseteq MisBoletas'
      /\ MisBoletas # {} => impuesto' = impuesto
<1>1. IInvNomina /\ [NextNomina]_varsNomina => [Queda]_varsNomina
  <2> SUFFICES ASSUME IInvNomina, NextNomina, periodo = "APROBADO"
               PROVE  UNCHANGED <<periodo, boleta, impuesto>>
      BY DEF MisBoletas
  <2>1. \A p \in Tramites : ~ En(p, "tasas")
        BY DEF IInvNomina, MesVivo, Calculando
  <2> QED BY <2>1 DEF NextNomina, Calcular, Abre, RegistraRetencion,
             RegistraDatos, Aprueba, LeeValor, EscribeValor, LeeRegla,
             EscribeRegla, LeeReglas, LeeTasas, EscribeCalculo,
             RevierteTramite
<1> QED BY <1>1, AbreNomina, SigueNomina, PTL DEF SpecNomina, LoVistoQueda

(* calculate_rc_iva loses no credit and uses none twice: what is withheld,  *)
(* with the credits that came in, is what is owed with those that go on,    *)
(* and nothing is withheld while a credit is left.                          *)
THEOREM RcIvaConserva ==
  ASSUME NEW neto \in Nat, NEW d \in [f110 : Nat, saldo : Nat, siete : Nat]
  PROVE  LET r == RcIva(neto, d) IN
         /\ r \in [retenido : Nat, saldo : Nat, siete : Nat]
         /\ r.retenido + d.f110 + d.saldo + d.siete
              = neto + r.saldo + r.siete
         /\ r.retenido > 0 => r.saldo = 0 /\ r.siete = 0
<1>1. d.f110 \in Nat /\ d.saldo \in Nat /\ d.siete \in Nat
      OBVIOUS
<1> QED BY <1>1 DEF RcIva, Mayor, Menor

----------------------------------------------------------------------------
(***************************************************************************)
(* Permisos: what holds of the role, of the tokens and of the requests.    *)
(***************************************************************************)
UnPedido ==
  [tipo : {"LIBRE", "OPERA", "ASIGNA", "ENTRA"}, f : A!UnaFicha,
   leidos : SUBSET A!Permiso, pedidos : SUBSET A!Permiso, pasada : BOOLEAN]

(* While a change of password is owed, a token that does not say so is      *)
(* older than the demand.                                                   *)
Puesta(f) == debe => f.debe \/ f.previa
DeEmpresaViva(f) == f.quien = "EMPRESA" /\ Puesta(f)

(* An assignment asks for nothing of the platform, and what it read is      *)
(* still so unless another one committed.                                   *)
AsignaVigente(p) ==
  p.tipo = "ASIGNA" =>
    /\ "PLATAFORMA" \notin p.pedidos
    /\ ~ p.pasada => p.leidos = permisos

IInvPermisos ==
  /\ A!TypeOK /\ A!SinGlobales
  /\ \A f \in fichas : DeEmpresaViva(f)
  /\ \A r \in Tramites :
       /\ AsignaVigente(gestion[r])
       /\ gestion[r].tipo = "ENTRA" => DeEmpresaViva(gestion[r].f)

LEMMA LibreTipada ==
  A!Libre \in UnPedido /\ A!Libre.tipo = "LIBRE" /\ A!Libre.f = A!DePlataforma
    /\ A!DePlataforma \in A!UnaFicha /\ A!DePlataforma.quien = "PLATAFORMA"
BY DEF A!Libre, UnPedido, A!UnaFicha, A!DePlataforma

LEMMA EmpiezaTipada ==
  ASSUME A!TypeOK, NEW r \in Tramites,
         NEW tipo \in {"OPERA", "ASIGNA", "ENTRA"}, NEW f \in A!UnaFicha,
         NEW leidos \in SUBSET A!Permiso, NEW pedidos \in SUBSET A!Permiso,
         A!Empieza(r, tipo, f, leidos, pedidos)
  PROVE  /\ gestion' \in [Tramites -> UnPedido]
         /\ gestion'[r].tipo = tipo /\ gestion'[r].f = f
         /\ gestion'[r].leidos = leidos /\ gestion'[r].pedidos = pedidos
         /\ \A q \in Tramites \ {r} : gestion'[q] = gestion[q]
         /\ UNCHANGED <<permisos, apagado, empresa, debe, fichas>>
<1> DEFINE N == [A!Libre EXCEPT !.tipo = tipo, !.f = f, !.leidos = leidos,
                              !.pedidos = pedidos]
<1>1. gestion \in [Tramites -> UnPedido]
      BY DEF A!TypeOK, UnPedido
<1>2. /\ N \in UnPedido /\ N.tipo = tipo /\ N.f = f
      /\ N.leidos = leidos /\ N.pedidos = pedidos
      BY LibreTipada DEF UnPedido
<1>3. /\ gestion' = [gestion EXCEPT ![r] = N]
      /\ UNCHANGED <<permisos, apagado, empresa, debe, fichas>>
      BY DEF A!Empieza
<1> HIDE DEF N
<1> QED BY <1>1, <1>2, <1>3

LEMMA AcabaTipada ==
  ASSUME A!TypeOK, NEW r \in Tramites, A!Acaba(r)
  PROVE  /\ gestion' \in [Tramites -> UnPedido]
         /\ gestion'[r] = A!Libre
         /\ \A q \in Tramites \ {r} : gestion'[q] = gestion[q]
BY LibreTipada DEF A!TypeOK, UnPedido, A!Acaba

LEMMA FichasTipadas == A!TypeOK => A!Fichas \subseteq A!UnaFicha
BY LibreTipada DEF A!TypeOK, A!Fichas

(* Every endpoint refuses the token that says a change of password is owed. *)
LEMMA AutorizaPuesta ==
  ASSUME NEW f, A!Autoriza(f) \/ A!require_scoped_permission(f)
  PROVE  ~ f.debe
BY DEF A!Autoriza, A!require_permission, A!require_platform_permission,
       A!require_empresa_permission, A!require_scoped_permission,
       A!require_scoped_any_permission, A!CheckPermission

(* The steps that only open or end a request.                               *)
LEMMA PasoDePedido ==
  ASSUME IInvPermisos, NEW r \in Tramites,
         gestion' \in [Tramites -> UnPedido],
         \A q \in Tramites \ {r} : gestion'[q] = gestion[q],
         AsignaVigente(gestion[r])',
         gestion'[r].tipo = "ENTRA" => DeEmpresaViva(gestion'[r].f),
         UNCHANGED <<permisos, apagado, empresa, debe>>,
         fichas' \subseteq A!UnaFicha, \A f \in fichas' : DeEmpresaViva(f)
  PROVE  IInvPermisos'
<1>1. A!TypeOK'
      BY DEF IInvPermisos, A!TypeOK, UnPedido
<1>2. A!SinGlobales'
      BY DEF IInvPermisos, A!SinGlobales
<1>3. \A f \in fichas' : DeEmpresaViva(f)'
      BY DEF DeEmpresaViva, Puesta
<1>4. ASSUME NEW q \in Tramites
      PROVE  /\ AsignaVigente(gestion[q])'
             /\ gestion'[q].tipo = "ENTRA" => DeEmpresaViva(gestion[q].f)'
  <2>1. CASE q = r
        BY <2>1 DEF DeEmpresaViva, Puesta
  <2>2. CASE q # r
        BY <2>2 DEF IInvPermisos, AsignaVigente, DeEmpresaViva, Puesta
  <2> QED BY <2>1, <2>2
<1> QED BY <1>1, <1>2, <1>3, <1>4 DEF IInvPermisos

LEMMA PasoAsigna ==
  ASSUME IInvPermisos, NEW r \in Tramites, A!EscribeAsignar(r)
  PROVE  /\ IInvPermisos' /\ gestion'[r] = A!Libre
         /\ gestion[r].pasada \/ permisos' = gestion[r].pedidos
         /\ \A q \in Tramites \ {r} :
              gestion'[q].tipo = gestion[q].tipo
<1> DEFINE p == gestion[r]
<1>1. /\ gestion \in [Tramites -> UnPedido] /\ permisos \subseteq A!Permiso
      /\ "PLATAFORMA" \notin permisos
      BY DEF IInvPermisos, A!TypeOK, UnPedido, A!SinGlobales
<1>2. /\ p.tipo = "ASIGNA" /\ permisos' = A!Diferencia(p)
      /\ gestion' = [q \in Tramites |->
           IF q = r THEN A!Libre
           ELSE IF A!EnVuelo(q, "ASIGNA")
                THEN [gestion[q] EXCEPT !.pasada = TRUE]
                ELSE gestion[q]]
      /\ UNCHANGED <<apagado, empresa, debe, fichas>>
      BY DEF A!EscribeAsignar, A!EnVuelo
<1>3. p \in UnPedido /\ AsignaVigente(p)
      BY <1>1 DEF IInvPermisos
<1>4. /\ permisos' \subseteq A!Permiso /\ "PLATAFORMA" \notin permisos'
      /\ p.pasada \/ permisos' = p.pedidos
      BY <1>1, <1>2, <1>3 DEF A!Diferencia, UnPedido, AsignaVigente
<1>5. /\ gestion'[r] = A!Libre
      /\ \A q \in Tramites \ {r} :
           /\ gestion'[q] \in UnPedido
           /\ gestion'[q].tipo = gestion[q].tipo
           /\ gestion'[q].f = gestion[q].f
           /\ gestion'[q].pedidos = gestion[q].pedidos
           /\ gestion[q].tipo = "ASIGNA" => gestion'[q].pasada
      BY <1>1, <1>2 DEF UnPedido, A!EnVuelo
<1>6. gestion' \in [Tramites -> UnPedido]
  <2>1. \A q \in Tramites : gestion'[q] \in UnPedido
        BY <1>5, LibreTipada
  <2>2. gestion' = [q \in Tramites |-> gestion'[q]]
        BY <1>2
  <2> QED BY <2>1, <2>2
<1>7. A!TypeOK' /\ A!SinGlobales'
      BY <1>1, <1>2, <1>4, <1>6 DEF IInvPermisos, A!TypeOK, UnPedido,
         A!SinGlobales
<1>8. \A f \in fichas' : DeEmpresaViva(f)'
      BY <1>2 DEF IInvPermisos, DeEmpresaViva, Puesta
<1>9. ASSUME NEW q \in Tramites
      PROVE  /\ AsignaVigente(gestion[q])'
             /\ gestion'[q].tipo = "ENTRA" => DeEmpresaViva(gestion[q].f)'
  <2>1. CASE q = r
        BY <1>5, <2>1, LibreTipada DEF AsignaVigente
  <2>2. CASE q # r
        BY <1>2, <1>5, <2>2
           DEF IInvPermisos, AsignaVigente, DeEmpresaViva, Puesta
  <2> QED BY <2>1, <2>2
<1> QED BY <1>4, <1>5, <1>7, <1>8, <1>9 DEF IInvPermisos

LEMMA PasoExige ==
  ASSUME IInvPermisos, A!Exige
  PROVE  /\ IInvPermisos'
         /\ \A r \in Tramites : gestion'[r].tipo = gestion[r].tipo
<1>1. /\ gestion \in [Tramites -> UnPedido] /\ fichas \subseteq A!UnaFicha
      BY DEF IInvPermisos, A!TypeOK, UnPedido
<1>2. \A f \in A!UnaFicha :
        /\ A!Anterior(f) \in A!UnaFicha /\ A!Anterior(f).quien = f.quien
        /\ f.quien = "EMPRESA" => A!Anterior(f).debe \/ A!Anterior(f).previa
      BY DEF A!Anterior, A!UnaFicha
<1>3. /\ debe' = TRUE /\ fichas' = {A!Anterior(f) : f \in fichas}
      /\ gestion' = [r \in Tramites |->
                        [gestion[r] EXCEPT !.f = A!Anterior(@)]]
      /\ UNCHANGED <<permisos, apagado, empresa>>
      BY DEF A!Exige
<1>4. \A r \in Tramites :
        /\ gestion'[r] \in UnPedido
        /\ gestion'[r].tipo = gestion[r].tipo
        /\ gestion'[r].f = A!Anterior(gestion[r].f)
        /\ gestion'[r].pedidos = gestion[r].pedidos
        /\ gestion'[r].leidos = gestion[r].leidos
        /\ gestion'[r].pasada = gestion[r].pasada
  <2> SUFFICES ASSUME NEW r \in Tramites
               PROVE  /\ gestion'[r] \in UnPedido
                      /\ gestion'[r].tipo = gestion[r].tipo
                      /\ gestion'[r].f = A!Anterior(gestion[r].f)
                      /\ gestion'[r].pedidos = gestion[r].pedidos
                      /\ gestion'[r].leidos = gestion[r].leidos
                      /\ gestion'[r].pasada = gestion[r].pasada
      OBVIOUS
  <2>1. gestion[r] \in UnPedido /\ gestion[r].f \in A!UnaFicha
        BY <1>1 DEF UnPedido
  <2>2. gestion'[r] = [gestion[r] EXCEPT !.f = A!Anterior(gestion[r].f)]
        BY <1>3, <2>1
  <2>3. A!Anterior(gestion[r].f) \in A!UnaFicha
        BY <1>2, <2>1
  <2> QED BY <2>1, <2>2, <2>3 DEF UnPedido
<1>5. gestion' \in [Tramites -> UnPedido]
  <2>1. gestion' = [r \in Tramites |-> gestion'[r]]
        BY <1>3
  <2> QED BY <1>4, <2>1
<1>6. A!TypeOK' /\ A!SinGlobales'
  <2>1. fichas' \subseteq A!UnaFicha
        BY <1>1, <1>2, <1>3
  <2> QED BY <1>3, <1>5, <2>1
             DEF IInvPermisos, A!TypeOK, UnPedido, A!SinGlobales
<1>7. \A f \in fichas' : DeEmpresaViva(f)'
      BY <1>1, <1>2, <1>3 DEF IInvPermisos, DeEmpresaViva, Puesta
<1>8. ASSUME NEW r \in Tramites
      PROVE  /\ AsignaVigente(gestion[r])'
             /\ gestion'[r].tipo = "ENTRA" => DeEmpresaViva(gestion[r].f)'
  <2>1. gestion[r].f \in A!UnaFicha
        BY <1>1 DEF UnPedido
  <2>2. AsignaVigente(gestion[r])'
        BY <1>3, <1>4 DEF IInvPermisos, AsignaVigente
  <2> QED BY <1>2, <1>4, <2>1, <2>2 DEF IInvPermisos, DeEmpresaViva, Puesta
<1> QED BY <1>4, <1>6, <1>7, <1>8 DEF IInvPermisos

(* The steps of a request but the write of an assignment.                   *)
Ordinario(r) ==
  \/ \E f \in A!Fichas : A!Opera(r, f)
  \/ \E f \in A!Fichas, pedidos \in SUBSET A!Permiso : A!LeeAsignar(r, f, pedidos)
  \/ A!create_access_token(r) \/ A!Responde(r) \/ A!Revierte(r)

LEMMA PasoOrdinario ==
  ASSUME IInvPermisos, NEW r \in Tramites, Ordinario(r)
  PROVE  /\ IInvPermisos' /\ permisos' = permisos
         /\ \A q \in Tramites \ {r} : gestion'[q] = gestion[q]
         /\ gestion'[r] = A!Libre \/ gestion[r] = A!Libre
         /\ gestion'[r].tipo \in {"OPERA", "ASIGNA"} =>
              gestion'[r].f \in A!Fichas /\ ~ gestion'[r].f.debe
<1>1. /\ A!TypeOK /\ fichas \subseteq A!UnaFicha
      /\ \A f \in fichas : DeEmpresaViva(f)
      BY DEF IInvPermisos, A!TypeOK
<1>2. ASSUME NEW f \in A!Fichas, A!Opera(r, f)
      PROVE  /\ IInvPermisos' /\ permisos' = permisos
             /\ \A q \in Tramites \ {r} : gestion'[q] = gestion[q]
             /\ gestion[r] = A!Libre /\ gestion'[r].f = f /\ ~ f.debe
  <2>1. /\ f \in A!UnaFicha /\ A!Empieza(r, "OPERA", f, {}, {}) /\ ~ f.debe
        /\ {} \in SUBSET A!Permiso
        BY <1>1, <1>2, FichasTipadas, AutorizaPuesta DEF A!Opera
  <2>2. /\ gestion' \in [Tramites -> UnPedido]
        /\ gestion'[r].tipo = "OPERA" /\ gestion'[r].f = f
        /\ \A q \in Tramites \ {r} : gestion'[q] = gestion[q]
        /\ UNCHANGED <<permisos, apagado, empresa, debe, fichas>>
        BY <1>1, <2>1, EmpiezaTipada
  <2>3. AsignaVigente(gestion[r])'
        BY <2>2 DEF AsignaVigente
  <2>4. IInvPermisos'
        BY <1>1, <2>2, <2>3, PasoDePedido
  <2> QED BY <2>1, <2>2, <2>4 DEF A!Empieza
<1>3. ASSUME NEW f \in A!Fichas, NEW pedidos \in SUBSET A!Permiso,
             A!LeeAsignar(r, f, pedidos)
      PROVE  /\ IInvPermisos' /\ permisos' = permisos
             /\ \A q \in Tramites \ {r} : gestion'[q] = gestion[q]
             /\ gestion[r] = A!Libre /\ gestion'[r].f = f /\ ~ f.debe
  <2>1. /\ f \in A!UnaFicha /\ A!Empieza(r, "ASIGNA", f, permisos, pedidos)
        /\ ~ f.debe /\ "PLATAFORMA" \notin pedidos
        /\ permisos \in SUBSET A!Permiso
        BY <1>1, <1>3, FichasTipadas, AutorizaPuesta DEF A!LeeAsignar, A!TypeOK
  <2>2. /\ gestion' \in [Tramites -> UnPedido]
        /\ gestion'[r].tipo = "ASIGNA" /\ gestion'[r].f = f
        /\ gestion'[r].leidos = permisos /\ gestion'[r].pedidos = pedidos
        /\ \A q \in Tramites \ {r} : gestion'[q] = gestion[q]
        /\ UNCHANGED <<permisos, apagado, empresa, debe, fichas>>
        BY <1>1, <2>1, EmpiezaTipada
  <2>3. AsignaVigente(gestion[r])'
        BY <2>1, <2>2 DEF AsignaVigente
  <2>4. IInvPermisos'
        BY <1>1, <2>2, <2>3, PasoDePedido
  <2> QED BY <2>1, <2>2, <2>4 DEF A!Empieza
<1>4. CASE A!LeeEntrar(r)
  <2> DEFINE f == [quien |-> "EMPRESA", debe |-> debe, previa |-> FALSE]
  <2>1. /\ f \in A!UnaFicha /\ f.quien = "EMPRESA" /\ f.debe = debe
        /\ A!Empieza(r, "ENTRA", f, {}, {}) /\ {} \in SUBSET A!Permiso
        BY <1>1, <1>4 DEF A!LeeEntrar, A!TypeOK, A!UnaFicha
  <2> HIDE DEF f
  <2>2. /\ gestion' \in [Tramites -> UnPedido]
        /\ gestion'[r].tipo = "ENTRA" /\ gestion'[r].f = f
        /\ \A q \in Tramites \ {r} : gestion'[q] = gestion[q]
        /\ UNCHANGED <<permisos, apagado, empresa, debe, fichas>>
        BY <1>1, <2>1, EmpiezaTipada
  <2>3. AsignaVigente(gestion[r])' /\ DeEmpresaViva(f)
        BY <2>1, <2>2 DEF AsignaVigente, DeEmpresaViva, Puesta
  <2>4. IInvPermisos'
        BY <1>1, <2>2, <2>3, PasoDePedido
  <2> QED BY <2>1, <2>2, <2>4 DEF A!Empieza
<1>5. ASSUME A!Acaba(r), UNCHANGED <<permisos, apagado, empresa, debe>>,
             fichas' \subseteq A!UnaFicha, \A f \in fichas' : DeEmpresaViva(f)
      PROVE  /\ IInvPermisos' /\ gestion'[r] = A!Libre
             /\ \A q \in Tramites \ {r} : gestion'[q] = gestion[q]
  <2>1. /\ gestion' \in [Tramites -> UnPedido]
        /\ gestion'[r] = A!Libre
        /\ \A q \in Tramites \ {r} : gestion'[q] = gestion[q]
        BY <1>1, <1>5, AcabaTipada
  <2>2. AsignaVigente(gestion[r])' /\ gestion'[r].tipo = "LIBRE"
        BY <2>1, LibreTipada DEF AsignaVigente
  <2>3. IInvPermisos'
        BY <1>5, <2>1, <2>2, PasoDePedido
  <2> QED BY <2>1, <2>3
<1>6. CASE A!EscribeEntrar(r)
  <2>1. /\ A!Acaba(r) /\ UNCHANGED <<permisos, apagado, empresa, debe>>
        /\ gestion[r].tipo = "ENTRA"
        /\ fichas' = fichas \cup {gestion[r].f}
        BY <1>6 DEF A!EscribeEntrar, A!EnVuelo
  <2>2. gestion[r].f \in A!UnaFicha /\ DeEmpresaViva(gestion[r].f)
        BY <1>1, <2>1 DEF IInvPermisos, A!TypeOK
  <2>3. fichas' \subseteq A!UnaFicha /\ \A f \in fichas' : DeEmpresaViva(f)
        BY <1>1, <2>1, <2>2
  <2> QED BY <1>5, <2>1, <2>3, LibreTipada
<1>7. CASE A!Responde(r) \/ A!Revierte(r)
  <2>1. /\ A!Acaba(r)
        /\ UNCHANGED <<permisos, apagado, empresa, debe, fichas>>
        BY <1>7 DEF A!Responde, A!Revierte
  <2> QED BY <1>1, <1>5, <2>1, LibreTipada
<1>8. CASE \E f \in A!Fichas : A!Opera(r, f)
      BY <1>2, <1>8
<1>9. CASE \E f \in A!Fichas, pedidos \in SUBSET A!Permiso :
             A!LeeAsignar(r, f, pedidos)
      BY <1>3, <1>9
<1> QED BY <1>4, <1>6, <1>7, <1>8, <1>9 DEF Ordinario, A!create_access_token

(* What changes meanwhile and touches neither the role nor the requests.    *)
Fuera ==
  \/ A!Cumple \/ (\E f \in fichas : A!VenceFicha(f))
  \/ (\E i \in A!Interruptores : A!Conmuta(i))
  \/ \E modulo, alDia \in BOOLEAN : A!Contrata(modulo, alDia)

LEMMA PasoFuera ==
  ASSUME IInvPermisos, Fuera
  PROVE  IInvPermisos' /\ UNCHANGED <<permisos, gestion>>
<1>1. /\ UNCHANGED <<permisos, gestion>> /\ fichas' \subseteq fichas
      /\ debe' => debe
      BY DEF Fuera, A!Cumple, A!VenceFicha, A!Conmuta, A!Contrata
<1>0. debe' \in BOOLEAN
      BY DEF Fuera, A!Cumple, A!VenceFicha, A!Conmuta, A!Contrata,
         IInvPermisos, A!TypeOK
<1>2. apagado' \subseteq A!Interruptores
      BY DEF Fuera, A!Cumple, A!VenceFicha, A!Conmuta, A!Contrata,
         IInvPermisos, A!TypeOK
<1>3. empresa' \in [modulo : BOOLEAN, alDia : BOOLEAN]
      BY DEF Fuera, A!Cumple, A!VenceFicha, A!Conmuta, A!Contrata,
         IInvPermisos, A!TypeOK
<1>4. A!TypeOK' /\ A!SinGlobales'
      BY <1>0, <1>1, <1>2, <1>3 DEF IInvPermisos, A!TypeOK, A!SinGlobales
<1>5. /\ \A f \in fichas' : DeEmpresaViva(f)'
      /\ \A r \in Tramites :
           /\ AsignaVigente(gestion[r])'
           /\ gestion'[r].tipo = "ENTRA" => DeEmpresaViva(gestion[r].f)'
      BY <1>1 DEF IInvPermisos, AsignaVigente, DeEmpresaViva, Puesta
<1> QED BY <1>1, <1>4, <1>5 DEF IInvPermisos

LEMMA PorPasosPermisos ==
  ASSUME A!Next
  PROVE  \/ \E r \in Tramites : Ordinario(r) \/ A!EscribeAsignar(r)
         \/ A!Exige \/ Fuera
BY DEF A!Next, Ordinario, A!assign_permissions, Fuera

LEMMA AlEmpezarPermisos == A!Init => IInvPermisos
<1> SUFFICES ASSUME A!Init PROVE IInvPermisos
    OBVIOUS
<1>1. /\ permisos = A!DeRolBase /\ apagado = {} /\ debe = TRUE /\ fichas = {}
      /\ empresa = [modulo |-> TRUE, alDia |-> TRUE]
      /\ gestion = [r \in Tramites |-> A!Libre]
      BY DEF A!Init
<1>2. gestion \in [Tramites -> UnPedido]
      BY <1>1, LibreTipada
<1>3. A!TypeOK /\ A!SinGlobales
      BY <1>1, <1>2 DEF A!TypeOK, UnPedido, A!SinGlobales, A!DeRolBase,
         A!Permiso
<1>4. \A r \in Tramites : gestion[r].tipo = "LIBRE"
      BY <1>1, LibreTipada
<1> QED BY <1>1, <1>3, <1>4 DEF IInvPermisos, AsignaVigente

LEMMA PasoPermisos == IInvPermisos /\ [A!Next]_(A!vars) => IInvPermisos'
<1> SUFFICES ASSUME IInvPermisos, [A!Next]_(A!vars) PROVE IInvPermisos'
    OBVIOUS
<1>1. CASE A!Next
      BY <1>1, PorPasosPermisos, PasoOrdinario, PasoAsigna, PasoExige,
         PasoFuera
<1>2. CASE UNCHANGED A!vars
      BY <1>2 DEF A!vars, IInvPermisos, A!TypeOK, A!SinGlobales, AsignaVigente,
                  DeEmpresaViva, Puesta
<1> QED BY <1>1, <1>2

LEMMA MeSiempreCoherente ==
  ASSUME IInvPermisos PROVE A!MeCoherente
BY DEF IInvPermisos, A!TypeOK, A!SinGlobales, DeEmpresaViva, A!MeCoherente,
   A!current_user, A!Codigos, A!Filtra, A!EsCore, A!Listados, A!list_permisos,
   A!Permiso

(* What a step does to each request and to the role.                        *)
LEMMA PedidosJustos ==
  ASSUME IInvPermisos, A!Next, NEW r \in Tramites,
         A!EnVuelo(r, "ASIGNA"), gestion'[r] = A!Libre, permisos' # permisos
  PROVE  permisos' = gestion[r].pedidos \/ gestion[r].pasada
<1>1. PICK q \in Tramites : A!EscribeAsignar(q)
      BY PorPasosPermisos, PasoOrdinario, PasoFuera DEF A!Exige
<1>2. q = r
      BY <1>1, PasoAsigna, LibreTipada DEF A!EnVuelo
<1> QED BY <1>1, <1>2, PasoAsigna

LEMMA DeudaJusta ==
  ASSUME IInvPermisos, A!Next, NEW r \in Tramites, gestion[r] = A!Libre,
         gestion'[r].tipo \in {"OPERA", "ASIGNA"},
         gestion'[r].f.quien = "EMPRESA", debe
  PROVE  gestion'[r].f.previa
<1>1. PICK q \in Tramites : Ordinario(q)
  <2>1. \A q \in Tramites : ~ A!EscribeAsignar(q)
        BY PasoAsigna, LibreTipada
  <2> QED BY <2>1, PorPasosPermisos, PasoExige, PasoFuera, LibreTipada
<1>2. q = r
      BY <1>1, PasoOrdinario, LibreTipada
<1>3. gestion'[r].f \in A!Fichas /\ ~ gestion'[r].f.debe
      BY <1>1, <1>2, PasoOrdinario
<1>4. gestion'[r].f \in fichas
      BY <1>3, LibreTipada DEF A!Fichas
<1> QED BY <1>3, <1>4 DEF IInvPermisos, DeEmpresaViva, Puesta

THEOREM PermisosInvariante == A!Spec => []IInvPermisos
BY AlEmpezarPermisos, PasoPermisos, PTL DEF A!Spec

THEOREM PermisosSiempreFirmes == A!Spec => A!PermisosFirmes
<1>1. IInvPermisos => A!SinGlobales /\ A!MeCoherente
      BY MeSiempreCoherente DEF IInvPermisos
<1>2. IInvPermisos /\ [A!Next]_(A!vars) =>
        [\A r \in Tramites :
           LET p == gestion[r]
           IN A!EnVuelo(r, "ASIGNA") /\ gestion'[r] = A!Libre
                /\ permisos' # permisos
              => permisos' = p.pedidos \/ p.pasada]_<<permisos, gestion>>
      BY PedidosJustos DEF A!vars
<1>3. IInvPermisos /\ [A!Next]_(A!vars) =>
        [\A r \in Tramites :
           LET f == gestion'[r].f
           IN gestion[r] = A!Libre /\ gestion'[r].tipo \in {"OPERA", "ASIGNA"}
                /\ f.quien = "EMPRESA" /\ debe
              => f.previa]_<<debe, gestion>>
      BY DeudaJusta DEF A!vars
<1> QED BY <1>1, <1>2, <1>3, PermisosInvariante, PTL
        DEF A!Spec, A!PermisosFirmes, A!PermisosPedidos, A!DeudaConFichaVieja

----------------------------------------------------------------------------
(***************************************************************************)
(* Requisitos: the rows, the requests, and what an edition whose DELETE    *)
(* has started may count on.                                               *)
(***************************************************************************)
UnaHabilidad == [nombre : Nombres, activo : BOOLEAN]
UnaVacante ==
  [estado : {"BORRADOR", "PUBLICADA"}, requiere : SUBSET Habilidades]
PedidoHabilidad ==
  [op : {"habilidad"}, id : Habilidades, fila : UnaHabilidad,
   foto : UnaHabilidad]
PedidoAlta ==
  [op : {"alta"}, piden : SUBSET Habilidades, objetivos : SUBSET Habilidades]
PedidoEdicion ==
  [op : {"edicion", "borrado"}, id : Vacantes, piden : SUBSET Habilidades,
   fila : BOOLEAN, objetivos : SUBSET Habilidades,
   cruce : {"NO", "CON_FILA", "SIN_FILA"}]
EsPedido(m) ==
  m = R!Reposo \/ m \in PedidoHabilidad \/ m \in PedidoAlta
    \/ m \in PedidoEdicion

(* An edition whose DELETE started knows the skills it will take away, or   *)
(* that another one committed since.                                        *)
EdicionViva(m) ==
  /\ m.op = "edicion" => m.cruce = "NO"
  /\ m.op = "borrado" =>
       /\ vacante[m.id] # NULL
       /\ m.cruce = "NO" => vacante[m.id].requiere = m.objetivos
       /\ m.cruce = "CON_FILA" => ~ m.fila

(* Two editions of a vacancy never hold its row together.                   *)
UnaRetiene ==
  \A p, q \in Tramites :
    R!En(p, "borrado") /\ R!En(q, "borrado") /\ pedido[p].id = pedido[q].id
      /\ pedido[p].fila /\ pedido[q].fila
    => p = q

IInvRequisitos ==
  /\ R!TypeOK /\ R!RequeridaExiste /\ UnaRetiene
  /\ pedido = [p \in Tramites |-> pedido[p]]
  /\ \A p \in Tramites : EsPedido(pedido[p]) /\ EdicionViva(pedido[p])

LEMMA OpDePedido ==
  ASSUME NEW m, EsPedido(m)
  PROVE  /\ m.op \in {"libre", "habilidad", "alta", "edicion", "borrado"}
         /\ m.op = "libre" => m = R!Reposo
         /\ m.op = "habilidad" => m \in PedidoHabilidad
         /\ m.op = "alta" => m \in PedidoAlta
         /\ m.op \in {"edicion", "borrado"} => m \in PedidoEdicion
BY DEF EsPedido, R!Reposo, PedidoHabilidad, PedidoAlta, PedidoEdicion

LEMMA ReposoLibre == R!Reposo.op = "libre"
BY DEF R!Reposo

LEMMA FilasTipadas ==
  ASSUME R!TypeOK
  PROVE  /\ habilidad \in [Habilidades -> UnaHabilidad \cup {NULL}]
         /\ vacante \in [Vacantes -> UnaVacante \cup {NULL}]
         /\ NULL \notin UnaHabilidad /\ NULL \notin UnaVacante
BY NuloAparte DEF R!TypeOK, UnaHabilidad, UnaVacante

(* A request goes on while the vacancies stay as they are.                  *)
LEMMA SoloPedido ==
  ASSUME IInvRequisitos, NEW p \in Tramites, NEW m, R!Pasa(p, m),
         EsPedido(m), m.op # "borrado", m.op = "edicion" => m.cruce = "NO"
  PROVE  /\ pedido' = [q \in Tramites |-> pedido'[q]]
         /\ pedido'[p] = m
         /\ \A q \in Tramites \ {p} : pedido'[q] = pedido[q]
         /\ \A q \in Tramites : EsPedido(pedido'[q])
         /\ UnaRetiene'
<1>1. /\ pedido' = [q \in Tramites |-> pedido'[q]]
      /\ pedido'[p] = m
      /\ \A q \in Tramites \ {p} : pedido'[q] = pedido[q]
      BY DEF R!Pasa, IInvRequisitos
<1> QED BY <1>1 DEF IInvRequisitos, UnaRetiene, R!En

(* What is required exists, by vacancies and skills.                        *)
LEMMA RequeridaPorVacante ==
  R!RequeridaExiste <=>
    /\ \A v \in Vacantes : vacante[v] # NULL =>
         \A h \in Habilidades : h \in vacante[v].requiere =>
           habilidad[h] # NULL
    /\ \A h, k \in Habilidades :
         habilidad[h] # NULL /\ habilidad[k] # NULL
           /\ habilidad[h].nombre = habilidad[k].nombre => h = k
BY DEF R!RequeridaExiste, R!Requerida, R!Vivas

(* The vacancies and the skills as they are, a request goes on.             *)
LEMMA PasoAvanza ==
  ASSUME IInvRequisitos, NEW p \in Tramites, NEW m, R!Pasa(p, m),
         EsPedido(m), m.op # "borrado", m.op = "edicion" => m.cruce = "NO",
         vacante' = vacante, R!TypeOK', R!RequeridaExiste'
  PROVE  IInvRequisitos'
<1>1. /\ pedido' = [q \in Tramites |-> pedido'[q]]
      /\ pedido'[p] = m
      /\ \A q \in Tramites \ {p} : pedido'[q] = pedido[q]
      /\ \A q \in Tramites : EsPedido(pedido'[q])
      /\ UnaRetiene'
      BY SoloPedido
<1>2. \A q \in Tramites : EdicionViva(pedido'[q])
      BY <1>1 DEF IInvRequisitos, EdicionViva
<1>3. \A q \in Tramites : EsPedido(pedido[q])' /\ EdicionViva(pedido[q])'
      BY <1>1, <1>2 DEF EsPedido, EdicionViva
<1> QED BY <1>1, <1>3 DEF IInvRequisitos

LEMMA Quieto ==
  ASSUME IInvRequisitos, UNCHANGED <<habilidad, vacante>>
  PROVE  R!TypeOK' /\ R!RequeridaExiste'
BY DEF IInvRequisitos, R!TypeOK, R!RequeridaExiste, R!Requerida, R!Vivas

(* The requests as they are, the skills change.                             *)
LEMMA PasoSuelto ==
  ASSUME IInvRequisitos, UNCHANGED <<vacante, pedido>>,
         R!TypeOK', R!RequeridaExiste'
  PROVE  IInvRequisitos'
BY DEF IInvRequisitos, UnaRetiene, R!En, EsPedido, EdicionViva

LEMMA PasoCreaHabilidad ==
  ASSUME IInvRequisitos, NEW h \in Habilidades, NEW n \in Nombres,
         NEW activo \in BOOLEAN, R!crear_habilidad(h, R!Fila(n, activo))
  PROVE  IInvRequisitos'
<1> DEFINE f == R!Fila(n, activo)
<1>1. f \in UnaHabilidad /\ f.nombre = n
      BY DEF R!Fila, UnaHabilidad
<1>2. /\ habilidad[h] = NULL /\ R!Cabe(h, f.nombre)
      /\ habilidad' = [habilidad EXCEPT ![h] = f]
      /\ UNCHANGED <<vacante, pedido>>
      BY DEF R!crear_habilidad
<1>3. R!TypeOK
      BY DEF IInvRequisitos
<1> HIDE DEF f
<1>4. /\ habilidad' \in [Habilidades -> UnaHabilidad \cup {NULL}]
      /\ habilidad'[h] = f /\ f # NULL
      /\ \A k \in Habilidades \ {h} : habilidad'[k] = habilidad[k]
      BY <1>1, <1>2, <1>3, FilasTipadas
<1>5. R!TypeOK'
      BY <1>2, <1>3, <1>4 DEF R!TypeOK, UnaHabilidad
<1>6. \A k \in Habilidades :
        habilidad[k] # NULL /\ k # h => habilidad[k].nombre # f.nombre
      BY <1>2 DEF R!Cabe, R!Vivas
<1>7. R!RequeridaExiste'
  <2>1. \A v \in Vacantes : vacante'[v] # NULL =>
          \A k \in Habilidades : k \in vacante'[v].requiere =>
            habilidad'[k] # NULL
        BY <1>2, <1>4, RequeridaPorVacante DEF IInvRequisitos
  <2>2. \A k, l \in Habilidades :
          habilidad'[k] # NULL /\ habilidad'[l] # NULL
            /\ habilidad'[k].nombre = habilidad'[l].nombre => k = l
        BY <1>4, <1>6, RequeridaPorVacante DEF IInvRequisitos
  <2> QED BY <2>1, <2>2 DEF R!RequeridaExiste, R!Requerida, R!Vivas
<1> QED BY <1>2, <1>5, <1>7, PasoSuelto

LEMMA PasoEliminaHabilidad ==
  ASSUME IInvRequisitos, NEW h \in Habilidades, R!eliminar_habilidad(h)
  PROVE  IInvRequisitos'
<1>1. /\ ~ R!Requerida(h)
      /\ habilidad' = [habilidad EXCEPT ![h] = NULL]
      /\ UNCHANGED <<vacante, pedido>> /\ R!TypeOK
      BY DEF R!eliminar_habilidad, IInvRequisitos
<1>2. /\ habilidad' \in [Habilidades -> UnaHabilidad \cup {NULL}]
      /\ habilidad'[h] = NULL
      /\ \A k \in Habilidades \ {h} : habilidad'[k] = habilidad[k]
      BY <1>1, FilasTipadas
<1>3. R!TypeOK'
      BY <1>1, <1>2 DEF R!TypeOK, UnaHabilidad
<1>4. R!RequeridaExiste'
      BY <1>1, <1>2 DEF IInvRequisitos, R!RequeridaExiste, R!Requerida, R!Vivas
<1> QED BY <1>1, <1>3, <1>4, PasoSuelto

LEMMA PasoEscribeHabilidad ==
  ASSUME IInvRequisitos, NEW p \in Tramites, R!EscribeHabilidad(p)
  PROVE  IInvRequisitos'
<1> DEFINE m == pedido[p]
           h == m.id
           f == R!Escrita(m)
<1>1. /\ m.op = "habilidad" /\ h \in R!Vivas /\ R!Cabe(h, f.nombre)
      /\ habilidad' = [habilidad EXCEPT ![h] = f]
      /\ R!Pasa(p, R!Reposo) /\ vacante' = vacante /\ R!TypeOK
      BY DEF R!EscribeHabilidad, R!En, IInvRequisitos
<1>2. m \in PedidoHabilidad
      BY <1>1, OpDePedido DEF IInvRequisitos
<1>3. h \in Habilidades /\ habilidad[h] \in UnaHabilidad
      BY <1>1, FilasTipadas DEF R!Vivas
<1>4. f \in UnaHabilidad
      BY <1>2, <1>3 DEF R!Escrita, PedidoHabilidad, UnaHabilidad
<1> HIDE DEF f
<1>5. /\ habilidad' \in [Habilidades -> UnaHabilidad \cup {NULL}]
      /\ habilidad'[h] = f /\ f # NULL
      /\ \A k \in Habilidades \ {h} : habilidad'[k] = habilidad[k]
      BY <1>1, <1>3, <1>4, FilasTipadas
<1>6. R!TypeOK'
      BY <1>1, <1>5 DEF R!TypeOK, UnaHabilidad
<1>7. \A k \in Habilidades :
        habilidad[k] # NULL /\ k # h => habilidad[k].nombre # f.nombre
      BY <1>1 DEF R!Cabe, R!Vivas
<1>8. R!RequeridaExiste'
  <2>1. \A v \in Vacantes : vacante'[v] # NULL =>
          \A k \in Habilidades : k \in vacante'[v].requiere =>
            habilidad'[k] # NULL
        BY <1>1, <1>5, RequeridaPorVacante DEF IInvRequisitos
  <2>2. \A k, l \in Habilidades :
          habilidad'[k] # NULL /\ habilidad'[l] # NULL
            /\ habilidad'[k].nombre = habilidad'[l].nombre => k = l
        BY <1>3, <1>5, <1>7, RequeridaPorVacante DEF IInvRequisitos
  <2> QED BY <2>1, <2>2 DEF R!RequeridaExiste, R!Requerida, R!Vivas
<1>9. EsPedido(R!Reposo)
      BY DEF EsPedido
<1> QED BY <1>1, <1>6, <1>8, <1>9, ReposoLibre, PasoAvanza

(* A request reads, or is undone: it holds no row yet.                      *)
PideAlgo(p) ==
  \E m : /\ R!Pasa(p, m) /\ EsPedido(m) /\ m.op # "borrado"
         /\ m.op = "edicion" => m.cruce = "NO"
         /\ UNCHANGED <<habilidad, vacante>>

LEMMA PideHabilidad ==
  ASSUME IInvRequisitos, NEW p \in Tramites, NEW h \in Habilidades,
         NEW n \in Nombres, NEW activo \in BOOLEAN,
         R!LeeHabilidad(p, h, R!Fila(n, activo))
  PROVE  PideAlgo(p)
<1> DEFINE m == [op |-> "habilidad", id |-> h, fila |-> R!Fila(n, activo),
                 foto |-> habilidad[h]]
<1>1. habilidad[h] \in UnaHabilidad
      BY FilasTipadas DEF IInvRequisitos, R!LeeHabilidad, R!Vivas
<1>2. m \in PedidoHabilidad
      BY <1>1 DEF PedidoHabilidad, R!Fila, UnaHabilidad
<1>3. R!Pasa(p, m) /\ UNCHANGED <<habilidad, vacante>>
      BY DEF R!LeeHabilidad
<1>4. EsPedido(m) /\ m.op = "habilidad"
      BY <1>2 DEF EsPedido
<1> QED BY <1>3, <1>4 DEF PideAlgo

LEMMA PideAlta ==
  ASSUME NEW p \in Tramites, NEW hs \in SUBSET Habilidades, R!LeeAlta(p, hs)
  PROVE  PideAlgo(p)
<1> DEFINE m == [op |-> "alta", piden |-> hs, objetivos |-> {}]
<1>1. m \in PedidoAlta
      BY DEF PedidoAlta
<1>2. R!Pasa(p, m) /\ UNCHANGED <<habilidad, vacante>>
      BY DEF R!LeeAlta
<1>3. EsPedido(m) /\ m.op = "alta"
      BY <1>1 DEF EsPedido
<1> QED BY <1>2, <1>3 DEF PideAlgo

LEMMA PideEdicion ==
  ASSUME NEW p \in Tramites, NEW v \in Vacantes,
         NEW hs \in SUBSET Habilidades, NEW fila \in BOOLEAN,
         R!LeeEdicion(p, v, hs, fila)
  PROVE  PideAlgo(p)
<1> DEFINE m == [op |-> "edicion", id |-> v, piden |-> hs, fila |-> fila,
                 objetivos |-> {}, cruce |-> "NO"]
<1>1. m \in PedidoEdicion
      BY DEF PedidoEdicion
<1>2. R!Pasa(p, m) /\ UNCHANGED <<habilidad, vacante>>
      BY DEF R!LeeEdicion
<1>3. EsPedido(m) /\ m.op = "edicion" /\ m.cruce = "NO"
      BY <1>1 DEF EsPedido
<1> QED BY <1>2, <1>3 DEF PideAlgo

LEMMA PideNada ==
  ASSUME NEW p \in Tramites, R!Revierte(p)
  PROVE  PideAlgo(p)
BY ReposoLibre DEF R!Revierte, EsPedido, PideAlgo

LEMMA PasoPide ==
  ASSUME IInvRequisitos, NEW p \in Tramites, PideAlgo(p)
  PROVE  IInvRequisitos'
<1>1. R!TypeOK' /\ R!RequeridaExiste'
      BY Quieto DEF PideAlgo
<1> QED BY <1>1, PasoAvanza DEF PideAlgo

(* The DELETE starts: the edition holds the row if it updates it.           *)
LEMMA PasoBorra ==
  ASSUME IInvRequisitos, NEW p \in Tramites, R!Borra(p)
  PROVE  IInvRequisitos'
<1> DEFINE m == pedido[p]
           b == [m EXCEPT !.op = "borrado",
                          !.objetivos = vacante[m.id].requiere]
<1>1. /\ m.op = "edicion" /\ vacante[m.id] # NULL
      /\ m.fila => ~ R!Retenida(m.id)
      /\ R!Pasa(p, b) /\ UNCHANGED <<habilidad, vacante>>
      BY DEF R!Borra, R!En
<1>2. m \in PedidoEdicion /\ m.cruce = "NO"
      BY <1>1, OpDePedido DEF IInvRequisitos, EdicionViva
<1>3. vacante[m.id] \in UnaVacante
      BY <1>1, <1>2, FilasTipadas DEF IInvRequisitos, PedidoEdicion
<1>4. /\ b \in PedidoEdicion /\ b.op = "borrado" /\ b.id = m.id
      /\ b.fila = m.fila /\ b.cruce = "NO"
      /\ b.objetivos = vacante[m.id].requiere
      BY <1>2, <1>3 DEF PedidoEdicion, UnaVacante
<1> HIDE DEF b
<1>5. /\ pedido' = [q \in Tramites |-> pedido'[q]]
      /\ pedido'[p] = b
      /\ \A q \in Tramites \ {p} : pedido'[q] = pedido[q]
      BY <1>1 DEF R!Pasa, IInvRequisitos
<1>6. R!TypeOK' /\ R!RequeridaExiste'
      BY <1>1, Quieto
<1>7. UnaRetiene'
  <2>1. \A q \in Tramites :
          R!En(q, "borrado") /\ pedido[q].id = m.id /\ pedido[q].fila
            => ~ m.fila
        BY <1>1 DEF R!Retenida
  <2> QED BY <1>4, <1>5, <2>1 DEF IInvRequisitos, UnaRetiene, R!En
<1>8. \A q \in Tramites : EsPedido(pedido[q])' /\ EdicionViva(pedido[q])'
  <2> TAKE q \in Tramites
  <2>1. CASE q = p
        BY <1>1, <1>4, <1>5, <2>1 DEF EsPedido, EdicionViva
  <2>2. CASE q # p
        BY <1>1, <1>5, <2>2 DEF IInvRequisitos, EsPedido, EdicionViva
  <2> QED BY <2>1, <2>2
<1> QED BY <1>5, <1>6, <1>7, <1>8 DEF IInvRequisitos

(* The requests as they are, or at rest, and one vacancy as it was or       *)
(* another that requires what is there.                                     *)
LEMMA VacanteEscrita ==
  ASSUME IInvRequisitos, NEW v \in Vacantes, NEW f \in UnaVacante,
         \A h \in f.requiere : h \in R!Vivas,
         habilidad' = habilidad, vacante' = [vacante EXCEPT ![v] = f]
  PROVE  /\ R!TypeOK' /\ R!RequeridaExiste'
         /\ vacante'[v] = f /\ f # NULL
         /\ \A w \in Vacantes \ {v} : vacante'[w] = vacante[w]
<1>1. R!TypeOK /\ R!RequeridaExiste
      BY DEF IInvRequisitos
<1>2. /\ vacante' \in [Vacantes -> UnaVacante \cup {NULL}]
      /\ vacante'[v] = f /\ f # NULL
      /\ \A w \in Vacantes \ {v} : vacante'[w] = vacante[w]
      BY <1>1, FilasTipadas
<1>3. R!TypeOK'
      BY <1>1, <1>2 DEF R!TypeOK, UnaVacante
<1>4. R!RequeridaExiste'
  <2>1. \A w \in Vacantes : vacante'[w] # NULL =>
          \A h \in Habilidades : h \in vacante'[w].requiere =>
            habilidad'[h] # NULL
        BY <1>1, <1>2, RequeridaPorVacante DEF R!Vivas
  <2>2. \A h, k \in Habilidades :
          habilidad'[h] # NULL /\ habilidad'[k] # NULL
            /\ habilidad'[h].nombre = habilidad'[k].nombre => h = k
        BY <1>1, RequeridaPorVacante
  <2> QED BY <2>1, <2>2 DEF R!RequeridaExiste, R!Requerida, R!Vivas
<1> QED BY <1>2, <1>3, <1>4

LEMMA PasoEscribeAlta ==
  ASSUME IInvRequisitos, NEW p \in Tramites, NEW v \in Vacantes,
         R!EscribeAlta(p, v)
  PROVE  IInvRequisitos'
<1> DEFINE m == pedido[p]
           f == [estado |-> "BORRADOR", requiere |-> m.piden]
<1>1. /\ m.op = "alta" /\ vacante[v] = NULL /\ m.piden \subseteq R!Vivas
      /\ vacante' = [vacante EXCEPT ![v] = f]
      /\ R!Pasa(p, R!Reposo) /\ habilidad' = habilidad
      BY DEF R!EscribeAlta, R!En
<1>2. f \in UnaVacante /\ f.requiere = m.piden
      BY <1>1, OpDePedido DEF IInvRequisitos, PedidoAlta, UnaVacante
<1> HIDE DEF f
<1>3. /\ R!TypeOK' /\ R!RequeridaExiste'
      /\ \A w \in Vacantes \ {v} : vacante'[w] = vacante[w]
      BY <1>1, <1>2, VacanteEscrita
<1>4. EsPedido(R!Reposo)
      BY DEF EsPedido
<1>5. /\ pedido' = [q \in Tramites |-> pedido'[q]]
      /\ pedido'[p] = R!Reposo
      /\ \A q \in Tramites \ {p} : pedido'[q] = pedido[q]
      /\ UnaRetiene'
      BY <1>1, <1>4, ReposoLibre, SoloPedido
<1>6. \A q \in Tramites : EsPedido(pedido[q])' /\ EdicionViva(pedido[q])'
  <2> TAKE q \in Tramites
  <2>1. CASE q = p
        BY <1>4, <1>5, <2>1, ReposoLibre DEF EsPedido, EdicionViva
  <2>2. CASE q # p
    <3>1. pedido'[q] = pedido[q] /\ EsPedido(pedido[q])
            /\ EdicionViva(pedido[q])
          BY <1>5, <2>2 DEF IInvRequisitos
    <3>2. pedido[q].op = "borrado" =>
            pedido[q].id \in Vacantes /\ pedido[q].id # v
          BY <1>1, <3>1, OpDePedido DEF EdicionViva, PedidoEdicion
    <3> QED BY <1>3, <3>1, <3>2 DEF EsPedido, EdicionViva
  <2> QED BY <2>1, <2>2
<1> QED BY <1>3, <1>5, <1>6 DEF IInvRequisitos

LEMMA PasoPublica ==
  ASSUME IInvRequisitos, NEW v \in Vacantes, R!publicar_vacante(v)
  PROVE  IInvRequisitos'
<1> DEFINE f == [vacante[v] EXCEPT !.estado = "PUBLICADA"]
<1>1. /\ vacante[v] # NULL
      /\ vacante' = [vacante EXCEPT ![v] = f]
      /\ UNCHANGED <<habilidad, pedido>>
      BY DEF R!publicar_vacante
<1>2. vacante[v] \in UnaVacante
      BY <1>1, FilasTipadas DEF IInvRequisitos
<1>3. f \in UnaVacante /\ f.requiere = vacante[v].requiere
      BY <1>2 DEF UnaVacante
<1>4. \A h \in f.requiere : h \in R!Vivas
      BY <1>1, <1>2, <1>3 DEF IInvRequisitos, R!RequeridaExiste, R!Requerida,
         UnaVacante
<1> HIDE DEF f
<1>5. /\ R!TypeOK' /\ R!RequeridaExiste' /\ vacante'[v] = f /\ f # NULL
      /\ \A w \in Vacantes \ {v} : vacante'[w] = vacante[w]
      BY <1>1, <1>3, <1>4, VacanteEscrita
<1>6. \A q \in Tramites : EsPedido(pedido[q])' /\ EdicionViva(pedido[q])'
  <2> TAKE q \in Tramites
  <2>1. pedido'[q] = pedido[q] /\ EsPedido(pedido[q])
          /\ EdicionViva(pedido[q])
        BY <1>1 DEF IInvRequisitos
  <2>2. pedido[q].op = "borrado" => pedido[q].id \in Vacantes
        BY <2>1, OpDePedido DEF PedidoEdicion
  <2> QED BY <1>3, <1>5, <2>1, <2>2 DEF EsPedido, EdicionViva
<1> QED BY <1>1, <1>5, <1>6 DEF IInvRequisitos, UnaRetiene, R!En

LEMMA PasoEliminaVacante ==
  ASSUME IInvRequisitos, NEW v \in Vacantes, R!eliminar_vacante(v)
  PROVE  IInvRequisitos'
<1> DEFINE Cae(q) ==
      pedido[q].op \in {"edicion", "borrado"} /\ pedido[q].id = v
<1>1. /\ vacante' = [vacante EXCEPT ![v] = NULL]
      /\ pedido' = [q \in Tramites |->
                      IF Cae(q) THEN R!Reposo ELSE pedido[q]]
      /\ habilidad' = habilidad /\ R!TypeOK
      BY DEF R!eliminar_vacante, IInvRequisitos
<1>2. /\ vacante' \in [Vacantes -> UnaVacante \cup {NULL}]
      /\ vacante'[v] = NULL
      /\ \A w \in Vacantes \ {v} : vacante'[w] = vacante[w]
      BY <1>1, FilasTipadas
<1>3. R!TypeOK'
      BY <1>1, <1>2 DEF R!TypeOK, UnaVacante
<1>4. R!RequeridaExiste'
      BY <1>1, <1>2 DEF IInvRequisitos, R!RequeridaExiste, R!Requerida, R!Vivas
<1>5. /\ pedido' = [q \in Tramites |-> pedido'[q]]
      /\ \A q \in Tramites :
           pedido'[q] = R!Reposo \/ (pedido'[q] = pedido[q] /\ ~ Cae(q))
      BY <1>1
<1>6. UnaRetiene'
      BY <1>5, ReposoLibre DEF IInvRequisitos, UnaRetiene, R!En
<1>7. \A q \in Tramites : EsPedido(pedido[q])' /\ EdicionViva(pedido[q])'
  <2> TAKE q \in Tramites
  <2>1. CASE pedido'[q] = R!Reposo
        BY <2>1, ReposoLibre DEF EsPedido, EdicionViva
  <2>2. CASE pedido'[q] = pedido[q] /\ ~ Cae(q)
    <3>1. EsPedido(pedido[q]) /\ EdicionViva(pedido[q])
          BY DEF IInvRequisitos
    <3>2. pedido[q].op = "borrado" =>
            pedido[q].id \in Vacantes /\ pedido[q].id # v
          BY <2>2, <3>1, OpDePedido DEF PedidoEdicion
    <3> QED BY <1>2, <2>2, <3>1, <3>2 DEF EsPedido, EdicionViva
  <2> QED BY <1>5, <2>1, <2>2
<1> QED BY <1>3, <1>4, <1>5, <1>6, <1>7 DEF IInvRequisitos

(* An edition commits.  The others whose DELETE took the same vacancy learn *)
(* of it; those that hold the row cannot be there if this one held it.      *)
LEMMA LlegaEdicion ==
  ASSUME IInvRequisitos, NEW p \in Tramites, R!EscribeEdicion(p)
  PROVE  /\ pedido[p] \in PedidoEdicion /\ pedido[p].op = "borrado"
         /\ R!TypeOK' /\ R!RequeridaExiste'
         /\ vacante'[pedido[p].id] # NULL
         /\ vacante'[pedido[p].id].requiere =
              (vacante[pedido[p].id].requiere \ pedido[p].objetivos)
                \cup pedido[p].piden
         /\ \A w \in Vacantes \ {pedido[p].id} : vacante'[w] = vacante[w]
         /\ pedido' = [q \in Tramites |->
                         IF q = p THEN R!Reposo ELSE R!Cruza(q, pedido[p])]
<1> DEFINE m == pedido[p]
           rs == (vacante[m.id].requiere \ m.objetivos) \cup m.piden
           f == [vacante[m.id] EXCEPT !.requiere = rs]
<1>1. /\ m.op = "borrado" /\ vacante[m.id] # NULL /\ m.piden \subseteq R!Vivas
      /\ vacante' = [vacante EXCEPT ![m.id] = f]
      /\ pedido' = [q \in Tramites |->
                      IF q = p THEN R!Reposo ELSE R!Cruza(q, m)]
      /\ habilidad' = habilidad
      BY DEF R!EscribeEdicion, R!En
<1>2. m \in PedidoEdicion
      BY <1>1, OpDePedido DEF IInvRequisitos
<1>3. m.id \in Vacantes /\ m.piden \in SUBSET Habilidades
      BY <1>2 DEF PedidoEdicion
<1>4. vacante[m.id] \in UnaVacante
      BY <1>1, <1>3, FilasTipadas DEF IInvRequisitos
<1>5. vacante[m.id].requiere \in SUBSET Habilidades
      BY <1>4 DEF UnaVacante
<1>6. rs \in SUBSET Habilidades
      BY <1>3, <1>5
<1>7. \A h \in rs : h \in R!Vivas
      BY <1>1, <1>3, <1>5 DEF IInvRequisitos, R!RequeridaExiste, R!Requerida
<1> HIDE DEF rs
<1>8. f \in UnaVacante /\ f.requiere = rs
      BY <1>4, <1>6 DEF UnaVacante
<1> HIDE DEF f
<1>9. /\ R!TypeOK' /\ R!RequeridaExiste' /\ vacante'[m.id] = f /\ f # NULL
      /\ \A w \in Vacantes \ {m.id} : vacante'[w] = vacante[w]
      BY <1>1, <1>3, <1>7, <1>8, VacanteEscrita
<1>10. vacante'[m.id].requiere =
         (vacante[m.id].requiere \ m.objetivos) \cup m.piden
      BY <1>8, <1>9 DEF rs
<1> QED BY <1>1, <1>2, <1>9, <1>10

LEMMA PasoEscribeEdicion ==
  ASSUME IInvRequisitos, NEW p \in Tramites, R!EscribeEdicion(p)
  PROVE  IInvRequisitos'
<1> DEFINE m == pedido[p]
           c == IF m.fila THEN "CON_FILA" ELSE "SIN_FILA"
           Cruzada(q) == pedido[q].op = "borrado" /\ pedido[q].id = m.id
<1>1. /\ m \in PedidoEdicion /\ m.op = "borrado"
      /\ R!TypeOK' /\ R!RequeridaExiste' /\ vacante'[m.id] # NULL
      /\ \A w \in Vacantes \ {m.id} : vacante'[w] = vacante[w]
      /\ pedido' = [q \in Tramites |->
                      IF q = p THEN R!Reposo ELSE R!Cruza(q, m)]
      BY LlegaEdicion
<1>2. /\ pedido' = [q \in Tramites |-> pedido'[q]]
      /\ pedido'[p] = R!Reposo
      BY <1>1
<1>3. \A q \in Tramites \ {p} :
        IF Cruzada(q) THEN pedido'[q] = [pedido[q] EXCEPT !.cruce = c]
        ELSE pedido'[q] = pedido[q]
      BY <1>1 DEF R!Cruza, R!En
<1>4. \A q \in Tramites : pedido[q].op = "borrado" =>
        pedido[q] \in PedidoEdicion /\ pedido[q].id \in Vacantes
      BY OpDePedido DEF IInvRequisitos, PedidoEdicion
<1>5. c \in {"CON_FILA", "SIN_FILA"} /\ (c = "CON_FILA" => m.fila)
      OBVIOUS
<1> HIDE DEF c
<1>6. \A q \in Tramites \ {p} : Cruzada(q) =>
        /\ pedido'[q] \in PedidoEdicion /\ pedido'[q].op = "borrado"
        /\ pedido'[q].id = m.id /\ pedido'[q].fila = pedido[q].fila
        /\ pedido'[q].cruce = c
  <2> SUFFICES ASSUME NEW q \in Tramites \ {p}, Cruzada(q)
               PROVE  /\ pedido'[q] \in PedidoEdicion
                      /\ pedido'[q].op = "borrado"
                      /\ pedido'[q].id = m.id
                      /\ pedido'[q].fila = pedido[q].fila
                      /\ pedido'[q].cruce = c
      OBVIOUS
  <2>1. pedido[q] \in PedidoEdicion /\ pedido'[q] = [pedido[q] EXCEPT !.cruce = c]
        BY <1>3, <1>4
  <2> QED BY <1>5, <2>1 DEF PedidoEdicion
<1>7. UnaRetiene'
  <2>1. \A q \in Tramites : pedido'[q].op = "borrado" =>
          /\ q # p /\ pedido[q].op = "borrado"
          /\ pedido'[q].id = pedido[q].id /\ pedido'[q].fila = pedido[q].fila
        BY <1>2, <1>3, <1>6, ReposoLibre
  <2> QED BY <2>1 DEF IInvRequisitos, UnaRetiene, R!En
<1>8. \A q \in Tramites : EsPedido(pedido[q])' /\ EdicionViva(pedido[q])'
  <2> TAKE q \in Tramites
  <2>1. CASE q = p
        BY <1>2, <2>1, ReposoLibre DEF EsPedido, EdicionViva
  <2>2. CASE q # p /\ Cruzada(q)
    <3>1. c = "CON_FILA" => ~ pedido[q].fila
          BY <1>1, <1>5, <2>2 DEF IInvRequisitos, UnaRetiene, R!En
    <3> QED BY <1>1, <1>5, <1>6, <2>2, <3>1 DEF EsPedido, EdicionViva
  <2>3. CASE q # p /\ ~ Cruzada(q)
    <3>1. pedido'[q] = pedido[q] /\ EsPedido(pedido[q])
            /\ EdicionViva(pedido[q])
          BY <1>3, <2>3 DEF IInvRequisitos
    <3> QED BY <1>1, <1>4, <2>3, <3>1 DEF EsPedido, EdicionViva
  <2> QED BY <2>1, <2>2, <2>3
<1> QED BY <1>1, <1>2, <1>7, <1>8 DEF IInvRequisitos

LEMMA InicioRequisitos == R!Init => IInvRequisitos
<1> SUFFICES ASSUME R!Init PROVE IInvRequisitos
    OBVIOUS
<1>1. R!TypeOK /\ R!RequeridaExiste
      BY DEF R!Init, R!TypeOK, R!RequeridaExiste, R!Requerida, R!Vivas
<1>2. \A p \in Tramites : pedido[p] = R!Reposo
      BY DEF R!Init
<1>3. UnaRetiene /\ pedido = [p \in Tramites |-> pedido[p]]
      BY <1>2, ReposoLibre DEF R!Init, UnaRetiene, R!En
<1>4. \A p \in Tramites : EsPedido(pedido[p]) /\ EdicionViva(pedido[p])
      BY <1>2, ReposoLibre DEF EsPedido, EdicionViva
<1> QED BY <1>1, <1>3, <1>4 DEF IInvRequisitos

LEMMA PasoRequisitos == IInvRequisitos /\ [R!Next]_(R!vars) => IInvRequisitos'
<1> SUFFICES ASSUME IInvRequisitos, [R!Next]_(R!vars) PROVE IInvRequisitos'
    OBVIOUS
<1>1. CASE UNCHANGED R!vars
      BY <1>1, Quieto, PasoSuelto DEF R!vars
<1>2. ASSUME NEW p \in Tramites, R!actualizar_habilidad(p)
      PROVE  IInvRequisitos'
      BY <1>2, PideHabilidad, PasoPide, PasoEscribeHabilidad
         DEF R!actualizar_habilidad
<1>3. ASSUME NEW p \in Tramites, R!crear_vacante(p)
      PROVE  IInvRequisitos'
      BY <1>3, PideAlta, PasoPide, PasoEscribeAlta DEF R!crear_vacante
<1>4. ASSUME NEW p \in Tramites, R!actualizar_vacante(p)
      PROVE  IInvRequisitos'
      BY <1>4, PideEdicion, PasoPide, PasoBorra, PasoEscribeEdicion
         DEF R!actualizar_vacante
<1>5. ASSUME NEW p \in Tramites, R!Revierte(p)
      PROVE  IInvRequisitos'
      BY <1>5, PideNada, PasoPide
<1>6. ASSUME NEW h \in Habilidades,
             \/ \E n \in Nombres, activo \in BOOLEAN :
                  R!crear_habilidad(h, R!Fila(n, activo))
             \/ R!eliminar_habilidad(h)
      PROVE  IInvRequisitos'
      BY <1>6, PasoCreaHabilidad, PasoEliminaHabilidad
<1>7. ASSUME NEW v \in Vacantes, R!publicar_vacante(v) \/ R!eliminar_vacante(v)
      PROVE  IInvRequisitos'
      BY <1>7, PasoPublica, PasoEliminaVacante
<1> QED BY <1>1, <1>2, <1>3, <1>4, <1>5, <1>6, <1>7 DEF R!Next

THEOREM RequisitosInvariante == R!Spec => []IInvRequisitos
BY InicioRequisitos, PasoRequisitos, PTL DEF R!Spec

(* Only its own COMMIT ends an edition that started to write and leaves the *)
(* vacancy there.                                                           *)
EdicionTermina(p) ==
  /\ R!En(p, "borrado") /\ pedido'[p] = R!Reposo /\ vacante' # vacante
  /\ vacante'[pedido[p].id] # NULL

LEMMA TerminaSoloElla ==
  ASSUME IInvRequisitos, [R!Next]_(R!vars), NEW p \in Tramites, EdicionTermina(p)
  PROVE  R!EscribeEdicion(p)
<1>1. pedido[p].op = "borrado" /\ pedido'[p].op = "libre" /\ vacante' # vacante
      BY ReposoLibre DEF EdicionTermina, R!En
<1>2. ~ UNCHANGED R!vars
      BY <1>1 DEF R!vars
<1>3. ASSUME NEW q \in Tramites, R!actualizar_habilidad(q)
      PROVE  FALSE
      BY <1>1, <1>3 DEF R!actualizar_habilidad, R!LeeHabilidad,
         R!EscribeHabilidad
<1>4. ASSUME NEW q \in Tramites, R!crear_vacante(q)
      PROVE  FALSE
      BY <1>1, <1>4 DEF R!crear_vacante, R!LeeAlta, R!EscribeAlta, R!Pasa,
         R!En, IInvRequisitos
<1>5. ASSUME NEW q \in Tramites, R!actualizar_vacante(q)
      PROVE  R!EscribeEdicion(p)
  <2>1. R!EscribeEdicion(q)
        BY <1>1, <1>5 DEF R!actualizar_vacante, R!LeeEdicion, R!Borra
  <2>2. q # p => pedido'[p] = R!Cruza(p, pedido[q])
        BY <2>1 DEF R!EscribeEdicion
  <2>3. pedido[p] \in PedidoEdicion
        BY <1>1, OpDePedido DEF IInvRequisitos
  <2>4. q # p => pedido'[p].op = "borrado"
        BY <1>1, <2>2, <2>3 DEF R!Cruza, PedidoEdicion
  <2> QED BY <1>1, <2>1, <2>4
<1>6. ASSUME NEW q \in Tramites, R!Revierte(q)
      PROVE  FALSE
      BY <1>1, <1>6 DEF R!Revierte
<1>7. ASSUME NEW h \in Habilidades,
             \/ \E n \in Nombres, activo \in BOOLEAN :
                  R!crear_habilidad(h, R!Fila(n, activo))
             \/ R!eliminar_habilidad(h)
      PROVE  FALSE
      BY <1>1, <1>7 DEF R!crear_habilidad, R!eliminar_habilidad
<1>8. ASSUME NEW v \in Vacantes, R!publicar_vacante(v)
      PROVE  FALSE
      BY <1>1, <1>8 DEF R!publicar_vacante
<1>9. ASSUME NEW v \in Vacantes, R!eliminar_vacante(v)
      PROVE  FALSE
  <2>1. pedido[p].id # v
        BY <1>9 DEF R!eliminar_vacante, EdicionTermina, IInvRequisitos,
           R!TypeOK
  <2>2. pedido'[p] = pedido[p]
        BY <1>9, <2>1 DEF R!eliminar_vacante
  <2> QED BY <1>1, <2>2
<1> QED BY <1>2, <1>3, <1>4, <1>5, <1>6, <1>7, <1>8, <1>9 DEF R!Next

(* The skills the DELETE took are all the vacancy had, unless another       *)
(* edition committed since.                                                 *)
LEMMA EdicionDejaLoPedido ==
  ASSUME IInvRequisitos, [R!Next]_(R!vars), NEW p \in Tramites, EdicionTermina(p)
  PROVE  /\ pedido[p].cruce = "CON_FILA" => ~ pedido[p].fila
         /\ pedido[p].cruce = "NO" =>
              vacante'[pedido[p].id].requiere = pedido[p].piden
<1>1. R!EscribeEdicion(p)
      BY TerminaSoloElla
<1>2. /\ pedido[p].op = "borrado"
      /\ vacante'[pedido[p].id].requiere =
           (vacante[pedido[p].id].requiere \ pedido[p].objetivos)
             \cup pedido[p].piden
      BY <1>1, LlegaEdicion
<1>3. EdicionViva(pedido[p])
      BY DEF IInvRequisitos
<1> QED BY <1>2, <1>3 DEF EdicionViva

THEOREM RequisitosSiempreFirmes == R!Spec => R!RequisitosFirmes
<1>1. IInvRequisitos /\ [R!Next]_(R!vars) =>
        [\A p \in Tramites :
           R!En(p, "borrado") /\ pedido'[p] = R!Reposo /\ vacante' # vacante
             /\ vacante'[pedido[p].id] # NULL =>
             LET m == pedido[p] IN
             /\ m.cruce = "CON_FILA" => ~ m.fila
             /\ m.cruce = "NO" => vacante'[m.id].requiere = m.piden]_(R!vars)
      BY EdicionDejaLoPedido DEF EdicionTermina
<1>2. IInvRequisitos => R!RequeridaExiste
      BY DEF IInvRequisitos
<1> QED BY <1>1, <1>2, RequisitosInvariante, PTL
        DEF R!Spec, R!RequisitosFirmes, R!EdicionEntera

----------------------------------------------------------------------------
(***************************************************************************)
(* Catalogos: what references a department finds it.                       *)
(***************************************************************************)
FilaCatalogo == [nombre : Nombres, padre : Nat \cup {NULL}]
FilasTipo == tabla \in [K!Tablas -> Seq(FilaCatalogo \cup {NULL})]

(* Referencias, of the tables tb.                                           *)
TablaFirme(tb) ==
  \A t \in K!Tablas : \A i \in DOMAIN tb[t] : tb[t][i] # NULL =>
    /\ tb[t][i].padre # NULL =>
         /\ tb[t][i].padre \in DOMAIN tb["departamento"]
         /\ tb["departamento"][tb[t][i].padre] # NULL
    /\ \A j \in DOMAIN tb[t] :
         tb[t][j] # NULL /\ tb[t][j].nombre = tb[t][i].nombre => j = i

LEMMA NuloEnCatalogo ==
  /\ NULL \notin Nat /\ NULL \notin Nombres /\ NULL \notin FilaCatalogo
  /\ \A f \in FilaCatalogo : f.nombre \in Nombres /\ f.padre \in Nat \cup {NULL}
BY NuloAparte DEF FilaCatalogo

LEMMA ReferenciasDeTabla == K!Referencias <=> TablaFirme(tabla)
BY DEF K!Referencias, TablaFirme, K!Superiores, K!Vivas, K!ConNombre

LEMMA FilaViva ==
  ASSUME FilasTipo, NEW t \in K!Tablas
  PROVE  /\ tabla[t] \in Seq(FilaCatalogo \cup {NULL})
         /\ Len(tabla[t]) \in Nat
         /\ DOMAIN tabla[t] = 1..Len(tabla[t])
         /\ \A i \in K!Vivas(t) : i \in 1..Len(tabla[t]) /\ i \in Nat
                                /\ tabla[t][i] \in FilaCatalogo
BY DEF FilasTipo, K!Vivas

LEMMA TablasDos == "departamento" \in K!Tablas /\ "cargo" \in K!Tablas
BY DEF K!Tablas

LEMMA SuperioresNat == FilasTipo => K!Superiores \subseteq Nat \cup {NULL}
BY FilaViva, TablasDos DEF K!Superiores

(* Rows that go in after those of table t.                                  *)
LEMMA EntranFilas ==
  ASSUME FilasTipo, TablaFirme(tabla), NEW t \in K!Tablas,
         NEW fs \in Seq(FilaCatalogo),
         tabla' = [tabla EXCEPT ![t] = @ \o fs],
         \A k \in 1..Len(fs) : fs[k].nombre \notin K!Usados(t),
         \A k, l \in 1..Len(fs) : fs[k].nombre = fs[l].nombre => k = l,
         \A k \in 1..Len(fs) : fs[k].padre # NULL =>
           /\ fs[k].padre \in DOMAIN tabla'["departamento"]
           /\ tabla'["departamento"][fs[k].padre] # NULL
  PROVE  FilasTipo' /\ TablaFirme(tabla')
<1> DEFINE n == Len(tabla[t])
           N == Len(fs)
<1>1. /\ tabla[t] \in Seq(FilaCatalogo \cup {NULL}) /\ n \in Nat /\ N \in Nat
      /\ fs \in Seq(FilaCatalogo \cup {NULL})
      BY FilaViva
<1>2. /\ tabla'[t] = tabla[t] \o fs
      /\ \A u \in K!Tablas \ {t} : tabla'[u] = tabla[u]
      BY DEF FilasTipo
<1>3. tabla'[t] \in Seq(FilaCatalogo \cup {NULL})
      BY <1>1, <1>2
<1>4. FilasTipo'
      BY <1>3 DEF FilasTipo
<1>5. /\ DOMAIN tabla'[t] = 1..(n + N)
      /\ \A i \in 1..n : i \in DOMAIN tabla[t] /\ tabla'[t][i] = tabla[t][i]
      /\ \A i \in 1..N : tabla'[t][n + i] = fs[i]
      BY <1>1, <1>2
<1>6. \A i \in 1..(n + N) :
        i \in 1..n \/ \E k \in 1..N : i = n + k /\ tabla'[t][i] = fs[k]
  <2> TAKE i \in 1..(n + N)
  <2>1. CASE i > n
    <3>1. i - n \in 1..N /\ i = n + (i - n)
          BY <1>1, <2>1
    <3> QED BY <1>5, <3>1
  <2> QED BY <1>1, <2>1
<1>7. \A d \in DOMAIN tabla["departamento"] :
        /\ d \in DOMAIN tabla'["departamento"]
        /\ tabla'["departamento"][d] = tabla["departamento"][d]
      BY <1>1, <1>2, <1>5, TablasDos
<1>8. \A u \in K!Tablas : \A i \in DOMAIN tabla'[u] : tabla'[u][i] # NULL =>
        /\ tabla'[u][i].padre # NULL =>
             /\ tabla'[u][i].padre \in DOMAIN tabla'["departamento"]
             /\ tabla'["departamento"][tabla'[u][i].padre] # NULL
        /\ \A j \in DOMAIN tabla'[u] :
             tabla'[u][j] # NULL /\ tabla'[u][j].nombre = tabla'[u][i].nombre
               => j = i
  <2> SUFFICES ASSUME NEW u \in K!Tablas, NEW i \in DOMAIN tabla'[u],
                      tabla'[u][i] # NULL
               PROVE  /\ tabla'[u][i].padre # NULL =>
                           /\ tabla'[u][i].padre \in DOMAIN tabla'["departamento"]
                           /\ tabla'["departamento"][tabla'[u][i].padre] # NULL
                      /\ \A j \in DOMAIN tabla'[u] :
                           tabla'[u][j] # NULL
                             /\ tabla'[u][j].nombre = tabla'[u][i].nombre
                           => j = i
      OBVIOUS
  <2>1. CASE u # t
        BY <1>2, <1>7, <2>1 DEF TablaFirme
  <2>2. CASE u = t
    <3>1. CASE i \in 1..n
      <4>1. i \in DOMAIN tabla[t] /\ tabla'[t][i] = tabla[t][i]
            BY <1>5, <3>1
      <4>2. tabla[t][i].nombre \in K!Usados(t)
            BY <2>2, <4>1 DEF K!Usados, K!Vivas
      <4>3. \A j \in 1..n : tabla[t][j] # NULL
              /\ tabla[t][j].nombre = tabla[t][i].nombre => j = i
            BY <1>5, <2>2, <4>1 DEF TablaFirme
      <4>4. \A j \in DOMAIN tabla'[u] : tabla'[u][j] # NULL
              /\ tabla'[u][j].nombre = tabla'[u][i].nombre => j = i
        <5> TAKE j \in DOMAIN tabla'[u]
        <5>1. CASE j \in 1..n
              BY <1>5, <2>2, <4>1, <4>3, <5>1
        <5>2. CASE j \notin 1..n
          <6>1. PICK l \in 1..N : j = n + l /\ tabla'[t][j] = fs[l]
                BY <1>5, <1>6, <2>2, <5>2
          <6> QED BY <2>2, <4>1, <4>2, <6>1
        <5> QED BY <5>1, <5>2
      <4>5. tabla[t][i].padre # NULL =>
              /\ tabla[t][i].padre \in DOMAIN tabla["departamento"]
              /\ tabla["departamento"][tabla[t][i].padre] # NULL
            BY <2>2, <4>1 DEF TablaFirme
      <4> QED BY <1>7, <2>2, <4>1, <4>4, <4>5
    <3>2. CASE i \notin 1..n
      <4>1. PICK k \in 1..N : i = n + k /\ tabla'[t][i] = fs[k]
            BY <1>5, <1>6, <2>2, <3>2
      <4>2. \A j \in 1..n : tabla[t][j] # NULL =>
              tabla[t][j].nombre \in K!Usados(t)
            BY <1>5 DEF K!Usados, K!Vivas
      <4>3. \A j \in DOMAIN tabla'[u] : tabla'[u][j] # NULL
              /\ tabla'[u][j].nombre = tabla'[u][i].nombre => j = i
        <5> TAKE j \in DOMAIN tabla'[u]
        <5>1. CASE j \in 1..n
              BY <1>5, <2>2, <4>1, <4>2, <5>1
        <5>2. CASE j \notin 1..n
          <6>1. PICK l \in 1..N : j = n + l /\ tabla'[t][j] = fs[l]
                BY <1>5, <1>6, <2>2, <5>2
          <6> QED BY <2>2, <4>1, <6>1
        <5> QED BY <5>1, <5>2
      <4> QED BY <2>2, <4>1, <4>3
    <3> QED BY <3>1, <3>2
  <2> QED BY <2>1, <2>2
<1> QED BY <1>4, <1>8 DEF TablaFirme

(* What an edition gives, over the row.                                     *)
CambioFila == [{"nombre"} -> Nombres] \cup [{"padre"} -> Nat \cup {NULL}]

LEMMA SobreFila ==
  ASSUME NEW c \in CambioFila, NEW f \in FilaCatalogo
  PROVE  K!Sobre(c, f) \in FilaCatalogo
<1> DEFINE s == K!Sobre(c, f)
<1>1. s = [x \in {"nombre", "padre"} |->
             IF x \in DOMAIN c THEN c[x] ELSE f[x]]
      BY DEF K!Sobre, FilaCatalogo
<1>2. s["nombre"] \in Nombres /\ s["padre"] \in Nat \cup {NULL}
      BY <1>1 DEF CambioFila, FilaCatalogo
<1>3. s = [x \in {"nombre", "padre"} |-> s[x]]
      BY <1>1
<1> HIDE DEF s
<1>4. s \in FilaCatalogo
      BY <1>2, <1>3 DEF FilaCatalogo
<1> QED BY <1>4 DEF s

(* A row as an edition leaves it.                                           *)
LEMMA CambiaFila ==
  ASSUME FilasTipo, TablaFirme(tabla), NEW t \in K!Tablas, NEW i \in K!Vivas(t),
         NEW f \in FilaCatalogo, K!Cabe(t, i, f),
         tabla' = [tabla EXCEPT ![t][i] = f]
  PROVE  FilasTipo' /\ TablaFirme(tabla')
<1>1. /\ tabla[t] \in Seq(FilaCatalogo \cup {NULL})
      /\ i \in DOMAIN tabla[t] /\ tabla[t][i] # NULL
      BY FilaViva, NuloEnCatalogo DEF K!Vivas
<1>2. /\ tabla'[t] = [tabla[t] EXCEPT ![i] = f]
      /\ \A u \in K!Tablas \ {t} : tabla'[u] = tabla[u]
      BY DEF FilasTipo
<1>3. tabla'[t] \in Seq(FilaCatalogo \cup {NULL})
      BY <1>1, <1>2
<1>4. FilasTipo'
      BY <1>3 DEF FilasTipo
<1>5. /\ DOMAIN tabla'[t] = DOMAIN tabla[t]
      /\ tabla'[t][i] = f /\ f # NULL
      /\ \A j \in DOMAIN tabla[t] \ {i} : tabla'[t][j] = tabla[t][j]
      BY <1>1, <1>2, NuloEnCatalogo
<1>6. /\ \A j \in DOMAIN tabla[t] :
           tabla[t][j] # NULL /\ tabla[t][j].nombre = f.nombre => j = i
      /\ f.padre # NULL =>
           /\ f.padre \in DOMAIN tabla["departamento"]
           /\ tabla["departamento"][f.padre] # NULL
      BY DEF K!Cabe, K!ConNombre, K!Superiores, K!Vivas
<1>7. \A d \in DOMAIN tabla["departamento"] :
        /\ d \in DOMAIN tabla'["departamento"]
        /\ tabla["departamento"][d] # NULL => tabla'["departamento"][d] # NULL
      BY <1>2, <1>5, TablasDos
<1>8. ASSUME NEW u \in K!Tablas, NEW j \in DOMAIN tabla'[u], tabla'[u][j] # NULL
      PROVE  /\ tabla'[u][j].padre # NULL =>
                  /\ tabla'[u][j].padre \in DOMAIN tabla'["departamento"]
                  /\ tabla'["departamento"][tabla'[u][j].padre] # NULL
             /\ \A k \in DOMAIN tabla'[u] :
                  tabla'[u][k] # NULL
                    /\ tabla'[u][k].nombre = tabla'[u][j].nombre => k = j
  <2>1. CASE u # t
        BY <1>2, <1>7, <1>8, <2>1 DEF TablaFirme
  <2>2. CASE u = t /\ j = i
        BY <1>5, <1>6, <1>7, <2>2
  <2>3. CASE u = t /\ j # i
    <3>1. j \in DOMAIN tabla[t] /\ tabla'[t][j] = tabla[t][j]
          BY <1>5, <2>3
    <3>2. /\ tabla[t][j].padre # NULL =>
               /\ tabla[t][j].padre \in DOMAIN tabla["departamento"]
               /\ tabla["departamento"][tabla[t][j].padre] # NULL
          /\ \A k \in DOMAIN tabla[t] :
               tabla[t][k] # NULL
                 /\ tabla[t][k].nombre = tabla[t][j].nombre => k = j
          BY <1>8, <2>3, <3>1 DEF TablaFirme
    <3>3. tabla[t][j].nombre # f.nombre
          BY <1>6, <1>8, <2>3, <3>1
    <3> QED BY <1>5, <1>7, <2>3, <3>1, <3>2, <3>3
  <2> QED BY <2>1, <2>2, <2>3
<1> QED BY <1>4, <1>8 DEF TablaFirme

(* A row that goes, with nothing under it if it was a department.           *)
LEMMA QuitaFila ==
  ASSUME FilasTipo, TablaFirme(tabla), NEW t \in K!Tablas, NEW i \in Nat,
         t = "departamento" => \A u \in K!Tablas : K!Debajo(u, i) = {},
         tabla' = [tabla EXCEPT ![t][i] = NULL]
  PROVE  FilasTipo' /\ TablaFirme(tabla')
<1>1. tabla[t] \in Seq(FilaCatalogo \cup {NULL})
      BY FilaViva
<1>2. /\ tabla'[t] = [tabla[t] EXCEPT ![i] = NULL]
      /\ \A u \in K!Tablas \ {t} : tabla'[u] = tabla[u]
      BY DEF FilasTipo
<1>3. tabla'[t] \in Seq(FilaCatalogo \cup {NULL})
      BY <1>1, <1>2
<1>4. FilasTipo'
      BY <1>3 DEF FilasTipo
<1>5. \A u \in K!Tablas :
        /\ DOMAIN tabla'[u] = DOMAIN tabla[u]
        /\ \A j \in DOMAIN tabla[u] :
             IF u = t /\ j = i THEN tabla'[u][j] = NULL
             ELSE tabla'[u][j] = tabla[u][j]
      BY <1>1, <1>2
<1>6. ASSUME NEW u \in K!Tablas, NEW j \in DOMAIN tabla'[u], tabla'[u][j] # NULL
      PROVE  /\ tabla'[u][j].padre # NULL =>
                  /\ tabla'[u][j].padre \in DOMAIN tabla'["departamento"]
                  /\ tabla'["departamento"][tabla'[u][j].padre] # NULL
             /\ \A k \in DOMAIN tabla'[u] :
                  tabla'[u][k] # NULL
                    /\ tabla'[u][k].nombre = tabla'[u][j].nombre => k = j
  <2>1. /\ j \in DOMAIN tabla[u] /\ tabla'[u][j] = tabla[u][j]
        /\ tabla[u][j] # NULL
        BY <1>5, <1>6
  <2>2. tabla[u][j].padre # NULL =>
          /\ tabla[u][j].padre \in DOMAIN tabla["departamento"]
          /\ tabla["departamento"][tabla[u][j].padre] # NULL
        BY <2>1 DEF TablaFirme
  <2>3. t = "departamento" => tabla[u][j].padre # i
        BY <2>1 DEF K!Debajo, K!Vivas
  <2>4. \A k \in DOMAIN tabla'[u] :
          tabla'[u][k] # NULL
            /\ tabla'[u][k].nombre = tabla'[u][j].nombre => k = j
        BY <1>5, <2>1 DEF TablaFirme
  <2> QED BY <1>5, <2>1, <2>2, <2>3, <2>4, TablasDos
<1> QED BY <1>4, <1>6 DEF TablaFirme

LEMMA CuentaK == \A S : K!Cardinality(S) = Cardinality(S)
BY DEF K!Cardinality, Cardinality

(* A finite set in some order, each element once.                           *)
LEMMA EnOrden ==
  ASSUME NEW S, IsFiniteSet(S)
  PROVE  /\ Cardinality(S) \in Nat
         /\ K!SetToSeq(S) \in [1..Cardinality(S) -> S]
         /\ \A k, l \in 1..Cardinality(S) :
              K!SetToSeq(S)[k] = K!SetToSeq(S)[l] => k = l
         /\ \A x \in S : \E k \in 1..Cardinality(S) : K!SetToSeq(S)[k] = x
<1> DEFINE N == Cardinality(S)
           f == K!SetToSeq(S)
<1>1. N \in Nat /\ ExistsBijection(1..N, S)
      BY FS_CardinalityType
<1>2. \E g \in [1..N -> S] : IsInjective(g)
      BY <1>1 DEF ExistsBijection, Bijection, Injection
<1>3. f \in [1..N -> S] /\ IsInjective(f)
      BY <1>2, CuentaK DEF K!SetToSeq, K!IsInjective, IsInjective
<1>4. IsFiniteSet(1..N) /\ Cardinality(1..N) = N
      BY <1>1, FS_Interval
<1> HIDE DEF f, N
<1>5. f \in Injection(1..N, S)
      BY <1>3 DEF Injection
<1>6. f \in Surjection(1..N, S)
      BY <1>4, <1>5, FS_Injection DEF N
<1>7. \A x \in S : \E k \in 1..N : f[k] = x
      BY <1>6 DEF Surjection
<1>8. \A k, l \in 1..N : f[k] = f[l] => k = l
      BY <1>3 DEF IsInjective
<1> QED BY <1>1, <1>3, <1>7, <1>8 DEF f, N

(* A file once it was read and checked, and once the departments were read  *)
(* again for their identifiers.                                             *)
ArchivoVisto(x) ==
  /\ x.tabla \in K!Tablas /\ x.archivo \in Archivos
  /\ x.nuevos \subseteq DOMAIN x.archivo
  /\ x.tabla = "departamento" => ~ K!Circular(x.archivo)
ArchivoListo(m, largo) ==
  /\ ArchivoVisto(m.pedido)
  /\ \A n \in DOMAIN m.ids : n \in Nombres /\ m.ids[n] \in 1..largo

(* The rows of a file that goes in: the new names, each once, under a       *)
(* department of the table or, when the file brings it, under its row.      *)
LEMMA FilasArchivo ==
  ASSUME FilasTipo, NEW m, ArchivoListo(m, Len(tabla["departamento"])),
         K!FilasDe(m) # <<>>
  PROVE  LET t == m.pedido.tabla
             a == m.pedido.archivo
             fs == K!FilasDe(m)
             n == Len(tabla[t])
         IN /\ fs \in Seq(FilaCatalogo)
            /\ \A k \in 1..Len(fs) : fs[k].nombre \in m.pedido.nuevos
            /\ \A x \in m.pedido.nuevos :
                 \E k \in 1..Len(fs) : fs[k].nombre = x
            /\ \A k, l \in 1..Len(fs) : fs[k].nombre = fs[l].nombre => k = l
            /\ \A k \in 1..Len(fs) :
                 \/ fs[k].padre = NULL
                 \/ fs[k].padre \in 1..Len(tabla["departamento"])
                 \/ t = "departamento" /\ a[fs[k].nombre] \in m.pedido.nuevos
            /\ t = "departamento" =>
                 \A k \in 1..Len(fs) : a[fs[k].nombre] \in m.pedido.nuevos =>
                   \E l \in 1..Len(fs) : /\ fs[l].nombre = a[fs[k].nombre]
                                         /\ fs[k].padre = n + l
<1> DEFINE t == m.pedido.tabla
           a == m.pedido.archivo
           E == m.pedido.nuevos
           n == Len(tabla[t])
           fs == K!FilasDe(m)
           Q == K!Entran(m)
           orden == K!SetToSeq(Q)
           N == Cardinality(E)
           id(x) == n + CHOOSE k \in DOMAIN orden : orden[k] = x
           padre(x) == CASE x = NULL -> NULL
                         [] t = "departamento" /\ x \in Q -> id(x)
                         [] OTHER -> m.ids[x]
<1>1. /\ t \in K!Tablas /\ a \in Archivos /\ E \subseteq DOMAIN a
      /\ \A x \in DOMAIN m.ids :
           x \in Nombres /\ m.ids[x] \in 1..Len(tabla["departamento"])
      BY DEF ArchivoListo, ArchivoVisto
<1>2. IsFiniteSet(E) /\ E \subseteq Nombres
      BY <1>1, ArchivosFinitos, FS_Subset
<1>3. Q = E /\ \A x \in E : a[x] \in K!Conocidos(m)
  <2>1. Q # {}
    <3>1. SUFFICES ASSUME Q = {} PROVE fs = <<>>
          OBVIOUS
    <3>2. K!SetToSeq({}) \in [1..0 -> {}]
          BY EnOrden, FS_EmptySet
    <3>3. DOMAIN K!SetToSeq({}) = {}
          BY <3>2
    <3> QED BY <3>1, <3>3 DEF K!FilasDe
  <2> QED BY <2>1 DEF K!Entran
<1>4. fs = [k \in DOMAIN orden |-> K!Fila(orden[k], padre(a[orden[k]]))]
      BY DEF K!FilasDe
<1>5. /\ N \in Nat /\ orden \in [1..N -> E] /\ DOMAIN orden = 1..N
      /\ \A k, l \in 1..N : orden[k] = orden[l] => k = l
      /\ \A x \in E : \E k \in 1..N : orden[k] = x
      BY <1>2, <1>3, EnOrden
<1>6. n \in Nat
      BY <1>1, FilaViva
<1>7. \A k \in 1..N : id(orden[k]) = n + k
  <2> TAKE k \in 1..N
  <2>1. (CHOOSE l \in 1..N : orden[l] = orden[k]) = k
        BY <1>5
  <2> QED BY <1>5, <2>1
<1> HIDE DEF orden, N, id, Q
<1>8. \A k \in 1..N : /\ fs[k].nombre = orden[k]
                      /\ fs[k].padre = padre(a[orden[k]])
                      /\ fs[k] = K!Fila(orden[k], padre(a[orden[k]]))
  <2> HIDE DEF padre, fs
  <2>1. \A k \in 1..N : fs[k] = K!Fila(orden[k], padre(a[orden[k]]))
        BY <1>4, <1>5
  <2> QED BY <2>1 DEF K!Fila
<1>9. \A x \in K!Conocidos(m) :
        \/ x = NULL /\ padre(x) = NULL
        \/ /\ t = "departamento" /\ x \in E /\ x # NULL
           /\ padre(x) = id(x)
        \/ /\ ~ (t = "departamento" /\ x \in E) /\ x # NULL
           /\ padre(x) \in 1..Len(tabla["departamento"])
  <2> TAKE x \in K!Conocidos(m)
  <2>1. x = NULL \/ x \in DOMAIN m.ids \/ (t = "departamento" /\ x \in E)
        BY <1>1 DEF K!Conocidos, K!Tablas
  <2>2. CASE x = NULL
        BY <1>2, <1>3, <2>2, NuloEnCatalogo
  <2>3. CASE x # NULL /\ t = "departamento" /\ x \in E
        BY <1>3, <2>3
  <2>4. CASE x # NULL /\ ~ (t = "departamento" /\ x \in E)
    <3>1. x \in DOMAIN m.ids /\ padre(x) = m.ids[x]
          BY <1>3, <2>1, <2>4
    <3> QED BY <1>1, <2>4, <3>1
  <2> QED BY <2>2, <2>3, <2>4
<1>10. \A x \in E : \E l \in 1..N : orden[l] = x /\ id(x) = n + l
       BY <1>5, <1>7
<1> HIDE DEF padre
<1>11. Len(tabla["departamento"]) \in Nat
       BY FilaViva, TablasDos
<1>12. \A k \in 1..N : a[orden[k]] \in K!Conocidos(m)
       BY <1>3, <1>5
<1>13. \A k \in 1..N : fs[k] \in FilaCatalogo
  <2> TAKE k \in 1..N
  <2> DEFINE d == padre(a[orden[k]])
  <2>1. d \in Nat \cup {NULL}
        BY <1>6, <1>9, <1>10, <1>11, <1>12
  <2>2. orden[k] \in Nombres /\ fs[k] = K!Fila(orden[k], d)
        BY <1>2, <1>5, <1>8
  <2> HIDE DEF d
  <2> QED BY <2>1, <2>2 DEF K!Fila, FilaCatalogo
<1>14. fs \in Seq(FilaCatalogo) /\ Len(fs) = N
       BY <1>4, <1>5, <1>13
<1>15. t = "departamento" =>
         \A k \in 1..N : a[orden[k]] \in E =>
           \E l \in 1..N : orden[l] = a[orden[k]]
                           /\ padre(a[orden[k]]) = n + l
       BY <1>2, <1>9, <1>10, <1>12, NuloEnCatalogo
<1>16. \A k \in 1..N :
         \/ fs[k].padre = NULL
         \/ fs[k].padre \in 1..Len(tabla["departamento"])
         \/ t = "departamento" /\ a[fs[k].nombre] \in E
       BY <1>8, <1>9, <1>12
<1> HIDE DEF t, a, E, n, fs
<1>17. /\ \A k \in 1..Len(fs) : fs[k].nombre \in E
       /\ \A x \in E : \E k \in 1..Len(fs) : fs[k].nombre = x
       /\ \A k, l \in 1..Len(fs) : fs[k].nombre = fs[l].nombre => k = l
       BY <1>5, <1>8, <1>14
<1>18. t = "departamento" =>
         \A k \in 1..Len(fs) : a[fs[k].nombre] \in E =>
           \E l \in 1..Len(fs) : /\ fs[l].nombre = a[fs[k].nombre]
                                 /\ fs[k].padre = n + l
       BY <1>8, <1>14, <1>15
<1> QED BY <1>14, <1>16, <1>17, <1>18 DEF t, a, E, n, fs

(* What a request knows, with largo departments ever inserted.              *)
SolicitudFirme(m, largo) ==
  /\ m.op = "alta" => m.tabla \in K!Tablas /\ m.fila \in FilaCatalogo
  /\ m.op = "edicion" => m.tabla \in K!Tablas /\ m.cambio \in CambioFila
  /\ m.op = "baja" => m.tabla \in K!Tablas /\ m.id \in Nat
  /\ m.op = "archivo" => ArchivoVisto(m)
  /\ m.op = "archivo2" => ArchivoListo(m, largo)
  /\ m.op = "etapas" => \A f \in m.filas : ~ f.inicial
  /\ m.op = "periodo" =>
       /\ m.fila \in K!Periodo /\ m.foto \in Seq(K!Periodo)
       /\ m.fila.desde <= m.fila.hasta
       /\ \A j \in DOMAIN m.foto : ~ K!Solapa(m.fila, m.foto[j])
  /\ m.op = "edicionPeriodo" =>
       /\ m.fila \in K!Periodo /\ m.foto \in Seq(K!Periodo)
       /\ m.id \in DOMAIN m.foto /\ m.fila.desde <= m.fila.hasta
       /\ m.fila.desde # m.foto[m.id].desde
            \/ m.fila.hasta # m.foto[m.id].hasta =>
            \A j \in DOMAIN m.foto \ {m.id} : ~ K!Solapa(m.fila, m.foto[j])

Insertados == Len(tabla["departamento"])

IInvCatalogos ==
  /\ FilasTipo /\ TablaFirme(tabla) /\ K!UnaInicial
  /\ periodos \in Seq(K!Periodo)
  /\ solicitud = [p \in Tramites |-> solicitud[p]]
  /\ \A p \in Tramites : SolicitudFirme(solicitud[p], Insertados)

LEMMA SolicitudCrece ==
  ASSUME NEW m, NEW k \in Nat, NEW l \in Nat, k <= l, SolicitudFirme(m, k)
  PROVE  SolicitudFirme(m, l)
<1>1. 1..k \subseteq 1..l
      OBVIOUS
<1> QED BY <1>1 DEF SolicitudFirme, ArchivoListo

LEMMA ReposoFirme == K!Reposo.op = "libre" /\ \A k : SolicitudFirme(K!Reposo, k)
BY DEF K!Reposo, SolicitudFirme

(* A request goes on, and the catalogues are what they should.              *)
LEMMA PasoSolicitud ==
  ASSUME IInvCatalogos, NEW p \in Tramites, NEW m, K!Pasa(p, m),
         SolicitudFirme(m, Insertados'), Insertados <= Insertados',
         FilasTipo', TablaFirme(tabla'), K!UnaInicial', periodos' \in Seq(K!Periodo)
  PROVE  IInvCatalogos'
<1>1. Insertados \in Nat /\ Insertados' \in Nat
      BY TablasDos DEF IInvCatalogos, Insertados, FilasTipo
<1>2. /\ solicitud' = [q \in Tramites |-> solicitud'[q]]
      /\ solicitud'[p] = m
      /\ \A q \in Tramites \ {p} : solicitud'[q] = solicitud[q]
      BY DEF K!Pasa, IInvCatalogos
<1>3. \A q \in Tramites : SolicitudFirme(solicitud'[q], Insertados')
  <2> TAKE q \in Tramites
  <2>1. CASE q = p
        BY <1>2, <2>1
  <2>2. CASE q # p
    <3>1. SolicitudFirme(solicitud[q], Insertados)
          BY DEF IInvCatalogos
    <3>2. SolicitudFirme(solicitud[q], Insertados')
          BY <1>1, <3>1, SolicitudCrece
    <3> QED BY <1>2, <2>2, <3>2
  <2> QED BY <2>1, <2>2
<1> QED BY <1>2, <1>3 DEF IInvCatalogos

LEMMA QuietoCatalogos ==
  ASSUME IInvCatalogos, UNCHANGED <<tabla, etapas, periodos>>
  PROVE  /\ FilasTipo' /\ TablaFirme(tabla') /\ K!UnaInicial'
         /\ periodos' \in Seq(K!Periodo)
         /\ Insertados' = Insertados /\ Insertados \in Nat
BY TablasDos DEF IInvCatalogos, FilasTipo, K!UnaInicial, Insertados

(* A request that only reads, or is undone.                                 *)
PreguntaAlgo(p) ==
  /\ \E m : K!Pasa(p, m) /\ SolicitudFirme(m, Insertados)
  /\ UNCHANGED <<tabla, etapas, periodos>>

LEMMA PasoPregunta ==
  ASSUME IInvCatalogos, NEW p \in Tramites, PreguntaAlgo(p)
  PROVE  IInvCatalogos'
<1>1. /\ FilasTipo' /\ TablaFirme(tabla') /\ K!UnaInicial'
      /\ periodos' \in Seq(K!Periodo)
      /\ Insertados' = Insertados /\ Insertados \in Nat
      BY QuietoCatalogos DEF PreguntaAlgo
<1>2. PICK m : K!Pasa(p, m) /\ SolicitudFirme(m, Insertados)
      BY DEF PreguntaAlgo
<1> QED BY <1>1, <1>2, PasoSolicitud

LEMMA PreguntaAlta ==
  ASSUME IInvCatalogos, NEW p \in Tramites, NEW t \in K!Tablas,
         NEW n \in Nombres, NEW d \in K!Superiores, K!LeeAlta(p, t, K!Fila(n, d))
  PROVE  PreguntaAlgo(p)
<1> DEFINE m == [op |-> "alta", tabla |-> t, fila |-> K!Fila(n, d)]
<1>1. K!Fila(n, d) \in FilaCatalogo
      BY SuperioresNat DEF IInvCatalogos, K!Fila, FilaCatalogo
<1>2. K!Pasa(p, m) /\ UNCHANGED <<tabla, etapas, periodos>>
      BY DEF K!LeeAlta
<1>3. SolicitudFirme(m, Insertados)
      BY <1>1 DEF SolicitudFirme
<1> QED BY <1>2, <1>3 DEF PreguntaAlgo

LEMMA PreguntaEdicion ==
  ASSUME IInvCatalogos, NEW p \in Tramites, NEW t \in K!Tablas,
         NEW i \in K!Vivas(t), NEW c \in K!Cambios, K!LeeEdicion(p, t, i, c)
  PROVE  PreguntaAlgo(p)
<1> DEFINE m == [op |-> "edicion", tabla |-> t, id |-> i, cambio |-> c]
<1>1. c \in CambioFila
      BY SuperioresNat DEF IInvCatalogos, K!Cambios, CambioFila
<1>2. K!Pasa(p, m) /\ UNCHANGED <<tabla, etapas, periodos>>
      BY DEF K!LeeEdicion
<1>3. SolicitudFirme(m, Insertados)
      BY <1>1 DEF SolicitudFirme
<1> QED BY <1>2, <1>3 DEF PreguntaAlgo

LEMMA PreguntaBaja ==
  ASSUME IInvCatalogos, NEW p \in Tramites, NEW t \in K!Tablas,
         NEW i \in K!Vivas(t), K!LeeBaja(p, t, i)
  PROVE  PreguntaAlgo(p)
<1> DEFINE m == [op |-> "baja", tabla |-> t, id |-> i]
<1>1. i \in Nat
      BY FilaViva DEF IInvCatalogos
<1>2. K!Pasa(p, m) /\ UNCHANGED <<tabla, etapas, periodos>>
      BY DEF K!LeeBaja
<1>3. SolicitudFirme(m, Insertados)
      BY <1>1 DEF SolicitudFirme
<1> QED BY <1>2, <1>3 DEF PreguntaAlgo

LEMMA PreguntaArchivo ==
  ASSUME NEW p \in Tramites, NEW t \in K!Tablas, NEW a \in Archivos,
         K!LeeArchivo(p, t, a)
  PROVE  PreguntaAlgo(p)
<1> DEFINE m == [op |-> "archivo", tabla |-> t, archivo |-> a,
                 nuevos |-> K!Nuevos(t, a)]
<1>1. t = "departamento" => ~ K!Circular(a)
      BY DEF K!LeeArchivo, K!Admisible
<1>2. K!Pasa(p, m) /\ UNCHANGED <<tabla, etapas, periodos>>
      BY DEF K!LeeArchivo
<1>3. ArchivoVisto(m)
      BY <1>1 DEF ArchivoVisto, K!Nuevos
<1>4. SolicitudFirme(m, Insertados)
      BY <1>3 DEF SolicitudFirme
<1> QED BY <1>2, <1>4 DEF PreguntaAlgo

LEMMA PreguntaIdentificadores ==
  ASSUME IInvCatalogos, NEW p \in Tramites, K!ReleeDepartamentos(p)
  PROVE  PreguntaAlgo(p)
<1> DEFINE U == K!Usados("departamento")
           m == [op |-> "archivo2", pedido |-> solicitud[p],
                 ids |-> [n \in U |-> K!IdDe(n)]]
<1>1. ArchivoVisto(solicitud[p])
      BY DEF IInvCatalogos, SolicitudFirme, K!ReleeDepartamentos, K!En
<1>2. ASSUME NEW n \in U
      PROVE  n \in Nombres /\ K!IdDe(n) \in 1..Insertados
  <2>1. PICK i \in K!Vivas("departamento") :
          tabla["departamento"][i].nombre = n
        BY <1>2 DEF K!Usados
  <2>2. i \in K!ConNombre("departamento", n)
        BY <2>1 DEF K!ConNombre
  <2>3. K!IdDe(n) \in K!ConNombre("departamento", n)
        BY <2>2 DEF K!IdDe
  <2>4. K!IdDe(n) \in K!Vivas("departamento")
        BY <2>3 DEF K!ConNombre
  <2>5. n \in Nombres
        BY <2>1, FilaViva, TablasDos, NuloEnCatalogo DEF IInvCatalogos
  <2> QED BY <2>4, <2>5, FilaViva, TablasDos DEF IInvCatalogos, Insertados
<1>3. K!Pasa(p, m) /\ UNCHANGED <<tabla, etapas, periodos>>
      BY DEF K!ReleeDepartamentos
<1>4. /\ m.op = "archivo2" /\ m.pedido = solicitud[p] /\ DOMAIN m.ids = U
      /\ \A n \in U : m.ids[n] = K!IdDe(n)
      OBVIOUS
<1> HIDE DEF m, U
<1>5. ArchivoListo(m, Insertados)
      BY <1>1, <1>2, <1>4 DEF ArchivoListo
<1>6. SolicitudFirme(m, Insertados)
      BY <1>4, <1>5 DEF SolicitudFirme
<1> QED BY <1>3, <1>6 DEF PreguntaAlgo

(* The company always has its first stage: no file brings another.          *)
LEMMA SiempreInicial == K!UnaInicial => K!HayInicial
<1> SUFFICES ASSUME K!UnaInicial PROVE K!HayInicial
    OBVIOUS
<1>1. {e \in etapas : e.inicial} # {}
      BY FS_EmptySet, CuentaK DEF K!UnaInicial
<1> QED BY <1>1 DEF K!HayInicial

LEMMA PreguntaEtapas ==
  ASSUME IInvCatalogos, NEW p \in Tramites, NEW a \in ArchivosEtapas,
         K!LeeEtapas(p, a)
  PROVE  PreguntaAlgo(p)
<1> DEFINE fs == {K!Etapa(n, a[n]) : n \in DOMAIN a \ K!NombresEtapas}
           m == [op |-> "etapas", filas |-> fs]
<1>1. K!HayInicial
      BY SiempreInicial DEF IInvCatalogos
<1>2. \A n \in DOMAIN a \ K!NombresEtapas : ~ K!Etapa(n, a[n]).inicial
      BY <1>1 DEF K!LeeEtapas, K!EtapaAdmisible, K!Etapa
<1>3. K!Pasa(p, m) /\ UNCHANGED <<tabla, etapas, periodos>>
      BY DEF K!LeeEtapas
<1>4. \A f \in fs : ~ f.inicial
      BY <1>2
<1> HIDE DEF fs
<1>5. SolicitudFirme(m, Insertados)
      BY <1>4 DEF SolicitudFirme
<1> QED BY <1>3, <1>5 DEF PreguntaAlgo

LEMMA PreguntaPeriodo ==
  ASSUME IInvCatalogos, NEW p \in Tramites, NEW x \in K!Periodo,
         K!LeePeriodo(p, x)
  PROVE  PreguntaAlgo(p)
<1> DEFINE m == [op |-> "periodo", fila |-> x, foto |-> periodos]
<1>1. periodos \in Seq(K!Periodo) /\ 0 \notin DOMAIN periodos
      BY DEF IInvCatalogos
<1>2. x.desde <= x.hasta /\ \A j \in DOMAIN periodos : ~ K!Solapa(x, periodos[j])
      BY <1>1 DEF K!LeePeriodo, K!Libre
<1>3. K!Pasa(p, m) /\ UNCHANGED <<tabla, etapas, periodos>>
      BY DEF K!LeePeriodo
<1>4. SolicitudFirme(m, Insertados)
      BY <1>1, <1>2 DEF SolicitudFirme
<1> QED BY <1>3, <1>4 DEF PreguntaAlgo

UnaTasa == UNION {[{c} -> Porcentajes] : c \in Campos}

LEMMA UnaTasaDe ==
  ASSUME NEW s \in UnaTasa
  PROVE  \E k \in Campos : s \in [{k} -> Porcentajes]
BY DEF UnaTasa

LEMMA TasasDadas ==
  ASSUME NEW s \in UnaTasa \cup {<<>>}, NEW c \in DOMAIN s
  PROVE  s[c] \in Porcentajes
<1>1. CASE s \in UnaTasa
      BY <1>1, UnaTasaDe
<1>2. CASE s = <<>>
  <2>1. <<>> \in Seq(Porcentajes) /\ Len(<<>>) = 0
        OBVIOUS
  <2>2. DOMAIN s = 1..0
        BY <1>2, <2>1
  <2> QED BY <2>2
<1> QED BY <1>1, <1>2

LEMMA SobreValores ==
  ASSUME NEW v \in K!ValoresParametro, NEW s \in UnaTasa \cup {<<>>}
  PROVE  K!Sobre(s, v) \in K!ValoresParametro
<1>1. DOMAIN v = Campos /\ \A c \in Campos : v[c] \in Porcentajes
      BY DEF K!ValoresParametro
<1>2. \A c \in DOMAIN s : s[c] \in Porcentajes
      BY TasasDadas
<1> QED BY <1>1, <1>2 DEF K!Sobre, K!ValoresParametro

LEMMA SobrePeriodo ==
  ASSUME NEW r \in K!Periodo, NEW s,
         "desde" \in DOMAIN s => s["desde"] \in Fechas,
         "hasta" \in DOMAIN s => s["hasta"] \in Fechas,
         "valor" \in DOMAIN s => s["valor"] \in K!ValoresParametro
  PROVE  K!Sobre(s, r) \in K!Periodo
<1> DEFINE x == K!Sobre(s, r)
<1>1. x = [c \in {"desde", "hasta", "valor"} |->
             IF c \in DOMAIN s THEN s[c] ELSE r[c]]
      BY DEF K!Sobre, K!Periodo
<1>2. /\ x["desde"] \in Fechas /\ x["hasta"] \in Fechas
      /\ x["valor"] \in K!ValoresParametro
      BY <1>1 DEF K!Periodo
<1>3. x = [c \in {"desde", "hasta", "valor"} |-> x[c]]
      BY <1>1
<1> HIDE DEF x
<1>4. x \in K!Periodo
      BY <1>2, <1>3 DEF K!Periodo
<1> QED BY <1>4 DEF x

LEMMA CombinadoPeriodo ==
  ASSUME NEW c \in K!CambiosPeriodo, NEW r \in K!Periodo
  PROVE  K!Combinado(c, r) \in K!Periodo
<1> DEFINE v == K!Sobre(c.tasas, r.valor)
           q == [r EXCEPT !.valor = v]
<1>1. v \in K!ValoresParametro
  <2> DEFINE F == UNION {[s -> Fechas] : s \in SUBSET {"desde", "hasta"}}
  <2>1. c \in [fechas : F, tasas : UnaTasa \cup {<<>>}]
        BY DEF K!CambiosPeriodo, UnaTasa
  <2> HIDE DEF F
  <2>2. c.tasas \in UnaTasa \cup {<<>>}
        BY <2>1
  <2>3. r.valor \in K!ValoresParametro
        BY DEF K!Periodo
  <2> QED BY <2>2, <2>3, SobreValores
<1> HIDE DEF v
<1>2. q \in K!Periodo
      BY <1>1 DEF K!Periodo
<1>3. /\ "desde" \in DOMAIN c.fechas => c.fechas["desde"] \in Fechas
      /\ "hasta" \in DOMAIN c.fechas => c.fechas["hasta"] \in Fechas
      /\ "valor" \notin DOMAIN c.fechas
      BY DEF K!CambiosPeriodo
<1> HIDE DEF q
<1>4. K!Sobre(c.fechas, q) \in K!Periodo
      BY <1>2, <1>3, SobrePeriodo
<1> QED BY <1>4 DEF q, v, K!Combinado

LEMMA PreguntaEdicionPeriodo ==
  ASSUME IInvCatalogos, NEW p \in Tramites, NEW i \in DOMAIN periodos,
         NEW c \in K!CambiosPeriodo, K!LeeEdicionPeriodo(p, i, c)
  PROVE  PreguntaAlgo(p)
<1> DEFINE x == K!Combinado(c, periodos[i])
           m == [op |-> "edicionPeriodo", id |-> i, fila |-> x,
                 foto |-> periodos]
<1>1. periodos \in Seq(K!Periodo) /\ periodos[i] \in K!Periodo
      BY DEF IInvCatalogos
<1>2. x \in K!Periodo
      BY <1>1, CombinadoPeriodo
<1>3. /\ x.desde <= x.hasta
      /\ x.desde # periodos[i].desde \/ x.hasta # periodos[i].hasta =>
           \A j \in DOMAIN periodos \ {i} : ~ K!Solapa(x, periodos[j])
      BY DEF K!LeeEdicionPeriodo, K!LibreEdicion, K!Libre
<1>4. K!Pasa(p, m) /\ UNCHANGED <<tabla, etapas, periodos>>
      BY DEF K!LeeEdicionPeriodo
<1> HIDE DEF x
<1>5. SolicitudFirme(m, Insertados)
      BY <1>1, <1>2, <1>3 DEF SolicitudFirme
<1> QED BY <1>4, <1>5 DEF PreguntaAlgo

LEMMA PreguntaNada ==
  ASSUME NEW p \in Tramites, K!Revierte(p)
  PROVE  PreguntaAlgo(p)
BY ReposoFirme DEF K!Revierte, PreguntaAlgo

(* The writes of one department or position.                                *)
LEMMA PasoEscribeAltaFila ==
  ASSUME IInvCatalogos, NEW p \in Tramites, K!EscribeAlta(p)
  PROVE  IInvCatalogos'
<1> DEFINE m == solicitud[p]
           t == m.tabla
           f == m.fila
           fs == <<f>>
<1>1. /\ m.op = "alta" /\ K!Cabe(t, 0, f)
      /\ tabla' = [tabla EXCEPT ![t] = Append(@, f)]
      /\ K!Pasa(p, K!Reposo) /\ UNCHANGED <<etapas, periodos>>
      BY DEF K!EscribeAlta, K!En, K!create_departamento
<1>2. t \in K!Tablas /\ f \in FilaCatalogo
      BY <1>1 DEF IInvCatalogos, SolicitudFirme
<1>3. FilasTipo /\ TablaFirme(tabla)
      BY DEF IInvCatalogos
<1>4. tabla[t] \in Seq(FilaCatalogo \cup {NULL})
      BY <1>2, <1>3, FilaViva
<1>5. /\ fs \in Seq(FilaCatalogo) /\ Len(fs) = 1 /\ fs[1] = f
      /\ Append(tabla[t], f) = tabla[t] \o fs
  <2> DEFINE s == tabla[t]
             Filas == FilaCatalogo \cup {NULL}
  <2>1. s \in Seq(Filas) /\ f \in FilaCatalogo /\ f \in Filas
        BY <1>2, <1>4
  <2> HIDE DEF s, f, Filas
  <2>2. fs \in Seq(FilaCatalogo) /\ Len(fs) = 1 /\ fs[1] = f
        BY <2>1
  <2>3. Append(s, f) = s \o <<f>>
        BY <2>1
  <2> QED BY <2>2, <2>3 DEF s
<1>6. tabla' = [tabla EXCEPT ![t] = @ \o fs]
  <2>1. tabla' = [tabla EXCEPT ![t] = Append(tabla[t], f)]
        BY <1>1
  <2> HIDE DEF fs, t, f
  <2> QED BY <1>5, <2>1
<1>7. f.nombre \notin K!Usados(t)
  <2>1. \A i \in K!Vivas(t) : i # 0
        BY <1>2, <1>3, FilaViva
  <2> QED BY <1>1, <2>1 DEF K!Cabe, K!ConNombre, K!Usados
<1>8. /\ \A d \in DOMAIN tabla["departamento"] :
           /\ d \in DOMAIN tabla'["departamento"]
           /\ tabla'["departamento"][d] = tabla["departamento"][d]
      /\ Insertados <= Insertados'
  <2>1. /\ tabla["departamento"] \in Seq(FilaCatalogo \cup {NULL})
        /\ tabla'["departamento"] \in
             {tabla["departamento"], Append(tabla["departamento"], f)}
        BY <1>1, <1>2, <1>3, FilaViva, TablasDos DEF FilasTipo
  <2> QED BY <1>2, <2>1 DEF Insertados
<1>9. f.padre # NULL => /\ f.padre \in DOMAIN tabla["departamento"]
                        /\ tabla["departamento"][f.padre] # NULL
      BY <1>1 DEF K!Cabe, K!Superiores, K!Vivas
<1> HIDE DEF fs, f, t
<1>10. FilasTipo' /\ TablaFirme(tabla')
  <2>1. /\ \A k \in 1..Len(fs) : fs[k].nombre \notin K!Usados(t)
        /\ \A k, l \in 1..Len(fs) : fs[k].nombre = fs[l].nombre => k = l
        /\ \A k \in 1..Len(fs) : fs[k].padre # NULL =>
             /\ fs[k].padre \in DOMAIN tabla'["departamento"]
             /\ tabla'["departamento"][fs[k].padre] # NULL
        BY <1>5, <1>7, <1>8, <1>9
  <2> QED BY <1>2, <1>3, <1>5, <1>6, <2>1, EntranFilas
<1>11. K!UnaInicial' /\ periodos' \in Seq(K!Periodo)
       BY <1>1 DEF IInvCatalogos, K!UnaInicial
<1> QED BY <1>1, <1>8, <1>10, <1>11, ReposoFirme, PasoSolicitud

LEMMA PasoEscribeEdicionFila ==
  ASSUME IInvCatalogos, NEW p \in Tramites, K!EscribeEdicion(p)
  PROVE  IInvCatalogos'
<1> DEFINE m == solicitud[p]
           t == m.tabla
           i == m.id
           f == K!Sobre(m.cambio, tabla[t][i])
<1>1. /\ m.op = "edicion" /\ i \in K!Vivas(t) /\ K!Cabe(t, i, f)
      /\ tabla' = [tabla EXCEPT ![t][i] = f]
      /\ K!Pasa(p, K!Reposo) /\ UNCHANGED <<etapas, periodos>>
      BY DEF K!EscribeEdicion, K!En, K!update_cargo
<1>2. FilasTipo /\ TablaFirme(tabla)
      BY DEF IInvCatalogos
<1>3. t \in K!Tablas /\ m.cambio \in CambioFila
      BY <1>1 DEF IInvCatalogos, SolicitudFirme
<1>4. f \in FilaCatalogo
      BY <1>1, <1>2, <1>3, FilaViva, SobreFila
<1> HIDE DEF f
<1>5. FilasTipo' /\ TablaFirme(tabla')
      BY <1>1, <1>2, <1>3, <1>4, CambiaFila
<1>6. Insertados \in Nat /\ Insertados' = Insertados
         /\ Insertados <= Insertados'
      BY <1>1, <1>2, <1>3, FilaViva, TablasDos DEF Insertados, FilasTipo
<1>7. K!UnaInicial' /\ periodos' \in Seq(K!Periodo)
      BY <1>1 DEF IInvCatalogos, K!UnaInicial
<1> QED BY <1>1, <1>5, <1>6, <1>7, ReposoFirme, PasoSolicitud

LEMMA PasoEscribeBajaFila ==
  ASSUME IInvCatalogos, NEW p \in Tramites, K!EscribeBaja(p)
  PROVE  IInvCatalogos'
<1> DEFINE m == solicitud[p]
           t == m.tabla
           i == m.id
<1>1. /\ m.op = "baja"
      /\ t = "departamento" => \A u \in K!Tablas : K!Debajo(u, i) = {}
      /\ tabla' = [tabla EXCEPT ![t][i] = NULL]
      /\ K!Pasa(p, K!Reposo) /\ UNCHANGED <<etapas, periodos>>
      BY DEF K!EscribeBaja, K!En, K!delete_cargo
<1>2. FilasTipo /\ TablaFirme(tabla)
      BY DEF IInvCatalogos
<1>3. t \in K!Tablas /\ i \in Nat
      BY <1>1 DEF IInvCatalogos, SolicitudFirme
<1>4. FilasTipo' /\ TablaFirme(tabla')
      BY <1>1, <1>2, <1>3, QuitaFila
<1>5. Insertados \in Nat /\ Insertados' = Insertados
         /\ Insertados <= Insertados'
      BY <1>1, <1>2, <1>3, FilaViva, TablasDos DEF Insertados, FilasTipo
<1>6. K!UnaInicial' /\ periodos' \in Seq(K!Periodo)
      BY <1>1 DEF IInvCatalogos, K!UnaInicial
<1> QED BY <1>1, <1>4, <1>5, <1>6, ReposoFirme, PasoSolicitud

(* The write of a file: what it does to the table it is of.                 *)
LEMMA LlegaArchivo ==
  ASSUME IInvCatalogos, NEW p \in Tramites, K!EscribeArchivo(p)
  PROVE  LET m == solicitud[p]
             t == m.pedido.tabla
             fs == K!FilasDe(m)
         IN /\ m.op = "archivo2" /\ ArchivoListo(m, Insertados)
            /\ t \in K!Tablas /\ fs # <<>> /\ fs \in Seq(FilaCatalogo)
            /\ tabla[t] \in Seq(FilaCatalogo \cup {NULL})
            /\ tabla'[t] = tabla[t] \o fs
            /\ \A u \in K!Tablas \ {t} : tabla'[u] = tabla[u]
            /\ tabla' = [tabla EXCEPT ![t] = @ \o fs]
            /\ \A k \in 1..Len(fs) :
                 /\ fs[k].nombre \notin K!Usados(t)
                 /\ fs[k].padre # NULL =>
                      tabla'["departamento"][fs[k].padre] # NULL
            /\ K!Pasa(p, K!Reposo) /\ UNCHANGED <<etapas, periodos>>
<1> DEFINE m == solicitud[p]
           t == m.pedido.tabla
           fs == K!FilasDe(m)
<1>1. /\ m.op = "archivo2" /\ fs # <<>>
      /\ tabla' = [tabla EXCEPT ![t] = @ \o fs]
      /\ \A k \in DOMAIN fs :
           /\ fs[k].nombre \notin K!Usados(t)
           /\ fs[k].padre # NULL =>
                tabla'["departamento"][fs[k].padre] # NULL
      /\ K!Pasa(p, K!Reposo) /\ UNCHANGED <<etapas, periodos>>
      BY DEF K!EscribeArchivo, K!En
<1>2. ArchivoListo(m, Insertados) /\ FilasTipo
      BY <1>1 DEF IInvCatalogos, SolicitudFirme
<1>3. fs \in Seq(FilaCatalogo)
      BY <1>1, <1>2, FilasArchivo DEF Insertados
<1>4. t \in K!Tablas
      BY <1>2 DEF ArchivoListo, ArchivoVisto
<1> HIDE DEF fs, t, m
<1>5. /\ tabla[t] \in Seq(FilaCatalogo \cup {NULL})
      /\ tabla'[t] = tabla[t] \o fs
      /\ \A u \in K!Tablas \ {t} : tabla'[u] = tabla[u]
      BY <1>1, <1>2, <1>4, FilaViva DEF FilasTipo
<1>6. DOMAIN fs = 1..Len(fs)
      BY <1>3
<1> QED BY <1>1, <1>2, <1>3, <1>4, <1>5, <1>6 DEF fs, t, m

LEMMA PasoEscribeArchivo ==
  ASSUME IInvCatalogos, NEW p \in Tramites, K!EscribeArchivo(p)
  PROVE  IInvCatalogos'
<1> DEFINE m == solicitud[p]
           t == m.pedido.tabla
           a == m.pedido.archivo
           E == m.pedido.nuevos
           fs == K!FilasDe(m)
           n == Len(tabla[t])
           N == Len(fs)
<1>1. /\ ArchivoListo(m, Insertados)
      /\ t \in K!Tablas /\ fs # <<>> /\ fs \in Seq(FilaCatalogo)
      /\ tabla[t] \in Seq(FilaCatalogo \cup {NULL})
      /\ tabla'[t] = tabla[t] \o fs
      /\ \A u \in K!Tablas \ {t} : tabla'[u] = tabla[u]
      /\ tabla' = [tabla EXCEPT ![t] = @ \o fs]
      /\ \A k \in 1..N :
           /\ fs[k].nombre \notin K!Usados(t)
           /\ fs[k].padre # NULL =>
                tabla'["departamento"][fs[k].padre] # NULL
      /\ K!Pasa(p, K!Reposo) /\ UNCHANGED <<etapas, periodos>>
      BY LlegaArchivo
<1>2. FilasTipo /\ TablaFirme(tabla)
      BY DEF IInvCatalogos
<1>3. /\ \A k \in 1..N : fs[k].nombre \in E
      /\ \A k, l \in 1..N : fs[k].nombre = fs[l].nombre => k = l
      /\ \A k \in 1..N :
           \/ fs[k].padre = NULL
           \/ fs[k].padre \in 1..Insertados
           \/ t = "departamento" /\ a[fs[k].nombre] \in E
      /\ t = "departamento" =>
           \A k \in 1..N : a[fs[k].nombre] \in E =>
             \E l \in 1..N : /\ fs[l].nombre = a[fs[k].nombre]
                             /\ fs[k].padre = n + l
      BY <1>1, <1>2, FilasArchivo DEF Insertados
<1> HIDE DEF fs, t, a, E, m
<1>4. /\ n \in Nat /\ N \in Nat
      /\ tabla'[t] \in Seq(FilaCatalogo \cup {NULL})
      /\ Len(tabla'[t]) = n + N
  <2>1. fs \in Seq(FilaCatalogo \cup {NULL})
        BY <1>1
  <2> QED BY <1>1, <2>1
<1>5. /\ Insertados \in Nat /\ Insertados <= Insertados'
      /\ 1..Insertados \subseteq DOMAIN tabla'["departamento"]
      /\ t = "departamento" => /\ Insertados = n
                               /\ DOMAIN tabla'["departamento"] = 1..(n + N)
  <2>1. CASE t = "departamento"
        BY <1>4, <2>1 DEF Insertados
  <2>2. CASE t # "departamento"
    <3>1. /\ tabla["departamento"] \in Seq(FilaCatalogo \cup {NULL})
          /\ tabla'["departamento"] = tabla["departamento"]
          BY <1>1, <1>2, <2>2, FilaViva, TablasDos
    <3> QED BY <2>2, <3>1 DEF Insertados
  <2> QED BY <2>1, <2>2
<1>6. \A k \in 1..N : fs[k].padre # NULL =>
        fs[k].padre \in DOMAIN tabla'["departamento"]
  <2> TAKE k \in 1..N
  <2>1. CASE fs[k].padre = NULL \/ fs[k].padre \in 1..Insertados
        BY <1>5, <2>1
  <2>2. CASE t = "departamento" /\ a[fs[k].nombre] \in E
    <3>1. PICK l \in 1..N : fs[k].padre = n + l
          BY <1>3, <2>2
    <3> QED BY <1>4, <1>5, <2>2, <3>1
  <2> QED BY <1>3, <2>1, <2>2
<1>7. FilasTipo' /\ TablaFirme(tabla')
      BY <1>1, <1>2, <1>3, <1>6, EntranFilas
<1>8. K!UnaInicial' /\ periodos' \in Seq(K!Periodo)
      BY <1>1 DEF IInvCatalogos, K!UnaInicial
<1> QED BY <1>1, <1>5, <1>7, <1>8, ReposoFirme, PasoSolicitud

LEMMA PasoEscribeEtapas ==
  ASSUME IInvCatalogos, NEW p \in Tramites, K!EscribeEtapas(p)
  PROVE  IInvCatalogos'
<1> DEFINE m == solicitud[p]
<1>1. /\ m.op = "etapas" /\ etapas' = etapas \cup m.filas
      /\ K!Pasa(p, K!Reposo) /\ UNCHANGED <<tabla, periodos>>
      BY DEF K!EscribeEtapas, K!En
<1>2. \A f \in m.filas : ~ f.inicial
      BY <1>1 DEF IInvCatalogos, SolicitudFirme
<1>3. {e \in etapas' : e.inicial} = {e \in etapas : e.inicial}
      BY <1>1, <1>2
<1>4. K!UnaInicial'
      BY <1>3 DEF IInvCatalogos, K!UnaInicial
<1>5. /\ FilasTipo' /\ TablaFirme(tabla') /\ periodos' \in Seq(K!Periodo)
      /\ Insertados \in Nat /\ Insertados <= Insertados'
      BY <1>1, FilaViva, TablasDos DEF IInvCatalogos, FilasTipo, Insertados
<1> QED BY <1>1, <1>4, <1>5, ReposoFirme, PasoSolicitud

(* The periods once a request has written one.                              *)
LEMMA LlegaPeriodo ==
  ASSUME IInvCatalogos, NEW p \in Tramites, K!EscribePeriodo(p)
  PROVE  /\ solicitud[p].op = "periodo"
         /\ periodos \in Seq(K!Periodo) /\ solicitud[p].fila \in K!Periodo
         /\ periodos' = Append(periodos, solicitud[p].fila)
         /\ K!Pasa(p, K!Reposo) /\ UNCHANGED <<tabla, etapas>>
BY DEF K!EscribePeriodo, K!En, IInvCatalogos, SolicitudFirme

LEMMA PasoPeriodos ==
  ASSUME IInvCatalogos, NEW p \in Tramites, K!Pasa(p, K!Reposo),
         UNCHANGED <<tabla, etapas>>, periodos' \in Seq(K!Periodo)
  PROVE  IInvCatalogos'
<1>1. FilasTipo' /\ TablaFirme(tabla') /\ K!UnaInicial'
      /\ Insertados \in Nat /\ Insertados <= Insertados'
      BY FilaViva, TablasDos
         DEF IInvCatalogos, FilasTipo, Insertados, K!UnaInicial
<1> QED BY <1>1, ReposoFirme, PasoSolicitud

LEMMA PasoEscribePeriodo ==
  ASSUME IInvCatalogos, NEW p \in Tramites, K!EscribePeriodo(p)
  PROVE  IInvCatalogos'
<1>1. periodos' \in Seq(K!Periodo)
      BY LlegaPeriodo
<1> QED BY <1>1, LlegaPeriodo, PasoPeriodos

LEMMA LlegaEdicionPeriodo ==
  ASSUME IInvCatalogos, NEW p \in Tramites, K!EscribeEdicionPeriodo(p)
  PROVE  LET m == solicitud[p]
             toca == {c \in {"desde", "hasta", "valor"} :
                        m.fila[c] # m.foto[m.id][c]}
             dado == [c \in toca |-> m.fila[c]]
         IN /\ m.op = "edicionPeriodo"
            /\ periodos \in Seq(K!Periodo) /\ m.fila \in K!Periodo
            /\ periodos' = [periodos EXCEPT ![m.id] = K!Sobre(dado, @)]
            /\ \A r \in K!Periodo : K!Sobre(dado, r) \in K!Periodo
            /\ periodos' \in Seq(K!Periodo)
            /\ K!Pasa(p, K!Reposo) /\ UNCHANGED <<tabla, etapas>>
<1> DEFINE m == solicitud[p]
           toca == {c \in {"desde", "hasta", "valor"} :
                      m.fila[c] # m.foto[m.id][c]}
           dado == [c \in toca |-> m.fila[c]]
<1>1. /\ m.op = "edicionPeriodo"
      /\ periodos' = [periodos EXCEPT ![m.id] = K!Sobre(dado, @)]
      /\ K!Pasa(p, K!Reposo) /\ UNCHANGED <<tabla, etapas>>
      BY DEF K!EscribeEdicionPeriodo, K!En
<1>2. periodos \in Seq(K!Periodo) /\ m.fila \in K!Periodo
      BY <1>1 DEF IInvCatalogos, SolicitudFirme
<1>3. /\ m.fila["desde"] \in Fechas /\ m.fila["hasta"] \in Fechas
      /\ m.fila["valor"] \in K!ValoresParametro
      BY <1>2 DEF K!Periodo
<1>4. DOMAIN dado = toca /\ \A c \in toca : dado[c] = m.fila[c]
      OBVIOUS
<1> HIDE DEF dado, toca
<1>5. \A r \in K!Periodo : K!Sobre(dado, r) \in K!Periodo
      BY <1>3, <1>4, SobrePeriodo
<1>6. periodos' \in Seq(K!Periodo)
  <2> DEFINE i == m.id
             r == K!Sobre(dado, periodos[i])
  <2>1. periodos' = [periodos EXCEPT ![i] = r]
        BY <1>1
  <2>2. i \in DOMAIN periodos => r \in K!Periodo
        BY <1>2, <1>5
  <2> HIDE DEF r, i
  <2>3. Len(periodos) \in Nat /\ DOMAIN periodos = 1..Len(periodos)
        BY <1>2
  <2>4. periodos' = [j \in 1..Len(periodos) |->
                       IF j = i THEN r ELSE periodos[j]]
        BY <2>1, <2>3
  <2>5. \A j \in 1..Len(periodos) :
          (IF j = i THEN r ELSE periodos[j]) \in K!Periodo
        BY <1>2, <2>2, <2>3
  <2> QED BY <2>3, <2>4, <2>5
<1> QED BY <1>1, <1>2, <1>5, <1>6 DEF dado, toca

LEMMA PasoEscribeEdicionPeriodo ==
  ASSUME IInvCatalogos, NEW p \in Tramites, K!EscribeEdicionPeriodo(p)
  PROVE  IInvCatalogos'
BY LlegaEdicionPeriodo, PasoPeriodos

LEMMA InicioCatalogos == K!Init => IInvCatalogos
<1> SUFFICES ASSUME K!Init PROVE IInvCatalogos
    OBVIOUS
<1>1. /\ tabla = [t \in K!Tablas |-> <<>>] /\ periodos = <<>>
      /\ etapas = EtapasBase
      /\ solicitud = [p \in Tramites |-> K!Reposo]
      BY DEF K!Init
<1>2. FilasTipo
      BY <1>1 DEF FilasTipo
<1>3. \A t \in K!Tablas : DOMAIN tabla[t] = {}
      BY <1>1
<1>4. TablaFirme(tabla)
      BY <1>3 DEF TablaFirme
<1>5. K!UnaInicial
      BY <1>1, UnaInicialBase, CuentaK DEF K!UnaInicial
<1> QED BY <1>1, <1>2, <1>4, <1>5, ReposoFirme DEF IInvCatalogos

LEMMA PasoCatalogos == IInvCatalogos /\ [K!Next]_(K!vars) => IInvCatalogos'
<1> SUFFICES ASSUME IInvCatalogos, [K!Next]_(K!vars) PROVE IInvCatalogos'
    OBVIOUS
<1>1. CASE UNCHANGED K!vars
      BY <1>1, QuietoCatalogos DEF K!vars, IInvCatalogos
<1>2. ASSUME NEW p \in Tramites, NEW t \in K!Tablas,
             K!Crea(p, t) \/ K!Actualiza(p, t) \/ K!Elimina(p, t)
      PROVE  IInvCatalogos'
      BY <1>2, PreguntaAlta, PreguntaEdicion, PreguntaBaja, PasoPregunta,
         PasoEscribeAltaFila, PasoEscribeEdicionFila, PasoEscribeBajaFila
         DEF K!Crea, K!Actualiza, K!Elimina
<1>3. ASSUME NEW p \in Tramites, K!confirmar(p)
      PROVE  IInvCatalogos'
      BY <1>3, PreguntaArchivo, PreguntaIdentificadores, PasoPregunta,
         PasoEscribeArchivo DEF K!confirmar
<1>4. ASSUME NEW p \in Tramites, K!Organiza(p)
      PROVE  IInvCatalogos'
      BY <1>2, <1>3, <1>4, TablasDos
         DEF K!Organiza, K!crear_departamento, K!actualizar_departamento,
             K!eliminar_departamento, K!crear_cargo, K!actualizar_cargo,
             K!eliminar_cargo
<1>5. ASSUME NEW p \in Tramites, K!Etapea(p)
      PROVE  IInvCatalogos'
      BY <1>5, PreguntaEtapas, PasoPregunta, PasoEscribeEtapas DEF K!Etapea
<1>6. ASSUME NEW p \in Tramites, K!Parametriza(p)
      PROVE  IInvCatalogos'
      BY <1>6, PreguntaPeriodo, PreguntaEdicionPeriodo, PasoPregunta,
         PasoEscribePeriodo, PasoEscribeEdicionPeriodo
         DEF K!Parametriza, K!crear_parametros, K!actualizar_parametros
<1>7. ASSUME NEW p \in Tramites, K!Revierte(p)
      PROVE  IInvCatalogos'
      BY <1>7, PreguntaNada, PasoPregunta
<1> QED BY <1>1, <1>4, <1>5, <1>6, <1>7 DEF K!Next

THEOREM CatalogosInvariante == K!Spec => []IInvCatalogos
BY InicioCatalogos, PasoCatalogos, PTL DEF K!Spec

(* Who writes what, and that it ends no other request.                      *)
AcabaSolicitud(p) == K!Pasa(p, K!Reposo)

LEMMA SoloLaSuya ==
  ASSUME IInvCatalogos, NEW p \in Tramites, NEW q \in Tramites,
         AcabaSolicitud(q), solicitud[p].op # "libre", solicitud'[p] = K!Reposo
  PROVE  p = q
BY ReposoFirme DEF AcabaSolicitud, K!Pasa, IInvCatalogos

LEMMA QuienEscribeTabla ==
  ASSUME [K!Next]_(K!vars), tabla' # tabla
  PROVE  \E q \in Tramites :
           /\ AcabaSolicitud(q)
           /\ K!EscribeAlta(q) \/ K!EscribeEdicion(q) \/ K!EscribeBaja(q)
                \/ K!EscribeArchivo(q)
<1>1. PICK q \in Tramites :
        K!Organiza(q) \/ K!Etapea(q) \/ K!Parametriza(q) \/ K!Revierte(q)
      BY DEF K!Next, K!vars
<1>2. ~ (K!Etapea(q) \/ K!Parametriza(q) \/ K!Revierte(q))
      BY DEF K!Etapea, K!LeeEtapas, K!EscribeEtapas, K!Parametriza,
         K!crear_parametros, K!actualizar_parametros, K!LeePeriodo,
         K!EscribePeriodo, K!LeeEdicionPeriodo, K!EscribeEdicionPeriodo,
         K!Revierte
<1>3. K!EscribeAlta(q) \/ K!EscribeEdicion(q) \/ K!EscribeBaja(q)
        \/ K!EscribeArchivo(q)
      BY <1>1, <1>2 DEF K!Organiza, K!crear_departamento,
         K!actualizar_departamento, K!eliminar_departamento, K!crear_cargo,
         K!actualizar_cargo, K!eliminar_cargo, K!Crea, K!Actualiza, K!Elimina,
         K!confirmar, K!LeeAlta, K!LeeEdicion, K!LeeBaja, K!LeeArchivo,
         K!ReleeDepartamentos
<1>4. AcabaSolicitud(q)
      BY <1>3 DEF AcabaSolicitud, K!EscribeAlta, K!EscribeEdicion,
         K!EscribeBaja, K!EscribeArchivo
<1> QED BY <1>3, <1>4

LEMMA QuienEscribePeriodos ==
  ASSUME [K!Next]_(K!vars), periodos' # periodos
  PROVE  \E q \in Tramites :
           AcabaSolicitud(q) /\ (K!EscribePeriodo(q) \/ K!EscribeEdicionPeriodo(q))
<1>1. PICK q \in Tramites :
        K!Organiza(q) \/ K!Etapea(q) \/ K!Parametriza(q) \/ K!Revierte(q)
      BY DEF K!Next, K!vars
<1>2. ~ (K!Etapea(q) \/ K!Revierte(q))
      BY DEF K!Etapea, K!LeeEtapas, K!EscribeEtapas, K!Revierte
<1>3. ~ K!Organiza(q)
      BY DEF K!Organiza, K!crear_departamento, K!actualizar_departamento,
         K!eliminar_departamento, K!crear_cargo, K!actualizar_cargo,
         K!eliminar_cargo, K!Crea, K!Actualiza, K!Elimina, K!confirmar,
         K!LeeAlta, K!LeeEdicion, K!LeeBaja, K!LeeArchivo,
         K!ReleeDepartamentos, K!EscribeAlta, K!EscribeEdicion, K!EscribeBaja,
         K!EscribeArchivo
<1>4. K!EscribePeriodo(q) \/ K!EscribeEdicionPeriodo(q)
      BY <1>1, <1>2, <1>3 DEF K!Parametriza, K!crear_parametros,
         K!actualizar_parametros, K!LeePeriodo, K!LeeEdicionPeriodo
<1>5. AcabaSolicitud(q)
      BY <1>4 DEF AcabaSolicitud, K!EscribePeriodo, K!EscribeEdicionPeriodo
<1> QED BY <1>4, <1>5

(* The file that ends is the one that wrote.                                *)
LEMMA TerminaArchivo ==
  ASSUME IInvCatalogos, [K!Next]_(K!vars), NEW p \in Tramites,
         K!Termina(p, "archivo2"), tabla' # tabla
  PROVE  K!EscribeArchivo(p)
<1>1. solicitud[p].op = "archivo2" /\ solicitud'[p] = K!Reposo
      BY DEF K!Termina, K!En
<1>2. PICK q \in Tramites :
        /\ AcabaSolicitud(q)
        /\ K!EscribeAlta(q) \/ K!EscribeEdicion(q) \/ K!EscribeBaja(q)
             \/ K!EscribeArchivo(q)
      BY QuienEscribeTabla
<1>3. p = q
      BY <1>1, <1>2, SoloLaSuya
<1> QED BY <1>1, <1>2, <1>3 DEF K!EscribeAlta, K!EscribeEdicion, K!EscribeBaja, K!En

(* What ImportaTodo says of the step that writes the file of request p.     *)
ArchivoEntero(p) ==
  LET m == solicitud[p].pedido
      antes == tabla[m.tabla]
      ahora == tabla'[m.tabla]
      fila(n) == CHOOSE i \in DOMAIN ahora :
                   i > Len(antes) /\ ahora[i].nombre = n
  IN /\ SubSeq(ahora, 1, Len(antes)) = antes
     /\ {ahora[i].nombre : i \in Len(antes) + 1..Len(ahora)} = m.nuevos
     /\ m.tabla = "departamento" =>
          \A n \in m.nuevos : m.archivo[n] \in m.nuevos =>
            ahora[fila(n)].padre = fila(m.archivo[n])

LEMMA EntraEntero ==
  ASSUME IInvCatalogos, NEW p \in Tramites, K!EscribeArchivo(p)
  PROVE  ArchivoEntero(p)
<1> DEFINE s == solicitud[p]
           m == s.pedido
           t == m.tabla
           a == m.archivo
           E == m.nuevos
           fs == K!FilasDe(s)
           antes == tabla[t]
           ahora == tabla'[t]
           n == Len(antes)
           N == Len(fs)
           fila(x) == CHOOSE i \in DOMAIN ahora :
                        i > Len(antes) /\ ahora[i].nombre = x
<1>1. /\ ArchivoListo(s, Insertados)
      /\ fs # <<>> /\ fs \in Seq(FilaCatalogo)
      /\ antes \in Seq(FilaCatalogo \cup {NULL})
      /\ ahora = antes \o fs
      BY LlegaArchivo
<1>2. FilasTipo
      BY DEF IInvCatalogos
<1>3. /\ \A k \in 1..N : fs[k].nombre \in E
      /\ \A x \in E : \E k \in 1..N : fs[k].nombre = x
      /\ \A k, l \in 1..N : fs[k].nombre = fs[l].nombre => k = l
      /\ t = "departamento" =>
           \A k \in 1..N : a[fs[k].nombre] \in E =>
             \E l \in 1..N : /\ fs[l].nombre = a[fs[k].nombre]
                             /\ fs[k].padre = n + l
      BY <1>1, <1>2, FilasArchivo DEF Insertados
<1> HIDE DEF fs, a, E, antes, ahora, t
<1>4. /\ n \in Nat /\ N \in Nat
      /\ DOMAIN ahora = 1..(n + N) /\ Len(ahora) = n + N
      /\ \A i \in 1..n : ahora[i] = antes[i]
      /\ \A k \in 1..N : ahora[n + k] = fs[k]
  <2>1. fs \in Seq(FilaCatalogo \cup {NULL})
        BY <1>1
  <2> QED BY <1>1, <2>1
<1>5. \A i \in n + 1..n + N : \E k \in 1..N : i = n + k /\ ahora[i] = fs[k]
  <2> TAKE i \in n + 1..n + N
  <2>1. i - n \in 1..N /\ i = n + (i - n)
        BY <1>4
  <2> QED BY <1>4, <2>1
<1>6. SubSeq(ahora, 1, n) = antes
  <2>1. SubSeq(ahora, 1, n) = [i \in 1..n |-> ahora[i]]
        BY <1>1, <1>4
  <2>2. antes = [i \in 1..n |-> antes[i]]
        BY <1>1
  <2> QED BY <1>4, <2>1, <2>2
<1>7. {ahora[i].nombre : i \in n + 1..Len(ahora)} = E
  <2>1. \A i \in n + 1..n + N : ahora[i].nombre \in E
        BY <1>3, <1>5
  <2>2. \A x \in E : \E i \in n + 1..n + N : ahora[i].nombre = x
    <3> TAKE x \in E
    <3>1. PICK k \in 1..N : fs[k].nombre = x
          BY <1>3
    <3>2. n + k \in n + 1..n + N /\ ahora[n + k].nombre = x
          BY <1>4, <3>1
    <3> QED BY <3>2
  <2> QED BY <1>4, <2>1, <2>2
<1>8. \A k \in 1..N : fila(fs[k].nombre) = n + k
  <2> TAKE k \in 1..N
  <2>1. /\ n + k \in DOMAIN ahora /\ n + k > n
        /\ ahora[n + k].nombre = fs[k].nombre
        BY <1>4
  <2>2. \A i \in DOMAIN ahora :
          i > n /\ ahora[i].nombre = fs[k].nombre => i = n + k
    <3> SUFFICES ASSUME NEW i \in DOMAIN ahora, i > n,
                        ahora[i].nombre = fs[k].nombre
                 PROVE  i = n + k
        OBVIOUS
    <3>1. i \in n + 1..n + N
          BY <1>4
    <3>2. PICK l \in 1..N : i = n + l /\ ahora[i] = fs[l]
          BY <1>5, <3>1
    <3> QED BY <1>3, <3>2
  <2> QED BY <2>1, <2>2
<1> HIDE DEF fila
<1>9. t = "departamento" =>
        \A x \in E : a[x] \in E => ahora[fila(x)].padre = fila(a[x])
  <2> SUFFICES ASSUME t = "departamento", NEW x \in E, a[x] \in E
               PROVE  ahora[fila(x)].padre = fila(a[x])
      OBVIOUS
  <2>1. PICK k \in 1..N : fs[k].nombre = x
        BY <1>3
  <2>2. PICK l \in 1..N : fs[l].nombre = a[x] /\ fs[k].padre = n + l
        BY <1>3, <2>1
  <2>3. ahora[n + k] = fs[k] /\ fila(x) = n + k /\ fila(a[x]) = n + l
        BY <1>4, <1>8, <2>1, <2>2
  <2> QED BY <2>2, <2>3
<1> QED BY <1>6, <1>7, <1>9 DEF ArchivoEntero, fila, a, E, antes, ahora, t

(* A cycle through departments that were there was there before: what goes  *)
(* in points to them, they do not point to it.                              *)
EnCirculo(c, ds) ==
  /\ c \subseteq DOMAIN ds /\ c # {}
  /\ \A i \in c : ds[i] # NULL /\ ds[i].padre \in c

LEMMA CicloDe == \A ds : K!Ciclo(ds) <=> \E c : EnCirculo(c, ds)
BY DEF K!Ciclo, EnCirculo

(* Where the rows of two sequences are in their concatenation.              *)
LEMMA Concatenadas ==
  ASSUME NEW S, NEW s \in Seq(S), NEW z \in Seq(S)
  PROVE  /\ DOMAIN (s \o z) = 1..(Len(s) + Len(z))
         /\ \A i \in 1..Len(s) : i \in DOMAIN s /\ (s \o z)[i] = s[i]
         /\ \A k \in 1..Len(z) : (s \o z)[Len(s) + k] = z[k]
<1>1. /\ Len(s) \in Nat /\ Len(z) \in Nat /\ Len(s \o z) = Len(s) + Len(z)
      /\ DOMAIN s = 1..Len(s) /\ DOMAIN (s \o z) = 1..Len(s \o z)
      OBVIOUS
<1>2. \A i \in 1..Len(s) : (s \o z)[i] = s[i]
      OBVIOUS
<1>3. \A k \in 1..Len(z) : (s \o z)[Len(s) + k] = z[k]
  <2> TAKE k \in 1..Len(z)
  <2>1. /\ Len(s) + k \in 1..(Len(s) + Len(z))
        /\ Len(s) + k > Len(s) /\ Len(s) + k - Len(s) = k
        BY <1>1
  <2> QED BY <1>1, <2>1
<1> QED BY <1>1, <1>2, <1>3

LEMMA CirculoNuevo ==
  ASSUME FilasTipo, TablaFirme(tabla), ~ K!Ciclo(tabla["departamento"]),
         NEW fs \in Seq(FilaCatalogo),
         tabla'["departamento"] = tabla["departamento"] \o fs,
         NEW c, EnCirculo(c, tabla'["departamento"])
  PROVE  \A i \in c : \E k \in 1..Len(fs) :
           i = Insertados + k /\ tabla'["departamento"][i] = fs[k]
<1> DEFINE ds == tabla["departamento"]
           n == Len(ds)
           N == Len(fs)
           c0 == c \cap 1..n
<1>1. /\ ds \in Seq(FilaCatalogo \cup {NULL})
      /\ fs \in Seq(FilaCatalogo \cup {NULL})
      /\ n \in Nat /\ N \in Nat /\ n = Insertados
      BY FilaViva, TablasDos DEF Insertados
<1>2. /\ DOMAIN tabla'["departamento"] = 1..(n + N)
      /\ \A i \in 1..n : i \in DOMAIN ds /\ tabla'["departamento"][i] = ds[i]
      /\ \A k \in 1..N : tabla'["departamento"][n + k] = fs[k]
  <2>1. tabla'["departamento"] = ds \o fs
        OBVIOUS
  <2> DEFINE Filas == FilaCatalogo \cup {NULL}
  <2>2. ds \in Seq(Filas) /\ fs \in Seq(Filas)
        BY <1>1
  <2> HIDE DEF ds, Filas
  <2>3. Len(ds) \in Nat /\ Len(fs) \in Nat
        BY <1>1
  <2>4. DOMAIN (ds \o fs) = 1..(Len(ds) + Len(fs))
        BY <2>2, <2>3, Concatenadas
  <2>5. \A i \in 1..Len(ds) : i \in DOMAIN ds /\ (ds \o fs)[i] = ds[i]
        BY <2>2, <2>3, Concatenadas
  <2>6. \A k \in 1..Len(fs) : (ds \o fs)[Len(ds) + k] = fs[k]
        BY <2>2, <2>3, Concatenadas
  <2> QED BY <2>1, <2>4, <2>5, <2>6
<1>3. c \subseteq 1..(n + N)
      BY <1>2 DEF EnCirculo
<1>4. \A i \in c0 : ds[i] # NULL /\ ds[i].padre \in c0
  <2> SUFFICES ASSUME NEW i \in c0
               PROVE  ds[i] # NULL /\ ds[i].padre \in c0
      OBVIOUS
  <2>1. i \in DOMAIN ds /\ ds[i] # NULL /\ ds[i].padre \in c
        BY <1>2 DEF EnCirculo
  <2>2. ds[i].padre # NULL
        BY <1>3, <2>1, NuloEnCatalogo
  <2>3. ds[i].padre \in DOMAIN ds
        BY <2>1, <2>2, TablasDos DEF TablaFirme
  <2> QED BY <1>1, <2>1, <2>3
<1>5. c0 = {}
  <2>1. c0 \subseteq DOMAIN ds
        BY <1>1
  <2>2. c0 # {} => EnCirculo(c0, ds)
        BY <1>4, <2>1 DEF EnCirculo
  <2> QED BY <2>2, CicloDe
<1>6. \A i \in c : i \in n + 1..n + N
      BY <1>1, <1>3, <1>5
<1> HIDE DEF ds, n, N
<1>7. \A i \in n + 1..n + N : i - n \in 1..N /\ i = n + (i - n)
      BY <1>1
<1> QED BY <1>1, <1>2, <1>6, <1>7 DEF n, N, ds

LEMMA AltaNoCicla ==
  ASSUME IInvCatalogos, NEW p \in Tramites, K!EscribeAlta(p),
         K!Ciclo(tabla'["departamento"])
  PROVE  K!Ciclo(tabla["departamento"])
<1> DEFINE m == solicitud[p]
           f == m.fila
           fs == <<f>>
<1>1. /\ m.op = "alta" /\ K!Cabe(m.tabla, 0, f)
      /\ tabla' = [tabla EXCEPT ![m.tabla] = Append(@, f)]
      BY DEF K!EscribeAlta, K!En, K!create_departamento
<1>2. m.tabla \in K!Tablas /\ f \in FilaCatalogo /\ FilasTipo /\ TablaFirme(tabla)
      BY <1>1 DEF IInvCatalogos, SolicitudFirme
<1>3. CASE m.tabla # "departamento"
      BY <1>1, <1>2, <1>3, TablasDos DEF FilasTipo
<1>4. CASE m.tabla = "departamento"
  <2> SUFFICES ASSUME ~ K!Ciclo(tabla["departamento"]) PROVE FALSE
      OBVIOUS
  <2>1. tabla["departamento"] \in Seq(FilaCatalogo \cup {NULL})
        BY <1>2, FilaViva, TablasDos
  <2>2. /\ fs \in Seq(FilaCatalogo) /\ Len(fs) = 1 /\ fs[1] = f
        /\ tabla'["departamento"] = tabla["departamento"] \o fs
        BY <1>1, <1>2, <1>4, <2>1, TablasDos DEF FilasTipo
  <2> HIDE DEF fs, f
  <2>3. PICK c : EnCirculo(c, tabla'["departamento"])
        BY CicloDe
  <2>4. \A i \in c : \E k \in 1..Len(fs) :
          i = Insertados + k /\ tabla'["departamento"][i] = fs[k]
        BY <1>2, <2>2, <2>3, CirculoNuevo
  <2>5. \A i \in c : i = Insertados + 1 /\ tabla'["departamento"][i] = f
    <3> TAKE i \in c
    <3>1. PICK k \in 1..Len(fs) :
            i = Insertados + k /\ tabla'["departamento"][i] = fs[k]
          BY <2>4
    <3>2. k = 1
          BY <2>2
    <3> QED BY <2>2, <3>1, <3>2
  <2>6. PICK i \in c : i = Insertados + 1 /\ f.padre \in c
        BY <2>3, <2>5 DEF EnCirculo
  <2>7. f.padre = Insertados + 1
        BY <2>5, <2>6
  <2>8. Insertados \in Nat
        BY <1>2, FilaViva, TablasDos DEF Insertados
  <2>9. f.padre \in 1..Insertados
        BY <1>1, <1>2, <2>7, <2>8, NuloEnCatalogo, FilaViva, TablasDos
           DEF K!Cabe, K!Superiores, Insertados
  <2> QED BY <2>7, <2>8, <2>9
<1> QED BY <1>3, <1>4

LEMMA BajaNoCicla ==
  ASSUME IInvCatalogos, NEW p \in Tramites, K!EscribeBaja(p),
         K!Ciclo(tabla'["departamento"])
  PROVE  K!Ciclo(tabla["departamento"])
<1> DEFINE m == solicitud[p]
<1>1. /\ m.op = "baja"
      /\ tabla' = [tabla EXCEPT ![m.tabla][m.id] = NULL]
      BY DEF K!EscribeBaja, K!En, K!delete_cargo
<1>2. m.tabla \in K!Tablas /\ m.id \in Nat /\ FilasTipo
      BY <1>1 DEF IInvCatalogos, SolicitudFirme
<1>3. /\ DOMAIN tabla'["departamento"] = DOMAIN tabla["departamento"]
      /\ \A i \in DOMAIN tabla["departamento"] :
           tabla'["departamento"][i] # NULL =>
             tabla'["departamento"][i] = tabla["departamento"][i]
      BY <1>1, <1>2, FilaViva, TablasDos DEF FilasTipo
<1>4. PICK c : EnCirculo(c, tabla'["departamento"])
      BY CicloDe
<1>5. EnCirculo(c, tabla["departamento"])
      BY <1>3, <1>4 DEF EnCirculo
<1> QED BY <1>5, CicloDe

(* A cycle of rows of the file would be a circle in the file.               *)
LEMMA ArchivoNoCicla ==
  ASSUME IInvCatalogos, NEW p \in Tramites, K!EscribeArchivo(p),
         K!Ciclo(tabla'["departamento"])
  PROVE  K!Ciclo(tabla["departamento"])
<1> DEFINE m == solicitud[p]
           t == m.pedido.tabla
           a == m.pedido.archivo
           E == m.pedido.nuevos
           fs == K!FilasDe(m)
           n == Len(tabla[t])
           N == Len(fs)
<1>1. /\ ArchivoListo(m, Insertados)
      /\ t \in K!Tablas /\ fs # <<>> /\ fs \in Seq(FilaCatalogo)
      /\ tabla'[t] = tabla[t] \o fs
      /\ \A u \in K!Tablas \ {t} : tabla'[u] = tabla[u]
      BY LlegaArchivo
<1>2. FilasTipo /\ TablaFirme(tabla)
      BY DEF IInvCatalogos
<1>3. CASE t # "departamento"
      BY <1>1, <1>3, TablasDos
<1>4. CASE t = "departamento"
  <2> SUFFICES ASSUME ~ K!Ciclo(tabla["departamento"]) PROVE FALSE
      OBVIOUS
  <2>1. /\ \A k \in 1..N : fs[k].nombre \in E
        /\ \A k, l \in 1..N : fs[k].nombre = fs[l].nombre => k = l
        /\ \A k \in 1..N :
             \/ fs[k].padre = NULL
             \/ fs[k].padre \in 1..Insertados
             \/ a[fs[k].nombre] \in E
        /\ \A k \in 1..N : a[fs[k].nombre] \in E =>
             \E l \in 1..N : /\ fs[l].nombre = a[fs[k].nombre]
                             /\ fs[k].padre = n + l
        BY <1>1, <1>2, <1>4, FilasArchivo DEF Insertados
  <2>2. E \subseteq DOMAIN a /\ ~ K!Circular(a)
        BY <1>1, <1>4 DEF ArchivoListo, ArchivoVisto
  <2>3. n = Insertados /\ n \in Nat /\ N \in Nat
    <3>1. Len(tabla["departamento"]) \in Nat
          BY <1>2, FilaViva, TablasDos
    <3> QED BY <1>1, <1>4, <3>1 DEF Insertados
  <2>4. PICK c : EnCirculo(c, tabla'["departamento"])
        BY CicloDe
  <2>5. tabla'["departamento"] = tabla["departamento"] \o fs
        BY <1>1, <1>4
  <2> HIDE DEF fs, a, E, t
  <2>6. \A i \in c : \E k \in 1..N :
          i = n + k /\ tabla'["departamento"][i] = fs[k]
    <3>1. \A i \in c : \E k \in 1..Len(fs) :
            i = Insertados + k /\ tabla'["departamento"][i] = fs[k]
          BY <1>1, <1>2, <2>4, <2>5, CirculoNuevo
    <3> HIDE DEF n
    <3> QED BY <2>3, <3>1
  <2> DEFINE d == {x \in E : \E k \in 1..N : n + k \in c /\ fs[k].nombre = x}
  <2>7. \A k \in 1..N : n + k \in c => fs[k].padre \in c
    <3> SUFFICES ASSUME NEW k \in 1..N, n + k \in c
                 PROVE  fs[k].padre \in c
        OBVIOUS
    <3>1. PICK l \in 1..N :
            n + k = n + l /\ tabla'["departamento"][n + k] = fs[l]
          BY <2>6
    <3>2. k = l
          BY <2>3, <3>1
    <3>3. tabla'["departamento"][n + k].padre \in c
          BY <2>4 DEF EnCirculo
    <3> QED BY <3>1, <3>2, <3>3
  <2>8. \A k \in 1..N : n + k \in c => a[fs[k].nombre] \in d
    <3> SUFFICES ASSUME NEW k \in 1..N, n + k \in c
                 PROVE  a[fs[k].nombre] \in d
        OBVIOUS
    <3>1. PICK j \in 1..N : fs[k].padre = n + j
          BY <2>6, <2>7
    <3>2. fs[k].padre # NULL /\ fs[k].padre \notin 1..Insertados
          BY <2>3, <3>1, NuloEnCatalogo
    <3>3. PICK l \in 1..N :
            fs[l].nombre = a[fs[k].nombre] /\ fs[k].padre = n + l
          BY <2>1, <3>2
    <3>4. n + l \in c
          BY <2>7, <3>3
    <3> QED BY <2>1, <3>3, <3>4
  <2>9. \A x \in d : a[x] \in d
        BY <2>8
  <2>10. d # {}
    <3>1. PICK i \in c : TRUE
          BY <2>4 DEF EnCirculo
    <3> QED BY <2>6, <2>8, <3>1
  <2>11. d \in SUBSET DOMAIN a
         BY <2>2
  <2> QED BY <2>2, <2>9, <2>10, <2>11 DEF K!Circular
<1> QED BY <1>3, <1>4

LEMMA SoloUnaEdicionCicla ==
  ASSUME IInvCatalogos, [K!Next]_(K!vars), K!Ciclo(tabla'["departamento"]),
         ~ K!Ciclo(tabla["departamento"])
  PROVE  \E p \in Tramites : K!Termina(p, "edicion")
<1>1. PICK q \in Tramites :
        /\ AcabaSolicitud(q)
        /\ K!EscribeAlta(q) \/ K!EscribeEdicion(q) \/ K!EscribeBaja(q)
             \/ K!EscribeArchivo(q)
      BY QuienEscribeTabla
<1>2. K!EscribeEdicion(q)
      BY <1>1, AltaNoCicla, BajaNoCicla, ArchivoNoCicla
<1>3. solicitud'[q] = K!Reposo
      BY <1>1 DEF AcabaSolicitud, K!Pasa, IInvCatalogos
<1> QED BY <1>2, <1>3 DEF K!EscribeEdicion, K!Termina

(* A period that ends before it begins, or over another, is not written     *)
(* when nothing was committed since it was checked.                         *)
LEMMA SolapaSimetrica == \A x, y : K!Solapa(x, y) <=> K!Solapa(y, x)
BY DEF K!Solapa

LEMMA PeriodoOrdena ==
  ASSUME IInvCatalogos, NEW p \in Tramites, K!EscribePeriodo(p),
         solicitud[p].foto = periodos, K!Ordenados(periodos)
  PROVE  K!Ordenados(periodos')
<1> DEFINE x == solicitud[p].fila
           n == Len(periodos)
<1>1. /\ periodos \in Seq(K!Periodo) /\ x \in K!Periodo
      /\ periodos' = Append(periodos, x)
      /\ solicitud[p].op = "periodo"
      BY LlegaPeriodo
<1>2. /\ x.desde <= x.hasta
      /\ \A j \in DOMAIN periodos : ~ K!Solapa(x, periodos[j])
      BY <1>1 DEF IInvCatalogos, SolicitudFirme
<1> HIDE DEF x
<1>3. /\ n \in Nat /\ DOMAIN periodos = 1..n /\ DOMAIN periodos' = 1..(n + 1)
      /\ \A i \in 1..n : periodos'[i] = periodos[i]
      /\ periodos'[n + 1] = x
      BY <1>1
<1> HIDE DEF n
<1>4. \A i \in 1..(n + 1) : i \in 1..n \/ i = n + 1
      BY <1>3
<1>5. \A i \in DOMAIN periodos' : periodos'[i].desde <= periodos'[i].hasta
      BY <1>2, <1>3, <1>4 DEF K!Ordenados
<1>6. \A i, j \in DOMAIN periodos' :
        i # j => ~ K!Solapa(periodos'[i], periodos'[j])
  <2> SUFFICES ASSUME NEW i \in DOMAIN periodos', NEW j \in DOMAIN periodos',
                      i # j
               PROVE  ~ K!Solapa(periodos'[i], periodos'[j])
      OBVIOUS
  <2>1. CASE i \in 1..n /\ j \in 1..n
        BY <1>3, <2>1 DEF K!Ordenados
  <2>2. CASE i = n + 1 /\ j \in 1..n
        BY <1>2, <1>3, <2>2
  <2>3. CASE i \in 1..n /\ j = n + 1
        BY <1>2, <1>3, <2>3, SolapaSimetrica
  <2> QED BY <1>3, <1>4, <2>1, <2>2, <2>3
<1> QED BY <1>5, <1>6 DEF K!Ordenados

LEMMA EdicionOrdena ==
  ASSUME IInvCatalogos, NEW p \in Tramites, K!EscribeEdicionPeriodo(p),
         solicitud[p].foto = periodos, K!Ordenados(periodos)
  PROVE  K!Ordenados(periodos')
<1> DEFINE m == solicitud[p]
           i == m.id
           x == m.fila
           toca == {c \in {"desde", "hasta", "valor"} :
                      x[c] # m.foto[i][c]}
           dado == [c \in toca |-> x[c]]
           r == K!Sobre(dado, periodos[i])
<1>1. /\ m.op = "edicionPeriodo" /\ periodos \in Seq(K!Periodo)
      /\ periodos' = [periodos EXCEPT ![i] = r]
      BY LlegaEdicionPeriodo
<1>2. /\ i \in DOMAIN periodos /\ x.desde <= x.hasta /\ x \in K!Periodo
      /\ x.desde # periodos[i].desde \/ x.hasta # periodos[i].hasta =>
           \A j \in DOMAIN periodos \ {i} : ~ K!Solapa(x, periodos[j])
      BY <1>1 DEF IInvCatalogos, SolicitudFirme
<1>3. periodos[i] \in K!Periodo
      BY <1>1, <1>2
<1>4. r.desde = x.desde /\ r.hasta = x.hasta
  <2>1. /\ DOMAIN periodos[i] = {"desde", "hasta", "valor"}
        /\ DOMAIN dado = toca /\ \A c \in toca : dado[c] = x[c]
        BY <1>3 DEF K!Periodo
  <2>2. \A c \in {"desde", "hasta", "valor"} :
          r[c] = IF c \in toca THEN x[c] ELSE periodos[i][c]
        BY <2>1 DEF K!Sobre
  <2>3. \A c \in {"desde", "hasta", "valor"} : r[c] = x[c]
        BY <2>2
  <2>4. r["desde"] = x["desde"] /\ r["hasta"] = x["hasta"]
        BY <2>3
  <2> QED BY <2>4
<1> HIDE DEF r
<1>5. /\ DOMAIN periodos' = DOMAIN periodos /\ periodos'[i] = r
      /\ \A j \in DOMAIN periodos \ {i} : periodos'[j] = periodos[j]
      BY <1>1, <1>2
<1>6. \A j \in DOMAIN periodos \ {i} : ~ K!Solapa(r, periodos[j])
  <2>1. CASE x.desde # periodos[i].desde \/ x.hasta # periodos[i].hasta
        BY <1>2, <1>4, <2>1 DEF K!Solapa
  <2>2. CASE x.desde = periodos[i].desde /\ x.hasta = periodos[i].hasta
    <3>1. \A j \in DOMAIN periodos \ {i} : ~ K!Solapa(periodos[i], periodos[j])
          BY <1>2 DEF K!Ordenados
    <3> QED BY <1>4, <2>2, <3>1 DEF K!Solapa
  <2> QED BY <2>1, <2>2
<1>7. \A j \in DOMAIN periodos' : periodos'[j].desde <= periodos'[j].hasta
      BY <1>2, <1>4, <1>5 DEF K!Ordenados
<1>8. \A j, k \in DOMAIN periodos' :
        j # k => ~ K!Solapa(periodos'[j], periodos'[k])
  <2> SUFFICES ASSUME NEW j \in DOMAIN periodos', NEW k \in DOMAIN periodos',
                      j # k
               PROVE  ~ K!Solapa(periodos'[j], periodos'[k])
      OBVIOUS
  <2>1. CASE j # i /\ k # i
        BY <1>5, <2>1 DEF K!Ordenados
  <2>2. CASE j = i
        BY <1>5, <1>6, <2>2
  <2>3. CASE k = i
        BY <1>5, <1>6, <2>3, SolapaSimetrica
  <2> QED BY <2>1, <2>2, <2>3
<1> QED BY <1>7, <1>8 DEF K!Ordenados

LEMMA PeriodoTerminado ==
  ASSUME IInvCatalogos, [K!Next]_(K!vars), NEW p \in Tramites,
         K!Termina(p, "periodo") \/ K!Termina(p, "edicionPeriodo"),
         solicitud[p].foto = periodos, K!Ordenados(periodos)
  PROVE  K!Ordenados(periodos')
<1>1. CASE periodos' = periodos
      BY <1>1
<1>2. CASE periodos' # periodos
  <2>1. PICK q \in Tramites :
          AcabaSolicitud(q) /\ (K!EscribePeriodo(q) \/ K!EscribeEdicionPeriodo(q))
        BY <1>2, QuienEscribePeriodos
  <2>2. p = q
        BY <2>1, SoloLaSuya DEF K!Termina, K!En
  <2> QED BY <2>1, <2>2, PeriodoOrdena, EdicionOrdena
<1> QED BY <1>1, <1>2

THEOREM CatalogosSiempreFirmes == K!Spec => K!CatalogoCoherente
<1>1. IInvCatalogos => K!Referencias /\ K!UnaInicial
      BY ReferenciasDeTabla DEF IInvCatalogos
<1>2. IInvCatalogos /\ [K!Next]_(K!vars) =>
        [\A p \in Tramites :
           K!Termina(p, "archivo2") /\ tabla' # tabla => ArchivoEntero(p)]_(K!vars)
      BY TerminaArchivo, EntraEntero
<1>3. IInvCatalogos /\ [K!Next]_(K!vars) =>
        [K!Ciclo(tabla'["departamento"]) /\ ~ K!Ciclo(tabla["departamento"])
           => \E p \in Tramites : K!Termina(p, "edicion")]_(K!vars)
      BY SoloUnaEdicionCicla
<1>4. IInvCatalogos /\ [K!Next]_(K!vars) =>
        [\A p \in Tramites :
           /\ K!Termina(p, "periodo") \/ K!Termina(p, "edicionPeriodo")
           /\ solicitud[p].foto = periodos /\ K!Ordenados(periodos)
           => K!Ordenados(periodos')]_(K!vars)
      BY PeriodoTerminado
<1>5. [][\A p \in Tramites :
           K!Termina(p, "archivo2") /\ tabla' # tabla => ArchivoEntero(p)]_(K!vars)
        => K!ImportaTodo
      BY DEF K!ImportaTodo, ArchivoEntero
<1> QED BY <1>1, <1>2, <1>3, <1>4, <1>5, CatalogosInvariante, PTL
        DEF K!Spec, K!CatalogoCoherente, K!SoloEdicionCicla, K!PeriodosOrdenados

----------------------------------------------------------------------------
(***************************************************************************)
(* MCConfiguracion: a step of the run is a step of one guest or leaves     *)
(* what it works on as it was.                                             *)
(***************************************************************************)
LEMMA SonPermisos == SpecMC => A!Spec
<1>1. InitMC => A!Init
      BY DEF InitMC
<1>2. [NextMC]_variables => [A!Next]_(A!vars)
      BY DEF NextMC, variables, accesos, A!vars
<1> QED BY <1>1, <1>2, PTL DEF SpecMC, A!Spec

LEMMA SonRequisitos == SpecMC => R!Spec
<1>1. InitMC => R!Init
      BY DEF InitMC
<1>2. [NextMC]_variables => [R!Next]_(R!vars)
      BY DEF NextMC, variables, requisitos, R!vars
<1> QED BY <1>1, <1>2, PTL DEF SpecMC, R!Spec

LEMMA SonCatalogos == SpecMC => K!Spec
<1>1. InitMC => K!Init
      BY DEF InitMC
<1>2. CatalogosNext => K!Next
      BY DEF CatalogosNext, K!Next
<1>3. [NextMC]_variables => [K!Next]_(K!vars)
      BY <1>2 DEF NextMC, variables, catalogos, K!vars
<1> QED BY <1>1, <1>3, PTL DEF SpecMC, K!Spec

(* What a person may do follows the roles, whatever is assigned, refreshed  *)
(* or suspended meanwhile (PermisosFirmes of the run).                      *)
THEOREM PermisosDeLaConfiguracion == SpecMC => PermisosFirmes
BY SonPermisos, PermisosSiempreFirmes, PTL DEF PermisosFirmes

(* Departments, positions, stages, periods and the skills the vacancies     *)
(* require stay coherent under requests that overlap.                       *)
THEOREM CatalogosDeLaConfiguracion == SpecMC => CatalogoCoherente
BY SonCatalogos, CatalogosSiempreFirmes, SonRequisitos,
   RequisitosSiempreFirmes, PTL DEF CatalogoCoherente
=============================================================================
