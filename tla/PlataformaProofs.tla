-------------------------- MODULE PlataformaProofs --------------------------
(***************************************************************************)
(* Proofs about what a company hires: Plataforma, for any number of        *)
(* companies, plans, modules and requests in flight, and Suscripcion, for  *)
(* any number of events of Stripe, of customers and of requests.  The two  *)
(* specifications share no name.                                           *)
(*                                                                         *)
(* In Plataforma, Buena says what holds of a request in flight whatever    *)
(* the others do: what it found is still so, or pasada tells that somebody *)
(* changed it.  Choca names the pairs that the locks of the rows, of the   *)
(* names and of the audit chain keep apart.  With both, a commit finds     *)
(* what it needs.  In Suscripcion, AvisoFiel ties a delivery to its event, *)
(* UnEnvio says that one delivery at most has an event, and CorteVigente   *)
(* that a reconciliation nobody overtook still has its reason to cut.      *)
(***************************************************************************)
EXTENDS Plataforma, Suscripcion, FiniteSetTheorems, WellFoundedInduction,
        TLAPS

----------------------------------------------------------------------------
(* The inductive invariant. *)

Escriben == {"EDITAR", "ACTIVAR", "SUSPENDER"}

Buena(m) ==
  /\ m.tipo = "LIBRE" => m = Libre
  /\ m.tipo \in DeEmpresa =>
       /\ m.e \in Empresas /\ Existe(m.e)
       /\ m.toca /\ m.tipo \in Escriben => ~ empresa[m.e].eliminada
  /\ m.tipo = "APROVISIONAR" =>
       /\ m.e \in Empresas /\ ~ Existe(m.e) /\ ~ m.toca
       /\ m.fase # "LEIDA" =>
            /\ m.plan \in Planes /\ plan[m.plan] # "NADA"
            /\ ~ m.pasada => m.pone = incluye[m.plan]
  /\ m.tipo = "ASIGNAR" =>
       /\ m.e \in Empresas /\ Existe(m.e)
       /\ m.plan \in Planes /\ plan[m.plan] # "NADA"
       /\ ~ m.pasada => (m.cambia <=> m.plan # suscrita[m.e])
       /\ m.fase = "LISTA" /\ ~ m.pasada =>
            /\ m.pone = incluye[m.plan] \ modulos[m.e]
            /\ m.quita = modulos[m.e] \ incluye[m.plan]
  /\ m.tipo = "MODULOS" => m.e \in Empresas /\ Existe(m.e) /\ ~ m.cambia
  /\ m.tipo \in DePlan =>
       /\ m.plan \in Planes
       /\ m.tipo = "CREAR_PLAN" => m.estado # "NADA"
  /\ m.fase = "TURNO" => m.anterior = Ultima(Fechas(Registros))

Choca(m, n) ==
  \/ /\ m.toca /\ n.toca /\ m.e = n.e
     /\ m.tipo \in DeEmpresa /\ n.tipo \in DeEmpresa
  \/ /\ m.e = n.e
     /\ m.tipo = "APROVISIONAR" \/ n.tipo = "APROVISIONAR"
  \/ m.fase = "TURNO" /\ n.fase = "TURNO"

(* Each record is chained to the last of those inserted before it.          *)
Anteriores(i) == {bitacora[j].fecha : j \in 1 .. i - 1}
Encadenada ==
  \A i \in DOMAIN bitacora : bitacora[i].anterior = Ultima(Anteriores(i))

IInv ==
  /\ TypeOK
  /\ \A r \in Peticiones : Buena(peticion[r])
  /\ \A r, s \in Peticiones : r # s => ~ Choca(peticion[r], peticion[s])
  /\ Encadenada
  /\ EliminadaInactiva

----------------------------------------------------------------------------
(* The dates of the records have a last one. *)

LEMMA HayMayor ==
  ASSUME NEW S \in SUBSET (1..MaxEventos), S # {}
  PROVE  Max(S) \in S
<1> DEFINE T == {MaxEventos - x : x \in S}
<1>1. T \in SUBSET Nat /\ T # {}
  <2>1. \A x \in S : x \in Nat /\ x <= MaxEventos
    BY MaxEventosNatural
  <2>2. \A x \in S : MaxEventos - x \in Nat
    BY <2>1, MaxEventosNatural
  <2> QED
    BY <2>2
<1>2. PICK n \in T : \A m \in T : ~ (<<m, n>> \in OpToRel(<, Nat))
  BY <1>1, NatLessThanWellFounded, WFMin
<1>3. PICK x \in S : n = MaxEventos - x
  BY <1>2
<1>4. \A y \in S : x >= y
  <2> SUFFICES ASSUME NEW y \in S PROVE x >= y
    OBVIOUS
  <2>1. MaxEventos - y \in T /\ n \in Nat /\ MaxEventos - y \in Nat
    BY <1>1, <1>2
  <2>2. ~ (MaxEventos - y < n)
    BY <1>2, <2>1 DEF OpToRel
  <2> QED
    BY <1>3, <2>2, MaxEventosNatural
<1> QED
  BY <1>4 DEF Max

LEMMA UltimaTipo ==
  ASSUME NEW S \in SUBSET (1..MaxEventos)
  PROVE  Ultima(S) \in 0..MaxEventos
<1>1. CASE S = {}
  BY <1>1, MaxEventosNatural DEF Ultima
<1>2. CASE S # {}
  <2>1. Max(S) \in 1..MaxEventos
    BY <1>2, HayMayor
  <2>2. Max(S) \in 0..MaxEventos
    BY <2>1, MaxEventosNatural
  <2> QED
    BY <1>2, <2>2 DEF Ultima
<1> QED
  BY <1>1, <1>2

LEMMA FechasTipo ==
  ASSUME TypeOK
  PROVE  Fechas(Registros) \in SUBSET (1..MaxEventos)
<1>1. \A i \in DOMAIN bitacora : bitacora[i] \in Registro
  BY DEF TypeOK
<1>2. \A f \in Registro : f.fecha \in 1..MaxEventos
  BY DEF Registro
<1> QED
  BY <1>1, <1>2 DEF Fechas, Registros

----------------------------------------------------------------------------
LEMMA AlEmpezar == Init => IInv
<1> SUFFICES ASSUME Init PROVE IInv
  OBVIOUS
<1>1. \A r \in Peticiones : peticion[r] = Libre
  BY DEF Init
<1>2. Libre \in Peticion
  BY MaxEventosNatural DEF Libre, Peticion, EstadosPlan
<1>3. SinCrear \in FilaEmpresa /\ ~ SinCrear.creada /\ ~ SinCrear.eliminada
  BY DEF SinCrear, FilaEmpresa
<1>4. bitacora \in Seq(Registro) /\ Len(bitacora) = 0
  BY DEF Init
<1>5. TypeOK
  BY <1>2, <1>3, <1>4, MaxEventosNatural
     DEF Init, TypeOK, EmpresaModulo, Existe, EstadosPlan
<1>6. Buena(Libre)
  BY DEF Buena, Libre, DeEmpresa, DePlan
<1>7. ~ Choca(Libre, Libre)
  BY DEF Choca, Libre
<1>8. Encadenada
  BY <1>4 DEF Encadenada
<1>9. EliminadaInactiva
  BY <1>3 DEF Init, EliminadaInactiva
<1> QED
  BY <1>1, <1>5, <1>6, <1>7, <1>8, <1>9 DEF IInv

----------------------------------------------------------------------------
(* The steps of a request that leave the tables alone. *)

LEMMA PasoPeticion ==
  ASSUME IInv, NEW r \in Peticiones, NEW m \in Peticion,
         peticion' = [peticion EXCEPT ![r] = m],
         UNCHANGED tablas, reloj' \in 0..MaxEventos,
         Buena(m),
         \A s \in Peticiones \ {r} : ~ Choca(m, peticion[s])
  PROVE  IInv'
<1> USE DEF IInv
<1>1. /\ empresa' = empresa /\ suscrita' = suscrita /\ plan' = plan
      /\ incluye' = incluye /\ modulos' = modulos /\ bitacora' = bitacora
  BY DEF tablas
<1>2. /\ peticion' \in [Peticiones -> Peticion]
      /\ peticion'[r] = m
      /\ \A s \in Peticiones : s # r => peticion'[s] = peticion[s]
  BY DEF TypeOK
<1>3. TypeOK'
  BY <1>1, <1>2 DEF TypeOK, Existe
<1>4. ASSUME NEW s \in Peticiones PROVE Buena(peticion[s])'
  <2>1. PICK n \in Peticion : n = peticion'[s]
    BY <1>2
  <2>2. Buena(n)
    BY <1>2, <2>1
  <2>3. Buena(n)' <=> Buena(n)
    BY <1>1 DEF Buena, Existe, Registros
  <2> QED
    BY <2>1, <2>2, <2>3 DEF Buena
<1>5. \A s, q \in Peticiones : s # q => ~ Choca(peticion[s], peticion[q])'
  <2>1. \A s \in Peticiones \ {r} : ~ Choca(peticion[s], m)
    BY DEF Choca
  <2> QED
    BY <1>2, <2>1 DEF Choca
<1>6. Encadenada' /\ EliminadaInactiva'
  BY <1>1 DEF Encadenada, Anteriores, EliminadaInactiva
<1> QED
  BY <1>3, <1>4, <1>5, <1>6

LEMMA LibreEs ==
  /\ Libre \in Peticion /\ Libre.tipo = "LIBRE" /\ Libre.fase = "LEIDA"
  /\ Libre.e = "NADA" /\ Libre.plan = "NADA" /\ ~ Libre.toca
  /\ ~ Libre.cambia /\ ~ Libre.pasada
BY MaxEventosNatural DEF Libre, Peticion, EstadosPlan

(* A new request: one more in flight, that holds nothing.                   *)
LEMMA PasoEmpieza ==
  ASSUME IInv, NEW r \in Peticiones, NEW m \in Peticion, Empieza(r, m),
         Buena(m), ~ m.toca, m.fase # "TURNO", m.tipo # "APROVISIONAR",
         m.e \in Empresas => Existe(m.e)
  PROVE  IInv'
<1> USE DEF IInv
<1>1. /\ peticion' = [peticion EXCEPT ![r] = m] /\ UNCHANGED tablas
      /\ reloj' \in 0..MaxEventos
  BY DEF Empieza, TypeOK
<1>2. \A s \in Peticiones \ {r} : ~ Choca(m, peticion[s])
  BY DEF Choca, Buena
<1> QED
  BY <1>1, <1>2, PasoPeticion

LEMMA PasoLeeAprovisionar ==
  ASSUME IInv, NEW r \in Peticiones, NEW e \in Empresas,
         LeeAprovisionar(r, e)
  PROVE  IInv'
<1> USE DEF IInv
<1>1. PICK m1 : m1 = [Libre EXCEPT !.tipo = "APROVISIONAR"]
  OBVIOUS
<1>2. m1 \in Peticion /\ m1.tipo = "APROVISIONAR" /\ m1.fase = "LEIDA"
      /\ ~ m1.toca
  BY <1>1, LibreEs DEF Peticion, Sincronizan
<1>3. PICK m : m = [m1 EXCEPT !.e = e]
  OBVIOUS
<1>4. m \in Peticion /\ m.tipo = "APROVISIONAR" /\ m.fase = "LEIDA"
      /\ ~ m.toca /\ m.e = e
  BY <1>2, <1>3 DEF Peticion
<1>5. /\ peticion' = [peticion EXCEPT ![r] = m] /\ UNCHANGED tablas
      /\ reloj' \in 0..MaxEventos
  BY <1>1, <1>3 DEF LeeAprovisionar, Empieza, TypeOK
<1>6. Buena(m)
  BY <1>4 DEF Buena, LeeAprovisionar, DeEmpresa, DePlan
<1>7. \A s \in Peticiones \ {r} : ~ Choca(m, peticion[s])
  BY <1>4 DEF Choca, LeeAprovisionar
<1> QED
  BY <1>4, <1>5, <1>6, <1>7, PasoPeticion

LEMMA PasoLeeEmpresa ==
  ASSUME IInv, NEW r \in Peticiones, NEW e \in Empresas,
         NEW t \in DeEmpresa, LeeEmpresa(r, e, t)
  PROVE  IInv'
<1>1. PICK m1 : m1 = [Libre EXCEPT !.tipo = t]
  OBVIOUS
<1>2. m1 \in Peticion /\ m1.tipo = t /\ m1.fase = "LEIDA" /\ ~ m1.toca
  BY <1>1, LibreEs DEF Peticion
<1>3. PICK m : m = [m1 EXCEPT !.e = e]
  OBVIOUS
<1>4. m \in Peticion /\ m.tipo = t /\ m.fase = "LEIDA"
      /\ ~ m.toca /\ m.e = e
  BY <1>2, <1>3 DEF Peticion
<1>5. Empieza(r, m) /\ Existe(e)
  BY <1>1, <1>3 DEF LeeEmpresa, Admite
<1>6. Buena(m) /\ m.tipo # "APROVISIONAR"
  BY <1>4, <1>5 DEF Buena, DeEmpresa, DePlan
<1> QED
  BY <1>4, <1>5, <1>6, PasoEmpieza

LEMMA PasoLeeCrear ==
  ASSUME IInv, NEW r \in Peticiones, NEW k \in Planes,
         NEW st \in {"ACTIVO", "INACTIVO"}, NEW mods \in SUBSET Modulos,
         LeeCrear(r, k, st, mods)
  PROVE  IInv'
<1>1. PICK m1 : m1 = [Libre EXCEPT !.tipo = "CREAR_PLAN"]
  OBVIOUS
<1>2. m1 \in Peticion /\ m1.tipo = "CREAR_PLAN" /\ ~ m1.toca
      /\ m1.e = "NADA"
  BY <1>1, LibreEs DEF Peticion, DePlan
<1>3. PICK m2 : m2 = [m1 EXCEPT !.fase = "BORRA"]
  OBVIOUS
<1>4. m2 \in Peticion /\ m2.tipo = "CREAR_PLAN" /\ ~ m2.toca
      /\ m2.e = "NADA" /\ m2.fase = "BORRA"
  BY <1>2, <1>3 DEF Peticion
<1>5. PICK m3 : m3 = [m2 EXCEPT !.plan = k]
  OBVIOUS
<1>6. m3 \in Peticion /\ m3.tipo = "CREAR_PLAN" /\ ~ m3.toca
      /\ m3.e = "NADA" /\ m3.fase = "BORRA" /\ m3.plan = k
  BY <1>4, <1>5 DEF Peticion
<1>7. PICK m4 : m4 = [m3 EXCEPT !.estado = st]
  OBVIOUS
<1>8. m4 \in Peticion /\ m4.tipo = "CREAR_PLAN" /\ ~ m4.toca
      /\ m4.e = "NADA" /\ m4.fase = "BORRA" /\ m4.plan = k
      /\ m4.estado # "NADA"
  BY <1>6, <1>7 DEF Peticion, EstadosPlan
<1>9. PICK m : m = [m4 EXCEPT !.pone = mods]
  OBVIOUS
<1>10. m \in Peticion /\ m.tipo = "CREAR_PLAN" /\ ~ m.toca
       /\ m.e = "NADA" /\ m.fase = "BORRA" /\ m.plan = k
       /\ m.estado # "NADA"
  BY <1>8, <1>9 DEF Peticion
<1>11. Empieza(r, m)
  BY <1>1, <1>3, <1>5, <1>7, <1>9 DEF LeeCrear
<1>12. Buena(m)
  BY <1>10 DEF Buena, DeEmpresa, DePlan
<1> QED
  BY <1>10, <1>11, <1>12, NadaNoEsNadie, PasoEmpieza

LEMMA PasoLeeEditar ==
  ASSUME IInv, NEW r \in Peticiones, NEW k \in Planes,
         NEW st \in {"ACTIVO", "INACTIVO"}, NEW mods \in SUBSET Modulos,
         LeeEditar(r, k, st, mods)
  PROVE  IInv'
<1>1. PICK v \in EstadosPlan : v = IF st = plan[k] THEN "NADA" ELSE st
  BY DEF EstadosPlan
<1>2. PICK m1 : m1 = [Libre EXCEPT !.tipo = "EDITAR_PLAN"]
  OBVIOUS
<1>3. m1 \in Peticion /\ m1.tipo = "EDITAR_PLAN" /\ ~ m1.toca
      /\ m1.e = "NADA" /\ m1.fase = "LEIDA"
  BY <1>2, LibreEs DEF Peticion, DePlan
<1>4. PICK m2 : m2 = [m1 EXCEPT !.plan = k]
  OBVIOUS
<1>5. m2 \in Peticion /\ m2.tipo = "EDITAR_PLAN" /\ ~ m2.toca
      /\ m2.e = "NADA" /\ m2.fase = "LEIDA" /\ m2.plan = k
  BY <1>3, <1>4 DEF Peticion
<1>6. PICK m3 : m3 = [m2 EXCEPT !.estado = v]
  OBVIOUS
<1>7. m3 \in Peticion /\ m3.tipo = "EDITAR_PLAN" /\ ~ m3.toca
      /\ m3.e = "NADA" /\ m3.fase = "LEIDA" /\ m3.plan = k
  BY <1>5, <1>6 DEF Peticion
<1>8. PICK m : m = [m3 EXCEPT !.pone = mods]
  OBVIOUS
<1>9. m \in Peticion /\ m.tipo = "EDITAR_PLAN" /\ ~ m.toca
      /\ m.e = "NADA" /\ m.fase = "LEIDA" /\ m.plan = k
  BY <1>7, <1>8 DEF Peticion
<1>10. Empieza(r, m)
  BY <1>1, <1>2, <1>4, <1>6, <1>8 DEF LeeEditar
<1>11. Buena(m)
  BY <1>9 DEF Buena, DeEmpresa, DePlan
<1> QED
  BY <1>9, <1>10, <1>11, NadaNoEsNadie, PasoEmpieza

LEMMA PasoLeeAsignar ==
  ASSUME IInv, NEW r \in Peticiones, NEW e \in Empresas, NEW k \in Planes,
         LeeAsignar(r, e, k)
  PROVE  IInv'
<1>1. PICK b \in BOOLEAN : b = (k # suscrita[e])
  OBVIOUS
<1>2. PICK m1 : m1 = [Libre EXCEPT !.tipo = "ASIGNAR"]
  OBVIOUS
<1>3. m1 \in Peticion /\ m1.tipo = "ASIGNAR" /\ ~ m1.toca
      /\ m1.fase = "LEIDA"
  BY <1>2, LibreEs DEF Peticion, Sincronizan
<1>4. PICK m2 : m2 = [m1 EXCEPT !.e = e]
  OBVIOUS
<1>5. m2 \in Peticion /\ m2.tipo = "ASIGNAR" /\ ~ m2.toca
      /\ m2.e = e /\ m2.fase = "LEIDA"
  BY <1>3, <1>4 DEF Peticion
<1>6. PICK m3 : m3 = [m2 EXCEPT !.plan = k]
  OBVIOUS
<1>7. m3 \in Peticion /\ m3.tipo = "ASIGNAR" /\ ~ m3.toca
      /\ m3.e = e /\ m3.fase = "LEIDA" /\ m3.plan = k
  BY <1>5, <1>6 DEF Peticion
<1>8. PICK m : m = [m3 EXCEPT !.cambia = b]
  OBVIOUS
<1>9. m \in Peticion /\ m.tipo = "ASIGNAR" /\ ~ m.toca
      /\ m.e = e /\ m.fase = "LEIDA" /\ m.plan = k /\ m.cambia = b
  BY <1>7, <1>8 DEF Peticion
<1>10. Empieza(r, m) /\ Existe(e) /\ plan[k] # "NADA"
  BY <1>1, <1>2, <1>4, <1>6, <1>8 DEF LeeAsignar
<1>11. Buena(m)
  BY <1>1, <1>9, <1>10 DEF Buena, DeEmpresa, DePlan
<1> QED
  BY <1>9, <1>10, <1>11, PasoEmpieza

LEMMA PasoLeeModulos ==
  ASSUME IInv, NEW r \in Peticiones, NEW e \in Empresas,
         NEW mods \in SUBSET Modulos, LeeModulos(r, e, mods)
  PROVE  IInv'
<1>1. modulos[e] \in SUBSET Modulos
  BY DEF IInv, TypeOK, EmpresaModulo
<1>2. PICK m1 : m1 = [Libre EXCEPT !.tipo = "MODULOS"]
  OBVIOUS
<1>3. m1 \in Peticion /\ m1.tipo = "MODULOS" /\ ~ m1.toca /\ ~ m1.cambia
  BY <1>2, LibreEs DEF Peticion
<1>4. PICK m2 : m2 = [m1 EXCEPT !.fase = "LISTA"]
  OBVIOUS
<1>5. m2 \in Peticion /\ m2.tipo = "MODULOS" /\ ~ m2.toca
      /\ ~ m2.cambia /\ m2.fase = "LISTA"
  BY <1>3, <1>4 DEF Peticion
<1>6. PICK m3 : m3 = [m2 EXCEPT !.e = e]
  OBVIOUS
<1>7. m3 \in Peticion /\ m3.tipo = "MODULOS" /\ ~ m3.toca
      /\ ~ m3.cambia /\ m3.fase = "LISTA" /\ m3.e = e
  BY <1>5, <1>6 DEF Peticion
<1>8. PICK m4 : m4 = [m3 EXCEPT !.pone = mods \ modulos[e]]
  OBVIOUS
<1>9. m4 \in Peticion /\ m4.tipo = "MODULOS" /\ ~ m4.toca
      /\ ~ m4.cambia /\ m4.fase = "LISTA" /\ m4.e = e
  BY <1>7, <1>8 DEF Peticion
<1>10. PICK m : m = [m4 EXCEPT !.quita = modulos[e] \ mods]
  OBVIOUS
<1>11. m \in Peticion /\ m.tipo = "MODULOS" /\ ~ m.toca
      /\ ~ m.cambia /\ m.fase = "LISTA" /\ m.e = e
  BY <1>1, <1>9, <1>10 DEF Peticion
<1>12. Empieza(r, m) /\ Existe(e)
  BY <1>2, <1>4, <1>6, <1>8, <1>10 DEF LeeModulos
<1>13. Buena(m)
  BY <1>11, <1>12 DEF Buena, DeEmpresa, DePlan
<1> QED
  BY <1>11, <1>12, <1>13, PasoEmpieza

(* A request that goes on is the same request.                              *)
Misma(m, p) ==
  /\ m.tipo = p.tipo /\ m.e = p.e /\ m.plan = p.plan
  /\ m.estado = p.estado /\ m.cambia = p.cambia /\ m.pasada = p.pasada
  /\ m.pone = p.pone /\ m.quita = p.quita

LEMMA AlFechar ==
  ASSUME TypeOK, NEW r \in Peticiones, NEW p \in Peticion, _audit(r, p)
  PROVE  \E m \in Peticion :
           /\ peticion' = [peticion EXCEPT ![r] = m] /\ UNCHANGED tablas
           /\ reloj' \in 0..MaxEventos
           /\ Misma(m, p) /\ m.toca = p.toca /\ m.fase = "FECHADA"
<1>1. reloj \in 0..MaxEventos /\ reloj' \in 0..MaxEventos
  BY MaxEventosNatural DEF TypeOK, _audit, Cabe
<1>2. PICK f \in 0..MaxEventos : f = IF Cabe THEN reloj + 1 ELSE 0
  BY <1>1, MaxEventosNatural DEF Cabe
<1>3. PICK m1 : m1 = [p EXCEPT !.fase = "FECHADA"]
  OBVIOUS
<1>4. m1 \in Peticion /\ Misma(m1, p) /\ m1.toca = p.toca
      /\ m1.fase = "FECHADA"
  BY <1>3 DEF Peticion, Misma
<1>5. PICK m : m = [m1 EXCEPT !.fecha = f]
  OBVIOUS
<1>6. m \in Peticion /\ Misma(m, p) /\ m.toca = p.toca
      /\ m.fase = "FECHADA"
  BY <1>4, <1>5 DEF Peticion, Misma
<1>7. peticion' = [peticion EXCEPT ![r] = m] /\ UNCHANGED tablas
  BY <1>2, <1>3, <1>5 DEF _audit
<1> QED
  BY <1>1, <1>6, <1>7

LEMMA PasoOrdenaAprovisionar ==
  ASSUME IInv, NEW r \in Peticiones, OrdenaAprovisionar(r)
  PROVE  IInv'
<1> USE DEF IInv
<1>1. PICK p \in Peticion : p = peticion[r]
  BY DEF TypeOK
<1>2. PICK k \in Planes :
        /\ plan[k] = "ACTIVO"
        /\ _audit(r, [p EXCEPT !.plan = k, !.pone = incluye[k]])
  BY <1>1 DEF OrdenaAprovisionar, _habilitar_modulos, Abiertos
<1>3. p.tipo = "APROVISIONAR" /\ p.fase = "LEIDA" /\ Buena(p)
  BY <1>1 DEF OrdenaAprovisionar, En
<1>4. p.e \in Empresas /\ ~ Existe(p.e) /\ ~ p.toca
  BY <1>3 DEF Buena
<1>5. incluye[k] \in SUBSET Modulos
  BY DEF TypeOK
<1>6. PICK p1 : p1 = [p EXCEPT !.plan = k]
  OBVIOUS
<1>7. p1 \in Peticion /\ p1.tipo = "APROVISIONAR" /\ p1.e = p.e
      /\ ~ p1.toca /\ p1.plan = k
  BY <1>3, <1>4, <1>6 DEF Peticion
<1>8. PICK p2 : p2 = [p1 EXCEPT !.pone = incluye[k]]
  OBVIOUS
<1>9. p2 \in Peticion /\ p2.tipo = "APROVISIONAR" /\ p2.e = p.e
      /\ ~ p2.toca /\ p2.plan = k /\ p2.pone = incluye[k]
  BY <1>5, <1>7, <1>8 DEF Peticion
<1>10. _audit(r, p2)
  BY <1>2, <1>6, <1>8
<1>11. PICK m \in Peticion :
         /\ peticion' = [peticion EXCEPT ![r] = m] /\ UNCHANGED tablas
         /\ reloj' \in 0..MaxEventos
         /\ Misma(m, p2) /\ m.toca = p2.toca /\ m.fase = "FECHADA"
  BY <1>9, <1>10, AlFechar
<1>12. Buena(m)
  BY <1>2, <1>4, <1>9, <1>11 DEF Buena, Misma, DeEmpresa, DePlan
<1>13. \A s \in Peticiones \ {r} : ~ Choca(m, peticion[s])
  BY <1>1, <1>3, <1>9, <1>11 DEF Choca, Misma
<1> QED
  BY <1>11, <1>12, <1>13, PasoPeticion

LEMMA PasoOrdenaEmpresa ==
  ASSUME IInv, NEW r \in Peticiones, OrdenaEmpresa(r)
  PROVE  IInv'
<1> USE DEF IInv
<1>1. PICK p \in Peticion : p = peticion[r]
  BY DEF TypeOK
<1>2. p.tipo \in DeEmpresa /\ p.fase = "LEIDA" /\ Buena(p)
      /\ EmpresaLibre(p.e)
      /\ (p.tipo # "ELIMINAR" /\ p.tipo # "RESTAURAR" => Responde(p.e))
  BY <1>1 DEF OrdenaEmpresa, En
<1>3. p.e \in Empresas /\ Existe(p.e)
  BY <1>2 DEF Buena
<1>4. PICK b \in BOOLEAN : b = Coincide(p.tipo, p.e)
  <2>1. empresa[p.e].eliminada \in BOOLEAN
    BY <1>3 DEF TypeOK, FilaEmpresa
  <2> QED
    BY <2>1 DEF Coincide
<1>5. PICK p1 : p1 = [p EXCEPT !.toca = b]
  OBVIOUS
<1>6. p1 \in Peticion /\ p1.tipo = p.tipo /\ p1.e = p.e
  BY <1>5 DEF Peticion
<1>7. _audit(r, p1)
  BY <1>1, <1>4, <1>5 DEF OrdenaEmpresa
<1>8. PICK m \in Peticion :
         /\ peticion' = [peticion EXCEPT ![r] = m] /\ UNCHANGED tablas
         /\ reloj' \in 0..MaxEventos
         /\ Misma(m, p1) /\ m.toca = p1.toca /\ m.fase = "FECHADA"
  BY <1>6, <1>7, AlFechar
<1>9. m.tipo = p.tipo /\ m.e = p.e
  BY <1>6, <1>8 DEF Misma
<1>10. Buena(m)
  BY <1>2, <1>3, <1>8, <1>9
     DEF Buena, DeEmpresa, DePlan, Escriben, Responde
(* Nobody else holds the row. *)
<1>11. \A s \in Peticiones \ {r} : ~ Choca(m, peticion[s])
  <2> SUFFICES ASSUME NEW s \in Peticiones \ {r}, Choca(m, peticion[s])
               PROVE  FALSE
    OBVIOUS
  <2>1. peticion[s].e = p.e /\ peticion[s].tipo # "APROVISIONAR"
        /\ m.tipo # "APROVISIONAR"
    BY <1>1, <1>2, <1>8, <1>9 DEF Choca, DeEmpresa
  <2>2. peticion[s].toca /\ peticion[s].tipo \in DeEmpresa
    BY <1>8, <2>1 DEF Choca
  <2>3. s \in Tocan("e", p.e)
    BY <2>1, <2>2 DEF Tocan
  <2> QED
    BY <1>2, <2>2, <2>3 DEF EmpresaLibre
<1> QED
  BY <1>8, <1>10, <1>11, PasoPeticion

LEMMA PasoBorra ==
  ASSUME IInv, NEW r \in Peticiones, Borra(r)
  PROVE  IInv'
<1> USE DEF IInv
<1>1. PICK p \in Peticion : p = peticion[r]
  BY DEF TypeOK
<1>2. p.tipo = "EDITAR_PLAN" /\ p.fase = "LEIDA" /\ Buena(p)
  BY <1>1 DEF Borra, En
<1>3. p.plan \in Planes /\ incluye[p.plan] \in SUBSET Modulos
  BY <1>2 DEF Buena, DePlan, TypeOK
<1>4. PICK m1 : m1 = [p EXCEPT !.fase = "BORRA"]
  OBVIOUS
<1>5. m1 \in Peticion /\ m1.tipo = p.tipo /\ m1.e = p.e
      /\ m1.fase = "BORRA" /\ m1.plan = p.plan
  BY <1>4 DEF Peticion
<1>6. PICK m : m = [m1 EXCEPT !.quita = incluye[p.plan]]
  OBVIOUS
<1>7. m \in Peticion /\ m.tipo = p.tipo /\ m.e = p.e
      /\ m.fase = "BORRA" /\ m.plan = p.plan
  BY <1>3, <1>5, <1>6 DEF Peticion
<1>8. peticion' = [peticion EXCEPT ![r] = m]
  <2>1. PICK y : y = [peticion EXCEPT ![r].fase = "BORRA"]
    OBVIOUS
  <2>2. y = [peticion EXCEPT ![r] = m1]
    BY <1>1, <1>4, <2>1
  <2>3. y[r] = m1
    BY <2>2 DEF TypeOK
  <2>4. [y EXCEPT ![r].quita = incluye[p.plan]] = [y EXCEPT ![r] = m]
    BY <1>6, <2>3
  <2>5. [y EXCEPT ![r] = m] = [peticion EXCEPT ![r] = m]
    BY <2>2 DEF TypeOK
  <2>6. peticion' = [y EXCEPT ![r].quita = incluye[p.plan]]
    BY <1>1, <2>1 DEF Borra
  <2> QED
    BY <2>4, <2>5, <2>6
<1>9. Buena(m)
  BY <1>2, <1>3, <1>7 DEF Buena, DeEmpresa, DePlan
<1>10. \A s \in Peticiones \ {r} : ~ Choca(m, peticion[s])
  BY <1>1, <1>2, <1>7 DEF Choca, DeEmpresa
<1>11. UNCHANGED tablas /\ reloj' \in 0..MaxEventos
  BY DEF Borra, TypeOK
<1> QED
  BY <1>7, <1>8, <1>9, <1>10, <1>11, PasoPeticion

LEMMA PasoOrdenaPlan ==
  ASSUME IInv, NEW r \in Peticiones, OrdenaPlan(r)
  PROVE  IInv'
<1> USE DEF IInv
<1>1. PICK p \in Peticion : p = peticion[r]
  BY DEF TypeOK
<1>2. p.tipo \in DePlan /\ Buena(p)
  BY <1>1 DEF OrdenaPlan, En
<1>3. PICK b \in BOOLEAN : _audit(r, [p EXCEPT !.toca = b])
  BY <1>1 DEF OrdenaPlan
<1>4. PICK p1 : p1 = [p EXCEPT !.toca = b]
  OBVIOUS
<1>5. p1 \in Peticion /\ Misma(p1, p)
  BY <1>4 DEF Peticion, Misma
<1>6. PICK m \in Peticion :
         /\ peticion' = [peticion EXCEPT ![r] = m] /\ UNCHANGED tablas
         /\ reloj' \in 0..MaxEventos
         /\ Misma(m, p1) /\ m.fase = "FECHADA"
  BY <1>3, <1>4, <1>5, AlFechar
<1>7. Misma(m, p)
  BY <1>5, <1>6 DEF Misma
<1>8. Buena(m)
  BY <1>2, <1>6, <1>7 DEF Buena, Misma, DeEmpresa, DePlan
<1>9. \A s \in Peticiones \ {r} : ~ Choca(m, peticion[s])
  BY <1>1, <1>2, <1>6, <1>7 DEF Choca, Misma, DeEmpresa, DePlan
<1> QED
  BY <1>6, <1>8, <1>9, PasoPeticion

LEMMA PasoOrdenaAsignar ==
  ASSUME IInv, NEW r \in Peticiones, OrdenaAsignar(r)
  PROVE  IInv'
<1> USE DEF IInv
<1>1. PICK p \in Peticion : p = peticion[r]
  BY DEF TypeOK
<1>2. p.tipo = "ASIGNAR" /\ Buena(p)
  BY <1>1 DEF OrdenaAsignar, En
<1>3. PICK P \in SUBSET Modulos : P = incluye[p.plan] \ modulos[p.e]
  BY <1>2 DEF Buena, TypeOK
<1>4. PICK Q \in SUBSET Modulos : Q = modulos[p.e] \ incluye[p.plan]
  BY <1>2 DEF Buena, TypeOK, EmpresaModulo
<1>5. PICK b \in BOOLEAN :
        Sigue(r, [p EXCEPT !.toca = b \/ p.cambia, !.pone = P, !.quita = Q])
  BY <1>1, <1>3, <1>4 DEF OrdenaAsignar
<1>6. PICK c \in BOOLEAN : c = (b \/ p.cambia)
  OBVIOUS
<1>7. PICK p1 : p1 = [p EXCEPT !.toca = c]
  OBVIOUS
<1>8. p1 \in Peticion /\ Misma(p1, p)
  BY <1>7 DEF Peticion, Misma
<1>9. PICK p2 : p2 = [p1 EXCEPT !.pone = P]
  OBVIOUS
<1>10. p2 \in Peticion /\ p2.tipo = p.tipo /\ p2.e = p.e
       /\ p2.plan = p.plan /\ p2.cambia = p.cambia
       /\ p2.pasada = p.pasada /\ p2.pone = P
  BY <1>8, <1>9 DEF Peticion, Misma
<1>11. PICK p3 : p3 = [p2 EXCEPT !.quita = Q]
  OBVIOUS
<1>12. p3 \in Peticion /\ p3.tipo = p.tipo /\ p3.e = p.e
       /\ p3.plan = p.plan /\ p3.cambia = p.cambia
       /\ p3.pasada = p.pasada /\ p3.pone = P /\ p3.quita = Q
  BY <1>10, <1>11 DEF Peticion
<1>13. PICK m : m = [p3 EXCEPT !.fase = "LISTA"]
  OBVIOUS
<1>14. m \in Peticion /\ m.tipo = p.tipo /\ m.e = p.e
       /\ m.plan = p.plan /\ m.cambia = p.cambia
       /\ m.pasada = p.pasada /\ m.pone = P /\ m.quita = Q
       /\ m.fase = "LISTA"
  BY <1>12, <1>13 DEF Peticion
<1>15. peticion' = [peticion EXCEPT ![r] = m] /\ UNCHANGED tablas
       /\ reloj' \in 0..MaxEventos
  BY <1>5, <1>6, <1>7, <1>9, <1>11, <1>13 DEF Sigue, TypeOK
<1>16. Buena(m)
  BY <1>2, <1>3, <1>4, <1>14 DEF Buena, DeEmpresa, DePlan
<1>17. \A s \in Peticiones \ {r} : ~ Choca(m, peticion[s])
  BY <1>1, <1>2, <1>14 DEF Choca, DeEmpresa
<1> QED
  BY <1>14, <1>15, <1>16, <1>17, PasoPeticion

LEMMA PasoTurno ==
  ASSUME IInv, NEW r \in Peticiones, Turno(r)
  PROVE  IInv'
<1> USE DEF IInv
<1>1. PICK p \in Peticion : p = peticion[r]
  BY DEF TypeOK
<1>2. p.fase = "FECHADA" /\ Buena(p)
      /\ \A s \in Peticiones : peticion[s].fase # "TURNO"
  BY <1>1 DEF Turno, TurnoLibre
<1>3. PICK u \in 0..MaxEventos : u = Ultima(Fechas(Registros))
  BY FechasTipo, UltimaTipo
<1>4. PICK m1 : m1 = [p EXCEPT !.fase = "TURNO"]
  OBVIOUS
<1>5. m1 \in Peticion /\ Misma(m1, p) /\ m1.toca = p.toca
      /\ m1.fase = "TURNO"
  BY <1>4 DEF Peticion, Misma
<1>6. PICK m : m = [m1 EXCEPT !.anterior = u]
  OBVIOUS
<1>7. m \in Peticion /\ Misma(m, p) /\ m.toca = p.toca
      /\ m.fase = "TURNO" /\ m.anterior = u
  BY <1>5, <1>6 DEF Peticion, Misma
<1>8. peticion' = [peticion EXCEPT ![r] = m]
  <2>1. PICK y : y = [peticion EXCEPT ![r].fase = "TURNO"]
    OBVIOUS
  <2>2. y = [peticion EXCEPT ![r] = m1]
    BY <1>1, <1>4, <2>1
  <2>3. y[r] = m1
    BY <2>2 DEF TypeOK
  <2>4. [y EXCEPT ![r].anterior = u] = [y EXCEPT ![r] = m]
    BY <1>6, <2>3
  <2>5. [y EXCEPT ![r] = m] = [peticion EXCEPT ![r] = m]
    BY <2>2 DEF TypeOK
  <2>6. peticion' = [y EXCEPT ![r].anterior = u]
    BY <1>3, <2>1 DEF Turno
  <2> QED
    BY <2>4, <2>5, <2>6
<1>9. m.tipo # "LIBRE"
  BY <1>2, <1>7, LibreEs DEF Buena, Misma
<1>10. Buena(m)
  BY <1>2, <1>3, <1>7, <1>9 DEF Buena, Misma
<1>11. \A s \in Peticiones \ {r} : ~ Choca(m, peticion[s])
  <2> SUFFICES ASSUME NEW s \in Peticiones \ {r}, Choca(m, peticion[s])
               PROVE  FALSE
    OBVIOUS
  <2>1. Choca(p, peticion[s])
    BY <1>2, <1>7 DEF Choca, Misma
  <2> QED
    BY <1>1, <2>1
<1>12. UNCHANGED tablas /\ reloj' \in 0..MaxEventos
  BY DEF Turno, TypeOK
<1> QED
  BY <1>7, <1>8, <1>10, <1>11, <1>12, PasoPeticion

LEMMA PasoRevierte ==
  ASSUME IInv, NEW r \in Peticiones, Revierte(r)
  PROVE  IInv'
<1> USE DEF IInv
<1>1. Buena(Libre)
  BY LibreEs DEF Buena, DeEmpresa, DePlan
<1>2. \A s \in Peticiones \ {r} : ~ Choca(Libre, peticion[s])
  BY LibreEs, NadaNoEsNadie DEF Choca, Buena
<1>3. peticion' = [peticion EXCEPT ![r] = Libre] /\ UNCHANGED tablas
      /\ reloj' \in 0..MaxEventos
  BY DEF Revierte, TypeOK
<1> QED
  BY <1>1, <1>2, <1>3, LibreEs, PasoPeticion

----------------------------------------------------------------------------
(* The commits. *)

(* What a commit leaves of another request n: the same, marked when         *)
(* something it synchronises changed.                                       *)
Envejecida(m, n) ==
  /\ m.tipo = n.tipo /\ m.e = n.e /\ m.plan = n.plan
  /\ m.estado = n.estado /\ m.cambia = n.cambia /\ m.pone = n.pone
  /\ m.quita = n.quita /\ m.fase = n.fase /\ m.toca = n.toca
  /\ m.anterior = n.anterior
  /\ n = Libre => m = Libre
  /\ m.tipo \in Sincronizan /\ ~ m.pasada =>
       /\ ~ n.pasada /\ incluye' = incluye
       /\ suscrita'[n.e] = suscrita[n.e] /\ modulos'[n.e] = modulos[n.e]

LEMMA AlEnvejecer ==
  ASSUME TypeOK, NEW r \in Peticiones, Envejece(r)
  PROVE  /\ peticion' \in [Peticiones -> Peticion]
         /\ peticion'[r] = Libre
         /\ \A q \in Peticiones :
              q # r => Envejecida(peticion'[q], peticion[q])
<1>1. peticion'[r] = Libre
  BY DEF Envejece
<1>2. ASSUME NEW q \in Peticiones, q # r
      PROVE  peticion'[q] \in Peticion /\ Envejecida(peticion'[q], peticion[q])
  <2>1. PICK n \in Peticion : n = peticion[q]
    BY DEF TypeOK
  <2>2. CASE n = Libre
    <3>1. peticion'[q] = Libre
      BY <1>2, <2>1, <2>2 DEF Envejece
    <3> QED
      BY <2>1, <2>2, <3>1, LibreEs DEF Envejecida, Sincronizan
  <2>3. CASE n # Libre
    <3>1. n.pasada \in BOOLEAN
      BY DEF Peticion
    <3>2. PICK b \in BOOLEAN :
            b = (n.pasada \/ /\ n.tipo \in Sincronizan
                             /\ \/ incluye' # incluye
                                \/ suscrita'[n.e] # suscrita[n.e]
                                \/ modulos'[n.e] # modulos[n.e])
      BY <3>1
    <3>3. peticion'[q] = [n EXCEPT !.pasada = b]
      BY <1>2, <2>1, <2>3, <3>2 DEF Envejece
    <3>4. PICK m : m = [n EXCEPT !.pasada = b]
      OBVIOUS
    <3>5. /\ m \in Peticion /\ m.pasada = b
          /\ m.tipo = n.tipo /\ m.e = n.e /\ m.plan = n.plan
          /\ m.estado = n.estado /\ m.cambia = n.cambia
          /\ m.pone = n.pone /\ m.quita = n.quita /\ m.fase = n.fase
          /\ m.toca = n.toca /\ m.anterior = n.anterior
      BY <3>4 DEF Peticion
    <3>6. m.tipo \in Sincronizan /\ ~ m.pasada =>
             /\ ~ n.pasada /\ incluye' = incluye
             /\ suscrita'[n.e] = suscrita[n.e]
             /\ modulos'[n.e] = modulos[n.e]
      BY <3>2, <3>5
    <3>7. Envejecida(m, n)
      BY <2>3, <3>5, <3>6 DEF Envejecida
    <3> QED
      BY <2>1, <3>3, <3>4, <3>5, <3>7
  <2> QED
    BY <2>2, <2>3
<1>3. peticion' \in [Peticiones -> Peticion]
  <2>1. \A q \in Peticiones : peticion'[q] \in Peticion
    BY <1>1, <1>2, LibreEs
  <2>2. peticion' = [q \in Peticiones |-> peticion'[q]]
    BY DEF Envejece
  <2> QED
    BY <2>1, <2>2
<1> QED
  BY <1>1, <1>2, <1>3

(* A commit that leaves the companies there, and to the others the rows     *)
(* they hold.                                                               *)
LEMMA PasoConfirma ==
  ASSUME IInv, NEW r \in Peticiones, Envejece(r),
         \A e \in Empresas : Existe(e) => empresa'[e].creada,
         \A k \in Planes : plan[k] # "NADA" => plan'[k] # "NADA",
         \A q \in Peticiones \ {r} :
           /\ peticion[q].tipo = "APROVISIONAR" =>
                ~ empresa'[peticion[q].e].creada
           /\ peticion[q].tipo \in Escriben /\ peticion[q].toca =>
                ~ empresa'[peticion[q].e].eliminada,
         bitacora' = bitacora \/ peticion[r].fase = "TURNO"
  PROVE  /\ peticion' \in [Peticiones -> Peticion]
         /\ \A q \in Peticiones : Buena(peticion[q])'
         /\ \A q, s \in Peticiones :
              q # s => ~ Choca(peticion[q], peticion[s])'
<1> USE DEF IInv
<1>1. /\ peticion' \in [Peticiones -> Peticion]
      /\ peticion'[r] = Libre
      /\ \A q \in Peticiones : q # r => Envejecida(peticion'[q], peticion[q])
  BY AlEnvejecer
<1>2. Buena(peticion[r])'
  BY <1>1, LibreEs DEF Buena, DeEmpresa, DePlan
<1>3. ASSUME NEW q \in Peticiones, q # r
      PROVE  Buena(peticion[q])'
  <2>1. PICK n \in Peticion : n = peticion[q]
    BY DEF TypeOK
  <2>2. PICK m \in Peticion : m = peticion'[q]
    BY <1>1
  <2>3. Envejecida(m, n) /\ Buena(n)
    BY <1>1, <1>3, <2>1, <2>2
  <2>4. m.tipo = "LIBRE" => m = Libre
    BY <2>3 DEF Envejecida, Buena
  <2>5. m.tipo \in DeEmpresa =>
          /\ m.e \in Empresas /\ empresa'[m.e].creada
          /\ m.toca /\ m.tipo \in Escriben => ~ empresa'[m.e].eliminada
    BY <1>3, <2>1, <2>3 DEF Envejecida, Buena
  <2>6. m.tipo = "APROVISIONAR" =>
          /\ m.e \in Empresas /\ ~ empresa'[m.e].creada /\ ~ m.toca
          /\ m.fase # "LEIDA" =>
               /\ m.plan \in Planes /\ plan'[m.plan] # "NADA"
               /\ ~ m.pasada => m.pone = incluye'[m.plan]
    <3> SUFFICES ASSUME m.tipo = "APROVISIONAR"
                 PROVE  /\ m.e \in Empresas /\ ~ empresa'[m.e].creada
                        /\ ~ m.toca
                        /\ m.fase # "LEIDA" =>
                             /\ m.plan \in Planes /\ plan'[m.plan] # "NADA"
                             /\ ~ m.pasada => m.pone = incluye'[m.plan]
      OBVIOUS
    <3>1. n.tipo = "APROVISIONAR" /\ m.e = n.e /\ m.plan = n.plan
          /\ m.fase = n.fase /\ m.pone = n.pone /\ m.toca = n.toca
      BY <2>3 DEF Envejecida
    <3>2. n.e \in Empresas /\ ~ n.toca
      BY <2>3, <3>1 DEF Buena
    <3>3. ~ empresa'[n.e].creada
      BY <1>3, <2>1, <3>1
    <3>4. ~ m.pasada => ~ n.pasada /\ incluye' = incluye
      BY <2>3 DEF Envejecida, Sincronizan
    <3>5. m.fase # "LEIDA" =>
            /\ n.plan \in Planes /\ plan'[n.plan] # "NADA"
            /\ ~ n.pasada => n.pone = incluye[n.plan]
      BY <2>3, <3>1 DEF Buena
    <3> QED
      BY <3>1, <3>2, <3>3, <3>4, <3>5
  <2>7. m.tipo = "ASIGNAR" =>
          /\ m.e \in Empresas /\ empresa'[m.e].creada
          /\ m.plan \in Planes /\ plan'[m.plan] # "NADA"
          /\ ~ m.pasada => (m.cambia <=> m.plan # suscrita'[m.e])
          /\ m.fase = "LISTA" /\ ~ m.pasada =>
               /\ m.pone = incluye'[m.plan] \ modulos'[m.e]
               /\ m.quita = modulos'[m.e] \ incluye'[m.plan]
    BY <2>3 DEF Envejecida, Buena, Sincronizan
  <2>8. m.tipo = "MODULOS" =>
          m.e \in Empresas /\ empresa'[m.e].creada /\ ~ m.cambia
    BY <2>3 DEF Envejecida, Buena
  <2>9. m.tipo \in DePlan =>
          /\ m.plan \in Planes
          /\ m.tipo = "CREAR_PLAN" => m.estado # "NADA"
    BY <2>3 DEF Envejecida, Buena
  <2>10. m.fase = "TURNO" => m.anterior = Ultima(Fechas(Registros))'
    <3>1. m.fase = "TURNO" => bitacora' = bitacora
      BY <1>3, <2>1, <2>3 DEF Envejecida, Choca
    <3> QED
      BY <2>3, <3>1 DEF Envejecida, Buena, Registros
  <2> QED
    BY <2>2, <2>4, <2>5, <2>6, <2>7, <2>8, <2>9, <2>10 DEF Buena, Existe
<1>4. ASSUME NEW q \in Peticiones, NEW s \in Peticiones, q # s
      PROVE  ~ Choca(peticion[q], peticion[s])'
  <2>1. CASE q = r \/ s = r
    <3>1. \A x \in Peticiones : x # r /\ peticion'[x].tipo = "APROVISIONAR" =>
            peticion'[x].e # "NADA"
      BY <1>1, NadaNoEsNadie DEF Envejecida, Buena
    <3> QED
      BY <1>1, <1>4, <2>1, <3>1, LibreEs DEF Choca
  <2>2. CASE q # r /\ s # r
    <3>1. Envejecida(peticion'[q], peticion[q])
          /\ Envejecida(peticion'[s], peticion[s])
          /\ ~ Choca(peticion[q], peticion[s])
      BY <1>1, <1>4, <2>2
    <3> QED
      BY <3>1 DEF Choca, Envejecida
  <2> QED
    BY <2>1, <2>2
<1> QED
  BY <1>1, <1>2, <1>3, <1>4

(* The record goes to the end, chained to the last one.                     *)
LEMMA AlAnotar ==
  ASSUME IInv, NEW p \in Peticion, p.fase = "TURNO", Buena(p), Anota(p)
  PROVE  bitacora' \in Seq(Registro) /\ Encadenada'
<1> USE DEF IInv
<1>1. bitacora \in Seq(Registro) /\ DOMAIN bitacora = 1..Len(bitacora)
      /\ Len(bitacora) \in Nat
  BY DEF TypeOK
<1>2. CASE p.fecha = 0
  <2>1. bitacora' = bitacora
    BY <1>2 DEF Anota
  <2> QED
    BY <1>1, <2>1 DEF Encadenada, Anteriores
<1>3. CASE p.fecha # 0
  <2>1. PICK f : f = [fecha |-> p.fecha, anterior |-> p.anterior]
    OBVIOUS
  <2>2. f \in Registro /\ f.fecha = p.fecha
        /\ f.anterior = Ultima(Fechas(Registros))
    BY <1>3, <2>1, MaxEventosNatural DEF Peticion, Registro, Buena
  <2>3. bitacora' = Append(bitacora, f)
    BY <1>3, <2>1 DEF Anota
  <2>4. PICK n \in Nat : n = Len(bitacora)
    BY <1>1
  <2>5. /\ bitacora' \in Seq(Registro) /\ DOMAIN bitacora' = 1..n + 1
        /\ bitacora'[n + 1] = f
        /\ \A i \in 1..n : bitacora'[i] = bitacora[i]
    BY <1>1, <2>2, <2>3, <2>4
  <2>6. ASSUME NEW i \in 1..n
        PROVE  bitacora'[i].anterior = Ultima(Anteriores(i)')
    <3>1. Anteriores(i)' = Anteriores(i)
      BY <2>4, <2>5 DEF Anteriores
    <3>2. bitacora[i].anterior = Ultima(Anteriores(i))
      BY <1>1, <2>4 DEF Encadenada
    <3> QED
      BY <2>5, <3>1, <3>2
  <2>7. bitacora'[n + 1].anterior = Ultima(Anteriores(n + 1)')
    <3>1. Anteriores(n + 1)' = {bitacora'[j].fecha : j \in 1..n}
      BY <2>4 DEF Anteriores
    <3>2. {bitacora'[j].fecha : j \in 1..n} = {bitacora[j].fecha : j \in 1..n}
      BY <2>5
    <3>3. Fechas(Registros) = {bitacora[j].fecha : j \in 1..n}
      BY <1>1, <2>4 DEF Fechas, Registros
    <3> QED
      BY <2>2, <2>5, <3>1, <3>2, <3>3
  <2>8. \A i \in 1..n + 1 : i \in 1..n \/ i = n + 1
    OBVIOUS
  <2>9. \A i \in 1..n + 1 :
          bitacora'[i].anterior = Ultima(Anteriores(i)')
    BY <2>6, <2>7, <2>8
  <2> QED
    BY <2>5, <2>9 DEF Encadenada
<1> QED
  BY <1>2, <1>3

(* What a request makes of its company.                                     *)
LEMMA FilaTrasCambio ==
  ASSUME TypeOK, EliminadaInactiva, NEW p \in Peticion, Buena(p),
         p.tipo \in DeEmpresa \cup {"APROVISIONAR"},
         p.toca \/ p.tipo = "APROVISIONAR"
  PROVE  LET puesta == TrasCambio(p) IN
         /\ puesta \in FilaEmpresa /\ puesta.creada
         /\ puesta.eliminada => ~ puesta.activo
<1>1. p.e \in Empresas /\ empresa[p.e] \in FilaEmpresa
  BY DEF Buena, TypeOK
<1>2. empresa[p.e].eliminada => ~ empresa[p.e].activo
  BY <1>1 DEF EliminadaInactiva
<1>3. CASE p.tipo = "APROVISIONAR"
  BY <1>3 DEF TrasCambio, FilaEmpresa
<1>4. CASE p.tipo = "EDITAR"
  BY <1>1, <1>2, <1>4 DEF TrasCambio, Buena, Existe, DeEmpresa
<1>5. CASE p.tipo = "ACTIVAR"
  <2>1. empresa[p.e].creada /\ ~ empresa[p.e].eliminada
    BY <1>5 DEF Buena, Existe, DeEmpresa, Escriben
  <2>2. PICK f : f = [empresa[p.e] EXCEPT !.activo = TRUE]
    OBVIOUS
  <2>3. f \in FilaEmpresa /\ f.creada /\ ~ f.eliminada
    BY <1>1, <2>1, <2>2 DEF FilaEmpresa
  <2>4. TrasCambio(p) = f
    BY <1>5, <2>2 DEF TrasCambio
  <2> QED
    BY <2>3, <2>4
<1>6. CASE p.tipo = "SUSPENDER"
  <2>1. PICK f : f = [empresa[p.e] EXCEPT !.activo = FALSE]
    OBVIOUS
  <2>2. f \in FilaEmpresa /\ f.creada /\ ~ f.activo
    BY <1>1, <1>6, <2>1 DEF FilaEmpresa, Buena, Existe, DeEmpresa
  <2>3. TrasCambio(p) = f
    BY <1>6, <2>1 DEF TrasCambio
  <2> QED
    BY <2>2, <2>3
<1>7. CASE p.tipo \in {"ELIMINAR", "RESTAURAR"}
  <2>1. PICK b \in BOOLEAN : b = (p.tipo = "ELIMINAR")
    OBVIOUS
  <2>2. PICK f1 : f1 = [empresa[p.e] EXCEPT !.activo = FALSE]
    OBVIOUS
  <2>3. f1 \in FilaEmpresa /\ f1.creada /\ ~ f1.activo
    BY <1>1, <1>7, <2>2 DEF FilaEmpresa, Buena, Existe, DeEmpresa
  <2>4. PICK f : f = [f1 EXCEPT !.eliminada = b]
    OBVIOUS
  <2>5. f \in FilaEmpresa /\ f.creada /\ ~ f.activo
    BY <2>3, <2>4 DEF FilaEmpresa
  <2>6. TrasCambio(p) = f
    BY <1>7, <2>1, <2>2, <2>4 DEF TrasCambio
  <2> QED
    BY <2>5, <2>6
<1> QED
  BY <1>3, <1>4, <1>5, <1>6, <1>7 DEF DeEmpresa

LEMMA PasoConfirmaEmpresa ==
  ASSUME IInv, NEW r \in Peticiones, ConfirmaEmpresa(r)
  PROVE  IInv'
<1> USE DEF IInv
<1>1. PICK p \in Peticion : p = peticion[r]
  BY DEF TypeOK
<1>2. /\ p.tipo \in DeEmpresa \cup {"APROVISIONAR"} /\ p.fase = "TURNO"
      /\ Buena(p) /\ Anota(p) /\ Envejece(r)
      /\ plan' = plan /\ incluye' = incluye /\ reloj' = reloj
  BY <1>1 DEF ConfirmaEmpresa, En
<1>3. PICK e \in Empresas : e = p.e
  BY <1>2 DEF Buena
<1> DEFINE alta == p.tipo = "APROVISIONAR"
<1>4. alta => /\ ~ Existe(e) /\ p.plan \in Planes /\ plan[p.plan] # "NADA"
              /\ p.plan # "NADA"
  BY <1>2, <1>3, NadaNoEsNadie DEF Buena
<1>5. ~ alta => Existe(e)
  BY <1>2, <1>3 DEF Buena
(* The row of the company. *)
<1>6. PICK puesta :
        puesta = IF p.toca \/ alta THEN TrasCambio(p) ELSE empresa[e]
  OBVIOUS
<1>7. puesta \in FilaEmpresa /\ puesta.creada
      /\ (puesta.eliminada => ~ puesta.activo)
  <2>1. CASE p.toca \/ alta
    BY <1>2, <1>6, <2>1, FilaTrasCambio
  <2>2. CASE ~ (p.toca \/ alta)
    BY <1>5, <1>6, <2>2 DEF TypeOK, EliminadaInactiva, Existe
  <2> QED
    BY <2>1, <2>2
<1>8. empresa' = [empresa EXCEPT ![e] = puesta]
  BY <1>1, <1>3, <1>6 DEF ConfirmaEmpresa
<1>9. /\ empresa' \in [Empresas -> FilaEmpresa] /\ empresa'[e] = puesta
      /\ \A d \in Empresas : d # e => empresa'[d] = empresa[d]
  BY <1>7, <1>8 DEF TypeOK
<1>10. EliminadaInactiva'
  BY <1>7, <1>9 DEF EliminadaInactiva
(* Its plan and its modules. *)
<1>11. PICK k : k = IF alta THEN p.plan ELSE suscrita[e]
  OBVIOUS
<1>12. /\ suscrita' = [suscrita EXCEPT ![e] = k]
       /\ k \in Planes \cup {"NADA"} /\ k # "NADA" /\ plan[k] # "NADA"
  BY <1>1, <1>3, <1>4, <1>5, <1>11 DEF ConfirmaEmpresa, TypeOK
<1>13. /\ suscrita' \in [Empresas -> Planes \cup {"NADA"}]
       /\ suscrita'[e] = k
       /\ \A d \in Empresas : d # e => suscrita'[d] = suscrita[d]
  BY <1>12 DEF TypeOK
<1>14. modulos' \in EmpresaModulo
  <2>1. PICK M : M = IF alta THEN p.pone ELSE modulos[e]
    OBVIOUS
  <2>2. M \in SUBSET Modulos
    BY <2>1 DEF TypeOK, EmpresaModulo, Peticion
  <2>3. modulos' = [modulos EXCEPT ![e] = M]
    BY <1>1, <1>3, <2>1 DEF ConfirmaEmpresa
  <2> QED
    BY <2>2, <2>3 DEF TypeOK, EmpresaModulo
<1>15. \A d \in Empresas :
         /\ empresa'[d].creada <=> suscrita'[d] # "NADA"
         /\ empresa'[d].creada => plan'[suscrita'[d]] # "NADA"
  <2>1. /\ empresa'[e].creada <=> suscrita'[e] # "NADA"
        /\ empresa'[e].creada => plan'[suscrita'[e]] # "NADA"
    BY <1>2, <1>7, <1>9, <1>12, <1>13
  <2>2. \A d \in Empresas : d # e =>
          /\ empresa'[d].creada <=> suscrita'[d] # "NADA"
          /\ empresa'[d].creada => plan'[suscrita'[d]] # "NADA"
    BY <1>2, <1>9, <1>13 DEF TypeOK, Existe
  <2> QED
    BY <2>1, <2>2
<1>16. bitacora' \in Seq(Registro) /\ Encadenada'
  BY <1>2, AlAnotar
(* What the others hold. *)
<1>17. \A q \in Peticiones \ {r} :
         /\ peticion[q].tipo = "APROVISIONAR" =>
              ~ empresa'[peticion[q].e].creada
         /\ peticion[q].tipo \in Escriben /\ peticion[q].toca =>
              ~ empresa'[peticion[q].e].eliminada
  <2> SUFFICES ASSUME NEW q \in Peticiones \ {r}
               PROVE  /\ peticion[q].tipo = "APROVISIONAR" =>
                           ~ empresa'[peticion[q].e].creada
                      /\ peticion[q].tipo \in Escriben /\ peticion[q].toca =>
                           ~ empresa'[peticion[q].e].eliminada
    OBVIOUS
  <2>1. PICK n \in Peticion : n = peticion[q]
    BY DEF TypeOK
  <2>2. Buena(n) /\ ~ Choca(p, n)
    BY <1>1, <2>1
  <2>3. n.tipo = "APROVISIONAR" => ~ empresa'[n.e].creada
    BY <1>3, <1>9, <2>2 DEF Buena, Choca, Existe
  <2>4. n.tipo \in Escriben /\ n.toca => ~ empresa'[n.e].eliminada
    <3>1. n.tipo \in Escriben /\ n.toca =>
            /\ n.tipo \in DeEmpresa /\ n.e \in Empresas
            /\ ~ empresa[n.e].eliminada
      BY <2>2 DEF Buena, Escriben, DeEmpresa
    <3>2. n.tipo \in Escriben /\ n.toca /\ n.e = e => ~ p.toca /\ ~ alta
      BY <1>2, <1>3, <2>2, <3>1 DEF Choca
    <3> HIDE DEF alta
    <3> QED
      BY <1>6, <1>9, <3>1, <3>2
  <2> QED
    BY <2>1, <2>3, <2>4
<1>18. \A d \in Empresas : Existe(d) => empresa'[d].creada
  BY <1>7, <1>9 DEF Existe
<1>19. /\ peticion' \in [Peticiones -> Peticion]
       /\ \A q \in Peticiones : Buena(peticion[q])'
       /\ \A q, s \in Peticiones :
            q # s => ~ Choca(peticion[q], peticion[s])'
  BY <1>1, <1>2, <1>17, <1>18, PasoConfirma
<1>20. TypeOK'
  BY <1>2, <1>9, <1>13, <1>14, <1>15, <1>16, <1>19 DEF TypeOK, Existe
<1> QED
  BY <1>10, <1>16, <1>19, <1>20

(* The commits that leave the companies as they are.                        *)
LEMMA LosDemas ==
  ASSUME IInv, NEW r \in Peticiones
  PROVE  \A q \in Peticiones \ {r} :
           /\ peticion[q].tipo = "APROVISIONAR" =>
                ~ empresa[peticion[q].e].creada
           /\ peticion[q].tipo \in Escriben /\ peticion[q].toca =>
                ~ empresa[peticion[q].e].eliminada
BY DEF IInv, Buena, Existe, Escriben, DeEmpresa

LEMMA PasoConfirmaPlan ==
  ASSUME IInv, NEW r \in Peticiones, ConfirmaPlan(r)
  PROVE  IInv'
<1> USE DEF IInv
<1>1. PICK p \in Peticion : p = peticion[r]
  BY DEF TypeOK
<1>2. /\ p.tipo \in DePlan /\ p.fase = "TURNO"
      /\ Buena(p) /\ Anota(p) /\ Envejece(r)
      /\ empresa' = empresa /\ suscrita' = suscrita /\ modulos' = modulos
      /\ reloj' = reloj
  BY <1>1 DEF ConfirmaPlan, En
<1>3. p.plan \in Planes
  BY <1>2 DEF Buena
<1>4. /\ plan' \in [Planes -> EstadosPlan]
      /\ \A k \in Planes : plan[k] # "NADA" => plan'[k] # "NADA"
  <2>1. PICK v : v = IF p.estado = "NADA" THEN plan[p.plan] ELSE p.estado
    OBVIOUS
  <2>2. v \in EstadosPlan /\ (plan[p.plan] # "NADA" => v # "NADA")
    BY <1>3, <2>1 DEF TypeOK, Peticion
  <2>3. plan' = [plan EXCEPT ![p.plan] = v]
    BY <1>1, <2>1 DEF ConfirmaPlan
  <2> QED
    BY <1>3, <2>2, <2>3 DEF TypeOK
<1>5. incluye' \in [Planes -> SUBSET Modulos]
  <2>1. PICK M : M = Reemplaza(p)
    OBVIOUS
  <2>2. M \in SUBSET Modulos
    BY <1>3, <2>1 DEF TypeOK, Peticion, Reemplaza
  <2>3. incluye' = [incluye EXCEPT ![p.plan] = M]
    BY <1>1, <2>1 DEF ConfirmaPlan
  <2> QED
    BY <1>3, <2>2, <2>3 DEF TypeOK
<1>6. bitacora' \in Seq(Registro) /\ Encadenada'
  BY <1>2, AlAnotar
<1>7. /\ peticion' \in [Peticiones -> Peticion]
      /\ \A q \in Peticiones : Buena(peticion[q])'
      /\ \A q, s \in Peticiones :
           q # s => ~ Choca(peticion[q], peticion[s])'
  BY <1>1, <1>2, <1>4, LosDemas, PasoConfirma DEF Existe
<1>8. \A d \in Empresas :
         /\ empresa'[d].creada <=> suscrita'[d] # "NADA"
         /\ empresa'[d].creada => plan'[suscrita'[d]] # "NADA"
  <2>1. \A d \in Empresas : Existe(d) =>
          suscrita[d] \in Planes /\ plan[suscrita[d]] # "NADA"
    BY DEF TypeOK
  <2> QED
    BY <1>2, <1>4, <2>1 DEF TypeOK, Existe
<1>9. TypeOK'
  BY <1>2, <1>4, <1>5, <1>6, <1>7, <1>8 DEF TypeOK, Existe
<1>10. EliminadaInactiva'
  BY <1>2 DEF EliminadaInactiva
<1> QED
  BY <1>6, <1>7, <1>9, <1>10

LEMMA PasoConfirmaModulos ==
  ASSUME IInv, NEW r \in Peticiones, ConfirmaModulos(r)
  PROVE  IInv'
<1> USE DEF IInv
<1>1. PICK p \in Peticion : p = peticion[r]
  BY DEF TypeOK
<1>2. /\ p.tipo \in {"ASIGNAR", "MODULOS"}
      /\ Buena(p) /\ Envejece(r)
      /\ empresa' = empresa /\ plan' = plan /\ incluye' = incluye
      /\ bitacora' = bitacora /\ reloj' = reloj
  BY <1>1 DEF ConfirmaModulos, En
<1>3. /\ p.e \in Empresas /\ Existe(p.e)
      /\ p.cambia => p.plan \in Planes /\ plan[p.plan] # "NADA"
                     /\ p.plan # "NADA"
  BY <1>2, NadaNoEsNadie DEF Buena
<1>4. PICK k : k = IF p.cambia THEN p.plan ELSE suscrita[p.e]
  OBVIOUS
<1>5. k \in Planes \cup {"NADA"} /\ k # "NADA" /\ plan[k] # "NADA"
  BY <1>3, <1>4 DEF TypeOK
<1>6. suscrita' = [suscrita EXCEPT ![p.e] = k]
  BY <1>1, <1>4 DEF ConfirmaModulos
<1>7. /\ suscrita' \in [Empresas -> Planes \cup {"NADA"}]
      /\ suscrita'[p.e] = k
      /\ \A d \in Empresas : d # p.e => suscrita'[d] = suscrita[d]
  BY <1>3, <1>5, <1>6 DEF TypeOK
<1>8. modulos' \in EmpresaModulo
  <2>1. PICK M : M = Sincroniza(p)
    OBVIOUS
  <2>2. M \in SUBSET Modulos
    BY <1>3, <2>1 DEF TypeOK, EmpresaModulo, Peticion, Sincroniza
  <2>3. modulos' = [modulos EXCEPT ![p.e] = M]
    BY <1>1, <2>1 DEF ConfirmaModulos
  <2> QED
    BY <1>3, <2>2, <2>3 DEF TypeOK, EmpresaModulo
<1>9. \A d \in Empresas :
         /\ empresa'[d].creada <=> suscrita'[d] # "NADA"
         /\ empresa'[d].creada => plan'[suscrita'[d]] # "NADA"
  <2>1. /\ empresa'[p.e].creada /\ suscrita'[p.e] # "NADA"
        /\ plan'[suscrita'[p.e]] # "NADA"
    BY <1>2, <1>3, <1>5, <1>7 DEF Existe
  <2>2. \A d \in Empresas : d # p.e =>
          /\ empresa'[d].creada <=> suscrita'[d] # "NADA"
          /\ empresa'[d].creada => plan'[suscrita'[d]] # "NADA"
    BY <1>2, <1>7 DEF TypeOK, Existe
  <2> QED
    BY <2>1, <2>2
<1>10. /\ peticion' \in [Peticiones -> Peticion]
       /\ \A q \in Peticiones : Buena(peticion[q])'
       /\ \A q, s \in Peticiones :
            q # s => ~ Choca(peticion[q], peticion[s])'
  BY <1>2, LosDemas, PasoConfirma DEF Existe
<1>11. TypeOK'
  BY <1>2, <1>7, <1>8, <1>9, <1>10 DEF TypeOK, Existe
<1>12. EliminadaInactiva' /\ Encadenada'
  BY <1>2 DEF EliminadaInactiva, Encadenada, Anteriores
<1> QED
  BY <1>10, <1>11, <1>12

----------------------------------------------------------------------------
LEMMA PasoSinCambios == IInv /\ UNCHANGED vars => IInv'
<1> SUFFICES ASSUME IInv, UNCHANGED vars PROVE IInv'
  OBVIOUS
<1>1. /\ empresa' = empresa /\ suscrita' = suscrita /\ plan' = plan
      /\ incluye' = incluye /\ modulos' = modulos /\ bitacora' = bitacora
      /\ reloj' = reloj /\ peticion' = peticion
  BY DEF vars
<1>2. TypeOK' /\ EliminadaInactiva' /\ Encadenada'
  BY <1>1 DEF IInv, TypeOK, Existe, EliminadaInactiva, Encadenada, Anteriores
<1>3. \A q \in Peticiones : Buena(peticion[q])'
  BY <1>1 DEF IInv, Buena, Existe, Registros
<1>4. \A q, s \in Peticiones : q # s => ~ Choca(peticion[q], peticion[s])'
  BY <1>1 DEF IInv, Choca
<1> QED
  BY <1>2, <1>3, <1>4 DEF IInv

LEMMA PasoEmpresas ==
  ASSUME IInv, NEW r \in Peticiones,
         \/ provision_empresa(r) \/ update_empresa(r)
         \/ _set_empresa_status(r) \/ delete_empresa(r)
         \/ restore_empresa(r) \/ OrdenaEmpresa(r)
  PROVE  IInv'
BY PasoLeeAprovisionar, PasoOrdenaAprovisionar, PasoLeeEmpresa,
   PasoOrdenaEmpresa
   DEF provision_empresa, update_empresa, _set_empresa_status,
       delete_empresa, restore_empresa, DeEmpresa

LEMMA PasoPlanes ==
  ASSUME IInv, NEW r \in Peticiones,
         \/ create_plan(r) \/ update_plan(r) \/ OrdenaPlan(r)
         \/ assign_subscription(r) \/ actualizar_modulos_de_empresa(r)
  PROVE  IInv'
BY PasoLeeCrear, PasoLeeEditar, PasoBorra, PasoOrdenaPlan, PasoLeeAsignar,
   PasoOrdenaAsignar, PasoLeeModulos
   DEF create_plan, update_plan, assign_subscription,
       actualizar_modulos_de_empresa

LEMMA Paso == IInv /\ [Next]_vars => IInv'
BY PasoEmpresas, PasoPlanes, PasoTurno, PasoConfirmaEmpresa,
   PasoConfirmaPlan, PasoConfirmaModulos, PasoRevierte, PasoSinCambios
   DEF Next

(* The argument: a request either holds what its commit relies on, or is    *)
(* marked when it changes, and the audit records enter one at a time.       *)
THEOREM Invariante == Spec => []IInv
BY AlEmpezar, Paso, PTL DEF Spec

----------------------------------------------------------------------------
(* Every row and every request has its type, and a company its plan.        *)
THEOREM Tipos == Spec => []TypeOK
<1>1. IInv => TypeOK
  BY DEF IInv
<1> QED
  BY <1>1, Invariante, PTL

(* A deleted company is never active, however many requests cross.          *)
THEOREM SiempreInactiva == Spec => []EliminadaInactiva
<1>1. IInv => EliminadaInactiva
  BY DEF IInv
<1> QED
  BY <1>1, Invariante, PTL

(* Records that entered in the order of their dates verify: the one before  *)
(* each by date is the one it was chained to.                               *)
THEOREM CadenaSiempreIntacta == Spec => []CadenaIntacta
<1>1. IInv => CadenaIntacta
  <2> SUFFICES ASSUME IInv, EnOrden, NEW i \in DOMAIN bitacora
               PROVE  bitacora[i].anterior =
                        Ultima({d \in Fechas(Registros) :
                                  d < bitacora[i].fecha})
    BY DEF CadenaIntacta, Verifica, Registros
  <2> DEFINE D == {d \in Fechas(Registros) : d < bitacora[i].fecha}
  <2>1. /\ DOMAIN bitacora = 1..Len(bitacora) /\ Len(bitacora) \in Nat
        /\ \A j \in DOMAIN bitacora : bitacora[j].fecha \in Nat
    <3>1. bitacora \in Seq(Registro)
      BY DEF IInv, TypeOK
    <3>2. \A f \in Registro : f.fecha \in Nat
      BY MaxEventosNatural DEF Registro
    <3> QED
      BY <3>1, <3>2
  <2>2. \A j \in DOMAIN bitacora :
          bitacora[j].fecha < bitacora[i].fecha <=> j < i
    BY <2>1 DEF EnOrden
  <2>3. D = {bitacora[j].fecha : j \in {k \in DOMAIN bitacora : k < i}}
    BY <2>2 DEF Fechas, Registros
  <2>4. {k \in DOMAIN bitacora : k < i} = 1..i - 1
    BY <2>1
  <2>5. D = Anteriores(i)
    BY <2>3, <2>4 DEF Anteriores
  <2>6. bitacora[i].anterior = Ultima(Anteriores(i))
    BY DEF IInv, Encadenada
  <2> QED
    BY <2>5, <2>6
<1> QED
  BY <1>1, Invariante, PTL

(* A request that assigns the modules of a plan leaves the company with     *)
(* those the plan has, unless something was changed under it.               *)
THEOREM ModulosSiempreDelPlan == Spec => ModulosDelPlan
<1>1. ASSUME IInv, NEW r \in Peticiones, peticion[r].tipo \in Sincronizan,
             ~ peticion[r].pasada, ConfirmaEmpresa(r) \/ ConfirmaModulos(r)
      PROVE  modulos'[peticion[r].e] = incluye[suscrita'[peticion[r].e]]
  <2>1. PICK p \in Peticion : p = peticion[r]
    BY <1>1 DEF IInv, TypeOK
  <2>2. Buena(p) /\ p.tipo \in Sincronizan /\ ~ p.pasada
    BY <1>1, <2>1 DEF IInv
  <2>3. p.e \in Empresas /\ p.plan \in Planes \cup {"NADA"}
        /\ incluye \in [Planes -> SUBSET Modulos]
        /\ suscrita \in [Empresas -> Planes \cup {"NADA"}]
        /\ modulos \in [Empresas -> SUBSET Modulos]
    BY <1>1, <2>2 DEF Buena, Sincronizan, IInv, TypeOK, EmpresaModulo, Peticion
  <2>4. CASE ConfirmaEmpresa(r)
    <3>1. p.tipo = "APROVISIONAR" /\ p.fase = "TURNO"
      BY <2>1, <2>2, <2>4 DEF ConfirmaEmpresa, En, Sincronizan, DeEmpresa
    <3>2. p.pone = incluye[p.plan]
      BY <2>2, <3>1 DEF Buena
    <3>3. suscrita' = [suscrita EXCEPT ![p.e] = p.plan]
          /\ modulos' = [modulos EXCEPT ![p.e] = p.pone]
      BY <2>1, <2>4, <3>1 DEF ConfirmaEmpresa
    <3> QED
      BY <2>1, <2>3, <3>2, <3>3
  <2>5. CASE ConfirmaModulos(r)
    <3>1. p.tipo = "ASIGNAR" /\ p.fase = "LISTA"
      BY <2>1, <2>2, <2>5 DEF ConfirmaModulos, En, Sincronizan
    <3>2. /\ p.plan \in Planes
          /\ p.cambia <=> p.plan # suscrita[p.e]
          /\ p.pone = incluye[p.plan] \ modulos[p.e]
          /\ p.quita = modulos[p.e] \ incluye[p.plan]
      BY <2>2, <3>1 DEF Buena
    <3>3. (modulos[p.e] \ p.quita) \cup p.pone = incluye[p.plan]
      BY <2>3, <3>2
    <3>4. modulos' = [modulos EXCEPT ![p.e] = incluye[p.plan]]
      BY <2>1, <2>5, <3>3 DEF ConfirmaModulos, Sincroniza
    <3>5. PICK k : k = IF p.cambia THEN p.plan ELSE suscrita[p.e]
      OBVIOUS
    <3>6. suscrita' = [suscrita EXCEPT ![p.e] = k]
      BY <2>1, <2>5, <3>5 DEF ConfirmaModulos
    <3>7. k = p.plan
      BY <3>2, <3>5
    <3> QED
      BY <2>1, <2>3, <3>4, <3>6, <3>7
  <2> QED
    BY <1>1, <2>4, <2>5
<1>2. IInv /\ [Next]_vars =>
        [\A r \in Peticiones :
           LET p == peticion[r] IN
           /\ p.tipo \in Sincronizan /\ ~ p.pasada
           /\ ConfirmaEmpresa(r) \/ ConfirmaModulos(r)
           => modulos'[p.e] = incluye[suscrita'[p.e]]]_vars
  BY <1>1
<1> QED
  BY <1>2, Invariante, PTL DEF Spec, ModulosDelPlan

----------------------------------------------------------------------------
(***************************************************************************)
(* Suscripcion.                                                            *)
(***************************************************************************)

(***************************************************************************)
(* What a request in flight holds: the values it would write, its event    *)
(* and where it has got to.                                                *)
(***************************************************************************)
PidenSuscripcion ==
  [estado : Estados \cup {"IGUAL"}, cliente : creados \cup {"IGUAL"},
   fin : Fines \cup {"IGUAL"}]
ConEvento == {"LEIDO", "ORDENADO", "AJENO"}
ConCorreo == {"CORREO", "ENVIADO", "SIN_CORREO"}
Gestion ==
  [tipo : {"LIBRE", "AVISO", "ASIGNAR", "PAGAR", "RECONCILIAR"},
   fase : ConEvento \cup ConCorreo, e : Eventos \cup {"NADA"},
   pide : PidenSuscripcion, toca : BOOLEAN, pasada : BOOLEAN]
TiposFirmes ==
  /\ TypeOKSuscripcion
  /\ gestion \in [Gestiones -> Gestion]
  /\ \A e \in Eventos :
       evento[e].tipo # "NADA" => evento[e].cliente \in creados

(* Which request has the row of its event.                                  *)
TieneEvento(r) == gestion[r].tipo = "AVISO" /\ gestion[r].fase \in ConEvento
UnEnvio ==
  \A r, q \in Gestiones :
    TieneEvento(r) /\ TieneEvento(q) /\ gestion[r].e = gestion[q].e => r = q

(* A delivery whose event is still to be applied has not applied it, and    *)
(* one that has a receipt to send has committed its payment.                *)
AvisoFiel(r) ==
  LET p == gestion[r]
  IN
  /\ p.tipo = "AVISO" =>
       /\ p.e \in Eventos /\ evento[p.e].tipo # "NADA"
       /\ TieneEvento(r) /\ evento[p.e].tipo # "PAGADA" =>
            evento[p.e].veces = 0
  /\ p.fase \in ConCorreo =>
       p.tipo = "AVISO" /\ evento[p.e].tipo = "PAGADA" /\ evento[p.e].veces > 0
  /\ p.fase = "ENVIADO" => p.e \in recibos

(* What reconciliation read still holds unless another commit overtook it.  *)
CorteVigente ==
  \A r \in Gestiones :
    gestion[r].tipo = "RECONCILIAR" /\ ~ gestion[r].pasada =>
      fila.fin = "PASADO" \/ (fila.estado = "PAGO_FALLIDO" /\ gracia)

AvisosFieles == \A r \in Gestiones : AvisoFiel(r)
IInvSuscripcion ==
  /\ TiposFirmes /\ UnEnvio /\ UnaVez /\ ComprobanteFiel
  /\ AvisosFieles /\ CorteVigente
FilaTipada ==
  fila \in [estado : Estados, cliente : creados \cup {"NADIE"}, fin : Fines]
RegistrosEvento == {"NO", "PROCESANDO", "PROCESADO", "FALLIDO"}
EventoTipado ==
  [tipo : TiposEvento \cup {"NADA"}, estado : Estados,
   cliente : Clientes \cup {"NADIE"}, veces : 0..2, registro : RegistrosEvento]

----------------------------------------------------------------------------
(***************************************************************************)
(* What the requests hold.                                                 *)
(***************************************************************************)
LEMMA OciosaEsGestion == Ociosa \in Gestion /\ Igual \in PidenSuscripcion
BY DEF Ociosa, Igual, Gestion, PidenSuscripcion, Columnas, ConEvento

LEMMA PideTipado ==
  ASSUME FilaTipada,
         NEW q \in [estado : Estados, cliente : creados \cup {"NADIE"},
                    fin : Fines],
         q.cliente = fila.cliente \/ q.cliente \in creados
  PROVE  Cambios(q) \in PidenSuscripcion
BY DEF FilaTipada, PidenSuscripcion, Cambios, Columnas

LEMMA FilaAplicada ==
  ASSUME FilaTipada, NEW pide \in PidenSuscripcion
  PROVE  Aplicados(pide) \in
           [estado : Estados, cliente : creados \cup {"NADIE"}, fin : Fines]
BY DEF FilaTipada, PidenSuscripcion, Aplicados, Columnas

LEMMA DerivadoEsEstado == ASSUME FilaTipada PROVE Derivado \in Estados
BY DEF FilaTipada, Derivado, Estados

LEMMA TrasEventoTipado ==
  ASSUME TiposFirmes, NEW e \in Eventos, evento[e].tipo # "NADA"
  PROVE  Cambios(TrasEvento(e)) \in PidenSuscripcion
<1>1. FilaTipada /\ evento[e] \in EventoTipado /\ evento[e].cliente \in creados
      BY DEF TiposFirmes, TypeOKSuscripcion, FilaTipada, EventoTipado,
         RegistrosEvento
<1>2. TrasEvento(e) \in [estado : Estados, cliente : creados \cup {"NADIE"},
                         fin : Fines]
      BY <1>1 DEF FilaTipada, EventoTipado, TrasEvento, Estados, TiposEvento
<1>3. \/ TrasEvento(e).cliente = fila.cliente
      \/ TrasEvento(e).cliente \in creados
      BY <1>1 DEF FilaTipada, EventoTipado, TrasEvento, TiposEvento
<1> QED BY <1>1, <1>2, <1>3, PideTipado

(* A commit that overtakes the others leaves them as they were otherwise.   *)
LEMMA AdelantaTipada ==
  ASSUME NEW pets \in [Gestiones -> Gestion], Adelanta(pets),
         creados' = creados
  PROVE  /\ gestion' \in [Gestiones -> Gestion']
         /\ \A q \in Gestiones :
              /\ gestion'[q].tipo = pets[q].tipo
              /\ gestion'[q].fase = pets[q].fase
              /\ gestion'[q].e = pets[q].e
              /\ gestion'[q].pasada = Adelantada(pets[q])
<1>1. \A q \in Gestiones :
        /\ pets[q] \in Gestion
        /\ gestion'[q] = [pets[q] EXCEPT !.pasada = Adelantada(pets[q])]
      BY DEF Adelanta
<1>2. \A q \in Gestiones : Adelantada(pets[q]) \in BOOLEAN
      BY <1>1 DEF Adelantada, Gestion
<1>3. Gestion' = Gestion
      BY DEF Gestion, PidenSuscripcion
<1>4. \A q \in Gestiones : gestion'[q] \in Gestion
  <2>1. \A p \in Gestion, b \in BOOLEAN :
          [p EXCEPT !.pasada = b] \in Gestion
        BY DEF Gestion
  <2> TAKE q \in Gestiones
  <2> DEFINE b == Adelantada(pets[q])
             p == pets[q]
  <2>2. p \in Gestion /\ b \in BOOLEAN
        BY <1>1, <1>2
  <2>3. gestion'[q] = [p EXCEPT !.pasada = b]
        BY <1>1
  <2> HIDE DEF p, b
  <2>4. [p EXCEPT !.pasada = b] \in Gestion
        BY <2>1, <2>2
  <2> QED BY <2>3, <2>4
<1>5. gestion' = [q \in Gestiones |-> gestion'[q]]
      BY DEF Adelanta
<1>6. gestion' \in [Gestiones -> Gestion']
      BY <1>3, <1>4, <1>5
<1> QED BY <1>1, <1>2, <1>6 DEF Gestion

LEMMA LlegaUna ==
  ASSUME gestion \in [Gestiones -> Gestion], creados \subseteq creados',
         NEW r \in Gestiones, NEW N \in Gestion',
         gestion' = [gestion EXCEPT ![r] = N]
  PROVE  /\ gestion' \in [Gestiones -> Gestion']
         /\ gestion'[r] = N
         /\ \A q \in Gestiones \ {r} : gestion'[q] = gestion[q]
<1>1. Gestion \subseteq Gestion'
      BY DEF Gestion, PidenSuscripcion
<1>2. \A q \in Gestiones : gestion[q] \in Gestion'
      BY <1>1
<1>3. gestion' \in [Gestiones -> Gestion']
      BY <1>2
<1> QED BY <1>3

(* What each step of a request makes of the requests.                       *)
Quietas(r) ==
  \A q \in Gestiones \ {r} :
    /\ gestion'[q].tipo = gestion[q].tipo
    /\ gestion'[q].fase = gestion[q].fase
    /\ gestion'[q].e = gestion[q].e
Llegan(r) == gestion' \in [Gestiones -> Gestion'] /\ Quietas(r)

LEMMA LlegaReclama ==
  ASSUME TiposFirmes, NEW r \in Gestiones, NEW e \in Eventos, Reclama(r, e)
  PROVE  /\ Llegan(r)
         /\ gestion'[r].tipo = "AVISO" /\ gestion'[r].e = e
         /\ gestion'[r].fase \in {"LEIDO", "AJENO"}
         /\ \A q \in Gestiones \ {r} : gestion'[q] = gestion[q]
<1> DEFINE f == IF Hallada(e) THEN "LEIDO" ELSE "AJENO"
           d == IF Hallada(e) THEN Cambios(TrasEvento(e)) ELSE Igual
           N == [Ociosa EXCEPT !.tipo = "AVISO", !.e = e, !.fase = f,
                               !.pide = d]
<1>1. gestion' = [gestion EXCEPT ![r] = N] /\ creados' = creados
      BY DEF Reclama, Atiende
<1>2. d \in PidenSuscripcion /\ f \in {"LEIDO", "AJENO"}
      BY TrasEventoTipado, OciosaEsGestion DEF Reclama
<1> HIDE DEF f, d
<1>3. /\ N \in Gestion /\ N.tipo = "AVISO" /\ N.e = e
      /\ N.fase \in {"LEIDO", "AJENO"}
      BY <1>2, OciosaEsGestion DEF Gestion, ConEvento
<1> HIDE DEF N
<1>4. N \in Gestion'
      BY <1>1, <1>3 DEF Gestion, PidenSuscripcion
<1>5. gestion \in [Gestiones -> Gestion]
      BY DEF TiposFirmes
<1>6. /\ gestion' \in [Gestiones -> Gestion']
      /\ gestion'[r] = N
      /\ \A q \in Gestiones \ {r} : gestion'[q] = gestion[q]
      BY <1>1, <1>4, <1>5, LlegaUna
<1> QED BY <1>3, <1>6 DEF Llegan, Quietas

LEMMA LlegaOrdena ==
  ASSUME TiposFirmes, NEW r \in Gestiones, Ordena(r)
  PROVE  /\ Llegan(r)
         /\ gestion[r].tipo \in {"AVISO", "ASIGNAR"}
         /\ gestion[r].fase = "LEIDO" /\ gestion'[r].fase = "ORDENADO"
         /\ gestion'[r].tipo = gestion[r].tipo /\ gestion'[r].e = gestion[r].e
         /\ \A q \in Gestiones \ {r} : gestion'[q] = gestion[q]
<1>1. gestion \in [Gestiones -> Gestion] /\ creados' = creados
      BY DEF TiposFirmes, Ordena
<1>2. PICK toca \in BOOLEAN :
        gestion' = [gestion EXCEPT ![r].fase = "ORDENADO", ![r].toca = toca]
      BY DEF Ordena
<1> DEFINE N == [gestion[r] EXCEPT !.fase = "ORDENADO", !.toca = toca]
<1>3. gestion' = [gestion EXCEPT ![r] = N]
      BY <1>1, <1>2
<1>4. N \in Gestion
      BY <1>1 DEF Gestion, ConEvento
<1>5. N \in Gestion'
      BY <1>1, <1>4 DEF Gestion, PidenSuscripcion
<1>6. /\ N.tipo = gestion[r].tipo /\ N.e = gestion[r].e
      /\ N.fase = "ORDENADO"
      BY <1>1 DEF Gestion
<1> HIDE DEF N
<1>7. /\ gestion' \in [Gestiones -> Gestion']
      /\ gestion'[r] = N
      /\ \A q \in Gestiones \ {r} : gestion'[q] = gestion[q]
      BY <1>1, <1>3, <1>5, LlegaUna
<1> QED BY <1>6, <1>7 DEF Llegan, Quietas, Ordena

(* A request that ends, changing nothing of the others.                     *)
Suelta(r) == gestion' = [gestion EXCEPT ![r] = Ociosa]
LEMMA LlegaSuelta ==
  ASSUME TiposFirmes, NEW r \in Gestiones, Suelta(r), creados' = creados
  PROVE  /\ Llegan(r) /\ gestion'[r] = Ociosa
         /\ \A q \in Gestiones \ {r} : gestion'[q] = gestion[q]
<1>1. gestion \in [Gestiones -> Gestion]
      BY DEF TiposFirmes
<1>2. Ociosa \in Gestion'
      BY OciosaEsGestion DEF Gestion, PidenSuscripcion
<1>3. /\ gestion' \in [Gestiones -> Gestion']
      /\ gestion'[r] = Ociosa
      /\ \A q \in Gestiones \ {r} : gestion'[q] = gestion[q]
      BY <1>1, <1>2, LlegaUna DEF Suelta
<1> QED BY <1>3 DEF Llegan, Quietas

LEMMA LlegaEnvia ==
  ASSUME TiposFirmes, NEW r \in Gestiones,
         NEW fase \in {"ENVIADO", "SIN_CORREO"}, Envia(r, fase)
  PROVE  /\ Llegan(r)
         /\ gestion[r].tipo = "AVISO" /\ gestion[r].fase = "CORREO"
         /\ gestion'[r].tipo = "AVISO" /\ gestion'[r].fase = fase
         /\ gestion'[r].e = gestion[r].e
         /\ \A q \in Gestiones \ {r} : gestion'[q] = gestion[q]
<1>1. gestion \in [Gestiones -> Gestion] /\ creados' = creados
      BY DEF TiposFirmes, Envia
<1> DEFINE N == [gestion[r] EXCEPT !.fase = fase]
<1>3. gestion' = [gestion EXCEPT ![r] = N]
      BY <1>1 DEF Envia
<1>4. N \in Gestion
      BY <1>1 DEF Gestion, ConCorreo
<1>5. N \in Gestion'
      BY <1>1, <1>4 DEF Gestion, PidenSuscripcion
<1>6. /\ N.tipo = gestion[r].tipo /\ N.e = gestion[r].e /\ N.fase = fase
      BY <1>1 DEF Gestion
<1> HIDE DEF N
<1>7. /\ gestion' \in [Gestiones -> Gestion']
      /\ gestion'[r] = N
      /\ \A q \in Gestiones \ {r} : gestion'[q] = gestion[q]
      BY <1>1, <1>3, <1>5, LlegaUna
<1> QED BY <1>6, <1>7 DEF Llegan, Quietas, Envia, Fase

(* The requests that read.                                                  *)
LEMMA LlegaLee ==
  ASSUME TiposFirmes, NEW r \in Gestiones,
         (\E estado \in Estados : LeeAsigna(r, estado)) \/ LeeCheckout(r)
           \/ LeeReconciliar(r)
  PROVE  /\ Llegan(r)
         /\ gestion'[r].tipo \in {"ASIGNAR", "PAGAR", "RECONCILIAR"}
         /\ gestion'[r].fase = "LEIDO"
         /\ gestion'[r].tipo = "RECONCILIAR" => Derivado # fila.estado
         /\ \A q \in Gestiones \ {r} : gestion'[q] = gestion[q]
         /\ creados \subseteq creados' /\ creados' \subseteq Clientes
<1>1. /\ gestion \in [Gestiones -> Gestion] /\ creados \subseteq Clientes
      /\ FilaTipada
      BY DEF TiposFirmes, TypeOKSuscripcion, FilaTipada
<1> DEFINE N(t, d) == [Ociosa EXCEPT !.tipo = t, !.pide = d]
<1>2. ASSUME NEW t \in {"ASIGNAR", "PAGAR", "RECONCILIAR"},
             NEW d \in PidenSuscripcion',
             gestion' = [gestion EXCEPT ![r] = N(t, d)],
             creados \subseteq creados'
      PROVE  /\ Llegan(r)
             /\ gestion'[r].tipo = t /\ gestion'[r].fase = "LEIDO"
             /\ \A q \in Gestiones \ {r} : gestion'[q] = gestion[q]
  <2>1. N(t, d) \in Gestion' /\ N(t, d).tipo = t /\ N(t, d).fase = "LEIDO"
        BY <1>2 DEF Gestion, ConEvento, Ociosa
  <2> HIDE DEF N
  <2>2. /\ gestion' \in [Gestiones -> Gestion']
        /\ gestion'[r] = N(t, d)
        /\ \A q \in Gestiones \ {r} : gestion'[q] = gestion[q]
        BY <1>1, <1>2, <2>1, LlegaUna
  <2> QED BY <2>1, <2>2 DEF Llegan, Quietas
<1>3. CASE \E estado \in Estados : LeeAsigna(r, estado)
  <2>1. PICK estado \in Estados : LeeAsigna(r, estado)
        BY <1>3
  <2> DEFINE q == [fila EXCEPT !.estado = estado, !.fin = "ABIERTO"]
             d == Cambios(q)
  <2>2. /\ q \in [estado : Estados, cliente : creados \cup {"NADIE"},
                  fin : Fines]
        /\ q.cliente = fila.cliente
        BY <1>1 DEF FilaTipada, Fines
  <2>3. d \in PidenSuscripcion
        BY <1>1, <2>2, PideTipado
  <2>4. /\ creados' = creados
        /\ gestion' = [gestion EXCEPT ![r] = N("ASIGNAR", d)]
        BY <2>1 DEF LeeAsigna, Atiende
  <2> HIDE DEF d, N
  <2>5. d \in PidenSuscripcion'
        BY <2>3, <2>4 DEF PidenSuscripcion
  <2> QED BY <1>1, <1>2, <2>4, <2>5
<1>4. CASE LeeCheckout(r)
  <2>1. CASE fila.cliente # "NADIE"
    <3>1. Atiende(r, [Ociosa EXCEPT !.tipo = "PAGAR"]) /\ creados' = creados
          BY <1>4, <2>1 DEF LeeCheckout
    <3> DEFINE M == [Ociosa EXCEPT !.tipo = "PAGAR"]
    <3>2. M \in Gestion /\ M.tipo = "PAGAR" /\ M.fase = "LEIDO"
          BY OciosaEsGestion DEF Gestion, Ociosa
    <3> HIDE DEF M, N
    <3>3. gestion' = [gestion EXCEPT ![r] = M] /\ M \in Gestion'
          BY <3>1, <3>2 DEF Atiende, M, Gestion, PidenSuscripcion
    <3>4. /\ gestion' \in [Gestiones -> Gestion']
          /\ gestion'[r] = M
          /\ \A q \in Gestiones \ {r} : gestion'[q] = gestion[q]
          BY <1>1, <3>1, <3>3, LlegaUna
    <3> QED BY <1>1, <3>1, <3>2, <3>4 DEF Llegan, Quietas
  <2>2. CASE fila.cliente = "NADIE"
    <3>1. PICK c \in Clientes \ creados :
            /\ creados' = creados \cup {c}
            /\ Atiende(r, [Ociosa EXCEPT !.tipo = "PAGAR", !.pide.cliente = c])
          BY <1>4, <2>2 DEF LeeCheckout
    <3> DEFINE d == [Igual EXCEPT !.cliente = c]
    <3>2. [Ociosa EXCEPT !.tipo = "PAGAR", !.pide.cliente = c] = N("PAGAR", d)
          BY DEF Ociosa
    <3>3. gestion' = [gestion EXCEPT ![r] = N("PAGAR", d)]
      <4> HIDE DEF N, d
      <4> QED BY <3>1, <3>2 DEF Atiende
    <3>4. d \in PidenSuscripcion'
          BY <3>1, OciosaEsGestion DEF PidenSuscripcion
    <3> QED BY <1>1, <1>2, <3>1, <3>3, <3>4
  <2> QED BY <2>1, <2>2
<1>5. CASE LeeReconciliar(r)
  <2> DEFINE d == [Igual EXCEPT !.estado = Derivado]
  <2>1. /\ Derivado # fila.estado /\ creados' = creados
        /\ Atiende(r, [Ociosa EXCEPT !.tipo = "RECONCILIAR",
                                     !.pide.estado = Derivado])
        BY <1>5 DEF LeeReconciliar
  <2>2. [Ociosa EXCEPT !.tipo = "RECONCILIAR", !.pide.estado = Derivado]
          = N("RECONCILIAR", d)
        BY DEF Ociosa
  <2>3. gestion' = [gestion EXCEPT ![r] = N("RECONCILIAR", d)]
    <3> HIDE DEF N, d
    <3> QED BY <2>1, <2>2 DEF Atiende
  <2>4. d \in PidenSuscripcion'
        BY <1>1, <2>1, OciosaEsGestion, DerivadoEsEstado
           DEF PidenSuscripcion
  <2> QED BY <1>1, <1>2, <2>1, <2>3, <2>4
<1> QED BY <1>3, <1>4, <1>5

(* The requests that commit.                                                *)
LEMMA LlegaCommit ==
  ASSUME gestion \in [Gestiones -> Gestion], creados' = creados,
         NEW r \in Gestiones, NEW N \in Gestion,
         Adelanta([gestion EXCEPT ![r] = N])
  PROVE  /\ Llegan(r)
         /\ gestion'[r].tipo = N.tipo /\ gestion'[r].fase = N.fase
         /\ gestion'[r].e = N.e
         /\ \A q \in Gestiones \ {r} :
              gestion'[q].pasada = Adelantada(gestion[q])
<1> DEFINE pets == [gestion EXCEPT ![r] = N]
<1>1. /\ pets \in [Gestiones -> Gestion] /\ pets[r] = N
      /\ \A q \in Gestiones \ {r} : pets[q] = gestion[q]
      OBVIOUS
<1>2. Adelanta(pets)
      OBVIOUS
<1> HIDE DEF pets
<1>3. /\ gestion' \in [Gestiones -> Gestion']
      /\ \A q \in Gestiones :
           /\ gestion'[q].tipo = pets[q].tipo
           /\ gestion'[q].fase = pets[q].fase
           /\ gestion'[q].e = pets[q].e
           /\ gestion'[q].pasada = Adelantada(pets[q])
      BY <1>1, <1>2, AdelantaTipada
<1> QED BY <1>1, <1>3 DEF Llegan, Quietas

LEMMA LlegaTermina ==
  ASSUME TiposFirmes, NEW r \in Gestiones, Termina(r), creados' = creados
  PROVE  /\ Llegan(r)
         /\ gestion'[r].tipo = "LIBRE" /\ gestion'[r].fase = "LEIDO"
         /\ \A q \in Gestiones \ {r} :
              gestion'[q].pasada = Adelantada(gestion[q])
<1>1. gestion \in [Gestiones -> Gestion]
      BY DEF TiposFirmes
<1>2. Ociosa \in Gestion /\ Ociosa.tipo = "LIBRE" /\ Ociosa.fase = "LEIDO"
      BY OciosaEsGestion DEF Ociosa
<1>3. Adelanta([gestion EXCEPT ![r] = Ociosa])
      BY DEF Termina
<1> HIDE DEF Ociosa
<1> QED BY <1>1, <1>2, <1>3, LlegaCommit

LEMMA LlegaEscribeAviso ==
  ASSUME TiposFirmes, AvisosFieles, NEW r \in Gestiones, EscribeAviso(r)
  PROVE  /\ Llegan(r)
         /\ gestion[r].tipo = "AVISO" /\ gestion[r].fase = "ORDENADO"
         /\ IF evento[gestion[r].e].tipo = "PAGADA"
            THEN /\ gestion'[r].tipo = "AVISO" /\ gestion'[r].fase = "CORREO"
                 /\ gestion'[r].e = gestion[r].e
            ELSE gestion'[r].tipo = "LIBRE" /\ gestion'[r].fase = "LEIDO"
         /\ \A q \in Gestiones \ {r} :
              gestion'[q].pasada = Adelantada(gestion[q])
<1> DEFINE p == gestion[r]
           M == [Ociosa EXCEPT !.tipo = "AVISO", !.e = p.e, !.fase = "CORREO"]
<1>1. /\ gestion \in [Gestiones -> Gestion] /\ creados' = creados
      /\ p.tipo = "AVISO" /\ p.fase = "ORDENADO"
      BY DEF TiposFirmes, EscribeAviso, Fase
<1>2. p.e \in Eventos
      BY <1>1 DEF AvisosFieles, AvisoFiel
<1>3. /\ M \in Gestion /\ M.tipo = "AVISO" /\ M.fase = "CORREO"
      /\ M.e = gestion[r].e
      BY <1>1, <1>2, OciosaEsGestion DEF Gestion, ConCorreo
<1>4. Ociosa \in Gestion /\ Ociosa.tipo = "LIBRE" /\ Ociosa.fase = "LEIDO"
      BY OciosaEsGestion DEF Ociosa
<1>5. Adelanta([gestion EXCEPT ![r] =
                  IF evento[p.e].tipo = "PAGADA" THEN M ELSE Ociosa])
      BY DEF EscribeAviso
<1> HIDE DEF M
<1>6. CASE evento[p.e].tipo = "PAGADA"
  <2>1. Adelanta([gestion EXCEPT ![r] = M])
        BY <1>5, <1>6
  <2> QED BY <1>1, <1>3, <1>6, <2>1, LlegaCommit
<1>7. CASE evento[p.e].tipo # "PAGADA"
  <2>1. Adelanta([gestion EXCEPT ![r] = Ociosa])
        BY <1>5, <1>7
  <2> QED BY <1>1, <1>4, <1>7, <2>1, LlegaCommit
<1> QED BY <1>6, <1>7

----------------------------------------------------------------------------
(***************************************************************************)
(* The types.                                                              *)
(***************************************************************************)
FilaFirme == FilaTipada /\ gracia \in BOOLEAN /\ creados \subseteq Clientes
EventoFirme ==
  /\ evento \in [Eventos -> EventoTipado]
  /\ recibos \subseteq {e \in Eventos : evento[e].tipo = "PAGADA"}
  /\ \A e \in Eventos :
       evento[e].tipo # "NADA" => evento[e].cliente \in creados

LEMMA TiposPorPartes ==
  TiposFirmes <=>
    FilaFirme /\ EventoFirme /\ gestion \in [Gestiones -> Gestion]
BY DEF TiposFirmes, TypeOKSuscripcion, FilaFirme, EventoFirme, FilaTipada,
       EventoTipado, RegistrosEvento, Gestion, ConEvento, ConCorreo

LEMMA FilaEscrita ==
  ASSUME TiposFirmes, NEW r \in Gestiones, creados' = creados,
         fila' = Aplicados(gestion[r].pide), gracia' \in BOOLEAN
  PROVE  FilaFirme'
<1>1. /\ FilaFirme /\ gestion[r] \in Gestion
      BY TiposPorPartes
<1>2. gestion[r].pide \in PidenSuscripcion
      BY <1>1 DEF Gestion
<1>3. fila' \in [estado : Estados, cliente : creados \cup {"NADIE"},
                 fin : Fines]
      BY <1>1, <1>2, FilaAplicada DEF FilaFirme
<1> QED BY <1>1, <1>3 DEF FilaFirme, FilaTipada

LEMMA EventoQueda ==
  ASSUME EventoFirme, UNCHANGED <<evento, recibos>>, creados \subseteq creados'
  PROVE  EventoFirme'
BY DEF EventoFirme

(* What a step makes of the record of one event.                            *)
AnotaEvento(e, registro, veces) ==
  evento' = [evento EXCEPT ![e].registro = registro, ![e].veces = veces]
LEMMA EventoAnotado ==
  ASSUME EventoFirme, creados' = creados, recibos' = recibos,
         NEW e \in Eventos, NEW registro \in RegistrosEvento,
         NEW veces \in 0..2,
         AnotaEvento(e, registro, veces)
  PROVE  /\ EventoFirme'
         /\ evento'[e].registro = registro /\ evento'[e].veces = veces
         /\ \A k \in Eventos : evento'[k].tipo = evento[k].tipo
         /\ \A k \in Eventos \ {e} : evento'[k] = evento[k]
<1>1. /\ evento \in [Eventos -> EventoTipado]
      /\ recibos \subseteq {k \in Eventos : evento[k].tipo = "PAGADA"}
      BY DEF EventoFirme
<1>2. /\ evento' \in [Eventos -> EventoTipado]
      /\ evento'[e].registro = registro /\ evento'[e].veces = veces
      /\ evento'[e].tipo = evento[e].tipo
      /\ evento'[e].cliente = evento[e].cliente
      /\ \A k \in Eventos \ {e} : evento'[k] = evento[k]
      BY <1>1 DEF EventoTipado, AnotaEvento
<1> QED BY <1>1, <1>2 DEF EventoFirme

(* What each step that ends or commits a delivery records.                  *)
LEMMA AnotaEscribeAviso ==
  ASSUME EventoFirme, NEW r \in Gestiones, gestion[r].e \in Eventos,
         EscribeAviso(r)
  PROVE  LET e == gestion[r].e IN
         AnotaEvento(e, IF evento[e].tipo = "PAGADA" THEN "PROCESANDO"
                  ELSE "PROCESADO",
               IF evento[e].veces < 2 THEN evento[e].veces + 1
               ELSE evento[e].veces)
BY DEF EventoFirme, EventoTipado, EscribeAviso, Aplica, AnotaEvento

LEMMA AnotaRegistro ==
  ASSUME EventoFirme, NEW e \in Eventos, NEW registro,
         \/ evento' = [evento EXCEPT ![e].registro = registro]
         \/ evento' = [evento EXCEPT ![e] =
                         [evento[e] EXCEPT !.registro = registro]]
  PROVE  AnotaEvento(e, registro, evento[e].veces)
BY DEF EventoFirme, EventoTipado, AnotaEvento

LEMMA FilaQueda ==
  ASSUME FilaFirme, UNCHANGED <<fila, gracia>>, creados \subseteq creados',
         creados' \subseteq Clientes
  PROVE  FilaFirme'
BY DEF FilaFirme, FilaTipada

LEMMA EmiteFirme ==
  ASSUME EventoFirme, NEW e \in Eventos, NEW tipo \in TiposEvento,
         NEW estado \in Estados, NEW c \in Clientes, Emite(e, tipo, estado, c)
  PROVE  /\ EventoFirme' /\ evento[e].tipo = "NADA"
         /\ evento'[e].tipo = tipo /\ evento'[e].veces = 0
         /\ evento'[e].registro = "NO"
         /\ \A k \in Eventos \ {e} : evento'[k] = evento[k]
<1> DEFINE n == [tipo |-> tipo, estado |-> estado, cliente |-> c,
                 registro |-> "NO", veces |-> 0]
<1>1. /\ evento \in [Eventos -> EventoTipado]
      /\ evento[e] = SinEmitir /\ c \in creados
      /\ evento' = [evento EXCEPT ![e] = n]
      /\ recibos' = recibos /\ creados' = creados
      BY DEF EventoFirme, Emite
<1>2. n \in EventoTipado
      BY DEF EventoTipado, RegistrosEvento
<1>3. /\ evento' \in [Eventos -> EventoTipado] /\ evento'[e] = n
      /\ \A k \in Eventos \ {e} : evento'[k] = evento[k]
      BY <1>1, <1>2
<1>4. evento[e].tipo = "NADA" /\ e \notin recibos
      BY <1>1 DEF EventoFirme, SinEmitir
<1>5. recibos' \subseteq {k \in Eventos : evento'[k].tipo = "PAGADA"}
      BY <1>1, <1>3, <1>4 DEF EventoFirme
<1>6. \A k \in Eventos :
        evento'[k].tipo # "NADA" => evento'[k].cliente \in creados'
      BY <1>1, <1>3 DEF EventoFirme
<1> QED BY <1>3, <1>4, <1>5, <1>6 DEF EventoFirme

(* A delivery that ends: what it records, and the requests it leaves.       *)
Acaba(r) == EscribeAjeno(r) \/ Falla(r) \/ Concluye(r)

LEMMA EjecutaAcaba ==
  ASSUME TiposFirmes, AvisosFieles, NEW r \in Gestiones, Acaba(r)
  PROVE  LET e == gestion[r].e IN
         /\ gestion[r].tipo = "AVISO" /\ e \in Eventos
         /\ Suelta(r) /\ UNCHANGED <<fila, gracia, recibos, creados>>
         /\ \E registro \in {"PROCESADO", "FALLIDO"} :
              /\ AnotaEvento(e, registro, evento[e].veces)
              /\ registro = "PROCESADO" /\ evento[e].tipo = "PAGADA" =>
                   gestion[r].fase = "ENVIADO"
              /\ gestion[r].fase \in ConCorreo \/ TieneEvento(r)
<1> DEFINE e == gestion[r].e
<1>1. EventoFirme /\ gestion[r] \in Gestion
      BY TiposPorPartes
<1>2. /\ gestion[r].tipo = "AVISO"
      /\ gestion[r].fase \in ConCorreo \/ TieneEvento(r)
      /\ Suelta(r) /\ UNCHANGED <<fila, gracia, recibos, creados>>
      BY DEF Acaba, EscribeAjeno, Falla, Concluye, Fase, Suelta, AvisosFieles,
             AvisoFiel, ConCorreo, ConEvento, TieneEvento
<1>3. e \in Eventos
      BY <1>2 DEF AvisosFieles, AvisoFiel
<1>4. CASE EscribeAjeno(r)
  <2> DEFINE x == IF evento[e].tipo = "PAGADA" THEN "FALLIDO" ELSE "PROCESADO"
  <2>1. evento' = [evento EXCEPT ![e] = [evento[e] EXCEPT !.registro = x]]
        BY <1>4 DEF EscribeAjeno, Ajeno
  <2> HIDE DEF x
  <2>2. AnotaEvento(e, x, evento[e].veces)
        BY <1>1, <1>3, <2>1, AnotaRegistro
  <2> QED BY <1>2, <1>3, <2>2 DEF x
<1>5. CASE Falla(r)
  <2>1. evento' = [evento EXCEPT ![e].registro = "FALLIDO"]
        BY <1>5 DEF Falla
  <2>2. AnotaEvento(e, "FALLIDO", evento[e].veces)
        BY <1>1, <1>3, <2>1, AnotaRegistro
  <2> QED BY <1>2, <1>3, <2>2
<1>6. CASE Concluye(r)
  <2> DEFINE x == TrasCorreo(gestion[r].fase)
  <2>1. evento' = [evento EXCEPT ![e].registro = x]
        BY <1>6 DEF Concluye
  <2> HIDE DEF x
  <2>2. AnotaEvento(e, x, evento[e].veces)
        BY <1>1, <1>3, <2>1, AnotaRegistro
  <2> QED BY <1>2, <1>3, <2>2 DEF x, TrasCorreo
<1> QED BY <1>4, <1>5, <1>6 DEF Acaba

(* The steps, by what they touch.                                           *)
Envian(r) == Acepta(r) \/ SinRespuesta(r) \/ Rechaza(r)
Leen(r) ==
  (\E estado \in Estados : LeeAsigna(r, estado)) \/ LeeCheckout(r)
    \/ LeeReconciliar(r)
Confirman(r) == EscribeAsignar(r) \/ EscribeFila(r)
Dias == PasaGracia \/ PasaFecha

LEMMA PorPasosSuscripcion ==
  ASSUME NextSuscripcion
  PROVE  \/ \E r \in Gestiones :
              \/ \E e \in Eventos : Reclama(r, e)
              \/ EscribeAviso(r) \/ Acaba(r) \/ Envian(r) \/ Ordena(r)
              \/ Leen(r) \/ Confirman(r) \/ RevierteGestion(r)
         \/ \E e \in Eventos, tipo \in TiposEvento, estado \in Estados,
               c \in Clientes : Emite(e, tipo, estado, c)
         \/ Dias
BY DEF NextSuscripcion, stripe_webhook, asigna_suscripcion, Stripe, Acaba,
       Envian, Leen, Confirman, Dias

LEMMA EjecutaEnvian ==
  ASSUME TiposFirmes, NEW r \in Gestiones, Envian(r)
  PROVE  /\ Llegan(r)
         /\ gestion[r].tipo = "AVISO" /\ gestion[r].fase = "CORREO"
         /\ gestion'[r].tipo = "AVISO"
         /\ gestion'[r].fase \in {"ENVIADO", "SIN_CORREO"}
         /\ gestion'[r].e = gestion[r].e
         /\ \A q \in Gestiones \ {r} : gestion'[q] = gestion[q]
         /\ UNCHANGED <<fila, gracia, evento, creados>>
         /\ recibos' \in {recibos, recibos \cup {gestion[r].e}}
         /\ gestion'[r].fase = "ENVIADO" => gestion[r].e \in recibos'
<1>1. PICK fase \in {"ENVIADO", "SIN_CORREO"} :
        /\ Envia(r, fase)
        /\ recibos' \in {recibos, recibos \cup {gestion[r].e}}
        /\ fase = "ENVIADO" => gestion[r].e \in recibos'
      BY DEF Envian, Acepta, SinRespuesta, Rechaza
<1>2. UNCHANGED <<fila, gracia, evento, creados>>
      BY <1>1 DEF Envia
<1> QED BY <1>1, <1>2, LlegaEnvia

LEMMA EjecutaConfirman ==
  ASSUME TiposFirmes, NEW r \in Gestiones, Confirman(r)
  PROVE  /\ Termina(r) /\ UNCHANGED <<evento, recibos, creados>>
         /\ fila' = Aplicados(gestion[r].pide) /\ gracia' \in BOOLEAN
         /\ gestion[r].tipo # "AVISO"
<1>1. gracia \in BOOLEAN /\ gestion[r].toca \in BOOLEAN
      BY TiposPorPartes DEF FilaFirme, Gestion
<1> QED BY <1>1 DEF Confirman, EscribeAsignar, EscribeFila, Confirma, Fase

LEMMA PasoTiposSuscripcion ==
  ASSUME TiposFirmes, AvisosFieles, NextSuscripcion
  PROVE  TiposFirmes'
<1>1. FilaFirme /\ EventoFirme /\ gestion \in [Gestiones -> Gestion]
      BY TiposPorPartes
<1>2. SUFFICES /\ FilaFirme' /\ EventoFirme'
               /\ gestion' \in [Gestiones -> Gestion']
      <2>1. (FilaFirme /\ EventoFirme /\ gestion \in [Gestiones -> Gestion])'
              => TiposFirmes'
            BY DEF TiposFirmes, TypeOKSuscripcion, FilaFirme, EventoFirme,
               FilaTipada, EventoTipado, RegistrosEvento, Gestion, ConEvento,
               ConCorreo
      <2> QED BY <2>1
<1>3. ASSUME creados' = creados
      PROVE  /\ creados \subseteq creados' /\ creados' \subseteq Clientes
             /\ Gestion' = Gestion
      BY <1>1, <1>3 DEF FilaFirme, Gestion, PidenSuscripcion
<1>4. ASSUME NEW r \in Gestiones, NEW e \in Eventos, Reclama(r, e)
      PROVE  /\ FilaFirme' /\ EventoFirme'
             /\ gestion' \in [Gestiones -> Gestion']
  <2>1. UNCHANGED <<fila, gracia, evento, recibos, creados>>
        BY <1>4 DEF Reclama
  <2> QED BY <1>1, <1>3, <1>4, <2>1, FilaQueda, EventoQueda, LlegaReclama
             DEF Llegan
<1>5. ASSUME NEW r \in Gestiones, EscribeAviso(r)
      PROVE  /\ FilaFirme' /\ EventoFirme'
             /\ gestion' \in [Gestiones -> Gestion']
  <2>1. /\ fila' = Aplicados(gestion[r].pide)
        /\ gracia' = (gracia /\ ~ gestion[r].toca)
        /\ UNCHANGED <<recibos, creados>>
        BY <1>5 DEF EscribeAviso, Confirma
  <2>2. gracia' \in BOOLEAN
        BY <1>1, <2>1 DEF FilaFirme
  <2>3. Llegan(r) /\ gestion[r].tipo = "AVISO"
        BY <1>5, LlegaEscribeAviso
  <2>4. gestion[r].e \in Eventos
        BY <2>3 DEF AvisosFieles, AvisoFiel
  <2> DEFINE e == gestion[r].e
             x == IF evento[e].tipo = "PAGADA" THEN "PROCESANDO"
                  ELSE "PROCESADO"
             n == IF evento[e].veces < 2 THEN evento[e].veces + 1
                  ELSE evento[e].veces
  <2>5. AnotaEvento(e, x, n)
        BY <1>1, <1>5, <2>4, AnotaEscribeAviso
  <2>6. x \in RegistrosEvento /\ n \in 0..2
        BY <1>1, <2>4 DEF EventoFirme, EventoTipado, RegistrosEvento
  <2> HIDE DEF x, n
  <2>7. EventoFirme'
        BY <1>1, <2>1, <2>4, <2>5, <2>6, EventoAnotado
  <2>8. FilaFirme'
        BY <2>1, <2>2, FilaEscrita
  <2> QED BY <2>3, <2>7, <2>8 DEF Llegan
<1>6. ASSUME NEW r \in Gestiones, Acaba(r)
      PROVE  /\ FilaFirme' /\ EventoFirme'
             /\ gestion' \in [Gestiones -> Gestion']
  <2> DEFINE e == gestion[r].e
  <2>1. /\ e \in Eventos /\ Suelta(r)
        /\ UNCHANGED <<fila, gracia, recibos, creados>>
        /\ \E registro \in {"PROCESADO", "FALLIDO"} :
             AnotaEvento(e, registro, evento[e].veces)
        BY <1>6, EjecutaAcaba
  <2>2. PICK registro \in {"PROCESADO", "FALLIDO"} :
          AnotaEvento(e, registro, evento[e].veces)
        BY <2>1
  <2>3. registro \in RegistrosEvento /\ evento[e].veces \in 0..2
        BY <1>1, <2>1 DEF EventoFirme, EventoTipado, RegistrosEvento
  <2>4. EventoFirme'
        BY <1>1, <2>1, <2>2, <2>3, EventoAnotado
  <2>5. FilaFirme'
        BY <1>1, <1>3, <2>1, FilaQueda
  <2>6. Llegan(r)
        BY <2>1, LlegaSuelta
  <2> QED BY <2>4, <2>5, <2>6 DEF Llegan
<1>7. ASSUME NEW r \in Gestiones, Envian(r)
      PROVE  /\ FilaFirme' /\ EventoFirme'
             /\ gestion' \in [Gestiones -> Gestion']
  <2>1. /\ Llegan(r) /\ UNCHANGED <<fila, gracia, evento, creados>>
        /\ recibos' \in {recibos, recibos \cup {gestion[r].e}}
        /\ gestion[r].tipo = "AVISO" /\ gestion[r].fase = "CORREO"
        BY <1>7, EjecutaEnvian
  <2>2. /\ gestion[r].e \in Eventos
        /\ evento[gestion[r].e].tipo = "PAGADA"
        BY <2>1 DEF AvisosFieles, AvisoFiel, ConCorreo
  <2>3. EventoFirme'
        BY <1>1, <2>1, <2>2 DEF EventoFirme
  <2>4. FilaFirme'
        BY <1>1, <1>3, <2>1, FilaQueda
  <2> QED BY <2>1, <2>3, <2>4 DEF Llegan
<1>8. ASSUME NEW r \in Gestiones, Ordena(r)
      PROVE  /\ FilaFirme' /\ EventoFirme'
             /\ gestion' \in [Gestiones -> Gestion']
  <2>1. UNCHANGED <<fila, gracia, evento, recibos, creados>>
        BY <1>8 DEF Ordena
  <2> QED BY <1>1, <1>3, <1>8, <2>1, FilaQueda, EventoQueda, LlegaOrdena
             DEF Llegan
<1>9. ASSUME NEW r \in Gestiones, Leen(r)
      PROVE  /\ FilaFirme' /\ EventoFirme'
             /\ gestion' \in [Gestiones -> Gestion']
  <2>1. UNCHANGED <<fila, gracia, evento, recibos>>
        BY <1>9 DEF Leen, LeeAsigna, LeeCheckout, LeeReconciliar
  <2>2. /\ Llegan(r) /\ creados \subseteq creados'
        /\ creados' \subseteq Clientes
        BY <1>9, LlegaLee DEF Leen
  <2> QED BY <1>1, <2>1, <2>2, FilaQueda, EventoQueda DEF Llegan
<1>10. ASSUME NEW r \in Gestiones, Confirman(r)
       PROVE  /\ FilaFirme' /\ EventoFirme'
              /\ gestion' \in [Gestiones -> Gestion']
  <2>1. /\ Termina(r) /\ UNCHANGED <<evento, recibos, creados>>
        /\ fila' = Aplicados(gestion[r].pide) /\ gracia' \in BOOLEAN
        BY <1>10, EjecutaConfirman
  <2> QED BY <1>1, <1>3, <2>1, FilaEscrita, EventoQueda, LlegaTermina
             DEF Llegan
<1>11. ASSUME NEW r \in Gestiones, RevierteGestion(r)
       PROVE  /\ FilaFirme' /\ EventoFirme'
              /\ gestion' \in [Gestiones -> Gestion']
  <2>1. Suelta(r) /\ UNCHANGED <<fila, gracia, evento, recibos, creados>>
        BY <1>11 DEF RevierteGestion, Suelta
  <2> QED BY <1>1, <1>3, <2>1, FilaQueda, EventoQueda, LlegaSuelta
             DEF Llegan
<1>12. ASSUME NEW e \in Eventos, NEW tipo \in TiposEvento,
              NEW estado \in Estados, NEW c \in Clientes,
              Emite(e, tipo, estado, c)
       PROVE  /\ FilaFirme' /\ EventoFirme'
              /\ gestion' \in [Gestiones -> Gestion']
  <2>1. UNCHANGED <<fila, gracia, creados, gestion>>
        BY <1>12 DEF Emite
  <2> QED BY <1>1, <1>3, <1>12, <2>1, FilaQueda, EmiteFirme
<1>13. ASSUME Dias
       PROVE  /\ FilaFirme' /\ EventoFirme'
              /\ gestion' \in [Gestiones -> Gestion']
  <2>1. UNCHANGED <<evento, recibos, creados, gestion>>
        BY <1>13 DEF Dias, PasaGracia, PasaFecha
  <2>2. FilaFirme'
        BY <1>1, <1>13, <2>1
           DEF FilaFirme, FilaTipada, Dias, PasaGracia, PasaFecha, Fines
  <2> QED BY <1>1, <1>3, <2>1, <2>2, EventoQueda
<1> QED BY <1>4, <1>5, <1>6, <1>7, <1>8, <1>9, <1>10, <1>11, <1>12, <1>13,
           PorPasosSuscripcion

----------------------------------------------------------------------------
(***************************************************************************)
(* Each event has the effects its record tells.                            *)
(***************************************************************************)
EventosFieles == UnEnvio /\ UnaVez /\ ComprobanteFiel /\ AvisosFieles

(* A step that touches no event, of a request that keeps its own or has     *)
(* none.                                                                    *)
LEMMA EventosQuedan ==
  ASSUME EventosFieles, NEW r \in Gestiones, Quietas(r),
         UNCHANGED <<evento, recibos>>,
         \/ gestion'[r].tipo # "AVISO" /\ gestion'[r].fase \notin ConCorreo
         \/ /\ gestion'[r].tipo = gestion[r].tipo
            /\ gestion'[r].e = gestion[r].e
            /\ gestion[r].fase \in ConEvento /\ gestion'[r].fase \in ConEvento
  PROVE  EventosFieles'
<1>1. UnaVez' /\ ComprobanteFiel'
      BY DEF EventosFieles, UnaVez, ComprobanteFiel
<1>2. \A q \in Gestiones : TieneEvento(q)' =>
        TieneEvento(q) /\ gestion'[q].e = gestion[q].e
      BY DEF TieneEvento, Quietas
<1>3. UnEnvio'
      BY <1>2 DEF EventosFieles, UnEnvio
<1>4. ASSUME NEW q \in Gestiones PROVE AvisoFiel(q)'
  <2>1. AvisoFiel(q)
        BY DEF EventosFieles, AvisosFieles
  <2>2. CASE q # r
        BY <2>1, <2>2 DEF AvisoFiel, Quietas, TieneEvento
  <2>3. CASE q = r
        BY <2>1, <2>3 DEF AvisoFiel, TieneEvento, ConEvento, ConCorreo
  <2> QED BY <2>2, <2>3
<1> QED BY <1>1, <1>3, <1>4 DEF EventosFieles, AvisosFieles

LEMMA EventosTrasReclama ==
  ASSUME TiposFirmes, EventosFieles, NEW r \in Gestiones, NEW e \in Eventos,
         Reclama(r, e)
  PROVE  EventosFieles'
<1>1. /\ EventoLibre(e) /\ evento[e].tipo # "NADA"
      /\ evento[e].registro # "PROCESADO" /\ UNCHANGED <<evento, recibos>>
      BY DEF Reclama
<1>2. /\ gestion'[r].tipo = "AVISO" /\ gestion'[r].e = e
      /\ gestion'[r].fase \in {"LEIDO", "AJENO"}
      /\ \A q \in Gestiones \ {r} : gestion'[q] = gestion[q]
      BY LlegaReclama
<1>3. UnaVez' /\ ComprobanteFiel'
      BY <1>1 DEF EventosFieles, UnaVez, ComprobanteFiel
<1>4. UnEnvio'
  <2> SUFFICES ASSUME NEW p \in Gestiones, NEW q \in Gestiones,
                      TieneEvento(p)', TieneEvento(q)',
                      gestion'[p].e = gestion'[q].e, p # q
               PROVE  FALSE
      BY DEF UnEnvio
  <2>1. CASE p = r \/ q = r
        BY <1>1, <1>2, <2>1 DEF TieneEvento, EventoLibre, ConEvento
  <2>2. CASE p # r /\ q # r
        BY <1>2, <2>2 DEF EventosFieles, UnEnvio, TieneEvento
  <2> QED BY <2>1, <2>2
<1>5. ASSUME NEW q \in Gestiones PROVE AvisoFiel(q)'
  <2>1. AvisoFiel(q)
        BY DEF EventosFieles, AvisosFieles
  <2>2. CASE q # r
        BY <1>1, <1>2, <2>1, <2>2 DEF AvisoFiel, TieneEvento
  <2>3. CASE q = r
    <3>1. evento[e].veces \in 0..2
          BY TiposPorPartes DEF EventoFirme, EventoTipado
    <3>2. evento[e].tipo # "PAGADA" => evento[e].veces = 0
          BY <1>1, <3>1 DEF EventosFieles, UnaVez
    <3> QED BY <1>1, <1>2, <2>3, <3>2 DEF AvisoFiel, TieneEvento, ConCorreo
  <2> QED BY <2>2, <2>3
<1> QED BY <1>3, <1>4, <1>5 DEF EventosFieles, AvisosFieles

LEMMA EventosTrasEscribe ==
  ASSUME TiposFirmes, EventosFieles, NEW r \in Gestiones, EscribeAviso(r)
  PROVE  EventosFieles'
<1> DEFINE e == gestion[r].e
           paga == evento[e].tipo = "PAGADA"
           x == IF paga THEN "PROCESANDO" ELSE "PROCESADO"
           n == IF evento[e].veces < 2 THEN evento[e].veces + 1
                ELSE evento[e].veces
<1>1. /\ Quietas(r)
      /\ gestion[r].tipo = "AVISO" /\ gestion[r].fase = "ORDENADO"
      /\ IF paga
         THEN /\ gestion'[r].tipo = "AVISO" /\ gestion'[r].fase = "CORREO"
              /\ gestion'[r].e = e
         ELSE gestion'[r].tipo = "LIBRE" /\ gestion'[r].fase = "LEIDO"
      BY LlegaEscribeAviso DEF EventosFieles, Llegan
<1>2. e \in Eventos /\ TieneEvento(r)
      BY <1>1 DEF EventosFieles, AvisosFieles, AvisoFiel, TieneEvento,
                  ConEvento
<1>3. EventoFirme /\ UNCHANGED <<recibos, creados>>
      BY TiposPorPartes DEF EscribeAviso
<1>4. AnotaEvento(e, x, n)
      BY <1>2, <1>3, AnotaEscribeAviso
<1>5. /\ x \in RegistrosEvento /\ n \in 0..2 /\ evento[e].veces \in 0..2
      /\ n > 0 /\ (evento[e].veces = 0 => n = 1)
      BY <1>2, <1>3 DEF EventoFirme, EventoTipado, RegistrosEvento
<1>6. ~ paga => evento[e].veces = 0
      BY <1>1, <1>2 DEF EventosFieles, AvisosFieles, AvisoFiel
<1> HIDE DEF n
<1>7. /\ evento'[e].registro = x /\ evento'[e].veces = n
      /\ \A k \in Eventos : evento'[k].tipo = evento[k].tipo
      /\ \A k \in Eventos \ {e} : evento'[k] = evento[k]
  <2> HIDE DEF x
  <2> QED BY <1>2, <1>3, <1>4, <1>5, EventoAnotado
<1>8. UnaVez'
  <2> SUFFICES ASSUME NEW k \in Eventos, evento'[k].tipo # "PAGADA"
               PROVE  /\ evento'[k].veces <= 1
                      /\ evento'[k].veces = 1 =>
                           evento'[k].registro = "PROCESADO"
      BY DEF UnaVez
  <2>1. CASE k = e
        BY <1>5, <1>6, <1>7, <2>1
  <2>2. CASE k # e
        BY <1>7, <2>2 DEF EventosFieles, UnaVez
  <2> QED BY <2>1, <2>2
<1>9. ComprobanteFiel'
  <2> SUFFICES ASSUME NEW k \in Eventos, evento'[k].tipo = "PAGADA"
               PROVE  /\ k \in recibos' => evento'[k].veces > 0
                      /\ evento'[k].registro = "PROCESADO" => k \in recibos'
      BY DEF ComprobanteFiel
  <2>1. CASE k = e
        BY <1>5, <1>7, <2>1
  <2>2. CASE k # e
        BY <1>3, <1>7, <2>2 DEF EventosFieles, ComprobanteFiel
  <2> QED BY <2>1, <2>2
<1>10. UnEnvio'
  <2>1. \A q \in Gestiones : TieneEvento(q)' =>
          TieneEvento(q) /\ gestion'[q].e = gestion[q].e
        BY <1>1 DEF TieneEvento, Quietas, ConEvento
  <2> QED BY <2>1 DEF EventosFieles, UnEnvio
<1>11. ASSUME NEW q \in Gestiones PROVE AvisoFiel(q)'
  <2>1. AvisoFiel(q)
        BY DEF EventosFieles, AvisosFieles
  <2>2. CASE q = r
        BY <1>1, <1>2, <1>5, <1>7, <2>2
           DEF AvisoFiel, TieneEvento, ConEvento, ConCorreo
  <2>3. CASE q # r /\ gestion[q].e # e
        BY <1>1, <1>3, <1>7, <2>1, <2>3
           DEF AvisoFiel, TieneEvento, Quietas, ConCorreo
  <2>4. CASE q # r /\ gestion[q].e = e
    <3>1. ~ TieneEvento(q)
          BY <1>2, <2>4 DEF EventosFieles, UnEnvio
    <3>2. /\ gestion'[q].tipo = gestion[q].tipo
          /\ gestion'[q].fase = gestion[q].fase
          /\ gestion'[q].e = gestion[q].e
          BY <1>1, <2>4 DEF Quietas
    <3> QED BY <1>2, <1>3, <1>5, <1>7, <2>1, <2>4, <3>1, <3>2
               DEF AvisoFiel, TieneEvento, ConCorreo
  <2> QED BY <2>2, <2>3, <2>4
<1> QED BY <1>8, <1>9, <1>10, <1>11 DEF EventosFieles, AvisosFieles

LEMMA EventosTrasAcaba ==
  ASSUME TiposFirmes, EventosFieles, NEW r \in Gestiones, Acaba(r)
  PROVE  EventosFieles'
<1> DEFINE e == gestion[r].e
<1>1. /\ e \in Eventos /\ Suelta(r) /\ gestion[r].tipo = "AVISO"
      /\ UNCHANGED <<fila, gracia, recibos, creados>>
      /\ gestion[r].fase \in ConCorreo \/ TieneEvento(r)
      BY EjecutaAcaba DEF EventosFieles
<1>2. PICK registro \in {"PROCESADO", "FALLIDO"} :
        /\ AnotaEvento(e, registro, evento[e].veces)
        /\ registro = "PROCESADO" /\ evento[e].tipo = "PAGADA" =>
             gestion[r].fase = "ENVIADO"
      BY EjecutaAcaba DEF EventosFieles
<1>3. EventoFirme
      BY TiposPorPartes
<1>4. registro \in RegistrosEvento /\ evento[e].veces \in 0..2
      BY <1>1, <1>3 DEF EventoFirme, EventoTipado, RegistrosEvento
<1>5. /\ evento'[e].registro = registro
      /\ evento'[e].veces = evento[e].veces
      /\ \A k \in Eventos : evento'[k].tipo = evento[k].tipo
      /\ \A k \in Eventos \ {e} : evento'[k] = evento[k]
      BY <1>1, <1>2, <1>3, <1>4, EventoAnotado
<1>6. /\ gestion'[r].tipo = "LIBRE" /\ gestion'[r].fase = "LEIDO"
      /\ \A q \in Gestiones \ {r} : gestion'[q] = gestion[q]
      BY <1>1, LlegaSuelta DEF Ociosa
<1>7. AvisoFiel(r)
      BY DEF EventosFieles, AvisosFieles
<1>8. evento[e].tipo # "PAGADA" => evento[e].veces = 0
      BY <1>1, <1>7 DEF AvisoFiel
<1>9. UnaVez'
  <2> SUFFICES ASSUME NEW k \in Eventos, evento'[k].tipo # "PAGADA"
               PROVE  /\ evento'[k].veces <= 1
                      /\ evento'[k].veces = 1 =>
                           evento'[k].registro = "PROCESADO"
      BY DEF UnaVez
  <2>1. CASE k = e
        BY <1>5, <1>8, <2>1
  <2>2. CASE k # e
        BY <1>5, <2>2 DEF EventosFieles, UnaVez
  <2> QED BY <2>1, <2>2
<1>10. ComprobanteFiel'
  <2> SUFFICES ASSUME NEW k \in Eventos, evento'[k].tipo = "PAGADA"
               PROVE  /\ k \in recibos' => evento'[k].veces > 0
                      /\ evento'[k].registro = "PROCESADO" => k \in recibos'
      BY DEF ComprobanteFiel
  <2>1. CASE k = e
        BY <1>1, <1>2, <1>5, <1>7, <2>1
           DEF EventosFieles, ComprobanteFiel, AvisoFiel
  <2>2. CASE k # e
        BY <1>1, <1>5, <2>2 DEF EventosFieles, ComprobanteFiel
  <2> QED BY <2>1, <2>2
<1>11. UnEnvio'
       BY <1>6 DEF EventosFieles, UnEnvio, TieneEvento
<1>12. ASSUME NEW q \in Gestiones PROVE AvisoFiel(q)'
  <2>1. AvisoFiel(q)
        BY DEF EventosFieles, AvisosFieles
  <2>2. CASE q = r
        BY <1>6, <2>2 DEF AvisoFiel, ConCorreo
  <2>3. CASE q # r
    <3>1. gestion'[q] = gestion[q] /\ recibos' = recibos
          BY <1>1, <1>6, <2>3
    <3>2. gestion[q].tipo = "AVISO" =>
            /\ evento'[gestion[q].e].tipo = evento[gestion[q].e].tipo
            /\ evento'[gestion[q].e].veces = evento[gestion[q].e].veces
          BY <1>5, <2>1 DEF AvisoFiel
    <3> QED BY <2>1, <3>1, <3>2 DEF AvisoFiel, TieneEvento
  <2> QED BY <2>2, <2>3
<1> QED BY <1>9, <1>10, <1>11, <1>12 DEF EventosFieles, AvisosFieles

LEMMA EventosTrasEnvian ==
  ASSUME TiposFirmes, EventosFieles, NEW r \in Gestiones, Envian(r)
  PROVE  EventosFieles'
<1>1. /\ gestion[r].tipo = "AVISO" /\ gestion[r].fase = "CORREO"
      /\ gestion'[r].tipo = "AVISO"
      /\ gestion'[r].fase \in {"ENVIADO", "SIN_CORREO"}
      /\ gestion'[r].e = gestion[r].e
      /\ \A q \in Gestiones \ {r} : gestion'[q] = gestion[q]
      /\ evento' = evento
      /\ recibos' \in {recibos, recibos \cup {gestion[r].e}}
      /\ gestion'[r].fase = "ENVIADO" => gestion[r].e \in recibos'
      BY EjecutaEnvian
<1>2. AvisoFiel(r)
      BY DEF EventosFieles, AvisosFieles
<1>3. UnaVez'
      BY <1>1 DEF EventosFieles, UnaVez
<1>4. ComprobanteFiel'
      BY <1>1, <1>2 DEF EventosFieles, ComprobanteFiel, AvisoFiel, ConCorreo
<1>5. UnEnvio'
  <2>1. \A q \in Gestiones : TieneEvento(q)' =>
          TieneEvento(q) /\ gestion'[q].e = gestion[q].e
        BY <1>1 DEF TieneEvento, ConEvento
  <2> QED BY <2>1 DEF EventosFieles, UnEnvio
<1>6. ASSUME NEW q \in Gestiones PROVE AvisoFiel(q)'
  <2>1. AvisoFiel(q)
        BY DEF EventosFieles, AvisosFieles
  <2>2. CASE q = r
        BY <1>1, <1>2, <2>2
           DEF AvisoFiel, TieneEvento, ConEvento, ConCorreo
  <2>3. CASE q # r
        BY <1>1, <2>1, <2>3 DEF AvisoFiel, TieneEvento
  <2> QED BY <2>2, <2>3
<1> QED BY <1>3, <1>4, <1>5, <1>6 DEF EventosFieles, AvisosFieles

LEMMA EventosTrasEmite ==
  ASSUME TiposFirmes, EventosFieles, NEW e \in Eventos,
         NEW tipo \in TiposEvento, NEW estado \in Estados, NEW c \in Clientes,
         Emite(e, tipo, estado, c)
  PROVE  EventosFieles'
<1>1. /\ evento[e].tipo = "NADA" /\ evento'[e].tipo = tipo
      /\ evento'[e].veces = 0 /\ evento'[e].registro = "NO"
      /\ \A k \in Eventos \ {e} : evento'[k] = evento[k]
      BY TiposPorPartes, EmiteFirme
<1>2. UNCHANGED <<recibos, gestion>> /\ e \notin recibos
      BY <1>1, TiposPorPartes DEF Emite, EventoFirme
<1>3. UnaVez'
  <2> SUFFICES ASSUME NEW k \in Eventos, evento'[k].tipo # "PAGADA"
               PROVE  /\ evento'[k].veces <= 1
                      /\ evento'[k].veces = 1 =>
                           evento'[k].registro = "PROCESADO"
      BY DEF UnaVez
  <2>1. CASE k = e
        BY <1>1, <2>1
  <2>2. CASE k # e
        BY <1>1, <2>2 DEF EventosFieles, UnaVez
  <2> QED BY <2>1, <2>2
<1>4. ComprobanteFiel'
  <2> SUFFICES ASSUME NEW k \in Eventos, evento'[k].tipo = "PAGADA"
               PROVE  /\ k \in recibos' => evento'[k].veces > 0
                      /\ evento'[k].registro = "PROCESADO" => k \in recibos'
      BY DEF ComprobanteFiel
  <2>1. CASE k = e
        BY <1>1, <1>2, <2>1
  <2>2. CASE k # e
        BY <1>1, <1>2, <2>2 DEF EventosFieles, ComprobanteFiel
  <2> QED BY <2>1, <2>2
<1>5. UnEnvio'
      BY <1>2 DEF EventosFieles, UnEnvio, TieneEvento
<1>6. ASSUME NEW q \in Gestiones PROVE AvisoFiel(q)'
  <2>1. AvisoFiel(q)
        BY DEF EventosFieles, AvisosFieles
  <2>2. gestion[q].tipo = "AVISO" =>
          evento'[gestion[q].e] = evento[gestion[q].e]
        BY <1>1, <2>1 DEF AvisoFiel
  <2> QED BY <1>2, <2>1, <2>2 DEF AvisoFiel, TieneEvento
<1> QED BY <1>3, <1>4, <1>5, <1>6 DEF EventosFieles, AvisosFieles

LEMMA PasoEventos ==
  ASSUME TiposFirmes, EventosFieles, NextSuscripcion
  PROVE  EventosFieles'
<1>1. ASSUME NEW r \in Gestiones,
             Ordena(r) \/ Leen(r) \/ Confirman(r) \/ RevierteGestion(r)
      PROVE  EventosFieles'
  <2>1. CASE Ordena(r)
    <3>1. UNCHANGED <<evento, recibos>>
          BY <2>1 DEF Ordena
    <3> QED BY <2>1, <3>1, LlegaOrdena, EventosQuedan DEF Llegan, ConEvento
  <2>2. CASE Leen(r)
    <3>1. UNCHANGED <<evento, recibos>>
          BY <2>2 DEF Leen, LeeAsigna, LeeCheckout, LeeReconciliar
    <3>2. /\ Quietas(r) /\ gestion'[r].tipo # "AVISO"
          /\ gestion'[r].fase \notin ConCorreo
          BY <2>2, LlegaLee DEF Leen, Llegan, ConCorreo
    <3> QED BY <3>1, <3>2, EventosQuedan
  <2>3. CASE Confirman(r)
    <3>1. Termina(r) /\ UNCHANGED <<evento, recibos, creados>>
          BY <2>3, EjecutaConfirman
    <3>2. /\ Quietas(r) /\ gestion'[r].tipo # "AVISO"
          /\ gestion'[r].fase \notin ConCorreo
          BY <3>1, LlegaTermina DEF Llegan, ConCorreo
    <3> QED BY <3>1, <3>2, EventosQuedan
  <2>4. CASE RevierteGestion(r)
    <3>1. Suelta(r) /\ UNCHANGED <<evento, recibos, creados>>
          BY <2>4 DEF RevierteGestion, Suelta
    <3>2. /\ Quietas(r) /\ gestion'[r].tipo # "AVISO"
          /\ gestion'[r].fase \notin ConCorreo
          BY <3>1, LlegaSuelta DEF Llegan, ConCorreo, Ociosa
    <3> QED BY <3>1, <3>2, EventosQuedan
  <2> QED BY <1>1, <2>1, <2>2, <2>3, <2>4
<1>2. ASSUME Dias PROVE EventosFieles'
  <2>1. UNCHANGED <<evento, recibos, gestion>>
        BY <1>2 DEF Dias, PasaGracia, PasaFecha
  <2> QED BY <2>1 DEF EventosFieles, UnEnvio, UnaVez, ComprobanteFiel,
                      AvisosFieles, AvisoFiel, TieneEvento
<1> QED BY <1>1, <1>2, PorPasosSuscripcion, EventosTrasReclama,
           EventosTrasEscribe, EventosTrasAcaba, EventosTrasEnvian,
           EventosTrasEmite

----------------------------------------------------------------------------
(***************************************************************************)
(* Reconciliation.                                                         *)
(***************************************************************************)
LEMMA CorteQueda ==
  ASSUME CorteVigente, UNCHANGED <<fila, gracia>>, NEW r \in Gestiones,
         \A q \in Gestiones \ {r} : gestion'[q] = gestion[q],
         gestion'[r].tipo = "RECONCILIAR" =>
           fila.fin = "PASADO" \/ (fila.estado = "PAGO_FALLIDO" /\ gracia)
  PROVE  CorteVigente'
BY DEF CorteVigente

LEMMA CorteTrasCommit ==
  ASSUME CorteVigente, NEW r \in Gestiones, Quietas(r),
         gestion'[r].tipo # "RECONCILIAR",
         \A q \in Gestiones \ {r} :
           gestion'[q].pasada = Adelantada(gestion[q])
  PROVE  CorteVigente'
BY DEF CorteVigente, Quietas, Adelantada

LEMMA PasoCorte ==
  ASSUME TiposFirmes, EventosFieles, CorteVigente, NextSuscripcion
  PROVE  CorteVigente'
<1>1. ASSUME NEW r \in Gestiones, NEW e \in Eventos, Reclama(r, e)
      PROVE  CorteVigente'
      BY <1>1, LlegaReclama, CorteQueda DEF Reclama
<1>2. ASSUME NEW r \in Gestiones, EscribeAviso(r) PROVE CorteVigente'
  <2>1. /\ Quietas(r) /\ gestion'[r].tipo # "RECONCILIAR"
        /\ \A q \in Gestiones \ {r} :
             gestion'[q].pasada = Adelantada(gestion[q])
        BY <1>2, LlegaEscribeAviso DEF EventosFieles, Llegan
  <2> QED BY <2>1, CorteTrasCommit
<1>3. ASSUME NEW r \in Gestiones, Acaba(r) \/ RevierteGestion(r)
      PROVE  CorteVigente'
  <2>1. Suelta(r) /\ UNCHANGED <<fila, gracia, creados>>
        BY <1>3, EjecutaAcaba DEF EventosFieles, RevierteGestion, Suelta
  <2>2. /\ gestion'[r].tipo = "LIBRE"
        /\ \A q \in Gestiones \ {r} : gestion'[q] = gestion[q]
        BY <2>1, LlegaSuelta DEF Ociosa
  <2> QED BY <2>1, <2>2, CorteQueda
<1>4. ASSUME NEW r \in Gestiones, Envian(r) PROVE CorteVigente'
      BY <1>4, EjecutaEnvian, CorteQueda
<1>5. ASSUME NEW r \in Gestiones, Ordena(r) PROVE CorteVigente'
  <2>1. UNCHANGED <<fila, gracia>>
        BY <1>5 DEF Ordena
  <2>2. /\ gestion'[r].tipo # "RECONCILIAR"
        /\ \A q \in Gestiones \ {r} : gestion'[q] = gestion[q]
        BY <1>5, LlegaOrdena
  <2> QED BY <2>1, <2>2, CorteQueda
<1>6. ASSUME NEW r \in Gestiones, Leen(r) PROVE CorteVigente'
  <2>1. UNCHANGED <<fila, gracia>>
        BY <1>6 DEF Leen, LeeAsigna, LeeCheckout, LeeReconciliar
  <2>2. /\ gestion'[r].tipo = "RECONCILIAR" => Derivado # fila.estado
        /\ \A q \in Gestiones \ {r} : gestion'[q] = gestion[q]
        BY <1>6, LlegaLee DEF Leen
  <2>3. Derivado # fila.estado =>
          fila.fin = "PASADO" \/ (fila.estado = "PAGO_FALLIDO" /\ gracia)
        BY DEF Derivado
  <2> QED BY <2>1, <2>2, <2>3, CorteQueda
<1>7. ASSUME NEW r \in Gestiones, Confirman(r) PROVE CorteVigente'
  <2>1. Termina(r) /\ creados' = creados
        BY <1>7, EjecutaConfirman
  <2>2. /\ Quietas(r) /\ gestion'[r].tipo # "RECONCILIAR"
        /\ \A q \in Gestiones \ {r} :
             gestion'[q].pasada = Adelantada(gestion[q])
        BY <2>1, LlegaTermina DEF Llegan
  <2> QED BY <2>2, CorteTrasCommit
<1>8. ASSUME NEW e \in Eventos, NEW tipo \in TiposEvento,
             NEW estado \in Estados, NEW c \in Clientes,
             Emite(e, tipo, estado, c)
      PROVE  CorteVigente'
      BY <1>8 DEF Emite, CorteVigente
<1>9. ASSUME Dias PROVE CorteVigente'
  <2>1. gestion' = gestion
        BY <1>9 DEF Dias, PasaGracia, PasaFecha
  <2>2. CASE PasaGracia
        BY <2>1, <2>2 DEF PasaGracia, CorteVigente
  <2>3. CASE PasaFecha
    <3>1. fila'.fin = "PASADO"
          BY <2>3, TiposPorPartes DEF PasaFecha, FilaFirme, FilaTipada
    <3> QED BY <2>1, <3>1 DEF CorteVigente
  <2> QED BY <1>9, <2>2, <2>3 DEF Dias
<1> QED BY <1>1, <1>2, <1>3, <1>4, <1>5, <1>6, <1>7, <1>8, <1>9,
           PorPasosSuscripcion

----------------------------------------------------------------------------
(***************************************************************************)
(* The theorems.                                                           *)
(***************************************************************************)
LEMMA AlEmpezarSuscripcion == InitSuscripcion => IInvSuscripcion
<1> SUFFICES ASSUME InitSuscripcion PROVE IInvSuscripcion
    OBVIOUS
<1>1. /\ fila = [estado |-> "ACTIVA", cliente |-> "NADIE", fin |-> "ABIERTO"]
      /\ gracia = FALSE /\ recibos = {} /\ creados = {}
      /\ evento = [e \in Eventos |-> SinEmitir]
      /\ gestion = [r \in Gestiones |-> Ociosa]
      BY DEF InitSuscripcion
<1>2. FilaFirme
      BY <1>1 DEF FilaFirme, FilaTipada, Estados, Fines
<1>3. \A e \in Eventos : /\ evento[e] \in EventoTipado
                         /\ evento[e].tipo = "NADA" /\ evento[e].veces = 0
                         /\ evento[e].registro = "NO"
      BY <1>1 DEF SinEmitir, EventoTipado, RegistrosEvento, Estados
<1>4. EventoFirme
      BY <1>1, <1>3 DEF EventoFirme
<1>5. TiposFirmes
      BY <1>1, <1>2, <1>4, OciosaEsGestion, TiposPorPartes
<1>6. \A r \in Gestiones :
        gestion[r].tipo = "LIBRE" /\ gestion[r].fase = "LEIDO"
      BY <1>1 DEF Ociosa
<1>7. UnEnvio /\ AvisosFieles /\ CorteVigente
      BY <1>6 DEF UnEnvio, AvisosFieles, AvisoFiel, CorteVigente, TieneEvento,
                  ConCorreo
<1>8. UnaVez /\ ComprobanteFiel
      BY <1>1, <1>3 DEF UnaVez, ComprobanteFiel
<1> QED BY <1>5, <1>7, <1>8 DEF IInvSuscripcion

LEMMA PasoSuscripcion ==
  IInvSuscripcion /\ [NextSuscripcion]_varsSuscripcion => IInvSuscripcion'
<1> SUFFICES ASSUME IInvSuscripcion, [NextSuscripcion]_varsSuscripcion
             PROVE  IInvSuscripcion'
    OBVIOUS
<1>1. TiposFirmes /\ EventosFieles /\ CorteVigente
      BY DEF IInvSuscripcion, EventosFieles
<1>2. CASE NextSuscripcion
  <2>1. TiposFirmes'
        BY <1>1, <1>2, PasoTiposSuscripcion DEF EventosFieles
  <2> QED BY <1>1, <1>2, <2>1, PasoEventos, PasoCorte
             DEF IInvSuscripcion, EventosFieles
<1>3. CASE UNCHANGED varsSuscripcion
  <2>1. UNCHANGED <<fila, gracia, evento, recibos, creados, gestion>>
        BY <1>3 DEF varsSuscripcion
  <2>2. TiposFirmes'
        BY <1>1, <2>1 DEF TiposFirmes, TypeOKSuscripcion, Gestion,
                          PidenSuscripcion
  <2>3. EventosFieles' /\ CorteVigente'
        BY <1>1, <2>1 DEF EventosFieles, UnEnvio, UnaVez, ComprobanteFiel,
                          AvisosFieles, AvisoFiel, TieneEvento, CorteVigente
  <2> QED BY <2>2, <2>3 DEF IInvSuscripcion, EventosFieles
<1> QED BY <1>2, <1>3

(* Every state the subscription, the events of Stripe and the requests      *)
(* reach satisfies IInvSuscripcion.                                         *)
THEOREM InvarianteSuscripcion == SpecSuscripcion => []IInvSuscripcion
BY AlEmpezarSuscripcion, PasoSuscripcion, PTL DEF SpecSuscripcion

(* The rows and the requests are of their types in every state.             *)
THEOREM TiposSuscripcion == SpecSuscripcion => []TypeOKSuscripcion
<1>1. IInvSuscripcion => TypeOKSuscripcion
      BY DEF IInvSuscripcion, TiposFirmes
<1> QED BY <1>1, InvarianteSuscripcion, PTL

(* A commit of the reconciliation that nobody overtook cuts only who was    *)
(* not working already, or whose end date is past.                          *)
LEMMA CorteJusto ==
  ASSUME IInvSuscripcion, NEW r \in Gestiones,
         gestion[r].tipo = "RECONCILIAR", ~ gestion[r].pasada, Operativa
  PROVE  fila.fin = "PASADO"
BY DEF IInvSuscripcion, CorteVigente, Operativa

(* However often and however together Stripe delivers an event, and         *)
(* whichever deliveries and mails fail, each event has the effects its      *)
(* record tells, on the row and on the mail, and reconciliation cuts nobody *)
(* inside the grace (stripe_webhook, reconcile_subscriptions).              *)
THEOREM SuscripcionSiempreFirme == SpecSuscripcion => SuscripcionFirme
<1>1. IInvSuscripcion => UnaVez /\ ComprobanteFiel
      BY DEF IInvSuscripcion
<1>2. IInvSuscripcion /\ [NextSuscripcion]_varsSuscripcion =>
        [\A r \in Gestiones :
           /\ gestion[r].tipo = "RECONCILIAR" /\ ~ gestion[r].pasada
           /\ Operativa /\ ~ Operativa' /\ gestion'[r] = Ociosa
           => fila.fin = "PASADO"]_varsSuscripcion
      BY CorteJusto
<1> QED BY <1>1, <1>2, InvarianteSuscripcion, PTL
        DEF SpecSuscripcion, SuscripcionFirme, SoloCortaVencidas
=============================================================================
