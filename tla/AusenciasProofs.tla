-------------------------- MODULE AusenciasProofs --------------------------
(***************************************************************************)
(* Proofs about Ausencias, for any number of employees, absences and       *)
(* requests in flight, any length of the month and any balance.            *)
(*                                                                         *)
(* A decision in flight holds its absence, still pending, and, when it     *)
(* takes days, the balance, which is as it read it (Decisiones); a balance *)
(* assigned again covers what has been used (Asignaciones); a version of a *)
(* contract starts after those in force (Versiones).  That the balance is  *)
(* the sum of the absences granted needs the sums themselves, which the    *)
(* first part proves from their recursive definition.                      *)
(***************************************************************************)
EXTENDS Ausencias, FiniteSetTheorems, WellFoundedInduction, TLAPS

----------------------------------------------------------------------------
(* Sums over finite sets.  The recursion of the library is unfolded by the  *)
(* least counterexample, in the number of elements. *)

(* The partial sums that SumFunctionOnSet goes through.                     *)
Elegido(s) == CHOOSE x \in s : TRUE
SumaPor(f, g, D) ==
  g = [s \in D |->
         IF s = {} THEN 0 ELSE f[Elegido(s)] + g[s \ {Elegido(s)}]]
Parciales(f, S) == CHOOSE g : SumaPor(f, g, SUBSET S)
Suma(f, S) == SumFunctionOnSet(f, S)

LEMMA SumaEsParcial ==
  ASSUME NEW f, NEW S
  PROVE  Suma(f, S) = Parciales(f, S)[S]
BY DEF Suma, SumFunctionOnSet, FoldFunctionOnSet, MapThenFoldSet, SumaPor,
       Elegido, Parciales

(* Every set of naturals has a least one.                                   *)
LEMMA Menor ==
  ASSUME NEW T \in SUBSET Nat, T # {}
  PROVE  \E n \in T : \A m \in T : ~ (m < n)
<1>1. PICK n \in T : \A m \in T : ~ (<<m, n>> \in OpToRel(<, Nat))
  BY NatLessThanWellFounded, WFMin
<1> QED
  BY <1>1 DEF OpToRel

(* What a set leaves without the element chosen.                            *)
LEMMA Resto ==
  ASSUME NEW s, IsFiniteSet(s), s # {}
  PROVE  /\ Elegido(s) \in s
         /\ \A x \in s : /\ IsFiniteSet(s \ {x})
                         /\ Cardinality(s) \in Nat /\ Cardinality(s) > 0
                         /\ Cardinality(s \ {x}) = Cardinality(s) - 1
<1>1. Elegido(s) \in s
  BY DEF Elegido
<1>2. \A x \in s : /\ IsFiniteSet(s \ {x})
                   /\ Cardinality(s \ {x}) = Cardinality(s) - 1
  BY FS_RemoveElement
<1>3. Cardinality(s) \in Nat /\ Cardinality(s) # 0
  BY FS_CardinalityType, FS_EmptySet
<1> QED
  BY <1>1, <1>2, <1>3

LEMMA HayParciales ==
  ASSUME NEW f, NEW S, IsFiniteSet(S)
  PROVE  SumaPor(f, Parciales(f, S), SUBSET S)
<1> DEFINE Hasta(n) == {s \in SUBSET S : Cardinality(s) <= n}
           Valor(g, s) ==
             IF s = {} THEN 0 ELSE f[Elegido(s)] + g[s \ {Elegido(s)}]
           T == {n \in Nat : ~ \E g : g = [s \in Hasta(n) |-> Valor(g, s)]}
<1>0. \A s \in SUBSET S : IsFiniteSet(s) /\ Cardinality(s) \in Nat
  BY FS_Subset, FS_CardinalityType
<1>1. T = {}
  <2> SUFFICES ASSUME T # {} PROVE FALSE
    OBVIOUS
  <2>1. PICK n \in T : \A m \in T : ~ (m < n)
    BY Menor
  <2>2. n \in Nat /\ ~ \E g : g = [s \in Hasta(n) |-> Valor(g, s)]
    OBVIOUS
  <2>3. CASE n = 0
    <3>1. \A s \in Hasta(0) : s = {}
      BY <1>0, FS_EmptySet
    <3> DEFINE h == [s \in Hasta(0) |-> 0]
    <3>2. h = [s \in Hasta(0) |-> Valor(h, s)]
      BY <3>1
    <3> QED
      BY <2>2, <2>3, <3>2
  <2>4. CASE n > 0
    <3>5. n - 1 \in Nat /\ n - 1 < n
      BY <2>2, <2>4
    <3>1. n - 1 \in Nat /\ n - 1 \notin T
      <4> HIDE DEF T
      <4> QED
        BY <2>1, <3>5
    <3>2. PICK g : g = [s \in Hasta(n - 1) |-> Valor(g, s)]
      BY <3>1
    <3> DEFINE h == [s \in Hasta(n) |-> Valor(g, s)]
    <3>3. ASSUME NEW s \in Hasta(n) PROVE Valor(h, s) = Valor(g, s)
      <4>1. CASE s = {}
        BY <4>1
      <4>2. CASE s # {}
        <5> DEFINE t == s \ {Elegido(s)}
        <5>1. t \in Hasta(n - 1) /\ t \in Hasta(n)
          BY <1>0, <4>2, <2>2, Resto
        <5>2. g[t] = Valor(g, t)
          BY <3>2, <5>1
        <5>3. h[t] = Valor(g, t)
          BY <5>1
        <5> QED
          BY <4>2, <5>2, <5>3
      <4> QED
        BY <4>1, <4>2
    <3>4. h = [s \in Hasta(n) |-> Valor(h, s)]
      BY <3>3
    <3> QED
      BY <2>2, <3>4
  <2> QED
    BY <2>2, <2>3, <2>4
<1>2. Cardinality(S) \in Nat /\ Hasta(Cardinality(S)) = SUBSET S
  BY <1>0, FS_Subset
<1>3. \E g : g = [s \in Hasta(Cardinality(S)) |-> Valor(g, s)]
  BY <1>1, <1>2
<1>4. \E g : SumaPor(f, g, SUBSET S)
  BY <1>2, <1>3 DEF SumaPor
<1> QED
  BY <1>4 DEF Parciales

(* A partial sum depends on the summands only.                              *)
LEMMA ParcialesIguales ==
  ASSUME NEW f, NEW h, NEW S, NEW R, IsFiniteSet(S), IsFiniteSet(R),
         NEW t \in SUBSET (S \cap R), \A x \in t : f[x] = h[x]
  PROVE  Parciales(f, S)[t] = Parciales(h, R)[t]
<1> DEFINE a == Parciales(f, S)
           b == Parciales(h, R)
           U == SUBSET t
           T == {n \in Nat : \E s \in U : Cardinality(s) = n /\ a[s] # b[s]}
<1>1. \A s \in U : IsFiniteSet(s) /\ Cardinality(s) \in Nat
  BY FS_Subset, FS_CardinalityType
<1>2. T = {}
  <2> SUFFICES ASSUME T # {} PROVE FALSE
    OBVIOUS
  <2>1. PICK n \in T : \A m \in T : ~ (m < n)
    BY Menor
  <2>2. PICK s \in U : Cardinality(s) = n /\ a[s] # b[s]
    OBVIOUS
  <2>3. /\ a[s] = IF s = {} THEN 0
                 ELSE f[Elegido(s)] + a[s \ {Elegido(s)}]
        /\ b[s] = IF s = {} THEN 0
                 ELSE h[Elegido(s)] + b[s \ {Elegido(s)}]
    <3>1. s \in SUBSET S /\ s \in SUBSET R
      BY <2>2
    <3>2. SumaPor(f, a, SUBSET S) /\ SumaPor(h, b, SUBSET R)
      BY HayParciales
    <3> HIDE DEF a, b
    <3> QED
      BY <3>1, <3>2 DEF SumaPor
  <2>4. s # {}
    BY <2>2, <2>3
  <2> DEFINE c == s \ {Elegido(s)}
  <2>5. /\ Elegido(s) \in t /\ c \in U
        /\ Cardinality(c) \in Nat /\ Cardinality(c) < n
    BY <1>1, <2>2, <2>4, Resto
  <2>6. a[c] # b[c]
    BY <2>2, <2>3, <2>4, <2>5
  <2>7. Cardinality(c) \in T
    BY <2>5, <2>6
  <2> HIDE DEF T
  <2> QED
    BY <2>1, <2>5, <2>7
<1>3. t \in U /\ Cardinality(t) \in Nat
  BY <1>1
<1> QED
  BY <1>2, <1>3

(* Naturals add up to a natural, and any of them may be taken out first.    *)
LEMMA ParcialesSuman ==
  ASSUME NEW D, NEW f \in [D -> Nat], NEW S \in SUBSET D, IsFiniteSet(S),
         NEW t \in SUBSET S
  PROVE  /\ Parciales(f, S)[t] \in Nat
         /\ \A x \in t :
              Parciales(f, S)[t] = f[x] + Parciales(f, S)[t \ {x}]
<1> DEFINE a == Parciales(f, S)
           Bien(s) == /\ a[s] \in Nat
                      /\ \A x \in s : a[s] = f[x] + a[s \ {x}]
           T == {n \in Nat : \E s \in SUBSET S :
                               Cardinality(s) = n /\ ~ Bien(s)}
<1>1. \A s \in SUBSET S : IsFiniteSet(s) /\ Cardinality(s) \in Nat
  BY FS_Subset, FS_CardinalityType
<1>2. \A s \in SUBSET S :
        a[s] = IF s = {} THEN 0 ELSE f[Elegido(s)] + a[s \ {Elegido(s)}]
  <2>1. SumaPor(f, a, SUBSET S)
    BY HayParciales
  <2> HIDE DEF a
  <2> QED
    BY <2>1 DEF SumaPor
<1> HIDE DEF a
<1>3. T = {}
  <2> SUFFICES ASSUME T # {} PROVE FALSE
    OBVIOUS
  <2>1. PICK n \in T : \A m \in T : ~ (m < n)
    BY Menor
  <2>2. PICK s \in SUBSET S : Cardinality(s) = n /\ ~ Bien(s)
    OBVIOUS
  <2>3. \A c \in SUBSET S : Cardinality(c) < n => Bien(c)
    <3> SUFFICES ASSUME NEW c \in SUBSET S, Cardinality(c) < n, ~ Bien(c)
                 PROVE  FALSE
      OBVIOUS
    <3>1. Cardinality(c) \in T
      BY <1>1
    <3> HIDE DEF T
    <3> QED
      BY <2>1, <3>1
  <2>4. s # {}
    <3>1. a[{}] = 0
      BY <1>2
    <3>2. Bien({})
      BY <3>1
    <3> HIDE DEF Bien
    <3> QED
      BY <2>2, <3>2
  <2> DEFINE e == Elegido(s)
  <2>5. /\ e \in s /\ f[e] \in Nat
        /\ \A x \in s : /\ IsFiniteSet(s \ {x})
                        /\ Cardinality(s \ {x}) = n - 1 /\ n \in Nat
                        /\ s \ {x} \in SUBSET S /\ f[x] \in Nat
    BY <1>1, <2>2, <2>4, Resto
  <2>6. a[s] = f[e] + a[s \ {e}]
    BY <1>2, <2>4
  <2> HIDE DEF Bien, e
  <2>7. ASSUME NEW x \in s
        PROVE  Bien(s \ {x}) /\ a[s \ {x}] \in Nat
    <3>3. n \in Nat /\ Cardinality(s \ {x}) = n - 1
      BY <2>5
    <3>4. n - 1 < n
      BY <3>3
    <3>1. s \ {x} \in SUBSET S /\ Cardinality(s \ {x}) < n
      BY <3>3, <3>4
    <3>2. Bien(s \ {x})
      BY <2>3, <3>1
    <3> QED
      BY <3>2 DEF Bien
  <2>8. a[s] \in Nat
    <3>1. a[s \ {e}] \in Nat
      BY <2>5, <2>7
    <3> QED
      BY <2>5, <2>6, <3>1
  <2>9. ASSUME NEW x \in s PROVE a[s] = f[x] + a[s \ {x}]
    <3>1. CASE x = e
      BY <2>6, <3>1
    <3>2. CASE x # e
      <4>1. a[s \ {e}] = f[x] + a[(s \ {e}) \ {x}]
        BY <2>5, <2>7, <3>2 DEF Bien
      <4>2. a[s \ {x}] = f[e] + a[(s \ {x}) \ {e}]
        BY <2>5, <2>7, <3>2 DEF Bien
      <4>3. (s \ {e}) \ {x} = (s \ {x}) \ {e}
        OBVIOUS
      <4>4. a[(s \ {e}) \ {x}] \in Nat
        <5>1. /\ IsFiniteSet(s \ {e})
              /\ (s \ {e}) \ {x} \in SUBSET S /\ x \in s \ {e}
          BY <2>5, <3>2
        <5>2. Cardinality((s \ {e}) \ {x}) < n
          <6>1. /\ Cardinality(s \ {e}) = n - 1 /\ n \in Nat
                /\ IsFiniteSet(s \ {e})
            BY <2>5
          <6>2. Cardinality((s \ {e}) \ {x}) = Cardinality(s \ {e}) - 1
            BY <5>1, FS_RemoveElement
          <6> QED
            BY <6>1, <6>2
        <5> QED
          BY <2>3, <5>1, <5>2 DEF Bien
      <4>5. f[e] \in Nat /\ f[x] \in Nat
        BY <2>5
      <4> DEFINE u == a[(s \ {e}) \ {x}]
      <4>6. /\ a[s \ {e}] = f[x] + u
            /\ a[s \ {x}] = f[e] + u
            /\ u \in Nat
        BY <4>1, <4>2, <4>3, <4>4
      <4> HIDE DEF u
      <4> QED
        BY <2>6, <4>5, <4>6
    <3> QED
      BY <3>1, <3>2
  <2> QED
    BY <2>2, <2>8, <2>9 DEF Bien
<1>4. Cardinality(t) \in Nat
  BY <1>1
<1>5. Bien(t)
  BY <1>3, <1>4
<1> QED
  BY <1>5 DEF a

----------------------------------------------------------------------------
(* A sum of naturals is one; it depends on the summands only; and one more  *)
(* of them adds what it is.                                                 *)
LEMMA SumaTipo ==
  ASSUME NEW D, NEW f \in [D -> Nat], NEW S \in SUBSET D, IsFiniteSet(S)
  PROVE  Suma(f, S) \in Nat
BY SumaEsParcial, ParcialesSuman

LEMMA SumaVacia ==
  ASSUME NEW f
  PROVE  Suma(f, {}) = 0
<1>1. SumaPor(f, Parciales(f, {}), SUBSET {})
  BY HayParciales, FS_EmptySet
<1>2. Parciales(f, {})[{}] = 0
  BY <1>1 DEF SumaPor
<1> QED
  BY <1>2, SumaEsParcial

LEMMA SumaIgual ==
  ASSUME NEW f, NEW h, NEW S, IsFiniteSet(S), \A x \in S : f[x] = h[x]
  PROVE  Suma(f, S) = Suma(h, S)
BY SumaEsParcial, ParcialesIguales

LEMMA SumaUnoMas ==
  ASSUME NEW D, NEW f \in [D -> Nat], NEW S \in SUBSET D, IsFiniteSet(S),
         NEW x \in D \ S
  PROVE  Suma(f, S \cup {x}) = Suma(f, S) + f[x]
<1> DEFINE R == S \cup {x}
<1>1. IsFiniteSet(R) /\ R \in SUBSET D /\ x \in R /\ R \ {x} = S
  BY FS_AddElement
<1>2. /\ Parciales(f, R)[R] = f[x] + Parciales(f, R)[R \ {x}]
      /\ Parciales(f, R)[S] \in Nat
  BY <1>1, ParcialesSuman
<1>3. Parciales(f, R)[S] = Parciales(f, S)[S]
  BY <1>1, ParcialesIguales
<1> QED
  BY <1>1, <1>2, <1>3, SumaEsParcial

----------------------------------------------------------------------------
(* The inductive invariant. *)

(* An absence being requested has an identifier nobody has.                 *)
Ineditas ==
  /\ \A r \in Peticiones : En(r, "pedir") => ~ Solicitada(peticion[r].a)
  /\ \A r, s \in Peticiones :
       r # s /\ En(r, "pedir") /\ En(s, "pedir")
       => peticion[r].a # peticion[s].a

(* A decision that takes days from the balance.                             *)
Descuenta(r) == En(r, "resolver") /\ peticion[r].habiles > 0
Decisiones ==
  /\ \A r \in Peticiones : En(r, "resolver") => Pendiente(peticion[r].a)
  /\ \A r \in Peticiones : Descuenta(r) =>
       LET m == peticion[r]
           e == ausencia[m.a].e
       IN  /\ m.aprobar /\ saldo[e].hay /\ m.usado = saldo[e].usado
           /\ m.usado + m.habiles <= saldo[e].asignado
  /\ \A r, s \in Peticiones : r # s /\ En(r, "resolver") =>
       /\ En(s, "resolver") => peticion[r].a # peticion[s].a
       /\ Descuenta(r) /\ Descuenta(s) =>
            ausencia[peticion[r].a].e # ausencia[peticion[s].a].e
       /\ Descuenta(r) /\ En(s, "asignar") /\ peticion[s].hay =>
            ausencia[peticion[r].a].e # peticion[s].e

Asignaciones ==
  /\ \A e \in Empleados : ~ saldo[e].hay => saldo[e].usado = 0
  /\ \A r \in Peticiones : En(r, "asignar") /\ peticion[r].hay =>
       LET m == peticion[r] IN saldo[m.e].hay /\ m.dias >= saldo[m.e].usado

Versiones ==
  /\ \A r \in Peticiones : En(r, "contrato") =>
       Posterior(peticion[r].e, peticion[r].ini)
  /\ \A r, s \in Peticiones :
       r # s /\ En(r, "contrato") /\ En(s, "contrato")
       => peticion[r].e # peticion[s].e

(* The days a calculation in flight will pay are those it will register.    *)
PagaSuHaber(b, h) ==
  \A e \in Empleados :
    b[e] > 0 => b[e] = IF h[e] = SinHaber THEN UltimoDia ELSE h[e].dias
Calculos ==
  \A r \in Peticiones : En(r, "calcular") =>
    PagaSuHaber(peticion[r].boleta, peticion[r].haber)

IInv ==
  /\ TypeOK
  /\ Ineditas
  /\ Decisiones
  /\ Asignaciones
  /\ Versiones
  /\ Calculos
  /\ SaldoExacto
  /\ BoletaConHaber

----------------------------------------------------------------------------
(* The requests and the rows. *)

LEMMA Formas ==
  ASSUME TypeOK, NEW r \in Peticiones
  PROVE  LET m == peticion[r] IN
         /\ m \in Peticion
         /\ En(r, "pedir") =>
              /\ m.a \in IdsAusencia /\ m.e \in Empleados
              /\ m.ini \in Dias /\ m.fin \in Dias
              /\ m.tipo \in {"SIN_GOCE", "VACACION"}
         /\ En(r, "resolver") =>
              /\ m.a \in IdsAusencia /\ m.aprobar \in BOOLEAN
              /\ m.habiles \in 0 .. UltimoDia /\ m.usado \in 0 .. MaxSaldo
         /\ En(r, "asignar") =>
              /\ m.e \in Empleados /\ m.hay \in BOOLEAN
              /\ m.dias \in 0 .. MaxSaldo
         /\ En(r, "contrato") =>
              m.e \in Empleados /\ m.ini \in Fechas /\ m.fin \in Fechas
         /\ En(r, "calcular") =>
              /\ m.haber \in [Empleados -> Haber]
              /\ m.boleta \in [Empleados -> 0 .. UltimoDia]
<1>1. peticion[r] \in Peticion
  BY DEF TypeOK
<1> QED
  BY <1>1 DEF Peticion, Reposo, En

LEMMA AlTerminar ==
  ASSUME TypeOK, NEW r \in Peticiones, Termina(r)
  PROVE  /\ peticion' \in [Peticiones -> Peticion]
         /\ peticion'[r] = Reposo
         /\ \A q \in Peticiones : q # r => peticion'[q] = peticion[q]
BY DEF TypeOK, Termina, Peticion

LEMMA Numeros ==
  /\ UltimoDia \in Nat /\ UltimoDia > 0 /\ MaxSaldo \in Nat
  /\ Dias \subseteq Nat /\ Fechas \subseteq Nat
BY DiasPositivos, CotasNaturales DEF Dias, Fechas

(* A balance whose employee was granted nothing more stays exact.           *)
LEMMA SaldoSigue ==
  ASSUME IInv, NEW e \in Empleados, Concedidas(e)' = Concedidas(e),
         \A x \in Concedidas(e) : Descontados'[x] = Descontados[x],
         saldo'[e].usado = saldo[e].usado,
         saldo'[e].usado <= saldo'[e].asignado
  PROVE  /\ saldo'[e].usado = SumFunctionOnSet(Descontados', Concedidas(e)')
         /\ saldo'[e].usado <= saldo'[e].asignado
<1>1. IsFiniteSet(Concedidas(e))
  BY FilasFinitas, FS_Subset DEF Concedidas
<1>2. Suma(Descontados', Concedidas(e)) = Suma(Descontados, Concedidas(e))
  BY <1>1, SumaIgual
<1> QED
  BY <1>2 DEF IInv, SaldoExacto, Suma

(* The steps that leave absences and balances alone.                        *)
LEMMA SaldoIgual ==
  ASSUME IInv, ausencia' = ausencia, saldo' = saldo
  PROVE  SaldoExacto'
BY DEF IInv, SaldoExacto, Concedidas, Descontados, Solicitada

----------------------------------------------------------------------------
LEMMA AlEmpezar == Init => IInv
<1> SUFFICES ASSUME Init PROVE IInv
  OBVIOUS
<1>1. \A r \in Peticiones : peticion[r] = Reposo
  BY DEF Init
<1>2. TypeOK
  <2>1. /\ SinSaldo \in Saldo /\ SinHaber \in Haber /\ Reposo \in Peticion
        /\ 0 \in 0 .. UltimoDia /\ {} \in SUBSET Contrato
    BY Numeros DEF Saldo, SinSaldo, Haber, SinHaber, Peticion
  <2> QED
    BY <2>1 DEF Init, TypeOK, EstadosPeriodo
<1>3. \A r \in Peticiones, op \in {"pedir", "resolver", "asignar", "contrato",
                                  "calcular"} : ~ En(r, op)
  BY <1>1 DEF En, Reposo
<1>4. Ineditas /\ Decisiones /\ Versiones /\ Calculos
  BY <1>3 DEF Ineditas, Decisiones, Versiones, Calculos, Descuenta
<1>5. Asignaciones /\ SaldoExacto
  <2>1. \A e \in Empleados : saldo[e].usado = 0 /\ saldo[e].asignado = 0
    BY DEF Init, SinSaldo
  <2>2. \A e \in Empleados : Concedidas(e) = {}
    BY DEF Init, Concedidas, Solicitada, SinPedir
  <2>3. \A e \in Empleados : Suma(Descontados, Concedidas(e)) = 0
    BY <2>2, SumaVacia
  <2> QED
    BY <1>3, <2>1, <2>3 DEF Asignaciones, SaldoExacto, Suma
<1>6. BoletaConHaber
  BY DEF Init, BoletaConHaber, Calculado
<1> QED
  BY <1>2, <1>4, <1>5, <1>6 DEF IInv

----------------------------------------------------------------------------
(* The reading steps put request m in flight: what it has to have found.    *)

Encontro(r, m) ==
  /\ m.op = "pedir" =>
       /\ ~ Solicitada(m.a)
       /\ \A s \in Peticiones : ~ (En(s, "pedir") /\ peticion[s].a = m.a)
  /\ m.op = "resolver" =>
       /\ Pendiente(m.a) /\ AusenciaLibre(m.a)
       /\ m.habiles > 0 =>
            LET e == ausencia[m.a].e
            IN  /\ m.aprobar /\ saldo[e].hay /\ m.usado = saldo[e].usado
                /\ m.usado + m.habiles <= saldo[e].asignado
                /\ SaldoLibre(e)
  /\ m.op = "asignar" /\ m.hay =>
       saldo[m.e].hay /\ m.dias >= saldo[m.e].usado /\ SaldoLibre(m.e)
  /\ m.op = "contrato" => Posterior(m.e, m.ini) /\ EmpleadoLibre(m.e)
  /\ m.op = "calcular" => PagaSuHaber(m.boleta, m.haber)

LEMMA PasoEmpieza ==
  ASSUME IInv, NEW r \in Peticiones, NEW m \in Peticion, Empieza(r, m),
         Encontro(r, m)
  PROVE  IInv'
<1> USE DEF IInv
<1>1. /\ UNCHANGED <<mesCerrado, tablas>>
      /\ peticion' \in [Peticiones -> Peticion]
      /\ peticion'[r] = m
      /\ \A q \in Peticiones : q # r => peticion'[q] = peticion[q]
  BY DEF Empieza, TypeOK
<1>2. /\ mesCerrado' = mesCerrado /\ periodo' = periodo
      /\ ausencia' = ausencia /\ saldo' = saldo /\ contratos' = contratos
      /\ haber' = haber /\ boleta' = boleta
  BY <1>1 DEF tablas
<1>3. TypeOK'
  BY <1>1, <1>2 DEF TypeOK
<1>4. Ineditas'
  BY <1>1, <1>2 DEF Ineditas, Encontro, En, Solicitada
<1>5. Decisiones'
  <2>1. \A s \in Peticiones : s # r =>
          (En(s, "resolver")' <=> En(s, "resolver"))
          /\ (En(s, "asignar")' <=> En(s, "asignar"))
          /\ (Descuenta(s)' <=> Descuenta(s))
          /\ peticion'[s] = peticion[s]
    BY <1>1 DEF En, Descuenta
  <2>2. /\ En(r, "resolver")' <=> m.op = "resolver"
        /\ En(r, "asignar")' <=> m.op = "asignar"
        /\ Descuenta(r)' <=> m.op = "resolver" /\ m.habiles > 0
    BY <1>1 DEF En, Descuenta
  <2>3. \A a \in IdsAusencia : Pendiente(a)' <=> Pendiente(a)
    BY <1>2 DEF Pendiente
  <2>5. ASSUME NEW s \in Peticiones, Descuenta(s)'
        PROVE  LET p == peticion'[s]
                   e == ausencia'[p.a].e
               IN  /\ p.aprobar /\ saldo'[e].hay /\ p.usado = saldo'[e].usado
                   /\ p.usado + p.habiles <= saldo'[e].asignado
    <3>1. CASE s = r
      BY <1>1, <1>2, <2>2, <2>5, <3>1 DEF Encontro
    <3>2. CASE s # r
      <4>1. Descuenta(s) /\ peticion'[s] = peticion[s]
        BY <2>1, <2>5, <3>2
      <4> QED
        BY <1>2, <4>1 DEF Decisiones
    <3> QED
      BY <3>1, <3>2
  <2>6. ASSUME NEW s \in Peticiones, NEW q \in Peticiones, s # q,
               En(s, "resolver")'
        PROVE  /\ En(q, "resolver")' => peticion'[s].a # peticion'[q].a
               /\ Descuenta(s)' /\ Descuenta(q)' =>
                    ausencia'[peticion'[s].a].e # ausencia'[peticion'[q].a].e
               /\ Descuenta(s)' /\ En(q, "asignar")' /\ peticion'[q].hay =>
                    ausencia'[peticion'[s].a].e # peticion'[q].e
    <3>1. CASE s # r /\ q # r
      <4>1. /\ peticion'[s] = peticion[s] /\ peticion'[q] = peticion[q]
            /\ En(s, "resolver")
        BY <2>1, <2>6, <3>1
      <4> QED
        BY <1>2, <2>1, <2>6, <3>1, <4>1 DEF Decisiones
    <3>2. CASE s = r
      BY <1>1, <1>2, <2>1, <2>2, <2>6, <3>2
      DEF Encontro, AusenciaLibre, SaldoLibre, Descuenta
    <3>3. CASE q = r
      BY <1>1, <1>2, <2>1, <2>2, <2>6, <3>3
      DEF Encontro, AusenciaLibre, SaldoLibre, Descuenta
    <3> QED
      BY <3>1, <3>2, <3>3
  <2>7. \A s \in Peticiones : En(s, "resolver")' =>
          ausencia'[peticion'[s].a].estado = "PENDIENTE"
    <3>1. \A s \in Peticiones : En(s, "resolver") =>
            ausencia[peticion[s].a].estado = "PENDIENTE"
      BY DEF Decisiones, Pendiente
    <3>2. m.op = "resolver" => ausencia[m.a].estado = "PENDIENTE"
      BY DEF Encontro, Pendiente
    <3> QED
      BY <1>1, <1>2, <2>1, <2>2, <3>1, <3>2
  <2> QED
    BY <2>5, <2>6, <2>7 DEF Decisiones, Pendiente
<1>6. Asignaciones'
  BY <1>1, <1>2 DEF Asignaciones, Encontro, En
<1>7. Versiones'
  BY <1>1, <1>2 DEF Versiones, Encontro, En, Posterior, Vigentes, EmpleadoLibre
<1>8. Calculos'
  BY <1>1, <1>2 DEF Calculos, Encontro, En
<1>9. SaldoExacto'
  BY <1>2, SaldoIgual
<1>10. BoletaConHaber'
  BY <1>2 DEF BoletaConHaber, Calculado
<1> QED
  BY <1>3, <1>4, <1>5, <1>6, <1>7, <1>8, <1>9, <1>10

LEMMA PasoLeePedir ==
  ASSUME IInv, NEW r \in Peticiones, NEW a \in IdsAusencia,
         NEW e \in Empleados, NEW i \in Dias, NEW f \in Dias,
         NEW t \in {"SIN_GOCE", "VACACION"}, LeePedir(r, a, e, i, f, t)
  PROVE  IInv'
<1>1. PICK m : m = [op |-> "pedir", a |-> a, e |-> e, ini |-> i, fin |-> f,
                    tipo |-> t]
  OBVIOUS
<1>2. m \in Peticion
  BY <1>1 DEF Peticion
<1>3. Encontro(r, m) /\ Empieza(r, m)
  BY <1>1 DEF Encontro, LeePedir, Inedita
<1> QED
  BY <1>2, <1>3, PasoEmpieza

LEMMA PasoLeeResolver ==
  ASSUME IInv, NEW r \in Peticiones, NEW a \in IdsAusencia,
         NEW b \in BOOLEAN, NEW n \in 0 .. UltimoDia, LeeResolver(r, a, b, n)
  PROVE  IInv'
<1> USE DEF IInv
<1> DEFINE e == ausencia[a].e
<1>1. e \in Empleados /\ saldo[e].usado \in 0 .. MaxSaldo
      /\ Pendiente(a)
  BY DEF LeeResolver, Pendiente, TypeOK, Ausencia, SinPedir, Saldo
<1>2. PICK m : m = [op |-> "resolver", a |-> a, aprobar |-> b,
                    habiles |-> n, usado |-> saldo[e].usado]
  OBVIOUS
<1>3. m \in Peticion
  BY <1>1, <1>2 DEF Peticion
<1>4. m.habiles > 0 => /\ b /\ SaldoLibre(e) /\ saldo[e].hay
                       /\ saldo[e].usado + n <= saldo[e].asignado
  BY <1>2, Numeros DEF LeeResolver
<1>5. Encontro(r, m) /\ Empieza(r, m)
  BY <1>1, <1>2, <1>4 DEF Encontro, LeeResolver
<1> QED
  BY <1>3, <1>5, PasoEmpieza

LEMMA PasoLeeAsignar ==
  ASSUME IInv, NEW r \in Peticiones, NEW e \in Empleados,
         NEW n \in 0 .. MaxSaldo, LeeAsignar(r, e, n)
  PROVE  IInv'
<1>1. saldo[e].hay \in BOOLEAN
  BY DEF IInv, TypeOK, Saldo
<1>2. PICK m : m = [op |-> "asignar", e |-> e, hay |-> saldo[e].hay,
                    dias |-> n]
  OBVIOUS
<1>3. m \in Peticion
  BY <1>1, <1>2 DEF Peticion
<1>4. Encontro(r, m) /\ Empieza(r, m)
  BY <1>2 DEF Encontro, LeeAsignar
<1> QED
  BY <1>3, <1>4, PasoEmpieza

LEMMA PasoLeeContrato ==
  ASSUME IInv, NEW r \in Peticiones, NEW e \in Empleados,
         NEW i \in Fechas, NEW f \in Fechas, LeeContrato(r, e, i, f)
  PROVE  IInv'
<1>1. PICK m : m = [op |-> "contrato", e |-> e, ini |-> i, fin |-> f]
  OBVIOUS
<1>2. m \in Peticion
  BY <1>1 DEF Peticion
<1>3. Encontro(r, m) /\ Empieza(r, m)
  BY <1>1 DEF Encontro, LeeContrato
<1> QED
  BY <1>2, <1>3, PasoEmpieza

(* The days payable of a month are days of the month.                       *)
LEMMA PasoLeeCalcular ==
  ASSUME IInv, NEW r \in Peticiones, LeeCalcular(r)
  PROVE  IInv'
<1> USE DEF IInv
<1> DEFINE h == [e \in Empleados |-> HaberAlCalcular(e)]
           b == [e \in Empleados |-> DiasBoleta(e, h[e])]
<1>1. ASSUME NEW e \in Empleados PROVE Pagables(e) \in 0 .. UltimoDia
  <2> DEFINE D == {d \in Dias : /\ \E c \in DelMes(e) : c.ini <= d /\ d <= c.fin
                                /\ \A a \in SinGoce(e) : ~ Cubre(a, d)}
  <2>1. IsFiniteSet(Dias) /\ Cardinality(Dias) = UltimoDia
    BY Numeros, FS_Interval DEF Dias
  <2>2. D \subseteq Dias
    OBVIOUS
  <2>3. IsFiniteSet(D) /\ Cardinality(D) <= UltimoDia
        /\ Cardinality(D) \in Nat
    BY <2>1, <2>2, FS_Subset, FS_CardinalityType
  <2>4. Pagables(e) = Cardinality(D)
    BY DEF Pagables
  <2> QED
    BY <2>3, <2>4, Numeros
<1>2. h \in [Empleados -> Haber]
  <2> SUFFICES ASSUME NEW e \in Empleados PROVE HaberAlCalcular(e) \in Haber
    OBVIOUS
  <2>1. [dias |-> Pagables(e), auto |-> TRUE] \in Haber
    BY <1>1 DEF Haber
  <2> QED
    BY <2>1 DEF HaberAlCalcular, TypeOK
<1>3. /\ b \in [Empleados -> 0 .. UltimoDia]
      /\ PagaSuHaber(b, h)
  <2> HIDE DEF h
  <2>1. \A e \in Empleados : h[e].dias \in 0 .. UltimoDia
    BY <1>2 DEF Haber
  <2>2. \A e \in Empleados :
          /\ DiasBoleta(e, h[e]) \in 0 .. UltimoDia
          /\ DiasBoleta(e, h[e]) > 0 => DiasBoleta(e, h[e]) =
               IF h[e] = SinHaber THEN UltimoDia ELSE h[e].dias
    BY <2>1, Numeros DEF DiasBoleta
  <2> QED
    BY <2>2 DEF PagaSuHaber
<1>4. PICK m : m = [op |-> "calcular", haber |-> h, boleta |-> b]
  OBVIOUS
<1>5. Empieza(r, m)
  BY <1>4 DEF LeeCalcular
<1> HIDE DEF h, b
<1>6. m \in Peticion /\ Encontro(r, m)
  BY <1>2, <1>3, <1>4 DEF Peticion, Encontro
<1> QED
  BY <1>5, <1>6, PasoEmpieza

----------------------------------------------------------------------------
(* The commits, and the requests that give up. *)

(* Without request r, what was so of the others still is.                   *)
Quedan(r) ==
  /\ peticion' \in [Peticiones -> Peticion]
  /\ peticion'[r] = Reposo
  /\ \A q \in Peticiones : q # r => peticion'[q] = peticion[q]

LEMMA SinUna ==
  ASSUME NEW r \in Peticiones, Quedan(r)
  PROVE  \A op \in {"pedir", "resolver", "asignar", "contrato", "calcular"} :
           /\ ~ En(r, op)'
           /\ \A q \in Peticiones : q # r => (En(q, op)' <=> En(q, op))
BY DEF Quedan, En, Reposo

LEMMA DecisionesSiguen ==
  ASSUME IInv, NEW r \in Peticiones, Quedan(r),
         \A q \in Peticiones \ {r} : En(q, "resolver") =>
           ausencia'[peticion[q].a] = ausencia[peticion[q].a],
         \A q \in Peticiones \ {r} : Descuenta(q) =>
           LET e == ausencia[peticion[q].a].e IN saldo'[e] = saldo[e]
  PROVE  Decisiones'
<1>0. Decisiones
  BY DEF IInv
<1>1. \A q \in Peticiones :
        /\ En(q, "resolver")' => q # r /\ En(q, "resolver")
        /\ En(q, "asignar")' => q # r /\ En(q, "asignar")
        /\ Descuenta(q)' => q # r /\ Descuenta(q)
  BY SinUna DEF Descuenta, Quedan
<1>2. \A q \in Peticiones : q # r => peticion'[q] = peticion[q]
  BY DEF Quedan
<1>3. ASSUME NEW q \in Peticiones, En(q, "resolver")'
      PROVE  ausencia'[peticion'[q].a].estado = "PENDIENTE"
  <2>1. /\ q # r /\ En(q, "resolver")
        /\ peticion'[q] = peticion[q]
    BY <1>1, <1>2, <1>3
  <2>2. ausencia'[peticion[q].a] = ausencia[peticion[q].a]
    BY <2>1
  <2> QED
    BY <1>0, <2>1, <2>2 DEF Decisiones, Pendiente
<1>4. \A q \in Peticiones : Descuenta(q)' =>
        LET m == peticion'[q]
            e == ausencia'[m.a].e
        IN  /\ m.aprobar /\ saldo'[e].hay /\ m.usado = saldo'[e].usado
            /\ m.usado + m.habiles <= saldo'[e].asignado
  <2> SUFFICES ASSUME NEW q \in Peticiones, Descuenta(q)'
               PROVE  LET m == peticion'[q]
                          e == ausencia'[m.a].e
                      IN  /\ m.aprobar /\ saldo'[e].hay
                          /\ m.usado = saldo'[e].usado
                          /\ m.usado + m.habiles <= saldo'[e].asignado
    OBVIOUS
  <2>1. /\ q # r /\ Descuenta(q) /\ En(q, "resolver")
        /\ peticion'[q] = peticion[q]
    BY <1>1, <1>2 DEF Descuenta
  <2>2. ausencia'[peticion[q].a] = ausencia[peticion[q].a]
    BY <2>1
  <2>3. LET e == ausencia[peticion[q].a].e IN saldo'[e] = saldo[e]
    BY <2>1
  <2> QED
    BY <1>0, <2>1, <2>2, <2>3 DEF Decisiones
<1>5. \A q, s \in Peticiones : q # s /\ En(q, "resolver")' =>
       /\ En(s, "resolver")' => peticion'[q].a # peticion'[s].a
       /\ Descuenta(q)' /\ Descuenta(s)' =>
            ausencia'[peticion'[q].a].e # ausencia'[peticion'[s].a].e
       /\ Descuenta(q)' /\ En(s, "asignar")' /\ peticion'[s].hay =>
            ausencia'[peticion'[q].a].e # peticion'[s].e
  <2> SUFFICES ASSUME NEW q \in Peticiones, NEW s \in Peticiones, q # s,
                      En(q, "resolver")',
                      En(s, "resolver")' \/ En(s, "asignar")'
               PROVE  /\ En(s, "resolver")' => peticion'[q].a # peticion'[s].a
                      /\ Descuenta(q)' /\ Descuenta(s)' =>
                           ausencia'[peticion'[q].a].e
                             # ausencia'[peticion'[s].a].e
                      /\ Descuenta(q)' /\ En(s, "asignar")'
                           /\ peticion'[s].hay =>
                           ausencia'[peticion'[q].a].e # peticion'[s].e
    BY <1>1 DEF Descuenta
  <2>1. /\ q # r /\ En(q, "resolver") /\ peticion'[q] = peticion[q]
        /\ s # r /\ peticion'[s] = peticion[s]
    BY <1>1, <1>2
  <2>2. /\ ausencia'[peticion[q].a] = ausencia[peticion[q].a]
        /\ En(s, "resolver") =>
             ausencia'[peticion[s].a] = ausencia[peticion[s].a]
    BY <2>1
  <2>3. /\ En(s, "resolver")' => En(s, "resolver")
        /\ En(s, "asignar")' => En(s, "asignar")
        /\ Descuenta(q)' => Descuenta(q)
        /\ Descuenta(s)' => Descuenta(s)
    BY <1>1
  <2>4. Descuenta(s)' => En(s, "resolver")
    BY <2>3 DEF Descuenta
  <2> QED
    BY <1>0, <2>1, <2>2, <2>3, <2>4 DEF Decisiones
<1> QED
  BY <1>3, <1>4, <1>5 DEF Decisiones, Pendiente

(* What the requests left in flight need, when absences and balances stay.  *)
LEMMA SinTocarSaldos ==
  ASSUME IInv, NEW r \in Peticiones, Quedan(r), ausencia' = ausencia,
         saldo' = saldo
  PROVE  Ineditas' /\ Decisiones' /\ Asignaciones' /\ SaldoExacto'
<1>1. Ineditas'
  BY SinUna DEF IInv, Ineditas, Quedan, Solicitada
<1>2. Decisiones'
  BY DecisionesSiguen
<1>3. Asignaciones'
  BY SinUna DEF IInv, Asignaciones, Quedan
<1> QED
  BY <1>1, <1>2, <1>3, SaldoIgual

LEMMA SinTocarContratos ==
  ASSUME IInv, NEW r \in Peticiones, Quedan(r), contratos' = contratos
  PROVE  Versiones' /\ Calculos'
BY SinUna DEF IInv, Versiones, Calculos, Quedan, Posterior, Vigentes

LEMMA PasoRevierte ==
  ASSUME IInv, NEW r \in Peticiones, Revierte(r)
  PROVE  IInv'
<1> USE DEF IInv
<1>1. Quedan(r)
  BY AlTerminar DEF Revierte, Quedan
<1>2. /\ mesCerrado' = mesCerrado /\ periodo' = periodo
      /\ ausencia' = ausencia /\ saldo' = saldo /\ contratos' = contratos
      /\ haber' = haber /\ boleta' = boleta
  BY DEF Revierte, tablas
<1>3. TypeOK'
  BY <1>1, <1>2 DEF TypeOK, Quedan
<1>4. BoletaConHaber'
  BY <1>2 DEF BoletaConHaber, Calculado
<1> QED
  BY <1>1, <1>2, <1>3, <1>4, SinTocarSaldos, SinTocarContratos

LEMMA PasoEscribePedir ==
  ASSUME IInv, NEW r \in Peticiones, EscribePedir(r)
  PROVE  IInv'
<1> USE DEF IInv
<1>1. Quedan(r)
  BY AlTerminar DEF EscribePedir, Quedan
<1>2. PICK m \in Peticion : m = peticion[r]
  BY Formas
<1>3. /\ m.a \in IdsAusencia /\ m.e \in Empleados /\ m.ini \in Dias
      /\ m.fin \in Dias /\ m.tipo \in {"SIN_GOCE", "VACACION"}
      /\ ~ Solicitada(m.a)
  BY <1>2, Formas DEF EscribePedir, Ineditas
<1>4. PICK n : n = [estado |-> "PENDIENTE", e |-> m.e, ini |-> m.ini,
                    fin |-> m.fin, tipo |-> m.tipo, descontados |-> 0]
  OBVIOUS
<1>5. n \in Ausencia /\ n.estado = "PENDIENTE"
  BY <1>3, <1>4, Numeros DEF Ausencia
<1>6. /\ ausencia' = [ausencia EXCEPT ![m.a] = n]
      /\ mesCerrado' = mesCerrado /\ periodo' = periodo
      /\ saldo' = saldo /\ contratos' = contratos
      /\ haber' = haber /\ boleta' = boleta
  BY <1>2, <1>4 DEF EscribePedir
<1>7. /\ ausencia' \in [IdsAusencia -> Ausencia \cup {SinPedir}]
      /\ ausencia'[m.a] = n
      /\ \A a \in IdsAusencia : a # m.a => ausencia'[a] = ausencia[a]
  BY <1>3, <1>5, <1>6 DEF TypeOK
<1>8. TypeOK'
  BY <1>1, <1>6, <1>7 DEF TypeOK, Quedan
<1>9. Ineditas'
  <2>1. \A q \in Peticiones : q # r /\ En(q, "pedir") =>
          peticion[q].a \in IdsAusencia /\ peticion[q].a # m.a
    BY <1>2, Formas DEF Ineditas, EscribePedir
  <2> QED
    BY <1>1, <1>7, <2>1, SinUna DEF Ineditas, Quedan, Solicitada
<1>10. Decisiones'
  <2>1. \A q \in Peticiones : En(q, "resolver") =>
          peticion[q].a \in IdsAusencia /\ peticion[q].a # m.a
    BY <1>3, Formas DEF Decisiones, Pendiente, Solicitada
  <2>2. \A q \in Peticiones \ {r} : En(q, "resolver") =>
           ausencia'[peticion[q].a] = ausencia[peticion[q].a]
    BY <1>7, <2>1
  <2> QED
    BY <1>1, <1>6, <2>2, DecisionesSiguen
<1>11. Asignaciones'
  BY <1>1, <1>6, SinUna DEF Asignaciones, Quedan
<1>12. SaldoExacto'
  <2> SUFFICES ASSUME NEW e \in Empleados
               PROVE  /\ saldo'[e].usado =
                           SumFunctionOnSet(Descontados', Concedidas(e)')
                      /\ saldo'[e].usado <= saldo'[e].asignado
    BY DEF SaldoExacto
  <2>1. m.a \notin Concedidas(e)
    BY <1>3 DEF Concedidas
  <2>2. Concedidas(e)' = Concedidas(e)
    BY <1>3, <1>5, <1>7 DEF Concedidas, Solicitada
  <2>3. \A x \in Concedidas(e) : Descontados'[x] = Descontados[x]
    BY <1>7, <2>1 DEF Descontados, Concedidas, Solicitada
  <2> QED
    BY <1>6, <2>2, <2>3, SaldoSigue DEF SaldoExacto
<1>13. BoletaConHaber'
  BY <1>6 DEF BoletaConHaber, Calculado
<1> QED
  BY <1>1, <1>6, <1>8, <1>9, <1>10, <1>11, <1>12, <1>13, SinTocarContratos

LEMMA PasoEscribeResolver ==
  ASSUME IInv, NEW r \in Peticiones, EscribeResolver(r)
  PROVE  IInv'
<1> USE DEF IInv
<1>1. Quedan(r)
  BY AlTerminar DEF EscribeResolver, Quedan
<1>2. PICK m \in Peticion : m = peticion[r]
  BY Formas
<1>3. /\ m.a \in IdsAusencia /\ m.aprobar \in BOOLEAN
      /\ m.habiles \in 0 .. UltimoDia /\ m.usado \in 0 .. MaxSaldo
      /\ Pendiente(m.a)
  BY <1>2, Formas DEF EscribeResolver, Decisiones
<1>4. ausencia[m.a] \in Ausencia /\ ausencia[m.a].estado = "PENDIENTE"
  BY <1>3 DEF TypeOK, Pendiente, SinPedir
<1>5. PICK e \in Empleados : e = ausencia[m.a].e
  BY <1>4 DEF Ausencia
<1>6. PICK st \in {"APROBADA", "RECHAZADA"} :
        st = IF m.aprobar THEN "APROBADA" ELSE "RECHAZADA"
  OBVIOUS
(* The absence decided. *)
<1>7. PICK n1 : n1 = [ausencia[m.a] EXCEPT !.estado = st]
  OBVIOUS
<1>8. n1 \in Ausencia /\ n1.estado = st /\ n1.e = e
  BY <1>4, <1>5, <1>6, <1>7 DEF Ausencia
<1>9. PICK n : n = [n1 EXCEPT !.descontados = m.habiles]
  OBVIOUS
<1>10. n \in Ausencia /\ n.estado = st /\ n.e = e
       /\ n.descontados = m.habiles
  BY <1>3, <1>8, <1>9 DEF Ausencia
<1>11. n \in Ausencia \cup {SinPedir}
  BY <1>10
<1>12. PICK x : x = [ausencia EXCEPT ![m.a] = n]
  OBVIOUS
<1>13. ausencia' = x
  <2>1. PICK y : y = [ausencia EXCEPT ![m.a].estado = st]
    OBVIOUS
  <2>2. ausencia \in [IdsAusencia -> Ausencia \cup {SinPedir}]
    BY DEF TypeOK
  <2>3. y = [ausencia EXCEPT ![m.a] = n1]
    BY <1>7, <2>1
  <2>4. y[m.a] = n1
    BY <1>3, <2>2, <2>3
  <2>5. [y EXCEPT ![m.a].descontados = m.habiles] = [y EXCEPT ![m.a] = n]
    BY <1>9, <2>4
  <2>6. [y EXCEPT ![m.a] = n] = x
    BY <1>3, <1>12, <2>2, <2>3
  <2>7. ausencia' = [y EXCEPT ![m.a].descontados = m.habiles]
    BY <1>2, <1>6, <2>1 DEF EscribeResolver
  <2> QED
    BY <2>5, <2>6, <2>7

<1>14. /\ ausencia' \in [IdsAusencia -> Ausencia \cup {SinPedir}]
       /\ ausencia'[m.a] = n
       /\ \A a \in IdsAusencia : a # m.a => ausencia'[a] = ausencia[a]
  BY <1>3, <1>11, <1>12, <1>13 DEF TypeOK
<1>15. /\ mesCerrado' = mesCerrado /\ periodo' = periodo
       /\ contratos' = contratos /\ haber' = haber /\ boleta' = boleta
       /\ En(r, "resolver")
  BY DEF EscribeResolver
<1>16. m.habiles > 0 =>
         /\ Descuenta(r) /\ m.aprobar /\ saldo[e].hay
         /\ m.usado = saldo[e].usado
         /\ m.usado + m.habiles <= saldo[e].asignado
  BY <1>2, <1>5, <1>15 DEF Descuenta, Decisiones
(* The balance it takes days from. *)
<1>17. /\ saldo \in [Empleados -> Saldo] /\ saldo[e] \in Saldo
       /\ saldo[e].usado \in Nat /\ saldo[e].asignado \in 0 .. MaxSaldo
       /\ saldo[e].usado <= saldo[e].asignado
       /\ m.habiles \in Nat
  BY <1>3, Numeros DEF TypeOK, Saldo, SaldoExacto
<1>18. /\ saldo' \in [Empleados -> Saldo]
       /\ \A d \in Empleados : d # e => saldo'[d] = saldo[d]
       /\ saldo'[e].usado = saldo[e].usado + m.habiles
       /\ saldo'[e].asignado = saldo[e].asignado
       /\ saldo'[e].hay = saldo[e].hay
       /\ saldo'[e].usado <= saldo'[e].asignado
       /\ m.habiles = 0 => saldo' = saldo
  <2>1. CASE m.habiles = 0
    <3>1. saldo' = saldo
      BY <1>2, <2>1 DEF EscribeResolver
    <3> QED
      BY <1>17, <2>1, <3>1
  <2>2. CASE m.habiles > 0
    <3>1. PICK u : u = saldo[e].usado + m.habiles
      OBVIOUS
    <3>2. u \in 0 .. MaxSaldo /\ u <= saldo[e].asignado
      BY <1>16, <1>17, <2>2, <3>1, Numeros
    <3>3. saldo' = [saldo EXCEPT ![e].usado = u]
      BY <1>2, <1>5, <1>16, <2>2, <3>1 DEF EscribeResolver
    <3>4. PICK s : s = [saldo[e] EXCEPT !.usado = u]
      OBVIOUS
    <3>5. s \in Saldo /\ s.usado = u /\ s.hay = saldo[e].hay
          /\ s.asignado = saldo[e].asignado
      BY <1>17, <3>2, <3>4 DEF Saldo
    <3>6. saldo' = [saldo EXCEPT ![e] = s]
      BY <3>3, <3>4
    <3>7. /\ saldo' \in [Empleados -> Saldo] /\ saldo'[e] = s
          /\ \A d \in Empleados : d # e => saldo'[d] = saldo[d]
      BY <1>17, <3>5, <3>6
    <3> QED
      BY <2>2, <3>1, <3>2, <3>5, <3>7
  <2> QED
    BY <1>17, <2>1, <2>2
<1>19. TypeOK'
  BY <1>1, <1>14, <1>15, <1>18 DEF TypeOK, Quedan
<1>20. Ineditas'
  <2>1. \A q \in Peticiones : En(q, "pedir") =>
          peticion[q].a \in IdsAusencia /\ peticion[q].a # m.a
    BY <1>3, Formas DEF Ineditas, Pendiente, Solicitada
  <2> QED
    BY <1>1, <1>14, <2>1, SinUna DEF Ineditas, Quedan, Solicitada
(* The other decisions are of other absences, and take from other balances. *)
<1>21. \A q \in Peticiones \ {r} : En(q, "resolver") =>
         /\ peticion[q].a \in IdsAusencia /\ peticion[q].a # m.a
         /\ ausencia'[peticion[q].a] = ausencia[peticion[q].a]
         /\ ausencia[peticion[q].a].e \in Empleados
  <2> SUFFICES ASSUME NEW q \in Peticiones \ {r}, En(q, "resolver")
               PROVE  /\ peticion[q].a \in IdsAusencia
                      /\ peticion[q].a # m.a
                      /\ ausencia'[peticion[q].a] = ausencia[peticion[q].a]
                      /\ ausencia[peticion[q].a].e \in Empleados
    OBVIOUS
  <2>1. peticion[q].a \in IdsAusencia /\ peticion[q].a # m.a
        /\ Pendiente(peticion[q].a)
    BY <1>2, <1>15, Formas DEF Decisiones
  <2>2. ausencia[peticion[q].a] \in Ausencia
    BY <2>1 DEF TypeOK, Pendiente, SinPedir
  <2> QED
    BY <1>14, <2>1, <2>2 DEF Ausencia
<1>22. Decisiones'
  <2>1. \A q \in Peticiones \ {r} : Descuenta(q) =>
          /\ ausencia[peticion[q].a].e \in Empleados
          /\ m.habiles > 0 => ausencia[peticion[q].a].e # e
    BY <1>2, <1>5, <1>16, <1>21 DEF Decisiones, Descuenta
  <2>2. \A q \in Peticiones \ {r} : Descuenta(q) =>
          LET d == ausencia[peticion[q].a].e IN saldo'[d] = saldo[d]
    BY <1>17, <1>18, <2>1
  <2> QED
    BY <1>1, <1>21, <2>2, DecisionesSiguen
<1>23. Asignaciones'
  <2>1. \A q \in Peticiones : q # r /\ En(q, "asignar") /\ peticion[q].hay =>
          /\ peticion[q].e \in Empleados
          /\ m.habiles > 0 => peticion[q].e # e
    BY <1>2, <1>5, <1>15, <1>16, Formas DEF Decisiones
  <2>2. \A q \in Peticiones : q # r /\ En(q, "asignar") /\ peticion[q].hay =>
          LET d == peticion[q].e IN saldo'[d] = saldo[d]
    BY <1>17, <1>18, <2>1
  <2>3. \A d \in Empleados : ~ saldo'[d].hay => saldo'[d].usado = 0
    BY <1>16, <1>17, <1>18 DEF Asignaciones
  <2>4. \A q \in Peticiones : En(q, "asignar")' /\ peticion'[q].hay =>
          /\ q # r /\ En(q, "asignar") /\ peticion'[q] = peticion[q]
          /\ saldo'[peticion[q].e] = saldo[peticion[q].e]
    BY <1>1, <2>2, SinUna DEF Quedan
  <2> QED
    BY <2>3, <2>4 DEF Asignaciones
<1>24. SaldoExacto'
  <2> SUFFICES ASSUME NEW d \in Empleados
               PROVE  /\ saldo'[d].usado =
                           SumFunctionOnSet(Descontados', Concedidas(d)')
                      /\ saldo'[d].usado <= saldo'[d].asignado
    BY DEF SaldoExacto
  <2> DEFINE C == Concedidas(d)
  <2>1. m.a \notin C /\ C \in SUBSET IdsAusencia /\ IsFiniteSet(C)
    BY <1>4, FilasFinitas, FS_Subset DEF Concedidas
  <2>2. \A y \in C : Descontados'[y] = Descontados[y]
    BY <1>14, <2>1 DEF Descontados, Concedidas, Solicitada
  <2>3. CASE d = e /\ m.aprobar
    <3>1. C' = C \cup {m.a}
      BY <1>3, <1>6, <1>10, <1>14, <2>1, <2>3
         DEF Concedidas, Solicitada
    <3>2. Descontados' \in [IdsAusencia -> Nat]
      <4>1. \A a \in IdsAusencia : Solicitada(a)' =>
              ausencia'[a].descontados \in Nat
        BY <1>14, Numeros DEF Solicitada, Ausencia, SinPedir
      <4> QED
        BY <4>1 DEF Descontados
    <3>3. Descontados'[m.a] = m.habiles
      BY <1>3, <1>6, <1>10, <1>14 DEF Descontados, Solicitada
    <3>4. Suma(Descontados', C \cup {m.a}) = Suma(Descontados', C) + m.habiles
      BY <1>3, <2>1, <3>2, <3>3, SumaUnoMas
    <3>5. Suma(Descontados', C) = Suma(Descontados, C)
      BY <2>1, <2>2, SumaIgual
    <3>6. saldo[e].usado = Suma(Descontados, C)
      BY <2>3 DEF SaldoExacto, Suma
    <3> HIDE DEF C
    <3>7. Suma(Descontados', C') = saldo[e].usado + m.habiles
      BY <3>1, <3>4, <3>5, <3>6
    <3> QED
      BY <1>18, <2>3, <3>7 DEF Suma, C
  <2>4. CASE ~ (d = e /\ m.aprobar)
    <3>1. saldo'[d].usado = saldo[d].usado
          /\ saldo'[d].asignado = saldo[d].asignado
      <4>1. d = e => m.habiles = 0
        BY <1>16, <1>17, <2>4
      <4> QED
        BY <1>18, <4>1
    <3>2. Concedidas(d)' = Concedidas(d)
      <4>1. d = e => n.estado = "RECHAZADA"
        BY <1>6, <1>10, <2>4
      <4>2. m.a \notin C'
        BY <1>10, <1>14, <4>1 DEF Concedidas
      <4>3. \A a \in IdsAusencia \ {m.a} : a \in C' <=> a \in C
        BY <1>14 DEF Concedidas, Solicitada
      <4> QED
        BY <2>1, <4>2, <4>3 DEF Concedidas
    <3>3. saldo'[d].usado <= saldo'[d].asignado
      BY <3>1 DEF SaldoExacto
    <3> QED
      BY <2>2, <3>1, <3>2, <3>3, SaldoSigue
  <2> QED
    BY <2>3, <2>4
<1>25. BoletaConHaber'
  BY <1>15 DEF BoletaConHaber, Calculado
<1> QED
  BY <1>1, <1>15, <1>19, <1>20, <1>22, <1>23, <1>24, <1>25, SinTocarContratos

LEMMA PasoEscribeAsignar ==
  ASSUME IInv, NEW r \in Peticiones, EscribeAsignar(r)
  PROVE  IInv'
<1> USE DEF IInv
<1>1. Quedan(r)
  BY AlTerminar DEF EscribeAsignar, Quedan
<1>2. PICK m \in Peticion : m = peticion[r]
  BY Formas
<1>3. /\ m.e \in Empleados /\ m.hay \in BOOLEAN /\ m.dias \in 0 .. MaxSaldo
      /\ En(r, "asignar")
  BY <1>2, Formas DEF EscribeAsignar
<1>4. PICK e \in Empleados : e = m.e
  BY <1>3
<1>5. /\ mesCerrado' = mesCerrado /\ periodo' = periodo
      /\ ausencia' = ausencia /\ contratos' = contratos
      /\ haber' = haber /\ boleta' = boleta
  BY DEF EscribeAsignar
<1>6. /\ saldo \in [Empleados -> Saldo] /\ saldo[e] \in Saldo
      /\ saldo[e].usado \in Nat
  BY Numeros DEF TypeOK, Saldo
<1>7. ~ m.hay => ~ saldo[e].hay
  BY <1>2, <1>4 DEF EscribeAsignar
(* It covers what has been used. *)
<1>8. saldo[e].usado <= m.dias
  <2>1. m.hay => saldo[e].usado <= m.dias
    BY <1>2, <1>3, <1>4, <1>6, Numeros DEF Asignaciones
  <2>2. ~ m.hay => saldo[e].usado = 0
    BY <1>7 DEF Asignaciones
  <2> QED
    BY <1>3, <2>1, <2>2, Numeros
<1>9. PICK s1 : s1 = [saldo[e] EXCEPT !.hay = TRUE]
  OBVIOUS
<1>10. s1 \in Saldo /\ s1.hay /\ s1.usado = saldo[e].usado
  BY <1>6, <1>9 DEF Saldo
<1>11. PICK s : s = [s1 EXCEPT !.asignado = m.dias]
  OBVIOUS
<1>12. s \in Saldo /\ s.hay /\ s.usado = saldo[e].usado
       /\ s.asignado = m.dias
  BY <1>3, <1>10, <1>11 DEF Saldo
<1>13. saldo' = [saldo EXCEPT ![e] = s]
  <2>1. PICK y : y = [saldo EXCEPT ![e].hay = TRUE]
    OBVIOUS
  <2>2. y = [saldo EXCEPT ![e] = s1]
    BY <1>9, <2>1
  <2>3. y[e] = s1
    BY <1>6, <2>2
  <2>4. [y EXCEPT ![e].asignado = m.dias] = [y EXCEPT ![e] = s]
    BY <1>11, <2>3
  <2>5. [y EXCEPT ![e] = s] = [saldo EXCEPT ![e] = s]
    BY <1>6, <2>2
  <2>6. saldo' = [y EXCEPT ![e].asignado = m.dias]
    BY <1>2, <1>4, <2>1 DEF EscribeAsignar
  <2> QED
    BY <2>4, <2>5, <2>6
<1>14. /\ saldo' \in [Empleados -> Saldo] /\ saldo'[e] = s
       /\ \A d \in Empleados : d # e => saldo'[d] = saldo[d]
  BY <1>6, <1>12, <1>13
<1>15. TypeOK'
  BY <1>1, <1>5, <1>14 DEF TypeOK, Quedan
<1>16. Ineditas'
  BY <1>1, <1>5, SinUna DEF Ineditas, Quedan, Solicitada
<1>17. Decisiones'
  <2>1. \A q \in Peticiones \ {r} : Descuenta(q) =>
          /\ ausencia[peticion[q].a].e \in Empleados
          /\ saldo[ausencia[peticion[q].a].e].hay
          /\ m.hay => ausencia[peticion[q].a].e # e
    <3> SUFFICES ASSUME NEW q \in Peticiones \ {r}, Descuenta(q)
                 PROVE  /\ ausencia[peticion[q].a].e \in Empleados
                        /\ saldo[ausencia[peticion[q].a].e].hay
                        /\ m.hay => ausencia[peticion[q].a].e # e
      OBVIOUS
    <3>1. En(q, "resolver") /\ peticion[q].a \in IdsAusencia
          /\ Pendiente(peticion[q].a)
      BY Formas DEF Descuenta, Decisiones
    <3>2. ausencia[peticion[q].a] \in Ausencia
      BY <3>1 DEF TypeOK, Pendiente, SinPedir
    <3> QED
      BY <1>2, <1>3, <1>4, <3>1, <3>2 DEF Decisiones, Ausencia
  <2>2. \A q \in Peticiones \ {r} : Descuenta(q) =>
          LET d == ausencia[peticion[q].a].e IN saldo'[d] = saldo[d]
    BY <1>3, <1>7, <1>14, <2>1
  <2> QED
    BY <1>1, <1>5, <2>2, DecisionesSiguen
<1>18. Asignaciones'
  <2>1. \A d \in Empleados : ~ saldo'[d].hay => saldo'[d].usado = 0
    BY <1>12, <1>14 DEF Asignaciones
  <2>2. \A q \in Peticiones : En(q, "asignar")' /\ peticion'[q].hay =>
          /\ q # r /\ En(q, "asignar") /\ peticion'[q] = peticion[q]
    BY <1>1, SinUna DEF Quedan
  <2>3. \A q \in Peticiones : En(q, "asignar") /\ peticion[q].hay =>
          LET d == peticion[q].e
          IN  /\ d \in Empleados /\ saldo[d].hay
              /\ peticion[q].dias >= saldo[d].usado
    BY Formas DEF Asignaciones
  <2>4. \A d \in Empleados : saldo'[d].usado = saldo[d].usado
          /\ (saldo[d].hay => saldo'[d].hay)
    BY <1>12, <1>14
  <2> QED
    BY <2>1, <2>2, <2>3, <2>4 DEF Asignaciones
<1>19. SaldoExacto'
  <2>1. \A d \in Empleados : saldo'[d].usado = saldo[d].usado
          /\ saldo'[d].usado <= saldo'[d].asignado
    BY <1>8, <1>12, <1>14 DEF SaldoExacto
  <2>2. \A d \in Empleados : Concedidas(d)' = Concedidas(d)
    BY <1>5 DEF Concedidas, Solicitada
  <2>3. Descontados' = Descontados
    BY <1>5 DEF Descontados, Solicitada
  <2> QED
    BY <2>1, <2>2, <2>3 DEF SaldoExacto
<1>20. BoletaConHaber'
  BY <1>5 DEF BoletaConHaber, Calculado
<1> QED
  BY <1>1, <1>5, <1>15, <1>16, <1>17, <1>18, <1>19, <1>20, SinTocarContratos

(* The versions an employee has once m is one of them: those it replaces    *)
(* end the day before it starts.                                            *)
Reemplazadas(m) == {[c EXCEPT !.fin = m.ini - 1, !.estado = "REEMPLAZADO"] :
                      c \in Vigentes(m.e)}
Nueva(m) == [ini |-> m.ini, fin |-> m.fin,
             estado |-> IF m.fin < Hoy THEN "VENCIDO" ELSE "VIGENTE"]
TrasContrato(m) ==
  (contratos[m.e] \ Vigentes(m.e)) \cup Reemplazadas(m) \cup {Nueva(m)}

LEMMA PasoEscribeContrato ==
  ASSUME IInv, NEW r \in Peticiones, EscribeContrato(r)
  PROVE  IInv'
<1> USE DEF IInv
<1>1. Quedan(r)
  BY AlTerminar DEF EscribeContrato, Quedan
<1>2. PICK m \in Peticion : m = peticion[r]
  BY Formas
<1>3. /\ m.e \in Empleados /\ m.ini \in Fechas /\ m.fin \in Fechas
      /\ En(r, "contrato")
  BY <1>2, Formas DEF EscribeContrato
<1>4. PICK e \in Empleados : e = m.e
  BY <1>3
<1>5. /\ mesCerrado' = mesCerrado /\ periodo' = periodo
      /\ ausencia' = ausencia /\ saldo' = saldo
      /\ haber' = haber /\ boleta' = boleta
  BY DEF EscribeContrato
<1>6. Posterior(e, m.ini)
  BY <1>2, <1>3, <1>4 DEF Versiones
<1>7. contratos \in [Empleados -> SUBSET Contrato]
  BY DEF TypeOK
<1>8. Reemplazadas(m) \in SUBSET Contrato
  <2> SUFFICES ASSUME NEW c \in Vigentes(e)
               PROVE  [c EXCEPT !.fin = m.ini - 1,
                                !.estado = "REEMPLAZADO"] \in Contrato
    BY <1>4 DEF Reemplazadas
  <2>1. c \in Contrato /\ m.ini > c.ini
    BY <1>6, <1>7 DEF Vigentes, Posterior
  <2>2. m.ini - 1 \in Fechas
    BY <1>3, <2>1, Numeros DEF Fechas, Contrato
  <2>3. PICK d : d = [c EXCEPT !.fin = m.ini - 1]
    OBVIOUS
  <2>4. d \in Contrato
    BY <2>1, <2>2, <2>3 DEF Contrato
  <2>5. [d EXCEPT !.estado = "REEMPLAZADO"] \in Contrato
    BY <2>4 DEF Contrato
  <2> QED
    BY <2>3, <2>5
<1>9. Nueva(m) \in Contrato
  BY <1>3 DEF Contrato, Nueva
<1>10. TrasContrato(m) \in SUBSET Contrato
  BY <1>4, <1>7, <1>8, <1>9 DEF TrasContrato
<1>11. contratos' =
         [contratos EXCEPT ![peticion[r].e] = TrasContrato(peticion[r])]
  BY DEF EscribeContrato, TrasContrato, Reemplazadas, Nueva
<1>12. /\ contratos' \in [Empleados -> SUBSET Contrato]
       /\ \A d \in Empleados : d # e => contratos'[d] = contratos[d]
  BY <1>2, <1>4, <1>7, <1>10, <1>11
<1>13. TypeOK'
  BY <1>1, <1>5, <1>12 DEF TypeOK, Quedan
<1>14. Versiones'
  <2>1. \A q \in Peticiones : En(q, "contrato")' =>
          /\ q # r /\ En(q, "contrato") /\ peticion'[q] = peticion[q]
    BY <1>1, SinUna DEF Quedan
  <2>2. \A q \in Peticiones : q # r /\ En(q, "contrato") =>
          /\ peticion[q].e \in Empleados /\ peticion[q].e # e
    BY <1>2, <1>3, <1>4, Formas DEF Versiones
  <2>3. \A q \in Peticiones : En(q, "contrato")' =>
          Posterior(peticion[q].e, peticion[q].ini)'
    BY <1>12, <2>1, <2>2 DEF Versiones, Posterior, Vigentes
  <2> QED
    BY <2>1, <2>3 DEF Versiones, Posterior, Vigentes
<1>15. Calculos'
  BY <1>1, SinUna DEF Calculos, Quedan
<1>16. BoletaConHaber'
  BY <1>5 DEF BoletaConHaber, Calculado
<1> QED
  BY <1>1, <1>5, <1>13, <1>14, <1>15, <1>16, SinTocarSaldos

LEMMA PasoEscribeCalcular ==
  ASSUME IInv, NEW r \in Peticiones, EscribeCalcular(r)
  PROVE  IInv'
<1> USE DEF IInv
<1>1. Quedan(r)
  BY AlTerminar DEF EscribeCalcular, Quedan
<1>2. /\ mesCerrado' = mesCerrado /\ periodo' = "CALCULADO"
      /\ ausencia' = ausencia /\ saldo' = saldo /\ contratos' = contratos
      /\ haber' = peticion[r].haber /\ boleta' = peticion[r].boleta
      /\ En(r, "calcular")
  BY DEF EscribeCalcular
<1>3. TypeOK'
  <2>1. /\ haber' \in [Empleados -> Haber]
        /\ boleta' \in [Empleados -> 0 .. UltimoDia]
    BY <1>2, Formas
  <2> QED
    BY <1>1, <1>2, <2>1 DEF TypeOK, Quedan, EstadosPeriodo
<1>4. BoletaConHaber'
  BY <1>2 DEF BoletaConHaber, Calculos, PagaSuHaber
<1> QED
  BY <1>1, <1>2, <1>3, <1>4, SinTocarSaldos, SinTocarContratos

----------------------------------------------------------------------------
(* The steps that leave the requests alone. *)

LEMMA PasoSinPeticion ==
  ASSUME IInv, peticion' = peticion, ausencia' = ausencia, saldo' = saldo,
         contratos' = contratos
  PROVE  Ineditas' /\ Decisiones' /\ Asignaciones' /\ Versiones' /\ Calculos'
         /\ SaldoExacto'
<1>1. SaldoExacto'
  BY SaldoIgual
<1>2. Ineditas' /\ Asignaciones' /\ Calculos'
  BY DEF IInv, Ineditas, Asignaciones, Calculos, En, Solicitada
<1>3. Decisiones'
  BY DEF IInv, Decisiones, Descuenta, En, Pendiente
<1>4. Versiones'
  BY DEF IInv, Versiones, En, Posterior, Vigentes
<1> QED
  BY <1>1, <1>2, <1>3, <1>4

LEMMA PasoRegistraHaber ==
  ASSUME IInv, NEW e \in Empleados, NEW n \in Dias, RegistraHaber(e, n)
  PROVE  IInv'
<1> USE DEF IInv
<1>1. /\ mesCerrado' = mesCerrado /\ periodo' = periodo
      /\ ausencia' = ausencia /\ saldo' = saldo /\ contratos' = contratos
      /\ boleta' = boleta /\ peticion' = peticion
      /\ periodo = "ABIERTO"
  BY DEF RegistraHaber, Registrable
<1>2. PICK h : h = [dias |-> n, auto |-> FALSE]
  OBVIOUS
<1>3. h \in Haber
  BY <1>2, Numeros DEF Haber, Dias
<1>4. haber' = [haber EXCEPT ![e] = h]
  BY <1>2 DEF RegistraHaber
<1>5. TypeOK'
  BY <1>1, <1>3, <1>4 DEF TypeOK
<1>6. BoletaConHaber'
  BY <1>1 DEF BoletaConHaber, Calculado
<1> QED
  BY <1>1, <1>5, <1>6, PasoSinPeticion

LEMMA PasoDelPeriodo ==
  ASSUME IInv, Abrir \/ Aprobar \/ TerminaElMes \/ UNCHANGED vars
  PROVE  IInv'
<1> USE DEF IInv
<1>1. /\ ausencia' = ausencia /\ saldo' = saldo /\ contratos' = contratos
      /\ haber' = haber /\ boleta' = boleta /\ peticion' = peticion
      /\ periodo' = periodo \/ periodo' = "ABIERTO"
         \/ (periodo' = "APROBADO" /\ periodo = "CALCULADO")
      /\ mesCerrado' \in BOOLEAN
  BY DEF Abrir, Aprobar, TerminaElMes, vars, tablas, TypeOK
<1>2. TypeOK'
  BY <1>1 DEF TypeOK, EstadosPeriodo
<1>3. BoletaConHaber'
  BY <1>1 DEF BoletaConHaber, Calculado
<1> QED
  BY <1>1, <1>2, <1>3, PasoSinPeticion

LEMMA PasoLee ==
  ASSUME IInv, NEW r \in Peticiones, Lee(r)
  PROVE  IInv'
BY PasoLeePedir, PasoLeeResolver, PasoLeeAsignar, PasoLeeContrato,
   PasoLeeCalcular DEF Lee

LEMMA PasoEscribe ==
  ASSUME IInv, NEW r \in Peticiones, Escribe(r)
  PROVE  IInv'
BY PasoEscribePedir, PasoEscribeResolver, PasoEscribeAsignar,
   PasoEscribeContrato, PasoEscribeCalcular DEF Escribe

LEMMA Paso == IInv /\ [Next]_vars => IInv'
BY PasoLee, PasoEscribe, PasoRevierte, PasoRegistraHaber, PasoDelPeriodo
   DEF Next

(* The argument: whatever is in flight holds what it is about to change, so *)
(* what it read is still so when it commits.                                *)
THEOREM Invariante == Spec => []IInv
BY AlEmpezar, Paso, PTL DEF Spec

----------------------------------------------------------------------------
(* The variables keep their types.                                          *)
THEOREM Tipos == Spec => []TypeOK
<1>1. IInv => TypeOK
  BY DEF IInv
<1> QED
  BY <1>1, Invariante, PTL

(* An employee's balance is always the sum of the days of the vacation      *)
(* granted, and never more than was assigned, whatever decisions and        *)
(* reassignments overlap.                                                   *)
THEOREM SaldoSiempreExacto == Spec => []SaldoExacto
<1>1. IInv => SaldoExacto
  BY DEF IInv
<1> QED
  BY <1>1, Invariante, PTL

(* A calculated month pays the partial pay on record, or the full month.    *)
THEOREM BoletaSiempreConHaber == Spec => []BoletaConHaber
<1>1. IInv => BoletaConHaber
  BY DEF IInv
<1> QED
  BY <1>1, Invariante, PTL
=============================================================================
