------------------------- MODULE AsistenciaProofs -------------------------
(***************************************************************************)
(* Proofs about Asistencia, for any number of employees, days, overtime    *)
(* hours, amounts and requests in flight.                                  *)
(*                                                                         *)
(* A request that found no period to lock may commit after the month was   *)
(* opened and calculated, so the locks alone do not protect the payroll.   *)
(* What does is that the overtime and the corrections such a request could *)
(* decide are themselves pending, and a month with something pending is    *)
(* not calculated: LoHallado keeps what each request found, SinEnVuelo     *)
(* draws the conclusion.                                                   *)
(***************************************************************************)
EXTENDS Asistencia, TLAPS

----------------------------------------------------------------------------
(* The inductive invariant. *)

(* Two requests in flight never hold the same attendance, nor decide the    *)
(* same correction.                                                         *)
Ajenas ==
  \A r, s \in Peticiones : r # s =>
    /\ EsAjuste(r) /\ EsAjuste(s) /\ peticion[r].fila /\ peticion[s].fila
         => peticion[r].f # peticion[s].f
    /\ En(r, "resolverCorreccion") /\ En(s, "resolverCorreccion")
         => peticion[r].f # peticion[s].f

(* What the request m found is so.  A calculation found every overtime      *)
(* decided, so it pays what is authorised.                                  *)
Hallado(m) ==
  /\ m.op = "pedirCorreccion" /\ m.fila => autorizacion[m.f].estado = "NINGUNA"
  /\ m.op = "resolverCorreccion" =>
       Corrigiendo(m.f) /\ m.fila = correccion[m.f].conFichaje
  /\ m.op = "pedirExtra" =>
       /\ autorizacion[m.f].estado = "NINGUNA"
       /\ Cerrado(m.f) /\ SinCorreccion(m.f)
       /\ 0 < m.horas /\ m.horas <= fichaje[m.f].extra
  /\ m.op = "jefe" => autorizacion[m.f].estado = "JEFE_PENDIENTE"
  /\ m.op = "rrhh" => autorizacion[m.f].estado = "RRHH_PENDIENTE"
  /\ m.op \in {"pedirExtra", "jefe", "rrhh"} => m.fila
  /\ m.op = "calcular" =>
       /\ periodo \in {"ABIERTO", "CALCULADO"}
       /\ \A f \in Fichajes :
            m.pagado[f] = IF Autorizado(f) THEN autorizacion[f].monto ELSE 0
LoHallado == \A r \in Peticiones : Hallado(peticion[r])

(* An attendance whose correction is pending has no overtime request, and   *)
(* an overtime request is for some of the hours of a closed attendance.     *)
Aparte(f) == Corrigiendo(f) /\ correccion[f].conFichaje =>
  autorizacion[f].estado = "NINGUNA"
Fichadas(f) == autorizacion[f].estado # "NINGUNA" =>
  /\ Cerrado(f)
  /\ 0 < autorizacion[f].horas /\ autorizacion[f].horas <= fichaje[f].extra
Coherente == \A f \in Fichajes : Aparte(f) /\ Fichadas(f)

(* While a month is calculated, and after it, no overtime waits for a       *)
(* decision and no request in flight decides something of the month.        *)
Decisiones == {"resolverCorreccion", "pedirExtra", "jefe", "rrhh"}
SinEnVuelo ==
  Calculado \/ (\E r \in Peticiones : En(r, "calcular")) =>
    /\ \A s \in Peticiones : peticion[s].op \notin Decisiones
    /\ \A f \in Fichajes :
         autorizacion[f].estado \notin {"JEFE_PENDIENTE", "RRHH_PENDIENTE"}

IInv ==
  /\ TypeOK
  /\ Ajenas
  /\ LoHallado
  /\ Coherente
  /\ SinEnVuelo
  /\ PagaLoAutorizado

----------------------------------------------------------------------------
(* Every initial state satisfies the invariant.                             *)
LEMMA AlEmpezar == Init => IInv
<1> SUFFICES ASSUME Init PROVE IInv
  OBVIOUS
<1>1. TypeOK
  <2>1. 2 \in Instantes /\ 0 \in Horas
    BY DiasPositivos, ExtraNatural DEF Instantes, Horas
  <2>2. /\ SinFichar \in Fichaje /\ SinCorregir \in Correccion
        /\ SinAutorizar \in Autorizacion
    BY <2>1 DEF SinFichar, SinCorregir, SinAutorizar, Fichaje, Correccion,
       Autorizacion
  <2> QED
    BY <2>1, <2>2 DEF Init, TypeOK, EstadosPeriodo, Peticion
<1>2. Ajenas /\ LoHallado
  BY DEF Init, Ajenas, LoHallado, Hallado, En, EsAjuste, Reposo
<1>3. Coherente
  BY DEF Init, Coherente, Aparte, Fichadas, SinAutorizar
<1>4. SinEnVuelo /\ PagaLoAutorizado
  BY DEF Init, SinEnVuelo, PagaLoAutorizado, Calculado, En, Reposo
<1> QED
  BY <1>1, <1>2, <1>3, <1>4 DEF IInv

(* The fields of a request in flight.                                       *)
LEMMA Campos ==
  ASSUME TypeOK, NEW r \in Peticiones
  PROVE  LET m == peticion[r] IN
         /\ m.op # "libre" /\ m.op # "calcular" =>
              m.f \in Fichajes /\ m.fila \in BOOLEAN /\ m.hay \in BOOLEAN
         /\ m.op = "pedirCorreccion" => m.extra \in Horas
         /\ m.op \in {"resolverCorreccion", "jefe", "rrhh"} =>
              m.aprobar \in BOOLEAN
         /\ m.op = "pedirExtra" => m.horas \in Horas
         /\ m.op = "rrhh" => m.monto \in Montos
         /\ m.op = "calcular" => m.pagado \in [Fichajes -> Montos \cup {0}]
         /\ m.op \in {"libre", "pedirCorreccion", "calcular"} \cup Decisiones
<1>1. peticion[r] \in Peticion
  BY DEF TypeOK
<1> QED
  BY <1>1 DEF Peticion, Ajuste, Reposo, Decisiones

(* The fields of the rows.                                                  *)
LEMMA Filas ==
  ASSUME TypeOK, NEW f \in Fichajes
  PROVE  /\ fichaje[f].estado \in {"NINGUNO", "ABIERTO", "CERRADO"}
         /\ fichaje[f].extra \in Nat
         /\ correccion[f].conFichaje \in BOOLEAN
         /\ correccion[f].extra \in Horas
         /\ autorizacion[f].estado \in
              {"NINGUNA", "JEFE_PENDIENTE", "RRHH_PENDIENTE", "AUTORIZADO",
               "RECHAZADO"}
         /\ autorizacion[f].horas \in Horas
         /\ autorizacion[f].monto \in Montos \cup {0}
<1>1. /\ fichaje[f] \in Fichaje /\ correccion[f] \in Correccion
      /\ autorizacion[f] \in Autorizacion
  BY DEF TypeOK
<1>2. Horas \subseteq Nat
  BY ExtraNatural DEF Horas
<1> QED
  BY <1>1, <1>2 DEF Fichaje, Correccion, Autorizacion

----------------------------------------------------------------------------
(* A reading step writes no table: it starts one request in a free slot,    *)
(* and what that request found is so.  A decision of the boss or of human   *)
(* resources, and a request with the attendance, hold a row nobody held; it *)
(* starts only if the month is neither calculated nor being so, and a       *)
(* calculation only if nothing of the month waits.                          *)
Fresca(r, m) ==
  /\ peticion' = [peticion EXCEPT ![r] = m]
  /\ Hallado(m)
  /\ m.op # "calcular" /\ m.fila => FichajeLibre(m.f)
  /\ m.op = "resolverCorreccion" => CorreccionLibre(m.f)
  /\ m.op # "calcular" =>
       ~ Calculado /\ \A s \in Peticiones : ~ En(s, "calcular")
  /\ m.op = "calcular" => \A f \in Fichajes : Completo(f)

(* An editable period is not calculated, nor being so.                      *)
LEMMA EditableAbierto ==
  ASSUME LoHallado, NEW hay, Editable(hay)
  PROVE  ~ Calculado /\ \A s \in Peticiones : ~ En(s, "calcular")
BY DEF Editable, PeriodoLibre, Calculado, LoHallado, Hallado, En

(* What a complete month pays is what was authorised.                       *)
LEMMA PagoCompleto ==
  ASSUME TypeOK, Coherente, NEW f \in Fichajes
  PROVE  AlPago(f) = IF Autorizado(f) THEN autorizacion[f].monto ELSE 0
<1>1. Autorizado(f) => Cerrado(f) /\ fichaje[f].extra > 0
  BY Filas, ExtraNatural DEF Coherente, Fichadas, Autorizado, Horas
<1> QED
  BY <1>1 DEF AlPago

LEMMA LecturaFresca ==
  ASSUME IInv, NEW r \in Peticiones, Lee(r)
  PROVE  /\ UNCHANGED <<reloj, tablas>>
         /\ \E m \in Peticion : m # Reposo /\ Fresca(r, m)
<1> USE DEF IInv
<1>1. ASSUME NEW f \in Fichajes, NEW hay \in BOOLEAN, NEW b \in BOOLEAN,
             NEW x \in Horas, LeePedirCorreccion(r, f, b, hay, x)
      PROVE  /\ UNCHANGED <<reloj, tablas>>
             /\ \E m \in Peticion : m # Reposo /\ Fresca(r, m)
  <2> DEFINE m == [op |-> "pedirCorreccion", f |-> f, fila |-> b, hay |-> hay,
                   extra |-> x]
  <2>1. m \in Peticion /\ m # Reposo
    BY DEF Peticion, Ajuste, Reposo
  <2>2. Hallado(m)
    BY <1>1 DEF LeePedirCorreccion, Hallado
  <2>3. Fresca(r, m) /\ UNCHANGED <<reloj, tablas>>
    BY <1>1, <2>2, EditableAbierto DEF LeePedirCorreccion, Fresca, Empieza
  <2> QED
    BY <2>1, <2>3
<1>2. ASSUME NEW f \in Fichajes, NEW hay \in BOOLEAN, NEW b \in BOOLEAN,
             LeeResolverCorreccion(r, f, hay, b)
      PROVE  /\ UNCHANGED <<reloj, tablas>>
             /\ \E m \in Peticion : m # Reposo /\ Fresca(r, m)
  <2> DEFINE m == [op |-> "resolverCorreccion", f |-> f,
                   fila |-> correccion[f].conFichaje, hay |-> hay,
                   aprobar |-> b]
  <2>1. m \in Peticion /\ m # Reposo
    BY Filas DEF Peticion, Ajuste, Reposo
  <2>2. Hallado(m)
    BY <1>2 DEF LeeResolverCorreccion, Hallado
  <2>3. Fresca(r, m) /\ UNCHANGED <<reloj, tablas>>
    BY <1>2, <2>2, EditableAbierto DEF LeeResolverCorreccion, Fresca, Empieza
  <2> QED
    BY <2>1, <2>3
<1>3. ASSUME NEW f \in Fichajes, NEW hay \in BOOLEAN, NEW h \in Horas,
             LeePedirExtra(r, f, hay, h)
      PROVE  /\ UNCHANGED <<reloj, tablas>>
             /\ \E m \in Peticion : m # Reposo /\ Fresca(r, m)
  <2> DEFINE m == [op |-> "pedirExtra", f |-> f, fila |-> TRUE, hay |-> hay,
                   horas |-> h]
  <2>1. m \in Peticion /\ m # Reposo
    BY DEF Peticion, Ajuste, Reposo
  <2>2. Hallado(m)
    <3>1. h > 0 => 0 < h
      BY ExtraNatural DEF Horas
    <3> QED
      BY <1>3, <3>1 DEF LeePedirExtra, Hallado
  <2>3. Fresca(r, m) /\ UNCHANGED <<reloj, tablas>>
    BY <1>3, <2>2, EditableAbierto DEF LeePedirExtra, Fresca, Empieza
  <2> QED
    BY <2>1, <2>3
<1>4. ASSUME NEW f \in Fichajes, NEW hay \in BOOLEAN, NEW b \in BOOLEAN,
             LeeJefe(r, f, hay, b)
      PROVE  /\ UNCHANGED <<reloj, tablas>>
             /\ \E m \in Peticion : m # Reposo /\ Fresca(r, m)
  <2> DEFINE m == [op |-> "jefe", f |-> f, fila |-> TRUE, hay |-> hay,
                   aprobar |-> b]
  <2>1. m \in Peticion /\ m # Reposo
    BY DEF Peticion, Ajuste, Reposo
  <2>2. Hallado(m)
    BY <1>4 DEF LeeJefe, Hallado
  <2>3. Fresca(r, m) /\ UNCHANGED <<reloj, tablas>>
    BY <1>4, <2>2, EditableAbierto DEF LeeJefe, Fresca, Empieza
  <2> QED
    BY <2>1, <2>3
<1>5. ASSUME NEW f \in Fichajes, NEW hay \in BOOLEAN, NEW b \in BOOLEAN,
             NEW a \in Montos, LeeRrhh(r, f, hay, b, a)
      PROVE  /\ UNCHANGED <<reloj, tablas>>
             /\ \E m \in Peticion : m # Reposo /\ Fresca(r, m)
  <2> DEFINE m == [op |-> "rrhh", f |-> f, fila |-> TRUE, hay |-> hay,
                   aprobar |-> b, monto |-> a]
  <2>1. m \in Peticion /\ m # Reposo
    BY DEF Peticion, Ajuste, Reposo
  <2>2. Hallado(m)
    BY <1>5 DEF LeeRrhh, Hallado
  <2>3. Fresca(r, m) /\ UNCHANGED <<reloj, tablas>>
    BY <1>5, <2>2, EditableAbierto DEF LeeRrhh, Fresca, Empieza
  <2> QED
    BY <2>1, <2>3
<1>6. ASSUME LeeCalcular(r)
      PROVE  /\ UNCHANGED <<reloj, tablas>>
             /\ \E m \in Peticion : m # Reposo /\ Fresca(r, m)
  <2> DEFINE m == [op |-> "calcular", pagado |-> [f \in Fichajes |-> AlPago(f)]]
  <2>1. m \in Peticion /\ m # Reposo
    <3>1. \A f \in Fichajes : AlPago(f) \in Montos \cup {0}
      BY Filas DEF AlPago
    <3> QED
      BY <3>1 DEF Peticion, Reposo
  <2>2. Hallado(m)
    BY <1>6, PagoCompleto DEF LeeCalcular, Hallado
  <2>3. Fresca(r, m) /\ UNCHANGED <<reloj, tablas>>
    BY <1>6, <2>2 DEF LeeCalcular, Fresca, Empieza
  <2> QED
    BY <2>1, <2>3
<1> QED
  BY <1>1, <1>2, <1>3, <1>4, <1>5, <1>6 DEF Lee

----------------------------------------------------------------------------
(* What the steps have in common. *)

(* A request that ends leaves the others theirs.                            *)
LEMMA AlTerminar ==
  ASSUME TypeOK, Ajenas, NEW r \in Peticiones, Termina(r)
  PROVE  /\ Ajenas'
         /\ peticion' \in [Peticiones -> Peticion]
         /\ \A s \in Peticiones :
              peticion'[s] = IF s = r THEN Reposo ELSE peticion[s]
BY DEF TypeOK, Ajenas, Termina, Reposo, En, EsAjuste, Peticion

(* A step that leaves an attendance, its correction and its authorisation   *)
(* alone leaves so what a request about it found.                           *)
LEMMA SigueHallado ==
  ASSUME TypeOK, LoHallado, NEW s \in Peticiones, peticion'[s] = peticion[s],
         En(s, "calcular") =>
           UNCHANGED autorizacion /\ periodo' \in {"ABIERTO", "CALCULADO"},
         peticion[s].op \in Decisiones \cup {"pedirCorreccion"} =>
           LET f == peticion[s].f IN
           /\ autorizacion'[f] = autorizacion[f]
           /\ peticion[s].op \in {"resolverCorreccion", "pedirExtra"} =>
                correccion'[f] = correccion[f]
           /\ En(s, "pedirExtra") => fichaje'[f] = fichaje[f]
  PROVE  Hallado(peticion[s])'
BY DEF LoHallado, Hallado, En, Corrigiendo, Cerrado, SinCorreccion, Autorizado,
   Decisiones

(* A calculated month stays as it is while no authorisation changes.        *)
LEMMA SiguePago ==
  ASSUME PagaLoAutorizado, UNCHANGED <<autorizacion, pagado>>,
         Calculado' => Calculado
  PROVE  PagaLoAutorizado'
BY DEF PagaLoAutorizado, Autorizado

LEMMA SigueSinEnVuelo ==
  ASSUME SinEnVuelo, UNCHANGED autorizacion, Calculado' => Calculado,
         \A s \in Peticiones : peticion'[s] \in {Reposo, peticion[s]}
  PROVE  SinEnVuelo'
BY DEF SinEnVuelo, En, Reposo, Decisiones

----------------------------------------------------------------------------
(* The steps. *)

(* Reading preserves the invariant: the new request holds rows nobody held, *)
(* and a request that can decide something finds a month that is open, or   *)
(* not opened yet.                                                          *)
LEMMA PasoLee ==
  ASSUME IInv, NEW r \in Peticiones, Lee(r)
  PROVE  IInv'
<1> USE DEF IInv
<1>1. PICK m \in Peticion : m # Reposo /\ Fresca(r, m)
  BY LecturaFresca
<1>2. /\ UNCHANGED <<reloj, periodo, fichaje, correccion, autorizacion, pagado>>
      /\ \A s \in Peticiones :
           peticion'[s] = IF s = r THEN m ELSE peticion[s]
  BY <1>1, LecturaFresca DEF tablas, TypeOK, Fresca
<1>3. TypeOK'
  BY <1>1, <1>2 DEF TypeOK, Fresca
<1>4. Ajenas'
  <2>1. m.op # "calcular" /\ m.fila => FichajeLibre(m.f)
    BY <1>1 DEF Fresca
  <2>2. m.op = "resolverCorreccion" => CorreccionLibre(m.f)
    BY <1>1 DEF Fresca
  <2> QED
    BY <1>2, <2>1, <2>2 DEF Ajenas, FichajeLibre, CorreccionLibre, En, EsAjuste
<1>5. LoHallado'
  <2> SUFFICES ASSUME NEW s \in Peticiones PROVE Hallado(peticion[s])'
    BY DEF LoHallado
  <2>1. CASE s = r
    BY <2>1, <1>1, <1>2 DEF Fresca, Hallado, Corrigiendo, Cerrado,
       SinCorreccion, Autorizado
  <2>2. CASE s # r
    <3>1. peticion'[s] = peticion[s] /\ Hallado(peticion[s])
      BY <1>2, <2>2 DEF LoHallado
    <3> QED
      BY <1>2, <3>1 DEF Hallado, Corrigiendo, Cerrado, SinCorreccion,
         Autorizado
  <2> QED
    BY <2>1, <2>2
<1>6. Coherente' /\ PagaLoAutorizado'
  BY <1>2 DEF Coherente, Aparte, Fichadas, PagaLoAutorizado, Calculado,
     Corrigiendo, Cerrado, Autorizado
<1>7. SinEnVuelo'
  <2>1. CASE m.op = "calcular"
    <3>1. \A f \in Fichajes : Completo(f)
      BY <2>1, <1>1 DEF Fresca
    <3>2. ASSUME NEW f \in Fichajes
          PROVE  autorizacion[f].estado \notin
                   {"JEFE_PENDIENTE", "RRHH_PENDIENTE"}
      <4>1. autorizacion[f].estado # "NINGUNA" =>
              Cerrado(f) /\ fichaje[f].extra > 0
        BY Filas, ExtraNatural DEF Coherente, Fichadas, Horas
      <4> QED
        BY <3>1, <4>1 DEF Completo, Decidido
    <3>3. ASSUME NEW s \in Peticiones, peticion[s].op \in Decisiones
          PROVE  FALSE
      <4>1. PICK f \in Fichajes : f = peticion[s].f
        BY <3>3, Campos DEF Decisiones
      <4>2. ~ En(s, "resolverCorreccion")
        BY <3>1, <4>1 DEF LoHallado, Hallado, Completo, En
      <4>3. ~ En(s, "jefe") /\ ~ En(s, "rrhh")
        BY <3>2, <4>1 DEF LoHallado, Hallado, En
      <4>4. ~ En(s, "pedirExtra")
        <5> SUFFICES ASSUME En(s, "pedirExtra") PROVE FALSE
          OBVIOUS
        <5>1. /\ autorizacion[f].estado = "NINGUNA" /\ Cerrado(f)
              /\ 0 < peticion[s].horas /\ peticion[s].horas <= fichaje[f].extra
              /\ peticion[s].horas \in Horas
          BY <4>1, Campos DEF LoHallado, Hallado, En
        <5>2. fichaje[f].extra > 0
          BY <5>1, Filas, ExtraNatural DEF Horas
        <5> QED
          BY <3>1, <5>1, <5>2 DEF Completo, Decidido
      <4> QED
        BY <3>3, <4>2, <4>3, <4>4 DEF Decisiones, En
    <3> QED
      BY <2>1, <1>2, <3>2, <3>3 DEF SinEnVuelo, Decisiones
  <2>2. CASE m.op # "calcular"
    <3>1. ~ Calculado /\ \A s \in Peticiones : ~ En(s, "calcular")
      BY <2>2, <1>1 DEF Fresca
    <3> QED
      BY <2>2, <3>1, <1>2 DEF SinEnVuelo, Calculado, En
  <2> QED
    BY <2>1, <2>2
<1> QED
  BY <1>3, <1>4, <1>5, <1>6, <1>7

(* A correction is requested for an attendance without overtime request,    *)
(* which the row lock keeps so; or for none, and then it is never applied   *)
(* over one that appeared meanwhile.                                        *)
LEMMA PasoPedirCorreccion ==
  ASSUME IInv, NEW r \in Peticiones, EscribePedirCorreccion(r)
  PROVE  IInv'
<1> USE DEF IInv
<1>1. PICK m : m = peticion[r]
  OBVIOUS
<1>2. /\ m.f \in Fichajes /\ m.fila \in BOOLEAN /\ m.extra \in Horas
      /\ m.op = "pedirCorreccion" /\ ~ Corrigiendo(m.f)
      /\ m.fila => autorizacion[m.f].estado = "NINGUNA"
  BY <1>1, Campos DEF EscribePedirCorreccion, En, LoHallado, Hallado
<1>3. /\ correccion' = [correccion EXCEPT ![m.f] =
           [estado |-> "PENDIENTE", conFichaje |-> m.fila, extra |-> m.extra]]
      /\ Termina(r)
      /\ UNCHANGED <<reloj, periodo, fichaje, autorizacion, pagado>>
  BY <1>1 DEF EscribePedirCorreccion
<1>4. \A f \in Fichajes : correccion'[f] = IF f = m.f
        THEN [estado |-> "PENDIENTE", conFichaje |-> m.fila, extra |-> m.extra]
        ELSE correccion[f]
  BY <1>3 DEF TypeOK
<1>5. /\ Ajenas'
      /\ peticion' \in [Peticiones -> Peticion]
      /\ \A s \in Peticiones :
           peticion'[s] = IF s = r THEN Reposo ELSE peticion[s]
  BY <1>3, AlTerminar
<1>6. TypeOK'
  <2>1. [estado |-> "PENDIENTE", conFichaje |-> m.fila, extra |-> m.extra]
          \in Correccion
    BY <1>2 DEF Correccion
  <2> QED
    BY <2>1, <1>2, <1>3, <1>5 DEF TypeOK
<1>7. LoHallado'
  <2> SUFFICES ASSUME NEW s \in Peticiones PROVE Hallado(peticion[s])'
    BY DEF LoHallado
  <2>1. CASE s = r
    BY <2>1, <1>5 DEF Hallado, Reposo
  <2>2. CASE s # r /\ peticion[s].op # "pedirExtra"
    <3>1. peticion[s].op = "resolverCorreccion" => peticion[s].f # m.f
      BY <1>2 DEF LoHallado, Hallado
    <3>2. peticion'[s] = peticion[s] /\ Hallado(peticion[s])
      BY <2>2, <1>5 DEF LoHallado
    <3> QED
      BY <2>2, <3>1, <3>2, <1>3, <1>4, SigueHallado, Campos
         DEF Hallado, En, Decisiones
  <2>3. CASE s # r /\ peticion[s].op = "pedirExtra"
    <3>1. m.fila => peticion[s].f # m.f
      BY <2>3, <1>1, <1>2 DEF Ajenas, EsAjuste, LoHallado, Hallado
    <3>2. peticion[s].f \in Fichajes
      BY <2>3, Campos
    <3>3. peticion'[s] = peticion[s] /\ Hallado(peticion[s])
      BY <2>3, <1>5 DEF LoHallado
    <3> QED
      BY <2>3, <3>1, <3>2, <3>3, <1>3, <1>4 DEF Hallado, Cerrado,
         SinCorreccion, Corrigiendo
  <2> QED
    BY <2>1, <2>2, <2>3
<1>8. Coherente'
  BY <1>2, <1>3, <1>4 DEF Coherente, Aparte, Fichadas, Corrigiendo, Cerrado
<1>9. SinEnVuelo' /\ PagaLoAutorizado'
  BY <1>3, <1>5, SigueSinEnVuelo, SiguePago DEF Calculado
<1> QED
  BY <1>5, <1>6, <1>7, <1>8, <1>9

(* A correction is applied to an attendance without overtime request: its   *)
(* own, which the lock kept so, or one that was missing and still is.       *)
LEMMA PasoResolverCorreccion ==
  ASSUME IInv, NEW r \in Peticiones, EscribeResolverCorreccion(r)
  PROVE  IInv'
<1> USE DEF IInv
<1>1. PICK m : m = peticion[r]
  OBVIOUS
<1>2. /\ m.f \in Fichajes /\ m.fila \in BOOLEAN /\ m.aprobar \in BOOLEAN
      /\ m.op = "resolverCorreccion" /\ Corrigiendo(m.f)
      /\ m.fila = correccion[m.f].conFichaje
      /\ m.aprobar /\ ~ m.fila => fichaje[m.f].estado = "NINGUNO"
  BY <1>1, Campos DEF EscribeResolverCorreccion, En, LoHallado, Hallado
<1>3. m.aprobar => autorizacion[m.f].estado = "NINGUNA"
  BY <1>2 DEF Coherente, Aparte, Fichadas, Cerrado
<1>4. /\ fichaje' \in [Fichajes -> Fichaje]
      /\ \A f \in Fichajes : f # m.f \/ ~ m.aprobar => fichaje'[f] = fichaje[f]
      /\ correccion' = [correccion EXCEPT ![m.f] = SinCorregir]
      /\ Termina(r)
      /\ UNCHANGED <<reloj, periodo, autorizacion, pagado>>
  <2>1. [estado |-> "CERRADO", extra |-> correccion[m.f].extra] \in Fichaje
    BY <1>2, Filas DEF Fichaje
  <2> QED
    BY <2>1, <1>1, <1>2 DEF EscribeResolverCorreccion, TypeOK
<1>5. \A f \in Fichajes :
        correccion'[f] = IF f = m.f THEN SinCorregir ELSE correccion[f]
  BY <1>4 DEF TypeOK
<1>6. /\ Ajenas'
      /\ peticion' \in [Peticiones -> Peticion]
      /\ \A s \in Peticiones :
           peticion'[s] = IF s = r THEN Reposo ELSE peticion[s]
  BY <1>4, AlTerminar
<1>7. TypeOK'
  <2>1. SinCorregir \in Correccion
    BY ExtraNatural DEF SinCorregir, Correccion, Horas
  <2> QED
    BY <2>1, <1>2, <1>4, <1>6 DEF TypeOK
<1>8. LoHallado'
  <2> SUFFICES ASSUME NEW s \in Peticiones PROVE Hallado(peticion[s])'
    BY DEF LoHallado
  <2>1. CASE s = r
    BY <2>1, <1>6 DEF Hallado, Reposo
  <2>2. CASE s # r /\ peticion[s].op = "pedirExtra"
    <3>1. /\ peticion[s].f \in Fichajes /\ Cerrado(peticion[s].f)
          /\ peticion[s].fila
      BY <2>2, Campos DEF LoHallado, Hallado
    <3>2. peticion[s].f = m.f => ~ m.aprobar
      BY <2>2, <3>1, <1>1, <1>2 DEF Ajenas, EsAjuste, Cerrado
    <3>3. fichaje'[peticion[s].f] = fichaje[peticion[s].f]
      BY <3>1, <3>2, <1>2, <1>4
    <3>4. SinCorreccion(peticion[s].f)'
      BY <2>2, <3>1, <1>5, <1>6 DEF LoHallado, Hallado, SinCorreccion,
         Corrigiendo, SinCorregir
    <3> QED
      BY <2>2, <3>1, <3>3, <3>4, <1>4, <1>6 DEF LoHallado, Hallado, Cerrado
  <2>3. CASE s # r /\ peticion[s].op # "pedirExtra"
    <3>1. peticion[s].op = "resolverCorreccion" => peticion[s].f # m.f
      BY <2>3, <1>1, <1>2 DEF Ajenas, En
    <3>2. peticion'[s] = peticion[s] /\ Hallado(peticion[s])
      BY <2>3, <1>6 DEF LoHallado
    <3> QED
      BY <2>3, <3>1, <3>2, <1>4, <1>5, SigueHallado, Campos
         DEF Hallado, En, Decisiones
  <2> QED
    BY <2>1, <2>2, <2>3
<1>9. Coherente'
  BY <1>3, <1>4, <1>5 DEF Coherente, Aparte, Fichadas, Corrigiendo, Cerrado,
     SinCorregir
<1>10. SinEnVuelo' /\ PagaLoAutorizado'
  BY <1>4, <1>6, SigueSinEnVuelo, SiguePago DEF Calculado
<1> QED
  BY <1>6, <1>7, <1>8, <1>9, <1>10

(* The overtime of an attendance moves from one state to the next in steps  *)
(* of requests that hold its row, when nothing of the month is calculated.  *)
LEMMA CambiaExtra ==
  ASSUME IInv, NEW r \in Peticiones, NEW a \in Autorizacion,
         peticion[r].op \in {"pedirExtra", "jefe", "rrhh"},
         autorizacion' = [autorizacion EXCEPT ![peticion[r].f] = a],
         a.estado # "NINGUNA", 0 < a.horas,
         a.horas <= fichaje[peticion[r].f].extra,
         Cerrado(peticion[r].f),
         Corrigiendo(peticion[r].f) => ~ correccion[peticion[r].f].conFichaje,
         Termina(r),
         UNCHANGED <<reloj, periodo, fichaje, correccion, pagado>>
  PROVE  IInv'
<1> USE DEF IInv
<1>1. PICK m : m = peticion[r]
  OBVIOUS
<1>2. m.f \in Fichajes /\ m.fila
  BY <1>1, Campos DEF LoHallado, Hallado
<1>3. \A f \in Fichajes :
        autorizacion'[f] = IF f = m.f THEN a ELSE autorizacion[f]
  BY <1>1 DEF TypeOK
<1>4. /\ Ajenas'
      /\ peticion' \in [Peticiones -> Peticion]
      /\ \A s \in Peticiones :
           peticion'[s] = IF s = r THEN Reposo ELSE peticion[s]
  BY AlTerminar
<1>5. TypeOK'
  BY <1>1, <1>2, <1>4 DEF TypeOK
<1>6. ~ Calculado /\ \A s \in Peticiones : ~ En(s, "calcular")
  BY DEF SinEnVuelo, Decisiones
<1>7. LoHallado'
  <2> SUFFICES ASSUME NEW s \in Peticiones PROVE Hallado(peticion[s])'
    BY DEF LoHallado
  <2>1. CASE s = r
    BY <2>1, <1>4 DEF Hallado, Reposo
  <2>2. CASE s # r /\ peticion[s].op \in Decisiones \cup {"pedirCorreccion"}
    <3>1. peticion[s].fila => peticion[s].f # m.f
      BY <2>2, <1>1, <1>2 DEF Ajenas, EsAjuste, Decisiones
    <3>2. peticion[s].f \in Fichajes
      BY <2>2, Campos DEF Decisiones
    <3>3. peticion'[s] = peticion[s] /\ Hallado(peticion[s])
      BY <2>2, <1>1, <1>4 DEF LoHallado
    <3> QED
      BY <2>2, <3>1, <3>2, <3>3, <1>3 DEF Hallado, Corrigiendo,
         Cerrado, SinCorreccion, Decisiones
  <2>3. CASE peticion[s].op = "libre"
    BY <2>3, <1>4 DEF Hallado, Reposo
  <2> QED
    BY <2>1, <2>2, <2>3, <1>6, Campos DEF En
<1>8. Coherente'
  BY <1>1, <1>3 DEF Coherente, Aparte, Fichadas, Corrigiendo, Cerrado
<1>9. SinEnVuelo' /\ PagaLoAutorizado'
  BY <1>4, <1>6 DEF SinEnVuelo, PagaLoAutorizado, Calculado, En, Reposo
<1> QED
  BY <1>4, <1>5, <1>7, <1>8, <1>9

LEMMA PasoPedirExtra ==
  ASSUME IInv, NEW r \in Peticiones, EscribePedirExtra(r)
  PROVE  IInv'
<1> USE DEF IInv
<1>1. PICK m : m = peticion[r]
  OBVIOUS
<1>2. /\ m.f \in Fichajes /\ m.horas \in Horas /\ m.op = "pedirExtra"
      /\ Cerrado(m.f) /\ SinCorreccion(m.f)
      /\ 0 < m.horas /\ m.horas <= fichaje[m.f].extra
  BY <1>1, Campos DEF EscribePedirExtra, En, LoHallado, Hallado
<1>3. PICK a : a = [estado |-> "JEFE_PENDIENTE", horas |-> m.horas, monto |-> 0]
  OBVIOUS
<1>4. a \in Autorizacion
  BY <1>2, <1>3 DEF Autorizacion
<1> QED
  BY <1>1, <1>2, <1>3, <1>4, CambiaExtra DEF EscribePedirExtra, SinCorreccion

LEMMA PasoDecideExtra ==
  ASSUME IInv, NEW r \in Peticiones, EscribeJefe(r) \/ EscribeRrhh(r)
  PROVE  IInv'
<1> USE DEF IInv
<1>1. PICK m : m = peticion[r]
  OBVIOUS
<1>2. /\ m.f \in Fichajes /\ m.op \in {"jefe", "rrhh"} /\ m.aprobar \in BOOLEAN
      /\ m.op = "rrhh" => m.monto \in Montos
      /\ autorizacion[m.f].estado \in {"JEFE_PENDIENTE", "RRHH_PENDIENTE"}
  BY <1>1, Campos DEF EscribeJefe, EscribeRrhh, En, LoHallado, Hallado
<1>3. /\ Cerrado(m.f) /\ ~ (Corrigiendo(m.f) /\ correccion[m.f].conFichaje)
      /\ 0 < autorizacion[m.f].horas
      /\ autorizacion[m.f].horas <= fichaje[m.f].extra
  BY <1>2 DEF Coherente, Aparte, Fichadas
<1>4. autorizacion[m.f] \in Autorizacion
  BY <1>2 DEF TypeOK
<1>5. \E a \in Autorizacion :
        /\ autorizacion' = [autorizacion EXCEPT ![m.f] = a]
        /\ a.estado # "NINGUNA" /\ a.horas = autorizacion[m.f].horas
  <2>1. CASE EscribeJefe(r)
    <3>1. PICK a : a = [autorizacion[m.f] EXCEPT !.estado = TrasJefe(m.aprobar)]
      OBVIOUS
    <3>2. /\ a \in Autorizacion /\ a.horas = autorizacion[m.f].horas
          /\ a.estado # "NINGUNA"
      BY <3>1, <1>4 DEF Autorizacion, TrasJefe
    <3> QED
      BY <2>1, <3>1, <3>2, <1>1, <1>2 DEF EscribeJefe, TypeOK
  <2>2. CASE EscribeRrhh(r)
    <3>1. PICK a : a =
            [estado |-> IF m.aprobar THEN "AUTORIZADO" ELSE "RECHAZADO",
             horas |-> autorizacion[m.f].horas,
             monto |-> IF m.aprobar THEN m.monto ELSE autorizacion[m.f].monto]
      OBVIOUS
    <3>2. /\ a \in Autorizacion /\ a.horas = autorizacion[m.f].horas
          /\ a.estado # "NINGUNA"
      BY <2>2, <3>1, <1>1, <1>2, Filas DEF Autorizacion, EscribeRrhh, En
    <3> QED
      BY <2>2, <3>1, <3>2, <1>1, <1>2 DEF EscribeRrhh, TypeOK
  <2> QED
    BY <2>1, <2>2
<1> QED
  BY <1>1, <1>2, <1>3, <1>5, CambiaExtra DEF EscribeJefe, EscribeRrhh

(* The payslips of a calculation pay what is authorised at its commit.      *)
LEMMA PasoCalcular ==
  ASSUME IInv, NEW r \in Peticiones, EscribeCalcular(r)
  PROVE  IInv'
<1> USE DEF IInv
<1>1. /\ En(r, "calcular") /\ periodo' = "CALCULADO"
      /\ pagado' = peticion[r].pagado /\ Termina(r)
      /\ UNCHANGED <<reloj, fichaje, correccion, autorizacion>>
  BY DEF EscribeCalcular
<1>2. /\ Ajenas'
      /\ peticion' \in [Peticiones -> Peticion]
      /\ \A s \in Peticiones :
           peticion'[s] = IF s = r THEN Reposo ELSE peticion[s]
  BY <1>1, AlTerminar
<1>3. TypeOK'
  BY <1>1, <1>2, Campos DEF TypeOK, EstadosPeriodo, En
<1>4. LoHallado'
  <2> SUFFICES ASSUME NEW s \in Peticiones PROVE Hallado(peticion[s])'
    BY DEF LoHallado
  <2>1. CASE s = r
    BY <2>1, <1>2 DEF Hallado, Reposo
  <2>2. CASE s # r
    BY <2>2, <1>1, <1>2, SigueHallado
  <2> QED
    BY <2>1, <2>2
<1>5. Coherente'
  BY <1>1 DEF Coherente, Aparte, Fichadas, Corrigiendo, Cerrado
<1>6. SinEnVuelo'
  BY <1>1, <1>2 DEF SinEnVuelo, En, Reposo, Decisiones
<1>7. PagaLoAutorizado'
  BY <1>1 DEF PagaLoAutorizado, LoHallado, Hallado, En, Autorizado
<1> QED
  BY <1>2, <1>3, <1>4, <1>5, <1>6, <1>7

LEMMA PasoRevierte ==
  ASSUME IInv, NEW r \in Peticiones, Revierte(r)
  PROVE  IInv'
<1> USE DEF IInv
<1>1. /\ Termina(r)
      /\ UNCHANGED <<reloj, periodo, fichaje, correccion, autorizacion, pagado>>
  BY DEF Revierte, tablas
<1>2. /\ Ajenas'
      /\ peticion' \in [Peticiones -> Peticion]
      /\ \A s \in Peticiones :
           peticion'[s] = IF s = r THEN Reposo ELSE peticion[s]
  BY <1>1, AlTerminar
<1>3. TypeOK'
  BY <1>1, <1>2 DEF TypeOK
<1>4. LoHallado'
  BY <1>1, <1>2 DEF LoHallado, Hallado, Reposo, Corrigiendo, Cerrado,
     SinCorreccion, Autorizado
<1>5. Coherente'
  BY <1>1 DEF Coherente, Aparte, Fichadas, Corrigiendo, Cerrado
<1>6. SinEnVuelo' /\ PagaLoAutorizado'
  BY <1>1, <1>2, SigueSinEnVuelo, SiguePago DEF Calculado
<1> QED
  BY <1>2, <1>3, <1>4, <1>5, <1>6

(* The clock touches an attendance that is missing or open, for which       *)
(* nobody has asked overtime.                                               *)
LEMMA PasoReloj ==
  ASSUME IInv, NEW f \in Fichajes,
         Entrada(f) \/ \E x \in Horas : Salida(f, x)
  PROVE  IInv'
<1> USE DEF IInv
<1>1. /\ fichaje[f].estado \in {"NINGUNO", "ABIERTO"}
      /\ fichaje' \in [Fichajes -> Fichaje]
      /\ \A g \in Fichajes : g # f => fichaje'[g] = fichaje[g]
      /\ UNCHANGED <<reloj, periodo, correccion, autorizacion, pagado,
                     peticion>>
  <2>1. CASE Entrada(f)
    <3>1. [SinFichar EXCEPT !.estado = "ABIERTO"] \in Fichaje
      BY ExtraNatural DEF SinFichar, Fichaje, Horas
    <3> QED
      BY <2>1, <3>1 DEF Entrada, TypeOK, SinFichar
  <2>2. CASE \E x \in Horas : Salida(f, x)
    <3> PICK x \in Horas : Salida(f, x)
      BY <2>2
    <3>1. [estado |-> "CERRADO", extra |-> x] \in Fichaje
      BY DEF Fichaje
    <3> QED
      BY <3>1 DEF Salida, TypeOK
  <2> QED
    BY <2>1, <2>2
<1>2. TypeOK'
  BY <1>1 DEF TypeOK
<1>3. Ajenas'
  BY <1>1 DEF Ajenas, EsAjuste, En
<1>4. LoHallado'
  BY <1>1, Campos DEF LoHallado, Hallado, Corrigiendo, Cerrado, SinCorreccion,
     Autorizado
<1>5. Coherente'
  BY <1>1 DEF Coherente, Aparte, Fichadas, Corrigiendo, Cerrado
<1>6. SinEnVuelo' /\ PagaLoAutorizado'
  BY <1>1, SigueSinEnVuelo, SiguePago DEF Calculado
<1> QED
  BY <1>2, <1>3, <1>4, <1>5, <1>6

(* The period opens, and is approved when no calculation is in flight.      *)
LEMMA PasoPeriodo ==
  ASSUME IInv, Abrir \/ Aprobar \/ Avanza
  PROVE  IInv'
<1> USE DEF IInv
<1>1. /\ UNCHANGED <<fichaje, correccion, autorizacion, pagado, peticion>>
      /\ reloj' \in Instantes /\ periodo' \in EstadosPeriodo
      /\ Calculado' => Calculado
      /\ (\E s \in Peticiones : En(s, "calcular")) =>
           periodo' \in {"ABIERTO", "CALCULADO"}
  BY DEF Abrir, Aprobar, Avanza, tablas, TypeOK, EstadosPeriodo, Calculado,
     PeriodoLibre, LoHallado, Hallado, En
<1>2. TypeOK'
  BY <1>1 DEF TypeOK
<1>3. Ajenas'
  BY <1>1 DEF Ajenas, EsAjuste, En
<1>4. LoHallado'
  BY <1>1 DEF LoHallado, Hallado, Corrigiendo, Cerrado, SinCorreccion,
     Autorizado, En
<1>5. Coherente'
  BY <1>1 DEF Coherente, Aparte, Fichadas, Corrigiendo, Cerrado
<1>6. SinEnVuelo' /\ PagaLoAutorizado'
  BY <1>1, SigueSinEnVuelo, SiguePago
<1> QED
  BY <1>2, <1>3, <1>4, <1>5, <1>6

(* Every step preserves the invariant.                                      *)
LEMMA Paso == IInv /\ [Next]_vars => IInv'
<1> SUFFICES ASSUME IInv, [Next]_vars PROVE IInv'
  OBVIOUS
<1>1. CASE UNCHANGED vars
  BY <1>1 DEF vars, tablas, IInv, TypeOK, Ajenas, LoHallado, Hallado, Coherente,
     Aparte, Fichadas, SinEnVuelo, PagaLoAutorizado, Calculado, Corrigiendo,
     Cerrado, SinCorreccion, Autorizado, En, EsAjuste
<1>2. ASSUME NEW r \in Peticiones, Lee(r) \/ Escribe(r) \/ Revierte(r)
      PROVE  IInv'
  BY <1>2, PasoLee, PasoPedirCorreccion, PasoResolverCorreccion, PasoPedirExtra,
     PasoDecideExtra, PasoCalcular, PasoRevierte DEF Escribe
<1>3. ASSUME NEW f \in Fichajes, Entrada(f) \/ \E x \in Horas : Salida(f, x)
      PROVE  IInv'
  BY <1>3, PasoReloj
<1> QED
  BY <1>1, <1>2, <1>3, PasoPeriodo DEF Next

----------------------------------------------------------------------------
(* The invariant holds in every reachable state.                            *)
THEOREM Invariante == Spec => []IInv
BY AlEmpezar, Paso, PTL DEF Spec

(* Every row and every request in flight keeps its type.                    *)
THEOREM Tipos == Spec => []TypeOK
<1>1. IInv => TypeOK
  BY DEF IInv
<1> QED
  BY Invariante, <1>1, PTL

(* The payslips of a calculated month pay exactly what was authorised, for  *)
(* hours that were clocked, with nothing left to decide, also when a        *)
(* request found no period to lock (calculate_period).                      *)
THEOREM NominaEsFiel == Spec => []NominaFiel
<1>1. IInv => NominaFiel
  <2> SUFFICES ASSUME IInv PROVE NominaFiel
    OBVIOUS
  <2>1. HorasFichadas
    BY DEF IInv, HorasFichadas, Coherente, Fichadas
  <2>2. SinExtrasPendientes
    BY DEF IInv, SinExtrasPendientes, SinEnVuelo
  <2> QED
    BY <2>1, <2>2 DEF IInv, NominaFiel
<1> QED
  BY Invariante, <1>1, PTL

(* A request that can change an attendance or an authorisation is never in  *)
(* flight while the month is calculated; so no late correction or decision  *)
(* touches it (_editable_period).                                           *)
LEMMA MesQuieto ==
  ASSUME IInv, [Next]_vars, Calculado, NEW f \in Fichajes
  PROVE  /\ autorizacion'[f] = autorizacion[f]
         /\ fichaje[f].estado # "ABIERTO" /\ f[2] < Local =>
              fichaje'[f] = fichaje[f]
<1>1. ASSUME NEW r \in Peticiones, Lee(r)
      PROVE  UNCHANGED <<fichaje, autorizacion>>
  BY <1>1, LecturaFresca DEF tablas
<1>2. ASSUME NEW r \in Peticiones, Escribe(r)
      PROVE  UNCHANGED <<fichaje, autorizacion>>
  BY <1>2 DEF IInv, SinEnVuelo, Decisiones, Escribe, EscribePedirCorreccion,
     EscribeResolverCorreccion, EscribePedirExtra, EscribeJefe, EscribeRrhh,
     EscribeCalcular, En
<1>3. ASSUME NEW g \in Fichajes, Entrada(g)
      PROVE  /\ autorizacion'[f] = autorizacion[f]
             /\ f[2] < Local => fichaje'[f] = fichaje[f]
  <2>1. Local \in Nat
    BY DiasPositivos DEF IInv, TypeOK, Local, Instantes
  <2>2. f = g => ~ (f[2] < Local)
    BY <1>3, <2>1 DEF Entrada
  <2> QED
    BY <1>3, <2>2 DEF Entrada, IInv, TypeOK
<1>4. ASSUME NEW g \in Fichajes, NEW x \in Horas, Salida(g, x)
      PROVE  /\ autorizacion'[f] = autorizacion[f]
             /\ fichaje[f].estado # "ABIERTO" => fichaje'[f] = fichaje[f]
  BY <1>4 DEF Salida, IInv, TypeOK
<1>5. CASE \/ UNCHANGED vars \/ Abrir \/ Aprobar \/ Avanza
           \/ \E r \in Peticiones : Revierte(r)
  BY <1>5 DEF vars, tablas, Abrir, Aprobar, Avanza, Revierte
<1> QED
  BY <1>1, <1>2, <1>3, <1>4, <1>5 DEF Next

(* A calculated month does not change, and an approved payroll is final     *)
(* (_editable_period, approve_period).                                      *)
THEOREM MesEsFijo == Spec => MesFijo
<1>1. IInv /\ [Next]_vars =>
        [Calculado => \A f \in Fichajes :
           /\ autorizacion'[f] = autorizacion[f]
           /\ fichaje[f].estado # "ABIERTO" /\ f[2] < Local =>
                fichaje'[f] = fichaje[f]]_vars
  BY MesQuieto
<1>2. IInv /\ [Next]_vars =>
        [periodo = "APROBADO" => UNCHANGED <<periodo, pagado>>]_vars
  <2> SUFFICES ASSUME IInv, [Next]_vars, periodo = "APROBADO"
               PROVE  UNCHANGED <<periodo, pagado>>
    OBVIOUS
  <2>1. ASSUME NEW r \in Peticiones, Lee(r)
        PROVE  UNCHANGED <<periodo, pagado>>
    BY <2>1, LecturaFresca DEF tablas
  <2>2. ASSUME NEW r \in Peticiones, Escribe(r)
        PROVE  UNCHANGED <<periodo, pagado>>
    <3>1. ~ EscribeCalcular(r)
      BY DEF EscribeCalcular, IInv, LoHallado, Hallado, En
    <3> QED
      BY <2>2, <3>1 DEF Escribe, EscribePedirCorreccion,
         EscribeResolverCorreccion, EscribePedirExtra, EscribeJefe, EscribeRrhh
  <2> QED
    BY <2>1, <2>2 DEF Next, Revierte, Entrada, Salida, Abrir, Aprobar, Avanza,
       tablas, vars
<1> QED
  BY Invariante, <1>1, <1>2, PTL DEF Spec, MesFijo, MesCalculadoFijo,
     AprobadaEsFinal
=============================================================================
