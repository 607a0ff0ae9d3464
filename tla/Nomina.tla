------------------------------- MODULE Nomina -------------------------------
(***************************************************************************)
(* The payroll of one employee for one month, from what decides its        *)
(* amounts: the salary rules of the company, the legal values with their   *)
(* validity, the RC-IVA worksheet, and the calculation that turns them     *)
(* into a payslip.  Basic pay and overtime are inputs here: Ausencias and  *)
(* Asistencia say where they come from.                                    *)
(*                                                                         *)
(* Amounts are natural numbers of the smallest unit, rates whole           *)
(* percentages, and time the days 0, 1, 2, ... of which PrimerDia and      *)
(* UltimoDia are the ends of the month.                                    *)
(***************************************************************************)
EXTENDS Naturals, Integers, Sequences, FiniteSets, SequencesExt

CONSTANTS
  Tramites,       \* requests in flight
  Dias,           \* the days a validity may start or end on
  PrimerDia, UltimoDia,
  Valores,        \* rates and minimum wages somebody may register
  Haberes,        \* basic pays of the employee
  Extras,         \* authorised overtime amounts
  Retenciones,    \* RC-IVA amounts typed from a worksheet
  Datos,          \* F110 and balances typed for the automatic RC-IVA
  Semilla,        \* the rules of a new company
  ReglasNuevas,   \* the rules somebody may add
  Tramos,         \* ANS_BRACKETS
  MaxValores,     \* bound on the values of a legal parameter
  NULL

(* The days are numbered and the month has a first and a last one.          *)
ASSUME MesConDias ==
  /\ Dias \subseteq Nat /\ PrimerDia \in Nat /\ UltimoDia \in Nat
  /\ PrimerDia <= UltimoDia

VARIABLES
  reglas,         \* table regla_salarial, of the active structure
  valores,        \* table parametro_valor, by code
  periodo,        \* periodo_nomina.estado, or SIN before the month is opened
  impuesto,       \* table impuesto_empleado
  boleta,         \* boleta_pago and its detail
  tramite         \* requests in flight

varsNomina == <<reglas, valores, periodo, impuesto, boleta, tramite>>

----------------------------------------------------------------------------
(* The arithmetic. *)

Mayor(a, b) == IF a >= b THEN a ELSE b
Menor(a, b) == IF a <= b THEN a ELSE b

(* quantize(CENT, ROUND_HALF_UP) of a hundredth.                            *)
Redondea(x) == (x + 50) \div 100

(* One rule: TOTAL_GANADO is what the rules before it have added up.        *)
Monto(r, base, ganado, tasa, externo) ==
  CASE r.calculo = "BASE" -> base
    [] r.calculo = "FIJO" -> r.monto
    [] r.calculo = "EXTERNO" -> externo[r.codigo]
    [] r.calculo = "PORCENTAJE" ->
         Redondea(tasa * IF r.base = "SALARIO_BASICO" THEN base ELSE ganado)

Linea(r, n) == [codigo |-> r.codigo, tipo |-> r.tipo, monto |-> n]

Acumula(t, r, n) ==
  [t EXCEPT ![r.tipo] = @ + n, !.lineas = Append(@, Linea(r, n))]

Ans(ganado) ==
  Redondea(FoldLeft(LAMBDA s, t : s + Mayor(ganado - t.umbral, 0) * t.tasa,
                    0, Tramos))

(* calculate_payroll: the rules in their sequence, ANS last on the total.   *)
Calculo(base, rs, tasa, externo) ==
  LET orden == SetToSortSeq({r \in rs : r.codigo # "ANS"},
                            LAMBDA a, b : a.secuencia < b.secuencia)
      t == FoldLeft(
             LAMBDA a, r :
               Acumula(a, r, Monto(r, base, a.INGRESO, tasa, externo)),
             [INGRESO |-> 0, DESCUENTO |-> 0, PATRONAL |-> 0, lineas |-> <<>>],
             orden)
      ans == CHOOSE r \in rs : r.codigo = "ANS"
      u == Acumula(t, ans, Ans(t.INGRESO))
  IN [ganado |-> u.INGRESO, descuentos |-> u.DESCUENTO,
      liquido |-> u.INGRESO - u.DESCUENTO, patronal |-> u.PATRONAL,
      lineas |-> u.lineas]

Trece(x) == Redondea(13 * x)

ImpuestoNeto(ganado, aportes, smn) ==
  Mayor(0, Trece(Mayor(0, ganado - aportes - 2 * smn)) - Trece(smn))

(* calculate_rc_iva: the F110 credit first, then the balance, then the      *)
(* SIETE-RG balance; what is left of each goes to the next month.           *)
RcIva(neto, d) ==
  LET trasF110 == Mayor(0, neto - d.f110)
      usado == Menor(trasF110, d.saldo)
      usadoSiete == Menor(trasF110 - usado, d.siete)
  IN [retenido |-> trasF110 - usado - usadoSiete,
      saldo |-> d.saldo - usado + Mayor(0, d.f110 - neto),
      siete |-> d.siete - usadoSiete]

----------------------------------------------------------------------------
(* Rules, values, requests. *)

Codigos == {"AFP", "SMN"}
Requeridos == {r.codigo : r \in Semilla}

Vigencia == [desde : Dias, hasta : Dias, valor : Valores]
Solapa(i, j) == i.desde <= j.hasta /\ j.desde <= i.hasta

(* legal_rates, minimum_wage: the values that cover the whole month.        *)
VigentesLegales(c) ==
  {i \in valores[c] : i.desde <= PrimerDia /\ i.hasta >= UltimoDia}
HayUno(c) == Cardinality(VigentesLegales(c)) = 1
Vigente(c) == (CHOOSE i \in VigentesLegales(c) : TRUE).valor

Reposo == [op |-> "libre"]
En(p, op) == tramite[p].op = op
Pasa(p, m) == tramite' = [tramite EXCEPT ![p] = m]

(* Who holds the row of a legal parameter, of the structure, of the month.  *)
RotoCatalogoLibre(c) == TRUE
CatalogoLibre(c) ==
  \A p \in Tramites : ~ (En(p, "valor") /\ tramite[p].codigo = c)
EstructuraLibre == \A p \in Tramites : ~ En(p, "regla")
PeriodoLibre == \A p \in Tramites : ~ (En(p, "reglas") \/ En(p, "tasas"))

InitNomina ==
  /\ reglas = Semilla
  /\ valores = [c \in Codigos |-> {}]
  /\ periodo = "SIN"
  /\ impuesto = NULL
  /\ boleta = NULL
  /\ tramite = [p \in Tramites |-> Reposo]

----------------------------------------------------------------------------
(* The legal values and the rules. *)

(* create_legal_rate, create_minimum_wage: the parameter locked, then the   *)
(* search for an overlap.                                                   *)
SinSolape(c, i) == \A j \in valores[c] : ~ Solapa(i, j)
LeeValor(p, c, i) ==
  /\ En(p, "libre") /\ CatalogoLibre(c)
  /\ i.desde <= i.hasta
  /\ SinSolape(c, i)
  /\ Pasa(p, [op |-> "valor", codigo |-> c, vigencia |-> i])
  /\ UNCHANGED <<reglas, valores, periodo, impuesto, boleta>>

EscribeValor(p) ==
  LET m == tramite[p] IN
  /\ En(p, "valor")
  /\ Cardinality(valores[m.codigo]) < MaxValores
  /\ valores' = [valores EXCEPT ![m.codigo] = @ \cup {m.vigencia}]
  /\ Pasa(p, Reposo)
  /\ UNCHANGED <<reglas, periodo, impuesto, boleta>>

(* add_salary_rule: the structure locked, then the search for a duplicate.  *)
Repetida(r) ==
  \E s \in reglas : s.codigo = r.codigo \/ s.secuencia = r.secuencia
LeeRegla(p, r) ==
  /\ En(p, "libre") /\ EstructuraLibre
  /\ ~ Repetida(r)
  /\ Pasa(p, [op |-> "regla", regla |-> r])
  /\ UNCHANGED <<reglas, valores, periodo, impuesto, boleta>>

EscribeRegla(p) ==
  /\ En(p, "regla") /\ ~ Repetida(tramite[p].regla)
  /\ reglas' = reglas \cup {tramite[p].regla}
  /\ Pasa(p, Reposo)
  /\ UNCHANGED <<valores, periodo, impuesto, boleta>>

----------------------------------------------------------------------------
(* The month. *)

Abre ==
  /\ periodo = "SIN"
  /\ periodo' = "ABIERTO"
  /\ UNCHANGED <<reglas, valores, impuesto, boleta, tramite>>

Fila(retenido, datos) == [retenido |-> retenido, datos |-> datos, deja |-> NULL]

(* register_tax_withholding: one transaction under the lock of the month.   *)
RegistraRetencion(n) ==
  /\ PeriodoLibre /\ periodo = "ABIERTO"
  /\ impuesto' = Fila(n, NULL)
  /\ UNCHANGED <<reglas, valores, periodo, boleta, tramite>>

(* register_tax_data: the same with nothing withheld yet.                   *)
RegistraDatos(d) ==
  /\ PeriodoLibre /\ periodo = "ABIERTO"
  /\ impuesto' = Fila(0, d)
  /\ UNCHANGED <<reglas, valores, periodo, boleta, tramite>>

(* calculate_period reads the rules, then the rates, then the tax row.      *)
LeeReglas(p) ==
  /\ En(p, "libre") /\ PeriodoLibre
  /\ periodo \in {"ABIERTO", "CALCULADO"}
  /\ Requeridos \subseteq {r.codigo : r \in reglas}
  /\ Pasa(p, [op |-> "reglas", reglas |-> reglas])
  /\ UNCHANGED <<reglas, valores, periodo, impuesto, boleta>>

LeeTasas(p) ==
  /\ En(p, "reglas") /\ HayUno("AFP")
  /\ Pasa(p, [op |-> "tasas", reglas |-> tramite[p].reglas,
              tasa |-> Vigente("AFP")])
  /\ UNCHANGED <<reglas, valores, periodo, impuesto, boleta>>

Automatico == impuesto.datos # NULL

Externo(retenido, extra) ==
  [c \in {"RC_IVA", "HORAS_EXTRA"} |-> IF c = "RC_IVA" THEN retenido ELSE extra]

(* What AFP, SOLIDARIO and ANS take.                                        *)
Aportes(b) ==
  FoldLeft(LAMBDA s, l : s + IF l.codigo \in {"AFP", "ANS"} THEN l.monto ELSE 0,
           0, b.lineas)

(* The automatic RC-IVA from a provisional payslip that withholds nothing.  *)
ImpuestoDe(b) ==
  LET r == RcIva(ImpuestoNeto(b.ganado, Aportes(b), Vigente("SMN")),
                 impuesto.datos)
  IN [impuesto EXCEPT !.retenido = r.retenido,
                      !.deja = [saldo |-> r.saldo, siete |-> r.siete]]

EscribeCalculo(p, base, extra) ==
  LET m == tramite[p]
      con(n) == Calculo(base, m.reglas, m.tasa, Externo(n, extra))
      fila == IF Automatico THEN ImpuestoDe(con(0)) ELSE impuesto
      b == con(fila.retenido)
  IN
  /\ En(p, "tasas")
  /\ impuesto # NULL
  /\ Automatico => HayUno("SMN") /\ con(0).liquido >= 0
  /\ b.liquido >= 0
  /\ impuesto' = fila
  /\ boleta' = b
  /\ periodo' = "CALCULADO"
  /\ Pasa(p, Reposo)
  /\ UNCHANGED <<reglas, valores>>

Aprueba ==
  /\ PeriodoLibre /\ periodo = "CALCULADO"
  /\ periodo' = "APROBADO"
  /\ UNCHANGED <<reglas, valores, impuesto, boleta, tramite>>

RevierteTramite(p) ==
  /\ ~ En(p, "libre")
  /\ Pasa(p, Reposo)
  /\ UNCHANGED <<reglas, valores, periodo, impuesto, boleta>>

(* my_payslips, my_payslip_detail.                                          *)
MisBoletas == IF periodo = "APROBADO" THEN {boleta} ELSE {}

----------------------------------------------------------------------------
Calcular(p) ==
  \/ LeeReglas(p)
  \/ LeeTasas(p)
  \/ \E base \in Haberes, extra \in Extras : EscribeCalculo(p, base, extra)

NextNomina ==
  \/ Abre
  \/ \E n \in Retenciones : RegistraRetencion(n)
  \/ \E d \in Datos : RegistraDatos(d)
  \/ Aprueba
  \/ \E p \in Tramites :
       \/ \E c \in Codigos, i \in Vigencia : LeeValor(p, c, i)
       \/ EscribeValor(p)
       \/ \E r \in ReglasNuevas : LeeRegla(p, r)
       \/ EscribeRegla(p)
       \/ Calcular(p)
       \/ RevierteTramite(p)

SpecNomina == InitNomina /\ [][NextNomina]_varsNomina

----------------------------------------------------------------------------
(* What must hold. *)

TypeOKNomina ==
  /\ Semilla \subseteq reglas /\ reglas \subseteq Semilla \cup ReglasNuevas
  /\ valores \in [Codigos -> SUBSET Vigencia]
  /\ periodo \in {"SIN", "ABIERTO", "CALCULADO", "APROBADO"}
  /\ impuesto = NULL \/ impuesto.datos \in Datos \cup {NULL}
  /\ (boleta # NULL) = (periodo \in {"CALCULADO", "APROBADO"})
  /\ \A p \in Tramites :
       En(p, "libre") \/ En(p, "valor") \/ En(p, "regla") \/ En(p, "reglas")
         \/ En(p, "tasas")

De(tipo, ls) ==
  FoldLeft(LAMBDA s, l : s + IF l.tipo = tipo THEN l.monto ELSE 0, 0, ls)
LineaDe(c) ==
  CHOOSE i \in DOMAIN boleta.lineas : boleta.lineas[i].codigo = c
MontoDe(c) == boleta.lineas[LineaDe(c)].monto

(* The totals of a payslip are those of its lines, one for each concept,    *)
(* and what is left is never negative.                                      *)
BoletaSuma ==
  boleta # NULL =>
    /\ boleta.ganado = De("INGRESO", boleta.lineas)
    /\ boleta.descuentos = De("DESCUENTO", boleta.lineas)
    /\ boleta.patronal = De("PATRONAL", boleta.lineas)
    /\ boleta.liquido = boleta.ganado - boleta.descuentos
    /\ boleta.liquido >= 0
    /\ \A c \in Requeridos :
         Cardinality({i \in DOMAIN boleta.lineas :
                        boleta.lineas[i].codigo = c}) = 1

(* A month calculated used the one rate in force for it, which stays the    *)
(* only one: nobody can register another for the same days, however the     *)
(* registrations and the calculation interleave.                            *)
TasaUnica ==
  boleta # NULL =>
    /\ HayUno("AFP")
    /\ MontoDe("AFP") =
         Redondea(Vigente("AFP")
                  * De("INGRESO", SubSeq(boleta.lineas, 1, LineaDe("AFP"))))

(* The payslip withholds what the tax row says; when that was computed, it  *)
(* is what the final payslip owes, and no credit is lost or used twice,     *)
(* however often the month is calculated again.                             *)
RetencionFiel ==
  boleta # NULL =>
    /\ MontoDe("RC_IVA") = impuesto.retenido
    /\ Automatico =>
         LET d == impuesto.datos
             neto == ImpuestoNeto(boleta.ganado, Aportes(boleta),
                                  Vigente("SMN"))
         IN /\ HayUno("SMN")
            /\ impuesto.retenido + d.f110 + d.saldo + d.siete
                 = neto + impuesto.deja.saldo + impuesto.deja.siete
            /\ impuesto.retenido > 0 =>
                 impuesto.deja.saldo = 0 /\ impuesto.deja.siete = 0

(* What the employee can read of an approved month never changes, nor does  *)
(* the tax row behind it.                                                   *)
LoVistoQueda ==
  [][MisBoletas \subseteq MisBoletas'
     /\ (MisBoletas # {} => impuesto' = impuesto)]_varsNomina

(* A payroll adds up: its totals, its rate, its RC-IVA, and for good once   *)
(* approved.                                                                *)
NominaCuadra == [](BoletaSuma /\ TasaUnica /\ RetencionFiel) /\ LoVistoQueda
=============================================================================
