-------------------------- MODULE MCConfiguracion --------------------------
(***************************************************************************)
(* Nomina, Catalogos, Permisos and Requisitos share nothing: their         *)
(* interleavings would only multiply the states.  The run follows one,     *)
(* chosen at the start.                                                    *)
(***************************************************************************)
EXTENDS Nomina, TLC

CONSTANTS
  Nombres, Archivos, ArchivosEtapas, EtapasBase, Fechas, Campos, Porcentajes,
  MaxFilas, MaxPeriodos,
  Habilidades, Vacantes

VARIABLES
  tabla, etapas, periodos, solicitud,
  permisos, apagado, empresa, debe, fichas, gestion,
  habilidad, vacante, pedido,
  modo

Regla(c, t, s, k, n, b) ==
  [codigo |-> c, tipo |-> t, secuencia |-> s,
   calculo |-> k, monto |-> n, base |-> b]
MCSemilla == {
  Regla("SALARIO_BASICO", "INGRESO", 10, "BASE", 0, "NO"),
  Regla("HORAS_EXTRA", "INGRESO", 15, "EXTERNO", 0, "NO"),
  Regla("AFP", "DESCUENTO", 20, "PORCENTAJE", 0, "TOTAL_GANADO"),
  Regla("ANS", "DESCUENTO", 35, "TRAMOS", 0, "NO"),
  Regla("RC_IVA", "DESCUENTO", 40, "EXTERNO", 0, "NO")}
MCReglasNuevas == {
  Regla("BONO", "INGRESO", 50, "FIJO", 30, "NO"),
  Regla("PRIMA", "INGRESO", 50, "PORCENTAJE", 0, "SALARIO_BASICO"),
  Regla("CNS", "PATRONAL", 60, "PORCENTAJE", 0, "TOTAL_GANADO")}
MCTramos == <<[umbral |-> 90, tasa |-> 5], [umbral |-> 110, tasa |-> 10]>>
MCDatos == {[f110 |-> 0, saldo |-> 0, siete |-> 0],
            [f110 |-> 1, saldo |-> 2, siete |-> 1]}

(* Files: a chain, a circle, a child of what the table may have, a change   *)
(* of the parent of a row that is there.                                    *)
MCArchivos == {
  ("a" :> "b") @@ ("b" :> NULL),
  ("a" :> "b") @@ ("b" :> "a"),
  ("b" :> "a"),
  ("a" :> "b")}
MCEtapasBase == {[nombre |-> "postulado", orden |-> 1, inicial |-> TRUE]}
MCArchivosEtapas ==
  UNION {[s -> [orden : 1..3, inicial : BOOLEAN]] :
           s \in SUBSET {"postulado", "oferta", "prueba"} \ {{}}}

(* The files are finite and the stages of a new company include one to     *)
(* enter by.                                                               *)
ASSUME ArchivosFinitos ==
  \A a \in Archivos : DOMAIN a \subseteq Nombres /\ IsFiniteSet(DOMAIN a)
ASSUME UnaInicialBase == Cardinality({e \in EtapasBase : e.inicial}) = 1

(* NULL is none of the rows, and no key of one.                            *)
ASSUME NuloAparte ==
  /\ NULL \notin Nat /\ NULL \notin Nombres
  /\ NULL \notin [nombre : Nombres, padre : Nat \cup {NULL}]
  /\ NULL \notin [nombre : Nombres, activo : BOOLEAN]
  /\ NULL \notin [estado : {"BORRADOR", "PUBLICADA"},
                  requiere : SUBSET Habilidades]

K == INSTANCE Catalogos WITH Peticiones <- Tramites
A == INSTANCE Permisos WITH Peticiones <- Tramites, peticion <- gestion
R == INSTANCE Requisitos WITH Peticiones <- Tramites

catalogos == <<tabla, etapas, periodos, solicitud>>
accesos == <<permisos, apagado, empresa, debe, fichas, gestion>>
requisitos == <<habilidad, vacante, pedido>>
variables == <<varsNomina, catalogos, accesos, requisitos, modo>>

InitMC ==
  /\ InitNomina /\ K!Init /\ A!Init /\ R!Init
  /\ modo \in {"nomina", "organiza", "etapas", "periodos", "permisos",
              "requisitos"}

(* One catalogue at a time, for the same reason.                            *)
CatalogosNext ==
  \E p \in Tramites :
    \/ modo = "organiza" /\ K!Organiza(p)
    \/ modo = "etapas" /\ K!Etapea(p)
    \/ modo = "periodos" /\ K!Parametriza(p)
    \/ K!Revierte(p)

NextMC ==
  /\ UNCHANGED modo
  /\ \/ /\ modo = "nomina" /\ NextNomina
        /\ UNCHANGED <<catalogos, accesos, requisitos>>
     \/ /\ CatalogosNext
        /\ UNCHANGED <<varsNomina, accesos, requisitos>>
     \/ /\ modo = "permisos" /\ A!Next
        /\ UNCHANGED <<varsNomina, catalogos, requisitos>>
     \/ /\ modo = "requisitos" /\ R!Next
        /\ UNCHANGED <<varsNomina, catalogos, accesos>>

SpecMC == InitMC /\ [][NextMC]_variables

(* The four type invariants.                                                *)
TiposConfiguracion == TypeOKNomina /\ K!TypeOK /\ A!TypeOK /\ R!TypeOK

(* The properties of the catalogues and of what the vacancies require of    *)
(* them, for the run's configuration.                                       *)
CatalogoCoherente == K!CatalogoCoherente /\ R!RequisitosFirmes

(* The property of the permissions, for the run's configuration.            *)
PermisosFirmes == A!PermisosFirmes

Simetria == Permutations(Tramites)
=============================================================================
