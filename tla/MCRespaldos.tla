---------------------------- MODULE MCRespaldos ----------------------------
(***************************************************************************)
(* The queue of company backups, the restore of a company and the backups  *)
(* of the whole system.  What they share, the lock of a company, is in the *)
(* first two, each at its own grain: a run follows one of the three,       *)
(* chosen at the start.                                                    *)
(***************************************************************************)
EXTENDS RespaldosEmpresa, TLC

CONSTANTS
  Documentos, Usuarios, Ordenadas, MaxCopias,
  Respaldos, Tareas, Apartada, Entera

ASSUME CotaCopias == MaxCopias \in Nat
(* The rows of documents and CVs, and those of accounts.                    *)
ASSUME TablasDistintas == Documentos \cap Usuarios = {}

VARIABLES
  filas, disco, bitacora, copias, tramite,
  fila, paquete, datos, archivos, tarea,
  modo

R == INSTANCE RestauracionEmpresa WITH peticion <- tramite
G == INSTANCE RespaldoGlobal

deRestauracion == <<filas, disco, bitacora, copias, tramite>>
deGlobal == <<fila, paquete, datos, archivos, tarea>>
variables == <<vars, deRestauracion, deGlobal, modo>>

InitMC ==
  /\ Init /\ R!Init /\ G!Init
  /\ modo \in {"cola", "restauracion", "global"}

NextMC ==
  /\ UNCHANGED modo
  /\ \/ modo = "cola" /\ Next /\ UNCHANGED <<deRestauracion, deGlobal>>
     \/ modo = "restauracion" /\ R!Next /\ UNCHANGED <<vars, deGlobal>>
     \/ modo = "global" /\ G!Next /\ UNCHANGED <<vars, deRestauracion>>

SpecMC == InitMC /\ [][NextMC]_variables

(* The three type invariants.                                               *)
Tipos == TypeOK /\ R!TypeOK /\ G!TypeOK

(* The properties of the other two, for the run's configuration.            *)
RestauracionFirme == R!RestauracionFirme
GlobalSegura == G!GlobalSegura

(* Only identity tells two replicas or two requests apart.                  *)
Simetria ==
  Permutations(Obreros) \cup Permutations(Peticiones)
=============================================================================
