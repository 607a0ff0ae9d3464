---------------------------- MODULE MCAusencias ----------------------------
(***************************************************************************)
(* Small instances of Ausencias for TLC.                                   *)
(***************************************************************************)
EXTENDS Ausencias, TLC

(* Only identity tells two requests or two absences apart.                  *)
Simetria == Permutations(Peticiones) \cup Permutations(IdsAusencia)
=============================================================================
