--------------------------- MODULE MCAsistencia ---------------------------
(***************************************************************************)
(* Small instances of Asistencia for TLC.                                  *)
(***************************************************************************)
EXTENDS Asistencia, TLC

(* Only identity tells two requests or two employees apart.                 *)
Simetria == Permutations(Peticiones) \cup Permutations(Empleados)
=============================================================================
