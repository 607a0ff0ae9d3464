---------------------------- MODULE MCSesiones ----------------------------
(***************************************************************************)
(* Small instances of Sesiones for TLC.                                    *)
(***************************************************************************)
EXTENDS Sesiones, TLC

(* Only identity tells two requests, tokens or links apart.                 *)
Simetria == Permutations(Peticiones) \cup Permutations(Tokens)
              \cup Permutations(Enlaces)
=============================================================================
