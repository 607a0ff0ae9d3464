---------------------------- MODULE MCAnalisisCV ----------------------------
(***************************************************************************)
(* Small instances of AnalisisCV for TLC.                                  *)
(***************************************************************************)
EXTENDS AnalisisCV, TLC

(* Only identity tells requests, codes or slots apart.                      *)
Simetria == Permutations(Peticiones) \cup Permutations(Codigos)
            \cup Permutations(Cupos)
=============================================================================
