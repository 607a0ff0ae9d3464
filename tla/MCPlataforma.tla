---------------------------- MODULE MCPlataforma ----------------------------
(***************************************************************************)
(* Small instances of Plataforma for TLC.                                  *)
(***************************************************************************)
EXTENDS Plataforma, TLC

(* Only identity tells apart two requests, companies or plans.              *)
Simetria == Permutations(Peticiones) \cup Permutations(Empresas)
            \cup Permutations(Planes)
=============================================================================
