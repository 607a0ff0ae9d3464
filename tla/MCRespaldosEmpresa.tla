------------------------ MODULE MCRespaldosEmpresa ------------------------
(***************************************************************************)
(* Small instances of RespaldosEmpresa for TLC.                            *)
(***************************************************************************)
EXTENDS RespaldosEmpresa, TLC

(* Only identity tells two replicas or two requests apart.                  *)
Simetria == Permutations(Obreros) \cup Permutations(Peticiones)
=============================================================================
