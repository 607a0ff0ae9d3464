-------------------------- MODULE MCContratacion --------------------------
(***************************************************************************)
(* Small instances of Contratacion for TLC.                                *)
(***************************************************************************)
EXTENDS Contratacion, TLC

(* Requests and employee codes are interchangeable: no definition names     *)
(* one.  Candidates and vacancies are not, their rows are told apart.       *)
Simetria == Permutations(Peticiones) \cup Permutations(Codigos)
=============================================================================
