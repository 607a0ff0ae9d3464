----------------------------- MODULE MCAgenda -----------------------------
(***************************************************************************)
(* Small instances of Agenda for TLC.                                      *)
(***************************************************************************)
EXTENDS Agenda, TLC

(* Only identity tells two requests, interviewers, applications or          *)
(* interviews apart.                                                        *)
Simetria ==
  Permutations(Tramites) \cup Permutations(Entrevistadores)
    \cup Permutations(Postulaciones) \cup Permutations(Entrevistas)
=============================================================================
