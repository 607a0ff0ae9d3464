----------------------------- MODULE MCCuentas -----------------------------
(***************************************************************************)
(* Small instances of Cuentas for TLC.                                     *)
(***************************************************************************)
EXTENDS Cuentas, TLC

(* Only identity tells two requests apart, or two accounts other than the   *)
(* founder.                                                                 *)
Simetria == Permutations(Peticiones) \cup Permutations(Usuarios \ {Fundador})
=============================================================================
