----------------------- MODULE LibroContrataciones -----------------------
(***************************************************************************)
(* What hiring promises a company, with no request, lock or row in sight:  *)
(* a book of the applications that ended in a contract, and the number of  *)
(* places each vacancy offers.  A person is hired at most once, a vacancy  *)
(* never hires beyond the places it offers at that moment, and a contract  *)
(* is never struck from the book.                                          *)
(*                                                                         *)
(* Contratacion implements this book (its Libro instance): the requests    *)
(* that race for the same place, candidate or vacancy are invisible here.  *)
(***************************************************************************)
EXTENDS Naturals, FiniteSets

CONSTANTS
  Vacantes,      \* identifiers of the vacancies
  Postulantes,   \* identifiers of the candidates
  Cupos          \* numbers of places a vacancy may offer

VARIABLES
  cupo,          \* vacancy -> places it offers
  contratadas    \* the pairs <<vacancy, candidate>> that were hired

libro == <<cupo, contratadas>>

Plazas(v) == {p \in contratadas : p[1] = v}

Init ==
  /\ cupo \in [Vacantes -> Cupos]
  /\ contratadas = {}

(* One place of v is taken by candidate c, who was hired nowhere. *)
Contrata(v, c) ==
  /\ \A p \in contratadas : p[2] # c
  /\ Cardinality(Plazas(v)) < cupo[v]
  /\ contratadas' = contratadas \cup {<<v, c>>}
  /\ UNCHANGED cupo

(* The number of places of v is set: when it is created or edited. *)
FijaCupo(v, n) ==
  /\ cupo' = [cupo EXCEPT ![v] = n]
  /\ UNCHANGED contratadas

Next ==
  \E v \in Vacantes :
    \/ \E c \in Postulantes : Contrata(v, c)
    \/ \E n \in Cupos : FijaCupo(v, n)

Spec == Init /\ [][Next]_libro
=============================================================================
