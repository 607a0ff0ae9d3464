----------------------------- MODULE AnalisisCV -----------------------------
(***************************************************************************)
(* The analysis of a candidate's CV by an external provider: the advisory  *)
(* locks that keep one analysis per application and a few at a time, and   *)
(* the check that CV, vacancy and application are those analysed, against  *)
(* the public portal that replaces the CV, the edition of the vacancies    *)
(* and the closing of the applications.                                    *)
(*                                                                         *)
(* The data are those of one candidate; an application is named by its     *)
(* vacancy and a CV by the tracking code of the application that brought   *)
(* it.  An analysis holds a dedicated connection for its session locks and *)
(* the transaction of the request for the rest; either can be lost.        *)
(*                                                                         *)
(* The Roto... operators are plausible mistakes; no definition uses them,  *)
(* they show that a property can fail.                                     *)
(***************************************************************************)
EXTENDS Naturals, FiniteSets

CONSTANTS
  Vacantes,    \* vacancies the candidate may apply to
  Codigos,     \* tracking codes: they name application and CV file
  Cupos,       \* the global slots, max_slots of them
  Peticiones,  \* slots for the requests in flight
  MaxEdiciones \* bound: times each vacancy is edited

ASSUME HayVacantes == Vacantes # {}
ASSUME NadaNoEsValor == "NADA" \notin Codigos \cup Cupos
ASSUME MaxEdicionesNatural == MaxEdiciones \in Nat

VARIABLES
  codigo,     \* codigo_seguimiento of each application, or NADA
  activa,     \* the applications whose estado is ACTIVA
  cv,         \* cv_url of the candidate, or NADA
  archivos,   \* the files of the CV storage
  edicion,    \* version of the row of each vacancy
  requisitos, \* vacante_habilidad: the vacancies that require any skill
  puntaje,    \* puntaje_ia: what the last analysis of each was made from
  peticion    \* the requests in flight

vars == <<codigo, activa, cv, archivos, edicion, requisitos, puntaje, peticion>>
(* postulante.cv_url.                                                       *)
CvPostulante == Codigos \cup {"NADA"}

datos == <<codigo, activa, cv, archivos, edicion, requisitos, puntaje>>

----------------------------------------------------------------------------
(* The requests: vacancy, CV it works with, what it read (foto), slot of    *)
(* the provider, and whether its dedicated connection is up.                *)

SinPuntaje == [cv |-> "NADA", edicion |-> 0]
SinFoto == [cv |-> "NADA", edicion |-> 0, requisitos |-> FALSE]
Foto(v) ==
  [cv |-> cv, edicion |-> edicion[v], requisitos |-> v \in requisitos]

Libre(v) == [fase |-> "LIBRE", v |-> v, k |-> "NADA", foto |-> SinFoto,
             cupo |-> "NADA", conexion |-> FALSE]
EstaLibre(r) == peticion[r].fase = "LIBRE"
Pasa(r, desde, p) ==
  /\ peticion[r].fase = desde
  /\ peticion' = [peticion EXCEPT ![r] = p]
Avanza(r, desde, hasta) ==
  Pasa(r, desde, [peticion[r] EXCEPT !.fase = hasta])
Deja(r, desde) ==
  Pasa(r, desde, Libre(CHOOSE v \in Vacantes : TRUE))

(* Who holds what.  The session locks live while their connection does; the *)
(* locks of the transaction, until the commit.                              *)
EnFase(fases) == {q \in Peticiones : peticion[q].fase \in fases}
Sobre(v, fases) == {q \in EnFase(fases) : peticion[q].v = v}
Conectadas == {q \in Peticiones : peticion[q].conexion}

Curso == {"TOMADO", "SONDEO", "ANALIZA", "PERSISTE", "VACANTE", "POSTULACION",
          "GUARDADO"}
Corriendo(v) == Conectadas \cap Sobre(v, Curso)
Persistiendo(v) ==
  Sobre(v, {"PERSISTE", "VACANTE", "POSTULACION", "GUARDADO", "CONFIRMA"})
  \cup (Conectadas \cap Sobre(v, {"SONDEO"}))
Ocupados == {peticion[q].cupo : q \in Conectadas \cap EnFase(Curso)}

BloqueanVacante(v) ==
  Sobre(v, {"VACANTE", "POSTULACION", "GUARDADO", "CONFIRMA", "EDITA"})
BloqueanPostulacion(v) ==
  Sobre(v, {"POSTULACION", "GUARDADO", "CONFIRMA", "CIERRA"})
BloqueanPostulante == EnFase({"GUARDADO", "CONFIRMA", "INSERTA"})

----------------------------------------------------------------------------
(* analizar_cv, first without locks: the read session, whose snapshot the   *)
(* request keeps; it needs an active application and a CV of the candidate. *)

Analizable(v) ==
  /\ v \in activa
  /\ \E w \in Vacantes : codigo[w] # "NADA" /\ cv = codigo[w]
LeeAnalisis(r, v) ==
  /\ EstaLibre(r) /\ Analizable(v)
  /\ Pasa(r, "LIBRE", [Libre(v) EXCEPT !.fase = "LEIDO", !.foto = Foto(v)])
  /\ UNCHANGED datos

(* analysis_lock: "running" of the application, a probe of "persisting",    *)
(* one of the slots.  A lock it cannot take ends the request (Revierte).    *)
Toma(r) ==
  /\ Corriendo(peticion[r].v) = {}
  /\ Pasa(r, "LEIDO", [peticion[r] EXCEPT !.fase = "TOMADO",
                                          !.conexion = TRUE])
  /\ UNCHANGED datos
Sondea(r) ==
  /\ peticion[r].conexion /\ Persistiendo(peticion[r].v) = {}
  /\ Avanza(r, "TOMADO", "SONDEO")
  /\ UNCHANGED datos
TomaCupo(r) ==
  /\ peticion[r].conexion
  /\ \E c \in Cupos \ Ocupados :
       Pasa(r, "SONDEO", [peticion[r] EXCEPT !.fase = "ANALIZA", !.cupo = c])
  /\ UNCHANGED datos

(* The CV is extracted from its file, by another process that may take too  *)
(* long, and the provider answers; then lock_persistence, and _snapshot     *)
(* with its locks in the order of hiring.                                   *)
extract(r) == peticion[r].foto.cv \in archivos
Persiste(r) ==
  /\ extract(r)
  /\ Persistiendo(peticion[r].v) = {}
  /\ Avanza(r, "ANALIZA", "PERSISTE")
  /\ UNCHANGED datos
BloqueaVacante(r) ==
  /\ BloqueanVacante(peticion[r].v) = {}
  /\ Avanza(r, "PERSISTE", "VACANTE")
  /\ UNCHANGED datos
BloqueaPostulacion(r) ==
  /\ BloqueanPostulacion(peticion[r].v) = {}
  /\ Avanza(r, "VACANTE", "POSTULACION")
  /\ UNCHANGED datos

(* The candidate's row, the second reading, the comparison and the writes.  *)
RotoIntacta(r) == peticion[r].v \in activa
Intacta(r) ==
  LET v == peticion[r].v
  IN  Analizable(v) /\ Foto(v) = peticion[r].foto
GuardaAnalisis(r) ==
  /\ BloqueanPostulante = {} /\ Intacta(r)
  /\ Avanza(r, "POSTULACION", "GUARDADO")
  /\ UNCHANGED datos

(* The session locks are released, which a lost connection turns into an    *)
(* error, and the request answers; the commit comes after.                  *)
Sale(r) ==
  /\ peticion[r].conexion
  /\ Pasa(r, "GUARDADO", [peticion[r] EXCEPT
       !.fase = "CONFIRMA", !.conexion = FALSE, !.cupo = "NADA"])
  /\ UNCHANGED datos
EscribeAnalisis(r) ==
  /\ Deja(r, "CONFIRMA")
  /\ LET p == peticion[r]
     IN  puntaje' = [puntaje EXCEPT ![p.v] =
           [cv |-> p.foto.cv, edicion |-> p.foto.edicion]]
  /\ UNCHANGED <<codigo, activa, cv, archivos, edicion, requisitos>>

PierdeConexion(r) ==
  /\ peticion[r].conexion
  /\ peticion' = [peticion EXCEPT ![r].conexion = FALSE]
  /\ UNCHANGED datos

----------------------------------------------------------------------------
(* crear_postulacion_publica: a vacancy without an application of the       *)
(* candidate, a new code, the file; then the candidate's row, inserted or   *)
(* updated; then the application, unique by vacancy and candidate.          *)

RotoUsados == {}
Usados == archivos \cup {peticion[q].k : q \in Peticiones}
RotoGuardaCv(k) == archivos
GuardaCv(k) == archivos \cup {k}
LeePostular(r, v, k) ==
  /\ codigo[v] = "NADA" /\ k \notin Usados
  /\ Pasa(r, "LIBRE", [Libre(v) EXCEPT !.fase = "ARCHIVO", !.k = k])
  /\ archivos' = GuardaCv(k)
  /\ UNCHANGED <<codigo, activa, cv, edicion, requisitos, puntaje>>
upsert_postulante(r) ==
  /\ BloqueanPostulante = {}
  /\ Avanza(r, "ARCHIVO", "INSERTA")
  /\ UNCHANGED datos
create_postulacion(r) ==
  LET p == peticion[r]
  IN
  /\ codigo[p.v] = "NADA"
  /\ Deja(r, "INSERTA")
  /\ codigo' = [codigo EXCEPT ![p.v] = p.k]
  /\ activa' = activa \cup {p.v}
  /\ cv' = p.k
  /\ UNCHANGED <<archivos, edicion, requisitos, puntaje>>

(* The vacancy is edited: its UPDATE locks the row until the commit, which  *)
(* may also give it other skills; emptying them touches no row that the     *)
(* analysis locks.                                                          *)
OrdenaEdicion(r, v) ==
  /\ edicion[v] < MaxEdiciones /\ BloqueanVacante(v) = {}
  /\ Pasa(r, "LIBRE", [Libre(v) EXCEPT !.fase = "EDITA"])
  /\ UNCHANGED datos
EscribeEdicion(r) ==
  /\ Deja(r, "EDITA")
  /\ edicion' = [edicion EXCEPT ![peticion[r].v] = @ + 1]
  /\ requisitos' = requisitos \cup {peticion[r].v}
  /\ UNCHANGED <<codigo, activa, cv, archivos, puntaje>>
VaciaRequisitos(v) ==
  /\ v \in requisitos
  /\ requisitos' = requisitos \ {v}
  /\ UNCHANGED <<codigo, activa, cv, archivos, edicion, puntaje, peticion>>

(* The application is rejected or hired, with its row locked.               *)
BloqueaCierre(r, v) ==
  /\ v \in activa /\ BloqueanPostulacion(v) = {}
  /\ Pasa(r, "LIBRE", [Libre(v) EXCEPT !.fase = "CIERRA"])
  /\ UNCHANGED datos
EscribeCierre(r) ==
  /\ Deja(r, "CIERRA")
  /\ activa' = activa \ {peticion[r].v}
  /\ UNCHANGED <<codigo, cv, archivos, edicion, requisitos, puntaje>>

(* Any error or a crash: the transaction and the session locks are undone,  *)
(* the files are not.                                                       *)
Revierte(r) ==
  /\ ~ EstaLibre(r)
  /\ Deja(r, peticion[r].fase)
  /\ UNCHANGED datos

----------------------------------------------------------------------------
Init ==
  /\ codigo = [v \in Vacantes |-> "NADA"]
  /\ activa = {} /\ cv = "NADA" /\ archivos = {}
  /\ edicion = [v \in Vacantes |-> 0]
  /\ requisitos \in SUBSET Vacantes
  /\ puntaje = [v \in Vacantes |-> SinPuntaje]
  /\ peticion = [r \in Peticiones |-> Libre(CHOOSE v \in Vacantes : TRUE)]

analysis_lock(r) == Toma(r) \/ Sondea(r) \/ TomaCupo(r) \/ Sale(r)
analizar_cv(r) ==
  \/ \E v \in Vacantes : LeeAnalisis(r, v)
  \/ analysis_lock(r)
  \/ Persiste(r) \/ BloqueaVacante(r) \/ BloqueaPostulacion(r)
  \/ GuardaAnalisis(r) \/ EscribeAnalisis(r) \/ PierdeConexion(r)
analizar(r) == analizar_cv(r)
crear_postulacion_publica(r) ==
  \/ \E v \in Vacantes, k \in Codigos : LeePostular(r, v, k)
  \/ upsert_postulante(r) \/ create_postulacion(r)

Next ==
  \/ \E r \in Peticiones :
       \/ analizar(r) \/ crear_postulacion_publica(r) \/ Revierte(r)
       \/ EscribeEdicion(r) \/ EscribeCierre(r)
       \/ \E v \in Vacantes : OrdenaEdicion(r, v) \/ BloqueaCierre(r, v)
  \/ \E v \in Vacantes : VaciaRequisitos(v)

Spec == Init /\ [][Next]_vars

----------------------------------------------------------------------------
(* The rows and the requests are of their types; an active application has  *)
(* its code, and no code names two.                                         *)
TypeOK ==
  LET NoNada(C) == C \cup {"NADA"}
  IN
  /\ codigo \in [Vacantes -> NoNada(Codigos)]
  /\ \A v \in activa : codigo[v] # "NADA"
  /\ \A v, w \in Vacantes : codigo[v] = codigo[w] => v = w \/ codigo[v] = "NADA"
  /\ activa \cup requisitos \subseteq Vacantes
  /\ cv \in CvPostulante /\ archivos \subseteq Codigos
  /\ edicion \in [Vacantes -> 0..MaxEdiciones]
  /\ puntaje \in
       [Vacantes -> [cv : NoNada(Codigos), edicion : 0..MaxEdiciones]]
  /\ peticion \in [Peticiones ->
       [fase : Curso \cup {"LIBRE", "LEIDO", "CONFIRMA", "ARCHIVO", "INSERTA",
                           "EDITA", "CIERRA"},
        v : Vacantes, k : NoNada(Codigos), cupo : NoNada(Cupos),
        foto : [cv : NoNada(Codigos), edicion : 0..MaxEdiciones,
                requisitos : BOOLEAN],
        conexion : BOOLEAN]]
  /\ \A r \in Peticiones : peticion[r].conexion => peticion[r].fase \in Curso

(* One analysis of an application at a time: while one whose connection is  *)
(* up is with the provider or saving, no other of the same application is   *)
(* with the provider or waits for its commit (analysis_lock).               *)
EnProveedor == Curso \ {"TOMADO", "SONDEO"}
UnaPorPostulacion ==
  \A v \in Vacantes, r \in Conectadas : r \in Sobre(v, EnProveedor) =>
    \A q \in Sobre(v, EnProveedor \cup {"CONFIRMA"}) \ {r} :
      q \notin Conectadas /\ peticion[q].fase # "CONFIRMA"

(* A score is given to an active application, from the CV the candidate has *)
(* and the vacancy as it is at that moment (analizar_cv).  The skills       *)
(* required are compared too, but nothing holds them until the commit.      *)
AnalisisVigente ==
  [][\A v \in Vacantes : puntaje'[v] # puntaje[v] =>
       /\ v \in activa
       /\ puntaje'[v].cv = cv /\ puntaje'[v].edicion = edicion[v]]_vars

(* The CV of the candidate is the one that an application of his brought,   *)
(* and its file is in the storage, whatever fails between the file and the  *)
(* commit (CrearPostulacionPublica.execute, owns_cv).                       *)
CvConArchivo ==
  /\ cv # "NADA" => cv \in archivos /\ \E v \in Vacantes : codigo[v] = cv
  /\ \A v \in Vacantes : codigo[v] # "NADA" => codigo[v] \in archivos

(* Analyses and applications that cross leave one analysis at a time, of a  *)
(* CV that is there.                                                        *)
AnalisisCoherente == UnaPorPostulacion /\ CvConArchivo

(* What is saved is of that analysis, of that CV and of that vacancy.       *)
AnalisisFirme == []AnalisisCoherente /\ AnalisisVigente
=============================================================================
