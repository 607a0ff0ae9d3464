--------------------------- MODULE RespaldoGlobal ---------------------------
(***************************************************************************)
(* The backups of the whole system: the rows of table respaldo, the        *)
(* packages in the private bucket, and the tasks, in the process of the    *)
(* API, that make a package, delete one, or put everything back.           *)
(*                                                                         *)
(* Table respaldo is in the dumps: a restore brings it back too, as it was *)
(* when the dump was taken, with the row of that very backup in PROCESANDO *)
(* and without its route.  The bucket stays as it is.                      *)
(*                                                                         *)
(* Apartada: "no operes el sistema hasta que finalice", nor start while    *)
(* something else is going on; no code refuses it.  Entera: a restore does *)
(* not die or fail while it replaces the files.                            *)
(***************************************************************************)
EXTENDS Naturals, FiniteSets

CONSTANTS
  Respaldos,    \* identifiers of backups
  Tareas,       \* requests and background tasks in flight
  Documentos,   \* rows that have a file under backup_files_directory
  Apartada,
  Entera

VARIABLES
  fila,       \* table respaldo
  paquete,    \* the bucket
  datos,      \* the rest of the database: the rows that have a file
  archivos,   \* the files
  tarea

vars == <<fila, paquete, datos, archivos, tarea>>

----------------------------------------------------------------------------
Ninguna == [estado |-> "NINGUNA", ruta |-> FALSE]
Filas ==
  [estado : {"NINGUNA", "PENDIENTE", "PROCESANDO", "COMPLETADO", "FALLIDO",
             "RESTAURACION_PENDIENTE", "RESTAURANDO"},
   ruta : BOOLEAN]
Vacio == [hay |-> FALSE]
Paquete ==
  {Vacio} \cup [hay : {TRUE}, fila : [Respaldos -> Filas],
                datos : SUBSET Documentos, archivos : SUBSET Documentos]

Libre == [op |-> "libre"]
En(t, op) == tarea[t].op = op
Pasa(t, m) == tarea' = [tarea EXCEPT ![t] = m]
Avanza(t, op) == Pasa(t, [tarea[t] EXCEPT !.op = op])
Hay(r) == fila[r].estado # "NINGUNA"

Restaurando(t) ==
  tarea[t].op \in {"restaura", "aplica", "borra", "repone", "termina"}
SinRestaurar == \A t \in Tareas : ~ Restaurando(t)
SinTareas == \A t \in Tareas : En(t, "libre")
Empieza(t) == En(t, "libre") /\ (Apartada => SinRestaurar)

(* The UPDATE of a row that is not there matches nothing: the task ends.    *)
Pone(r, estado) ==
  fila' = IF Hay(r) THEN [fila EXCEPT ![r].estado = estado] ELSE fila

Init ==
  /\ fila = [r \in Respaldos |-> Ninguna]
  /\ paquete = [r \in Respaldos |-> Vacio]
  /\ datos = {} /\ archivos = {}
  /\ tarea = [t \in Tareas |-> Libre]

----------------------------------------------------------------------------
(* The system at work: a file, and then the row that names it.              *)

Sube(t, d) ==
  /\ Empieza(t) /\ d \notin datos \cup archivos
  /\ archivos' = archivos \cup {d}
  /\ Pasa(t, [op |-> "sube", d |-> d])
  /\ UNCHANGED <<fila, paquete, datos>>

Anota(t) ==
  /\ En(t, "sube")
  /\ datos' = datos \cup {tarea[t].d}
  /\ Pasa(t, Libre)
  /\ UNCHANGED <<fila, paquete, archivos>>

----------------------------------------------------------------------------
(* create_backup and create_backup_job. *)

Inedito(r) ==
  /\ ~ Hay(r) /\ paquete[r] = Vacio
  /\ \A s \in Respaldos :
       paquete[s] # Vacio => paquete[s].fila[r] = Ninguna
  /\ \A t \in Tareas : ~ En(t, "libre") /\ ~ En(t, "sube") => tarea[t].r # r

Solicita(t, r) ==
  /\ Empieza(t) /\ Inedito(r)
  /\ fila' = [fila EXCEPT ![r].estado = "PENDIENTE"]
  /\ Pasa(t, [op |-> "crea", r |-> r])
  /\ UNCHANGED <<paquete, datos, archivos>>

Procesa(t) ==
  /\ En(t, "crea")
  /\ Pone(tarea[t].r, "PROCESANDO")
  /\ IF Hay(tarea[t].r) THEN Avanza(t, "vuelca") ELSE Pasa(t, Libre)
  /\ UNCHANGED <<paquete, datos, archivos>>

(* pg_dump sees one snapshot.                                               *)
Vuelca(t) ==
  /\ En(t, "vuelca")
  /\ Pasa(t, [op |-> "empaca", r |-> tarea[t].r, fila |-> fila,
              datos |-> datos])
  /\ UNCHANGED <<fila, paquete, datos, archivos>>

(* The files, after the dump; the upload.                                   *)
Empaca(t) ==
  LET m == tarea[t] IN
  /\ En(t, "empaca")
  /\ paquete' = [paquete EXCEPT ![m.r] =
       [hay |-> TRUE, fila |-> m.fila, datos |-> m.datos,
        archivos |-> archivos]]
  /\ Pasa(t, [op |-> "registra", r |-> m.r])
  /\ UNCHANGED <<fila, datos, archivos>>

Registra(t) ==
  LET r == tarea[t].r IN
  /\ En(t, "registra")
  /\ fila' = IF Hay(r)
             THEN [fila EXCEPT ![r] = [estado |-> "COMPLETADO", ruta |-> TRUE]]
             ELSE fila
  /\ Pasa(t, Libre)
  /\ UNCHANGED <<paquete, datos, archivos>>

FallaCrear(t) ==
  /\ tarea[t].op \in {"vuelca", "empaca", "registra"}
  /\ Pone(tarea[t].r, "FALLIDO")
  /\ Pasa(t, Libre)
  /\ UNCHANGED <<paquete, datos, archivos>>

----------------------------------------------------------------------------
(* delete_backup: the object first, then the row. *)

EnCurso(r) ==
  fila[r].estado \in {"PROCESANDO", "RESTAURANDO", "RESTAURACION_PENDIENTE"}

BorraObjeto(t, r) ==
  /\ Empieza(t) /\ Hay(r) /\ ~ EnCurso(r)
  /\ paquete' = IF fila[r].ruta THEN [paquete EXCEPT ![r] = Vacio] ELSE paquete
  /\ Pasa(t, [op |-> "elimina", r |-> r])
  /\ UNCHANGED <<fila, datos, archivos>>

BorraFila(t) ==
  /\ En(t, "elimina")
  /\ fila' = [fila EXCEPT ![tarea[t].r] = Ninguna]
  /\ Pasa(t, Libre)
  /\ UNCHANGED <<paquete, datos, archivos>>

----------------------------------------------------------------------------
(* restore_backup and restore_backup_job. *)

Disponible(r) == fila[r].estado = "COMPLETADO" /\ fila[r].ruta

Programa(t, r) ==
  /\ Empieza(t) /\ Disponible(r)
  /\ Apartada => SinTareas
  /\ Pone(r, "RESTAURACION_PENDIENTE")
  /\ Pasa(t, [op |-> "restaura", r |-> r])
  /\ UNCHANGED <<paquete, datos, archivos>>

Restaura(t) ==
  LET r == tarea[t].r IN
  /\ En(t, "restaura")
  /\ IF fila[r].ruta
     THEN Pone(r, "RESTAURANDO") /\ Avanza(t, "aplica")
     ELSE UNCHANGED fila /\ Pasa(t, Libre)
  /\ UNCHANGED <<paquete, datos, archivos>>

(* The package is downloaded and its checksum compared; pg_restore in one   *)
(* transaction.  The task keeps the extracted files.                        *)
Aplica(t) ==
  LET m == tarea[t] IN
  /\ En(t, "aplica") /\ paquete[m.r] # Vacio
  /\ fila' = paquete[m.r].fila
  /\ datos' = paquete[m.r].datos
  /\ Pasa(t, [op |-> "borra", r |-> m.r, archivos |-> paquete[m.r].archivos])
  /\ UNCHANGED <<paquete, archivos>>

(* _restore_files: rmtree and copytree.                                     *)
Borra(t) ==
  /\ En(t, "borra")
  /\ archivos' = {}
  /\ Avanza(t, "repone")
  /\ UNCHANGED <<fila, paquete, datos>>

RotoRepone(t) ==
  /\ En(t, "repone")
  /\ Pasa(t, [op |-> "termina", r |-> tarea[t].r])
  /\ UNCHANGED <<fila, paquete, datos, archivos>>
Repone(t) ==
  /\ En(t, "repone")
  /\ archivos' = tarea[t].archivos
  /\ Pasa(t, [op |-> "termina", r |-> tarea[t].r])
  /\ UNCHANGED <<fila, paquete, datos>>

Termina(t) ==
  /\ En(t, "termina")
  /\ Pone(tarea[t].r, "COMPLETADO")
  /\ Pasa(t, Libre)
  /\ UNCHANGED <<paquete, datos, archivos>>

FallaRestaurar(t) ==
  /\ En(t, "aplica") \/ (~ Entera /\ tarea[t].op \in {"borra", "repone"})
  /\ Pone(tarea[t].r, "FALLIDO")
  /\ Pasa(t, Libre)
  /\ UNCHANGED <<paquete, datos, archivos>>

----------------------------------------------------------------------------
(* The process stops: its tasks are nowhere else.                           *)
Cae ==
  /\ Entera => \A t \in Tareas : ~ En(t, "borra") /\ ~ En(t, "repone")
  /\ tarea' = [t \in Tareas |-> Libre]
  /\ UNCHANGED <<fila, paquete, datos, archivos>>

create_backup_job(t) ==
  Procesa(t) \/ Vuelca(t) \/ Empaca(t) \/ Registra(t) \/ FallaCrear(t)
restore_backup_job(t) ==
  \/ Restaura(t) \/ Aplica(t) \/ Borra(t) \/ Repone(t) \/ Termina(t)
  \/ FallaRestaurar(t)

Next ==
  \/ \E t \in Tareas :
       \/ create_backup_job(t) \/ restore_backup_job(t)
       \/ Anota(t) \/ BorraFila(t)
       \/ \E d \in Documentos : Sube(t, d)
       \/ \E r \in Respaldos :
            Solicita(t, r) \/ BorraObjeto(t, r) \/ Programa(t, r)
  \/ Cae

Spec == Init /\ [][Next]_vars

----------------------------------------------------------------------------
TypeOK ==
  /\ fila \in [Respaldos -> Filas]
  /\ \A r \in Respaldos : paquete[r] \in Paquete
  /\ datos \subseteq Documentos /\ archivos \subseteq Documentos
  /\ DOMAIN tarea = Tareas

(* A package holds the file of every row in its dump, whatever was being    *)
(* uploaded while it was made.                                              *)
PaqueteCompleto ==
  \A r \in Respaldos :
    paquete[r] # Vacio => paquete[r].datos \subseteq paquete[r].archivos

(* Outside a restore every row of the database has its file.                *)
FilasConArchivo == SinRestaurar => datos \subseteq archivos

(* Backups and restores of the whole system keep rows and files together.   *)
GlobalSegura == PaqueteCompleto /\ FilasConArchivo
=============================================================================
