------------------------ MODULE RestauracionEmpresa ------------------------
(***************************************************************************)
(* What a copy of a company holds and what restoring it does: the rows and *)
(* the files of the company, the documents and CVs that arrive meanwhile,  *)
(* the packages, the safety copy, and the replacement of rows and files    *)
(* under the lock of the company.  RespaldosEmpresa models the queue of    *)
(* the jobs that make the copies; here a copy is what it contains.         *)
(*                                                                         *)
(* Files are written outside the transaction.  A restore that fails puts   *)
(* them back after its transaction, and with it the lock of the company,   *)
(* is gone.  Ordenadas says that no restore begins in that gap.            *)
(***************************************************************************)
EXTENDS Naturals, Sequences

CONSTANTS
  Documentos,   \* rows that have a file: documents of employees, CVs
  Usuarios,     \* rows that the log of events may name: accounts
  Peticiones,   \* requests in flight
  Ordenadas,    \* no restore begins while another puts its files back
  MaxCopias     \* bound on the copies

VARIABLES
  filas,      \* the rows of the company
  disco,      \* the files on the volume
  bitacora,   \* the accounts named by the immutable table bitacora
  copias,     \* the packages of the COMPLETADO copies: rows and files
  peticion

vars == <<filas, disco, bitacora, copias, peticion>>

----------------------------------------------------------------------------
Cosas == Documentos \cup Usuarios

(* The closed format: every file in the package belongs to one of its rows, *)
(* and every row that has a file has it there.                              *)
Valida(k) ==
  k \in DOMAIN copias /\ copias[k].archivos = copias[k].filas \cap Documentos
Guardado == UNION {copias[k].filas : k \in {j \in DOMAIN copias : Valida(j)}}

(* nuevos: the files a restore put where there was none.                    *)
Reposo == [op |-> "libre"]
Peticion ==
  {Reposo}
  \cup [op : {"sube"}, d : Documentos]
  \cup [op : {"copia"}, foto : SUBSET Cosas]
  \cup [op : {"seguridad", "copiada"}, k : 1 .. MaxCopias, foto : SUBSET Cosas]
  \cup [op : {"instala"}, k : 1 .. MaxCopias, foto : SUBSET Cosas,
        nuevos : SUBSET Documentos]
  \cup [op : {"deshace"}, nuevos : SUBSET Documentos]

En(p, op) == peticion[p].op = op
Pasa(p, m) == peticion' = [peticion EXCEPT ![p] = m]

(* Rows of the company refer to its row, so their insertion waits for the   *)
(* restore that holds it FOR UPDATE.                                        *)
EmpresaLibre == \A p \in Peticiones : ~ En(p, "instala")

(* Identifiers, names of documents and tracking codes are never repeated.   *)
Inedita(x) ==
  /\ x \notin filas \cup disco
  /\ \A k \in DOMAIN copias : x \notin copias[k].filas
  /\ \A p \in Peticiones :
       /\ En(p, "sube") => peticion[p].d # x
       /\ peticion[p].op \in {"copia", "seguridad", "copiada", "instala"} =>
            x \notin peticion[p].foto

Init ==
  /\ filas = {} /\ disco = {} /\ bitacora = {}
  /\ copias = <<>>
  /\ peticion = [p \in Peticiones |-> Reposo]

----------------------------------------------------------------------------
(* The company at work. *)

(* The file is on the volume before the row exists.                         *)
SubeArchivo(p, d) ==
  /\ En(p, "libre") /\ Inedita(d)
  /\ disco' = disco \cup {d}
  /\ Pasa(p, [op |-> "sube", d |-> d])
  /\ UNCHANGED <<filas, bitacora, copias>>

InsertaFila(p) ==
  /\ En(p, "sube") /\ EmpresaLibre
  /\ filas' = filas \cup {peticion[p].d}
  /\ Pasa(p, Reposo)
  /\ UNCHANGED <<disco, bitacora, copias>>

AltaUsuario(u) ==
  /\ Inedita(u) /\ EmpresaLibre
  /\ filas' = filas \cup {u}
  /\ UNCHANGED <<disco, bitacora, copias, peticion>>

(* An event names its author; bitacora.usuario_id is RESTRICT.              *)
Actua(u) ==
  /\ u \in filas /\ EmpresaLibre
  /\ bitacora' = bitacora \cup {u}
  /\ UNCHANGED <<filas, disco, copias, peticion>>

(* "Los archivos antiguos no referenciados ... requieren limpieza           *)
(* administrada": by hand, when nothing is going on.                        *)
Limpia(d) ==
  /\ d \in disco \ filas
  /\ \A p \in Peticiones : En(p, "libre")
  /\ disco' = disco \ {d}
  /\ UNCHANGED <<filas, bitacora, copias, peticion>>

----------------------------------------------------------------------------
(* Copies.  The rows are one REPEATABLE READ snapshot; the files are read   *)
(* after it, and a file that is missing makes the package fail.             *)

Empaqueta(foto) ==
  /\ EmpresaLibre /\ Len(copias) < MaxCopias
  /\ foto \cap Documentos \subseteq disco
  /\ copias' = Append(copias,
       [filas |-> foto, archivos |-> foto \cap Documentos])

LeeCopia(p) ==
  /\ En(p, "libre")
  /\ Pasa(p, [op |-> "copia", foto |-> filas])
  /\ UNCHANGED <<filas, disco, bitacora, copias>>

EscribeCopia(p) ==
  /\ En(p, "copia") /\ Empaqueta(peticion[p].foto)
  /\ Pasa(p, Reposo)
  /\ UNCHANGED <<filas, disco, bitacora>>

----------------------------------------------------------------------------
(* The restore of copy k: it is downloaded, its checksum compared and its   *)
(* format validated; the safety copy is taken and kept; then the company is *)
(* locked.                                                                  *)

Pide(p, k) ==
  /\ En(p, "libre") /\ Valida(k)
  /\ Pasa(p, [op |-> "seguridad", k |-> k, foto |-> filas])
  /\ UNCHANGED <<filas, disco, bitacora, copias>>

Asegura(p) ==
  /\ En(p, "seguridad") /\ Empaqueta(peticion[p].foto)
  /\ Pasa(p, [peticion[p] EXCEPT !.op = "copiada"])
  /\ UNCHANGED <<filas, disco, bitacora>>

(* A copy in progress has its job PENDIENTE or PROCESANDO.                  *)
SinActivos == \A q \in Peticiones : ~ En(q, "copia")

(* install_files keeps aside what it replaces.                              *)
RotoNuevos(k) == copias[k].archivos
Nuevos(k) == copias[k].archivos \ disco

Instala(p) ==
  LET m == peticion[p] IN
  /\ En(p, "copiada") /\ EmpresaLibre /\ SinActivos
  /\ Ordenadas => \A q \in Peticiones : ~ En(q, "deshace")
  /\ disco' = disco \cup copias[m.k].archivos
  /\ Pasa(p, [op |-> "instala", k |-> m.k, foto |-> m.foto,
              nuevos |-> Nuevos(m.k)])
  /\ UNCHANGED <<filas, bitacora, copias>>

(* The accounts made after the copy that the log of events names.           *)
SinPosteriores(k) == (filas \ copias[k].filas) \cap bitacora = {}

(* replace_tenant_rows and the commit: all the rows but those of bitacora.  *)
Reemplaza(p) ==
  /\ En(p, "instala") /\ SinPosteriores(peticion[p].k)
  /\ filas' = copias[peticion[p].k].filas
  /\ Pasa(p, Reposo)
  /\ UNCHANGED <<disco, bitacora, copias>>

(* The rollback, and after it, without the lock, undo_files.                *)
Falla(p) ==
  /\ En(p, "instala")
  /\ Pasa(p, [op |-> "deshace", nuevos |-> peticion[p].nuevos])
  /\ UNCHANGED <<filas, disco, bitacora, copias>>

Deshace(p) ==
  /\ En(p, "deshace")
  /\ disco' = disco \ peticion[p].nuevos
  /\ Pasa(p, Reposo)
  /\ UNCHANGED <<filas, bitacora, copias>>

(* A request is refused or fails, or the process dies: nothing else.        *)
Abandona(p) ==
  /\ ~ En(p, "libre")
  /\ Pasa(p, Reposo)
  /\ UNCHANGED <<filas, disco, bitacora, copias>>

----------------------------------------------------------------------------
upload_document(p) == InsertaFila(p) \/ \E d \in Documentos : SubeArchivo(p, d)
create_tenant_package(p) == LeeCopia(p) \/ EscribeCopia(p)
restore_tenant_backup(p) ==
  \/ \E k \in 1 .. MaxCopias : Pide(p, k)
  \/ Asegura(p) \/ Instala(p) \/ Reemplaza(p) \/ Falla(p) \/ Deshace(p)

Next ==
  \/ \E p \in Peticiones :
       \/ upload_document(p) \/ create_tenant_package(p)
       \/ restore_tenant_backup(p) \/ Abandona(p)
  \/ \E u \in Usuarios : AltaUsuario(u) \/ Actua(u)
  \/ \E d \in Documentos : Limpia(d)

Spec == Init /\ [][Next]_vars

----------------------------------------------------------------------------
TypeOK ==
  /\ filas \subseteq Cosas /\ disco \subseteq Documentos
  /\ bitacora \subseteq Usuarios
  /\ copias \in
       Seq([filas : SUBSET Cosas, archivos : SUBSET Documentos])
  /\ Len(copias) <= MaxCopias
  /\ peticion \in [Peticiones -> Peticion]

(* Every document and CV the company lists can be downloaded, whatever      *)
(* restores cross, fail half way, put files back or die.                    *)
Descargable(d) == d \in filas /\ d \in disco
ConArchivo == \A d \in filas \cap Documentos : Descargable(d)

(* Restoring an old copy never takes away the author of an event.           *)
ConAutor == bitacora \subseteq filas

(* The return point: a row a restore takes away is, with its file, in a     *)
(* valid copy, unless it arrived after the safety copy was read.            *)
PuntoDeRetorno ==
  [][\A x \in filas \ filas' :
       \/ x \in Guardado
       \/ \E p \in Peticiones :
            En(p, "instala") /\ x \notin peticion[p].foto]_vars

(* A company that is restored keeps its files, the authors of its events    *)
(* and the way back.                                                        *)
RestauracionFirme == [](ConArchivo /\ ConAutor) /\ PuntoDeRetorno
=============================================================================
