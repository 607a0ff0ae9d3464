----------------------------- MODULE Catalogos -----------------------------
(***************************************************************************)
(* The catalogues of a company: departments in a hierarchy and the         *)
(* positions that belong to them, edited one at a time or imported from a  *)
(* file, the recruitment stages a file may add, and the periods of the     *)
(* labour parameters.  No handler locks anything: each reads, checks, and  *)
(* writes later, and only the constraints of the tables stand between two  *)
(* requests that overlap.                                                  *)
(*                                                                         *)
(* A department and a position are both a name and a department above.     *)
(***************************************************************************)
EXTENDS Naturals, Sequences, FiniteSets, SequencesExt

CONSTANTS
  Peticiones,     \* requests in flight
  Nombres,        \* names, already trimmed and folded
  Archivos,       \* files of departments or positions: name -> name above
  EtapasBase,     \* the stages a new company gets
  ArchivosEtapas, \* files of stages: name -> [orden, inicial]
  Fechas,         \* ends of a validity
  Campos,         \* PORCENTAJES
  Porcentajes,    \* their values
  MaxFilas,       \* bound on departments and positions ever inserted
  MaxPeriodos,    \* bound on the periods
  NULL

VARIABLES
  tabla,          \* tables departamento and cargo, NULL for a deleted row
  etapas,         \* table etapa_reclutamiento
  periodos,       \* table parametro_valor of the shared catalogue
  solicitud       \* requests in flight

vars == <<tabla, etapas, periodos, solicitud>>

Tablas == {"departamento", "cargo"}

Reposo == [op |-> "libre"]
En(p, op) == solicitud[p].op = op
De(p, t) ==
  solicitud[p].op \in {"alta", "edicion", "baja"} /\ solicitud[p].tabla = t
Pasa(p, m) == solicitud' = [solicitud EXCEPT ![p] = m]

Vivas(t) == {i \in DOMAIN tabla[t] : tabla[t][i] # NULL}
ConNombre(t, n) == {i \in Vivas(t) : tabla[t][i].nombre = n}
Usados(t) == {tabla[t][i].nombre : i \in Vivas(t)}
Superiores == Vivas("departamento") \cup {NULL}
Fila(n, padre) == [nombre |-> n, padre |-> padre]

(* The fields given, over those of the row.                                 *)
Sobre(cambio, fila) ==
  [c \in DOMAIN fila |-> IF c \in DOMAIN cambio THEN cambio[c] ELSE fila[c]]

(* The unique index on the name and the foreign key to the department.      *)
Cabe(t, i, fila) ==
  /\ ConNombre(t, fila.nombre) \subseteq {i}
  /\ fila.padre \in Superiores

Init ==
  /\ tabla = [t \in Tablas |-> <<>>]
  /\ etapas = EtapasBase
  /\ periodos = <<>>
  /\ solicitud = [p \in Peticiones |-> Reposo]

----------------------------------------------------------------------------
(* Departments and positions, one at a time. *)

(* CrearCargo, ActualizarCargo check the department; a department's own     *)
(* parent is left to the foreign key.                                       *)
PadreVisto(t, padre) == t = "cargo" => padre \in Superiores

LeeAlta(p, t, fila) ==
  /\ En(p, "libre")
  /\ ConNombre(t, fila.nombre) = {}
  /\ PadreVisto(t, fila.padre)
  /\ Pasa(p, [op |-> "alta", tabla |-> t, fila |-> fila])
  /\ UNCHANGED <<tabla, etapas, periodos>>

QuedaLugar(n) ==
  Len(tabla["departamento"]) + Len(tabla["cargo"]) + n <= MaxFilas

create_departamento(t, fila) == tabla' = [tabla EXCEPT ![t] = Append(@, fila)]
EscribeAlta(p) ==
  LET m == solicitud[p] IN
  /\ En(p, "alta") /\ QuedaLugar(1)
  /\ Cabe(m.tabla, 0, m.fila)
  /\ create_departamento(m.tabla, m.fila)
  /\ Pasa(p, Reposo)
  /\ UNCHANGED <<etapas, periodos>>

(* ActualizarDepartamento, ActualizarCargo: the fields given.  Nothing      *)
(* keeps a department from becoming its own ancestor.                       *)
LeeEdicion(p, t, i, cambio) ==
  /\ En(p, "libre") /\ i \in Vivas(t)
  /\ "nombre" \in DOMAIN cambio => ConNombre(t, cambio.nombre) \subseteq {i}
  /\ "padre" \in DOMAIN cambio => PadreVisto(t, cambio.padre)
  /\ Pasa(p, [op |-> "edicion", tabla |-> t, id |-> i, cambio |-> cambio])
  /\ UNCHANGED <<tabla, etapas, periodos>>

update_cargo(t, i, fila) == tabla' = [tabla EXCEPT ![t][i] = fila]
EscribeEdicion(p) ==
  LET m == solicitud[p]
      fila == Sobre(m.cambio, tabla[m.tabla][m.id])
  IN
  /\ En(p, "edicion") /\ m.id \in Vivas(m.tabla)
  /\ Cabe(m.tabla, m.id, fila)
  /\ update_cargo(m.tabla, m.id, fila)
  /\ Pasa(p, Reposo)
  /\ UNCHANGED <<etapas, periodos>>

Debajo(t, d) == {i \in Vivas(t) : tabla[t][i].padre = d}

LeeBaja(p, t, i) ==
  /\ En(p, "libre") /\ i \in Vivas(t)
  /\ t = "departamento" => Debajo("cargo", i) = {}
  /\ Pasa(p, [op |-> "baja", tabla |-> t, id |-> i])
  /\ UNCHANGED <<tabla, etapas, periodos>>

(* The DELETE, which ON DELETE RESTRICT refuses while anything points here. *)
delete_cargo(t, i) == tabla' = [tabla EXCEPT ![t][i] = NULL]
EscribeBaja(p) ==
  LET m == solicitud[p] IN
  /\ En(p, "baja")
  /\ m.tabla = "departamento" => \A t \in Tablas : Debajo(t, m.id) = {}
  /\ delete_cargo(m.tabla, m.id)
  /\ Pasa(p, Reposo)
  /\ UNCHANGED <<etapas, periodos>>

----------------------------------------------------------------------------
(* A file of departments or of positions. *)

(* preview: some names of the file are each under another of them.          *)
Circular(a) ==
  \E c \in SUBSET DOMAIN a : c # {} /\ \A n \in c : a[n] \in c

Admisible(t, a) ==
  IF t = "cargo" THEN \A n \in DOMAIN a : a[n] \in Usados("departamento")
  ELSE /\ ~ Circular(a)
       /\ \A n \in DOMAIN a :
            a[n] \in {NULL} \cup DOMAIN a \cup Usados("departamento")

Nuevos(t, a) == DOMAIN a \ Usados(t)

LeeArchivo(p, t, a) ==
  /\ En(p, "libre") /\ Admisible(t, a) /\ Nuevos(t, a) # {}
  /\ Pasa(p, [op |-> "archivo", tabla |-> t, archivo |-> a,
              nuevos |-> Nuevos(t, a)])
  /\ UNCHANGED <<tabla, etapas, periodos>>

(* apply reads the departments again, for their identifiers.                *)
IdDe(n) == CHOOSE i \in ConNombre("departamento", n) : TRUE
ReleeDepartamentos(p) ==
  /\ En(p, "archivo")
  /\ Pasa(p, [op |-> "archivo2", pedido |-> solicitud[p],
              ids |-> [n \in Usados("departamento") |-> IdDe(n)]])
  /\ UNCHANGED <<tabla, etapas, periodos>>

(* The rounds of apply: a row goes in once its parent is known, and they    *)
(* end with every row in, or with one that no round could place.            *)
Conocidos(m) ==
  DOMAIN m.ids \cup IF m.pedido.tabla = "cargo" THEN {}
                   ELSE m.pedido.nuevos \cup {NULL}
Entran(m) ==
  IF \A n \in m.pedido.nuevos : m.pedido.archivo[n] \in Conocidos(m)
  THEN m.pedido.nuevos ELSE {}

(* The rows with their identifiers: those of the file come after the table. *)
FilasDe(m) ==
  LET t == m.pedido.tabla
      orden == SetToSeq(Entran(m))
      id(n) == Len(tabla[t]) + CHOOSE k \in DOMAIN orden : orden[k] = n
      padre(n) == CASE n = NULL -> NULL
                    [] t = "departamento" /\ n \in Entran(m) -> id(n)
                    [] OTHER -> m.ids[n]
  IN [k \in DOMAIN orden |->
        Fila(orden[k], padre(m.pedido.archivo[orden[k]]))]

EscribeArchivo(p) ==
  LET m == solicitud[p]
      t == m.pedido.tabla
      filas == FilasDe(m)
      despues == [tabla EXCEPT ![t] = @ \o filas]
  IN
  /\ En(p, "archivo2")
  /\ filas # <<>> /\ QuedaLugar(Len(filas))
  /\ \A k \in DOMAIN filas :
       /\ filas[k].nombre \notin Usados(t)
       /\ filas[k].padre # NULL =>
            despues["departamento"][filas[k].padre] # NULL
  /\ tabla' = despues
  /\ Pasa(p, Reposo)
  /\ UNCHANGED <<etapas, periodos>>

----------------------------------------------------------------------------
(* A file of stages. *)

Etapa(n, e) == [nombre |-> n, orden |-> e.orden, inicial |-> e.inicial]
HayInicial == \E e \in etapas : e.inicial
NombresEtapas == {e.nombre : e \in etapas}

RotoEtapaAdmisible(a, n) ==
  /\ \A k \in DOMAIN a \ {n} : a[k].orden # a[n].orden
  /\ n \notin NombresEtapas => \A e \in etapas : e.orden # a[n].orden
(* The row of name n, against the file and against the table.               *)
EtapaAdmisible(a, n) ==
  /\ \A k \in DOMAIN a \ {n} :
       a[k].orden # a[n].orden /\ ~ (a[k].inicial /\ a[n].inicial)
  /\ n \notin NombresEtapas =>
       /\ \A e \in etapas : e.orden # a[n].orden
       /\ ~ (a[n].inicial /\ HayInicial)

LeeEtapas(p, a) ==
  /\ En(p, "libre")
  /\ \A n \in DOMAIN a : EtapaAdmisible(a, n)
  /\ HayInicial \/ \E n \in DOMAIN a : a[n].inicial
  /\ Pasa(p, [op |-> "etapas",
              filas |-> {Etapa(n, a[n]) : n \in DOMAIN a \ NombresEtapas}])
  /\ UNCHANGED <<tabla, etapas, periodos>>

(* The unique keys on the name and on the order.                            *)
EscribeEtapas(p) ==
  LET m == solicitud[p] IN
  /\ En(p, "etapas")
  /\ \A e \in etapas, f \in m.filas : e.nombre # f.nombre /\ e.orden # f.orden
  /\ etapas' = etapas \cup m.filas
  /\ Pasa(p, Reposo)
  /\ UNCHANGED <<tabla, periodos>>

----------------------------------------------------------------------------
(* The periods of the labour parameters. *)

ValoresParametro == [Campos -> Porcentajes]
Solapa(x, y) == x.desde <= y.hasta /\ y.desde <= x.hasta

(* find_overlap, leaving out the period being edited.                       *)
Libre(x, i) == \A j \in DOMAIN periodos \ {i} : ~ Solapa(x, periodos[j])

LeePeriodo(p, x) ==
  /\ En(p, "libre")
  /\ x.desde <= x.hasta /\ Libre(x, 0)
  /\ Pasa(p, [op |-> "periodo", fila |-> x, foto |-> periodos])
  /\ UNCHANGED <<tabla, etapas, periodos>>

EscribePeriodo(p) ==
  /\ En(p, "periodo") /\ Len(periodos) < MaxPeriodos
  /\ periodos' = Append(periodos, solicitud[p].fila)
  /\ Pasa(p, Reposo)
  /\ UNCHANGED <<tabla, etapas>>

RotoCombinado(cambio, leido) ==
  Sobre(cambio.fechas, [leido EXCEPT !.valor = cambio.tasas])
(* The fields given, over the period as it was read.                        *)
Combinado(cambio, leido) ==
  Sobre(cambio.fechas, [leido EXCEPT !.valor = Sobre(cambio.tasas, @)])

LibreEdicion(x, leido, i) ==
  x.desde # leido.desde \/ x.hasta # leido.hasta => Libre(x, i)

LeeEdicionPeriodo(p, i, cambio) ==
  LET x == Combinado(cambio, periodos[i]) IN
  /\ En(p, "libre")
  /\ x.desde <= x.hasta /\ LibreEdicion(x, periodos[i], i)
  /\ Pasa(p, [op |-> "edicionPeriodo", id |-> i, fila |-> x, foto |-> periodos])
  /\ UNCHANGED <<tabla, etapas, periodos>>

(* update changes the row as this session read it, and writes the columns   *)
(* that differ from that: all the percentages are one column.               *)
EscribeEdicionPeriodo(p) ==
  LET m == solicitud[p]
      toca == {c \in {"desde", "hasta", "valor"} :
                 m.fila[c] # m.foto[m.id][c]}
  IN
  /\ En(p, "edicionPeriodo")
  /\ periodos' = [periodos EXCEPT ![m.id] =
                    Sobre([c \in toca |-> m.fila[c]], @)]
  /\ Pasa(p, Reposo)
  /\ UNCHANGED <<tabla, etapas>>

Revierte(p) ==
  /\ ~ En(p, "libre")
  /\ Pasa(p, Reposo)
  /\ UNCHANGED <<tabla, etapas, periodos>>

----------------------------------------------------------------------------
Cambios == [{"nombre"} -> Nombres] \cup [{"padre"} -> Superiores]
Periodo == [desde : Fechas, hasta : Fechas, valor : ValoresParametro]
(* What an edition gives: one date, both, or one percentage.                *)
CambiosPeriodo ==
  [fechas : UNION {[s -> Fechas] : s \in SUBSET {"desde", "hasta"}},
   tasas : (UNION {[{c} -> Porcentajes] : c \in Campos}) \cup {<<>>}]

(* One operator for each endpoint: its steps.  A write is of the endpoint   *)
(* whose request it ends.                                                   *)
Crea(p, t) ==
  \/ \E n \in Nombres, d \in Superiores : LeeAlta(p, t, Fila(n, d))
  \/ De(p, t) /\ EscribeAlta(p)
Actualiza(p, t) ==
  \/ \E i \in Vivas(t), c \in Cambios : LeeEdicion(p, t, i, c)
  \/ De(p, t) /\ EscribeEdicion(p)
Elimina(p, t) ==
  \/ \E i \in Vivas(t) : LeeBaja(p, t, i)
  \/ De(p, t) /\ EscribeBaja(p)

crear_departamento(p) == Crea(p, "departamento")
actualizar_departamento(p) == Actualiza(p, "departamento")
eliminar_departamento(p) == Elimina(p, "departamento")
crear_cargo(p) == Crea(p, "cargo")
actualizar_cargo(p) == Actualiza(p, "cargo")
eliminar_cargo(p) == Elimina(p, "cargo")

confirmar(p) ==
  \/ \E t \in Tablas, a \in Archivos : LeeArchivo(p, t, a)
  \/ ReleeDepartamentos(p)
  \/ EscribeArchivo(p)

Organiza(p) ==
  \/ crear_departamento(p) \/ actualizar_departamento(p)
  \/ eliminar_departamento(p)
  \/ crear_cargo(p) \/ actualizar_cargo(p) \/ eliminar_cargo(p)
  \/ confirmar(p)

Etapea(p) ==
  \/ \E a \in ArchivosEtapas : LeeEtapas(p, a)
  \/ EscribeEtapas(p)

crear_parametros(p) ==
  \/ \E x \in Periodo : LeePeriodo(p, x)
  \/ EscribePeriodo(p)
actualizar_parametros(p) ==
  \/ \E i \in DOMAIN periodos, c \in CambiosPeriodo :
       LeeEdicionPeriodo(p, i, c)
  \/ EscribeEdicionPeriodo(p)
Parametriza(p) == crear_parametros(p) \/ actualizar_parametros(p)

Next ==
  \E p \in Peticiones :
    Organiza(p) \/ Etapea(p) \/ Parametriza(p) \/ Revierte(p)

Spec == Init /\ [][Next]_vars

----------------------------------------------------------------------------
(* What must hold. *)

TypeOK ==
  /\ \A t \in Tablas : \A i \in Vivas(t) :
       tabla[t][i] \in [nombre : Nombres, padre : 1..MaxFilas \cup {NULL}]
  /\ EtapasBase \subseteq etapas
  /\ \A i \in DOMAIN periodos : periodos[i] \in Periodo
  /\ Len(periodos) <= MaxPeriodos

(* What references a department finds it, no two rows share a name, and     *)
(* candidates always have one first stage to enter by.                      *)
Referencias ==
  \A t \in Tablas : \A i \in Vivas(t) :
    /\ tabla[t][i].padre \in Superiores
    /\ ConNombre(t, tabla[t][i].nombre) = {i}
UnaInicial == Cardinality({e \in etapas : e.inicial}) = 1

Termina(p, op) == En(p, op) /\ solicitud'[p] = Reposo

(* A file goes in whole or not at all: no row in it is left out, each new   *)
(* one is under what the file says when the file itself brings it, and what *)
(* was in the table stays as it was.                                        *)
ImportaTodo ==
  [][\A p \in Peticiones :
       Termina(p, "archivo2") /\ tabla' # tabla =>
         LET m == solicitud[p].pedido
             antes == tabla[m.tabla]
             ahora == tabla'[m.tabla]
             fila(n) == CHOOSE i \in DOMAIN ahora :
                          i > Len(antes) /\ ahora[i].nombre = n
         IN /\ SubSeq(ahora, 1, Len(antes)) = antes
            /\ {ahora[i].nombre : i \in Len(antes) + 1..Len(ahora)} = m.nuevos
            /\ m.tabla = "departamento" =>
                 \A n \in m.nuevos : m.archivo[n] \in m.nuevos =>
                   ahora[fila(n)].padre = fila(m.archivo[n])]_vars

(* Only an edition can close a cycle in the hierarchy: no department added, *)
(* alone or from a file, does.                                              *)
Ciclo(ds) ==
  \E c \in SUBSET DOMAIN ds :
    /\ c # {}
    /\ \A i \in c : ds[i] # NULL /\ ds[i].padre \in c
SoloEdicionCicla ==
  [][Ciclo(tabla'["departamento"]) /\ ~ Ciclo(tabla["departamento"])
       => \E p \in Peticiones : Termina(p, "edicion")]_vars

(* A period registered or edited with nothing committed since it was        *)
(* checked keeps the periods in order, none over another, even when the     *)
(* edition gives one end and takes the other from the row.                  *)
Ordenados(ps) ==
  /\ \A i \in DOMAIN ps : ps[i].desde <= ps[i].hasta
  /\ \A i, j \in DOMAIN ps : i # j => ~ Solapa(ps[i], ps[j])
PeriodosOrdenados ==
  [][\A p \in Peticiones :
       /\ Termina(p, "periodo") \/ Termina(p, "edicionPeriodo")
       /\ solicitud[p].foto = periodos /\ Ordenados(periodos)
       => Ordenados(periodos')]_vars

(* The catalogues stay coherent under requests that overlap.                *)
CatalogoCoherente ==
  /\ [](Referencias /\ UnaInicial)
  /\ ImportaTodo /\ SoloEdicionCicla /\ PeriodosOrdenados
=============================================================================
