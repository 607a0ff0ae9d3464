CONSTANTS
  Tramites = {p1, p2}
  Dias = {1, 2}
  PrimerDia = 1
  UltimoDia = 2
  Valores = {10, 15}
  Haberes = {100}
  Extras = {0, 15}
  Retenciones = {0, 120}
  Datos <- MCDatos
  Semilla <- MCSemilla
  ReglasNuevas <- MCReglasNuevas
  Tramos <- MCTramos
  MaxValores = 2
  Nombres = {"a", "b"}
  Archivos <- MCArchivos
  ArchivosEtapas <- MCArchivosEtapas
  EtapasBase <- MCEtapasBase
  Fechas = {1, 2}
  Campos = {"afp"}
  Porcentajes = {10, 20}
  MaxFilas = 3
  MaxPeriodos = 2
  Habilidades = {h1, h2}
  Vacantes = {v1}
  NULL = NULL
SPECIFICATION SpecMC
SYMMETRY Simetria
INVARIANTS
  TiposConfiguracion
PROPERTIES
  NominaCuadra
  CatalogoCoherente
  PermisosFirmes
CHECK_DEADLOCK FALSE
