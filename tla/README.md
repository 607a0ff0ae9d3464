# Verification of backend_ssas_rrhh

TLA+ models of the human-resources backend in `src/`, the TLC configurations
that check them on small instances, and proofs that TLAPS checks for every
instance. Identifiers are in Spanish, as in the code. Paths below are relative
to `src/src/ssas/` unless they start with `docs/`, `main.py` or `README.md`.

1. The system
2. The modules
3. What is checked
4. Premises
5. Divergences
6. What is proved
7. What is only model-checked
8. What is not modelled, and why
9. Plan

## 1. The system

A multi-tenant HR backend: FastAPI, SQLAlchemy (asyncio) and PostgreSQL; Stripe
for subscriptions, an object store (R2) for backups, Gemini for CV analysis.
Every HTTP request runs in one transaction (`infrastructure/database/session.py`,
`get_session`): commit after the handler, rollback on any exception. No isolation
level is set, so every transaction is READ COMMITTED: a SELECT sees what was
committed when it starts, an unlocked row may change before the UPDATE that
follows, and only `with_for_update`, unique indexes, foreign keys and advisory
locks serialise requests. That is where most of the difficulty of this code lies.

| component | state it keeps | operations | interacts through | what makes it correct |
|---|---|---|---|---|
| vacantes | `vacante.estado`, places, closing date, required skills | crear, actualizar, publicar, reanudar, pausar, cerrar, eliminar | hiring closes it; applications refer to it; the plan limits it | edited only as a draft, never removed under an application, the skills of one edition |
| postulaciones (portal, board, selección) | `postulacion.estado`, stage, rejection reason, employee | public application, move, reject, hire, associate from the talent bank | vacancy, candidate, employee rows | places respected, one contract per person, a contract is final |
| postulantes, empleados | candidate, talent bank; employee CI and code | registration, bank, hiring, import | unique indexes | one employee per CI and code |
| entrevistas, evaluaciones | `entrevista`, `evaluacion` | schedule, edit, confirm, cancel, result, public confirmation, evaluate | locks of application, interviewer, interview | no double booking, what is over stays over |
| personal: asistencia | `asistencia`, corrections, overtime authorisations | clock in/out, request and decide corrections and overtime | the row of the payroll period | a calculated month pays what was authorised and does not change |
| personal: ausencias, contratos | `solicitud_ausencia`, `saldo_vacacion`, `contrato` | request, decide, assign balance, new version | payroll calculation, employee row | exact balance, ordered versions |
| personal: nómina, parámetros legales | `periodo_nomina`, partial pay, rates, RC-IVA, payslips | open, register, calculate, approve | everything above | payslips add up and agree with their inputs, an approval is final |
| suscripciones | subscription, Stripe events | webhook, checkout, limits, reconciliation | Stripe, modules, every limited operation | an event applied once, its receipt sent, nobody cut before the grace |
| análisis de CV | `analisis_cv`, advisory locks | analyse | Gemini; the same rows as hiring | one at a time, never saved over changed data |
| respaldos (company, global) | job rows, objects, files | enqueue, schedule, claim, process, expire, restore | R2, file system, worker loops, background tasks | every job ends, the last copy survives, rows and files together |
| auth | refresh and one-use tokens, failure counter | login, refresh, revoke, reset, verify | every request | a token works once, a revoked session never renews |
| usuarios, roles y permisos | accounts, roles, permissions | CRUD, activation, assignment | the plan's limit, the token | somebody can administer, a role has what it was given |
| platform, módulos, bitácora | companies, plans, modules, the audit chain | provision, suspend, delete, restore, change plan | subscriptions, every company | a deleted company is off, modules follow the plan, the chain verifies |
| departamentos, cargos, habilidades, importación | catalogues | CRUD, files | vacancies, employees | references alive, a file is all or nothing |
| reportes, dashboard, ayuda, scripts | | queries, calls to AI providers | | (no state of their own) |

What is hard in it is listed line by line under `hazards` in `PROJECT.json`:
reads without a lock followed by unconditional writes (vacancies, contracts,
absences, plan limits, roles), rows that do not exist yet and so cannot be locked
(a payroll period before it is opened, two new absences), row locks taken in
different orders, a DELETE whose rows are fixed before an INSERT, a month that ends
at two different instants (UTC and Bolivia), work that takes minutes outside any
transaction, files that no transaction covers, jobs and webhooks that are
retried, delayed or lost.

## 2. The modules

| module | models | proofs |
|---|---|---|
| `LibroContrataciones` | what hiring promises: an abstract book of contracts | |
| `Contratacion` | vacancies, applications, the board, hiring; implements the book | `ContratacionProofs` |
| `Agenda` | interviews and evaluations | `SeleccionProofs` |
| `Asistencia` | attendance, corrections, overtime, and the payroll period | `AsistenciaProofs` |
| `Ausencias` | absences, vacation balance, contract versions, paid days | `AusenciasProofs` |
| `Nomina` | rates, salary rules, RC-IVA and the amounts of a payslip | `CuentasProofs` |
| `Sesiones` | login, refresh tokens, one-use links, mass revocations | `SesionesProofs` |
| `Cuentas` | accounts and roles, the plan's limit, the last administrator | `CuentasProofs` |
| `Permisos` | the permissions of a role and the check of every request | `CuentasProofs` |
| `Plataforma` | companies, plans, modules, the audit chain | `PlataformaProofs` |
| `Suscripcion` | Stripe events, receipts, checkout, reconciliation | `PlataformaProofs` |
| `AnalisisCV` | the analysis of a CV by the provider | `SeleccionProofs` |
| `Catalogos` | departments, positions, stages, legal periods; files | `CuentasProofs` |
| `Requisitos` | skills, and the ones a vacancy requires | `CuentasProofs` |
| `RespaldosEmpresa` | company backups: queue, worker loops, retries, crashes, expiry | `RespaldosProofs` |
| `RestauracionEmpresa` | what a copy of a company holds and what restoring it does | `RespaldosProofs` |
| `RespaldoGlobal` | backup and restore of the whole system | `RespaldosProofs` |
| `MC...` | what the runs add: symmetry, definitions of constants, two sums | |

Two `MC` modules are more than that. `MCRespaldos` and `MCConfiguracion` are sums:
a variable `modo`, fixed at the start, says which of several components a
behaviour runs, and the others stand still. Each component keeps its own grain of
detail; what is shown is the property of each one, not of their interleaving.
`MCRespaldos` sums the queue, the restore and the global backup; `MCConfiguracion`
the payroll, the three parts of the catalogues, the permissions and the skills.

### How requests are modelled

A request is a slot of the variable `peticion` (`tramite`, `gestion`, `solicitud` or
`pedido` where a module is proved or composed with another). `Lee...` is everything up to its
last check: it waits for the row locks it takes, reads, checks, and remembers in
the slot what its write uses. `Escribe...` is the write and the commit, when the
locks are released. Between the two, any other request may read, write or wait.
Where the order of its statements matters there are more steps: `Ordena...` or
`Borra` is an UPDATE or DELETE sent, which holds its row and, in PostgreSQL, has
fixed there the rows it will touch. `Revierte` ends a request at any moment without
a trace: an error, a lost connection, a deadlock PostgreSQL breaks, a crash of the
process (the program keeps no state of a request outside its transaction). A
handler all of whose reads are of rows it holds locked, or that is a single
conditional UPDATE, is one action. A lock is not a variable: a row is free when no
slot in flight holds it (`VacanteLibre`, `EntrevistadorLibre`, `PeriodoLibre`...).
An INSERT waits for the holders of the rows its foreign keys name and fails on its
unique indexes.

Some properties hold unless somebody crossed the request. Then the slot has a
history field, `pasada`, that others set when they change what it found; it is
no guard of any action.

Two abstractions follow. All the reads of a step happen at one instant, where
READ COMMITTED would let each statement see a later state; the reads that matter
are those under locks, which cannot move. And all the locks of a step are taken at
once, so the models do not show in which order it takes them: a deadlock PostgreSQL
breaks is one more `Revierte`.

Data no property tells apart is left out: names, notifications, audit rows
(but for the chain in `Plataforma`), the scoping by company (one company is
modelled in most modules). The definitions named `Roto...` are plausible mistakes
(a lock not taken, a guard off by one, a forgotten reset). Nothing uses them;
they are put in the place of the right definition to see each property fail.

### Module by module

`Contratacion`. `vacante`, `postulacion`, `enBanco` and `empleados` are the
tables; candidates are identified with their CI. `LeeTransicion` and
`EscribeTransicion` are publicar, reanudar, pausar and cerrar, which read without
a lock (`vacantes/application/use_cases/gestionar_vacantes.py`) and update by id.
`CambiarEtapa` and `Rechazar` are the conditional UPDATEs of `tablero_router.py`.
`LeeContratar` and `EscribeContratar` are `contratar` of
`gestionar_seleccion.py`: it locks vacancy, application and candidate, counts the
hired, and closes the vacancy with the last place. `AltaEmpleado` is any other
way an employee appears; `Vence` is the closing date going by. `Libro` is the
instance of `LibroContrataciones` over the refinement mapping.

`Agenda`. `guardar_entrevista` locks its application, the user row of its
interviewer and its interview; that user row is all that makes `sin_conflicto`
safe, since nothing in the database forbids two interviews at the same time.
`estado_entrevista` reads the application without a lock. `MuevePostulacion` is
what Contratacion does to an application seen from here. Time is a small counter.

`Asistencia`. One month. Two instants per day, because a day in Bolivia ends four
hours after the day in UTC, and `clock_in` uses the first while
`calculate_period` uses the second. `_editable_period` locks the row of the
period when there is one: `hay` in a slot says whether there was, and the
requests that found none run without that lock while the period is opened and
calculated. `LeeCalcular` has the checks on corrections, incomplete entries and
overtime; `pagado` is the overtime each day put into the payslips.

`Ausencias`. Absences are unpaid or use vacation. Contracts have dates that may
fall before the month (0) or after it (`UltimoDia + 1`, also for no end).
`Calculable`, `Pagables` and `HaberAlCalcular` are the part of `calculate_period`
that decides the paid days, with the record it stores when nobody registered one
(`AUTO_DIAS_CALENDARIO`). The other refusals of a calculation are a calculation
that does not start, or `Revierte`.

`Nomina`. What the two modules before leave out of a payslip: `Calculo` is
`calculate_payroll` over the salary rules, `RcIva` the worksheet with its carried
balance, `Vigente` the choice of a rate by its validity. `LeeReglas` and `LeeTasas`
are the reads of `calculate_period`, which share no lock with the registration
of a rate.

`Sesiones`. One account. A refresh token or link is read FOR UPDATE; login,
refresh, logout, password recovery, verification, and five ways to cut every
session: a change of password, a reset, the console, a deletion of the account, a
deletion of its company. `objetivos` are the rows a revocation's UPDATE will touch,
fixed when it starts: a session opened after that is not among them. `previa` and
`solapada` are history: a session of before a revocation, and one whose request
overlapped it. Identifiers are used again, so the bound is on tokens alive at a time.

`Cuentas`. The two checks that count unlocked rows: the capacity of the plan
(`require_user_capacity`) and the last administrator. A change of roles is a
DELETE and an INSERT; `nuevas` are the roles others inserted between them.

`Permisos`. `CheckPermission` is what every request passes: account, role, company,
module, subscription, permission, each read again, and the token's `debe`. The
assignment of permissions writes differences against what it read.

`Plataforma`. Provision, edition, activation, suspension, deletion and restoration
of a company; creation, edition and deletion of plans; the plan of a company and
its modules. Each request ends in `Turno`, the advisory lock of the audit chain,
where it reads the last hash, and one of three commits. A hash is the date of the
record it identifies.

`Suscripcion`. The webhook in its two transactions (the event, then the receipt), the
checkout, the adjustment by the platform, the daily reconciliation. The ORM writes
only the columns that differ from what the request read (`Cambios`), so two
requests can mix their columns. Stripe and the mail provider are external: Stripe
delivers again until it gets a 2xx and may repeat after it; the provider's
answer may be lost.

`AnalisisCV`. Two advisory locks held by a dedicated connection (per application,
and a slot of the provider), three row locks in the transaction of the request,
and minutes at the provider outside any transaction. Either connection can be lost
(`PierdeConexion`, `Revierte`). The portal writes the CV's file before its transaction.

`Catalogos`. Departments and positions are one definition over two tables; a file
is read, checked and written whole (`LeeArchivo`, `ReleeDepartamentos`,
`EscribeArchivo`). `Periodo` rows are the company's percentages.

`Requisitos`. The list of skills of a vacancy is deleted and inserted again; the row
of the vacancy is locked only if something else changes.

`RespaldosEmpresa`. Here the actors are worker loops (`obrero`, one per replica of
the backend) as well as requests. A worker claims a job in one transaction
(`Reclama`), holds nothing while it packages and uploads (`Sube`), and records the
result in another (`Registra`, `Falla`), which does not ask whether the job is still
its own. `Muere` drops a worker in any step; its job stays PROCESANDO until
`SeisHoras` makes it claimable. `objeto` is the object store; the checksum of a
package is the number of the attempt that wrote it, so that two attempts differ.
`EmpresaLibre` is the row lock of the company: planners and restores hold it, and
every job and audit row waits for it because of its foreign key.

`RestauracionEmpresa`. A restore chooses a package, makes a safety copy, locks the
company, installs files, replaces rows, commits; a failure puts the files back when
its transaction, and so its lock, is already over (`Deshace`). Uploads, new accounts,
audit events and other restores run meanwhile.

`RespaldoGlobal`. Requests program background tasks of the API process; `Cae` is the
process stopping, which forgets them. The table of backups is itself in the dumps.

## 3. What is checked

All runs pass. Only `respaldos_fin` and `suscripcion` assume fairness.

| run | instance | shows |
|---|---|---|
| `contratacion` | 1 vacancy of 1 or 2 places, 2 candidates, 2 codes, 2 requests | places are respected and the last one closes the vacancy, a hiring is final, one contract and one employee per person, board and hiring agree, no application loses its vacancy; `Contratacion` implements the book (`LibroSpec`) |
| `agenda` | 2 applications, 2 interviewers, 2 interviews of 1 or 2 hours, 2 requests | no double booking, a result only after the start, nothing finished is edited, appointments and evaluations only for applications still open |
| `asistencia` | 1 employee, 2 days, 1 overtime hour, 2 requests | overtime never exceeds the hours clocked, a calculated month pays exactly what was authorised, leaves nothing pending and does not change, an approval is final |
| `ausencias` | 1 employee, 2 absences, a balance of a day, 3 rows, 2 days, 2 requests | the balance is exactly the vacation approved and within what was assigned; payslips agree with the partial pay on record |
| `sesiones` | 2 tokens and 2 links alive at a time, 2 attempts, 2 requests | a token is exchanged once and a link works once; only sessions that overlapped a mass revocation outlive it; guesses are bounded |
| `cuentas` | 3 accounts, a limit of 1, 2 requests | the limit is passed by less than the requests in flight; only overlapping removals leave no administrator; a change of roles leaves what it asked for unless crossed |
| `respaldos` | 1 company, 3 jobs, 2 replicas, 2 days; a document, an account, 4 copies; 2 global backups, 2 tasks | one automatic backup per day, COMPLETADO can be verified, a company that has a copy keeps one, ended jobs are left alone; restores keep files, authors and the way back; global packages are complete |
| `respaldos_fin` | 2 companies, 2 jobs, 2 replicas that die | every job ends (`TodoTermina`) |
| `suscripcion` | 1 event delivered any number of times, 2 customers, 2 requests | an event is applied once, the receipt follows the payment, a reconciliation nobody crossed suspends no company that may still work, and the receipt arrives once failures stop (`ComprobanteLlega`) |
| `plataforma` | 1 company, 2 plans, 1 module, 2 audit records, 2 requests | a deleted company is inactive, modules follow the plan, the chain verifies when its records enter in order |
| `analisis` | 2 vacancies, 2 codes, 2 slots, 1 edition, 2 requests | one analysis per application, saved only over what it analysed; a CV has its file |
| `configuracion` | 2 requests over each of: payroll, departments and positions, stages, periods, permissions, skills | payslips add up with one rate and carry the right RC-IVA balance; catalogues stay coherent; roles have the permissions they were given |

Several properties are conjunctions of named parts, each with its own comment in
its module: `ContratacionesFirmes` (`CupoAlContratar`, `ContratadaEsFinal`),
`ContratacionUnica` (`ContratadaConEmpleado`, `UnaContratacionPorPersona`,
`UnEmpleadoPorPersona`), `PostulacionesCoherentes` (`TableroCoherente`,
`SinPostulacionesHuerfanas`), `AgendaFirme` (`RealizadaEmpezo`, `TerminadaFija`,
`CitaSoloActiva`, `EvaluaSoloVigente`), `NominaFiel` (`HorasFichadas`,
`PagaLoAutorizado`, `SinExtrasPendientes`), `MesFijo` (`MesCalculadoFijo`,
`AprobadaEsFinal`), `DeUnUso` (`RotacionUnica`, `EnlaceDeUnUso`), `RolesFirmes`
(`UltimoAdmin`, `RolesPedidos`), `ColaSegura` (`UnaAutoPorDia`, `RestauraSinCopias`,
`CopiaIntegra`), `CopiasFirmes` (`ConservaCopia`, `TerminadoEsFinal`),
`RestauracionFirme` (`ConArchivo`, `ConAutor`, `PuntoDeRetorno`), `GlobalSegura`
(`PaqueteCompleto`, `FilasConArchivo`), `SuscripcionFirme` (`UnaVez`,
`ComprobanteFiel`, `SoloCortaVencidas`), `AnalisisFirme` (`UnaPorPostulacion`,
`CvConArchivo`, `AnalisisVigente`), `NominaCuadra` (`BoletaSuma`, `TasaUnica`,
`RetencionFiel`, `LoVistoQueda`), `CatalogoCoherente` (`Referencias`, `UnaInicial`,
`ImportaTodo`, `SoloEdicionCicla`, `PeriodosOrdenados`, and `RequeridaExiste` and
`EdicionEntera` of the skills), `PermisosFirmes` (`SinGlobales`, `MeCoherente`,
`PermisosPedidos`, `DeudaConFichaVieja`). `BloqueosExclusivos`, `FotoVigente`,
`HuecoVigente` and `CambioVigente` are parts of inductive invariants.

Every property of the runs has, under `mutants` in `PROJECT.json`, a wrong version
of one definition with which the same run finds it violated.

Bounds. Two requests in flight are enough for every race between two handlers, and
the theorems of section 6 cover any number. Two places, two
candidates and two codes cover the first, the last and a contended place. Two
interviews meet, touch or miss each other with durations 1 and 2. Two days give
an attendance before the last one and one in the hours when the two calendars
differ. A third account shows that the limit is passed by one and not by two. Four
copies are what two restores that cross need: an old one, the safety copy of
each, and one more. `MaxIntentos` of the queue bounds how often a replica dies with
a job (the code has no bound: a claim does not look at `intentos`); 4 is one more
than the attempts after which a failure is final. `MaxActivas`, `MaxHora`,
`MaxExtra`, `MaxSaldo`, `MaxFilas`, `MaxDia`, `MaxTrabajos`, `MaxCopias`,
`MaxValores`, `MaxPeriodos`, `MaxEdiciones`, `MaxEventos` bound counters and rows,
in guards or types. `Fechas = TRUE` of the subscription lets dates go by; no
assigned end date is in the past from the start.

Deadlock is checked in every run but `analisis`, where codes and editions run out,
and `configuracion`, where some of the summed components can reach a state with
nothing left to do. Symmetry is declared for identifiers that only identity tells
apart, and only where no liveness is checked.

Fairness. `RespaldosEmpresa!Justicia`: a worker loop never stops (`backup_worker` is
`while True`, catches every error and starts with the process, `main.py`, and a
replica that dies is started again), a transaction ends, and six hours pass.
`Suscripcion!Equidad`: Stripe delivers an event again while no delivery was
answered 2xx, a request goes on, and the failures of a step that is tried again
and again do not last for ever (strong fairness of the delivery and of the UPDATE of the webhook).
Nothing is assumed of users, planners or days.

## 4. Premises

Four constants name what the code supposes and does not enforce. Run `respaldos`
sets them TRUE; with the first FALSE it finds `ColaSegura` violated, with the
second `RestauracionFirme`, with either of the others `GlobalSegura`.

- `Puntual` (`RespaldosEmpresa`): a worker that needs six hours is a dead one. A live
  one that slow completes a job another replica is working on, which then
  writes another package or fails and takes COMPLETADO back, and with it the only copy
  (`respaldos/infrastructure/services/tenant_jobs.py:220`, `:246`).
- `Ordenadas` (`RestauracionEmpresa`): no restore of a company begins while another
  puts its files back. A failed restore does that after its transaction, so its
  lock is gone, and it may undo files a later restore installed
  (`tenant_restore.py:410`; `docs/tenant_backups.md:88-90` says that a failed
  restore is refused without changes).
- `Apartada` (`RespaldoGlobal`): nobody works while the whole system is restored. The
  message says "no operes el sistema hasta que finalice"; nothing refuses requests.
- `Entera` (`RespaldoGlobal`): a global restore does not die or fail while it
  replaces the files, after it replaced the database.

## 5. Divergences

What the repository says and the code does not do, met while modelling. The
models have the behaviour, so no property denies it.

Payroll and attendance
- Incomplete entries keep blocking the closing (`docs/sprint3_backend.md:101`), but
  `calculate_period` compares with the UTC date
  (`personal/infrastructure/http/payroll_router.py:805`): on the last evening of the month an
  employee clocks in while the month is calculated.
- Two absences for the same days: both requests look before either inserts
  (`personal/infrastructure/http/router.py:960`).
- "Without a record the paid days are computed automatically"
  (`docs/sprint3_backend.md:55-56`), but the first calculation stores its own
  record (`payroll_router.py:934`); an unpaid absence approved later makes it exceed
  the payable days, and neither calculating nor registering is possible any more.
- An absence requested while `calculate_period` runs is not among the pending ones
  (`payroll_router.py:867`). `create_contract` reads the period without locking it, so
  a version may start in a month approved meanwhile (`router.py:509`), and compares
  with the contracts in force only (`:507`).
- Parameters "sin solapes" (`docs/03_BACKLOG_IMPLEMENTACION.md:1455`, `:1477-1478`):
  two overlapping requests leave overlaps or an empty validity, and an edition
  loses the other percentages of a concurrent one
  (`parametro_legal_repository.py:126-131`).

Vacancies and interviews
- pausar and cerrar overwrite any state the vacancy reached after their check, and a
  vacancy with its places covered may end PAUSADA
  (`vacantes/infrastructure/http/router.py:288-289`); actualizar may edit a vacancy
  published meanwhile (`:186`); two publications at the plan's limit both count
  before either writes (`suscripciones/application/policy.py:79`).
- `estado_entrevista` confirms an interview of an application rejected after its
  read (`gestionar_seleccion.py:61-63`).
- Two editions of only the skills of a vacancy that overlap leave the union; the
  deletion of a skill in use is an error 500.

Accounts and sessions
- "The fifth failed attempt locks" (`docs/guias/AUTH_Y_USUARIOS.md:16`), but after a
  lock is over every failure counts as the first (`user_repository.py:94`), so the account does
  not lock again until somebody enters it or unlocks it.
- Two requests may each take away one of the last two administrators
  (`AUTH_Y_USUARIOS.md:61`); overlapping changes of roles leave the union.
- "Revoca las sesiones" (`docs/tenant_backups.md:91`): a restore of a company does not
  touch `refresh_token`. A logout that crosses an exchange leaves the new token.
- A custom role named "Administrador de Empresa", once the base role is renamed,
  counts as administrator (`usuario_repository.py:321-325`).
- A token issued before a change of password is demanded operates until it expires.

Platform and subscriptions
- An audit record takes its date before it waits for the chain's lock
  (`register_audit_event.py:52`, `audit_log_repository.py:30-34`); `verify_chain` orders
  by date, so an untouched chain may be reported broken. `CadenaIntacta` is
  therefore conditional on `EnOrden`.
- The grace is counted from `updated_at`, which any write refreshes
  (`docs/guias/SAAS_STRIPE_SANDBOX.md:54-55`). Events out of order are not detected; a
  retry of a payment whose mail failed applies ACTIVA again over a later
  cancellation; the reconciliation may write what it read over a payment
  (`suscripciones/application/reconciliation.py:37-51`); two overlapping checkouts
  create two customers and the last one stays.
- An edition of a plan does not reach the companies that have it; one that overlaps
  another leaves the union. An activation of a company deleted meanwhile is undone only because
  building the answer fails.

Backups and analysis
- The safety premises of section 4. `README.md:13` says the restore of one company
  is not implemented; it is.
- A global restore brings back the row of its own backup as it was in the dump, and
  deleted backups without their objects; a crash leaves rows PENDIENTE, PROCESANDO
  or RESTAURANDO for ever (`respaldos/infrastructure/services/jobs.py:136-139`).
- A request that lost its connection can take the turn to persist, and the
  legitimate one is refused after it paid; the provider may then serve more than
  `max_slots`. Emptying the required skills takes no row lock.
- Departments may become their own ancestors through two editions (a file never
  does it).

## 6. What is proved

Every model with state has proofs, in eight modules. They hold for any sets of
vacancies, candidates, accounts, tokens, companies, plans, files and requests in
flight, and any bounds. The assumptions are the named ASSUMEs of the modules:
counts, dates and durations are numbers, positive where a schema or a constraint
says so; sets whose elements are counted, and files, are finite
(`ArchivosFinitos`); a mark of absence (`Ninguno`, `"NADA"`, `NULL`) is not a value
(`NuloAparte`); the stages a new company gets have exactly one to enter by
(`UnaInicialBase`, `provision_empresa.py:198-215`); a month has its days in order
(`MesConDias`). `RespaldosProofs` states where it uses the premises of section 4,
as hypotheses of the theorem. Nothing is assumed of scheduling and no lemma is taken
on trust.

| theorems | establish |
|---|---|
| `ContratacionProofs`: `Invariante`, `Tipos`, `Exclusivos`, `FotoSiempreVigente`, `SinHuerfanas`, `CupoRespetado`, `ContratacionFinal`, `ContratacionesSonFirmes`, `UnaPorPersona`, `TableroSiempreCoherente`, `ImplementaLibro` | every property of run `contratacion`, the refinement included |
| `SeleccionProofs`: `InvarianteAgenda`, `TiposAgenda`, `NadieDosVeces`, `ResultadoTrasInicio`, `GuardarVigente`, `TerminadaNoCambia`, `CitaConPostulacionActiva`, `EvaluaConPostulacionVigente`, `AgendaEsFirme`; `Invariante`, `Tipos`, `SiempreFirme` | every property of run `agenda`; and of run `analisis` |
| `AsistenciaProofs`: `Invariante`, `Tipos`, `NominaEsFiel`, `MesEsFijo` | every property of run `asistencia` |
| `AusenciasProofs`: `Invariante`, `Tipos`, `SaldoSiempreExacto`, `BoletaSiempreConHaber` | every property of run `ausencias` |
| `SesionesProofs`: `Invariante`, `Tipos`, `CadaUnoUnaVez`, `TodasCortadas`, `IntentosContados` | every property of run `sesiones` |
| `CuentasProofs`: `Invariante`, `Tipos`, `LimiteAcotado`, `SiempreRolesFirmes` | every property of run `cuentas` |
| `CuentasProofs`: `PermisosDeLaConfiguracion`, `CatalogosDeLaConfiguracion` | `PermisosFirmes` and `CatalogoCoherente` of run `configuracion`; the second is about `Catalogos` and `Requisitos` |
| `CuentasProofs`: `TasaDelMes`, `NominaVistaQueda`, `RcIvaConserva` | parts of `NominaCuadra`: one rate in force, an approved month stays, RC-IVA conserves credits |
| `PlataformaProofs`: `Invariante`, `Tipos`, `SiempreInactiva`, `CadenaSiempreIntacta`, `ModulosSiempreDelPlan` | every property of run `plataforma` |
| `PlataformaProofs`: `InvarianteSuscripcion`, `TiposSuscripcion`, `SuscripcionSiempreFirme` | the safety properties of run `suscripcion` |
| `RespaldosProofs`: `ColaInvariante`, `UnaPorDia`, `CopiasInvariante`, `SiempreSeVuelve`, `TiposDeTodos` | what holds of backups without any premise |
| `RespaldosProofs`: `PuntualInvariante`, `ColaSiempreSegura`, `CopiasSiempreFirmes`, `RestauracionInvariante`, `RestauracionSiempreFirme`, `GlobalInvariante`, `GlobalSiempreSegura`, `RespaldosSeguros` | every property of run `respaldos`, under its premises |

In each module the property is about the moment a request commits something it
decided earlier. That it may is not inductive alone: the invariant (`IInv`, or `IInv` with a suffix) says of
every request in flight what is still true of what it read, and which requests
cannot be in flight together. Each was checked by TLC before it was proved. The
proofs have one lemma for all steps that read and check (they write no table and
leave a fresh slot), one for the steps that drop a request, one per action that
writes, and under it one step per conjunct the action can disturb.

### Hiring

    IInv == TypeOK /\ BloqueosExclusivos /\ SinPostulacionesHuerfanas /\ FotoVigente

`contratar` writes CONTRATADA and perhaps CERRADA from a count it made earlier.
`FotoVigente`: for every hiring in flight, what it read is still true: the number of
places, the count of hired applications, the application ACTIVA and the vacancy
neither CERRADA nor a draft (PAUSADA it may be: `contratar` does not look). This is
the fact the row locks buy. `BloqueosExclusivos`: no row is locked by two requests;
without it another hiring could change the count under the first one's feet.
`SinPostulacionesHuerfanas`: `eliminar` does not lock, so that it cannot remove a
vacancy a hiring has in hand rests on the foreign key.

From `IInv` follow the places and the finality. `UnaPorPersona` has a second
invariant, `Personas`: each hired application has an employee with its candidate's
CI, and no two share one. `ImplementaLibro`: every step of `Contratacion`, with its
locks, races, rollbacks and board moves, is one step or a stutter of
`LibroContrataciones`, in which a person is hired once, while the vacancy still
has a place, and no contract is ever struck out.

### Interviews

    IInv == TypeOK /\ Ajenas /\ HuecoVigente /\ CambioVigente /\ EvaluaVigente
            /\ SinDobleReserva /\ RealizadaEmpezo

`Ajenas` is what the locks give: two requests in flight share no application,
no interviewer and no interview. `HuecoVigente`, `CambioVigente` and
`EvaluaVigente` say that what each kind of request checked still holds when it
writes; each is needed because other requests, the public confirmation, the
board and the clock run in between. `SinDobleReserva` is then preserved by the only
step that books a slot.

### Attendance and the payroll of a month

    IInv == TypeOK /\ Ajenas /\ LoHallado /\ Coherente /\ SinEnVuelo /\ PagaLoAutorizado

A correction or an overtime request that found no period to lock may commit after
the month was opened and calculated, so the lock of the period alone does not
protect the payslips, and its exclusivity is not needed. What does is that the
overtime or the correction such a request could decide is itself pending, and a
month with something pending is not calculated. `LoHallado` keeps what each
request found, under the lock of the attendance (`Ajenas`); `SinEnVuelo` draws the
conclusion: while a month is calculated, and after it, nothing waits for a
decision and no request in flight decides anything.

### Absences, balance, contracts

    IInv == TypeOK /\ Ineditas /\ Decisiones /\ Asignaciones /\ Versiones /\ Calculos
            /\ SaldoExacto /\ BoletaConHaber

`SaldoExacto` is a sum over the absences granted. The sum is the library's fold,
and induction over it is not available; `AusenciasProofs` proves from its definition
the facts needed (`SumaVacia`, `SumaIgual`, `SumaUnoMas`, `SumaTipo`) by
taking a least counterexample among the subsets. `Decisiones`: an approval in flight
that discounts days read a balance that is still so, because it holds its row, and
no other decision on that employee or assignment to it is in flight. `Calculos`:
the days a calculation will pay are those of the partial pay it will leave on record.

### Sessions

    IInv == TypeOK /\ Formada /\ Retenciones /\ Canjes /\ Usos /\ CortesFieles /\ Intentos

A token or link a request holds FOR UPDATE has not been used and is held by no other
(`Retenciones`, `Canjes`, `Usos`); it may have expired meanwhile. A session that a
revocation in flight will not touch was opened while it was in flight
(`CortesFieles`). The failures still in flight when an account locks are bounded
by the slots left (`Intentos`): a cardinality that falls by one for each one counted.

### Accounts

    IInv == TypeOK /\ Formada /\ Altas /\ Contados /\ Capacidad

`Capacidad`: active accounts plus the requests that passed the check of the plan and
have not committed are fewer than the limit plus the slots. It is what makes the
excess of `ExcesoAcotado` exact: each of those requests saw room, and all of them
but one may be wrong. `Contados`: what a removal counted is still so, or `pasada`
says who crossed it, so `UltimoAdmin` fails only for requests that overlap.

### Analysis of CVs

    IInv == TypeOK /\ Turnos /\ Frescas /\ Propios /\ CvConArchivo

`Turnos`: the five exclusions of the advisory and row locks, including that none is
with the provider while another waits for its commit on the same application.
`Frescas`: an analysis that was compared and awaits its commit holds the three rows, so the CV and
the edition are those it analysed. `Propios`: a tracking code is of one request or one
application, and its file is there from before.

### Platform

    IInv == TypeOK /\ (every request is Buena) /\ (no two of them Choca)
            /\ Encadenada /\ EliminadaInactiva

`Buena`: what a request found is so, or `pasada` marks it. `Choca`: the pairs that the
locks of the rows, the unique names and the chain's advisory lock keep apart.
`Encadenada`: each audit record is chained to the latest of those inserted before
it; when they enter in the order of their dates that is the previous one, which is
what `verify_chain` expects. Commits share one lemma, `PasoConfirma`: it needs only
that the commit leaves the other requests good.

### Subscription

    IInvSuscripcion == TiposFirmes /\ UnEnvio /\ UnaVez /\ ComprobanteFiel
                       /\ AvisosFieles /\ CorteVigente

`UnEnvio`: two deliveries of one event never hold its row together. So a delivery
that has yet to apply its event finds it not applied, unless it is a payment whose
mail failed, and one that has a receipt to send has committed its payment
(`AvisosFieles`). `CorteVigente`: what the reconciliation read is still so, or
`pasada` says that another commit overtook it.

### Backups of a company

    IInvCola    == TypeOK /\ Acotado /\ Asignado /\ Cerrojo /\ SinRepetir
                   /\ UnaAutoPorDia
    IInvPuntual == IInvCola /\ Vivo /\ Sustituida /\ TieneUltima /\ CopiaIntegra
                   /\ Quieta

The first holds however slow a worker is: the row lock of the company (`Cerrojo`)
is enough for one automatic backup a day (`SinRepetir`: what a planner did not find
is still not there). The rest needs `Puntual`. `Vivo`: a live worker is the only one
with its job and what it uploaded is what the store has; without the premise two
workers share a job and `CopiaIntegra` fails. `Sustituida` and `TieneUltima`: what a
worker is about to expire has a newer copy, still when it writes, since the newest one
cannot be expired. `Quieta`: a restore that holds the company saw no active job, and
none can be inserted while it holds the row.

### Restores

    IInvCopias       == R!TypeOK /\ CopiasIntegras /\ Asegurada /\ R!ConAutor
    IInvRestauracion == IInvCopias /\ UnaEscribe /\ SubidaSola /\ Retorno
                        /\ R!ConArchivo
    IInvGlobal       == TiposGlobal /\ Sola /\ YaSubido /\ EnManos
                        /\ G!PaqueteCompleto

Of one company: `Asegurada`, what a restore will take away is in a copy already kept,
gives the way back without premises. That no row is left without its file needs
`Ordenadas`, which makes `UnaEscribe` true; then `Retorno` says that the files a
failure would remove belong to no row. Of the whole system: a restore runs alone
(`Sola`), and between `rmtree` and `copytree` it carries the files of the rows it put
back (`EnManos`); `Apartada` and `Entera` are what makes that enough.

### What a company configures

`Nomina`, `Permisos`, `Requisitos` and `Catalogos` share nothing. A step of
`MCConfiguracion` is a step of one of them or a stutter (`SonPermisos`,
`SonRequisitos`, `SonCatalogos`), so what each keeps the run keeps.

`Nomina`. `SinSolapes`: the values of a parameter never overlap, because the
parameter is locked from the search to the insert, and what a registration in
flight found is still so (`VigenciaSegura`). Two values that cover the month would
overlap (`CubrenElMes`), so the rate a calculation took stays the one in force
(`TasaLeida`). A calculation in flight means a month not approved (`MesVivo`).

`Permisos` (`IInvPermisos`). A token that does not know of a demanded change of
password is older than the demand (`Puesta`); an assignment's reading is still so,
or `pasada` (`AsignaVigente`).

`Requisitos` (`IInvRequisitos`). After its DELETE an edition knows which skills it
takes away, or which kind of edition committed since (`EdicionViva`); two that also
change the row of the vacancy exclude each other (`UnaRetiene`).

`Catalogos` (`IInvCatalogos`). Nothing is locked. `TablaFirme` is what the unique
index and the foreign key keep; `SolicitudFirme` says what a request in flight knows
that no other can change: the names of its file were all found, the departments it
refers to were inserted once (`Insertados` only grows; whether they are still alive
the foreign key decides at the write). `ArchivoEntero`: the rounds of
an import put in every new row, each under the one its file names. `CirculoNuevo`:
what a file adds points to what was there and never back, so a circle would lie
wholly in the file, which the preview refused; only editions can close one.

## 7. What is only model-checked

- Liveness: `TodoTermina`, `ComprobanteLlega`. Liveness under fairness and ENABLED
  are out of the prover's reach.
- `NominaCuadra` beyond the three theorems above: that totals are the sums of their
  lines (`BoletaSuma`), that the AFP line is the rate over the income before it, and
  that the provisional payslip and the final one owe the same RC-IVA. They say what a
  fold over the rules computes, which takes induction over data, and the induction
  theorems take an operator.
- `TiposConfiguracion`: its payslip part needs the type of such a fold. The types of
  `Permisos` and `Requisitos`, and what the proofs need of the other two
  (`TiposNomina`, `FilasTipo`), are proved as parts of their invariants.

## 8. What is not modelled, and why

- Who is the boss of whom, and which permission each handler asks for: rules on one
  request, no interleaving adds to them. `Permisos` has the check they share.
- The scoping by company: every query filters by `empresa_id`.
- The order in which a request takes its locks (section 2).
- Of payroll: that only a closed month is calculated, the `activa` flag, the legal
  norm a rate must cite, several employees, the suggestion of a partial pay and the
  printed receipt. Of absences: the yearly maximum of a kind, partial days, holidays.
- The bulk import of accounts and the manual link of an account with an employee;
  candidates' personal data; the affinity score (`calcular_afinidad`).
- Stripe's customer portal; encryption, filters and export of the audit log; the
  hour of the daily backup.
- Reports, dashboard, AI help and chatbot: queries and calls to providers.
- Migrations and scripts: the constraints they end in are read from the models.

The status and the reason of each component are in `PROJECT.json`.

## 9. Plan

Done: the models of every component with state of its own, their runs, and the
proofs of every safety property but the arithmetic of a payslip. What could follow:

1. `NominaCuadra`, if the sums over rules are restated as functions over the
   position of a rule, so that least-counterexample arguments like those of
   `SumaUnoMas` apply.
2. An account import as a sixth kind of file, with five accounts in `Cuentas`.
