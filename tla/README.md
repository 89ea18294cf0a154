# Verification of SQLBraid

This directory holds TLA+ models of SQLBraid: the runtime and its scopes, the
executors of every driver package, the values and options that pass through
them, the operations with their observers, templates, the migrator, the editor
tooling and the release scripts. TLC checks each model on small instances; TLAPS
proves, for every size, what section 5 lists. `PROJECT.json` lists
the components, the runs, the hazards, and, for each definition, the lines of
the source it models. Paths below are relative to `src/packages/` unless they
say otherwise.

Contents: 1 the system, 2 the modules, 3 the runs, 4 fairness, 5 proofs,
6 disagreements and observations, 7 what is not covered, 8 the plan.

## 1. The system

SQLBraid turns SQL templates in TypeScript into statements, checks them against
a schema, and runs them through thin executors over existing drivers. It has no
server of its own. The concurrency is that of one JavaScript event loop (calls
that interleave at every `await`), of several programs on one database, of an
editor that changes what is being analysed, and of people and workflow runs that
publish packages.

| Component | State it keeps | Operations | What is hard | What makes it correct |
| --- | --- | --- | --- | --- |
| runtime: scopes, leases, statements (`runtime/src/state.ts`, `index.ts`, `operations/`) | per resource: two promise chains (`tail`, `transactionTail`), stream counters, `activeScope`, `activeSession`, `directBusy`, poison; per handle: closed, open streams | execute, all, one, call, bulk, batch, stream; tx, nested tx, session | every check is made before an await and may be stale after it; failures of cleanup; callbacks that leave work behind | one statement at a time on a connection; each in the transaction of its handle; clean or discarded leases; nobody waits for ever |
| runtime: observers and mapping (`observers.ts`, `validation.ts`, `routine-mapping.ts`) | none beyond one operation | before, after, error, rows and transaction events; rows to results | an event callback may throw at any point; events of one operation must come in order and once | each start has one end; a throwing observer leaves no lease behind |
| migrate: runner and history (`migrate/src/index.ts`, `history.ts`, `dialect.ts`, `drift.ts`) | the history table, the advisory lock, a cached check | startup (apply, verify, report), baseline, repair, acceptSchema, once | several replicas, lost answers, crashes between two steps, databases without lock or transactional DDL | a version is run once, in order, and never on a half migrated database |
| migrate: sources and splitting (`split.ts`, `sources.ts`) | position, delimiter, nesting of one file | directives, splitting | quoting, comments and bodies of each dialect | the pieces are the statements written, or the file is refused |
| drivers (`mssql`, `oracle`, `mysql`, `mariadb`, `postgres`, `sqlite`, `bun-sql`) | connections, requests, cursors, prepared names, health | execute, stream, bulk, begin/commit, abort, release | aborts racing completion; back-pressure; a connection given back while its request runs | the executor contract: see `Executor` |
| driver values (`type-policy.ts`, type hints, fetch types) and transaction options | none; session settings on the connection | encode, decode, describe; begin with options | exact numbers beyond 2^53, outputs by position, a level that outlives its transaction | nothing is changed without an error; a transaction runs under its own options |
| core: contracts, bindings, numerics, routines | literal texts kept per description | constructors, conversions, literalizedSql | one observer's view given to another | what is shown is what the asker may see |
| template (`lexical`, `parser`, `render`, `trim`, `variants`) and compiler (`lowering`, `discovery`) | none | template to statement in three ways | conditional branches, trimming of separators, lowering | text and binds are those of the active branches, however built |
| tooling: workspace and service (`tooling/src/workspace.ts`, `service.ts`, `config.ts`) | open documents, revision, shared refresh, caches of files, config, project, targets, the service | setDocument, closeDocument, invalidate, service, dispose | one refresh, many awaits, many callers, each with its own cancellation | a service is built from one revision and from fresh files |
| language server (`language-server/src/server.ts`) | timers, running diagnostics, one workspace per folder | document events, pushed and pulled diagnostics, requests, watched files, folders | edits while a job runs; documents changed in place | what is shown belongs to the text it is shown for; the last edit is shown |
| opentelemetry | a span per operation id | observer callbacks | starts without ends | spans end once |
| release scripts (`src/scripts/release.mjs`, `assert-release-workflows.mjs`) | the journal, GitHub's runs, the registry | stage, recover, approve | runners that die, lost answers, runs dispatched twice | nothing is uploaded twice or forgotten |
| operations, metadata, codegen, cli | none | describe, read, print, write | none over time | |
| bundler plugins; VS Code extension, website, examples | none of their own | adapt, package, document | none over time | |

How they meet. An application calls a `Database` handle of the runtime with a
query that a template rendered. The runtime asks a provider of the driver
package for a lease, or uses the one executor it was given, and calls the
executor's `execute`, `stream` and control statements; observers, such as the
OpenTelemetry one, are called in between and may fail. The migrator does the
same with a session of its own and shares nothing with other programs but the
database. The language server owns one workspace per folder; each document event
sets the document there, and each job asks it for a service with a token that
may be cancelled. The release scripts share nothing with the library.

## 2. The modules

### Runtime

| Module | Models |
| --- | --- |
| `Statements` | the `ScopeState` of a resource (`runtime/src/state.ts`), the closure of each call, and the checks every call makes: `assertOpen`, `assertHealthy`, the stream check, `assertRootAllowed`; `execute` (standing for every call that runs one statement to its end) and `stream`, with `leaseForUse` and the release of the lease (`operations/lease.ts`, `materialized.ts`, `stream.ts`); the rules an orderly application keeps (`Permitted`) |
| `Scopes` | `tx`, `session`, `finish` and the control statements (`index.ts`); the composition: applications make calls on any handle they have, the calls interleave; the properties |
| `MCScopes`, `MCBuilds` | small instances; the two builds of the runtime side by side, in behaviours of their own |
| `ScopesProofs`, `NestingProofs` | the inductive invariants and the theorems of section 5 |

A call is a constant; `pc[c]` is the await it stands at. One action is the code
between two awaits at which another call can run. A handle is the call whose
callback was given it, or `Root`. The queues `tail[k]` and `turns[k]` are the
promise chains of the code: a call joins at the end, runs as the head, and
leaves by releasing. `open[k]` is what the database knows: the open transaction
and its savepoints. `req[c].caller` are the callbacks and stream loops the call
is made in, which is what `AsyncLocalStorage` tells the code.

Choices that matter:
- `Faults` says what may fail: an observer, a statement, cleanup after one
  (which poisons), a control statement (the database did or did not do it), the
  return of a lease to its provider.
- A callback waits for the scopes it opens before it returns (`Awaited`),
  since a handle is closed when its callback returns (`transactions.md:30-33` of
  the website); it need not wait for its statements and streams, which are the
  stragglers that `finish` has to deal with.
- `Rules` are the rules of `Permitted` that the application keeps, and `Orderly`
  says that it keeps all four. `siblings`: it opens no scope on the handle of a
  scope beside an unfinished one there, unless a savepoint keeps the second out.
  `callbacks`: on one executor it opens no root transaction in a callback, which
  the runtime refuses. `refusals`: at the root of one executor it has no second
  scope beside a transaction where one of them may be refused before its turn, by
  an observer or by an open stream. `streams`: it opens no session beside an
  open stream of its resource, and asks for no second lease inside a loop over a
  pooled stream. Root transactions and sessions of one executor that overlap and
  are queued (`acquireDirectRoot`, `tests/runtime.test.ts:124`) are within the
  rules. Run `overlap` drops the first; run `usable` keeps all; section 6 tells what
  happens without the others.
- The browser build (`Conservative`) has no asynchronous context: overlap is
  refused by a flag, nobody queues.
- The first `next()` of a stream is part of `Stream`: nothing happens before it.

### Executors and what surrounds them

`MCExecution` puts five machines side by side that share no variable. A
behaviour is of one of them, the others rest (`Quiet`): their states add and do
not multiply, and one run checks them all.

| Module | Models |
| --- | --- |
| `Executor` | the contract of `core/src/executor.ts` as the runtime relies on it, the abstract specification: one call at a time; a call that ends well, or with the error of its statement, leaves nothing running or open, the connection not cut and no transaction the runtime does not know of; whatever cannot say so ends with `BRAID_RESOURCE_CLEANUP` and the lease is discarded |
| `DriverState` | the state all drivers share, what the runtime does to a lease (`Call`, `Take`, `Leave`, `Abort`, `Release`), the faults |
| `Tedious`, `Oracledb`, `Mysql2`, `Mariadb`, `Pg` | one module per executor with cancellation: requests, cursors, prepared names, breaks, drains |
| `Sqlite` | the synchronous executors: better-sqlite3, node:sqlite and the WASM build |
| `Requests` | the executors without cancellation, a call of which is one request after another: postgres.js, PGlite, Neon over HTTP, Bun SQL, libSQL, D1 |
| `Drivers` | the composition: the driver is chosen in `Init`; the properties and the refinement `Implements` of `Executor` |
| `DriverProofs` | the inductive invariant of `Drivers` and the theorems of section 5 |
| `Operations` | the runtime's operations seen by observers: `ready`, `started`, `mapped`, `error` and the rest, for single statements, bulks, batches, prepared queries and streams; observers that throw; the spans of `opentelemetry` |
| `Values` | values as carrier and size class, with a ghost that says whether they are still exact; exact numerics and counts of core |
| `MssqlValues`, `OracleValues`, `MysqlValues`, `PgValues`, `SqliteValues`, `BunValues` | type hints, inference, encoding, fetch types and decoding of each driver |
| `Transfer` | the way of one value: described, bound, sent, stored, read, decoded, as parameter, bulk item, column or output |
| `Literals` | `literalizedSql` with its cache, for several askers with options of their own |
| `TransactionOptions` | transactions with isolation level and access mode, one after another on one connection, and statements of the session between them |
| `MCExecution` | the five machines and their instances |
| `ExecutionProofs` | the inductive invariants of `Operations`, `Literals` and `TransactionOptions`, and the theorems of section 5 |

`MaxCalls` is a bound for each driver: a driver needs as many calls as its
interesting history has (begin, a statement that fails, commit; for Oracle's
autocommit a fourth). `MaxFaults = 2` is a failure and the failure of its
cleanup. `MaxRows = 4` with `MaxBufferedRows = 2` makes Tedious pause and resume
a request, and end it in each of these states. `MaxBulk = 2` is a bulk text that
fails and another one. `MaxItems = 3` is a batch with a query before and after
the one that fails. Lineups have OpenTelemetry last, as its documentation asks,
and first. Two asks suffice for `Literals`, since the cache is per key;
`MaxTransactions = 3` and `MaxFailures = 2` are a transaction with options, one
without, and the begin of one of them failing half way.

`Transfer` has a variable `brought` beside `carried` so that each keeps one
shape. What libraries and databases do with a value is modelled from how the
code relies on it, and is marked external in the map.

### Templates and migration files

| Module | Models |
| --- | --- |
| `Template` | the two readers of SQL text: `scanNext` (`template/src/lexical.ts`) and `trimTokens` with the surgery of `where`, `set` and `trim` (`trim.ts`); parser, renderer, plain path, capture, `guarded`, and the evaluation order that the compiler's lowering writes into a program |
| `Split` | `splitMigrationSql` (`migrate/src/split.ts`): directives, client separators, literals, comments and bodies of each dialect; a step is a turn of its loop |
| `MCTemplate` | the reference: what a template means, found from its outline without parsing it into nodes, and the properties; the subjects, and the migration files that authors write: statements of each dialect around literals, comments and bodies that hold separators, two by two, with comments before them, directives, and mistakes, each with what was meant by it; templates and files in behaviours of their own |

A text is a sequence of units, one for each lexeme: `"q"` is each quote that
doubles to escape itself, `"$$"` the delimiters that end at their next
occurrence, a directive is one unit. A template is written unit by unit from a
subject (a beginning, an alphabet, a length, the values of its holes, a
profile), so that a behaviour is one template with its values. Text that cannot
yet be parsed is not built. In `Split`, white space is implied except line
breaks; `"E"` before a quote and two dashes without a blank behind them are
units of their own because dialects read them differently. MariaDB's profile is
MySQL's.

### Migrations

| Module | Models |
| --- | --- |
| `Migrate` | programs that each run one operation: `startup` in modes apply and verify, `baseline`, `repair`, `acceptSchema`, with the lock, the claim, the body and the hash (`migrate/src/index.ts`, `dialect.ts`); the rows of the history table and `compareHistory` (`history.ts`) |
| `MCMigrate` | four kinds of engine, two releases, and a build of a branch that lacks the first version |
| `MigrateProofs` | the inductive invariants of `Migrate` and the theorems of section 5 |

An engine is three facts: it has an advisory lock, its DDL is transactional, it
refuses a writer while another writes. PostgreSQL and SQL Server have the first
two; MySQL and MariaDB the lock; SQLite transactional DDL and refusal;
Oracle and D1 none of them. The engine is chosen in `Init`, so one run checks
all four. The database's schema is the sequence of body statements that took
effect; its length is what an inspection hashes to. Every statement, answer and
program may fail within `MaxFaults`: a statement fails, a write takes effect
and its answer is lost, a program crashes and the database rolls its open
transaction back and frees its lock. `Off` are the sources that say
`transaction=off`. A repair where there is no lock is guarded by `Inspected`,
the README's rule (`migrate/README.md:159`) that an operator looks first whether
a program is still at work: none has a row that runs, and none is about to claim
on a history it has read (section 6 says why the second is needed).

Three assumptions on the constants, which TLC evaluates in both runs.
`MigrateConstants`: where DDL is transactional there is a lock or a refusal, as in
every dialect of the package. `ManifestConstants`: what `readSources` and
`validateManifest` leave of a manifest: the name of a source says its version, a
version occurs once, and the finite lists have a first and a last entry.
`NullIsNoRow`: `Null` is not a row.

### Editor

| Module | Models |
| --- | --- |
| `Workspace` | `createWorkspace` (`tooling/src/workspace.ts`): documents, revision, the refresh that callers share, cancellation, the three attempts of `service`, the cached config and project |
| `LanguageServer` | the server (`language-server/src/server.ts`): `scheduleDiagnostics`, `publishDiagnostics`, the pull, `withService`, document events, watched files, folders |
| `MCServer` | two editors, in behaviours of their own: one with two documents that waits for what is pushed, one with a single document that asks and cancels while its files change |
| `LanguageServerProofs` | the inductive invariant and the theorems of section 5 |

What happens between two awaits of I/O, with the promise jobs it starts, is one
turn of the event loop (`Drained`); events of the client and timers come in
turns of their own. A copy of a revision is only ever compared with the
revision, so it is kept as a flag that every event clears. A file has `own`, the
part its evidence (times and size) shows, and `parts`, what it imports or
extends, which its evidence does not show; `noticed` is the disk when somebody
last called `invalidate`. The library that keeps the documents is external:
it changes a `TextDocument` in place, and opening a document again makes a new
one with version 1; `Held` is the document a job holds.

### Release

| Module | Models |
| --- | --- |
| `Release` | staging with its journal, recovery, approval and rejection, the workflow runs of GitHub and the registry around them (`src/scripts/release.mjs`, `assert-release-workflows.mjs`, the workflows) |
| `MCTools` | one or two packages, alone or together, prerelease or not; worlds in which one is published already, under its tag or not; beside them, in behaviours of their own, the templates and files of `MCTemplate`, so that one run checks all that needs no database |
| `ReleaseProofs` | its theorems |

A group of reads, a write of the journal and an upload are a step each; a run
may die between any two. One recovery is asked for at a time, and who confirms
that a stage run is over is honest when the recovery is dispatched. GitHub's
replacement of queued runs is left out. `MaxEvents = 4` and `MaxStages = 3`
allow an upload whose answer is lost, its recovery, and somebody else in
between; `Rerunnable = {"skipped"}` are the runs that may be run again
(section 6 tells what happens with the others).

## 3. The runs

Sizes are distinct states; times with two workers on a small machine.

| Run | Instance | Checks | Size |
| --- | --- | --- | --- |
| `direct` | 4 calls of every kind, one executor, in each build of the runtime: failing cleanup with queues, failing control statements in the browser's | TypeOK, PhysicalExclusion, InOwnTransaction, EndsAlone, UsableInTransaction | 2.2 million, 130 s |
| `pooled` | 3 calls, 2 leases, every fault | CleanReturn, OneHolder, NoEscape, UsableHandle, PoisonQuarantine | 1.2 million, 50 s |
| `live` | 3 calls of every kind, one executor, failing cleanup, fair | Ownership, Answered | 236 000, 95 s |
| `overlap` | 3 calls, one executor, without the rule `siblings` | InOwnTransaction: violated | 2 s |
| `usable` | 3 transactions or sessions, one executor, all rules, no fault | UsableHandle: violated | 2 s |
| `migrate_replicas` | 3 programs that apply or repair, 4 engines, 3 manifests; 2 faults where there is a lock, 1 elsewhere | StartedOnce, Evidence, Atomic, Ordered, NothingPartial | 1.06 million, 90 s |
| `migrate_operators` | 2 programs, every operation, 2 faults, fair | Settles | 128 000, 50 s |
| `server` | 2 documents, 2 publishing jobs, 4 events, fair; or 1 document, pushed, pulled and asked about, 3 events, 1 write to a file | PushedForItsText, WaiterShown; RequestForItsText, ServedCurrent | 1.3 million, 60 s |
| `execution` | 15 executors; 3 lineups of observers; every driver's values; 4 kinds of description; every driver's transactions; fair for the executors | Implements, Settles, CommitMeansCommitted, StreamComplete, TransactionHolds, NameMeansText; Accounted; SentAsGiven, ReadAsPromised; LiteralAsAsked; RunsAsAsked | 197 000, 40 s |
| `batch` | the instance of `execution` | OneTerminal: violated | 20 s |
| `spans` | the instance of `execution` | SpansEnd: violated | 20 s |
| `tools` | 3 candidates, 3 worlds, 3 stage runs, 4 events; 10 subjects; 2200 migration files of 5 dialects | OneStage, NothingForgotten, Verifiable; RendersActive, BindsStayLive, SameHoweverBuilt; SplitsAsWritten | 1.5 million, 65 s |

The four runs that end in a violation state what the documentation or a comment
says, and TLC shows what the code does instead: section 6.

What the properties say.

*Runtime.* `PhysicalExclusion`: a driver never has two of the runtime's calls on
one connection. `Ownership`: whoever is in the driver is the head of its queue,
and has not lost its place. `InOwnTransaction`: a statement runs in the
transaction of its handle, and a control statement finds the stack it expects.
`EndsAlone`: a transaction is ended when nothing else is queued in it.
`UsableHandle`: the handle of a callback is accepted while every other scope on its
resource is around it, so refused and ended calls have put the markers back. On
one executor with its queue this is false, and `UsableInTransaction` says it of
the handles in a transaction, where it holds. `CleanReturn`: a lease goes back with nothing open on
it. `OneHolder`: a lease has one holder, is returned or discarded once, and the
stream counters count exactly the streams they stand for. `PoisonQuarantine`:
nothing is started or committed on a poisoned resource. `NoEscape`: no statement of a
callback leaves its scope through the root handle. `Answered`: every call
settles.

*Executors.* `Implements`: each driver's specification implies `Executor`'s, by a
refinement mapping of its call, its wire and its lease; so what `Scopes` assumes
of an executor is what the drivers do. `StreamComplete`: the consumer gets the
rows in order, none lost or doubled, and all of them where the stream ended
well. `TransactionHolds`: what the driver and the runtime believe of the
transaction is so. `CommitMeansCommitted`: a commit that is reported as done has
committed. `NameMeansText`: the prepared name node-postgres keeps for bulks is
the text it is used for. `Settles`: every call ends.

*Operations.* `Accounted` says exactly what observers hear, which is less than
what the documentation promises: of each query that was announced to it, an
observer hears one end, or first the result and then an error where the result was
refused by itself or by a later observer, or no end where the operation is one
of the two kinds that are left untold (`Unspoken`); each error says what the driver
had done; a span is ended once and as the call was for the caller, or stays open where the
end is untold. `OneTerminal` (of a batch) and `SpansEnd` are the promises, each
in a run of its own that refutes it.

*Values.* `SentAsGiven`: what goes to the database is what the program gave, or
the call is refused. `ReadAsPromised`: what comes back is exact, or of the
representation its profile promises, and outputs are those of their names.
`LiteralAsAsked`: each asker is shown what its own options allow, of the value
it asked about. `RunsAsAsked`: a transaction runs under its options or the
session's, and so do statements outside of it.

*Text.* `RendersActive`: a rendering is the active text of the template with its
binds in place, trimmed as its directives say; the reference is `Meaning`, which
does not know the parser's nodes. `BindsStayLive`: no bind ends up in a literal
or a comment. `SameHoweverBuilt`: called, guarded, lowered and plain queries
render alike, and a lowered one evaluates just what is read. `SplitsAsWritten`:
a migration file comes apart into the statements its author wrote, each whole
and with its comments, under the options of its directives, or is refused if it
was a mistake; nothing seen in one statement changes how the next is read.

*Migrations.* `StartedOnce`: two programs never run bodies together, and a
version is started by one program until someone repairs. `Evidence`: a success
row means that the body took effect, whole and uninterrupted, who resolves
finds all its versions there, and the recorded hash is that of the schema when
all ended well. `Atomic`: in a transaction, claim, body and success
are all there or none is. `Ordered`: versions are recorded in ascending order
always, and take effect in it until someone repairs, across releases, branches
and failures. `NothingPartial`: no body starts on a database another left in pieces.
`Settles`: every program ends.

*Editor.* `ServedCurrent`: a service is built from the present documents and
from files no older than the last notice, and a caller that did not cancel is
refused only when two events came while it waited. `PushedForItsText`: what is
shown for a document was computed on the text of the version it is shown for,
and a closed document shows nothing. `RequestForItsText`: the same of a hover
when its answer leaves. `WaiterShown` (`LastShown` of the editor that waits): what
the last event scheduled is shown in the end.

*Release.* `OneStage`: a package is never staged twice at a time.
`NothingForgotten`: what a run uploaded is in the journal it leaves behind.
`Verifiable`: who follows the printed commands publishes nothing before what it
depends on, and what was approved passes the check of the published packages.

Each property of a passing run has a mutant in `PROJECT.json`, a change of one modelled
definition of the kind a bug would make (a turn that is not awaited, a marker
not restored, a cache kept over an invalidation, a trigger's body forgotten),
under which TLC finds it violated in the same run. The mutants are the
definitions marked as such in the modules.

### Bounds

- *Calls, leases.* Four calls are a root transaction, a nested one, a stream in
  it and a sibling: the smallest case in which a savepoint, an open stream and a
  straggler meet. Two leases are enough for a lease to come back while another
  is out, and three calls for one to wait. Symmetry permutes calls, which no
  definition tells apart; it is not used where liveness is checked. `Direct` is
  a `CHOOSE` over resources, which are not permuted.
- *Programs, faults.* Three programs: one that fails, one that repairs, one that
  applies after it. Two faults are a failing body and the failing write that
  should mark it. Two statements make a body, so that it can be left in pieces.
- *Events.* A document that is opened, closed and opened again has version 1
  twice: three events. The three attempts of a service are used up after four.
  `MaxWrites = 1` is one change that a cached config misses.
- *Executors and their neighbours, release.* See section 2.
- *Templates.* The lengths of the subjects are the shortest that hold a
  directive within a directive with text before, between and after, and a
  literal or comment around each kind of boundary. `MaxBinds`, `MaxItems`,
  `MaxNesting` are the code's limits, small enough to be met.
- *Migration files.* Two statements, since what is forgotten between two is
  forgotten between all; each kind of body with each kind of literal in it.

`CHECK_DEADLOCK FALSE` stands where the system really may stop: a server whose
client does nothing more, an executor nobody calls, a rendered template, a
package that is published. The other models have an explicit `Quiet` step for
their good end, and a state without a successor is an error.

## 4. Fairness

- `Scopes`: the code of each call runs on (`WF` of `Lead`), callbacks return
  once they may (`WF` of `Return`), loops over a stream go on or are left, and
  rows run out (`SF` of `Exhaust`, since a consumer may ask for rows again and
  again). That drivers and observers answer is assumed: the runtime has no
  timeout of its own, so a driver that never answers blocks its queue by design.
  For the drivers, `Settles` shows it.
- Executors: the library and the database answer, timers fire, and the
  consumer of a stream takes its rows or leaves (`WF` of `Progress`). An
  abort or a fault is never required.
- `Migrate`: a started program goes on (`WF` of `Work`); `waitForClaim` counts
  the time since its beginning and gives up in the end however often it looked
  again (`SF` of `GiveUp`). Crashes and faults are never required.
- `LanguageServer`: the event loop goes on while something is ready (`WF` of
  `Work`). Nothing asks the client to edit, ask or cancel. It is assumed for the
  editor that waits in `MCServer`: requests without end could keep the loop at
  other work.

## 5. Proofs

`ScopesProofs` proves, for any numbers of calls and resources, for the direct,
the pooled and the browser build, and whatever may fail:

- `TypeCorrect`: `Spec => []TypeOK`;
- `OwnershipHolds`: `Spec => []Ownership`, the property of run `live`;
- `Inductive`: `Spec => []IInv`, from which both follow.

Assumptions: `ScopeConstants` and `StatementConstants`, which TLC evaluates in
every run of `MCScopes`.

`Ownership` alone is not inductive. A scoped call gives its turn back with
`Tail`: that this removes itself needs that it is the head, and that a call at
`running` is a statement with a resource, of the right kind of handle.
`IInv` therefore says of each call (`Local`) where it has a resource, of which
kind the call at each label is, that a scope that drains is closed, and the two
clauses of `Ownership`; and of each call and its handle (`Handles`) that the
handle is in its callback, or closed and past it, and that a scope is opened only
from a callback that waits for it.

The argument: every action is a step of one call `c`. `Advance(c)` says what such
a step may do to anything else: other calls keep label, request and resource,
and queues change only by `c` joining at the end or leaving from the head.
`AdvanceKeeps` shows that this preserves `IInv`; a lemma per action
(`LeaseStep`, `ControlStep`, ...) shows that it is an `Advance`.

The second part of `ScopesProofs` goes on from there, under the same assumptions,
whatever the application does (`Orderly` or not):

- `ExclusionHolds`, `NoEscapeHolds` and `OneHolderHolds`: `PhysicalExclusion`
  of run `direct`, `NoEscape` and `OneHolder` of run `pooled`;
- `HoldersInductive`: `Spec => []JInv`, from which all follow.

`Ownership` keeps apart the calls of one queue. Across the two queues, or between
a scoped call and a lease, one has to know in which root scope a scoped call is,
and that this scope still holds the resource; `JInv` adds that to `IInv`:
`Kin`, the code around a call was there before it; `Under`, a scope inside another
is inside a root scope whose callback runs, on the same resource; `Share`, a
scoped call is on the resource of its handle; `Stays`, a scope does not end before
the statements it has granted, which is what `finish` waits for; `Sole`, of the
root calls one holds a resource, and `Leased`, of a lease that is out, one does.
`Clear`, for `NoEscape`, is that what `assertRootAllowed` let through stays so.
`Known` and `Counted` are about the counters: a scope that may still be left has
each of its streams among those it returns, so no stream outlives a lease it
uses, and a discarded connection takes no counted stream with it but one that is
about to leave. `Frame(c)` says what a step of `c` may do to any of these; a lemma
per action shows it does no more, a lemma per part that it is kept. `ScopesProofs`
takes some nine minutes.

`NestingProofs` proves, for any numbers of calls and resources and the three
builds, the properties of the runs `direct` and `pooled` that are left:

- `EndsAloneHolds`: `Orderly => (Spec => []EndsAlone)`, and in the same form
  `UsableInTransactionHolds`, `OwnTransactionHolds` (of `InOwnTransaction`),
  `CleanReturnHolds`, and `PoisonQuarantineHolds` of the action property;
- `UsableHandleHolds`: `Orderly /\ (Pooled \/ Conservative) => (Spec => []UsableHandle)`,
  for a pool and for the browser build. Run `usable` shows why one executor with
  its queue is left out;
- `NestingInductive` (`[]CInv`) and `StacksInductive` (`[]SInv`), from which they
  follow.

The hypothesis `Orderly` is that of those runs: a program keeps the four rules of
`Permitted` (section 2), under which root transactions of one executor may overlap
and queue. Run `overlap` shows that `InOwnTransaction` is false without `siblings`,
and section 6 says why it is without `refusals`. What may fail is not restricted.

The argument starts from the order of scopes. `Lined`: of the scopes entered on one
resource any two are one inside the other, and the outer ones wait in their callbacks;
`Between` and `Heir` tie this to the handles they were opened on. `Inside`, `Marked`,
`Saved`: a scope's transaction is the last one around it, the markers of a resource
are those of its deepest scope, and what a scope saved of them when it entered is what
holds around it, so leaving restores what the scope outside expects. `Vacant`: where
nobody is, the markers are those of a new resource. One executor with its queue
(`Loose`) is the exception: a root transaction saves the marker when it is called
and restores it when it ends, and in between it waits for its turn. `Remembers`
says what it saved: nothing, a transaction that has ended (`Gone`), or the one that
is there as long as it has not entered itself. So outside of transactions the
marker may be a dead one, and `Marked` and `Vacant` allow that; inside one it is
exact, because a transaction sets it when it has its turn (`Enters`), and whoever
writes it without the turn (`Overwrites`) does so when no transaction is there.
For the latter, `Sure` says that nobody is refused before its turn beside another
root scope, which the rule `refusals` is for. Of a poisoned resource (`Tainted`)
nothing is said, since every later call is refused by its poison first. `Booked`,
`Keeps` and `Single` are
about scopes that are not entered yet: in a browser the marker is set while the
caller still waits for its resource, and one handle has one scope that may enter.
These are `NInv`; each of them fails after some step without the others.

`CInv` adds the end of a transaction (`Lasts`, `Ending`, `Guarded`): what `finish`
waits for is all of the queue, nobody joins it after, and the control statement is
let through only on a healthy resource. `SInv` adds the database. `Stacked`: as long
as what the runtime was told of a resource is so (`Trusted`: it is not poisoned, or
was not when a control statement that has no answer yet was let through), the stack
there is the transactions begun on it, the inner above the outer. It needs how far
each transaction is at each label (`Staged`), who is in the queue (`Queued`), and
that a scope does not end before the calls made on it (`Hopes`); `Within` is then
that a statement has its transaction on top from its start to its end.

`Nests(c)`, `Steps(c)`, `Paces(c)` and `Works(c)` say what a step of `c` may do to the
scopes, to the queue of one executor, to the end of a scope and to the stack. A lemma
per action shows that it is such a step, a lemma per conjunct that such a step keeps
it. The 9116 obligations take some twenty minutes.

`MigrateProofs` proves, for any set of programs, manifests and engines, any
operations, any sources outside transactions and any number of faults:

- `MigrateTyped`: `Spec => []TypeOK`;
- `StartedOnceHolds`, `AtomicHolds`, `OrderedHolds`, `NothingPartialHolds` and
  `EvidenceHolds`: every property of the run `migrate_replicas`;
- `MigrationInductive`: `Spec => []IInv`, and `HashInductive`,
  `Spec => [](IInv /\ HInv)`, from which all follow.

Assumptions: `MigrateConstants`, `ManifestConstants` and `NullIsNoRow` (section 2).

None of the properties is inductive: that a program may run its body depends on
what it read some steps before. `IInv` says what is left of that. The parts:
`LockHeld`, a program behind the lock holds it; `Promised`, what a program's
locals are at each label; `OpenRows` and `OneOpen`, a transaction holds the row
of its body, and there is one; `Bodies`, the row of a body outside a transaction
is in the table, running, and its statements are the last of the schema; `Pieces`
and `Owned`, statements and rows belong together; `SeenAt`, what a report has
read still holds. The heart is `Fresh`: a row that is chosen and not yet in the
table has the rank after the last, no row is running or failed in pieces, and its
version is above all others. When the first of several programs inserts its
row, the rank is taken, so the others' rows are not `Chosen` any more (`OneRank`,
`Apart`, `ClaimsAloneTable`); from there on its running row sends others to wait,
and where the claim is in a transaction the lock or the refusal does.

The steps of a program are of a dozen kinds (`Still`, `Claims`, `Runs`,
`Finishes`, ...) that say what they do to rows, schema and transactions. A lemma
per kind shows that it keeps `Table`, a lemma per action of `Migrate` that it is of
its kind and keeps the rest. That a repair outside a lock keeps `Table` uses
`Inspected`.

`HInv` adds the recorded hash, which is looked at and written after the lock is
given back, for `EvidenceHolds`. That all ended well is a fact about the end, and
`HInv` is what holds on the way there as long as nothing failed (`Well`): every row
is a success or that of a running body (`NoneLost`), so the last row is of a program
that has its hash recorded or is still to inspect the schema (`LastHashed`, `Owes`);
a program that looked at the schema before another one's last statement has a row
before that one's, so what it writes is not on the last row (`Current`). `AtTop`,
that a body outside a transaction is that of the last row, holds whatever failed. A
lemma per kind of step again, three of which are shared by all steps that do not
touch rows or schema (`GoesOn`) and by those after which somebody rejects
(`Rejects`, `Spoils`).

`LanguageServerProofs` proves of the editor's server and the workspace it calls,
for any documents, files, callers, jobs and numbers of events:

- `ServerTyped`: `Spec => []TypeOK`;
- `RequestHolds` and `ServedHolds`: properties of run `server`,
  `RequestForItsText` and the action property `ServedCurrent`;
- `PushedHolds`: `PushedForItsText` of the same run;
- `ServerInductive`: `Spec => [](WInv /\ SInv)`, from which all follow.

Assumptions: `WorkspaceConstants`, `ServerConstants` and `NoneIsNothing`, that
"nothing" is no document, call, state or result.

`WInv` is about the workspace. `Newest`: what a running refresh has read, or a cache
holds, is no older than the last notice, or the refresh is out of date. `Granted`:
a caller that has been woken holds the present documents, since nothing else runs
between the delivery of a refresh and the turn of its callers.
`Due`: each attempt after the first has cost the caller an event. `SInv` is about
the server. `Numbered`: versions of an open document only grow, so a job whose
document still has the version it started with works on the text of that version
(`Kept`). `Sole`: a run of `publishDiagnostics` is the one its document remembers,
or is cancelled, so no event passes it by; `Timed` says the same of what is scheduled.
A dozen lemmas say what a kind of change keeps (an event, a step of the refresh,
its delivery, an attempt, the end of a job), and one per action of which kind it is.

`DriverProofs` proves of all fifteen executors, for any number of calls, rows,
bulk items and faults and any size of the buffers:

- `ImplementsHolds`: `Spec => Implements`, that they implement the contract
  `Executor`: the initial states map to its initial states, and every step to
  one of its steps;
- `TransactionKept`, `CommitHolds`, `StreamHolds` and `NameHolds`: the properties
  `TransactionHolds`, `CommitMeansCommitted`, `StreamComplete` and
  `NameMeansText` of run `execution`;
- `DriversInductive`: `Spec => []Inv`, from which all follow.

Assumptions: `DriverConstants` and `BulkConstants`, that the bounds are natural
numbers.

The contract speaks of the ends of calls; that a call ends quietly depends on all
that came before in it. `Base` says what holds between the calls of any driver,
`Rows` what a stream owes its consumer (`InOrder`, `Complete`), and an invariant per
driver what its connection, library and locals are at each place of its code:
`TediousInv`, that what was sent was taken or is queued, and that a request whose
completion was seen runs no more; `OracleInv`, that a break is under way only
after an abort and in a call that will wait for it, and where a cursor may be
open; `PgInv`, that a client is ended only by an aborted call, which asks for
cleanup from then on, and that portals are open only in a transaction; and so on.
`PgNames` is that the client and the server know the same text by the name of a bulk,
and that it is the text of the cache.

A step of any driver is of one of six kinds, `Begins`, `Works`, `Takes`, `Ends`,
`Turns` or `Releases`. A lemma per kind shows that it keeps `Base` and `Rows` and is a
step of the contract (`Move`, `MoveConforms`), and a lemma per driver that each of
its actions is of one of the kinds and keeps the driver's own invariant. The parts
of the other drivers are about another `subject` and hold trivially. The 4576
obligations take some eight minutes.

`ExecutionProofs` proves of three other machines of `MCExecution`, for the
behaviours of the whole of it:

- `AccountedHolds`: `Execution => []Accounted`, for any lineups of observers, batches of
  any length and streams of any number of rows;
- `LiteralHolds`: `Execution => []LiteralAsAsked`, for any number of askers;
- `OptionsHold`: `Execution => []RunsAsAsked`, for any number of transactions and
  failures.

Assumptions: `LineupConstants`, that a lineup has at most one observer of
OpenTelemetry (`Operations` keeps one span per query); the other two machines
need none beyond those of the drivers.

`Accounted` speaks of the moment an operation settles. `OpInv` says how far it is
before that. `OpWay`, `OpTold` and `OpRaw` are the locals at each step: which
queries of a batch are announced and owed an end, and what the driver did for them.
`OpDue`: of the errors that are owed, each says what was done for its query; there
are two only for a bulk that lost its driver and its lease. `EndsAt` is the heart,
of each observer and query: it heard no end while the query is under way; at
`failing` it may have heard a result that it or a later observer refused
(`HalfEnd`), so that the error that is owed makes two; the queries of a batch that
are not the one in hand have ended if they are no longer owed one and have heard no
end if they are. `SpanAt` is the same of the last observer's spans: not opened
before the announcement, open while the query is under way, ended as the caller will
be told. `Delivered` says who hears an event when somebody throws; `Reached`,
`HearsError`, `SpanHears` what it adds to what was heard; a lemma per step of the
operation that the invariant is kept.

`LiteralInv`: what the cache keeps for a key is what describing anew under any
options of this key would give, and a key tells the options apart (`KeyTells`).
`OptionsInv`: `Left` computes what the statements still to be sent would leave of the
connection, and that is the options asked for, at every point of the begin at
which it may fail or be taken back.

`ReleaseProofs` proves of the release scripts, for any packages and dependencies
without a cycle, any number of runs, uploads and people:

- `OneStageHolds`, `NothingForgottenHolds` and `VerifiableHolds`: the properties of
  run `tools` that are about releases, under the hypothesis below;
- `ReleaseInductive`: `Spec => []IInv`, from which all follow.

Assumption: `ReleaseAssumption`, that names are given once and dependencies do not
go round (`publishOrder` refuses both), and that a candidate is one package, or
several if it is of the former workflow. Hypothesis: `Rerunnable \subseteq
{"skipped"}`, that no run is run again once its upload step began. Without it
`OneStage` is false, as section 6 says, so it stands in the theorems and not among
the assumptions of the module.

An upload is remembered in three places, and each property needs another of them.
`Uploaded`: its run is one that GitHub shows with a step that was not skipped, and the
journal of the run, if it was preserved, has the package pending or staged, under the
id of the upload or none; or it is the job's own, in memory and on disk. `Alone`:
from the checks of a stage run on, or from the dispatch of a recovery, every live upload is the
job's. `Passed`: what the job has uploaded is behind its loop, or is the package
it is at after the upload. Then no package can be uploaded while a live upload of
it is there. `Progress` and `Finished` say what is behind the loop, and behind a
complete journal: a package is staged under an id that exists, or public under its
tag. `Approved`: what came out by the printed commands came after what it
depends on.

That needs facts about two recursive functions. `order` and the layers of
`within` are shown to exist by the least number at which they would not
(`Iterates`), so that their equations may be used. `order` is then a list of
all packages, each once (`OrderFacts`): where some are left one is ready, since
dependencies do not go round, and as many steps as there are packages take them all.
What a package of a layer depends on within the release is in an earlier layer
(`LayersFollow`). A lemma per kind of step (`RunsKeep`, `LoopBegins`,
`EntryMoves`, `Uploads`, `FinishKeeps`, `PeopleKeep`) shows that it keeps the
invariant, and a lemma per action that it is of its kind.

What stays with TLC. Liveness and everything under fairness is out of the
prover's reach, and so is what a recursive definition computes for every input:
`Template` and `Split` and the modules that reach them are only
checked. `SentAsGiven` and `ReadAsPromised` are facts about a finite table of value
classes that no constant enlarges, so the run decides them. `RendersActive`,
`BindsStayLive`, `SameHoweverBuilt` and `SplitsAsWritten` compare a recursive
definition with another one over all inputs of a grammar. Every other invariant and
action property of the passing runs is proved.

## 6. Disagreements and observations

Four disagreements with the documentation are runs that TLC refutes:

- `overlap`: two overlapping `session.tx()` calls both pass the checks, wait for
  the observers of their begin, and each then sets `activeScope` without looking
  at it (`runtime/src/index.ts:1458`): the second `BEGIN` is sent inside the
  first transaction. The comment at `state.ts:16` says the markers reject it.
- `usable`: two root transactions overlap on one executor, and the second waits in
  the queue. It saved `activeScope` when it was called (`index.ts:1405`), while
  the first was running; in its `finally` it writes that marker back
  (`index.ts:1604`), though the first has ended. The handle of every session after that is
  refused (`index.ts:195`) although nothing else is open.
  `docs/mental-model.md:215` says that the marker "identifies the transaction or
  savepoint handle that is currently valid".
- `batch`: when an observer throws at `query:mapped` of a batch item, everybody
  hears a `query:error` of it as well (`materialized.ts:244`). The website
  (`observers.md:62`) promises "exactly one terminal `query:mapped` or
  `query:error`", observer failures included.
- `spans`: a prepared query announces `query:ready` and then throws at the assertion of
  its kind without an event (`prepared.all`, `one` and `maybeOne` of a command,
  `prepared.execute` of a call, `prepared.call` of anything else); `one` and
  `maybeOne` of a query of unknown kind that returns a command do the same after
  it ran. The span stays open, where the website (`opentelemetry.md:45`) says that
  it "ends at the matching mapped, result or error event". These are the
  `Unspoken` of `Accounted`; `prepared.stream` does tell its end, and `all` tells
  `query:mapped` and then rejects.

The rest was met while modelling. Each is either excepted by name in the
property it would break, or outside of what the instances let happen.

*Runtime.*
- A root transaction that an observer, or an open stream (`Refusable`), refuses
  before its turn runs the same `finally` as in run `usable`, and clears the marker
  of the transaction that owns the executor (`index.ts:1603`). While a savepoint is
  open in that one, the outer handle is accepted and its statement runs inside
  the savepoint, although `docs/mental-model.md:258` says that the use of a parent
  handle is rejected. The rule `refusals` keeps such programs out.
- `session()` inside the loop over a stream of the same resource waits in
  `finish` for the turn the stream holds (`index.ts:1631`), and the stream's loop
  waits for the session. The website (`transactions.md:61`) says that such work
  fails; it hangs. The rule `streams` keeps such programs out.

*Editor.* A pull pauses after it has analysed the text, the document is changed
in place, and the check of its version (`server.ts:493`) compares the document
with itself: the report carries the new version and items of the old text.

*Operations.*
- Outside of a batch, too, who heard a result that a later observer refuses hears
  an error after it.
- A bulk tells `query:error` twice when the driver and the release both fail.
- Streams that were not prepared are never announced and have no span.
- The flags of stream errors: a lease without `stream()` reports
  `executionStarted` true (`stream.ts:162`, `250`), and a mapping failure reports
  `executionCompleted` true before the stream is done (`core/observers.ts:117`).

*Templates.*
- `guarded()` is not lazy for a template whose only directive is a `choose`
  (`template/src/compiled.ts:11`; its comment at 65 says that inactive branches
  stay lazy), and it reads every template with the default profile, not that of
  its dialect.
- A `where`, `set` or `trim` shares the set of output names with what it is
  rendered into, so an output inside one is refused as a duplicate.
- Trimming always takes a backslash for an escape and knows no dollar, bracket
  or q-quotes, while the scanner follows the profile: on PostgreSQL
  `/*@braid set*/ sep = '\', /*@braid end*/` keeps its comma.
- A fragment that ends in a line comment swallows what follows it. Only word
  characters are kept apart: `-` and `-`, or quote and quote, merge at a
  directive's boundary.

*Migrations.* Attempts at proofs showed that two promises need more than the
code keeps, where TLC's instances had been too small:
- Without a lock, a version may run twice after a repair although none of the
  programs runs a body during it. Version 1 is run, the answer of its `finish`
  is lost, and before its program marks the row failed another reads the success
  and chooses version 2. The failed row is then deleted by `repair`; a third
  program finds no row, takes rank 1 and runs version 1 again, and the second
  claims version 2 on what it had read. `Inspected` therefore asks that no
  program is about to claim. It takes four programs.
- Even with a lock, a version that failed outside a transaction, and was deleted
  by `repair`, has run before an earlier version that comes with the next
  manifest: `Ordered` promises the order of bodies until a repair only, and that of the
  record always.

*Migration files.* MariaDB's `BEGIN NOT ATOMIC` blocks and `CREATE PACKAGE` are
cut at their semicolons without a refusal; the documentation asks for
`DELIMITER` there.

*Drivers.*
- Tedious: `cancel()` throwing while a request is paused leaves it paused, and
  the call never ends (`Stalled`). The isolation level of a transaction stays on
  the connection (excepted in `RunsAsAsked`).
- node-postgres: what the comment at `executor.ts:198` says of `cache.text`
  holds only where the library keeps its own registry of names.
- MariaDB: `close()` may answer nothing (`mariadb/src/types.ts:29`), so it is
  not waited for.
- postgres.js: a reset that fails keeps the reservation.

*Values.* The Bun driver's literal text ignores `binary: "summary"` and prints
all bytes; Oracle's exact numbers that go both ways are shown as
"[unsupported numeric value]"; an environment of the user's own for Oracle, and
a type policy of the user's own, drop capabilities of the driver; node-postgres
profiles that mix representations have `numeric[]` parsed by the library.

*Release.*
- Running a finished stage run again hides its upload, since GitHub lists the
  jobs of the latest attempt, and a later stage run uploads again
  (`assert-release-workflows.mjs:207`).
- Running a recovery again, or recovering twice from one run, uses a stale
  confirmation.
- Recovering a coordinated release of which a part is approved fails at
  `assertLatestUnchanged`, since the journal keeps the tags from before.

## 7. What is not covered

In the modelled components:
- *Runtime*: `environment` and the check of `physicalContext` for re-entry; the
  identity of bindings; a pooled database in a host without asynchronous
  context. `batch` and `bulk` are modelled in `Operations`, one call at a time,
  not among concurrent calls. Sibling sessions of one callback, whose `finally`
  may restore a closed session (`index.ts:1341`), are excluded by the rule
  `siblings`. A second lease asked for in a loop over a pooled stream waits or
  fails as the provider decides; the rule `streams` excludes it.
- *Operations*: what events carry beside their kind and flags, the probe of the
  environment, transaction events, metrics and attributes.
- *Drivers*: signals that are aborted before the call; a server that rolls a
  deadlocked transaction back by itself; inspectors of schemas; the browser's
  worker; Bun's SQLite. PGlite, Neon, libSQL, D1 and the SQLite executors have
  no lease to release. User code is taken not to use the drivers' own prepared
  names, and to pass the options the documentation allows.
- *Values*: lengths of text, names of row objects, duplicate labels, aliases of
  type names, type policies of the user's own, a program that changes a buffer
  or date it has bound. `LeftToTheLibrary` names what libraries convert by
  themselves: floats, bits and fractions hinted as integers in Tedious, NaN in
  the synchronous SQLite drivers, an invalid Date in libSQL. D1 reads integral
  REAL values as text, Bun's SQLite has no DECIMAL, native temporal values lose
  microseconds, Oracle's numbers that go both ways depend on the session's NLS.
- *Literals*: the escaping of control characters, and how placeholders are
  spelled.
- *Transactions with options*: nested options, which are refused; D1 and Neon
  over HTTP, which have no transactions; `SET TRANSACTION` statements of the
  program's own. PostgreSQL runs read-uncommitted as read-committed, as
  documented.
- *Templates*: the raw spelling, the limit in bytes, caches, the expansion of
  variants, MySQL's rule for `--`, bracket, backtick and q-quotes, trim
  attributes other than one sample. `RendersActive` leaves out conditions that
  are hints, fragments or outputs. Tags with `await` or `yield` in their holes
  are not lowered.
- *Migration files*: quoted identifiers are one kind of quote; tags of dollar
  quotes are two; words glued to quotes or delimiters without a blank, the byte
  order mark, and `DELIMITER` strings other than `//` and `;` are left out.
- *Migrations*: `once` and its cached check; validation of the manifest; modes
  off and report; DDL by others; releases whose repeatables differ in text, which
  take turns without a lock (`index.ts:240`); a lock lost while its program
  lives. Three behaviours the documents concede have no property: an apply that
  fails after a success records no hash (`index.ts:342`), a start between a
  commit and the record of its hash sees a drift (`index.ts:371`), and a hash
  may overwrite one accepted meanwhile (`index.ts:345`).
- *Editor*: limits of the caches, several targets and folders, errors in the
  config, shutdown, workspace symbols. A document that closes and opens again
  under a request is left out of `RequestForItsText`: the code cannot tell the
  two apart. A publishing job that is refused because other documents were
  edited while it waited is not scheduled again (`server.ts:338`): `WaiterShown`
  speaks of the documents the last event scheduled, and the others may keep
  their older diagnostics. What a service computes from a text is not modelled.
- *Release*: durable evidence, packing and its checks, dry runs, the reuse of a
  journal by a local publication.

Components without a module: the description of queries and schemas, codegen and
cli are sequential programs that read, print and write; the bundler plugins, the
extension and the website are packaging; discovery and checking in the compiler
work on TypeScript's syntax tree, and most of their logic is TypeScript's.

## 8. The plan

Done:
1. `Scopes` and its parts, runs, `ScopesProofs`.
2. `Migrate`, runs.
3. `Workspace` and `LanguageServer`, runs.
4. The drivers and the contract they implement.
5. `Operations`, `Template`, `Split`, `Release`, runs.
6. `Transfer`, `Literals`, `TransactionOptions`.
7. `MigrateProofs`.
8. `LanguageServerProofs`.
9. `DriverProofs`.
10. `ExecutionProofs`.
11. `NestingProofs`.
12. `ReleaseProofs`.

Where models may grow: `once` of the migrator, sibling sessions and
batches among concurrent calls in `Scopes`, the variants of a template. New
questions should join a run of the same system.
