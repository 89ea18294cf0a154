------------------------- MODULE TransactionOptions -------------------------
(***************************************************************************)
(* tx(options): which options the runtime lets through, what each driver    *)
(* sends for them, and what the connection is left with.  A driver may need *)
(* two statements, the first of which says how the next transaction is to   *)
(* be: what becomes of it when the second fails?                           *)
(***************************************************************************)
EXTENDS Naturals, Sequences

CONSTANTS MaxTransactions, MaxFailures

VARIABLES
    subject,     \* [driver, pooled]: pooled connections are replaced when they are given up
    phase,       \* "idle", "beginning", "open", "ending" or "lost"
    asked,       \* the options of the transaction
    statements,  \* those of its begin that are left to send
    connection,  \* [level, next, running]: of the session, of its next transaction, of the current one
    lone,        \* under which options the last statement outside a transaction ran
    lateRefusal, \* a driver refused in begin what the runtime let through
    transactions, failures

vars == <<subject, phase, asked, statements, connection, lone, lateRefusal, transactions, failures>>

SqliteDrivers == {"better-sqlite3", "node-sqlite", "sqlite-wasm"}
PgDrivers == {"pg", "postgres-js", "pglite", "bun-postgres"}
MysqlDrivers == {"mysql2", "mariadb", "bun-mysql"}
OptionDrivers ==
    SqliteDrivers \union PgDrivers \union MysqlDrivers
        \union {"bun-sqlite", "mssql", "oracle", "libsql-file", "libsql-remote"}

Levels == {"read-uncommitted", "read-committed", "repeatable-read", "serializable"}

Unset == "unset"
TransactionOption == [isolation : Levels \union {Unset}, access : {Unset, "read-only", "read-write"}]
Plain == [isolation |-> Unset, access |-> Unset]

(* capabilities of the environments                                        *)
Capable(driver, options) ==
    /\ options.isolation # Unset =>
         \/ driver \in PgDrivers \union MysqlDrivers
         \/ driver \in SqliteDrivers \union {"bun-sqlite"} /\ options.isolation = "serializable"
    /\ options.access # Unset => driver \in PgDrivers \union {"mysql2", "mariadb"}

(* validateOracleTransactionOptions, validateTediousTransactionOptions,     *)
(* transactionModeFor                                                      *)
Validates(driver, options) ==
    CASE driver = "oracle" ->
           /\ options.isolation \in {Unset, "read-committed", "serializable"}
           /\ options.isolation = Unset \/ options.access = Unset
      [] driver = "mssql" -> options.access = Unset
      [] driver \in {"libsql-file", "libsql-remote"} ->
           /\ options.isolation = Unset
           /\ options.access = "read-only" => driver = "libsql-remote"

(* validateTransactionOptionSupport: the driver's own check, if it has one. *)
Supported(driver, options) ==
    IF driver \in {"oracle", "mssql", "libsql-file", "libsql-remote"} THEN Validates(driver, options)
    ELSE Capable(driver, options)

(* What begin of the driver itself refuses.                                *)
BeginAccepts(driver, options) ==
    CASE driver \in {"oracle", "mssql", "libsql-file", "libsql-remote"} -> Validates(driver, options)
      [] driver \in SqliteDrivers \union {"bun-sqlite"} ->
           options.isolation \in {Unset, "serializable"} /\ options.access # "read-only"
      [] driver = "bun-mysql" -> options.access = Unset
      [] OTHER -> TRUE

Set(options) == [verb |-> "set", options |-> options]
Start(options) == [verb |-> "start", options |-> options]

(* What begin sends.  Oracle begins with the statement that follows.        *)
BeginStatements(driver, options) ==
    CASE driver \in PgDrivers \union {"libsql-file", "libsql-remote", "mssql"} -> <<Start(options)>>
      [] driver \in SqliteDrivers \union {"bun-sqlite"} -> <<Start(Plain)>>
      [] driver \in {"mysql2", "bun-mysql"} ->
           (IF options.isolation = Unset THEN <<>> ELSE <<Set([options EXCEPT !.access = Unset])>>)
               \o <<Start([options EXCEPT !.isolation = Unset])>>
      [] driver = "mariadb" -> (IF options = Plain THEN <<>> ELSE <<Set(options)>>) \o <<Start(Plain)>>
      [] driver = "oracle" -> IF options = Plain THEN <<>> ELSE <<Start(options)>>
-----------------------------------------------------------------------------
(* What the database makes of a statement (external).  SQL Server keeps a    *)
(* level it was given; MySQL and MariaDB keep what was set for the next     *)
(* transaction until there is one, if only of a single statement; SQLite is *)
(* serializable anyway.                                                    *)
Or(option, otherwise) == IF option = Unset THEN otherwise ELSE option

OrBoth(options, others) ==
    [isolation |-> Or(options.isolation, others.isolation), access |-> Or(options.access, others.access)]

Began(c, options) == OrBoth(options, OrBoth(c.next, c.level))

Applied(c, statement) ==
    LET options == statement.options
        level == IF subject.driver = "mssql" THEN OrBoth(options, c.level) ELSE c.level
    IN  IF statement.verb = "set" THEN [c EXCEPT !.next = OrBoth(options, c.next)]
        ELSE [level |-> level, next |-> Plain, running |-> Began(c, options)]

Fresh == [level |-> Plain, next |-> Plain, running |-> Plain]

Init ==
    /\ subject \in [driver : OptionDrivers, pooled : BOOLEAN]
    /\ phase = "idle" /\ asked = Plain /\ statements = <<>> /\ connection = Fresh /\ lone = Plain
    /\ lateRefusal = FALSE /\ transactions = 0 /\ failures = 0

Quiet ==
    /\ subject = [driver |-> "none", pooled |-> FALSE]
    /\ phase = "lost" /\ asked = Plain /\ statements = <<>> /\ connection = Fresh /\ lone = Plain
    /\ lateRefusal = FALSE /\ transactions = 0 /\ failures = 0

(* tx: options that are not supported are refused before a connection is    *)
(* asked for.                                                              *)
Tx(options) ==
    /\ phase = "idle" /\ transactions < MaxTransactions
    /\ Supported(subject.driver, options)
    /\ asked' = options
    /\ transactions' = transactions + 1
    /\ phase' = "beginning"
    /\ IF BeginAccepts(subject.driver, options)
       THEN statements' = BeginStatements(subject.driver, options) /\ UNCHANGED lateRefusal
       ELSE statements' = <<>> /\ lateRefusal' = TRUE
    /\ UNCHANGED <<subject, connection, lone, failures>>

Send ==
    /\ phase = "beginning" /\ statements # <<>>
    /\ connection' = Applied(connection, Head(statements))
    /\ statements' = Tail(statements)
    /\ UNCHANGED <<subject, phase, asked, lone, lateRefusal, transactions, failures>>

Opened ==
    /\ phase = "beginning" /\ statements = <<>> /\ ~lateRefusal
    /\ phase' = "open"
    /\ connection' = IF subject.driver = "oracle" /\ asked = Plain
                     THEN [connection EXCEPT !.running = Began(connection, Plain)] ELSE connection
    /\ UNCHANGED <<subject, asked, statements, lone, lateRefusal, transactions, failures>>

(* Mutant of GivenUp: the connection goes on when it has no transaction. *)
KeptWhenIdle ==
    /\ statements' = <<>> /\ phase' = "idle"
    /\ connection' = [connection EXCEPT !.running = Plain]

(* A connection that failed to begin or to end is poisoned: a pooled one is *)
(* discarded, another is no longer used.                                   *)
GivenUp ==
    /\ statements' = <<>>
    /\ phase' = IF subject.pooled THEN "idle" ELSE "lost"
    /\ connection' = Fresh

(* A statement of begin, a commit or a rollback fails.                      *)
Fails ==
    /\ phase \in {"beginning", "open"} /\ failures < MaxFailures
    /\ phase = "beginning" => statements # <<>>
    /\ failures' = failures + 1
    /\ GivenUp
    /\ UNCHANGED <<subject, asked, lone, lateRefusal, transactions>>

(* commit, or rollback *)
End ==
    /\ phase = "open"
    /\ phase' = "idle"
    /\ connection' = [connection EXCEPT !.running = Plain]
    /\ UNCHANGED <<subject, asked, statements, lone, lateRefusal, transactions, failures>>

(* A statement outside a transaction is one of its own.                     *)
Statement ==
    /\ phase = "idle"
    /\ lone' = Began(connection, Plain)
    /\ connection' = [connection EXCEPT !.next = Plain]
    /\ UNCHANGED <<subject, phase, asked, statements, lateRefusal, transactions, failures>>

Next ==
    \/ \E options \in TransactionOption : Tx(options)
    \/ Send \/ Opened \/ Fails \/ End \/ Statement
-----------------------------------------------------------------------------
(* A transaction runs under the options it was given, whatever transactions  *)
(* were begun, failed and ended on the connection before it; under the       *)
(* session's own where it was given none; and so do the statements outside   *)
(* of transactions.  (SQL Server keeps the last level that was asked for.)   *)
(* Options that a driver cannot honor never reach its begin.                *)
RunsAsAsked ==
    /\ ~lateRefusal
    /\ phase = "open" =>
         /\ connection.running.access = asked.access
         /\ connection.running.isolation = asked.isolation
              \/ (asked.isolation = Unset /\ subject.driver = "mssql")
              \/ (asked.isolation = "serializable" /\ subject.driver \in SqliteDrivers \union {"bun-sqlite"})
    /\ lone = Plain \/ (subject.driver = "mssql" /\ lone.access = Unset)
=============================================================================
