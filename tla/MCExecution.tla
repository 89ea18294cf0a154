---------------------------- MODULE MCExecution ----------------------------
(* What lies beneath the runtime and what looks on from above: a behaviour  *)
(* is of one executor, of one operation with its observers, of one value on *)
(* its way through a driver, of one description that observers ask for its  *)
(* text, or of one connection that transactions with options run on.        *)
EXTENDS Drivers, TLC

CONSTANTS Lineups, MaxItems, MaxRead, MaxAsks, MaxTransactions, MaxFailures

(* At most one observer of a lineup is that of OpenTelemetry: a span is of   *)
(* an operation, not of an observer (Operations).                          *)
ASSUME LineupConstants ==
    \A lineup \in Lineups :
        /\ lineup \in Seq({"user", "otel"})
        /\ \A m, n \in DOMAIN lineup : lineup[m] = "otel" /\ lineup[n] = "otel" => m = n

VARIABLES
    request, observers, step, item, raw, told, due, hold, failing, rows,
    heard, refused, spans, outcome

operation ==
    <<request, observers, step, item, raw, told, due, hold, failing, rows, heard, refused, spans, outcome>>

Op == INSTANCE Operations

VARIABLES call, stage, carried, brought, given

transfer == <<call, stage, carried, brought, given>>

Tr == INSTANCE Transfer

VARIABLES described, cache, default, answer, asks

literals == <<described, cache, default, answer, asks>>

Li == INSTANCE Literals

VARIABLES
    target, phase, asked, statements, connection, lone, lateRefusal, transactions, failures

options ==
    <<target, phase, asked, statements, connection, lone, lateRefusal, transactions, failures>>

To == INSTANCE TransactionOptions WITH subject <- target

NoDriver == InitDriver("none", <<>>)

ExecutionInit ==
    \/ Init /\ Op!Quiet /\ Tr!Quiet /\ Li!Quiet /\ To!Quiet
    \/ NoDriver /\ Op!Init /\ Tr!Quiet /\ Li!Quiet /\ To!Quiet
    \/ NoDriver /\ Op!Quiet /\ Tr!Init /\ Li!Quiet /\ To!Quiet
    \/ NoDriver /\ Op!Quiet /\ Tr!Quiet /\ Li!Init /\ To!Quiet
    \/ NoDriver /\ Op!Quiet /\ Tr!Quiet /\ Li!Quiet /\ To!Init

ExecutionNext ==
    \/ Next /\ UNCHANGED <<operation, transfer, literals, options>>
    \/ Op!Next /\ UNCHANGED <<vars, transfer, literals, options>>
    \/ Tr!Next /\ UNCHANGED <<vars, operation, literals, options>>
    \/ Li!Next /\ UNCHANGED <<vars, operation, transfer, options>>
    \/ To!Next /\ UNCHANGED <<vars, operation, transfer, literals>>

Execution ==
    /\ ExecutionInit
    /\ [][ExecutionNext]_<<vars, operation, transfer, literals, options>>
    /\ WF_vars(Progress)

(* What observers and callers may rely on (Operations).                    *)
Accounted == Op!Accounted

(* What they are promised beyond that (Operations).                        *)
OneTerminal == Op!OneTerminal
SpansEnd == Op!SpansEnd

(* What is sent is what was given, and what is read is what was promised    *)
(* (Transfer).                                                             *)
SentAsGiven == Tr!SentAsGiven
ReadAsPromised == Tr!ReadAsPromised

(* The text shown for a statement hides what it must (Literals).            *)
LiteralAsAsked == Li!LiteralAsAsked

(* A transaction runs under its own options only (TransactionOptions).      *)
RunsAsAsked == To!RunsAsAsked

(* Three calls: begin, a statement that fails, commit. *)
Bounds ==
    [tedious |-> 2, oracledb |-> 4, mysql2 |-> 2, mariadb |-> 2, pg |-> 3, libsql |-> 3, pglite |-> 3, d1 |-> 2] @@
    [kind \in {"postgres-js", "neon-http", "bun-postgres", "bun-mysql",
               "better-sqlite3", "node-sqlite", "sqlite-wasm"} |-> 3]

MCLineups == {<<"user", "otel">>, <<"user", "user", "otel">>, <<"otel", "user">>}
=============================================================================
