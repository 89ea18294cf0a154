------------------------------ MODULE Transfer ------------------------------
(***************************************************************************)
(* The way of values through the drivers.  A write: describe settles what   *)
(* each parameter is sent as, or refuses the call before it has a lease;   *)
(* then the library sends it.  A read: the library makes a JavaScript value *)
(* of what the database holds, and the driver makes what the program gets. *)
(* A routine is both.  Each call is a behavior of two steps.               *)
(***************************************************************************)
EXTENDS Values, TLC

MS == INSTANCE MssqlValues
OR == INSTANCE OracleValues
MY == INSTANCE MysqlValues
SL == INSTANCE SqliteValues
PG == INSTANCE PgValues
BN == INSTANCE BunValues

VARIABLES
    call,       \* what was asked: [way, driver, ...]
    stage,      \* "asked", "described", "answered", "refused" or "done"
    carried,    \* what goes to the library: of each row, a type and a value for each parameter
    brought,    \* what the library brings from the database
    given       \* what arrives on the other side

vars == <<call, stage, carried, brought, given>>

MysqlDrivers == {"mysql2", "mariadb"}
Drivers == {"mssql", "oracle", "bun"} \union MysqlDrivers \union SL!SqliteDrivers \union PG!PgDrivers

(* What programs bind. *)
Bindable ==
    {Null, Undefined, Value("boolean", "bit"), Value("array", "bytes"), Value("object", "json")}
        \union [carrier : {"string"}, size : {"bit", "small", "unsafe", "huge", "decimal", "long", "text"}, exact : {TRUE}]
        \union [carrier : {"number"}, size : Integral \union {"decimal", "long", "nan"}, exact : {TRUE}]
        \union [carrier : {"bigint"}, size : Integral, exact : {TRUE}]
        \union [carrier : {"date"}, size : {"time", "invalid"}, exact : {TRUE}]
        \union [carrier : {"bytes", "buffer", "view", "arraybuffer"}, size : {"bytes"}, exact : {TRUE}]
        \union [carrier : {"array", "object", "function"}, size : {"other"}, exact : {TRUE}]

(* Those a bulk is tried with. *)
InBulk ==
    {Null, Value("boolean", "bit"), Value("string", "text"), Value("number", "small"), Value("number", "wide"),
     Value("number", "long"), Value("bigint", "huge"), Value("date", "invalid"), Value("bytes", "bytes"),
     Value("array", "other")}

(* Hints with what they need, and hints that ask for too much. *)
HintsOf(driver) ==
    {NoHint, Hint("uuid", {})} \union
    CASE driver = "mssql" ->
           {Hint(type, MS!MustGive(type)) : type \in MS!MssqlTypes}
               \union {Hint("decimal", {}), Narrow(Hint("decimal", {"precision", "scale"})),
                       Unsound(Hint("varchar", {"length"})), Hint("CURSOR", {})}
      [] driver = "oracle" ->
           {Hint(type, {}) : type \in OR!OracleTypes \union {"CURSOR"}}
               \union {Hint("VARCHAR2", {"length"}), Hint("NUMBER", {"precision", "scale"})}
      [] driver \in PG!PgDrivers ->
           {Hint(type, {}) : type \in PG!Typed \union {"refcursor", "json"}}
               \union {Hint("numeric", {"precision", "scale"})}
      [] OTHER -> {}

BulkHints(driver) ==
    {NoHint} \union
    CASE driver = "mssql" -> {Hint("int", {}), Hint("decimal", {"precision", "scale"})}
      [] driver = "oracle" -> {Hint("NUMBER", {}), Hint("VARCHAR2", {"length"})}
      [] driver \in PG!PgDrivers -> {Hint("int8", {}), Hint("text", {})}
      [] OTHER -> {}

Describe(c) ==
    CASE c.driver = "mssql" -> MS!Describe(c.kind, c.parameters)
      [] c.driver = "oracle" -> OR!Describe(c.kind, c.parameters)
      [] c.driver \in MysqlDrivers -> MY!Describe(c.driver, c.streamed, c.parameters)
      [] c.driver \in SL!SqliteDrivers -> SL!Describe(c.driver, c.kind, c.parameters)
      [] c.driver \in PG!PgDrivers -> PG!Describe(c.driver, c.kind, c.scoped, c.parameters)
      [] c.driver = "bun" -> BN!Describe(c.kind, c.parameters)

DescribeBulk(c) ==
    CASE c.driver = "mssql" -> MS!DescribeBulk(c.parameters, c.rows)
      [] c.driver = "oracle" -> OR!DescribeBulk(c.parameters, c.rows)
      [] c.driver \in MysqlDrivers -> MY!DescribeBulk(c.driver, c.parameters, c.rows)
      [] c.driver \in SL!SqliteDrivers -> SL!DescribeBulk(c.driver, c.parameters, c.rows)
      [] c.driver \in PG!PgDrivers -> PG!DescribeBulk(c.driver, c.parameters, c.rows)
      [] c.driver = "bun" -> BN!DescribeBulk(c.parameters, c.rows)

(* What the library sends of a bound value, or stores (external). *)
Sent(c, v) ==
    CASE v = Undefined -> v
      [] v # Undefined /\ c.driver \in MysqlDrivers -> MY!Sent(c.driver, c.streamed, v)
      [] v # Undefined /\ c.driver \in SL!SqliteDrivers -> SL!Stored(c.driver, v)
      [] v # Undefined /\ c.driver = "bun" -> BN!Sent(v)
      [] OTHER -> v

(* What the library makes of a stored value (external), and the driver of   *)
(* that; what the driver promised of it, and as what.                      *)
RawCell(c, v) ==
    CASE c.driver = "mssql" -> MS!TediousRaw(c.type, v)
      [] c.driver = "oracle" -> OR!OracleRaw(c.type, OR!FetchedAsText(c.type), v)
      [] c.driver \in MysqlDrivers -> MY!RawCell(c.driver, c.options, c.type, v)
      [] c.driver \in SL!SqliteDrivers -> SL!RawCell(c.driver, v)
      [] c.driver \in PG!PgDrivers -> PG!RawCell(c.driver, c.profile, c.keepsText, c.type, v)
      [] c.driver = "bun" -> BN!RawCell(c.dialect, c.type, v)

Read(c, v) ==
    CASE c.driver = "mssql" -> MS!Read(MS!Metadata(c.type), v)
      [] c.driver = "oracle" -> OR!Read(c.type, v)
      [] c.driver \in MysqlDrivers -> MY!Read(c.driver, c.options, c.type, v)
      [] c.driver \in SL!SqliteDrivers -> SL!Read(c.driver, c.able, v)
      [] c.driver \in PG!PgDrivers -> PG!Read(c.profile, c.type, v)
      [] c.driver = "bun" -> BN!Read(c.dialect, v)

Promise(c) ==
    CASE c.driver = "mssql" -> MS!Promise(c.type)
      [] c.driver = "oracle" -> OR!Promise(c.type)
      [] c.driver \in MysqlDrivers -> MY!Promise(c.driver, c.options, c.type)
      [] c.driver \in SL!SqliteDrivers -> 
           IF SL!AsksForExact(c.driver, c.able) THEN SL!Promise(c.driver, c.type) ELSE "unsupported"
      [] c.driver \in PG!PgDrivers -> PG!Promise(c.profile, c.type)
      [] c.driver = "bun" -> BN!Promise(c.dialect, c.type)

Representation(c) ==
    CASE c.driver = "mssql" -> MS!Representation(c.type)
      [] c.driver = "oracle" -> OR!Representation(c.type)
      [] c.driver \in MysqlDrivers -> MY!Representation(MY!Profile(c.driver, c.options), c.type)
      [] c.driver \in SL!SqliteDrivers -> SL!Representation(c.type)
      [] c.driver \in PG!PgDrivers -> PG!Representation(c.profile, c.type)
      [] c.driver = "bun" -> BN!Representation(c.dialect, c.type)
-----------------------------------------------------------------------------
(* What a column of a type holds, by its size; NULL besides. *)
SizesOf(type) ==
    CASE type \in {"tinyint", "smallint", "int", "INT", "int4"} -> {"bit", "small"}
      [] type \in {"bigint", "BIGINT", "int8"} -> Int64
      [] type = "INTEGER" -> Int64
      [] type \in {"decimal", "numeric", "money", "smallmoney", "NUMBER", "DECIMAL"} -> Integral \union {"decimal", "long"}
      [] type \in {"real", "float", "BINARY_DOUBLE", "DOUBLE", "float8", "REAL"} -> Safe \union {"decimal"}
      [] OTHER -> {"other"}

(* A value in the database: exact, and of no carrier yet. *)
Held(type) ==
    {Null} \union
    {Value(CASE type = "INTEGER" -> "integer" [] type = "REAL" -> "real" [] type = "BLOB" -> "blob" [] OTHER -> "string",
           size) : size \in SizesOf(type)}

NoCall == [way |-> "none"]

Asked(c) == call = c /\ stage = "asked" /\ carried = <<>> /\ brought = <<>> /\ given = <<>>

Quiet == call = NoCall /\ stage = "done" /\ carried = <<>> /\ brought = <<>> /\ given = <<>>

(* One parameter. *)
Writes ==
    \E driver \in Drivers, kind \in {"rows", "call"}, direction \in {"in", "out", "inout"},
       scoped \in BOOLEAN, streamed \in BOOLEAN :
        /\ streamed => driver = "mariadb" /\ direction = "in" /\ kind = "rows"
        /\ scoped => driver \in PG!PgDrivers
        /\ \E hint \in HintsOf(driver), v \in IF direction = "out" THEN {Undefined} ELSE Bindable :
             Asked([way |-> "write", driver |-> driver, kind |-> kind, scoped |-> scoped, streamed |-> streamed,
                    parameters |-> <<Parameter(v, hint, direction, IF direction = "in" THEN "none" ELSE "a")>>,
                    rows |-> <<>>])

(* One parameter, two rows. *)
Bulks ==
    \E driver \in Drivers : \E hint \in BulkHints(driver), u, v \in InBulk :
        Asked([way |-> "bulk", driver |-> driver, kind |-> "command", scoped |-> FALSE, streamed |-> FALSE,
               parameters |-> <<In(u, hint)>>, rows |-> << <<u>>, <<v>> >>])

Reads ==
    LET read(driver, type, more, v) ==
            Asked([way |-> "read", driver |-> driver, type |-> type, held |-> v] @@ more)
    IN  \/ \E type \in MS!MssqlTypes : \E v \in Held(type) : read("mssql", type, <<>>, v)
        \/ \E type \in OR!OracleTypes : \E v \in Held(type) : read("oracle", type, <<>>, v)
        \/ \E driver \in MysqlDrivers, type \in MY!MysqlTypes, options \in MY!Options :
             \E v \in Held(type) : read(driver, type, [options |-> options], v)
        \/ \E driver \in SL!SqliteDrivers, type \in SL!SqliteTypes, able \in BOOLEAN :
             \E v \in Held(type) : read(driver, type, [able |-> able], v)
        \/ \E driver \in PG!PgDrivers, type \in PG!PgTypes, keepsText \in BOOLEAN :
             /\ PG!ClientAccepted(driver, keepsText)
             /\ \E profile \in PG!ProfilesOf(driver), v \in Held(type) :
                  read(driver, type, [profile |-> profile, keepsText |-> keepsText], v)
        \/ \E dialect \in BN!BunDialects, type \in BN!BunTypes :
             \E v \in Held(type) : read("bun", type, [dialect |-> dialect], v)

(* A routine, or a statement that returns, gives a value for each parameter  *)
(* that comes out; short: a column of them has a row less than it should.   *)
Numbered == <<"small", "wide", "unsafe">>
Routines ==
    \E driver \in {"oracle"} \union PG!PgDrivers, kind \in {"call", "rows"}, short \in BOOLEAN,
       directions \in UNION {[1..n -> {"in", "out", "inout"}] : n \in 1..3} :
        /\ kind = "rows" => driver = "oracle" /\ \E i \in DOMAIN directions : directions[i] = "out"
        /\ driver # "oracle" \/ kind = "rows" => \A i \in DOMAIN directions : directions[i] # "inout"
        /\ short => kind = "rows"
        /\ Asked([way |-> "routine", driver |-> driver, kind |-> kind, scoped |-> FALSE, streamed |-> FALSE,
                  short |-> short, rows |-> <<>>,
                  parameters |-> [i \in DOMAIN directions |->
                      Parameter(IF directions[i] = "out" THEN Undefined ELSE Value("number", "small"),
                                IF driver = "oracle" /\ directions[i] # "in" THEN Hint("NUMBER", {}) ELSE NoHint,
                                directions[i], IF directions[i] = "in" THEN "none" ELSE <<"a", "b", "c">>[i])]])

Init == Writes \/ Bulks \/ Reads \/ Routines
-----------------------------------------------------------------------------
Rendered(c) ==
    IF c.way = "bulk" THEN RendersBulk(c.kind, c.parameters, c.rows)
    ELSE RendersStatement(c.kind, c.parameters)

(* Nothing of a call goes out when a part of it is refused. *)
DescribeCall ==
    /\ stage = "asked" /\ call.way \in {"write", "bulk", "routine"}
    /\ LET bound == IF call.way = "bulk" THEN DescribeBulk(call) ELSE <<Describe(call)>>
           sound == \A r \in DOMAIN bound : \A i \in DOMAIN bound[r] : bound[r][i].type # "refused"
       IN  IF Rendered(call) /\ sound THEN stage' = "described" /\ carried' = bound
           ELSE stage' = "refused" /\ carried' = <<>>
    /\ UNCHANGED <<call, brought, given>>

Send ==
    /\ stage = "described" /\ call.way \in {"write", "bulk"}
    /\ given' = [r \in DOMAIN carried |->
                   [i \in DOMAIN carried[r] |->
                       [carried[r][i] EXCEPT !.value = Sent(call, @)]]]
    /\ stage' = IF \E r \in DOMAIN given' : \E i \in DOMAIN given'[r] : given'[r][i].value = Refused
                THEN "refused" ELSE "done"
    /\ UNCHANGED <<call, carried, brought>>

OutParameters(parameters) ==
    SelectSeq([i \in DOMAIN parameters |-> i], LAMBDA i : parameters[i].direction # "in")

(* What a routine gives: a value for each OUT parameter, in their order; a   *)
(* statement that returns, a column of two rows (external).                *)
RoutineGives ==
    LET outs == OutParameters(call.parameters)
        value(k) ==
            IF call.driver = "oracle"
            THEN OR!OracleRaw("NUMBER", carried[1][outs[k]].type = "VARCHAR2", Value("string", Numbered[outs[k]]))
            ELSE Value("string", Numbered[outs[k]])
        column(k) == IF call.short /\ k = Len(outs) THEN <<value(k)>> ELSE <<value(k), value(k)>>
    IN  [k \in DOMAIN outs |-> IF call.kind = "rows" THEN column(k) ELSE value(k)]

Answer ==
    /\ \/ stage = "asked" /\ call.way = "read" /\ brought' = RawCell(call, call.held)
       \/ stage = "described" /\ call.way = "routine" /\ brought' = RoutineGives
    /\ stage' = "answered"
    /\ UNCHANGED <<call, carried, given>>

Shown ==
    CASE call.way = "read" -> <<Read(call, brought)>>
      [] call.way = "routine" /\ call.driver # "oracle" ->
           <<PG!Outputs(call.parameters, [k \in DOMAIN brought |-> "int8"], brought)>>
      [] call.way = "routine" /\ call.driver = "oracle" /\ call.kind = "call" ->
           <<OR!Outputs(call.parameters, brought)>>
      [] call.way = "routine" /\ call.driver = "oracle" /\ call.kind = "rows" ->
           OR!Returning(call.parameters, brought, 2)

Show ==
    /\ stage = "answered"
    /\ given' = Shown
    /\ LET refused ==
               IF call.way = "read" THEN given'[1] = Refused
               ELSE given' = <<>> \/ \E r \in DOMAIN given' : \E i \in DOMAIN given'[r] : given'[r][i] = Refused
       IN  stage' = IF refused THEN "refused" ELSE "done"
    /\ UNCHANGED <<call, carried, brought>>

Next == DescribeCall \/ Send \/ Answer \/ Show
-----------------------------------------------------------------------------
(* Values that the library converts to a type which does not hold them, or   *)
(* which it stores as NULL: the driver leaves them to it.                   *)
LeftToTheLibrary(hint, v) ==
    \/ call.driver = "mssql" /\ hint.type \in MS!Floats \union {"bit"}
    \/ call.driver = "mssql" /\ hint.type \in MS!Ints /\ v.size \in {"decimal", "long"}
    \/ call.driver \in {"better-sqlite3", "node-sqlite"} /\ v.size = "nan"
    \/ call.driver = "libsql" /\ v.size = "invalid"

(* What goes to the database is what the program gave: the same value,       *)
(* NULL exactly where it gave null, under the type of its hint if it gave   *)
(* one - an exact number that comes out of Oracle travels as text, a cursor *)
(* has no type - and under one type in all rows of a bulk.  What could not   *)
(* go out so was refused.                                                  *)
SentAsGiven ==
    stage = "done" /\ call.way \in {"write", "bulk"} =>
        \A r \in DOMAIN given : \A i \in DOMAIN call.parameters :
            LET parameter == call.parameters[i]
                v == IF call.way = "bulk" THEN call.rows[r][i] ELSE parameter.value
                sent == given[r][i]
                asText ==
                    call.driver = "oracle" /\ parameter.direction # "in" /\ parameter.hint.type \in OR!Exact
            IN  /\ LeftToTheLibrary(parameter.hint, v)
                     \/ (sent.value.exact /\ (v = Null <=> sent.value.carrier = "null"))
                /\ parameter.hint.type = "refcursor" \/ parameter.hint = NoHint
                     \/ sent.type = IF asText THEN "VARCHAR2" ELSE parameter.hint.type
                /\ sent.type = given[1][i].type

(* A column is what the driver promises of its type: guaranteed values are   *)
(* handed over as they are and in the form the package documents, guarded   *)
(* ones are that or refused, unsupported ones are refused, and NULL is      *)
(* NULL.  (Bun knows no column types: a fraction of a decimal that SQLite    *)
(* computes in floating point is handed over.  D1 has one kind of number: a *)
(* REAL without a fraction comes as the text of an integer.)                *)
ColumnAsPromised ==
    stage \in {"done", "refused"} /\ call.way = "read" =>
        LET promise == Promise(call)
            refused == stage = "refused"
            form == Representation(call)
            faithful ==
                /\ given[1].exact
                /\ \/ given[1].carrier = form \/ form = "any"
                   \/ call.driver = "cloudflare-d1" /\ call.type = "REAL"
        IN  IF call.held = Null THEN refused \/ given[1] = Null
            ELSE CASE promise = "guaranteed" -> ~refused /\ faithful
                   [] promise = "guarded" -> refused \/ faithful
                   [] promise = "unsupported" -> refused \/ call.driver = "bun"
                   [] promise = "none" -> TRUE

(* The output of a parameter is what the routine gave to that parameter,     *)
(* whatever other parameters there are and in which directions, as an exact *)
(* text; the rows of a statement that returns have an output of each; and   *)
(* outputs that do not line up are refused, the others never.              *)
OutputsByName ==
    stage \in {"done", "refused"} /\ call.way = "routine" =>
        /\ stage = "refused" <=> call.short
        /\ stage = "done" =>
             \A r \in DOMAIN given : \A i \in DOMAIN call.parameters :
                 call.parameters[i].direction # "in" =>
                     LET output == given[r][IF call.driver = "oracle" THEN i ELSE call.parameters[i].output]
                     IN  output = Value("string", Numbered[i])

(* What comes back is what was promised of it, and whose it is.             *)
ReadAsPromised == ColumnAsPromised /\ OutputsByName
=============================================================================
