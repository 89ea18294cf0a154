------------------------------ MODULE PgValues ------------------------------
(***************************************************************************)
(* PostgreSQL through node-postgres (and Neon's pool), postgres.js, PGlite *)
(* and Neon over HTTP.  Values go out as text, a hint as the OID of the    *)
(* parameter where the protocol of the library has a place for it.  What   *)
(* comes back is text until a parser takes it: the adapters replace the    *)
(* parsers of every type the profile keeps exact.                          *)
(***************************************************************************)
EXTENDS Values

PgDrivers == {"pg", "postgres-js", "pglite", "neon-http"}

Integers == {"int4", "int8"}
Exact == Integers \union {"numeric"}
Times == {"timestamp", "time"}
PgTypes == Exact \union Times \union {"money", "float8", "text", "json", "bytea", "int4[]"}

Profiles == [json : {"text", "native"}, temporal : {"text", "native"}]
Lossless == [json |-> "text", temporal |-> "text"]

(* Only node-postgres has profiles other than the lossless one.             *)
ProfilesOf(driver) == IF driver = "pg" THEN Profiles ELSE {Lossless}

(* Types the table of parameter-types.ts has an OID for, each under one of   *)
(* its names.                                                              *)
Typed ==
    Exact \union {"bool", "int2", "float4", "float8", "text", "varchar", "uuid", "bytea"}
          \union {"date", "time", "timestamptz", "interval"}

(* The adapters a hint reaches: pgTypedStatementBinding.                    *)
SendsOids(driver) == driver \in {"postgres-js", "pglite"}

isRefcursor(parameter) == parameter.direction # "in" /\ parameter.hint.type = "refcursor"

(* assertParameterHints: the protocol has room for an OID and no facet.     *)
HintFits(driver, kind, parameter) ==
    LET hint == parameter.hint
    IN  \/ hint = NoHint
        \/ kind = "call" /\ isRefcursor(parameter)
        \/ SendsOids(driver) /\ hint.type \in Typed /\ hint.facets = {}

oid(driver, parameter) ==
    IF SendsOids(driver) /\ ~isRefcursor(parameter) THEN parameter.hint.type ELSE "none"

(* describe: outputs in calls only, no INOUT, a cursor in a transaction.    *)
Describe(driver, kind, scoped, parameters) ==
    LET fits(parameter) ==
            /\ isRefcursor(parameter) => scoped
            /\ parameter.direction # "in" => kind = "call"
            /\ parameter.direction # "inout"
            /\ HintFits(driver, kind, parameter)
    IN  [i \in DOMAIN parameters |->
            IF fits(parameters[i])
            THEN [type |-> oid(driver, parameters[i]), value |-> parameters[i].value]
            ELSE [type |-> "refused", value |-> Refused]]

(* describeBulk *)
DescribeBulk(driver, parameters, rows) ==
    [r \in DOMAIN rows |->
        [i \in DOMAIN parameters |->
            IF parameters[i].direction = "in" /\ HintFits(driver, "command", parameters[i])
            THEN [type |-> oid(driver, parameters[i]), value |-> rows[r][i]]
            ELSE [type |-> "refused", value |-> Refused]]]
-----------------------------------------------------------------------------
(* The parsers under a profile (queryTypeOverrides, the options of          *)
(* postgres.js and of PGlite): those of the types that stay text, and the   *)
(* library's own for the others.                                           *)
StaysText(profile, type) ==
    \/ type \in Exact \union {"money"}
    \/ type = "json" /\ profile.json = "text"
    \/ type \in Times /\ profile.temporal = "text"
    \/ type = "int4[]" /\ profile = Lossless

(* The library's own parsers (external): a Date has milliseconds only.      *)
Parsed(type, v) ==
    CASE type \in Exact \union {"float8"} -> Narrowed(v)
      [] type = "json" -> As(v, "object")
      [] type = "timestamp" -> As(v, "date")
      [] type = "int4[]" -> As(v, "array")
      [] type = "bytea" -> As(v, "buffer")
      [] OTHER -> Spelled(v)

RawCell(driver, profile, keepsText, type, v) ==
    IF IsAbsent(v) THEN Null
    ELSE IF StaysText(profile, type) /\ (driver = "postgres-js" => keepsText) THEN Spelled(v)
    ELSE Parsed(type, v)

(* assertPostgresJsLossless: a client whose parsers differ is not taken.    *)
ClientAccepted(driver, keepsText) == driver = "postgres-js" => keepsText

(* makeCellResolver: the decoders of a profile.                             *)
decodeCell(profile, type, v) ==
    OrNull(v,
        CASE type \in Integers -> normalizeExactInteger(v)
          [] type = "numeric" -> decodeExactDecimal(v, FALSE)
          [] type = "money" -> Refused
          [] type = "json" -> IF profile.json = "text" THEN TextOnly(v) ELSE v
          [] type = "int4[]" -> IF profile = Lossless THEN TextOnly(v) ELSE v
          [] type = "time" -> IF profile.temporal = "text" THEN TextOnly(v) ELSE v
          [] type = "timestamp" ->
               IF v.carrier = (IF profile.temporal = "text" THEN "string" ELSE "date") THEN v ELSE Refused
          [] OTHER -> v)

(* A cell of a row (preparePgRowProjector), and an output of a call.        *)
Read(profile, type, v) == decodeCell(profile, type, v)

(* The outputs of a call: the columns of its one row, in the order of the   *)
(* output parameters, under their names (outputRow).                        *)
Outputs(parameters, types, row) ==
    LET outs == SelectSeq(parameters, LAMBDA parameter : parameter.direction # "in")
    IN  [name \in {outs[i].output : i \in DOMAIN outs} |->
            LET i == CHOOSE j \in DOMAIN outs : outs[j].output = name
            IN  Read(Lossless, types[i], row[i])]

(* mappings of the policy (makeMappings).                                   *)
Representation(profile, type) ==
    CASE type \in Exact \union {"text", "time"} -> "string"
      [] type = "float8" -> "number"
      [] type = "json" -> IF profile.json = "text" THEN "string" ELSE "any"
      [] type = "timestamp" -> IF profile.temporal = "text" THEN "string" ELSE "date"
      [] type = "int4[]" -> IF profile = Lossless THEN "string" ELSE "any"
      [] OTHER -> "any"

(* pgEnvironmentFor: what the driver promises of the columns of a type.     *)
Promise(profile, type) ==
    CASE type \in Exact -> "guaranteed"
      [] type = "float8" -> "guarded"
      [] type = "json" -> IF profile.json = "text" THEN "guaranteed" ELSE "guarded"
      [] type \in Times -> IF profile.temporal = "text" THEN "guaranteed" ELSE "guarded"
      [] OTHER -> "none"
=============================================================================
