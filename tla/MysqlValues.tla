---------------------------- MODULE MysqlValues ----------------------------
(***************************************************************************)
(* MySQL through mysql2 and MariaDB through its connector.  Values go to    *)
(* the library as they are; what comes back depends on options of a pool   *)
(* that is not SQLBraid's, so every cell is checked against the profile,   *)
(* and the environment promises only what those options keep.              *)
(***************************************************************************)
EXTENDS Values

Integers == {"INT", "BIGINT"}
Floats == {"DOUBLE"}
Times == {"DATETIME"}
MysqlTypes == Integers \union Floats \union Times \union {"DECIMAL", "JSON", "TIME", "VARCHAR", "BLOB"}

(* The pool's options: big and strings are supportBigNumbers and            *)
(* bigNumberStrings, or their opposite bigIntAsNumber; decimals is          *)
(* decimalNumbers or decimalAsNumber; seen: the driver finds them on the    *)
(* connection, otherwise it knows those it was supplied with.              *)
Options ==
    [big : BOOLEAN, strings : BOOLEAN, decimals : BOOLEAN, json : {"text", "native"},
     temporal : {"text", "native"}, cast : {"default", "custom"}, seen : BOOLEAN,
     supplied : {"text", "native"}]

(* The profile the type policy decodes by (mysql2RepresentationProfile,     *)
(* mariaDbProfile).                                                        *)
Profile(driver, options) ==
    IF driver = "mysql2" /\ options.seen
    THEN [json |-> options.json, temporal |-> options.temporal]
    ELSE [json |-> options.supplied, temporal |-> options.supplied]
-----------------------------------------------------------------------------
(* assertMysql2Value: what has no text, and dates that are none.           *)
IsMysql2Value(v) ==
    /\ v.carrier \notin {"undefined", "function"}
    /\ v.carrier = "date" => v.size # "invalid"
    /\ v.carrier = "object" => v.size = "json"

(* streamValue: a stream binds through the text protocol.                   *)
streamValue(v) ==
    IF v.carrier \in {"null", "string", "boolean", "bigint", "buffer"} \/ IsFinite(v) THEN v
    ELSE IF v.carrier = "date" /\ v.size # "invalid" THEN v
    ELSE IF v.carrier = "bytes" THEN As(v, "buffer")
    ELSE Refused

Unhinted(parameter) == parameter.hint = NoHint /\ parameter.direction = "in"

(* describe of either driver, and what materialize makes of it: hints and   *)
(* outputs are refused, values are not looked at but for a MariaDB stream. *)
Describe(driver, streamed, parameters) ==
    [i \in DOMAIN parameters |->
        LET value ==
                IF driver = "mariadb" /\ streamed THEN streamValue(parameters[i].value)
                ELSE parameters[i].value
        IN  IF Unhinted(parameters[i]) /\ value # Refused THEN [type |-> "none", value |-> value]
            ELSE [type |-> "refused", value |-> Refused]]

(* describeBulk: mysql2 looks at every value; the connector takes them.     *)
DescribeBulk(driver, parameters, rows) ==
    [r \in DOMAIN rows |->
        [i \in DOMAIN parameters |->
            IF Unhinted(parameters[i]) /\ (driver = "mysql2" => IsMysql2Value(rows[r][i]))
            THEN [type |-> "none", value |-> rows[r][i]]
            ELSE [type |-> "refused", value |-> Refused]]]
-----------------------------------------------------------------------------
(* What the text protocol makes of a value (external): an array or an       *)
(* object becomes a list of terms, a number that is none a bare word.      *)
Sent(driver, streamed, v) ==
    IF driver = "mariadb" /\ streamed /\ (v.carrier \in {"array", "object"} \/ v.size = "nan")
    THEN [v EXCEPT !.exact = FALSE]
    ELSE v

(* What the libraries hand over for a column under the pool's options       *)
(* (external).  A cast of the user's own may do anything: here, numbers.   *)
RawCell(driver, options, type, v) ==
    IF IsAbsent(v) THEN Null
    ELSE IF driver = "mysql2" /\ options.cast = "custom" THEN IF v.size \in Digital THEN Narrowed(v) ELSE v
    ELSE CASE type = "INT" -> Narrowed(v)
           [] type = "BIGINT" ->
                IF driver = "mysql2"
                THEN IF options.big /\ (options.strings \/ v.size \notin Safe) THEN Spelled(v) ELSE Narrowed(v)
                ELSE IF options.big THEN As(v, "bigint") ELSE Narrowed(v)
           [] type = "DECIMAL" -> IF options.decimals THEN Narrowed(v) ELSE Spelled(v)
           [] type = "DOUBLE" -> Narrowed(v)
           [] type = "JSON" -> IF options.json = "text" THEN Spelled(v) ELSE As(v, "object")
           [] type = "DATETIME" -> IF options.temporal = "text" THEN Spelled(v) ELSE As(v, "date")
           [] type = "BLOB" -> As(v, "buffer")
           [] OTHER -> Spelled(v)

(* prepareMysqlNumericValidator, prepareMariaDbNumericValidator             *)
NumericValidator(driver, type, v) ==
    IsAbsent(v) \/
    CASE type = "DECIMAL" -> v.carrier = "string"
      [] type \in Integers -> v.carrier \in {"string", "bigint"} \/ IsSafeInteger(v)
      [] type \in Floats -> IF driver = "mysql2" THEN IsFinite(v) ELSE v.carrier = "number"
      [] OTHER -> TRUE

(* cellDecoders of the type policies: what the profile says, or refused.    *)
decodeCell(profile, type, v) ==
    OrNull(v, CASE type \in Integers -> normalizeExactInteger(v)
                [] type = "DECIMAL" -> decodeExactDecimal(v, FALSE)
                [] type = "JSON" /\ profile.json = "text" -> TextOnly(v)
                [] type = "TIME" -> TextOnly(v)
                [] type \in Times ->
                     IF v.carrier = (IF profile.temporal = "text" THEN "string" ELSE "date") THEN v ELSE Refused
                [] OTHER -> v)

(* A cell of the row as the projectors leave it.                            *)
Read(driver, options, type, v) ==
    IF NumericValidator(driver, type, v) THEN decodeCell(Profile(driver, options), type, v) ELSE Refused
-----------------------------------------------------------------------------
(* mysql2Environment, mariaDbEnvironment: what the driver promises of the   *)
(* columns of a type.  Only options mysql2 finds on its connection are      *)
(* proof; the connector's are always taken on condition.                   *)
Promise(driver, options, type) ==
    LET known == driver = "mysql2" /\ options.seen /\ options.cast = "default"
        exactNumeric == known /\ options.big /\ options.strings /\ ~options.decimals
    IN  CASE type \in Integers \union {"DECIMAL"} -> IF exactNumeric THEN "guaranteed" ELSE "guarded"
          [] type = "JSON" -> IF known THEN "guaranteed" ELSE "guarded"
          [] type \in Times -> IF known THEN "guaranteed" ELSE "guarded"
          [] type \in Floats -> IF known \/ driver = "mariadb" THEN "guaranteed" ELSE "guarded"
          [] OTHER -> "none"

(* mappings of the policies.                                               *)
Representation(profile, type) ==
    CASE type \in Integers \union {"DECIMAL", "TIME", "VARCHAR"} -> "string"
      [] type \in Floats -> "number"
      [] type = "JSON" -> IF profile.json = "text" THEN "string" ELSE "any"
      [] type \in Times -> IF profile.temporal = "text" THEN "string" ELSE "date"
      [] OTHER -> "any"
=============================================================================
