---------------------------- MODULE OracleValues ----------------------------
(***************************************************************************)
(* Oracle through node-oracledb.  An unhinted value goes to the library as  *)
(* it is; a hint names the type, and exact numbers never travel through a   *)
(* JavaScript number on their way out: columns are fetched as text and      *)
(* outputs are bound as text.  Everything is settled in describe.          *)
(***************************************************************************)
EXTENDS Values, Functions

Exact == {"NUMBER", "INTEGER"}
Binary == {"BINARY_DOUBLE"}
Sized == {"VARCHAR2", "RAW"}       \* types whose output needs a length
Lobs == {"CLOB", "BLOB"}
OracleTypes == Exact \union Binary \union Sized \union Lobs \union {"DATE"}

(* encode of the type policy: a type takes the carrier it is for.           *)
encode(type, v) ==
    LET fits ==
            CASE type = "VARCHAR2" -> v.carrier = "string"
              [] type \in Exact -> v.carrier = "bigint" \/ IsFinite(v)
              [] type \in Binary -> v.carrier = "number"
              [] type = "DATE" -> v.carrier = "date"
              [] type = "RAW" -> IsBytes(v)
              [] OTHER -> TRUE
    IN  IF IsAbsent(v) \/ fits THEN v ELSE Refused

(* bindValues: whether the direction and the hint go together.  A cursor    *)
(* comes out only; precision and scale are never accepted, a length exactly *)
(* where a sized value comes out.                                          *)
Bindable(kind, parameter) ==
    LET hint == parameter.hint
        out == parameter.direction # "in"
    IN  /\ out => /\ kind \in (IF parameter.direction = "out" THEN {"call", "rows"} ELSE {"call"})
                  /\ hint # NoHint
        /\ hint = NoHint => ~IsAbsent(parameter.value)
        /\ hint.type = "CURSOR" => out /\ hint.facets = {}
        /\ hint.type \notin {"none", "CURSOR"} =>
             /\ hint.type \in OracleTypes  \* typeConstant
             /\ hint.facets = IF out /\ hint.type \in Sized THEN {"length"} ELSE {}

(* bindValues: the bind of one parameter.  An exact number that comes out   *)
(* is carried as text, in both directions.                                 *)
Bind(kind, parameter) ==
    LET hint == parameter.hint
        out == parameter.direction # "in"
        carriedAsText == out /\ hint.type \in Exact
        encoded ==
            IF parameter.direction = "out" THEN Undefined
            ELSE IF hint.type \in {"none", "CURSOR"} THEN parameter.value
            ELSE encode(hint.type, parameter.value)
        value ==
            IF carriedAsText /\ encoded.carrier \in {"bigint", "number"} THEN Spelled(encoded) ELSE encoded
    IN  IF ~Bindable(kind, parameter) \/ encoded = Refused THEN [type |-> "refused", value |-> Refused]
        ELSE [type |-> IF carriedAsText THEN "VARCHAR2" ELSE hint.type, value |-> value]

Describe(kind, parameters) == [i \in DOMAIN parameters |-> Bind(kind, parameters[i])]

(* inferredBulkType *)
BulkKind(v) ==
    CASE v.carrier = "string" -> "string"
      [] v.carrier = "bigint" \/ IsFinite(v) -> "number"
      [] v.carrier = "date" /\ v.size # "invalid" -> "date"
      [] IsBytes(v) -> "binary"
      [] OTHER -> "refused"

(* materializeBulk, one column: without a hint all its values are of one    *)
(* kind, and one of them is not null.                                      *)
BulkColumn(hint, column) ==
    LET encoded == [r \in DOMAIN column |-> IF hint = NoHint THEN column[r] ELSE encode(hint.type, column[r])]
        given == {r \in DOMAIN encoded : ~IsAbsent(encoded[r])}
        kinds == {BulkKind(encoded[r]) : r \in given}
        sound ==
            IF hint = NoHint THEN Cardinality(kinds) = 1 /\ "refused" \notin kinds
            ELSE /\ hint.type \in OracleTypes
                 /\ hint.facets \subseteq IF hint.type \in Sized THEN {"length"} ELSE {}
                 /\ Refused \notin Range(encoded)
        type == IF hint = NoHint THEN CHOOSE kind \in kinds : TRUE ELSE hint.type
    IN  [r \in DOMAIN column |->
            IF sound THEN [type |-> type, value |-> encoded[r]] ELSE [type |-> "refused", value |-> Refused]]

DescribeBulk(parameters, rows) ==
    LET columns == [i \in DOMAIN parameters |-> BulkColumn(parameters[i].hint, [r \in DOMAIN rows |-> rows[r][i]])]
    IN  [r \in DOMAIN rows |-> [i \in DOMAIN parameters |-> columns[i][r]]]
-----------------------------------------------------------------------------
(* What node-oracledb hands over (external): it rounds a NUMBER into a      *)
(* number, unless text was asked for; its lobs are read here.              *)
OracleRaw(type, asText, v) ==
    IF IsAbsent(v) THEN Null
    ELSE IF asText THEN Spelled(v)
    ELSE IF type \in Exact \union Binary THEN Narrowed(v)
    ELSE IF type \in {"RAW", "BLOB"} THEN As(v, "buffer")
    ELSE v

(* Mutant of FetchedAsText: numbers are fetched as the library likes. *)
FetchedAsIs(type) == type = "CLOB"

(* fetchTypeHandler: the columns asked for as text.                         *)
FetchedAsText(type) == type \in Exact \union {"CLOB"}

(* prepareOracleRowProjector, assertOracleNumericValue and decode of the    *)
(* type policy: an exact number is a text or it is refused.                *)
Read(type, v) ==
    IF IsAbsent(v) THEN v
    ELSE IF type \in Exact THEN IF v.carrier = "string" THEN decodeExactDecimal(v, TRUE) ELSE Refused
    ELSE IF type \in Binary THEN IF v.carrier = "number" THEN v ELSE Refused
    ELSE v

(* Mutant of OutputOrdinals: the index of the parameter. *)
ParameterIndexes(parameters) ==
    [i \in {j \in DOMAIN parameters : parameters[j].direction # "in"} |-> i]

(* oracleOutputOrdinals: outBinds has no entry for an IN parameter.         *)
OutputOrdinals(parameters) ==
    [i \in {j \in DOMAIN parameters : parameters[j].direction # "in"} |->
        Cardinality({j \in 1..i : parameters[j].direction # "in"})]

(* The outputs of a call, by the names of their parameters.                 *)
Outputs(parameters, outBinds) ==
    LET ordinals == OutputOrdinals(parameters)
        value(i) == IF ordinals[i] \in DOMAIN outBinds THEN outBinds[ordinals[i]] ELSE Undefined
    IN  [i \in DOMAIN ordinals |-> Read(parameters[i].hint.type, value(i))]

(* normalizeDmlReturning: one array for every output, all of the length     *)
(* the database says, or the call fails: no row.                           *)
Returning(parameters, outBinds, rowsAffected) ==
    LET ordinals == OutputOrdinals(parameters)
        column(i) == IF ordinals[i] \in DOMAIN outBinds THEN outBinds[ordinals[i]] ELSE <<>>
        aligned ==
            /\ Range(ordinals) \subseteq DOMAIN outBinds
            /\ \A i \in DOMAIN ordinals : Len(column(i)) = rowsAffected
    IN  IF aligned
        THEN [r \in 1..rowsAffected |-> [i \in DOMAIN ordinals |-> Read(parameters[i].hint.type, column(i)[r])]]
        ELSE <<>>

(* mappings of the type policy.                                            *)
Promise(type) == IF type \in Exact \union Binary THEN "guaranteed" ELSE "none"

Representation(type) ==
    IF type \in Exact THEN "string" ELSE IF type \in Binary THEN "number" ELSE "any"
=============================================================================
