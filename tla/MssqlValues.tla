---------------------------- MODULE MssqlValues ----------------------------
(***************************************************************************)
(* SQL Server through Tedious: the type a parameter is sent under, what    *)
(* the type policy and Tedious make of its value, and what becomes of a    *)
(* column's value.  Everything is settled in describe, before a lease.     *)
(***************************************************************************)
EXTENDS Values, TLC

Ints == {"tinyint", "smallint", "int", "bigint"}
Decimals == {"decimal", "numeric"}
Moneys == {"money", "smallmoney"}
Floats == {"real", "float"}
Texts == {"nvarchar", "varchar", "char"}
Binaries == {"varbinary", "binary"}
ScaledTimes == {"datetime2", "datetimeoffset"}
MssqlTypes ==
    Ints \union Decimals \union Moneys \union Floats \union Texts \union Binaries
        \union ScaledTimes \union {"bit", "uniqueidentifier", "date"}

(* Facets a hint of the type may give, and those it must.                   *)
MayGive(type) ==
    IF type \in Decimals THEN {"precision", "scale"}
    ELSE IF type \in ScaledTimes THEN {"scale"}
    ELSE IF type \in Texts \union Binaries THEN {"length"}
    ELSE {}

MustGive(type) == IF type \in ScaledTimes THEN {} ELSE MayGive(type)

(* typeForHint: cursors, other types and ill-fitting facets are refused.    *)
HintedType(hint) ==
    IF /\ hint.type \in MssqlTypes
       /\ MustGive(hint.type) \subseteq hint.facets
       /\ hint.facets \subseteq MayGive(hint.type)
       /\ hint.sound
    THEN hint.type
    ELSE "refused"

(* inferType: null has no type, nor has a number that is not what its       *)
(* spelling says.                                                          *)
inferType(v) ==
    CASE v.carrier = "string" -> "nvarchar"
      [] v.carrier = "boolean" -> "bit"
      [] v.carrier = "date" /\ v.size # "invalid" -> "datetime2"
      [] v.carrier = "bigint" -> "bigint"
      [] IsInteger(v) /\ v.size \in {"bit", "small"} -> "int"
      [] IsInteger(v) /\ v.size = "wide" -> "bigint"
      [] IsFinite(v) /\ v.size \notin Integral -> "float"
      [] IsBytes(v) -> "varbinary"
      [] OTHER -> "refused"

(* What inferType makes of the value: bigints are sent as text.             *)
Inferred(v) == IF inferType(v) = "bigint" THEN Spelled(v) ELSE v

(* decimalInput: a number of at most fifteen digits that the precision and  *)
(* the scale hold.                                                         *)
decimalInput(v, narrow) ==
    IF v.carrier = "number" /\ v.size \in Safe \union {"decimal"} /\ ~narrow THEN v ELSE Refused

(* encode of the type policy. *)
encode(type, v, narrow) ==
    IF IsAbsent(v) THEN v
    ELSE IF type = "bigint" /\ v.carrier = "bigint" THEN Spelled(v)
    ELSE IF type \in Decimals \union Moneys THEN decimalInput(v, narrow)
    ELSE v

(* Tedious' own validation of a value (external): the value converted to    *)
(* the type, or a TypeError.  An integer type cuts fractions, a bit takes   *)
(* anything for true or false, a decimal goes through a scaled number.     *)
TediousValidate(type, v, narrow) ==
    LET numeric == v.carrier \in {"number", "string", "bigint"} /\ v.size \in Digital
    IN  IF IsAbsent(v) THEN Null
        ELSE IF type \in Ints
             THEN IF numeric /\ v.size \notin Integral THEN Altered(As(v, "number"))
                  ELSE IF numeric /\ v.size \in (IF type = "bigint" THEN Int64 ELSE {"bit", "small"})
                  THEN v ELSE Refused
        ELSE IF type \in Decimals \union Moneys
             THEN IF numeric /\ v.size \in Safe \union {"decimal"} /\ ~narrow THEN Narrowed(v)
                  ELSE IF numeric THEN Altered(As(v, "number")) ELSE Refused
        ELSE IF type \in Floats THEN IF numeric THEN Narrowed(v) ELSE Refused
        ELSE IF type = "bit"
             THEN IF v.carrier = "boolean" \/ (v.carrier = "number" /\ v.size = "bit")
                  THEN As(v, "boolean") ELSE Altered(As(v, "boolean"))
        ELSE IF type \in Binaries THEN IF v.carrier = "buffer" THEN v ELSE Refused
        ELSE IF type = "uniqueidentifier" THEN IF v.carrier = "string" THEN v ELSE Refused
        ELSE IF v.carrier = "date" /\ v.size # "invalid" THEN v ELSE Refused

(* materializeParameter: the type and the value of one parameter.  An OUT   *)
(* parameter has a type only.                                              *)
materializeParameter(value, hint, direction) ==
    LET type == IF hint = NoHint THEN inferType(value) ELSE HintedType(hint)
        given == IF hint = NoHint THEN Inferred(value) ELSE value
        encoded == encode(type, given, hint.narrow)
        copied == IF type \in Binaries /\ encoded.carrier = "bytes" THEN As(encoded, "buffer") ELSE encoded
        checked ==
            IF direction = "out" THEN Undefined
            ELSE IF encoded = Refused THEN Refused
            ELSE IF type \in Texts THEN IF IsAbsent(copied) \/ copied.carrier = "string" THEN copied ELSE Refused
            ELSE TediousValidate(type, copied, hint.narrow)
        refused ==
            \/ direction # "in" /\ hint = NoHint
            \/ direction = "in" /\ value = Undefined
            \/ type = "refused"
            \/ checked = Refused
    IN  IF refused THEN [type |-> "refused", value |-> Refused]
        ELSE [type |-> type, value |-> checked]

(* describe of createBinding: OUT parameters only where there is a call.    *)
Describe(kind, parameters) ==
    [i \in DOMAIN parameters |->
        IF parameters[i].direction # "in" /\ kind # "call"
        THEN [type |-> "refused", value |-> Refused]
        ELSE materializeParameter(parameters[i].value, parameters[i].hint, parameters[i].direction)]

(* Mutant of DescribeBulk: every row infers its own types. *)
DescribeEachRow(parameters, rows) ==
    [r \in DOMAIN rows |->
        [i \in DOMAIN parameters |-> materializeParameter(rows[r][i], parameters[i].hint, "in")]]

(* describeBulk: every row is sent under the types of the first, or         *)
(* BRAID_BULK_SHAPE.                                                       *)
DescribeBulk(parameters, rows) ==
    LET first == Describe("command", parameters)
    IN  [r \in DOMAIN rows |->
            [i \in DOMAIN parameters |->
                 LET one == materializeParameter(rows[r][i], parameters[i].hint, "in")
                 IN  IF one.type = first[i].type THEN one
                     ELSE [type |-> "refused", value |-> Refused]]]
-----------------------------------------------------------------------------
(* What Tedious hands over for a column (external): bigints as text,        *)
(* decimals and money as numbers.                                          *)
TediousRaw(type, v) ==
    IF IsAbsent(v) THEN Null
    ELSE IF type = "bigint" THEN Spelled(v)
    ELSE IF type \in Ints \union Decimals \union Moneys \union Floats THEN Narrowed(v)
    ELSE IF type \in Binaries THEN As(v, "buffer")
    ELSE v

(* columnType: the nullable protocol types carry their width apart.         *)
columnType(metadata) ==
    LET widths ==
        [intn |-> 1 :> "tinyint" @@ 2 :> "smallint" @@ 4 :> "int" @@ 8 :> "bigint",
         floatn |-> 4 :> "real" @@ 8 :> "float",
         moneyn |-> 4 :> "smallmoney" @@ 8 :> "money"]
        names == [bitn |-> "bit", decimaln |-> "decimal", numericn |-> "numeric",
                  variant |-> "sql_variant", sqlvariant |-> "sql_variant"]
    IN  IF metadata.type \in DOMAIN widths /\ metadata.width \in DOMAIN widths[metadata.type]
        THEN widths[metadata.type][metadata.width]
        ELSE IF metadata.type \in DOMAIN names THEN names[metadata.type]
        ELSE metadata.type

(* resolveCellDecoder of the type policy. *)
decodeCell(type, v) ==
    IF type \in Ints THEN ExactInteger(v)
    ELSE IF type \in Decimals \union Moneys THEN OrNull(v, Refused)
    ELSE IF type \in Floats THEN FiniteOr(v)
    ELSE v

(* A column of the row as prepareTediousRowProjector leaves it.             *)
Read(metadata, v) == decodeCell(columnType(metadata), v)

(* Metadata of a column that may be NULL (external).                        *)
Metadata(type) ==
    LET nullable ==
        [tinyint |-> <<"intn", 1>>, smallint |-> <<"intn", 2>>, int |-> <<"intn", 4>>, bigint |-> <<"intn", 8>>,
         real |-> <<"floatn", 4>>, float |-> <<"floatn", 8>>,
         smallmoney |-> <<"moneyn", 4>>, money |-> <<"moneyn", 8>>,
         bit |-> <<"bitn", 1>>, decimal |-> <<"decimaln", 9>>, numeric |-> <<"numericn", 9>>]
    IN  IF type \in DOMAIN nullable
        THEN [type |-> nullable[type][1], width |-> nullable[type][2]]
        ELSE [type |-> type, width |-> 0]

(* mappings of the type policy: what the package says of its columns.       *)
Promise(type) ==
    IF type \in Ints \union Floats THEN "guaranteed"
    ELSE IF type \in Decimals \union Moneys THEN "unsupported"
    ELSE "none"

Representation(type) ==
    IF type \in Ints THEN "string" ELSE IF type \in Floats THEN "number" ELSE "any"
=============================================================================
