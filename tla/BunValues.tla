----------------------------- MODULE BunValues ------------------------------
(***************************************************************************)
(* Bun.SQL: one library for four dialects, whose results say nothing of    *)
(* the types of their columns.  A value that could be two things is        *)
(* refused, in both directions.                                            *)
(***************************************************************************)
EXTENDS Values

BunDialects == {"postgres", "mysql", "mariadb", "sqlite"}
MysqlLike == {"mysql", "mariadb"}

BunTypes == {"INTEGER", "BIGINT", "DECIMAL", "DOUBLE", "JSON", "TEMPORAL", "BINARY"}

(* assertValues and assertNativeValue: an array, an object, a helper of the *)
(* library or a date that is none is refused.                              *)
IsNativeValue(v) ==
    \/ v.carrier \in {"null", "string", "number", "boolean", "bigint"}
    \/ v.carrier = "date" /\ v.size # "invalid"
    \/ IsBytes(v)

(* assertStatementSupported *)
Supported(kind, parameter) == kind # "call" /\ parameter.hint = NoHint /\ parameter.direction = "in"

Bound(kind, parameter, v) ==
    IF Supported(kind, parameter) /\ IsNativeValue(v) THEN [type |-> "none", value |-> v]
    ELSE [type |-> "refused", value |-> Refused]

Describe(kind, parameters) ==
    [i \in DOMAIN parameters |-> Bound(kind, parameters[i], parameters[i].value)]

DescribeBulk(parameters, rows) ==
    [r \in DOMAIN rows |-> [i \in DOMAIN parameters |-> Bound("command", parameters[i], rows[r][i])]]
-----------------------------------------------------------------------------
(* What the library does with a value (external): an object may be one of   *)
(* its own fragments or lists, which are text of the statement.            *)
Sent(v) == IF v.carrier \in {"array", "object", "function"} THEN [v EXCEPT !.exact = FALSE] ELSE v

(* What it hands over (external), with the option bigint, or safeIntegers,  *)
(* of the profile: SQLite alone has no decimals, MySQL's are bytes.         *)
RawCell(dialect, type, v) ==
    IF IsAbsent(v) THEN Null
    ELSE CASE type \in {"INTEGER", "BIGINT"} ->
                IF dialect = "sqlite" \/ v.size \notin Safe THEN As(v, "bigint") ELSE Narrowed(v)
           [] type = "DECIMAL" ->
                IF dialect = "postgres" THEN Spelled(v)
                ELSE IF dialect \in MysqlLike THEN As(v, "bytes")
                ELSE Narrowed(v)
           [] type = "DOUBLE" -> Narrowed(v)
           [] type = "JSON" -> IF dialect \in {"sqlite", "mariadb"} THEN Spelled(v) ELSE As(v, "object")
           [] type = "TEMPORAL" -> IF dialect = "sqlite" THEN Spelled(v) ELSE As(v, "date")
           [] type = "BINARY" -> As(v, "bytes")

(* normalizeRowValue: an integer in a number may have been rounded.         *)
Read(dialect, v) ==
    IF v.carrier = "bigint" THEN Spelled(v)
    ELSE IF IsInteger(v) \/ (dialect \in MysqlLike /\ IsBytes(v)) THEN Refused
    ELSE v

(* capabilitiesFor: what is promised of the columns of a type.              *)
Promise(dialect, type) ==
    CASE type \in {"INTEGER", "BIGINT", "DOUBLE"} -> "guarded"
      [] type = "DECIMAL" -> IF dialect = "postgres" THEN "guaranteed" ELSE "unsupported"
      [] type = "JSON" -> IF dialect \in {"sqlite", "mariadb"} THEN "guaranteed" ELSE "guarded"
      [] type = "TEMPORAL" -> IF dialect = "sqlite" THEN "guaranteed" ELSE "guarded"
      [] type = "BINARY" -> IF dialect \in MysqlLike THEN "unsupported" ELSE "guaranteed"

(* mappings of makePolicy.                                                 *)
Representation(dialect, type) ==
    CASE type \in {"INTEGER", "BIGINT", "DECIMAL"} -> "string"
      [] type = "DOUBLE" -> "number"
      [] type = "BINARY" /\ dialect \notin MysqlLike -> "bytes"
      [] type \in {"JSON", "TEMPORAL"} /\ dialect = "sqlite" -> "string"
      [] OTHER -> "any"
=============================================================================
