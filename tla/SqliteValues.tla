---------------------------- MODULE SqliteValues ----------------------------
(***************************************************************************)
(* SQLite: better-sqlite3, node:sqlite, the WASM build, libSQL and          *)
(* Cloudflare D1.  A column has no type, a value has: whether an integer    *)
(* comes back exactly is a matter of how the library is asked to read it.  *)
(***************************************************************************)
EXTENDS Values

SqliteDrivers == {"better-sqlite3", "node-sqlite", "sqlite-wasm", "libsql", "cloudflare-d1"}

(* Storage classes of SQLite.                                              *)
SqliteTypes == {"INTEGER", "REAL", "TEXT", "BLOB"}

IsBinary(v) == v.carrier = "arraybuffer" \/ IsView(v)
FitsInt64(v) == v.carrier = "bigint" /\ v.size \in Int64

(* assertBetterSqlite3Value, assertNodeSqliteValue, assertWasmValue,        *)
(* assertLibsqlValue, assertD1Value                                        *)
IsSqliteValue(driver, v) ==
    \/ v.carrier \in {"null", "string"}
    \/ driver \in {"better-sqlite3", "node-sqlite"} /\ v.carrier = "number"
    \/ driver \in {"sqlite-wasm", "libsql"} /\ IsFinite(v)
    \/ driver = "cloudflare-d1" /\ IsFinite(v) /\ (IsInteger(v) => IsSafeInteger(v))
    \/ driver # "cloudflare-d1" /\ FitsInt64(v)
    \/ driver \in {"sqlite-wasm", "libsql", "cloudflare-d1"} /\ v.carrier = "boolean"
    \/ driver = "libsql" /\ v.carrier = "date"
    \/ driver = "better-sqlite3" /\ IsBytes(v)
    \/ driver = "node-sqlite" /\ IsView(v)
    \/ driver = "libsql" /\ (v.carrier = "arraybuffer" \/ IsBytes(v))
    \/ driver \in {"sqlite-wasm", "cloudflare-d1"} /\ IsBinary(v)
    \/ driver = "cloudflare-d1" /\ v.carrier = "array" /\ v.size = "bytes"

(* describe leaves the values of a single statement to node:sqlite; the     *)
(* others look at them, better-sqlite3 and libSQL again when they run.     *)
LooksAtSingle(driver) == driver # "node-sqlite"

Plainly(parameter) == parameter.hint = NoHint /\ parameter.direction = "in"

Bound(driver, parameter, v, looksAt) ==
    IF Plainly(parameter) /\ (looksAt => IsSqliteValue(driver, v))
    THEN [type |-> "none",
          value |-> IF driver = "better-sqlite3" /\ v.carrier = "bytes" THEN As(v, "buffer") ELSE v]
    ELSE [type |-> "refused", value |-> Refused]

Describe(driver, kind, parameters) ==
    [i \in DOMAIN parameters |->
        IF kind = "call" THEN [type |-> "refused", value |-> Refused]
        ELSE Bound(driver, parameters[i], parameters[i].value, LooksAtSingle(driver))]

DescribeBulk(driver, parameters, rows) ==
    [r \in DOMAIN rows |-> [i \in DOMAIN parameters |-> Bound(driver, parameters[i], rows[r][i], TRUE)]]
-----------------------------------------------------------------------------
(* What a library stores of a value it is given (external): it refuses what *)
(* is beyond 64 bits, a date is its milliseconds, and SQLite has no other   *)
(* number that is none than NULL.                                          *)
Stored(driver, v) ==
    CASE v.carrier = "null" -> v
      [] v.carrier = "bigint" -> IF v.size \in Int64 THEN As(v, "integer") ELSE Refused
      [] driver = "node-sqlite" /\ v.carrier \in {"boolean", "date", "array", "arraybuffer"} -> Refused
      [] v.carrier = "boolean" -> As(v, "integer")
      [] v.carrier \in {"number", "date"} ->
           IF v.size \in {"nan", "invalid"} THEN [Null EXCEPT !.exact = FALSE]
           ELSE As(v, IF v.size \in Integral THEN "integer" ELSE "real")
      [] v.carrier = "string" -> v
      [] IsBinary(v) \/ v.carrier = "array" -> As(v, "blob")
      [] OTHER -> Refused

(* What it hands over for a value (external), when it was asked for exact   *)
(* integers; D1 cannot be asked.                                           *)
RawCell(driver, v) ==
    CASE v.carrier = "integer" ->
           IF driver = "libsql" THEN Spelled(v)  \* intMode: "string"
           ELSE IF driver = "cloudflare-d1" THEN Narrowed(v)
           ELSE As(v, "bigint")
      [] v.carrier = "real" -> As(v, "number")
      [] v.carrier = "blob" ->
           As(v, IF driver = "better-sqlite3" THEN "buffer"
                 ELSE IF driver = "cloudflare-d1" THEN "array"
                 ELSE IF driver = "libsql" THEN "arraybuffer" ELSE "bytes")
      [] OTHER -> v

(* configureExactIntegerReads, assertExactStringMode, assertExactInteger-   *)
(* Reads: a library that cannot be asked for exact integers is not read.   *)
AsksForExact(driver, able) == driver = "cloudflare-d1" \/ able

(* normalizeValue of the projectors.                                       *)
Read(driver, able, v) ==
    IF ~AsksForExact(driver, able) THEN Refused
    ELSE IF v.carrier = "bigint" THEN normalizeExactInteger(v)
    ELSE IF driver = "cloudflare-d1" /\ IsInteger(v) THEN normalizeExactInteger(v)
    ELSE IF \/ v.carrier \in {"buffer", "arraybuffer", "view"}
            \/ driver = "cloudflare-d1" /\ v.carrier = "array" /\ v.size = "bytes"
         THEN As(v, "bytes")
    ELSE v

(* What a driver's environment promises of integers and of reals.          *)
Promise(driver, type) ==
    IF driver = "cloudflare-d1" THEN IF type \in {"INTEGER", "REAL"} THEN "guarded" ELSE "none"
    ELSE IF type \in {"INTEGER", "REAL"} THEN "guaranteed" ELSE "none"

Representation(type) ==
    CASE type \in {"INTEGER", "TEXT"} -> "string"
      [] type = "REAL" -> "number"
      [] type = "BLOB" -> "bytes"
=============================================================================
