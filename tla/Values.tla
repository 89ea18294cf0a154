------------------------------- MODULE Values -------------------------------
(***************************************************************************)
(* What a JavaScript value is to the drivers: the carrier typeof and       *)
(* instanceof see, and how large the number or text in it is.  The ghost   *)
(* exact says whether the value still is what it was before the last       *)
(* conversion: a bigint that became a number is not, when no number is     *)
(* equal to it.                                                            *)
(*                                                                         *)
(* With it, what the core package does to values: rendered statements and  *)
(* bulks, type hints, exact numerics.                                      *)
(***************************************************************************)
EXTENDS Naturals, Sequences, FiniteSets

Value(carrier, size) == [carrier |-> carrier, size |-> size, exact |-> TRUE]

Null == Value("null", "none")
Undefined == Value("undefined", "none")
Refused == Value("refused", "none")  \* an error was thrown instead

(* Sizes of numbers and of texts that spell one.  bit: 0 and 1; small: any  *)
(* integer type holds it; wide: beyond 32 bits; unsafe: beyond 2^53; huge: *)
(* beyond 64 bits; decimal: a fraction of few digits; long: of more than a *)
(* number has; exponent: spelled with one; nan: not finite.                *)
Integral == {"bit", "small", "wide", "unsafe", "huge"}
Int64 == Integral \ {"huge"}
Safe == {"bit", "small", "wide"}
Plain == Safe \union {"decimal", "long"}
Digital == Integral \union {"decimal", "long"}

IsInteger(v) == v.carrier = "number" /\ v.size \in Integral
IsSafeInteger(v) == v.carrier = "number" /\ v.size \in Safe
IsFinite(v) == v.carrier = "number" /\ v.size # "nan"
IsView(v) == v.carrier \in {"bytes", "buffer", "view"}  \* ArrayBuffer.isView
IsBytes(v) == v.carrier \in {"bytes", "buffer"}         \* instanceof Uint8Array
IsAbsent(v) == v.carrier \in {"null", "undefined"}
As(v, carrier) == [v EXCEPT !.carrier = carrier]

(* A number made of the value: equal to it only when it is not too long.    *)
Narrowed(v) ==
    [v EXCEPT !.carrier = "number",
              !.exact = @ /\ (v.carrier = "number" \/ v.size \notin {"unsafe", "huge", "long"})]

(* Another value than the one given. *)
Altered(v) == [v EXCEPT !.exact = FALSE]

(* A text made of the value, and anything that is not a number to SQL.      *)
Spelled(v) == As(v, "string")
-----------------------------------------------------------------------------
(* Numbers that come from a database (numeric.ts).                         *)

normalizeExactInteger(v) ==
    IF \/ v.carrier = "string" /\ v.size \in Integral
       \/ v.carrier = "bigint"
       \/ IsSafeInteger(v)
    THEN Spelled(v)
    ELSE Refused

decodeExactInteger(v) ==
    IF normalizeExactInteger(v) = Refused THEN Refused ELSE As(v, "bigint")

decodeExactDecimal(v, allowBigInt) ==
    IF v.carrier = "string" THEN v
    ELSE IF v.carrier = "bigint" /\ allowBigInt THEN Spelled(v)
    ELSE Refused

(* A count is handed over as a number, or not at all.                       *)
safeDatabaseCount(v) ==
    IF v.carrier \in {"number", "bigint", "string"} /\ v.size \in Safe
    THEN Narrowed(v)
    ELSE Refused

(* decode of a column that may be NULL. *)
OrNull(v, decoded) == IF IsAbsent(v) THEN v ELSE decoded

FiniteOr(v) == OrNull(v, IF IsFinite(v) THEN v ELSE Refused)
ExactInteger(v) == OrNull(v, normalizeExactInteger(v))
ExactDecimal(v) == OrNull(v, decodeExactDecimal(v, FALSE))
TextOnly(v) == OrNull(v, IF v.carrier = "string" THEN v ELSE Refused)
-----------------------------------------------------------------------------
(* Type hints and rendered parameters (parameter.ts, statement.ts).        *)

(* facets: those the hint gives; sound: their numbers are in range;         *)
(* narrow: they leave less room than the value needs.                       *)
Hint(type, facets) ==
    [type |-> type, facets |-> facets, sound |-> TRUE, narrow |-> FALSE]

NoHint == Hint("none", {})

Unsound(hint) == [hint EXCEPT !.sound = FALSE]
Narrow(hint) == [hint EXCEPT !.narrow = TRUE]

(* A parameter as createRenderedStatement leaves it.                        *)
Parameter(value, hint, direction, output) ==
    [value |-> value, hint |-> hint, direction |-> direction, output |-> output]

In(value, hint) == Parameter(value, hint, "in", "none")

(* copyRenderedParameter: a direction and a name come together, and only    *)
(* an OUT parameter has no value.                                           *)
IsRendered(parameter) ==
    /\ (parameter.output # "none") = (parameter.direction \in {"out", "inout"})
    /\ parameter.value = Undefined => parameter.direction = "out"

(* createRenderedStatement *)
RendersStatement(kind, parameters) ==
    /\ \A i \in DOMAIN parameters : IsRendered(parameters[i])
    /\ \A i \in DOMAIN parameters :
         /\ parameters[i].direction = "inout" => kind = "call"
         /\ parameters[i].direction = "out" => kind \in {"call", "rows"}
    /\ \A i, j \in DOMAIN parameters :
         i # j /\ parameters[i].output # "none" => parameters[i].output # parameters[j].output

(* createRenderedBulk: every set has the parameters of the statement.       *)
RendersBulk(kind, parameters, sets) ==
    /\ RendersStatement(kind, parameters)
    /\ \A s \in DOMAIN sets :
         /\ Len(sets[s]) = Len(parameters)
         /\ \A i \in DOMAIN parameters :
              sets[s][i] = Undefined => parameters[i].direction = "out"
=============================================================================
