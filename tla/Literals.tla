------------------------------ MODULE Literals ------------------------------
(***************************************************************************)
(* literalizedSql: the text of a statement with its values in it, which     *)
(* observers ask of the one description of a statement or a bulk, each with *)
(* options of its own: what may be shown, and how much of it.  Answers are  *)
(* kept, so that one observer's may be given to another.                   *)
(***************************************************************************)
EXTENDS Values

CONSTANT MaxAsks

VARIABLES
    described,  \* [driver, bulk, rows]: the parameters of each item
    cache,      \* answers, by the key of their options
    default,    \* the answer to no options, once it was asked for
    answer,     \* the last answer: [item, options, text]
    asks        \* how many there were

vars == <<described, cache, default, answer, asks>>

None == "none"
NoLimit == 9
NoOptions == [values |-> None, binary |-> None, max |-> NoLimit, redact |-> {}]

(* redact: the parameters that a predicate of the observer hides.           *)
LiteralOptions ==
    [values : {None, "inline", "redacted"}, binary : {None, "summary", "full"}, max : {2, NoLimit}, redact : {{}, {1}}]

(* What stands for a value, and how long that is.                          *)
Form(form, v) == [form |-> form, of |-> v]

Length(literal) ==
    CASE literal.form = "null" -> 1
      [] literal.form = "value" -> IF literal.of.size \in {"bit", "small"} THEN 1 ELSE 3
      [] literal.form = "full" -> 3
      [] OTHER -> 2

Bytes(v, binary) == Form(IF binary = "full" THEN "full" ELSE "summary", v)

If(shows, v) == Form(IF shows THEN "value" ELSE "unsupported", v)

IsDate(v) == v.carrier = "date" /\ v.size # "invalid"

genericLiteral(v, binary) ==
    IF v.carrier = "null" THEN Form("null", v)
    ELSE IF IsBytes(v) THEN Bytes(v, binary)
    ELSE If(v.carrier \in {"string", "boolean", "bigint"} \/ IsFinite(v) \/ IsDate(v), v)

(* The value under the type it is sent as.                                  *)
tediousLiteralValue(type, v, binary) ==
    IF IsAbsent(v) THEN Form("null", v)
    ELSE CASE type \in {"int", "bigint", "float", "decimal"} -> If(v.carrier = "bigint" \/ v.size \in Digital, v)
           [] type = "bit" -> If(v.carrier = "boolean" \/ v = Value("number", "bit"), v)
           [] type = "nvarchar" -> If(v.carrier = "string", v)
           [] type = "datetime2" -> If(IsDate(v), v)
           [] OTHER -> IF IsBytes(v) THEN Bytes(v, binary) ELSE Form("unsupported", v)

oracleLiteralValue(type, v, binary) ==
    IF IsAbsent(v) THEN Form("null", v)
    ELSE CASE type = "NUMBER" -> If(v.carrier = "bigint" \/ IsFinite(v), v)
           [] type = "DATE" -> If(IsDate(v), v)
           [] type = "RAW" -> IF IsBytes(v) THEN Bytes(v, binary) ELSE Form("unsupported", v)
           [] type = "VARCHAR2" -> If(v.carrier = "string", v)
           [] OTHER -> genericLiteral(v, binary)

(* literal of the Bun driver does not look at the options.                  *)
bunLiteral(v) ==
    IF v.carrier = "number" THEN Form("value", v) ELSE genericLiteral(v, "full")

formatLiteral(driver, type, v, binary) ==
    CASE driver = "mssql" -> tediousLiteralValue(type, v, binary)
      [] driver = "oracle" -> oracleLiteralValue(type, v, binary)
      [] driver = "bun" -> bunLiteral(v)
      [] OTHER -> genericLiteral(v, binary)

(* literalized, one parameter *)
Literal(driver, parameter, index, options) ==
    LET redacted == options.values # "inline" \/ index \in options.redact
        literal ==
            IF redacted THEN Form("redacted", Null)
            ELSE formatLiteral(driver, parameter.type, parameter.value, options.binary)
        cut == Length(literal) > options.max
    IN  [form |-> literal.form, of |-> literal.of, cut |-> cut]

literalized(driver, parameters, options) ==
    LET literals == [i \in DOMAIN parameters |-> Literal(driver, parameters[i], i, options)]
    IN  [literals |-> literals,
         redacted |-> Cardinality({i \in DOMAIN literals : literals[i].form = "redacted"}),
         complete |-> \A i \in DOMAIN literals : ~literals[i].cut]
-----------------------------------------------------------------------------
(* Parameters, each under the type it is sent as.                           *)
Sample(driver) ==
    LET bound(type, v) == [type |-> type, value |-> v]
    IN  CASE driver = "mssql" ->
               {bound("varbinary", Null), bound("varbinary", Value("buffer", "bytes")), bound("float", Value("number", "long")),
                bound("decimal", Value("number", "decimal")), bound("bigint", Value("string", "unsafe")),
                bound("int", Value("number", "small"))}
          [] driver = "oracle" ->
               {bound(None, Value("number", "long")), bound("RAW", Value("buffer", "bytes")),
                bound("NUMBER", Value("string", "unsafe")), bound(None, Value("date", "time"))}
          [] OTHER ->
               {bound(None, Null), bound(None, Value("bytes", "bytes")), bound(None, Value("number", "long")),
                bound(None, Value("boolean", "bit"))}

NoAnswer == [item |-> 0, options |-> NoOptions, text |-> <<>>]

Text(driver) == [type |-> IF driver = "mssql" THEN "nvarchar" ELSE None, value |-> Value("string", "text")]

Init ==
    /\ \E driver \in {"mssql", "oracle", "bun", "other"}, bulk \in BOOLEAN : \E p, q \in Sample(driver) :
         described = [driver |-> driver, bulk |-> bulk,
                      rows |-> IF bulk THEN << <<p, Text(driver)>>, <<q, Text(driver)>> >> ELSE << <<p, Text(driver)>> >>]
    /\ cache = <<>> /\ default = <<>> /\ answer = NoAnswer /\ asks = 0

Quiet ==
    /\ described = [driver |-> None, bulk |-> FALSE, rows |-> <<>>]
    /\ cache = <<>> /\ default = <<>> /\ answer = NoAnswer /\ asks = 0

MayAsk == described.driver # None /\ asks < MaxAsks

Answered(item, options, text) ==
    /\ answer' = [item |-> item, options |-> options, text |-> text]
    /\ asks' = asks + 1

(* Without options: one answer for good.                                    *)
AskPlainly ==
    /\ MayAsk /\ ~described.bulk
    /\ default' = IF default = <<>> THEN <<literalized(described.driver, described.rows[1], NoOptions)>> ELSE default
    /\ Answered(1, NoOptions, default'[1])
    /\ UNCHANGED <<described, cache>>

cacheKey(options) == <<options.values, options.binary, options.max>>

(* Mutant of Kept: the answer is kept whatever hides its values. *)
AlwaysKept(options) == TRUE

(* An answer is not kept when a predicate took part in it.                  *)
Kept(options) == options.redact = {}

Ask(options) ==
    /\ MayAsk /\ ~described.bulk
    /\ LET key == cacheKey(options)
           text ==
               IF Kept(options) /\ key \in DOMAIN cache THEN cache[key]
               ELSE literalized(described.driver, described.rows[1], options)
       IN  /\ cache' = IF Kept(options)
                      THEN [k \in DOMAIN cache \union {key} |-> IF k = key THEN text ELSE cache[k]]
                      ELSE cache
           /\ Answered(1, options, text)
    /\ UNCHANGED <<described, default>>

(* literalizedSqlFor: an item of a bulk is described anew each time.        *)
AskItem(item, options) ==
    /\ MayAsk /\ described.bulk
    /\ Answered(item, options, literalized(described.driver, described.rows[item], options))
    /\ UNCHANGED <<described, cache, default>>

Next ==
    \/ AskPlainly
    \/ \E options \in LiteralOptions : Ask(options)
    \/ \E options \in LiteralOptions, item \in DOMAIN described.rows : AskItem(item, options)
-----------------------------------------------------------------------------
(* Every answer is what its options allow, whatever was asked before and by *)
(* whom: a value is hidden unless it was asked for inline and no predicate  *)
(* hides it, bytes are spelled only for who asked for all of them (not so   *)
(* in the Bun driver), what is shown is the value of that item, nothing is  *)
(* longer than asked, and the counts tell of it.                           *)
LiteralAsAsked ==
    asks > 0 =>
        LET asked == answer.options
            parameters == described.rows[answer.item]
            literals == answer.text.literals
            hidden == {i \in DOMAIN parameters : asked.values # "inline" \/ i \in asked.redact}
        IN  /\ \A i \in DOMAIN parameters :
                 /\ literals[i].form = "redacted" <=> i \in hidden
                 /\ i \notin hidden => literals[i].of = parameters[i].value
                 /\ literals[i].form = "full" => asked.binary = "full" \/ described.driver = "bun"
                 /\ Length(literals[i]) > asked.max => literals[i].cut
            /\ answer.text.redacted = Cardinality(hidden)
            /\ answer.text.complete <=> \A i \in DOMAIN parameters : ~literals[i].cut
=============================================================================
