----------------------------- MODULE Template -----------------------------
(***************************************************************************)
(* packages/template and the lowering of packages/compiler: a template is  *)
(* parsed into nodes, the program evaluates its interpolations in one of   *)
(* three ways, and the nodes are rendered to text and binds.               *)
(*                                                                         *)
(*   called    the tag is called: the program evaluates every hole         *)
(*   guarded   guarded(): thunks, evaluated along the selected branches    *)
(*   lowered   the compiler replaced the tag by capture() with the nodes   *)
(*             and statements that evaluate what the branches need         *)
(*                                                                         *)
(* SQL text has two readers: the scanner that finds interpolations and     *)
(* directives (lexical.ts) and the tokeniser that the where, set and trim  *)
(* directives work with (trim.ts).                                         *)
(*                                                                         *)
(* A template is a sequence of units.  A unit is a lexeme: a piece of a    *)
(* word, white space, a quote, a comment mark, a whole directive, or an    *)
(* interpolation.  "q" stands for each of the quotes that double to escape *)
(* themselves; "$$" for the delimiters that end at their next occurrence.  *)
(***************************************************************************)
EXTENDS Naturals, Sequences, SequencesExt, FiniteSets, Functions

CONSTANTS
    Subjects,           \* what is written: [start, units, length, values, profile, careless]
    ResultKind,         \* "rows", "command", "call" or "unknown"
    MaxBinds, MaxItems, MaxNesting  \* RenderLimits

VARIABLES
    subject,            \* which kind of template is being written
    units,              \* the template
    stage,              \* "written", "built" or "rendered"
    mode,               \* how the query is built
    thunks,             \* what each hole evaluates to
    query,              \* the query that was built
    out                 \* what it rendered to

template == <<subject, units, stage, mode, thunks, query, out>>

----------------------------------------------------------------------------
Space == {"s", "n"}
WordParts == {"w", "and", "WHERE", "SET"}
Directives == {"if", "choose", "when", "otherwise", "end", "where", "set", "trim"}

(* What a profile says of a dialect: whether block comments nest, a         *)
(* backslash escapes in a literal, and dollar quotes exist.                *)
Profile == [nested : BOOLEAN, backslash : BOOLEAN, dollar : BOOLEAN]
DEFAULT_LEXICAL_PROFILE == [nested |-> TRUE, backslash |-> TRUE, dollar |-> TRUE]

Lexeme(t) == [t |-> t, hole |-> 0]
Hole(h) == [t |-> "hole", hole |-> h]
Directive(t, h) == [t |-> t, hole |-> h]

(* The members of a set of positions, in order. *)
Ascending(positions, n) ==
    SelectSeq([i \in 1..n |-> i], LAMBDA i : i \in positions)

IsWord(t) == t \in WordParts

----------------------------------------------------------------------------
(* scanNext                                                                *)

Token(kind, start, end) == [err |-> "none", kind |-> kind, start |-> start, end |-> end]
Refused(code) == [err |-> code, kind |-> "none", start |-> 0, end |-> 0]

(* The state the scanner is in after a unit of text, and the units it took. *)
InCode(t, p) ==
    CASE t = "--" -> "line"
      [] t = "/*" -> "block"
      [] t = "q" -> "single"
      [] t = "$$" /\ p.dollar -> "dollar"
      [] OTHER -> "code"

InBlock(t, depth, p) ==
    CASE t = "/*" /\ p.nested -> depth + 1
      [] t = "*/" -> depth - 1
      [] t \in Directives /\ ~p.nested -> depth - 1
      [] OTHER -> depth

RECURSIVE scanFrom(_, _, _, _, _, _)
scanFrom(source, start, at, state, depth, p) ==
    LET u == source[at]
        follows(t) == at < Len(source) /\ source[at + 1].t = t
        goOn(n, s, d) == scanFrom(source, start, at + n, s, d, p)
    IN  CASE at > Len(source) ->
               IF state \in {"code", "line"} THEN Token("text", start, at)
               ELSE Refused("BRAID_SQL_LEX")
          [] at <= Len(source) /\ u.hole # 0 /\ state # "code" ->
               Refused("BRAID_HOLE_CONTEXT")
          [] at <= Len(source) /\ state = "code" /\ u.t \in Directives \cup {"hole"} ->
               IF at > start THEN Token("text", start, at)
               ELSE Token(IF u.t = "hole" THEN "hole" ELSE "directive", at, at + 1)
          [] at <= Len(source) /\ state = "code" /\ u.t \notin Directives \cup {"hole"} ->
               goOn(1, InCode(u.t, p), 1)
          [] at <= Len(source) /\ u.hole = 0 /\ state = "line" ->
               goOn(1, IF u.t = "n" THEN "code" ELSE "line", depth)
          [] at <= Len(source) /\ u.hole = 0 /\ state = "block" ->
               goOn(1, IF InBlock(u.t, depth, p) = 0 THEN "code" ELSE "block",
                    InBlock(u.t, depth, p))
          [] at <= Len(source) /\ u.hole = 0 /\ state = "single" ->
               IF u.t = "\\" /\ p.backslash
               THEN goOn(IF at = Len(source) \/ source[at + 1].hole # 0 THEN 1 ELSE 2, state, depth)
               ELSE IF u.t = "q" /\ follows("q") THEN goOn(2, state, depth)
               ELSE goOn(1, IF u.t = "q" THEN "code" ELSE state, depth)
          [] at <= Len(source) /\ u.hole = 0 /\ state = "dollar" ->
               goOn(1, IF u.t = "$$" THEN "code" ELSE state, depth)

scanNext(source, start, p) == scanFrom(source, start, start, "code", 1, p)

----------------------------------------------------------------------------
(* trimTokens                                                              *)

RECURSIVE blockEnd(_, _, _, _)
blockEnd(text, at, depth, p) ==
    IF at > Len(text) \/ depth = 0 THEN at
    ELSE blockEnd(text, at + 1, InBlock(text[at], depth, p), p)

(* In a literal a backslash always takes the next character with it. *)
RECURSIVE stringEnd(_, _)
stringEnd(text, at) ==
    IF at > Len(text) THEN Len(text) + 1
    ELSE IF text[at] = "\\" \/ (text[at] = "q" /\ at < Len(text) /\ text[at + 1] = "q")
         THEN stringEnd(text, at + 2)
         ELSE IF text[at] = "q" THEN at + 1 ELSE stringEnd(text, at + 1)

FirstFrom(text, at, Stops(_)) ==
    LET stops == {i \in at..Len(text) : Stops(text[i])}
    IN  IF stops = {} THEN Len(text) + 1 ELSE CHOOSE i \in stops : \A j \in stops : i <= j

tokenKind(t) ==
    CASE t \in {"--", "/*"} \cup Directives -> "comment"
      [] t = "q" -> "string"
      [] t \in {"(", ")", ","} -> "punctuation"
      [] IsWord(t) -> "identifier"
      [] OTHER -> "other"

tokenEnd(text, at, p) ==
    CASE text[at] = "--" -> FirstFrom(text, at, LAMBDA t : t = "n")
      [] text[at] = "/*" -> blockEnd(text, at + 1, 1, p)
      [] text[at] = "q" -> stringEnd(text, at + 1)
      [] IsWord(text[at]) -> FirstFrom(text, at, LAMBDA t : ~IsWord(t))
      [] OTHER -> at + 1

RECURSIVE tokensFrom(_, _, _, _)
tokensFrom(text, at, depth, p) ==
    IF at > Len(text) THEN <<>>
    ELSE IF text[at] \in Space THEN tokensFrom(text, at + 1, depth, p)
    ELSE LET end == tokenEnd(text, at, p)
             outer == IF text[at] = ")" /\ depth > 0 THEN depth - 1 ELSE depth
             inner == IF text[at] = "(" THEN outer + 1 ELSE outer
         IN  <<[kind |-> tokenKind(text[at]), text |-> SubSeq(text, at, end - 1),
                start |-> at, end |-> end, depth |-> outer]>>
             \o tokensFrom(text, end, inner, p)

trimTokens(text, p) == tokensFrom(text, 1, 0, p)

----------------------------------------------------------------------------
(* The surgery of where, set and trim on the text between two binds.       *)

trimSegmentStart(text) ==
    SubSeq(text, FirstFrom(text, 1, LAMBDA t : t \notin Space), Len(text))

RECURSIVE dropTrailingSpace(_)
dropTrailingSpace(text) ==
    IF text # <<>> /\ text[Len(text)] \in Space
    THEN dropTrailingSpace(SubSeq(text, 1, Len(text) - 1)) ELSE text

(* Mutant of trimSegmentEnd: the line break of a last comment goes too. *)
trimSegmentEndBare(text, p) == dropTrailingSpace(text)

endTrimmed(text, tokens) ==
    IF tokens # <<>> /\ tokens[Len(tokens)].text[1] = "--"
    THEN SubSeq(text, 1, IF tokens[Len(tokens)].end <= Len(text) THEN tokens[Len(tokens)].end ELSE Len(text))
    ELSE dropTrailingSpace(text)

(* The line break that ends a line comment stays. *)
trimSegmentEnd(text, p) == endTrimmed(text, trimTokens(text, p))

trimOuter(text, p) == trimSegmentStart(trimSegmentEnd(text, p))

hasSqlToken(text, p) == \E token \in Range(trimTokens(text, p)) : token.kind # "comment"

withoutFirst(text, overrides, tokens, code) ==
    LET first == tokens[CHOOSE i \in code : \A j \in code : i <= j]
    IN  IF code = {} \/ first.kind # "identifier" \/ first.text \notin overrides THEN text
        ELSE SubSeq(text, 1, first.start - 1)
             \o trimSegmentStart(SubSeq(text, first.end, Len(text)))

leadingOverrideRemoved(text, overrides, tokens) ==
    withoutFirst(text, overrides, tokens, {i \in DOMAIN tokens : tokens[i].kind # "comment"})

removeLeadingOverride(text, overrides, p) ==
    leadingOverrideRemoved(text, overrides, trimTokens(text, p))

withoutLast(text, overrides, tokens, outer) ==
    LET candidate == tokens[CHOOSE i \in outer : \A j \in outer : j <= i]
    IN  IF outer = {} \/ candidate.text \notin overrides THEN text
        ELSE SubSeq(text, 1, candidate.start - 1) \o SubSeq(text, candidate.end, Len(text))

lastTokenRemoved(text, overrides, tokens) == withoutLast(text, overrides, tokens, DOMAIN tokens)

(* Mutant of removeTrailingOverride: a comment counts as the last token. *)
removeLastToken(text, overrides, p) == lastTokenRemoved(text, overrides, trimTokens(text, p))

trailingOverrideRemoved(text, overrides, tokens) ==
    withoutLast(text, overrides, tokens,
                {i \in DOMAIN tokens : tokens[i].kind # "comment" /\ tokens[i].depth = 0})

removeTrailingOverride(text, overrides, p) ==
    trailingOverrideRemoved(text, overrides, trimTokens(text, p))

wrapped(body, a, p) == IF ~hasSqlToken(body, p) THEN body ELSE a.prefix \o body \o a.suffix

innerTrimmed(outer, a, p) ==
    IF outer = <<>> THEN <<>>
    ELSE wrapped(trimOuter(removeTrailingOverride(
                     removeLeadingOverride(outer, a.prefixOverrides, p), a.suffixOverrides, p), p), a, p)

applyTrim(text, a, p) == innerTrimmed(trimOuter(text, p), a, p)

(***************************************************************************)
(* Nodes.  Every node has the same fields; a kind uses those it needs.     *)
(***************************************************************************)
Node(kind) == [kind |-> kind, text |-> <<>>, hole |-> 0, children |-> <<>>,
               whens |-> <<>>, otherwise |-> <<>>, attributes |-> "none", fragment |-> "none"]
TextNode(text) == [Node("text") EXCEPT !.text = text]
BindNode(h) == [Node("bind") EXCEPT !.hole = h]
IfNode(h, children) == [Node("if") EXCEPT !.hole = h, !.children = children]
ChooseNode(whens, otherwise) ==
    [Node("choose") EXCEPT !.whens = whens, !.otherwise = otherwise]
TrimNode(name, children) == [Node("trim") EXCEPT !.attributes = name, !.children = children]
FragmentNode(f) == [Node("fragment") EXCEPT !.fragment = f]

(* What the directives trim; a trim directive is written with the last row. *)
Attributes == [
    where |-> [prefix |-> <<"WHERE", "s">>, prefixOverrides |-> {<<"and">>},
               suffix |-> <<>>, suffixOverrides |-> {}],
    set |-> [prefix |-> <<"SET", "s">>, prefixOverrides |-> {},
             suffix |-> <<>>, suffixOverrides |-> {<<",">>}],
    trim |-> [prefix |-> <<"(">>, prefixOverrides |-> {<<"and">>},
              suffix |-> <<")">>, suffixOverrides |-> {<<",">>}]]

(***************************************************************************)
(* Values.  A hole holds a value, falsy or not, a value with a type hint,  *)
(* an output of a routine, or a fragment, by name.                         *)
(***************************************************************************)
Fragments == {"empty", "raw", "list", "join", "part", "foreign"}
Values == {"v", "no", "hint", "out"} \cup Fragments
isFragment(v) == v \in Fragments

FragmentNodes(f) ==
    CASE f \in {"empty", "foreign"} -> <<>>
      [] f = "raw" -> <<[Node("raw") EXCEPT !.text = <<"w">>]>>
      [] f = "list" -> <<Node("list")>>
      [] f = "join" -> <<FragmentNode("raw"), FragmentNode("empty"), FragmentNode("list")>>
      [] f = "part" -> <<TextNode(<<"and", "s", "w">>), IfNode(1, <<BindNode(2)>>),
                         TextNode(<<",">>)>>
FragmentValues(f) == IF f = "part" THEN <<"v", "v">> ELSE <<>>

----------------------------------------------------------------------------
(* parseTemplate                                                           *)

NoStop == Lexeme("none")
Parsed(nodes, next, stop) == [err |-> "none", nodes |-> nodes, next |-> next, stop |-> stop]
Missing == "BRAID_STRUCTURE: missing end"
Failed(code) == [err |-> code, nodes |-> <<>>, next |-> 0, stop |-> NoStop]

RECURSIVE parseSequence(_, _, _, _, _, _), parseBranches(_, _, _, _, _, _)

(* The nodes from a cursor up to a directive that closes the sequence. *)
parseSequence(source, cursor, nodes, stops, depth, p) ==
    LET token == scanNext(source, cursor, p)
        u == source[token.start]
        child == parseSequence(source, token.end, <<>>, {"end"}, depth + 1, p)
        first == parseSequence(source, token.end, <<>>, {"when", "otherwise", "end"}, depth + 1, p)
        branches == parseBranches(source, first, first.stop, <<>>, depth, p)
        goOn(node, next) == parseSequence(source, next, Append(nodes, node), stops, depth, p)
        closed(r) == r.err = "none" /\ r.stop # NoStop
        failure(r) == Failed(IF r.err # "none" THEN r.err ELSE Missing)
    IN  IF depth > MaxNesting THEN Failed("BRAID_DEPTH")
        ELSE IF cursor > Len(source) THEN Parsed(nodes, cursor, NoStop)
        ELSE IF token.err # "none" THEN Failed(token.err)
        ELSE CASE token.kind = "text" ->
                    goOn(TextNode([i \in 1..token.end - token.start |->
                                   source[token.start + i - 1].t]), token.end)
               [] token.kind = "hole" -> goOn(BindNode(u.hole), token.end)
               [] token.kind = "directive" /\ u.t \in stops -> Parsed(nodes, token.end, u)
               [] token.kind = "directive" /\ u.t \notin stops /\ u.t \in {"end", "when", "otherwise"} ->
                    Failed("BRAID_STRUCTURE")
               [] token.kind = "directive" /\ u.t = "if" ->
                    IF u.hole = 0 THEN Failed("BRAID_CONDITION")
                    ELSE IF ~closed(child) THEN failure(child)
                    ELSE goOn(IfNode(u.hole, child.nodes), child.next)
               [] token.kind = "directive" /\ u.t \in {"where", "set", "trim"} ->
                    IF ~closed(child) THEN failure(child)
                    ELSE goOn(TrimNode(u.t, child.nodes), child.next)
               [] token.kind = "directive" /\ u.t = "choose" ->
                    IF ~closed(first) THEN failure(first)
                    ELSE IF \E i \in DOMAIN first.nodes :
                              first.nodes[i].kind # "text" \/ trimSegmentStart(first.nodes[i].text) # <<>>
                    THEN Failed("BRAID_STRUCTURE")
                    ELSE IF branches.err # "none" THEN Failed(branches.err)
                    ELSE goOn(branches.nodes[1], branches.next)

(* The branches of a choose, each ending where the next begins. *)
parseBranches(source, branch, stop, whens, depth, p) ==
    LET content == parseSequence(source, branch.next, <<>>, {"when", "otherwise", "end"}, depth + 1, p)
        last == parseSequence(source, branch.next, <<>>, {"end"}, depth + 1, p)
        taken == IF stop.t = "when" THEN content ELSE last
        when == [hole |-> stop.hole, children |-> content.nodes]
    IN  IF stop.t = "end" THEN Parsed(<<ChooseNode(whens, <<>>)>>, branch.next, stop)
        ELSE IF stop.t = "when" /\ stop.hole = 0 THEN Failed("BRAID_CONDITION")
        ELSE IF taken.err # "none" THEN taken
        ELSE IF taken.stop = NoStop THEN Failed(Missing)
        ELSE IF stop.t = "when"
             THEN parseBranches(source, content, content.stop, Append(whens, when), depth, p)
             ELSE Parsed(<<ChooseNode(whens, <<last.nodes>>)>>, last.next, last.stop)

parseTemplate(source, p) == parseSequence(source, 1, <<>>, {}, 0, p)

(* What capture() accepts of the nodes a compiled module holds. *)
RECURSIVE assertSourceTemplateIr(_, _, _)
assertSourceTemplateIr(nodes, holes, depth) ==
    /\ depth <= MaxNesting
    /\ \A i \in DOMAIN nodes :
         LET n == nodes[i]
         IN  /\ n.kind \in {"text", "bind", "if", "choose", "trim"}
             /\ n.kind \in {"bind", "if"} => n.hole \in 1..holes
             /\ n.kind \in {"if", "trim"} => assertSourceTemplateIr(n.children, holes, depth + 1)
             /\ \A j \in DOMAIN n.whens :
                  /\ n.whens[j].hole \in 1..holes
                  /\ assertSourceTemplateIr(n.whens[j].children, holes, depth + 1)
             /\ \A j \in DOMAIN n.otherwise :
                  assertSourceTemplateIr(n.otherwise[j], holes, depth + 1)

(* validateNativeTemplateParts: a template without directives is only read. *)
RECURSIVE lexicalError(_, _, _)
lexicalError(source, cursor, p) ==
    LET token == scanNext(source, cursor, p)
    IN  IF cursor > Len(source) THEN "none"
        ELSE IF token.err # "none" THEN token.err ELSE lexicalError(source, token.end, p)

----------------------------------------------------------------------------
(* renderIr.  A rendering stops at its first error.                        *)

NewRender == [err |-> "none", segments |-> << <<>> >>, parameters |-> <<>>, path |-> <<>>,
              names |-> {}, items |-> 0, depth |-> 0, after |-> FALSE]

Refuse(st, code) == [st EXCEPT !.err = code]
Ok(st) == st.err = "none"
LastOf(seq) == seq[Len(seq)]
EndsInWord(text) == text # <<>> /\ IsWord(LastOf(text))
Grow(segments, text) == [segments EXCEPT ![Len(segments)] = @ \o text]

(* Two words, or a bind and a word, are kept apart. *)
addText(st, text) ==
    LET segment == LastOf(st.segments)
        apart == IsWord(text[1]) /\ (EndsInWord(segment) \/ (segment = <<>> /\ st.after))
    IN  IF text = <<>> \/ ~Ok(st) THEN st
        ELSE [st EXCEPT !.segments = Grow(@, (IF apart THEN <<"s">> ELSE <<>>) \o text),
                        !.after = FALSE]

addStructural(st, count) ==
    IF Ok(st) /\ st.items + count > MaxItems THEN Refuse(st, "BRAID_STRUCTURE_LIMIT")
    ELSE [st EXCEPT !.items = @ + count]

(* A parameter is a hole, or 0 for a value of a list, and what it holds. *)
appendParameter(st, parameter) ==
    LET apart == EndsInWord(LastOf(st.segments)) \/ st.after
        output == parameter.value = "out"
    IN  IF ~Ok(st) THEN st
        ELSE IF Len(st.parameters) >= MaxBinds THEN Refuse(st, "BRAID_BIND_LIMIT")
        ELSE IF output /\ ResultKind \notin {"call", "rows"} THEN Refuse(st, "BRAID_CALL_ONLY")
        ELSE IF output /\ "name" \in st.names THEN Refuse(st, "BRAID_CALL_OUTPUT_NAME")
        ELSE [st EXCEPT !.segments = Append(Grow(@, IF apart THEN <<"s">> ELSE <<>>), <<>>),
                        !.parameters = Append(@, parameter),
                        !.names = IF output THEN @ \cup {"name"} ELSE @,
                        !.after = TRUE]

Parameter(hole, value) == [hole |-> hole, value |-> value]

RECURSIVE appendRendered(_, _, _)
appendRendered(st, segments, parameters) ==
    LET texted == addText(st, Head(segments))
    IN  IF parameters = <<>> THEN texted
        ELSE appendRendered(appendParameter(texted, Head(parameters)),
                            Tail(segments), Tail(parameters))

(* The ends of a trimmed body that holds binds; what is between stays. *)
applyTrimToSegments(segments, a, p) ==
    LET n == Len(segments)
        first == removeLeadingOverride(trimSegmentStart(segments[1]), a.prefixOverrides, p)
        last == removeTrailingOverride(trimSegmentEnd(segments[n], p), a.suffixOverrides, p)
    IN  IF n = 1 THEN <<applyTrim(segments[1], a, p)>>
        ELSE [segments EXCEPT ![1] = a.prefix \o trimSegmentStart(first),
                              ![n] = trimSegmentEnd(last, p) \o a.suffix]

(* sql.bind() is no condition; anything else is, by its truth. *)
assertDirectiveCondition(v) == IF v = "hint" THEN "refused" ELSE IF v \in {"no", "undefined"} THEN "no" ELSE "yes"

RECURSIVE renderNodes(_, _, _, _), renderNode(_, _, _, _), renderChoose(_, _, _, _, _)

renderNodes(nodes, captured, st, p) ==
    LET deeper == [st EXCEPT !.depth = @ + 1]
        each(s, n) == IF Ok(s) THEN renderNode(n, captured, s, p) ELSE s
    IN  IF deeper.depth > MaxNesting THEN Refuse(st, "BRAID_DEPTH")
        ELSE [FoldLeft(each, deeper, nodes) EXCEPT !.depth = st.depth]

renderFragment(f, st, p) ==
    IF f = "foreign" THEN Refuse(st, "BRAID_DIALECT")
    ELSE LET counted == addStructural(st, 1)
         IN  IF Ok(counted) THEN renderNodes(FragmentNodes(f), FragmentValues(f), counted, p)
             ELSE counted

renderChoose(node, index, captured, st, p) ==
    LET when == node.whens[index]
        truth == assertDirectiveCondition(captured[when.hole])
    IN  IF index > Len(node.whens)
        THEN IF node.otherwise = <<>> THEN st
             ELSE renderNodes(node.otherwise[1], captured,
                              [st EXCEPT !.path = Append(@, <<"otherwise", 0, 0>>)], p)
        ELSE CASE truth = "refused" -> Refuse(st, "BRAID_BIND_HINT_CONTEXT")
               [] truth = "yes" ->
                    renderNodes(when.children, captured,
                                [st EXCEPT !.path = Append(@, <<"when", index, when.hole>>)], p)
               [] truth = "no" -> renderChoose(node, index + 1, captured, st, p)

trimmedInto(st, name, nested, trimmed, p) ==
    LET back == [st EXCEPT !.items = nested.items, !.path = nested.path, !.names = nested.names]
    IN  IF ~Ok(nested) THEN Refuse(back, nested.err)
        ELSE IF name = "set" /\ nested.parameters = <<>> /\ ~hasSqlToken(trimmed[1], p)
        THEN Refuse(back, "BRAID_EMPTY_SET")
        ELSE appendRendered(back, trimmed, nested.parameters)

addTrimmed(st, name, nested, p) ==
    trimmedInto(st, name, nested, applyTrimToSegments(nested.segments, Attributes[name], p), p)

(* A trim renders into buffers of its own, then adds the result to the rest. *)
renderTrim(node, captured, st, p) ==
    LET own == [st EXCEPT !.parameters = <<>>, !.segments = << <<>> >>, !.after = FALSE]
    IN  addTrimmed(st, node.attributes, renderNodes(node.children, captured, own, p), p)

renderNode(node, captured, st, p) ==
    LET v == captured[node.hole]
        truth == assertDirectiveCondition(v)
        chosen(t) == [st EXCEPT !.path = Append(@, <<"if", node.hole, t>>)]
        counted == addStructural(st, IF node.kind = "list" THEN 2 ELSE 1)
    IN  CASE node.kind = "text" -> addText(st, node.text)
          [] node.kind = "bind" ->
               IF isFragment(v) THEN renderFragment(v, st, p)
               ELSE appendParameter(st, Parameter(node.hole, v))
          [] node.kind = "if" ->
               (CASE truth = "refused" -> Refuse(st, "BRAID_BIND_HINT_CONTEXT")
                  [] truth = "yes" -> renderNodes(node.children, captured, chosen(1), p)
                  [] truth = "no" -> chosen(0))
          [] node.kind = "choose" -> renderChoose(node, 1, captured, st, p)
          [] node.kind = "trim" -> renderTrim(node, captured, st, p)
          [] node.kind = "fragment" -> renderFragment(node.fragment, st, p)
          [] node.kind = "raw" -> addText(counted, node.text)
          [] node.kind = "list" ->
               appendParameter(addText(appendParameter(counted, Parameter(0, "v")), <<",", "s">>),
                               Parameter(0, "v"))

renderIr(nodes, captured, p) == renderNodes(nodes, captured, NewRender, p)

----------------------------------------------------------------------------
(* renderPlainTemplate: the strings of a template without directives are   *)
(* the segments; only the spaces that keep words apart are added.          *)

Holes(source) == {source[i].hole : i \in DOMAIN source} \ {0}

Strings(source) ==
    LET at == Ascending({i \in DOMAIN source : source[i].t = "hole"}, Len(source))
        from(i) == IF i = 1 THEN 1 ELSE at[i - 1] + 1
        to(i) == IF i > Len(at) THEN Len(source) ELSE at[i] - 1
    IN  [i \in 1..Len(at) + 1 |-> [j \in 1..to(i) - from(i) + 1 |-> source[from(i) + j - 1].t]]

RECURSIVE plainSegments(_, _, _)

(* Mutant of plainSegments: a bind next to a bind is forgotten. *)
plainSegmentsTouching(segments, index, after) ==
    LET next == segments[index + 1]
        word == next # <<>> /\ IsWord(next[1])
    IN  IF index = Len(segments) THEN segments
        ELSE plainSegments([segments EXCEPT
                              ![index] = IF EndsInWord(@) THEN Append(@, "s") ELSE @,
                              ![index + 1] = IF word THEN <<"s">> \o @ ELSE @],
                           index + 1, FALSE)

plainSegments(segments, index, after) ==
    LET next == segments[index + 1]
        word == next # <<>> /\ IsWord(next[1])
        apart == after \/ EndsInWord(segments[index])
    IN  IF index = Len(segments) THEN segments
        ELSE plainSegments([segments EXCEPT
                              ![index] = IF apart THEN Append(@, "s") ELSE @,
                              ![index + 1] = IF word THEN <<"s">> \o @ ELSE @],
                           index + 1, ~word /\ next = <<>>)

plainError(captured) ==
    CASE \E i \in DOMAIN captured : captured[i] = "out" /\ ResultKind \notin {"call", "rows"} ->
           "BRAID_CALL_ONLY"
      [] \E i, j \in DOMAIN captured : i # j /\ captured[i] = "out" /\ captured[j] = "out" ->
           "BRAID_CALL_OUTPUT_NAME"
      [] OTHER -> "none"

renderPlainTemplate(source, captured, p) ==
    LET err == IF lexicalError(source, 1, p) # "none" THEN lexicalError(source, 1, p)
               ELSE IF Len(captured) > MaxBinds THEN "BRAID_BIND_LIMIT"
               ELSE plainError(captured)
    IN  [NewRender EXCEPT !.err = err,
                          !.segments = plainSegments(Strings(source), 1, FALSE),
                          !.parameters = [i \in DOMAIN captured |-> Parameter(i, captured[i])]]

----------------------------------------------------------------------------
(* How the program evaluates the holes, and in which order.                *)

NewCapture(count) == [err |-> "none", values |-> [h \in 1..count |-> "undefined"], log |-> <<>>]
Everything(results) == [err |-> "none", values |-> results, log |-> [h \in DOMAIN results |-> h]]

(* A hole is evaluated once, whoever asks. *)
read(c, h, results) ==
    IF h \in Range(c.log) THEN c
    ELSE [c EXCEPT !.values[h] = results[h], !.log = Append(@, h)]

RECURSIVE captureActive(_, _, _)
captureActive(nodes, results, c) ==
    LET asked(d, h) == LET e == read(d, h, results)
                       IN  IF assertDirectiveCondition(e.values[h]) = "refused"
                           THEN [e EXCEPT !.err = "BRAID_BIND_HINT_CONTEXT"] ELSE e
        holds(d, h) == d.err = "none" /\ assertDirectiveCondition(d.values[h]) = "yes"
        ask(d, when) == IF d.err # "none" \/ d.done THEN d
                        ELSE LET e == asked(d, when.hole)
                             IN  IF holds(e, when.hole)
                                 THEN [captureActive(when.children, results, e) EXCEPT !.done = TRUE]
                                 ELSE e
        choose(d, n) ==
            LET e == FoldLeft(ask, [err |-> d.err, values |-> d.values, log |-> d.log, done |-> FALSE],
                              n.whens)
            IN  IF e.err # "none" \/ e.done \/ n.otherwise = <<>> THEN e
                ELSE captureActive(n.otherwise[1], results, e)
        node(d, n) ==
            CASE d.err # "none" \/ n.kind = "text" -> d
              [] d.err = "none" /\ n.kind = "bind" -> read(d, n.hole, results)
              [] d.err = "none" /\ n.kind = "if" ->
                   IF holds(asked(d, n.hole), n.hole)
                   THEN captureActive(n.children, results, asked(d, n.hole))
                   ELSE asked(d, n.hole)
              [] d.err = "none" /\ n.kind = "choose" -> choose(d, n)
              [] d.err = "none" /\ n.kind = "trim" -> captureActive(n.children, results, d)
    IN  FoldLeft(node, c, nodes)

(* The statements the compiler writes into the program, as they run. *)
RECURSIVE captureStatements(_, _, _), chooseStatement(_, _, _, _, _)

conditionExpression(c, h, results, Then(_), Else(_)) ==
    LET d == read(c, h, results)
        truth == assertDirectiveCondition(d.values[h])
    IN  CASE truth = "refused" -> [d EXCEPT !.err = "BRAID_BIND_HINT_CONTEXT"]
          [] truth = "yes" -> Then(d)
          [] truth = "no" -> Else(d)

(* Mutant of chooseStatement: an else is missing, so later conditions are  *)
(* asked after a branch was taken.                                         *)
chooseWithoutElse(whens, otherwise, index, results, c) ==
    IF index > Len(whens)
    THEN IF otherwise = <<>> THEN c ELSE captureStatements(otherwise[1], results, c)
    ELSE conditionExpression(c, whens[index].hole, results,
             LAMBDA d : chooseStatement(whens, otherwise, index + 1, results,
                                        captureStatements(whens[index].children, results, d)),
             LAMBDA d : chooseStatement(whens, otherwise, index + 1, results, d))

chooseStatement(whens, otherwise, index, results, c) ==
    IF index > Len(whens)
    THEN IF otherwise = <<>> THEN c ELSE captureStatements(otherwise[1], results, c)
    ELSE conditionExpression(c, whens[index].hole, results,
             LAMBDA d : captureStatements(whens[index].children, results, d),
             LAMBDA d : chooseStatement(whens, otherwise, index + 1, results, d))

captureStatements(nodes, results, c) ==
    LET node == Head(nodes)
        first == CASE node.kind = "text" -> c
                   [] node.kind = "bind" -> read(c, node.hole, results)
                   [] node.kind = "if" ->
                        conditionExpression(c, node.hole, results,
                            LAMBDA d : captureStatements(node.children, results, d), LAMBDA d : d)
                   [] node.kind = "choose" ->
                        chooseStatement(node.whens, node.otherwise, 1, results, c)
                   [] node.kind = "trim" -> captureStatements(node.children, results, c)
    IN  IF nodes = <<>> \/ c.err # "none" THEN c ELSE captureStatements(Tail(nodes), results, first)

(* Whether guarded() goes along the branches at all. *)
RECURSIVE hasGuard(_)
hasGuard(nodes) ==
    \E i \in DOMAIN nodes :
        \/ nodes[i].kind = "if"
        \/ /\ nodes[i].kind = "choose"
           /\ \/ \E j \in DOMAIN nodes[i].whens : hasGuard(nodes[i].whens[j].children)
              \/ \E j \in DOMAIN nodes[i].otherwise : hasGuard(nodes[i].otherwise[j])
        \/ nodes[i].kind = "trim" /\ hasGuard(nodes[i].children)

(* Whether the compiler replaces the tag. *)
RECURSIVE compilerHasGuard(_)
compilerHasGuard(nodes) ==
    \E i \in DOMAIN nodes :
        \/ nodes[i].kind \in {"if", "choose"}
        \/ nodes[i].kind = "trim" /\ compilerHasGuard(nodes[i].children)

----------------------------------------------------------------------------
(* createQuery                                                             *)

NoQuery == [err |-> "none", captured |-> <<>>, log |-> <<>>, structural |-> FALSE, compiled |-> FALSE]

createQuery(source, c, compiled, p) ==
    LET structural == \/ compiled
                      \/ \E i \in DOMAIN source : source[i].t \in Directives
                      \/ \E h \in DOMAIN c.values : isFragment(c.values[h])
        nodes == parseTemplate(source, p).nodes
        err == IF c.err # "none" THEN c.err
               ELSE IF compiled /\ ~assertSourceTemplateIr(nodes, Len(c.values), 0)
               THEN "BRAID_STRUCTURE"
               ELSE IF ~structural THEN lexicalError(source, 1, p) ELSE "none"
    IN  [err |-> err, captured |-> c.values, log |-> c.log,
         structural |-> structural, compiled |-> compiled]

HoleCount(source) == Cardinality(Holes(source))

called(source, results, p) == createQuery(source, Everything(results), FALSE, p)

(* guarded() reads the strings with the default profile, the tag with its own. *)
guarded(source, results, p) ==
    LET ir == parseTemplate(source, DEFAULT_LEXICAL_PROFILE)
    IN  IF ir.err # "none" THEN [NoQuery EXCEPT !.err = ir.err]
        ELSE IF ~hasGuard(ir.nodes) THEN called(source, results, p)
        ELSE createQuery(source, captureActive(ir.nodes, results, NewCapture(Len(results))), FALSE, p)

(* capture() hands the nodes over, except to sql.call, which parses again. *)
lowered(source, results, p) ==
    LET ir == parseTemplate(source, p)
    IN  createQuery(source, captureStatements(ir.nodes, results, NewCapture(Len(results))),
                    ResultKind # "call", p)

render(source, q, p) ==
    LET ir == parseTemplate(source, p)
    IN  IF ~q.structural THEN renderPlainTemplate(source, q.captured, p)
        ELSE IF ir.err # "none" THEN Refuse(NewRender, ir.err)
        ELSE renderIr(ir.nodes, q.captured, p)

----------------------------------------------------------------------------
TemplateInit ==
    /\ subject \in Subjects
    /\ units = subject.start /\ stage = "written" /\ mode = "none" /\ thunks = <<>>
    /\ query = NoQuery /\ out = NewRender

Parse == parseTemplate(units, subject.profile)
Unfinished == Parse.err \in {"BRAID_SQL_LEX", Missing}

(* The author writes on, unless what is there is already refused. *)
Growing == stage = "written" /\ Len(units) < subject.length /\ (Unfinished \/ Parse.err = "none")
Write(u) ==
    /\ units' = Append(units, u)
    /\ UNCHANGED <<subject, stage, mode, thunks, query, out>>

WriteText == Growing /\ \E t \in subject.units \ Directives : t # "hole" /\ Write(Lexeme(t))
WriteHole == Growing /\ "hole" \in subject.units /\ Write(Hole(HoleCount(units) + 1))
WriteDirective ==
    /\ Growing
    /\ \E t \in subject.units \cap Directives :
         \/ t \in {"if", "when"} /\ Write(Directive(t, HoleCount(units) + 1))
         \/ (t \notin {"if", "when"} \/ subject.careless) /\ Write(Directive(t, 0))

Written == stage = "written" /\ units # <<>> /\ ~Unfinished
Results == [1..HoleCount(units) -> subject.values]
Build(m, results, q) ==
    /\ stage' = "built" /\ mode' = m /\ thunks' = results /\ query' = q
    /\ UNCHANGED <<subject, units, out>>

Call ==
    Written /\ \E results \in Results :
        Build("called", results, called(units, results, subject.profile))
Guard ==
    Written /\ \E results \in Results :
        Build("guarded", results, guarded(units, results, subject.profile))
Lower ==
    /\ Written /\ Parse.err = "none" /\ compilerHasGuard(Parse.nodes)
    /\ \E results \in Results : Build("lowered", results, lowered(units, results, subject.profile))

Render ==
    /\ stage = "built"
    /\ stage' = "rendered"
    /\ out' = IF query.err # "none" THEN Refuse(NewRender, query.err)
              ELSE render(units, query, subject.profile)
    /\ UNCHANGED <<subject, units, mode, thunks, query>>

TemplateNext == WriteText \/ WriteHole \/ WriteDirective \/ Call \/ Guard \/ Lower \/ Render
=============================================================================
