----------------------------- MODULE MCTemplate -----------------------------
(* Templates written unit by unit: each subject has a beginning, an        *)
(* alphabet and a length of its own, so that every directive and every     *)
(* kind of literal is met near every other and none with all at once.      *)
(* Beside them, in behaviours of their own, migration files are split: the *)
(* other reader of SQL text that goes by the lexical profile of a dialect. *)
EXTENDS Template

----------------------------------------------------------------------------
(* What a template means, said of its units and not of its nodes: what the  *)
(* parser, the captures and the renderer must make of it.                  *)
(* The scanner's state before each unit of a text. *)
Contexts(text, p) ==
    LET step(c, t) ==
            CASE c.escaped -> [c EXCEPT !.escaped = FALSE]
              [] ~c.escaped /\ c.state = "code" -> [c EXCEPT !.state = InCode(t, p), !.depth = 1]
              [] ~c.escaped /\ c.state = "line" /\ t = "n" -> [c EXCEPT !.state = "code"]
              [] ~c.escaped /\ c.state = "block" ->
                   [c EXCEPT !.depth = InBlock(t, @, p),
                             !.state = IF InBlock(t, c.depth, p) = 0 THEN "code" ELSE @]
              [] ~c.escaped /\ c.state = "single" /\ t \in {"q", "\\"} ->
                   IF t = "q" THEN [c EXCEPT !.state = "code"] ELSE [c EXCEPT !.escaped = p.backslash]
              [] ~c.escaped /\ c.state = "dollar" /\ t = "$$" -> [c EXCEPT !.state = "code"]
              [] OTHER -> c
        before[i \in 1..Len(text) + 1] ==
            IF i = 1 THEN [state |-> "code", depth |-> 1, escaped |-> FALSE]
            ELSE step(before[i - 1], text[i - 1])
    IN  [i \in DOMAIN text |-> before[i].state]

(* The units that are directives, and how deep each unit is in them. *)
Outline ==
    LET contexts == Contexts([i \in DOMAIN units |-> units[i].t], subject.profile)
        live == {i \in DOMAIN units : contexts[i] = "code"}
        opens == {i \in live : units[i].t \in {"if", "choose", "where", "set", "trim"}}
        ends == {i \in live : units[i].t = "end"}
    IN  [live |-> live, opens |-> opens, ends |-> ends,
         level |-> [i \in DOMAIN units |-> Cardinality({j \in opens : j < i})
                                          - Cardinality({j \in ends : j < i})]]

Encloses(o, j, i) == j \in o.opens /\ j < i /\ \A k \in j + 1..i : o.level[k] > o.level[j]
Within(o, j, k) == Encloses(o, j, k) /\ o.level[k] = o.level[j] + 1
EndOf(o, j) == CHOOSE k \in o.ends : Within(o, j, k)
Branches(o, j) == {b \in o.live : units[b].t \in {"when", "otherwise"} /\ Within(o, j, b)}
Holds(i) == thunks[units[i].hole] # "no"
Reached(o, j, b) == \A c \in Branches(o, j) : c < b => ~Holds(c)
Active(o, i) ==
    \A j \in o.opens : Encloses(o, j, i) =>
        /\ units[j].t = "if" => Holds(j)
        /\ units[j].t = "choose" =>
             \E b \in Branches(o, j) :
                /\ b <= i /\ \A c \in Branches(o, j) : c <= i => c <= b
                /\ Reached(o, j, b) /\ (units[b].t = "when" => Holds(b))

(* The holes a rendering reads: binds of active text, and conditions up to *)
(* the one that decides.                                                   *)
Needed(o) ==
    {units[i].hole : i \in {k \in o.live : units[k].t \in {"hole", "if"} /\ Active(o, k)}}
    \cup {units[b].hole : b \in {k \in o.live : units[k].t = "when" /\
             \E j \in o.opens : k \in Branches(o, j) /\ Active(o, j) /\ Reached(o, j, k)}}

Binds == <<"$0", "$1", "$2", "$3", "$4", "$5", "$6", "$7", "$8">>
Bind(h) == Binds[h + 1]

FragmentMeaning(f) ==
    CASE f \in {"empty", "foreign"} -> <<>>
      [] f = "raw" -> <<"w">>
      [] f = "list" -> <<Bind(0), ",", Bind(0)>>
      [] f = "join" -> <<"w", "|", Bind(0), ",", Bind(0)>>
      [] f = "part" -> <<"and", "s", "w", "|", Bind(2), "|", ",">>

Significant(text, p) ==
    LET contexts == Contexts(text, p)
    IN  {i \in DOMAIN text : /\ contexts[i] \in {"code", "single", "dollar"}
                             /\ text[i] \notin Space \cup {"|"}
                             /\ contexts[i] = "code" => text[i] \notin {"--", "/*"}}

Without(text, is) ==
    LET kept == Ascending(DOMAIN text \ is, Len(text)) IN [i \in DOMAIN kept |-> text[kept[i]]]

(* The first word goes if it joins conditions, the last unit if it is a    *)
(* comma, and what is left gets the keyword unless nothing is.             *)
TrimMeaning(name, text, p) ==
    LET a == Attributes[name]
        sig == Significant(text, p)
        led == {i \in sig : /\ \A j \in sig : i <= j
                            /\ <<text[i]>> \in a.prefixOverrides
                            /\ i < Len(text) => ~IsWord(text[i + 1])}
        trailed == {i \in sig \ led : /\ \A j \in sig \ led : j <= i
                                      /\ <<text[i]>> \in a.suffixOverrides}
        body == Without(text, led \cup trailed)
    IN  IF sig # led \cup trailed THEN a.prefix \o body \o a.suffix
        ELSE IF name = "set" THEN <<"EMPTY">> ELSE body

RECURSIVE Meaning(_, _, _)
Meaning(o, from, to) ==
    LET u == units[from]
        hole == IF isFragment(thunks[u.hole]) THEN FragmentMeaning(thunks[u.hole]) ELSE <<Bind(u.hole)>>
        body == Meaning(o, from + 1, EndOf(o, from) - 1)
        apart(text) == <<"|">> \o text \o <<"|">>
    IN  IF from > to THEN <<>>
        ELSE IF from \in o.opens /\ u.t \in DOMAIN Attributes /\ Active(o, from)
        THEN apart(TrimMeaning(u.t, body, subject.profile)) \o Meaning(o, EndOf(o, from) + 1, to)
        ELSE (CASE ~Active(o, from) \/ (from \in o.live /\ u.t \in Directives) -> apart(<<>>)
                [] Active(o, from) /\ u.t = "hole" -> apart(hole)
                [] OTHER -> <<u.t>>)
             \o Meaning(o, from + 1, to)

(* Spaces count between words, in literals and in comments. *)
Normal(text, p) ==
    LET contexts == Contexts(text, p)
        word(i) == contexts[i] = "code" /\ (IsWord(text[i]) \/ text[i] \in Range(Binds))
        space(i) == contexts[i] = "code" /\ text[i] \in Space \cup {"|"}
        kept == Ascending({i \in DOMAIN text : ~space(i)}, Len(text))
        apart(i) == /\ i > 1 /\ kept[i] > kept[i - 1] + 1 /\ word(kept[i]) /\ word(kept[i - 1])
    IN  FlattenSeq([i \in DOMAIN kept |-> (IF apart(i) THEN <<"s">> ELSE <<>>) \o <<text[kept[i]]>>])

Flattened(r) ==
    FlattenSeq([i \in DOMAIN r.segments |->
        r.segments[i] \o (IF i \in DOMAIN r.parameters THEN <<Bind(r.parameters[i].hole)>> ELSE <<>>)])

Accepted == Parse.err = "none"
(* Truth is what a condition has; a hint, a foreign fragment, an output    *)
(* are refused for what they are and not for how they are rendered.        *)
Regular == \A h \in DOMAIN thunks : thunks[h] \notin {"hint", "foreign", "out"}

----------------------------------------------------------------------------
(* A rendering is the active text of the template, in its order, with a    *)
(* bind or a fragment where each active hole stands, no two words run      *)
(* together, and where, set and trim applied to what their body came to.   *)
(* A set that came to nothing is refused, and nothing else is.  (A profile *)
(* where a backslash is a character, and dollar quotes, are known to       *)
(* mislead the trimming, which does not look at the profile for them.)     *)
RendersActive ==
    stage = "rendered" /\ Regular /\ Accepted /\ (mode = "guarded" => subject.profile = DEFAULT_LEXICAL_PROFILE) =>
        LET meaning == Meaning(Outline, 1, Len(units))
        IN  IF "EMPTY" \in Range(meaning) THEN out.err = "BRAID_EMPTY_SET"
            ELSE IF out.err # "none" THEN out.err \in {"BRAID_BIND_LIMIT", "BRAID_STRUCTURE_LIMIT", "BRAID_DEPTH"}
            ELSE Normal(Flattened(out), subject.profile) = Normal(meaning, subject.profile)

(* The statement that leaves holds every bind where the scanner takes it   *)
(* for a bind: never in a literal, nor behind a comment mark whose line    *)
(* end the rendering dropped.                                              *)
BindsStayLive ==
    stage = "rendered" /\ out.err = "none" =>
        LET text == FlattenSeq([i \in DOMAIN out.segments |->
                        [j \in DOMAIN out.segments[i] |-> Lexeme(out.segments[i][j])]
                        \o (IF i \in DOMAIN out.parameters THEN <<Hole(1)>> ELSE <<>>)])
        IN  lexicalError(text, 1, subject.profile) = "none"

(* What evaluates along the branches evaluates the holes the rendering     *)
(* reads and no other, each once, in the order they are written.           *)
Evaluates(m) ==
    stage = "built" /\ mode = m /\ query.err = "none" /\ Accepted /\ Regular =>
        query.log = Ascending(Needed(Outline), HoleCount(units))

SameStatement ==
    stage = "rendered" /\ (mode = "guarded" => subject.profile = DEFAULT_LEXICAL_PROFILE) =>
        LET direct == IF Accepted THEN renderIr(Parse.nodes, thunks, subject.profile)
                      ELSE Refuse(NewRender, "refused")
        IN  /\ (out.err = "none") = (direct.err = "none")
            /\ out.err = "none" => /\ out.segments = direct.segments
                                  /\ out.parameters = direct.parameters

(* However a query is built, compiled, guarded or by the plain path for    *)
(* templates without directives, it renders as the called one would from   *)
(* its nodes, or fails as it would; and a compiled one evaluates just what *)
(* the rendering reads.                                                    *)
SameHoweverBuilt == Evaluates("lowered") /\ SameStatement

----------------------------------------------------------------------------
(* The subjects. *)
Plain == DEFAULT_LEXICAL_PROFILE
Flat == [nested |-> FALSE, backslash |-> FALSE, dollar |-> FALSE]
Nested == [nested |-> TRUE, backslash |-> FALSE, dollar |-> TRUE]

Subject(start, us, l, vs, p) ==
    [start |-> start, units |-> us, length |-> l, values |-> vs, profile |-> p, careless |-> FALSE]
If(h) == Directive("if", h)
Bare(t) == Directive(t, 0)

MCSubjects == {
    \* literals and comments around holes, and around a directive
    Subject(<<Lexeme("q")>>, {"w", "s", "q", "\\", "hole"}, 5, {"v", "raw"}, Plain),
    Subject(<<If(1)>>, {"w", "q", "/*", "*/", "\\", "hole", "end"}, 5, {"v"}, Flat),
    Subject(<<Lexeme("/*")>>, {"/*", "*/", "--", "n", "$$", "hole"}, 5, {"v"}, Nested),
    \* directives, also wrongly nested and without their conditions
    [Subject(<<>>, {"w", "hole", "if", "choose", "when", "otherwise", "end"}, 4, {"v", "no"}, Plain)
        EXCEPT !.careless = TRUE],
    Subject(<<Bare("choose"), Directive("when", 1)>>, {"w", "hole", "when", "otherwise", "end"}, 7,
            {"v", "no"}, Plain),
    \* what is trimmed
    Subject(<<Bare("where"), If(1)>>, {"s", "w", "and", "hole", "end"}, 7, {"v", "no"}, Plain),
    Subject(<<Bare("set"), If(1)>>, {",", "w", "hole", "end"}, 7, {"v", "no"}, Plain),
    Subject(<<Bare("trim")>>, {",", "and", "--", "n", "hole", "end"}, 5, {"v", "part"}, Plain),
    Subject(<<If(1), Bare("where"), Bare("choose"), Directive("when", 2)>>,
            {"and", "hole", "otherwise", "end"}, 9, {"v", "no"}, Plain),
    \* everything a hole may hold
    Subject(<<>>, {"w", "hole", "if", "end"}, 4, Values, Plain)}

----------------------------------------------------------------------------
(* Migration files of each dialect, made of statements whose literals,      *)
(* comments and bodies hold what would otherwise separate them, and of the  *)
(* mistakes that must be refused (packages/migrate/README.md:164-193).      *)
MigrationDialects == {"postgres", "mysql", "sqlite", "oracle", "mssql"}

(* What may stand inside a statement without ending it.                     *)
InnerOf(d) ==
    { <<"'", ";", "'">>,
      <<"'", "'", "'", ";", "'">>,
      <<"/*", "'", ";", "n", "/", "n", "GO", "n", "*/">>,
      <<"--", "'", ";", "n">> } \cup
    CASE d = "postgres" -> { <<"E", "'", "\\", "'", ";", "'">>,
                             <<"'", "\\", "'">>,
                             <<"$a$", ";", "'", "$$", "n", "$a$">>,
                             <<"/*", "/*", "*/", ";", "*/">> }
      [] d = "mysql" -> { <<"'", "\\", "'", ";", "'">>,
                          <<"bt", ";", "'", "bt">>,
                          <<"x", "--!", "x">>,
                          <<"#", ";", "DELIMITER", "n">> }
      [] d = "sqlite" -> { <<"[", ";", "'", "]">>,
                           <<"bt", ";", "bt">>,
                           <<"--!", "x", "r", ";", "n">> }
      [] d = "oracle" -> { <<"q[", "'", ";", "n", "/", "n", "]'">>,
                           <<"'", "\\", "'">> }
      [] d = "mssql" -> { <<"'", "n", "GO", "n", "'">>,
                          <<"[", "n", "GO", "n", "]">>,
                          <<"/*", "/*", "*/", "n", "GO", "n", "*/">> }

(* A statement is what a client command precedes, its text, and its end.    *)
Unit(before, text, end) == [before |-> before, text |-> text, end |-> end]

Routine == <<"CREATE", "OR", "REPLACE", "PROCEDURE", "x">>

(* The ways to write a statement around i.                                  *)
StatementsOf(d, i) ==
    CASE d = "postgres" ->
           { Unit(<<>>, <<"BEGIN">> \o i \o <<"x">>, <<";">>),
             Unit(<<>>, Routine \o <<"BEGIN", "ATOMIC", "CASE", "CASE", "END", "x">> \o i \o <<"END", ";", "x", ";", "END">>,
                     <<";">>),
             Unit(<<>>, <<"CREATE", "RULE", "x", "(", "(", "x", ")", ";">> \o i \o <<")">>, <<";", "n">>) }
      [] d = "mysql" ->
           { Unit(<<>>, <<"x">> \o i \o <<"x">>, <<";">>),
             Unit(<<>>, <<"/*", "!", "x", "*/">>, <<";", "n">>),
             Unit(<<"n", "DELIMITER", "//", "n">>, Routine \o <<"BEGIN", "x", ";">> \o i \o <<";", "END">>,
                     <<"//", "n", "DELIMITER", ";", "n">>) }
      [] d = "sqlite" ->
           { Unit(<<>>, <<"BEGIN">> \o i \o <<"x">>, <<";">>),
             Unit(<<>>, <<"CREATE", "TEMP", "TRIGGER", "x", "BEGIN", "CASE", "CASE", "END">> \o i
                           \o <<"END", ";", "x", ";", "END">>, <<";", "n">>) }
      [] d = "oracle" ->
           { Unit(<<>>, <<"x">> \o i \o <<"/", "x">>, <<";", "n">>),
             Unit(<<>>, <<"DECLARE", "x", ";", "BEGIN">> \o i \o <<"x", ";", "END", ";">>, <<"n", "/", "n">>),
             Unit(<<>>, Routine \o <<"BEGIN", "x", ";">> \o i \o <<"END", ";">>, <<"n", "/", "n">>) }
      [] d = "mssql" ->
           { Unit(<<>>, <<"x", ";">> \o i \o <<"x", "GO", ";">>, <<"n", "GO", "n">>),
             Unit(<<>>, Routine \o <<"BEGIN", "x", ";">> \o i \o <<"END">>, <<"r", "n", "GO", "--", "x", "n">>) }

(* What follows, to show that nothing of the first statement is kept.       *)
NextOf(d) == UNION {StatementsOf(d, i) : i \in {<<"CASE", "END">>}}

(* Comments belong to the statement behind them.                            *)
Leads == { <<>>, <<"/*", ";", "*/">>, <<"--", ";", "n">> }

FileText(s, lead) == s.before \o lead \o s.text

(* Without the end of its last statement, where that may be left out.       *)
MayEndOpen(d, s) == (d = "oracle" => s.end = <<";", "n">>) /\ (d = "mysql" => s.before = <<>>)

Meant(statements, transaction) == [refused |-> FALSE, statements |-> statements, transaction |-> transaction]
Mistaken == [refused |-> TRUE, statements |-> <<>>, transaction |-> TRUE]
File(d, text, meant) == [dialect |-> d, units |-> text, written |-> meant]

Pairs(d) ==
    LET firsts == UNION {StatementsOf(d, i) : i \in InnerOf(d)}
    IN  {File(d, FileText(a, lead) \o a.end \o FileText(b, other) \o (IF MayEndOpen(d, b) THEN <<>> ELSE b.end),
              Meant(<<lead \o a.text, other \o b.text>>, TRUE)) :
            a \in firsts, lead \in Leads, b \in NextOf(d), other \in Leads}

(* Directives, in front of one statement and of two.                        *)
Directed(d) ==
    LET s == CHOOSE s \in NextOf(d) : s.before = <<>> /\ MayEndOpen(d, s)
        two == s.text \o s.end \o s.text
        off == <<"--", "@off", "n">>
        none == <<"--", "@none", "n">>
    IN  {File(d, off \o two, Meant(<<off \o s.text, s.text>>, FALSE)),
         File(d, none \o off \o s.text, Meant(<<none \o off \o s.text>>, FALSE)),
         File(d, none \o two, IF d \in {"postgres", "sqlite"} THEN Mistaken ELSE Meant(<<none \o two>>, TRUE)),
         File(d, none \o <<"/*", ";", "*/">>, Meant(<<>>, TRUE)),
         File(d, <<"--", "x", "n", "/*", ";", "*/">>, Meant(<<>>, TRUE)),
         File(d, <<"--", "x", "n">> \o (IF d = "mssql" THEN <<"GO">> ELSE <<";", ";">>), Meant(<<>>, TRUE)),
         File(d, <<"--", "@bad", "n">> \o two, Mistaken),
         File(d, <<"--", "x", "@none", "n">> \o two, Mistaken),
         File(d, <<"--!", "@none", "n">> \o two, Mistaken),
         File(d, <<"#", "@none", "n">> \o two, Mistaken),
         File(d, <<"/*", "@none", "*/">> \o two, Mistaken),
         File(d, <<"x", "n">> \o off \o two, Mistaken)}

(* What is never closed.                                                    *)
Unclosed(d) ==
    LET closed == {i \in InnerOf(d) : i[1] \notin {"--", "--!", "#", "x", "E"}}
        short == {SubSeq(i, 1, Len(i) - 1) : i \in closed}
        bodies == {s \in NextOf(d) : s.text[1] \in {"CREATE", "DECLARE"}}
    IN  {File(d, first \o i, Mistaken) : i \in short, first \in {<<>>, <<"x">>}} \cup
        CASE d \in {"postgres", "sqlite"} -> {File(d, SubSeq(s.text, 1, Len(s.text) - 1) \o s.end, Mistaken) : s \in bodies}
          [] d = "mysql" -> {File(d, s.text \o <<";">>, Mistaken) : s \in bodies} \cup
                            {File(d, s.before \o s.text, Mistaken) : s \in bodies}
          [] d = "oracle" -> {File(d, s.text, Mistaken) : s \in bodies}
          [] OTHER -> {}

(* Commands of clients where they may not stand, or with what is unknown.   *)
Misplaced(d) ==
    CASE d = "mysql" -> {File(d, <<"x", "n", "DELIMITER", "//", "n">>, Mistaken),
                         File(d, <<"DELIMITER", "x", "n", "x">>, Mistaken),
                         File(d, <<"DELIMITER", "//", "--", "x", "n", "x", "//">>, Mistaken),
                         File(d, <<"CREATE", "DEFINER", "x", "FUNCTION", "x", ";">>, Mistaken)}
      [] d = "oracle" -> {File(d, <<"x", ";", "n", "/">>, Mistaken),
                          File(d, <<"BEGIN", "x", ";", "END", ";", "n", "/", "--", "x">>, Mistaken)}
      [] d = "mssql" -> {File(d, <<"x", "n", "GO", "x", "n", "x">>, Mistaken),
                         File(d, <<"x", "n", "GO", ";", "n", "x">>, Mistaken),
                         File(d, <<"x", "n", "GO", "/*", "x", "*/", "n", "x">>, Mistaken)}
      [] OTHER -> {}

MigrationFiles == UNION {Pairs(d) \cup Directed(d) \cup Unclosed(d) \cup Misplaced(d) : d \in MigrationDialects}

----------------------------------------------------------------------------
VARIABLES
    dialect, file, written, reading, split, transaction, at, start, delimiter, anySql, seen, pieces

migration ==
    <<dialect, file, written, reading, split, transaction, at, start, delimiter, anySql, seen, pieces>>

Sp == INSTANCE Split WITH Files <- MigrationFiles

NoTemplate ==
    /\ subject = "none" /\ units = <<>> /\ stage = "none" /\ mode = "none" /\ thunks = <<>>
    /\ query = NoQuery /\ out = NewRender

Quiet == NoTemplate /\ Sp!Quiet

ReadingInit == (TemplateInit /\ Sp!Quiet) \/ (NoTemplate /\ Sp!Init)
ReadingNext == (TemplateNext /\ UNCHANGED migration) \/ (Sp!Next /\ UNCHANGED template)

(* A migration file comes apart as its author wrote it (Split).            *)
SplitsAsWritten == Sp!SplitsAsWritten
=============================================================================
