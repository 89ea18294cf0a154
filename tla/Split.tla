------------------------------- MODULE Split -------------------------------
(***************************************************************************)
(* splitMigrationSql (packages/migrate/src/split.ts): a migration file is   *)
(* read once for the directives at its head and once for the statements it  *)
(* holds, by a scanner that knows of each dialect what may hide a           *)
(* separator: literals, comments, bodies of triggers and routines.          *)
(*                                                                         *)
(* A file is a sequence of units, one for each lexeme; white space between  *)
(* them is implied, save line breaks: "n", and "r" for a carriage return.   *)
(* "'" stands for both quotes, "bt" for a backtick, "--!" for two dashes    *)
(* with no blank behind them, "x" for a word that is no keyword, "mysql" for  *)
(* MariaDB too, whose profile is the same.  A step is a turn of the loop.   *)
(***************************************************************************)
EXTENDS Naturals, Sequences, FiniteSetsExt

CONSTANT Files      \* what may be written: [dialect, units, written]

VARIABLES
    dialect, file,
    written,            \* what the author meant: a refusal, or the statements
    reading,            \* "head", "scan", "done", "refused", or "none"
    split, transaction, \* what the directives say
    at, start,          \* the next unit, and the first one of the statement
    delimiter, anySql,
    seen,               \* what the scanner knows of the statement so far
    pieces              \* the statements

vars == <<dialect, file, written, reading, split, transaction, at, start, delimiter, anySql, seen, pieces>>

Breaks == {"n", "r"}
DirectiveTokens == {"@none", "@off", "@bad"}
WordUnits ==
    {"CREATE", "OR", "REPLACE", "TEMP", "TRIGGER", "FUNCTION", "PROCEDURE", "RULE", "DEFINER", "BEGIN",
     "ATOMIC", "CASE", "END", "DECLARE", "E", "GO", "DELIMITER", "x"}

Fresh ==
    [significant |-> FALSE, words |-> <<>>, trigger |-> FALSE, triggerBody |-> FALSE, triggerBlocks |-> 0,
     plsql |-> FALSE, routine |-> FALSE, atomicBegin |-> FALSE, atomicDepth |-> 0, rule |-> FALSE, ruleDepth |-> 0]

Init ==
    /\ \E f \in Files : dialect = f.dialect /\ file = f.units /\ written = f.written
    /\ reading = "head" /\ split = TRUE /\ transaction = TRUE /\ at = 1 /\ start = 1
    /\ delimiter = ";" /\ anySql = FALSE /\ seen = Fresh /\ pieces = <<>>

Quiet ==
    /\ dialect = "none" /\ file = <<>> /\ written = <<>> /\ reading = "none" /\ split = TRUE
    /\ transaction = TRUE /\ at = 1 /\ start = 1 /\ delimiter = ";" /\ anySql = FALSE
    /\ seen = Fresh /\ pieces = <<>>

Is(u) == at <= Len(file) /\ file[at] = u
Follows(u) == at < Len(file) /\ file[at + 1] = u
From(i, units) == {j \in i..Len(file) : file[j] \in units}
FirstOr(positions, otherwise) == IF positions = {} THEN otherwise ELSE Min(positions)

Refuse == reading' = "refused" /\ UNCHANGED <<split, transaction, at, start, delimiter, anySql, seen, pieces>>
-----------------------------------------------------------------------------
(* What the dialects' lexical profiles say.                                 *)

LineComment ==
    \/ Is("--")
    \/ Is("--!") /\ dialect # "mysql"
    \/ Is("#") /\ dialect = "mysql"

commentEnd == FirstOr(From(at, IF dialect = "sqlite" THEN {"n"} ELSE Breaks), Len(file) + 1)

Versioned == dialect = "mysql" /\ Is("/*") /\ Follows("!")

Nested == dialect \in {"postgres", "mssql"}

(* Behind the mark that closes the comment, or 0 if none does.              *)
blockEnd ==
    LET marks(u, j) == Cardinality({i \in From(at, {u}) : i <= j})
        closing == {j \in From(at, {"*/"}) : ~Nested \/ marks("*/", j) = marks("/*", j)}
    IN  IF closing = {} THEN 0 ELSE Min(closing) + 1

(* Behind the next of a mark that nothing escapes, or 0.                    *)
markEnd(mark) == IF From(at + 1, {mark}) = {} THEN 0 ELSE Min(From(at + 1, {mark})) + 1

Escapes ==
    \/ dialect = "mysql"
    \/ dialect = "postgres" /\ Is("'") /\ at > 1 /\ file[at - 1] = "E"

RECURSIVE closeOf(_, _, _)
closeOf(i, close, escaped) ==
    LET taken == IF (escaped /\ file[i] = "\\") \/ (file[i] = close /\ i < Len(file) /\ file[i + 1] = close)
                 THEN 2 ELSE 1
    IN  IF i > Len(file) THEN 0
        ELSE IF taken = 1 /\ file[i] = close THEN i + 1
        ELSE closeOf(i + taken, close, escaped)

(* Behind the literal that begins here, or 0 if it is never closed.         *)
literalEnd ==
    CASE Is("q[") -> markEnd("]'")
      [] Is("$$") \/ Is("$a$") -> markEnd(file[at])
      [] OTHER -> closeOf(at + 1, IF Is("[") THEN "]" ELSE file[at], Escapes)

Literal ==
    \/ Is("'")
    \/ Is("q[") /\ dialect = "oracle"
    \/ (Is("$$") \/ Is("$a$")) /\ dialect = "postgres"
    \/ Is("bt") /\ dialect \in {"mysql", "sqlite"}
    \/ Is("[") /\ dialect \in {"sqlite", "mssql"}
-----------------------------------------------------------------------------
(* directives: the comments before the first SQL.                           *)

Comment == SubSeq(file, at, commentEnd - 1)
Speaks(i, j) == \E d \in DirectiveTokens : \E k \in i..j : file[k] = d

MoveTo(i) == at' = i /\ UNCHANGED <<split, transaction, start, delimiter, anySql, seen, pieces, reading>>

Blank == Is("n") \/ Is("r")

HeadComment ==
    /\ LineComment
    /\ IF ~Speaks(at, commentEnd - 1) THEN MoveTo(commentEnd)
       ELSE IF Comment \notin {<<"--", "@none">>, <<"--", "@off">>} THEN Refuse
       ELSE /\ split' = (split /\ Comment[2] # "@none")
            /\ transaction' = (transaction /\ Comment[2] # "@off")
            /\ at' = commentEnd
            /\ UNCHANGED <<start, delimiter, anySql, seen, pieces, reading>>

HeadBlock ==
    /\ Is("/*") /\ ~Versioned
    /\ IF blockEnd = 0 \/ Speaks(at, blockEnd - 1) THEN Refuse ELSE MoveTo(blockEnd)

Trim(text) ==
    LET inner == {i \in DOMAIN text : text[i] \notin Breaks}
    IN  IF inner = {} THEN <<>> ELSE SubSeq(text, Min(inner), Max(inner))

(* splitMigrationSql: a whole file is still scanned where drivers take one  *)
(* statement only.                                                         *)
OneStatement == dialect \in {"sqlite", "postgres"}

HeadEnds(sql) ==
    IF split \/ (sql /\ OneStatement)
    THEN reading' = "scan" /\ at' = 1 /\ UNCHANGED <<split, transaction, start, delimiter, anySql, seen, pieces>>
    ELSE /\ reading' = "done" /\ pieces' = IF sql THEN <<Trim(file)>> ELSE <<>>
         /\ UNCHANGED <<split, transaction, at, start, delimiter, anySql, seen>>

(* Dashes or a number sign that are no comment here are refused too.        *)
HeadSql ==
    /\ at <= Len(file) /\ ~Blank /\ ~LineComment /\ (Is("/*") => Versioned)
    /\ IF (Is("--!") \/ Is("#")) /\ \E d \in DirectiveTokens : Follows(d) THEN Refuse ELSE HeadEnds(TRUE)

ReadHead ==
    /\ reading = "head"
    /\ \/ Blank /\ MoveTo(at + 1)
       \/ HeadComment
       \/ HeadBlock
       \/ HeadSql
       \/ at > Len(file) /\ HeadEnds(FALSE)
-----------------------------------------------------------------------------
(* scan.  emit ends a statement, if there is one.                           *)

emit(end, next) ==
    /\ pieces' = IF seen.significant THEN Append(pieces, Trim(SubSeq(file, start, end - 1))) ELSE pieces
    /\ start' = next /\ at' = next /\ seen' = Fresh

(* The commands of clients, each alone on its line.                         *)
lineEnd == FirstOr(From(at, Breaks), Len(file) + 1)
Line == SubSeq(file, at, lineEnd - 1)
nextLine == IF lineEnd < Len(file) /\ file[lineEnd] = "r" /\ file[lineEnd + 1] = "n" THEN lineEnd + 2 ELSE lineEnd + 1

AtLineStart == at <= Len(file) /\ (IF at = 1 THEN "n" ELSE file[at - 1]) \in Breaks

DelimiterLine == dialect = "mysql" /\ AtLineStart /\ Is("DELIMITER")
GoLine == dialect = "mssql" /\ AtLineStart /\ Is("GO")
SlashLine == dialect = "oracle" /\ AtLineStart /\ Is("/") /\ (Len(Line) = 1 \/ seen.plsql)
SeparatorLine == DelimiterLine \/ GoLine \/ SlashLine

SetDelimiter ==
    /\ DelimiterLine
    /\ IF Len(Line) # 2 \/ Line[2] \notin {";", "//"} \/ seen.significant THEN Refuse
       ELSE /\ delimiter' = Line[2]
            /\ start' = nextLine /\ at' = nextLine
            /\ UNCHANGED <<split, transaction, anySql, seen, pieces, reading>>

EndsBatch ==
    /\ GoLine \/ SlashLine
    /\ IF \/ GoLine /\ Len(Line) > 1 /\ Line[2] # "--"
          \/ SlashLine /\ (Len(Line) > 1 \/ ~seen.plsql)
       THEN Refuse
       ELSE emit(at, nextLine) /\ UNCHANGED <<split, transaction, delimiter, anySql, reading>>

SkipComment ==
    /\ LineComment
    /\ IF anySql /\ ~Is("#") /\ \E d \in DirectiveTokens : Follows(d) THEN Refuse ELSE MoveTo(commentEnd)

SkipBlock ==
    /\ Is("/*")
    /\ IF blockEnd = 0 THEN Refuse
       ELSE /\ at' = blockEnd
            /\ seen' = [seen EXCEPT !.significant = @ \/ Versioned]
            /\ UNCHANGED <<split, transaction, start, delimiter, anySql, pieces, reading>>

(* Mutant of Enclosed: the body of a trigger does not count. *)
EnclosedLess == seen.plsql \/ seen.atomicDepth > 0 \/ seen.ruleDepth > 0

Enclosed == seen.plsql \/ seen.triggerBlocks > 0 \/ seen.atomicDepth > 0 \/ seen.ruleDepth > 0

AtDelimiter == dialect # "mssql" /\ Is(delimiter) /\ ~Enclosed

(* The first words, modifiers between CREATE and what is created included.  *)
Creates(words, modifiers, kinds) ==
    \E m \in modifiers :
        /\ Len(words) > Len(m) + 1
        /\ SubSeq(words, 1, Len(m) + 1) = <<"CREATE">> \o m
        /\ words[Len(m) + 2] \in kinds

Orders == {<<>>, <<"OR", "REPLACE">>}

NeedsDelimiter ==
    \/ Creates(seen.words, Orders, {"PROCEDURE", "FUNCTION", "TRIGGER"})
    \/ /\ Creates(seen.words, Orders, {"DEFINER"})
       /\ \E i \in DOMAIN seen.words : seen.words[i] \in {"PROCEDURE", "FUNCTION", "TRIGGER"}

EndsStatement ==
    /\ AtDelimiter
    /\ IF dialect = "mysql" /\ delimiter = ";" /\ NeedsDelimiter THEN Refuse
       ELSE emit(at, at + 1) /\ UNCHANGED <<split, transaction, delimiter, anySql, reading>>

Token == [seen EXCEPT !.significant = TRUE, !.atomicBegin = FALSE]

SkipLiteral ==
    /\ Literal /\ ~AtDelimiter
    /\ IF literalEnd = 0 THEN Refuse
       ELSE /\ at' = literalEnd /\ seen' = Token /\ anySql' = TRUE
            /\ UNCHANGED <<split, transaction, start, delimiter, pieces, reading>>

Count(depth, word, opens, closes) ==
    IF word \in opens THEN depth + 1 ELSE IF word \in closes /\ depth > 0 THEN depth - 1 ELSE depth

afterWord(word) ==
    LET words == IF Len(seen.words) < 24 THEN Append(seen.words, word) ELSE seen.words
        trigger == seen.trigger \/ (dialect = "sqlite" /\ Creates(words, {<<>>, <<"TEMP">>}, {"TRIGGER"}))
        routine == seen.routine \/ (dialect = "postgres" /\ Creates(words, Orders, {"FUNCTION", "PROCEDURE"}))
        atomic == seen.atomicDepth > 0 \/ (seen.atomicBegin /\ word = "ATOMIC")
    IN  [Token EXCEPT
            !.words = words, !.trigger = trigger, !.routine = routine,
            !.rule = @ \/ (dialect = "postgres" /\ Creates(words, Orders, {"RULE"})),
            !.plsql = @ \/ (dialect = "oracle" /\ (\/ words[1] \in {"BEGIN", "DECLARE"}
                                                   \/ Creates(words, Orders, {"PROCEDURE", "FUNCTION", "TRIGGER"}))),
            !.atomicBegin = routine /\ word = "BEGIN",
            !.atomicDepth = IF ~routine \/ ~atomic THEN @
                            ELSE Count(@, word, {"CASE"} \cup (IF seen.atomicBegin THEN {"ATOMIC"} ELSE {}), {"END"}),
            !.triggerBody = @ \/ (trigger /\ word = "BEGIN"),
            !.triggerBlocks = IF ~trigger THEN @
                              ELSE IF seen.triggerBody THEN Count(@, word, {"CASE"}, {"END"})
                              ELSE Count(@, word, {"BEGIN"}, {})]

ReadWord ==
    /\ at <= Len(file) /\ file[at] \in WordUnits
    /\ at' = at + 1 /\ anySql' = TRUE /\ seen' = afterWord(file[at])
    /\ UNCHANGED <<split, transaction, start, delimiter, pieces, reading>>

Plain ==
    /\ at <= Len(file) /\ file[at] \notin WordUnits \cup Breaks \cup {"/*"}
    /\ ~LineComment /\ ~Literal /\ ~AtDelimiter

ReadOther ==
    /\ Plain
    /\ at' = at + 1 /\ anySql' = TRUE
    /\ seen' = [Token EXCEPT !.ruleDepth = IF seen.rule THEN Count(@, file[at], {"("}, {")"}) ELSE @]
    /\ UNCHANGED <<split, transaction, start, delimiter, pieces, reading>>

Unfinished ==
    \/ seen.triggerBlocks > 0 \/ seen.atomicDepth > 0 \/ seen.ruleDepth > 0
    \/ seen.significant /\ (seen.plsql \/ (dialect = "mysql" /\ delimiter # ";"))

Last == IF seen.significant THEN Append(pieces, Trim(SubSeq(file, start, Len(file)))) ELSE pieces

Finish ==
    /\ at > Len(file)
    /\ IF Unfinished \/ (~split /\ Len(Last) > 1) THEN Refuse
       ELSE /\ reading' = "done"
            /\ pieces' = IF split THEN Last ELSE <<Trim(file)>>
            /\ UNCHANGED <<split, transaction, at, start, delimiter, anySql, seen>>

Scan ==
    /\ reading = "scan"
    /\ \/ SetDelimiter
       \/ EndsBatch
       \/ /\ ~SeparatorLine
          /\ \/ Blank /\ MoveTo(at + 1)
             \/ SkipComment
             \/ SkipBlock
             \/ EndsStatement
             \/ SkipLiteral
             \/ ReadWord
             \/ ReadOther
       \/ Finish

Next == (ReadHead \/ Scan) /\ UNCHANGED <<dialect, file, written>>
-----------------------------------------------------------------------------
(* A file that its dialect's documented separators divide comes apart just  *)
(* there: each statement whole, with the comments before it, whatever its   *)
(* literals, comments and bodies hold and whatever statement came before.   *)
(* What cannot be divided, or says a directive wrongly, is refused before   *)
(* anything of it runs, and never sent in pieces.                          *)
SplitsAsWritten ==
    /\ reading = "done" => /\ ~written.refused
                           /\ pieces = written.statements
                           /\ transaction = written.transaction
    /\ reading = "refused" => written.refused
=============================================================================
