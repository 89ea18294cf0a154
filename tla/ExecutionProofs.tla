--------------------------- MODULE ExecutionProofs ---------------------------
(***************************************************************************)
(* What is proved of three of the machines of MCExecution: the literal texts*)
(* of a description, the options of transactions, and an operation with its *)
(* observers.  The executors are in DriverProofs.                          *)
(***************************************************************************)
EXTENDS MCExecution, SequenceTheorems, TLAPS

\* Literal texts

Anew(i, o) == Li!literalized(described.driver, described.rows[i], o)

(* What was kept, or answered, is what describing the item anew would give. *)
LiteralInv ==
    /\ ~described.bulk /\ described.driver # Li!None => 1 \in DOMAIN described.rows
    /\ \A o \in Li!LiteralOptions :
         Li!Kept(o) /\ Li!cacheKey(o) \in DOMAIN cache => cache[Li!cacheKey(o)] = Anew(1, o)
    /\ default # <<>> => default = <<Anew(1, Li!NoOptions)>>
    /\ asks \in Nat
    /\ asks > 0 =>
         /\ answer.item \in DOMAIN described.rows
         /\ answer.options \in Li!LiteralOptions
         /\ answer.text = Anew(answer.item, answer.options)

LEMMA NoOptionsTyped == Li!NoOptions \in Li!LiteralOptions
BY DEF Li!NoOptions, Li!LiteralOptions, Li!None, Li!NoLimit

LEMMA KeyTells ==
    ASSUME NEW o \in Li!LiteralOptions, NEW p \in Li!LiteralOptions,
           Li!Kept(o), Li!Kept(p), Li!cacheKey(o) = Li!cacheKey(p)
    PROVE  o = p
BY DEF Li!LiteralOptions, Li!Kept, Li!cacheKey

LEMMA LiteralStep ==
    ASSUME LiteralInv, Li!Next
    PROVE  LiteralInv'
<1>1. CASE Li!AskPlainly
  <2>1. /\ ~described.bulk /\ described' = described /\ cache' = cache /\ asks' = asks + 1
        /\ default' = <<Anew(1, Li!NoOptions)>>
        /\ answer' = [item |-> 1, options |-> Li!NoOptions, text |-> Anew(1, Li!NoOptions)]
        /\ described.driver # Li!None
    BY <1>1 DEF Li!AskPlainly, Li!MayAsk, Li!Answered, LiteralInv, Anew
  <2> QED BY <2>1, NoOptionsTyped DEF LiteralInv, Anew
<1>2. ASSUME NEW o \in Li!LiteralOptions, Li!Ask(o)
      PROVE  LiteralInv'
  <2> DEFINE key == Li!cacheKey(o)
             text == IF Li!Kept(o) /\ key \in DOMAIN cache THEN cache[key] ELSE Anew(1, o)
  <2>1. /\ ~described.bulk /\ described' = described /\ default' = default /\ asks' = asks + 1
        /\ cache' = IF Li!Kept(o)
                      THEN [k \in DOMAIN cache \union {key} |-> IF k = key THEN text ELSE cache[k]] ELSE cache
        /\ answer' = [item |-> 1, options |-> o, text |-> text]
        /\ described.driver # Li!None
    BY <1>2 DEF Li!Ask, Li!MayAsk, Li!Answered, Anew
  <2>2. text = Anew(1, o) BY <1>2 DEF LiteralInv
  <2> HIDE DEF text
  <2>3. ASSUME NEW p \in Li!LiteralOptions, Li!Kept(p), Li!cacheKey(p) \in DOMAIN cache'
        PROVE  cache'[Li!cacheKey(p)] = Anew(1, p)
    <3>1. CASE Li!Kept(o) /\ Li!cacheKey(p) = key
      <4>1. p = o BY <1>2, <2>3, <3>1, KeyTells
      <4>2. cache'[key] = text BY <2>1, <3>1
      <4> QED BY <2>2, <4>1, <4>2
    <3>2. CASE ~(Li!Kept(o) /\ Li!cacheKey(p) = key)
      <4> DEFINE q == Li!cacheKey(p)
      <4> HIDE DEF q, key
      <4>1. q \in DOMAIN cache /\ cache'[q] = cache[q] BY <2>1, <2>3, <3>2 DEF q
      <4> QED BY <2>3, <4>1 DEF q, LiteralInv
    <3> QED BY <3>1, <3>2
  <2>4. 1 \in DOMAIN described.rows BY <2>1 DEF LiteralInv
  <2>5. \A i, p : Anew(i, p)' = Anew(i, p) BY <2>1 DEF Anew
  <2>6. /\ answer'.item \in DOMAIN described'.rows /\ answer'.options \in Li!LiteralOptions
        /\ (answer.text = Anew(answer.item, answer.options))'
    <3>1. answer'.item = 1 /\ answer'.options = o /\ answer'.text = Anew(1, o) BY <2>1, <2>2
    <3> QED BY <2>1, <2>4, <3>1 DEF Anew
  <2>7. default' # <<>> => default' = <<Anew(1, Li!NoOptions)'>>
    BY <2>1, <2>5 DEF LiteralInv
  <2>8. asks' \in Nat /\ asks \in Nat BY <2>1 DEF LiteralInv
  <2>9. /\ ~described'.bulk /\ described'.driver # Li!None => 1 \in DOMAIN described'.rows
        /\ \A p \in Li!LiteralOptions :
             Li!Kept(p) /\ Li!cacheKey(p) \in DOMAIN cache' => cache'[Li!cacheKey(p)] = Anew(1, p)'
    BY <2>1, <2>3, <2>4, <2>5
  <2> QED BY <2>6, <2>7, <2>8, <2>9 DEF LiteralInv
<1>3. ASSUME NEW o \in Li!LiteralOptions, NEW i \in DOMAIN described.rows, Li!AskItem(i, o)
      PROVE  LiteralInv'
  <2>1. /\ described.bulk /\ described' = described /\ cache' = cache /\ default' = default
        /\ asks' = asks + 1 /\ answer' = [item |-> i, options |-> o, text |-> Anew(i, o)]
    BY <1>3 DEF Li!AskItem, Li!Answered, Anew
  <2> QED BY <1>3, <2>1 DEF LiteralInv, Anew
<1> QED BY <1>1, <1>2, <1>3 DEF Li!Next

LEMMA LiteralInit ==
    ASSUME Li!Init \/ Li!Quiet
    PROVE  LiteralInv
BY DEF Li!Init, Li!Quiet, LiteralInv, Li!None

(* One literal. *)
LEMMA LiteralTells ==
    ASSUME NEW driver, NEW parameter, NEW i, NEW o \in Li!LiteralOptions
    PROVE  LET shown == Li!Literal(driver, parameter, i, o)
               hidden == o.values # "inline" \/ i \in o.redact IN
           /\ shown.form = "redacted" <=> hidden
           /\ ~hidden => shown.of = parameter.value
           /\ shown.form = "full" => o.binary = "full" \/ driver = "bun"
           /\ Li!Length(shown) > o.max => shown.cut
BY DEF Li!Literal, Li!formatLiteral, Li!tediousLiteralValue, Li!oracleLiteralValue, Li!bunLiteral,
  Li!genericLiteral, Li!Form, Li!If, Li!Bytes, Li!Length

LEMMA LiteralShown == LiteralInv => LiteralAsAsked
<1> SUFFICES ASSUME LiteralInv, asks > 0 PROVE LiteralAsAsked BY DEF LiteralAsAsked, Li!LiteralAsAsked
<1> DEFINE o == answer.options
           driver == described.driver
           parameters == described.rows[answer.item]
           literals_ == answer.text.literals
           hidden == {i \in DOMAIN parameters : o.values # "inline" \/ i \in o.redact}
<1>1. /\ o \in Li!LiteralOptions /\ answer.text = Li!literalized(driver, parameters, o)
  BY DEF LiteralInv, Anew
<1>a. Li!literalized(driver, parameters, o) =
        LET shown == [i \in DOMAIN parameters |-> Li!Literal(driver, parameters[i], i, o)]
        IN  [literals |-> shown,
             redacted |-> Li!Cardinality({i \in DOMAIN shown : shown[i].form = "redacted"}),
             complete |-> \A i \in DOMAIN shown : ~shown[i].cut]
  BY Zenon DEF Li!literalized
<1>2. /\ literals_ = [i \in DOMAIN parameters |-> Li!Literal(driver, parameters[i], i, o)]
      /\ answer.text.redacted = Li!Cardinality({i \in DOMAIN literals_ : literals_[i].form = "redacted"})
      /\ answer.text.complete = (\A i \in DOMAIN literals_ : ~literals_[i].cut)
  <2> HIDE DEF o, driver, parameters
  <2> DEFINE shown == [i \in DOMAIN parameters |-> Li!Literal(driver, parameters[i], i, o)]
             count == Li!Cardinality({i \in DOMAIN shown : shown[i].form = "redacted"})
             whole == \A i \in DOMAIN shown : ~shown[i].cut
  <2>1. answer.text = [literals |-> shown, redacted |-> count, complete |-> whole] BY <1>1, <1>a
  <2> HIDE DEF shown, count, whole
  <2>2. literals_ = shown /\ answer.text.redacted = count BY <2>1
  <2>3. answer.text.complete = whole BY <2>1
  <2> QED BY <2>2, <2>3 DEF shown, count, whole
<1> HIDE DEF o, driver, parameters, literals_
<1>3. ASSUME NEW i \in DOMAIN parameters
      PROVE  /\ literals_[i].form = "redacted" <=> i \in hidden
             /\ i \notin hidden => literals_[i].of = parameters[i].value
             /\ literals_[i].form = "full" => o.binary = "full" \/ driver = "bun"
             /\ Li!Length(literals_[i]) > o.max => literals_[i].cut
  BY <1>1, <1>2, LiteralTells
<1>4. {i \in DOMAIN literals_ : literals_[i].form = "redacted"} = hidden BY <1>2, <1>3
<1>5. DOMAIN literals_ = DOMAIN parameters BY <1>2
<1>6. /\ answer.text.redacted = Li!Cardinality(hidden)
      /\ answer.text.complete <=> \A i \in DOMAIN parameters : ~literals_[i].cut
  BY <1>2, <1>4, <1>5
<1> HIDE DEF hidden
<1>7. \A i \in DOMAIN parameters :
        /\ literals_[i].form = "redacted" <=> i \in hidden
        /\ i \notin hidden => literals_[i].of = parameters[i].value
        /\ literals_[i].form = "full" => o.binary = "full" \/ driver = "bun"
        /\ Li!Length(literals_[i]) > o.max => literals_[i].cut
  BY <1>3
<1> QED BY <1>6, <1>7 DEF hidden, LiteralAsAsked, Li!LiteralAsAsked, o, driver, parameters, literals_
-----------------------------------------------------------------------------
(* Transactions with options. *)

(* What the statements that are left make of the connection. *)
Left(c, todo) ==
    IF todo = <<>> THEN c
    ELSE IF Len(todo) = 1 THEN To!Applied(c, todo[1])
    ELSE To!Applied(To!Applied(c, todo[1]), todo[2])

Sqlite == To!SqliteDrivers \cup {"bun-sqlite"}

(* The options a transaction runs under are those it was opts. *)
RunsUnder(opts, c) ==
    /\ c.running.access = opts.access
    /\ \/ c.running.isolation = opts.isolation
       \/ opts.isolation = "unset" /\ target.driver = "mssql"
       \/ opts.isolation = "serializable" /\ target.driver \in Sqlite

Sends == [verb : {"set", "start"}, options : To!TransactionOption]
State == [level : To!TransactionOption, next : To!TransactionOption, running : To!TransactionOption]
Clean(c) ==
    /\ c.level.access = "unset" /\ (target.driver # "mssql" => c.level = To!Plain)
    /\ c.next = To!Plain

OptionsInv ==
    /\ target.driver \in To!OptionDrivers \cup {"none"}
    /\ target.driver = "none" => phase = "lost"
    /\ asked \in To!TransactionOption
    /\ connection \in State /\ statements \in Seq(Sends) /\ Len(statements) <= 2
    /\ ~lateRefusal
    /\ phase \in {"idle", "beginning", "open", "lost"}
    /\ phase # "beginning" => Clean(connection) /\ statements = <<>>
    /\ phase = "beginning" =>
         LET c == Left(connection, statements) IN
         /\ Clean(c)
         /\ target.driver = "oracle" /\ asked = To!Plain => statements = <<>>
         /\ ~(target.driver = "oracle" /\ asked = To!Plain) => RunsUnder(asked, c)
    /\ phase = "open" => RunsUnder(asked, connection)
    /\ lone = To!Plain \/ (target.driver = "mssql" /\ lone.access = "unset")

(* What is put together of options are options. *)
LEMMA BothTyped ==
    ASSUME NEW o \in To!TransactionOption, NEW p \in To!TransactionOption
    PROVE  /\ To!OrBoth(o, p) \in To!TransactionOption
           /\ To!OrBoth(o, p).isolation = IF o.isolation = "unset" THEN p.isolation ELSE o.isolation
           /\ To!OrBoth(o, p).access = IF o.access = "unset" THEN p.access ELSE o.access
BY DEF To!OrBoth, To!Or, To!TransactionOption, To!Unset

LEMMA PlainTyped ==
    /\ To!Plain \in To!TransactionOption
    /\ To!Plain.isolation = "unset" /\ To!Plain.access = "unset"
    /\ \A o \in To!TransactionOption : o.isolation = "unset" /\ o.access = "unset" => o = To!Plain
BY DEF To!Plain, To!TransactionOption, To!Unset

LEMMA AppliedTyped ==
    ASSUME NEW c \in State, NEW s \in Sends
    PROVE  /\ To!Applied(c, s) \in State
           /\ s.verb = "set" => /\ To!Applied(c, s).level = c.level
                                /\ To!Applied(c, s).next = To!OrBoth(s.options, c.next)
           /\ s.verb = "start" =>
                /\ To!Applied(c, s).level = IF target.driver = "mssql" THEN To!OrBoth(s.options, c.level) ELSE c.level
                /\ To!Applied(c, s).next = To!Plain
                /\ To!Applied(c, s).running = To!OrBoth(s.options, To!OrBoth(c.next, c.level))
<1>1. s.options \in To!TransactionOption /\ s.verb \in {"set", "start"} BY DEF Sends
<1>2. /\ c.level \in To!TransactionOption /\ c.next \in To!TransactionOption /\ c.running \in To!TransactionOption
      /\ c = [level |-> c.level, next |-> c.next, running |-> c.running]
  BY DEF State
<1>3. /\ To!OrBoth(s.options, c.level) \in To!TransactionOption /\ To!OrBoth(s.options, c.next) \in To!TransactionOption
      /\ To!OrBoth(s.options, To!OrBoth(c.next, c.level)) \in To!TransactionOption
  BY <1>1, <1>2, BothTyped
<1> QED BY <1>1, <1>2, <1>3, PlainTyped DEF To!Applied, To!Began, State

LEMMA CleanNow ==
    ASSUME NEW c \in State, Clean(c)
    PROVE  /\ To!OrBoth(c.next, c.level) = c.level
           /\ c.level \in To!TransactionOption
<1>1. c.level \in To!TransactionOption /\ c.next \in To!TransactionOption BY DEF State
<1>2. c.next.isolation = "unset" /\ c.next.access = "unset" BY PlainTyped DEF Clean
<1> QED BY <1>1, <1>2 DEF To!OrBoth, To!Or, To!Unset, To!TransactionOption

(* A begin in one statement. *)
LEMMA StartLeaves ==
    ASSUME NEW c \in State, Clean(c), NEW o \in To!TransactionOption,
           target.driver = "mssql" => o.access = "unset"
    PROVE  LET d == Left(c, <<To!Start(o)>>) IN
           /\ <<To!Start(o)>> \in Seq(Sends) /\ Len(<<To!Start(o)>>) = 1
           /\ Clean(d)
           /\ d.running.access = o.access
           /\ target.driver # "mssql" \/ o.isolation # "unset" => d.running.isolation = o.isolation
<1> DEFINE s == To!Start(o)
<1>1. s \in Sends /\ s.verb = "start" /\ s.options = o BY DEF To!Start, Sends
<1>2. Left(c, <<s>>) = To!Applied(c, s) BY DEF Left
<1>3. /\ To!Applied(c, s).level = IF target.driver = "mssql" THEN To!OrBoth(o, c.level) ELSE c.level
      /\ To!Applied(c, s).next = To!Plain
      /\ To!Applied(c, s).running = To!OrBoth(o, c.level)
  BY <1>1, AppliedTyped, CleanNow
<1>4. <<s>> \in Seq(Sends) /\ Len(<<s>>) = 1 BY <1>1
<1> HIDE DEF s
<1>5. Clean(To!Applied(c, s)) BY <1>3, BothTyped, CleanNow DEF Clean
<1>6. /\ To!OrBoth(o, c.level).access = o.access
      /\ target.driver # "mssql" \/ o.isolation # "unset" => To!OrBoth(o, c.level).isolation = o.isolation
  BY BothTyped, CleanNow, PlainTyped DEF Clean
<1> QED BY <1>2, <1>3, <1>4, <1>5, <1>6 DEF s

(* A begin in two. *)
LEMMA SetAndStartLeave ==
    ASSUME NEW c \in State, Clean(c), NEW o \in To!TransactionOption, NEW p \in To!TransactionOption,
           target.driver # "mssql"
    PROVE  LET todo == <<To!Set(o), To!Start(p)>>
               d == Left(c, todo)
           IN  /\ todo \in Seq(Sends) /\ Len(todo) = 2
               /\ Clean(d)
               /\ d.running = To!OrBoth(p, o)
<1> DEFINE s == To!Set(o)
           t == To!Start(p)
           c1 == To!Applied(c, s)
<1>1. /\ s \in Sends /\ s.verb = "set" /\ s.options = o
      /\ t \in Sends /\ t.verb = "start" /\ t.options = p
  BY DEF To!Start, To!Set, Sends
<1>2. Left(c, <<s, t>>) = To!Applied(c1, t) BY DEF Left
<1>3. <<s, t>> \in Seq(Sends) /\ Len(<<s, t>>) = 2 BY <1>1
<1> HIDE DEF s, t
<1>4. c1 \in State /\ c1.level = c.level /\ c1.next = To!OrBoth(o, c.next) BY <1>1, AppliedTyped
<1> HIDE DEF c1
<1>5. /\ To!Applied(c1, t).level = c.level /\ To!Applied(c1, t).next = To!Plain
      /\ To!Applied(c1, t).running = To!OrBoth(p, To!OrBoth(c1.next, c1.level))
  BY <1>1, <1>4, AppliedTyped
<1>6. Clean(To!Applied(c1, t)) BY <1>5 DEF Clean
<1>7. c.next = To!Plain /\ c.level = To!Plain BY DEF Clean
<1>8. To!OrBoth(To!OrBoth(o, To!Plain), To!Plain) = o
  BY DEF To!OrBoth, To!Or, To!TransactionOption, To!Plain, To!Unset
<1> QED BY <1>2, <1>3, <1>4, <1>5, <1>6, <1>7, <1>8 DEF s, t

LEMMA TwoJoined ==
    ASSUME NEW a, NEW b
    PROVE  <<a>> \o <<b>> = <<a, b>>
<1>1. <<a>> \in Seq({a, b}) /\ <<b>> \in Seq({a, b}) /\ <<a, b>> \in Seq({a, b})
  OBVIOUS
<1>2. <<a>> \o <<b>> \in Seq({a, b}) /\ Len(<<a>> \o <<b>>) = 2
  BY <1>1, ConcatProperties
<1>3. (<<a>> \o <<b>>)[1] = a /\ (<<a>> \o <<b>>)[2] = b
  BY <1>1, ConcatProperties
<1> DEFINE joined == <<a>> \o <<b>>
<1> HIDE DEF joined
<1>4. joined \in Seq({a, b}) /\ Len(joined) = 2 /\ joined[1] = a /\ joined[2] = b
  BY <1>2, <1>3 DEF joined
<1>5. \A i \in 1 .. Len(joined) : joined[i] = <<a, b>>[i] BY <1>4
<1>6. Len(joined) = Len(<<a, b>>) BY <1>4
<1>7. joined = <<a, b>> BY <1>1, <1>4, <1>5, <1>6, SeqEqual
<1> QED BY <1>7 DEF joined

(* These statements begin a transaction with options. *)
Begins(o, c, todo) ==
    /\ todo \in Seq(Sends) /\ Len(todo) <= 2
    /\ Clean(Left(c, todo))
    /\ target.driver = "oracle" /\ o = To!Plain => todo = <<>>
    /\ ~(target.driver = "oracle" /\ o = To!Plain) => RunsUnder(o, Left(c, todo))

(* What a driver was let through to begin, it begins; and what it sends for  *)
(* it leaves the connection with these options and with no others.          *)
LEMMA BeginLeaves ==
    ASSUME target.driver \in To!OptionDrivers, NEW c \in State, Clean(c), NEW o \in To!TransactionOption,
           To!Supported(target.driver, o)
    PROVE  To!BeginAccepts(target.driver, o) /\ Begins(o, c, To!BeginStatements(target.driver, o))
<1> DEFINE driver == target.driver
<1> USE DEF To!Unset
<1>0. CASE driver \in To!PgDrivers
  <2>1. To!BeginAccepts(driver, o) /\ To!BeginStatements(driver, o) = <<To!Start(o)>> /\ driver \notin {"mssql", "oracle"}
    BY <1>0 DEF To!BeginAccepts, To!BeginStatements, To!PgDrivers, To!SqliteDrivers
  <2> QED BY <2>1, StartLeaves DEF RunsUnder, Begins
<1>1. CASE driver \in {"libsql-file", "libsql-remote"}
  <2>1. To!BeginAccepts(driver, o) /\ To!BeginStatements(driver, o) = <<To!Start(o)>> /\ driver \notin {"mssql", "oracle"}
    BY <1>1 DEF To!BeginAccepts, To!Supported, To!BeginStatements, To!PgDrivers, To!SqliteDrivers
  <2> QED BY <2>1, StartLeaves DEF RunsUnder, Begins
<1>2. CASE driver = "mssql"
  <2>1. To!BeginAccepts(driver, o) /\ To!BeginStatements(driver, o) = <<To!Start(o)>> /\ o.access = "unset"
    BY <1>2 DEF To!BeginAccepts, To!Supported, To!Validates, To!BeginStatements, To!PgDrivers, To!SqliteDrivers
  <2> DEFINE d == Left(c, <<To!Start(o)>>)
  <2>2. /\ <<To!Start(o)>> \in Seq(Sends) /\ Len(<<To!Start(o)>>) = 1 /\ Clean(d)
        /\ d.running.access = o.access /\ (o.isolation # "unset" => d.running.isolation = o.isolation)
    BY <1>2, <2>1, StartLeaves
  <2> HIDE DEF d
  <2>3. RunsUnder(o, d) BY <1>2, <2>2 DEF RunsUnder
  <2>4. Begins(o, c, <<To!Start(o)>>) BY <1>2, <2>2, <2>3 DEF Begins, d
  <2> QED BY <2>1, <2>4
<1>3. CASE driver = "oracle"
  <2>1. To!BeginAccepts(driver, o) /\ To!BeginStatements(driver, o) = IF o = To!Plain THEN <<>> ELSE <<To!Start(o)>>
    BY <1>3 DEF To!BeginAccepts, To!Supported, To!BeginStatements, To!PgDrivers, To!SqliteDrivers, To!MysqlDrivers
  <2>2. CASE o = To!Plain
    <3>1. To!BeginStatements(driver, o) = <<>> BY <2>1, <2>2
    <3>2. Left(c, <<>>) = c /\ <<>> \in Seq(Sends) /\ Len(<<>>) <= 2 BY DEF Left
    <3> QED BY <1>3, <2>1, <2>2, <3>1, <3>2 DEF Begins
  <2>3. CASE o # To!Plain
    <3>1. To!BeginStatements(driver, o) = <<To!Start(o)>> BY <2>1, <2>3
    <3> DEFINE d == Left(c, <<To!Start(o)>>)
    <3>2. /\ <<To!Start(o)>> \in Seq(Sends) /\ Len(<<To!Start(o)>>) = 1 /\ Clean(d)
          /\ d.running.access = o.access /\ d.running.isolation = o.isolation
      BY <1>3, StartLeaves
    <3> HIDE DEF d
    <3>3. RunsUnder(o, d) BY <3>2 DEF RunsUnder
    <3>4. Begins(o, c, <<To!Start(o)>>) BY <2>3, <3>2, <3>3 DEF Begins, d
    <3> QED BY <2>1, <3>1, <3>4
  <2> QED BY <2>2, <2>3
<1>4. CASE driver \in Sqlite
  <2>1. To!BeginStatements(driver, o) = <<To!Start(To!Plain)>> /\ driver \notin {"mssql", "oracle"}
    BY <1>4 DEF To!BeginStatements, Sqlite, To!PgDrivers, To!SqliteDrivers
  <2>2. o.isolation \in {"unset", "serializable"} /\ o.access = "unset"
    BY <1>4 DEF To!Supported, To!Capable, Sqlite, To!PgDrivers, To!SqliteDrivers, To!MysqlDrivers
  <2>3. To!BeginAccepts(driver, o)
    BY <1>4, <2>2 DEF To!BeginAccepts, Sqlite, To!PgDrivers, To!SqliteDrivers, To!MysqlDrivers
  <2> QED BY <1>4, <2>1, <2>2, <2>3, StartLeaves, PlainTyped DEF RunsUnder, Begins
<1>5. CASE driver \in {"mysql2", "bun-mysql"}
  <2> DEFINE set == [o EXCEPT !.access = "unset"]
             start == [o EXCEPT !.isolation = "unset"]
  <2>1. driver # "mssql" /\ driver # "oracle"
        /\ To!BeginStatements(driver, o) = (IF o.isolation = "unset" THEN <<>> ELSE <<To!Set(set)>>) \o <<To!Start(start)>>
    BY <1>5 DEF To!BeginStatements, To!PgDrivers, To!SqliteDrivers, To!MysqlDrivers
  <2>2. To!BeginAccepts(driver, o)
    BY <1>5 DEF To!BeginAccepts, To!Supported, To!Capable, To!PgDrivers, To!SqliteDrivers, To!MysqlDrivers
  <2>3. /\ set \in To!TransactionOption /\ set.isolation = o.isolation /\ set.access = "unset"
        /\ start \in To!TransactionOption /\ start.isolation = "unset" /\ start.access = o.access
    BY DEF To!TransactionOption
  <2> HIDE DEF set, start
  <2>4. CASE o.isolation = "unset"
    <3>1. To!BeginStatements(driver, o) = <<To!Start(start)>> BY <2>1, <2>4
    <3> QED BY <2>1, <2>2, <2>3, <2>4, <3>1, StartLeaves DEF RunsUnder, Begins
  <2>5. CASE o.isolation # "unset"
    <3>1. To!BeginStatements(driver, o) = <<To!Set(set), To!Start(start)>> BY <2>1, <2>5, TwoJoined
    <3>2. To!OrBoth(start, set).isolation = o.isolation /\ To!OrBoth(start, set).access = o.access
      BY <2>3, BothTyped
    <3> DEFINE todo == <<To!Set(set), To!Start(start)>>
               d == Left(c, todo)
    <3>3. todo \in Seq(Sends) /\ Len(todo) = 2 /\ Clean(d) /\ d.running = To!OrBoth(start, set)
      BY <2>1, <2>3, SetAndStartLeave
    <3> HIDE DEF d, todo
    <3>4. RunsUnder(o, d) BY <3>2, <3>3 DEF RunsUnder
    <3>5. Begins(o, c, todo) BY <2>1, <3>3, <3>4 DEF Begins, d
    <3> QED BY <2>2, <3>1, <3>5 DEF todo
  <2> QED BY <2>4, <2>5
<1>6. CASE driver = "mariadb"
  <2>1. /\ To!BeginAccepts(driver, o)
        /\ To!BeginStatements(driver, o) = (IF o = To!Plain THEN <<>> ELSE <<To!Set(o)>>) \o <<To!Start(To!Plain)>>
    BY <1>6 DEF To!BeginAccepts, To!BeginStatements, To!PgDrivers, To!SqliteDrivers, To!MysqlDrivers
  <2>2. CASE o = To!Plain
    <3>1. To!BeginStatements(driver, o) = <<To!Start(To!Plain)>> BY <2>1, <2>2
    <3> DEFINE todo == <<To!Start(To!Plain)>>
               d == Left(c, todo)
    <3>2. todo \in Seq(Sends) /\ Len(todo) = 1 /\ Clean(d)
          /\ d.running.access = "unset" /\ d.running.isolation = "unset"
      BY <1>6, StartLeaves, PlainTyped
    <3> HIDE DEF d, todo
    <3>3. RunsUnder(o, d) BY <2>2, <3>2, PlainTyped DEF RunsUnder
    <3>4. Begins(o, c, todo) BY <1>6, <3>2, <3>3 DEF Begins, d
    <3> QED BY <2>1, <3>1, <3>4 DEF todo
  <2>3. CASE o # To!Plain
    <3>1. To!BeginStatements(driver, o) = <<To!Set(o), To!Start(To!Plain)>> BY <2>1, <2>3, TwoJoined
    <3>2. To!OrBoth(To!Plain, o).isolation = o.isolation /\ To!OrBoth(To!Plain, o).access = o.access
      BY BothTyped, PlainTyped
    <3> QED BY <1>6, <2>1, <3>1, <3>2, SetAndStartLeave, PlainTyped DEF RunsUnder, Begins
  <2> QED BY <2>2, <2>3
<1> QED BY <1>0, <1>1, <1>2, <1>3, <1>4, <1>5, <1>6 DEF To!OptionDrivers, Sqlite, To!MysqlDrivers

LEMMA OptionsInit ==
    ASSUME To!Init \/ To!Quiet
    PROVE  OptionsInv
<1>1. /\ target.driver \in To!OptionDrivers \cup {"none"}
      /\ target.driver = "none" => phase = "lost"
      /\ asked = To!Plain /\ connection = To!Fresh /\ statements = <<>> /\ ~lateRefusal
      /\ phase \in {"idle", "lost"} /\ lone = To!Plain
  BY DEF To!Init, To!Quiet, To!OptionDrivers, To!SqliteDrivers, To!PgDrivers, To!MysqlDrivers
<1>2. To!Fresh \in State /\ Clean(To!Fresh)
  BY PlainTyped DEF To!Fresh, State, Clean
<1>3. statements \in Seq(Sends) /\ Len(statements) <= 2 BY <1>1
<1> QED BY <1>1, <1>2, <1>3, PlainTyped DEF OptionsInv

LEMMA OptionsStep ==
    ASSUME OptionsInv, To!Next
    PROVE  OptionsInv'
<1> USE DEF To!Unset
<1>1. ASSUME NEW o \in To!TransactionOption, To!Tx(o)
      PROVE  OptionsInv'
  <2>1. /\ target.driver \in To!OptionDrivers /\ connection \in State /\ Clean(connection)
        /\ To!Supported(target.driver, o)
    BY <1>1 DEF OptionsInv, To!Tx
  <2>2. To!BeginAccepts(target.driver, o) /\ Begins(o, connection, To!BeginStatements(target.driver, o))
    BY <2>1, BeginLeaves
  <2>3. /\ asked' = o /\ phase' = "beginning" /\ statements' = To!BeginStatements(target.driver, o)
        /\ UNCHANGED <<target, connection, lone, lateRefusal>>
    BY <1>1, <2>2 DEF To!Tx
  <2>4. Begins(o, connection, statements') BY <2>2, <2>3
  <2> DEFINE c == Left(connection, statements)
  <2>5. c' = Left(connection, statements') BY <2>3 DEF Left, To!Applied
  <2>6. /\ statements' \in Seq(Sends) /\ Len(statements') <= 2
        /\ Clean(c') /\ (target.driver = "oracle" /\ o = To!Plain => statements' = <<>>)
        /\ ~(target.driver = "oracle" /\ o = To!Plain) => RunsUnder(o, c')
    BY <2>4, <2>5 DEF Begins
  <2> HIDE DEF c
  <2>7. Clean(c)' /\ (RunsUnder(o, c') => RunsUnder(o, c)') BY <2>3, <2>6 DEF Clean, RunsUnder
  <2>8. /\ Clean(c)' /\ (target'.driver = "oracle" /\ asked' = To!Plain => statements' = <<>>)
        /\ ~(target'.driver = "oracle" /\ asked' = To!Plain) => RunsUnder(asked, c)'
    BY <2>3, <2>6, <2>7 DEF RunsUnder
  <2>9. /\ target'.driver \in To!OptionDrivers \cup {"none"} /\ target'.driver # "none"
        /\ asked' \in To!TransactionOption /\ connection' \in State /\ ~lateRefusal'
        /\ lone' = To!Plain \/ (target'.driver = "mssql" /\ lone'.access = "unset")
    BY <2>1, <2>3 DEF OptionsInv, To!OptionDrivers, To!SqliteDrivers, To!PgDrivers, To!MysqlDrivers
  <2> QED BY <2>3, <2>6, <2>8, <2>9 DEF OptionsInv, c
<1>2. CASE To!Send
  <2>1. /\ phase = "beginning" /\ statements # <<>> /\ statements \in Seq(Sends) /\ Len(statements) <= 2
        /\ connection \in State
        /\ connection' = To!Applied(connection, Head(statements)) /\ statements' = Tail(statements)
        /\ UNCHANGED <<target, phase, asked, lone, lateRefusal>>
    BY <1>2 DEF To!Send, OptionsInv
  <2>2. Head(statements) \in Sends /\ statements' \in Seq(Sends) /\ Len(statements') <= 2 BY <2>1
  <2>3. connection' \in State BY <2>1, <2>2, AppliedTyped
  <2> DEFINE c == Left(connection, statements)
  <2>4. c' = c
    <3>1. CASE Len(statements) = 1
      <4>1. statements' = <<>> /\ Head(statements) = statements[1] BY <2>1, <3>1
      <4> QED BY <2>1, <3>1, <4>1 DEF Left, To!Applied
    <3>2. CASE Len(statements) = 2
      <4>1. /\ statements' # <<>> /\ Len(statements') = 1 /\ Head(statements) = statements[1]
            /\ statements'[1] = statements[2]
        <5>1. /\ Len(Tail(statements)) = 1
              /\ \A i \in 1 .. Len(Tail(statements)) : Tail(statements)[i] = statements[i + 1]
          BY <2>1, <3>2, HeadTailProperties
        <5>2. Tail(statements)[1] = statements[2] BY <5>1
        <5>3. Tail(statements) # <<>> BY <5>1
        <5> QED BY <2>1, <5>1, <5>2, <5>3
      <4> QED BY <2>1, <3>2, <4>1 DEF Left, To!Applied
    <3>3. Len(statements) \in Nat \ {0} BY <2>1, EmptySeq
    <3>4. Len(statements) = 1 \/ Len(statements) = 2
      <4> DEFINE n == Len(statements)
      <4>1. n \in Nat \ {0} /\ n <= 2 BY <2>1, <3>3
      <4> HIDE DEF n
      <4>2. n = 1 \/ n = 2 BY <4>1
      <4> QED BY <4>2 DEF n
    <3> QED BY <3>4, <2>1, <3>1, <3>2, <3>3
  <2>5. ~(target.driver = "oracle" /\ asked = To!Plain) BY <2>1 DEF OptionsInv
  <2>6. Clean(c) /\ RunsUnder(asked, c)
    BY <2>1, <2>5 DEF OptionsInv
  <2> HIDE DEF c
  <2>7. Clean(c)' /\ RunsUnder(asked, c)'
    BY <2>1, <2>4, <2>6 DEF Clean, RunsUnder
  <2> QED BY <2>1, <2>2, <2>3, <2>5, <2>7 DEF OptionsInv, c
<1>3. CASE To!Opened
  <2>1. /\ phase = "beginning" /\ statements = <<>> /\ phase' = "open"
        /\ connection' = IF target.driver = "oracle" /\ asked = To!Plain
                         THEN [connection EXCEPT !.running = To!Began(connection, To!Plain)] ELSE connection
        /\ UNCHANGED <<target, asked, statements, lone, lateRefusal>>
    BY <1>3 DEF To!Opened
  <2>2. connection \in State /\ Clean(connection) BY <2>1 DEF OptionsInv, Left
  <2>3. CASE target.driver = "oracle" /\ asked = To!Plain
    <3>1. connection.level = To!Plain /\ connection.next = To!Plain BY <2>2, <2>3 DEF Clean
    <3>2. To!Began(connection, To!Plain) = To!Plain
      BY <3>1, PlainTyped DEF To!Began, To!OrBoth, To!Or, To!Plain
    <3>3. /\ connection' \in State /\ connection'.running = To!Plain
          /\ connection'.level = connection.level /\ connection'.next = connection.next
      BY <2>1, <2>2, <2>3, <3>2, PlainTyped DEF State
    <3> QED BY <2>1, <2>2, <2>3, <3>3 DEF OptionsInv, Clean, RunsUnder
  <2>4. CASE ~(target.driver = "oracle" /\ asked = To!Plain)
    <3>1. connection' = connection /\ RunsUnder(asked, connection) BY <2>1, <2>4 DEF OptionsInv, Left
    <3> QED BY <2>1, <2>2, <3>1 DEF OptionsInv, Clean, RunsUnder
  <2> QED BY <2>3, <2>4
<1>4. CASE To!Fails
  <2>1. /\ statements' = <<>> /\ phase' \in {"idle", "lost"} /\ connection' = To!Fresh
        /\ phase # "lost" /\ UNCHANGED <<target, asked, lone, lateRefusal>>
    BY <1>4 DEF To!Fails, To!GivenUp
  <2>2. To!Fresh \in State /\ Clean(To!Fresh)' BY PlainTyped DEF To!Fresh, State, Clean
  <2>3. statements' \in Seq(Sends) /\ Len(statements') <= 2 BY <2>1
  <2>4. target.driver # "none" BY <2>1 DEF OptionsInv
  <2> QED BY <2>1, <2>2, <2>3, <2>4 DEF OptionsInv, Clean
<1>5. CASE To!End
  <2>1. /\ phase = "open" /\ phase' = "idle" /\ connection' = [connection EXCEPT !.running = To!Plain]
        /\ UNCHANGED <<target, asked, statements, lone, lateRefusal>>
    BY <1>5 DEF To!End
  <2>2. connection \in State /\ Clean(connection) BY <2>1 DEF OptionsInv
  <2>3. /\ connection' \in State /\ connection'.level = connection.level /\ connection'.next = connection.next
    BY <2>1, <2>2, PlainTyped DEF State
  <2> QED BY <2>1, <2>2, <2>3 DEF OptionsInv, Clean
<1>6. CASE To!Statement
  <2>1. /\ phase = "idle" /\ lone' = To!Began(connection, To!Plain)
        /\ connection' = [connection EXCEPT !.next = To!Plain]
        /\ UNCHANGED <<target, phase, asked, statements, lateRefusal>>
    BY <1>6 DEF To!Statement
  <2>2. connection \in State /\ Clean(connection) BY <2>1 DEF OptionsInv
  <2>3. /\ connection' \in State /\ connection'.level = connection.level /\ connection'.next = To!Plain
    BY <2>1, <2>2, PlainTyped DEF State
  <2>4. connection.level \in To!TransactionOption /\ To!OrBoth(connection.next, connection.level) = connection.level
    BY <2>2, CleanNow
  <2>5. lone' = connection.level
    BY <2>1, <2>4 DEF To!Began, To!OrBoth, To!Or, To!Plain, To!TransactionOption
  <2>6. lone' = To!Plain \/ (target.driver = "mssql" /\ lone'.access = "unset")
    BY <2>2, <2>5 DEF Clean
  <2> QED BY <2>1, <2>2, <2>3, <2>6 DEF OptionsInv, Clean
<1> QED BY <1>1, <1>2, <1>3, <1>4, <1>5, <1>6 DEF To!Next

LEMMA OptionsShown == OptionsInv => RunsAsAsked
BY DEF OptionsInv, RunsUnder, RunsAsAsked, To!RunsAsAsked, To!Unset, Sqlite
-----------------------------------------------------------------------------
(* One of the five parts moves, the others stay. *)
LEMMA LiteralStays ==
    ASSUME LiteralInv, UNCHANGED literals
    PROVE  LiteralInv'
BY DEF LiteralInv, literals, Anew

LEMMA OptionsStay ==
    ASSUME OptionsInv, UNCHANGED options
    PROVE  OptionsInv'
BY DEF OptionsInv, options, Left, To!Applied, RunsUnder, Clean

(* An observer reads of a statement what its own options allow: no answer    *)
(* that was kept for other options is given to it, however many ask and in   *)
(* whatever order (literalizedSql of the descriptions).                     *)
THEOREM LiteralHolds == Execution => []LiteralAsAsked
<1>1. ExecutionInit => LiteralInv BY LiteralInit DEF ExecutionInit
<1>2. LiteralInv /\ [ExecutionNext]_<<vars, operation, transfer, literals, options>> => LiteralInv'
  BY LiteralStep, LiteralStays DEF ExecutionNext
<1> QED BY <1>1, <1>2, LiteralShown, PTL DEF Execution

(* A transaction runs under the options it was given and leaves none of them *)
(* behind, for any number of transactions and failures on a connection of    *)
(* any driver (the begin of the drivers, and their poisoned connections).   *)
THEOREM OptionsHold == Execution => []RunsAsAsked
<1>1. ExecutionInit => OptionsInv BY OptionsInit DEF ExecutionInit
<1>2. OptionsInv /\ [ExecutionNext]_<<vars, operation, transfer, literals, options>> => OptionsInv'
  BY OptionsStep, OptionsStay DEF ExecutionNext
<1> QED BY <1>1, <1>2, OptionsShown, PTL DEF Execution
-----------------------------------------------------------------------------
(* An operation and its observers. *)

OpSteps ==
    {"quiet", "called", "prepare", "ready", "kind", "check", "start", "acquire", "drive", "release",
     "result", "shape", "map", "finished", "failing", "abort", "settled", "open", "read", "cleanup", "end"}

Announcing == {"called", "prepare", "ready"}
Ahead == Announcing \cup {"kind", "check", "start", "acquire"}
Looking == {"result", "shape", "map", "finished"}
Underway == {"kind", "check", "start", "acquire", "drive", "release", "result", "shape", "map", "open", "read"}

Event ==
    [type : {"ready", "bulkReady", "start", "result", "mapped", "bulkResult", "error", "end", "endFailed"},
     started : BOOLEAN, completed : BOOLEAN]

(* The locals of an operation at each of its steps. *)
OpRequest ==
    /\ request.count \in Nat \ {0} /\ item \in Op!Items
    /\ Op!Method # "batch" => request.count = 1
    /\ Op!Method = "batch" => ~request.prepared
    /\ told \in [Op!Items -> BOOLEAN] /\ raw \in [Op!Items -> {"none", "ok", "failed"}]
    /\ step \in OpSteps \ {"quiet"}
    /\ observers \in Lineups

OpWay ==
    /\ step \in {"kind", "check", "start", "open", "read", "cleanup", "end"} => Op!Method # "batch"
    /\ step \in {"start", "open", "read", "cleanup", "end"} => Op!Method = "stream"
    /\ step \in {"drive", "release"} \cup Looking => Op!Method # "stream"
    /\ step = "abort" => Op!Method = "batch"
    /\ step \in Ahead => hold = "none"
    /\ step \in {"open", "read", "cleanup"} => hold = "held"
    /\ step = "end" => hold = "released"
    /\ hold \in {"none", "held", "released"}
    /\ step = "failing" /\ Op!Method = "stream" /\ hold # "none" => failing
    /\ step = "kind" => request.prepared
    /\ step = "ready" => Op!Method # "stream" \/ request.prepared

(* Which queries of a batch were announced and have not ended. *)
OpTold ==
    Op!Method = "batch" =>
      /\ step = "called" => item = 1
      /\ step \in Announcing => \A i \in Op!Items : told[i] <=> i >= item
      /\ step \in {"acquire", "drive", "release"} => \A i \in Op!Items : ~told[i]
      /\ step \in Looking => \A i \in Op!Items : told[i] <=> i < item

(* What the driver has done for them. *)
OpRaw ==
    /\ step \in Ahead => \A i \in Op!Items : raw[i] = "none"
    /\ step = "acquire" => item = 1
    /\ step = "drive" => \A i \in Op!Items : raw[i] = IF i < item THEN "ok" ELSE "none"
    /\ step = "release" =>
         /\ \A i \in Op!Items : (i < item => raw[i] = "ok") /\ (i > item => raw[i] = "none")
         /\ raw[item] = "ok" => item = request.count
         /\ raw[item] = "none" => Op!Method \in {"call", "bulk"}
    /\ step \in Looking => \A i \in Op!Items : raw[i] = "ok"

(* The errors that are owed. *)
Errors == {e \in Event : e.type = "error"}

OpDue ==
    step = "failing" =>
      /\ \/ \E e \in Errors : due = <<e>>
         \/ /\ Op!Method = "bulk" /\ raw[item] = "failed"
            /\ due = <<Op!Failure(TRUE, FALSE), Op!Failure(TRUE, FALSE)>>
      /\ Op!Method # "stream" => \A k \in DOMAIN due : due[k] = Op!Failure(raw[item] # "none", raw[item] = "ok")

Span == [open : BOOLEAN, ended : Seq({"success", "error"})]

(* A result that was refused had been heard by all before who refused it.   *)
RefusedHeard(o, i) ==
    Op!Retracted(o, i) => \E k \in Op!Endings(o, i) : heard[o][i][k].type \in Op!ResultTypes

OpHeard ==
    /\ heard \in [Op!Rank -> [Op!Items -> Seq(Event)]]
    /\ DOMAIN refused = Op!Rank /\ \A o \in Op!Rank : DOMAIN refused[o] = Op!Items
    /\ spans \in [Op!Items -> Span]
    /\ \A o \in Op!Rank, i \in Op!Items : RefusedHeard(o, i)

(* How far an observer has heard of a query. *)
NoEnd(o, i) == Op!Endings(o, i) = {}

OneEnd(o, i, types) == \E k \in Op!Endings(o, i) : Op!Endings(o, i) = {k} /\ heard[o][i][k].type \in types

(* Its one ending is a result that this observer or a later one refused. *)
HalfEnd(o, i) ==
    \E k \in Op!Endings(o, i) :
        /\ Op!Endings(o, i) = {k} /\ heard[o][i][k].type \in Op!ResultTypes
        /\ Op!Retracted(o, i)

ErrorsOnly(o, i) == \A k \in Op!Endings(o, i) : heard[o][i][k].type = "error"

Closed(o, i) == Op!Announced(o, i) => Op!EndedAsTold(o, i)

FailingAt(o, i) ==
    IF Op!Method = "stream" /\ hold # "none" THEN ErrorsOnly(o, i)
    ELSE \/ NoEnd(o, i)
         \/ (\E e \in Errors : due = <<e>>) /\ Op!Method # "stream" /\ HalfEnd(o, i)
         \/ /\ (\E e \in Errors : due = <<e>>) /\ Op!Method = "bulk" /\ raw[i] = "failed"
            /\ OneEnd(o, i, {"error"})

EndsAt(o, i) ==
    /\ i # item /\ step # "settled" => IF told[i] THEN Closed(o, i) ELSE NoEnd(o, i)
    /\ step \in Announcing /\ i >= item => heard[o][i] = <<>>
    /\ i = item =>
         /\ step \in Underway => NoEnd(o, i)
         /\ step = "finished" => OneEnd(o, i, Op!ResultTypes) /\ ~Op!Retracted(o, i)
         /\ step = "failing" => FailingAt(o, i)
         /\ step \in {"cleanup", "end"} => ErrorsOnly(o, i)
         /\ step = "abort" => told[i] /\ Closed(o, i)
    /\ step = "settled" => Closed(o, i)

OpEnds == \A o \in Op!Rank, i \in Op!Items : EndsAt(o, i)

(* The span of a query, where OpenTelemetry's observer is the last. *)
Unopened(i) == ~spans[i].open /\ spans[i].ended = <<>>
Opened(i) == spans[i].open /\ spans[i].ended = <<>>
Over(i) == ~spans[i].open /\ (spans[i].ended = <<>> \/ \E how \in {"success", "error"} : spans[i].ended = <<how>>)
OverFailed(i) == ~spans[i].open /\ (spans[i].ended = <<>> \/ spans[i].ended = <<"error">>)

Unannounced == Op!Method = "stream" /\ ~request.prepared

SpanAt(i) ==
    /\ i # item /\ step # "settled" =>
         IF told[i] THEN Over(i) /\ (spans[i].ended = <<"success">> => raw[i] = "ok") ELSE Opened(i)
    /\ step \in Looking /\ i < item => spans[i].ended = <<"success">>
    /\ Op!Method = "batch" /\ step \in Announcing /\ i >= item => Unopened(i)
    /\ Unannounced => Unopened(i)
    /\ i = item =>
         /\ step \in Announcing => Unopened(i)
         /\ step \in Underway /\ ~Unannounced => Opened(i)
         /\ step = "finished" => ~spans[i].open /\ spans[i].ended = <<"success">>
         /\ step = "failing" => Opened(i) \/ OverFailed(i)
         /\ step \in {"cleanup", "end"} /\ ~Unannounced => IF failing THEN Opened(i) \/ OverFailed(i) ELSE Opened(i)
         /\ step = "abort" => told[i] /\ Over(i) /\ (spans[i].ended = <<"success">> => raw[i] = "ok")

Telemetry == observers # <<>> /\ observers[Len(observers)] = "otel"

OpSpans == Telemetry => (\A i \in Op!Items : SpanAt(i)) /\ Op!SpanTells

OpInv ==
    \/ step = "quiet" /\ observers = <<>>
    \/ /\ OpRequest /\ OpWay /\ OpTold /\ OpRaw /\ OpDue /\ OpHeard /\ OpEnds /\ OpSpans
       /\ Op!Truthful

(* Lists of events. *)
Ends(h) == {k \in DOMAIN h : h[k].type \in Op!EndTypes}

LEMMA Appended ==
    ASSUME NEW h \in Seq(Event), NEW e \in Event
    PROVE  /\ Append(h, e) \in Seq(Event) /\ Append(h, e) # <<>>
           /\ Len(h) \in Nat /\ Len(Append(h, e)) = Len(h) + 1
           /\ \A k \in DOMAIN h : k \in Nat /\ k <= Len(h) /\ Append(h, e)[k] = h[k]
           /\ Append(h, e)[Len(h) + 1] = e
           /\ Ends(Append(h, e)) = Ends(h) \cup (IF e.type \in Op!EndTypes THEN {Len(h) + 1} ELSE {})
           /\ Head(Append(h, e)) = IF h = <<>> THEN e ELSE Head(h)
<1>1. /\ Append(h, e) \in Seq(Event) /\ Len(h) \in Nat /\ Len(Append(h, e)) = Len(h) + 1
      /\ \A k \in 1 .. Len(h) : Append(h, e)[k] = h[k]
      /\ Append(h, e)[Len(h) + 1] = e
      /\ DOMAIN h = 1 .. Len(h) /\ DOMAIN Append(h, e) = 1 .. Len(h) + 1
  OBVIOUS
<1> DEFINE g == Append(h, e)
<1>2. Head(g) = g[1] /\ (h # <<>> => Head(h) = h[1] /\ Len(h) > 0) /\ (h = <<>> => Len(h) = 0)
  BY <1>1, EmptySeq
<1> HIDE DEF g
<1>3. Ends(g) = Ends(h) \cup (IF e.type \in Op!EndTypes THEN {Len(h) + 1} ELSE {})
  <2>1. \A k : k \in 1 .. Len(h) + 1 <=> k \in 1 .. Len(h) \/ k = Len(h) + 1 BY <1>1
  <2>2. /\ DOMAIN g = 1 .. Len(h) + 1 /\ DOMAIN h = 1 .. Len(h) /\ g[Len(h) + 1] = e
        /\ \A k \in 1 .. Len(h) : g[k] = h[k]
    BY <1>1 DEF g
  <2> QED BY <2>1, <2>2 DEF Ends
<1>4. Head(g) = IF h = <<>> THEN e ELSE Head(h)
  BY <1>1, <1>2 DEF g
<1>5. g # <<>> BY <1>1 DEF g
<1> QED BY <1>1, <1>3, <1>4, <1>5 DEF g

LEMMA NoneEmpty ==
    /\ Ends(<<>>) = {}
    /\ \A o, i : Op!Endings(o, i) = Ends(heard[o][i])
BY DEF Ends, Op!Endings

LEMMA RankIs ==
    ASSUME OpRequest
    PROVE  /\ Op!Rank = 1 .. Len(observers) /\ Len(observers) \in Nat
           /\ observers \in Seq({"user", "otel"})
           /\ Op!Items = 1 .. request.count
           /\ Op!Thrower \subseteq {0} \cup Op!Rank
           /\ \A n \in Op!Thrower : Op!FailFast(n) \subseteq Op!Rank
           /\ Telemetry => /\ Len(observers) \in Op!Rank
                           /\ \A n \in Op!Rank : observers[n] = "otel" <=> n = Len(observers)
                           /\ \A n \in Op!Thrower : n # Len(observers)
<1>1. /\ observers \in Seq({"user", "otel"}) /\ Len(observers) \in Nat
      /\ \A m, n \in DOMAIN observers : observers[m] = "otel" /\ observers[n] = "otel" => m = n
  BY LineupConstants DEF OpRequest
<1>2. Op!Rank = 1 .. Len(observers) BY <1>1 DEF Op!Rank
<1>3. Telemetry => Len(observers) \in Op!Rank BY <1>1, <1>2, EmptySeq DEF Telemetry
<1>4. \A n \in Op!Thrower : Op!FailFast(n) \subseteq Op!Rank BY <1>1, <1>2 DEF Op!Thrower, Op!FailFast
<1>5. Telemetry => \A n \in Op!Thrower : n # Len(observers)
  <2> SUFFICES ASSUME Telemetry, NEW n \in Op!Thrower PROVE n # Len(observers) OBVIOUS
  <2>1. Len(observers) # 0 BY <1>2, <1>3
  <2> QED BY <2>1 DEF Op!Thrower, Telemetry
<1>6. Telemetry => \A n \in Op!Rank : observers[n] = "otel" <=> n = Len(observers)
  BY <1>1, <1>2, <1>3 DEF Telemetry, Op!Rank
<1> QED BY <1>1, <1>2, <1>3, <1>4, <1>5, <1>6 DEF Op!Items, Op!Thrower

LEMMA ObserveTyped ==
    ASSUME NEW entry \in Span, NEW type
    PROVE  Op!Observe(entry, type) \in Span
<1>1. ASSUME NEW how \in {"success", "error"} PROVE Op!Finish(entry, how) \in Span
  <2>1. Append(entry.ended, how) \in Seq({"success", "error"}) BY DEF Span
  <2> QED BY <2>1 DEF Op!Finish, Span
<1>2. Op!Begin(entry) \in Span BY <1>1 DEF Op!Begin, Span
<1> QED BY <1>1, <1>2 DEF Op!Observe

HeardBy(i, e, hearers, n) ==
    /\ \A o \in Op!Rank, j \in Op!Items :
         /\ heard'[o][j] = IF j = i /\ o \in hearers THEN Append(heard[o][j], e) ELSE heard[o][j]
         /\ refused'[o][j] = IF j = i /\ o = n THEN refused[o][j] \cup {e.type} ELSE refused[o][j]
    /\ Telemetry =>
         \A j \in Op!Items :
           spans'[j] = IF j = i /\ Len(observers) \in hearers THEN Op!Observe(spans[j], e.type) ELSE spans[j]

(* An event reaches those who hear it, and nobody else. *)
LEMMA Delivered ==
    ASSUME OpRequest, OpHeard, UNCHANGED <<request, observers>>,
           NEW i \in Op!Items, NEW e \in Event, NEW hearers \in SUBSET Op!Rank, NEW n \in Op!Thrower,
           \A o \in Op!Rank : o <= n => o \in hearers,
           Op!Deliver(i, e, hearers, n)
    PROVE  /\ OpHeard'
           /\ HeardBy(i, e, hearers, n)
<1>1. Op!Rank' = Op!Rank /\ Op!Items' = Op!Items BY DEF Op!Rank, Op!Items
<1>2. /\ heard \in [Op!Rank -> [Op!Items -> Seq(Event)]]
      /\ DOMAIN refused = Op!Rank /\ \A o \in Op!Rank : DOMAIN refused[o] = Op!Items
      /\ spans \in [Op!Items -> Span]
  BY DEF OpHeard
<1>3. /\ heard' = [o \in Op!Rank |-> IF o \in hearers THEN [heard[o] EXCEPT ![i] = Append(@, e)] ELSE heard[o]]
      /\ refused' = IF n = 0 THEN refused ELSE [refused EXCEPT ![n][i] = @ \cup {e.type}]
      /\ spans' = IF \E o \in hearers : observers[o] = "otel"
                  THEN [spans EXCEPT ![i] = Op!Observe(@, e.type)] ELSE spans
  BY DEF Op!Deliver
<1>4. /\ heard' \in [Op!Rank -> [Op!Items -> Seq(Event)]]
      /\ \A o \in Op!Rank, j \in Op!Items :
                heard'[o][j] = IF j = i /\ o \in hearers THEN Append(heard[o][j], e) ELSE heard[o][j]
  <2>1. ASSUME NEW o \in Op!Rank
        PROVE  /\ heard'[o] \in [Op!Items -> Seq(Event)]
               /\ \A j \in Op!Items :
                    heard'[o][j] = IF j = i /\ o \in hearers THEN Append(heard[o][j], e) ELSE heard[o][j]
    <3>1. heard[o] \in [Op!Items -> Seq(Event)] BY <1>2
    <3>2. heard'[o] = IF o \in hearers THEN [heard[o] EXCEPT ![i] = Append(@, e)] ELSE heard[o] BY <1>3
    <3>3. Append(heard[o][i], e) \in Seq(Event) BY <3>1, Appended
    <3> QED BY <3>1, <3>2, <3>3
  <2>2. DOMAIN heard' = Op!Rank /\ heard' = [o \in Op!Rank |-> heard'[o]] BY <1>3
  <2> QED BY <2>1, <2>2
<1>5. /\ DOMAIN refused' = Op!Rank /\ \A o \in Op!Rank : DOMAIN refused'[o] = Op!Items
      /\ \A o \in Op!Rank, j \in Op!Items :
                refused'[o][j] = IF j = i /\ o = n THEN refused[o][j] \cup {e.type} ELSE refused[o][j]
  <2>1. CASE n = 0
    <3>1. 0 \notin Op!Rank BY RankIs
    <3> QED BY <1>2, <1>3, <2>1, <3>1
  <2>2. CASE n # 0
    <3>1. n \in Op!Rank BY <2>2, RankIs
    <3>2. refused' = [refused EXCEPT ![n] = [refused[n] EXCEPT ![i] = refused[n][i] \cup {e.type}]] BY <1>3, <2>2
    <3> QED BY <1>2, <3>1, <3>2
  <2> QED BY <2>1, <2>2
<1>6. spans' \in [Op!Items -> Span]
  <2>1. Op!Observe(spans[i], e.type) \in Span BY <1>2, ObserveTyped
  <2> QED BY <1>2, <1>3, <2>1
<1>7. Telemetry => ((\E o \in hearers : observers[o] = "otel") <=> Len(observers) \in hearers)
  BY RankIs
<1>8. Telemetry => \A j \in Op!Items :
         spans'[j] = IF j = i /\ Len(observers) \in hearers THEN Op!Observe(spans[j], e.type) ELSE spans[j]
  BY <1>2, <1>3, <1>7
<1>9. HeardBy(i, e, hearers, n) BY <1>4, <1>5, <1>8 DEF HeardBy
<1>10. ASSUME NEW o \in Op!Rank, NEW j \in Op!Items PROVE RefusedHeard(o, j)'
  <2> SUFFICES ASSUME NEW p \in Op!Rank, p >= o, NEW type \in Op!ResultTypes, type \in refused'[p][j]
               PROVE  \E k \in Op!Endings(o, j)' : heard'[o][j][k].type \in Op!ResultTypes
    BY <1>1 DEF RefusedHeard, Op!Retracted
  <2>1. heard[o][j] \in Seq(Event) BY <1>2
  <2>2. CASE type \in refused[p][j]
    <3>1. PICK k \in Op!Endings(o, j) : heard[o][j][k].type \in Op!ResultTypes
      BY <2>2 DEF OpHeard, RefusedHeard, Op!Retracted
    <3>2. k \in Ends(heard[o][j]) /\ k \in DOMAIN heard[o][j] BY <3>1, NoneEmpty DEF Ends
    <3>3. heard'[o][j][k] = heard[o][j][k] /\ k \in Ends(heard'[o][j])
      <4>1. heard'[o][j] = heard[o][j] \/ heard'[o][j] = Append(heard[o][j], e) BY <1>4
      <4> DEFINE h == heard[o][j]
      <4>2. h \in Seq(Event) /\ k \in Ends(h) /\ k \in DOMAIN h BY <2>1, <3>2
      <4> HIDE DEF h
      <4>3. Append(h, e)[k] = h[k] /\ k \in Ends(Append(h, e)) BY <4>2, Appended
      <4> QED BY <4>1, <4>2, <4>3 DEF h
    <3> QED BY <3>1, <3>3 DEF Ends, Op!Endings
  <2>3. CASE type \notin refused[p][j]
    <3>1. j = i /\ p = n /\ type = e.type BY <1>5, <2>3
    <3>2. heard'[o][j] = Append(heard[o][j], e)
      <4>1. o \in Nat /\ p \in Nat BY RankIs
      <4> QED BY <1>4, <3>1, <4>1
    <3>3. e.type \in Op!EndTypes BY <3>1 DEF Op!EndTypes
    <3>4. /\ Len(heard[o][j]) + 1 \in Ends(heard'[o][j])
          /\ heard'[o][j][Len(heard[o][j]) + 1] = e
      BY <2>1, <3>2, <3>3, Appended
    <3> QED BY <3>1, <3>4 DEF Ends, Op!Endings
  <2> QED BY <2>2, <2>3
<1> QED BY <1>1, <1>4, <1>5, <1>6, <1>9, <1>10 DEF OpHeard

(* What an observer has heard of a query while nobody is told anything. *)
LEMMA EmptyIs ==
    ASSUME NEW o, NEW i, heard[o][i] = <<>>
    PROVE  NoEnd(o, i) /\ Closed(o, i)
BY NoneEmpty DEF NoEnd, Closed, Op!Announced

(* Of what was heard to its result nothing was refused, unless the result.  *)
LEMMA NothingRefused ==
    \A o, i : RefusedHeard(o, i) /\ NoEnd(o, i) => ~Op!Retracted(o, i)
BY DEF RefusedHeard, NoEnd

(* An unspoken call settles, and nobody is told.                           *)
LEMMA UnspokenCloses ==
    ASSUME OpRequest, Op!Unspoken, NEW o, NEW i, NoEnd(o, i), RefusedHeard(o, i)
    PROVE  Closed(o, i)
<1>1. Op!Method # "stream" BY DEF Op!Unspoken
<1> QED BY <1>1, NothingRefused DEF Closed, Op!EndedAsTold, Op!EndsOtherwise, NoEnd

LEMMA NoEndIs == \A o, i : NoEnd(o, i) => ErrorsOnly(o, i)
BY DEF NoEnd, ErrorsOnly

(* How a query ended is told by what was heard and refused of it, and by     *)
(* what is done to it.                                                     *)
Kept == (hold' = hold \/ Op!Method # "stream") /\ (raw' = raw \/ Op!Method # "bulk")

HeardSame ==
    /\ Op!Rank' = Op!Rank /\ Op!Items' = Op!Items /\ Op!Method' = Op!Method /\ Op!Unspoken' = Op!Unspoken
    /\ OpHeard' /\ Telemetry' = Telemetry
    /\ \A o, i : /\ NoEnd(o, i)' <=> NoEnd(o, i)
                 /\ Kept => (Closed(o, i)' <=> Closed(o, i))
                 /\ Op!Retracted(o, i)' <=> Op!Retracted(o, i)
                 /\ ErrorsOnly(o, i)' <=> ErrorsOnly(o, i)
                 /\ heard'[o][i] = heard[o][i]
    /\ \A i : /\ Unopened(i)' <=> Unopened(i)
              /\ Opened(i)' <=> Opened(i)
              /\ Over(i)' <=> Over(i)
              /\ OverFailed(i)' <=> OverFailed(i)
              /\ spans'[i] = spans[i]
    /\ Unannounced' <=> Unannounced

LEMMA EndsAlike ==
    ASSUME NEW o, NEW i, UNCHANGED <<request, observers>>, heard'[o][i] = heard[o][i],
           \A p \in Op!Rank : refused'[p][i] = refused[p][i]
    PROVE  /\ Op!Endings(o, i)' = Op!Endings(o, i)
           /\ Op!Retracted(o, i)' <=> Op!Retracted(o, i)
           /\ Kept => (Closed(o, i)' <=> Closed(o, i))
<1>1. Op!Rank' = Op!Rank /\ Op!Method' = Op!Method BY DEF Op!Rank, Op!Method
<1>2. Op!Unspoken' <=> Op!Unspoken BY DEF Op!Unspoken, Op!PreparedAccepts, Op!Accepts, Op!Method
<1>3. Op!Endings(o, i)' = Op!Endings(o, i) BY DEF Op!Endings
<1>4. Op!Retracted(o, i)' <=> Op!Retracted(o, i) BY <1>1 DEF Op!Retracted
<1>5. Op!Announced(o, i)' <=> Op!Announced(o, i) BY DEF Op!Announced
<1>6. Op!EndsAsResultAndError(o, i)' <=> Op!EndsAsResultAndError(o, i) BY <1>3 DEF Op!EndsAsResultAndError
<1>7. Kept /\ Op!Method = "stream" => (Op!EndsAsStream(o, i)' <=> Op!EndsAsStream(o, i))
  BY <1>3 DEF Op!EndsAsStream, Kept
<1>8. Kept => (Op!EndsOtherwise(o, i)' <=> Op!EndsOtherwise(o, i))
  <2>1. CASE Op!Method # "bulk" BY <1>1, <1>2, <1>3, <2>1 DEF Op!EndsOtherwise
  <2>2. CASE Op!Method = "bulk" BY <1>1, <1>2, <1>3, <2>2 DEF Op!EndsOtherwise, Kept
  <2> QED BY <2>1, <2>2
<1>9. Kept => (Op!EndedAsTold(o, i)' <=> Op!EndedAsTold(o, i))
  <2>1. CASE Op!Method = "stream" BY <1>1, <1>4, <1>6, <1>7, <1>8, <2>1 DEF Op!EndedAsTold, Kept
  <2>2. CASE Op!Method # "stream" BY <1>1, <1>4, <1>6, <1>8, <2>2 DEF Op!EndedAsTold
  <2> QED BY <2>1, <2>2
<1> QED BY <1>3, <1>4, <1>5, <1>9 DEF Closed

LEMMA Unheard ==
    ASSUME OpRequest, OpHeard, UNCHANGED <<request, observers, heard, refused, spans>>
    PROVE  HeardSame
<1>1. Op!Rank' = Op!Rank /\ Op!Items' = Op!Items /\ Op!Method' = Op!Method BY DEF Op!Rank, Op!Items, Op!Method
<1>2. Op!Unspoken' = Op!Unspoken BY DEF Op!Unspoken, Op!PreparedAccepts, Op!Accepts, Op!Method
<1>3. OpHeard' BY <1>1 DEF OpHeard, RefusedHeard, Op!Retracted, Op!Endings
<1>4. \A o, i : Op!Endings(o, i)' = Op!Endings(o, i) BY DEF Op!Endings
<1>5. \A o, i : /\ Op!Retracted(o, i)' <=> Op!Retracted(o, i)
                /\ Kept => (Closed(o, i)' <=> Closed(o, i))
  BY EndsAlike
<1>6. \A o, i : /\ NoEnd(o, i)' <=> NoEnd(o, i)
                /\ Kept => (Closed(o, i)' <=> Closed(o, i))
                /\ Op!Retracted(o, i)' <=> Op!Retracted(o, i)
                /\ ErrorsOnly(o, i)' <=> ErrorsOnly(o, i)
                /\ heard'[o][i] = heard[o][i]
  BY <1>4, <1>5 DEF NoEnd, ErrorsOnly
<1>7. \A i : /\ Unopened(i)' <=> Unopened(i)
             /\ Opened(i)' <=> Opened(i)
             /\ Over(i)' <=> Over(i)
             /\ OverFailed(i)' <=> OverFailed(i)
             /\ spans'[i] = spans[i]
  BY DEF Unopened, Opened, Over, OverFailed
<1> QED BY <1>1, <1>2, <1>3, <1>6, <1>7 DEF HeardSame, Telemetry, Unannounced

(* An error tells what was done for its query, whatever is done next for     *)
(* those of which no end was heard.                                        *)
LEMMA TruthStays ==
    ASSUME OpRequest, Op!Truthful, UNCHANGED <<request, observers, heard>>,
           \A o \in Op!Rank, i \in Op!Items : raw'[i] = raw[i] \/ NoEnd(o, i)
    PROVE  Op!Truthful'
<1>1. Op!Rank' = Op!Rank /\ Op!Items' = Op!Items /\ Op!Method' = Op!Method BY DEF Op!Rank, Op!Items, Op!Method
<1> SUFFICES ASSUME Op!Method # "stream", NEW o \in Op!Rank, NEW i \in Op!Items, NEW k \in DOMAIN heard[o][i],
                    heard[o][i][k].type = "error"
             PROVE  heard[o][i][k] = Op!Failure(raw'[i] # "none", raw'[i] = "ok")
  BY <1>1 DEF Op!Truthful, Op!Failure
<1>2. ~NoEnd(o, i) BY DEF NoEnd, Op!Endings, Op!EndTypes
<1>3. raw'[i] = raw[i] BY <1>2
<1> QED BY <1>3 DEF Op!Truthful

LEMMA OpInit ==
    ASSUME Op!Init
    PROVE  OpInv
<1>1. /\ request.count \in Nat \ {0} /\ (Op!Method # "batch" => request.count = 1)
      /\ (Op!Method = "batch" => ~request.prepared)
  BY DEF Op!Init, Op!Requests, Op!Request, Op!Method, Op!Methods, Op!Preparable, Op!Kinds
<1>2. /\ item = 1 /\ item \in Op!Items /\ step = "called" /\ hold = "none"
      /\ raw = [i \in Op!Items |-> "none"] /\ told = [i \in Op!Items |-> TRUE]
      /\ heard = [o \in Op!Rank |-> [i \in Op!Items |-> <<>>]]
      /\ refused = [o \in Op!Rank |-> [i \in Op!Items |-> {}]]
      /\ spans = [i \in Op!Items |-> [open |-> FALSE, ended |-> <<>>]]
      /\ observers \in Lineups
  BY <1>1 DEF Op!Init, Op!Items
<1>3. OpRequest BY <1>1, <1>2 DEF OpRequest, OpSteps
<1>4. OpWay /\ OpDue BY <1>2 DEF OpWay, OpDue, Ahead, Announcing, Looking
<1>5. OpTold BY <1>1, <1>2 DEF OpTold, Announcing, Looking, Op!Items
<1>6. OpRaw BY <1>2 DEF OpRaw, Ahead, Announcing, Looking
<1>7. OpHeard
  <2>1. <<>> \in Seq(Event) /\ <<>> \in Seq({"success", "error"}) OBVIOUS
  <2>2. \A o \in Op!Rank, i \in Op!Items : RefusedHeard(o, i) BY <1>2 DEF RefusedHeard, Op!Retracted
  <2> QED BY <1>2, <2>1, <2>2 DEF OpHeard, Span
<1>8. ASSUME NEW o \in Op!Rank, NEW i \in Op!Items PROVE EndsAt(o, i)
  <2>1. heard[o][i] = <<>> BY <1>2
  <2> QED BY <1>2, <2>1, EmptyIs DEF EndsAt, Announcing, Underway
<1>9. ASSUME NEW i \in Op!Items PROVE SpanAt(i)
  <2>1. Unopened(i) /\ Over(i) /\ spans[i].ended = <<>> BY <1>2 DEF Unopened, Over
  <2>2. <<>> # <<"success">> OBVIOUS
  <2> QED BY <1>2, <2>1, <2>2 DEF SpanAt, Announcing, Underway, Looking
<1>10. Op!SpanTells BY <1>2 DEF Op!SpanTells
<1>11. Op!Truthful
  <2>1. \A o \in Op!Rank, i \in Op!Items : DOMAIN heard[o][i] = {} BY <1>2
  <2> QED BY <2>1 DEF Op!Truthful
<1> QED BY <1>3, <1>4, <1>5, <1>6, <1>7, <1>8, <1>9, <1>10, <1>11 DEF OpInv, OpEnds, OpSpans

LEMMA OpenIs ==
    \A i : /\ ~(Opened(i) /\ OverFailed(i)) /\ ~(Opened(i) /\ Unopened(i)) /\ ~(Opened(i) /\ Over(i))
           /\ (Unopened(i) => Over(i) /\ OverFailed(i) /\ spans[i].ended # <<"success">>)
           /\ (Opened(i) => spans[i].ended # <<"success">>)
BY DEF Opened, Unopened, Over, OverFailed

LEMMA FailsFresh == \A o, i : NoEnd(o, i)' => FailingAt(o, i)'
BY DEF FailingAt, NoEnd, ErrorsOnly

LEMMA FailsStream == \A o, i : ErrorsOnly(o, i)' /\ Op!Method' = "stream" /\ hold' # "none" => FailingAt(o, i)'
BY DEF FailingAt

LEMMA FailureIs ==
    ASSUME NEW b \in BOOLEAN, NEW c \in BOOLEAN
    PROVE  Op!Failure(b, c) \in Errors
BY DEF Op!Failure, Errors, Event

LEMMA OwesOne ==
    ASSUME NEW e \in Errors, due' = <<e>>,
           Op!Method' # "stream" => e = Op!Failure(raw'[item'] # "none", raw'[item'] = "ok")
    PROVE  OpDue'
<1>1. \A k \in DOMAIN <<e>> : <<e>>[k] = e OBVIOUS
<1> QED BY <1>1 DEF OpDue

LEMMA UnspokenOne ==
    ASSUME OpRequest, Op!Unspoken
    PROVE  \A i \in Op!Items, j \in Op!Items : i = j
<1>1. Op!Method # "batch" BY DEF OpRequest, Op!Unspoken
<1> QED BY <1>1 DEF OpRequest, Op!Items

LEMMA UnspokenTells ==
    ASSUME OpRequest, HeardSame, Op!Unspoken, \A i \in Op!Items : Opened(i), outcome' = "failed"
    PROVE  Op!SpanTells'
<1>1. /\ Op!Items' = Op!Items /\ Op!Unspoken'
      /\ \A i \in Op!Items : spans'[i].open /\ spans'[i].ended = <<>>
  BY DEF HeardSame, Opened
<1>2. <<>> # <<"success">> /\ Len(<<>>) <= 1 OBVIOUS
<1> QED BY <1>1, <1>2 DEF Op!SpanTells

LEMMA CallKeeps ==
    ASSUME OpInv, Op!Call
    PROVE  OpInv'
<1>0. OpRequest /\ OpWay /\ OpTold /\ OpRaw /\ OpDue /\ OpHeard /\ OpEnds /\ OpSpans /\ Op!Truthful
  BY DEF OpInv, Op!Call
<1>1. /\ UNCHANGED <<request, observers, heard, refused, spans>>
      /\ step = "called" /\ step' \in {"settled", "prepare"} /\ UNCHANGED <<item, raw, told, due, hold>>
      /\ step' = "settled" => outcome' = "failed"
  BY DEF Op!Call, Op!Silent, Op!Go, Op!Settle, Op!Throw, Op!ThrowOne
<1>2. HeardSame
  BY <1>0, <1>1, Unheard
<1>3. OpRequest'
  BY <1>0, <1>1, <1>2 DEF OpRequest, OpWay, HeardSame, OpSteps, Op!Items, Op!Method
<1>4. OpWay'
  BY <1>0, <1>1, <1>2 DEF OpRequest, OpWay, HeardSame, Looking, Ahead, Announcing
<1>5. OpTold'
  BY <1>0, <1>1, <1>2 DEF OpRequest, OpWay, OpTold, HeardSame, Looking, Ahead, Announcing, Op!Items
<1>6. OpRaw'
  BY <1>0, <1>1, <1>2 DEF OpRequest, OpWay, OpTold, OpRaw, HeardSame, Looking, Ahead, Announcing, Op!Items
<1>7. OpDue'
  BY <1>1 DEF OpDue
<1>8. ASSUME NEW o \in Op!Rank, NEW i \in Op!Items
      PROVE  EndsAt(o, i)'
  <2>1. EndsAt(o, i) BY <1>0 DEF OpEnds
  <2> QED BY <1>0, <1>1, <1>2, <2>1, EmptyIs, NoEndIs, FailsFresh, FailsStream
    DEF EndsAt, HeardSame, OpRequest, OpWay, OpTold, Announcing, Underway, Looking, Ahead, Op!Items, Kept
<1>9. Telemetry => \A i \in Op!Items : SpanAt(i)'
  <2> SUFFICES ASSUME Telemetry, NEW i \in Op!Items PROVE SpanAt(i)' OBVIOUS
  <2>1. SpanAt(i) BY <1>0 DEF OpSpans
  <2> QED BY <1>0, <1>1, <1>2, <2>1, OpenIs
    DEF SpanAt, HeardSame, Unannounced, OpRequest, OpWay, OpTold, Announcing, Underway, Looking, Ahead, Op!Items
<1>10. Telemetry => Op!SpanTells'
  <2> SUFFICES ASSUME Telemetry, step' = "settled"
               PROVE  Op!SpanTells'
    BY DEF Op!SpanTells
  <2>1. ASSUME NEW i \in Op!Items PROVE ~spans'[i].open /\ spans'[i].ended = <<>>
    <3>1. SpanAt(i) BY <1>0 DEF OpSpans
    <3> QED BY <1>0, <1>1, <3>1 DEF SpanAt, Unopened, OpRequest, OpTold, Announcing, Op!Items
  <2>2. <<>> # <<"success">> /\ Len(<<>>) <= 1 OBVIOUS
  <2> QED BY <1>1, <1>2, <2>1, <2>2 DEF Op!SpanTells, HeardSame
<1>11. Op!Truthful'
  BY <1>0, <1>1, TruthStays
<1>12. OpEnds' /\ OpSpans'
  BY <1>2, <1>8, <1>9, <1>10 DEF OpEnds, OpSpans, HeardSame
<1> QED
  BY <1>1, <1>2, <1>3, <1>4, <1>5, <1>6, <1>7, <1>11, <1>12 DEF OpInv, HeardSame

LEMMA PrepareKeeps ==
    ASSUME OpInv, Op!Prepare
    PROVE  OpInv'
<1>0. OpRequest /\ OpWay /\ OpTold /\ OpRaw /\ OpDue /\ OpHeard /\ OpEnds /\ OpSpans /\ Op!Truthful
  BY DEF OpInv, Op!Prepare
<1>1. /\ UNCHANGED <<request, observers, heard, refused, spans>>
      /\ step = "prepare" /\ UNCHANGED <<item, raw, told, hold>>
      /\ \/ step' = "failing" /\ due' = <<Op!Failure(FALSE, FALSE)>>
         \/ step' = IF Op!Method = "stream" /\ ~request.prepared THEN "check" ELSE "ready"
  BY DEF Op!Prepare, Op!Silent, Op!Go, Op!Settle, Op!Throw, Op!ThrowOne
<1>2. HeardSame
  BY <1>0, <1>1, Unheard
<1>3. OpRequest'
  BY <1>0, <1>1, <1>2 DEF OpRequest, OpWay, HeardSame, OpSteps, Op!Items, Op!Method
<1>4. OpWay'
  BY <1>0, <1>1, <1>2 DEF OpRequest, OpWay, HeardSame, Looking, Ahead, Announcing
<1>5. OpTold'
  BY <1>0, <1>1, <1>2 DEF OpRequest, OpWay, OpTold, HeardSame, Looking, Ahead, Announcing, Op!Items
<1>6. OpRaw'
  BY <1>0, <1>1, <1>2 DEF OpRequest, OpWay, OpTold, OpRaw, HeardSame, Looking, Ahead, Announcing, Op!Items
<1>7. OpDue'
  BY <1>0, <1>1, <1>2, FailureIs, OwesOne DEF OpDue, OpRequest, OpWay, OpRaw, HeardSame, Looking, Ahead, Announcing
<1>8. ASSUME NEW o \in Op!Rank, NEW i \in Op!Items
      PROVE  EndsAt(o, i)'
  <2>1. EndsAt(o, i) BY <1>0 DEF OpEnds
  <2>2. CASE step' = "failing"
    BY <1>0, <1>1, <1>2, <2>1, <2>2, EmptyIs, NoEndIs, FailsFresh, FailsStream
    DEF EndsAt, HeardSame, OpRequest, OpWay, OpTold, Announcing, Underway, Looking, Ahead, Op!Items, Kept
  <2>3. CASE step' = "check" /\ Op!Method = "stream" /\ ~request.prepared
    BY <1>0, <1>1, <1>2, <2>1, <2>3, EmptyIs, NoEndIs, FailsFresh, FailsStream
    DEF EndsAt, HeardSame, OpRequest, OpWay, OpTold, Announcing, Underway, Looking, Ahead, Op!Items, Kept
  <2>4. CASE step' = "ready" /\ ~(Op!Method = "stream" /\ ~request.prepared)
    BY <1>0, <1>1, <1>2, <2>1, <2>4, EmptyIs, NoEndIs, FailsFresh, FailsStream
    DEF EndsAt, HeardSame, OpRequest, OpWay, OpTold, Announcing, Underway, Looking, Ahead, Op!Items, Kept
  <2> QED BY <1>1, <2>2, <2>3, <2>4
<1>9. Telemetry => \A i \in Op!Items : SpanAt(i)'
  <2> SUFFICES ASSUME Telemetry, NEW i \in Op!Items PROVE SpanAt(i)' OBVIOUS
  <2>1. SpanAt(i) BY <1>0 DEF OpSpans
  <2>2. CASE step' = "failing"
    BY <1>0, <1>1, <1>2, <2>1, <2>2, OpenIs
    DEF SpanAt, HeardSame, Unannounced, OpRequest, OpWay, OpTold, Announcing, Underway, Looking, Ahead, Op!Items
  <2>3. CASE step' = "check" /\ Op!Method = "stream" /\ ~request.prepared
    BY <1>0, <1>1, <1>2, <2>1, <2>3, OpenIs
    DEF SpanAt, HeardSame, Unannounced, OpRequest, OpWay, OpTold, Announcing, Underway, Looking, Ahead, Op!Items
  <2>4. CASE step' = "ready" /\ ~(Op!Method = "stream" /\ ~request.prepared)
    BY <1>0, <1>1, <1>2, <2>1, <2>4, OpenIs
    DEF SpanAt, HeardSame, Unannounced, OpRequest, OpWay, OpTold, Announcing, Underway, Looking, Ahead, Op!Items
  <2> QED BY <1>1, <2>2, <2>3, <2>4
<1>10. Telemetry => Op!SpanTells'
  BY <1>1 DEF Op!SpanTells
<1>11. Op!Truthful'
  BY <1>0, <1>1, TruthStays
<1>12. OpEnds' /\ OpSpans'
  BY <1>2, <1>8, <1>9, <1>10 DEF OpEnds, OpSpans, HeardSame
<1> QED
  BY <1>1, <1>2, <1>3, <1>4, <1>5, <1>6, <1>7, <1>11, <1>12 DEF OpInv, HeardSame

LEMMA KindKeeps ==
    ASSUME OpInv, Op!Kind
    PROVE  OpInv'
<1>0. OpRequest /\ OpWay /\ OpTold /\ OpRaw /\ OpDue /\ OpHeard /\ OpEnds /\ OpSpans /\ Op!Truthful
  BY DEF OpInv, Op!Kind
<1>1. /\ UNCHANGED <<request, observers, heard, refused, spans>>
      /\ step = "kind" /\ UNCHANGED <<item, raw, told, hold>>
      /\ \/ step' = "check"
         \/ step' = "failing" /\ Op!Method = "stream" /\ due' = <<Op!Failure(FALSE, FALSE)>>
         \/ step' = "settled" /\ Op!Unspoken /\ outcome' = "failed"
  BY <1>0 DEF Op!Kind, Op!Silent, Op!Go, Op!Settle, Op!Throw, Op!ThrowOne, OpWay, Op!Unspoken
<1>2. HeardSame
  BY <1>0, <1>1, Unheard
<1>3. OpRequest'
  BY <1>0, <1>1, <1>2 DEF OpRequest, OpWay, HeardSame, OpSteps, Op!Items, Op!Method
<1>4. OpWay'
  BY <1>0, <1>1, <1>2 DEF OpRequest, OpWay, HeardSame, Looking, Ahead, Announcing
<1>5. OpTold'
  BY <1>0, <1>1, <1>2 DEF OpRequest, OpWay, OpTold, HeardSame, Looking, Ahead, Announcing, Op!Items
<1>6. OpRaw'
  BY <1>0, <1>1, <1>2 DEF OpRequest, OpWay, OpTold, OpRaw, HeardSame, Looking, Ahead, Announcing, Op!Items
<1>7. OpDue'
  BY <1>0, <1>1, <1>2, FailureIs, OwesOne DEF OpDue, OpRequest, OpWay, OpRaw, HeardSame, Looking, Ahead, Announcing
<1>8. ASSUME NEW o \in Op!Rank, NEW i \in Op!Items
      PROVE  EndsAt(o, i)'
  <2>1. EndsAt(o, i) BY <1>0 DEF OpEnds
  <2>2. CASE step' = "check"
    BY <1>0, <1>1, <1>2, <2>1, <2>2, EmptyIs, NoEndIs, FailsFresh, FailsStream
    DEF EndsAt, HeardSame, OpRequest, OpWay, OpTold, Announcing, Underway, Looking, Ahead, Op!Items, Kept
  <2>3. CASE step' = "failing"
    BY <1>0, <1>1, <1>2, <2>1, <2>3, EmptyIs, NoEndIs, FailsFresh, FailsStream
    DEF EndsAt, HeardSame, OpRequest, OpWay, OpTold, Announcing, Underway, Looking, Ahead, Op!Items, Kept
  <2>4. CASE step' = "settled" /\ Op!Unspoken
    <3>1. i = item BY <1>0, <1>1, <2>4, UnspokenOne DEF OpRequest
    <3>2. NoEnd(o, i) /\ RefusedHeard(o, i) BY <1>0, <1>1, <2>1, <3>1 DEF EndsAt, Underway, OpHeard
    <3>3. Closed(o, i)' BY <1>0, <1>1, <1>2, <2>4, <3>2, UnspokenCloses DEF HeardSame, Kept
    <3> QED BY <1>1, <2>4, <3>1, <3>3 DEF EndsAt, Announcing, Underway
  <2> QED BY <1>1, <2>2, <2>3, <2>4
<1>9. Telemetry => \A i \in Op!Items : SpanAt(i)'
  <2> SUFFICES ASSUME Telemetry, NEW i \in Op!Items PROVE SpanAt(i)' OBVIOUS
  <2>1. SpanAt(i) BY <1>0 DEF OpSpans
  <2>2. CASE step' = "check"
    BY <1>0, <1>1, <1>2, <2>1, <2>2, OpenIs
    DEF SpanAt, HeardSame, Unannounced, OpRequest, OpWay, OpTold, Announcing, Underway, Looking, Ahead, Op!Items
  <2>3. CASE step' = "failing"
    BY <1>0, <1>1, <1>2, <2>1, <2>3, OpenIs
    DEF SpanAt, HeardSame, Unannounced, OpRequest, OpWay, OpTold, Announcing, Underway, Looking, Ahead, Op!Items
  <2>4. CASE step' = "settled" /\ Op!Unspoken
    BY <1>0, <1>1, <1>2, <2>1, <2>4, OpenIs
    DEF SpanAt, HeardSame, Unannounced, OpRequest, OpWay, OpTold, Announcing, Underway, Looking, Ahead, Op!Items
  <2> QED BY <1>1, <2>2, <2>3, <2>4
<1>10. Telemetry => Op!SpanTells'
  <2>1. CASE step' # "settled" BY <2>1 DEF Op!SpanTells
  <2>2. CASE step' = "settled" /\ Telemetry
    <3>1. Op!Unspoken /\ outcome' = "failed" /\ Op!Method # "stream" BY <1>1, <2>2 DEF Op!Unspoken
    <3>2. \A i \in Op!Items : i = item BY <1>0, <3>1, UnspokenOne DEF OpRequest
    <3>3. \A i \in Op!Items : Opened(i)
      BY <1>0, <1>1, <2>2, <3>1, <3>2 DEF OpSpans, SpanAt, Underway, Unannounced
    <3> QED BY <1>0, <1>2, <3>1, <3>3, UnspokenTells
  <2> QED BY <2>1, <2>2
<1>11. Op!Truthful'
  BY <1>0, <1>1, TruthStays
<1>12. OpEnds' /\ OpSpans'
  BY <1>2, <1>8, <1>9, <1>10 DEF OpEnds, OpSpans, HeardSame
<1> QED
  BY <1>1, <1>2, <1>3, <1>4, <1>5, <1>6, <1>7, <1>11, <1>12 DEF OpInv, HeardSame

LEMMA CheckKeeps ==
    ASSUME OpInv, Op!Check
    PROVE  OpInv'
<1>0. OpRequest /\ OpWay /\ OpTold /\ OpRaw /\ OpDue /\ OpHeard /\ OpEnds /\ OpSpans /\ Op!Truthful
  BY DEF OpInv, Op!Check
<1>1. /\ UNCHANGED <<request, observers, heard, refused, spans>>
      /\ step = "check" /\ UNCHANGED <<item, raw, told, hold>> /\ Op!Method # "batch"
      /\ \/ step' = IF Op!Method = "stream" THEN "start" ELSE "acquire"
         \/ step' = "failing" /\ due' = <<Op!Failure(FALSE, FALSE)>>
      /\ request.count = 1 /\ item = 1
  <2>1. step = "check" /\ Op!Method # "batch" BY <1>0 DEF Op!Check, OpWay
  <2>2. request.count = 1 BY <1>0, <2>1 DEF OpRequest
  <2>3. item = 1 BY <1>0, <2>2 DEF OpRequest, Op!Items
  <2> QED BY <2>1, <2>2, <2>3 DEF Op!Check, Op!Silent, Op!Go, Op!Settle, Op!Throw, Op!ThrowOne
<1>2. HeardSame
  BY <1>0, <1>1, Unheard
<1>3. OpRequest'
  BY <1>0, <1>1, <1>2 DEF OpRequest, OpWay, HeardSame, OpSteps, Op!Items, Op!Method
<1>4. OpWay'
  BY <1>0, <1>1, <1>2 DEF OpRequest, OpWay, HeardSame, Looking, Ahead, Announcing
<1>5. OpTold'
  BY <1>0, <1>1, <1>2 DEF OpRequest, OpWay, OpTold, HeardSame, Looking, Ahead, Announcing, Op!Items
<1>6. OpRaw'
  BY <1>0, <1>1, <1>2 DEF OpRequest, OpWay, OpTold, OpRaw, HeardSame, Looking, Ahead, Announcing, Op!Items
<1>7. OpDue'
  BY <1>0, <1>1, <1>2, FailureIs, OwesOne DEF OpDue, OpRequest, OpWay, OpRaw, HeardSame, Looking, Ahead, Announcing
<1>8. ASSUME NEW o \in Op!Rank, NEW i \in Op!Items
      PROVE  EndsAt(o, i)'
  <2>1. EndsAt(o, i) BY <1>0 DEF OpEnds
  <2>2. CASE step' = "failing"
    BY <1>0, <1>1, <1>2, <2>1, <2>2, EmptyIs, NoEndIs, FailsFresh, FailsStream
    DEF EndsAt, HeardSame, OpRequest, OpWay, OpTold, Announcing, Underway, Looking, Ahead, Op!Items, Kept
  <2>3. CASE step' = "start" /\ Op!Method = "stream"
    BY <1>0, <1>1, <1>2, <2>1, <2>3, EmptyIs, NoEndIs, FailsFresh, FailsStream
    DEF EndsAt, HeardSame, OpRequest, OpWay, OpTold, Announcing, Underway, Looking, Ahead, Op!Items, Kept
  <2>4. CASE step' = "acquire" /\ Op!Method # "stream"
    BY <1>0, <1>1, <1>2, <2>1, <2>4, EmptyIs, NoEndIs, FailsFresh, FailsStream
    DEF EndsAt, HeardSame, OpRequest, OpWay, OpTold, Announcing, Underway, Looking, Ahead, Op!Items, Kept
  <2> QED BY <1>1, <2>2, <2>3, <2>4
<1>9. Telemetry => \A i \in Op!Items : SpanAt(i)'
  <2> SUFFICES ASSUME Telemetry, NEW i \in Op!Items PROVE SpanAt(i)' OBVIOUS
  <2>1. SpanAt(i) BY <1>0 DEF OpSpans
  <2>2. CASE step' = "failing"
    BY <1>0, <1>1, <1>2, <2>1, <2>2, OpenIs
    DEF SpanAt, HeardSame, Unannounced, OpRequest, OpWay, OpTold, Announcing, Underway, Looking, Ahead, Op!Items
  <2>3. CASE step' = "start" /\ Op!Method = "stream"
    BY <1>0, <1>1, <1>2, <2>1, <2>3, OpenIs
    DEF SpanAt, HeardSame, Unannounced, OpRequest, OpWay, OpTold, Announcing, Underway, Looking, Ahead, Op!Items
  <2>4. CASE step' = "acquire" /\ Op!Method # "stream"
    BY <1>0, <1>1, <1>2, <2>1, <2>4, OpenIs
    DEF SpanAt, HeardSame, Unannounced, OpRequest, OpWay, OpTold, Announcing, Underway, Looking, Ahead, Op!Items
  <2> QED BY <1>1, <2>2, <2>3, <2>4
<1>10. Telemetry => Op!SpanTells'
  BY <1>1 DEF Op!SpanTells
<1>11. Op!Truthful'
  BY <1>0, <1>1, TruthStays
<1>12. OpEnds' /\ OpSpans'
  BY <1>2, <1>8, <1>9, <1>10 DEF OpEnds, OpSpans, HeardSame
<1> QED
  BY <1>1, <1>2, <1>3, <1>4, <1>5, <1>6, <1>7, <1>11, <1>12 DEF OpInv, HeardSame

LEMMA AcquireKeeps ==
    ASSUME OpInv, Op!Acquire
    PROVE  OpInv'
<1>0. OpRequest /\ OpWay /\ OpTold /\ OpRaw /\ OpDue /\ OpHeard /\ OpEnds /\ OpSpans /\ Op!Truthful
  BY DEF OpInv, Op!Acquire
<1>1. /\ UNCHANGED <<request, observers, heard, refused, spans>>
      /\ step = "acquire" /\ UNCHANGED <<item, raw, told>>
      /\ \/ step' = "failing" /\ due' = <<Op!Failure(FALSE, FALSE)>> /\ hold' = hold
         \/ hold' = "held" /\ step' = IF Op!Method = "stream" THEN "open" ELSE "drive"
      /\ item = 1
  BY <1>0 DEF Op!Acquire, Op!Silent, Op!Go, Op!Settle, Op!Throw, Op!ThrowOne, OpRaw
<1>2. HeardSame
  BY <1>0, <1>1, Unheard
<1>3. OpRequest'
  BY <1>0, <1>1, <1>2 DEF OpRequest, OpWay, HeardSame, OpSteps, Op!Items, Op!Method
<1>4. OpWay'
  BY <1>0, <1>1, <1>2 DEF OpRequest, OpWay, HeardSame, Looking, Ahead, Announcing
<1>5. OpTold'
  BY <1>0, <1>1, <1>2 DEF OpRequest, OpWay, OpTold, HeardSame, Looking, Ahead, Announcing, Op!Items
<1>6. OpRaw'
  <2>1. \A i \in Op!Items : raw'[i] = "none" /\ i \in Nat /\ i >= 1 BY <1>0, <1>1 DEF OpRaw, Ahead, Op!Items
  <2>2. step' \in {"failing", "open", "drive"} /\ item' = 1 BY <1>1
  <2> QED BY <1>2, <2>1, <2>2 DEF OpRaw, HeardSame, Ahead, Announcing, Looking
<1>7. OpDue'
  BY <1>0, <1>1, <1>2, FailureIs, OwesOne DEF OpDue, OpRequest, OpWay, OpRaw, HeardSame, Looking, Ahead, Announcing
<1>8. ASSUME NEW o \in Op!Rank, NEW i \in Op!Items
      PROVE  EndsAt(o, i)'
  <2>1. EndsAt(o, i) BY <1>0 DEF OpEnds
  <2>2. CASE step' = "failing"
    BY <1>0, <1>1, <1>2, <2>1, <2>2, EmptyIs, NoEndIs, FailsFresh, FailsStream
    DEF EndsAt, HeardSame, OpRequest, OpWay, OpTold, Announcing, Underway, Looking, Ahead, Op!Items, Kept
  <2>3. CASE step' = "open" /\ Op!Method = "stream"
    BY <1>0, <1>1, <1>2, <2>1, <2>3, EmptyIs, NoEndIs, FailsFresh, FailsStream
    DEF EndsAt, HeardSame, OpRequest, OpWay, OpTold, Announcing, Underway, Looking, Ahead, Op!Items, Kept
  <2>4. CASE step' = "drive" /\ Op!Method # "stream"
    BY <1>0, <1>1, <1>2, <2>1, <2>4, EmptyIs, NoEndIs, FailsFresh, FailsStream
    DEF EndsAt, HeardSame, OpRequest, OpWay, OpTold, Announcing, Underway, Looking, Ahead, Op!Items, Kept
  <2> QED BY <1>1, <2>2, <2>3, <2>4
<1>9. Telemetry => \A i \in Op!Items : SpanAt(i)'
  <2> SUFFICES ASSUME Telemetry, NEW i \in Op!Items PROVE SpanAt(i)' OBVIOUS
  <2>1. SpanAt(i) BY <1>0 DEF OpSpans
  <2>2. CASE step' = "failing"
    BY <1>0, <1>1, <1>2, <2>1, <2>2, OpenIs
    DEF SpanAt, HeardSame, Unannounced, OpRequest, OpWay, OpTold, Announcing, Underway, Looking, Ahead, Op!Items
  <2>3. CASE step' = "open" /\ Op!Method = "stream"
    BY <1>0, <1>1, <1>2, <2>1, <2>3, OpenIs
    DEF SpanAt, HeardSame, Unannounced, OpRequest, OpWay, OpTold, Announcing, Underway, Looking, Ahead, Op!Items
  <2>4. CASE step' = "drive" /\ Op!Method # "stream"
    BY <1>0, <1>1, <1>2, <2>1, <2>4, OpenIs
    DEF SpanAt, HeardSame, Unannounced, OpRequest, OpWay, OpTold, Announcing, Underway, Looking, Ahead, Op!Items
  <2> QED BY <1>1, <2>2, <2>3, <2>4
<1>10. Telemetry => Op!SpanTells'
  BY <1>1 DEF Op!SpanTells
<1>11. Op!Truthful'
  BY <1>0, <1>1, TruthStays
<1>12. OpEnds' /\ OpSpans'
  BY <1>2, <1>8, <1>9, <1>10 DEF OpEnds, OpSpans, HeardSame
<1> QED
  BY <1>1, <1>2, <1>3, <1>4, <1>5, <1>6, <1>7, <1>11, <1>12 DEF OpInv, HeardSame

LEMMA DriveKeeps ==
    ASSUME OpInv, Op!Drive
    PROVE  OpInv'
<1>0. OpRequest /\ OpWay /\ OpTold /\ OpRaw /\ OpDue /\ OpHeard /\ OpEnds /\ OpSpans /\ Op!Truthful
  BY DEF OpInv, Op!Drive
<1>1. /\ UNCHANGED <<request, observers, heard, refused, spans>>
      /\ step = "drive" /\ UNCHANGED <<told, due, hold>> /\ Op!Method # "stream"
      /\ \/ Op!Method \in {"call", "bulk"} /\ step' = "release" /\ raw' = raw /\ item' = item
         \/ raw' = [raw EXCEPT ![item] = "failed"] /\ step' = "release" /\ item' = item
         \/ /\ raw' = [raw EXCEPT ![item] = "ok"]
            /\ \/ item < request.count /\ item' = item + 1 /\ step' = step
               \/ ~(item < request.count) /\ item' = item /\ step' = "release"
  BY <1>0 DEF Op!Drive, Op!Silent, Op!Go, OpWay, Looking
<1>2. HeardSame
  BY <1>0, <1>1, Unheard
<1>3. OpRequest'
  BY <1>0, <1>1, <1>2 DEF OpRequest, OpWay, HeardSame, OpSteps, Op!Items, Op!Method
<1>4. OpWay'
  BY <1>0, <1>1, <1>2 DEF OpRequest, OpWay, HeardSame, Looking, Ahead, Announcing
<1>5. OpTold'
  BY <1>0, <1>1, <1>2 DEF OpRequest, OpWay, OpTold, HeardSame, Looking, Ahead, Announcing, Op!Items
<1>6. OpRaw'
  BY <1>0, <1>1, <1>2 DEF OpRequest, OpWay, OpTold, OpRaw, HeardSame, Looking, Ahead, Announcing, Op!Items
<1>7. OpDue'
  BY <1>1 DEF OpDue
<1>8. ASSUME NEW o \in Op!Rank, NEW i \in Op!Items
      PROVE  EndsAt(o, i)'
  <2>1. EndsAt(o, i) BY <1>0 DEF OpEnds
  <2>2. NoEnd(o, i)'
    BY <1>0, <1>1, <1>2, <2>1 DEF EndsAt, OpTold, OpRequest, Underway, Op!Items, HeardSame
  <2>3. step' \in {"drive", "release"} /\ (i # item' => ~told'[i])
    BY <1>0, <1>1, <1>2 DEF OpTold, OpRequest, Op!Items
  <2> QED BY <2>2, <2>3 DEF EndsAt, Announcing, Underway
<1>9. Telemetry => \A i \in Op!Items : SpanAt(i)'
  <2> SUFFICES ASSUME Telemetry, NEW i \in Op!Items PROVE SpanAt(i)' OBVIOUS
  <2>1. SpanAt(i) BY <1>0 DEF OpSpans
  <2>2. Opened(i)'
    BY <1>0, <1>1, <1>2, <2>1 DEF SpanAt, OpTold, OpRequest, Underway, Op!Items, HeardSame, Unannounced
  <2>3. step' \in {"drive", "release"} /\ (i # item' => ~told'[i])
    BY <1>0, <1>1, <1>2 DEF OpTold, OpRequest, Op!Items
  <2> QED BY <1>1, <1>2, <2>2, <2>3 DEF SpanAt, Announcing, Underway, Looking, Unannounced, HeardSame
<1>10. Telemetry => Op!SpanTells'
  BY <1>1 DEF Op!SpanTells
<1>11. Op!Truthful'
  <2>1. ASSUME NEW o \in Op!Rank, NEW i \in Op!Items PROVE raw'[i] = raw[i] \/ NoEnd(o, i)
    <3>1. EndsAt(o, i) BY <1>0 DEF OpEnds
    <3>2. NoEnd(o, i)
      BY <1>0, <1>1, <3>1 DEF EndsAt, OpTold, OpRequest, Underway, Op!Items
    <3> QED BY <3>2
  <2> QED BY <1>0, <1>1, <2>1, TruthStays
<1>12. OpEnds' /\ OpSpans'
  BY <1>2, <1>8, <1>9, <1>10 DEF OpEnds, OpSpans, HeardSame
<1> QED
  BY <1>1, <1>2, <1>3, <1>4, <1>5, <1>6, <1>7, <1>11, <1>12 DEF OpInv, HeardSame

LEMMA OwedIs ==
    ASSUME OpRequest, OpRaw, step = "release", NEW u \in BOOLEAN
    PROVE  LET e == Op!Failure(raw[item] # "none", raw[item] = "ok") IN
           \/ Op!Owed(u) = <<>> /\ raw[item] = "ok"
           \/ Op!Owed(u) = <<e>>
           \/ Op!Owed(u) = <<e, e>> /\ Op!Method = "bulk" /\ raw[item] = "failed"
<1>1. raw[item] \in {"none", "ok", "failed"} BY DEF OpRequest
<1>2. CASE raw[item] = "none"
  <2>1. Op!Failure(raw[item] # "none", raw[item] = "ok") = Op!Failure(FALSE, FALSE) BY <1>2 DEF Op!Failure
  <2> QED BY <1>2, <2>1 DEF Op!Owed, Op!OwedTwice
<1>3. CASE raw[item] = "failed"
  <2>1. Op!Failure(raw[item] # "none", raw[item] = "ok") = Op!Failure(TRUE, FALSE) BY <1>3 DEF Op!Failure
  <2> QED BY <1>3, <2>1 DEF Op!Owed, Op!OwedTwice
<1>4. CASE raw[item] = "ok"
  <2>1. Op!Failure(raw[item] # "none", raw[item] = "ok") = Op!Failure(TRUE, TRUE) BY <1>4 DEF Op!Failure
  <2> QED BY <1>4, <2>1 DEF Op!Owed, Op!OwedTwice
<1> QED BY <1>1, <1>2, <1>3, <1>4

LEMMA TwoSame ==
    ASSUME NEW e
    PROVE  \A k \in DOMAIN <<e, e>> : <<e, e>>[k] = e
OBVIOUS

LEMMA OwesTwo ==
    ASSUME OpRequest', Op!Method' = "bulk", raw'[item'] = "failed",
           due' = <<Op!Failure(TRUE, FALSE), Op!Failure(TRUE, FALSE)>>
    PROVE  OpDue'
<1>1. \A k \in DOMAIN due' : due'[k] = Op!Failure(TRUE, FALSE) BY TwoSame
<1>2. Op!Failure(raw'[item'] # "none", raw'[item'] = "ok") = Op!Failure(TRUE, FALSE) BY DEF Op!Failure
<1> QED BY <1>1, <1>2 DEF OpDue

LEMMA ReleaseKeeps ==
    ASSUME OpInv, Op!Release
    PROVE  OpInv'
<1>0. OpRequest /\ OpWay /\ OpTold /\ OpRaw /\ OpDue /\ OpHeard /\ OpEnds /\ OpSpans /\ Op!Truthful
  BY DEF OpInv, Op!Release
<1>1. /\ UNCHANGED <<request, observers, heard, refused, spans>>
      /\ step = "release" /\ UNCHANGED <<raw, told>> /\ hold' = "released" /\ Op!Method # "stream"
      /\ \/ /\ step' = "failing" /\ item' = item
            /\ \E u \in BOOLEAN : Op!Owed(u) # <<>> /\ due' = Op!Owed(u)
         \/ step' = "result" /\ item' = 1 /\ raw[item] = "ok"
  <2>1. step = "release" /\ hold' = "released" /\ UNCHANGED <<raw, told, request, observers, heard, refused, spans>> /\ Op!Method # "stream"
    BY <1>0 DEF Op!Release, Op!Silent, OpWay
  <2>2. PICK u \in BOOLEAN :
          IF Op!Owed(u) # <<>> THEN Op!Throw(Op!Owed(u)) /\ UNCHANGED item ELSE Op!Go("result") /\ item' = 1 /\ UNCHANGED due
    BY DEF Op!Release
  <2>3. CASE Op!Owed(u) # <<>> BY <2>1, <2>2, <2>3 DEF Op!Throw
  <2>4. CASE Op!Owed(u) = <<>>
    <3>1. raw[item] = "ok" BY <1>0, <2>1, <2>4, OwedIs
    <3> QED BY <2>1, <2>2, <2>4, <3>1 DEF Op!Go
  <2> QED BY <2>3, <2>4
<1>2. HeardSame
  BY <1>0, <1>1, Unheard
<1>3. OpRequest'
  BY <1>0, <1>1, <1>2 DEF OpRequest, OpWay, HeardSame, OpSteps, Op!Items, Op!Method
<1>4. OpWay'
  BY <1>0, <1>1, <1>2 DEF OpRequest, OpWay, HeardSame, Looking, Ahead, Announcing
<1>5. OpTold'
  BY <1>0, <1>1, <1>2 DEF OpRequest, OpWay, OpTold, HeardSame, Looking, Ahead, Announcing, Op!Items
<1>6. OpRaw'
  BY <1>0, <1>1, <1>2 DEF OpRequest, OpWay, OpTold, OpRaw, HeardSame, Looking, Ahead, Announcing, Op!Items
<1>7. OpDue'
  <2>1. CASE step' = "failing"
    <3>1. PICK u \in BOOLEAN : Op!Owed(u) # <<>> /\ due' = Op!Owed(u) BY <1>1, <2>1
    <3> DEFINE e == Op!Failure(raw[item] # "none", raw[item] = "ok")
    <3>2. due' = <<e>> \/ (due' = <<e, e>> /\ Op!Method = "bulk" /\ raw[item] = "failed")
      BY <1>0, <1>1, <3>1, OwedIs
    <3>3. e \in Errors BY FailureIs
    <3>4. e = Op!Failure(raw'[item'] # "none", raw'[item'] = "ok") BY <1>1, <2>1
    <3>5. raw[item] = "failed" => e = Op!Failure(TRUE, FALSE) BY DEF Op!Failure
    <3> HIDE DEF e
    <3>6. CASE due' = <<e>> BY <3>3, <3>4, <3>6, OwesOne
    <3>7. CASE due' = <<e, e>> /\ Op!Method = "bulk" /\ raw[item] = "failed"
      BY <1>1, <1>2, <1>3, <2>1, <3>5, <3>7, OwesTwo DEF HeardSame
    <3> QED BY <3>2, <3>6, <3>7
  <2> QED BY <1>1, <2>1 DEF OpDue
<1>8. ASSUME NEW o \in Op!Rank, NEW i \in Op!Items
      PROVE  EndsAt(o, i)'
  <2>1. EndsAt(o, i) BY <1>0 DEF OpEnds
  <2>2. CASE step' = "failing"
    BY <1>0, <1>1, <1>2, <2>1, <2>2, EmptyIs, NoEndIs, FailsFresh, FailsStream
    DEF EndsAt, HeardSame, OpRequest, OpWay, OpTold, Announcing, Underway, Looking, Ahead, Op!Items, Kept
  <2>3. CASE step' = "result"
    BY <1>0, <1>1, <1>2, <2>1, <2>3, EmptyIs, NoEndIs, FailsFresh, FailsStream
    DEF EndsAt, HeardSame, OpRequest, OpWay, OpTold, Announcing, Underway, Looking, Ahead, Op!Items, Kept
  <2> QED BY <1>1, <2>2, <2>3
<1>9. Telemetry => \A i \in Op!Items : SpanAt(i)'
  <2> SUFFICES ASSUME Telemetry, NEW i \in Op!Items PROVE SpanAt(i)' OBVIOUS
  <2>1. SpanAt(i) BY <1>0 DEF OpSpans
  <2>2. CASE step' = "failing"
    BY <1>0, <1>1, <1>2, <2>1, <2>2, OpenIs
    DEF SpanAt, HeardSame, Unannounced, OpRequest, OpWay, OpTold, Announcing, Underway, Looking, Ahead, Op!Items
  <2>3. CASE step' = "result"
    BY <1>0, <1>1, <1>2, <2>1, <2>3, OpenIs
    DEF SpanAt, HeardSame, Unannounced, OpRequest, OpWay, OpTold, Announcing, Underway, Looking, Ahead, Op!Items
  <2> QED BY <1>1, <2>2, <2>3
<1>10. Telemetry => Op!SpanTells'
  BY <1>1 DEF Op!SpanTells
<1>11. Op!Truthful'
  BY <1>0, <1>1, TruthStays
<1>12. OpEnds' /\ OpSpans'
  BY <1>2, <1>8, <1>9, <1>10 DEF OpEnds, OpSpans, HeardSame
<1> QED
  BY <1>1, <1>2, <1>3, <1>4, <1>5, <1>6, <1>7, <1>11, <1>12 DEF OpInv, HeardSame

LEMMA ShapeKeeps ==
    ASSUME OpInv, Op!Shape
    PROVE  OpInv'
<1>0. OpRequest /\ OpWay /\ OpTold /\ OpRaw /\ OpDue /\ OpHeard /\ OpEnds /\ OpSpans /\ Op!Truthful
  BY DEF OpInv, Op!Shape
<1>1. /\ UNCHANGED <<request, observers, heard, refused, spans>>
      /\ step = "shape" /\ UNCHANGED <<item, raw, told, hold>> /\ Op!Method # "stream"
      /\ \/ step' = "settled" /\ Op!Unspoken /\ outcome' = "failed"
         \/ step' = "failing" /\ due' = <<Op!Failure(TRUE, TRUE)>>
         \/ step' = "map"
  BY <1>0 DEF Op!Shape, Op!Silent, Op!Go, Op!Settle, Op!Throw, Op!ThrowOne, OpWay, Looking, Op!Unspoken
<1>2. HeardSame
  BY <1>0, <1>1, Unheard
<1>3. OpRequest'
  BY <1>0, <1>1, <1>2 DEF OpRequest, OpWay, HeardSame, OpSteps, Op!Items, Op!Method
<1>4. OpWay'
  BY <1>0, <1>1, <1>2 DEF OpRequest, OpWay, HeardSame, Looking, Ahead, Announcing
<1>5. OpTold'
  BY <1>0, <1>1, <1>2 DEF OpRequest, OpWay, OpTold, HeardSame, Looking, Ahead, Announcing, Op!Items
<1>6. OpRaw'
  BY <1>0, <1>1, <1>2 DEF OpRequest, OpWay, OpTold, OpRaw, HeardSame, Looking, Ahead, Announcing, Op!Items
<1>7. OpDue'
  BY <1>0, <1>1, <1>2, FailureIs, OwesOne DEF OpDue, OpRequest, OpWay, OpRaw, HeardSame, Looking, Ahead, Announcing
<1>8. ASSUME NEW o \in Op!Rank, NEW i \in Op!Items
      PROVE  EndsAt(o, i)'
  <2>1. EndsAt(o, i) BY <1>0 DEF OpEnds
  <2>2. CASE step' = "settled" /\ Op!Unspoken
    <3>1. i = item BY <1>0, <1>1, <2>2, UnspokenOne DEF OpRequest
    <3>2. NoEnd(o, i) /\ RefusedHeard(o, i) BY <1>0, <1>1, <2>1, <3>1 DEF EndsAt, Underway, OpHeard
    <3>3. Closed(o, i)' BY <1>0, <1>1, <1>2, <2>2, <3>2, UnspokenCloses DEF HeardSame, Kept
    <3> QED BY <1>1, <2>2, <3>1, <3>3 DEF EndsAt, Announcing, Underway
  <2>3. CASE step' = "failing"
    BY <1>0, <1>1, <1>2, <2>1, <2>3, EmptyIs, NoEndIs, FailsFresh, FailsStream
    DEF EndsAt, HeardSame, OpRequest, OpWay, OpTold, Announcing, Underway, Looking, Ahead, Op!Items, Kept
  <2>4. CASE step' = "map"
    BY <1>0, <1>1, <1>2, <2>1, <2>4, EmptyIs, NoEndIs, FailsFresh, FailsStream
    DEF EndsAt, HeardSame, OpRequest, OpWay, OpTold, Announcing, Underway, Looking, Ahead, Op!Items, Kept
  <2> QED BY <1>1, <2>2, <2>3, <2>4
<1>9. Telemetry => \A i \in Op!Items : SpanAt(i)'
  <2> SUFFICES ASSUME Telemetry, NEW i \in Op!Items PROVE SpanAt(i)' OBVIOUS
  <2>1. SpanAt(i) BY <1>0 DEF OpSpans
  <2>2. CASE step' = "settled" /\ Op!Unspoken
    BY <1>0, <1>1, <1>2, <2>1, <2>2, OpenIs
    DEF SpanAt, HeardSame, Unannounced, OpRequest, OpWay, OpTold, Announcing, Underway, Looking, Ahead, Op!Items
  <2>3. CASE step' = "failing"
    BY <1>0, <1>1, <1>2, <2>1, <2>3, OpenIs
    DEF SpanAt, HeardSame, Unannounced, OpRequest, OpWay, OpTold, Announcing, Underway, Looking, Ahead, Op!Items
  <2>4. CASE step' = "map"
    BY <1>0, <1>1, <1>2, <2>1, <2>4, OpenIs
    DEF SpanAt, HeardSame, Unannounced, OpRequest, OpWay, OpTold, Announcing, Underway, Looking, Ahead, Op!Items
  <2> QED BY <1>1, <2>2, <2>3, <2>4
<1>10. Telemetry => Op!SpanTells'
  <2>1. CASE step' # "settled" BY <2>1 DEF Op!SpanTells
  <2>2. CASE step' = "settled" /\ Telemetry
    <3>1. Op!Unspoken /\ outcome' = "failed" /\ Op!Method # "stream" BY <1>1, <2>2 DEF Op!Unspoken
    <3>2. \A i \in Op!Items : i = item BY <1>0, <3>1, UnspokenOne DEF OpRequest
    <3>3. \A i \in Op!Items : Opened(i)
      BY <1>0, <1>1, <2>2, <3>1, <3>2 DEF OpSpans, SpanAt, Underway, Unannounced
    <3> QED BY <1>0, <1>2, <3>1, <3>3, UnspokenTells
  <2> QED BY <2>1, <2>2
<1>11. Op!Truthful'
  BY <1>0, <1>1, TruthStays
<1>12. OpEnds' /\ OpSpans'
  BY <1>2, <1>8, <1>9, <1>10 DEF OpEnds, OpSpans, HeardSame
<1> QED
  BY <1>1, <1>2, <1>3, <1>4, <1>5, <1>6, <1>7, <1>11, <1>12 DEF OpInv, HeardSame

LEMMA OneCloses ==
    \A o, i : OneEnd(o, i, Op!ResultTypes) /\ ~Op!Retracted(o, i) /\ Op!Method # "stream" => Closed(o, i)
BY DEF OneEnd, Closed, Op!EndedAsTold, Op!EndsOtherwise

LEMMA FinishedKeeps ==
    ASSUME OpInv, Op!Finished
    PROVE  OpInv'
<1>0. OpRequest /\ OpWay /\ OpTold /\ OpRaw /\ OpDue /\ OpHeard /\ OpEnds /\ OpSpans /\ Op!Truthful
  BY DEF OpInv, Op!Finished
<1>1. /\ UNCHANGED <<request, observers, heard, refused, spans>>
      /\ step = "finished" /\ UNCHANGED <<raw, hold>> /\ Op!Method # "stream"
      /\ told' = [told EXCEPT ![item] = TRUE]
      /\ \/ item < request.count /\ item' = item + 1 /\ step' = "result"
         \/ /\ ~(item < request.count) /\ item' = item /\ step' = "settled"
            /\ outcome' = "ok" \/ (outcome' = "failed" /\ Op!Method = "all" /\ request.kind = "unknown")
  BY <1>0 DEF Op!Finished, Op!Silent, Op!Go, Op!Settle, Op!Concluded, OpWay, Looking
<1>2. HeardSame
  BY <1>0, <1>1, Unheard
<1>3. OpRequest'
  BY <1>0, <1>1, <1>2 DEF OpRequest, OpWay, HeardSame, OpSteps, Op!Items, Op!Method
<1>4. OpWay'
  BY <1>0, <1>1, <1>2 DEF OpRequest, OpWay, HeardSame, Looking, Ahead, Announcing
<1>5. OpTold'
  BY <1>0, <1>1, <1>2 DEF OpRequest, OpWay, OpTold, HeardSame, Looking, Ahead, Announcing, Op!Items
<1>6. OpRaw'
  BY <1>0, <1>1, <1>2 DEF OpRequest, OpWay, OpTold, OpRaw, HeardSame, Looking, Ahead, Announcing, Op!Items
<1>7. OpDue'
  BY <1>1 DEF OpDue
<1>8. ASSUME NEW o \in Op!Rank, NEW i \in Op!Items
      PROVE  EndsAt(o, i)'
  <2>1. EndsAt(o, i) BY <1>0 DEF OpEnds
  <2>2. Kept BY <1>1 DEF Kept
  <2>3. i <= item => Closed(o, i)'
    <3>1. CASE i = item
      <4>1. OneEnd(o, i, Op!ResultTypes) /\ ~Op!Retracted(o, i) BY <1>1, <2>1, <3>1 DEF EndsAt
      <4> QED BY <1>1, <1>2, <2>2, <4>1, OneCloses DEF HeardSame
    <3>2. CASE i < item
      <4>1. told[i] BY <1>0, <1>1, <3>2 DEF OpTold, OpRequest, Looking, Op!Items
      <4> QED BY <1>1, <1>2, <2>1, <2>2, <3>2, <4>1 DEF EndsAt, HeardSame, Op!Items, OpRequest
    <3> QED BY <1>0, <3>1, <3>2 DEF OpRequest, Op!Items
  <2>4. i > item => NoEnd(o, i)' /\ ~told'[i]
    <3> SUFFICES ASSUME i > item PROVE NoEnd(o, i)' /\ ~told'[i] OBVIOUS
    <3>1. i # item /\ Op!Method = "batch" BY <1>0 DEF OpRequest, Op!Items
    <3>2. ~told[i] /\ ~told'[i] BY <1>0, <1>1, <3>1 DEF OpTold, OpRequest, Looking, Op!Items
    <3> QED BY <1>1, <1>2, <2>1, <3>1, <3>2 DEF EndsAt, HeardSame
  <2>5. i <= item => told'[i]
    BY <1>0, <1>1 DEF OpTold, OpRequest, Looking, Op!Items
  <2>6. i \in Nat /\ item \in Nat /\ i <= request.count /\ request.count \in Nat BY <1>0 DEF OpRequest, Op!Items
  <2>7. CASE step' = "result" BY <1>1, <2>3, <2>4, <2>5, <2>6, <2>7 DEF EndsAt, Announcing, Underway
  <2>8. CASE step' = "settled" BY <1>1, <2>3, <2>6, <2>8 DEF EndsAt, Announcing, Underway
  <2> QED BY <1>1, <2>7, <2>8
<1>9. Telemetry => \A i \in Op!Items : SpanAt(i)'
  <2> SUFFICES ASSUME Telemetry, NEW i \in Op!Items PROVE SpanAt(i)' OBVIOUS
  <2>1. SpanAt(i) BY <1>0 DEF OpSpans
  <2>2. i \in Nat /\ item \in Nat /\ i <= request.count /\ request.count \in Nat BY <1>0 DEF OpRequest, Op!Items
  <2>3. i <= item => ~spans[i].open /\ spans[i].ended = <<"success">> /\ Over(i)' /\ told'[i]
    <3>1. i < item => told[i] BY <1>0, <1>1 DEF OpTold, OpRequest, Looking, Op!Items
    <3>2. i <= item => told'[i] BY <1>0, <1>1, <3>1, <2>2 DEF OpRequest, Op!Items
    <3>3. i <= item => ~spans[i].open /\ spans[i].ended = <<"success">>
      BY <1>1, <2>1, <2>2, <3>1 DEF SpanAt, Looking, Over
    <3> QED BY <1>1, <3>2, <3>3 DEF Over
  <2>4. i > item => Opened(i)' /\ ~told'[i]
    <3> SUFFICES ASSUME i > item PROVE Opened(i)' /\ ~told'[i] OBVIOUS
    <3>1. i # item /\ Op!Method = "batch" BY <1>0, <2>2 DEF OpRequest, Op!Items
    <3>2. ~told[i] /\ ~told'[i] BY <1>0, <1>1, <2>2, <3>1 DEF OpTold, OpRequest, Looking, Op!Items
    <3> QED BY <1>1, <1>2, <2>1, <3>1, <3>2 DEF SpanAt, HeardSame
  <2>5. raw'[i] = "ok" BY <1>0, <1>1 DEF OpRaw, Looking
  <2>6. ~Unannounced' BY <1>1, <1>2 DEF Unannounced, HeardSame
  <2>7. CASE step' = "result" BY <1>1, <2>2, <2>3, <2>4, <2>5, <2>6, <2>7 DEF SpanAt, Announcing, Underway, Looking
  <2>8. CASE step' = "settled" BY <1>1, <2>6, <2>8 DEF SpanAt, Announcing, Underway, Looking
  <2> QED BY <1>1, <2>7, <2>8
<1>10. Telemetry => Op!SpanTells'
  <2> SUFFICES ASSUME Telemetry, step' = "settled" PROVE Op!SpanTells' BY DEF Op!SpanTells
  <2>1. ASSUME NEW i \in Op!Items PROVE ~spans'[i].open /\ spans'[i].ended = <<"success">>
    <3>1. SpanAt(i) BY <1>0 DEF OpSpans
    <3>2. i \in Nat /\ item \in Nat /\ (i = item \/ i < item) BY <1>0, <1>1 DEF OpRequest, Op!Items
    <3>3. CASE i = item BY <1>1, <3>1, <3>3 DEF SpanAt
    <3>4. CASE i < item
      <4>1. told[i] BY <1>0, <1>1, <3>2, <3>4 DEF OpTold, OpRequest, Looking, Op!Items
      <4>2. Over(i) BY <1>1, <3>1, <3>2, <3>4, <4>1 DEF SpanAt
      <4> QED BY <1>1, <3>1, <3>4, <4>2 DEF SpanAt, Looking, Over
    <3> QED BY <3>2, <3>3, <3>4
  <2>2. Len(<<"success">>) = 1 OBVIOUS
  <2>3. outcome' = "failed" => Op!Method' = "all" /\ request'.kind = "unknown" BY <1>1, <1>2 DEF HeardSame
  <2>4. ASSUME NEW i \in Op!Items'
        PROVE  ~spans'[i].open /\ spans'[i].ended = <<"success">> /\ Len(spans'[i].ended) <= 1
    <3>1. i \in Op!Items BY <1>2 DEF HeardSame
    <3>2. ~spans'[i].open /\ spans'[i].ended = <<"success">> BY <2>1, <3>1
    <3> QED BY <2>2, <3>2
  <2> QED BY <2>3, <2>4 DEF Op!SpanTells
<1>11. Op!Truthful'
  BY <1>0, <1>1, TruthStays
<1>12. OpEnds' /\ OpSpans'
  BY <1>2, <1>8, <1>9, <1>10 DEF OpEnds, OpSpans, HeardSame
<1> QED
  BY <1>1, <1>2, <1>3, <1>4, <1>5, <1>6, <1>7, <1>11, <1>12 DEF OpInv, HeardSame

LEMMA OpenKeeps ==
    ASSUME OpInv, Op!Open
    PROVE  OpInv'
<1>0. OpRequest /\ OpWay /\ OpTold /\ OpRaw /\ OpDue /\ OpHeard /\ OpEnds /\ OpSpans /\ Op!Truthful
  BY DEF OpInv, Op!Open
<1>1. /\ UNCHANGED <<request, observers, heard, refused, spans>>
      /\ step = "open" /\ UNCHANGED <<item, told, hold>> /\ Op!Method = "stream" /\ hold = "held"
      /\ \/ step' = "failing" /\ due' = <<Op!Failure(TRUE, FALSE)>> /\ raw' = raw /\ failing'
         \/ step' = "read" /\ raw' = [raw EXCEPT ![item] = "ok"]
  BY <1>0 DEF Op!Open, Op!Silent, Op!Go, Op!Settle, Op!Throw, Op!ThrowOne, OpWay
<1>2. HeardSame
  BY <1>0, <1>1, Unheard
<1>3. OpRequest'
  BY <1>0, <1>1, <1>2 DEF OpRequest, OpWay, HeardSame, OpSteps, Op!Items, Op!Method
<1>4. OpWay'
  BY <1>0, <1>1, <1>2 DEF OpRequest, OpWay, HeardSame, Looking, Ahead, Announcing
<1>5. OpTold'
  BY <1>0, <1>1, <1>2 DEF OpRequest, OpWay, OpTold, HeardSame, Looking, Ahead, Announcing, Op!Items
<1>6. OpRaw'
  BY <1>0, <1>1, <1>2 DEF OpRequest, OpWay, OpTold, OpRaw, HeardSame, Looking, Ahead, Announcing, Op!Items
<1>7. OpDue'
  BY <1>0, <1>1, <1>2, FailureIs, OwesOne DEF OpDue, OpRequest, OpWay, OpRaw, HeardSame, Looking, Ahead, Announcing
<1>8. ASSUME NEW o \in Op!Rank, NEW i \in Op!Items
      PROVE  EndsAt(o, i)'
  <2>1. EndsAt(o, i) BY <1>0 DEF OpEnds
  <2>2. CASE step' = "failing"
    BY <1>0, <1>1, <1>2, <2>1, <2>2, EmptyIs, NoEndIs, FailsFresh, FailsStream
    DEF EndsAt, HeardSame, OpRequest, OpWay, OpTold, Announcing, Underway, Looking, Ahead, Op!Items, Kept
  <2>3. CASE step' = "read"
    BY <1>0, <1>1, <1>2, <2>1, <2>3, EmptyIs, NoEndIs, FailsFresh, FailsStream
    DEF EndsAt, HeardSame, OpRequest, OpWay, OpTold, Announcing, Underway, Looking, Ahead, Op!Items, Kept
  <2> QED BY <1>1, <2>2, <2>3
<1>9. Telemetry => \A i \in Op!Items : SpanAt(i)'
  <2> SUFFICES ASSUME Telemetry, NEW i \in Op!Items PROVE SpanAt(i)' OBVIOUS
  <2>1. SpanAt(i) BY <1>0 DEF OpSpans
  <2>2. CASE step' = "failing"
    BY <1>0, <1>1, <1>2, <2>1, <2>2, OpenIs
    DEF SpanAt, HeardSame, Unannounced, OpRequest, OpWay, OpTold, Announcing, Underway, Looking, Ahead, Op!Items
  <2>3. CASE step' = "read"
    BY <1>0, <1>1, <1>2, <2>1, <2>3, OpenIs
    DEF SpanAt, HeardSame, Unannounced, OpRequest, OpWay, OpTold, Announcing, Underway, Looking, Ahead, Op!Items
  <2> QED BY <1>1, <2>2, <2>3
<1>10. Telemetry => Op!SpanTells'
  BY <1>1 DEF Op!SpanTells
<1>11. Op!Truthful'
  BY <1>1, <1>2 DEF Op!Truthful, HeardSame
<1>12. OpEnds' /\ OpSpans'
  BY <1>2, <1>8, <1>9, <1>10 DEF OpEnds, OpSpans, HeardSame
<1> QED
  BY <1>1, <1>2, <1>3, <1>4, <1>5, <1>6, <1>7, <1>11, <1>12 DEF OpInv, HeardSame

LEMMA ReadKeeps ==
    ASSUME OpInv, Op!Read
    PROVE  OpInv'
<1>0. OpRequest /\ OpWay /\ OpTold /\ OpRaw /\ OpDue /\ OpHeard /\ OpEnds /\ OpSpans /\ Op!Truthful
  BY DEF OpInv, Op!Read
<1>1. /\ UNCHANGED <<request, observers, heard, refused, spans>>
      /\ step = "read" /\ UNCHANGED <<item, told, hold>> /\ Op!Method = "stream" /\ hold = "held"
      /\ raw' = raw \/ raw' = [raw EXCEPT ![item] = "failed"]
      /\ \/ step' = "failing" /\ (\E b \in BOOLEAN : due' = <<Op!Failure(TRUE, b)>>) /\ failing'
         \/ step' \in {"read", "cleanup"} /\ failing' = failing
  BY <1>0 DEF Op!Read, Op!Silent, Op!Go, Op!Settle, Op!Throw, Op!ThrowOne, OpWay
<1>2. HeardSame
  BY <1>0, <1>1, Unheard
<1>3. OpRequest'
  BY <1>0, <1>1, <1>2 DEF OpRequest, OpWay, HeardSame, OpSteps, Op!Items, Op!Method
<1>4. OpWay'
  BY <1>0, <1>1, <1>2 DEF OpRequest, OpWay, HeardSame, Looking, Ahead, Announcing
<1>5. OpTold'
  BY <1>0, <1>1, <1>2 DEF OpRequest, OpWay, OpTold, HeardSame, Looking, Ahead, Announcing, Op!Items
<1>6. OpRaw'
  BY <1>0, <1>1, <1>2 DEF OpRequest, OpWay, OpTold, OpRaw, HeardSame, Looking, Ahead, Announcing, Op!Items
<1>7. OpDue'
  BY <1>0, <1>1, <1>2, FailureIs, OwesOne DEF OpDue, OpRequest, OpWay, OpRaw, HeardSame, Looking, Ahead, Announcing
<1>8. ASSUME NEW o \in Op!Rank, NEW i \in Op!Items
      PROVE  EndsAt(o, i)'
  <2>1. EndsAt(o, i) BY <1>0 DEF OpEnds
  <2>2. CASE step' = "failing"
    BY <1>0, <1>1, <1>2, <2>1, <2>2, EmptyIs, NoEndIs, FailsFresh, FailsStream
    DEF EndsAt, HeardSame, OpRequest, OpWay, OpTold, Announcing, Underway, Looking, Ahead, Op!Items, Kept
  <2>3. CASE step' = "read"
    BY <1>0, <1>1, <1>2, <2>1, <2>3, EmptyIs, NoEndIs, FailsFresh, FailsStream
    DEF EndsAt, HeardSame, OpRequest, OpWay, OpTold, Announcing, Underway, Looking, Ahead, Op!Items, Kept
  <2>4. CASE step' = "cleanup"
    BY <1>0, <1>1, <1>2, <2>1, <2>4, EmptyIs, NoEndIs, FailsFresh, FailsStream
    DEF EndsAt, HeardSame, OpRequest, OpWay, OpTold, Announcing, Underway, Looking, Ahead, Op!Items, Kept
  <2> QED BY <1>1, <2>2, <2>3, <2>4
<1>9. Telemetry => \A i \in Op!Items : SpanAt(i)'
  <2> SUFFICES ASSUME Telemetry, NEW i \in Op!Items PROVE SpanAt(i)' OBVIOUS
  <2>1. SpanAt(i) BY <1>0 DEF OpSpans
  <2>2. CASE step' = "failing"
    BY <1>0, <1>1, <1>2, <2>1, <2>2, OpenIs
    DEF SpanAt, HeardSame, Unannounced, OpRequest, OpWay, OpTold, Announcing, Underway, Looking, Ahead, Op!Items
  <2>3. CASE step' = "read"
    BY <1>0, <1>1, <1>2, <2>1, <2>3, OpenIs
    DEF SpanAt, HeardSame, Unannounced, OpRequest, OpWay, OpTold, Announcing, Underway, Looking, Ahead, Op!Items
  <2>4. CASE step' = "cleanup"
    BY <1>0, <1>1, <1>2, <2>1, <2>4, OpenIs
    DEF SpanAt, HeardSame, Unannounced, OpRequest, OpWay, OpTold, Announcing, Underway, Looking, Ahead, Op!Items
  <2> QED BY <1>1, <2>2, <2>3, <2>4
<1>10. Telemetry => Op!SpanTells'
  BY <1>1 DEF Op!SpanTells
<1>11. Op!Truthful'
  BY <1>1, <1>2 DEF Op!Truthful, HeardSame
<1>12. OpEnds' /\ OpSpans'
  BY <1>2, <1>8, <1>9, <1>10 DEF OpEnds, OpSpans, HeardSame
<1> QED
  BY <1>1, <1>2, <1>3, <1>4, <1>5, <1>6, <1>7, <1>11, <1>12 DEF OpInv, HeardSame

LEMMA CleanupKeeps ==
    ASSUME OpInv, Op!Cleanup
    PROVE  OpInv'
<1>0. OpRequest /\ OpWay /\ OpTold /\ OpRaw /\ OpDue /\ OpHeard /\ OpEnds /\ OpSpans /\ Op!Truthful
  BY DEF OpInv, Op!Cleanup
<1>1. /\ UNCHANGED <<request, observers, heard, refused, spans>>
      /\ step = "cleanup" /\ UNCHANGED <<item, told, raw>> /\ Op!Method = "stream" /\ hold' = "released"
      /\ \/ step' = "failing" /\ (\E b \in BOOLEAN : due' = <<Op!Failure(TRUE, b)>>) /\ failing'
         \/ step' = "end" /\ (failing => failing')
  <2>1. step = "cleanup" /\ UNCHANGED <<request, observers, heard, refused, spans, item, told, raw>>
        /\ Op!Method = "stream" /\ hold' = "released"
    BY <1>0 DEF Op!Cleanup, Op!Silent, OpWay
  <2>2. PICK returned \in BOOLEAN, released \in BOOLEAN :
          /\ failing' = (failing \/ ~returned \/ ~released)
          /\ IF released THEN Op!Go("end") /\ UNCHANGED due ELSE Op!ThrowOne(TRUE, ~failing /\ returned)
    BY DEF Op!Cleanup
  <2>3. (~failing /\ returned) \in BOOLEAN OBVIOUS
  <2> QED BY <2>1, <2>2, <2>3 DEF Op!Go, Op!ThrowOne, Op!Throw
<1>2. HeardSame
  BY <1>0, <1>1, Unheard
<1>3. OpRequest'
  BY <1>0, <1>1, <1>2 DEF OpRequest, OpWay, HeardSame, OpSteps, Op!Items, Op!Method
<1>4. OpWay'
  BY <1>0, <1>1, <1>2 DEF OpRequest, OpWay, HeardSame, Looking, Ahead, Announcing
<1>5. OpTold'
  BY <1>0, <1>1, <1>2 DEF OpRequest, OpWay, OpTold, HeardSame, Looking, Ahead, Announcing, Op!Items
<1>6. OpRaw'
  BY <1>0, <1>1, <1>2 DEF OpRequest, OpWay, OpTold, OpRaw, HeardSame, Looking, Ahead, Announcing, Op!Items
<1>7. OpDue'
  BY <1>0, <1>1, <1>2, FailureIs, OwesOne DEF OpDue, OpRequest, OpWay, OpRaw, HeardSame, Looking, Ahead, Announcing
<1>8. ASSUME NEW o \in Op!Rank, NEW i \in Op!Items
      PROVE  EndsAt(o, i)'
  <2>1. EndsAt(o, i) BY <1>0 DEF OpEnds
  <2>2. CASE step' = "failing"
    BY <1>0, <1>1, <1>2, <2>1, <2>2, EmptyIs, NoEndIs, FailsFresh, FailsStream
    DEF EndsAt, HeardSame, OpRequest, OpWay, OpTold, Announcing, Underway, Looking, Ahead, Op!Items, Kept
  <2>3. CASE step' = "end"
    BY <1>0, <1>1, <1>2, <2>1, <2>3, EmptyIs, NoEndIs, FailsFresh, FailsStream
    DEF EndsAt, HeardSame, OpRequest, OpWay, OpTold, Announcing, Underway, Looking, Ahead, Op!Items, Kept
  <2> QED BY <1>1, <2>2, <2>3
<1>9. Telemetry => \A i \in Op!Items : SpanAt(i)'
  <2> SUFFICES ASSUME Telemetry, NEW i \in Op!Items PROVE SpanAt(i)' OBVIOUS
  <2>1. SpanAt(i) BY <1>0 DEF OpSpans
  <2>2. CASE step' = "failing"
    BY <1>0, <1>1, <1>2, <2>1, <2>2, OpenIs
    DEF SpanAt, HeardSame, Unannounced, OpRequest, OpWay, OpTold, Announcing, Underway, Looking, Ahead, Op!Items
  <2>3. CASE step' = "end"
    BY <1>0, <1>1, <1>2, <2>1, <2>3, OpenIs
    DEF SpanAt, HeardSame, Unannounced, OpRequest, OpWay, OpTold, Announcing, Underway, Looking, Ahead, Op!Items
  <2> QED BY <1>1, <2>2, <2>3
<1>10. Telemetry => Op!SpanTells'
  BY <1>1 DEF Op!SpanTells
<1>11. Op!Truthful'
  BY <1>1, <1>2 DEF Op!Truthful, HeardSame
<1>12. OpEnds' /\ OpSpans'
  BY <1>2, <1>8, <1>9, <1>10 DEF OpEnds, OpSpans, HeardSame
<1> QED
  BY <1>1, <1>2, <1>3, <1>4, <1>5, <1>6, <1>7, <1>11, <1>12 DEF OpInv, HeardSame

(* What an event adds to what was heard. *)
LEMMA HearsNoEnd ==
    ASSUME NEW o, NEW i, heard[o][i] \in Seq(Event), NEW e \in Event, NoEnd(o, i)
    PROVE  /\ heard'[o][i] = heard[o][i] => NoEnd(o, i)'
           /\ heard'[o][i] = Append(heard[o][i], e) =>
                /\ e.type \notin Op!EndTypes => NoEnd(o, i)'
                /\ e.type \in Op!EndTypes =>
                     /\ OneEnd(o, i, {e.type})'
                     /\ \A types : e.type \in types => OneEnd(o, i, types)'
                     /\ \A k \in Op!Endings(o, i)' : heard'[o][i][k] = e
<1>1. /\ Ends(heard[o][i]) = {} /\ Op!Endings(o, i)' = Ends(heard'[o][i])
  BY NoneEmpty DEF NoEnd, Op!Endings, Ends
<1>2. CASE heard'[o][i] = heard[o][i] BY <1>1, <1>2 DEF NoEnd
<1>3. CASE heard'[o][i] = Append(heard[o][i], e)
  <2> DEFINE h == heard[o][i]
             last == Len(h) + 1
  <2>1. /\ Append(h, e)[last] = e
        /\ Ends(Append(h, e)) = IF e.type \in Op!EndTypes THEN {last} ELSE {}
    <3>1. h \in Seq(Event) /\ Ends(h) = {} BY <1>1
    <3> HIDE DEF h
    <3>2. /\ Append(h, e)[Len(h) + 1] = e
          /\ Ends(Append(h, e)) = Ends(h) \cup (IF e.type \in Op!EndTypes THEN {Len(h) + 1} ELSE {})
      BY <3>1, Appended
    <3> QED BY <3>1, <3>2
  <2> HIDE DEF h, last
  <2>2. /\ heard'[o][i][last] = e
        /\ Op!Endings(o, i)' = IF e.type \in Op!EndTypes THEN {last} ELSE {}
    BY <1>1, <1>3, <2>1 DEF h
  <2>3. e.type \notin Op!EndTypes => NoEnd(o, i)' BY <2>2 DEF NoEnd
  <2>4. e.type \in Op!EndTypes => \A types : e.type \in types => OneEnd(o, i, types)' BY <2>2 DEF OneEnd
  <2>5. e.type \in Op!EndTypes => \A k \in Op!Endings(o, i)' : heard'[o][i][k] = e BY <2>2
  <2>6. e.type \in {e.type} OBVIOUS
  <2> QED BY <1>1, <1>3, <2>3, <2>4, <2>5, <2>6 DEF NoEnd
<1> QED BY <1>2, <1>3

(* The last of its errors ends a query for whoever heard of it. *)
LEMMA HearsError ==
    ASSUME NEW o, NEW i, heard[o][i] \in Seq(Event), NEW e \in Errors,
           heard'[o][i] = Append(heard[o][i], e),
           UNCHANGED <<request, observers>>, Op!Method = "stream" => hold' = "none",
           RefusedHeard(o, i)', Op!Retracted(o, i) => Op!Retracted(o, i)',
           \/ NoEnd(o, i)
           \/ HalfEnd(o, i)
           \/ OneEnd(o, i, {"error"}) /\ Op!Method = "bulk" /\ raw'[i] = "failed"
    PROVE  Closed(o, i)'
<1>1. Op!Method' = Op!Method BY DEF Op!Method
<1>2. e \in Event /\ e.type = "error" /\ e.type \in Op!EndTypes BY DEF Errors, Op!EndTypes
<1>3. "error" \notin Op!ResultTypes BY DEF Op!ResultTypes
<1>4. CASE NoEnd(o, i)
  <2>1. OneEnd(o, i, {"error"})' BY <1>2, <1>4, HearsNoEnd
  <2>2. ~Op!Retracted(o, i)' BY <1>3, <2>1 DEF OneEnd, RefusedHeard
  <2> QED BY <1>1, <2>1, <2>2 DEF OneEnd, Closed, Op!EndedAsTold, Op!EndsOtherwise
<1>5. ASSUME NEW k \in Op!Endings(o, i), Op!Endings(o, i) = {k},
             \/ heard[o][i][k].type \in Op!ResultTypes /\ Op!Retracted(o, i)
             \/ heard[o][i][k].type = "error" /\ Op!Method = "bulk" /\ raw'[i] = "failed"
      PROVE  Closed(o, i)'
  <2> DEFINE h == heard[o][i]
             l == Len(h) + 1
  <2>1. k \in DOMAIN h BY DEF Op!Endings
  <2>2. /\ Append(h, e)[l] = e /\ Append(h, e)[k] = h[k] /\ k < l
        /\ Ends(Append(h, e)) = Ends(h) \cup {l}
    BY <1>2, <2>1, Appended
  <2>3. Ends(h) = {k} /\ Op!Endings(o, i)' = Ends(heard'[o][i]) BY <1>5, NoneEmpty DEF Op!Endings, Ends
  <2> HIDE DEF h, l
  <2>4. /\ Op!Endings(o, i)' = {k, l} /\ k < l /\ heard'[o][i][l].type = "error"
        /\ heard'[o][i][k] = heard[o][i][k]
    BY <1>2, <2>2, <2>3 DEF h
  <2>5. CASE heard[o][i][k].type \in Op!ResultTypes /\ Op!Retracted(o, i)
    <3>1. Op!EndsAsResultAndError(o, i)' BY <2>4, <2>5 DEF Op!EndsAsResultAndError
    <3> QED BY <1>1, <2>5, <3>1 DEF Closed, Op!EndedAsTold
  <2>6. CASE heard[o][i][k].type = "error" /\ Op!Method = "bulk" /\ raw'[i] = "failed"
    <3>1. ~Op!Retracted(o, i)' BY <1>3, <2>4, <2>6 DEF RefusedHeard
    <3>2. Op!EndsOtherwise(o, i)' BY <1>1, <2>4, <2>6 DEF Op!EndsOtherwise
    <3> QED BY <1>1, <2>6, <3>1, <3>2 DEF Closed, Op!EndedAsTold
  <2> QED BY <1>5, <2>5, <2>6
<1>6. CASE HalfEnd(o, i) BY <1>5, <1>6 DEF HalfEnd
<1>7. CASE OneEnd(o, i, {"error"}) /\ Op!Method = "bulk" /\ raw'[i] = "failed" BY <1>5, <1>7 DEF OneEnd
<1> QED BY <1>4, <1>6, <1>7

LEMMA HearsMore ==
    ASSUME NEW o, NEW i, heard[o][i] \in Seq(Event), NEW e \in Event,
           heard'[o][i] = Append(heard[o][i], e), ErrorsOnly(o, i)
    PROVE  /\ e.type = "error" => ErrorsOnly(o, i)'
           /\ e.type \in {"end", "endFailed"} /\ Op!Method' = "stream" /\ hold' = "released" => Closed(o, i)'
<1> DEFINE h == heard[o][i]
           l == Len(h) + 1
<1>1. /\ Append(h, e)[l] = e /\ Len(Append(h, e)) = l
      /\ \A k \in DOMAIN h : Append(h, e)[k] = h[k]
      /\ Ends(Append(h, e)) \subseteq Ends(h) \cup {l}
  BY Appended
<1>2. /\ Op!Endings(o, i)' = Ends(heard'[o][i]) /\ Ends(h) \subseteq DOMAIN h
      /\ \A k \in Ends(h) : h[k].type = "error"
  BY NoneEmpty DEF Op!Endings, Ends, ErrorsOnly
<1> HIDE DEF h, l
<1>3. /\ heard'[o][i][l] = e /\ Len(heard'[o][i]) = l
      /\ \A k \in Op!Endings(o, i)' : k # l => heard'[o][i][k].type = "error"
  BY <1>1, <1>2 DEF h
<1>4. e.type = "error" => ErrorsOnly(o, i)' BY <1>3 DEF ErrorsOnly
<1>5. e.type \in {"end", "endFailed"} /\ Op!Method' = "stream" /\ hold' = "released" => Op!EndedAsTold(o, i)'
  BY <1>3 DEF Op!EndedAsTold, Op!EndsAsStream
<1> QED BY <1>4, <1>5 DEF Closed

(* What the observer of OpenTelemetry makes of an event. *)
LEMMA SpanHears ==
    ASSUME NEW i, spans[i] \in Span, NEW type, spans'[i] = Op!Observe(spans[i], type)
    PROVE  /\ Unopened(i) /\ type \in {"ready", "bulkReady"} => Opened(i)'
           /\ type \in {"start", "result"} => spans'[i] = spans[i]
           /\ Opened(i) /\ type \in {"mapped", "bulkResult", "end"} =>
                ~spans'[i].open /\ spans'[i].ended = <<"success">>
           /\ (Opened(i) \/ OverFailed(i)) /\ type \in {"error", "endFailed"} => OverFailed(i)'
           /\ Unopened(i) /\ type \notin {"ready", "bulkReady"} => Unopened(i)'
<1>1. spans[i] = [open |-> spans[i].open, ended |-> spans[i].ended] /\ spans[i].open \in BOOLEAN BY DEF Span
<1>2. \A how : Append(<<>>, how) = <<how>> OBVIOUS
<1>3. \A how : ~spans[i].open => Op!Finish(spans[i], how) = spans[i] BY DEF Op!Finish
<1>4. ASSUME Opened(i), NEW how PROVE Op!Finish(spans[i], how) = [open |-> FALSE, ended |-> <<how>>]
  BY <1>1, <1>2, <1>4 DEF Op!Finish, Opened
<1>5. Unopened(i) => Op!Begin(spans[i]).open /\ Op!Begin(spans[i]).ended = <<>>
  <2> SUFFICES ASSUME Unopened(i) PROVE Op!Begin(spans[i]).open /\ Op!Begin(spans[i]).ended = <<>> OBVIOUS
  <2>1. Op!Finish(spans[i], "error") = spans[i] BY <1>3 DEF Unopened
  <2>2. spans[i].ended = <<>> BY DEF Unopened
  <2>3. Op!Begin(spans[i]) = [spans[i] EXCEPT !.open = TRUE] BY Zenon, <2>1 DEF Op!Begin
  <2>4. [spans[i] EXCEPT !.open = TRUE].open BY DEF Span
  <2>5. [spans[i] EXCEPT !.open = TRUE].ended = spans[i].ended BY DEF Span
  <2> QED BY <2>2, <2>3, <2>4, <2>5
<1>6. Unopened(i) /\ type \in {"ready", "bulkReady"} => Opened(i)'
  <2> SUFFICES ASSUME Unopened(i), type \in {"ready", "bulkReady"} PROVE Opened(i)' OBVIOUS
  <2>1. Op!Observe(spans[i], type) = Op!Begin(spans[i]) BY DEF Op!Observe
  <2> QED BY <1>5, <2>1 DEF Opened
<1>7. type \in {"start", "result"} => spans'[i] = spans[i] BY DEF Op!Observe
<1>8. Opened(i) /\ type \in {"mapped", "bulkResult", "end"} =>
        ~spans'[i].open /\ spans'[i].ended = <<"success">>
  <2> SUFFICES ASSUME Opened(i), type \in {"mapped", "bulkResult", "end"}
               PROVE  ~spans'[i].open /\ spans'[i].ended = <<"success">>
    OBVIOUS
  <2>1. Op!Observe(spans[i], type) = Op!Finish(spans[i], "success") BY DEF Op!Observe
  <2>2. spans'[i] = [open |-> FALSE, ended |-> <<"success">>] BY <1>4, <2>1
  <2> QED BY <2>2
<1>9. Opened(i) /\ type \in {"error", "endFailed"} => OverFailed(i)'
  <2> SUFFICES ASSUME Opened(i), type \in {"error", "endFailed"} PROVE OverFailed(i)' OBVIOUS
  <2>1. Op!Observe(spans[i], type) = Op!Finish(spans[i], "error") BY DEF Op!Observe
  <2>2. spans'[i] = [open |-> FALSE, ended |-> <<"error">>] BY <1>4, <2>1
  <2> QED BY <2>2 DEF OverFailed
<1>10. OverFailed(i) /\ type \in {"error", "endFailed"} => OverFailed(i)' BY <1>3 DEF Op!Observe, OverFailed
<1>11. Unopened(i) /\ type \notin {"ready", "bulkReady"} => Unopened(i)' BY <1>3 DEF Op!Observe, Unopened
<1> QED BY <1>6, <1>7, <1>8, <1>9, <1>10, <1>11

LEMMA SpanStays ==
    ASSUME NEW i, spans'[i] = spans[i]
    PROVE  /\ Unopened(i)' <=> Unopened(i)
           /\ Opened(i)' <=> Opened(i)
           /\ Over(i)' <=> Over(i)
           /\ OverFailed(i)' <=> OverFailed(i)
BY DEF Unopened, Opened, Over, OverFailed

(* An error that is told says what was done for its query. *)
LEMMA TruthTold ==
    ASSUME OpRequest, OpHeard, Op!Truthful, UNCHANGED <<request, observers, raw>>,
           NEW i \in Op!Items, NEW e \in Event,
           \A o \in Op!Rank, j \in Op!Items :
             heard'[o][j] = heard[o][j] \/ (j = i /\ heard'[o][j] = Append(heard[o][j], e)),
           Op!Method # "stream" /\ e.type = "error" => e = Op!Failure(raw[i] # "none", raw[i] = "ok")
    PROVE  Op!Truthful'
<1>1. Op!Rank' = Op!Rank /\ Op!Items' = Op!Items /\ Op!Method' = Op!Method BY DEF Op!Rank, Op!Items, Op!Method
<1> SUFFICES ASSUME Op!Method # "stream", NEW o \in Op!Rank, NEW j \in Op!Items, NEW k \in DOMAIN heard'[o][j],
                    heard'[o][j][k].type = "error"
             PROVE  heard'[o][j][k] = Op!Failure(raw[j] # "none", raw[j] = "ok")
  BY <1>1 DEF Op!Truthful, Op!Failure
<1>2. CASE heard'[o][j] = heard[o][j] BY <1>2 DEF Op!Truthful
<1>3. CASE j = i /\ heard'[o][j] = Append(heard[o][j], e)
  <2>1. heard[o][j] \in Seq(Event) BY DEF OpHeard
  <2>2. \/ k \in DOMAIN heard[o][j] /\ heard'[o][j][k] = heard[o][j][k]
        \/ heard'[o][j][k] = e
    <3> DEFINE h == heard[o][j]
    <3>1. /\ DOMAIN Append(h, e) = 1 .. Len(h) + 1 /\ DOMAIN h = 1 .. Len(h) /\ Len(h) \in Nat
          /\ Append(h, e)[Len(h) + 1] = e /\ \A m \in DOMAIN h : Append(h, e)[m] = h[m]
      BY <2>1, Appended
    <3>2. k \in 1 .. Len(h) \/ k = Len(h) + 1 BY <1>3, <3>1
    <3> QED BY <1>3, <3>1, <3>2
  <2> QED BY <1>3, <2>2 DEF Op!Truthful
<1> QED BY <1>2, <1>3

(* An event is told of a query: up to the observer that throws, or to all.  *)
Reached(i, e, all, n) ==
    /\ OpHeard'
    /\ Op!Rank' = Op!Rank /\ Op!Items' = Op!Items /\ Op!Method' = Op!Method /\ Op!Unspoken' = Op!Unspoken
    /\ Telemetry' = Telemetry /\ (Unannounced' <=> Unannounced)
    /\ \A o \in Op!Rank, j \in Op!Items :
         /\ heard[o][j] \in Seq(Event)
         /\ j # i => /\ heard'[o][j] = heard[o][j]
                     /\ NoEnd(o, j)' <=> NoEnd(o, j)
                     /\ Kept => (Closed(o, j)' <=> Closed(o, j))
         /\ j = i => /\ heard'[o][j] = IF all \/ n = 0 \/ o <= n THEN Append(heard[o][j], e) ELSE heard[o][j]
                     /\ Op!Retracted(o, j)' <=>
                          (Op!Retracted(o, j) \/ (n # 0 /\ o <= n /\ e.type \in Op!ResultTypes))
         /\ RefusedHeard(o, j) /\ RefusedHeard(o, j)'
    /\ n # 0 => n \in Op!Rank /\ e.type \in refused'[n][i]
    /\ \A o \in Op!Rank : o \in Nat /\ o # 0
    /\ \A j \in Op!Items : spans[j] \in Span
    /\ Telemetry =>
         \A j \in Op!Items :
           /\ j # i => /\ spans'[j] = spans[j]
                       /\ Unopened(j)' <=> Unopened(j)
                       /\ Opened(j)' <=> Opened(j)
                       /\ Over(j)' <=> Over(j)
                       /\ OverFailed(j)' <=> OverFailed(j)
           /\ j = i => spans'[j] = IF all \/ n = 0 THEN Op!Observe(spans[j], e.type) ELSE spans[j]

LEMMA Reaches ==
    ASSUME OpRequest, OpHeard, UNCHANGED <<request, observers>>,
           NEW i \in Op!Items, NEW e \in Event, NEW n \in Op!Thrower, NEW all \in BOOLEAN,
           NEW hearers \in SUBSET Op!Rank, Op!Deliver(i, e, hearers, n),
           hearers = IF all THEN Op!Rank ELSE Op!FailFast(n)
    PROVE  Reached(i, e, all, n)
<1>0. \A o \in Op!Rank : o \in hearers <=> all \/ o \in Op!FailFast(n) OBVIOUS
<1>1. OpHeard' /\ HeardBy(i, e, hearers, n)
  <2>1. \A o \in Op!Rank : o <= n => o \in hearers
    <3>1. \A o \in Op!Rank : o \in Nat /\ o >= 1 BY RankIs
    <3> QED BY <1>0, <3>1 DEF Op!FailFast
  <2> QED BY <2>1, Delivered
<1>2. /\ OpHeard'
      /\ \A o \in Op!Rank, j \in Op!Items :
           heard'[o][j] = IF j = i /\ o \in hearers THEN Append(heard[o][j], e) ELSE heard[o][j]
      /\ \A o \in Op!Rank, j \in Op!Items :
           refused'[o][j] = IF j = i /\ o = n THEN refused[o][j] \cup {e.type} ELSE refused[o][j]
      /\ Telemetry =>
           \A j \in Op!Items :
             spans'[j] = IF j = i /\ Len(observers) \in hearers THEN Op!Observe(spans[j], e.type) ELSE spans[j]
  BY <1>1 DEF HeardBy
<1>3. Op!Rank' = Op!Rank /\ Op!Items' = Op!Items /\ Op!Method' = Op!Method BY DEF Op!Rank, Op!Items, Op!Method
<1>4. Op!Unspoken' = Op!Unspoken /\ Telemetry' = Telemetry /\ (Unannounced' <=> Unannounced)
  BY DEF Op!Unspoken, Op!PreparedAccepts, Op!Accepts, Op!Method, Telemetry, Unannounced
<1>5. \A o \in Op!Rank : o \in Nat /\ o # 0 /\ o <= Len(observers) BY RankIs
<1>6. n = 0 \/ n \in Op!Rank BY RankIs
<1>7. \A o \in Op!Rank : o \in hearers <=> all \/ n = 0 \/ o <= n
  <2>1. n \in Nat BY <1>5, <1>6
  <2> QED BY <1>0, <1>5, <2>1 DEF Op!FailFast
<1>8. Telemetry => (Len(observers) \in hearers <=> all \/ n = 0)
  <2> SUFFICES ASSUME Telemetry PROVE Len(observers) \in hearers <=> all \/ n = 0 OBVIOUS
  <2>1. Len(observers) \in Op!Rank /\ n # Len(observers) /\ Len(observers) \in Nat BY RankIs
  <2>3. n # 0 => ~(Len(observers) <= n)
    <3>1. n # 0 => n \in Nat /\ n <= Len(observers) /\ n # Len(observers) BY <1>5, <1>6, <2>1
    <3> QED BY <2>1, <3>1
  <2>4. Len(observers) \in hearers <=> all \/ n = 0 \/ Len(observers) <= n BY <1>7, <2>1
  <2> QED BY <2>3, <2>4
<1>9. ASSUME NEW o \in Op!Rank, NEW j \in Op!Items
      PROVE  /\ heard[o][j] \in Seq(Event)
             /\ j # i => /\ heard'[o][j] = heard[o][j]
                         /\ NoEnd(o, j)' <=> NoEnd(o, j)
                         /\ Kept => (Closed(o, j)' <=> Closed(o, j))
             /\ j = i => /\ heard'[o][j] = IF all \/ n = 0 \/ o <= n THEN Append(heard[o][j], e) ELSE heard[o][j]
                         /\ Op!Retracted(o, j)' <=>
                              (Op!Retracted(o, j) \/ (n # 0 /\ o <= n /\ e.type \in Op!ResultTypes))
             /\ RefusedHeard(o, j) /\ RefusedHeard(o, j)'
  <2>1. heard[o][j] \in Seq(Event) BY DEF OpHeard
  <2>2. RefusedHeard(o, j) /\ RefusedHeard(o, j)' BY <1>2, <1>3 DEF OpHeard
  <2>3. CASE j # i
    <3>1. heard'[o][j] = heard[o][j] /\ \A p \in Op!Rank : refused'[p][j] = refused[p][j] BY <1>2, <2>3
    <3>2. /\ Op!Endings(o, j)' = Op!Endings(o, j)
          /\ Kept => (Closed(o, j)' <=> Closed(o, j))
      BY <3>1, EndsAlike
    <3> QED BY <2>1, <2>2, <2>3, <3>1, <3>2 DEF NoEnd
  <2>4. CASE j = i
    <3>1. Op!Retracted(o, j)' <=>
            (Op!Retracted(o, j) \/ (n # 0 /\ o <= n /\ e.type \in Op!ResultTypes))
      <4>1. n # 0 => n \in Op!Rank BY <1>6
      <4>2. \A p \in Op!Rank : p \in Nat /\ p # 0 BY <1>5
      <4>3. \A p \in Op!Rank : refused'[p][j] = IF p = n THEN refused[p][j] \cup {e.type} ELSE refused[p][j]
        BY <1>2, <2>4
      <4>4. \A p \in Op!Rank :
              refused'[p][j] \cap Op!ResultTypes # {} <=>
                (refused[p][j] \cap Op!ResultTypes # {} \/ (p = n /\ e.type \in Op!ResultTypes))
        BY <4>3
      <4>5. n # 0 => (n >= o <=> o <= n) BY <4>1, <4>2
      <4>6. n = 0 => n \notin Op!Rank BY <4>2
      <4>7. Op!ResultTypes' = Op!ResultTypes BY DEF Op!ResultTypes
      <4> QED BY <1>3, <4>1, <4>4, <4>5, <4>6, <4>7 DEF Op!Retracted
    <3> QED BY <1>2, <1>7, <2>1, <2>2, <2>4, <3>1
  <2> QED BY <2>3, <2>4
<1>10. n # 0 => n \in Op!Rank /\ e.type \in refused'[n][i] BY <1>2, <1>6
<1>11. \A j \in Op!Items : spans[j] \in Span BY DEF OpHeard
<1>12. ASSUME Telemetry, NEW j \in Op!Items
       PROVE  /\ j # i => /\ spans'[j] = spans[j]
                          /\ Unopened(j)' <=> Unopened(j)
                          /\ Opened(j)' <=> Opened(j)
                          /\ Over(j)' <=> Over(j)
                          /\ OverFailed(j)' <=> OverFailed(j)
              /\ j = i => spans'[j] = IF all \/ n = 0 THEN Op!Observe(spans[j], e.type) ELSE spans[j]
  <2>1. CASE j # i
    <3>1. spans'[j] = spans[j] BY <1>2, <1>12, <2>1
    <3> QED BY <2>1, <3>1, SpanStays
  <2>2. CASE j = i BY <1>2, <1>8, <1>12, <2>2
  <2> QED BY <2>1, <2>2
<1> QED BY <1>2, <1>3, <1>4, <1>5, <1>9, <1>10, <1>11, <1>12 DEF Reached

SilentFailure ==
    /\ step \in {"result", "map"} /\ Op!ThrowOne(TRUE, TRUE) /\ Op!Silent
    /\ UNCHANGED <<request, observers, item, raw, told, hold, failing, rows, outcome>>

LEMMA SilentFailureKeeps ==
    ASSUME OpInv, SilentFailure
    PROVE  OpInv'
<1>0. OpRequest /\ OpWay /\ OpTold /\ OpRaw /\ OpDue /\ OpHeard /\ OpEnds /\ OpSpans /\ Op!Truthful
  BY DEF OpInv, SilentFailure
<1>1. /\ UNCHANGED <<request, observers, heard, refused, spans>>
      /\ step \in {"result", "map"} /\ UNCHANGED <<item, raw, told, hold>> /\ Op!Method # "stream"
      /\ step' = "failing" /\ due' = <<Op!Failure(TRUE, TRUE)>>
  BY <1>0 DEF SilentFailure, Op!Silent, Op!Throw, Op!ThrowOne, OpWay, Looking
<1>2. HeardSame
  BY <1>0, <1>1, Unheard
<1>3. OpRequest'
  BY <1>0, <1>1, <1>2 DEF OpRequest, OpWay, HeardSame, OpSteps, Op!Items, Op!Method
<1>4. OpWay'
  BY <1>0, <1>1, <1>2 DEF OpRequest, OpWay, HeardSame, Looking, Ahead, Announcing
<1>5. OpTold'
  BY <1>0, <1>1, <1>2 DEF OpRequest, OpWay, OpTold, HeardSame, Looking, Ahead, Announcing, Op!Items
<1>6. OpRaw'
  BY <1>0, <1>1, <1>2 DEF OpRequest, OpWay, OpTold, OpRaw, HeardSame, Looking, Ahead, Announcing, Op!Items
<1>7. OpDue'
  BY <1>0, <1>1, <1>2, FailureIs, OwesOne DEF OpDue, OpRequest, OpWay, OpRaw, HeardSame, Looking, Ahead, Announcing
<1>8. ASSUME NEW o \in Op!Rank, NEW i \in Op!Items
      PROVE  EndsAt(o, i)'
  <2>1. EndsAt(o, i) BY <1>0 DEF OpEnds
  <2> QED BY <1>0, <1>1, <1>2, <2>1, EmptyIs, NoEndIs, FailsFresh, FailsStream
    DEF EndsAt, HeardSame, OpRequest, OpWay, OpTold, Announcing, Underway, Looking, Ahead, Op!Items, Kept
<1>9. Telemetry => \A i \in Op!Items : SpanAt(i)'
  <2> SUFFICES ASSUME Telemetry, NEW i \in Op!Items PROVE SpanAt(i)' OBVIOUS
  <2>1. SpanAt(i) BY <1>0 DEF OpSpans
  <2> QED BY <1>0, <1>1, <1>2, <2>1, OpenIs
    DEF SpanAt, HeardSame, Unannounced, OpRequest, OpWay, OpTold, Announcing, Underway, Looking, Ahead, Op!Items
<1>10. Telemetry => Op!SpanTells'
  BY <1>1 DEF Op!SpanTells
<1>11. Op!Truthful'
  BY <1>0, <1>1, TruthStays
<1>12. OpEnds' /\ OpSpans'
  BY <1>2, <1>8, <1>9, <1>10 DEF OpEnds, OpSpans, HeardSame
<1> QED
  BY <1>1, <1>2, <1>3, <1>4, <1>5, <1>6, <1>7, <1>11, <1>12 DEF OpInv, HeardSame


Announces(e, next, b) ==
    /\ \/ step = "start" /\ e = Op!Plain("start") /\ next = "acquire" /\ b = FALSE
       \/ step = "result" /\ Op!Method = "bulk" /\ e = Op!Plain("bulkResult") /\ next = "finished" /\ b = TRUE
       \/ step = "result" /\ Op!Method # "bulk" /\ e = Op!Plain("result") /\ next = "shape" /\ b = TRUE
       \/ step = "map" /\ e = Op!Plain("mapped") /\ next = "finished" /\ b = TRUE
    /\ Op!Notify(e, next, b, b)
    /\ UNCHANGED <<request, observers, item, raw, told, hold, failing, rows, outcome>>

LEMMA PlainIs ==
    /\ \A type : Op!Plain(type).type = type
    /\ \A type \in {"ready", "bulkReady", "start", "result", "mapped", "bulkResult"} : Op!Plain(type) \in Event
BY DEF Op!Plain, Event

LEMMA AnnouncesKeeps ==
    ASSUME OpInv, NEW e, NEW next, NEW b, Announces(e, next, b)
    PROVE  OpInv'
<1>0. OpRequest /\ OpWay /\ OpTold /\ OpRaw /\ OpDue /\ OpHeard /\ OpEnds /\ OpSpans /\ Op!Truthful
  BY DEF OpInv, Announces
<1>1. /\ UNCHANGED <<request, observers, item, raw, told, hold, failing>>
      /\ e \in Event /\ e.type # "error" /\ b \in BOOLEAN
      /\ step \in {"start", "result", "map"} /\ next \in {"acquire", "shape", "finished"}
      /\ step = "start" => next = "acquire" /\ Op!Method = "stream" /\ b = FALSE
      /\ step # "start" => next # "acquire" /\ Op!Method # "stream" /\ b = TRUE
      /\ next \in {"acquire", "shape"} => e.type \in {"start", "result"} /\ e.type \notin Op!EndTypes
      /\ next = "finished" => e.type \in {"mapped", "bulkResult"} /\ e.type \in Op!EndTypes
  <2>1. \/ step = "start" /\ e = Op!Plain("start") /\ next = "acquire" /\ b = FALSE
        \/ step = "result" /\ Op!Method = "bulk" /\ e = Op!Plain("bulkResult") /\ next = "finished" /\ b = TRUE
        \/ step = "result" /\ Op!Method # "bulk" /\ e = Op!Plain("result") /\ next = "shape" /\ b = TRUE
        \/ step = "map" /\ e = Op!Plain("mapped") /\ next = "finished" /\ b = TRUE
    BY DEF Announces
  <2>2. /\ step = "start" => Op!Method = "stream"
        /\ step \in {"result", "map"} => Op!Method # "stream"
    BY <1>0 DEF OpWay, Looking
  <2>3. e \in Event /\ e.type = (IF step = "start" THEN "start" ELSE IF step = "map" THEN "mapped"
                                 ELSE IF Op!Method = "bulk" THEN "bulkResult" ELSE "result")
    BY <2>1, PlainIs
  <2>4. UNCHANGED <<request, observers, item, raw, told, hold, failing>> BY DEF Announces
  <2>5. /\ "start" \notin Op!EndTypes /\ "result" \notin Op!EndTypes
        /\ "mapped" \in Op!EndTypes /\ "bulkResult" \in Op!EndTypes
    BY DEF Op!EndTypes, Op!ResultTypes
  <2>6. CASE step = "start" BY <2>1, <2>2, <2>3, <2>4, <2>5, <2>6
  <2>7. CASE step = "result" /\ Op!Method = "bulk" BY <2>1, <2>2, <2>3, <2>4, <2>5, <2>7
  <2>8. CASE step = "result" /\ Op!Method # "bulk" BY <2>1, <2>2, <2>3, <2>4, <2>5, <2>8
  <2>9. CASE step = "map" BY <2>1, <2>2, <2>3, <2>4, <2>5, <2>9
  <2> QED BY <2>1, <2>6, <2>7, <2>8, <2>9
<1>2. PICK n \in Op!Thrower :
         /\ Op!Deliver(item, e, Op!FailFast(n), n)
         /\ IF n = 0 THEN Op!Go(next) /\ UNCHANGED due ELSE Op!ThrowOne(b, b)
  BY DEF Announces, Op!Notify
<1>3. item \in Op!Items BY <1>0 DEF OpRequest
<1>4. Reached(item, e, FALSE, n)
  <2>1. Op!FailFast(n) \in SUBSET Op!Rank BY <1>0, RankIs
  <2> QED BY <1>0, <1>1, <1>2, <1>3, <2>1, Reaches
<1>5. \/ n = 0 /\ step' = next
      \/ n # 0 /\ n \in Op!Rank /\ step' = "failing" /\ due' = <<Op!Failure(b, b)>>
  BY <1>2, <1>4 DEF Op!Go, Op!Throw, Op!ThrowOne, Reached
<1>6. OpRequest' BY <1>0, <1>1, <1>4, <1>5 DEF OpRequest, Reached, OpSteps
<1>7. OpWay'
  BY <1>0, <1>1, <1>4, <1>5 DEF OpRequest, OpWay, Reached, Looking, Ahead, Announcing
<1>8. OpTold'
  BY <1>0, <1>1, <1>4, <1>5 DEF OpTold, Reached, Looking, Ahead, Announcing
<1>9. OpRaw'
  <2>1. step = "start" => item = 1 BY <1>0, <1>1 DEF OpRequest, Op!Items
  <2> QED BY <1>0, <1>1, <1>4, <1>5, <2>1 DEF OpRaw, Reached, Looking, Ahead, Announcing
<1>10. OpDue'
  <2>1. CASE n = 0 BY <1>1, <1>5, <2>1 DEF OpDue
  <2>2. CASE n # 0
    <3>1. Op!Failure(b, b) \in Errors BY <1>1, FailureIs
    <3>2. Op!Method # "stream" => raw'[item'] = "ok" BY <1>0, <1>1, <1>3 DEF OpRaw, Looking
    <3>3. Op!Method' # "stream" => Op!Failure(b, b) = Op!Failure(raw'[item'] # "none", raw'[item'] = "ok")
      BY <1>1, <1>4, <3>2 DEF Op!Failure, Reached
    <3> QED BY <1>5, <2>2, <3>1, <3>3, OwesOne
  <2> QED BY <2>1, <2>2
<1>11. ASSUME NEW o \in Op!Rank, NEW i \in Op!Items
       PROVE  EndsAt(o, i)'
  <2>1. EndsAt(o, i) BY <1>0 DEF OpEnds
  <2>2. CASE i # item
    <3>1. Kept BY <1>1 DEF Kept
    <3> QED BY <1>1, <1>4, <1>5, <2>1, <2>2, <3>1 DEF EndsAt, Reached, Announcing
  <2>3. CASE i = item
    <3>1. NoEnd(o, i) /\ heard[o][i] \in Seq(Event) BY <1>1, <1>4, <2>1, <2>3 DEF EndsAt, Underway, Reached
    <3>2. heard'[o][i] = IF n = 0 \/ o <= n THEN Append(heard[o][i], e) ELSE heard[o][i]
      BY <1>4, <2>3 DEF Reached
    <3>3. /\ heard'[o][i] = heard[o][i] => NoEnd(o, i)'
          /\ heard'[o][i] = Append(heard[o][i], e) =>
               /\ e.type \notin Op!EndTypes => NoEnd(o, i)'
               /\ e.type \in Op!EndTypes =>
                    /\ OneEnd(o, i, {e.type})'
                    /\ \A types : e.type \in types => OneEnd(o, i, types)'
                    /\ \A k \in Op!Endings(o, i)' : heard'[o][i][k] = e
      BY <1>1, <3>1, HearsNoEnd
    <3>4. CASE n = 0
      <4>1. heard'[o][i] = Append(heard[o][i], e) /\ step' = next BY <1>5, <3>2, <3>4
      <4>2. CASE next = "finished"
        <5>1. OneEnd(o, i, Op!ResultTypes)' BY <1>1, <3>3, <4>1, <4>2 DEF Op!ResultTypes
        <5>2. ~Op!Retracted(o, i)' BY <1>4, <2>3, <3>1, <3>4, NothingRefused DEF Reached
        <5> QED BY <1>1, <2>3, <4>1, <4>2, <5>1, <5>2 DEF EndsAt, Announcing, Underway
      <4>3. CASE next # "finished"
        <5>1. NoEnd(o, i)' BY <1>1, <3>3, <4>1, <4>3
        <5> QED BY <1>1, <2>3, <4>1, <4>3, <5>1 DEF EndsAt, Announcing, Underway
      <4> QED BY <4>2, <4>3
    <3>5. CASE n # 0
      <4>1. step' = "failing" /\ due' = <<Op!Failure(b, b)>> /\ Op!Failure(b, b) \in Errors /\ n \in Op!Rank
        BY <1>1, <1>5, <3>5, FailureIs
      <4>2. NoEnd(o, i)' \/ (HalfEnd(o, i)' /\ Op!Method' # "stream")
        <5>1. CASE heard'[o][i] = heard[o][i] BY <3>3, <5>1
        <5>2. CASE heard'[o][i] = Append(heard[o][i], e) /\ e.type \notin Op!EndTypes BY <3>3, <5>2
        <5>3. CASE heard'[o][i] # heard[o][i] /\ heard'[o][i] = Append(heard[o][i], e) /\ e.type \in Op!EndTypes
          <6>1. o <= n BY <3>2, <3>5, <5>3
          <6>2. e.type \in Op!ResultTypes /\ Op!Retracted(o, i)'
            <7>1. e.type \in Op!ResultTypes BY <1>1, <5>3 DEF Op!ResultTypes
            <7> QED BY <1>4, <2>3, <3>5, <6>1, <7>1 DEF Reached
          <6>3. OneEnd(o, i, {e.type})' /\ \A k \in Op!Endings(o, i)' : heard'[o][i][k] = e BY <3>3, <5>3
          <6>4. HalfEnd(o, i)' BY <6>2, <6>3 DEF OneEnd, HalfEnd
          <6>5. Op!Method' # "stream" BY <1>1, <1>4, <5>3 DEF Reached
          <6> QED BY <6>4, <6>5
        <5> QED BY <3>2, <5>1, <5>2, <5>3
      <4>3. FailingAt(o, i)' BY <4>1, <4>2, FailsFresh DEF FailingAt
      <4> QED BY <1>1, <2>3, <4>1, <4>3 DEF EndsAt, Announcing, Underway
    <3> QED BY <3>4, <3>5
  <2> QED BY <2>2, <2>3
<1>12. Telemetry => \A i \in Op!Items : SpanAt(i)'
  <2> SUFFICES ASSUME Telemetry, NEW i \in Op!Items PROVE SpanAt(i)' OBVIOUS
  <2>1. SpanAt(i) BY <1>0 DEF OpSpans
  <2>2. CASE i # item
    BY <1>1, <1>4, <1>5, <2>1, <2>2 DEF SpanAt, Reached, Announcing, Looking
  <2>3. CASE i = item
    <3>1. /\ spans[i] \in Span
          /\ spans'[i] = IF n = 0 THEN Op!Observe(spans[i], e.type) ELSE spans[i]
          /\ Unannounced' <=> Unannounced
      BY <1>4, <2>3 DEF Reached
    <3>2. CASE Unannounced
      <4>1. Unopened(i)' /\ Unopened(i) /\ step = "start"
        <5>1. Unopened(i) /\ step = "start" BY <1>1, <2>1, <3>2 DEF SpanAt, Unannounced
        <5>2. e.type = "start" \/ e.type = "result" BY <1>1, <5>1
        <5> QED BY <3>1, <5>1, <5>2, SpanHears, SpanStays
      <4>2. Unopened(i)' => OverFailed(i)' BY DEF Unopened, OverFailed
      <4>3. step' \in {"acquire", "failing"} BY <1>1, <1>5, <4>1
      <4> QED BY <1>1, <1>4, <2>3, <3>1, <3>2, <4>1, <4>2, <4>3 DEF SpanAt, Announcing, Underway, Looking, Unannounced, Reached
    <3>3. CASE ~Unannounced
      <4>1. Opened(i) BY <1>1, <2>1, <2>3, <3>3 DEF SpanAt, Underway
      <4>2. CASE n = 0 /\ next = "finished"
        <5>1. ~spans'[i].open /\ spans'[i].ended = <<"success">> BY <1>1, <3>1, <4>1, <4>2, SpanHears
        <5> QED BY <1>1, <1>5, <2>3, <3>1, <3>3, <4>2, <5>1 DEF SpanAt, Announcing, Underway, Looking
      <4>3. CASE n = 0 /\ next # "finished"
        <5>1. spans'[i] = spans[i] BY <1>1, <3>1, <4>3, SpanHears
        <5>2. Opened(i)' BY <4>1, <5>1, SpanStays
        <5>3. /\ step' \in {"acquire", "shape"} /\ item' = item /\ i \in Op!Items
              /\ ~(i < item)
          BY <1>0, <1>1, <1>5, <2>3, <4>3 DEF OpRequest, Op!Items
        <5> QED BY <1>1, <2>3, <3>1, <3>3, <5>2, <5>3 DEF SpanAt, Announcing, Underway, Looking
      <4>4. CASE n # 0
        <5>1. Opened(i)' BY <3>1, <4>1, <4>4, SpanStays
        <5> QED BY <1>1, <1>5, <2>3, <3>1, <3>3, <4>4, <5>1 DEF SpanAt, Announcing, Underway, Looking
      <4> QED BY <4>2, <4>3, <4>4
    <3> QED BY <3>2, <3>3
  <2> QED BY <2>2, <2>3
<1>13. Op!SpanTells' BY <1>1, <1>5 DEF Op!SpanTells
<1>14. Op!Truthful'
  <2>1. \A o \in Op!Rank, j \in Op!Items :
             heard'[o][j] = heard[o][j] \/ (j = item /\ heard'[o][j] = Append(heard[o][j], e))
    BY <1>4 DEF Reached
  <2> QED BY <1>0, <1>1, <1>3, <2>1, TruthTold
<1>15. OpHeard' /\ OpEnds' /\ OpSpans' BY <1>4, <1>11, <1>12, <1>13 DEF OpEnds, OpSpans, Reached
<1> QED BY <1>6, <1>7, <1>8, <1>9, <1>10, <1>14, <1>15 DEF OpInv

LEMMA StartKeeps ==
    ASSUME OpInv, Op!Start
    PROVE  OpInv'
<1>1. Announces(Op!Plain("start"), "acquire", FALSE) BY DEF Op!Start, Announces
<1> QED BY <1>1, AnnouncesKeeps

LEMMA ResultKeeps ==
    ASSUME OpInv, Op!Result
    PROVE  OpInv'
<1>1. \/ SilentFailure
      \/ Announces(Op!Plain("bulkResult"), "finished", TRUE)
      \/ Announces(Op!Plain("result"), "shape", TRUE)
  BY DEF Op!Result, SilentFailure, Announces
<1> QED BY <1>1, SilentFailureKeeps, AnnouncesKeeps

LEMMA MapKeeps ==
    ASSUME OpInv, Op!Map
    PROVE  OpInv'
<1>1. SilentFailure \/ Announces(Op!Plain("mapped"), "finished", TRUE) BY DEF Op!Map, SilentFailure, Announces
<1> QED BY <1>1, SilentFailureKeeps, AnnouncesKeeps

(* A query is announced, or the observers' objection is owed. *)
Readied(n) ==
    \/ n # 0 /\ step' = "failing" /\ due' = <<Op!Failure(FALSE, FALSE)>> /\ UNCHANGED <<told, item>>
    \/ /\ n = 0 /\ Op!Method = "batch" /\ item < request.count /\ step' = "prepare" /\ item' = item + 1
       /\ told' = [told EXCEPT ![item] = FALSE]
    \/ /\ n = 0 /\ Op!Method = "batch" /\ ~(item < request.count) /\ step' = "acquire" /\ item' = 1
       /\ told' = [told EXCEPT ![item] = FALSE]
    \/ n = 0 /\ Op!Method # "batch" /\ step' = (IF request.prepared THEN "kind" ELSE "check") /\ UNCHANGED <<told, item>>

LEMMA ReadyKeeps ==
    ASSUME OpInv, Op!Ready
    PROVE  OpInv'
<1>0. OpRequest /\ OpWay /\ OpTold /\ OpRaw /\ OpDue /\ OpHeard /\ OpEnds /\ OpSpans /\ Op!Truthful
  BY DEF OpInv, Op!Ready
<1> DEFINE e == Op!Plain(Op!ReadyType)
<1>1. /\ step = "ready" /\ hold = "none" /\ UNCHANGED <<request, observers, raw, hold, failing>>
      /\ e \in Event /\ e.type \in {"ready", "bulkReady"} /\ e.type \notin Op!EndTypes /\ e.type # "error"
      /\ ~Unannounced
  <2>1. step = "ready" /\ UNCHANGED <<request, observers, raw, hold, failing>> BY DEF Op!Ready
  <2>2. hold = "none" /\ ~Unannounced BY <1>0, <2>1 DEF OpWay, Ahead, Announcing, Unannounced
  <2>3. e \in Event /\ e.type \in {"ready", "bulkReady"} BY PlainIs DEF Op!ReadyType
  <2> HIDE DEF e
  <2> QED BY <2>1, <2>2, <2>3 DEF Op!EndTypes, Op!ResultTypes
<1>2. PICK n \in Op!Thrower : Op!Deliver(item, e, Op!FailFast(n), n) /\ Readied(n)
  BY DEF Op!Ready, Readied, Op!Go, Op!ThrowOne, Op!Throw
<1> HIDE DEF e
<1>3. item \in Op!Items BY <1>0 DEF OpRequest
<1>4. Reached(item, e, FALSE, n)
  <2>1. Op!FailFast(n) \in SUBSET Op!Rank BY <1>0, RankIs
  <2> QED BY <1>0, <1>1, <1>2, <1>3, <2>1, Reaches
<1>5. /\ Op!Rank' = Op!Rank /\ Op!Items' = Op!Items /\ Op!Method' = Op!Method /\ OpHeard' /\ ~Unannounced'
      /\ request.count \in Nat \ {0} /\ item \in Nat /\ item >= 1 /\ item <= request.count
      /\ \A i \in Op!Items : i \in Nat /\ i >= 1 /\ i <= request.count
      /\ 1 \in Op!Items
  BY <1>0, <1>1, <1>3, <1>4 DEF Reached, OpRequest, Op!Items
<1>6. OpRequest'
  <2>1. item < request.count => item + 1 \in Op!Items BY <1>5 DEF Op!Items
  <2>2. item' \in Op!Items BY <1>2, <1>3, <1>5, <2>1 DEF Readied
  <2>3. told' \in [Op!Items -> BOOLEAN] BY <1>0, <1>2, <1>3 DEF Readied, OpRequest
  <2>4. step' \in OpSteps \ {"quiet"} BY <1>2 DEF Readied, OpSteps
  <2> QED BY <1>0, <1>1, <1>5, <2>2, <2>3, <2>4 DEF OpRequest
<1>7. OpWay'
  <2>1. OpWay /\ request'.prepared = request.prepared BY <1>0, <1>1
  <2> QED BY <1>1, <1>2, <1>5, <2>1 DEF OpWay, Readied, Looking, Ahead, Announcing
<1>8. Op!Method = "batch" => \A i \in Op!Items : told[i] <=> i >= item
  BY <1>0, <1>1 DEF OpTold, Announcing
<1>9. \A i \in Op!Items : raw[i] = "none" BY <1>0, <1>1 DEF OpRaw, Ahead, Announcing
<1>10. \A o \in Op!Rank, i \in Op!Items : i >= item => heard[o][i] = <<>>
  BY <1>0, <1>1 DEF OpEnds, EndsAt, Announcing
<1>11. told \in [Op!Items -> BOOLEAN] BY <1>0 DEF OpRequest
<1>12. \A o \in Op!Rank, i \in Op!Items :
         /\ i = item => NoEnd(o, i)'
         /\ i # item => /\ heard'[o][i] = heard[o][i]
                        /\ NoEnd(o, i)' <=> NoEnd(o, i)
                        /\ Closed(o, i)' <=> Closed(o, i)
  <2> SUFFICES ASSUME NEW o \in Op!Rank, NEW i \in Op!Items
               PROVE  /\ i = item => NoEnd(o, i)'
                      /\ i # item => /\ heard'[o][i] = heard[o][i]
                                     /\ NoEnd(o, i)' <=> NoEnd(o, i)
                                     /\ Closed(o, i)' <=> Closed(o, i)
    OBVIOUS
  <2>1. CASE i # item
    <3>1. Kept BY <1>1 DEF Kept
    <3> QED BY <1>4, <2>1, <3>1 DEF Reached
  <2>2. CASE i = item
    <3>1. heard[o][i] = <<>> BY <1>5, <1>10, <2>2
    <3>2. NoEnd(o, i) /\ heard[o][i] \in Seq(Event) BY <1>4, <3>1, EmptyIs DEF Reached
    <3>3. heard'[o][i] = heard[o][i] \/ heard'[o][i] = Append(heard[o][i], e) BY <1>4, <2>2 DEF Reached
    <3> QED BY <1>1, <2>2, <3>2, <3>3, HearsNoEnd
  <2> QED BY <2>1, <2>2
<1>13. OpTold'
  <2>1. CASE step' \in {"failing", "kind", "check"} BY <2>1 DEF OpTold, Announcing, Looking
  <2>2. CASE step' = "prepare" /\ Op!Method = "batch" /\ item' = item + 1 /\ told' = [told EXCEPT ![item] = FALSE]
    <3>1. ASSUME NEW i \in Op!Items PROVE told'[i] <=> i >= item'
      <4>1. CASE i = item BY <1>5, <1>11, <2>2, <4>1
      <4>2. CASE i # item BY <1>5, <1>8, <1>11, <2>2, <4>2
      <4> QED BY <4>1, <4>2
    <3> QED BY <1>5, <2>2, <3>1 DEF OpTold, Announcing, Looking
  <2>3. CASE step' = "acquire" /\ Op!Method = "batch" /\ ~(item < request.count) /\ told' = [told EXCEPT ![item] = FALSE]
    <3>1. ASSUME NEW i \in Op!Items PROVE ~told'[i]
      <4>1. CASE i = item BY <1>11, <2>3, <4>1
      <4>2. CASE i # item BY <1>5, <1>8, <1>11, <2>3, <4>2
      <4> QED BY <4>1, <4>2
    <3> QED BY <1>5, <2>3, <3>1 DEF OpTold, Announcing, Looking
  <2> QED BY <1>2, <2>1, <2>2, <2>3 DEF Readied
<1>14. OpRaw'
  <2>1. \A i \in Op!Items' : raw'[i] = "none" BY <1>1, <1>5, <1>9
  <2>2. step' = "acquire" => item' = 1 BY <1>2 DEF Readied
  <2>3. step' \notin {"drive", "release"} \cup Looking BY <1>2 DEF Readied, Looking
  <2> QED BY <2>1, <2>2, <2>3 DEF OpRaw
<1>15. OpDue'
  <2>1. CASE n = 0 BY <1>2, <2>1 DEF OpDue, Readied
  <2>2. CASE n # 0
    <3>1. Op!Failure(FALSE, FALSE) \in Errors /\ raw'[item'] = "none" BY <1>1, <1>2, <1>3, <1>9, <2>2, FailureIs DEF Readied
    <3>2. Op!Failure(FALSE, FALSE) = Op!Failure(raw'[item'] # "none", raw'[item'] = "ok") BY <3>1 DEF Op!Failure
    <3> QED BY <1>2, <2>2, <3>1, <3>2, OwesOne DEF Readied
  <2> QED BY <2>1, <2>2
<1>16. ASSUME NEW o \in Op!Rank, NEW i \in Op!Items
       PROVE  EndsAt(o, i)'
  <2>1. EndsAt(o, i) BY <1>0 DEF OpEnds
  <2>2. /\ i = item => NoEnd(o, i)'
        /\ i # item => /\ heard'[o][i] = heard[o][i]
                       /\ NoEnd(o, i)' <=> NoEnd(o, i)
                       /\ Closed(o, i)' <=> Closed(o, i)
                       /\ IF told[i] THEN Closed(o, i) ELSE NoEnd(o, i)
    BY <1>1, <1>12, <2>1 DEF EndsAt
  <2>3. CASE step' = "failing" /\ told' = told /\ item' = item
    <3>1. i = item => FailingAt(o, i)' BY <2>2, FailsFresh
    <3> QED BY <2>2, <2>3, <3>1 DEF EndsAt, Announcing, Underway
  <2>4. CASE step' \in {"kind", "check"} /\ told' = told /\ item' = item
    BY <2>2, <2>4 DEF EndsAt, Announcing, Underway
  <2>5. CASE step' = "prepare" /\ Op!Method = "batch" /\ item' = item + 1 /\ told' = [told EXCEPT ![item] = FALSE]
    <3>1. i >= item' => heard'[o][i] = <<>> BY <1>5, <1>10, <2>2, <2>5
    <3>2. IF told'[i] THEN Closed(o, i)' ELSE NoEnd(o, i)'
      <4>1. CASE i = item BY <1>11, <2>2, <2>5, <4>1
      <4>2. CASE i # item BY <1>11, <2>2, <2>5, <4>2
      <4> QED BY <4>1, <4>2
    <3> QED BY <2>5, <3>1, <3>2 DEF EndsAt, Announcing, Underway
  <2>6. CASE step' = "acquire" /\ Op!Method = "batch" /\ ~(item < request.count) /\ told' = [told EXCEPT ![item] = FALSE]
    <3>1. ~told'[i] /\ NoEnd(o, i)'
      <4>1. CASE i = item BY <1>11, <2>2, <2>6, <4>1
      <4>2. CASE i # item BY <1>5, <1>8, <1>11, <2>2, <2>6, <4>2
      <4> QED BY <4>1, <4>2
    <3> QED BY <2>6, <3>1 DEF EndsAt, Announcing, Underway
  <2> QED BY <1>2, <2>3, <2>4, <2>5, <2>6 DEF Readied
<1>17. Telemetry => \A i \in Op!Items : SpanAt(i)'
  <2> SUFFICES ASSUME Telemetry, NEW i \in Op!Items PROVE SpanAt(i)' OBVIOUS
  <2>1. SpanAt(i) BY <1>0 DEF OpSpans
  <2>2. i = item => IF n = 0 THEN Opened(i)' ELSE OverFailed(i)'
    <3> SUFFICES ASSUME i = item PROVE IF n = 0 THEN Opened(i)' ELSE OverFailed(i)' OBVIOUS
    <3>1. Unopened(i) /\ spans[i] \in Span BY <1>1, <1>4, <2>1 DEF SpanAt, Announcing, Reached
    <3>2. spans'[i] = IF n = 0 THEN Op!Observe(spans[i], e.type) ELSE spans[i] BY <1>4 DEF Reached
    <3>3. n = 0 => Opened(i)' BY <1>1, <3>1, <3>2, SpanHears
    <3>4. n # 0 => OverFailed(i)' BY <3>1, <3>2, SpanStays, OpenIs
    <3> QED BY <3>3, <3>4
  <2>3. i # item => /\ spans'[i] = spans[i]
                    /\ Unopened(i)' <=> Unopened(i)
                    /\ Opened(i)' <=> Opened(i)
                    /\ Over(i)' <=> Over(i)
                    /\ OverFailed(i)' <=> OverFailed(i)
                    /\ IF told[i] THEN Over(i) /\ (spans[i].ended = <<"success">> => raw[i] = "ok") ELSE Opened(i)
                    /\ Op!Method = "batch" /\ i >= item => Unopened(i)
    BY <1>1, <1>4, <2>1 DEF SpanAt, Reached, Announcing
  <2>4. CASE n # 0 /\ step' = "failing" /\ told' = told /\ item' = item
    BY <1>1, <1>5, <2>2, <2>3, <2>4 DEF SpanAt, Announcing, Underway, Looking
  <2>5. CASE n = 0 /\ step' \in {"kind", "check"} /\ told' = told /\ item' = item
    BY <1>1, <1>5, <2>2, <2>3, <2>5 DEF SpanAt, Announcing, Underway, Looking
  <2>6. CASE n = 0 /\ step' = "prepare" /\ Op!Method = "batch" /\ item' = item + 1 /\ told' = [told EXCEPT ![item] = FALSE]
    <3>1. CASE i = item
      <4>1. Opened(i)' /\ ~told'[i] /\ ~(i >= item') /\ i # item' BY <1>5, <1>11, <2>2, <2>6, <3>1
      <4> QED BY <1>5, <2>6, <4>1 DEF SpanAt, Announcing, Underway, Looking
    <3>2. CASE i # item
      <4>1. told'[i] = told[i] /\ raw'[i] = raw[i] BY <1>1, <1>11, <2>6, <3>2
      <4>2. i >= item' => Unopened(i)' BY <1>5, <2>3, <2>6, <3>2
      <4>3. i = item' => i >= item' BY <1>5
      <4> QED BY <1>5, <2>3, <2>6, <3>2, <4>1, <4>2, <4>3 DEF SpanAt, Announcing, Underway, Looking
    <3> QED BY <3>1, <3>2
  <2>7. CASE n = 0 /\ step' = "acquire" /\ Op!Method = "batch" /\ ~(item < request.count) /\ told' = [told EXCEPT ![item] = FALSE]
    <3>1. ~told'[i] /\ Opened(i)'
      <4>1. CASE i = item BY <1>11, <2>2, <2>7, <4>1
      <4>2. CASE i # item BY <1>5, <1>8, <1>11, <2>3, <2>7, <4>2
      <4> QED BY <4>1, <4>2
    <3> QED BY <1>5, <2>7, <3>1 DEF SpanAt, Announcing, Underway, Looking
  <2> QED BY <1>2, <2>4, <2>5, <2>6, <2>7 DEF Readied
<1>18. Op!SpanTells' BY <1>2 DEF Op!SpanTells, Readied
<1>19. Op!Truthful'
  <2>1. \A o \in Op!Rank, j \in Op!Items :
             heard'[o][j] = heard[o][j] \/ (j = item /\ heard'[o][j] = Append(heard[o][j], e))
    BY <1>4 DEF Reached
  <2> QED BY <1>0, <1>1, <1>3, <2>1, TruthTold
<1>20. OpHeard' /\ OpEnds' /\ OpSpans'
  <2>1. Telemetry' = Telemetry BY <1>4 DEF Reached
  <2> QED BY <1>5, <1>16, <1>17, <1>18, <2>1 DEF OpEnds, OpSpans
<1> QED BY <1>6, <1>7, <1>13, <1>14, <1>15, <1>19, <1>20 DEF OpInv

LEMMA HeadTail ==
    ASSUME NEW e
    PROVE  /\ Head(<<e>>) = e /\ Tail(<<e>>) = <<>>
           /\ Head(<<e, e>>) = e /\ Tail(<<e, e>>) = <<e>> /\ <<e>> # <<>>
           /\ \A f : <<e, e>> # <<f>>
OBVIOUS

(* An error is told: the first of two, or the last. *)
Failed(e) ==
    \/ /\ Op!Method = "bulk" /\ raw[item] = "failed" /\ due' = <<e>> /\ due = <<e, e>>
       /\ step' = "failing" /\ told' = told
    \/ /\ due = <<e>> /\ Op!Method = "batch" /\ step' = "abort" /\ told' = [told EXCEPT ![item] = TRUE]
    \/ /\ due = <<e>> /\ Op!Method = "stream" /\ told' = told
       /\ (hold = "held" /\ step' = "cleanup") \/ (hold = "released" /\ step' = "end")
    \/ /\ due = <<e>> /\ Op!Method # "batch" /\ (Op!Method = "stream" => hold = "none") /\ told' = told
       /\ step' = "settled" /\ outcome' = "failed"

LEMMA FailTells ==
    ASSUME OpInv, Op!Fail
    PROVE  \E e \in Errors : /\ e = Head(due) /\ Failed(e)
                             /\ Op!Method # "stream" => e = Op!Failure(raw[item] # "none", raw[item] = "ok")
<1>1. OpRequest /\ OpDue /\ OpWay /\ step = "failing" BY DEF OpInv, Op!Fail
<1>2. /\ \/ \E e \in Errors : due = <<e>>
         \/ /\ Op!Method = "bulk" /\ raw[item] = "failed"
            /\ due = <<Op!Failure(TRUE, FALSE), Op!Failure(TRUE, FALSE)>>
      /\ Op!Method # "stream" => \A k \in DOMAIN due : due[k] = Op!Failure(raw[item] # "none", raw[item] = "ok")
      /\ hold \in {"none", "held", "released"}
  BY <1>1 DEF OpDue, OpWay
<1>3. /\ due' = Tail(due)
      /\ Tail(due) # <<>> => UNCHANGED <<step, told, outcome>>
      /\ Tail(due) = <<>> /\ Op!Method = "batch" => told' = [told EXCEPT ![item] = TRUE] /\ step' = "abort"
      /\ Tail(due) = <<>> /\ Op!Method = "stream" /\ hold = "held" => step' = "cleanup" /\ told' = told
      /\ Tail(due) = <<>> /\ Op!Method = "stream" /\ hold = "released" => step' = "end" /\ told' = told
      /\ Tail(due) = <<>> /\ Op!Method # "batch" /\ ~(Op!Method = "stream" /\ hold \in {"held", "released"}) =>
           step' = "settled" /\ outcome' = "failed" /\ told' = told
  BY DEF Op!Fail, Op!Go, Op!Settle
<1>4. CASE \E e \in Errors : due = <<e>>
  <2>1. PICK e \in Errors : due = <<e>> BY <1>4
  <2>2. Head(due) = e /\ Tail(due) = <<>> /\ 1 \in DOMAIN due /\ due[1] = e BY <2>1
  <2>3. Failed(e) BY <1>2, <1>3, <2>1, <2>2 DEF Failed
  <2> QED BY <1>2, <2>2, <2>3
<1>5. CASE Op!Method = "bulk" /\ raw[item] = "failed" /\ due = <<Op!Failure(TRUE, FALSE), Op!Failure(TRUE, FALSE)>>
  <2> DEFINE e == Op!Failure(TRUE, FALSE)
  <2>1. e \in Errors BY FailureIs
  <2>2. due = <<e, e>> BY <1>5
  <2> HIDE DEF e
  <2>3. Head(due) = e /\ Tail(due) = <<e>> /\ <<e>> # <<>> BY <2>2, HeadTail
  <2>4. 1 \in DOMAIN due /\ due[1] = e BY <2>2
  <2>5. Failed(e) BY <1>1, <1>3, <1>5, <2>2, <2>3 DEF Failed
  <2> QED BY <1>2, <2>1, <2>3, <2>4, <2>5
<1> QED BY <1>2, <1>4, <1>5

LEMMA FailKeeps ==
    ASSUME OpInv, Op!Fail
    PROVE  OpInv'
<1>0. OpRequest /\ OpWay /\ OpTold /\ OpRaw /\ OpDue /\ OpHeard /\ OpEnds /\ OpSpans /\ Op!Truthful
  BY DEF OpInv, Op!Fail
<1>1. /\ step = "failing" /\ UNCHANGED <<request, observers, item, raw, hold, failing>>
      /\ \E n \in Op!Thrower : Op!Deliver(item, Head(due), Op!Rank, n)
  BY DEF Op!Fail, Op!Fanout
<1>2. PICK e \in Errors :
        /\ e = Head(due) /\ Failed(e)
        /\ Op!Method # "stream" => e = Op!Failure(raw[item] # "none", raw[item] = "ok")
  BY FailTells
<1>3. PICK n \in Op!Thrower : Op!Deliver(item, e, Op!Rank, n) BY <1>1, <1>2
<1>4. e \in Event /\ e.type = "error" BY DEF Errors
<1>5. item \in Op!Items BY <1>0 DEF OpRequest
<1>6. Reached(item, e, TRUE, n)
  <2>1. Op!Rank \in SUBSET Op!Rank OBVIOUS
  <2> QED BY <1>0, <1>1, <1>3, <1>4, <1>5, <2>1, Reaches
<1>7. /\ Op!Rank' = Op!Rank /\ Op!Items' = Op!Items /\ Op!Method' = Op!Method /\ OpHeard' /\ Kept
      /\ Unannounced' <=> Unannounced
      /\ told \in [Op!Items -> BOOLEAN]
  BY <1>0, <1>1, <1>6 DEF Reached, OpRequest, Kept
<1>8. OpRequest'
  <2>1. told' \in [Op!Items -> BOOLEAN] /\ step' \in OpSteps \ {"quiet"} BY <1>2, <1>7 DEF Failed, OpSteps
  <2> QED BY <1>0, <1>1, <1>7, <2>1 DEF OpRequest
<1>9. Op!Method = "stream" /\ hold # "none" => failing BY <1>0, <1>1 DEF OpWay
<1>10. OpWay'
  <2>1. hold \in {"none", "held", "released"} BY <1>0 DEF OpWay
  <2> QED BY <1>1, <1>2, <1>7, <1>9, <2>1 DEF OpWay, Failed, Looking, Ahead, Announcing
<1>11. OpTold' BY <1>2 DEF OpTold, Failed, Looking, Announcing
<1>12. OpRaw' BY <1>2 DEF OpRaw, Failed, Looking, Ahead, Announcing
<1>13. OpDue'
  <2>1. CASE step' = "failing"
    <3>1. due' = <<e>> BY <1>2, <2>1 DEF Failed
    <3> QED BY <1>1, <1>2, <1>7, <3>1, OwesOne DEF Op!Failure
  <2>2. CASE step' # "failing" BY <2>2 DEF OpDue
  <2> QED BY <2>1, <2>2
<1>14. ASSUME NEW o \in Op!Rank, NEW i \in Op!Items
       PROVE  EndsAt(o, i)'
  <2>1. EndsAt(o, i) BY <1>0 DEF OpEnds
  <2>2. CASE i # item
    <3>1. /\ NoEnd(o, i)' <=> NoEnd(o, i)
          /\ Closed(o, i)' <=> Closed(o, i)
      BY <1>6, <1>7, <2>2 DEF Reached
    <3>2. Op!Method = "batch" \/ Op!Items = {1} BY <1>0 DEF OpRequest, Op!Items
    <3>3. Op!Method = "batch" BY <1>5, <2>2, <3>2
    <3>4. step' = "abort" /\ told'[i] = told[i] BY <1>2, <1>7, <2>2, <3>3 DEF Failed
    <3> QED BY <1>1, <2>1, <2>2, <3>1, <3>4 DEF EndsAt, Announcing, Underway
  <2>3. CASE i = item
    <3>1. /\ heard[o][i] \in Seq(Event) /\ heard'[o][i] = Append(heard[o][i], e)
          /\ FailingAt(o, i)
      BY <1>1, <1>6, <2>1, <2>3 DEF Reached, EndsAt
    <3>2. RefusedHeard(o, i)' /\ (Op!Retracted(o, i) => Op!Retracted(o, i)') BY <1>6, <2>3 DEF Reached
    <3>3. Op!Method = "stream" /\ hold # "none" => ErrorsOnly(o, i)'
      BY <1>4, <3>1, HearsMore DEF FailingAt
    <3>4. ~(Op!Method = "stream" /\ hold # "none") =>
            \/ NoEnd(o, i)
            \/ HalfEnd(o, i)
            \/ OneEnd(o, i, {"error"}) /\ Op!Method = "bulk" /\ raw'[i] = "failed"
      BY <1>1, <3>1 DEF FailingAt
    <3>5. ~(Op!Method = "stream" /\ hold # "none") => Closed(o, i)'
      BY <1>1, <3>1, <3>2, <3>4, HearsError
    <3>6. CASE Op!Method = "batch" /\ step' = "abort" /\ told' = [told EXCEPT ![item] = TRUE]
      BY <1>1, <1>5, <1>7, <2>3, <3>5, <3>6 DEF EndsAt, Announcing, Underway
    <3>7. CASE Op!Method = "stream" /\ step' \in {"cleanup", "end"} /\ hold # "none"
      BY <1>1, <2>3, <3>3, <3>7 DEF EndsAt, Announcing, Underway
    <3>8. CASE step' = "settled" /\ ~(Op!Method = "stream" /\ hold # "none")
      BY <1>1, <2>3, <3>5, <3>8 DEF EndsAt, Announcing, Underway
    <3>9. CASE Op!Method = "bulk" /\ raw[item] = "failed" /\ due' = <<e>> /\ due = <<e, e>> /\ step' = "failing"
      <4>1. NoEnd(o, i)
        <5>1. \A f : due # <<f>> BY <3>9, HeadTail
        <5> QED BY <3>1, <3>9, <5>1 DEF FailingAt
      <4>2. OneEnd(o, i, {"error"})' BY <1>4, <3>1, <4>1, HearsNoEnd DEF Op!EndTypes
      <4>3. FailingAt(o, i)' BY <1>1, <1>7, <2>3, <3>9, <4>2 DEF FailingAt
      <4> QED BY <1>1, <2>3, <3>9, <4>3 DEF EndsAt, Announcing, Underway
    <3> QED BY <1>2, <3>6, <3>7, <3>8, <3>9 DEF Failed
  <2> QED BY <2>2, <2>3
<1>15. ASSUME Telemetry, NEW i \in Op!Items
       PROVE  /\ SpanAt(i)
              /\ i # item => /\ spans'[i] = spans[i]
                             /\ Unopened(i)' <=> Unopened(i)
                             /\ Opened(i)' <=> Opened(i)
                             /\ Over(i)' <=> Over(i)
              /\ i = item => OverFailed(i)' /\ (Unannounced => Unopened(i)')
  <2>1. SpanAt(i) BY <1>0, <1>15 DEF OpSpans
  <2>2. CASE i # item BY <1>6, <1>15, <2>1, <2>2 DEF Reached
  <2>3. CASE i = item
    <3>1. /\ spans[i] \in Span /\ spans'[i] = Op!Observe(spans[i], e.type)
          /\ Opened(i) \/ OverFailed(i)
          /\ Unannounced => Unopened(i)
      BY <1>1, <1>6, <1>15, <2>1, <2>3 DEF SpanAt, Reached
    <3> QED BY <1>4, <2>1, <2>3, <3>1, SpanHears
  <2> QED BY <2>2, <2>3
<1>16. \A i : OverFailed(i)' => /\ ~spans'[i].open /\ spans'[i].ended # <<"success">> /\ Over(i)'
                                /\ Len(spans'[i].ended) <= 1
  <2>1. <<>> # <<"success">> /\ <<"error">> # <<"success">> /\ Len(<<>>) <= 1 /\ Len(<<"error">>) <= 1 OBVIOUS
  <2> QED BY <2>1 DEF OverFailed, Over
<1>17. Telemetry => \A i \in Op!Items : SpanAt(i)'
  <2> SUFFICES ASSUME Telemetry, NEW i \in Op!Items PROVE SpanAt(i)' OBVIOUS
  <2>1. CASE i # item
    <3>1. Op!Method = "batch" \/ Op!Items = {1} BY <1>0 DEF OpRequest, Op!Items
    <3>2. Op!Method = "batch" BY <1>5, <2>1, <3>1
    <3>3. step' = "abort" /\ told'[i] = told[i] BY <1>2, <1>7, <2>1, <3>2 DEF Failed
    <3> QED BY <1>1, <1>7, <1>15, <2>1, <3>3 DEF SpanAt, Announcing, Underway, Looking
  <2>2. CASE i = item
    <3>1. /\ OverFailed(i)' /\ spans'[i].ended # <<"success">> /\ Over(i)'
          /\ Unannounced' => Unopened(i)'
      BY <1>7, <1>15, <1>16, <2>2
    <3>2. step' = "abort" => told'[i] BY <1>2, <1>5, <1>7, <2>2 DEF Failed
    <3>3. step' \in {"abort", "cleanup", "end", "settled", "failing"} BY <1>2 DEF Failed
    <3>4. step' \in {"cleanup", "end"} => failing' BY <1>1, <1>2, <1>9 DEF Failed
    <3> QED BY <1>1, <2>2, <3>1, <3>2, <3>3, <3>4 DEF SpanAt, Announcing, Underway, Looking
  <2> QED BY <2>1, <2>2
<1>18. Telemetry => Op!SpanTells'
  <2> SUFFICES ASSUME Telemetry, step' = "settled" PROVE Op!SpanTells' BY DEF Op!SpanTells
  <2>1. Op!Method # "batch" /\ outcome' = "failed" BY <1>2 DEF Failed
  <2>2. \A i \in Op!Items : i = item BY <1>0, <2>1 DEF OpRequest, Op!Items
  <2>3. \A i \in Op!Items' : ~spans'[i].open /\ spans'[i].ended # <<"success">> /\ Len(spans'[i].ended) <= 1
    BY <1>7, <1>15, <1>16, <2>2
  <2> QED BY <2>1, <2>3 DEF Op!SpanTells
<1>19. Op!Truthful'
  <2>1. \A o \in Op!Rank, j \in Op!Items :
             heard'[o][j] = heard[o][j] \/ (j = item /\ heard'[o][j] = Append(heard[o][j], e))
    BY <1>6 DEF Reached
  <2> QED BY <1>0, <1>1, <1>2, <1>4, <1>5, <2>1, TruthTold
<1>20. OpEnds' /\ OpSpans'
  <2>1. Telemetry' = Telemetry BY <1>6 DEF Reached
  <2> QED BY <1>7, <1>14, <1>17, <1>18, <2>1 DEF OpEnds, OpSpans
<1> QED BY <1>7, <1>8, <1>10, <1>11, <1>12, <1>13, <1>19, <1>20 DEF OpInv

LEMMA AbortKeeps ==
    ASSUME OpInv, Op!Abort
    PROVE  OpInv'
<1>0. OpRequest /\ OpWay /\ OpTold /\ OpRaw /\ OpDue /\ OpHeard /\ OpEnds /\ OpSpans /\ Op!Truthful
  BY DEF OpInv, Op!Abort
<1>1. /\ step = "abort" /\ UNCHANGED <<request, observers, item, raw, hold, failing>> /\ Op!Method = "batch"
      /\ item \in Op!Items /\ told \in [Op!Items -> BOOLEAN] /\ hold \in {"none", "held", "released"}
      /\ step \in OpSteps
  BY <1>0 DEF Op!Abort, OpWay, OpRequest
<1>2. \A i \in Op!Items : Op!Method = "batch" /\ ~Unannounced BY <1>1 DEF Unannounced
<1>3. \A o \in Op!Rank, i \in Op!Items : IF told[i] THEN Closed(o, i) ELSE NoEnd(o, i) /\ i # item
  BY <1>0, <1>1 DEF OpEnds, EndsAt
<1>4. Telemetry => \A i \in Op!Items :
        IF told[i] THEN Over(i) /\ (spans[i].ended = <<"success">> => raw[i] = "ok") ELSE Opened(i) /\ i # item
  BY <1>0, <1>1 DEF OpSpans, SpanAt
<1>5. CASE Op!Abandoned = {}
  <2>1. /\ step' = "settled" /\ outcome' = "failed" /\ UNCHANGED <<heard, refused, spans, told>>
        /\ \A i \in Op!Items : told[i]
    BY <1>5 DEF Op!Abort, Op!Settle, Op!Silent, Op!Abandoned
  <2>2. HeardSame BY <1>0, <1>1, <2>1, Unheard
  <2>3. /\ Op!Rank' = Op!Rank /\ Op!Items' = Op!Items /\ Op!Method' = Op!Method /\ OpHeard' /\ Kept /\ Telemetry' = Telemetry
        /\ ~Unannounced'
    BY <1>1, <1>2, <2>2 DEF HeardSame, Kept
  <2>4. OpRequest' /\ OpWay' /\ OpTold' /\ OpRaw' /\ OpDue'
    BY <1>0, <1>1, <2>1, <2>3 DEF OpRequest, OpWay, OpTold, OpRaw, OpDue, OpSteps, Looking, Ahead, Announcing
  <2>5. \A o \in Op!Rank, i \in Op!Items : EndsAt(o, i)'
    BY <1>3, <2>1, <2>2, <2>3 DEF EndsAt, HeardSame, Announcing, Underway
  <2>6. Telemetry => \A i \in Op!Items : SpanAt(i)' BY <2>1, <2>3 DEF SpanAt, Announcing, Underway, Looking
  <2>7. Telemetry => Op!SpanTells'
    <3> SUFFICES ASSUME Telemetry, NEW i \in Op!Items
                 PROVE  /\ ~spans'[i].open /\ Len(spans'[i].ended) <= 1
                        /\ spans'[i].ended = <<"success">> => Op!Method' = "batch" /\ raw'[i] = "ok"
      BY <2>1, <2>3 DEF Op!SpanTells
    <3>1. spans'[i] = spans[i] /\ Over(i) /\ (spans[i].ended = <<"success">> => raw[i] = "ok") BY <1>4, <2>1
    <3>2. Len(<<>>) <= 1 /\ \A how : Len(<<how>>) <= 1 OBVIOUS
    <3> QED BY <1>1, <2>3, <3>1, <3>2 DEF Over
  <2>8. Op!Truthful' BY <1>0, <1>1, <2>1, TruthStays
  <2> QED BY <2>3, <2>4, <2>5, <2>6, <2>7, <2>8 DEF OpInv, OpEnds, OpSpans
<1>6. CASE Op!Abandoned # {}
  <2>1. PICK i \in Op!Abandoned :
          /\ \E n \in Op!Thrower : Op!Deliver(i, Op!AbortError(i), Op!Rank, n)
          /\ told' = [told EXCEPT ![i] = TRUE] /\ step' = step
    BY <1>6 DEF Op!Abort, Op!Fanout
  <2>2. i \in Op!Items /\ ~told[i] BY DEF Op!Abandoned
  <2>3. PICK n \in Op!Thrower : Op!Deliver(i, Op!AbortError(i), Op!Rank, n) BY <2>1
  <2> DEFINE e == Op!AbortError(i)
  <2>4. /\ e \in Errors /\ e \in Event /\ e.type = "error"
        /\ e = Op!Failure(raw[i] # "none", raw[i] = "ok")
    <3>1. e \in Errors BY FailureIs DEF Op!AbortError
    <3> QED BY <3>1 DEF Errors, Op!AbortError
  <2>5. Op!Deliver(i, e, Op!Rank, n) BY <2>3
  <2> HIDE DEF e
  <2>6. Reached(i, e, TRUE, n)
    <3>1. Op!Rank \in SUBSET Op!Rank OBVIOUS
    <3> QED BY <1>0, <1>1, <2>2, <2>4, <2>5, <3>1, Reaches
  <2>7. /\ Op!Rank' = Op!Rank /\ Op!Items' = Op!Items /\ Op!Method' = Op!Method /\ OpHeard' /\ Kept /\ Telemetry' = Telemetry
        /\ ~Unannounced'
    BY <1>1, <1>2, <2>6 DEF Reached, Kept
  <2>8. told'[i] /\ \A j \in Op!Items : j # i => told'[j] = told[j] BY <1>1, <2>1, <2>2
  <2>9. OpRequest' /\ OpWay' /\ OpTold' /\ OpRaw' /\ OpDue'
    <3>1. told' \in [Op!Items -> BOOLEAN] BY <1>1, <2>1
    <3> QED BY <1>0, <1>1, <2>1, <2>7, <3>1
        DEF OpRequest, OpWay, OpTold, OpRaw, OpDue, OpSteps, Looking, Ahead, Announcing
  <2>10. ASSUME NEW o \in Op!Rank, NEW j \in Op!Items
         PROVE  EndsAt(o, j)'
    <3>1. CASE j = i
      <4>1. heard[o][i] \in Seq(Event) /\ heard'[o][i] = Append(heard[o][i], e)
            /\ RefusedHeard(o, i)' /\ (Op!Retracted(o, i) => Op!Retracted(o, i)')
        BY <2>2, <2>6 DEF Reached
      <4>2. NoEnd(o, i) BY <1>3, <2>2
      <4>3. Closed(o, i)' BY <1>1, <2>4, <4>1, <4>2, HearsError
      <4> QED BY <1>1, <2>1, <2>8, <3>1, <4>3 DEF EndsAt, Announcing, Underway
    <3>2. CASE j # i
      <4>1. NoEnd(o, j)' <=> NoEnd(o, j) BY <2>6, <3>2 DEF Reached
      <4>2. Closed(o, j)' <=> Closed(o, j) BY <2>6, <2>7, <3>2 DEF Reached
      <4>3. IF told'[j] THEN Closed(o, j)' ELSE NoEnd(o, j)' /\ j # item BY <1>3, <2>8, <3>2, <4>1, <4>2
      <4> QED BY <1>1, <2>1, <4>3 DEF EndsAt, Announcing, Underway
    <3> QED BY <3>1, <3>2
  <2>11. ASSUME Telemetry, NEW j \in Op!Items
         PROVE  SpanAt(j)'
    <3>1. CASE j = i
      <4>1. spans[i] \in Span /\ spans'[i] = Op!Observe(spans[i], e.type) BY <2>2, <2>6, <2>11 DEF Reached
      <4>2. Opened(i) BY <1>4, <2>2, <2>11
      <4>3. OverFailed(i)' BY <2>4, <4>1, <4>2, SpanHears
      <4>4. Over(i)' /\ spans'[i].ended # <<"success">>
        <5>1. <<>> # <<"success">> /\ <<"error">> # <<"success">> OBVIOUS
        <5> QED BY <4>3, <5>1 DEF Over, OverFailed
      <4> QED BY <1>1, <2>1, <2>7, <2>8, <3>1, <4>4 DEF SpanAt, Announcing, Underway, Looking
    <3>2. CASE j # i
      <4>1. /\ spans'[j] = spans[j]
            /\ Opened(j)' <=> Opened(j)
            /\ Over(j)' <=> Over(j)
        BY <2>6, <2>11, <3>2 DEF Reached
      <4>2. IF told'[j] THEN Over(j)' /\ (spans'[j].ended = <<"success">> => raw'[j] = "ok")
            ELSE Opened(j)' /\ j # item
        BY <1>1, <1>4, <2>8, <2>11, <3>2, <4>1
      <4> QED BY <1>1, <2>1, <2>7, <4>2 DEF SpanAt, Announcing, Underway, Looking
    <3> QED BY <3>1, <3>2
  <2>12. Op!SpanTells' BY <1>1, <2>1 DEF Op!SpanTells
  <2>13. Op!Truthful'
    <3>1. \A o \in Op!Rank, j \in Op!Items :
             heard'[o][j] = heard[o][j] \/ (j = i /\ heard'[o][j] = Append(heard[o][j], e))
      BY <2>6 DEF Reached
    <3> QED BY <1>0, <1>1, <2>2, <2>4, <3>1, TruthTold
  <2> QED BY <2>7, <2>9, <2>10, <2>11, <2>12, <2>13 DEF OpInv, OpEnds, OpSpans
<1> QED BY <1>5, <1>6

LEMMA EndKeeps ==
    ASSUME OpInv, Op!End
    PROVE  OpInv'
<1>0. OpRequest /\ OpWay /\ OpTold /\ OpRaw /\ OpDue /\ OpHeard /\ OpEnds /\ OpSpans /\ Op!Truthful
  BY DEF OpInv, Op!End
<1>1. /\ step = "end" /\ step' = "settled" /\ Op!Method = "stream" /\ hold = "released"
      /\ UNCHANGED <<request, observers, item, raw, told, hold, failing>>
      /\ \A i \in Op!Items : i = item
      /\ item \in Op!Items
  BY <1>0 DEF Op!End, Op!Settle, OpWay, OpRequest, Op!Items
<1>2. PICK n \in Op!Thrower :
        Op!Deliver(item, Op!Ended(failing), Op!Rank, n) /\ outcome' = IF failing \/ n # 0 THEN "failed" ELSE "ok"
  BY DEF Op!End, Op!Fanout, Op!Settle
<1> DEFINE e == Op!Ended(failing)
<1>3. e \in Event /\ e.type = IF failing THEN "endFailed" ELSE "end" BY DEF Op!Ended, Event
<1>4. Op!Deliver(item, e, Op!Rank, n) BY <1>2
<1> HIDE DEF e
<1>5. Reached(item, e, TRUE, n)
  <2>1. Op!Rank \in SUBSET Op!Rank OBVIOUS
  <2> QED BY <1>0, <1>1, <1>3, <1>4, <2>1, Reaches
<1>6. /\ Op!Rank' = Op!Rank /\ Op!Items' = Op!Items /\ Op!Method' = Op!Method /\ OpHeard' /\ Telemetry' = Telemetry
      /\ Unannounced' <=> Unannounced
  BY <1>5 DEF Reached
<1>7. OpRequest' /\ OpWay' /\ OpTold' /\ OpRaw' /\ OpDue'
  BY <1>0, <1>1, <1>6 DEF OpRequest, OpWay, OpTold, OpRaw, OpDue, OpSteps, Looking, Ahead, Announcing
<1>8. ASSUME NEW o \in Op!Rank, NEW i \in Op!Items
      PROVE  EndsAt(o, i)'
  <2>1. i = item BY <1>1
  <2>2. ErrorsOnly(o, i) BY <1>0, <1>1, <2>1 DEF OpEnds, EndsAt
  <2>3. heard[o][i] \in Seq(Event) /\ heard'[o][i] = Append(heard[o][i], e) BY <1>5, <2>1 DEF Reached
  <2>4. e.type \in {"end", "endFailed"} BY <1>3
  <2>5. Closed(o, i)' BY <1>1, <1>3, <1>6, <2>2, <2>3, <2>4, HearsMore
  <2> QED BY <1>1, <2>1, <2>5 DEF EndsAt, Announcing, Underway
<1>9. ASSUME Telemetry, NEW i \in Op!Items
      PROVE  /\ Unannounced => Unopened(i)'
             /\ ~Unannounced => IF failing THEN OverFailed(i)' ELSE ~spans'[i].open /\ spans'[i].ended = <<"success">>
  <2>1. SpanAt(i) /\ i = item BY <1>0, <1>1, <1>9 DEF OpSpans
  <2>2. /\ Unannounced => Unopened(i)
        /\ ~Unannounced => IF failing THEN Opened(i) \/ OverFailed(i) ELSE Opened(i)
    BY <1>1, <2>1 DEF SpanAt
  <2>3. spans[i] \in Span /\ spans'[i] = Op!Observe(spans[i], e.type) BY <1>5, <1>9, <2>1 DEF Reached
  <2> QED BY <1>3, <2>2, <2>3, SpanHears
<1>10. Telemetry => \A i \in Op!Items : SpanAt(i)'
  BY <1>1, <1>6, <1>9 DEF SpanAt, Announcing, Underway, Looking
<1>11. Telemetry => Op!SpanTells'
  <2> SUFFICES ASSUME Telemetry, NEW i \in Op!Items
               PROVE  /\ ~spans'[i].open /\ Len(spans'[i].ended) <= 1
                      /\ outcome' = "ok" /\ ~Unannounced => spans'[i].ended = <<"success">>
                      /\ outcome' = "failed" /\ spans'[i].ended = <<"success">> =>
                           Op!Method = "stream" /\ \E o \in Op!Rank : "end" \in refused'[o][i]
    BY <1>6 DEF Op!SpanTells, Unannounced
  <2>1. <<>> # <<"success">> /\ <<"error">> # <<"success">> /\ Len(<<>>) <= 1 /\ \A how : Len(<<how>>) <= 1 OBVIOUS
  <2>2. CASE Unannounced
    <3>1. Unopened(i)' BY <1>9, <2>2
    <3> QED BY <2>1, <2>2, <3>1 DEF Unopened
  <2>3. CASE ~Unannounced /\ failing
    <3>1. OverFailed(i)' BY <1>9, <2>3
    <3>2. outcome' = "failed" BY <1>2, <2>3
    <3> QED BY <2>1, <3>1, <3>2 DEF OverFailed
  <2>4. CASE ~Unannounced /\ ~failing
    <3>1. ~spans'[i].open /\ spans'[i].ended = <<"success">> BY <1>9, <2>4
    <3>2. outcome' = "failed" => n # 0 BY <1>2, <2>4
    <3>3. n # 0 => n \in Op!Rank /\ "end" \in refused'[n][i] BY <1>1, <1>3, <1>5, <2>4 DEF Reached
    <3> QED BY <1>1, <2>1, <3>1, <3>2, <3>3
  <2> QED BY <2>2, <2>3, <2>4
<1>12. Op!Truthful' BY <1>1, <1>6 DEF Op!Truthful
<1> QED BY <1>6, <1>7, <1>8, <1>10, <1>11, <1>12 DEF OpInv, OpEnds, OpSpans

LEMMA OpStep ==
    ASSUME OpInv, Op!Next
    PROVE  OpInv'
BY CallKeeps, PrepareKeeps, ReadyKeeps, KindKeeps, CheckKeeps, StartKeeps, AcquireKeeps, DriveKeeps,
   ReleaseKeeps, ResultKeeps, ShapeKeeps, MapKeeps, FinishedKeeps, FailKeeps, AbortKeeps, OpenKeeps,
   ReadKeeps, CleanupKeeps, EndKeeps
DEF Op!Next

LEMMA OpStays ==
    ASSUME OpInv, UNCHANGED operation
    PROVE  OpInv'
<1>1. UNCHANGED <<request, observers, step, item, raw, told, due, hold, failing, rows, heard, refused, spans, outcome>>
  BY DEF operation
<1>2. CASE step = "quiet" /\ observers = <<>> BY <1>1, <1>2 DEF OpInv
<1>3. CASE OpRequest /\ OpWay /\ OpTold /\ OpRaw /\ OpDue /\ OpHeard /\ OpEnds /\ OpSpans /\ Op!Truthful
  <2>1. HeardSame BY <1>1, <1>3, Unheard
  <2>2. /\ Op!Rank' = Op!Rank /\ Op!Items' = Op!Items /\ Op!Method' = Op!Method /\ OpHeard' /\ Telemetry' = Telemetry
        /\ Op!Unspoken' = Op!Unspoken /\ Kept
    BY <1>1, <2>1 DEF HeardSame, Kept
  <2>3. OpRequest' /\ OpWay' /\ OpTold' /\ OpRaw'
    BY <1>1, <1>3, <2>2 DEF OpRequest, OpWay, OpTold, OpRaw
  <2>4. OpDue' BY <1>1, <1>3, <2>2 DEF OpDue, Op!Failure
  <2>5. \A o \in Op!Rank, i \in Op!Items : EndsAt(o, i)'
    <3> SUFFICES ASSUME NEW o \in Op!Rank, NEW i \in Op!Items PROVE EndsAt(o, i)' OBVIOUS
    <3>1. EndsAt(o, i) BY <1>3 DEF OpEnds
    <3>2. FailingAt(o, i) => FailingAt(o, i)'
      BY <1>1, <2>1, <2>2 DEF FailingAt, ErrorsOnly, NoEnd, HalfEnd, OneEnd, Op!Endings, HeardSame
    <3>3. \A types : OneEnd(o, i, types) => OneEnd(o, i, types)' BY <1>1 DEF OneEnd, Op!Endings
    <3> QED BY <1>1, <2>1, <2>2, <3>1, <3>2, <3>3 DEF EndsAt, HeardSame
  <2>6. Telemetry => \A i \in Op!Items : SpanAt(i)'
    <3> SUFFICES ASSUME Telemetry, NEW i \in Op!Items PROVE SpanAt(i)' OBVIOUS
    <3>1. SpanAt(i) BY <1>3 DEF OpSpans
    <3> QED BY <1>1, <2>1, <2>2, <3>1 DEF SpanAt, HeardSame
  <2>7. Telemetry => Op!SpanTells'
    <3>1. Telemetry => Op!SpanTells BY <1>3 DEF OpSpans
    <3> QED BY <1>1, <2>2, <3>1 DEF Op!SpanTells
  <2>8. Op!Truthful' BY <1>1, <1>3, <2>2 DEF Op!Truthful, Op!Failure
  <2> QED BY <2>2, <2>3, <2>4, <2>5, <2>6, <2>7, <2>8 DEF OpInv, OpEnds, OpSpans
<1> QED BY <1>2, <1>3 DEF OpInv

LEMMA OpShown == OpInv => Accounted
<1>1. CASE step = "quiet" /\ observers = <<>>
  <2>1. Op!Rank = {} BY <1>1 DEF Op!Rank
  <2> QED BY <1>1, <2>1 DEF Op!Accounted, Accounted, Op!EndsTold, Op!Truthful, Op!SpanTells
<1>2. CASE OpRequest /\ OpEnds /\ OpSpans /\ Op!Truthful
  <2>1. Op!EndsTold
    <3> SUFFICES ASSUME step = "settled", NEW o \in Op!Rank, NEW i \in Op!Items, Op!Announced(o, i)
                 PROVE  Op!EndedAsTold(o, i)
      BY DEF Op!EndsTold
    <3>1. EndsAt(o, i) BY <1>2 DEF OpEnds
    <3> QED BY <3>1 DEF EndsAt, Closed
  <2>2. Op!SpanTells
    <3>1. CASE Telemetry BY <1>2, <3>1 DEF OpSpans
    <3>2. CASE ~Telemetry BY <3>2 DEF Telemetry, Op!SpanTells
    <3> QED BY <3>1, <3>2
  <2> QED BY <1>2, <2>1, <2>2 DEF Op!Accounted, Accounted
<1> QED BY <1>1, <1>2 DEF OpInv

(* How a query ends for whoever was told that it begins: with one event; or  *)
(* with a result and an error, exactly where an observer refused the        *)
(* result; or with none, only in the two calls that reject without a word.  *)
(* Each error says what the driver had done by then, and the last observer's *)
(* spans agree with what the caller got.  That holds whatever fails on the  *)
(* way, whoever throws, and however many observers and queries there are     *)
(* (observePrepared, notify, notifyTerminalObservers, abortEntries and the   *)
(* stream of the runtime, and createOpenTelemetryObserver).                *)
THEOREM AccountedHolds == Execution => []Accounted
<1>1. ExecutionInit => OpInv BY OpInit DEF ExecutionInit, Op!Quiet, OpInv
<1>2. OpInv /\ [ExecutionNext]_<<vars, operation, transfer, literals, options>> => OpInv'
  BY OpStep, OpStays DEF ExecutionNext
<1> QED BY <1>1, <1>2, OpShown, PTL DEF Execution
=============================================================================
