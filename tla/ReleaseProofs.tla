--------------------------- MODULE ReleaseProofs ---------------------------
(***************************************************************************)
(* The properties of Release, for any packages, candidates and worlds, any *)
(* number of runs and uploads, and any runner that dies or is not heard.   *)
(*                                                                         *)
(* The argument. An upload is remembered in three places: the run, which   *)
(* GitHub shows as one that was not skipped; the journal, which has the    *)
(* package pending or staged; and the loop over the packages, which has    *)
(* passed it. Uploaded, Alone and Passed say so of every stage, at every   *)
(* place of the job. What the loop has passed is Settled: staged under an   *)
(* id that exists, or public under its tag. A complete journal keeps that, *)
(* and the layers of the commands it prints follow the dependencies.       *)
(*                                                                         *)
(* The properties hold if the runs that are run again had skipped their    *)
(* upload (Rerunnable): GitHub shows the jobs of the last attempt only.    *)
(***************************************************************************)
EXTENDS Release, TLAPS, FunctionTheorems, FiniteSetTheorems, WellFoundedInduction

Labels == {"idle", "preflight", "mutate", "tags", "confirmed", "reset", "look", "upload",
           "mismatch", "unheard", "settle", "after", "final"}
Past == Labels \ {"idle", "preflight", "mutate"}
Loop == Past \ {"tags", "confirmed", "reset"}

Tag == None..Newer
Package == [bytes : {"none", "mine", "other"}, latest : Tag, next : Tag]
Record  == [state : {"absent", "pending", "staged", "public"}, id : Nat]
Journal == [run : Nat, attempt : Nat, records : [candidate.release -> Record],
            before : [candidate.release -> Tag], complete : BOOLEAN]
Stage   == [package : candidate.release, run : Nat \ {0}, state : {"live", "approved", "rejected"}]
RunOf   == [mode : {"pack", "stage", "recover", "legacy"}, prior : Nat,
            artifact : {"certified", "altered"}, attempt : Nat,
            status : {"queued", "running", "completed"},
            mutation : {"skipped", "success", "failure", "cancelled"},
            journal : Journal \cup {NoJournal}, preserved : BOOLEAN]

TypeOK ==
    /\ candidate \in Candidates /\ registry \in [Packages -> Package]
    /\ stages \in Seq(Stage) /\ runs \in Seq(RunOf)
    /\ job \in [run : Nat, pc : Labels, index : Nat \ {0}]
    /\ memory \in Journal \cup {NoJournal} /\ disk \in Journal \cup {NoJournal}
    /\ meddled \in Nat

----------------------------------------------------------------------------
(* The run that has the lock is the one that runs, *)
Locked ==
    /\ job.pc = "idle" <=> job = Idle
    /\ job.pc # "idle" => job.run \in DOMAIN runs /\ runs[job.run].status = "running"
                          /\ runs[job.run].mode \in {"stage", "recover"}
    /\ \A r \in DOMAIN runs : runs[r].status = "running" => r = job.run
    /\ \A r \in DOMAIN runs : runs[r].mode \in {"pack", "legacy"} => runs[r].status = "completed"

(* a recovery is of a run there has been, *)
Priors == \A r \in DOMAIN runs : runs[r].mode = "recover" => runs[r].prior \in DOMAIN runs

(* and its journal is on its disk as it is in its memory. *)
Written ==
    /\ disk = memory /\ ~memory.complete
    /\ memory # NoJournal <=> job.pc \in Past

(* Of every upload, its run is known to have uploaded, and its journal has it. *)
Knows(journal, s) ==
    /\ journal # NoJournal
    /\ journal.records[stages[s].package].state \in {"pending", "staged"}
    /\ journal.records[stages[s].package].id \in {0, s}
Uploaded(s) ==
    LET r == stages[s].run
    IN  /\ r \in DOMAIN runs /\ runs[r].mode # "pack"
        /\ \/ /\ runs[r].status = "completed" /\ runs[r].mutation # "skipped"
              /\ runs[r].preserved => Knows(runs[r].journal, s)
           \/ r = job.run /\ job.pc \in Loop /\ Knows(memory, s)

(* Who uploads is alone, from the dispatch of a recovery or the checks of a *)
(* stage run on.                                                           *)
Alone ==
    /\ job.pc \in Past => \A s \in DOMAIN stages : stages[s].state = "live" => stages[s].run = job.run
    /\ \A r \in DOMAIN runs : runs[r].mode = "recover" /\ runs[r].status # "completed" =>
         /\ \A q \in DOMAIN runs \ {r} : runs[q].mode = "recover" => runs[q].status = "completed"
         /\ \A s \in DOMAIN stages : stages[s].state = "live" => stages[s].run = r
         /\ job.pc \in Past => job.run = r

----------------------------------------------------------------------------
(* How far the loop is. *)
Behind(p) == \E i \in releaseEntries :
                p = publishOrder[i] /\ (job.pc = "final" \/ i < job.index)
AtIndex == job.pc \in Loop \ {"final"} => job.index \in releaseEntries

(* The job has uploaded only what it has passed, or is at. *)
Passed ==
    job.pc \in Loop => \A s \in DOMAIN stages : stages[s].run = job.run =>
        \/ Behind(stages[s].package)
        \/ stages[s].package = Entry /\ job.pc \notin {"look", "upload", "final"}

(* What it has passed is staged, or public and under its tag. *)
Tagged(p) == meddled = 0 => registry[p][releaseTag] = This
Settled(journal, p) ==
    LET record == journal.records[p]
    IN  \/ record.state = "staged" /\ record.id \in DOMAIN stages /\ stages[record.id].package = p
        \/ record.state = "public" /\ registry[p].bytes = "mine"
Progress ==
    /\ job.pc \in Loop => \A p \in candidate.release : Behind(p) =>
         Settled(memory, p) /\ (memory.records[p].state = "public" => Tagged(p))
    /\ job.pc = "after" => Settled(memory, Entry)
    /\ job.pc = "settle" => memory.records[Entry].id \in DOMAIN stages
                            /\ stages[memory.records[Entry].id].package = Entry
    /\ job.pc = "upload" => memory.records[Entry] = [state |-> "pending", id |-> 0]

(* What the release needs of others is public. *)
Needed == \A p \in candidate.release : \A d \in Deps[p] \ candidate.release :
             registry[d].bytes # "none"
Needs == job.pc \in Past => Needed

(* So is what is behind a complete journal. *)
Finished(r) ==
    runs[r].journal.complete =>
        /\ runs[r].status = "completed" /\ runs[r].mutation = "success" /\ Needed
        /\ \A p \in candidate.release :
             /\ Settled(runs[r].journal, p)
             /\ runs[r].journal.records[p].state = "public" => Tagged(p)
             /\ meddled = 0 /\ candidate.prerelease => registry[p].latest = runs[r].journal.before[p]

Approved(s) ==
    stages[s].state = "approved" => /\ registry[stages[s].package].bytes = "mine"
                                    /\ Tagged(stages[s].package)
                                    /\ \A d \in Deps[stages[s].package] : registry[d].bytes # "none"

IInv == /\ TypeOK /\ Locked /\ Priors /\ Written /\ Alone /\ OneStage
        /\ \A s \in DOMAIN stages : Uploaded(s) /\ Approved(s)
        /\ AtIndex /\ Passed /\ Progress /\ Needs
        /\ \A r \in DOMAIN runs : Finished(r)

----------------------------------------------------------------------------
(* Definitions by recursion on the natural numbers. *)

(* A set of natural numbers that has one has a least one. *)
LEMMA LeastNat ==
  ASSUME NEW T \in SUBSET Nat, T # {}
  PROVE  \E m \in T : \A n \in T : m <= n
<1>1. PICK m \in T : \A n \in T : ~ (<<n, m>> \in OpToRel(<, Nat))
  BY NatLessThanWellFounded, WFMin
<1>2. ASSUME NEW n \in T PROVE m <= n
  <2>1. ~(n < m) BY <1>1 DEF OpToRel
  <2> QED BY <2>1
<1> QED BY <1>2

LEMMA MinFacts ==
  ASSUME NEW T \in SUBSET Nat, T # {}
  PROVE  Min(T) \in T /\ \A n \in T : Min(T) <= n
<1>1. \E m \in T : \A n \in T : m =< n BY LeastNat
<1> QED BY <1>1 DEF Min

(* What is computed step by step exists. *)
Iterable(S, x, N, step) ==
    \E f \in [0..N -> S] : f[0] = x /\ \A n \in 1..N : f[n] = step[f[n - 1]]

LEMMA Iterates ==
  ASSUME NEW S, NEW x \in S, NEW N \in Nat, NEW step \in [S -> S]
  PROVE  Iterable(S, x, N, step)
<1> DEFINE Upto(n) == \E f \in [0..n -> S] : f[0] = x /\ \A i \in 1..n : f[i] = step[f[i - 1]]
<1> DEFINE Bad == {n \in Nat : ~Upto(n)}
<1> SUFFICES ASSUME Bad # {} PROVE FALSE
  <2>1. N \notin Bad => Upto(N) OBVIOUS
  <2> QED BY <2>1 DEF Iterable
<1>1. PICK m \in Bad : \A n \in Bad : m <= n
  <2> HIDE DEF Upto
  <2> QED BY LeastNat
<1>2. m # 0
  <2>1. Upto(0)
    <3>1. [i \in 0..0 |-> x] \in [0..0 -> S] OBVIOUS
    <3>2. /\ [i \in 0..0 |-> x][0] = x
          /\ \A i \in 1..0 : [j \in 0..0 |-> x][i] = step[[j \in 0..0 |-> x][i - 1]]
      OBVIOUS
    <3> QED BY <3>1, <3>2
  <2> QED BY <2>1 DEF Bad
<1>3. m \in Nat /\ m - 1 \in Nat BY <1>2
<1>4. PICK f \in [0..(m - 1) -> S] : f[0] = x /\ \A i \in 1..(m - 1) : f[i] = step[f[i - 1]]
  <2>1. m - 1 \notin Bad
    <3> HIDE DEF Bad
    <3> QED BY <1>1, <1>3
  <2>2. Upto(m - 1) BY <2>1, <1>3
  <2> QED BY <2>2
<1> DEFINE g == [i \in 0..m |-> IF i = m THEN step[f[m - 1]] ELSE f[i]]
<1>5. g \in [0..m -> S] BY <1>3, <1>4
<1>6. g[0] = x /\ \A i \in 1..m : g[i] = step[g[i - 1]] BY <1>3, <1>4
<1>7. Upto(m) BY <1>5, <1>6
<1> QED BY <1>7 DEF Bad

----------------------------------------------------------------------------
(* The layers of a release. *)
LEMMA PackagesFinite ==
  /\ IsFiniteSet(1..Len(Names)) /\ Cardinality(1..Len(Names)) = Len(Names)
  /\ IsFiniteSet(Packages) /\ Cardinality(Packages) = Len(Names)
  /\ \A R \in SUBSET Packages : IsFiniteSet(R) /\ Cardinality(R) \in Nat
<1>1. /\ Names \in Seq(Packages) /\ IsInjective(Names) /\ Len(Names) \in Nat
      /\ DOMAIN Names = 1..Len(Names)
  BY ReleaseAssumption
<1>2. Names \in Bijection(1..Len(Names), Packages)
  <2>1. Names \in [1..Len(Names) -> Packages] BY <1>1
  <2>2. Names \in Injection(1..Len(Names), Packages) BY <1>1, <2>1 DEF Injection
  <2>3. Names \in Surjection(1..Len(Names), Packages)
    BY <1>1, <2>1 DEF Surjection, Packages, Range
  <2> QED BY <2>2, <2>3 DEF Bijection
<1>3. ExistsBijection(1..Len(Names), Packages) BY <1>2 DEF ExistsBijection
<1>4. IsFiniteSet(1..Len(Names)) /\ Cardinality(1..Len(Names)) = Len(Names)
  BY <1>1, FS_Interval
<1>5. IsFiniteSet(Packages) /\ Cardinality(Packages) = Len(Names)
  BY <1>3, <1>4, FS_Bijection
<1>6. \A R \in SUBSET Packages : IsFiniteSet(R) BY <1>5, FS_Subset
<1> QED BY <1>4, <1>5, <1>6, FS_CardinalityType

LEMMA WithinFacts ==
  ASSUME NEW R \in SUBSET Packages
  PROVE  /\ within(R) \in [0..Cardinality(R) -> SUBSET R]
         /\ within(R)[0] = {}
         /\ \A n \in 1..Cardinality(R) :
               within(R)[n] = {p \in R : Deps[p] \cap R \subseteq within(R)[n - 1]}
<1> DEFINE N == Cardinality(R)
           Layer(B) == {p \in R : Deps[p] \cap R \subseteq B}
           step == [B \in SUBSET R |-> Layer(B)]
           Eq(f) == f = [n \in 0..N |-> IF n = 0 THEN {} ELSE Layer(f[n - 1])]
<1>1. N \in Nat BY PackagesFinite
<1>2. step \in [SUBSET R -> SUBSET R] OBVIOUS
<1>3. PICK f \in [0..N -> SUBSET R] : f[0] = {} /\ \A n \in 1..N : f[n] = step[f[n - 1]]
  <2> DEFINE SS == SUBSET R
  <2>1. {} \in SS /\ step \in [SS -> SS] BY <1>2
  <2> HIDE DEF step, N, SS
  <2>2. Iterable(SS, {}, N, step) BY <1>1, <2>1, Iterates
  <2> QED BY <2>2 DEF SS, Iterable
<1>4. Eq(f)
  <2>1. ASSUME NEW n \in 0..N PROVE f[n] = IF n = 0 THEN {} ELSE Layer(f[n - 1])
    <3>1. CASE n = 0 BY <1>3, <3>1
    <3>2. CASE n # 0
      <4>1. n \in 1..N /\ n - 1 \in 0..N BY <1>1, <3>2
      <4>2. f[n] = step[f[n - 1]] /\ f[n - 1] \in SUBSET R BY <1>3, <4>1
      <4> QED BY <3>2, <4>2
    <3> QED BY <3>1, <3>2
  <2> QED BY <1>3, <2>1
<1>5. within(R) = CHOOSE g : Eq(g) BY DEF within
<1>6. Eq(within(R))
  <2> HIDE DEF Eq
  <2> QED BY <1>4, <1>5
<1> DEFINE w == within(R)
<1>7. w = [n \in 0..N |-> IF n = 0 THEN {} ELSE Layer(w[n - 1])] BY <1>6
<1> HIDE DEF w
<1>8. DOMAIN w = 0..N BY <1>7
<1>9. w[0] = {} BY <1>1, <1>7
<1>10. ASSUME NEW n \in 1..N PROVE w[n] = Layer(w[n - 1])
  <2>1. n \in 0..N /\ n # 0 BY <1>1
  <2> HIDE DEF Layer
  <2>2. w[n] = IF n = 0 THEN {} ELSE Layer(w[n - 1]) BY <1>7, <2>1
  <2> QED BY <2>1, <2>2
<1>11. ASSUME NEW n \in 0..N PROVE w[n] \in SUBSET R
  <2>1. CASE n = 0 BY <1>9, <2>1
  <2>2. CASE n # 0
    <3>1. n \in 1..N BY <1>1, <2>2
    <3> QED BY <1>10, <3>1
  <2> QED BY <2>1, <2>2
<1>12. w \in [0..N -> SUBSET R]
  <2>1. w = [n \in DOMAIN w |-> w[n]] BY <1>7
  <2> QED BY <1>8, <1>11, <2>1
<1> QED BY <1>9, <1>10, <1>12 DEF w

(* A package in a layer has all it depends on, within the release, in       *)
(* layers before it.                                                       *)
LEMMA LayersFollow ==
  ASSUME NEW R \in SUBSET Packages, NEW n \in 1..Cardinality(R),
         NEW p \in within(R)[n], NEW d \in Deps[p] \cap R
  PROVE  \E m \in 1..(n - 1) : d \in within(R)[m] \ within(R)[m - 1]
<1> DEFINE w == within(R)
           Has == {m \in Nat : m <= n - 1 /\ d \in w[m]}
<1>1. Cardinality(R) \in Nat /\ n \in Nat /\ n - 1 \in Nat BY PackagesFinite
<1>2. d \in w[n - 1] BY WithinFacts
<1>3. n - 1 \in Has BY <1>1, <1>2
<1>4. PICK m \in Has : \A i \in Has : m <= i
  <2> HIDE DEF w
  <2> QED BY <1>3, LeastNat
<1>5. m # 0 BY WithinFacts, <1>4
<1>6. m - 1 \in Nat /\ m - 1 \notin Has BY <1>4, <1>5
<1>7. m \in 1..(n - 1) /\ d \in w[m] /\ d \notin w[m - 1] BY <1>1, <1>4, <1>5, <1>6
<1> QED BY <1>7

----------------------------------------------------------------------------
(* The order of publication: every package, once. *)
ReadyOf(done) == {i \in DOMAIN Names : Names[i] \notin done /\ Deps[Names[i]] \subseteq done}
Follow(v) == LET ready == ReadyOf(Range(v))
             IN  IF ready = {} THEN v ELSE Append(v, Names[Min(ready)])

LEMMA ReadyFacts ==
  ASSUME NEW done \in SUBSET Packages
  PROVE  /\ done = Packages \/ ReadyOf(done) # {}
         /\ ReadyOf(done) # {} =>
              /\ Min(ReadyOf(done)) \in ReadyOf(done)
              /\ Names[Min(ReadyOf(done))] \in Packages \ done
<1>1. Names \in Seq(Packages) /\ DOMAIN Names = 1..Len(Names) /\ Len(Names) \in Nat
  BY ReleaseAssumption
<1>2. ASSUME done # Packages PROVE ReadyOf(done) # {}
  <2>1. Packages \ done \in (SUBSET Packages) \ {{}} BY <1>2
  <2>2. PICK p \in Packages \ done : Deps[p] \cap (Packages \ done) = {}
    BY <2>1, ReleaseAssumption
  <2>3. Deps[p] \subseteq done BY <2>2, ReleaseAssumption
  <2>4. PICK i \in DOMAIN Names : Names[i] = p BY DEF Packages, Range
  <2> QED BY <2>2, <2>3, <2>4 DEF ReadyOf
<1>3. ASSUME ReadyOf(done) # {} PROVE Min(ReadyOf(done)) \in ReadyOf(done)
  <2>1. ReadyOf(done) \in SUBSET Nat BY <1>1 DEF ReadyOf
  <2> QED BY <1>3, <2>1, MinFacts
<1>4. ASSUME NEW i \in ReadyOf(done) PROVE Names[i] \in Packages \ done
  BY <1>1 DEF ReadyOf
<1> QED BY <1>2, <1>3, <1>4

LEMMA FollowTyped ==
  ASSUME NEW v \in Seq(Packages)
  PROVE  Follow(v) \in Seq(Packages)
<1>1. Range(v) \in SUBSET Packages BY DEF Range
<1>2. CASE ReadyOf(Range(v)) = {} BY <1>2 DEF Follow
<1>3. CASE ReadyOf(Range(v)) # {}
  <2>1. Names[Min(ReadyOf(Range(v)))] \in Packages BY <1>1, <1>3, ReadyFacts
  <2>2. Follow(v) = Append(v, Names[Min(ReadyOf(Range(v)))]) BY <1>3 DEF Follow
  <2> QED BY <2>1, <2>2
<1> QED BY <1>2, <1>3

LEMMA OrderDef ==
  /\ \A n \in 0..Len(Names) : order[n] \in Seq(Packages)
  /\ order[0] = <<>>
  /\ \A n \in 1..Len(Names) : order[n] = Follow(order[n - 1])
<1> DEFINE N == Len(Names)
           SS == Seq(Packages)
           step == [v \in SS |-> Follow(v)]
           Eq(f) == f = [n \in 0..N |-> IF n = 0 THEN <<>> ELSE Follow(f[n - 1])]
<1>1. N \in Nat BY ReleaseAssumption
<1>2. PICK f \in [0..N -> SS] : f[0] = <<>> /\ \A n \in 1..N : f[n] = step[f[n - 1]]
  <2>1. <<>> \in SS /\ step \in [SS -> SS] BY FollowTyped
  <2> HIDE DEF step, N, SS
  <2>2. Iterable(SS, <<>>, N, step) BY <1>1, <2>1, Iterates
  <2> QED BY <2>2 DEF Iterable
<1>3. Eq(f)
  <2>1. ASSUME NEW n \in 0..N PROVE f[n] = IF n = 0 THEN <<>> ELSE Follow(f[n - 1])
    <3>1. CASE n = 0 BY <1>2, <3>1
    <3>2. CASE n # 0
      <4>1. n \in 1..N /\ n - 1 \in 0..N BY <1>1, <3>2
      <4>2. f[n] = step[f[n - 1]] /\ f[n - 1] \in SS BY <1>2, <4>1
      <4> QED BY <3>2, <4>2
    <3> QED BY <3>1, <3>2
  <2> QED BY <1>2, <2>1
<1>4. order = CHOOSE g : Eq(g) BY DEF order, Follow, ReadyOf
<1>5. Eq(order)
  <2> HIDE DEF Eq
  <2> QED BY <1>3, <1>4
<1>6. order = [n \in 0..N |-> IF n = 0 THEN <<>> ELSE Follow(order[n - 1])] BY <1>5
<1>7. ASSUME NEW n \in 0..N PROVE order[n] = IF n = 0 THEN <<>> ELSE Follow(order[n - 1])
  BY <1>6
<1>8. order[0] = <<>> BY <1>1, <1>7
<1>9. ASSUME NEW n \in 1..N PROVE order[n] = Follow(order[n - 1])
  <2>1. n \in 0..N /\ n # 0 BY <1>1
  <2> QED BY <1>7, <2>1
<1>10. \A n \in 0..N : order[n] \in SS
  <2> DEFINE Bad == {n \in Nat : n \in 0..N /\ order[n] \notin SS}
  <2> SUFFICES ASSUME Bad # {} PROVE FALSE BY <1>1
  <2>1. PICK m \in Bad : \A n \in Bad : m <= n
    <3> HIDE DEF SS
    <3> QED BY LeastNat
  <2>2. m # 0
    <3>1. <<>> \in SS OBVIOUS
    <3> HIDE DEF SS
    <3> QED BY <1>8, <2>1, <3>1
  <2>3. m \in 1..N /\ m - 1 \in Nat /\ m - 1 \in 0..N BY <1>1, <2>1, <2>2
  <2>4. m - 1 \notin Bad
    <3> HIDE DEF Bad
    <3> QED BY <2>1, <2>3
  <2>5. order[m - 1] \in SS BY <2>3, <2>4
  <2>6. order[m] \in SS BY <1>9, <2>3, <2>5, FollowTyped
  <2> QED BY <2>1, <2>6
<1> QED BY <1>8, <1>9, <1>10

(* The first n places of the order are n packages, or all of them. *)
LEMMA OrderGrows ==
  ASSUME NEW n \in 0..Len(Names)
  PROVE  /\ IsInjective(order[n])
         /\ Range(order[n]) = Packages \/ Len(order[n]) = n
<1> DEFINE Good(i) == /\ IsInjective(order[i])
                      /\ Range(order[i]) = Packages \/ Len(order[i]) = i
           Bad == {i \in Nat : i \in 0..Len(Names) /\ ~Good(i)}
<1>0. Len(Names) \in Nat BY ReleaseAssumption
<1> SUFFICES ASSUME Bad # {} PROVE FALSE BY <1>0
<1>1. PICK m \in Bad : \A i \in Bad : m <= i
  <2> HIDE DEF Good
  <2> QED BY LeastNat
<1>2. m # 0
  <2>1. order[0] = <<>> BY OrderDef
  <2>2. Good(0) BY <2>1 DEF IsInjective
  <2> QED BY <1>1, <2>2
<1>3. m \in 1..Len(Names) /\ m - 1 \in Nat /\ m - 1 \in 0..Len(Names) BY <1>0, <1>1, <1>2
<1>4. Good(m - 1)
  <2>1. m - 1 \notin Bad
    <3> HIDE DEF Bad
    <3> QED BY <1>1, <1>3
  <2> HIDE DEF Good
  <2> QED BY <1>3, <2>1
<1> DEFINE v == order[m - 1]
<1>5. v \in Seq(Packages) /\ order[m] = Follow(v) BY <1>3, OrderDef
<1>6. IsInjective(v) /\ (Range(v) = Packages \/ Len(v) = m - 1) BY <1>4
<1>7. Range(v) \in SUBSET Packages BY <1>5 DEF Range
<1> HIDE DEF v
<1>8. CASE ReadyOf(Range(v)) = {}
  <2>1. order[m] = v BY <1>5, <1>8 DEF Follow
  <2>2. Range(v) = Packages BY <1>7, <1>8, ReadyFacts
  <2>3. Good(m) BY <1>6, <2>1, <2>2
  <2> QED BY <1>1, <2>3
<1>9. CASE ReadyOf(Range(v)) # {}
  <2> DEFINE p == Names[Min(ReadyOf(Range(v)))]
  <2>1. p \in Packages \ Range(v) BY <1>7, <1>9, ReadyFacts
  <2>2. order[m] = Append(v, p) BY <1>5, <1>9 DEF Follow
  <2> HIDE DEF p
  <2>3. Len(v) = m - 1 BY <1>6, <2>1
  <2>4. /\ Len(Append(v, p)) = m
        /\ \A i \in 1..m : Append(v, p)[i] = IF i = m THEN p ELSE v[i]
        /\ DOMAIN Append(v, p) = 1..m /\ DOMAIN v = 1..(m - 1)
    BY <1>5, <2>1, <2>3
  <2>5. \A i \in 1..(m - 1) : v[i] # p BY <2>1, <2>4 DEF Range
  <2>6. IsInjective(Append(v, p)) BY <1>3, <1>6, <2>4, <2>5 DEF IsInjective
  <2>7. Good(m) BY <2>2, <2>4, <2>6
  <2> QED BY <1>1, <2>7
<1> QED BY <1>8, <1>9

LEMMA OrderFacts ==
  /\ publishOrder \in Seq(Packages) /\ IsInjective(publishOrder)
  /\ Range(publishOrder) = Packages
<1>0. Len(Names) \in Nat /\ Len(Names) \in 0..Len(Names) BY ReleaseAssumption
<1>1. publishOrder \in Seq(Packages) /\ IsInjective(publishOrder)
  BY <1>0, OrderDef, OrderGrows DEF publishOrder
<1>2. ASSUME Len(publishOrder) = Len(Names) PROVE Range(publishOrder) = Packages
  <2>1. publishOrder \in [1..Len(Names) -> Packages] BY <1>1, <1>2
  <2>2. publishOrder \in Injection(1..Len(Names), Packages) BY <1>1, <2>1 DEF Injection
  <2>3. IsFiniteSet(1..Len(Names)) /\ Cardinality(1..Len(Names)) = Len(Names)
    BY PackagesFinite
  <2>4. publishOrder \in Surjection(1..Len(Names), Packages)
    BY <2>2, <2>3, PackagesFinite, FS_Injection
  <2>5. DOMAIN publishOrder = 1..Len(Names) BY <2>1
  <2> QED BY <2>1, <2>4, <2>5 DEF Surjection, Range
<1> QED BY <1>0, <1>1, <1>2, OrderGrows DEF publishOrder

(* The places of the packages that are released: each has one. *)
LEMMA EntryFacts ==
  ASSUME candidate \in Candidates
  PROVE  /\ candidate.release \in SUBSET Packages /\ candidate.release # {}
         /\ releaseEntries \subseteq Nat \ {0}
         /\ first \in releaseEntries /\ \A i \in releaseEntries : first <= i
         /\ \A i \in releaseEntries : publishOrder[i] \in candidate.release
         /\ \A i, j \in releaseEntries : publishOrder[i] = publishOrder[j] => i = j
         /\ \A p \in candidate.release : \E i \in releaseEntries : publishOrder[i] = p
         /\ candidate.legacy => releaseEntries \ {first} # {}
<1>1. candidate.release \in SUBSET Packages /\ candidate.legacy \in BOOLEAN
  BY ReleaseAssumption
<1>2. candidate.release # {}
  <2>1. Cardinality(candidate.release) # 0
    BY <1>1, ReleaseAssumption, PackagesFinite
  <2> QED BY <2>1, FS_EmptySet
<1>3. DOMAIN publishOrder = 1..Len(publishOrder) /\ Len(publishOrder) \in Nat BY OrderFacts
<1>4. releaseEntries \subseteq Nat \ {0} BY <1>3 DEF releaseEntries
<1>5. \A p \in candidate.release : \E i \in releaseEntries : publishOrder[i] = p
  BY <1>1, OrderFacts DEF releaseEntries, Range
<1>6. releaseEntries # {} BY <1>2, <1>5
<1>7. first \in releaseEntries /\ \A i \in releaseEntries : first <= i
  BY <1>4, <1>6, MinFacts DEF first
<1>8. \A i, j \in releaseEntries : publishOrder[i] = publishOrder[j] => i = j
  BY OrderFacts DEF releaseEntries, IsInjective
<1>9. ASSUME candidate.legacy, releaseEntries \ {first} = {} PROVE FALSE
  <2>1. \A p \in candidate.release : p = publishOrder[first] BY <1>5, <1>9
  <2>2. candidate.release = {publishOrder[first]} BY <1>2, <2>1
  <2>3. Cardinality(candidate.release) = 1 BY <2>2, FS_Singleton
  <2> QED BY <1>9, <2>3, ReleaseAssumption
<1>10. \A i \in releaseEntries : publishOrder[i] \in candidate.release BY DEF releaseEntries
<1> QED BY <1>1, <1>2, <1>4, <1>5, <1>7, <1>8, <1>9, <1>10

----------------------------------------------------------------------------
(* What of the state is fixed in a step. *)
LEMMA Same ==
  ASSUME candidate' = candidate
  PROVE  /\ releaseEntries' = releaseEntries /\ releaseTag' = releaseTag /\ first' = first
         /\ Journal' = Journal /\ Stage' = Stage /\ RunOf' = RunOf
<1>1. releaseEntries' = releaseEntries BY DEF releaseEntries
<1>2. first' = first BY <1>1 DEF first
<1>3. Journal' = Journal BY DEF Journal
<1> QED BY <1>1, <1>2, <1>3 DEF releaseTag, Stage, RunOf

LEMMA Typed ==
  ASSUME TypeOK
  PROVE  /\ DOMAIN stages = 1..Len(stages) /\ Len(stages) \in Nat
         /\ \A s \in DOMAIN stages : stages[s] \in Stage /\ s \in Nat \ {0}
         /\ DOMAIN runs = 1..Len(runs) /\ Len(runs) \in Nat
         /\ \A r \in DOMAIN runs : runs[r] \in RunOf /\ r \in Nat \ {0}
         /\ job.run \in Nat /\ job.pc \in Labels /\ job.index \in Nat \ {0}
         /\ job = [run |-> job.run, pc |-> job.pc, index |-> job.index]
         /\ NoJournal \notin Journal
<1>1. NoJournal \notin Journal
  <2>1. candidate.release # {} BY EntryFacts DEF TypeOK
  <2>2. ASSUME NEW j \in Journal PROVE j # NoJournal
    <3>1. DOMAIN j.records = candidate.release BY DEF Journal
    <3>2. DOMAIN NoJournal.records = {} BY DEF NoJournal
    <3> QED BY <2>1, <3>1, <3>2
  <2> QED BY <2>2
<1>2. DOMAIN stages = 1..Len(stages) /\ Len(stages) \in Nat
      /\ \A s \in DOMAIN stages : stages[s] \in Stage /\ s \in Nat \ {0}
  BY DEF TypeOK
<1>3. DOMAIN runs = 1..Len(runs) /\ Len(runs) \in Nat
      /\ \A r \in DOMAIN runs : runs[r] \in RunOf /\ r \in Nat \ {0}
  BY DEF TypeOK
<1> QED BY <1>1, <1>2, <1>3 DEF TypeOK

(* Everything but where the loop is. *)
Base == /\ TypeOK /\ Locked /\ Priors /\ Written /\ Alone /\ OneStage
        /\ \A s \in DOMAIN stages : Uploaded(s) /\ Approved(s)
        /\ Needs /\ \A r \in DOMAIN runs : Finished(r)

(* The job goes on. *)
Moves(pc, index, evidence) ==
    /\ job' = [job EXCEPT !.pc = pc, !.index = index]
    /\ memory' = evidence /\ disk' = evidence
    /\ UNCHANGED <<candidate, registry, stages, runs, meddled>>

LEMMA MovesKeep ==
  ASSUME Base, NEW pc \in Past, NEW index \in Nat \ {0}, NEW evidence \in Journal,
         ~evidence.complete, job.pc # "idle", Moves(pc, index, evidence),
         \A s \in DOMAIN stages : stages[s].run = job.run => pc \in Loop /\ Knows(evidence, s),
         \A s \in DOMAIN stages : stages[s].state = "live" => stages[s].run = job.run,
         \A r \in DOMAIN runs :
            runs[r].mode = "recover" /\ runs[r].status # "completed" => r = job.run,
         Needed
  PROVE  Base'
<1>0. TypeOK BY DEF Base
<1>1. /\ candidate' = candidate /\ registry' = registry /\ stages' = stages /\ runs' = runs
      /\ meddled' = meddled /\ memory' = evidence /\ disk' = evidence
      /\ job'.run = job.run /\ job'.pc = pc /\ job'.index = index
      /\ job' = [run |-> job.run, pc |-> pc, index |-> index]
  BY <1>0, Typed DEF Moves
<1>2. TypeOK' BY <1>0, <1>1, Same, Typed DEF TypeOK, Past
<1>3. Locked' BY <1>1 DEF Base, Locked, Past, Idle
<1>4. Written' BY <1>0, <1>1, Typed DEF Written
<1>11. Priors' BY <1>1 DEF Base, Priors
<1>5. Alone' BY <1>1 DEF Base, Alone
<1>6. OneStage' BY <1>1 DEF Base, OneStage
<1>7. ASSUME NEW s \in DOMAIN stages PROVE Uploaded(s)'
  <2>1. CASE stages[s].run = job.run
    BY <1>0, <1>1, <1>7, <2>1, Typed DEF Base, Uploaded, Knows, Locked
  <2>2. CASE stages[s].run # job.run
    BY <1>1, <1>7, <2>2 DEF Base, Uploaded, Knows
  <2> QED BY <2>1, <2>2
<1>8. ASSUME NEW s \in DOMAIN stages PROVE Approved(s)'
  BY <1>1, <1>8, Same DEF Base, Approved, Tagged
<1>9. Needs' BY <1>1 DEF Needs, Needed
<1>10. ASSUME NEW r \in DOMAIN runs PROVE Finished(r)'
  BY <1>1, <1>10, Same DEF Base, Finished, Needed, Settled, Tagged
<1> QED BY <1>1, <1>2, <1>3, <1>4, <1>5, <1>6, <1>7, <1>8, <1>9, <1>10, <1>11 DEF Base

(* The job ends. *)
LEMMA FinishKeeps ==
  ASSUME IInv, NEW mutation \in {"skipped", "success", "failure", "cancelled"},
         NEW journal \in Journal \cup {NoJournal}, NEW preserved \in BOOLEAN,
         job.pc # "idle", Finish(mutation, journal, preserved), UNCHANGED World,
         job.pc \in Loop => mutation # "skipped",
         \A s \in DOMAIN stages : stages[s].run = job.run /\ preserved => Knows(journal, s),
         journal.complete =>
            /\ mutation = "success" /\ Needed
            /\ \A p \in candidate.release :
                 /\ Settled(journal, p)
                 /\ journal.records[p].state = "public" => Tagged(p)
                 /\ registry[p].latest = journal.before[p]
  PROVE  IInv'
<1>0. TypeOK BY DEF IInv
<1> DEFINE r0 == job.run
<1>1. /\ r0 \in DOMAIN runs /\ runs[r0] \in RunOf /\ runs[r0].status = "running"
      /\ runs[r0].mode \in {"stage", "recover"} /\ DOMAIN runs = 1..Len(runs)
  BY <1>0, Typed DEF IInv, Locked
<1>2. /\ candidate' = candidate /\ registry' = registry /\ stages' = stages
      /\ meddled' = meddled /\ memory' = NoJournal /\ disk' = NoJournal
      /\ job' = Idle /\ job'.pc = "idle" /\ job'.run = 0 /\ job'.index = 1
  BY DEF Finish, World, Idle
<1>3. /\ DOMAIN runs' = DOMAIN runs
      /\ \A r \in DOMAIN runs : r # r0 => runs'[r] = runs[r]
      /\ runs'[r0].mode = runs[r0].mode /\ runs'[r0].status = "completed"
      /\ runs'[r0].prior = runs[r0].prior
      /\ runs'[r0].mutation = mutation /\ runs'[r0].journal = journal
      /\ runs'[r0].preserved = preserved
      /\ runs'[r0] \in RunOf /\ runs' \in Seq(RunOf)
  <2>1. runs' = [runs EXCEPT ![r0] =
                   [@ EXCEPT !.status = "completed", !.mutation = mutation,
                             !.journal = journal, !.preserved = preserved]]
    BY <1>0, <1>1, Typed DEF Finish, RunOf
  <2>2. [runs[r0] EXCEPT !.status = "completed", !.mutation = mutation,
                         !.journal = journal, !.preserved = preserved] \in RunOf
    BY <1>1 DEF RunOf
  <2>3. runs' \in Seq(RunOf) BY <1>0, <1>1, <2>1, <2>2 DEF TypeOK
  <2> QED BY <1>1, <2>1, <2>2, <2>3 DEF RunOf
<1> HIDE DEF r0
<1>4. TypeOK' BY <1>0, <1>2, <1>3, Same DEF TypeOK, Idle, Labels
<1>5. Locked'
  <2>1. \A r \in DOMAIN runs : runs[r].status = "running" => r = r0
    BY DEF IInv, Locked, r0
  <2>2. \A r \in DOMAIN runs : runs'[r].status # "running" BY <1>3, <2>1
  <2>3. \A r \in DOMAIN runs : runs[r].mode \in {"pack", "legacy"} => runs[r].status = "completed"
    BY DEF IInv, Locked
  <2>4. \A r \in DOMAIN runs : runs'[r].mode \in {"pack", "legacy"} => runs'[r].status = "completed"
    BY <1>3, <2>3
  <2> QED BY <1>2, <1>3, <2>2, <2>4 DEF Locked
<1>14. Priors' BY <1>1, <1>3 DEF IInv, Priors
<1>6. Written' BY <1>2 DEF Written, Past, Labels, NoJournal
<1>7. \A r \in DOMAIN runs : r # r0 => runs'[r].mode = runs[r].mode /\ runs'[r].status = runs[r].status
  BY <1>3
<1>8. Alone'
  <2>1. ASSUME NEW r \in DOMAIN runs, runs'[r].mode = "recover", runs'[r].status # "completed"
        PROVE  /\ \A q \in DOMAIN runs \ {r} : runs'[q].mode = "recover" => runs'[q].status = "completed"
               /\ \A s \in DOMAIN stages : stages[s].state = "live" => stages[s].run = r
    <3>1. r # r0 BY <1>3, <2>1
    <3>2. runs[r].mode = "recover" /\ runs[r].status # "completed" BY <1>7, <2>1, <3>1
    <3> QED BY <1>3, <1>7, <3>2 DEF IInv, Alone
  <2> QED BY <1>2, <1>3, <2>1 DEF Alone, Past, Labels
<1>9. OneStage' BY <1>2 DEF IInv, OneStage
<1>10. ASSUME NEW s \in DOMAIN stages PROVE Uploaded(s)'
  <2>0. Uploaded(s) BY DEF IInv
  <2>1. CASE stages[s].run = r0
    <3>1. job.pc \in Loop BY <1>1, <2>0, <2>1 DEF Uploaded, r0
    <3>2. mutation # "skipped" /\ (preserved => Knows(journal, s)) BY <2>1, <3>1 DEF r0
    <3> QED BY <1>1, <1>2, <1>3, <2>1, <3>2 DEF Uploaded, Knows
  <2>2. CASE stages[s].run # r0
    <3>1. runs'[stages[s].run] = runs[stages[s].run] /\ stages[s].run \in DOMAIN runs
      BY <1>3, <2>0, <2>2 DEF Uploaded
    <3> QED BY <1>2, <1>3, <2>0, <2>2, <3>1 DEF Uploaded, Knows, r0
  <2> QED BY <2>1, <2>2
<1>11. ASSUME NEW s \in DOMAIN stages PROVE Approved(s)'
  BY <1>2, <1>11, Same DEF IInv, Approved, Tagged
<1>12. Needs' /\ AtIndex' /\ Passed' /\ Progress'
  BY <1>2 DEF Needs, AtIndex, Passed, Progress, Past, Loop, Labels
<1>13. ASSUME NEW r \in DOMAIN runs PROVE Finished(r)'
  <2>1. CASE r = r0
    BY <1>2, <1>3, <2>1, Same DEF Finished, Needed, Settled, Tagged
  <2>2. CASE r # r0
    <3>1. runs'[r] = runs[r] /\ Finished(r) BY <1>3, <2>2 DEF IInv
    <3> QED BY <1>2, <3>1, Same DEF Finished, Needed, Settled, Tagged
  <2> QED BY <2>1, <2>2
<1> QED BY <1>2, <1>3, <1>4, <1>5, <1>6, <1>8, <1>9, <1>10, <1>11, <1>12, <1>13, <1>14 DEF IInv

(* Runs are dispatched, run again and started; what has uploaded stays. *)
LEMMA RunsKeep ==
  ASSUME IInv, UNCHANGED <<candidate, registry, stages, memory, disk, meddled>>,
         job' = job \/ (job = Idle /\ job'.pc = "preflight"),
         job' \in [run : Nat, pc : Labels, index : Nat \ {0}],
         runs' \in Seq(RunOf), DOMAIN runs \subseteq DOMAIN runs',
         \A r \in DOMAIN runs :
            /\ runs'[r].mode = runs[r].mode /\ runs'[r].prior = runs[r].prior
            /\ runs'[r].journal = runs[r].journal /\ runs'[r].preserved = runs[r].preserved
            /\ \/ runs'[r].status = runs[r].status /\ runs'[r].mutation = runs[r].mutation
               \/ runs[r].status # "completed"
               \/ runs[r].mutation = "skipped",
         \A r \in DOMAIN runs' \ DOMAIN runs :
            /\ runs'[r].journal = NoJournal
            /\ runs'[r].mode = "recover" => runs'[r].prior \in DOMAIN runs',
         Locked', Alone'
  PROVE  IInv'
<1>0. TypeOK /\ Locked BY DEF IInv
<1>1. TypeOK' BY <1>0, Same DEF TypeOK
<1>2. job.pc \in Past => job' = job BY DEF Idle, Past, Labels
<1>3. job'.pc \in Past <=> job.pc \in Past BY <1>2 DEF Idle, Past, Labels
<1>4. Written' BY <1>3 DEF IInv, Written
<1>12. Priors' BY DEF IInv, Priors
<1>5. OneStage' BY DEF IInv, OneStage
<1>6. Loop \subseteq Past BY DEF Loop
<1>7. ASSUME NEW s \in DOMAIN stages PROVE Uploaded(s)'
  <2>0. Uploaded(s) /\ stages' = stages /\ memory' = memory BY DEF IInv
  <2> DEFINE r == stages[s].run
  <2>1. r \in DOMAIN runs /\ r \in DOMAIN runs' /\ runs'[r].mode # "pack"
    BY <2>0 DEF Uploaded
  <2>2. CASE runs[r].status = "completed" /\ runs[r].mutation # "skipped"
    <3>1. /\ runs'[r].status = "completed" /\ runs'[r].mutation # "skipped"
          /\ runs'[r].preserved = runs[r].preserved /\ runs'[r].journal = runs[r].journal
      BY <2>1, <2>2
    <3>2. r # job.run \/ job.pc \notin Loop
      BY <1>0, <2>2 DEF Locked, Loop, Past
    <3>3. runs[r].preserved => Knows(runs[r].journal, s)
      BY <2>0, <2>2, <3>2 DEF Uploaded
    <3>4. runs'[r].preserved => Knows(runs'[r].journal, s) BY <3>1, <3>3
    <3>5. Knows(runs[r].journal, s)' <=> Knows(runs'[r].journal, s) BY <2>0 DEF Knows
    <3> QED BY <2>0, <2>1, <3>1, <3>4, <3>5 DEF Uploaded
  <2>3. CASE ~(runs[r].status = "completed" /\ runs[r].mutation # "skipped")
    <3>1. r = job.run /\ job.pc \in Loop /\ Knows(memory, s) BY <2>0, <2>3 DEF Uploaded
    <3> QED BY <1>2, <1>6, <2>0, <2>1, <3>1 DEF Uploaded, Knows
  <2> QED BY <2>2, <2>3
<1>8. ASSUME NEW s \in DOMAIN stages PROVE Approved(s)'
  BY <1>8, Same DEF IInv, Approved, Tagged
<1>9. Needs' BY <1>3 DEF IInv, Needs, Needed
<1>10. AtIndex' /\ Passed' /\ Progress'
  <2>1. CASE job'.pc \notin Past
    BY <1>6, <2>1 DEF AtIndex, Passed, Progress, Past, Loop, Labels
  <2>2. CASE job'.pc \in Past
    <3>1. job' = job BY <1>2, <1>3, <2>2
    <3>2. \A p : Behind(p)' <=> Behind(p) BY <3>1, Same DEF Behind
    <3>3. Entry' = Entry BY <3>1 DEF Entry
    <3>4. \A p : Settled(memory, p)' <=> Settled(memory, p) BY DEF Settled
    <3>5. \A p : Tagged(p)' <=> Tagged(p) BY Same DEF Tagged
    <3>6. AtIndex' BY <3>1, Same DEF IInv, AtIndex
    <3>7. Passed' BY <3>1, <3>2, <3>3 DEF IInv, Passed
    <3>8. Progress' BY <3>1, <3>2, <3>3, <3>4, <3>5 DEF IInv, Progress
    <3> QED BY <3>6, <3>7, <3>8
  <2> QED BY <2>1, <2>2
<1>11. ASSUME NEW r \in DOMAIN runs' PROVE Finished(r)'
  <2>1. CASE r \notin DOMAIN runs
    BY <2>1, <1>11 DEF Finished, NoJournal
  <2>2. CASE r \in DOMAIN runs
    <3>1. Finished(r) /\ runs'[r].journal = runs[r].journal BY <2>2 DEF IInv
    <3>2. runs[r].journal.complete =>
            runs'[r].status = runs[r].status /\ runs'[r].mutation = runs[r].mutation
      BY <2>2, <3>1 DEF Finished
    <3> QED BY <3>1, <3>2, Same DEF Finished, Needed, Settled, Tagged
  <2> QED BY <2>1, <2>2
<1> QED BY <1>1, <1>4, <1>5, <1>7, <1>8, <1>9, <1>10, <1>11, <1>12 DEF IInv

LEMMA RunTyped ==
  ASSUME NEW mode \in {"pack", "stage", "recover", "legacy"}, NEW prior \in Nat,
         NEW artifact \in {"certified", "altered"}
  PROVE  /\ Run(mode, prior, artifact) \in RunOf
         /\ Run(mode, prior, artifact).journal = NoJournal
         /\ Run(mode, prior, artifact).status = "queued"
         /\ Run(mode, prior, artifact).mode = mode
         /\ Run(mode, prior, artifact).prior = prior
  BY DEF Run, RunOf

LEMMA DispatchKeeps ==
  ASSUME IInv, DispatchStage \/ DispatchRecovery
  PROVE  IInv'
<1>0. TypeOK /\ Locked /\ Alone BY DEF IInv
<1>1. PICK mode \in {"stage", "recover"}, prior \in Nat, artifact \in {"certified", "altered"} :
        /\ Dispatched(mode, prior, artifact)
        /\ mode = "recover" => DispatchRecovery /\ prior \in DOMAIN runs
  <2>1. CASE DispatchStage BY <2>1 DEF DispatchStage
  <2>2. CASE DispatchRecovery BY <1>0, <2>2, Typed DEF DispatchRecovery
  <2> QED BY <2>1, <2>2
<1> DEFINE new == Run(mode, prior, artifact)
           n == Len(runs) + 1
<1>2. /\ runs' = Append(runs, new) /\ job' = job
      /\ UNCHANGED <<candidate, registry, stages, memory, disk, meddled>>
  BY <1>1 DEF Dispatched
<1>3. new \in RunOf /\ new.journal = NoJournal /\ new.status = "queued" /\ new.mode = mode
      /\ new.prior = prior
  BY RunTyped
<1> HIDE DEF new
<1>4. /\ runs' \in Seq(RunOf) /\ DOMAIN runs' = DOMAIN runs \cup {n} /\ n \notin DOMAIN runs
      /\ runs'[n] = new /\ \A r \in DOMAIN runs : runs'[r] = runs[r]
  BY <1>0, <1>2, <1>3 DEF TypeOK
<1> HIDE DEF n
<1>5. job' \in [run : Nat, pc : Labels, index : Nat \ {0}] BY <1>0, <1>2 DEF TypeOK
<1>6. Locked'
  <2>1. n # job.run \/ job.pc = "idle" BY <1>0, <1>4 DEF Locked
  <2>2. \A r \in DOMAIN runs' : runs'[r].status = "running" => r \in DOMAIN runs
    BY <1>3, <1>4
  <2>3. \A r \in DOMAIN runs' : runs'[r].mode \in {"pack", "legacy"} => r \in DOMAIN runs
    BY <1>3, <1>4
  <2> QED BY <1>0, <1>2, <1>4, <2>1, <2>2, <2>3 DEF Locked
<1>7. Alone'
  <2>1. CASE mode = "stage"
    <3>1. \A r \in DOMAIN runs' : runs'[r].mode = "recover" => r \in DOMAIN runs
      BY <1>3, <1>4, <2>1
    <3> QED BY <1>0, <1>2, <1>4, <3>1 DEF Alone
  <2>2. CASE mode = "recover"
    <3>1. /\ \A s \in DOMAIN stages : stages[s].state # "live"
          /\ \A r \in DOMAIN runs : runs[r].mode = "recover" => runs[r].status = "completed"
          /\ \A r \in DOMAIN runs : runs[r].status # "running"
      BY <1>1, <2>2 DEF DispatchRecovery
    <3>2. job.pc = "idle" BY <1>0, <3>1 DEF Locked
    <3> QED BY <1>2, <1>4, <3>1, <3>2 DEF Alone, Past
  <2> QED BY <2>1, <2>2
<1>8. \A r \in DOMAIN runs' \ DOMAIN runs :
            /\ runs'[r].journal = NoJournal
            /\ runs'[r].mode = "recover" => runs'[r].prior \in DOMAIN runs'
  BY <1>1, <1>3, <1>4
<1> QED BY <1>2, <1>4, <1>5, <1>6, <1>7, <1>8, RunsKeep

LEMMA RerunKeeps ==
  ASSUME IInv, Rerunnable \subseteq {"skipped"}, Rerun
  PROVE  IInv'
<1>0. TypeOK /\ Locked /\ Alone BY DEF IInv
<1>1. PICK r0 \in DOMAIN runs :
        /\ runs[r0].mode = "stage" /\ runs[r0].status = "completed"
        /\ runs[r0].mutation \in Rerunnable
        /\ runs' = [runs EXCEPT ![r0].status = "queued", ![r0].attempt = @ + 1,
                                ![r0].mutation = "skipped"]
  BY DEF Rerun
<1>2. job' = job /\ UNCHANGED <<candidate, registry, stages, memory, disk, meddled>>
  BY DEF Rerun
<1> DEFINE again == [runs[r0] EXCEPT !.status = "queued", !.attempt = @ + 1, !.mutation = "skipped"]
<1>3. runs[r0] \in RunOf BY <1>0, Typed
<1>4. /\ again \in RunOf /\ again.status = "queued" /\ again.mutation = "skipped"
      /\ again.mode = "stage" /\ again.journal = runs[r0].journal
      /\ again.prior = runs[r0].prior
      /\ again.preserved = runs[r0].preserved
  BY <1>1, <1>3 DEF RunOf
<1>5. runs' = [runs EXCEPT ![r0] = again] BY <1>0, <1>1, <1>3, Typed DEF RunOf
<1> HIDE DEF again
<1>6. /\ runs' \in Seq(RunOf) /\ DOMAIN runs' = DOMAIN runs /\ runs'[r0] = again
      /\ \A r \in DOMAIN runs : r # r0 => runs'[r] = runs[r]
  BY <1>0, <1>4, <1>5 DEF TypeOK
<1>7. job' \in [run : Nat, pc : Labels, index : Nat \ {0}] BY <1>0, <1>2 DEF TypeOK
<1>8. runs[r0].mutation = "skipped" BY <1>1
<1>9. \A r \in DOMAIN runs : /\ runs'[r].mode = runs[r].mode
                             /\ runs'[r].status = runs[r].status \/ r = r0
  BY <1>1, <1>4, <1>6
<1>10. Locked'
  <2>1. job.pc # "idle" => job.run # r0 BY <1>0, <1>1 DEF Locked
  <2>2. \A r \in DOMAIN runs : runs'[r].status = "running" => runs[r].status = "running"
    BY <1>4, <1>6
  <2>3. \A r \in DOMAIN runs : runs'[r].mode \in {"pack", "legacy"} => r # r0
    BY <1>1, <1>9
  <2> QED BY <1>0, <1>2, <1>6, <2>1, <2>2, <2>3 DEF Locked
<1>11. Alone'
  <2>1. \A r \in DOMAIN runs : runs'[r].mode = "recover" => r # r0 BY <1>1, <1>9
  <2>2. \A r \in DOMAIN runs : runs[r].mode = "recover" => runs'[r] = runs[r]
    BY <1>1, <1>6
  <2> QED BY <1>0, <1>2, <1>6, <1>9, <2>1, <2>2 DEF Alone
<1>12. \A r \in DOMAIN runs :
            /\ runs'[r].mode = runs[r].mode /\ runs'[r].prior = runs[r].prior
            /\ runs'[r].journal = runs[r].journal /\ runs'[r].preserved = runs[r].preserved
            /\ \/ runs'[r].status = runs[r].status /\ runs'[r].mutation = runs[r].mutation
               \/ runs[r].status # "completed"
               \/ runs[r].mutation = "skipped"
  BY <1>1, <1>4, <1>6, <1>8
<1> QED BY <1>2, <1>6, <1>7, <1>10, <1>11, <1>12, RunsKeep

LEMMA StartKeeps ==
  ASSUME IInv, Start
  PROVE  IInv'
<1>0. TypeOK /\ Locked /\ Alone BY DEF IInv
<1>1. PICK r0 \in DOMAIN runs :
        /\ runs[r0].status = "queued"
        /\ runs' = [runs EXCEPT ![r0].status = "running"]
        /\ job' = [run |-> r0, pc |-> "preflight", index |-> 1]
  BY DEF Start
<1>2. job = Idle /\ UNCHANGED <<candidate, registry, stages, memory, disk, meddled>>
  BY DEF Start
<1> DEFINE started == [runs[r0] EXCEPT !.status = "running"]
<1>3. runs[r0] \in RunOf /\ r0 \in Nat BY <1>0, Typed
<1>4. /\ started \in RunOf /\ started.status = "running" /\ started.mutation = runs[r0].mutation
      /\ started.mode = runs[r0].mode /\ started.journal = runs[r0].journal
      /\ started.prior = runs[r0].prior
      /\ started.preserved = runs[r0].preserved
  BY <1>3 DEF RunOf
<1>5. runs' = [runs EXCEPT ![r0] = started] BY <1>1
<1> HIDE DEF started
<1>6. /\ runs' \in Seq(RunOf) /\ DOMAIN runs' = DOMAIN runs /\ runs'[r0] = started
      /\ \A r \in DOMAIN runs : r # r0 => runs'[r] = runs[r]
  BY <1>0, <1>4, <1>5 DEF TypeOK
<1>7. /\ job' \in [run : Nat, pc : Labels, index : Nat \ {0}]
      /\ job'.pc = "preflight" /\ job'.run = r0
  BY <1>1, <1>3 DEF Labels
<1>8. Locked'
  <2>1. runs[r0].mode \in {"stage", "recover"} BY <1>0, <1>1, <1>3 DEF Locked, RunOf
  <2>2. \A r \in DOMAIN runs : runs[r].status # "running"
    <3>1. 0 \notin DOMAIN runs BY <1>0, Typed
    <3> QED BY <1>0, <1>2, <3>1 DEF Locked, Idle
  <2>3. \A r \in DOMAIN runs : runs'[r].status = "running" => r = r0 BY <1>6, <2>2
  <2>4. \A r \in DOMAIN runs : runs'[r].mode \in {"pack", "legacy"} => r # r0
    BY <1>4, <1>6, <2>1
  <2>5. job' # Idle BY <1>7 DEF Idle
  <2> QED BY <1>0, <1>4, <1>6, <1>7, <2>1, <2>3, <2>4, <2>5 DEF Locked
<1>9. \A r \in DOMAIN runs : /\ runs'[r].mode = runs[r].mode
                             /\ runs'[r].status = runs[r].status \/ r = r0
  BY <1>4, <1>6
<1>10. Alone'
  <2>1. job'.pc \notin Past BY <1>7 DEF Past
  <2>2. ASSUME NEW r \in DOMAIN runs, runs'[r].mode = "recover", runs'[r].status # "completed"
        PROVE  /\ \A q \in DOMAIN runs \ {r} : runs'[q].mode = "recover" => runs'[q].status = "completed"
               /\ \A s \in DOMAIN stages : stages[s].state = "live" => stages[s].run = r
    <3>1. runs[r].mode = "recover" /\ runs[r].status # "completed" BY <1>1, <1>9, <2>2
    <3>2. /\ \A q \in DOMAIN runs \ {r} : runs[q].mode = "recover" => runs[q].status = "completed"
          /\ \A s \in DOMAIN stages : stages[s].state = "live" => stages[s].run = r
      BY <1>0, <3>1 DEF Alone
    <3>3. runs[r0].status # "completed" BY <1>1
    <3> QED BY <1>4, <1>6, <1>9, <3>2, <3>3
  <2> QED BY <1>2, <1>6, <2>1, <2>2 DEF Alone
<1>11. \A r \in DOMAIN runs :
            /\ runs'[r].mode = runs[r].mode /\ runs'[r].prior = runs[r].prior
            /\ runs'[r].journal = runs[r].journal /\ runs'[r].preserved = runs[r].preserved
            /\ \/ runs'[r].status = runs[r].status /\ runs'[r].mutation = runs[r].mutation
               \/ runs[r].status # "completed"
               \/ runs[r].mutation = "skipped"
  BY <1>1, <1>4, <1>6
<1> QED BY <1>2, <1>6, <1>7, <1>8, <1>10, <1>11, RunsKeep

----------------------------------------------------------------------------
(* The job has uploaded nothing before its loop. *)
LEMMA NoneYet ==
  ASSUME IInv, job.pc # "idle", job.pc \notin Loop, NEW s \in DOMAIN stages
  PROVE  stages[s].run # job.run
<1>1. Uploaded(s) /\ runs[job.run].status = "running" BY DEF IInv, Locked
<1> QED BY <1>1 DEF Uploaded

LEMMA OwnKnown ==
  ASSUME IInv, job.pc # "idle", NEW s \in DOMAIN stages, stages[s].run = job.run
  PROVE  Knows(memory, s) /\ job.pc \in Loop
<1>1. Uploaded(s) /\ runs[job.run].status = "running" BY DEF IInv, Locked
<1> QED BY <1>1 DEF Uploaded

(* What the journal has at a place of the job. *)
LEMMA JournalFacts ==
  ASSUME IInv, job.pc \in Past
  PROVE  /\ memory \in Journal /\ ~memory.complete /\ disk = memory /\ job.pc # "idle"
         /\ \A s \in DOMAIN stages : stages[s].state = "live" => stages[s].run = job.run
         /\ \A r \in DOMAIN runs :
              runs[r].mode = "recover" /\ runs[r].status # "completed" => r = job.run
         /\ Needed
<1>1. TypeOK /\ Written /\ Alone /\ Needs BY DEF IInv
<1>2. memory \in Journal /\ ~memory.complete /\ disk = memory BY <1>1 DEF TypeOK, Written
<1> QED BY <1>1, <1>2 DEF Past, Alone, Needs

LEMMA EntryPlace ==
  ASSUME IInv, job.pc \in Loop \ {"final"}
  PROVE  /\ Entry \in candidate.release /\ job.index \in releaseEntries
         /\ \A p : Behind(p) => p \in candidate.release /\ p # Entry
         /\ \A p : Behind(p) <=> \E i \in releaseEntries : p = publishOrder[i] /\ i < job.index
<1>1. TypeOK /\ job.index \in releaseEntries /\ job.pc # "final" BY DEF IInv, AtIndex
<1>2. candidate \in Candidates BY <1>1 DEF TypeOK
<1>3. Entry \in candidate.release BY <1>1, <1>2, EntryFacts DEF Entry
<1>4. ASSUME NEW p, Behind(p) PROVE p \in candidate.release /\ p # Entry
  <2>1. PICK i \in releaseEntries : p = publishOrder[i] /\ i < job.index
    BY <1>1, <1>4 DEF Behind
  <2>2. i # job.index /\ i \in Nat /\ job.index \in Nat BY <1>1, <1>2, <2>1, EntryFacts
  <2> QED BY <1>1, <1>2, <2>1, <2>2, EntryFacts DEF Entry
<1> QED BY <1>1, <1>3, <1>4 DEF Behind

LEMMA FailKeeps ==
  ASSUME IInv, job.pc \in Past, Fail, UNCHANGED World
  PROVE  IInv'
<1>1. memory \in Journal /\ ~memory.complete /\ job.pc # "idle" BY JournalFacts
<1>2. \A s \in DOMAIN stages : stages[s].run = job.run => Knows(memory, s)
  BY <1>1, OwnKnown
<1> QED BY <1>1, <1>2, FinishKeeps DEF Fail

LEMMA CrashKeeps ==
  ASSUME IInv, Crash
  PROVE  IInv'
<1>0. TypeOK /\ Locked /\ Written BY DEF IInv
<1>1. job.pc # "idle" BY <1>0 DEF Crash, Locked
<1>2. PICK preserved \in BOOLEAN :
        Finish(IF job.pc = "preflight" THEN "skipped" ELSE "cancelled",
               IF preserved THEN disk ELSE NoJournal, preserved)
  BY DEF Crash
<1>3. UNCHANGED World BY DEF Crash
<1>4. disk \in Journal \cup {NoJournal} /\ disk = memory /\ ~disk.complete
  BY <1>0 DEF TypeOK, Written
<1>5. ~NoJournal.complete BY DEF NoJournal
<1>6. \A s \in DOMAIN stages : stages[s].run = job.run => Knows(disk, s)
  BY <1>1, <1>4, OwnKnown
<1>7. "preflight" \notin Loop BY DEF Loop, Past
<1> QED BY <1>1, <1>2, <1>3, <1>4, <1>5, <1>6, <1>7, FinishKeeps

LEMMA EarlyEnds ==
  ASSUME IInv, job.pc # "idle", job.pc \notin Loop,
         NEW mutation \in {"skipped", "failure"}, Finish(mutation, NoJournal, TRUE), UNCHANGED World
  PROVE  IInv'
<1>1. ~NoJournal.complete BY DEF NoJournal
<1>2. \A s \in DOMAIN stages : stages[s].run # job.run BY NoneYet
<1> QED BY <1>1, <1>2, FinishKeeps

LEMMA PreflightKeeps ==
  ASSUME IInv, Preflight
  PROVE  IInv'
<1>0. job.pc = "preflight" /\ job.pc # "idle" /\ job.pc \notin Past /\ job.pc \notin Loop /\ UNCHANGED World
  BY DEF Preflight, Past, Loop
<1>1. CASE ~recoverRelease(job.run)
  <2>1. Finish("skipped", NoJournal, TRUE) BY <1>1 DEF Preflight
  <2> QED BY <1>0, <2>1, EarlyEnds
<1>2. CASE recoverRelease(job.run)
  <2>0. TypeOK BY DEF IInv
  <2>1. /\ job' = [job EXCEPT !.pc = "mutate", !.index = 1]
        /\ UNCHANGED <<candidate, registry, meddled, stages, runs, memory, disk>>
    BY <1>2 DEF Preflight, World, Goto
  <2>13. job' = [run |-> job.run, pc |-> "mutate", index |-> 1] /\ job.run \in Nat
    BY <2>0, <2>1, Typed
  <2>2. job'.pc = "mutate" /\ job'.run = job.run /\ job' \in [run : Nat, pc : Labels, index : Nat \ {0}]
    BY <2>13 DEF Labels
  <2>3. job'.pc \notin Past /\ job'.pc \notin Loop BY <2>2 DEF Past, Loop
  <2>4. TypeOK' BY <2>0, <2>1, <2>2, Same DEF TypeOK
  <2>5. Locked' BY <1>0, <2>1, <2>2 DEF IInv, Locked, Idle
  <2>12. Priors' BY <2>1 DEF IInv, Priors
  <2>6. Written' BY <1>0, <2>1, <2>3 DEF IInv, Written
  <2>7. Alone' BY <2>1, <2>3 DEF IInv, Alone
  <2>8. OneStage' BY <2>1 DEF IInv, OneStage
  <2>9. ASSUME NEW s \in DOMAIN stages PROVE Uploaded(s)' /\ Approved(s)'
    <3>1. Uploaded(s) /\ Approved(s) BY DEF IInv
    <3>2. Uploaded(s)' BY <1>0, <2>1, <3>1 DEF Uploaded, Knows
    <3>3. Approved(s)' BY <2>1, <3>1, Same DEF Approved, Tagged
    <3> QED BY <3>2, <3>3
  <2>10. Needs' /\ AtIndex' /\ Passed' /\ Progress'
    BY <2>2, <2>3 DEF Needs, AtIndex, Passed, Progress
  <2>11. ASSUME NEW r \in DOMAIN runs PROVE Finished(r)'
    BY <2>1, <2>11, Same DEF IInv, Finished, Needed, Settled, Tagged
  <2> QED BY <2>1, <2>4, <2>5, <2>6, <2>7, <2>8, <2>9, <2>10, <2>11, <2>12 DEF IInv
<1> QED BY <1>1, <1>2

LEMMA BeginKeeps ==
  ASSUME IInv, Begin
  PROVE  IInv'
<1>0. /\ job.pc = "mutate" /\ job.pc # "idle" /\ job.pc \notin Past /\ job.pc \notin Loop
      /\ UNCHANGED World /\ TypeOK /\ Base
  BY DEF Begin, Past, Loop, IInv, Base
<1> DEFINE fits == /\ recoverRelease(job.run) /\ assertStageablePackages
                   /\ assertPublishedInternalDependencies
<1>1. CASE ~fits
  <2>1. Finish("failure", NoJournal, TRUE) BY <1>1 DEF Begin
  <2> QED BY <1>0, <2>1, EarlyEnds
<1>2. CASE fits
  <2> DEFINE run == runs[job.run]
             prior == IF run.mode = "recover" THEN runs[run.prior].journal ELSE NoJournal
             evidence == IF prior = NoJournal THEN freshEvidence(job.run)
                         ELSE reconciledEvidence(job.run, prior)
             pc1 == IF prior = NoJournal THEN "tags" ELSE "confirmed"
  <2>1. Moves(pc1, 1, evidence)
    BY <1>2 DEF Begin, Moves, World, Goto, persist
  <2>2. /\ run \in RunOf /\ run.status = "running" /\ run.mode \in {"stage", "recover"}
        /\ job.run \in DOMAIN runs /\ recoverRelease(job.run)
    BY <1>0, <1>2, Typed DEF IInv, Locked
  <2>3. ASSUME prior # NoJournal PROVE prior \in Journal
    <3>2. run.prior \in DOMAIN runs
      <4>1. run.mode = "recover" BY <2>3
      <4> QED BY <2>2, <4>1 DEF IInv, Priors
    <3> QED BY <1>0, <2>3, <3>2, Typed DEF RunOf
  <2>4. evidence \in Journal /\ ~evidence.complete
    <3>0. run.attempt \in Nat /\ job.run \in Nat BY <1>0, <2>2, Typed DEF RunOf
    <3>1. CASE prior = NoJournal
      <4>1. candidate.release \subseteq Packages BY <1>0, EntryFacts DEF TypeOK
      <4>2. Records("absent") \in [candidate.release -> Record] BY DEF Records, Record
      <4>3. registryTagSnapshot \in [candidate.release -> Tag]
        BY <1>0, <4>1 DEF TypeOK, registryTagSnapshot, Package
      <4>4. freshEvidence(job.run) \in Journal /\ ~freshEvidence(job.run).complete
        BY <3>0, <4>2, <4>3 DEF freshEvidence, Journal
      <4> QED BY <3>1, <4>4
    <3>2. CASE prior # NoJournal
      <4>1. prior \in Journal BY <2>3, <3>2
      <4> HIDE DEF prior
      <4>2. reconciledEvidence(job.run, prior) \in Journal /\ ~reconciledEvidence(job.run, prior).complete
        BY <3>0, <4>1 DEF reconciledEvidence, Journal
      <4> QED BY <3>2, <4>2
    <3> QED BY <3>1, <3>2
  <2>5. pc1 \in Past \ Loop BY DEF Past, Loop, Labels
  <2> HIDE DEF evidence, pc1
  <2>6. \A s \in DOMAIN stages : stages[s].run # job.run BY <1>0, NoneYet
  <2>8. /\ \A s \in DOMAIN stages : stages[s].state = "live" => stages[s].run = job.run
        /\ \A r \in DOMAIN runs :
             runs[r].mode = "recover" /\ runs[r].status # "completed" => r = job.run
    <3>1. CASE run.mode = "recover"
      BY <2>2, <3>1 DEF IInv, Alone
    <3>2. CASE run.mode = "stage"
      <4>1. \A q \in DOMAIN runs \ {job.run} : runs[q].mode # "pack" =>
               runs[q].status = "completed" /\ runs[q].mutation = "skipped"
        BY <2>2, <3>2 DEF recoverRelease, assertNoPriorStageAttempt
      <4>2. ASSUME NEW s \in DOMAIN stages PROVE FALSE
        <5>1. Uploaded(s) /\ stages[s].run # job.run BY <2>6 DEF IInv
        <5> QED BY <4>1, <5>1 DEF Uploaded
      <4> QED BY <4>1, <4>2
    <3> QED BY <2>2, <3>1, <3>2
  <2>9. Needed BY <1>2 DEF assertPublishedInternalDependencies, Needed
  <2>10. Base' BY <1>0, <2>1, <2>4, <2>5, <2>6, <2>8, <2>9, MovesKeep
  <2>11. job'.pc = pc1 BY <1>0, <2>1, Typed DEF Moves
  <2>12. AtIndex' /\ Passed' /\ Progress'
    BY <2>5, <2>11 DEF AtIndex, Passed, Progress, Loop, Past
  <2> QED BY <2>10, <2>12 DEF Base, IInv
<1> QED BY <1>1, <1>2

(* Into the loop: nothing is behind its first package. *)
LEMMA LoopBegins ==
  ASSUME IInv, job.pc \in Past \ Loop, NEW pc \in {"reset", "look"}, NEW evidence \in Journal,
         ~evidence.complete, Moves(pc, first, evidence)
  PROVE  IInv'
<1>0. TypeOK /\ Base BY DEF IInv, Base
<1>1. candidate \in Candidates BY <1>0 DEF TypeOK
<1>2. first \in releaseEntries /\ first \in Nat \ {0} /\ \A i \in releaseEntries : ~(i < first)
  BY <1>1, EntryFacts
<1>3. job.pc # "idle" /\ pc \in Past BY DEF Past, Labels
<1>4. \A s \in DOMAIN stages : stages[s].run # job.run BY <1>3, NoneYet
<1>5. Base' BY <1>0, <1>2, <1>3, <1>4, JournalFacts, MovesKeep
<1>6. /\ job'.pc = pc /\ job'.index = first /\ job'.run = job.run
      /\ stages' = stages /\ candidate' = candidate
  BY <1>0, Typed DEF Moves
<1>7. releaseEntries' = releaseEntries BY <1>6, Same
<1>8. AtIndex' BY <1>2, <1>6, <1>7 DEF AtIndex
<1>9. Passed' BY <1>4, <1>6 DEF Passed
<1>10. \A p : ~Behind(p)' BY <1>2, <1>6, <1>7 DEF Behind
<1>11. Progress' BY <1>6, <1>10 DEF Progress
<1> QED BY <1>5, <1>8, <1>9, <1>11 DEF Base, IInv

LEMMA CheckTagsKeeps ==
  ASSUME IInv, CheckTags
  PROVE  IInv'
<1>0. job.pc \in {"tags", "confirmed"} /\ UNCHANGED World /\ TypeOK BY DEF CheckTags, IInv
<1>1. job.pc \in Past \ Loop BY <1>0 DEF Past, Loop, Labels
<1>2. CASE Fail BY <1>0, <1>1, <1>2, FailKeeps
<1>3. CASE ~Fail
  <2> DEFINE pc1 == IF job.pc = "confirmed" THEN "reset" ELSE "look"
  <2>1. Goto(pc1, first) /\ UNCHANGED <<stages, runs, memory, disk>>
    BY <1>3 DEF CheckTags
  <2>2. memory \in Journal /\ ~memory.complete /\ disk = memory BY <1>1, JournalFacts
  <2>3. Moves(pc1, first, memory) BY <1>0, <2>1, <2>2 DEF Goto, Moves, World
  <2>4. pc1 \in {"reset", "look"} OBVIOUS
  <2> HIDE DEF pc1
  <2> QED BY <1>1, <2>2, <2>3, <2>4, LoopBegins
<1> QED BY <1>2, <1>3

LEMMA ResetKeeps ==
  ASSUME IInv, Reset
  PROVE  IInv'
<1> DEFINE forgotten == [p \in DOMAIN memory.records |->
              IF memory.records[p].state \in {"staged", "pending"}
              THEN [state |-> "absent", id |-> 0] ELSE memory.records[p]]
           evidence == [memory EXCEPT !.records = forgotten]
<1>1. job.pc \in Past \ Loop BY DEF Reset, Past, Loop, Labels
<1>2. memory \in Journal /\ ~memory.complete BY <1>1, JournalFacts
<1>3. forgotten \in [candidate.release -> Record] BY <1>2 DEF Journal, Record
<1>4. Moves("look", first, evidence) BY DEF Reset, Moves, Goto, persist
<1> HIDE DEF forgotten
<1>5. evidence \in Journal /\ ~evidence.complete BY <1>2, <1>3 DEF Journal
<1> HIDE DEF evidence
<1> QED BY <1>1, <1>4, <1>5, LoopBegins

(* In the loop: the record of the package it is at changes. *)
LEMMA EntryMoves ==
  ASSUME IInv, job.pc \in Loop \ {"final"}, NEW pc \in Loop \ {"final"}, NEW record \in Record,
         Moves(pc, job.index, [memory EXCEPT !.records[Entry] = record]),
         pc \in {"look", "upload"} => job.pc = "look",
         \A s \in DOMAIN stages : stages[s].run = job.run /\ stages[s].package = Entry =>
            record.state \in {"pending", "staged"} /\ record.id \in {0, s},
         pc \in {"after", "settle"} =>
            \/ /\ pc = "settle" \/ record.state = "staged"
               /\ record.id \in DOMAIN stages /\ stages[record.id].package = Entry
            \/ pc = "after" /\ record.state = "public" /\ registry[Entry].bytes = "mine",
         pc = "upload" => record = [state |-> "pending", id |-> 0]
  PROVE  IInv'
<1>0. TypeOK /\ Base /\ Passed /\ Progress /\ AtIndex BY DEF IInv, Base
<1> DEFINE evidence == [memory EXCEPT !.records[Entry] = record]
<1>1. job.pc \in Past /\ pc \in Past /\ job.pc # "idle" BY DEF Loop, Past
<1>2. Entry \in candidate.release /\ \A p : Behind(p) => p \in candidate.release /\ p # Entry
  BY EntryPlace
<1>3. memory \in Journal /\ ~memory.complete BY <1>1, JournalFacts
<1>4. /\ evidence \in Journal /\ ~evidence.complete /\ evidence.records[Entry] = record
      /\ \A p \in candidate.release : p # Entry => evidence.records[p] = memory.records[p]
  BY <1>2, <1>3 DEF Journal
<1>5. Moves(pc, job.index, evidence) OBVIOUS
<1> HIDE DEF evidence
<1>6. ASSUME NEW s \in DOMAIN stages, stages[s].run = job.run PROVE Knows(evidence, s)
  <2>1. Knows(memory, s) BY <1>1, <1>6, OwnKnown
  <2>2. stages[s].package \in candidate.release BY <1>0, Typed DEF Stage
  <2>3. evidence # NoJournal BY <1>0, <1>4, Typed
  <2>4. CASE stages[s].package = Entry BY <1>4, <1>6, <2>3, <2>4 DEF Knows
  <2>5. CASE stages[s].package # Entry BY <1>4, <2>1, <2>2, <2>3, <2>5 DEF Knows
  <2> QED BY <2>4, <2>5
<1>7. job.index \in Nat \ {0} BY <1>0, Typed
<1>8. Base' BY <1>0, <1>1, <1>4, <1>5, <1>6, <1>7, JournalFacts, MovesKeep
<1>9. /\ job'.pc = pc /\ job'.index = job.index /\ job'.run = job.run
      /\ stages' = stages /\ candidate' = candidate /\ memory' = evidence
      /\ registry' = registry /\ meddled' = meddled
  BY <1>0, <1>5, Typed DEF Moves
<1>10. releaseEntries' = releaseEntries /\ releaseTag' = releaseTag BY <1>9, Same
<1>11. Entry' = Entry /\ \A p : Behind(p)' <=> Behind(p)
  BY <1>9, <1>10 DEF Entry, Behind
<1>12. AtIndex' BY <1>0, <1>9, <1>10 DEF AtIndex
<1>13. Passed' BY <1>0, <1>9, <1>11 DEF Passed
<1>14. \A p : Behind(p) => /\ p \in candidate.release /\ p # Entry
                           /\ Settled(memory, p) /\ (memory.records[p].state = "public" => Tagged(p))
  BY <1>0, <1>2 DEF Progress
<1>15. \A p : Behind(p) => /\ Settled(memory, p)'
                           /\ (evidence.records[p].state = "public" => Tagged(p)')
  BY <1>4, <1>9, <1>10, <1>14 DEF Settled, Tagged
<1>16. Progress'
  <2>2. pc = "after" => Settled(memory, Entry)' BY <1>4, <1>9, <1>11 DEF Settled
  <2>3. pc = "settle" => evidence.records[Entry].id \in DOMAIN stages
                          /\ stages[evidence.records[Entry].id].package = Entry
    BY <1>4
  <2> QED BY <1>4, <1>9, <1>11, <1>15, <2>2, <2>3 DEF Progress
<1> QED BY <1>8, <1>12, <1>13, <1>16 DEF Base, IInv

LEMMA LookKeeps ==
  ASSUME IInv, Look
  PROVE  IInv'
<1>0. job.pc = "look" /\ UNCHANGED World /\ TypeOK /\ Passed BY DEF Look, IInv
<1>1. job.pc \in Past /\ job.pc \in Loop \ {"final"} BY <1>0 DEF Past, Loop, Labels
<1>2. \A s \in DOMAIN stages : stages[s].run = job.run => stages[s].package # Entry
  BY <1>0, <1>1, EntryPlace DEF Passed
<1>3. memory \in Journal /\ Entry \in candidate.release BY <1>1, JournalFacts, EntryPlace
<1>4. CASE Fail BY <1>0, <1>1, <1>4, FailKeeps
<1>5. CASE /\ registry[Entry].bytes = "mine"
           /\ persist([memory EXCEPT !.records[Entry].state = "public"])
           /\ Goto("after", job.index) /\ UNCHANGED <<stages, runs>>
  <2> DEFINE record == [memory.records[Entry] EXCEPT !.state = "public"]
  <2>1. record \in Record /\ record.state = "public" BY <1>3 DEF Journal, Record
  <2>2. [memory EXCEPT !.records[Entry].state = "public"] = [memory EXCEPT !.records[Entry] = record]
    BY <1>3 DEF Journal
  <2>3. Moves("after", job.index, [memory EXCEPT !.records[Entry] = record])
    BY <1>0, <1>5, <2>2 DEF Moves, Goto, persist, World
  <2> HIDE DEF record
  <2>4. "after" \in Loop \ {"final"} BY DEF Past, Loop, Labels
  <2> QED BY <1>1, <1>2, <1>5, <2>1, <2>3, <2>4, EntryMoves
<1>6. CASE /\ persist(Recorded("pending", 0))
           /\ Goto("upload", job.index) /\ UNCHANGED <<stages, runs>>
  <2> DEFINE record == [state |-> "pending", id |-> 0]
  <2>1. record \in Record BY DEF Record
  <2>2. Moves("upload", job.index, [memory EXCEPT !.records[Entry] = record])
    BY <1>0, <1>6 DEF Moves, Goto, persist, World, Recorded
  <2>3. "upload" \in Loop \ {"final"} BY DEF Past, Loop, Labels
  <2> QED BY <1>0, <1>1, <1>2, <2>1, <2>2, <2>3, EntryMoves
<1> QED BY <1>4, <1>5, <1>6 DEF Look

LEMMA SettleKeeps ==
  ASSUME IInv, Settle
  PROVE  IInv'
<1>0. job.pc = "settle" /\ TypeOK /\ Progress BY DEF Settle, IInv
<1>1. job.pc \in Past /\ job.pc \in Loop \ {"final"} BY <1>0 DEF Past, Loop, Labels
<1>2. memory \in Journal /\ Entry \in candidate.release BY <1>1, JournalFacts, EntryPlace
<1> DEFINE record == [memory.records[Entry] EXCEPT !.state = "staged"]
<1>3. record \in Record /\ record.state = "staged" /\ record.id = memory.records[Entry].id
  BY <1>2 DEF Journal, Record
<1>4. [memory EXCEPT !.records[Entry].state = "staged"] = [memory EXCEPT !.records[Entry] = record]
  BY <1>2 DEF Journal
<1>5. Moves("after", job.index, [memory EXCEPT !.records[Entry] = record])
  BY <1>4 DEF Settle, Moves, Goto, persist
<1> HIDE DEF record
<1>6. \A s \in DOMAIN stages : stages[s].run = job.run /\ stages[s].package = Entry =>
         record.id \in {0, s}
  <2>1. ASSUME NEW s \in DOMAIN stages, stages[s].run = job.run, stages[s].package = Entry
        PROVE  record.id \in {0, s}
    <3>1. Knows(memory, s) BY <1>0, <2>1, OwnKnown
    <3> QED BY <1>3, <2>1, <3>1 DEF Knows
  <2> QED BY <2>1
<1>7. record.id \in DOMAIN stages /\ stages[record.id].package = Entry
  BY <1>0, <1>3 DEF Progress
<1>8. "after" \in Loop \ {"final"} BY DEF Past, Loop, Labels
<1> QED BY <1>1, <1>3, <1>5, <1>6, <1>7, <1>8, EntryMoves

LEMMA AfterKeeps ==
  ASSUME IInv, After
  PROVE  IInv'
<1>0. /\ job.pc = "after" /\ UNCHANGED World /\ TypeOK /\ Base /\ Passed /\ Progress
      /\ candidate \in Candidates
  BY DEF After, IInv, Base, TypeOK
<1>1. job.pc \in Past /\ job.pc \in Loop \ {"final"} /\ job.pc # "idle"
  BY <1>0 DEF Past, Loop, Labels
<1>2. /\ memory \in Journal /\ ~memory.complete /\ disk = memory
      /\ Entry \in candidate.release /\ job.index \in releaseEntries
  BY <1>1, JournalFacts, EntryPlace
<1>3. CASE Fail BY <1>0, <1>1, <1>3, FailKeeps
<1>4. CASE ~Fail
  <2> DEFINE rest == {i \in releaseEntries : i > job.index}
             pc1 == IF rest = {} THEN "final" ELSE "look"
             index1 == IF rest = {} THEN first ELSE Min(rest)
  <2>1. /\ Goto(pc1, index1) /\ UNCHANGED <<stages, runs, memory, disk>>
        /\ memory.records[Entry].state = "public" => registry[Entry][releaseTag] = This
    BY <1>4 DEF After, Advance
  <2>2. Moves(pc1, index1, memory) BY <1>0, <1>2, <2>1 DEF Moves, Goto, World
  <2>3. /\ releaseEntries \subseteq Nat \ {0} /\ first \in releaseEntries
        /\ \A i, j \in releaseEntries : publishOrder[i] = publishOrder[j] => i = j
        /\ \A p \in candidate.release : \E i \in releaseEntries : publishOrder[i] = p
    BY <1>0, EntryFacts
  <2>4. rest # {} => Min(rest) \in rest /\ \A i \in rest : Min(rest) <= i
    BY <2>3, MinFacts
  <2>5. index1 \in releaseEntries /\ index1 \in Nat \ {0} BY <2>3, <2>4
  <2>6. \A i \in releaseEntries : (pc1 = "final" \/ i < index1) <=> i <= job.index
    <3>0. job.index \in Nat /\ \A i \in releaseEntries : i \in Nat BY <1>2, <2>3
    <3>1. job.index \in Nat /\ \A i \in releaseEntries : (i \in rest) <=> ~(i <= job.index)
      BY <3>0
    <3>2. CASE rest = {} BY <3>1, <3>2
    <3>3. CASE rest # {}
      <4>1. pc1 = "look" /\ index1 = Min(rest) /\ Min(rest) \in Nat /\ Min(rest) > job.index
        BY <2>3, <2>4, <3>3
      <4> HIDE DEF pc1, index1
      <4>2. ASSUME NEW i \in releaseEntries, i < Min(rest) PROVE i <= job.index
        <5>1. i \notin rest BY <2>3, <2>4, <4>1, <4>2
        <5> QED BY <3>1, <5>1
      <4>3. ASSUME NEW i \in releaseEntries, i <= job.index PROVE i < Min(rest)
        BY <2>3, <3>1, <4>1, <4>3
      <4> QED BY <4>1, <4>2, <4>3
    <3> QED BY <3>2, <3>3
  <2>7. pc1 \in {"look", "final"} /\ pc1 \in Past /\ pc1 \in Loop BY DEF Past, Loop, Labels
  <2> HIDE DEF pc1, index1
  <2>8. \A s \in DOMAIN stages : stages[s].run = job.run => Knows(memory, s)
    BY <1>1, OwnKnown
  <2>9. Base' BY <1>0, <1>1, <1>2, <2>2, <2>5, <2>7, <2>8, JournalFacts, MovesKeep
  <2>10. /\ job'.pc = pc1 /\ job'.index = index1 /\ job'.run = job.run
         /\ stages' = stages /\ candidate' = candidate /\ memory' = memory
         /\ registry' = registry /\ meddled' = meddled
    BY <1>0, <2>2, Typed DEF Moves
  <2>11. releaseEntries' = releaseEntries /\ releaseTag' = releaseTag BY <2>10, Same
  <2>12. ASSUME NEW p PROVE Behind(p)' <=> Behind(p) \/ p = Entry
    <3>1. Behind(p)' <=> \E i \in releaseEntries : p = publishOrder[i] /\ i <= job.index
      <4>1. Behind(p)' <=> \E i \in releaseEntries :
                             p = publishOrder[i] /\ (pc1 = "final" \/ i < index1)
        BY <2>10, <2>11 DEF Behind
      <4> QED BY <2>6, <4>1
    <3>2. Behind(p) <=> \E i \in releaseEntries : p = publishOrder[i] /\ i < job.index
      BY <1>1, EntryPlace
    <3>0. job.index \in Nat /\ \A i \in releaseEntries : i \in Nat BY <1>2, <2>3
    <3>3. \A i \in releaseEntries : (i <= job.index) <=> (i < job.index \/ i = job.index)
      BY <3>0
    <3> QED BY <1>2, <3>1, <3>2, <3>3 DEF Entry
  <2>13. AtIndex' BY <2>5, <2>10, <2>11 DEF AtIndex
  <2>14. Passed' BY <1>0, <1>1, <2>10, <2>12 DEF Passed
  <2>15. Progress'
    <3>1. \A p : Settled(memory, p)' <=> Settled(memory, p) BY <2>10 DEF Settled
    <3>2. \A p : Tagged(p)' <=> Tagged(p) BY <2>10, <2>11 DEF Tagged
    <3>3. Settled(memory, Entry) /\ (memory.records[Entry].state = "public" => Tagged(Entry))
      BY <1>0, <2>1 DEF Progress, Tagged
    <3>4. \A p \in candidate.release : Behind(p) =>
             Settled(memory, p) /\ (memory.records[p].state = "public" => Tagged(p))
      BY <1>0, <1>1 DEF Progress
    <3> QED BY <2>7, <2>10, <2>12, <3>1, <3>2, <3>3, <3>4 DEF Progress
  <2> QED BY <2>9, <2>13, <2>14, <2>15 DEF Base, IInv
<1> QED BY <1>3, <1>4

LEMMA FinalKeeps ==
  ASSUME IInv, Final
  PROVE  IInv'
<1>0. job.pc = "final" /\ UNCHANGED World /\ TypeOK /\ Progress /\ candidate \in Candidates
  BY DEF Final, IInv, TypeOK
<1>1. job.pc \in Past /\ job.pc \in Loop /\ job.pc # "idle" BY <1>0 DEF Past, Loop, Labels
<1>2. memory \in Journal /\ Needed BY <1>1, JournalFacts
<1>3. CASE Fail BY <1>0, <1>1, <1>3, FailKeeps
<1>4. CASE ~Fail
  <2> DEFINE journal == [memory EXCEPT !.complete = TRUE]
  <2>1. /\ Finish("success", journal, TRUE)
        /\ \A p \in candidate.release : assertLatestUnchanged(p)
    BY <1>4 DEF Final
  <2>2. journal \in Journal /\ journal.records = memory.records /\ journal.before = memory.before
    BY <1>2 DEF Journal
  <2> HIDE DEF journal
  <2>3. \A s \in DOMAIN stages : stages[s].run = job.run => Knows(journal, s)
    <3>1. \A s \in DOMAIN stages : stages[s].run = job.run => Knows(memory, s) BY <1>1, OwnKnown
    <3>2. journal # NoJournal BY <1>0, <2>2, Typed
    <3> QED BY <2>2, <3>1, <3>2 DEF Knows
  <2>4. ASSUME NEW p \in candidate.release
        PROVE  /\ Settled(journal, p)
               /\ journal.records[p].state = "public" => Tagged(p)
               /\ registry[p].latest = journal.before[p]
    <3>1. Behind(p) BY <1>0, EntryFacts DEF Behind
    <3>2. Settled(memory, p) /\ (memory.records[p].state = "public" => Tagged(p))
      BY <1>0, <1>1, <3>1 DEF Progress
    <3> QED BY <2>1, <2>2, <3>2 DEF Settled, assertLatestUnchanged
  <2> QED BY <1>0, <1>1, <1>2, <2>1, <2>2, <2>3, <2>4, FinishKeeps
<1> QED BY <1>3, <1>4

(* An upload, heard or not: one more stage, which the journal has. *)
LEMMA Uploads ==
  ASSUME IInv, job.pc = "upload", NEW pc \in {"settle", "mismatch", "unheard"}, NEW id \in Nat,
         stages' = Staged, id = Len(stages) + 1 \/ (id = 0 /\ pc = "unheard"),
         job' = [job EXCEPT !.pc = pc, !.index = job.index],
         memory' = [memory EXCEPT !.records[Entry] = [state |-> "pending", id |-> id]],
         disk' = memory', UNCHANGED <<candidate, registry, runs, meddled>>
  PROVE  IInv'
<1>0. /\ TypeOK /\ Locked /\ Priors /\ Written /\ Alone /\ OneStage /\ AtIndex /\ Passed /\ Progress
      /\ Needs
  BY DEF IInv
<1>1. /\ job.pc \in Past /\ job.pc \in Loop \ {"final"} /\ job.pc # "idle"
      /\ pc \in Past /\ pc \in Loop \ {"final"} /\ pc \in Labels /\ pc # "idle"
  BY DEF Past, Loop, Labels
<1>2. /\ memory \in Journal /\ ~memory.complete /\ Entry \in candidate.release
      /\ \A p : Behind(p) => p \in candidate.release /\ p # Entry
  BY <1>1, JournalFacts, EntryPlace
<1> DEFINE new == [package |-> Entry, run |-> job.run, state |-> "live"]
<1>26. PICK n \in Nat : n = Len(stages) + 1
  <2>1. Len(stages) + 1 \in Nat BY <1>0, Typed
  <2> QED BY <2>1
<1>3. job.run \in DOMAIN runs /\ job.run \in Nat \ {0} BY <1>0, <1>1, Typed DEF Locked
<1>4. new \in Stage BY <1>2, <1>3 DEF Stage
<1>5. /\ stages' \in Seq(Stage) /\ DOMAIN stages' = DOMAIN stages \cup {n} /\ n \notin DOMAIN stages
      /\ stages'[n] = new /\ n \in Nat
      /\ \A s \in DOMAIN stages : stages'[s] = stages[s]
  <2> HIDE DEF new
  <2>1. stages \in Seq(Stage) /\ stages' = Append(stages, new) BY <1>0 DEF TypeOK, Staged, new
  <2>2. /\ stages' \in Seq(Stage) /\ Len(stages) \in Nat /\ DOMAIN stages = 1..Len(stages)
        /\ DOMAIN stages' = 1..(Len(stages) + 1)
        /\ stages'[Len(stages) + 1] = new
        /\ \A s \in DOMAIN stages : stages'[s] = stages[s]
    BY <1>4, <2>1
  <2> QED BY <1>26, <2>2
<1>6. id \in {0, n} BY <1>26
<1> HIDE DEF new
<1>7. new.package = Entry /\ new.run = job.run /\ new.state = "live" BY DEF new
<1>8. /\ job' = [run |-> job.run, pc |-> pc, index |-> job.index]
      /\ job'.run = job.run /\ job'.pc = pc /\ job'.index = job.index
  BY <1>0, Typed
<1>9. /\ memory' \in Journal /\ ~memory'.complete /\ memory' # NoJournal
      /\ memory'.records[Entry] = [state |-> "pending", id |-> id]
      /\ \A p \in candidate.release : p # Entry => memory'.records[p] = memory.records[p]
  <2> DEFINE record == [state |-> "pending", id |-> id]
  <2>1. record \in Record BY DEF Record
  <2>2. memory' = [memory EXCEPT !.records[Entry] = record] OBVIOUS
  <2> HIDE DEF record
  <2>3. /\ memory' \in Journal /\ ~memory'.complete
        /\ memory'.records[Entry] = record
        /\ \A p \in candidate.release : p # Entry => memory'.records[p] = memory.records[p]
    BY <1>2, <2>1, <2>2 DEF Journal
  <2>4. memory' # NoJournal BY <1>0, <2>3, Typed
  <2> QED BY <2>3, <2>4 DEF record
<1>10. /\ releaseEntries' = releaseEntries /\ releaseTag' = releaseTag /\ Journal' = Journal
       /\ Stage' = Stage /\ RunOf' = RunOf
  BY Same
<1>11. Entry' = Entry /\ \A p : Behind(p)' <=> Behind(p)
  BY <1>1, <1>8, <1>10 DEF Entry, Behind
<1>12. \A p : Settled(memory, p) /\ p \in candidate.release /\ p # Entry => Settled(memory, p)'
  BY <1>5, <1>9 DEF Settled
<1>13. \A p : Tagged(p)' <=> Tagged(p) BY <1>10 DEF Tagged
<1>14. TypeOK' BY <1>0, <1>1, <1>5, <1>8, <1>9, <1>10, Typed DEF TypeOK
<1>15. Locked' /\ Priors' BY <1>0, <1>1, <1>8 DEF Locked, Priors, Idle
<1>16. Written' BY <1>1, <1>8, <1>9 DEF Written
<1>17. Alone' BY <1>0, <1>1, <1>5, <1>7, <1>8, JournalFacts DEF Alone
<1>18. OneStage'
  <2>1. ASSUME NEW t \in DOMAIN stages, stages[t].package = Entry PROVE stages[t].state # "live"
    <3>1. stages[t].run = job.run => Behind(stages[t].package) BY <1>0, <1>1 DEF Passed
    <3> QED BY <1>1, <1>2, <2>1, <3>1, JournalFacts
  <2> QED BY <1>0, <1>5, <1>7, <2>1 DEF OneStage
<1>19. ASSUME NEW s \in DOMAIN stages PROVE Uploaded(s)' /\ Approved(s)'
  <2>1. Uploaded(s) /\ Approved(s) /\ stages'[s] = stages[s] BY <1>5 DEF IInv
  <2>2. Uploaded(s)'
    <3>1. CASE stages[s].run = job.run
      <4>1. Knows(memory, s) /\ Behind(stages[s].package) BY <1>0, <1>1, <3>1, OwnKnown DEF Passed
      <4>2. Knows(memory, s)' BY <1>2, <1>9, <2>1, <4>1 DEF Knows
      <4> QED BY <1>0, <1>1, <1>8, <2>1, <3>1, <4>2 DEF Uploaded
    <3>2. CASE stages[s].run # job.run
      BY <2>1, <3>2 DEF Uploaded, Knows
    <3> QED BY <3>1, <3>2
  <2>3. Approved(s)' BY <1>13, <2>1 DEF Approved
  <2> QED BY <2>2, <2>3
<1>20. Uploaded(n)' /\ Approved(n)'
  <2>1. Knows(memory, n)' BY <1>5, <1>6, <1>7, <1>9 DEF Knows
  <2>2. runs[job.run].mode # "pack" BY <1>0, <1>1 DEF Locked
  <2>3. Uploaded(n)' BY <1>1, <1>3, <1>5, <1>7, <1>8, <2>1, <2>2 DEF Uploaded
  <2> QED BY <1>5, <1>7, <2>3 DEF Approved
<1>21. Needs' BY <1>0, <1>1 DEF Needs, Needed
<1>22. AtIndex' BY <1>0, <1>1, <1>8, <1>10 DEF AtIndex
<1>23. Passed'
  <2>1. \A s \in DOMAIN stages : stages[s].run = job.run => Behind(stages[s].package)
    BY <1>0, <1>1 DEF Passed
  <2> QED BY <1>5, <1>7, <1>8, <1>11, <2>1 DEF Passed
<1>24. Progress'
  <2>1. ASSUME NEW p \in candidate.release, Behind(p)
        PROVE  Settled(memory, p)' /\ (memory'.records[p].state = "public" => Tagged(p)')
    <3>1. Settled(memory, p) /\ (memory.records[p].state = "public" => Tagged(p)) /\ p # Entry
      BY <1>0, <1>1, <1>2, <2>1 DEF Progress
    <3> QED BY <1>9, <1>12, <1>13, <3>1
  <2>2. pc = "settle" => /\ memory'.records[Entry].id \in DOMAIN stages'
                         /\ stages'[memory'.records[Entry].id].package = Entry
    BY <1>5, <1>7, <1>9, <1>26
  <2> QED BY <1>8, <1>11, <2>1, <2>2 DEF Progress
<1>25. ASSUME NEW r \in DOMAIN runs PROVE Finished(r)'
  <2>1. Finished(r) BY DEF IInv
  <2>2. \A p \in candidate.release : Settled(runs[r].journal, p) => Settled(runs[r].journal, p)'
    BY <1>5 DEF Settled
  <2> QED BY <1>13, <2>1, <2>2 DEF Finished, Needed
<1> QED BY <1>5, <1>14, <1>15, <1>16, <1>17, <1>18, <1>19, <1>20, <1>21, <1>22, <1>23, <1>24, <1>25
    DEF IInv

LEMMA UploadKeeps ==
  ASSUME IInv, Upload
  PROVE  IInv'
<1>0. job.pc = "upload" /\ UNCHANGED World /\ TypeOK /\ Progress BY DEF Upload, IInv
<1>1. job.pc \in Past /\ job.pc \in Loop \ {"final"} BY <1>0 DEF Past, Loop, Labels
<1>2. memory \in Journal /\ disk = memory /\ Entry \in candidate.release
  BY <1>1, JournalFacts, EntryPlace
<1>3. CASE Fail BY <1>0, <1>1, <1>3, FailKeeps
<1>4. CASE /\ stages' = Staged /\ persist(Recorded("pending", Len(stages) + 1))
           /\ \E answer \in {"settle", "mismatch"} : Goto(answer, job.index)
           /\ UNCHANGED runs
  <2>1. PICK answer \in {"settle", "mismatch"} : Goto(answer, job.index) BY <1>4
  <2>2. Len(stages) + 1 \in Nat BY <1>0, Typed
  <2> QED BY <1>0, <1>4, <2>1, <2>2, Uploads DEF Goto, persist, Recorded, World
<1>5. CASE /\ stages' = Staged /\ Goto("unheard", job.index) /\ UNCHANGED <<runs, memory, disk>>
  <2>1. memory.records[Entry] = [state |-> "pending", id |-> 0] BY <1>0 DEF Progress
  <2>2. memory = [memory EXCEPT !.records[Entry] = [state |-> "pending", id |-> 0]]
    BY <1>2, <2>1 DEF Journal
  <2>3. /\ memory' = [memory EXCEPT !.records[Entry] = [state |-> "pending", id |-> 0]]
        /\ disk' = memory'
    BY <1>2, <1>5, <2>2
  <2> QED BY <1>0, <1>5, <2>3, Uploads DEF Goto, World
<1> QED BY <1>3, <1>4, <1>5 DEF Upload

----------------------------------------------------------------------------
(* The people. *)
LEMMA PeopleKeep ==
  ASSUME IInv, UNCHANGED <<candidate, runs, job, memory, disk>>,
         registry' \in [Packages -> Package], stages' \in Seq(Stage), meddled' \in Nat,
         DOMAIN stages' = DOMAIN stages, meddled' = 0 => meddled = 0,
         \A s \in DOMAIN stages :
            /\ stages'[s].package = stages[s].package /\ stages'[s].run = stages[s].run
            /\ stages'[s].state = "live" => stages[s].state = "live"
            /\ stages'[s].state = "approved" => stages[s].state = "approved" \/ Approved(s)',
         \A p \in Packages :
            /\ registry[p].bytes = "mine" => registry'[p].bytes = "mine"
            /\ registry[p].bytes # "none" => registry'[p].bytes # "none"
            /\ meddled' = 0 => /\ registry[p][releaseTag] = This => registry'[p][releaseTag] = This
                               /\ candidate.prerelease => registry'[p].latest = registry[p].latest
  PROVE  IInv'
<1>0. /\ TypeOK /\ Locked /\ Priors /\ Written /\ Alone /\ OneStage /\ AtIndex /\ Passed /\ Progress
      /\ Needs /\ candidate \in Candidates
  BY DEF IInv, TypeOK
<1>1. /\ releaseEntries' = releaseEntries /\ releaseTag' = releaseTag /\ Journal' = Journal
      /\ Stage' = Stage /\ RunOf' = RunOf
  BY Same
<1>2. /\ candidate.release \subseteq Packages
      /\ \A p \in candidate.release : Deps[p] \subseteq Packages
      /\ \A s \in DOMAIN stages : stages[s].package \in candidate.release
  <2>1. candidate.release \subseteq Packages BY <1>0, EntryFacts
  <2>2. \A p \in Packages : Deps[p] \subseteq Packages BY ReleaseAssumption
  <2>3. \A s \in DOMAIN stages : stages[s].package \in candidate.release BY <1>0, Typed DEF Stage
  <2> QED BY <2>1, <2>2, <2>3
<1>3. Entry' = Entry /\ \A p : Behind(p)' <=> Behind(p) BY <1>1 DEF Entry, Behind
<1>4. ASSUME NEW p \in Packages, Tagged(p) PROVE Tagged(p)' BY <1>1, <1>4 DEF Tagged
<1>5. Needed => Needed' BY <1>2 DEF Needed
<1>6. TypeOK' BY <1>0, <1>1 DEF TypeOK
<1>7. Locked' /\ Priors' /\ Written' BY <1>0 DEF Locked, Priors, Written
<1>8. Alone' BY <1>0 DEF Alone
<1>9. OneStage' BY <1>0 DEF OneStage
<1>10. ASSUME NEW s \in DOMAIN stages PROVE Uploaded(s)' /\ Approved(s)'
  <2>1. Uploaded(s) /\ Approved(s) BY DEF IInv
  <2>2. Uploaded(s)' BY <2>1 DEF Uploaded, Knows
  <2>3. CASE Approved(s)' BY <2>2, <2>3
  <2>4. CASE stages'[s].state = "approved" => stages[s].state = "approved"
    <3>1. stages[s].package \in candidate.release /\ stages[s].package \in Packages
          /\ Deps[stages[s].package] \subseteq Packages
      <4>1. stages[s].package \in candidate.release BY <1>2
      <4> QED BY <1>2, <4>1
    <3>2. Approved(s)' BY <1>4, <2>1, <2>4, <3>1 DEF Approved
    <3> QED BY <2>2, <3>2
  <2> QED BY <2>3, <2>4
<1>11. AtIndex' /\ Needs' BY <1>0, <1>1, <1>5 DEF AtIndex, Needs
<1>12. Passed' BY <1>0, <1>3 DEF Passed
<1>13. ASSUME NEW journal, NEW p \in candidate.release, Settled(journal, p)
       PROVE  Settled(journal, p)'
  BY <1>2, <1>13 DEF Settled
<1>14. Progress'
  <2>1. job.pc \in Loop => \A p \in candidate.release : Behind(p) =>
          Settled(memory, p)' /\ (memory.records[p].state = "public" => Tagged(p)')
    <3>1. ASSUME NEW p \in candidate.release, Settled(memory, p) PROVE Settled(memory, p)'
      BY <1>2, <3>1 DEF Settled
    <3> QED BY <1>0, <1>2, <1>4, <3>1 DEF Progress
  <2>2. job.pc = "after" => Settled(memory, Entry)'
    <3>1. CASE job.pc = "after"
      <4>1. job.pc \in Loop \ {"final"} BY <3>1 DEF Past, Loop, Labels
      <4>2. Entry \in candidate.release /\ Settled(memory, Entry)
        BY <1>0, <3>1, <4>1, EntryPlace DEF Progress
      <4>3. Entry \in Packages BY <1>2, <4>2
      <4> HIDE DEF Entry
      <4> QED BY <1>3, <4>2, <4>3 DEF Settled
    <3> QED BY <3>1
  <2>3. job.pc = "settle" => memory.records[Entry].id \in DOMAIN stages'
                             /\ stages'[memory.records[Entry].id].package = Entry
    BY <1>0 DEF Progress
  <2>4. job.pc = "upload" => memory.records[Entry] = [state |-> "pending", id |-> 0]
    BY <1>0 DEF Progress
  <2> QED BY <1>3, <2>1, <2>2, <2>3, <2>4 DEF Progress
<1>15. ASSUME NEW r \in DOMAIN runs PROVE Finished(r)'
  <2>1. Finished(r) BY DEF IInv
  <2>2. ASSUME NEW p \in candidate.release, Settled(runs[r].journal, p)
        PROVE  Settled(runs[r].journal, p)'
    BY <1>2, <2>2 DEF Settled
  <2> QED BY <1>2, <1>4, <1>5, <2>1, <2>2 DEF Finished
<1> QED BY <1>6, <1>7, <1>8, <1>9, <1>10, <1>11, <1>12, <1>14, <1>15 DEF IInv

LEMMA IdleKeeps ==
  ASSUME IInv, UNCHANGED vars
  PROVE  IInv'
BY PeopleKeep DEF IInv, TypeOK, Stage, vars

LEMMA RejectKeeps ==
  ASSUME IInv, Reject
  PROVE  IInv'
<1>0. TypeOK /\ UNCHANGED <<candidate, registry, runs, job, memory, disk, meddled>>
  BY DEF IInv, Reject
<1>1. PICK s0 \in DOMAIN stages : stages' = [stages EXCEPT ![s0].state = "rejected"] BY DEF Reject
<1> DEFINE new == [stages[s0] EXCEPT !.state = "rejected"]
<1>2. new \in Stage /\ new.state = "rejected" /\ new.package = stages[s0].package
      /\ new.run = stages[s0].run
  BY <1>0, Typed DEF Stage
<1>3. stages' = [stages EXCEPT ![s0] = new] BY <1>1
<1> HIDE DEF new
<1>4. /\ stages' \in Seq(Stage) /\ DOMAIN stages' = DOMAIN stages /\ stages'[s0] = new
      /\ \A s \in DOMAIN stages : s # s0 => stages'[s] = stages[s]
  BY <1>0, <1>2, <1>3 DEF TypeOK
<1> QED BY <1>0, <1>2, <1>4, PeopleKeep DEF TypeOK

LEMMA MeddleKeeps ==
  ASSUME IInv, Meddle
  PROVE  IInv'
<1>0. TypeOK /\ UNCHANGED <<candidate, stages, runs, job, memory, disk>> /\ meddled' = meddled + 1
  BY DEF IInv, Meddle
<1>1. meddled' \in Nat /\ meddled' # 0 BY <1>0 DEF TypeOK
<1>2. PICK p \in Packages :
         \/ /\ registry[p].bytes = "none"
            /\ \E bytes \in {"mine", "other"}, tag \in {"latest", "next"} :
                 registry' = [registry EXCEPT ![p].bytes = bytes, ![p][tag] = This]
         \/ registry' = [registry EXCEPT ![p].latest = Newer]
  BY DEF Meddle
<1>3. registry[p] \in Package /\ registry \in [Packages -> Package] /\ This \in Tag /\ Newer \in Tag
  BY <1>0 DEF TypeOK, Tag, This, Newer, None
<1>4. PICK new \in Package :
         /\ registry' = [registry EXCEPT ![p] = new]
         /\ new.bytes = registry[p].bytes \/ (registry[p].bytes = "none" /\ new.bytes # "none")
  <2>1. CASE registry' = [registry EXCEPT ![p].latest = Newer]
    <3>1. [registry[p] EXCEPT !.latest = Newer] \in Package BY <1>3 DEF Package
    <3>2. [registry[p] EXCEPT !.latest = Newer].bytes = registry[p].bytes BY <1>3 DEF Package
    <3> QED BY <2>1, <3>1, <3>2
  <2>2. ASSUME registry[p].bytes = "none", NEW bytes \in {"mine", "other"},
               registry' = [registry EXCEPT ![p].bytes = bytes, ![p].latest = This]
        PROVE  \E new \in Package :
         /\ registry' = [registry EXCEPT ![p] = new]
         /\ new.bytes = registry[p].bytes \/ (registry[p].bytes = "none" /\ new.bytes # "none")
    <3> DEFINE new == [registry[p] EXCEPT !.bytes = bytes, !.latest = This]
    <3>1. new \in Package /\ new.bytes # "none" BY <1>3 DEF Package
    <3>2. registry' = [registry EXCEPT ![p] = new] BY <1>3, <2>2
    <3> QED BY <2>2, <3>1, <3>2
  <2>3. ASSUME registry[p].bytes = "none", NEW bytes \in {"mine", "other"},
               registry' = [registry EXCEPT ![p].bytes = bytes, ![p].next = This]
        PROVE  \E new \in Package :
         /\ registry' = [registry EXCEPT ![p] = new]
         /\ new.bytes = registry[p].bytes \/ (registry[p].bytes = "none" /\ new.bytes # "none")
    <3> DEFINE new == [registry[p] EXCEPT !.bytes = bytes, !.next = This]
    <3>1. new \in Package /\ new.bytes # "none" BY <1>3 DEF Package
    <3>2. registry' = [registry EXCEPT ![p] = new] BY <1>3, <2>3
    <3> QED BY <2>3, <3>1, <3>2
  <2>4. ASSUME NEW bytes \in {"mine", "other"}, NEW tag \in {"latest", "next"},
               registry' = [registry EXCEPT ![p].bytes = bytes, ![p][tag] = This]
        PROVE  \/ registry' = [registry EXCEPT ![p].bytes = bytes, ![p].latest = This]
               \/ registry' = [registry EXCEPT ![p].bytes = bytes, ![p].next = This]
    <3>1. CASE tag = "latest" BY <1>3, <2>4, <3>1
    <3>2. CASE tag = "next" BY <1>3, <2>4, <3>2
    <3> QED BY <3>1, <3>2
  <2> QED BY <1>2, <2>1, <2>2, <2>3, <2>4
<1>5. /\ registry' \in [Packages -> Package] /\ registry'[p] = new
      /\ \A q \in Packages : q # p => registry'[q] = registry[q]
  BY <1>3, <1>4
<1>6. \A q \in Packages :
         /\ registry[q].bytes = "mine" => registry'[q].bytes = "mine"
         /\ registry[q].bytes # "none" => registry'[q].bytes # "none"
  BY <1>4, <1>5
<1> QED BY <1>0, <1>1, <1>5, <1>6, PeopleKeep DEF TypeOK

(* What the printed commands approve follows what it depends on. *)
LEMMA ApproveKeeps ==
  ASSUME IInv, Approve
  PROVE  IInv'
<1>0. /\ TypeOK /\ candidate \in Candidates /\ registry \in [Packages -> Package]
      /\ UNCHANGED <<candidate, runs, job, memory, disk, meddled>>
  BY DEF IInv, TypeOK, Approve
<1>1. PICK r \in DOMAIN runs :
        /\ runs[r].journal.complete
        /\ \E n \in DOMAIN approvalCommands(runs[r].journal.records) :
           \E s \in approvalCommands(runs[r].journal.records)[n] :
             /\ stages[s].state = "live" /\ registry[stages[s].package].bytes = "none"
             /\ \A m \in 1..n - 1 : \A q \in approvalCommands(runs[r].journal.records)[m] :
                   stages[q].state = "approved"
             /\ stages' = [stages EXCEPT ![s].state = "approved"]
             /\ registry' = [registry EXCEPT ![stages[s].package].bytes = "mine",
                                             ![stages[s].package][releaseTag] = This]
  BY DEF Approve
<1> DEFINE records == runs[r].journal.records
           R == candidate.release
<1>2. /\ runs[r].journal \in Journal /\ DOMAIN records = R /\ R \in SUBSET Packages
      /\ Needed /\ \A p \in R : Settled(runs[r].journal, p)
  <2>1. runs[r].journal \in Journal BY <1>0, <1>1, Typed DEF RunOf, NoJournal
  <2>2. DOMAIN records = R BY <2>1 DEF Journal
  <2>3. Finished(r) BY DEF IInv
  <2> QED BY <1>0, <1>1, <2>1, <2>2, <2>3, EntryFacts DEF Finished
<1> DEFINE w == within(R)
           layer(n) == {records[p].id : p \in {q \in w[n] \ w[n - 1] : records[q].state = "staged"}}
<1>3. approvalCommands(records) = [n \in 1..Cardinality(R) |-> layer(n)]
  BY <1>2 DEF approvalCommands
<1>4. w \in [0..Cardinality(R) -> SUBSET R] /\ Cardinality(R) \in Nat
  BY <1>2, WithinFacts, PackagesFinite
<1> HIDE DEF records, w
<1>5. PICK n \in 1..Cardinality(R) : \E s \in layer(n) :
        /\ stages[s].state = "live" /\ registry[stages[s].package].bytes = "none"
        /\ \A m \in 1..n - 1 : \A q \in layer(m) : stages[q].state = "approved"
        /\ stages' = [stages EXCEPT ![s].state = "approved"]
        /\ registry' = [registry EXCEPT ![stages[s].package].bytes = "mine",
                                        ![stages[s].package][releaseTag] = This]
  <2> DEFINE commands == approvalCommands(records)
  <2>1. PICK n \in DOMAIN commands : \E s \in commands[n] :
          /\ stages[s].state = "live" /\ registry[stages[s].package].bytes = "none"
          /\ \A m \in 1..n - 1 : \A q \in commands[m] : stages[q].state = "approved"
          /\ stages' = [stages EXCEPT ![s].state = "approved"]
          /\ registry' = [registry EXCEPT ![stages[s].package].bytes = "mine",
                                          ![stages[s].package][releaseTag] = This]
    BY <1>1 DEF records
  <2> HIDE DEF commands
  <2>2. commands = [i \in 1..Cardinality(R) |-> layer(i)] BY <1>3 DEF commands
  <2> HIDE DEF layer
  <2>3. n \in 1..Cardinality(R) /\ commands[n] = layer(n) BY <2>1, <2>2
  <2>4. \A m \in 1..n - 1 : commands[m] = layer(m)
    <3>1. \A m \in 1..n - 1 : m \in 1..Cardinality(R) BY <1>4, <2>3
    <3> QED BY <2>2, <3>1
  <2>5. PICK s \in commands[n] :
          /\ stages[s].state = "live" /\ registry[stages[s].package].bytes = "none"
          /\ \A m \in 1..n - 1 : \A q \in commands[m] : stages[q].state = "approved"
          /\ stages' = [stages EXCEPT ![s].state = "approved"]
          /\ registry' = [registry EXCEPT ![stages[s].package].bytes = "mine",
                                          ![stages[s].package][releaseTag] = This]
    BY <2>1
  <2>6. \A m \in 1..n - 1 : \A q \in layer(m) : stages[q].state = "approved"
    BY <2>4, <2>5
  <2>7. s \in layer(n) BY <2>3, <2>5
  <2> QED BY <2>3, <2>5, <2>6, <2>7
<1>19. PICK s \in layer(n) :
        /\ stages[s].state = "live" /\ registry[stages[s].package].bytes = "none"
        /\ \A m \in 1..n - 1 : \A q \in layer(m) : stages[q].state = "approved"
        /\ stages' = [stages EXCEPT ![s].state = "approved"]
        /\ registry' = [registry EXCEPT ![stages[s].package].bytes = "mine",
                                        ![stages[s].package][releaseTag] = This]
  BY <1>5
<1>6. PICK p \in w[n] \ w[n - 1] : records[p].state = "staged" /\ s = records[p].id BY <1>19
<1>7. p \in R /\ p \in Packages /\ s \in DOMAIN stages /\ stages[s].package = p
  <2>1. p \in R BY <1>4, <1>5, <1>6
  <2> QED BY <1>2, <1>6, <2>1 DEF Settled, records
<1>8. ASSUME NEW d \in Deps[p] PROVE registry[d].bytes # "none"
  <2>1. CASE d \notin R BY <1>2, <1>7, <2>1 DEF Needed
  <2>2. CASE d \in R
    <3>1. PICK m \in 1..(n - 1) : d \in w[m] \ w[m - 1]
      BY <1>2, <1>5, <1>6, <2>2, LayersFollow DEF w
    <3>2. CASE records[d].state = "staged"
      <4>1. records[d].id \in layer(m) BY <3>1, <3>2
      <4>2. stages[records[d].id].state = "approved" BY <1>19, <4>1
      <4>3. records[d].id \in DOMAIN stages /\ stages[records[d].id].package = d
        BY <1>2, <2>2, <3>2 DEF Settled, records
      <4>4. Approved(records[d].id) BY <4>3 DEF IInv
      <4> QED BY <4>2, <4>3, <4>4 DEF Approved
    <3>3. CASE records[d].state # "staged" BY <1>2, <2>2, <3>3 DEF Settled, records
    <3> QED BY <3>2, <3>3
  <2> QED BY <2>1, <2>2
<1> DEFINE new == [registry[p] EXCEPT !.bytes = "mine", ![releaseTag] = This]
<1>9. /\ new \in Package /\ new.bytes = "mine" /\ new[releaseTag] = This
      /\ candidate.prerelease => new.latest = registry[p].latest
  <2>1. registry[p] \in Package /\ This \in Tag BY <1>0, <1>7 DEF Tag, This, Newer, None
  <2>2. CASE candidate.prerelease
    <3>1. releaseTag = "next" BY <2>2 DEF releaseTag
    <3> QED BY <2>1, <3>1 DEF Package
  <2>3. CASE ~candidate.prerelease
    <3>1. releaseTag = "latest" BY <2>3 DEF releaseTag
    <3> QED BY <2>1, <2>3, <3>1 DEF Package
  <2> QED BY <2>2, <2>3
<1>10. registry' = [registry EXCEPT ![p] = new] BY <1>0, <1>19, <1>7
<1> HIDE DEF new
<1>11. /\ registry' \in [Packages -> Package] /\ registry'[p] = new
       /\ \A q \in Packages : q # p => registry'[q] = registry[q]
  BY <1>0, <1>7, <1>9, <1>10
<1> DEFINE approved == [stages[s] EXCEPT !.state = "approved"]
<1>12. approved \in Stage /\ approved.state = "approved" /\ approved.package = stages[s].package
       /\ approved.run = stages[s].run
  BY <1>0, <1>7, Typed DEF Stage
<1>13. stages' = [stages EXCEPT ![s] = approved] BY <1>19
<1> HIDE DEF approved
<1>14. /\ stages' \in Seq(Stage) /\ DOMAIN stages' = DOMAIN stages /\ stages'[s] = approved
       /\ \A t \in DOMAIN stages : t # s => stages'[t] = stages[t]
  BY <1>0, <1>7, <1>12, <1>13 DEF TypeOK
<1>15. \A q \in Packages :
         /\ registry[q].bytes = "mine" => registry'[q].bytes = "mine"
         /\ registry[q].bytes # "none" => registry'[q].bytes # "none"
         /\ registry[q][releaseTag] = This => registry'[q][releaseTag] = This
         /\ candidate.prerelease => registry'[q].latest = registry[q].latest
  BY <1>9, <1>11
<1>16. Approved(s)'
  <2>1. \A d \in Deps[p] : registry'[d].bytes # "none"
    <3>1. Deps[p] \subseteq Packages BY <1>7, ReleaseAssumption
    <3> QED BY <1>8, <1>15, <3>1
  <2>2. stages'[s].package = p BY <1>7, <1>12, <1>14
  <2>3. releaseTag' = releaseTag BY <1>0, Same
  <2> QED BY <1>9, <1>11, <2>1, <2>2, <2>3 DEF Approved, Tagged
<1>17. \A t \in DOMAIN stages :
          /\ stages'[t].package = stages[t].package /\ stages'[t].run = stages[t].run
          /\ stages'[t].state = "live" => stages[t].state = "live"
          /\ stages'[t].state = "approved" => stages[t].state = "approved" \/ t = s
  BY <1>12, <1>14
<1>18. meddled' \in Nat /\ meddled' = meddled BY <1>0 DEF TypeOK
<1> QED BY <1>0, <1>11, <1>14, <1>15, <1>16, <1>17, <1>18, PeopleKeep

----------------------------------------------------------------------------
(* The first state: a certified candidate, or a release of the former      *)
(* workflow that failed on its way.                                        *)
LEMMA InitHolds == Init => IInv
<1> SUFFICES ASSUME Init PROVE IInv OBVIOUS
<1>1. /\ candidate \in Candidates /\ registry \in [Packages -> Package] /\ job = Idle
      /\ memory = NoJournal /\ disk = NoJournal /\ meddled = 0
  BY ReleaseAssumption DEF Init, Package, Tag
<1>2. /\ job.pc = "idle" /\ job.run = 0 /\ job.pc \notin Past /\ job.pc \notin Loop
      /\ job \in [run : Nat, pc : Labels, index : Nat \ {0}]
  BY <1>1 DEF Idle, Past, Loop, Labels
<1>3. Written BY <1>1, <1>2 DEF Written, NoJournal
<1>4. AtIndex /\ Passed /\ Progress /\ Needs BY <1>2 DEF AtIndex, Passed, Progress, Needs, Loop, Past
<1>5. \/ /\ runs \in Seq(RunOf) /\ DOMAIN runs = {1} /\ runs[1].mode \in {"pack", "legacy"}
         /\ runs[1].status = "completed" /\ ~runs[1].journal.complete
         /\ stages \in Seq(Stage) /\ OneStage
         /\ \A s \in DOMAIN stages : Uploaded(s) /\ stages[s].state # "approved"
  <2>1. CASE ~candidate.legacy
    <3> DEFINE run == [Run("pack", 0, "certified") EXCEPT !.status = "completed"]
    <3>1. runs = <<run>> /\ stages = <<>> BY <2>1 DEF Init
    <3>2. run \in RunOf /\ run.mode = "pack" /\ run.status = "completed" /\ run.journal = NoJournal
      BY DEF Run, RunOf
    <3> HIDE DEF run
    <3>3. runs \in Seq(RunOf) /\ DOMAIN runs = {1} /\ runs[1] = run BY <3>1, <3>2
    <3>4. stages \in Seq(Stage) /\ DOMAIN stages = {} BY <3>1
    <3> QED BY <3>2, <3>3, <3>4 DEF OneStage, NoJournal
  <2>2. CASE candidate.legacy
    <3> DEFINE p == publishOrder[first]
               q == publishOrder[Min(releaseEntries \ {first})]
               known == [Records("absent") EXCEPT ![p] = [state |-> "staged", id |-> 1],
                                                  ![q] = [state |-> "pending", id |-> 0]]
               journal == [run |-> 1, attempt |-> 1, records |-> known,
                           before |-> registryTagSnapshot, complete |-> FALSE]
               run == [Run("legacy", 0, "certified") EXCEPT
                         !.status = "completed", !.mutation = "failure", !.preserved = TRUE,
                         !.journal = journal]
               stage(package) == [package |-> package, run |-> 1, state |-> "live"]
    <3>1. p \in candidate.release /\ q \in candidate.release /\ p # q
      <4>1. /\ releaseEntries \subseteq Nat \ {0} /\ first \in releaseEntries
            /\ releaseEntries \ {first} # {}
            /\ \A i \in releaseEntries : publishOrder[i] \in candidate.release
            /\ \A i, j \in releaseEntries : publishOrder[i] = publishOrder[j] => i = j
        BY <1>1, <2>2, EntryFacts
      <4>2. Min(releaseEntries \ {first}) \in releaseEntries \ {first} BY <4>1, MinFacts
      <4> QED BY <4>1, <4>2
    <3>2. /\ runs = <<run>>
          /\ \/ stages = [i \in 1..Len(<<p>>) |-> stage(<<p>>[i])]
             \/ stages = [i \in 1..Len(<<p, q>>) |-> stage(<<p, q>>[i])]
      BY <2>2 DEF Init, LegacyRun
    <3> HIDE DEF p, q
    <3>3. /\ known \in [candidate.release -> Record]
          /\ known[p] = [state |-> "staged", id |-> 1] /\ known[q] = [state |-> "pending", id |-> 0]
      BY <3>1 DEF Records, Record
    <3> HIDE DEF known
    <3>4. journal \in Journal /\ journal.records = known /\ ~journal.complete
      <4>1. candidate.release \subseteq Packages BY <1>1, EntryFacts
      <4>2. registryTagSnapshot \in [candidate.release -> Tag]
        BY <1>1, <4>1 DEF registryTagSnapshot, Package
      <4> QED BY <3>3, <4>2 DEF Journal
    <3>5. journal # NoJournal
      <4>1. DOMAIN journal.records = candidate.release BY <3>3, <3>4
      <4>2. DOMAIN NoJournal.records = {} BY DEF NoJournal
      <4> QED BY <3>1, <4>1, <4>2
    <3> HIDE DEF journal
    <3>6. /\ run \in RunOf /\ run.mode = "legacy" /\ run.status = "completed"
          /\ run.mutation = "failure" /\ run.journal = journal
      BY <3>4 DEF Run, RunOf
    <3> HIDE DEF run
    <3>7. runs \in Seq(RunOf) /\ DOMAIN runs = {1} /\ runs[1] = run BY <3>2, <3>6
    <3>8. \A s \in {p, q} : stage(s) \in Stage /\ stage(s).package = s /\ stage(s).run = 1
                             /\ stage(s).state = "live"
      BY <3>1 DEF Stage
    <3> HIDE DEF stage
    <3>9. stages = <<stage(p)>> \/ stages = <<stage(p), stage(q)>>
      <4>1. [i \in 1..Len(<<p>>) |-> stage(<<p>>[i])] = <<stage(p)>> OBVIOUS
      <4>2. [i \in 1..Len(<<p, q>>) |-> stage(<<p, q>>[i])] = <<stage(p), stage(q)>> OBVIOUS
      <4> QED BY <3>2, <4>1, <4>2
    <3>10. /\ stages \in Seq(Stage) /\ DOMAIN stages \in {{1}, {1, 2}} /\ stages[1] = stage(p)
           /\ DOMAIN stages = {1, 2} => stages[2] = stage(q)
      <4>1. CASE stages = <<stage(p)>>
        <5>1. stages \in Seq(Stage) BY <3>8, <4>1
        <5> QED BY <4>1, <5>1
      <4>2. CASE stages = <<stage(p), stage(q)>>
        <5>1. stages \in Seq(Stage) BY <3>8, <4>2
        <5> QED BY <4>2, <5>1
      <4> QED BY <3>9, <4>1, <4>2
    <3>11. OneStage BY <3>1, <3>8, <3>10 DEF OneStage
    <3>12. ASSUME NEW s \in DOMAIN stages PROVE Uploaded(s) /\ stages[s].state # "approved"
      <4>1. stages[s].run = 1 /\ stages[s].state = "live" BY <3>8, <3>10
      <4>2. Knows(journal, s)
        <5>1. CASE s = 1 BY <3>3, <3>4, <3>5, <3>8, <3>10, <5>1 DEF Knows
        <5>2. CASE s # 1
          <6>1. stages[s] = stage(q) BY <3>10, <5>2
          <6> QED BY <3>3, <3>4, <3>5, <3>8, <6>1 DEF Knows
        <5> QED BY <5>1, <5>2
      <4> QED BY <3>6, <3>7, <4>1, <4>2 DEF Uploaded
    <3> QED BY <3>4, <3>6, <3>7, <3>10, <3>11, <3>12
  <2> QED BY <2>1, <2>2
<1>6. TypeOK BY <1>1, <1>2, <1>5 DEF TypeOK
<1>7. Locked /\ Priors BY <1>1, <1>2, <1>5 DEF Locked, Priors
<1>8. Alone BY <1>2, <1>5 DEF Alone
<1>9. \A s \in DOMAIN stages : Uploaded(s) /\ Approved(s) BY <1>5 DEF Approved
<1>10. \A r \in DOMAIN runs : Finished(r) BY <1>5 DEF Finished
<1> QED BY <1>3, <1>4, <1>5, <1>6, <1>7, <1>8, <1>9, <1>10 DEF IInv

----------------------------------------------------------------------------
LEMMA NextKeeps ==
  ASSUME IInv, Rerunnable \subseteq {"skipped"}, [Next]_vars
  PROVE  IInv'
<1>1. ASSUME Unresolved PROVE IInv'
  <2>1. job.pc \in Past BY <1>1 DEF Unresolved, Past, Labels
  <2> QED BY <1>1, <2>1, FailKeeps DEF Unresolved
<1> QED BY <1>1, DispatchKeeps, RerunKeeps, StartKeeps, PreflightKeeps, BeginKeeps, CheckTagsKeeps,
           ResetKeeps, LookKeeps, UploadKeeps, SettleKeeps, AfterKeeps, FinalKeeps, CrashKeeps,
           ApproveKeeps, RejectKeeps, MeddleKeeps, IdleKeeps
    DEF Next

(* Where every upload of a release is remembered, for any packages and any  *)
(* number of runs: by GitHub, by the journal and by the place of the job    *)
(* (release.mjs:736-977), if what is run again had skipped its upload.      *)
THEOREM ReleaseInductive == Rerunnable \subseteq {"skipped"} => (Spec => []IInv)
<1> SUFFICES ASSUME Rerunnable \subseteq {"skipped"} PROVE Spec => []IInv OBVIOUS
<1>1. Init => IInv BY InitHolds
<1>2. IInv /\ [Next]_vars => IInv' BY NextKeeps
<1> QED BY <1>1, <1>2, PTL DEF Spec

(* OneStage, for any packages and any number of runs and uploads: no        *)
(* package is in npm's staging area twice, whichever run dies where, and    *)
(* whatever of its evidence is lost.                                        *)
THEOREM OneStageHolds == Rerunnable \subseteq {"skipped"} => (Spec => []OneStage)
<1>1. IInv => OneStage BY DEF IInv
<1> QED BY <1>1, ReleaseInductive, PTL

(* NothingForgotten, for any packages and any number of runs and uploads:   *)
(* an upload is in the journal of the run that made it, under its id or as  *)
(* an intent, from before pnpm is called until the journal is read again.   *)
THEOREM NothingForgottenHolds == Rerunnable \subseteq {"skipped"} => (Spec => []NothingForgotten)
<1>1. ASSUME IInv PROVE NothingForgotten
  <2>0. TypeOK /\ Locked /\ Written BY <1>1 DEF IInv
  <2>1. ASSUME NEW s \in DOMAIN stages,
               runs[stages[s].run].preserved \/ stages[s].run = job.run
        PROVE  Knows(IF stages[s].run = job.run THEN disk ELSE runs[stages[s].run].journal, s)
    <3>0. Uploaded(s) BY <1>1 DEF IInv
    <3>1. CASE stages[s].run = job.run
      <4>1. job.pc # "idle"
        <5>1. 0 \notin DOMAIN runs BY <2>0, Typed
        <5> QED BY <2>0, <3>0, <3>1, <5>1 DEF Locked, Uploaded, Idle
      <4>2. Knows(memory, s) BY <1>1, <3>1, <4>1, OwnKnown
      <4> QED BY <2>0, <3>1, <4>2 DEF Written
    <3>2. CASE stages[s].run # job.run BY <2>1, <3>0, <3>2 DEF Uploaded
    <3> QED BY <3>1, <3>2
  <2> QED BY <2>1 DEF NothingForgotten, Knows
<1> QED BY <1>1, ReleaseInductive, PTL

(* Verifiable, for any packages and any number of runs and uploads: who     *)
(* follows the printed commands publishes nothing before what it depends    *)
(* on, and then finds the release under its tag, with latest where it was   *)
(* before a prerelease.                                                     *)
THEOREM VerifiableHolds == Rerunnable \subseteq {"skipped"} => (Spec => []Verifiable)
<1>1. ASSUME IInv PROVE Verifiable
  <2>1. DependenciesFirst BY <1>1 DEF IInv, Approved, DependenciesFirst
  <2>2. ASSUME NEW r \in DOMAIN runs, runs[r].journal.complete, meddled = 0,
               NEW p \in candidate.release,
               \A s \in {runs[r].journal.records[q].id :
                           q \in {q \in DOMAIN runs[r].journal.records :
                                    runs[r].journal.records[q].state = "staged"}} :
                  stages[s].state = "approved"
        PROVE  /\ registry[p].bytes = "mine" /\ registry[p][releaseTag] = This
               /\ candidate.prerelease => registry[p].latest = runs[r].journal.before[p]
    <3> DEFINE journal == runs[r].journal
               record == journal.records[p]
    <3>1. /\ Settled(journal, p) /\ (record.state = "public" => Tagged(p))
          /\ candidate.prerelease => registry[p].latest = journal.before[p]
      BY <1>1, <2>2 DEF IInv, Finished
    <3>2. CASE record.state = "staged"
      <4>1. DOMAIN journal.records = candidate.release
        <5>1. TypeOK BY <1>1 DEF IInv
        <5>2. journal \in Journal BY <2>2, <5>1, Typed DEF RunOf, NoJournal
        <5> QED BY <5>2 DEF Journal
      <4>2. stages[record.id].state = "approved" BY <2>2, <3>2, <4>1
      <4>3. record.id \in DOMAIN stages /\ stages[record.id].package = p
        BY <3>1, <3>2 DEF Settled
      <4>4. Approved(record.id) BY <1>1, <4>3 DEF IInv
      <4> QED BY <2>2, <3>1, <4>2, <4>3, <4>4 DEF Approved, Tagged
    <3>3. CASE record.state # "staged" BY <2>2, <3>1, <3>3 DEF Settled, Tagged
    <3> QED BY <3>2, <3>3
  <2> QED BY <2>1, <2>2 DEF Verifiable
<1> QED BY <1>1, ReleaseInductive, PTL
=============================================================================
