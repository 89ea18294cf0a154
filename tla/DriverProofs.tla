---------------------------- MODULE DriverProofs ----------------------------
(***************************************************************************)
(* Proofs about Drivers: every executor keeps the contract of Executor, a  *)
(* transaction is not ended behind the runtime's back, a COMMIT reported   *)
(* as done has committed, a stream hands over the rows in order and all of *)
(* them, and a prepared name means its text.                               *)
(*                                                                         *)
(* The argument. Base says what every driver owes between its calls, and   *)
(* Rows what a stream owes its consumer. A step of any driver is one of    *)
(* six kinds: it begins a call, works in it, hands over a row, ends it,    *)
(* is a whole call, or gives the lease back. Each kind keeps Base and Rows *)
(* and is a step of the contract (Move). What is left to show of a driver  *)
(* is of what kind its actions are, and for that each has an invariant of  *)
(* its own: what its connection, its locals and its library are at each    *)
(* place of its code.                                                      *)
(***************************************************************************)
EXTENDS Drivers, TLAPS

(* The values of the variables. *)
Things == {"statement", "cursor", "end", "break"} \cup Portals
Wire == [busy : BOOLEAN, open : SUBSET Things, ended : BOOLEAN,
         tx : {"none", "open", "spoiled"}]
Ops == {"none", "query", "returning", "call", "bulk", "stream"}
Sender == [op : Ops, sent : Nat, paused : BOOLEAN, stopped : BOOLEAN, deaf : BOOLEAN]
Taker == [took : Seq(Nat), left : BOOLEAN]

Shape ==
    /\ wire \in Wire /\ library \in Sender /\ consumer \in Taker
    /\ signal \in {"none", "armed", "aborted"} /\ intx \in BOOLEAN
    /\ settled \in {"none", "ok", "failed", "cleanup"}
    /\ lease \in {"leased", "returned", "discarded", "kept"}

(* What may stay open in a transaction is a portal. *)
Left(t) == IF t THEN Portals ELSE {}

Still(w, t) == ~w.busy /\ ~w.ended /\ w.open \subseteq Left(t)

(* A call runs only while the connection is leased; one that has ended,    *)
(* and not asked for cleanup, has left nothing behind but what its         *)
(* transaction keeps.                                                      *)
Between ==
    /\ at # "idle" => lease = "leased" /\ settled = "none"
    /\ at = "idle" /\ settled # "cleanup" => Still(wire, intx)

(* The runtime and the database agree on whether there is a transaction,   *)
(* but for a poisoned connection and for libSQL between the end of its     *)
(* transaction and the closing of the handle.                              *)
Known ==
    settled # "cleanup" /\ ~(subject = "libsql" /\ at = "closing") => (intx <=> wire.tx # "none")

(* Only the drivers of PostgreSQL know spoiled transactions. *)
Spoilable ==
    wire.tx = "spoiled" => subject \in {"pg", "postgres-js", "pglite", "bun-postgres"}

(* A control statement runs on a connection that is quiet. *)
Controlled ==
    at = "control" =>
        /\ job.op \in {"begin", "commit", "rollback", "savepoint", "rollbackTo"}
        /\ (job.op = "begin") <=> ~intx
        /\ ~wire.ended /\ wire.open \subseteq Left(intx)
        /\ library.op = "none"

Base == Shape /\ Between /\ Known /\ Spoilable /\ Controlled

(* The rows the consumer took, those the library has sent, and those that  *)
(* wait in a buffer.                                                       *)
InOrder == \A i \in DOMAIN consumer.took : consumer.took[i] = i
Caught == Len(consumer.took) = library.sent
Queued(q) == \A i \in 1 .. Len(q) : q[i] = Len(consumer.took) + i
Complete ==
    at = "idle" /\ settled = "ok" /\ library.op = "stream" /\ ~consumer.left => Caught

(* The drivers one by one. SQLite: a stream's statement is all that is     *)
(* ever open.                                                              *)
SqliteInv ==
    subject \in SQ!Kinds =>
      /\ wire.open \subseteq {"statement"}
      /\ at \in {"idle", "stepping", "yielded"}
      /\ at # "idle" => ~wire.busy /\ ~wire.ended /\ library.op = "stream" /\ Caught

(* MariaDB: a connection that was cut is a call that is dirty, and so is   *)
(* an aborted one.                                                         *)
MariadbJob == [op : Ops, failed : BOOLEAN, dirty : BOOLEAN]
MariadbInv ==
    subject = "mariadb" =>
      /\ wire.open = {}
      /\ at \in {"idle", "control", "requested", "reading", "yielded"}
      /\ at \notin {"idle", "control"} =>
           /\ job \in MariadbJob
           /\ wire.ended => job.dirty
           /\ signal = "aborted" => job.dirty
      /\ at = "requested" => library.op # "stream"
      /\ at \in {"reading", "yielded"} => library.op = "stream" /\ Caught

(* mysql2: a statement is open only while it is executed or closed; a      *)
(* stream that is drained has failed or was left.                          *)
Mysql2Job == [op : Ops, failed : BOOLEAN, dirty : BOOLEAN, rows : Int]
Mysql2Inv ==
    subject = "mysql2" =>
      /\ wire.open \subseteq {"statement"}
      /\ at \in {"idle", "control", "requested", "preparing", "executing", "unpreparing",
                 "reading", "yielded", "draining"}
      /\ at \notin {"idle", "control"} => job \in Mysql2Job /\ (wire.ended => job.dirty)
      /\ at \notin {"idle", "executing", "unpreparing"} => wire.open = {}
      /\ at = "unpreparing" => ~job.dirty
      /\ at \in {"requested", "preparing", "executing", "unpreparing"} => library.op # "stream"
      /\ at \in {"reading", "yielded"} => Caught
      /\ at = "draining" => job.failed \/ consumer.left

(* tedious: what was sent was taken or is queued; a request whose          *)
(* completion was seen runs no more.                                       *)
TediousJob == [op : Ops, failed : BOOLEAN, cancelled : BOOLEAN, dirty : BOOLEAN,
               done : BOOLEAN, queue : Seq(Nat), paused : BOOLEAN, rows : Int]
TediousInv ==
    subject = "tedious" =>
      /\ wire.open \subseteq {"statement"} /\ ~wire.ended
      /\ at \in {"idle", "control", "requested", "preparing", "executing", "unpreparing",
                 "waiting", "woken", "yielded", "draining"}
      /\ at \notin {"idle", "control"} => job \in TediousJob
      /\ at \notin {"idle", "executing", "unpreparing"} => wire.open = {}
      /\ at \in {"requested", "preparing", "executing", "unpreparing"} => library.op # "stream"
      /\ at \in {"waiting", "woken", "yielded", "draining"} =>
           /\ job.done => ~wire.busy
           /\ Queued(job.queue)
           /\ ~job.failed => Len(consumer.took) + Len(job.queue) = library.sent
      /\ at = "draining" => job.failed

(* The executors without cancellation: what was sent was taken or is       *)
(* queued, and libSQL has a handle when it is in a transaction.            *)
RequestsJob == [op : Ops \cup {"commit", "rollback"}, failed : BOOLEAN, dirty : BOOLEAN,
                rows : Int, queue : Seq(Nat), last : BOOLEAN]
RequestsInv ==
    subject \in RQ!Kinds =>
      /\ wire.open \subseteq {"cursor"} /\ ~wire.ended
      /\ kept \in [stale : BOOLEAN, discard : BOOLEAN, handle : BOOLEAN]
      /\ at \in {"idle", "control", "setting", "requested", "reading", "yielded", "closing"}
      /\ at \notin {"idle", "reading", "yielded"} => wire.open = {}
      /\ at \in {"requested", "reading", "yielded", "closing"} => job \in RequestsJob
      /\ at = "setting" => job.op = "begin" /\ ~intx /\ library.op = "none"
      /\ at = "requested" => ~job.dirty /\ library.op # "stream"
      /\ at \in {"reading", "yielded"} =>
           /\ library.op = "stream"
           /\ Queued(job.queue)
           /\ Len(consumer.took) + Len(job.queue) = library.sent
      /\ at = "yielded" => ~wire.busy
      /\ at = "reading" => job.queue = <<>>
      /\ at = "closing" => subject = "libsql" /\ library.op # "stream"
      /\ at = "closing" => intx /\ (~job.dirty => wire.tx = "none") /\ ~job.failed
      /\ subject = "libsql" /\ settled # "cleanup" /\ at # "closing" => kept.handle = intx
      /\ subject = "libsql" /\ at = "closing" => ~kept.handle

(* node-postgres: the client is ended only by an aborted call, which is    *)
(* dirty from then on; portals are open only in a transaction, a cursor    *)
(* only in a stream.                                                       *)
PgJob == [op : Ops, failed : BOOLEAN, dirty : BOOLEAN, queue : Seq(Nat), last : BOOLEAN,
          live : Seq(Portals), text : {"none"} \cup PG!Texts, rows : Int]
PgInv ==
    subject = "pg" =>
      /\ wire.open \subseteq {"cursor", "end"} \cup Portals
      /\ at \in {"idle", "control", "requested", "fetching", "dropping", "evicting", "executing",
                 "reading", "yielded", "closing", "ending"}
      /\ at \notin {"idle", "control"} =>
           /\ job \in PgJob
           /\ ~intx => wire.open \cap Portals = {}
      /\ "end" \in wire.open => at # "idle"
      /\ wire.ended \/ "end" \in wire.open =>
           \/ at \in {"idle", "ending"}
           \/ /\ at \in {"requested", "fetching", "dropping", "executing", "yielded"}
              /\ job.dirty /\ signal = "aborted"
      /\ at \in {"reading", "closing"} => ~job.dirty
      /\ "cursor" \in wire.open => at \in {"idle", "reading", "yielded", "closing", "ending"}
      /\ at \in {"fetching", "dropping"} => job.live # <<>>
      /\ at \in {"requested", "fetching", "dropping", "evicting", "executing"} => library.op # "stream"
      /\ at \in {"reading", "yielded", "closing"} =>
           /\ Queued(job.queue)
           /\ ~job.failed /\ ~consumer.left => Len(consumer.took) + Len(job.queue) = library.sent
      /\ at = "reading" => job.queue = <<>> /\ ~job.failed /\ ~consumer.left
      /\ at = "yielded" => ~job.failed /\ ~consumer.left
      /\ at = "closing" => job.queue = <<>> \/ job.failed \/ consumer.left

(* The name of its bulk: the client and the server know the same text by   *)
(* it, the one the cache holds.                                            *)
PgNames ==
    subject = "pg" =>
      /\ kept \in [text : {"none"} \cup PG!Texts, parsed : {"none"} \cup PG!Texts,
                  server : {"none"} \cup PG!Texts]
      /\ kept.server = kept.parsed /\ kept.parsed \in {"none", kept.text}
      /\ at = "executing" => kept.parsed \in {"none", job.text}

(* node-oracledb: a break is under way only after an abort, and the call   *)
(* waits for it; transactionActive is the runtime's transaction.           *)
OracleJob == [op : {"query", "returning", "call", "bulk", "stream"},
              failed : BOOLEAN, dirty : BOOLEAN]
OracleInv ==
    subject = "oracledb" =>
      /\ wire.open \subseteq {"cursor", "break"} /\ ~wire.ended
      /\ kept \in [active : BOOLEAN, broken : BOOLEAN]
      /\ settled # "cleanup" => kept.active = intx
      /\ at \in {"idle", "control", "executing", "reading", "closing", "breaking", "fetching",
                 "yielded", "settling"}
      /\ at \notin {"idle", "control"} =>
           /\ job \in OracleJob
           /\ library.op = "stream" <=> job.op = "stream"
           /\ library.op = "stream" => Caught
      /\ "break" \in wire.open =>
           \/ at \in {"executing", "reading", "fetching", "breaking", "settling"}
           \/ at = "closing" /\ job.op = "returning"
      /\ "break" \in wire.open => signal = "aborted"
      /\ "cursor" \in wire.open /\ at # "idle" => job.op \notin {"query", "bulk"} /\ at # "executing"
      /\ at = "breaking" /\ job.op = "returning" => "cursor" \notin wire.open \/ job.dirty
      /\ at = "reading" => "cursor" \in wire.open /\ job.op \in {"returning", "call"}
      /\ at \in {"fetching", "yielded", "settling"} => job.op = "stream"
      /\ at \in {"breaking", "yielded", "settling"} => ~wire.busy
      /\ at = "closing" => job.op \in {"returning", "call", "stream"}

-----------------------------------------------------------------------------
(* What a step may be.  Within a call the transaction is let alone, or spoiled. *)

Outcomes == {"ok", "failed", "cleanup"}

SameTx ==
    \/ wire'.tx = wire.tx
    \/ wire.tx = "open" /\ wire'.tx = "spoiled"
       /\ subject \in {"pg", "postgres-js", "pglite", "bun-postgres"}

Ready == at = "idle" /\ lease = "leased" /\ settled # "cleanup"

(* A call begins. *)
Begins ==
    /\ Ready /\ at' \notin {"idle", "control", "closing"} /\ settled' = "none"
    /\ UNCHANGED <<subject, intx, lease>>
    /\ wire'.tx = wire.tx /\ consumer' = [took |-> <<>>, left |-> FALSE]

(* A call goes on. *)
Works ==
    /\ at # "idle" /\ at' \notin {"idle", "control"}
    /\ subject = "libsql" => at # "closing" /\ at' # "closing"
    /\ UNCHANGED <<subject, settled, intx, lease>>
    /\ SameTx

(* A call goes on, and hands the consumer the next row. *)
Takes == Works /\ consumer' = [consumer EXCEPT !.took = Append(@, Len(consumer.took) + 1)]

(* A call ends, quietly or asking for cleanup. *)
Ends ==
    /\ at # "idle" /\ at' = "idle" /\ settled' \in Outcomes
    /\ subject = "libsql" => at # "closing"
    /\ UNCHANGED <<subject, intx, lease>>
    /\ SameTx /\ consumer'.took = consumer.took
    /\ settled' # "cleanup" => Still(wire', intx)

(* A call of one turn. *)
Turns ==
    /\ Ready /\ at' = "idle" /\ settled' \in Outcomes
    /\ UNCHANGED <<subject, lease>>
    /\ wire'.tx \in {"none", "open"} \/ wire'.tx = wire.tx
    /\ settled' # "cleanup" => Still(wire', intx') /\ (intx' <=> wire'.tx # "none")
    /\ consumer' = [took |-> <<>>, left |-> FALSE] /\ library'.op = "none"

(* The lease is given back. *)
Releases ==
    /\ at = "idle" /\ at' = "idle" /\ lease = "leased" /\ lease' # "leased"
    /\ settled = "cleanup" \/ ~intx
    /\ UNCHANGED <<subject, settled, intx, library, consumer, kept>>
    /\ wire' = wire \/ (settled = "cleanup" /\ wire' = Connected)
    /\ lease' = "returned" => Still(wire', FALSE) /\ wire'.tx = "none"

(* The same to the contract. *)
Move ==
    \/ Ready /\ at' # "idle" /\ UNCHANGED <<intx, lease>>
    \/ at # "idle" /\ at' # "idle" /\ UNCHANGED <<intx, lease>>
    \/ at # "idle" /\ at' = "idle" /\ settled' \in Outcomes /\ UNCHANGED lease
    \/ Ready /\ at' = "idle" /\ settled' \in Outcomes /\ UNCHANGED lease
    \/ Releases

(* What the steps of all drivers keep. *)
Rows == InOrder /\ Complete
Common == Base /\ Rows
Kept == Common' /\ Move

(* The beginning of a call keeps what all drivers keep, and is a step of   *)
(* the contract.                                                           *)
LEMMA BeginsKeeps ==
    ASSUME Common, Begins, Shape'
    PROVE  Kept
<1>1. /\ Ready /\ at' \notin {"idle", "control", "closing"} /\ settled' = "none"
      /\ subject' = subject /\ intx' = intx /\ lease' = lease /\ wire'.tx = wire.tx
      /\ consumer' = [took |-> <<>>, left |-> FALSE]
  BY DEF Begins
<1>2. Between' /\ Known' /\ Spoilable' /\ Controlled'
  BY <1>1 DEF Common, Base, Between, Known, Spoilable, Controlled, Ready
<1>3. Rows' BY <1>1 DEF Rows, InOrder, Complete
<1>4. Move BY <1>1 DEF Move
<1> QED BY <1>2, <1>3, <1>4 DEF Kept, Common, Base

(* So is a step within a call that hands over nothing. *)
LEMMA WorksKeeps ==
    ASSUME Common, Works, Shape', consumer'.took = consumer.took
    PROVE  Kept
<1>1. /\ at # "idle" /\ at' \notin {"idle", "control"} /\ (subject = "libsql" => at # "closing")
      /\ subject' = subject /\ settled' = settled /\ intx' = intx /\ lease' = lease
  BY DEF Works
<1>2. Between' BY <1>1 DEF Common, Base, Between
<1>3. Known' BY <1>1 DEF Works, SameTx, Common, Base, Known
<1>4. Spoilable' /\ Controlled' BY <1>1 DEF Works, SameTx, Common, Base, Spoilable, Controlled
<1>5. Rows' BY <1>1 DEF Common, Rows, InOrder, Complete
<1>6. Move BY <1>1 DEF Move
<1> QED BY <1>2, <1>3, <1>4, <1>5, <1>6 DEF Kept, Common, Base

(* So is one that hands over the next row. *)
LEMMA TakesKeeps ==
    ASSUME Common, Takes, Shape'
    PROVE  Kept
<1>1. /\ at # "idle" /\ at' \notin {"idle", "control"} /\ (subject = "libsql" => at # "closing")
      /\ subject' = subject /\ settled' = settled /\ intx' = intx /\ lease' = lease
  BY DEF Takes, Works
<1>2. Between' BY <1>1 DEF Common, Base, Between
<1>3. Known' BY <1>1 DEF Takes, Works, SameTx, Common, Base, Known
<1>4. Spoilable' /\ Controlled'
  BY <1>1 DEF Takes, Works, SameTx, Common, Base, Spoilable, Controlled
<1>5. Rows'
  <2> DEFINE took == consumer.took
  <2>1. took \in Seq(Nat) /\ consumer'.took = Append(took, Len(took) + 1)
    BY DEF Takes, Common, Base, Shape, Taker
  <2> HIDE DEF took
  <2>2. InOrder'
    <3>1. \A i \in DOMAIN took : took[i] = i BY DEF Common, Rows, InOrder, took
    <3> QED BY <2>1, <3>1 DEF InOrder
  <2> QED BY <1>1, <2>2 DEF Rows, Complete
<1>6. Move BY <1>1 DEF Move
<1> QED BY <1>2, <1>3, <1>4, <1>5, <1>6 DEF Kept, Common, Base

(* So is the end of a call, if a stream that ends well has handed over     *)
(* what was sent.                                                          *)
LEMMA EndsKeeps ==
    ASSUME Common, Ends, Shape',
           settled' = "ok" /\ library'.op = "stream" /\ ~consumer'.left => Caught'
    PROVE  Kept
<1>1. /\ at # "idle" /\ at' = "idle" /\ settled' \in Outcomes /\ (subject = "libsql" => at # "closing")
      /\ subject' = subject /\ intx' = intx /\ lease' = lease /\ consumer'.took = consumer.took
      /\ settled' # "cleanup" => Still(wire', intx)
  BY DEF Ends
<1>2. Between' BY <1>1 DEF Common, Base, Between, Still
<1>3. Known' BY <1>1 DEF Ends, SameTx, Common, Base, Known, Between
<1>4. Spoilable' /\ Controlled' BY <1>1 DEF Ends, SameTx, Common, Base, Spoilable, Controlled
<1>5. Rows' BY <1>1 DEF Common, Rows, InOrder, Complete
<1>6. Move BY <1>1 DEF Move
<1> QED BY <1>2, <1>3, <1>4, <1>5, <1>6 DEF Kept, Common, Base

(* So is a call of one turn. *)
LEMMA TurnsKeeps ==
    ASSUME Common, Turns, Shape'
    PROVE  Kept
<1>1. /\ Ready /\ at' = "idle" /\ settled' \in Outcomes /\ subject' = subject /\ lease' = lease
      /\ settled' # "cleanup" => Still(wire', intx') /\ (intx' <=> wire'.tx # "none")
      /\ consumer' = [took |-> <<>>, left |-> FALSE] /\ library'.op = "none"
  BY DEF Turns
<1>2. Between' BY <1>1 DEF Between, Still
<1>3. Known' BY <1>1 DEF Known
<1>4. Spoilable' /\ Controlled' BY <1>1 DEF Turns, Common, Base, Spoilable, Controlled
<1>5. Rows' BY <1>1 DEF Rows, InOrder, Complete
<1>6. Move BY <1>1 DEF Move
<1> QED BY <1>2, <1>3, <1>4, <1>5, <1>6 DEF Kept, Common, Base

(* So is the release: what goes back to the pool is quiet and in no        *)
(* transaction.                                                            *)
LEMMA ReleasesKeeps ==
    ASSUME Common, Releases, Shape'
    PROVE  Kept
<1>1. /\ at = "idle" /\ at' = "idle" /\ settled' = settled /\ intx' = intx /\ subject' = subject
      /\ library' = library /\ consumer' = consumer
      /\ wire' = wire \/ (settled = "cleanup" /\ wire' = Connected)
  BY DEF Releases
<1>2. Between' BY <1>1 DEF Common, Base, Between, Still
<1>3. Known' BY <1>1 DEF Common, Base, Known
<1>4. Spoilable' /\ Controlled' BY <1>1 DEF Common, Base, Spoilable, Controlled, Connected
<1>5. Rows' BY <1>1 DEF Common, Rows, InOrder, Complete, Caught
<1>6. Move BY DEF Move
<1> QED BY <1>2, <1>3, <1>4, <1>5, <1>6 DEF Kept, Common, Base

(* Between two calls the contract's connection is quiet, and each kind of   *)
(* step is one of the contract's.                                          *)
LEMMA MoveConforms ==
    ASSUME Base, Base', Move
    PROVE  Contract!Next
BY DEF Base, Shape, Between, Known, Left, Still, Move, Ready, Outcomes, Releases,
  Contract!Next, Contract!Begin, Contract!Work, Contract!Short, Contract!End, Contract!Release,
  Contract!Ready, Contract!Quiet, Wire
-----------------------------------------------------------------------------
(* What all drivers share. *)

(* A control statement is sent. *)
LEMMA ControlKeeps ==
    ASSUME NEW k, Common, Control(k)
    PROVE  /\ Kept
           /\ subject = k /\ at = "idle" /\ settled # "cleanup" /\ at' = "control"
           /\ wire'.open = wire.open /\ wire'.open \subseteq Left(intx) /\ wire'.ended = FALSE
           /\ UNCHANGED <<subject, kept, intx, lease>>
<1>1. /\ Ready /\ at' = "control" /\ settled' = "none" /\ wire' = Busy /\ library' = NoRequest
      /\ job'.op \in {"begin", "commit", "rollback", "savepoint", "rollbackTo"}
      /\ (job'.op = "begin") <=> ~intx
      /\ consumer' = Unread /\ signal' = signal
      /\ subject' = subject /\ intx' = intx /\ lease' = lease /\ kept' = kept
      /\ subject = k
  BY DEF Control, Start, Ready, Common, Base, Shape
<1>2. Still(wire, intx) /\ (intx <=> wire.tx # "none")
  BY <1>1 DEF Ready, Common, Base, Between, Known
<1>3. Shape'
  <2>1. wire' \in Wire BY <1>1 DEF Common, Base, Shape, Busy, Wire
  <2>2. library' \in Sender /\ consumer' \in Taker
    BY <1>1 DEF NoRequest, Unread, Sender, Ops, Taker
  <2> QED BY <1>1, <2>1, <2>2 DEF Common, Base, Shape, Ready
<1>4. wire'.tx = wire.tx /\ wire'.open = wire.open /\ wire'.ended = wire.ended
  BY <1>1 DEF Busy, Common, Base, Shape, Wire
<1>5. Between' /\ Known' /\ Spoilable'
  BY <1>1, <1>2, <1>4 DEF Common, Base, Between, Known, Spoilable, Ready
<1>6. Controlled' BY <1>1, <1>2, <1>4 DEF Controlled, Still, NoRequest
<1>7. Rows' BY <1>1 DEF Rows, InOrder, Complete, Unread
<1>8. Move BY <1>1 DEF Move
<1> QED BY <1>1, <1>2, <1>3, <1>4, <1>5, <1>6, <1>7, <1>8 DEF Kept, Common, Base, Still, Ready

(* A control statement is answered: what is reported as done was not       *)
(* refused, and has ended the transaction if that was asked.               *)
LEMMA AnsweredKeeps ==
    ASSUME NEW k, NEW refused \in BOOLEAN, Common, Answered(k, refused)
    PROVE  /\ Kept
           /\ subject = k /\ at = "control" /\ at' = "idle"
           /\ wire'.open \subseteq wire.open /\ wire'.ended = FALSE
           /\ settled' \in {"ok", "cleanup"}
           /\ settled' = "ok" => ~refused /\ intx' = (job.op \notin {"commit", "rollback"})
           /\ UNCHANGED <<subject, library, consumer, lease>>
<1>1. /\ subject = k /\ at = "control" /\ at' = "idle" /\ signal' = "none"
      /\ UNCHANGED <<subject, library, consumer, lease>>
  BY DEF Answered, Settle
<1>2. PICK did, error \in BOOLEAN :
        /\ ~did => error
        /\ wire' = IF did THEN [Free EXCEPT !.tx = Transaction(job.op, @), !.open = @ \ Portals] ELSE Free
        /\ IF error \/ refused THEN Settle("cleanup") /\ UNCHANGED intx
           ELSE Settle("ok") /\ intx' = (job.op \notin {"commit", "rollback"})
  BY DEF Answered
<1>3. /\ job.op \in {"begin", "commit", "rollback", "savepoint", "rollbackTo"}
      /\ (job.op = "begin") <=> ~intx
      /\ ~wire.ended /\ wire.open \subseteq Left(intx) /\ library.op = "none"
      /\ intx <=> wire.tx # "none"
  BY <1>1 DEF Common, Base, Controlled, Known, Between
<1>4. /\ wire' \in Wire /\ wire'.busy = FALSE /\ wire'.ended = FALSE /\ wire'.open \subseteq wire.open
      /\ did => wire'.tx = Transaction(job.op, wire.tx) /\ wire'.open = wire.open \ Portals
      /\ ~did => wire'.tx = wire.tx
  BY <1>2, <1>3 DEF Common, Base, Shape, Wire, Free, Transaction
<1>5. Shape' BY <1>1, <1>2, <1>4 DEF Common, Base, Shape, Settle
<1>6. settled' # "cleanup" => Still(wire', intx') /\ (intx' <=> wire'.tx # "none")
  BY <1>2, <1>3, <1>4 DEF Settle, Still, Left, Transaction
<1>7. settled' \in Outcomes BY <1>2 DEF Settle, Outcomes
<1>8. Between' /\ Known' BY <1>1, <1>6, <1>7 DEF Between, Known
<1>9. Spoilable' BY <1>1, <1>3, <1>4 DEF Common, Base, Spoilable, Transaction
<1>10. Controlled' /\ Rows' BY <1>1, <1>3 DEF Controlled, Common, Rows, InOrder, Complete
<1>11. Move BY <1>1, <1>7 DEF Move
<1>12. /\ settled' \in {"ok", "cleanup"}
       /\ settled' = "ok" => ~refused /\ intx' = (job.op \notin {"commit", "rollback"})
  BY <1>2 DEF Settle
<1> QED BY <1>1, <1>4, <1>5, <1>8, <1>9, <1>10, <1>11, <1>12 DEF Kept, Common, Base

(* A call that is refused before anything is sent. *)
LEMMA UnsentKeeps ==
    ASSUME NEW k, Common, Unsent(k)
    PROVE  /\ Kept
           /\ subject = k /\ at = "idle" /\ settled # "cleanup" /\ at' = "idle"
           /\ UNCHANGED <<subject, wire, kept, intx, lease>>
<1>1. /\ Turns /\ Shape' /\ subject = k /\ at = "idle" /\ settled # "cleanup" /\ at' = "idle"
      /\ UNCHANGED <<subject, wire, kept, intx, lease>>
  BY DEF Unsent, Turn, Turns, Ready, Outcomes, NoRequest, Unread, Common, Base, Shape, Sender,
    Ops, Taker,
     Between, Known
<1> QED BY <1>1, TurnsKeeps

(* The release of most pools. *)
LEMMA ReleaseKeeps ==
    ASSUME NEW k, Common, ReleaseOrDiscard(k)
    PROVE  /\ Kept
           /\ subject = k /\ at = "idle" /\ at' = "idle"
           /\ UNCHANGED <<subject, settled, wire, kept, intx>>
<1>1. Releases /\ Shape' /\ subject = k /\ at = "idle" /\ at' = "idle" /\ UNCHANGED <<subject, settled, wire, kept, intx>>
  BY DEF ReleaseOrDiscard, Releasable, Leased, Poisoned, Releases, Common, Base, Shape,
    Between, Known,
     Still, Left
<1> QED BY <1>1, ReleasesKeeps

(* A request of the library that has sent nothing. *)
LEMMA RequestTyped ==
    ASSUME NEW op \in Ops, NEW deaf \in BOOLEAN
    PROVE  /\ Request(op, deaf) \in Sender
           /\ Request(op, deaf).op = op /\ Request(op, deaf).sent = 0
BY DEF Request, NoRequest, Sender

(* A call that takes more than one turn begins. *)
LEMMA StartKeeps ==
    ASSUME Common, NEW k, NEW l, NEW j, Start(k, l, j), l \notin {"idle", "control", "closing"},
           NEW op \in Ops, NEW deaf \in BOOLEAN, library' = Request(op, deaf),
           wire' \in Wire, wire'.tx = wire.tx,
           signal' \in {"none", "armed", "aborted"}, intx' = intx
    PROVE  /\ Kept
           /\ subject = k /\ subject' = k /\ at' = l /\ job' = j /\ settled' = "none"
           /\ library'.op = op /\ Caught' /\ consumer' = [took |-> <<>>, left |-> FALSE]
           /\ library'.sent = 0
           /\ Still(wire, intx) /\ (intx <=> wire.tx # "none") /\ intx \in BOOLEAN /\ wire \in Wire
           /\ settled # "cleanup" /\ at = "idle"
<1>1. /\ subject = k /\ Ready /\ at' = l /\ job' = j /\ settled' = "none"
      /\ subject' = subject /\ lease' = lease /\ consumer' = [took |-> <<>>, left |-> FALSE]
  BY DEF Start, Ready, Unread
<1>2. Begins BY <1>1 DEF Begins
<1>3. Shape' BY <1>1, RequestTyped DEF Shape, Common, Base, Taker
<1>4. Caught' /\ library'.op = op /\ library'.sent = 0 BY <1>1, RequestTyped DEF Caught
<1>5. Still(wire, intx) /\ (intx <=> wire.tx # "none")
  BY <1>1 DEF Common, Base, Between, Known, Ready
<1> QED BY <1>1, <1>2, <1>3, <1>4, <1>5, BeginsKeeps DEF Common, Base, Shape, Ready

(* A row the library hands over at once is the next one. *)
LEMMA HandRowCaught ==
    ASSUME Shape, HandRow, Caught
    PROVE  /\ library' \in Sender /\ library'.op = library.op
           /\ consumer' \in Taker /\ consumer'.left = consumer.left
           /\ consumer' = [consumer EXCEPT !.took = Append(@, Len(consumer.took) + 1)]
           /\ Caught'
<1>1. library' = [library EXCEPT !.sent = @ + 1] /\ library \in Sender /\ consumer \in Taker
      /\ consumer' = [consumer EXCEPT !.took = Append(@, library.sent + 1)]
      /\ Len(consumer.took) = library.sent
  BY DEF HandRow, Shape, Caught
<1>2. library' \in Sender /\ library'.op = library.op /\ library'.sent = library.sent + 1
  BY <1>1 DEF Sender
<1>3. library.sent \in Nat /\ consumer.took \in Seq(Nat) BY <1>1 DEF Sender, Taker
<1>4. Append(consumer.took, library.sent + 1) \in Seq(Nat) BY <1>3
<1>5. consumer' \in Taker /\ consumer'.took = Append(consumer.took, library.sent + 1)
      /\ consumer'.left = consumer.left
  BY <1>1, <1>4 DEF Taker
<1> QED BY <1>1, <1>2, <1>3, <1>5 DEF Caught

(* A batch of rows, and the hand-over of the first of a queue. *)
LEMMA BatchQueued ==
    ASSUME Shape, Caught, NEW n \in Nat
    PROVE  LET batch == [i \in 1 .. n |-> library.sent + i] IN
           batch \in Seq(Nat) /\ Len(batch) = n /\ Queued(batch)
BY DEF Shape, Caught, Queued, Sender

(* The first row of a queue is the next one, and the rest still follows. *)
LEMMA HandQueued ==
    ASSUME Shape, NEW q \in Seq(Nat), q # <<>>, Queued(q),
           consumer' = [consumer EXCEPT !.took = Append(@, Head(q))]
    PROVE  /\ consumer' \in Taker /\ consumer'.left = consumer.left
           /\ consumer' = [consumer EXCEPT !.took = Append(@, Len(consumer.took) + 1)]
           /\ Tail(q) \in Seq(Nat)
           /\ \A i \in 1 .. Len(Tail(q)) : Tail(q)[i] = Len(consumer'.took) + i
           /\ Len(consumer'.took) + Len(Tail(q)) = Len(consumer.took) + Len(q)
<1>1. Len(q) >= 1 /\ Head(q) = q[1] /\ Tail(q) \in Seq(Nat) /\ Len(Tail(q)) = Len(q) - 1
  OBVIOUS
<1>2. \A i \in 1 .. Len(Tail(q)) : Tail(q)[i] = q[i + 1] BY <1>1
<1>3. Head(q) = Len(consumer.took) + 1 /\ Head(q) \in Nat BY <1>1 DEF Queued
<1>4. consumer.took \in Seq(Nat) /\ consumer \in Taker BY DEF Shape, Taker
<1>5. Append(consumer.took, Head(q)) \in Seq(Nat)
      /\ Len(Append(consumer.took, Head(q))) = Len(consumer.took) + 1
  BY <1>3, <1>4
<1>6. /\ consumer' \in Taker /\ consumer'.left = consumer.left
      /\ consumer'.took = Append(consumer.took, Head(q))
  BY <1>4, <1>5 DEF Taker
<1>7. ASSUME NEW i \in 1 .. Len(Tail(q))
      PROVE  Tail(q)[i] = Len(consumer'.took) + i
  <2>1. i + 1 \in 1 .. Len(q) /\ Tail(q)[i] = q[i + 1] BY <1>1, <1>2
  <2>2. q[i + 1] = Len(consumer.took) + (i + 1) BY <2>1 DEF Queued
  <2>3. Len(consumer'.took) = Len(consumer.took) + 1 /\ Len(consumer.took) \in Nat
    BY <1>4, <1>5, <1>6
  <2>4. i \in Nat BY <1>1
  <2>5. Tail(q)[i] = Len(consumer.took) + (i + 1) BY <2>1, <2>2
  <2> DEFINE n == Len(consumer.took)
             m == Len(consumer'.took)
             x == Tail(q)[i]
  <2>6. m = n + 1 /\ n \in Nat /\ x = n + (i + 1) BY <2>3, <2>5
  <2> HIDE DEF n, m, x
  <2>7. x = m + i BY <2>4, <2>6
  <2> QED BY <2>7 DEF m, x
<1>8. Len(consumer'.took) + Len(Tail(q)) = Len(consumer.took) + Len(q)
  BY <1>1, <1>4, <1>5, <1>6
<1> QED BY <1>1, <1>3, <1>6, <1>7, <1>8
-----------------------------------------------------------------------------
(* SQLite. *)

(* What Sqlite takes from DriverState means the same there and here. *)
LEMMA SqliteShares ==
    ASSUME NEW k, NEW l, NEW j, NEW op, NEW d
    PROVE  /\ SQ!Start(k, l, j) <=> Start(k, l, j)
           /\ SQ!Request(op, d) = Request(op, d)
           /\ SQ!HandRow <=> HandRow
<1>1. SQ!Start(k, l, j) <=> Start(k, l, j)
  BY DEF Start, Unread,
    SQ!Start, SQ!Unread
<1>2. SQ!Request(op, d) = Request(op, d)
  BY DEF Request, NoRequest,
    SQ!Request, SQ!NoRequest
<1>3. SQ!HandRow <=> HandRow
  BY DEF HandRow,
    SQ!HandRow
<1> QED BY <1>1, <1>2, <1>3

(* Every step of the SQLite executors is of one of the kinds. *)
LEMMA SqliteKeeps ==
    ASSUME Common, SqliteInv, SQ!Next
    PROVE  Kept /\ SqliteInv'
<1> USE DEF SQ!Settle, SQ!Outcome, SQ!Counted, SQ!Open, SQ!Close, SQ!owner, SQ!Transaction
<1>0. Shape /\ Between /\ Known BY DEF Common, Base
<1>1. ASSUME NEW kind \in SQ!Kinds, NEW outcome \in Outcomes, SQ!OneTurn(kind, outcome)
      PROVE  Kept /\ SqliteInv'
  <2>1. /\ Ready /\ subject = kind /\ settled' = outcome /\ at' = "idle"
        /\ UNCHANGED <<subject, signal, lease, intx>>
        /\ library' = NoRequest /\ consumer' = [took |-> <<>>, left |-> FALSE]
        /\ wire' = IF outcome = "cleanup" THEN [wire EXCEPT !.open = @ \cup {"statement"}] ELSE wire
    BY <1>1 DEF SQ!OneTurn, SQ!Turn, Ready, SQ!NoRequest, NoRequest, SQ!Unread
  <2>2. Still(wire, intx) /\ (intx <=> wire.tx # "none")
    BY <1>0, <2>1 DEF Ready, Between, Known
  <2>3. wire' \in Wire /\ wire'.tx = wire.tx BY <1>0, <2>1 DEF Shape, Wire, Things
  <2>4. library' \in Sender /\ library'.op = "none" BY <2>1 DEF NoRequest, Sender, Ops
  <2>5. Turns BY <2>1, <2>2, <2>3, <2>4 DEF Turns
  <2>6. Shape' BY <1>0, <2>1, <2>3, <2>4 DEF Shape, Taker, Outcomes
  <2>7. SqliteInv' BY <1>0, <2>1 DEF SqliteInv, Shape, Wire
  <2> QED BY <2>5, <2>6, <2>7, TurnsKeeps
<1>2. CASE SQ!BetterQuery \/ SQ!NodeQuery \/ SQ!WasmQuery
  BY <1>1, <1>2 DEF SQ!BetterQuery, SQ!NodeQuery, SQ!WasmQuery, SQ!Ways, SQ!Kinds, Outcomes
<1>3. ASSUME NEW kind \in SQ!Kinds, SQ!Streams(kind)
      PROVE  Kept /\ SqliteInv'
  <2> DEFINE j == [op |-> "stream"]
  <2>1. /\ library' = Request("stream", FALSE) /\ Start(kind, "stepping", j)
        /\ wire' = wire /\ intx' = intx /\ signal' = signal
    BY <1>3, SqliteShares DEF SQ!Streams
  <2> HIDE DEF j
  <2>2. /\ wire' \in Wire /\ wire'.tx = wire.tx /\ signal' \in {"none", "armed", "aborted"}
        /\ "stream" \in Ops
    BY <1>0, <2>1 DEF Shape, Ops
  <2>3. /\ Kept /\ at' = "stepping" /\ library'.op = "stream" /\ Caught' /\ Still(wire, intx)
        /\ subject' = kind /\ subject = kind
    BY <2>1, <2>2, StartKeeps
  <2> QED BY <2>1, <2>3 DEF SqliteInv, Still
<1>4. CASE SQ!BetterStream \/ SQ!NodeStream \/ SQ!WasmStream
  BY <1>3, <1>4 DEF SQ!BetterStream, SQ!NodeStream, SQ!WasmStream, SQ!Kinds
<1>5. ASSUME NEW failed \in BOOLEAN, NEW fault \in BOOLEAN, SQ!Finished(subject, failed, fault),
             subject \in SQ!Kinds, at \in {"stepping", "yielded"},
             library' = library, consumer' \in Taker, consumer'.took = consumer.took,
             UNCHANGED <<subject, intx, lease>>
      PROVE  Kept /\ SqliteInv'
  <2>1. /\ wire' \in Wire /\ wire'.tx = wire.tx /\ ~wire'.ended /\ ~wire'.busy
        /\ wire'.open \subseteq {"statement"} /\ (~fault => wire'.open = {})
    BY <1>0, <1>5 DEF SQ!Finished, SqliteInv, Shape, Wire, Things
  <2>2. at' = "idle" /\ signal' = "none" /\ settled' \in Outcomes /\ (settled' # "cleanup" => ~fault)
    BY <1>5 DEF SQ!Finished, Outcomes
  <2>3. subject # "libsql" BY <1>5 DEF SQ!Kinds
  <2>4. Ends BY <1>5, <2>1, <2>2, <2>3 DEF Ends, SameTx, Still
  <2>5. Shape' BY <1>0, <1>5, <2>1, <2>2 DEF Shape, Outcomes
  <2>6. SqliteInv' BY <1>5, <2>1, <2>2 DEF SqliteInv
  <2>7. Caught' BY <1>5 DEF SqliteInv, Caught
  <2> QED BY <2>4, <2>5, <2>6, <2>7, EndsKeeps
<1>6. CASE SQ!Continue
  <2>1. /\ subject \in SQ!Kinds /\ at \in {"stepping", "yielded"} /\ SQ!Step(subject)
        /\ UNCHANGED <<subject, intx, lease>>
    BY <1>6 DEF SQ!Continue
  <2>2. CASE /\ SQ!HandRow /\ at' = "yielded" /\ wire' = [wire EXCEPT !.open = @ \cup {"statement"}]
             /\ UNCHANGED <<signal, settled>>
    <3>1. Caught /\ library.op = "stream" /\ ~wire.busy /\ ~wire.ended BY <2>1 DEF SqliteInv
    <3>2. /\ Caught' /\ library' \in Sender /\ library'.op = library.op /\ consumer' \in Taker
          /\ consumer' = [consumer EXCEPT !.took = Append(@, Len(consumer.took) + 1)]
      BY <1>0, <2>2, <3>1, SqliteShares, HandRowCaught
    <3>3. /\ wire' \in Wire /\ wire'.tx = wire.tx /\ ~wire'.busy /\ ~wire'.ended
          /\ wire'.open \subseteq {"statement"}
      BY <1>0, <2>1, <2>2, <3>1 DEF Shape, Wire, Things, SqliteInv
    <3>4. Takes BY <2>1, <2>2, <3>2, <3>3 DEF Takes, Works, SameTx, SQ!Kinds
    <3>5. Shape' BY <1>0, <2>1, <2>2, <3>2, <3>3 DEF Shape
    <3>6. SqliteInv' BY <2>2, <3>1, <3>2, <3>3 DEF SqliteInv
    <3> QED BY <3>4, <3>5, <3>6, TakesKeeps
  <2>3. ASSUME NEW failed \in BOOLEAN, NEW fault \in BOOLEAN, SQ!Finished(subject, failed, fault),
               UNCHANGED <<library, consumer>>
        PROVE  Kept /\ SqliteInv'
    BY <1>0, <1>5, <2>1, <2>3 DEF Shape
  <2> QED BY <2>1, <2>2, <2>3 DEF SQ!Step
<1>7. CASE SQ!Leave
  <2>1. /\ subject \in SQ!Kinds /\ at = "yielded" /\ consumer' = [consumer EXCEPT !.left = TRUE]
        /\ UNCHANGED <<library, subject, intx, lease>>
        /\ \E fault \in BOOLEAN : SQ!Finished(subject, FALSE, fault)
    BY <1>7 DEF SQ!Leave
  <2>2. consumer' \in Taker /\ consumer'.took = consumer.took BY <1>0, <2>1 DEF Shape, Taker
  <2> QED BY <1>5, <2>1, <2>2
<1>8. CASE SQ!ControlTurn
  <2>1. PICK kind \in SQ!Kinds,
             what \in IF intx THEN {"commit", "rollback", "savepoint", "rollbackTo"} ELSE {"begin"},
             did \in BOOLEAN, error \in BOOLEAN :
               /\ ~did => error
               /\ SQ!Turn(kind, IF error THEN "cleanup" ELSE "ok")
               /\ wire' = IF did THEN [wire EXCEPT !.tx = SQ!Transaction(what, @)] ELSE wire
               /\ intx' = IF error THEN intx ELSE what \notin {"commit", "rollback"}
    BY <1>8 DEF SQ!ControlTurn
  <2>2. /\ Ready /\ subject = kind /\ settled' = (IF error THEN "cleanup" ELSE "ok") /\ at' = "idle"
        /\ UNCHANGED <<subject, signal, lease>>
        /\ library' = NoRequest /\ consumer' = [took |-> <<>>, left |-> FALSE]
    BY <2>1 DEF SQ!Turn, Ready, SQ!NoRequest, NoRequest, SQ!Unread
  <2>3. Still(wire, intx) /\ (intx <=> wire.tx # "none")
    BY <1>0, <2>2 DEF Ready, Between, Known
  <2>4. wire.open = {} BY <2>2, <2>3 DEF SqliteInv, Still, Left, Portals
  <2>5. /\ wire' \in Wire /\ wire'.open = {} /\ wire'.busy = wire.busy /\ wire'.ended = wire.ended
        /\ did => wire'.tx = SQ!Transaction(what, wire.tx)
        /\ ~did => wire'.tx = wire.tx
    BY <1>0, <2>1, <2>4 DEF Shape, Wire
  <2>6. library' \in Sender /\ library'.op = "none" BY <2>2 DEF NoRequest, Sender, Ops
  <2>7. intx' \in BOOLEAN BY <1>0, <2>1 DEF Shape
  <2>8. settled' # "cleanup" => Still(wire', intx') /\ (intx' <=> wire'.tx # "none")
    BY <2>1, <2>2, <2>3, <2>5 DEF Still
  <2>9. wire'.tx \in {"none", "open"} \/ wire'.tx = wire.tx BY <2>1, <2>5
  <2>10. Turns BY <2>1, <2>2, <2>6, <2>8, <2>9 DEF Turns, Outcomes
  <2>11. Shape' BY <1>0, <2>2, <2>5, <2>6, <2>7 DEF Shape, Taker
  <2>12. SqliteInv' BY <2>2, <2>5 DEF SqliteInv
  <2> QED BY <2>10, <2>11, <2>12, TurnsKeeps
<1> QED BY <1>2, <1>4, <1>6, <1>7, <1>8 DEF SQ!Next, SQ!Progress
-----------------------------------------------------------------------------
(* MariaDB. *)

(* What Mariadb takes from DriverState means the same there and here. *)
LEMMA MariadbShares ==
    ASSUME NEW k, NEW l, NEW j, NEW op, NEW d, NEW r
    PROVE  /\ MA!Start(k, l, j) <=> Start(k, l, j)
           /\ MA!Request(op, d) = Request(op, d)
           /\ MA!HandRow <=> HandRow
           /\ MA!Unsent(k) <=> Unsent(k)
           /\ MA!Control(k) <=> Control(k)
           /\ MA!Answered(k, r) <=> Answered(k, r)
           /\ MA!ReleaseOrDiscard(k) <=> ReleaseOrDiscard(k)
<1>1. MA!Start(k, l, j) <=> Start(k, l, j)
  BY DEF Start, Unread,
    MA!Start, MA!Unread
<1>2. MA!Request(op, d) = Request(op, d)
  BY DEF Request, NoRequest,
    MA!Request, MA!NoRequest
<1>3. MA!HandRow <=> HandRow
  BY DEF HandRow,
    MA!HandRow
<1>4. MA!Unsent(k) <=> Unsent(k)
  BY DEF Unsent, Turn, Counted, NoRequest, Unread,
    MA!Unsent, MA!Turn, MA!Counted, MA!NoRequest, MA!Unread
<1>5. MA!Control(k) <=> Control(k)
  BY DEF Control, Start, Busy, NoRequest, Unread, Connected,
    MA!Control, MA!Start, MA!Busy, MA!NoRequest, MA!Unread, MA!Connected
<1>6. MA!Answered(k, r) <=> Answered(k, r)
  BY DEF Answered, Transaction, Portals, Settle, Counted, Free, NoJob,
    MA!Answered, MA!Transaction, MA!Portals, MA!Settle, MA!Counted, MA!Free, MA!NoJob
<1>7. MA!ReleaseOrDiscard(k) <=> ReleaseOrDiscard(k)
  BY DEF ReleaseOrDiscard, Releasable, Poisoned, Leased,
    MA!ReleaseOrDiscard, MA!Releasable, MA!Poisoned, MA!Leased
<1> QED BY <1>1, <1>2, <1>3, <1>4, <1>5, <1>6, <1>7

(* Every step of the MariaDB executor is of one of the kinds. *)
LEMMA MariadbKeeps ==
    ASSUME Common, MariadbInv, MA!Next
    PROVE  Kept /\ MariadbInv'
<1> USE DEF MA!Me, MA!Goto, MA!Raise, MA!Settle, MA!Outcome, MA!Counted, MA!Free, MA!Busy, MA!owner
<1>0. Shape /\ Between BY DEF Common, Base
<1>1. ASSUME NEW op \in Ops, NEW l \in {"requested", "reading"}, MA!Send(op, l),
             op = "stream" <=> l = "reading"
      PROVE  Kept /\ MariadbInv'
  <2>1. PICK deaf \in BOOLEAN : library' = Request(op, deaf)
    BY <1>1, MariadbShares DEF MA!Send
  <2>2. Start("mariadb", l, MA!Closure(op)) BY <1>1, MariadbShares DEF MA!Send
  <2>3. /\ wire' = [wire EXCEPT !.busy = TRUE] /\ intx' = intx
        /\ signal' \in {"none", "armed", "aborted"}
    BY <1>1 DEF MA!Send
  <2>4. wire' \in Wire /\ wire'.tx = wire.tx /\ wire'.open = wire.open /\ wire'.ended = wire.ended
    BY <1>0, <2>3 DEF Shape, Wire
  <2>5. /\ Kept /\ subject' = "mariadb" /\ at' = l /\ job' = MA!Closure(op) /\ library'.op = op
        /\ Caught' /\ ~wire.ended
    BY <1>1, <2>1, <2>2, <2>3, <2>4, StartKeeps DEF Still
  <2>6. signal' # "aborted" BY <1>1 DEF MA!Send
  <2> QED BY <1>1, <2>2, <2>4, <2>5, <2>6 DEF MariadbInv, MariadbJob, MA!Closure, Start
<1>2. CASE MA!Query \/ MA!Stream BY <1>1, <1>2 DEF MA!Query, MA!Stream, Ops
<1>3. CASE MA!Unsendable
  BY <1>3, MariadbShares, UnsentKeeps DEF MA!Unsendable, MariadbInv
<1>4. CASE MA!ControlSent
  BY <1>4, MariadbShares, ControlKeeps DEF MA!ControlSent, MariadbInv
<1>5. CASE MA!Release
  BY <1>5, MariadbShares, ReleaseKeeps DEF MA!Release, MariadbInv
<1>6. CASE MA!Aborted
  <2>1. Works /\ Shape' /\ consumer' = consumer
    BY <1>0, <1>6 DEF MA!Aborted, MA!Cut, MariadbInv, Works, SameTx, Shape, Wire, Sender
  <2>2. MariadbInv'
    BY <1>0, <1>6 DEF MA!Aborted, MA!Cut, MariadbInv, MariadbJob, Shape, Wire, Caught
  <2> QED BY <2>1, <2>2, WorksKeeps
<1>7. CASE MA!Requested
  <2>1. Ends /\ Shape' /\ library' = library
    BY <1>0, <1>7 DEF MA!Requested, MariadbInv, MariadbJob, Ends, Outcomes, SameTx, Still,
      Shape, Wire
  <2>2. MariadbInv' BY <1>0, <1>7 DEF MA!Requested, MariadbInv, Shape, Wire
  <2>3. library.op # "stream" BY <1>7 DEF MA!Requested, MariadbInv
  <2> QED BY <2>1, <2>2, <2>3, EndsKeeps
<1>8. ASSUME NEW j, NEW exhausted \in BOOLEAN, NEW fault \in BOOLEAN, MA!Cleanup(j, exhausted, fault),
             at \in {"reading", "yielded"}, subject = "mariadb", j \in MariadbJob, j.dirty = job.dirty,
             library' = library, consumer' \in Taker, consumer'.took = consumer.took,
             UNCHANGED <<subject, intx, lease>>
      PROVE  Kept /\ MariadbInv'
  <2>1. /\ wire' \in Wire /\ wire'.tx = wire.tx /\ wire'.ended = wire.ended /\ wire'.open = wire.open
        /\ ~fault => ~wire'.busy
    BY <1>0, <1>8 DEF MA!Cleanup, Shape, Wire
  <2>2. settled' \in Outcomes /\ (settled' # "cleanup" => ~j.dirty /\ ~fault)
    BY <1>8 DEF MA!Cleanup, Outcomes, MariadbJob
  <2>3. at' = "idle" /\ signal' = "none" BY <1>8 DEF MA!Cleanup
  <2>4. Ends BY <1>8, <2>1, <2>2, <2>3 DEF Ends, SameTx, Still, MariadbInv
  <2>5. Shape' BY <1>0, <1>8, <2>1, <2>2, <2>3 DEF Shape, Outcomes
  <2>6. MariadbInv' BY <1>8, <2>1, <2>3 DEF MariadbInv
  <2>7. Caught' BY <1>8 DEF MariadbInv, Caught
  <2> QED BY <2>4, <2>5, <2>6, <2>7, EndsKeeps
<1>9. CASE MA!Read
  <2>1. at = "reading" /\ subject = "mariadb" /\ UNCHANGED <<subject, intx, lease>>
        /\ job \in MariadbJob /\ Caught
    BY <1>9 DEF MA!Read, MariadbInv
  <2>2. CASE /\ ~job.dirty /\ MA!HandRow /\ at' = "yielded" /\ job' = job
             /\ UNCHANGED <<wire, signal, settled>>
    <3>1. /\ Caught' /\ library' \in Sender /\ library'.op = library.op /\ consumer' \in Taker
          /\ consumer' = [consumer EXCEPT !.took = Append(@, Len(consumer.took) + 1)]
      BY <1>0, <2>1, <2>2, MariadbShares, HandRowCaught
    <3>2. Takes /\ Shape' BY <1>0, <2>1, <2>2, <3>1 DEF Takes, Works, SameTx, Shape
    <3>3. MariadbInv' BY <2>1, <2>2, <3>1 DEF MariadbInv
    <3> QED BY <3>2, <3>3, TakesKeeps
  <2>3. CASE MA!Cleanup(job, TRUE, FALSE) /\ UNCHANGED <<library, consumer>>
    BY <1>0, <1>8, <2>1, <2>3 DEF Shape
  <2>4. ASSUME NEW exhausted \in BOOLEAN, NEW fault \in BOOLEAN,
               MA!Cleanup([job EXCEPT !.failed = TRUE], exhausted, fault),
               UNCHANGED <<library, consumer>>
        PROVE  Kept /\ MariadbInv'
    <3> DEFINE j == [job EXCEPT !.failed = TRUE]
    <3>1. j \in MariadbJob /\ j.dirty = job.dirty BY <2>1 DEF MariadbJob
    <3> HIDE DEF j
    <3> QED BY <1>0, <1>8, <2>1, <2>4, <3>1 DEF Shape, j
  <2> QED BY <1>9, <2>2, <2>3, <2>4 DEF MA!Read
<1>10. CASE MA!Continue
  <2>1. /\ at = "yielded" /\ subject = "mariadb" /\ job \in MariadbJob
        /\ UNCHANGED <<subject, intx, lease, library, consumer>>
    BY <1>10 DEF MA!Continue, MariadbInv
  <2>2. CASE signal = "aborted"
    <3> DEFINE j == [job EXCEPT !.failed = TRUE]
    <3>1. j \in MariadbJob /\ j.dirty = job.dirty BY <2>1 DEF MariadbJob
    <3>2. MA!Cleanup(j, FALSE, FALSE) BY <1>10, <2>2 DEF MA!Continue
    <3> HIDE DEF j
    <3> QED BY <1>0, <1>8, <2>1, <3>1, <3>2 DEF Shape
  <2>3. CASE signal # "aborted"
    <3>1. Works /\ Shape' BY <1>0, <1>10, <2>3 DEF MA!Continue, Works, SameTx, Shape
    <3>2. MariadbInv' BY <1>10, <2>3 DEF MA!Continue, MariadbInv, Caught
    <3> QED BY <2>1, <3>1, <3>2, WorksKeeps
  <2> QED BY <2>2, <2>3
<1>11. CASE MA!Leave
  <2>1. /\ at = "yielded" /\ subject = "mariadb" /\ job \in MariadbJob
        /\ UNCHANGED <<subject, intx, lease, library>>
        /\ consumer' = [consumer EXCEPT !.left = TRUE]
    BY <1>11 DEF MA!Leave, MariadbInv
  <2>2. consumer' \in Taker /\ consumer'.took = consumer.took BY <1>0, <2>1 DEF Shape, Taker
  <2> QED BY <1>8, <1>11, <2>1, <2>2 DEF MA!Leave
<1>12. CASE MA!ControlAnswered
  BY <1>12, MariadbShares, AnsweredKeeps DEF MA!ControlAnswered, MariadbInv
<1> QED
  BY <1>2, <1>3, <1>4, <1>5, <1>6, <1>7, <1>9, <1>10, <1>11, <1>12 DEF MA!Next, MA!Progress
-----------------------------------------------------------------------------
(* MySQL. *)

(* What Mysql2 takes from DriverState means the same there and here. *)
LEMMA Mysql2Shares ==
    ASSUME NEW k, NEW l, NEW j, NEW op, NEW d, NEW r
    PROVE  /\ MY!Start(k, l, j) <=> Start(k, l, j)
           /\ MY!Request(op, d) = Request(op, d)
           /\ MY!HandRow <=> HandRow
           /\ MY!Unsent(k) <=> Unsent(k)
           /\ MY!Control(k) <=> Control(k)
           /\ MY!Answered(k, r) <=> Answered(k, r)
           /\ MY!ReleaseOrDiscard(k) <=> ReleaseOrDiscard(k)
<1>1. MY!Start(k, l, j) <=> Start(k, l, j)
  BY DEF Start, Unread,
    MY!Start, MY!Unread
<1>2. MY!Request(op, d) = Request(op, d)
  BY DEF Request, NoRequest,
    MY!Request, MY!NoRequest
<1>3. MY!HandRow <=> HandRow
  BY DEF HandRow,
    MY!HandRow
<1>4. MY!Unsent(k) <=> Unsent(k)
  BY DEF Unsent, Turn, Counted, NoRequest, Unread,
    MY!Unsent, MY!Turn, MY!Counted, MY!NoRequest, MY!Unread
<1>5. MY!Control(k) <=> Control(k)
  BY DEF Control, Start, Busy, NoRequest, Unread, Connected,
    MY!Control, MY!Start, MY!Busy, MY!NoRequest, MY!Unread, MY!Connected
<1>6. MY!Answered(k, r) <=> Answered(k, r)
  BY DEF Answered, Transaction, Portals, Settle, Counted, Free, NoJob,
    MY!Answered, MY!Transaction, MY!Portals, MY!Settle, MY!Counted, MY!Free, MY!NoJob
<1>7. MY!ReleaseOrDiscard(k) <=> ReleaseOrDiscard(k)
  BY DEF ReleaseOrDiscard, Releasable, Poisoned, Leased,
    MY!ReleaseOrDiscard, MY!Releasable, MY!Poisoned, MY!Leased
<1> QED BY <1>1, <1>2, <1>3, <1>4, <1>5, <1>6, <1>7

(* Every step of the mysql2 executor is of one of the kinds. *)
LEMMA Mysql2Keeps ==
    ASSUME Common, Mysql2Inv, MY!Next
    PROVE  Kept /\ Mysql2Inv'
<1> USE DEF MY!Me, MY!Goto, MY!Raise, MY!Settle, MY!Outcome, MY!Counted, MY!Free, MY!Busy, MY!Open,
      MY!Close, MY!owner
<1>0. Shape /\ Between /\ Known BY DEF Common, Base
<1>1. ASSUME NEW op \in Ops, NEW l \in {"requested", "preparing", "reading"}, MY!Send(op, l),
             op = "stream" <=> l = "reading"
      PROVE  Kept /\ Mysql2Inv'
  <2>1. PICK deaf \in BOOLEAN : library' = Request(op, deaf)
    BY <1>1, Mysql2Shares DEF MY!Send
  <2>2. Start("mysql2", l, MY!Closure(op)) BY <1>1, Mysql2Shares DEF MY!Send
  <2>3. /\ wire' = [wire EXCEPT !.busy = TRUE] /\ intx' = intx
        /\ signal' \in {"none", "armed", "aborted"}
    BY <1>1 DEF MY!Send
  <2>4. wire' \in Wire /\ wire'.tx = wire.tx /\ wire'.open = wire.open /\ wire'.ended = wire.ended
    BY <1>0, <2>3 DEF Shape, Wire
  <2>5. /\ Kept /\ subject = "mysql2" /\ at' = l /\ job' = MY!Closure(op) /\ library'.op = op
        /\ Caught' /\ Still(wire, intx)
    BY <1>1, <2>1, <2>2, <2>3, <2>4, StartKeeps
  <2>6. ~wire'.ended /\ wire'.open = {} BY <2>4, <2>5 DEF Still, Left, Portals, Mysql2Inv
  <2>7. job' \in Mysql2Job BY <2>5, BulkConstants DEF Mysql2Job, MY!Closure
  <2> QED BY <1>1, <2>5, <2>6, <2>7 DEF Mysql2Inv
<1>2. CASE MY!Query \/ MY!Bulk \/ MY!Stream BY <1>1, <1>2 DEF MY!Query, MY!Bulk, MY!Stream, Ops
<1>3. CASE MY!Unsendable
  BY <1>3, Mysql2Shares, UnsentKeeps DEF MY!Unsendable, Mysql2Inv
<1>4. CASE MY!ControlSent
  <2>1. wire'.open = {}
    BY <1>4, Mysql2Shares, ControlKeeps DEF MY!ControlSent, Mysql2Inv, Kept, Common,
    Base, Controlled, Left, Portals
  <2> QED BY <1>4, <2>1, Mysql2Shares, ControlKeeps DEF MY!ControlSent, Mysql2Inv
<1>5. CASE MY!Release
  BY <1>5, Mysql2Shares, ReleaseKeeps DEF MY!Release, Mysql2Inv
<1>6. CASE MY!SetupFailed
  <2>1. /\ Ready /\ settled' = "cleanup" /\ at' = "idle" /\ wire' = [wire EXCEPT !.ended = TRUE]
        /\ UNCHANGED <<subject, signal, lease, intx>>
        /\ library' = NoRequest /\ consumer' = [took |-> <<>>, left |-> FALSE]
    BY <1>6 DEF MY!SetupFailed, MY!Turn, Ready, MY!NoRequest, NoRequest, MY!Unread
  <2>2. library' \in Sender /\ library'.op = "none" BY <2>1 DEF NoRequest, Sender, Ops
  <2>3. wire' \in Wire /\ wire'.tx = wire.tx /\ wire'.open = wire.open
    BY <1>0, <2>1 DEF Shape, Wire
  <2>4. Turns BY <2>1, <2>2, <2>3 DEF Turns, Outcomes
  <2>5. Shape' BY <1>0, <2>1, <2>2, <2>3 DEF Shape, Taker
  <2>6. Mysql2Inv' BY <2>1, <2>3 DEF Mysql2Inv
  <2> QED BY <2>4, <2>5, <2>6, TurnsKeeps
<1>7. CASE MY!Aborted
  <2>1. /\ subject = "mysql2" /\ at \in MY!Given /\ job' = [job EXCEPT !.dirty = TRUE] /\ at' = at
        /\ wire' = [wire EXCEPT !.ended = ~library.deaf]
        /\ UNCHANGED <<library, consumer, settled, subject, intx, lease>> /\ signal' = "aborted"
    BY <1>7 DEF MY!Aborted, MY!Cut
  <2>2. wire' \in Wire /\ wire'.tx = wire.tx /\ wire'.open = wire.open
    BY <1>0, <2>1 DEF Shape, Wire, Sender
  <2>3. Works BY <2>1, <2>2 DEF Works, SameTx, MY!Given
  <2>4. Shape' BY <1>0, <2>1, <2>2 DEF Shape
  <2>5. job' \in Mysql2Job /\ job'.dirty /\ job'.failed = job.failed
    BY <2>1 DEF Mysql2Inv, Mysql2Job, MY!Given
  <2>6. Mysql2Inv' BY <2>1, <2>2, <2>5 DEF Mysql2Inv, MY!Given, Caught
  <2> QED BY <2>1, <2>3, <2>4, <2>6, WorksKeeps
(* The end of a call, and the next turn of one. *)
<1>8. ASSUME NEW outcome \in Outcomes, MY!Settle(outcome), subject = "mysql2", at \notin {"idle", "control"},
             wire' \in Wire, wire'.tx = wire.tx, ~wire'.busy, wire'.ended = wire.ended,
             wire'.open \subseteq wire.open,
             outcome # "cleanup" => ~wire.ended /\ wire'.open = {},
             library' \in Sender, library'.op = library.op,
             consumer' \in Taker, consumer'.took = consumer.took,
             outcome = "ok" /\ library.op = "stream" /\ ~consumer'.left => Caught',
             UNCHANGED <<subject, intx, lease>>
      PROVE  Kept /\ Mysql2Inv'
  <2>1. at' = "idle" /\ signal' = "none" /\ settled' = outcome BY <1>8
  <2>2. Ends BY <1>8, <2>1 DEF Ends, SameTx, Still
  <2>3. Shape' BY <1>0, <1>8, <2>1 DEF Shape, Outcomes
  <2>4. Mysql2Inv' BY <1>8, <2>1 DEF Mysql2Inv
  <2> QED BY <1>8, <2>1, <2>2, <2>3, <2>4, EndsKeeps
<1>9. ASSUME NEW l, NEW j \in Mysql2Job, MY!Goto(l, j), subject = "mysql2", at \notin {"idle", "control"},
             l \in {"executing", "unpreparing", "reading", "draining"},
             wire' \in Wire, wire'.tx = wire.tx, wire'.ended = wire.ended, wire'.open \subseteq {"statement"},
             wire.ended => j.dirty,
             library' \in Sender, consumer' \in Taker, consumer'.took = consumer.took,
             l \in {"reading", "draining"} => wire'.open = {},
             l \in {"executing", "unpreparing"} => library'.op # "stream",
             l = "unpreparing" => ~j.dirty, l = "reading" => Caught', l = "draining" => j.failed \/ consumer'.left,
             UNCHANGED <<subject, intx, lease>>
      PROVE  Kept /\ Mysql2Inv'
  <2>1. at' = l /\ job' = j /\ UNCHANGED <<signal, settled>> BY <1>9
  <2>2. Works BY <1>9, <2>1 DEF Works, SameTx
  <2>3. Shape' BY <1>0, <1>9, <2>1 DEF Shape
  <2>4. Mysql2Inv' BY <1>9, <2>1 DEF Mysql2Inv
  <2> QED BY <1>9, <2>2, <2>3, <2>4, WorksKeeps
<1>10. CASE MY!Requested
  <2>1. /\ subject = "mysql2" /\ at = "requested" /\ wire' = [wire EXCEPT !.busy = FALSE]
        /\ UNCHANGED <<library, consumer, subject, intx, lease>>
    BY <1>10 DEF MY!Requested
  <2>2. PICK error \in BOOLEAN : MY!Settle(MY!Outcome([job EXCEPT !.failed = error]))
    BY <1>10 DEF MY!Requested
  <2>3. /\ job \in Mysql2Job /\ wire.open = {} /\ (wire.ended => job.dirty) /\ library.op # "stream"
    BY <2>1 DEF Mysql2Inv
  <2>4. /\ wire' \in Wire /\ wire'.tx = wire.tx /\ ~wire'.busy /\ wire'.ended = wire.ended /\ wire'.open = {}
    BY <1>0, <2>1, <2>3 DEF Shape, Wire
  <2> DEFINE outcome == MY!Outcome([job EXCEPT !.failed = error])
  <2>5. outcome \in Outcomes /\ (outcome # "cleanup" => ~job.dirty)
    BY <2>3 DEF Outcomes, Mysql2Job
  <2>6. MY!Settle(outcome) BY <2>2
  <2> HIDE DEF outcome
  <2> QED BY <1>0, <1>8, <2>1, <2>3, <2>4, <2>5, <2>6 DEF Shape
<1>11. ASSUME NEW j \in Mysql2Job, MY!AfterRow(j), subject = "mysql2", at \in {"preparing", "executing"},
              wire.ended => j.dirty,
              UNCHANGED <<library, consumer, subject, intx, lease>>
       PROVE  Kept /\ Mysql2Inv'
  <2>1. library.op # "stream" /\ wire.open \subseteq {"statement"} BY <1>11 DEF Mysql2Inv
  <2>2. CASE j.dirty
    <3>1. MY!Settle("cleanup") /\ wire' = [wire EXCEPT !.busy = FALSE]
      BY <1>11, <2>2 DEF MY!AfterRow, MY!ClosePrepared
    <3>2. wire' \in Wire /\ wire'.tx = wire.tx /\ ~wire'.busy /\ wire'.ended = wire.ended /\ wire'.open = wire.open
      BY <1>0, <3>1 DEF Shape, Wire
    <3>3. "cleanup" \in Outcomes BY DEF Outcomes
    <3> QED BY <1>0, <1>8, <1>11, <2>1, <3>1, <3>2, <3>3 DEF Shape
  <2>3. CASE ~j.dirty /\ (j.failed \/ j.rows = 0)
    <3>1. MY!Goto("unpreparing", j) /\ wire' = [wire EXCEPT !.busy = TRUE]
      BY <1>11, <2>3 DEF MY!AfterRow, MY!ClosePrepared
    <3>2. wire' \in Wire /\ wire'.tx = wire.tx /\ wire'.ended = wire.ended /\ wire'.open = wire.open
      BY <1>0, <3>1 DEF Shape, Wire
    <3> QED BY <1>0, <1>9, <1>11, <2>1, <2>3, <3>1, <3>2 DEF Shape
  <2>4. CASE ~j.dirty /\ ~(j.failed \/ j.rows = 0)
    <3> DEFINE i == [j EXCEPT !.rows = @ - 1]
    <3>1. MY!Goto("executing", i)
          /\ wire' = [[wire EXCEPT !.busy = TRUE] EXCEPT !.open = @ \cup {"statement"}]
      BY <1>11, <2>4 DEF MY!AfterRow
    <3>2. i \in Mysql2Job /\ i.dirty = j.dirty BY <1>11 DEF Mysql2Job
    <3> HIDE DEF i
    <3>3. wire' \in Wire /\ wire'.tx = wire.tx /\ wire'.ended = wire.ended /\ wire'.open \subseteq {"statement"}
      BY <1>0, <2>1, <3>1 DEF Shape, Wire, Things
    <3> QED BY <1>0, <1>9, <1>11, <2>1, <3>1, <3>2, <3>3 DEF Shape
  <2> QED BY <1>11, <2>2, <2>3, <2>4 DEF Mysql2Job
<1>12. CASE MY!Prepared
  <2>1. /\ subject = "mysql2" /\ at = "preparing" /\ UNCHANGED <<library, consumer, subject, intx, lease>>
        /\ job \in Mysql2Job /\ wire.open = {} /\ (wire.ended => job.dirty) /\ library.op # "stream"
    BY <1>12 DEF MY!Prepared, Mysql2Inv
  <2>2. CASE MY!AfterRow(job) BY <1>11, <2>1, <2>2
  <2>3. CASE MY!Settle(MY!Outcome([job EXCEPT !.failed = TRUE])) /\ wire' = [wire EXCEPT !.busy = FALSE]
    <3> DEFINE outcome == MY!Outcome([job EXCEPT !.failed = TRUE])
    <3>1. outcome \in Outcomes /\ (outcome # "cleanup" => ~job.dirty)
      BY <2>1 DEF Outcomes, Mysql2Job
    <3>2. MY!Settle(outcome) BY <2>3
    <3> HIDE DEF outcome
    <3>3. wire' \in Wire /\ wire'.tx = wire.tx /\ ~wire'.busy /\ wire'.ended = wire.ended /\ wire'.open = {}
      BY <1>0, <2>1, <2>3 DEF Shape, Wire
    <3> QED BY <1>0, <1>8, <2>1, <3>1, <3>2, <3>3 DEF Shape
  <2> QED BY <1>12, <2>2, <2>3 DEF MY!Prepared
<1>13. CASE MY!Executed
  <2>1. /\ subject = "mysql2" /\ at = "executing" /\ UNCHANGED <<library, consumer, subject, intx, lease>>
        /\ job \in Mysql2Job /\ (wire.ended => job.dirty)
    BY <1>13 DEF MY!Executed, Mysql2Inv
  <2>2. PICK error \in BOOLEAN : MY!AfterRow([job EXCEPT !.failed = error])
    BY <1>13 DEF MY!Executed
  <2> DEFINE j == [job EXCEPT !.failed = error]
  <2>3. j \in Mysql2Job /\ j.dirty = job.dirty BY <2>1 DEF Mysql2Job
  <2> HIDE DEF j
  <2> QED BY <1>11, <2>1, <2>2, <2>3 DEF j
<1>14. CASE MY!Unprepared
  <2>1. /\ subject = "mysql2" /\ at = "unpreparing" /\ UNCHANGED <<library, consumer, subject, intx, lease>>
        /\ job \in Mysql2Job /\ ~wire.ended /\ library.op # "stream" /\ wire.open \subseteq {"statement"}
    BY <1>14 DEF MY!Unprepared, Mysql2Inv
  <2>2. PICK error \in BOOLEAN :
          /\ MY!Settle(MY!Outcome([job EXCEPT !.dirty = error]))
          /\ wire' = IF error THEN MY!Free ELSE MY!Close(MY!Free, "statement")
    BY <1>14 DEF MY!Unprepared
  <2> DEFINE outcome == MY!Outcome([job EXCEPT !.dirty = error])
  <2>3. outcome \in Outcomes /\ (outcome # "cleanup" => ~error) BY <2>1 DEF Outcomes, Mysql2Job
  <2>4. MY!Settle(outcome) BY <2>2
  <2> HIDE DEF outcome
  <2>5. /\ wire' \in Wire /\ wire'.tx = wire.tx /\ ~wire'.busy /\ wire'.ended = wire.ended
        /\ wire'.open \subseteq wire.open /\ (~error => wire'.open = {})
    BY <1>0, <2>1, <2>2 DEF Shape, Wire
  <2> QED BY <1>0, <1>8, <2>1, <2>3, <2>4, <2>5 DEF Shape
<1>15. CASE MY!Pending
  <2>1. /\ subject = "mysql2" /\ at \in {"reading", "yielded", "draining"} /\ at' = at
        /\ job' = [job EXCEPT !.failed = TRUE]
        /\ UNCHANGED <<library, consumer, wire, signal, settled, subject, intx, lease>>
    BY <1>15 DEF MY!Pending
  <2>2. job' \in Mysql2Job /\ job'.dirty = job.dirty /\ job'.failed
    BY <2>1 DEF Mysql2Inv, Mysql2Job
  <2>3. Works /\ Shape' BY <1>0, <2>1 DEF Works, SameTx, Shape
  <2>4. Mysql2Inv' BY <2>1, <2>2 DEF Mysql2Inv, Caught
  <2> QED BY <2>1, <2>3, <2>4, WorksKeeps
(* The three places where a stream ends. *)
<1>16. ASSUME NEW j \in Mysql2Job, MY!Ended(j), subject = "mysql2", at \in {"reading", "yielded", "draining"},
              wire.ended => j.dirty,
              library' \in Sender, library'.op = library.op, consumer' \in Taker, consumer'.took = consumer.took,
              ~j.failed /\ ~j.dirty /\ ~consumer'.left => Caught',
              UNCHANGED <<subject, intx, lease>>
       PROVE  Kept /\ Mysql2Inv'
  <2> DEFINE outcome == MY!Outcome(j)
  <2>1. outcome \in Outcomes /\ (outcome # "cleanup" => ~j.dirty) /\ (outcome = "ok" => ~j.failed)
    BY <1>16 DEF Outcomes, Mysql2Job
  <2>2. MY!Settle(outcome) /\ wire' = [wire EXCEPT !.busy = FALSE] BY <1>16 DEF MY!Ended
  <2> HIDE DEF outcome
  <2>3. wire.open = {} BY <1>16 DEF Mysql2Inv
  <2>4. wire' \in Wire /\ wire'.tx = wire.tx /\ ~wire'.busy /\ wire'.ended = wire.ended /\ wire'.open = {}
    BY <1>0, <2>2, <2>3 DEF Shape, Wire
  <2> QED BY <1>8, <1>16, <2>1, <2>2, <2>4
<1>17. ASSUME NEW j \in Mysql2Job, MY!Finally(j), subject = "mysql2", at \in {"reading", "yielded"},
              wire.ended => j.dirty, j.failed \/ consumer'.left,
              library' = library, consumer' \in Taker, consumer'.took = consumer.took,
              UNCHANGED <<subject, intx, lease>>
       PROVE  Kept /\ Mysql2Inv'
  <2>1. CASE j.dirty BY <1>0, <1>16, <1>17, <2>1 DEF MY!Finally, Shape
  <2>2. CASE ~j.dirty
    <3>1. MY!Goto("draining", j) /\ wire' = wire BY <1>17, <2>2 DEF MY!Finally
    <3>2. wire.open = {} BY <1>17 DEF Mysql2Inv
    <3> QED BY <1>0, <1>9, <1>17, <3>1, <3>2 DEF Shape
  <2> QED BY <2>1, <2>2
<1>18. CASE MY!Fetched
  <2>1. /\ subject = "mysql2" /\ at = "reading" /\ UNCHANGED <<subject, intx, lease>>
        /\ job \in Mysql2Job /\ Caught /\ (wire.ended => job.dirty) /\ wire.open = {}
    BY <1>18 DEF MY!Fetched, Mysql2Inv
  <2>2. CASE /\ MY!HandRow /\ at' = "yielded" /\ job' = job /\ UNCHANGED <<wire, signal, settled>>
    <3>1. /\ Caught' /\ library' \in Sender /\ library'.op = library.op /\ consumer' \in Taker
          /\ consumer' = [consumer EXCEPT !.took = Append(@, Len(consumer.took) + 1)]
      BY <1>0, <2>1, <2>2, Mysql2Shares, HandRowCaught
    <3>2. Takes BY <2>1, <2>2, <3>1 DEF Takes, Works, SameTx
    <3>3. Shape' BY <1>0, <2>1, <2>2, <3>1 DEF Shape
    <3>4. Mysql2Inv' BY <2>1, <2>2, <3>1 DEF Mysql2Inv
    <3> QED BY <3>2, <3>3, <3>4, TakesKeeps
  <2> DEFINE j == [job EXCEPT !.failed = TRUE]
  <2>3. j \in Mysql2Job /\ j.dirty = job.dirty /\ j.failed BY <2>1 DEF Mysql2Job
  <2> HIDE DEF j
  <2>4. CASE MY!Finally(j) /\ UNCHANGED <<library, consumer>>
    BY <1>0, <1>17, <2>1, <2>3, <2>4 DEF Shape
  <2>5. CASE MY!Ended(job) /\ UNCHANGED <<library, consumer>>
    BY <1>0, <1>16, <2>1, <2>5 DEF Shape, Caught
  <2>6. CASE MY!Ended(j) /\ UNCHANGED <<library, consumer>>
    BY <1>0, <1>16, <2>1, <2>3, <2>6 DEF Shape
  <2> QED BY <1>18, <2>2, <2>4, <2>5, <2>6 DEF MY!Fetched, j
<1>19. CASE MY!Continue
  <2>1. /\ subject = "mysql2" /\ at = "yielded" /\ UNCHANGED <<library, consumer, subject, intx, lease>>
        /\ job \in Mysql2Job /\ Caught /\ (wire.ended => job.dirty) /\ wire.open = {}
    BY <1>19 DEF MY!Continue, Mysql2Inv
  <2>2. CASE MY!Ended(job) BY <1>0, <1>16, <2>1, <2>2 DEF Shape, Caught
  <2>3. CASE MY!Goto("reading", job) /\ wire' = wire
    BY <1>0, <1>9, <2>1, <2>3 DEF Shape, Caught
  <2> QED BY <1>19, <2>2, <2>3 DEF MY!Continue
<1>20. CASE MY!Leave
  <2>1. /\ subject = "mysql2" /\ at = "yielded" /\ MY!Finally(job) /\ consumer' = [consumer EXCEPT !.left = TRUE]
        /\ UNCHANGED <<library, subject, intx, lease>>
        /\ job \in Mysql2Job /\ (wire.ended => job.dirty)
    BY <1>20 DEF MY!Leave, Mysql2Inv
  <2>2. consumer' \in Taker /\ consumer'.took = consumer.took /\ consumer'.left
    BY <1>0, <2>1 DEF Shape, Taker
  <2> QED BY <1>17, <2>1, <2>2
<1>21. CASE MY!Drain
  <2>1. /\ subject = "mysql2" /\ at = "draining" /\ UNCHANGED <<consumer, subject, intx, lease>>
        /\ job \in Mysql2Job /\ (wire.ended => job.dirty) /\ (job.failed \/ consumer.left) /\ wire.open = {}
    BY <1>21 DEF MY!Drain, Mysql2Inv
  <2>2. CASE library' = [library EXCEPT !.sent = @ + 1] /\ MY!Goto(at, job) /\ wire' = wire
    <3>1. library' \in Sender BY <1>0, <2>2 DEF Shape, Sender
    <3> QED BY <1>0, <1>9, <2>1, <2>2, <3>1 DEF Shape
  <2>3. CASE MY!Ended(job) /\ library' = library BY <1>0, <1>16, <2>1, <2>3 DEF Shape
  <2>4. CASE MY!Ended([job EXCEPT !.dirty = TRUE]) /\ library' = library
    <3> DEFINE j == [job EXCEPT !.dirty = TRUE]
    <3>1. j \in Mysql2Job /\ j.dirty BY <2>1 DEF Mysql2Job
    <3> HIDE DEF j
    <3> QED BY <1>0, <1>16, <2>1, <2>4, <3>1 DEF Shape, j
  <2> QED BY <1>21, <2>2, <2>3, <2>4 DEF MY!Drain
<1>22. CASE MY!ControlAnswered
  BY <1>22, Mysql2Shares, AnsweredKeeps DEF MY!ControlAnswered, Mysql2Inv
<1> QED
  BY <1>2, <1>3, <1>4, <1>5, <1>6, <1>7, <1>10, <1>12, <1>13, <1>14, <1>15, <1>18, <1>19,
    <1>20, <1>21, <1>22
  DEF MY!Next, MY!Progress
-----------------------------------------------------------------------------
(* The executors without cancellation. *)

(* What Requests takes from DriverState means the same there and here. *)
LEMMA RequestsShares ==
    ASSUME NEW k, NEW l, NEW j, NEW op, NEW d, NEW r
    PROVE  /\ RQ!Start(k, l, j) <=> Start(k, l, j)
           /\ RQ!Request(op, d) = Request(op, d)
           /\ RQ!Unsent(k) <=> Unsent(k)
           /\ RQ!Control(k) <=> Control(k)
           /\ RQ!Answered(k, r) <=> Answered(k, r)
<1>1. RQ!Start(k, l, j) <=> Start(k, l, j)
  BY DEF Start, Unread,
    RQ!Start, RQ!Unread
<1>2. RQ!Request(op, d) = Request(op, d)
  BY DEF Request, NoRequest,
    RQ!Request, RQ!NoRequest
<1>3. RQ!Unsent(k) <=> Unsent(k)
  BY DEF Unsent, Turn, Counted, NoRequest, Unread,
    RQ!Unsent, RQ!Turn, RQ!Counted, RQ!NoRequest, RQ!Unread
<1>4. RQ!Control(k) <=> Control(k)
  BY DEF Control, Start, Busy, NoRequest, Unread, Connected,
    RQ!Control, RQ!Start, RQ!Busy, RQ!NoRequest, RQ!Unread, RQ!Connected
<1>5. RQ!Answered(k, r) <=> Answered(k, r)
  BY DEF Answered, Transaction, Portals, Settle, Counted, Free, NoJob,
    RQ!Answered, RQ!Transaction, RQ!Portals, RQ!Settle, RQ!Counted, RQ!Free, RQ!NoJob
<1> QED BY <1>1, <1>2, <1>3, <1>4, <1>5

(* Every step of the executors without cancellation is of one of the       *)
(* kinds.                                                                  *)
LEMMA RequestsKeeps ==
    ASSUME Common, RequestsInv, RQ!Next
    PROVE  Kept /\ RequestsInv'
<1> USE DEF RQ!Goto, RQ!Settle, RQ!Outcome, RQ!Counted, RQ!Free, RQ!Busy, RQ!Open, RQ!Close, RQ!owner,
      RQ!Spoil, RQ!Spoiled
<1>0. Shape /\ Between /\ Known /\ Controlled BY DEF Common, Base
<1>1. ASSUME NEW kind \in RQ!Kinds, NEW op \in Ops, NEW n \in Int, NEW l \in {"requested", "reading"},
             RQ!Send(kind, op, n, l), op = "stream" <=> l = "reading"
      PROVE  Kept /\ RequestsInv'
  <2>1. /\ library' = Request(op, FALSE) /\ Start(kind, l, RQ!Closure(op, n))
        /\ wire' = [wire EXCEPT !.busy = TRUE]
        /\ UNCHANGED <<kept, signal, intx>>
    BY <1>1, RequestsShares DEF RQ!Send
  <2>2. /\ wire' \in Wire /\ wire'.tx = wire.tx /\ wire'.open = wire.open /\ wire'.ended = wire.ended
        /\ signal' \in {"none", "armed", "aborted"} /\ intx' = intx
    BY <1>0, <2>1 DEF Shape, Wire
  <2>3. /\ Kept /\ subject = kind /\ subject' = kind /\ at' = l /\ job' = RQ!Closure(op, n)
        /\ library'.op = op /\ library'.sent = 0
        /\ consumer' = [took |-> <<>>, left |-> FALSE] /\ Still(wire, intx)
        /\ settled # "cleanup" /\ at = "idle"
    BY <1>1, <2>1, <2>2, StartKeeps
  <2>4. ~wire'.ended /\ wire'.open = {} BY <2>2, <2>3 DEF Still, Left, Portals, RequestsInv
  <2>5. job' \in RequestsJob /\ job'.queue = <<>> /\ ~job'.dirty
    BY <2>3 DEF RequestsJob, RQ!Closure
  <2>6. Queued(job.queue)' /\ Len(consumer'.took) + Len(job'.queue) = 0
    BY <2>3, <2>5 DEF Queued
  <2> QED BY <1>1, <2>1, <2>3, <2>4, <2>5, <2>6 DEF RequestsInv
<1>2. CASE RQ!Query \/ RQ!PostgresJsBulk \/ RQ!PgliteBulk \/ RQ!BunBulk \/ RQ!NeonBulk \/ RQ!LibsqlBulk
           \/ RQ!D1Bulk \/ RQ!Stream
  BY <1>1, <1>2, BulkConstants DEF RQ!Query, RQ!PostgresJsBulk, RQ!PgliteBulk, RQ!BunBulk,
    RQ!NeonBulk,
    RQ!LibsqlBulk, RQ!D1Bulk, RQ!Stream, RQ!Kinds, Ops
<1>3. CASE RQ!Unsendable
  BY <1>3, RequestsShares, UnsentKeeps DEF RQ!Unsendable, RequestsInv
<1>4. ASSUME NEW kind \in RQ!Kinds, RQ!Control(kind)
      PROVE  Kept /\ RequestsInv'
  <2>1. Control(kind) BY <1>4, RequestsShares
  <2>2. /\ Kept
        /\ subject = kind /\ at = "idle" /\ settled # "cleanup" /\ at' = "control"
        /\ wire'.open = wire.open /\ wire'.open \subseteq Left(intx) /\ wire'.ended = FALSE
        /\ UNCHANGED <<subject, kept, intx, lease>>
    BY <2>1, ControlKeeps
  <2>3. wire'.open = {} BY <2>2 DEF RequestsInv, Left, Portals
  <2> QED BY <2>2, <2>3 DEF RequestsInv
<1>5. CASE RQ!ControlSent \/ RQ!BunControl \/ RQ!LibsqlControl
  BY <1>4, <1>5 DEF RQ!ControlSent, RQ!BunControl, RQ!LibsqlControl, RQ!Kinds
(* The end of a call, and the next turn of one. *)
<1>6. ASSUME NEW outcome \in Outcomes, RQ!Settle(outcome), subject \in RQ!Kinds,
             at \in {"setting", "requested", "reading", "yielded"},
             wire' \in Wire, SameTx, ~wire'.busy, ~wire'.ended, wire'.open = {},
             library' \in Sender, library'.op = library.op,
             consumer' \in Taker, consumer'.took = consumer.took,
             outcome = "ok" /\ library.op = "stream" /\ ~consumer'.left => Caught',
             kept' \in [stale : BOOLEAN, discard : BOOLEAN, handle : BOOLEAN], kept'.handle = kept.handle,
             UNCHANGED <<subject, intx, lease>>
      PROVE  Kept /\ RequestsInv'
  <2>1. at' = "idle" /\ signal' = "none" /\ settled' = outcome BY <1>6
  <2>2. Ends BY <1>6, <2>1 DEF Ends, Still
  <2>3. Shape' BY <1>0, <1>6, <2>1 DEF Shape, Outcomes
  <2>4. settled = "none" BY <1>0, <1>6 DEF Between
  <2>5. RequestsInv' BY <1>6, <2>1, <2>4 DEF RequestsInv
  <2> QED BY <1>6, <2>1, <2>2, <2>3, <2>5, EndsKeeps
<1>7. CASE RQ!Answer
  <2>1. PICK error \in BOOLEAN, refused \in BOOLEAN, rejected \in BOOLEAN :
          /\ refused => ~error
          /\ rejected => error /\ subject = "bun-mysql"
          /\ RQ!Spoiled => error
          /\ RQ!Counted((error /\ ~RQ!Spoiled) \/ refused)
          /\ RQ!Health(rejected)
          /\ LET j == [job EXCEPT !.failed = error \/ refused, !.rows = @ - 1]
                 w == IF error /\ subject \in RQ!Postgres THEN RQ!Spoil(RQ!Free) ELSE RQ!Free IN
             IF j.failed \/ j.rows = 0 THEN RQ!Settle(RQ!Outcome(j)) /\ wire' = w
             ELSE RQ!Goto(at, j) /\ wire' = RQ!Busy
    BY <1>7, Zenon DEF RQ!Answer
  <2>2. /\ subject \in RQ!Kinds /\ at = "requested" /\ UNCHANGED <<library, consumer, subject, intx, lease>>
    BY <1>7 DEF RQ!Answer
  <2>3. /\ job \in RequestsJob /\ ~job.dirty /\ wire.open = {} /\ ~wire.ended /\ library.op # "stream"
    BY <2>2 DEF RequestsInv
  <2>4. /\ kept' \in [stale : BOOLEAN, discard : BOOLEAN, handle : BOOLEAN]
        /\ kept'.handle = kept.handle
    <3>1. PICK s \in BOOLEAN : s = (kept.stale \/ rejected) OBVIOUS
    <3>2. PICK d \in BOOLEAN : d = (kept.discard \/ rejected) OBVIOUS
    <3>3. kept' = [kept EXCEPT !.stale = s, !.discard = d] BY <2>1, <3>1, <3>2 DEF RQ!Health
    <3> QED BY <2>2, <3>3 DEF RequestsInv
  <2> DEFINE j == [job EXCEPT !.failed = error \/ refused, !.rows = @ - 1]
             w == IF error /\ subject \in RQ!Postgres THEN RQ!Spoil(RQ!Free) ELSE RQ!Free
  <2>5. j \in RequestsJob /\ ~j.dirty
    <3>1. PICK f \in BOOLEAN : f = (error \/ refused) OBVIOUS
    <3>2. PICK n \in Int : n = job.rows - 1 BY <2>3 DEF RequestsJob
    <3>3. j = [job EXCEPT !.failed = f, !.rows = n] BY <3>1, <3>2
    <3> HIDE DEF j
    <3> QED BY <2>3, <3>3 DEF RequestsJob
  <2>6. /\ w \in Wire /\ ~w.busy /\ ~w.ended /\ w.open = {}
        /\ w.tx = wire.tx \/ (wire.tx = "open" /\ w.tx = "spoiled" /\ subject \in RQ!Postgres)
    BY <1>0, <2>3 DEF Shape, Wire
  <2>7. CASE RQ!Settle(RQ!Outcome(j)) /\ wire' = w
    <3> DEFINE outcome == RQ!Outcome(j)
    <3>1. outcome \in Outcomes BY <2>5 DEF Outcomes, RequestsJob
    <3>2. RQ!Settle(outcome) /\ wire' = w BY <2>7
    <3> HIDE DEF outcome, w, j
    <3>3. SameTx BY <2>6, <3>2 DEF SameTx, RQ!Postgres
    <3> QED BY <1>0, <1>6, <2>2, <2>3, <2>4, <2>6, <3>1, <3>2, <3>3 DEF Shape
  <2>8. CASE RQ!Goto(at, j) /\ wire' = RQ!Busy
    <3>1. at' = at /\ job' = j /\ UNCHANGED <<signal, settled>> /\ wire' = [wire EXCEPT !.busy = TRUE]
      BY <2>8
    <3> HIDE DEF j
    <3>2. wire' \in Wire /\ wire'.tx = wire.tx /\ wire'.open = {} /\ ~wire'.ended
      BY <1>0, <2>3, <3>1 DEF Shape, Wire
    <3>3. Works BY <2>2, <3>1, <3>2 DEF Works, SameTx
    <3>4. Shape' BY <1>0, <2>2, <3>1, <3>2 DEF Shape
    <3>5. RequestsInv' BY <2>2, <2>3, <2>4, <2>5, <3>1, <3>2 DEF RequestsInv
    <3> QED BY <2>2, <3>3, <3>4, <3>5, WorksKeeps
  <2> QED BY <2>1, <2>7, <2>8
<1>8. ASSUME NEW j \in RequestsJob, RQ!Hand(j), subject = "postgres-js", at \in {"reading", "yielded"},
             j.queue # <<>>, Queued(j.queue),
             Len(consumer.took) + Len(j.queue) = library'.sent,
             library' \in Sender, library'.op = "stream", ~wire'.busy,
             wire' \in Wire, wire'.tx = wire.tx, ~wire'.ended, wire'.open \subseteq {"cursor"},
             UNCHANGED <<kept, subject, intx, lease>>
      PROVE  Kept /\ RequestsInv'
  <2> DEFINE q == j.queue
             k == [j EXCEPT !.queue = Tail(@)]
  <2>1. q \in Seq(Nat) BY <1>8 DEF RequestsJob
  <2>2. /\ consumer' \in Taker /\ consumer'.left = consumer.left
        /\ consumer' = [consumer EXCEPT !.took = Append(@, Len(consumer.took) + 1)]
        /\ Tail(q) \in Seq(Nat)
        /\ \A i \in 1 .. Len(Tail(q)) : Tail(q)[i] = Len(consumer'.took) + i
        /\ Len(consumer'.took) + Len(Tail(q)) = Len(consumer.took) + Len(q)
    BY <1>0, <1>8, <2>1, HandQueued DEF RQ!Hand
  <2>3. k \in RequestsJob /\ k.queue = Tail(q) BY <1>8, <2>2 DEF RequestsJob
  <2>4. at' = "yielded" /\ job' = k /\ UNCHANGED <<signal, settled>> BY <1>8 DEF RQ!Hand
  <2> HIDE DEF k
  <2>5. Queued(job.queue)' /\ Len(consumer'.took) + Len(job'.queue) = library'.sent
    BY <1>8, <2>2, <2>3, <2>4 DEF Queued
  <2>6. Takes BY <1>8, <2>2, <2>4 DEF Takes, Works, SameTx
  <2>7. Shape' BY <1>0, <1>8, <2>2, <2>4 DEF Shape
  <2>8. RequestsInv' BY <1>8, <2>3, <2>4, <2>5 DEF RequestsInv
  <2> QED BY <2>6, <2>7, <2>8, TakesKeeps
<1>9. CASE RQ!Read
  <2>1. /\ subject = "postgres-js" /\ at = "reading" /\ UNCHANGED <<kept, subject, intx, lease>>
        /\ job \in RequestsJob /\ ~wire.ended /\ library.op = "stream" /\ job.queue = <<>>
        /\ wire.open \subseteq {"cursor"}
        /\ kept \in [stale : BOOLEAN, discard : BOOLEAN, handle : BOOLEAN]
    BY <1>9 DEF RQ!Read, RequestsInv, RQ!Kinds
  <2>2. Caught BY <1>0, <2>1 DEF RequestsInv, RQ!Kinds, Caught, Shape, Taker, Sender
  <2>3. PICK n \in 0 .. MaxBufferedRows :
          /\ library' = [library EXCEPT !.sent = @ + n]
          /\ IF n = 0 THEN RQ!Settle("ok") /\ wire' = RQ!Close(RQ!Free, "cursor") /\ UNCHANGED consumer
             ELSE /\ RQ!Hand([job EXCEPT !.queue = [i \in 1 .. n |-> library.sent + i],
                                         !.last = n < MaxBufferedRows])
                  /\ wire' = RQ!Open(RQ!Free, "cursor")
    BY <1>9 DEF RQ!Read
  <2>4. n \in Nat BY BulkConstants
  <2>5. library' \in Sender /\ library'.op = "stream" /\ library'.sent = library.sent + n
    BY <1>0, <2>1, <2>3, <2>4 DEF Shape, Sender
  <2>6. CASE n = 0
    <3>1. RQ!Settle("ok") /\ wire' = RQ!Close(RQ!Free, "cursor") /\ UNCHANGED consumer
      BY <2>3, <2>6
    <3>2. wire' \in Wire /\ wire'.tx = wire.tx /\ ~wire'.busy /\ ~wire'.ended /\ wire'.open = {}
      BY <1>0, <2>1, <3>1 DEF Shape, Wire
    <3>3. Caught' BY <1>0, <2>2, <2>5, <2>6, <3>1 DEF Caught, Shape, Sender
    <3>4. SameTx /\ "ok" \in Outcomes BY <3>2 DEF SameTx, Outcomes
    <3> QED BY <1>0, <1>6, <2>1, <2>5, <3>1, <3>2, <3>3, <3>4 DEF Shape, RQ!Kinds
  <2>7. CASE n # 0
    <3> DEFINE q == [i \in 1 .. n |-> library.sent + i]
               j == [job EXCEPT !.queue = q, !.last = n < MaxBufferedRows]
    <3>1. q \in Seq(Nat) /\ Len(q) = n /\ Queued(q) BY <1>0, <2>2, <2>4, BatchQueued
    <3>2. RQ!Hand(j) /\ wire' = RQ!Open(RQ!Free, "cursor") BY <2>3, <2>7
    <3> HIDE DEF q
    <3>3. j \in RequestsJob /\ j.queue = q
      <4>0. (n < MaxBufferedRows) \in BOOLEAN BY <2>4, BulkConstants
      <4>1. PICK b \in BOOLEAN : b = (n < MaxBufferedRows) BY <4>0, Zenon
      <4>2. j = [job EXCEPT !.queue = q, !.last = b] BY <4>1
      <4> HIDE DEF j
      <4> QED BY <2>1, <3>1, <4>2 DEF RequestsJob
    <3>4. /\ wire' \in Wire /\ wire'.tx = wire.tx /\ ~wire'.ended /\ ~wire'.busy
          /\ wire'.open \subseteq {"cursor"}
      BY <1>0, <2>1, <3>2 DEF Shape, Wire, Things
    <3>5. q # <<>> /\ Len(consumer.took) + Len(q) = library'.sent
      BY <2>2, <2>5, <2>7, <3>1 DEF Caught
    <3> HIDE DEF j
    <3> QED BY <1>8, <2>1, <2>5, <3>1, <3>2, <3>3, <3>4, <3>5
  <2> QED BY <2>6, <2>7
<1>10. CASE RQ!ReadFailed
  <2>1. /\ subject = "postgres-js" /\ at = "reading" /\ RQ!Settle("failed")
        /\ UNCHANGED <<library, consumer, kept, subject, intx, lease>>
        /\ ~wire.ended /\ wire.open \subseteq {"cursor"}
        /\ kept \in [stale : BOOLEAN, discard : BOOLEAN, handle : BOOLEAN]
    BY <1>10 DEF RQ!ReadFailed, RequestsInv, RQ!Kinds
  <2>2. PICK error \in BOOLEAN :
          wire' = IF error THEN RQ!Spoil(RQ!Close(RQ!Free, "cursor")) ELSE RQ!Close(RQ!Free, "cursor")
    BY <1>10 DEF RQ!ReadFailed
  <2>3. /\ wire' \in Wire /\ ~wire'.busy /\ ~wire'.ended /\ wire'.open = {}
        /\ wire'.tx = wire.tx \/ (wire.tx = "open" /\ wire'.tx = "spoiled")
    BY <1>0, <2>1, <2>2 DEF Shape, Wire
  <2>4. SameTx /\ "failed" \in Outcomes BY <2>1, <2>3 DEF SameTx, Outcomes
  <2> QED BY <1>0, <1>6, <2>1, <2>3, <2>4 DEF Shape, RQ!Kinds
<1>11. ASSUME RQ!Settle("ok"), wire' = RQ!Close(wire, "cursor"), subject = "postgres-js", at = "yielded",
              UNCHANGED <<library, kept, subject, intx, lease>>,
              consumer' \in Taker, consumer'.took = consumer.took, ~wire.busy,
              consumer'.left \/ job.queue = <<>>
       PROVE  Kept /\ RequestsInv'
  <2>1. /\ ~wire.ended /\ wire.open \subseteq {"cursor"} /\ job \in RequestsJob
        /\ Len(consumer.took) + Len(job.queue) = library.sent
        /\ kept \in [stale : BOOLEAN, discard : BOOLEAN, handle : BOOLEAN]
    BY <1>11 DEF RequestsInv, RQ!Kinds
  <2>2. wire' \in Wire /\ wire'.tx = wire.tx /\ ~wire'.busy /\ ~wire'.ended /\ wire'.open = {}
    BY <1>0, <1>11, <2>1 DEF Shape, Wire
  <2>3. ~consumer'.left => Caught' BY <1>0, <1>11, <2>1 DEF Caught, Shape, Taker
  <2>4. SameTx /\ "ok" \in Outcomes BY <2>2 DEF SameTx, Outcomes
  <2> QED BY <1>0, <1>6, <1>11, <2>1, <2>2, <2>3, <2>4 DEF Shape, RQ!Kinds
<1>12. CASE RQ!Continue
  <2>1. /\ subject = "postgres-js" /\ at = "yielded" /\ UNCHANGED <<library, kept, subject, intx, lease>>
        /\ ~wire.ended /\ wire.open \subseteq {"cursor"} /\ job \in RequestsJob /\ ~wire.busy
        /\ Queued(job.queue) /\ Len(consumer.took) + Len(job.queue) = library.sent
        /\ library.op = "stream"
        /\ kept \in [stale : BOOLEAN, discard : BOOLEAN, handle : BOOLEAN]
    BY <1>12 DEF RQ!Continue, RequestsInv, RQ!Kinds
  <2>2. CASE job.queue # <<>> /\ RQ!Hand(job) /\ wire' = wire
    BY <1>0, <1>8, <2>1, <2>2 DEF Shape
  <2>3. CASE job.queue = <<>> /\ RQ!Settle("ok") /\ wire' = RQ!Close(wire, "cursor") /\ UNCHANGED consumer
    BY <1>0, <1>11, <2>1, <2>3 DEF Shape
  <2>4. CASE job.queue = <<>> /\ RQ!Goto("reading", job) /\ wire' = RQ!Busy /\ UNCHANGED consumer
    <3>1. /\ at' = "reading" /\ job' = job /\ UNCHANGED <<signal, settled, consumer>>
          /\ wire' = [wire EXCEPT !.busy = TRUE]
      BY <2>4
    <3>2. wire' \in Wire /\ wire'.tx = wire.tx /\ wire'.open \subseteq {"cursor"} /\ ~wire'.ended
      BY <1>0, <2>1, <3>1 DEF Shape, Wire
    <3>3. Works BY <2>1, <3>1, <3>2 DEF Works, SameTx
    <3>4. Shape' BY <1>0, <2>1, <3>1, <3>2 DEF Shape
    <3>5. RequestsInv' BY <2>1, <2>4, <3>1, <3>2 DEF RequestsInv, Queued
    <3> QED BY <3>1, <3>3, <3>4, <3>5, WorksKeeps
  <2> QED BY <1>12, <2>2, <2>3, <2>4 DEF RQ!Continue
<1>13. CASE RQ!Leave
  <2>1. /\ subject = "postgres-js" /\ at = "yielded" /\ UNCHANGED <<library, kept, subject, intx, lease>>
        /\ RQ!Settle("ok") /\ wire' = RQ!Close(wire, "cursor") /\ consumer' = [consumer EXCEPT !.left = TRUE]
    BY <1>13 DEF RQ!Leave
  <2>2. consumer' \in Taker /\ consumer'.took = consumer.took /\ consumer'.left
    BY <1>0, <2>1 DEF Shape, Taker
  <2>3. ~wire.busy BY <2>1 DEF RequestsInv, RQ!Kinds
  <2> QED BY <1>11, <2>1, <2>2, <2>3
(* Control statements. *)
<1>14. ASSUME NEW kind \in RQ!Kinds, NEW refused \in BOOLEAN, RQ!Answered(kind, refused),
              kept' \in [stale : BOOLEAN, discard : BOOLEAN, handle : BOOLEAN],
              subject = "libsql" /\ settled' = "ok" => kept'.handle = intx'
       PROVE  Kept /\ RequestsInv'
  <2>1. Answered(kind, refused) BY <1>14, RequestsShares
  <2>2. /\ Kept
        /\ subject = kind /\ at = "control" /\ at' = "idle"
        /\ wire'.open \subseteq wire.open /\ wire'.ended = FALSE
        /\ settled' \in {"ok", "cleanup"}
        /\ UNCHANGED <<subject, library, consumer, lease>>
    BY <1>14, <2>1, AnsweredKeeps
  <2> QED BY <1>14, <2>2 DEF RequestsInv
<1>15. CASE RQ!ControlAnswered
  <2>1. PICK kind \in RQ!Postgres : RQ!Answered(kind, RQ!NotCommitted) /\ UNCHANGED kept
    BY <1>15 DEF RQ!ControlAnswered
  <2>2. PICK refused \in BOOLEAN : refused = RQ!NotCommitted BY DEF RQ!NotCommitted
  <2>3. subject = kind /\ kind \in RQ!Kinds /\ kind # "libsql"
    BY <2>1 DEF RQ!Answered, RQ!Postgres, RQ!Kinds
  <2>4. kept' \in [stale : BOOLEAN, discard : BOOLEAN, handle : BOOLEAN]
    BY <2>1, <2>3 DEF RequestsInv
  <2> QED BY <1>14, <2>1, <2>2, <2>3, <2>4
<1>16. CASE RQ!BunAnswered
  <2>1. RQ!Answered("bun-mysql", FALSE) /\ kept' = kept /\ subject = "bun-mysql"
    BY <1>16 DEF RQ!BunAnswered, RQ!Answered
  <2>2. kept' \in [stale : BOOLEAN, discard : BOOLEAN, handle : BOOLEAN]
    BY <2>1 DEF RequestsInv, RQ!Kinds
  <2> QED BY <1>14, <2>1, <2>2 DEF RQ!Kinds
<1>17. CASE RQ!LibsqlAnswered
  <2>1. /\ RQ!Answered("libsql", FALSE) /\ job.op \in {"begin", "savepoint", "rollbackTo"}
        /\ kept' = [kept EXCEPT !.handle = @ \/ settled' = "ok"]
    BY <1>17 DEF RQ!LibsqlAnswered
  <2>2. subject = "libsql" /\ at = "control" /\ (settled' = "ok" => intx' = TRUE)
    BY <2>1, RequestsShares, AnsweredKeeps
  <2>3. /\ kept' \in [stale : BOOLEAN, discard : BOOLEAN, handle : BOOLEAN]
        /\ settled' = "ok" => kept'.handle = TRUE
    <3>1. PICK h \in BOOLEAN : h = (kept.handle \/ settled' = "ok") OBVIOUS
    <3>2. kept' = [kept EXCEPT !.handle = h] BY <2>1, <3>1
    <3> QED BY <2>2, <3>1, <3>2 DEF RequestsInv, RQ!Kinds
  <2> QED BY <1>14, <2>1, <2>2, <2>3 DEF RQ!Kinds
<1>18. CASE RQ!BunIsolation
  <2> DEFINE j == [op |-> "begin"]
             op == "none"
             l == "setting"
             kind == "bun-mysql"
  <2>1. /\ Start(kind, l, j) /\ ~intx /\ library' = Request(op, FALSE)
        /\ wire' = [wire EXCEPT !.busy = TRUE] /\ UNCHANGED <<kept, signal, intx>>
    BY <1>18, RequestsShares DEF RQ!BunIsolation, RQ!NoRequest, Request, NoRequest
  <2>2. /\ j.op = "begin" /\ op \in Ops /\ op = "none" /\ kind = "bun-mysql"
        /\ l = "setting"
    BY DEF Ops
  <2> HIDE DEF j, op, kind, l
  <2>3. /\ wire' \in Wire /\ wire'.tx = wire.tx /\ wire'.open = wire.open /\ wire'.ended = wire.ended
        /\ signal' \in {"none", "armed", "aborted"} /\ intx' = intx
    BY <1>0, <2>1 DEF Shape, Wire
  <2>4. /\ Kept /\ subject = kind /\ subject' = kind /\ at' = l /\ job' = j
        /\ library'.op = op /\ Still(wire, intx) /\ settled' = "none"
    <3>1. l \notin {"idle", "control", "closing"} BY <2>2
    <3>2. op \in Ops BY <2>2
    <3> QED BY <2>1, <2>3, <3>1, <3>2, StartKeeps
  <2>5. ~wire'.ended /\ wire'.open = {} BY <2>1, <2>3, <2>4 DEF Still, Left
  <2>6. kept' = kept /\ intx' = intx BY <2>1
  <2>7. /\ subject' = "bun-mysql" /\ at' = "setting" /\ job'.op = "begin" /\ library'.op = "none"
        /\ ~intx /\ kept \in [stale : BOOLEAN, discard : BOOLEAN, handle : BOOLEAN]
    BY <2>1, <2>2, <2>4 DEF RequestsInv, RQ!Kinds
  <2> QED BY <2>4, <2>5, <2>6, <2>7 DEF RequestsInv
<1>19. CASE RQ!BunIsolationSet
  <2>1. /\ subject = "bun-mysql" /\ at = "setting" /\ UNCHANGED <<library, consumer, kept, subject, intx, lease>>
        /\ job.op = "begin" /\ ~intx /\ library.op = "none" /\ ~wire.ended /\ wire.open = {}
        /\ kept \in [stale : BOOLEAN, discard : BOOLEAN, handle : BOOLEAN]
    BY <1>19 DEF RQ!BunIsolationSet, RequestsInv, RQ!Kinds
  <2>2. CASE RQ!Settle("cleanup") /\ wire' = RQ!Free
    <3>1. wire' \in Wire /\ wire'.tx = wire.tx /\ ~wire'.busy /\ ~wire'.ended /\ wire'.open = {}
      BY <1>0, <2>1, <2>2 DEF Shape, Wire
    <3>2. SameTx /\ "cleanup" \in Outcomes BY <3>1 DEF SameTx, Outcomes
    <3> QED BY <1>0, <1>6, <2>1, <2>2, <3>1, <3>2 DEF Shape, RQ!Kinds
  <2>3. CASE RQ!Goto("control", job) /\ wire' = RQ!Busy
    <3>1. /\ at' = "control" /\ job' = job /\ UNCHANGED <<signal, settled>>
          /\ wire' = [wire EXCEPT !.busy = TRUE]
      BY <2>3
    <3>2. wire' \in Wire /\ wire'.tx = wire.tx /\ wire'.open = {} /\ ~wire'.ended
      BY <1>0, <2>1, <3>1 DEF Shape, Wire
    <3>3. Shape' BY <1>0, <2>1, <3>1, <3>2 DEF Shape
    <3>4. Between' /\ Known' /\ Spoilable'
      BY <2>1, <3>1, <3>2 DEF Common, Base, Between, Known, Spoilable
    <3>5. Controlled' BY <2>1, <3>1, <3>2 DEF Controlled
    <3>6. Rows' BY <2>1, <3>1 DEF Common, Rows, InOrder, Complete
    <3>7. Move BY <2>1, <3>1 DEF Move
    <3>8. RequestsInv' BY <2>1, <3>1, <3>2 DEF RequestsInv
    <3> QED BY <3>3, <3>4, <3>5, <3>6, <3>7, <3>8 DEF Kept, Common, Base
  <2> QED BY <1>19, <2>2, <2>3 DEF RQ!BunIsolationSet
<1>20. CASE RQ!LibsqlEnded
  <2>1. /\ subject = "libsql" /\ at = "control" /\ job.op \in {"commit", "rollback"}
        /\ UNCHANGED <<library, consumer, subject, intx, lease>>
        /\ kept' = [kept EXCEPT !.handle = FALSE]
        /\ kept \in [stale : BOOLEAN, discard : BOOLEAN, handle : BOOLEAN]
        /\ wire.open = {}
    BY <1>20 DEF RQ!LibsqlEnded, RequestsInv, RQ!Kinds
  <2>2. PICK did \in BOOLEAN, error \in BOOLEAN :
          /\ ~did => error
          /\ RQ!Goto("closing", [RQ!Closure(job.op, 0) EXCEPT !.dirty = error])
          /\ wire' = IF did THEN [wire EXCEPT !.tx = "none"] ELSE wire
    BY <1>20 DEF RQ!LibsqlEnded
  <2>3. intx /\ ~wire.ended /\ library.op = "none" BY <1>0, <2>1 DEF Controlled
  <2>4. /\ wire' \in Wire /\ wire'.open = {} /\ ~wire'.ended /\ wire'.tx \in {"none", wire.tx}
        /\ did => wire'.tx = "none"
    BY <1>0, <2>1, <2>2, <2>3 DEF Shape, Wire
  <2> DEFINE j == [RQ!Closure(job.op, 0) EXCEPT !.dirty = error]
  <2>5. j \in RequestsJob /\ j.dirty = error /\ ~j.failed
    <3>1. PICK op \in {"commit", "rollback"} : op = job.op BY <2>1
    <3> DEFINE k == RQ!Closure(op, 0)
    <3>2. k \in RequestsJob /\ ~k.failed BY DEF RequestsJob, RQ!Closure
    <3>3. j = [k EXCEPT !.dirty = error] BY <3>1
    <3> HIDE DEF j, k
    <3> QED BY <3>2, <3>3 DEF RequestsJob
  <2>6. at' = "closing" /\ job' = j /\ UNCHANGED <<signal, settled>> BY <2>2
  <2> HIDE DEF j
  <2>7. Shape' BY <1>0, <2>1, <2>4, <2>6 DEF Shape
  <2>8. Between' BY <1>0, <2>1, <2>6 DEF Between
  <2>9. Spoilable' BY <2>1, <2>4 DEF Common, Base, Spoilable
  <2>10. Known' /\ Controlled' BY <2>1, <2>6 DEF Known, Controlled
  <2>11. Rows' BY <2>1, <2>6 DEF Common, Rows, InOrder, Complete
  <2>12. Move BY <2>1, <2>6 DEF Move
  <2>13. RequestsInv' BY <2>1, <2>2, <2>3, <2>4, <2>5, <2>6 DEF RequestsInv
  <2> QED BY <2>7, <2>8, <2>9, <2>10, <2>11, <2>12, <2>13 DEF Kept, Common, Base
<1>21. CASE RQ!LibsqlClosed
  <2>1. /\ subject = "libsql" /\ at = "closing" /\ UNCHANGED <<library, consumer, kept, subject, lease>>
        /\ job \in RequestsJob /\ intx /\ (~job.dirty => wire.tx = "none") /\ ~job.failed
        /\ ~kept.handle /\ ~wire.ended /\ wire.open = {} /\ library.op # "stream"
        /\ kept \in [stale : BOOLEAN, discard : BOOLEAN, handle : BOOLEAN]
    BY <1>21 DEF RQ!LibsqlClosed, RequestsInv, RQ!Kinds
  <2>2. PICK error \in BOOLEAN :
          /\ RQ!Settle(RQ!Outcome([job EXCEPT !.dirty = @ \/ error]))
          /\ intx' = (intx /\ (job.dirty \/ error))
          /\ wire' = IF error THEN RQ!Free ELSE [RQ!Free EXCEPT !.tx = "none"]
    BY <1>21 DEF RQ!LibsqlClosed
  <2>3. /\ settled' \in Outcomes /\ (settled' # "cleanup" => ~job.dirty /\ ~error)
        /\ at' = "idle" /\ signal' = "none"
    BY <2>1, <2>2 DEF Outcomes, RequestsJob
  <2>4. /\ wire' \in Wire /\ wire'.open = {} /\ ~wire'.ended /\ ~wire'.busy /\ wire'.tx \in {"none", wire.tx}
        /\ ~error => wire'.tx = "none"
    BY <1>0, <2>1, <2>2 DEF Shape, Wire
  <2>5. intx' \in BOOLEAN /\ (settled' # "cleanup" => ~intx' /\ wire'.tx = "none")
    BY <2>1, <2>2, <2>3, <2>4 DEF RequestsJob
  <2>6. Shape' BY <1>0, <2>1, <2>3, <2>4, <2>5 DEF Shape, Outcomes
  <2>7. Between' BY <2>3, <2>4 DEF Between, Still
  <2>8. Known' BY <2>3, <2>5 DEF Known
  <2>9. Spoilable' /\ Controlled' BY <2>1, <2>3, <2>4 DEF Common, Base, Spoilable, Controlled
  <2>10. Rows' BY <2>1, <2>3 DEF Common, Rows, InOrder, Complete
  <2>11. Move BY <2>1, <2>3 DEF Move
  <2>12. RequestsInv' BY <2>1, <2>3, <2>4, <2>5 DEF RequestsInv
  <2> QED BY <2>6, <2>7, <2>8, <2>9, <2>10, <2>11, <2>12 DEF Kept, Common, Base
(* The lease. *)
<1>22. CASE RQ!BunRelease
  <2>1. /\ subject \in {"bun-postgres", "bun-mysql"} /\ at = "idle" /\ lease = "leased"
        /\ settled = "cleanup" \/ ~intx
        /\ UNCHANGED <<subject, at, library, consumer, kept, signal, settled, intx, wire>>
        /\ lease' \in {"kept", "discarded", "returned"}
        /\ lease' = "returned" => settled # "cleanup"
    BY <1>22 DEF RQ!BunRelease, RQ!Releasable, RQ!Poisoned, RQ!BunDiscards, RQ!Leased
  <2>2. lease' = "returned" => Still(wire', FALSE) /\ wire'.tx = "none"
    BY <1>0, <2>1 DEF Between, Known, Still, Left
  <2>3. Releases BY <2>1, <2>2 DEF Releases
  <2>4. Shape' BY <1>0, <2>1 DEF Shape
  <2>5. RequestsInv' BY <2>1 DEF RequestsInv
  <2> QED BY <2>3, <2>4, <2>5, ReleasesKeeps
<1>23. CASE RQ!PostgresJsRelease
  <2>1. /\ subject = "postgres-js" /\ at = "idle" /\ lease = "leased"
        /\ settled = "cleanup" \/ ~intx
        /\ UNCHANGED <<subject, at, library, consumer, kept, signal, settled, intx>>
    BY <1>23 DEF RQ!PostgresJsRelease, RQ!Releasable, RQ!Poisoned, RQ!Leased
  <2>2. PICK error \in BOOLEAN :
          /\ error => settled = "cleanup"
          /\ lease' = IF error THEN "kept" ELSE "returned"
          /\ wire' = IF settled = "cleanup" /\ ~error THEN Connected ELSE wire
    <3>1. RQ!Connected = Connected BY DEF RQ!Connected, Connected
    <3> QED BY <1>23, <3>1 DEF RQ!PostgresJsRelease, RQ!Poisoned
  <2>3. Connected \in Wire /\ Still(Connected, FALSE) /\ Connected.tx = "none" /\ Connected.open = {}
        /\ ~Connected.ended
    BY DEF Connected, Wire, Still
  <2>4. lease' = "returned" => Still(wire', FALSE) /\ wire'.tx = "none"
    BY <1>0, <2>1, <2>2, <2>3 DEF Between, Known, Still, Left
  <2>5. Releases BY <2>1, <2>2, <2>4 DEF Releases
  <2>6. Shape' BY <1>0, <2>1, <2>2, <2>3 DEF Shape
  <2>7. RequestsInv' BY <2>1, <2>2, <2>3 DEF RequestsInv, RQ!Kinds
  <2> QED BY <2>5, <2>6, <2>7, ReleasesKeeps
<1> QED
  BY <1>2, <1>3, <1>5, <1>7, <1>9, <1>10, <1>12, <1>13, <1>15, <1>16, <1>17, <1>18, <1>19,
    <1>20, <1>21,
    <1>22, <1>23
  DEF RQ!Next, RQ!Progress
-----------------------------------------------------------------------------
(* node-postgres. *)

(* What Pg takes from DriverState means the same there and here. *)
LEMMA PgShares ==
    ASSUME NEW k, NEW l, NEW j, NEW op, NEW d, NEW r
    PROVE  /\ PG!Start(k, l, j) <=> Start(k, l, j)
           /\ PG!Request(op, d) = Request(op, d)
           /\ PG!Unsent(k) <=> Unsent(k)
           /\ PG!Control(k) <=> Control(k)
           /\ PG!Answered(k, r) <=> Answered(k, r)
           /\ PG!ReleaseOrDiscard(k) <=> ReleaseOrDiscard(k)
<1>1. PG!Start(k, l, j) <=> Start(k, l, j)
  BY DEF Start, Unread,
    PG!Start, PG!Unread
<1>2. PG!Request(op, d) = Request(op, d)
  BY DEF Request, NoRequest,
    PG!Request, PG!NoRequest
<1>3. PG!Unsent(k) <=> Unsent(k)
  BY DEF Unsent, Turn, Counted, NoRequest, Unread,
    PG!Unsent, PG!Turn, PG!Counted, PG!NoRequest, PG!Unread
<1>4. PG!Control(k) <=> Control(k)
  BY DEF Control, Start, Busy, NoRequest, Unread, Connected,
    PG!Control, PG!Start, PG!Busy, PG!NoRequest, PG!Unread, PG!Connected
<1>5. PG!Answered(k, r) <=> Answered(k, r)
  BY DEF Answered, Transaction, Portals, Settle, Counted, Free, NoJob,
    PG!Answered, PG!Transaction, PG!Portals, PG!Settle, PG!Counted, PG!Free, PG!NoJob
<1>6. PG!ReleaseOrDiscard(k) <=> ReleaseOrDiscard(k)
  BY DEF ReleaseOrDiscard, Releasable, Poisoned, Leased,
    PG!ReleaseOrDiscard, PG!Releasable, PG!Poisoned, PG!Leased
<1> QED BY <1>1, <1>2, <1>3, <1>4, <1>5, <1>6

(* Every step of the node-postgres executor is of one of the kinds, and    *)
(* the name of its bulk means its text.                                    *)
LEMMA PgKeeps ==
    ASSUME Common, PgInv, PgNames, PG!Next
    PROVE  Kept /\ PgInv' /\ PgNames'
<1> USE DEF PG!Me, PG!Goto, PG!Raise, PG!Settle, PG!Outcome, PG!Counted, PG!Free, PG!Busy, PG!Open, PG!Close,
      PG!owner, PG!Spoil, PG!Spoiled, PG!Ending, PG!Portals
<1> DEFINE Name == {"none"} \cup PG!Texts
           Names == [text : Name, parsed : Name, server : Name]
           Sane(k) == k \in Names /\ k.server = k.parsed /\ k.parsed \in {"none", k.text}
<1>0. Shape /\ Between /\ Known /\ Controlled BY DEF Common, Base
<1>1. subject = "pg" /\ Sane(kept)
  BY DEF PG!Next, PG!Query, PG!Call, PG!Start, PG!Stream, PG!Unsendable,
  PG!Unsent, PG!Turn, PG!Bulk, PG!ControlSent, PG!Control, PG!Release, PG!ReleaseOrDiscard,
    PG!Releasable,
  PG!Aborted, PG!AbortedAside, PG!Progress, PG!Ended, PG!Terminated, PG!Requested,
    PG!PortalFetched,
  PG!PortalClosed, PG!Deallocated, PG!Executed, PG!Read, PG!ReadFailed, PG!Continue, PG!Leave,
  PG!CursorClosed, PG!ControlAnswered, PG!Answered, PgNames
<1> HIDE DEF Sane
(* Calls that begin. *)
<1>2. ASSUME NEW op \in Ops, NEW j \in PgJob, NEW l \in {"requested", "reading", "executing", "evicting"},
             PG!Call(l, j), j.op = op, op = "stream" <=> l = "reading",
             ~j.dirty, ~j.failed, j.queue = <<>>,
             l = "executing" => kept.parsed \in {"none", j.text}, kept' = kept,
             wire' = IF l = "reading" THEN PG!Open(PG!Busy, "cursor") ELSE PG!Busy
      PROVE  Kept /\ PgInv' /\ PgNames'
  <2>1. /\ library' = Request(op, FALSE) /\ Start("pg", l, j) /\ intx' = intx
        /\ signal' \in {"none", "armed"}
    BY <1>2, PgShares DEF PG!Call
  <2>2. /\ wire' \in Wire /\ wire'.tx = wire.tx /\ wire'.ended = wire.ended
        /\ wire'.open \in {wire.open, wire.open \cup {"cursor"}}
        /\ "cursor" \in wire'.open => l = "reading" \/ "cursor" \in wire.open
    BY <1>0, <1>2 DEF Shape, Wire, Things
  <2>3. /\ Kept /\ subject' = "pg" /\ at' = l /\ job' = j /\ library'.op = op /\ library'.sent = 0
        /\ consumer' = [took |-> <<>>, left |-> FALSE] /\ Still(wire, intx)
    BY <1>2, <2>1, <2>2, StartKeeps
  <2>4. wire.open \subseteq Portals /\ ~wire.ended /\ (~intx => wire.open = {})
    BY <2>3 DEF Still, Left
  <2>5. /\ wire'.open \subseteq {"cursor"} \cup Portals /\ ~wire'.ended
        /\ ~intx' => wire'.open \cap Portals = {}
        /\ "cursor" \in wire'.open => l = "reading"
    BY <2>1, <2>2, <2>4 DEF Portals
  <2>6. Queued(job.queue)' /\ Len(consumer'.took) + Len(job'.queue) = 0
    BY <1>2, <2>3 DEF Queued
  <2>7. PgInv' BY <1>2, <2>3, <2>5, <2>6 DEF PgInv, Portals
  <2>8. PgNames' BY <1>1, <1>2, <2>3 DEF PgNames, Sane
  <2> QED BY <2>3, <2>7, <2>8
<1>3. CASE PG!Query
  <2>1. PICK op \in {"query", "call"} : PG!Call("requested", PG!Closure(op)) /\ wire' = PG!Busy /\ kept' = kept
    BY <1>3 DEF PG!Query
  <2> DEFINE j == PG!Closure(op)
  <2>2. /\ j \in PgJob /\ j.op = op /\ op \in Ops /\ op # "stream" /\ ~j.dirty /\ ~j.failed /\ j.queue = <<>>
    BY DEF PG!Closure, PgJob, Ops
  <2> HIDE DEF j
  <2> QED BY <1>2, <2>1, <2>2 DEF j
<1>4. CASE PG!Stream
  <2> DEFINE op == "stream"
             j == PG!Closure(op)
  <2>1. PG!Call("reading", j) /\ wire' = PG!Open(PG!Busy, "cursor") /\ kept' = kept
    BY <1>4 DEF PG!Stream
  <2>2. /\ j \in PgJob /\ j.op = op /\ op \in Ops /\ op = "stream" /\ ~j.dirty /\ ~j.failed /\ j.queue = <<>>
    BY DEF PG!Closure, PgJob, Ops
  <2> HIDE DEF j, op
  <2> QED BY <1>2, <2>1, <2>2
<1>5. CASE PG!Bulk
  <2>1. PICK text \in PG!Texts :
          PG!Call(IF kept.text \in {"none", text} THEN "executing" ELSE "evicting",
                  [PG!Closure("bulk") EXCEPT !.text = text, !.rows = MaxBulk])
    BY <1>5 DEF PG!Bulk
  <2> DEFINE op == "bulk"
             l == IF kept.text \in {"none", text} THEN "executing" ELSE "evicting"
             j == [PG!Closure(op) EXCEPT !.text = text, !.rows = MaxBulk]
  <2>2. PG!Call(l, j) /\ wire' = PG!Busy /\ kept' = kept BY <1>5, <2>1 DEF PG!Bulk
  <2>3. /\ j \in PgJob /\ j.op = op /\ op \in Ops /\ op # "stream" /\ ~j.dirty /\ ~j.failed /\ j.queue = <<>>
        /\ j.text = text
    <3> DEFINE k == PG!Closure(op)
    <3>1. k \in PgJob /\ k.op = op /\ ~k.dirty /\ ~k.failed /\ k.queue = <<>>
      BY DEF PG!Closure, PgJob, Ops
    <3>2. j = [k EXCEPT !.text = text, !.rows = MaxBulk] /\ op \in Ops /\ op # "stream"
      BY DEF Ops
    <3>3. MaxBulk \in Int /\ text \in {"none"} \cup PG!Texts BY BulkConstants
    <3> HIDE DEF j, k, op
    <3>4. j \in PgJob BY <3>1, <3>2, <3>3 DEF PgJob
    <3>5. /\ j.op = k.op /\ j.dirty = k.dirty /\ j.failed = k.failed /\ j.queue = k.queue
          /\ j.text = text
      BY <3>1, <3>2 DEF PgJob
    <3> QED BY <3>1, <3>2, <3>4, <3>5
  <2>4. l \in {"executing", "evicting"} /\ (l = "executing" => kept.parsed \in {"none", text})
    BY <1>1 DEF Sane
  <2> HIDE DEF j, op, l
  <2> QED BY <1>2, <2>2, <2>3, <2>4
<1>6. CASE PG!Unsendable
  <2>1. Unsent("pg") BY <1>6, PgShares DEF PG!Unsendable
  <2> QED BY <1>1, <2>1, UnsentKeeps DEF PgInv, PgNames, Sane
<1>7. CASE PG!ControlSent
  <2>1. Control("pg") BY <1>7, PgShares DEF PG!ControlSent
  <2>2. /\ Kept /\ at' = "control" /\ at = "idle"
        /\ wire'.open = wire.open /\ wire'.open \subseteq Left(intx) /\ wire'.ended = FALSE
        /\ UNCHANGED <<subject, kept, intx, lease>>
    BY <2>1, ControlKeeps
  <2> QED BY <1>1, <2>2 DEF PgInv, PgNames, Sane, Left, Portals
<1>8. CASE PG!ControlAnswered
  <2>1. PICK refused \in BOOLEAN : refused = PG!NotCommitted BY DEF PG!NotCommitted
  <2>2. Answered("pg", refused) /\ kept' = kept BY <1>8, <2>1, PgShares DEF PG!ControlAnswered
  <2>3. /\ Kept /\ at = "control" /\ at' = "idle"
        /\ wire'.open \subseteq wire.open /\ wire'.ended = FALSE
        /\ UNCHANGED <<subject, library, consumer, lease>>
    BY <2>2, AnsweredKeeps
  <2> QED BY <1>1, <2>2, <2>3 DEF PgInv, PgNames, Sane
<1>9. CASE PG!Release
  <2>1. ReleaseOrDiscard("pg") BY <1>9, PgShares DEF PG!Release
  <2>2. Kept /\ at = "idle" /\ at' = "idle" /\ UNCHANGED <<subject, settled, wire, kept, intx>>
    BY <2>1, ReleaseKeeps
  <2> QED BY <1>1, <2>2 DEF PgInv, PgNames, Sane
(* The signal, and the end of the client. *)
<1>10. CASE PG!Aborted
  <2>1. /\ at \in {"requested", "fetching", "dropping", "executing", "reading", "yielded", "closing"}
        /\ job \in PgJob /\ signal = "armed" /\ signal' = "aborted"
        /\ at' = IF at \in {"reading", "closing"} THEN "ending" ELSE at
        /\ job' = [job EXCEPT !.dirty = TRUE] /\ wire' = [wire EXCEPT !.open = @ \cup {"end"}]
        /\ UNCHANGED <<library, consumer, kept, subject, settled, intx, lease>>
    BY <1>1, <1>10 DEF PG!Aborted, PgInv
  <2>2. /\ job' \in PgJob /\ job'.dirty /\ job'.queue = job.queue /\ job'.live = job.live
        /\ job'.failed = job.failed /\ job'.text = job.text
    BY <2>1 DEF PgJob
  <2>3. /\ wire' \in Wire /\ wire'.tx = wire.tx /\ wire'.ended = wire.ended /\ wire'.busy = wire.busy
        /\ wire'.open = wire.open \cup {"end"}
    BY <1>0, <2>1 DEF Shape, Wire, Things
  <2>4. Works BY <1>1, <2>1, <2>3 DEF Works, SameTx
  <2>5. Shape' BY <1>0, <2>1, <2>3 DEF Shape
  <2>6. PgInv' BY <1>1, <2>1, <2>2, <2>3 DEF PgInv, Portals, Queued
  <2>7. PgNames' BY <1>1, <2>1, <2>2 DEF PgNames
  <2> QED BY <2>1, <2>4, <2>5, <2>6, <2>7, WorksKeeps
<1>11. CASE PG!AbortedAside
  <2>1. /\ at = "evicting" /\ signal' = "aborted"
        /\ UNCHANGED <<at, job, wire, library, consumer, kept, subject, settled, intx, lease>>
    BY <1>1, <1>11 DEF PG!AbortedAside
  <2>2. Works /\ Shape' BY <1>0, <1>1, <2>1 DEF Works, SameTx, Shape
  <2>3. PgInv' BY <1>1, <2>1 DEF PgInv, Queued
  <2>4. PgNames' BY <1>1, <2>1 DEF PgNames
  <2> QED BY <2>1, <2>2, <2>3, <2>4, WorksKeeps
<1>12. CASE PG!Ended
  <2>1. /\ "end" \in wire.open
        /\ UNCHANGED <<at, job, library, consumer, kept, signal, settled, subject, intx, lease>>
    BY <1>12 DEF PG!Ended
  <2>2. PICK error \in BOOLEAN :
          wire' = [[wire EXCEPT !.open = @ \ {"end"}] EXCEPT !.ended = ~error, !.busy = @ /\ error]
    BY <1>12 DEF PG!Ended
  <2>3. /\ wire' \in Wire /\ wire'.tx = wire.tx /\ wire'.open = wire.open \ {"end"}
    <3>1. PICK b \in BOOLEAN : b = (wire.busy /\ error) OBVIOUS
    <3>2. PICK e \in BOOLEAN : e = ~error OBVIOUS
    <3>3. wire' = [[wire EXCEPT !.open = @ \ {"end"}] EXCEPT !.ended = e, !.busy = b]
      BY <2>2, <3>1, <3>2
    <3> QED BY <1>0, <3>3 DEF Shape, Wire
  <2>4. at \notin {"idle", "control", "reading", "closing", "evicting"} BY <1>1, <2>1 DEF PgInv
  <2>5. Works /\ Shape' BY <1>0, <1>1, <2>1, <2>3, <2>4 DEF Works, SameTx, Shape
  <2>6. PgInv' BY <1>1, <2>1, <2>3, <2>4 DEF PgInv, Queued
  <2>7. PgNames' BY <1>1, <2>1 DEF PgNames
  <2> QED BY <2>1, <2>5, <2>6, <2>7, WorksKeeps
<1>13. CASE PG!Terminated
  <2>1. /\ at = "ending" /\ "end" \notin wire.open /\ at' = "idle" /\ signal' = "none" /\ settled' = "cleanup"
        /\ UNCHANGED <<library, consumer, wire, kept, subject, intx, lease>>
    BY <1>13 DEF PG!Terminated
  <2>2. Ends /\ Shape' BY <1>0, <1>1, <2>1 DEF Ends, SameTx, Outcomes, Shape
  <2>3. PgInv' BY <1>1, <2>1 DEF PgInv
  <2>4. PgNames' BY <1>1, <2>1 DEF PgNames
  <2> QED BY <2>1, <2>2, <2>3, <2>4, EndsKeeps
(* The end of a call, that waits for the end of the client. *)
<1>14. ASSUME NEW j \in PgJob, NEW w \in Wire, PG!Done(j, w), at \notin {"idle", "control"},
              w.open \subseteq {"cursor", "end"} \cup Portals, "end" \in w.open <=> "end" \in wire.open,
              ~intx => w.open \cap Portals = {},
              w.ended = wire.ended, w.ended => j.dirty,
              ~j.dirty => ~w.busy /\ "cursor" \notin w.open,
              w.tx = wire.tx \/ (wire.tx = "open" /\ w.tx = "spoiled"),
              library.op # "stream" \/ j.dirty,
              library' \in Sender, library'.op = library.op,
              consumer' \in Taker, consumer'.took = consumer.took,
              Sane(kept'), UNCHANGED <<subject, intx, lease>>
       PROVE  Kept /\ PgInv' /\ PgNames'
  <2>1. SameTx /\ wire' = w BY <1>1, <1>14 DEF SameTx, PG!Done
  <2>2. CASE "end" \in wire.open
    <3>1. at' = "ending" /\ job' = j /\ UNCHANGED <<signal, settled>>
      BY <1>14, <2>2 DEF PG!Done
    <3>2. Works BY <1>1, <1>14, <2>1, <3>1 DEF Works
    <3>3. Shape' BY <1>0, <1>14, <2>1, <3>1 DEF Shape
    <3>4. PgInv' BY <1>14, <2>1, <2>2, <3>1 DEF PgInv
    <3>5. PgNames' BY <1>14, <3>1 DEF PgNames, Sane
    <3> QED BY <1>14, <3>2, <3>3, <3>4, <3>5, WorksKeeps
  <2>3. CASE "end" \notin wire.open
    <3>1. at' = "idle" /\ settled' = PG!Outcome(j) /\ signal' = "none"
      BY <1>14, <2>3 DEF PG!Done
    <3>2. settled' \in Outcomes /\ (settled' # "cleanup" => ~j.dirty)
      BY <1>14, <3>1 DEF Outcomes, PgJob
    <3>3. settled' # "cleanup" => Still(wire', intx)
      <4>1. ASSUME ~j.dirty PROVE Still(w, intx)
        <5>1. ~w.busy /\ ~w.ended /\ w.open \subseteq Portals BY <1>14, <2>3, <4>1
        <5> QED BY <1>0, <1>14, <5>1 DEF Still, Left, Shape
      <4> QED BY <2>1, <3>2, <4>1
    <3>4. Ends BY <1>1, <1>14, <2>1, <3>1, <3>2, <3>3 DEF Ends
    <3>5. Shape' BY <1>0, <1>14, <2>1, <3>1, <3>2 DEF Shape, Outcomes
    <3>6. settled' = "ok" => library'.op # "stream" BY <1>14, <3>2
    <3>7. PgInv' BY <1>14, <2>1, <2>3, <3>1 DEF PgInv
    <3>8. PgNames' BY <1>14, <3>1 DEF PgNames, Sane
    <3> QED BY <3>4, <3>5, <3>6, <3>7, <3>8, EndsKeeps
  <2> QED BY <2>2, <2>3
(* The next turn of a call that is not a stream. *)
<1>15. ASSUME NEW j \in PgJob, NEW l \in {"fetching", "dropping", "executing"}, PG!Goto(l, j),
              at \in {"requested", "fetching", "dropping", "evicting", "executing"},
              wire' \in Wire, wire'.open \subseteq {"end"} \cup Portals,
              "end" \in wire'.open <=> "end" \in wire.open,
              ~intx => wire'.open \cap Portals = {}, wire'.ended = wire.ended,
              wire'.ended \/ "end" \in wire.open => j.dirty /\ signal = "aborted",
              wire'.tx = wire.tx \/ (wire.tx = "open" /\ wire'.tx = "spoiled"),
              l \in {"fetching", "dropping"} => j.live # <<>>,
              l = "executing" => kept'.parsed \in {"none", j.text},
              Sane(kept'), UNCHANGED <<library, consumer, subject, intx, lease>>
       PROVE  Kept /\ PgInv' /\ PgNames'
  <2>1. at' = l /\ job' = j /\ UNCHANGED <<signal, settled>> BY <1>15
  <2>2. Works BY <1>1, <1>15, <2>1 DEF Works, SameTx
  <2>3. Shape' BY <1>0, <1>15, <2>1 DEF Shape
  <2>4. library.op # "stream" BY <1>1, <1>15 DEF PgInv
  <2>5. "cursor" \notin wire'.open BY <1>15 DEF Portals
  <2>6. PgInv' BY <1>15, <2>1, <2>4, <2>5 DEF PgInv
  <2>7. PgNames' BY <1>15, <2>1 DEF PgNames, Sane
  <2> QED BY <1>15, <2>2, <2>3, <2>6, <2>7, WorksKeeps
(* What is known of a call that is not a stream, and of its answer. *)
<1>16. ASSUME at \in {"requested", "fetching", "dropping", "evicting", "executing"}
       PROVE  /\ job \in PgJob /\ wire \in Wire /\ library.op # "stream"
              /\ wire.open \subseteq {"end"} \cup Portals /\ (~intx => wire.open \cap Portals = {})
              /\ wire.ended \/ "end" \in wire.open => job.dirty /\ signal = "aborted"
              /\ library \in Sender /\ consumer \in Taker
  BY <1>0, <1>1, <1>16 DEF PgInv, Shape
<1>17. ASSUME NEW error \in BOOLEAN
       PROVE  LET w == PG!Result(error) IN
              /\ w \in Wire /\ ~w.busy /\ w.open = wire.open /\ w.ended = wire.ended
              /\ w.tx = wire.tx \/ (wire.tx = "open" /\ w.tx = "spoiled")
  BY <1>0 DEF PG!Result, Shape, Wire
<1>18. CASE PG!Requested
  <2>1. /\ at = "requested" /\ UNCHANGED <<library, consumer, kept, subject, intx, lease>>
        /\ job \in PgJob /\ wire \in Wire /\ library.op # "stream"
        /\ wire.open \subseteq {"end"} \cup Portals /\ (~intx => wire.open \cap Portals = {})
        /\ wire.ended \/ "end" \in wire.open => job.dirty /\ signal = "aborted"
        /\ library \in Sender /\ consumer \in Taker
    BY <1>16, <1>18 DEF PG!Requested
  <2>2. SUFFICES ASSUME NEW error \in BOOLEAN, NEW refused \in BOOLEAN, NEW portals \in BOOLEAN,
                        refused => ~error /\ ~job.dirty,
                        portals => ~error /\ ~job.dirty /\ job.op = "call" /\ wire.tx = "open",
                        LET j == [job EXCEPT !.failed = error \/ refused]
                            w == PG!Result(error)
                            opened == [w EXCEPT !.open = @ \cup Portals] IN
                        IF ~portals THEN PG!Done(j, w)
                        ELSE IF refused THEN PG!Done(j, opened)
                        ELSE /\ PG!Goto("fetching", [j EXCEPT !.live = <<"portal1", "portal2">>])
                             /\ wire' = [opened EXCEPT !.busy = TRUE]
                 PROVE  Kept /\ PgInv' /\ PgNames'
    BY <1>18, Zenon DEF PG!Requested, Portals
  <2> DEFINE j == [job EXCEPT !.failed = error \/ refused]
             w == PG!Result(error)
             opened == [w EXCEPT !.open = @ \cup Portals]
  <2>3. j \in PgJob /\ j.dirty = job.dirty
    <3>1. PICK f \in BOOLEAN : f = (error \/ refused) OBVIOUS
    <3>2. j = [job EXCEPT !.failed = f] BY <3>1
    <3> HIDE DEF j
    <3> QED BY <2>1, <3>2 DEF PgJob
  <2>4. /\ w \in Wire /\ ~w.busy /\ w.open = wire.open /\ w.ended = wire.ended
        /\ w.tx = wire.tx \/ (wire.tx = "open" /\ w.tx = "spoiled")
    BY <1>17
  <2>5. CASE ~portals
    <3>1. PG!Done(j, w) BY <2>2, <2>5
    <3> HIDE DEF j, w
    <3>2. "cursor" \notin w.open BY <2>1, <2>4 DEF Portals
    <3>3. w.ended => j.dirty BY <2>1, <2>3, <2>4
    <3>4. w.open \subseteq {"cursor", "end"} \cup Portals /\ (~intx => w.open \cap Portals = {})
      BY <2>1, <2>4
    <3> QED BY <1>1, <1>14, <2>1, <2>3, <2>4, <3>1, <3>2, <3>3, <3>4
  <2>6. CASE portals
    <3>1. ~wire.ended /\ "end" \notin wire.open /\ intx
      BY <1>0, <1>1, <2>1, <2>2, <2>6 DEF Known, Between
    <3>2. /\ opened \in Wire /\ ~opened.busy /\ opened.open = wire.open \cup Portals /\ ~opened.ended
          /\ opened.ended = wire.ended
          /\ opened.tx = wire.tx \/ (wire.tx = "open" /\ opened.tx = "spoiled")
      <4> HIDE DEF w
      <4>1. opened.tx = w.tx /\ opened.ended = w.ended BY <2>4 DEF Wire
      <4> QED BY <2>4, <3>1, <4>1 DEF Wire, Things
    <3>3. /\ "end" \notin opened.open /\ "cursor" \notin opened.open
          /\ opened.open \subseteq {"end"} \cup Portals
      BY <2>1, <3>1, <3>2 DEF Portals
    <3>4. CASE refused /\ PG!Done(j, opened)
      <4> HIDE DEF j, opened, w
      <4> QED BY <1>1, <1>14, <2>1, <2>3, <2>4, <3>1, <3>2, <3>3, <3>4
    <3>5. CASE /\ PG!Goto("fetching", [j EXCEPT !.live = <<"portal1", "portal2">>])
               /\ wire' = [opened EXCEPT !.busy = TRUE]
      <4> DEFINE live == <<"portal1", "portal2">>
                 k == [j EXCEPT !.live = live]
      <4>1. live \in Seq(Portals) /\ live # <<>> BY DEF Portals
      <4>2. PG!Goto("fetching", k) /\ wire' = [opened EXCEPT !.busy = TRUE] BY <3>5
      <4> HIDE DEF j, opened, w, live
      <4>3. k \in PgJob /\ k.live = live BY <2>3, <4>1 DEF PgJob
      <4>4. wire' \in Wire /\ wire'.open = opened.open /\ wire'.ended = opened.ended /\ wire'.tx = opened.tx
        BY <3>2, <4>2 DEF Wire
      <4> HIDE DEF k
      <4> QED BY <1>1, <1>15, <2>1, <2>4, <3>1, <3>2, <3>3, <4>1, <4>2, <4>3, <4>4
    <3> QED BY <2>2, <2>6, <3>4, <3>5
  <2> QED BY <2>5, <2>6
(* call: the portals. *)
<1>19. ASSUME NEW j \in PgJob, NEW w \in Wire, PG!Drop(j, w), at \in {"fetching", "dropping"},
              w.open \subseteq {"end"} \cup Portals, "end" \in w.open <=> "end" \in wire.open,
              ~intx => w.open \cap Portals = {},
              w.ended = wire.ended, ~w.busy,
              w.tx = wire.tx \/ (wire.tx = "open" /\ w.tx = "spoiled"),
              wire.ended \/ "end" \in wire.open => j.dirty /\ signal = "aborted",
              UNCHANGED <<library, consumer, kept, subject, intx, lease>>
       PROVE  Kept /\ PgInv' /\ PgNames'
  <2>1. library.op # "stream" /\ library \in Sender /\ consumer \in Taker BY <1>16, <1>19
  <2>2. "cursor" \notin w.open BY <1>19 DEF Portals
  <2>3. Sane(kept') BY <1>1, <1>19 DEF Sane
  <2>4. CASE PG!Done(j, w) BY <1>14, <1>19, <2>1, <2>2, <2>3, <2>4
  <2>5. CASE j.live # <<>> /\ PG!Goto("dropping", j) /\ wire' = [w EXCEPT !.busy = TRUE]
    <3>1. wire' \in Wire /\ wire'.open = w.open /\ wire'.ended = w.ended /\ wire'.tx = w.tx
      BY <1>19, <2>5 DEF Wire
    <3> QED BY <1>15, <1>19, <2>3, <2>5, <3>1
  <2> QED BY <1>19, <2>4, <2>5 DEF PG!Drop
<1>20. CASE PG!PortalFetched
  <2>1. /\ at = "fetching" /\ UNCHANGED <<library, consumer, kept, subject, intx, lease>>
        /\ job \in PgJob /\ wire \in Wire /\ job.live # <<>>
        /\ wire.open \subseteq {"end"} \cup Portals /\ (~intx => wire.open \cap Portals = {})
        /\ wire.ended \/ "end" \in wire.open => job.dirty /\ signal = "aborted"
    BY <1>1, <1>16, <1>20 DEF PG!PortalFetched, PgInv
  <2>2. PICK error \in BOOLEAN :
          \/ PG!Drop([job EXCEPT !.failed = TRUE], PG!Result(error))
          \/ PG!Goto("dropping", job) /\ wire' = PG!Busy
    BY <1>20 DEF PG!PortalFetched
  <2> DEFINE j == [job EXCEPT !.failed = TRUE]
             w == PG!Result(error)
  <2>3. j \in PgJob /\ j.dirty = job.dirty BY <2>1 DEF PgJob
  <2>4. /\ w \in Wire /\ ~w.busy /\ w.open = wire.open /\ w.ended = wire.ended
        /\ w.tx = wire.tx \/ (wire.tx = "open" /\ w.tx = "spoiled")
    BY <1>17
  <2>5. CASE PG!Drop(j, w)
    <3> HIDE DEF j, w
    <3> QED BY <1>19, <2>1, <2>3, <2>4, <2>5
  <2>6. CASE PG!Goto("dropping", job) /\ wire' = PG!Busy
    <3>1. wire' \in Wire /\ wire'.open = wire.open /\ wire'.ended = wire.ended /\ wire'.tx = wire.tx
      BY <2>1, <2>6 DEF Wire
    <3>2. Sane(kept') BY <1>1, <2>1 DEF Sane
    <3> QED BY <1>15, <2>1, <2>6, <3>1, <3>2
  <2> QED BY <2>2, <2>5, <2>6
<1>21. CASE PG!PortalClosed
  <2>1. /\ at = "dropping" /\ UNCHANGED <<library, consumer, kept, subject, intx, lease>>
        /\ job \in PgJob /\ wire \in Wire /\ job.live # <<>> /\ job.live \in Seq(Portals)
        /\ library.op # "stream" /\ library \in Sender /\ consumer \in Taker
        /\ wire.open \subseteq {"end"} \cup Portals /\ (~intx => wire.open \cap Portals = {})
        /\ wire.ended \/ "end" \in wire.open => job.dirty /\ signal = "aborted"
    BY <1>1, <1>16, <1>21 DEF PG!PortalClosed, PgInv, PgJob
  <2> DEFINE left == Tail(job.live)
             first == Head(job.live)
  <2>2. left \in Seq(Portals) /\ first \in Portals BY <2>1
  <2> HIDE DEF left, first
  <2>3. Sane(kept') BY <1>1, <2>1 DEF Sane
  <2>4. PICK error \in BOOLEAN :
          IF signal = "aborted" THEN PG!Done(job, PG!Free)
          ELSE IF error
          THEN PG!Drop([job EXCEPT !.dirty = job.failed, !.failed = TRUE,
                                   !.live = IF job.failed THEN left ELSE @], PG!Spoil(PG!Free))
          ELSE IF job.failed THEN PG!Drop([job EXCEPT !.live = left], PG!Close(PG!Free, first))
          ELSE IF left = <<>> THEN PG!Done(job, PG!Close(PG!Free, first))
          ELSE /\ PG!Goto("fetching", [job EXCEPT !.live = left])
               /\ wire' = [PG!Close(PG!Free, first) EXCEPT !.busy = TRUE]
    BY <1>21 DEF PG!PortalClosed, left, first
  <2> DEFINE free == [wire EXCEPT !.busy = FALSE]
             closed == [[wire EXCEPT !.busy = FALSE] EXCEPT !.open = @ \ {first}]
             spoilt == PG!Spoil(PG!Free)
             k == [job EXCEPT !.live = left]
             d == [job EXCEPT !.dirty = job.failed, !.failed = TRUE,
                              !.live = IF job.failed THEN left ELSE @]
  <2>5. free \in Wire /\ ~free.busy /\ free.open = wire.open /\ free.ended = wire.ended /\ free.tx = wire.tx
    BY <2>1 DEF Wire
  <2>6. /\ closed \in Wire /\ ~closed.busy /\ closed.open = wire.open \ {first} /\ closed.ended = wire.ended
        /\ closed.tx = wire.tx
    BY <2>1 DEF Wire
  <2>7. /\ spoilt \in Wire /\ ~spoilt.busy /\ spoilt.open = wire.open /\ spoilt.ended = wire.ended
        /\ spoilt.tx = wire.tx \/ (wire.tx = "open" /\ spoilt.tx = "spoiled")
    BY <2>1 DEF Wire
  <2>8. k \in PgJob /\ k.dirty = job.dirty /\ k.live = left BY <2>1, <2>2 DEF PgJob
  <2>9. d \in PgJob
    <3>1. PICK f \in BOOLEAN : f = job.failed BY <2>1 DEF PgJob
    <3>2. PICK s \in Seq(Portals) : s = IF job.failed THEN left ELSE job.live BY <2>1, <2>2
    <3>3. d = [job EXCEPT !.dirty = f, !.failed = TRUE, !.live = s] BY <3>1, <3>2
    <3> HIDE DEF d
    <3> QED BY <2>1, <3>3 DEF PgJob
  <2>10. "cursor" \notin wire.open /\ "end" # first BY <2>1, <2>2 DEF Portals
  <2>11. CASE PG!Done(job, PG!Free)
    <3>1. PG!Done(job, free) BY <2>11
    <3>2. /\ free.open \subseteq {"cursor", "end"} \cup Portals /\ "cursor" \notin free.open
          /\ free.ended => job.dirty
      BY <2>1, <2>5, <2>10
    <3> HIDE DEF free
    <3> QED BY <1>14, <2>1, <2>3, <2>5, <3>1, <3>2
  <2>12. CASE signal # "aborted" /\ PG!Drop(d, spoilt)
    <3> HIDE DEF d, spoilt
    <3> QED BY <1>19, <2>1, <2>7, <2>9, <2>12
  <2>13. CASE PG!Drop(k, PG!Close(PG!Free, first))
    <3>1. PG!Drop(k, closed) BY <2>13
    <3>2. /\ closed.open \subseteq {"end"} \cup Portals /\ ("end" \in closed.open <=> "end" \in wire.open)
          /\ (~intx => closed.open \cap Portals = {})
      BY <2>1, <2>6, <2>10
    <3> HIDE DEF k, closed
    <3> QED BY <1>19, <2>1, <2>6, <2>8, <3>1, <3>2
  <2>14. CASE PG!Done(job, PG!Close(PG!Free, first))
    <3>1. PG!Done(job, closed) BY <2>14
    <3>2. /\ closed.open \subseteq {"cursor", "end"} \cup Portals
          /\ "end" \in closed.open <=> "end" \in wire.open
          /\ ~intx => closed.open \cap Portals = {}
          /\ "cursor" \notin closed.open /\ (closed.ended => job.dirty)
      BY <2>1, <2>6, <2>10
    <3> HIDE DEF closed
    <3> QED BY <1>14, <2>1, <2>3, <2>6, <3>1, <3>2
  <2>15. CASE /\ left # <<>> /\ PG!Goto("fetching", k)
              /\ wire' = [PG!Close(PG!Free, first) EXCEPT !.busy = TRUE]
    <3>1. wire' = [closed EXCEPT !.busy = TRUE] BY <2>15
    <3> HIDE DEF k, closed
    <3>2. wire' \in Wire /\ wire'.open = closed.open /\ wire'.ended = closed.ended /\ wire'.tx = closed.tx
      BY <2>6, <3>1 DEF Wire
    <3>3. /\ wire'.open \subseteq {"end"} \cup Portals
          /\ "end" \in wire'.open <=> "end" \in wire.open
          /\ ~intx => wire'.open \cap Portals = {}
      BY <2>1, <2>6, <2>10, <3>2
    <3> QED BY <1>15, <2>1, <2>3, <2>6, <2>8, <2>15, <3>2, <3>3
  <2> QED BY <2>4, <2>11, <2>12, <2>13, <2>14, <2>15
(* bulk. *)
<1>22. CASE PG!Deallocated
  <2>1. /\ at = "evicting" /\ UNCHANGED <<library, consumer, subject, intx, lease>>
        /\ job \in PgJob /\ wire \in Wire /\ library.op # "stream" /\ library \in Sender /\ consumer \in Taker
        /\ wire.open \subseteq Portals /\ (~intx => wire.open \cap Portals = {})
        /\ ~wire.ended /\ "end" \notin wire.open
    BY <1>1, <1>16, <1>22 DEF PG!Deallocated, PgInv
  <2>2. PICK error \in BOOLEAN :
          /\ PG!Evicted(error)
          /\ IF error \/ signal = "aborted" THEN PG!Done([job EXCEPT !.failed = TRUE], PG!Result(error))
             ELSE PG!Goto("executing", job) /\ wire' = PG!Busy
    BY <1>22 DEF PG!Deallocated
  <2>3. Sane(kept') /\ (~error => kept'.parsed = "none")
    BY <1>1, <2>2 DEF PG!Evicted, PG!Fresh, Sane
  <2> DEFINE j == [job EXCEPT !.failed = TRUE]
             w == PG!Result(error)
  <2>4. j \in PgJob /\ j.dirty = job.dirty BY <2>1 DEF PgJob
  <2>5. /\ w \in Wire /\ ~w.busy /\ w.open = wire.open /\ w.ended = wire.ended
        /\ w.tx = wire.tx \/ (wire.tx = "open" /\ w.tx = "spoiled")
    BY <1>17
  <2>6. "cursor" \notin wire.open BY <2>1 DEF Portals
  <2>7. CASE PG!Done(j, w)
    <3> HIDE DEF j, w
    <3> QED BY <1>14, <2>1, <2>3, <2>4, <2>5, <2>6, <2>7
  <2>8. CASE ~error /\ PG!Goto("executing", job) /\ wire' = PG!Busy
    <3>1. wire' \in Wire /\ wire'.open = wire.open /\ wire'.ended = wire.ended /\ wire'.tx = wire.tx
      BY <2>1, <2>8 DEF Wire
    <3> QED BY <1>15, <2>1, <2>3, <2>8, <3>1
  <2> QED BY <2>2, <2>7, <2>8
<1>23. CASE PG!Executed
  <2>1. /\ at = "executing" /\ UNCHANGED <<library, consumer, subject, intx, lease>>
        /\ job \in PgJob /\ wire \in Wire /\ library.op # "stream" /\ library \in Sender /\ consumer \in Taker
        /\ wire.open \subseteq {"end"} \cup Portals /\ (~intx => wire.open \cap Portals = {})
        /\ wire.ended \/ "end" \in wire.open => job.dirty /\ signal = "aborted"
        /\ kept.parsed \in {"none", job.text}
    BY <1>1, <1>16, <1>23 DEF PG!Executed, PgNames
  <2>2. PICK error \in BOOLEAN, parsed \in BOOLEAN, refused \in BOOLEAN :
          /\ parsed \/ error
          /\ refused => ~error /\ ~job.dirty
          /\ PG!Spoiled => error
          /\ PG!Counted((error /\ ~PG!Spoiled /\ ~job.dirty) \/ refused)
          /\ PG!Spoiled => (parsed <=> kept.parsed = job.text)
          /\ kept' = IF parsed THEN [text |-> job.text, parsed |-> job.text, server |-> job.text] ELSE kept
          /\ LET j == [job EXCEPT !.failed = error \/ refused, !.rows = @ - 1] IN
             IF j.failed \/ j.dirty \/ j.rows = 0 THEN PG!Done(j, PG!Result(error))
             ELSE PG!Goto(at, j) /\ wire' = PG!Busy
    BY <1>23, Zenon DEF PG!Executed
  <2>3. Sane(kept') /\ kept'.parsed \in {"none", job.text}
    <3>1. job.text \in Name BY <2>1 DEF PgJob
    <3> QED BY <1>1, <2>1, <2>2, <3>1 DEF Sane
  <2> DEFINE j == [job EXCEPT !.failed = error \/ refused, !.rows = @ - 1]
             w == PG!Result(error)
  <2>4. j \in PgJob /\ j.dirty = job.dirty /\ j.text = job.text
    <3>1. PICK f \in BOOLEAN : f = (error \/ refused) OBVIOUS
    <3>2. PICK n \in Int : n = job.rows - 1 BY <2>1 DEF PgJob
    <3>3. j = [job EXCEPT !.failed = f, !.rows = n] BY <3>1, <3>2
    <3> HIDE DEF j
    <3> QED BY <2>1, <3>3 DEF PgJob
  <2>5. /\ w \in Wire /\ ~w.busy /\ w.open = wire.open /\ w.ended = wire.ended
        /\ w.tx = wire.tx \/ (wire.tx = "open" /\ w.tx = "spoiled")
    BY <1>17
  <2>6. "cursor" \notin wire.open BY <2>1 DEF Portals
  <2>7. CASE PG!Done(j, w)
    <3> HIDE DEF j, w
    <3> QED BY <1>14, <2>1, <2>3, <2>4, <2>5, <2>6, <2>7
  <2>8. CASE PG!Goto(at, j) /\ wire' = PG!Busy
    <3>1. wire' \in Wire /\ wire'.open = wire.open /\ wire'.ended = wire.ended /\ wire'.tx = wire.tx
      BY <2>1, <2>8 DEF Wire
    <3> HIDE DEF j
    <3> QED BY <1>15, <2>1, <2>3, <2>4, <2>8, <3>1
  <2> QED BY <2>2, <2>7, <2>8
(* stream. *)
<1>24. ASSUME at \in {"reading", "yielded", "closing"}
       PROVE  /\ job \in PgJob /\ wire \in Wire /\ library \in Sender /\ consumer \in Taker
              /\ wire.open \subseteq {"cursor", "end"} \cup Portals /\ (~intx => wire.open \cap Portals = {})
              /\ wire.ended \/ "end" \in wire.open => at = "yielded" /\ job.dirty /\ signal = "aborted"
              /\ at # "yielded" => ~job.dirty
              /\ Queued(job.queue)
              /\ ~job.failed /\ ~consumer.left => Len(consumer.took) + Len(job.queue) = library.sent
              /\ at = "reading" => job.queue = <<>>
              /\ at # "closing" => ~job.failed /\ ~consumer.left
              /\ at = "closing" => job.queue = <<>> \/ job.failed \/ consumer.left
  BY <1>0, <1>1, <1>24 DEF PgInv, Shape
<1>25. ASSUME NEW j \in PgJob, at \in {"reading", "yielded", "closing"}, PG!Goto("closing", j), ~j.dirty,
              ~wire.ended, "end" \notin wire.open,
              wire' \in Wire, wire'.open = wire.open, wire'.ended = wire.ended,
              wire'.tx = wire.tx \/ (wire.tx = "open" /\ wire'.tx = "spoiled"),
              j.queue = job.queue, library' \in Sender, library'.op = library.op,
              consumer' \in Taker, consumer'.took = consumer.took,
              j.queue = <<>> \/ j.failed \/ consumer'.left,
              ~j.failed /\ ~consumer'.left => Len(consumer.took) + Len(j.queue) = library'.sent,
              UNCHANGED <<kept, subject, intx, lease>>
       PROVE  Kept /\ PgInv' /\ PgNames'
  <2>1. at' = "closing" /\ job' = j /\ UNCHANGED <<signal, settled>> BY <1>25
  <2>2. Works BY <1>1, <1>25, <2>1 DEF Works, SameTx
  <2>3. Shape' BY <1>0, <1>25, <2>1 DEF Shape
  <2>4. Queued(job.queue)' BY <1>24, <1>25, <2>1 DEF Queued
  <2>5. PgInv' BY <1>24, <1>25, <2>1, <2>4 DEF PgInv
  <2>6. PgNames' BY <1>1, <1>25, <2>1 DEF PgNames, Sane
  <2> QED BY <1>25, <2>2, <2>3, <2>5, <2>6, WorksKeeps
<1>26. ASSUME NEW j \in PgJob, PG!Finally(j), at \in {"reading", "yielded"}, j.dirty = job.dirty,
              j.queue = job.queue, library' \in Sender, library'.op = library.op,
              consumer' \in Taker, consumer'.took = consumer.took,
              j.dirty \/ j.queue = <<>> \/ j.failed \/ consumer'.left,
              ~j.failed /\ ~consumer'.left => Len(consumer.took) + Len(j.queue) = library'.sent,
              UNCHANGED <<kept, subject, intx, lease>>
       PROVE  Kept /\ PgInv' /\ PgNames'
  <2>1. Sane(kept') BY <1>1, <1>26 DEF Sane
  <2>2. CASE j.dirty /\ PG!Done(j, wire)
    BY <1>14, <1>24, <1>26, <2>1, <2>2
  <2>3. CASE ~j.dirty /\ PG!Goto("closing", j) /\ wire' = PG!Busy
    <3>1. wire' \in Wire /\ wire'.open = wire.open /\ wire'.ended = wire.ended /\ wire'.tx = wire.tx
      BY <1>24, <1>26, <2>3 DEF Wire
    <3>2. ~wire.ended /\ "end" \notin wire.open BY <1>24, <1>26, <2>3
    <3> QED BY <1>25, <1>26, <2>3, <3>1, <3>2
  <2> QED BY <1>26, <2>2, <2>3 DEF PG!Finally
<1>27. ASSUME NEW j \in PgJob, PG!Hand(j), at \in {"reading", "yielded"}, ~j.dirty, ~j.failed, ~consumer.left,
              ~wire.ended, "end" \notin wire.open,
              j.queue # <<>>, Queued(j.queue), Len(consumer.took) + Len(j.queue) = library'.sent,
              library' \in Sender, library'.op = library.op,
              wire' \in Wire, wire'.tx = wire.tx, wire'.ended = wire.ended, wire'.open = wire.open,
              UNCHANGED <<kept, subject, intx, lease>>
       PROVE  Kept /\ PgInv' /\ PgNames'
  <2> DEFINE q == j.queue
             k == [j EXCEPT !.queue = Tail(@)]
  <2>1. q \in Seq(Nat) BY <1>27 DEF PgJob
  <2>2. /\ consumer' \in Taker /\ consumer'.left = consumer.left
        /\ consumer' = [consumer EXCEPT !.took = Append(@, Len(consumer.took) + 1)]
        /\ Tail(q) \in Seq(Nat)
        /\ \A i \in 1 .. Len(Tail(q)) : Tail(q)[i] = Len(consumer'.took) + i
        /\ Len(consumer'.took) + Len(Tail(q)) = Len(consumer.took) + Len(q)
    BY <1>0, <1>27, <2>1, HandQueued DEF PG!Hand
  <2>3. k \in PgJob /\ k.queue = Tail(q) /\ ~k.failed /\ ~k.dirty BY <1>27, <2>2 DEF PgJob
  <2>4. at' = "yielded" /\ job' = k /\ UNCHANGED <<signal, settled>> BY <1>27 DEF PG!Hand
  <2> HIDE DEF k
  <2>5. Queued(job.queue)' /\ Len(consumer'.took) + Len(job'.queue) = library'.sent
    BY <1>27, <2>2, <2>3, <2>4 DEF Queued
  <2>6. Takes BY <1>1, <1>27, <2>2, <2>4 DEF Takes, Works, SameTx
  <2>7. Shape' BY <1>0, <1>27, <2>2, <2>4 DEF Shape
  <2>8. PgInv' BY <1>24, <1>27, <2>2, <2>3, <2>4, <2>5 DEF PgInv
  <2>9. PgNames' BY <1>1, <1>27, <2>4 DEF PgNames, Sane
  <2> QED BY <2>6, <2>7, <2>8, <2>9, TakesKeeps
<1>28. CASE PG!Read
  <2>1. at = "reading" /\ UNCHANGED <<kept, subject, intx, lease>> BY <1>28 DEF PG!Read
  <2>2. PICK n \in 0 .. MaxBufferedRows :
          /\ library' = [library EXCEPT !.sent = @ + n]
          /\ IF n = 0 THEN PG!Finally(job) /\ UNCHANGED consumer
             ELSE /\ PG!Hand([job EXCEPT !.queue = [i \in 1 .. n |-> library.sent + i],
                                         !.last = n < MaxBufferedRows])
                  /\ wire' = PG!Free
    BY <1>28 DEF PG!Read
  <2>3. n \in Nat BY BulkConstants
  <2>4. library' \in Sender /\ library'.op = library.op /\ library'.sent = library.sent + n
    BY <1>0, <2>2, <2>3 DEF Shape, Sender
  <2>5. Caught BY <1>24, <2>1 DEF Caught, Taker, Sender
  <2>6. CASE n = 0
    <3>1. PG!Finally(job) /\ UNCHANGED consumer BY <2>2, <2>6
    <3>2. library'.sent = library.sent BY <1>24, <2>1, <2>4, <2>6 DEF Sender
    <3> QED BY <1>24, <1>26, <2>1, <2>4, <3>1, <3>2
  <2>7. CASE n # 0
    <3> DEFINE q == [i \in 1 .. n |-> library.sent + i]
               j == [job EXCEPT !.queue = q, !.last = n < MaxBufferedRows]
    <3>1. q \in Seq(Nat) /\ Len(q) = n /\ Queued(q) BY <1>0, <2>3, <2>5, BatchQueued
    <3>2. PG!Hand(j) /\ wire' = PG!Free BY <2>2, <2>7
    <3> HIDE DEF q
    <3>3. j \in PgJob /\ j.queue = q /\ ~j.dirty /\ ~j.failed
      <4>0. (n < MaxBufferedRows) \in BOOLEAN BY <2>3, BulkConstants
      <4>1. PICK b \in BOOLEAN : b = (n < MaxBufferedRows) BY <4>0, Zenon
      <4>2. j = [job EXCEPT !.queue = q, !.last = b] BY <4>1
      <4>3. job \in PgJob /\ ~job.dirty /\ ~job.failed BY <1>24, <2>1
      <4> HIDE DEF j
      <4> QED BY <3>1, <4>2, <4>3 DEF PgJob
    <3>4. wire' \in Wire /\ wire'.tx = wire.tx /\ wire'.ended = wire.ended /\ wire'.open = wire.open
      BY <1>24, <2>1, <3>2 DEF Wire
    <3>5. q # <<>> /\ Len(consumer.took) + Len(q) = library'.sent
      BY <2>4, <2>5, <2>7, <3>1 DEF Caught
    <3>6. ~wire.ended /\ "end" \notin wire.open /\ ~consumer.left BY <1>24, <2>1
    <3> HIDE DEF j
    <3> QED BY <1>27, <2>1, <2>4, <3>1, <3>2, <3>3, <3>4, <3>5, <3>6
  <2> QED BY <2>6, <2>7
<1>29. CASE PG!ReadFailed
  <2>1. at = "reading" /\ UNCHANGED <<library, consumer, kept, subject, intx, lease>>
    BY <1>29 DEF PG!ReadFailed
  <2> DEFINE j == [job EXCEPT !.failed = TRUE]
  <2>2. PICK error \in BOOLEAN :
          /\ PG!Goto("closing", j)
          /\ wire' = IF error THEN PG!Spoil(PG!Busy) ELSE PG!Busy
    BY <1>29 DEF PG!ReadFailed
  <2>3. /\ wire' \in Wire /\ wire'.open = wire.open /\ wire'.ended = wire.ended
        /\ wire'.tx = wire.tx \/ (wire.tx = "open" /\ wire'.tx = "spoiled")
    BY <1>24, <2>1, <2>2 DEF Wire
  <2>4. j \in PgJob /\ j.failed /\ ~j.dirty /\ j.queue = job.queue BY <1>24, <2>1 DEF PgJob
  <2> HIDE DEF j
  <2> QED BY <1>24, <1>25, <2>1, <2>2, <2>3, <2>4
<1>30. CASE PG!Continue
  <2>1. at = "yielded" /\ UNCHANGED <<library, kept, subject, intx, lease>>
    BY <1>30 DEF PG!Continue
  <2>2. CASE job.dirty /\ PG!Finally([job EXCEPT !.failed = TRUE]) /\ UNCHANGED consumer
    <3> DEFINE j == [job EXCEPT !.failed = TRUE]
    <3>1. j \in PgJob /\ j.failed /\ j.dirty = job.dirty /\ j.queue = job.queue
      BY <1>24, <2>1 DEF PgJob
    <3>2. PG!Finally(j) BY <2>2
    <3> HIDE DEF j
    <3> QED BY <1>24, <1>26, <2>1, <2>2, <3>1, <3>2
  <2>3. CASE ~job.dirty /\ job.queue # <<>> /\ PG!Hand(job) /\ UNCHANGED wire
    BY <1>24, <1>27, <2>1, <2>3
  <2>4. CASE ~job.dirty /\ job.queue = <<>> /\ PG!Finally(job) /\ UNCHANGED consumer
    BY <1>24, <1>26, <2>1, <2>4
  <2>5. CASE ~job.dirty /\ job.queue = <<>> /\ PG!Goto("reading", job) /\ wire' = PG!Busy /\ UNCHANGED consumer
    <3>1. wire' \in Wire /\ wire'.open = wire.open /\ wire'.ended = wire.ended /\ wire'.tx = wire.tx
      BY <1>24, <2>1, <2>5 DEF Wire
    <3>2. at' = "reading" /\ job' = job /\ UNCHANGED <<signal, settled, consumer>> BY <2>5
    <3>3. Works /\ Shape' BY <1>0, <1>1, <2>1, <3>1, <3>2 DEF Works, SameTx, Shape
    <3>4. PgInv' BY <1>24, <2>1, <2>5, <3>1, <3>2 DEF PgInv, Queued
    <3>5. PgNames' BY <1>1, <2>1, <3>2 DEF PgNames, Sane
    <3> QED BY <3>2, <3>3, <3>4, <3>5, WorksKeeps
  <2> QED BY <1>30, <2>2, <2>3, <2>4, <2>5 DEF PG!Continue
<1>31. CASE PG!Leave
  <2>1. /\ at = "yielded" /\ UNCHANGED <<library, kept, subject, intx, lease>> /\ PG!Finally(job)
        /\ consumer' = [consumer EXCEPT !.left = TRUE]
    BY <1>31 DEF PG!Leave
  <2>2. consumer' \in Taker /\ consumer'.took = consumer.took /\ consumer'.left
    BY <1>0, <2>1 DEF Shape, Taker
  <2> QED BY <1>24, <1>26, <2>1, <2>2
<1>32. CASE PG!CursorClosed
  <2>1. at = "closing" /\ UNCHANGED <<library, consumer, kept, subject, intx, lease>>
    BY <1>32 DEF PG!CursorClosed
  <2>2. PICK error \in BOOLEAN :
          /\ PG!Settle(PG!Outcome([job EXCEPT !.dirty = error]))
          /\ wire' = IF error THEN PG!Free ELSE PG!Close(PG!Free, "cursor")
    BY <1>32 DEF PG!CursorClosed
  <2>3. /\ at' = "idle" /\ signal' = "none" /\ settled' \in Outcomes
        /\ settled' # "cleanup" => ~error
        /\ settled' = "ok" => ~job.failed
    BY <1>24, <2>1, <2>2 DEF Outcomes, PgJob
  <2>4. /\ wire' \in Wire /\ wire'.tx = wire.tx /\ wire'.ended = wire.ended /\ ~wire'.busy
        /\ wire'.open \subseteq wire.open /\ (~error => "cursor" \notin wire'.open)
    BY <1>24, <2>1, <2>2 DEF Wire
  <2>5. ~wire.ended /\ "end" \notin wire.open /\ wire.open \subseteq {"cursor"} \cup Portals
        /\ (~intx => wire.open \cap Portals = {})
    BY <1>24, <2>1
  <2>6. ~error => Still(wire', intx) BY <1>0, <2>4, <2>5 DEF Still, Left, Shape
  <2>7. Ends BY <1>1, <2>1, <2>3, <2>4, <2>6 DEF Ends, SameTx
  <2>8. Shape' BY <1>0, <2>1, <2>3, <2>4 DEF Shape, Outcomes
  <2>9. settled' = "ok" /\ ~consumer'.left => Caught'
    BY <1>24, <2>1, <2>3 DEF Caught, Sender, Taker
  <2>10. PgInv' BY <2>3, <2>4, <2>5 DEF PgInv
  <2>11. PgNames' BY <1>1, <2>1, <2>3 DEF PgNames, Sane
  <2> QED BY <2>7, <2>8, <2>9, <2>10, <2>11, EndsKeeps
<1> QED
  BY <1>3, <1>4, <1>5, <1>6, <1>7, <1>8, <1>9, <1>10, <1>11, <1>12, <1>13, <1>18, <1>20,
    <1>21, <1>22, <1>23,
    <1>28, <1>29, <1>30, <1>31, <1>32
  DEF PG!Next, PG!Progress
-----------------------------------------------------------------------------
(* tedious. *)

(* What Tedious takes from DriverState means the same there and here. *)
LEMMA TediousShares ==
    ASSUME NEW k, NEW l, NEW j, NEW op, NEW d, NEW r
    PROVE  /\ TD!Start(k, l, j) <=> Start(k, l, j)
           /\ TD!Request(op, d) = Request(op, d)
           /\ TD!Unsent(k) <=> Unsent(k)
           /\ TD!Control(k) <=> Control(k)
           /\ TD!Answered(k, r) <=> Answered(k, r)
           /\ TD!ReleaseOrDiscard(k) <=> ReleaseOrDiscard(k)
<1>1. TD!Start(k, l, j) <=> Start(k, l, j)
  BY DEF Start, Unread,
    TD!Start, TD!Unread
<1>2. TD!Request(op, d) = Request(op, d)
  BY DEF Request, NoRequest,
    TD!Request, TD!NoRequest
<1>3. TD!Unsent(k) <=> Unsent(k)
  BY DEF Unsent, Turn, Counted, NoRequest, Unread,
    TD!Unsent, TD!Turn, TD!Counted, TD!NoRequest, TD!Unread
<1>4. TD!Control(k) <=> Control(k)
  BY DEF Control, Start, Busy, NoRequest, Unread, Connected,
    TD!Control, TD!Start, TD!Busy, TD!NoRequest, TD!Unread, TD!Connected
<1>5. TD!Answered(k, r) <=> Answered(k, r)
  BY DEF Answered, Transaction, Portals, Settle, Counted, Free, NoJob,
    TD!Answered, TD!Transaction, TD!Portals, TD!Settle, TD!Counted, TD!Free, TD!NoJob
<1>6. TD!ReleaseOrDiscard(k) <=> ReleaseOrDiscard(k)
  BY DEF ReleaseOrDiscard, Releasable, Poisoned, Leased,
    TD!ReleaseOrDiscard, TD!Releasable, TD!Poisoned, TD!Leased
<1> QED BY <1>1, <1>2, <1>3, <1>4, <1>5, <1>6

(* Every step of the tedious executor is of one of the kinds. *)
LEMMA TediousKeeps ==
    ASSUME Common, TediousInv, TD!Next
    PROVE  Kept /\ TediousInv'
<1> USE DEF TD!Me, TD!Goto, TD!Raise, TD!Settle, TD!Outcome, TD!Counted, TD!Free, TD!Busy, TD!owner
<1> DEFINE Labels == {"waiting", "woken", "yielded", "draining"}
           Others == {"requested", "preparing", "executing", "unpreparing"}
<1>0. Shape /\ Between BY DEF Common, Base
<1>1. subject = "tedious" /\ wire.open \subseteq {"statement"} /\ ~wire.ended
  BY DEF TD!Next, TD!Query, TD!Stream, TD!Send, TD!Start, TD!Unsendable,
  TD!Unsent, TD!Turn, TD!Bulk, TD!ControlSent, TD!Control, TD!Release, TD!ReleaseOrDiscard,
    TD!Releasable,
  TD!Refused, TD!Aborted, TD!Complaint, TD!StreamAborted, TD!PrepareAborted, TD!ExecuteRefused,
  TD!ExecuteAborted, TD!Progress, TD!Completed, TD!Row, TD!Flowing, TD!Streaming,
    TD!RequestCompleted,
  TD!Continue, TD!Leave, TD!Drained, TD!Prepared, TD!PrepareFailed, TD!Executed, TD!Unprepared,
  TD!ControlAnswered, TD!Answered, TediousInv
(* Calls that begin. *)
<1>2. ASSUME NEW op \in Ops, NEW l \in {"requested", "waiting", "preparing"}, TD!Send(op, l),
             op = "stream" <=> l = "waiting"
      PROVE  Kept /\ TediousInv'
  <2> DEFINE j == TD!Closure(op)
  <2>1. PICK deaf \in BOOLEAN : library' = Request(op, deaf) BY <1>2, TediousShares DEF TD!Send
  <2>2. /\ Start("tedious", l, j) /\ wire' = [wire EXCEPT !.busy = TRUE]
        /\ signal' \in {"none", "armed"} /\ intx' = intx
    BY <1>2, TediousShares DEF TD!Send
  <2>3. j \in TediousJob /\ ~j.done /\ j.queue = <<>>
    BY BulkConstants DEF TediousJob, TD!Closure
  <2> HIDE DEF j
  <2>4. wire' \in Wire /\ wire'.tx = wire.tx /\ wire'.open = wire.open /\ wire'.ended = wire.ended
    BY <1>0, <2>2 DEF Shape, Wire
  <2>5. /\ Kept /\ subject' = "tedious" /\ at' = l /\ job' = j /\ library'.op = op
        /\ consumer' = [took |-> <<>>, left |-> FALSE] /\ library'.sent = 0 /\ Still(wire, intx)
    BY <1>2, <2>1, <2>2, <2>4, StartKeeps
  <2>6. ~wire'.ended /\ wire'.open = {} BY <1>1, <2>4, <2>5 DEF Still, Left, Portals
  <2>7. Queued(job.queue)' /\ Len(consumer'.took) + Len(job'.queue) = 0
    BY <2>3, <2>5 DEF Queued
  <2>8. TediousInv' BY <1>2, <2>3, <2>5, <2>6, <2>7 DEF TediousInv
  <2> QED BY <2>5, <2>8
<1>3. CASE TD!Query \/ TD!Stream \/ TD!Bulk BY <1>2, <1>3 DEF TD!Query, TD!Stream, TD!Bulk, Ops
<1>4. CASE TD!Unsendable
  <2>1. Unsent("tedious") BY <1>4, TediousShares DEF TD!Unsendable
  <2> QED BY <1>1, <2>1, UnsentKeeps DEF TediousInv
<1>5. CASE TD!ControlSent
  <2>1. Control("tedious") BY <1>5, TediousShares DEF TD!ControlSent
  <2>2. /\ Kept /\ at' = "control"
        /\ wire'.open = wire.open /\ wire'.open \subseteq Left(intx) /\ wire'.ended = FALSE
        /\ UNCHANGED <<subject, kept, intx, lease>>
    BY <2>1, ControlKeeps
  <2> QED BY <1>1, <2>2 DEF TediousInv, Left, Portals
<1>6. CASE TD!ControlAnswered
  <2>1. Answered("tedious", FALSE) BY <1>6, TediousShares DEF TD!ControlAnswered
  <2>2. /\ Kept /\ at' = "idle" /\ wire'.open \subseteq wire.open /\ wire'.ended = FALSE
        /\ UNCHANGED <<subject, library, consumer, lease>>
    BY <2>1, AnsweredKeeps
  <2> QED BY <1>1, <2>2 DEF TediousInv
<1>7. CASE TD!Release
  <2>1. ReleaseOrDiscard("tedious") BY <1>7, TediousShares DEF TD!Release
  <2> QED BY <1>1, <2>1, ReleaseKeeps DEF TediousInv
(* The end of a call, and its next turn. *)
<1>8. ASSUME NEW outcome \in Outcomes, TD!Settle(outcome), at \notin {"idle", "control"},
             wire' \in Wire, wire'.tx = wire.tx, ~wire'.ended, wire'.open \subseteq {"statement"},
             outcome # "cleanup" => ~wire'.busy /\ wire'.open = {},
             library' \in Sender, library'.op = library.op,
             consumer' \in Taker, consumer'.took = consumer.took,
             outcome = "ok" /\ library.op = "stream" /\ ~consumer'.left => Caught',
             UNCHANGED <<subject, intx, lease>>
      PROVE  Kept /\ TediousInv'
  <2>1. at' = "idle" /\ signal' = "none" /\ settled' = outcome BY <1>8
  <2>2. Ends BY <1>1, <1>8, <2>1 DEF Ends, Still, SameTx
  <2>3. Shape' BY <1>0, <1>8, <2>1 DEF Shape, Outcomes
  <2>4. TediousInv' BY <1>8, <2>1 DEF TediousInv
  <2> QED BY <1>8, <2>1, <2>2, <2>3, <2>4, EndsKeeps
<1>9. ASSUME NEW j \in TediousJob, NEW l \in Others, at \in Others, at' = l, job' = j,
             signal' \in {"none", "armed", "aborted"}, settled' = settled,
             wire' \in Wire, wire'.tx = wire.tx, ~wire'.ended, wire'.open \subseteq {"statement"},
             l \in {"requested", "preparing"} => wire'.open = {},
             library' \in Sender, library'.op = library.op,
             UNCHANGED <<consumer, subject, intx, lease>>
      PROVE  Kept /\ TediousInv'
  <2>1. Works BY <1>1, <1>9 DEF Works, SameTx
  <2>2. Shape' BY <1>0, <1>9 DEF Shape
  <2>3. library.op # "stream" BY <1>1, <1>9 DEF TediousInv
  <2>4. TediousInv' BY <1>9, <2>3 DEF TediousInv
  <2> QED BY <1>9, <2>1, <2>2, <2>4, WorksKeeps
<1>10. ASSUME NEW j \in TediousJob, NEW l \in Labels, at \in Labels, at' = l, job' = j,
              signal' \in {"none", "armed", "aborted"}, settled' = settled,
              wire' \in Wire, wire'.tx = wire.tx, ~wire'.ended, wire'.open = {},
              library' \in Sender, library'.op = library.op,
              consumer' \in Taker, consumer'.took = consumer.took,
              j.done => ~wire'.busy, Queued(j.queue), l = "draining" => j.failed,
              ~j.failed => Len(consumer.took) + Len(j.queue) = library'.sent,
              UNCHANGED <<subject, intx, lease>>
       PROVE  Kept /\ TediousInv'
  <2>1. Works BY <1>1, <1>10 DEF Works, SameTx
  <2>2. Shape' BY <1>0, <1>10 DEF Shape
  <2>3. Queued(job.queue)' BY <1>10 DEF Queued
  <2>4. TediousInv' BY <1>10, <2>3 DEF TediousInv
  <2> QED BY <1>10, <2>1, <2>2, <2>4, WorksKeeps
<1>11. wire \in Wire /\ library \in Sender /\ consumer \in Taker /\ signal \in {"none", "armed", "aborted"}
  BY <1>0 DEF Shape
(* collect. *)
<1>12. ASSUME at = "requested"
       PROVE  /\ job \in TediousJob /\ TD!Failing(job) \in TediousJob
              /\ TD!Asked \in Sender /\ TD!Asked.op = library.op
              /\ library.op # "stream" /\ wire.open = {}
  <2>1. job \in TediousJob /\ library.op # "stream" /\ wire.open = {}
    BY <1>1, <1>12 DEF TediousInv
  <2>2. TD!Failing(job) \in TediousJob BY <1>11, <2>1 DEF TD!Failing, TediousJob, Sender
  <2>3. TD!Asked \in Sender /\ TD!Asked.op = library.op
    <3>1. PICK b \in BOOLEAN : b = (library.stopped \/ (~job.cancelled /\ ~library.deaf)) OBVIOUS
    <3>2. TD!Asked = [library EXCEPT !.stopped = b] BY <3>1 DEF TD!Asked
    <3> QED BY <1>11, <3>2 DEF Sender
  <2> QED BY <2>1, <2>2, <2>3
<1>13. CASE TD!Refused \/ TD!Aborted
  <2>1. /\ at = "requested" /\ at' = at /\ job' = TD!Failing(job) /\ library' = TD!Asked
        /\ signal' \in {"none", "armed", "aborted"} /\ settled' = settled
        /\ UNCHANGED <<consumer, wire, subject, intx, lease>>
    BY <1>11, <1>13 DEF TD!Refused, TD!Aborted
  <2> DEFINE j == TD!Failing(job)
  <2>2. job' = j /\ j \in TediousJob BY <1>12, <2>1
  <2> HIDE DEF j
  <2> QED BY <1>1, <1>9, <1>11, <1>12, <2>1, <2>2
<1>14. CASE TD!Completed
  <2>1. at = "requested" /\ UNCHANGED <<library, consumer, subject, intx, lease>>
        /\ wire' = [wire EXCEPT !.busy = FALSE]
    BY <1>14 DEF TD!Completed
  <2>2. PICK error \in BOOLEAN : TD!Settle(TD!Outcome([job EXCEPT !.failed = @ \/ error]))
    BY <1>14 DEF TD!Completed
  <2> DEFINE outcome == TD!Outcome([job EXCEPT !.failed = @ \/ error])
  <2>3. outcome \in Outcomes BY <1>12, <2>1 DEF Outcomes, TediousJob
  <2>4. wire' \in Wire /\ wire'.tx = wire.tx /\ ~wire'.ended /\ wire'.open = {} /\ ~wire'.busy
    BY <1>1, <1>11, <1>12, <2>1 DEF Wire
  <2>5. TD!Settle(outcome) BY <2>2
  <2> HIDE DEF outcome
  <2> QED BY <1>8, <1>11, <1>12, <2>1, <2>3, <2>4, <2>5
(* streamRows. *)
<1>15. ASSUME at \in Labels
       PROVE  /\ job \in TediousJob /\ wire.open = {} /\ (job.done => ~wire.busy) /\ Queued(job.queue)
              /\ job.queue \in Seq(Nat)
              /\ ~job.failed => Len(consumer.took) + Len(job.queue) = library.sent
              /\ at = "draining" => job.failed
  BY <1>1, <1>15 DEF TediousInv, TediousJob
<1>16. ASSUME at \in Labels
       PROVE  LET k == TD!Cancel(job) l == TD!Cancelled(job) IN
              /\ k \in TediousJob /\ k.failed /\ k.done = job.done /\ k.queue = job.queue
              /\ k.dirty => job.dirty \/ ~job.done
              /\ l \in Sender /\ l.op = library.op
  <2>1. job \in TediousJob BY <1>15, <1>16
  <2>2. CASE job.done \/ job.cancelled
    BY <1>11, <2>1, <2>2 DEF TD!Cancel, TD!Cancelled, TediousJob
  <2>3. CASE ~job.done /\ ~job.cancelled
    <3>1. PICK d \in BOOLEAN : d = library.deaf BY <1>11 DEF Sender
    <3>2. PICK p \in BOOLEAN : p = (job.paused /\ library.deaf) OBVIOUS
    <3> DEFINE k == TD!Cancel(job)
    <3>3. k = [job EXCEPT !.failed = TRUE, !.cancelled = TRUE, !.dirty = d, !.paused = p]
      BY <2>3, <3>1, <3>2 DEF TD!Cancel
    <3> HIDE DEF k
    <3>4. k \in TediousJob /\ k.failed /\ k.done = job.done /\ k.queue = job.queue
      BY <2>1, <3>3 DEF TediousJob
    <3>5. TD!Cancelled(job) \in Sender /\ TD!Cancelled(job).op = library.op
      BY <1>11 DEF TD!Cancelled, Sender
    <3> QED BY <2>3, <3>4, <3>5 DEF k
  <2> QED BY <2>2, <2>3
<1>17. TD!Awake \in {at, "woken"} /\ (TD!Awake = "draining" => at = "draining") BY DEF TD!Awake
<1>18. CASE TD!Row
  <2>1. /\ at \in Labels /\ wire.busy /\ library.sent < MaxRows
        /\ UNCHANGED <<consumer, wire, subject, intx, lease>>
    BY <1>18 DEF TD!Row, TD!Flowing, TD!Streaming
  <2> DEFINE row == library.sent + 1
             queue == Append(job.queue, row)
             pause == ~job.failed /\ ~job.paused /\ TD!Full(queue)
             j == IF job.failed THEN job ELSE [job EXCEPT !.queue = queue, !.paused = @ \/ pause]
  <2>2. /\ at' = TD!Awake /\ job' = j /\ UNCHANGED <<signal, settled>>
        /\ library' = [library EXCEPT !.sent = row, !.paused = @ \/ pause]
    BY <1>18 DEF TD!Row
  <2>4. row \in Nat /\ row = library.sent + 1 /\ library.sent \in Nat BY <1>11 DEF Sender
  <2> HIDE DEF row
  <2>3. library' \in Sender /\ library'.op = library.op /\ library'.sent = library.sent + 1
    <3>1. PICK p \in BOOLEAN : p = (library.paused \/ pause) OBVIOUS
    <3>2. library' = [library EXCEPT !.sent = row, !.paused = p] BY <2>2, <3>1
    <3> QED BY <1>11, <2>4, <3>2 DEF Sender
  <2> DEFINE took == Len(consumer.took)
             held == Len(job.queue)
             sent == library.sent
  <2>9. /\ queue \in Seq(Nat) /\ Len(queue) = held + 1 /\ queue[held + 1] = row
        /\ \A i \in 1 .. held : queue[i] = job.queue[i]
        /\ took \in Nat /\ held \in Nat /\ sent \in Nat /\ row = sent + 1
        /\ ~job.failed => took + held = sent
    <3>1. job.queue \in Seq(Nat) /\ consumer.took \in Seq(Nat) BY <1>11, <1>15, <2>1 DEF Taker
    <3>2. ~job.failed => took + held = sent BY <1>15, <2>1
    <3> DEFINE q == job.queue
    <3> HIDE DEF q, pause, j
    <3>3. /\ Append(q, row) \in Seq(Nat) /\ Len(Append(q, row)) = Len(q) + 1 /\ Append(q, row)[Len(q) + 1] = row
          /\ \A i \in 1 .. Len(q) : Append(q, row)[i] = q[i]
      BY <2>4, <3>1 DEF q
    <3>4. /\ queue \in Seq(Nat) /\ Len(queue) = held + 1 /\ queue[held + 1] = row
          /\ \A i \in 1 .. held : queue[i] = job.queue[i]
      BY <3>3 DEF q
    <3>5. took \in Nat /\ held \in Nat BY <3>1
    <3> HIDE DEF queue, took, held, sent
    <3> QED BY <2>4, <3>2, <3>4, <3>5 DEF sent
  <2>5. /\ j \in TediousJob /\ j.failed = job.failed /\ j.done = job.done
        /\ j.queue = IF job.failed THEN job.queue ELSE queue
    <3>1. PICK p \in BOOLEAN : p = (job.paused \/ pause) OBVIOUS
    <3>2. queue \in Seq(Nat) BY <2>9
    <3> HIDE DEF queue
    <3>3. j = IF job.failed THEN job ELSE [job EXCEPT !.queue = queue, !.paused = p] BY <3>1
    <3> HIDE DEF j
    <3> QED BY <1>15, <2>1, <3>2, <3>3 DEF TediousJob
  <2>6. Queued(j.queue)
    <3>1. CASE job.failed BY <1>15, <2>1, <2>5, <3>1
    <3>2. CASE ~job.failed
      <4>1. j.queue = queue BY <2>5, <3>2
      <4> HIDE DEF queue, took, held, sent
      <4>2. SUFFICES ASSUME NEW i \in 1 .. held + 1 PROVE queue[i] = took + i
        BY <2>9, <4>1 DEF Queued, took
      <4>3. CASE i = held + 1 BY <2>9, <3>2, <4>3
      <4>4. CASE i \in 1 .. held
        <5>1. job.queue[i] = took + i BY <1>15, <2>1, <4>4 DEF Queued, took, held
        <5> QED BY <2>9, <4>4, <5>1
      <4> QED BY <2>9, <4>3, <4>4
    <3> QED BY <3>1, <3>2
  <2>7. ~j.failed => Len(consumer.took) + Len(j.queue) = library'.sent
    <3>1. ASSUME ~job.failed PROVE took + Len(queue) = sent + 1
      <4> HIDE DEF queue, took, held, sent
      <4> QED BY <2>9, <3>1
    <3> QED BY <2>3, <2>5, <3>1
  <2> HIDE DEF j
  <2>8. at' \in Labels /\ (at' = "draining" => j.failed) BY <1>15, <1>17, <2>1, <2>2, <2>5
  <2> QED BY <1>1, <1>10, <1>11, <1>15, <2>1, <2>2, <2>3, <2>5, <2>6, <2>7, <2>8
<1>19. CASE TD!Complaint \/ TD!StreamAborted
  <2>1. /\ at \in Labels /\ at' = TD!Awake /\ job' = TD!Cancel(job) /\ library' = TD!Cancelled(job)
        /\ signal' \in {"none", "armed", "aborted"} /\ settled' = settled
        /\ UNCHANGED <<consumer, wire, subject, intx, lease>>
    BY <1>11, <1>19 DEF TD!Complaint, TD!StreamAborted, TD!Flowing, TD!Streaming
  <2> DEFINE k == TD!Cancel(job)
             l == TD!Cancelled(job)
  <2>2. /\ k \in TediousJob /\ k.failed /\ k.done = job.done /\ k.queue = job.queue /\ job' = k
        /\ l \in Sender /\ l.op = library.op /\ library' = l
    BY <1>16, <2>1
  <2>3. at' \in Labels BY <1>17, <2>1
  <2> HIDE DEF k, l
  <2> QED BY <1>1, <1>10, <1>11, <1>15, <2>1, <2>2, <2>3
<1>20. CASE TD!RequestCompleted
  <2>1. /\ at \in Labels /\ wire' = [wire EXCEPT !.busy = FALSE]
        /\ UNCHANGED <<library, consumer, subject, intx, lease>>
    BY <1>20 DEF TD!RequestCompleted, TD!Flowing, TD!Streaming
  <2>2. PICK error \in BOOLEAN : TD!Goto(TD!Awake, [job EXCEPT !.done = TRUE, !.failed = @ \/ error])
    BY <1>20 DEF TD!RequestCompleted
  <2> DEFINE j == [job EXCEPT !.done = TRUE, !.failed = @ \/ error]
  <2>3. at' = TD!Awake /\ job' = j /\ UNCHANGED <<signal, settled>> BY <2>2
  <2>4. j \in TediousJob /\ j.queue = job.queue /\ (job.failed => j.failed)
    <3>1. PICK f \in BOOLEAN : f = (job.failed \/ error) OBVIOUS
    <3>2. j = [job EXCEPT !.done = TRUE, !.failed = f] BY <3>1
    <3> HIDE DEF j
    <3> QED BY <1>15, <2>1, <3>1, <3>2 DEF TediousJob
  <2> HIDE DEF j
  <2>5. at' \in Labels /\ (at' = "draining" => j.failed) BY <1>15, <1>17, <2>1, <2>3, <2>4
  <2>6. wire' \in Wire /\ wire'.tx = wire.tx /\ ~wire'.ended /\ wire'.open = {} /\ ~wire'.busy
    BY <1>1, <1>11, <1>15, <2>1 DEF Wire
  <2> QED BY <1>10, <1>11, <1>15, <2>1, <2>3, <2>4, <2>5, <2>6
<1>21. ASSUME NEW thrown \in BOOLEAN, TD!Finally(thrown), at \in {"woken", "yielded"},
              consumer' \in Taker, consumer'.took = consumer.took,
              job.done /\ ~thrown /\ ~consumer'.left => ~job.failed /\ job.queue = <<>>,
              UNCHANGED <<wire, subject, intx, lease>>
       PROVE  Kept /\ TediousInv'
  <2>1. CASE job.done
    <3> DEFINE outcome == IF job.dirty THEN "cleanup" ELSE IF thrown THEN "failed" ELSE "ok"
    <3>1. TD!Settle(outcome) /\ library' = library BY <1>21, <2>1 DEF TD!Finally
    <3>2. outcome \in Outcomes /\ (outcome = "ok" => ~thrown) BY DEF Outcomes
    <3> HIDE DEF outcome
    <3>3. outcome = "ok" /\ ~consumer'.left => Caught'
      BY <1>11, <1>15, <1>21, <2>1, <3>1, <3>2 DEF Caught, Taker, Sender
    <3> QED BY <1>1, <1>8, <1>11, <1>15, <1>21, <2>1, <3>1, <3>2, <3>3
  <2>2. CASE ~job.done
    <3>1. /\ at' = "draining" /\ job' = TD!Cancel(job) /\ library' = TD!Cancelled(job)
          /\ signal' = "none" /\ settled' = settled
      BY <1>21, <2>2 DEF TD!Finally
    <3> DEFINE k == TD!Cancel(job)
               l == TD!Cancelled(job)
    <3>2. /\ k \in TediousJob /\ k.failed /\ k.done = job.done /\ k.queue = job.queue /\ job' = k
          /\ l \in Sender /\ l.op = library.op /\ library' = l
      BY <1>16, <1>21, <3>1
    <3> HIDE DEF k, l
    <3> QED BY <1>1, <1>10, <1>11, <1>15, <1>21, <3>1, <3>2
  <2> QED BY <2>1, <2>2
<1>22. CASE TD!Continue
  <2>1. at \in {"woken", "yielded"} /\ TD!Loop /\ UNCHANGED <<wire, kept, subject, intx, lease>>
    BY <1>22 DEF TD!Continue
  <2>2. CASE job.failed
    <3>1. TD!Finally(TRUE) /\ UNCHANGED consumer BY <2>1, <2>2 DEF TD!Loop
    <3> QED BY <1>11, <1>21, <2>1, <3>1
  <2>3. CASE ~job.failed /\ job.queue = <<>> /\ job.done
    <3>1. TD!Finally(FALSE) /\ UNCHANGED consumer BY <2>1, <2>3 DEF TD!Loop, TD!More
    <3> QED BY <1>11, <1>21, <2>1, <2>3, <3>1
  <2>4. CASE ~job.failed /\ job.queue = <<>> /\ ~job.done
    <3>1. at' = "waiting" /\ job' = job /\ UNCHANGED <<signal, settled, library, consumer>>
      BY <2>1, <2>4 DEF TD!Loop, TD!More
    <3> QED BY <1>1, <1>10, <1>11, <1>15, <2>1, <2>4, <3>1
  <2>5. CASE ~job.failed /\ job.queue # <<>>
    <3> DEFINE q == job.queue
               t == [job EXCEPT !.queue = Tail(@)]
               k == [t EXCEPT !.paused = @ /\ ~TD!Resumable(t)]
    <3>1. /\ at' = "yielded" /\ job' = k /\ UNCHANGED <<signal, settled>>
          /\ library' = [library EXCEPT !.paused = @ /\ ~TD!Resumable(t)]
          /\ consumer' = [consumer EXCEPT !.took = Append(@, Head(job.queue))]
      BY <2>1, <2>5 DEF TD!Loop, TD!More
    <3>2. q \in Seq(Nat) /\ Queued(q) /\ Len(consumer.took) + Len(q) = library.sent
      BY <1>15, <2>1, <2>5
    <3>3. /\ consumer' \in Taker /\ consumer'.left = consumer.left
          /\ consumer' = [consumer EXCEPT !.took = Append(@, Len(consumer.took) + 1)]
          /\ Tail(q) \in Seq(Nat)
          /\ \A i \in 1 .. Len(Tail(q)) : Tail(q)[i] = Len(consumer'.took) + i
          /\ Len(consumer'.took) + Len(Tail(q)) = Len(consumer.took) + Len(q)
      BY <1>0, <2>5, <3>1, <3>2, HandQueued
    <3>4. library' \in Sender /\ library'.sent = library.sent /\ library'.op = library.op
      <4>1. PICK p \in BOOLEAN : p = (library.paused /\ ~TD!Resumable(t)) OBVIOUS
      <4>2. library' = [library EXCEPT !.paused = p] BY <3>1, <4>1
      <4> QED BY <1>11, <4>2 DEF Sender
    <3>5. k \in TediousJob /\ k.queue = Tail(q) /\ k.done = job.done /\ ~k.failed
      <4>1. t \in TediousJob /\ t.queue = Tail(q) /\ t.done = job.done /\ ~t.failed
        BY <1>15, <2>1, <2>5, <3>3 DEF TediousJob
      <4>2. PICK p \in BOOLEAN : p = (t.paused /\ ~TD!Resumable(t)) OBVIOUS
      <4>3. k = [t EXCEPT !.paused = p] BY <4>2
      <4> HIDE DEF k, t
      <4> QED BY <4>1, <4>3 DEF TediousJob
    <3> HIDE DEF k, t
    <3>6. Queued(job.queue)' /\ Len(consumer'.took) + Len(job'.queue) = library'.sent
      BY <3>1, <3>2, <3>3, <3>4, <3>5 DEF Queued
    <3>7. Takes BY <1>1, <2>1, <3>1, <3>3 DEF Takes, Works, SameTx
    <3>8. Shape' BY <1>0, <2>1, <3>1, <3>3, <3>4 DEF Shape
    <3>9. TediousInv' BY <1>1, <1>15, <2>1, <3>1, <3>4, <3>5, <3>6 DEF TediousInv
    <3> QED BY <3>7, <3>8, <3>9, TakesKeeps
  <2> QED BY <2>2, <2>3, <2>4, <2>5
<1>23. CASE TD!Leave
  <2>1. /\ at = "yielded" /\ TD!Finally(FALSE) /\ UNCHANGED <<wire, subject, intx, lease>>
        /\ consumer' = [consumer EXCEPT !.left = TRUE]
    BY <1>23 DEF TD!Leave
  <2>2. consumer' \in Taker /\ consumer'.took = consumer.took /\ consumer'.left
    BY <1>11, <2>1 DEF Taker
  <2> QED BY <1>21, <2>1, <2>2
<1>24. CASE TD!Drained
  <2> DEFINE outcome == IF consumer.left /\ ~job.dirty THEN "ok" ELSE TD!Outcome(job)
  <2>1. at = "draining" /\ job.done /\ TD!Settle(outcome) /\ UNCHANGED <<library, consumer, wire, subject, intx, lease>>
    BY <1>24 DEF TD!Drained
  <2>2. outcome \in Outcomes /\ (outcome = "ok" => consumer.left) BY <1>15, <2>1 DEF Outcomes
  <2> HIDE DEF outcome
  <2> QED BY <1>1, <1>8, <1>11, <1>15, <2>1, <2>2
(* bulk. *)
<1>25. ASSUME at \in {"preparing", "executing", "unpreparing"}
       PROVE  /\ job \in TediousJob /\ library.op # "stream"
              /\ at = "preparing" => wire.open = {}
  BY <1>1, <1>25 DEF TediousInv
<1>26. CASE TD!PrepareAborted
  <2>1. at = "preparing" /\ UNCHANGED <<consumer, wire, subject, intx, lease>>
    BY <1>26 DEF TD!PrepareAborted
  <2>2. CASE TD!Settle("cleanup") /\ library' = library
    <3>1. "cleanup" \in Outcomes BY DEF Outcomes
    <3> QED BY <1>1, <1>8, <1>11, <1>25, <2>1, <2>2, <3>1
  <2>3. CASE TD!Raise(at, job) /\ library' = [library EXCEPT !.stopped = TRUE]
    <3>1. library' \in Sender /\ library'.op = library.op BY <1>11, <2>3 DEF Sender
    <3> QED BY <1>1, <1>9, <1>11, <1>25, <2>1, <2>3, <3>1
  <2> QED BY <1>26, <2>2, <2>3 DEF TD!PrepareAborted
<1>27. CASE TD!PrepareFailed
  <2>1. /\ at = "preparing" /\ TD!Settle("failed") /\ wire' = [wire EXCEPT !.busy = FALSE]
        /\ UNCHANGED <<library, consumer, subject, intx, lease>>
    BY <1>27 DEF TD!PrepareFailed
  <2>2. wire' \in Wire /\ wire'.tx = wire.tx /\ ~wire'.ended /\ wire'.open = {} /\ ~wire'.busy
    BY <1>1, <1>11, <1>25, <2>1 DEF Wire
  <2>3. "failed" \in Outcomes BY DEF Outcomes
  <2> QED BY <1>8, <1>11, <1>25, <2>1, <2>2, <2>3
<1>28. ASSUME NEW j \in TediousJob, TD!NextRow(j), at \in {"preparing", "executing"},
              UNCHANGED <<consumer, subject, intx, lease>>
       PROVE  Kept /\ TediousInv'
  <2>1. PICK l \in {"executing", "unpreparing"}, k \in TediousJob :
          /\ at' = l /\ job' = k /\ UNCHANGED <<signal, settled>>
          /\ wire' = [TD!Busy EXCEPT !.open = {"statement"}]
    <3> DEFINE f == [j EXCEPT !.failed = TRUE]
               n == [j EXCEPT !.rows = @ - 1]
    <3>1. PICK rows \in Int : rows = j.rows - 1 BY <1>28 DEF TediousJob
    <3>3. n = [j EXCEPT !.rows = rows] BY <3>1
    <3>4. f \in TediousJob BY <1>28 DEF TediousJob
    <3>5. n \in TediousJob
      <4> HIDE DEF n
      <4> QED BY <1>28, <3>3 DEF TediousJob
    <3>2. /\ wire' = [TD!Busy EXCEPT !.open = {"statement"}] /\ UNCHANGED <<signal, settled>>
          /\ \/ at' = "unpreparing" /\ job' = f
             \/ at' = "unpreparing" /\ job' = j
             \/ at' = "executing" /\ job' = n
      BY <1>28 DEF TD!NextRow, TD!Unprepare
    <3> HIDE DEF f, n
    <3> QED BY <1>28, <3>2, <3>4, <3>5
  <2>2. wire' \in Wire /\ wire'.tx = wire.tx /\ ~wire'.ended /\ wire'.open = {"statement"}
    BY <1>1, <1>11, <2>1 DEF Wire, Things
  <2>3. library' \in Sender /\ library'.op = library.op BY <1>11, <1>28 DEF TD!NextRow, Sender
  <2> QED BY <1>9, <1>11, <1>28, <2>1, <2>2, <2>3
<1>29. CASE TD!Prepared BY <1>25, <1>28, <1>29 DEF TD!Prepared
<1>30. CASE TD!ExecuteRefused
  <2> DEFINE j == [job EXCEPT !.failed = TRUE]
  <2>1. at = "executing" /\ TD!Goto(at, j) /\ UNCHANGED <<library, consumer, wire, subject, intx, lease>>
    BY <1>30 DEF TD!ExecuteRefused
  <2>2. j \in TediousJob BY <1>25, <2>1 DEF TediousJob
  <2> HIDE DEF j
  <2> QED BY <1>1, <1>9, <1>11, <2>1, <2>2
<1>31. CASE TD!ExecuteAborted
  <2> DEFINE j == [job EXCEPT !.dirty = library.deaf, !.failed = TRUE]
  <2>1. /\ at = "executing" /\ TD!Raise(at, j) /\ UNCHANGED <<consumer, wire, subject, intx, lease>>
        /\ library' = [library EXCEPT !.stopped = ~library.deaf]
    BY <1>31 DEF TD!ExecuteAborted
  <2>2. j \in TediousJob
    <3>1. PICK d \in BOOLEAN : d = library.deaf BY <1>11 DEF Sender
    <3>2. j = [job EXCEPT !.dirty = d, !.failed = TRUE] BY <3>1
    <3> HIDE DEF j
    <3> QED BY <1>25, <2>1, <3>2 DEF TediousJob
  <2>3. library' \in Sender /\ library'.op = library.op
    <3>1. PICK d \in BOOLEAN : d = ~library.deaf OBVIOUS
    <3>2. library' = [library EXCEPT !.stopped = d] BY <2>1, <3>1
    <3> QED BY <1>11, <3>2 DEF Sender
  <2> HIDE DEF j
  <2> QED BY <1>1, <1>9, <1>11, <2>1, <2>2, <2>3
<1>32. CASE TD!Executed
  <2>1. at = "executing" /\ UNCHANGED <<consumer, subject, intx, lease>>
    BY <1>32 DEF TD!Executed
  <2>2. PICK error \in BOOLEAN : TD!NextRow([job EXCEPT !.failed = @ \/ error])
    BY <1>32 DEF TD!Executed
  <2> DEFINE j == [job EXCEPT !.failed = @ \/ error]
  <2>3. j \in TediousJob
    <3>1. PICK f \in BOOLEAN : f = (job.failed \/ error) OBVIOUS
    <3>2. j = [job EXCEPT !.failed = f] BY <3>1
    <3> HIDE DEF j
    <3> QED BY <1>25, <2>1, <3>2 DEF TediousJob
  <2>4. TD!NextRow(j) BY <2>2
  <2> HIDE DEF j
  <2> QED BY <1>28, <2>1, <2>3, <2>4
<1>33. CASE TD!Unprepared
  <2>1. at = "unpreparing" /\ UNCHANGED <<library, consumer, subject, intx, lease>>
    BY <1>33 DEF TD!Unprepared
  <2>2. PICK error \in BOOLEAN :
          /\ wire' = [TD!Free EXCEPT !.open = IF error THEN @ ELSE {}]
          /\ TD!Settle(TD!Outcome([job EXCEPT !.dirty = @ \/ error]))
    BY <1>33 DEF TD!Unprepared
  <2> DEFINE outcome == TD!Outcome([job EXCEPT !.dirty = @ \/ error])
  <2>3. outcome \in Outcomes /\ (outcome # "cleanup" => ~error)
    BY <1>25, <2>1 DEF Outcomes, TediousJob
  <2>4. /\ wire' \in Wire /\ wire'.tx = wire.tx /\ ~wire'.ended /\ ~wire'.busy
        /\ wire'.open \subseteq wire.open /\ (~error => wire'.open = {})
    BY <1>1, <1>11, <2>2 DEF Wire
  <2>5. TD!Settle(outcome) BY <2>2
  <2> HIDE DEF outcome
  <2> QED BY <1>1, <1>8, <1>11, <1>25, <2>1, <2>3, <2>4, <2>5
<1> QED
  BY <1>3, <1>4, <1>5, <1>6, <1>7, <1>13, <1>14, <1>18, <1>19, <1>20, <1>22, <1>23, <1>24,
    <1>26, <1>27,
    <1>29, <1>30, <1>31, <1>32, <1>33
  DEF TD!Next, TD!Progress
-----------------------------------------------------------------------------
(* node-oracledb. *)

(* What Oracledb takes from DriverState means the same there and here. *)
LEMMA OracleShares ==
    ASSUME NEW k, NEW l, NEW j, NEW op, NEW d, NEW r
    PROVE  /\ OR!Start(k, l, j) <=> Start(k, l, j)
           /\ OR!Request(op, d) = Request(op, d)
           /\ OR!HandRow <=> HandRow
           /\ OR!Unsent(k) <=> Unsent(k)
           /\ OR!Control(k) <=> Control(k)
           /\ OR!Answered(k, r) <=> Answered(k, r)
<1>1. OR!Start(k, l, j) <=> Start(k, l, j)
  BY DEF Start, Unread,
    OR!Start, OR!Unread
<1>2. OR!Request(op, d) = Request(op, d)
  BY DEF Request, NoRequest,
    OR!Request, OR!NoRequest
<1>3. OR!HandRow <=> HandRow
  BY DEF HandRow,
    OR!HandRow
<1>4. OR!Unsent(k) <=> Unsent(k)
  BY DEF Unsent, Turn, Counted, NoRequest, Unread,
    OR!Unsent, OR!Turn, OR!Counted, OR!NoRequest, OR!Unread
<1>5. OR!Control(k) <=> Control(k)
  BY DEF Control, Start, Busy, NoRequest, Unread, Connected,
    OR!Control, OR!Start, OR!Busy, OR!NoRequest, OR!Unread, OR!Connected
<1>6. OR!Answered(k, r) <=> Answered(k, r)
  BY DEF Answered, Transaction, Portals, Settle, Counted, Free, NoJob,
    OR!Answered, OR!Transaction, OR!Portals, OR!Settle, OR!Counted, OR!Free, OR!NoJob
<1> QED BY <1>1, <1>2, <1>3, <1>4, <1>5, <1>6

(* Every step of the node-oracledb executor is of one of the kinds. *)
LEMMA OracleKeeps ==
    ASSUME Common, OracleInv, OR!Next
    PROVE  Kept /\ OracleInv'
<1> USE DEF OR!Me, OR!Goto, OR!Raise, OR!Settle, OR!Outcome, OR!Counted, OR!Free, OR!Busy, OR!Open, OR!Close,
      OR!owner, OR!Breaking
<1> DEFINE Labels == {"executing", "reading", "closing", "breaking", "fetching", "yielded", "settling"}
           Health == [active : BOOLEAN, broken : BOOLEAN]
           Fits(l, j, w) ==
             /\ "break" \in w.open =>
                  \/ l \in {"executing", "reading", "fetching", "breaking", "settling"}
                  \/ l = "closing" /\ j.op = "returning"
             /\ "cursor" \in w.open => j.op \notin {"query", "bulk"} /\ l # "executing"
             /\ l = "breaking" /\ j.op = "returning" => "cursor" \notin w.open \/ j.dirty
             /\ l = "reading" => "cursor" \in w.open /\ j.op \in {"returning", "call"}
             /\ l \in {"fetching", "yielded", "settling"} => j.op = "stream"
             /\ l \in {"breaking", "yielded", "settling"} => ~w.busy
             /\ l = "closing" => j.op \in {"returning", "call", "stream"}
<1>0. Shape /\ Between /\ Known BY DEF Common, Base
<1>1. /\ subject = "oracledb" /\ wire.open \subseteq {"cursor", "break"} /\ ~wire.ended /\ kept \in Health
      /\ settled # "cleanup" => kept.active = intx
      /\ "break" \in wire.open => signal = "aborted"
  BY DEF OR!Next, OR!Call, OR!Start, OR!Unsendable, OR!Unsent, OR!Turn, OR!ControlSent,
    OR!Control,
  OR!BeginImplicit, OR!Release, OR!Releasable, OR!Aborted, OR!AbortedAside, OR!Progress,
    OR!Executed,
  OR!Read, OR!Closed, OR!BreakDone, OR!Broken, OR!Fetched, OR!Continue, OR!Leave, OR!Settled,
  OR!ControlAnswered, OR!Answered, OracleInv
<1>2. ASSUME at \in Labels
      PROVE  /\ job \in OracleJob /\ Fits(at, job, wire) /\ (library.op = "stream" <=> job.op = "stream")
             /\ library.op = "stream" => Caught
             /\ kept.active = intx /\ (intx <=> wire.tx # "none")
             /\ at # "idle" /\ at # "control" /\ settled = "none"
  <2>1. at # "idle" /\ at # "control" BY <1>2
  <2>2. settled = "none" /\ (intx <=> wire.tx # "none") BY <1>0, <1>1, <2>1 DEF Between, Known
  <2> QED BY <1>1, <2>1, <2>2 DEF OracleInv
<1>3. wire \in Wire /\ library \in Sender /\ consumer \in Taker /\ signal \in {"none", "armed", "aborted"}
  BY <1>0 DEF Shape
(* Calls that begin, and those of one turn. *)
<1>4. CASE OR!Call
  <2>1. PICK op \in {"query", "returning", "call", "bulk", "stream"} :
          OR!Start("oracledb", "executing", OR!Closure(op)) /\ library' = OR!Request(op, FALSE)
    BY <1>4 DEF OR!Call
  <2> DEFINE j == OR!Closure(op)
             kind == "oracledb"
             l == "executing"
  <2>2. /\ Start(kind, l, j) /\ library' = Request(op, FALSE)
        /\ wire' = [wire EXCEPT !.busy = TRUE] /\ signal' \in {"none", "armed"} /\ UNCHANGED <<kept, intx>>
    BY <1>4, <2>1, OracleShares DEF OR!Call
  <2>3. j \in OracleJob /\ j.op = op /\ op \in Ops BY DEF OracleJob, OR!Closure, Ops
  <2>8. kind = "oracledb" /\ l = "executing" /\ l \notin {"idle", "control", "closing"} OBVIOUS
  <2> HIDE DEF j, kind, l
  <2>4. wire' \in Wire /\ wire'.tx = wire.tx /\ wire'.open = wire.open /\ wire'.ended = wire.ended
    BY <1>3, <2>2 DEF Wire
  <2>5. /\ Kept /\ subject' = kind /\ at' = l /\ job' = j /\ library'.op = op /\ Caught'
        /\ Still(wire, intx) /\ settled # "cleanup"
    <3>1. l \notin {"idle", "control", "closing"} BY <2>8
    <3> QED BY <2>2, <2>3, <2>4, <3>1, StartKeeps
  <2>6. ~wire'.ended /\ wire'.open = {} BY <1>1, <2>4, <2>5 DEF Still, Left, Portals
  <2>7. OracleInv' BY <1>1, <2>2, <2>3, <2>5, <2>6, <2>8 DEF OracleInv
  <2> QED BY <2>5, <2>7
<1>5. CASE OR!Unsendable
  <2>1. Unsent("oracledb") BY <1>5, OracleShares DEF OR!Unsendable
  <2>2. /\ Kept /\ at = "idle" /\ at' = "idle" /\ settled # "cleanup" /\ UNCHANGED <<subject, wire, kept, intx>>
    BY <2>1, UnsentKeeps
  <2>3. "break" \notin wire.open BY <1>1, <2>2 DEF OracleInv
  <2> QED BY <1>1, <2>2, <2>3 DEF OracleInv
<1>6. CASE OR!ControlSent
  <2>1. Control("oracledb") BY <1>6, OracleShares DEF OR!ControlSent
  <2>2. /\ Kept /\ at' = "control" /\ at = "idle" /\ settled # "cleanup"
        /\ wire'.open = wire.open /\ wire'.open \subseteq Left(intx) /\ wire'.ended = FALSE
        /\ UNCHANGED <<subject, kept, intx, lease>>
    BY <2>1, ControlKeeps
  <2>3. wire'.open = {} BY <1>1, <2>2 DEF Left, Portals
  <2> QED BY <1>1, <2>2, <2>3 DEF OracleInv
<1>7. CASE OR!ControlAnswered
  <2>1. Answered("oracledb", FALSE) /\ kept' = [kept EXCEPT !.active = IF settled' = "ok" THEN intx' ELSE @]
    BY <1>7, OracleShares DEF OR!ControlAnswered
  <2>2. /\ Kept /\ at = "control" /\ at' = "idle" /\ wire'.open \subseteq wire.open /\ wire'.ended = FALSE
        /\ settled' \in {"ok", "cleanup"} /\ UNCHANGED <<subject, library, consumer, lease>>
    BY <2>1, AnsweredKeeps
  <2>3. intx' \in BOOLEAN BY <2>2 DEF Kept, Common, Base, Shape
  <2>4. kept' \in Health /\ (settled' = "ok" => kept'.active = intx')
    <3>1. PICK b \in BOOLEAN : b = IF settled' = "ok" THEN intx' ELSE kept.active BY <1>1, <2>3
    <3>2. kept' = [kept EXCEPT !.active = b] BY <2>1, <3>1
    <3> QED BY <1>1, <3>1, <3>2
  <2>5. "break" \notin wire.open BY <1>1, <2>2 DEF OracleInv
  <2> QED BY <1>1, <2>2, <2>4, <2>5 DEF OracleInv
<1>8. CASE OR!BeginImplicit
  <2>1. /\ at = "idle" /\ lease = "leased" /\ settled # "cleanup" /\ settled' = "ok"
        /\ library' = NoRequest /\ consumer' = Unread /\ UNCHANGED <<subject, at, job, signal, lease>>
        /\ ~intx /\ intx' = TRUE /\ wire' = [wire EXCEPT !.tx = "open"] /\ kept' = [kept EXCEPT !.active = TRUE]
    BY <1>8 DEF OR!BeginImplicit, OR!Turn, OR!NoRequest, NoRequest, OR!Unread, Unread
  <2>2. Still(wire, FALSE) BY <1>0, <2>1 DEF Between, Still, Left
  <2>3. wire' \in Wire /\ wire'.tx = "open" /\ Still(wire', TRUE) /\ wire'.open = wire.open /\ wire'.open = {}
    BY <1>3, <2>1, <2>2 DEF Wire, Still, Left
  <2>4. /\ library' \in Sender /\ library'.op = "none" /\ consumer' \in Taker
        /\ consumer' = [took |-> <<>>, left |-> FALSE]
    BY <2>1 DEF NoRequest, Unread, Sender, Ops, Taker
  <2>5. Turns BY <2>1, <2>3, <2>4 DEF Turns, Ready, Outcomes
  <2>6. Shape' BY <1>0, <2>1, <2>3, <2>4 DEF Shape
  <2>7. kept' \in Health /\ kept'.active = TRUE BY <1>1, <2>1
  <2>8. ~wire'.ended BY <2>3 DEF Still
  <2>9. OracleInv' BY <1>1, <2>1, <2>3, <2>7, <2>8 DEF OracleInv
  <2> QED BY <2>5, <2>6, <2>9, TurnsKeeps
<1>9. CASE OR!Release
  <2>1. /\ at = "idle" /\ lease = "leased"
        /\ settled = "cleanup" \/ ~intx
        /\ UNCHANGED <<subject, at, job, library, consumer, kept, signal, settled, intx, wire>>
        /\ lease' \in {"discarded", "returned"} /\ (lease' = "returned" => settled # "cleanup")
    BY <1>9 DEF OR!Release, OR!Releasable, OR!Poisoned, OR!Leased
  <2>2. lease' = "returned" => Still(wire', FALSE) /\ wire'.tx = "none"
    BY <1>0, <1>1, <2>1 DEF Between, Known, Still, Left
  <2>3. Releases BY <2>1, <2>2 DEF Releases
  <2>4. Shape' BY <1>0, <2>1 DEF Shape
  <2>5. OracleInv' BY <2>1 DEF OracleInv
  <2> QED BY <2>3, <2>4, <2>5, ReleasesKeeps
(* The next turn of a call, and its end. *)
<1>10. ASSUME NEW j \in OracleJob, NEW l \in Labels, at \in Labels, at' = l, job' = j, j.op = job.op,
              signal' \in {"none", "armed", "aborted"}, settled' = settled,
              wire' \in Wire, wire'.tx = wire.tx, ~wire'.ended, wire'.open \subseteq {"cursor", "break"},
              "break" \in wire'.open => signal' = "aborted",
              Fits(l, j, wire'), kept' \in Health, kept'.active = kept.active,
              consumer' \in Taker, consumer'.took = consumer.took,
              UNCHANGED <<library, subject, intx, lease>>
       PROVE  Kept /\ OracleInv'
  <2>1. Works BY <1>1, <1>2, <1>10 DEF Works, SameTx
  <2>2. Shape' BY <1>0, <1>10 DEF Shape
  <2>3. library.op = "stream" => Caught' BY <1>2, <1>10 DEF Caught
  <2>4. /\ settled' # "cleanup" => kept'.active = intx'
        /\ library.op = "stream" <=> j.op = "stream"
    BY <1>2, <1>10
  <2>5. OracleInv' BY <1>1, <1>10, <2>3, <2>4 DEF OracleInv
  <2> QED BY <1>10, <2>1, <2>2, <2>5, WorksKeeps
<1>11. ASSUME NEW j \in OracleJob, NEW w \in Wire, OR!Finished(j, w), at \in Labels, j.op = job.op,
              w.tx = wire.tx, ~w.ended, w.open \subseteq {"cursor"},
              ~j.dirty => ~w.busy /\ w.open = {},
              consumer' \in Taker, consumer'.took = consumer.took,
              UNCHANGED <<library, kept, subject, intx, lease>>
       PROVE  Kept /\ OracleInv'
  <2>1. at' = "idle" /\ signal' = "none" /\ settled' = OR!Outcome(j) /\ wire' = w
    BY <1>11 DEF OR!Finished
  <2>2. settled' \in Outcomes /\ (settled' # "cleanup" => ~j.dirty) BY <2>1 DEF Outcomes
  <2>3. settled' # "cleanup" => Still(wire', intx) BY <1>11, <2>1, <2>2 DEF Still
  <2>4. Ends BY <1>1, <1>2, <1>11, <2>1, <2>2, <2>3 DEF Ends, SameTx
  <2>5. Shape' BY <1>0, <1>11, <2>1, <2>2 DEF Shape, Outcomes
  <2>6. library'.op = "stream" => Caught' BY <1>2, <1>11 DEF Caught
  <2>7. kept'.active = intx' BY <1>2, <1>11
  <2>8. OracleInv' BY <1>1, <1>11, <2>1, <2>7 DEF OracleInv
  <2> QED BY <2>4, <2>5, <2>6, <2>8, EndsKeeps
<1>12. ASSUME NEW j \in OracleJob, NEW w \in Wire, OR!Cleanup(j, w), at \in Labels, j.op = job.op,
              w.tx = wire.tx, ~w.ended, w.open \subseteq {"cursor", "break"}, ~w.busy,
              "cursor" \in w.open => j.op \in {"returning", "call", "stream"},
              "break" \in w.open => j.op = "returning" /\ "cursor" \in w.open /\ "break" \in wire.open,
              consumer' \in Taker, consumer'.took = consumer.took,
              UNCHANGED <<library, kept, subject, intx, lease>>
       PROVE  Kept /\ OracleInv'
  <2>1. CASE "cursor" \in w.open
    <3>1. OR!Goto("closing", j) /\ wire' = [w EXCEPT !.busy = TRUE]
      BY <1>12, <2>1 DEF OR!Cleanup
    <3>2. wire' \in Wire /\ wire'.tx = w.tx /\ wire'.open = w.open /\ wire'.ended = w.ended
      BY <1>12, <3>1 DEF Wire
    <3>3. Fits("closing", j, wire') BY <1>12, <2>1, <3>2
    <3> DEFINE l == "closing"
    <3>4. Fits(l, j, wire') /\ l \in Labels /\ OR!Goto(l, j) BY <3>1, <3>3
    <3> HIDE DEF l
    <3> QED BY <1>1, <1>3, <1>10, <1>12, <3>2, <3>4
  <2>2. CASE "cursor" \notin w.open
    <3>1. OR!Finished(j, w) /\ w.open = {} BY <1>12, <2>2 DEF OR!Cleanup
    <3> QED BY <1>11, <1>12, <3>1
  <2> QED BY <2>1, <2>2
<1>13. ASSUME NEW j \in OracleJob, NEW w \in Wire, OR!Fetch(j, w), at \in Labels, j.op = job.op, j.op = "stream",
              w.tx = wire.tx, ~w.ended, w.open \subseteq {"cursor"},
              UNCHANGED <<library, consumer, kept, subject, intx, lease>>
       PROVE  Kept /\ OracleInv'
  <2> DEFINE l == "fetching"
  <2>1. OR!Goto(l, j) /\ wire' = [w EXCEPT !.busy = TRUE] BY <1>13 DEF OR!Fetch
  <2>2. wire' \in Wire /\ wire'.tx = w.tx /\ wire'.open = w.open /\ wire'.ended = w.ended
    BY <1>13, <2>1 DEF Wire
  <2>3. Fits(l, j, wire') /\ l \in Labels BY <1>13, <2>2
  <2> HIDE DEF l
  <2> QED BY <1>1, <1>3, <1>10, <1>13, <2>1, <2>2, <2>3
<1>14. ASSUME NEW j \in OracleJob, NEW w \in Wire, OR!Resolved(j, w), at \in Labels, j.op = job.op,
              w.tx = wire.tx, ~w.ended, w.open \subseteq {"cursor"}, ~w.busy,
              "cursor" \in w.open => j.op \notin {"query", "bulk"},
              j.op = "returning" => "cursor" \notin w.open \/ j.dirty,
              UNCHANGED <<library, consumer, kept, subject, intx, lease>>
       PROVE  Kept /\ OracleInv'
  <2> DEFINE k == [j EXCEPT !.failed = @ \/ signal = "aborted"]
             f == [k EXCEPT !.failed = TRUE]
  <2>1. k \in OracleJob /\ k.op = j.op /\ k.dirty = j.dirty
    <3>1. PICK b \in BOOLEAN : b = (j.failed \/ signal = "aborted") OBVIOUS
    <3>2. k = [j EXCEPT !.failed = b] BY <3>1
    <3> HIDE DEF k
    <3> QED BY <3>2 DEF OracleJob
  <2>2. f \in OracleJob /\ f.op = j.op /\ f.dirty = j.dirty
    <3> HIDE DEF k
    <3> QED BY <2>1 DEF OracleJob
  <2>3. \/ k.op \in {"query", "returning", "bulk"} /\ OR!Finished(k, w)
        \/ k.op \notin {"query", "returning", "bulk"} /\ OR!Cleanup(k, w)
        \/ "cursor" \notin w.open /\ OR!Finished(f, w)
        \/ k.op \notin {"query", "returning", "bulk", "call"} /\ OR!Fetch(k, w)
    BY <1>14 DEF OR!Resolved
  <2>4. k.op \in {"query", "returning", "call", "bulk", "stream"} BY <2>1 DEF OracleJob
  <2> HIDE DEF k, f
  <2>5. CASE k.op \in {"query", "returning", "bulk"} /\ OR!Finished(k, w)
    <3>1. ~k.dirty => w.open = {} BY <1>14, <2>1, <2>5
    <3> QED BY <1>3, <1>11, <1>14, <2>1, <2>5, <3>1
  <2>6. CASE k.op \notin {"query", "returning", "bulk"} /\ OR!Cleanup(k, w)
    <3>1. k.op \in {"returning", "call", "stream"} BY <2>4, <2>6
    <3> QED BY <1>3, <1>12, <1>14, <2>1, <2>6, <3>1
  <2>7. CASE "cursor" \notin w.open /\ OR!Finished(f, w)
    <3>1. w.open = {} BY <1>14, <2>7
    <3> QED BY <1>3, <1>11, <1>14, <2>2, <2>7, <3>1
  <2>8. CASE k.op \notin {"query", "returning", "bulk", "call"} /\ OR!Fetch(k, w)
    <3>1. k.op = "stream" BY <2>4, <2>8
    <3> QED BY <1>13, <1>14, <2>1, <2>8, <3>1
  <2> QED BY <2>3, <2>5, <2>6, <2>7, <2>8
<1>15. ASSUME NEW j \in OracleJob, NEW w \in Wire, OR!Ended(j, w), at \in Labels, j.op = job.op,
              w.tx = wire.tx, ~w.ended, w.open \subseteq {"cursor", "break"}, ~w.busy,
              "break" \in w.open <=> "break" \in wire.open,
              "cursor" \in w.open => j.op \notin {"query", "bulk"},
              j.op = "returning" => "cursor" \notin w.open \/ j.dirty,
              UNCHANGED <<library, consumer, kept, subject, intx, lease>>
       PROVE  Kept /\ OracleInv'
  <2>1. CASE "break" \in wire.open
    <3> DEFINE l == "breaking"
    <3>1. OR!Goto(l, j) /\ wire' = w BY <1>15, <2>1 DEF OR!Ended
    <3>2. Fits(l, j, w) /\ l \in Labels BY <1>15
    <3> HIDE DEF l, Fits
    <3> QED BY <1>1, <1>3, <1>10, <1>15, <3>1, <3>2
  <2>2. CASE "break" \notin wire.open
    <3>1. OR!Resolved(j, w) /\ w.open \subseteq {"cursor"} BY <1>15, <2>2 DEF OR!Ended
    <3> QED BY <1>14, <1>15, <3>1
  <2> QED BY <2>1, <2>2
<1>16. ASSUME NEW j \in OracleJob, NEW w \in Wire, OR!Finally(j, w), at \in Labels, j.op = job.op, j.op = "stream",
              w.tx = wire.tx, ~w.ended, w.open \subseteq {"cursor", "break"}, ~w.busy,
              "break" \in w.open <=> "break" \in wire.open,
              consumer' \in Taker, consumer'.took = consumer.took,
              UNCHANGED <<library, kept, subject, intx, lease>>
       PROVE  Kept /\ OracleInv'
  <2>1. CASE "break" \in wire.open
    <3> DEFINE l == "settling"
    <3>1. OR!Goto(l, j) /\ wire' = w BY <1>16, <2>1 DEF OR!Finally
    <3>2. Fits(l, j, w) /\ l \in Labels BY <1>16
    <3> HIDE DEF l, Fits
    <3> QED BY <1>1, <1>3, <1>10, <1>16, <3>1, <3>2
  <2>2. CASE "break" \notin wire.open
    <3> DEFINE k == [j EXCEPT !.failed = @ \/ signal = "aborted"]
    <3>1. OR!Cleanup(k, w) BY <1>16, <2>2 DEF OR!Finally
    <3>2. k \in OracleJob /\ k.op = j.op
      <4>1. PICK b \in BOOLEAN : b = (j.failed \/ signal = "aborted") OBVIOUS
      <4>2. k = [j EXCEPT !.failed = b] BY <4>1
      <4> HIDE DEF k
      <4> QED BY <4>2 DEF OracleJob
    <3> HIDE DEF k
    <3> QED BY <1>12, <1>16, <2>2, <3>1, <3>2
  <2> QED BY <2>1, <2>2
(* The signal, and the break. *)
<1>17. CASE OR!Aborted
  <2>1. /\ at \in Labels
        /\ at \in {"executing", "reading", "fetching"} \/ (at = "closing" /\ job.op = "returning")
        /\ at' = at /\ job' = job /\ signal' = "aborted" /\ settled' = settled
        /\ wire' = [wire EXCEPT !.open = @ \cup {"break"}] /\ kept' = [kept EXCEPT !.broken = TRUE]
        /\ UNCHANGED <<library, consumer, subject, intx, lease>>
    BY <1>17 DEF OR!Aborted
  <2>2. /\ wire' \in Wire /\ wire'.tx = wire.tx /\ wire'.ended = wire.ended /\ wire'.busy = wire.busy
        /\ wire'.open = wire.open \cup {"break"}
    BY <1>3, <2>1 DEF Wire, Things
  <2>3. kept' \in Health /\ kept'.active = kept.active BY <1>1, <2>1
  <2>4. Fits(at, job, wire') BY <1>2, <2>1, <2>2
  <2>5. job \in OracleJob BY <1>2, <2>1
  <2>6. wire'.open \subseteq {"cursor", "break"} /\ ~wire'.ended BY <1>1, <2>2
  <2> HIDE DEF Fits
  <2> QED BY <1>3, <1>10, <2>1, <2>2, <2>3, <2>4, <2>5, <2>6
<1>18. CASE OR!AbortedAside
  <2>1. /\ at = "yielded" /\ at' = at /\ job' = job /\ signal' = "aborted" /\ settled' = settled
        /\ UNCHANGED <<library, consumer, wire, kept, subject, intx, lease>>
    BY <1>18 DEF OR!AbortedAside
  <2>2. job \in OracleJob /\ Fits(at, job, wire) BY <1>2, <2>1
  <2> HIDE DEF Fits
  <2> QED BY <1>1, <1>3, <1>10, <2>1, <2>2
<1>19. CASE OR!BreakDone
  <2>1. at \in Labels
    <3>1. "break" \in wire.open BY <1>19 DEF OR!BreakDone
    <3> QED BY <1>1, <3>1 DEF OracleInv
  <2>2. PICK error \in BOOLEAN : job' = IF at = "idle" THEN job ELSE [job EXCEPT !.dirty = @ \/ error]
    BY <1>19 DEF OR!BreakDone
  <2>3. /\ wire' = [wire EXCEPT !.open = @ \ {"break"}]
        /\ UNCHANGED <<at, library, consumer, kept, signal, settled, subject, intx, lease>>
    BY <1>19 DEF OR!BreakDone
  <2> DEFINE j == [job EXCEPT !.dirty = @ \/ error]
  <2>4. job' = j BY <2>1, <2>2
  <2>5. j \in OracleJob /\ j.op = job.op /\ (job.dirty => j.dirty)
    <3>1. PICK d \in BOOLEAN : d = (job.dirty \/ error) OBVIOUS
    <3>2. j = [job EXCEPT !.dirty = d] BY <3>1
    <3> HIDE DEF j
    <3> QED BY <1>2, <2>1, <3>1, <3>2 DEF OracleJob
  <2> HIDE DEF j
  <2>6. /\ wire' \in Wire /\ wire'.tx = wire.tx /\ wire'.ended = wire.ended /\ wire'.busy = wire.busy
        /\ wire'.open = wire.open \ {"break"}
    BY <1>3, <2>3 DEF Wire
  <2>7. Fits(at, j, wire') BY <1>2, <2>1, <2>5, <2>6
  <2> HIDE DEF Fits
  <2> QED BY <1>1, <1>3, <1>10, <2>1, <2>3, <2>4, <2>5, <2>6, <2>7
<1>20. CASE OR!Broken
  <2>1. /\ at = "breaking" /\ "break" \notin wire.open /\ OR!Resolved(job, wire)
        /\ UNCHANGED <<library, consumer, kept, subject, intx, lease>>
    BY <1>20 DEF OR!Broken
  <2>2. /\ job \in OracleJob /\ ~wire.busy /\ ("cursor" \in wire.open => job.op \notin {"query", "bulk"})
        /\ job.op = "returning" => "cursor" \notin wire.open \/ job.dirty
    BY <1>2, <2>1
  <2>3. wire.open \subseteq {"cursor"} BY <1>1, <2>1
  <2> QED BY <1>1, <1>3, <1>14, <2>1, <2>2, <2>3
(* What executes. *)
<1>21. CASE OR!Executed
  <2>1. /\ at = "executing" /\ UNCHANGED <<library, consumer, kept, subject, intx, lease>>
        /\ job \in OracleJob /\ "cursor" \notin wire.open
    BY <1>2, <1>21 DEF OR!Executed
  <2>2. PICK error \in BOOLEAN, opened \in BOOLEAN :
          /\ OR!Counted(error /\ signal # "aborted")
          /\ opened => ~error /\ job.op \in {"returning", "call", "stream"}
          /\ LET j == [job EXCEPT !.failed = error]
                 w == [OR!Free EXCEPT !.tx = IF error THEN @ ELSE OR!Autocommit(@)]
                 with == OR!Open(w, "cursor") IN
             IF ~opened THEN OR!Ended(j, w)
             ELSE IF job.op = "stream" THEN OR!Ended(j, with)
             ELSE IF signal # "aborted" THEN OR!Goto("reading", j) /\ wire' = OR!Open(OR!Busy, "cursor")
             ELSE IF job.op = "call" THEN OR!Ended([j EXCEPT !.failed = TRUE], with)
             ELSE OR!Cleanup([j EXCEPT !.failed = TRUE], with)
    BY <1>21, Zenon DEF OR!Executed
  <2> DEFINE j == [job EXCEPT !.failed = error]
             f == [j EXCEPT !.failed = TRUE]
             w == [OR!Free EXCEPT !.tx = IF error THEN @ ELSE OR!Autocommit(@)]
             with == OR!Open(w, "cursor")
  <2>3. j \in OracleJob /\ j.op = job.op BY <2>1 DEF OracleJob
  <2>4. f \in OracleJob /\ f.op = job.op
    <3> HIDE DEF j
    <3> QED BY <2>3 DEF OracleJob
  <2>5. w \in Wire /\ w.tx = wire.tx /\ w.open = wire.open /\ ~w.ended /\ ~w.busy
    <3>1. kept.active \/ wire.tx = "none" BY <1>2, <2>1
    <3>2. PICK tx \in {"none", "open", "spoiled"} : tx = wire.tx BY <1>3 DEF Wire
    <3>3. w = [[wire EXCEPT !.busy = FALSE] EXCEPT !.tx = tx]
      BY <1>3, <3>1, <3>2 DEF OR!Autocommit, Wire
    <3> HIDE DEF w
    <3> QED BY <1>1, <1>3, <3>2, <3>3 DEF Wire
  <2>6. with \in Wire /\ with.tx = wire.tx /\ with.open = wire.open \cup {"cursor"} /\ ~with.ended /\ ~with.busy
    <3> HIDE DEF w
    <3> QED BY <2>5 DEF Wire, Things
  <2>7. ~opened \/ job.op \in {"returning", "call", "stream"} BY <2>2
  <2>8. CASE ~opened /\ OR!Ended(j, w)
    <3> HIDE DEF j, w
    <3> QED BY <1>1, <1>15, <2>1, <2>3, <2>5, <2>8
  <2>9. ASSUME NEW k \in OracleJob, k.op = job.op, job.op \in {"call", "stream"}, OR!Ended(k, with)
        PROVE  Kept /\ OracleInv'
    <3>1. /\ with.open \subseteq {"cursor", "break"} /\ ("break" \in with.open <=> "break" \in wire.open)
          /\ k.op \notin {"query", "bulk", "returning"}
      BY <1>1, <2>6, <2>9
    <3> HIDE DEF with
    <3> QED BY <1>15, <2>1, <2>6, <2>9, <3>1
  <2>10. CASE opened /\ job.op = "stream" /\ OR!Ended(j, with)
    <3> HIDE DEF j, with
    <3> QED BY <2>3, <2>9, <2>10
  <2>11. CASE opened /\ job.op = "call" /\ OR!Ended(f, with)
    <3> HIDE DEF j, f, with
    <3> QED BY <2>4, <2>9, <2>11
  <2>12. CASE opened /\ job.op \notin {"stream", "call"} /\ OR!Cleanup(f, with)
    <3>1. f.op = "returning" BY <2>4, <2>7, <2>12
    <3>2. /\ with.open \subseteq {"cursor", "break"} /\ "cursor" \in with.open
          /\ "break" \in with.open => "break" \in wire.open
      BY <1>1, <2>6
    <3> HIDE DEF f, with
    <3> QED BY <1>3, <1>12, <2>1, <2>4, <2>6, <2>12, <3>1, <3>2
  <2>13. CASE opened /\ job.op # "stream" /\ OR!Goto("reading", j) /\ wire' = OR!Open(OR!Busy, "cursor")
    <3> DEFINE l == "reading"
    <3>1. wire' \in Wire /\ wire'.tx = wire.tx /\ wire'.open = wire.open \cup {"cursor"} /\ wire'.ended = wire.ended
      BY <1>3, <2>13 DEF Wire, Things
    <3>2. job.op \in {"returning", "call"} BY <2>7, <2>13
    <3>3. Fits(l, j, wire') /\ l \in Labels /\ OR!Goto(l, j)
      <4> HIDE DEF j
      <4> QED BY <2>3, <2>13, <3>1, <3>2
    <3>4. /\ wire'.open \subseteq {"cursor", "break"} /\ ~wire'.ended
          /\ "break" \in wire'.open => signal' = "aborted"
      BY <1>1, <2>13, <3>1
    <3> HIDE DEF j, l, Fits
    <3> QED BY <1>1, <1>3, <1>10, <2>1, <2>3, <3>1, <3>3, <3>4
  <2> QED BY <2>2, <2>8, <2>10, <2>11, <2>12, <2>13
<1>22. CASE OR!Read
  <2>1. /\ at = "reading" /\ UNCHANGED <<library, consumer, kept, subject, intx, lease>>
        /\ job \in OracleJob /\ "cursor" \in wire.open /\ job.op \in {"returning", "call"}
    BY <1>2, <1>22 DEF OR!Read
  <2>2. PICK error \in BOOLEAN :
          LET j == [job EXCEPT !.failed = error] IN
          IF job.op = "call" THEN OR!Ended(j, OR!Free) ELSE OR!Cleanup(j, OR!Free)
    BY <1>22 DEF OR!Read
  <2> DEFINE j == [job EXCEPT !.failed = error]
             w == [wire EXCEPT !.busy = FALSE]
  <2>3. j \in OracleJob /\ j.op = job.op BY <2>1 DEF OracleJob
  <2>4. w \in Wire /\ w.tx = wire.tx /\ w.open = wire.open /\ ~w.ended /\ ~w.busy
    BY <1>1, <1>3 DEF Wire
  <2>5. CASE job.op = "call" /\ OR!Ended(j, w)
    <3> HIDE DEF j, w
    <3> QED BY <1>1, <1>15, <2>1, <2>3, <2>4, <2>5
  <2>6. CASE job.op = "returning" /\ OR!Cleanup(j, w)
    <3> HIDE DEF j, w
    <3> QED BY <1>1, <1>3, <1>12, <2>1, <2>3, <2>4, <2>6
  <2> QED BY <2>1, <2>2, <2>5, <2>6
<1>23. CASE OR!Closed
  <2>1. /\ at = "closing" /\ UNCHANGED <<library, consumer, kept, subject, intx, lease>>
        /\ job \in OracleJob /\ job.op \in {"returning", "call", "stream"}
        /\ "break" \in wire.open => job.op = "returning"
    BY <1>2, <1>23 DEF OR!Closed
  <2>2. PICK error \in BOOLEAN :
          LET j == [job EXCEPT !.dirty = @ \/ error]
              w == IF error THEN OR!Free ELSE OR!Close(OR!Free, "cursor") IN
          IF job.op = "returning" THEN OR!Ended(j, w) ELSE OR!Finished(j, w)
    BY <1>23 DEF OR!Closed
  <2> DEFINE j == [job EXCEPT !.dirty = @ \/ error]
             w == IF error THEN OR!Free ELSE OR!Close(OR!Free, "cursor")
  <2>3. j \in OracleJob /\ j.op = job.op /\ (error => j.dirty)
    <3>1. PICK d \in BOOLEAN : d = (job.dirty \/ error) OBVIOUS
    <3>2. j = [job EXCEPT !.dirty = d] BY <3>1
    <3> HIDE DEF j
    <3> QED BY <2>1, <3>1, <3>2 DEF OracleJob
  <2>4. /\ w \in Wire /\ w.tx = wire.tx /\ w.open \subseteq wire.open /\ ~w.ended /\ ~w.busy
        /\ "break" \in w.open <=> "break" \in wire.open
        /\ ~error => "cursor" \notin w.open
    BY <1>1, <1>3 DEF Wire
  <2>5. \/ OR!Ended(j, w) /\ job.op = "returning"
        \/ OR!Finished(j, w) /\ job.op # "returning"
    BY <2>2
  <2> HIDE DEF j, w
  <2>6. CASE OR!Ended(j, w) /\ job.op = "returning" BY <1>1, <1>15, <2>1, <2>3, <2>4, <2>6
  <2>7. CASE OR!Finished(j, w) /\ job.op # "returning"
    <3>1. w.open \subseteq {"cursor"} /\ (~j.dirty => w.open = {})
      BY <1>1, <2>1, <2>3, <2>4, <2>7
    <3> QED BY <1>3, <1>11, <2>1, <2>3, <2>4, <2>7, <3>1
  <2> QED BY <2>5, <2>6, <2>7
(* The loop of stream. *)
<1>24. CASE OR!Fetched
  <2>1. /\ at = "fetching" /\ UNCHANGED <<kept, subject, intx, lease>>
        /\ job \in OracleJob /\ job.op = "stream" /\ library.op = "stream" /\ Caught /\ kept.active = intx
        /\ Fits(at, job, wire)
    BY <1>2, <1>24 DEF OR!Fetched
  <2> DEFINE w == [wire EXCEPT !.busy = FALSE]
  <2>2. PICK row \in {"row", "end", "error"} :
          IF row = "row" /\ signal # "aborted"
          THEN OR!Goto("yielded", job) /\ wire' = w /\ OR!HandRow
          ELSE OR!Finally([job EXCEPT !.failed = row # "end"], w) /\ UNCHANGED <<library, consumer>>
    BY <1>24 DEF OR!Fetched
  <2>3. w \in Wire /\ w.tx = wire.tx /\ w.open = wire.open /\ ~w.ended /\ ~w.busy
    BY <1>1, <1>3 DEF Wire
  <2>4. CASE signal # "aborted" /\ OR!Goto("yielded", job) /\ wire' = w /\ OR!HandRow
    <3>1. HandRow BY <2>4, OracleShares
    <3>2. /\ library' \in Sender /\ library'.op = library.op
          /\ consumer' \in Taker /\ consumer'.left = consumer.left
          /\ consumer' = [consumer EXCEPT !.took = Append(@, Len(consumer.took) + 1)]
          /\ Caught'
      BY <1>0, <2>1, <3>1, HandRowCaught
    <3> HIDE DEF w
    <3>3. Takes BY <1>1, <2>1, <2>3, <2>4, <3>2 DEF Takes, Works, SameTx
    <3>4. Shape' BY <1>0, <2>1, <2>3, <2>4, <3>2 DEF Shape
    <3>5. "break" \notin wire.open BY <1>1, <2>4
    <3>6. OracleInv' BY <1>1, <2>1, <2>3, <2>4, <3>2, <3>5 DEF OracleInv
    <3> QED BY <3>3, <3>4, <3>6, TakesKeeps
  <2>5. CASE OR!Finally([job EXCEPT !.failed = row # "end"], w) /\ UNCHANGED <<library, consumer>>
    <3> DEFINE j == [job EXCEPT !.failed = row # "end"]
    <3>1. j \in OracleJob /\ j.op = job.op
      <4>1. PICK b \in BOOLEAN : b = (row # "end") OBVIOUS
      <4>2. j = [job EXCEPT !.failed = b] BY <4>1
      <4> HIDE DEF j
      <4> QED BY <2>1, <4>2 DEF OracleJob
    <3>2. OR!Finally(j, w) BY <2>5
    <3> HIDE DEF j, w
    <3> QED BY <1>1, <1>3, <1>16, <2>1, <2>3, <2>5, <3>1, <3>2
  <2> QED BY <2>2, <2>4, <2>5
<1>25. CASE OR!Continue
  <2>1. /\ at = "yielded" /\ UNCHANGED <<library, consumer, kept, subject, intx, lease>>
        /\ job \in OracleJob /\ job.op = "stream" /\ ~wire.busy /\ "break" \notin wire.open
    BY <1>2, <1>25 DEF OR!Continue
  <2>2. CASE OR!Finally([job EXCEPT !.failed = TRUE], wire)
    <3> DEFINE j == [job EXCEPT !.failed = TRUE]
    <3>1. j \in OracleJob /\ j.op = job.op /\ OR!Finally(j, wire) BY <2>1, <2>2 DEF OracleJob
    <3> HIDE DEF j
    <3> QED BY <1>1, <1>3, <1>16, <2>1, <3>1
  <2>3. CASE OR!Fetch(job, wire)
    <3>1. wire.open \subseteq {"cursor"} BY <1>1, <2>1
    <3> QED BY <1>1, <1>3, <1>13, <2>1, <2>3, <3>1
  <2> QED BY <1>25, <2>2, <2>3 DEF OR!Continue
<1>26. CASE OR!Leave
  <2>1. /\ at = "yielded" /\ OR!Finally(job, wire) /\ UNCHANGED <<library, kept, subject, intx, lease>>
        /\ consumer' = [consumer EXCEPT !.left = TRUE]
        /\ job \in OracleJob /\ job.op = "stream" /\ ~wire.busy
    BY <1>2, <1>26 DEF OR!Leave
  <2>2. consumer' \in Taker /\ consumer'.took = consumer.took BY <1>3, <2>1 DEF Taker
  <2> QED BY <1>1, <1>3, <1>16, <2>1, <2>2
<1>27. CASE OR!Settled
  <2>1. /\ at = "settling" /\ OR!Finally(job, wire) /\ UNCHANGED <<library, consumer, kept, subject, intx, lease>>
        /\ job \in OracleJob /\ job.op = "stream" /\ ~wire.busy
    BY <1>2, <1>27 DEF OR!Settled
  <2> QED BY <1>1, <1>3, <1>16, <2>1
<1> QED
  BY <1>4, <1>5, <1>6, <1>7, <1>8, <1>9, <1>17, <1>18, <1>19, <1>20, <1>21, <1>22, <1>23,
    <1>24, <1>25, <1>26,
    <1>27
  DEF OR!Next, OR!Progress
-----------------------------------------------------------------------------
(* A step of a driver's module is a step of that driver. *)
LEMMA TediousStays ==
    TD!Next => subject = "tedious" /\ subject' = subject
BY DEF TD!Next, TD!Query, TD!Stream, TD!Bulk, TD!Unsendable, TD!ControlSent, TD!Release,
  TD!Refused, TD!Aborted, TD!Complaint, TD!StreamAborted, TD!PrepareAborted,
  TD!ExecuteRefused, TD!ExecuteAborted, TD!Progress, TD!Send, TD!Unsent, TD!Me, TD!Control,
  TD!ReleaseOrDiscard, TD!owner, TD!Flowing, TD!Streaming, TD!Completed, TD!Row,
  TD!RequestCompleted, TD!Continue, TD!Leave, TD!Drained, TD!Prepared, TD!PrepareFailed,
  TD!Executed, TD!Unprepared, TD!ControlAnswered, TD!Start, TD!Turn, TD!Releasable,
  TD!Leased, TD!Answered

(* Likewise. *)
LEMMA OracleStays ==
    OR!Next => subject = "oracledb" /\ subject' = subject
BY DEF OR!Next, OR!Call, OR!Unsendable, OR!ControlSent, OR!BeginImplicit, OR!Release,
  OR!Aborted, OR!AbortedAside, OR!Progress, OR!Start, OR!Me, OR!Unsent, OR!Control, OR!Turn,
  OR!Releasable, OR!Leased, OR!owner, OR!Executed, OR!Read, OR!Closed, OR!BreakDone,
  OR!Broken, OR!Fetched, OR!Continue, OR!Leave, OR!Settled, OR!ControlAnswered, OR!Answered

(* Likewise. *)
LEMMA Mysql2Stays ==
    MY!Next => subject = "mysql2" /\ subject' = subject
BY DEF MY!Next, MY!Query, MY!Bulk, MY!Stream, MY!Unsendable, MY!SetupFailed, MY!ControlSent,
  MY!Release, MY!Aborted, MY!Pending, MY!Progress, MY!Send, MY!Unsent, MY!Me, MY!Turn,
  MY!Control, MY!ReleaseOrDiscard, MY!owner, MY!Requested, MY!Prepared, MY!Executed,
  MY!Unprepared, MY!Fetched, MY!Continue, MY!Leave, MY!Drain, MY!ControlAnswered, MY!Start,
  MY!Releasable, MY!Leased, MY!Answered

(* Likewise. *)
LEMMA MariadbStays ==
    MA!Next => subject = "mariadb" /\ subject' = subject
BY DEF MA!Next, MA!Query, MA!Stream, MA!Unsendable, MA!ControlSent, MA!Release, MA!Aborted,
  MA!Progress, MA!Send, MA!Unsent, MA!Me, MA!Control, MA!ReleaseOrDiscard, MA!owner,
  MA!Requested, MA!Read, MA!Continue, MA!Leave, MA!ControlAnswered, MA!Start, MA!Turn,
  MA!Releasable, MA!Leased, MA!Answered

(* Likewise. *)
LEMMA PgStays ==
    PG!Next => subject = "pg" /\ subject' = subject
BY DEF PG!Next, PG!Query, PG!Stream, PG!Bulk, PG!Unsendable, PG!ControlSent, PG!Release,
  PG!Aborted, PG!AbortedAside, PG!Progress, PG!Call, PG!Unsent, PG!Me, PG!Control,
  PG!ReleaseOrDiscard, PG!owner, PG!Ended, PG!Terminated, PG!Requested, PG!PortalFetched,
  PG!PortalClosed, PG!Deallocated, PG!Executed, PG!Read, PG!ReadFailed, PG!Continue,
  PG!Leave, PG!CursorClosed, PG!ControlAnswered, PG!Start, PG!Turn, PG!Releasable,
  PG!Leased, PG!Answered

(* Likewise. *)
LEMMA RequestsStays ==
    RQ!Next => subject \in RQ!Kinds /\ subject' = subject
BY DEF RQ!Next, RQ!Query, RQ!PostgresJsBulk, RQ!PgliteBulk, RQ!BunBulk, RQ!NeonBulk,
  RQ!LibsqlBulk, RQ!D1Bulk, RQ!Stream, RQ!Unsendable, RQ!ControlSent, RQ!BunControl,
  RQ!BunIsolation, RQ!LibsqlControl, RQ!BunRelease, RQ!PostgresJsRelease, RQ!Progress,
  RQ!Kinds, RQ!Send, RQ!Unsent, RQ!Control, RQ!Start, RQ!Releasable, RQ!Leased, RQ!Answer,
  RQ!Read, RQ!ReadFailed, RQ!Continue, RQ!Leave, RQ!ControlAnswered, RQ!BunIsolationSet,
  RQ!BunAnswered, RQ!LibsqlAnswered, RQ!LibsqlEnded, RQ!LibsqlClosed, RQ!Turn, RQ!Postgres,
  RQ!owner, RQ!Answered

(* Likewise. *)
LEMMA SqliteStays ==
    SQ!Next => subject \in SQ!Kinds /\ subject' = subject
BY DEF SQ!Next, SQ!BetterQuery, SQ!NodeQuery, SQ!WasmQuery, SQ!BetterStream, SQ!NodeStream,
  SQ!WasmStream, SQ!ControlTurn, SQ!Progress, SQ!OneTurn, SQ!Streams, SQ!Kinds, SQ!Turn,
  SQ!Continue, SQ!Leave, SQ!Start, SQ!owner
-----------------------------------------------------------------------------
(* A COMMIT of a spoiled transaction is not reported as done. *)

(* In a control statement the only way back is its answer. *)
LEMMA PgAnswers ==
    ASSUME PG!Next, at = "control", at' = "idle"
    PROVE  PG!ControlAnswered
BY DEF PG!Next, PG!Query, PG!Stream, PG!Bulk, PG!Unsendable, PG!ControlSent, PG!Release,
  PG!Aborted, PG!AbortedAside, PG!Progress, PG!Call, PG!Unsent, PG!Me, PG!Control,
  PG!ReleaseOrDiscard, PG!owner, PG!Ended, PG!Terminated, PG!Requested, PG!PortalFetched,
  PG!PortalClosed, PG!Deallocated, PG!Executed, PG!Read, PG!ReadFailed, PG!Continue,
  PG!Leave, PG!CursorClosed, PG!Start, PG!Turn, PG!Releasable, PG!Leased, PG!Raise

(* Likewise. *)
LEMMA RequestsAnswer ==
    ASSUME RQ!Next, at = "control", at' = "idle", subject \in RQ!Postgres
    PROVE  RQ!ControlAnswered
BY DEF RQ!Next, RQ!Query, RQ!PostgresJsBulk, RQ!PgliteBulk, RQ!BunBulk, RQ!NeonBulk,
  RQ!LibsqlBulk, RQ!D1Bulk, RQ!Stream, RQ!Unsendable, RQ!ControlSent, RQ!BunControl,
  RQ!BunIsolation, RQ!LibsqlControl, RQ!BunRelease, RQ!PostgresJsRelease, RQ!Progress,
  RQ!Kinds, RQ!Send, RQ!Unsent, RQ!Control, RQ!Start, RQ!Releasable, RQ!Leased, RQ!Answer,
  RQ!Read, RQ!ReadFailed, RQ!Continue, RQ!Leave, RQ!BunIsolationSet, RQ!BunAnswered,
  RQ!LibsqlAnswered, RQ!LibsqlEnded, RQ!LibsqlClosed, RQ!Turn, RQ!Postgres, RQ!owner,
  RQ!Answered, RQ!Goto

(* PostgreSQL answers the COMMIT of a spoiled transaction by ROLLBACK,     *)
(* which the executors refuse; a transaction that is not spoiled is open,  *)
(* because the runtime and the database agree.                             *)
LEMMA CommitReported ==
    ASSUME Common, Next, at = "control", job.op = "commit", at' = "idle", settled' = "ok"
    PROVE  wire.tx = "open"
<1>1. wire.tx \in {"none", "open", "spoiled"} /\ wire.tx # "none"
  BY DEF Common, Base, Shape, Wire, Between, Known, Controlled
<1>2. ASSUME wire.tx = "spoiled" PROVE FALSE
  <2>1. subject \in {"pg", "postgres-js", "pglite", "bun-postgres"}
    BY <1>2 DEF Common, Base, Spoilable
  <2>2. PG!Next \/ RQ!Next
    BY <2>1, TediousStays, OracleStays, Mysql2Stays, MariadbStays, SqliteStays DEF Next,
      SQ!Kinds
  <2>3. CASE PG!Next
    <3> DEFINE refused == PG!NotCommitted
    <3>1. refused \in BOOLEAN /\ refused BY <1>2 DEF PG!NotCommitted, PG!Spoiled
    <3>2. PG!Answered(PG!Me, refused) BY <2>3, PgAnswers DEF PG!ControlAnswered
    <3> HIDE DEF refused
    <3>3. Answered(PG!Me, refused) BY <3>2, PgShares
    <3> QED BY <3>1, <3>3, AnsweredKeeps
  <2>4. CASE RQ!Next
    <3> DEFINE refused == RQ!NotCommitted
    <3>1. refused \in BOOLEAN /\ refused BY <1>2 DEF RQ!NotCommitted, RQ!Spoiled
    <3>2. subject \in RQ!Postgres BY <2>1, <2>4, RequestsStays DEF RQ!Postgres, RQ!Kinds
    <3>3. PICK kind : RQ!Answered(kind, refused)
      BY <2>4, <3>2, RequestsAnswer DEF RQ!ControlAnswered
    <3> HIDE DEF refused
    <3>4. Answered(kind, refused) BY <3>3, RequestsShares
    <3> QED BY <3>1, <3>4, AnsweredKeeps
  <2> QED BY <2>2, <2>3, <2>4
<1> QED BY <1>1, <1>2
-----------------------------------------------------------------------------
(* All drivers together. *)

Inv ==
    /\ Common
    /\ SqliteInv /\ MariadbInv /\ Mysql2Inv /\ TediousInv /\ RequestsInv /\ OracleInv
    /\ PgInv /\ PgNames

(* A new lease. *)
LEMMA BeginsClean ==
    ASSUME NEW kind, NEW nothing, InitDriver(kind, nothing)
    PROVE  /\ Common /\ Contract!Init
           /\ subject = kind /\ at = "idle" /\ wire = Connected /\ kept = nothing
           /\ intx = FALSE /\ settled = "none" /\ signal = "none"
<1>1. Shape
  <2>1. wire \in Wire BY DEF InitDriver, Connected, Wire
  <2>2. library \in Sender /\ consumer \in Taker
    BY DEF InitDriver, NoRequest, Unread, Sender, Ops, Taker
  <2> QED BY <2>1, <2>2 DEF InitDriver, Shape
<1>2. Between /\ Known /\ Spoilable /\ Controlled
  BY DEF InitDriver, Connected, Between, Known, Spoilable, Controlled, Still, Left
<1>3. Rows BY DEF InitDriver, Unread, Rows, InOrder, Complete
<1>4. Contract!Init BY DEF InitDriver, Connected, Contract!Init, Contract!Quiet
<1> QED BY <1>1, <1>2, <1>3, <1>4 DEF Common, Base, InitDriver

(* Every driver begins with the invariant. *)
LEMMA InitKeeps ==
    ASSUME Init
    PROVE  Inv /\ Contract!Init
<1>1. CASE TD!Init
  <2>1. InitDriver("tedious", "nothing")
    BY <1>1 DEF InitDriver, NoJob, NoRequest, Unread, Connected,
      TD!Init, TD!Me, TD!InitDriver, TD!NoJob, TD!NoRequest, TD!Unread, TD!Connected
  <2>2. /\ Common /\ Contract!Init /\ subject = "tedious" /\ at = "idle" /\ wire = Connected
        /\ kept = "nothing" /\ intx = FALSE /\ settled = "none" /\ signal = "none"
    BY <2>1, BeginsClean
  <2> QED
    BY <2>2 DEF Inv, SqliteInv, MariadbInv, Mysql2Inv, TediousInv, RequestsInv, OracleInv,
      PgInv, PgNames,
    SQ!Kinds, RQ!Kinds, Connected
<1>2. CASE OR!Init
  <2>1. InitDriver("oracledb", OR!Fresh)
    BY <1>2 DEF InitDriver, NoJob, NoRequest, Unread, Connected,
      OR!Init, OR!Me, OR!InitDriver, OR!NoJob, OR!NoRequest, OR!Unread, OR!Connected
  <2>2. /\ Common /\ Contract!Init /\ subject = "oracledb" /\ at = "idle" /\ wire = Connected
        /\ kept = OR!Fresh /\ intx = FALSE /\ settled = "none" /\ signal = "none"
    BY <2>1, BeginsClean
  <2> QED
    BY <2>2 DEF Inv, SqliteInv, MariadbInv, Mysql2Inv, TediousInv, RequestsInv, OracleInv,
      PgInv, PgNames,
    SQ!Kinds, RQ!Kinds, Connected, OR!Fresh
<1>3. CASE MY!Init
  <2>1. InitDriver("mysql2", "nothing")
    BY <1>3 DEF InitDriver, NoJob, NoRequest, Unread, Connected,
      MY!Init, MY!Me, MY!InitDriver, MY!NoJob, MY!NoRequest, MY!Unread, MY!Connected
  <2>2. /\ Common /\ Contract!Init /\ subject = "mysql2" /\ at = "idle" /\ wire = Connected
        /\ kept = "nothing" /\ intx = FALSE /\ settled = "none" /\ signal = "none"
    BY <2>1, BeginsClean
  <2> QED
    BY <2>2 DEF Inv, SqliteInv, MariadbInv, Mysql2Inv, TediousInv, RequestsInv, OracleInv,
      PgInv, PgNames,
    SQ!Kinds, RQ!Kinds, Connected
<1>4. CASE MA!Init
  <2>1. InitDriver("mariadb", "nothing")
    BY <1>4 DEF InitDriver, NoJob, NoRequest, Unread, Connected,
      MA!Init, MA!Me, MA!InitDriver, MA!NoJob, MA!NoRequest, MA!Unread, MA!Connected
  <2>2. /\ Common /\ Contract!Init /\ subject = "mariadb" /\ at = "idle" /\ wire = Connected
        /\ kept = "nothing" /\ intx = FALSE /\ settled = "none" /\ signal = "none"
    BY <2>1, BeginsClean
  <2> QED
    BY <2>2 DEF Inv, SqliteInv, MariadbInv, Mysql2Inv, TediousInv, RequestsInv, OracleInv,
      PgInv, PgNames,
    SQ!Kinds, RQ!Kinds, Connected
<1>5. CASE PG!Init
  <2>1. InitDriver("pg", PG!Fresh)
    BY <1>5 DEF InitDriver, NoJob, NoRequest, Unread, Connected,
      PG!Init, PG!Me, PG!InitDriver, PG!NoJob, PG!NoRequest, PG!Unread, PG!Connected
  <2>2. /\ Common /\ Contract!Init /\ subject = "pg" /\ at = "idle" /\ wire = Connected
        /\ kept = PG!Fresh /\ intx = FALSE /\ settled = "none" /\ signal = "none"
    BY <2>1, BeginsClean
  <2> QED
    BY <2>2 DEF Inv, SqliteInv, MariadbInv, Mysql2Inv, TediousInv, RequestsInv, OracleInv,
      PgInv, PgNames,
    SQ!Kinds, RQ!Kinds, Connected, PG!Fresh
<1>6. CASE RQ!Init
  <2>1. PICK kind \in RQ!Kinds : InitDriver(kind, RQ!Fresh)
    BY <1>6 DEF InitDriver, NoJob, NoRequest, Unread, Connected,
      RQ!Init, RQ!InitDriver, RQ!NoJob, RQ!NoRequest, RQ!Unread, RQ!Connected
  <2>2. /\ Common /\ Contract!Init /\ subject \in RQ!Kinds /\ at = "idle" /\ wire = Connected
        /\ kept = RQ!Fresh /\ intx = FALSE /\ settled = "none" /\ signal = "none"
    BY <2>1, BeginsClean
  <2> QED
    BY <2>2 DEF Inv, SqliteInv, MariadbInv, Mysql2Inv, TediousInv, RequestsInv, OracleInv,
      PgInv, PgNames,
    SQ!Kinds, RQ!Kinds, Connected, RQ!Fresh
<1>7. CASE SQ!Init
  <2>1. PICK kind \in SQ!Kinds : InitDriver(kind, "nothing")
    BY <1>7 DEF InitDriver, NoJob, NoRequest, Unread, Connected,
      SQ!Init, SQ!InitDriver, SQ!NoJob, SQ!NoRequest, SQ!Unread, SQ!Connected
  <2>2. /\ Common /\ Contract!Init /\ subject \in SQ!Kinds /\ at = "idle" /\ wire = Connected
        /\ kept = "nothing" /\ intx = FALSE /\ settled = "none" /\ signal = "none"
    BY <2>1, BeginsClean
  <2> QED
    BY <2>2 DEF Inv, SqliteInv, MariadbInv, Mysql2Inv, TediousInv, RequestsInv, OracleInv,
      PgInv, PgNames,
    SQ!Kinds, RQ!Kinds, Connected
<1> QED BY <1>1, <1>2, <1>3, <1>4, <1>5, <1>6, <1>7 DEF Init

(* Every step keeps it: the driver's own part by its lemma, the parts of   *)
(* the others because they say nothing of it.                              *)
LEMMA NextKeeps ==
    ASSUME Inv, Next
    PROVE  Inv' /\ Kept
<1>1. CASE TD!Next
  <2>1. Kept /\ TediousInv' BY <1>1, TediousKeeps DEF Inv
  <2>2. subject' = "tedious" BY <1>1, TediousStays
  <2> QED
    BY <2>1, <2>2 DEF Kept, Inv, SqliteInv, MariadbInv, Mysql2Inv, TediousInv, RequestsInv,
      OracleInv, PgInv, PgNames,
    SQ!Kinds, RQ!Kinds
<1>2. CASE OR!Next
  <2>1. Kept /\ OracleInv' BY <1>2, OracleKeeps DEF Inv
  <2>2. subject' = "oracledb" BY <1>2, OracleStays
  <2> QED
    BY <2>1, <2>2 DEF Kept, Inv, SqliteInv, MariadbInv, Mysql2Inv, TediousInv, RequestsInv,
      OracleInv, PgInv, PgNames,
    SQ!Kinds, RQ!Kinds
<1>3. CASE MY!Next
  <2>1. Kept /\ Mysql2Inv' BY <1>3, Mysql2Keeps DEF Inv
  <2>2. subject' = "mysql2" BY <1>3, Mysql2Stays
  <2> QED
    BY <2>1, <2>2 DEF Kept, Inv, SqliteInv, MariadbInv, Mysql2Inv, TediousInv, RequestsInv,
      OracleInv, PgInv, PgNames,
    SQ!Kinds, RQ!Kinds
<1>4. CASE MA!Next
  <2>1. Kept /\ MariadbInv' BY <1>4, MariadbKeeps DEF Inv
  <2>2. subject' = "mariadb" BY <1>4, MariadbStays
  <2> QED
    BY <2>1, <2>2 DEF Kept, Inv, SqliteInv, MariadbInv, Mysql2Inv, TediousInv, RequestsInv,
      OracleInv, PgInv, PgNames,
    SQ!Kinds, RQ!Kinds
<1>5. CASE PG!Next
  <2>1. Kept /\ PgInv' /\ PgNames' BY <1>5, PgKeeps DEF Inv
  <2>2. subject' = "pg" BY <1>5, PgStays
  <2> QED
    BY <2>1, <2>2 DEF Kept, Inv, SqliteInv, MariadbInv, Mysql2Inv, TediousInv, RequestsInv,
      OracleInv, PgInv, PgNames,
    SQ!Kinds, RQ!Kinds
<1>6. CASE RQ!Next
  <2>1. Kept /\ RequestsInv' BY <1>6, RequestsKeeps DEF Inv
  <2>2. subject' \in RQ!Kinds BY <1>6, RequestsStays
  <2> QED
    BY <2>1, <2>2 DEF Kept, Inv, SqliteInv, MariadbInv, Mysql2Inv, TediousInv, RequestsInv,
      OracleInv, PgInv, PgNames,
    SQ!Kinds, RQ!Kinds
<1>7. CASE SQ!Next
  <2>1. Kept /\ SqliteInv' BY <1>7, SqliteKeeps DEF Inv
  <2>2. subject' \in SQ!Kinds BY <1>7, SqliteStays
  <2> QED
    BY <2>1, <2>2 DEF Kept, Inv, SqliteInv, MariadbInv, Mysql2Inv, TediousInv, RequestsInv,
      OracleInv, PgInv, PgNames,
    SQ!Kinds, RQ!Kinds
<1> QED BY <1>1, <1>2, <1>3, <1>4, <1>5, <1>6, <1>7 DEF Next

(* So does a stutter. *)
LEMMA StutterKeeps ==
    ASSUME Inv, UNCHANGED vars
    PROVE  Inv'
<1>1. UNCHANGED <<subject, at, job, library, consumer, wire, kept, signal, settled, intx, lease>>
  BY DEF vars
<1>2. Shape' /\ Between' BY <1>1 DEF Inv, Common, Base, Shape, Between, Still
<1>3. Known' /\ Spoilable' /\ Controlled'
  BY <1>1 DEF Inv, Common, Base, Known, Spoilable, Controlled
<1>4. Rows' BY <1>1 DEF Inv, Common, Rows, InOrder, Complete, Caught
<1>5. SqliteInv' BY <1>1 DEF Inv, SqliteInv, Caught
<1>6. MariadbInv' BY <1>1 DEF Inv, MariadbInv, Caught
<1>7. Mysql2Inv' BY <1>1 DEF Inv, Mysql2Inv, Caught
<1>8. TediousInv' BY <1>1 DEF Inv, TediousInv, Queued
<1>9. RequestsInv' BY <1>1 DEF Inv, RequestsInv, Queued
<1>10. OracleInv' BY <1>1 DEF Inv, OracleInv, Caught
<1>11. PgInv' BY <1>1 DEF Inv, PgInv, Queued
<1>12. PgNames' BY <1>1 DEF Inv, PgNames
<1> QED
  BY <1>2, <1>3, <1>4, <1>5, <1>6, <1>7, <1>8, <1>9, <1>10, <1>11, <1>12 DEF Inv, Common, Base

(* The invariant of all executors: what the connection, the library and    *)
(* the locals of the call are at every place of the code of the executors  *)
(* (postgres, mssql, oracle, mysql, mariadb, sqlite, bun-sql).             *)
THEOREM DriversInductive == Spec => []Inv
<1>1. Init => Inv BY InitKeeps
<1>2. Inv /\ [Next]_vars => Inv' BY NextKeeps, StutterKeeps
<1> QED BY <1>1, <1>2, PTL DEF Spec

(* Every executor keeps the contract the runtime relies on                 *)
(* (core/src/executor.ts), whatever the order of answer, error, abort and  *)
(* the consumer's leaving, for any number of calls, rows and faults.       *)
THEOREM ImplementsHolds == Spec => Implements
<1>1. Init => Contract!Init BY InitKeeps
<1>2. Inv /\ [Next]_vars => [Contract!Next]_Contract!vars
  <2>1. ASSUME Inv, Next PROVE Contract!Next
    BY <2>1, NextKeeps, MoveConforms DEF Inv, Kept, Common
  <2>2. ASSUME UNCHANGED vars PROVE UNCHANGED Contract!vars
    BY <2>2 DEF vars, Contract!vars
  <2> QED BY <2>1, <2>2
<1> QED BY <1>1, <1>2, DriversInductive, PTL DEF Spec, Implements, Contract!Spec

(* No call of an executor, failed or aborted, ends a transaction behind    *)
(* the runtime's back, and what the executor itself remembers of it        *)
(* agrees.                                                                 *)
THEOREM TransactionKept == Spec => []TransactionHolds
<1>1. Inv => TransactionHolds
  BY DEF Inv, Common, Base, Known, RequestsInv, OracleInv, RQ!Kinds, TransactionHolds, Poisoned
<1> QED BY <1>1, DriversInductive, PTL

(* A COMMIT an executor reports as done has committed: the transaction was *)
(* there and not spoiled (runControl of the PostgreSQL executors).         *)
THEOREM CommitHolds == Spec => CommitMeansCommitted
<1>1. Inv /\ [Next]_vars =>
        [at = "control" /\ job.op = "commit" /\ at' = "idle" /\ settled' = "ok" => wire.tx = "open"]_vars
  BY CommitReported DEF Inv
<1> QED BY <1>1, DriversInductive, PTL DEF Spec, CommitMeansCommitted

(* The stream of every executor hands over the rows in order, none lost or *)
(* twice, and all that were sent when it ends well and was not left.       *)
THEOREM StreamHolds == Spec => []StreamComplete
<1>1. Inv => StreamComplete
  BY DEF Inv, Common, Rows, InOrder, Complete, Caught, StreamComplete
<1> QED BY <1>1, DriversInductive, PTL

(* The name of node-postgres' bulk statement runs the text it is sent with *)
(* (evictPgBulkStatement).                                                 *)
THEOREM NameHolds == Spec => []NameMeansText
<1>1. Inv => NameMeansText
  BY DEF Inv, PgNames, NameMeansText, PG!NameMeansText, PG!Me
<1> QED BY <1>1, DriversInductive, PTL
=============================================================================
