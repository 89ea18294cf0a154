----------------------------- MODULE Operations -----------------------------
(***************************************************************************)
(* One operation of the runtime as its observers see it: render and bind,  *)
(* query:ready, lease, driver, release, query:result, mapping,             *)
(* query:mapped, and query:error wherever it stops.  Observers are told    *)
(* one after the other and may throw at every event; one of them is the    *)
(* observer of the opentelemetry package, which never does.                *)
(*                                                                         *)
(* What a lease and a driver do beneath is in Scopes and Drivers: here     *)
(* they succeed or fail.                                                   *)
(***************************************************************************)
EXTENDS Naturals, Sequences

CONSTANTS
    Lineups,    \* lists of observers to try, of "user" and "otel"
    MaxItems,   \* bound: queries of a batch
    MaxRead     \* bound: rows a stream hands over

VARIABLES
    request,    \* the call: its method, whether prepared, the kind of its query, how many
    observers,
    step,       \* where its code stands
    item,       \* the query of the batch it is at
    raw,        \* of every query: what the driver did, "none", "ok" or "failed"
    told,       \* of every query: nothing more is owed to its observers (entry.terminal)
    due,        \* query:error events to be sent
    hold,       \* its lease: "none", "held", "released"
    failing,    \* a stream: its cleanup was reached by a failure
    rows,       \* rows a stream handed over
    heard,      \* of every observer and query: the events it was sent
    refused,    \* of every observer and query: the types of those it threw at
    spans,      \* of every query: the observer's entry in operations, and the spans it ended
    outcome     \* what the caller got

operationVars == <<request, observers, step, item, raw, told, due, hold, failing, rows,
                   heard, refused, spans, outcome>>

Methods == {"execute", "all", "one", "maybeOne", "call", "bulk", "batch", "stream"}
Preparable == Methods \ {"bulk", "batch"}
Kinds == {"rows", "command", "unknown", "call"}

Request(method, prepared, kind, count) ==
    [method |-> method, prepared |-> prepared, kind |-> kind, count |-> count]

(* What the method asserts of its query before anything else: assertRows-   *)
(* Query, assertExecutableQuery and call()'s own test.  The factory of a    *)
(* prepared query runs first; a bulk takes commands.                       *)
Accepts(method, kind) ==
    CASE method \in {"all", "one", "maybeOne", "stream"} -> kind \in {"rows", "unknown"}
      [] method = "batch" -> kind # "call"
      [] method = "call" -> kind = "call"
      [] method = "bulk" -> kind = "command"
      [] OTHER -> TRUE

PreparedAccepts(method, kind) == Accepts(method, kind) /\ (method = "execute" => kind # "call")

Requests ==
    {Request(m, FALSE, k, 1) : m \in Methods \ {"batch"}, k \in Kinds}
        \cup {Request(m, TRUE, k, 1) : m \in Preparable, k \in Kinds}
        \cup {Request("batch", FALSE, k, n) : k \in Kinds \ {"call"}, n \in 1 .. MaxItems}

Method == request.method
Items == 1 .. request.count
Rank == DOMAIN observers
-----------------------------------------------------------------------------
\* Events

Plain(type) == [type |-> type, started |-> FALSE, completed |-> FALSE]
Failure(started, completed) == [type |-> "error", started |-> started, completed |-> completed]
Ended(failed) == [type |-> IF failed THEN "endFailed" ELSE "end", started |-> TRUE, completed |-> ~failed]

ReadyType == IF Method = "bulk" THEN "bulkReady" ELSE "ready"

(* finishOperation and startOperation: an id that starts again loses its    *)
(* first span to an error.                                                 *)
Finish(entry, how) == IF entry.open THEN [entry EXCEPT !.open = FALSE, !.ended = Append(@, how)] ELSE entry
Begin(entry) == [Finish(entry, "error") EXCEPT !.open = TRUE]

(* The observer of createOpenTelemetryObserver.  It takes query:result and  *)
(* stream:start for attributes only.                                       *)
Observe(entry, type) ==
    CASE type \in {"ready", "bulkReady"} -> Begin(entry)
      [] type \in {"mapped", "bulkResult", "end"} -> Finish(entry, "success")
      [] type \in {"error", "endFailed"} -> Finish(entry, "error")
      [] OTHER -> entry

(* The observers who hear an event when the n-th of them throws; n = 0 for  *)
(* none.  notify() stops there; notifyTerminalObservers() goes on.         *)
FailFast(n) == IF n = 0 THEN Rank ELSE 1 .. n
(* Mutant of Fanout: the first observer that throws ends the delivery.     *)
FanoutFast(n) == FailFast(n)
Fanout(n) == Rank

Thrower == {0} \cup {n \in Rank : observers[n] = "user"}

Deliver(i, event, hearers, n) ==
    /\ heard' = [o \in Rank |-> IF o \in hearers THEN [heard[o] EXCEPT ![i] = Append(@, event)] ELSE heard[o]]
    /\ refused' = IF n = 0 THEN refused ELSE [refused EXCEPT ![n][i] = @ \cup {event.type}]
    /\ spans' = IF \E o \in hearers : observers[o] = "otel"
                THEN [spans EXCEPT ![i] = Observe(@, event.type)] ELSE spans

Silent == UNCHANGED <<heard, refused, spans>>

Go(label) == step' = label
Settle(how) == step' = "settled" /\ outcome' = how
(* The code throws, and owes the observers these errors first.             *)
Throw(errors) == step' = "failing" /\ due' = errors
ThrowOne(started, completed) == Throw(<<Failure(started, completed)>>)

(* notify(): where the code goes on, or the error it owes when an observer  *)
(* throws.                                                                 *)
Notify(event, next, started, completed) ==
    \E n \in Thrower :
        /\ Deliver(item, event, FailFast(n), n)
        /\ IF n = 0 THEN Go(next) /\ UNCHANGED due ELSE ThrowOne(started, completed)
-----------------------------------------------------------------------------
Init ==
    /\ request \in Requests /\ observers \in Lineups
    /\ step = "called" /\ item = 1
    /\ raw = [i \in Items |-> "none"] /\ told = [i \in Items |-> TRUE]
    /\ due = <<>> /\ hold = "none" /\ failing = FALSE /\ rows = 0
    /\ heard = [o \in Rank |-> [i \in Items |-> <<>>]]
    /\ refused = [o \in Rank |-> [i \in Items |-> {}]]
    /\ spans = [i \in Items |-> [open |-> FALSE, ended |-> <<>>]]
    /\ outcome = "none"

(* Nothing is called.                                                      *)
Quiet ==
    /\ request = Request("none", FALSE, "none", 0) /\ observers = <<>>
    /\ step = "quiet" /\ item = 1 /\ raw = <<>> /\ told = <<>> /\ due = <<>>
    /\ hold = "none" /\ failing = FALSE /\ rows = 0
    /\ heard = <<>> /\ refused = <<>> /\ spans = <<>> /\ outcome = "none"

(* The handle is open, the query is of the right kind and the options of a  *)
(* bulk or a batch can be met: without that, no event at all.              *)
Call ==
    /\ step = "called"
    /\ \/ Settle("failed")
       \/ /\ request.prepared \/ Accepts(Method, request.kind)
          /\ Go("prepare") /\ UNCHANGED outcome
    /\ Silent /\ UNCHANGED <<request, observers, item, raw, told, due, hold, failing, rows>>

(* prepare(): the factory, the shape of a prepared query, rendering and     *)
(* binding.  A failure is told, although there was no query:ready.          *)
Prepare ==
    /\ step = "prepare"
    /\ \/ ThrowOne(FALSE, FALSE)
       \/ Go(IF Method = "stream" /\ ~request.prepared THEN "check" ELSE "ready") /\ UNCHANGED due
    /\ Silent /\ UNCHANGED <<request, observers, item, raw, told, hold, failing, rows, outcome>>

(* observePrepared(), and the next query of a batch: only now is it one of  *)
(* the entries that are told of a failure of the others.                   *)
Ready ==
    /\ step = "ready"
    /\ \E n \in Thrower :
          /\ Deliver(item, Plain(ReadyType), FailFast(n), n)
          /\ CASE n # 0 -> ThrowOne(FALSE, FALSE) /\ UNCHANGED <<told, item>>
               [] n = 0 /\ Method = "batch" ->
                    /\ told' = [told EXCEPT ![item] = FALSE]
                    /\ IF item < request.count THEN item' = item + 1 /\ Go("prepare")
                                               ELSE item' = 1 /\ Go("acquire")
                    /\ UNCHANGED due
               [] OTHER -> Go(IF request.prepared THEN "kind" ELSE "check") /\ UNCHANGED <<told, item, due>>
    /\ UNCHANGED <<request, observers, raw, hold, failing, rows, outcome>>

(* A prepared query's kind is known only when it was built and query:ready  *)
(* was sent.  A stream tells its observers that it is the wrong one; the    *)
(* other methods throw past them.                                          *)
Kind ==
    /\ step = "kind"
    /\ IF PreparedAccepts(Method, request.kind) THEN Go("check") /\ UNCHANGED <<due, outcome>>
       ELSE IF Method = "stream" THEN ThrowOne(FALSE, FALSE) /\ UNCHANGED outcome
       ELSE Settle("failed") /\ UNCHANGED due
    /\ Silent /\ UNCHANGED <<request, observers, item, raw, told, hold, failing, rows>>

(* Options and capabilities of a call, a bulk or a stream.                 *)
Check ==
    /\ step = "check"
    /\ \/ Go(IF Method = "stream" THEN "start" ELSE "acquire") /\ UNCHANGED due
       \/ Method \in {"call", "bulk", "stream"} /\ ThrowOne(FALSE, FALSE)
    /\ Silent /\ UNCHANGED <<request, observers, item, raw, told, hold, failing, rows, outcome>>

Start ==
    /\ step = "start" /\ Notify(Plain("start"), "acquire", FALSE, FALSE)
    /\ UNCHANGED <<request, observers, item, raw, told, hold, failing, rows, outcome>>

(* leaseForUse().  A batch that gets none tells its first query itself.     *)
Acquire ==
    /\ step = "acquire"
    /\ \/ ThrowOne(FALSE, FALSE) /\ UNCHANGED hold
       \/ hold' = "held" /\ Go(IF Method = "stream" THEN "open" ELSE "drive") /\ UNCHANGED due
    /\ Silent /\ UNCHANGED <<request, observers, item, raw, told, failing, rows, outcome>>

(* physical(): the driver is called for one query after the other until     *)
(* one fails; a lease may lack call() or bulk().                           *)
Drive ==
    /\ step = "drive"
    /\ \/ /\ Method \in {"call", "bulk"} /\ Go("release") /\ UNCHANGED <<raw, item>>
       \/ /\ raw' = [raw EXCEPT ![item] = "failed"] /\ Go("release") /\ UNCHANGED item
       \/ /\ raw' = [raw EXCEPT ![item] = "ok"]
          /\ IF item < request.count THEN item' = item + 1 /\ UNCHANGED step
                                     ELSE item' = item /\ Go("release")
    /\ Silent /\ UNCHANGED <<request, observers, told, due, hold, failing, rows, outcome>>

(* What is owed when the lease has been released, well or not: for a bulk   *)
(* one error for each failure, for the others one for both.  item is the    *)
(* query that failed, or the last.                                         *)
OwedTwice(unreleased) == Method = "bulk" /\ raw[item] = "failed" /\ unreleased

Owed(unreleased) ==
    CASE raw[item] = "none" -> <<Failure(FALSE, FALSE)>>
      [] OwedTwice(unreleased) -> <<Failure(TRUE, FALSE), Failure(TRUE, FALSE)>>
      [] raw[item] = "failed" /\ ~OwedTwice(unreleased) -> <<Failure(TRUE, FALSE)>>
      [] raw[item] = "ok" /\ unreleased -> <<Failure(TRUE, TRUE)>>
      [] OTHER -> <<>>

(* The lease goes back before the results are looked at, or mapped by the   *)
(* application's schemas.                                                  *)
Release ==
    /\ step = "release" /\ hold' = "released"
    /\ \E unreleased \in BOOLEAN :
          IF Owed(unreleased) # <<>> THEN Throw(Owed(unreleased)) /\ UNCHANGED item
          ELSE Go("result") /\ item' = 1 /\ UNCHANGED due
    /\ Silent /\ UNCHANGED <<request, observers, raw, told, failing, rows, outcome>>

(* finalizePhysical(): the result is malformed or of another kind than the  *)
(* query declared, or it is announced.                                     *)
Result ==
    /\ step = "result"
    /\ \/ ThrowOne(TRUE, TRUE) /\ Silent
       \/ /\ Method # "execute" \/ request.kind # "call"
          /\ IF Method = "bulk" THEN Notify(Plain("bulkResult"), "finished", TRUE, TRUE)
                                ELSE Notify(Plain("result"), "shape", TRUE, TRUE)
    /\ UNCHANGED <<request, observers, item, raw, told, hold, failing, rows, outcome>>

(* one() and maybeOne() count the rows.  A query of unknown kind may have   *)
(* returned a command: they throw past their observers.                    *)
Shape ==
    /\ step = "shape"
    /\ \/ /\ Method \in {"one", "maybeOne"} /\ request.kind = "unknown"
          /\ Settle("failed") /\ UNCHANGED due
       \/ /\ Method \in {"one", "maybeOne"}
          /\ ThrowOne(TRUE, TRUE) /\ UNCHANGED outcome
       \/ Go("map") /\ UNCHANGED <<due, outcome>>
    /\ Silent /\ UNCHANGED <<request, observers, item, raw, told, hold, failing, rows>>

(* processRows() and mapRoutineResult(): a schema may throw.               *)
Map ==
    /\ step = "map"
    /\ \/ request.kind # "command" /\ ThrowOne(TRUE, TRUE) /\ Silent
       \/ Notify(Plain("mapped"), "finished", TRUE, TRUE)
    /\ UNCHANGED <<request, observers, item, raw, told, hold, failing, rows, outcome>>

(* Mutant of Concluded: processRows() returned, and terminal stays false.   *)
ConcludedOwed(i) == told
Concluded(i) == [told EXCEPT ![i] = TRUE]

(* all() finds only now that a query of unknown kind returned a command.   *)
Finished ==
    /\ step = "finished"
    /\ told' = Concluded(item)
    /\ IF item < request.count THEN item' = item + 1 /\ Go("result") /\ UNCHANGED outcome
       ELSE /\ UNCHANGED item
            /\ \/ Settle("ok")
               \/ Method = "all" /\ request.kind = "unknown" /\ Settle("failed")
    /\ Silent /\ UNCHANGED <<request, observers, raw, due, hold, failing, rows>>

(* notifyError(): every observer hears it.                                 *)
Fail ==
    /\ step = "failing"
    /\ \E n \in Thrower : Deliver(item, Head(due), Fanout(n), n)
    /\ due' = Tail(due)
    /\ CASE Tail(due) # <<>> -> UNCHANGED <<step, told, outcome>>
         [] Tail(due) = <<>> /\ Method = "batch" -> told' = [told EXCEPT ![item] = TRUE] /\ Go("abort") /\ UNCHANGED outcome
         [] Tail(due) = <<>> /\ Method = "stream" /\ hold = "held" -> Go("cleanup") /\ UNCHANGED <<told, outcome>>
         [] Tail(due) = <<>> /\ Method = "stream" /\ hold = "released" -> Go("end") /\ UNCHANGED <<told, outcome>>
         [] OTHER -> Settle("failed") /\ UNCHANGED told
    /\ UNCHANGED <<request, observers, item, raw, hold, failing, rows>>

(* abortEntries(): the queries of the batch that were announced and have    *)
(* not ended, with what the driver did for each.                           *)
Abandoned == {i \in Items : ~told[i]}

AbortError(i) == Failure(raw[i] # "none", raw[i] = "ok")

Abort ==
    /\ step = "abort"
    /\ IF Abandoned = {} THEN Settle("failed") /\ Silent /\ UNCHANGED told
       ELSE \E i \in Abandoned :
              /\ \A j \in Abandoned : i <= j
              /\ \E n \in Thrower : Deliver(i, AbortError(i), Fanout(n), n)
              /\ told' = [told EXCEPT ![i] = TRUE]
              /\ UNCHANGED <<step, outcome>>
    /\ UNCHANGED <<request, observers, item, raw, due, hold, failing, rows>>
-----------------------------------------------------------------------------
\* A stream between its lease and its end

(* The lease cannot stream, or its stream is asked for the first row.      *)
Open ==
    /\ step = "open"
    /\ \/ failing' = TRUE /\ ThrowOne(TRUE, FALSE) /\ UNCHANGED raw
       \/ raw' = [raw EXCEPT ![item] = "ok"] /\ Go("read") /\ UNCHANGED <<failing, due>>
    /\ Silent /\ UNCHANGED <<request, observers, item, told, hold, rows, outcome>>

(* The driver throws or the signal has fired; a schema refuses a row; the   *)
(* rows are at their end; a row is handed over, after which the consumer    *)
(* may leave.                                                              *)
Read ==
    /\ step = "read"
    /\ \/ raw' = [raw EXCEPT ![item] = "failed"] /\ failing' = TRUE /\ ThrowOne(TRUE, FALSE) /\ UNCHANGED rows
       \/ failing' = TRUE /\ ThrowOne(TRUE, TRUE) /\ UNCHANGED <<raw, rows>>
       \/ Go("cleanup") /\ UNCHANGED <<raw, rows, failing, due>>
       \/ /\ rows < MaxRead /\ rows' = rows + 1
          /\ step' \in {"read", "cleanup"} /\ UNCHANGED <<raw, failing, due>>
    /\ Silent /\ UNCHANGED <<request, observers, item, told, hold, outcome>>

(* The finally block: the iterator's return, then the lease's release; a    *)
(* failed release is an error of its own.                                  *)
Cleanup ==
    /\ step = "cleanup" /\ hold' = "released"
    /\ \E returned, released \in BOOLEAN :
          /\ failing' = (failing \/ ~returned \/ ~released)
          /\ IF released THEN Go("end") /\ UNCHANGED due
             ELSE ThrowOne(TRUE, ~failing /\ returned)
    /\ Silent /\ UNCHANGED <<request, observers, item, raw, told, rows, outcome>>

End ==
    /\ step = "end"
    /\ \E n \in Thrower :
          /\ Deliver(item, Ended(failing), Fanout(n), n)
          /\ Settle(IF failing \/ n # 0 THEN "failed" ELSE "ok")
    /\ UNCHANGED <<request, observers, item, raw, told, due, hold, failing, rows>>

Next ==
    \/ Call \/ Prepare \/ Ready \/ Kind \/ Check \/ Start \/ Acquire \/ Drive \/ Release
    \/ Result \/ Shape \/ Map \/ Finished \/ Fail \/ Abort \/ Open \/ Read \/ Cleanup \/ End
-----------------------------------------------------------------------------
\* What its observers may rely on

(* The two ways of the code to reject a call it has announced without a     *)
(* word to its observers: the kind of a prepared query, and a command where *)
(* one() or maybeOne() wanted rows.                                        *)
Unspoken ==
    \/ request.prepared /\ Method # "stream" /\ ~PreparedAccepts(Method, request.kind)
    \/ Method \in {"one", "maybeOne"} /\ request.kind = "unknown"

ResultTypes == {"mapped", "bulkResult"}
EndTypes == ResultTypes \cup {"error", "end", "endFailed"}

Announced(o, i) == heard[o][i] # <<>> /\ Head(heard[o][i]).type # "error"

(* Where an observer heard of the end of a query.                          *)
Endings(o, i) == {k \in DOMAIN heard[o][i] : heard[o][i][k].type \in EndTypes}

(* A stream that had its lease: the last event of all is its stream:end.     *)
EndsAsStream(o, i) ==
    LET type(k) == heard[o][i][k].type
        last == Len(heard[o][i])
    IN  /\ hold = "released" /\ type(last) \in {"end", "endFailed"}
        /\ \A k \in Endings(o, i) \ {last} : type(k) = "error"

(* The result the observer heard was refused, by itself or by a later one:   *)
(* notify() stopped there, and notifyError() told everybody.               *)
Retracted(o, i) == \E p \in Rank : p >= o /\ refused[p][i] \cap ResultTypes # {}

EndsAsResultAndError(o, i) ==
    \E k, l \in Endings(o, i) :
        /\ k < l /\ Endings(o, i) = {k, l}
        /\ heard[o][i][k].type \in ResultTypes /\ heard[o][i][l].type = "error"

(* Anything else ends once - unless it is one of the unspoken, which may not *)
(* end at all, or a bulk that lost both its driver and its lease.           *)
EndsOtherwise(o, i) ==
    \/ \E k \in Endings(o, i) :
          Endings(o, i) = {k} /\ heard[o][i][k].type \in ResultTypes \cup {"error"}
    \/ Unspoken /\ Endings(o, i) = {}
    \/ /\ Method = "bulk" /\ raw[i] = "failed"
       /\ \E k, l \in Endings(o, i) :
            /\ k < l /\ Endings(o, i) = {k, l}
            /\ heard[o][i][k].type = "error" /\ heard[o][i][l].type = "error"

EndedAsTold(o, i) ==
    IF Method = "stream" /\ hold # "none" THEN EndsAsStream(o, i)
    ELSE IF Retracted(o, i) THEN EndsAsResultAndError(o, i)
    ELSE EndsOtherwise(o, i)

(* When a call settles, everybody who was told that a query begins has been  *)
(* told how it ended, whatever stopped it and whoever else threw, and a      *)
(* query of a batch that was abandoned for another one too: with one event, *)
(* or with a result and an error exactly where the result was refused.      *)
EndsTold ==
    step = "settled" =>
        \A o \in Rank, i \in Items : Announced(o, i) => EndedAsTold(o, i)

(* An error says of its own query what the driver had done for it, whether  *)
(* it failed itself or was abandoned for another one, before the lease or   *)
(* after.  Streams are left out: a row that cannot be mapped counts as all. *)
Truthful ==
    Method # "stream" =>
        \A o \in Rank, i \in Items : \A k \in DOMAIN heard[o][i] :
            heard[o][i][k].type = "error" =>
                heard[o][i][k] = Failure(raw[i] # "none", raw[i] = "ok")

(* Registered last, the observer of OpenTelemetry ends a span it started     *)
(* once at most and with what the caller got, and keeps open only those of  *)
(* unspoken calls that failed.  Two things it cannot know: that all() took  *)
(* a command for an error, and that an observer before it threw at the end  *)
(* of a stream.                                                            *)
SpanTells ==
    step = "settled" /\ observers # <<>> /\ observers[Len(observers)] = "otel" =>
        \A i \in Items :
            /\ Len(spans[i].ended) <= 1
            /\ spans[i].open => Unspoken /\ outcome = "failed" /\ spans[i].ended = <<>>
            /\ outcome = "ok" /\ ~(Method = "stream" /\ ~request.prepared) => spans[i].ended = <<"success">>
            /\ outcome = "failed" /\ spans[i].ended = <<"success">> =>
                 \/ Method = "batch" /\ raw[i] = "ok"
                 \/ Method = "all" /\ request.kind = "unknown"
                 \/ Method = "stream" /\ \E o \in Rank : "end" \in refused[o][i]

(* How an operation ended can be told from what its observers heard, each    *)
(* error says what the driver had done by then, and the last one's spans    *)
(* agree with the caller.                                                  *)
Accounted == EndsTold /\ Truthful /\ SpanTells

(* What the documentation promises of a batch: who heard query:ready of one  *)
(* of its queries hears one query:mapped or query:error of it (observers.md).*)
OneTerminal ==
    step = "settled" /\ Method = "batch" =>
        \A o \in Rank, i \in Items :
            Announced(o, i) => \E k \in Endings(o, i) : Endings(o, i) = {k}

(* And of a span: it ends with the operation (opentelemetry.md).            *)
SpansEnd == step = "settled" => \A i \in Items : ~spans[i].open
=============================================================================
