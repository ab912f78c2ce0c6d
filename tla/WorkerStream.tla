----------------------------- MODULE WorkerStream ----------------------------
(***************************************************************************)
(* createWorkerQueryStream (worker-query-stream.mjs): a WASM query stream,  *)
(* which may still be loading, behind a ReadableStream.                     *)
(*                                                                         *)
(* JavaScript runs one task at a time, so a step lasts from one await to    *)
(* the next.  The Web Streams machinery is external: it calls pull while    *)
(* the queue is below the high-water mark and no pull is running; close     *)
(* leaves what is queued to the reader, error drops it and does nothing on  *)
(* a stream that is over, and close and enqueue throw on a stream that is   *)
(* over or closing.                                                         *)
(***************************************************************************)
EXTENDS Integers, Sequences

CONSTANTS
    MaxRows,    \* bound on the records of the query
    QueueSizes, \* high-water marks
    Absent

ASSUME WorkerAssumption == MaxRows \in Nat /\ QueueSizes \subseteq Nat \ {0}

VARIABLES
    query,   \* what is asked for: records, whether one after them fails, queue size
    core,    \* the WASM stream and the promise for it
    adapter, \* the variables of createWorkerQueryStream
    pull,    \* "idle", "core" (awaits the core stream) or "next" (awaits a record)
    record,  \* the record a pull awaits
    web      \* the ReadableStream and its reader

workerVars == <<query, core, adapter, pull, record, web>>

End == <<"end">>
Bad == <<"bad">>

(***************************************************************************)
(* The core stream (wasm.rs, wasm_edge.rs).                                 *)
(***************************************************************************)
\* A cancelled stream answers with an error, not with the end of the records.
next_json ==
    CASE core.cancelled -> Bad
      [] ~core.cancelled /\ core.position < query.rows -> <<"row", core.position + 1>>
      [] ~core.cancelled /\ core.position = query.rows -> IF query.fails THEN Bad ELSE End

\* The promise of the database resolves to a stream or to something else, or is rejected.
object_query_stream ==
    /\ core.state = "pending"
    /\ \E state \in {"ready", "invalid", "failed"} : core' = [core EXCEPT !.state = state]
    /\ UNCHANGED <<query, adapter, pull, record, web>>

\* pendingCoreStream.then(cancelStream): the stream that was still loading is cancelled.
cancelStream ==
    /\ core.then /\ core.state # "pending"
    /\ core' = [core EXCEPT !.then = FALSE, !.cancelled = core.state = "ready"]
    /\ UNCHANGED <<query, adapter, pull, record, web>>

(***************************************************************************)
(* The ReadableStream controller (external).                                *)
(***************************************************************************)
Error(w, code) ==
    IF w.state \in {"readable", "closing"}
    THEN [w EXCEPT !.state = "errored", !.code = code, !.queue = <<>>]
    ELSE w

Close(w) ==
    IF w.state = "readable"
    THEN [w EXCEPT !.state = IF w.queue = <<>> THEN "closed" ELSE "closing"]
    ELSE [w EXCEPT !.misused = TRUE]

Enqueue(w, chunk) ==
    IF w.state = "readable"
    THEN [w EXCEPT !.queue = Append(@, chunk)]
    ELSE [w EXCEPT !.misused = TRUE]

(***************************************************************************)
(* The adapter.                                                             *)
(***************************************************************************)
\* The core stream is cancelled now, or once its promise is resolved.
CancelledCore(a, c) ==
    IF a.known THEN [c EXCEPT !.cancelled = TRUE] ELSE [c EXCEPT !.then = TRUE]

\* cancelCore: once only; a signal of the operation is aborted as well.
cancelCore ==
    core' = IF adapter.cancelled THEN core ELSE CancelledCore(adapter, core)

Cancelled(a) ==
    [a EXCEPT !.cancelled = TRUE, !.operation = IF @ = "live" THEN "aborted" ELSE @]

\* The stream is over for the adapter, which stops to listen to the signal (cleanup).
Over(a) == [a EXCEPT !.closed = TRUE, !.listening = FALSE]

\* Mutant: an abort leaves the stream open, so the pull that awaits reports the outcome.
abort_flag_only ==
    /\ adapter.listening /\ ~adapter.closed
    /\ cancelCore
    /\ adapter' = Cancelled(adapter)
    /\ UNCHANGED <<query, pull, record, web>>

\* The abort signal fires, or had fired when the stream was started.
abort ==
    /\ adapter.listening /\ ~adapter.closed
    /\ cancelCore
    /\ adapter' = Over(Cancelled(adapter))
    /\ web' = Error(web, "cancelled")
    /\ UNCHANGED <<query, pull, record>>

\* The reader cancels the stream; a stream that closed meanwhile is left alone.
cancel ==
    /\ web.state \in {"readable", "closing"}
    /\ web' = [web EXCEPT !.state = "cancelled", !.queue = <<>>]
    /\ IF adapter.closed
       THEN UNCHANGED <<adapter, core>>
       ELSE adapter' = Over(Cancelled(adapter)) /\ cancelCore
    /\ UNCHANGED <<query, pull, record>>

\* The message decides on the code of an error.
mapStreamError(message) ==
    CASE message = "cancelled" -> "cancelled"
      [] message \in {"invalid query", "query stream"} -> "invalid"
      [] OTHER -> "unavailable"

\* catch: an error is reported unless the stream is over.
Report(message) ==
    /\ pull' = "idle"
    /\ UNCHANGED <<core, record>>
    /\ IF adapter.closed \/ adapter.cancelled
       THEN UNCHANGED <<adapter, web>>
       ELSE adapter' = Over(adapter) /\ web' = Error(web, mapStreamError(message))

\* next_json is called on the core stream: it throws at once or returns a record.
Ask ==
    IF next_json = Bad
    THEN Report(IF core.cancelled THEN "cancelled" ELSE "storage")
    ELSE /\ record' = next_json
         /\ core' = [core EXCEPT !.position = IF next_json = End THEN @ ELSE @ + 1]
         /\ adapter' = [adapter EXCEPT !.known = TRUE]
         /\ pull' = "next"
         /\ UNCHANGED web

\* pull is called (highWaterMark): a stream that is known is asked for a record at once.
pull_start ==
    /\ web.state = "readable" /\ pull = "idle" /\ Len(web.queue) < query.queueSize
    /\ ~adapter.closed /\ ~adapter.cancelled
    /\ IF adapter.known THEN Ask ELSE pull' = "core" /\ UNCHANGED <<core, adapter, record, web>>
    /\ UNCHANGED query

\* The promise for the core stream has settled.
pull_core ==
    /\ pull = "core" /\ core.state # "pending"
    /\ CASE core.state = "failed" -> \E message \in {"invalid query", "storage"} : Report(message)
         [] core.state # "failed" /\ (adapter.closed \/ adapter.cancelled) ->
              pull' = "idle" /\ UNCHANGED <<core, adapter, record, web>>
         [] core.state = "invalid" /\ ~adapter.closed /\ ~adapter.cancelled -> Report("query stream")
         [] core.state = "ready" /\ ~adapter.closed /\ ~adapter.cancelled -> Ask
    /\ UNCHANGED query

\* Mutant: the end is taken from the position of the core stream.
pull_next_early ==
    /\ pull = "next"
    /\ pull' = "idle" /\ record' = Absent
    /\ CASE adapter.closed \/ adapter.cancelled -> UNCHANGED <<adapter, web>>
         [] ~adapter.closed /\ ~adapter.cancelled /\ core.position = query.rows ->
              adapter' = Over(adapter) /\ web' = Close(web)
         [] OTHER -> web' = Enqueue(web, record) /\ UNCHANGED adapter
    /\ UNCHANGED <<query, core>>

\* The record was awaited: it is dropped, ends the stream or becomes one chunk.
pull_next ==
    /\ pull = "next"
    /\ pull' = "idle" /\ record' = Absent
    /\ CASE adapter.closed \/ adapter.cancelled -> UNCHANGED <<adapter, web>>
         [] ~adapter.closed /\ ~adapter.cancelled /\ record = End ->
              adapter' = Over(adapter) /\ web' = Close(web)
         [] OTHER -> web' = Enqueue(web, record) /\ UNCHANGED adapter
    /\ UNCHANGED <<query, core>>

\* The reader takes a chunk; the last one of a closing stream closes it (external).
Read ==
    /\ web.queue # <<>>
    /\ web' = [web EXCEPT !.read = Append(@, Head(web.queue)),
                          !.queue = Tail(@),
                          !.state = IF @ = "closing" /\ Len(web.queue) = 1 THEN "closed" ELSE @]
    /\ UNCHANGED <<query, core, adapter, pull, record>>

(***************************************************************************)
(* Specification.                                                           *)
(***************************************************************************)
\* A stream is created: the database returns the core stream (WasmCore) or a promise for
\* it (WasmObjectTable), with or without a signal for the operation.
createWorkerQueryStream ==
    /\ query \in [rows : 0..MaxRows, fails : BOOLEAN, queueSize : QueueSizes]
    /\ \E promised, signal, method \in BOOLEAN :
        /\ core = [state |-> IF promised THEN "pending" ELSE "ready",
                   position |-> 0, cancelled |-> FALSE, then |-> FALSE]
        /\ adapter = [known |-> ~promised, closed |-> FALSE, cancelled |-> FALSE,
                      listening |-> signal,
                      operation |-> IF promised /\ method THEN "live" ELSE "none"]

WorkerInit ==
    /\ createWorkerQueryStream
    /\ pull = "idle" /\ record = Absent
    /\ web = [state |-> "readable", code |-> Absent, queue |-> <<>>, read |-> <<>>, misused |-> FALSE]

Pull == pull_start \/ pull_core \/ pull_next

\* A stream that is over stays so.
Settled ==
    /\ web.state \in {"closed", "errored", "cancelled"}
    /\ UNCHANGED workerVars

WorkerNext == object_query_stream \/ cancelStream \/ Pull \/ Read \/ abort \/ cancel \/ Settled

WorkerSpec == WorkerInit /\ [][WorkerNext]_workerVars

\* The promise settles, the event loop runs the continuations, and the reader reads on.
FairWorker ==
    WorkerSpec /\ WF_workerVars(object_query_stream) /\ WF_workerVars(cancelStream) /\ WF_workerVars(Pull) /\ WF_workerVars(Read)

(***************************************************************************)
(* Properties.                                                              *)
(***************************************************************************)
\* The reader gets the records in order, each once, and sees the end of the stream only
\* after all of them: a failed load or record is never turned into a shorter result.
ChunksAreTheRecords ==
    /\ \A n \in DOMAIN web.read : web.read[n] = <<"row", n>>
    /\ web.state = "closed" => Len(web.read) = query.rows /\ ~query.fails

\* What a pull awaited is not given to a stream that was aborted or cancelled meanwhile.
LateRecordsAreDropped == ~web.misused

\* The core stream is at most the queue size ahead of the reader: one record per pull.
PullsOnDemand == core.position <= Len(web.read) + query.queueSize

\* A stream whose signal fired fails with the cancellation, whatever the pull that was
\* running finds: the error of the aborted load does not replace it.
CancellationWins ==
    adapter.cancelled => web.state = "cancelled" \/ (web.state = "errored" /\ web.code = "cancelled")

\* A stream that is read on ends: everything is delivered, or it fails or is cancelled;
\* and one that was aborted or cancelled cancels its core stream, also one that was still
\* loading at that moment.
StreamEnds ==
    <>(/\ web.state \in {"closed", "errored", "cancelled"}
       /\ adapter.cancelled => core.cancelled \/ core.state \in {"failed", "invalid"})

(***************************************************************************)
(* The inductive invariant of WorkerStreamProofs.                           *)
(***************************************************************************)
Chunk == {<<"row", n>> : n \in Nat}

\* The variables of the adapter, of the core stream and of the ReadableStream have their types.
WorkerTypeOK ==
    /\ query \in [rows : Nat, fails : BOOLEAN, queueSize : Nat \ {0}]
    /\ core \in [state : {"pending", "ready", "invalid", "failed"}, position : Nat,
                 cancelled : BOOLEAN, then : BOOLEAN]
    /\ adapter \in [known : BOOLEAN, closed : BOOLEAN, cancelled : BOOLEAN,
                    listening : BOOLEAN, operation : {"live", "aborted", "none"}]
    /\ pull \in {"idle", "core", "next"}
    /\ pull = "next" => record \in Chunk \cup {End}
    /\ web \in [state : {"readable", "closing", "closed", "errored", "cancelled"},
                code : {Absent, "cancelled", "invalid", "unavailable"},
                queue : Seq(Chunk), read : Seq(Chunk), misused : BOOLEAN]

\* The flag of the adapter and the state of the ReadableStream say the same: what is
\* checked before close and enqueue is what they check.
FlagsAgree ==
    /\ adapter.closed <=> web.state # "readable"
    /\ adapter.cancelled => adapter.closed

\* What was read, what is queued and the record that is awaited are consecutive, and the
\* record that is awaited is the one the core stream gave last.
Consecutive ==
    /\ \A n \in 1..Len(web.read) : web.read[n] = <<"row", n>>
    /\ \A n \in 1..Len(web.queue) : web.queue[n] = <<"row", Len(web.read) + n>>
    /\ pull = "next" /\ record # End => record = <<"row", core.position>>
    /\ pull = "next" /\ record = End => core.position = query.rows /\ ~query.fails
    /\ web.state = "readable" =>
          core.position = IF pull = "next" /\ record # End
                          THEN (Len(web.read) + Len(web.queue)) + 1
                          ELSE Len(web.read) + Len(web.queue)
    /\ web.state \in {"closing", "closed"} =>
          Len(web.read) + Len(web.queue) = query.rows /\ ~query.fails
    /\ web.state = "closed" => web.queue = <<>>
    /\ core.position <= query.rows

\* While a first pull awaits the core stream, there is room for its record.
RoomForFirst == pull = "core" => Len(web.queue) < query.queueSize

WorkerInv ==
    WorkerTypeOK /\ FlagsAgree /\ Consecutive /\ RoomForFirst
      /\ LateRecordsAreDropped /\ PullsOnDemand /\ CancellationWins
=============================================================================
