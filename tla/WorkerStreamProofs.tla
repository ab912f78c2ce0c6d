------------------------- MODULE WorkerStreamProofs -------------------------
(***************************************************************************)
(* Proofs about createWorkerQueryStream, for any number of records and any  *)
(* queue size.  WorkerInv is inductive; the theorems follow from it.        *)
(***************************************************************************)
EXTENDS WorkerStream, TLAPS

\* A record is neither the end of the records nor a failure.
LEMMA Different == \A n \in Nat : <<"row", n>> # End /\ <<"row", n>> # Bad
BY Zenon DEF End, Bad

\* Positions and lengths.
LEMMA Successor == \A a, b \in Nat : a < b => a + 1 <= b
OBVIOUS

(* One more read and one fewer left is the same sum. *)
LEMMA MoveOne == \A a \in Nat : \A b \in Nat \ {0} : (a + 1) + (b - 1) = a + b
OBVIOUS

(* One more, counted on either side. *)
LEMMA Regroup == \A a, b \in Nat : a + (b + 1) = (a + 1) + b /\ a + (b + 1) = (a + b) + 1
OBVIOUS

(* A sequence of length zero is the empty one. *)
LEMMA ZeroLen == ASSUME NEW S PROVE \A q \in Seq(S) : Len(q) = 0 => q = <<>>
OBVIOUS

\* What next_json gives: the next record, the end after the last one, or a failure.
LEMMA Answer ==
    ASSUME WorkerInv
    PROVE  /\ next_json \in Chunk \cup {End, Bad}
           /\ next_json \in Chunk => next_json = <<"row", core.position + 1>> /\ core.position < query.rows
           /\ next_json = End => core.position = query.rows /\ ~query.fails
           /\ End # Bad /\ End \notin Chunk /\ Bad \notin Chunk
<1>1. End # Bad /\ End \notin Chunk /\ Bad \notin Chunk
  BY Different, Zenon DEF Chunk, End, Bad
<1>2. query.rows \in Nat /\ core.position \in Nat /\ core.position <= query.rows
      /\ query.fails \in BOOLEAN /\ core.cancelled \in BOOLEAN
  BY Zenon DEF WorkerInv, WorkerTypeOK, Consecutive
<1>3. CASE core.cancelled
  BY <1>1, <1>3, Zenon DEF next_json
<1>4. CASE ~core.cancelled /\ core.position < query.rows
  <2>1. next_json = <<"row", core.position + 1>>
    BY <1>2, <1>4 DEF next_json
  <2>2. next_json \in Chunk
    BY <1>2, <2>1 DEF Chunk
  <2> QED
    BY <1>1, <1>4, <2>1, <2>2, Zenon
<1>5. CASE ~core.cancelled /\ core.position = query.rows
  <2>1. next_json = IF query.fails THEN Bad ELSE End
    BY <1>2, <1>5 DEF next_json
  <2> QED
    BY <1>1, <1>2, <1>5, <2>1, Zenon
<1> QED
  BY <1>2, <1>3, <1>4, <1>5

\* A stream is created with nothing read, nothing queued and nothing awaited.
LEMMA WorkerInitInv == WorkerInit => WorkerInv
<1> SUFFICES ASSUME WorkerInit PROVE WorkerInv
  BY Zenon
<1>1. PICK promised \in BOOLEAN, signal \in BOOLEAN, method \in BOOLEAN :
        /\ core = [state |-> IF promised THEN "pending" ELSE "ready",
                   position |-> 0, cancelled |-> FALSE, then |-> FALSE]
        /\ adapter = [known |-> ~promised, closed |-> FALSE, cancelled |-> FALSE,
                      listening |-> signal,
                      operation |-> IF promised /\ method THEN "live" ELSE "none"]
  BY Zenon DEF WorkerInit, createWorkerQueryStream
<1>2. query \in [rows : Nat, fails : BOOLEAN, queueSize : Nat \ {0}]
  <2>1. query \in [rows : 0..MaxRows, fails : BOOLEAN, queueSize : QueueSizes]
    BY Zenon DEF WorkerInit, createWorkerQueryStream
  <2>2. 0..MaxRows \subseteq Nat /\ QueueSizes \subseteq Nat \ {0}
    BY WorkerAssumption
  <2> QED
    BY <2>1, <2>2, Zenon
<1>3. /\ core \in [state : {"pending", "ready", "invalid", "failed"}, position : Nat,
                   cancelled : BOOLEAN, then : BOOLEAN]
      /\ core.position = 0
  BY <1>1, Zenon
<1>4. /\ adapter \in [known : BOOLEAN, closed : BOOLEAN, cancelled : BOOLEAN,
                      listening : BOOLEAN, operation : {"live", "aborted", "none"}]
      /\ ~adapter.closed /\ ~adapter.cancelled
  BY <1>1, Zenon
<1>5. /\ web \in [state : {"readable", "closing", "closed", "errored", "cancelled"},
                  code : {Absent, "cancelled", "invalid", "unavailable"},
                  queue : Seq(Chunk), read : Seq(Chunk), misused : BOOLEAN]
      /\ web.state = "readable" /\ web.queue = <<>> /\ web.read = <<>> /\ ~web.misused
  BY DEF WorkerInit
<1>6. pull = "idle"
  BY Zenon DEF WorkerInit
<1>7. WorkerTypeOK /\ FlagsAgree /\ RoomForFirst
  BY <1>2, <1>3, <1>4, <1>5, <1>6, Zenon DEF WorkerTypeOK, FlagsAgree, RoomForFirst
<1>8. Consecutive
  BY <1>2, <1>3, <1>5, <1>6 DEF Consecutive
<1>9. LateRecordsAreDropped /\ PullsOnDemand /\ CancellationWins
  BY <1>2, <1>3, <1>4, <1>5 DEF LateRecordsAreDropped, PullsOnDemand, CancellationWins
<1> QED
  BY <1>7, <1>8, <1>9, Zenon DEF WorkerInv

\* The promise for the core stream settles, or the stream that was loading is cancelled.
LEMMA CoreStep == WorkerInv /\ (object_query_stream \/ cancelStream) => WorkerInv'
<1> SUFFICES ASSUME WorkerInv, object_query_stream \/ cancelStream PROVE WorkerInv'
  BY Zenon
<1>1. /\ core' \in [state : {"pending", "ready", "invalid", "failed"}, position : Nat,
                    cancelled : BOOLEAN, then : BOOLEAN]
      /\ core'.position = core.position
  BY ZenonT(60) DEF object_query_stream, cancelStream, WorkerInv, WorkerTypeOK
<1>2. UNCHANGED <<query, adapter, pull, record, web>>
  BY Zenon DEF object_query_stream, cancelStream
<1>3. WorkerTypeOK'
  BY <1>1, <1>2 DEF WorkerInv, WorkerTypeOK
<1>4. FlagsAgree' /\ Consecutive' /\ RoomForFirst'
  BY <1>1, <1>2, Zenon DEF WorkerInv, FlagsAgree, Consecutive, RoomForFirst
<1>5. LateRecordsAreDropped' /\ PullsOnDemand' /\ CancellationWins'
  BY <1>1, <1>2, Zenon DEF WorkerInv, LateRecordsAreDropped, PullsOnDemand, CancellationWins
<1> QED
  BY <1>3, <1>4, <1>5, Zenon DEF WorkerInv

\* What a step that stops the stream does to it: the queue may be dropped, the rest stays.
LEMMA StoppedInv ==
    ASSUME WorkerInv,
           query' = query, pull' = "idle" \/ UNCHANGED <<pull, record>>,
           core' \in [state : {"pending", "ready", "invalid", "failed"}, position : Nat,
                      cancelled : BOOLEAN, then : BOOLEAN],
           core'.position = core.position,
           adapter' \in [known : BOOLEAN, closed : BOOLEAN, cancelled : BOOLEAN,
                         listening : BOOLEAN, operation : {"live", "aborted", "none"}],
           adapter'.closed,
           NEW s \in {"errored", "cancelled"}, NEW c \in {Absent, "cancelled", "invalid", "unavailable"},
           web' = [web EXCEPT !.state = s, !.code = c, !.queue = <<>>],
           adapter'.cancelled => s = "cancelled" \/ c = "cancelled"
    PROVE  WorkerInv'
<1>1. web \in [state : {"readable", "closing", "closed", "errored", "cancelled"},
                  code : {Absent, "cancelled", "invalid", "unavailable"},
                  queue : Seq(Chunk), read : Seq(Chunk), misused : BOOLEAN]
  BY Zenon DEF WorkerInv, WorkerTypeOK
<1>e. <<>> \in Seq(Chunk)
  OBVIOUS
<1>2. /\ web' \in [state : {"readable", "closing", "closed", "errored", "cancelled"},
                   code : {Absent, "cancelled", "invalid", "unavailable"},
                   queue : Seq(Chunk), read : Seq(Chunk), misused : BOOLEAN]
      /\ web'.state = s /\ web'.code = c /\ web'.queue = <<>> /\ web'.read = web.read
      /\ web'.misused = web.misused
  BY <1>1, <1>e, Zenon
<1>3. WorkerTypeOK' /\ FlagsAgree'
  BY <1>2 DEF WorkerInv, WorkerTypeOK, FlagsAgree
<1>4. Len(web'.queue) = 0 /\ 1..Len(web'.queue) = {} /\ query.queueSize > 0
  BY <1>2 DEF WorkerInv, WorkerTypeOK
<1>5. Consecutive'
  BY <1>2, <1>4 DEF WorkerInv, Consecutive
<1>6. RoomForFirst'
  BY <1>4, Zenon DEF RoomForFirst
<1>7. LateRecordsAreDropped' /\ PullsOnDemand' /\ CancellationWins'
  BY <1>2, Zenon DEF WorkerInv, LateRecordsAreDropped, PullsOnDemand, CancellationWins
<1> QED
  BY <1>3, <1>5, <1>6, <1>7, Zenon DEF WorkerInv

\* An abort or a cancel ends the stream for the adapter and for its reader in one step.
LEMMA StopStep == WorkerInv /\ (abort \/ cancel) => WorkerInv'
<1> SUFFICES ASSUME WorkerInv, abort \/ cancel PROVE WorkerInv'
  BY Zenon
<1>1. WorkerTypeOK /\ FlagsAgree
  BY Zenon DEF WorkerInv
<1>2. ASSUME cancelCore
      PROVE  /\ core' \in [state : {"pending", "ready", "invalid", "failed"}, position : Nat,
                           cancelled : BOOLEAN, then : BOOLEAN]
             /\ core'.position = core.position
  BY <1>1, <1>2, Zenon DEF cancelCore, CancelledCore, WorkerTypeOK
<1>3. /\ Over(Cancelled(adapter)) \in
             [known : BOOLEAN, closed : BOOLEAN, cancelled : BOOLEAN,
              listening : BOOLEAN, operation : {"live", "aborted", "none"}]
      /\ Over(Cancelled(adapter)).closed
  BY <1>1, Zenon DEF WorkerTypeOK, Over, Cancelled
<1>4. CASE abort
  <2>1. web' = [web EXCEPT !.state = "errored", !.code = "cancelled", !.queue = <<>>]
    BY <1>1, <1>4, Zenon DEF abort, Error, FlagsAgree
  <2>2. UNCHANGED <<query, pull, record>> /\ cancelCore /\ adapter' = Over(Cancelled(adapter))
    BY <1>4, Zenon DEF abort
  <2> QED
    BY <1>2, <1>3, <2>1, <2>2, StoppedInv, Zenon
<1>5. CASE cancel
  <2>1. web' = [web EXCEPT !.state = "cancelled", !.code = web.code, !.queue = <<>>]
    BY <1>1, <1>5, Zenon DEF cancel, WorkerTypeOK
  <2>2. UNCHANGED <<query, pull, record>>
    BY <1>5, Zenon DEF cancel
  <2>3. /\ core' \in [state : {"pending", "ready", "invalid", "failed"}, position : Nat,
                      cancelled : BOOLEAN, then : BOOLEAN]
        /\ core'.position = core.position
    BY <1>1, <1>2, <1>5, ZenonT(60) DEF cancel, WorkerTypeOK
  <2>4. /\ adapter' \in [known : BOOLEAN, closed : BOOLEAN, cancelled : BOOLEAN,
                         listening : BOOLEAN, operation : {"live", "aborted", "none"}]
        /\ adapter'.closed
    BY <1>1, <1>3, <1>5, ZenonT(60) DEF cancel, WorkerTypeOK
  <2>5. web.code \in {Absent, "cancelled", "invalid", "unavailable"}
    BY <1>1, Zenon DEF WorkerTypeOK
  <2> QED
    BY <2>1, <2>2, <2>3, <2>4, <2>5, StoppedInv, Zenon
<1> QED
  BY <1>4, <1>5, Zenon

\* A pull that finds the stream over, or fails, ends; a failure ends an open stream.
LEMMA ReportStep ==
    ASSUME WorkerInv, pull # "next", NEW message, Report(message), query' = query
    PROVE  WorkerInv'
<1>1. WorkerTypeOK /\ FlagsAgree
  BY Zenon DEF WorkerInv
<1>2. pull' = "idle" /\ UNCHANGED <<core, record>>
  BY Zenon DEF Report
<1>3. CASE adapter.closed \/ adapter.cancelled
  <2>1. UNCHANGED <<adapter, web>>
    BY <1>3, Zenon DEF Report
  <2>2. WorkerTypeOK' /\ FlagsAgree' /\ RoomForFirst'
    BY <1>1, <1>2, <2>1 DEF WorkerTypeOK, FlagsAgree, RoomForFirst
  <2>3. Consecutive'
    BY <1>2, <2>1, Zenon DEF WorkerInv, Consecutive
  <2>4. LateRecordsAreDropped' /\ PullsOnDemand' /\ CancellationWins'
    BY <1>2, <2>1, Zenon DEF WorkerInv, LateRecordsAreDropped, PullsOnDemand, CancellationWins
  <2> QED
    BY <2>2, <2>3, <2>4, Zenon DEF WorkerInv
<1>4. CASE ~adapter.closed /\ ~adapter.cancelled
  <2>1. mapStreamError(message) \in {Absent, "cancelled", "invalid", "unavailable"}
    BY Zenon DEF mapStreamError
  <2>2. web' = [web EXCEPT !.state = "errored", !.code = mapStreamError(message), !.queue = <<>>]
    BY <1>1, <1>4, Zenon DEF Report, Error, FlagsAgree
  <2>3. /\ adapter' \in [known : BOOLEAN, closed : BOOLEAN, cancelled : BOOLEAN,
                         listening : BOOLEAN, operation : {"live", "aborted", "none"}]
        /\ adapter'.closed /\ ~adapter'.cancelled
    BY <1>1, <1>4, ZenonT(60) DEF Report, Over, WorkerTypeOK
  <2>4. /\ core' \in [state : {"pending", "ready", "invalid", "failed"}, position : Nat,
                      cancelled : BOOLEAN, then : BOOLEAN]
        /\ core'.position = core.position
    BY <1>1, <1>2, Zenon DEF WorkerTypeOK
  <2> QED
    BY <1>2, <2>1, <2>2, <2>3, <2>4, StoppedInv, Zenon
<1> QED
  BY <1>3, <1>4, Zenon

\* Asking the core stream on behalf of a stream that is open and has room.
LEMMA AskStep ==
    ASSUME WorkerInv, pull # "next", Ask, query' = query,
           ~adapter.closed, Len(web.queue) < query.queueSize
    PROVE  WorkerInv'
<1>1. CASE next_json = Bad
  BY <1>1, ReportStep, Zenon DEF Ask
<1>2. CASE next_json # Bad
  <2>1. /\ record' = next_json /\ pull' = "next" /\ web' = web
        /\ core' = [core EXCEPT !.position = IF next_json = End THEN @ ELSE @ + 1]
        /\ adapter' = [adapter EXCEPT !.known = TRUE]
    BY <1>2, Zenon DEF Ask
  <2>2. WorkerTypeOK /\ FlagsAgree /\ web.state = "readable"
    BY Zenon DEF WorkerInv, FlagsAgree, WorkerTypeOK
  <2>3. CASE next_json = End
    <3>1. core.position = query.rows /\ ~query.fails
      BY <2>3, Answer, Zenon
    <3>2. core' \in [state : {"pending", "ready", "invalid", "failed"}, position : Nat,
                     cancelled : BOOLEAN, then : BOOLEAN]
          /\ core'.position = core.position
      BY <2>1, <2>2, <2>3, Zenon DEF WorkerTypeOK
    <3>3. WorkerTypeOK' /\ FlagsAgree' /\ RoomForFirst'
      BY <2>1, <2>2, <2>3, <3>2, Zenon DEF WorkerTypeOK, FlagsAgree, RoomForFirst
    <3>4. Consecutive'
      BY <2>1, <2>2, <2>3, <3>1, <3>2, Zenon DEF WorkerInv, Consecutive
    <3>5. LateRecordsAreDropped' /\ PullsOnDemand' /\ CancellationWins'
      BY <2>1, <2>2, <3>2, Zenon DEF WorkerInv, WorkerTypeOK, LateRecordsAreDropped, PullsOnDemand, CancellationWins
    <3> QED
      BY <3>3, <3>4, <3>5, Zenon DEF WorkerInv
  <2>4. CASE next_json # End
    <3>1. /\ next_json \in Chunk /\ next_json = <<"row", core.position + 1>>
          /\ core.position < query.rows
      BY <1>2, <2>4, Answer, Zenon
    <3>0. core' = [core EXCEPT !.position = core.position + 1]
      BY <2>1, <2>4, Zenon
    <3>2. core' \in [state : {"pending", "ready", "invalid", "failed"}, position : Nat,
                     cancelled : BOOLEAN, then : BOOLEAN]
          /\ core'.position = core.position + 1
      <4>1. core.position + 1 \in Nat
        BY <2>2 DEF WorkerTypeOK
      <4> QED
        BY <3>0, <2>2, <4>1, ZenonT(60) DEF WorkerTypeOK
    <3>3. WorkerTypeOK' /\ FlagsAgree' /\ RoomForFirst'
      BY <2>1, <2>2, <3>1, <3>2, Zenon DEF WorkerTypeOK, FlagsAgree, RoomForFirst
    <3>4. /\ Len(web.read) \in Nat /\ Len(web.queue) \in Nat /\ core.position \in Nat
          /\ query.rows \in Nat /\ query.queueSize \in Nat
          /\ core.position = Len(web.read) + Len(web.queue)
      BY <2>2 DEF WorkerInv, WorkerTypeOK, Consecutive
    <3>a. web' = web /\ query' = query /\ pull' = "next" /\ record' = <<"row", core'.position>>
          /\ record' # End
      BY <2>1, <2>4, <3>1, <3>2, Zenon
    <3>5. Consecutive'
      <4>1. core'.position = core.position + 1
        BY <3>2, Zenon
      <4>2. core'.position <= query.rows /\ core'.position = (Len(web.read) + Len(web.queue)) + 1
        <5>1. core.position + 1 <= query.rows
          BY <3>1, <3>4, Successor, Zenon
        <5> QED
          BY <4>1, <3>4, <5>1, Zenon
      <4>3. /\ \A n \in 1..Len(web.read) : web.read[n] = <<"row", n>>
            /\ \A n \in 1..Len(web.queue) : web.queue[n] = <<"row", Len(web.read) + n>>
        BY Zenon DEF WorkerInv, Consecutive
      <4> QED
        BY <2>2, <3>a, <4>2, <4>3, Zenon DEF Consecutive
    <3>6. PullsOnDemand'
      <4>1. core'.position = core.position + 1
        BY <3>2, Zenon
      <4>2. core.position + 1 <= Len(web.read) + query.queueSize
        <5>1. ASSUME NEW r \in Nat, NEW q \in Nat, NEW z \in Nat, NEW c \in Nat, q < z, c = r + q
              PROVE  c + 1 <= r + z
          BY <5>1
        <5> QED
          BY <3>4, <5>1, Zenon
      <4>3. core'.position <= Len(web'.read) + query'.queueSize
        BY <4>1, <4>2, <3>a, Zenon
      <4> QED
        BY <4>3, Zenon DEF PullsOnDemand
    <3>7. LateRecordsAreDropped' /\ CancellationWins'
      BY <2>1, <2>2, Zenon DEF WorkerInv, WorkerTypeOK, LateRecordsAreDropped, CancellationWins
    <3> QED
      BY <3>3, <3>5, <3>6, <3>7, Zenon DEF WorkerInv
  <2> QED
    BY <2>3, <2>4, Zenon
<1> QED
  BY <1>1, <1>2, Zenon

\* The first part of a pull: the stream is known and is asked, or its promise is awaited.
LEMMA PullStartStep == WorkerInv /\ pull_start => WorkerInv'
<1> SUFFICES ASSUME WorkerInv, pull_start PROVE WorkerInv'
  BY Zenon
<1>1. /\ pull = "idle" /\ ~adapter.closed /\ Len(web.queue) < query.queueSize
      /\ query' = query
  BY Zenon DEF pull_start
<1>2. CASE adapter.known
  BY <1>1, <1>2, AskStep, Zenon DEF pull_start
<1>3. CASE ~adapter.known
  <2>1. pull' = "core" /\ UNCHANGED <<core, adapter, record, web>>
    BY <1>3, Zenon DEF pull_start
  <2>2. WorkerTypeOK' /\ FlagsAgree' /\ RoomForFirst'
    BY <1>1, <2>1 DEF WorkerInv, WorkerTypeOK, FlagsAgree, RoomForFirst
  <2>3. Consecutive'
    BY <1>1, <2>1, Zenon DEF WorkerInv, Consecutive
  <2>4. LateRecordsAreDropped' /\ PullsOnDemand' /\ CancellationWins'
    BY <1>1, <2>1, Zenon DEF WorkerInv, LateRecordsAreDropped, PullsOnDemand, CancellationWins
  <2> QED
    BY <2>2, <2>3, <2>4, Zenon DEF WorkerInv
<1> QED
  BY <1>2, <1>3, Zenon

\* The promise has settled: the pull fails, finds the stream over, or asks for a record.
LEMMA PullCoreStep == WorkerInv /\ pull_core => WorkerInv'
<1> SUFFICES ASSUME WorkerInv, pull_core PROVE WorkerInv'
  BY Zenon
<1>1. pull = "core" /\ query' = query /\ Len(web.queue) < query.queueSize
  BY Zenon DEF pull_core, WorkerInv, RoomForFirst
<1>2. CASE core.state = "failed"
  <2>1. \E message \in {"invalid query", "storage"} : Report(message)
    BY <1>2, Zenon DEF pull_core
  <2> QED
    BY <1>1, <2>1, ReportStep, Zenon
<1>3. CASE core.state # "failed" /\ (adapter.closed \/ adapter.cancelled)
  <2>1. pull' = "idle" /\ UNCHANGED <<core, adapter, record, web>>
    BY <1>3, Zenon DEF pull_core
  <2>2. Report("query stream")
    BY <1>3, <2>1, Zenon DEF Report
  <2> QED
    BY <1>1, <2>2, ReportStep, Zenon
<1>4. CASE core.state = "invalid" /\ ~adapter.closed /\ ~adapter.cancelled
  <2>1. Report("query stream")
    BY <1>4, Zenon DEF pull_core
  <2> QED
    BY <1>1, <2>1, ReportStep, Zenon
<1>5. CASE core.state = "ready" /\ ~adapter.closed /\ ~adapter.cancelled
  <2>1. Ask
    BY <1>5, Zenon DEF pull_core
  <2> QED
    BY <1>1, <1>5, <2>1, AskStep, Zenon
<1>6. core.state \in {"ready", "invalid", "failed"}
  BY Zenon DEF pull_core, WorkerInv, WorkerTypeOK
<1> QED
  BY <1>2, <1>3, <1>4, <1>5, <1>6, Zenon

\* The record was awaited: a stream that is over drops it, an open one delivers it.
LEMMA PullNextStep == WorkerInv /\ pull_next => WorkerInv'
<1> SUFFICES ASSUME WorkerInv, pull_next PROVE WorkerInv'
  BY Zenon
<1>1. WorkerTypeOK /\ FlagsAgree /\ Consecutive
  BY Zenon DEF WorkerInv
<1>2. pull = "next" /\ pull' = "idle" /\ query' = query /\ core' = core
  BY Zenon DEF pull_next
<1>3. CASE adapter.closed \/ adapter.cancelled
  <2>1. UNCHANGED <<adapter, web>>
    BY <1>3, Zenon DEF pull_next
  <2>2. WorkerTypeOK' /\ FlagsAgree' /\ RoomForFirst'
    BY <1>1, <1>2, <2>1 DEF WorkerTypeOK, FlagsAgree, RoomForFirst
  <2>3. web.state # "readable"
    BY <1>1, <1>3, Zenon DEF FlagsAgree
  <2>4. Consecutive'
    BY <1>1, <1>2, <2>1, <2>3, Zenon DEF Consecutive
  <2>5. LateRecordsAreDropped' /\ PullsOnDemand' /\ CancellationWins'
    BY <1>2, <2>1, Zenon DEF WorkerInv, LateRecordsAreDropped, PullsOnDemand, CancellationWins
  <2> QED
    BY <2>2, <2>4, <2>5, Zenon DEF WorkerInv
<1>4. CASE ~adapter.closed /\ ~adapter.cancelled /\ record = End
  <2>1. adapter' = Over(adapter) /\ web' = Close(web)
    BY <1>4, Zenon DEF pull_next
  <2>2. web.state = "readable"
    BY <1>1, <1>4, Zenon DEF FlagsAgree
  <2>3. PICK s \in {"closed", "closing"} :
          web' = [web EXCEPT !.state = s] /\ (s = "closed" => web.queue = <<>>)
    BY <2>1, <2>2, Zenon DEF Close
  <2>4. /\ web' \in [state : {"readable", "closing", "closed", "errored", "cancelled"},
                     code : {Absent, "cancelled", "invalid", "unavailable"},
                     queue : Seq(Chunk), read : Seq(Chunk), misused : BOOLEAN]
        /\ web'.state = s /\ web'.queue = web.queue /\ web'.read = web.read
        /\ web'.misused = web.misused
    BY <1>1, <2>3, Zenon DEF WorkerTypeOK
  <2>5. /\ adapter' \in [known : BOOLEAN, closed : BOOLEAN, cancelled : BOOLEAN,
                         listening : BOOLEAN, operation : {"live", "aborted", "none"}]
        /\ adapter'.closed /\ ~adapter'.cancelled
    BY <1>1, <1>4, <2>1, Zenon DEF Over, WorkerTypeOK
  <2>6. WorkerTypeOK' /\ FlagsAgree' /\ RoomForFirst'
    BY <1>1, <1>2, <2>4, <2>5, Zenon DEF WorkerTypeOK, FlagsAgree, RoomForFirst
  <2>7. Len(web.read) + Len(web.queue) = query.rows /\ ~query.fails
    BY <1>1, <1>2, <1>4, <2>2, Zenon DEF Consecutive
  <2>8. Consecutive'
    BY <1>1, <1>2, <2>3, <2>4, <2>7, Zenon DEF Consecutive
  <2>9. LateRecordsAreDropped' /\ PullsOnDemand' /\ CancellationWins'
    BY <1>2, <2>4, <2>5, Zenon DEF WorkerInv, LateRecordsAreDropped, PullsOnDemand, CancellationWins
  <2> QED
    BY <2>6, <2>8, <2>9, Zenon DEF WorkerInv
<1>5. CASE ~adapter.closed /\ ~adapter.cancelled /\ record # End
  <2>1. web' = Enqueue(web, record) /\ adapter' = adapter
    BY <1>5, Zenon DEF pull_next
  <2>2. web.state = "readable"
    BY <1>1, <1>5, Zenon DEF FlagsAgree
  <2>3. record \in Chunk /\ record = <<"row", core.position>>
    BY <1>1, <1>2, <1>5, Zenon DEF WorkerTypeOK, Consecutive
  <2>4. web' = [web EXCEPT !.queue = Append(web.queue, record)]
    BY <2>1, <2>2, Zenon DEF Enqueue
  <2>5. web.queue \in Seq(Chunk) /\ Append(web.queue, record) \in Seq(Chunk)
    BY <1>1, <2>3 DEF WorkerTypeOK
  <2>6. /\ web' \in [state : {"readable", "closing", "closed", "errored", "cancelled"},
                     code : {Absent, "cancelled", "invalid", "unavailable"},
                     queue : Seq(Chunk), read : Seq(Chunk), misused : BOOLEAN]
        /\ web'.state = web.state /\ web'.queue = Append(web.queue, record)
        /\ web'.read = web.read /\ web'.misused = web.misused /\ web'.code = web.code
    BY <1>1, <2>4, <2>5, Zenon DEF WorkerTypeOK
  <2>7. WorkerTypeOK' /\ FlagsAgree' /\ RoomForFirst'
    BY <1>1, <1>2, <2>1, <2>6 DEF WorkerTypeOK, FlagsAgree, RoomForFirst
  <2>8. /\ Len(web'.queue) = Len(web.queue) + 1
        /\ \A n \in 1..Len(web.queue) : web'.queue[n] = web.queue[n]
        /\ web'.queue[Len(web.queue) + 1] = record
    BY <2>5, <2>6
  <2>9. /\ Len(web.read) \in Nat /\ Len(web.queue) \in Nat /\ core.position \in Nat
        /\ core.position = (Len(web.read) + Len(web.queue)) + 1
    BY <1>1, <1>2, <1>5, <2>2 DEF WorkerTypeOK, Consecutive
  <2>a. Len(web.read) + (Len(web.queue) + 1) = core.position
    <3>1. Len(web.read) + (Len(web.queue) + 1) = (Len(web.read) + Len(web.queue)) + 1
      BY <2>9, Regroup, Zenon
    <3> QED
      BY <2>9, <3>1, Zenon
  <2>10. \A n \in 1..Len(web'.queue) : web'.queue[n] = <<"row", Len(web'.read) + n>>
    <3> SUFFICES ASSUME NEW n \in 1..Len(web'.queue)
                 PROVE  web'.queue[n] = <<"row", Len(web.read) + n>>
      BY <2>6, Zenon
    <3>1. CASE n \in 1..Len(web.queue)
      BY <1>1, <2>8, <3>1, Zenon DEF Consecutive
    <3>2. CASE n = Len(web.queue) + 1
      <4>1. Len(web.read) + n = core.position
        BY <2>a, <3>2, Zenon
      <4> QED
        BY <2>3, <2>8, <3>2, <4>1, Zenon
    <3> QED
      BY <2>8, <2>9, <3>1, <3>2
  <2>11. Len(web'.read) + Len(web'.queue) = core'.position
    BY <1>2, <2>6, <2>8, <2>a, Zenon
  <2>12. Consecutive'
    BY <1>1, <1>2, <2>2, <2>6, <2>10, <2>11, ZenonT(60) DEF Consecutive
  <2>13. LateRecordsAreDropped' /\ PullsOnDemand' /\ CancellationWins'
    BY <1>2, <2>1, <2>6, Zenon DEF WorkerInv, LateRecordsAreDropped, PullsOnDemand, CancellationWins
  <2> QED
    BY <2>7, <2>12, <2>13, Zenon DEF WorkerInv
<1> QED
  BY <1>3, <1>4, <1>5, Zenon

\* The reader takes the first chunk of the queue.
LEMMA ReadStep == WorkerInv /\ Read => WorkerInv'
<1> SUFFICES ASSUME WorkerInv, Read PROVE WorkerInv'
  BY Zenon
<1> DEFINE s == IF web.state = "closing" /\ Len(web.queue) = 1 THEN "closed" ELSE web.state
<1>1. WorkerTypeOK /\ FlagsAgree /\ Consecutive
  BY Zenon DEF WorkerInv
<1>2. /\ web.queue # <<>> /\ UNCHANGED <<query, core, adapter, pull, record>>
      /\ web' = [web EXCEPT !.read = Append(web.read, Head(web.queue)),
                            !.queue = Tail(web.queue), !.state = s]
  BY Zenon DEF Read
<1>3. web.queue \in Seq(Chunk) /\ web.read \in Seq(Chunk)
      /\ web.state \in {"readable", "closing", "closed", "errored", "cancelled"}
  BY <1>1, Zenon DEF WorkerTypeOK
<1>4. /\ Tail(web.queue) \in Seq(Chunk) /\ Len(Tail(web.queue)) = Len(web.queue) - 1
      /\ \A n \in 1..(Len(web.queue) - 1) : Tail(web.queue)[n] = web.queue[n + 1]
      /\ Head(web.queue) \in Chunk /\ Head(web.queue) = web.queue[1]
      /\ Len(web.queue) \in Nat \ {0}
  BY <1>2, <1>3
<1>5. /\ Append(web.read, Head(web.queue)) \in Seq(Chunk) /\ Len(web.read) \in Nat
      /\ Len(Append(web.read, Head(web.queue))) = Len(web.read) + 1
      /\ \A n \in 1..Len(web.read) : Append(web.read, Head(web.queue))[n] = web.read[n]
      /\ Append(web.read, Head(web.queue))[Len(web.read) + 1] = web.queue[1]
  BY <1>3, <1>4
<1>6. s \in {"readable", "closing", "closed", "errored", "cancelled"}
      /\ (s = "readable" <=> web.state = "readable")
  BY <1>3, Zenon
<1> HIDE DEF s
<1>7. /\ web' \in [state : {"readable", "closing", "closed", "errored", "cancelled"},
                   code : {Absent, "cancelled", "invalid", "unavailable"},
                   queue : Seq(Chunk), read : Seq(Chunk), misused : BOOLEAN]
      /\ web'.state = s /\ web'.queue = Tail(web.queue)
      /\ web'.read = Append(web.read, Head(web.queue)) /\ web'.misused = web.misused
      /\ web'.code = web.code
  BY <1>1, <1>2, <1>4, <1>5, <1>6, Zenon DEF WorkerTypeOK
<1>8. WorkerTypeOK' /\ FlagsAgree'
  BY <1>1, <1>2, <1>6, <1>7 DEF WorkerTypeOK, FlagsAgree
<1>9. /\ Len(web'.read) = Len(web.read) + 1 /\ Len(web'.queue) = Len(web.queue) - 1
      /\ Len(web'.read) + Len(web'.queue) = Len(web.read) + Len(web.queue)
  <2>1. (Len(web.read) + 1) + (Len(web.queue) - 1) = Len(web.read) + Len(web.queue)
    BY <1>4, <1>5, MoveOne, Zenon
  <2> QED
    BY <1>4, <1>5, <1>7, <2>1, Zenon
<1>10. RoomForFirst'
  <2>1. query.queueSize \in Nat
    BY <1>1, Zenon DEF WorkerTypeOK
  <2> QED
    BY <1>2, <1>4, <1>9, <2>1 DEF WorkerInv, RoomForFirst
<1>11. \A n \in 1..Len(web'.read) : web'.read[n] = <<"row", n>>
  <2> SUFFICES ASSUME NEW n \in 1..Len(web'.read) PROVE web'.read[n] = <<"row", n>>
    BY Zenon
  <2>1. CASE n \in 1..Len(web.read)
    BY <1>1, <1>5, <1>7, <2>1, Zenon DEF Consecutive
  <2>2. CASE n = Len(web.read) + 1
    <3>1. web.queue[1] = <<"row", Len(web.read) + 1>>
      BY <1>1, <1>4 DEF Consecutive
    <3> QED
      BY <1>5, <1>7, <2>2, <3>1, Zenon
  <2> QED
    BY <1>5, <1>9, <2>1, <2>2
<1>12. \A n \in 1..Len(web'.queue) : web'.queue[n] = <<"row", Len(web'.read) + n>>
  <2> SUFFICES ASSUME NEW n \in 1..Len(web'.queue)
               PROVE  web'.queue[n] = <<"row", Len(web'.read) + n>>
    BY Zenon
  <2>1. n \in 1..(Len(web.queue) - 1) /\ n + 1 \in 1..Len(web.queue)
    BY <1>4, <1>9
  <2>2. web'.queue[n] = web.queue[n + 1]
    BY <1>4, <1>7, <2>1, Zenon
  <2>3. web.queue[n + 1] = <<"row", Len(web.read) + (n + 1)>>
    BY <1>1, <2>1, Zenon DEF Consecutive
  <2>4. Len(web.read) + (n + 1) = Len(web'.read) + n
    <3>0. n \in Nat
      OBVIOUS
    <3>1. Len(web.read) + (n + 1) = (Len(web.read) + 1) + n
      BY <1>5, <3>0, Regroup, Zenon
    <3> QED
      BY <1>9, <3>1, Zenon
  <2> QED
    BY <2>2, <2>3, <2>4, Zenon
<1>13. s = "closed" => web'.queue = <<>>
  <2>1. web.state # "closed"
    BY <1>1, <1>2, Zenon DEF Consecutive
  <2>2. s = "closed" => Len(web'.queue) = 0
    BY <1>9, <2>1 DEF s
  <2> QED
    BY <1>4, <1>7, <2>2, ZeroLen, Zenon
<1>14. s \in {"closing", "closed"} => web.state \in {"closing", "closed"}
  BY Zenon DEF s
<1>15. Consecutive'
  BY <1>1, <1>2, <1>6, <1>7, <1>9, <1>11, <1>12, <1>13, <1>14, ZenonT(60) DEF Consecutive
<1>16. PullsOnDemand'
  <2>1. query.queueSize \in Nat /\ core.position \in Nat
    BY <1>1, Zenon DEF WorkerTypeOK
  <2> QED
    BY <1>2, <1>5, <1>9, <2>1 DEF WorkerInv, PullsOnDemand
<1>17. s # web.state => web.state = "closing"
  BY Zenon DEF s
<1>18. LateRecordsAreDropped' /\ CancellationWins'
  BY <1>2, <1>7, <1>17, Zenon DEF WorkerInv, LateRecordsAreDropped, CancellationWins
<1> QED
  BY <1>8, <1>10, <1>15, <1>16, <1>18, Zenon DEF WorkerInv

\* Every step of the adapter, of the core stream and of the reader keeps the invariant.
LEMMA WorkerStep == WorkerInv /\ [WorkerNext]_workerVars => WorkerInv'
<1>1. WorkerInv /\ UNCHANGED workerVars => WorkerInv'
  BY SMTT(30) DEF WorkerInv, WorkerTypeOK, FlagsAgree, Consecutive, RoomForFirst, LateRecordsAreDropped,
         PullsOnDemand, CancellationWins, workerVars
<1> QED
  BY <1>1, CoreStep, StopStep, PullStartStep, PullCoreStep, PullNextStep, ReadStep, Zenon
     DEF WorkerNext, Pull, Settled

\* The invariant holds in every state of every stream.
THEOREM WorkerInvariance == WorkerSpec => []WorkerInv
BY WorkerInitInv, WorkerStep, PTL DEF WorkerSpec

\* The reader gets the records in order, each once, and the end only after all of them
\* (pull, start and cancel in worker-query-stream.mjs).
THEOREM ChunksInOrder == WorkerSpec => []ChunksAreTheRecords
<1>1. WorkerInv => ChunksAreTheRecords
  BY DEF WorkerInv, WorkerTypeOK, Consecutive, ChunksAreTheRecords
<1> QED
  BY <1>1, WorkerInvariance, PTL

\* An aborted or cancelled stream stays cancelled: neither a late record nor the error of
\* the load that was aborted replaces the cancellation (abort, Report).
THEOREM CancellationStays == WorkerSpec => []CancellationWins
<1>1. WorkerInv => CancellationWins
  BY Zenon DEF WorkerInv
<1> QED
  BY <1>1, WorkerInvariance, PTL

\* close and enqueue are only called on a stream that accepts them, and the core stream is
\* never more than the queue size ahead of the reader (pull, highWaterMark).
THEOREM OnDemand == WorkerSpec => [](LateRecordsAreDropped /\ PullsOnDemand)
<1>1. WorkerInv => LateRecordsAreDropped /\ PullsOnDemand
  BY Zenon DEF WorkerInv
<1> QED
  BY <1>1, WorkerInvariance, PTL
=============================================================================
