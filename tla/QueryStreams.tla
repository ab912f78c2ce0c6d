----------------------------- MODULE QueryStreams ----------------------------
(***************************************************************************)
(* Query streams over one snapshot (query/stream.rs) and their delivery by  *)
(* a worker thread: BoundedQueryStream, a blocking iterator over a bounded  *)
(* channel, and ThreadedQueryStream (query/stream_thread.rs), which is      *)
(* polled by a task that sleeps until its waker is called.                  *)
(*                                                                         *)
(* A record is what the filter makes of it.  The channel and the task       *)
(* executor are external: the executor polls a task once after each wake.   *)
(***************************************************************************)
EXTENDS Integers, Sequences, SequencesExt

CONSTANTS
    MaxRecords, \* bound on the records of the table
    MaxCount,   \* bound on skip and limit
    Capacities, \* channel capacities
    Nothing

VARIABLES
    kind, records, skip, limit, capacity,
    state,      \* SnapshotStreamState of the worker
    item,       \* the item the worker is about to send, or Nothing
    channel, sender, receiver,
    cancelled, waker,
    worker,     \* "next", "send", "try", "wake", "closing", "done"
    task,       \* where the consumer is
    woken,      \* the executor owes the task a poll
    received

asked == <<kind, records, skip, limit, capacity>>
queryVars == <<asked, state, item, channel, sender, receiver, cancelled, waker, worker, task,
          woken, received>>

\* What a record is to the request: deleted, refused by the filter, accepted, or an error
\* of its decoding or of the filter.
Records == {"deleted", "other", "match", "error"}
Row(n) == <<"row", n>>
Failure(n) == <<"error", n>>

(***************************************************************************)
(* SnapshotStreamState::next as a function of the state.                    *)
(***************************************************************************)
Fresh == [position |-> 1, skipped |-> 0, yielded |-> 0, done |-> FALSE]
AtLimit(s) == limit # Nothing /\ s.yielded >= limit

\* Mutant: skipped rows count towards the limit.
Accept_counting_skipped(s) ==
    IF s.skipped < skip
    THEN [s EXCEPT !.position = @ + 1, !.skipped = @ + 1, !.yielded = @ + 1]
    ELSE [s EXCEPT !.position = @ + 1, !.yielded = @ + 1]

\* A row the filter accepts is skipped, or counted as yielded.
Accept(s) ==
    IF s.skipped < skip
    THEN [s EXCEPT !.position = @ + 1, !.skipped = @ + 1]
    ELSE [s EXCEPT !.position = @ + 1, !.yielded = @ + 1]

\* One turn of the loop: the next state and the item it returns, or Nothing to go on.
Turn(s) ==
    IF s.position > Len(records) THEN [to |-> [s EXCEPT !.done = TRUE], gives |-> Nothing]
    ELSE CASE records[s.position] \in {"deleted", "other"} ->
                [to |-> [s EXCEPT !.position = @ + 1], gives |-> Nothing]
           [] records[s.position] = "error" ->
                [to |-> [s EXCEPT !.position = @ + 1, !.done = TRUE], gives |-> Failure(s.position)]
           [] OTHER ->
                [to |-> Accept(s),
                 gives |-> IF s.skipped < skip THEN Nothing ELSE Row(s.position)]

(***************************************************************************)
(* The worker thread.                                                       *)
(***************************************************************************)
WorkerSame == UNCHANGED <<asked, receiver, cancelled, task, received>>

\* The iterator is advanced; at its end the sender is dropped.
produce ==
    /\ worker = "next"
    /\ IF state.done \/ AtLimit(state)
       THEN /\ state' = [state EXCEPT !.done = TRUE]
            /\ sender' = FALSE
            /\ worker' = IF kind = "threaded" THEN "closing" ELSE "done"
            /\ UNCHANGED item
       ELSE /\ state' = Turn(state).to
            /\ item' = Turn(state).gives
            /\ worker' = IF Turn(state).gives = Nothing THEN "next" ELSE "send"
            /\ UNCHANGED sender
    /\ UNCHANGED <<channel, waker, woken>> /\ WorkerSame

\* BoundedQueryStream: a blocking send that fails when the receiver is gone.
send ==
    /\ kind = "bounded" /\ worker = "send"
    /\ ~receiver \/ Len(channel) < capacity
    /\ IF receiver
       THEN channel' = Append(channel, item) /\ worker' = "next" /\ UNCHANGED sender
       ELSE sender' = FALSE /\ worker' = "done" /\ UNCHANGED channel
    /\ item' = Nothing
    /\ UNCHANGED <<state, waker, woken>> /\ WorkerSame

\* ThreadedQueryStream: the flag is looked at before each attempt.
send_item ==
    /\ kind = "threaded" /\ worker = "send"
    /\ IF cancelled
       THEN sender' = FALSE /\ worker' = "done" /\ item' = Nothing
       ELSE worker' = "try" /\ UNCHANGED <<sender, item>>
    /\ UNCHANGED <<state, channel, waker, woken>> /\ WorkerSame

\* A send that does not block; a full channel wakes the consumer and tries again.
try_send ==
    /\ worker = "try"
    /\ IF ~receiver
       THEN sender' = FALSE /\ worker' = "done" /\ item' = Nothing /\ UNCHANGED channel
       ELSE IF Len(channel) < capacity
       THEN channel' = Append(channel, item) /\ item' = Nothing /\ worker' = "wake" /\ UNCHANGED sender
       ELSE worker' = "wake" /\ UNCHANGED <<channel, item, sender>>
    /\ UNCHANGED <<state, waker, woken>> /\ WorkerSame

\* The waker is taken out of its slot and called.
wake ==
    /\ worker \in {"wake", "closing"}
    /\ waker' = FALSE
    /\ woken' = (woken \/ waker)
    /\ worker' = CASE worker = "closing" -> "done"
                   [] worker = "wake" /\ item = Nothing -> "next"
                   [] OTHER -> "send"
    /\ UNCHANGED <<state, item, channel, sender>> /\ WorkerSame

Worker == produce \/ send \/ send_item \/ try_send \/ wake

(***************************************************************************)
(* The consumer.                                                            *)
(***************************************************************************)
TaskSame == UNCHANGED <<asked, state, item, sender, receiver, cancelled, worker>>

\* BoundedQueryStream::next blocks until an item arrives or the sender is gone.
recv ==
    /\ kind = "bounded" /\ task = "poll"
    /\ channel # <<>> \/ ~sender
    /\ IF channel # <<>>
       THEN received' = Append(received, Head(channel)) /\ channel' = Tail(channel) /\ UNCHANGED task
       ELSE task' = "ended" /\ UNCHANGED <<received, channel>>
    /\ UNCHANGED <<waker, woken>> /\ TaskSame

\* Mutant: the waker is registered and the task sleeps without a second look.
poll_receiver_once ==
    /\ task = "registered"
    /\ task' = "asleep"
    /\ UNCHANGED <<channel, waker, woken, received>> /\ TaskSame

\* What a try_recv that found the channel empty does next.
TryRecv(otherwise) ==
    CASE channel # <<>> ->
           /\ received' = Append(received, Head(channel))
           /\ channel' = Tail(channel)
           /\ task' = "clear"
      [] channel = <<>> /\ ~sender -> task' = "clear_end" /\ UNCHANGED <<received, channel>>
      [] OTHER -> task' = otherwise /\ UNCHANGED <<received, channel>>

\* The executor polls the task that was woken.
poll_next ==
    /\ kind = "threaded" /\ task = "asleep" /\ woken
    /\ task' = "poll" /\ woken' = FALSE
    /\ UNCHANGED <<channel, waker, received>> /\ TaskSame

try_recv ==
    /\ kind = "threaded" /\ task = "poll"
    /\ TryRecv("register")
    /\ UNCHANGED <<waker, woken>> /\ TaskSame

register ==
    /\ task = "register"
    /\ waker' = TRUE /\ task' = "registered"
    /\ UNCHANGED <<channel, woken, received>> /\ TaskSame

\* The channel is looked at again after the waker is in place.
poll_receiver ==
    /\ task = "registered"
    /\ TryRecv("asleep")
    /\ UNCHANGED <<waker, woken>> /\ TaskSame

clear ==
    /\ task \in {"clear", "clear_end"}
    /\ waker' = FALSE
    /\ task' = IF task = "clear" THEN "poll" ELSE "ended"
    /\ UNCHANGED <<channel, woken, received>> /\ TaskSame

\* The stream is dropped between two polls: the flag, then the receiver, then the join.
drop ==
    /\ task \in {"poll", "asleep"}
    /\ cancelled' = (kind = "threaded")
    /\ task' = IF kind = "threaded" THEN "dropping" ELSE "dropped"
    /\ receiver' = (kind = "threaded")
    /\ channel' = IF kind = "threaded" THEN channel ELSE <<>>
    /\ UNCHANGED <<asked, state, item, sender, waker, worker, woken, received>>

drop_receiver ==
    /\ task = "dropping"
    /\ receiver' = FALSE /\ channel' = <<>> /\ task' = "joining"
    /\ UNCHANGED <<asked, state, item, sender, cancelled, waker, worker, woken, received>>

join ==
    /\ task = "joining" /\ worker = "done"
    /\ task' = "dropped"
    /\ UNCHANGED <<channel, waker, woken, received>> /\ TaskSame

Consumer == recv \/ poll_next \/ try_recv \/ register \/ poll_receiver \/ clear \/ drop_receiver \/ join

(***************************************************************************)
(* Specification.                                                           *)
(***************************************************************************)
\* A request a stream takes (filter, skip and limit; no sort, page or aggregate), and the
\* worker thread of a stream with a positive capacity.
Started ==
    /\ records \in UNION {[1..n -> Records] : n \in 0..MaxRecords}
    /\ skip \in 0..MaxCount
    /\ limit \in {Nothing} \cup 0..MaxCount
    /\ capacity \in Capacities
    /\ state = Fresh /\ item = Nothing
    /\ channel = <<>> /\ sender = TRUE /\ receiver = TRUE
    /\ worker = "next" /\ task = "poll"
    /\ received = <<>>

stream_query_bounded ==
    /\ kind = "bounded" /\ Started
    /\ cancelled = FALSE /\ waker = FALSE /\ woken = FALSE

stream_query_threaded ==
    /\ kind = "threaded" /\ Started
    /\ cancelled = FALSE /\ waker = FALSE /\ woken = FALSE

QueryInit == stream_query_bounded \/ stream_query_threaded

Finished == task \in {"ended", "dropped"} /\ worker = "done" /\ UNCHANGED queryVars
QueryNext == Worker \/ Consumer \/ drop \/ Finished

QuerySpec == QueryInit /\ [][QueryNext]_queryVars

\* The operating system runs the worker thread and the executor runs a task that was woken.
FairQuery == QuerySpec /\ WF_queryVars(Worker) /\ WF_queryVars(Consumer)

(***************************************************************************)
(* Properties.                                                              *)
(***************************************************************************)
\* The answer to the request, defined without a cursor: the accepted rows before the first
\* error, cut by skip and limit, then that error if the limit is not reached before it.
Answer ==
    LET errors == {n \in DOMAIN records : records[n] = "error"}
        end == IF errors = {} THEN Len(records) ELSE (CHOOSE n \in errors : \A m \in errors : n <= m) - 1
        accepted == SelectSeq([n \in 1..end |-> n], LAMBDA n : records[n] = "match")
        taken == SubSeq(accepted, skip + 1,
                        IF limit = Nothing \/ skip + limit > Len(accepted) THEN Len(accepted) ELSE skip + limit)
        rows == [i \in DOMAIN taken |-> Row(taken[i])]
    IN  IF errors # {} /\ (limit = Nothing \/ Len(rows) < limit) THEN Append(rows, Failure(end + 1)) ELSE rows

\* A consumer receives the items of the answer, in order and once each, and a stream that
\* reports its end has delivered all of them.  A slow consumer holds the worker back: it
\* computes at most one row more than the channel can hold.
StreamIsAnswer ==
    /\ IsPrefix(received, Answer)
    /\ task = "ended" => received = Answer
    /\ state.yielded <= Len(received) + capacity + 1

\* A stream that is polled whenever its task is woken ends, or its drop returns: no wakeup
\* is lost between try_recv, the registration of the waker and the second look, and the
\* join does not wait for a worker that waits for the stream.
EndsOrDrops == <>(task \in {"ended", "dropped"})
=============================================================================
