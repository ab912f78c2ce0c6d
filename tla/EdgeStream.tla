------------------------------ MODULE EdgeStream -----------------------------
(***************************************************************************)
(* Asynchronous tasks on an object-store table: AsyncObjectTable            *)
(* (edge/object_store_async.rs), whose operations issue the store requests  *)
(* of EdgeTable one await at a time, and the cancellable query streams      *)
(* (edge/query_stream.rs, edge/cancellation.rs, edge/store.rs) that drive   *)
(* its read and read_at.                                                    *)
(*                                                                         *)
(* A stream's load is polled by its consumer; cancel may be called from     *)
(* another thread between any two steps.  A host read may hang for ever, so *)
(* only the abort handle registered with the token ends it; an accepted     *)
(* write is not aborted and its host completes it.                          *)
(***************************************************************************)
EXTENDS EdgeTable

CONSTANTS
    Streams,    \* the processes that are query streams; the others are plain tasks
    RowCount    \* rows of a snapshot

VARIABLES
    state,       \* "new", "loading", "ready", "done", "dropped"
    phase,       \* of the store operation a load is in: "next", "checked", "flying"
    cancelled,   \* the token's flag
    operations,  \* streams whose read is registered with their token
    aborted,     \* streams whose read's abort handle was triggered
    checked,     \* a poll that saw no cancellation and has not returned its row yet
    items,       \* what the consumer received
    extra        \* history variable: items received after cancel

streamVars == <<state, phase, cancelled, operations, aborted, checked, items, extra>>
allVars == <<vars, streamVars>>

Busy(p) == ~At(p, "idle")

(***************************************************************************)
(* The asynchronous methods: the requests of the blocking ones, in order.   *)
(***************************************************************************)
recover_async(p) ==
    \/ recover_list(p)
    \/ recover_next(p)
    \/ run[p].at \in {"recover_cas", "recover_drop"} /\ Write(p)

read_async(p) == read(p) \/ load(p)

read_at_async(p) == read_at(p) \/ load_at(p)

commit_async(p) ==
    \/ commit_check(p)
    \/ commit_compare(p)
    \/ reject_incompatible_pending(p)
    \/ commit_plan(p)
    \/ commit_matching(p)
    \/ run[p].at \in {"publish", "cas", "clear", "abandon"} /\ Write(p)

cleanup_orphans_async(p) ==
    \/ cleanup_manifest(p)
    \/ cleanup_wal(p)
    \/ cleanup_snapshots(p)
    \/ cleanup_pages(p)
    \/ cleanup_done(p)
    \/ run[p].at \in Deleting /\ Write(p)

retain_generations_async(p) ==
    \/ retain_generations(p)
    \/ At(p, "retain_cas") /\ Write(p)

\* A method of the WASM object table, called without a cancellation signal.
WasmObjectTable(p) ==
    /\ p \notin Streams
    /\ \/ recover_async(p)
       \/ commit_async(p)
       \/ cleanup_orphans_async(p)
       \/ retain_generations_async(p)
    /\ UNCHANGED streamVars

(***************************************************************************)
(* Streams.                                                                 *)
(***************************************************************************)
TokenSame == UNCHANGED <<cancelled, operations, aborted>>
ItemsSame == UNCHANGED <<checked, items, extra>>

\* The stream is created: nothing is requested before it is polled.
query_stream(p) ==
    /\ state[p] = "new"
    /\ Start(p)
    /\ state' = [state EXCEPT ![p] = "loading"]
    /\ UNCHANGED <<phase, checked, items, extra>> /\ TokenSame

\* Reads check the token before they register with it; a request that finds it cancelled
\* is not started and ends the load with Cancelled.
cancelable(p) ==
    /\ state[p] = "loading" /\ Busy(p)
    /\ phase[p] = "next" /\ ~Writing(p)
    /\ IF cancelled[p]
       THEN End(p, "Cancelled") /\ UNCHANGED phase
       ELSE phase' = [phase EXCEPT ![p] = "checked"] /\ UNCHANGED run
    /\ UNCHANGED <<store, late, ops, faults, published, acked, state>>
    /\ TokenSame /\ ItemsSame

\* Registration under the token's lock: a token cancelled since the check aborts at once.
abortable(p) ==
    /\ phase[p] = "checked"
    /\ phase' = [phase EXCEPT ![p] = "flying"]
    /\ IF cancelled[p]
       THEN aborted' = aborted \cup {p} /\ UNCHANGED operations
       ELSE operations' = operations \cup {p} /\ UNCHANGED aborted
    /\ UNCHANGED <<vars, state, cancelled>> /\ ItemsSame

\* Writes check the token once; an accepted one is not registered.
start_unless_cancelled(p) ==
    /\ state[p] = "loading" /\ Busy(p)
    /\ phase[p] = "next" /\ Writing(p)
    /\ IF cancelled[p]
       THEN End(p, "Cancelled") /\ UNCHANGED phase
       ELSE phase' = [phase EXCEPT ![p] = "flying"] /\ UNCHANGED run
    /\ UNCHANGED <<store, late, ops, faults, published, acked, state>>
    /\ TokenSame /\ ItemsSame

\* The host answers; the load goes on to its next request.
Answered(p) ==
    /\ state[p] = "loading" /\ phase[p] = "flying"
    /\ p \notin aborted
    /\ \/ recover_async(p)
       \/ read_async(p)
       \/ read_at_async(p)
    /\ phase' = [phase EXCEPT ![p] = "next"]
    /\ operations' = operations \ {p}
    /\ UNCHANGED <<state, cancelled, aborted>> /\ ItemsSame

\* An aborted read ends the load when it is polled.
AbortedPoll(p) ==
    /\ state[p] = "loading" /\ phase[p] = "flying" /\ p \in aborted
    /\ End(p, "Cancelled")
    /\ phase' = [phase EXCEPT ![p] = "next"]
    /\ aborted' = aborted \ {p}
    /\ UNCHANGED <<store, late, ops, faults, published, acked, state, cancelled, operations>>
    /\ ItemsSame

Receive(p, item) ==
    /\ items' = [items EXCEPT ![p] = Append(@, item)]
    /\ extra' = [extra EXCEPT ![p] = IF cancelled[p] THEN @ + 1 ELSE @]

Rows(snapshot) == [n \in 1..RowCount |-> <<snapshot[1], snapshot[2], n>>]
Loaded(p) == run[p].result = "Ok" /\ run[p].value # None

\* The load is over: rows follow, or one error item, which a cancelled stream leaves out.
load_query_snapshot(p) ==
    /\ state[p] = "loading" /\ ~Busy(p)
    /\ IF Loaded(p)
       THEN state' = [state EXCEPT ![p] = "ready"] /\ UNCHANGED <<items, extra>>
       ELSE /\ state' = [state EXCEPT ![p] = "done"]
            /\ IF cancelled[p] THEN UNCHANGED <<items, extra>> ELSE Receive(p, None)
    /\ UNCHANGED <<vars, phase, checked>> /\ TokenSame

\* A poll looks at the flag first, and returns its row afterwards.
poll_check(p) ==
    /\ state[p] = "ready" /\ p \notin checked
    /\ IF cancelled[p]
       THEN state' = [state EXCEPT ![p] = "done"] /\ UNCHANGED checked
       ELSE checked' = checked \cup {p} /\ UNCHANGED state
    /\ UNCHANGED <<vars, phase, items, extra>> /\ TokenSame


poll_next(p) ==
    /\ p \in checked
    /\ checked' = checked \ {p}
    /\ IF Len(items[p]) < RowCount
       THEN Receive(p, Rows(run[p].value)[Len(items[p]) + 1]) /\ UNCHANGED state
       ELSE state' = [state EXCEPT ![p] = "done"] /\ UNCHANGED <<items, extra>>
    /\ UNCHANGED <<vars, phase>> /\ TokenSame

\* Mutant: cancelling sets the flag and leaves the registered reads alone.
cancel_flag_only(p) ==
    /\ state[p] \in {"loading", "ready"} /\ ~cancelled[p]
    /\ cancelled' = [cancelled EXCEPT ![p] = TRUE]
    /\ UNCHANGED <<vars, state, phase, operations, aborted>> /\ ItemsSame

\* The flag is set and the registered operations are aborted under one lock.
cancel(p) ==
    /\ state[p] \in {"loading", "ready"} /\ ~cancelled[p]
    /\ cancelled' = [cancelled EXCEPT ![p] = TRUE]
    /\ aborted' = aborted \cup (operations \cap {p})
    /\ operations' = operations \ {p}
    /\ UNCHANGED <<vars, state, phase>> /\ ItemsSame

\* Dropping the stream cancels its token and drops the future, wherever it is: a write the
\* host already has may still take effect.
Dropped(p) ==
    /\ state[p] = "loading" /\ Busy(p)
    /\ IF phase[p] = "flying" /\ Writing(p) THEN GiveUp(p) \/ Fail(p) ELSE Fail(p)
    /\ state' = [state EXCEPT ![p] = "dropped"]
    /\ phase' = [phase EXCEPT ![p] = "next"]
    /\ cancelled' = [cancelled EXCEPT ![p] = TRUE]
    /\ operations' = operations \ {p}
    /\ aborted' = aborted \ {p}
    /\ ItemsSame

(***************************************************************************)
(* Specification.                                                           *)
(***************************************************************************)
StreamInit ==
    /\ Init
    /\ state = [p \in Streams |-> "new"]
    /\ phase = [p \in Streams |-> "next"]
    /\ cancelled = [p \in Streams |-> FALSE]
    /\ operations = {} /\ aborted = {} /\ checked = {}
    /\ items = [p \in Streams |-> <<>>]
    /\ extra = [p \in Streams |-> 0]

\* What the consumer's polls do without the host.
Polled(p) ==
    \/ cancelable(p) \/ abortable(p) \/ start_unless_cancelled(p)
    \/ AbortedPoll(p) \/ load_query_snapshot(p)
    \/ poll_check(p) \/ poll_next(p)

StreamNext ==
    \/ \E p \in Streams :
          query_stream(p) \/ Polled(p) \/ Answered(p) \/ cancel(p) \/ Dropped(p)
    \/ \E p \in Procs \ Streams :
          \/ WasmObjectTable(p)
          \/ (Start(p) \/ Fail(p)) /\ UNCHANGED streamVars
    \/ Arrive /\ UNCHANGED streamVars

StreamSpec == StreamInit /\ [][StreamNext]_allVars

(***************************************************************************)
(* Properties.                                                              *)
(***************************************************************************)
\* Streams and tokens keep their shape, and only reads are registered with a token.
StreamTypeOK ==
    /\ \A p \in Streams : items[p] # <<>> => Len(items[p]) <= RowCount
    /\ operations \cap aborted = {}
    /\ \A p \in operations : phase[p] = "flying" /\ ~Writing(p) /\ ~cancelled[p]


\* After cancel the consumer gets no error, and at most the row whose poll had passed the
\* check already.
CancelStopsItems ==
    \A p \in Streams : extra[p] <= 1 /\ (extra[p] = 1 => state[p] # "loading" /\ run[p].result = "Ok")

Cancelled(p) == cancelled[p]
Ended(p) == state[p] \in {"done", "dropped"}
=============================================================================
