----------------------------- MODULE MCEdgeTable -----------------------------
(***************************************************************************)
(* An object-store table under four kinds of load: two writers and a        *)
(* reader ("writers"), a writer beside maintenance ("maintenance"), a task  *)
(* beside a query stream ("stream"), two streams that are cancelled         *)
(* ("cancel").                                                              *)
(***************************************************************************)
EXTENDS Integers, Sequences

CONSTANTS w, v, reader, x, y, None, Missing, Invalid

VARIABLES
    scenario, store, run, late, ops, faults, published, acked,
    state, phase, cancelled, operations, aborted, checked, items, extra

tableVars == <<store, run, late, ops, faults, published, acked>>
streamVars == <<state, phase, cancelled, operations, aborted, checked, items, extra>>
vars == <<scenario, tableVars, streamVars>>

Commits(gs, bodies) == {[name |-> "commit", generation |-> g, body |-> b] : g \in gs, b \in bodies}
Reading ==
    {[name |-> "read"], [name |-> "read_page_at", generation |-> 1, index |-> 2]}
Maintenance == {[name |-> "cleanup"], [name |-> "recover"], [name |-> "retain", keep |-> 1]}
StreamReads == {[name |-> "read"], [name |-> "read_at", generation |-> 1]}

Both == {x, y}
Pair == {w, reader}
Three == {w, v, reader}
Loads == {"cleanup", "retain"}
Retain == {"retain"}

WritersWork ==
    [p \in Three |-> CASE p = w -> Commits({1}, {x}) \cup Commits({2}, {y})
                      [] p = v -> Commits({2}, {x})
                      [] p = reader -> Reading]
KeeperWork ==
    [p \in Pair |-> IF p = reader THEN Maintenance \cup {[name |-> "read"]}
                    ELSE Commits({1, 3}, {x}) \cup Commits({2}, Both)]
StreamWork ==
    [p \in Pair |-> IF p = reader THEN StreamReads
                    ELSE Commits({1}, {x}) \cup Commits({2}, {y})
                           \cup {[name |-> "retain", keep |-> 1]}]
CancelWork == [p \in Pair |-> StreamReads]

Writers ==
    INSTANCE EdgeTable WITH
        Procs <- Three, Bodies <- Both, Work <- WritersWork,
        MaxGeneration <- 2, MaxOps <- 3, MaxFaults <- 1, MaxLate <- 1, AloneOps <- {}

Keeper ==
    INSTANCE EdgeTable WITH
        Procs <- Pair, Bodies <- Both, Work <- KeeperWork,
        MaxGeneration <- 3, MaxOps <- 3, MaxFaults <- 1, MaxLate <- 0, AloneOps <- Loads

OneStream ==
    INSTANCE EdgeStream WITH
        Procs <- Pair, Streams <- {reader}, Bodies <- Both, RowCount <- 2, Work <- StreamWork,
        MaxGeneration <- 2, MaxOps <- 3, MaxFaults <- 1, MaxLate <- 1, AloneOps <- Retain

Cancelling ==
    INSTANCE EdgeStream WITH
        Procs <- Pair, Streams <- Pair, Bodies <- {x}, RowCount <- 1, Work <- CancelWork,
        MaxGeneration <- 1, MaxOps <- 2, MaxFaults <- 1, MaxLate <- 1, AloneOps <- Retain

NoStreams ==
    /\ state = <<>> /\ phase = <<>> /\ cancelled = <<>>
    /\ operations = {} /\ aborted = {} /\ checked = {}
    /\ items = <<>> /\ extra = <<>>

Init ==
    \/ scenario = "writers" /\ Writers!Init /\ NoStreams
    \/ scenario = "maintenance" /\ Keeper!Init /\ NoStreams
    \/ scenario = "stream" /\ OneStream!StreamInit
    \/ scenario = "cancel" /\ Cancelling!StreamInit

Next ==
    /\ \/ scenario = "writers" /\ Writers!Next /\ UNCHANGED streamVars
       \/ scenario = "maintenance" /\ Keeper!Next /\ UNCHANGED streamVars
       \/ scenario = "stream" /\ OneStream!StreamNext
       \/ scenario = "cancel" /\ Cancelling!StreamNext
    /\ UNCHANGED scenario

\* A process beside maintenance runs on, a consumer keeps polling, and a host completes the
\* writes it accepted.
Spec ==
    /\ Init /\ [][Next]_vars
    /\ \A p \in {w, reader} :
          /\ WF_vars(scenario = "maintenance" /\ Keeper!Step(p) /\ UNCHANGED <<scenario, streamVars>>)
          /\ WF_vars(/\ scenario = "cancel" /\ UNCHANGED scenario
                     /\ Cancelling!Polled(p) \/ (Cancelling!Writing(p) /\ Cancelling!Answered(p)))

In(s, P) == scenario = s => P

(***************************************************************************)
(* The properties of EdgeTable and EdgeStream, each where it is at stake.   *)
(***************************************************************************)
\* Every generation the manifest lists can be assembled from its root and pages, and is the
\* snapshot it was published with, whatever commit, recover, retain_generations,
\* cleanup_orphans and dropped streams do.  Maintenance leaves nothing else: a cleanup that
\* ran alone leaves nothing that neither the manifest nor a pending commit on the current
\* base reaches, and recover never meets a pending commit ahead of the manifest.
HistoryReadable ==
    /\ In("writers", Writers!HistoryReadable)
    /\ In("maintenance", /\ Keeper!HistoryReadable /\ Keeper!CleanupIsComplete
                         /\ Keeper!RecoveryFollows)
    /\ In("stream", OneStream!HistoryReadable)

\* An acknowledged commit is visible: it published exactly its snapshot, also when another
\* process recovered it or its answer was lost; a read that starts later sees that
\* generation or a newer one, and every read returns one published snapshot, never pages
\* of two.  The manifest and the pending commits keep their shape.
AcknowledgedIsVisible ==
    In("writers", /\ Writers!TypeOK /\ Writers!AcknowledgedIsPublished
                  /\ Writers!ReadsAreFresh /\ Writers!ReadsAreCommitted)


\* Nothing that was stored is taken back: the manifest moves to newer generations only and
\* a published generation is final; a complete pending commit on the current base stays
\* until the manifest moves on, since cleanup_orphans keeps its root and planned pages.
StoredIsKept ==
    [][In("writers", Writers!FinalGenerations) /\ In("maintenance", Keeper!KeepsPending)]_vars

\* Every operation beside maintenance ends, and so does a cancelled stream that is polled,
\* also when its read hangs in the host and when cancel came between the check and the
\* registration of the read.
EveryoneEnds ==
    \A p \in {w, reader} :
        /\ []<>In("maintenance", Keeper!At(p, "idle"))
        /\ []<>In("cancel", Cancelling!Cancelled(p) => Cancelling!Ended(p))
=============================================================================
