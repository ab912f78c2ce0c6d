------------------------------- MODULE MCHosts -------------------------------
(***************************************************************************)
(* The object-store adapters and the two deliveries of a query stream (by   *)
(* a worker thread, by a ReadableStream), one component at work per         *)
(* behaviour.                                                               *)
(***************************************************************************)
EXTENDS ObjectAdapters, QueryStreams, WorkerStream

VARIABLE scenario

allVars == <<scenario, vars, queryVars, workerVars>>

CallBounds == [a \in Adapters |-> CASE a = "fs" -> 3 [] a = "r2" -> 3 [] a = "http" -> 2]

\* A stream over no records that has ended, and one that was cancelled.
QueryIdle ==
    /\ kind = "bounded" /\ records = <<>> /\ skip = 0 /\ limit = Nothing /\ capacity = 1
    /\ state = Fresh /\ item = Nothing /\ channel = <<>> /\ sender = FALSE /\ receiver = TRUE
    /\ cancelled = FALSE /\ waker = FALSE /\ woken = FALSE
    /\ worker = "done" /\ task = "ended" /\ received = <<>>

WorkerIdle ==
    /\ query = [rows |-> 0, fails |-> FALSE, queueSize |-> 1]
    /\ core = [state |-> "ready", position |-> 0, cancelled |-> TRUE, then |-> FALSE]
    /\ adapter = [known |-> TRUE, closed |-> TRUE, cancelled |-> TRUE, listening |-> FALSE,
                  operation |-> "none"]
    /\ pull = "idle" /\ record = Absent
    /\ web = [state |-> "cancelled", code |-> Absent, queue |-> <<>>, read |-> <<>>, misused |-> FALSE]

MCInit ==
    \/ scenario = "store" /\ Init /\ QueryIdle /\ WorkerIdle
    \/ scenario = "thread" /\ Init /\ host = "fs" /\ QueryInit /\ WorkerIdle
    \/ scenario = "worker" /\ Init /\ host = "fs" /\ QueryIdle /\ WorkerInit

Stores(A) == scenario = "store" /\ A /\ UNCHANGED <<scenario, queryVars, workerVars>>
Thread(A) == scenario = "thread" /\ A /\ UNCHANGED <<scenario, vars, workerVars>>
WebStream(A) == scenario = "worker" /\ A /\ UNCHANGED <<scenario, vars, queryVars>>

MCNext == Stores(Next) \/ Thread(QueryNext) \/ WebStream(WorkerNext)

\* The event loop and the timers of a host run, a thread and a woken task are scheduled,
\* and the reader of a ReadableStream reads on.
MCSpec ==
    /\ MCInit /\ [][MCNext]_allVars
    /\ \A p \in Procs : WF_allVars(Stores(Client(p)))
    /\ WF_allVars(Thread(Worker)) /\ WF_allVars(Thread(Consumer))
    /\ WF_allVars(WebStream(object_query_stream)) /\ WF_allVars(WebStream(cancelStream))
    /\ WF_allVars(WebStream(Pull)) /\ WF_allVars(WebStream(Read))

\* Everything that was started ends: with a timeout every Fetch operation answers, the task
\* that polls a query ends or drops it, and a ReadableStream that is read on is delivered,
\* fails or is cancelled, and then releases its core stream.
EverythingEnds == AnswersInTime /\ EndsOrDrops /\ StreamEnds
=============================================================================
