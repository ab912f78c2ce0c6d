-------------------------- MODULE MCCatalogJournal --------------------------
(***************************************************************************)
(* Instances for TLC of the journals on disk and the locks around them.  A  *)
(* behaviour is about one of three scenarios: `journal' (readers and        *)
(* writers of CatalogJournal), `direct' (CatalogIsolation: table            *)
(* transactions beside a catalog transaction and a reader) and `store' (the *)
(* journal of a Raft node's log and vote, RaftLogStore).                    *)
(***************************************************************************)
EXTENDS CatalogJournal, FiniteSets, SequencesExt

CONSTANTS Serials, Readers, Directs, Failed, NoVote, m1, m2

VARIABLES scenario, catalog_lock, table_lock, dbf, memo, table_tid, wal, journal, state,
          history, cdc, proc, acked, commits,
          mem, generation, poisoned, step, records, next, journals, synced, names, maybe, promised,
          limbo

isolation == <<catalog_lock, table_lock, dbf, memo, table_tid, wal, journal, state, history,
               cdc, proc, acked, commits>>
raftlog == <<mem, generation, poisoned, step, records, next, journals, synced, names, maybe,
             promised, limbo>>
locks == <<scenario, vars, isolation, raftlog>>

Direct == INSTANCE CatalogIsolation
            WITH TableNames <- <<"orders", "users">>, Batches <- {}, Crashing <- {}

(* Two candidates of one term, the second one elected. *)
MCVotes == {[term |-> 1, node |-> m1, committed |-> FALSE],
            [term |-> 1, node |-> m2, committed |-> TRUE]}

Store == INSTANCE RaftLogStore
           WITH MaxIndex <- 2, MaxTerm <- 2, Votes <- MCVotes, MaxBatch <- 2,
                MaxRecords <- 3, MaxGeneration <- 1, WriteBack <- TRUE,
                pc <- step, todo <- records, after <- next, dir <- names

NoStore ==
    /\ mem = 0 /\ generation = 0 /\ poisoned = FALSE /\ step = "none" /\ records = <<>>
    /\ next = 0 /\ journals = <<>> /\ synced = <<>> /\ names = {} /\ maybe = {}
    /\ promised = 0 /\ limbo = <<>>

NoIsolation ==
    /\ catalog_lock = Failed /\ table_lock = Failed /\ dbf = Failed /\ memo = Failed
    /\ table_tid = Failed /\ wal = Failed /\ journal = Failed /\ state = 0
    /\ history = <<>> /\ cdc = <<>> /\ proc = Failed /\ acked = {} /\ commits = <<>>

Unused == Init /\ files = [t \in Targets |-> 0]

LocksInit ==
    \/ scenario = "journal" /\ Init /\ NoIsolation /\ NoStore
    \/ scenario = "direct" /\ Unused /\ Direct!Init /\ NoStore
    \/ scenario = "store" /\ Unused /\ NoIsolation /\ Store!Init

LocksNext ==
    \/ scenario = "journal" /\ Next /\ UNCHANGED <<scenario, isolation, raftlog>>
    \/ scenario = "direct" /\ Direct!Next /\ UNCHANGED <<scenario, vars, raftlog>>
    \/ scenario = "store" /\ Store!Next /\ UNCHANGED <<scenario, vars, isolation>>

(* Inside recover_locked and commit_files the lock holder runs synchronous  *)
(* code that waits for nobody.  In `direct', an operation that was called   *)
(* goes on when it can; a caller may keep an open transaction for ever.     *)
LocksSpec ==
    /\ LocksInit /\ [][LocksNext]_locks
    /\ \A p \in Procs :
        WF_locks(/\ scenario = "journal" /\ Work(p) /\ pc[p] # "locked"
                 /\ UNCHANGED <<scenario, isolation, raftlog>>)
    /\ \A p \in Serials \cup Readers \cup Directs :
        WF_locks(scenario = "direct" /\ Direct!Proceed(p) /\ UNCHANGED <<scenario, vars, raftlog>>)

(* A commit that was reported stays: no later commit of another process     *)
(* removes its update from a table (commit_files,                           *)
(* save_with_wal_inner_locked).                                             *)
AcknowledgedSurvive == scenario = "direct" => Direct!AcknowledgedSurvive

(* Nobody waits for ever on the code: a recovery or a commit that has the   *)
(* exclusive lock comes to its end, and whenever no caller keeps a          *)
(* transaction open, every operation that waits for catalog and table locks *)
(* gets them and returns (read_lock, begin_read, begin_serializable,        *)
(* commit_files, save_with_wal_inner_locked).                               *)
NobodyWaitsForEver ==
    /\ JournalEnds
    /\ []<>(scenario = "direct" =>
              Direct!Resting \/ \E p \in Direct!Processes : Direct!InCallersHands(p))

(* At every moment, whatever a power loss keeps of the disk, open accepts the *)
(* newest journal it finds there, and the state it replays is the one callers *)
(* were told is stored, at most followed by the first records of the one call *)
(* that has not been answered or was answered with an error.  Memory, disk    *)
(* and ghost state are well formed.                                           *)
StableStorage == scenario = "store" => Store!TypeOK /\ Store!StableStorage

(* Whatever a caller asks for and wherever the process stops, what the store  *)
(* reports never loses ground: the vote, the committed and the purged position *)
(* do not go back, and an entry at or below the committed position keeps its  *)
(* term until it is purged.                                                   *)
CommittedLogIsKept == [][scenario = "store" => Store!KeepsCommittedLog]_locks
=============================================================================
