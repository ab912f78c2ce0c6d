---------------------------- MODULE MCTableStore ----------------------------
(***************************************************************************)
(* Instances of TableStore for TLC.  A behaviour is about one of six       *)
(* scenarios: `memo' (one handle, a memo sidecar, two interruptions),      *)
(* `rows' (two writers that merge their rows), `pack' (a commit and a PACK *)
(* in either order, one interruption), `compact' (the same with one row    *)
(* and a memo sidecar), `epochs' (three commits, any of them a PACK) and   *)
(* `new' (no file at first, and beside a client a stranger that saves      *)
(* tables of another origin).                                              *)
(***************************************************************************)
EXTENDS Integers, Sequences, TLC

CONSTANTS Values, Clients, Writers, Packers, Strangers

VARIABLES scenario, disk, todo, job, handle, origin, interrupts

vars == <<scenario, disk, todo, job, handle, origin, interrupts>>

Memo == INSTANCE TableStore
          WITH Kinds <- {"load", "versions", "operation", "commit"}, MaxRows <- 1,
               MemoFields <- TRUE, MemoFile <- "dbt", RecordLimit <- 2, IndexLimit <- 2,
               Foreign <- {}, NewTable <- FALSE, MaxCommits <- 2, MaxInterrupts <- 2

Rows == INSTANCE TableStore
          WITH Clients <- Writers, Kinds <- {"load", "commit", "merge"}, MaxRows <- 2,
               MemoFields <- FALSE, MemoFile <- "none", RecordLimit <- 2, IndexLimit <- 2,
               Foreign <- {}, NewTable <- FALSE, MaxCommits <- 2, MaxInterrupts <- 1

Packed == INSTANCE TableStore
            WITH Clients <- Packers, Kinds <- {"load", "commit", "pack"}, MaxRows <- 2,
                 MemoFields <- FALSE, MemoFile <- "none", RecordLimit <- 2, IndexLimit <- 2,
                 Foreign <- {}, NewTable <- FALSE, MaxCommits <- 2, MaxInterrupts <- 1

Compact == INSTANCE TableStore
             WITH Clients <- Packers, Kinds <- {"load", "commit", "pack"}, MaxRows <- 1,
                  MemoFields <- TRUE, MemoFile <- "dbt", RecordLimit <- 2, IndexLimit <- 2,
                  Foreign <- {}, NewTable <- FALSE, MaxCommits <- 2, MaxInterrupts <- 1

Epochs == INSTANCE TableStore
            WITH Clients <- Packers, Kinds <- {"load", "commit", "pack"}, MaxRows <- 2,
                 MemoFields <- FALSE, MemoFile <- "none", RecordLimit <- 2, IndexLimit <- 2,
                 Foreign <- {}, NewTable <- FALSE, MaxCommits <- 3, MaxInterrupts <- 0

New == INSTANCE TableStore
         WITH Clients <- Clients \cup Strangers, Kinds <- {"load", "commit", "put"}, MaxRows <- 1,
              MemoFields <- FALSE, MemoFile <- "none", RecordLimit <- 2, IndexLimit <- 2,
              Foreign <- Strangers, NewTable <- TRUE, MaxCommits <- 3, MaxInterrupts <- 1

Init ==
  \/ scenario = "memo" /\ Memo!Init
  \/ scenario = "rows" /\ Rows!Init
  \/ scenario = "pack" /\ Packed!Init
  \/ scenario = "compact" /\ Compact!Init
  \/ scenario = "epochs" /\ Epochs!Init
  \/ scenario = "new" /\ New!Init

Next ==
  \/ scenario = "memo" /\ Memo!Next /\ UNCHANGED scenario
  \/ scenario = "rows" /\ Rows!Next /\ UNCHANGED scenario
  \/ scenario = "pack" /\ Packed!Next /\ UNCHANGED scenario
  \/ scenario = "compact" /\ Compact!Next /\ UNCHANGED scenario
  \/ scenario = "epochs" /\ Epochs!Next /\ UNCHANGED scenario
  \/ scenario = "new" /\ New!Next /\ UNCHANGED scenario

Spec == Init /\ [][Next]_vars

(* One handle, one commit and one interruption.                            *)
Single == INSTANCE TableStore
            WITH Clients <- Packers, Kinds <- {"load", "commit"}, MaxRows <- 2,
                 MemoFields <- FALSE, MemoFile <- "none", RecordLimit <- 2, IndexLimit <- 2,
                 Foreign <- {}, NewTable <- FALSE, MaxCommits <- 1, MaxInterrupts <- 1

SingleSpec ==
  scenario = "single" /\ Single!Init /\ [][Single!Next /\ UNCHANGED scenario]_vars

(* The same with a reader of the history and a second commit.              *)
Stale == INSTANCE TableStore
           WITH Clients <- Packers, Kinds <- {"load", "versions", "commit"}, MaxRows <- 2,
                MemoFields <- FALSE, MemoFile <- "none", RecordLimit <- 2, IndexLimit <- 2,
                Foreign <- {}, NewTable <- FALSE, MaxCommits <- 2, MaxInterrupts <- 1

StaleSpec ==
  scenario = "stale" /\ Stale!Init /\ [][Stale!Next /\ UNCHANGED scenario]_vars

In(s, P) == scenario = s => P

(* When no commit is pending, what is kept beside the table follows it.    *)
(* The MVCC history is complete: its last committed version is the table,  *)
(* and no version was left prepared.  The change log holds each            *)
(* transaction once and in order, and replaying it gives the table.  Row   *)
(* identities are never reused: row_at gives every version's record, and   *)
(* a row of an earlier epoch reads as deleted once PACK renumbered.        *)
(* Every file holds what its writer puts there.                            *)
HistoriesFollowTable ==
  /\ In("memo", Memo!TypeOK)
  /\ Memo!HistoryMatchesTable
  /\ In("pack", Packed!ChangeLogReplays /\ Packed!RowIdentity)
  /\ In("compact", Compact!ChangeLogReplays /\ Compact!RowIdentity)
  /\ In("epochs", Epochs!ChangeLogReplays /\ Epochs!RowIdentity)
  /\ In("new", New!ChangeLogReplays)

(* A commit left pending by an interruption can always be recovered while  *)
(* its MVCC version is not committed: the next operation replays the log   *)
(* and completes it, whatever was interrupted before, and however often.   *)
RecoverableUntilHistoryCommits ==
  /\ In("memo", Memo!RecoverableUntilHistoryCommits)
  /\ In("rows", Rows!RecoverableUntilHistoryCommits)
  /\ In("pack", Packed!RecoverableUntilHistoryCommits)
  /\ In("compact", Compact!RecoverableUntilHistoryCommits)
  /\ In("new", New!RecoverableUntilHistoryCommits)

Durable ==
  CASE scenario = "memo" -> Memo!Durable
    [] scenario = "rows" -> Rows!Durable
    [] scenario = "pack" -> Packed!Durable
    [] scenario = "compact" -> Compact!Durable
    [] scenario = "epochs" -> Epochs!Durable
    [] scenario = "new" -> New!Durable

Everyone == Clients \cup Writers \cup Packers \cup Strangers

Cell == INSTANCE TableCell
          WITH Clients <- Everyone, Foreign <- Strangers, MaxRows <- 2,
               Memos <- {<<>>} \cup {<<n>> : n \in 0..3},
               cell <- Durable, loaded <- [c \in DOMAIN handle |-> Memo!LoadedOf(c)]

(* Whatever the interruptions, save_with_wal and recover_wal_with_encoding *)
(* make the table an atomic compare-and-swap cell: a commit takes effect   *)
(* once, at one log append, with the next transaction ID and only on top   *)
(* of exactly what its client loaded, unless a stranger puts a table of    *)
(* another origin there, and a load returns the current cell.              *)
Refines == Cell!Spec

(* A save does what it reports and no more: a commit, merged or not,       *)
(* changes at most the record its operation names (a concurrent client's   *)
(* rows survive it, only PACK renumbers), a save that returned Ok leaves   *)
(* an index of exactly the saved files, and where a stranger's table came  *)
(* in between, a client's save does not replace it.                        *)
SavesDoAsReported ==
  [][/\ In("rows", Rows!TouchesOnlyItsRecord)
     /\ In("memo", Memo!IndexedWhenAcknowledged)
     /\ In("new", New!ReplacesWhatWasLoaded)]_vars

(* Recovery is idempotent: wherever an operation was interrupted, after    *)
(* all replacements too, the next recovery succeeds.                       *)
RecoverySucceeds == Single!RecoverySucceeds

(* A save goes past its checks only with an index sidecar that is current: *)
(* a stale one leaves the DBF unchanged and is reported.                   *)
StaleSidecarIsRefused == [][Stale!RefusesStaleSidecar]_vars

Symmetry == Permutations(Writers) \cup Permutations(Values)
=============================================================================
