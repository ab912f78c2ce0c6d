-------------------------- MODULE CatalogIsolation --------------------------
(***************************************************************************)
(* Who may see and replace what in a txBASE catalog while others work in    *)
(* it: batches (POST /transaction), serializable transactions, read images, *)
(* retained snapshots and, beside the catalog, table transactions that know *)
(* only the lock of their table.                                            *)
(*                                                                          *)
(* A table is a DBF and a memo file.  The content of a file is the set of   *)
(* processes whose update it holds: a process writes the content it loaded  *)
(* with itself added, so an update that disappears was overwritten.  A      *)
(* process commits at most once.  Locks are advisory file locks: an action  *)
(* that takes one waits in its guard, and a process that stops loses them.  *)
(* The journal of a commit has its phases; its own crash recovery is the    *)
(* module CatalogJournal.                                                   *)
(***************************************************************************)
EXTENDS Integers, FiniteSets, SequencesExt

CONSTANTS
    TableNames,     \* the tables, in the order of their names
    Batches,        \* processes that commit with commit_steps_internal
    Serials,        \* processes that commit a CatalogTransaction
    Readers,        \* processes that capture a CatalogReadTransaction
    Directs,        \* processes that commit a DbfTransaction on one table
    Crashing,       \* the processes that may stop at any step
    Failed          \* stands for nothing: no holder, no journal, no image

VARIABLES
    catalog_lock,   \* [exclusive: process or Failed, shared: set of processes]
    table_lock,     \* the same for every table
    dbf, memo,      \* the files of every table
    table_tid,      \* the transaction ID of a table, advanced by direct saves
    wal,            \* the pending image of a direct save, or Failed
    journal,        \* the journal directory, or Failed
    state,          \* the catalog transaction ID
    history,        \* the retained snapshots, oldest first
    cdc,            \* the change events, oldest first
    proc,           \* what every process holds in memory
    acked,          \* the updates reported as committed: <<process, table>>
    commits         \* the image after each catalog commit, all of them

files == <<dbf, memo, table_tid, wal>>
ghosts == <<acked, commits>>
vars == <<catalog_lock, table_lock, files, journal, state, history, cdc, proc, ghosts>>

Tables == Range(TableNames)
Writers == Batches \cup Serials
Processes == Writers \cup Readers \cup Directs

Unlocked == [exclusive |-> Failed, shared |-> {}]
Free(l) == l = Unlocked
Without(l, p) == [exclusive |-> IF l.exclusive = p THEN Failed ELSE l.exclusive,
                  shared |-> l.shared \ {p}]

(* The first table, in name order, that is not yet in a set.               *)
IsNext(t, done) == t \notin done /\ \A u \in Tables \ done :
    (CHOOSE i \in DOMAIN TableNames : TableNames[i] = t)
        <= (CHOOSE i \in DOMAIN TableNames : TableNames[i] = u)

----------------------------------------------------------------------------
(* Loading a table: with its lock held, a pending save is completed first. *)

Image(t) == [dbf |-> dbf[t], memo |-> memo[t], tid |-> table_tid[t]]

from_path(t) == IF wal[t] = Failed THEN Image(t) ELSE wal[t]

recover_path(t) ==
    /\ dbf' = [dbf EXCEPT ![t] = from_path(t).dbf]
    /\ memo' = [memo EXCEPT ![t] = from_path(t).memo]
    /\ table_tid' = [table_tid EXCEPT ![t] = from_path(t).tid]
    /\ wal' = [wal EXCEPT ![t] = Failed]

(* The recovery of a journal left by a process that stopped: a prepared    *)
(* commit is undone, a committed one is done again.                        *)
Recovered(t, file, content) ==
    IF journal = Failed THEN content
    ELSE IF t \notin DOMAIN journal.before THEN content
    ELSE IF journal.phase = "committed" THEN journal.after[t][file] ELSE journal.before[t][file]

recover_locked ==
    /\ dbf' = [t \in Tables |-> Recovered(t, "dbf", dbf[t])]
    /\ memo' = [t \in Tables |-> Recovered(t, "memo", memo[t])]
    /\ journal' = Failed
    /\ UNCHANGED <<table_tid, wal>>

(* The memory of a process: no process has more than one operation.        *)
NoImage == [t \in {} |-> Failed]
Idle == [pc |-> "idle", touch |-> {}, precondition |-> Failed, done |-> {},
         loaded |-> NoImage, snapshot |-> NoImage, tid |-> 0]

Goto(p, pc) == proc' = [proc EXCEPT ![p].pc = pc, ![p].done = {}]

ReleaseAll(p) ==
    /\ catalog_lock' = Without(catalog_lock, p)
    /\ table_lock' = [t \in Tables |-> Without(table_lock[t], p)]

Fail(p) ==
    /\ Goto(p, "failed")
    /\ ReleaseAll(p)

----------------------------------------------------------------------------
(* A batch: the write lock of the catalog for all of it, the lock of a     *)
(* table only while the table is loaded.                                   *)

(* A client reads what it will name as precondition: the transaction ID of *)
(* the catalog, or the tag of a table.                                     *)
observe(p, kind, t) ==
    /\ p \in Batches
    /\ proc[p].pc = "idle"
    /\ Free(catalog_lock) /\ Free(table_lock[t])
    /\ wal[t] = Failed /\ journal = Failed
    /\ proc' = [proc EXCEPT ![p].pc = "observed",
            ![p].precondition = [kind |-> kind, table |-> t, image |-> Image(t), tid |-> state]]
    /\ UNCHANGED <<catalog_lock, table_lock, files, journal, state, history, cdc, ghosts>>

write_lock(p, touch) ==
    /\ p \in Writers
    /\ proc[p].pc \in {"idle", "observed"}
    /\ Free(catalog_lock)
    /\ catalog_lock' = [catalog_lock EXCEPT !.exclusive = p]
    /\ recover_locked
    /\ proc' = [proc EXCEPT ![p].pc = IF p \in Serials THEN "lock" ELSE "load",
                            ![p].touch = touch]
    /\ UNCHANGED <<table_lock, state, history, cdc, ghosts>>

(* A serializable transaction takes the lock of every table and keeps it.  *)
lock_table(p, t) ==
    /\ proc[p].pc = "lock"
    /\ IsNext(t, proc[p].done)
    /\ Free(table_lock[t])
    /\ table_lock' = [table_lock EXCEPT ![t].exclusive = p]
    /\ IF proc[p].done \cup {t} = Tables THEN Goto(p, "load")
       ELSE proc' = [proc EXCEPT ![p].done = @ \cup {t}]
    /\ UNCHANGED <<catalog_lock, files, journal, state, history, cdc, ghosts>>

CanLoad(p, t) == Free(Without(table_lock[t], p))

load(p, t) ==
    /\ p \in Writers
    /\ proc[p].pc = "load"
    /\ IsNext(t, DOMAIN proc[p].loaded)
    /\ CanLoad(p, t)
    /\ recover_path(t)
    /\ LET loaded == (t :> from_path(t)) @@ proc[p].loaded
       IN proc' = [proc EXCEPT ![p].loaded = loaded,
                               ![p].pc = IF DOMAIN loaded = Tables THEN "check" ELSE "load"]
    /\ UNCHANGED <<catalog_lock, table_lock, journal, state, history, cdc, ghosts>>

(* Mutant: only the server compares the tag, before the catalog is locked. *)
unchecked_precondition(p) == TRUE

precondition_holds(p) ==
    LET expected == proc[p].precondition
    IN \/ expected = Failed
       \/ expected # Failed /\ expected.kind = "transaction" /\ state = expected.tid
       \/ expected # Failed /\ expected.kind = "table"
            /\ proc[p].loaded[expected.table] = expected.image

check(p) ==
    /\ proc[p].pc = "check"
    /\ IF precondition_holds(p) THEN Goto(p, "prepare") /\ UNCHANGED <<catalog_lock, table_lock>>
       ELSE Fail(p)
    /\ UNCHANGED <<files, journal, state, history, cdc, ghosts>>

(* A table that changed since it was loaded is refused.                    *)
prepare(p, t) ==
    /\ proc[p].pc = "prepare"
    /\ IsNext(t, proc[p].done \cup (Tables \ proc[p].touch))
    /\ IF Image(t) # proc[p].loaded[t] THEN Fail(p)
       ELSE /\ IF proc[p].done \cup {t} = proc[p].touch THEN Goto(p, "snapshot")
               ELSE proc' = [proc EXCEPT ![p].done = @ \cup {t}]
            /\ UNCHANGED <<catalog_lock, table_lock>>
    /\ UNCHANGED <<files, journal, state, history, cdc, ghosts>>

After(p, t) == [dbf |-> proc[p].loaded[t].dbf \cup {p}, memo |-> proc[p].loaded[t].memo \cup {p}]

(* Mutant: the history keeps the tables as they were loaded.               *)
snapshot_of_loaded(p, t) == [dbf |-> proc[p].loaded[t].dbf, memo |-> proc[p].loaded[t].memo]

(* The image for the history: a batch loads the tables it does not change  *)
(* a second time, a serializable transaction has them.                     *)
catalog_snapshot_parts(p, t) ==
    IF t \in proc[p].touch THEN After(p, t)
    ELSE LET image == IF p \in Serials THEN proc[p].loaded[t] ELSE from_path(t)
         IN [dbf |-> image.dbf, memo |-> image.memo]

Reloads(p, t) == p \in Batches /\ t \notin proc[p].touch

append_snapshot(p, t) ==
    /\ proc[p].pc = "snapshot"
    /\ IsNext(t, DOMAIN proc[p].snapshot)
    /\ IF Reloads(p, t) THEN CanLoad(p, t) /\ recover_path(t) ELSE UNCHANGED files
    /\ LET snapshot == (t :> catalog_snapshot_parts(p, t)) @@ proc[p].snapshot
       IN proc' = [proc EXCEPT ![p].snapshot = snapshot,
                        ![p].pc = IF DOMAIN snapshot = Tables THEN "commit" ELSE "snapshot"]
    /\ UNCHANGED <<catalog_lock, table_lock, journal, state, history, cdc, ghosts>>

(* The journal of a commit.  The files are replaced without table locks.   *)
commit_files(p) ==
    /\ proc[p].pc = "commit"
    /\ journal' = [phase |-> "prepared",
                   before |-> [t \in proc[p].touch |-> proc[p].loaded[t]],
                   after |-> [t \in proc[p].touch |-> After(p, t)]]
    /\ Goto(p, "apply")
    /\ UNCHANGED <<catalog_lock, table_lock, files, state, history, cdc, ghosts>>

(* The DBF of a table comes before its memo.                               *)
apply_change(p, t) ==
    /\ proc[p].pc = "apply"
    /\ IsNext(t, proc[p].done \cup (Tables \ proc[p].touch))
    /\ IF dbf[t] # journal.after[t].dbf
       THEN /\ dbf' = [dbf EXCEPT ![t] = journal.after[t].dbf]
            /\ UNCHANGED <<memo, proc>>
       ELSE /\ memo' = [memo EXCEPT ![t] = journal.after[t].memo]
            /\ proc' = [proc EXCEPT ![p].done = @ \cup {t}]
            /\ UNCHANGED dbf
    /\ UNCHANGED <<catalog_lock, table_lock, table_tid, wal, journal, state, history, cdc, ghosts>>

event_for_tables(p) ==
    [t \in proc[p].touch |-> [before |-> proc[p].loaded[t].dbf, after |-> After(p, t).dbf]]

(* The state, the history and the event are targets of the same journal;   *)
(* the committed manifest decides.                                         *)
committed(p) ==
    /\ proc[p].pc = "apply"
    /\ proc[p].done = proc[p].touch
    /\ journal' = [journal EXCEPT !.phase = "committed"]
    /\ state' = state + 1
    /\ history' = Append(history, [tid |-> state + 1, tables |-> proc[p].snapshot])
    /\ cdc' = Append(cdc, [tid |-> state + 1, tables |-> event_for_tables(p)])
    /\ commits' = Append(commits, [t \in Tables |-> [dbf |-> dbf[t], memo |-> memo[t]]])
    /\ Goto(p, "cleanup")
    /\ UNCHANGED <<catalog_lock, table_lock, files, acked>>

cleanup(p) ==
    /\ proc[p].pc = "cleanup"
    /\ journal' = Failed
    /\ acked' = acked \cup {<<p, t>> : t \in proc[p].touch}
    /\ Goto(p, "done")
    /\ ReleaseAll(p)
    /\ UNCHANGED <<files, state, history, cdc, commits>>

----------------------------------------------------------------------------
(* Retained snapshots: the newest are kept.                                *)
gc(keep_last) ==
    /\ Free(catalog_lock)
    /\ journal = Failed
    /\ keep_last < Len(history)
    /\ history' = SubSeq(history, Len(history) - keep_last + 1, Len(history))
    /\ UNCHANGED <<catalog_lock, table_lock, files, journal, state, cdc, proc, ghosts>>

----------------------------------------------------------------------------
(* A read image.  The recovery that precedes the read lock has the write   *)
(* lock to itself, and gives it up before the read lock is taken.          *)

recover(p) ==
    /\ p \in Readers
    /\ proc[p].pc = "idle"
    /\ Free(catalog_lock)
    /\ recover_locked
    /\ Goto(p, "recovered")
    /\ UNCHANGED <<catalog_lock, table_lock, state, history, cdc, ghosts>>

(* Mutant: a reader does not wait for the writer.                          *)
read_lock_beside_writer(p) ==
    /\ proc[p].pc = "recovered"
    /\ catalog_lock' = [catalog_lock EXCEPT !.shared = @ \cup {p}]
    /\ proc' = [proc EXCEPT ![p].pc = "recover_tables", ![p].tid = state]
    /\ UNCHANGED <<table_lock, files, journal, state, history, cdc, ghosts>>

read_lock(p) ==
    /\ proc[p].pc = "recovered"
    /\ catalog_lock.exclusive = Failed
    /\ catalog_lock' = [catalog_lock EXCEPT !.shared = @ \cup {p}]
    /\ proc' = [proc EXCEPT ![p].pc = "recover_tables", ![p].tid = state]
    /\ UNCHANGED <<table_lock, files, journal, state, history, cdc, ghosts>>

(* Every table is loaded once to recover it, then all are locked, then     *)
(* loaded again.                                                           *)
recover_table(p, t) ==
    /\ proc[p].pc = "recover_tables"
    /\ IsNext(t, proc[p].done)
    /\ Free(table_lock[t])
    /\ recover_path(t)
    /\ IF proc[p].done \cup {t} = Tables THEN Goto(p, "lock_shared")
       ELSE proc' = [proc EXCEPT ![p].done = @ \cup {t}]
    /\ UNCHANGED <<catalog_lock, table_lock, journal, state, history, cdc, ghosts>>

read_lock_table(p, t) ==
    /\ proc[p].pc = "lock_shared"
    /\ IsNext(t, proc[p].done)
    /\ table_lock[t].exclusive = Failed
    /\ table_lock' = [table_lock EXCEPT ![t].shared = @ \cup {p}]
    /\ IF proc[p].done \cup {t} = Tables THEN Goto(p, "capture")
       ELSE proc' = [proc EXCEPT ![p].done = @ \cup {t}]
    /\ UNCHANGED <<catalog_lock, files, journal, state, history, cdc, ghosts>>

begin_read(p) ==
    /\ proc[p].pc = "capture"
    /\ proc' = [proc EXCEPT ![p].pc = "done", ![p].loaded = [t \in Tables |-> Image(t)]]
    /\ ReleaseAll(p)
    /\ UNCHANGED <<files, journal, state, history, cdc, ghosts>>

----------------------------------------------------------------------------
(* A table transaction beside the catalog.                                 *)

begin(p, t) ==
    /\ p \in Directs
    /\ proc[p].pc = "idle"
    /\ Free(table_lock[t])
    /\ recover_path(t)
    /\ proc' = [proc EXCEPT ![p].pc = "begun", ![p].touch = {t}, ![p].loaded = t :> from_path(t)]
    /\ UNCHANGED <<catalog_lock, table_lock, journal, state, history, cdc, ghosts>>

begin_serializable(p, t) ==
    /\ p \in Directs
    /\ proc[p].pc = "idle"
    /\ Free(table_lock[t])
    /\ table_lock' = [table_lock EXCEPT ![t].exclusive = p]
    /\ recover_path(t)
    /\ proc' = [proc EXCEPT ![p].pc = "begun", ![p].touch = {t}, ![p].loaded = t :> from_path(t)]
    /\ UNCHANGED <<catalog_lock, journal, state, history, cdc, ghosts>>

(* Mutant: the files of a save are not compared with the ones it loaded.   *)
never_refused(p, t) == FALSE

Refused(p, t) == from_path(t) # proc[p].loaded[t]

save_with_wal_inner_locked(p, t) ==
    /\ proc[p].pc = "begun"
    /\ t \in proc[p].touch
    /\ CanLoad(p, t)
    /\ recover_path(t)
    /\ IF Refused(p, t) THEN Fail(p)
       ELSE /\ table_lock' = [table_lock EXCEPT ![t].exclusive = p]
            /\ Goto(p, "log")
            /\ UNCHANGED catalog_lock
    /\ UNCHANGED <<journal, state, history, cdc, ghosts>>

append_wal(p, t) ==
    /\ proc[p].pc = "log"
    /\ t \in proc[p].touch
    /\ wal' = [wal EXCEPT ![t] = [dbf |-> After(p, t).dbf, memo |-> After(p, t).memo,
                                  tid |-> proc[p].loaded[t].tid + 1]]
    /\ Goto(p, "save_memo")
    /\ UNCHANGED <<catalog_lock, table_lock, dbf, memo, table_tid, journal, state, history, cdc,
                   ghosts>>

(* The memo of a table comes before its DBF.                               *)
save_memo(p, t) ==
    /\ proc[p].pc = "save_memo"
    /\ t \in proc[p].touch
    /\ memo' = [memo EXCEPT ![t] = After(p, t).memo]
    /\ Goto(p, "save_dbf")
    /\ UNCHANGED <<catalog_lock, table_lock, dbf, table_tid, wal, journal, state, history, cdc,
                   ghosts>>

save_dbf(p, t) ==
    /\ proc[p].pc = "save_dbf"
    /\ t \in proc[p].touch
    /\ dbf' = [dbf EXCEPT ![t] = After(p, t).dbf]
    /\ table_tid' = [table_tid EXCEPT ![t] = proc[p].loaded[t].tid + 1]
    /\ wal' = [wal EXCEPT ![t] = Failed]
    /\ acked' = acked \cup {<<p, t>>}
    /\ Goto(p, "done")
    /\ ReleaseAll(p)
    /\ UNCHANGED <<memo, journal, state, history, cdc, commits>>

----------------------------------------------------------------------------
(* A process stops: its locks are gone, its files stay as they are.        *)
crash(p) ==
    /\ p \in Crashing
    /\ proc[p].pc \notin {"idle", "done", "failed"}
    /\ Fail(p)
    /\ UNCHANGED <<files, journal, state, history, cdc, ghosts>>

Init ==
    /\ catalog_lock = Unlocked
    /\ table_lock = [t \in Tables |-> Unlocked]
    /\ dbf = [t \in Tables |-> {}] /\ memo = [t \in Tables |-> {}]
    /\ table_tid = [t \in Tables |-> 0] /\ wal = [t \in Tables |-> Failed]
    /\ journal = Failed /\ state = 0 /\ history = <<>> /\ cdc = <<>>
    /\ proc = [p \in Processes |-> Idle]
    /\ acked = {} /\ commits = <<>>

Step(p) ==
    \/ \E touch \in SUBSET Tables \ {{}} : write_lock(p, touch)
    \/ check(p) \/ commit_files(p) \/ committed(p) \/ cleanup(p)
    \/ recover(p) \/ read_lock(p) \/ begin_read(p)
    \/ \E t \in Tables :
        \/ lock_table(p, t) \/ load(p, t) \/ prepare(p, t) \/ append_snapshot(p, t)
        \/ apply_change(p, t)
        \/ recover_table(p, t) \/ read_lock_table(p, t)
        \/ begin(p, t) \/ begin_serializable(p, t)
        \/ save_with_wal_inner_locked(p, t) \/ append_wal(p, t) \/ save_memo(p, t) \/ save_dbf(p, t)

Finished == \A p \in Processes : proc[p].pc \in {"done", "failed"}

(* Where a transaction is open and the code that uses it has control: it   *)
(* may keep the locks for as long as it likes.                             *)
InCallersHands(p) ==
    \/ p \in Serials /\ proc[p].pc = "check"
    \/ p \in Directs /\ proc[p].pc = "begun"

(* A step of an operation that was called and has not returned.            *)
Proceed(p) == proc[p].pc # "idle" /\ ~InCallersHands(p) /\ Step(p)

Resting == \A p \in Processes : proc[p].pc \in {"idle", "done", "failed"}

Next ==
    \/ \E p \in Processes : Step(p) \/ crash(p)
    \/ \E p \in Batches, kind \in {"table", "transaction"}, t \in Tables : observe(p, kind, t)
    \/ gc(1)
    \/ Finished /\ UNCHANGED vars

Spec == Init /\ [][Next]_vars

----------------------------------------------------------------------------
(* Every lock has an exclusive holder or sharers, and what a process       *)
(* remembers are images of the tables.                                     *)
TypeOK ==
    LET IsImage(i) == i.dbf \subseteq Processes /\ i.memo \subseteq Processes
    IN /\ \A l \in {catalog_lock} \cup Range(table_lock) :
            /\ l.exclusive \in Processes \cup {Failed} /\ l.shared \subseteq Processes
            /\ l.exclusive # Failed => l.shared = {}
       /\ \A t \in Tables : IsImage(Image(t)) /\ (wal[t] # Failed => IsImage(wal[t]))
       /\ journal # Failed => \A t \in DOMAIN journal.after : IsImage(journal.after[t])
       /\ \A p \in Processes : \A t \in DOMAIN proc[p].loaded : IsImage(proc[p].loaded[t])

(* What a table holds once everything pending on it is recovered.          *)
Content(t) ==
    LET catalog == Recovered(t, "dbf", dbf[t])
    IN IF wal[t] = Failed THEN catalog ELSE wal[t].dbf

(* A commit that was reported stays: no later commit, rollback or recovery *)
(* of another process removes its update from a table (commit_files,       *)
(* save_with_wal_inner_locked).                                            *)
AcknowledgedSurvive == \A a \in acked : a[1] \in Content(a[2])

(* The tables, once a journal that was left is recovered, are the ones of  *)
(* the last commit, whatever stopped in between (recover_locked).          *)
TablesAreTheLastCommit ==
    \A t \in Tables : Content(t) = IF state = 0 THEN {} ELSE commits[state][t].dbf

(* A read image is the image of one commit, the one whose transaction ID   *)
(* it carries (Catalog::begin_read).                                       *)
ReadIsOneCommit ==
    \A p \in Readers : proc[p].pc = "done" =>
        \A t \in Tables :
            LET image == proc[p].loaded[t]
                commit == IF proc[p].tid = 0 THEN [dbf |-> {}, memo |-> {}]
                          ELSE commits[proc[p].tid][t]
            IN image.dbf = commit.dbf /\ image.memo = commit.memo

(* Every retained snapshot is what the tables were after that commit, and  *)
(* the newest commit is retained (append_snapshot, gc).                    *)
HistoryIsTheCommits ==
    /\ \A i \in DOMAIN history : history[i].tables = commits[history[i].tid]
    /\ history # <<>> => history[Len(history)].tid = state

(* The change events carry the tables from one commit to the next.         *)
EventsReplay ==
    \A i \in DOMAIN cdc : \A t \in Tables :
        LET earlier == IF i = 1 THEN {} ELSE commits[i - 1][t].dbf
        IN IF t \in DOMAIN cdc[i].tables
           THEN cdc[i].tables[t] = [before |-> earlier, after |-> commits[i][t].dbf]
           ELSE commits[i][t].dbf = earlier

(* A batch with a precondition replaces what its client saw: nothing was   *)
(* committed in between, to the catalog or to the table it named.          *)
ReplacesWhatWasSeen ==
    \A p \in Batches :
        proc[p].pc = "apply" /\ proc'[p].pc = "cleanup" /\ proc[p].precondition # Failed =>
            LET expected == proc[p].precondition
            IN IF expected.kind = "transaction" THEN state = expected.tid
               ELSE (IF state = 0 THEN {} ELSE commits[state][expected.table].dbf)
                        = expected.image.dbf

(* Whoever loads a table gets a DBF and a memo of the same commit          *)
(* (from_path, begin_read).                                                *)
LoadsAreWhole ==
    \A p \in Processes : \A t \in DOMAIN proc[p].loaded :
        proc[p].loaded[t].dbf = proc[p].loaded[t].memo
=============================================================================
