----------------------------- MODULE TableStore -----------------------------
(***************************************************************************)
(* One DBF table on disk: its write-ahead log, memo and index sidecars,    *)
(* transaction state, MVCC history and change log, and the two procedures  *)
(* that write them, DbfTable::save_with_wal_inner_locked and               *)
(* DbfTable::recover_wal_with_encoding.                                    *)
(*                                                                         *)
(* Every operation runs under the table's exclusive file lock and starts   *)
(* by recovering the log.  What it then does to the disk is a list of      *)
(* durable writes in program order, computed from the state the locked     *)
(* code read: `todo'.  One step performs one write.  Between any two       *)
(* writes the operation may be interrupted, by a crash of the process or   *)
(* by an I/O error that the `?' operator returns to the caller: the lock   *)
(* is released, the rest of the list is lost and the disk stays as it is.  *)
(*                                                                         *)
(* An append to a FileWal and its sync are one write, because              *)
(* FileWal::open cuts a torn tail off; a replacement of a file (temporary  *)
(* file, sync, rename) is one write; and an empty log file is the same as  *)
(* none, because recovery treats the two alike.                            *)
(*                                                                         *)
(* A client saves the table it loaded, except one in Foreign, which may    *)
(* also put a table of another origin in its place: made from bytes or     *)
(* loaded from another path.  A table read at an earlier version, which no *)
(* save accepts, is left out, and so is the schema sidecar.                *)
(*                                                                         *)
(* An optional value is a sequence of length 0 or 1.                       *)
(***************************************************************************)
EXTENDS DbfImage, SequencesExt

CONSTANTS Clients,        \* processes or handles that use the table
          Foreign,        \* those that save a table of another origin
          Kinds,          \* operations the clients call, a subset of AllKinds
          NewTable,       \* there is no DBF file yet
          MemoFields,     \* the schema has memo fields
          MemoFile,       \* the memo sidecar beside the table: "none", "dbt" or "fpt"
          RecordLimit,    \* records of the largest image one log record holds
          IndexLimit,     \* records of the largest image whose index one holds
          MaxCommits,     \* bound: transaction IDs handed out
          MaxInterrupts   \* bound: crashes and I/O errors

SaveKinds == {"operation", "commit", "merge", "pack", "put"}

AllKinds == {"load", "versions"} \cup SaveKinds

VARIABLES disk,        \* the files, see Disk
          todo,        \* writes the running operation has still to make
          job,         \* the running operation, <<>> when the lock is free
          handle,      \* what each client loaded, <<>> before its first load
          origin,      \* history variable: the image the table started from
          interrupts   \* history variable: interruptions so far

vars == <<disk, todo, job, handle, origin, interrupts>>

(* A memo sidecar image is the number of blocks appended to it.            *)
Memos == {<<>>} \cup {<<n>> : n \in 0..MaxCommits}

Source(d) == [dbf |-> d.dbf, memo |-> d.memo, tid |-> d.state]

(***************************************************************************)
(* Reading the MVCC history: a sequence of prepare and commit records.     *)
(***************************************************************************)
CommittedIds(mvcc) ==
  {r.tid : r \in {x \in Range(mvcc) : x.kind = "commit"}}

prepared_snapshot(mvcc, tid) ==
  LET found == SelectSeq(mvcc, LAMBDA r : r.kind = "prepare" /\ r.tid = tid)
  IN  IF found = <<>> THEN <<>> ELSE <<Last(found).snapshot>>

committed_snapshots(mvcc) ==
  [tid \in CommittedIds(mvcc) |-> prepared_snapshot(mvcc, tid)[1]]

LastCommitted(mvcc) ==
  LET ids == CommittedIds(mvcc)
  IN  IF ids = {} THEN <<>> ELSE <<committed_snapshots(mvcc)[Max(ids)]>>

(***************************************************************************)
(* Writes.                                                                 *)
(***************************************************************************)
Put(file, data) == [file |-> file, data |-> data]

Fail == Put("fail", <<>>)

ApplyWrite(d, write) ==
  CASE write.file \in {"wal", "mvcc", "cdc"}    -> [d EXCEPT ![write.file] = Append(@, write.data)]
    [] write.file = "clear"                     -> [d EXCEPT !.wal = <<>>]
    [] write.file = "dbf"                       -> [d EXCEPT !.dbf = write.data, !.exists = TRUE]
    [] write.file \in {"memo", "index", "state"} -> [d EXCEPT ![write.file] = write.data]

When(condition, writes) == IF condition THEN writes ELSE <<>>

ForSome(option, Writes(_)) == IF option = <<>> THEN <<>> ELSE Writes(option[1])

(* An append is refused when the record exceeds MAX_WAL_RECORD_SIZE.  The  *)
(* image, its history version and its index grow with the table.           *)
Sized(image, limit, write) == IF Len(image) > limit THEN Fail ELSE write

(* The snapshot of a table with memo fields must have a memo.              *)
prepare_snapshot(mvcc, tid, dbf, memo, force_new_epoch) ==
  LET snapshot == changes_for_commit(LastCommitted(mvcc), dbf, memo, force_new_epoch)
      existing == prepared_snapshot(mvcc, tid)
  IN  IF existing = <<>> /\ (MemoFields => memo # <<>>)
        THEN <<Sized(dbf, RecordLimit, Put("mvcc", [kind |-> "prepare", tid |-> tid,
                                                    snapshot |-> snapshot]))>>
        ELSE When(existing # <<snapshot>>, <<Fail>>)

commit_snapshot(mvcc, tid, dbf, memo, force_new_epoch) ==
  prepare_snapshot(mvcc, tid, dbf, memo, force_new_epoch)
    \o When(tid \notin CommittedIds(mvcc),
            <<Put("mvcc", [kind |-> "commit", tid |-> tid])>>)

(* The change log keeps transaction IDs strictly increasing; the same      *)
(* event again is a success that writes nothing.                           *)
cdc_append(cdc, event) ==
  IF \E e \in Range(cdc) : e.tid = event.tid
    THEN When(event \notin Range(cdc), <<Fail>>)
    ELSE IF cdc # <<>> /\ Last(cdc).tid > event.tid
           THEN <<Fail>>
           ELSE <<Put("cdc", event)>>

(***************************************************************************)
(* The index sidecar.                                                      *)
(***************************************************************************)
refreshed_index(d, dbf, memo) ==
  IF d.index = <<>> \/ d.index = << <<dbf, memo>> >>
    THEN <<>>
    ELSE << <<dbf, memo>> >>

(* The payload that goes to the log starts with the TXDI magic ...         *)
pending_snapshot_payload(d, dbf, memo) ==
  LET index == refreshed_index(d, dbf, memo)
  IN  IF index = <<>> THEN <<>> ELSE <<[magic |-> TRUE, index |-> index]>>

(* ... which decoding strips, ...                                          *)
decode_snapshot_payload(payload) ==
  IF payload.magic THEN <<[payload EXCEPT !.magic = FALSE]>> ELSE <<>>

(* ... and applying a payload without it does nothing.                     *)
apply_snapshot_payload(payload, fingerprint) ==
  IF decode_snapshot_payload(payload) = <<>>
    THEN <<>>
    ELSE IF payload.index # <<fingerprint>>
           THEN <<Fail>>
           ELSE <<Put("index", payload.index)>>

(***************************************************************************)
(* Reading the log.                                                        *)
(***************************************************************************)
LastOfKind(wal, kinds) ==
  LET found == SelectSeq(wal, LAMBDA r : r.kind \in kinds)
  IN  IF found = <<>> THEN <<>> ELSE <<Last(found)>>

find_transaction_id(wal) ==
  LET record == LastOfKind(wal, {"TXTI"})
  IN  IF record = <<>> THEN <<>> ELSE <<record[1].tid>>

find_index_payload(wal) ==
  LET record == LastOfKind(wal, {"TXDI"})
  IN  IF record = <<>> THEN <<>> ELSE decode_snapshot_payload(record[1].payload)

WalEvents(wal) == {r.event : r \in {x \in Range(wal) : x.kind = "TXCD"}}

event_from_wal(wal) ==
  LET record == LastOfKind(wal, {"TXCD"})
  IN  IF record = <<>> THEN <<>> ELSE <<record[1].event>>

HasLayoutMarker(wal) == \E r \in Range(wal) : r.kind = "TXPK"

SnapshotOf(wal) == LastOfKind(wal, {"TXDB", "TXDP"})

OperationOf(wal) == LastOfKind(wal, {"TXOP"})

(* A full image replaces whatever is there.  A delta finds its target or   *)
(* its base in each file it names, or is refused.                          *)
(* Mutant: a delta that was applied already is refused.                    *)
delta_needs_base(current, base, target) == current = base

apply_byte_delta_ok(current, base, target) == current = target \/ current = base

decode_wal_payload_ok(d, snapshot) ==
  snapshot.kind = "TXDP" =>
    /\ d.exists
    /\ apply_byte_delta_ok(d.dbf, snapshot.base_dbf, snapshot.dbf)
    /\ snapshot.memo # <<>> =>
         apply_byte_delta_ok(d.memo, snapshot.base_memo, snapshot.memo)

WalInconsistent(wal) ==
  \/ Cardinality(WalEvents(wal)) > 1
  \/ \E e \in WalEvents(wal) : find_transaction_id(wal) # <<e.tid>>

(***************************************************************************)
(* The snapshot record of a save: a byte delta when it is the smaller one, *)
(* else the full image, which must fit one log record.                     *)
(***************************************************************************)
SnapshotWrite(d, dbf, memo, delta) ==
  IF delta
    THEN Put("wal", [kind |-> "TXDP", base_dbf |-> d.dbf, dbf |-> dbf,
                     base_memo |-> d.memo, memo |-> memo])
    ELSE Sized(dbf, RecordLimit, Put("wal", [kind |-> "TXDB", dbf |-> dbf, memo |-> memo]))

(* apply_memo_updates: the memo image after the operation, if it changes.  *)
apply_memo_updates(d, operation) ==
  IF operation.memo THEN <<d.memo[1] + 1>> ELSE <<>>

FileMemo(d, memo) == IF memo # <<>> THEN memo ELSE d.memo

LogIndex(payload) ==
  <<Sized(payload.index[1][1], IndexLimit, Put("wal", [kind |-> "TXDI", payload |-> payload]))>>

(* current_memo_snapshot, which recovery uses when the log has no memo,    *)
(* cannot tell the format of a .dbt beside a DBF version without memo.     *)
commit_recovered_snapshot(d, tid, dbf, memo, force_new_epoch) ==
  IF memo = <<>> /\ MemoFile = "dbt" /\ ~MemoFields
    THEN <<Fail>>
    ELSE commit_snapshot(d.mvcc, tid, dbf, FileMemo(d, memo), force_new_epoch)

(***************************************************************************)
(* recover_wal_with_encoding: the writes it makes on disk state d.         *)
(***************************************************************************)
SnapshotRecovery(d) ==
  LET snapshot == SnapshotOf(d.wal)[1]
      memo     == FileMemo(d, snapshot.memo)
      ApplyIndex(payload) ==
        apply_snapshot_payload(payload, <<snapshot.dbf, memo>>)
      Publish(event) == cdc_append(d.cdc, event)
      Commit(tid) ==
        <<Put("state", Max({tid, d.state}))>>
          \o commit_recovered_snapshot(d, tid, snapshot.dbf, snapshot.memo, HasLayoutMarker(d.wal))
          \o ForSome(event_from_wal(d.wal), Publish)
  IN  When(snapshot.memo # <<>>, <<Put("memo", snapshot.memo)>>)
        \o <<Put("dbf", snapshot.dbf)>>
        \o ForSome(find_index_payload(d.wal), ApplyIndex)
        \o ForSome(find_transaction_id(d.wal), Commit)
        \o <<Put("clear", <<>>)>>

OperationRecovery(d, delta) ==
  LET operation == OperationOf(d.wal)[1].operation
      logged    == find_transaction_id(d.wal)
      tid       == Max({d.state, IF logged = <<>> THEN d.state + 1 ELSE logged[1]})
      reset     == HasLayoutMarker(d.wal)
      dbf       == apply_operation(d.dbf, operation)
      memo      == apply_memo_updates(d, operation)
      event     == event_for_tables(tid, d.dbf, dbf, reset)
      payload   == pending_snapshot_payload(d, dbf, FileMemo(d, memo))
      ApplyIndex(p) == apply_snapshot_payload(p, <<dbf, FileMemo(d, memo)>>)
  IN  IF \/ ~d.exists
         \/ ~Applicable(d.dbf, operation)
         \/ event_from_wal(d.wal) \notin {<<>>, <<event>>}
        THEN <<Fail>>
        ELSE <<Put("wal", [kind |-> "TXTI", tid |-> tid])>>
               \o When(event_from_wal(d.wal) = <<>>,
                       <<Put("wal", [kind |-> "TXCD", event |-> event])>>)
               \o <<SnapshotWrite(d, dbf, memo, delta)>>
               \o ForSome(payload, LogIndex)
               \o When(memo # <<>>, <<Put("memo", memo)>>)
               \o <<Put("dbf", dbf)>>
               \o ForSome(payload, ApplyIndex)
               \o <<Put("state", tid)>>
               \o commit_recovered_snapshot(d, tid, dbf, memo, reset)
               \o cdc_append(d.cdc, event)
               \o <<Put("clear", <<>>)>>

recover_wal(d, delta) ==
  LET snapshot == SnapshotOf(d.wal)
  IN  IF \/ WalInconsistent(d.wal)
         \/ snapshot # <<>> /\ ~decode_wal_payload_ok(d, snapshot[1])
        THEN <<Fail>>
        ELSE IF snapshot # <<>>
               THEN SnapshotRecovery(d)
               ELSE IF OperationOf(d.wal) # <<>>
                      THEN OperationRecovery(d, delta)
                      ELSE When(find_transaction_id(d.wal) # <<>>,
                                <<Put("clear", <<>>)>>)

(* The result of recovery: TRUE when it reinstated a commit.               *)
recovered(d) == SnapshotOf(d.wal) # <<>> \/ OperationOf(d.wal) # <<>>

(***************************************************************************)
(* save_with_wal_inner_locked, from the first log record on.  Where there  *)
(* is no DBF file, the table before the save is one without records.       *)
(***************************************************************************)
next_transaction_id(d) == d.state + 1

SaveWrites(d, dbf, memo, operation, layout_changed, delta) ==
  LET tid     == next_transaction_id(d)
      history == IF memo # <<>> THEN memo ELSE IF MemoFields THEN d.memo ELSE <<>>
      payload == pending_snapshot_payload(d, dbf, FileMemo(d, memo))
      event   == event_for_tables(tid, d.dbf, dbf, layout_changed)
      LogOperation(o) == <<Put("wal", [kind |-> "TXOP", operation |-> o])>>
      ApplyIndex(p)   == apply_snapshot_payload(p, <<dbf, FileMemo(d, memo)>>)
  IN  When(layout_changed, <<Put("wal", [kind |-> "TXPK"])>>)
        \o ForSome(operation, LogOperation)
        \o <<Put("wal", [kind |-> "TXTI", tid |-> tid]),
             Put("wal", [kind |-> "TXCD", event |-> event]),
             SnapshotWrite(d, dbf, memo, delta)>>
        \o ForSome(payload, LogIndex)
        \o prepare_snapshot(d.mvcc, tid, dbf, history, layout_changed)
        \o When(memo # <<>>, <<Put("memo", memo)>>)
        \o <<Put("dbf", dbf)>>
        \o ForSome(payload, ApplyIndex)
        \o <<Put("state", tid)>>
        \o When(tid \notin CommittedIds(d.mvcc),
                <<Put("mvcc", [kind |-> "commit", tid |-> tid])>>)
        \o cdc_append(d.cdc, event)
        \o <<Put("clear", <<>>)>>

(***************************************************************************)
(* Operations.                                                             *)
(***************************************************************************)
Init ==
  /\ \E image \in Images, memo \in {IF MemoFile = "none" THEN <<>> ELSE <<0>>} :
       /\ NewTable => image = <<>>
       /\ disk = [dbf   |-> image, exists |-> ~NewTable, memo |-> memo,
                  index |-> IF NewTable THEN <<>> ELSE << <<image, memo>> >>,
                  state |-> 0, wal |-> <<>>, mvcc |-> <<>>, cdc |-> <<>>]
  /\ origin = disk.dbf
  /\ todo = <<>>
  /\ job = <<>>
  /\ handle = [c \in Clients |-> <<>>]
  /\ interrupts = 0

(* What a save may be called with: the mutation the client made before to  *)
(* its table in memory, an operation or a recall; or, <<>>, a PACK; or a   *)
(* whole table of another origin, without memo fields.  A memo update of a *)
(* table whose sidecar is missing is refused before anything is written.   *)
Requests(c, kind) ==
  CASE kind = "pack" -> {<<>>}
    [] kind = "put"  -> {<<[method |-> "SAVE", image |-> image, memo |-> FALSE]>> :
                           image \in {x \in Images : ~MemoFields}}
    [] kind \in {"operation", "commit", "merge"} ->
         LET loaded == handle[c][1]
         IN  {<<o>> : o \in {x \in Operations :
                               /\ Applicable(loaded.dbf, x)
                               /\ x.memo => MemoFields /\ loaded.memo # <<>>}}
               \cup {<<r>> : r \in {x \in Recalls : /\ Recallable(loaded.dbf, x.id)
                                                    /\ kind # "operation"}}

Desired(c, request) ==
  LET loaded == handle[c][1].dbf
  IN  CASE request = <<>>               -> pack(loaded)
        [] request[1].method = "SAVE"   -> request[1].image
        [] request[1].method = "RECALL" -> recall_record(loaded, request[1].id)
        [] request[1].method \in {"POST", "PUT", "DELETE"} -> apply_operation(loaded, request[1])

(* An operation takes the lock and recovers the log.  from_path and the    *)
(* MVCC readers need no table yet; a save is called on one loaded earlier. *)
Begin(c, kind) ==
  /\ job = <<>>
  /\ kind = "put" => c \in Foreign
  /\ kind \in SaveKinds \ {"put"} => handle[c] # <<>>
  /\ kind \in SaveKinds => Requests(c, kind) # {}
  /\ \E delta \in BOOLEAN : todo' = recover_wal(disk, delta)
  /\ job' = <<[client |-> c, kind |-> kind, operation |-> <<>>,
               phase |-> "recover", recovered |-> recovered(disk)]>>
  /\ UNCHANGED <<disk, handle, origin, interrupts>>

Running(kinds, phase) ==
  /\ job # <<>>
  /\ job[1].kind \in kinds
  /\ job[1].phase = phase

Release == job' = <<>> /\ todo' = <<>>

(* One durable write of the running operation.                             *)
Write ==
  /\ todo # <<>>
  /\ Head(todo).file # "fail"
  /\ disk' = ApplyWrite(disk, Head(todo))
  /\ todo' = Tail(todo)
  /\ UNCHANGED <<job, handle, origin, interrupts>>

(* A check in the middle of the procedure fails and the error is returned. *)
ReturnError ==
  /\ todo # <<>>
  /\ Head(todo).file = "fail"
  /\ Release
  /\ UNCHANGED <<disk, handle, origin, interrupts>>

(* A crash, or an I/O error returned to the caller.                        *)
Interrupt ==
  /\ job # <<>>
  /\ interrupts < MaxInterrupts
  /\ interrupts' = interrupts + 1
  /\ Release
  /\ UNCHANGED <<disk, handle, origin>>

(* refresh_if_present, which from_path calls only after a recovery that    *)
(* reinstated a commit ...                                                 *)
RefreshIndex ==
  /\ Running({"load"}, "recover")
  /\ todo = <<>>
  /\ LET index == refreshed_index(disk, disk.dbf, disk.memo)
     IN  todo' = When(job[1].recovered /\ index # <<>>, <<Put("index", index)>>)
  /\ job' = <<[job[1] EXCEPT !.phase = "refresh"]>>
  /\ UNCHANGED <<disk, handle, origin, interrupts>>

(* ... and whose error it ignores.  Without a DBF file the load fails.     *)
ReturnLoad ==
  /\ Running({"load"}, "refresh")
  /\ handle' = [handle EXCEPT ![job[1].client] = IF disk.exists THEN <<Source(disk)>> ELSE @]
  /\ Release
  /\ UNCHANGED <<disk, origin, interrupts>>

ReturnVersions ==
  /\ Running({"versions"}, "recover")
  /\ todo = <<>>
  /\ Release
  /\ UNCHANGED <<disk, handle, origin, interrupts>>

(***************************************************************************)
(* After recovery a save compares the disk with what the table was loaded  *)
(* from, and a row merge reconciles a difference.                          *)
(***************************************************************************)
(* Mutant: a stale table is not noticed.                                   *)
source_unchecked == TRUE

(* A table of another origin has no source, or one at another path, and    *)
(* replaces whatever is there.                                             *)
ensure_source_current == job[1].kind = "put" \/ handle[job[1].client] = <<Source(disk)>>

(* The bytes to save: the desired ones, or their merge with newer ones.    *)
Prepared(request) ==
  IF ensure_source_current
    THEN Desired(job[1].client, request)
    ELSE merge_disjoint_rows(handle[job[1].client][1].dbf, disk.dbf, Desired(job[1].client, request))

(* The memo image the save writes, if any.  compact_memo_sidecar keeps the *)
(* blocks the remaining records point to; rows are single values, so which *)
(* ones is left open.                                                      *)
PreparedMemos(request) ==
  CASE request = <<>> /\ MemoFields /\ disk.memo # <<>> ->
         {<<n>> : n \in IF Prepared(request) = <<>> THEN {0} ELSE 0..disk.memo[1]}
    [] request = <<>> /\ ~(MemoFields /\ disk.memo # <<>>) -> {<<>>}
    [] request # <<>> ->
         {IF ~ensure_source_current /\ Prepared(request) = disk.dbf
            THEN <<>> ELSE apply_memo_updates(disk, request[1])}

Accepted(request) ==
  \/ ensure_source_current
  \/ /\ job[1].kind = "merge"
     /\ Mergeable(handle[job[1].client][1].dbf, disk.dbf, Desired(job[1].client, request))

(* A merge replaces the table in memory by the merged one, whose source is *)
(* what is on disk.                                                        *)
StartSave(request) ==
  /\ Accepted(request)
  /\ disk.state < MaxCommits
  /\ \E delta \in {FALSE, job[1].kind # "put"}, memo \in PreparedMemos(request) :
       todo' = SaveWrites(disk, Prepared(request), memo,
                          IF job[1].kind = "operation" THEN request ELSE <<>>,
                          job[1].kind = "pack", delta)
  /\ job' = <<[job[1] EXCEPT !.phase = "save", !.operation = request]>>
  /\ handle' = IF job[1].kind = "merge"
                 THEN [handle EXCEPT ![job[1].client] = <<Source(disk)>>]
                 ELSE handle
  /\ UNCHANGED <<disk, origin, interrupts>>

(* A stale source that cannot be merged, or no transaction ID left.        *)
RejectSave(request) ==
  /\ ~Accepted(request) \/ disk.state = MaxCommits
  /\ Release
  /\ UNCHANGED <<disk, handle, origin, interrupts>>

Save ==
  /\ Running(SaveKinds, "recover")
  /\ todo = <<>>
  /\ \E request \in Requests(job[1].client, job[1].kind) : StartSave(request) \/ RejectSave(request)

(* The save returns Ok and the table in memory becomes the saved one.      *)
ReturnSave ==
  /\ Running(SaveKinds, "save")
  /\ todo = <<>>
  /\ handle' = [handle EXCEPT ![job[1].client] = <<Source(disk)>>]
  /\ Release
  /\ UNCHANGED <<disk, origin, interrupts>>

Next ==
  \/ \E c \in Clients, kind \in Kinds : Begin(c, kind)
  \/ Write
  \/ ReturnError
  \/ Interrupt
  \/ RefreshIndex
  \/ ReturnLoad
  \/ ReturnVersions
  \/ Save
  \/ ReturnSave

Spec == Init /\ [][Next]_vars

(***************************************************************************)
(* Types.                                                                  *)
(***************************************************************************)
Files == {"wal", "mvcc", "cdc", "clear", "fail", "dbf", "memo", "index", "state"}

(* Every file holds what its writer puts there: images of at most MaxRows  *)
(* records, transaction IDs within the bound, log records of a known kind, *)
(* and a running operation is one of the configured kinds.                 *)
TypeOK ==
  /\ IsImage(disk.dbf) /\ disk.exists \in BOOLEAN /\ disk.memo \in Memos
  /\ disk.state \in 0..MaxCommits
  /\ \A index \in Range(disk.index) : IsImage(index[1]) /\ index[2] \in Memos
  /\ \A r \in Range(disk.wal) :
       r.kind \in {"TXPK", "TXOP", "TXTI", "TXCD", "TXDB", "TXDP", "TXDI"}
  /\ \A r \in Range(disk.mvcc) :
       r.kind \in {"prepare", "commit"} /\ r.tid \in 1..MaxCommits
  /\ \A e \in Range(disk.cdc) : e.tid \in 1..MaxCommits /\ e.reset \in BOOLEAN
  /\ \A write \in Range(todo) : write.file \in Files
  /\ Len(job) <= 1
  /\ \A j \in Range(job) : j.client \in Clients /\ j.kind \in Kinds
  /\ \A c \in Clients :
       /\ Len(handle[c]) <= 1
       /\ \A s \in Range(handle[c]) :
            IsImage(s.dbf) /\ s.memo \in Memos /\ s.tid \in 0..MaxCommits
  /\ IsImage(origin)
  /\ interrupts \in 0..MaxInterrupts

(***************************************************************************)
(* What the table durably is: the outcome the log has already decided, or  *)
(* the files when the log decides nothing.                                 *)
(***************************************************************************)
Durable ==
  LET snapshot  == SnapshotOf(disk.wal)
      operation == OperationOf(disk.wal)
      tid       == find_transaction_id(disk.wal)
      version   == IF tid # <<>> THEN tid[1] ELSE next_transaction_id(disk)
  IN  IF snapshot # <<>>
        THEN [version |-> version, image |-> snapshot[1].dbf,
              memo |-> FileMemo(disk, snapshot[1].memo)]
        ELSE IF operation # <<>>
               THEN [version |-> version,
                     image   |-> apply_operation(disk.dbf, operation[1].operation),
                     memo    |-> FileMemo(disk, apply_memo_updates(
                                                  disk, operation[1].operation))]
               ELSE [version |-> disk.state, image |-> disk.dbf, memo |-> disk.memo]

LoadedOf(c) ==
  [i \in DOMAIN handle[c] |->
     [version |-> handle[c][i].tid, image |-> handle[c][i].dbf,
      memo |-> handle[c][i].memo]]

Cell == INSTANCE TableCell WITH cell <- Durable, loaded <- [c \in Clients |-> LoadedOf(c)]

(* Whatever the interruptions, save_with_wal and recover_wal_with_encoding *)
(* make the table an atomic compare-and-swap cell: a commit takes effect   *)
(* once, at one log append, with the next transaction ID and only on top   *)
(* of exactly what its client loaded, unless the client puts a table of    *)
(* another origin there, and a load returns the current cell.              *)
Refines == Cell!Spec

(* A save replaces exactly what its client loaded, also where a stranger's *)
(* table came in between; only a table of another origin, which has no     *)
(* source to compare (ensure_source_current), replaces anything.           *)
ReplacesWhatWasLoaded ==
  Durable' # Durable => job[1].kind = "put" \/ LoadedOf(job[1].client) = <<Durable>>

(* A commit, merged or not, changes at most the record its operation       *)
(* names; a concurrent client's rows survive it.  Only PACK renumbers, and *)
(* only a table of another origin replaces the rows.                       *)
TouchesOnlyItsRecord ==
  \E before \in {Durable.image}, after \in {Durable'.image} :
    \/ after = before
    \/ job[1].kind \in {"pack", "put"}
    \/ LET operation == job[1].operation[1]
       IN  \A r \in DOMAIN before \cup DOMAIN after :
             StateAt(after, r) # StateAt(before, r)
               => IF operation.method = "POST" THEN r = Len(before) + 1 ELSE r = operation.id

(* When no commit is pending, the MVCC history is complete: its last       *)
(* committed version is the table's transaction ID and holds the table's   *)
(* bytes, and no prepared version was left without its commit.             *)
HistoryMatchesTable ==
  disk.wal = <<>> /\ disk.state > 0 =>
    LET last == LastCommitted(disk.mvcc)
    IN  /\ CommittedIds(disk.mvcc) = 1..disk.state
        /\ last[1].dbf = disk.dbf
        /\ last[1].memo = disk.memo
        /\ \A r \in Range(disk.mvcc) : r.tid \in CommittedIds(disk.mvcc)

(* When no commit is pending, the change log holds each transaction once   *)
(* and in order, and applying its events to the image the table started    *)
(* from, each on the state it names as before, gives the table.            *)
ChangeLogReplays ==
  LET Apply(image, event) ==
        LET last == {r \in DOMAIN image \cup {c.number : c \in event.changes} :
                       \A c \in event.changes : c.number = r => c.after # <<>>}
        IN  [r \in last |->
               IF \E c \in event.changes : c.number = r
                 THEN (CHOOSE c \in event.changes : c.number = r).after[1]
                 ELSE image[r]]
      replay[i \in 0..Len(disk.cdc)] ==
        IF i = 0 THEN origin ELSE Apply(replay[i - 1], disk.cdc[i])
  IN  disk.wal = <<>> =>
        /\ [i \in DOMAIN disk.cdc |-> disk.cdc[i].tid] = [i \in 1..disk.state |-> i]
        /\ \A i \in DOMAIN disk.cdc : \A c \in disk.cdc[i].changes :
             c.before = IF c.number \in DOMAIN replay[i - 1]
                          THEN <<replay[i - 1][c.number]>> ELSE <<>>
        /\ replay[Len(disk.cdc)] = disk.dbf

(* Row identities are never reused: at every committed version, reading a  *)
(* row by (epoch, record number) with row_at gives that version's record,  *)
(* and a row of an earlier epoch reads as deleted once PACK renumbered.    *)
RowIdentity ==
  LET snapshots == committed_snapshots(disk.mvcc)
      changes   == [tid \in DOMAIN snapshots |-> snapshots[tid].changes]
  IN  \A tid \in DOMAIN snapshots :
        LET snapshot == snapshots[tid]
        IN  /\ \A r \in DOMAIN snapshot.dbf :
                 LET row == row_at(changes, tid, snapshot.epoch, r)
                 IN  /\ row # <<>>
                     /\ [deleted |-> row[1].deleted, value |-> row[1].value]
                          = snapshot.dbf[r]
            /\ \A old \in DOMAIN snapshots, r \in 1..MaxRows :
                 old < tid /\ snapshots[old].epoch < snapshot.epoch =>
                   LET row == row_at(changes, tid, snapshots[old].epoch, r)
                   IN  row # <<>> => row[1].deleted

(* A save that returned Ok leaves an index of exactly the saved files.     *)
IndexedWhenAcknowledged == ReturnSave => disk.index = << <<disk.dbf, disk.memo>> >>

RecoveryFails == \E delta \in BOOLEAN : Fail \in Range(recover_wal(disk, delta))

(* A commit left pending by an interruption can always be recovered while  *)
(* its MVCC version is not committed: the next operation replays the log   *)
(* and completes it, whatever was interrupted before, and however often.   *)
RecoverableUntilHistoryCommits ==
  LET tid == find_transaction_id(disk.wal)
  IN  /\ job = <<>>
      /\ tid = <<>> \/ tid[1] \notin CommittedIds(disk.mvcc)
      => ~RecoveryFails

(* Recovery is idempotent: wherever an operation was interrupted, after    *)
(* all replacements too, the next recovery succeeds.                       *)
RecoverySucceeds == job = <<>> => ~RecoveryFails


(* A save goes past its checks only with a sidecar that is current: a      *)
(* stale one leaves the DBF unchanged and is reported.                     *)
RefusesStaleSidecar ==
  Running(SaveKinds, "recover") /\ Running(SaveKinds, "save")'
    => disk.index \in {<<>>, << <<disk.dbf, disk.memo>> >>}
=============================================================================
