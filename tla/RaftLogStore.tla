---------------------------- MODULE RaftLogStore ----------------------------
(* The durable log of a Raft node: replication/raft/log_store.rs, its journal *)
(* file format (log_store/journal.rs) and the OpenRaft adapter on top of it.  *)
(*                                                                           *)
(* Memory holds the entries, the purged and the committed position and the    *)
(* vote.  Every change is first written to the journal of the current         *)
(* generation, record by record, then synced, and only then made in memory.   *)
(* A purge also writes the whole state to a journal of the next generation.   *)
(* The process may stop anywhere; what the disk then holds is a prefix of     *)
(* what was written that contains what was synced.                           *)
(*                                                                           *)
(* An entry is its term (what it carries is told apart by term and index      *)
(* alone), OpenRaft's index 0 is 1 here and index 0 stands for None.          *)
EXTENDS Naturals, Sequences, FiniteSets, SequencesExt

CONSTANTS MaxIndex,      \* bound on log indexes
          MaxTerm,       \* bound on terms
          Votes,         \* the votes cast in the instance
          NoVote,
          MaxBatch,      \* bound on the entries of one append
          MaxRecords,    \* bound on the records of one journal
          MaxGeneration, \* bound on compactions
          WriteBack      \* the page cache outlives the process until it is on disk

VARIABLES mem,        \* StoreInner.state
          generation, \* StoreInner.generation
          poisoned,   \* StoreInner.poisoned
          pc,         \* where the operation under the mutex is
          todo,       \* records persist_records has still to write
          after,      \* LogStateData the operation stores once they are synced
          journals,   \* the records in the file of each generation
          synced,     \* how many records of the newest journal are on disk
          dir,        \* generations whose file has its name
          maybe,      \* directory contents a power loss may leave behind
          promised,   \* what callers were told is stored
          limbo       \* records of a failed or unfinished call that may survive

vars == <<mem, generation, poisoned, pc, todo, after, journals, synced, dir,
          maybe, promised, limbo>>

Terms == 1..MaxTerm
Indexes == 1..MaxIndex
LogId == [index : Indexes, term : Terms]
None == [index |-> 0, term |-> 0]

(* An empty LogStateData. *)
Empty == [entries |-> <<>>, last_purged |-> None, committed |-> None,
          vote |-> NoVote, ok |-> TRUE]

AppendRecord(i, t) == [kind |-> "Append", id |-> [index |-> i, term |-> t]]
VoteRecord(v) == [kind |-> "Vote", vote |-> v]
CommittedRecord(c) == [kind |-> "Committed", id |-> c]
TruncateRecord(i) == [kind |-> "Truncate", id |-> i]
PurgeRecord(p) == [kind |-> "Purge", id |-> p]

(* The order of OpenRaft's Vote with single-term-leader: by term, and within  *)
(* a term a committed vote is above the others, which are not ordered.        *)
VoteBefore(v, w) ==
    v.term < w.term \/ (v.term = w.term /\ ~v.committed /\ w.committed)

KeepFrom(entries, S) == [i \in DOMAIN entries \cap S |-> entries[i]]
Below(i) == 1..(i - 1)
Above(i) == (i + 1)..MaxIndex

last_log_index(st) ==
    IF DOMAIN st.entries # {} THEN CHOOSE i \in DOMAIN st.entries :
                                       \A j \in DOMAIN st.entries : j <= i
    ELSE st.last_purged.index

(* apply_record: what replay accepts ... *)
Accepted(st, r) ==
    CASE r.kind = "Append" ->
           /\ r.id.index > st.last_purged.index
           /\ r.id.index > st.committed.index
           /\ last_log_index(st) = 0 \/ r.id.index <= last_log_index(st) + 1
      [] r.kind = "Vote" -> st.vote = NoVote \/ ~VoteBefore(r.vote, st.vote)
      [] r.kind = "Committed" ->
           st.committed = None \/ r.id.index > st.committed.index \/ r.id = st.committed
      [] r.kind = "Truncate" ->
           r.id > st.last_purged.index /\ r.id > st.committed.index
      [] r.kind = "Purge" ->
           r.id.index > st.last_purged.index \/ r.id = st.last_purged

(* ... and what it does. *)
Applied(st, r) ==
    CASE r.kind = "Append" ->
           [st EXCEPT !.entries = [i \in (DOMAIN @ \cap Below(r.id.index)) \cup {r.id.index} |->
                                      IF i = r.id.index THEN r.id.term ELSE @[i]]]
      [] r.kind = "Vote" -> [st EXCEPT !.vote = r.vote]
      [] r.kind = "Committed" -> [st EXCEPT !.committed = r.id]
      [] r.kind = "Truncate" -> [st EXCEPT !.entries = KeepFrom(@, Below(r.id))]
      [] r.kind = "Purge" -> [st EXCEPT !.entries = KeepFrom(@, Above(r.id.index)),
                                        !.last_purged = r.id]

apply_record(st, r) ==
    IF st.ok /\ Accepted(st, r) THEN Applied(st, r) ELSE [st EXCEPT !.ok = FALSE]

recover(records) == FoldLeft(apply_record, Empty, records)

(* The retained entries as records, in index order. *)
EntryRecords(st) ==
    LET order == SetToSortSeq(DOMAIN st.entries, <)
    IN  [k \in DOMAIN order |-> AppendRecord(order[k], st.entries[order[k]])]
VoteRecords(st) == IF st.vote = NoVote THEN <<>> ELSE <<VoteRecord(st.vote)>>
CommittedRecords(st) ==
    IF st.committed = None THEN <<>> ELSE <<CommittedRecord(st.committed)>>

(* What compact writes to the next generation, in its order. *)
Checkpoint(st) ==
    <<PurgeRecord(st.last_purged)>> \o VoteRecords(st) \o EntryRecords(st)
    \o CommittedRecords(st)

-----------------------------------------------------------------------------
(* Operations.  A call that returns early or is refused changes nothing, so   *)
(* only the calls that reach persist_records are actions.                     *)

Init ==
    /\ mem = Empty /\ generation = 0 /\ poisoned = FALSE
    /\ pc = "idle" /\ todo = <<>> /\ after = Empty
    /\ journals = [g \in 0..MaxGeneration |-> <<>>]
    /\ synced = [g \in 0..MaxGeneration |-> 0]
    /\ dir = {0} /\ maybe = {{0}}
    /\ promised = Empty /\ limbo = <<>>

(* persist_records begins; result is what memory becomes once it succeeds. *)
persist_records(records, result) ==
    /\ pc = "idle" /\ ~poisoned
    /\ Len(journals[generation]) + Len(records) <= MaxRecords
    /\ pc' = "write" /\ todo' = records /\ limbo' = records /\ after' = result
    /\ UNCHANGED <<mem, generation, poisoned, journals, synced, dir, maybe, promised>>

(* The adapter's append: the prefix a purge covers is skipped, an entry at or *)
(* below the committed position is refused, and so is a gap.  OpenRaft leaves *)
(* none in an empty log either.                                               *)
append_entries(first, terms) ==
    LET kept == {k \in DOMAIN terms : first + k - 1 > mem.last_purged.index}
        from == IF kept = {} THEN 0 ELSE first + Min(kept) - 1
        records == [k \in 1..Cardinality(kept) |->
                      AppendRecord(from + k - 1, terms[from - first + k])]
    IN  /\ kept # {}
        /\ from > mem.committed.index
        /\ from <= last_log_index(mem) + 1
        /\ persist_records(records, FoldLeft(Applied, mem, records))

save_vote(v) ==
    /\ v # mem.vote
    /\ mem.vote # NoVote => ~VoteBefore(v, mem.vote)
    /\ persist_records(<<VoteRecord(v)>>, [mem EXCEPT !.vote = v])

(* Mutant: an older position is saved as well. *)
save_committed_back(c) ==
    /\ c # mem.committed
    /\ persist_records(<<CommittedRecord(c)>>, [mem EXCEPT !.committed = c])

save_committed(c) ==
    /\ c # mem.committed
    /\ mem.committed # None => c.index > mem.committed.index
    /\ persist_records(<<CommittedRecord(c)>>, [mem EXCEPT !.committed = c])

truncate(i) ==
    /\ i > mem.last_purged.index
    /\ \E j \in DOMAIN mem.entries : j >= i
    /\ i > mem.committed.index
    /\ persist_records(<<TruncateRecord(i)>>,
                       [mem EXCEPT !.entries = KeepFrom(@, Below(i))])

purge(p) ==
    /\ p.index > mem.last_purged.index
    /\ generation < MaxGeneration
    /\ persist_records(<<PurgeRecord(p)>>,
                       [mem EXCEPT !.entries = KeepFrom(@, Above(p.index)),
                                   !.last_purged = p])

(* write_record, for the next record of the call. *)
WriteRecord ==
    /\ pc = "write" /\ todo # <<>>
    /\ journals' = [journals EXCEPT ![generation] = Append(@, Head(todo))]
    /\ todo' = Tail(todo)
    /\ UNCHANGED <<mem, generation, poisoned, pc, after, synced, dir, maybe,
                   promised, limbo>>

(* A file's sync also makes the name it is reached by durable. *)
NamesAfterSync == {d \in maybe : generation \in d}

(* sync_all succeeds: memory changes and the caller is answered, or, for a    *)
(* purge, compact goes on.                                                    *)
SyncRecords ==
    /\ pc = "write" /\ todo = <<>>
    /\ synced' = [synced EXCEPT ![generation] = Len(journals[generation])]
    /\ maybe' = NamesAfterSync
    /\ mem' = after /\ promised' = after /\ limbo' = <<>>
    /\ pc' = IF after.last_purged # mem.last_purged THEN "compact" ELSE "idle"
    /\ UNCHANGED <<generation, poisoned, todo, after, journals, dir>>

Written == Len(limbo) - Len(todo)
Base == Len(journals[generation]) - Written

(* A write or the sync fails and the file is cut back to its old length. *)
WriteFails ==
    /\ pc = "write"
    /\ journals' = [journals EXCEPT ![generation] = SubSeq(@, 1, Base)]
    /\ synced' = [synced EXCEPT ![generation] = Base]
    /\ maybe' = NamesAfterSync
    /\ pc' = "idle" /\ todo' = <<>> /\ limbo' = <<>> /\ after' = mem
    /\ UNCHANGED <<mem, generation, poisoned, dir, promised>>

(* Cutting it back fails too: some of the records may stay in the file. *)
RollbackFails ==
    /\ pc = "write"
    /\ poisoned' = TRUE
    /\ pc' = "idle" /\ limbo' = SubSeq(limbo, 1, Written) /\ todo' = <<>> /\ after' = mem
    /\ UNCHANGED <<mem, generation, journals, synced, dir, maybe, promised>>

(* create_generation: the checkpoint is written and synced under a temporary  *)
(* name, then renamed.                                                        *)
create_generation ==
    /\ pc = "compact"
    /\ journals' = [journals EXCEPT ![generation + 1] = Checkpoint(mem)]
    /\ synced' = [synced EXCEPT ![generation + 1] = Len(Checkpoint(mem))]
    /\ dir' = dir \cup {generation + 1}
    /\ maybe' = maybe \cup {dir'}
    /\ pc' = "syncdir"
    /\ UNCHANGED <<mem, generation, poisoned, todo, after, promised, limbo>>

(* ... and its directory entry is synced: the store now writes to it. *)
SwitchGeneration ==
    /\ pc = "syncdir"
    /\ maybe' = {dir}
    /\ generation' = generation + 1
    /\ pc' = "remove"
    /\ UNCHANGED <<mem, poisoned, todo, after, journals, synced, dir, promised, limbo>>

(* Mutant: a failed compaction leaves the store usable. *)
CompactFailsUnnoticed ==
    /\ pc \in {"compact", "syncdir"}
    /\ pc' = "idle"
    /\ UNCHANGED <<mem, generation, poisoned, todo, after, journals, synced, dir,
                   maybe, promised, limbo>>

(* Any error on the way poisons the store, with or without the new file. *)
CompactFails ==
    /\ pc \in {"compact", "syncdir"}
    /\ poisoned' = TRUE /\ pc' = "idle"
    /\ UNCHANGED <<mem, generation, todo, after, journals, synced, dir, maybe,
                   promised, limbo>>

(* The old file is removed and the directory synced; both may fail unnoticed. *)
RemoveOld ==
    /\ pc = "remove"
    /\ dir' \in {dir \ {generation - 1}, dir}
    /\ maybe' \in {{dir'}, maybe \cup {dir'}}
    /\ pc' = "idle"
    /\ UNCHANGED <<mem, generation, poisoned, todo, after, journals, synced,
                   promised, limbo>>

-----------------------------------------------------------------------------
(* Faults and restart. *)

Stop ==
    /\ pc' = "closed" /\ mem' = Empty /\ generation' = 0 /\ poisoned' = FALSE
    /\ todo' = <<>> /\ after' = Empty /\ UNCHANGED promised
Newest(d) == Max(d)

(* The machine stops: of the newest journal the disk keeps what was synced    *)
(* and any prefix of the rest, and of the unsynced names any older state.     *)
PowerLoss ==
    /\ pc # "closed"
    /\ \E d \in maybe : \E n \in synced[Newest(d)]..Len(journals[Newest(d)]) :
         /\ dir' = d /\ maybe' = {d}
         /\ journals' = [g \in 0..MaxGeneration |->
                           IF g = Newest(d) THEN SubSeq(journals[g], 1, n)
                           ELSE IF g \in d THEN journals[g] ELSE <<>>]
         /\ synced' = [g \in 0..MaxGeneration |->
                         IF g = Newest(d) THEN n ELSE IF g \in d THEN synced[g] ELSE 0]
    /\ UNCHANGED limbo
    /\ Stop

(* Only the process stops: what it wrote stays in the page cache, the last    *)
(* records of an unfinished call possibly torn or cut back.                   *)
Kill ==
    /\ pc # "closed"
    /\ \E n \in Base..Len(journals[generation]) :
         /\ journals' = [journals EXCEPT ![generation] = SubSeq(@, 1, n)]
         /\ synced' = [synced EXCEPT ![generation] = IF WriteBack THEN n ELSE @]
    /\ maybe' = IF WriteBack THEN {dir} ELSE maybe
    /\ UNCHANGED <<dir, limbo>>
    /\ Stop

(* StoreInner::open: the newest generation is replayed and the others are     *)
(* removed, as far as that works.                                             *)
open ==
    /\ pc = "closed"
    /\ recover(journals[Newest(dir)]).ok
    /\ generation' = Newest(dir)
    /\ mem' = recover(journals[Newest(dir)])
    /\ promised' = mem' /\ limbo' = <<>> /\ poisoned' = FALSE /\ pc' = "idle"
    /\ dir' \in {{Newest(dir)}, dir}
    /\ maybe' = maybe \cup {dir'}
    /\ after' = mem'
    /\ UNCHANGED <<todo, journals, synced>>

Next ==
    \/ \E first \in Indexes : \E n \in 1..MaxBatch : \E terms \in [1..n -> Terms] :
         first + n - 1 <= MaxIndex /\ append_entries(first, terms)
    \/ \E v \in Votes : save_vote(v)
    \/ \E c \in LogId : save_committed(c)
    \/ \E i \in Indexes : truncate(i)
    \/ \E p \in LogId : purge(p)
    \/ WriteRecord \/ SyncRecords \/ WriteFails \/ RollbackFails
    \/ create_generation \/ SwitchGeneration \/ CompactFails \/ RemoveOld
    \/ PowerLoss \/ Kill \/ open

Spec == Init /\ [][Next]_vars

-----------------------------------------------------------------------------
(* Properties. *)

State == [entries : UNION {[S -> Terms] : S \in SUBSET Indexes},
          last_purged : LogId \cup {None}, committed : LogId \cup {None},
          vote : Votes \cup {NoVote}, ok : {TRUE}]

(* Types of the store's memory, of the disk and of the ghost state. *)
TypeOK ==
    /\ mem \in State /\ after \in State /\ promised \in State
    /\ generation \in 0..MaxGeneration /\ poisoned \in BOOLEAN
    /\ pc \in {"idle", "write", "compact", "syncdir", "remove", "closed"}
    /\ \A g \in 0..MaxGeneration : synced[g] \in 0..Len(journals[g])
    /\ dir \in SUBSET (0..MaxGeneration) /\ dir # {} /\ {} \notin maybe

(* At every moment, whatever a power loss keeps of the disk, open accepts the *)
(* newest journal it finds there, and the state it replays is the one callers *)
(* were told is stored, at most followed by the first records of the one call *)
(* that has not been answered or was answered with an error.                  *)
StableStorage ==
    \A d \in maybe : \A n \in synced[Newest(d)]..Len(journals[Newest(d)]) :
      LET found == recover(SubSeq(journals[Newest(d)], 1, n))
      IN  \E k \in 0..Len(limbo) :
            found = FoldLeft(apply_record, promised, SubSeq(limbo, 1, k)) /\ found.ok

(* Whatever a caller asks for and wherever the process stops, what the store  *)
(* reports never loses ground: the vote, the committed and the purged position *)
(* do not go back, and an entry at or below the committed position keeps its  *)
(* term until it is purged.                                                   *)
KeepsCommittedLog ==
    /\ promised.vote # NoVote =>
         promised'.vote # NoVote /\ ~VoteBefore(promised'.vote, promised.vote)
    /\ promised'.committed.index >= promised.committed.index
    /\ promised'.last_purged.index >= promised.last_purged.index
    /\ \A i \in DOMAIN promised.entries :
         i <= promised.committed.index =>
           \/ i <= promised'.last_purged.index
           \/ i \in DOMAIN promised'.entries
              /\ promised'.entries[i] = promised.entries[i]
=============================================================================
