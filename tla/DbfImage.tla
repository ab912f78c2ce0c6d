------------------------------ MODULE DbfImage ------------------------------
(***************************************************************************)
(* The data a txBASE table is made of, as pure operators: a DBF image is   *)
(* a sequence of physical records, each with a deletion marker and one     *)
(* value that stands for the whole row.  On top of it: the mutations of    *)
(* OperationIr, PACK, the row-level merge of two descendants of one base,  *)
(* the change-data-capture difference of two images and the row versions   *)
(* an MVCC snapshot records.                                               *)
(***************************************************************************)
EXTENDS Naturals, Sequences, FiniteSets

CONSTANTS Values,       \* the row contents the model tells apart
          MaxRows       \* bound: physical records of a table

Record == [deleted : BOOLEAN, value : Values]

Images == UNION {[1..n -> Record] : n \in 0..MaxRows}

IsImage(image) == image \in Seq(Record) /\ Len(image) <= MaxRows

(* A mutation: the method, the record it names, the new row, and whether   *)
(* the row carries text that goes to the memo sidecar.  PATCH with a       *)
(* whole-row value is the same as PUT.                                     *)
Operations ==
  [method : {"POST"}, value : Values, memo : BOOLEAN]
    \cup [method : {"PUT"}, id : 1..MaxRows, value : Values, memo : BOOLEAN]
    \cup [method : {"DELETE"}, id : 1..MaxRows, memo : {FALSE}]

(* active_index: the record exists and is not marked deleted.              *)
ActiveIndex(image, id) == id \in DOMAIN image /\ ~image[id].deleted

(* The conditions under which apply_operation returns Ok.                  *)
Applicable(image, operation) ==
  IF operation.method = "POST"
    THEN Len(image) < MaxRows
    ELSE ActiveIndex(image, operation.id)

apply_operation(image, operation) ==
  CASE operation.method = "POST" ->
         Append(image, [deleted |-> FALSE, value |-> operation.value])
    [] operation.method = "PUT" ->
         [image EXCEPT ![operation.id].value = operation.value]
    [] operation.method = "DELETE" ->
         [image EXCEPT ![operation.id].deleted = TRUE]

(* recall_record undoes a deletion.  It is a method of the table and has   *)
(* no OperationIr.                                                         *)
Recalls == [method : {"RECALL"}, id : 1..MaxRows, memo : {FALSE}]

Recallable(image, id) == id \in DOMAIN image /\ image[id].deleted

recall_record(image, id) == [image EXCEPT ![id].deleted = FALSE]

(* PACK keeps the active records, renumbered.                              *)
pack(image) == SelectSeq(image, LAMBDA record : ~record.deleted)

(***************************************************************************)
(* Row-level merge: `desired' and `current' both descend from `base'.      *)
(***************************************************************************)
MergeLayoutMatches(base, current, desired) ==
  Len(base) = Len(current) /\ Len(base) = Len(desired)

MergeConflict(base, current, desired) ==
  \E r \in DOMAIN base :
    /\ desired[r] # base[r]
    /\ current[r] # base[r]
    /\ current[r] # desired[r]

(* The writes the merge makes go through delete_record and replace_record, *)
(* which need the current record to be active.                             *)
MergeWritable(base, current, desired) ==
  \A r \in DOMAIN base :
    desired[r] # base[r] /\ current[r] # desired[r] => ~current[r].deleted

Mergeable(base, current, desired) ==
  /\ MergeLayoutMatches(base, current, desired)
  /\ ~MergeConflict(base, current, desired)
  /\ MergeWritable(base, current, desired)

(* Mutant: the merge saves the whole desired table.                        *)
merge_overwrites(base, current, desired) == desired

merge_disjoint_rows(base, current, desired) ==
  [r \in DOMAIN current |->
     IF desired[r] # base[r] THEN desired[r] ELSE current[r]]

(***************************************************************************)
(* Change data capture.  A record state is optional: <<>> when the record  *)
(* does not exist on that side.                                            *)
(***************************************************************************)
StateAt(image, r) == IF r \in DOMAIN image THEN <<image[r]>> ELSE <<>>

event_for_tables(tid, before, after, reset) ==
  LET numbers == DOMAIN before \cup DOMAIN after
  IN  [tid     |-> tid,
       reset   |-> reset,
       changes |-> {[number |-> r,
                     before |-> StateAt(before, r),
                     after  |-> StateAt(after, r)] :
                      r \in {n \in numbers :
                               reset \/ StateAt(before, n) # StateAt(after, n)}}]

(***************************************************************************)
(* Row versions of an MVCC snapshot.                                       *)
(***************************************************************************)
current_rows(image, epoch) ==
  {[epoch |-> epoch, number |-> r,
    deleted |-> image[r].deleted, value |-> image[r].value] : r \in DOMAIN image}

(* Mutant: the rows of the old epoch are not marked deleted.               *)
previous_rows_unmarked(image, epoch) == current_rows(image, epoch)

previous_rows(image, epoch) ==
  {[epoch |-> epoch, number |-> r,
    deleted |-> TRUE, value |-> image[r].value] : r \in DOMAIN image}

(* The snapshot committed on top of `previous' (0- or 1-element sequence). *)
changes_for_commit(previous, image, memo, force_new_epoch) ==
  IF previous = <<>>
    THEN [dbf |-> image, memo |-> memo, epoch |-> 1,
          changes |-> current_rows(image, 1)]
    ELSE LET base  == previous[1]
             fresh == force_new_epoch \/ Len(image) < Len(base.dbf)
             epoch == IF fresh THEN base.epoch + 1 ELSE base.epoch
         IN  [dbf |-> image, memo |-> memo, epoch |-> epoch,
              changes |->
                IF fresh
                  THEN previous_rows(base.dbf, base.epoch)
                         \cup current_rows(image, epoch)
                  ELSE {c \in current_rows(image, epoch) :
                          StateAt(base.dbf, c.number) # <<image[c.number]>>}]

(* The row a reader at `tid' sees: the last change of that row identity in *)
(* the committed transactions up to tid, <<>> when there is none.          *)
row_at(changes, tid, epoch, number) ==
  LET Of(t)   == {c \in changes[t] : c.epoch = epoch /\ c.number = number}
      visible == {t \in DOMAIN changes : t <= tid /\ Of(t) # {}}
      latest  == CHOOSE t \in visible : \A u \in visible : u <= t
  IN  IF visible = {} THEN <<>> ELSE <<CHOOSE c \in Of(latest) : TRUE>>
=============================================================================
