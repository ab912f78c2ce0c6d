------------------------- MODULE CatalogConstraints -------------------------
(***************************************************************************)
(* The tables of a txBASE catalog under their schema metadata: local        *)
(* constraints, foreign keys with referential actions, deferred checks,     *)
(* and the transactions that apply mutations to private copies and publish  *)
(* them with one commit.                                                    *)
(*                                                                          *)
(* A record is a deletion mark and a value for every field.  A transaction  *)
(* of CatalogTransaction and one of POST /transaction both hold the write   *)
(* lock of the catalog from their first read to their commit, so there is   *)
(* at most one; it is the variable tx.  A statement that fails leaves an    *)
(* aborted transaction, which can only be rolled back.                      *)
(***************************************************************************)
EXTENDS Integers, FiniteSets, SequencesExt

CONSTANTS
    TableNames,     \* the tables, in the order of their names
    Schemas,        \* the schema metadata under study, per table
    Databases,      \* the images a catalog may start from
    Values,         \* the field values that are told apart
    Null,           \* the null of a field
    Failed,         \* stands for an error
    MaxRows,        \* bound on the records of a table
    MaxStatements   \* bound on the statements of all transactions

VARIABLES
    schema,         \* the schema metadata of the catalog
    db,             \* the committed tables
    tx,             \* the open transaction, or Failed when there is none
    statements      \* the statements that succeeded

vars == <<schema, db, tx, statements>>

Tables == Range(TableNames)

----------------------------------------------------------------------------
(* Schema metadata: what the loader refuses.                               *)

IsField(s, f) == f \in DOMAIN s.fields

validate_key_fields(s, key, minimum) ==
    /\ Len(key) >= minimum
    /\ IsInjective(key)
    /\ \A f \in Range(key) : IsField(s, f)

(* A set_null action needs nullable fields.                                *)
validate_action_fields(s, action, local_fields) ==
    action = "set_null" =>
        \A f \in Range(local_fields) :
            /\ ~s.fields[f].not_null
            /\ ~s.fields[f].primary
            /\ f \notin Range(s.primary)

ConstraintNames(s) ==
    [i \in 1 .. Len(s.deferrable) |-> s.deferrable[i].name]
        \o [i \in 1 .. Len(s.foreign_keys) |-> s.foreign_keys[i].name]

validate_fields(s) ==
    LET field_primary == {f \in DOMAIN s.fields : s.fields[f].primary}
        named_primary == {i \in DOMAIN s.deferrable : s.deferrable[i].kind = "primary_key"}
    IN /\ Cardinality(field_primary) <= 1
       /\ \A i \in DOMAIN s.foreign_keys :
            LET key == s.foreign_keys[i]
            IN /\ validate_key_fields(s, key.local_fields, 1)
               /\ Len(key.local_fields) = Len(key.parent_fields)
               /\ validate_action_fields(s, key.on_delete, key.local_fields)
               /\ validate_action_fields(s, key.on_update, key.local_fields)
       /\ s.primary # <<>> => field_primary = {} /\ validate_key_fields(s, s.primary, 2)
       /\ \A key \in s.unique : validate_key_fields(s, key, 2)
       /\ \A i \in DOMAIN s.deferrable :
            s.deferrable[i].kind # "check" => validate_key_fields(s, s.deferrable[i].fields, 1)
       /\ IsInjective(ConstraintNames(s))
       /\ Cardinality(named_primary)
            + (IF field_primary # {} \/ s.primary # <<>> THEN 1 ELSE 0) <= 1

(* The parent declares the fields, in some order, as a key.                *)
has_unique_key(s, fields) ==
    \/ Len(fields) = 1 /\ IsField(s, fields[1])
         /\ (s.fields[fields[1]].primary \/ s.fields[fields[1]].unique)
    \/ \E key \in {s.primary} \cup s.unique
                    \cup {s.deferrable[i].fields : i \in
                            {j \in DOMAIN s.deferrable : s.deferrable[j].kind # "check"}} :
            Len(key) = Len(fields) /\ Range(key) \subseteq Range(fields)

(* The constraints whose timing can change, with the mode they start in.   *)
deferrable_constraint_modes(s) ==
    LET local == Range(s.deferrable)
        keys == {k \in Range(s.foreign_keys) : k.deferrable}
    IN [name \in {c.name : c \in local \cup keys} |->
            \E c \in local \cup keys : c.name = name /\ c.deferred]

----------------------------------------------------------------------------
(* Local constraints.                                                      *)

tuple_values(record, fields) == [i \in DOMAIN fields |-> record.values[fields[i]]]

(* No other active record has the values of the key; a null in the key     *)
(* takes it out of the comparison.                                         *)
validate_composite_unique(fields, values, records, excluded) ==
    \/ \E f \in Range(fields) : values[f] = Null
    \/ \A n \in DOMAIN records \ excluded :
            records[n].deleted \/ \E f \in Range(fields) : records[n].values[f] # values[f]

validate_values(s, values, records, excluded, deferred) ==
    /\ \A f \in DOMAIN s.fields :
        /\ s.fields[f].not_null \/ s.fields[f].primary => values[f] # Null
        /\ s.fields[f].unique \/ s.fields[f].primary
                => validate_composite_unique(<<f>>, values, records, excluded)
    /\ \A f \in Range(s.primary) : values[f] # Null
    /\ s.primary # <<>> => validate_composite_unique(s.primary, values, records, excluded)
    /\ \A key \in s.unique : validate_composite_unique(key, values, records, excluded)
    /\ \A i \in DOMAIN s.deferrable :
        LET c == s.deferrable[i]
        IN /\ c.kind = "primary_key" => \A f \in Range(c.fields) : values[f] # Null
           /\ c.name \in deferred
                \/ IF c.kind = "check" THEN values[c.predicate.field] \in c.predicate.allowed
                   ELSE validate_composite_unique(c.fields, values, records, excluded)

(* All active records.                                                     *)
validate_schema_constraints(s, records, deferred) ==
    \A n \in DOMAIN records :
        records[n].deleted \/ validate_values(s, records[n].values, records, {n}, deferred)

----------------------------------------------------------------------------
(* Mutations of one table: the new records, or Failed.                     *)

insert_record(s, records, values, deferred) ==
    IF validate_values(s, values, records, {}, deferred)
    THEN Append(records, [deleted |-> FALSE, values |-> values])
    ELSE Failed

active_index(records, n) == n \in DOMAIN records /\ ~records[n].deleted

patch_record(s, records, n, patch, deferred) ==
    LET values == patch @@ records[n].values
    IN IF active_index(records, n) /\ validate_values(s, values, records, {n}, deferred)
       THEN [records EXCEPT ![n].values = values]
       ELSE Failed

delete_record(records, n) ==
    IF active_index(records, n) THEN [records EXCEPT ![n].deleted = TRUE] ELSE Failed

apply_operation(s, records, op, deferred) ==
    CASE op.method = "POST" -> insert_record(s, records, op.values, deferred)
      [] op.method = "PATCH" -> patch_record(s, records, op.record, op.values, deferred)
      [] op.method = "DELETE" -> delete_record(records, op.record)

----------------------------------------------------------------------------
(* Referential actions.                                                    *)

(* A table is remembered as it was only if some foreign key refers to it.  *)
snapshot_referenced_tables(names, tables) ==
    [t \in {n \in names : \E child \in Tables : \E i \in DOMAIN schema[child].foreign_keys :
                            schema[child].foreign_keys[i].parent_table = n} |-> tables[t]]

(* The keys that active records had and no longer have, with the new key   *)
(* if the record is still active.                                          *)
parent_changes(before, current, parent_fields) ==
    LET Change(n) ==
            IF active_index(current, n)
            THEN [old |-> tuple_values(before[n], parent_fields),
                  new |-> <<tuple_values(current[n], parent_fields)>>]
            ELSE [old |-> tuple_values(before[n], parent_fields), new |-> <<>>]
        changed == {n \in DOMAIN before : ~before[n].deleted /\ Change(n).new # <<Change(n).old>>}
    IN [i \in 1 .. Cardinality(changed) |-> Change(SetToSortSeq(changed, <)[i])]

(* One action on all children that hold the old key, in record order.      *)
apply_action(s, records, key, change, action, deferred) ==
    LET matching == {n \in DOMAIN records : active_index(records, n)
                        /\ tuple_values(records[n], key.local_fields) = change.old}
        Patch(rs, n, new) ==
            patch_record(s, rs, n,
                         [f \in Range(key.local_fields) |->
                            new[CHOOSE i \in DOMAIN new : key.local_fields[i] = f]], deferred)
        One(rs, n) ==
            CASE rs = Failed -> Failed
              [] action = "cascade" /\ change.new = <<>> -> delete_record(rs, n)
              [] action = "cascade" -> Patch(rs, n, change.new[1])
              [] OTHER -> Patch(rs, n, [i \in DOMAIN key.local_fields |-> Null])
    IN [changed |-> matching # {} /\ action # "no_action",
        records |-> CASE matching = {} \/ action = "no_action" -> records
                      [] action = "restrict" -> Failed
                      [] OTHER -> FoldLeft(One, records, SetToSortSeq(matching, <))]

(* Where apply_actions stands: the tables, the tables changed by actions,  *)
(* and what those were when an action first reached them.                  *)
ApplyChange(st, before, child, key, change, deferred) ==
    LET action == IF change.new = <<>> THEN key.on_delete ELSE key.on_update
        outcome == apply_action(schema[child], st.tables[child], key, change, action,
                                deferred[child])
        remembered == DOMAIN before \cup DOMAIN st.cascade_before
    IN CASE st.tables = Failed -> st
         [] outcome.records = Failed -> [st EXCEPT !.tables = Failed]
         [] ~outcome.changed -> st
         [] OTHER -> [tables |-> [st.tables EXCEPT ![child] = outcome.records],
                      cascade_before |-> st.cascade_before
                        @@ snapshot_referenced_tables({child} \ remembered, st.tables),
                      changed |-> st.changed \cup {child},
                      pass_changed |-> TRUE]

ApplyKey(st, before, child, key, deferred) ==
    LET known == before @@ st.cascade_before
    IN IF st.tables = Failed \/ key.parent_table \notin DOMAIN known THEN st
       ELSE FoldLeft(LAMBDA s, change : ApplyChange(s, before, child, key, change, deferred), st,
                     parent_changes(known[key.parent_table], st.tables[key.parent_table],
                                    key.parent_fields))

ApplyPass(st, before, deferred) ==
    FoldLeft(LAMBDA s, child :
                FoldLeft(LAMBDA r, key : ApplyKey(r, before, child, key, deferred), s,
                         schema[child].foreign_keys),
             [st EXCEPT !.pass_changed = FALSE], TableNames)

RECURSIVE ApplyPasses(_, _, _, _)
ApplyPasses(st, before, deferred, passes) ==
    IF st.tables = Failed \/ ~st.pass_changed THEN st
    ELSE IF passes = 0 THEN [st EXCEPT !.tables = Failed]
    ELSE ApplyPasses(ApplyPass(st, before, deferred), before, deferred, passes - 1)

(* Mutant: one pass, in the order of the table names.                      *)
apply_actions_once(before, tables, deferred) ==
    ApplyPass([tables |-> tables, cascade_before |-> <<>>, changed |-> {},
               pass_changed |-> FALSE], before, deferred)

(* Passes over all foreign keys until one changes nothing; the number of   *)
(* passes is bounded, and a cascade that needs more is an error.           *)
apply_actions(before, tables, deferred) ==
    LET relationship_count == FoldLeft(LAMBDA n, t : n + Len(schema[t].foreign_keys), 0, TableNames)
        total_rows == FoldLeft(LAMBDA n, t : n + Len(tables[t]), 0, TableNames)
    IN ApplyPasses([tables |-> tables, cascade_before |-> <<>>, changed |-> {},
                    pass_changed |-> TRUE],
                   before, deferred, (total_rows + 1) * Max({relationship_count, 1}))

----------------------------------------------------------------------------
(* Constraints of the catalog.                                             *)

(* Every non-null reference of an active record has an active parent.      *)
References(tables, child, key) ==
    \A n \in DOMAIN tables[child] :
        LET values == tuple_values(tables[child][n], key.local_fields)
        IN \/ tables[child][n].deleted
           \/ Null \in Range(values)
           \/ \E p \in DOMAIN tables[key.parent_table] :
                /\ active_index(tables[key.parent_table], p)
                /\ tuple_values(tables[key.parent_table][p], key.parent_fields) = values

(* Mutant: the children of a changed parent are not checked again.         *)
validate_changed_children(tables, deferred, changed) ==
    \A child \in changed :
        /\ validate_schema_constraints(schema[child], tables[child], deferred[child])
        /\ \A i \in DOMAIN schema[child].foreign_keys :
            \/ schema[child].foreign_keys[i].name \in deferred[child]
            \/ References(tables, child, schema[child].foreign_keys[i])

validate_loaded_tables_with_deferred(tables, deferred, changed) ==
    \A child \in Tables :
        /\ child \in changed =>
                validate_schema_constraints(schema[child], tables[child], deferred[child])
        /\ \A i \in DOMAIN schema[child].foreign_keys :
            LET key == schema[child].foreign_keys[i]
            IN child \in changed \/ key.parent_table \in changed =>
                /\ key.parent_table \in Tables
                /\ \A f \in Range(key.parent_fields) : IsField(schema[key.parent_table], f)
                /\ has_unique_key(schema[key.parent_table], key.parent_fields)
                /\ \/ key.deferrable /\ key.name \in deferred[child]
                   \/ References(tables, child, key)

NoneDeferred == [t \in Tables |-> {}]

validate_loaded_tables(tables) ==
    validate_loaded_tables_with_deferred(tables, NoneDeferred, Tables)

initial_deferred_constraints ==
    [t \in Tables |-> LET modes == deferrable_constraint_modes(schema[t])
                      IN {name \in DOMAIN modes : modes[name]}]

(* The named constraints of one table, or all of one or of every table.    *)
change_constraint_modes(tables, current, targets, mode) ==
    LET next == [t \in Tables |->
                    LET names == {x.name : x \in {y \in targets : y.table = t}}
                    IN IF mode = "immediate" THEN current[t] \ names ELSE current[t] \cup names]
    IN IF \/ \E x \in targets : x.name \notin DOMAIN deferrable_constraint_modes(schema[x.table])
          \/ mode = "immediate"
                /\ ~validate_loaded_tables_with_deferred(tables, next, Tables)
       THEN Failed
       ELSE next

----------------------------------------------------------------------------
(* A statement on the private tables: the new ones and the ones it changed. *)
validate_statement(st, t, deferred) ==
    LET changed == {t} \cup st.changed
    IN IF st.tables # Failed /\ validate_loaded_tables_with_deferred(st.tables, deferred, changed)
       THEN [tables |-> st.tables, changed |-> changed]
       ELSE Failed

apply_operation_to_tables(tables, op, deferred) ==
    LET t == op.table
        records == apply_operation(schema[t], tables[t], op, deferred[t])
    IN IF records = Failed THEN Failed
       ELSE validate_statement(
                apply_actions(snapshot_referenced_tables({t}, tables),
                              [tables EXCEPT ![t] = records], deferred), t, deferred)

(* What a commit publishes: the referential actions run once more, against *)
(* the tables as they were when the transaction began, and then every      *)
(* constraint is checked.                                                  *)
commit_loaded_tables_locked(t) ==
    LET Publish(st) ==
            IF st.tables = Failed \/ ~validate_loaded_tables(st.tables) THEN Failed
            ELSE [name \in Tables |-> IF name \in t.touched \cup st.changed
                                      THEN st.tables[name] ELSE t.before[name]]
    IN Publish(apply_actions(snapshot_referenced_tables(Tables, t.before), t.tables, t.deferred))

----------------------------------------------------------------------------
Init ==
    /\ schema \in {s \in Schemas : \A t \in Tables : validate_fields(s[t])}
    /\ db \in {d \in Databases : validate_loaded_tables(d)}
    /\ tx = Failed
    /\ statements = 0

Operations ==
    UNION {[method : {"POST"}, table : {t}, values : [DOMAIN schema[t].fields -> Values \cup {Null}]]
            \cup [method : {"PATCH"}, table : {t}, record : 1 .. MaxRows,
                  values : UNION {[{f} -> Values \cup {Null}] : f \in DOMAIN schema[t].fields}]
            \cup [method : {"DELETE"}, table : {t}, record : 1 .. MaxRows] : t \in Tables}

begin_serializable ==
    /\ tx = Failed
    /\ tx' = [before |-> db, tables |-> db, touched |-> {}, aborted |-> FALSE,
              deferred |-> initial_deferred_constraints, last |-> Failed]
    /\ UNCHANGED <<schema, db, statements>>

apply(op) ==
    /\ tx # Failed
    /\ ~tx.aborted
    /\ statements < MaxStatements
    /\ op.method = "POST" => Len(tx.tables[op.table]) < MaxRows
    /\ \E outcome \in {apply_operation_to_tables(tx.tables, op, tx.deferred)} :
         /\ tx' = IF outcome = Failed THEN [tx EXCEPT !.aborted = TRUE, !.last = Failed]
                  ELSE [tx EXCEPT !.tables = outcome.tables, !.touched = @ \cup outcome.changed,
                                  !.last = op]
         /\ statements' = IF outcome = Failed THEN statements ELSE statements + 1
    /\ UNCHANGED <<schema, db>>

(* The targets of a command: named constraints of one table, all of one    *)
(* table, or all of the catalog.                                           *)
AllOf(t) == {[table |-> t, name |-> name] : name \in DOMAIN deferrable_constraint_modes(schema[t])}

Targets == {{x} : x \in UNION {AllOf(t) : t \in Tables}}
             \cup {AllOf(t) : t \in Tables} \cup {UNION {AllOf(t) : t \in Tables}}

set_constraints(targets, mode) ==
    LET next == change_constraint_modes(tx.tables, tx.deferred, targets, mode)
    IN /\ tx # Failed
       /\ ~tx.aborted
       /\ tx' = IF next = Failed THEN [tx EXCEPT !.aborted = TRUE, !.last = Failed]
                ELSE [tx EXCEPT !.deferred = next, !.last = Failed]
       /\ UNCHANGED <<schema, db, statements>>

commit ==
    /\ tx # Failed
    /\ ~tx.aborted
    /\ \E published \in {IF tx.touched = {} THEN db ELSE commit_loaded_tables_locked(tx)} :
         db' = IF published = Failed THEN db ELSE published
    /\ tx' = Failed
    /\ UNCHANGED <<schema, statements>>

rollback ==
    /\ tx # Failed
    /\ tx' = Failed
    /\ UNCHANGED <<schema, db, statements>>

Next ==
    \/ begin_serializable
    \/ \E op \in Operations : apply(op)
    \/ \E targets \in Targets, mode \in {"immediate", "deferred"} : set_constraints(targets, mode)
    \/ commit
    \/ rollback

Spec == Init /\ [][Next]_vars

----------------------------------------------------------------------------
(* The tables hold records of their schema, and modes of constraints that  *)
(* can be deferred.                                                        *)
TypeOK ==
    LET IsImage(d) == \A t \in Tables : \A n \in DOMAIN d[t] :
                        /\ d[t][n].deleted \in BOOLEAN
                        /\ d[t][n].values \in [DOMAIN schema[t].fields -> Values \cup {Null}]
    IN /\ IsImage(db)
       /\ tx # Failed =>
            /\ IsImage(tx.before) /\ IsImage(tx.tables)
            /\ tx.touched \subseteq Tables
            /\ \A t \in Tables : tx.deferred[t] \subseteq DOMAIN deferrable_constraint_modes(schema[t])

Consistent(tables, deferred) ==
    \A t \in Tables :
        /\ validate_schema_constraints(schema[t], tables[t], deferred[t])
        /\ \A key \in Range(schema[t].foreign_keys) :
                key.name \in deferred[t] \/ References(tables, t, key)

(* Committed tables satisfy every local constraint and every reference,    *)
(* however their constraints were deferred (commit_loaded_tables_locked).  *)
CommittedConsistent == Consistent(db, NoneDeferred)

(* Inside a transaction the constraints that are not deferred hold after   *)
(* every statement and every change of mode, although a statement checks   *)
(* only the tables it changed (validate_statement_constraints).            *)
ImmediateHolds == tx # Failed => tx.aborted \/ Consistent(tx.tables, tx.deferred)

(* Every table a statement or one of its cascades changed is published by  *)
(* the commit (touched in apply_operation_to_tables).                      *)
TouchedIsComplete ==
    tx # Failed => \A t \in Tables : tx.tables[t] # tx.before[t] => t \in tx.touched

(* What the actions of a statement mean, from the parents to the children: *)
(* a record follows the parent its reference named before the statement.   *)
Follow(record, key, before, after) ==
    LET values == tuple_values(record, key.local_fields)
        parents == {p \in DOMAIN before : ~before[p].deleted
                        /\ tuple_values(before[p], key.parent_fields) = values}
        parent == after[CHOOSE p \in parents : TRUE]
        new == tuple_values(parent, key.parent_fields)
        action == IF parent.deleted THEN key.on_delete ELSE key.on_update
        Writing(vs) == [record EXCEPT !.values = [f \in DOMAIN record.values |->
                            IF f \in Range(key.local_fields)
                            THEN vs[CHOOSE i \in DOMAIN vs : key.local_fields[i] = f] ELSE @[f]]]
    IN CASE record.deleted \/ Null \in Range(values) \/ parents = {} -> record
         [] ~parent.deleted /\ new = values -> record
         [] action = "set_null" -> Writing([i \in DOMAIN new |-> Null])
         [] action = "cascade" /\ parent.deleted -> [record EXCEPT !.deleted = TRUE]
         [] action = "cascade" -> Writing(new)
         [] OTHER -> record

RECURSIVE Followed(_, _, _, _)
Followed(before, after, names, named) ==
    IF names = <<>> THEN after
    ELSE LET t == Head(names)
             Rows == [n \in DOMAIN before[t] |->
                        FoldLeft(LAMBDA record, key : Follow(record, key, before[key.parent_table],
                                                             after[key.parent_table]),
                                 before[t][n], schema[t].foreign_keys)]
         IN Followed(before, IF t = named THEN after ELSE [after EXCEPT ![t] = Rows],
                     Tail(names), named)

(* The passes of apply_actions, which visit the tables in name order until *)
(* nothing changes, do to every record what following its own parent does, *)
(* whatever the order of the tables (TableNames has children first).       *)
FollowsParents ==
    statements' # statements =>
        tx'.tables = Followed(tx.tables,
                              [tx.tables EXCEPT ![tx'.last.table] = tx'.tables[tx'.last.table]],
                              Reverse(TableNames), tx'.last.table)
=============================================================================
