----------------------- MODULE MCCatalogTransactions -----------------------
(***************************************************************************)
(* Instances of CatalogIsolation and CatalogConstraints for TLC.  A         *)
(* behaviour is about one of four scenarios: `beside' (batches and a        *)
(* reader), `crash' (batches that may stop at any step), `serial' (a batch  *)
(* that may stop and serializable transactions) and `rules' (the           *)
(* statements of one transaction under schema metadata).                    *)
(***************************************************************************)
EXTENDS Integers, FiniteSets, SequencesExt

CONSTANTS Batches, Lone, Serials, Readers, Directs, Null, Failed

VARIABLES scenario, catalog_lock, table_lock, dbf, memo, table_tid, wal, journal, state,
          history, cdc, proc, acked, commits, schema, db, tx, statements

isolation == <<catalog_lock, table_lock, dbf, memo, table_tid, wal, journal, state, history,
               cdc, proc, acked, commits>>
rules == <<schema, db, tx, statements>>
vars == <<scenario, isolation, rules>>

Names == <<"orders", "users">>

Beside == INSTANCE CatalogIsolation
            WITH TableNames <- Names, Serials <- {}, Directs <- {}, Crashing <- {}

Crash == INSTANCE CatalogIsolation
           WITH TableNames <- Names, Serials <- {}, Readers <- {}, Directs <- {},
                Crashing <- Batches

Serial == INSTANCE CatalogIsolation
            WITH TableNames <- Names, Batches <- Lone, Readers <- {}, Directs <- {},
                 Crashing <- Lone

(* Three tables, each the parent of the one before it: lines refer to       *)
(* orders, and the key of an order is the key of its customer.              *)
Chain == <<"a_lines", "b_orders", "c_customers">>

Field == [not_null |-> FALSE, primary |-> FALSE, unique |-> FALSE]

Key(name, field, parent, on_delete, on_update, deferrable, deferred) ==
    [name |-> name, local_fields |-> <<field>>, parent_table |-> parent,
     parent_fields |-> <<"key">>, on_delete |-> on_delete, on_update |-> on_update,
     deferrable |-> deferrable, deferred |-> deferred]

Schema(fields, deferrable, foreign_keys) ==
    [fields |-> fields, primary |-> <<>>, unique |-> {}, deferrable |-> deferrable,
     foreign_keys |-> foreign_keys]

Named(kind, fields, deferred) ==
    [name |-> kind, kind |-> kind, fields |-> fields, deferred |-> deferred]

Lines(action, deferred) ==
    Schema([key |-> Field], <<Named("unique", <<"key">>, TRUE)>>,
           <<Key("order", "key", "b_orders", action, action, TRUE, deferred)>>)

Orders(action) ==
    Schema([key |-> [Field EXCEPT !.primary = TRUE]], <<>>,
           <<Key("customer", "key", "c_customers", action, action, action # "cascade", FALSE)>>)

Customers(fields) == Schema([key |-> fields], <<>>, <<>>)

ChainOf(lines, orders, customers) ==
    [t \in Range(Chain) |-> CASE t = "a_lines" -> lines
                              [] t = "b_orders" -> orders
                              [] t = "c_customers" -> customers]

Primary == [Field EXCEPT !.primary = TRUE]

ChainSchemas ==
    {ChainOf(Lines(x, d), Orders("cascade"), Customers(Primary)) :
        x \in {"cascade", "set_null", "no_action", "restrict"}, d \in BOOLEAN}
      \cup {ChainOf(Lines("cascade", FALSE), Orders("no_action"), Customers(Primary))}

Row(v) == [deleted |-> FALSE, values |-> [key |-> v]]

ChainDatabases ==
    {ChainOf(<<Row(1), Row(2)>>, <<Row(2), Row(1)>>, <<Row(1), Row(2)>>),
     ChainOf(<<Row(1)>>, <<Row(1)>>, <<Row(1)>>)}

Rules == INSTANCE CatalogConstraints
           WITH TableNames <- Chain, Schemas <- ChainSchemas, Databases <- ChainDatabases,
                Values <- 1 .. 3, MaxRows <- 2, MaxStatements <- 2

NoIsolation ==
    /\ catalog_lock = Failed /\ table_lock = Failed /\ dbf = Failed /\ memo = Failed
    /\ table_tid = Failed /\ wal = Failed /\ journal = Failed /\ state = 0
    /\ history = <<>> /\ cdc = <<>> /\ proc = Failed /\ acked = {} /\ commits = <<>>

NoRules == schema = Failed /\ db = Failed /\ tx = Failed /\ statements = 0

Init ==
    \/ scenario = "beside" /\ NoRules /\ Beside!Init
    \/ scenario = "crash" /\ NoRules /\ Crash!Init
    \/ scenario = "serial" /\ NoRules /\ Serial!Init
    \/ scenario = "rules" /\ Rules!Init /\ NoIsolation

Next ==
    \/ scenario = "beside" /\ Beside!Next /\ UNCHANGED <<scenario, rules>>
    \/ scenario = "crash" /\ Crash!Next /\ UNCHANGED <<scenario, rules>>
    \/ scenario = "serial" /\ Serial!Next /\ UNCHANGED <<scenario, rules>>
    \/ scenario = "rules" /\ Rules!Next /\ UNCHANGED <<scenario, isolation>>

Spec == Init /\ [][Next]_vars

In(s, P) == scenario = s => P

----------------------------------------------------------------------------
(* A reader gets the image of one commit, the one whose transaction ID it   *)
(* carries, and whoever loads a table gets a DBF and a memo of the same     *)
(* commit, also after a batch stopped (begin_read, from_path).              *)
ReadIsOneCommit ==
    /\ In("beside", Beside!ReadIsOneCommit /\ Beside!LoadsAreWhole)
    /\ In("crash", Crash!LoadsAreWhole)
    /\ In("serial", Serial!LoadsAreWhole)

(* What is kept of the commits are the commits: the tables, once a journal  *)
(* that was left is recovered, are the ones of the last commit; every       *)
(* retained snapshot is what the tables were after its commit; the change   *)
(* events carry the tables from one commit to the next (recover_locked,     *)
(* append_snapshot, gc).  Every lock has an exclusive holder or sharers,    *)
(* and what a process remembers are images of the tables.                   *)
CommitsAreKept ==
    /\ In("beside", Beside!TypeOK /\ Beside!HistoryIsTheCommits /\ Beside!EventsReplay)
    /\ In("crash", /\ Crash!HistoryIsTheCommits /\ Crash!EventsReplay
                   /\ Crash!TablesAreTheLastCommit)
    /\ In("serial", /\ Serial!HistoryIsTheCommits /\ Serial!EventsReplay
                    /\ Serial!TablesAreTheLastCommit)

(* A batch with a precondition replaces what its client saw: nothing was    *)
(* committed in between, to the catalog or to the table it named.           *)
PreconditionHolds == [][In("beside", Beside!ReplacesWhatWasSeen)]_vars

(* Committed tables satisfy every local constraint and every reference,     *)
(* however their constraints were deferred, and inside a transaction the    *)
(* constraints that are not deferred hold after every statement and every   *)
(* change of mode, although a statement checks only the tables it changed.  *)
(* Every table a statement or one of its cascades changed is published by   *)
(* the commit (validate_statement_constraints, touched in                   *)
(* apply_operation_to_tables).  Tables hold records of their schema.        *)
ConstraintsHold ==
    In("rules", /\ Rules!TypeOK /\ Rules!CommittedConsistent /\ Rules!ImmediateHolds
                /\ Rules!TouchedIsComplete)

(* The passes of apply_actions, which visit the tables in name order until  *)
(* nothing changes, do to every record what following its own parent does,  *)
(* whatever the order of the tables (TableNames has children first).        *)
ActionsFollowParents == [][In("rules", Rules!FollowsParents)]_vars

----------------------------------------------------------------------------
Alike == Permutations(Batches)
=============================================================================
