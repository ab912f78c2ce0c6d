---------------------------- MODULE Replication ----------------------------
(***************************************************************************)
(* Fixed-term replication: the authority captures catalog commits in its   *)
(* TXRP log, followers receive entries and snapshots over HTTP or pull      *)
(* them with "replicate catch-up", and acknowledge their position, which    *)
(* the authority keeps in the TXRG sidecar and compaction respects.         *)
(* src/src/replication.rs, src/src/replication/, src/src/server/replication.rs *)
(*                                                                         *)
(* A directory holds a catalog, its retained MVCC versions and the two     *)
(* sidecars.  A process works on one directory and has a ReplicationLog in *)
(* memory: the server of the authority, the servers of the followers and   *)
(* the catch-up command of a follower, which may run beside its server.    *)
(* Every journaled commit is one step, as CatalogJournal shows.  The       *)
(* content of a catalog is the sequence of operations that made it.        *)
(***************************************************************************)
EXTENDS Naturals, Sequences, FiniteSets

CONSTANTS
    None,
    Authority,      \* the directory of the authority
    Followers,      \* the directories of the followers, which are also their names
    Serving,        \* the followers that run a server
    Crashing,       \* the kinds of processes that may crash
    Ops,            \* the operations of a proposal
    Inserts,        \* the ones that change the record count of a table
    Huge,           \* the ones whose entry is longer than a JSON document may be
    Term,           \* the term of the authority
    Terms,          \* the terms a process of a follower may be started with
    Lossy,          \* whether a request may get no answer
    Limit,          \* the entries of a page
    MaxAttempts,    \* attempts of one request of the client
    MaxTransactions \* bound on the transactions of the authority

ASSUME Sets == /\ Authority \notin Followers
               /\ Serving \subseteq Followers
               /\ Inserts \subseteq Ops
               /\ Huge \subseteq Ops
               /\ Term \in Terms
               /\ Limit \in Nat \ {0}

VARIABLES
    catalog,    \* the content of the catalog of each directory
    versions,   \* the transactions whose image the MVCC history retains
    txrp,       \* the TXRP sidecar of each directory, or None
    txrg,       \* the TXRG sidecar of each directory, or None
    log,        \* the ReplicationLog of each running process, or None
    pending,    \* the commit a process has prepared, or None
    session,    \* the catch-up session of each follower
    sent        \* every entry the authority ever made

vars == <<catalog, versions, txrp, txrg, log, pending, session, sent>>

Dirs == {Authority} \cup Followers

Procs == {[kind |-> "server", dir |-> d] : d \in {Authority} \cup Serving}
         \cup {[kind |-> "command", dir |-> f] : f \in Followers}

Server(d) == [kind |-> "server", dir |-> d]

Command(f) == [kind |-> "command", dir |-> f]

Idle == [step |-> "idle"]

(* current_transaction_id: every commit adds one, and a snapshot brings   *)
(* the transaction identifier of its image.                               *)
transaction_id(d) == Len(catalog[d])

(* The representation tag: the schema document holds the transaction      *)
(* identifier and the record counts, but no field of a record.            *)
schema_representation(c) ==
    <<Len(c), Cardinality({i \in DOMAIN c : c[i] \in Inserts})>>

last_index(l) == l.base_index + Len(l.entries)

last_transaction_id(l) == l.base_transaction_id + Len(l.entries)

with_position(term, index, id) ==
    [term |-> term, base_index |-> index, base_transaction_id |-> id,
     entries |-> <<>>, followers |-> <<>>]

(* The sidecar holds the log without the watermarks.                      *)
to_sidecar_bytes(l) ==
    [term |-> l.term, base_index |-> l.base_index,
     base_transaction_id |-> l.base_transaction_id, entries |-> l.entries]

from_sidecar_bytes(s) ==
    [term |-> s.term, base_index |-> s.base_index,
     base_transaction_id |-> s.base_transaction_id, entries |-> s.entries,
     followers |-> <<>>]

validate(l) ==
    \A i \in DOMAIN l.entries :
        /\ l.entries[i].term = l.term
        /\ l.entries[i].index = l.base_index + i
        /\ l.entries[i].transaction_id = l.base_transaction_id + i

ensure_catalog_position(l, d) == transaction_id(d) = last_transaction_id(l)

Init ==
    \E first \in {<<>>} \cup {<<o>> : o \in Ops} :
        /\ catalog \in [Dirs -> {<<>>, first}]
        /\ catalog[Authority] = first
        /\ versions = [d \in Dirs |-> DOMAIN catalog[d]]
        /\ txrp = [d \in Dirs |-> None]
        /\ txrg = [d \in Dirs |-> None]
        /\ log = [p \in Procs |-> None]
        /\ pending = [p \in Procs |-> None]
        /\ session = [f \in Followers |-> Idle]
        /\ sent = {}

----------------------------------------------------------------------------
(* Follower watermarks.                                                    *)

(* Why the authority refuses a position, or "none".                        *)
acknowledge(l, d, progress, followers) ==
    LET f == progress.follower_id
    IN CASE ~validate(l) \/ ~ensure_catalog_position(l, d) -> "catalog_state_mismatch"
         [] progress.term # l.term -> "term_mismatch"
         [] progress.schema_tag # schema_representation(catalog[d]) -> "schema_mismatch"
         [] progress.index < l.base_index -> "history_unavailable"
         [] progress.index > last_index(l) -> "progress_unavailable"
         [] progress.transaction_id
                # l.base_transaction_id + progress.index - l.base_index -> "transaction_gap"
         [] f \in DOMAIN followers /\ progress.index < followers[f].index -> "regression"
         [] OTHER -> "none"

(* The first reason for which open refuses a persisted position.           *)
validate_against(l, d, followers) ==
    LET reasons == {acknowledge(l, d, followers[f], <<>>) : f \in DOMAIN followers} \ {"none"}
    IN IF reasons = {} THEN "none" ELSE CHOOSE r \in reasons : TRUE

safe_compaction_index(l) == {l.followers[f].index : f \in DOMAIN l.followers}

progress_for(l, d, f) ==
    [follower_id |-> f, term |-> l.term, index |-> last_index(l),
     transaction_id |-> last_transaction_id(l),
     schema_tag |-> schema_representation(catalog[d])]

----------------------------------------------------------------------------
(* Opening a log.                                                          *)

(* A missing sidecar starts a log at the position of the catalog.          *)
opened(d, term) ==
    IF txrp[d] # None THEN from_sidecar_bytes(txrp[d])
    ELSE with_position(term, transaction_id(d), transaction_id(d))

open_error(d, term) ==
    LET l == opened(d, term)
    IN IF ~validate(l) THEN "invalid"
       ELSE IF l.term # term THEN "term_mismatch"
       ELSE IF ~ensure_catalog_position(l, d) THEN "catalog_state_mismatch"
       ELSE IF txrg[d] = None THEN "none"
       ELSE IF txrp[d] = None THEN "progress_without_log"
       ELSE validate_against(l, d, txrg[d])

(* A process starts with the term it is given and opens its log.           *)
open(p, term) ==
    LET d == p.dir
        error == open_error(d, term)
    IN /\ log[p] = None
       /\ d = Authority => term = Term
       /\ log' = [log EXCEPT ![p] =
                    IF error # "none" THEN None
                    ELSE IF txrg[d] = None THEN opened(d, term)
                    ELSE [opened(d, term) EXCEPT !.followers = txrg[d]]]
       /\ session' = IF p.kind = "command" /\ error = "none"
                     THEN [session EXCEPT ![d] = [step |-> "status"]]
                     ELSE session
       /\ UNCHANGED <<catalog, versions, txrp, txrg, pending, sent>>

crash(p) ==
    /\ p.kind \in Crashing
    /\ log[p] # None
    /\ log' = [log EXCEPT ![p] = None]
    /\ pending' = [pending EXCEPT ![p] = None]
    /\ session' = IF p.kind = "command" THEN [session EXCEPT ![p.dir] = Idle] ELSE session
    /\ UNCHANGED <<catalog, versions, txrp, txrg, sent>>

(* A server answers an error and goes on; the command exits.               *)
fail(p) ==
    /\ log' = IF p.kind = "command" THEN [log EXCEPT ![p] = None] ELSE log
    /\ pending' = [pending EXCEPT ![p] = None]
    /\ session' = IF p.kind = "command" THEN [session EXCEPT ![p.dir] = Idle] ELSE session
    /\ UNCHANGED <<catalog, versions, txrp, txrg, sent>>

----------------------------------------------------------------------------
(* Entries.                                                                *)

new_entry(l, d, o) ==
    [term |-> l.term, index |-> last_index(l) + 1,
     transaction_id |-> last_transaction_id(l) + 1,
     schema_tag |-> schema_representation(catalog[d]), op |-> o]

(* What the process found before its commit: the entry fits its log, its   *)
(* log fits the catalog, and the sidecar is its own or missing.            *)
applicable(l, d, e) ==
    /\ e.index = last_index(l) + 1
    /\ e.transaction_id = last_transaction_id(l) + 1
    /\ ensure_catalog_position(l, d)
    /\ e.schema_tag = schema_representation(catalog[d])
    /\ txrp[d] \in {None, to_sidecar_bytes(l)}

(* What is left of the page of a session once its first entry is received. *)
page_done(p) ==
    IF p.kind = "command" THEN [session EXCEPT ![p.dir].page = Tail(@)] ELSE session

(* The commit takes the lock of the catalog and is atomic; under the lock  *)
(* only the sidecar is compared again.                                     *)
commit_without_check(p) ==
    LET d == p.dir
        c == pending[p]
        next_log == [log[p] EXCEPT !.entries = Append(@, c.entry)]
    IN /\ catalog' = [catalog EXCEPT ![d] = Append(@, c.entry.op)]
       /\ versions' = [versions EXCEPT ![d] = @ \cup {transaction_id(d) + 1}]
       /\ txrp' = [txrp EXCEPT ![d] = to_sidecar_bytes(next_log)]
       /\ IF transaction_id(d) + 1 = c.entry.transaction_id
          THEN log' = [log EXCEPT ![p] = next_log] /\ session' = page_done(p)
          ELSE /\ log' = IF p.kind = "command" THEN [log EXCEPT ![p] = None] ELSE log
               /\ session' = IF p.kind = "command" THEN [session EXCEPT ![d] = Idle] ELSE session
       /\ pending' = [pending EXCEPT ![p] = None]
       /\ sent' = IF d = Authority THEN sent \cup {c.entry} ELSE sent
       /\ UNCHANGED txrg

commit_steps_with_sidecar(p) ==
    IF txrp[p.dir] # pending[p].before THEN fail(p) ELSE commit_without_check(p)

apply_new(p, e) ==
    IF applicable(log[p], p.dir, e)
    THEN /\ pending' = [pending EXCEPT ![p] =
                [kind |-> "entry", entry |-> e, before |-> txrp[p.dir]]]
         /\ UNCHANGED <<catalog, versions, txrp, txrg, log, session, sent>>
    ELSE fail(p)

(* A mutation of a client of the authority.                                *)
propose(o) ==
    LET p == Server(Authority)
    IN /\ log[p] # None
       /\ pending[p] = None
       /\ transaction_id(Authority) < MaxTransactions
       /\ ensure_catalog_position(log[p], Authority)
       /\ apply_new(p, new_entry(log[p], Authority, o))

(* The entry a log already holds at the index of e.                        *)
existing(l, e) == l.entries[e.index - l.base_index]

receive_outcome(l, d, e) ==
    IF e.term # l.term THEN "term_mismatch"
    ELSE IF e.index <= l.base_index THEN "history_unavailable"
    ELSE IF e.index <= last_index(l)
    THEN IF existing(l, e) = e /\ ensure_catalog_position(l, d) THEN "duplicate" ELSE "conflict"
    ELSE IF e.index # last_index(l) + 1 THEN "index_gap"
    ELSE "new"

receive(p, e) ==
    CASE receive_outcome(log[p], p.dir, e) = "new" -> apply_new(p, e)
      [] receive_outcome(log[p], p.dir, e) = "duplicate" ->
            /\ session' = page_done(p)
            /\ UNCHANGED <<catalog, versions, txrp, txrg, log, pending, sent>>
      [] OTHER -> fail(p)

(* POST /replication/entry on the server of a follower.  A delivery may be *)
(* late, repeated or out of order.                                         *)
receive_entry(f, e) ==
    /\ f \in Serving
    /\ e.op \notin Huge
    /\ log[Server(f)] # None
    /\ pending[Server(f)] = None
    /\ receive(Server(f), e)

----------------------------------------------------------------------------
(* Snapshots.                                                              *)

(* A snapshot of the authority at one of its transactions.                 *)
snapshot_at(i) ==
    [term |-> Term, last_index |-> i, last_transaction_id |-> i,
     catalog |-> SubSeq(catalog[Authority], 1, i)]

commit_snapshot_without_check(p) ==
    LET d == p.dir
        s == pending[p].snapshot
        next_log == with_position(s.term, s.last_index, s.last_transaction_id)
    IN /\ catalog' = [catalog EXCEPT ![d] = s.catalog]
       /\ versions' = [versions EXCEPT ![d] = {s.last_transaction_id}]
       /\ txrp' = [txrp EXCEPT ![d] = to_sidecar_bytes(next_log)]
       /\ txrg' = [txrg EXCEPT ![d] = None]
       /\ log' = [log EXCEPT ![p] = next_log]
       /\ pending' = [pending EXCEPT ![p] = None]
       /\ UNCHANGED <<session, sent>>

(* Under the lock of the catalog: its position and its sidecars are still  *)
(* the ones the process read.                                              *)
install_snapshot_with_sidecars(p) ==
    IF /\ transaction_id(p.dir) = pending[p].current
       /\ txrp[p.dir] = pending[p].before
       /\ txrg[p.dir] = pending[p].progress
    THEN commit_snapshot_without_check(p)
    ELSE fail(p)

(* An image at the position of the catalog must be the same image, and     *)
(* only confirms a log that already starts there.                          *)
install_duplicate(p, s, next) ==
    LET d == p.dir
        next_log == with_position(s.term, s.last_index, s.last_transaction_id)
    IN IF /\ s.last_transaction_id \in versions[d]
          /\ catalog[d] = s.catalog
          /\ txrp[d] = to_sidecar_bytes(next_log)
       THEN /\ txrg' = [txrg EXCEPT ![d] = None]
            /\ log' = [log EXCEPT ![p] = next_log]
            /\ session' = next
            /\ UNCHANGED <<catalog, versions, txrp, pending, sent>>
       ELSE fail(p)

install_newer(p, s, next) ==
    /\ pending' = [pending EXCEPT ![p] =
           [kind |-> "snapshot", snapshot |-> s, current |-> transaction_id(p.dir),
            before |-> txrp[p.dir], progress |-> txrg[p.dir]]]
    /\ session' = next
    /\ UNCHANGED <<catalog, versions, txrp, txrg, log, sent>>

install_snapshot(p, s, next) ==
    CASE s.term # log[p].term \/ transaction_id(p.dir) > s.last_transaction_id -> fail(p)
      [] transaction_id(p.dir) = s.last_transaction_id -> install_duplicate(p, s, next)
      [] OTHER -> install_newer(p, s, next)

(* POST /replication/snapshot on the server of a follower.                 *)
receive_snapshot(f, s) ==
    /\ f \in Serving
    /\ log[Server(f)] # None
    /\ pending[Server(f)] = None
    /\ install_snapshot(Server(f), s, session)

(* The commit a process has prepared.                                      *)
commit(p) ==
    /\ pending[p] # None
    /\ IF pending[p].kind = "entry" THEN commit_steps_with_sidecar(p)
       ELSE install_snapshot_with_sidecars(p)

compacted(l, i, dropped) ==
    [l EXCEPT !.base_index = i,
              !.base_transaction_id = l.base_transaction_id + i - l.base_index,
              !.entries = SubSeq(@, dropped + 1, Len(@))]

compact(i, dropped) ==
    LET p == Server(Authority)
        l == log[p]
        next_log == compacted(l, i, dropped)
    IN /\ l # None
       /\ pending[p] = None
       /\ ensure_catalog_position(l, Authority)
       /\ i \in (l.base_index + 1) .. last_index(l)
       /\ i \in versions[Authority]
       /\ txrp[Authority] = to_sidecar_bytes(l)
       /\ txrp' = [txrp EXCEPT ![Authority] = to_sidecar_bytes(next_log)]
       /\ log' = [log EXCEPT ![p] = next_log]
       /\ UNCHANGED <<catalog, versions, txrg, pending, session, sent>>

(* Mutant: the followers are not asked.                                    *)
compact_ungated(i) ==
    /\ log[Server(Authority)] # None
    /\ compact(i, i - log[Server(Authority)].base_index)

(* The authority drops its entries through index i, for which it has an    *)
(* image, unless a registered follower has not acknowledged it.            *)
compact_through(i) ==
    /\ log[Server(Authority)] # None
    /\ \A acknowledged \in safe_compaction_index(log[Server(Authority)]) : i <= acknowledged
    /\ compact(i, i - log[Server(Authority)].base_index)

(* Garbage collection of the MVCC history of a catalog.                    *)
gc_mvcc(d, keep) ==
    /\ keep \in versions[d]
    /\ versions' = [versions EXCEPT ![d] = {v \in @ : v >= keep}]
    /\ UNCHANGED <<catalog, txrp, txrg, log, pending, session, sent>>

----------------------------------------------------------------------------
(* A catch-up session of a follower.                                       *)

Goes(f, s) ==
    /\ session' = [session EXCEPT ![f] = s]
    /\ UNCHANGED <<catalog, versions, txrp, txrg, log, pending, sent>>

At(f, step) ==
    /\ session[f].step = step
    /\ pending[Command(f)] = None

Answers == log[Server(Authority)] # None /\ pending[Server(Authority)] = None

(* GET /replication/status.                                                *)
status(f) ==
    LET l == log[Server(Authority)]
    IN /\ At(f, "status")
       /\ Answers
       /\ Goes(f, [step |-> "check", term |-> l.term, base_index |-> l.base_index,
                   target |-> last_index(l),
                   schema_tag |-> schema_representation(catalog[Authority])])

(* The session compares the status with its own log and catalog.           *)
catch_up(f) ==
    LET l == log[Command(f)]
        s == session[f]
    IN /\ At(f, "check")
       /\ IF /\ s.term = l.term
             /\ s.schema_tag = schema_representation(catalog[f])
             /\ last_index(l) <= s.target
          THEN Goes(f, [step |-> "pull", target |-> s.target, base_index |-> s.base_index,
                        attempted |-> FALSE, page |-> <<>>])
          ELSE fail(Command(f))

(* Behind the retained entries: the current image of the authority.        *)
install_local_snapshot(f) ==
    LET after == last_index(log[Command(f)])
    IN /\ At(f, "pull")
       /\ session[f].page = <<>>
       /\ Answers
       /\ ~session[f].attempted
       /\ after < session[f].target
       /\ after < session[f].base_index \/ after < log[Server(Authority)].base_index
       /\ install_snapshot(Command(f), snapshot_at(transaction_id(Authority)),
                           [session EXCEPT ![f].attempted = TRUE])

(* The page after an index of at most n entries; a page also ends before   *)
(* it gets longer than a JSON document may be.                             *)
entry_batch(l, after, n) ==
    LET from == after - l.base_index
        rest == SubSeq(l.entries, from + 1, Len(l.entries))
        page == IF Len(rest) < n THEN rest ELSE SubSeq(rest, 1, n)
        last == after + Len(page)
    IN [after_index |-> after, base_index |-> l.base_index, last_index |-> last_index(l),
        entries |-> page,
        next_after |-> IF page # <<>> /\ last < last_index(l) THEN {last} ELSE {}]

(* What the client asks of a page before it uses it.                       *)
validate_batch(b) ==
    LET n == Len(b.entries)
    IN /\ b.base_index <= b.after_index /\ b.after_index <= b.last_index
       /\ n = 0 => b.after_index = b.last_index
       /\ \A i \in 1 .. n : /\ b.entries[i].index = b.after_index + i
                            /\ b.entries[i].index <= b.last_index
       /\ b.next_after = {b.entries[i].index : i \in {n} \cap {j \in 1 .. n :
                                                  b.entries[j].index < b.last_index}}

(* GET /replication/entries: a page of the entries after the log.          *)
entries(f) ==
    LET l == log[Server(Authority)]
        after == last_index(log[Command(f)])
    IN /\ At(f, "pull")
       /\ session[f].page = <<>>
       /\ Answers
       /\ after \in l.base_index .. (session[f].target - 1)
       /\ session[f].attempted \/ after >= session[f].base_index
       /\ \E n \in 1 .. Limit :
            LET b == entry_batch(l, after, n)
            IN IF b.entries[1].op \notin Huge /\ validate_batch(b)
               THEN Goes(f, [session[f] EXCEPT !.page = b.entries])
               ELSE fail(Command(f))

(* The entries of a page are received one by one.                          *)
receive_batch(f) ==
    /\ At(f, "pull")
    /\ session[f].page # <<>>
    /\ receive(Command(f), Head(session[f].page))

(* At the target: the position of the log, if it is the catalog's.         *)
caught_up(f) ==
    LET l == log[Command(f)]
    IN /\ At(f, "pull")
       /\ last_index(l) >= session[f].target
       /\ IF ensure_catalog_position(l, f)
          THEN Goes(f, [step |-> "acknowledge", attempt |-> 1, progress |-> progress_for(l, f, f)])
          ELSE fail(Command(f))

(* The session ends: the command exits.                                    *)
Ends(f) ==
    /\ session' = [session EXCEPT ![f] = Idle]
    /\ pending' = pending
    /\ UNCHANGED <<catalog, versions, txrp, sent>>

acknowledged_log(followers) ==
    [log EXCEPT ![Server(Authority)].followers = followers]

(* POST /replication/progress: the sidecar first, then the memory of the   *)
(* authority.  The answer may be lost, and the client asks again.          *)
acknowledge_follower(f) ==
    LET A == Server(Authority)
        progress == session[f].progress
        accepted == acknowledge(log[A], Authority, progress, log[A].followers) = "none"
        followers == [g \in {f} \cup DOMAIN log[A].followers |->
                        IF g = f THEN progress ELSE log[A].followers[g]]
        kept == IF accepted THEN acknowledged_log(followers) ELSE log
    IN /\ At(f, "acknowledge")
       /\ Answers
       /\ txrg' = IF accepted THEN [txrg EXCEPT ![Authority] = followers] ELSE txrg
       /\ \/ /\ log' = [kept EXCEPT ![Command(f)] = None]
             /\ Ends(f)
          \/ /\ session[f].attempt < MaxAttempts
             /\ log' = kept
             /\ session' = [session EXCEPT ![f].attempt = @ + 1]
             /\ UNCHANGED <<catalog, versions, txrp, pending, sent>>

(* A request that gets no answer, after the last attempt.                  *)
request_fails(f) ==
    /\ session[f].step # "idle"
    /\ pending[Command(f)] = None
    /\ Lossy \/ log[Server(Authority)] = None
    /\ fail(Command(f))

----------------------------------------------------------------------------
Session(f) ==
    \/ status(f)
    \/ catch_up(f)
    \/ install_local_snapshot(f)
    \/ entries(f)
    \/ receive_batch(f)
    \/ caught_up(f)
    \/ acknowledge_follower(f)
    \/ request_fails(f)

Next ==
    \/ \E p \in Procs, t \in Terms : open(p, t)
    \/ \E p \in Procs : crash(p)
    \/ \E p \in Procs : commit(p)
    \/ \E o \in Ops : propose(o)
    \/ \E f \in Followers, e \in sent : receive_entry(f, e)
    \/ \E f \in Followers, i \in DOMAIN catalog[Authority] : receive_snapshot(f, snapshot_at(i))
    \/ \E i \in 1 .. MaxTransactions : compact_through(i)
    \/ \E d \in Dirs, keep \in 1 .. MaxTransactions : gc_mvcc(d, keep)
    \/ \E f \in Followers : Session(f)

Spec == Init /\ [][Next]_vars

----------------------------------------------------------------------------
(* A past state of the catalog of the authority.                           *)
IsPast(c) ==
    /\ Len(c) <= Len(catalog[Authority])
    /\ \A i \in 1 .. Len(c) : c[i] = catalog[Authority][i]

(* What is on disk always fits together: a TXRP sidecar ends at the        *)
(* transaction of its catalog and its entries are the operations that      *)
(* made it, also when two processes of a follower commit at the same time  *)
(* (commit_steps_with_sidecar, install_snapshot_with_sidecars).            *)
LogMatchesCatalog ==
    \A d \in Dirs : txrp[d] # None =>
        LET l == from_sidecar_bytes(txrp[d])
        IN /\ validate(l)
           /\ last_transaction_id(l) = transaction_id(d)
           /\ \A i \in DOMAIN l.entries :
                  l.entries[i].op = catalog[d][l.entries[i].transaction_id]

(* Whatever is delivered late, twice or out of order, and whatever         *)
(* snapshot is installed in between, the catalog of a follower is a past   *)
(* state of the catalog of the authority (receive, install_snapshot).      *)
FollowerIsPrefix ==
    \A f \in Followers : IsPast(catalog[f])

(* A follower the authority has registered has applied what it             *)
(* acknowledged, and the entries that follow it are still in the log of    *)
(* the authority (acknowledge_follower, compact_through).                  *)
RegisteredFollowersKeepTheirEntries ==
    txrg[Authority] # None =>
        \A f \in DOMAIN txrg[Authority] :
            /\ txrg[Authority][f].index <= transaction_id(f)
            /\ txrp[Authority] # None => txrp[Authority].base_index <= txrg[Authority][f].index

(* Every page the authority cuts from its log is one the client accepts,   *)
(* whatever was compacted before (entry_batch, ReplicationEntryBatch).     *)
PagesAreAccepted ==
    LET l == log[Server(Authority)]
    IN l # None => \A after \in l.base_index .. last_index(l), n \in 1 .. Limit :
                        validate_batch(entry_batch(l, after, n))

----------------------------------------------------------------------------
(* The inductive invariant.                                                *)

Tags == Nat \X Nat

Entries == [term : Terms, index : Nat, transaction_id : Nat, schema_tag : Tags, op : Ops]

Positions == [follower_id : Followers, term : Terms, index : Nat, transaction_id : Nat,
              schema_tag : Tags]

Registries == UNION {[S -> Positions] : S \in SUBSET Followers}

Sidecars == [term : Terms, base_index : Nat, base_transaction_id : Nat, entries : Seq(Entries)]

Logs == [term : Terms, base_index : Nat, base_transaction_id : Nat, entries : Seq(Entries),
         followers : Registries]

Snapshots == [term : Terms, last_index : Nat, last_transaction_id : Nat, catalog : Seq(Ops)]

EntryCommits == [kind : {"entry"}, entry : Entries, before : Sidecars \cup {None}]

SnapshotCommits == [kind : {"snapshot"}, snapshot : Snapshots, current : Nat,
                    before : Sidecars \cup {None}, progress : Registries \cup {None}]

Checks == [step : {"check"}, term : Terms, base_index : Nat, target : Nat, schema_tag : Tags]

Pulls == [step : {"pull"}, target : Nat, base_index : Nat, attempted : BOOLEAN,
          page : Seq(Entries)]

Acknowledgements == [step : {"acknowledge"}, attempt : Nat, progress : Positions]

Sessions == {Idle, [step |-> "status"]} \cup Checks \cup Pulls \cup Acknowledgements

ASSUME NoneAssumption == /\ None \notin Sidecars \cup Logs
                         /\ \A S \in SUBSET Followers : None \notin [S -> Positions]

(* The variables have their types.                                         *)
TypeOK ==
    /\ catalog \in [Dirs -> Seq(Ops)]
    /\ versions \in [Dirs -> SUBSET Nat]
    /\ txrp \in [Dirs -> Sidecars \cup {None}]
    /\ txrg \in [Dirs -> Registries \cup {None}]
    /\ log \in [Procs -> Logs \cup {None}]
    /\ pending \in [Procs -> EntryCommits \cup SnapshotCommits \cup {None}]
    /\ session \in [Followers -> Sessions]
    /\ sent \subseteq Entries

(* The entries of a log count on from its base, in indexes and in          *)
(* transactions alike.                                                     *)
InStep(l) == validate(l) /\ l.base_index = l.base_transaction_id

(* A sidecar is the end of the history of its catalog.                     *)
DiskInv(d) ==
    txrp[d] # None =>
        LET l == txrp[d]
        IN /\ InStep(l)
           /\ last_transaction_id(l) = transaction_id(d)
           /\ \A i \in 1 .. Len(l.entries) : l.entries[i].op = catalog[d][l.base_index + i]

(* A log in memory may be older than the sidecar, but has entries only     *)
(* when there is one.                                                      *)
MemoryInv(p) ==
    log[p] # None => InStep(log[p]) /\ (txrp[p.dir] = None => log[p].entries = <<>>)

(* A prepared commit that finds the sidecar it saw also finds the catalog  *)
(* it saw.                                                                 *)
EntryInv(p) ==
    LET c == pending[p]
    IN (c # None /\ c.kind = "entry") =>
         /\ log[p] # None
         /\ c.entry.term = log[p].term
         /\ c.entry.index = last_index(log[p]) + 1
         /\ c.entry.transaction_id = last_transaction_id(log[p]) + 1
         /\ c.before \in {None, to_sidecar_bytes(log[p])}
         /\ txrp[p.dir] = c.before => transaction_id(p.dir) = last_transaction_id(log[p])
         /\ p.dir # Authority => c.entry \in sent
         /\ p.kind = "command" => session[p.dir] \in Pulls /\ session[p.dir].page # <<>>

SnapshotInv(p) ==
    LET c == pending[p]
    IN (c # None /\ c.kind = "snapshot") =>
         /\ log[p] # None
         /\ p.dir # Authority
         /\ IsPast(c.snapshot.catalog)
         /\ Len(c.snapshot.catalog) = c.snapshot.last_transaction_id
         /\ c.snapshot.last_index = c.snapshot.last_transaction_id
         /\ c.current < c.snapshot.last_transaction_id

(* What the authority made is what it holds.                               *)
SentInv ==
    /\ \A e \in sent : /\ e.index = e.transaction_id
                       /\ e.transaction_id \in 1 .. transaction_id(Authority)
                       /\ e.op = catalog[Authority][e.transaction_id]
    /\ txrp[Authority] # None => txrp[Authority].entries \in Seq(sent)
    /\ log[Server(Authority)] # None => log[Server(Authority)].entries \in Seq(sent)

SessionInv(f) ==
    /\ session[f] # Idle => log[Command(f)] # None
    /\ session[f] \in Pulls => session[f].page \in Seq(sent)
    /\ session[f] \in Acknowledgements => session[f].progress.index <= transaction_id(f)

(* The authority has in memory the watermarks and the base it has on disk, *)
(* and the base is behind all the watermarks.                              *)
RegistryInv ==
    /\ txrg[Authority] # None =>
           \A f \in DOMAIN txrg[Authority] : txrg[Authority][f].index <= transaction_id(f)
    /\ txrg[Authority] # None /\ txrp[Authority] # None =>
           \A f \in DOMAIN txrg[Authority] :
               txrp[Authority].base_index <= txrg[Authority][f].index
    /\ log[Server(Authority)] # None =>
           /\ log[Server(Authority)].followers
                  = IF txrg[Authority] = None THEN <<>> ELSE txrg[Authority]
           /\ txrp[Authority] # None =>
                  txrp[Authority].base_index = log[Server(Authority)].base_index
           /\ \A f \in DOMAIN log[Server(Authority)].followers :
                  log[Server(Authority)].base_index <= log[Server(Authority)].followers[f].index

VersionsInv == \A d \in Dirs : versions[d] \subseteq 1 .. transaction_id(d)

ReplicationInv ==
    /\ TypeOK
    /\ VersionsInv
    /\ \A d \in Dirs : DiskInv(d)
    /\ \A p \in Procs : MemoryInv(p) /\ EntryInv(p) /\ SnapshotInv(p)
    /\ SentInv
    /\ FollowerIsPrefix
    /\ \A f \in Followers : SessionInv(f)
    /\ RegistryInv

----------------------------------------------------------------------------
(* An entry the authority still has is delivered until it is applied.      *)
deliver_entry(f, i) ==
    LET l == log[Server(Authority)]
    IN /\ l # None
       /\ i \in (l.base_index + 1) .. last_index(l)
       /\ receive_entry(f, l.entries[i - l.base_index])

Behind(f) == transaction_id(f) < transaction_id(Authority)

Registered(f) == txrg[Authority] # None /\ f \in DOMAIN txrg[Authority]

(* The command has moved the catalog under the server, which answers every *)
(* delivery of an entry with an error until it is started again.           *)
OutOfTouch(f) == log[Server(f)] # None /\ ~ensure_catalog_position(log[Server(f)], f)
=============================================================================
