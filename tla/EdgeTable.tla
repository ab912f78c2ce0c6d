------------------------------ MODULE EdgeTable ------------------------------
(***************************************************************************)
(* An XBF table kept in an object store: ObjectTable (edge/table.rs), its   *)
(* page layout (edge/pages.rs, edge/page_manifest.rs) and its manifest and  *)
(* pending-commit objects (edge/protocol.rs).                               *)
(*                                                                         *)
(* A snapshot is a sequence of two pages: the first holds the XBF header    *)
(* with the generation, the second the records.  CRC-32C is taken to tell   *)
(* apart the pages of the instance, so a page reference carries the bytes.  *)
(* Every store operation that writes is one step.  Reads of objects that    *)
(* are immutable once published are grouped: a list with the gets of its    *)
(* keys, a root with its pages.                                             *)
(*                                                                         *)
(* A request may fail before it takes effect (a crash of the process, an    *)
(* unavailable store, a cancelled operation), after it took effect (the     *)
(* reply is lost or the future is dropped), or be given up by the client    *)
(* and take effect later (a timed-out HTTP request).                        *)
(***************************************************************************)
EXTENDS Integers, Sequences, SequencesExt, FiniteSetsExt

CONSTANTS
    Procs,          \* processes or tasks that share the store
    Work,           \* the operations each process may run
    MaxGeneration,  \* bound on XBF generations
    Bodies,         \* record contents of a snapshot
    MaxOps,         \* bound on operations started
    MaxFaults,      \* bound on failed requests
    MaxLate,        \* bound on failed requests that are still on their way
    AloneOps,       \* operations run only while no other one is running
    None, Missing, Invalid

VARIABLES
    store,      \* the objects: manifest, wal, page-manifest roots, legacy snapshots, pages
    run,        \* per process: the operation, where it is, its locals, its result
    late,       \* requests given up by their client and not executed yet
    ops,        \* operations started
    faults,     \* requests that failed
    published,  \* history variable: the snapshot each generation was published with
    acked       \* history variable: the newest generation a commit reported

vars == <<store, run, late, ops, faults, published, acked>>

Generations == 1..MaxGeneration
PageIndexes == 1..2
Blank == [op |-> None, at |-> "idle", seen |-> None, todo |-> <<>>, plan |-> None,
          keep |-> None, result |-> None, value |-> None, floor |-> 0]

(***************************************************************************)
(* Requests, and what the store does with them.                             *)
(***************************************************************************)
Put(on, key, value) == [do |-> "put", on |-> on, key |-> key, value |-> value]
Cas(expected, value, plan) ==
    [do |-> "cas", expected |-> expected, value |-> value, plan |-> plan]
Delete(on, key) == [do |-> "delete", on |-> on, key |-> key]

put_if_absent(s, q) ==
    IF s[q.on][q.key] = None THEN [s EXCEPT ![q.on][q.key] = q.value] ELSE s

compare_and_swap(s, q) ==
    IF s.manifest = q.expected THEN [s EXCEPT !.manifest = q.value] ELSE s

delete(s, q) == [s EXCEPT ![q.on][q.key] = None]

Executed(s, q) ==
    CASE q.do = "put" -> put_if_absent(s, q)
      [] q.do = "cas" -> compare_and_swap(s, q)
      [] q.do = "delete" -> delete(s, q)

Succeeds(s, q) ==
    CASE q.do = "put" -> s[q.on][q.key] = None
      [] q.do = "cas" -> s.manifest = q.expected
      [] q.do = "delete" -> TRUE

(***************************************************************************)
(* XBF snapshots and their pages.                                           *)
(***************************************************************************)
encode(t) == <<[generation |-> t.generation], t.body>>

validate_page_manifest(m, g) ==
    m.generation = g /\ \A i \in DOMAIN m.pages : m.pages[i].generation <= g

page_keys(m) == {<<m.pages[i].generation, i>> : i \in DOMAIN m.pages}

read_page(s, m, i) ==
    LET bytes == s.pages[<<m.pages[i].generation, i>>]
    IN  IF bytes = None THEN Missing
        ELSE IF bytes # m.pages[i].crc THEN Invalid ELSE bytes

read_snapshot_bytes(s, root, g) ==
    IF root = "xbf" THEN IF s.legacy[g] = None THEN Missing ELSE s.legacy[g]
    ELSE LET m == s.roots[g]
             bad == {i \in DOMAIN m.pages : read_page(s, m, i) \in {Missing, Invalid}}
         IN  IF m = None THEN Missing
             ELSE IF ~validate_page_manifest(m, g) THEN Invalid
             ELSE IF bad # {} THEN read_page(s, m, Min(bad))
             ELSE [i \in DOMAIN m.pages |-> read_page(s, m, i)]

read_snapshot(s, root, g) ==
    LET bytes == read_snapshot_bytes(s, root, g)
    IN  IF bytes \in {Missing, Invalid} THEN bytes
        ELSE IF bytes[1].generation # g THEN Invalid ELSE bytes

\* Mutant: a page of the same length is reused without comparing its bytes.
make_manifest_by_length(s, g, current, snapshot) ==
    LET previous == IF current = None THEN None
                    ELSE IF current.root = "xbf" THEN None ELSE s.roots[current.generation]
    IN  IF current # None /\ current.root = "pages" /\ previous = None THEN Missing
        ELSE [generation |-> g,
              pages |-> [i \in DOMAIN snapshot |->
                  [generation |-> IF previous # None THEN previous.pages[i].generation ELSE g,
                   crc |-> snapshot[i]]]]

\* Pages equal to the page at the same index of the current root keep its reference.
make_manifest(s, g, current, snapshot) ==
    LET previous == IF current = None THEN None
                    ELSE IF current.root = "xbf" THEN None ELSE s.roots[current.generation]
        reusable(i) == previous # None /\ i \in DOMAIN previous.pages
        old(i) == s.pages[<<previous.pages[i].generation, i>>]
        from(i) == IF reusable(i) /\ old(i) = snapshot[i]
                   THEN previous.pages[i].generation ELSE g
    IN  IF current # None /\ current.root = "pages" /\ previous = None THEN Missing
        ELSE IF \E i \in DOMAIN snapshot : reusable(i) /\ old(i) = None THEN Missing
        ELSE [generation |-> g,
              pages |-> [i \in DOMAIN snapshot |->
                            [generation |-> from(i), crc |-> snapshot[i]]]]

\* The puts of the pages a plan does not reuse, in index order, then of its root.
publish_pages(m, snapshot) ==
    LET own == SelectSeq([i \in DOMAIN snapshot |-> i],
                         LAMBDA i : m.pages[i].generation = m.generation)
    IN  [n \in DOMAIN own |->
            Put("pages", <<m.generation, own[n]>>, snapshot[own[n]])]
        \o <<Put("roots", m.generation, m)>>

(***************************************************************************)
(* The top-level manifest and pending commits.                              *)
(***************************************************************************)
manifest_history(m) == IF m.history = <<>> THEN <<m.generation>> ELSE m.history

history_with_generation(current, g) ==
    Append(IF current = None THEN <<>> ELSE manifest_history(current), g)

NextManifest(current, g, root) ==
    [generation |-> g, root |-> root, history |-> history_with_generation(current, g)]

GenerationOf(m) == IF m = None THEN None ELSE m.generation
RootOf(pending) == IF pending.plan = None THEN "xbf" ELSE "pages"
Pendings(s) == {g \in Generations : s.wal[g] # None}

read_pending_snapshot(s, pending) ==
    IF pending.plan # None /\ s.roots[pending.target] = None THEN None
    ELSE IF pending.plan # None /\ s.roots[pending.target] # pending.plan THEN Invalid
    ELSE LET r == read_snapshot(s, RootOf(pending), pending.target)
         IN  IF r = Missing THEN None ELSE r

snapshot_root_for_generation(s, g) ==
    LET paged == s.roots[g] # None
        whole == s.legacy[g] # None
    IN  IF paged /\ whole THEN Invalid
        ELSE IF paged THEN "pages" ELSE IF whole THEN "xbf" ELSE None

\* The snapshot a pending commit publishes.
Content(s, pending) ==
    IF pending.plan = None THEN s.legacy[pending.target]
    ELSE [i \in DOMAIN pending.plan.pages |-> pending.plan.pages[i].crc]

(***************************************************************************)
(* Operations.                                                              *)
(***************************************************************************)
End(p, result) ==
    run' = [run EXCEPT ![p] = [Blank EXCEPT !.op = run[p].op, !.result = result,
                                            !.floor = run[p].floor]]
Return(p, r) ==
    CASE r = Missing -> End(p, "Missing")
      [] r = Invalid -> End(p, "Invalid")
      [] OTHER -> run' = [run EXCEPT ![p] = [Blank EXCEPT !.op = run[p].op, !.result = "Ok",
                                                 !.value = r, !.floor = run[p].floor]]
Goto(p, at) == run' = [run EXCEPT ![p].at = at]
At(p, at) == run[p].at = at
Reads == UNCHANGED <<store, late, ops, faults, published, acked>>
Body(p) == encode(run[p].op)

Start(p) ==
    /\ At(p, "idle")
    /\ ops < MaxOps
    /\ \A o \in Procs : run[o].at # "idle" => run[o].op.name \notin AloneOps
    /\ \E o \in Work[p] :
          /\ o.name \in AloneOps => \A x \in Procs : run[x].at = "idle"
          /\ run' = [run EXCEPT ![p] =
                [Blank EXCEPT !.op = o, !.floor = acked,
                              !.at = IF o.name = "cleanup" THEN "cleanup" ELSE "recover"]]
    /\ ops' = ops + 1
    /\ UNCHANGED <<store, late, faults, published, acked>>

(***************************************************************************)
(* recover: collect the complete pending commits, then publish or drop each *)
(* in generation order.                                                     *)
(***************************************************************************)
recover_list(p) ==
    LET found == Pendings(store)
        read(g) == read_pending_snapshot(store, store.wal[g])
        complete == {g \in found : read(g) # None}
    IN  /\ At(p, "recover")
        /\ IF \E g \in found : read(g) = Invalid
           THEN End(p, "Invalid")
           ELSE run' = [run EXCEPT ![p].at = "recover_next",
                                   ![p].todo = [n \in DOMAIN SetToSortSeq(complete, <) |->
                                       store.wal[SetToSortSeq(complete, <)[n]]]]
        /\ Reads

recover_next(p) ==
    LET pending == Head(run[p].todo)
        current == store.manifest
        gone == /\ current # None
                /\ \/ current.generation = pending.target /\ current.root = RootOf(pending)
                   \/ pending.base = None
                   \/ pending.base # None /\ current.generation > pending.base
    IN  /\ At(p, "recover_next")
        /\ CASE run[p].todo = <<>> /\ run[p].op.name = "recover" -> End(p, "Ok")
             [] run[p].todo = <<>> /\ run[p].op.name # "recover" -> Goto(p, run[p].op.name)
             [] run[p].todo # <<>> /\ gone -> Goto(p, "recover_drop")
             [] run[p].todo # <<>> /\ ~gone /\ GenerationOf(current) # pending.base ->
                   End(p, "Stuck")
             [] OTHER -> run' = [run EXCEPT ![p].at = "recover_cas", ![p].seen = current]
        /\ Reads

(***************************************************************************)
(* read, read_at, read_page_at                                              *)
(***************************************************************************)
read(p) ==
    /\ At(p, "read")
    /\ IF store.manifest = None THEN Return(p, None)
       ELSE run' = [run EXCEPT ![p].at = "load", ![p].seen = store.manifest]
    /\ Reads

load(p) ==
    /\ At(p, "load")
    /\ Return(p, read_snapshot(store, run[p].seen.root, run[p].seen.generation))
    /\ Reads

Retained(g) ==
    store.manifest # None /\ g \in Range(manifest_history(store.manifest))

read_at(p) ==
    /\ At(p, "read_at")
    /\ IF Retained(run[p].op.generation) THEN Goto(p, "load_at") ELSE Return(p, None)
    /\ Reads

load_at(p) ==
    LET g == run[p].op.generation
        root == snapshot_root_for_generation(store, g)
    IN  /\ At(p, "load_at")
        /\ Return(p, IF root \in {None, Invalid} THEN root ELSE read_snapshot(store, root, g))
        /\ Reads

page_manifest_at(p) ==
    /\ At(p, "read_page_at")
    /\ IF Retained(run[p].op.generation) THEN Goto(p, "load_page") ELSE Return(p, None)
    /\ Reads

read_page_at(p) ==
    LET g == run[p].op.generation
        root == snapshot_root_for_generation(store, g)
    IN  /\ At(p, "load_page")
        /\ Return(p, CASE root = Invalid -> Invalid
                      [] root \in {None, "xbf"} -> None
                      [] OTHER -> read_page(store, store.roots[g], run[p].op.index))
        /\ Reads

(***************************************************************************)
(* commit                                                                   *)
(***************************************************************************)
Acknowledge(p) == acked' = Max({acked, run[p].op.generation})

commit_check(p) ==
    LET t == run[p].op
        current == store.manifest
    IN  /\ At(p, "commit")
        /\ IF current = None \/ (current # None /\ t.generation > GenerationOf(current))
           THEN run' = [run EXCEPT ![p].at = "reject", ![p].seen = current]
           ELSE IF t.generation < current.generation
           THEN End(p, "Older")
           ELSE run' = [run EXCEPT ![p].at = "compare", ![p].seen = current]
        /\ Reads

\* Mutant: an equal generation is taken for a retry.
commit_compare_generation(p) ==
    /\ At(p, "compare")
    /\ End(p, "AlreadyCommitted")
    /\ Acknowledge(p)
    /\ UNCHANGED <<store, late, ops, faults, published>>

commit_compare(p) ==
    LET stored == read_snapshot_bytes(store, run[p].seen.root, run[p].seen.generation)
    IN  /\ At(p, "compare")
        /\ CASE stored \in {Missing, Invalid} -> Return(p, stored) /\ UNCHANGED acked
             [] stored = Body(p) -> End(p, "AlreadyCommitted") /\ Acknowledge(p)
             [] OTHER -> End(p, "Conflict") /\ UNCHANGED acked
        /\ UNCHANGED <<store, late, ops, faults, published>>

reject_incompatible_pending(p) ==
    /\ At(p, "reject")
    /\ IF \E g \in Pendings(store) :
              /\ store.wal[g].base = GenerationOf(run[p].seen)
              /\ g # run[p].op.generation
       THEN End(p, "Conflict")
       ELSE Goto(p, "plan")
    /\ Reads

commit_plan(p) ==
    LET g == run[p].op.generation
        m == make_manifest(store, g, run[p].seen, Body(p))
        pending == [base |-> GenerationOf(run[p].seen), target |-> g, plan |-> m]
    IN  /\ At(p, "plan")
        /\ IF m = Missing THEN End(p, "Missing")
           ELSE run' = [run EXCEPT ![p].at = "publish", ![p].plan = pending,
                   ![p].todo = <<Put("wal", g, pending)>> \o publish_pages(m, Body(p))]
        /\ Reads

\* put_if_absent_or_matching after a conflict: the stored bytes decide.
commit_matching(p) ==
    LET q == Head(run[p].todo)
    IN  /\ At(p, "match")
        /\ IF store[q.on][q.key] = q.value
           THEN run' = [run EXCEPT ![p].todo = Tail(@),
                   ![p].at = IF Len(run[p].todo) = 1 THEN "cas" ELSE "publish"]
           ELSE IF q.on = "wal" THEN End(p, "Conflict") ELSE Goto(p, "abandon")
        /\ Reads

(***************************************************************************)
(* retain_generations and cleanup_orphans                                   *)
(***************************************************************************)
Newest(h, n) == SubSeq(h, Max({1, Len(h) - n + 1}), Len(h))

retain_generations(p) ==
    /\ At(p, "retain")
    /\ IF store.manifest = None THEN End(p, "Ok")
       ELSE run' = [run EXCEPT ![p].at = "retain_cas", ![p].seen = store.manifest]
    /\ Reads

\* The roots and pages the manifest read now keeps alive.
cleanup_manifest(p) ==
    LET current == store.manifest
        root(g) == IF g = current.generation THEN current.root
                   ELSE snapshot_root_for_generation(store, g)
        kept == IF current = None THEN {}
                ELSE {g \in Range(manifest_history(current)) : root(g) # None}
        paged == {g \in kept : root(g) = "pages"}
    IN  /\ At(p, "cleanup")
        /\ IF \E g \in kept : root(g) = Invalid THEN End(p, "Invalid")
           ELSE IF \E g \in paged : store.roots[g] = None THEN End(p, "Missing")
           ELSE run' = [run EXCEPT ![p].at = "cleanup_wal", ![p].seen = current,
                   ![p].keep = [roots |-> {<<root(g), g>> : g \in kept},
                                pages |-> UNION {page_keys(store.roots[g]) : g \in paged}]]
        /\ Reads

\* Mutant: the planned pages of a kept pending commit are not kept.
cleanup_wal_without_pages(p) ==
    LET kept == {g \in Pendings(store) : store.wal[g].base = GenerationOf(run[p].seen)}
    IN  /\ At(p, "cleanup_wal")
        /\ run' = [run EXCEPT ![p].at = "delete_wal",
              ![p].todo = [n \in DOMAIN SetToSeq(Pendings(store) \ kept) |->
                              Delete("wal", SetToSeq(Pendings(store) \ kept)[n])],
              ![p].keep.roots = @ \cup {<<RootOf(store.wal[g]), g>> : g \in kept}]
        /\ Reads

\* Pending commits that follow the manifest read before are kept, the others deleted.
cleanup_wal(p) ==
    LET kept == {g \in Pendings(store) : store.wal[g].base = GenerationOf(run[p].seen)}
        planned == {g \in kept : store.wal[g].plan # None}
    IN  /\ At(p, "cleanup_wal")
        /\ run' = [run EXCEPT ![p].at = "delete_wal",
              ![p].todo = [n \in DOMAIN SetToSeq(Pendings(store) \ kept) |->
                              Delete("wal", SetToSeq(Pendings(store) \ kept)[n])],
              ![p].keep.roots = @ \cup {<<RootOf(store.wal[g]), g>> : g \in kept},
              ![p].keep.pages = @ \cup UNION {page_keys(store.wal[g].plan) : g \in planned}]
        /\ Reads

cleanup_snapshots(p) ==
    LET paged == {g \in Generations : store.roots[g] # None /\ <<"pages", g>> \notin run[p].keep.roots}
        whole == {g \in Generations : store.legacy[g] # None /\ <<"xbf", g>> \notin run[p].keep.roots}
    IN  /\ At(p, "delete_wal")
        /\ run[p].todo = <<>>
        /\ run' = [run EXCEPT ![p].at = "delete_snapshots",
              ![p].todo = [n \in DOMAIN SetToSeq(paged) |-> Delete("roots", SetToSeq(paged)[n])]
                          \o [n \in DOMAIN SetToSeq(whole) |-> Delete("legacy", SetToSeq(whole)[n])]]
        /\ Reads

cleanup_pages(p) ==
    LET orphans == SetToSeq({k \in DOMAIN store.pages : store.pages[k] # None /\ k \notin run[p].keep.pages})
    IN  /\ At(p, "delete_snapshots")
        /\ run[p].todo = <<>>
        /\ run' = [run EXCEPT ![p].at = "delete_pages",
              ![p].todo = [n \in DOMAIN orphans |-> Delete("pages", orphans[n])]]
        /\ Reads

cleanup_done(p) ==
    /\ At(p, "delete_pages")
    /\ run[p].todo = <<>>
    /\ End(p, "Ok")
    /\ Reads

(***************************************************************************)
(* The write a process is about to issue, and what it does with the answer. *)
(***************************************************************************)
Deleting == {"delete_wal", "delete_snapshots", "delete_pages"}

Writing(p) ==
    \/ run[p].at \in {"recover_cas", "recover_drop", "publish", "cas", "clear", "abandon", "retain_cas"}
    \/ run[p].at \in Deleting /\ run[p].todo # <<>>

recover_publish(seen, pending) ==
    Cas(seen, NextManifest(seen, pending.target, RootOf(pending)), pending)

commit_publish(seen, pending) ==
    Cas(seen, NextManifest(seen, pending.target, "pages"), pending)

retain_publish(seen, keep_last) ==
    Cas(seen, [seen EXCEPT !.history = Newest(manifest_history(seen), keep_last)], None)

Request(p) ==
    LET r == run[p]
    IN  CASE r.at = "recover_cas" -> recover_publish(r.seen, Head(r.todo))
          [] r.at = "recover_drop" -> Delete("wal", Head(r.todo).target)
          [] r.at = "cas" -> commit_publish(r.seen, r.plan)
          [] r.at \in {"clear", "abandon"} -> Delete("wal", r.op.generation)
          [] r.at = "retain_cas" -> retain_publish(r.seen, r.op.keep)
          [] OTHER -> Head(r.todo)

recover_answer(p, ok) ==
    \/ At(p, "recover_cas") /\ ok /\ Goto(p, "recover_drop")
    \/ At(p, "recover_cas") /\ ~ok /\ End(p, "Conflict")
    \/ At(p, "recover_drop") /\ run' = [run EXCEPT ![p].at = "recover_next", ![p].todo = Tail(@),
                                                   ![p].seen = None]

publish_answer(p, ok) ==
    /\ At(p, "publish")
    /\ IF ok THEN run' = [run EXCEPT ![p].todo = Tail(@),
                             ![p].at = IF Len(run[p].todo) = 1 THEN "cas" ELSE "publish"]
       ELSE Goto(p, "match")

commit_answer(p, ok) ==
    \/ At(p, "cas") /\ Goto(p, IF ok THEN "clear" ELSE "abandon")
    \/ At(p, "clear") /\ End(p, "Committed")
    \/ At(p, "abandon") /\ End(p, "Conflict")

retain_answer(p, ok) ==
    /\ At(p, "retain_cas")
    /\ IF ok THEN run' = [run EXCEPT ![p].at = "cleanup", ![p].seen = None] ELSE End(p, "Conflict")

cleanup_answer(p) ==
    run[p].at \in Deleting /\ run' = [run EXCEPT ![p].todo = Tail(@)]

\* A request takes effect; a manifest swap that publishes a generation is remembered.
Execute(q) ==
    /\ store' = Executed(store, q)
    /\ published' = IF q.do = "cas" /\ Succeeds(store, q) /\ q.plan # None
                    THEN [published EXCEPT ![q.plan.target] = Content(store, q.plan)]
                    ELSE published

Write(p) ==
    LET ok == Succeeds(store, Request(p))
    IN  /\ Writing(p)
        /\ Execute(Request(p))
        /\ \/ recover_answer(p, ok)
           \/ publish_answer(p, ok)
           \/ commit_answer(p, ok)
           \/ retain_answer(p, ok)
           \/ cleanup_answer(p)
        /\ IF At(p, "clear") THEN Acknowledge(p) ELSE UNCHANGED acked
        /\ UNCHANGED <<late, ops, faults>>

(***************************************************************************)
(* Failures.                                                                *)
(***************************************************************************)
\* The operation ends before its next request takes effect.
Fail(p) ==
    /\ ~At(p, "idle")
    /\ faults < MaxFaults
    /\ faults' = faults + 1
    /\ End(p, "Unavailable")
    /\ UNCHANGED <<store, late, ops, published, acked>>

\* The request takes effect, its answer does not arrive.
LoseAnswer(p) ==
    /\ Writing(p)
    /\ faults < MaxFaults
    /\ faults' = faults + 1
    /\ Execute(Request(p))
    /\ End(p, "Unavailable")
    /\ UNCHANGED <<late, ops, acked>>

\* The client gives the request up while it is still on its way.
GiveUp(p) ==
    /\ Writing(p)
    /\ faults < MaxFaults
    /\ faults' = faults + 1
    /\ Len(late) < MaxLate
    /\ late' = Append(late, Request(p))
    /\ End(p, "Unavailable")
    /\ UNCHANGED <<store, ops, published, acked>>

Arrive ==
    \E n \in DOMAIN late :
        /\ Execute(late[n])
        /\ late' = RemoveAt(late, n)
        /\ UNCHANGED <<run, ops, faults, acked>>

(***************************************************************************)
(* Specification.                                                           *)
(***************************************************************************)
NoObjects ==
    [manifest |-> None,
     wal |-> [g \in Generations |-> None],
     roots |-> [g \in Generations |-> None],
     legacy |-> [g \in Generations |-> None],
     pages |-> [k \in Generations \X PageIndexes |-> None]]

\* A store written by the version that kept whole snapshots: committed, or interrupted
\* after the snapshot and the pending commit were written.
LegacyStore(b) ==
    [NoObjects EXCEPT !.manifest = [generation |-> 1, root |-> "xbf", history |-> <<>>],
                      !.legacy[1] = encode([generation |-> 1, body |-> b])]

LegacyPending(b) ==
    [NoObjects EXCEPT !.wal[1] = [base |-> None, target |-> 1, plan |-> None],
                      !.legacy[1] = encode([generation |-> 1, body |-> b])]

InitWith(s) ==
    /\ store = s
    /\ run = [p \in Procs |-> Blank]
    /\ late = <<>>
    /\ ops = 0
    /\ faults = 0
    /\ published = [g \in Generations |->
            IF s.manifest # None /\ g = 1 THEN s.legacy[1] ELSE None]
    /\ acked = 0

Init ==
    LET b == CHOOSE b \in Bodies : TRUE
    IN  \E s \in {NoObjects, LegacyStore(b), LegacyPending(b)} : InitWith(s)

Step(p) ==
    \/ recover_list(p) \/ recover_next(p)
    \/ read(p) \/ load(p) \/ read_at(p) \/ load_at(p)
    \/ page_manifest_at(p) \/ read_page_at(p)
    \/ commit_check(p) \/ commit_compare(p) \/ reject_incompatible_pending(p)
    \/ commit_plan(p) \/ commit_matching(p)
    \/ retain_generations(p) \/ cleanup_manifest(p) \/ cleanup_wal(p)
    \/ cleanup_snapshots(p) \/ cleanup_pages(p) \/ cleanup_done(p)
    \/ Write(p)

Next ==
    \/ \E p \in Procs : Start(p) \/ Step(p) \/ Fail(p) \/ LoseAnswer(p) \/ GiveUp(p)
    \/ Arrive

Spec == Init /\ [][Next]_vars

(***************************************************************************)
(* Properties.                                                              *)
(***************************************************************************)
Snapshots == {None} \cup {encode([generation |-> g, body |-> b]) : g \in Generations, b \in Bodies}

\* The manifest, the pending commits and the process results keep their shape.
TypeOK ==
    /\ store.manifest # None =>
          /\ store.manifest.generation \in Generations
          /\ store.manifest.root \in {"pages", "xbf"}
          /\ manifest_history(store.manifest) \in Seq(Generations)
    /\ \A g \in Generations : store.wal[g] # None => store.wal[g].target = g
    /\ \A g \in Generations : published[g] \in Snapshots /\ store.legacy[g] \in Snapshots
    /\ \A p \in Procs : run[p].at = "idle" => run[p].todo = <<>>
    /\ acked \in 0..MaxGeneration /\ ops \in 0..MaxOps /\ faults \in 0..MaxFaults

\* Every generation the manifest lists can be assembled from its root and pages, and is
\* the snapshot it was published with: what commit, recover, retain_generations and
\* cleanup_orphans delete or reuse never takes a page from a retained generation.
HistoryReadable ==
    store.manifest # None =>
        \A g \in Range(manifest_history(store.manifest)) :
            LET root == IF g = store.manifest.generation THEN store.manifest.root
                        ELSE snapshot_root_for_generation(store, g)
            IN  root \in {"pages", "xbf"} /\ read_snapshot(store, root, g) = published[g]

\* A read returns nothing or one published snapshot, never pages of two: the snapshot a
\* read loads, the one read_at selects, the page read_page_at selects.
ReadsAreCommitted ==
    \A p \in Procs : run[p].result = "Ok" /\ run[p].value # None =>
        CASE run[p].op.name = "read" -> \E g \in Generations : published[g] = run[p].value
          [] run[p].op.name = "read_at" -> published[run[p].op.generation] = run[p].value
          [] run[p].op.name = "read_page_at" ->
                published[run[p].op.generation][run[p].op.index] = run[p].value

\* A commit that reports Committed or AlreadyCommitted published exactly its snapshot,
\* also when recovery by another process or a lost answer came between.
AcknowledgedIsPublished ==
    \A p \in Procs : run[p].result \in {"Committed", "AlreadyCommitted"} =>
        published[run[p].op.generation] = encode(run[p].op)

\* A read that starts after a commit was acknowledged sees that generation or a newer one.
ReadsAreFresh ==
    \A p \in Procs :
        run[p].result = "Ok" /\ run[p].op.name = "read" /\ run[p].floor > 0 =>
            run[p].value # None /\ run[p].value[1].generation >= run[p].floor

\* recover never meets a pending commit whose base is ahead of the manifest.
RecoveryFollows == \A p \in Procs : run[p].result # "Stuck"

\* Published generations are final: the manifest moves to newer generations only and a
\* generation keeps the snapshot it was published with.
FinalGenerations ==
    /\ store.manifest # None =>
          store'.manifest # None /\ store'.manifest.generation >= store.manifest.generation
    /\ \A g \in Generations : published[g] # None => published'[g] = published[g]

Complete(g) ==
    /\ store.wal[g] # None
    /\ store.wal[g].base = GenerationOf(store.manifest)
    /\ read_pending_snapshot(store, store.wal[g]) \notin {None, Invalid}

\* A complete pending commit on the current base stays until the manifest moves on:
\* cleanup_orphans keeps its root and planned pages.
KeepsPending ==
    \A g \in Generations : Complete(g) => Complete(g)' \/ store'.manifest # store.manifest

Reachable ==
    LET m == store.manifest
        kept == IF m = None THEN {} ELSE Range(manifest_history(m))
        pending == {g \in Pendings(store) : store.wal[g].base = GenerationOf(m)}
    IN  [roots |-> kept \cup pending,
         pages |-> UNION {page_keys(store.roots[g]) : g \in {x \in kept : store.roots[x] # None}}
                   \cup UNION {page_keys(store.wal[g].plan) :
                                 g \in {x \in pending : store.wal[x].plan # None}},
         wal |-> pending]

\* A cleanup that ran alone leaves nothing behind that the manifest or a pending commit on
\* the current base does not reach.
CleanupIsComplete ==
    \A p \in Procs : (At(p, "delete_pages") /\ run[p].todo = <<>>) =>
        /\ Pendings(store) = Reachable.wal
        /\ \A g \in Generations :
              store.roots[g] # None \/ store.legacy[g] # None => g \in Reachable.roots
        /\ \A k \in DOMAIN store.pages : store.pages[k] # None => k \in Reachable.pages
=============================================================================
