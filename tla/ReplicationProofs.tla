------------------------- MODULE ReplicationProofs -------------------------
(* The theorems about Replication: the inductive invariant, and what follows  *)
(* from it for every set of followers and operations, any number of           *)
(* transactions and every order of deliveries, crashes and compactions.       *)
EXTENDS ReplicationSteps, FiniteSetTheorems

(* The tag of a catalog has its type. *)
LEMMA TagTyped ==
    ASSUME NEW c \in Seq(Ops)
    PROVE  schema_representation(c) \in Tags
<1>1. Len(c) \in Nat /\ {i \in DOMAIN c : c[i] \in Inserts} \subseteq 1 .. Len(c)
  OBVIOUS
<1>2. IsFiniteSet(1 .. Len(c))
  BY <1>1, FS_Interval
<1>3. Cardinality({i \in DOMAIN c : c[i] \in Inserts}) \in Nat
  BY <1>1, <1>2, FS_Subset, FS_CardinalityType, Zenon
<1>4. QED
  BY <1>1, <1>3, Zenon DEF schema_representation, Tags

(* The authority prepares the commit of a new entry. *)
LEMMA ProposeKeeps ==
    ASSUME ReplicationInv, NEW o \in Ops, propose(o)
    PROVE  ReplicationInv'
<1> DEFINE p == Server(Authority)
           e == new_entry(log[p], Authority, o)
<1>1. p \in Procs /\ p.dir = Authority /\ p.kind = "server" /\ Authority \in Dirs
  BY NamedProcs, Zenon
<1>2. log[p] # None /\ apply_new(p, e)
  BY Zenon DEF propose
<1>3. log[p] \in Logs /\ catalog[Authority] \in Seq(Ops)
  BY <1>1, <1>2, Zenon DEF ReplicationInv, TypeOK
<1>4. log[p].term \in Terms /\ last_index(log[p]) + 1 \in Nat /\ last_transaction_id(log[p]) + 1 \in Nat
  <2>1. log[p].term \in Terms /\ last_index(log[p]) \in Nat /\ last_transaction_id(log[p]) \in Nat
    BY <1>3, LogFacts, Zenon
  <2> HIDE DEF p
  <2>2. QED
    BY <2>1
<1>5. schema_representation(catalog[Authority]) \in Tags
  BY <1>3, TagTyped, Zenon
<1>6. e \in Entries /\ e.term = log[p].term
  BY <1>4, <1>5, Zenon DEF new_entry, Entries
<1>7. QED
  BY <1>1, <1>2, <1>6, ApplyKeeps, Zenon

(* A follower reads the status of the authority and decides how to catch up. *)
LEMMA StatusKeeps ==
    ASSUME ReplicationInv, NEW f \in Followers, status(f)
    PROVE  ReplicationInv'
<1> DEFINE l == log[Server(Authority)]
           s == [step |-> "check", term |-> l.term, base_index |-> l.base_index,
                 target |-> last_index(l),
                 schema_tag |-> schema_representation(catalog[Authority])]
<1>1. /\ session[f].step = "status" /\ pending[Command(f)] = None /\ l # None
      /\ session' = [session EXCEPT ![f] = s]
      /\ UNCHANGED <<catalog, versions, txrp, txrg, log, pending, sent>>
  BY Zenon DEF status, At, Answers, Goes
<1>2. log[Command(f)] # None
  BY <1>1, SessionFacts, Zenon
<1>3. l \in Logs /\ catalog[Authority] \in Seq(Ops)
  <2>1. Server(Authority) \in Procs /\ Authority \in Dirs
    BY NamedProcs, Zenon
  <2>2. log \in [Procs -> Logs \cup {None}] /\ catalog \in [Dirs -> Seq(Ops)]
    BY Zenon DEF ReplicationInv, TypeOK
  <2>3. l # None
    BY Zenon DEF status, Answers
  <2>4. QED
    BY <2>1, <2>2, <2>3, Zenon
<1>4. schema_representation(catalog[Authority]) \in Tags
  BY <1>3, TagTyped, Zenon
<1>5. s \in Checks
  <2>1. l.term \in Terms /\ l.base_index \in Nat /\ last_index(l) \in Nat
    BY <1>3, LogFacts, Zenon
  <2>2. QED
    BY <1>4, <2>1, Zenon DEF Checks
<1>8. s.step = "check"
  BY Zenon
<1> HIDE DEF s
<1>6. s \in Sessions /\ s \notin Pulls /\ s \notin Acknowledgements
  BY <1>5, <1>8 DEF Sessions, Pulls, Acknowledgements
<1>7. QED
  BY <1>1, <1>2, <1>6, SessionKeeps, Zenon

(* A catch-up command ends. *)
LEMMA CaughtUpKeeps ==
    ASSUME ReplicationInv, NEW f \in Followers, caught_up(f)
    PROVE  ReplicationInv'
<1> DEFINE l == log[Command(f)]
           g == progress_for(l, f, f)
           s == [step |-> "acknowledge", attempt |-> 1, progress |-> g]
<1>1. /\ session[f].step = "pull" /\ pending[Command(f)] = None
      /\ \/ fail(Command(f))
         \/ /\ ensure_catalog_position(l, f)
            /\ session' = [session EXCEPT ![f] = s]
            /\ UNCHANGED <<catalog, versions, txrp, txrg, log, pending, sent>>
  BY Zenon DEF caught_up, At, Goes
<1>2. /\ l # None /\ Command(f) \in Procs /\ f \in Dirs /\ l \in Logs /\ InStep(l)
  BY <1>1, SessionFacts, Zenon
<1>3. catalog[f] \in Seq(Ops)
  BY <1>2, Zenon DEF ReplicationInv, TypeOK
<1>4. schema_representation(catalog[f]) \in Tags
  BY <1>3, TagTyped, Zenon
<1>5. g \in Positions /\ g.index = last_index(l)
  BY <1>2, <1>4, LogFacts, Zenon DEF Positions, progress_for
<1> HIDE DEF g
<1>6. s \in Acknowledgements /\ s.progress = g /\ s.step = "acknowledge"
  BY <1>5 DEF Acknowledgements
<1>7. s \in Sessions /\ s \notin Pulls
  BY <1>6, Zenon DEF Sessions, Pulls
<1> HIDE DEF s
<1>8. ASSUME ensure_catalog_position(l, f)
      PROVE  last_index(l) <= transaction_id(f)
  <2>1. last_index(l) = last_transaction_id(l)
    BY <1>2, Zenon DEF InStep, last_index, last_transaction_id
  <2>2. QED
    BY <1>2, <1>8, <2>1, LogFacts DEF ensure_catalog_position
<1>9. QED
  BY <1>1, <1>2, <1>5, <1>6, <1>7, <1>8, FailKeeps, SessionKeeps, ZenonT(60)

(* Every step of a session. *)
LEMMA SessionStepKeeps ==
    ASSUME ReplicationInv, NEW f \in Followers, Session(f)
    PROVE  ReplicationInv'
BY StatusKeeps, CatchUpKeeps, InstallLocalKeeps, EntriesKeeps, ReceiveBatchKeeps, CaughtUpKeeps,
   AcknowledgeKeeps, RequestFailsKeeps, ZenonT(60) DEF Session

(* Every step keeps the invariant. *)
LEMMA NextKeeps ==
    ASSUME ReplicationInv, [Next]_vars
    PROVE  ReplicationInv'
<1>1. CASE UNCHANGED vars
  BY <1>1, StutterKeeps, Zenon DEF vars
<1>2. ASSUME NEW p \in Procs, NEW t \in Terms, open(p, t)
      PROVE  ReplicationInv'
  BY <1>2, OpenKeeps, Zenon
<1>3. ASSUME NEW p \in Procs, crash(p) \/ commit(p)
      PROVE  ReplicationInv'
  BY <1>3, CrashKeeps, CommitKeeps, Zenon
<1>4. ASSUME NEW o \in Ops, propose(o)
      PROVE  ReplicationInv'
  BY <1>4, ProposeKeeps, Zenon
<1>5. ASSUME NEW f \in Followers, NEW e \in sent, receive_entry(f, e)
      PROVE  ReplicationInv'
  BY <1>5, ReceiveEntryKeeps, Zenon
<1>6. ASSUME NEW f \in Followers, NEW i \in DOMAIN catalog[Authority],
             receive_snapshot(f, snapshot_at(i))
      PROVE  ReplicationInv'
  BY <1>6, ReceiveSnapshotKeeps, Zenon
<1>7. ASSUME NEW i \in 1 .. MaxTransactions, compact_through(i)
      PROVE  ReplicationInv'
  <2>1. i \in Nat
    OBVIOUS
  <2>2. QED
    BY <1>7, <2>1, CompactKeeps, Zenon
<1>8. ASSUME NEW d \in Dirs, NEW keep \in 1 .. MaxTransactions, gc_mvcc(d, keep)
      PROVE  ReplicationInv'
  BY <1>8, GcKeeps, Zenon
<1>9. ASSUME NEW f \in Followers, Session(f)
      PROVE  ReplicationInv'
  BY <1>9, SessionStepKeeps, Zenon
<1>10. QED
  BY <1>1, <1>2, <1>3, <1>4, <1>5, <1>6, <1>7, <1>8, <1>9, ZenonT(60) DEF Next

(* The inductive invariant holds in every reachable state: what is on disk   *)
(* and in memory at each step of a commit, a page, a snapshot or a watermark. *)
THEOREM ReplicationInvariance == Spec => []ReplicationInv
<1>1. Init => ReplicationInv
  BY InitInv, Zenon
<1>2. ReplicationInv /\ [Next]_vars => ReplicationInv'
  BY NextKeeps, Zenon
<1>3. QED
  BY <1>1, <1>2, PTL DEF Spec

(* The variables have their types in every reachable state. *)
THEOREM TypeCorrect == Spec => []TypeOK
<1>1. ReplicationInv => TypeOK
  BY Zenon DEF ReplicationInv
<1>2. QED
  BY <1>1, ReplicationInvariance, PTL

(* The catalog of a follower is always a past state of the catalog of the    *)
(* authority, whatever is delivered late, twice or out of order, whichever   *)
(* processes crash and whatever the two processes of a follower do together. *)
THEOREM FollowersArePrefixes == Spec => []FollowerIsPrefix
<1>1. ReplicationInv => FollowerIsPrefix
  BY Zenon DEF ReplicationInv
<1>2. QED
  BY <1>1, ReplicationInvariance, PTL

(* Compaction never takes away an entry a registered follower has not        *)
(* acknowledged, and a watermark never runs ahead of the follower.           *)
THEOREM RegisteredKeepEntries == Spec => []RegisteredFollowersKeepTheirEntries
<1>1. ReplicationInv => RegisteredFollowersKeepTheirEntries
  BY Zenon DEF ReplicationInv, RegistryInv, RegisteredFollowersKeepTheirEntries
<1>2. QED
  BY <1>1, ReplicationInvariance, PTL

(* The sidecar of every directory is the end of the history of its catalog:  *)
(* what a process finds when it is started after a crash fits together.      *)
THEOREM SidecarsMatch == Spec => []LogMatchesCatalog
<1>1. ASSUME ReplicationInv
      PROVE  LogMatchesCatalog
  <2> SUFFICES ASSUME NEW d \in Dirs, txrp[d] # None
               PROVE  LET l == from_sidecar_bytes(txrp[d])
                      IN /\ validate(l)
                         /\ last_transaction_id(l) = transaction_id(d)
                         /\ \A i \in DOMAIN l.entries :
                                l.entries[i].op = catalog[d][l.entries[i].transaction_id]
    BY Zenon DEF LogMatchesCatalog
  <2> DEFINE x == txrp[d]
             l == from_sidecar_bytes(x)
  <2>1. x \in Sidecars /\ DiskInv(d)
    BY <1>1, Zenon DEF ReplicationInv, TypeOK
  <2>2. /\ validate(x) /\ x.base_index = x.base_transaction_id
        /\ last_transaction_id(x) = transaction_id(d)
        /\ \A i \in 1 .. Len(x.entries) : x.entries[i].op = catalog[d][x.base_index + i]
    BY <2>1, Zenon DEF DiskInv, InStep
  <2>3. /\ l.term = x.term /\ l.base_index = x.base_index /\ l.entries = x.entries
        /\ l.base_transaction_id = x.base_transaction_id
    BY Zenon DEF from_sidecar_bytes
  <2>4. DOMAIN x.entries = 1 .. Len(x.entries)
    BY <2>1 DEF Sidecars
  <2> HIDE DEF l, x
  <2>5. validate(l) /\ last_transaction_id(l) = transaction_id(d)
    BY <2>2, <2>3, Zenon DEF validate, last_transaction_id
  <2>6. \A i \in DOMAIN l.entries : l.entries[i].op = catalog[d][l.entries[i].transaction_id]
    BY <2>2, <2>3, <2>4, ZenonT(60) DEF validate
  <2>7. QED
    BY <2>5, <2>6, Zenon DEF l, x
<1>2. QED
  BY <1>1, ReplicationInvariance, PTL

(* The first entries of a sequence. *)
LEMMA FirstOfSeq ==
    ASSUME NEW s \in Seq(Entries), NEW n \in Nat, 1 <= n, n <= Len(s)
    PROVE  /\ SubSeq(s, 1, n) \in Seq(Entries) /\ Len(SubSeq(s, 1, n)) = n
           /\ \A j \in 1 .. n : SubSeq(s, 1, n)[j] = s[j]
OBVIOUS

(* What a page holds: the entries after the index asked for, in order, and   *)
(* at least one unless there is none.                                        *)
LEMMA PageHolds ==
    ASSUME NEW es \in Seq(Entries), NEW k \in Nat, k <= Len(es), NEW n \in Nat, 1 <= n,
           NEW rest, rest = SubSeq(es, k + 1, Len(es)),
           NEW page, page = IF Len(rest) < n THEN rest ELSE SubSeq(rest, 1, n)
    PROVE  /\ page \in Seq(Entries)
           /\ Len(page) <= Len(es) - k
           /\ Len(page) = 0 => k = Len(es)
           /\ \A j \in 1 .. Len(page) : page[j] = es[k + j]
<1>1. /\ rest \in Seq(Entries) /\ Len(rest) = Len(es) - k
      /\ \A j \in 1 .. Len(rest) : rest[j] = es[k + j]
  BY RestOfSeq, Zenon
<1>2. CASE Len(rest) < n
  <2>1. page = rest
    BY <1>2, Zenon
  <2>2. Len(rest) <= Len(es) - k /\ (Len(rest) = 0 => k = Len(es))
    BY <1>1
  <2>3. QED
    BY <1>1, <2>1, <2>2, Zenon
<1>3. CASE ~(Len(rest) < n)
  <2>1. page = SubSeq(rest, 1, n) /\ n <= Len(rest) /\ 1 \in Nat /\ 1 <= 1
    BY <1>1, <1>3
  <2>2. /\ SubSeq(rest, 1, n) \in Seq(Entries) /\ Len(SubSeq(rest, 1, n)) = n
        /\ \A j \in 1 .. n : SubSeq(rest, 1, n)[j] = rest[j]
    BY <1>1, <2>1, FirstOfSeq, Zenon
  <2>3. /\ page \in Seq(Entries) /\ Len(page) = n
        /\ \A j \in 1 .. n : page[j] = rest[j]
    BY <2>1, <2>2, Zenon
  <2>4. ASSUME NEW j \in 1 .. Len(page)
        PROVE  page[j] = es[k + j]
    <3>1. j \in 1 .. Len(rest) /\ j \in 1 .. n
      BY <1>1, <2>1, <2>3
    <3>2. QED
      BY <1>1, <2>3, <3>1, ZenonT(60)
  <2>5. n <= Len(es) - k /\ (n = 0 => k = Len(es))
    BY <1>1, <2>1
  <2>6. QED
    BY <2>3, <2>4, <2>5, Zenon
<1>4. QED
  BY <1>2, <1>3, Zenon

(* The client accepts every page that is cut from a log that is in step.     *)
LEMMA BatchAccepted ==
    ASSUME NEW l \in Logs, validate(l), NEW after \in l.base_index .. last_index(l),
           NEW n \in Nat, 1 <= n
    PROVE  validate_batch(entry_batch(l, after, n))
<1> DEFINE es == l.entries
           k == after - l.base_index
           rest == SubSeq(es, k + 1, Len(es))
           page == IF Len(rest) < n THEN rest ELSE SubSeq(rest, 1, n)
           c == Len(page)
           b == entry_batch(l, after, n)
<1>1. /\ l.base_index \in Nat /\ es \in Seq(Entries) /\ Len(es) \in Nat
      /\ last_index(l) = l.base_index + Len(es) /\ DOMAIN es = 1 .. Len(es)
  <2>1. l.base_index \in Nat /\ es \in Seq(Entries)
    BY LogFacts, Zenon
  <2>2. QED
    BY <2>1 DEF last_index
<1>2. k \in Nat /\ k <= Len(es) /\ after = l.base_index + k /\ after \in Nat
  BY <1>1
<1>3. /\ b.after_index = after /\ b.base_index = l.base_index /\ b.last_index = last_index(l)
      /\ b.entries = page
      /\ b.next_after = IF page # <<>> /\ after + c < last_index(l) THEN {after + c} ELSE {}
  BY Zenon DEF entry_batch
<1>31. /\ rest = SubSeq(es, k + 1, Len(es))
      /\ page = IF Len(rest) < n THEN rest ELSE SubSeq(rest, 1, n)
  OBVIOUS
<1> HIDE DEF es, k, rest, page
<1>4. /\ page \in Seq(Entries) /\ c <= Len(es) - k /\ (c = 0 => k = Len(es))
      /\ \A j \in 1 .. c : page[j] = es[k + j]
  <2>1. es \in Seq(Entries) /\ k \in Nat /\ k <= Len(es)
    BY <1>1, <1>2, Zenon
  <2>2. QED
    BY <2>1, <1>31, PageHolds, SMTT(30)
<1>5. c \in Nat /\ (page # <<>> <=> c # 0)
  BY <1>4
<1> HIDE DEF c, b
<1>6. ASSUME NEW j \in 1 .. c
      PROVE  page[j].index = after + j /\ after + j <= last_index(l) /\ j \in Nat
  <2> DEFINE B == l.base_index
             L == Len(es)
  <2>11. /\ B \in Nat /\ L \in Nat /\ last_index(l) = B + L /\ k \in Nat /\ after = B + k
        /\ c \in Nat /\ c <= L - k
    BY <1>1, <1>2, <1>4, <1>5, Zenon
  <2> HIDE DEF B, L
  <2>12. k + j \in 1 .. L /\ B + (k + j) = after + j /\ after + j <= last_index(l) /\ j \in Nat
    BY <2>11
  <2>1. k + j \in 1 .. Len(es) /\ l.base_index + (k + j) = after + j
        /\ after + j <= last_index(l) /\ j \in Nat
    BY <2>12, Zenon DEF B, L
  <2>2. es[k + j].index = l.base_index + (k + j)
    BY <1>1, <2>1, Zenon DEF validate, es
  <2>3. QED
    BY <1>4, <2>1, <2>2, Zenon
<1>7. b.next_after = {page[i].index : i \in {c} \cap {j \in 1 .. c : page[j].index < last_index(l)}}
  <2>1. CASE c # 0 /\ after + c < last_index(l)
    <3>1. c \in 1 .. c
      BY <1>5, <2>1
    <3>2. page[c].index = after + c
      BY <1>6, <3>1, Zenon
    <3>3. b.next_after = {after + c}
      BY <1>3, <1>5, <2>1, Zenon
    <3>4. {c} \cap {j \in 1 .. c : page[j].index < last_index(l)} = {c}
      BY <2>1, <3>1, <3>2, Zenon
    <3>5. QED
      BY <3>2, <3>3, <3>4, Zenon
  <2>2. CASE ~(c # 0 /\ after + c < last_index(l))
    <3>1. b.next_after = {}
      BY <1>3, <1>5, <2>2, Zenon
    <3>2. ~(c \in 1 .. c /\ page[c].index < last_index(l))
      <4>1. c \in 1 .. c => c # 0
        BY <1>5
      <4>2. QED
        BY <1>6, <2>2, <4>1, Zenon
    <3>3. {c} \cap {j \in 1 .. c : page[j].index < last_index(l)} = {}
      BY <3>2, Zenon
    <3>4. QED
      BY <3>1, <3>3, Zenon
  <2>3. QED
    BY <2>1, <2>2, Zenon
<1>8. /\ b.base_index <= b.after_index /\ b.after_index <= b.last_index
      /\ c = 0 => b.after_index = b.last_index
  <2> DEFINE B == l.base_index
             L == Len(es)
  <2>11. /\ B \in Nat /\ L \in Nat /\ last_index(l) = B + L /\ k \in Nat /\ after = B + k
        /\ k <= L /\ (c = 0 => k = L)
    BY <1>1, <1>2, <1>4, Zenon
  <2> HIDE DEF B, L
  <2>12. B <= after /\ after <= last_index(l) /\ (c = 0 => after = last_index(l))
    BY <2>11
  <2>13. QED
    BY <1>3, <2>12, Zenon DEF B
<1>9. Len(b.entries) = c
  BY <1>3, Zenon DEF c
<1>10. \A i \in 1 .. c : b.entries[i].index = b.after_index + i /\ b.entries[i].index <= b.last_index
  BY <1>3, <1>6, Zenon
<1>11. b.next_after = {b.entries[i].index : i \in {c} \cap {j \in 1 .. c :
                                                     b.entries[j].index < b.last_index}}
  BY <1>3, <1>7, ZenonT(60)
<1>12. validate_batch(b)
  BY <1>8, <1>9, <1>10, <1>11, Zenon DEF validate_batch
<1>13. QED
  BY <1>12, Zenon DEF b

(* The client accepts every page the authority can cut from its log,         *)
(* whatever was compacted before: entry_batch and the checks of              *)
(* ReplicationEntryBatch agree about every page.                             *)
THEOREM EveryPageIsAccepted == Spec => []PagesAreAccepted
<1>1. ASSUME ReplicationInv
      PROVE  PagesAreAccepted
  <2> DEFINE l == log[Server(Authority)]
  <2> SUFFICES ASSUME l # None, NEW after \in l.base_index .. last_index(l), NEW n \in 1 .. Limit
               PROVE  validate_batch(entry_batch(l, after, n))
    BY Zenon DEF PagesAreAccepted
  <2>1. Server(Authority) \in Procs
    BY NamedProcs, Zenon
  <2>2. log \in [Procs -> Logs \cup {None}] /\ MemoryInv(Server(Authority))
    BY <1>1, <2>1, Zenon DEF ReplicationInv, TypeOK
  <2>3. l \in Logs /\ validate(l)
    BY <2>1, <2>2, Zenon DEF MemoryInv, InStep
  <2>4. n \in Nat /\ 1 <= n
    BY Sets
  <2> HIDE DEF l
  <2>5. QED
    BY <2>3, <2>4, BatchAccepted, Zenon
<1>2. QED
  BY <1>1, ReplicationInvariance, PTL

=============================================================================
