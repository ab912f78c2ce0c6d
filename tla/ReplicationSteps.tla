-------------------------- MODULE ReplicationSteps --------------------------
(* The inductive invariant of Replication: it holds initially, and the steps   *)
(* of a commit, of a delivery, of a catch-up session, of compaction and of a   *)
(* crash keep it, for every set of followers and operations and every order of *)
(* deliveries and crashes.                                                     *)
EXTENDS Replication, TLAPS

(* A process is the server of a directory or the catch-up command of a        *)
(* follower.                                                                  *)
LEMMA ProcFacts ==
    ASSUME NEW p \in Procs
    PROVE  /\ p.dir \in Dirs
           /\ p.kind \in {"server", "command"}
           /\ p.kind = "server" => p = Server(p.dir)
           /\ p.kind = "command" => p = Command(p.dir) /\ p.dir \in Followers
           /\ p.dir = Authority => p = Server(Authority) /\ p.kind = "server"
BY Sets DEF Procs, Dirs, Server, Command

(* The server of the authority and the commands of the followers are          *)
(* different processes.                                                       *)
LEMMA NamedProcs ==
    /\ Authority \in Dirs /\ Server(Authority) \in Procs
    /\ Server(Authority).kind = "server" /\ Server(Authority).dir = Authority
    /\ \A f \in Followers : /\ f \in Dirs /\ f # Authority
                            /\ Command(f) \in Procs /\ Command(f) # Server(Authority)
                            /\ Command(f).kind = "command" /\ Command(f).dir = f
                            /\ \A g \in Followers : Command(g) = Command(f) => g = f
    /\ \A f \in Serving : /\ Server(f) \in Procs /\ f \in Followers
                          /\ Server(f).kind = "server" /\ Server(f).dir = f
                          /\ Server(f) # Server(Authority)
BY Sets, Zenon DEF Procs, Dirs, Server, Command

(* A sequence over a set is one over any larger set. *)
LEMMA WiderSeq ==
    ASSUME NEW S, NEW T, S \subseteq T, NEW s \in Seq(S)
    PROVE  s \in Seq(T)
OBVIOUS

(* The head and the tail of a sequence. *)
LEMMA TailTyped ==
    ASSUME NEW S, NEW s \in Seq(S), s # <<>>
    PROVE  Tail(s) \in Seq(S) /\ Head(s) \in S
OBVIOUS

(* The length and the members of a part of a sequence. *)
LEMMA SubSeqTyped ==
    ASSUME NEW S, NEW s \in Seq(S), NEW i \in Nat, NEW j \in Nat, 1 <= i, j <= Len(s)
    PROVE  /\ SubSeq(s, i, j) \in Seq(S)
           /\ Len(SubSeq(s, i, j)) = IF i <= j THEN j - i + 1 ELSE 0
           /\ \A k \in 1 .. Len(SubSeq(s, i, j)) : SubSeq(s, i, j)[k] = s[i + k - 1]
OBVIOUS

(* A registry without followers. *)
LEMMA EmptyRegistry == <<>> \in Registries /\ DOMAIN <<>> = {}
<1>1. <<>> \in [{} -> Positions]
  OBVIOUS
<1>2. {} \in SUBSET Followers
  BY Zenon
<1>3. QED
  BY <1>1, <1>2, Zenon DEF Registries

(* Empty catalogs without sidecars satisfy the invariant. *)
LEMMA InitInv == Init => ReplicationInv
<1> SUFFICES ASSUME Init PROVE ReplicationInv
  BY Zenon
<1>1. PICK first \in {<<>>} \cup {<<o>> : o \in Ops} :
        /\ catalog \in [Dirs -> {<<>>, first}]
        /\ catalog[Authority] = first
  BY Zenon DEF Init
<1>2. first \in Seq(Ops) /\ <<>> \in Seq(Ops)
  <2>1. \A o \in Ops : <<o>> \in Seq(Ops)
    OBVIOUS
  <2>2. <<>> \in Seq(Ops)
    OBVIOUS
  <2>3. first = <<>> \/ \E o \in Ops : first = <<o>>
    BY Zenon
  <2>4. QED
    BY <2>1, <2>2, <2>3, Zenon
<1>3. TypeOK
  <2>1. catalog \in [Dirs -> Seq(Ops)]
    <3>1. \A d \in Dirs : catalog[d] \in Seq(Ops)
      BY <1>1, <1>2, Zenon
    <3>2. QED
      BY <3>1, <1>1, Zenon
  <2>2. versions \in [Dirs -> SUBSET Nat]
    BY <2>1 DEF Init
  <2>3. QED
    BY <2>1, <2>2, Zenon DEF Init, TypeOK, Sessions
<1>4. VersionsInv
  BY <1>3 DEF VersionsInv, Init, TypeOK, transaction_id
<1>5. \A d \in Dirs : DiskInv(d)
  BY ZenonT(60) DEF Init, DiskInv
<1>6. \A p \in Procs : MemoryInv(p) /\ EntryInv(p) /\ SnapshotInv(p)
  BY DEF Init, MemoryInv, EntryInv, SnapshotInv
<1>7. SentInv
  BY NamedProcs DEF Init, SentInv
<1>8. FollowerIsPrefix
  BY <1>1, <1>2 DEF FollowerIsPrefix, IsPast, Dirs
<1>9. \A f \in Followers : SessionInv(f)
  BY DEF Init, SessionInv, Idle, Pulls, Acknowledgements
<1>10. RegistryInv
  BY NamedProcs DEF Init, RegistryInv
<1>11. QED
  BY <1>3, <1>4, <1>5, <1>6, <1>7, <1>8, <1>9, <1>10, Zenon DEF ReplicationInv

(* A process that stops, or a server that gives up what it prepared. *)
LEMMA StopKeeps ==
    ASSUME ReplicationInv, NEW p \in Procs,
           log' = [log EXCEPT ![p] = None] \/ (p.kind = "server" /\ log' = log),
           pending' = [pending EXCEPT ![p] = None],
           session' = IF p.kind = "command" THEN [session EXCEPT ![p.dir] = Idle] ELSE session,
           UNCHANGED <<catalog, versions, txrp, txrg, sent>>
    PROVE  ReplicationInv'
<1> USE DEF ReplicationInv
<1>1. TypeOK
  BY Zenon
<1>2. /\ log' \in [Procs -> Logs \cup {None}]
      /\ \A q \in Procs : q # p => log'[q] = log[q]
      /\ log'[p] \in {log[p], None}
  BY <1>1, Zenon DEF TypeOK
<1>3. /\ pending' \in [Procs -> EntryCommits \cup SnapshotCommits \cup {None}]
      /\ \A q \in Procs : q # p => pending'[q] = pending[q]
      /\ pending'[p] = None
  BY <1>1, Zenon DEF TypeOK
<1>4. /\ session' \in [Followers -> Sessions]
      /\ \A f \in Followers : \/ session'[f] = session[f] /\ Command(f) # p
                              \/ session'[f] = Idle
                              \/ session'[f] = session[f] /\ log' = log
  BY <1>1, ProcFacts, NamedProcs DEF TypeOK, Sessions
<1>5. TypeOK'
  BY <1>1, <1>2, <1>3, <1>4, Zenon DEF TypeOK
<1>6. VersionsInv' /\ \A d \in Dirs : DiskInv(d)'
  BY Zenon DEF VersionsInv, DiskInv, transaction_id
<1>7. ASSUME NEW q \in Procs
      PROVE  MemoryInv(q)' /\ EntryInv(q)' /\ SnapshotInv(q)'
  <2>1. MemoryInv(q)'
    BY <1>2, Zenon DEF MemoryInv
  <2>2. CASE q = p
    BY <1>3, <2>1, <2>2, Zenon DEF EntryInv, SnapshotInv
  <2>3. CASE q # p
    <3>1. /\ log'[q] = log[q] /\ pending'[q] = pending[q]
          /\ q.kind = "command" => session'[q.dir] = session[q.dir]
      BY <1>1, <1>2, <1>3, <2>3, ProcFacts DEF TypeOK
    <3>2. QED
      BY <2>1, <3>1 DEF EntryInv, SnapshotInv, IsPast, transaction_id
  <2>4. QED
    BY <2>2, <2>3, Zenon
<1>8. SentInv'
  BY <1>2, NamedProcs, Zenon DEF SentInv, transaction_id
<1>9. FollowerIsPrefix'
  BY Zenon DEF FollowerIsPrefix, IsPast
<1>10. \A f \in Followers : SessionInv(f)'
  BY <1>2, <1>4, NamedProcs DEF SessionInv, transaction_id, Idle, Pulls, Acknowledgements
<1>11. RegistryInv'
  BY <1>2, NamedProcs DEF RegistryInv, transaction_id
<1>12. QED
  BY <1>5, <1>6, <1>7, <1>8, <1>9, <1>10, <1>11, Zenon

(* A failed commit leaves the disk and the memory as they were. *)
LEMMA FailKeeps ==
    ASSUME ReplicationInv, NEW p \in Procs, fail(p)
    PROVE  ReplicationInv'
<1>1. \/ log' = [log EXCEPT ![p] = None]
      \/ p.kind = "server" /\ log' = log
  BY ProcFacts, Zenon DEF fail
<1>2. QED
  BY <1>1, StopKeeps, Zenon DEF fail

(* A crash loses the memory of a process and nothing else. *)
LEMMA CrashKeeps ==
    ASSUME ReplicationInv, NEW p \in Procs, crash(p)
    PROVE  ReplicationInv'
BY StopKeeps, Zenon DEF crash

(* The log a process opens is the one of its sidecar, or an empty one at the  *)
(* position of its catalog.                                                   *)
LEMMA OpenedTyped ==
    ASSUME ReplicationInv, NEW p \in Procs, NEW t \in Terms
    PROVE  LET l == opened(p.dir, t)
           IN /\ l \in Logs /\ InStep(l) /\ l.followers = <<>>
              /\ txrp[p.dir] = None => l.entries = <<>>
              /\ txrp[p.dir] # None => /\ l.entries = txrp[p.dir].entries
                                       /\ l.base_index = txrp[p.dir].base_index
<1>1. p.dir \in Dirs
  BY ProcFacts, Zenon
<1>2. CASE txrp[p.dir] = None
  <2>1. transaction_id(p.dir) \in Nat
    BY <1>1 DEF ReplicationInv, TypeOK, transaction_id
  <2>2. <<>> \in Seq(Entries)
    OBVIOUS
  <2>3. with_position(t, transaction_id(p.dir), transaction_id(p.dir)) \in Logs
    BY <2>1, <2>2, EmptyRegistry, Zenon DEF with_position, Logs
  <2>4. QED
    BY <1>2, <2>3 DEF opened, with_position, InStep, validate
<1>3. CASE txrp[p.dir] # None
  <2>1. txrp[p.dir] \in Sidecars
    BY <1>1, <1>3, Zenon DEF ReplicationInv, TypeOK
  <2>2. from_sidecar_bytes(txrp[p.dir]) \in Logs
    BY <2>1, EmptyRegistry, Zenon DEF from_sidecar_bytes, Sidecars, Logs
  <2>3. InStep(from_sidecar_bytes(txrp[p.dir]))
    BY <1>1, <1>3, <2>1, Zenon DEF ReplicationInv, DiskInv, InStep, validate, from_sidecar_bytes
  <2>4. QED
    BY <1>3, <2>2, <2>3, Zenon DEF opened, from_sidecar_bytes
<1>4. QED
  BY <1>2, <1>3, Zenon

(* A process whose log and session are its own business: what is on disk and *)
(* what was prepared stays.                                                  *)
LEMMA OpenKeeps ==
    ASSUME ReplicationInv, NEW p \in Procs, NEW t \in Terms, open(p, t)
    PROVE  ReplicationInv'
<1> DEFINE l == IF open_error(p.dir, t) # "none" THEN None
                ELSE IF txrg[p.dir] = None THEN opened(p.dir, t)
                ELSE [opened(p.dir, t) EXCEPT !.followers = txrg[p.dir]]
<1> USE DEF ReplicationInv
<1>1. TypeOK
  BY Zenon
<1>2. log[p] = None /\ log' = [log EXCEPT ![p] = l]
  BY Zenon DEF open
<1>3. UNCHANGED <<catalog, versions, txrp, txrg, pending, sent>>
  BY Zenon DEF open
<1>4. p.dir \in Dirs
  BY ProcFacts, Zenon
<1> DEFINE ok == open_error(p.dir, t) = "none"
<1>5. ok => /\ l \in Logs /\ InStep(l)
            /\ txrp[p.dir] = None => l.entries = <<>>
            /\ txrp[p.dir] # None => /\ l.entries = txrp[p.dir].entries
                                     /\ l.base_index = txrp[p.dir].base_index
            /\ l.followers = IF txrg[p.dir] = None THEN <<>> ELSE txrg[p.dir]
            /\ txrg[p.dir] # None => txrp[p.dir] # None
  <2> SUFFICES ASSUME ok
               PROVE  /\ l \in Logs /\ InStep(l)
                      /\ txrp[p.dir] = None => l.entries = <<>>
                      /\ txrp[p.dir] # None => /\ l.entries = txrp[p.dir].entries
                                               /\ l.base_index = txrp[p.dir].base_index
                      /\ l.followers = IF txrg[p.dir] = None THEN <<>> ELSE txrg[p.dir]
                      /\ txrg[p.dir] # None => txrp[p.dir] # None
    BY Zenon
  <2>1. txrg[p.dir] # None => txrp[p.dir] # None
    BY Zenon DEF open_error
  <2>2. CASE txrg[p.dir] = None
    BY <2>1, <2>2, OpenedTyped, Zenon
  <2>3. CASE txrg[p.dir] # None
    <3>1. txrg[p.dir] \in Registries
      BY <1>1, <1>4, <2>3, Zenon DEF TypeOK
    <3> DEFINE o == opened(p.dir, t)
    <3>2. /\ o \in Logs /\ InStep(o)
          /\ txrp[p.dir] = None => o.entries = <<>>
          /\ txrp[p.dir] # None => /\ o.entries = txrp[p.dir].entries
                                   /\ o.base_index = txrp[p.dir].base_index
      BY OpenedTyped, Zenon
    <3>3. l = [o EXCEPT !.followers = txrg[p.dir]]
      BY <2>3, Zenon
    <3> HIDE DEF l, o
    <3>4. /\ l \in Logs /\ l.term = o.term /\ l.base_index = o.base_index
          /\ l.base_transaction_id = o.base_transaction_id /\ l.entries = o.entries
          /\ l.followers = txrg[p.dir]
      BY <3>1, <3>2, <3>3, Zenon DEF Logs
    <3>5. QED
      BY <2>1, <2>3, <3>2, <3>4, Zenon DEF InStep, validate
  <2>4. QED
    BY <2>2, <2>3, Zenon
<1>16. ~ok => l = None
  BY Zenon
<1> HIDE DEF l
<1>6. /\ log' \in [Procs -> Logs \cup {None}]
      /\ log'[p] = l
      /\ \A q \in Procs : q # p => log'[q] = log[q]
  BY <1>1, <1>2, <1>5, <1>16, Zenon DEF TypeOK
<1>7. /\ session' \in [Followers -> Sessions]
      /\ \A f \in Followers :
            \/ session'[f] = session[f]
            \/ session'[f] = [step |-> "status"] /\ p = Command(f) /\ open_error(p.dir, t) = "none"
  BY <1>1, ProcFacts, Zenon DEF TypeOK, Sessions, open
<1>8. TypeOK'
  BY <1>1, <1>3, <1>6, <1>7, Zenon DEF TypeOK
<1>9. VersionsInv' /\ \A d \in Dirs : DiskInv(d)'
  BY <1>3, Zenon DEF VersionsInv, DiskInv, transaction_id
<1>10. ASSUME NEW q \in Procs
       PROVE  MemoryInv(q)' /\ EntryInv(q)' /\ SnapshotInv(q)'
  <2>1. MemoryInv(q)'
    BY <1>3, <1>5, <1>16, <1>6, Zenon DEF MemoryInv
  <2>2. CASE q = p
    <3>1. pending[p] = None
      BY <1>1, <1>2, ZenonT(60) DEF TypeOK, EntryInv, SnapshotInv, EntryCommits, SnapshotCommits
    <3>2. QED
      BY <1>3, <2>1, <2>2, <3>1, Zenon DEF EntryInv, SnapshotInv
  <2>3. CASE q # p
    <3>1. /\ log'[q] = log[q] /\ pending'[q] = pending[q]
          /\ q.kind = "command" => session'[q.dir] = session[q.dir]
      BY <1>3, <1>6, <1>7, <2>3, ProcFacts, Zenon
    <3>2. QED
      BY <1>3, <2>1, <3>1 DEF EntryInv, SnapshotInv, IsPast, transaction_id
  <2>4. QED
    BY <2>2, <2>3, Zenon
<1>11. SentInv'
  <2>1. p = Server(Authority) \/ log'[Server(Authority)] = log[Server(Authority)]
    BY <1>6, NamedProcs, Zenon
  <2>2. <<>> \in Seq(sent)
    OBVIOUS
  <2>3. SentInv
    BY Zenon
  <2>4. ASSUME p = Server(Authority), ok
        PROVE  l.entries \in Seq(sent)
    BY <1>5, <2>2, <2>3, <2>4, NamedProcs, Zenon DEF SentInv
  <2>5. log'[Server(Authority)] # None => log'[Server(Authority)].entries \in Seq(sent)
    BY <1>16, <1>6, <2>1, <2>3, <2>4, Zenon DEF SentInv
  <2>6. QED
    BY <1>3, <2>3, <2>5, Zenon DEF SentInv, transaction_id
<1>12. FollowerIsPrefix'
  BY <1>3, ZenonT(60) DEF FollowerIsPrefix, IsPast
<1>13. ASSUME NEW f \in Followers
       PROVE  SessionInv(f)'
  <2>1. ok => l # None
    BY <1>5, NoneAssumption, Zenon
  <2>2. QED
    BY <1>2, <1>3, <1>6, <1>7, <2>1, NamedProcs
    DEF SessionInv, transaction_id, Idle, Pulls, Acknowledgements
<1>14. RegistryInv'
  <2>1. p = Server(Authority) \/ log'[Server(Authority)] = log[Server(Authority)]
    BY <1>6, NamedProcs, Zenon
  <2>2. QED
    BY <1>3, <1>5, <1>16, <1>6, <2>1, NamedProcs, EmptyRegistry DEF RegistryInv, transaction_id
<1>15. QED
  BY <1>8, <1>9, <1>10, <1>11, <1>12, <1>13, <1>14, Zenon

(* A step of a session. *)
LEMMA SessionKeeps ==
    ASSUME ReplicationInv, NEW f \in Followers, NEW s \in Sessions,
           log[Command(f)] # None,
           pending[Command(f)] = None,
           s \in Pulls => s.page \in Seq(sent),
           s \in Acknowledgements => s.progress.index <= transaction_id(f),
           session' = [session EXCEPT ![f] = s],
           UNCHANGED <<catalog, versions, txrp, txrg, log, pending, sent>>
    PROVE  ReplicationInv'
<1> USE DEF ReplicationInv
<1>1. TypeOK
  BY Zenon
<1>2. /\ session' \in [Followers -> Sessions]
      /\ session'[f] = s
      /\ \A g \in Followers : g # f => session'[g] = session[g]
  BY <1>1, Zenon DEF TypeOK
<1>3. TypeOK'
  BY <1>1, <1>2, Zenon DEF TypeOK
<1>4. VersionsInv' /\ \A d \in Dirs : DiskInv(d)'
  BY Zenon DEF VersionsInv, DiskInv, transaction_id
<1>5. ASSUME NEW q \in Procs
      PROVE  MemoryInv(q)' /\ EntryInv(q)' /\ SnapshotInv(q)'
  <2>1. q = Command(f) \/ (q.kind = "command" => session'[q.dir] = session[q.dir])
    BY <1>2, ProcFacts, Zenon
  <2>2. QED
    BY <2>1, Zenon DEF MemoryInv, EntryInv, SnapshotInv, IsPast, transaction_id
<1>6. SentInv' /\ FollowerIsPrefix' /\ RegistryInv'
  BY Zenon DEF SentInv, FollowerIsPrefix, RegistryInv, IsPast, transaction_id
<1>7. \A g \in Followers : SessionInv(g)'
  BY <1>2, NamedProcs DEF SessionInv, transaction_id
<1>8. QED
  BY <1>3, <1>4, <1>5, <1>6, <1>7, Zenon

(* Sessions that have the pages they had. *)
SamePages(next) ==
    /\ next \in [Followers -> Sessions]
    /\ \A f \in Followers : \/ next[f] = session[f]
                            \/ /\ session[f] \in Pulls /\ next[f] \in Pulls
                               /\ next[f].page = session[f].page

(* What makes a commit that is prepared now a good one. *)
EntryFits(p, c) ==
    /\ c.kind = "entry"
    /\ applicable(log[p], p.dir, c.entry)
    /\ c.entry.term = log[p].term
    /\ c.before = txrp[p.dir]
    /\ p.dir # Authority => c.entry \in sent
    /\ p.kind = "command" => session[p.dir] \in Pulls /\ session[p.dir].page # <<>>

SnapshotFits(p, c) ==
    /\ c.kind = "snapshot"
    /\ p.dir # Authority
    /\ IsPast(c.snapshot.catalog)
    /\ Len(c.snapshot.catalog) = c.snapshot.last_transaction_id
    /\ c.snapshot.last_index = c.snapshot.last_transaction_id
    /\ c.current < c.snapshot.last_transaction_id

(* A process that prepares a commit fitting what it has read keeps the        *)
(* invariant.                                                                 *)
LEMMA PrepareKeeps ==
    ASSUME ReplicationInv, NEW p \in Procs, NEW c \in EntryCommits \cup SnapshotCommits,
           log[p] # None,
           EntryFits(p, c) \/ SnapshotFits(p, c),
           pending' = [pending EXCEPT ![p] = c],
           SamePages(session'),
           UNCHANGED <<catalog, versions, txrp, txrg, log, sent>>
    PROVE  ReplicationInv'
<1> USE DEF ReplicationInv
<1>1. TypeOK
  BY Zenon
<1>2. /\ pending' \in [Procs -> EntryCommits \cup SnapshotCommits \cup {None}]
      /\ pending'[p] = c
      /\ \A q \in Procs : q # p => pending'[q] = pending[q]
  BY <1>1, Zenon DEF TypeOK
<1>3. TypeOK'
  BY <1>1, <1>2, Zenon DEF TypeOK, SamePages
<1>4. VersionsInv' /\ \A d \in Dirs : DiskInv(d)'
  BY Zenon DEF VersionsInv, DiskInv, transaction_id
<1>5. ASSUME NEW q \in Procs
      PROVE  MemoryInv(q)' /\ EntryInv(q)' /\ SnapshotInv(q)'
  <2>1. q.kind = "command" => /\ session[q.dir] \in Pulls => session'[q.dir] \in Pulls
                              /\ session[q.dir] \in Pulls => session'[q.dir].page = session[q.dir].page
    BY ProcFacts, Zenon DEF SamePages
  <2>2. MemoryInv(q)'
    BY Zenon DEF MemoryInv
  <2>3. CASE q # p
    BY <1>2, <2>1, <2>2, <2>3 DEF EntryInv, SnapshotInv, IsPast, transaction_id
  <2>4. CASE q = p /\ EntryFits(p, c)
    <3>1. SnapshotInv(p)'
      BY <1>2, <2>4, Zenon DEF EntryFits, SnapshotInv
    <3>2. EntryInv(p)'
      BY <1>2, <2>1, <2>4, Zenon
      DEF EntryFits, EntryInv, applicable, ensure_catalog_position, transaction_id
    <3>3. QED
      BY <2>2, <2>4, <3>1, <3>2, Zenon
  <2>5. CASE q = p /\ SnapshotFits(p, c)
    BY <1>2, <2>2, <2>5, Zenon DEF SnapshotFits, EntryInv, SnapshotInv, IsPast
  <2>6. QED
    BY <2>3, <2>4, <2>5, Zenon
<1>6. SentInv' /\ FollowerIsPrefix' /\ RegistryInv'
  BY Zenon DEF SentInv, FollowerIsPrefix, RegistryInv, IsPast, transaction_id
<1>7. \A g \in Followers : SessionInv(g)'
  BY NamedProcs DEF SessionInv, transaction_id, SamePages, Pulls, Idle, Acknowledgements
<1>8. QED
  BY <1>3, <1>4, <1>5, <1>6, <1>7, Zenon

(* The length and the members of a sequence with one more. *)
LEMMA AppendFacts ==
    ASSUME NEW S, NEW s \in Seq(S), NEW e \in S
    PROVE  /\ Append(s, e) \in Seq(S)
           /\ Len(Append(s, e)) = Len(s) + 1
           /\ \A i \in 1 .. Len(s) : Append(s, e)[i] = s[i]
           /\ Append(s, e)[Len(s) + 1] = e
OBVIOUS

(* A catalog of the authority that has only grown keeps its past. *)
LEMMA PastIsKept ==
    ASSUME NEW c, Len(c) \in Nat, IsPast(c),
           Len(catalog[Authority]) \in Nat, Len(catalog'[Authority]) \in Nat,
           Len(catalog[Authority]) <= Len(catalog'[Authority]),
           \A i \in 1 .. Len(catalog[Authority]) : catalog'[Authority][i] = catalog[Authority][i]
    PROVE  /\ Len(c) <= Len(catalog'[Authority])
           /\ \A i \in 1 .. Len(c) : c[i] = catalog'[Authority][i]
BY DEF IsPast

(* What to_sidecar_bytes keeps of a log. *)
LEMMA SidecarFields ==
    ASSUME NEW l
    PROVE  /\ to_sidecar_bytes(l).term = l.term
           /\ to_sidecar_bytes(l).base_index = l.base_index
           /\ to_sidecar_bytes(l).base_transaction_id = l.base_transaction_id
           /\ to_sidecar_bytes(l).entries = l.entries
BY DEF to_sidecar_bytes

(* A log without entries is in step when its two bases agree. *)
LEMMA EmptyInStep ==
    ASSUME NEW l, NEW i \in Nat,
           l.base_index = i, l.base_transaction_id = i, l.entries = <<>>
    PROVE  InStep(l) /\ last_transaction_id(l) = i
<1>1. DOMAIN l.entries = {} /\ Len(l.entries) = 0
  OBVIOUS
<1>2. i + 0 = i
  OBVIOUS
<1>3. QED
  BY <1>1, <1>2, Zenon DEF InStep, validate, last_transaction_id

(* The watermarks of a registry on disk are natural numbers of followers. *)
LEMMA RegistryTyped ==
    ASSUME TypeOK, txrg[Authority] # None, NEW f \in DOMAIN txrg[Authority]
    PROVE  f \in Dirs /\ txrg[Authority][f].index \in Nat
<1>1. txrg[Authority] \in Registries
  <2>1. Authority \in Dirs
    BY NamedProcs, Zenon
  <2>2. txrg \in [Dirs -> Registries \cup {None}]
    BY Zenon DEF TypeOK
  <2>3. QED
    BY <2>1, <2>2, Zenon
<1>2. PICK S \in SUBSET Followers : txrg[Authority] \in [S -> Positions]
  BY <1>1, Zenon DEF Registries
<1>3. f \in Followers /\ txrg[Authority][f] \in Positions
  BY <1>2, Zenon
<1>4. QED
  BY <1>3, NamedProcs, Zenon DEF Positions

(* The watermarks and the base stay together when a step of the authority      *)
(* leaves its registry alone and its base where it was.                        *)
LEMMA RegistryKept ==
    ASSUME RegistryInv, NEW l, l = log[Server(Authority)], l # None,
           txrg' = txrg, log'[Server(Authority)] # None,
           log'[Server(Authority)].base_index = l.base_index,
           log'[Server(Authority)].followers = l.followers,
           txrp'[Authority].base_index = l.base_index,
           txrg[Authority] # None =>
               \A f \in DOMAIN txrg[Authority] : txrg[Authority][f].index <= Len(catalog'[f])
    PROVE  RegistryInv'
<1>1. /\ l.followers = IF txrg[Authority] = None THEN <<>> ELSE txrg[Authority]
      /\ \A f \in DOMAIN l.followers : l.base_index <= l.followers[f].index
  BY Zenon DEF RegistryInv
<1>2. txrg'[Authority] = txrg[Authority]
  BY Zenon
<1>3. QED
  BY <1>1, <1>2, ZenonT(60) DEF RegistryInv, transaction_id

(* A process that a step does not touch stays as it was. *)
LEMMA ProcUntouched ==
    ASSUME NEW q \in Procs, MemoryInv(q), EntryInv(q), SnapshotInv(q),
           log'[q] = log[q], pending'[q] = pending[q], txrp'[q.dir] = txrp[q.dir],
           catalog' = catalog, sent' = sent,
           q.kind = "command" => session'[q.dir] = session[q.dir]
    PROVE  MemoryInv(q)' /\ EntryInv(q)' /\ SnapshotInv(q)'
<1>1. MemoryInv(q)'
  BY Zenon DEF MemoryInv
<1>2. EntryInv(q)'
  BY ZenonT(60) DEF EntryInv, transaction_id
<1>3. SnapshotInv(q)'
  BY ZenonT(60) DEF SnapshotInv, IsPast
<1>4. QED
  BY <1>1, <1>2, <1>3, Zenon

(* The commit of an entry that found the sidecar it was prepared on. *)
LEMMA CommitEntryKeeps ==
    ASSUME ReplicationInv, NEW p \in Procs,
           pending[p] # None, pending[p].kind = "entry", txrp[p.dir] = pending[p].before,
           commit_without_check(p)
    PROVE  ReplicationInv'
<1> DEFINE d == p.dir
           e == pending[p].entry
           l == log[p]
           n == [l EXCEPT !.entries = Append(@, e)]
<1> USE DEF ReplicationInv
<1>1. TypeOK
  BY Zenon
<1>2. d \in Dirs
  BY ProcFacts, Zenon
<1>3. /\ pending[p] \in EntryCommits /\ e \in Entries
  BY <1>1, Zenon DEF TypeOK, EntryCommits, SnapshotCommits
<1>4. /\ l # None /\ e.term = l.term /\ e.index = last_index(l) + 1
      /\ e.transaction_id = last_transaction_id(l) + 1
      /\ txrp[d] \in {None, to_sidecar_bytes(l)}
      /\ transaction_id(d) = last_transaction_id(l)
      /\ d # Authority => e \in sent
      /\ p.kind = "command" => session[d] \in Pulls /\ session[d].page # <<>>
  BY Zenon DEF EntryInv
<1>5. l \in Logs /\ InStep(l)
  BY <1>1, <1>4, Zenon DEF TypeOK, MemoryInv
<1>6. /\ l.term \in Terms /\ l.base_index \in Nat /\ l.base_transaction_id = l.base_index
      /\ l.entries \in Seq(Entries) /\ l.followers \in Registries /\ Len(l.entries) \in Nat
  BY <1>5 DEF Logs, InStep
<1>7. /\ catalog[d] \in Seq(Ops) /\ Len(catalog[d]) = l.base_index + Len(l.entries)
      /\ Len(catalog[d]) \in Nat
      /\ e.op \in Ops /\ e.index = Len(catalog[d]) + 1 /\ e.transaction_id = Len(catalog[d]) + 1
  BY <1>1, <1>2, <1>3, <1>4, <1>6
  DEF TypeOK, Entries, transaction_id, last_transaction_id, last_index
<1>8. /\ n \in Logs /\ n.term = l.term /\ n.base_index = l.base_index
      /\ n.base_transaction_id = l.base_index /\ n.followers = l.followers
      /\ n.entries = Append(l.entries, e)
  <2>1. Append(l.entries, e) \in Seq(Entries)
    BY <1>3, <1>6, AppendFacts, Zenon
  <2>2. QED
    BY <1>5, <1>6, <2>1, Zenon DEF Logs
<1>9. /\ n.entries \in Seq(Entries) /\ Len(n.entries) = Len(l.entries) + 1
      /\ \A i \in 1 .. Len(l.entries) : n.entries[i] = l.entries[i]
      /\ n.entries[Len(l.entries) + 1] = e
  BY <1>3, <1>6, <1>8, AppendFacts
<1> HIDE DEF n, l, e
<1>10. InStep(n)
  <2>1. \A i \in 1 .. Len(l.entries) :
          /\ l.entries[i].term = l.term
          /\ l.entries[i].index = l.base_index + i
          /\ l.entries[i].transaction_id = l.base_index + i
    BY <1>5, <1>6 DEF InStep, validate
  <2>2. ASSUME NEW i \in DOMAIN n.entries
        PROVE  /\ n.entries[i].term = n.term
               /\ n.entries[i].index = n.base_index + i
               /\ n.entries[i].transaction_id = n.base_transaction_id + i
    <3>1. i \in 1 .. Len(l.entries) \/ i = Len(l.entries) + 1
      BY <1>6, <1>9
    <3>2. CASE i \in 1 .. Len(l.entries)
      BY <1>8, <1>9, <2>1, <3>2, Zenon
    <3>3. CASE i = Len(l.entries) + 1
      <4>1. n.entries[i] = e
        BY <1>9, <3>3, Zenon
      <4>2. e.index = l.base_index + i /\ e.transaction_id = l.base_index + i
        BY <1>6, <1>7, <3>3
      <4>3. QED
        BY <1>4, <1>8, <4>1, <4>2, Zenon
    <3>4. QED
      BY <3>1, <3>2, <3>3, Zenon
  <2>3. QED
    BY <1>8, <2>2, Zenon DEF InStep, validate
<1>11. /\ catalog' = [catalog EXCEPT ![d] = Append(catalog[d], e.op)]
       /\ versions' = [versions EXCEPT ![d] = @ \cup {transaction_id(d) + 1}]
       /\ txrp' = [txrp EXCEPT ![d] = to_sidecar_bytes(n)]
       /\ log' = [log EXCEPT ![p] = n]
       /\ session' = page_done(p)
       /\ pending' = [pending EXCEPT ![p] = None]
       /\ sent' = IF d = Authority THEN sent \cup {e} ELSE sent
       /\ txrg' = txrg
  BY <1>7, Zenon DEF commit_without_check, n, l, e, transaction_id
<1>12. /\ catalog' \in [Dirs -> Seq(Ops)]
       /\ Len(catalog'[d]) = Len(catalog[d]) + 1
       /\ \A i \in 1 .. Len(catalog[d]) : catalog'[d][i] = catalog[d][i]
       /\ catalog'[d][Len(catalog[d]) + 1] = e.op
       /\ \A x \in Dirs : x # d => catalog'[x] = catalog[x]
  <2> DEFINE a == Append(catalog[d], e.op)
  <2>1. /\ a \in Seq(Ops) /\ Len(a) = Len(catalog[d]) + 1
        /\ \A i \in 1 .. Len(catalog[d]) : a[i] = catalog[d][i]
        /\ a[Len(catalog[d]) + 1] = e.op
    BY <1>7, AppendFacts
  <2> HIDE DEF a
  <2>2. catalog \in [Dirs -> Seq(Ops)] /\ catalog' = [catalog EXCEPT ![d] = a]
    BY <1>1, <1>11, Zenon DEF TypeOK, a
  <2>3. catalog'[d] = a /\ \A x \in Dirs : x # d => catalog'[x] = catalog[x]
    BY <1>2, <2>2, Zenon
  <2>4. catalog' \in [Dirs -> Seq(Ops)]
    BY <1>2, <2>1, <2>2, Zenon
  <2>5. QED
    BY <2>1, <2>3, <2>4, Zenon
<1>13. /\ to_sidecar_bytes(n) \in Sidecars /\ to_sidecar_bytes(n) # None
  <2>1. to_sidecar_bytes(n) \in Sidecars
    BY <1>8, Zenon DEF Logs, Sidecars, to_sidecar_bytes
  <2>2. QED
    BY <2>1, NoneAssumption, Zenon
<1>14. /\ txrp' \in [Dirs -> Sidecars \cup {None}]
       /\ txrp'[d] = to_sidecar_bytes(n)
       /\ \A x \in Dirs : x # d => txrp'[x] = txrp[x]
  BY <1>1, <1>2, <1>11, <1>13, Zenon DEF TypeOK
<1>15. /\ log' \in [Procs -> Logs \cup {None}] /\ log'[p] = n /\ n # None
       /\ \A q \in Procs : q # p => log'[q] = log[q]
  BY <1>1, <1>8, <1>11, NoneAssumption, Zenon DEF TypeOK
<1>16. /\ pending' \in [Procs -> EntryCommits \cup SnapshotCommits \cup {None}]
       /\ pending'[p] = None
       /\ \A q \in Procs : q # p => pending'[q] = pending[q]
  BY <1>1, <1>11, Zenon DEF TypeOK
<1>17. /\ session' \in [Followers -> Sessions]
       /\ \A f \in Followers :
             \/ session'[f] = session[f] /\ Command(f) # p
             \/ /\ Command(f) = p /\ session'[f] \in Pulls /\ session[f] \in Pulls
                /\ session[f].page # <<>> /\ session'[f].page = Tail(session[f].page)
  <2>1. CASE p.kind = "server"
    BY <1>1, <1>11, <2>1, NamedProcs, Zenon DEF page_done, TypeOK
  <2>2. CASE p.kind = "command"
    <3>1. d \in Followers /\ p = Command(d)
      BY <2>2, ProcFacts, Zenon
    <3>2. session' = [session EXCEPT ![d].page = Tail(@)]
      BY <1>11, <2>2, Zenon DEF page_done
    <3>3. Tail(session[d].page) \in Seq(Entries)
      BY <1>4, <2>2, TailTyped, Zenon DEF Pulls
    <3>4. [session[d] EXCEPT !.page = Tail(session[d].page)] \in Pulls
      BY <1>4, <2>2, <3>3, Zenon DEF Pulls
    <3>5. session' = [session EXCEPT ![d] = [session[d] EXCEPT !.page = Tail(session[d].page)]]
      BY <1>1, <3>1, <3>2, Zenon DEF TypeOK
    <3>6. /\ [session[d] EXCEPT !.page = Tail(session[d].page)].page = Tail(session[d].page)
      BY <1>4, <2>2, Zenon DEF Pulls
    <3> DEFINE t == [session[d] EXCEPT !.page = Tail(session[d].page)]
    <3>7. t \in Pulls /\ t \in Sessions /\ t.page = Tail(session[d].page)
      BY <3>4, <3>6, Zenon DEF Sessions
    <3> HIDE DEF t
    <3>8. /\ session' \in [Followers -> Sessions] /\ session'[d] = t
          /\ \A f \in Followers : f # d => session'[f] = session[f]
      BY <1>1, <3>1, <3>5, <3>7, Zenon DEF TypeOK, t
    <3>9. \A f \in Followers : f # d => Command(f) # p
      BY <3>1, NamedProcs
    <3>10. QED
      BY <1>4, <2>2, <3>1, <3>7, <3>8, <3>9, Zenon
  <2>3. QED
    BY <2>1, <2>2, ProcFacts, Zenon
<1>18. sent \subseteq sent' /\ sent' \subseteq Entries
  BY <1>1, <1>3, <1>11, Zenon DEF TypeOK
<1>19. TypeOK'
  <2>1. versions' \in [Dirs -> SUBSET Nat]
    BY <1>1, <1>2, <1>7, <1>11 DEF TypeOK, transaction_id
  <2>2. QED
    BY <1>1, <1>11, <1>12, <1>14, <1>15, <1>16, <1>17, <1>18, <2>1, ZenonT(60) DEF TypeOK
<1>20. VersionsInv'
  <2>1. ASSUME NEW x \in Dirs
        PROVE  versions'[x] \subseteq 1 .. Len(catalog'[x])
    BY <1>1, <1>2, <1>7, <1>11, <1>12 DEF TypeOK, VersionsInv, transaction_id
  <2>2. QED
    BY <2>1, ZenonT(60) DEF VersionsInv, transaction_id
<1>21. \A x \in Dirs : DiskInv(x)'
  <2>1. DiskInv(d)'
    <3>1. /\ txrp'[d].base_index = l.base_index /\ txrp'[d].base_transaction_id = l.base_index
          /\ txrp'[d].entries = n.entries /\ txrp'[d].term = l.term
      <4>1. txrp'[d] = to_sidecar_bytes(n)
        BY <1>14, Zenon
      <4>2. /\ to_sidecar_bytes(n).base_index = n.base_index
            /\ to_sidecar_bytes(n).base_transaction_id = n.base_transaction_id
            /\ to_sidecar_bytes(n).entries = n.entries /\ to_sidecar_bytes(n).term = n.term
        BY SidecarFields, Zenon
      <4>3. QED
        BY <1>8, <4>1, <4>2, Zenon
    <3>2. InStep(txrp'[d])
      BY <1>8, <1>10, <3>1, ZenonT(60) DEF InStep, validate
    <3>3. last_transaction_id(txrp'[d]) = Len(catalog'[d])
      <4>1. l.base_index + (Len(l.entries) + 1) = Len(catalog[d]) + 1
        BY <1>6, <1>7
      <4>2. QED
        BY <1>9, <1>12, <3>1, <4>1, Zenon DEF last_transaction_id
    <3>4. ASSUME NEW i \in 1 .. Len(n.entries)
          PROVE  n.entries[i].op = catalog'[d][l.base_index + i]
      <4>1. CASE i = Len(l.entries) + 1
        <5>1. l.base_index + (Len(l.entries) + 1) = Len(catalog[d]) + 1
          BY <1>6, <1>7
        <5>2. /\ n.entries[Len(l.entries) + 1].op = e.op
              /\ catalog'[d][l.base_index + (Len(l.entries) + 1)] = e.op
          BY <1>9, <1>12, <5>1, Zenon
        <5>3. QED
          BY <4>1, <5>2, Zenon
      <4>2. CASE i \in 1 .. Len(l.entries)
        <5>1. txrp[d] # None
          <6>1. l.entries # <<>>
            BY <1>6, <4>2
          <6>2. QED
            BY <1>4, <6>1, Zenon DEF MemoryInv, l
        <5>2. txrp[d].entries = l.entries /\ txrp[d].base_index = l.base_index
          BY <1>4, <5>1, SidecarFields, Zenon
        <5>3. l.entries[i].op = catalog[d][l.base_index + i]
          BY <1>2, <4>2, <5>1, <5>2, ZenonT(60) DEF DiskInv
        <5>4. l.base_index + i \in 1 .. Len(catalog[d])
          BY <1>6, <1>7, <4>2
        <5>5. QED
          BY <1>9, <1>12, <4>2, <5>3, <5>4, Zenon
      <4>3. i \in 1 .. Len(l.entries) \/ i = Len(l.entries) + 1
        <5>1. Len(l.entries) \in Nat /\ i \in 1 .. (Len(l.entries) + 1)
          BY <1>6, <1>9, Zenon
        <5>2. QED
          BY <5>1
      <4>4. QED
        BY <4>1, <4>2, <4>3, Zenon
    <3>5. QED
      BY <3>1, <3>2, <3>3, <3>4, Zenon DEF DiskInv, transaction_id
  <2>2. ASSUME NEW x \in Dirs, x # d
        PROVE  DiskInv(x)'
    BY <1>12, <1>14, <2>2, ZenonT(60) DEF DiskInv, transaction_id
  <2>3. QED
    BY <2>1, <2>2, Zenon
<1>22. /\ Len(catalog[Authority]) \in Nat /\ Len(catalog'[Authority]) \in Nat
       /\ Len(catalog[Authority]) <= Len(catalog'[Authority])
       /\ \A i \in 1 .. Len(catalog[Authority]) :
             catalog'[Authority][i] = catalog[Authority][i]
  <2>1. Authority \in Dirs
    BY NamedProcs, Zenon
  <2>2. Len(catalog[Authority]) \in Nat /\ Len(catalog'[Authority]) \in Nat
    BY <1>1, <1>12, <2>1 DEF TypeOK
  <2>3. CASE d = Authority
    BY <1>12, <2>2, <2>3
  <2>4. CASE d # Authority
    BY <1>12, <2>1, <2>2, <2>4
  <2>5. QED
    BY <2>3, <2>4, Zenon
<1>23. ASSUME NEW q \in Procs
       PROVE  MemoryInv(q)' /\ EntryInv(q)' /\ SnapshotInv(q)'
  <2>1. q.dir \in Dirs
    BY ProcFacts, Zenon
  <2>2. CASE q = p
    BY <1>10, <1>13, <1>14, <1>15, <1>16, <2>2, Zenon DEF MemoryInv, EntryInv, SnapshotInv
  <2>3. CASE q # p
    <3>1. /\ log'[q] = log[q] /\ pending'[q] = pending[q]
          /\ q.kind = "command" => session'[q.dir] = session[q.dir]
      BY <1>15, <1>16, <1>17, <2>3, ProcFacts, Zenon
    <3>2. MemoryInv(q)'
      BY <1>13, <1>14, <2>1, <3>1, Zenon DEF MemoryInv
    <3>3. EntryInv(q)'
      <4> DEFINE c == pending[q]
      <4> SUFFICES ASSUME c # None, c.kind = "entry"
                   PROVE  txrp'[q.dir] = c.before
                            => Len(catalog'[q.dir]) = last_transaction_id(log[q])
        BY <1>18, <3>1, Zenon DEF EntryInv, transaction_id
      <4>1. /\ c.before \in {None, to_sidecar_bytes(log[q])}
            /\ txrp[q.dir] = c.before => Len(catalog[q.dir]) = last_transaction_id(log[q])
        BY Zenon DEF EntryInv, transaction_id
      <4>2. CASE q.dir # d
        BY <1>12, <1>14, <2>1, <4>1, <4>2, Zenon
      <4>3. CASE q.dir = d
        <5> SUFFICES ASSUME txrp'[d] = c.before
                     PROVE  Len(catalog'[d]) = last_transaction_id(log[q])
          BY <4>3, Zenon
        <5>1. to_sidecar_bytes(n) = to_sidecar_bytes(log[q])
          BY <1>13, <1>14, <4>1, Zenon
        <5>2. last_transaction_id(log[q]) = last_transaction_id(n)
          BY <5>1, Zenon DEF to_sidecar_bytes, last_transaction_id
        <5>3. l.base_index + (Len(l.entries) + 1) = Len(catalog[d]) + 1
          BY <1>6, <1>7
        <5>4. QED
          BY <1>8, <1>9, <1>12, <5>2, <5>3, Zenon DEF last_transaction_id
      <4>4. QED
        BY <4>2, <4>3, Zenon
    <3>4. SnapshotInv(q)'
      <4> DEFINE c == pending[q]
      <4> SUFFICES ASSUME c # None, c.kind = "snapshot"
                   PROVE  /\ Len(c.snapshot.catalog) <= Len(catalog'[Authority])
                          /\ \A i \in 1 .. Len(c.snapshot.catalog) :
                                c.snapshot.catalog[i] = catalog'[Authority][i]
        BY <3>1 DEF SnapshotInv, IsPast
      <4>1. IsPast(c.snapshot.catalog) /\ Len(c.snapshot.catalog) \in Nat
        BY <1>1, Zenon DEF SnapshotInv, TypeOK, SnapshotCommits, Snapshots, EntryCommits
      <4>2. QED
        BY <1>22, <4>1, PastIsKept, Zenon
    <3>5. QED
      BY <3>2, <3>3, <3>4, Zenon
  <2>4. QED
    BY <2>2, <2>3, Zenon
<1>24. SentInv'
  <2>1. ASSUME NEW x \in sent'
        PROVE  /\ x.index = x.transaction_id
               /\ x.transaction_id \in 1 .. Len(catalog'[Authority])
               /\ x.op = catalog'[Authority][x.transaction_id]
    <3>1. CASE x \in sent
      BY <1>22, <3>1 DEF SentInv, transaction_id
    <3>2. CASE d = Authority /\ x = e
      BY <1>7, <1>12, <3>2
    <3>3. QED
      BY <1>11, <3>1, <3>2, Zenon
  <2>2. /\ txrp'[Authority] # None => txrp'[Authority].entries \in Seq(sent')
        /\ log'[Server(Authority)] # None => log'[Server(Authority)].entries \in Seq(sent')
    <3>1. CASE d = Authority
      <4>1. p = Server(Authority)
        BY <3>1, ProcFacts, Zenon
      <4>2. l.entries \in Seq(sent')
        BY <1>4, <1>18, <4>1, WiderSeq, Zenon DEF SentInv, l
      <4>3. e \in sent'
        BY <1>11, <3>1, Zenon
      <4>4. n.entries \in Seq(sent')
        BY <1>8, <4>2, <4>3, AppendFacts, Zenon
      <4>5. txrp'[Authority].entries = n.entries
        BY <1>14, <3>1, SidecarFields, Zenon
      <4>6. QED
        BY <1>15, <4>1, <4>4, <4>5, Zenon
    <3>2. CASE d # Authority
      <4>1. /\ txrp'[Authority] = txrp[Authority] /\ sent' = sent
            /\ log'[Server(Authority)] = log[Server(Authority)]
        BY <1>11, <1>14, <1>15, <3>2, NamedProcs, Zenon
      <4>2. QED
        BY <4>1, Zenon DEF SentInv
    <3>3. QED
      BY <3>1, <3>2, Zenon
  <2>3. QED
    BY <2>1, <2>2, Zenon DEF SentInv, transaction_id
<1>25. FollowerIsPrefix'
  <2> SUFFICES ASSUME NEW f \in Followers
               PROVE  /\ Len(catalog'[f]) <= Len(catalog'[Authority])
                      /\ \A i \in 1 .. Len(catalog'[f]) : catalog'[f][i] = catalog'[Authority][i]
    BY Zenon DEF FollowerIsPrefix, IsPast
  <2>1. f \in Dirs /\ Len(catalog[f]) \in Nat /\ IsPast(catalog[f])
    BY <1>1, NamedProcs DEF TypeOK, FollowerIsPrefix
  <2>2. /\ Len(catalog[f]) <= Len(catalog'[Authority])
        /\ \A i \in 1 .. Len(catalog[f]) : catalog[f][i] = catalog'[Authority][i]
    BY <1>22, <2>1, PastIsKept, Zenon
  <2>3. CASE f # d
    BY <1>12, <2>1, <2>2, <2>3, Zenon
  <2>4. CASE f = d
    <3>1. d # Authority /\ e \in sent
      BY <1>4, <2>4, NamedProcs, Zenon
    <3>2. /\ e.transaction_id \in 1 .. Len(catalog[Authority])
          /\ e.op = catalog[Authority][e.transaction_id]
      BY <3>1, Zenon DEF SentInv, transaction_id
    <3>3. catalog'[Authority] = catalog[Authority]
      BY <1>12, <3>1, NamedProcs, ZenonT(60)
    <3>4. Len(catalog'[d]) <= Len(catalog[Authority])
      BY <1>7, <1>12, <1>22, <3>2
    <3>5. ASSUME NEW i \in 1 .. Len(catalog'[d])
          PROVE  catalog'[d][i] = catalog[Authority][i]
      <4>1. i \in 1 .. Len(catalog[d]) \/ i = Len(catalog[d]) + 1
        BY <1>7, <1>12
      <4>2. CASE i \in 1 .. Len(catalog[d])
        BY <1>12, <2>2, <2>4, <3>3, <4>2, Zenon
      <4>3. CASE i = Len(catalog[d]) + 1
        BY <1>7, <1>12, <3>2, <4>3, Zenon
      <4>4. QED
        BY <4>1, <4>2, <4>3, Zenon
    <3>6. QED
      BY <2>4, <3>3, <3>4, <3>5, Zenon
  <2>5. QED
    BY <2>3, <2>4, Zenon
<1>26. \A x \in Dirs : /\ Len(catalog[x]) \in Nat /\ Len(catalog'[x]) \in Nat
                       /\ Len(catalog[x]) <= Len(catalog'[x])
  <2> TAKE x \in Dirs
  <2>1. Len(catalog[x]) \in Nat /\ Len(catalog'[x]) \in Nat
    BY <1>1, <1>12 DEF TypeOK
  <2>2. QED
    BY <1>12, <2>1
<1>27. ASSUME NEW f \in Followers
       PROVE  SessionInv(f)'
  <2>1. f \in Dirs /\ Command(f) \in Procs
    BY NamedProcs, Zenon
  <2>2. session'[f] # Idle => log'[Command(f)] # None
    BY <1>15, <1>17, <2>1, Zenon DEF SessionInv
  <2>3. session'[f] \in Pulls => session'[f].page \in Seq(sent')
    <3>1. session[f] \in Pulls => session[f].page \in Seq(sent')
      BY <1>18, WiderSeq, Zenon DEF SessionInv
    <3>2. QED
      BY <1>17, <3>1, TailTyped, Zenon
  <2>4. session'[f] \in Acknowledgements => session'[f].progress.index <= Len(catalog'[f])
    <3>1. SUFFICES ASSUME session'[f] \in Acknowledgements
                   PROVE  session'[f].progress.index <= Len(catalog'[f])
      BY Zenon
    <3>2. session'[f] = session[f]
      BY <1>17, <3>1, Zenon DEF Pulls, Acknowledgements
    <3>3. session[f].progress.index \in Nat
      BY <3>1, <3>2, Zenon DEF Acknowledgements, Positions
    <3>4. QED
      BY <1>26, <2>1, <3>1, <3>2, <3>3 DEF SessionInv, transaction_id
  <2>5. QED
    BY <2>2, <2>3, <2>4, Zenon DEF SessionInv, transaction_id
<1>28. RegistryInv'
  <2>1. txrg[Authority] # None =>
          \A f \in DOMAIN txrg[Authority] : f \in Dirs /\ txrg[Authority][f].index \in Nat
    BY <1>1, RegistryTyped, Zenon
  <2>2. txrg[Authority] # None =>
          \A f \in DOMAIN txrg[Authority] : txrg[Authority][f].index <= Len(catalog'[f])
    BY <1>26, <2>1 DEF RegistryInv, transaction_id
  <2>3. CASE d # Authority
    <3>1. /\ txrp'[Authority] = txrp[Authority]
          /\ log'[Server(Authority)] = log[Server(Authority)]
      BY <1>14, <1>15, <2>3, NamedProcs, ZenonT(60)
    <3>2. QED
      BY <1>11, <2>2, <3>1, Zenon DEF RegistryInv, transaction_id
  <2>4. CASE d = Authority
    <3>1. p = Server(Authority)
      BY <2>4, ProcFacts, ZenonT(60)
    <3>2. /\ txrp'[Authority].base_index = l.base_index
          /\ log'[Server(Authority)].base_index = l.base_index
          /\ log'[Server(Authority)].followers = l.followers
      <4>1. txrp'[Authority] = to_sidecar_bytes(n) /\ log'[Server(Authority)] = n
        BY <1>14, <1>15, <2>4, <3>1, Zenon
      <4>2. to_sidecar_bytes(n).base_index = n.base_index
        BY SidecarFields, Zenon
      <4>3. QED
        BY <1>8, <4>1, <4>2, Zenon
    <3>3. /\ l # None /\ l = log[Server(Authority)] /\ txrg' = txrg
          /\ log'[Server(Authority)] # None /\ RegistryInv
      BY <1>4, <1>11, <1>15, <3>1, Zenon DEF l
    <3>4. QED
      BY <2>2, <3>2, <3>3, RegistryKept, Zenon
  <2>5. QED
    BY <2>3, <2>4, ZenonT(60)
<1>29. QED
  BY <1>19, <1>20, <1>21, <1>23, <1>24, <1>25, <1>27, <1>28, Zenon

-----------------------------------------------------------------------------
(* Snapshots, duplicates, compaction, the registry of followers and the session *)
(* of a command.                                                               *)

(* The log with_position leaves: empty, and in step with the transaction it   *)
(* starts at.                                                                 *)
LEMMA PositionFacts ==
    ASSUME NEW t \in Terms, NEW i \in Nat
    PROVE  LET n == with_position(t, i, i)
           IN /\ n \in Logs /\ n # None /\ InStep(n) /\ n.entries = <<>>
              /\ n.base_index = i /\ n.base_transaction_id = i
              /\ last_transaction_id(n) = i
              /\ to_sidecar_bytes(n) \in Sidecars /\ to_sidecar_bytes(n) # None
              /\ to_sidecar_bytes(n).base_index = i
              /\ to_sidecar_bytes(n).base_transaction_id = i
              /\ to_sidecar_bytes(n).entries = <<>>
<1> DEFINE n == with_position(t, i, i)
<1>1. <<>> \in Seq(Entries)
  BY SMTT(30)
<1>2. n \in Logs /\ InStep(n) /\ last_transaction_id(n) = i
  <2>1. /\ n.base_index = i /\ n.base_transaction_id = i /\ n.entries = <<>>
    BY Zenon DEF with_position
  <2>2. n \in Logs
    BY <1>1, EmptyRegistry, Zenon DEF with_position, Logs
  <2> HIDE DEF n
  <2>3. InStep(n) /\ last_transaction_id(n) = i
    BY <2>1, EmptyInStep, Zenon
  <2>4. QED
    BY <2>2, <2>3, Zenon
<1>3. to_sidecar_bytes(n) \in Sidecars
  BY <1>1, Zenon DEF with_position, Sidecars, to_sidecar_bytes
<1>4. n # None /\ to_sidecar_bytes(n) # None
  BY <1>2, <1>3, NoneAssumption, Zenon
<1>5. QED
  BY <1>2, <1>3, <1>4, Zenon DEF with_position, to_sidecar_bytes

(* The commit of a snapshot that found the transaction it was prepared on. *)
LEMMA CommitSnapshotKeeps ==
    ASSUME ReplicationInv, NEW p \in Procs,
           pending[p] # None, pending[p].kind # "entry",
           transaction_id(p.dir) = pending[p].current,
           commit_snapshot_without_check(p)
    PROVE  ReplicationInv'
<1> DEFINE d == p.dir
           w == pending[p].snapshot
           i == w.last_transaction_id
           n == with_position(w.term, i, i)
<1> USE DEF ReplicationInv
<1>1. TypeOK
  BY Zenon
<1>2. d \in Dirs
  BY ProcFacts, Zenon
<1>3. /\ pending[p] \in SnapshotCommits /\ w \in Snapshots
      /\ pending[p].kind = "snapshot"
  BY <1>1, Zenon DEF TypeOK, EntryCommits, SnapshotCommits
<1>4. /\ d # Authority /\ IsPast(w.catalog) /\ Len(w.catalog) = i /\ w.last_index = i
      /\ Len(catalog[d]) < i /\ log[p] # None
  BY <1>3, Zenon DEF SnapshotInv, transaction_id
<1>5. i \in Nat /\ w.term \in Terms /\ w.catalog \in Seq(Ops)
  BY <1>3, ZenonT(60) DEF Snapshots
<1>6. /\ n \in Logs /\ n # None /\ InStep(n)
      /\ last_transaction_id(n) = i
      /\ to_sidecar_bytes(n) \in Sidecars /\ to_sidecar_bytes(n) # None
      /\ to_sidecar_bytes(n).base_index = i
      /\ to_sidecar_bytes(n).base_transaction_id = i
      /\ to_sidecar_bytes(n).entries = <<>>
  BY <1>5, PositionFacts, ZenonT(60)
<1> HIDE DEF n
<1>7. /\ catalog' = [catalog EXCEPT ![d] = w.catalog]
      /\ versions' = [versions EXCEPT ![d] = {i}]
      /\ txrp' = [txrp EXCEPT ![d] = to_sidecar_bytes(n)]
      /\ txrg' = [txrg EXCEPT ![d] = None]
      /\ log' = [log EXCEPT ![p] = n]
      /\ pending' = [pending EXCEPT ![p] = None]
      /\ session' = session /\ sent' = sent
  BY <1>4, Zenon DEF commit_snapshot_without_check, n
<1> HIDE DEF w, i
<1>8. /\ catalog' \in [Dirs -> Seq(Ops)] /\ catalog'[d] = w.catalog
      /\ \A x \in Dirs : x # d => catalog'[x] = catalog[x]
  BY <1>1, <1>2, <1>5, <1>7, Zenon DEF TypeOK
<1>9. /\ txrp' \in [Dirs -> Sidecars \cup {None}] /\ txrp'[d] = to_sidecar_bytes(n)
      /\ \A x \in Dirs : x # d => txrp'[x] = txrp[x]
  BY <1>1, <1>2, <1>6, <1>7, Zenon DEF TypeOK
<1>10. txrg' \in [Dirs -> Registries \cup {None}] /\ txrg'[Authority] = txrg[Authority]
  BY <1>1, <1>2, <1>4, <1>7, NamedProcs, ZenonT(60) DEF TypeOK
<1>11. /\ log' \in [Procs -> Logs \cup {None}] /\ log'[p] = n
       /\ \A q \in Procs : q # p => log'[q] = log[q]
       /\ log'[Server(Authority)] = log[Server(Authority)]
  BY <1>1, <1>4, <1>6, <1>7, NamedProcs DEF TypeOK
<1>12. /\ pending' \in [Procs -> EntryCommits \cup SnapshotCommits \cup {None}]
       /\ pending'[p] = None
       /\ \A q \in Procs : q # p => pending'[q] = pending[q]
  BY <1>1, <1>7, Zenon DEF TypeOK
<1>13. /\ versions' \in [Dirs -> SUBSET Nat] /\ versions'[d] = {i}
       /\ \A x \in Dirs : x # d => versions'[x] = versions[x]
  BY <1>1, <1>2, <1>5, <1>7, Zenon DEF TypeOK
<1>14. TypeOK'
  BY <1>1, <1>7, <1>8, <1>9, <1>10, <1>11, <1>12, <1>13, ZenonT(60) DEF TypeOK
<1>15. \A x \in Dirs : /\ Len(catalog[x]) \in Nat /\ Len(catalog'[x]) \in Nat
                       /\ Len(catalog[x]) <= Len(catalog'[x])
  <2> TAKE x \in Dirs
  <2>1. Len(catalog[x]) \in Nat /\ Len(catalog'[x]) \in Nat
    BY <1>1, <1>8 DEF TypeOK
  <2>2. QED
    BY <1>4, <1>5, <1>8, <2>1
<1>16. VersionsInv'
  <2>1. ASSUME NEW x \in Dirs
        PROVE  versions'[x] \subseteq 1 .. Len(catalog'[x])
    <3>1. CASE x # d
      BY <1>8, <1>13, <3>1, Zenon DEF VersionsInv, transaction_id
    <3>2. CASE x = d
      <4>1. i \in 1 .. Len(catalog'[d])
        BY <1>2, <1>4, <1>5, <1>8, <1>15
      <4>2. QED
        BY <1>13, <3>2, <4>1, Zenon
    <3>3. QED
      BY <3>1, <3>2, Zenon
  <2>2. QED
    BY <2>1, Zenon DEF VersionsInv, transaction_id
<1>17. \A x \in Dirs : DiskInv(x)'
  <2>1. DiskInv(d)'
    <3>1. InStep(txrp'[d]) /\ last_transaction_id(txrp'[d]) = i
      BY <1>5, <1>6, <1>9, EmptyInStep, Zenon
    <3>2. QED
      <4>1. /\ txrp'[d].entries = <<>> /\ Len(catalog'[d]) = i
        BY <1>4, <1>6, <1>8, <1>9, Zenon
      <4>2. ASSUME NEW j \in 1 .. Len(txrp'[d].entries)
            PROVE  FALSE
        BY <4>1
      <4>3. QED
        BY <3>1, <4>1, <4>2, Zenon DEF DiskInv, transaction_id
  <2>2. ASSUME NEW x \in Dirs, x # d
        PROVE  DiskInv(x)'
    BY <1>8, <1>9, <2>2, ZenonT(60) DEF DiskInv, transaction_id
  <2>3. QED
    BY <2>1, <2>2, ZenonT(60)
<1>18. catalog'[Authority] = catalog[Authority]
  BY <1>4, <1>8, NamedProcs, Zenon
<1>19. ASSUME NEW q \in Procs
       PROVE  MemoryInv(q)' /\ EntryInv(q)' /\ SnapshotInv(q)'
  <2>1. q.dir \in Dirs
    BY ProcFacts, Zenon
  <2>2. CASE q = p
    BY <1>6, <1>9, <1>11, <1>12, <2>2, Zenon DEF MemoryInv, EntryInv, SnapshotInv
  <2>3. CASE q # p
    <3>1. log'[q] = log[q] /\ pending'[q] = pending[q]
      BY <1>11, <1>12, <2>3, Zenon
    <3>2. MemoryInv(q)'
      BY <1>6, <1>9, <2>1, <3>1, Zenon DEF MemoryInv
    <3>3. EntryInv(q)'
      <4> DEFINE c == pending[q]
      <4>0. EntryInv(q) /\ session' = session /\ sent' = sent
        BY <1>7, Zenon
      <4> HIDE DEF ReplicationInv
      <4> SUFFICES ASSUME c # None, c.kind = "entry"
                   PROVE  txrp'[q.dir] = c.before
                            => Len(catalog'[q.dir]) = last_transaction_id(log[q])
        BY <3>1, <4>0, ZenonT(60) DEF EntryInv, transaction_id
      <4>1. /\ c.before \in {None, to_sidecar_bytes(log[q])}
            /\ txrp[q.dir] = c.before => Len(catalog[q.dir]) = last_transaction_id(log[q])
        BY <4>0, Zenon DEF EntryInv, transaction_id
      <4>2. CASE q.dir # d
        BY <1>8, <1>9, <2>1, <4>1, <4>2, Zenon
      <4>3. CASE q.dir = d
        <5> SUFFICES ASSUME txrp'[d] = c.before
                     PROVE  Len(catalog'[d]) = last_transaction_id(log[q])
          BY <4>3, Zenon
        <5>1. to_sidecar_bytes(n) = to_sidecar_bytes(log[q])
          BY <1>6, <1>9, <4>1, Zenon
        <5>2. last_transaction_id(log[q]) = last_transaction_id(n)
          BY <5>1, ZenonT(60) DEF to_sidecar_bytes, last_transaction_id
        <5>3. QED
          BY <1>4, <1>6, <1>8, <5>2, Zenon
      <4>4. QED
        BY <4>2, <4>3, ZenonT(60)
    <3>4. SnapshotInv(q)'
      BY <1>18, <3>1, ZenonT(60) DEF SnapshotInv, IsPast, transaction_id
    <3>5. QED
      BY <3>2, <3>3, <3>4, Zenon
  <2>4. QED
    BY <2>2, <2>3, Zenon
<1>20. SentInv'
  <2>1. txrp'[Authority] = txrp[Authority]
    BY <1>4, <1>9, NamedProcs, Zenon
  <2>2. QED
    BY <1>7, <1>11, <1>18, <2>1, ZenonT(60) DEF SentInv, transaction_id
<1>21. FollowerIsPrefix'
  <2>1. ASSUME NEW f \in Followers
        PROVE  IsPast(catalog'[f])
    <3>1. f \in Dirs
      BY NamedProcs, Zenon
    <3>2. CASE f = d
      BY <1>4, <1>8, <3>2, Zenon
    <3>3. CASE f # d
      BY <1>8, <3>1, <3>3, Zenon DEF FollowerIsPrefix
    <3>4. QED
      BY <3>2, <3>3, Zenon
  <2>2. QED
    BY <1>18, <2>1, ZenonT(60) DEF FollowerIsPrefix, IsPast
<1>22. ASSUME NEW f \in Followers
       PROVE  SessionInv(f)'
  <2>1. f \in Dirs /\ Command(f) \in Procs
    BY NamedProcs, Zenon
  <2>2. session[f] # Idle => log'[Command(f)] # None
    BY <1>6, <1>11, <2>1, ZenonT(60) DEF SessionInv
  <2>3. session[f] \in Acknowledgements => session[f].progress.index <= Len(catalog'[f])
    <3>1. SUFFICES ASSUME session[f] \in Acknowledgements
                   PROVE  session[f].progress.index <= Len(catalog'[f])
      BY Zenon
    <3>2. session[f].progress.index \in Nat
      BY <3>1, Zenon DEF Acknowledgements, Positions
    <3>3. session[f].progress.index <= Len(catalog[f])
      BY <3>1, Zenon DEF SessionInv, transaction_id
    <3>4. /\ Len(catalog[f]) \in Nat /\ Len(catalog'[f]) \in Nat
          /\ Len(catalog[f]) <= Len(catalog'[f])
      BY <1>15, <2>1, Zenon
    <3> HIDE DEF ReplicationInv
    <3>5. QED
      BY <3>2, <3>3, <3>4
  <2>4. QED
    BY <1>7, <2>2, <2>3, Zenon DEF SessionInv, transaction_id
<1>23. RegistryInv'
  <2>1. txrg[Authority] # None =>
          \A f \in DOMAIN txrg[Authority] : f \in Dirs /\ txrg[Authority][f].index \in Nat
    BY <1>1, RegistryTyped, Zenon
  <2>2. ASSUME txrg[Authority] # None, NEW f \in DOMAIN txrg[Authority]
        PROVE  txrg[Authority][f].index <= Len(catalog'[f])
    <3>1. f \in Dirs /\ txrg[Authority][f].index \in Nat
      BY <2>1, <2>2, Zenon
    <3>2. txrg[Authority][f].index <= Len(catalog[f])
      BY <2>2, Zenon DEF RegistryInv, transaction_id
    <3>3. /\ Len(catalog[f]) \in Nat /\ Len(catalog'[f]) \in Nat
          /\ Len(catalog[f]) <= Len(catalog'[f])
      BY <1>15, <3>1, Zenon
    <3> HIDE DEF ReplicationInv
    <3>4. QED
      BY <3>1, <3>2, <3>3
  <2>3. txrp'[Authority] = txrp[Authority]
    BY <1>4, <1>9, NamedProcs, Zenon
  <2>4. QED
    BY <1>10, <1>11, <2>2, <2>3, ZenonT(60) DEF RegistryInv, transaction_id
<1>24. QED
  BY <1>14, <1>16, <1>17, <1>19, <1>20, <1>21, <1>22, <1>23, Zenon

(* A session that pulls entries is neither idle nor an acknowledgement. *)
LEMMA PullsAreBusy == \A x \in Pulls : x # Idle /\ x \notin Acknowledgements
BY DEF Pulls, Idle, Acknowledgements

(* A snapshot of the position a follower already has replaces its log and     *)
(* nothing of its catalog.                                                    *)
LEMMA DuplicateKeeps ==
    ASSUME ReplicationInv, NEW p \in Procs, NEW t \in Terms, NEW i \in Nat,
           p.dir # Authority, pending[p] = None, log[p] # None,
           txrp[p.dir] # None,
           txrg' = [txrg EXCEPT ![p.dir] = None],
           log' = [log EXCEPT ![p] = with_position(t, i, i)],
           SamePages(session'),
           UNCHANGED <<catalog, versions, txrp, pending, sent>>
    PROVE  ReplicationInv'
<1> DEFINE n == with_position(t, i, i)
<1> USE DEF ReplicationInv
<1>1. TypeOK
  BY Zenon
<1>2. n \in Logs /\ n # None /\ InStep(n)
  BY PositionFacts, Zenon
<1> HIDE DEF n
<1>3. /\ log' \in [Procs -> Logs \cup {None}] /\ log'[p] = n
      /\ \A q \in Procs : q # p => log'[q] = log[q]
      /\ log'[Server(Authority)] = log[Server(Authority)]
  BY <1>1, <1>2, NamedProcs DEF TypeOK, n
<1>4. /\ txrg' \in [Dirs -> Registries \cup {None}] /\ txrg'[Authority] = txrg[Authority]
  BY <1>1, ProcFacts, NamedProcs DEF TypeOK
<1>5. TypeOK'
  BY <1>1, <1>3, <1>4, Zenon DEF TypeOK, SamePages
<1>6. VersionsInv' /\ \A d \in Dirs : DiskInv(d)'
  BY Zenon DEF VersionsInv, DiskInv, transaction_id
<1>7. ASSUME NEW q \in Procs
      PROVE  MemoryInv(q)' /\ EntryInv(q)' /\ SnapshotInv(q)'
  <2>1. MemoryInv(q)'
    BY <1>2, <1>3, Zenon DEF MemoryInv
  <2>2. CASE q = p
    BY <2>1, <2>2, ZenonT(60) DEF EntryInv, SnapshotInv
  <2>3. CASE q # p
    <3>1. q.kind = "command" => /\ session[q.dir] \in Pulls => session'[q.dir] \in Pulls
                                /\ session[q.dir] \in Pulls
                                     => session'[q.dir].page = session[q.dir].page
      BY ProcFacts, Zenon DEF SamePages
    <3>2. log'[q] = log[q]
      BY <1>3, <2>3, ZenonT(60)
    <3>3. QED
      BY <2>1, <3>1, <3>2 DEF EntryInv, SnapshotInv, IsPast, transaction_id
  <2>4. QED
    BY <2>2, <2>3, Zenon
<1>8. SentInv' /\ FollowerIsPrefix' /\ RegistryInv'
  <2>1. SentInv'
    BY <1>3, ZenonT(60) DEF SentInv, transaction_id
  <2>2. FollowerIsPrefix'
    BY ZenonT(60) DEF FollowerIsPrefix, IsPast
  <2>3. RegistryInv'
    BY <1>3, <1>4, ZenonT(60) DEF RegistryInv, transaction_id
  <2>4. QED
    BY <2>1, <2>2, <2>3, Zenon
<1>9. ASSUME NEW f \in Followers
      PROVE  SessionInv(f)'
  <2>1. log[Command(f)] # None => log'[Command(f)] # None
    BY <1>2, <1>3, NamedProcs, Zenon
  <2>2. CASE session'[f] = session[f]
    BY <2>1, <2>2, Zenon DEF SessionInv, transaction_id
  <2>3. CASE /\ session[f] \in Pulls /\ session'[f] \in Pulls
             /\ session'[f].page = session[f].page
    <3>1. session[f] # Idle /\ session'[f] \notin Acknowledgements
      BY <2>3, PullsAreBusy, Zenon
    <3>2. QED
      BY <2>1, <2>3, <3>1, Zenon DEF SessionInv
  <2>4. QED
    BY <2>2, <2>3, Zenon DEF SamePages
<1>10. QED
  BY <1>5, <1>6, <1>7, <1>8, <1>9, Zenon

(* gc_mvcc removes old versions only. *)
LEMMA GcKeeps ==
    ASSUME ReplicationInv, NEW d \in Dirs, NEW keep, gc_mvcc(d, keep)
    PROVE  ReplicationInv'
<1> USE DEF ReplicationInv
<1>1. /\ versions' \in [Dirs -> SUBSET Nat]
      /\ \A x \in Dirs : versions'[x] \subseteq versions[x]
  BY Zenon DEF gc_mvcc, TypeOK
<1>2. UNCHANGED <<catalog, txrp, txrg, log, pending, session, sent>>
  BY Zenon DEF gc_mvcc
<1>3. TypeOK' /\ VersionsInv'
  BY <1>1, <1>2, Zenon DEF TypeOK, VersionsInv, transaction_id
<1>4. \A x \in Dirs : DiskInv(x)'
  BY <1>2, ZenonT(60) DEF DiskInv, transaction_id
<1>5. \A q \in Procs : MemoryInv(q)' /\ EntryInv(q)' /\ SnapshotInv(q)'
  BY <1>2, ZenonT(60) DEF MemoryInv, EntryInv, SnapshotInv, IsPast, transaction_id
<1>6. SentInv' /\ FollowerIsPrefix' /\ RegistryInv'
  BY <1>2, Zenon DEF SentInv, FollowerIsPrefix, RegistryInv, IsPast, transaction_id
<1>7. \A f \in Followers : SessionInv(f)'
  BY <1>2, Zenon DEF SessionInv, transaction_id
<1>8. QED
  BY <1>3, <1>4, <1>5, <1>6, <1>7, Zenon

(* The length and the members of the rest of a sequence. *)
LEMMA RestOfSeq ==
    ASSUME NEW S, NEW s \in Seq(S), NEW k \in Nat, k <= Len(s)
    PROVE  /\ SubSeq(s, k + 1, Len(s)) \in Seq(S)
           /\ Len(SubSeq(s, k + 1, Len(s))) = Len(s) - k
           /\ \A j \in 1 .. Len(SubSeq(s, k + 1, Len(s))) : SubSeq(s, k + 1, Len(s))[j] = s[k + j]
<1>1. k + 1 \in Nat /\ Len(s) \in Nat /\ 1 <= k + 1
  OBVIOUS
<1>2. /\ SubSeq(s, k + 1, Len(s)) \in Seq(S)
      /\ Len(SubSeq(s, k + 1, Len(s))) = IF k + 1 <= Len(s) THEN Len(s) - (k + 1) + 1 ELSE 0
      /\ \A j \in 1 .. Len(SubSeq(s, k + 1, Len(s))) :
            SubSeq(s, k + 1, Len(s))[j] = s[(k + 1) + j - 1]
  <2> DEFINE i == k + 1
             j == Len(s)
  <2>1. i \in Nat /\ j \in Nat /\ 1 <= i /\ j <= Len(s)
    BY <1>1
  <2> HIDE DEF i, j
  <2>2. /\ SubSeq(s, i, j) \in Seq(S)
        /\ Len(SubSeq(s, i, j)) = IF i <= j THEN j - i + 1 ELSE 0
        /\ \A m \in 1 .. Len(SubSeq(s, i, j)) : SubSeq(s, i, j)[m] = s[i + m - 1]
    BY <2>1, SubSeqTyped
  <2>3. QED
    BY <2>2, Zenon DEF i, j
<1>3. Len(SubSeq(s, k + 1, Len(s))) = Len(s) - k
  <2>1. \A m \in Nat : k <= m => (IF k + 1 <= m THEN m - (k + 1) + 1 ELSE 0) = m - k
    OBVIOUS
  <2>2. QED
    BY <1>1, <1>2, <2>1, Zenon
<1>4. ASSUME NEW j \in 1 .. Len(SubSeq(s, k + 1, Len(s)))
      PROVE  (k + 1) + j - 1 = k + j
  BY <1>3
<1>5. QED
  BY <1>2, <1>3, <1>4, Zenon

(* compact_through removes entries that every registered follower has         *)
(* acknowledged.                                                              *)
LEMMA CompactKeeps ==
    ASSUME ReplicationInv, NEW i \in Nat, compact_through(i)
    PROVE  ReplicationInv'
<1> DEFINE p == Server(Authority)
           l == log[p]
           k == i - l.base_index
           n == compacted(l, i, k)
<1> USE DEF ReplicationInv
<1>1. TypeOK
  BY Zenon
<1>2. p \in Procs /\ Authority \in Dirs /\ p.dir = Authority /\ p.kind = "server"
  BY NamedProcs, Zenon
<1>3. /\ l # None /\ pending[p] = None
      /\ i \in (l.base_index + 1) .. last_index(l)
      /\ txrp[Authority] = to_sidecar_bytes(l)
      /\ txrp' = [txrp EXCEPT ![Authority] = to_sidecar_bytes(n)]
      /\ log' = [log EXCEPT ![p] = n]
      /\ UNCHANGED <<catalog, versions, txrg, pending, session, sent>>
      /\ \A acknowledged \in safe_compaction_index(l) : i <= acknowledged
  BY Zenon DEF compact_through, compact
<1>4. l \in Logs /\ InStep(l) /\ l.entries \in Seq(sent)
  BY <1>1, <1>2, <1>3, Zenon DEF TypeOK, MemoryInv, SentInv
<1>5. /\ l.term \in Terms /\ l.base_index \in Nat /\ l.base_transaction_id = l.base_index
      /\ l.entries \in Seq(Entries) /\ l.followers \in Registries /\ Len(l.entries) \in Nat
  BY <1>4 DEF Logs, InStep
<1>6. /\ k \in Nat /\ 1 <= k + 1 /\ k <= Len(l.entries) /\ k + 1 \in Nat
      /\ l.base_index + k = i
  <2> DEFINE b == l.base_index
             m == Len(l.entries)
  <2>1. b \in Nat /\ m \in Nat /\ i \in (b + 1) .. (b + m) /\ k = i - b
    BY <1>3, <1>5, Zenon DEF last_index
  <2> HIDE DEF b, m, k, l, p, ReplicationInv
  <2>2. k \in Nat /\ 1 <= k + 1 /\ k <= m /\ k + 1 \in Nat /\ b + k = i
    BY <2>1
  <2>3. QED
    BY <2>2, Zenon DEF b, m
<1> DEFINE rest == SubSeq(l.entries, k + 1, Len(l.entries))
<1>7. /\ rest \in Seq(Entries) /\ rest \in Seq(sent)
      /\ Len(rest) = Len(l.entries) - k
      /\ \A j \in 1 .. Len(rest) : rest[j] = l.entries[k + j]
  <2>1. l.entries \in Seq(sent) /\ l.entries \in Seq(Entries) /\ k \in Nat /\ k <= Len(l.entries)
    BY <1>4, <1>5, <1>6, Zenon
  <2>2. QED
    BY <2>1, RestOfSeq, ZenonT(60)
<1>8. n = [l EXCEPT !.base_index = i, !.base_transaction_id = i, !.entries = rest]
  <2>1. l.base_transaction_id + i - l.base_index = i
    BY <1>5
  <2>2. QED
    BY <2>1, Zenon DEF compacted
<1> HIDE DEF n, rest
<1>9. /\ n \in Logs /\ n.term = l.term /\ n.base_index = i /\ n.base_transaction_id = i
      /\ n.entries = rest /\ n.followers = l.followers
  BY <1>4, <1>5, <1>7, <1>8, Zenon DEF Logs
<1>10. to_sidecar_bytes(n) \in Sidecars
  BY <1>9, Zenon DEF Logs, Sidecars, to_sidecar_bytes
<1>11. to_sidecar_bytes(n) # None /\ n # None
  BY <1>9, <1>10, NoneAssumption, Zenon
<1> HIDE DEF l, k, p
<1>12. \A j \in 1 .. Len(rest) : /\ k + j \in 1 .. Len(l.entries)
                                 /\ l.base_index + (k + j) = i + j
  <2> TAKE j \in 1 .. Len(rest)
  <2>1. /\ k \in Nat /\ l.base_index \in Nat /\ Len(l.entries) \in Nat
        /\ l.base_index + k = i /\ Len(rest) = Len(l.entries) - k
    BY <1>5, <1>6, <1>7, Zenon
  <2> HIDE DEF InStep
  <2>2. QED
    BY <2>1
<1>13. InStep(n)
  <2>1. \A m \in 1 .. Len(l.entries) :
          /\ l.entries[m].term = l.term
          /\ l.entries[m].index = l.base_index + m
          /\ l.entries[m].transaction_id = l.base_index + m
    BY <1>4, <1>5 DEF InStep, validate
  <2>2. ASSUME NEW j \in DOMAIN n.entries
        PROVE  /\ n.entries[j].term = n.term
               /\ n.entries[j].index = n.base_index + j
               /\ n.entries[j].transaction_id = n.base_transaction_id + j
    <3>1. j \in 1 .. Len(rest)
      BY <1>7, <1>9
    <3>2. rest[j] = l.entries[k + j]
      BY <1>7, <3>1, Zenon
    <3>3. k + j \in 1 .. Len(l.entries) /\ l.base_index + (k + j) = i + j
      BY <1>12, <3>1, Zenon
    <3>4. QED
      BY <1>9, <2>1, <3>2, <3>3, Zenon
  <2>3. QED
    BY <1>9, <2>2, ZenonT(60) DEF InStep, validate
<1>14. /\ txrp' \in [Dirs -> Sidecars \cup {None}] /\ txrp'[Authority] = to_sidecar_bytes(n)
       /\ \A x \in Dirs : x # Authority => txrp'[x] = txrp[x]
  BY <1>1, <1>2, <1>3, <1>10, Zenon DEF TypeOK
<1>15. /\ log' \in [Procs -> Logs \cup {None}] /\ log'[p] = n
       /\ \A q \in Procs : q # p => log'[q] = log[q]
  BY <1>1, <1>2, <1>3, <1>9, Zenon DEF TypeOK
<1>16. TypeOK' /\ VersionsInv'
  BY <1>1, <1>3, <1>14, <1>15, Zenon DEF TypeOK, VersionsInv, transaction_id
<1>17. \A x \in Dirs : DiskInv(x)'
  <2>1. DiskInv(Authority)'
    <3>1. /\ txrp'[Authority].base_index = i /\ txrp'[Authority].base_transaction_id = i
          /\ txrp'[Authority].entries = rest /\ txrp'[Authority].term = l.term
      BY <1>9, <1>14, SidecarFields, Zenon
    <3>2. InStep(txrp'[Authority])
      BY <1>9, <1>13, <3>1, Zenon DEF InStep, validate
    <3>3. /\ l.base_index + Len(l.entries) = Len(catalog[Authority])
          /\ \A m \in 1 .. Len(l.entries) :
                l.entries[m].op = catalog[Authority][l.base_index + m]
      <4>1. /\ txrp[Authority] # None /\ txrp[Authority].base_transaction_id = l.base_index
            /\ txrp[Authority].base_index = l.base_index /\ txrp[Authority].entries = l.entries
        <5>1. to_sidecar_bytes(l) \in Sidecars
          BY <1>4, Zenon DEF Logs, Sidecars, to_sidecar_bytes
        <5>2. QED
          BY <1>3, <1>5, <5>1, NoneAssumption, SidecarFields, Zenon
      <4>2. QED
        BY <1>2, <4>1, ZenonT(60) DEF DiskInv, last_transaction_id, transaction_id
    <3>4. last_transaction_id(txrp'[Authority]) = Len(catalog[Authority])
      <4>1. i + Len(rest) = l.base_index + Len(l.entries)
        <5> DEFINE b == l.base_index
                   m == Len(l.entries)
                   r == Len(rest)
        <5>1. b \in Nat /\ m \in Nat /\ k \in Nat /\ b + k = i /\ r = m - k
          BY <1>5, <1>6, <1>7, Zenon
        <5> HIDE DEF b, m, r, ReplicationInv
        <5>2. i + r = b + m
          BY <5>1
        <5>3. QED
          BY <5>2, Zenon DEF b, m, r
      <4>2. QED
        BY <3>1, <3>3, <4>1, Zenon DEF last_transaction_id
    <3>5. ASSUME NEW j \in 1 .. Len(rest)
          PROVE  rest[j].op = catalog[Authority][i + j]
      <4>1. rest[j] = l.entries[k + j]
        BY <1>7, Zenon
      <4>2. k + j \in 1 .. Len(l.entries) /\ l.base_index + (k + j) = i + j
        BY <1>12, Zenon
      <4>3. QED
        BY <3>3, <4>1, <4>2, Zenon
    <3>6. QED
      BY <1>3, <3>1, <3>2, <3>4, <3>5, Zenon DEF DiskInv, transaction_id
  <2>2. ASSUME NEW x \in Dirs, x # Authority
        PROVE  DiskInv(x)'
    BY <1>3, <1>14, <2>2, Zenon DEF DiskInv, transaction_id
  <2>3. QED
    BY <2>1, <2>2, Zenon
<1>18. ASSUME NEW q \in Procs
       PROVE  MemoryInv(q)' /\ EntryInv(q)' /\ SnapshotInv(q)'
  <2>1. CASE q = p
    BY <1>2, <1>3, <1>11, <1>13, <1>14, <1>15, <2>1, ZenonT(60) DEF MemoryInv, EntryInv, SnapshotInv
  <2>2. CASE q # p
    <3>1. q.dir \in Dirs /\ q.dir # Authority
      BY <2>2, ProcFacts, Zenon DEF p
    <3>2. log'[q] = log[q] /\ txrp'[q.dir] = txrp[q.dir]
      BY <1>14, <1>15, <2>2, <3>1, Zenon
    <3>3. pending'[q] = pending[q] /\ session'[q.dir] = session[q.dir]
      BY <1>3, Zenon
    <3>4. MemoryInv(q) /\ EntryInv(q) /\ SnapshotInv(q)
      BY Zenon
    <3>5. QED
      BY <1>3, <3>2, <3>3, <3>4, ProcUntouched, ZenonT(60)
  <2>3. QED
    BY <2>1, <2>2, Zenon
<1>19. SentInv'
  <2>1. txrp'[Authority].entries = rest /\ log'[Server(Authority)].entries = rest
    BY <1>9, <1>14, <1>15, SidecarFields, Zenon DEF p
  <2>2. QED
    BY <1>3, <1>7, <2>1, Zenon DEF SentInv, transaction_id
<1>20. FollowerIsPrefix'
  BY <1>3, ZenonT(60) DEF FollowerIsPrefix, IsPast
<1>21. \A f \in Followers : SessionInv(f)'
  <2> TAKE f \in Followers
  <2>1. log'[Command(f)] = log[Command(f)]
    BY <1>15, NamedProcs, Zenon DEF p
  <2>2. QED
    BY <1>3, <2>1, ZenonT(60) DEF SessionInv, transaction_id
<1>22. RegistryInv'
  <2>1. \A f \in DOMAIN l.followers : i <= l.followers[f].index
    BY <1>3, Zenon DEF safe_compaction_index
  <2>2. /\ log'[Server(Authority)].followers = l.followers
        /\ log'[Server(Authority)].base_index = i /\ txrp'[Authority].base_index = i
    BY <1>9, <1>14, <1>15, SidecarFields, ZenonT(60) DEF p
  <2>3. l.followers = IF txrg[Authority] = None THEN <<>> ELSE txrg[Authority]
    BY <1>3, Zenon DEF RegistryInv, l, p
  <2>4. QED
    BY <1>3, <2>1, <2>2, <2>3, Zenon DEF RegistryInv, transaction_id
<1>23. QED
  BY <1>16, <1>17, <1>18, <1>19, <1>20, <1>21, <1>22, Zenon

(* A step that changes nothing keeps the invariant. *)
LEMMA StutterKeeps ==
    ASSUME ReplicationInv,
           UNCHANGED <<catalog, versions, txrp, txrg, log, pending, session, sent>>
    PROVE  ReplicationInv'
<1> USE DEF ReplicationInv
<1>1. TypeOK' /\ VersionsInv' /\ FollowerIsPrefix' /\ RegistryInv' /\ SentInv'
  BY Zenon DEF TypeOK, VersionsInv, FollowerIsPrefix, IsPast, RegistryInv, SentInv, transaction_id
<1>2. \A d \in Dirs : DiskInv(d)'
  BY Zenon DEF DiskInv, transaction_id
<1>3. \A p \in Procs : MemoryInv(p)' /\ EntryInv(p)' /\ SnapshotInv(p)'
  BY ZenonT(60) DEF MemoryInv, EntryInv, SnapshotInv, IsPast, transaction_id
<1>4. \A f \in Followers : SessionInv(f)'
  BY Zenon DEF SessionInv, transaction_id
<1>5. QED
  BY <1>1, <1>2, <1>3, <1>4, Zenon

(* commit_steps_with_sidecar, of an entry or of a snapshot, checked under the *)
(* lock.                                                                      *)
LEMMA CommitKeeps ==
    ASSUME ReplicationInv, NEW p \in Procs, commit(p)
    PROVE  ReplicationInv'
<1>1. CASE pending[p].kind = "entry"
  BY <1>1, CommitEntryKeeps, FailKeeps, Zenon DEF commit, commit_steps_with_sidecar
<1>2. CASE pending[p].kind # "entry"
  BY <1>2, CommitSnapshotKeeps, FailKeeps, Zenon DEF commit, install_snapshot_with_sidecars
<1>3. QED
  BY <1>1, <1>2, Zenon

(* An entry of the term of the log is prepared, or the process fails. *)
LEMMA ApplyKeeps ==
    ASSUME ReplicationInv, NEW p \in Procs, NEW e \in Entries,
           log[p] # None, e.term = log[p].term,
           p.dir # Authority => e \in sent,
           p.kind = "command" => session[p.dir] \in Pulls /\ session[p.dir].page # <<>>,
           apply_new(p, e)
    PROVE  ReplicationInv'
<1> DEFINE c == [kind |-> "entry", entry |-> e, before |-> txrp[p.dir]]
<1>1. CASE applicable(log[p], p.dir, e)
  <2>1. /\ pending' = [pending EXCEPT ![p] = c] /\ session' = session
        /\ UNCHANGED <<catalog, versions, txrp, txrg, log, sent>>
    BY <1>1, Zenon DEF apply_new
  <2>2. txrp[p.dir] \in Sidecars \cup {None} /\ session \in [Followers -> Sessions]
    BY ProcFacts, Zenon DEF ReplicationInv, TypeOK
  <2>3. c \in EntryCommits
    BY <2>2, Zenon DEF EntryCommits
  <2>4. c.kind = "entry" /\ c.entry = e /\ c.before = txrp[p.dir]
    BY Zenon
  <2> HIDE DEF c
  <2>5. EntryFits(p, c)
    BY <1>1, <2>4, Zenon DEF EntryFits
  <2>6. SamePages(session')
    BY <2>1, <2>2, Zenon DEF SamePages
  <2>7. QED
    BY <2>1, <2>3, <2>5, <2>6, PrepareKeeps, Zenon
<1>2. CASE ~applicable(log[p], p.dir, e)
  BY <1>2, FailKeeps, Zenon DEF apply_new
<1>3. QED
  BY <1>1, <1>2, Zenon

(* A page entry that is a duplicate is dropped. *)
LEMMA PageDoneKeeps ==
    ASSUME ReplicationInv, NEW p \in Procs, log[p] # None, pending[p] = None,
           p.kind = "command" => session[p.dir] \in Pulls /\ session[p.dir].page # <<>>,
           session' = page_done(p),
           UNCHANGED <<catalog, versions, txrp, txrg, log, pending, sent>>
    PROVE  ReplicationInv'
<1>1. CASE p.kind = "command"
  <2> DEFINE f == p.dir
             s == [session[f] EXCEPT !.page = Tail(@)]
  <2>1. f \in Followers /\ p = Command(f)
    BY <1>1, ProcFacts, Zenon
  <2>2. session' = [session EXCEPT ![f] = s]
    BY <1>1, Zenon DEF page_done
  <2>3. session[f] \in Pulls /\ session[f].page \in Seq(sent) /\ session[f].page # <<>>
    BY <1>1, <2>1, Zenon DEF ReplicationInv, SessionInv
  <2>4. Tail(session[f].page) \in Seq(sent)
    BY <2>3, TailTyped, Zenon
  <2>5. Tail(session[f].page) \in Seq(Entries)
    <3>1. sent \subseteq Entries
      BY Zenon DEF ReplicationInv, TypeOK
    <3>2. QED
      BY <2>4, <3>1, WiderSeq, Zenon
  <2>6. s \in Pulls /\ s.page = Tail(session[f].page) /\ s.step = "pull"
    BY <2>3, <2>5, Zenon DEF Pulls
  <2>7. s \in Sessions /\ s \notin Acknowledgements
    BY <2>6, Zenon DEF Sessions, Acknowledgements
  <2> HIDE DEF s
  <2>8. QED
    BY <2>1, <2>2, <2>4, <2>6, <2>7, SessionKeeps, Zenon
<1>2. CASE p.kind # "command"
  BY <1>2, StutterKeeps, Zenon DEF page_done
<1>3. QED
  BY <1>1, <1>2, Zenon

(* receive: an entry is a duplicate, is refused, or fits the end of the log. *)
LEMMA ReceiveKeeps ==
    ASSUME ReplicationInv, NEW p \in Procs, NEW e \in sent,
           log[p] # None, pending[p] = None,
           p.kind = "command" => session[p.dir] \in Pulls /\ session[p.dir].page # <<>>,
           receive(p, e)
    PROVE  ReplicationInv'
<1> DEFINE r == receive_outcome(log[p], p.dir, e)
<1>1. CASE r = "new"
  <2>1. e.term = log[p].term /\ e \in Entries /\ apply_new(p, e)
    BY <1>1, Zenon DEF receive, receive_outcome, ReplicationInv, TypeOK
  <2>2. QED
    BY <2>1, ApplyKeeps, Zenon
<1>2. CASE r = "duplicate"
  <2>1. session' = page_done(p) /\ UNCHANGED <<catalog, versions, txrp, txrg, log, pending, sent>>
    BY <1>2, Zenon DEF receive
  <2>2. QED
    BY <2>1, PageDoneKeeps, Zenon
<1>3. CASE r # "new" /\ r # "duplicate"
  BY <1>3, FailKeeps, Zenon DEF receive
<1>4. QED
  BY <1>1, <1>2, <1>3, Zenon

(* The server of a follower receives an entry, late, repeated or out of       *)
(* order.                                                                     *)
LEMMA ReceiveEntryKeeps ==
    ASSUME ReplicationInv, NEW f \in Followers, NEW e \in sent, receive_entry(f, e)
    PROVE  ReplicationInv'
<1>1. Server(f) \in Procs /\ Server(f).kind = "server"
  BY NamedProcs, Zenon DEF receive_entry
<1>2. QED
  BY <1>1, ReceiveKeeps, Zenon DEF receive_entry

(* A snapshot of the authority is a past state of its catalog. *)
LEMMA SnapshotFacts ==
    ASSUME ReplicationInv, NEW i \in 0 .. Len(catalog[Authority])
    PROVE  /\ snapshot_at(i) \in Snapshots /\ IsPast(snapshot_at(i).catalog)
           /\ snapshot_at(i).term = Term /\ Len(snapshot_at(i).catalog) = i /\ i \in Nat
           /\ snapshot_at(i).last_index = i /\ snapshot_at(i).last_transaction_id = i
<1> DEFINE c == SubSeq(catalog[Authority], 1, i)
<1>1. catalog[Authority] \in Seq(Ops)
  BY NamedProcs, Zenon DEF ReplicationInv, TypeOK
<1>2. Len(catalog[Authority]) \in Nat /\ i \in Nat /\ i <= Len(catalog[Authority])
  BY <1>1
<1>3. /\ c \in Seq(Ops)
      /\ Len(c) = IF 1 <= i THEN i - 1 + 1 ELSE 0
      /\ \A k \in 1 .. Len(c) : c[k] = catalog[Authority][1 + k - 1]
  BY <1>1, <1>2, SubSeqTyped
<1>4. Len(c) = i
  BY <1>2, <1>3
<1>5. ASSUME NEW k \in 1 .. Len(c)
      PROVE  1 + k - 1 = k
  BY <1>2, <1>4
<1>6. IsPast(c)
  BY <1>2, <1>3, <1>4, <1>5, Zenon DEF IsPast
<1>7. Term \in Terms
  BY Sets, Zenon
<1>8. snapshot_at(i) \in Snapshots
  BY <1>2, <1>3, <1>7, Zenon DEF Snapshots, snapshot_at
<1>9. QED
  BY <1>2, <1>4, <1>6, <1>8, Zenon DEF snapshot_at

(* install_snapshot, of a catalog the authority had. *)
LEMMA InstallKeeps ==
    ASSUME ReplicationInv, NEW p \in Procs, NEW i \in 0 .. Len(catalog[Authority]), NEW next,
           p.dir # Authority, log[p] # None, pending[p] = None,
           SamePages(next), install_snapshot(p, snapshot_at(i), next)
    PROVE  ReplicationInv'
<1> DEFINE s == snapshot_at(i)
<1>1. /\ s \in Snapshots /\ IsPast(s.catalog) /\ s.term = Term /\ Len(s.catalog) = i /\ i \in Nat
      /\ s.last_index = i /\ s.last_transaction_id = i /\ Term \in Terms
  BY SnapshotFacts, Sets, Zenon
<1>2. /\ catalog[p.dir] \in Seq(Ops) /\ txrp[p.dir] \in Sidecars \cup {None}
      /\ txrg[p.dir] \in Registries \cup {None}
  BY ProcFacts, Zenon DEF ReplicationInv, TypeOK
<1>3. transaction_id(p.dir) \in Nat
  BY <1>2 DEF transaction_id
<1> HIDE DEF s
<1>4. \/ fail(p)
      \/ transaction_id(p.dir) = i /\ install_duplicate(p, s, next)
      \/ /\ ~(transaction_id(p.dir) > i) /\ transaction_id(p.dir) # i
         /\ install_newer(p, s, next)
  BY <1>1, Zenon DEF install_snapshot, s
<1>5. CASE install_duplicate(p, s, next)
  <2> DEFINE n == with_position(Term, i, i)
  <2>1. CASE /\ txrp[p.dir] = to_sidecar_bytes(n)
             /\ txrg' = [txrg EXCEPT ![p.dir] = None]
             /\ log' = [log EXCEPT ![p] = n]
             /\ session' = next
             /\ UNCHANGED <<catalog, versions, txrp, pending, sent>>
    <3>1. txrp[p.dir] # None
      BY <1>1, <2>1, PositionFacts, Zenon
    <3>2. QED
      BY <1>1, <2>1, <3>1, DuplicateKeeps, Zenon
  <2>2. QED
    BY <1>1, <1>5, <2>1, FailKeeps, Zenon DEF install_duplicate
<1>6. CASE /\ ~(transaction_id(p.dir) > i) /\ transaction_id(p.dir) # i
           /\ install_newer(p, s, next)
  <2> DEFINE c == [kind |-> "snapshot", snapshot |-> s, current |-> transaction_id(p.dir),
                   before |-> txrp[p.dir], progress |-> txrg[p.dir]]
  <2>1. /\ pending' = [pending EXCEPT ![p] = c] /\ session' = next
        /\ UNCHANGED <<catalog, versions, txrp, txrg, log, sent>>
    BY <1>6, Zenon DEF install_newer
  <2>2. c \in SnapshotCommits
    BY <1>1, <1>2, <1>3, Zenon DEF SnapshotCommits
  <2>3. c.kind = "snapshot" /\ c.snapshot = s /\ c.current = transaction_id(p.dir)
    BY Zenon
  <2> HIDE DEF c
  <2>4. transaction_id(p.dir) < i
    BY <1>1, <1>3, <1>6
  <2>5. SnapshotFits(p, c)
    BY <1>1, <2>3, <2>4, Zenon DEF SnapshotFits
  <2>6. QED
    BY <2>1, <2>2, <2>5, PrepareKeeps, Zenon
<1>7. QED
  BY <1>4, <1>5, <1>6, FailKeeps, Zenon

(* The server of a follower receives a snapshot. *)
LEMMA ReceiveSnapshotKeeps ==
    ASSUME ReplicationInv, NEW f \in Followers, NEW i \in DOMAIN catalog[Authority],
           receive_snapshot(f, snapshot_at(i))
    PROVE  ReplicationInv'
<1>1. /\ Server(f) \in Procs /\ Server(f).dir = f /\ f # Authority
      /\ log[Server(f)] # None /\ pending[Server(f)] = None
      /\ install_snapshot(Server(f), snapshot_at(i), session)
  BY NamedProcs, Zenon DEF receive_snapshot
<1>2. catalog[Authority] \in Seq(Ops) /\ session \in [Followers -> Sessions]
  BY NamedProcs, Zenon DEF ReplicationInv, TypeOK
<1>3. i \in 0 .. Len(catalog[Authority])
  BY <1>2
<1>4. SamePages(session)
  BY <1>2, Zenon DEF SamePages
<1>5. QED
  BY <1>1, <1>3, <1>4, InstallKeeps, Zenon

(* What a command knows at each step of its session. *)
LEMMA SessionFacts ==
    ASSUME ReplicationInv, NEW f \in Followers, session[f].step # "idle"
    PROVE  /\ Command(f) \in Procs /\ Command(f).kind = "command" /\ Command(f).dir = f
           /\ f \in Dirs /\ f # Authority
           /\ log[Command(f)] \in Logs /\ log[Command(f)] # None /\ InStep(log[Command(f)])
           /\ session[f].step = "check" => session[f] \in Checks
           /\ session[f].step = "pull" => session[f] \in Pulls /\ session[f].page \in Seq(sent)
           /\ session[f].step = "acknowledge" => session[f] \in Acknowledgements
<1>1. /\ Command(f) \in Procs /\ Command(f).kind = "command" /\ Command(f).dir = f
      /\ f \in Dirs /\ f # Authority
  BY NamedProcs, Zenon
<1>2. session[f] \in Sessions /\ SessionInv(f) /\ MemoryInv(Command(f))
      /\ log[Command(f)] \in Logs \cup {None}
  BY <1>1, Zenon DEF ReplicationInv, TypeOK
<1>3. session[f] # Idle
  BY DEF Idle
<1>4. log[Command(f)] # None /\ log[Command(f)] \in Logs /\ InStep(log[Command(f)])
  BY <1>2, <1>3, Zenon DEF SessionInv, MemoryInv
<1>5. /\ session[f].step = "check" => session[f] \in Checks
      /\ session[f].step = "pull" => session[f] \in Pulls
      /\ session[f].step = "acknowledge" => session[f] \in Acknowledgements
  <2>1. /\ \A s \in Checks : s.step = "check"
        /\ \A s \in Pulls : s.step = "pull"
        /\ \A s \in Acknowledgements : s.step = "acknowledge"
    BY Zenon DEF Checks, Pulls, Acknowledgements
  <2>2. \A s \in {Idle, [step |-> "status"]} : s.step \in {"idle", "status"}
    BY DEF Idle
  <2>3. session[f] \in {Idle, [step |-> "status"]} \cup Checks \cup Pulls \cup Acknowledgements
    BY <1>2, Zenon DEF Sessions
  <2>4. QED
    BY <2>1, <2>2, <2>3, Zenon
<1>6. QED
  BY <1>1, <1>2, <1>4, <1>5, Zenon DEF SessionInv

(* What a log is made of. *)
LEMMA LogFacts ==
    ASSUME NEW l \in Logs
    PROVE  /\ l.term \in Terms /\ l.base_index \in Nat /\ l.base_transaction_id \in Nat
           /\ l.entries \in Seq(Entries) /\ Len(l.entries) \in Nat /\ l.followers \in Registries
           /\ last_index(l) \in Nat /\ last_transaction_id(l) \in Nat
<1>1. /\ l.term \in Terms /\ l.base_index \in Nat /\ l.base_transaction_id \in Nat
      /\ l.entries \in Seq(Entries) /\ l.followers \in Registries
  BY Zenon DEF Logs
<1>2. Len(l.entries) \in Nat
  BY <1>1
<1>3. last_index(l) \in Nat /\ last_transaction_id(l) \in Nat
  BY <1>1, <1>2 DEF last_index, last_transaction_id
<1>4. QED
  BY <1>1, <1>2, <1>3, Zenon

(* A catch-up command starts. *)
LEMMA CatchUpKeeps ==
    ASSUME ReplicationInv, NEW f \in Followers, catch_up(f)
    PROVE  ReplicationInv'
<1> DEFINE s == [step |-> "pull", target |-> session[f].target,
                 base_index |-> session[f].base_index, attempted |-> FALSE, page |-> <<>>]
<1>1. /\ session[f].step = "check" /\ pending[Command(f)] = None
      /\ \/ fail(Command(f))
         \/ /\ session' = [session EXCEPT ![f] = s]
            /\ UNCHANGED <<catalog, versions, txrp, txrg, log, pending, sent>>
  BY Zenon DEF catch_up, At, Goes
<1>2. log[Command(f)] # None /\ Command(f) \in Procs /\ session[f] \in Checks
  BY <1>1, SessionFacts, Zenon
<1>3. <<>> \in Seq(sent) /\ <<>> \in Seq(Entries)
  OBVIOUS
<1>4. s \in Pulls /\ s.page = <<>>
  BY <1>2, <1>3, Zenon DEF Checks, Pulls
<1>5. s \in Sessions /\ s \notin Acknowledgements
  BY <1>4, Zenon DEF Sessions, Pulls, Acknowledgements
<1> HIDE DEF s
<1>6. QED
  BY <1>1, <1>2, <1>3, <1>4, <1>5, FailKeeps, SessionKeeps, Zenon

(* A catch-up command installs the snapshot it was sent. *)
LEMMA InstallLocalKeeps ==
    ASSUME ReplicationInv, NEW f \in Followers, install_local_snapshot(f)
    PROVE  ReplicationInv'
<1> DEFINE i == transaction_id(Authority)
           next == [session EXCEPT ![f].attempted = TRUE]
           s == [session[f] EXCEPT !.attempted = TRUE]
<1>1. /\ session[f].step = "pull" /\ pending[Command(f)] = None
      /\ install_snapshot(Command(f), snapshot_at(i), next)
  BY Zenon DEF install_local_snapshot, At
<1>2. /\ log[Command(f)] # None /\ Command(f) \in Procs /\ Command(f).dir = f /\ f # Authority
      /\ session[f] \in Pulls
  BY <1>1, SessionFacts, Zenon
<1>3. catalog[Authority] \in Seq(Ops) /\ session \in [Followers -> Sessions]
  BY NamedProcs, Zenon DEF ReplicationInv, TypeOK
<1>4. i \in 0 .. Len(catalog[Authority])
  BY <1>3 DEF transaction_id
<1>5. s \in Pulls /\ s.page = session[f].page
  BY <1>2, Zenon DEF Pulls
<1>6. s \in Sessions
  BY <1>5, Zenon DEF Sessions
<1>7. next = [session EXCEPT ![f] = s]
  BY Zenon
<1> HIDE DEF s
<1>8. SamePages(next)
  BY <1>2, <1>3, <1>5, <1>6, <1>7, Zenon DEF SamePages
<1> HIDE DEF next, i
<1>9. QED
  BY <1>1, <1>2, <1>4, <1>8, InstallKeeps, Zenon

(* A catch-up command applies the next entry of its page. *)
LEMMA ReceiveBatchKeeps ==
    ASSUME ReplicationInv, NEW f \in Followers, receive_batch(f)
    PROVE  ReplicationInv'
<1>1. /\ session[f].step = "pull" /\ pending[Command(f)] = None /\ session[f].page # <<>>
      /\ receive(Command(f), Head(session[f].page))
  BY Zenon DEF receive_batch, At
<1>2. /\ log[Command(f)] # None /\ Command(f) \in Procs /\ Command(f).dir = f
      /\ session[f] \in Pulls /\ session[f].page \in Seq(sent)
  BY <1>1, SessionFacts, Zenon
<1>3. Head(session[f].page) \in sent
  BY <1>1, <1>2, TailTyped, Zenon
<1>4. QED
  BY <1>1, <1>2, <1>3, ReceiveKeeps, Zenon

(* A request to the authority fails. *)
LEMMA RequestFailsKeeps ==
    ASSUME ReplicationInv, NEW f \in Followers, request_fails(f)
    PROVE  ReplicationInv'
BY NamedProcs, FailKeeps, Zenon DEF request_fails

(* A page of a log is made of entries of the log. *)
LEMMA PageTyped ==
    ASSUME NEW S, NEW l, l.entries \in Seq(S), l.base_index \in Nat,
           NEW after \in Nat, l.base_index <= after, NEW n \in Nat
    PROVE  entry_batch(l, after, n).entries \in Seq(S)
<1> DEFINE m == after - l.base_index + 1
           rest == SubSeq(l.entries, m, Len(l.entries))
           page == IF Len(rest) < n THEN rest ELSE SubSeq(rest, 1, n)
<1>1. m \in Nat /\ 1 <= m /\ Len(l.entries) \in Nat /\ Len(l.entries) <= Len(l.entries)
  OBVIOUS
<1>2. entry_batch(l, after, n).entries = page
  BY Zenon DEF entry_batch
<1>3. rest \in Seq(S)
  <2> HIDE DEF m
  <2>1. QED
    BY <1>1, SubSeqTyped
<1> HIDE DEF rest
<1>4. Len(rest) \in Nat
  BY <1>3
<1>5. ~(Len(rest) < n) => SubSeq(rest, 1, n) \in Seq(S)
  BY <1>3, <1>4, SubSeqTyped
<1>6. QED
  BY <1>2, <1>3, <1>5, Zenon

(* The authority answers with a page of entries. *)
LEMMA EntriesKeeps ==
    ASSUME ReplicationInv, NEW f \in Followers, entries(f)
    PROVE  ReplicationInv'
<1> DEFINE l == log[Server(Authority)]
           after == last_index(log[Command(f)])
<1>1. /\ session[f].step = "pull" /\ pending[Command(f)] = None /\ l # None
      /\ after \in l.base_index .. (session[f].target - 1)
  BY Zenon DEF entries, At, Answers
<1>2. PICK n \in 1 .. Limit :
        \/ fail(Command(f))
        \/ /\ session' = [session EXCEPT ![f] =
                             [session[f] EXCEPT !.page = entry_batch(l, after, n).entries]]
           /\ UNCHANGED <<catalog, versions, txrp, txrg, log, pending, sent>>
  BY Zenon DEF entries, Goes
<1> DEFINE page == entry_batch(l, after, n).entries
           s == [session[f] EXCEPT !.page = page]
<1>3. /\ log[Command(f)] # None /\ Command(f) \in Procs /\ log[Command(f)] \in Logs
      /\ session[f] \in Pulls
  BY <1>1, SessionFacts, Zenon
<1>4. l \in Logs /\ l.entries \in Seq(sent)
  <2>1. Server(Authority) \in Procs
    BY NamedProcs, Zenon
  <2>2. log \in [Procs -> Logs \cup {None}] /\ SentInv
    BY Zenon DEF ReplicationInv, TypeOK
  <2>3. QED
    BY <1>1, <2>1, <2>2, Zenon DEF SentInv
<1>5. l.base_index \in Nat /\ after \in Nat /\ session[f].target \in Nat
  <2>1. l.base_index \in Nat
    BY <1>4, LogFacts, Zenon
  <2>2. after \in Nat
    BY <1>3, LogFacts, Zenon
  <2>3. session[f].target \in Nat
    BY <1>3, Zenon DEF Pulls
  <2>4. QED
    BY <2>1, <2>2, <2>3, Zenon
<1> HIDE DEF after, l
<1>6. l.base_index <= after /\ n \in Nat
  BY <1>1, <1>5, Sets
<1>7. page \in Seq(sent)
  BY <1>4, <1>5, <1>6, PageTyped, Zenon
<1>8. page \in Seq(Entries)
  <2>1. sent \subseteq Entries
    BY Zenon DEF ReplicationInv, TypeOK
  <2>2. QED
    BY <1>7, <2>1, WiderSeq, Zenon
<1> HIDE DEF page
<1>9. s \in Pulls /\ s.page = page /\ s.step = "pull"
  BY <1>3, <1>8, Zenon DEF Pulls
<1> HIDE DEF s
<1>10. s \in Sessions /\ s \notin Acknowledgements
  BY <1>9, Zenon DEF Sessions, Acknowledgements
<1>11. \/ fail(Command(f))
       \/ /\ session' = [session EXCEPT ![f] = s]
          /\ UNCHANGED <<catalog, versions, txrp, txrg, log, pending, sent>>
  BY <1>2, Zenon DEF s, page
<1>12. QED
  BY <1>1, <1>3, <1>7, <1>9, <1>10, <1>11, FailKeeps, SessionKeeps, Zenon

(* What an accepted position says. *)
LEMMA AcceptedPosition ==
    ASSUME NEW l \in Logs, NEW d, NEW g \in Positions, NEW fs, acknowledge(l, d, g, fs) = "none"
    PROVE  l.base_index <= g.index
<1>1. ~(g.index < l.base_index)
  BY Zenon DEF acknowledge
<1>2. l.base_index \in Nat /\ g.index \in Nat
  BY LogFacts, Zenon DEF Positions
<1>3. QED
  BY <1>1, <1>2

(* A registry with one more, or one changed, watermark. *)
LEMMA RegistryWith ==
    ASSUME NEW R \in Registries, NEW f \in Followers, NEW g \in Positions
    PROVE  LET R2 == [h \in {f} \cup DOMAIN R |-> IF h = f THEN g ELSE R[h]]
           IN /\ R2 \in Registries /\ DOMAIN R2 = {f} \cup DOMAIN R
              /\ R2[f] = g
              /\ \A h \in DOMAIN R : h # f => R2[h] = R[h]
<1> DEFINE R2 == [h \in {f} \cup DOMAIN R |-> IF h = f THEN g ELSE R[h]]
<1>1. PICK S \in SUBSET Followers : R \in [S -> Positions]
  BY Zenon DEF Registries
<1>2. DOMAIN R = S /\ ({f} \cup S) \in SUBSET Followers
  BY <1>1, Zenon
<1>3. R2 \in [{f} \cup S -> Positions]
  BY <1>1, <1>2, Zenon
<1>4. R2 \in Registries
  BY <1>2, <1>3, Zenon DEF Registries
<1>5. QED
  BY <1>4, Zenon

(* A position the authority takes on goes to its sidecar and its memory in  *)
(* one step; the session ends or asks again.                                *)
LEMMA WatermarkKeeps ==
    ASSUME ReplicationInv, NEW f \in Followers, NEW n \in Logs, NEW R \in Registries \cup {None},
           log[Server(Authority)] # None, pending[Server(Authority)] = None,
           pending[Command(f)] = None, session[f] \in Acknowledgements,
           n.entries = log[Server(Authority)].entries, n.term = log[Server(Authority)].term,
           n.base_index = log[Server(Authority)].base_index,
           n.base_transaction_id = log[Server(Authority)].base_transaction_id,
           n.followers = IF R = None THEN <<>> ELSE R,
           R # None => \A g \in DOMAIN R : R[g].index <= transaction_id(g) /\ n.base_index <= R[g].index,
           txrg' = [txrg EXCEPT ![Authority] = R],
           \/ /\ log' = [[log EXCEPT ![Server(Authority)] = n] EXCEPT ![Command(f)] = None]
              /\ session' = [session EXCEPT ![f] = Idle]
           \/ /\ log' = [log EXCEPT ![Server(Authority)] = n]
              /\ session' = [session EXCEPT ![f] = [session[f] EXCEPT !.attempt = @ + 1]],
           UNCHANGED <<catalog, versions, txrp, pending, sent>>
    PROVE  ReplicationInv'
<1> DEFINE A == Server(Authority)
<1> USE DEF ReplicationInv
<1>1. TypeOK
  BY Zenon
<1>2. /\ A \in Procs /\ Authority \in Dirs /\ A.dir = Authority /\ A.kind = "server"
      /\ Command(f) \in Procs /\ Command(f) # A /\ f \in Dirs
  BY NamedProcs, Zenon
<1>3. /\ log' \in [Procs -> Logs \cup {None}] /\ log'[A] = n
      /\ \A q \in Procs : q # A => log'[q] = log[q] \/ (q = Command(f) /\ log'[q] = None)
  BY <1>1, <1>2, ZenonT(60) DEF TypeOK
<1>4. /\ txrg' \in [Dirs -> Registries \cup {None}] /\ txrg'[Authority] = R
  BY <1>1, <1>2, Zenon DEF TypeOK
<1> DEFINE s == [session[f] EXCEPT !.attempt = @ + 1]
<1>5. s \in Acknowledgements /\ s.progress = session[f].progress
  BY DEF Acknowledgements
<1>6. /\ session' \in [Followers -> Sessions]
      /\ \A g \in Followers : g # f => session'[g] = session[g]
      /\ \/ session'[f] = Idle
         \/ session'[f] = s /\ log'[Command(f)] = log[Command(f)]
  <2>1. s \in Sessions /\ Idle \in Sessions
    BY <1>5, Zenon DEF Sessions
  <2>2. session \in [Followers -> Sessions] /\ log \in [Procs -> Logs \cup {None}]
    BY <1>1, Zenon DEF TypeOK
  <2> HIDE DEF s
  <2>3. CASE session' = [session EXCEPT ![f] = Idle]
    BY <2>1, <2>2, <2>3, Zenon
  <2>4. CASE /\ log' = [log EXCEPT ![A] = n]
             /\ session' = [session EXCEPT ![f] = s]
    BY <1>2, <2>1, <2>2, <2>4, Zenon
  <2>5. QED
    BY <2>3, <2>4, Zenon DEF s
<1> HIDE DEF s
<1>7. TypeOK'
  BY <1>1, <1>3, <1>4, <1>6, Zenon DEF TypeOK
<1>8. VersionsInv' /\ FollowerIsPrefix' /\ \A d \in Dirs : DiskInv(d)'
  BY Zenon DEF VersionsInv, FollowerIsPrefix, IsPast, DiskInv, transaction_id
<1>9. ASSUME NEW q \in Procs
      PROVE  MemoryInv(q)' /\ EntryInv(q)' /\ SnapshotInv(q)'
  <2>1. CASE q = A
    <3>1. InStep(n)
      <4>1. InStep(log[A])
        BY <1>2, Zenon DEF MemoryInv
      <4>2. QED
        BY <4>1, Zenon DEF InStep, validate
    <3>2. MemoryInv(q)'
      BY <1>2, <1>3, <2>1, <3>1, Zenon DEF MemoryInv
    <3>3. pending'[q] = None
      BY <2>1, Zenon
    <3>4. QED
      BY <3>2, <3>3, Zenon DEF EntryInv, SnapshotInv
  <2>2. CASE q = Command(f)
    <3>1. MemoryInv(q)'
      BY <1>2, <1>3, <2>2, Zenon DEF MemoryInv
    <3>2. pending'[q] = None
      BY <2>2, Zenon
    <3>3. QED
      BY <3>1, <3>2, Zenon DEF EntryInv, SnapshotInv
  <2>3. CASE q # A /\ q # Command(f)
    <3>1. /\ log'[q] = log[q] /\ pending'[q] = pending[q]
          /\ q.kind = "command" => session'[q.dir] = session[q.dir]
      BY <1>3, <1>6, <2>3, ProcFacts, Zenon
    <3>2. MemoryInv(q)'
      BY <3>1, Zenon DEF MemoryInv
    <3>3. EntryInv(q)'
      BY <3>1, ZenonT(60) DEF EntryInv, transaction_id
    <3>4. SnapshotInv(q)'
      BY <3>1, Zenon DEF SnapshotInv, IsPast
    <3>5. QED
      BY <3>2, <3>3, <3>4, Zenon
  <2>4. QED
    BY <2>1, <2>2, <2>3, Zenon
<1>10. SentInv'
  BY <1>3, Zenon DEF SentInv, transaction_id
<1>11. ASSUME NEW g \in Followers
       PROVE  SessionInv(g)'
  <2>1. CASE g # f
    <3>1. Command(g) # A /\ Command(g) # Command(f) /\ Command(g) \in Procs
      BY <2>1, NamedProcs, ZenonT(60)
    <3>2. session'[g] = session[g] /\ log'[Command(g)] = log[Command(g)]
      BY <1>3, <1>6, <2>1, <3>1, Zenon
    <3>3. QED
      BY <3>2, Zenon DEF SessionInv, transaction_id
  <2>2. CASE g = f /\ session'[f] = Idle
    <3>1. Idle \notin Pulls /\ Idle \notin Acknowledgements
      BY DEF Idle, Pulls, Acknowledgements
    <3>2. QED
      BY <2>2, <3>1, Zenon DEF SessionInv
  <2>3. CASE g = f /\ session'[f] = s /\ log'[Command(f)] = log[Command(f)]
    <3>1. s \notin Pulls /\ session[f] # Idle
      BY <1>5 DEF Pulls, Acknowledgements, Idle
    <3>2. QED
      BY <1>5, <2>3, <3>1, Zenon DEF SessionInv, transaction_id
  <2>4. QED
    BY <1>6, <2>1, <2>2, <2>3, Zenon
<1>12. RegistryInv'
  <2>1. txrp[Authority] # None => txrp[Authority].base_index = n.base_index
    BY Zenon DEF RegistryInv
  <2>2. DOMAIN <<>> = {}
    BY EmptyRegistry, Zenon
  <2>3. n # None
    BY <1>3, NoneAssumption, Zenon
  <2>4. QED
    BY <1>3, <1>4, <2>1, <2>2, <2>3, ZenonT(60) DEF RegistryInv, transaction_id
<1>13. QED
  BY <1>7, <1>8, <1>9, <1>10, <1>11, <1>12, Zenon

(* acknowledge_follower: a watermark is a position the follower has on disk. *)
LEMMA AcknowledgeKeeps ==
    ASSUME ReplicationInv, NEW f \in Followers, acknowledge_follower(f)
    PROVE  ReplicationInv'
<1> DEFINE A == Server(Authority)
           l == log[A]
           g == session[f].progress
           accepted == acknowledge(l, Authority, g, l.followers) = "none"
           fs == [h \in {f} \cup DOMAIN l.followers |-> IF h = f THEN g ELSE l.followers[h]]
           n == IF accepted THEN [l EXCEPT !.followers = fs] ELSE l
           R == IF accepted THEN fs ELSE txrg[Authority]
<1>1. /\ session[f].step = "acknowledge" /\ pending[Command(f)] = None
      /\ l # None /\ pending[A] = None
  BY Zenon DEF acknowledge_follower, At, Answers
<1>2. /\ A \in Procs /\ Authority \in Dirs /\ Command(f) \in Procs
      /\ session[f] \in Acknowledgements
  BY <1>1, NamedProcs, SessionFacts, Zenon
<1>3. /\ log \in [Procs -> Logs \cup {None}] /\ txrg \in [Dirs -> Registries \cup {None}]
      /\ session \in [Followers -> Sessions] /\ RegistryInv /\ SessionInv(f)
  BY Zenon DEF ReplicationInv, TypeOK
<1>4. /\ l \in Logs /\ g \in Positions /\ l.followers \in Registries
      /\ g.index <= transaction_id(f)
  <2>1. l \in Logs
    BY <1>1, <1>2, <1>3, Zenon
  <2>2. g \in Positions
    BY <1>2, Zenon DEF Acknowledgements
  <2>3. QED
    BY <1>2, <1>3, <2>1, <2>2, LogFacts, Zenon DEF SessionInv
<1>5. /\ txrg' = IF accepted THEN [txrg EXCEPT ![Authority] = fs] ELSE txrg
      /\ UNCHANGED <<catalog, versions, txrp, pending, sent>>
      /\ \/ /\ log' = [IF accepted THEN acknowledged_log(fs) ELSE log EXCEPT ![Command(f)] = None]
            /\ session' = [session EXCEPT ![f] = Idle]
         \/ /\ log' = IF accepted THEN acknowledged_log(fs) ELSE log
            /\ session' = [session EXCEPT ![f].attempt = @ + 1]
  BY ZenonT(60) DEF acknowledge_follower, Ends
<1> HIDE DEF g, l
<1>6. /\ fs \in Registries /\ DOMAIN fs = {f} \cup DOMAIN l.followers /\ fs[f] = g
      /\ \A h \in DOMAIN l.followers : h # f => fs[h] = l.followers[h]
  <2> SUFFICES ASSUME l.followers \in Registries, g \in Positions
               PROVE  /\ fs \in Registries /\ DOMAIN fs = {f} \cup DOMAIN l.followers
                      /\ fs[f] = g
                      /\ \A h \in DOMAIN l.followers : h # f => fs[h] = l.followers[h]
    BY <1>4, Zenon
  <2>1. QED
    BY RegistryWith
<1> HIDE DEF fs
<1>7. fs # None
  BY <1>6, NoneAssumption, Zenon DEF Registries
<1>8. /\ n \in Logs /\ n.entries = l.entries /\ n.term = l.term /\ n.base_index = l.base_index
      /\ n.base_transaction_id = l.base_transaction_id
      /\ n.followers = IF accepted THEN fs ELSE l.followers
  BY <1>4, <1>6, Zenon DEF Logs
<1>9. (IF accepted THEN acknowledged_log(fs) ELSE log) = [log EXCEPT ![A] = n]
  BY <1>2, <1>3, Zenon DEF acknowledged_log, l
<1>10. txrg' = [txrg EXCEPT ![Authority] = R] /\ R \in Registries \cup {None}
  BY <1>2, <1>3, <1>5, <1>6, Zenon
<1>11. n.followers = IF R = None THEN <<>> ELSE R
  <2>1. l.followers = IF txrg[Authority] = None THEN <<>> ELSE txrg[Authority]
    BY <1>1, <1>3, Zenon DEF RegistryInv, l
  <2>2. QED
    BY <1>7, <1>8, <2>1, Zenon
<1>12. ASSUME R # None, NEW h \in DOMAIN R
       PROVE  R[h].index <= transaction_id(h) /\ n.base_index <= R[h].index
  <2>1. ASSUME h \in DOMAIN l.followers
        PROVE  l.followers[h].index <= transaction_id(h) /\ l.base_index <= l.followers[h].index
    <3>1. l # None
      BY <1>1, Zenon
    <3>2. /\ l.followers = IF txrg[Authority] = None THEN <<>> ELSE txrg[Authority]
          /\ \A k \in DOMAIN l.followers : l.base_index <= l.followers[k].index
      BY <1>3, <3>1, Zenon DEF RegistryInv, l
    <3>3. txrg[Authority] # None
      BY <2>1, <3>2, EmptyRegistry, Zenon
    <3>4. \A k \in DOMAIN txrg[Authority] : txrg[Authority][k].index <= transaction_id(k)
      BY <1>3, <3>3, Zenon DEF RegistryInv
    <3>5. QED
      BY <2>1, <3>2, <3>3, <3>4, Zenon
  <2>2. CASE accepted /\ h = f
    <3>1. R[h] = g
      BY <1>6, <2>2, Zenon
    <3>2. l.base_index <= g.index
      BY <1>4, <2>2, AcceptedPosition, Zenon
    <3>3. QED
      BY <1>4, <1>8, <2>2, <3>1, <3>2, Zenon
  <2>3. CASE accepted /\ h # f
    BY <1>6, <1>8, <1>12, <2>1, <2>3, Zenon
  <2>4. CASE ~accepted
    BY <1>8, <1>11, <1>12, <2>1, <2>4, Zenon
  <2>5. QED
    BY <2>2, <2>3, <2>4, Zenon
<1>13. \/ /\ log' = [[log EXCEPT ![A] = n] EXCEPT ![Command(f)] = None]
          /\ session' = [session EXCEPT ![f] = Idle]
       \/ /\ log' = [log EXCEPT ![A] = n]
          /\ session' = [session EXCEPT ![f] = [session[f] EXCEPT !.attempt = @ + 1]]
  BY <1>5, <1>9, Zenon
<1> HIDE DEF n, R
<1>14. /\ n.entries = log[Server(Authority)].entries /\ n.term = log[Server(Authority)].term
       /\ n.base_index = log[Server(Authority)].base_index
       /\ n.base_transaction_id = log[Server(Authority)].base_transaction_id
  BY <1>8, Zenon DEF l
<1>15. log[Server(Authority)] # None /\ pending[Server(Authority)] = None
  BY <1>1, Zenon DEF l
<1>16. R # None => \A h \in DOMAIN R : R[h].index <= transaction_id(h) /\ n.base_index <= R[h].index
  BY <1>12, Zenon
<1>17. n \in Logs /\ R \in Registries \cup {None} /\ txrg' = [txrg EXCEPT ![Authority] = R]
  BY <1>8, <1>10, Zenon
<1>18. pending[Command(f)] = None /\ session[f] \in Acknowledgements
  BY <1>1, <1>2, Zenon
<1>19. UNCHANGED <<catalog, versions, txrp, pending, sent>>
  BY <1>5, Zenon
<1>20. QED
  BY <1>11, <1>13, <1>14, <1>15, <1>16, <1>17, <1>18, <1>19, WatermarkKeeps, Zenon
=============================================================================
