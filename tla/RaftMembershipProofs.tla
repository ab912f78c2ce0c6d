------------------------ MODULE RaftMembershipProofs ------------------------
(* Proofs about RaftMembership, for every set of nodes, initial voters and     *)
(* requests: a majority argument over the membership entries, and where the    *)
(* genesis of the cluster can be.                                              *)
EXTENDS RaftMembership, FiniteSetTheorems, TLAPS

(* Sets of nodes, and their parts, are finite and have a size. *)
LEMMA SizeOfPart ==
    ASSUME NEW S, NEW c \in SUBSET Nodes
    PROVE  /\ IsFiniteSet(c) /\ IsFiniteSet(S \cap c)
           /\ Cardinality(c) \in Nat /\ Cardinality(S \cap c) \in Nat
<1>1. IsFiniteSet(c) /\ IsFiniteSet(S \cap c)
  BY FS_Subset, MembershipAssumption, Zenon
<1>2. QED
  BY <1>1, FS_CardinalityType, Zenon

(* More holders keep a majority. *)
LEMMA MajorityGrows ==
    ASSUME NEW S, NEW T, S \subseteq T, NEW c \in SUBSET Nodes, Majority(S, c)
    PROVE  Majority(T, c)
<1>1. S \cap c \subseteq T \cap c
  BY Zenon
<1>2. Cardinality(S \cap c) <= Cardinality(T \cap c)
  BY <1>1, SizeOfPart, FS_Subset, Zenon
<1>3. /\ Cardinality(S \cap c) \in Nat /\ Cardinality(T \cap c) \in Nat
      /\ Cardinality(c) \in Nat
  BY SizeOfPart, Zenon
<1>4. QED
  BY <1>2, <1>3 DEF Majority

(* Two majorities of one configuration meet. *)
LEMMA MajoritiesMeet ==
    ASSUME NEW S, NEW T, NEW c \in SUBSET Nodes, Majority(S, c), Majority(T, c)
    PROVE  \E n \in c : n \in S /\ n \in T
<1>1. Cardinality(S \cap c) + Cardinality(T \cap c) > Cardinality(c)
  BY SizeOfPart DEF Majority
<1>2. (S \cap c) \cap (T \cap c) # {}
  <2>1. IsFiniteSet(c) /\ S \cap c \subseteq c /\ T \cap c \subseteq c
    BY SizeOfPart, Zenon
  <2>2. QED
    BY <1>1, <2>1, FS_MajoritiesIntersect, Zenon
<1>3. QED
  BY <1>2, Zenon

(* A set that contains a quorum is a quorum. *)
LEMMA QuorumGrows ==
    ASSUME NEW S, NEW T, S \subseteq T, NEW m \in Entries, Quorum(S, m)
    PROVE  Quorum(T, m)
<1>1. \A i \in 1..Len(m.configs) : m.configs[i] \in SUBSET Nodes
  BY DEF Entries
<1>2. QED
  BY <1>1, MajorityGrows, Zenon DEF Quorum

(* Quorums of two memberships that share a configuration have a node in       *)
(* common.                                                                    *)
LEMMA QuorumsMeet ==
    ASSUME NEW S, NEW T, NEW m \in Entries, NEW k \in Entries, Overlap(m, k),
           Quorum(S, m), Quorum(T, k)
    PROVE  \E n \in Nodes : n \in S /\ n \in T
<1>1. PICK i \in 1..Len(m.configs), j \in 1..Len(k.configs) : m.configs[i] = k.configs[j]
  BY Zenon DEF Overlap
<1>2. m.configs[i] \in SUBSET Nodes
  BY DEF Entries
<1>3. Majority(S, m.configs[i]) /\ Majority(T, m.configs[i])
  BY <1>1, Zenon DEF Quorum
<1>4. QED
  BY <1>2, <1>3, MajoritiesMeet, Zenon

(* The voters of a membership are the members of its configurations. *)
LEMMA VotersAreConfigs ==
    ASSUME NEW m \in Entries, NEW n
    PROVE  n \in Voters(m) <=> \E i \in 1..Len(m.configs) : n \in m.configs[i]
<1>1. Range(m.configs) = {m.configs[i] : i \in 1..Len(m.configs)}
  BY DEF Range, Entries
<1>2. QED
  BY <1>1, Zenon DEF Voters

(* The voters of a membership are among its nodes. *)
LEMMA VotersAreNodes ==
    ASSUME NEW m \in Entries, EntryOK(m)
    PROVE  Voters(m) \subseteq m.nodes
  BY VotersAreConfigs, Zenon DEF EntryOK

-----------------------------------------------------------------------------
(* The log part of the invariant. *)
LEMMA LogInit == Init => LogInv
<1> SUFFICES ASSUME Init PROVE LogInv
  BY Zenon
<1> DEFINE m == [configs |-> <<InitialVoters>>, nodes |-> InitialVoters]
<1>1. m \in Entries
  BY MembershipAssumption DEF Entries
<1>2. /\ members = <<m>> /\ Len(members) = 1 /\ members[1] = m
      /\ members \in Seq(Entries)
  BY <1>1 DEF Init
<1>3. EntryOK(m)
  BY MembershipAssumption DEF EntryOK
<1>4. seen \in [Nodes -> 0..1] /\ \A n \in InitialVoters : seen[n] = 1
  BY MembershipAssumption DEF Init
<1>5. Quorum(Holding(1), m)
  <2>1. Cardinality(Holding(1) \cap InitialVoters) = Cardinality(InitialVoters)
    <3>1. \A n \in InitialVoters : n \in Holding(1)
      BY <1>4, MembershipAssumption DEF Holding
    <3>2. Holding(1) \cap InitialVoters = InitialVoters
      BY <3>1, Zenon
    <3>3. QED
      BY <3>2, Zenon
  <2>2. IsFiniteSet(InitialVoters)
    BY MembershipAssumption, FS_Subset, Zenon
  <2>3. Cardinality(InitialVoters) \in Nat /\ Cardinality(InitialVoters) > 0
    <3>1. Cardinality(InitialVoters) \in Nat
      BY <2>2, FS_CardinalityType, Zenon
    <3>2. Cardinality(InitialVoters) # 0
      BY <2>2, FS_EmptySet, MembershipAssumption, Zenon
    <3>3. QED
      BY <3>1, <3>2
  <2>4. Majority(Holding(1), InitialVoters)
    BY <2>1, <2>3 DEF Majority
  <2>5. m.configs = <<InitialVoters>> /\ Len(m.configs) = 1 /\ m.configs[1] = InitialVoters
    BY Zenon
  <2>6. QED
    BY <2>4, <2>5 DEF Quorum
<1>6. committed = 1 /\ leader = None
  BY Zenon DEF Init
<1>7. QED
  BY <1>2, <1>3, <1>4, <1>5, <1>6 DEF LogInv

(* The types of the membership log. *)
LEMMA LogTypes ==
    ASSUME LogInv
    PROVE  /\ Len(members) \in Nat \ {0} /\ committed \in Nat \ {0}
           /\ \A i \in 1..Len(members) : members[i] \in Entries
           /\ \A n \in Nodes : seen[n] \in Nat /\ seen[n] <= Len(members)
  BY DEF LogInv

(* Nodes take entries they miss. *)
LEMMA SeenGrows ==
    ASSUME LogInv, UNCHANGED <<members, committed, leader>>,
           seen' \in [Nodes -> 0..Len(members)], \A n \in Nodes : seen[n] <= seen'[n]
    PROVE  LogInv'
<1>1. \A i \in 1..committed : Quorum(Holding(i)', members[i])
  <2> TAKE i \in 1..committed
  <2>1. i \in Nat /\ i \in 1..Len(members) /\ members[i] \in Entries
    BY DEF LogInv
  <2>2. Holding(i) \subseteq Holding(i)'
    BY <2>1, LogTypes DEF Holding
  <2>3. Quorum(Holding(i), members[i])
    BY Zenon DEF LogInv
  <2>4. QED
    BY <2>1, <2>2, <2>3, QuorumGrows, Zenon
<1>2. leader # None => seen'[leader] = Len(members)
  BY LogTypes DEF LogInv
<1>3. QED
  BY <1>1, <1>2, Zenon DEF LogInv

(* A membership entry that overlaps the last one and keeps its nodes. *)
LEMMA ProposeLog ==
    ASSUME LogInv, NEW n \in Nodes, NEW entry \in Entries, EntryOK(entry),
           members[Len(members)].nodes \subseteq entry.nodes,
           Overlap(members[Len(members)], entry),
           Propose(n, entry), UNCHANGED <<committed, leader>>
    PROVE  LogInv'
<1> DEFINE L == Len(members)
<1>1. /\ L \in Nat \ {0} /\ members \in Seq(Entries) /\ committed = L
      /\ leader = n /\ n # None
  BY MembershipAssumption, LogTypes, Zenon DEF LogInv, Propose, None
<1>2. /\ members' \in Seq(Entries) /\ Len(members') = L + 1 /\ members'[L + 1] = entry
      /\ \A i \in 1..L : members'[i] = members[i]
  BY <1>1 DEF Propose
<1>3. seen' \in [Nodes -> 0..L + 1] /\ seen'[n] = L + 1 /\ \A k \in Nodes : seen[k] <= seen'[k]
  BY <1>1, LogTypes DEF LogInv, Propose
<1>4. \A i \in 1..L + 1 : EntryOK(members'[i])
  BY <1>1, <1>2 DEF LogInv
<1>5. \A i, j \in 1..L + 1 : i <= j => members'[i].nodes \subseteq members'[j].nodes
  <2>1. \A i \in 1..L : members[i].nodes \subseteq members[L].nodes
    BY <1>1 DEF LogInv
  <2>2. \A i \in 1..L : members'[i].nodes \subseteq entry.nodes
    BY <2>1, <1>2, Zenon
  <2>3. \A i, j \in 1..L : i <= j => members'[i].nodes \subseteq members'[j].nodes
    BY <1>2, Zenon DEF LogInv
  <2>4. QED
    BY <1>1, <1>2, <2>2, <2>3
<1>6. \A i \in 1..L + 1 : i < L + 1 => Overlap(members'[i], members'[i + 1])
  <2>1. \A i \in 1..L : i < L => Overlap(members[i], members[i + 1])
    BY Zenon DEF LogInv
  <2>2. QED
    BY <1>1, <1>2, <2>1
<1>7. \A i \in 1..committed : Quorum(Holding(i)', members'[i])
  <2> TAKE i \in 1..committed
  <2>1. i \in Nat /\ i \in 1..L /\ members[i] \in Entries /\ members'[i] = members[i]
    BY <1>1, <1>2
  <2>2. Holding(i) \subseteq Holding(i)'
    BY <1>3, <2>1, LogTypes DEF Holding
  <2>3. Quorum(Holding(i), members[i])
    BY Zenon DEF LogInv
  <2>4. QED
    BY <2>1, <2>2, <2>3, QuorumGrows, Zenon
<1>8. n \in entry.nodes
  BY <1>1, Zenon DEF LogInv
<1>9. QED
  BY <1>1, <1>2, <1>3, <1>4, <1>5, <1>6, <1>7, <1>8 DEF LogInv

(* A quorum elects only a node that holds every committed entry. *)
LEMMA ElectedHoldsCommitted ==
    ASSUME LogInv, NEW n \in Nodes, Elect(n)
    PROVE  committed <= seen[n]
<1> DEFINE k == seen[n]
<1> SUFFICES ASSUME k < committed PROVE FALSE
  BY LogTypes
<1>1. /\ k \in Nat \ {0} /\ k + 1 \in 1..committed /\ k \in 1..Len(members) /\ k + 1 \in 1..Len(members)
      /\ k < Len(members)
  BY LogTypes DEF LogInv, Elect
<1>2. members[k] \in Entries /\ members[k + 1] \in Entries
  BY <1>1, LogTypes, Zenon
<1>3. Quorum(vote(n), members[k])
  BY <1>1, Zenon DEF Elect, effective
<1>4. Quorum(Holding(k + 1), members[k + 1])
  BY <1>1, Zenon DEF LogInv
<1>5. Overlap(members[k], members[k + 1])
  BY <1>1, Zenon DEF LogInv
<1>6. PICK m \in Nodes : m \in vote(n) /\ m \in Holding(k + 1)
  BY <1>2, <1>3, <1>4, <1>5, QuorumsMeet, Zenon
<1>7. seen[m] <= k /\ seen[m] >= k + 1
  BY <1>1, <1>6, LogTypes DEF vote, Holding
<1>8. QED
  BY <1>1, <1>7, LogTypes

(* A new leader has every committed membership, and its log names no new      *)
(* node.                                                                      *)
LEMMA ElectLog ==
    ASSUME LogInv, NEW n \in Nodes, Elect(n)
    PROVE  LogInv' /\ members'[Len(members')].nodes \subseteq members[Len(members)].nodes
<1> DEFINE k == seen[n]
<1>1. /\ k \in Nat \ {0} /\ k <= Len(members) /\ committed <= k /\ committed \in Nat \ {0}
      /\ members \in Seq(Entries) /\ Len(members) \in Nat
  <2>1. seen[n] > 0
    BY Zenon DEF Elect
  <2>2. members \in Seq(Entries)
    BY Zenon DEF LogInv
  <2>3. committed <= k
    BY ElectedHoldsCommitted, Zenon
  <2>4. QED
    BY <2>1, <2>2, <2>3, LogTypes
<1>2. /\ members' \in Seq(Entries) /\ Len(members') = k
      /\ \A i \in 1..k : members'[i] = members[i] /\ i \in 1..Len(members)
  BY <1>1 DEF Elect
<1>3. seen' \in [Nodes -> 0..k] /\ seen'[n] = k /\ leader' = n /\ committed' = committed
  BY <1>1, LogTypes DEF Elect
<1>4. \A i \in 1..committed : Holding(i)' = Holding(i)
  <2>1. \A i \in 1..committed : \A m \in Nodes : seen'[m] >= i <=> seen[m] >= i
    BY <1>1, LogTypes DEF Elect
  <2>2. QED
    BY <2>1, Zenon DEF Holding
<1>5. \A i \in 1..committed : Quorum(Holding(i)', members'[i])
  <2> TAKE i \in 1..committed
  <2>1. i \in 1..k /\ Quorum(Holding(i), members[i])
    BY <1>1 DEF LogInv
  <2>2. QED
    BY <2>1, <1>2, <1>4, Zenon
<1>6. n \in members[k].nodes
  <2>1. members[k] \in Entries /\ EntryOK(members[k]) /\ effective(n) = members[k]
    BY <1>1 DEF LogInv, effective
  <2>2. CASE n \in Voters(effective(n))
    BY <2>1, <2>2, VotersAreNodes, Zenon
  <2>3. CASE k > committed /\ n \in Voters(members[committed])
    <3>1. members[committed] \in Entries /\ EntryOK(members[committed])
      BY <1>1 DEF LogInv
    <3>2. n \in members[committed].nodes
      BY <3>1, <2>3, VotersAreNodes, Zenon
    <3>3. members[committed].nodes \subseteq members[k].nodes
      BY <1>1 DEF LogInv
    <3>4. QED
      BY <3>2, <3>3, Zenon
  <2>4. QED
    BY <2>2, <2>3, Zenon DEF Elect
<1>7. \A i \in 1..k : EntryOK(members'[i])
  BY <1>2, Zenon DEF LogInv
<1>8. \A i, j \in 1..k : i <= j => members'[i].nodes \subseteq members'[j].nodes
  BY <1>2, Zenon DEF LogInv
<1>9. \A i \in 1..k : i < k => Overlap(members'[i], members'[i + 1])
  <2> SUFFICES ASSUME NEW i \in 1..k, i < k PROVE Overlap(members'[i], members'[i + 1])
    BY Zenon
  <2>1. i + 1 \in 1..k /\ i < Len(members) /\ i \in 1..Len(members)
    BY <1>1
  <2>2. Overlap(members[i], members[i + 1])
    BY <2>1, Zenon DEF LogInv
  <2>3. QED
    BY <2>1, <2>2, <1>2, Zenon
<1>10. LogInv'
  BY <1>1, <1>2, <1>3, <1>5, <1>6, <1>7, <1>8, <1>9 DEF LogInv
<1>11. k \in 1..k /\ k \in 1..Len(members) /\ Len(members) \in 1..Len(members)
  BY <1>1
<1>12. members[k].nodes \subseteq members[Len(members)].nodes /\ members'[k] = members[k]
  BY <1>1, <1>2, <1>11, Zenon DEF LogInv
<1>13. QED
  BY <1>2, <1>10, <1>12, Zenon

(* A membership that a quorum holds is committed. *)
LEMMA CommitLog == LogInv /\ Commit => LogInv'
<1> SUFFICES ASSUME LogInv, Commit PROVE LogInv'
  BY Zenon
<1>1. \A i \in 1..Len(members) : Quorum(Holding(i), members[i])
  BY LogTypes DEF LogInv, Commit
<1>2. UNCHANGED <<members, leader, seen>> /\ committed' = Len(members)
  BY Zenon DEF Commit
<1>3. \A i \in 1..committed' : Quorum(Holding(i)', members'[i])
  <2>1. \A i : Holding(i)' = Holding(i)
    BY <1>2, Zenon DEF Holding
  <2>2. QED
    BY <1>1, <1>2, <2>1, Zenon
<1>4. QED
  BY <1>2, <1>3, LogTypes DEF LogInv

(* The leader is deposed or the log is left alone. *)
LEMMA LogKept ==
    ASSUME LogInv, UNCHANGED <<members, committed, seen>>, leader' \in {leader, None}
    PROVE  LogInv'
<1>1. \A i \in 1..committed' : Quorum(Holding(i)', members'[i])
  <2>1. \A i : Holding(i)' = Holding(i)
    BY Zenon DEF Holding
  <2>2. QED
    BY <2>1, Zenon DEF LogInv
<1>2. QED
  BY <1>1, ZenonT(60) DEF LogInv

-----------------------------------------------------------------------------
(* Tasks. *)
LEMMA TaskFields ==
    ASSUME TaskInv, NEW n \in Nodes
    PROVE  /\ task[n] # Idle => task[n] \in Tasks
           /\ task[n].step # "idle" => task[n] \in Tasks
           /\ task[n] \in Tasks \cup {Idle} /\ TaskOK(task[n])
<1>1. Idle.step = "idle"
  BY Zenon DEF Idle
<1>2. QED
  BY <1>1, Zenon DEF TaskInv

(* The idle task is well formed. *)
LEMMA IdleOK == TaskOK(Idle) /\ Idle.step = "idle"
  BY Zenon DEF TaskOK, Idle

(* The fields of a task of OpenRaft. *)
LEMMA TaskShape ==
    ASSUME NEW t \in Tasks
    PROVE  /\ t.step \in Steps /\ t.id \in Nodes \cup {None}
           /\ t.target \in SUBSET Nodes /\ t.learners \in SUBSET Nodes
  BY Zenon DEF Tasks

(* A task that goes to its next step keeps its other fields. *)
LEMMA NextStep ==
    ASSUME NEW t \in Tasks, NEW s \in Steps
    PROVE  LET u == [t EXCEPT !.step = s]
           IN  u \in Tasks /\ u.step = s /\ u.id = t.id /\ u.target = t.target /\ u.learners = t.learners
  BY Zenon DEF Tasks

(* One task changes. *)
LEMMA SetTask ==
    ASSUME TaskInv, NEW n \in Nodes, NEW t \in Tasks \cup {Idle}, TaskOK(t), Task(n, t)
    PROVE  /\ task'[n] = t /\ \A k \in Nodes : k # n => task'[k] = task[k]
           /\ handler' = handler => TaskInv'
<1>1. task' = [task EXCEPT ![n] = t] /\ task \in [Nodes -> Tasks \cup {Idle}]
  BY Zenon DEF Task, TaskInv
<1>2. /\ task'[n] = t /\ \A k \in Nodes : k # n => task'[k] = task[k]
      /\ task' \in [Nodes -> Tasks \cup {Idle}]
  BY <1>1, Zenon
<1>3. ASSUME handler' = handler PROVE TaskInv'
  <2>1. \A k \in Nodes : TaskOK(task'[k])
    BY <1>2, Zenon DEF TaskInv
  <2>2. QED
    BY <1>2, <1>3, <2>1, Zenon DEF TaskInv, TaskOK
<1>4. QED
  BY <1>2, <1>3, Zenon

-----------------------------------------------------------------------------
(* Genesis. *)
LEMMA GenesisKept ==
    ASSUME GenesisInv, UNCHANGED <<fingerprint, disk>>,
           \A k \in members'[Len(members')].nodes : HasGenesis(k),
           \A k \in Nodes : task'[k].step = "register" => HasGenesis(task'[k].id)
    PROVE  GenesisInv'
  BY Zenon DEF GenesisInv, HasGenesis

(* A step that changes one task, and does not register a node, keeps the      *)
(* invariant.                                                                 *)
LEMMA OnlyTask ==
    ASSUME MembershipInv, NEW n \in Nodes, NEW t \in Tasks \cup {Idle}, TaskOK(t),
           t.step # "register", Task(n, t), UNCHANGED <<Log, leader, fingerprint, disk, handler>>
    PROVE  MembershipInv'
<1>1. LogInv'
  BY LogKept, Zenon DEF MembershipInv, Log
<1>2. TaskInv' /\ task'[n] = t /\ \A k \in Nodes : k # n => task'[k] = task[k]
  BY SetTask, Zenon DEF MembershipInv
<1>3. \A k \in Nodes : task'[k].step = "register" => HasGenesis(task'[k].id)
  BY <1>2, Zenon DEF MembershipInv, GenesisInv
<1>4. GenesisInv'
  BY <1>3, GenesisKept, Zenon DEF MembershipInv, GenesisInv, Log
<1>5. QED
  BY <1>1, <1>2, <1>4, Zenon DEF MembershipInv

(* The leader works on the newest membership, and is a member of it with the  *)
(* genesis of the cluster.                                                    *)
LEMMA LeaderFacts ==
    ASSUME MembershipInv, NEW n \in Nodes, leader = n
    PROVE  /\ effective(n) = members[Len(members)] /\ effective(n) \in Entries
           /\ EntryOK(effective(n)) /\ n \in effective(n).nodes /\ HasGenesis(n)
<1>1. n # None /\ LogInv /\ Len(members) \in 1..Len(members) /\ Len(members) # 0
  BY MembershipAssumption, LogTypes DEF None, MembershipInv
<1>2. seen[n] = Len(members) /\ n \in members[Len(members)].nodes
  BY <1>1, Zenon DEF LogInv
<1>3. effective(n) = members[Len(members)]
  BY <1>1, <1>2, Zenon DEF effective
<1>4. members[Len(members)] \in Entries /\ EntryOK(members[Len(members)])
  BY <1>1, LogTypes, Zenon DEF LogInv
<1>5. QED
  BY <1>2, <1>3, <1>4, Zenon DEF MembershipInv, GenesisInv

(* The leader asks a node to take the genesis. *)
LEMMA Prepared ==
    ASSUME MembershipInv, NEW n \in Nodes, leader = n, NEW id \in Nodes,
           NEW t \in Tasks, prepare_learner(n, id, t), UNCHANGED <<Log, leader, disk, handler>>
    PROVE  MembershipInv'
<1>1. CASE prepared(n, id)
  <2> DEFINE u == [t EXCEPT !.step = "snapshot", !.id = id]
  <2>1. u \in Tasks /\ u.step = "snapshot" /\ u.id = id
    BY Zenon DEF Tasks, Steps
  <2>2. TaskOK(u)
    BY <2>1, Zenon DEF TaskOK
  <2>3. Task(n, u) /\ fingerprint' = [fingerprint EXCEPT ![id] = fingerprint[n]]
    BY <1>1, Zenon DEF prepare_learner
  <2>4. TaskInv' /\ task'[n] = u /\ \A k \in Nodes : k # n => task'[k] = task[k]
    BY <2>1, <2>2, <2>3, SetTask, Zenon DEF MembershipInv
  <2>5. LogInv'
    BY LogKept, Zenon DEF MembershipInv, Log
  <2>6. fingerprint[n] = Cluster /\ Cluster = 0
    BY LeaderFacts, Zenon DEF HasGenesis, Cluster
  <2>7. /\ fingerprint' \in [Nodes -> Nat] /\ fingerprint'[id] = Cluster
        /\ \A k \in Nodes : k # id => fingerprint'[k] = fingerprint[k]
    BY <2>3, <2>6, Zenon DEF MembershipInv, GenesisInv
  <2>8. \A k \in Nodes : HasGenesis(k) => HasGenesis(k)'
    BY <2>7, Zenon DEF HasGenesis
  <2>9. \A k \in Nodes : task'[k].step = "register" =>
            disk'[task'[k].id] = Cluster /\ fingerprint'[task'[k].id] = Cluster
    <3>1. \A k \in Nodes : task'[k].step = "register" => task'[k].id \in Nodes /\ HasGenesis(task'[k].id)
      BY <2>1, <2>4, Zenon DEF MembershipInv, GenesisInv, TaskInv, TaskOK
    <3>2. QED
      BY <2>7, <3>1, Zenon DEF HasGenesis
  <2>10. \A k \in members'[Len(members')].nodes : HasGenesis(k)'
    <3>1. members' = members /\ members[Len(members)].nodes \subseteq Nodes
      <4>1. members[Len(members)] \in Entries
        BY LogTypes DEF MembershipInv
      <4>2. QED
        BY <4>1, Zenon DEF Log, Entries
    <3>2. QED
      BY <3>1, <2>8, Zenon DEF MembershipInv, GenesisInv
  <2>11. \A k \in Nodes \ (InitialVoters \cup Blank) : fingerprint'[k] = Own(k) /\ disk'[k] = Own(k)
    <3>1. id \in Blank \/ fingerprint[id] = Cluster
      BY <1>1, <2>6, Zenon DEF prepared, can_adopt_genesis_fingerprint
    <3>2. \A k \in Nodes : Own(k) # Cluster
      BY MembershipAssumption, Zenon DEF Own, Cluster
    <3>3. QED
      BY <3>1, <3>2, <2>7, Zenon DEF MembershipInv, GenesisInv
  <2>12. GenesisInv'
    <3>1. disk' = disk /\ \A k \in Nodes : fingerprint'[k] \in {Cluster, Own(k)}
      BY <2>7, Zenon DEF MembershipInv, GenesisInv
    <3>2. QED
      BY <3>1, <2>7, <2>9, <2>10, <2>11, Zenon DEF MembershipInv, GenesisInv, HasGenesis
  <2>13. QED
    BY <2>4, <2>5, <2>12, Zenon DEF MembershipInv
<1>2. CASE ~prepared(n, id)
  BY <1>2, IdleOK, OnlyTask, Zenon DEF prepare_learner
<1>3. QED
  BY <1>1, <1>2, Zenon

(* The leader writes an entry for its task. *)
LEMMA Proposed ==
    ASSUME MembershipInv, NEW n \in Nodes, NEW entry \in Entries, EntryOK(entry),
           effective(n).nodes \subseteq entry.nodes, Overlap(effective(n), entry),
           \A k \in entry.nodes : HasGenesis(k), Propose(n, entry),
           NEW t \in Tasks, TaskOK(t), t.step # "register", Task(n, t),
           UNCHANGED <<committed, leader, fingerprint, disk, handler>>
    PROVE  MembershipInv'
<1>1. effective(n) = members[Len(members)]
  BY LeaderFacts, Zenon DEF Propose
<1>2. LogInv'
  BY <1>1, ProposeLog, Zenon DEF MembershipInv
<1>3. TaskInv' /\ task'[n] = t /\ \A k \in Nodes : k # n => task'[k] = task[k]
  BY SetTask, Zenon DEF MembershipInv
<1>4. \A k \in Nodes : task'[k].step = "register" => HasGenesis(task'[k].id)
  BY <1>3, Zenon DEF MembershipInv, GenesisInv
<1>5. members'[Len(members')] = entry
  <2>1. members \in Seq(Entries) /\ members' = Append(members, entry)
    BY Zenon DEF Propose, MembershipInv, LogInv
  <2>2. QED
    BY <2>1
<1>6. GenesisInv'
  BY <1>4, <1>5, GenesisKept, Zenon DEF MembershipInv
<1>7. QED
  BY <1>2, <1>3, <1>6, Zenon DEF MembershipInv

(* The first and the last of one or two configurations. *)
LEMMA OneOrTwo ==
    ASSUME NEW k \in 1..2
    PROVE  1 \in 1..k /\ k \in 1..k
  OBVIOUS

(* A membership with the same configurations overlaps. *)
LEMMA OverlapsItself ==
    ASSUME NEW m \in Entries, EntryOK(m), NEW k, k.configs = m.configs
    PROVE  Overlap(m, k)
<1>1. 1 \in 1..Len(m.configs)
  <2>1. Len(m.configs) \in 1..2
    BY Zenon DEF EntryOK
  <2>2. QED
    BY <2>1, OneOrTwo, Zenon
<1>2. QED
  BY <1>1, Zenon DEF Overlap

(* Adding the learner to the membership keeps the invariant: it has the       *)
(* genesis already.                                                           *)
LEMMA RegisterInv ==
    ASSUME MembershipInv, NEW n \in Nodes, register(n)
    PROVE  MembershipInv'
<1> DEFINE m == effective(n)
           entry == [m EXCEPT !.nodes = @ \cup {task[n].id}]
           t == [task[n] EXCEPT !.step = "written"]
<1>1. task[n] \in Tasks /\ task[n].id \in Nodes /\ HasGenesis(task[n].id)
  BY TaskFields, Zenon DEF MembershipInv, GenesisInv, TaskOK, register
<1>2. leader = n /\ Propose(n, entry) /\ Task(n, t)
  BY Zenon DEF register, Propose
<1>3. m = members[Len(members)] /\ m \in Entries /\ EntryOK(m)
  BY <1>2, LeaderFacts, Zenon
<1>4. entry \in Entries /\ entry.configs = m.configs /\ entry.nodes = m.nodes \cup {task[n].id}
  BY <1>1, <1>3, Zenon DEF Entries
<1>5. EntryOK(entry) /\ Overlap(m, entry) /\ m.nodes \subseteq entry.nodes
  BY <1>3, <1>4, OverlapsItself, Zenon DEF EntryOK
<1>6. \A k \in entry.nodes : HasGenesis(k)
  BY <1>1, <1>3, <1>4, Zenon DEF MembershipInv, GenesisInv
<1>7. t \in Tasks /\ t.step = "written"
  BY <1>1, NextStep, Zenon DEF Steps
<1>8. TaskOK(t)
  BY <1>7, Zenon DEF TaskOK
<1>9. UNCHANGED <<committed, leader, fingerprint, disk, handler>>
  BY Zenon DEF register
<1> HIDE DEF m, entry, t
<1>10. effective(n).nodes \subseteq entry.nodes /\ Overlap(effective(n), entry)
  BY <1>5, Zenon DEF m
<1>11. QED
  BY <1>2, <1>4, <1>5, <1>6, <1>7, <1>8, <1>9, <1>10, Proposed, Zenon

(* Replicating the newest membership to a node keeps the invariant. *)
LEMMA CatchUpInv ==
    ASSUME MembershipInv, NEW n \in Nodes, catch_up(n)
    PROVE  MembershipInv'
<1>1. task[n] \in Tasks /\ task[n].step = "catchup" /\ task[n].target # {}
  BY TaskFields, Zenon DEF MembershipInv, TaskOK, catch_up
<1>2. UNCHANGED <<committed, leader, disk, handler>>
  BY Zenon DEF catch_up
<1>3. CASE task[n].learners = {}
  <2> DEFINE t == [task[n] EXCEPT !.step = "change"]
  <2>1. t \in Tasks /\ t.step = "change" /\ t.target = task[n].target
    BY <1>1, NextStep, Zenon DEF Steps
  <2>2. TaskOK(t)
    BY <1>1, <2>1, Zenon DEF TaskOK
  <2>3. Task(n, t) /\ UNCHANGED <<members, seen, fingerprint>>
    BY <1>3, Zenon DEF catch_up
  <2> HIDE DEF t
  <2>4. QED
    BY <1>2, <2>1, <2>2, <2>3, OnlyTask, Zenon DEF Log
<1>4. CASE task[n].learners # {}
  <2>1. PICK id \in task[n].learners :
          IF id \in effective(n).nodes
          THEN /\ Propose(n, effective(n)) /\ UNCHANGED fingerprint
               /\ Task(n, [task[n] EXCEPT !.learners = @ \ {id}])
          ELSE /\ add_learner_allowed(n, id)
               /\ prepare_learner(n, id, [task[n] EXCEPT !.learners = @ \ {id}])
               /\ UNCHANGED <<members, seen>>
    BY <1>4, Zenon DEF catch_up
  <2> DEFINE t == [task[n] EXCEPT !.learners = @ \ {id}]
  <2>2. t \in Tasks /\ t.step = "catchup" /\ t.target = task[n].target /\ id \in Nodes
    BY <1>1, Zenon DEF Tasks
  <2>3. TaskOK(t)
    BY <1>1, <2>2, Zenon DEF TaskOK
  <2>4. CASE id \in effective(n).nodes
    <3>1. Propose(n, effective(n)) /\ Task(n, t) /\ UNCHANGED fingerprint
      BY <2>1, <2>4, Zenon
    <3>2. leader = n
      BY <3>1, Zenon DEF Propose
    <3>3. /\ effective(n) \in Entries /\ EntryOK(effective(n)) /\ Overlap(effective(n), effective(n))
          /\ effective(n) = members[Len(members)]
      BY <3>2, LeaderFacts, OverlapsItself, Zenon
    <3>4. \A k \in effective(n).nodes : HasGenesis(k)
      BY <3>3, Zenon DEF MembershipInv, GenesisInv
    <3> HIDE DEF t
    <3>5. QED
      BY <1>2, <2>2, <2>3, <3>1, <3>3, <3>4, Proposed, Zenon
  <2>5. CASE id \notin effective(n).nodes
    <3>1. leader = n /\ prepare_learner(n, id, t) /\ UNCHANGED <<members, seen>>
      BY <2>1, <2>5, Zenon DEF add_learner_allowed
    <3> HIDE DEF t
    <3>2. QED
      BY <1>2, <2>2, <3>1, Prepared, Zenon DEF Log
  <2>6. QED
    BY <2>4, <2>5, Zenon
<1>5. QED
  BY <1>3, <1>4, Zenon

(* The next configuration of a change overlaps the one it follows. *)
LEMMA NextMembership ==
    ASSUME NEW m \in Entries, EntryOK(m), NEW t \in Tasks, t.target # {}, t.target \subseteq m.nodes
    PROVE  LET k == next_membership(m, t)
           IN  k \in Entries /\ EntryOK(k) /\ k.nodes = m.nodes /\ Overlap(m, k)
<1> DEFINE k == next_membership(m, t)
<1>1. k.nodes = m.nodes /\ m.nodes \in SUBSET Nodes /\ m.configs \in Seq(SUBSET Nodes) /\ t.target \in SUBSET Nodes
  <2>1. k.nodes = m.nodes
    BY Zenon DEF next_membership
  <2>2. QED
    BY <2>1, TaskShape, Zenon DEF Entries
<1>2. Len(m.configs) \in 1..Len(m.configs)
  <2>1. Len(m.configs) \in 1..2
    BY Zenon DEF EntryOK
  <2>2. QED
    BY <2>1, OneOrTwo, Zenon
<1>3. CASE \E i \in 1..Len(m.configs) : m.configs[i] = t.target
  <2>1. k = [configs |-> <<t.target>>, nodes |-> m.nodes]
    BY <1>3, Zenon DEF next_membership
  <2>2. k.configs = <<t.target>> /\ Len(k.configs) = 1 /\ k.configs[1] = t.target
    BY <2>1
  <2>3. k \in Entries /\ EntryOK(k)
    BY <1>1, <2>1, <2>2 DEF Entries, EntryOK
  <2>4. Overlap(m, k)
    BY <1>3, <2>2 DEF Overlap
  <2>5. QED
    BY <1>1, <2>3, <2>4, Zenon
<1>4. CASE ~ \E i \in 1..Len(m.configs) : m.configs[i] = t.target
  <2> DEFINE c == m.configs[Len(m.configs)]
  <2>1. k = [configs |-> <<c, t.target>>, nodes |-> m.nodes]
    BY <1>4, Zenon DEF next_membership
  <2>2. c \in SUBSET Nodes /\ c # {} /\ c \subseteq m.nodes
    BY <1>1, <1>2, Zenon DEF EntryOK
  <2> HIDE DEF c, k
  <2>3. k.configs = <<c, t.target>> /\ Len(k.configs) = 2 /\ k.configs[1] = c /\ k.configs[2] = t.target
    BY <2>1, Zenon
  <2>4. k \in Entries
    BY <1>1, <2>1, <2>2 DEF Entries
  <2>5. EntryOK(k)
    BY <1>1, <2>2, <2>3 DEF EntryOK
  <2>6. Overlap(m, k)
    BY <1>2, <2>3 DEF Overlap, c
  <2>7. QED
    BY <1>1, <2>4, <2>5, <2>6, Zenon DEF k
<1>5. QED
  BY <1>3, <1>4, Zenon

(* change_membership, into the joint configuration and out of it, keeps the   *)
(* invariant.                                                                 *)
LEMMA ChangeInv ==
    ASSUME MembershipInv, NEW n \in Nodes, change_membership(n)
    PROVE  MembershipInv'
<1> DEFINE t == task[n]
           m == next_membership(effective(n), t)
           u == Changed(t, m)
<1>1. t \in Tasks /\ t.step = "change" /\ t.target # {}
  BY TaskFields, Zenon DEF MembershipInv, TaskOK, change_membership
<1>2. /\ leader = n /\ Propose(n, m) /\ Task(n, u) /\ t.target \subseteq m.nodes
      /\ UNCHANGED <<committed, leader, fingerprint, disk, handler>>
  BY Zenon DEF change_membership, Propose
<1>3. effective(n) = members[Len(members)] /\ effective(n) \in Entries /\ EntryOK(effective(n))
  BY <1>2, LeaderFacts, Zenon
<1>4. m.nodes = effective(n).nodes
  BY Zenon DEF next_membership
<1>5. m \in Entries /\ EntryOK(m) /\ Overlap(effective(n), m)
  BY <1>1, <1>2, <1>3, <1>4, NextMembership, Zenon
<1>6. \A k \in m.nodes : HasGenesis(k)
  BY <1>3, <1>4, Zenon DEF MembershipInv, GenesisInv
<1>7. /\ u \in Tasks /\ u.step \in {"change", "written"}
      /\ u.step = "change" => u.target = t.target
  BY <1>1, Zenon DEF Changed, Tasks, Steps
<1>8. TaskOK(u)
  BY <1>1, <1>7, Zenon DEF TaskOK
<1> HIDE DEF t, m, u
<1>9. QED
  BY <1>2, <1>4, <1>5, <1>6, <1>7, <1>8, Proposed, Zenon

(* The snapshot brings the genesis to the candidate's disk. *)
LEMMA SnapshotInv ==
    ASSUME MembershipInv, NEW n \in Nodes, transfer_snapshot(n)
    PROVE  MembershipInv'
<1> DEFINE id == task[n].id
           snapshot == snapshot_for_learner(n)
           t == [task[n] EXCEPT !.step = "register"]
<1>1. task[n] \in Tasks /\ id \in Nodes /\ task[n].step = "snapshot"
  BY TaskFields, Zenon DEF MembershipInv, TaskOK, transfer_snapshot
<1>2. UNCHANGED <<members, committed, leader, fingerprint, handler>>
  BY Zenon DEF transfer_snapshot
<1>3. CASE snapshot > 0 /\ rpc(n, id)
  <2>1. /\ seen' = [seen EXCEPT ![id] = IF @ < snapshot THEN snapshot ELSE @]
        /\ disk' = [disk EXCEPT ![id] = fingerprint[n]] /\ Task(n, t)
    BY <1>3, Zenon DEF transfer_snapshot
  <2>2. leader = n /\ snapshot = committed
    BY <1>3 DEF snapshot_for_learner
  <2>3. fingerprint[n] = Cluster /\ fingerprint[id] = Cluster
    BY <1>3, <2>2, LeaderFacts, Zenon DEF HasGenesis, rpc, validate_sender
  <2>4. committed \in Nat /\ committed <= Len(members) /\ Len(members) \in Nat
    BY LogTypes DEF MembershipInv, LogInv
  <2>5. seen' \in [Nodes -> 0..Len(members)] /\ \A k \in Nodes : seen[k] <= seen'[k]
    <3>1. seen \in [Nodes -> 0..Len(members)]
      BY Zenon DEF MembershipInv, LogInv
    <3> HIDE DEF id, snapshot
    <3>2. QED
      BY <1>1, <2>1, <2>2, <2>4, <3>1
  <2>6. LogInv'
    BY <1>2, <2>5, SeenGrows, Zenon DEF MembershipInv
  <2>7. t \in Tasks /\ t.step = "register" /\ t.id = id
    BY <1>1, NextStep, Zenon DEF Steps
  <2>8. TaskOK(t)
    BY <1>1, <2>7, Zenon DEF TaskOK
  <2> HIDE DEF t, id, snapshot
  <2>9. TaskInv' /\ task'[n] = t /\ \A k \in Nodes : k # n => task'[k] = task[k]
    BY <1>2, <2>1, <2>7, <2>8, SetTask, Zenon DEF MembershipInv
  <2>10. /\ disk' \in [Nodes -> Nat] /\ disk'[id] = Cluster
         /\ \A k \in Nodes : k # id => disk'[k] = disk[k]
    BY <1>1, <2>1, <2>3, Zenon DEF MembershipInv, GenesisInv, Cluster
  <2>11. \A k \in Nodes : HasGenesis(k) => HasGenesis(k)'
    BY <1>2, <2>3, <2>10, Zenon DEF HasGenesis
  <2>12. \A k \in Nodes : task'[k].step = "register" =>
            disk'[task'[k].id] = Cluster /\ fingerprint'[task'[k].id] = Cluster
    <3>1. \A k \in Nodes : k # n /\ task'[k].step = "register" => task'[k].id \in Nodes /\ HasGenesis(task'[k].id)
      BY <2>9, Zenon DEF MembershipInv, GenesisInv, TaskInv, TaskOK
    <3>2. \A k \in Nodes : k # n /\ task'[k].step = "register" =>
            disk'[task'[k].id] = Cluster /\ fingerprint'[task'[k].id] = Cluster
      BY <1>2, <2>10, <3>1, Zenon DEF HasGenesis
    <3>3. disk'[task'[n].id] = Cluster /\ fingerprint'[task'[n].id] = Cluster
      BY <1>2, <2>3, <2>7, <2>9, <2>10, Zenon
    <3>4. QED
      BY <3>2, <3>3, Zenon
  <2>13. \A k \in members'[Len(members')].nodes : HasGenesis(k)'
    <3>1. members' = members /\ members[Len(members)].nodes \subseteq Nodes
      <4>1. members[Len(members)] \in Entries
        BY LogTypes DEF MembershipInv
      <4>2. QED
        BY <1>2, <4>1, Zenon DEF Entries
    <3>2. QED
      BY <3>1, <2>11, Zenon DEF MembershipInv, GenesisInv
  <2>14. \A k \in Nodes \ (InitialVoters \cup Blank) : fingerprint'[k] = Own(k) /\ disk'[k] = Own(k)
    <3>1. \A k \in Nodes : Own(k) # Cluster
      BY MembershipAssumption, Zenon DEF Own, Cluster
    <3>2. QED
      BY <1>2, <2>3, <2>10, <3>1, Zenon DEF MembershipInv, GenesisInv
  <2>15. GenesisInv'
    <3>1. fingerprint' = fingerprint /\ \A k \in Nodes : disk'[k] \in {Cluster, Own(k)}
      BY <1>2, <2>10, Zenon DEF MembershipInv, GenesisInv
    <3>2. QED
      BY <3>1, <2>10, <2>12, <2>13, <2>14, Zenon DEF MembershipInv, GenesisInv, HasGenesis
  <2>16. QED
    BY <2>6, <2>9, <2>15, Zenon DEF MembershipInv
<1>4. CASE ~ (snapshot > 0 /\ rpc(n, id))
  <2>1. Task(n, Idle) /\ UNCHANGED <<seen, disk>>
    BY <1>4, Zenon DEF transfer_snapshot
  <2>2. QED
    BY <1>2, <2>1, IdleOK, OnlyTask, Zenon DEF Log
<1>5. QED
  BY <1>3, <1>4, Zenon

(* A restart reads the genesis from disk. *)
LEMMA StartInv ==
    ASSUME MembershipInv, NEW n \in Nodes, start(n)
    PROVE  MembershipInv'
<1>1. /\ fingerprint' = [fingerprint EXCEPT ![n] = disk[n]] /\ leader' \in {leader, None}
      /\ handler' = [handler EXCEPT ![n] = Idle] /\ Task(n, Idle)
      /\ UNCHANGED <<members, committed, seen, disk>>
  BY Zenon DEF start, Task
<1>2. LogInv'
  BY <1>1, LogKept, Zenon DEF MembershipInv
<1>3. /\ task'[n] = Idle /\ \A k \in Nodes : k # n => task'[k] = task[k]
      /\ task' \in [Nodes -> Tasks \cup {Idle}]
  BY <1>1, Zenon DEF Task, MembershipInv, TaskInv
<1>4. TaskInv'
  <2>1. /\ handler' \in [Nodes -> Handlers \cup {Idle}]
        /\ handler'[n] = Idle /\ \A k \in Nodes : k # n => handler'[k] = handler[k]
    BY <1>1, Zenon DEF MembershipInv, TaskInv
  <2>2. \A k \in Nodes : TaskOK(task'[k]) /\ (handler'[k].step = "lock" => handler'[k].target # {})
    BY <1>3, <2>1, IdleOK, Zenon DEF MembershipInv, TaskInv
  <2>3. QED
    BY <1>3, <2>1, <2>2, Zenon DEF TaskInv, TaskOK
<1>5. /\ fingerprint' \in [Nodes -> Nat] /\ fingerprint'[n] = disk[n]
      /\ \A k \in Nodes : k # n => fingerprint'[k] = fingerprint[k]
  BY <1>1, Zenon DEF MembershipInv, GenesisInv
<1>6. \A k \in Nodes : HasGenesis(k) => disk'[k] = Cluster /\ fingerprint'[k] = Cluster
  BY <1>1, <1>5, Zenon DEF HasGenesis
<1>7. \A k \in Nodes : task'[k].step = "register" => task'[k].id \in Nodes /\ HasGenesis(task'[k].id)
  BY <1>3, IdleOK, Zenon DEF MembershipInv, GenesisInv, TaskInv, TaskOK
<1>8. members' = members /\ members[Len(members)].nodes \subseteq Nodes
  <2>1. members[Len(members)] \in Entries
    BY LogTypes DEF MembershipInv
  <2>2. QED
    BY <1>1, <2>1, Zenon DEF Entries
<1>9. \A k \in members'[Len(members')].nodes : disk'[k] = Cluster /\ fingerprint'[k] = Cluster
  BY <1>6, <1>8, Zenon DEF MembershipInv, GenesisInv
<1>10. /\ \A k \in Nodes : fingerprint'[k] \in {Cluster, Own(k)} /\ disk'[k] \in {Cluster, Own(k)}
       /\ \A k \in Nodes \ (InitialVoters \cup Blank) : fingerprint'[k] = Own(k) /\ disk'[k] = Own(k)
       /\ disk' \in [Nodes -> Nat]
  BY <1>1, <1>5, Zenon DEF MembershipInv, GenesisInv
<1>11. GenesisInv'
  BY <1>5, <1>6, <1>7, <1>9, <1>10, Zenon DEF GenesisInv, HasGenesis
<1>12. QED
  BY <1>2, <1>4, <1>11, Zenon DEF MembershipInv

(* A leader that steps down keeps the invariant. *)
LEMMA StepDownInv == MembershipInv /\ StepDown => MembershipInv'
<1> SUFFICES ASSUME MembershipInv, StepDown PROVE MembershipInv'
  BY Zenon
<1>1. leader \in Nodes /\ leader' = None /\ UNCHANGED <<members, committed, seen, fingerprint, disk, handler>>
  BY Zenon DEF StepDown, MembershipInv, LogInv
<1>2. LogInv'
  BY <1>1, LogKept, Zenon DEF MembershipInv
<1>3. Task(leader, task[leader]) \/ Task(leader, Idle)
  BY Zenon DEF StepDown, Task
<1>4. TaskInv' /\ \A k \in Nodes : task'[k] \in {task[k], Idle}
  <2>1. TaskInv /\ task[leader] \in Tasks \cup {Idle} /\ TaskOK(task[leader])
    BY <1>1, TaskFields, Zenon DEF MembershipInv
  <2>2. QED
    BY <1>1, <1>3, <2>1, IdleOK, SetTask, Zenon
<1>5. \A k \in Nodes : task'[k].step = "register" => HasGenesis(task'[k].id)
  BY <1>4, IdleOK, Zenon DEF MembershipInv, GenesisInv
<1>6. GenesisInv'
  BY <1>1, <1>5, GenesisKept, Zenon DEF MembershipInv, GenesisInv
<1>7. QED
  BY <1>2, <1>4, <1>6, Zenon DEF MembershipInv

(* add_learner_locked keeps the invariant: the node gets the genesis before   *)
(* it is registered.                                                          *)
LEMMA AddLearnerInv ==
    ASSUME MembershipInv, NEW n \in Nodes, add_learner_locked(n)
    PROVE  MembershipInv'
<1>1. task[n] \in Tasks /\ task[n].id \in Nodes
  BY TaskFields, Zenon DEF MembershipInv, TaskOK, add_learner_locked
<1>2. UNCHANGED <<Log, leader, disk, handler>>
  BY Zenon DEF add_learner_locked
<1>3. CASE add_learner_allowed(n, task[n].id)
  <2>1. leader = n /\ prepare_learner(n, task[n].id, task[n])
    BY <1>3, Zenon DEF add_learner_locked, add_learner_allowed
  <2>2. QED
    BY <1>1, <1>2, <2>1, Prepared, Zenon
<1>4. CASE ~ add_learner_allowed(n, task[n].id)
  <2>1. Task(n, Idle) /\ UNCHANGED fingerprint
    BY <1>4, Zenon DEF add_learner_locked
  <2>2. QED
    BY <1>2, <2>1, IdleOK, OnlyTask, Zenon
<1>5. QED
  BY <1>3, <1>4, Zenon

(* The end of a membership write keeps the invariant. *)
LEMMA WrittenInv ==
    ASSUME MembershipInv, NEW n \in Nodes, written(n)
    PROVE  MembershipInv'
<1> DEFINE t == IF task[n].target = {} THEN Idle ELSE [task[n] EXCEPT !.step = "catchup"]
<1>1. task[n] \in Tasks
  BY TaskFields, Zenon DEF MembershipInv, written
<1>2. t \in Tasks \cup {Idle} /\ TaskOK(t) /\ t.step # "register"
  <2>1. CASE task[n].target = {}
    BY <2>1, IdleOK, Zenon
  <2>2. CASE task[n].target # {}
    <3>1. t \in Tasks /\ t.step = "catchup" /\ t.target # {}
      BY <1>1, <2>2, NextStep, Zenon DEF Steps
    <3>2. QED
      BY <3>1, Zenon DEF TaskOK
  <2>3. QED
    BY <2>1, <2>2, Zenon
<1>3. Task(n, t) /\ UNCHANGED <<Log, leader, fingerprint, disk, handler>>
  BY Zenon DEF written
<1> HIDE DEF t
<1>4. QED
  BY <1>2, <1>3, OnlyTask, Zenon

(* The handler of a join request keeps the invariant. *)
LEMMA HandleAddInv ==
    ASSUME MembershipInv, NEW n \in Nodes, NEW id \in Nodes, handle_add_learner(n, id)
    PROVE  MembershipInv'
<1>1. Adding(id) \in Tasks /\ Adding(id).step = "prepare" /\ TaskOK(Adding(id))
  BY Zenon DEF Adding, Tasks, Steps, TaskOK
<1>2. Task(n, Adding(id)) /\ UNCHANGED <<Log, leader, fingerprint, disk, handler>>
  BY Zenon DEF handle_add_learner
<1>3. QED
  BY <1>1, <1>2, OnlyTask, Zenon

(* A handler changes; a task can only start from it. *)
LEMMA ScheduleInv ==
    ASSUME MembershipInv, NEW n \in Nodes, schedule_membership_change(n)
    PROVE  MembershipInv'
<1> DEFINE h == handler[n]
           t == Changing(h.target, h.learners)
<1>1. /\ h.step = "lock" /\ handler' = [handler EXCEPT ![n] = Idle]
      /\ Task(n, t) \/ Task(n, task[n])
      /\ UNCHANGED <<Log, leader, fingerprint, disk>>
  BY Zenon DEF schedule_membership_change, Task
<1>2. h \in Handlers /\ h.target # {}
  BY <1>1, IdleOK, Zenon DEF MembershipInv, TaskInv
<1>3. t \in Tasks /\ t.step = "catchup" /\ t.target = h.target
  BY <1>2, Zenon DEF Changing, Tasks, Handlers, Steps
<1>4. TaskOK(t)
  BY <1>2, <1>3, Zenon DEF TaskOK
<1>5. task[n] \in Tasks \cup {Idle} /\ TaskOK(task[n]) /\ TaskInv
  BY TaskFields, Zenon DEF MembershipInv
<1> HIDE DEF t
<1>6. /\ \A k \in Nodes : task'[k] \in {task[k], t}
      /\ task' \in [Nodes -> Tasks \cup {Idle}]
  <2>1. task \in [Nodes -> Tasks \cup {Idle}]
    BY <1>5, Zenon DEF TaskInv
  <2>2. QED
    BY <1>1, <1>3, <2>1, Zenon DEF Task
<1>7. TaskInv'
  <2>1. /\ handler' \in [Nodes -> Handlers \cup {Idle}]
        /\ handler'[n] = Idle /\ \A k \in Nodes : k # n => handler'[k] = handler[k]
    BY <1>1, Zenon DEF MembershipInv, TaskInv
  <2>2. \A k \in Nodes : TaskOK(task'[k]) /\ (handler'[k].step = "lock" => handler'[k].target # {})
    BY <1>4, <1>6, <2>1, IdleOK, Zenon DEF MembershipInv, TaskInv
  <2>3. QED
    BY <1>6, <2>1, <2>2, Zenon DEF TaskInv, TaskOK
<1>8. \A k \in Nodes : task'[k].step = "register" => HasGenesis(task'[k].id)
  BY <1>3, <1>6, Zenon DEF MembershipInv, GenesisInv
<1>9. GenesisInv'
  BY <1>1, <1>8, GenesisKept, Zenon DEF MembershipInv, GenesisInv, Log
<1>10. LogInv'
  BY <1>1, LogKept, Zenon DEF MembershipInv, Log
<1>11. QED
  BY <1>7, <1>9, <1>10, Zenon DEF MembershipInv

(* The handler of a voter change keeps the invariant. *)
LEMMA HandleChangeInv ==
    ASSUME MembershipInv, NEW n \in Nodes, NEW index, NEW target,
           handle_change_membership(n, index, target)
    PROVE  MembershipInv'
<1> DEFINE change == change_voters(n, index, target)
           h == [step |-> "lock", target |-> target, learners |-> change.learners]
<1>1. /\ leader = n /\ target # {} /\ change # Refused
      /\ handler' = [handler EXCEPT ![n] = h]
      /\ UNCHANGED <<Log, leader, fingerprint, disk, task>>
  BY Zenon DEF handle_change_membership
<1>2. effective(n) \in Entries
  BY <1>1, LeaderFacts, Zenon
<1>3. target \subseteq effective(n).nodes /\ change.learners \subseteq target
  <2>1. target \subseteq effective(n).nodes /\ change \in {[learners |-> {}], [learners |-> target \ Voters(effective(n))]}
    BY <1>1, Zenon DEF change_voters
  <2>2. QED
    BY <2>1
<1>4. target \in SUBSET Nodes /\ change.learners \in SUBSET Nodes
  BY <1>2, <1>3, Zenon DEF Entries
<1> HIDE DEF change
<1>5. h \in Handlers /\ h.target = target
  BY <1>4, Zenon DEF Handlers
<1> HIDE DEF h
<1>6. /\ handler' \in [Nodes -> Handlers \cup {Idle}]
      /\ handler'[n] = h /\ \A k \in Nodes : k # n => handler'[k] = handler[k]
  BY <1>1, <1>5, Zenon DEF MembershipInv, TaskInv
<1>7. TaskInv'
  <2>1. \A k \in Nodes : handler'[k].step = "lock" => handler'[k].target # {}
    BY <1>1, <1>5, <1>6, Zenon DEF MembershipInv, TaskInv
  <2>2. QED
    BY <1>1, <1>6, <2>1, Zenon DEF MembershipInv, TaskInv, TaskOK
<1>8. LogInv'
  BY <1>1, LogKept, Zenon DEF MembershipInv, Log
<1>9. GenesisInv'
  BY <1>1, GenesisKept, Zenon DEF MembershipInv, GenesisInv, Log
<1>10. QED
  BY <1>7, <1>8, <1>9, Zenon DEF MembershipInv

-----------------------------------------------------------------------------
(* The bootstrapped cluster satisfies the invariant. *)
LEMMA MembershipInit == Init => MembershipInv
<1> SUFFICES ASSUME Init PROVE MembershipInv
  BY Zenon
<1>1. LogInv
  BY LogInit, Zenon
<1>2. TaskInv
  BY IdleOK, Zenon DEF Init, TaskInv
<1>3. members[Len(members)].nodes = InitialVoters /\ InitialVoters \subseteq Nodes
  BY MembershipAssumption, Zenon DEF Init
<1>4. /\ fingerprint = disk /\ disk = [n \in Nodes |-> IF n \in InitialVoters THEN 0 ELSE n]
      /\ \A n \in Nodes : task[n].step = "idle"
  BY IdleOK, Zenon DEF Init, Cluster, Own
<1>5. GenesisInv
  BY <1>3, <1>4, MembershipAssumption, Zenon DEF GenesisInv, HasGenesis, Cluster, Own
<1>6. QED
  BY <1>1, <1>2, <1>5, Zenon DEF MembershipInv

(* A step that changes nothing keeps the invariant. *)
LEMMA MembershipStutters == MembershipInv /\ UNCHANGED vars => MembershipInv'
<1> SUFFICES ASSUME MembershipInv, UNCHANGED vars PROVE MembershipInv'
  BY Zenon
<1>1. LogInv'
  BY LogKept, Zenon DEF MembershipInv, vars
<1>2. TaskInv'
  BY Zenon DEF MembershipInv, TaskInv, TaskOK, vars
<1>3. GenesisInv'
  BY GenesisKept, Zenon DEF MembershipInv, GenesisInv, vars
<1>4. QED
  BY <1>1, <1>2, <1>3, Zenon DEF MembershipInv

(* Every step keeps the invariant. *)
LEMMA MembershipStep == MembershipInv /\ Next => MembershipInv'
<1> SUFFICES ASSUME MembershipInv, Next PROVE MembershipInv'
  BY Zenon
<1>1. CASE Commit
  <2>1. LogInv'
    BY <1>1, CommitLog, Zenon DEF MembershipInv
  <2>2. TaskInv'
    BY <1>1, Zenon DEF Commit, MembershipInv, TaskInv, TaskOK
  <2>3. GenesisInv'
    BY <1>1, GenesisKept, Zenon DEF Commit, MembershipInv, GenesisInv
  <2>4. QED
    BY <2>1, <2>2, <2>3, Zenon DEF MembershipInv
<1>2. CASE StepDown
  BY <1>2, StepDownInv, Zenon
<1>3. ASSUME NEW n \in Nodes, append_entries(n) PROVE MembershipInv'
  <2>1. /\ UNCHANGED <<members, committed, leader, fingerprint, disk, handler, task>>
        /\ seen' = [seen EXCEPT ![n] = @ + 1] /\ seen[n] < Len(members)
    BY <1>3, Zenon DEF append_entries
  <2>2. seen' \in [Nodes -> 0..Len(members)] /\ \A k \in Nodes : seen[k] <= seen'[k]
    BY <2>1, LogTypes, SMTT(30) DEF MembershipInv, LogInv
  <2>3. LogInv'
    BY <2>1, <2>2, SeenGrows, Zenon DEF MembershipInv
  <2>4. TaskInv'
    BY <2>1, Zenon DEF MembershipInv, TaskInv, TaskOK
  <2>5. GenesisInv'
    BY <2>1, GenesisKept, Zenon DEF MembershipInv, GenesisInv
  <2>6. QED
    BY <2>3, <2>4, <2>5, Zenon DEF MembershipInv
<1>4. ASSUME NEW n \in Nodes, Elect(n) PROVE MembershipInv'
  <2>1. LogInv' /\ members'[Len(members')].nodes \subseteq members[Len(members)].nodes
    BY <1>4, ElectLog, Zenon DEF MembershipInv
  <2>2. TaskInv'
    BY <1>4, Zenon DEF Elect, MembershipInv, TaskInv, TaskOK
  <2>3. GenesisInv'
    BY <1>4, <2>1, GenesisKept, Zenon DEF Elect, MembershipInv, GenesisInv
  <2>4. QED
    BY <2>1, <2>2, <2>3, Zenon DEF MembershipInv
<1>5. ASSUME NEW n \in Nodes, TaskFails(n) PROVE MembershipInv'
  BY <1>5, IdleOK, OnlyTask, Zenon DEF TaskFails
<1>6. ASSUME NEW n \in Nodes, Progress(n) PROVE MembershipInv'
  BY <1>6, AddLearnerInv, SnapshotInv, RegisterInv, WrittenInv, CatchUpInv, ChangeInv, Zenon DEF Progress
<1>7. QED
  BY <1>1, <1>2, <1>3, <1>4, <1>5, <1>6, StartInv, ScheduleInv, HandleAddInv, HandleChangeInv, Zenon
     DEF Next

(* The invariant of the cluster's memberships: every membership overlaps the    *)
(* one before it, the committed ones are held by their quorums, and only nodes *)
(* with the genesis of the cluster are in any (add_learner_locked,             *)
(* transfer_snapshot, change_membership and OpenRaft's elections).             *)
THEOREM MembershipInvariance == Spec => []MembershipInv
<1>1. MembershipInv /\ [Next]_vars => MembershipInv'
  BY MembershipStep, MembershipStutters, Zenon
<1>2. QED
  BY <1>1, MembershipInit, PTL DEF Spec

(* Memberships are well formed at every node, whatever is cut off by a new     *)
(* leader: at most two configurations, every voter one of the nodes.           *)
THEOREM WellFormed == Spec => []TypeOK
<1>1. MembershipInv => TypeOK
  <2> SUFFICES ASSUME MembershipInv PROVE TypeOK
    BY Zenon
  <2>1. \A i \in 1..Len(members) : Len(members[i].configs) \in 1..2 /\ Voters(members[i]) \subseteq members[i].nodes
    <3> TAKE i \in 1..Len(members)
    <3>1. members[i] \in Entries /\ EntryOK(members[i])
      BY LogTypes, Zenon DEF MembershipInv, LogInv
    <3>2. QED
      BY <3>1, VotersAreNodes, Zenon DEF EntryOK
  <2>2. QED
    BY <2>1, Zenon DEF TypeOK, MembershipInv, LogInv, GenesisInv
<1>2. QED
  BY <1>1, MembershipInvariance, PTL

(* Every member durably holds the genesis of the cluster, whatever crashes,     *)
(* elections and lost entries happen during joins (MembersShareGenesis).       *)
THEOREM MembersHaveGenesis == Spec => []MembersShareGenesis
<1>1. MembershipInv => MembersShareGenesis
  BY Zenon DEF MembershipInv, GenesisInv, HasGenesis, MembersShareGenesis
<1>2. QED
  BY <1>1, MembershipInvariance, PTL

(* No node of a committed membership is ever left out of a later one: by the    *)
(* majorities, a new leader cannot cut off a committed entry, and every entry  *)
(* keeps the nodes of the last (change_membership with retain).                *)
THEOREM MembersAreRetained == Spec => RetainsMembers
<1> DEFINE Retains == \A i \in 1..committed, j \in 1..Len(members') :
                        i <= j => members[i].nodes \subseteq members'[j].nodes
<1>1. MembershipInv /\ [Next]_vars => Retains
  <2> SUFFICES ASSUME MembershipInv, [Next]_vars PROVE Retains
    BY Zenon
  <2>1. /\ \A i, j \in 1..Len(members) : i <= j => members[i].nodes \subseteq members[j].nodes
        /\ committed \in Nat /\ Len(members) \in Nat /\ committed <= Len(members)
        /\ members \in Seq(Entries)
    BY LogTypes, SMTT(60) DEF MembershipInv, LogInv
  <2>2. MembershipInv'
    BY MembershipStep, MembershipStutters, Zenon
  <2>3. \A i \in 1..committed : i \in 1..Len(members') /\ members'[i] = members[i]
    <3>1. CASE members' = members
      BY <3>1, <2>1
    <3>2. ASSUME NEW n \in Nodes, Elect(n) PROVE \A i \in 1..committed : i \in 1..Len(members') /\ members'[i] = members[i]
      <4>1. committed <= seen[n] /\ seen[n] \in Nat /\ seen[n] <= Len(members)
        BY <3>2, ElectedHoldsCommitted, LogTypes, Zenon DEF MembershipInv
      <4>2. members' = SubSeq(members, 1, seen[n])
        BY <3>2, Zenon DEF Elect
      <4>3. QED
        BY <4>1, <4>2, <2>1
    <3>3. ASSUME NEW n \in Nodes, NEW e, Propose(n, e) PROVE \A i \in 1..committed : i \in 1..Len(members') /\ members'[i] = members[i]
      <4>1. members' = Append(members, e)
        BY <3>3, Zenon DEF Propose
      <4>2. QED
        BY <4>1, <2>1
    <3>4. members' = members \/ (\E n \in Nodes : Elect(n)) \/ (\E n \in Nodes : \E e : Propose(n, e))
      BY ZenonT(60) DEF Next, vars, Commit, StepDown, append_entries, start, TaskFails, schedule_membership_change,
             Progress, handle_add_learner, handle_change_membership, add_learner_locked,
             transfer_snapshot, register, written, catch_up, change_membership, Log
    <3>5. QED
      BY <3>1, <3>2, <3>3, <3>4, Zenon
  <2>4. \A i, j \in 1..Len(members') : i <= j => members'[i].nodes \subseteq members'[j].nodes
    BY <2>2, Zenon DEF MembershipInv, LogInv
  <2>5. QED
    BY <2>3, <2>4, Zenon
<1>2. QED
  BY <1>1, MembershipInvariance, PTL DEF Spec, RetainsMembers

(* A node with a catalog of its own is never made to take another genesis      *)
(* (prepare_learner refuses it), on disk or in memory.                         *)
THEOREM OwnCatalogIsKept == Spec => KeepsOwnCatalog
<1>1. MembershipInv' => \A n \in Nodes \ (InitialVoters \cup Blank) : fingerprint'[n] = Own(n) /\ disk'[n] = Own(n)
  BY Zenon DEF MembershipInv, GenesisInv, Own
<1>2. QED
  BY <1>1, MembershipInvariance, PTL DEF Spec, KeepsOwnCatalog

(* Every membership status a node reports passes the client's validate, in a   *)
(* joint configuration, after entries were cut off and before the first one.   *)
THEOREM StatusAccepted == Spec => []StatusIsAccepted
<1>1. ASSUME NEW m, {} \notin Range(m.configs), Voters(m) \subseteq m.nodes, NEW n, effective(n) = m
      PROVE  validate(membership_status(n))
  <2> DEFINE role(id) == IF id \in Voters(m) THEN "Voter" ELSE "Learner"
             ns == {[id |-> id, role |-> role(id)] : id \in m.nodes}
             st == [voter_ids |-> Voters(m), learner_ids |-> m.nodes \ Voters(m),
                    effective_voter_configs |-> m.configs, nodes |-> ns]
  <2>1. membership_status(n) = st
    BY <1>1, Zenon DEF membership_status
  <2>2. \A x \in ns : (x.role = "Voter") = (x.id \in Voters(m)) /\ (x.role # "Voter" => x.id \in m.nodes \ Voters(m))
    OBVIOUS
  <2>3. {x.id : x \in ns} = m.nodes
    <3>1. \A x \in ns : x.id \in m.nodes
      OBVIOUS
    <3>2. \A id \in m.nodes : [id |-> id, role |-> role(id)] \in ns /\ [id |-> id, role |-> role(id)].id = id
      BY Zenon
    <3> HIDE DEF ns
    <3>3. \A id \in m.nodes : \E x \in ns : id = x.id
      BY <3>2, Zenon
    <3>4. QED
      BY <3>1, <3>3, Zenon
  <2>4. Voters(m) \cup (m.nodes \ Voters(m)) = m.nodes
    BY <1>1, Zenon
  <2> HIDE DEF ns
  <2>5. /\ st.voter_ids = Voters(m) /\ st.learner_ids = m.nodes \ Voters(m)
        /\ st.effective_voter_configs = m.configs /\ st.nodes = ns
    BY Zenon
  <2> HIDE DEF st
  <2>6. UNION Range(m.configs) = Voters(m) /\ Voters(m) \cap (m.nodes \ Voters(m)) = {}
    BY Zenon DEF Voters
  <2>7. validate(st)
    BY <1>1, <2>2, <2>3, <2>4, <2>5, <2>6 DEF validate
  <2>8. QED
    BY <2>1, <2>7, Zenon
<1>2. MembershipInv => StatusIsAccepted
  <2> SUFFICES ASSUME MembershipInv, NEW n \in Nodes
               PROVE  {} \notin Range(effective(n).configs) /\ Voters(effective(n)) \subseteq effective(n).nodes
    BY <1>1, Zenon DEF StatusIsAccepted
  <2>1. CASE seen[n] = 0
    <3>1. effective(n) = Empty /\ Empty.configs = <<>> /\ Empty.nodes = {}
      BY <2>1, Zenon DEF effective, Empty
    <3>2. Range(<<>>) = {}
      BY DEF Range
    <3>3. QED
      BY <3>1, <3>2, Zenon DEF Voters
  <2>2. CASE seen[n] # 0
    <3> DEFINE m == effective(n)
    <3>1. m = members[seen[n]] /\ seen[n] \in 1..Len(members)
      BY <2>2, LogTypes DEF effective, MembershipInv
    <3>2. m \in Entries /\ EntryOK(m)
      BY <3>1, LogTypes, Zenon DEF MembershipInv, LogInv
    <3>3. Range(m.configs) = {m.configs[i] : i \in 1..Len(m.configs)}
      BY <3>2 DEF Range, Entries
    <3>4. QED
      BY <3>2, <3>3, VotersAreNodes, Zenon DEF EntryOK
  <2>3. QED
    BY <2>1, <2>2, Zenon
<1>3. QED
  BY <1>2, MembershipInvariance, PTL
=============================================================================
