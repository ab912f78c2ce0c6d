--------------------------- MODULE RaftMembership ---------------------------
(* Joining nodes and changing voters of a Raft cluster: server/raft/peer.rs,    *)
(* peer/membership.rs, learner.rs, config.rs and replication/raft/network.rs   *)
(* and membership/.  OpenRaft is external: of its log only the membership      *)
(* entries are kept, every node holds a prefix of them and uses its last one   *)
(* at once, an entry commits when a majority of each of its configurations     *)
(* holds it, and a new leader cuts off what it does not hold.                  *)
EXTENDS Naturals, Sequences, FiniteSets, Functions

CONSTANTS Nodes,
          InitialVoters,  \* the members declared at bootstrap
          Requests,       \* the voter sets operators ask for
          Blank,          \* nodes that start with an empty catalog
          MaxEntries      \* bound: no join or change starts with more entries

ASSUME MembershipAssumption ==
    /\ IsFiniteSet(Nodes) /\ Nodes \subseteq Nat \ {0}
    /\ InitialVoters \subseteq Nodes /\ InitialVoters # {}

VARIABLES members,      \* the membership entries of the cluster
          committed,    \* how many of them are committed
          leader,       \* the leader, or None
          seen,         \* seen[n]: how many entries node n holds
          fingerprint,  \* fingerprint[n]: the genesis fingerprint in memory
          disk,         \* disk[n]: the one its state sidecar records
          handler,      \* handler[n]: a voter change between check and lock
          task          \* task[n]: the task that holds membership_change_lock

vars == <<members, committed, leader, seen, fingerprint, disk, handler, task>>

(* Node IDs are positive. *)
None == 0
Idle == [step |-> "idle"]
Cluster == 0
Own(n) == n

Voters(m) == UNION Range(m.configs)
Empty == [configs |-> <<>>, nodes |-> {}]

(* The effective membership in a node's metrics. *)
effective(n) == IF seen[n] = 0 THEN Empty ELSE members[seen[n]]

Majority(S, config) == 2 * Cardinality(S \cap config) > Cardinality(config)
Quorum(S, m) == \A i \in 1..Len(m.configs) : Majority(S, m.configs[i])

(* start: every initial voter opens the same catalog and one is bootstrapped; *)
(* a blank node has a fingerprint of its own.                                *)
Init ==
    /\ members = <<[configs |-> <<InitialVoters>>, nodes |-> InitialVoters]>>
    /\ committed = 1 /\ leader = None
    /\ seen = [n \in Nodes |-> IF n \in InitialVoters THEN 1 ELSE 0]
    /\ disk = [n \in Nodes |-> IF n \in InitialVoters THEN Cluster ELSE Own(n)]
    /\ fingerprint = disk
    /\ handler = [n \in Nodes |-> Idle] /\ task = [n \in Nodes |-> Idle]

Log == <<members, committed, seen>>

(* validate_sender: the sender must be in the receiver's effective membership, *)
(* or among the members the receiver was started with.  A joining node is      *)
(* started with the initial voters and the sender of its first request.        *)
validate_sender(n, sender) ==
    /\ fingerprint[n] = fingerprint[sender]
    /\ seen[n] = 0 \/ sender \in effective(n).nodes

(* rpc: a call arrives, and its reply carries the caller's fingerprint. *)
rpc(sender, n) == validate_sender(n, sender)

-----------------------------------------------------------------------------
(* append_entries: the leader's next entry reaches a node that accepts it. *)
append_entries(n) ==
    /\ leader # None /\ leader # n /\ seen[n] > 0
    /\ seen[n] < Len(members) /\ n \in members[Len(members)].nodes
    /\ rpc(leader, n)
    /\ seen' = [seen EXCEPT ![n] = @ + 1]
    /\ UNCHANGED <<members, committed, leader, fingerprint, disk, handler, task>>

Holding(i) == {n \in Nodes : seen[n] >= i}

(* OpenRaft commits the last entry. *)
Commit ==
    /\ leader # None /\ committed < Len(members)
    /\ Quorum(Holding(Len(members)), members[Len(members)])
    /\ committed' = Len(members)
    /\ UNCHANGED <<members, leader, seen, fingerprint, disk, handler, task>>

(* vote: the nodes that grant a vote to n accept it as a sender and hold no    *)
(* longer log.                                                                 *)
vote(n) == {m \in Nodes : m = n \/ (seen[m] > 0 /\ rpc(n, m) /\ seen[m] <= seen[n])}

(* OpenRaft elects a voter, or a node that only an uncommitted entry leaves    *)
(* out; entries the new leader does not hold are cut off.                      *)
Elect(n) ==
    /\ leader = None /\ seen[n] > 0 /\ Quorum(vote(n), effective(n))
    /\ n \in Voters(effective(n)) \/ (seen[n] > committed /\ n \in Voters(members[committed]))
    /\ leader' = n
    /\ members' = SubSeq(members, 1, seen[n])
    /\ seen' = [m \in Nodes |-> IF seen[m] > seen[n] THEN seen[n] ELSE seen[m]]
    /\ UNCHANGED <<committed, fingerprint, disk, handler, task>>

(* The leader stops leading; a task that is in one of OpenRaft's calls, or      *)
(* about to make one, fails.                                                   *)
StepDown ==
    /\ leader # None /\ leader' = None
    /\ task' = [task EXCEPT ![leader] = IF @.step \in {"prepare", "snapshot"} THEN @ ELSE Idle]
    /\ UNCHANGED <<members, committed, seen, fingerprint, disk, handler>>

(* A process stops and starts again: start reads the fingerprint from disk. *)
start(n) ==
    /\ leader' = IF leader = n THEN None ELSE leader
    /\ fingerprint' = [fingerprint EXCEPT ![n] = disk[n]]
    /\ handler' = [handler EXCEPT ![n] = Idle] /\ task' = [task EXCEPT ![n] = Idle]
    /\ leader = n \/ fingerprint # fingerprint' \/ handler # handler' \/ task # task'
    /\ UNCHANGED <<members, committed, seen, disk>>

(* OpenRaft takes one membership change at a time. *)
Propose(n, entry) ==
    /\ leader = n /\ committed = Len(members)
    /\ members' = Append(members, entry)
    /\ seen' = [seen EXCEPT ![n] = Len(members) + 1]

-----------------------------------------------------------------------------
Refused == [refused |-> TRUE]
Task(n, t) == task' = [task EXCEPT ![n] = t]

(* add_learner: the task makes these checks again, under the lock. *)
add_learner_allowed(n, id) == id # n /\ id \notin effective(n).nodes /\ leader = n

(* A task adds the node id, or the learners of a voter change one by one before *)
(* it changes the voters to its target.                                        *)
Adding(id) == [step |-> "prepare", id |-> id, target |-> {}, learners |-> {}]
Changing(target, learners) ==
    [step |-> "catchup", id |-> None, target |-> target, learners |-> learners]

handle_add_learner(n, id) ==
    /\ add_learner_allowed(n, id)
    /\ task[n] = Idle /\ Len(members) <= MaxEntries
    /\ Task(n, Adding(id))
    /\ UNCHANGED <<Log, leader, fingerprint, disk, handler>>

(* A node that may adopt another genesis: nothing in its catalog, its state or *)
(* its log.                                                                    *)
can_adopt_genesis_fingerprint(id) == id \in Blank /\ disk[id] = Own(id) /\ seen[id] = 0

(* The candidate's side of prepare_learner: it has the fingerprint already, or  *)
(* adopts one, once.                                                           *)
prepared(n, id) ==
    \/ fingerprint[id] = fingerprint[n]
    \/ can_adopt_genesis_fingerprint(id) /\ fingerprint[id] = Own(id)

(* prepare_learner: a candidate with another genesis, or with data of its own,  *)
(* ends the task; the fingerprint is adopted in memory.                        *)
prepare_learner(n, id, t) ==
    IF prepared(n, id)
    THEN /\ fingerprint' = [fingerprint EXCEPT ![id] = fingerprint[n]]
         /\ Task(n, [t EXCEPT !.step = "snapshot", !.id = id])
    ELSE Task(n, Idle) /\ UNCHANGED fingerprint

(* add_learner_locked for the task of add_learner. *)
add_learner_locked(n) ==
    /\ task[n].step = "prepare"
    /\ IF add_learner_allowed(n, task[n].id) THEN prepare_learner(n, task[n].id, task[n])
       ELSE Task(n, Idle) /\ UNCHANGED fingerprint
    /\ UNCHANGED <<Log, leader, disk, handler>>

(* Mutant: the node is registered before it holds the snapshot. *)
RegisterFirst(n) ==
    /\ task[n].step = "snapshot"
    /\ Task(n, [task[n] EXCEPT !.step = "register"])
    /\ UNCHANGED <<Log, leader, fingerprint, disk, handler>>

(* snapshot_for_learner: the applied membership of a leader that still leads. *)
snapshot_for_learner(n) == IF leader = n THEN committed ELSE 0

(* transfer_snapshot: the leader's state, with its membership and its genesis,  *)
(* is installed; the candidate checks the sender.                              *)
transfer_snapshot(n) ==
    LET id == task[n].id
        snapshot == snapshot_for_learner(n)
    IN  /\ task[n].step = "snapshot"
        /\ IF snapshot > 0 /\ rpc(n, id)
           THEN /\ seen' = [seen EXCEPT ![id] = IF @ < snapshot THEN snapshot ELSE @]
                /\ disk' = [disk EXCEPT ![id] = fingerprint[n]]
                /\ Task(n, [task[n] EXCEPT !.step = "register"])
           ELSE Task(n, Idle) /\ UNCHANGED <<seen, disk>>
        /\ UNCHANGED <<members, committed, leader, fingerprint, handler>>

(* OpenRaft's add_learner: an entry with one more node; the task waits for it   *)
(* to commit, then goes on with its voter change or drops the lock.            *)
register(n) ==
    /\ task[n].step = "register"
    /\ Propose(n, [effective(n) EXCEPT !.nodes = @ \cup {task[n].id}])
    /\ Task(n, [task[n] EXCEPT !.step = "written"])
    /\ UNCHANGED <<committed, leader, fingerprint, disk, handler>>

written(n) ==
    /\ task[n].step = "written" /\ committed = Len(members)
    /\ Task(n, IF task[n].target = {} THEN Idle ELSE [task[n] EXCEPT !.step = "catchup"])
    /\ UNCHANGED <<Log, leader, fingerprint, disk, handler>>

(* A call of the task that OpenRaft refuses or that times out. *)
TaskFails(n) ==
    /\ task[n] # Idle /\ Task(n, Idle)
    /\ UNCHANGED <<Log, leader, fingerprint, disk, handler>>

-----------------------------------------------------------------------------
(* Mutant: a joint configuration refuses every request, its own target too. *)
NoResume(n, index, target) ==
    LET m == effective(n)
    IN  IF Len(m.configs) = 1 /\ Voters(m) # target /\ target \subseteq m.nodes /\ index = seen[n]
        THEN [learners |-> target \ Voters(m)] ELSE Refused

(* change_voters: what to schedule for a request, from one look at the metrics. *)
change_voters(n, index, target) ==
    LET m == effective(n)
    IN  IF ~ target \subseteq m.nodes THEN Refused
        ELSE IF Len(m.configs) > 1
        THEN IF m.configs[Len(m.configs)] = target THEN [learners |-> {}] ELSE Refused
        ELSE IF Voters(m) # target /\ index = seen[n]
        THEN [learners |-> target \ Voters(m)] ELSE Refused

(* handle_change_membership: the operator names a stable membership it was      *)
(* shown, by its log index, and the voters it wants.                           *)
handle_change_membership(n, index, target) ==
    LET change == change_voters(n, index, target)
    IN  /\ handler[n] = Idle /\ leader = n /\ target # {}
        /\ change # Refused
        /\ Len(effective(n).configs) > 1 \/ Len(members) <= MaxEntries
        /\ handler' = [handler EXCEPT ![n] = [step |-> "lock", target |-> target, learners |-> change.learners]]
        /\ UNCHANGED <<Log, leader, fingerprint, disk, task>>

(* schedule_membership_change: the lock is taken or the request refused. *)
schedule_membership_change(n) ==
    LET h == handler[n]
    IN  /\ h.step = "lock"
        /\ handler' = [handler EXCEPT ![n] = Idle]
        /\ task' = [task EXCEPT ![n] = IF @ = Idle THEN Changing(h.target, h.learners) ELSE @]
        /\ UNCHANGED <<Log, leader, fingerprint, disk>>

(* add_learner_locked for the learners of a voter change: OpenRaft writes the   *)
(* entry of a known one again and waits until it keeps up; one that a lost     *)
(* entry made unknown is added again.                                          *)
catch_up(n) ==
    LET t == task[n]
    IN  /\ t.step = "catchup"
        /\ IF t.learners = {}
           THEN Task(n, [t EXCEPT !.step = "change"]) /\ UNCHANGED <<members, seen, fingerprint>>
           ELSE \E id \in t.learners :
                IF id \in effective(n).nodes
                THEN /\ Propose(n, effective(n)) /\ UNCHANGED fingerprint
                     /\ Task(n, [t EXCEPT !.learners = @ \ {id}])
                ELSE /\ add_learner_allowed(n, id)
                     /\ prepare_learner(n, id, [t EXCEPT !.learners = @ \ {id}])
                     /\ UNCHANGED <<members, seen>>
        /\ UNCHANGED <<committed, leader, disk, handler>>

(* What change_membership asks for with retain: the joint configuration, or    *)
(* the target alone once it is part of the current one.                        *)
next_membership(m, t) ==
    [configs |-> IF \E i \in 1..Len(m.configs) : m.configs[i] = t.target THEN <<t.target>>
                 ELSE <<m.configs[Len(m.configs)], t.target>>,
     nodes |-> m.nodes]

(* The joint configuration is followed by another step of the change. *)
Changed(t, m) == [t EXCEPT !.step = IF Len(m.configs) > 1 THEN "change" ELSE "written",
                           !.target = IF Len(m.configs) > 1 THEN @ ELSE {}]

(* Mutant: without retain, the voters left out are forgotten. *)
Forgetful(n) ==
    LET t == task[n]
        m == next_membership(effective(n), t)
    IN  /\ t.step = "change"
        /\ Propose(n, [m EXCEPT !.nodes = Voters(m)])
        /\ Task(n, Changed(t, m))
        /\ UNCHANGED <<committed, leader, fingerprint, disk, handler>>

(* OpenRaft's change_membership: joint, and when that is committed, uniform.  A *)
(* voter that is no member is an error.                                        *)
change_membership(n) ==
    LET t == task[n]
        m == next_membership(effective(n), t)
    IN  /\ t.step = "change" /\ t.target \subseteq m.nodes
        /\ Propose(n, m)
        /\ Task(n, Changed(t, m))
        /\ UNCHANGED <<committed, leader, fingerprint, disk, handler>>

-----------------------------------------------------------------------------
Progress(n) ==
    \/ add_learner_locked(n) \/ transfer_snapshot(n) \/ register(n) \/ written(n)
    \/ catch_up(n) \/ change_membership(n)

Next ==
    \/ Commit \/ StepDown
    \/ \E n \in Nodes :
        \/ append_entries(n) \/ Elect(n) \/ start(n) \/ TaskFails(n)
        \/ schedule_membership_change(n) \/ Progress(n)
        \/ \E id \in Nodes : handle_add_learner(n, id)
        \/ \E target \in Requests, index \in 1..Len(members) : handle_change_membership(n, index, target)

Spec == Init /\ [][Next]_vars

-----------------------------------------------------------------------------
(* What must go on for a change to end: the tasks and handlers, OpenRaft's      *)
(* replication, commitment and elections, and an operator who sends the target *)
(* of a joint configuration again.                                             *)
Resume(n) == \E target \in Requests : Len(effective(n).configs) > 1 /\ handle_change_membership(n, seen[n], target)

Fairness ==
    /\ WF_vars(Commit)
    /\ \A n \in Nodes :
        /\ WF_vars(append_entries(n)) /\ WF_vars(Elect(n))
        /\ WF_vars(schedule_membership_change(n)) /\ WF_vars(Progress(n)) /\ WF_vars(Resume(n))

FairSpec == Spec /\ Fairness

Fault == StepDown \/ \E n \in Nodes : start(n) \/ TaskFails(n)

-----------------------------------------------------------------------------
(* membership_status, and RaftMembershipStatus::validate of the client. *)
membership_status(n) ==
    LET m == effective(n)
    IN  [voter_ids |-> Voters(m), learner_ids |-> m.nodes \ Voters(m),
         effective_voter_configs |-> m.configs,
         nodes |-> {[id |-> id, role |-> IF id \in Voters(m) THEN "Voter" ELSE "Learner"] : id \in m.nodes}]

validate(status) ==
    /\ status.voter_ids \cap status.learner_ids = {}
    /\ {} \notin Range(status.effective_voter_configs)
    /\ UNION Range(status.effective_voter_configs) = status.voter_ids
    /\ \A x \in status.nodes :
        (x.role = "Voter") = (x.id \in status.voter_ids) /\ (x.role # "Voter" => x.id \in status.learner_ids)
    /\ {x.id : x \in status.nodes} = status.voter_ids \cup status.learner_ids

(* The membership of the cluster and of every node is well formed. *)
TypeOK ==
    /\ committed \in 1..Len(members) /\ Len(members) <= committed + 1
    /\ leader \in Nodes \cup {None} /\ seen \in [Nodes -> 0..Len(members)]
    /\ \A i \in 1..Len(members) : Len(members[i].configs) \in 1..2 /\ Voters(members[i]) \subseteq members[i].nodes
    /\ \A n \in Nodes : {fingerprint[n], disk[n]} \subseteq {Cluster, Own(n)}

(* Every status a node can report passes the checks of the membership client,   *)
(* in stable and joint configurations and on a node that has none yet.         *)
StatusIsAccepted == \A n \in Nodes : validate(membership_status(n))

(* A node is a member only once it durably holds the genesis of the cluster:    *)
(* a restart of the candidate or of the leader at any point of the join, or a  *)
(* loss of leadership, leaves no member that would refuse the others.          *)
MembersShareGenesis ==
    \A n \in members[Len(members)].nodes : disk[n] = Cluster /\ fingerprint[n] = Cluster

(* A node with a catalog of its own never takes over another genesis, on disk   *)
(* or in memory (prepare_learner).                                             *)
KeepsOwnCatalog ==
    [][\A n \in Nodes \ (InitialVoters \cup Blank) : fingerprint'[n] = Own(n) /\ disk'[n] = Own(n)]_vars

(* No voter change forgets a node: who was a member of a committed membership   *)
(* is one of every later membership (retain).                                  *)
RetainsMembers ==
    [][\A i \in 1..committed, j \in 1..Len(members') : i <= j => members[i].nodes \subseteq members'[j].nodes]_vars

(* When the faults end, a joint configuration ends too: whoever leads then can  *)
(* resume the change of the leader that was lost.                              *)
JointEnds ==
    <>[][~Fault]_vars => []<>(Len(members[Len(members)].configs) = 1)

-----------------------------------------------------------------------------
(* The inductive invariant of RaftMembershipProofs. *)
Entries == [configs : Seq(SUBSET Nodes), nodes : SUBSET Nodes]
EntryOK(m) ==
    /\ Len(m.configs) \in 1..2
    /\ \A i \in 1..Len(m.configs) : m.configs[i] # {} /\ m.configs[i] \subseteq m.nodes

(* Two entries with a configuration in common: their quorums meet. *)
Overlap(m, k) == \E i \in 1..Len(m.configs), j \in 1..Len(k.configs) : m.configs[i] = k.configs[j]

(* The log: entries follow from one another, the committed ones are held by a   *)
(* quorum of their own configurations, and the leader holds all.               *)
LogInv ==
    /\ members \in Seq(Entries) /\ \A i \in 1..Len(members) : EntryOK(members[i])
    /\ committed \in 1..Len(members) /\ Len(members) <= committed + 1
    /\ seen \in [Nodes -> 0..Len(members)] /\ leader \in Nodes \cup {None}
    /\ \A i, j \in 1..Len(members) : i <= j => members[i].nodes \subseteq members[j].nodes
    /\ \A i \in 1..Len(members) : i < Len(members) => Overlap(members[i], members[i + 1])
    /\ \A i \in 1..committed : Quorum(Holding(i), members[i])
    /\ leader # None => seen[leader] = Len(members) /\ leader \in members[Len(members)].nodes

Steps == {"prepare", "snapshot", "register", "written", "catchup", "change"}
Tasks == [step : Steps, id : Nodes \cup {None}, target : SUBSET Nodes, learners : SUBSET Nodes]
Handlers == [step : {"lock"}, target : SUBSET Nodes, learners : SUBSET Nodes]

(* What the tasks and handlers know. *)
TaskOK(t) ==
    /\ t.step \in {"prepare", "snapshot", "register"} => t.id \in Nodes
    /\ t.step \in {"catchup", "change"} => t.target # {}
TaskInv ==
    /\ task \in [Nodes -> Tasks \cup {Idle}] /\ handler \in [Nodes -> Handlers \cup {Idle}]
    /\ \A n \in Nodes : TaskOK(task[n]) /\ (handler[n].step = "lock" => handler[n].target # {})

(* Where the genesis of the cluster is. *)
HasGenesis(n) == disk[n] = Cluster /\ fingerprint[n] = Cluster
GenesisInv ==
    /\ fingerprint \in [Nodes -> Nat] /\ disk \in [Nodes -> Nat]
    /\ \A n \in Nodes : fingerprint[n] \in {Cluster, Own(n)} /\ disk[n] \in {Cluster, Own(n)}
    /\ \A n \in members[Len(members)].nodes : HasGenesis(n)
    /\ \A n \in Nodes : task[n].step = "register" => HasGenesis(task[n].id)
    /\ \A n \in Nodes \ (InitialVoters \cup Blank) : fingerprint[n] = Own(n) /\ disk[n] = Own(n)

MembershipInv == LogInv /\ TaskInv /\ GenesisInv
=============================================================================
