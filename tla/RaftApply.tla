------------------------------ MODULE RaftApply ------------------------------
(* The replicated state machine: replication/raft/state_machine.rs with its   *)
(* apply.rs, snapshot.rs and command.rs.  OpenRaft is external: it hands every *)
(* node the entries of one agreed log in order, starting after the position   *)
(* the node has stored, and asks it to build, keep and install snapshots.     *)
(*                                                                           *)
(* A node's disk state changes only through catalog journal commits, which    *)
(* are atomic (CatalogJournal), so applying one entry is one step; a node     *)
(* that stops between two of them simply goes on from what it stored.         *)
EXTENDS Naturals, Sequences

CONSTANTS Nodes, Clients, Fingerprints,
          Bodies,     \* what a command writes
          Commands,   \* the client commands of the instance
          MaxLog      \* bound on the length of the log

(* A command carries the client's identity, the tag of the catalog it was     *)
(* planned against (it contains the transaction ID, so it is that ID here)    *)
(* and what its steps and preconditions come to in that catalog: the tag pins *)
(* the catalog, so this is a fact about the command.                          *)
Verdicts == {"ok", "InvalidTransaction", "PreconditionFailed"}
Command == [kind : {"Normal"}, client : Clients, sequence : Nat,
            fingerprint : Fingerprints, tag : Nat, verdict : Verdicts, body : Bodies]

ASSUME RaftApplyAssumption == Commands \subseteq Command /\ MaxLog \in Nat

Blank == [kind |-> "Blank"]
Membership == [kind |-> "Membership"]
Entries == Commands \cup {Blank, Membership}
LogEntries == Command \cup {Blank, Membership}

VARIABLES log,      \* the committed log
          machine,  \* machine[n]: RaftApplicationState and catalog of node n
          stored,   \* stored[n]: its snapshot sidecar, NoSnapshot if absent
          wire,     \* a snapshot on its way to a node
          answers,  \* every response a node computed
          canon,    \* history: canon[i + 1] is the state after i entries
          recorded  \* history: every result some state of canon holds

vars == <<log, machine, stored, wire, answers, canon, recorded>>

Applied(t) == [kind |-> "Applied", transaction_id |-> t, reason |-> "none"]
Rejected(r) == [kind |-> "Rejected", transaction_id |-> 0, reason |-> r]
Accept == [kind |-> "Accept"]

(* ClientResult; sequence 0 is a client without one. *)
ClientResult(e, r) ==
    [client |-> e.client, sequence |-> e.sequence, fingerprint |-> e.fingerprint, response |-> r]
NoResult == [sequence |-> 0]

(* RaftApplicationState next to the catalog it is stored with: catalog is the *)
(* sequence of commands the catalog has executed; transaction IDs are counted  *)
(* from the genesis image.                                                    *)
Genesis == [last_applied |-> 0, catalog_transaction_id |-> 0, catalog |-> <<>>,
            clients |-> [c \in Clients |-> NoResult], last_membership |-> 0]
NoSnapshot == Genesis

(* sequence_decision: Accept, or the response to return. *)
sequence_decision(st, e) ==
    LET previous == st.clients[e.client]
    IN  IF e.sequence = previous.sequence
        THEN IF e.fingerprint = previous.fingerprint THEN previous.response
             ELSE Rejected("ClientSequenceConflict")
        ELSE IF e.sequence < previous.sequence THEN Rejected("ClientSequenceTooOld")
        ELSE IF e.sequence # previous.sequence + 1 THEN Rejected("ClientSequenceGap")
        ELSE Accept

(* Mutant: the recorded result of the client is not looked up. *)
AcceptedAgain(st, e) == e.sequence > 0

Accepted(st, e) == e.sequence > 0 /\ sequence_decision(st, e) = Accept

(* The answer to an accepted command: validate, then the commit's checks. *)
Judged(st, e) ==
    IF e.verdict = "InvalidTransaction" THEN Rejected("InvalidTransaction")
    ELSE IF e.tag # st.catalog_transaction_id THEN Rejected("CatalogChanged")
    ELSE IF e.verdict = "PreconditionFailed" THEN Rejected("PreconditionFailed")
    ELSE Applied(st.catalog_transaction_id + 1)

Position(st, i) == [st EXCEPT !.last_applied = i]

Record(st, i, e) ==
    [st EXCEPT !.last_applied = i, !.clients[e.client] = ClientResult(e, Judged(st, e))]

(* commit_steps_with_sidecar_factory: catalog, position and result at once. *)
Commit(st, i, e) ==
    [Record(st, i, e) EXCEPT
        !.catalog_transaction_id = @ + 1, !.catalog = Append(@, e)]

apply_command(st, i, e) ==
    IF ~Accepted(st, e) THEN Position(st, i)
    ELSE IF Judged(st, e).kind = "Applied" THEN Commit(st, i, e)
    ELSE Record(st, i, e)

(* apply_entries, for one entry. *)
After(st, i, e) ==
    IF e.kind = "Blank" THEN Position(st, i)
    ELSE IF e.kind = "Membership" THEN [Position(st, i) EXCEPT !.last_membership = i]
    ELSE apply_command(st, i, e)

Response(st, e) ==
    IF e.sequence = 0 THEN Rejected("InvalidTransaction")
    ELSE IF Accepted(st, e) THEN Judged(st, e)
    ELSE sequence_decision(st, e)

-----------------------------------------------------------------------------
Init ==
    /\ log = <<>> /\ canon = <<Genesis>>
    /\ machine = [n \in Nodes |-> Genesis]
    /\ stored = [n \in Nodes |-> NoSnapshot] /\ wire = NoSnapshot
    /\ answers = {} /\ recorded = {}

(* A quorum agrees on the next entry (OpenRaft).  Retries, late duplicates    *)
(* and reordered requests of a client all end up here, so any command may be  *)
(* next; the history variables follow.                                        *)
Agree(e) ==
    LET i == Len(log) + 1
        st == canon[i]
    IN  /\ Len(log) < MaxLog
        /\ log' = Append(log, e)
        /\ canon' = Append(canon, After(st, i, e))
        /\ recorded' = IF e.kind = "Normal" /\ Accepted(st, e)
                       THEN recorded \cup {ClientResult(e, Judged(st, e))} ELSE recorded
        /\ UNCHANGED <<machine, stored, wire, answers>>

(* RaftStateMachine::apply of the next entry on node n. *)
Apply(n) ==
    LET st == machine[n]
        i == st.last_applied + 1
    IN  /\ i <= Len(log)
        /\ machine' = [machine EXCEPT ![n] = After(st, i, log[i])]
        /\ answers' = IF log[i].kind = "Normal"
                      THEN answers \cup {ClientResult(log[i], Response(st, log[i]))}
                      ELSE answers
        /\ UNCHANGED <<log, stored, wire, canon, recorded>>

(* CatalogSnapshotBuilder::build: state and catalog exported together. *)
build(n) ==
    /\ machine[n].last_applied > 0
    /\ stored' = [stored EXCEPT ![n] = machine[n]]
    /\ UNCHANGED <<log, machine, wire, answers, canon, recorded>>

(* A leader reads get_current_snapshot and sends it; the snapshot it replaces *)
(* on the wire is lost.                                                       *)
Send(n) ==
    /\ stored[n] # NoSnapshot
    /\ wire' = stored[n]
    /\ UNCHANGED <<log, machine, stored, answers, canon, recorded>>

(* The refusals of install_snapshot. *)
Refused(st, s) ==
    \/ s.catalog_transaction_id < st.catalog_transaction_id
    \/ s.last_applied < st.last_applied
    \/ s.last_applied = st.last_applied /\ s # st
    \/ s.catalog_transaction_id = st.catalog_transaction_id /\ s.catalog # st.catalog

(* Mutant: the client results of a snapshot are not restored with its state. *)
InstallKeepingClients(n) ==
    /\ wire # NoSnapshot /\ wire.last_applied > machine[n].last_applied
    /\ ~Refused(machine[n], wire)
    /\ machine' = [machine EXCEPT ![n] = [wire EXCEPT !.clients = machine[n].clients]]
    /\ stored' = [stored EXCEPT ![n] = wire]
    /\ UNCHANGED <<log, wire, answers, canon, recorded>>

(* install_snapshot: OpenRaft passes on only a snapshot beyond what the node   *)
(* has committed; a delivery may be repeated.                                 *)
install_snapshot(n) ==
    /\ wire # NoSnapshot /\ wire.last_applied > machine[n].last_applied
    /\ ~Refused(machine[n], wire)
    /\ machine' = [machine EXCEPT ![n] = wire]
    /\ stored' = [stored EXCEPT ![n] = wire]
    /\ UNCHANGED <<log, wire, answers, canon, recorded>>

Next ==
    \/ \E e \in Entries : Agree(e)
    \/ \E n \in Nodes : Apply(n) \/ build(n) \/ Send(n) \/ install_snapshot(n)

Spec == Init /\ [][Next]_vars

-----------------------------------------------------------------------------
SequenceErrors == {"ClientSequenceConflict", "ClientSequenceTooOld", "ClientSequenceGap"}
Reasons == SequenceErrors \cup
           {"none", "InvalidTransaction", "CatalogChanged", "PreconditionFailed"}
Responses == [kind : {"Applied", "Rejected"}, transaction_id : Nat, reason : Reasons]
Results == [client : Clients, sequence : Nat, fingerprint : Fingerprints, response : Responses]
States == [last_applied : Nat, catalog_transaction_id : Nat, catalog : Seq(Command),
           clients : [Clients -> Results \cup {NoResult}], last_membership : Nat]

(* Every node and snapshot holds a well-formed state at a position of the log. *)
TypeOK ==
    /\ log \in Seq(LogEntries) /\ Len(canon) = Len(log) + 1
    /\ \A st \in {machine[n] : n \in Nodes} \cup {stored[n] : n \in Nodes} \cup {wire} :
        /\ st \in States /\ st.last_applied <= Len(log)
        /\ st.catalog_transaction_id = Len(st.catalog)
        /\ st.last_membership <= st.last_applied
    /\ answers \subseteq Results /\ recorded \subseteq Results

(* Two nodes, or a node and a snapshot, at the same log position hold the same *)
(* catalog and the same deduplication state (apply_entries, install_snapshot). *)
ReplicasAgree ==
    \A x, y \in {machine[n] : n \in Nodes} \cup {stored[n] : n \in Nodes} \cup {wire} :
        x.last_applied = y.last_applied => x = y

(* No replica executes a client's sequence number twice, and it executes them  *)
(* in order, however often and wherever the command is in the log.             *)
ExactlyOnce ==
    \A n \in Nodes :
        LET done == machine[n].catalog
        IN  \A i, j \in 1..Len(done) :
                i < j /\ done[i].client = done[j].client => done[i].sequence < done[j].sequence

(* All nodes and all retries give a client's sequence number one result; what  *)
(* else a request for it may be told is only that it came too late, too early  *)
(* or with another body (sequence_decision).                                   *)
OneOutcome ==
    \A a, b \in answers :
        /\ a.client = b.client /\ a.sequence = b.sequence
        /\ {a.response.reason, b.response.reason} \cap SequenceErrors = {}
        => a.response = b.response

(* An answer that a command was applied names the transaction that executed    *)
(* exactly this request, in the catalog of every node that has got that far.   *)
AppliedIsInCatalog ==
    \A a \in answers, n \in Nodes :
        LET t == a.response.transaction_id
        IN  a.response.kind = "Applied" /\ t <= machine[n].catalog_transaction_id =>
                /\ t > 0
                /\ machine[n].catalog[t].client = a.client
                /\ machine[n].catalog[t].sequence = a.sequence
                /\ machine[n].catalog[t].fingerprint = a.fingerprint

(* None of the errors that stop a node are met: a snapshot OpenRaft passes on  *)
(* is never refused (install_snapshot), and a stored one never looks newer     *)
(* than, or different from, the node's own state (current_snapshot).           *)
SnapshotsFit ==
    \A n \in Nodes :
        /\ wire.last_applied > machine[n].last_applied => ~Refused(machine[n], wire)
        /\ stored[n].catalog_transaction_id <= machine[n].catalog_transaction_id
        /\ stored[n].last_applied <= machine[n].last_applied
        /\ stored[n].last_applied = machine[n].last_applied => stored[n] = machine[n]

(* A node's position and transaction ID never go back, and its catalog only    *)
(* grows: a snapshot never undoes what the node has already applied.           *)
NeverBackwards ==
    [][\A n \in Nodes :
        /\ machine[n].last_applied <= machine'[n].last_applied
        /\ machine[n].catalog_transaction_id <= machine'[n].catalog_transaction_id
        /\ \A i \in DOMAIN machine[n].catalog : machine[n].catalog[i] = machine'[n].catalog[i]]_vars

-----------------------------------------------------------------------------
(* The inductive invariant: the history is a run of one machine, and every     *)
(* node, snapshot and answer is taken from it.                                 *)

StateOK(st) ==
    /\ st \in States
    /\ st.catalog_transaction_id = Len(st.catalog)
    /\ st.last_membership <= st.last_applied
    /\ \A c \in Clients : st.clients[c].sequence > 0 =>
            st.clients[c] \in Results /\ st.clients[c].client = c
    /\ \A i \in 1..Len(st.catalog) :
            st.catalog[i].sequence <= st.clients[st.catalog[i].client].sequence
    /\ \A i, j \in 1..Len(st.catalog) :
            i < j /\ st.catalog[i].client = st.catalog[j].client
            => st.catalog[i].sequence < st.catalog[j].sequence

Prolongs(x, y) ==
    /\ Len(y.catalog) <= Len(x.catalog)
    /\ \A k \in 1..Len(y.catalog) : x.catalog[k] = y.catalog[k]

HistoryOK ==
    /\ log \in Seq(LogEntries) /\ canon \in Seq(States) /\ Len(canon) = Len(log) + 1
    /\ canon[1] = Genesis
    /\ \A i \in 1..Len(canon) : StateOK(canon[i]) /\ canon[i].last_applied = i - 1
    /\ \A i \in 1..Len(log) : canon[i + 1] = After(canon[i], i, log[i])
    /\ \A i, j \in 1..Len(canon) : i <= j => Prolongs(canon[j], canon[i])

RecordedOK ==
    LET top == canon[Len(canon)]
    IN  /\ recorded \subseteq Results
        /\ \A i \in 1..Len(canon), c \in Clients :
                canon[i].clients[c].sequence > 0 => canon[i].clients[c] \in recorded
        /\ \A r \in recorded :
                /\ r.sequence > 0 /\ r.sequence <= top.clients[r.client].sequence
                /\ r.response.reason \notin SequenceErrors
                /\ r.response.kind = "Applied" =>
                    LET t == r.response.transaction_id
                    IN  /\ t \in 1..Len(top.catalog)
                        /\ top.catalog[t].client = r.client
                        /\ top.catalog[t].sequence = r.sequence
                        /\ top.catalog[t].fingerprint = r.fingerprint
        /\ \A r, q \in recorded :
                r.client = q.client /\ r.sequence = q.sequence => r = q

FromHistory(st) == st.last_applied \in 0..Len(log) /\ st = canon[st.last_applied + 1]

NodesOK ==
    /\ machine \in [Nodes -> States] /\ stored \in [Nodes -> States] /\ wire \in States
    /\ FromHistory(wire)
    /\ \A n \in Nodes : FromHistory(machine[n]) /\ FromHistory(stored[n])
    /\ \A n \in Nodes : stored[n].last_applied <= machine[n].last_applied

AnswersOK ==
    /\ answers \subseteq Results
    /\ \A a \in answers :
        \/ a.response.kind = "Rejected" /\ a.response.reason \in SequenceErrors
        \/ a.sequence = 0 /\ a.response = Rejected("InvalidTransaction")
        \/ a \in recorded

IInv == HistoryOK /\ RecordedOK /\ NodesOK /\ AnswersOK
=============================================================================
