----------------------------- MODULE RaftServer -----------------------------
(* The HTTP service of a Raft cluster on top of RaftApply: server/raft.rs, the *)
(* Raft paths of server/catalog.rs, catalog_mutation.rs and                    *)
(* catalog_transaction.rs.  A node serves its requests one at a time, in its   *)
(* own thread and with its own Catalog instance, while OpenRaft applies        *)
(* entries in another; so a handler is as many steps as it has separate reads  *)
(* of the catalog and waits.                                                   *)
(*                                                                            *)
(* The database is one record with fields; a request is the next one of its    *)
(* client's plan, sent to any node and sent again whenever the client likes.   *)
EXTENDS RaftApply

CONSTANTS Fields,
          Readers,  \* the clients that also read
          Plan   \* Plan[c]: the requests of client c, in order

VARIABLES leader,   \* the node whose quorum confirms reads and writes
          pending,  \* commands handed to OpenRaft and not yet committed
          oldest,   \* oldest[n]: the oldest transaction node n can still open
          http,     \* http[n]: the handler of node n
          client    \* client[c]: its sequence number and read token, and the
                    \* newest transaction it was shown

svars == <<leader, pending, oldest, http, client>>
allvars == <<vars, svars>>

Idle == [step |-> "idle"]
NoToken == 0
NoRecord == [f \in Fields |-> 0]
FirstRecord == [f \in Fields |-> 1]

(* The record in a node's catalog: every command carries the whole new one. *)
RecordAt(catalog, t) == IF t = 0 THEN FirstRecord ELSE catalog[t].body
Current(n) == RecordAt(machine[n].catalog, machine[n].catalog_transaction_id)

(* apply_merge_patch of a request on the record it was read from. *)
Merged(q, base, v) == [base EXCEPT ![q.field] = v]

(* What the operation of a request leaves: PATCH merges, DELETE removes. *)
NewRecord(q, base, v) == IF q.kind = "DELETE" THEN NoRecord ELSE Merged(q, base, v)

ASSUME ServerAssumption ==
    /\ Readers \subseteq Clients
    /\ \A c \in Clients : Plan[c] \in Seq(Fingerprints)
    /\ FirstRecord \in Bodies
    /\ \A base \in Bodies, c \in Clients : \A i \in 1..Len(Plan[c]) :
            NewRecord(Plan[c][i], base, i + 1) \in Bodies

ServerInit ==
    /\ Init
    /\ leader \in Nodes /\ pending = {} /\ oldest = [n \in Nodes |-> 0]
    /\ http = [n \in Nodes |-> Idle]
    /\ client = [c \in Clients |-> [sequence |-> 1, token |-> NoToken, seen |-> 0]]

(* The newest transaction each client was shown. *)
Shown == {client[c].seen : c \in Clients}

Handler(n, h) == http' = [http EXCEPT ![n] = h]
Local == UNCHANGED <<vars, leader, pending, oldest>>

(* A response about to leave: its status and the transaction it shows. *)
Respond(n, h, status, at) ==
    Handler(n, [step |-> "token", client |-> h.client, status |-> status, at |-> at,
                token |-> h.token, floor |-> h.floor])

(* A client that waits for nobody sends a request to an idle node. *)
Receive(n, h) ==
    /\ http[n] = Idle /\ \A m \in Nodes : http[m] # Idle => http[m].client # h.client
    /\ Handler(n, h)
    /\ UNCHANGED client /\ Local

-----------------------------------------------------------------------------
(* response_with_writer opens the table; the record's values and whether it    *)
(* exists come from this read, also when they are used after the barrier.      *)
open_table(n, c) ==
    /\ client[c].sequence <= Len(Plan[c])
    /\ LET q == Plan[c][client[c].sequence]
           missing == Current(n) = NoRecord
       IN  Receive(n, [step |-> IF q.kind = "PATCH" \/ missing THEN "barrier" ELSE "propose",
                       client |-> c, token |-> NoToken, floor |-> {}, request |-> q,
                       base |-> Current(n), missing |-> missing])

(* linearizable_read: the leader confirms its leadership with a quorum and     *)
(* waits until it has applied what was committed.                              *)
linearizable(n) == leader = n /\ machine[n].last_applied = Len(log)

(* replayed_transaction, first read: the state sidecar of the catalog. *)
replayed_transaction(n) ==
    /\ http[n].step = "barrier" /\ linearizable(n)
    /\ Handler(n, [step |-> "result", client |-> http[n].client, token |-> http[n].token,
                   floor |-> http[n].floor, request |-> http[n].request,
                   base |-> http[n].base, missing |-> http[n].missing,
                   at |-> machine[n].catalog_transaction_id,
                   previous |-> machine[n].clients[http[n].client]])
    /\ UNCHANGED client /\ Local

(* The rest of a handler's work: the command to propose, or the transaction to *)
(* answer from.                                                                *)
Planned(h) == [step |-> "propose", client |-> h.client, token |-> h.token, floor |-> h.floor,
               request |-> h.request, base |-> h.base, missing |-> h.missing]
Opening(h, t) == [step |-> "snapshot", client |-> h.client, at |-> t,
                  token |-> h.token, floor |-> h.floor]

(* read_state, second read: the transaction ID, under a lock of its own; then   *)
(* the decision on the client's recorded result.                               *)
client_result(n) ==
    LET h == http[n]
        decision == sequence_decision([clients |-> [c \in {h.client} |-> h.previous]],
                        [client |-> h.client, sequence |-> client[h.client].sequence,
                         fingerprint |-> h.request])
    IN  /\ h.step = "result"
        /\ IF h.at # machine[n].catalog_transaction_id THEN Respond(n, h, "raft_state_error", 0)
           ELSE IF decision.kind = "Applied" THEN Handler(n, Opening(h, decision.transaction_id))
           ELSE IF decision.kind = "Rejected" THEN Respond(n, h, decision.reason, 0)
           ELSE IF h.missing THEN Respond(n, h, "not_found", 0)
           ELSE Handler(n, Planned(h))
        /\ UNCHANGED client /\ Local

(* propose_request: the catalog tag is read now; client_write hands the        *)
(* command to OpenRaft, which refuses it on a node that is not the leader.     *)
propose_request(n) ==
    LET h == http[n]
        tag == machine[n].catalog_transaction_id
        cmd == [kind |-> "Normal", client |-> h.client, sequence |-> client[h.client].sequence,
                fingerprint |-> h.request, tag |-> tag,
                verdict |-> IF Current(n) = NoRecord THEN "InvalidTransaction" ELSE "ok",
                body |-> NewRecord(h.request, h.base, client[h.client].sequence + 1)]
    IN  /\ h.step = "propose"
        /\ IF leader = n
           THEN /\ Handler(n, [step |-> "write", client |-> h.client, token |-> h.token,
                               floor |-> h.floor, cmd |-> cmd, behind |-> Len(log)])
                /\ pending' = pending \cup {cmd}
           ELSE Respond(n, h, "raft_unavailable", 0) /\ UNCHANGED pending
        /\ UNCHANGED <<vars, leader, oldest, client>>

(* The write is applied on this node: its response is the one of its entry. *)
client_write(n) ==
    LET h == http[n]
    IN  /\ h.step = "write"
        /\ \E i \in (h.behind + 1)..machine[n].last_applied :
            LET r == Response(canon[i], h.cmd)
            IN  /\ log[i] = h.cmd
                /\ IF r.kind = "Applied"
                   THEN Handler(n, Opening(h, r.transaction_id))
                   ELSE Respond(n, h, r.reason, 0)
        /\ UNCHANGED client /\ Local

(* Mutant: an expired wait is reported as a definite failure. *)
TimeoutIsFinal(n) ==
    /\ http[n].step \in {"barrier", "write", "prepare"}
    /\ Respond(n, http[n], "timed_out", 0)
    /\ UNCHANGED client /\ Local

(* RPC_TIMEOUT, for the barrier and for the write. *)
Timeout(n) ==
    /\ http[n].step \in {"barrier", "write", "prepare"}
    /\ Respond(n, http[n], "raft_unavailable", 0)
    /\ UNCHANGED client /\ Local

(* Catalog::from_path_at of the transaction the response is built from. *)
from_path_at(n) ==
    /\ http[n].step = "snapshot"
    /\ Respond(n, http[n], IF http[n].at < oldest[n] THEN "raft_retry_snapshot_unavailable"
                           ELSE "applied", http[n].at)
    /\ UNCHANGED client /\ Local

-----------------------------------------------------------------------------
(* raft_read_response, with the client's token or without one. *)
raft_read_response(n, c) ==
    \E token \in {NoToken, client[c].token} :
        Receive(n, [step |-> "prepare", client |-> c, token |-> token,
                    floor |-> IF token = NoToken THEN Shown ELSE {}])

(* Mutant: a read without a token does not wait for the barrier. *)
PrepareWithoutBarrier(n) ==
    /\ http[n].step = "prepare" /\ machine[n].last_applied >= http[n].token
    /\ Handler(n, [step |-> "data", client |-> http[n].client,
                   token |-> http[n].token, floor |-> http[n].floor])
    /\ UNCHANGED client /\ Local

(* prepare_read: a token is awaited locally, without one the barrier runs. *)
prepare_read(n) ==
    /\ http[n].step = "prepare"
    /\ IF http[n].token = NoToken THEN linearizable(n) ELSE machine[n].last_applied >= http[n].token
    /\ Handler(n, [step |-> "data", client |-> http[n].client,
                   token |-> http[n].token, floor |-> http[n].floor])
    /\ UNCHANGED client /\ Local

(* The catalog is read. *)
read_catalog(n) ==
    /\ http[n].step = "data"
    /\ Respond(n, http[n], "read", machine[n].catalog_transaction_id)
    /\ UNCHANGED client /\ Local

Successful(h) == h.status \in {"read", "applied"}
Final(h) == h.status \notin {"raft_unavailable", "raft_state_error", "read"}

Received(h, token) ==
    LET c == client[h.client]
    IN  client' = [client EXCEPT ![h.client] =
            [sequence |-> IF Final(h) THEN c.sequence + 1 ELSE c.sequence,
             token |-> IF Successful(h) THEN token ELSE c.token,
             seen |-> IF Successful(h) /\ h.at > c.seen THEN h.at ELSE c.seen]]

(* Mutant: the token is the position the read asked for. *)
EarlyToken(n) ==
    /\ http[n].step = "token" /\ Handler(n, Idle)
    /\ Received(http[n], IF http[n].token = NoToken THEN 1 ELSE http[n].token) \/ UNCHANGED client
    /\ Local

(* with_read_token, then the response: the token is the position after the      *)
(* data was read; without any position the response becomes an error.  The     *)
(* client keeps the token of a successful response, and goes on to its next    *)
(* request after a definite answer; or the response is lost.                   *)
with_read_token(n) ==
    LET h == [client |-> http[n].client, at |-> http[n].at,
              status |-> IF machine[n].last_applied = 0 THEN "raft_unavailable"
                         ELSE http[n].status]
    IN  /\ http[n].step = "token" /\ Handler(n, Idle)
        /\ Received(h, machine[n].last_applied) \/ UNCHANGED client
        /\ Local

-----------------------------------------------------------------------------
(* OpenRaft: a pending command is committed or lost, leadership moves to a      *)
(* node, committed entries are applied on every node at its own pace.          *)
CommitPending ==
    \E e \in pending :
        /\ Agree(e) /\ pending' = pending \ {e}
        /\ UNCHANGED <<leader, oldest, http, client>>

LosePending ==
    \E e \in pending :
        /\ pending' = pending \ {e}
        /\ UNCHANGED <<vars, leader, oldest, http, client>>

Elect(n) ==
    /\ leader # n /\ leader' = n
    /\ UNCHANGED <<vars, pending, oldest, http, client>>

ApplyOn(n) == Apply(n) /\ UNCHANGED svars

(* gc_mvcc, or a snapshot whose installation leaves one version. *)
Prune(n) ==
    /\ oldest[n] < machine[n].catalog_transaction_id
    /\ oldest' = [oldest EXCEPT ![n] = machine[n].catalog_transaction_id]
    /\ UNCHANGED <<vars, leader, pending, http, client>>

Serve(n) ==
    \/ replayed_transaction(n) \/ client_result(n) \/ propose_request(n)
    \/ client_write(n) \/ Timeout(n) \/ from_path_at(n)
    \/ prepare_read(n) \/ read_catalog(n) \/ with_read_token(n)

ServerNext ==
    \/ CommitPending \/ LosePending
    \/ \E n \in Nodes :
        \/ Elect(n) \/ ApplyOn(n) \/ Prune(n) \/ Serve(n)
        \/ \E c \in Clients : open_table(n, c)
        \/ \E c \in Readers : raft_read_response(n, c)

ServerSpec == ServerInit /\ [][ServerNext]_allvars

-----------------------------------------------------------------------------
Top == canon[Len(canon)]
Responding(n, status) == http[n].step = "token" /\ http[n].status = status

(* A read without a token shows everything any client had been shown when the  *)
(* read arrived, whichever node answered whom (linearizable_read).             *)
LinearizableReads ==
    \A n \in Nodes : Responding(n, "read") /\ http[n].token = NoToken =>
        \A t \in http[n].floor : http[n].at >= t

(* A client that carries its token forward never reads behind what it was      *)
(* shown before, by reads or by its own writes, on any node (prepare_read,     *)
(* with_read_token).                                                           *)
SessionMonotonic ==
    \A n \in Nodes : Responding(n, "read") => http[n].at >= client[http[n].client].seen

(* The catalogs and handlers are well formed, and an answer to a write holds.  *)
(* One that says it was applied, first or replayed to a retry, names a         *)
(* transaction that executed exactly this request (client_result,              *)
(* client_write).  And a client goes past a sequence number only when its fate *)
(* is settled: no copy of the command that is still under way can change the   *)
(* catalog later.                                                              *)
AnswersHold ==
    /\ pending \subseteq Command
    /\ \A n \in Nodes : oldest[n] <= machine[n].catalog_transaction_id
    /\ \A n \in Nodes : Responding(n, "applied") =>
        LET done == Top.catalog[http[n].at]
        IN  done.client = http[n].client /\ done.sequence = client[http[n].client].sequence
    /\ \A e \in pending : e.sequence < client[e.client].sequence =>
        ~Accepted(Top, e) \/ Judged(Top, e).kind # "Applied"

-----------------------------------------------------------------------------
(* The inductive invariant, on top of the one of RaftApply.  Its parts are      *)
(* about a history H (canon) and the state st of one node.                     *)

Newest(H) == H[Len(H)]

(* Nothing is applied once the record is removed: a command planned before has *)
(* an older tag, and one planned later finds no record.                        *)
Gone(H) == RecordAt(Newest(H).catalog, Newest(H).catalog_transaction_id) = NoRecord

CatalogOK(H) ==
    /\ \A t \in 0..Newest(H).catalog_transaction_id :
            RecordAt(Newest(H).catalog, t) = NoRecord => t = Newest(H).catalog_transaction_id
    /\ \A i, j \in 1..Len(H), c \in Clients :
            i <= j => H[i].clients[c].sequence <= H[j].clients[c].sequence
    /\ \A i \in 1..Len(H), c \in Clients :
            H[i].clients[c].sequence > 0 /\ H[i].clients[c].response.kind = "Applied" =>
                H[i].clients[c].response.transaction_id <= Len(H[i].catalog)

CommandOK(e, H) ==
    /\ e \in Command /\ e.tag <= Newest(H).catalog_transaction_id
    /\ e.verdict = "ok" => RecordAt(Newest(H).catalog, e.tag) # NoRecord

(* Sequence number s of client c has a result, or can have no effect any more. *)
Settled(c, s, H) == s <= Newest(H).clients[c].sequence \/ Gone(H)

(* A token covers everything its client k was shown. *)
ClientOK(c, k, H) ==
    /\ k \in [sequence : Nat \ {0}, token : Nat, seen : Nat]
    /\ k.token < Len(H) /\ k.seen <= H[k.token + 1].catalog_transaction_id
    /\ Settled(c, k.sequence - 1, H)

(* Transaction t of a node is request s of client c. *)
Executed(c, s, t, st) ==
    t \in 1..Len(st.catalog) /\ st.catalog[t].client = c /\ st.catalog[t].sequence = s

(* The handler h of a client k that writes. *)
PlansOK(h, k, H) ==
    h.step \in {"barrier", "result", "propose"} =>
        /\ k.sequence <= Len(Plan[h.client]) /\ h.request = Plan[h.client][k.sequence]
        /\ h.base \in Bodies /\ (h.missing => Gone(H))

ResultRead(h, k, st, H) ==
    h.step = "result" =>
        /\ h.previous \in Results \cup {NoResult}
        /\ h.previous.sequence \in 0..Newest(H).clients[h.client].sequence
        /\ k.sequence - 1 <= h.previous.sequence \/ Gone(H)
        /\ h.previous.sequence > 0 /\ h.previous.response.kind = "Applied" =>
            Executed(h.client, h.previous.sequence, h.previous.response.transaction_id, st)

WriteOK(h, k, H) ==
    h.step = "write" =>
        /\ h.cmd \in Command /\ h.cmd.client = h.client /\ h.cmd.sequence = k.sequence
        /\ h.behind \in Nat /\ k.token <= h.behind /\ h.behind < Len(H)
        /\ k.sequence - 1 <= H[h.behind + 1].clients[h.client].sequence \/ Gone(H)

SnapshotOK(h, k, st) == h.step = "snapshot" => Executed(h.client, k.sequence, h.at, st)

(* The handler of a client that reads. *)
PrepareOK(h, k, H) ==
    h.step = "prepare" =>
        /\ h.token \in {NoToken, k.token} /\ h.floor \subseteq Nat
        /\ h.token = NoToken => \A t \in h.floor : t <= Newest(H).catalog_transaction_id

DataOK(h, st) ==
    h.step = "data" =>
        /\ h.floor \subseteq Nat
        /\ h.token = NoToken => \A t \in h.floor : t <= st.catalog_transaction_id

(* A response. *)
ReadHolds(h, k, st) ==
    h.step = "token" /\ h.status = "read" =>
        /\ h.at \in Nat /\ k.seen <= h.at /\ h.at <= st.catalog_transaction_id
        /\ h.token = NoToken => \A t \in h.floor : h.at >= t

WriteHolds(h, k, st, H) ==
    h.step = "token" =>
        /\ h.status = "applied" => Executed(h.client, k.sequence, h.at, st)
        /\ Final(h) => Settled(h.client, k.sequence, H)

(* What a handler shows is covered by the position of its node. *)
Covered(h, k, st) ==
    h.step \in {"result", "snapshot", "data"} \/ (h.step = "token" /\ Successful(h)) =>
        k.token <= st.last_applied

HandlerOK(h, k, st, H) ==
    /\ h.client \in Clients
    /\ PlansOK(h, k, H) /\ ResultRead(h, k, st, H) /\ WriteOK(h, k, H) /\ SnapshotOK(h, k, st)
    /\ PrepareOK(h, k, H) /\ DataOK(h, st)
    /\ ReadHolds(h, k, st) /\ WriteHolds(h, k, st, H) /\ Covered(h, k, st)

(* A client waits for one handler at most. *)
OneHandler ==
    \A m, n \in Nodes :
        http[m] # Idle /\ http[n] # Idle /\ http[m].client = http[n].client => m = n

ServerInv ==
    /\ IInv /\ CatalogOK(canon) /\ \A e \in pending : CommandOK(e, canon)
    /\ DOMAIN client = Clients /\ \A c \in Clients : ClientOK(c, client[c], canon)
    /\ DOMAIN http = Nodes /\ OneHandler
    /\ \A n \in Nodes :
            http[n] = Idle \/ HandlerOK(http[n], client[http[n].client], machine[n], canon)
    /\ leader \in Nodes /\ DOMAIN oldest = Nodes
    /\ \A n \in Nodes : oldest[n] \in 0..machine[n].catalog_transaction_id
=============================================================================
