-------------------------- MODULE RaftServerProofs --------------------------
(* Proofs that the answers and reads of the Raft HTTP service hold, for any    *)
(* nodes, clients, plans and any length of the log.                            *)
EXTENDS RaftServer, RaftApplyProofs

(* A state of a node and a later one of the same node. *)
Later(x, y) ==
    /\ x.last_applied \in Nat /\ y.last_applied \in Nat /\ x.last_applied <= y.last_applied
    /\ x.catalog_transaction_id \in Nat /\ y.catalog_transaction_id \in Nat
    /\ x.catalog_transaction_id <= y.catalog_transaction_id
    /\ Len(x.catalog) \in Nat /\ Len(y.catalog) \in Nat /\ Prolongs(y, x)

(* A history and a longer one. *)
Longer(H, G) ==
    /\ Len(H) \in Nat /\ Len(G) \in Nat /\ Len(H) <= Len(G)
    /\ \A i \in 1..Len(H) : G[i] = H[i]
    /\ Later(Newest(H), Newest(G))
    /\ \A c \in Clients :
        /\ Newest(H).clients[c].sequence \in Nat /\ Newest(G).clients[c].sequence \in Nat
        /\ Newest(H).clients[c].sequence <= Newest(G).clients[c].sequence
    /\ Gone(H) => Gone(G)

ClientRecord == [sequence : Nat \ {0}, token : Nat, seen : Nat]

(* A transaction stays in the catalog of its node. *)
LEMMA ExecutedKept ==
    ASSUME NEW x, NEW y, Later(x, y), NEW c, NEW s, NEW t, Executed(c, s, t, x)
    PROVE  Executed(c, s, t, y)
BY SMTT(30) DEF Later, Prolongs, Executed

(* What a client keeps are natural numbers. *)
LEMMA ClientNumbers ==
    ASSUME NEW k \in ClientRecord
    PROVE  /\ k.sequence \in Nat /\ k.sequence > 0 /\ k.sequence - 1 \in Nat
           /\ k.token \in Nat /\ k.seen \in Nat
BY DEF ClientRecord

(* What is settled stays settled. *)
LEMMA SettledKept ==
    ASSUME NEW H, NEW G, Longer(H, G), NEW c \in Clients, NEW s \in Nat, Settled(c, s, H)
    PROVE  Settled(c, s, G)
BY DEF Longer, Settled

(* Nothing a client holds is undone by the growth of the log. *)
LEMMA ClientKept ==
    ASSUME NEW H, NEW G, Longer(H, G), NEW c \in Clients, NEW k, ClientOK(c, k, H)
    PROVE  ClientOK(c, k, G)
<1>1. k.token \in Nat /\ k.sequence \in Nat /\ k.sequence - 1 \in Nat /\ k \in ClientRecord
  BY DEF ClientOK, ClientRecord
<1>2. Settled(c, k.sequence - 1, G)
  BY <1>1, SettledKept, Zenon DEF ClientOK
<1>3. k.token < Len(G) /\ k.token + 1 \in 1..Len(H)
  BY <1>1 DEF ClientOK, Longer
<1>4. G[k.token + 1] = H[k.token + 1]
  BY <1>3, Zenon DEF Longer
<1> QED
  BY <1>1, <1>2, <1>3, <1>4, Zenon DEF ClientOK, ClientRecord

(* What a handler has read and promised stays true while other handlers run    *)
(* and entries are committed and applied.                                      *)
LEMMA HandlerKept ==
    ASSUME NEW H, NEW G, Longer(H, G), NEW x, NEW y, Later(x, y),
           NEW h, NEW k \in ClientRecord, HandlerOK(h, k, x, H)
    PROVE  HandlerOK(h, k, y, G)
<1>0. /\ k.sequence \in Nat /\ k.sequence - 1 \in Nat /\ k.token \in Nat /\ k.seen \in Nat
      /\ h.client \in Clients
  BY DEF ClientRecord, HandlerOK
<1>1. PlansOK(h, k, G)
  BY Zenon DEF HandlerOK, PlansOK, Longer
<1>2. ASSUME h.step = "result" PROVE ResultRead(h, k, y, G)
  <2>1. h.previous.sequence \in 0..Newest(G).clients[h.client].sequence
    <3>1. h.previous.sequence \in 0..Newest(H).clients[h.client].sequence
      BY <1>2, Zenon DEF HandlerOK, ResultRead
    <3> QED
      <4> DEFINE a == Newest(H).clients[h.client].sequence
                 b == Newest(G).clients[h.client].sequence
      <4>1. a \in Nat /\ b \in Nat /\ a <= b /\ h.previous.sequence \in 0..a
        BY <1>0, <3>1, Zenon DEF Longer
      <4> HIDE DEF a, b
      <4>2. h.previous.sequence \in 0..b
        BY <4>1
      <4> QED
        BY <4>2, Zenon DEF b
  <2>2. k.sequence - 1 <= h.previous.sequence \/ Gone(G)
    BY <1>2, Zenon DEF HandlerOK, ResultRead, Longer
  <2>3. h.previous.sequence > 0 /\ h.previous.response.kind = "Applied" =>
            Executed(h.client, h.previous.sequence, h.previous.response.transaction_id, y)
    <3> SUFFICES ASSUME h.previous.sequence > 0, h.previous.response.kind = "Applied"
                 PROVE  Executed(h.client, h.previous.sequence,
                                 h.previous.response.transaction_id, y)
      BY Zenon
    <3>1. Executed(h.client, h.previous.sequence, h.previous.response.transaction_id, x)
      <4>1. ResultRead(h, k, x, H)
        BY Zenon DEF HandlerOK
      <4> QED
        BY <1>2, <4>1, Zenon DEF ResultRead
    <3> QED
      BY <3>1, ExecutedKept
  <2>4. h.previous \in Results \cup {NoResult}
    BY <1>2, Zenon DEF HandlerOK, ResultRead
  <2> QED
    BY <2>1, <2>2, <2>3, <2>4, Zenon DEF ResultRead
<1>3. ASSUME h.step = "write" PROVE WriteOK(h, k, G)
  <2>1. /\ h.cmd \in Command /\ h.cmd.client = h.client /\ h.cmd.sequence = k.sequence
        /\ h.behind \in Nat /\ k.token <= h.behind /\ h.behind < Len(H)
        /\ k.sequence - 1 <= H[h.behind + 1].clients[h.client].sequence \/ Gone(H)
    BY <1>3, Zenon DEF HandlerOK, WriteOK
  <2>2. h.behind < Len(G) /\ h.behind + 1 \in 1..Len(H)
    BY <2>1 DEF Longer
  <2>3. H[h.behind + 1] = G[h.behind + 1] /\ (Gone(H) => Gone(G))
    BY <2>2, Zenon DEF Longer
  <2> QED
    BY <2>1, <2>2, <2>3, Zenon DEF WriteOK
<1>4. SnapshotOK(h, k, y)
  BY ExecutedKept, Zenon DEF HandlerOK, SnapshotOK
<1>5. PrepareOK(h, k, G)
  <2>1. ASSUME h.step = "prepare", h.token = NoToken, NEW t \in h.floor
        PROVE  t <= Newest(G).catalog_transaction_id
    <3>1. t \in Nat /\ t <= Newest(H).catalog_transaction_id
      BY <2>1, Zenon DEF HandlerOK, PrepareOK
    <3> QED
      <4>1. /\ Newest(H).catalog_transaction_id \in Nat /\ Newest(G).catalog_transaction_id \in Nat
            /\ Newest(H).catalog_transaction_id <= Newest(G).catalog_transaction_id
        BY Zenon DEF Longer, Later
      <4> QED
        BY <3>1, <4>1, Transitive, Zenon
  <2> QED
    BY <2>1, Zenon DEF HandlerOK, PrepareOK
<1>6. DataOK(h, y)
  <2>1. ASSUME h.step = "data", h.token = NoToken, NEW t \in h.floor
        PROVE  t <= y.catalog_transaction_id
    <3>1. t \in Nat /\ t <= x.catalog_transaction_id
      BY <2>1, Zenon DEF HandlerOK, DataOK
    <3> QED
      BY <3>1, Transitive, Zenon DEF Later
  <2> QED
    BY <2>1, Zenon DEF HandlerOK, DataOK
<1>7. ReadHolds(h, k, y)
  <2>1. ASSUME h.step = "token", h.status = "read"
        PROVE  h.at <= y.catalog_transaction_id
    <3>1. h.at \in Nat /\ h.at <= x.catalog_transaction_id
      BY <2>1, Zenon DEF HandlerOK, ReadHolds
    <3> QED
      BY <3>1, Transitive, Zenon DEF Later
  <2> QED
    BY <2>1, Zenon DEF HandlerOK, ReadHolds
<1>8. WriteHolds(h, k, y, G)
  BY <1>0, ExecutedKept, SettledKept, Zenon DEF HandlerOK, WriteHolds
<1>9. Covered(h, k, y)
  <2>1. ASSUME k.token <= x.last_applied PROVE k.token <= y.last_applied
    BY <1>0, <2>1, Transitive, Zenon DEF Later
  <2> QED
    BY <2>1, Zenon DEF HandlerOK, Covered
<1> QED
  BY <1>0, <1>1, <1>2, <1>3, <1>4, <1>5, <1>6, <1>7, <1>8, <1>9, Zenon
     DEF HandlerOK, ResultRead, WriteOK
-----------------------------------------------------------------------------
(* What the invariant of RaftApply says of one state and of the history. *)
LEMMA StateView ==
    ASSUME NEW st, StateOK(st)
    PROVE  /\ st.last_applied \in Nat /\ st.catalog_transaction_id \in Nat
           /\ st.catalog_transaction_id = Len(st.catalog) /\ Len(st.catalog) \in Nat
           /\ st.catalog \in Seq(Command)
           /\ \A c \in Clients : st.clients[c].sequence \in Nat
<1>1. /\ st.last_applied \in Nat /\ st.catalog_transaction_id \in Nat
      /\ st.catalog \in Seq(Command) /\ st.clients \in [Clients -> Results \cup {NoResult}]
  BY DEF StateOK, States
<1>2. \A c \in Clients : st.clients[c] \in Results \cup {NoResult}
  BY <1>1, Zenon
<1>3. \A r \in Results \cup {NoResult} : r.sequence \in Nat
  BY DEF Results, NoResult
<1> QED
  BY <1>1, <1>2, <1>3, Zenon DEF StateOK

(* What IInv says of the history: one state per entry, each well formed, each *)
(* a continuation of the earlier ones.                                        *)
LEMMA HistoryView ==
    ASSUME IInv
    PROVE  /\ Len(log) \in Nat /\ Len(canon) = Len(log) + 1 /\ Len(canon) \in Nat
           /\ Len(canon) \in 1..Len(canon) /\ Top = Newest(canon)
           /\ \A i \in 1..Len(canon) : StateOK(canon[i]) /\ canon[i].last_applied = i - 1
           /\ \A i, j \in 1..Len(canon) : i <= j => Prolongs(canon[j], canon[i])
           /\ StateOK(Newest(canon)) /\ Newest(canon).last_applied = Len(log)
<1>1. /\ Len(canon) = Len(log) + 1 /\ Len(log) \in Nat
      /\ \A i \in 1..Len(canon) : StateOK(canon[i]) /\ canon[i].last_applied = i - 1
      /\ \A i, j \in 1..Len(canon) : i <= j => Prolongs(canon[j], canon[i])
  <2>1. Len(log) \in Nat
    BY LenProperties, Zenon DEF IInv, HistoryOK
  <2> QED
    BY <2>1, Zenon DEF IInv, HistoryOK
<1>2. Len(canon) \in Nat /\ Len(canon) \in 1..Len(canon) /\ Len(canon) - 1 = Len(log)
  BY <1>1
<1> QED
  BY <1>1, <1>2, Zenon DEF Top, Newest

(* What IInv says of a node: its state is the one of the history at its       *)
(* position.                                                                  *)
LEMMA NodeView ==
    ASSUME IInv, NEW n \in Nodes
    PROVE  /\ machine[n].last_applied \in 0..Len(log)
           /\ machine[n].last_applied + 1 \in 1..Len(canon)
           /\ machine[n] = canon[machine[n].last_applied + 1] /\ StateOK(machine[n])
<1>1. machine[n].last_applied \in 0..Len(log) /\ machine[n] = canon[machine[n].last_applied + 1]
  BY Zenon DEF IInv, NodesOK, FromHistory
<1>2. machine[n].last_applied + 1 \in 1..Len(canon)
  BY <1>1, HistoryView
<1> QED
  BY <1>1, <1>2, HistoryView, Zenon

(* Prolonged states are later ones. *)
LEMMA ProlongedIsLater ==
    ASSUME NEW x, NEW y, StateOK(x), StateOK(y), Prolongs(y, x), x.last_applied <= y.last_applied
    PROVE  Later(x, y)
<1>1. x.catalog_transaction_id <= y.catalog_transaction_id
  BY StateView, Zenon DEF Prolongs
<1> QED
  BY <1>1, StateView, Zenon DEF Later

(* Two states of the history. *)
LEMMA HistoryLater ==
    ASSUME IInv, NEW i \in 1..Len(canon), NEW j \in 1..Len(canon), i <= j
    PROVE  Later(canon[i], canon[j])
<1>1. canon[i].last_applied <= canon[j].last_applied
  BY HistoryView
<1> QED
  BY <1>1, HistoryView, ProlongedIsLater, Zenon

(* No node is ahead of the history. *)
LEMMA NodeBehind == ASSUME IInv, NEW n \in Nodes PROVE Later(machine[n], Newest(canon))
<1>1. machine[n].last_applied + 1 <= Len(canon)
  BY NodeView, HistoryView
<1> QED
  BY <1>1, NodeView, HistoryView, HistoryLater, Zenon DEF Newest

(* A state continues itself. *)
LEMMA LaterSelf == ASSUME NEW x, StateOK(x) PROVE Later(x, x)
<1>1. /\ x.last_applied \in Nat /\ x.catalog_transaction_id \in Nat
      /\ Len(x.catalog) \in Nat
  BY StateView, Zenon
<1> QED
  BY <1>1 DEF Later, Prolongs

(* A history continues itself. *)
LEMMA LongerSelf == ASSUME IInv PROVE Longer(canon, canon)
<1>1. Later(Newest(canon), Newest(canon))
  BY HistoryView, LaterSelf, Zenon
<1>2. \A c \in Clients : Newest(canon).clients[c].sequence \in Nat
  BY HistoryView, StateView, Zenon
<1>3. Len(canon) \in Nat
  BY HistoryView, Zenon
<1>4. Len(canon) <= Len(canon) /\ \A s \in Nat : s <= s
  BY <1>3
<1> QED
  BY <1>1, <1>2, <1>3, <1>4, Zenon DEF Longer

(* A record stays where it was in the catalog. *)
LEMMA RecordKept ==
    ASSUME NEW x, NEW y, StateOK(x), Later(x, y), NEW t \in 0..x.catalog_transaction_id
    PROVE  RecordAt(y.catalog, t) = RecordAt(x.catalog, t)
<1>1. t \in 0..Len(x.catalog)
  BY StateView
<1>2. t # 0 => t \in 1..Len(x.catalog)
  BY <1>1, StateView
<1> QED
  BY <1>2, Zenon DEF RecordAt, Later, Prolongs

(* A command that was planned on a history remains so on a longer one. *)
LEMMA CommandKept ==
    ASSUME NEW H, NEW G, Longer(H, G), StateOK(Newest(H)), NEW e, CommandOK(e, H)
    PROVE  CommandOK(e, G)
<1>1. e.tag \in Nat
  BY Zenon DEF CommandOK, Command
<1>2. e.tag \in 0..Newest(H).catalog_transaction_id /\ e.tag <= Newest(G).catalog_transaction_id
  BY <1>1 DEF CommandOK, Longer, Later
<1> QED
  BY <1>2, RecordKept, Zenon DEF CommandOK, Longer
-----------------------------------------------------------------------------
(* A step that leaves RaftApply alone keeps its invariant. *)
LEMMA SameIInv == ASSUME IInv, UNCHANGED vars PROVE IInv'
BY ZenonT(60) DEF IInv, HistoryOK, RecordedOK, NodesOK, AnswersOK, FromHistory, vars

(* A step of one handler that leaves the replicated state alone. *)
LEMMA HandlerStep ==
    ASSUME ServerInv, NEW n \in Nodes, NEW h,
           UNCHANGED <<vars, leader, oldest, client>>, http' = [http EXCEPT ![n] = h],
           \A e \in pending' : CommandOK(e, canon),
           h # Idle => HandlerOK(h, client[h.client], machine[n], canon),
           h # Idle => \A m \in Nodes \ {n} : http[m] # Idle => http[m].client # h.client
    PROVE  ServerInv'
<1>1. canon' = canon /\ machine' = machine /\ client' = client /\ leader' = leader /\ oldest' = oldest
  BY Zenon DEF vars
<1>2. DOMAIN http' = Nodes /\ http'[n] = h /\ \A m \in Nodes \ {n} : http'[m] = http[m]
  BY Zenon DEF ServerInv
<1>3. IInv'
  BY SameIInv, Zenon DEF ServerInv
<1>4. OneHandler'
  BY <1>2, Zenon DEF OneHandler, ServerInv
<1>5. ASSUME NEW m \in Nodes
      PROVE  http'[m] = Idle \/ HandlerOK(http'[m], client'[http'[m].client], machine'[m], canon')
  <2>1. CASE m = n
    BY <1>1, <1>2, <2>1, Zenon
  <2>2. CASE m # n
    BY <1>1, <1>2, <2>2, Zenon DEF ServerInv
  <2> QED
    BY <2>1, <2>2, Zenon
<1> QED
  BY <1>1, <1>2, <1>3, <1>4, <1>5, Zenon DEF ServerInv

(* A handler at work goes on to its next step. *)
LEMMA HandlerGoesOn ==
    ASSUME ServerInv, NEW n \in Nodes, NEW h, http[n] # Idle, h.client = http[n].client,
           Handler(n, h), UNCHANGED client, Local,
           HandlerOK(h, client[h.client], machine[n], canon)
    PROVE  ServerInv'
<1>1. \A m \in Nodes \ {n} : http[m] # Idle => http[m].client # h.client
  BY Zenon DEF ServerInv, OneHandler
<1>2. \A e \in pending' : CommandOK(e, canon)
  BY Zenon DEF ServerInv, Local
<1> QED
  BY <1>1, <1>2, HandlerStep, Zenon DEF Handler, Local

(* A request is received. *)
LEMMA ReceiveKeeps ==
    ASSUME ServerInv, NEW n \in Nodes, NEW h, Receive(n, h),
           HandlerOK(h, client[h.client], machine[n], canon)
    PROVE  ServerInv'
<1>1. \A e \in pending' : CommandOK(e, canon)
  BY Zenon DEF ServerInv, Local, Receive
<1> QED
  BY <1>1, HandlerStep, Zenon DEF Handler, Local, Receive

(* What the handler at work on node n knows. *)
LEMMA HandlerView ==
    ASSUME ServerInv, NEW n \in Nodes, http[n] # Idle
    PROVE  /\ HandlerOK(http[n], client[http[n].client], machine[n], canon)
           /\ http[n].client \in Clients
           /\ ClientOK(http[n].client, client[http[n].client], canon)
           /\ client[http[n].client] \in ClientRecord
<1>1. HandlerOK(http[n], client[http[n].client], machine[n], canon)
  BY Zenon DEF ServerInv
<1>2. http[n].client \in Clients
  BY <1>1, Zenon DEF HandlerOK
<1> QED
  BY <1>1, <1>2, Zenon DEF ServerInv, ClientOK, ClientRecord

(* A handler at a step is not idle. *)
LEMMA Busy == ASSUME NEW h, h.step # "idle" PROVE h # Idle
BY DEF Idle

(* Responses that neither show data nor settle anything. *)
Indefinite == {"raft_unavailable", "raft_state_error"}

(* A response is about to leave: what it says is left to prove. *)
LEMMA RespondKeeps ==
    ASSUME ServerInv, NEW n \in Nodes, http[n] # Idle, NEW status, NEW at,
           Respond(n, http[n], status, at), UNCHANGED client, Local,
           status = "read" => ReadHolds([step |-> "token", client |-> http[n].client,
                                         status |-> status, at |-> at, token |-> http[n].token,
                                         floor |-> http[n].floor],
                                        client[http[n].client], machine[n]),
           status = "applied" =>
               Executed(http[n].client, client[http[n].client].sequence, at, machine[n]),
           status \in {"read", "applied"} =>
               client[http[n].client].token <= machine[n].last_applied,
           status \notin Indefinite \cup {"read"} =>
               Settled(http[n].client, client[http[n].client].sequence, canon)
    PROVE  ServerInv'
<1> DEFINE h == [step |-> "token", client |-> http[n].client, status |-> status, at |-> at,
                 token |-> http[n].token, floor |-> http[n].floor]
           k == client[http[n].client]
<1>1. h.client = http[n].client /\ h.step = "token" /\ h.status = status /\ h.at = at
  BY Zenon
<1>2. Handler(n, h)
  BY Zenon DEF Respond
<1>3. /\ status = "read" => ReadHolds(h, k, machine[n])
      /\ status = "applied" => Executed(http[n].client, k.sequence, at, machine[n])
      /\ status \in {"read", "applied"} => k.token <= machine[n].last_applied
      /\ status \notin Indefinite \cup {"read"} => Settled(http[n].client, k.sequence, canon)
  BY Zenon
<1> HIDE DEF h, k
<1>4. ReadHolds(h, k, machine[n])
  BY <1>1, <1>3, Zenon DEF ReadHolds
<1>5. WriteHolds(h, k, machine[n], canon)
  BY <1>1, <1>3 DEF WriteHolds, Final, Indefinite
<1>6. Covered(h, k, machine[n])
  BY <1>1, <1>3 DEF Covered, Successful
<1>7. /\ PlansOK(h, k, canon) /\ ResultRead(h, k, machine[n], canon) /\ WriteOK(h, k, canon)
      /\ SnapshotOK(h, k, machine[n]) /\ PrepareOK(h, k, canon) /\ DataOK(h, machine[n])
  <2>1. h.step \notin {"barrier", "result", "propose", "write", "snapshot", "prepare", "data"}
    BY <1>1
  <2> QED
    BY <2>1, Zenon DEF PlansOK, ResultRead, WriteOK, SnapshotOK, PrepareOK, DataOK
<1>8. HandlerOK(h, k, machine[n], canon)
  BY <1>1, <1>4, <1>5, <1>6, <1>7, HandlerView, Zenon DEF HandlerOK
<1> QED
  BY <1>1, <1>2, <1>8, HandlerGoesOn, Zenon DEF k
-----------------------------------------------------------------------------
(* One lemma per action. *)

(* What is missing on some node is gone for good. *)
LEMMA MissingIsGone ==
    ASSUME ServerInv, NEW n \in Nodes, Current(n) = NoRecord
    PROVE  Gone(canon)
<1> DEFINE t == machine[n].catalog_transaction_id
<1>1. StateOK(machine[n]) /\ Later(machine[n], Newest(canon))
  BY NodeView, NodeBehind, Zenon DEF ServerInv
<1>2. t \in 0..t /\ t \in 0..Newest(canon).catalog_transaction_id
  BY <1>1 DEF Later
<1>3. RecordAt(Newest(canon).catalog, t) = NoRecord
  BY <1>1, <1>2, RecordKept, Zenon DEF Current
<1> QED
  BY <1>2, <1>3, Zenon DEF ServerInv, CatalogOK, Gone

(* The record of a node is one a command can carry. *)
LEMMA CurrentIsRecord == ASSUME IInv, NEW n \in Nodes PROVE Current(n) \in Bodies
<1> DEFINE t == machine[n].catalog_transaction_id
<1>1. /\ t \in Nat /\ t = Len(machine[n].catalog) /\ machine[n].catalog \in Seq(Command)
  BY NodeView, StateView, Zenon
<1>2. CASE t = 0
  BY <1>2, ServerAssumption, Zenon DEF Current, RecordAt
<1>3. CASE t # 0
  <2>1. machine[n].catalog[t] \in Command
    BY <1>1, <1>3
  <2>2. machine[n].catalog[t].body \in Bodies
    BY <2>1, Zenon DEF Command
  <2> QED
    BY <1>3, <2>2, Zenon DEF Current, RecordAt
<1> QED
  BY <1>2, <1>3, Zenon

(* response_with_writer reads the record from this node: a write starts. *)
LEMMA OpenKeeps ==
    ASSUME ServerInv, NEW n \in Nodes, NEW c \in Clients, open_table(n, c)
    PROVE  ServerInv'
<1> DEFINE k == client[c]
           q == Plan[c][k.sequence]
           missing == Current(n) = NoRecord
           step == IF q.kind = "PATCH" \/ missing THEN "barrier" ELSE "propose"
           h == [step |-> step, client |-> c, token |-> NoToken, floor |-> {}, request |-> q,
                 base |-> Current(n), missing |-> missing]
<1>1. k.sequence <= Len(Plan[c]) /\ Receive(n, h)
  BY Zenon DEF open_table
<1>2. h.client = c /\ h.request = q /\ h.base = Current(n) /\ h.missing = missing /\ h.step = step
  BY Zenon
<1>3. h.step \in {"barrier", "propose"}
  BY <1>2, Zenon
<1>4. missing => Gone(canon)
  BY MissingIsGone, Zenon
<1>5. Current(n) \in Bodies
  BY CurrentIsRecord, Zenon DEF ServerInv
<1> HIDE DEF h, step
<1>6. PlansOK(h, k, canon)
  BY <1>1, <1>2, <1>4, <1>5, Zenon DEF PlansOK
<1>7. h.step \notin {"result", "write", "snapshot", "prepare", "data", "token"}
  BY <1>3
<1>8. HandlerOK(h, k, machine[n], canon)
  BY <1>2, <1>6, <1>7, Zenon DEF HandlerOK, ResultRead, WriteOK, SnapshotOK, PrepareOK, DataOK,
                                 ReadHolds, WriteHolds, Covered
<1> QED
  BY <1>1, <1>2, <1>8, ReceiveKeeps, Zenon

(* Everything any client was shown is in the history. *)
LEMMA ShownIsOld ==
    ASSUME ServerInv, NEW t \in Shown
    PROVE  t \in Nat /\ t <= Newest(canon).catalog_transaction_id
<1> PICK c \in Clients : t = client[c].seen
  BY Zenon DEF Shown
<1> DEFINE i == client[c].token + 1
           x == canon[i]
<1>1. /\ client[c].seen \in Nat /\ client[c].token \in Nat /\ client[c].token < Len(canon)
      /\ client[c].seen <= x.catalog_transaction_id
  BY DEF ServerInv, ClientOK
<1>2. i \in 1..Len(canon) /\ i <= Len(canon) /\ Len(canon) \in 1..Len(canon)
  BY <1>1, HistoryView DEF ServerInv
<1>3. Later(x, Newest(canon))
  BY <1>2, HistoryLater, Zenon DEF ServerInv, Newest
<1> HIDE DEF x, i
<1> QED
  BY <1>1, <1>3, SMTT(30) DEF Later

(* raft_read_response: a read starts, with the token of its client or with    *)
(* none.                                                                      *)
LEMMA ReadArrives ==
    ASSUME ServerInv, NEW n \in Nodes, NEW c \in Clients, raft_read_response(n, c)
    PROVE  ServerInv'
<1> PICK token \in {NoToken, client[c].token} :
        Receive(n, [step |-> "prepare", client |-> c, token |-> token,
                    floor |-> IF token = NoToken THEN Shown ELSE {}])
  BY Zenon DEF raft_read_response
<1> DEFINE h == [step |-> "prepare", client |-> c, token |-> token,
                 floor |-> IF token = NoToken THEN Shown ELSE {}]
<1>1. /\ h.step = "prepare" /\ h.client = c /\ h.token = token
      /\ h.floor = IF token = NoToken THEN Shown ELSE {}
  BY Zenon
<1>2. Receive(n, h)
  BY Zenon
<1> HIDE DEF h
<1>3. h.floor \subseteq Nat /\ \A t \in h.floor : t <= Newest(canon).catalog_transaction_id
  BY <1>1, ShownIsOld, Zenon
<1>4. PrepareOK(h, client[c], canon)
  BY <1>1, <1>3, Zenon DEF PrepareOK
<1>5. h.step \notin {"barrier", "propose", "result", "write", "snapshot", "data", "token"}
  BY <1>1
<1>6. HandlerOK(h, client[c], machine[n], canon)
  BY <1>1, <1>4, <1>5, Zenon DEF HandlerOK, PlansOK, ResultRead, WriteOK, SnapshotOK, DataOK,
                                 ReadHolds, WriteHolds, Covered
<1> QED
  BY <1>1, <1>2, <1>6, ReceiveKeeps, Zenon

(* A recorded result that says Applied names a transaction of its state. *)
LEMMA ResultIsExecuted ==
    ASSUME IInv, CatalogOK(canon), NEW i \in 1..Len(canon), NEW c \in Clients,
           canon[i].clients[c].sequence > 0, canon[i].clients[c].response.kind = "Applied"
    PROVE  Executed(c, canon[i].clients[c].sequence,
                    canon[i].clients[c].response.transaction_id, canon[i])
<1> DEFINE r == canon[i].clients[c]
           t == r.response.transaction_id
           top == Newest(canon)
<1>1. r \in recorded /\ t <= Len(canon[i].catalog)
  BY Zenon DEF IInv, RecordedOK, CatalogOK
<1>2. /\ t \in 1..Len(top.catalog) /\ top.catalog[t].client = r.client
      /\ top.catalog[t].sequence = r.sequence
  BY <1>1, Zenon DEF IInv, RecordedOK, Newest
<1>3. StateOK(canon[i]) /\ Later(canon[i], top)
  <2>1. i <= Len(canon)
    BY HistoryView
  <2> QED
    BY <2>1, HistoryView, HistoryLater, Zenon DEF Newest
<1>4. r.client = c
  BY <1>3, Zenon DEF StateOK
<1>5. t \in 1..Len(canon[i].catalog)
  <2>1. Len(canon[i].catalog) \in Nat /\ Len(top.catalog) \in Nat
    BY <1>3, Zenon DEF Later
  <2> HIDE DEF t, top
  <2> QED
    BY <1>1, <1>2, <2>1
<1>6. top.catalog[t] = canon[i].catalog[t]
  BY <1>3, <1>5, Zenon DEF Later, Prolongs
<1> HIDE DEF t, top
<1> QED
  BY <1>2, <1>4, <1>5, <1>6, Zenon DEF Executed, t

(* Behind the barrier a node has everything. *)
LEMMA BarrierView ==
    ASSUME IInv, NEW n \in Nodes, linearizable(n)
    PROVE  machine[n] = Newest(canon) /\ machine[n].last_applied = Len(log)
BY NodeView, HistoryView, Zenon DEF linearizable, Newest

(* replayed_transaction: behind the barrier the node has every answered write *)
(* of the client.                                                             *)
LEMMA BarrierKeeps ==
    ASSUME ServerInv, NEW n \in Nodes, replayed_transaction(n)
    PROVE  ServerInv'
<1> DEFINE g == http[n]
           c == g.client
           k == client[c]
           st == machine[n]
           h == [step |-> "result", client |-> c, token |-> g.token, floor |-> g.floor,
                 request |-> g.request, base |-> g.base, missing |-> g.missing,
                 at |-> st.catalog_transaction_id, previous |-> st.clients[c]]
<1>1. g.step = "barrier" /\ linearizable(n) /\ Handler(n, h) /\ UNCHANGED client /\ Local
  BY Zenon DEF replayed_transaction
<1>2. g # Idle
  BY <1>1, Busy
<1>3. HandlerOK(g, k, st, canon) /\ c \in Clients /\ ClientOK(c, k, canon) /\ k \in ClientRecord
  BY <1>2, HandlerView, Zenon
<1>4. /\ h.client = c /\ h.step = "result" /\ h.request = g.request /\ h.base = g.base
      /\ h.missing = g.missing /\ h.previous = st.clients[c]
  BY Zenon
<1>5. st = Newest(canon) /\ st.last_applied = Len(log) /\ StateOK(st)
  BY <1>1, BarrierView, NodeView, Zenon DEF ServerInv
<1> HIDE DEF h
<1>6. PlansOK(h, k, canon)
  <2>1. PlansOK(g, k, canon)
    BY <1>3, Zenon DEF HandlerOK
  <2> QED
    BY <1>1, <1>4, <2>1, Zenon DEF PlansOK
<1>7. ResultRead(h, k, st, canon)
  <2>1. st.clients[c].sequence \in Nat /\ st.clients[c] \in Results \cup {NoResult}
    BY <1>3, <1>5, StateView, Zenon DEF StateOK, States
  <2>2. st.clients[c].sequence \in 0..Newest(canon).clients[c].sequence
    <3> DEFINE s == st.clients[c].sequence
    <3> HIDE DEF s
    <3>1. s \in Nat => s \in 0..s
      OBVIOUS
    <3> QED
      BY <1>5, <2>1, <3>1, Zenon DEF s
  <2>3. k.sequence - 1 <= st.clients[c].sequence \/ Gone(canon)
    BY <1>3, <1>5, Zenon DEF ClientOK, Settled
  <2>4. st.clients[c].sequence > 0 /\ st.clients[c].response.kind = "Applied" =>
            Executed(c, st.clients[c].sequence, st.clients[c].response.transaction_id, st)
    BY <1>3, <1>5, HistoryView, ResultIsExecuted, Zenon DEF ServerInv, Newest
  <2> QED
    BY <1>4, <2>1, <2>2, <2>3, <2>4, Zenon DEF ResultRead
<1>8. Covered(h, k, st)
  <2>1. k.token <= Len(log)
    BY <1>3, HistoryView DEF ServerInv, ClientOK
  <2> QED
    BY <1>5, <2>1, ZenonT(60) DEF Covered
<1>9. h.step \notin {"write", "snapshot", "prepare", "data", "token"}
  BY <1>4
<1>10. HandlerOK(h, k, st, canon)
  BY <1>3, <1>4, <1>6, <1>7, <1>8, <1>9, Zenon
     DEF HandlerOK, WriteOK, SnapshotOK, PrepareOK, DataOK, ReadHolds, WriteHolds
<1> QED
  BY <1>1, <1>2, <1>4, <1>10, HandlerGoesOn, Zenon

(* A handler found the transaction its answer is about. *)
LEMMA OpeningKeeps ==
    ASSUME ServerInv, NEW n \in Nodes, http[n] # Idle, NEW t,
           Handler(n, Opening(http[n], t)), UNCHANGED client, Local,
           Executed(http[n].client, client[http[n].client].sequence, t, machine[n]),
           client[http[n].client].token <= machine[n].last_applied
    PROVE  ServerInv'
<1> DEFINE h == Opening(http[n], t)
           k == client[http[n].client]
<1>1. h.client = http[n].client /\ h.step = "snapshot" /\ h.at = t
  BY Zenon DEF Opening
<1> HIDE DEF h
<1>2. h.step \notin {"barrier", "result", "propose", "write", "prepare", "data", "token"}
  BY <1>1
<1>3. SnapshotOK(h, k, machine[n]) /\ Covered(h, k, machine[n])
  BY <1>1, Zenon DEF SnapshotOK, Covered
<1>4. HandlerOK(h, k, machine[n], canon)
  BY <1>1, <1>2, <1>3, HandlerView, Zenon
     DEF HandlerOK, PlansOK, ResultRead, WriteOK, PrepareOK, DataOK, ReadHolds, WriteHolds
<1> QED
  BY <1>1, <1>4, HandlerGoesOn, Zenon DEF h

(* A decision on a recorded result p: an old answer, or a refusal. *)
LEMMA DecisionCases ==
    ASSUME NEW st, NEW e, NEW d, d = sequence_decision(st, e),
           NEW p, p = st.clients[e.client], p.sequence \in Nat, e.sequence \in Nat
    PROVE  /\ d.kind = "Applied" => e.sequence = p.sequence /\ d = p.response
           /\ d.kind = "Rejected" =>
                /\ e.sequence <= p.sequence \/ ~(e.sequence - 1 <= p.sequence)
                /\ \/ e.sequence = p.sequence /\ d = p.response
                   \/ d.reason \in SequenceErrors
<1>1. \/ e.sequence = p.sequence /\ d = p.response
      \/ e.sequence = p.sequence /\ d = Rejected("ClientSequenceConflict")
      \/ e.sequence < p.sequence /\ d = Rejected("ClientSequenceTooOld")
      \/ ~(e.sequence < p.sequence) /\ e.sequence # p.sequence /\ e.sequence # p.sequence + 1
         /\ d = Rejected("ClientSequenceGap")
      \/ d = Accept
  BY Zenon DEF sequence_decision
<1>2. \A r : Rejected(r).kind = "Rejected" /\ Rejected(r).reason = r
  BY Zenon DEF Rejected
<1>3. Accept.kind = "Accept"
  BY Zenon DEF Accept
<1>4. "Applied" # "Rejected" /\ "Accept" # "Rejected" /\ "Applied" # "Accept"
  OBVIOUS
<1>5. {"ClientSequenceConflict", "ClientSequenceTooOld", "ClientSequenceGap"} = SequenceErrors
  BY DEF SequenceErrors
<1>6. d.kind = "Applied" => e.sequence = p.sequence /\ d = p.response
  BY <1>1, <1>2, <1>3, <1>4, Zenon
<1>7. d.kind = "Rejected" =>
        \/ e.sequence = p.sequence /\ d = p.response
        \/ d.reason \in SequenceErrors
  BY <1>1, <1>2, <1>3, <1>4, <1>5, Zenon
<1>8. d.kind = "Rejected" => e.sequence <= p.sequence \/ ~(e.sequence - 1 <= p.sequence)
  <2>1. d.kind = "Rejected" => e.sequence <= p.sequence \/ e.sequence > p.sequence + 1
    BY <1>1, <1>3
  <2> QED
    BY <2>1
<1> QED
  BY <1>6, <1>7, <1>8, Zenon

(* The decision on the recorded result: a replayed answer names the           *)
(* transaction of this very request.                                          *)
LEMMA ResultKeeps ==
    ASSUME ServerInv, NEW n \in Nodes, client_result(n)
    PROVE  ServerInv'
<1> DEFINE g == http[n]
           c == g.client
           k == client[c]
           st == machine[n]
           e == [client |-> c, sequence |-> k.sequence, fingerprint |-> g.request]
           x == [clients |-> [b \in {c} |-> g.previous]]
           d == sequence_decision(x, e)
<1>1. /\ g.step = "result" /\ UNCHANGED client /\ Local
      /\ IF g.at # st.catalog_transaction_id THEN Respond(n, g, "raft_state_error", 0)
         ELSE IF d.kind = "Applied" THEN Handler(n, Opening(g, d.transaction_id))
         ELSE IF d.kind = "Rejected" THEN Respond(n, g, d.reason, 0)
         ELSE IF g.missing THEN Respond(n, g, "not_found", 0)
         ELSE Handler(n, Planned(g))
  BY Zenon DEF client_result
<1>2. g # Idle
  BY <1>1, Busy
<1>3. HandlerOK(g, k, st, canon) /\ c \in Clients /\ ClientOK(c, k, canon) /\ k \in ClientRecord
  BY <1>2, HandlerView, Zenon
<1>4. /\ g.previous \in Results \cup {NoResult}
      /\ g.previous.sequence \in 0..Newest(canon).clients[c].sequence
      /\ k.sequence - 1 <= g.previous.sequence \/ Gone(canon)
      /\ g.previous.sequence > 0 /\ g.previous.response.kind = "Applied" =>
            Executed(c, g.previous.sequence, g.previous.response.transaction_id, st)
      /\ k.token <= st.last_applied /\ PlansOK(g, k, canon)
  <2>1. ResultRead(g, k, st, canon) /\ Covered(g, k, st) /\ PlansOK(g, k, canon)
    BY <1>3, Zenon DEF HandlerOK
  <2> QED
    BY <1>1, <2>1, Zenon DEF ResultRead, Covered
<1>5. e.client = c /\ e.sequence = k.sequence /\ x.clients[e.client] = g.previous
  BY Zenon
<1>6. k.sequence \in Nat /\ k.sequence > 0
  BY <1>3, ClientNumbers, Zenon
<1>7. g.previous.sequence \in Nat /\ Newest(canon).clients[c].sequence \in Nat
  <2>1. StateOK(Newest(canon)) /\ StateOK(machine[n])
    BY HistoryView, NodeView, Zenon DEF ServerInv
  <2>2. Newest(canon).clients[c].sequence \in Nat
    BY <1>3, <2>1, StateView, Zenon
  <2>3. \A m \in Nat : \A a \in 0..m : a \in Nat
    OBVIOUS
  <2> QED
    BY <1>4, <2>2, <2>3, Zenon
<1> HIDE DEF e, x
<1>8. /\ d.kind = "Applied" => k.sequence = g.previous.sequence /\ d = g.previous.response
      /\ d.kind = "Rejected" =>
            /\ k.sequence <= g.previous.sequence \/ ~(k.sequence - 1 <= g.previous.sequence)
            /\ \/ k.sequence = g.previous.sequence /\ d = g.previous.response
               \/ d.reason \in SequenceErrors
  <2>1. d = sequence_decision(x, e) /\ e.sequence \in Nat
    BY <1>5, <1>6, Zenon
  <2> HIDE DEF d
  <2> QED
    BY <1>5, <1>7, <2>1, DecisionCases
<1> HIDE DEF d
<1>9. CASE g.at # st.catalog_transaction_id
  <2>1. Respond(n, g, "raft_state_error", 0)
    BY <1>1, <1>9, Zenon
  <2> QED
    BY <1>1, <1>2, <2>1, RespondKeeps, Zenon DEF Indefinite
<1>10. CASE g.at = st.catalog_transaction_id /\ d.kind = "Applied"
  <2>1. Executed(c, k.sequence, d.transaction_id, st)
    BY <1>4, <1>6, <1>8, <1>10, Zenon
  <2> QED
    BY <1>1, <1>2, <1>4, <1>10, <2>1, OpeningKeeps, Zenon
<1>11. CASE g.at = st.catalog_transaction_id /\ d.kind = "Rejected"
  <2>1. Respond(n, g, d.reason, 0)
    BY <1>1, <1>11 
  <2>2. d.reason \notin {"read", "applied"}
    <3>1. CASE d.reason \in SequenceErrors
      BY <3>1 DEF SequenceErrors
    <3>2. CASE k.sequence = g.previous.sequence /\ d = g.previous.response
      <4>1. g.previous \in Results
        BY <1>4, <1>6, <3>2 DEF NoResult
      <4>2. d.reason \in Reasons
        BY <3>2, <4>1, Zenon DEF Results, Responses
      <4> QED
        BY <4>2 DEF Reasons, SequenceErrors
    <3> QED
      BY <1>8, <1>11, <3>1, <3>2, Zenon
  <2>3. Settled(c, k.sequence, canon)
    <3>1. CASE k.sequence <= g.previous.sequence
      BY <1>4, <1>6, <1>7, <3>1 DEF Settled
    <3>2. CASE ~(k.sequence - 1 <= g.previous.sequence)
      BY <1>4, <3>2, Zenon DEF Settled
    <3> QED
      BY <1>8, <1>11, <3>1, <3>2, ZenonT(60)
  <2> QED
    BY <1>1, <1>2, <2>1, <2>2, <2>3, RespondKeeps, Zenon
<1>12. CASE g.at = st.catalog_transaction_id /\ d.kind \notin {"Applied", "Rejected"} /\ g.missing
  <2>1. Respond(n, g, "not_found", 0)
    BY <1>1, <1>12, Zenon
  <2>2. Settled(c, k.sequence, canon)
    BY <1>1, <1>4, <1>12, Zenon DEF PlansOK, Settled
  <2> QED
    BY <1>1, <1>2, <2>1, <2>2, RespondKeeps, Zenon
<1>13. CASE g.at = st.catalog_transaction_id /\ d.kind \notin {"Applied", "Rejected"} /\ ~g.missing
  <2> DEFINE h == Planned(g)
  <2>1. /\ h.step = "propose" /\ h.client = c /\ h.request = g.request /\ h.base = g.base
        /\ h.missing = g.missing
    BY Zenon DEF Planned
  <2>2. Handler(n, h)
    BY <1>1, <1>13, Zenon
  <2> HIDE DEF h
  <2>3. PlansOK(h, k, canon)
    BY <1>1, <1>4, <2>1, Zenon DEF PlansOK
  <2>4. h.step \notin {"result", "write", "snapshot", "prepare", "data", "token"}
    BY <2>1
  <2>5. HandlerOK(h, k, st, canon)
    BY <1>3, <2>1, <2>3, <2>4, ZenonT(60) DEF HandlerOK, ResultRead, WriteOK, SnapshotOK, PrepareOK,
                                         DataOK, ReadHolds, WriteHolds, Covered
  <2> QED
    BY <1>1, <1>2, <2>1, <2>2, <2>5, HandlerGoesOn, Zenon
<1> QED
  BY <1>9, <1>10, <1>11, <1>12, <1>13, Zenon

(* propose_request: the command carries the tag of the catalog it was planned *)
(* on.                                                                        *)
LEMMA ProposeKeeps ==
    ASSUME ServerInv, NEW n \in Nodes, propose_request(n)
    PROVE  ServerInv'
<1> DEFINE g == http[n]
           c == g.client
           k == client[c]
           st == machine[n]
           tag == st.catalog_transaction_id
           verdict == IF Current(n) = NoRecord THEN "InvalidTransaction" ELSE "ok"
           body == NewRecord(g.request, g.base, k.sequence + 1)
           cmd == [kind |-> "Normal", client |-> c, sequence |-> k.sequence,
                   fingerprint |-> g.request, tag |-> tag, verdict |-> verdict, body |-> body]
           h == [step |-> "write", client |-> c, token |-> g.token, floor |-> g.floor,
                 cmd |-> cmd, behind |-> Len(log)]
<1>1. /\ g.step = "propose" /\ UNCHANGED <<vars, leader, oldest, client>>
      /\ IF leader = n THEN Handler(n, h) /\ pending' = pending \cup {cmd}
         ELSE Respond(n, g, "raft_unavailable", 0) /\ UNCHANGED pending
  BY Zenon DEF propose_request
<1>2. g # Idle
  BY <1>1, Busy
<1>3. HandlerOK(g, k, st, canon) /\ c \in Clients /\ ClientOK(c, k, canon) /\ k \in ClientRecord
  BY <1>2, HandlerView, Zenon
<1>4. CASE leader # n
  <2>1. Respond(n, g, "raft_unavailable", 0) /\ UNCHANGED client /\ Local
    BY <1>1, <1>4, Zenon DEF Local
  <2> QED
    BY <1>2, <2>1, RespondKeeps, Zenon DEF Indefinite
<1>5. CASE leader = n
  <2>1. /\ k.sequence <= Len(Plan[c]) /\ g.request = Plan[c][k.sequence] /\ g.base \in Bodies
    <3>1. PlansOK(g, k, canon)
      BY <1>3, ZenonT(60) DEF HandlerOK
    <3> QED
      BY <1>1, <3>1, Zenon DEF PlansOK
  <2>2. k.sequence \in Nat /\ k.sequence \in 1..Len(Plan[c]) /\ k.token \in Nat
    <3>1. k.sequence \in Nat /\ k.sequence > 0 /\ k.token \in Nat
      BY <1>3, ClientNumbers, Zenon
    <3> QED
      BY <2>1, <3>1
  <2>3. g.request \in Fingerprints
    <3>1. Plan[c] \in Seq(Fingerprints)
      BY <1>3, ServerAssumption, Zenon
    <3> QED
      BY <2>1, <2>2, <3>1
  <2>4. body \in Bodies
    BY <1>3, <2>1, <2>2, ServerAssumption, Zenon
  <2>5. StateOK(st) /\ Later(st, Newest(canon)) /\ tag \in Nat
    BY NodeView, NodeBehind, StateView, Zenon DEF ServerInv
  <2>6. verdict \in Verdicts /\ (verdict = "ok" => Current(n) # NoRecord)
    BY DEF Verdicts
  <2> HIDE DEF body, verdict
  <2>7. /\ cmd \in Command /\ cmd.client = c /\ cmd.sequence = k.sequence
        /\ cmd.tag = tag /\ cmd.verdict = verdict
    BY <1>3, <2>2, <2>3, <2>4, <2>5, <2>6, Zenon DEF Command
  <2> HIDE DEF cmd
  <2>8. CommandOK(cmd, canon)
    <3>1. tag <= Newest(canon).catalog_transaction_id
      BY <2>5, Zenon DEF Later
    <3>2. tag \in 0..tag
      BY <2>5
    <3>3. RecordAt(Newest(canon).catalog, tag) = Current(n)
      BY <2>5, <3>2, RecordKept, Zenon DEF Current
    <3> QED
      BY <2>6, <2>7, <3>1, <3>3, Zenon DEF CommandOK
  <2>9. \A e \in pending' : CommandOK(e, canon)
    BY <1>1, <1>5, <2>8, Zenon DEF ServerInv
  <2>10. h.step = "write" /\ h.client = c /\ h.cmd = cmd /\ h.behind = Len(log)
    BY Zenon
  <2>11. http' = [http EXCEPT ![n] = h]
    BY <1>1, <1>5, Zenon DEF Handler
  <2> HIDE DEF h
  <2>12. WriteOK(h, k, canon)
    <3>1. k.token <= Len(log) /\ Len(log) \in Nat /\ Len(log) < Len(canon) /\ Len(log) + 1 = Len(canon)
      <4>1. /\ k.token \in Nat /\ k.token < Len(canon)
            /\ Len(log) \in Nat /\ Len(canon) = Len(log) + 1
        BY <1>3, <2>2, HistoryView, Zenon DEF ServerInv, ClientOK
      <4>2. \A t, m \in Nat : t < m + 1 => t <= m
        OBVIOUS
      <4>3. \A m \in Nat : m < m + 1
        OBVIOUS
      <4> QED
        BY <4>1, <4>2, <4>3, Zenon
    <3>2. k.sequence - 1 <= Newest(canon).clients[c].sequence \/ Gone(canon)
      BY <1>3, Zenon DEF ClientOK, Settled
    <3> QED
      BY <2>7, <2>10, <3>1, <3>2, ZenonT(60) DEF WriteOK, Newest
  <2>13. h.step \notin {"barrier", "propose", "result", "snapshot", "prepare", "data", "token"}
    BY <2>10
  <2>14. HandlerOK(h, k, st, canon)
    BY <1>3, <2>10, <2>12, <2>13, Zenon DEF HandlerOK, PlansOK, ResultRead, SnapshotOK, PrepareOK,
                                            DataOK, ReadHolds, WriteHolds, Covered
  <2>15. \A m \in Nodes \ {n} : http[m] # Idle => http[m].client # h.client
    BY <1>2, <2>10, Zenon DEF ServerInv, OneHandler
  <2> QED
    BY <1>1, <2>9, <2>10, <2>11, <2>14, <2>15, HandlerStep, Zenon
<1> QED
  BY <1>4, <1>5, Zenon

(* What an accepted command leaves. *)
LEMMA AcceptedResult ==
    ASSUME NEW st, StateOK(st), NEW e \in Command, Accepted(st, e),
           NEW i \in Nat, st.last_applied + 1 = i, NEW y, y = After(st, i, e)
    PROVE  /\ y.clients[e.client].sequence = e.sequence
           /\ Judged(st, e).kind = "Applied" => y.catalog = Append(st.catalog, e)
<1>1. e \in LogEntries /\ e.client \in Clients
  BY Zenon DEF LogEntries, Command
<1> DEFINE r == ClientResult(e, Judged(st, e))
<1>2. /\ \A c \in Clients : y.clients[c] = IF c = e.client THEN r ELSE st.clients[c]
      /\ Judged(st, e).kind = "Applied" => y.catalog = Append(st.catalog, e)
  BY <1>1, AfterClients, SMTT(30)
<1>3. r.sequence = e.sequence
  BY Zenon DEF ClientResult
<1> HIDE DEF r
<1>4. y.clients[e.client] = r
  BY <1>1, <1>2, Zenon
<1> QED
  BY <1>2, <1>3, <1>4, Zenon

(* A committed request has a result, unless it came too early for good. *)
LEMMA CommittedIsSettled ==
    ASSUME ServerInv, NEW i \in 1..Len(log), log[i] \in Command, log[i].sequence > 0,
           \/ log[i].sequence - 1 <= canon[i].clients[log[i].client].sequence
           \/ Gone(canon)
    PROVE  Settled(log[i].client, log[i].sequence, canon)
<1> DEFINE e == log[i]
           c == e.client
           s == e.sequence
           p == canon[i].clients[c]
           r == canon[i + 1].clients[c]
           top == Newest(canon).clients[c]
<1>1. c \in Clients /\ s \in Nat
  BY Zenon DEF Command
<1>2. /\ i \in Nat /\ i \in 1..Len(canon) /\ i + 1 \in 1..Len(canon) /\ i <= Len(canon)
      /\ i + 1 <= Len(canon) /\ Len(canon) \in 1..Len(canon)
  BY HistoryView DEF ServerInv
<1>3. StateOK(canon[i]) /\ StateOK(canon[i + 1]) /\ canon[i].last_applied + 1 = i
  <2>1. StateOK(canon[i]) /\ StateOK(canon[i + 1]) /\ canon[i].last_applied = i - 1
    BY <1>2, HistoryView, Zenon DEF ServerInv
  <2> QED
    BY <1>2, <2>1
<1>4. p.sequence \in Nat /\ r.sequence \in Nat /\ top.sequence \in Nat
  BY <1>1, <1>3, HistoryView, StateView, Zenon DEF ServerInv
<1>5. p.sequence <= top.sequence /\ r.sequence <= top.sequence
  BY <1>1, <1>2, Zenon DEF ServerInv, CatalogOK, Newest
<1>6. CASE s <= p.sequence
  <2>1. s <= top.sequence
    <3> HIDE DEF s, p, top
    <3> QED
      BY <1>1, <1>4, <1>5, <1>6
  <2> QED
    BY <2>1, Zenon DEF Settled
<1>7. CASE s = p.sequence + 1
  <2>1. s # p.sequence /\ ~(s < p.sequence)
    BY <1>1, <1>4, <1>7, NextIsNew, Zenon
  <2>2. Accepted(canon[i], e)
    BY <1>7, <2>1, Zenon DEF Accepted, sequence_decision
  <2>3. canon[i + 1] = After(canon[i], i, e) /\ e \in LogEntries
    BY ZenonT(60) DEF ServerInv, IInv, HistoryOK, LogEntries
  <2>4. r.sequence = s
    BY <1>2, <1>3, <2>2, <2>3, AcceptedResult, SMTT(30)
  <2> HIDE DEF r
  <2> QED
    BY <1>5, <2>4, ZenonT(60) DEF Settled
<1>8. CASE s > p.sequence + 1
  <2>1. ~(s - 1 <= p.sequence)
    BY <1>1, <1>4, <1>8, FarAhead, Zenon
  <2> QED
    BY <2>1, ZenonT(60) DEF Settled
<1> QED
  <2>1. s <= p.sequence \/ s = p.sequence + 1 \/ s > p.sequence + 1
    BY <1>1, <1>4, Ranked, Zenon
  <2> QED
    BY <2>1, <1>6, <1>7, <1>8, ZenonT(60)

(* The response of a committed request that says Applied names its transaction. *)
LEMMA AppliedIsExecuted ==
    ASSUME ServerInv, NEW i \in 1..Len(log), log[i] \in Command, log[i].sequence > 0,
           Response(canon[i], log[i]).kind = "Applied"
    PROVE  Executed(log[i].client, log[i].sequence,
                    Response(canon[i], log[i]).transaction_id, canon[i + 1])
<1> DEFINE e == log[i]
           c == e.client
           q == Response(canon[i], e)
           a == ClientResult(e, q)
<1>1. c \in Clients /\ e.sequence \in Nat
  BY Zenon DEF Command
<1>2. i \in Nat /\ i \in 1..Len(canon) /\ i + 1 \in 1..Len(canon) /\ i <= i + 1 /\ e.sequence # 0
  BY <1>1, HistoryView DEF ServerInv
<1>3. StateOK(canon[i]) /\ StateOK(canon[i + 1]) /\ canon[i].last_applied + 1 = i
  <2>1. StateOK(canon[i]) /\ StateOK(canon[i + 1]) /\ canon[i].last_applied = i - 1
    BY <1>2, HistoryView, Zenon DEF ServerInv
  <2> QED
    BY <1>2, <2>1
<1>4. a.response = q /\ a.sequence = e.sequence /\ a.client = c /\ q.kind # "Rejected"
  BY DEF ClientResult
<1>5. \/ Accepted(canon[i], e) /\ a = ClientResult(e, Judged(canon[i], e))
      \/ canon[i].clients[c].sequence > 0 /\ a = canon[i].clients[c]
  <2>1. \/ q.kind = "Rejected" 
        \/ e.sequence = 0
        \/ Accepted(canon[i], e) /\ a = ClientResult(e, Judged(canon[i], e))
        \/ canon[i].clients[c].sequence > 0 /\ a = canon[i].clients[c]
    BY <1>3, <1>4, ResponseOK, Zenon
  <2> QED
    BY <1>2, <1>4, <2>1, Zenon
<1>6. CASE Accepted(canon[i], e) /\ a = ClientResult(e, Judged(canon[i], e))
  <2>1. q = Judged(canon[i], e)
    BY <1>4, <1>6, Zenon DEF ClientResult
  <2>2. q.transaction_id = Len(canon[i].catalog) + 1
    BY <1>3, <2>1, JudgedOK, Zenon
  <2>3. canon[i + 1] = After(canon[i], i, e) /\ e \in LogEntries
    BY Zenon DEF ServerInv, IInv, HistoryOK, LogEntries
  <2>4. canon[i + 1].catalog = Append(canon[i].catalog, e)
    BY <1>2, <1>3, <1>6, <2>1, <2>3, AcceptedResult, SMTT(30)
  <2>5. canon[i].catalog \in Seq(Command)
    BY <1>3, StateView, Zenon
  <2>6. ASSUME NEW done \in Seq(Command)
        PROVE  /\ Len(done) + 1 \in 1..Len(Append(done, e))
               /\ Append(done, e)[Len(done) + 1] = e
    OBVIOUS
  <2>7. /\ Len(canon[i].catalog) + 1 \in 1..Len(canon[i + 1].catalog)
        /\ canon[i + 1].catalog[Len(canon[i].catalog) + 1] = e
    BY <2>4, <2>5, <2>6, Zenon
  <2> QED
    BY <2>2, <2>7, Zenon DEF Executed
<1>7. CASE canon[i].clients[c].sequence > 0 /\ a = canon[i].clients[c]
  <2>1. Executed(c, e.sequence, q.transaction_id, canon[i])
    BY <1>1, <1>2, <1>4, <1>7, ResultIsExecuted, Zenon DEF ServerInv
  <2>2. Later(canon[i], canon[i + 1])
    BY <1>2, HistoryLater, Zenon DEF ServerInv
  <2> QED
    BY <2>1, <2>2, ExecutedKept, ZenonT(60)
<1> QED
  BY <1>5, <1>6, <1>7, Zenon

(* The response of client_write is the one of the entry of this command,      *)
(* which settles its sequence number.                                         *)
LEMMA WriteKeeps ==
    ASSUME ServerInv, NEW n \in Nodes, client_write(n)
    PROVE  ServerInv'
<1> DEFINE g == http[n]
           c == g.client
           k == client[c]
           st == machine[n]
           b == g.behind + 1
           last == st.last_applied
<1>1. PICK i \in b..last :
        /\ log[i] = g.cmd
        /\ IF Response(canon[i], g.cmd).kind = "Applied"
           THEN Handler(n, Opening(g, Response(canon[i], g.cmd).transaction_id))
           ELSE Respond(n, g, Response(canon[i], g.cmd).reason, 0)
  BY Zenon DEF client_write
<1>2. g.step = "write" /\ UNCHANGED client /\ Local
  BY Zenon DEF client_write
<1>3. g # Idle
  BY <1>2, Busy
<1>4. HandlerOK(g, k, st, canon) /\ c \in Clients /\ k \in ClientRecord
  BY <1>3, HandlerView, Zenon
<1>5. /\ g.cmd \in Command /\ g.cmd.client = c /\ g.cmd.sequence = k.sequence
      /\ g.behind \in Nat /\ k.token <= g.behind /\ g.behind < Len(canon)
      /\ k.sequence - 1 <= canon[b].clients[c].sequence \/ Gone(canon)
  <2>1. WriteOK(g, k, canon)
    BY <1>4, Zenon DEF HandlerOK
  <2> QED
    BY <1>2, <2>1, Zenon DEF WriteOK
<1>6. k.sequence \in Nat /\ k.sequence > 0 /\ k.sequence - 1 \in Nat /\ k.token \in Nat
  BY <1>4, ClientNumbers, Zenon
<1>7. last \in 0..Len(log) /\ last + 1 \in 1..Len(canon) /\ st = canon[last + 1]
  BY NodeView, Zenon DEF ServerInv
<1>8. Len(log) \in Nat /\ Len(canon) = Len(log) + 1
  BY HistoryView, ZenonT(60) DEF ServerInv
<1> HIDE DEF last
<1>9. /\ i \in 1..Len(log) /\ i \in 1..Len(canon) /\ b \in 1..Len(canon) /\ b <= i
      /\ i + 1 \in 1..Len(canon) /\ i + 1 <= last + 1 /\ k.token <= last
  <2> DEFINE o == g.behind
             t == k.token
             m == Len(log)
             q == Len(canon)
  <2>1. /\ o \in Nat /\ t \in Nat /\ t <= o /\ m \in Nat /\ last \in 0..m /\ q = m + 1
        /\ i \in (o + 1)..last
    BY <1>5, <1>6, <1>7, <1>8, Zenon
  <2> HIDE DEF o, t, m, q
  <2>2. /\ i \in 1..m /\ i \in 1..q /\ o + 1 \in 1..q /\ o + 1 <= i
        /\ i + 1 \in 1..q /\ i + 1 <= last + 1 /\ t <= last
    BY <2>1
  <2> QED
    BY <2>2, Zenon DEF o, t, m, q
<1>10. k.sequence - 1 <= canon[i].clients[c].sequence \/ Gone(canon)
  <2>1. canon[b].clients[c].sequence <= canon[i].clients[c].sequence
    BY <1>4, <1>9, Zenon DEF ServerInv, CatalogOK
  <2>2. canon[b].clients[c].sequence \in Nat /\ canon[i].clients[c].sequence \in Nat
    BY <1>4, <1>9, HistoryView, StateView, Zenon DEF ServerInv
  <2>3. \A x, y, z \in Nat : x <= y /\ y <= z => x <= z
    OBVIOUS
  <2> QED
    BY <1>5, <1>6, <2>1, <2>2, <2>3, Zenon
<1>11. Settled(c, k.sequence, canon)
  BY <1>1, <1>5, <1>6, <1>9, <1>10, CommittedIsSettled, Zenon
<1> DEFINE q == Response(canon[i], g.cmd)
<1>12. CASE q.kind = "Applied"
  <2>1. Executed(c, k.sequence, q.transaction_id, canon[i + 1])
    BY <1>1, <1>5, <1>6, <1>9, <1>12, AppliedIsExecuted, Zenon
  <2>2. Later(canon[i + 1], st)
    BY <1>7, <1>9, HistoryLater, Zenon DEF ServerInv
  <2>3. Executed(c, k.sequence, q.transaction_id, st)
    <3> HIDE DEF q, st, c, k
    <3> QED
      BY <2>1, <2>2, ExecutedKept
  <2>4. k.token <= machine[n].last_applied /\ Handler(n, Opening(g, q.transaction_id))
    BY <1>1, <1>9, <1>12, Zenon DEF last
  <2> QED
    BY <1>2, <1>3, <2>3, <2>4, OpeningKeeps, Zenon
<1>13. CASE q.kind # "Applied"
  <2>1. Respond(n, g, q.reason, 0)
    BY <1>1, <1>13, Zenon
  <2>2. StateOK(canon[i])
    BY <1>9, HistoryView, Zenon DEF ServerInv
  <2>3. ClientResult(g.cmd, q) \in Results
    BY <1>5, <2>2, ResponseOK, Zenon
  <2>4. q \in Responses
    BY <2>3 DEF ClientResult, Results
  <2>5. q.reason \in Reasons
    BY <2>4, Zenon DEF Responses
  <2>6. q.reason \notin {"read", "applied"}
    BY <2>5 DEF Reasons, SequenceErrors
  <2> HIDE DEF q
  <2> QED
    BY <1>2, <1>3, <1>11, <2>1, <2>6, RespondKeeps, Zenon
<1> QED
  BY <1>12, <1>13, Zenon

(* RPC_TIMEOUT: an indefinite answer, after which the client keeps its        *)
(* sequence number.                                                           *)
LEMMA TimeoutKeeps == ASSUME ServerInv, NEW n \in Nodes, Timeout(n) PROVE ServerInv'
<1>1. http[n] # Idle
  BY Busy DEF Timeout
<1>2. Respond(n, http[n], "raft_unavailable", 0) /\ UNCHANGED client /\ Local
  BY Zenon DEF Timeout
<1> QED
  BY <1>1, <1>2, RespondKeeps, Zenon DEF Indefinite

(* An executed request is settled. *)
LEMMA ExecutedSettled ==
    ASSUME ServerInv, NEW n \in Nodes, NEW c \in Clients, NEW s \in Nat, NEW t,
           Executed(c, s, t, machine[n])
    PROVE  Settled(c, s, canon)
<1> DEFINE st == machine[n]
           p == st.clients[c].sequence
           top == Newest(canon).clients[c].sequence
<1>1. StateOK(st) /\ st.last_applied + 1 \in 1..Len(canon) /\ st = canon[st.last_applied + 1]
  BY NodeView, Zenon DEF ServerInv
<1>2. s <= p
  BY <1>1, Zenon DEF StateOK, Executed
<1>3. p <= top
  <2>1. st.last_applied + 1 <= Len(canon) /\ Len(canon) \in 1..Len(canon)
    BY <1>1, HistoryView DEF ServerInv
  <2> QED
    BY <1>1, <2>1, ZenonT(60) DEF ServerInv, CatalogOK, Newest
<1>4. p \in Nat /\ top \in Nat
  BY <1>1, HistoryView, StateView, Zenon DEF ServerInv
<1>5. s <= top
  <2> HIDE DEF p, top
  <2> QED
    BY <1>2, <1>3, <1>4
<1> QED
  BY <1>5, Zenon DEF Settled

(* Catalog::from_path_at: the transaction of the answer is still there, or    *)
(* the answer says it is not.                                                 *)
LEMMA SnapshotKeeps == ASSUME ServerInv, NEW n \in Nodes, from_path_at(n) PROVE ServerInv'
<1> DEFINE g == http[n]
           c == g.client
           k == client[c]
           status == IF g.at < oldest[n] THEN "raft_retry_snapshot_unavailable" ELSE "applied"
<1>1. g.step = "snapshot" /\ Respond(n, g, status, g.at) /\ UNCHANGED client /\ Local
  BY Zenon DEF from_path_at
<1>2. g # Idle
  BY <1>1, Busy
<1>3. HandlerOK(g, k, machine[n], canon) /\ c \in Clients /\ k \in ClientRecord
  BY <1>2, HandlerView, Zenon
<1>4. Executed(c, k.sequence, g.at, machine[n]) /\ k.token <= machine[n].last_applied
  <2>1. SnapshotOK(g, k, machine[n]) /\ Covered(g, k, machine[n])
    BY <1>3, Zenon DEF HandlerOK
  <2> QED
    BY <1>1, <2>1, Zenon DEF SnapshotOK, Covered
<1>5. k.sequence \in Nat
  BY <1>3, ClientNumbers, Zenon
<1>6. Settled(c, k.sequence, canon)
  BY <1>3, <1>4, <1>5, ExecutedSettled, Zenon
<1>7. status # "read"
  OBVIOUS
<1> HIDE DEF status
<1> QED
  BY <1>1, <1>2, <1>4, <1>6, <1>7, RespondKeeps, Zenon

(* prepare_read: behind the barrier or the token the node has all that the    *)
(* read has to show.                                                          *)
LEMMA PrepareKeeps == ASSUME ServerInv, NEW n \in Nodes, prepare_read(n) PROVE ServerInv'
<1> DEFINE g == http[n]
           c == g.client
           k == client[c]
           st == machine[n]
           h == [step |-> "data", client |-> c, token |-> g.token, floor |-> g.floor]
<1>1. /\ g.step = "prepare" /\ Handler(n, h) /\ UNCHANGED client /\ Local
      /\ IF g.token = NoToken THEN linearizable(n) ELSE st.last_applied >= g.token
  BY Zenon DEF prepare_read
<1>2. g # Idle
  BY <1>1, Busy
<1>3. HandlerOK(g, k, st, canon) /\ c \in Clients /\ ClientOK(c, k, canon) /\ k \in ClientRecord
  BY <1>2, HandlerView, Zenon
<1>4. /\ g.token \in {NoToken, k.token} /\ g.floor \subseteq Nat
      /\ g.token = NoToken => \A t \in g.floor : t <= Newest(canon).catalog_transaction_id
  <2>1. PrepareOK(g, k, canon)
    BY <1>3, Zenon DEF HandlerOK
  <2> QED
    BY <1>1, <2>1, Zenon DEF PrepareOK
<1>5. h.step = "data" /\ h.client = c /\ h.token = g.token /\ h.floor = g.floor
  BY Zenon
<1>6. linearizable(n) => st = Newest(canon) /\ st.last_applied = Len(log)
  BY BarrierView, Zenon DEF ServerInv
<1> HIDE DEF h
<1>7. DataOK(h, st)
  BY <1>1, <1>4, <1>5, <1>6, Zenon DEF DataOK
<1>8. k.token <= st.last_applied
  <2>1. /\ k.token \in Nat /\ k.token < Len(canon) /\ Len(canon) = Len(log) + 1 /\ Len(log) \in Nat
        /\ st.last_applied \in Nat
    BY <1>3, HistoryView, NodeView, StateView, ZenonT(60) DEF ServerInv, ClientOK, ClientRecord
  <2>2. CASE g.token = NoToken
    <3>1. st.last_applied = Len(log)
      BY <1>1, <1>6, <2>2, Zenon
    <3> QED
      BY <2>1, <3>1
  <2>3. CASE g.token # NoToken
    <3>1. st.last_applied >= k.token
      BY <1>1, <1>4, <2>3, Zenon
    <3> QED
      BY <2>1, <3>1
  <2> QED
    BY <2>2, <2>3, Zenon
<1>9. h.step \notin {"barrier", "result", "propose", "write", "snapshot", "prepare", "token"}
  BY <1>5
<1>10. HandlerOK(h, k, st, canon)
  BY <1>3, <1>5, <1>7, <1>8, <1>9, Zenon DEF HandlerOK, PlansOK, ResultRead, WriteOK, SnapshotOK,
                                             PrepareOK, ReadHolds, WriteHolds, Covered
<1> QED
  BY <1>1, <1>2, <1>5, <1>10, HandlerGoesOn, Zenon

(* A node at the position of a token has everything the client was shown. *)
LEMMA SeenIsCovered ==
    ASSUME ServerInv, NEW n \in Nodes, NEW c \in Clients, client[c].token <= machine[n].last_applied
    PROVE  client[c].seen <= machine[n].catalog_transaction_id
<1> DEFINE st == machine[n]
           i == client[c].token + 1
           j == st.last_applied + 1
           x == canon[i]
<1>1. /\ client[c].seen \in Nat /\ client[c].token \in Nat
      /\ client[c].seen <= x.catalog_transaction_id
  BY DEF ServerInv, ClientOK
<1>2. j \in 1..Len(canon) /\ st = canon[j] /\ st.last_applied \in Nat /\ Len(canon) \in Nat
  BY NodeView, StateView, HistoryView, Zenon DEF ServerInv
<1>3. i \in 1..Len(canon) /\ i <= j
  <2> DEFINE t == client[c].token
             a == st.last_applied
             m == Len(canon)
  <2>1. t \in Nat /\ a \in Nat /\ m \in Nat /\ a + 1 \in 1..m /\ t <= a
    BY <1>1, <1>2, Zenon
  <2> HIDE DEF t, a, m, x
  <2>2. t + 1 \in 1..m /\ t + 1 <= a + 1
    BY <2>1
  <2> QED
    BY <2>2, Zenon DEF t, a, m
<1>4. Later(x, st)
  BY <1>2, <1>3, HistoryLater, Zenon DEF ServerInv
<1> HIDE DEF x, st
<1>5. client[c].seen <= st.catalog_transaction_id
  BY <1>1, <1>4, Transitive, Zenon DEF Later
<1> QED
  BY <1>5, Zenon DEF st

(* The data of a read is the catalog of the node, which has only grown since  *)
(* prepare_read.                                                              *)
LEMMA ReadKeeps == ASSUME ServerInv, NEW n \in Nodes, read_catalog(n) PROVE ServerInv'
<1> DEFINE g == http[n]
           c == g.client
           k == client[c]
           at == machine[n].catalog_transaction_id
           h == [step |-> "token", client |-> c, status |-> "read", at |-> at,
                 token |-> g.token, floor |-> g.floor]
<1>1. g.step = "data" /\ Respond(n, g, "read", at) /\ UNCHANGED client /\ Local
  BY Zenon DEF read_catalog
<1>2. g # Idle
  BY <1>1, Busy
<1>3. HandlerOK(g, k, machine[n], canon) /\ c \in Clients
  BY <1>2, HandlerView, Zenon
<1>4. /\ k.token <= machine[n].last_applied /\ g.floor \subseteq Nat
      /\ g.token = NoToken => \A t \in g.floor : t <= at
  <2>1. DataOK(g, machine[n]) /\ Covered(g, k, machine[n])
    BY <1>3, Zenon DEF HandlerOK
  <2> QED
    BY <1>1, <2>1, Zenon DEF DataOK, Covered
<1>5. k.seen <= at /\ at \in Nat
  BY <1>3, <1>4, SeenIsCovered, NodeView, StateView, ZenonT(60) DEF ServerInv
<1>6. at <= at /\ \A t \in Nat : t <= at => at >= t
  BY <1>5
<1>7. h.token = g.token /\ h.floor = g.floor /\ h.at = at
  BY Zenon
<1> HIDE DEF h
<1>8. ReadHolds(h, k, machine[n])
  BY <1>4, <1>5, <1>6, <1>7, Zenon DEF ReadHolds
<1>9. "read" # "applied" /\ "read" \in Indefinite \cup {"read"}
  BY DEF Indefinite
<1> QED
  BY <1>1, <1>2, <1>4, <1>8, <1>9, RespondKeeps, Zenon DEF h

(* The client's record after a response it received. *)
LEMMA ReceivedOK ==
    ASSUME ServerInv, NEW n \in Nodes, http[n] # Idle, http[n].step = "token",
           NEW status, status \in {http[n].status, "raft_unavailable"},
           NEW h, h = [client |-> http[n].client, at |-> http[n].at, status |-> status],
           NEW k, k = client[http[n].client],
           NEW r, r = [sequence |-> IF Final(h) THEN k.sequence + 1 ELSE k.sequence,
                       token |-> IF Successful(h) THEN machine[n].last_applied ELSE k.token,
                       seen |-> IF Successful(h) /\ h.at > k.seen THEN h.at ELSE k.seen]
    PROVE  ClientOK(http[n].client, r, canon)
<1> DEFINE c == http[n].client
           st == machine[n]
<1>1. HandlerOK(http[n], k, st, canon) /\ c \in Clients /\ ClientOK(c, k, canon) /\ k \in ClientRecord
  BY HandlerView, Zenon
<1>2. h.status = status /\ h.at = http[n].at
  BY ZenonT(60)
<1>3. Successful(h) => Successful(http[n])
  BY <1>2 DEF Successful
<1>4. Final(h) => Final(http[n])
  BY <1>2 DEF Final
<1>5. /\ ReadHolds(http[n], k, st) /\ WriteHolds(http[n], k, st, canon) /\ Covered(http[n], k, st)
  BY <1>1, ZenonT(60) DEF HandlerOK
<1>6. k.sequence \in Nat /\ k.sequence > 0 /\ k.token \in Nat /\ k.seen \in Nat
  BY <1>1 DEF ClientRecord
<1>7. /\ st.last_applied \in Nat /\ st.last_applied < Len(canon) /\ st = canon[st.last_applied + 1]
      /\ st.catalog_transaction_id \in Nat /\ st.catalog_transaction_id = Len(st.catalog)
  <2>1. st.last_applied + 1 \in 1..Len(canon) /\ st.last_applied \in Nat /\ Len(canon) \in Nat
    BY NodeView, StateView, HistoryView, ZenonT(60) DEF ServerInv
  <2>2. st.last_applied < Len(canon)
    BY <2>1
  <2> QED
    BY <2>1, <2>2, NodeView, StateView, ZenonT(60) DEF ServerInv
<1>8. ASSUME Successful(h)
      PROVE  h.at \in Nat /\ h.at <= st.catalog_transaction_id /\ k.seen <= st.catalog_transaction_id
  <2>1. k.seen <= st.catalog_transaction_id
    BY <1>1, <1>3, <1>5, <1>8, SeenIsCovered, Zenon DEF Covered
  <2>2. CASE http[n].status = "read"
    BY <1>2, <1>5, <2>1, <2>2, Zenon DEF ReadHolds
  <2>3. CASE http[n].status = "applied"
    <3>1. http[n].at \in 1..Len(st.catalog)
      BY <1>5, <2>3, Zenon DEF WriteHolds, Executed
    <3>2. http[n].at \in Nat /\ http[n].at <= st.catalog_transaction_id
      BY <1>7, <3>1
    <3> QED
      BY <1>2, <2>1, <3>2, Zenon
  <2> QED
    BY <1>3, <1>8, <2>2, <2>3, Zenon DEF Successful
<1>9. /\ Final(h) => r.sequence = k.sequence + 1
      /\ ~Final(h) => r.sequence = k.sequence
      /\ Successful(h) => r.token = st.last_applied
      /\ ~Successful(h) => r.token = k.token /\ r.seen = k.seen
      /\ Successful(h) => r.seen \in {h.at, k.seen}
  BY Zenon
<1>10. r \in ClientRecord
  <2>1. r.sequence \in Nat \ {0}
    <3>1. k.sequence + 1 \in Nat \ {0} /\ k.sequence \in Nat \ {0}
      BY <1>6
    <3> QED
      BY <1>9, <3>1, Zenon
  <2>2. r.token \in Nat /\ r.seen \in Nat
    BY <1>6, <1>7, <1>8, <1>9, Zenon
  <2>3. r = [sequence |-> r.sequence, token |-> r.token, seen |-> r.seen]
    BY Zenon
  <2> QED
    BY <2>1, <2>2, <2>3, ZenonT(60) DEF ClientRecord
<1>11. r.token < Len(canon) /\ r.seen <= canon[r.token + 1].catalog_transaction_id
  <2>1. CASE Successful(h)
    BY <1>7, <1>8, <1>9, <2>1, Zenon
  <2>2. CASE ~Successful(h)
    BY <1>1, <1>9, <2>2, Zenon DEF ClientOK
  <2> QED
    BY <2>1, <2>2, Zenon
<1>12. Settled(c, r.sequence - 1, canon)
  <2>1. CASE Final(h)
    <3>1. r.sequence - 1 = k.sequence
      BY <1>6, <1>9, <2>1
    <3> QED
      BY <1>4, <1>5, <2>1, <3>1, ZenonT(60) DEF WriteHolds
  <2>2. CASE ~Final(h)
    BY <1>1, <1>9, <2>2, Zenon DEF ClientOK
  <2> QED
    BY <2>1, <2>2, Zenon
<1> QED
  BY <1>10, <1>11, <1>12, Zenon DEF ClientOK, ClientRecord

(* with_read_token: the token covers the data, so it covers all that its      *)
(* client was shown.                                                          *)
LEMMA TokenKeeps == ASSUME ServerInv, NEW n \in Nodes, with_read_token(n) PROVE ServerInv'
<1> DEFINE g == http[n]
           c == g.client
           k == client[c]
           status == IF machine[n].last_applied = 0 THEN "raft_unavailable" ELSE g.status
           h == [client |-> c, at |-> g.at, status |-> status]
           r == [sequence |-> IF Final(h) THEN k.sequence + 1 ELSE k.sequence,
                 token |-> IF Successful(h) THEN machine[n].last_applied ELSE k.token,
                 seen |-> IF Successful(h) /\ h.at > k.seen THEN h.at ELSE k.seen]
<1>1. /\ g.step = "token" /\ Handler(n, Idle) /\ Local
      /\ client' = [client EXCEPT ![c] = r] \/ UNCHANGED client
  BY ZenonT(60) DEF with_read_token, Received
<1>2. g # Idle
  BY <1>1, Busy
<1>3. /\ canon' = canon /\ machine' = machine /\ leader' = leader /\ oldest' = oldest
      /\ pending' = pending /\ UNCHANGED vars
  BY <1>1, Zenon DEF Local, vars
<1>4. CASE UNCHANGED client
  <2>1. \A e \in pending' : CommandOK(e, canon)
    BY <1>3, Zenon DEF ServerInv
  <2> QED
    BY <1>1, <1>3, <1>4, <2>1, HandlerStep, Zenon DEF Handler
<1>5. CASE client' = [client EXCEPT ![c] = r]
  <2>1. c \in Clients
    BY <1>2, HandlerView, Zenon
  <2>2. ClientOK(c, r, canon)
    <3> HIDE DEF r
    <3>1. status \in {g.status, "raft_unavailable"}
      BY Zenon
    <3> HIDE DEF status
    <3> QED
      BY <1>1, <1>2, <3>1, ReceivedOK, Zenon DEF r
  <2> HIDE DEF r, h, status
  <2>3. /\ DOMAIN client' = Clients /\ client'[c] = r
        /\ \A d \in Clients \ {c} : client'[d] = client[d]
    BY <1>5, <2>1, Zenon DEF ServerInv
  <2>4. DOMAIN http' = Nodes /\ http'[n] = Idle /\ \A m \in Nodes \ {n} : http'[m] = http[m]
    BY <1>1, Zenon DEF ServerInv, Handler
  <2>5. \A d \in Clients : ClientOK(d, client'[d], canon')
    BY <1>3, <2>2, <2>3, Zenon DEF ServerInv
  <2>6. OneHandler'
    BY <2>4, ZenonT(60) DEF OneHandler, ServerInv
  <2>7. ASSUME NEW m \in Nodes
        PROVE  http'[m] = Idle \/ HandlerOK(http'[m], client'[http'[m].client], machine'[m], canon')
    <3>1. CASE m = n \/ http[m] = Idle
      BY <2>4, <3>1, Zenon
    <3>2. CASE m # n /\ http[m] # Idle
      <4>1. http[m].client # c /\ http[m].client \in Clients
        BY <1>2, <3>2, HandlerView, Zenon DEF ServerInv, OneHandler
      <4> QED
        BY <1>3, <2>3, <2>4, <3>2, <4>1, ZenonT(60) DEF ServerInv
    <3> QED
      BY <3>1, <3>2, Zenon
  <2>8. IInv'
    BY <1>3, SameIInv, Zenon DEF ServerInv
  <2> QED
    BY <1>3, <2>3, <2>4, <2>5, <2>6, <2>7, <2>8, ZenonT(60) DEF ServerInv
<1> QED
  BY <1>1, <1>4, <1>5, Zenon

-----------------------------------------------------------------------------
(* The catalog grows by a command that is applied, and by nothing else. *)
LEMMA AfterCatalog ==
    ASSUME NEW st, StateOK(st), NEW e \in Command, NEW i \in Nat, st.last_applied + 1 = i,
           NEW x, x = After(st, i, e)
    PROVE  \/ x.catalog = st.catalog
           \/ Accepted(st, e) /\ Judged(st, e).kind = "Applied" /\ x.catalog = Append(st.catalog, e)
<1>1. e.kind # "Blank" /\ e.kind # "Membership"
  BY DEF Command
<1>2. x = apply_command(st, i, e)
  BY <1>1, Zenon DEF After
<1>3. CASE ~Accepted(st, e)
  <2>1. x = Position(st, i)
    BY <1>2, <1>3, Zenon DEF apply_command
  <2> QED
    BY <2>1 DEF Position, StateOK, States
<1>4. CASE Accepted(st, e) /\ Judged(st, e).kind # "Applied"
  <2>1. x = Record(st, i, e)
    BY <1>2, <1>4, Zenon DEF apply_command
  <2> QED
    BY <1>4, <2>1, RecordOK
<1>5. CASE Accepted(st, e) /\ Judged(st, e).kind = "Applied"
  BY <1>5, AcceptedResult
<1> QED
  BY <1>3, <1>4, <1>5, Zenon

(* What one more entry does to the state. *)
LEMMA EntryStep ==
    ASSUME NEW st, StateOK(st), NEW e \in Command, NEW i \in Nat, st.last_applied + 1 = i,
           NEW x, x = After(st, i, e)
    PROVE  /\ StateOK(x) /\ Later(st, x)
           /\ \A c \in Clients :
                /\ st.clients[c].sequence <= x.clients[c].sequence
                /\ \/ x.clients[c] = st.clients[c]
                   \/ x.clients[c].response.kind = "Applied" =>
                        x.clients[c].response.transaction_id <= Len(x.catalog)
<1>1. e \in LogEntries /\ e.client \in Clients /\ e.sequence \in Nat
  BY Zenon DEF LogEntries, Command
<1>2. StateOK(x) /\ x.last_applied = i /\ Prolongs(x, st)
  BY <1>1, AfterOK
<1>3. Later(st, x)
  <2>1. st.last_applied <= x.last_applied
    BY <1>2, StateView
  <2> QED
    BY <1>2, <2>1, ProlongedIsLater, Zenon
<1> DEFINE j == Judged(st, e)
           r == ClientResult(e, j)
<1>4. CASE Accepted(st, e)
  <2>1. /\ \A c \in Clients : x.clients[c] = IF c = e.client THEN r ELSE st.clients[c]
        /\ j.kind = "Applied" => x.catalog = Append(st.catalog, e)
    BY <1>1, <1>4, AfterClients
  <2>2. r.sequence = e.sequence /\ r.response = j
    BY Zenon DEF ClientResult
  <2>3. e.sequence = st.clients[e.client].sequence + 1
    BY <1>4, AcceptedIsNext, Zenon
  <2>4. j.kind = "Applied" => j.transaction_id = Len(st.catalog) + 1
    BY JudgedOK, Zenon
  <2>5. st.catalog \in Seq(Command) /\ \A c \in Clients : st.clients[c].sequence \in Nat
    BY StateView, Zenon
  <2> HIDE DEF r, j
  <2>6. j.kind = "Applied" => j.transaction_id <= Len(x.catalog)
    BY <2>1, <2>4, <2>5
  <2>7. st.clients[e.client].sequence <= r.sequence
    BY <1>1, <2>2, <2>3, <2>5
  <2>8. \A s \in Nat : s <= s
    OBVIOUS
  <2>9. ASSUME NEW c \in Clients
        PROVE  /\ st.clients[c].sequence <= x.clients[c].sequence
               /\ \/ x.clients[c] = st.clients[c]
                  \/ x.clients[c].response.kind = "Applied" =>
                        x.clients[c].response.transaction_id <= Len(x.catalog)
    <3>1. CASE c = e.client
      BY <2>1, <2>2, <2>6, <2>7, <3>1, Zenon
    <3>2. CASE c # e.client
      BY <2>1, <2>5, <2>8, <3>2, Zenon
    <3> QED
      BY <3>1, <3>2, Zenon
  <2> QED
    BY <1>2, <1>3, <2>9, Zenon
<1>5. CASE ~Accepted(st, e)
  <2>1. x.clients = st.clients
    BY <1>1, <1>5, AfterClients
  <2>2. \A c \in Clients : st.clients[c].sequence \in Nat
    BY StateView, Zenon
  <2>3. \A s \in Nat : s <= s
    OBVIOUS
  <2> QED
    BY <1>2, <1>3, <2>1, <2>2, <2>3, Zenon
<1> QED
  BY <1>4, <1>5, Zenon

(* A command under way is applied only to a catalog that has the record. *)
LEMMA AppliedNeedsRecord ==
    ASSUME NEW H, NEW e, CommandOK(e, H), Judged(Newest(H), e).kind = "Applied"
    PROVE  ~Gone(H)
<1>1. /\ e.verdict # "InvalidTransaction" /\ e.verdict # "PreconditionFailed"
      /\ e.tag = Newest(H).catalog_transaction_id
  BY DEF Judged, Rejected
<1>2. e.verdict = "ok"
  BY <1>1 DEF CommandOK, Command, Verdicts
<1> QED
  BY <1>1, <1>2, Zenon DEF CommandOK, Gone

(* A committed command adds the state it leads to at the end of the history,  *)
(* and changes no earlier one.                                                *)
LEMMA CommitView ==
    ASSUME ServerInv, NEW e, CommandOK(e, canon), Agree(e)
    PROVE  /\ IInv' /\ Len(canon') = Len(canon) + 1
           /\ \A i \in 1..Len(canon) : canon'[i] = canon[i]
           /\ Newest(canon') = After(Newest(canon), Len(canon), e)
           /\ canon'[Len(canon) + 1] = Newest(canon')
           /\ e \in Command /\ StateOK(Newest(canon)) /\ Newest(canon).last_applied + 1 = Len(canon)
           /\ Len(canon) \in Nat /\ machine' = machine /\ log' = Append(log, e)
<1>1. e \in Command /\ e \in LogEntries
  BY Zenon DEF CommandOK, LogEntries
<1>2. IInv'
  BY <1>1, AgreeIInv, Zenon DEF ServerInv
<1>3. /\ Len(canon) = Len(log) + 1 /\ Len(log) \in Nat /\ Len(canon) \in Nat
      /\ StateOK(Newest(canon)) /\ Newest(canon).last_applied = Len(log)
  BY HistoryView, Zenon DEF ServerInv
<1> DEFINE x == After(Newest(canon), Len(canon), e)
<1>4. canon' = Append(canon, x) /\ machine' = machine /\ log' = Append(log, e)
  BY <1>3, Zenon DEF Agree, Newest
<1>5. canon \in Seq(States)
  BY Zenon DEF ServerInv, IInv, HistoryOK
<1>6. x \in States
  <2>1. StateOK(x)
    BY <1>1, <1>3, AfterOK
  <2> QED
    BY <2>1, Zenon DEF StateOK
<1> HIDE DEF x
<1>7. /\ Len(canon') = Len(canon) + 1 /\ canon'[Len(canon) + 1] = x
      /\ \A i \in 1..Len(canon) : canon'[i] = canon[i]
  BY <1>4, <1>5, <1>6
<1>8. Newest(canon') = x
  BY <1>7, Zenon DEF Newest
<1> QED
  BY <1>1, <1>2, <1>3, <1>4, <1>7, <1>8, Zenon DEF x

(* The history grows. *)
LEMMA CommitIsLonger ==
    ASSUME ServerInv, NEW e, CommandOK(e, canon), Agree(e)
    PROVE  Longer(canon, canon')
<1> DEFINE st == Newest(canon)
           x == Newest(canon')
<1>1. /\ IInv' /\ Len(canon') = Len(canon) + 1 /\ \A i \in 1..Len(canon) : canon'[i] = canon[i]
      /\ x = After(st, Len(canon), e) /\ Len(canon) \in Nat
      /\ e \in Command /\ StateOK(st) /\ st.last_applied + 1 = Len(canon)
  BY CommitView, Zenon
<1>2. /\ StateOK(x) /\ Later(st, x)
      /\ \A c \in Clients : st.clients[c].sequence <= x.clients[c].sequence
  BY <1>1, EntryStep, Zenon
<1>3. \A c \in Clients : st.clients[c].sequence \in Nat /\ x.clients[c].sequence \in Nat
  BY <1>1, <1>2, StateView, Zenon
<1>4. Gone(canon) => Gone(canon')
  <2> SUFFICES ASSUME Gone(canon) PROVE Gone(canon')
    BY Zenon
  <2>1. Judged(st, e).kind # "Applied"
    BY AppliedNeedsRecord, Zenon
  <2>2. x.catalog = st.catalog
    BY <1>1, <2>1, AfterCatalog, Zenon
  <2>3. x.catalog_transaction_id = st.catalog_transaction_id
    BY <1>1, <1>2, <2>2, StateView, Zenon
  <2> QED
    BY <2>2, <2>3, Zenon DEF Gone
<1>5. Len(canon') \in Nat /\ Len(canon) <= Len(canon')
  BY <1>1
<1> QED
  BY <1>1, <1>2, <1>3, <1>4, <1>5, Zenon DEF Longer

(* After a committed command, a removed record is still the last one of its   *)
(* catalog and no recorded sequence number goes back.                         *)
LEMMA CommitCatalog ==
    ASSUME ServerInv, NEW e, CommandOK(e, canon), Agree(e)
    PROVE  CatalogOK(canon')
<1> DEFINE st == Newest(canon)
           x == Newest(canon')
           L == Len(canon)
<1>1. /\ Len(canon') = L + 1 /\ \A i \in 1..L : canon'[i] = canon[i]
      /\ canon'[L + 1] = x /\ x = After(st, L, e) /\ L \in Nat
      /\ e \in Command /\ StateOK(st) /\ st.last_applied + 1 = L
  BY CommitView, Zenon
<1>2. /\ StateOK(x) /\ Later(st, x)
      /\ \A c \in Clients :
            /\ st.clients[c].sequence <= x.clients[c].sequence
            /\ \/ x.clients[c] = st.clients[c]
               \/ x.clients[c].response.kind = "Applied" =>
                    x.clients[c].response.transaction_id <= Len(x.catalog)
  BY <1>1, EntryStep, Zenon
<1>3. L \in 1..L /\ st = canon[L]
  BY HistoryView, Zenon DEF ServerInv, Newest
<1>4. CatalogOK(canon)
  BY Zenon DEF ServerInv
<1> HIDE DEF x, st, L
<1>5. ASSUME NEW t \in 0..x.catalog_transaction_id, RecordAt(x.catalog, t) = NoRecord
      PROVE  t = x.catalog_transaction_id
  <2>1. /\ st.catalog_transaction_id \in Nat /\ st.catalog_transaction_id = Len(st.catalog)
        /\ x.catalog_transaction_id \in Nat /\ x.catalog_transaction_id = Len(x.catalog)
        /\ st.catalog \in Seq(Command)
    BY <1>1, <1>2, StateView, Zenon
  <2>2. ASSUME t \in 0..st.catalog_transaction_id
        PROVE  t = st.catalog_transaction_id /\ Gone(canon)
    <3>1. RecordAt(st.catalog, t) = NoRecord
      BY <1>1, <1>2, <1>5, <2>2, RecordKept, Zenon
    <3>2. t = st.catalog_transaction_id
      BY <1>4, <2>2, <3>1, Zenon DEF CatalogOK, st
    <3> QED
      BY <3>1, <3>2, Zenon DEF Gone, st
  <2>3. CASE x.catalog = st.catalog
    BY <1>5, <2>1, <2>2, <2>3, Zenon
  <2>4. CASE Judged(st, e).kind = "Applied" /\ x.catalog = Append(st.catalog, e)
    <3>1. ~Gone(canon)
      BY <2>4, AppliedNeedsRecord, Zenon DEF st
    <3>2. t \notin 0..st.catalog_transaction_id
      BY <2>2, <3>1, Zenon
    <3>3. x.catalog_transaction_id = st.catalog_transaction_id + 1
      BY <1>1, <2>1, <2>4
    <3> QED
      BY <1>5, <2>1, <3>2, <3>3
  <2> QED
    BY <1>1, <2>3, <2>4, AfterCatalog, Zenon
<1>6. ASSUME NEW i \in 1..Len(canon'), NEW j \in 1..Len(canon'), NEW c \in Clients, i <= j
      PROVE  canon'[i].clients[c].sequence <= canon'[j].clients[c].sequence
  <2>1. CASE j \in 1..L
    <3>1. i \in 1..L
      BY <1>1, <1>6, <2>1
    <3> QED
      BY <1>1, <1>4, <1>6, <2>1, <3>1, Zenon DEF CatalogOK, L
  <2>2. CASE i \in 1..L /\ j = L + 1
    <3>1. i <= L
      BY <1>1, <2>2
    <3>2. canon[i].clients[c].sequence <= st.clients[c].sequence
      BY <1>3, <1>4, <2>2, <3>1, Zenon DEF CatalogOK, L
    <3>3. /\ canon[i].clients[c].sequence \in Nat /\ st.clients[c].sequence \in Nat
          /\ x.clients[c].sequence \in Nat
      BY <1>1, <1>2, <2>2, HistoryView, StateView, ZenonT(60) DEF ServerInv, L
    <3>4. \A p, q, r \in Nat : p <= q /\ q <= r => p <= r
      OBVIOUS
    <3> QED
      BY <1>1, <1>2, <2>2, <3>2, <3>3, <3>4, ZenonT(60)
  <2>3. CASE i = L + 1 /\ j = L + 1
    <3>1. x.clients[c].sequence \in Nat
      BY <1>2, StateView, Zenon
    <3>2. \A p \in Nat : p <= p
      OBVIOUS
    <3> QED
      BY <1>1, <2>3, <3>1, <3>2, Zenon
  <2> QED
    <3>1. j \in 1..L \/ (i \in 1..L /\ j = L + 1) \/ (i = L + 1 /\ j = L + 1)
      BY <1>1, <1>6
    <3> QED
      BY <2>1, <2>2, <2>3, <3>1, Zenon
<1>7. ASSUME NEW i \in 1..Len(canon'), NEW c \in Clients, canon'[i].clients[c].sequence > 0,
             canon'[i].clients[c].response.kind = "Applied"
      PROVE  canon'[i].clients[c].response.transaction_id <= Len(canon'[i].catalog)
  <2>1. CASE i \in 1..L
    BY <1>1, <1>4, <1>7, <2>1, Zenon DEF CatalogOK, L
  <2>2. CASE i = L + 1 /\ x.clients[c] = st.clients[c]
    <3> DEFINE t == st.clients[c].response.transaction_id
    <3>1. st.clients[c].sequence > 0 /\ st.clients[c].response.kind = "Applied"
      BY <1>1, <1>7, <2>2, Zenon
    <3>2. t <= Len(st.catalog)
      BY <1>3, <1>4, <3>1, Zenon DEF CatalogOK, L
    <3>3. t \in 1..Len(st.catalog)
      BY <1>3, <1>4, <3>1, ResultIsExecuted, ZenonT(60) DEF ServerInv, L, Executed
    <3>4. Len(st.catalog) \in Nat /\ Len(x.catalog) \in Nat /\ Len(st.catalog) <= Len(x.catalog)
      BY <1>2, Zenon DEF Later, Prolongs
    <3> HIDE DEF t
    <3>5. t <= Len(x.catalog)
      BY <3>2, <3>3, <3>4
    <3> QED
      BY <1>1, <2>2, <3>5, Zenon DEF t
  <2>3. CASE i = L + 1 /\ x.clients[c] # st.clients[c]
    BY <1>1, <1>2, <1>7, <2>3, Zenon
  <2> QED
    <3>1. i \in 1..L \/ i = L + 1
      BY <1>1
    <3> QED
      BY <2>1, <2>2, <2>3, <3>1, Zenon
<1> QED
  BY <1>5, <1>6, <1>7, Zenon DEF CatalogOK, x

(* A step of OpenRaft or of a replica, under the handlers and clients. *)
LEMMA GrowthStep ==
    ASSUME ServerInv, IInv', Longer(canon, canon'), CatalogOK(canon'),
           \A n \in Nodes : Later(machine[n], machine'[n]),
           UNCHANGED <<http, client>>, pending' \subseteq pending,
           leader' \in Nodes, DOMAIN oldest' = Nodes,
           \A n \in Nodes : oldest'[n] \in 0..machine'[n].catalog_transaction_id
    PROVE  ServerInv'
<1>1. \A e \in pending' : CommandOK(e, canon')
  <2>1. StateOK(Newest(canon))
    BY HistoryView, Zenon DEF ServerInv
  <2> QED
    BY <2>1, CommandKept, Zenon DEF ServerInv
<1>2. \A c \in Clients : ClientOK(c, client'[c], canon')
  BY ClientKept, Zenon DEF ServerInv
<1>3. ASSUME NEW n \in Nodes
      PROVE  http'[n] = Idle \/ HandlerOK(http'[n], client'[http'[n].client], machine'[n], canon')
  <2>1. CASE http[n] = Idle
    BY <2>1, Zenon
  <2>2. CASE http[n] # Idle
    <3> DEFINE h == http[n]
               k == client[h.client]
    <3>1. HandlerOK(h, k, machine[n], canon) /\ k \in ClientRecord
      BY <2>2, HandlerView, Zenon
    <3>2. Later(machine[n], machine'[n]) /\ http'[n] = h /\ client'[h.client] = k
      BY Zenon
    <3> HIDE DEF h, k
    <3>3. HandlerOK(h, k, machine'[n], canon')
      BY <3>1, <3>2, HandlerKept, Zenon
    <3> QED
      BY <3>2, <3>3, Zenon
  <2> QED
    BY <2>1, <2>2, Zenon
<1>4. OneHandler'
  BY Zenon DEF OneHandler, ServerInv
<1> QED
  BY <1>1, <1>2, <1>3, <1>4, ZenonT(60) DEF ServerInv

(* ... while the replicated state stays as it is. *)
LEMMA IdleStep ==
    ASSUME ServerInv, UNCHANGED <<vars, http, client>>, pending' \subseteq pending,
           leader' \in Nodes, DOMAIN oldest' = Nodes,
           \A n \in Nodes : oldest'[n] \in 0..machine[n].catalog_transaction_id
    PROVE  ServerInv'
<1>1. canon' = canon /\ machine' = machine
  BY Zenon DEF vars
<1>2. IInv' /\ Longer(canon, canon') /\ CatalogOK(canon')
  BY <1>1, SameIInv, LongerSelf, ZenonT(60) DEF ServerInv
<1>3. \A n \in Nodes : Later(machine[n], machine'[n])
  BY <1>1, NodeView, LaterSelf, ZenonT(60) DEF ServerInv
<1> QED
  BY <1>1, <1>2, <1>3, GrowthStep, Zenon

(* A pending command commits. *)
LEMMA CommitKeeps == ASSUME ServerInv, CommitPending PROVE ServerInv'
<1> PICK e \in pending :
        Agree(e) /\ pending' = pending \ {e} /\ UNCHANGED <<leader, oldest, http, client>>
  BY Zenon DEF CommitPending
<1>1. CommandOK(e, canon)
  BY Zenon DEF ServerInv
<1>2. IInv' /\ machine' = machine
  BY <1>1, CommitView, Zenon
<1>3. Longer(canon, canon') /\ CatalogOK(canon')
  BY <1>1, CommitIsLonger, CommitCatalog, Zenon
<1>4. \A n \in Nodes : Later(machine[n], machine'[n])
  BY <1>2, NodeView, LaterSelf, ZenonT(60) DEF ServerInv
<1>5. /\ leader' \in Nodes /\ DOMAIN oldest' = Nodes /\ pending' \subseteq pending
      /\ \A n \in Nodes : oldest'[n] \in 0..machine'[n].catalog_transaction_id
  BY <1>2, Zenon DEF ServerInv
<1> QED
  BY <1>2, <1>3, <1>4, <1>5, GrowthStep, Zenon

(* A node applies its next entry. *)
LEMMA ApplyKeeps == ASSUME ServerInv, NEW n \in Nodes, ApplyOn(n) PROVE ServerInv'
<1> DEFINE st == machine[n]
           i == st.last_applied + 1
           x == After(st, i, log[i])
<1>1. /\ i <= Len(log) /\ machine' = [machine EXCEPT ![n] = x] /\ canon' = canon
      /\ UNCHANGED svars
  BY Zenon DEF ApplyOn, Apply
<1>2. IInv'
  BY ApplyIInv, Zenon DEF ServerInv, ApplyOn
<1>3. Longer(canon, canon') /\ CatalogOK(canon')
  BY <1>1, LongerSelf, Zenon DEF ServerInv
<1>4. StateOK(st) /\ st.last_applied \in Nat /\ i \in Nat /\ i \in 1..Len(log)
  <2>1. StateOK(st) /\ st.last_applied \in Nat /\ Len(log) \in Nat
    BY NodeView, StateView, HistoryView, Zenon DEF ServerInv
  <2>2. i \in Nat /\ i \in 1..Len(log)
    BY <1>1, <2>1
  <2> QED
    BY <2>1, <2>2, Zenon
<1>5. log[i] \in LogEntries
  <2>1. log \in Seq(LogEntries)
    BY ZenonT(60) DEF ServerInv, IInv, HistoryOK
  <2> HIDE DEF i
  <2> QED
    BY <1>4, <2>1
<1>6. StateOK(x) /\ x.last_applied = i /\ Prolongs(x, st)
  BY <1>4, <1>5, AfterOK
<1>7. Later(st, x)
  <2>1. st.last_applied <= x.last_applied
    BY <1>4, <1>6
  <2> QED
    BY <1>4, <1>6, <2>1, ProlongedIsLater, ZenonT(60)
<1> HIDE DEF x
<1>8. machine'[n] = x /\ \A m \in Nodes \ {n} : machine'[m] = machine[m]
  BY <1>1, Zenon DEF ServerInv, IInv, NodesOK
<1>9. \A m \in Nodes : Later(machine[m], machine'[m])
  BY <1>7, <1>8, NodeView, LaterSelf, ZenonT(60) DEF ServerInv
<1>10. /\ leader' = leader /\ oldest' = oldest /\ pending' = pending
       /\ UNCHANGED <<http, client>>
  BY <1>1, Zenon DEF svars
<1>11. ASSUME NEW m \in Nodes
       PROVE  oldest'[m] \in 0..machine'[m].catalog_transaction_id
  <2>1. oldest[m] \in 0..machine[m].catalog_transaction_id
    BY Zenon DEF ServerInv
  <2>2. Later(machine[m], machine'[m])
    BY <1>9, Zenon
  <2>3. oldest[m] \in 0..machine'[m].catalog_transaction_id
    BY <2>1, <2>2 DEF Later
  <2> QED
    BY <1>10, <2>3, Zenon
<1>12. leader' \in Nodes /\ DOMAIN oldest' = Nodes /\ pending' \subseteq pending
  BY <1>10, Zenon DEF ServerInv
<1> QED
  BY <1>2, <1>3, <1>9, <1>10, <1>11, <1>12, GrowthStep, Zenon

(* Lost commands, elections and pruned versions. *)
LEMMA EnvironmentKeeps ==
    ASSUME ServerInv, \/ LosePending \/ UNCHANGED allvars
                      \/ \E n \in Nodes : Elect(n) \/ Prune(n)
    PROVE  ServerInv'
<1>1. CASE LosePending
  BY <1>1, IdleStep, ZenonT(60) DEF LosePending, ServerInv
<1>2. CASE UNCHANGED allvars
  BY <1>2, IdleStep, ZenonT(60) DEF allvars, svars, ServerInv
<1>3. ASSUME NEW n \in Nodes, Elect(n) PROVE ServerInv'
  BY <1>3, IdleStep, ZenonT(60) DEF Elect, ServerInv
<1>4. ASSUME NEW n \in Nodes, Prune(n) PROVE ServerInv'
  <2>1. machine[n].catalog_transaction_id \in Nat
    BY NodeView, StateView, Zenon DEF ServerInv
  <2>2. machine[n].catalog_transaction_id \in 0..machine[n].catalog_transaction_id
    BY <2>1
  <2>3. /\ oldest' = [oldest EXCEPT ![n] = machine[n].catalog_transaction_id]
        /\ UNCHANGED <<vars, leader, pending, http, client>>
    BY <1>4, Zenon DEF Prune
  <2>4. DOMAIN oldest' = Nodes /\ \A m \in Nodes : oldest'[m] \in 0..machine[m].catalog_transaction_id
    BY <2>2, <2>3, ZenonT(60) DEF ServerInv
  <2> QED
    BY <2>3, <2>4, IdleStep, ZenonT(60) DEF ServerInv
<1> QED
  BY <1>1, <1>2, <1>3, <1>4, Zenon

(* A started cluster satisfies the invariant. *)
LEMMA ServerStarts == ServerInit => ServerInv
<1> SUFFICES ASSUME ServerInit PROVE ServerInv
  BY Zenon
<1>1. IInv
  BY InitIInv, Zenon DEF ServerInit
<1>2. canon = <<Genesis>> /\ Len(canon) = 1 /\ canon[1] = Genesis /\ Newest(canon) = Genesis
  BY DEF ServerInit, Init, Newest
<1>3. /\ Genesis.catalog_transaction_id = 0 /\ Genesis.catalog = <<>>
      /\ \A c \in Clients : Genesis.clients[c].sequence = 0
  BY Zenon DEF Genesis, NoResult
<1>4. CatalogOK(canon)
  <2>1. \A t \in 0..0 : t = 0
    OBVIOUS
  <2>2. \A i \in 1..1 : i = 1
    OBVIOUS
  <2>3. 0 <= 0 /\ ~(0 > 0)
    OBVIOUS
  <2>4. \A t \in 0..Newest(canon).catalog_transaction_id : t = Newest(canon).catalog_transaction_id
    BY <1>2, <1>3, <2>1, Zenon
  <2>5. \A i \in 1..Len(canon), c \in Clients : canon[i].clients[c].sequence = 0
    BY <1>2, <1>3, <2>2, ZenonT(60)
  <2> QED
    BY <2>3, <2>4, <2>5, Zenon DEF CatalogOK
<1>5. ASSUME NEW c \in Clients PROVE ClientOK(c, client[c], canon)
  <2>1. client[c] = [sequence |-> 1, token |-> 0, seen |-> 0]
    BY DEF ServerInit, NoToken
  <2>2. Settled(c, 0, canon)
    BY <1>2, <1>3, <2>1 DEF Settled
  <2>3. client[c].sequence = 1 /\ client[c].token = 0 /\ client[c].seen = 0
    BY <2>1
  <2>4. client[c] \in [sequence : Nat \ {0}, token : Nat, seen : Nat]
    BY <2>1
  <2>5. 1 - 1 = 0 /\ 0 + 1 = 1 /\ 0 < 1 /\ 0 <= 0
    OBVIOUS
  <2> QED
    BY <1>2, <1>3, <2>2, <2>3, <2>4, <2>5, ZenonT(60) DEF ClientOK
<1>6. \A n \in Nodes : machine[n].catalog_transaction_id = 0 /\ oldest[n] = 0 /\ http[n] = Idle
  BY <1>3, Zenon DEF ServerInit, Init
<1>7. OneHandler /\ DOMAIN http = Nodes /\ DOMAIN oldest = Nodes /\ DOMAIN client = Clients
  BY <1>6, Zenon DEF ServerInit, OneHandler
<1>8. 0 \in 0..0
  OBVIOUS
<1> QED
  BY <1>1, <1>4, <1>5, <1>6, <1>7, <1>8, ZenonT(60) DEF ServerInv, ServerInit

(* Every step of a handler keeps the invariant. *)
LEMMA ServeKeeps == ASSUME ServerInv, NEW n \in Nodes, Serve(n) PROVE ServerInv'
BY BarrierKeeps, ResultKeeps, ProposeKeeps, WriteKeeps, TimeoutKeeps, SnapshotKeeps, PrepareKeeps,
   ReadKeeps, TokenKeeps, ZenonT(60) DEF Serve

(* Every step keeps the invariant. *)
LEMMA ServerKeeps == ASSUME ServerInv, [ServerNext]_allvars PROVE ServerInv'
<1>1. ASSUME NEW n \in Nodes,
             \/ ApplyOn(n) \/ Serve(n) \/ \E c \in Clients : open_table(n, c)
             \/ \E c \in Readers : raft_read_response(n, c)
      PROVE  ServerInv'
  <2>1. ASSUME NEW c \in Readers, raft_read_response(n, c) PROVE ServerInv'
    BY <2>1, ServerAssumption, ReadArrives, Zenon
  <2> QED
    BY <1>1, <2>1, ApplyKeeps, ServeKeeps, OpenKeeps, Zenon
<1> QED
  BY <1>1, CommitKeeps, EnvironmentKeeps, Zenon DEF ServerNext

-----------------------------------------------------------------------------
(* The server's invariant is an invariant: RaftApply's inductive invariant, so  *)
(* agreement and exactly-once execution too, and what tokens, handlers and     *)
(* commands under way promise.                                                 *)
THEOREM ServerInvariance == ServerSpec => []ServerInv
<1>1. ServerInv /\ [ServerNext]_allvars => ServerInv'
  BY ServerKeeps, Zenon
<1> QED
  BY <1>1, ServerStarts, PTL DEF ServerSpec

(* A read without a token shows everything any client had been shown when the  *)
(* read arrived (linearizable_read, prepare_read).                             *)
THEOREM ReadsAreLinearizable == ServerSpec => []LinearizableReads
<1>1. ServerInv => LinearizableReads
  <2> SUFFICES ASSUME ServerInv, NEW n \in Nodes, Responding(n, "read"), http[n].token = NoToken,
                      NEW t \in http[n].floor
               PROVE  http[n].at >= t
    BY Zenon DEF LinearizableReads
  <2>1. http[n] # Idle
    BY Busy DEF Responding
  <2>2. ReadHolds(http[n], client[http[n].client], machine[n])
    BY <2>1, HandlerView, Zenon DEF HandlerOK
  <2> QED
    BY <2>2, Zenon DEF ReadHolds, Responding
<1> QED
  BY <1>1, ServerInvariance, PTL

(* A client never reads behind what it was shown before, by reads or by its own *)
(* writes, on any node (prepare_read, with_read_token).                        *)
THEOREM SessionsAreMonotonic == ServerSpec => []SessionMonotonic
<1>1. ServerInv => SessionMonotonic
  <2> SUFFICES ASSUME ServerInv, NEW n \in Nodes, Responding(n, "read")
               PROVE  http[n].at >= client[http[n].client].seen
    BY Zenon DEF SessionMonotonic
  <2>1. http[n] # Idle
    BY Busy DEF Responding
  <2>2. /\ ReadHolds(http[n], client[http[n].client], machine[n])
        /\ client[http[n].client] \in ClientRecord
    BY <2>1, HandlerView, Zenon DEF HandlerOK
  <2>3. /\ http[n].at \in Nat /\ client[http[n].client].seen \in Nat
        /\ client[http[n].client].seen <= http[n].at
    BY <2>2, Zenon DEF ReadHolds, Responding, ClientRecord
  <2> QED
    BY <2>3
<1> QED
  BY <1>1, ServerInvariance, PTL

(* An answer that a request was applied names the transaction that executed    *)
(* exactly this request, and a request a client has gone past has a result or  *)
(* can have no effect any more (client_result, client_write, RPC_TIMEOUT).     *)
THEOREM AnswersAreFinal == ServerSpec => []AnswersHold
<1>1. ServerInv => AnswersHold
  <2> SUFFICES ASSUME ServerInv PROVE AnswersHold
    BY Zenon
  <2> DEFINE top == Newest(canon)
  <2>1. Top = top /\ StateOK(top)
    BY HistoryView, Zenon DEF ServerInv
  <2>2. ASSUME NEW n \in Nodes PROVE oldest[n] <= machine[n].catalog_transaction_id
    <3>1. oldest[n] \in 0..machine[n].catalog_transaction_id
      BY Zenon DEF ServerInv
    <3> QED
      BY <3>1
  <2>3. ASSUME NEW n \in Nodes, Responding(n, "applied")
        PROVE  /\ Top.catalog[http[n].at].client = http[n].client
               /\ Top.catalog[http[n].at].sequence = client[http[n].client].sequence
    <3>1. http[n] # Idle
      BY <2>3, Busy DEF Responding
    <3>2. WriteHolds(http[n], client[http[n].client], machine[n], canon)
      BY <3>1, HandlerView, Zenon DEF HandlerOK
    <3>3. Executed(http[n].client, client[http[n].client].sequence, http[n].at, machine[n])
      BY <2>3, <3>2, ZenonT(60) DEF WriteHolds, Responding
    <3>4. Executed(http[n].client, client[http[n].client].sequence, http[n].at, top)
      <4>1. Later(machine[n], top)
        BY NodeBehind, Zenon DEF ServerInv
      <4> HIDE DEF top
      <4> QED
        BY <3>3, <4>1, ExecutedKept, ZenonT(60)
    <3> QED
      BY <2>1, <3>4, Zenon DEF Executed
  <2>4. ASSUME NEW e \in pending, e.sequence < client[e.client].sequence,
               Accepted(Top, e), Judged(Top, e).kind = "Applied"
        PROVE  FALSE
    <3>1. CommandOK(e, canon) /\ e \in Command
      BY Zenon DEF ServerInv, CommandOK
    <3>2. e.client \in Clients /\ e.sequence \in Nat
      BY <3>1, Zenon DEF Command
    <3>3. ~Gone(canon)
      BY <2>1, <2>4, <3>1, AppliedNeedsRecord, Zenon
    <3>4. e.sequence = top.clients[e.client].sequence + 1 /\ top.clients[e.client].sequence \in Nat
      BY <2>1, <2>4, <3>1, <3>2, AcceptedIsNext, StateView, ZenonT(60)
    <3>5. /\ client[e.client].sequence - 1 <= top.clients[e.client].sequence
          /\ client[e.client].sequence \in Nat
      <4>1. /\ client[e.client] \in ClientRecord
            /\ Settled(e.client, client[e.client].sequence - 1, canon)
        BY <3>2, Zenon DEF ServerInv, ClientOK, ClientRecord
      <4> QED
        BY <3>3, <4>1, ClientNumbers, Zenon DEF Settled
    <3> HIDE DEF top
    <3> QED
      BY <2>4, <3>2, <3>4, <3>5
  <2>5. pending \subseteq Command
    BY Zenon DEF ServerInv, CommandOK
  <2> QED
    BY <2>2, <2>3, <2>4, <2>5, Zenon DEF AnswersHold
<1> QED
  BY <1>1, ServerInvariance, PTL
=============================================================================
