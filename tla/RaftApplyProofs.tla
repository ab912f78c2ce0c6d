--------------------------- MODULE RaftApplyProofs ---------------------------
(* Proofs that the replicated state machine of RaftApply executes every        *)
(* command at most once and the same way on every node, for any set of nodes,  *)
(* clients and commands and any length of the log.                             *)
EXTENDS RaftApply, SequenceTheorems, TLAPS

(* The order of the natural numbers. *)
LEMMA Transitive == \A a, b, c \in Nat : a <= b /\ b <= c => a <= c
OBVIOUS

LEMMA BelowNext == \A a, b, c \in Nat : a <= b /\ c = b + 1 => a < c
OBVIOUS

LEMMA Ranked == \A a, b \in Nat : a <= b \/ a = b + 1 \/ a > b + 1
OBVIOUS

LEMMA NextIsNew == \A a, b \in Nat : a = b + 1 => a # b /\ ~(a < b)
OBVIOUS

LEMMA FarAhead == \A a, b \in Nat : a > b + 1 => ~(a - 1 <= b)
OBVIOUS

LEMMA Successors == \A a, b \in Nat : a <= b => a + 1 <= b + 1
OBVIOUS

LEMMA Counted == \A b \in Nat : \A a \in 1..b : a > 0
OBVIOUS

(* The numbers and the catalog of a state. *)
LEMMA StateTyped ==
    ASSUME NEW st \in States
    PROVE  /\ st.last_applied \in Nat /\ st.last_membership \in Nat
           /\ st.catalog_transaction_id \in Nat
           /\ st.catalog \in Seq(Command) /\ Len(st.catalog) \in Nat
           /\ \A c \in Clients : st.clients[c].sequence \in Nat
<1>1. /\ st.last_applied \in Nat /\ st.last_membership \in Nat
      /\ st.catalog_transaction_id \in Nat /\ st.catalog \in Seq(Command)
      /\ st.clients \in [Clients -> Results \cup {NoResult}]
  BY Zenon DEF States
<1>2. Len(st.catalog) \in Nat
  BY <1>1, LenProperties, Zenon
<1>3. \A c \in Clients : st.clients[c] \in Results \cup {NoResult}
  BY <1>1, Zenon
<1>4. \A y \in Results \cup {NoResult} : y.sequence \in Nat
  BY DEF Results, NoResult
<1> QED
  BY <1>1, <1>2, <1>3, <1>4, Zenon

(* An accepted command carries the successor of the client's recorded number:  *)
(* the recorded result of an equal number is returned (sequence_decision).     *)
LEMMA AcceptedIsNext ==
    ASSUME NEW st, StateOK(st), NEW e \in Command, Accepted(st, e)
    PROVE  e.sequence > 0 /\ e.sequence = st.clients[e.client].sequence + 1
<1> DEFINE p == st.clients[e.client]
<1>1. e \in Command
  BY RaftApplyAssumption, Zenon
<1>2. e.client \in Clients /\ e.sequence \in Nat /\ e.sequence > 0
  BY <1>1, Zenon DEF Command, Accepted
<1>3. p \in Results \cup {NoResult}
  BY <1>2, Zenon DEF StateOK, States
<1>4. p.sequence \in Nat
  BY <1>3 DEF Results, NoResult
<1>5. CASE e.sequence = p.sequence
  <2>1. p \in Results
    BY <1>2, <1>5, Zenon DEF StateOK
  <2>2. p.response.kind # "Accept"
    BY <2>1, Zenon DEF Results, Responses
  <2>3. sequence_decision(st, e) \in {p.response, Rejected("ClientSequenceConflict")}
    BY <1>5, Zenon DEF sequence_decision
  <2>4. sequence_decision(st, e).kind # "Accept"
    BY <2>2, <2>3 DEF Rejected
  <2> QED
    BY <2>4 DEF Accepted, Accept
<1>6. CASE e.sequence # p.sequence /\ e.sequence # p.sequence + 1
  <2>1. sequence_decision(st, e) \in {Rejected("ClientSequenceTooOld"), Rejected("ClientSequenceGap")}
    BY <1>6, Zenon DEF sequence_decision
  <2>2. sequence_decision(st, e).kind = "Rejected"
    BY <2>1 DEF Rejected
  <2> QED
    BY <2>2 DEF Accepted, Accept
<1> QED
  BY <1>2, <1>4, <1>5, <1>6, Zenon

(* The answer to an accepted command is a response, never a sequence error.    *)
LEMMA JudgedOK ==
    ASSUME NEW st, StateOK(st), NEW e \in Command
    PROVE  /\ Judged(st, e) \in Responses
           /\ Judged(st, e).reason \notin SequenceErrors
           /\ Judged(st, e).kind = "Applied" =>
                Judged(st, e).transaction_id = Len(st.catalog) + 1
<1>1. st.catalog_transaction_id \in Nat /\ st.catalog_transaction_id = Len(st.catalog)
  BY Zenon DEF StateOK, States
<1>2. Judged(st, e) \in {Rejected("InvalidTransaction"), Rejected("CatalogChanged"),
                         Rejected("PreconditionFailed"), Applied(st.catalog_transaction_id + 1)}
  BY Zenon DEF Judged
<1>3. CASE Judged(st, e) = Applied(st.catalog_transaction_id + 1)
  BY <1>1, <1>3 DEF Applied, Responses, Reasons, SequenceErrors
<1>4. ASSUME NEW r \in {"InvalidTransaction", "CatalogChanged", "PreconditionFailed"},
             Judged(st, e) = Rejected(r)
      PROVE  /\ Judged(st, e) \in Responses
             /\ Judged(st, e).reason \notin SequenceErrors
             /\ Judged(st, e).kind # "Applied"
  BY <1>4 DEF Rejected, Responses, Reasons, SequenceErrors
<1> QED
  BY <1>2, <1>3, <1>4, Zenon

(* The result recorded for a command is well formed.                           *)
LEMMA ResultOK ==
    ASSUME NEW st, StateOK(st), NEW e \in Command
    PROVE  ClientResult(e, Judged(st, e)) \in Results
BY JudgedOK, RaftApplyAssumption, Zenon DEF ClientResult, Results, Command

(* Recording a result keeps a state well formed and leaves its catalog alone.  *)
LEMMA RecordOK ==
    ASSUME NEW st, StateOK(st), NEW e \in Command, Accepted(st, e),
           NEW i \in Nat, st.last_applied + 1 = i
    PROVE  LET x == Record(st, i, e)
               r == ClientResult(e, Judged(st, e))
           IN  /\ StateOK(x)
               /\ x.last_applied = i
               /\ x.catalog = st.catalog
               /\ \A c \in Clients : x.clients[c] = IF c = e.client THEN r ELSE st.clients[c]
<1> DEFINE x == Record(st, i, e)
<1>0. st \in States
  BY Zenon DEF StateOK
<1> DEFINE r == ClientResult(e, Judged(st, e))
<1>1. r \in Results
  BY ResultOK, Zenon
<1>2. e.client \in Clients /\ e.sequence \in Nat
  BY RaftApplyAssumption, Zenon DEF Command
<1>3. r.client = e.client /\ r.sequence = e.sequence
  BY Zenon DEF ClientResult
<1>4. e.sequence = st.clients[e.client].sequence + 1
  BY AcceptedIsNext, Zenon
<1>5. x = [st EXCEPT !.last_applied = i, !.clients = [st.clients EXCEPT ![e.client] = r]]
  BY <1>0, Zenon DEF Record, States
<1> HIDE DEF r
<1>6. x \in States
  <2>1. [st.clients EXCEPT ![e.client] = r] \in [Clients -> Results \cup {NoResult}]
    BY <1>0, <1>1, Zenon DEF States
  <2> QED
    BY <1>0, <1>5, <2>1, Zenon DEF States
<1>7. x.catalog = st.catalog /\ x.last_applied = i /\ x.last_membership = st.last_membership
      /\ x.catalog_transaction_id = st.catalog_transaction_id
  BY <1>0, <1>5, Zenon DEF States
<1>8. \A c \in Clients : x.clients[c] = IF c = e.client THEN r ELSE st.clients[c]
  BY <1>0, <1>5 DEF States
<1>9. \A c \in Clients : st.clients[c].sequence \in Nat
  BY <1>0 DEF States, Results, NoResult
<1>10. \A k \in 1..Len(st.catalog) : st.catalog[k].client \in Clients /\ st.catalog[k].sequence \in Nat
  <2>1. \A k \in 1..Len(st.catalog) : st.catalog[k] \in Command
    BY <1>0, RaftApplyAssumption DEF States
  <2> QED
    BY <2>1, Zenon DEF Command
<1>11. \A c \in Clients : st.clients[c].sequence <= x.clients[c].sequence
  BY <1>3, <1>4, <1>8, <1>9, <1>2
<1>12. \A c \in Clients : x.clients[c].sequence \in Nat
  BY <1>2, <1>3, <1>8, <1>9, Zenon
<1>13. \A k \in 1..Len(x.catalog) : x.catalog[k].sequence <= x.clients[x.catalog[k].client].sequence
  <2> TAKE k \in 1..Len(x.catalog)
  <2> DEFINE d == st.catalog[k].client
  <2>1. k \in 1..Len(st.catalog) /\ x.catalog[k] = st.catalog[k]
    BY <1>7, Zenon
  <2>2. st.catalog[k].sequence <= st.clients[d].sequence
    BY <2>1, Zenon DEF StateOK
  <2>3. d \in Clients /\ st.catalog[k].sequence \in Nat
    BY <1>10, <2>1, Zenon
  <2>4. st.clients[d].sequence <= x.clients[d].sequence
    BY <1>11, <2>3, Zenon
  <2>5. st.clients[d].sequence \in Nat /\ x.clients[d].sequence \in Nat
    BY <1>9, <1>12, <2>3, Zenon
  <2> QED
    BY <2>1, <2>2, <2>3, <2>4, <2>5, Transitive, Zenon
<1>14. \A c \in Clients : x.clients[c].sequence > 0 => x.clients[c] \in Results /\ x.clients[c].client = c
  BY <1>1, <1>3, <1>8, Zenon DEF StateOK
<1>15. st.last_membership \in Nat /\ st.last_applied \in Nat
  BY <1>0, Zenon DEF States
<1>16. StateOK(x)
  <2>1. x.catalog_transaction_id = Len(x.catalog) /\ x.last_membership <= x.last_applied
    BY <1>7, <1>15 DEF StateOK
  <2>2. \A k, l \in 1..Len(x.catalog) :
            k < l /\ x.catalog[k].client = x.catalog[l].client
            => x.catalog[k].sequence < x.catalog[l].sequence
    BY <1>7 DEF StateOK
  <2> QED
    BY <1>6, <1>13, <1>14, <2>1, <2>2, Zenon DEF StateOK
<1> QED
  BY <1>7, <1>8, <1>16, Zenon DEF r

(* Committing a command adds it to the catalog behind the client's earlier     *)
(* ones and records its result in the same step.                               *)
LEMMA CommitOK ==
    ASSUME NEW st, StateOK(st), NEW e \in Command, Accepted(st, e),
           NEW i \in Nat, st.last_applied + 1 = i
    PROVE  LET x == Commit(st, i, e)
               r == ClientResult(e, Judged(st, e))
           IN  /\ StateOK(x)
               /\ x.last_applied = i
               /\ x.catalog = Append(st.catalog, e)
               /\ Prolongs(x, st)
               /\ \A c \in Clients : x.clients[c] = IF c = e.client THEN r ELSE st.clients[c]
<1> DEFINE y == Record(st, i, e)
           x == Commit(st, i, e)
           r == ClientResult(e, Judged(st, e))
<1>1. StateOK(y) /\ y.last_applied = i /\ y.catalog = st.catalog
      /\ \A c \in Clients : y.clients[c] = IF c = e.client THEN r ELSE st.clients[c]
  BY RecordOK
<1>2. y \in States /\ st \in States
  BY <1>1, Zenon DEF StateOK
<1>3. x = [y EXCEPT !.catalog_transaction_id = y.catalog_transaction_id + 1,
                    !.catalog = Append(y.catalog, e)]
  BY <1>2, Zenon DEF Commit, States
<1>4. r.sequence = e.sequence
  BY Zenon DEF ClientResult
<1> HIDE DEF y, x, r
<1>5. /\ x.catalog = Append(st.catalog, e) /\ x.clients = y.clients
      /\ x.last_applied = i /\ x.last_membership = y.last_membership
      /\ x.catalog_transaction_id = y.catalog_transaction_id + 1
  BY <1>1, <1>2, <1>3, Zenon DEF States
<1>6. /\ st.catalog \in Seq(Command) /\ Len(st.catalog) \in Nat
      /\ x.catalog \in Seq(Command) /\ Len(x.catalog) = Len(st.catalog) + 1
      /\ x.catalog[Len(st.catalog) + 1] = e
      /\ \A k \in 1..Len(st.catalog) : x.catalog[k] = st.catalog[k]
  <2>1. st.catalog \in Seq(Command) /\ x.catalog = Append(st.catalog, e)
    BY <1>2, <1>5, StateTyped, Zenon
  <2> QED
    BY <2>1
<1>7. x \in States
  <2>1. y.catalog_transaction_id + 1 \in Nat /\ Append(y.catalog, e) \in Seq(Command)
    BY <1>2 DEF States
  <2> QED
    BY <1>2, <1>3, <2>1, Zenon DEF States
<1>8. \A k \in 1..Len(x.catalog) : x.catalog[k].client \in Clients /\ x.catalog[k].sequence \in Nat
  <2>1. \A k \in 1..Len(x.catalog) : x.catalog[k] \in Command
    BY <1>6, RaftApplyAssumption
  <2> QED
    BY <2>1, Zenon DEF Command
<1>9. e.client \in Clients /\ e.sequence \in Nat /\ e.sequence = st.clients[e.client].sequence + 1
  BY AcceptedIsNext, RaftApplyAssumption, Zenon DEF Command
<1>10. st.clients[e.client].sequence \in Nat
  BY <1>2, <1>9, StateTyped, Zenon
<1>11. ASSUME NEW k \in 1..Len(x.catalog)
       PROVE  x.catalog[k].sequence <= x.clients[x.catalog[k].client].sequence
  <2>1. CASE k = Len(st.catalog) + 1
    BY <1>1, <1>4, <1>5, <1>6, <1>9, <2>1
  <2>2. CASE k \in 1..Len(st.catalog)
    BY <1>1, <1>5, <1>6, <2>2 DEF StateOK
  <2> QED
    BY <1>6, <2>1, <2>2
<1>12. ASSUME NEW k \in 1..Len(x.catalog), NEW l \in 1..Len(x.catalog), k < l,
              x.catalog[k].client = x.catalog[l].client
       PROVE  x.catalog[k].sequence < x.catalog[l].sequence
  <2>1. k \in 1..Len(st.catalog)
    BY <1>6, <1>12
  <2>2. CASE l = Len(st.catalog) + 1
    <3>1. st.catalog[k].sequence <= st.clients[e.client].sequence
      <4>1. st.catalog[k].client = e.client
        BY <1>6, <1>12, <2>1, <2>2, Zenon
      <4>2. st.catalog[k].sequence <= st.clients[st.catalog[k].client].sequence
        BY <2>1, Zenon DEF StateOK
      <4> QED
        BY <4>1, <4>2, Zenon
    <3>2. x.catalog[k].sequence = st.catalog[k].sequence /\ x.catalog[l].sequence = e.sequence
      BY <1>6, <2>1, <2>2, Zenon
    <3>3. st.catalog[k].sequence \in Nat
      BY <1>8, <3>2, Zenon
    <3> QED
      BY <1>9, <1>10, <3>1, <3>2, <3>3, BelowNext, Zenon
  <2>3. CASE l \in 1..Len(st.catalog)
    BY <1>6, <1>12, <2>1, <2>3, Zenon DEF StateOK
  <2> QED
    BY <1>6, <2>2, <2>3
<1>13. x.catalog_transaction_id = Len(x.catalog) /\ x.last_membership <= x.last_applied
  BY <1>1, <1>5, <1>6 DEF StateOK
<1>14. \A c \in Clients : x.clients[c].sequence > 0 => x.clients[c] \in Results /\ x.clients[c].client = c
  BY <1>1, <1>5, Zenon DEF StateOK
<1>15. StateOK(x)
  BY <1>7, <1>11, <1>12, <1>13, <1>14, Zenon DEF StateOK
<1>16. Prolongs(x, st)
  BY <1>6 DEF Prolongs
<1> QED
  BY <1>1, <1>5, <1>15, <1>16, Zenon DEF x, r

(* Applying an entry keeps a state well formed, moves its position and only    *)
(* adds to its catalog (apply_entries).                                        *)
LEMMA AfterOK ==
    ASSUME NEW st, StateOK(st), NEW e \in LogEntries,
           NEW i \in Nat, st.last_applied + 1 = i
    PROVE  /\ StateOK(After(st, i, e))
           /\ After(st, i, e).last_applied = i
           /\ Prolongs(After(st, i, e), st)
<1> DEFINE x == After(st, i, e)
<1>0. st \in States
  BY Zenon DEF StateOK
<1>9. ASSUME x \in States, x.catalog = st.catalog, x.clients = st.clients,
             x.catalog_transaction_id = st.catalog_transaction_id,
             x.last_applied = i, x.last_membership \in {st.last_membership, i}
      PROVE  StateOK(x) /\ x.last_applied = i /\ Prolongs(x, st)
  <2>1. x.last_membership <= x.last_applied
    BY <1>0, <1>9 DEF StateOK, States
  <2>2. Prolongs(x, st)
    BY <1>0, <1>9 DEF Prolongs, States
  <2> QED
    BY <1>9, <2>1, <2>2 DEF StateOK
<1>1. CASE x = [st EXCEPT !.last_applied = i]
  BY <1>0, <1>1, <1>9, Zenon DEF States
<1>2. CASE x = [[st EXCEPT !.last_applied = i] EXCEPT !.last_membership = i]
  BY <1>0, <1>2, <1>9, ZenonT(60) DEF States
<1>3. CASE e \in Command /\ Accepted(st, e) /\ x = Record(st, i, e)
  <2>1. StateOK(x) /\ x.last_applied = i /\ x.catalog = st.catalog
    BY <1>3, RecordOK
  <2>2. Len(st.catalog) \in Nat
    BY <1>0, StateTyped, Zenon
  <2> HIDE DEF x
  <2>3. Prolongs(x, st)
    BY <2>1, <2>2 DEF Prolongs
  <2> QED
    BY <2>1, <2>3, Zenon DEF x
<1>4. CASE e \in Command /\ Accepted(st, e) /\ x = Commit(st, i, e)
  BY <1>4, CommitOK
<1>5. \/ x = Position(st, i)
      \/ x = [Position(st, i) EXCEPT !.last_membership = i]
      \/ e \in Command /\ Accepted(st, e) /\ (x = Record(st, i, e) \/ x = Commit(st, i, e))
  <2>1. e \in Command \/ e.kind \in {"Blank", "Membership"}
    BY DEF LogEntries, Blank, Membership
  <2>2. e \in Command => e.kind = "Normal"
    BY RaftApplyAssumption, Zenon DEF Command
  <2> QED
    BY <2>1, <2>2, Zenon DEF After, apply_command
<1> QED
  BY <1>1, <1>2, <1>3, <1>4, <1>5, Zenon DEF Position

(* What After does to the client results: an accepted command's result is      *)
(* recorded for its client, and nothing else changes.                          *)
LEMMA AfterClients ==
    ASSUME NEW st, StateOK(st), NEW e \in LogEntries,
           NEW i \in Nat, st.last_applied + 1 = i
    PROVE  LET x == After(st, i, e)
           IN  /\ e \in Command /\ Accepted(st, e) =>
                    /\ \A c \in Clients :
                        x.clients[c] = IF c = e.client THEN ClientResult(e, Judged(st, e))
                                       ELSE st.clients[c]
                    /\ Judged(st, e).kind = "Applied" => x.catalog = Append(st.catalog, e)
               /\ ~(e \in Command /\ Accepted(st, e)) => x.clients = st.clients
<1>1. e \in Command => e.kind = "Normal"
  BY RaftApplyAssumption, Zenon DEF Command
<1>2. e \in Command \/ e.kind = "Blank" \/ e.kind = "Membership"
  BY DEF LogEntries, Blank, Membership
<1>3. CASE e \in Command /\ Accepted(st, e)
  <2>1. After(st, i, e) = IF Judged(st, e).kind = "Applied" THEN Commit(st, i, e) ELSE Record(st, i, e)
    BY <1>1, <1>3, Zenon DEF After, apply_command
  <2> QED
    BY <1>3, <2>1, RecordOK, CommitOK
<1>4. CASE ~(e \in Command /\ Accepted(st, e))
  <2>1. After(st, i, e) = Position(st, i) \/ After(st, i, e) = [Position(st, i) EXCEPT !.last_membership = i]
    BY <1>1, <1>2, <1>4, Zenon DEF After, apply_command
  <2>2. st \in States
    BY Zenon DEF StateOK
  <2>3. After(st, i, e).clients = st.clients
    BY <2>1, <2>2, Zenon DEF Position, States
  <2> QED
    BY <1>4, <2>3, Zenon
<1> QED
  BY <1>3, <1>4, Zenon

(* A response is a sequence error, the refusal of number 0, the judgement of   *)
(* an accepted command or the result recorded for the same request.            *)
LEMMA ResponseOK ==
    ASSUME NEW st, StateOK(st), NEW e \in Command
    PROVE  LET a == ClientResult(e, Response(st, e))
           IN  /\ a \in Results
               /\ \/ a.response.kind = "Rejected" /\ a.response.reason \in SequenceErrors
                  \/ a.sequence = 0 /\ a.response = Rejected("InvalidTransaction")
                  \/ Accepted(st, e) /\ a = ClientResult(e, Judged(st, e))
                  \/ st.clients[e.client].sequence > 0 /\ a = st.clients[e.client]
<1> DEFINE p == st.clients[e.client]
           a == ClientResult(e, Response(st, e))
<1>1. /\ e.client \in Clients /\ e.sequence \in Nat /\ e.fingerprint \in Fingerprints
  BY RaftApplyAssumption, Zenon DEF Command
<1>2. a.client = e.client /\ a.sequence = e.sequence /\ a.fingerprint = e.fingerprint
      /\ a.response = Response(st, e)
  BY Zenon DEF ClientResult
<1>3. ASSUME Response(st, e) \in Responses PROVE a \in Results
  BY <1>1, <1>3, Zenon DEF ClientResult, Results
<1>4. \A r \in Reasons : Rejected(r) \in Responses /\ Rejected(r).reason = r /\ Rejected(r).kind = "Rejected"
  BY Zenon DEF Rejected, Responses
<1>5. CASE e.sequence = 0
  <2>1. Response(st, e) = Rejected("InvalidTransaction")
    BY <1>5, Zenon DEF Response
  <2> QED
    BY <1>2, <1>3, <1>4, <1>5, <2>1, Zenon DEF Reasons
<1>6. CASE Accepted(st, e)
  <2>1. Response(st, e) = Judged(st, e)
    BY <1>6 DEF Response, Accepted
  <2> QED
    BY <1>3, <1>6, <2>1, JudgedOK, Zenon
<1>7. CASE e.sequence > 0 /\ ~Accepted(st, e) /\ e.sequence = p.sequence /\ e.fingerprint = p.fingerprint
  <2>1. p \in Results /\ p.client = e.client
    BY <1>1, <1>7, Zenon DEF StateOK
  <2>2. Response(st, e) = p.response
    BY <1>7 DEF Response, sequence_decision
  <2>3. a = p
    BY <1>7, <2>1, <2>2, Zenon DEF ClientResult, Results
  <2> QED
    BY <1>7, <2>1, <2>3, Zenon
<1>8. CASE e.sequence > 0 /\ ~Accepted(st, e) /\ ~(e.sequence = p.sequence /\ e.fingerprint = p.fingerprint)
  <2>0. e.sequence # 0
    BY <1>8
  <2>1. Response(st, e) = sequence_decision(st, e) /\ sequence_decision(st, e) # Accept
    BY <1>8, <2>0, Zenon DEF Response, Accepted
  <2>2. \E r \in SequenceErrors : Response(st, e) = Rejected(r)
    BY <1>8, <2>1, Zenon DEF sequence_decision, SequenceErrors
  <2> QED
    BY <1>2, <1>3, <1>4, <2>2 DEF Reasons
<1> QED
  BY <1>1, <1>5, <1>6, <1>7, <1>8, SMTT(60)

(* The genesis state is well formed.                                           *)
LEMMA GenesisOK == StateOK(Genesis) /\ Genesis.last_applied = 0 /\ Genesis.catalog = <<>>
<1>1. Genesis \in States
  BY DEF Genesis, States
<1> QED
  BY <1>1 DEF Genesis, StateOK, NoResult

(* The inductive invariant holds when the cluster starts from one catalog.     *)
LEMMA InitIInv == Init => IInv
<1> SUFFICES ASSUME Init PROVE IInv
  BY Zenon
<1>1. HistoryOK
  <2>1. Len(canon) = 1 /\ canon[1] = Genesis /\ canon \in Seq(States) /\ log \in Seq(LogEntries) /\ Len(log) = 0
    BY GenesisOK DEF Init, StateOK
  <2>2. \A i \in 1..Len(canon) : StateOK(canon[i]) /\ canon[i].last_applied = i - 1
    BY <2>1, GenesisOK
  <2>3. \A i, j \in 1..Len(canon) : i <= j => Prolongs(canon[j], canon[i])
    BY <2>1, GenesisOK DEF Prolongs
  <2> QED
    BY <2>1, <2>2, <2>3 DEF HistoryOK
<1>2. RecordedOK
  <2>1. \A i \in 1..Len(canon), c \in Clients : canon[i].clients[c].sequence = 0
    BY DEF Init, Genesis, NoResult
  <2> QED
    BY <2>1 DEF RecordedOK, Init
<1>3. NodesOK
  BY GenesisOK DEF NodesOK, Init, FromHistory, NoSnapshot, StateOK
<1>4. AnswersOK
  BY Zenon DEF AnswersOK, Init
<1> QED
  BY <1>1, <1>2, <1>3, <1>4, Zenon DEF IInv

(* Growing a catalog twice is growing it.                                      *)
LEMMA ProlongsTransitive ==
    ASSUME NEW x \in States, NEW y \in States, NEW z \in States,
           Prolongs(x, y), Prolongs(y, z)
    PROVE  Prolongs(x, z)
<1>1. Len(x.catalog) \in Nat /\ Len(y.catalog) \in Nat /\ Len(z.catalog) \in Nat
  BY StateTyped, Zenon
<1> QED
  BY <1>1 DEF Prolongs

(* Agreeing on an entry extends the history by one well-formed state.          *)
LEMMA AgreeIInv == ASSUME IInv, NEW e \in LogEntries, Agree(e) PROVE IInv'
<1> DEFINE i == Len(log) + 1
           st == canon[i]
           x == After(st, i, e)
<1>1. i \in Nat /\ Len(canon) = i /\ canon \in Seq(States) /\ log \in Seq(LogEntries)
  BY DEF IInv, HistoryOK
<1>2. StateOK(st) /\ st.last_applied + 1 = i
  BY <1>1 DEF IInv, HistoryOK
<1>3. StateOK(x) /\ x.last_applied = i /\ Prolongs(x, st)
  BY <1>1, <1>2, AfterOK, Zenon
<1>4. log' = Append(log, e) /\ canon' = Append(canon, x)
  BY Zenon DEF Agree
<1>5. recorded' = IF e.kind = "Normal" /\ Accepted(st, e)
                  THEN recorded \cup {ClientResult(e, Judged(st, e))} ELSE recorded
  BY Zenon DEF Agree
<1>6. machine' = machine /\ stored' = stored /\ wire' = wire /\ answers' = answers
  BY Zenon DEF Agree
<1>7. e \in Command <=> e.kind = "Normal"
  BY RaftApplyAssumption DEF Command, LogEntries, Blank, Membership
<1>8. /\ e \in Command /\ Accepted(st, e) =>
            /\ \A c \in Clients :
                x.clients[c] = IF c = e.client THEN ClientResult(e, Judged(st, e)) ELSE st.clients[c]
            /\ Judged(st, e).kind = "Applied" => x.catalog = Append(st.catalog, e)
      /\ ~(e \in Command /\ Accepted(st, e)) => x.clients = st.clients
  BY <1>1, <1>2, AfterClients
<1> HIDE DEF x
<1>9. /\ log' \in Seq(LogEntries) /\ Len(log') = i
      /\ canon' \in Seq(States) /\ Len(canon') = i + 1
      /\ canon'[i + 1] = x /\ \A k \in 1..i : canon'[k] = canon[k]
      /\ log'[i] = e /\ \A k \in 1..Len(log) : log'[k] = log[k]
  BY <1>1, <1>3, <1>4 DEF StateOK
<1>10. HistoryOK'
  <2>1. canon'[1] = Genesis
    BY <1>1, <1>9 DEF IInv, HistoryOK
  <2>2. \A k \in 1..Len(canon') : StateOK(canon'[k]) /\ canon'[k].last_applied = k - 1
    BY <1>1, <1>3, <1>9 DEF IInv, HistoryOK
  <2>3. \A k \in 1..Len(log') : canon'[k + 1] = After(canon'[k], k, log'[k])
    <3> TAKE k \in 1..Len(log')
    <3>1. CASE k = i
      BY <1>1, <1>9, <3>1, Zenon DEF x
    <3>2. CASE k \in 1..Len(log)
      <4>1. k \in 1..i /\ k + 1 \in 1..i
        BY <1>1, <3>2
      <4> QED
        BY <1>9, <3>2, <4>1, Zenon DEF IInv, HistoryOK
    <3> QED
      BY <1>1, <1>9, <3>1, <3>2
  <2>4. \A k, l \in 1..Len(canon') : k <= l => Prolongs(canon'[l], canon'[k])
    <3> TAKE k, l \in 1..Len(canon')
    <3> HAVE k <= l
    <3>1. CASE l \in 1..i
      <4>1. k \in 1..i /\ l \in 1..Len(canon) /\ k \in 1..Len(canon)
        BY <1>1, <1>9, <3>1
      <4>2. Prolongs(canon[l], canon[k])
        BY <4>1, Zenon DEF IInv, HistoryOK
      <4> QED
        BY <1>9, <3>1, <4>1, <4>2, Zenon
    <3>2. CASE k = i + 1 /\ l = i + 1
      BY <1>3, <1>9, <3>2 DEF Prolongs, StateOK, States
    <3>3. CASE k \in 1..i /\ l = i + 1
      <4>0. k \in 1..Len(canon) /\ i \in 1..Len(canon) /\ k <= i
        BY <1>1, <3>3
      <4>1. Prolongs(st, canon[k])
        BY <4>0, Zenon DEF IInv, HistoryOK
      <4>2. canon[k] \in States /\ st \in States /\ x \in States
        BY <1>1, <1>2, <1>3, <3>3, SMTT(60) DEF StateOK
      <4>4. Prolongs(x, canon[k])
        BY <1>3, <4>1, <4>2, ProlongsTransitive, Zenon
      <4> QED
        BY <1>9, <3>3, <4>4, Zenon
    <3> QED
      BY <1>1, <1>9, <3>1, <3>2, <3>3
  <2> QED
    BY <1>9, <2>1, <2>2, <2>3, <2>4, Zenon DEF HistoryOK
<1>11. RecordedOK'
  <2> DEFINE r == ClientResult(e, Judged(st, e))
             RecOK(y, t) == /\ y.sequence > 0 /\ y.sequence <= t.clients[y.client].sequence
                            /\ y.response.reason \notin SequenceErrors
                            /\ y.response.kind = "Applied" =>
                                /\ y.response.transaction_id \in 1..Len(t.catalog)
                                /\ t.catalog[y.response.transaction_id].client = y.client
                                /\ t.catalog[y.response.transaction_id].sequence = y.sequence
                                /\ t.catalog[y.response.transaction_id].fingerprint = y.fingerprint
  <2>1. recorded \subseteq Results /\ \A y \in recorded : RecOK(y, st)
    BY <1>1, ZenonT(60) DEF IInv, RecordedOK
  <2>2. \A c \in Clients : st.clients[c].sequence \in Nat
    BY <1>2, StateTyped, Zenon DEF StateOK
  <2>3. \A c \in Clients : x.clients[c].sequence \in Nat /\ st.clients[c].sequence <= x.clients[c].sequence
    <3>1. CASE e \in Command /\ Accepted(st, e)
      <4>1. r.sequence = e.sequence /\ e.sequence = st.clients[e.client].sequence + 1 /\ e.client \in Clients
        BY <1>2, <3>1, AcceptedIsNext, RaftApplyAssumption, Zenon DEF ClientResult, Command
      <4> QED
        BY <1>8, <2>2, <3>1, <4>1, SMTT(30)
    <3>2. CASE ~(e \in Command /\ Accepted(st, e))
      BY <1>8, <2>2, <3>2
    <3> QED
      BY <3>1, <3>2, Zenon
  <2>4. \A y \in recorded : RecOK(y, x)
    <3> TAKE y \in recorded
    <3>1. y \in Results /\ RecOK(y, st)
      BY <2>1, Zenon
    <3>2. y.client \in Clients /\ y.sequence \in Nat
      BY <3>1, Zenon DEF Results
    <3>3. y.sequence <= x.clients[y.client].sequence
      <4>1. y.sequence <= st.clients[y.client].sequence
        BY <3>1, Zenon DEF RecOK
      <4> QED
        BY <2>2, <2>3, <3>2, <4>1, Transitive, Zenon
    <3>4. /\ Len(st.catalog) <= Len(x.catalog) /\ Len(st.catalog) \in Nat /\ Len(x.catalog) \in Nat
          /\ \A k \in 1..Len(st.catalog) : x.catalog[k] = st.catalog[k]
      BY <1>2, <1>3, Zenon DEF Prolongs, StateOK, States
    <3>5. y.response.kind = "Applied" =>
            /\ y.response.transaction_id \in 1..Len(st.catalog)
            /\ y.response.transaction_id \in 1..Len(x.catalog)
      BY <3>1, <3>4, SMTT(60)
    <3> QED
      BY <3>1, <3>3, <3>4, <3>5, Zenon
  <2>5. ASSUME e \in Command, Accepted(st, e)
        PROVE  /\ r \in Results /\ RecOK(r, x) /\ r.client = e.client
               /\ r.sequence = e.sequence /\ x.clients[e.client] = r
               /\ \A y \in recorded : ~(y.client = r.client /\ y.sequence = r.sequence)
    <3>1. r \in Results
      BY <1>2, <2>5, ResultOK, Zenon
    <3>2. r.client = e.client /\ r.sequence = e.sequence /\ r.fingerprint = e.fingerprint
          /\ r.response = Judged(st, e)
      BY Zenon DEF ClientResult
    <3>3. e.client \in Clients /\ e.sequence \in Nat /\ e.sequence = st.clients[e.client].sequence + 1
      BY <1>2, <2>5, AcceptedIsNext, RaftApplyAssumption, Zenon DEF Command
    <3>4. x.clients[e.client] = r
      BY <1>8, <2>5, <3>3, Zenon
    <3>5. /\ Judged(st, e).reason \notin SequenceErrors
          /\ Judged(st, e).kind = "Applied" => Judged(st, e).transaction_id = Len(st.catalog) + 1
      BY <1>2, <2>5, JudgedOK, ZenonT(60)
    <3>6. Judged(st, e).kind = "Applied" =>
            /\ Len(st.catalog) + 1 \in 1..Len(x.catalog) /\ x.catalog[Len(st.catalog) + 1] = e
      BY <1>2, <1>8, <2>5, SMTT(30) DEF StateOK, States
    <3>7. RecOK(r, x)
      <4>1. r.sequence <= x.clients[r.client].sequence
        <5>1. x.clients[r.client].sequence = r.sequence /\ r.sequence \in Nat
          BY <3>2, <3>3, <3>4, Zenon
        <5> QED
          BY <5>1
      <4> HIDE DEF r
      <4>2. r.response.kind = "Applied" =>
                /\ r.response.transaction_id = Len(st.catalog) + 1
                /\ r.response.transaction_id \in 1..Len(x.catalog)
                /\ x.catalog[r.response.transaction_id] = e
        BY <3>2, <3>5, <3>6, Zenon
      <4>3. r.sequence > 0
        BY <1>2, <2>5, <3>2, AcceptedIsNext, Zenon
      <4> QED
        BY <3>2, <3>5, <4>1, <4>2, <4>3, Zenon
    <3>8. ASSUME NEW y \in recorded, y.client = r.client, y.sequence = r.sequence PROVE FALSE
      <4>1. y.sequence <= st.clients[y.client].sequence /\ y.client = e.client /\ y.sequence = e.sequence
        BY <2>1, <3>2, <3>8, Zenon
      <4> QED
        BY <2>2, <3>3, <4>1
    <3> QED
      BY <3>1, <3>2, <3>4, <3>7, <3>8, Zenon
  <2> HIDE DEF r, RecOK
  <2>6. recorded' \subseteq Results /\ \A y \in recorded' : RecOK(y, x)
    BY <1>5, <1>7, <2>1, <2>4, <2>5, Zenon DEF r
  <2>7. \A y, z \in recorded' : y.client = z.client /\ y.sequence = z.sequence => y = z
    <3>1. \A y, z \in recorded : y.client = z.client /\ y.sequence = z.sequence => y = z
      BY Zenon DEF IInv, RecordedOK
    <3> QED
      BY <1>5, <1>7, <2>5, <3>1 DEF r
  <2>8. \A k \in 1..Len(canon'), c \in Clients :
            canon'[k].clients[c].sequence > 0 => canon'[k].clients[c] \in recorded'
    <3>1. \A k \in 1..i, c \in Clients : canon[k].clients[c].sequence > 0 => canon[k].clients[c] \in recorded
      BY <1>1, Zenon DEF IInv, RecordedOK
    <3>2. recorded \subseteq recorded'
      BY <1>5, Zenon
    <3>3. \A c \in Clients : x.clients[c].sequence > 0 => x.clients[c] \in recorded'
      <4>1. CASE e \in Command /\ Accepted(st, e)
        <5>1. r \in recorded'
          BY <1>5, <1>7, <4>1, Zenon DEF r
        <5> QED
          BY <1>1, <1>8, <3>1, <3>2, <4>1, <5>1 DEF r
      <4>2. CASE ~(e \in Command /\ Accepted(st, e))
        BY <1>1, <1>8, <3>1, <3>2, <4>2
      <4> QED
        BY <4>1, <4>2, Zenon
    <3> QED
      BY <1>1, <1>9, <3>1, <3>2, <3>3, SMTT(30)
  <2>9. canon'[Len(canon')] = x
    BY <1>9, Zenon
  <2> QED
    BY <2>6, <2>7, <2>8, <2>9, Zenon DEF RecordedOK, RecOK
<1>12. NodesOK'
  <2>1. ASSUME NEW s, FromHistory(s) PROVE s.last_applied \in 0..Len(log') /\ s = canon'[s.last_applied + 1]
    BY <1>1, <1>9, <2>1 DEF FromHistory
  <2>2. FromHistory(wire)' /\ \A n \in Nodes : FromHistory(machine[n])' /\ FromHistory(stored[n])'
    BY <1>6, <2>1, Zenon DEF IInv, NodesOK, FromHistory
  <2> QED
    BY <1>6, <2>2, Zenon DEF IInv, NodesOK
<1>13. AnswersOK'
  BY <1>5, <1>6, Zenon DEF IInv, AnswersOK
<1> QED
  BY <1>10, <1>11, <1>12, <1>13, Zenon DEF IInv

(* A node that applies its next entry reaches the next state of the history,   *)
(* and its response is one the history has recorded.                           *)
LEMMA ApplyIInv == ASSUME IInv, NEW n \in Nodes, Apply(n) PROVE IInv'
<1> DEFINE st == machine[n]
           i == st.last_applied + 1
           e == log[i]
<1>1. i \in 1..Len(log) /\ st = canon[i] /\ e \in LogEntries /\ Len(canon) = Len(log) + 1 /\ i \in Nat
  <2>1. st.last_applied \in 0..Len(log) /\ st = canon[i] /\ i <= Len(log)
    BY Zenon DEF IInv, NodesOK, FromHistory, Apply
  <2>2. log \in Seq(LogEntries) /\ Len(canon) = Len(log) + 1
    BY Zenon DEF IInv, HistoryOK
  <2>3. Len(log) \in Nat
    BY <2>2, LenProperties, Zenon
  <2>4. i \in 1..Len(log) /\ i \in Nat
    <3> DEFINE last == st.last_applied
               m == Len(log)
    <3>1. m \in Nat /\ last \in 0..m /\ last + 1 <= m
      BY <2>1, <2>3, Zenon
    <3> HIDE DEF last, m, st
    <3>2. last + 1 \in 1..m /\ last + 1 \in Nat
      BY <3>1
    <3> QED
      BY <3>2, Zenon DEF last, m, st
  <2>5. e \in LogEntries
    BY <2>2, <2>4, ElementOfSeq, Zenon
  <2> QED
    BY <2>1, <2>2, <2>4, <2>5, Zenon
<1>2. StateOK(st) /\ canon[i + 1] = After(st, i, e)
  <2>1. i \in 1..Len(canon)
    <3>1. \A m \in Nat : \A k \in 1..m : k \in 1..(m + 1)
      OBVIOUS
    <3>2. Len(log) \in Nat
      BY LenProperties, Zenon DEF IInv, HistoryOK
    <3> QED
      BY <1>1, <3>1, <3>2, Zenon
  <2> QED
    BY <1>1, <2>1, Zenon DEF IInv, HistoryOK
<1>3. UNCHANGED <<log, stored, wire, canon, recorded>>
  BY Zenon DEF Apply
<1>4. HistoryOK' /\ RecordedOK'
  <2>1. HistoryOK /\ RecordedOK
    BY Zenon DEF IInv
  <2> QED
    BY <1>3, <2>1, Zenon DEF HistoryOK, RecordedOK
<1>5. machine' = [machine EXCEPT ![n] = canon[i + 1]]
  BY <1>2, Zenon DEF Apply
<1>6. canon[i + 1] \in States /\ canon[i + 1].last_applied = i
  <2>1. i + 1 \in 1..Len(canon) /\ (i + 1) - 1 = i
    <3>1. \A m \in Nat : \A k \in 1..m : k + 1 \in 1..(m + 1) /\ (k + 1) - 1 = k
      OBVIOUS
    <3>2. Len(log) \in Nat
      BY LenProperties, Zenon DEF IInv, HistoryOK
    <3> QED
      BY <1>1, <3>1, <3>2, Zenon
  <2> QED
    BY <2>1, Zenon DEF IInv, HistoryOK, StateOK
<1>7. NodesOK'
  <2>1. machine' \in [Nodes -> States]
    BY <1>5, <1>6, Zenon DEF IInv, NodesOK
  <2>2. \A m \in Nodes : machine'[m] = IF m = n THEN canon[i + 1] ELSE machine[m]
    BY <1>5, Zenon DEF IInv, NodesOK
  <2>3. \A m \in Nodes : FromHistory(machine[m])'
    <3> TAKE m \in Nodes
    <3>1. i \in 0..Len(log)
      BY <1>1
    <3>2. CASE m = n
      BY <1>3, <1>6, <2>2, <3>1, <3>2, Zenon DEF FromHistory
    <3>3. CASE m # n
      BY <1>3, <2>2, <3>3, Zenon DEF IInv, NodesOK, FromHistory
    <3> QED
      BY <3>2, <3>3, Zenon
  <2>4. \A m \in Nodes : stored'[m].last_applied <= machine'[m].last_applied
    <3> TAKE m \in Nodes
    <3>1. stored[m] \in States /\ stored[m].last_applied <= machine[m].last_applied /\ machine[m] \in States
      BY Zenon DEF IInv, NodesOK
    <3>2. stored[m].last_applied \in Nat /\ machine[m].last_applied \in Nat
      BY <3>1, Zenon DEF States
    <3> QED
      BY <1>3, <1>6, <2>2, <3>1, <3>2
  <2>5. FromHistory(wire)' /\ \A m \in Nodes : FromHistory(stored[m])'
    BY <1>3, Zenon DEF IInv, NodesOK, FromHistory
  <2> QED
    BY <1>3, <2>1, <2>3, <2>4, <2>5, Zenon DEF IInv, NodesOK
<1>8. AnswersOK'
  <2>1. CASE e.kind = "Normal"
    <3> DEFINE a == ClientResult(e, Response(st, e))
    <3>1. e \in Command
      BY <1>1, <2>1, SMTT(60) DEF LogEntries, Blank, Membership
    <3>2. /\ a \in Results
          /\ \/ a.response.kind = "Rejected" /\ a.response.reason \in SequenceErrors
             \/ a.sequence = 0 /\ a.response = Rejected("InvalidTransaction")
             \/ Accepted(st, e) /\ a = ClientResult(e, Judged(st, e))
             \/ st.clients[e.client].sequence > 0 /\ a = st.clients[e.client]
      BY <1>2, <3>1, ResponseOK, Zenon
    <3>3. e.client \in Clients
      BY <3>1, RaftApplyAssumption, Zenon DEF Command
    <3>4. st.clients[e.client].sequence > 0 => st.clients[e.client] \in recorded
      <4>1. i \in 1..Len(canon)
        BY <1>1, SMT
      <4>2. canon[i].clients[e.client].sequence > 0 => canon[i].clients[e.client] \in recorded
        BY <3>3, <4>1, Zenon DEF IInv, RecordedOK
      <4> QED
        BY <1>1, <4>2, Zenon
    <3>5. Accepted(st, e) => ClientResult(e, Judged(st, e)) \in recorded
      <4> HAVE Accepted(st, e)
      <4>1. canon[i + 1].clients[e.client] = ClientResult(e, Judged(st, e))
        <5>1. st.last_applied + 1 = i
          BY Zenon
        <5>2. e \in LogEntries /\ i \in Nat
          BY <1>1, Zenon
        <5> HIDE DEF st, i, e
        <5>3. After(st, i, e).clients[e.client] = ClientResult(e, Judged(st, e))
          BY <1>2, <3>1, <3>3, <5>1, <5>2, AfterClients, ZenonT(60)
        <5> QED
          BY <1>2, <5>3, Zenon
      <4>2. ClientResult(e, Judged(st, e)).sequence > 0
        BY <1>2, <3>1, AcceptedIsNext, Zenon DEF ClientResult
      <4>3. i + 1 \in 1..Len(canon)
        BY <1>1
      <4> QED
        BY <3>3, <4>1, <4>2, <4>3, ZenonT(60) DEF IInv, RecordedOK
    <3>6. answers' = answers \cup {a}
      BY <2>1, Zenon DEF Apply
    <3> HIDE DEF a
    <3> QED
      BY <1>3, <3>2, <3>4, <3>5, <3>6, Zenon DEF IInv, AnswersOK
  <2>2. CASE e.kind # "Normal"
    BY <1>3, <2>2, Zenon DEF IInv, AnswersOK, Apply
  <2> QED
    BY <2>1, <2>2, Zenon
<1> QED
  BY <1>4, <1>7, <1>8, Zenon DEF IInv

(* Building, sending and installing snapshots only copies states of the        *)
(* history.                                                                    *)
LEMMA SnapshotIInv ==
    ASSUME IInv, NEW n \in Nodes, build(n) \/ Send(n) \/ install_snapshot(n)
    PROVE  IInv'
<1>1. UNCHANGED <<log, answers, canon, recorded>>
  BY Zenon DEF build, Send, install_snapshot
<1>2. HistoryOK' /\ RecordedOK' /\ AnswersOK'
  <2>1. HistoryOK /\ RecordedOK /\ AnswersOK
    BY Zenon DEF IInv
  <2> QED
    BY <1>1, <2>1, Zenon DEF HistoryOK, RecordedOK, AnswersOK
<1>3. \A s : FromHistory(s) => s.last_applied \in 0..Len(log') /\ s = canon'[s.last_applied + 1]
  BY <1>1, Zenon DEF FromHistory
<1>4. NodesOK
  BY Zenon DEF IInv
<1>5. \A m \in Nodes : machine[m].last_applied \in Nat
  BY <1>4, Zenon DEF NodesOK, States
<1>6. ASSUME machine' \in [Nodes -> States], stored' \in [Nodes -> States], wire' \in States,
             FromHistory(wire'),
             \A m \in Nodes : FromHistory(machine'[m]) /\ FromHistory(stored'[m]),
             \A m \in Nodes : stored'[m].last_applied <= machine'[m].last_applied
      PROVE  NodesOK'
  BY <1>1, <1>6, Zenon DEF NodesOK, FromHistory
<1>7. CASE build(n)
  <2>1. machine' = machine /\ wire' = wire /\ stored' = [stored EXCEPT ![n] = machine[n]]
    BY <1>7, Zenon DEF build
  <2>2. \A m \in Nodes : stored'[m] = IF m = n THEN machine[m] ELSE stored[m]
    BY <1>4, <2>1, Zenon DEF NodesOK
  <2>3. /\ machine' \in [Nodes -> States] /\ stored' \in [Nodes -> States] /\ wire' \in States
        /\ FromHistory(wire')
        /\ \A m \in Nodes : FromHistory(machine'[m]) /\ FromHistory(stored'[m])
        /\ \A m \in Nodes : stored'[m].last_applied <= machine'[m].last_applied
    BY <1>4, <1>5, <2>1, <2>2 DEF NodesOK
  <2> QED
    BY <1>2, <1>6, <2>3, Zenon DEF IInv
<1>8. CASE Send(n)
  <2>1. machine' = machine /\ wire' = stored[n] /\ stored' = stored
    BY <1>8, Zenon DEF Send
  <2>2. /\ machine' \in [Nodes -> States] /\ stored' \in [Nodes -> States] /\ wire' \in States
        /\ FromHistory(wire')
        /\ \A m \in Nodes : FromHistory(machine'[m]) /\ FromHistory(stored'[m])
        /\ \A m \in Nodes : stored'[m].last_applied <= machine'[m].last_applied
    BY <1>4, <2>1, Zenon DEF NodesOK
  <2> QED
    BY <1>2, <1>6, <2>2, Zenon DEF IInv
<1>9. CASE install_snapshot(n)
  <2>1. /\ machine' = [machine EXCEPT ![n] = wire] /\ wire' = wire
        /\ stored' = [stored EXCEPT ![n] = wire]
    BY <1>9, Zenon DEF install_snapshot
  <2>2. \A m \in Nodes : /\ stored'[m] = IF m = n THEN wire ELSE stored[m]
                         /\ machine'[m] = IF m = n THEN wire ELSE machine[m]
    BY <1>4, <2>1, Zenon DEF NodesOK
  <2>3. wire.last_applied \in Nat
    BY <1>4, Zenon DEF NodesOK, States
  <2>4. /\ machine' \in [Nodes -> States] /\ stored' \in [Nodes -> States] /\ wire' \in States
        /\ FromHistory(wire')
        /\ \A m \in Nodes : FromHistory(machine'[m]) /\ FromHistory(stored'[m])
        /\ \A m \in Nodes : stored'[m].last_applied <= machine'[m].last_applied
    BY <1>4, <2>1, <2>2, <2>3 DEF NodesOK
  <2> QED
    BY <1>2, <1>6, <2>4, Zenon DEF IInv
<1> QED
  BY <1>2, <1>7, <1>8, <1>9, Zenon DEF IInv

(* The inductive invariant is an invariant.                                    *)
THEOREM Inductive == Spec => []IInv
<1>1. ASSUME IInv, [Next]_vars PROVE IInv'
  <2>1. CASE UNCHANGED vars
    BY <1>1, <2>1, Zenon DEF IInv, HistoryOK, RecordedOK, NodesOK, AnswersOK, FromHistory, vars
  <2>2. ASSUME NEW e \in Entries, Agree(e) PROVE IInv'
    <3>1. e \in LogEntries
      BY RaftApplyAssumption, Zenon DEF Entries, LogEntries
    <3> QED
      BY <1>1, <2>2, <3>1, AgreeIInv, Zenon
  <2>3. ASSUME NEW n \in Nodes, Apply(n) PROVE IInv'
    BY <1>1, <2>3, ApplyIInv, Zenon
  <2>4. ASSUME NEW n \in Nodes, build(n) \/ Send(n) \/ install_snapshot(n) PROVE IInv'
    BY <1>1, <2>4, SnapshotIInv, Zenon
  <2> QED
    BY <1>1, <2>1, <2>2, <2>3, <2>4, Zenon DEF Next
<1> QED
  BY <1>1, InitIInv, PTL DEF Spec

(* Nodes and snapshots at the same position of the log are equal.              *)
THEOREM Agreement == Spec => []ReplicasAgree
<1>1. IInv => ReplicasAgree
  BY DEF IInv, NodesOK, FromHistory, ReplicasAgree
<1> QED
  BY <1>1, Inductive, PTL

(* A state of the history is well formed.                                      *)
LEMMA HistoryStates ==
    ASSUME IInv, NEW x, FromHistory(x)
    PROVE  x.last_applied + 1 \in 1..Len(canon) /\ x \in States /\ StateOK(x)
<1>1. x.last_applied + 1 \in 1..Len(canon) /\ x = canon[x.last_applied + 1]
  BY SMTT(60) DEF IInv, HistoryOK, FromHistory
<1>2. StateOK(canon[x.last_applied + 1])
  BY <1>1, Zenon DEF IInv, HistoryOK
<1> QED
  BY <1>1, <1>2, Zenon DEF StateOK

(* No node executes a client's sequence number twice or out of order.          *)
THEOREM Once == Spec => []ExactlyOnce
<1>1. IInv => ExactlyOnce
  <2> SUFFICES ASSUME IInv, NEW n \in Nodes
               PROVE  \A i, j \in 1..Len(machine[n].catalog) :
                        i < j /\ machine[n].catalog[i].client = machine[n].catalog[j].client
                        => machine[n].catalog[i].sequence < machine[n].catalog[j].sequence
    BY Zenon DEF ExactlyOnce
  <2>1. StateOK(machine[n])
    BY HistoryStates, Zenon DEF IInv, NodesOK
  <2> QED
    BY <2>1, Zenon DEF StateOK
<1> QED
  BY <1>1, Inductive, PTL

(* Every request for a client's sequence number that gets a result gets the    *)
(* same one, from whichever node and at whatever time.                         *)
THEOREM Outcome == Spec => []OneOutcome
<1>1. IInv => OneOutcome
  <2> SUFFICES ASSUME IInv, NEW a \in answers, NEW b \in answers,
                      a.client = b.client, a.sequence = b.sequence,
                      a.response.reason \notin SequenceErrors,
                      b.response.reason \notin SequenceErrors
               PROVE  a.response = b.response
    BY Zenon DEF OneOutcome
  <2>1. \A r \in recorded : r.sequence # 0
    BY DEF IInv, RecordedOK
  <2>2. \A r, q \in recorded : r.client = q.client /\ r.sequence = q.sequence => r = q
    BY Zenon DEF IInv, RecordedOK
  <2>3. \A c \in {a, b} : \/ c.sequence = 0 /\ c.response = Rejected("InvalidTransaction")
                          \/ c \in recorded
    BY Zenon DEF IInv, AnswersOK
  <2> QED
    BY <2>1, <2>2, <2>3, Zenon
<1> QED
  BY <1>1, Inductive, PTL

(* A node's catalog grows with its position.                                   *)
LEMMA LaterProlongs ==
    ASSUME IInv, NEW x, NEW y, FromHistory(x), FromHistory(y),
           x.last_applied <= y.last_applied
    PROVE  /\ x \in States /\ y \in States /\ StateOK(x) /\ StateOK(y)
           /\ Prolongs(y, x)
<1>1. /\ x.last_applied + 1 \in 1..Len(canon) /\ y.last_applied + 1 \in 1..Len(canon)
      /\ x \in States /\ y \in States /\ StateOK(x) /\ StateOK(y)
  BY HistoryStates, Zenon
<1>2. x.last_applied + 1 <= y.last_applied + 1
  BY <1>1, StateTyped, Successors, Zenon
<1>3. Prolongs(canon[y.last_applied + 1], canon[x.last_applied + 1])
  BY <1>1, <1>2, Zenon DEF IInv, HistoryOK
<1> QED
  BY <1>1, <1>3, Zenon DEF FromHistory

(* An answer that a command was applied names the transaction that executed it *)
(* on every node.                                                              *)
THEOREM AppliedAnswers == Spec => []AppliedIsInCatalog
<1>1. IInv => AppliedIsInCatalog
  <2> SUFFICES ASSUME IInv, NEW a \in answers, NEW n \in Nodes,
                      a.response.kind = "Applied",
                      a.response.transaction_id <= machine[n].catalog_transaction_id
               PROVE  LET t == a.response.transaction_id
                      IN  /\ t > 0
                          /\ machine[n].catalog[t].client = a.client
                          /\ machine[n].catalog[t].sequence = a.sequence
                          /\ machine[n].catalog[t].fingerprint = a.fingerprint
    BY Zenon DEF AppliedIsInCatalog
  <2> DEFINE top == canon[Len(canon)]
             t == a.response.transaction_id
  <2>1. a \in recorded
    <3>1. \/ a.response.kind = "Rejected" /\ a.response.reason \in SequenceErrors
          \/ a.sequence = 0 /\ a.response = Rejected("InvalidTransaction")
          \/ a \in recorded
      BY Zenon DEF IInv, AnswersOK
    <3> QED
      BY <3>1 DEF Rejected
  <2>2. /\ t \in 1..Len(top.catalog) /\ top.catalog[t].client = a.client
        /\ top.catalog[t].sequence = a.sequence /\ top.catalog[t].fingerprint = a.fingerprint
    BY <2>1, Zenon DEF IInv, RecordedOK
  <2>3. FromHistory(top) /\ FromHistory(machine[n]) /\ machine[n].last_applied <= top.last_applied
    <3>1. Len(canon) = Len(log) + 1 /\ Len(log) \in Nat /\ top.last_applied = Len(log)
      BY DEF IInv, HistoryOK
    <3>2. FromHistory(machine[n])
      BY Zenon DEF IInv, NodesOK
    <3> QED
      BY <3>1, <3>2 DEF FromHistory
  <2>4. Prolongs(top, machine[n]) /\ StateOK(machine[n])
    BY <2>3, LaterProlongs, Zenon
  <2>5. t \in 1..Len(machine[n].catalog)
    <3>1. Len(machine[n].catalog) \in Nat /\ machine[n].catalog_transaction_id = Len(machine[n].catalog)
      BY <2>4, Zenon DEF StateOK, States
    <3> QED
      BY <2>2, <3>1
  <2>6. machine[n].catalog[t] = top.catalog[t]
    BY <2>4, <2>5, Zenon DEF Prolongs
  <2>7. t > 0
    <3>1. top \in States
      BY <2>3, HistoryStates, Zenon
    <3>2. Len(top.catalog) \in Nat
      BY <3>1, StateTyped, Zenon
    <3> QED
      BY <2>2, <3>2, Counted, Zenon
  <2> QED
    BY <2>2, <2>6, <2>7, Zenon
<1> QED
  BY <1>1, Inductive, PTL

(* A snapshot a node is given or has stored always fits its state.             *)
THEOREM SnapshotsAreInstallable == Spec => []SnapshotsFit
<1>1. IInv => SnapshotsFit
  <2> SUFFICES ASSUME IInv, NEW n \in Nodes
               PROVE  /\ wire.last_applied > machine[n].last_applied => ~Refused(machine[n], wire)
                      /\ stored[n].catalog_transaction_id <= machine[n].catalog_transaction_id
                      /\ stored[n].last_applied <= machine[n].last_applied
                      /\ stored[n].last_applied = machine[n].last_applied => stored[n] = machine[n]
    BY Zenon DEF SnapshotsFit
  <2>1. FromHistory(wire) /\ FromHistory(machine[n]) /\ FromHistory(stored[n])
        /\ stored[n].last_applied <= machine[n].last_applied
    BY Zenon DEF IInv, NodesOK
  <2>2. StateOK(stored[n]) /\ StateOK(machine[n]) /\ Prolongs(machine[n], stored[n])
    BY <2>1, LaterProlongs, Zenon
  <2>3. stored[n].catalog_transaction_id <= machine[n].catalog_transaction_id
    BY <2>2, Zenon DEF StateOK, Prolongs
  <2>4. stored[n].last_applied = machine[n].last_applied => stored[n] = machine[n]
    BY <2>1, Zenon DEF FromHistory
  <2>5. ASSUME wire.last_applied > machine[n].last_applied PROVE ~Refused(machine[n], wire)
    <3>1. machine[n].last_applied \in Nat /\ wire.last_applied \in Nat
      BY <2>1 DEF FromHistory, IInv, HistoryOK
    <3>2. StateOK(wire) /\ Prolongs(wire, machine[n]) /\ wire \in States /\ machine[n] \in States
      BY <2>1, <2>5, <3>1, LaterProlongs
    <3>3. wire.catalog_transaction_id = Len(wire.catalog) /\ machine[n].catalog_transaction_id = Len(machine[n].catalog)
      BY <2>2, <3>2, Zenon DEF StateOK
    <3>4. Len(wire.catalog) \in Nat /\ Len(machine[n].catalog) \in Nat
          /\ wire.catalog \in Seq(Command) /\ machine[n].catalog \in Seq(Command)
      BY <3>2, SMTT(60) DEF States
    <3>5. wire.catalog_transaction_id = machine[n].catalog_transaction_id => wire.catalog = machine[n].catalog
      <4> HAVE wire.catalog_transaction_id = machine[n].catalog_transaction_id
      <4>1. Len(wire.catalog) = Len(machine[n].catalog)
        BY <3>3, Zenon
      <4>2. \A k \in 1..Len(wire.catalog) : wire.catalog[k] = machine[n].catalog[k]
        BY <3>2, <4>1, Zenon DEF Prolongs
      <4> QED
        BY <3>4, <4>1, <4>2, SeqEqual, Zenon
    <3> QED
      BY <2>5, <3>1, <3>2, <3>3, <3>4, <3>5 DEF Refused, Prolongs
  <2> QED
    BY <2>1, <2>3, <2>4, <2>5, Zenon
<1> QED
  BY <1>1, Inductive, PTL

(* A node never goes back: applying and installing only move it along the      *)
(* history.                                                                    *)
THEOREM Forward == Spec => NeverBackwards
<1> DEFINE Step == \A n \in Nodes :
        /\ machine[n].last_applied <= machine'[n].last_applied
        /\ machine[n].catalog_transaction_id <= machine'[n].catalog_transaction_id
        /\ \A i \in DOMAIN machine[n].catalog : machine[n].catalog[i] = machine'[n].catalog[i]
<1>1. ASSUME IInv, IInv', [Next]_vars PROVE [Step]_vars
  <2> SUFFICES ASSUME Next PROVE Step
    BY <1>1, Zenon
  <2> SUFFICES ASSUME NEW n \in Nodes
               PROVE  /\ machine[n].last_applied <= machine'[n].last_applied
                      /\ machine[n].catalog_transaction_id <= machine'[n].catalog_transaction_id
                      /\ \A i \in DOMAIN machine[n].catalog : machine[n].catalog[i] = machine'[n].catalog[i]
    BY Zenon
  <2>1. FromHistory(machine[n]) /\ machine \in [Nodes -> States]
    BY <1>1, Zenon DEF IInv, NodesOK
  <2>2. StateOK(machine[n]) /\ machine[n].last_applied + 1 \in 1..Len(canon)
    BY <1>1, <2>1, HistoryStates, Zenon
  <2>3. ASSUME StateOK(machine'[n]), machine[n].last_applied <= machine'[n].last_applied,
               Prolongs(machine'[n], machine[n])
        PROVE  /\ machine[n].last_applied <= machine'[n].last_applied
               /\ machine[n].catalog_transaction_id <= machine'[n].catalog_transaction_id
               /\ \A i \in DOMAIN machine[n].catalog : machine[n].catalog[i] = machine'[n].catalog[i]
    <3>1. /\ machine[n].catalog_transaction_id = Len(machine[n].catalog)
          /\ machine'[n].catalog_transaction_id = Len(machine'[n].catalog)
      BY <2>2, <2>3, Zenon DEF StateOK
    <3>2. DOMAIN machine[n].catalog = 1..Len(machine[n].catalog)
      BY <2>2, SMTT(60) DEF StateOK, States
    <3> QED
      BY <2>3, <3>1, <3>2, Zenon DEF Prolongs
  <2>4. CASE machine'[n] = machine[n]
    <3>1. machine[n].last_applied \in Nat /\ machine[n].catalog_transaction_id \in Nat
      BY <2>2, Zenon DEF StateOK, States
    <3> QED
      BY <2>4, <3>1
  <2>5. CASE Apply(n)
    <3> DEFINE i == machine[n].last_applied + 1
    <3>1. i \in Nat /\ log[i] \in LogEntries /\ machine'[n] = After(machine[n], i, log[i])
      BY <1>1, <2>1, <2>2, <2>5, SMTT(60) DEF Apply, IInv, HistoryOK, FromHistory
    <3>2. StateOK(machine'[n]) /\ machine'[n].last_applied = i /\ Prolongs(machine'[n], machine[n])
      BY <2>2, <3>1, AfterOK
    <3>3. machine[n].last_applied <= i
      BY <2>2, SMTT(60) DEF StateOK, States
    <3> QED
      BY <2>3, <3>2, <3>3, Zenon
  <2>6. CASE install_snapshot(n)
    <3>1. machine'[n] = wire /\ wire.last_applied > machine[n].last_applied
      BY <2>1, <2>6, Zenon DEF install_snapshot
    <3>2. FromHistory(wire) /\ wire \in States /\ machine[n] \in States
      BY <1>1, <2>1, Zenon DEF IInv, NodesOK
    <3>3. machine[n].last_applied <= wire.last_applied
      BY <3>1, <3>2 DEF States
    <3>4. StateOK(wire) /\ Prolongs(wire, machine[n])
      BY <1>1, <2>1, <3>2, <3>3, LaterProlongs, Zenon
    <3> QED
      BY <2>3, <3>1, <3>3, <3>4, Zenon
  <2>7. Apply(n) \/ install_snapshot(n) \/ machine'[n] = machine[n]
    BY <2>1, ZenonT(60) DEF Next, Agree, Apply, build, Send, install_snapshot
  <2> QED
    BY <2>4, <2>5, <2>6, <2>7, Zenon
<1>2. Spec => [][Step]_vars
  BY <1>1, Inductive, PTL DEF Spec
<1> QED
  BY <1>2, Zenon DEF NeverBackwards
=============================================================================
