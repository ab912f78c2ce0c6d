----------------------- MODULE CatalogJournalProofs -------------------------
(***************************************************************************)
(* Proofs about the catalog journal, for any set of processes, files and   *)
(* contents.  Inv is inductive; the other theorems follow from it.         *)
(***************************************************************************)
EXTENDS CatalogJournal, TLAPS

(* In the initial state no process is at work and there is no journal.     *)
LEMMA InitInv == Init => Inv
BY CatalogAssumption, ZenonT(60)
   DEF Init, Inv, TypeOK, MutualExclusion, JournalRecoverable, HolderKnows,
       Bytes, Places, Exclusive

(* Every step of commit_files, recover_locked and the lock keeps the       *)
(* variables in their types.                                               *)
LEMMA TypeStep == TypeOK /\ [Next]_vars => TypeOK'
<1> SUFFICES ASSUME TypeOK, [Next]_vars PROVE TypeOK'
  OBVIOUS
<1> USE CatalogAssumption DEF TypeOK, Places, Exclusive, Goto, disk
<1>1. CASE UNCHANGED vars
  BY <1>1 DEF vars
<1>2. ASSUME NEW p \in Procs, Work(p) PROVE TypeOK'
  <2>1. CASE RecoverNothing(p)
    BY <2>1 DEF RecoverNothing, Unlocked
  <2>2. CASE RecoverOrphan(p)
    BY <2>2 DEF RecoverOrphan
  <2>3. CASE RecoverManifest(p)
    BY <2>3 DEF RecoverManifest
  <2>4. CASE RemoveReplayed(p)
    BY <2>4 DEF RemoveReplayed
  <2>5. CASE SweepDirectory(p)
    BY <2>5, Zenon DEF SweepDirectory, Unlocked
  <2>6. CASE BeginCommit(p)
    BY <2>6 DEF BeginCommit, NewContents
  <2>7. CASE WritePrepared(p)
    BY <2>7 DEF WritePrepared
  <2>8. CASE WriteCommitted(p)
    BY <2>8 DEF WriteCommitted
  <2>9. CASE remove_manifest(p)
    BY <2>9 DEF remove_manifest
  <2>10. ASSUME NEW t \in Targets, Replay(p, t) PROVE TypeOK'
    BY <2>10 DEF Replay, apply_change, StagedBytes
  <2>11. ASSUME NEW t \in Targets, SweepFile(p, t) PROVE TypeOK'
    BY <2>11 DEF SweepFile
  <2>12. ASSUME NEW t \in Targets, Stage(p, t) PROVE TypeOK'
    BY <2>12 DEF Stage
  <2>13. ASSUME NEW t \in Targets, Apply(p, t) PROVE TypeOK'
    BY <2>13 DEF Apply, apply_change, StagedBytes
  <2>14. CASE RemovePrepared(p)
    BY <2>14 DEF RemovePrepared
  <2>15. ASSUME NEW t \in Targets, RemoveTarget(p, t) PROVE TypeOK'
    <3>1. 0 \in Bytes
      BY DEF Bytes
    <3> QED
      BY <2>15, <3>1 DEF RemoveTarget
  <2> QED
    BY <1>2, <2>1, <2>2, <2>3, <2>4, <2>5, <2>6, <2>7, <2>8, <2>9, <2>10, <2>11,
       <2>12, <2>13, <2>14, <2>15 DEF Work
<1>3. ASSUME NEW p \in Procs, LockShared(p) PROVE TypeOK'
  BY <1>3 DEF LockShared
<1>4. ASSUME NEW p \in Procs, Release(p) PROVE TypeOK'
  BY <1>4 DEF Release
<1>5. ASSUME NEW p \in Procs, Fail(p) PROVE TypeOK'
  BY <1>5 DEF Fail
<1>6. ASSUME NEW p \in Procs, NEW m \in {"read", "write"}, Lock(p, m) PROVE TypeOK'
  BY <1>6 DEF Lock
<1> QED
  BY <1>1, <1>2, <1>3, <1>4, <1>5, <1>6 DEF Next

(* Only Lock and LockShared take the lock, and each looks at every other   *)
(* process: the exclusive lock excludes other holders and readers.         *)
LEMMA LockStep == TypeOK /\ MutualExclusion /\ [Next]_vars => MutualExclusion'
<1> SUFFICES ASSUME TypeOK, MutualExclusion, [Next]_vars PROVE MutualExclusion'
  OBVIOUS
<1> USE DEF MutualExclusion, TypeOK, Exclusive, Goto
<1>1. CASE UNCHANGED vars
  BY <1>1 DEF vars
<1>2. ASSUME NEW p \in Procs, Work(p) PROVE MutualExclusion'
  <2>1. /\ pc[p] \in Exclusive
        /\ \E place \in Places \ {"reading"} : pc' = [pc EXCEPT ![p] = place]
    <3>1. CASE UNCHANGED pc /\ pc[p] \in Exclusive
      <4> DEFINE here == pc[p]
      <4>1. pc' = [pc EXCEPT ![p] = here] /\ here \in Places \ {"reading"}
        BY <3>1 DEF Places
      <4> QED
        BY <3>1, <4>1, Zenon
    <3>2. CASE \E t \in Targets : \/ RemoveTarget(p, t) \/ Replay(p, t) \/ SweepFile(p, t)
                                  \/ Stage(p, t) \/ Apply(p, t)
      BY <3>1, <3>2, Zenon DEF RemoveTarget, Replay, SweepFile, Stage, Apply
    <3>3. CASE RemovePrepared(p)
      BY <3>1, <3>3, Zenon DEF RemovePrepared
    <3> QED
      BY <1>2, <3>2, <3>3
         DEF Work, RecoverNothing, RecoverOrphan, RecoverManifest, RemoveReplayed,
             SweepDirectory, BeginCommit, WritePrepared, WriteCommitted,
             remove_manifest, Unlocked, Places
  <2> QED
    BY <2>1
<1>3. ASSUME NEW p \in Procs, LockShared(p) PROVE MutualExclusion'
  BY <1>3 DEF LockShared, open_lock_shared
<1>4. ASSUME NEW p \in Procs, Release(p) PROVE MutualExclusion'
  BY <1>4 DEF Release
<1>5. ASSUME NEW p \in Procs, Fail(p) PROVE MutualExclusion'
  BY <1>5 DEF Fail
<1>6. ASSUME NEW p \in Procs, NEW m \in {"read", "write"}, Lock(p, m) PROVE MutualExclusion'
  BY <1>6 DEF Lock, open_lock_exclusive
<1> QED
  BY <1>1, <1>2, <1>3, <1>4, <1>5, <1>6 DEF Next

(* A step of the lock holder keeps the journal recoverable and leaves the  *)
(* holder where it knows what HolderKnows says.                            *)
LEMMA WorkStep ==
  ASSUME NEW p \in Procs, Inv, TypeOK', Work(p)
  PROVE  JournalRecoverable' /\ HolderKnows'
<1> USE DEF Inv, TypeOK, MutualExclusion, JournalRecoverable, HolderKnows, Exclusive,
            Goto, disk, Durable
<1>1. CASE RecoverNothing(p)
  BY <1>1 DEF RecoverNothing, Unlocked
<1>2. CASE RecoverOrphan(p)
  BY <1>2 DEF RecoverOrphan
<1>3. CASE RecoverManifest(p)
  BY <1>3 DEF RecoverManifest
<1>4. CASE RemoveReplayed(p)
  BY <1>4 DEF RemoveReplayed
<1>5. CASE SweepDirectory(p)
  BY <1>5 DEF SweepDirectory, Unlocked
<1>6. CASE BeginCommit(p)
  BY <1>6 DEF BeginCommit, NewContents
<1>7. CASE WritePrepared(p)
  BY <1>7 DEF WritePrepared
<1>8. CASE WriteCommitted(p)
  <2>1. \A t \in Targets : files[t] = after[t]
    BY <1>8 DEF WriteCommitted
  <2>2. JournalRecoverable'
    BY <1>8, <2>1 DEF WriteCommitted
  <2>3. files = after
    BY <2>1
  <2>4. HolderKnows'
    BY <1>8, <2>3 DEF WriteCommitted
  <2> QED
    BY <2>2, <2>4
<1>9. CASE remove_manifest(p)
  BY <1>9 DEF remove_manifest
<1>10. ASSUME NEW t \in Targets, Replay(p, t) PROVE JournalRecoverable' /\ HolderKnows'
  BY <1>10 DEF Replay, apply_change, StagedBytes
<1>11. ASSUME NEW t \in Targets, SweepFile(p, t) PROVE JournalRecoverable' /\ HolderKnows'
  BY <1>11 DEF SweepFile
<1>12. ASSUME NEW t \in Targets, Stage(p, t) PROVE JournalRecoverable' /\ HolderKnows'
  BY <1>12 DEF Stage
<1>13. ASSUME NEW t \in Targets, Apply(p, t) PROVE JournalRecoverable' /\ HolderKnows'
  BY <1>13 DEF Apply, apply_change, StagedBytes
<1>14. CASE RemovePrepared(p)
  BY <1>14 DEF RemovePrepared
<1>15. ASSUME NEW t \in Targets, RemoveTarget(p, t) PROVE JournalRecoverable' /\ HolderKnows'
  BY <1>15 DEF RemoveTarget, InTheWay
<1> QED
  BY <1>1, <1>2, <1>3, <1>4, <1>5, <1>6, <1>7, <1>8, <1>9, <1>10, <1>11, <1>12, <1>13,
     <1>14, <1>15, ZenonT(60) DEF Work

(* Inv is inductive: no step, and no failure between two steps, leaves a   *)
(* journal that recovery cannot replay.                                    *)
LEMMA InvStep == Inv /\ [Next]_vars => Inv'
<1> SUFFICES ASSUME Inv, [Next]_vars PROVE Inv'
  OBVIOUS
<1>1. TypeOK' /\ MutualExclusion'
  BY TypeStep, LockStep DEF Inv
<1>2. JournalRecoverable' /\ HolderKnows'
  <2> USE DEF Inv, TypeOK, MutualExclusion, JournalRecoverable, HolderKnows, Exclusive,
              Goto, disk, Durable
  <2>1. CASE UNCHANGED vars
    BY <2>1 DEF vars
  <2>2. ASSUME NEW p \in Procs, Work(p) PROVE JournalRecoverable' /\ HolderKnows'
    BY <1>1, <2>2, WorkStep
  <2>3. ASSUME NEW p \in Procs, LockShared(p) PROVE JournalRecoverable' /\ HolderKnows'
    BY <2>3 DEF LockShared
  <2>4. ASSUME NEW p \in Procs, Release(p) PROVE JournalRecoverable' /\ HolderKnows'
    BY <2>4 DEF Release
  <2>5. ASSUME NEW p \in Procs, Fail(p) PROVE JournalRecoverable' /\ HolderKnows'
    BY <2>5 DEF Fail
  <2>6. ASSUME NEW p \in Procs, NEW m \in {"read", "write"}, Lock(p, m)
        PROVE  JournalRecoverable' /\ HolderKnows'
    BY <2>6 DEF Lock
  <2> QED
    BY <2>1, <2>2, <2>3, <2>4, <2>5, <2>6, Zenon DEF Next
<1> QED
  BY <1>1, <1>2 DEF Inv

(* Inv holds in every reachable state.                                     *)
THEOREM Invariance == Spec => []Inv
BY InitInv, InvStep, PTL DEF Spec

(* The variables keep their types.                                         *)
THEOREM TypeCorrect == Spec => []TypeOK
<1>1. Inv => TypeOK
  BY DEF Inv
<1> QED
  BY <1>1, Invariance, PTL

(* After any sequence of commits, failures and recoveries, a manifest on   *)
(* disk comes with all recover_locked needs to finish or undo it.          *)
THEOREM Recoverable == Spec => []JournalRecoverable
<1>1. Inv => JournalRecoverable
  BY DEF Inv
<1> QED
  BY <1>1, Invariance, PTL

(* At each place of commit_files and recover_locked the lock holder knows  *)
(* which files are old and which are new.                                  *)
THEOREM HolderKnowledge == Spec => []HolderKnows
<1>1. Inv => HolderKnows
  BY DEF Inv
<1> QED
  BY <1>1, Invariance, PTL

(* No journal user changes a file beside a CatalogReadLock: commit_files   *)
(* and recover_locked replace and remove files under the exclusive lock,   *)
(* which excludes every holder of the shared one.                          *)
THEOREM ReadersUndisturbed == Spec => StableWhileRead
<1>1. Inv /\ [Next]_vars => [(\E p \in Procs : pc[p] = "reading") => UNCHANGED files]_vars
  <2> SUFFICES ASSUME Inv, [Next]_vars, NEW r \in Procs, pc[r] = "reading"
               PROVE  UNCHANGED files
    BY DEF vars
  <2> USE DEF Inv, MutualExclusion, Exclusive
  <2>1. ASSUME NEW p \in Procs, NEW t \in Targets,
               RemoveTarget(p, t) \/ Replay(p, t) \/ Apply(p, t)
        PROVE  FALSE
    BY <2>1, Zenon DEF RemoveTarget, Replay, Apply
  <2> QED
    BY <2>1
       DEF Next, Work, vars, disk, RecoverNothing, RecoverOrphan, RecoverManifest,
           RemoveReplayed, SweepDirectory, BeginCommit, WritePrepared, RemovePrepared,
           WriteCommitted, remove_manifest, SweepFile, Stage, LockShared, Release, Fail, Lock
<1> QED
  BY <1>1, Invariance, PTL DEF Spec, StableWhileRead

(* The initial directory is one of the abstract specification.             *)
LEMMA RefinesInit == Init => Cell!Init
BY CatalogAssumption DEF Init, Cell!Init, Durable, Proposal, Offers, Bytes

(* A step of the lock holder is a proposal (BeginCommit), the commit of    *)
(* the whole proposal (the rename of the Committed manifest, on Windows    *)
(* the removal of the Prepared one), or leaves the durable contents alone. *)
LEMMA RefinesWork ==
  ASSUME NEW p \in Procs, Inv, Inv', Work(p)
  PROVE  Cell!Next \/ UNCHANGED Cell!vars
<1> USE DEF Inv, TypeOK, MutualExclusion, Exclusive, Goto, disk, Cell!vars
<1>1. \A q \in Procs : q # p => ~Offers(q) /\ ~Offers(q)'
  <2>1. pc[p] \in Exclusive
    BY Zenon DEF Work, RecoverNothing, RecoverOrphan, RecoverManifest, RemoveReplayed,
           SweepDirectory, BeginCommit, WritePrepared, RemovePrepared, WriteCommitted,
           remove_manifest, RemoveTarget, Replay, SweepFile, Stage, Apply
  <2>2. \A q \in Procs : q # p => pc'[q] = pc[q]
    BY Zenon DEF Work, RecoverNothing, RecoverOrphan, RecoverManifest, RemoveReplayed,
           SweepDirectory, BeginCommit, WritePrepared, RemovePrepared, WriteCommitted,
           remove_manifest, RemoveTarget, Replay, SweepFile, Stage, Apply
  <2> QED
    BY <2>1, <2>2 DEF Offers
<1>2. Proposal = IF Offers(p) THEN <<after>> ELSE <<>>
  BY <1>1 DEF Proposal
<1>3. Proposal' = IF Offers(p)' THEN <<after'>> ELSE <<>>
  BY <1>1 DEF Proposal
<1> USE DEF Durable
<1>4. CASE BeginCommit(p)
  <2>1. Durable' = Durable /\ Durable = files
    BY <1>4 DEF BeginCommit, JournalRecoverable
  <2>2. Proposal = <<>> /\ Proposal' = <<after'>>
    BY <1>2, <1>3, <1>4 DEF BeginCommit, Offers
  <2>3. after' \in [Targets -> Bytes] /\ after'[StateFile] >= files[StateFile]
    <3>1. PICK T \in (SUBSET Targets) \ {{}} : after' \in NewContents(T)
      BY <1>4 DEF BeginCommit
    <3>2. after'[StateFile] = files[StateFile] \/ after'[StateFile] > files[StateFile]
      BY <3>1, CatalogAssumption DEF NewContents
    <3>3. files[StateFile] \in Nat /\ after'[StateFile] \in Nat
      <4>1. Bytes \subseteq Nat
        BY CatalogAssumption DEF Bytes
      <4>2. files[StateFile] \in Bytes /\ after'[StateFile] \in Bytes
        BY CatalogAssumption
      <4> QED
        BY <4>1, <4>2, Zenon
    <3> QED
      BY <3>2, <3>3
  <2> QED
    BY <2>1, <2>2, <2>3 DEF Cell!Next, Cell!Propose
<1>5. CASE WriteCommitted(p) \/ RemovePrepared(p)
  <2>1. Durable' = after
    <3>1. CASE WriteCommitted(p)
      BY <3>1 DEF WriteCommitted
    <3>2. CASE RemovePrepared(p)
      <4>1. Durable' = files
        BY <3>2 DEF RemovePrepared
      <4>2. \A t \in Targets : files[t] = after[t]
        BY <3>2 DEF RemovePrepared, HolderKnows
      <4> QED
        BY <4>1, <4>2
    <3> QED
      BY <1>5, <3>1, <3>2
  <2>2. Proposal' = <<>>
    BY <1>3, <1>5 DEF WriteCommitted, RemovePrepared, Offers
  <2>3. CASE phase = "prepared"
    <3>1. Proposal = <<after>>
      BY <1>2, <1>5, <2>3 DEF WriteCommitted, RemovePrepared, Offers
    <3> QED
      BY <2>1, <2>2, <3>1 DEF Cell!Next, Cell!Commit
  <2>4. CASE phase # "prepared"
    <3>1. phase = "none" /\ todo = {} /\ pc[p] = "applying"
      BY <1>5, <2>4 DEF WriteCommitted, RemovePrepared, HolderKnows
    <3>2. Proposal = <<>>
      BY <1>2, <3>1 DEF Offers
    <3>3. Durable = after
      <4>1. \A t \in Targets : files[t] = after[t]
        BY <3>1 DEF HolderKnows
      <4> QED
        BY <3>1, <4>1
    <3> QED
      BY <2>1, <2>2, <3>2, <3>3
  <2> QED
    BY <2>3, <2>4
<1>6. ASSUME UNCHANGED <<after, pc, phase>> PROVE UNCHANGED Proposal
  BY <1>6 DEF Proposal, Offers
<1>7. CASE \E t \in Targets : RemoveTarget(p, t) \/ Replay(p, t) \/ Apply(p, t)
  <2>1. UNCHANGED <<before, after, phase, pc>>
    BY <1>7, Zenon DEF RemoveTarget, Replay, Apply
  <2>2. phase # "none"
    BY <1>7, Zenon DEF RemoveTarget, Replay, Apply, HolderKnows
  <2> QED
    BY <1>6, <2>1, <2>2, Zenon
<1>8. CASE \E t \in Targets : SweepFile(p, t) \/ Stage(p, t)
  BY <1>6, <1>8 DEF SweepFile, Stage
<1>9. CASE WritePrepared(p)
  <2>1. Durable' = Durable
    BY <1>9 DEF WritePrepared, HolderKnows
  <2>2. Proposal' = Proposal
    BY <1>2, <1>3, <1>9 DEF WritePrepared, Offers
  <2> QED
    BY <2>1, <2>2
<1>10. CASE \/ RecoverNothing(p) \/ RecoverOrphan(p) \/ RecoverManifest(p)
            \/ SweepDirectory(p)
  <2>1. Durable' = Durable
    BY <1>10 DEF RecoverNothing, RecoverOrphan, RecoverManifest, SweepDirectory
  <2>2. Proposal' = Proposal
    BY <1>2, <1>3, <1>10
       DEF RecoverNothing, RecoverOrphan, RecoverManifest, SweepDirectory, Unlocked, Offers
  <2> QED
    BY <2>1, <2>2
<1>11. CASE RemoveReplayed(p) \/ remove_manifest(p)
  <2>1. files = Durable
    <3>1. CASE RemoveReplayed(p)
      <4>1. \A t \in Targets : files[t] = Durable[t]
        BY <3>1 DEF RemoveReplayed, HolderKnows, JournalRecoverable
      <4>2. Durable \in [Targets -> Bytes]
        OBVIOUS
      <4> QED
        BY <4>1, <4>2
    <3>2. CASE remove_manifest(p)
      BY <3>2 DEF remove_manifest, HolderKnows
    <3> QED
      BY <1>11, <3>1, <3>2
  <2>2. Durable' = files
    BY <1>11 DEF RemoveReplayed, remove_manifest
  <2>3. Proposal' = Proposal
    BY <1>2, <1>3, <1>11 DEF RemoveReplayed, remove_manifest, Offers
  <2> QED
    BY <2>1, <2>2, <2>3
<1> QED
  BY <1>4, <1>5, <1>7, <1>8, <1>9, <1>10, <1>11 DEF Work

(* A step that is not the holder's work leaves the contents alone; it      *)
(* abandons the proposal when it is the failure of a committing writer.    *)
LEMMA RefinesOther ==
  ASSUME NEW p \in Procs, Inv,
         \/ LockShared(p) \/ Release(p) \/ Fail(p)
         \/ \E m \in {"read", "write"} : Lock(p, m)
  PROVE  Cell!Next \/ UNCHANGED Cell!vars
<1> USE DEF Inv, TypeOK, MutualExclusion, Exclusive, Goto, disk
<1>1. Durable' = Durable /\ after' = after
  BY DEF LockShared, Release, Fail, Lock, Durable
<1>2. \A q \in Procs : Offers(q)' => Offers(q)
  BY DEF LockShared, Release, Fail, Lock, Offers
<1>3. Proposal' = Proposal \/ Proposal' = <<>>
  <2>1. CASE \E q \in Procs : Offers(q)'
    BY <1>1, <1>2, <2>1 DEF Proposal
  <2>2. CASE ~\E q \in Procs : Offers(q)'
    BY <2>2 DEF Proposal
  <2> QED
    BY <2>1, <2>2
<1> QED
  BY <1>1, <1>3 DEF Cell!Next, Cell!Abandon, Cell!vars

(* The journal implements CatalogCell: in spite of failures between any    *)
(* two steps, a catalog transaction is atomic over all its files.          *)
THEOREM Refinement == Spec => Refines
<1>1. Inv /\ Inv' /\ [Next]_vars => [Cell!Next]_(Cell!vars)
  <2> SUFFICES ASSUME Inv, Inv', [Next]_vars
               PROVE  Cell!Next \/ UNCHANGED Cell!vars
    OBVIOUS
  <2>1. CASE UNCHANGED vars
    BY <2>1 DEF vars, Cell!vars, Durable, Proposal, Offers
  <2> QED
    BY <2>1, RefinesWork, RefinesOther DEF Next
<1> QED
  BY <1>1, RefinesInit, Invariance, PTL DEF Spec, Refines, Cell!Spec
=============================================================================
