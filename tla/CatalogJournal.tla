--------------------------- MODULE CatalogJournal ---------------------------
(***************************************************************************)
(* The catalog journal: how processes that share a catalog directory       *)
(* replace several of its files in one transaction (catalog/journal.rs).   *)
(*                                                                         *)
(* A writer holds the exclusive catalog lock.  It stages the old and the   *)
(* new bytes of every file it changes in the journal directory, writes a   *)
(* manifest in phase Prepared, replaces the files, rewrites the manifest   *)
(* in phase Committed and removes it.  Whoever takes the lock next         *)
(* recovers a journal left behind: Prepared is rolled back, Committed is   *)
(* applied again.                                                          *)
(*                                                                         *)
(* Replacing one file or the manifest (temporary file, sync, rename) is    *)
(* one step, but on Windows, where the old file is removed first.  Between *)
(* any two steps the process may crash, or an I/O error may return to the  *)
(* caller; both drop the lock and leave the directory as it is.  A content *)
(* is a number, and 0 says that the file does not exist;                   *)
(* the content of the transaction-state file is the transaction ID.  The   *)
(* targets of one transaction are distinct files, so the model replaces    *)
(* them in any order.                                                      *)
(***************************************************************************)
EXTENDS Naturals

CONSTANTS Procs,       \* processes that use the catalog
          Windows,     \* those of them that are built for Windows
          Targets,     \* files of the catalog directory
          StateFile,   \* .txbase.catalog.state
          Contents,    \* contents writers give the files
          MaxId        \* bound: catalog transaction IDs

ASSUME CatalogAssumption ==
  /\ Windows \subseteq Procs
  /\ StateFile \in Targets
  /\ Contents \subseteq Nat /\ 0 \in Contents
  /\ MaxId \in Nat

(* What a file may hold.                                                   *)
Bytes == Contents \cup 0..MaxId

VARIABLES files,       \* the content of each file
          dir,         \* the journal directory exists
          staged,      \* targets whose old and new bytes are in the journal
          phase,       \* of the manifest, "none" when there is no manifest
          changed,     \* targets the journal is about ...
          before,      \* ... their old ...
          after,       \* ... and their new contents
          pc,          \* where each process is
          mode,        \* what each process takes the lock for
          todo         \* targets the lock holder has still to replace

vars == <<files, dir, staged, phase, changed, before, after, pc, mode, todo>>

disk == <<files, dir, staged, phase, changed, before, after>>

(* The places at which a process holds the lock exclusively.               *)
Exclusive == {"recovering", "replaying", "sweeping", "locked", "staging",
              "applying", "committed", "cleaning"}

Places == Exclusive \cup {"idle", "gap", "reading"}

Init ==
  /\ files \in [Targets -> Contents] /\ files[StateFile] = 0
  /\ dir = FALSE /\ staged = {} /\ phase = "none"
  /\ changed = {} /\ before = files /\ after = files
  /\ pc = [p \in Procs |-> "idle"]
  /\ mode = [p \in Procs |-> "read"]
  /\ todo = {}

Goto(p, place) == pc' = [pc EXCEPT ![p] = place]

(***************************************************************************)
(* Taking the lock.                                                        *)
(***************************************************************************)
(* Mutant: the exclusive lock is taken as a shared one.                    *)
lock_ignores_readers == \A q \in Procs : pc[q] \notin Exclusive

open_lock_exclusive == \A q \in Procs : pc[q] \notin Exclusive \cup {"reading"}

open_lock_shared == \A q \in Procs : pc[q] \notin Exclusive

(* read_lock and write_lock both recover first, under the exclusive lock.  *)
Lock(p, m) ==
  /\ pc[p] = "idle"
  /\ open_lock_exclusive
  /\ Goto(p, "recovering")
  /\ mode' = [mode EXCEPT ![p] = m]
  /\ UNCHANGED <<disk, todo>>

(* A reader drops the exclusive lock and then asks for the shared one.     *)
Unlocked(p) == IF mode[p] = "read" THEN "gap" ELSE "locked"

LockShared(p) ==
  /\ pc[p] = "gap"
  /\ open_lock_shared
  /\ Goto(p, "reading")
  /\ UNCHANGED <<disk, mode, todo>>

(* A reader is done, or a writer returns without changing anything.        *)
Release(p) ==
  /\ pc[p] \in {"reading", "locked"}
  /\ Goto(p, "idle")
  /\ UNCHANGED <<disk, mode, todo>>

(* A crash or an I/O error.  From "committed" and "cleaning" it is also    *)
(* the cleanup whose errors commit_files ignores.                          *)
Fail(p) ==
  /\ pc[p] # "idle"
  /\ Goto(p, "idle")
  /\ todo' = IF pc[p] \in Exclusive THEN {} ELSE todo
  /\ UNCHANGED <<disk, mode>>

(***************************************************************************)
(* recover_locked.                                                         *)
(***************************************************************************)
RecoverNothing(p) ==
  /\ pc[p] = "recovering"
  /\ ~dir
  /\ Goto(p, Unlocked(p))
  /\ UNCHANGED <<disk, mode, todo>>

RecoverOrphan(p) ==
  /\ pc[p] = "recovering"
  /\ dir /\ phase = "none"
  /\ Goto(p, "sweeping")
  /\ UNCHANGED <<disk, mode, todo>>

RecoverManifest(p) ==
  /\ pc[p] = "recovering"
  /\ dir /\ phase # "none"
  /\ Goto(p, "replaying")
  /\ todo' = changed
  /\ UNCHANGED <<disk, mode>>

StagedBytes(t, rollback) == IF rollback THEN before[t] ELSE after[t]

(* Whether write_target has a file to remove before the rename.            *)
InTheWay(p, t, rollback) ==
  p \in Windows /\ files[t] # 0 /\ StagedBytes(t, rollback) # 0

(* Mutant: the new bytes are written also when rolling back.               *)
apply_forward(p, t, rollback) ==
  /\ t \in staged
  /\ ~InTheWay(p, t, rollback)
  /\ files' = [files EXCEPT ![t] = after[t]]
  /\ todo' = todo \ {t}

apply_change(p, t, rollback) ==
  /\ t \in staged
  /\ ~InTheWay(p, t, rollback)
  /\ files' = [files EXCEPT ![t] = StagedBytes(t, rollback)]
  /\ todo' = todo \ {t}

(* The first half of write_target on Windows, in recovery and in a commit. *)
RemoveTarget(p, t) ==
  /\ pc[p] \in {"replaying", "applying"}
  /\ t \in todo \cap staged
  /\ InTheWay(p, t, pc[p] = "replaying" /\ phase = "prepared")
  /\ files' = [files EXCEPT ![t] = 0]
  /\ UNCHANGED <<dir, staged, phase, changed, before, after, pc, mode, todo>>

Replay(p, t) ==
  /\ pc[p] = "replaying"
  /\ t \in todo
  /\ apply_change(p, t, phase = "prepared")
  /\ UNCHANGED <<dir, staged, phase, changed, before, after, pc, mode>>

(* Mutant: recovery looks for a journal again and leaves the manifest.     *)
recover_again(p) ==
  /\ pc[p] = "replaying"
  /\ todo = {}
  /\ Goto(p, "recovering")
  /\ UNCHANGED <<disk, mode, todo>>

RemoveReplayed(p) ==
  /\ pc[p] = "replaying"
  /\ todo = {}
  /\ phase' = "none"
  /\ Goto(p, "sweeping")
  /\ UNCHANGED <<files, dir, staged, changed, before, after, mode, todo>>

(* remove_dir_all deletes one file after the other, the directory last.    *)
SweepFile(p, t) ==
  /\ pc[p] \in {"sweeping", "cleaning"}
  /\ t \in staged
  /\ staged' = staged \ {t}
  /\ UNCHANGED <<files, dir, phase, changed, before, after, pc, mode, todo>>

SweepDirectory(p) ==
  /\ pc[p] \in {"sweeping", "cleaning"}
  /\ staged = {}
  /\ dir' = FALSE
  /\ Goto(p, IF pc[p] = "sweeping" THEN Unlocked(p) ELSE "idle")
  /\ UNCHANGED <<files, staged, phase, changed, before, after, mode, todo>>

(***************************************************************************)
(* commit, commit_at and commit_files.  The caller read the old contents   *)
(* under the lock it still holds.                                          *)
(***************************************************************************)
NewContents(T) ==
  {new \in [Targets -> Bytes] :
     /\ \A t \in Targets \ T : new[t] = files[t]
     /\ StateFile \in T => new[StateFile] \in 0..MaxId /\ new[StateFile] > files[StateFile]
     /\ \A t \in T \ {StateFile} : new[t] \in Contents}

BeginCommit(p) ==
  /\ pc[p] = "locked"
  /\ ~dir
  /\ \E T \in (SUBSET Targets) \ {{}} : \E new \in NewContents(T) :
       changed' = T /\ after' = new
  /\ before' = files
  /\ dir' = TRUE
  /\ staged' = {}
  /\ Goto(p, "staging")
  /\ UNCHANGED <<files, phase, mode, todo>>

Stage(p, t) ==
  /\ pc[p] = "staging"
  /\ t \in changed \ staged
  /\ staged' = staged \cup {t}
  /\ UNCHANGED <<files, dir, phase, changed, before, after, pc, mode, todo>>

(* Mutant: the manifest is written before the bytes are staged.            *)
prepared_before_staged(p) ==
  /\ pc[p] = "staging"
  /\ phase' = "prepared"
  /\ todo' = changed
  /\ Goto(p, "applying")
  /\ UNCHANGED <<files, dir, staged, changed, before, after, mode>>

WritePrepared(p) ==
  /\ pc[p] = "staging"
  /\ staged = changed
  /\ phase' = "prepared"
  /\ todo' = changed
  /\ Goto(p, "applying")
  /\ UNCHANGED <<files, dir, staged, changed, before, after, mode>>

Apply(p, t) ==
  /\ pc[p] = "applying"
  /\ t \in todo
  /\ apply_change(p, t, FALSE)
  /\ UNCHANGED <<dir, staged, phase, changed, before, after, pc, mode>>

(* On Windows write_manifest removes the Prepared manifest first.  With    *)
(* every file replaced, this is what commits: a journal without a manifest *)
(* is only swept.                                                          *)
RemovePrepared(p) ==
  /\ pc[p] = "applying"
  /\ todo = {}
  /\ p \in Windows /\ phase = "prepared"
  /\ phase' = "none"
  /\ UNCHANGED <<files, dir, staged, changed, before, after, pc, mode, todo>>

WriteCommitted(p) ==
  /\ pc[p] = "applying"
  /\ todo = {}
  /\ p \in Windows => phase = "none"
  /\ phase' = "committed"
  /\ Goto(p, "committed")
  /\ UNCHANGED <<files, dir, staged, changed, before, after, mode, todo>>

remove_manifest(p) ==
  /\ pc[p] = "committed"
  /\ phase' = "none"
  /\ Goto(p, "cleaning")
  /\ UNCHANGED <<files, dir, staged, changed, before, after, mode, todo>>

(* What a process that holds the exclusive lock does to the journal.       *)
Work(p) ==
  \/ RecoverNothing(p) \/ RecoverOrphan(p) \/ RecoverManifest(p)
  \/ RemoveReplayed(p) \/ SweepDirectory(p)
  \/ BeginCommit(p) \/ WritePrepared(p) \/ RemovePrepared(p) \/ WriteCommitted(p)
  \/ remove_manifest(p)
  \/ \E t \in Targets : \/ RemoveTarget(p, t) \/ Replay(p, t) \/ SweepFile(p, t)
                         \/ Stage(p, t) \/ Apply(p, t)

Next ==
  \E p \in Procs :
    \/ Work(p) \/ LockShared(p) \/ Release(p) \/ Fail(p)
    \/ \E m \in {"read", "write"} : Lock(p, m)

Spec == Init /\ [][Next]_vars

(* recover_locked and commit_files are synchronous and wait for nobody, so *)
(* a process inside them keeps taking steps.  Between the two, at "locked" *)
(* and "reading", the lock is in the hands of a caller, who may wait for   *)
(* table locks or keep it, and nothing is assumed.                         *)
FairSpec == Spec /\ \A p \in Procs : WF_vars(Work(p) /\ pc[p] # "locked")

(***************************************************************************)
(* Properties.                                                             *)
(***************************************************************************)
TypeOK ==
  /\ files \in [Targets -> Bytes] /\ before \in [Targets -> Bytes] /\ after \in [Targets -> Bytes]
  /\ dir \in BOOLEAN
  /\ phase \in {"none", "prepared", "committed"}
  /\ staged \subseteq Targets /\ changed \subseteq Targets /\ todo \subseteq Targets
  /\ pc \in [Procs -> Places]
  /\ mode \in [Procs -> {"read", "write"}]

(* Whenever there is a manifest, commit_files and recover_locked left      *)
(* everything recovery needs: the journal directory holds the staged bytes *)
(* of every target it lists, no other file was touched, and each target    *)
(* holds its old or its new content, or was removed to make room for it.   *)
JournalRecoverable ==
  phase # "none" =>
    /\ dir
    /\ staged = changed
    /\ \A t \in Targets : \/ files[t] = before[t] \/ files[t] = after[t]
                          \/ (Windows # {} /\ files[t] = 0)
    /\ \A t \in Targets \ changed : files[t] = before[t] /\ files[t] = after[t]

(* What the directory durably is: recover_locked would roll a Prepared     *)
(* manifest back and apply a Committed one.                                *)
Durable ==
  CASE phase = "none"      -> files
    [] phase = "prepared"  -> before
    [] phase = "committed" -> after

(* The lock: a process at an exclusive place is alone, but for readers     *)
(* between their two locks.                                                *)
MutualExclusion ==
  \A p, q \in Procs :
    p # q /\ pc[p] \in Exclusive => pc[q] \notin Exclusive \cup {"reading"}

(* What the lock holder may rely on at each place of commit_files and of   *)
(* recover_locked, whatever failed before it: while staging the files are  *)
(* still the old ones; the files it has replaced have the content it is    *)
(* heading for; Committed is only on disk once every file is new; and the  *)
(* staged bytes are swept only when no manifest needs them.                *)
HolderKnows ==
  \A p \in Procs :
    /\ pc[p] = "staging" =>
         /\ dir /\ phase = "none" /\ staged \subseteq changed
         /\ before = files
         /\ \A t \in Targets \ changed : after[t] = files[t]
    /\ pc[p] = "applying" =>
         /\ phase = "prepared" \/ (phase = "none" /\ todo = {} /\ p \in Windows)
         /\ dir /\ staged = changed /\ todo \subseteq changed
         /\ \A t \in Targets \ changed : files[t] = before[t] /\ files[t] = after[t]
         /\ \A t \in changed \ todo : files[t] = after[t]
    /\ pc[p] = "replaying" =>
         /\ phase # "none" /\ todo \subseteq changed
         /\ \A t \in changed \ todo : files[t] = Durable[t]
    /\ pc[p] = "committed" => phase = "committed" /\ files = after
    /\ pc[p] \in {"sweeping", "cleaning"} => phase = "none"

(* The inductive invariant.                                                *)
Inv == TypeOK /\ MutualExclusion /\ JournalRecoverable /\ HolderKnows

(* A writer that stages or replaces offers the new contents, until they    *)
(* are committed.                                                          *)
Offers(p) == pc[p] = "staging" \/ (pc[p] = "applying" /\ phase = "prepared")

Proposal == IF \E p \in Procs : Offers(p) THEN <<after>> ELSE <<>>

Cell == INSTANCE CatalogCell WITH Contents <- Bytes, contents <- Durable, proposal <- Proposal

(* Whatever fails, and whoever recovers, a catalog transaction takes       *)
(* effect on all its files in one step or on none, and the transaction ID  *)
(* in the state file never goes back.                                      *)
Refines == Cell!Spec

(* No journal user changes a file of the catalog while a process holds the *)
(* shared lock: neither commit_files nor recover_locked runs beside a      *)
(* CatalogReadLock.  Saves of a single table, and the table recovery that  *)
(* readers make themselves, take other locks and are no part of this.      *)
StableWhileRead == [][(\E p \in Procs : pc[p] = "reading") => UNCHANGED files]_vars

(* Neither loop of the journal runs for ever.  recover_locked hands the    *)
(* lock to its caller or, when it fails, gives it up, and commit_files     *)
(* gives it up: no place of theirs is held for ever.                       *)
JournalEnds == \A p \in Procs : []<>(pc[p] \notin Exclusive \ {"locked"})

(* A reader that holds the lock read_lock returned sees the files as the   *)
(* last commit left them: an incomplete prepare was rolled back.           *)
ReadersSeeCommitted == \A p \in Procs : pc[p] = "reading" => files = Durable
=============================================================================
