------------------------ MODULE ObjectAdaptersProofs -------------------------
(***************************************************************************)
(* The inductive invariant AdapterInv of the adapters, for any number of    *)
(* processes, keys and values and any number of calls, faults and crashes,  *)
(* and from it, step by step, that the adapters implement the ObjectStore   *)
(* contract, which sees the objects without the file that is being written. *)
(***************************************************************************)
EXTENDS ObjectAdapters, TLAPS

Places == {"idle", "start", "locked", "writing", "renaming", "matched", "late", "sent", "abandoned"}

(* The shape of a call, for the steps that need not know the record sets.  *)
LEMMA CallShape ==
  ASSUME NEW c \in Calls
  PROVE  /\ c.do \in {"get", "put", "cas", "delete"} /\ c.key \in Keys
         /\ c.do = "put" => c.value \in Values
         /\ c.do = "cas" => c.value \in Values /\ c.expected \in Values \cup {None}
BY Zenon DEF Calls

(* The marks for "nothing", "torn" and "refused" are none of the values,      *)
(* processes, calls, answers or statuses.                                     *)
LEMMA NoneIsNew ==
  /\ None \notin Values /\ None \notin Procs /\ None \notin Calls
  /\ None \notin Answers /\ None \notin Statuses
  /\ Torn \notin Values /\ Torn # None /\ "refused" \notin Values
BY AdapterAssumption, Zenon

(* The variables of the other processes are left alone.                    *)
Others(p) ==
  \A q \in Procs : q # p =>
      /\ at'[q] = at[q] /\ call'[q] = call[q] /\ verdict'[q] = verdict[q]
      /\ result'[q] = result[q] /\ seen'[q] = seen[q] /\ reply'[q] = reply[q]

(* A step of p keeps what the others know: only p, or nobody, held a lock  *)
(* that changes hands.                                                     *)
LEMMA OthersKept ==
  ASSUME AdapterInv, NEW p \in Procs, Others(p), host' = host,
         lock' = lock \/ lock = None \/ lock = p
  PROVE  \A q \in Procs : q # p => PlaceOK(q)' /\ StatusOK(q)'
<1> SUFFICES ASSUME NEW q \in Procs, q # p
             PROVE  PlaceOK(q)' /\ StatusOK(q)'
  BY Zenon
<1>1. PlaceOK(q) /\ StatusOK(q)
  BY Zenon DEF AdapterInv
<1>2. /\ at'[q] = at[q] /\ call'[q] = call[q] /\ verdict'[q] = verdict[q]
      /\ result'[q] = result[q] /\ seen'[q] = seen[q] /\ reply'[q] = reply[q]
  BY Zenon DEF Others
<1>3. PlaceOK(q)'
  BY <1>1, <1>2, NoneIsNew, Zenon DEF PlaceOK
<1>4. StatusOK(q)'
  BY <1>1, <1>2 DEF StatusOK
<1> QED
  BY <1>3, <1>4, Zenon

(* The conjuncts of the invariant, for a step of p.                        *)
LEMMA Assemble ==
  ASSUME AdapterInv, NEW p \in Procs, Others(p), host' = host,
         lock' = lock \/ lock = None \/ lock = p,
         AdapterTypeOK', LockProtects', NamesAreFresh', PlaceOK(p)', StatusOK(p)'
  PROVE  AdapterInv'
BY OthersKept, Zenon DEF AdapterInv

(* Only the lock holder is at a place that needs the lock.                 *)
LEMMA OneHolder ==
  ASSUME AdapterInv, NEW p \in Procs, lock = p \/ lock = None \/ host # "fs"
  PROVE  /\ \A q \in Procs : q # p => at[q] \notin {"locked", "writing", "renaming"}
         /\ lock = None \/ host # "fs" => at[p] \notin {"locked", "writing", "renaming"}
BY NoneIsNew, Zenon DEF AdapterInv, PlaceOK

(* With no file being written no object is torn.                           *)
LEMMA NothingTorn ==
  ASSUME AdapterInv, \A q \in Procs : at[q] # "writing"
  PROVE  objects \in [Keys -> Values \cup {None}]
BY DEF AdapterInv, AdapterTypeOK, LockProtects, Optional

(* Every host starts with an empty store and no call. *)
LEMMA InitInv == Init => AdapterInv
<1> SUFFICES ASSUME Init PROVE AdapterInv
  BY Zenon
<1> USE DEF Init
<1>1. AdapterTypeOK
  BY Zenon DEF AdapterTypeOK, Optional
<1>2. LockProtects /\ NamesAreFresh
  BY NoneIsNew, Zenon DEF LockProtects, NamesAreFresh
<1>3. \A p \in Procs : PlaceOK(p) /\ StatusOK(p)
  BY ZenonT(60) DEF PlaceOK, StatusOK
<1> QED
  BY <1>1, <1>2, <1>3, Zenon DEF AdapterInv

(* A new call (the start of an ObjectStore method) keeps the invariant. *)
LEMMA CallInv ==
  ASSUME AdapterInv, NEW p \in Procs, Call(p)
  PROVE  AdapterInv'
<1> USE DEF Call, At, file
<1>0. AdapterTypeOK /\ PlaceOK(p)
  BY Zenon DEF AdapterInv
<1>1. AdapterTypeOK'
  BY <1>0 DEF AdapterTypeOK, Optional
<1>2. Others(p)
  BY <1>0, Zenon DEF Others, AdapterTypeOK
<1>3. /\ at'[p] = "start" /\ call'[p] \in Calls /\ verdict'[p] = None /\ result'[p] = None
      /\ seen'[p] = None /\ reply'[p] = None
  BY <1>0, Zenon DEF AdapterTypeOK
<1>4. PlaceOK(p)' /\ StatusOK(p)'
  BY <1>3, NoneIsNew DEF PlaceOK, StatusOK, Answers
<1>5. LockProtects'
  BY <1>2, <1>0 DEF Others, LockProtects, AdapterInv, AdapterTypeOK, Key
<1>6. NamesAreFresh'
  BY Zenon DEF NamesAreFresh, AdapterInv
<1> QED
  BY <1>1, <1>2, <1>4, <1>5, <1>6, Assemble, Zenon

(* A step that ends an operation of p with an answer, changes no object    *)
(* and leaves the temporary files alone.                                   *)
LEMMA EndInv ==
  ASSUME AdapterInv, NEW p \in Procs, at[p] \notin {"writing", "renaming"},
         NEW v \in Optional \cup Answers, NEW r \in Optional \cup Answers, Done(p, v, r), r # None,
         UNCHANGED <<host, objects, call, seen, temps, pid, sequence, reply>>,
         lock' = lock \/ (lock = p /\ lock' = None)
  PROVE  AdapterInv'
<1> USE DEF Done
<1>0. AdapterTypeOK /\ PlaceOK(p)
  BY Zenon DEF AdapterInv
<1>1. AdapterTypeOK'
  BY <1>0, Zenon DEF AdapterTypeOK
<1>2. Others(p)
  BY <1>0, Zenon DEF Others, AdapterTypeOK
<1>3. PlaceOK(p)' /\ StatusOK(p)'
  BY <1>0 DEF PlaceOK, StatusOK, AdapterTypeOK
<1>4. LockProtects'
  BY <1>2, <1>0 DEF Others, LockProtects, AdapterInv, AdapterTypeOK, Key
<1>5. NamesAreFresh'
  BY Zenon DEF NamesAreFresh, AdapterInv
<1> QED
  BY <1>1, <1>2, <1>3, <1>4, <1>5, Assemble, Zenon

(* While no file is half written, what a call reads has the type of an        *)
(* answer.                                                                    *)
LEMMA ContentType ==
  ASSUME AdapterInv, NEW p \in Procs, call[p] \in Calls, \A q \in Procs : at[q] # "writing"
  PROVE  /\ Key(p) \in Keys /\ Current(p) \in Optional
         /\ Content(p) \in Optional \cup Answers /\ Content(p) # None
<1>1. Key(p) \in Keys
  BY CallShape, Zenon DEF Key
<1>2. Current(p) \in Optional
  BY <1>1, NothingTorn, Zenon DEF Current, Optional
<1> QED
  BY <1>1, <1>2, NoneIsNew, Zenon DEF Content, Optional, Answers

(* fs get keeps the invariant. *)
LEMMA GetInv ==
  ASSUME AdapterInv, NEW p \in Procs, fs_get(p), host = "fs"
  PROVE  AdapterInv'
<1>1. \A q \in Procs : at[q] # "writing"
  BY OneHolder, Zenon DEF fs_get
<1>2. call[p] \in Calls
  BY Zenon DEF fs_get, At, AdapterInv, PlaceOK
<1>3. /\ Content(p) \in Optional \cup Answers /\ Content(p) # None
  BY <1>1, <1>2, ContentType, Zenon
<1> QED
  BY <1>3, EndInv, Zenon DEF fs_get, FileRest, file, fetch, At

(* with_lock keeps the invariant: the file is created only when it is absent. *)
LEMMA LockInv ==
  ASSUME AdapterInv, NEW p \in Procs, with_lock(p), host = "fs"
  PROVE  AdapterInv'
<1> USE DEF with_lock, Goto, At, FileRest, fetch
<1>0. AdapterTypeOK /\ PlaceOK(p)
  BY Zenon DEF AdapterInv
<1>1. AdapterTypeOK'
  BY <1>0, Zenon DEF AdapterTypeOK
<1>2. Others(p)
  BY <1>0, Zenon DEF Others, AdapterTypeOK
<1>3. PlaceOK(p)' /\ StatusOK(p)'
  BY <1>0, ZenonT(60) DEF PlaceOK, StatusOK, AdapterTypeOK
<1>4. LockProtects'
  BY <1>2, <1>0 DEF Others, LockProtects, AdapterInv, AdapterTypeOK, Key
<1>5. NamesAreFresh'
  BY Zenon DEF NamesAreFresh, AdapterInv
<1> QED
  BY <1>1, <1>2, <1>3, <1>4, <1>5, Assemble, Zenon

(* fs put_if_absent keeps the invariant at each of its steps. *)
LEMMA PutInv ==
  ASSUME AdapterInv, NEW p \in Procs, fs_put_if_absent(p), host = "fs"
  PROVE  AdapterInv'
<1> USE DEF At, FileRest, file, fetch
<1>0. AdapterTypeOK /\ PlaceOK(p) /\ call[p] \in Calls /\ lock = p /\ Key(p) \in Keys
  BY CallShape, Zenon DEF fs_put_if_absent, AdapterInv, PlaceOK, Key
<1>1. CASE Current(p) # None
  <2>1. PICK r \in {"ok", "conflict"} : Done(p, r, r)
    BY <1>1, Zenon DEF fs_put_if_absent
  <2> QED
    BY <1>0, <1>1, <2>1, EndInv, NoneIsNew, Zenon DEF fs_put_if_absent, Unlock, Answers
<1>2. CASE Current(p) = None
  <2> USE <1>2 DEF fs_put_if_absent, Store, Goto
  <2>1. AdapterTypeOK'
    BY <1>0, Zenon DEF AdapterTypeOK
  <2>2. Others(p)
    BY <1>0, Zenon DEF Others, AdapterTypeOK
  <2>3. PlaceOK(p)' /\ StatusOK(p)'
    BY <1>0 DEF PlaceOK, StatusOK, AdapterTypeOK
  <2>4. \A q \in Procs : q # p => at[q] \notin {"writing", "renaming"}
    BY <1>0, OneHolder, Zenon
  <2>5. LockProtects'
    BY <2>2, <2>4, <1>0, SMTT(60) DEF Others, LockProtects, AdapterInv, AdapterTypeOK, Key
  <2>6. NamesAreFresh'
    BY Zenon DEF NamesAreFresh, AdapterInv
  <2> QED
    BY <2>1, <2>2, <2>3, <2>5, <2>6, Assemble, Zenon
<1> QED
  BY <1>1, <1>2, Zenon

(* The lock holder stores w, or nothing, and ends.                         *)
LEMMA HolderEnds ==
  ASSUME AdapterInv, NEW p \in Procs, at[p] \in {"locked", "writing", "renaming"},
         NEW v \in Optional \cup Answers, NEW r \in Optional \cup Answers, Done(p, v, r), r # None,
         NEW w \in Optional,
         \/ objects' = [objects EXCEPT ![Key(p)] = w]
         \/ objects' = objects /\ at[p] # "writing",
         UNCHANGED <<host, call, seen, pid, sequence, reply>>,
         temps' \subseteq temps, lock' = None
  PROVE  AdapterInv'
<1> USE DEF Done
<1>0. AdapterTypeOK /\ PlaceOK(p) /\ lock = p /\ Key(p) \in Keys
  BY CallShape, Zenon DEF AdapterInv, PlaceOK, Key
<1>1. AdapterTypeOK'
  BY <1>0, ZenonT(60) DEF AdapterTypeOK
<1>2. Others(p)
  BY <1>0, Zenon DEF Others, AdapterTypeOK
<1>3. PlaceOK(p)' /\ StatusOK(p)'
  BY <1>0 DEF PlaceOK, StatusOK, AdapterTypeOK
<1>4. \A q \in Procs : at'[q] \notin {"writing", "renaming"}
  BY <1>0, <1>2, OneHolder DEF Others, AdapterTypeOK
<1>5. \A k \in Keys : objects'[k] # Torn
  <2> SUFFICES ASSUME NEW k \in Keys, objects'[k] = Torn PROVE FALSE
    BY Zenon
  <2>1. CASE k = Key(p)
    <3>1. objects'[k] = w \/ (objects'[k] = objects[k] /\ at[p] # "writing")
      BY <1>0, <2>1, Zenon DEF AdapterTypeOK
    <3>2. objects[k] # Torn \/ at[p] = "writing"
      BY <1>0, <2>1, OneHolder, Zenon DEF AdapterInv, LockProtects
    <3> QED
      BY <3>1, <3>2, NoneIsNew, Zenon DEF Optional
  <2>2. CASE k # Key(p)
    <3>1. objects[k] = Torn
      BY <1>0, <2>2, Zenon DEF AdapterTypeOK
    <3> QED
      BY <1>0, <3>1, <2>2, OneHolder, Zenon DEF AdapterInv, LockProtects
  <2> QED
    BY <2>1, <2>2, Zenon
<1>6. LockProtects'
  BY <1>4, <1>5, Zenon DEF LockProtects
<1>7. NamesAreFresh'
  BY Zenon DEF NamesAreFresh, AdapterInv
<1> QED
  BY <1>0, <1>1, <1>2, <1>3, <1>6, <1>7, Assemble, Zenon

(* The writing steps of the file-system store (write_new, replace_atomically, *)
(* delete) keep the invariant.                                                *)
LEMMA WriteInv ==
  ASSUME AdapterInv, NEW p \in Procs, write_new(p) \/ replace_atomically(p) \/ fs_delete(p)
  PROVE  AdapterInv'
<1> USE DEF At
<1>1. at[p] \in {"locked", "writing", "renaming"} /\ call[p] \in Calls
  BY Zenon DEF write_new, replace_atomically, fs_delete, AdapterInv, PlaceOK
<1>2. at[p] \in {"writing", "renaming"} => call[p].value \in Optional
  BY <1>1, CallShape, Zenon DEF AdapterInv, LockProtects, Optional
<1>3. PICK v \in {"ok", None} : \E r \in {"ok", "unavailable"} : Done(p, v, r)
  BY Zenon DEF write_new, replace_atomically, fs_delete
<1>4. PICK r \in {"ok", "unavailable"} : Done(p, v, r)
  BY <1>3, Zenon
<1>5. /\ v \in Optional \cup Answers /\ r \in Optional \cup Answers /\ r # None
  BY NoneIsNew, Zenon DEF Optional, Answers
<1>6. /\ UNCHANGED <<host, call, seen, pid, sequence, reply>>
      /\ temps' \subseteq temps /\ lock' = None
  BY Zenon DEF write_new, replace_atomically, fs_delete, Unlock, FileRest, fetch
<1>7. PICK w \in Optional : \/ objects' = [objects EXCEPT ![Key(p)] = w]
                            \/ objects' = objects /\ at[p] # "writing"
  BY <1>2, Zenon DEF write_new, replace_atomically, fs_delete, Store, Optional
<1> QED
  BY <1>1, <1>4, <1>5, <1>6, <1>7, HolderEnds, Zenon

(* fs compare_and_swap keeps the invariant at each of its steps. *)
LEMMA SwapInv ==
  ASSUME AdapterInv, NEW p \in Procs, fs_compare_and_swap(p), host = "fs"
  PROVE  AdapterInv'
<1> USE DEF At, FileRest, fetch
<1>0. /\ AdapterTypeOK /\ PlaceOK(p) /\ NamesAreFresh /\ call[p] \in Calls /\ lock = p
      /\ Key(p) \in Keys /\ at[p] = "locked"
  BY CallShape, Zenon DEF fs_compare_and_swap, AdapterInv, PlaceOK, Key
<1>1. CASE Current(p) # call[p].expected
  BY <1>0, <1>1, EndInv, NoneIsNew, Zenon DEF fs_compare_and_swap, Answers
<1>2. CASE Current(p) = call[p].expected
  <2> USE <1>2 DEF fs_compare_and_swap
  <2>1. Temporary(p) \notin temps
    BY <1>0, SMTT(60) DEF NamesAreFresh, Temporary, AdapterTypeOK
  <2>2. sequence' = [sequence EXCEPT ![p] = sequence[p] + 1] /\ temps' = temps \cup {Temporary(p)}
    BY <2>1, Zenon
  <2>3. Goto(p, "renaming") /\ UNCHANGED <<lock, pid, objects, host, call, seen, reply>>
    BY <2>1, Zenon
  <2> USE DEF Goto
  <2>4. AdapterTypeOK'
    <3>1. Temporary(p) \in Keys \X Procs \X Nat \X Nat
      BY <1>0, Zenon DEF Temporary, AdapterTypeOK
    <3>2. sequence' \in [Procs -> Nat]
      BY <1>0, <2>2 DEF AdapterTypeOK
    <3> QED
      BY <1>0, <2>2, <2>3, <3>1, <3>2, Zenon DEF AdapterTypeOK
  <2>5. Others(p)
    BY <1>0, <2>3, Zenon DEF Others, AdapterTypeOK
  <2>6. PlaceOK(p)' /\ StatusOK(p)'
    BY <1>0, <2>3, ZenonT(60) DEF PlaceOK, StatusOK, AdapterTypeOK
  <2>7. LockProtects'
    <3>1. at'[p] = "renaming" /\ call'[p].do = "cas" /\ objects'[Key(p)'] = call'[p].expected
      BY <1>0, <2>3, Zenon DEF AdapterTypeOK, Key, Current
    <3> QED
      BY <1>0, <2>3, <2>5, <3>1, SMTT(60) DEF Others, LockProtects, AdapterInv, AdapterTypeOK, Key
  <2>8. NamesAreFresh'
    <3> SUFFICES ASSUME NEW t \in temps'
                 PROVE  t[3] <= pid[t[2]] /\ (t[3] = pid[t[2]] => t[4] < sequence'[t[2]])
      BY <2>3, Zenon DEF NamesAreFresh
    <3>1. CASE t \in temps
      <4>1. t[2] \in Procs /\ t[4] \in Nat
        BY <3>1, <1>0, Zenon DEF AdapterTypeOK
      <4>2. sequence[t[2]] \in Nat /\ (sequence'[t[2]] = sequence[t[2]] \/ sequence'[t[2]] = sequence[t[2]] + 1)
        BY <4>1, <1>0, <2>2, Zenon DEF AdapterTypeOK
      <4> QED
        BY <3>1, <1>0, <4>1, <4>2 DEF NamesAreFresh
    <3>2. CASE t = Temporary(p)
      BY <3>2, <1>0, <2>2, SMTT(60) DEF Temporary, AdapterTypeOK
    <3> QED
      BY <2>2, <3>1, <3>2, Zenon
  <2> QED
    BY <2>3, <2>4, <2>5, <2>6, <2>7, <2>8, Assemble, Zenon
<1> QED
  BY <1>1, <1>2, Zenon

(* A crash of a process keeps the invariant when process IDs are not used     *)
(* again and no file is left torn.                                            *)
LEMMA CrashInv ==
  ASSUME ~SamePid, ~TornFiles, AdapterInv, NEW p \in Procs, Crash(p)
  PROVE  AdapterInv'
<1> USE DEF Crash, At, FileRest, fetch, Done
<1>0. AdapterTypeOK /\ PlaceOK(p) /\ NamesAreFresh
  BY Zenon DEF AdapterInv
<1>1. AdapterTypeOK'
  <2>1. pid' \in [Procs -> Nat] /\ sequence' \in [Procs -> Nat]
    BY <1>0 DEF AdapterTypeOK
  <2>2. /\ verdict' \in [Procs -> Optional \cup Answers] /\ result' \in [Procs -> Optional \cup Answers]
        /\ at' \in [Procs -> Places]
    BY <1>0, Zenon DEF AdapterTypeOK, Answers, Optional, Places
  <2>3. lock' \in Procs \cup {None}
    BY <1>0, Zenon DEF AdapterTypeOK
  <2> QED
    BY <1>0, <2>1, <2>2, <2>3, Zenon DEF AdapterTypeOK, Places
<1>2. Others(p)
  BY <1>0, Zenon DEF Others, AdapterTypeOK
<1>3. PlaceOK(p)' /\ StatusOK(p)'
  BY <1>0, NoneIsNew, SMTT(60) DEF PlaceOK, StatusOK, AdapterTypeOK, Answers
<1>4. LockProtects'
  BY <1>2, <1>0, SMTT(60) DEF Others, LockProtects, AdapterInv, AdapterTypeOK, Key
<1>5. NamesAreFresh'
  <2> SUFFICES ASSUME NEW t \in temps
               PROVE  t[3] <= pid'[t[2]] /\ (t[3] = pid'[t[2]] => t[4] < sequence'[t[2]])
    BY Zenon DEF NamesAreFresh
  <2>1. t[2] \in Procs /\ t[3] \in Nat /\ pid[t[2]] \in Nat
    BY <1>0, Zenon DEF AdapterTypeOK
  <2>2. t[3] <= pid[t[2]]
    BY <1>0, Zenon DEF NamesAreFresh
  <2>3. CASE t[2] = p
    <3>1. pid'[t[2]] = pid[t[2]] + 1
      BY <1>0, <2>1, <2>3, Zenon DEF AdapterTypeOK
    <3> QED
      BY <2>1, <2>2, <3>1
  <2>4. CASE t[2] # p
    <3>1. pid'[t[2]] = pid[t[2]] /\ sequence'[t[2]] = sequence[t[2]]
      BY <1>0, <2>1, <2>4, Zenon DEF AdapterTypeOK
    <3> QED
      BY <1>0, <3>1, Zenon DEF NamesAreFresh
  <2> QED
    BY <2>3, <2>4, Zenon
<1> QED
  BY <1>1, <1>2, <1>3, <1>4, <1>5, Assemble, Zenon

(* The services have no torn files: a step that stores a value or nothing. *)
LEMMA ServiceKeeps ==
  ASSUME AdapterInv, NEW p \in Procs, host # "fs", host' = host, call[p] \in Calls,
         NEW w \in Optional, objects' = objects \/ objects' = [objects EXCEPT ![Key(p)] = w],
         at'[p] \notin {"locked", "writing", "renaming"}, Others(p)
  PROVE  /\ objects' \in [Keys -> Optional] /\ LockProtects'
         /\ \A q \in Procs : at[q] # "writing"
<1>1. \A q \in Procs : at[q] \notin {"locked", "writing", "renaming"}
  BY OneHolder, Zenon
<1>2. \A q \in Procs : at'[q] \notin {"locked", "writing", "renaming"}
  BY <1>1, Zenon DEF Others
<1>3. objects \in [Keys -> Optional] /\ Key(p) \in Keys
  BY <1>1, NothingTorn, CallShape, Zenon DEF Optional, Key
<1>4. objects' \in [Keys -> Optional]
  BY <1>3, Zenon
<1>5. \A k \in Keys : objects'[k] # Torn
  BY <1>4, NoneIsNew, Zenon DEF Optional
<1> QED
  BY <1>1, <1>2, <1>4, <1>5, Zenon DEF LockProtects

(* What a conditional put stores and answers.                              *)
LEMMA PutShape ==
  ASSUME AdapterInv, NEW p \in Procs, call[p] \in Calls, call[p].do \in {"put", "cas"},
         NEW condition, NEW e, ServicePut(p, condition, e)
  PROVE  \E w \in Optional : objects' = objects \/ objects' = [objects EXCEPT ![Key(p)] = w]
<1>1. call[p].value \in Optional
  BY CallShape, Zenon DEF Optional
<1> QED
  BY <1>1, Zenon DEF ServicePut, Store

(* Every step of the R2 adapter changes p, and at most its object.         *)
LEMMA R2Shape ==
  ASSUME AdapterInv, NEW p \in Procs, R2(p)
  PROVE  /\ call[p] \in Calls /\ at[p] \in {"start", "matched", "late"}
         /\ UNCHANGED <<host, call, lock, temps, pid, sequence, reply>>
         /\ \E w \in Optional : objects' = objects \/ objects' = [objects EXCEPT ![Key(p)] = w]
<1> USE DEF At
<1>1. /\ call[p] \in Calls /\ at[p] \in {"start", "matched", "late"}
  BY Zenon DEF R2, readObject, r2_putIfAbsent, r2_compareAndSwap, r2_put, r2_late, r2_delete, r2_failed,
         AdapterInv, PlaceOK
<1>2. UNCHANGED <<host, call, lock, temps, pid, sequence, reply>>
  BY Zenon DEF R2, readObject, r2_putIfAbsent, r2_compareAndSwap, r2_put, r2_late, r2_delete, r2_failed,
         HostRest, file, fetch
<1>3. \E w \in Optional : objects' = objects \/ objects' = [objects EXCEPT ![Key(p)] = w]
  <2>0. None \in Optional
    BY Zenon DEF Optional
  <2>1. CASE readObject(p) \/ r2_delete(p) \/ r2_failed(p)
    BY <2>0, <2>1, Zenon DEF readObject, r2_delete, r2_failed, Store
  <2>2. CASE r2_putIfAbsent(p) \/ r2_compareAndSwap(p)
    BY <1>1, <2>0, <2>2, PutShape, Zenon DEF r2_putIfAbsent, r2_compareAndSwap
  <2>3. CASE r2_put(p)
    BY <1>1, <2>3, PutShape, Zenon DEF r2_put, AdapterInv, PlaceOK
  <2>4. CASE r2_late(p)
    BY <1>1, <2>0, <2>4, PutShape, Zenon DEF r2_late, AdapterInv, PlaceOK, Store
  <2> QED
    BY <2>1, <2>2, <2>3, <2>4, Zenon DEF R2
<1> QED
  BY <1>1, <1>2, <1>3, Zenon

(* What an exchange with the service may leave of p: an answer, a write    *)
(* that is still under way, or the ETag that was read.                     *)
LEMMA R2Places ==
  ASSUME AdapterInv, NEW p \in Procs, R2(p)
  PROVE  /\ verdict' \in [Procs -> Optional \cup Answers] /\ result' \in [Procs -> Optional \cup Answers]
         /\ at' \in [Procs -> Places] /\ seen' \in [Procs -> Optional]
         /\ Others(p) /\ PlaceOK(p)' /\ at'[p] \in {"idle", "matched", "late"}
<1> USE DEF At
<1>0. /\ AdapterTypeOK /\ PlaceOK(p) /\ call[p] \in Calls /\ host' = host /\ call' = call /\ reply' = reply
      /\ \A q \in Procs : at[q] # "writing"
  BY R2Shape, OneHolder, Zenon DEF AdapterInv, R2
<1>1. ASSUME NEW v \in Optional \cup Answers, v # None, invoke(p, v), seen' = seen
      PROVE  /\ verdict' \in [Procs -> Optional \cup Answers] /\ result' \in [Procs -> Optional \cup Answers]
             /\ at' \in [Procs -> Places] /\ seen' \in [Procs -> Optional]
             /\ Others(p) /\ PlaceOK(p)' /\ at'[p] \in {"idle", "matched", "late"}
  <2>1. PICK r \in {v, "unavailable"} : Done(p, v, r)
    BY <1>1, Zenon DEF invoke
  <2>2. r \in Optional \cup Answers /\ r # None
    BY <1>1, NoneIsNew, Zenon DEF Answers
  <2> USE DEF Done
  <2>3. /\ verdict' \in [Procs -> Optional \cup Answers] /\ result' \in [Procs -> Optional \cup Answers]
        /\ at' \in [Procs -> Places] /\ seen' \in [Procs -> Optional]
    BY <1>0, <1>1, <2>1, <2>2, Zenon DEF AdapterTypeOK, Places
  <2>4. Others(p) /\ at'[p] = "idle" /\ result'[p] = r
    BY <1>0, <1>1, <2>1, Zenon DEF AdapterTypeOK, Others
  <2> QED
    BY <1>0, <2>2, <2>3, <2>4, Zenon DEF PlaceOK
<1>2. CASE readObject(p)
  <2>1. Content(p) \in Optional \cup Answers /\ Content(p) # None
    BY <1>0, ContentType, Zenon
  <2> QED
    BY <1>1, <1>2, <2>1, Zenon DEF readObject
<1>3. \A e \in {"ok", "conflict"} : e \in Optional \cup Answers /\ e # None
  BY NoneIsNew, Zenon DEF Answers
<1>4. CASE r2_putIfAbsent(p) \/ r2_put(p) \/ r2_delete(p)
  BY <1>1, <1>3, <1>4, Zenon DEF r2_putIfAbsent, r2_put, r2_delete
<1>5. CASE r2_compareAndSwap(p)
  <2>1. CASE call[p].expected = None
    BY <1>1, <1>3, <1>5, <2>1, Zenon DEF r2_compareAndSwap
  <2>2. CASE call[p].expected # None /\ Current(p) # call[p].expected
    <3>1. Done(p, "conflict", "conflict") /\ seen' = seen
      BY <1>5, <2>2, Zenon DEF r2_compareAndSwap
    <3>2. /\ verdict' \in [Procs -> Optional \cup Answers] /\ result' \in [Procs -> Optional \cup Answers]
          /\ at' \in [Procs -> Places] /\ seen' \in [Procs -> Optional]
      BY <1>0, <1>3, <3>1, Zenon DEF AdapterTypeOK, Places, Done
    <3>3. Others(p) /\ at'[p] = "idle" /\ result'[p] = "conflict"
      BY <1>0, <3>1, Zenon DEF AdapterTypeOK, Others, Done
    <3> QED
      BY <1>0, <1>3, <3>2, <3>3, Zenon DEF PlaceOK
  <2>3. CASE call[p].expected # None /\ Current(p) = call[p].expected
    <3>1. seen' = [seen EXCEPT ![p] = Current(p)] /\ Goto(p, "matched")
      BY <1>5, <2>3, Zenon DEF r2_compareAndSwap
    <3>2. Current(p) \in Optional
      BY <1>0, ContentType, Zenon
    <3>3. /\ verdict' = verdict /\ result' = result
          /\ at' \in [Procs -> Places] /\ seen' \in [Procs -> Optional]
      BY <1>0, <3>1, <3>2, Zenon DEF AdapterTypeOK, Places, Goto
    <3>4. Others(p) /\ at'[p] = "matched" /\ seen'[p] = Current(p)
      BY <1>0, <3>1, Zenon DEF AdapterTypeOK, Others, Goto
    <3> QED
      BY <1>0, <1>5, <2>3, <3>3, <3>4, Zenon DEF PlaceOK, AdapterTypeOK, r2_compareAndSwap, R2
  <2> QED
    BY <2>1, <2>2, <2>3, Zenon
<1>6. CASE r2_late(p)
  <2>1. PICK e \in {"ok", "conflict"} : verdict' = [verdict EXCEPT ![p] = e]
    BY <1>6, Zenon DEF r2_late
  <2>2. /\ verdict' \in [Procs -> Optional \cup Answers] /\ result' = result
        /\ at' \in [Procs -> Places] /\ seen' = seen
    BY <1>0, <1>3, <1>6, <2>1, Zenon DEF AdapterTypeOK, Places, r2_late
  <2>3. Others(p) /\ at'[p] = "idle"
    BY <1>0, <1>6, <2>1, Zenon DEF AdapterTypeOK, Others, r2_late
  <2> QED
    BY <1>0, <1>6, <2>2, <2>3, Zenon DEF PlaceOK, AdapterTypeOK, r2_late
<1>7. CASE r2_failed(p)
  <2>1. PICK s \in {"idle", "late"} : /\ at' = [at EXCEPT ![p] = s]
                                      /\ s = "late" => \/ at[p] = "matched"
                                                       \/ call[p].do # "get" /\ (call[p].do = "cas" => call[p].expected = None)
    BY <1>7, Zenon DEF r2_failed
  <2>2. /\ result' \in [Procs -> Optional \cup Answers] /\ verdict' = verdict
        /\ at' \in [Procs -> Places] /\ seen' = seen
    BY <1>0, <1>7, <2>1, Zenon DEF AdapterTypeOK, Places, r2_failed, Answers
  <2>3. Others(p) /\ at'[p] = s /\ result'[p] = "unavailable" /\ at[p] \in {"start", "matched"}
    BY <1>0, <1>7, <2>1, Zenon DEF AdapterTypeOK, Others, r2_failed
  <2>4. "unavailable" # None /\ call[p].do \in {"get", "put", "cas", "delete"}
    BY <1>0, NoneIsNew, CallShape, Zenon DEF Answers
  <2> QED
    BY <1>0, <2>1, <2>2, <2>3, <2>4, Zenon DEF PlaceOK, AdapterTypeOK, R2
<1> QED
  BY <1>2, <1>4, <1>5, <1>6, <1>7, Zenon DEF R2

(* Every step of an R2 call keeps the invariant. *)
LEMMA R2Inv ==
  ASSUME AdapterInv, NEW p \in Procs, R2(p)
  PROVE  AdapterInv'
<1>1. PICK w \in Optional : objects' = objects \/ objects' = [objects EXCEPT ![Key(p)] = w]
  BY R2Shape, Zenon
<1>2. objects' \in [Keys -> Optional] /\ LockProtects'
  BY <1>1, R2Shape, R2Places, ServiceKeeps, Zenon DEF R2
<1>3. AdapterTypeOK'
  BY <1>2, R2Shape, R2Places, Zenon DEF AdapterInv, AdapterTypeOK, Places
<1>4. NamesAreFresh'
  BY R2Shape, Zenon DEF NamesAreFresh, AdapterInv
<1>5. StatusOK(p)'
  BY R2Places, SMTT(60) DEF StatusOK
<1> QED
  BY <1>2, <1>3, <1>4, <1>5, R2Shape, R2Places, Assemble, Zenon

(* What no step of the Fetch adapter changes.                              *)
LEMMA HttpShape ==
  ASSUME AdapterInv, NEW p \in Procs, Http(p)
  PROVE  /\ call[p] \in Calls /\ at[p] \in {"start", "sent", "abandoned"} /\ host = "http"
         /\ UNCHANGED <<host, call, seen, lock, temps, pid, sequence>>
         /\ \A q \in Procs : at[q] # "writing"
         /\ request(p) \/ timer(p) \/ Rejected(p) \/ consumeResponse(p) \/ Service(p) \/ callerAbort(p)
<1> USE DEF At
<1>1. request(p) \/ timer(p) \/ Rejected(p) \/ consumeResponse(p) \/ Service(p) \/ callerAbort(p)
  BY Zenon DEF Http, Client
<1>2. call[p] \in Calls /\ at[p] \in {"start", "sent", "abandoned"}
  BY <1>1 DEF request, timer, Rejected, consumeResponse, Service, callerAbort, AdapterInv, PlaceOK
<1>3. UNCHANGED <<host, call, seen, lock, temps, pid, sequence>>
  BY <1>1, Zenon DEF request, timer, Rejected, consumeResponse, Service, callerAbort, FetchRest, file
<1>4. host = "http"
  BY Zenon DEF Http
<1> QED
  BY <1>1, <1>2, <1>3, <1>4, OneHolder, Zenon

(* The service decides e for the request of p, with this status and this   *)
(* object stored, if any.                                                  *)
Decided(p, e, status, w) ==
  /\ e # None
  /\ verdict' = [verdict EXCEPT ![p] = e] /\ reply' = [reply EXCEPT ![p] = status]
  /\ UNCHANGED <<result, at>>
  /\ objects' = objects \/ objects' = [objects EXCEPT ![Key(p)] = w]
  /\ e = "refused" => status \in {400, 429, 503}
  /\ e # "refused" =>
       /\ call[p].do = "get" => status = 200 \/ (e = "none" /\ status = 404)
       /\ call[p].do \in {"put", "cas"} => \/ e = "ok" /\ status = 201
                                           \/ e = "conflict" /\ status = 412
       /\ call[p].do = "delete" => e = "ok" /\ status \in {204, 404}

(* A step of the object service decides one call with a status, an answer and *)
(* at most one write.                                                         *)
LEMMA ServiceShape ==
  ASSUME AdapterInv, NEW p \in Procs, Http(p), Service(p)
  PROVE  \E e \in Optional \cup Answers, status \in Statuses, w \in Optional : Decided(p, e, status, w)
<1>0. /\ call[p] \in Calls /\ None \in Optional
      /\ Content(p) \in Optional \cup Answers /\ Content(p) # None /\ Content(p) # "refused"
  <2>1. call[p] \in Calls /\ \A q \in Procs : at[q] # "writing"
    BY HttpShape, Zenon
  <2>2. Content(p) # "refused"
    BY <2>1, ContentType, NoneIsNew, Zenon DEF Content, Optional
  <2> QED
    BY <2>1, <2>2, ContentType, Zenon DEF Optional
<1>1. \A e \in {"ok", "conflict", "refused"} : e \in Optional \cup Answers /\ e # None
  BY NoneIsNew, Zenon DEF Answers
<1>2. UNCHANGED <<result, at>>
  BY DEF Service
<1>3. \A status \in {200, 201, 204, 400, 404, 412, 429, 503} : status \in Statuses
  BY DEF Statuses
<1>4. CASE /\ call[p].do = "get" /\ UNCHANGED objects
           /\ verdict' = [verdict EXCEPT ![p] = Content(p)]
           /\ reply' = [reply EXCEPT ![p] = IF Current(p) = None THEN 404 ELSE 200]
  <2>1. CASE Current(p) = None
    <3>1. Content(p) = "none"
      BY <2>1, Zenon DEF Content
    <3>2. Decided(p, Content(p), 404, None)
      BY <1>0, <1>2, <1>4, <2>1, <3>1 DEF Decided
    <3> QED
      BY <1>0, <1>3, <3>2
  <2>2. CASE Current(p) # None
    <3>1. Decided(p, Content(p), 200, None)
      BY <1>0, <1>2, <1>4, <2>2, ZenonT(60) DEF Decided
    <3> QED
      BY <1>0, <1>3, <3>1
  <2> QED
    BY <2>1, <2>2, Zenon
<1>5. CASE /\ call[p].do \in {"put", "cas"}
           /\ \E e \in {"ok", "conflict"} :
                 /\ ServicePut(p, IF call[p].do = "cas" THEN call[p].expected ELSE None, e)
                 /\ verdict' = [verdict EXCEPT ![p] = e]
                 /\ reply' = [reply EXCEPT ![p] = IF e = "ok" THEN 201 ELSE 412]
  <2>1. PICK e \in {"ok", "conflict"} :
            /\ ServicePut(p, IF call[p].do = "cas" THEN call[p].expected ELSE None, e)
            /\ verdict' = [verdict EXCEPT ![p] = e]
            /\ reply' = [reply EXCEPT ![p] = IF e = "ok" THEN 201 ELSE 412]
    BY <1>5, Zenon
  <2>2. PICK w \in Optional : objects' = objects \/ objects' = [objects EXCEPT ![Key(p)] = w]
    BY <1>0, <1>5, <2>1, PutShape, ZenonT(60)
  <2>3. CASE e = "ok"
    <3>1. reply' = [reply EXCEPT ![p] = 201]
      BY <2>1, <2>3, Zenon
    <3>2. Decided(p, e, 201, w)
      BY <1>1, <1>2, <1>5, <2>1, <2>2, <2>3, <3>1, ZenonT(60) DEF Decided
    <3> QED
      BY <1>1, <1>3, <3>2
  <2>4. CASE e = "conflict"
    <3>1. reply' = [reply EXCEPT ![p] = 412]
      BY <2>1, <2>4, Zenon
    <3>2. Decided(p, e, 412, w)
      BY <1>1, <1>2, <1>5, <2>1, <2>2, <2>4, <3>1, ZenonT(60) DEF Decided
    <3> QED
      BY <1>1, <1>3, <3>2
  <2> QED
    BY <2>3, <2>4, Zenon
<1>6. CASE /\ call[p].do = "delete" /\ Store(p, None)
           /\ verdict' = [verdict EXCEPT ![p] = "ok"]
           /\ reply' = [reply EXCEPT ![p] = IF Current(p) = None THEN 404 ELSE 204]
  <2>1. objects' = [objects EXCEPT ![Key(p)] = None]
    BY <1>6, Zenon DEF Store
  <2>2. CASE Current(p) = None
    <3>1. reply' = [reply EXCEPT ![p] = 404]
      BY <1>6, <2>2, Zenon
    <3>2. Decided(p, "ok", 404, None)
      BY <1>1, <1>2, <1>6, <2>1, <3>1, ZenonT(60) DEF Decided
    <3> QED
      BY <1>0, <1>1, <1>3, <3>2
  <2>3. CASE Current(p) # None
    <3>1. reply' = [reply EXCEPT ![p] = 204]
      BY <1>6, <2>3, Zenon
    <3>2. Decided(p, "ok", 204, None)
      BY <1>1, <1>2, <1>6, <2>1, <3>1, ZenonT(60) DEF Decided
    <3> QED
      BY <1>0, <1>1, <1>3, <3>2
  <2> QED
    BY <2>2, <2>3, Zenon
<1>7. CASE /\ UNCHANGED objects
           /\ \E status \in {400, 429, 503} :
                 /\ verdict' = [verdict EXCEPT ![p] = "refused"]
                 /\ reply' = [reply EXCEPT ![p] = status]
  <2>1. PICK status \in {400, 429, 503} : /\ verdict' = [verdict EXCEPT ![p] = "refused"]
                                          /\ reply' = [reply EXCEPT ![p] = status]
    BY <1>7, ZenonT(60)
  <2>2. Decided(p, "refused", status, None)
    BY <1>1, <1>2, <1>7, <2>1, ZenonT(60) DEF Decided
  <2> QED
    BY <1>0, <1>1, <1>3, <2>2
<1> QED
  BY <1>4, <1>5, <1>6, <1>7, ZenonT(60) DEF Service

(* The answer that is read from a response.                                *)
LEMMA StatusAnswer ==
  ASSUME AdapterInv, NEW p \in Procs, at[p] = "sent", reply[p] # None
  PROVE  /\ verdict[p] # None
         /\ verdict[p] = "refused" => requireStatus(p) \in {"invalid", "unavailable"}
         /\ verdict[p] # "refused" => requireStatus(p) = verdict[p]
<1>1. /\ StatusOK(p) /\ call[p] \in Calls /\ reply[p] \in Statuses
  BY Zenon DEF AdapterInv, PlaceOK, AdapterTypeOK
<1>2. verdict[p] # None
  BY <1>1, Zenon DEF StatusOK
<1>3. call[p].do \in {"get", "put", "cas", "delete"}
  BY <1>1, CallShape, Zenon
<1>4. CASE verdict[p] = "refused"
  <2>1. reply[p] \in {400, 429, 503}
    BY <1>1, <1>4 DEF StatusOK
  <2> QED
    BY <1>2, <1>4, <2>1 DEF requireStatus
<1>5. CASE verdict[p] # "refused"
  <2>1. \/ call[p].do = "get" /\ reply[p] = 200
        \/ call[p].do = "get" /\ reply[p] = 404 /\ verdict[p] = "none"
        \/ call[p].do \in {"put", "cas"} /\ reply[p] = 201 /\ verdict[p] = "ok"
        \/ call[p].do \in {"put", "cas"} /\ reply[p] = 412 /\ verdict[p] = "conflict"
        \/ call[p].do = "delete" /\ reply[p] \in {204, 404} /\ verdict[p] = "ok"
    BY <1>1, <1>2, <1>3, <1>5 DEF StatusOK
  <2> QED
    BY <1>2, <1>5, <2>1, SMTT(60) DEF requireStatus
<1> QED
  BY <1>4, <1>5, Zenon

(* What consumeResponse reports, after the catch block.                    *)
LEMMA ConsumedAnswer ==
  ASSUME AdapterInv, NEW p \in Procs, at[p] = "sent", consumeResponse(p)
  PROVE  /\ verdict[p] # None
         /\ \E r \in {"unavailable", "cancelled"}
                       \cup (IF verdict[p] = "refused" THEN {"invalid"} ELSE {verdict[p]}) :
               Done(p, verdict[p], r)
<1>1. reply[p] # None
  BY Zenon DEF consumeResponse
<1> DEFINE r == requireStatus(p)
           a == IF r \in {"conflict", "invalid", "missing", "unavailable"} THEN Caught(p, r) ELSE r
<1>2. Done(p, verdict[p], a)
  BY Zenon DEF consumeResponse
<1>3. a \in {"unavailable", "cancelled", r}
  BY Zenon DEF Caught
<1> HIDE DEF r, a
<1>4. CASE verdict[p] = "refused"
  <2>1. r \in {"invalid", "unavailable"}
    BY <1>1, <1>4, StatusAnswer, Zenon DEF r
  <2>2. a \in {"unavailable", "cancelled", "invalid"}
    BY <1>3, <2>1, Zenon
  <2> QED
    BY <1>1, <1>2, <1>4, <2>2, StatusAnswer, Zenon
<1>5. CASE verdict[p] # "refused"
  <2>1. r = verdict[p]
    BY <1>1, <1>5, StatusAnswer, Zenon DEF r
  <2>2. a \in {"unavailable", "cancelled", verdict[p]}
    BY <1>3, <2>1, Zenon
  <2> QED
    BY <1>1, <1>2, <1>5, <2>2, StatusAnswer, Zenon
<1> QED
  BY <1>4, <1>5, Zenon

(* Every step of a Fetch call keeps the invariant. *)
LEMMA HttpInv ==
  ASSUME AdapterInv, NEW p \in Procs, Http(p)
  PROVE  AdapterInv'
<1> USE DEF At
<1>0. /\ AdapterTypeOK /\ PlaceOK(p) /\ StatusOK(p) /\ NamesAreFresh
      /\ call[p] \in Calls /\ at[p] \in {"start", "sent", "abandoned"} /\ host = "http"
      /\ UNCHANGED <<host, call, seen, lock, temps, pid, sequence>>
  BY HttpShape, Zenon DEF AdapterInv
<1>1. NamesAreFresh'
  BY <1>0, Zenon DEF NamesAreFresh
<1>2. ASSUME Others(p), NEW w \in Optional,
             objects' = objects \/ objects' = [objects EXCEPT ![Key(p)] = w],
             at' \in [Procs -> Places], at'[p] \in {"idle", "sent", "start", "abandoned"},
             verdict' \in [Procs -> Optional \cup Answers], result' \in [Procs -> Optional \cup Answers],
             reply' \in [Procs -> Statuses \cup {None}], PlaceOK(p)', StatusOK(p)'
      PROVE  AdapterInv'
  <2>1. objects' \in [Keys -> Optional] /\ LockProtects'
    BY <1>0, <1>2, ServiceKeeps, Zenon
  <2>2. AdapterTypeOK'
    BY <1>0, <1>2, <2>1, Zenon DEF AdapterTypeOK, Places
  <2> QED
    BY <1>0, <1>1, <1>2, <2>1, <2>2, Assemble, Zenon
<1>3. None \in Optional /\ at \in [Procs -> Places]
  BY <1>0, Zenon DEF Optional, AdapterTypeOK, Places
<1>4. CASE request(p)
  <2>1. CASE p \in callerAborted
    <3>1. Done(p, "refused", "cancelled") /\ UNCHANGED <<objects, reply>>
      BY <1>4, <2>1, Zenon DEF request, fetch
    <3>2. "cancelled" # None /\ {"refused", "cancelled"} \subseteq Answers
      BY NoneIsNew, Zenon DEF Answers
    <3> QED
      BY <1>0, <3>1, <3>2, EndInv, Zenon
  <2>2. CASE p \notin callerAborted
    <3>1. Goto(p, "sent") /\ UNCHANGED <<objects, reply>> /\ at[p] = "start"
      BY <1>4, <2>2, Zenon DEF request, fetch
    <3> USE DEF Goto
    <3>2. Others(p) /\ at' \in [Procs -> Places] /\ at'[p] = "sent"
      BY <1>0, <1>3, <3>1, Zenon DEF Others, Places
    <3>3. PlaceOK(p)'
      BY <1>0, <3>1, <3>2, Zenon DEF PlaceOK
    <3>4. StatusOK(p)'
      BY <1>0, <3>1, <3>2, SMTT(60) DEF StatusOK, PlaceOK
    <3> QED
      BY <1>0, <1>2, <1>3, <3>1, <3>2, <3>3, <3>4, Zenon DEF AdapterTypeOK
  <2> QED
    BY <2>1, <2>2, Zenon
<1>5. CASE timer(p) \/ callerAbort(p)
  <2>1. UNCHANGED <<objects, verdict, result, at, reply>>
    BY <1>5, Zenon DEF timer, callerAbort
  <2>2. Others(p) /\ PlaceOK(p)' /\ StatusOK(p)'
    <3>1. Others(p)
      BY <1>0, <2>1, Zenon DEF Others
    <3>2. PlaceOK(p)'
      BY <1>0, <2>1, Zenon DEF PlaceOK
    <3>3. StatusOK(p)'
      BY <1>0, <2>1 DEF StatusOK
    <3> QED
      BY <3>1, <3>2, <3>3, Zenon
  <2> QED
    BY <1>0, <1>2, <1>3, <2>1, <2>2, Zenon DEF AdapterTypeOK
<1>6. CASE Rejected(p)
  <2>1. PICK r \in {"unavailable", "cancelled"} : result' = [result EXCEPT ![p] = r]
    BY <1>6, Zenon DEF Rejected, Caught
  <2>2. /\ at' = [at EXCEPT ![p] = "abandoned"] /\ UNCHANGED <<objects, verdict, reply>>
        /\ at[p] = "sent"
    BY <1>6, Zenon DEF Rejected, fetch
  <2>3. r \in Answers /\ r # None
    BY NoneIsNew, Zenon DEF Answers
  <2>4. /\ Others(p) /\ at' \in [Procs -> Places] /\ at'[p] = "abandoned" /\ result'[p] = r
        /\ result' \in [Procs -> Optional \cup Answers]
    BY <1>0, <1>3, <2>1, <2>2, <2>3, Zenon DEF AdapterTypeOK, Others, Places
  <2>5. PlaceOK(p)' /\ StatusOK(p)'
    <3>1. PlaceOK(p)'
      BY <1>0, <2>2, <2>3, <2>4, ZenonT(60) DEF PlaceOK
    <3>2. StatusOK(p)'
      BY <1>0, <2>2, <2>3, <2>4 DEF StatusOK
    <3> QED
      BY <3>1, <3>2, Zenon
  <2> QED
    BY <1>0, <1>2, <1>3, <2>2, <2>4, <2>5, Zenon DEF AdapterTypeOK
<1>7. CASE consumeResponse(p)
  <2>1. at[p] = "sent" /\ UNCHANGED <<objects, reply>>
    BY <1>7, Zenon DEF consumeResponse, fetch
  <2>2. PICK r \in {"unavailable", "cancelled"}
                     \cup (IF verdict[p] = "refused" THEN {"invalid"} ELSE {verdict[p]}) :
            Done(p, verdict[p], r)
    BY <1>7, <2>1, ConsumedAnswer, Zenon
  <2>3. verdict[p] # None /\ verdict[p] \in Optional \cup Answers
    BY <1>0, <1>7, <2>1, ConsumedAnswer, Zenon DEF AdapterTypeOK
  <2>4. r # None /\ r \in Optional \cup Answers
    BY <2>3, NoneIsNew, Zenon DEF Answers
  <2> QED
    BY <1>0, <2>1, <2>2, <2>3, <2>4, EndInv, Zenon
<1>8. CASE Service(p)
  <2>1. PICK e \in Optional \cup Answers, status \in Statuses, w \in Optional : Decided(p, e, status, w)
    BY <1>8, ServiceShape, Zenon
  <2>2. /\ verdict' = [verdict EXCEPT ![p] = e] /\ reply' = [reply EXCEPT ![p] = status]
        /\ UNCHANGED <<result, at>> /\ e # None
        /\ objects' = objects \/ objects' = [objects EXCEPT ![Key(p)] = w]
    BY <2>1 DEF Decided
  <2>3. /\ Others(p) /\ verdict'[p] = e /\ reply'[p] = status
        /\ verdict' \in [Procs -> Optional \cup Answers] /\ reply' \in [Procs -> Statuses \cup {None}]
    BY <1>0, <2>2, Zenon DEF AdapterTypeOK, Others
  <2>4. at[p] \in {"sent", "abandoned"}
    BY <1>8, Zenon DEF Service
  <2>5. PlaceOK(p)'
    BY <1>0, <2>2, <2>4, Zenon DEF PlaceOK
  <2>6. StatusOK(p)'
    <3>1. /\ status # None /\ call'[p] = call[p] /\ e # None
          /\ verdict'[p] = e /\ reply'[p] = status
      BY <1>0, <2>2, <2>3, NoneIsNew, Zenon
    <3>2. /\ e = "refused" => status \in {400, 429, 503}
          /\ e # "refused" =>
               /\ call[p].do = "get" => status = 200 \/ (e = "none" /\ status = 404)
               /\ call[p].do \in {"put", "cas"} => \/ e = "ok" /\ status = 201
                                                   \/ e = "conflict" /\ status = 412
               /\ call[p].do = "delete" => e = "ok" /\ status \in {204, 404}
      BY <2>1 DEF Decided
    <3> QED
      BY <3>1, <3>2, SMTT(60) DEF StatusOK
  <2> QED
    BY <1>0, <1>2, <1>3, <2>2, <2>3, <2>4, <2>5, <2>6, Zenon DEF AdapterTypeOK
<1> QED
  BY <1>4, <1>5, <1>6, <1>7, <1>8, HttpShape, Zenon

(* The invariant holds in every state of every adapter, when a restarted   *)
(* process has a new ID and none dies between creating and writing a file. *)
LEMMA AdapterStep ==
  ASSUME ~SamePid, ~TornFiles, AdapterInv, [Next]_vars
  PROVE  AdapterInv'
<1>1. CASE UNCHANGED vars
  <2>1. /\ UNCHANGED <<objects, call, verdict, result, at, seen, lock, pid>>
        /\ UNCHANGED <<sequence, temps, reply, host>>
    BY <1>1, Zenon DEF vars, file, fetch
  <2>2. AdapterTypeOK'
    BY <2>1, Zenon DEF AdapterInv, AdapterTypeOK
  <2>3. LockProtects' /\ NamesAreFresh'
    BY <2>1, Zenon DEF AdapterInv, LockProtects, NamesAreFresh, Key
  <2>4. ASSUME NEW q \in Procs PROVE PlaceOK(q)'
    BY <2>1, Zenon DEF AdapterInv, PlaceOK
  <2>5. ASSUME NEW q \in Procs PROVE StatusOK(q)'
    BY <2>1 DEF AdapterInv, StatusOK
  <2> QED
    BY <2>2, <2>3, <2>4, <2>5, Zenon DEF AdapterInv
<1>2. ASSUME NEW p \in Procs, Filesystem(p) PROVE AdapterInv'
  BY <1>2, GetInv, LockInv, PutInv, WriteInv, SwapInv, Zenon DEF Filesystem
<1> QED
  BY <1>1, <1>2, CallInv, CrashInv, R2Inv, HttpInv, Zenon DEF Next

(* The inductive invariant of the three adapters (filesystem.rs and the R2    *)
(* and Fetch hosts) holds in every reachable state, when process IDs are not  *)
(* used again and no process dies between creating a file and writing it.     *)
THEOREM AdapterInvariance ==
  ASSUME ~SamePid, ~TornFiles
  PROVE  Spec => []AdapterInv
BY InitInv, AdapterStep, PTL DEF Spec

-----------------------------------------------------------------------------

(* While no file is half written, the contract sees the objects as they are. *)
LEMMA WrittenNow ==
  ASSUME AdapterInv, \A q \in Procs : at[q] # "writing"
  PROVE  Written = objects
BY Zenon DEF Written, At, AdapterInv, AdapterTypeOK

(* The same of the state after a step. *)
LEMMA WrittenThen ==
  ASSUME AdapterInv', \A q \in Procs : at'[q] # "writing"
  PROVE  Written' = objects'
BY Zenon DEF Written, At, AdapterInv, AdapterTypeOK

(* An operation of p takes effect and earns e, with or without an answer.  *)
LEMMA EffectStep ==
  ASSUME NEW p \in Procs, call[p] \in Calls, verdict[p] = None, call' = call,
         NEW e \in Contract!Earned(call[p], Written[Key(p)]),
         Written' = [Written EXCEPT ![Key(p)] = Contract!Effect(call[p], Written[Key(p)])],
         verdict' = [verdict EXCEPT ![p] = e],
         \/ result' = result
         \/ result[p] = None /\ \E r \in {e, "unavailable"} : result' = [result EXCEPT ![p] = r]
  PROVE  Contract!Next
<1>1. call[p] # None
  BY NoneIsNew, Zenon
<1>2. Contract!TakeEffect(p)
  BY <1>1, Zenon DEF Contract!TakeEffect, Key
<1> QED
  BY <1>2, Zenon DEF Contract!Next

(* An operation of p answers r and takes no effect in this step.           *)
LEMMA AnswerStep ==
  ASSUME NEW p \in Procs, call[p] \in Calls, result[p] = None,
         UNCHANGED <<Written, call, verdict>>,
         NEW r, result' = [result EXCEPT ![p] = r],
         \/ r \in {"unavailable", "cancelled"}
         \/ verdict[p] \notin {None, "refused"} /\ r = verdict[p]
         \/ verdict[p] = "refused" /\ r = "invalid"
  PROVE  Contract!Next
<1>1. call[p] # None
  BY NoneIsNew, Zenon
<1>2. Contract!Answer(p)
  BY <1>1, Zenon DEF Contract!Answer
<1> QED
  BY <1>2, Zenon DEF Contract!Next

(* A call that ends without an effect, cancelled or not, is a refusal of the  *)
(* contract.                                                                  *)
LEMMA RefuseStep ==
  ASSUME NEW p \in Procs, call[p] \in Calls, verdict[p] = None,
         UNCHANGED <<Written, call>>, verdict' = [verdict EXCEPT ![p] = "refused"],
         \/ result' = result
         \/ result[p] = None /\ result' = [result EXCEPT ![p] = "cancelled"]
  PROVE  Contract!Next
<1>1. call[p] # None
  BY NoneIsNew, Zenon
<1>2. Contract!Refuse(p)
  BY <1>1, Zenon DEF Contract!Refuse
<1> QED
  BY <1>2, Zenon DEF Contract!Next

(* The initial states are initial states of the contract. *)
LEMMA RefinesInit == Init => Contract!Init
BY Zenon DEF Init, Contract!Init, Written, At

(* A new call is a call of the contract. *)
LEMMA RefinesCall ==
  ASSUME AdapterInv, AdapterInv', NEW p \in Procs, Call(p)
  PROVE  Contract!Next
<1>1. PICK c \in Calls : call' = [call EXCEPT ![p] = c]
  BY Zenon DEF Call
<1>2. c \in Contract!Calls
  BY Zenon DEF Calls, Contract!Calls, Contract!Optional
<1>3. Written' = Written
  <2>1. \A q \in Procs : At(q, "writing")' <=> At(q, "writing")
    BY ZenonT(60) DEF Call, At, AdapterInv, AdapterTypeOK
  <2>2. \A q \in Procs : At(q, "writing") => Key(q)' = Key(q)
    BY Zenon DEF Call, At, AdapterInv, AdapterTypeOK, Key
  <2> QED
    BY <2>1, <2>2, Zenon DEF Written, Call, file
<1>4. Contract!Invoke(p, c)
  BY <1>1, <1>3, Zenon DEF Contract!Invoke, Call, At, AdapterInv, PlaceOK
<1> QED
  BY <1>2, <1>4, Zenon DEF Contract!Next

(* What the contract lets each operation do and earn.                      *)
LEMMA EffectOf ==
  ASSUME NEW c \in Calls, NEW v
  PROVE  /\ c.do = "get" => /\ Contract!Effect(c, v) = v
                            /\ v = None => "none" \in Contract!Earned(c, v)
                            /\ v # None => v \in Contract!Earned(c, v)
         /\ c.do = "put" => /\ v = None => Contract!Effect(c, v) = c.value /\ "ok" \in Contract!Earned(c, v)
                            /\ v # None => Contract!Effect(c, v) = v /\ "conflict" \in Contract!Earned(c, v)
                            /\ v # None /\ v = c.value => "ok" \in Contract!Earned(c, v)
         /\ c.do = "cas" => /\ v = c.expected => Contract!Effect(c, v) = c.value /\ "ok" \in Contract!Earned(c, v)
                            /\ v # c.expected => Contract!Effect(c, v) = v /\ "conflict" \in Contract!Earned(c, v)
         /\ c.do = "delete" => Contract!Effect(c, v) = None /\ "ok" \in Contract!Earned(c, v)
BY Zenon DEF Contract!Effect, Contract!Earned

(* The same for a step after which the objects are as they were.           *)
LEMMA QuietStep ==
  ASSUME NEW p \in Procs, call[p] \in Calls, verdict[p] = None, call' = call,
         NEW e \in Contract!Earned(call[p], Written[Key(p)]),
         Contract!Effect(call[p], Written[Key(p)]) = Written[Key(p)], Written' = Written,
         verdict' = [verdict EXCEPT ![p] = e],
         \/ result' = result
         \/ result[p] = None /\ \E r \in {e, "unavailable"} : result' = [result EXCEPT ![p] = r]
  PROVE  Contract!Next
<1>1. Written = [Written EXCEPT ![Key(p)] = Written[Key(p)]]
  BY Zenon DEF Written
<1> QED
  BY <1>1, EffectStep, Zenon

(* fs get is the read of the contract. *)
LEMMA RefinesGet ==
  ASSUME AdapterInv, AdapterInv', NEW p \in Procs, fs_get(p), host = "fs"
  PROVE  Contract!Next
<1> USE DEF fs_get, At, FileRest, file, Done
<1>1. /\ \A q \in Procs : at[q] # "writing" /\ at'[q] # "writing"
      /\ call[p] \in Calls /\ verdict[p] = None /\ result[p] = None /\ Key(p) \in Keys
  <2>1. \A q \in Procs : at[q] # "writing"
    BY OneHolder, Zenon
  <2>2. \A q \in Procs : at'[q] # "writing"
    BY <2>1, ZenonT(60) DEF AdapterInv, AdapterTypeOK
  <2>3. call[p] \in Calls
    BY Zenon DEF AdapterInv, PlaceOK
  <2>4. verdict[p] = None /\ result[p] = None
    BY Zenon DEF AdapterInv, PlaceOK
  <2> QED
    BY <2>1, <2>2, <2>3, <2>4, CallShape, Zenon DEF Key
<1>2. Written = objects /\ Written' = Written
  BY <1>1, WrittenNow, WrittenThen, Zenon
<1>3. Content(p) \in Contract!Earned(call[p], Written[Key(p)])
  BY <1>1, <1>2, EffectOf, Zenon DEF Content, Current
<1>4. Contract!Effect(call[p], Written[Key(p)]) = Written[Key(p)]
  BY <1>1, EffectOf, Zenon
<1> QED
  BY <1>1, <1>2, <1>3, <1>4, QuietStep, Zenon

(* with_lock is no step of the contract. *)
LEMMA RefinesLock ==
  ASSUME AdapterInv, AdapterInv', NEW p \in Procs, with_lock(p), host = "fs"
  PROVE  UNCHANGED Contract!cvars
<1> USE DEF with_lock, At, FileRest, Goto
<1>1. \A q \in Procs : at[q] # "writing" /\ at'[q] # "writing"
  BY OneHolder, ZenonT(60) DEF AdapterInv, AdapterTypeOK
<1> QED
  BY <1>1, WrittenNow, WrittenThen, Zenon DEF Contract!cvars

(* Each step of fs put_if_absent is a step of the contract or none. *)
LEMMA RefinesPut ==
  ASSUME AdapterInv, AdapterInv', NEW p \in Procs, fs_put_if_absent(p)
  PROVE  Contract!Next \/ UNCHANGED Contract!cvars
<1> USE DEF At, FileRest, file
<1>1. /\ at[p] = "locked" /\ lock = p /\ call[p] \in Calls /\ call[p].do = "put"
      /\ verdict[p] = None /\ result[p] = None /\ Key(p) \in Keys /\ call' = call
  BY CallShape, Zenon DEF AdapterInv, PlaceOK, Key, fs_put_if_absent
<1>2. \A q \in Procs : at[q] # "writing"
  BY <1>1, OneHolder, Zenon
<1>3. Written = objects
  BY <1>2, WrittenNow, Zenon
<1>4. CASE Current(p) # None
  <2>1. PICK e \in {"ok", "conflict"} : Done(p, e, e) /\ (e = "ok" => Current(p) = call[p].value)
    BY <1>4, Zenon DEF fs_put_if_absent
  <2>2. \A q \in Procs : at'[q] # "writing"
    BY <1>2, <2>1, ZenonT(60) DEF Done, AdapterInv, AdapterTypeOK
  <2>3. Written' = Written
    BY <1>3, <1>4, <2>2, WrittenThen, Zenon DEF fs_put_if_absent
  <2>4. /\ e \in Contract!Earned(call[p], Written[Key(p)])
        /\ Contract!Effect(call[p], Written[Key(p)]) = Written[Key(p)]
    BY <1>1, <1>3, <1>4, <2>1, EffectOf, ZenonT(60) DEF Current
  <2> QED
    BY <1>1, <2>1, <2>3, <2>4, QuietStep, Zenon DEF Done
<1>5. CASE Current(p) = None
  <2> USE <1>5 DEF fs_put_if_absent, Store, Goto
  <2>1. /\ objects' = [objects EXCEPT ![Key(p)] = Torn] /\ at' = [at EXCEPT ![p] = "writing"]
        /\ UNCHANGED <<verdict, result, lock, call>>
    BY Zenon
  <2>2. \A k \in Keys : Written'[k] = IF k = Key(p) THEN None ELSE objects'[k]
    BY <1>1, <1>2, <2>1, Zenon DEF Written, Key, AdapterInv, AdapterTypeOK
  <2>3. \A k \in Keys : Written'[k] = Written[k]
    BY <1>1, <1>3, <2>1, <2>2, Zenon DEF Current, AdapterInv, AdapterTypeOK
  <2>4. Written' = Written
    BY <2>3, Zenon DEF Written
  <2> QED
    BY <2>1, <2>4, Zenon DEF Contract!cvars
<1> QED
  BY <1>4, <1>5, Zenon

(* The holder's object as the contract sees it, and what it becomes.       *)
LEMMA HolderSees ==
  ASSUME AdapterInv, AdapterInv', NEW p \in Procs, at[p] \in {"locked", "writing", "renaming"},
         at' = [at EXCEPT ![p] = "idle"]
  PROVE  /\ lock = p /\ Key(p) \in Keys /\ call[p] \in Calls /\ verdict[p] = None /\ result[p] = None
         /\ Written[Key(p)] = IF at[p] = "writing" THEN None ELSE objects[Key(p)]
         /\ objects' = objects /\ at[p] # "writing" => Written' = Written
         /\ \A w : objects' = [objects EXCEPT ![Key(p)] = w] => Written' = [Written EXCEPT ![Key(p)] = w]
<1> USE DEF At
<1>1. lock = p /\ Key(p) \in Keys /\ call[p] \in Calls /\ verdict[p] = None /\ result[p] = None
  BY CallShape, Zenon DEF AdapterInv, PlaceOK, Key
<1>2. \A q \in Procs : q # p => at[q] \notin {"locked", "writing", "renaming"}
  BY <1>1, OneHolder, Zenon
<1>3. \A q \in Procs : at'[q] # "writing"
  BY <1>2, Zenon DEF AdapterInv, AdapterTypeOK
<1>4. Written' = objects'
  BY <1>3, WrittenThen, Zenon
<1>5. \A k \in Keys : Written[k] = IF at[p] = "writing" /\ k = Key(p) THEN None ELSE objects[k]
  BY <1>1, <1>2, Zenon DEF Written
<1>6. objects \in [Keys -> Optional \cup {Torn}] /\ Written = [k \in Keys |-> Written[k]]
  BY Zenon DEF AdapterInv, AdapterTypeOK, Written
<1>7. ASSUME objects' = objects, at[p] # "writing" PROVE Written' = Written
  BY <1>4, <1>5, <1>6, <1>7, Zenon
<1>8. ASSUME NEW w, objects' = [objects EXCEPT ![Key(p)] = w] PROVE Written' = [Written EXCEPT ![Key(p)] = w]
  BY <1>1, <1>4, <1>5, <1>6, <1>8, Zenon
<1> QED
  BY <1>1, <1>5, <1>7, <1>8, Zenon

(* The holder's write: it took effect, with a good or a late error answer, *)
(* or it did not and the caller is told so.                                *)
LEMMA RefinesWrite ==
  ASSUME AdapterInv, AdapterInv', NEW p \in Procs,
         write_new(p) \/ replace_atomically(p) \/ fs_delete(p)
  PROVE  Contract!Next
<1> USE DEF At
<1>1. /\ at[p] \in {"locked", "writing", "renaming"} /\ at' = [at EXCEPT ![p] = "idle"] /\ call' = call
  BY Zenon DEF write_new, replace_atomically, fs_delete, Done, FileRest
<1>2. /\ Key(p) \in Keys /\ call[p] \in Calls /\ verdict[p] = None /\ result[p] = None
      /\ Written[Key(p)] = IF at[p] = "writing" THEN None ELSE objects[Key(p)]
      /\ objects' = objects /\ at[p] # "writing" => Written' = Written
      /\ \A w : objects' = [objects EXCEPT ![Key(p)] = w] => Written' = [Written EXCEPT ![Key(p)] = w]
  BY <1>1, HolderSees, Zenon
<1>3. verdict \in [Procs -> Optional \cup Answers]
  BY Zenon DEF AdapterInv, AdapterTypeOK
<1> DEFINE new == IF call[p].do = "delete" THEN None ELSE call[p].value
<1>4. /\ Contract!Effect(call[p], Written[Key(p)]) = new
      /\ "ok" \in Contract!Earned(call[p], Written[Key(p)])
  <2>1. CASE at[p] = "writing"
    BY <1>2, <2>1, EffectOf DEF AdapterInv, LockProtects
  <2>2. CASE at[p] = "renaming"
    <3>1. call[p].do = "cas" /\ objects[Key(p)] = call[p].expected
      BY <2>2, Zenon DEF AdapterInv, LockProtects
    <3>2. Written[Key(p)] = call[p].expected /\ call[p].do # "delete" /\ call[p] \in Calls
      BY <1>2, <2>2, <3>1, Zenon
    <3> QED
      BY <3>1, <3>2, EffectOf, Zenon
  <2>3. CASE at[p] = "locked"
    BY <1>2, <2>3, EffectOf, Zenon DEF write_new, replace_atomically, fs_delete
  <2> QED
    BY <1>1, <2>1, <2>2, <2>3, ZenonT(60)
<1>5. new = IF at[p] = "locked" THEN None ELSE call[p].value
  BY <1>1, Zenon DEF AdapterInv, LockProtects, write_new, replace_atomically, fs_delete
<1>6. \/ /\ objects' = [objects EXCEPT ![Key(p)] = new]
         /\ \E r \in {"ok", "unavailable"} : Done(p, "ok", r)
      \/ /\ \/ objects' = objects /\ at[p] # "writing"
            \/ objects' = [objects EXCEPT ![Key(p)] = None] /\ at[p] = "writing"
         /\ Done(p, None, "unavailable")
  BY <1>5, Zenon DEF write_new, replace_atomically, fs_delete, Store
<1> HIDE DEF new
<1>7. CASE /\ objects' = [objects EXCEPT ![Key(p)] = new]
           /\ \E r \in {"ok", "unavailable"} : Done(p, "ok", r)
  BY <1>1, <1>2, <1>4, <1>7, EffectStep, ZenonT(60) DEF Done
<1>8. CASE /\ \/ objects' = objects /\ at[p] # "writing"
              \/ objects' = [objects EXCEPT ![Key(p)] = None] /\ at[p] = "writing"
           /\ Done(p, None, "unavailable")
  <2>1. Written' = Written
    <3>1. CASE objects' = objects /\ at[p] # "writing"
      BY <1>2, <3>1, Zenon
    <3>2. CASE objects' = [objects EXCEPT ![Key(p)] = None] /\ at[p] = "writing"
      <4>1. Written' = [Written EXCEPT ![Key(p)] = None] /\ Written[Key(p)] = None
        BY <1>2, <3>2, Zenon
      <4>2. Written = [k \in Keys |-> Written[k]]
        BY Zenon DEF Written
      <4> QED
        BY <1>2, <4>1, <4>2, Zenon
    <3> QED
      BY <1>8, <3>1, <3>2, Zenon
  <2>2. verdict' = verdict /\ result' = [result EXCEPT ![p] = "unavailable"]
    BY <1>2, <1>3, <1>8, Zenon DEF Done
  <2> QED
    BY <1>1, <1>2, <2>1, <2>2, AnswerStep, Zenon
<1> QED
  BY <1>6, <1>7, <1>8, Zenon

(* Each step of fs compare_and_swap is a step of the contract or none. *)
LEMMA RefinesSwap ==
  ASSUME AdapterInv, AdapterInv', NEW p \in Procs, fs_compare_and_swap(p)
  PROVE  Contract!Next \/ UNCHANGED Contract!cvars
<1> USE DEF At, FileRest
<1>1. /\ at[p] = "locked" /\ call[p].do = "cas" /\ call' = call /\ objects' = objects
  BY Zenon DEF fs_compare_and_swap
<1>2. CASE Current(p) # call[p].expected
  <2>1. Done(p, "conflict", "conflict")
    BY <1>2, Zenon DEF fs_compare_and_swap
  <2>2. /\ call[p] \in Calls /\ verdict[p] = None /\ result[p] = None
        /\ Written[Key(p)] = Current(p) /\ Written' = Written
    BY <1>1, <2>1, HolderSees, Zenon DEF Done, Current
  <2>3. /\ Contract!Effect(call[p], Written[Key(p)]) = Written[Key(p)]
        /\ "conflict" \in Contract!Earned(call[p], Written[Key(p)])
    BY <1>1, <1>2, <2>2, EffectOf, Zenon
  <2> QED
    BY <1>1, <2>1, <2>2, <2>3, QuietStep, Zenon DEF Done
<1>3. CASE Current(p) = call[p].expected
  <2>1. Temporary(p) \notin temps
    BY <1>1, SMTT(60) DEF NamesAreFresh, Temporary, AdapterTypeOK, AdapterInv
  <2>2. Goto(p, "renaming") /\ lock' = lock
    BY <1>3, <2>1, Zenon DEF fs_compare_and_swap
  <2>3. \A q \in Procs : at[q] # "writing"
    BY <1>1, OneHolder, Zenon DEF AdapterInv, PlaceOK
  <2>4. \A q \in Procs : at'[q] # "writing"
    BY <2>2, <2>3, Zenon DEF Goto, AdapterInv, AdapterTypeOK
  <2> QED
    BY <1>1, <2>2, <2>3, <2>4, WrittenNow, WrittenThen, ZenonT(60) DEF Goto, Contract!cvars
<1> QED
  BY <1>2, <1>3, Zenon

(* A crash is a refusal of the contract: the call has no effect after it. *)
LEMMA RefinesCrash ==
  ASSUME ~TornFiles, AdapterInv, AdapterInv', NEW p \in Procs, Crash(p)
  PROVE  Contract!Next
<1> USE DEF Crash, At, FileRest, Done
<1>1. /\ at[p] \in {"start", "locked", "renaming"}
      /\ call[p] \in Calls /\ verdict[p] = None /\ result[p] = None
  BY Zenon DEF AdapterInv, AdapterTypeOK, PlaceOK
<1>2. Written' = Written
  <2>1. \A q \in Procs : at'[q] = "writing" <=> at[q] = "writing"
    BY <1>1, ZenonT(60) DEF AdapterInv, AdapterTypeOK
  <2>2. \A q \in Procs : at[q] = "writing" => q # p /\ lock = q /\ lock' = q
    BY <1>1, Zenon DEF AdapterInv, PlaceOK
  <2>3. \A k \in Keys : (\E q \in Procs : lock' = q /\ at'[q] = "writing" /\ Key(q)' = k)
                        <=> \E q \in Procs : lock = q /\ at[q] = "writing" /\ Key(q) = k
    BY <2>1, <2>2, Zenon DEF Key
  <2> QED
    BY <2>3, Zenon DEF Written
<1>3. verdict' = verdict
  BY <1>1, SMTT(60) DEF AdapterInv, AdapterTypeOK
<1> QED
  BY <1>1, <1>2, <1>3, AnswerStep, Zenon

(* Behind a service the contract sees the objects themselves.              *)
LEMMA ServiceSees ==
  ASSUME AdapterInv, AdapterInv', host # "fs", host' = host
  PROVE  Written = objects /\ Written' = objects'
<1>1. \A q \in Procs : at[q] # "writing" /\ at'[q] # "writing"
  BY Zenon DEF AdapterInv, PlaceOK
<1> QED
  BY <1>1, WrittenNow, WrittenThen, Zenon

(* A conditional put is the effect of a put, or of a swap whose condition  *)
(* is the expected value.                                                  *)
LEMMA PutEffect ==
  ASSUME AdapterInv, AdapterInv', NEW p \in Procs, call[p] \in Calls, host # "fs", host' = host,
         NEW condition \in Optional, NEW e \in {"ok", "conflict"}, ServicePut(p, condition, e),
         \/ call[p].do = "put" /\ condition = None
         \/ call[p].do = "cas" /\ condition = call[p].expected
  PROVE  /\ e \in Contract!Earned(call[p], Written[Key(p)])
         /\ Written' = [Written EXCEPT ![Key(p)] = Contract!Effect(call[p], Written[Key(p)])]
<1>1. Written = objects /\ Written' = objects' /\ Written[Key(p)] = Current(p)
  BY ServiceSees, Zenon DEF Current
<1>2. Holds(condition, Current(p)) <=> Current(p) = condition
  BY Zenon DEF Holds
<1>3. CASE e = "ok"
  <2>1. Current(p) = condition /\ objects' = [objects EXCEPT ![Key(p)] = call[p].value]
    BY <1>2, <1>3, Zenon DEF ServicePut, Store
  <2>2. /\ Contract!Effect(call[p], Current(p)) = call[p].value
        /\ "ok" \in Contract!Earned(call[p], Current(p))
    BY <2>1, EffectOf, Zenon
  <2> QED
    BY <1>1, <1>3, <2>1, <2>2, Zenon
<1>4. CASE e = "conflict"
  <2>1. Current(p) # condition /\ objects' = objects
    BY <1>2, <1>4, Zenon DEF ServicePut
  <2>2. /\ Contract!Effect(call[p], Current(p)) = Current(p)
        /\ "conflict" \in Contract!Earned(call[p], Current(p))
    BY <2>1, EffectOf, SMTT(60)
  <2>3. Written = [Written EXCEPT ![Key(p)] = Written[Key(p)]]
    BY Zenon DEF Written
  <2> QED
    BY <1>1, <1>4, <2>1, <2>2, <2>3, Zenon
<1> QED
  BY <1>3, <1>4, Zenon

(* Each step of an R2 call is a step of the contract or none. *)
LEMMA RefinesR2 ==
  ASSUME AdapterInv, AdapterInv', NEW p \in Procs, R2(p)
  PROVE  Contract!Next \/ UNCHANGED Contract!cvars
<1> USE DEF At
<1>0. /\ call[p] \in Calls /\ at[p] \in {"start", "matched", "late"} /\ host = "r2"
      /\ call' = call /\ host' = host /\ verdict[p] = None /\ PlaceOK(p)
      /\ at[p] # "late" => result[p] = None
  BY R2Shape, Zenon DEF R2, AdapterInv, PlaceOK
<1>1. Written = objects /\ Written' = objects' /\ Written[Key(p)] = Current(p)
  BY <1>0, ServiceSees, Zenon DEF Current
<1>2. ASSUME NEW e \in Contract!Earned(call[p], Written[Key(p)]), invoke(p, e), result[p] = None,
             Written' = [Written EXCEPT ![Key(p)] = Contract!Effect(call[p], Written[Key(p)])]
      PROVE  Contract!Next
  BY <1>0, <1>2, EffectStep, Zenon DEF invoke, Done
<1>3. CASE readObject(p)
  <2>1. /\ Contract!Effect(call[p], Written[Key(p)]) = Written[Key(p)]
        /\ Content(p) \in Contract!Earned(call[p], Written[Key(p)])
    BY <1>0, <1>1, <1>3, EffectOf, Zenon DEF readObject, Content
  <2>2. Written = [Written EXCEPT ![Key(p)] = Written[Key(p)]] /\ Written' = Written
    BY <1>1, <1>3, Zenon DEF Written, readObject
  <2> QED
    BY <1>0, <1>2, <1>3, <2>1, <2>2, Zenon DEF readObject
<1>4. None \in Optional
  BY Zenon DEF Optional
<1>5. CASE r2_putIfAbsent(p)
  <2>1. PICK e \in {"ok", "conflict"} : ServicePut(p, None, e) /\ invoke(p, e)
    BY <1>5, Zenon DEF r2_putIfAbsent
  <2>2. call[p].do = "put" /\ at[p] = "start"
    BY <1>5, Zenon DEF r2_putIfAbsent
  <2> QED
    BY <1>0, <1>2, <1>4, <2>1, <2>2, PutEffect, Zenon
<1>6. CASE r2_compareAndSwap(p)
  <2>0. call[p].do = "cas" /\ at[p] = "start"
    BY <1>6, Zenon DEF r2_compareAndSwap
  <2>1. CASE call[p].expected = None
    <3>1. PICK e \in {"ok", "conflict"} : ServicePut(p, None, e) /\ invoke(p, e)
      BY <1>6, <2>1, Zenon DEF r2_compareAndSwap
    <3> QED
      BY <1>0, <1>2, <1>4, <2>0, <2>1, <3>1, PutEffect, Zenon
  <2>2. CASE call[p].expected # None /\ Current(p) # call[p].expected
    <3>1. Done(p, "conflict", "conflict") /\ objects' = objects
      BY <1>6, <2>2, Zenon DEF r2_compareAndSwap
    <3>2. /\ Contract!Effect(call[p], Written[Key(p)]) = Written[Key(p)]
          /\ "conflict" \in Contract!Earned(call[p], Written[Key(p)])
      BY <1>0, <1>1, <2>0, <2>2, EffectOf, Zenon
    <3> QED
      BY <1>0, <1>1, <2>0, <3>1, <3>2, QuietStep, Zenon DEF Done
  <2>3. CASE call[p].expected # None /\ Current(p) = call[p].expected
    BY <1>0, <1>1, <1>6, <2>3, Zenon DEF r2_compareAndSwap, Goto, Contract!cvars
  <2> QED
    BY <2>1, <2>2, <2>3, Zenon
<1>7. CASE r2_put(p)
  <2>1. PICK e \in {"ok", "conflict"} : ServicePut(p, seen[p], e) /\ invoke(p, e)
    BY <1>7, Zenon DEF r2_put
  <2>2. at[p] = "matched" /\ call[p].do = "cas" /\ seen[p] = call[p].expected /\ seen[p] \in Optional
    BY <1>0, <1>7, ZenonT(60) DEF r2_put, PlaceOK, AdapterInv, AdapterTypeOK
  <2> QED
    BY <1>0, <1>2, <2>1, <2>2, PutEffect, Zenon
<1>8. CASE r2_delete(p)
  <2>1. /\ Written' = [Written EXCEPT ![Key(p)] = None] /\ invoke(p, "ok")
        /\ call[p].do = "delete" /\ at[p] = "start"
    BY <1>1, <1>8, Zenon DEF r2_delete, Store
  <2> QED
    BY <1>0, <1>2, <2>1, EffectOf, Zenon
<1>9. CASE r2_late(p)
  <2>1. PICK e \in {"ok", "conflict"} :
            /\ IF call[p].do = "delete" THEN e = "ok" /\ Store(p, None) ELSE ServicePut(p, seen[p], e)
            /\ verdict' = [verdict EXCEPT ![p] = e]
    BY <1>9, Zenon DEF r2_late
  <2>2. result' = result /\ at[p] = "late" /\ seen[p] \in Optional
    BY <1>9, Zenon DEF r2_late, AdapterInv, AdapterTypeOK
  <2>3. CASE call[p].do = "delete"
    <3>1. Written' = [Written EXCEPT ![Key(p)] = None] /\ e = "ok"
      BY <1>1, <2>1, <2>3, Zenon DEF Store
    <3> QED
      BY <1>0, <2>1, <2>2, <2>3, <3>1, EffectOf, EffectStep, Zenon
  <2>4. CASE call[p].do # "delete"
    <3>1. /\ ServicePut(p, seen[p], e)
          /\ \/ call[p].do = "put" /\ seen[p] = None
             \/ call[p].do = "cas" /\ seen[p] = call[p].expected
      BY <1>0, <2>1, <2>2, <2>4, Zenon DEF PlaceOK
    <3>2. /\ e \in Contract!Earned(call[p], Written[Key(p)])
          /\ Written' = [Written EXCEPT ![Key(p)] = Contract!Effect(call[p], Written[Key(p)])]
      BY <1>0, <2>2, <3>1, PutEffect, Zenon
    <3> QED
      BY <1>0, <2>1, <2>2, <3>2, EffectStep, Zenon
  <2> QED
    BY <2>3, <2>4, Zenon
<1>10. CASE r2_failed(p)
  <2>1. /\ UNCHANGED <<objects, verdict>> /\ result' = [result EXCEPT ![p] = "unavailable"]
        /\ at[p] # "late"
    BY <1>10, Zenon DEF r2_failed
  <2> QED
    BY <1>0, <1>1, <2>1, AnswerStep, Zenon
<1> QED
  BY <1>3, <1>5, <1>6, <1>7, <1>8, <1>9, <1>10, Zenon DEF R2

(* The service's step is the effect of the request, also of one its client *)
(* has given up, or refuses it.                                            *)
LEMMA RefinesService ==
  ASSUME AdapterInv, AdapterInv', NEW p \in Procs, Http(p), Service(p)
  PROVE  Contract!Next
<1>0. /\ call[p] \in Calls /\ host = "http" /\ call' = call /\ host' = host
      /\ verdict[p] = None /\ result' = result
  BY HttpShape, ZenonT(60) DEF Service
<1>1. Written = objects /\ Written' = objects' /\ Written[Key(p)] = Current(p)
  BY <1>0, ServiceSees, Zenon DEF Current
<1>2. CASE /\ call[p].do = "get" /\ UNCHANGED objects
           /\ verdict' = [verdict EXCEPT ![p] = Content(p)]
  <2>1. /\ Contract!Effect(call[p], Written[Key(p)]) = Written[Key(p)]
        /\ Content(p) \in Contract!Earned(call[p], Written[Key(p)])
    BY <1>0, <1>1, <1>2, EffectOf, Zenon DEF Content
  <2> QED
    BY <1>0, <1>1, <1>2, <2>1, QuietStep, Zenon
<1>3. CASE /\ call[p].do \in {"put", "cas"}
           /\ \E e \in {"ok", "conflict"} :
                 /\ ServicePut(p, IF call[p].do = "cas" THEN call[p].expected ELSE None, e)
                 /\ verdict' = [verdict EXCEPT ![p] = e]
  <2> DEFINE condition == IF call[p].do = "cas" THEN call[p].expected ELSE None
  <2>1. PICK e \in {"ok", "conflict"} :
            ServicePut(p, condition, e) /\ verdict' = [verdict EXCEPT ![p] = e]
    BY <1>3, Zenon
  <2>2. /\ condition \in Optional
        /\ \/ call[p].do = "put" /\ condition = None
           \/ call[p].do = "cas" /\ condition = call[p].expected
    BY <1>0, <1>3, CallShape, Zenon DEF Optional
  <2> HIDE DEF condition
  <2>3. /\ e \in Contract!Earned(call[p], Written[Key(p)])
        /\ Written' = [Written EXCEPT ![Key(p)] = Contract!Effect(call[p], Written[Key(p)])]
    BY <1>0, <2>1, <2>2, PutEffect, Zenon
  <2> QED
    BY <1>0, <2>1, <2>3, EffectStep, Zenon
<1>4. CASE /\ call[p].do = "delete" /\ Store(p, None)
           /\ verdict' = [verdict EXCEPT ![p] = "ok"]
  <2>1. Written' = [Written EXCEPT ![Key(p)] = None]
    BY <1>1, <1>4, Zenon DEF Store
  <2> QED
    BY <1>0, <1>4, <2>1, EffectOf, EffectStep, Zenon
<1>5. CASE UNCHANGED objects /\ verdict' = [verdict EXCEPT ![p] = "refused"]
  BY <1>0, <1>1, <1>5, RefuseStep, Zenon
<1> QED
  BY <1>2, <1>3, <1>4, <1>5, SMTT(60) DEF Service

(* Each step of a Fetch call, late arrivals included, is a step of the        *)
(* contract or none.                                                          *)
LEMMA RefinesHttp ==
  ASSUME AdapterInv, AdapterInv', NEW p \in Procs, Http(p)
  PROVE  Contract!Next \/ UNCHANGED Contract!cvars
<1> USE DEF At
<1>0. /\ call[p] \in Calls /\ host = "http" /\ call' = call /\ host' = host /\ PlaceOK(p)
      /\ at[p] \in {"start", "sent"} => result[p] = None
  BY HttpShape, Zenon DEF AdapterInv, PlaceOK
<1>1. Written = objects /\ Written' = objects'
  BY <1>0, ServiceSees, Zenon
<1>2. CASE request(p)
  <2>1. CASE p \in callerAborted
    BY <1>0, <1>1, <1>2, <2>1, RefuseStep, Zenon DEF request, Done, PlaceOK
  <2>2. CASE p \notin callerAborted
    BY <1>0, <1>1, <1>2, <2>2, Zenon DEF request, Goto, Contract!cvars
  <2> QED
    BY <2>1, <2>2, Zenon
<1>3. CASE timer(p) \/ callerAbort(p)
  BY <1>0, <1>1, <1>3, Zenon DEF timer, callerAbort, Contract!cvars
<1>4. CASE Rejected(p)
  <2>1. PICK r \in {"unavailable", "cancelled"} : result' = [result EXCEPT ![p] = r]
    BY <1>4, Zenon DEF Rejected, Caught
  <2> QED
    BY <1>0, <1>1, <1>4, <2>1, AnswerStep, Zenon DEF Rejected
<1>5. CASE consumeResponse(p)
  <2>1. at[p] = "sent" /\ objects' = objects
    BY <1>5, Zenon DEF consumeResponse
  <2>2. PICK r \in {"unavailable", "cancelled"}
                     \cup (IF verdict[p] = "refused" THEN {"invalid"} ELSE {verdict[p]}) :
            Done(p, verdict[p], r)
    BY <1>5, <2>1, ConsumedAnswer, Zenon
  <2>3. verdict[p] # None
    BY <1>5, <2>1, ConsumedAnswer, Zenon
  <2>4. verdict' = verdict /\ result' = [result EXCEPT ![p] = r]
    BY <2>2, Zenon DEF Done, AdapterInv, AdapterTypeOK
  <2> QED
    BY <1>0, <1>1, <2>1, <2>2, <2>3, <2>4, AnswerStep, Zenon
<1> QED
  BY <1>2, <1>3, <1>4, <1>5, HttpShape, RefinesService, Zenon

(* The three adapters implement the ObjectStore contract: every operation  *)
(* takes effect at one instant and answers what it did there, in spite of  *)
(* I/O errors, crashes, lost answers, timeouts and aborts.  The two        *)
(* assumptions are the gaps of edge/filesystem.rs: a process ID that is    *)
(* used again, and a crash between create_new and the write.               *)
THEOREM AdaptersLinearizable ==
  ASSUME ~SamePid, ~TornFiles
  PROVE  Spec => Linearizable
<1>1. AdapterInv /\ AdapterInv' /\ [Next]_vars => [Contract!Next]_(Contract!cvars)
  <2> SUFFICES ASSUME AdapterInv, AdapterInv', [Next]_vars
               PROVE  Contract!Next \/ UNCHANGED Contract!cvars
    BY Zenon
  <2>1. CASE UNCHANGED vars
    BY <2>1, Zenon DEF vars, Contract!cvars, Written, At, Key
  <2>2. ASSUME NEW p \in Procs, Filesystem(p) PROVE Contract!Next \/ UNCHANGED Contract!cvars
    BY <2>2, RefinesGet, RefinesLock, RefinesPut, RefinesWrite, RefinesSwap, Zenon DEF Filesystem
  <2> QED
    BY <2>1, <2>2, RefinesCall, RefinesCrash, RefinesR2, RefinesHttp, Zenon DEF Next
<1> QED
  BY <1>1, RefinesInit, AdapterInvariance, PTL DEF Spec, Linearizable, Contract!Spec
=============================================================================
