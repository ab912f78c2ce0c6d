---------------------------- MODULE ObjectAdapters ---------------------------
(***************************************************************************)
(* The stores behind the ObjectStore contract, step by step:                *)
(* FilesystemObjectStore (edge/filesystem.rs), the R2 binding               *)
(* (r2-object-store.mjs) and the Fetch client (worker-object-store.mjs).    *)
(*                                                                         *)
(* The file system and the two services are external.  A file created and   *)
(* not written yet is Torn.  A service executes a conditional request       *)
(* atomically, and an ETag names the content.  A request whose caller gave  *)
(* up may be executed later; its process makes no other one until then.     *)
(***************************************************************************)
EXTENDS Integers, FiniteSets

CONSTANTS
    Procs, Keys, Values, None, Torn,
    Adapters,   \* the adapters looked at, of "fs", "r2" and "http"
    TimeoutMs,  \* the Fetch timeout; 0 is none
    SamePid,    \* whether a restarted process may get its old process ID
    TornFiles,  \* whether a process may die between creating a file and writing it
    MaxCalls,   \* bound on the calls of a behaviour, per adapter
    MaxFaults,  \* bound on I/O errors and failed exchanges
    MaxCrashes  \* bound on processes that die

VARIABLES
    host,      \* the adapter of this behaviour
    objects,   \* the content of each key
    call, verdict, result,
    at,        \* where an operation is
    seen,      \* the content whose ETag a swap read
    lock,      \* the holder of the exclusive file lock
    temps,     \* temporary files left behind
    pid, sequence,
    reply,     \* the HTTP status on its way back
    timedOut, callerAborted,
    calls, faults, crashes

file == <<lock, temps, pid, sequence, crashes>>
fetch == <<reply, timedOut, callerAborted>>
vars == <<host, objects, call, verdict, result, at, seen, lock, temps, pid, sequence,
          reply, timedOut, callerAborted, calls, faults, crashes>>

Calls ==
    [do : {"get", "delete"}, key : Keys]
      \cup [do : {"put"}, key : Keys, value : Values]
      \cup [do : {"cas"}, key : Keys, expected : Values \cup {None}, value : Values]

Answers == {"ok", "conflict", "none", "refused", "unavailable", "cancelled", "invalid", "missing"}
Statuses == {200, 201, 204, 400, 404, 412, 429, 503}

ASSUME AdapterAssumption ==
    /\ None \notin Values \cup Procs \cup Calls \cup Answers \cup Statuses
    /\ Torn \notin Values \cup {None}
    /\ "refused" \notin Values

Key(p) == call[p].key
Current(p) == objects[Key(p)]
Content(p) == IF Current(p) = None THEN "none" ELSE Current(p)
At(p, s) == at[p] = s
Goto(p, s) == at' = [at EXCEPT ![p] = s] /\ UNCHANGED <<verdict, result>>
Store(p, v) == objects' = [objects EXCEPT ![Key(p)] = v]
Fault == faults < MaxFaults /\ faults' = faults + 1

\* The operation takes effect, or is decided, as v and answers r.
Done(p, v, r) ==
    /\ verdict' = [verdict EXCEPT ![p] = v]
    /\ result' = [result EXCEPT ![p] = r]
    /\ at' = [at EXCEPT ![p] = "idle"]

Call(p) ==
    /\ At(p, "idle") /\ calls < MaxCalls[host]
    /\ \E c \in Calls : call' = [call EXCEPT ![p] = c]
    /\ calls' = calls + 1
    /\ verdict' = [verdict EXCEPT ![p] = None]
    /\ result' = [result EXCEPT ![p] = None]
    /\ at' = [at EXCEPT ![p] = "start"]
    /\ seen' = [seen EXCEPT ![p] = None]
    /\ reply' = [reply EXCEPT ![p] = None]
    /\ timedOut' = timedOut \ {p}
    /\ callerAborted' = callerAborted \ {p}
    /\ UNCHANGED <<host, objects, faults, file>>

(***************************************************************************)
(* FilesystemObjectStore                                                    *)
(***************************************************************************)
FileRest == UNCHANGED <<host, call, seen, calls, fetch>>
Unlock == lock' = None /\ UNCHANGED <<temps, pid, sequence, crashes>>

\* A get reads under the shared lock.
fs_get(p) ==
    /\ At(p, "start") /\ call[p].do = "get" /\ lock = None
    /\ Done(p, Content(p), Content(p))
    /\ UNCHANGED <<objects, faults, file>> /\ FileRest

with_lock(p) ==
    /\ At(p, "start") /\ call[p].do # "get" /\ lock = None
    /\ lock' = p
    /\ Goto(p, "locked")
    /\ UNCHANGED <<objects, temps, pid, sequence, faults, crashes>> /\ FileRest

\* An absent object is created under its final name, and empty.
fs_put_if_absent(p) ==
    /\ At(p, "locked") /\ call[p].do = "put"
    /\ IF Current(p) # None
       THEN /\ LET r == IF Current(p) = call[p].value THEN "ok" ELSE "conflict"
               IN  Done(p, r, r)
            /\ Unlock /\ UNCHANGED objects
       ELSE Store(p, Torn) /\ Goto(p, "writing") /\ UNCHANGED file
    /\ UNCHANGED faults /\ FileRest

\* The bytes are written; a write error removes the file.
write_new(p) ==
    /\ At(p, "writing")
    /\ \/ Store(p, call[p].value) /\ Done(p, "ok", "ok") /\ UNCHANGED faults
       \/ Store(p, None) /\ Done(p, None, "unavailable") /\ Fault
       \* sync_directory failed after the object was written
       \/ Store(p, call[p].value) /\ Done(p, "ok", "unavailable") /\ Fault
    /\ Unlock /\ FileRest

Temporary(p) == <<Key(p), p, pid[p], sequence[p]>>

\* The replacement is created under a temporary name; one that is taken is a conflict.
fs_compare_and_swap(p) ==
    /\ At(p, "locked") /\ call[p].do = "cas"
    /\ IF Current(p) # call[p].expected
       THEN Done(p, "conflict", "conflict") /\ lock' = None /\ UNCHANGED <<temps, pid, sequence>>
       ELSE /\ sequence' = [sequence EXCEPT ![p] = @ + 1]
            /\ IF Temporary(p) \in temps
               THEN Done(p, "conflict", "conflict") /\ lock' = None /\ UNCHANGED <<temps, pid>>
               ELSE /\ temps' = temps \cup {Temporary(p)}
                    /\ Goto(p, "renaming") /\ UNCHANGED <<lock, pid>>
    /\ UNCHANGED <<objects, faults, crashes>> /\ FileRest

OwnTemporary(p) == {t \in temps : t[2] = p /\ t[3] = pid[p] /\ t[4] = sequence[p] - 1}

\* The rename, the removal of the temporary file after an error, the directory sync.
replace_atomically(p) ==
    /\ At(p, "renaming")
    /\ \/ Store(p, call[p].value) /\ Done(p, "ok", "ok") /\ UNCHANGED faults
       \/ UNCHANGED objects /\ Done(p, None, "unavailable") /\ Fault
       \/ Store(p, call[p].value) /\ Done(p, "ok", "unavailable") /\ Fault
    /\ temps' = temps \ OwnTemporary(p)
    /\ lock' = None /\ UNCHANGED <<pid, sequence, crashes>> /\ FileRest

fs_delete(p) ==
    /\ At(p, "locked") /\ call[p].do = "delete"
    /\ \/ Store(p, None) /\ Done(p, "ok", "ok") /\ UNCHANGED faults
       \/ UNCHANGED objects /\ Done(p, None, "unavailable") /\ Fault
       \/ Current(p) # None /\ Store(p, None) /\ Done(p, "ok", "unavailable") /\ Fault
    /\ Unlock /\ FileRest

\* The process dies: its lock is released, its sequence starts again.
Crash(p) ==
    /\ host = "fs" /\ ~At(p, "idle") /\ crashes < MaxCrashes
    /\ At(p, "writing") => TornFiles
    /\ crashes' = crashes + 1
    /\ Done(p, None, "unavailable")
    /\ lock' = IF lock = p THEN None ELSE lock
    /\ sequence' = [sequence EXCEPT ![p] = 0]
    /\ pid' = IF SamePid THEN pid ELSE [pid EXCEPT ![p] = @ + 1]
    /\ UNCHANGED <<objects, temps, faults>> /\ FileRest

Filesystem(p) ==
    /\ host = "fs"
    /\ \/ fs_get(p) \/ with_lock(p) \/ fs_put_if_absent(p) \/ write_new(p)
       \/ fs_compare_and_swap(p) \/ replace_atomically(p) \/ fs_delete(p)

(***************************************************************************)
(* The services: one atomic conditional request each.                       *)
(***************************************************************************)
\* The condition a write carries: If-None-Match: *, or If-Match with an ETag.
Holds(condition, v) == IF condition = None THEN v = None ELSE v = condition

\* The service executes a put under a condition.
ServicePut(p, condition, e) ==
    /\ e = IF Holds(condition, Current(p)) THEN "ok" ELSE "conflict"
    /\ IF e = "ok" THEN Store(p, call[p].value) ELSE UNCHANGED objects

(***************************************************************************)
(* The R2 adapter                                                           *)
(***************************************************************************)
HostRest == UNCHANGED <<host, call, calls, file, fetch>>

\* invoke: an answer that does not arrive is reported as unavailable.
invoke(p, e) ==
    \/ Done(p, e, e) /\ UNCHANGED faults
    \/ Done(p, e, "unavailable") /\ Fault

\* The exchange fails before an answer; a write may still be executed later.
r2_failed(p) ==
    /\ at[p] \in {"start", "matched"} /\ Fault
    /\ result' = [result EXCEPT ![p] = "unavailable"]
    /\ LET reading == At(p, "start") /\ (call[p].do = "get" \/ (call[p].do = "cas" /\ call[p].expected # None))
       IN  at' = [at EXCEPT ![p] = IF reading THEN "idle" ELSE "late"]
    /\ UNCHANGED <<objects, verdict, seen>> /\ HostRest

readObject(p) ==
    /\ At(p, "start") /\ call[p].do = "get"
    /\ invoke(p, Content(p))
    /\ UNCHANGED <<objects, seen>> /\ HostRest

r2_putIfAbsent(p) ==
    /\ At(p, "start") /\ call[p].do = "put"
    /\ \E e \in {"ok", "conflict"} : ServicePut(p, None, e) /\ invoke(p, e)
    /\ UNCHANGED seen /\ HostRest

\* An expected value is read and compared first, and its ETag remembered.
r2_compareAndSwap(p) ==
    /\ At(p, "start") /\ call[p].do = "cas"
    /\ CASE call[p].expected = None ->
              /\ \E e \in {"ok", "conflict"} : ServicePut(p, None, e) /\ invoke(p, e)
              /\ UNCHANGED seen
         [] call[p].expected # None /\ Current(p) # call[p].expected ->
              Done(p, "conflict", "conflict") /\ UNCHANGED <<objects, seen, faults>>
         [] OTHER ->
              /\ seen' = [seen EXCEPT ![p] = Current(p)]
              /\ Goto(p, "matched") /\ UNCHANGED <<objects, faults>>
    /\ HostRest

\* Mutant: the put that follows the comparison carries no condition.
r2_put_unconditional(p) ==
    /\ At(p, "matched")
    /\ Store(p, call[p].value) /\ invoke(p, "ok")
    /\ UNCHANGED seen /\ HostRest

r2_put(p) ==
    /\ At(p, "matched")
    /\ \E e \in {"ok", "conflict"} : ServicePut(p, seen[p], e) /\ invoke(p, e)
    /\ UNCHANGED seen /\ HostRest

\* The service executes a write whose caller has been told "unavailable".
r2_late(p) ==
    /\ At(p, "late")
    /\ \E e \in {"ok", "conflict"} :
          /\ IF call[p].do = "delete" THEN e = "ok" /\ Store(p, None) ELSE ServicePut(p, seen[p], e)
          /\ verdict' = [verdict EXCEPT ![p] = e]
    /\ at' = [at EXCEPT ![p] = "idle"]
    /\ UNCHANGED <<result, seen, faults>> /\ HostRest

r2_delete(p) ==
    /\ At(p, "start") /\ call[p].do = "delete"
    /\ Store(p, None) /\ invoke(p, "ok")
    /\ UNCHANGED seen /\ HostRest

R2(p) ==
    /\ host = "r2"
    /\ \/ readObject(p) \/ r2_putIfAbsent(p) \/ r2_compareAndSwap(p) \/ r2_put(p)
       \/ r2_late(p) \/ r2_delete(p) \/ r2_failed(p)

(***************************************************************************)
(* The Fetch adapter                                                        *)
(***************************************************************************)
FetchRest == UNCHANGED <<host, call, seen, calls, file>>

\* A caller whose signal is aborted already is refused before anything is sent.
request(p) ==
    /\ At(p, "start")
    /\ IF p \in callerAborted
       THEN Done(p, "refused", "cancelled")
       ELSE Goto(p, "sent")
    /\ UNCHANGED <<objects, faults, fetch>> /\ FetchRest

\* The service executes the request, also one its client has given up, or turns it down
\* with a status of its own.
Service(p) ==
    LET c == call[p]
        Reply(e, status) ==
            /\ verdict' = [verdict EXCEPT ![p] = e]
            /\ reply' = [reply EXCEPT ![p] = status]
    IN  /\ at[p] \in {"sent", "abandoned"} /\ verdict[p] = None
        /\ \/ /\ c.do = "get" /\ UNCHANGED <<objects, faults>>
              /\ Reply(Content(p), IF Current(p) = None THEN 404 ELSE 200)
           \/ /\ c.do \in {"put", "cas"} /\ UNCHANGED faults
              /\ \E e \in {"ok", "conflict"} :
                    /\ ServicePut(p, IF c.do = "cas" THEN c.expected ELSE None, e)
                    /\ Reply(e, IF e = "ok" THEN 201 ELSE 412)
           \/ /\ c.do = "delete" /\ Store(p, None) /\ UNCHANGED faults
              /\ Reply("ok", IF Current(p) = None THEN 404 ELSE 204)
           \/ /\ Fault /\ UNCHANGED objects
              /\ \E status \in {400, 429, 503} : Reply("refused", status)
        /\ UNCHANGED <<result, at, timedOut, callerAborted>> /\ FetchRest

\* The success statuses of the operation, and the code of the others.
requireStatus(p) ==
    LET status == reply[p]
    IN  CASE status = 404 -> CASE call[p].do = "get" -> "none"
                               [] call[p].do = "delete" -> "ok"
                               [] OTHER -> "missing"
          [] status = 200 -> verdict[p]
          [] status \in {201, 204} -> "ok"
          [] status \in {409, 412} -> "conflict"
          [] status \in (400..499) \ {404, 408, 409, 412, 429} -> "invalid"
          [] OTHER -> "unavailable"

\* What the catch block reports for an error: the timeout before the caller's callerAbort, and
\* both before the error itself.
Caught(p, error) ==
    CASE p \in timedOut -> "unavailable"
      [] p \notin timedOut /\ p \in callerAborted -> "cancelled"
      [] OTHER -> error

\* The response is read to its end; a refusal passes through the catch block.
consumeResponse(p) ==
    LET r == requireStatus(p) IN
    /\ At(p, "sent") /\ reply[p] # None
    /\ Done(p, verdict[p], IF r \in {"conflict", "invalid", "missing", "unavailable"} THEN Caught(p, r) ELSE r)
    /\ UNCHANGED <<objects, faults, fetch>> /\ FetchRest

\* The fetch is rejected, because it was aborted or the network failed.
Rejected(p) ==
    /\ At(p, "sent")
    /\ IF p \in timedOut \cup callerAborted THEN UNCHANGED faults ELSE Fault
    /\ result' = [result EXCEPT ![p] = Caught(p, "unavailable")]
    /\ at' = [at EXCEPT ![p] = "abandoned"]
    /\ UNCHANGED <<objects, verdict, fetch>> /\ FetchRest

\* The timer fires and aborts the fetch.
timer(p) ==
    /\ At(p, "sent") /\ TimeoutMs > 0 /\ p \notin timedOut
    /\ timedOut' = timedOut \cup {p}
    /\ UNCHANGED <<objects, verdict, result, at, reply, callerAborted, faults>> /\ FetchRest

\* The caller's signal is aborted before or during the request.
callerAbort(p) ==
    /\ host = "http" /\ at[p] \in {"start", "sent"} /\ p \notin callerAborted
    /\ callerAborted' = callerAborted \cup {p}
    /\ UNCHANGED <<objects, verdict, result, at, reply, timedOut, faults>> /\ FetchRest

\* The client's own steps; only an aborted fetch is certain to be rejected.
Client(p) ==
    /\ host = "http"
    /\ request(p) \/ timer(p) \/ (p \in timedOut /\ Rejected(p))

Http(p) ==
    /\ host = "http"
    /\ Client(p) \/ consumeResponse(p) \/ Rejected(p) \/ Service(p) \/ callerAbort(p)

(***************************************************************************)
(* Specification.                                                           *)
(***************************************************************************)
Init ==
    /\ host \in Adapters
    /\ objects = [k \in Keys |-> None]
    /\ call = [p \in Procs |-> None]
    /\ verdict = [p \in Procs |-> None]
    /\ result = [p \in Procs |-> None]
    /\ at = [p \in Procs |-> "idle"]
    /\ seen = [p \in Procs |-> None]
    /\ lock = None /\ temps = {}
    /\ pid = [p \in Procs |-> 0]
    /\ sequence = [p \in Procs |-> 0]
    /\ reply = [p \in Procs |-> None]
    /\ timedOut = {} /\ callerAborted = {}
    /\ calls = 0 /\ faults = 0 /\ crashes = 0

Next ==
    \E p \in Procs : Call(p) \/ Filesystem(p) \/ Crash(p) \/ R2(p) \/ Http(p)

Spec == Init /\ [][Next]_vars

\* The event loop of the client runs on and its timer fires; the service and the network
\* may stay silent for ever.
FairSpec == Spec /\ \A p \in Procs : WF_vars(Client(p))

(***************************************************************************)
(* Properties.                                                              *)
(***************************************************************************)
\* A file that its lock holder has created and not written yet is not there yet.
Written ==
    [k \in Keys |->
        IF \E p \in Procs : lock = p /\ At(p, "writing") /\ Key(p) = k THEN None ELSE objects[k]]

Contract ==
    INSTANCE ObjectContract WITH objects <- Written

\* An adapter implements the ObjectStore contract: each operation takes effect at one
\* instant and answers what it did there, whatever others do between its lock and its
\* rename, between its read and its conditional put, or while its response is under way,
\* and whatever error cuts it short.
Linearizable == Contract!Spec

\* With a timeout every Fetch operation answers, whatever the service does.
AnswersInTime ==
    \A p \in Procs : []<>(host = "http" => at[p] \in {"idle", "abandoned"})

(***************************************************************************)
(* The inductive invariant of ObjectAdaptersProofs.                         *)
(***************************************************************************)
Optional == Values \cup {None}

\* Variables and places have their types.
AdapterTypeOK ==
    /\ objects \in [Keys -> Optional \cup {Torn}]
    /\ call \in [Procs -> Calls \cup {None}]
    /\ verdict \in [Procs -> Optional \cup Answers]
    /\ result \in [Procs -> Optional \cup Answers]
    /\ at \in [Procs -> {"idle", "start", "locked", "writing", "renaming", "matched", "late",
                         "sent", "abandoned"}]
    /\ seen \in [Procs -> Optional]
    /\ lock \in Procs \cup {None}
    /\ pid \in [Procs -> Nat] /\ sequence \in [Procs -> Nat]
    /\ temps \subseteq Keys \X Procs \X Nat \X Nat
    /\ reply \in [Procs -> Statuses \cup {None}]

\* What an operation knows at each place: one that runs has earned no answer and given none,
\* one whose caller gave up has given its answer.
PlaceOK(p) ==
    /\ at[p] # "idle" => call[p] \in Calls
    /\ at[p] = "idle" => call[p] = None \/ result[p] # None
    /\ at[p] \in {"start", "locked", "writing", "renaming", "matched"} => verdict[p] = None /\ result[p] = None
    /\ at[p] \in {"start", "sent", "abandoned"} => seen[p] = None
    /\ at[p] \in {"locked", "writing", "renaming"} => host = "fs" /\ lock = p /\ call[p].do # "get"
    /\ at[p] = "matched" => host = "r2" /\ call[p].do = "cas" /\ call[p].expected # None /\ seen[p] = call[p].expected
    /\ at[p] = "late" => /\ host = "r2" /\ verdict[p] = None /\ result[p] # None
                         /\ call[p].do \in {"put", "cas", "delete"}
                         /\ call[p].do = "put" => seen[p] = None
                         /\ call[p].do = "cas" => seen[p] = call[p].expected
    /\ at[p] \in {"sent", "abandoned"} => host = "http" /\ (result[p] = None <=> at[p] = "sent")

\* The lock protects what a file operation read: the object it creates is the empty file,
\* the object it replaces is the expected one, and no other file is empty.
LockProtects ==
    /\ \A p \in Procs : at[p] = "writing" => call[p].do = "put" /\ objects[Key(p)] = Torn
    /\ \A p \in Procs : at[p] = "renaming" => call[p].do = "cas" /\ objects[Key(p)] = call[p].expected
    /\ \A k \in Keys : objects[k] = Torn => \E p \in Procs : at[p] = "writing" /\ Key(p) = k

\* Temporary names are never used twice: a process counts, and a new one has a new ID.
NamesAreFresh ==
    \A t \in temps : t[3] <= pid[t[2]] /\ (t[3] = pid[t[2]] => t[4] < sequence[t[2]])

\* The status a response carries stands for what the service did.
StatusOK(p) ==
    at[p] \in {"start", "sent", "abandoned"} =>
        /\ verdict[p] = None <=> reply[p] = None
        /\ verdict[p] = "refused" => reply[p] \in {400, 429, 503}
        /\ verdict[p] \notin {None, "refused"} =>
             /\ call[p].do = "get" => reply[p] = 200 \/ (verdict[p] = "none" /\ reply[p] = 404)
             /\ call[p].do \in {"put", "cas"} => \/ verdict[p] = "ok" /\ reply[p] = 201
                                                 \/ verdict[p] = "conflict" /\ reply[p] = 412
             /\ call[p].do = "delete" => verdict[p] = "ok" /\ reply[p] \in {204, 404}

AdapterInv ==
    /\ AdapterTypeOK /\ LockProtects /\ NamesAreFresh
    /\ \A p \in Procs : PlaceOK(p) /\ StatusOK(p)
=============================================================================
