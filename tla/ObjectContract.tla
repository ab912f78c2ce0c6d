---------------------------- MODULE ObjectContract ---------------------------
(***************************************************************************)
(* What the ObjectStore trait promises (edge/store.rs): each operation      *)
(* takes effect at one instant between its call and its answer.  A caller   *)
(* that got no answer, because it crashed, timed out or was cancelled, does *)
(* not know whether its operation took effect, and it may still do so.      *)
(***************************************************************************)
EXTENDS Integers, FiniteSets

CONSTANTS Procs, Keys, Values, None

VARIABLES
    objects,  \* the value of each key, or None
    call,     \* per process: its operation, or None before the first
    verdict,  \* per process: the answer its operation has earned, or None
    result    \* per process: the answer it returned, or None while it runs

cvars == <<objects, call, verdict, result>>

Optional == Values \cup {None}
Calls ==
    [do : {"get", "delete"}, key : Keys]
      \cup [do : {"put"}, key : Keys, value : Values]
      \cup [do : {"cas"}, key : Keys, expected : Optional, value : Values]

\* The object an operation leaves, and the answer it earns, when it takes effect on v.
Effect(c, v) ==
    CASE c.do = "put" -> IF v = None THEN c.value ELSE v
      [] c.do = "cas" -> IF v = c.expected THEN c.value ELSE v
      [] c.do = "delete" -> None
      [] c.do = "get" -> v

\* A put of the bytes that are there already may be refused: the HTTP precondition
\* If-None-Match: * does not look at them, put_if_absent_or_matching does.
Earned(c, v) ==
    CASE c.do = "put" -> {e \in {"ok", "conflict"} :
                             IF e = "ok" THEN v \in {None, c.value} ELSE v # None}
      [] c.do = "cas" -> IF v = c.expected THEN {"ok"} ELSE {"conflict"}
      [] c.do = "delete" -> {"ok"}
      [] c.do = "get" -> IF v = None THEN {"none"} ELSE {v}

Invoke(p, c) ==
    /\ result[p] # None \/ call[p] = None
    /\ call' = [call EXCEPT ![p] = c]
    /\ verdict' = [verdict EXCEPT ![p] = None]
    /\ result' = [result EXCEPT ![p] = None]
    /\ UNCHANGED objects

TakeEffect(p) ==
    LET c == call[p]
        v == objects[c.key]
    IN  /\ c # None /\ verdict[p] = None
        /\ objects' = [objects EXCEPT ![c.key] = Effect(c, v)]
        /\ \E e \in Earned(c, v) :
              /\ verdict' = [verdict EXCEPT ![p] = e]
              /\ \/ UNCHANGED result
                 \/ result[p] = None /\ \E r \in {e, "unavailable"} : result' = [result EXCEPT ![p] = r]
        /\ UNCHANGED call

Answer(p) ==
    /\ call[p] # None /\ result[p] = None
    /\ \E r \in {"unavailable", "cancelled"}
               \cup (IF verdict[p] \in {None, "refused"} THEN {} ELSE {verdict[p]})
               \cup (IF verdict[p] = "refused" THEN {"invalid"} ELSE {}) :
          result' = [result EXCEPT ![p] = r]
    /\ UNCHANGED <<objects, call, verdict>>

\* A refused operation never takes effect.
Refuse(p) ==
    /\ call[p] # None /\ verdict[p] = None
    /\ verdict' = [verdict EXCEPT ![p] = "refused"]
    /\ \/ UNCHANGED result
       \/ result[p] = None /\ result' = [result EXCEPT ![p] = "cancelled"]
    /\ UNCHANGED <<objects, call>>

Init ==
    /\ objects = [k \in Keys |-> None]
    /\ call = [p \in Procs |-> None]
    /\ verdict = [p \in Procs |-> None]
    /\ result = [p \in Procs |-> None]

Next ==
    \E p \in Procs :
        \/ \E c \in Calls : Invoke(p, c)
        \/ TakeEffect(p)
        \/ Answer(p)
        \/ Refuse(p)

Spec == Init /\ [][Next]_cvars
=============================================================================
