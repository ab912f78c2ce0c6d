---------------------------- MODULE MCRaftServer ----------------------------
(***************************************************************************)
(* Instances for TLC of what a Raft node applies and serves.  A behaviour is *)
(* about one of four scenarios: `apply' (the state machines of RaftApply)   *)
(* and, with RaftServer, `reads' (one client writes, the other only reads), *)
(* `session' (a client writes twice and reads) and `writes' (a client       *)
(* patches the record and another deletes it).                              *)
(***************************************************************************)
EXTENDS RaftServer, TLC

CONSTANTS n1, n2, c1, c2, a, b, f1, f2, body, none

VARIABLE scenario

mcVars == <<scenario, allvars>>

----------------------------------------------------------------------------
(* Requests through the HTTP server.                                        *)
patch(f) == [kind |-> "PATCH", field |-> f]
delete == [kind |-> "DELETE", field |-> a]

Requests == {patch(a), delete}
Records == [Fields -> 0..3]
OnePatch == c1 :> <<patch(a)>> @@ c2 :> <<>>
PatchAndDelete == c1 :> <<patch(a)>> @@ c2 :> <<delete>>
PatchThenDelete == c1 :> <<patch(a), delete>> @@ c2 :> <<>>

Writes == INSTANCE RaftServer WITH Plan <- PatchAndDelete, Readers <- {}
Session == INSTANCE RaftServer WITH Plan <- PatchThenDelete, Readers <- {c1}

----------------------------------------------------------------------------
(* Commands that reach the state machines by the log alone.  Two clients: a *)
(* first request, its retry against a newer catalog, another body under the *)
(* same number, the next request, and one for each rejection.               *)
cmd(c, s, f, t, v) ==
    [kind |-> "Normal", client |-> c, sequence |-> s, fingerprint |-> f, tag |-> t, verdict |-> v,
     body |-> body]

MCCommands ==
    {cmd(c1, 1, f1, 0, "ok"), cmd(c1, 1, f1, 1, "ok"), cmd(c1, 1, f2, 0, "ok"),
     cmd(c1, 2, f2, 1, "ok"), cmd(c1, 2, f2, 0, "PreconditionFailed"),
     cmd(c2, 1, f1, 0, "ok"), cmd(c2, 0, f1, 0, "ok")}

Machines == INSTANCE RaftApply
              WITH Fingerprints <- {f1, f2}, Bodies <- {body}, Commands <- MCCommands, MaxLog <- 3

NoRequests ==
    /\ Init
    /\ leader = none /\ pending = {} /\ oldest = [n \in Nodes |-> 0]
    /\ http = [n \in Nodes |-> Idle] /\ client = [c \in Clients |-> none]

----------------------------------------------------------------------------
MCInit ==
    \/ scenario = "apply" /\ NoRequests
    \/ scenario = "reads" /\ ServerInit
    \/ scenario = "session" /\ Session!ServerInit
    \/ scenario = "writes" /\ Writes!ServerInit

MCNext ==
    \/ scenario = "apply" /\ Machines!Next /\ UNCHANGED <<scenario, svars>>
    \/ scenario = "reads" /\ ServerNext /\ UNCHANGED scenario
    \/ scenario = "session" /\ Session!ServerNext /\ UNCHANGED scenario
    \/ scenario = "writes" /\ Writes!ServerNext /\ UNCHANGED scenario

MCSpec == MCInit /\ [][MCNext]_mcVars

Symmetry == Permutations({n1, n2})
=============================================================================
