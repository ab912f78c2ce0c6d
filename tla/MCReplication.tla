---------------------------- MODULE MCReplication ----------------------------
(***************************************************************************)
(* Instances of Replication for TLC.  A behaviour is about one of two      *)
(* scenarios: `faults' (every process may crash, terms differ) and `push'  *)
(* (entries are delivered until they are applied).                         *)
(***************************************************************************)
EXTENDS Replication

VARIABLE scenario

allVars == <<scenario, vars>>

Push == INSTANCE Replication
          WITH Crashing <- {"command"}, Ops <- Inserts, Terms <- {Term}, MaxTransactions <- 3

MCInit ==
    \/ scenario = "faults" /\ Init
    \/ scenario = "push" /\ Push!Init

MCNext ==
    \/ scenario = "faults" /\ Next /\ UNCHANGED scenario
    \/ scenario = "push" /\ Push!Next /\ UNCHANGED scenario

Pushes(A) == scenario = "push" /\ A /\ UNCHANGED scenario

(* Every process that waits goes on, the authority and the servers are     *)
(* started again, the catch-up command is run again and again, and an      *)
(* entry is delivered until it is applied.                                 *)
Fairness ==
    /\ \A p \in Procs :
           WF_allVars(Pushes(Push!commit(p))) /\ WF_allVars(Pushes(Push!open(p, Term)))
    /\ \A f \in Followers :
           /\ WF_allVars(Pushes(Push!status(f))) /\ WF_allVars(Pushes(Push!catch_up(f)))
           /\ WF_allVars(Pushes(Push!install_local_snapshot(f)))
           /\ WF_allVars(Pushes(Push!entries(f))) /\ WF_allVars(Pushes(Push!receive_batch(f)))
           /\ WF_allVars(Pushes(Push!caught_up(f)))
           /\ WF_allVars(Pushes(Push!acknowledge_follower(f)))
           /\ \A i \in 1 .. 3 : WF_allVars(Pushes(Push!deliver_entry(f, i)))

MCSpec == MCInit /\ [][MCNext]_allVars /\ Fairness

(* A registered follower catches up by entries alone: compaction never     *)
(* takes away the ones it has not acknowledged (compact_through).          *)
RegisteredCatchesUp ==
    \A f \in Serving :
        (scenario = "push" /\ Push!Registered(f)) ~> (~Push!Behind(f) \/ Push!OutOfTouch(f))
=============================================================================
