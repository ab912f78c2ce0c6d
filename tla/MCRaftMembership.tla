-------------------------- MODULE MCRaftMembership --------------------------
EXTENDS RaftMembership

(* A cluster of two voters and two candidates, one of them with a catalog of    *)
(* its own; the blank one replaces a voter.                                    *)
TwoVoters == {1, 2}
ReplaceTwo == {{1, 3}}
=============================================================================
