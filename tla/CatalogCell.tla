---------------------------- MODULE CatalogCell -----------------------------
(***************************************************************************)
(* What the catalog journal promises: the files of a catalog directory     *)
(* change all together or not at all.  A writer proposes new contents for  *)
(* the whole directory and the proposal is either committed, in one step,  *)
(* or abandoned.  The catalog transaction ID is the content of one of the  *)
(* files and never decreases.                                              *)
(***************************************************************************)
EXTENDS Naturals

CONSTANTS Targets,     \* the files a catalog transaction may replace
          StateFile,   \* the one that holds the catalog transaction ID
          Contents     \* what a file may hold, a set of numbers

VARIABLES contents,    \* the committed content of every file
          proposal     \* the contents being committed, <<>> when none are

vars == <<contents, proposal>>

Init ==
  /\ contents \in [Targets -> Contents]
  /\ proposal = <<>>

Propose ==
  /\ proposal = <<>>
  /\ \E new \in [Targets -> Contents] :
       /\ new[StateFile] >= contents[StateFile]
       /\ proposal' = <<new>>
  /\ UNCHANGED contents

Commit ==
  /\ proposal # <<>>
  /\ contents' = proposal[1]
  /\ proposal' = <<>>

Abandon ==
  /\ proposal # <<>>
  /\ proposal' = <<>>
  /\ UNCHANGED contents

Next == Propose \/ Commit \/ Abandon

Spec == Init /\ [][Next]_vars
=============================================================================
