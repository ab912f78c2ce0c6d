----------------------------- MODULE TableCell ------------------------------
(***************************************************************************)
(* What a txBASE table promises its clients, with no files, no log and no  *)
(* crash in sight: one versioned cell holding a DBF image and its memo     *)
(* sidecar.  A client loads the cell, and a commit is a compare-and-swap   *)
(* against the content it loaded.  A row merge is a second load, made      *)
(* under the lock the commit holds, followed by a commit.  Only a foreign  *)
(* client may put a table of another origin in place of any content.       *)
(***************************************************************************)
EXTENDS DbfImage

CONSTANTS Clients,      \* holders of independently loaded tables
          Foreign,      \* those that also save tables of another origin
          Memos         \* optional contents of the memo sidecar

VARIABLES cell,         \* the committed transaction ID (0 before the first), DBF
                        \* image and memo sidecar
          loaded        \* what each client at work last loaded, <<>> at first

vars == <<cell, loaded>>

Init ==
  /\ cell.version = 0
  /\ IsImage(cell.image)
  /\ cell.memo \in Memos
  /\ DOMAIN loaded \subseteq Clients
  /\ \A c \in DOMAIN loaded : loaded[c] = <<>>

(* A load, or the successful return of a commit, shows the client the      *)
(* current cell.                                                           *)
Load(c) ==
  /\ loaded' = [loaded EXCEPT ![c] = <<cell>>]
  /\ UNCHANGED cell

Replace ==
  /\ UNCHANGED loaded
  /\ \E new \in {cell'} :
       /\ new.version = cell.version + 1
       /\ IsImage(new.image)
       /\ new.memo \in Memos

Commit(c) == loaded[c] = <<cell>> /\ Replace

Put(c) == c \in Foreign /\ Replace

Next == \E c \in DOMAIN loaded : Load(c) \/ Commit(c) \/ Put(c)

Spec == Init /\ [][Next]_vars
=============================================================================
