------------------------------- MODULE Admission -------------------------------
(***************************************************************************)
(* What the scanners rely on when they are handed a tree that came from    *)
(* outside: whatever was uploaded or cloned, what is admitted is within    *)
(* the limits and holds no link, a refused request leaves nothing behind,  *)
(* and an upload never takes more room on disk than an admitted tree may.  *)
(* Of a clone less is promised: it is within the limits only once it is    *)
(* admitted, and it may be given up with its tree left on disk.            *)
(***************************************************************************)
EXTENDS Naturals, FiniteSets

CONSTANTS
  MaxMember,      \* bytes in a file of an upload
  MaxTotal,       \* bytes in a tree
  MaxEntries      \* files in an upload

VARIABLES
  status,         \* "none", "upload", "repo", "admitted", "refused" or "abandoned"
  held            \* the tree on disk: [path -> [link, bytes]]

NoTree == [p \in {} |-> 0]

Files(t) == {p \in DOMAIN t : ~t[p].link}

(* What the files take, every byte of which is one of a file.              *)
Bytes(t) == Cardinality(UNION {{p} \X (1..t[p].bytes) : p \in Files(t)})

(* No link that a scanner would follow out of the tree.                    *)
Linkless(t) == Files(t) = DOMAIN t

Modest(t) ==
  /\ Linkless(t)
  /\ Bytes(t) <= MaxTotal
  /\ Cardinality(Files(t)) <= MaxEntries
  /\ \A p \in Files(t) : t[p].bytes <= MaxMember

-----------------------------------------------------------------------------
AInit == status = "none" /\ held = NoTree

(* A new request, which has a tree of its own or is refused as it comes.   *)
Arrive ==
  /\ status \in {"none", "admitted", "refused", "abandoned"}
  /\ status' \in {"upload", "repo", "refused"}
  /\ held' = NoTree

(* An upload is bounded at every moment, a clone only once it is there.    *)
Fill ==
  /\ status \in {"upload", "repo"} /\ status' = status
  /\ status = "upload" => Modest(held')

Admit ==
  /\ status \in {"upload", "repo"} /\ status' = "admitted"
  /\ Linkless(held') /\ Files(held') # {} /\ Bytes(held') <= MaxTotal
  /\ status = "upload" => Modest(held')

Refuse ==
  /\ status \in {"upload", "repo"} /\ status' = "refused"
  /\ held' = NoTree

(* A clone that nobody cleans up after: it is never admitted.              *)
Abandon == status = "repo" /\ status' = "abandoned"

ANext == Arrive \/ Fill \/ Admit \/ Refuse \/ Abandon

AdmissionRule == AInit /\ [][ANext]_<<status, held>>
=============================================================================
