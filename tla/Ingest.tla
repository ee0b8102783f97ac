--------------------------------- MODULE Ingest ---------------------------------
(***************************************************************************)
(* cbom_compass/ingest.py: an uploaded file or a cloned repository becomes *)
(* a tree in the workspace, or nothing.                                    *)
(*                                                                         *)
(* Sizes are counted in units of which one read returns at most Chunk.  A  *)
(* path is a sequence of names, or Unsafe for a name _safe_member_path()   *)
(* refuses: unnamed, absolute, with a drive, or climbing out of the root.  *)
(***************************************************************************)
EXTENDS Naturals, Sequences, FiniteSets, Functions

CONSTANTS
  MaxUpload,      \* MAX_UPLOAD_BYTES
  MaxMember,      \* MAX_MEMBER_BYTES
  MaxTotal,       \* MAX_EXTRACTED_BYTES and MAX_REPO_BYTES, which are equal
  MaxEntries,     \* MAX_ENTRIES
  Chunk,          \* what one read of a member returns at most
  Unsafe          \* the name of a member that is refused

ASSUME IngestAssumption ==
  /\ {MaxUpload, MaxMember, MaxTotal} \subseteq Nat
  /\ {MaxEntries, Chunk} \subseteq Nat \ {0}

(* What a request gives: an archive, a file that is one member, something  *)
(* that is neither, or a repository.                                       *)
IsSource(s) ==
  /\ s.form \in {"zip", "tar", "single", "misnamed", "unreadable", "repo"}
  /\ s.entries \in Seq(Range(s.entries)) /\ \A e \in Range(s.entries) : e.size \in Nat
  /\ s.form = "single" => Len(s.entries) = 1

VARIABLES
  step,           \* where ingest_upload() or ingest_repo() is
  src,            \* what it was given
  at,             \* the member it has come to
  left,           \* of that member, what is still to be read
  got,            \* and what was written
  budget,         \* units that may still be written
  count,          \* regular members of a tar so far
  tree            \* the tree on disk: [path -> [link, bytes]]

ivars == <<step, src, at, left, got, budget, count, tree>>

Empty == [p \in {} |-> 0]
NoSource == [form |-> "none"]

(* How the request stands with who made it.                                *)
Standing ==
  CASE step = "idle" -> "none"
    [] step = "ready" -> "admitted"
    [] step \in {"refused", "abandoned"} -> step
    [] OTHER -> IF src.form = "repo" THEN "repo" ELSE "upload"

Outside == INSTANCE Admission WITH status <- Standing, held <- tree

IngestInit ==
  /\ step = "idle" /\ src = NoSource
  /\ at = 1 /\ left = 0 /\ got = 0 /\ budget = 0 /\ count = 0
  /\ tree = Empty

(* The checks before a tree is made, and _new_tree(): an upload that is    *)
(* empty or too large, and a reference normalise_repo_url() does not allow *)
(* (a host, a scheme, credentials, a path that is not owner/name).         *)
BeginIngest(s) ==
  /\ step \in {"idle", "ready", "refused", "abandoned"}
  /\ src' = s
  /\ step' = CASE s.form = "repo" /\ ~s.allowed -> "refused"
               [] s.form = "repo" /\ s.allowed -> "clone"
               [] s.form # "repo" /\ s.size \notin 1..MaxUpload -> "refused"
               [] OTHER -> "open"
  /\ at' = 1 /\ left' = 0 /\ got' = 0 /\ count' = 0
  /\ budget' = MaxTotal
  /\ tree' = Empty

(* Not the code: what was extracted is left for a later prune.             *)
FailAndKeep ==
  /\ step' = "refused"
  /\ UNCHANGED <<tree, src, at, left, got, budget, count>>

(* rmtree, and the exception goes on, or is raised.                        *)
Fail ==
  /\ step' = "refused"
  /\ tree' = Empty
  /\ UNCHANGED <<src, at, left, got, budget, count>>

(* The choice between a zip, a tar and a single file.                      *)
OpenSource ==
  /\ step = "open"
  /\ \/ /\ \/ src.form \in {"misnamed", "unreadable"}
           \/ src.form = "zip" /\ Len(src.entries) > MaxEntries
        /\ Fail
     \/ /\ \/ src.form \in {"tar", "single"}
           \/ src.form = "zip" /\ Len(src.entries) <= MaxEntries
        /\ step' = "entries"
        /\ UNCHANGED <<src, at, left, got, budget, count, tree>>

Entry == src.entries[at]

Member == at \in DOMAIN src.entries

(* A parent that is a file, or a directory where the file should be.       *)
Clashes(path) ==
  \E q \in DOMAIN tree \ {path} :
    LET n == IF Len(q) < Len(path) THEN Len(q) ELSE Len(path) IN
    SubSeq(q, 1, n) = SubSeq(path, 1, n)

SkipMember ==
  /\ step = "entries" /\ Member /\ Entry.type # "file"
  /\ at' = at + 1
  /\ UNCHANGED <<step, src, left, got, budget, count, tree>>

(* The count of a tar is taken as it is read; of a zip, at its start.      *)
StartMember ==
  /\ step = "entries" /\ Member /\ Entry.type = "file"
  /\ IF \/ src.form = "tar" /\ count + 1 > MaxEntries
        \/ Entry.path = Unsafe
        \/ Entry.path # Unsafe /\ Clashes(Entry.path)
     THEN Fail
     ELSE /\ step' = "write"
          /\ left' = Entry.size /\ got' = 0
          /\ count' = count + 1
          /\ tree' = [p \in DOMAIN tree \cup {Entry.path} |->
                        IF p = Entry.path THEN [link |-> FALSE, bytes |-> 0] ELSE tree[p]]
          /\ UNCHANGED <<src, at, budget>>

Read == IF left < Chunk THEN left ELSE Chunk

(* Not the code: the chunk is written, and then charged.                   *)
WriteThenCheck ==
  /\ step = "write" /\ left > 0
  /\ IF got > MaxMember \/ budget = 0
     THEN Fail
     ELSE /\ got' = got + Read /\ left' = left - Read
          /\ budget' = IF budget < Read THEN 0 ELSE budget - Read
          /\ tree' = [tree EXCEPT ![Entry.path].bytes = got + Read]
          /\ UNCHANGED <<step, src, at, count>>

(* _write_member(): a chunk is charged to the file and to the tree before  *)
(* it is written.                                                          *)
WriteChunk ==
  /\ step = "write" /\ left > 0
  /\ IF got + Read > MaxMember \/ Read > budget
     THEN Fail
     ELSE /\ got' = got + Read /\ left' = left - Read
          /\ budget' = budget - Read
          /\ tree' = [tree EXCEPT ![Entry.path].bytes = got + Read]
          /\ UNCHANGED <<step, src, at, count>>

EndMember ==
  /\ step = "write" /\ left = 0
  /\ step' = "entries" /\ at' = at + 1
  /\ UNCHANGED <<src, left, got, budget, count, tree>>

(* A damaged archive raises where the damage is read, and a tree that      *)
(* another request has pruned meanwhile where it is measured: whatever     *)
(* ingest_upload() runs into, its except clause cleans up.                 *)
ReadFails ==
  /\ src.form # "repo" /\ src.damaged
  /\ step \in {"entries", "write", "measure"}
  /\ Fail

(* The whole checkout, .git and links written as files included.           *)
Checkout ==
  [p \in {e.path : e \in Range(src.entries)} |->
     LET e == CHOOSE x \in Range(src.entries) : x.path = p IN
     [link |-> e.type = "link", bytes |-> e.size]]

(* git: the checkout is there, or the command failed, took too long or is  *)
(* not installed.                                                          *)
Clone ==
  /\ step = "clone"
  /\ \/ Fail
     \/ /\ step' = "measure"
        /\ tree' = Checkout
        /\ UNCHANGED <<src, at, left, got, budget, count>>

EndEntries ==
  /\ step = "entries" /\ ~Member
  /\ step' = "measure"
  /\ UNCHANGED <<src, at, left, got, budget, count, tree>>

GitDir == "git"

(* Not the code: the links stay.                                           *)
LinksStay ==
  [p \in {q \in DOMAIN tree : src.form = "repo" => q[1] # GitDir} |-> tree[p]]

(* Without .git, and without the links a git that ignores core.symlinks    *)
(* has made.                                                               *)
Stripped ==
  [p \in {q \in DOMAIN tree : ~tree[q].link /\ (src.form = "repo" => q[1] # GitDir)} |-> tree[p]]

(* _tree_size(): what the files of a tree without links take.              *)
TreeSize(t) == Cardinality(UNION {{p} \X (1..t[p].bytes) : p \in DOMAIN t})

(* ingest_repo() cleans up after those failures alone.  A git that may not *)
(* be run or does not answer in text, and a checkout that changes or is    *)
(* not to be read while it is stripped and measured, raise past it: what   *)
(* was checked out by then, and not yet removed, stays.                    *)
CloneRaises ==
  /\ step \in {"clone", "measure"} /\ src.form = "repo"
  /\ step' = "abandoned"
  /\ IF step = "clone"
     THEN \E out \in SUBSET DOMAIN Checkout : tree' = Restrict(Checkout, out)
     ELSE \E gone \in SUBSET (DOMAIN tree \ DOMAIN Stripped) :
            tree' = Restrict(tree, DOMAIN tree \ gone)
  /\ UNCHANGED <<src, at, left, got, budget, count>>

(* strip_symlinks() and _tree_size(); only a clone is measured against the *)
(* limit, since the members of an archive were.                            *)
Measure ==
  /\ step = "measure"
  /\ IF DOMAIN Stripped = {} \/ (src.form = "repo" /\ TreeSize(Stripped) > MaxTotal)
     THEN Fail
     ELSE /\ step' = "ready" /\ tree' = Stripped
          /\ UNCHANGED <<src, at, left, got, budget, count>>

IngestNext ==
  \/ OpenSource \/ SkipMember \/ StartMember \/ WriteChunk \/ EndMember
  \/ ReadFails \/ EndEntries \/ Clone \/ CloneRaises \/ Measure

(* ingest.py:195-277 and 331-392: an upload or a clone is admitted only as *)
(* the scanners may rely on, whichever member, read or command fails; an   *)
(* upload is within its limits at every moment, and a clone once it has    *)
(* been measured; what is refused leaves no tree, and a clone that is not, *)
(* because an exception went past ingest_repo(), is not admitted either.   *)
TreesAreSafe == Outside!AdmissionRule
=============================================================================
