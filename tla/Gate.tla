-------------------------------- MODULE Gate --------------------------------
(***************************************************************************)
(* The crypto gate (cli.py cmd_gate(), _status_counts(),                   *)
(* _materialise_tracked(), _scan_git_ref(); engine.py diff(); action.yml)  *)
(* and the branches of a repository that merge through it.                 *)
(*                                                                         *)
(* A revision gives each file what it holds: nothing a scanner finds, or   *)
(* one algorithm.  A finding is identified by its file and algorithm, as   *)
(* Asset.id identifies call sites (models.py:113-147).                     *)
(***************************************************************************)
EXTENDS Integers, FiniteSets

CONSTANTS
  Files, Ignored,     \* the working tree's files; those git ignores
  Gated,              \* the files under the paths the gate is given
  Contents, Empty,    \* algorithms a file may hold, and none
  Blocking,           \* the statuses the gate blocks on
  Allow,              \* --allow N
  MaxGateFiles,       \* beyond so many tracked files nothing is staged
  Mode,               \* "ref": --baseline-ref; "action": action.yml
  Branches, None,
  MaxEdits, MaxMerges, MaxFlaws   \* bounds of the exploration

ASSUME GateAssumption ==
  /\ IsFiniteSet(Files) /\ Ignored \subseteq Files /\ Gated \subseteq Files
  /\ Empty \notin Contents
  /\ Allow \in Nat
  /\ MaxEdits \in Nat /\ MaxMerges \in Nat /\ MaxFlaws \in Nat
  /\ Mode \in {"ref", "action"}

Tracked   == Files \ Ignored
Revisions == [Files -> Contents \cup {Empty}]

StatusOf(algorithm) ==
  CASE algorithm = "RSA"   -> "broken"
    [] algorithm = "MD5"   -> "broken_classical"
    [] algorithm = "SHA-1" -> "deprecated_insufficient"
    [] OTHER               -> "adequate"

Findings == [file : Files, algorithm : Contents]

VARIABLES
  origin,         \* the revision the gate was adopted on
  main,           \* the revision everything merges into
  branch,         \* [Branches -> [base, tree, edits, run] or None]
  merges,         \* merges behind a comparison
  excused,        \* growth merged that no comparison could see
  flaws           \* runs without a baseline, and crashes of scanners

vars == <<origin, main, branch, merges, excused, flaws>>

(* The run of the gate a branch has had since its last change: its exit    *)
(* code, the findings it lists as new, and what its scans failed to read.  *)
Run == [exit : 0..2, compared : BOOLEAN, introduced : SUBSET Findings,
        blind : SUBSET Files]
Uncompared(exit) == [exit |-> exit, compared |-> FALSE, introduced |-> {}, blind |-> {}]
NoRun == Uncompared(1)

-----------------------------------------------------------------------------
(* The findings of a scan of some files of a revision.                     *)
Scan(revision, files) ==
  {[file |-> f, algorithm |-> revision[f]] : f \in {g \in files : revision[g] # Empty}}

Blocked(found) == {x \in found : StatusOf(x.algorithm) \in Blocking}

(* _status_counts(), summed over the statuses.                             *)
Count(found) == Cardinality(Blocked(found))

(* Not the code: a finding is known by its file alone.                     *)
AddedByFile(before, after) == {x \in after : \A y \in before : y.file # x.file}

(* diff(): what is there now under an id that was not there before.        *)
Added(before, after) == after \ before

Debt(revision) == Count(Scan(revision, Gated \cap Tracked))

(* The files the current side scans: those git knows, unless they are too  *)
(* many to copy.  A fresh checkout has no others.                          *)
CurrentFiles(tree) ==
  IF Mode = "action" \/ Cardinality({f \in Gated \cap Tracked : tree[f] # Empty}) <= MaxGateFiles
  THEN Gated \cap Tracked ELSE Gated

(* Not the code: the baseline covers the whole repository.                 *)
WholeBaseline == Tracked

(* The files the baseline covers: the same paths, or, in the action, the   *)
(* whole of the base revision (action.yml scans its root).  The gate runs  *)
(* at the root of the repository, as the action and the hooks run it: the  *)
(* baseline's paths are of the root, and git ls-files names the others     *)
(* from where it runs.                                                     *)
BaselineFiles == IF Mode = "ref" THEN Gated \cap Tracked ELSE Tracked

-----------------------------------------------------------------------------
Init ==
  /\ origin \in {r \in Revisions : \A f \in Ignored : r[f] = Empty}
  /\ main = origin
  /\ branch = [b \in Branches |-> None]
  /\ merges = 0 /\ excused = 0 /\ flaws = 0

Open(b) ==
  /\ branch[b] = None
  /\ branch' = [branch EXCEPT ![b] =
                  [base |-> main, tree |-> main, edits |-> 0, run |-> NoRun]]
  /\ UNCHANGED <<origin, main, merges, excused, flaws>>

Change(b, tree) ==
  /\ branch[b] # None /\ branch[b].edits < MaxEdits
  /\ branch' = [branch EXCEPT ![b] = [base |-> branch[b].base, tree |-> tree,
                                      edits |-> branch[b].edits + 1, run |-> NoRun]]
  /\ UNCHANGED <<origin, main, merges, excused, flaws>>

(* (What is outside the gated paths is left as it is.)                     *)
Write(b, f, content) ==
  /\ f \in Gated /\ branch[b] # None /\ branch[b].tree[f] # content
  /\ Change(b, [branch[b].tree EXCEPT ![f] = content])

Move(b, f, g) ==
  /\ branch[b] # None /\ branch[b].tree[f] # Empty /\ branch[b].tree[g] = Empty
  /\ {f, g} \subseteq Gated \cap Tracked
  /\ Change(b, [branch[b].tree EXCEPT ![f] = Empty, ![g] = branch[b].tree[f]])

Ran(b, run) ==
  /\ branch' = [branch EXCEPT ![b].run = run]
  /\ UNCHANGED <<origin, main, merges, excused>>

(* Not the code: findings are counted as they are listed, by identity.     *)
CompareIds(b, blind) ==
  /\ branch[b] # None
  /\ flaws' = flaws + Cardinality(blind) /\ flaws' <= MaxFlaws
  /\ LET before == Scan(branch[b].base, BaselineFiles)
         after == Scan(branch[b].tree, CurrentFiles(branch[b].tree) \ blind)
         introduced == Blocked(Added(before, after)) IN
       Ran(b, [exit |-> IF Cardinality(introduced) <= Allow THEN 0 ELSE 1, compared |-> TRUE,
               introduced |-> introduced, blind |-> blind])

(* Not the code: the exit code is the number of findings added.            *)
CompareExitsAdded(b, blind) ==
  /\ branch[b] # None
  /\ flaws' = flaws + Cardinality(blind) /\ flaws' <= MaxFlaws
  /\ LET before == Scan(branch[b].base, BaselineFiles)
         after == Scan(branch[b].tree, CurrentFiles(branch[b].tree) \ blind) IN
       Ran(b, [exit |-> Count(after) - Count(before), compared |-> TRUE,
               introduced |-> Blocked(Added(before, after)), blind |-> blind])

(* A run that has its baseline.  A scanner that crashes leaves what it     *)
(* would have found out of the current side, and the run goes on.          *)
Compare(b, blind) ==
  /\ branch[b] # None
  /\ flaws' = flaws + Cardinality(blind) /\ flaws' <= MaxFlaws
  /\ LET before == Scan(branch[b].base, BaselineFiles)
         after == Scan(branch[b].tree, CurrentFiles(branch[b].tree) \ blind)
         added == Count(after) - Count(before) IN
       Ran(b, [exit |-> IF added <= Allow THEN 0 ELSE 1, compared |-> TRUE,
               introduced |-> Blocked(Added(before, after)), blind |-> blind])

(* No baseline file, or a revision git cannot read: it reports, and passes.*)
ReportOnly(b) ==
  /\ branch[b] # None
  /\ flaws' = flaws + 1 /\ flaws' <= MaxFlaws
  /\ Ran(b, Uncompared(0))

(* A baseline that is not JSON is a usage error.                           *)
BadBaseline(b) ==
  /\ branch[b] # None
  /\ flaws' = flaws + 1 /\ flaws' <= MaxFlaws
  /\ Ran(b, Uncompared(2))

-----------------------------------------------------------------------------
(* External: git, and a host that merges what exits 0.                     *)

MergedWith(other, b) ==
  [f \in Files |->
     IF f \in Ignored THEN Empty
     ELSE IF branch[b].tree[f] # branch[b].base[f] THEN branch[b].tree[f] ELSE other[f]]

Conflicts(other, b) ==
  \E f \in Tracked : /\ branch[b].tree[f] # branch[b].base[f]
                     /\ other[f] \notin {branch[b].base[f], branch[b].tree[f]}

(* The branch is brought up to date with main, and has to be gated again.  *)
Update(b) ==
  /\ branch[b] # None /\ branch[b].base # main /\ ~Conflicts(main, b)
  /\ branch' = [branch EXCEPT ![b] = [base |-> main, tree |-> MergedWith(main, b),
                                      edits |-> branch[b].edits, run |-> NoRun]]
  /\ UNCHANGED <<origin, main, merges, excused, flaws>>

Growth(b) == Debt(branch[b].tree) - Debt(branch[b].base)

(* What a run could not have seen of the branch's own findings.            *)
Unseen(b) ==
  IF branch[b].run.compared
  THEN Count(Scan(branch[b].tree, Gated \cap Tracked \cap branch[b].run.blind))
  ELSE IF Growth(b) > 0 THEN Growth(b) ELSE 0

(* Only a branch that is up to date is merged.                             *)
Merge(b) ==
  /\ branch[b] # None /\ branch[b].run.exit = 0
  /\ branch[b].base = main
  /\ merges < MaxMerges
  /\ main' = MergedWith(main, b)
  /\ merges' = merges + 1
  /\ excused' = excused + Unseen(b)
  /\ branch' = [branch EXCEPT ![b] = None]
  /\ UNCHANGED <<origin, flaws>>

Next ==
  \E b \in Branches :
    \/ Open(b)
    \/ \E f \in Files, content \in Contents \cup {Empty} : Write(b, f, content)
    \/ \E f, g \in Files : Move(b, f, g)
    \/ \E blind \in {{}} \cup {{f} : f \in Gated} : Compare(b, blind)
    \/ ReportOnly(b)
    \/ BadBaseline(b)
    \/ Update(b)
    \/ Merge(b)

Spec == Init /\ [][Next]_vars

-----------------------------------------------------------------------------
TypeOK ==
  /\ origin \in Revisions /\ main \in Revisions
  /\ \A f \in Ignored : main[f] = Empty
  /\ branch \in [Branches -> {None} \cup
                   [base : Revisions, tree : Revisions, edits : 0..MaxEdits, run : Run]]
  /\ merges \in 0..MaxMerges /\ excused \in Nat /\ flaws \in 0..MaxFlaws

(* cmd_gate (cli.py:365-367), "the rule is 'do not make it worse' ... hold *)
(* the line while they migrate": whatever sequence of branches, moves and  *)
(* updates merges through the gate, the debt of main exceeds what it was   *)
(* by no more than the allowance of each merge and what runs without a     *)
(* baseline and crashed scanners let through.                              *)
HoldsTheLine == Debt(main) <= Debt(origin) + Allow * merges + excused

(* README.md:469-470: a change that has the findings its base has, moved   *)
(* to other files or beside files git ignores, never fails the build,      *)
(* unless the tree is too large to be staged.                              *)
RefactorsPass ==
  \A b \in Branches :
    /\ branch[b] # None
    /\ branch[b].run.compared
    /\ Growth(b) <= Allow
    /\ CurrentFiles(branch[b].tree) \subseteq Tracked
    => branch[b].run.exit = 0

(* cmd_gate (cli.py:414-421) counts by status and lists by identity: a run *)
(* that fails always lists something new to look at.                       *)
FailureNamesFindings ==
  \A b \in Branches :
    branch[b] # None /\ branch[b].run.compared /\ branch[b].run.exit = 1 =>
      branch[b].run.introduced # {}

(* Said by README.md:467 ("New broken algorithm added | fails | the thing  *)
(* it exists to catch"): a run that compares and reads everything passes   *)
(* no branch that adds more than the allowance to what it is given.        *)
NewBrokenFails ==
  \A b \in Branches :
    branch[b] # None /\ branch[b].run.compared /\ branch[b].run.blind = {}
    /\ Growth(b) > Allow => branch[b].run.exit = 1
=============================================================================
