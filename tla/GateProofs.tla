----------------------------- MODULE GateProofs -----------------------------
(***************************************************************************)
(* Proofs about module Gate: its types; that with --baseline-ref the gate  *)
(* holds the line, for any repository, any branches and merges, any        *)
(* allowance, and whatever is or is not staged; and of its verdicts, that  *)
(* a failed comparison names a finding and that a change adding nothing    *)
(* passes.                                                                 *)
(*                                                                         *)
(* The argument: a run that passes after a comparison bounds the growth of *)
(* its branch by the allowance and by what crashed scanners hid; a run     *)
(* without a comparison has all its growth excused; and the merge of an    *)
(* up-to-date branch changes the debt of main by that growth (LineInv).    *)
(* The verdicts follow from what one run computes (VerdictInv).            *)
(***************************************************************************)
EXTENDS Gate, FiniteSetTheorems, TLAPS

(* What is known of an open branch.                                        *)
BranchRecord ==
  [base : Revisions, tree : Revisions, edits : 0..MaxEdits, run : Run]

-----------------------------------------------------------------------------
(* Findings are as many as the files they are in.                          *)
LEMMA ScanFinite ==
  ASSUME NEW r \in Revisions, NEW files \in SUBSET Files
  PROVE  IsFiniteSet(Scan(r, files)) /\ IsFiniteSet(Blocked(Scan(r, files)))
  <1> DEFINE fileOf == [x \in Scan(r, files) |-> x.file]
  <1>1. fileOf \in Injection(Scan(r, files), Files)
    BY DEF Scan, Injection, IsInjective
  <1>2. IsFiniteSet(Scan(r, files))
    BY <1>1, FS_Injection, GateAssumption
  <1> QED
    BY <1>2, FS_Subset DEF Blocked

(* Counts are numbers.                                                     *)
LEMMA CountIsNat ==
  ASSUME NEW r \in Revisions, NEW files \in SUBSET Files
  PROVE  Count(Scan(r, files)) \in Nat
  BY ScanFinite, FS_CardinalityType DEF Count

(* More files, no fewer findings.                                          *)
LEMMA CountGrows ==
  ASSUME NEW r \in Revisions, NEW files \in SUBSET Files, NEW more \in SUBSET Files,
         files \subseteq more
  PROVE  Count(Scan(r, files)) <= Count(Scan(r, more))
  <1>1. Blocked(Scan(r, files)) \subseteq Blocked(Scan(r, more))
    BY DEF Blocked, Scan
  <1> QED
    BY <1>1, ScanFinite, FS_Subset DEF Count

(* What is found in two sets of files is found in the one or in the other. *)
LEMMA CountSplits ==
  ASSUME NEW r \in Revisions, NEW files \in SUBSET Files, NEW blind \in SUBSET Files
  PROVE  Count(Scan(r, files)) <= Count(Scan(r, files \ blind)) + Count(Scan(r, files \cap blind))
  <1> DEFINE all  == Blocked(Scan(r, files))
             seen == Blocked(Scan(r, files \ blind))
             hid  == Blocked(Scan(r, files \cap blind))
  <1>1. IsFiniteSet(all) /\ IsFiniteSet(seen) /\ IsFiniteSet(hid)
    BY ScanFinite
  <1>2. all \subseteq seen \cup hid
    BY DEF Blocked, Scan
  <1>3. /\ IsFiniteSet(seen \cup hid)
        /\ Cardinality(seen \cup hid) = Cardinality(seen) + Cardinality(hid) - Cardinality(seen \cap hid)
    BY <1>1, FS_Union
  <1>4. Cardinality(all) <= Cardinality(seen \cup hid)
    BY <1>2, <1>3, FS_Subset
  <1>5. IsFiniteSet(seen \cap hid)
    BY <1>1, FS_Intersection
  <1>6. /\ Cardinality(all) \in Nat /\ Cardinality(seen) \in Nat /\ Cardinality(hid) \in Nat
        /\ Cardinality(seen \cap hid) \in Nat
    BY <1>1, <1>5, FS_CardinalityType
  <1> HIDE DEF all, seen, hid
  <1>7. Cardinality(all) <= Cardinality(seen) + Cardinality(hid)
    BY <1>3, <1>4, <1>6
  <1> QED
    BY <1>7 DEF all, seen, hid, Count

(* So is the debt of a revision.                                           *)
LEMMA DebtIsNat ==
  ASSUME NEW r \in Revisions
  PROVE  Debt(r) \in Nat
  <1>1. Gated \cap Tracked \in SUBSET Files
    BY DEF Tracked
  <1> QED
    BY <1>1, CountIsNat DEF Debt

-----------------------------------------------------------------------------
(* The types.                                                              *)

(* An open branch is a record.                                             *)
LEMMA NoneIsNoBranch == ASSUME TypeOK, NEW b \in Branches, branch[b] # None
                        PROVE  branch[b] \in BranchRecord
  BY DEF TypeOK, BranchRecord

(* Runs that compare nothing.                                              *)
LEMMA RunShape == NoRun \in Run /\ Uncompared(0) \in Run /\ Uncompared(2) \in Run
  <1>1. \A e \in 0..2 : Uncompared(e) \in Run
    BY DEF Run, Uncompared
  <1>2. 0 \in 0..2 /\ 1 \in 0..2 /\ 2 \in 0..2
    OBVIOUS
  <1> QED
    BY <1>1, <1>2 DEF NoRun

(* What a comparison of any two sets of findings leaves behind.            *)
LEMMA ComparedShape ==
  ASSUME NEW e \in 0..2, NEW s \in SUBSET Findings, NEW blind \in SUBSET Files
  PROVE  [exit |-> e, compared |-> TRUE, introduced |-> s, blind |-> blind] \in Run
  BY DEF Run

(* A scan finds findings.                                                  *)
LEMMA ScanType ==
  ASSUME NEW r \in Revisions, NEW files \in SUBSET Files
  PROVE  Scan(r, files) \subseteq Findings
  BY DEF Scan, Findings, Revisions

(* A merge is a revision, with nothing at the paths git ignores.           *)
LEMMA MergedType ==
  ASSUME TypeOK, NEW b \in Branches, branch[b] # None
  PROVE  /\ MergedWith(main, b) \in Revisions
         /\ \A f \in Ignored : MergedWith(main, b)[f] = Empty
  <1>1. main \in Revisions /\ branch[b].tree \in Revisions
    BY NoneIsNoBranch DEF TypeOK, BranchRecord
  <1>2. Ignored \subseteq Files
    BY GateAssumption
  <1> QED
    BY <1>1, <1>2 DEF MergedWith, Revisions

(* Replacing one branch by a well-typed one.                               *)
LEMMA BranchReplaced ==
  ASSUME TypeOK, NEW b \in Branches, NEW x \in BranchRecord \cup {None},
         branch' = [branch EXCEPT ![b] = x],
         UNCHANGED <<origin, main, merges, excused>>,
         flaws' \in 0..MaxFlaws
  PROVE  TypeOK'
  BY DEF TypeOK, BranchRecord

(* A run changes only what is known of the branch's last run.              *)
LEMMA RanType ==
  ASSUME TypeOK, NEW b \in Branches, branch[b] # None, NEW run \in Run, Ran(b, run),
         flaws' \in 0..MaxFlaws
  PROVE  TypeOK'
  <1> DEFINE x == [branch[b] EXCEPT !.run = run]
  <1>1. x \in BranchRecord
    BY NoneIsNoBranch DEF BranchRecord
  <1>2. branch' = [branch EXCEPT ![b] = x]
    BY DEF Ran
  <1> QED
    BY <1>1, <1>2, BranchReplaced DEF Ran

(* An edit leaves a well-typed branch that has to be gated again.          *)
LEMMA ChangeType ==
  ASSUME TypeOK, NEW b \in Branches, NEW tree \in Revisions, Change(b, tree)
  PROVE  TypeOK'
  <1> DEFINE x == [base |-> branch[b].base, tree |-> tree, edits |-> branch[b].edits + 1, run |-> NoRun]
  <1>1. x \in BranchRecord
    BY NoneIsNoBranch, RunShape, GateAssumption DEF BranchRecord, Change
  <1>2. branch' = [branch EXCEPT ![b] = x]
    BY DEF Change
  <1>3. flaws' \in 0..MaxFlaws
    BY DEF Change, TypeOK
  <1> QED
    BY <1>1, <1>2, <1>3, BranchReplaced DEF Change

(* Flaws are counted up to their bound.                                    *)
LEMMA FewFlaws ==
  ASSUME TypeOK, NEW n \in Nat, flaws' = flaws + n, flaws' <= MaxFlaws
  PROVE  flaws' \in 0..MaxFlaws
  BY GateAssumption DEF TypeOK

(* An opened branch is at main, and has had no run.                        *)
LEMMA OpenType == ASSUME TypeOK, NEW b \in Branches, Open(b) PROVE TypeOK'
  <1> DEFINE x == [base |-> main, tree |-> main, edits |-> 0, run |-> NoRun]
  <1>1. x \in BranchRecord
    BY RunShape, GateAssumption DEF BranchRecord, TypeOK
  <1>2. branch' = [branch EXCEPT ![b] = x] /\ flaws' \in 0..MaxFlaws
    BY DEF Open, TypeOK
  <1> QED
    BY <1>1, <1>2, BranchReplaced DEF Open

(* An update leaves a well-typed branch.                                   *)
LEMMA UpdateType == ASSUME TypeOK, NEW b \in Branches, Update(b) PROVE TypeOK'
  <1> DEFINE x == [base |-> main, tree |-> MergedWith(main, b), edits |-> branch[b].edits,
              run |-> NoRun]
  <1>1. branch[b] \in BranchRecord /\ MergedWith(main, b) \in Revisions
    BY NoneIsNoBranch, MergedType DEF Update
  <1>2. x \in BranchRecord
    BY <1>1, RunShape DEF BranchRecord, TypeOK
  <1>3. branch' = [branch EXCEPT ![b] = x] /\ flaws' \in 0..MaxFlaws
    BY DEF Update, TypeOK
  <1> QED
    BY <1>2, <1>3, BranchReplaced DEF Update

(* What a comparison is a run of.                                          *)
LEMMA CompareRan ==
  ASSUME TypeOK, NEW b \in Branches, NEW blind \in SUBSET Files, Compare(b, blind)
  PROVE  \E run \in Run :
           /\ Ran(b, run)
           /\ run.compared = TRUE /\ run.blind = blind
           /\ run.exit = 0 =>
                Count(Scan(branch[b].tree, CurrentFiles(branch[b].tree) \ blind))
                  - Count(Scan(branch[b].base, BaselineFiles)) <= Allow
  <1> DEFINE before == Scan(branch[b].base, BaselineFiles)
             after  == Scan(branch[b].tree, CurrentFiles(branch[b].tree) \ blind)
             exit   == IF Count(after) - Count(before) <= Allow THEN 0 ELSE 1
             new    == Blocked(Added(before, after))
             run    == [exit |-> exit, compared |-> TRUE, introduced |-> new, blind |-> blind]
  <1>1. branch[b].tree \in Revisions
    BY NoneIsNoBranch DEF Compare, BranchRecord
  <1>2. CurrentFiles(branch[b].tree) \ blind \in SUBSET Files
    BY GateAssumption DEF CurrentFiles, Tracked
  <1>3. after \in SUBSET Findings
    BY <1>1, <1>2, ScanType
  <1>4. new \in SUBSET Findings
    BY <1>3 DEF Blocked, Added
  <1>5. exit \in 0..2
    OBVIOUS
  <1>6. Ran(b, run)
    BY DEF Compare
  <1>7. exit = 0 => Count(after) - Count(before) <= Allow
    OBVIOUS
  <1> HIDE DEF before, after, exit, new
  <1>8. run \in Run
    BY <1>4, <1>5, ComparedShape
  <1>9. run.compared = TRUE /\ run.blind = blind /\ (run.exit = 0 => exit = 0)
    OBVIOUS
  <1> HIDE DEF run
  <1> WITNESS run \in Run
  <1> QED
    BY <1>6, <1>7, <1>9 DEF before, after

(* The scanners that crash in one run.                                     *)
LEMMA BlindIsSmall ==
  \A blind \in {{}} \cup {{f} : f \in Gated} : blind \in SUBSET Files /\ IsFiniteSet(blind)
  <1>1. IsFiniteSet({})
    BY FS_EmptySet
  <1>2. \A f \in Gated : IsFiniteSet({f}) /\ f \in Files
    BY GateAssumption, FS_Singleton
  <1> QED
    BY <1>1, <1>2

(* Every run of the gate leaves well-typed branches.                       *)
LEMMA RunType ==
  ASSUME TypeOK, NEW b \in Branches, NEW blind \in SUBSET Files,
         Compare(b, blind) \/ ReportOnly(b) \/ BadBaseline(b),
         IsFiniteSet(blind)
  PROVE  TypeOK'
  <1>1. CASE Compare(b, blind)
    <2>1. PICK run \in Run : Ran(b, run)
      BY <1>1, CompareRan
    <2>2. Cardinality(blind) \in Nat
      BY FS_CardinalityType
    <2>3. flaws' \in 0..MaxFlaws /\ branch[b] # None
      BY <1>1, <2>2, FewFlaws DEF Compare
    <2> QED
      BY <2>1, <2>3, RanType
  <1>2. CASE ReportOnly(b) \/ BadBaseline(b)
    <2>1. flaws' \in 0..MaxFlaws /\ branch[b] # None
      BY <1>2, FewFlaws DEF ReportOnly, BadBaseline
    <2>2. Ran(b, Uncompared(0)) \/ Ran(b, Uncompared(2))
      BY <1>2 DEF ReportOnly, BadBaseline
    <2> QED
      BY <2>1, <2>2, RanType, RunShape
  <1> QED
    BY <1>1, <1>2

(* What a merge excuses is a number of findings.                           *)
LEMMA UnseenIsNat ==
  ASSUME TypeOK, NEW b \in Branches, branch[b] # None
  PROVE  Unseen(b) \in Nat
  <1>1. branch[b].tree \in Revisions /\ branch[b].base \in Revisions
    BY NoneIsNoBranch DEF BranchRecord
  <1>2. Gated \cap Tracked \cap branch[b].run.blind \in SUBSET Files
    BY DEF Tracked
  <1>3. Count(Scan(branch[b].tree, Gated \cap Tracked \cap branch[b].run.blind)) \in Nat
    BY <1>1, <1>2, CountIsNat
  <1>4. Growth(b) \in Int
    BY <1>1, DebtIsNat DEF Growth
  <1> QED
    BY <1>3, <1>4 DEF Unseen

(* A merge closes its branch and leaves a well-typed main.                 *)
LEMMA MergeType == ASSUME TypeOK, NEW b \in Branches, Merge(b) PROVE TypeOK'
  <1>1. main' \in Revisions /\ \A f \in Ignored : main'[f] = Empty
    BY MergedType DEF Merge
  <1>2. excused' \in Nat
    BY UnseenIsNat DEF Merge, TypeOK
  <1>3. merges' \in 0..MaxMerges
    BY GateAssumption DEF Merge, TypeOK
  <1>4. branch' \in [Branches -> {None} \cup BranchRecord]
    BY DEF Merge, TypeOK, BranchRecord
  <1> QED
    BY <1>1, <1>2, <1>3, <1>4 DEF Merge, TypeOK, BranchRecord

(* What an author does is to change the tree.                              *)
LEMMA EditIsChange ==
  ASSUME TypeOK, NEW b \in Branches,
         \/ \E f \in Files, content \in Contents \cup {Empty} : Write(b, f, content)
         \/ \E f, g \in Files : Move(b, f, g)
  PROVE  \E tree \in Revisions : Change(b, tree)
  <1>1. branch[b].tree \in Revisions
    BY NoneIsNoBranch DEF Write, Move, BranchRecord
  <1>2. ASSUME NEW f \in Files, NEW content \in Contents \cup {Empty}, Write(b, f, content)
        PROVE  \E tree \in Revisions : Change(b, tree)
    <2>1. [branch[b].tree EXCEPT ![f] = content] \in Revisions
      BY <1>1 DEF Revisions
    <2> QED
      BY <1>2, <2>1 DEF Write
  <1>3. ASSUME NEW f \in Files, NEW g \in Files, Move(b, f, g)
        PROVE  \E tree \in Revisions : Change(b, tree)
    <2>1. [branch[b].tree EXCEPT ![f] = Empty, ![g] = branch[b].tree[f]] \in Revisions
      BY <1>1, <1>3 DEF Revisions, Move
    <2> QED
      BY <1>3, <2>1 DEF Move
  <1> QED
    BY <1>2, <1>3

(* The repository at the start.                                            *)
LEMMA TypeInit == Init => TypeOK
  BY GateAssumption DEF Init, TypeOK, Revisions

(* No step leaves the types.                                               *)
LEMMA TypeStep == TypeOK /\ [Next]_vars => TypeOK'
  <1> SUFFICES ASSUME TypeOK, [Next]_vars PROVE TypeOK'
    OBVIOUS
  <1>1. CASE UNCHANGED vars
    BY <1>1 DEF vars, TypeOK
  <1>2. CASE Next
    <2>1. PICK b \in Branches :
            \/ Open(b) \/ Update(b) \/ Merge(b) \/ ReportOnly(b) \/ BadBaseline(b)
            \/ \E f \in Files, content \in Contents \cup {Empty} : Write(b, f, content)
            \/ \E f, g \in Files : Move(b, f, g)
            \/ \E blind \in {{}} \cup {{f} : f \in Gated} : Compare(b, blind)
      BY <1>2 DEF Next
    <2>2. CASE Open(b) \/ Update(b) \/ Merge(b)
      BY <2>2, OpenType, UpdateType, MergeType
    <2>3. CASE ReportOnly(b) \/ BadBaseline(b)
      BY <2>3, RunType, FS_EmptySet
    <2>4. CASE \/ \E f \in Files, content \in Contents \cup {Empty} : Write(b, f, content)
               \/ \E f, g \in Files : Move(b, f, g)
      BY <2>4, EditIsChange, ChangeType
    <2>5. CASE \E blind \in {{}} \cup {{f} : f \in Gated} : Compare(b, blind)
      BY <2>5, BlindIsSmall, RunType
    <2> QED
      BY <2>1, <2>2, <2>3, <2>4, <2>5
  <1> QED
    BY <1>1, <1>2

(* Every state is well-typed: in particular no branch or merge puts        *)
(* anything into main at a path git ignores.                               *)
THEOREM GateTypes == Spec => []TypeOK
  <1> QED
    BY TypeInit, TypeStep, PTL DEF Spec

-----------------------------------------------------------------------------
(* The line.                                                               *)

(* Unseen(b), of a branch given by its record.                             *)
UnseenOf(x) ==
  LET growth == Debt(x.tree) - Debt(x.base) IN
  IF x.run.compared
  THEN Count(Scan(x.tree, Gated \cap Tracked \cap x.run.blind))
  ELSE IF growth > 0 THEN growth ELSE 0

(* A run that passed bounds what its branch adds.                          *)
Bounded(x) ==
  x.run.exit = 0 => Debt(x.tree) - Debt(x.base) <= Allow + UnseenOf(x)

SeenInv == \A b \in Branches : branch[b] # None => Bounded(branch[b])

LineInv == TypeOK /\ SeenInv /\ HoldsTheLine

(* A branch not gated since its last change promises nothing.              *)
LEMMA FreshIsBounded == ASSUME NEW x, x.run = NoRun PROVE Bounded(x)
  BY DEF Bounded, NoRun, Uncompared

(* Replacing one branch by one whose run bounds it.                        *)
LEMMA BoundedReplaced ==
  ASSUME TypeOK, SeenInv, NEW b \in Branches, NEW x, Bounded(x) \/ x = None,
         branch' = [branch EXCEPT ![b] = x]
  PROVE  SeenInv'
  <1> SUFFICES ASSUME NEW c \in Branches, branch'[c] # None PROVE Bounded(branch'[c])
    BY DEF SeenInv, Bounded, UnseenOf
  <1>1. branch'[c] = IF c = b THEN x ELSE branch[c]
    BY DEF TypeOK
  <1> QED
    BY <1>1 DEF SeenInv

(* With --baseline-ref both sides are the tracked files of the same paths, *)
(* so that what the current side counts, and what its crashed scanners     *)
(* hid, is at least the debt of the branch.                                *)
LEMMA CompareBounds ==
  ASSUME Mode = "ref", TypeOK, NEW b \in Branches, NEW blind \in SUBSET Files, branch[b] # None,
         Count(Scan(branch[b].tree, CurrentFiles(branch[b].tree) \ blind))
           - Count(Scan(branch[b].base, BaselineFiles)) <= Allow
  PROVE  Debt(branch[b].tree) - Debt(branch[b].base)
           <= Allow + Count(Scan(branch[b].tree, Gated \cap Tracked \cap blind))
  <1> DEFINE tree    == branch[b].tree
             base    == branch[b].base
             shared  == Gated \cap Tracked
             current == CurrentFiles(tree)
  <1>1. tree \in Revisions /\ base \in Revisions
    BY NoneIsNoBranch DEF BranchRecord
  <1>2. /\ shared \in SUBSET Files /\ current \in SUBSET Files
        /\ shared \ blind \subseteq current \ blind
    BY GateAssumption DEF Tracked, CurrentFiles
  <1>3. BaselineFiles = shared
    BY DEF BaselineFiles
  <1> HIDE DEF tree, base, shared, current
  <1>4. /\ shared \ blind \in SUBSET Files /\ shared \cap blind \in SUBSET Files
        /\ current \ blind \in SUBSET Files
    BY <1>2
  <1>5. Count(Scan(tree, shared))
          <= Count(Scan(tree, shared \ blind)) + Count(Scan(tree, shared \cap blind))
    BY <1>1, <1>2, CountSplits
  <1>6. Count(Scan(tree, shared \ blind)) <= Count(Scan(tree, current \ blind))
    BY <1>1, <1>2, <1>4, CountGrows
  <1>7. /\ Count(Scan(tree, shared)) \in Nat /\ Count(Scan(base, shared)) \in Nat
        /\ Count(Scan(tree, shared \ blind)) \in Nat
        /\ Count(Scan(tree, shared \cap blind)) \in Nat
        /\ Count(Scan(tree, current \ blind)) \in Nat
    BY <1>1, <1>2, <1>4, CountIsNat
  <1>8. Count(Scan(tree, current \ blind)) - Count(Scan(base, shared)) <= Allow
    BY <1>3 DEF tree, base, current
  <1>9. Count(Scan(tree, shared)) - Count(Scan(base, shared))
          <= Allow + Count(Scan(tree, shared \cap blind))
    BY <1>5, <1>6, <1>7, <1>8, GateAssumption
  <1> QED
    BY <1>9 DEF Debt, tree, base, shared

(* Whatever a run was, it bounds its branch.                               *)
LEMMA RunBounds ==
  ASSUME TypeOK, SeenInv, NEW b \in Branches, branch[b] # None, NEW run \in Run, Ran(b, run),
         run.exit = 0 => \/ ~run.compared
                         \/ Debt(branch[b].tree) - Debt(branch[b].base) <= Allow
                              + Count(Scan(branch[b].tree, Gated \cap Tracked \cap run.blind))
  PROVE  SeenInv'
  <1> DEFINE x == [branch[b] EXCEPT !.run = run]
  <1>1. branch[b] \in BranchRecord
    BY NoneIsNoBranch
  <1>2. x.tree = branch[b].tree /\ x.base = branch[b].base /\ x.run = run
    BY <1>1 DEF BranchRecord
  <1>3. branch' = [branch EXCEPT ![b] = x]
    BY DEF Ran
  <1>4. Debt(branch[b].tree) \in Nat /\ Debt(branch[b].base) \in Nat
    BY <1>1, DebtIsNat DEF BranchRecord
  <1> HIDE DEF x
  <1>5. Bounded(x)
    BY <1>2, <1>4, GateAssumption DEF Bounded, UnseenOf
  <1> QED
    BY <1>3, <1>5, BoundedReplaced

(* What a branch up to date with main merges is its own tree.              *)
LEMMA MergeIsTree ==
  ASSUME TypeOK, NEW b \in Branches, branch[b] # None, branch[b].base = main
  PROVE  Debt(MergedWith(main, b)) = Debt(branch[b].tree)
  <1>1. \A f \in Gated \cap Tracked : MergedWith(main, b)[f] = branch[b].tree[f]
    BY DEF MergedWith, Tracked
  <1>2. Scan(MergedWith(main, b), Gated \cap Tracked) = Scan(branch[b].tree, Gated \cap Tracked)
    BY <1>1 DEF Scan
  <1> QED
    BY <1>2 DEF Debt

(* A merge adds to main what its run allowed and what is excused.          *)
LEMMA MergeHolds ==
  ASSUME LineInv, NEW b \in Branches, Merge(b)
  PROVE  HoldsTheLine'
  <1>1. branch[b] # None /\ branch[b] \in BranchRecord /\ branch[b].base = main
    BY NoneIsNoBranch DEF LineInv, Merge
  <1>2. Debt(branch[b].tree) - Debt(main) <= Allow + Unseen(b)
    BY <1>1 DEF LineInv, SeenInv, Merge, Bounded, UnseenOf, Unseen, Growth
  <1>3. Debt(main') = Debt(branch[b].tree) /\ Debt(origin') = Debt(origin)
    BY <1>1, MergeIsTree DEF LineInv, Merge
  <1>4. /\ Debt(branch[b].tree) \in Nat /\ Debt(main) \in Nat /\ Debt(origin) \in Nat
        /\ Unseen(b) \in Nat /\ Allow \in Nat /\ merges \in Nat /\ excused \in Nat
    BY <1>1, DebtIsNat, UnseenIsNat, GateAssumption DEF LineInv, TypeOK, BranchRecord
  <1>5. Allow * (merges + 1) = Allow * merges + Allow /\ Allow * merges \in Nat
    BY <1>4
  <1>6. Debt(main) <= Debt(origin) + Allow * merges + excused
    BY DEF LineInv, HoldsTheLine
  <1>7. Debt(main') <= Debt(origin') + Allow * (merges + 1) + (excused + Unseen(b))
    BY <1>2, <1>3, <1>4, <1>5, <1>6
  <1> QED
    BY <1>7 DEF HoldsTheLine, Merge

(* The line holds at the start.                                            *)
LEMMA LineInit == Init => LineInv
  <1> SUFFICES ASSUME Init PROVE SeenInv /\ HoldsTheLine
    BY TypeInit DEF LineInv
  <1>1. SeenInv
    BY DEF Init, SeenInv
  <1>2. Debt(origin) \in Nat
    BY TypeInit, DebtIsNat DEF TypeOK
  <1>3. Allow * merges = 0
    BY GateAssumption DEF Init
  <1>4. main = origin /\ excused = 0
    BY DEF Init
  <1>5. HoldsTheLine
    BY <1>2, <1>3, <1>4 DEF HoldsTheLine
  <1> QED
    BY <1>1, <1>5

(* No step of a gate with --baseline-ref crosses the line.                 *)
LEMMA LineStep ==
  ASSUME Mode = "ref"
  PROVE  LineInv /\ [Next]_vars => LineInv'
  <1> SUFFICES ASSUME LineInv, [Next]_vars PROVE LineInv'
    OBVIOUS
  <1> USE DEF LineInv
  <1>1. TypeOK'
    BY TypeStep
  <1>2. CASE UNCHANGED vars
    <2>1. SeenInv'
      BY <1>2 DEF vars, SeenInv, Bounded, UnseenOf
    <2>2. HoldsTheLine'
      BY <1>2 DEF vars, HoldsTheLine
    <2> QED
      BY <1>1, <2>1, <2>2
  <1>3. CASE Next
    <2>1. PICK b \in Branches :
            \/ Open(b) \/ Update(b) \/ Merge(b) \/ ReportOnly(b) \/ BadBaseline(b)
            \/ \E f \in Files, content \in Contents \cup {Empty} : Write(b, f, content)
            \/ \E f, g \in Files : Move(b, f, g)
            \/ \E blind \in {{}} \cup {{f} : f \in Gated} : Compare(b, blind)
      BY <1>3 DEF Next
    <2>2. CASE Open(b)
      <3>1. SeenInv'
        BY <2>2, FreshIsBounded, BoundedReplaced DEF Open
      <3> QED
        BY <1>1, <2>2, <3>1 DEF Open, HoldsTheLine
    <2>3. CASE Update(b)
      <3>1. SeenInv'
        BY <2>3, FreshIsBounded, BoundedReplaced DEF Update
      <3> QED
        BY <1>1, <2>3, <3>1 DEF Update, HoldsTheLine
    <2>4. CASE Merge(b)
      <3>1. SeenInv'
        BY <2>4, BoundedReplaced DEF Merge
      <3> QED
        BY <1>1, <2>4, <3>1, MergeHolds
    <2>5. CASE ReportOnly(b) \/ BadBaseline(b)
      <3>1. /\ branch[b] # None
            /\ Ran(b, Uncompared(0)) \/ Ran(b, Uncompared(2))
        BY <2>5 DEF ReportOnly, BadBaseline
      <3>2. ~Uncompared(0).compared /\ ~Uncompared(2).compared
        BY DEF Uncompared
      <3>3. SeenInv'
        BY <3>1, <3>2, RunShape, RunBounds
      <3> QED
        BY <1>1, <3>1, <3>3 DEF Ran, HoldsTheLine
    <2>6. CASE \E tree \in Revisions : Change(b, tree)
      <3>1. SeenInv'
        BY <2>6, FreshIsBounded, BoundedReplaced DEF Change
      <3> QED
        BY <1>1, <2>6, <3>1 DEF Change, HoldsTheLine
    <2>7. CASE \/ \E f \in Files, content \in Contents \cup {Empty} : Write(b, f, content)
               \/ \E f, g \in Files : Move(b, f, g)
      BY <2>6, <2>7, EditIsChange
    <2>8. CASE \E blind \in {{}} \cup {{f} : f \in Gated} : Compare(b, blind)
      <3>1. PICK blind \in SUBSET Files : Compare(b, blind)
        BY <2>8, BlindIsSmall
      <3>2. PICK run \in Run :
              /\ Ran(b, run)
              /\ run.compared = TRUE /\ run.blind = blind
              /\ run.exit = 0 =>
                   Count(Scan(branch[b].tree, CurrentFiles(branch[b].tree) \ blind))
                     - Count(Scan(branch[b].base, BaselineFiles)) <= Allow
        BY <3>1, CompareRan
      <3>3. branch[b] # None
        BY <3>1 DEF Compare
      <3>4. SeenInv'
        BY <3>2, <3>3, CompareBounds, RunBounds
      <3> QED
        BY <1>1, <3>2, <3>4 DEF Ran, HoldsTheLine
    <2> QED
      BY <2>1, <2>2, <2>3, <2>4, <2>5, <2>7, <2>8
  <1> QED
    BY <1>2, <1>3

(* With --baseline-ref, whatever merges through the gate, the debt of main *)
(* exceeds what it was when the gate was adopted by no more than the       *)
(* allowance of each merge and what no comparison could see: for every     *)
(* repository, however its paths are gated, ignored or staged.             *)
THEOREM LineHeld ==
  ASSUME Mode = "ref"
  PROVE  Spec => []HoldsTheLine
  <1>1. Init => LineInv
    BY LineInit
  <1>2. LineInv /\ [Next]_vars => LineInv'
    BY LineStep
  <1>3. LineInv => HoldsTheLine
    BY DEF LineInv
  <1> QED
    BY <1>1, <1>2, <1>3, PTL DEF Spec
-----------------------------------------------------------------------------
(* The verdicts.                                                           *)

(* A comparison that fails has something to show, and it fails for growth. *)
Honest(x) ==
  x.run.compared =>
    /\ x.run.exit = 1 => x.run.introduced # {}
    /\ Debt(x.tree) - Debt(x.base) <= Allow /\ CurrentFiles(x.tree) \subseteq Tracked =>
         x.run.exit = 0

HonestInv == \A b \in Branches : branch[b] # None => Honest(branch[b])

VerdictInv == TypeOK /\ HonestInv

(* A branch not gated since its last change claims nothing.                *)
LEMMA FreshIsHonest == ASSUME NEW x, ~x.run.compared PROVE Honest(x)
  BY DEF Honest

(* Replacing one branch by one whose verdict is honest.                    *)
LEMMA HonestReplaced ==
  ASSUME TypeOK, HonestInv, NEW b \in Branches, NEW x, Honest(x) \/ x = None,
         branch' = [branch EXCEPT ![b] = x]
  PROVE  HonestInv'
  <1> SUFFICES ASSUME NEW c \in Branches, branch'[c] # None PROVE Honest(branch'[c])
    BY DEF HonestInv, Honest
  <1>1. branch'[c] = IF c = b THEN x ELSE branch[c]
    BY DEF TypeOK
  <1> QED
    BY <1>1 DEF HonestInv

(* More blocked findings after than before means that one of them is new,  *)
(* whatever moved or disappeared.                                          *)
LEMMA MoreMeansNew ==
  ASSUME NEW r \in Revisions, NEW old \in Revisions,
         NEW files \in SUBSET Files, NEW oldFiles \in SUBSET Files,
         Count(Scan(r, files)) > Count(Scan(old, oldFiles))
  PROVE  Blocked(Added(Scan(old, oldFiles), Scan(r, files))) # {}
  <1> SUFFICES ASSUME Blocked(Added(Scan(old, oldFiles), Scan(r, files))) = {} PROVE FALSE
    OBVIOUS
  <1>1. Blocked(Scan(r, files)) \subseteq Blocked(Scan(old, oldFiles))
    BY DEF Blocked, Added
  <1>2. Count(Scan(r, files)) <= Count(Scan(old, oldFiles))
    BY <1>1, ScanFinite, FS_Subset DEF Count
  <1> QED
    BY <1>2, CountIsNat

(* What the current side counts is no more than the debt of the branch, if *)
(* it was staged; what the baseline counts is at least that of its base.   *)
LEMMA CompareBrackets ==
  ASSUME NEW tree \in Revisions, NEW base \in Revisions, NEW blind \in SUBSET Files,
         CurrentFiles(tree) \subseteq Tracked
  PROVE  /\ Count(Scan(tree, CurrentFiles(tree) \ blind)) <= Debt(tree)
         /\ Debt(base) <= Count(Scan(base, BaselineFiles))
  <1>1. CurrentFiles(tree) \ blind \subseteq Gated \cap Tracked
    BY DEF CurrentFiles
  <1>2. Gated \cap Tracked \subseteq BaselineFiles
    BY DEF BaselineFiles
  <1>3. Gated \cap Tracked \in SUBSET Files /\ BaselineFiles \in SUBSET Files
    BY DEF BaselineFiles, Tracked
  <1>4. CurrentFiles(tree) \ blind \in SUBSET Files
    BY <1>1, <1>3
  <1> QED
    BY <1>1, <1>2, <1>3, <1>4, CountGrows DEF Debt

(* The verdict of a comparison.                                            *)
LEMMA CompareIsHonest ==
  ASSUME TypeOK, HonestInv, NEW b \in Branches, NEW blind \in SUBSET Files, Compare(b, blind)
  PROVE  HonestInv'
  <1> DEFINE tree   == branch[b].tree
             base   == branch[b].base
             before == Scan(base, BaselineFiles)
             after  == Scan(tree, CurrentFiles(tree) \ blind)
             exit   == IF Count(after) - Count(before) <= Allow THEN 0 ELSE 1
             new    == Blocked(Added(before, after))
             run    == [exit |-> exit, compared |-> TRUE, introduced |-> new, blind |-> blind]
             x      == [branch[b] EXCEPT !.run = run]
  <1>1. branch[b] \in BranchRecord
    BY NoneIsNoBranch DEF Compare
  <1>2. tree \in Revisions /\ base \in Revisions
    BY <1>1 DEF BranchRecord
  <1>3. CurrentFiles(tree) \ blind \in SUBSET Files /\ BaselineFiles \in SUBSET Files
    BY GateAssumption DEF CurrentFiles, BaselineFiles, Tracked
  <1>4. Count(after) \in Nat /\ Count(before) \in Nat
    BY <1>2, <1>3, CountIsNat
  <1>5. exit = 1 => new # {}
    <2> SUFFICES ASSUME exit = 1 PROVE new # {}
      OBVIOUS
    <2>1. Count(after) > Count(before)
      BY <1>4, GateAssumption
    <2> QED
      BY <2>1, <1>2, <1>3, MoreMeansNew
  <1>6. Debt(tree) - Debt(base) <= Allow /\ CurrentFiles(tree) \subseteq Tracked => exit = 0
    <2> SUFFICES ASSUME Debt(tree) - Debt(base) <= Allow, CurrentFiles(tree) \subseteq Tracked
                 PROVE  Count(after) - Count(before) <= Allow
      OBVIOUS
    <2>1. Count(after) <= Debt(tree) /\ Debt(base) <= Count(before)
      BY <1>2, CompareBrackets
    <2>2. Debt(tree) \in Nat /\ Debt(base) \in Nat
      BY <1>2, DebtIsNat
    <2> HIDE DEF tree, base, before, after
    <2> QED
      BY <2>1, <2>2, <1>4, GateAssumption
  <1>7. branch' = [branch EXCEPT ![b] = x]
    BY DEF Compare, Ran
  <1> HIDE DEF exit, new
  <1>8. /\ x.tree = tree /\ x.base = base
        /\ x.run.exit = exit /\ x.run.introduced = new
    BY <1>1 DEF BranchRecord
  <1> HIDE DEF tree, base, x
  <1>9. Honest(x)
    BY <1>5, <1>6, <1>8 DEF Honest
  <1> QED
    BY <1>7, <1>9, HonestReplaced

(* No step leaves a verdict that is not honest.                            *)
LEMMA VerdictStep == VerdictInv /\ [Next]_vars => VerdictInv'
  <1> SUFFICES ASSUME VerdictInv, [Next]_vars PROVE HonestInv'
    BY TypeStep DEF VerdictInv
  <1> USE DEF VerdictInv
  <1>1. CASE UNCHANGED vars
    BY <1>1 DEF vars, HonestInv, Honest
  <1>2. CASE Next
    <2>1. PICK b \in Branches :
            \/ Open(b) \/ Update(b) \/ Merge(b) \/ ReportOnly(b) \/ BadBaseline(b)
            \/ \E f \in Files, content \in Contents \cup {Empty} : Write(b, f, content)
            \/ \E f, g \in Files : Move(b, f, g)
            \/ \E blind \in {{}} \cup {{f} : f \in Gated} : Compare(b, blind)
      BY <1>2 DEF Next
    <2>2. ~NoRun.compared /\ ~Uncompared(0).compared /\ ~Uncompared(2).compared
      BY DEF NoRun, Uncompared
    <2>3. CASE Open(b) \/ Update(b)
      BY <2>2, <2>3, FreshIsHonest, HonestReplaced DEF Open, Update
    <2>4. CASE Merge(b)
      BY <2>4, HonestReplaced DEF Merge
    <2>5. CASE ReportOnly(b) \/ BadBaseline(b)
      <3>1. PICK exit \in {0, 2} : Ran(b, Uncompared(exit))
        BY <2>5 DEF ReportOnly, BadBaseline
      <3> DEFINE x == [branch[b] EXCEPT !.run = Uncompared(exit)]
      <3>2. branch[b] \in BranchRecord /\ branch' = [branch EXCEPT ![b] = x]
        BY <2>5, <3>1, NoneIsNoBranch DEF ReportOnly, BadBaseline, Ran
      <3>3. x.run = Uncompared(exit)
        BY <3>2 DEF BranchRecord
      <3> HIDE DEF x
      <3>4. Honest(x)
        BY <2>2, <3>3, FreshIsHonest
      <3> QED
        BY <3>2, <3>4, HonestReplaced
    <2>6. CASE \/ \E f \in Files, content \in Contents \cup {Empty} : Write(b, f, content)
               \/ \E f, g \in Files : Move(b, f, g)
      <3>1. PICK tree \in Revisions : Change(b, tree)
        BY <2>6, EditIsChange
      <3> QED
        BY <2>2, <3>1, FreshIsHonest, HonestReplaced DEF Change
    <2>7. CASE \E blind \in {{}} \cup {{f} : f \in Gated} : Compare(b, blind)
      BY <2>7, BlindIsSmall, CompareIsHonest
    <2> QED
      BY <2>1, <2>3, <2>4, <2>5, <2>6, <2>7
  <1> QED
    BY <1>1, <1>2

(* Every verdict in a behaviour of the gate is honest.                     *)
LEMMA VerdictsHonest == Spec => []VerdictInv
  <1>1. Init => VerdictInv
    BY TypeInit DEF Init, VerdictInv, HonestInv
  <1> QED
    BY <1>1, VerdictStep, PTL DEF Spec

(* In either mode, a comparison that fails lists something new to look at: *)
(* the count by status exceeds the allowance only with a new identity.     *)
THEOREM FailureNamed == Spec => []FailureNamesFindings
  <1>1. VerdictInv => FailureNamesFindings
    BY DEF VerdictInv, HonestInv, Honest, FailureNamesFindings
  <1> QED
    BY <1>1, VerdictsHonest, PTL

(* In either mode, whatever is ignored, gated or hidden by a crash, a      *)
(* change that keeps within the allowance passes when its tree is staged.  *)
THEOREM RefactorsPassed == Spec => []RefactorsPass
  <1>1. VerdictInv => RefactorsPass
    BY DEF VerdictInv, HonestInv, Honest, RefactorsPass, Growth
  <1> QED
    BY <1>1, VerdictsHonest, PTL
=============================================================================
