----------------------------- MODULE FetchProofs -----------------------------
(***************************************************************************)
(* Proofs about modules Ingest and Endpoint, what is fetched and who is    *)
(* connected to, for any archives, repositories, servers, limits and       *)
(* tables, and in whatever pieces an answer arrives.  The modules have no  *)
(* specification of their own; CollectProofs makes theorems of CollectSpec *)
(* of the lemmas here.                                                     *)
(*                                                                         *)
(* Each step of Ingest is a step of Admission.  The invariant is the       *)
(* ledger of the budget: while an upload is extracted, what its files take *)
(* and what may still be written are together within the limit, and the    *)
(* tree has no more files than members were counted.                       *)
(*                                                                         *)
(* The invariant of Endpoint is where in the stream the buffer lies: it    *)
(* ends at the last token received; while lines are read it begins behind  *)
(* a line; and since only a packet begins with a length, a body begins     *)
(* behind the two tokens of its header, however the greeting was left.     *)
(***************************************************************************)
EXTENDS Ingest, Endpoint, SequenceTheorems, FiniteSetTheorems, WellFoundedInduction, TLAPS

-----------------------------------------------------------------------------
(* Ingest.                                                                 *)

IngestSteps ==
  {"idle", "open", "entries", "write", "clone", "measure", "ready", "refused", "abandoned"}

(* What an upload has on disk so far.                                      *)
Extracted ==
  /\ \A p \in DOMAIN tree : ~tree[p].link /\ tree[p].bytes <= MaxMember
  /\ Cardinality(DOMAIN tree) <= count /\ count <= MaxEntries
  /\ TreeSize(tree) + budget <= MaxTotal

(* Where in its members an upload is; a zip has been counted, the members  *)
(* of a tar are counted as they come.                                      *)
AmongMembers ==
  /\ src.form \in {"zip", "tar", "single"}
  /\ src.form = "zip" => Len(src.entries) <= MaxEntries
  /\ at <= Len(src.entries) + 1
  /\ count <= IF step = "write" THEN at ELSE at - 1
  /\ step = "write" => /\ Member
                       /\ Entry.path \in DOMAIN tree
                       /\ tree[Entry.path].bytes = got

IngestInv ==
  /\ step \in IngestSteps
  /\ tree \in [DOMAIN tree -> [link : BOOLEAN, bytes : Nat]] /\ IsFiniteSet(DOMAIN tree)
  /\ at \in Nat \ {0} /\ left \in Nat /\ got \in 0..MaxMember
  /\ budget \in 0..MaxTotal /\ count \in Nat
  /\ step # "idle" => IsSource(src)
  /\ step \in {"idle", "open", "clone", "refused"} => tree = Empty
  /\ step \in {"open", "entries", "write"} => src.form # "repo"
  /\ step = "open" => at = 1 /\ count = 0
  /\ step = "clone" => src.form = "repo"
  /\ step \in {"entries", "write"} => AmongMembers
  /\ step \in {"entries", "write", "measure"} /\ src.form # "repo" => Extracted

-----------------------------------------------------------------------------
(* The size of a tree.                                                     *)

(* The n bytes of a file behind its first m.                               *)
Stretch(p, m, n) == {p} \X ((m + 1)..(m + n))

(* They are n.                                                             *)
LEMMA StretchIs ==
  ASSUME NEW p, NEW m \in Nat, NEW n \in Nat
  PROVE  IsFiniteSet(Stretch(p, m, n)) /\ Cardinality(Stretch(p, m, n)) = n
  <1>1. IsFiniteSet({p}) /\ Cardinality({p}) = 1
    BY FS_Singleton
  <1>2. IsFiniteSet((m + 1)..(m + n)) /\ Cardinality((m + 1)..(m + n)) = n
    BY FS_Interval
  <1> QED
    BY <1>1, <1>2, FS_Product DEF Stretch

(* A finite tree takes finitely many bytes.                                *)
LEMMA TreeIsFinite ==
  ASSUME NEW t, IsFiniteSet(DOMAIN t), \A p \in DOMAIN t : t[p].bytes \in Nat
  PROVE  /\ IsFiniteSet(UNION {{p} \X (1..t[p].bytes) : p \in DOMAIN t})
         /\ TreeSize(t) \in Nat
  <1> DEFINE all == {{p} \X (1..t[p].bytes) : p \in DOMAIN t}
             file == [p \in DOMAIN t |-> {p} \X (1..t[p].bytes)]
  <1>1. file \in Surjection(DOMAIN t, all)
    BY DEF Surjection
  <1>2. IsFiniteSet(all)
    BY <1>1, FS_Surjection
  <1>3. ASSUME NEW some \in all PROVE IsFiniteSet(some)
    <2>1. PICK p \in DOMAIN t : some = {p} \X (1..t[p].bytes)
      OBVIOUS
    <2>2. PICK n \in Nat : n = t[p].bytes
      OBVIOUS
    <2>3. IsFiniteSet(1..n)
      BY FS_Interval
    <2>4. IsFiniteSet({p})
      BY FS_Singleton
    <2> QED
      BY <2>1, <2>2, <2>3, <2>4, FS_Product
  <1>4. IsFiniteSet(UNION all)
    BY <1>2, <1>3, FS_UNION
  <1> QED
    BY <1>4, FS_CardinalityType DEF TreeSize

(* A tree of which no file is longer than it is in another takes no more.  *)
LEMMA SmallerTree ==
  ASSUME NEW t, IsFiniteSet(DOMAIN t), \A p \in DOMAIN t : t[p].bytes \in Nat,
         NEW s, \A p \in DOMAIN s : s[p].bytes \in Nat,
         \A p \in DOMAIN s : s[p].bytes > 0 => p \in DOMAIN t /\ s[p].bytes <= t[p].bytes
  PROVE  TreeSize(s) <= TreeSize(t)
  <1> DEFINE more == UNION {{p} \X (1..t[p].bytes) : p \in DOMAIN t}
             fewer == UNION {{p} \X (1..s[p].bytes) : p \in DOMAIN s}
  <1>1. IsFiniteSet(more)
    BY TreeIsFinite
  <1>2. fewer \subseteq more
    <2> SUFFICES ASSUME NEW p \in DOMAIN s, NEW i \in 1..s[p].bytes
                 PROVE  p \in DOMAIN t /\ i \in 1..t[p].bytes
      OBVIOUS
    <2> QED
      OBVIOUS
  <1> QED
    BY <1>1, <1>2, FS_Subset DEF TreeSize

(* A file that grows makes its tree grow by no more than that.             *)
LEMMA LargerTree ==
  ASSUME NEW t, IsFiniteSet(DOMAIN t), \A p \in DOMAIN t : t[p].bytes \in Nat,
         NEW s, DOMAIN s = DOMAIN t, NEW q \in DOMAIN t, NEW n \in Nat,
         s[q].bytes = t[q].bytes + n,
         \A p \in DOMAIN t \ {q} : s[p].bytes = t[p].bytes
  PROVE  TreeSize(s) <= TreeSize(t) + n
  <1> DEFINE before == UNION {{p} \X (1..t[p].bytes) : p \in DOMAIN t}
             after == UNION {{p} \X (1..s[p].bytes) : p \in DOMAIN s}
             new == Stretch(q, t[q].bytes, n)
  <1>1. IsFiniteSet(before) /\ Cardinality(before) \in Nat
    BY TreeIsFinite DEF TreeSize
  <1>2. IsFiniteSet(new) /\ Cardinality(new) = n
    <2>1. PICK m \in Nat : m = t[q].bytes
      OBVIOUS
    <2> QED
      BY <2>1, StretchIs
  <1>3. after \subseteq before \cup new
    <2> SUFFICES ASSUME NEW p \in DOMAIN t, NEW i \in 1..s[p].bytes,
                        ~(i \in 1..t[p].bytes)
                 PROVE  p = q /\ i \in (t[q].bytes + 1)..(t[q].bytes + n)
      BY DEF Stretch
    <2> QED
      OBVIOUS
  <1>4. IsFiniteSet(before \cup new)
    BY <1>1, <1>2, FS_Union
  <1>5. Cardinality(before \cup new) <= Cardinality(before) + n
    <2>1. IsFiniteSet(before \cap new)
      BY <1>1, FS_Intersection
    <2>2. Cardinality(before \cap new) \in Nat
      BY <2>1, FS_CardinalityType
    <2>3. Cardinality(before \cup new) = Cardinality(before) + n - Cardinality(before \cap new)
      BY <1>1, <1>2, FS_Union
    <2> HIDE DEF before, new
    <2> QED
      BY <1>1, <2>2, <2>3
  <1>6. /\ Cardinality(after) <= Cardinality(before \cup new)
        /\ Cardinality(after) \in Nat /\ Cardinality(before \cup new) \in Nat
    BY <1>3, <1>4, FS_Subset, FS_CardinalityType
  <1> HIDE DEF before, new, after
  <1>7. Cardinality(after) <= Cardinality(before) + n
    BY <1>1, <1>5, <1>6
  <1> QED
    BY <1>7 DEF TreeSize, before, after

(* An empty tree takes nothing.                                            *)
LEMMA EmptyTree ==
  /\ Empty \in [DOMAIN Empty -> [link : BOOLEAN, bytes : Nat]]
  /\ DOMAIN Empty = {} /\ IsFiniteSet(DOMAIN Empty) /\ Cardinality(DOMAIN Empty) = 0
  /\ TreeSize(Empty) = 0
  <1>1. DOMAIN Empty = {}
    BY DEF Empty
  <1>2. UNION {{p} \X (1..Empty[p].bytes) : p \in DOMAIN Empty} = {}
    BY <1>1
  <1> QED
    BY <1>1, <1>2, FS_EmptySet DEF TreeSize, Empty

-----------------------------------------------------------------------------
(* The steps of an upload.                                                 *)

(* Nothing has come in at the start.                                       *)
LEMMA IngestInitially == IngestInit => IngestInv
  BY EmptyTree, IngestAssumption DEF IngestInit, IngestInv, IngestSteps

(* A request has an empty tree, and all of the budget.                     *)
LEMMA BeginKeeps ==
  ASSUME NEW s, IsSource(s), BeginIngest(s)
  PROVE  IngestInv'
  <1>1. step' \in {"open", "clone", "refused"}
    BY DEF BeginIngest
  <1>2. src' = s /\ (step' = "open" => s.form # "repo") /\ (step' = "clone" => s.form = "repo")
    BY DEF BeginIngest
  <1> QED
    BY <1>1, <1>2, EmptyTree, IngestAssumption DEF BeginIngest, IngestInv, IngestSteps

(* A failure leaves no tree.                                               *)
LEMMA FailKeeps == ASSUME IngestInv, step # "idle", Fail PROVE IngestInv'
  BY EmptyTree DEF Fail, IngestInv, IngestSteps

(* Its members are there before any is written.                            *)
LEMMA OpenKeeps == ASSUME IngestInv, OpenSource PROVE IngestInv'
  <1>1. CASE Fail
    BY <1>1, FailKeeps DEF OpenSource
  <1>2. CASE ~Fail
    <2>1. /\ step = "open" /\ step' = "entries" /\ UNCHANGED <<src, at, left, got, budget, count, tree>>
          /\ src.form \in {"zip", "tar", "single"}
          /\ src.form = "zip" => Len(src.entries) <= MaxEntries
      BY <1>2 DEF OpenSource
    <2>2. tree = Empty /\ at = 1 /\ count = 0 /\ Len(src.entries) \in Nat
      BY <2>1 DEF IngestInv, IsSource
    <2>3. AmongMembers'
      BY <2>1, <2>2 DEF AmongMembers
    <2>4. Extracted'
      BY <2>1, <2>2, EmptyTree, IngestAssumption DEF Extracted, IngestInv
    <2> QED
      BY <2>1, <2>3, <2>4 DEF IngestInv, IngestSteps
  <1> QED
    BY <1>1, <1>2

(* Directories and links are passed over.                                  *)
LEMMA SkipKeeps == ASSUME IngestInv, SkipMember PROVE IngestInv'
  <1>1. /\ step = "entries" /\ Member /\ at' = at + 1
        /\ UNCHANGED <<step, src, left, got, budget, count, tree>>
    BY DEF SkipMember
  <1>2. at \in 1..Len(src.entries) /\ Len(src.entries) \in Nat
    BY <1>1 DEF IngestInv, IsSource, Member
  <1>3. AmongMembers'
    BY <1>1, <1>2 DEF AmongMembers, IngestInv
  <1>4. Extracted'
    BY <1>1 DEF Extracted, IngestInv
  <1> QED
    BY <1>1, <1>2, <1>3, <1>4 DEF IngestInv, IngestSteps

(* A member that is written over another takes what the other took.        *)
LEMMA StartKeeps == ASSUME IngestInv, StartMember PROVE IngestInv'
  <1>1. CASE Fail
    BY <1>1, FailKeeps DEF StartMember
  <1>2. CASE ~Fail
    <2> DEFINE path == Entry.path
    <2>1. /\ step = "entries" /\ step' = "write" /\ Member
          /\ left' = Entry.size /\ got' = 0 /\ count' = count + 1
          /\ tree' = [p \in DOMAIN tree \cup {path} |->
                        IF p = path THEN [link |-> FALSE, bytes |-> 0] ELSE tree[p]]
          /\ UNCHANGED <<src, at, budget>>
          /\ src.form = "tar" => count + 1 <= MaxEntries
      <3>1. ~(src.form = "tar" /\ count + 1 > MaxEntries)
        BY <1>2 DEF StartMember
      <3> QED
        BY <1>2, <3>1, IngestAssumption DEF StartMember, IngestInv
    <2>2. at \in 1..Len(src.entries) /\ Len(src.entries) \in Nat /\ Entry.size \in Nat
      BY <2>1 DEF IngestInv, IsSource, Member, Entry, Range
    <2>3. /\ tree \in [DOMAIN tree -> [link : BOOLEAN, bytes : Nat]] /\ IsFiniteSet(DOMAIN tree)
          /\ AmongMembers /\ Extracted
      BY <2>1 DEF IngestInv
    <2> HIDE DEF path
    <2>4. /\ DOMAIN tree' = DOMAIN tree \cup {path} /\ IsFiniteSet(DOMAIN tree')
          /\ tree' \in [DOMAIN tree' -> [link : BOOLEAN, bytes : Nat]]
          /\ Cardinality(DOMAIN tree') <= Cardinality(DOMAIN tree) + 1
          /\ Cardinality(DOMAIN tree) \in Nat /\ Cardinality(DOMAIN tree') \in Nat
      BY <2>1, <2>3, FS_AddElement, FS_CardinalityType
    <2>5. TreeSize(tree') <= TreeSize(tree) /\ TreeSize(tree) \in Nat /\ TreeSize(tree') \in Nat
      <3>1. /\ \A p \in DOMAIN tree : tree[p].bytes \in Nat
            /\ \A p \in DOMAIN tree' : tree'[p].bytes \in Nat
        BY <2>3, <2>4
      <3>2. \A p \in DOMAIN tree' : tree'[p].bytes > 0 => p \in DOMAIN tree /\ tree'[p].bytes <= tree[p].bytes
        BY <2>1, <2>3
      <3> QED
        BY <2>3, <2>4, <3>1, <3>2, SmallerTree, TreeIsFinite
    <2>6. count + 1 <= MaxEntries
      <3>1. /\ src.form = "zip" => Len(src.entries) <= MaxEntries
            /\ src.form = "single" => Len(src.entries) = 1
            /\ count <= at - 1 /\ count \in Nat /\ MaxEntries \in Nat \ {0}
            /\ src.form \in {"zip", "tar", "single"}
        BY <2>1, <2>3, IngestAssumption DEF AmongMembers, IngestInv, IsSource
      <3>2. src.form = "tar" => count + 1 <= MaxEntries
        BY <2>1
      <3>3. src.form = "zip" => count + 1 <= MaxEntries
        BY <2>2, <3>1
      <3>4. src.form = "single" => count + 1 <= MaxEntries
        <4> SUFFICES ASSUME src.form = "single" PROVE count + 1 <= MaxEntries
          OBVIOUS
        <4>1. Len(src.entries) = 1 /\ count <= at - 1 /\ count \in Nat
          BY <3>1
        <4>2. at = 1
          BY <2>2, <4>1
        <4>3. count = 0
          BY <4>1, <4>2
        <4> QED
          BY <4>3, IngestAssumption
      <3> QED
        BY <3>1, <3>2, <3>3, <3>4
    <2>7. Extracted'
      <3>1. \A p \in DOMAIN tree' : ~tree'[p].link /\ tree'[p].bytes <= MaxMember
        BY <2>1, <2>3, IngestAssumption DEF Extracted
      <3>2. Cardinality(DOMAIN tree') <= count' /\ count' <= MaxEntries
        BY <2>1, <2>3, <2>4, <2>6 DEF Extracted, IngestInv
      <3>3. TreeSize(tree') + budget' <= MaxTotal
        BY <2>1, <2>3, <2>5, IngestAssumption DEF Extracted, IngestInv
      <3> QED
        BY <3>1, <3>2, <3>3 DEF Extracted
    <2>8. AmongMembers'
      <3>1. Entry' = Entry /\ Member'
        BY <2>1 DEF Entry, Member
      <3>2. path \in DOMAIN tree' /\ tree'[path].bytes = got'
        BY <2>1, <2>4
      <3>3. count' <= at' /\ at' <= Len(src'.entries) + 1
        BY <2>1, <2>2, <2>3 DEF AmongMembers, IngestInv
      <3> QED
        BY <2>1, <2>3, <3>1, <3>2, <3>3 DEF AmongMembers, path
    <2>9. /\ step' = "write" /\ IsSource(src') /\ src'.form # "repo"
          /\ at' \in Nat \ {0} /\ left' \in Nat /\ got' \in 0..MaxMember
          /\ budget' \in 0..MaxTotal /\ count' \in Nat
      BY <2>1, <2>2, IngestAssumption DEF IngestInv
    <2> QED
      BY <2>4, <2>7, <2>8, <2>9 DEF IngestInv, IngestSteps
  <1> QED
    BY <1>1, <1>2

(* A chunk is charged before it is written.                                *)
LEMMA WriteKeeps == ASSUME IngestInv, WriteChunk PROVE IngestInv'
  <1>1. CASE Fail
    BY <1>1, FailKeeps DEF WriteChunk
  <1>2. CASE ~Fail
    <2> DEFINE path == Entry.path
    <2>1. PICK n \in Nat : n = Read /\ n <= left
      BY IngestAssumption DEF IngestInv, Read
    <2>2. /\ step = "write" /\ UNCHANGED <<step, src, at, count>>
          /\ got' = got + n /\ left' = left - n /\ budget' = budget - n
          /\ got + n <= MaxMember /\ n <= budget
          /\ tree' = [tree EXCEPT ![path].bytes = got + n]
      <3>1. ~(got + Read > MaxMember \/ Read > budget)
        BY <1>2 DEF WriteChunk
      <3> QED
        BY <1>2, <2>1, <3>1, IngestAssumption DEF WriteChunk, IngestInv
    <2>3. /\ tree \in [DOMAIN tree -> [link : BOOLEAN, bytes : Nat]] /\ IsFiniteSet(DOMAIN tree)
          /\ AmongMembers /\ Extracted
          /\ path \in DOMAIN tree /\ tree[path].bytes = got
      BY <2>2 DEF IngestInv, AmongMembers
    <2>4. Entry' = Entry /\ (Member' <=> Member)
      BY <2>2 DEF Entry, Member
    <2> HIDE DEF path
    <2>5. /\ DOMAIN tree' = DOMAIN tree
          /\ tree'[path] = [tree[path] EXCEPT !.bytes = got + n]
          /\ \A p \in DOMAIN tree \ {path} : tree'[p] = tree[p]
      BY <2>2, <2>3
    <2>6. /\ tree'[path].bytes = got + n /\ tree'[path].link = tree[path].link
          /\ tree' \in [DOMAIN tree' -> [link : BOOLEAN, bytes : Nat]]
          /\ got \in Nat
      BY <2>2, <2>3, <2>5 DEF IngestInv
    <2>7. TreeSize(tree') <= TreeSize(tree) + n /\ TreeSize(tree) \in Nat /\ TreeSize(tree') \in Nat
      <3>1. /\ \A p \in DOMAIN tree : tree[p].bytes \in Nat
            /\ \A p \in DOMAIN tree' : tree'[p].bytes \in Nat
        BY <2>3, <2>6
      <3>2. TreeSize(tree') <= TreeSize(tree) + n
        BY <2>3, <2>5, <2>6, <3>1, LargerTree
      <3> QED
        BY <2>3, <2>5, <3>1, <3>2, TreeIsFinite
    <2>8. Extracted'
      <3>1. \A p \in DOMAIN tree' : ~tree'[p].link /\ tree'[p].bytes <= MaxMember
        BY <2>2, <2>3, <2>5, <2>6 DEF Extracted
      <3>2. TreeSize(tree') + budget' <= MaxTotal
        BY <2>2, <2>3, <2>7, IngestAssumption DEF Extracted, IngestInv
      <3> QED
        BY <2>2, <2>3, <2>5, <3>1, <3>2 DEF Extracted
    <2>9. AmongMembers'
      BY <2>2, <2>3, <2>4, <2>5, <2>6 DEF AmongMembers, path
    <2> QED
      BY <2>1, <2>2, <2>3, <2>5, <2>6, <2>8, <2>9, IngestAssumption DEF IngestInv, IngestSteps
  <1> QED
    BY <1>1, <1>2

(* A member is done when all of it is written.                             *)
LEMMA EndMemberKeeps == ASSUME IngestInv, EndMember PROVE IngestInv'
  <1>1. /\ step = "write" /\ step' = "entries" /\ at' = at + 1
        /\ UNCHANGED <<src, left, got, budget, count, tree>>
    BY DEF EndMember
  <1>2. AmongMembers /\ Extracted /\ at \in 1..Len(src.entries) /\ Len(src.entries) \in Nat
    BY <1>1 DEF IngestInv, AmongMembers, IsSource, Member
  <1>3. AmongMembers'
    BY <1>1, <1>2 DEF AmongMembers, IngestInv
  <1>4. Extracted'
    BY <1>1, <1>2 DEF Extracted
  <1> QED
    BY <1>1, <1>2, <1>3, <1>4 DEF IngestInv, IngestSteps

(* The members are done.                                                   *)
LEMMA EndEntriesKeeps == ASSUME IngestInv, EndEntries PROVE IngestInv'
  <1>1. /\ step = "entries" /\ step' = "measure"
        /\ UNCHANGED <<src, at, left, got, budget, count, tree>>
    BY DEF EndEntries
  <1>2. Extracted'
    BY <1>1 DEF IngestInv, Extracted
  <1> QED
    BY <1>1, <1>2 DEF IngestInv, IngestSteps

(* A checkout is a finite tree.                                            *)
(* A checkout is a tree.                                                   *)
LEMMA CheckoutIs ==
  ASSUME IsSource(src)
  PROVE  /\ Checkout \in [DOMAIN Checkout -> [link : BOOLEAN, bytes : Nat]]
         /\ IsFiniteSet(DOMAIN Checkout)
  <1> DEFINE paths == {e.path : e \in Range(src.entries)}
             of(p) == CHOOSE x \in Range(src.entries) : x.path = p
  <1>1. Checkout = [p \in paths |-> [link |-> of(p).type = "link", bytes |-> of(p).size]]
    BY DEF Checkout
  <1>2. src.entries \in Seq(Range(src.entries)) /\ Len(src.entries) \in Nat
        /\ \A e \in Range(src.entries) : e.size \in Nat
    BY DEF IsSource, Range
  <1>3. \A p \in paths : of(p) \in Range(src.entries)
    OBVIOUS
  <1>4. IsFiniteSet(paths)
    <2> DEFINE path == [i \in 1..Len(src.entries) |-> src.entries[i].path]
    <2>s. DOMAIN src.entries = 1..Len(src.entries)
      BY <1>2, LenProperties
    <2>t. \A i \in 1..Len(src.entries) : src.entries[i].path \in paths
      BY <2>s DEF Range
    <2>u. \A p \in paths : \E i \in 1..Len(src.entries) : src.entries[i].path = p
      BY <2>s DEF Range
    <2>1. path \in Surjection(1..Len(src.entries), paths)
      <3> HIDE DEF paths
      <3> QED
        BY <2>t, <2>u DEF Surjection
    <2>2. IsFiniteSet(1..Len(src.entries))
      BY <1>2, FS_Interval
    <2> HIDE DEF path, paths
    <2> QED
      BY <2>1, <2>2, FS_Surjection
  <1> HIDE DEF paths, of
  <1> QED
    BY <1>1, <1>2, <1>3, <1>4

(* And so is a part of a tree.                                             *)
LEMMA PartOfTree ==
  ASSUME NEW t, t \in [DOMAIN t -> [link : BOOLEAN, bytes : Nat]], IsFiniteSet(DOMAIN t),
         NEW some \in SUBSET DOMAIN t, NEW u, u = Restrict(t, some)
  PROVE  u \in [DOMAIN u -> [link : BOOLEAN, bytes : Nat]] /\ IsFiniteSet(DOMAIN u)
  <1>1. u = [p \in some |-> t[p]]
    BY DEF Restrict
  <1>2. IsFiniteSet(some)
    BY FS_Subset
  <1> QED
    BY <1>1, <1>2

LEMMA CloneKeeps == ASSUME IngestInv, Clone PROVE IngestInv'
  <1>1. CASE Fail
    BY <1>1, FailKeeps DEF Clone
  <1>2. CASE ~Fail
    <2>1. /\ step = "clone" /\ step' = "measure" /\ tree' = Checkout
          /\ UNCHANGED <<src, at, left, got, budget, count>>
      BY <1>2 DEF Clone
    <2>2. src.form = "repo" /\ IsSource(src)
      BY <2>1 DEF IngestInv
    <2>3. /\ tree' \in [DOMAIN tree' -> [link : BOOLEAN, bytes : Nat]]
          /\ IsFiniteSet(DOMAIN tree')
      BY <2>1, <2>2, CheckoutIs
    <2> QED
      BY <2>1, <2>2, <2>3 DEF IngestInv, IngestSteps
  <1> QED
    BY <1>1, <1>2

LEMMA CloneRaisesKeeps == ASSUME IngestInv, CloneRaises PROVE IngestInv'
  <1>1. /\ step \in {"clone", "measure"} /\ step' = "abandoned"
        /\ UNCHANGED <<src, at, left, got, budget, count>>
    BY DEF CloneRaises
  <1>2. IsSource(src)
    BY <1>1 DEF IngestInv
  <1>3. tree' \in [DOMAIN tree' -> [link : BOOLEAN, bytes : Nat]] /\ IsFiniteSet(DOMAIN tree')
    <2>1. CASE step = "clone"
      <3>1. PICK out \in SUBSET DOMAIN Checkout : tree' = Restrict(Checkout, out)
        BY <2>1 DEF CloneRaises
      <3> QED
        BY <1>2, <3>1, CheckoutIs, PartOfTree
    <2>2. CASE step # "clone"
      <3>1. PICK gone : tree' = Restrict(tree, DOMAIN tree \ gone)
        BY <2>2 DEF CloneRaises
      <3> QED
        BY <3>1, PartOfTree DEF IngestInv
    <2> QED
      BY <2>1, <2>2
  <1> QED
    BY <1>1, <1>2, <1>3 DEF IngestInv, IngestSteps

(* What is admitted is the tree without its links.                         *)
LEMMA MeasureKeeps == ASSUME IngestInv, Measure PROVE IngestInv'
  <1>1. CASE Fail
    BY <1>1, FailKeeps DEF Measure
  <1>2. CASE ~Fail
    <2>1. /\ step = "measure" /\ step' = "ready" /\ tree' = Stripped
          /\ UNCHANGED <<src, at, left, got, budget, count>>
      BY <1>2 DEF Measure
    <2>2. /\ DOMAIN Stripped \subseteq DOMAIN tree
          /\ Stripped \in [DOMAIN Stripped -> [link : BOOLEAN, bytes : Nat]]
      BY DEF IngestInv, Stripped
    <2>3. IsFiniteSet(DOMAIN Stripped)
      BY <2>2, FS_Subset DEF IngestInv
    <2> QED
      BY <2>1, <2>2, <2>3 DEF IngestInv, IngestSteps
  <1> QED
    BY <1>1, <1>2

(* The invariant is kept by every step.                                    *)
LEMMA IngestKeeps == ASSUME IngestInv, IngestNext PROVE IngestInv'
  <1>1. CASE ReadFails
    BY <1>1, FailKeeps DEF ReadFails
  <1> QED
    BY <1>1, OpenKeeps, SkipKeeps, StartKeeps, WriteKeeps, EndMemberKeeps, EndEntriesKeeps,
       CloneKeeps, CloneRaisesKeeps, MeasureKeeps DEF IngestNext

-----------------------------------------------------------------------------
(* The steps of Admission.                                                 *)

(* Admission counts as is counted here.                                    *)
LEMMA SameCount == \A S : Outside!Cardinality(S) = Cardinality(S)
  BY DEF Outside!Cardinality, Cardinality

(* What a tree without links takes is what all of it takes.                *)
LEMMA Unlinked ==
  ASSUME NEW t, \A p \in DOMAIN t : ~t[p].link
  PROVE  Outside!Files(t) = DOMAIN t /\ Outside!Bytes(t) = TreeSize(t) /\ Outside!Linkless(t)
  <1>1. Outside!Files(t) = DOMAIN t
    BY DEF Outside!Files
  <1> DEFINE bytes_of(S) == Cardinality(UNION {{p} \X (1..t[p].bytes) : p \in S})
  <1>2. Outside!Bytes(t) = bytes_of(Outside!Files(t)) /\ TreeSize(t) = bytes_of(DOMAIN t)
    BY SameCount DEF Outside!Bytes, TreeSize
  <1> HIDE DEF bytes_of
  <1>3. Outside!Bytes(t) = TreeSize(t)
    BY <1>1, <1>2
  <1> QED
    BY <1>1, <1>3 DEF Outside!Linkless

(* What is on disk of an upload is within the limits at every moment.      *)
LEMMA UploadIsModest == IngestInv /\ Standing = "upload" => Outside!Modest(tree)
  <1> SUFFICES ASSUME IngestInv, Standing = "upload" PROVE Outside!Modest(tree)
    OBVIOUS
  <1>1. step \in {"open", "entries", "write", "measure"} /\ src.form # "repo"
    BY DEF Standing, IngestInv, IngestSteps
  <1>2. CASE step = "open"
    <2>1. tree = Empty /\ {MaxTotal, MaxEntries, MaxMember} \subseteq Nat
      BY <1>2, IngestAssumption DEF IngestInv
    <2>2. \A p \in DOMAIN tree : ~tree[p].link /\ tree[p].bytes <= MaxMember
      BY <2>1, EmptyTree
    <2>3. /\ Outside!Files(tree) = DOMAIN tree /\ Outside!Bytes(tree) = TreeSize(tree)
          /\ Outside!Linkless(tree)
      BY <2>2, Unlinked
    <2>4. TreeSize(tree) <= MaxTotal /\ Cardinality(DOMAIN tree) <= MaxEntries
      BY <2>1, EmptyTree
    <2>5. \A p \in Outside!Files(tree) : tree[p].bytes <= MaxMember
      BY <2>2, <2>3
    <2> QED
      BY SameCount, <2>3, <2>4, <2>5 DEF Outside!Modest
  <1>3. CASE step \in {"entries", "write", "measure"}
    <2>1. Extracted /\ budget \in Nat /\ count \in Nat
      BY <1>1, <1>3, IngestAssumption DEF IngestInv
    <2>2. \A p \in DOMAIN tree : ~tree[p].link /\ tree[p].bytes <= MaxMember
      BY <2>1 DEF Extracted
    <2>3. /\ Outside!Files(tree) = DOMAIN tree /\ Outside!Bytes(tree) = TreeSize(tree)
          /\ Outside!Linkless(tree)
      BY <2>2, Unlinked
    <2>4. TreeSize(tree) \in Nat /\ Cardinality(DOMAIN tree) \in Nat
      BY TreeIsFinite, FS_CardinalityType DEF IngestInv
    <2>5. TreeSize(tree) <= MaxTotal /\ Cardinality(DOMAIN tree) <= MaxEntries
      BY <2>1, <2>4, IngestAssumption DEF Extracted
    <2>6. \A p \in Outside!Files(tree) : tree[p].bytes <= MaxMember
      BY <2>2, <2>3
    <2> QED
      BY SameCount, <2>3, <2>5, <2>6 DEF Outside!Modest
  <1> QED
    BY <1>1, <1>2, <1>3

(* A failure is a refusal.                                                 *)
LEMMA FailRefuses ==
  ASSUME IngestInv, step \in {"open", "entries", "write", "clone", "measure"}, Fail
  PROVE  Outside!Refuse
  <1>1. Standing \in {"upload", "repo"} /\ Standing' = "refused"
    BY DEF Standing, Fail
  <1> QED
    BY <1>1 DEF Outside!Refuse, Outside!NoTree, Fail, Empty

(* A step inside is one that fills the tree.                               *)
LEMMA StepFills ==
  ASSUME IngestInv', src' = src,
         step \in {"open", "entries", "write", "clone", "measure"},
         step' \in {"open", "entries", "write", "clone", "measure"}
  PROVE  Outside!Fill
  <1>1. Standing \in {"upload", "repo"} /\ Standing' = Standing
    BY DEF Standing
  <1>2. Standing = "upload" => Outside!Modest(tree')
    <2>1. (IngestInv /\ Standing = "upload" => Outside!Modest(tree))'
      BY UploadIsModest, PTL
    <2> QED
      BY <1>1, <2>1
  <1> QED
    BY <1>1, <1>2 DEF Outside!Fill

(* What is measured and kept is what Admission admits.                     *)
LEMMA MeasureAdmits ==
  ASSUME IngestInv, Measure, ~Fail
  PROVE  Outside!Admit
  <1>1. /\ step = "measure" /\ step' = "ready" /\ tree' = Stripped /\ src' = src
        /\ DOMAIN Stripped # {} /\ ~(src.form = "repo" /\ TreeSize(Stripped) > MaxTotal)
    BY DEF Measure
  <1>2. Standing \in {"upload", "repo"} /\ Standing' = "admitted"
        /\ (Standing = "repo" <=> src.form = "repo")
    BY <1>1 DEF Standing
  <1>3. /\ DOMAIN Stripped = {q \in DOMAIN tree : ~tree[q].link /\ (src.form = "repo" => q[1] # GitDir)}
        /\ \A p \in DOMAIN Stripped : Stripped[p] = tree[p]
    BY DEF Stripped
  <1>4. /\ Outside!Files(Stripped) = DOMAIN Stripped /\ Outside!Bytes(Stripped) = TreeSize(Stripped)
        /\ Outside!Linkless(Stripped)
    <2>1. \A p \in DOMAIN Stripped : ~Stripped[p].link
      BY <1>3
    <2> HIDE DEF Stripped
    <2> QED
      BY <2>1, Unlinked
  <1>5. CASE src.form = "repo"
    <2>1. IsFiniteSet(DOMAIN Stripped) /\ \A p \in DOMAIN Stripped : Stripped[p].bytes \in Nat
      BY <1>3, FS_Subset DEF IngestInv
    <2>2. TreeSize(Stripped) \in Nat
      BY <2>1, TreeIsFinite
    <2>3. TreeSize(Stripped) <= MaxTotal
      BY <1>1, <1>5, <2>2, IngestAssumption
    <2> QED
      BY <1>1, <1>2, <1>4, <1>5, <2>3 DEF Outside!Admit
  <1>6. CASE src.form # "repo"
    <2>1. Standing = "upload"
      BY <1>2, <1>6
    <2>2. Outside!Modest(tree) /\ Extracted
      BY <1>1, <1>6, <2>1, UploadIsModest DEF IngestInv
    <2>3. DOMAIN Stripped = DOMAIN tree
      BY <1>3, <1>6, <2>2 DEF Extracted
    <2>4. Stripped = tree
      BY <1>6, <2>3 DEF Stripped, IngestInv
    <2>5. Outside!Bytes(Stripped) <= MaxTotal
      BY <2>2, <2>4 DEF Outside!Modest
    <2> QED
      BY <1>1, <1>2, <1>4, <2>2, <2>4, <2>5 DEF Outside!Admit
  <1> QED
    BY <1>5, <1>6

(* Every step is one of Admission's, or changes nothing it sees.           *)
LEMMA IngestAdmits ==
  ASSUME IngestInv, IngestInv', IngestNext
  PROVE  Outside!ANext
  <1>1. CASE Fail
    <2>1. step \in {"open", "entries", "write", "clone", "measure"}
      BY <1>1 DEF IngestNext, OpenSource, SkipMember, StartMember, WriteChunk, EndMember, ReadFails,
                  EndEntries, Clone, CloneRaises, Fail, Measure
    <2> QED
      BY <1>1, <2>1, FailRefuses DEF Outside!ANext
  <1>2. CASE ~Fail /\ Measure
    BY <1>2, MeasureAdmits DEF Outside!ANext
  <1>3. CASE CloneRaises
    <2>1. Standing = "repo" /\ Standing' = "abandoned"
      BY <1>3 DEF CloneRaises, Standing
    <2> QED
      BY <2>1 DEF Outside!Abandon, Outside!ANext
  <1>4. CASE ~Fail /\ ~Measure /\ ~CloneRaises
    <2>1. /\ src' = src
          /\ step \in {"open", "entries", "write", "clone", "measure"}
          /\ step' \in {"open", "entries", "write", "clone", "measure"}
      BY <1>4 DEF IngestNext, OpenSource, SkipMember, StartMember, WriteChunk, EndMember, ReadFails,
                  EndEntries, Clone
    <2> QED
      BY <2>1, StepFills DEF Outside!ANext
  <1> QED
    BY <1>1, <1>2, <1>3, <1>4

(* A request that comes in has no tree, and may be refused at once.        *)
LEMMA BeginArrives ==
  ASSUME NEW s, IsSource(s), IngestInv, BeginIngest(s)
  PROVE  Outside!ANext
  <1>1. Standing \in {"none", "admitted", "refused", "abandoned"}
    BY DEF Standing, BeginIngest
  <1>2. Standing' \in {"upload", "repo", "refused"}
    <2>1. step' \in {"open", "clone", "refused"}
      BY DEF BeginIngest
    <2> QED
      BY <2>1 DEF Standing
  <1>3. tree' = Outside!NoTree
    BY DEF BeginIngest, Empty, Outside!NoTree
  <1> QED
    BY <1>1, <1>2, <1>3 DEF Outside!Arrive, Outside!ANext

-----------------------------------------------------------------------------
(* Endpoint.                                                               *)

EndpointSteps ==
  {"idle", "port", "banner", "header", "body", "handshake", "done", "crashed"}

Reached == host.wellNamed /\ host.allowed /\ host.up

HLen == Len(host.hello)
PLen == Len(host.packet)

(* The token of the wire in front of the buffer.                           *)
Behind == taken - Len(buffer)

(* The buffer is what was received last.                                   *)
Streamed ==
  /\ Len(buffer) <= taken /\ taken <= Len(Wire)
  /\ \A i \in 1..Len(buffer) : buffer[i] = Wire[Behind + i]

(* The greeting of a server that speaks is read line by line.              *)
Greeting ==
  \A i \in DOMAIN host.hello :
    Identifies(host.hello, i) =>
      /\ taken <= HLen
      /\ Behind < i
      /\ lines = Cardinality({j \in 1..Behind : host.hello[j] = NewLine})

(* A header was the packet's own.                                          *)
Framed ==
  /\ PLen # 0 /\ host.packet[1].is = "length"
  /\ Behind = HLen + 2
  /\ frame = [body |-> PLen - 2, padding |-> host.packet[2].n]

EndpointInv ==
  /\ estep \in EndpointSteps /\ buffer \in Seq(Range(buffer)) /\ taken \in Nat
  /\ Len(buffer) <= taken
  /\ estep # "idle" => IsHost(host)
  /\ estep \notin {"done", "idle"} => ~failed /\ found = {}
  /\ estep = "port" => taken = 0 /\ buffer = <<>> /\ lines = 0
  /\ estep = "handshake" => host.kind = "tls" /\ Reached
  /\ estep \in {"banner", "header", "body"} => host.kind = "ssh" /\ Reached /\ Streamed
  /\ estep = "banner" => lines \in Nat /\ (Speaks(host) => Greeting)
  /\ estep = "header" => Len(buffer) <= 2 /\ (Speaks(host) => Behind = HLen)
  /\ estep = "body" => Framed /\ Len(buffer) <= frame.body
  /\ EndpointAccounted

-----------------------------------------------------------------------------
(* The wire.                                                               *)

(* A sequence is one of its own elements.                                  *)
LEMMA SeqOfItsOwn == ASSUME NEW S, NEW s \in Seq(S) PROVE s \in Seq(Range(s))
  <1>1. Len(s) \in Nat /\ DOMAIN s = 1..Len(s) /\ s = [i \in 1..Len(s) |-> s[i]]
    BY LenProperties
  <1>2. \A i \in 1..Len(s) : s[i] \in Range(s)
    BY <1>1 DEF Range
  <1> QED
    BY <1>1, <1>2, IsASeq

(* The wire is the greeting with the packet behind it.                     *)
LEMMA WireIs ==
  ASSUME IsHost(host), host.kind = "ssh"
  PROVE  /\ HLen \in Nat /\ PLen \in Nat /\ host.cut \in Nat
         /\ DOMAIN host.hello = 1..HLen /\ DOMAIN host.packet = 1..PLen
         /\ Wire \in Seq(Range(Wire)) /\ Len(Wire) = HLen + PLen
         /\ \A i \in 1..(HLen + PLen) : Wire[i] = IF i <= HLen THEN host.hello[i] ELSE host.packet[i - HLen]
  <1> DEFINE S == Range(host.hello) \cup Range(host.packet)
  <1>1. host.hello \in Seq(S) /\ host.packet \in Seq(S)
    <2>1. host.hello \in Seq(Range(host.hello)) /\ host.packet \in Seq(Range(host.packet))
      BY DEF IsHost
    <2> HIDE DEF IsHost
    <2> QED
      BY <2>1
  <1>2. HLen \in Nat /\ PLen \in Nat /\ DOMAIN host.hello = 1..HLen /\ DOMAIN host.packet = 1..PLen
    BY <1>1, LenProperties DEF HLen, PLen
  <1>3. /\ Wire \in Seq(S) /\ Len(Wire) = HLen + PLen
        /\ \A i \in 1..(HLen + PLen) : Wire[i] = IF i <= HLen THEN host.hello[i] ELSE host.packet[i - HLen]
    BY <1>1, ConcatProperties DEF Wire, HLen, PLen
  <1>4. Wire \in Seq(Range(Wire))
    BY <1>3, SeqOfItsOwn
  <1> QED
    BY <1>2, <1>3, <1>4 DEF IsHost

(* A token of the packet.                                                  *)
LEMMA WireBehind ==
  ASSUME IsHost(host), host.kind = "ssh", NEW i \in 1..PLen
  PROVE  Wire[HLen + i] = host.packet[i] /\ i \in DOMAIN host.packet
  <1>1. /\ HLen \in Nat /\ PLen \in Nat /\ HLen + i \in 1..(HLen + PLen) /\ ~(HLen + i <= HLen) /\ (HLen + i) - HLen = i
        /\ DOMAIN host.packet = 1..PLen
    BY WireIs
  <1> QED
    BY <1>1, WireIs

(* Only the packet begins with a length.                                   *)
LEMMA OneLength ==
  ASSUME IsHost(host), host.kind = "ssh", NEW i \in 1..(HLen + PLen), Wire[i].is = "length"
  PROVE  i = HLen + 1 /\ PLen # 0 /\ host.packet[1].is = "length"
  <1>1. CASE i <= HLen
    <2>1. i \in 1..HLen /\ DOMAIN host.hello = 1..HLen /\ Wire[i] = host.hello[i]
      BY <1>1, WireIs
    <2>2. host.hello[i].is # "length"
      BY <2>1 DEF IsHost
    <2> QED
      BY <2>1, <2>2
  <1>2. CASE i > HLen
    <2>1. PICK k \in 1..PLen : k = i - HLen
      BY <1>2, WireIs
    <2>2. host.packet[k].is = "length" /\ k \in DOMAIN host.packet
      <3>1. Wire[i] = host.packet[k]
        BY <1>2, <2>1, WireIs
      <3> QED
        BY <3>1, <2>1, WireBehind
    <2>3. k = 1
      BY <2>2 DEF IsHost
    <2> QED
      BY <2>1, <2>2, <2>3, WireIs
  <1> QED
    BY <1>1, <1>2, WireIs

(* What has arrived is of the wire, and until it is greeted a server that  *)
(* speaks has sent its greeting.                                           *)
LEMMA ArrivedIs ==
  ASSUME IsHost(host), host.kind = "ssh"
  PROVE  /\ Arrived \in Nat /\ Arrived <= Len(Wire)
         /\ Speaks(host) /\ estep = "banner" => Arrived = HLen
         /\ Speaks(host) /\ estep \in {"header", "body"} => Arrived = Len(Wire)
  <1>1. HLen \in Nat /\ PLen \in Nat /\ host.cut \in Nat /\ Len(Wire) = HLen + PLen
    BY WireIs
  <1>2. Speaks(host) => ~host.eager /\ host.cut = HLen + PLen
    BY DEF Speaks, HLen, PLen
  <1>3. Arrived = LET sent == IF host.eager \/ estep \in {"header", "body"} THEN HLen + PLen ELSE HLen
                  IN  IF host.cut < sent THEN host.cut ELSE sent
    BY <1>1 DEF Arrived, SmallerOf, HLen
  <1> QED
    BY <1>1, <1>2, <1>3

(* What recv() returns comes behind what is there.                         *)
LEMMA Received ==
  ASSUME IsHost(host), host.kind = "ssh", host' = host, taken \in Nat,
         buffer \in Seq(Range(buffer)), Streamed, NEW n \in Int, Receive(n)
  PROVE  /\ Streamed' /\ Behind' = Behind
         /\ buffer' \in Seq(Range(buffer')) /\ Len(buffer') \in Nat
         /\ taken' \in Nat /\ taken' <= Arrived /\ Len(buffer') <= Len(buffer) + n
  <1>1. PICK k \in 1..SmallerOf(n, Arrived - taken) :
          buffer' = buffer \o SubSeq(Wire, taken + 1, taken + k) /\ taken' = taken + k
    BY DEF Receive
  <1>2. /\ HLen \in Nat /\ PLen \in Nat /\ Arrived \in Nat /\ Arrived <= HLen + PLen /\ Len(Wire) = HLen + PLen
        /\ Len(buffer) \in Nat /\ Len(buffer) <= taken
    BY WireIs, ArrivedIs, LenProperties DEF Streamed
  <1>3. k \in Nat /\ 1 <= k /\ k <= n /\ taken + k <= Arrived
    BY <1>1, <1>2 DEF SmallerOf
  <1>4. Wire' = Wire
    BY DEF Wire
  <1> DEFINE more == SubSeq(Wire, taken + 1, taken + k)
             S    == Range(buffer) \cup Range(Wire)
  <1>5. /\ more \in Seq(Range(Wire)) /\ Len(more) = k
        /\ \A i \in 1..k : more[i] = Wire[taken + i]
    <2>1. \A i \in (taken + 1)..(taken + k) : Wire[i] \in Range(Wire)
      <3>1. DOMAIN Wire = 1..(HLen + PLen)
        BY WireIs, LenProperties
      <3> QED
        BY <1>2, <1>3, <3>1 DEF Range
    <2>2. taken + 1 \in Int /\ taken + k \in Int /\ taken + 1 <= taken + k
          /\ (taken + k) - (taken + 1) + 1 = k /\ \A i \in 1..k : (taken + 1) + i - 1 = taken + i
      BY <1>3
    <2>3. /\ more \in Seq(Range(Wire)) /\ Len(more) = (taken + k) - (taken + 1) + 1
          /\ \A i \in 1..((taken + k) - (taken + 1) + 1) : more[i] = Wire[(taken + 1) + i - 1]
      BY <2>1, <2>2, SubSeqProperties
    <2> HIDE DEF more
    <2> QED
      BY <2>2, <2>3
  <1> HIDE DEF more
  <1>6. buffer \in Seq(S) /\ more \in Seq(S)
    BY <1>5
  <1> HIDE DEF S
  <1>7. /\ buffer' \in Seq(S) /\ Len(buffer') = Len(buffer) + k
        /\ \A i \in 1..(Len(buffer) + k) :
             buffer'[i] = IF i <= Len(buffer) THEN buffer[i] ELSE more[i - Len(buffer)]
    BY <1>1, <1>5, <1>6, ConcatProperties DEF more
  <1>8. buffer' \in Seq(Range(buffer'))
    BY <1>7, SeqOfItsOwn
  <1>9. taken' - Len(buffer') = taken - Len(buffer)
    BY <1>1, <1>2, <1>3, <1>7
  <1>10. ASSUME NEW i \in 1..(Len(buffer) + k)
         PROVE  buffer'[i] = Wire[(taken - Len(buffer)) + i]
    <2>1. CASE i <= Len(buffer)
      <3>1. i \in 1..Len(buffer)
        BY <1>2, <1>3, <2>1
      <3> QED
        BY <1>7, <2>1, <3>1 DEF Streamed, Behind
    <2>2. CASE i > Len(buffer)
      <3>1. i - Len(buffer) \in 1..k /\ taken + (i - Len(buffer)) = (taken - Len(buffer)) + i
            /\ ~(i <= Len(buffer))
        BY <1>2, <1>3, <2>2
      <3> QED
        BY <1>5, <1>7, <3>1
    <2> QED
      BY <1>2, <1>3, <2>1, <2>2
  <1>11. Streamed'
    <2>1. Len(buffer') <= taken' /\ taken' <= Len(Wire')
      BY <1>1, <1>2, <1>3, <1>4, <1>7
    <2>2. \A i \in 1..Len(buffer') : buffer'[i] = Wire'[(taken' - Len(buffer')) + i]
      BY <1>4, <1>7, <1>9, <1>10
    <2> QED
      BY <2>1, <2>2 DEF Streamed, Behind
  <1> QED
    <2>1. Behind' = Behind
      BY <1>9 DEF Behind
    <2>2. Len(buffer') \in Nat /\ Len(buffer') <= Len(buffer) + n
      BY <1>2, <1>3, <1>7
    <2>3. taken' \in Nat /\ taken' <= Arrived
      BY <1>1, <1>3
    <2> QED
      BY <1>8, <1>11, <2>1, <2>2, <2>3

(* What a sequence is without its first n elements.                        *)
LEMMA SuffixIs ==
  ASSUME NEW S, NEW s \in Seq(S), NEW n \in 0..Len(s)
  PROVE  /\ SubSeq(s, n + 1, Len(s)) \in Seq(S)
         /\ Len(SubSeq(s, n + 1, Len(s))) = Len(s) - n
         /\ \A i \in 1..(Len(s) - n) : SubSeq(s, n + 1, Len(s))[i] = s[n + i]
  <1>1. PICK m \in Nat : m = Len(s)
    BY LenProperties
  <1>2. n \in Int /\ n + 1 \in Int /\ m \in Int /\ n <= m /\ (n + 1 > m => n = m)
        /\ m - (n + 1) + 1 = m - n /\ \A i \in 1..(m - n) : (n + 1) + i - 1 = n + i
    BY <1>1
  <1>3. \A i \in (n + 1)..m : s[i] \in S
    <2>1. \A i \in (n + 1)..m : i \in 1..m
      BY <1>2
    <2> QED
      BY <1>1, <2>1, ElementOfSeq
  <1> DEFINE t == SubSeq(s, n + 1, m)
  <1>4. /\ t \in Seq(S) /\ Len(t) = IF n + 1 <= m THEN m - (n + 1) + 1 ELSE 0
        /\ \A i \in 1..(m - (n + 1) + 1) : t[i] = s[(n + 1) + i - 1]
    BY <1>2, <1>3, SubSeqProperties
  <1> HIDE DEF t
  <1>5. Len(t) = m - n
    BY <1>2, <1>4
  <1>6. \A i \in 1..(m - n) : t[i] = s[n + i]
    BY <1>2, <1>4
  <1> QED
    BY <1>1, <1>4, <1>5, <1>6 DEF t

(* The buffer loses tokens at its front.                                   *)
LEMMA Dropped ==
  ASSUME IsHost(host), host.kind = "ssh", host' = host, taken \in Nat, taken' = taken,
         buffer \in Seq(Range(buffer)), Streamed, NEW n \in 0..Len(buffer),
         buffer' = SubSeq(buffer, n + 1, Len(buffer))
  PROVE  /\ Streamed' /\ Behind' = Behind + n
         /\ buffer' \in Seq(Range(buffer')) /\ Len(buffer') = Len(buffer) - n
  <1>1. PICK m \in Nat : m = Len(buffer)
    BY LenProperties
  <1>2. /\ buffer' \in Seq(Range(buffer)) /\ Len(buffer') = m - n
        /\ \A i \in 1..(m - n) : buffer'[i] = buffer[n + i]
    BY <1>1, SuffixIs
  <1>3. PICK w : w = Wire /\ Len(w) = Len(Wire)
    OBVIOUS
  <1>4. m <= taken /\ taken <= Len(w) /\ \A i \in 1..m : buffer[i] = w[(taken - m) + i]
    BY <1>1, <1>3 DEF Streamed, Behind
  <1>5. Wire' = w
    BY <1>3 DEF Wire
  <1>6. /\ n \in Nat /\ n <= m /\ taken - (m - n) = (taken - m) + n
        /\ \A i \in 1..(m - n) : n + i \in 1..m /\ (taken - m) + (n + i) = (taken - (m - n)) + i
    BY <1>1
  <1>7. \A i \in 1..(m - n) : buffer'[i] = w[(taken - (m - n)) + i]
    <2> SUFFICES ASSUME NEW i \in 1..(m - n) PROVE buffer'[i] = w[(taken - (m - n)) + i]
      OBVIOUS
    <2>1. n + i \in 1..m /\ (taken - m) + (n + i) = (taken - (m - n)) + i
      BY <1>6
    <2>2. buffer'[i] = buffer[n + i]
      BY <1>2
    <2>3. buffer[n + i] = w[(taken - m) + (n + i)]
      BY <1>4, <2>1
    <2> QED
      BY <2>1, <2>2, <2>3
  <1>8. m - n <= taken
    BY <1>4, <1>6
  <1>9. Streamed'
    BY <1>2, <1>4, <1>5, <1>7, <1>8 DEF Streamed, Behind
  <1>10. buffer' \in Seq(Range(buffer'))
    BY <1>2, SeqOfItsOwn
  <1>11. Behind' = Behind + n
    BY <1>1, <1>2, <1>6 DEF Behind
  <1> QED
    BY <1>1, <1>2, <1>9, <1>10, <1>11

-----------------------------------------------------------------------------
(* The packet.                                                             *)

(* What a whole body leaves is the message the server has sent.            *)
LEMMA BodyIsMessage ==
  ASSUME IsHost(host), host.kind = "ssh", taken \in Nat, buffer \in Seq(Range(buffer)),
         Streamed, Framed, Len(buffer) = frame.body
  PROVE  Payload = Message(host.packet)
  <1>1. HLen \in Nat /\ PLen \in Nat /\ PLen >= 2 /\ host.packet \in Seq(Range(host.packet))
    <2>1. HLen \in Nat /\ PLen \in Nat
      BY WireIs
    <2>2. host.packet # <<>> /\ host.packet[1].is = "length"
      BY EmptySeq DEF Framed, PLen
    <2>3. Len(host.packet) >= 2 /\ host.packet \in Seq(Range(host.packet))
      BY <2>2 DEF IsHost
    <2> QED
      BY <2>1, <2>3 DEF PLen
  <1>2. Len(buffer) = PLen - 2 /\ Behind = HLen + 2 /\ frame.padding = host.packet[2].n
    BY DEF Framed
  <1> DEFINE body == SubSeq(host.packet, 3, PLen)
  <1>3. /\ body \in Seq(Range(host.packet)) /\ Len(body) = PLen - 2
        /\ \A i \in 1..(PLen - 2) : body[i] = host.packet[2 + i]
    <2>1. 2 \in 0..Len(host.packet)
      BY <1>1 DEF PLen
    <2> QED
      BY <1>1, <2>1, SuffixIs DEF PLen
  <1>4. \A i \in 1..(PLen - 2) : buffer[i] = host.packet[2 + i]
    <2> SUFFICES ASSUME NEW i \in 1..(PLen - 2) PROVE buffer[i] = host.packet[2 + i]
      OBVIOUS
    <2>1. 2 + i \in 1..PLen /\ (HLen + 2) + i = HLen + (2 + i)
      BY <1>1
    <2>2. buffer[i] = Wire[(HLen + 2) + i]
      BY <1>2 DEF Streamed
    <2> QED
      BY <2>1, <2>2, WireBehind
  <1>5. buffer = body
    BY <1>2, <1>3, <1>4, SeqEqual
  <1> QED
    BY <1>2, <1>5 DEF Payload, Message, PLen

(* The name-lists that are read are those that are whole.                  *)
LEMMA ListsAreRead ==
  ASSUME NEW S, NEW tokens \in Seq(S), NEW lists, HasLists(tokens, lists)
  PROVE  /\ DOMAIN NameLists(tokens) = DOMAIN lists
         /\ \A i \in DOMAIN lists : NameLists(tokens)[i].list = lists[i]
  <1> DEFINE whole == {n \in 0..Len(tokens) : \A i \in 1..n : tokens[i].is = "names"}
             longest == CHOOSE n \in whole : \A m \in whole : m <= n
  <1>1. PICK k \in Nat, l \in Nat : k = Len(lists) /\ l = Len(tokens)
    BY LenProperties DEF HasLists
  <1>2. /\ DOMAIN lists = 1..k /\ k <= l
        /\ \A i \in 1..k : tokens[i] = [is |-> "names", list |-> lists[i]]
        /\ k < l => tokens[k + 1].is # "names"
    BY <1>1, LenProperties DEF HasLists
  <1>3. k \in whole
    <2>1. k \in 0..l
      BY <1>1, <1>2
    <2>2. ASSUME NEW i \in 1..k PROVE tokens[i].is = "names"
      <3>1. PICK r : r = [is |-> "names", list |-> lists[i]]
        OBVIOUS
      <3>2. tokens[i] = r
        BY <1>2, <3>1
      <3> QED
        BY <3>1, <3>2
    <2> QED
      BY <1>1, <2>1, <2>2
  <1>4. \A n \in whole : n <= k
    <2> SUFFICES ASSUME NEW n \in whole, ~(n <= k) PROVE FALSE
      OBVIOUS
    <2>1. n \in 0..l /\ \A i \in 1..n : tokens[i].is = "names"
      BY <1>1
    <2>2. k + 1 \in 1..n /\ k < l
      BY <2>1
    <2> QED
      BY <1>2, <2>1, <2>2
  <1>5. \A n \in whole : n \in Nat
    BY <1>1
  <1> HIDE DEF whole
  <1>6. longest = k
    <2>1. longest \in whole /\ \A m \in whole : m <= longest
      BY <1>3, <1>4
    <2> HIDE DEF longest
    <2>2. k <= longest /\ longest <= k
      BY <1>3, <1>4, <2>1
    <2> QED
      BY <1>5, <2>1, <2>2
  <1>7. NameLists(tokens) = SubSeq(tokens, 1, longest)
    BY DEF NameLists, whole
  <1> HIDE DEF longest
  <1>8. NameLists(tokens) = SubSeq(tokens, 1, k)
    BY <1>6, <1>7
  <1>9. SubSeq(tokens, 1, k) = [i \in 1..k |-> tokens[i]]
    BY <1>1, <1>2
  <1>10. PICK read : read = NameLists(tokens)
    OBVIOUS
  <1>11. DOMAIN read = 1..k /\ \A i \in 1..k : read[i] = tokens[i]
    BY <1>8, <1>9, <1>10
  <1>12. ASSUME NEW i \in 1..k PROVE read[i].list = lists[i]
    <2>1. read[i] = [is |-> "names", list |-> lists[i]]
      BY <1>2, <1>11
    <2> QED
      BY <2>1
  <1> QED
    BY <1>2, <1>10, <1>11, <1>12, Zenon

(* What a name stands for, half by half.                                   *)
LEMMA HalvesAre ==
  ASSUME NEW x
  PROVE  HalvesOf(x) =
           IF x \notin DOMAIN Table THEN {}
           ELSE IF Len(Table[x]) = 1 THEN {[algorithm |-> Table[x][1], partner |-> None]}
           ELSE {[algorithm |-> Table[x][1], partner |-> Table[x][2]],
                 [algorithm |-> Table[x][2], partner |-> Table[x][1]]}
  <1>1. CASE x \notin DOMAIN Table
    BY <1>1 DEF HalvesOf, Halves, Range
  <1>2. CASE x \in DOMAIN Table
    <2>1. PICK row : row = Table[x]
      OBVIOUS
    <2>2. /\ row \in Seq(Range(row)) /\ Len(row) \in {1, 2}
          /\ Len(row) = 2 => row[1] # row[2]
      BY <1>2, <2>1, TableAssumption
    <2>3. DOMAIN row = 1..Len(row)
      BY <2>2, LenProperties
    <2>4. HalvesOf(x) = Range([i \in DOMAIN row |->
              [algorithm |-> row[i],
               partner |-> IF Len(row) < 2 THEN None ELSE CHOOSE a \in Range(row) : a # row[i]]])
      BY <1>2, <2>1 DEF HalvesOf, Halves
    <2>5. CASE Len(row) = 1
      <3>1. DOMAIN row = {1}
        BY <2>3, <2>5
      <3> QED
        BY <1>2, <2>1, <2>4, <2>5, <3>1 DEF Range
    <2>6. CASE Len(row) = 2
      <3>1. DOMAIN row = {1, 2}
        BY <2>3, <2>6
      <3>2. Range(row) = {row[1], row[2]} /\ row[1] # row[2]
        BY <2>2, <2>6, <3>1 DEF Range
      <3>3. /\ (CHOOSE a \in Range(row) : a # row[1]) = row[2]
            /\ (CHOOSE a \in Range(row) : a # row[2]) = row[1]
        BY <3>2
      <3> DEFINE f == [i \in DOMAIN row |->
              [algorithm |-> row[i],
               partner |-> IF Len(row) < 2 THEN None ELSE CHOOSE a \in Range(row) : a # row[i]]]
      <3>4. /\ DOMAIN f = {1, 2}
            /\ f[1] = [algorithm |-> row[1], partner |-> row[2]]
            /\ f[2] = [algorithm |-> row[2], partner |-> row[1]]
        <4>1. DOMAIN f = {1, 2}
          BY <3>1
        <4>2. ~(Len(row) < 2)
          BY <2>6
        <4>3. \A i \in {1, 2} : f[i] = [algorithm |-> row[i], partner |-> CHOOSE a \in Range(row) : a # row[i]]
          BY <3>1, <4>2
        <4> HIDE DEF f
        <4> QED
          BY <3>3, <4>1, <4>3
      <3> HIDE DEF f
      <3>5. Range(f) = {[algorithm |-> row[1], partner |-> row[2]], [algorithm |-> row[2], partner |-> row[1]]}
        BY <3>4 DEF Range
      <3>6. HalvesOf(x) = Range(f)
        BY <2>4 DEF f
      <3> QED
        BY <1>2, <2>1, <2>6, <3>5, <3>6
    <2> QED
      BY <2>2, <2>5, <2>6
  <1> QED
    BY <1>1, <1>2

(* The assets are what was offered.                                        *)
LEMMA AssetsAreOffered ==
  ASSUME NEW h, h.kind = "ssh", NEW read, DOMAIN read = DOMAIN h.lists,
         \A i \in DOMAIN h.lists : read[i].list = h.lists[i]
  PROVE  Assets(read) = Offered(h)
  <1> DEFINE names == UNION {Range(h.lists[i]) : i \in DOMAIN h.lists \cap UsedLists}
  <1>1. UNION {Range(read[i].list) : i \in DOMAIN read \cap UsedLists} = names
    OBVIOUS
  <1> HIDE DEF names
  <1>2. Assets(read) = UNION {HalvesOf(x) : x \in names}
    BY <1>1 DEF Assets
  <1>3. Offered(h) =
          {[algorithm |-> Table[x][1], partner |-> None] :
             x \in {y \in names \cap DOMAIN Table : Len(Table[y]) = 1}}
          \cup
          UNION {{[algorithm |-> Table[x][1], partner |-> Table[x][2]],
                  [algorithm |-> Table[x][2], partner |-> Table[x][1]]} :
                   x \in {y \in names \cap DOMAIN Table : Len(Table[y]) = 2}}
    BY DEF Offered, names
  <1>4. \A x \in DOMAIN Table : Len(Table[x]) \in {1, 2}
    BY TableAssumption
  <1>5. ASSUME NEW a \in UNION {HalvesOf(x) : x \in names}
        PROVE  a \in Offered(h)
    <2>1. PICK x \in names : a \in HalvesOf(x)
      OBVIOUS
    <2>2. x \in DOMAIN Table
      BY <2>1, HalvesAre
    <2>3. CASE Len(Table[x]) = 1
      BY <1>3, <2>1, <2>2, <2>3, HalvesAre
    <2>4. CASE Len(Table[x]) = 2
      BY <1>3, <2>1, <2>2, <2>4, HalvesAre
    <2> QED
      BY <1>4, <2>2, <2>3, <2>4
  <1>6. ASSUME NEW a \in Offered(h)
        PROVE  a \in UNION {HalvesOf(x) : x \in names}
    <2>1. PICK x \in names \cap DOMAIN Table :
            \/ Len(Table[x]) = 1 /\ a = [algorithm |-> Table[x][1], partner |-> None]
            \/ Len(Table[x]) = 2 /\ a \in {[algorithm |-> Table[x][1], partner |-> Table[x][2]],
                                           [algorithm |-> Table[x][2], partner |-> Table[x][1]]}
      BY <1>3
    <2>2. a \in HalvesOf(x)
      BY <2>1, HalvesAre
    <2> QED
      BY <2>1, <2>2
  <1> QED
    BY <1>2, <1>5, <1>6

-----------------------------------------------------------------------------
(* The greeting.                                                           *)

(* A buffer that holds a line has a first one.                             *)
LEMMA FirstLine ==
  ASSUME buffer \in Seq(Range(buffer)), HasLine
  PROVE  \E i \in DOMAIN buffer : buffer[i] = NewLine /\ \A j \in 1..(i - 1) : buffer[j] # NewLine
  <1> DEFINE Before == {p \in Nat \X Nat : p[1] < p[2]}
             ends == {i \in 1..Len(buffer) : buffer[i] = NewLine}
  <1>1. IsWellFoundedOn(Before, Nat)
    BY NatLessThanWellFounded DEF OpToRel
  <1>2. PICK m \in Nat : m = Len(buffer) /\ DOMAIN buffer = 1..m
    BY LenProperties
  <1>3. ends # {} /\ ends \subseteq Nat
    BY <1>2 DEF HasLine, Range
  <1>4. PICK i \in ends : \A j \in ends : ~(<<j, i>> \in Before)
    <2> HIDE DEF Before, ends
    <2> QED
      BY <1>1, <1>3, WFMin
  <1>5. i \in 1..m /\ buffer[i] = NewLine
    BY <1>2
  <1>6. ASSUME NEW j \in 1..(i - 1) PROVE buffer[j] # NewLine
    <2>1. j \in 1..m /\ j < i /\ i \in Nat /\ j \in Nat
      BY <1>5
    <2>2. <<j, i>> \in Before
      BY <2>1
    <2> QED
      BY <1>2, <1>4, <2>1, <2>2
  <1> QED
    BY <1>2, <1>5, <1>6

(* What is known of a server that speaks.                                  *)
LEMMA SpeakerIs ==
  ASSUME IsHost(host), host.kind = "ssh", Speaks(host)
  PROVE  /\ HLen <= MaxPacket /\ MaxPacket \in Nat /\ MaxLines \in Nat
         /\ PLen >= 2 /\ host.packet[1].is = "length" /\ host.packet[1].n = PLen - 1
         /\ host.packet[1].n \in 1..MaxPacket /\ host.packet[2].is = "padding"
         /\ Message(host.packet) # <<>> /\ Message(host.packet)[1] = [is |-> "kexinit"]
         /\ \E i \in 1..HLen : /\ Identifies(host.hello, i)
                            /\ Cardinality(LinesBefore(host.hello, i)) < MaxLines
  <1>1. Proper(host)
    BY DEF Speaks, IsHost
  <1>2. MaxPacket \in Nat /\ MaxLines \in Nat
    BY EndpointAssumption
  <1>3. HLen \in Nat /\ PLen \in Nat /\ DOMAIN host.hello = 1..HLen /\ DOMAIN host.packet = 1..PLen
    BY WireIs
  <1>4. HLen <= MaxPacket /\ host.packet[1].is = "length" /\ host.packet[1].n <= MaxPacket
        /\ Message(host.packet) # <<>> /\ Message(host.packet)[1] = [is |-> "kexinit"]
    BY <1>1 DEF Proper, HLen
  <1>5. \E i \in 1..HLen : Identifies(host.hello, i) /\ Cardinality(LinesBefore(host.hello, i)) < MaxLines
    BY <1>1, <1>3 DEF Proper
  <1>6. host.packet # <<>>
    <2>1. SUFFICES ASSUME host.packet = <<>> PROVE FALSE
      OBVIOUS
    <2>2. Len(host.packet) = 0
      BY <2>1
    <2>3. Message(host.packet) = <<>>
      <3>1. SubSeq(host.packet, 3, Len(host.packet)) = <<>>
        BY <2>2, SubSeqEmpty
      <3>2. \A p : Unpadded(<<>>, p) = <<>>
        BY SubSeqEmpty DEF Unpadded
      <3> QED
        BY <3>1, <3>2 DEF Message
    <2> QED
      BY <1>4, <2>3
  <1>7. host.packet[1].n = PLen - 1 /\ PLen >= 2 /\ host.packet[2].is = "padding"
    BY <1>4, <1>6 DEF IsHost, PLen
  <1> QED
    BY <1>2, <1>3, <1>4, <1>5, <1>7

(* A buffer that ends within the greeting lies in it.                      *)
LEMMA AsGreeted ==
  ASSUME IsHost(host), host.kind = "ssh", taken \in Nat, buffer \in Seq(Range(buffer)),
         Streamed, taken <= HLen
  PROVE  /\ Behind \in Nat /\ HLen \in Nat /\ Len(buffer) \in Nat /\ Behind + Len(buffer) = taken
         /\ DOMAIN buffer = 1..Len(buffer)
         /\ \A k \in 1..Len(buffer) : Behind + k \in 1..HLen /\ buffer[k] = host.hello[Behind + k]
  <1>1. PICK m \in Nat : m = Len(buffer) /\ DOMAIN buffer = 1..m
    BY LenProperties
  <1>2. PICK b \in Nat : b = Behind /\ b + m = taken
    <2>1. m <= taken
      BY <1>1 DEF Streamed
    <2>2. Behind = taken - m
      BY <1>1 DEF Behind
    <2> QED
      BY <2>1, <2>2
  <1>3. HLen \in Nat /\ PLen \in Nat
    BY WireIs
  <1>4. \A k \in 1..m : b + k \in 1..HLen /\ b + k \in 1..(HLen + PLen) /\ b + k <= HLen
    BY <1>2, <1>3
  <1>5. \A k \in 1..m : buffer[k] = Wire[b + k]
    BY <1>1, <1>2 DEF Streamed
  <1>6. \A k \in 1..m : buffer[k] = host.hello[b + k]
    BY <1>4, <1>5, WireIs
  <1> QED
    BY <1>1, <1>2, <1>3, <1>4, <1>6

(* The last line of the greeting is the one that identifies the server.    *)
LEMMA Identified ==
  ASSUME IsHost(host), host.kind = "ssh", NEW i \in 1..HLen, Identifies(host.hello, i)
  PROVE  /\ host.hello[i].is = "ssh" /\ host.hello[HLen] = NewLine
         /\ i > 1 => host.hello[i - 1] = NewLine
         /\ \A j \in 1..(i - 1) : host.hello[j].is # "ssh"
         /\ \A j \in i..(HLen - 1) : host.hello[j] # NewLine
  BY DEF Identifies, HLen

(* The first line in the buffer is that one, and then it is the last that  *)
(* was sent, or it is one of those before it.                              *)
LEMMA LineTaken ==
  ASSUME IsHost(host), host.kind = "ssh", taken \in Nat, lines \in Nat, MaxLines \in Nat,
         buffer \in Seq(Range(buffer)), Streamed, Greeting,
         NEW i \in 1..HLen, Identifies(host.hello, i),
         Cardinality(LinesBefore(host.hello, i)) < MaxLines,
         NEW end \in DOMAIN buffer, buffer[end] = NewLine,
         \A j \in 1..(end - 1) : buffer[j] # NewLine
  PROVE  \/ buffer[1].is = "ssh" /\ taken = HLen
         \/ /\ buffer[1].is # "ssh" /\ lines + 1 < MaxLines
            /\ end \in 1..Len(buffer) /\ Behind + end < i
            /\ lines + 1 = Cardinality({j \in 1..(Behind + end) : host.hello[j] = NewLine})
  <1>1. taken <= HLen /\ Behind < i /\ lines = Cardinality({j \in 1..Behind : host.hello[j] = NewLine})
    <2>1. DOMAIN host.hello = 1..HLen
      BY WireIs
    <2> QED
      BY <2>1 DEF Greeting
  <1> PICK hello : hello = host.hello
    OBVIOUS
  <1> PICK e : e = end
    OBVIOUS
  <1>2. PICK b \in Nat, m \in Nat, g \in Nat :
          /\ b = Behind /\ m = Len(buffer) /\ g = HLen
          /\ b + m = taken /\ e \in 1..m
          /\ \A k \in 1..m : buffer[k] = hello[b + k]
    BY <1>1, AsGreeted
  <1>3. /\ hello[i].is = "ssh" /\ hello[g] = NewLine
        /\ i > 1 => hello[i - 1] = NewLine
        /\ \A j \in 1..(i - 1) : hello[j].is # "ssh"
        /\ \A j \in i..(g - 1) : hello[j] # NewLine
    BY <1>2, Identified
  <1>4. /\ i \in 1..g /\ b < i /\ b + m <= g /\ 1 \in 1..m /\ e \in Nat /\ 1 <= e /\ e <= m
        /\ buffer[e] = NewLine /\ \A j \in 1..(e - 1) : buffer[j] # NewLine
    BY <1>1, <1>2
  <1>5. buffer[1] = hello[b + 1]
    BY <1>2, <1>4
  <1>6. CASE b + 1 = i
    <2>1. buffer[1].is = "ssh"
      BY <1>3, <1>5, <1>6
    <2>2. hello[b + e] = NewLine /\ b + e \in i..g
      BY <1>2, <1>4, <1>6
    <2>3. b + e \notin i..(g - 1)
      BY <1>3, <2>2
    <2>4. b + e = g
      BY <1>2, <1>4, <2>2, <2>3
    <2>5. taken = g
      BY <1>2, <1>4, <2>4
    <2> QED
      BY <1>2, <2>1, <2>5
  <1>7. CASE b + 1 # i
    <2>1. b + 1 \in 1..(i - 1) /\ i > 1
      BY <1>4, <1>7
    <2>2. buffer[1].is # "ssh"
      BY <1>3, <1>5, <2>1
    <2>3. b + e < i
      <3> SUFFICES ASSUME ~(b + e < i) PROVE FALSE
        OBVIOUS
      <3>1. PICK k \in Nat : k = (i - 1) - b
        BY <2>1
      <3>2. k \in 1..(e - 1) /\ k \in 1..m /\ b + k = i - 1
        <4>1. b \in Nat /\ e \in Nat /\ m \in Nat /\ e <= m /\ i \in Int /\ i <= b + e /\ b + 1 <= i - 1
          BY <1>4, <2>1
        <4> QED
          BY <3>1, <4>1
      <3>3. buffer[k] = NewLine
        BY <1>2, <1>3, <2>1, <3>2
      <3> QED
        BY <3>2, <3>3
    <2> DEFINE before == {j \in 1..b : hello[j] = NewLine}
               upTo   == {j \in 1..(b + e) : hello[j] = NewLine}
    <2>4. upTo = before \cup {b + e} /\ b + e \notin before
      <3>1. b + e \in 1..(b + e) /\ b + e \notin 1..b /\ 1..b \subseteq 1..(b + e)
        BY <1>2, <1>4
      <3>2. hello[b + e] = NewLine
        BY <1>2, <1>4
      <3>3. ASSUME NEW j \in 1..(b + e), hello[j] = NewLine, j \notin 1..b, j # b + e
            PROVE  FALSE
        <4>1. PICK k \in Int : k = j - b
          BY <3>3
        <4>2. k \in 1..(e - 1) /\ k \in 1..m /\ b + k = j
          <5>1. b \in Nat /\ e \in Nat /\ m \in Nat /\ e <= m /\ j \in Int /\ j <= b + e /\ j > b /\ j # b + e
            BY <1>4, <3>3
          <5> QED
            BY <4>1, <5>1
        <4>3. buffer[k] = NewLine
          BY <1>2, <1>4, <3>3, <4>2
        <4> QED
          BY <4>2, <4>3
      <3> QED
        BY <3>1, <3>2, <3>3
    <2>5. IsFiniteSet(before)
      <3>1. IsFiniteSet(1..b)
        BY FS_Interval
      <3> QED
        BY <3>1, FS_Subset
    <2>6. Cardinality(upTo) = lines + 1
      <3>1. Cardinality(before) = lines
        BY <1>1, <1>2
      <3> HIDE DEF before, upTo
      <3> QED
        BY <2>4, <2>5, <3>1, FS_AddElement
    <2>7. Cardinality(upTo) <= Cardinality(LinesBefore(hello, i))
      <3>1. upTo \subseteq LinesBefore(hello, i)
        BY <1>2, <2>3 DEF LinesBefore
      <3>2. IsFiniteSet(LinesBefore(hello, i))
        <4>1. IsFiniteSet(1..(i - 1))
          BY FS_Interval
        <4> QED
          BY <4>1, FS_Subset DEF LinesBefore
      <3> QED
        BY <3>1, <3>2, FS_Subset
    <2>8. lines + 1 < MaxLines
      <3>1. PICK c : c = Cardinality(LinesBefore(hello, i)) /\ c \in Nat
        <4>1. IsFiniteSet(1..(i - 1))
          BY FS_Interval
        <4>2. IsFiniteSet(LinesBefore(hello, i))
          BY <4>1, FS_Subset DEF LinesBefore
        <4> QED
          BY <4>2, FS_CardinalityType
      <3>2. lines + 1 <= c /\ c < MaxLines
        BY <1>2, <2>6, <2>7, <3>1
      <3> QED
        BY <3>1, <3>2
    <2> QED
      BY <1>2, <2>2, <2>3, <2>6, <2>8
  <1> QED
    BY <1>6, <1>7

(* While such a greeting is not whole there is more of it to come.         *)
LEMMA GreetingComes ==
  ASSUME IsHost(host), host.kind = "ssh", taken \in Nat, buffer \in Seq(Range(buffer)),
         Streamed, Speaks(host), Greeting, estep = "banner", ~HasLine
  PROVE  taken # Arrived
  <1> SUFFICES ASSUME taken = Arrived PROVE FALSE
    OBVIOUS
  <1>1. taken = HLen
    BY ArrivedIs
  <1>2. PICK i \in 1..HLen : Identifies(host.hello, i)
    BY SpeakerIs
  <1>3. Behind < i /\ taken <= HLen /\ host.hello[HLen] = NewLine
    <2>1. DOMAIN host.hello = 1..HLen
      BY WireIs
    <2> QED
      BY <1>2, <2>1, Identified DEF Greeting
  <1>4. PICK b \in Nat, m \in Nat, g \in Nat :
          /\ b = Behind /\ m = Len(buffer) /\ g = HLen /\ b + m = taken /\ DOMAIN buffer = 1..m
          /\ \A k \in 1..m : buffer[k] = host.hello[b + k]
    BY <1>3, AsGreeted
  <1>5. m \in 1..m /\ b + m = g
    BY <1>1, <1>2, <1>3, <1>4
  <1>6. buffer[m] = NewLine
    BY <1>3, <1>4, <1>5
  <1> QED
    BY <1>4, <1>5, <1>6 DEF HasLine, Range

-----------------------------------------------------------------------------
(* The steps.                                                              *)

(* While the peer is read the invariant is that of the buffer.             *)
LEMMA StillRead ==
  ASSUME IsHost(host), host.kind = "ssh", Reached, host' = host, found' = {}, ~failed',
         estep' \in {"banner", "header", "body"},
         buffer' \in Seq(Range(buffer')), taken' \in Nat, Streamed',
         estep' = "banner" => lines' \in Nat /\ (Speaks(host) => Greeting'),
         estep' = "header" => Len(buffer') <= 2 /\ (Speaks(host) => Behind' = HLen),
         estep' = "body" => Framed' /\ Len(buffer') <= frame'.body
  PROVE  EndpointInv'
  <1>1. IsHost(host)' /\ Reached' /\ (host.kind = "ssh")' /\ (Speaks(host)' <=> Speaks(host)) /\ HLen' = HLen
    BY DEF Reached, HLen
  <1>2. Len(buffer') <= taken'
    BY DEF Streamed
  <1>3. EndpointAccounted'
    BY DEF EndpointAccounted
  <1>4. estep' \in EndpointSteps
    BY DEF EndpointSteps
  <1> QED
    BY <1>1, <1>2, <1>3, <1>4, Zenon DEF EndpointInv

(* An error ends the probe of a server that does not speak.                *)
LEMMA ProbeFails ==
  ASSUME EndpointInv, FailHost, estep \notin {"done", "idle"}, ~Speaks(host)
  PROVE  EndpointInv'
  <1>1. estep' = "done" /\ failed' /\ UNCHANGED <<host, taken, buffer, found>>
    BY DEF FailHost
  <1>2. found = {} /\ IsHost(host) /\ buffer \in Seq(Range(buffer)) /\ taken \in Nat /\ Len(buffer) <= taken
    BY DEF EndpointInv
  <1>3. IsHost(host)' /\ ~Speaks(host)'
    BY <1>1, <1>2
  <1>4. EndpointAccounted'
    BY <1>1, <1>2, <1>3 DEF EndpointAccounted
  <1> QED
    BY <1>1, <1>2, <1>3, <1>4 DEF EndpointInv, EndpointSteps

(* The target is named, or the probe has crashed.                          *)
LEMMA PortKeeps == ASSUME EndpointInv, BadPort \/ RefuseHost PROVE EndpointInv'
  <1>1. estep = "port" /\ ~Speaks(host)
    BY DEF BadPort, RefuseHost, Speaks
  <1>2. CASE FailHost
    BY <1>1, <1>2, ProbeFails
  <1>3. CASE estep' = "crashed" /\ UNCHANGED <<host, taken, buffer, lines, frame, found, failed, probed>>
    <2>1. IsHost(host) /\ IsHost(host)'
      BY <1>1, <1>3 DEF EndpointInv
    <2>2. EndpointAccounted'
      BY <1>3 DEF EndpointAccounted
    <2> QED
      BY <1>1, <1>3, <2>1, <2>2 DEF EndpointInv, EndpointSteps
  <1> QED
    BY <1>2, <1>3 DEF BadPort, RefuseHost

(* A connection begins with nothing received.                              *)
LEMMA ConnectKeeps == ASSUME EndpointInv, ConnectHost PROVE EndpointInv'
  <1>1. /\ estep = "port" /\ host.wellNamed /\ host.allowed
        /\ UNCHANGED <<host, taken, buffer, lines, frame, found>>
    BY DEF ConnectHost
  <1>2. IsHost(host) /\ taken = 0 /\ buffer = <<>> /\ lines = 0 /\ found = {} /\ ~failed
    BY <1>1 DEF EndpointInv
  <1>3. buffer \in Seq(Range(buffer)) /\ Len(buffer) = 0
    BY <1>2 DEF EndpointInv
  <1>4. CASE ~host.up
    <2>1. estep' = "done" /\ failed' /\ ~Speaks(host)'
      BY <1>1, <1>4 DEF ConnectHost, Speaks
    <2>2. EndpointAccounted'
      BY <1>1, <1>2, <2>1 DEF EndpointAccounted
    <2> QED
      BY <1>1, <1>2, <1>3, <2>1, <2>2 DEF EndpointInv, EndpointSteps
  <1>5. CASE host.up /\ host.kind = "ssh"
    <2>1. estep' = "banner" /\ ~failed'
      BY <1>5 DEF ConnectHost
    <2>2. HLen \in Nat /\ Len(Wire) \in Nat
      BY <1>2, <1>5, WireIs
    <2>3. Streamed' /\ Behind' = 0
      <3>1. Len(buffer') = 0 /\ taken' = 0 /\ Len(Wire') \in Nat
        BY <1>1, <1>2, <1>3, <2>2 DEF Wire
      <3>2. 0 <= Len(Wire') /\ \A i \in 1..Len(buffer') : FALSE
        BY <3>1
      <3> QED
        BY <3>1, <3>2 DEF Streamed, Behind
    <2>4. Cardinality({j \in 1..0 : host.hello[j] = NewLine}) = 0
      <3>1. {j \in 1..0 : host.hello[j] = NewLine} = {}
        OBVIOUS
      <3> QED
        BY <3>1, FS_EmptySet
    <2>5. Greeting'
      <3>1. DOMAIN host.hello = 1..HLen
        BY <1>2, <1>5, WireIs
      <3>2. taken' = 0 /\ 0 <= HLen' /\ lines' = 0
        BY <1>1, <1>2, <2>2 DEF HLen
      <3>3. \A i \in 1..HLen : 0 < i
        OBVIOUS
      <3> QED
        BY <1>1, <2>3, <2>4, <3>1, <3>2, <3>3 DEF Greeting
    <2> QED
      BY <1>1, <1>2, <1>3, <1>5, <2>1, <2>3, <2>5, StillRead DEF Reached
  <1>6. CASE host.up /\ host.kind = "tls"
    <2>1. estep' = "handshake" /\ ~failed'
      BY <1>6 DEF ConnectHost
    <2>2. EndpointAccounted' /\ Reached' /\ IsHost(host)'
      BY <1>1, <1>2, <1>6, <2>1 DEF EndpointAccounted, Reached
    <2> QED
      BY <1>1, <1>2, <1>3, <1>6, <2>1, <2>2 DEF EndpointInv, EndpointSteps
  <1> QED
    BY <1>2, <1>4, <1>5, <1>6 DEF IsHost

(* What is known while the peer is read.                                   *)
LEMMA Reading ==
  ASSUME EndpointInv, estep \in {"banner", "header", "body"}
  PROVE  /\ IsHost(host) /\ host.kind = "ssh" /\ Reached /\ Streamed
         /\ taken \in Nat /\ buffer \in Seq(Range(buffer)) /\ Len(buffer) \in Nat
         /\ ~failed /\ found = {} /\ HLen \in Nat /\ PLen \in Nat /\ Len(Wire) = HLen + PLen
  <1>1. /\ IsHost(host) /\ host.kind = "ssh" /\ Reached /\ Streamed
        /\ taken \in Nat /\ buffer \in Seq(Range(buffer)) /\ ~failed /\ found = {}
    BY DEF EndpointInv
  <1> QED
    BY <1>1, WireIs, LenProperties

(* A server that speaks is never found silent.                             *)
LEMMA SilenceKeeps == ASSUME EndpointInv, PeerSilent PROVE EndpointInv'
  <1>1. estep \in {"banner", "header", "body"} /\ taken = Arrived /\ FailHost
    BY DEF PeerSilent
  <1>2. SUFFICES ASSUME Speaks(host) PROVE FALSE
    BY <1>1, ProbeFails
  <1>3. /\ IsHost(host) /\ host.kind = "ssh" /\ Streamed
        /\ taken \in Nat /\ buffer \in Seq(Range(buffer)) /\ Len(buffer) \in Nat
        /\ HLen \in Nat /\ PLen \in Nat /\ PLen >= 2 /\ Len(Wire) = HLen + PLen
    BY <1>1, <1>2, Reading, SpeakerIs
  <1>4. CASE estep = "banner" /\ ~HasLine
    BY <1>1, <1>2, <1>3, <1>4, GreetingComes DEF EndpointInv
  <1>5. CASE estep = "header" /\ Len(buffer) < 2
    <2>1. taken = HLen + PLen
      BY <1>1, <1>2, <1>3, <1>5, ArrivedIs
    <2>2. taken - Len(buffer) = HLen
      BY <1>2, <1>5 DEF EndpointInv, Behind
    <2> QED
      BY <1>3, <1>5, <2>1, <2>2
  <1>6. CASE estep = "body" /\ Len(buffer) < frame.body
    <2>1. taken = HLen + PLen
      BY <1>1, <1>2, <1>3, <1>6, ArrivedIs
    <2>2. taken - Len(buffer) = HLen + 2 /\ frame.body = PLen - 2
      BY <1>6 DEF EndpointInv, Framed, Behind
    <2> QED
      BY <1>3, <1>6, <2>1, <2>2
  <1> QED
    BY <1>4, <1>5, <1>6 DEF PeerSilent

(* Nor does its greeting exceed the limit.                                 *)
LEMMA BannerKeeps == ASSUME EndpointInv, RecvBanner PROVE EndpointInv'
  <1>1. /\ estep = "banner" /\ Receive(RecvSize)
        /\ UNCHANGED <<host, lines, frame, found>>
    BY DEF RecvBanner
  <1>2. /\ IsHost(host) /\ host.kind = "ssh" /\ Reached /\ Streamed
        /\ taken \in Nat /\ buffer \in Seq(Range(buffer)) /\ ~failed /\ found = {} /\ HLen \in Nat
    BY <1>1, Reading
  <1>3. RecvSize \in Int
    BY EndpointAssumption
  <1>4. /\ Streamed' /\ Behind' = Behind /\ buffer' \in Seq(Range(buffer')) /\ Len(buffer') \in Nat
        /\ taken' \in Nat /\ taken' <= Arrived
    BY <1>1, <1>2, <1>3, Received
  <1>5. lines \in Nat /\ (Speaks(host) => Greeting /\ taken' <= HLen)
    BY <1>1, <1>2, <1>4, ArrivedIs DEF EndpointInv
  <1>6. CASE Len(buffer') > MaxPacket
    <2>1. estep' = "done" /\ failed'
      BY <1>6 DEF RecvBanner
    <2>2. ~Speaks(host)
      <3> SUFFICES ASSUME Speaks(host) PROVE FALSE
        OBVIOUS
      <3>1. HLen <= MaxPacket /\ MaxPacket \in Nat
        BY <1>2, SpeakerIs
      <3>2. Len(buffer') <= taken'
        BY <1>4 DEF Streamed
      <3> QED
        BY <1>2, <1>4, <1>5, <1>6, <3>1, <3>2
    <2>3. EndpointAccounted'
      BY <1>1, <1>2, <2>1, <2>2 DEF EndpointAccounted
    <2>4. Len(buffer') <= taken'
      BY <1>4 DEF Streamed
    <2>5. IsHost(host)'
      BY <1>1, <1>2
    <2> QED
      BY <1>4, <2>1, <2>3, <2>4, <2>5 DEF EndpointInv, EndpointSteps
  <1>7. CASE ~(Len(buffer') > MaxPacket)
    <2>1. estep' = "banner" /\ ~failed'
      BY <1>1, <1>2, <1>7 DEF RecvBanner
    <2>2. ASSUME Speaks(host) PROVE Greeting'
      BY <1>1, <1>4, <1>5, <2>2 DEF Greeting, HLen
    <2> QED
      BY <1>1, <1>2, <1>4, <1>5, <2>1, <2>2, StillRead
  <1> QED
    BY <1>6, <1>7

(* A line is taken.                                                        *)
LEMMA LineKeeps == ASSUME EndpointInv, TakeLine PROVE EndpointInv'
  <1> DEFINE end == CHOOSE i \in DOMAIN buffer :
                      buffer[i] = NewLine /\ \A j \in 1..(i - 1) : buffer[j] # NewLine
  <1>1. /\ estep = "banner" /\ HasLine /\ UNCHANGED <<host, taken, frame, found>>
        /\ \/ /\ buffer[1].is = "ssh" /\ estep' = "header" /\ buffer' = <<>>
              /\ UNCHANGED <<lines, failed>>
           \/ /\ buffer[1].is # "ssh" /\ lines + 1 < MaxLines /\ lines' = lines + 1
              /\ buffer' = SubSeq(buffer, end + 1, Len(buffer))
              /\ UNCHANGED <<estep, failed>>
           \/ /\ buffer[1].is # "ssh" /\ ~(lines + 1 < MaxLines)
              /\ estep' = "done" /\ failed' = TRUE /\ UNCHANGED <<lines, buffer>>
    BY DEF TakeLine
  <1>2. /\ IsHost(host) /\ host.kind = "ssh" /\ Reached /\ Streamed
        /\ taken \in Nat /\ buffer \in Seq(Range(buffer)) /\ Len(buffer) \in Nat
        /\ ~failed /\ found = {} /\ HLen \in Nat /\ PLen \in Nat /\ Len(Wire) = HLen + PLen
    BY <1>1, Reading
  <1>3. end \in DOMAIN buffer /\ buffer[end] = NewLine /\ \A j \in 1..(end - 1) : buffer[j] # NewLine
    BY <1>1, <1>2, FirstLine
  <1> HIDE DEF end
  <1>4. lines \in Nat /\ (Speaks(host) => Greeting)
    BY <1>1 DEF EndpointInv
  <1>5. ASSUME Speaks(host)
        PROVE  \E i \in 1..HLen :
                 /\ Identifies(host.hello, i)
                 /\ \/ buffer[1].is = "ssh" /\ taken = HLen
                    \/ /\ buffer[1].is # "ssh" /\ lines + 1 < MaxLines /\ Behind + end < i
                       /\ lines + 1 = Cardinality({j \in 1..(Behind + end) : host.hello[j] = NewLine})
    <2>1. PICK i \in 1..HLen : /\ Identifies(host.hello, i)
                            /\ Cardinality(LinesBefore(host.hello, i)) < MaxLines
      BY <1>2, <1>5, SpeakerIs
    <2>2. MaxLines \in Nat
      BY EndpointAssumption
    <2> QED
      BY <1>2, <1>3, <1>4, <1>5, <2>1, <2>2, LineTaken
  <1>6. CASE buffer[1].is = "ssh" /\ estep' = "header" /\ buffer' = <<>> /\ UNCHANGED <<lines, failed>>
    <2>1. buffer' \in Seq(Range(buffer')) /\ Len(buffer') = 0
      <3>1. <<>> \in Seq({}) /\ Len(<<>>) = 0
        BY EmptySeq
      <3> QED
        BY <1>6, <3>1, SeqOfItsOwn
    <2>2. Streamed' /\ Behind' = taken
      <3>1. Wire' = Wire /\ taken' = taken
        BY <1>1 DEF Wire
      <3>2. taken <= Len(Wire)
        BY <1>2 DEF Streamed
      <3>3. 0 <= taken /\ taken - 0 = taken
        BY <1>2
      <3> QED
        BY <2>1, <3>1, <3>2, <3>3 DEF Streamed, Behind
    <2>3. Speaks(host) => taken = HLen
      BY <1>5, <1>6
    <2>4. Len(buffer') <= 2
      BY <2>1
    <2> QED
      BY <1>1, <1>2, <1>6, <2>1, <2>2, <2>3, <2>4, StillRead
  <1>7. CASE /\ buffer[1].is # "ssh" /\ lines + 1 < MaxLines /\ lines' = lines + 1
             /\ buffer' = SubSeq(buffer, end + 1, Len(buffer))
             /\ UNCHANGED <<estep, failed>>
    <2>1. end \in 0..Len(buffer)
      BY <1>2, <1>3, LenProperties
    <2>2. /\ Streamed' /\ Behind' = Behind + end /\ buffer' \in Seq(Range(buffer'))
      BY <1>1, <1>2, <1>7, <2>1, Dropped
    <2>3. ASSUME Speaks(host) PROVE Greeting'
      <3>1. PICK i \in 1..HLen :
              /\ Identifies(host.hello, i) /\ Behind + end < i
              /\ lines + 1 = Cardinality({j \in 1..(Behind + end) : host.hello[j] = NewLine})
        BY <1>5, <1>7, <2>3
      <3>2. host' = host /\ HLen' = HLen /\ taken' = taken
        BY <1>1 DEF HLen
      <3>3. \A k \in DOMAIN host.hello : Identifies(host.hello, k) => k = i
        <4>1. DOMAIN host.hello = 1..HLen
          BY <1>2, WireIs
        <4> SUFFICES ASSUME NEW k \in 1..HLen, Identifies(host.hello, k), k # i PROVE FALSE
          BY <4>1
        <4>2. /\ host.hello[i].is = "ssh" /\ \A j \in 1..(i - 1) : host.hello[j].is # "ssh"
              /\ host.hello[k].is = "ssh" /\ \A j \in 1..(k - 1) : host.hello[j].is # "ssh"
          BY <1>2, <3>1, Identified
        <4>3. i \in 1..(k - 1) \/ k \in 1..(i - 1)
          BY <1>2
        <4> QED
          BY <4>2, <4>3
      <3>4. taken <= HLen
        <4>1. i \in DOMAIN host.hello
          BY <1>2, WireIs
        <4> QED
          BY <1>4, <2>3, <3>1, <4>1 DEF Greeting
      <3> QED
        BY <1>7, <2>2, <3>1, <3>2, <3>3, <3>4 DEF Greeting
    <2>4. lines' \in Nat
      BY <1>4, <1>7
    <2> QED
      BY <1>1, <1>2, <1>7, <2>2, <2>3, <2>4, StillRead
  <1>8. CASE /\ buffer[1].is # "ssh" /\ ~(lines + 1 < MaxLines)
             /\ estep' = "done" /\ failed' = TRUE /\ UNCHANGED <<lines, buffer>>
    <2>1. ~Speaks(host)
      BY <1>5, <1>8
    <2>2. EndpointAccounted' /\ IsHost(host)'
      BY <1>1, <1>2, <1>8, <2>1 DEF EndpointAccounted
    <2>3. Len(buffer) <= taken
      BY <1>2 DEF Streamed
    <2> QED
      BY <1>1, <1>2, <1>8, <2>2, <2>3 DEF EndpointInv, EndpointSteps
  <1> QED
    BY <1>1, <1>6, <1>7, <1>8

(* The header comes in one piece or two.                                   *)
LEMMA HeaderKeeps == ASSUME EndpointInv, RecvHeader PROVE EndpointInv'
  <1>1. /\ estep = "header" /\ Len(buffer) < 2 /\ Receive(2 - Len(buffer))
        /\ UNCHANGED <<estep, failed, host, lines, frame, found>>
    BY DEF RecvHeader
  <1>2. /\ IsHost(host) /\ host.kind = "ssh" /\ Reached /\ Streamed
        /\ taken \in Nat /\ buffer \in Seq(Range(buffer)) /\ Len(buffer) \in Nat /\ ~failed /\ found = {}
    BY <1>1, Reading
  <1>3. 2 - Len(buffer) \in Int /\ Len(buffer) + (2 - Len(buffer)) = 2
    BY <1>2
  <1>4. /\ Streamed' /\ Behind' = Behind /\ buffer' \in Seq(Range(buffer')) /\ taken' \in Nat
        /\ Len(buffer') <= Len(buffer) + (2 - Len(buffer))
    BY <1>1, <1>2, <1>3, Received
  <1>5. Len(buffer') <= 2
    BY <1>3, <1>4
  <1>6. Speaks(host) => Behind = HLen
    BY <1>1 DEF EndpointInv
  <1> QED
    BY <1>1, <1>2, <1>4, <1>5, <1>6, StillRead

(* And so does the body.                                                   *)
LEMMA PieceKeeps == ASSUME EndpointInv, RecvBody PROVE EndpointInv'
  <1>1. /\ estep = "body" /\ Len(buffer) < frame.body /\ Receive(frame.body - Len(buffer))
        /\ UNCHANGED <<estep, failed, host, lines, frame, found>>
    BY DEF RecvBody
  <1>2. /\ IsHost(host) /\ host.kind = "ssh" /\ Reached /\ Streamed
        /\ taken \in Nat /\ buffer \in Seq(Range(buffer)) /\ Len(buffer) \in Nat
        /\ ~failed /\ found = {} /\ PLen \in Nat
    BY <1>1, Reading
  <1>3. Framed
    BY <1>1 DEF EndpointInv
  <1>4. frame.body - Len(buffer) \in Int /\ Len(buffer) + (frame.body - Len(buffer)) = frame.body
    <2>1. frame.body = PLen - 2
      BY <1>3 DEF Framed
    <2> QED
      BY <1>2, <2>1
  <1>5. /\ Streamed' /\ Behind' = Behind /\ buffer' \in Seq(Range(buffer')) /\ taken' \in Nat
        /\ Len(buffer') <= Len(buffer) + (frame.body - Len(buffer))
    BY <1>1, <1>2, <1>4, Received
  <1>6. Len(buffer') <= frame'.body
    BY <1>1, <1>4, <1>5
  <1>7. Framed'
    BY <1>1, <1>3, <1>5 DEF Framed, HLen, PLen
  <1> QED
    BY <1>1, <1>2, <1>5, <1>6, <1>7, StillRead

(* A length that is taken for one is the packet's own.                     *)
LEMMA LengthKeeps == ASSUME EndpointInv, ReadLength PROVE EndpointInv'
  <1>1. estep = "header" /\ Len(buffer) = 2 /\ UNCHANGED host
    BY DEF ReadLength, FailHost
  <1>2. /\ IsHost(host) /\ host.kind = "ssh" /\ Reached /\ Streamed
        /\ taken \in Nat /\ buffer \in Seq(Range(buffer))
        /\ ~failed /\ found = {} /\ HLen \in Nat /\ PLen \in Nat /\ Len(Wire) = HLen + PLen
    BY <1>1, Reading
  <1>3. PICK b \in Nat : b = Behind /\ taken = b + 2 /\ b + 2 <= HLen + PLen
    BY <1>1, <1>2 DEF Streamed, Behind
  <1>4. /\ b + 1 \in 1..(HLen + PLen) /\ b + 2 \in 1..(HLen + PLen)
        /\ buffer[1] = Wire[b + 1] /\ buffer[2] = Wire[b + 2]
    <2>1. 1 \in 1..Len(buffer) /\ 2 \in 1..Len(buffer)
      BY <1>1
    <2>2. b + 1 \in 1..(HLen + PLen) /\ b + 2 \in 1..(HLen + PLen)
      BY <1>2, <1>3
    <2> QED
      BY <1>2, <1>3, <2>1, <2>2 DEF Streamed
  <1>5. ASSUME b = HLen, PLen >= 2 PROVE buffer[1] = host.packet[1] /\ buffer[2] = host.packet[2]
    <2>1. 1 \in 1..PLen /\ 2 \in 1..PLen
      BY <1>2, <1>5
    <2> QED
      BY <1>2, <1>4, <1>5, <2>1, WireBehind
  <1>6. CASE /\ buffer[1].is = "length" /\ buffer[1].n \in 1..MaxPacket /\ buffer[2].is = "padding"
    <2>1. /\ estep' = "body" /\ buffer' = <<>> /\ UNCHANGED <<host, taken, lines, found, failed, probed>>
          /\ frame' = [body |-> buffer[1].n - 1, padding |-> buffer[2].n]
      BY <1>6 DEF ReadLength
    <2>2. b + 1 = HLen + 1 /\ PLen # 0 /\ host.packet[1].is = "length"
      BY <1>2, <1>4, <1>6, OneLength
    <2>3. PLen >= 2 /\ host.packet[1].n = PLen - 1
      <3>1. host.packet # <<>>
        BY <2>2, EmptySeq DEF PLen
      <3> QED
        BY <1>2, <2>2, <3>1 DEF IsHost, PLen
    <2>4. b = HLen
      BY <1>2, <2>2
    <2>5. frame' = [body |-> (PLen - 1) - 1, padding |-> host.packet[2].n]
      BY <1>5, <2>1, <2>3, <2>4
    <2>6. (PLen - 1) - 1 = PLen - 2 /\ 0 <= PLen - 2 /\ 0 <= taken /\ taken - 0 = HLen + 2 /\ taken <= HLen + PLen
      BY <1>2, <1>3, <2>3, <2>4
    <2>7. Len(buffer') = 0 /\ buffer' \in Seq(Range(buffer'))
      <3>1. <<>> \in Seq({}) /\ Len(<<>>) = 0
        BY EmptySeq
      <3> QED
        BY <2>1, <3>1, SeqOfItsOwn
    <2>8. Wire' = Wire /\ HLen' = HLen /\ PLen' = PLen
      BY <2>1 DEF Wire, HLen, PLen
    <2>9. Streamed' /\ Behind' = HLen + 2
      BY <1>2, <2>1, <2>6, <2>7, <2>8 DEF Streamed, Behind
    <2>10. frame'.body = PLen - 2
      BY <2>5, <2>6
    <2>11. Framed'
      BY <2>1, <2>2, <2>5, <2>6, <2>8, <2>9 DEF Framed
    <2>12. Len(buffer') <= frame'.body
      BY <2>6, <2>7, <2>10
    <2> QED
      BY <1>2, <2>1, <2>7, <2>9, <2>11, <2>12, StillRead
  <1>7. CASE ~(/\ buffer[1].is = "length" /\ buffer[1].n \in 1..MaxPacket /\ buffer[2].is = "padding")
    <2>1. FailHost
      BY <1>7 DEF ReadLength
    <2>2. ASSUME Speaks(host) PROVE FALSE
      <3>1. Behind = HLen
        BY <1>1, <2>2 DEF EndpointInv
      <3>2. /\ PLen >= 2 /\ host.packet[1].is = "length" /\ host.packet[1].n \in 1..MaxPacket
            /\ host.packet[2].is = "padding"
        BY <1>2, <2>2, SpeakerIs
      <3> QED
        BY <1>3, <1>5, <1>7, <3>1, <3>2
    <2> QED
      BY <1>1, <2>1, <2>2, ProbeFails
  <1> QED
    BY <1>6, <1>7

(* A payload is a sequence.                                                *)
LEMMA UnpaddedIs ==
  ASSUME NEW S, NEW tokens \in Seq(S), NEW padding \in Nat
  PROVE  Unpadded(tokens, padding) \in Seq(S)
  <1>1. PICK n \in Int : n <= Len(tokens) /\ Unpadded(tokens, padding) = SubSeq(tokens, 1, n)
    <2>1. PICK m \in Nat : m = Len(tokens)
      BY LenProperties
    <2>2. m - padding \in Int /\ m - padding <= m
          /\ 2 * m - padding \in Int /\ (~(padding <= m) => 2 * m - padding <= m)
      BY <2>1
    <2> QED
      BY <2>1, <2>2 DEF Unpadded
  <1>2. \A i \in 1..n : tokens[i] \in S
    <2>1. \A i \in 1..n : i \in 1..Len(tokens)
      BY <1>1, LenProperties
    <2> QED
      BY <2>1, ElementOfSeq
  <1> QED
    BY <1>1, <1>2, SubSeqProperties

(* What a whole packet is read as is what the server has offered.          *)
LEMMA PacketKeeps == ASSUME EndpointInv, ParsePacket PROVE EndpointInv'
  <1>1. estep = "body" /\ Len(buffer) = frame.body
    BY DEF ParsePacket
  <1>2. /\ IsHost(host) /\ host.kind = "ssh" /\ Reached /\ Streamed
        /\ taken \in Nat /\ buffer \in Seq(Range(buffer)) /\ ~failed /\ found = {}
        /\ Framed /\ HLen \in Nat /\ PLen \in Nat
    BY <1>1, Reading DEF EndpointInv
  <1>3. Payload = Message(host.packet)
    BY <1>1, <1>2, BodyIsMessage
  <1>4. CASE Payload = <<>> \/ Payload[1] # [is |-> "kexinit"]
    <2>1. FailHost
      BY <1>4 DEF ParsePacket
    <2>2. ~Speaks(host)
      BY <1>2, <1>3, <1>4, SpeakerIs
    <2> QED
      BY <1>1, <2>1, <2>2, ProbeFails
  <1>5. CASE ~(Payload = <<>> \/ Payload[1] # [is |-> "kexinit"])
    <2>1. /\ estep' = "done" /\ found' = Assets(NameLists(Tail(Payload)))
          /\ UNCHANGED <<host, taken, buffer, lines, frame, failed, probed>>
      BY <1>5 DEF ParsePacket
    <2>2. host.packet # <<>> /\ host.packet[1].is = "length"
      BY <1>2, EmptySeq DEF Framed, PLen
    <2>3. host.packet[2].n \in Nat /\ HasLists(Tail(Payload), host.lists)
      BY <1>2, <1>3, <1>5, <2>2 DEF IsHost
    <2>4. Payload \in Seq(Range(buffer))
      BY <1>2, <2>3, UnpaddedIs DEF Payload, Framed
    <2>5. Tail(Payload) \in Seq(Range(buffer))
      BY <1>5, <2>4, HeadTailProperties
    <2>6. found' = Offered(host)
      <3>1. /\ DOMAIN NameLists(Tail(Payload)) = DOMAIN host.lists
            /\ \A i \in DOMAIN host.lists : NameLists(Tail(Payload))[i].list = host.lists[i]
        BY <2>3, <2>5, ListsAreRead
      <3> PICK read : read = NameLists(Tail(Payload))
        OBVIOUS
      <3>2. DOMAIN read = DOMAIN host.lists /\ \A i \in DOMAIN host.lists : read[i].list = host.lists[i]
        BY <3>1, Zenon
      <3>3. Assets(read) = Offered(host)
        BY <1>2, <3>2, AssetsAreOffered
      <3> QED
        BY <2>1, <3>3
    <2>7. EndpointAccounted' /\ IsHost(host)'
      BY <1>2, <2>1, <2>6 DEF EndpointAccounted
    <2>8. Len(buffer) <= taken
      BY <1>2 DEF Streamed
    <2> QED
      BY <1>2, <2>1, <2>7, <2>8 DEF EndpointInv, EndpointSteps
  <1> QED
    BY <1>4, <1>5

(* A handshake reports what was negotiated.                                *)
LEMMA HandshakeKeeps == ASSUME EndpointInv, Handshake PROVE EndpointInv'
  <1>1. estep = "handshake" /\ estep' = "done" /\ UNCHANGED <<host, taken, buffer>>
    BY DEF Handshake
  <1>2. /\ IsHost(host) /\ host.kind = "tls" /\ ~failed /\ found = {}
        /\ buffer \in Seq(Range(buffer)) /\ taken \in Nat /\ Len(buffer) <= taken
    BY <1>1 DEF EndpointInv
  <1>3. CASE host.answers
    <2>1. found' = Offered(host) /\ ~failed'
      BY <1>2, <1>3 DEF Handshake, Offered
    <2>2. EndpointAccounted' /\ IsHost(host)'
      BY <1>1, <1>2, <2>1 DEF EndpointAccounted
    <2> QED
      BY <1>1, <1>2, <2>2 DEF EndpointInv, EndpointSteps
  <1>4. CASE ~host.answers
    <2>1. found' = {} /\ failed' /\ ~Speaks(host)
      BY <1>2, <1>4 DEF Handshake, Speaks
    <2>2. EndpointAccounted' /\ IsHost(host)'
      BY <1>1, <1>2, <2>1 DEF EndpointAccounted
    <2> QED
      BY <1>1, <1>2, <2>2 DEF EndpointInv, EndpointSteps
  <1> QED
    BY <1>3, <1>4

-----------------------------------------------------------------------------
(* Every step of the probe keeps the invariant.                            *)
LEMMA EndpointKeeps == ASSUME EndpointInv, EndpointNext PROVE EndpointInv'
  BY PortKeeps, ConnectKeeps, SilenceKeeps, BannerKeeps, LineKeeps, HeaderKeeps, LengthKeeps,
     PieceKeeps, PacketKeeps, HandshakeKeeps DEF EndpointNext

(* It holds of no host.                                                    *)
LEMMA NoHostYet == ASSUME EndpointInit PROVE EndpointInv
  <1>1. <<>> \in Seq(Range(<<>>)) /\ Len(<<>>) = 0
    BY EmptySeq, SeqOfItsOwn
  <1>2. taken = 0 /\ buffer = <<>> /\ lines = 0 /\ found = {} /\ ~failed /\ estep = "idle"
    BY DEF EndpointInit
  <1>3. EndpointAccounted
    BY <1>2 DEF EndpointAccounted
  <1> QED
    BY <1>1, <1>2, <1>3 DEF EndpointInv, EndpointSteps

(* And of one that is begun.                                               *)
LEMMA HostBegun ==
  ASSUME NEW begin \in {"idle", "port"}, NEW h, StartHost(begin, h), begin = "port" => IsHost(h)
  PROVE  EndpointInv'
  <1>1. <<>> \in Seq(Range(<<>>)) /\ Len(<<>>) = 0
    BY EmptySeq, SeqOfItsOwn
  <1>2. taken' = 0 /\ buffer' = <<>> /\ lines' = 0 /\ found' = {} /\ ~failed'
        /\ estep' = begin /\ host' = h
    BY DEF StartHost
  <1>3. EndpointAccounted'
    BY <1>2 DEF EndpointAccounted
  <1> QED
    BY <1>1, <1>2, <1>3 DEF EndpointInv, EndpointSteps
=============================================================================
