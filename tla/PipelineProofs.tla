--------------------------- MODULE PipelineProofs ---------------------------
(***************************************************************************)
(* Proofs about modules Inventory and Pipeline, for any findings: an       *)
(* invariant of merge(), from which EvidenceAccounted and                  *)
(* AbsorptionKeepsSizeAndPlace follow; what is related by position stays   *)
(* related by identity, through relocation, attribution and the merge;     *)
(* what is exported is a valid document; and the worklist of the radius    *)
(* ends with what is below a certificate.                                  *)
(*                                                                         *)
(* The lemmas are about one step each; CollectProofs makes theorems of     *)
(* CollectSpec of them.                                                    *)
(***************************************************************************)
EXTENDS Pipeline, SequenceTheorems, WellFoundedInduction, TLAPS

(* Every non-empty set of numbers has a least one, which is what induction *)
(* is done with here.                                                      *)
LEMMA LeastNumber ==
  ASSUME NEW S \in SUBSET Nat, S # {}
  PROVE  \E i \in S : \A j \in S : i <= j
  <1> DEFINE Before == {p \in Nat \X Nat : p[1] < p[2]}
  <1>1. IsWellFoundedOn(Before, Nat)
    BY NatLessThanWellFounded DEF OpToRel
  <1> HIDE DEF Before
  <1>2. PICK i \in S : \A j \in S : ~(<<j, i>> \in Before)
    BY <1>1, WFMin
  <1>3. ASSUME NEW j \in S
        PROVE  i <= j
    <2>1. ~(<<j, i>> \in Before) /\ i \in Nat /\ j \in Nat
      BY <1>2
    <2>2. ~(j < i)
      BY <2>1 DEF Before
    <2> QED
      BY <2>1, <2>2
  <1> QED
    BY <1>3

(* Every non-empty bounded set of numbers has a greatest one.              *)
LEMMA GreatestNumber ==
  ASSUME NEW n \in Nat, NEW S \in SUBSET (1..n), S # {}
  PROVE  \E i \in S : \A j \in S : j <= i
  <1> DEFINE Bounds == {m \in Nat : \A j \in S : j <= m}
  <1>1. n \in Bounds /\ Bounds \in SUBSET Nat
    OBVIOUS
  <1>2. PICK i \in Bounds : \A m \in Bounds : i <= m
    <2> HIDE DEF Bounds
    <2> QED
      BY <1>1, LeastNumber
  <1>3. i \in S
    <2> SUFFICES ASSUME i \notin S
                 PROVE  FALSE
      OBVIOUS
    <2>1. \A j \in S : j \in Nat /\ j <= i /\ j # i /\ j >= 1
      BY <1>2
    <2>2. i \in Nat /\ i >= 1
      <3>1. PICK j \in S : TRUE
        OBVIOUS
      <3> QED
        BY <1>2, <2>1, <3>1
    <2>3. i - 1 \in Bounds
      BY <2>1, <2>2
    <2> QED
      BY <1>2, <2>2, <2>3
  <1> QED
    BY <1>2, <1>3

-----------------------------------------------------------------------------
(* The identity of a finding.                                              *)

(* Findings with one identity agree on what it is made of.                 *)
LEMMA IdentityTells ==
  ASSUME NEW a, NEW b, IdentityKey(a) = IdentityKey(b), a.cert = None
  PROVE  /\ b.cert = None /\ a.name = b.name /\ a.size = b.size /\ a.params = b.params
         /\ a.lib = b.lib
         /\ a.lib = None => a.place = b.place
  BY DEF IdentityKey

(* All of a row but its evidence, and the call site's provider, which the  *)
(* first finding keeps.                                                    *)
Alike(a, b) ==
  /\ a.name = b.name /\ a.kind = b.kind /\ a.size = b.size /\ a.params = b.params
  /\ a.lib = b.lib /\ a.place = b.place /\ a.cert = b.cert

(* What is alike has one identity.                                         *)
LEMMA AlikeIdentity ==
  ASSUME NEW a, NEW b, Alike(a, b)
  PROVE  IdentityKey(a) = IdentityKey(b)
  BY DEF Alike, IdentityKey

-----------------------------------------------------------------------------
(* The invariant.  Met are the findings that pass 1 is done with, and      *)
(* Inherited is the evidence of those that are in a row now.               *)
Met == IF mstep = "identity" THEN {i \in DOMAIN raw : i < nth} ELSE DOMAIN raw
MembersOf(k) == {i \in Met : RowOf(i) = k}
Inherited(k) == UNION {raw[i].ev : i \in MembersOf(k)}

MergePosition == IF mstep = "identity" THEN nth \in 1..(Len(raw) + 1) ELSE nth \in 1..(Len(order) + 1)

MergeStepped == mstep \in {"identity", "absorb", "done"}

FoundAssets == raw \in Seq(Asset)

(* The rows are one for each identity met, in the order they were met, and *)
(* each is its first finding but for the evidence.                         *)
RowsAreIdentities ==
  /\ DOMAIN rows = {IdentityKey(raw[i]) : i \in Met}
  /\ \A k \in DOMAIN rows :
       rows[k] \in Asset /\ \E i \in Met : IdentityKey(raw[i]) = k /\ Alike(rows[k], raw[i])

OrderListsRows ==
  /\ order \in Seq(DOMAIN rows)
  /\ \A k \in DOMAIN rows : \E j \in DOMAIN order : order[j] = k
  /\ \A i, j \in DOMAIN order : order[i] = order[j] => i = j

(* Where the identities lead: to a row that leads to itself, and if to     *)
(* another row, then from one without a size to one with, of the same      *)
(* algorithm, library and place.                                           *)
RemapLeadsToRows ==
  /\ DOMAIN remap = DOMAIN rows
  /\ \A k \in DOMAIN rows : remap[k] \in DOMAIN rows /\ remap[remap[k]] = remap[k]

OnlyTwinsAbsorb ==
  \A k \in DOMAIN rows :
    remap[k] # k => /\ Unsized(rows[k]) /\ rows[remap[k]].size # None
                    /\ AbsorptionKey(rows[k]) = AbsorptionKey(rows[remap[k]])

(* How far each pass has come.                                             *)
MergeProgress ==
  /\ mstep = "identity" => kept = {} /\ edges = {} /\ \A k \in DOMAIN rows : remap[k] = k
  /\ mstep = "absorb" =>
       /\ edges = {}
       /\ \A j \in DOMAIN order : j >= nth => remap[order[j]] = order[j]
       /\ kept = {order[j] : j \in {i \in DOMAIN order : i < nth /\ remap[order[i]] = order[i]}}
  /\ mstep = "done" => kept = {k \in DOMAIN rows : remap[k] = k}

(* The evidence of a row that leads to itself is that of its findings.     *)
EvidenceFollows == \A k \in DOMAIN rows : remap[k] = k => rows[k].ev = Inherited(k)

MergeInv ==
  /\ FoundAssets /\ MergeStepped /\ MergePosition
  /\ RowsAreIdentities /\ OrderListsRows
  /\ RemapLeadsToRows /\ OnlyTwinsAbsorb
  /\ MergeProgress /\ EvidenceFollows

(* merge() has not started: any findings may be there.                     *)
Unmerged ==
  /\ mstep = "identity" /\ nth = 1
  /\ DOMAIN rows = {} /\ order = <<>> /\ DOMAIN remap = {}
  /\ kept = {} /\ edges = {}

(* Before the first row everything holds, whatever was found.              *)
LEMMA UnmergedHolds ==
  FoundAssets /\ Unmerged => MergeInv
  <1> SUFFICES ASSUME FoundAssets, Unmerged
               PROVE  MergeInv
    OBVIOUS
  <1>1. Met = {}
    BY LenProperties DEF Met, Unmerged, FoundAssets
  <1>2. MergePosition
    BY LenProperties DEF MergePosition, Unmerged, FoundAssets
  <1>3. RowsAreIdentities
    BY <1>1 DEF RowsAreIdentities, Unmerged
  <1>4. OrderListsRows
    BY DEF OrderListsRows, Unmerged
  <1> QED
    BY <1>1, <1>2, <1>3, <1>4
       DEF MergeInv, Unmerged, MergeStepped, RemapLeadsToRows, OnlyTwinsAbsorb, MergeProgress, EvidenceFollows

-----------------------------------------------------------------------------
(* Pass 1.                                                                 *)

(* Pass 1 comes to the next finding.                                       *)
LEMMA NextIsMet ==
  ASSUME MergeInv, mstep = "identity", nth \in DOMAIN raw,
         UNCHANGED <<raw, mstep>>, nth' = nth + 1
  PROVE  /\ nth \in Nat /\ nth \notin Met /\ Met' = Met \cup {nth} /\ Met \subseteq DOMAIN raw
         /\ raw[nth] \in Asset /\ FoundAssets' /\ MergeStepped' /\ MergePosition'
         /\ \A i \in Met : IdentityKey(raw[i]) \in DOMAIN rows
  <1>1. DOMAIN raw = 1..Len(raw) /\ Len(raw) \in Nat /\ \A i \in DOMAIN raw : raw[i] \in Asset
    BY DEF MergeInv, FoundAssets
  <1> QED
    BY <1>1 DEF MergeInv, FoundAssets, MergeStepped, MergePosition, Met, RowsAreIdentities

(* A key not seen before: the finding is a row, with its own evidence.     *)
LEMMA InsertRowKeeps ==
  ASSUME MergeInv, InsertRow
  PROVE  MergeInv'
  <1>0. PICK n, k : n = nth /\ k = IdentityKey(raw[nth])
    OBVIOUS
  <1>1. /\ mstep = "identity" /\ n \in DOMAIN raw /\ nth' = nth + 1 /\ n = nth
        /\ UNCHANGED <<raw, mstep, kept, edges>>
        /\ k \notin DOMAIN rows /\ order' = Append(order, k)
        /\ DOMAIN rows' = DOMAIN rows \cup {k} /\ rows'[k] = raw[n]
        /\ \A q \in DOMAIN rows : rows'[q] = rows[q]
        /\ DOMAIN remap' = DOMAIN remap \cup {k} /\ remap'[k] = k
        /\ \A q \in DOMAIN remap \ {k} : remap'[q] = remap[q]
    BY <1>0 DEF InsertRow, Extend
  <1>2. /\ n \in Nat /\ n \notin Met /\ Met' = Met \cup {n} /\ Met \subseteq DOMAIN raw
        /\ raw[n] \in Asset /\ FoundAssets' /\ MergeStepped' /\ MergePosition'
        /\ \A i \in Met : IdentityKey(raw[i]) \in DOMAIN rows
    BY <1>0, <1>1, NextIsMet
  <1>3. RowsAreIdentities'
    <2>1. DOMAIN rows' = {IdentityKey(raw'[i]) : i \in Met'}
      BY <1>0, <1>1, <1>2 DEF MergeInv, RowsAreIdentities
    <2>2. IdentityKey(raw'[n]) = k /\ Alike(rows'[k], raw'[n]) /\ rows'[k] \in Asset
      BY <1>0, <1>1, <1>2 DEF Alike
    <2>3. \A q \in DOMAIN rows :
            rows'[q] \in Asset /\ \E i \in Met' : IdentityKey(raw'[i]) = q /\ Alike(rows'[q], raw'[i])
      BY <1>1, <1>2 DEF MergeInv, RowsAreIdentities
    <2> QED
      BY <1>1, <1>2, <2>1, <2>2, <2>3 DEF RowsAreIdentities
  <1>4. OrderListsRows'
    <2>1. /\ order \in Seq(DOMAIN rows') /\ Len(order) \in Nat /\ DOMAIN order = 1..Len(order)
          /\ \A j \in DOMAIN order : order[j] \in DOMAIN rows
      BY <1>1, SeqMonotonic, LenProperties DEF MergeInv, OrderListsRows
    <2>2. /\ order' \in Seq(DOMAIN rows') /\ Len(order') = Len(order) + 1
          /\ \A j \in DOMAIN order : order'[j] = order[j]
          /\ order'[Len(order) + 1] = k /\ DOMAIN order' = DOMAIN order \cup {Len(order) + 1}
      BY <1>1, <2>1, AppendProperties
    <2>3. \A q \in DOMAIN rows' : \E j \in DOMAIN order' : order'[j] = q
      BY <1>1, <2>1, <2>2 DEF MergeInv, OrderListsRows
    <2>4. \A i, j \in DOMAIN order' : order'[i] = order'[j] => i = j
      BY <1>1, <2>1, <2>2 DEF MergeInv, OrderListsRows
    <2> QED
      BY <2>2, <2>3, <2>4 DEF OrderListsRows
  <1>5. \A q \in DOMAIN rows' : remap'[q] = q
    BY <1>1 DEF MergeInv, MergeProgress, RemapLeadsToRows
  <1>6. RemapLeadsToRows' /\ OnlyTwinsAbsorb' /\ MergeProgress'
    BY <1>1, <1>5 DEF MergeInv, RemapLeadsToRows, OnlyTwinsAbsorb, MergeProgress
  <1>7. ASSUME NEW q \in DOMAIN rows'
        PROVE  rows'[q].ev = Inherited(q)'
    <2>1. \A i \in Met : RowOf(i)' = RowOf(i) /\ RowOf(i) = IdentityKey(raw[i]) /\ RowOf(i) # k
      BY <1>1, <1>2 DEF RowOf, MergeInv, MergeProgress, RemapLeadsToRows
    <2>2. RowOf(n)' = k
      BY <1>0, <1>1 DEF RowOf
    <2>3. CASE q = k
      <3>1. MembersOf(k)' = {n}
        BY <1>2, <2>1, <2>2 DEF MembersOf
      <3> QED
        BY <1>1, <2>3, <3>1 DEF Inherited
    <2>4. CASE q \in DOMAIN rows
      <3>1. MembersOf(q)' = MembersOf(q)
        BY <1>1, <1>2, <2>1, <2>2, <2>4 DEF MembersOf
      <3> QED
        BY <1>1, <2>4, <3>1 DEF Inherited, MergeInv, EvidenceFollows, MergeProgress
    <2> QED
      BY <1>1, <2>3, <2>4
  <1> QED
    BY <1>2, <1>3, <1>4, <1>6, <1>7 DEF MergeInv, EvidenceFollows

(* A row keeps what it is when only its evidence grows.                    *)
LEMMA EvidenceOnly ==
  ASSUME NEW a \in Asset, NEW more \in SUBSET (Places \X Methods)
  PROVE  LET b == [a EXCEPT !.ev = @ \cup more] IN
         b \in Asset /\ Alike(b, a) /\ b.ev = a.ev \cup more
  BY DEF Asset, Alike

(* A key already there: the row has the finding's evidence as well.        *)
LEMMA MergeRowKeeps ==
  ASSUME MergeInv, MergeRow
  PROVE  MergeInv'
  <1>0. PICK n, k : n = nth /\ k = IdentityKey(raw[nth])
    OBVIOUS
  <1>1. /\ mstep = "identity" /\ n \in DOMAIN raw /\ nth' = nth + 1 /\ n = nth
        /\ UNCHANGED <<raw, mstep, order, remap, kept, edges>>
        /\ k \in DOMAIN rows /\ rows' = [rows EXCEPT ![k].ev = @ \cup raw[n].ev]
    BY <1>0 DEF MergeRow
  <1>2. /\ n \in Nat /\ n \notin Met /\ Met' = Met \cup {n} /\ Met \subseteq DOMAIN raw
        /\ raw[n] \in Asset /\ FoundAssets' /\ MergeStepped' /\ MergePosition'
        /\ \A i \in Met : IdentityKey(raw[i]) \in DOMAIN rows
    BY <1>0, <1>1, NextIsMet
  <1>3. /\ DOMAIN rows' = DOMAIN rows
        /\ \A q \in DOMAIN rows \ {k} : rows'[q] = rows[q]
        /\ rows'[k] = [rows[k] EXCEPT !.ev = @ \cup raw[n].ev]
    BY <1>1
  <1>4. rows[k] \in Asset /\ raw[n].ev \in SUBSET (Places \X Methods)
    BY <1>1, <1>2 DEF MergeInv, RowsAreIdentities, Asset
  <1>5. rows'[k] \in Asset /\ Alike(rows'[k], rows[k]) /\ rows'[k].ev = rows[k].ev \cup raw[n].ev
    BY <1>3, <1>4, EvidenceOnly
  <1>6. \A q \in DOMAIN rows : rows'[q] \in Asset /\ Alike(rows'[q], rows[q])
    BY <1>3, <1>5 DEF Alike, MergeInv, RowsAreIdentities
  <1>7. RowsAreIdentities'
    <2>1. DOMAIN rows' = {IdentityKey(raw'[i]) : i \in Met'}
      BY <1>0, <1>1, <1>2, <1>3 DEF MergeInv, RowsAreIdentities
    <2>2. ASSUME NEW q \in DOMAIN rows
          PROVE  \E i \in Met' : IdentityKey(raw'[i]) = q /\ Alike(rows'[q], raw'[i])
      <3>1. PICK i \in Met : IdentityKey(raw[i]) = q /\ Alike(rows[q], raw[i])
        BY DEF MergeInv, RowsAreIdentities
      <3> QED
        BY <1>1, <1>2, <1>6, <3>1 DEF Alike
    <2> QED
      BY <1>3, <1>6, <2>1, <2>2 DEF RowsAreIdentities
  <1>8. OrderListsRows' /\ RemapLeadsToRows' /\ MergeProgress'
    BY <1>1, <1>3 DEF MergeInv, OrderListsRows, RemapLeadsToRows, MergeProgress
  <1>9. OnlyTwinsAbsorb'
    BY <1>1, <1>3 DEF OnlyTwinsAbsorb, MergeInv, MergeProgress
  <1>10. ASSUME NEW q \in DOMAIN rows
         PROVE  rows'[q].ev = Inherited(q)'
    <2>1. \A i \in Met \cup {n} : RowOf(i)' = RowOf(i)
      BY <1>1 DEF RowOf
    <2>2. RowOf(n) = k
      BY <1>0, <1>1 DEF RowOf, MergeInv, MergeProgress
    <2>3. rows[q].ev = Inherited(q)
      BY <1>1 DEF MergeInv, EvidenceFollows, MergeProgress
    <2>4. CASE q = k
      <3>1. MembersOf(k)' = MembersOf(k) \cup {n}
        BY <1>2, <2>1, <2>2 DEF MembersOf
      <3>2. Inherited(k)' = Inherited(k) \cup raw[n].ev
        BY <1>1, <3>1 DEF Inherited
      <3> QED
        BY <1>5, <2>3, <2>4, <3>2
    <2>5. CASE q # k
      <3>1. MembersOf(q)' = MembersOf(q)
        BY <1>2, <2>1, <2>2, <2>5 DEF MembersOf
      <3> QED
        BY <1>1, <1>3, <2>3, <2>5, <3>1 DEF Inherited
    <2> QED
      BY <2>4, <2>5
  <1> QED
    BY <1>2, <1>3, <1>7, <1>8, <1>9, <1>10 DEF MergeInv, EvidenceFollows

(* When pass 1 is over, all findings are met.                              *)
LEMMA EndPass1Keeps ==
  ASSUME MergeInv, EndPass1
  PROVE  MergeInv'
  <1>1. /\ mstep = "identity" /\ nth \notin DOMAIN raw /\ mstep' = "absorb" /\ nth' = 1
        /\ UNCHANGED <<raw, rows, order, remap, kept, edges>>
    BY DEF EndPass1
  <1>2. DOMAIN raw = 1..Len(raw) /\ Len(raw) \in Nat /\ Len(order) \in Nat /\ DOMAIN order = 1..Len(order)
    BY LenProperties DEF MergeInv, FoundAssets, OrderListsRows
  <1>3. Met' = Met /\ Met = DOMAIN raw
    BY <1>1, <1>2 DEF Met, MergeInv, MergePosition
  <1>4. \A k : Inherited(k)' = Inherited(k)
    BY <1>1, <1>3 DEF Inherited, MembersOf, RowOf
  <1>5. FoundAssets' /\ MergeStepped' /\ MergePosition' /\ OrderListsRows' /\ RemapLeadsToRows' /\ OnlyTwinsAbsorb'
    BY <1>1, <1>2 DEF MergeInv, FoundAssets, MergeStepped, MergePosition, OrderListsRows, RemapLeadsToRows,
                      OnlyTwinsAbsorb
  <1>6. RowsAreIdentities'
    BY <1>1, <1>3 DEF MergeInv, RowsAreIdentities
  <1>7. MergeProgress'
    <2>1. \A j \in DOMAIN order : order[j] \in DOMAIN rows /\ ~(j < 1)
      BY <1>2 DEF MergeInv, OrderListsRows
    <2> QED
      BY <1>1, <2>1 DEF MergeInv, MergeProgress
  <1> QED
    BY <1>1, <1>4, <1>5, <1>6, <1>7 DEF MergeInv, EvidenceFollows

-----------------------------------------------------------------------------
(* Pass 2.                                                                 *)

(* A row's twin is a row with a size, of its absorption key.               *)
LEMMA TwinIsSized ==
  ASSUME MergeInv, NEW k \in DOMAIN rows, Twins(k) # {}
  PROVE  /\ Twin(k) \in DOMAIN rows /\ rows[Twin(k)].size # None
         /\ AbsorptionKey(rows[Twin(k)]) = AbsorptionKey(rows[k])
  <1>1. Len(order) \in Nat /\ DOMAIN order = 1..Len(order) /\ \A j \in DOMAIN order : order[j] \in DOMAIN rows
    BY LenProperties DEF MergeInv, OrderListsRows
  <1>2. Twins(k) \in SUBSET (1..Len(order))
    BY <1>1 DEF Twins
  <1>3. \E j \in Twins(k) : \A i \in Twins(k) : i <= j
    BY <1>1, <1>2, GreatestNumber
  <1>4. (CHOOSE j \in Twins(k) : \A i \in Twins(k) : i <= j) \in Twins(k)
    BY <1>3
  <1>5. PICK j \in Twins(k) : Twin(k) = order[j]
    BY <1>4 DEF Twin
  <1> QED
    BY <1>1, <1>2, <1>5 DEF Twins

(* The row that a twin takes in: nothing else led to it, so its evidence   *)
(* and its findings are the twin's now.                                    *)
LEMMA AbsorbRowKeeps ==
  ASSUME MergeInv, AbsorbRow
  PROVE  MergeInv'
  <1>0. PICK n, k, t : n = nth /\ k = order[nth] /\ t = Twin(k)
    OBVIOUS
  <1>1. /\ mstep = "absorb" /\ n = nth /\ n \in DOMAIN order /\ nth' = n + 1 /\ k = order[n]
        /\ UNCHANGED <<raw, mstep, order, kept, edges>>
        /\ Unsized(rows[k]) /\ Twins(k) # {} /\ t # k
        /\ rows' = [rows EXCEPT ![t].ev = @ \cup rows[k].ev]
        /\ remap' = [x \in DOMAIN remap |-> IF remap[x] = k THEN t ELSE remap[x]]
    BY <1>0 DEF AbsorbRow, Absorbed
  <1>2. /\ Len(order) \in Nat /\ DOMAIN order = 1..Len(order) /\ n \in Nat
        /\ \A j \in DOMAIN order : order[j] \in DOMAIN rows
        /\ \A i, j \in DOMAIN order : order[i] = order[j] => i = j
    BY <1>1, LenProperties DEF MergeInv, OrderListsRows
  <1>3. k \in DOMAIN rows /\ remap[k] = k
    BY <1>1, <1>2 DEF MergeInv, MergeProgress
  <1>4. t \in DOMAIN rows /\ rows[t].size # None /\ AbsorptionKey(rows[t]) = AbsorptionKey(rows[k])
    BY <1>0, <1>1, <1>3, TwinIsSized
  <1>5. remap[t] = t
    BY <1>4 DEF MergeInv, OnlyTwinsAbsorb, Unsized
  <1>6. \A x \in DOMAIN rows : remap[x] = k => x = k
    BY <1>1, <1>3 DEF MergeInv, OnlyTwinsAbsorb, Unsized
  <1>7. /\ DOMAIN remap = DOMAIN rows /\ DOMAIN remap' = DOMAIN rows /\ remap'[k] = t
        /\ \A x \in DOMAIN rows \ {k} : remap'[x] = remap[x]
    BY <1>1, <1>3, <1>6 DEF MergeInv, RemapLeadsToRows
  <1>8. /\ DOMAIN rows' = DOMAIN rows
        /\ \A q \in DOMAIN rows \ {t} : rows'[q] = rows[q]
        /\ rows'[t] = [rows[t] EXCEPT !.ev = @ \cup rows[k].ev]
    BY <1>1, <1>4
  <1>9. rows[t] \in Asset /\ rows[k].ev \in SUBSET (Places \X Methods)
    BY <1>3, <1>4 DEF MergeInv, RowsAreIdentities, Asset
  <1>10. rows'[t] \in Asset /\ Alike(rows'[t], rows[t]) /\ rows'[t].ev = rows[t].ev \cup rows[k].ev
    BY <1>8, <1>9, EvidenceOnly
  <1>11. \A q \in DOMAIN rows : rows'[q] \in Asset /\ Alike(rows'[q], rows[q])
    BY <1>8, <1>10 DEF Alike, MergeInv, RowsAreIdentities
  <1>12. Met' = Met /\ Met = DOMAIN raw /\ \A i \in Met : IdentityKey(raw[i]) \in DOMAIN rows
    BY <1>1 DEF Met, MergeInv, RowsAreIdentities
  <1>13. FoundAssets' /\ MergeStepped' /\ MergePosition' /\ OrderListsRows'
    BY <1>1, <1>2, <1>8 DEF MergeInv, FoundAssets, MergeStepped, MergePosition, OrderListsRows
  <1>14. RowsAreIdentities'
    <2>1. ASSUME NEW q \in DOMAIN rows
          PROVE  \E i \in Met' : IdentityKey(raw'[i]) = q /\ Alike(rows'[q], raw'[i])
      <3>1. PICK i \in Met : IdentityKey(raw[i]) = q /\ Alike(rows[q], raw[i])
        BY DEF MergeInv, RowsAreIdentities
      <3> QED
        BY <1>1, <1>11, <1>12, <3>1 DEF Alike
    <2>2. DOMAIN rows' = {IdentityKey(raw'[i]) : i \in Met'}
      BY <1>1, <1>8, <1>12 DEF MergeInv, RowsAreIdentities
    <2> QED
      BY <1>8, <1>11, <2>1, <2>2 DEF RowsAreIdentities
  <1>15. RemapLeadsToRows'
    <2>1. ASSUME NEW q \in DOMAIN rows
          PROVE  remap'[q] \in DOMAIN rows /\ remap'[remap'[q]] = remap'[q]
      <3>1. CASE q = k
        BY <1>1, <1>4, <1>5, <1>7, <3>1
      <3>2. CASE q # k
        BY <1>6, <1>7, <3>2 DEF MergeInv, RemapLeadsToRows
      <3> QED
        BY <3>1, <3>2
    <2> QED
      BY <1>7, <1>8, <2>1 DEF RemapLeadsToRows
  <1>16. OnlyTwinsAbsorb'
    <2>1. ASSUME NEW q \in DOMAIN rows, remap'[q] # q
          PROVE  /\ Unsized(rows[q]) /\ rows[remap'[q]].size # None /\ remap'[q] \in DOMAIN rows
                 /\ AbsorptionKey(rows[q]) = AbsorptionKey(rows[remap'[q]])
      <3>1. CASE q = k
        BY <1>1, <1>4, <1>7, <3>1
      <3>2. CASE q # k
        BY <1>7, <2>1, <3>2 DEF MergeInv, RemapLeadsToRows, OnlyTwinsAbsorb
      <3> QED
        BY <3>1, <3>2
    <2> QED
      BY <1>8, <1>11, <2>1 DEF OnlyTwinsAbsorb, Alike, Unsized, AbsorptionKey
  <1>17. MergeProgress'
    <2>1. \A j \in DOMAIN order : j >= n + 1 => order[j] # k
      BY <1>1, <1>2
    <2>2. \A j \in DOMAIN order : j >= n + 1 => remap'[order[j]] = order[j]
      BY <1>1, <1>2, <1>7, <2>1 DEF MergeInv, MergeProgress
    <2>3. {i \in DOMAIN order : i < n + 1 /\ remap'[order[i]] = order[i]}
            = {i \in DOMAIN order : i < n /\ remap[order[i]] = order[i]}
      BY <1>1, <1>2, <1>7
    <2> QED
      BY <1>1, <2>2, <2>3 DEF MergeInv, MergeProgress
  <1>18. ASSUME NEW q \in DOMAIN rows, remap'[q] = q
         PROVE  rows'[q].ev = Inherited(q)'
    <2>1. q # k /\ remap[q] = q
      BY <1>1, <1>7, <1>18
    <2>2. \A i \in Met : RowOf(i)' = IF RowOf(i) = k THEN t ELSE RowOf(i)
      BY <1>1, <1>7, <1>12 DEF RowOf
    <2>3. rows[q].ev = Inherited(q) /\ rows[k].ev = Inherited(k)
      BY <1>3, <2>1 DEF MergeInv, EvidenceFollows
    <2>4. CASE q = t
      <3>1. MembersOf(t)' = MembersOf(t) \cup MembersOf(k)
        BY <1>12, <2>2 DEF MembersOf
      <3>2. Inherited(t)' = Inherited(t) \cup Inherited(k)
        BY <1>1, <3>1 DEF Inherited
      <3> QED
        BY <1>10, <2>3, <2>4, <3>2
    <2>5. CASE q # t
      <3>1. MembersOf(q)' = MembersOf(q)
        BY <1>12, <2>1, <2>2, <2>5 DEF MembersOf
      <3> QED
        BY <1>1, <1>8, <2>3, <2>5, <3>1 DEF Inherited
    <2> QED
      BY <2>4, <2>5
  <1> QED
    BY <1>8, <1>13, <1>14, <1>15, <1>16, <1>17, <1>18 DEF MergeInv, EvidenceFollows

(* A row that stays.                                                       *)
LEMMA KeepRowKeeps ==
  ASSUME MergeInv, KeepRow
  PROVE  MergeInv'
  <1>1. /\ mstep = "absorb" /\ nth \in DOMAIN order /\ nth' = nth + 1
        /\ kept' = kept \cup {order[nth]}
        /\ UNCHANGED <<raw, mstep, rows, order, remap, edges>>
    BY DEF KeepRow
  <1>2. Len(order) \in Nat /\ DOMAIN order = 1..Len(order)
    BY LenProperties DEF MergeInv, OrderListsRows
  <1>3. Met' = Met /\ \A k : Inherited(k)' = Inherited(k)
    BY <1>1 DEF Met, Inherited, MembersOf, RowOf
  <1>4. /\ FoundAssets' /\ MergeStepped' /\ OrderListsRows'
        /\ RemapLeadsToRows' /\ OnlyTwinsAbsorb' /\ RowsAreIdentities'
    <2>1. FoundAssets' /\ MergeStepped'
      BY <1>1 DEF MergeInv, FoundAssets, MergeStepped
    <2>2. OrderListsRows' /\ RemapLeadsToRows'
      BY <1>1, <1>3 DEF MergeInv, OrderListsRows, RemapLeadsToRows
    <2>3. OnlyTwinsAbsorb'
      BY <1>1 DEF MergeInv, OnlyTwinsAbsorb
    <2>4. RowsAreIdentities'
      BY <1>1, <1>3 DEF MergeInv, RowsAreIdentities
    <2> QED
      BY <2>1, <2>2, <2>3, <2>4
  <1>5. MergePosition'
    BY <1>1, <1>2 DEF MergeInv, MergePosition
  <1>6. MergeProgress'
    <2>1. remap[order[nth]] = order[nth]
      BY <1>1, <1>2 DEF MergeInv, MergeProgress
    <2>2. \A j \in DOMAIN order : j >= nth + 1 => remap[order[j]] = order[j]
      BY <1>1, <1>2 DEF MergeInv, MergeProgress
    <2>3. {i \in DOMAIN order : i < nth + 1 /\ remap[order[i]] = order[i]}
            = {i \in DOMAIN order : i < nth /\ remap[order[i]] = order[i]} \cup {nth}
      BY <1>1, <1>2, <2>1
    <2> QED
      BY <1>1, <2>2, <2>3 DEF MergeInv, MergeProgress
  <1> QED
    BY <1>1, <1>3, <1>4, <1>5, <1>6 DEF MergeInv, EvidenceFollows

(* When pass 2 is over, the rows that lead to themselves are kept.         *)
LEMMA RewriteEdgesKeeps ==
  ASSUME MergeInv, RewriteEdges
  PROVE  MergeInv'
  <1>1. /\ mstep = "absorb" /\ nth \notin DOMAIN order /\ mstep' = "done"
        /\ UNCHANGED <<raw, nth, rows, order, remap, kept>>
    BY DEF RewriteEdges
  <1>2. Len(order) \in Nat /\ DOMAIN order = 1..Len(order)
    BY LenProperties DEF MergeInv, OrderListsRows
  <1>3. Met' = Met /\ \A k : Inherited(k)' = Inherited(k)
    BY <1>1 DEF Met, Inherited, MembersOf, RowOf
  <1>4. /\ FoundAssets' /\ MergeStepped' /\ MergePosition' /\ OrderListsRows'
        /\ RemapLeadsToRows' /\ OnlyTwinsAbsorb' /\ RowsAreIdentities'
    BY <1>1, <1>2, <1>3 DEF MergeInv, FoundAssets, MergeStepped, MergePosition, OrderListsRows,
                            RemapLeadsToRows, OnlyTwinsAbsorb, RowsAreIdentities
  <1>5. kept = {k \in DOMAIN rows : remap[k] = k}
    <2>1. \A j \in DOMAIN order : j < nth /\ order[j] \in DOMAIN rows
      BY <1>1, <1>2 DEF MergeInv, MergePosition, OrderListsRows
    <2>2. kept = {order[j] : j \in {i \in DOMAIN order : i < nth /\ remap[order[i]] = order[i]}}
      BY <1>1 DEF MergeInv, MergeProgress
    <2> QED
      BY <2>1, <2>2 DEF MergeInv, OrderListsRows
  <1> QED
    BY <1>1, <1>3, <1>4, <1>5 DEF MergeInv, EvidenceFollows, MergeProgress

(* Every step of merge() keeps the invariant.                              *)
LEMMA MergeNextKeeps ==
  ASSUME MergeInv, MergeNext
  PROVE  MergeInv'
  BY InsertRowKeeps, MergeRowKeeps, EndPass1Keeps, AbsorbRowKeeps, KeepRowKeeps, RewriteEdgesKeeps
     DEF MergeNext

(* So does what leaves the merge and the findings alone.                   *)
LEMMA MergeInvSame ==
  ASSUME MergeInv, UNCHANGED <<raw, mvars>>
  PROVE  MergeInv'
  <1>1. UNCHANGED <<raw, mstep, nth, rows, order, remap, kept, edges>>
    BY DEF mvars
  <1>2. Met' = Met /\ \A k : Inherited(k)' = Inherited(k)
    BY <1>1 DEF Met, Inherited, MembersOf, RowOf
  <1> QED
    BY <1>1, <1>2 DEF MergeInv, FoundAssets, MergeStepped, MergePosition, OrderListsRows,
                      RemapLeadsToRows, OnlyTwinsAbsorb, RowsAreIdentities, MergeProgress, EvidenceFollows

-----------------------------------------------------------------------------
(* What follows from it.                                                   *)

(* A finding's row, when the merge is done.                                *)
LEMMA RowOfFinding ==
  ASSUME MergeInv, Merged, NEW i \in DOMAIN raw
  PROVE  /\ RowOf(i) \in kept /\ RowOf(i) \in DOMAIN rows
         /\ IdentityKey(raw[i]) \in DOMAIN rows
         /\ IdentityKey(rows[IdentityKey(raw[i])]) = IdentityKey(raw[i])
  <1>1. IdentityKey(raw[i]) \in DOMAIN rows
    BY DEF MergeInv, RowsAreIdentities, Met, Merged
  <1>2. IdentityKey(rows[IdentityKey(raw[i])]) = IdentityKey(raw[i])
    BY <1>1, AlikeIdentity DEF MergeInv, RowsAreIdentities
  <1> QED
    BY <1>1, <1>2 DEF MergeInv, RemapLeadsToRows, MergeProgress, Merged, RowOf

RowsOfAllKept == \A i \in DOMAIN raw : RowOf(i) \in kept /\ IdentityKey(raw[i]) \in DOMAIN remap

(* When the merge is done every finding is in a row that is kept.          *)
LEMMA AllFindingsKept ==
  MergeInv /\ Merged => RowsOfAllKept
  BY RowOfFinding DEF RowsOfAllKept, MergeInv, RemapLeadsToRows

(* The evidence is accounted for.                                          *)
LEMMA EvidenceIsAccounted ==
  ASSUME MergeInv
  PROVE  EvidenceAccounted
  <1> SUFFICES ASSUME Merged
               PROVE  /\ \A i \in DOMAIN raw : RowOf(i) \in kept
                      /\ \A k \in kept : rows[k].ev = UNION {raw[i].ev : i \in {j \in DOMAIN raw : RowOf(j) = k}}
    BY DEF EvidenceAccounted
  <1>1. Met = DOMAIN raw
    BY DEF Met, Merged
  <1>2. \A k \in kept : k \in DOMAIN rows /\ remap[k] = k
    BY DEF MergeInv, MergeProgress, Merged
  <1>3. \A k \in kept : rows[k].ev = Inherited(k)
    BY <1>2 DEF MergeInv, EvidenceFollows
  <1> QED
    BY <1>1, <1>3, RowOfFinding DEF Inherited, MembersOf

(* A finding without a certificate is in a row of its algorithm and        *)
(* library, and its place where it has no library, whose size is its own   *)
(* if it has one.                                                          *)
LEMMA RowIsAlike ==
  ASSUME MergeInv, Merged, NEW i \in DOMAIN raw, raw[i].cert = None
  PROVE  LET row == rows[RowOf(i)] IN
         /\ row.name = raw[i].name /\ row.lib = raw[i].lib
         /\ raw[i].size \in {None, row.size}
         /\ raw[i].lib = None => row.place = raw[i].place
  <1> DEFINE k == IdentityKey(raw[i])
  <1>1. k \in DOMAIN rows /\ IdentityKey(rows[k]) = IdentityKey(raw[i])
    BY RowOfFinding
  <1>2. /\ rows[k].name = raw[i].name /\ rows[k].size = raw[i].size /\ rows[k].lib = raw[i].lib
        /\ raw[i].lib = None => rows[k].place = raw[i].place
    BY <1>1, IdentityTells
  <1>3. RowOf(i) = remap[k]
    BY DEF RowOf
  <1> HIDE DEF k
  <1>4. CASE remap[k] = k
    BY <1>2, <1>3, <1>4
  <1>5. CASE remap[k] # k
    <2>1. Unsized(rows[k]) /\ AbsorptionKey(rows[k]) = AbsorptionKey(rows[remap[k]])
      BY <1>1, <1>5 DEF MergeInv, OnlyTwinsAbsorb
    <2>2. /\ rows[k].size = None /\ rows[k].name = rows[remap[k]].name
          /\ rows[k].place = rows[remap[k]].place /\ rows[k].lib = rows[remap[k]].lib
      BY <2>1 DEF Unsized, AbsorptionKey
    <2> QED
      BY <1>2, <1>3, <2>2
  <1> QED
    BY <1>4, <1>5

(* Absorption keeps sizes and places.                                      *)
LEMMA AbsorptionKeeps ==
  ASSUME MergeInv
  PROVE  AbsorptionKeepsSizeAndPlace
  BY RowIsAlike DEF AbsorptionKeepsSizeAndPlace

-----------------------------------------------------------------------------
(* The pipeline around merge().                                            *)

(* What joins the report: assets, related by their positions, of which a   *)
(* relocated one is related to another only if its identity has no place.  *)
Joinable(result) ==
  LET assets == result.assets IN
  /\ assets \in Seq(Asset)
  /\ \A i \in DOMAIN assets :
       Coherent(assets[i]) /\ (i \in result.moved => Relocated(assets[i]) \in Asset)
  /\ \A l \in result.links \cup Signed(result.found) :
       \A i \in {l[1], l[2]} :
         i \in DOMAIN assets
           /\ (i \in result.moved => assets[i].lib # None \/ assets[i].cert # None)

-----------------------------------------------------------------------------
(* The invariant of the pipeline.                                          *)

(* The relationships, which name findings by their ids, are those that     *)
(* were made between the findings.                                         *)
RelsNameFindings ==
  /\ \A m \in said : m[1] \in DOMAIN raw /\ m[2] \in DOMAIN raw
  /\ rels = {<<IdentityKey(raw[m[1]]), IdentityKey(raw[m[2]]), m[3]>> : m \in said}

(* Every call site through a module that is done with leads to a row of it.*)
HandledAreLinked ==
  \A i \in DOMAIN raw :
    raw[i].provider \in handled \ {None} =>
      \E to \in LibraryRows(raw[i].provider) : <<i, to, "depends-on">> \in said

Phases ==
  /\ pstep \in {"scan", "attribute", "merge", "count", "done"}
  /\ pstep = "scan" => handled = {}
  /\ pstep \in {"scan", "attribute"} => Unmerged
  /\ pstep \in {"merge", "count", "done"} => Waiting = {}
  /\ pstep \in {"count", "done"} => Merged

AllCoherent == \A i \in DOMAIN raw : Coherent(raw[i])

PipelineInv ==
  /\ MergeInv /\ AllCoherent
  /\ RelsNameFindings /\ HandledAreLinked
  /\ Phases /\ EdgesFollowFindings

(* Nothing is found yet.                                                   *)
LEMMA PipelineStarts ==
  ASSUME PipelineInit
  PROVE  PipelineInv
  <1>1. FoundAssets /\ Unmerged /\ DOMAIN raw = {} /\ rels = {} /\ said = {} /\ handled = {} /\ pstep = "scan"
    BY DEF PipelineInit, InventoryInit, FoundAssets, Unmerged
  <1>2. MergeInv
    BY <1>1, UnmergedHolds
  <1> QED
    BY <1>1, <1>2 DEF PipelineInv, AllCoherent, RelsNameFindings, HandledAreLinked, Phases,
                      EdgesFollowFindings, Merged, Unmerged

(* Relocation keeps an identity that has no place.                         *)
LEMMA RelocatedIdentity ==
  ASSUME NEW a \in Asset, a.lib # None \/ a.cert # None
  PROVE  IdentityKey(Relocated(a)) = IdentityKey(a)
  BY DEF Relocated, IdentityKey, Asset

(* Relocation keeps what coherence is about.                               *)
LEMMA RelocatedCoherent ==
  ASSUME NEW a \in Asset, Coherent(a)
  PROVE  Coherent(Relocated(a))
  BY DEF Relocated, Coherent, Asset

(* combined.extend(): a result joins those before it.                      *)
LEMMA JoinKeeps ==
  ASSUME PipelineInv, pstep = "scan", NEW result, Joinable(result), JoinResult(result)
  PROVE  PipelineInv' /\ pstep' = "scan"
  <1> DEFINE assets == result.assets
             added == [i \in DOMAIN assets |->
                         IF i \in result.moved THEN Relocated(assets[i]) ELSE assets[i]]
             all == result.links \cup Signed(result.found)
  <1>0. PICK n : n = Len(raw)
    OBVIOUS
  <1>1. /\ raw' = raw \o added
        /\ rels' = rels \cup {<<IdentityKey(assets[l[1]]), IdentityKey(assets[l[2]]), l[3]>> : l \in all}
        /\ said' = said \cup {<<n + l[1], n + l[2], l[3]>> : l \in all}
        /\ UNCHANGED <<pstep, handled, mstep, nth, rows, order, remap, kept, edges>>
    BY <1>0 DEF JoinResult, mvars
  <1>2. /\ assets \in Seq(Asset) /\ DOMAIN assets = 1..Len(assets) /\ Len(assets) \in Nat
        /\ \A i \in DOMAIN assets :
             assets[i] \in Asset /\ Coherent(assets[i]) /\ (i \in result.moved => Relocated(assets[i]) \in Asset)
        /\ \A l \in all : /\ l[1] \in DOMAIN assets /\ l[2] \in DOMAIN assets
                          /\ l[1] \in result.moved => assets[l[1]].lib # None \/ assets[l[1]].cert # None
                          /\ l[2] \in result.moved => assets[l[2]].lib # None \/ assets[l[2]].cert # None
    BY LenProperties, ElementOfSeq DEF Joinable
  <1> HIDE DEF all, assets
  <1>3. raw \in Seq(Asset) /\ n \in Nat /\ DOMAIN raw = 1..n
    BY <1>0 DEF PipelineInv, MergeInv, FoundAssets
  <1>4. added \in Seq(Asset) /\ Len(added) = Len(assets)
        /\ \A i \in DOMAIN assets : added[i] \in Asset /\ Coherent(added[i])
    <2>1. \A i \in DOMAIN assets : added[i] \in Asset /\ Coherent(added[i])
      BY <1>2, RelocatedCoherent
    <2>2. added \in [1..Len(assets) -> Asset]
      BY <1>2, <2>1
    <2> QED
      BY <1>2, <2>1, <2>2
  <1>5. ASSUME NEW i \in DOMAIN assets,
               i \in result.moved => assets[i].lib # None \/ assets[i].cert # None
        PROVE  IdentityKey(added[i]) = IdentityKey(assets[i])
    BY <1>2, <1>5, RelocatedIdentity
  <1> HIDE DEF added
  <1>6. /\ raw' \in Seq(Asset) /\ DOMAIN raw' = 1..(n + Len(assets))
        /\ \A i \in DOMAIN raw : raw'[i] = raw[i]
        /\ \A i \in DOMAIN assets : raw'[n + i] = added[i] /\ n + i \in DOMAIN raw'
        /\ \A i \in DOMAIN raw' \ DOMAIN raw : \E j \in DOMAIN assets : i = n + j
    <2>1. /\ raw' \in Seq(Asset) /\ Len(raw') = n + Len(assets)
          /\ \A i \in 1..(n + Len(assets)) : raw'[i] = IF i <= n THEN raw[i] ELSE added[i - n]
      <3>1. /\ raw \o added \in Seq(Asset) /\ Len(raw \o added) = Len(raw) + Len(added)
            /\ \A i \in 1..(Len(raw) + Len(added)) :
                 (raw \o added)[i] = IF i <= Len(raw) THEN raw[i] ELSE added[i - Len(raw)]
        BY <1>3, <1>4, ConcatProperties
      <3> QED
        BY <1>0, <1>1, <1>4, <3>1
    <2>2. DOMAIN raw' = 1..(n + Len(assets))
      BY <2>1
    <2>3. ASSUME NEW i \in DOMAIN assets
          PROVE  raw'[n + i] = added[i] /\ n + i \in DOMAIN raw'
      <3>1. n + i \in 1..(n + Len(assets)) /\ ~(n + i <= n) /\ (n + i) - n = i
        BY <1>2, <1>3
      <3> QED
        BY <2>1, <2>2, <3>1
    <2>4. ASSUME NEW i \in DOMAIN raw' \ DOMAIN raw
          PROVE  \E j \in DOMAIN assets : i = n + j
      <3>1. i - n \in 1..Len(assets) /\ i = n + (i - n)
        BY <1>2, <1>3, <2>2
      <3> QED
        BY <1>2, <3>1
    <2> QED
      BY <1>2, <1>3, <2>1, <2>2, <2>3, <2>4
  <1>7. MergeInv'
    <2>1. Unmerged'
      BY <1>1 DEF PipelineInv, Phases, Unmerged
    <2>2. FoundAssets'
      BY <1>6 DEF FoundAssets
    <2> QED
      BY <2>1, <2>2, UnmergedHolds, PTL
  <1>8. AllCoherent'
    BY <1>4, <1>6 DEF AllCoherent, PipelineInv
  <1>9. RelsNameFindings'
    <2>1. ASSUME NEW m \in said
          PROVE  /\ m[1] \in DOMAIN raw' /\ m[2] \in DOMAIN raw'
                 /\ raw'[m[1]] = raw[m[1]] /\ raw'[m[2]] = raw[m[2]]
      BY <1>2, <1>3, <1>6 DEF PipelineInv, RelsNameFindings
    <2>2. ASSUME NEW l \in all
          PROVE  /\ n + l[1] \in DOMAIN raw' /\ n + l[2] \in DOMAIN raw'
                 /\ IdentityKey(raw'[n + l[1]]) = IdentityKey(assets[l[1]])
                 /\ IdentityKey(raw'[n + l[2]]) = IdentityKey(assets[l[2]])
      BY <1>2, <1>5, <1>6
    <2>3. rels' = {<<IdentityKey(raw'[m[1]]), IdentityKey(raw'[m[2]]), m[3]>> : m \in said'}
      <3> DEFINE Before(m) == <<IdentityKey(raw[m[1]]), IdentityKey(raw[m[2]]), m[3]>>
                 After(m) == <<IdentityKey(raw'[m[1]]), IdentityKey(raw'[m[2]]), m[3]>>
                 Placed(l) == <<n + l[1], n + l[2], l[3]>>
                 Named(l) == <<IdentityKey(assets[l[1]]), IdentityKey(assets[l[2]]), l[3]>>
      <3>1. \A m \in said : After(m) = Before(m)
        BY <2>1
      <3>2. \A l \in all : After(Placed(l)) = Named(l)
        BY <2>2
      <3>3. rels = {Before(m) : m \in said}
        BY DEF PipelineInv, RelsNameFindings
      <3>4. rels' = rels \cup {Named(l) : l \in all} /\ said' = said \cup {Placed(l) : l \in all}
        BY <1>1
      <3> HIDE DEF Before, After, Placed, Named
      <3>5. rels' = {After(m) : m \in said'}
        BY <3>1, <3>2, <3>3, <3>4
      <3> QED
        BY <3>5 DEF After
    <2>4. \A m \in said' : m[1] \in DOMAIN raw' /\ m[2] \in DOMAIN raw'
      BY <1>1, <2>1, <2>2
    <2> QED
      BY <2>3, <2>4 DEF RelsNameFindings
  <1> QED
    BY <1>1, <1>7, <1>8, <1>9
       DEF PipelineInv, Phases, HandledAreLinked, EdgesFollowFindings, Merged, Unmerged

-----------------------------------------------------------------------------
(* attribute_providers().                                                  *)

(* The least of some positions is one of them.                             *)
LEMMA LeastOfPositions ==
  ASSUME NEW S \in SUBSET Nat, S # {}
  PROVE  LeastOf(S) \in S
  BY LeastNumber DEF LeastOf

(* The row of a module is an asset, and one of a library.                  *)
LEMMA ModuleRowIsAsset ==
  ASSUME NEW user \in Asset, NEW p \in Providers
  PROVE  LET row == ModuleRow(p, user) IN
         /\ row \in Asset /\ Coherent(row) /\ row.provider = None
         /\ row.kind = "material" /\ row.lib # None /\ row.lib[1] = p
  <1>1. /\ p \in Names /\ <<p, None>> \in Libraries /\ <<p, None>> # None
        /\ "import-attribution" \in Methods /\ user.place \in Places
    BY PipelineAssumption DEF Asset
  <1> QED
    BY <1>1 DEF ModuleRow, Asset, Coherent

(* A provider's users are joined to a row of its own, there or new.        *)
LEMMA AttributeKeeps ==
  ASSUME PipelineInv, Attribute
  PROVE  PipelineInv'
  <1>a. PICK n, p : n = Len(raw) /\ p = CHOOSE q \in Waiting : TRUE
    OBVIOUS
  <1>b. PICK L, U : L = LibraryRows(p) /\ U = Users(p)
    OBVIOUS
  <1>c. PICK to : to = IF L # {} THEN LeastOf(L) ELSE n + 1
    OBVIOUS
  <1>0. /\ n = Len(raw) /\ p = (CHOOSE q \in Waiting : TRUE)
        /\ L = LibraryRows(p) /\ U = Users(p)
        /\ to = IF L # {} THEN LeastOf(L) ELSE n + 1
    BY <1>a, <1>b, <1>c
  <1>1. /\ pstep = "attribute" /\ p \in Waiting
        /\ raw' = IF L # {} THEN raw ELSE Append(raw, ModuleRow(p, raw[LeastOf(U)]))
        /\ rels' = rels \cup {<<IdentityKey(raw'[u]), IdentityKey(raw'[to]), "depends-on">> : u \in U}
        /\ said' = said \cup {<<u, to, "depends-on">> : u \in U}
        /\ handled' = handled \cup {p}
        /\ UNCHANGED <<pstep, mstep, nth, rows, order, remap, kept, edges>>
    BY <1>0 DEF Attribute, mvars
  <1>2. /\ raw \in Seq(Asset) /\ n \in Nat /\ DOMAIN raw = 1..n
        /\ \A i \in DOMAIN raw : raw[i] \in Asset
    BY <1>0, ElementOfSeq DEF PipelineInv, MergeInv, FoundAssets
  <1>3. /\ p \notin handled /\ p # None /\ p \in Providers
        /\ U = {i \in DOMAIN raw : raw[i].provider = p} /\ U # {} /\ U \in SUBSET Nat
    BY <1>0, <1>1, <1>2 DEF Waiting, Users, Asset
  <1>4. /\ raw' \in Seq(Asset) /\ DOMAIN raw \subseteq DOMAIN raw' /\ to \in DOMAIN raw'
        /\ \A i \in DOMAIN raw : raw'[i] = raw[i]
        /\ \A i \in DOMAIN raw' \ DOMAIN raw : i = to /\ raw'[i].provider = None
        /\ raw'[to].kind = "material" /\ raw'[to].lib # None /\ Lower(raw'[to].lib[1]) = Lower(p)
        /\ Coherent(raw'[to])
    <2>1. CASE L # {}
      <3>1. L \in SUBSET Nat /\ L \subseteq DOMAIN raw
        BY <1>0, <1>2 DEF LibraryRows
      <3>2. to \in L
        BY <1>0, <2>1, <3>1, LeastOfPositions
      <3> QED
        BY <1>0, <1>1, <1>2, <2>1, <3>1, <3>2 DEF LibraryRows, PipelineInv, AllCoherent
    <2>2. CASE L = {}
      <3> DEFINE row == ModuleRow(p, raw[LeastOf(U)])
      <3>1. raw[LeastOf(U)] \in Asset
        BY <1>2, <1>3, LeastOfPositions
      <3>2. /\ row \in Asset /\ Coherent(row) /\ row.provider = None
            /\ row.kind = "material" /\ row.lib # None /\ row.lib[1] = p
        BY <1>3, <3>1, ModuleRowIsAsset
      <3>3. raw' = Append(raw, row) /\ to = n + 1
        BY <1>0, <1>1, <2>2
      <3> HIDE DEF row
      <3>4. /\ raw' \in Seq(Asset) /\ Len(raw') = n + 1 /\ raw'[n + 1] = row
            /\ \A i \in 1..n : raw'[i] = raw[i]
        BY <1>0, <1>2, <3>2, <3>3, AppendProperties
      <3>5. DOMAIN raw' = 1..(n + 1)
        BY <3>4
      <3> QED
        BY <1>2, <3>2, <3>3, <3>4, <3>5
    <2> QED
      BY <2>1, <2>2
  <1>5. MergeInv'
    <2>1. Unmerged'
      BY <1>1 DEF PipelineInv, Phases, Unmerged
    <2>2. FoundAssets'
      BY <1>4 DEF FoundAssets
    <2> QED
      BY <2>1, <2>2, UnmergedHolds, PTL
  <1>6. AllCoherent'
    BY <1>4 DEF PipelineInv, AllCoherent
  <1>7. RelsNameFindings'
    <2>1. \A m \in said : /\ m[1] \in DOMAIN raw' /\ m[2] \in DOMAIN raw'
                          /\ raw'[m[1]] = raw[m[1]] /\ raw'[m[2]] = raw[m[2]]
      BY <1>4 DEF PipelineInv, RelsNameFindings
    <2>2. \A u \in U : u \in DOMAIN raw'
      BY <1>3, <1>4
    <2>3. rels' = {<<IdentityKey(raw'[m[1]]), IdentityKey(raw'[m[2]]), m[3]>> : m \in said'}
      <3> DEFINE Before(m) == <<IdentityKey(raw[m[1]]), IdentityKey(raw[m[2]]), m[3]>>
                 After(m) == <<IdentityKey(raw'[m[1]]), IdentityKey(raw'[m[2]]), m[3]>>
                 Placed(u) == <<u, to, "depends-on">>
                 Named(u) == <<IdentityKey(raw'[u]), IdentityKey(raw'[to]), "depends-on">>
      <3>1. \A m \in said : After(m) = Before(m)
        BY <2>1
      <3>2. \A u \in U : After(Placed(u)) = Named(u)
        OBVIOUS
      <3>3. rels = {Before(m) : m \in said}
        BY DEF PipelineInv, RelsNameFindings
      <3>4. rels' = rels \cup {Named(u) : u \in U} /\ said' = said \cup {Placed(u) : u \in U}
        BY <1>1
      <3> HIDE DEF Before, After, Placed, Named
      <3>5. rels' = {After(m) : m \in said'}
        BY <3>1, <3>2, <3>3, <3>4
      <3> QED
        BY <3>5 DEF After
    <2>4. \A m \in said' : m[1] \in DOMAIN raw' /\ m[2] \in DOMAIN raw'
      BY <1>1, <1>4, <2>1, <2>2
    <2> QED
      BY <2>3, <2>4 DEF RelsNameFindings
  <1>8. HandledAreLinked'
    <2>1. ASSUME NEW i \in DOMAIN raw', raw'[i].provider \in handled' \ {None}
          PROVE  \E q \in DOMAIN raw' : /\ raw'[q].kind = "material" /\ raw'[q].lib # None
                                        /\ Lower(raw'[q].lib[1]) = Lower(raw'[i].provider)
                                        /\ <<i, q, "depends-on">> \in said'
      <3>1. i \in DOMAIN raw /\ raw'[i] = raw[i]
        BY <1>4, <2>1
      <3>2. CASE raw[i].provider = p
        <4>1. i \in U
          BY <1>3, <3>1, <3>2
        <4> QED
          BY <1>1, <1>4, <3>1, <3>2, <4>1
      <3>3. CASE raw[i].provider # p
        <4>1. PICK q \in LibraryRows(raw[i].provider) : <<i, q, "depends-on">> \in said
          BY <1>1, <2>1, <3>1, <3>3 DEF PipelineInv, HandledAreLinked
        <4> QED
          BY <1>1, <1>4, <3>1, <4>1 DEF LibraryRows
      <3> QED
        BY <3>2, <3>3
    <2> QED
      BY <2>1 DEF HandledAreLinked, LibraryRows
  <1> QED
    BY <1>1, <1>5, <1>6, <1>7, <1>8
       DEF PipelineInv, Phases, EdgesFollowFindings, Merged, Unmerged

-----------------------------------------------------------------------------
(* The merge, and what is left when it is over.                            *)

(* A step of merge() leaves the findings alone; its last one rewrites the  *)
(* relationships to join the rows of the findings they were made between.  *)
LEMMA MergeRowsKeeps ==
  ASSUME PipelineInv, MergeRows
  PROVE  PipelineInv'
  <1>1. pstep = "merge" /\ MergeNext /\ UNCHANGED <<pstep, handled, said, raw, rels>>
    BY DEF MergeRows, MergeNext, InsertRow, MergeRow, EndPass1, AbsorbRow, KeepRow, RewriteEdges
  <1>2. MergeInv'
    BY <1>1, MergeNextKeeps DEF PipelineInv
  <1>3. AllCoherent' /\ RelsNameFindings' /\ HandledAreLinked' /\ Phases'
    <2>1. \A p : LibraryRows(p)' = LibraryRows(p)
      BY <1>1 DEF LibraryRows
    <2> QED
      BY <1>1, <2>1
         DEF PipelineInv, AllCoherent, RelsNameFindings, HandledAreLinked, Phases, Waiting
  <1>4. EdgesFollowFindings'
    <2>1. CASE RewriteEdges
      <3>1. /\ mstep' = "done" /\ UNCHANGED <<raw, rels, rows, remap, kept>>
            /\ edges' = {e \in {<<Target(r[1]), Target(r[2]), r[3]>> : r \in rels} :
                           e[1] # e[2] /\ e[1] \in kept /\ e[2] \in kept}
        BY <2>1 DEF RewriteEdges
      <3>2. \A i \in DOMAIN raw : RowOf(i) \in kept /\ IdentityKey(raw[i]) \in DOMAIN remap
        <4>1. (MergeInv /\ Merged => RowsOfAllKept)'
          BY AllFindingsKept, PTL
        <4> QED
          BY <1>2, <3>1, <4>1 DEF Merged, RowOf, RowsOfAllKept
      <3>3. \A i \in DOMAIN raw : Target(IdentityKey(raw[i])) = RowOf(i)
        BY <3>2 DEF Target, RowOf
      <3>4. rels = {<<IdentityKey(raw[m[1]]), IdentityKey(raw[m[2]]), m[3]>> : m \in said}
            /\ \A m \in said : m[1] \in DOMAIN raw /\ m[2] \in DOMAIN raw
        BY DEF PipelineInv, RelsNameFindings
      <3>5. edges' = {<<RowOf(m[1]), RowOf(m[2]), m[3]>> : m \in {l \in said : RowOf(l[1]) # RowOf(l[2])}}
        <4> DEFINE Named(m) == <<IdentityKey(raw[m[1]]), IdentityKey(raw[m[2]]), m[3]>>
                   Joined(m) == <<RowOf(m[1]), RowOf(m[2]), m[3]>>
                   Aimed(r) == <<Target(r[1]), Target(r[2]), r[3]>>
        <4>1. \A m \in said : Aimed(Named(m)) = Joined(m)
          BY <3>3, <3>4
        <4>2. \A m \in said : /\ Joined(m)[1] = RowOf(m[1]) /\ Joined(m)[2] = RowOf(m[2])
                              /\ Joined(m)[1] \in kept /\ Joined(m)[2] \in kept
          BY <3>2, <3>4
        <4>3. /\ edges' = {e \in {Aimed(r) : r \in rels} : e[1] # e[2] /\ e[1] \in kept /\ e[2] \in kept}
              /\ rels = {Named(m) : m \in said}
          BY <3>1, <3>4
        <4> HIDE DEF Named, Joined, Aimed
        <4>4. {Aimed(r) : r \in rels} = {Joined(m) : m \in said}
          BY <4>1, <4>3
        <4>5. edges' = {Joined(m) : m \in {l \in said : RowOf(l[1]) # RowOf(l[2])}}
          BY <4>2, <4>3, <4>4
        <4> QED
          BY <4>5 DEF Joined
      <3> QED
        BY <1>1, <3>1, <3>5 DEF EdgesFollowFindings, RowOf
    <2>2. CASE ~RewriteEdges
      <3>1. mstep' # "done"
        BY <1>1, <2>2 DEF MergeNext, InsertRow, MergeRow, EndPass1, AbsorbRow, KeepRow
      <3> QED
        BY <3>1 DEF EdgesFollowFindings, Merged
    <2> QED
      BY <2>1, <2>2
  <1> QED
    BY <1>2, <1>3, <1>4 DEF PipelineInv

(* The rest of run_scan() goes on from one part to the next.               *)
LEMMA PipelineNextKeeps ==
  ASSUME PipelineInv, PipelineNext
  PROVE  PipelineInv'
  <1>1. CASE MergeRows
    BY <1>1, MergeRowsKeeps
  <1>2. CASE Attribute
    BY <1>2, AttributeKeeps
  <1>3. CASE EndScans \/ EndAttribute \/ EndMerge \/ CountRadius \/ EndCount
    <2>1. UNCHANGED <<handled, said, raw, rels, mstep, nth, rows, order, remap, kept, edges>>
      BY <1>3 DEF EndScans, EndAttribute, EndMerge, CountRadius, EndCount, mvars
    <2>2. MergeInv'
      BY <2>1, MergeInvSame DEF PipelineInv, mvars
    <2>3. Phases'
      BY <1>3, <2>1 DEF PipelineInv, Phases, Unmerged, Waiting, Merged,
                        EndScans, EndAttribute, EndMerge, CountRadius, EndCount
    <2>4. \A p : LibraryRows(p)' = LibraryRows(p)
      BY <2>1 DEF LibraryRows
    <2> QED
      BY <2>1, <2>2, <2>3, <2>4 DEF PipelineInv, AllCoherent, RelsNameFindings, HandledAreLinked,
                                    EdgesFollowFindings, Merged, RowOf
  <1> QED
    BY <1>1, <1>2, <1>3 DEF PipelineNext

(* What leaves all of it alone keeps it.                                   *)
LEMMA PipelineInvSame ==
  ASSUME PipelineInv, UNCHANGED <<pstep, handled, said, raw, rels, mvars>>
  PROVE  PipelineInv'
  <1>1. UNCHANGED <<pstep, handled, said, raw, rels, mstep, nth, rows, order, remap, kept, edges>>
    BY DEF mvars
  <1>2. MergeInv'
    BY MergeInvSame DEF PipelineInv
  <1>3. \A p : LibraryRows(p)' = LibraryRows(p)
    BY <1>1 DEF LibraryRows
  <1> QED
    BY <1>1, <1>2, <1>3 DEF PipelineInv, AllCoherent, RelsNameFindings, HandledAreLinked,
                            Phases, Unmerged, Waiting, EdgesFollowFindings, Merged, RowOf

-----------------------------------------------------------------------------
(* What the inventory and its documents are.                               *)

(* When the merge is over, every row that is kept is an asset, known by    *)
(* its identity, and every relationship joins two of them.                 *)
LEMMA KeptRows ==
  ASSUME PipelineInv, Merged
  PROVE  /\ \A k \in kept : rows[k] \in Asset /\ IdentityKey(rows[k]) = k
         /\ \A e \in edges : e[1] \in kept /\ e[2] \in kept
  <1>1. \A k \in kept : k \in DOMAIN rows
    BY DEF PipelineInv, MergeInv, MergeProgress, Merged
  <1>2. \A k \in kept : rows[k] \in Asset /\ IdentityKey(rows[k]) = k
    BY <1>1, AlikeIdentity DEF PipelineInv, MergeInv, RowsAreIdentities
  <1>3. \A m \in said : RowOf(m[1]) \in kept /\ RowOf(m[2]) \in kept
    BY RowOfFinding DEF PipelineInv, RelsNameFindings
  <1>4. edges = {<<RowOf(l[1]), RowOf(l[2]), l[3]>> : l \in {m \in said : RowOf(m[1]) # RowOf(m[2])}}
    BY DEF PipelineInv, EdgesFollowFindings
  <1> QED
    BY <1>2, <1>3, <1>4

(* A call site's row is joined to a row of its module.                     *)
LEMMA ProvidersAreLinked ==
  ASSUME PipelineInv
  PROVE  ProvidersLinked
  <1> SUFFICES ASSUME Merged, NEW i \in DOMAIN raw, raw[i].provider # None
               PROVE  \E k \in kept : /\ rows[k].lib # None /\ Lower(rows[k].lib[1]) = Lower(raw[i].provider)
                                      /\ <<RowOf(i), k, "depends-on">> \in edges
    BY DEF ProvidersLinked
  <1>1. raw[i].provider \in handled
    BY DEF PipelineInv, Phases, Unmerged, Merged, Waiting
  <1>2. PICK to \in LibraryRows(raw[i].provider) : <<i, to, "depends-on">> \in said
    BY <1>1 DEF PipelineInv, HandledAreLinked
  <1>3. /\ to \in DOMAIN raw /\ raw[to].lib # None /\ Lower(raw[to].lib[1]) = Lower(raw[i].provider)
        /\ raw[to].cert = None /\ raw[i].lib = None /\ raw[i].cert = None
    BY <1>2 DEF LibraryRows, PipelineInv, AllCoherent, Coherent
  <1>4. MergeInv
    BY DEF PipelineInv
  <1>5. rows[RowOf(to)].lib = raw[to].lib /\ rows[RowOf(i)].lib = None
    BY <1>3, <1>4, RowIsAlike
  <1>6. RowOf(to) \in kept /\ RowOf(i) # RowOf(to)
    BY <1>3, <1>4, <1>5, RowOfFinding
  <1>7. <<RowOf(i), RowOf(to), "depends-on">> \in edges
    <2>1. \A m \in said : RowOf(m[1]) # RowOf(m[2]) => <<RowOf(m[1]), RowOf(m[2]), m[3]>> \in edges
      BY DEF PipelineInv, EdgesFollowFindings
    <2>2. PICK m \in said : m[1] = i /\ m[2] = to /\ m[3] = "depends-on"
      BY <1>2
    <2> QED
      BY <1>6, <2>1, <2>2
  <1> QED
    BY <1>3, <1>5, <1>6, <1>7

(* Whatever rows are left in, nothing in the document dangles or clashes.  *)
LEMMA DocumentIsValid ==
  ASSUME PipelineInv
  PROVE  DocumentValid
  <1> SUFFICES ASSUME Merged, NEW keep \in SUBSET kept
               PROVE  Complaints(Document(keep, Exported(keep))) = {}
    BY DEF DocumentValid
  <1> DEFINE d == Document(keep, Exported(keep))
  <1>1. /\ DOMAIN d.components = keep
        /\ d.dependencies = {<<e[1], e[2]>> : e \in Exported(keep)}
        /\ \A k \in keep : d.components[k] = Component(k)
    BY DEF Document
  <1>2. \A k \in keep :
          /\ d.components[k].ref = k
          /\ d.components[k].type \in {"algorithm", "certificate", "protocol", "material"}
    <2> TAKE k \in keep
    <2>1. rows[k] \in Asset /\ IdentityKey(rows[k]) = k
      BY KeptRows
    <2>2. d.components[k] = [ref |-> IdentityKey(rows[k]), type |-> rows[k].kind]
      BY <1>1 DEF Component
    <2> HIDE DEF d
    <2> QED
      BY <2>1, <2>2 DEF Asset
  <1>3. \A e \in d.dependencies : e[1] \in keep /\ e[2] \in keep
    BY <1>1 DEF Exported
  <1> HIDE DEF d
  <1>4. \A k \in keep : k \in {d.components[j].ref : j \in DOMAIN d.components}
    BY <1>1, <1>2
  <1>5. (UNION {{e[1], e[2]} : e \in d.dependencies}) \ {d.components[j].ref : j \in DOMAIN d.components} = {}
    BY <1>3, <1>4
  <1>6. {j \in DOMAIN d.components :
           \E i \in DOMAIN d.components \ {j} : d.components[i].ref = d.components[j].ref} = {}
    BY <1>1, <1>2
  <1>7. {j \in DOMAIN d.components :
           d.components[j].type \notin {"algorithm", "certificate", "protocol", "material"}} = {}
    BY <1>1, <1>2
  <1>8. Complaints(d) = {}
    BY <1>5, <1>6, <1>7 DEF Complaints
  <1> QED
    BY <1>8 DEF d

-----------------------------------------------------------------------------
(* The radius.                                                             *)

(* What is below a certificate: what it issued, what that issued, and      *)
(* nothing that a set closed under issuing does not have.                  *)
LEMMA BelowIsLeast ==
  ASSUME NEW known, NEW links_, NEW x, \A e \in links_ : e[1] \in known
  PROVE  /\ Issued(x, links_) \subseteq Below(x, known, links_)
         /\ \A y \in Below(x, known, links_) : Issued(y, links_) \subseteq Below(x, known, links_)
         /\ \A S \in SUBSET known : Closed(x, S, links_) => Below(x, known, links_) \subseteq S
         /\ Below(x, known, links_) \subseteq known
  <1>1. \A y : Issued(y, links_) \subseteq known
    BY DEF Issued
  <1> QED
    BY <1>1 DEF Below, Closed

NotCounting == todo = {} /\ root = Absent /\ queue = {} /\ seen = {} /\ DOMAIN radius = {}

Beneath(x) == Below(x, kept, edges)

(* What the worklist has met is below the root, and what a member of it    *)
(* issued is in it.                                                        *)
OnTheWay ==
  /\ seen \subseteq Beneath(root) /\ queue \subseteq Beneath(root)
  /\ Issued(root, edges) \subseteq seen \cup queue
  /\ \A y \in seen : Issued(y, edges) \subseteq seen \cup queue

CountIsRight(x) ==
  IF x \in DOMAIN radius THEN radius[x] = Cardinality(Beneath(x)) ELSE Beneath(x) = {}

RadiusInv ==
  /\ pstep \in {"scan", "attribute", "merge"} => NotCounting
  /\ pstep \in {"count", "done"} =>
       /\ todo \subseteq kept /\ root \in kept \cup {Absent} /\ root \notin todo
       /\ DOMAIN radius \subseteq kept \ (todo \cup {root})
       /\ \A x \in kept \ (todo \cup {root}) : CountIsRight(x)
       /\ root # Absent => OnTheWay
  /\ pstep = "done" => todo = {} /\ root = Absent

(* An absent issuer is no row.                                             *)
LEMMA AbsentIsNoRow ==
  ASSUME PipelineInv, Merged
  PROVE  Absent \notin kept
  <1>1. \A a \in Asset : IdentityKey(a) \in Identities
    BY DEF Asset, IdentityKey, Identities
  <1> QED
    BY <1>1, KeptRows, PipelineAssumption

(* Nothing is counted before the merge is over, and then every row that    *)
(* issued something is.                                                    *)
LEMMA CountStarts ==
  ASSUME PipelineInv, RadiusInv, EndMerge
  PROVE  RadiusInv'
  <1>1. /\ pstep = "merge" /\ Merged /\ pstep' = "count"
        /\ todo' = {x \in kept : Issued(x, edges) # {}}
        /\ UNCHANGED <<root, queue, seen, radius, kept, edges>>
    BY DEF EndMerge, CountFrom, Linking, mvars
  <1>2. root = Absent /\ DOMAIN radius = {} /\ Absent \notin kept
    BY <1>1, AbsentIsNoRow DEF RadiusInv, NotCounting
  <1>3. ASSUME NEW x \in kept, Issued(x, edges) = {}
        PROVE  Beneath(x) = {}
    <2>1. Closed(x, {}, edges)
      BY <1>3 DEF Closed
    <2> QED
      BY <1>1, <2>1, BelowIsLeast, KeptRows DEF Beneath
  <1>4. \A x \in kept \ (todo' \cup {root'}) : CountIsRight(x)'
    BY <1>1, <1>2, <1>3 DEF CountIsRight, Beneath
  <1> QED
    BY <1>1, <1>2, <1>4 DEF RadiusInv

(* The worklist of one certificate.                                        *)
LEMMA CountGoesOn ==
  ASSUME PipelineInv, RadiusInv, CountRadius
  PROVE  RadiusInv'
  <1>1. /\ pstep = "count" /\ CountNext(kept, edges) /\ pstep' = "count"
        /\ UNCHANGED <<kept, edges>> /\ Merged
    BY DEF CountRadius, mvars, PipelineInv, Phases
  <1>2. /\ todo \subseteq kept /\ root \in kept \cup {Absent} /\ root \notin todo
        /\ DOMAIN radius \subseteq kept \ (todo \cup {root})
        /\ \A x \in kept \ (todo \cup {root}) : CountIsRight(x)
        /\ root # Absent => OnTheWay
    BY <1>1 DEF RadiusInv
  <1>3. Absent \notin kept /\ \A e \in edges : e[1] \in kept
    BY <1>1, AbsentIsNoRow, KeptRows
  <1>4. \A x : /\ Issued(x, edges) \subseteq Beneath(x) /\ Beneath(x) \subseteq kept
               /\ \A y \in Beneath(x) : Issued(y, edges) \subseteq Beneath(x)
               /\ \A S \in SUBSET kept : Closed(x, S, edges) => Beneath(x) \subseteq S
    BY <1>3, BelowIsLeast DEF Beneath
  <1>5. \A x : Beneath(x)' = Beneath(x)
    BY <1>1 DEF Beneath
  <1>6. CASE StartRadius(edges)
    <2>1. PICK x \in todo : /\ root = Absent /\ todo' = todo \ {x} /\ root' = x
                            /\ queue' = Issued(x, edges) /\ seen' = {} /\ UNCHANGED radius
      BY <1>6 DEF StartRadius
    <2>2. OnTheWay'
      BY <1>1, <1>4, <1>5, <2>1 DEF OnTheWay
    <2>3. \A y \in kept \ (todo' \cup {root'}) : CountIsRight(y)'
      BY <1>2, <1>3, <1>5, <2>1 DEF CountIsRight
    <2> QED
      BY <1>1, <1>2, <1>3, <2>1, <2>2, <2>3 DEF RadiusInv
  <1>7. CASE EndRadius
    <2>1. /\ root # Absent /\ queue = {} /\ root' = Absent /\ UNCHANGED <<todo, queue, seen>>
          /\ radius' = IF seen = {} THEN radius
                       ELSE [x \in DOMAIN radius \cup {root} |->
                               IF x = root THEN Cardinality(seen) ELSE radius[x]]
      BY <1>7 DEF EndRadius
    <2>2. Beneath(root) = seen
      BY <1>2, <1>4, <2>1 DEF OnTheWay, Closed
    <2>3. ASSUME NEW y \in kept \ (todo' \cup {root'})
          PROVE  CountIsRight(y)'
      <3>1. CASE y = root
        BY <1>2, <1>5, <2>1, <2>2, <3>1 DEF CountIsRight
      <3>2. CASE y # root
        BY <1>2, <1>5, <2>1, <2>3, <3>2 DEF CountIsRight
      <3> QED
        BY <3>1, <3>2
    <2> QED
      BY <1>1, <1>2, <1>3, <2>1, <2>3 DEF RadiusInv
  <1>8. ASSUME NEW x \in queue, Pop(x, kept, edges)
        PROVE  RadiusInv'
    <2>1. /\ root # Absent /\ UNCHANGED <<todo, root, radius>>
          /\ IF x \in seen \/ x \notin kept
             THEN seen' = seen /\ queue' = queue \ {x}
             ELSE seen' = seen \cup {x} /\ queue' = (queue \ {x}) \cup Issued(x, edges)
      BY <1>8 DEF Pop
    <2>2. OnTheWay /\ x \in Beneath(root) /\ x \in kept
      BY <1>2, <1>4, <2>1 DEF OnTheWay
    <2>3. OnTheWay'
      <3>1. CASE x \in seen
        BY <1>1, <1>5, <2>1, <2>2, <3>1 DEF OnTheWay
      <3>2. CASE x \notin seen
        BY <1>1, <1>4, <1>5, <2>1, <2>2, <3>2 DEF OnTheWay
      <3> QED
        BY <3>1, <3>2
    <2>4. \A y \in kept \ (todo' \cup {root'}) : CountIsRight(y)'
      BY <1>2, <1>5, <2>1 DEF CountIsRight
    <2> QED
      BY <1>1, <1>2, <2>1, <2>3, <2>4 DEF RadiusInv
  <1> QED
    BY <1>1, <1>6, <1>7, <1>8 DEF CountNext

(* The count is not disturbed by what is not the count.                    *)
LEMMA RadiusInvSame ==
  ASSUME RadiusInv, UNCHANGED Counting,
         \/ UNCHANGED <<pstep, kept, edges>>
         \/ pstep' \in {"scan", "attribute", "merge"} /\ pstep \in {"scan", "attribute", "merge"}
  PROVE  RadiusInv'
  <1>1. UNCHANGED <<todo, root, queue, seen, radius>>
    BY DEF Counting
  <1>2. CASE UNCHANGED <<pstep, kept, edges>>
    BY <1>1, <1>2 DEF RadiusInv, NotCounting, CountIsRight, Beneath, OnTheWay
  <1>3. CASE pstep' \in {"scan", "attribute", "merge"} /\ pstep \in {"scan", "attribute", "merge"}
    BY <1>1, <1>3 DEF RadiusInv, NotCounting
  <1> QED
    BY <1>2, <1>3

(* The rest of run_scan() keeps the count right.                           *)
LEMMA RadiusKeeps ==
  ASSUME PipelineInv, RadiusInv, PipelineNext
  PROVE  RadiusInv'
  <1>1. CASE EndMerge
    BY <1>1, CountStarts
  <1>2. CASE CountRadius
    BY <1>2, CountGoesOn
  <1>3. CASE EndScans \/ Attribute \/ EndAttribute \/ MergeRows
    <2>1. UNCHANGED Counting /\ pstep' \in {"scan", "attribute", "merge"} /\ pstep \in {"scan", "attribute", "merge"}
      BY <1>3 DEF EndScans, Attribute, EndAttribute, MergeRows, cvars
    <2> QED
      BY <2>1, RadiusInvSame
  <1>4. CASE EndCount
    <2>1. pstep = "count" /\ pstep' = "done" /\ Counted /\ UNCHANGED <<kept, edges, todo, root, queue, seen, radius>>
      BY <1>4 DEF EndCount, mvars, cvars, Counting
    <2> QED
      BY <2>1 DEF RadiusInv, NotCounting, CountIsRight, Beneath, OnTheWay, Counted
  <1> QED
    BY <1>1, <1>2, <1>3, <1>4 DEF PipelineNext

(* When all is counted, a count is what is below.                          *)
LEMMA RadiusReaches ==
  ASSUME PipelineInv, RadiusInv
  PROVE  RadiusIsReach
  <1> SUFFICES ASSUME pstep = "done", NEW x \in kept
               PROVE  IF x \in DOMAIN radius THEN radius[x] = Cardinality(Below(x, kept, edges))
                      ELSE Below(x, kept, edges) = {}
    BY DEF RadiusIsReach
  <1>1. Absent \notin kept
    BY AbsentIsNoRow DEF PipelineInv, Phases
  <1> QED
    BY <1>1 DEF RadiusInv, CountIsRight, Beneath
=============================================================================
