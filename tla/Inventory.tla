------------------------------- MODULE Inventory -------------------------------
(***************************************************************************)
(* cbom_compass/inventory.py, merge(): the findings of every scanner       *)
(* become one inventory.                                                   *)
(*                                                                         *)
(* Pass 1 merges findings with the same identity key (models.py), keeping  *)
(* the first and adding the others' evidence to it.  Pass 2 folds a row    *)
(* that has neither key size nor parameters into a sized row of the same   *)
(* algorithm, library and place.  Then the relationships, which name       *)
(* findings, are rewritten to name the rows that are left.                 *)
(***************************************************************************)
EXTENDS Naturals, Sequences, FiniteSets, Findings

VARIABLES
  raw,            \* combined.assets, as the scanners produced them
  rels,           \* combined.relationships, naming findings by their ids
  mstep,          \* where merge() is
  nth,            \* the position of its loop
  rows,           \* merged: [identity key -> asset]
  order,          \* the keys of merged, in insertion order
  remap,          \* [id of a finding -> identity key of a row]
  kept,           \* the keys of survivors
  edges           \* the rewritten relationships

mvars == <<mstep, nth, rows, order, remap, kept, edges>>

(* Not the code: an absorption key without the place.                      *)
AnywhereKey(a) == <<a.name, a.lib>>

AbsorptionKey(a) == <<a.name, a.place, a.lib>>

Unsized(a) == a.size = None /\ a.params = None

(* sized.get(_absorption_key(row)): of the sized rows with that key, the   *)
(* last inserted one wins in the dictionary.                               *)
Twins(k) == {j \in DOMAIN order :
               /\ rows[order[j]].size # None
               /\ AbsorptionKey(rows[order[j]]) = AbsorptionKey(rows[k])}

Twin(k) == order[CHOOSE j \in Twins(k) : \A i \in Twins(k) : i <= j]

Absorbed(k) == Unsized(rows[k]) /\ Twins(k) # {} /\ Twin(k) # k

-----------------------------------------------------------------------------
InventoryInit ==
  /\ raw = <<>> /\ rels = {}
  /\ mstep = "identity" /\ nth = 1
  /\ rows = [k \in {} |-> None]
  /\ order = <<>>
  /\ remap = [k \in {} |-> None]
  /\ kept = {} /\ edges = {}

Extend(f, k, v) == [x \in DOMAIN f \cup {k} |-> IF x = k THEN v ELSE f[x]]

(* Pass 1, a key not seen before.                                          *)
InsertRow ==
  /\ mstep = "identity" /\ nth \in DOMAIN raw
  /\ LET k == IdentityKey(raw[nth]) IN
       /\ k \notin DOMAIN rows
       /\ rows' = Extend(rows, k, raw[nth])
       /\ order' = Append(order, k)
       /\ remap' = Extend(remap, k, k)
  /\ nth' = nth + 1
  /\ UNCHANGED <<raw, rels, mstep, kept, edges>>

(* Not the code: the later finding replaces the row.                       *)
ReplaceRow ==
  /\ mstep = "identity" /\ nth \in DOMAIN raw
  /\ LET k == IdentityKey(raw[nth]) IN
       /\ k \in DOMAIN rows
       /\ rows' = [rows EXCEPT ![k] = raw[nth]]
  /\ nth' = nth + 1
  /\ UNCHANGED <<raw, rels, mstep, order, remap, kept, edges>>

(* Pass 1, a key already there: its evidence joins the row's.              *)
MergeRow ==
  /\ mstep = "identity" /\ nth \in DOMAIN raw
  /\ LET k == IdentityKey(raw[nth]) IN
       /\ k \in DOMAIN rows
       /\ rows' = [rows EXCEPT ![k].ev = @ \cup raw[nth].ev]
  /\ nth' = nth + 1
  /\ UNCHANGED <<raw, rels, mstep, order, remap, kept, edges>>

EndPass1 ==
  /\ mstep = "identity" /\ nth \notin DOMAIN raw
  /\ mstep' = "absorb"
  /\ nth' = 1
  /\ UNCHANGED <<raw, rels, rows, order, remap, kept, edges>>

(* Pass 2, a row with a sized twin: the twin takes its evidence, and       *)
(* whatever was mapped to the row.                                         *)
AbsorbRow ==
  /\ mstep = "absorb" /\ nth \in DOMAIN order
  /\ LET k == order[nth] IN
       /\ Absorbed(k)
       /\ rows' = [rows EXCEPT ![Twin(k)].ev = @ \cup rows[k].ev]
       /\ remap' = [x \in DOMAIN remap |-> IF remap[x] = k THEN Twin(k) ELSE remap[x]]
  /\ nth' = nth + 1
  /\ UNCHANGED <<raw, rels, mstep, order, kept, edges>>

(* Pass 2, any other row.                                                  *)
KeepRow ==
  /\ mstep = "absorb" /\ nth \in DOMAIN order
  /\ ~Absorbed(order[nth])
  /\ kept' = kept \cup {order[nth]}
  /\ nth' = nth + 1
  /\ UNCHANGED <<raw, rels, mstep, rows, order, remap, edges>>

(* Not the code: an endpoint that was absorbed is not rewritten.           *)
StaleTarget(x) == x

(* remap.get(x, x)                                                         *)
Target(x) == IF x \in DOMAIN remap THEN remap[x] ELSE x

RewriteEdges ==
  /\ mstep = "absorb" /\ nth \notin DOMAIN order
  /\ edges' = {e \in {<<Target(r[1]), Target(r[2]), r[3]>> : r \in rels} :
                 e[1] # e[2] /\ e[1] \in kept /\ e[2] \in kept}
  /\ mstep' = "done"
  /\ UNCHANGED <<raw, rels, nth, rows, order, remap, kept>>

MergeNext == InsertRow \/ MergeRow \/ EndPass1 \/ AbsorbRow \/ KeepRow \/ RewriteEdges

-----------------------------------------------------------------------------
Merged == mstep = "done"

InventoryTypeOK ==
  /\ mstep \in {"identity", "absorb", "done"}
  /\ \A i \in DOMAIN raw : raw[i] \in Asset
  /\ DOMAIN rows = {order[j] : j \in DOMAIN order}
  /\ \A k \in DOMAIN rows : rows[k] \in Asset /\ IdentityKey(rows[k]) = k
  /\ remap \in [DOMAIN rows -> DOMAIN rows]
  /\ kept \subseteq DOMAIN rows
  /\ \A e \in edges : e[1] \in kept /\ e[2] \in kept

(* The row a finding ends up in.                                           *)
RowOf(i) == remap[IdentityKey(raw[i])]

(* merge() (inventory.py:53-90): when it is done every finding belongs to  *)
(* one surviving row, and a surviving row's evidence is that of its        *)
(* findings, no more and no less.                                          *)
EvidenceAccounted ==
  Merged =>
    /\ \A i \in DOMAIN raw : RowOf(i) \in kept
    /\ \A k \in kept : rows[k].ev = UNION {raw[i].ev : i \in {j \in DOMAIN raw : RowOf(j) = k}}

(* Pass 2 (inventory.py:35-43, 71-89) folds only what has no size, and     *)
(* only within a place: a key size that a scanner resolved is the size of  *)
(* the row the finding ends up in, unless a certificate's fingerprint made *)
(* one row of it; and a call site is never folded into a row of another    *)
(* place (models.py:124-128), where it would lose its service's tag.       *)
AbsorptionKeepsSizeAndPlace ==
  Merged =>
    \A i \in DOMAIN raw :
      LET row == rows[RowOf(i)] IN
      /\ raw[i].size \in {None, row.size} \/ raw[i].cert # None
      /\ raw[i].lib = None /\ raw[i].cert = None => row.place = raw[i].place

(* risk.py:117-122, "the algorithms it exposes, which are listed as        *)
(* separate assets": an algorithm that a library exposes, which is what    *)
(* carries the library's risk, is a row of its own.                        *)
ExposuresListed ==
  Merged =>
    \A i \in DOMAIN raw :
      raw[i].kind = "algorithm" => rows[RowOf(i)].kind = "algorithm"
=============================================================================
