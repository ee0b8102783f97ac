------------------------------- MODULE Pipeline -------------------------------
(***************************************************************************)
(* What engine.run_scan() makes of what its scanners found: their results  *)
(* are joined (a container's after it has relocated them, and with the     *)
(* links of link_chain() where there are certificates), call sites are     *)
(* linked to the modules they go through, the inventory is merged, and the *)
(* radius counted; and the CBOM documents cbom.py builds from it.          *)
(*                                                                         *)
(* A result is [assets, links, moved, found]: its findings, relationships  *)
(* <<i, j, kind>> between them, those that a container scanner relocated,  *)
(* and the certificates that assets[i] are, if they are.                   *)
(***************************************************************************)
EXTENDS Inventory, CertChain

CONSTANT LowerCase    \* the names that are not in lower case, to those that are

(* A module has a row as a library without a version; an absent issuer is  *)
(* not the key of a row.                                                   *)
ASSUME PipelineAssumption ==
  /\ Providers \subseteq Names /\ Providers \X {None} \subseteq Libraries
  /\ "import-attribution" \in Methods
  /\ None \notin Libraries
  /\ Absent \notin Identities

VARIABLES
  pstep,          \* "scan", "attribute", "merge", "count" or "done"
  handled,        \* the providers attribute_providers() is done with
  said            \* history: the relationships, by the findings' positions

pvars == <<pstep, handled, said, raw, rels, mvars, cvars>>

PipelineInit ==
  /\ InventoryInit /\ ChainInit
  /\ pstep = "scan" /\ handled = {} /\ said = {}

LeastOf(S) == CHOOSE i \in S : \A j \in S : i <= j

(* container._scan_tree(): the findings of the other scanners move into    *)
(* the image, when their relationships have been made.                     *)
InImage(place) == <<"image">> \o place

Relocated(a) ==
  [a EXCEPT !.place = InImage(@), !.ev = {<<InImage(e[1]), e[2]>> : e \in @}]

(* The links of link_chain(), by the positions of the certificates.        *)
Signed(found) ==
  {<<LeastOf({i \in DOMAIN found : found[i].print = l[1]}),
     LeastOf({i \in DOMAIN found : found[i].print = l[2]}), "signed-by">> : l \in links}

(* combined.extend()                                                       *)
JoinResult(result) ==
  LET id(i) == IdentityKey(result.assets[i])
      all == result.links \cup Signed(result.found)
      n == Len(raw)
  IN
  /\ raw' = raw \o [i \in DOMAIN result.assets |->
                      IF i \in result.moved THEN Relocated(result.assets[i]) ELSE result.assets[i]]
  /\ rels' = rels \cup {<<id(l[1]), id(l[2]), l[3]>> : l \in all}
  /\ said' = said \cup {<<n + l[1], n + l[2], l[3]>> : l \in all}
  /\ UNCHANGED <<pstep, handled, mvars>>

EndScans ==
  /\ pstep = "scan" /\ pstep' = "attribute"
  /\ UNCHANGED <<handled, said, raw, rels, mvars, cvars>>

-----------------------------------------------------------------------------
Waiting == {raw[i].provider : i \in DOMAIN raw} \ (handled \cup {None})

Users(p) == {i \in DOMAIN raw : raw[i].provider = p}

(* str.lower()                                                             *)
Lower(name) == IF name \in DOMAIN LowerCase THEN LowerCase[name] ELSE name

(* existing: the rows of libraries of that name, in whichever case and of  *)
(* whichever version.                                                      *)
LibraryRows(p) ==
  {i \in DOMAIN raw :
     raw[i].kind = "material" /\ raw[i].lib # None /\ Lower(raw[i].lib[1]) = Lower(p)}

(* The row of a module that no scanner reported as a library.              *)
ModuleRow(p, user) ==
  [name |-> p, kind |-> "material", size |-> None, params |-> None, lib |-> <<p, None>>,
   place |-> user.place, cert |-> None, provider |-> None,
   ev |-> {<<user.place, "import-attribution">>}]

(* Not the code: only a module that got a row of its own is linked.        *)
AttributeNewOnly ==
  /\ pstep = "attribute" /\ Waiting # {}
  /\ LET p == CHOOSE q \in Waiting : TRUE
         to == Len(raw) + 1
     IN
     /\ IF LibraryRows(p) # {} THEN UNCHANGED <<raw, rels, said>>
        ELSE /\ raw' = Append(raw, ModuleRow(p, raw[LeastOf(Users(p))]))
             /\ rels' = rels \cup {<<IdentityKey(raw'[u]), IdentityKey(raw'[to]), "depends-on">> :
                                     u \in Users(p)}
             /\ said' = said \cup {<<u, to, "depends-on">> : u \in Users(p)}
     /\ handled' = handled \cup {p}
  /\ UNCHANGED <<pstep, mvars, cvars>>

(* attribute_providers(), a provider at a time; each joins the first       *)
(* library row of its name.  Their order changes only in which case the    *)
(* new row of a module is spelt that call sites spell in two.              *)
Attribute ==
  /\ pstep = "attribute" /\ Waiting # {}
  /\ LET p == CHOOSE q \in Waiting : TRUE
         to == IF LibraryRows(p) # {} THEN LeastOf(LibraryRows(p)) ELSE Len(raw) + 1
     IN
     /\ raw' = IF LibraryRows(p) # {} THEN raw
               ELSE Append(raw, ModuleRow(p, raw[LeastOf(Users(p))]))
     /\ rels' = rels \cup {<<IdentityKey(raw'[u]), IdentityKey(raw'[to]), "depends-on">> :
                             u \in Users(p)}
     /\ said' = said \cup {<<u, to, "depends-on">> : u \in Users(p)}
     /\ handled' = handled \cup {p}
  /\ UNCHANGED <<pstep, mvars, cvars>>

EndAttribute ==
  /\ pstep = "attribute" /\ Waiting = {}
  /\ pstep' = "merge"
  /\ UNCHANGED <<handled, said, raw, rels, mvars, cvars>>

MergeRows ==
  /\ pstep = "merge" /\ MergeNext
  /\ UNCHANGED <<pstep, handled, said, cvars>>

EndMerge ==
  /\ pstep = "merge" /\ Merged
  /\ pstep' = "count" /\ CountFrom(kept, edges)
  /\ UNCHANGED <<handled, said, raw, rels, mvars>>

CountRadius ==
  /\ pstep = "count" /\ CountNext(kept, edges)
  /\ UNCHANGED <<pstep, handled, said, raw, rels, mvars>>

EndCount ==
  /\ pstep = "count" /\ Counted
  /\ pstep' = "done"
  /\ UNCHANGED <<handled, said, raw, rels, mvars, cvars>>

PipelineNext ==
  \/ EndScans \/ Attribute \/ EndAttribute
  \/ MergeRows \/ EndMerge \/ CountRadius \/ EndCount

-----------------------------------------------------------------------------
(* cbom._component(): it is known by the id that the row now has.          *)
Component(k) == [ref |-> IdentityKey(rows[k]), type |-> rows[k].kind]

(* cbom.build(): a component for each row, and the relationships as        *)
(* dependencies of references.                                             *)
Document(keep, relationships) ==
  [components |-> [k \in keep |-> Component(k)],
   dependencies |-> {<<e[1], e[2]>> : e \in relationships}]

(* cbom.validate(): its complaints about what differs between documents.   *)
Complaints(d) ==
  LET refs == {d.components[k].ref : k \in DOMAIN d.components} IN
  {<<"not unique", d.components[k].ref>> :
     k \in {j \in DOMAIN d.components :
              \E i \in DOMAIN d.components \ {j} : d.components[i].ref = d.components[j].ref}}
  \cup {<<"assetType", k>> :
          k \in {j \in DOMAIN d.components :
                   d.components[j].type \notin {"algorithm", "certificate", "protocol", "material"}}}
  \cup {<<"no component", x>> : x \in (UNION {{e[1], e[2]} : e \in d.dependencies}) \ refs}

(* Not the code: a relationship out of the exported rows is exported.      *)
SourcesOnly(keep) == {e \in edges : e[1] \in keep}

(* export_cbom(): the relationships between the rows a filter keeps.       *)
Exported(keep) == {e \in edges : e[1] \in keep /\ e[2] \in keep}

-----------------------------------------------------------------------------
(* inventory.py:93-104, engine.py:192-235, container.py:133-151: however   *)
(* findings were relocated, merged or absorbed after a relationship was    *)
(* made between them, it joins the rows they are in, if those are two, and *)
(* the inventory has no other relationship.                                *)
EdgesFollowFindings ==
  Merged =>
    edges = {<<RowOf(l[1]), RowOf(l[2]), l[3]>> :
               l \in {m \in said : RowOf(m[1]) # RowOf(m[2])}}

(* engine.py:192-235: a call site that goes through a module leads, in the *)
(* merged inventory, to a row of that module, whether a manifest named it, *)
(* in one version or two and in whichever case, or only the call sites did.*)
ProvidersLinked ==
  Merged =>
    \A i \in {j \in DOMAIN raw : raw[j].provider # None} :
      \E k \in kept :
        /\ rows[k].lib # None /\ Lower(rows[k].lib[1]) = Lower(raw[i].provider)
        /\ <<RowOf(i), k, "depends-on">> \in edges

(* cbom.py:185-291, api.py:455-469, 533-548: whatever rows a filter leaves *)
(* in, the document built of them has a component for every reference.     *)
DocumentValid ==
  Merged => \A keep \in SUBSET kept : Complaints(Document(keep, Exported(keep))) = {}

(* blast_radius (certificates.py:165-192): whatever the shape of the       *)
(* graph, cycles of cross-signed authorities included, the worklist ends   *)
(* with exactly the certificates below the one it counts for.              *)
RadiusIsReach ==
  pstep = "done" =>
    \A x \in kept : IF x \in DOMAIN radius THEN radius[x] = Cardinality(Below(x, kept, edges))
                    ELSE Below(x, kept, edges) = {}
=============================================================================
