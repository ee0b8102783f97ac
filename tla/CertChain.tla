------------------------------- MODULE CertChain -------------------------------
(***************************************************************************)
(* cbom_compass/scanners/certificates.py: link_chain() relates each        *)
(* certificate found on disk to the one that issued it, and blast_radius() *)
(* counts, with a worklist, the certificates below each one.               *)
(*                                                                         *)
(* A certificate is known by its fingerprint, which is the id of its asset *)
(* (models.py:136-138): the same certificate in two files is one asset,    *)
(* and two relationships with the same ends are one by the time the radius *)
(* is computed (inventory.py:99-103).  The links are made for one target   *)
(* at a time, the radius for the merged inventory.                         *)
(***************************************************************************)
EXTENDS Naturals, Sequences, FiniteSets

CONSTANTS
  Absent          \* a field the certificate does not have

VARIABLES
  chain,          \* "index", "link" or "linked"
  cat,            \* the certificate link_chain() has come to
  byKeyId,        \* [key id -> fingerprint of the first with it]
  bySubject,      \* [name -> fingerprint of the first with it]
  links,          \* its relationships: <<certificate, issuer>>
  todo,           \* the assets blast_radius() has still to count for
  root,           \* the one it is counting for, or Absent
  queue,          \* its worklist
  seen,           \* the assets below root found so far
  radius          \* [id -> count], zero counts left out

Linking == <<chain, cat, byKeyId, bySubject, links>>
Counting == <<todo, root, queue, seen, radius>>
cvars == <<Linking, Counting>>

(* Certificate.self_signed (x509.py:194-198).                              *)
SelfSigned(c) ==
  IF c.ski # Absent /\ c.aki # Absent THEN c.ski = c.aki
  ELSE c.subject # Absent /\ c.subject = c.issuer

(* index.setdefault(x, asset), skipping an absent field.                   *)
SetDefault(index, x, print) ==
  [y \in DOMAIN index \cup ({x} \ {Absent}) |-> IF y \in DOMAIN index THEN index[y] ELSE print]

(* Not the code: the name wins over the key id.                            *)
IssuerByName(c) ==
  IF c.issuer \in DOMAIN bySubject THEN bySubject[c.issuer]
  ELSE IF c.aki \in DOMAIN byKeyId THEN byKeyId[c.aki]
  ELSE Absent

(* The key id first, the name as a fallback.                               *)
IssuerOf(c) ==
  IF c.aki \in DOMAIN byKeyId THEN byKeyId[c.aki]
  ELSE IF c.issuer \in DOMAIN bySubject THEN bySubject[c.issuer]
  ELSE Absent

(* signed_by[x]: what x issued, by the relationships of that kind.         *)
Issued(x, edges) == {e[1] : e \in {d \in edges : d[3] = "signed-by" /\ d[2] = x}}

-----------------------------------------------------------------------------
ChainInit ==
  /\ chain = "index" /\ cat = 1
  /\ byKeyId = [x \in {} |-> Absent]
  /\ bySubject = [x \in {} |-> Absent]
  /\ links = {}
  /\ todo = {} /\ root = Absent /\ queue = {} /\ seen = {}
  /\ radius = [x \in {} |-> 0]

(* link_chain() is called for each target.                                 *)
LinkReset ==
  /\ chain' = "index" /\ cat' = 1
  /\ byKeyId' = [x \in {} |-> Absent]
  /\ bySubject' = [x \in {} |-> Absent]
  /\ links' = {}
  /\ UNCHANGED Counting

(* link_chain()'s first loop.                                              *)
IndexCertificate(found) ==
  /\ chain = "index" /\ cat \in DOMAIN found
  /\ byKeyId' = SetDefault(byKeyId, found[cat].ski, found[cat].print)
  /\ bySubject' = SetDefault(bySubject, found[cat].subject, found[cat].print)
  /\ cat' = cat + 1
  /\ UNCHANGED <<chain, links, Counting>>

EndIndex(found) ==
  /\ chain = "index" /\ cat \notin DOMAIN found
  /\ chain' = "link" /\ cat' = 1
  /\ UNCHANGED <<byKeyId, bySubject, links, Counting>>

(* Its second loop: a root is skipped, so is a certificate whose issuer is *)
(* not there or is itself.                                                 *)
LinkCertificate(found) ==
  /\ chain = "link" /\ cat \in DOMAIN found
  /\ LET c == found[cat]
         issuer == IssuerOf(c) IN
       links' = IF SelfSigned(c) \/ issuer \in {Absent, c.print} THEN links
                ELSE links \cup {<<c.print, issuer>>}
  /\ cat' = cat + 1
  /\ UNCHANGED <<chain, byKeyId, bySubject, Counting>>

EndLink(found) ==
  /\ chain = "link" /\ cat \notin DOMAIN found
  /\ chain' = "linked"
  /\ UNCHANGED <<cat, byKeyId, bySubject, links, Counting>>

LinkNext(found) ==
  IndexCertificate(found) \/ EndIndex(found) \/ LinkCertificate(found) \/ EndLink(found)

-----------------------------------------------------------------------------
(* blast_radius() over a report's assets; one that issued nothing gets no  *)
(* count, and is left out from the start.                                  *)
CountFrom(known, edges) ==
  /\ todo' = {x \in known : Issued(x, edges) # {}}
  /\ UNCHANGED <<Linking, root, queue, seen, radius>>

(* In some order: each count starts afresh.                                *)
StartRadius(edges) ==
  /\ root = Absent /\ todo # {}
  /\ LET x == CHOOSE y \in todo : TRUE IN
       todo' = todo \ {x} /\ root' = x /\ queue' = Issued(x, edges)
  /\ seen' = {}
  /\ UNCHANGED <<Linking, radius>>

(* Not the code: only what the root itself issued.                         *)
PopDirectOnly(x, known, edges) ==
  /\ root # Absent /\ x \in queue
  /\ queue' = queue \ {x} /\ seen' = seen \cup {x}
  /\ UNCHANGED <<Linking, todo, root, radius>>

(* The worklist, as a set: what is popped is counted once, and what it     *)
(* issued is queued.  A duplicate in the code's list is popped and skipped.*)
Pop(x, known, edges) ==
  /\ root # Absent /\ x \in queue
  /\ IF x \in seen \/ x \notin known
     THEN seen' = seen /\ queue' = queue \ {x}
     ELSE seen' = seen \cup {x} /\ queue' = (queue \ {x}) \cup Issued(x, edges)
  /\ UNCHANGED <<Linking, todo, root, radius>>

(* The worklist is empty: an empty result is left out.                     *)
EndRadius ==
  /\ root # Absent /\ queue = {}
  /\ radius' = IF seen = {} THEN radius
               ELSE [x \in DOMAIN radius \cup {root} |->
                       IF x = root THEN Cardinality(seen) ELSE radius[x]]
  /\ root' = Absent
  /\ UNCHANGED <<Linking, todo, queue, seen>>

CountNext(known, edges) ==
  \/ StartRadius(edges) \/ EndRadius
  \/ \E x \in queue : Pop(x, known, edges)

Counted == todo = {} /\ root = Absent

-----------------------------------------------------------------------------
(* What a certificate's replacement invalidates, as a definition: the      *)
(* least set that holds what x issued and what its members issued.         *)
Closed(x, below, edges) ==
  Issued(x, edges) \subseteq below /\ \A y \in below : Issued(y, edges) \subseteq below
Below(x, known, edges) ==
  {y \in known : \A below \in SUBSET known : Closed(x, below, edges) => y \in below}
=============================================================================
