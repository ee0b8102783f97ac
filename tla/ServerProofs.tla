---------------------------- MODULE ServerProofs ----------------------------
(***************************************************************************)
(* Proofs about module ScanServer, for any requests, settings, retention   *)
(* and number of crashes: its types; that a request told "ok" is durable;  *)
(* that the concurrent requests write a Ledger; how many trees the         *)
(* workspace holds, and what a scan can lose its tree to.                  *)
(*                                                                         *)
(* Types says what a request can be by the step it is at; Written, beside  *)
(* it, what that request has written to the store, which is what its       *)
(* durability and the Ledger need; and WorkspaceInv that trees are dated   *)
(* apart, and what the prunes underway leave and take between them.        *)
(***************************************************************************)
EXTENDS ScanServer, FiniteSetTheorems, SequenceTheorems, TLAPS

(* Trees, each with a date.                                                *)
Listings == UNION {[S -> Nat] : S \in SUBSET Requests}

(* What TypeOK says of a request, as the set of the records it can be.     *)
RequestRecord ==
  [kind : AllKinds \cup {"none"}, step : Steps, scanned : 0..NScanners, rated : 0..NAssets,
   missed : BOOLEAN, used : SUBSET Settings, header : Settings,
   body : Bodies \cup {<<>>}, applied : SUBSET Fields, dates : Listings, outcome : Outcomes]

ReqType == DOMAIN req = Requests /\ \A r \in Requests : req[r] \in RequestRecord

(* The steps of a request that prunes; past the first it has listed trees. *)
Listed     == {"date", "take", "drop"}
PruneSteps == {"prune"} \cup Listed

(* What a request can be by the step it is at, and the settings it has     *)
(* applied are some of its body's.                                         *)
Allowed(kind, step) ==
  /\ step = "new" <=> kind = "none"
  /\ step = "ingest" => kind \in WithTree
  /\ step \in {"scan", "save", "recorded"} => kind \in ScanKinds
  /\ step \in PruneSteps => kind \in Prunes
  /\ step = "apply" => kind = "settings"
  /\ step \in {"load", "log"} => kind = "export"

StepKind(x) ==
  /\ Allowed(x.kind, x.step)
  /\ x.step = "new" => x.applied = {}
  /\ x.applied \subseteq DOMAIN x.body

Shape == ReqType /\ \A r \in Requests : StepKind(req[r])

-----------------------------------------------------------------------------
(* The settings a body can carry.                                          *)
LEMMA BodyDomain ==
  ASSUME NEW body \in Bodies \cup {<<>>}
  PROVE  /\ DOMAIN body \subseteq Fields
         /\ \A f \in DOMAIN body : body[f] \in Values \cup {Unusable, Malformed}
  <1>1. CASE body \in Bodies
    <2>1. PICK F \in SUBSET Fields : body \in [F -> Values \cup {Unusable, Malformed}]
      BY <1>1, ScanServerAssumption
    <2> QED
      BY <2>1
  <1>2. CASE body = <<>>
    BY <1>2
  <1> QED
    BY <1>1, <1>2

(* put_policy takes a setting of the body it has not taken yet.            *)
LEMMA NextFieldIsDue ==
  ASSUME Shape, NEW r \in Requests, req[r].applied # DOMAIN req[r].body
  PROVE  NextField(r) \in DOMAIN req[r].body
  <1> DEFINE todo == {i \in DOMAIN FieldOrder :
                        FieldOrder[i] \in DOMAIN req[r].body \ req[r].applied}
  <1>1. req[r] \in RequestRecord /\ req[r].applied \subseteq DOMAIN req[r].body
    BY DEF Shape, ReqType, StepKind
  <1>2. DOMAIN req[r].body \subseteq Fields
    BY <1>1, BodyDomain DEF RequestRecord
  <1>3. DOMAIN FieldOrder = 1..4
    BY DEF FieldOrder
  <1>4. PICK k \in 1..4 : k \in todo
    BY <1>1, <1>2, <1>3 DEF Fields
  <1>5. todo \subseteq 1..4
    BY <1>3
  <1> HIDE DEF todo
  <1>6. \E i \in todo : \A j \in todo : i <= j
    <2>1. CASE 1 \in todo
      BY <2>1, <1>5
    <2>2. CASE 1 \notin todo /\ 2 \in todo
      BY <2>2, <1>5
    <2>3. CASE 1 \notin todo /\ 2 \notin todo /\ 3 \in todo
      BY <2>3, <1>5
    <2>4. CASE 1 \notin todo /\ 2 \notin todo /\ 3 \notin todo
      BY <2>4, <1>4, <1>5
    <2> QED
      BY <2>1, <2>2, <2>3, <2>4
  <1>7. (CHOOSE i \in todo : \A j \in todo : i <= j) \in todo
    BY <1>6
  <1> QED
    BY <1>7 DEF NextField, todo

-----------------------------------------------------------------------------
(* The types.                                                              *)

(* A request that has listed nothing.                                      *)
LEMMA EmptyListing == <<>> \in Listings
  <1>1. <<>> \in [{} -> Nat]
    OBVIOUS
  <1> QED
    BY <1>1 DEF Listings

(* One request changes to another well-formed one.                         *)
LEMMA ShapeReplaced ==
  ASSUME Shape, NEW r \in Requests, req'[r] \in RequestRecord, StepKind(req'[r]),
         DOMAIN req' = Requests, \A q \in Requests \ {r} : req'[q] = req[q]
  PROVE  Shape'
  BY DEF Shape, ReqType, StepKind

(* A request arrives as what it is.                                        *)
LEMMA ArriveShape ==
  ASSUME Shape, NEW r \in Requests, NEW kind \in AllKinds, NEW body \in Bodies \cup {<<>>},
         Arrive(r, kind, body)
  PROVE  Shape'
  <1> DEFINE first == CASE kind \in WithTree   -> "ingest"
                        [] kind = "paths"      -> "scan"
                        [] kind = "settings"   -> "apply"
                        [] kind = "export"     -> "load"
             x     == [req[r] EXCEPT !.kind = kind, !.body = body, !.step = first]
  <1>1. req[r] \in RequestRecord /\ StepKind(req[r]) /\ req[r].step = "new"
    BY DEF Shape, ReqType, Arrive, At
  <1>2. DOMAIN req' = Requests /\ req'[r] = x /\ \A q \in Requests \ {r} : req'[q] = req[q]
    BY DEF Arrive, Shape, ReqType
  <1>3. first \in {"ingest", "scan", "apply", "load"} /\ Allowed(kind, first)
    BY DEF AllKinds, WithTree, ScanKinds, Allowed, PruneSteps, Listed
  <1> HIDE DEF first
  <1>4. first \in Steps
    BY <1>3 DEF Steps
  <1>5. x \in RequestRecord
    BY <1>1, <1>4 DEF RequestRecord
  <1>6. x.kind = kind /\ x.body = body /\ x.step = first /\ x.applied = {}
    BY <1>1 DEF RequestRecord, StepKind
  <1> HIDE DEF x
  <1>7. StepKind(x)
    BY <1>3, <1>6 DEF StepKind
  <1> QED
    BY <1>2, <1>5, <1>7, ShapeReplaced

(* A request goes on to a step of its kind.                                *)
LEMMA GotoShape ==
  ASSUME Shape, NEW r \in Requests, NEW step \in Steps \ {"new"}, Goto(r, step),
         Allowed(req[r].kind, step)
  PROVE  Shape'
  <1> DEFINE x == [req[r] EXCEPT !.step = step]
  <1>1. req[r] \in RequestRecord /\ StepKind(req[r])
    BY DEF Shape, ReqType
  <1>2. DOMAIN req' = Requests /\ req'[r] = x /\ \A q \in Requests \ {r} : req'[q] = req[q]
    BY DEF Goto, Shape, ReqType
  <1>3. /\ x \in RequestRecord
        /\ x.step = step /\ x.kind = req[r].kind /\ x.body = req[r].body
        /\ x.applied = req[r].applied
    BY <1>1 DEF RequestRecord
  <1> HIDE DEF x
  <1>4. StepKind(x)
    BY <1>1, <1>3 DEF StepKind
  <1> QED
    BY <1>2, <1>3, <1>4, ShapeReplaced

(* A request that was underway has its reply.                              *)
LEMMA FinishShape ==
  ASSUME Shape, NEW r \in Requests, NEW outcome \in Outcomes, Finish(r, outcome),
         req[r].step # "new"
  PROVE  Shape'
  <1> DEFINE x == [req[r] EXCEPT !.step = "reply", !.outcome = outcome]
  <1>1. req[r] \in RequestRecord /\ StepKind(req[r])
    BY DEF Shape, ReqType
  <1>2. DOMAIN req' = Requests /\ req'[r] = x /\ \A q \in Requests \ {r} : req'[q] = req[q]
    BY DEF Finish, Shape, ReqType
  <1>3. /\ x \in RequestRecord
        /\ x.step = "reply" /\ x.kind = req[r].kind /\ x.body = req[r].body
        /\ x.applied = req[r].applied
    BY <1>1 DEF RequestRecord, Steps
  <1> HIDE DEF x
  <1>4. StepKind(x)
    BY <1>1, <1>3 DEF StepKind, Allowed, PruneSteps, Listed
  <1> QED
    BY <1>2, <1>3, <1>4, ShapeReplaced

(* Whoever dies is lost, and the others go on.                             *)
LEMMA LoseShape ==
  ASSUME Shape, NEW victims \in SUBSET Requests, Lose(victims),
         \A r \in victims : req[r].step # "new"
  PROVE  Shape'
  <1>1. DOMAIN req' = Requests
    BY DEF Lose
  <1>2. ASSUME NEW r \in Requests PROVE req'[r] \in RequestRecord /\ StepKind(req'[r])
    <2> DEFINE x == [req[r] EXCEPT !.step = "answered", !.outcome = "lost"]
    <2>1. req[r] \in RequestRecord /\ StepKind(req[r])
      BY DEF Shape, ReqType
    <2>2. CASE r \notin victims
      BY <2>1, <2>2 DEF Lose
    <2>3. CASE r \in victims
      <3>1. req'[r] = x
        BY <2>3 DEF Lose
      <3>2. /\ x \in RequestRecord
            /\ x.step = "answered" /\ x.kind = req[r].kind /\ x.body = req[r].body
            /\ x.applied = req[r].applied
        BY <2>1 DEF RequestRecord, Steps, Outcomes
      <3> HIDE DEF x
      <3>3. StepKind(x)
        BY <2>1, <2>3, <3>2 DEF StepKind, Allowed, PruneSteps, Listed
      <3> QED
        BY <3>1, <3>2, <3>3
    <2> QED
      BY <2>2, <2>3
  <1> QED
    BY <1>1, <1>2 DEF Shape, ReqType

(* What is known of every state's shape.                                   *)
Types == TypeOK /\ Shape

(* A scanner runs, an asset is rated, a document is rendered: the request  *)
(* records it.                                                             *)
LEMMA ProgressShape ==
  ASSUME Types, NEW r \in Requests, RunScanner(r) \/ RateAsset(r) \/ Render(r)
  PROVE  Shape'
  <1>1. req[r] \in RequestRecord /\ StepKind(req[r]) /\ req[r].step = "scan"
    BY DEF Types, Shape, ReqType, RunScanner, RateAsset, Render, At
  <1>2. PolicyOf(r) \in Settings
    BY ScanServerAssumption DEF Types, TypeOK, PolicyOf, Settings
  <1>3. CASE RunScanner(r)
    <2> DEFINE seen == req[r].missed \/ r \in cut
               x    == [req[r] EXCEPT !.scanned = @ + 1, !.missed = seen]
    <2>1. DOMAIN req' = Requests /\ req'[r] = x /\ \A q \in Requests \ {r} : req'[q] = req[q]
      BY <1>3 DEF RunScanner, Types, Shape, ReqType
    <2>2. req[r].scanned + 1 \in 0..NScanners
      BY <1>1, <1>3, ScanServerAssumption DEF RunScanner, RequestRecord
    <2>3. seen \in BOOLEAN
      BY <1>1 DEF RequestRecord
    <2> HIDE DEF seen
    <2>4. x \in RequestRecord
      BY <1>1, <2>2, <2>3 DEF RequestRecord
    <2>5. x.kind = req[r].kind /\ x.step = "scan" /\ x.body = req[r].body /\ x.applied = req[r].applied
      BY <1>1 DEF RequestRecord
    <2> HIDE DEF x
    <2>6. StepKind(x)
      BY <1>1, <2>5 DEF StepKind
    <2> QED
      BY <2>1, <2>4, <2>6, ShapeReplaced DEF Types
  <1>4. CASE RateAsset(r)
    <2> DEFINE x == [req[r] EXCEPT !.rated = @ + 1, !.used = @ \cup {PolicyOf(r)}]
    <2>1. DOMAIN req' = Requests /\ req'[r] = x /\ \A q \in Requests \ {r} : req'[q] = req[q]
      BY <1>4 DEF RateAsset, Types, Shape, ReqType
    <2>2. req[r].rated + 1 \in 0..NAssets
      BY <1>1, <1>4, ScanServerAssumption DEF RateAsset, RequestRecord
    <2>3. req[r].used \cup {PolicyOf(r)} \in SUBSET Settings
      BY <1>1, <1>2 DEF RequestRecord
    <2>4. x \in RequestRecord
      BY <1>1, <2>2, <2>3 DEF RequestRecord
    <2>5. x.kind = req[r].kind /\ x.step = "scan" /\ x.body = req[r].body /\ x.applied = req[r].applied
      BY <1>1 DEF RequestRecord
    <2> HIDE DEF x
    <2>6. StepKind(x)
      BY <1>1, <2>5 DEF StepKind
    <2> QED
      BY <2>1, <2>4, <2>6, ShapeReplaced DEF Types
  <1>5. CASE Render(r)
    <2> DEFINE x == [req[r] EXCEPT !.header = PolicyOf(r), !.step = "save"]
    <2>1. DOMAIN req' = Requests /\ req'[r] = x /\ \A q \in Requests \ {r} : req'[q] = req[q]
      BY <1>5 DEF Render, Types, Shape, ReqType
    <2>2. x \in RequestRecord
      BY <1>1, <1>2 DEF RequestRecord, Steps
    <2>3. x.kind = req[r].kind /\ x.step = "save" /\ x.body = req[r].body /\ x.applied = req[r].applied
      BY <1>1 DEF RequestRecord
    <2> HIDE DEF x
    <2>4. StepKind(x)
      BY <1>1, <2>3 DEF StepKind, Allowed, PruneSteps, Listed
    <2> QED
      BY <2>1, <2>2, <2>4, ShapeReplaced DEF Types
  <1> QED
    BY <1>3, <1>4, <1>5

(* A setting is applied: one more of the body's.                           *)
LEMMA ApplyShape ==
  ASSUME Types, NEW r \in Requests, ApplySetting(r)
  PROVE  Shape' /\ policy' \in Settings
  <1> DEFINE f == NextField(r)
             x == [req[r] EXCEPT !.applied = @ \cup {f}]
  <1>1. req[r] \in RequestRecord /\ StepKind(req[r]) /\ req[r].step = "apply"
    BY DEF Types, Shape, ReqType, ApplySetting, At
  <1>2. f \in DOMAIN req[r].body
    BY NextFieldIsDue DEF Types, ApplySetting
  <1>3. f \in Fields /\ req[r].body[f] \in Values \cup {Unusable, Malformed}
    BY <1>1, <1>2, BodyDomain DEF RequestRecord
  <1>4. CASE req[r].body[f] = Malformed
    <2>1. Finish(r, "error") /\ policy' = policy
      BY <1>4 DEF ApplySetting
    <2> QED
      BY <1>1, <2>1, FinishShape DEF Types, TypeOK, Outcomes
  <1>5. CASE req[r].body[f] # Malformed
    <2>1. policy' = [policy EXCEPT ![f] = req[r].body[f]] /\ req' = [req EXCEPT ![r].applied = @ \cup {f}]
      BY <1>5 DEF ApplySetting
    <2>2. policy' \in Settings
      BY <1>3, <1>5, <2>1 DEF Types, TypeOK, Settings
    <2>3. DOMAIN req' = Requests /\ req'[r] = x /\ \A q \in Requests \ {r} : req'[q] = req[q]
      BY <2>1 DEF Types, Shape, ReqType
    <2> HIDE DEF f
    <2>4. x \in RequestRecord
      BY <1>1, <1>3 DEF RequestRecord
    <2>5. /\ x.kind = req[r].kind /\ x.step = "apply" /\ x.body = req[r].body
          /\ x.applied = req[r].applied \cup {f}
      BY <1>1 DEF RequestRecord
    <2> HIDE DEF x
    <2>6. StepKind(x)
      BY <1>1, <1>2, <2>5 DEF StepKind
    <2> QED
      BY <2>2, <2>3, <2>4, <2>6, ShapeReplaced DEF Types
  <1> QED
    BY <1>4, <1>5

(* A prune lists, ranks and removes trees: its request records them.       *)
LEMMA PruneShape ==
  ASSUME Types, NEW r \in Requests, PruneStep(r)
  PROVE  Shape' /\ policy' = policy
  <1>1. /\ req[r] \in RequestRecord /\ StepKind(req[r]) /\ req[r].dates \in Listings
        /\ present \in SUBSET Requests /\ mtime \in [Requests -> Nat]
    BY DEF Types, TypeOK, Shape, ReqType, RequestRecord
  <1>2. ASSUME NEW step \in Listed, NEW dates \in Listings, req[r].step \in PruneSteps,
               req' = [req EXCEPT ![r].step = step, ![r].dates = dates]
        PROVE  Shape'
    <2> DEFINE x == [req[r] EXCEPT !.step = step, !.dates = dates]
    <2>1. DOMAIN req' = Requests /\ req'[r] = x /\ \A q \in Requests \ {r} : req'[q] = req[q]
      BY <1>2 DEF Types, Shape, ReqType
    <2>2. x \in RequestRecord
      BY <1>1 DEF RequestRecord, Steps, Listed
    <2>3. x.kind = req[r].kind /\ x.step = step /\ x.body = req[r].body /\ x.applied = req[r].applied
      BY <1>1 DEF RequestRecord
    <2> HIDE DEF x
    <2>4. StepKind(x)
      BY <1>1, <1>2, <2>3 DEF StepKind, Allowed, PruneSteps, Listed
    <2> QED
      BY <2>1, <2>2, <2>4, ShapeReplaced DEF Types
  <1> USE DEF At
  <1>3. CASE DateRaises(r) \/ EndPrune(r)
    BY <1>3, FinishShape DEF Types, DateRaises, EndPrune, Outcomes
  <1>4. CASE \E q \in Requests : TakeApart(r, q)
    <2>1. Goto(r, "drop") /\ Allowed(req[r].kind, "drop") /\ "drop" \in Steps \ {"new"}
      BY <1>1, <1>4 DEF TakeApart, StepKind, Allowed, PruneSteps, Listed, Steps
    <2> QED
      BY <1>4, <2>1, GotoShape DEF Types, TakeApart
  <1>5. CASE ListTrees(r)
    <2>1. [q \in present |-> mtime[q]] \in Listings
      BY <1>1 DEF Listings
    <2> QED
      BY <1>2, <1>5, <2>1 DEF ListTrees, PruneSteps, Listed
  <1>6. CASE RankTrees(r)
    <2>1. PICK seen \in SUBSET DOMAIN req[r].dates :
                 \E late \in SUBSET {q \in seen : mtime[q] # req[r].dates[q]} :
                   GoesOn(r, After(ReadDates(r, seen, late), Keep), ReadDates(r, seen, late))
      BY <1>6 DEF RankTrees
    <2>2. PICK late \in SUBSET {q \in seen : mtime[q] # req[r].dates[q]} :
                 GoesOn(r, After(ReadDates(r, seen, late), Keep), ReadDates(r, seen, late))
      BY <2>1
    <2> DEFINE dates == ReadDates(r, seen, late)
               stale == After(dates, Keep)
    <2>3. DOMAIN dates = seen /\ seen \in SUBSET Requests /\ \A q \in seen : dates[q] \in Nat
      BY <1>1 DEF ReadDates, Listings
    <2>4. stale \in SUBSET seen
      BY <2>3 DEF After
    <2> HIDE DEF dates, stale
    <2>5. [q \in stale |-> dates[q]] \in [stale -> Nat] /\ stale \in SUBSET Requests
      BY <2>3, <2>4
    <2>6. [q \in stale |-> dates[q]] \in Listings
      BY <2>5 DEF Listings
    <2>7. req' = [req EXCEPT ![r].step = "take", ![r].dates = [q \in stale |-> dates[q]]]
      BY <2>2 DEF GoesOn, dates, stale
    <2> QED
      BY <1>2, <1>6, <2>6, <2>7 DEF RankTrees, PruneSteps, Listed
  <1>7. ASSUME NEW q \in Requests, DropTree(r, q) PROVE Shape'
    <2> DEFINE left == DOMAIN req[r].dates \ {q}
    <2>1. [p \in left |-> req[r].dates[p]] \in [left -> Nat] /\ left \in SUBSET Requests
      BY <1>1 DEF Listings
    <2>2. [p \in left |-> req[r].dates[p]] \in Listings
      BY <2>1 DEF Listings
    <2>3. req' = [req EXCEPT ![r].step = "take", ![r].dates = [p \in left |-> req[r].dates[p]]]
      BY <1>7 DEF DropTree
    <2> QED
      BY <1>2, <1>7, <2>2, <2>3 DEF DropTree, PruneSteps, Listed
  <1>8. policy' = policy
    BY DEF PruneStep, ListTrees, DateRaises, RankTrees, TakeApart, DropTree, EndPrune
  <1> QED
    BY <1>3, <1>4, <1>5, <1>6, <1>7, <1>8 DEF PruneStep

(* What can happen: a request arrives, takes a step or is interrupted, or  *)
(* the server dies.                                                        *)
LEMMA NextCases ==
  ASSUME Next
  PROVE  \/ \E r \in Requests, kind \in AllKinds, body \in Bodies \cup {<<>>} : Arrive(r, kind, body)
         \/ \E r \in Requests : Step(r)
         \/ \E r \in Requests : Interrupt(r)
         \/ CrashServer
  <1>1. CASE \E r \in Requests, kind \in Kinds \ {"settings"} : Arrive(r, kind, <<>>)
    BY <1>1, ScanServerAssumption
  <1>2. CASE "settings" \in Kinds /\ \E r \in Requests, body \in Bodies : Arrive(r, "settings", body)
    BY <1>2, ScanServerAssumption
  <1> QED
    BY <1>1, <1>2 DEF Next

(* No step spoils a request's record or the policy.                        *)
LEMMA ShapeStep ==
  ASSUME Types, [Next]_vars
  PROVE  Shape' /\ policy' \in Settings
  <1>1. CASE UNCHANGED vars
    BY <1>1 DEF vars, Types, TypeOK, Shape, ReqType
  <1>2. CASE \E r \in Requests, kind \in AllKinds, body \in Bodies \cup {<<>>} : Arrive(r, kind, body)
    <2>1. PICK r \in Requests, kind \in AllKinds, body \in Bodies \cup {<<>>} : Arrive(r, kind, body)
      BY <1>2
    <2> QED
      BY <2>1, ArriveShape DEF Types, TypeOK, Arrive
  <1>3. ASSUME NEW r \in Requests, Step(r) PROVE Shape' /\ policy' \in Settings
    <2>1. req[r] \in RequestRecord /\ Allowed(req[r].kind, req[r].step)
      BY DEF Types, Shape, ReqType, StepKind
    <2> USE DEF At
    <2>2. CASE Ingest(r)
      <3>1. Goto(r, "scan") /\ Allowed(req[r].kind, "scan") /\ "scan" \in Steps \ {"new"}
        BY <2>1, <2>2 DEF Ingest, Allowed, PruneSteps, Listed, ScanKinds, Steps
      <3> QED
        BY <2>2, <3>1, GotoShape DEF Types, TypeOK, Ingest
    <2>3. CASE IngestFails(r) \/ IngestRaises(r)
      BY <2>3, FinishShape DEF Types, TypeOK, IngestFails, IngestRaises, Outcomes
    <2>4. CASE RunScanner(r) \/ RateAsset(r) \/ Render(r)
      BY <2>4, ProgressShape DEF Types, TypeOK, RunScanner, RateAsset, Render
    <2>5. CASE RateRaises(r)
      BY <2>5, FinishShape DEF Types, TypeOK, RateRaises, Outcomes
    <2>6. CASE RecordScan(r)
      <3>1. Goto(r, "recorded") /\ Allowed(req[r].kind, "recorded") /\ "recorded" \in Steps \ {"new"}
        BY <2>1, <2>6 DEF RecordScan, Allowed, PruneSteps, Listed, Steps
      <3> QED
        BY <2>6, <3>1, GotoShape DEF Types, TypeOK, RecordScan
    <2>7. CASE LogScan(r)
      <3>1. CASE req[r].kind \in Prunes
        <4>1. Goto(r, "prune") /\ Allowed(req[r].kind, "prune") /\ "prune" \in Steps \ {"new"}
          BY <2>7, <3>1 DEF LogScan, Allowed, PruneSteps, Listed, Prunes, Steps
        <4> QED
          BY <2>7, <4>1, GotoShape DEF Types, TypeOK, LogScan
      <3>2. CASE req[r].kind \notin Prunes
        BY <2>7, <3>2, FinishShape DEF Types, TypeOK, LogScan, Outcomes
      <3> QED
        BY <3>1, <3>2
    <2>8. CASE PruneStep(r)
      BY <2>8, PruneShape DEF Types, TypeOK
    <2>9. CASE ApplySetting(r)
      BY <2>9, ApplyShape
    <2>10. CASE LogSettings(r)
      BY <2>10, FinishShape DEF Types, TypeOK, LogSettings, Outcomes
    <2>11. CASE LoadDocument(r)
      <3>1. CASE scans = <<>>
        BY <2>11, <3>1, FinishShape DEF Types, TypeOK, LoadDocument, Outcomes
      <3>2. CASE scans # <<>>
        <4>1. Goto(r, "log") /\ Allowed(req[r].kind, "log") /\ "log" \in Steps \ {"new"}
          BY <2>1, <2>11, <3>2 DEF LoadDocument, Allowed, PruneSteps, Listed, Steps
        <4> QED
          BY <2>11, <4>1, GotoShape DEF Types, TypeOK, LoadDocument
      <3> QED
        BY <3>1, <3>2
    <2>12. CASE LogExport(r)
      BY <2>12, FinishShape DEF Types, TypeOK, LogExport, Outcomes
    <2>13. CASE Reply(r)
      <3>1. Goto(r, "answered") /\ Allowed(req[r].kind, "answered") /\ "answered" \in Steps \ {"new"}
        BY <2>1, <2>13 DEF Reply, Allowed, PruneSteps, Listed, Steps
      <3> QED
        BY <2>13, <3>1, GotoShape DEF Types, TypeOK, Reply
    <2> QED
      BY <1>3, <2>2, <2>3, <2>4, <2>5, <2>6, <2>7, <2>8, <2>9, <2>10, <2>11, <2>12, <2>13
      DEF Step, ScanStep, OtherStep
  <1>4. ASSUME NEW r \in Requests, Interrupt(r) PROVE Shape' /\ policy' \in Settings
    BY <1>4, LoseShape DEF Interrupt, InFlight, Types, TypeOK
  <1>5. CASE CrashServer
    <2>1. policy' \in Settings
      BY <1>5, ScanServerAssumption DEF CrashServer, Settings
    <2>2. Shape'
      BY <1>5, LoseShape DEF CrashServer, InFlight, Types
    <2> QED
      BY <2>1, <2>2
  <1> QED
    BY <1>1, <1>2, <1>3, <1>4, <1>5, NextCases

(* The trees on disk change in four ways.                                  *)
LEMMA TreeCases ==
  ASSUME [Next]_vars
  PROVE  \/ UNCHANGED trees
         \/ \E r \in Requests : /\ Touch(r) /\ UNCHANGED cut
                                /\ \/ UNCHANGED made
                                   \/ At(r, "new") /\ made' = [made EXCEPT ![r] = now + 1]
         \/ \E r \in Requests : IngestFails(r)
         \/ \E r, q \in Requests : TakeApart(r, q) \/ DropTree(r, q)
  <1>1. ASSUME NEW r \in Requests, NEW kind, NEW body, Arrive(r, kind, body)
        PROVE  \/ UNCHANGED trees
               \/ /\ Touch(r) /\ UNCHANGED cut
                  /\ At(r, "new") /\ made' = [made EXCEPT ![r] = now + 1]
    BY <1>1 DEF Arrive
  <1>2. ASSUME NEW r \in Requests, Ingest(r) PROVE Touch(r) /\ UNCHANGED cut /\ UNCHANGED made
    BY <1>2 DEF Ingest
  <1>3. ASSUME NEW r \in Requests, Step(r)
        PROVE  \/ UNCHANGED trees
               \/ Ingest(r) \/ IngestFails(r)
               \/ \E q \in Requests : TakeApart(r, q) \/ DropTree(r, q)
    BY <1>3 DEF Step, ScanStep, PruneStep, OtherStep, IngestRaises, RunScanner, RateAsset,
       RateRaises, Render, RecordScan, LogScan, ListTrees, DateRaises, RankTrees, EndPrune,
       ApplySetting, LogSettings, LoadDocument, LogExport, Reply
  <1>4. CASE CrashServer \/ \E r \in Requests : Interrupt(r)
    BY <1>4 DEF CrashServer, Interrupt
  <1>5. CASE UNCHANGED vars
    BY <1>5 DEF vars, trees
  <1> QED
    BY <1>1, <1>2, <1>3, <1>4, <1>5, NextCases

(* The tables change in four ways.                                         *)
LEMMA TableCases ==
  ASSUME [Next]_vars
  PROVE  \/ UNCHANGED <<scans, audit>>
         \/ \E r \in Requests : RecordScan(r) \/ LogScan(r) \/ LogSettings(r) \/ LogExport(r)
  BY NextCases DEF vars, Arrive, Step, ScanStep, PruneStep, OtherStep, Ingest, IngestFails,
     IngestRaises, RunScanner, RateAsset, RateRaises, Render, ListTrees, DateRaises, RankTrees,
     TakeApart, DropTree, EndPrune, ApplySetting, LoadDocument, Reply, Interrupt, CrashServer

(* The loop is held by a request or by nobody, and crashes are few.        *)
LEMMA LoopStep ==
  ASSUME Types, [Next]_vars
  PROVE  loop' \in Requests \cup {None} /\ crashes' \in 0..MaxCrashes
  <1>1. loop' = loop \/ loop' = None \/ \E r \in Requests : loop' = r
    BY NextCases DEF vars, Arrive, Step, ScanStep, PruneStep, OtherStep, Ingest, IngestFails,
       IngestRaises, RunScanner, RateAsset, RateRaises, Render, RecordScan, LogScan, ListTrees,
       DateRaises, RankTrees, TakeApart, DropTree, EndPrune, ApplySetting, LogSettings,
       LoadDocument, LogExport, Reply, Interrupt, CrashServer
  <1>2. crashes' = crashes \/ (crashes < MaxCrashes /\ crashes' = crashes + 1)
    BY NextCases DEF vars, Arrive, Step, ScanStep, PruneStep, OtherStep, Ingest, IngestFails,
       IngestRaises, RunScanner, RateAsset, RateRaises, Render, RecordScan, LogScan, ListTrees,
       DateRaises, RankTrees, TakeApart, DropTree, EndPrune, ApplySetting, LogSettings,
       LoadDocument, LogExport, Reply, Interrupt, CrashServer
  <1>3. loop \in Requests \cup {None} /\ crashes \in 0..MaxCrashes
    BY DEF Types, TypeOK
  <1> QED
    BY <1>1, <1>2, <1>3, ScanServerAssumption

(* Trees stay the requests' own, dated no later than the latest date.      *)
LEMMA TreeTypes ==
  ASSUME Types, [Next]_vars
  PROVE  /\ present' \subseteq Requests /\ cut' \subseteq Requests
         /\ now' \in Nat /\ mtime' \in [Requests -> 0..now'] /\ made' \in [Requests -> 0..now']
  <1>1. /\ present \subseteq Requests /\ cut \subseteq Requests
        /\ now \in Nat /\ mtime \in [Requests -> 0..now] /\ made \in [Requests -> 0..now]
    BY DEF Types, TypeOK
  <1>2. CASE UNCHANGED trees
    BY <1>1, <1>2 DEF trees
  <1>3. CASE \E r \in Requests : /\ Touch(r) /\ UNCHANGED cut
                                 /\ \/ UNCHANGED made
                                    \/ At(r, "new") /\ made' = [made EXCEPT ![r] = now + 1]
    BY <1>1, <1>3 DEF Touch, Date
  <1>4. CASE \E r \in Requests : IngestFails(r)
    BY <1>1, <1>4 DEF IngestFails
  <1>5. CASE \E r, q \in Requests : TakeApart(r, q) \/ DropTree(r, q)
    BY <1>1, <1>5 DEF TakeApart, DropTree, Date
  <1> QED
    BY <1>2, <1>3, <1>4, <1>5, TreeCases

(* What is written to the tables are documents and entries.                *)
LEMMA TableTypes ==
  ASSUME Types, [Next]_vars
  PROVE  /\ scans' \in Seq(Document)
         /\ audit' \in Seq([action : {"scan.completed", "settings.changed", "export"},
                            about : Requests])
  <1> DEFINE Entry == [action : {"scan.completed", "settings.changed", "export"}, about : Requests]
  <1>1. scans \in Seq(Document) /\ audit \in Seq(Entry)
    BY DEF Types, TypeOK
  <1>2. CASE UNCHANGED <<scans, audit>>
    BY <1>1, <1>2
  <1>3. ASSUME NEW r \in Requests, RecordScan(r) PROVE scans' \in Seq(Document) /\ audit' = audit
    <2> DEFINE row == [id |-> r, rated |-> req[r].used, header |-> req[r].header,
                       missed |-> req[r].missed]
    <2>1. req[r] \in RequestRecord
      BY DEF Types, Shape, ReqType
    <2>2. row \in Document
      BY <2>1 DEF RequestRecord, Document
    <2>3. scans' = Append(scans, row) /\ audit' = audit
      BY <1>3 DEF RecordScan
    <2> HIDE DEF row
    <2> QED
      BY <1>1, <2>2, <2>3, AppendProperties
  <1>4. ASSUME NEW r \in Requests, NEW action \in {"scan.completed", "settings.changed", "export"},
               audit' = Append(audit, [action |-> action, about |-> r])
        PROVE  audit' \in Seq(Entry)
    <2> DEFINE entry == [action |-> action, about |-> r]
    <2>1. entry \in Entry
      OBVIOUS
    <2>2. audit' = Append(audit, entry)
      BY <1>4
    <2> HIDE DEF entry, Entry
    <2> QED
      BY <1>1, <2>1, <2>2, AppendProperties
  <1>5. ASSUME NEW r \in Requests, LogScan(r) \/ LogSettings(r) \/ LogExport(r)
        PROVE  audit' \in Seq(Entry) /\ scans' = scans
    BY <1>4, <1>5 DEF LogScan, LogSettings, LogExport
  <1> QED
    BY <1>1, <1>2, <1>3, <1>5, TableCases

(* The types at the start.                                                 *)
LEMMA TypesInit == Init => Types
  <1> SUFFICES ASSUME Init PROVE TypeOK /\ Shape
    BY DEF Types
  <1>1. FilePolicy \in Settings
    BY ScanServerAssumption DEF Settings
  <1> DEFINE x == [kind |-> "none", step |-> "new", scanned |-> 0, rated |-> 0,
                   missed |-> FALSE, used |-> {}, header |-> FilePolicy,
                   body |-> <<>>, applied |-> {}, dates |-> <<>>, outcome |-> "ok"]
  <1>2. /\ "none" \in AllKinds \cup {"none"} /\ "new" \in Steps /\ "ok" \in Outcomes
        /\ 0 \in 0..NScanners /\ 0 \in 0..NAssets /\ <<>> \in Bodies \cup {<<>>}
    BY ScanServerAssumption DEF Steps, Outcomes
  <1>3. x \in RequestRecord
    BY <1>1, <1>2, EmptyListing DEF RequestRecord
  <1>4. StepKind(x)
    BY DEF StepKind, Allowed, PruneSteps, Listed
  <1> HIDE DEF x
  <1>5. \A r \in Requests : req[r] = x
    BY DEF Init, x
  <1>6. \A r \in Requests : req[r] \in RequestRecord /\ StepKind(req[r])
    BY <1>3, <1>4, <1>5
  <1>7. Shape
    BY <1>6 DEF Init, Shape, ReqType
  <1>8. DOMAIN req = Requests /\ \A r \in Requests : req[r] \in RequestRecord
    BY <1>7 DEF Shape, ReqType
  <1>9. /\ policy \in Settings /\ present \subseteq Requests
        /\ cut \subseteq Requests /\ now \in Nat
        /\ mtime \in [Requests -> 0..now] /\ made \in [Requests -> 0..now]
        /\ loop \in Requests \cup {None} /\ crashes \in 0..MaxCrashes
    BY <1>1, ScanServerAssumption DEF Init
  <1>10. /\ scans \in Seq(Document)
         /\ audit \in Seq([action : {"scan.completed", "settings.changed", "export"},
                            about : Requests])
    BY DEF Init
  <1>11. ASSUME NEW r \in Requests PROVE \E S \in SUBSET Requests : req[r].dates \in [S -> Nat]
    <2>1. req[r].dates \in Listings
      BY <1>8 DEF RequestRecord
    <2> QED
      BY <2>1 DEF Listings
  <1>12. TypeOK
    BY <1>8, <1>9, <1>10, <1>11 DEF TypeOK, RequestRecord
  <1> QED
    BY <1>7, <1>12

(* No step leaves the types.                                               *)
LEMMA TypesStep == Types /\ [Next]_vars => Types'
  <1> SUFFICES ASSUME Types, [Next]_vars PROVE Types'
    OBVIOUS
  <1>1. Shape' /\ policy' \in Settings
    BY ShapeStep
  <1>2. \A r \in Requests : req'[r] \in RequestRecord
    BY <1>1 DEF Shape, ReqType, RequestRecord
  <1>3. DOMAIN req' = Requests
    BY <1>1 DEF Shape, ReqType
  <1>4. \A r \in Requests : \E S \in SUBSET Requests : req'[r].dates \in [S -> Nat]
    BY <1>2 DEF RequestRecord, Listings
  <1>5. TypeOK'
    BY <1>1, <1>2, <1>3, <1>4, LoopStep, TreeTypes, TableTypes DEF TypeOK, RequestRecord
  <1> QED
    BY <1>1, <1>5 DEF Types

(* Every state of the server is well-typed: no order of requests, crashes  *)
(* and prunes makes a request run more scanners than there are, apply a    *)
(* setting that is none, or leave a tree of nobody's.                      *)
THEOREM ServerTypes == Spec => []TypeOK
  <1>1. Types => TypeOK
    BY DEF Types
  <1> QED
    BY <1>1, TypesInit, TypesStep, PTL DEF Spec

-----------------------------------------------------------------------------
(* What a step of a request does to its record.                            *)

(* r goes from one step to another, with the reply it will have.           *)
Moves(r, from, to) == req[r].step = from /\ req'[r].step = to
Replies(r, from, outcome) ==
  req[r].step = from /\ req'[r].step = "reply" /\ req'[r].outcome = outcome

(* A request's step is its own affair, and goes one way.                   *)
LEMMA StepMoves ==
  ASSUME Types, NEW r \in Requests, Step(r)
  PROVE  /\ \A q \in Requests \ {r} : req'[q] = req[q]
         /\ req'[r].kind = req[r].kind
         /\ Ingest(r) => Moves(r, "ingest", "scan")
         /\ IngestFails(r) => Replies(r, "ingest", "rejected")
         /\ IngestRaises(r) => Replies(r, "ingest", "error")
         /\ RunScanner(r) \/ RateAsset(r) => Moves(r, "scan", "scan")
         /\ RateRaises(r) => Replies(r, "scan", "error")
         /\ Render(r) => Moves(r, "scan", "save")
         /\ RecordScan(r) => Moves(r, "save", "recorded")
         /\ LogScan(r) => IF req[r].kind \in Prunes THEN Moves(r, "recorded", "prune")
                         ELSE Replies(r, "recorded", "ok")
         /\ ListTrees(r) => Moves(r, "prune", "date")
         /\ DateRaises(r) => Replies(r, "date", "error")
         /\ RankTrees(r) => Moves(r, "date", "take")
         /\ \A q \in Requests : /\ TakeApart(r, q) => Moves(r, "take", "drop")
                                /\ DropTree(r, q) => Moves(r, "drop", "take")
         /\ EndPrune(r) => Replies(r, "take", "ok")
         /\ ApplySetting(r) => Moves(r, "apply", "apply") \/ Replies(r, "apply", "error")
         /\ LogSettings(r) => Replies(r, "apply", "ok")
         /\ LoadDocument(r) => Moves(r, "load", "log") \/ Replies(r, "load", "error")
         /\ LogExport(r) => Replies(r, "log", "ok")
         /\ Reply(r) => Moves(r, "reply", "answered") /\ req'[r].outcome = req[r].outcome
  <1>1. /\ DOMAIN req = Requests
        /\ DOMAIN req[r] = {"kind", "step", "scanned", "rated", "missed", "used", "header",
                            "body", "applied", "dates", "outcome"}
    BY DEF Types, Shape, ReqType, RequestRecord
  <1> USE DEF At, Goto, Finish, Moves, Replies
  <1>10. ASSUME PruneStep(r)
         PROVE  (\A q \in Requests \ {r} : req'[q] = req[q]) /\ req'[r].kind = req[r].kind
    <2>1. CASE ListTrees(r) \/ DateRaises(r) \/ EndPrune(r)
      BY <1>1, <2>1 DEF ListTrees, DateRaises, EndPrune
    <2>2. CASE RankTrees(r)
      BY <1>1, <2>2 DEF RankTrees, GoesOn
    <2>3. CASE \E q \in Requests : TakeApart(r, q) \/ DropTree(r, q)
      BY <1>1, <2>3 DEF TakeApart, DropTree
    <2> QED
      BY <1>10, <2>1, <2>2, <2>3 DEF PruneStep
  <1>2. \A q \in Requests \ {r} : req'[q] = req[q]
    BY <1>1, <1>10 DEF Step, ScanStep, OtherStep, Ingest, IngestFails, IngestRaises, RunScanner,
       RateAsset, RateRaises, Render, RecordScan, LogScan, ApplySetting, LogSettings, LoadDocument,
       LogExport, Reply
  <1>3. req'[r].kind = req[r].kind
    BY <1>1, <1>10 DEF Step, ScanStep, OtherStep, Ingest, IngestFails, IngestRaises, RunScanner,
       RateAsset, RateRaises, Render, RecordScan, LogScan, ApplySetting, LogSettings, LoadDocument,
       LogExport, Reply
  <1>4. /\ Ingest(r) => Moves(r, "ingest", "scan")
        /\ IngestFails(r) => Replies(r, "ingest", "rejected")
        /\ IngestRaises(r) => Replies(r, "ingest", "error")
    BY <1>1 DEF Ingest, IngestFails, IngestRaises
  <1>5. /\ RunScanner(r) \/ RateAsset(r) => Moves(r, "scan", "scan")
        /\ RateRaises(r) => Replies(r, "scan", "error")
        /\ Render(r) => Moves(r, "scan", "save")
    BY <1>1 DEF RunScanner, RateAsset, RateRaises, Render
  <1>6. /\ RecordScan(r) => Moves(r, "save", "recorded")
        /\ LogScan(r) => IF req[r].kind \in Prunes THEN Moves(r, "recorded", "prune")
                        ELSE Replies(r, "recorded", "ok")
    BY <1>1 DEF RecordScan, LogScan
  <1>7. /\ ApplySetting(r) => Moves(r, "apply", "apply") \/ Replies(r, "apply", "error")
        /\ LogSettings(r) => Replies(r, "apply", "ok")
    BY <1>1 DEF ApplySetting, LogSettings
  <1>8. /\ LoadDocument(r) => Moves(r, "load", "log") \/ Replies(r, "load", "error")
        /\ LogExport(r) => Replies(r, "log", "ok")
        /\ Reply(r) => Moves(r, "reply", "answered") /\ req'[r].outcome = req[r].outcome
    BY <1>1 DEF LoadDocument, LogExport, Reply
  <1>9. /\ ListTrees(r) => Moves(r, "prune", "date")
        /\ DateRaises(r) => Replies(r, "date", "error")
        /\ RankTrees(r) => Moves(r, "date", "take")
        /\ \A q \in Requests : /\ TakeApart(r, q) => Moves(r, "take", "drop")
                               /\ DropTree(r, q) => Moves(r, "drop", "take")
        /\ EndPrune(r) => Replies(r, "take", "ok")
    BY <1>1 DEF ListTrees, DateRaises, RankTrees, GoesOn, TakeApart, DropTree, EndPrune
  <1> QED
    BY <1>2, <1>3, <1>4, <1>5, <1>6, <1>7, <1>8, <1>9

(* A prune goes on, or has its reply.                                      *)
LEMMA PruneMoves ==
  ASSUME Types, NEW r \in Requests, PruneStep(r)
  PROVE  /\ req[r].step \in PruneSteps
         /\ \/ req'[r].step \in Listed
            \/ req'[r].step = "reply" /\ req'[r].outcome \in {"ok", "error"}
         /\ UNCHANGED <<scans, audit>>
  <1>1. Step(r)
    BY DEF Step
  <1>2. UNCHANGED <<scans, audit>>
    BY DEF PruneStep, ListTrees, DateRaises, RankTrees, TakeApart, DropTree, EndPrune
  <1> QED
    BY <1>1, <1>2, StepMoves DEF PruneStep, Moves, Replies, PruneSteps, Listed

(* An arrival is a new request's.                                          *)
LEMMA ArriveMoves ==
  ASSUME Types, NEW r \in Requests, NEW kind \in AllKinds, NEW body, Arrive(r, kind, body)
  PROVE  /\ \A q \in Requests \ {r} : req'[q] = req[q]
         /\ req[r].step = "new" /\ req'[r].kind = kind
         /\ req'[r].step \in {"ingest", "scan", "apply", "load"}
         /\ req'[r].step = "ingest" <=> kind \in WithTree
  <1>1. /\ DOMAIN req = Requests
        /\ DOMAIN req[r] = {"kind", "step", "scanned", "rated", "missed", "used", "header",
                            "body", "applied", "dates", "outcome"}
    BY DEF Types, Shape, ReqType, RequestRecord
  <1> QED
    BY <1>1 DEF Arrive, At, AllKinds, WithTree

(* Who dies is answered nothing, and was underway.                         *)
LEMMA LoseMoves ==
  ASSUME Types, NEW victims \in SUBSET Requests, Lose(victims)
  PROVE  \A q \in Requests :
           \/ req'[q] = req[q]
           \/ /\ q \in victims /\ req'[q].kind = req[q].kind
              /\ req'[q].step = "answered" /\ req'[q].outcome = "lost"
  <1> SUFFICES ASSUME NEW q \in Requests, q \in victims
               PROVE  /\ req'[q].kind = req[q].kind
                      /\ req'[q].step = "answered" /\ req'[q].outcome = "lost"
    BY DEF Lose
  <1>1. DOMAIN req[q] = {"kind", "step", "scanned", "rated", "missed", "used", "header",
                         "body", "applied", "dates", "outcome"}
    BY DEF Types, Shape, ReqType, RequestRecord
  <1> QED
    BY <1>1 DEF Lose

-----------------------------------------------------------------------------
(* What a request has written by the step it is at.                        *)

(* The requests in the tables: those whose scan is stored, those the audit *)
(* table has an entry about, and those it has the completed scan of.       *)
Stored    == {scans[i].id : i \in DOMAIN scans}
Noted     == {audit[i].about : i \in DOMAIN audit}
Completed == {audit[i].about : i \in {j \in DOMAIN audit : audit[j].action = "scan.completed"}}

Wrote(r) ==
  /\ req[r].step \notin PruneSteps \cup {"recorded", "reply", "answered"} => r \notin Stored
  /\ req[r].step \notin PruneSteps \cup {"reply", "answered"} => r \notin Completed
  /\ req[r].step \in PruneSteps \cup {"recorded"} => r \in Stored
  /\ req[r].step \in PruneSteps => r \in Noted
  /\ req[r].step \in {"reply", "answered"} /\ req[r].outcome = "ok" =>
       r \in Noted /\ (req[r].kind \in ScanKinds => r \in Stored)

Written == \A r \in Requests : Wrote(r)

(* A row more in the scans table.                                          *)
LEMMA OneMoreScan ==
  ASSUME Types, NEW r \in Requests, RecordScan(r)
  PROVE  Stored' = Stored \cup {r} /\ Noted' = Noted /\ Completed' = Completed
  <1> DEFINE row == [id |-> r, rated |-> req[r].used, header |-> req[r].header,
                     missed |-> req[r].missed]
  <1>1. scans \in Seq(Document) /\ scans' = Append(scans, row) /\ audit' = audit
    BY DEF Types, TypeOK, RecordScan
  <1>2. row.id = r
    OBVIOUS
  <1> HIDE DEF row
  <1>3. Len(scans) \in Nat /\ DOMAIN scans = 1..Len(scans)
    BY <1>1
  <1>4. /\ DOMAIN scans' = 1..(Len(scans) + 1) /\ scans'[Len(scans) + 1] = row
        /\ \A i \in 1..Len(scans) : scans'[i] = scans[i]
    BY <1>1
  <1>5. Stored' = Stored \cup {r}
    BY <1>2, <1>3, <1>4 DEF Stored
  <1> QED
    BY <1>1, <1>5 DEF Noted, Completed

(* An entry more in the audit table.                                       *)
LEMMA OneMoreEntry ==
  ASSUME Types, NEW r \in Requests, NEW action,
         audit' = Append(audit, [action |-> action, about |-> r]), scans' = scans
  PROVE  /\ Stored' = Stored /\ Noted' = Noted \cup {r}
         /\ Completed' = IF action = "scan.completed" THEN Completed \cup {r} ELSE Completed
  <1> DEFINE entry == [action |-> action, about |-> r]
  <1>1. /\ audit \in Seq([action : {"scan.completed", "settings.changed", "export"}, about : Requests])
        /\ audit' = Append(audit, entry)
    BY DEF Types, TypeOK
  <1>2. entry.action = action /\ entry.about = r
    OBVIOUS
  <1> HIDE DEF entry
  <1>3. Len(audit) \in Nat /\ DOMAIN audit = 1..Len(audit)
    BY <1>1
  <1>4. /\ DOMAIN audit' = 1..(Len(audit) + 1) /\ audit'[Len(audit) + 1] = entry
        /\ \A i \in 1..Len(audit) : audit'[i] = audit[i]
    BY <1>1
  <1>5. Noted' = Noted \cup {r}
    BY <1>2, <1>3, <1>4 DEF Noted
  <1>6. Completed' = IF action = "scan.completed" THEN Completed \cup {r} ELSE Completed
    BY <1>2, <1>3, <1>4 DEF Completed
  <1>7. Stored' = Stored
    BY DEF Stored
  <1> QED
    BY <1>5, <1>6, <1>7

(* Tables that do not change.                                              *)
LEMMA SameTables ==
  ASSUME UNCHANGED <<scans, audit>>
  PROVE  Stored' = Stored /\ Noted' = Noted /\ Completed' = Completed
  BY DEF Stored, Noted, Completed

(* A step of a request writes what its next step says.                     *)
LEMMA StepWrites ==
  ASSUME Types, Written, NEW r \in Requests, Step(r)
  PROVE  Written'
  <1>1. /\ \A q \in Requests \ {r} : req'[q] = req[q]
        /\ req'[r].kind = req[r].kind /\ Allowed(req[r].kind, req[r].step)
        /\ Wrote(r)
    BY StepMoves DEF Types, Shape, StepKind, Written
  <1>2. ASSUME Stored' \in {Stored, Stored \cup {r}}, Noted' \in {Noted, Noted \cup {r}},
               Completed' \in {Completed, Completed \cup {r}},
               Wrote(r)'
        PROVE  Written'
    <2>1. ASSUME NEW q \in Requests \ {r} PROVE Wrote(q)'
      BY <1>1, <1>2 DEF Written, Wrote, PruneSteps, Listed
    <2> QED
      BY <1>2, <2>1 DEF Written
  <1>3. CASE RecordScan(r)
    <2>1. req[r].step = "save" /\ req'[r].step = "recorded"
      BY <1>3, StepMoves DEF Moves
    <2>2. Wrote(r)'
      BY <1>1, <1>3, <2>1, OneMoreScan DEF Wrote, PruneSteps, Listed
    <2> QED
      BY <1>2, <1>3, <2>2, OneMoreScan
  <1>4. CASE LogScan(r)
    <2>1. /\ req[r].step = "recorded"
          /\ \/ req'[r].step = "prune"
             \/ req'[r].step = "reply" /\ req'[r].outcome = "ok"
      BY <1>4, StepMoves DEF Moves, Replies
    <2>2. audit' = Append(audit, [action |-> "scan.completed", about |-> r]) /\ scans' = scans
      BY <1>4 DEF LogScan
    <2>3. Stored' = Stored /\ Noted' = Noted \cup {r} /\ Completed' = Completed \cup {r}
      BY <2>2, OneMoreEntry
    <2>4. Wrote(r)'
      BY <1>1, <2>1, <2>3 DEF Wrote, PruneSteps, Listed
    <2> QED
      BY <1>2, <2>3, <2>4
  <1>5. CASE LogSettings(r) \/ LogExport(r)
    <2>1. /\ req[r].step \in {"apply", "log"}
          /\ req'[r].step = "reply" /\ req'[r].outcome = "ok"
      BY <1>5, StepMoves DEF Replies
    <2>2. PICK action \in {"settings.changed", "export"} :
            audit' = Append(audit, [action |-> action, about |-> r]) /\ scans' = scans
      BY <1>5 DEF LogSettings, LogExport
    <2>3. Stored' = Stored /\ Noted' = Noted \cup {r} /\ Completed' = Completed
      BY <2>2, OneMoreEntry
    <2>4. req[r].kind \notin ScanKinds
      BY <1>1, <2>1 DEF Allowed, PruneSteps, Listed, ScanKinds, WithTree
    <2>5. Wrote(r)'
      BY <1>1, <2>1, <2>3, <2>4 DEF Wrote, PruneSteps, Listed
    <2> QED
      BY <1>2, <2>3, <2>5
  <1>6. CASE PruneStep(r)
    <2>1. /\ req[r].step \in PruneSteps
          /\ req'[r].step \in PruneSteps \/ req'[r].step = "reply"
      BY <1>6, PruneMoves DEF PruneSteps
    <2>2. UNCHANGED <<scans, audit>>
      BY <1>6, PruneMoves
    <2>3. Stored' = Stored /\ Noted' = Noted /\ Completed' = Completed
      BY <2>2, SameTables
    <2>4. Wrote(r)'
      BY <1>1, <2>1, <2>3 DEF Wrote, PruneSteps, Listed
    <2> QED
      BY <1>2, <2>3, <2>4
  <1>7. CASE \/ Ingest(r) \/ IngestFails(r) \/ IngestRaises(r) \/ RunScanner(r) \/ RateAsset(r)
             \/ RateRaises(r) \/ Render(r) \/ ApplySetting(r) \/ LoadDocument(r) \/ Reply(r)
    <2>1. \/ /\ req[r].step \notin PruneSteps \cup {"recorded", "reply", "answered"}
             /\ \/ req'[r].step \in {"scan", "save", "apply", "log"}
                \/ req'[r].step = "reply" /\ req'[r].outcome \in {"rejected", "error"}
          \/ req[r].step = "reply" /\ req'[r].step = "answered" /\ req'[r].outcome = req[r].outcome
      BY <1>7, StepMoves DEF Moves, Replies, PruneSteps, Listed
    <2>2. UNCHANGED <<scans, audit>>
      BY <1>7 DEF Ingest, IngestFails, IngestRaises, RunScanner, RateAsset, RateRaises, Render, ApplySetting,
         LoadDocument, Reply
    <2>3. Stored' = Stored /\ Noted' = Noted /\ Completed' = Completed
      BY <2>2, SameTables
    <2>4. Wrote(r)'
      BY <1>1, <2>1, <2>3 DEF Wrote, PruneSteps, Listed
    <2> QED
      BY <1>2, <2>3, <2>4
  <1> QED
    BY <1>3, <1>4, <1>5, <1>6, <1>7 DEF Step, ScanStep, OtherStep

(* Nor does anything else spoil it.                                        *)
LEMMA WrittenStep == Types /\ Written /\ [Next]_vars => Written'
  <1> SUFFICES ASSUME Types, Written, [Next]_vars PROVE Written'
    OBVIOUS
  <1>1. CASE UNCHANGED vars
    BY <1>1, SameTables DEF vars, Written, Wrote, PruneSteps, Listed
  <1>2. ASSUME NEW r \in Requests, NEW kind \in AllKinds, NEW body \in Bodies \cup {<<>>},
               Arrive(r, kind, body)
        PROVE  Written'
    <2>1. Wrote(r)
      BY DEF Written
    <2>2. UNCHANGED <<scans, audit>>
      BY <1>2 DEF Arrive
    <2>3. req[r].step = "new" /\ req'[r].step \in {"ingest", "scan", "apply", "load"}
      BY <1>2, ArriveMoves
    <2>4. Stored' = Stored /\ Noted' = Noted /\ Completed' = Completed
      BY <2>2, SameTables
    <2>5. Wrote(r)'
      BY <2>1, <2>3, <2>4 DEF Wrote, PruneSteps, Listed
    <2>6. ASSUME NEW q \in Requests \ {r} PROVE Wrote(q)'
      BY <1>2, <2>4, ArriveMoves DEF Written, Wrote, PruneSteps, Listed
    <2> QED
      BY <2>5, <2>6 DEF Written
  <1>3. ASSUME NEW victims \in SUBSET Requests, Lose(victims), UNCHANGED <<scans, audit>>
        PROVE  Written'
    <2> SUFFICES ASSUME NEW q \in Requests PROVE Wrote(q)'
      BY DEF Written
    <2>1. Wrote(q) /\ Stored' = Stored /\ Noted' = Noted /\ Completed' = Completed
      BY <1>3, SameTables DEF Written
    <2> QED
      BY <1>3, <2>1, LoseMoves DEF Wrote, PruneSteps, Listed
  <1>4. CASE CrashServer \/ \E r \in Requests : Interrupt(r)
    BY <1>3, <1>4 DEF CrashServer, Interrupt
  <1> QED
    BY <1>1, <1>2, <1>4, NextCases, StepWrites

(* Nothing is written at the start.                                        *)
LEMMA WrittenInit == Init => Written
  BY DEF Init, Written, Wrote, PruneSteps, Listed, Stored, Noted, Completed

(* What a request was told it did it did, and no crash, prune or other     *)
(* request takes it back: for any number of requests and crashes.          *)
THEOREM AnsweredDurable == Spec => []AnsweredIsDurable
  <1>1. Init => Types /\ Written
    BY TypesInit, WrittenInit
  <1>2. Types /\ Written /\ [Next]_vars => (Types /\ Written)'
    BY TypesStep, WrittenStep
  <1>3. Types /\ Written => AnsweredIsDurable
    BY DEF Written, Wrote, AnsweredIsDurable, At, Saved, Logged, Stored, Noted
  <1> QED
    BY <1>1, <1>2, <1>3, PTL DEF Spec

-----------------------------------------------------------------------------
(* The requests write a Ledger.                                            *)

(* The tables as the Ledger sees them.                                     *)
LedgerRow(row)   == [id |-> row.id, started |-> 0]
LedgerEntry(entry) == [ts |-> 0, action |-> entry.action,
                       about |-> IF entry.action = "scan.completed" THEN entry.about ELSE "-"]
LedgerScans == [i \in DOMAIN scans |-> LedgerRow(scans[i])]
LedgerAudit == [i \in DOMAIN audit |-> LedgerEntry(audit[i])]

(* The Ledger sees the requests that are stored and completed.             *)
LEMMA LedgerSees == L!Stored = Stored /\ L!Logged = Completed
  <1>1. L!Stored = Stored
    BY DEF L!Stored, Stored
  <1>2. L!Logged = Completed
    BY DEF L!Logged, Completed
  <1> QED
    BY <1>1, <1>2

(* A row more in the scans table is a row more in the Ledger's.            *)
LEMMA LedgerRecords ==
  ASSUME Types, Written, NEW r \in Requests, RecordScan(r)
  PROVE  L!Record
  <1> DEFINE row == [id |-> r, rated |-> req[r].used, header |-> req[r].header,
                     missed |-> req[r].missed]
  <1>1. scans \in Seq(Document) /\ scans' = Append(scans, row) /\ audit' = audit
    BY DEF Types, TypeOK, RecordScan
  <1>2. row.id = r /\ LedgerRow(row) = [id |-> r, started |-> 0]
    BY DEF LedgerRow
  <1> HIDE DEF row
  <1>3. LedgerScans' = Append(LedgerScans, LedgerRow(row))
    <2>1. Len(scans) \in Nat /\ DOMAIN scans = 1..Len(scans)
      BY <1>1
    <2>2. /\ DOMAIN scans' = 1..(Len(scans) + 1) /\ scans'[Len(scans) + 1] = row
          /\ \A i \in 1..Len(scans) : scans'[i] = scans[i]
      BY <1>1
    <2>3. LedgerScans \in Seq({LedgerRow(x) : x \in Document}) /\ Len(LedgerScans) = Len(scans)
      BY <1>1 DEF LedgerScans
    <2> QED
      BY <2>1, <2>2, <2>3 DEF LedgerScans
  <1>4. r \notin L!Stored
    BY LedgerSees DEF Written, Wrote, PruneSteps, Listed, RecordScan, At
  <1>5. LedgerAudit' = LedgerAudit
    BY <1>1 DEF LedgerAudit
  <1>6. LedgerScans' = Append(LedgerScans, [id |-> r, started |-> 0])
    BY <1>2, <1>3
  <1>7. 0 \in 0..0
    OBVIOUS
  <1>8. [i \in DOMAIN scans |-> [id |-> scans[i].id, started |-> 0]]'
             = Append([i \in DOMAIN scans |-> [id |-> scans[i].id, started |-> 0]],
                      [id |-> r, started |-> 0])
    BY <1>6 DEF LedgerScans, LedgerRow
  <1>9. UNCHANGED [i \in DOMAIN audit |->
                     [ts |-> 0, action |-> audit[i].action,
                      about |-> IF audit[i].action = "scan.completed"
                                  THEN audit[i].about ELSE "-"]]
    BY <1>5 DEF LedgerAudit, LedgerEntry
  <1> QED
    BY <1>4, <1>7, <1>8, <1>9 DEF L!Record

(* An entry more in the audit table is an entry more in the Ledger's.      *)
LEMMA LedgerAppends ==
  ASSUME Types, NEW r \in Requests, NEW action,
         audit' = Append(audit, [action |-> action, about |-> r]), scans' = scans
  PROVE  /\ LedgerAudit' = Append(LedgerAudit, LedgerEntry([action |-> action, about |-> r]))
         /\ LedgerScans' = LedgerScans
  <1> DEFINE entry == [action |-> action, about |-> r]
             Entry == [action : {"scan.completed", "settings.changed", "export"}, about : Requests]
  <1>1. audit \in Seq(Entry) /\ audit' = Append(audit, entry)
    BY DEF Types, TypeOK
  <1> HIDE DEF entry, Entry
  <1>2. Len(audit) \in Nat /\ DOMAIN audit = 1..Len(audit)
    BY <1>1
  <1>3. /\ DOMAIN audit' = 1..(Len(audit) + 1) /\ audit'[Len(audit) + 1] = entry
        /\ \A i \in 1..Len(audit) : audit'[i] = audit[i]
    BY <1>1
  <1>4. LedgerAudit \in Seq({LedgerEntry(x) : x \in Entry}) /\ Len(LedgerAudit) = Len(audit)
    BY <1>1 DEF LedgerAudit
  <1>5. LedgerAudit' = Append(LedgerAudit, LedgerEntry(entry))
    BY <1>2, <1>3, <1>4 DEF LedgerAudit
  <1>6. LedgerScans' = LedgerScans
    BY DEF LedgerScans
  <1> QED
    BY <1>5, <1>6 DEF entry

(* The completion of a stored scan is logged, and only once.               *)
LEMMA LedgerLogsScan ==
  ASSUME Types, Written, NEW r \in Requests, LogScan(r)
  PROVE  L!LogScan
  <1>1. audit' = Append(audit, [action |-> "scan.completed", about |-> r]) /\ scans' = scans
    BY DEF LogScan
  <1>2. /\ LedgerAudit' = Append(LedgerAudit, LedgerEntry([action |-> "scan.completed", about |-> r]))
        /\ LedgerScans' = LedgerScans
    BY <1>1, LedgerAppends
  <1>3. r \in L!Stored \ L!Logged
    BY LedgerSees DEF Written, Wrote, PruneSteps, Listed, LogScan, At
  <1>4. LedgerEntry([action |-> "scan.completed", about |-> r])
          = [ts |-> 0, action |-> "scan.completed", about |-> r]
    BY DEF LedgerEntry
  <1>5. 0 \in 0..0
    OBVIOUS
  <1>6. [i \in DOMAIN audit |->
           [ts |-> 0, action |-> audit[i].action,
            about |-> IF audit[i].action = "scan.completed" THEN audit[i].about ELSE "-"]]'
             = Append([i \in DOMAIN audit |->
                         [ts |-> 0, action |-> audit[i].action,
                          about |-> IF audit[i].action = "scan.completed"
                                      THEN audit[i].about ELSE "-"]],
                      [ts |-> 0, action |-> "scan.completed", about |-> r])
    BY <1>2, <1>4 DEF LedgerAudit, LedgerEntry
  <1>7. UNCHANGED [i \in DOMAIN scans |-> [id |-> scans[i].id, started |-> 0]]
    BY <1>2 DEF LedgerScans, LedgerRow
  <1> QED
    BY <1>3, <1>5, <1>6, <1>7 DEF L!LogScan

(* A settings change and an export are other actions of the Ledger.        *)
LEMMA LedgerLogsAction ==
  ASSUME Types, NEW r \in Requests, LogSettings(r) \/ LogExport(r)
  PROVE  L!LogAction
  <1>1. PICK action \in {"settings.changed", "export"} :
          audit' = Append(audit, [action |-> action, about |-> r]) /\ scans' = scans
    BY DEF LogSettings, LogExport
  <1>2. /\ LedgerAudit' = Append(LedgerAudit, LedgerEntry([action |-> action, about |-> r]))
        /\ LedgerScans' = LedgerScans
    BY <1>1, LedgerAppends
  <1>3. LedgerEntry([action |-> action, about |-> r]) = [ts |-> 0, action |-> action, about |-> "-"]
    BY DEF LedgerEntry
  <1>4. 0 \in 0..0
    OBVIOUS
  <1>5. [i \in DOMAIN audit |->
           [ts |-> 0, action |-> audit[i].action,
            about |-> IF audit[i].action = "scan.completed" THEN audit[i].about ELSE "-"]]'
             = Append([i \in DOMAIN audit |->
                         [ts |-> 0, action |-> audit[i].action,
                          about |-> IF audit[i].action = "scan.completed"
                                      THEN audit[i].about ELSE "-"]],
                      [ts |-> 0, action |-> action, about |-> "-"])
    BY <1>2, <1>3 DEF LedgerAudit, LedgerEntry
  <1>6. UNCHANGED [i \in DOMAIN scans |-> [id |-> scans[i].id, started |-> 0]]
    BY <1>2 DEF LedgerScans, LedgerRow
  <1> QED
    BY <1>4, <1>5, <1>6 DEF L!LogAction

(* Every step is a step of the Ledger, or changes nothing it sees.         *)
LEMMA LedgerStep == Types /\ Written /\ [Next]_vars => [L!LedgerNext]_(L!ledger)
  <1> SUFFICES ASSUME Types, Written, [Next]_vars PROVE [L!LedgerNext]_(L!ledger)
    OBVIOUS
  <1>1. CASE UNCHANGED <<scans, audit>>
    BY <1>1 DEF L!ledger
  <1>2. CASE \E r \in Requests : RecordScan(r) \/ LogScan(r) \/ LogSettings(r) \/ LogExport(r)
    BY <1>2, LedgerRecords, LedgerLogsScan, LedgerLogsAction DEF L!LedgerNext
  <1> QED
    BY <1>1, <1>2, TableCases

(* Served or from the command line, in whatever order, and crashing where  *)
(* they may, the requests write the tables as a Ledger: a scan once, its   *)
(* completion once and after it.                                           *)
THEOREM ServerWritesLedger == Spec => StoreIsALedger
  <1>1. Init => Types /\ Written
    BY TypesInit, WrittenInit
  <1>2. Types /\ Written /\ [Next]_vars => (Types /\ Written)'
    BY TypesStep, WrittenStep
  <1>3. Init => L!LedgerInit
    BY DEF Init, L!LedgerInit
  <1> QED
    BY <1>1, <1>2, <1>3, LedgerStep, PTL DEF Spec, StoreIsALedger, L!LedgerSpec

-----------------------------------------------------------------------------
(* The workspace.                                                          *)

Started == {r \in Requests : req[r].kind # "none"}

(* Finitely many requests have started; only theirs are dated trees, no    *)
(* two are dated alike, and what is on disk, or was, is dated; a tree is   *)
(* made before it is modified.                                             *)
Dated ==
  /\ IsFiniteSet(Started)
  /\ \A r \in Requests : mtime[r] # 0 => r \in Started
  /\ \A r \in Requests : made[r] <= mtime[r]
  /\ \A r \in present \cup cut : mtime[r] # 0
  /\ \A q, r \in Requests : mtime[q] = mtime[r] /\ mtime[r] # 0 => q = r

(* Who started stays started, and one request at a time starts.            *)
LEMMA StartedStep ==
  ASSUME Types, [Next]_vars
  PROVE  /\ Started \subseteq Started'
         /\ IsFiniteSet(Started) => IsFiniteSet(Started')
  <1>1. CASE \A q \in Requests : req'[q].kind = req[q].kind
    <2>1. Started' = Started
      BY <1>1 DEF Started
    <2> QED
      BY <2>1
  <1>2. ASSUME NEW r \in Requests, NEW kind \in AllKinds, NEW body \in Bodies \cup {<<>>},
               Arrive(r, kind, body)
        PROVE  Started' = Started \cup {r}
    BY <1>2, ArriveMoves DEF Started, AllKinds
  <1>3. ASSUME NEW r \in Requests, Step(r) PROVE \A q \in Requests : req'[q].kind = req[q].kind
    BY <1>3, StepMoves
  <1>4. ASSUME NEW victims \in SUBSET Requests, Lose(victims)
        PROVE  \A q \in Requests : req'[q].kind = req[q].kind
    BY <1>4, LoseMoves
  <1>5. CASE CrashServer \/ \E r \in Requests : Interrupt(r)
    BY <1>1, <1>4, <1>5 DEF CrashServer, Interrupt
  <1>6. CASE UNCHANGED vars
    BY <1>1, <1>6 DEF vars
  <1> QED
    BY <1>1, <1>2, <1>3, <1>5, <1>6, NextCases, FS_AddElement

(* A tree is written to by a request that has started, and is not pruning. *)
Fills(r) ==
  /\ Touch(r) /\ UNCHANGED cut /\ r \in Started' /\ req[r].step \in {"new", "ingest"}
  /\ \/ UNCHANGED made
     \/ req[r].kind = "none" /\ made' = [made EXCEPT ![r] = now + 1]

(* The trees change in four ways.                                          *)
LEMMA WorkspaceCases ==
  ASSUME Types, [Next]_vars
  PROVE  \/ UNCHANGED trees
         \/ \E r \in Requests : Fills(r)
         \/ \E r \in Requests : IngestFails(r)
         \/ \E r, q \in Requests : TakeApart(r, q) \/ DropTree(r, q)
  <1>1. ASSUME NEW r \in Requests, NEW kind \in AllKinds, NEW body \in Bodies \cup {<<>>},
               Arrive(r, kind, body)
        PROVE  UNCHANGED trees \/ Fills(r)
    <2>1. r \in Started' /\ req[r].kind = "none" /\ req[r].step = "new"
      BY <1>1, ArriveMoves DEF Started, AllKinds, Types, Shape, StepKind, Allowed, PruneSteps, Listed
    <2> QED
      BY <1>1, <2>1 DEF Arrive, Fills
  <1>2. ASSUME NEW r \in Requests, Ingest(r) PROVE Fills(r)
    <2>1. req[r].step = "ingest" /\ req'[r].kind = req[r].kind /\ Allowed(req[r].kind, req[r].step)
      BY <1>2, StepMoves DEF Step, ScanStep, Moves, Types, Shape, StepKind
    <2> QED
      BY <1>2, <2>1 DEF Ingest, Fills, Started, Allowed, PruneSteps, Listed
  <1>3. ASSUME NEW r \in Requests, Step(r)
        PROVE  \/ UNCHANGED trees
               \/ Ingest(r) \/ IngestFails(r)
               \/ \E q \in Requests : TakeApart(r, q) \/ DropTree(r, q)
    BY <1>3 DEF Step, ScanStep, PruneStep, OtherStep, IngestRaises, RunScanner, RateAsset,
       RateRaises, Render, RecordScan, LogScan, ListTrees, DateRaises, RankTrees, EndPrune,
       ApplySetting, LogSettings, LoadDocument, LogExport, Reply
  <1>4. CASE CrashServer \/ \E r \in Requests : Interrupt(r)
    BY <1>4 DEF CrashServer, Interrupt
  <1>5. CASE UNCHANGED vars
    BY <1>5 DEF vars, trees
  <1> QED
    BY <1>1, <1>2, <1>3, <1>4, <1>5, NextCases

(* What is listed: each tree was made by the date it is listed with, and   *)
(* no tree has been or is dated like another that is listed.               *)
DatedIn(dates) ==
  \A q \in DOMAIN dates :
    /\ dates[q] # 0 /\ made[q] <= dates[q] /\ dates[q] <= mtime[q]
    /\ \A s \in Requests \ {q} : mtime[s] # dates[q]
    /\ \A s \in DOMAIN dates \ {q} : dates[s] # dates[q]

ListingsDated == \A p \in Requests : req[p].step \in Listed => DatedIn(req[p].dates)

(* Overtaken by so many as the workspace keeps.                            *)
Overtaken(q) == Cardinality(Overtakers(q)) >= Keep

StaleOvertaken ==
  \A p \in Requests : req[p].step \in {"take", "drop"} =>
    \A q \in DOMAIN req[p].dates : Overtaken(q)

(* A prune, or who else took a step, has left a listing as it was.         *)
LEMMA ListingCases ==
  ASSUME Types, [Next]_vars, NEW p \in Requests, req'[p].step \in Listed
  PROVE  \/ /\ req[p].step \in Listed /\ req'[p].dates = req[p].dates
            /\ req'[p].step \in {"take", "drop"} => req[p].step \in {"take", "drop"}
         \/ ListTrees(p) \/ RankTrees(p) \/ \E q \in Requests : DropTree(p, q)
  <1>1. CASE req'[p] = req[p]
    BY <1>1
  <1>2. ASSUME NEW r \in Requests, NEW kind \in AllKinds, NEW body \in Bodies \cup {<<>>},
               Arrive(r, kind, body)
        PROVE  req'[p] = req[p]
    BY <1>2, ArriveMoves DEF Listed
  <1>3. ASSUME NEW r \in Requests, Step(r), r # p PROVE req'[p] = req[p]
    BY <1>3, StepMoves
  <1>4. CASE Step(p)
    <2>1. \/ ListTrees(p) \/ RankTrees(p)
          \/ \E q \in Requests : TakeApart(p, q) \/ DropTree(p, q)
      BY <1>4, StepMoves DEF Moves, Replies, Listed, Step, ScanStep, PruneStep, OtherStep
    <2>2. ASSUME NEW q \in Requests, TakeApart(p, q)
          PROVE  req[p].step = "take" /\ req'[p].dates = req[p].dates
      <3>1. DOMAIN req = Requests
            /\ DOMAIN req[p] = {"kind", "step", "scanned", "rated", "missed", "used", "header",
                                "body", "applied", "dates", "outcome"}
        BY DEF Types, Shape, ReqType, RequestRecord
      <3> QED
        BY <2>2, <3>1 DEF TakeApart, At, Goto
    <2> QED
      BY <2>1, <2>2 DEF Listed
  <1>5. ASSUME NEW victims \in SUBSET Requests, Lose(victims) PROVE req'[p] = req[p]
    BY <1>5, LoseMoves DEF Listed
  <1>6. CASE CrashServer \/ \E q \in Requests : Interrupt(q)
    BY <1>1, <1>5, <1>6 DEF CrashServer, Interrupt
  <1>7. CASE UNCHANGED vars
    BY <1>1, <1>7 DEF vars
  <1> QED
    BY <1>1, <1>2, <1>3, <1>4, <1>6, <1>7, NextCases

(* What a prune has listed after it has listed, ranked or removed.         *)
LEMMA PruneListings ==
  ASSUME Types, NEW r \in Requests
  PROVE  /\ ListTrees(r) => req'[r].step = "date" /\ req'[r].dates = [q \in present |-> mtime[q]]
         /\ RankTrees(r) =>
              /\ req[r].step = "date" /\ req'[r].step = "take"
              /\ \E seen \in SUBSET DOMAIN req[r].dates :
                 \E late \in SUBSET seen :
                   /\ DOMAIN req[r].dates \cap present \subseteq seen
                   /\ req'[r].dates = [q \in After(ReadDates(r, seen, late), Keep)
                                         |-> ReadDates(r, seen, late)[q]]
         /\ \A q \in Requests : DropTree(r, q) =>
              /\ req[r].step = "drop" /\ req'[r].step = "take" /\ q \in DOMAIN req[r].dates
              /\ req'[r].dates = [p \in DOMAIN req[r].dates \ {q} |-> req[r].dates[p]]
  <1>1. /\ DOMAIN req = Requests
        /\ DOMAIN req[r] = {"kind", "step", "scanned", "rated", "missed", "used", "header",
                            "body", "applied", "dates", "outcome"}
    BY DEF Types, Shape, ReqType, RequestRecord
  <1>2. ListTrees(r) => req'[r].step = "date" /\ req'[r].dates = [q \in present |-> mtime[q]]
    BY <1>1 DEF ListTrees
  <1>3. ASSUME RankTrees(r)
        PROVE  /\ req[r].step = "date" /\ req'[r].step = "take"
               /\ \E seen \in SUBSET DOMAIN req[r].dates :
                  \E late \in SUBSET seen :
                    /\ DOMAIN req[r].dates \cap present \subseteq seen
                    /\ req'[r].dates = [q \in After(ReadDates(r, seen, late), Keep)
                                          |-> ReadDates(r, seen, late)[q]]
    <2>1. PICK seen \in SUBSET DOMAIN req[r].dates :
                 /\ DOMAIN req[r].dates \cap present \subseteq seen
                 /\ \E late \in SUBSET {q \in seen : mtime[q] # req[r].dates[q]} :
                      GoesOn(r, After(ReadDates(r, seen, late), Keep), ReadDates(r, seen, late))
      BY <1>3 DEF RankTrees
    <2>2. PICK late \in SUBSET {q \in seen : mtime[q] # req[r].dates[q]} :
                 GoesOn(r, After(ReadDates(r, seen, late), Keep), ReadDates(r, seen, late))
      BY <2>1
    <2> DEFINE dates == ReadDates(r, seen, late)
               left  == [q \in After(dates, Keep) |-> dates[q]]
    <2>3. req' = [req EXCEPT ![r].step = "take", ![r].dates = left]
      BY <2>2 DEF GoesOn
    <2> HIDE DEF dates, left
    <2>4. req'[r].step = "take" /\ req'[r].dates = left
      BY <1>1, <2>3
    <2>5. late \in SUBSET seen /\ req[r].step = "date"
      BY <1>3, <2>2 DEF RankTrees, At
    <2> QED
      BY <2>1, <2>4, <2>5 DEF dates, left
  <1>4. ASSUME NEW q \in Requests, DropTree(r, q)
        PROVE  /\ req[r].step = "drop" /\ req'[r].step = "take" /\ q \in DOMAIN req[r].dates
               /\ req'[r].dates = [p \in DOMAIN req[r].dates \ {q} |-> req[r].dates[p]]
    BY <1>1, <1>4 DEF DropTree, At, NextStale
  <1> QED
    BY <1>2, <1>3, <1>4

(* Dates as the listing has them or as they are now are dates of their     *)
(* trees, no two alike, and the trees of finitely many requests.           *)
LEMMA ReadDated ==
  ASSUME Types, Dated, NEW r \in Requests, req[r].step \in Listed, DatedIn(req[r].dates),
         NEW seen \in SUBSET DOMAIN req[r].dates, NEW late \in SUBSET seen
  PROVE  LET dates == ReadDates(r, seen, late)
         IN  /\ DOMAIN dates = seen /\ seen \subseteq Started /\ IsFiniteSet(seen)
             /\ dates \in [seen -> Nat]
             /\ DatedIn(dates)
  <1> DEFINE dates == ReadDates(r, seen, late)
  <1>1. /\ req[r].dates \in Listings
        /\ mtime \in [Requests -> 0..now] /\ made \in [Requests -> 0..now] /\ now \in Nat
    BY DEF Types, TypeOK, Shape, ReqType, RequestRecord
  <1>2. seen \subseteq Requests /\ \A q \in seen : req[r].dates[q] \in Nat
    BY <1>1 DEF Listings
  <1>3. DOMAIN dates = seen
    BY DEF ReadDates
  <1>4. \A q \in seen : dates[q] = mtime[q] \/ dates[q] = req[r].dates[q]
    BY DEF ReadDates
  <1>5. dates = [q \in seen |-> dates[q]]
    BY DEF ReadDates
  <1> HIDE DEF dates
  <1>6. \A q \in seen : mtime[q] # 0
    BY <1>1, <1>2 DEF DatedIn
  <1>7. seen \subseteq Started
    BY <1>2, <1>6 DEF Dated
  <1>8. IsFiniteSet(seen)
    BY <1>7, FS_Subset DEF Dated
  <1>9. dates \in [seen -> Nat]
    BY <1>1, <1>2, <1>4, <1>5
  <1>10. DatedIn(dates)
    <2> SUFFICES ASSUME NEW q \in seen
                 PROVE  /\ dates[q] # 0 /\ made[q] <= dates[q] /\ dates[q] <= mtime[q]
                        /\ \A s \in Requests \ {q} : mtime[s] # dates[q]
                        /\ \A s \in seen \ {q} : dates[s] # dates[q]
      BY <1>3 DEF DatedIn
    <2>1. dates[q] # 0 /\ made[q] <= dates[q] /\ dates[q] <= mtime[q]
      BY <1>1, <1>2, <1>4, <1>6 DEF DatedIn, Dated
    <2>2. \A s \in Requests \ {q} : mtime[s] # dates[q]
      BY <1>2, <1>4, <1>6 DEF DatedIn, Dated
    <2>3. ASSUME NEW s \in seen \ {q} PROVE dates[s] # dates[q]
      <3>1. mtime[s] # mtime[q]
        BY <1>2, <1>6 DEF Dated
      <3> QED
        BY <1>2, <1>4, <3>1 DEF DatedIn
    <2> QED
      BY <2>1, <2>2, <2>3
  <1> QED
    BY <1>3, <1>7, <1>8, <1>9, <1>10 DEF dates

(* Trees are dated apart, and the listings with them.                      *)
LEMMA DatedStep == Types /\ Dated /\ ListingsDated /\ [Next]_vars => Dated'
  <1> SUFFICES ASSUME Types, Dated, ListingsDated, [Next]_vars PROVE Dated'
    OBVIOUS
  <1>1. Started \subseteq Started' /\ IsFiniteSet(Started')
    BY StartedStep DEF Dated
  <1>2. /\ present \subseteq Requests /\ cut \subseteq Requests /\ now \in Nat
        /\ mtime \in [Requests -> 0..now] /\ made \in [Requests -> 0..now]
    BY DEF Types, TypeOK
  <1>3. CASE UNCHANGED trees
    BY <1>1, <1>3 DEF Dated, trees
  <1>4. ASSUME NEW r \in Requests, Fills(r) PROVE Dated'
    <2>1. mtime'[r] = now + 1 /\ \A q \in Requests \ {r} : mtime'[q] = mtime[q] /\ mtime[q] # now + 1
      BY <1>2, <1>4 DEF Fills, Touch, Date
    <2>2. present' = present \cup {r} /\ now + 1 # 0 /\ cut' = cut
      BY <1>2, <1>4 DEF Fills, Touch
    <2>3. \A q \in Requests : made'[q] <= mtime'[q]
      BY <1>2, <1>4, <2>1 DEF Fills, Dated
    <2>4. \A q \in Requests : mtime'[q] # 0 => q \in Started'
      BY <1>1, <1>4, <2>1 DEF Fills, Dated
    <2> QED
      BY <1>1, <1>2, <2>1, <2>2, <2>3, <2>4 DEF Dated
  <1>5. ASSUME NEW r \in Requests, IngestFails(r) PROVE Dated'
    BY <1>1, <1>5 DEF IngestFails, Dated
  <1>6. ASSUME NEW r \in Requests, NEW q \in Requests, DropTree(r, q) PROVE Dated'
    BY <1>1, <1>6 DEF DropTree, Dated
  <1>7. ASSUME NEW r \in Requests, NEW q \in Requests, TakeApart(r, q) PROVE Dated'
    <2>1. mtime[q] # 0 /\ q \in Started
      <3>1. q \in DOMAIN req[r].dates /\ req[r].step \in Listed
        BY <1>7 DEF TakeApart, NextStale, At, Listed
      <3>2. req[r].dates[q] \in Nat
        <4>1. req[r].dates \in Listings
          BY DEF Types, Shape, ReqType, RequestRecord
        <4> QED
          BY <3>1, <4>1 DEF Listings
      <3>3. req[r].dates[q] # 0 /\ req[r].dates[q] <= mtime[q]
        BY <3>1 DEF ListingsDated, DatedIn
      <3> QED
        BY <1>2, <3>2, <3>3 DEF Dated
    <2>2. present' = present /\ made' = made /\ cut' = cut \cup {q}
      BY <1>7 DEF TakeApart
    <2>3. CASE UNCHANGED <<mtime, now>>
      BY <1>1, <2>1, <2>2, <2>3 DEF Dated
    <2>4. CASE Date(q)
      <3>1. mtime'[q] = now + 1 /\ \A s \in Requests \ {q} : mtime'[s] = mtime[s] /\ mtime[s] # now + 1
        BY <1>2, <2>4 DEF Date
      <3>2. \A s \in Requests : made'[s] <= mtime'[s]
        BY <1>2, <2>2, <3>1 DEF Dated
      <3> QED
        BY <1>1, <1>2, <2>1, <2>2, <3>1, <3>2 DEF Dated
    <2> QED
      BY <1>7, <2>3, <2>4 DEF TakeApart
  <1> QED
    BY <1>3, <1>4, <1>5, <1>6, <1>7, WorkspaceCases

(* What a step does to the dates of trees that exist: a later one for one  *)
(* of them, if any; when they were made stays.                             *)
LEMMA DatesGrow ==
  ASSUME Types, Dated, [Next]_vars
  PROVE  /\ \A q \in Requests : mtime'[q] = mtime[q] \/ mtime'[q] = now + 1
         /\ \A q \in Requests : mtime[q] <= mtime'[q]
         /\ \A q \in Requests : mtime[q] # 0 => made'[q] = made[q]
  <1>1. /\ now \in Nat /\ mtime \in [Requests -> 0..now] /\ made \in [Requests -> 0..now]
    BY DEF Types, TypeOK
  <1>2. CASE UNCHANGED trees
    BY <1>1, <1>2 DEF trees
  <1>3. ASSUME NEW r \in Requests, Fills(r)
        PROVE  /\ \A q \in Requests : mtime'[q] = mtime[q] \/ mtime'[q] = now + 1
               /\ \A q \in Requests : mtime[q] # 0 => made'[q] = made[q]
    <2>1. mtime' = [mtime EXCEPT ![r] = now + 1]
      BY <1>3 DEF Fills, Touch, Date
    <2>2. ASSUME NEW q \in Requests, mtime[q] # 0 PROVE made'[q] = made[q]
      <3>1. q \in Started
        BY <2>2 DEF Dated
      <3> QED
        BY <1>1, <1>3, <3>1 DEF Fills, Started
    <2> QED
      BY <1>1, <2>1, <2>2
  <1>4. ASSUME NEW r \in Requests, IngestFails(r) PROVE mtime' = mtime /\ made' = made
    BY <1>4 DEF IngestFails
  <1>5. ASSUME NEW r \in Requests, NEW q \in Requests, DropTree(r, q)
        PROVE  mtime' = mtime /\ made' = made
    BY <1>5 DEF DropTree
  <1>6. ASSUME NEW r \in Requests, NEW q \in Requests, TakeApart(r, q)
        PROVE  /\ mtime' = mtime \/ mtime' = [mtime EXCEPT ![q] = now + 1]
               /\ made' = made
    BY <1>6 DEF TakeApart, Date
  <1>7. /\ \A q \in Requests : mtime'[q] = mtime[q] \/ mtime'[q] = now + 1
        /\ \A q \in Requests : mtime[q] # 0 => made'[q] = made[q]
    BY <1>1, <1>2, <1>3, <1>4, <1>5, <1>6, WorkspaceCases
  <1> QED
    BY <1>1, <1>7

(* Listed dates stay apart as trees change, and as a prune drops some.     *)
LEMMA StayDated ==
  ASSUME Types, Dated, [Next]_vars, NEW dates \in Listings, DatedIn(dates),
         NEW some \in SUBSET DOMAIN dates
  PROVE  DatedIn([q \in some |-> dates[q]])'
  <1>1. \A q \in Requests : /\ mtime'[q] = mtime[q] \/ mtime'[q] = now + 1
                            /\ mtime[q] <= mtime'[q]
                            /\ mtime[q] # 0 => made'[q] = made[q]
    BY DatesGrow
  <1>2. /\ DOMAIN dates \subseteq Requests /\ \A q \in DOMAIN dates : dates[q] \in Nat
        /\ now \in Nat /\ mtime \in [Requests -> 0..now] /\ made \in [Requests -> 0..now]
    BY DEF Listings, Types, TypeOK
  <1>3. \A q \in Requests : mtime'[q] \in Nat
    BY <1>1, <1>2
  <1> SUFFICES ASSUME NEW q \in some
               PROVE  /\ dates[q] # 0 /\ made'[q] <= dates[q] /\ dates[q] <= mtime'[q]
                      /\ \A s \in Requests \ {q} : mtime'[s] # dates[q]
                      /\ \A s \in some \ {q} : dates[s] # dates[q]
    BY DEF DatedIn
  <1>4. /\ q \in Requests /\ dates[q] \in Nat
        /\ dates[q] # 0 /\ made[q] <= dates[q] /\ dates[q] <= mtime[q]
        /\ \A s \in Requests \ {q} : mtime[s] # dates[q]
        /\ \A s \in DOMAIN dates \ {q} : dates[s] # dates[q]
    BY <1>2 DEF DatedIn
  <1>5. mtime[q] \in 0..now /\ mtime[q] # 0
    BY <1>2, <1>4
  <1>6. made'[q] = made[q] /\ dates[q] <= mtime'[q] /\ dates[q] # now + 1
    BY <1>1, <1>2, <1>3, <1>4, <1>5
  <1>7. ASSUME NEW s \in Requests \ {q} PROVE mtime'[s] # dates[q]
    BY <1>1, <1>4, <1>6
  <1> QED
    BY <1>4, <1>6, <1>7

(* Nor does any step leave the listings otherwise dated.                   *)
LEMMA ListingsStep == Types /\ Dated /\ ListingsDated /\ [Next]_vars => ListingsDated'
  <1> SUFFICES ASSUME Types, Dated, ListingsDated, [Next]_vars,
                      NEW p \in Requests, req'[p].step \in Listed
               PROVE  DatedIn(req[p].dates)'
    BY DEF ListingsDated
  <1>1. /\ req[p].dates \in Listings
        /\ present \subseteq Requests /\ mtime \in [Requests -> 0..now] /\ now \in Nat
        /\ made \in [Requests -> 0..now]
    BY DEF Types, TypeOK, Shape, ReqType, RequestRecord
  <1>2. ASSUME NEW dates \in Listings, DatedIn(dates), NEW some \in SUBSET DOMAIN dates,
               req'[p].dates = [q \in some |-> dates[q]]
        PROVE  DatedIn(req[p].dates)'
    <2>1. DatedIn([q \in some |-> dates[q]])'
      BY <1>2, StayDated
    <2> QED
      BY <1>2, <2>1
  <1>3. CASE req[p].step \in Listed /\ req'[p].dates = req[p].dates
    <2>1. req[p].dates = [q \in DOMAIN req[p].dates |-> req[p].dates[q]]
      BY <1>1 DEF Listings
    <2> QED
      BY <1>1, <1>2, <1>3, <2>1 DEF ListingsDated
  <1>4. CASE ListTrees(p)
    <2> DEFINE dates == [q \in present |-> mtime[q]]
    <2>1. dates \in Listings
      BY <1>1 DEF Listings
    <2>2. DatedIn(dates)
      BY <1>1 DEF DatedIn, Dated
    <2>3. req'[p].dates = dates /\ dates = [q \in DOMAIN dates |-> dates[q]]
      BY <1>4, PruneListings
    <2> HIDE DEF dates
    <2> QED
      BY <1>2, <2>1, <2>2, <2>3
  <1>5. CASE RankTrees(p)
    <2>0. PICK seen \in SUBSET DOMAIN req[p].dates : \E late \in SUBSET seen :
                 /\ req[p].step = "date"
                 /\ req'[p].dates = [q \in After(ReadDates(p, seen, late), Keep)
                                       |-> ReadDates(p, seen, late)[q]]
      BY <1>5, PruneListings
    <2>1. PICK late \in SUBSET seen :
                 /\ req[p].step = "date"
                 /\ req'[p].dates = [q \in After(ReadDates(p, seen, late), Keep)
                                       |-> ReadDates(p, seen, late)[q]]
      BY <2>0
    <2> DEFINE dates == ReadDates(p, seen, late)
    <2>2. DOMAIN dates = seen /\ dates \in [seen -> Nat] /\ DatedIn(dates)
      BY <2>1, ReadDated DEF ListingsDated, Listed
    <2>3. seen \in SUBSET Requests
      BY <1>1 DEF Listings
    <2> HIDE DEF dates
    <2>4. dates \in Listings /\ After(dates, Keep) \in SUBSET DOMAIN dates
      BY <2>2, <2>3 DEF Listings, After
    <2>5. req'[p].dates = [q \in After(dates, Keep) |-> dates[q]]
      BY <2>1 DEF dates
    <2> QED
      BY <1>2, <2>2, <2>4, <2>5
  <1>6. ASSUME NEW q \in Requests, DropTree(p, q) PROVE DatedIn(req[p].dates)'
    <2>1. /\ req[p].step \in Listed
          /\ req'[p].dates = [s \in DOMAIN req[p].dates \ {q} |-> req[p].dates[s]]
      BY <1>6, PruneListings DEF Listed
    <2> QED
      BY <1>1, <1>2, <2>1 DEF ListingsDated
  <1> QED
    BY <1>3, <1>4, <1>5, <1>6, ListingCases

(* Finitely many overtake.                                                 *)
LEMMA OvertakersFinite ==
  ASSUME Types, Dated, NEW q \in Requests
  PROVE  IsFiniteSet(Overtakers(q)) /\ Cardinality(Overtakers(q)) \in Nat
  <1>1. mtime \in [Requests -> 0..now] /\ made \in [Requests -> 0..now] /\ now \in Nat
    BY DEF Types, TypeOK
  <1>2. Overtakers(q) \subseteq Started
    BY <1>1 DEF Overtakers, Dated
  <1> QED
    BY <1>2, FS_Subset, FS_CardinalityType DEF Dated

(* An overtaken tree stays so.                                             *)
LEMMA StaysOvertaken ==
  ASSUME Types, Dated, ListingsDated, [Next]_vars, NEW q \in Requests, mtime[q] # 0, Overtaken(q)
  PROVE  Overtaken(q)'
  <1>1. Keep \in Nat
    BY ScanServerAssumption
  <1>2. /\ \A s \in Requests : mtime[s] <= mtime'[s]
        /\ made'[q] = made[q]
    BY DatesGrow
  <1>3. Types' /\ Dated'
    BY TypesStep, DatedStep
  <1>4. /\ mtime \in [Requests -> 0..now] /\ made \in [Requests -> 0..now] /\ now \in Nat
        /\ mtime' \in [Requests -> 0..now'] /\ now' \in Nat
    BY <1>3 DEF Types, TypeOK
  <1>5. Overtakers(q) \subseteq Overtakers(q)'
    BY <1>2, <1>4 DEF Overtakers
  <1>6. /\ IsFiniteSet(Overtakers(q)') /\ Cardinality(Overtakers(q)') \in Nat
    <2>1. Overtakers(q)' \subseteq Started'
      BY <1>2, <1>3, <1>4 DEF Overtakers, Dated
    <2> QED
      BY <1>3, <2>1, FS_Subset, FS_CardinalityType DEF Dated
  <1>7. Cardinality(Overtakers(q)) <= Cardinality(Overtakers(q)')
    BY <1>5, <1>6, FS_Subset
  <1>8. Cardinality(Overtakers(q)) \in Nat
    BY OvertakersFinite
  <1> QED
    BY <1>1, <1>6, <1>7, <1>8 DEF Overtaken

(* What a ranking finds stale has been overtaken.                          *)
LEMMA RankedOvertaken ==
  ASSUME Types, Dated, NEW seen \in SUBSET Requests, NEW dates \in [seen -> Nat], DatedIn(dates),
         NEW q \in After(dates, Keep)
  PROVE  Overtaken(q)
  <1>1. q \in seen /\ Keep \in Nat /\ mtime \in [Requests -> 0..now] /\ now \in Nat
        /\ made \in [Requests -> 0..now]
    BY ScanServerAssumption DEF After, Types, TypeOK
  <1> DEFINE later == {p \in seen : dates[p] > dates[q]}
  <1>2. Cardinality(later) >= Keep
    BY DEF After
  <1>3. later \subseteq Overtakers(q)
    <2> SUFFICES ASSUME NEW p \in seen, dates[p] > dates[q] PROVE p \in Overtakers(q)
      OBVIOUS
    <2>1. p \in Requests /\ p # q /\ dates[p] \in Nat /\ dates[q] \in Nat
      BY <1>1
    <2>2. dates[p] <= mtime[p] /\ made[q] <= dates[q]
      BY <1>1 DEF DatedIn
    <2>3. mtime[p] \in Nat /\ made[q] \in Nat
      BY <1>1, <2>1
    <2>4. mtime[p] > made[q]
      BY <2>1, <2>2, <2>3
    <2> QED
      BY <2>1, <2>4 DEF Overtakers
  <1>4. IsFiniteSet(Overtakers(q)) /\ Cardinality(Overtakers(q)) \in Nat
    BY <1>1, OvertakersFinite
  <1>5. IsFiniteSet(later) /\ Cardinality(later) <= Cardinality(Overtakers(q))
    BY <1>3, <1>4, FS_Subset
  <1>6. Cardinality(later) \in Nat
    BY <1>5, FS_CardinalityType
  <1> HIDE DEF later
  <1> QED
    BY <1>1, <1>2, <1>4, <1>5, <1>6 DEF Overtaken

(* A listed tree has a date of its own.                                    *)
LEMMA ListedDated ==
  ASSUME Types, ListingsDated, NEW p \in Requests, req[p].step \in Listed,
         NEW q \in DOMAIN req[p].dates
  PROVE  q \in Requests /\ mtime[q] # 0
  <1>1. req[p].dates \in Listings /\ mtime \in [Requests -> 0..now] /\ now \in Nat
    BY DEF Types, TypeOK, Shape, ReqType, RequestRecord
  <1>2. q \in Requests /\ req[p].dates[q] \in Nat
    BY <1>1 DEF Listings
  <1>3. req[p].dates[q] # 0 /\ req[p].dates[q] <= mtime[q]
    BY DEF ListingsDated, DatedIn
  <1> QED
    BY <1>1, <1>2, <1>3

(* What a prune is to remove has been overtaken.                           *)
LEMMA StaleStep ==
  Types /\ Dated /\ ListingsDated /\ StaleOvertaken /\ [Next]_vars => StaleOvertaken'
  <1> SUFFICES ASSUME Types, Dated, ListingsDated, StaleOvertaken, [Next]_vars,
                      NEW p \in Requests, req'[p].step \in {"take", "drop"},
                      NEW q \in DOMAIN req'[p].dates
               PROVE  Overtaken(q)'
    BY DEF StaleOvertaken
  <1>1. ASSUME req[p].step \in {"take", "drop"}, q \in DOMAIN req[p].dates
        PROVE  Overtaken(q)'
    <2>1. q \in Requests /\ mtime[q] # 0
      BY <1>1, ListedDated DEF Listed
    <2>2. Overtaken(q)
      BY <1>1 DEF StaleOvertaken
    <2> QED
      BY <2>1, <2>2, StaysOvertaken
  <1>2. CASE /\ req[p].step \in Listed /\ req'[p].dates = req[p].dates
             /\ req[p].step \in {"take", "drop"}
    BY <1>1, <1>2
  <1>3. ~ListTrees(p)
    BY PruneListings
  <1>4. CASE RankTrees(p)
    <2>0. PICK seen \in SUBSET DOMAIN req[p].dates : \E late \in SUBSET seen :
                 /\ req[p].step = "date"
                 /\ req'[p].dates = [s \in After(ReadDates(p, seen, late), Keep)
                                       |-> ReadDates(p, seen, late)[s]]
      BY <1>4, PruneListings
    <2>1. PICK late \in SUBSET seen :
                 /\ req[p].step = "date"
                 /\ req'[p].dates = [s \in After(ReadDates(p, seen, late), Keep)
                                       |-> ReadDates(p, seen, late)[s]]
      BY <2>0
    <2> DEFINE dates == ReadDates(p, seen, late)
    <2>2. dates \in [seen -> Nat] /\ DatedIn(dates) /\ DOMAIN dates = seen
      BY <2>1, ReadDated DEF ListingsDated, Listed
    <2>3. seen \in SUBSET Requests
      BY DEF Types, Shape, ReqType, RequestRecord, Listings
    <2>4. q \in After(dates, Keep)
      BY <2>1
    <2> HIDE DEF dates
    <2>5. Overtaken(q)
      BY <2>2, <2>3, <2>4, RankedOvertaken
    <2>6. q \in seen
      BY <2>2, <2>4 DEF After
    <2>7. q \in Requests /\ mtime[q] # 0
      BY <2>1, <2>6, ListedDated DEF Listed
    <2> QED
      BY <2>5, <2>7, StaysOvertaken
  <1>5. ASSUME NEW s \in Requests, DropTree(p, s) PROVE Overtaken(q)'
    <2>1. /\ req[p].step = "drop"
          /\ req'[p].dates = [t \in DOMAIN req[p].dates \ {s} |-> req[p].dates[t]]
      BY <1>5, PruneListings
    <2> QED
      BY <1>1, <2>1
  <1>6. req'[p].step \in Listed
    BY DEF Listed
  <1> QED
    BY <1>2, <1>3, <1>4, <1>5, <1>6, ListingCases

(* A prune begins to remove only what has been overtaken.                  *)
LEMMA LostStep ==
  Types /\ Dated /\ ListingsDated /\ StaleOvertaken /\ LostOnlyWhenOvertaken /\ [Next]_vars
    => LostOnlyWhenOvertaken'
  <1> SUFFICES ASSUME Types, Dated, ListingsDated, StaleOvertaken, LostOnlyWhenOvertaken,
                      [Next]_vars, NEW q \in cut'
               PROVE  Overtaken(q)'
    BY DEF LostOnlyWhenOvertaken, Overtaken
  <1>1. cut \subseteq Requests
    BY DEF Types, TypeOK
  <1>2. CASE q \in cut
    BY <1>1, <1>2, StaysOvertaken DEF Dated, LostOnlyWhenOvertaken, Overtaken
  <1>3. CASE q \notin cut
    <2>1. PICK p \in Requests : TakeApart(p, q)
      BY <1>3, WorkspaceCases DEF trees, Fills, IngestFails, TakeApart, DropTree
    <2>2. req[p].step = "take" /\ q \in DOMAIN req[p].dates
      BY <2>1 DEF TakeApart, At, NextStale
    <2>3. q \in Requests /\ mtime[q] # 0
      BY <2>2, ListedDated DEF Listed
    <2>4. Overtaken(q)
      BY <2>2 DEF StaleOvertaken
    <2> QED
      BY <2>3, <2>4, StaysOvertaken
  <1> QED
    BY <1>2, <1>3

-----------------------------------------------------------------------------
(* How many trees there are.  Count any of the prunes underway as if they  *)
(* had ended: the trees beyond those not pruned are then Keep and what     *)
(* these prunes have still to remove; or they are what one of them has     *)
(* listed and not ranked yet.  No prune counted, these are at most Keep.   *)

Listers == {p \in Requests : req[p].step \in Listed}

ToRemove(S) == UNION {DOMAIN req[p].dates : p \in {s \in S : req[s].step \in {"take", "drop"}}}

Others(S) == present \ (Unpruned \ S)

WithinKeep(S) ==
  \/ \E kept \in SUBSET Requests : /\ IsFiniteSet(kept) /\ Cardinality(kept) <= Keep
                                   /\ Others(S) \subseteq kept \cup ToRemove(S)
  \/ \E p \in S : req[p].step = "date" /\ Others(S) \subseteq DOMAIN req[p].dates

Kept == \A S \in SUBSET Listers : WithinKeep(S)

(* A ranking finds all but Keep trees stale.                               *)
LEMMA RankingKeeps ==
  ASSUME NEW seen, IsFiniteSet(seen), NEW dates \in [seen -> Nat],
         \A p, q \in seen : p # q => dates[p] # dates[q]
  PROVE  LET kept == seen \ After(dates, Keep)
         IN  IsFiniteSet(kept) /\ Cardinality(kept) <= Keep
  <1> DEFINE Later(q) == {p \in seen : dates[p] > dates[q]}
             kept == seen \ After(dates, Keep)
             rank == [q \in kept |-> Cardinality(Later(q))]
  <1>1. Keep \in Nat /\ DOMAIN dates = seen
    BY ScanServerAssumption
  <1>2. \A q \in seen : IsFiniteSet(Later(q)) /\ Cardinality(Later(q)) \in Nat
    BY FS_Subset, FS_CardinalityType
  <1>3. ASSUME NEW p \in seen, NEW q \in seen, dates[p] < dates[q]
        PROVE  Cardinality(Later(q)) < Cardinality(Later(p))
    <2>1. Later(q) \cup {q} \subseteq Later(p)
      BY <1>3
    <2>2. q \notin Later(q)
      OBVIOUS
    <2>3. Cardinality(Later(q) \cup {q}) = Cardinality(Later(q)) + 1
      BY <1>2, <2>2, FS_AddElement
    <2>4. Cardinality(Later(q) \cup {q}) <= Cardinality(Later(p))
      BY <1>2, <2>1, FS_Subset
    <2> HIDE DEF Later
    <2> QED
      BY <1>2, <2>3, <2>4
  <1>4. \A p, q \in seen : p # q => dates[p] < dates[q] \/ dates[q] < dates[p]
    OBVIOUS
  <1>5. ASSUME NEW q \in kept PROVE Cardinality(Later(q)) < Keep
    <2>1. q \in seen /\ q \notin After(dates, Keep)
      OBVIOUS
    <2>2. {p \in DOMAIN dates : dates[p] > dates[q]} = Later(q)
      BY <1>1
    <2>3. ~(Cardinality(Later(q)) >= Keep)
      BY <1>1, <2>1, <2>2 DEF After
    <2> HIDE DEF Later
    <2> QED
      BY <1>1, <1>2, <2>1, <2>3
  <1> HIDE DEF Later
  <1>6. \A p, q \in kept : p # q => rank[p] # rank[q]
    BY <1>2, <1>3, <1>4
  <1>7. \A q \in kept : rank[q] \in 0..(Keep - 1)
    BY <1>1, <1>2, <1>5
  <1>8. rank \in [kept -> 0..(Keep - 1)]
    BY <1>7
  <1> HIDE DEF kept, rank
  <1>9. rank \in Injection(kept, 0..(Keep - 1))
    BY <1>6, <1>8 DEF Injection, IsInjective
  <1>10. IsFiniteSet(0..(Keep - 1)) /\ Cardinality(0..(Keep - 1)) = Keep
    BY <1>1, FS_Interval
  <1>11. IsFiniteSet(kept) /\ Cardinality(kept) <= Keep
    BY <1>9, <1>10, FS_Injection
  <1> QED
    BY <1>11 DEF kept

(* A step that gives the prunes counted no more trees to answer for.       *)
LEMMA KeptCarries ==
  ASSUME Kept, NEW S \in SUBSET Listers, NEW S2,
         Others(S2)' \subseteq Others(S),
         ToRemove(S) \cap Others(S2)' \subseteq ToRemove(S2)',
         \A p \in S : req[p].step = "date" =>
           p \in S2 /\ req'[p].step = "date" /\ req'[p].dates = req[p].dates
  PROVE  WithinKeep(S2)'
  <1>1. WithinKeep(S)
    BY DEF Kept
  <1>2. CASE \E kept \in SUBSET Requests : /\ IsFiniteSet(kept) /\ Cardinality(kept) <= Keep
                                           /\ Others(S) \subseteq kept \cup ToRemove(S)
    <2>1. PICK kept \in SUBSET Requests : /\ IsFiniteSet(kept) /\ Cardinality(kept) <= Keep
                                          /\ Others(S) \subseteq kept \cup ToRemove(S)
      BY <1>2
    <2>2. Others(S2)' \subseteq kept \cup ToRemove(S2)'
      BY <2>1
    <2> QED
      BY <2>1, <2>2 DEF WithinKeep
  <1>3. CASE \E p \in S : req[p].step = "date" /\ Others(S) \subseteq DOMAIN req[p].dates
    <2>1. PICK p \in S : req[p].step = "date" /\ Others(S) \subseteq DOMAIN req[p].dates
      BY <1>3
    <2>2. p \in S2 /\ req'[p].step = "date" /\ req'[p].dates = req[p].dates
      BY <2>1
    <2>3. Others(S2)' \subseteq DOMAIN req'[p].dates
      BY <2>1, <2>2
    <2> QED
      BY <2>2, <2>3 DEF WithinKeep
  <1> QED
    BY <1>1, <1>2, <1>3 DEF WithinKeep

(* Whoever a step leaves alone keeps what it has listed.                   *)
LEMMA SameListings ==
  ASSUME NEW S, \A p \in S : req'[p] = req[p]
  PROVE  /\ ToRemove(S)' = ToRemove(S)
         /\ \A p \in S : req'[p].step = req[p].step /\ req'[p].dates = req[p].dates
  <1>1. {s \in S : req'[s].step \in {"take", "drop"}} = {s \in S : req[s].step \in {"take", "drop"}}
    OBVIOUS
  <1>2. ToRemove(S)' = UNION {DOMAIN req'[p].dates : p \in {s \in S : req'[s].step \in {"take", "drop"}}}
    BY DEF ToRemove
  <1>3. ToRemove(S)' = UNION {DOMAIN req[p].dates : p \in {s \in S : req[s].step \in {"take", "drop"}}}
    BY <1>1, <1>2
  <1> QED
    BY <1>3 DEF ToRemove

(* A step that neither prunes nor ends a prune leaves no more trees for    *)
(* the prunes to answer for, and does not touch what they have listed.     *)
LEMMA UnprunedStep ==
  ASSUME Types, [Next]_vars, ~\E r \in Requests : PruneStep(r),
         NEW S \in SUBSET Listers'
  PROVE  /\ S \subseteq Listers /\ \A p \in S : req'[p] = req[p]
         /\ Others(S)' \subseteq Others(S)
  <1> USE DEF Unpruned, Others, Listers, Listed
  <1>1. present \subseteq Requests
    BY DEF Types, TypeOK
  <1>2. ASSUME NEW r \in Requests, NEW kind \in AllKinds, NEW body \in Bodies \cup {<<>>},
               Arrive(r, kind, body)
        PROVE  /\ \A p \in S : req'[p] = req[p]
               /\ Others(S)' \subseteq Others(S)
    <2>1. req[r].kind = "none"
      BY <1>2, ArriveMoves DEF Types, Shape, StepKind, Allowed
    <2>2. \A q \in Requests \ {r} : req'[q] = req[q]
      BY <1>2, ArriveMoves
    <2>3. r \notin S
      BY <1>2, ArriveMoves
    <2>4. CASE kind \in WithTree
      <3>1. req'[r].kind = kind /\ req'[r].step = "ingest"
        BY <1>2, <2>4, ArriveMoves
      <3>2. present' = present \cup {r} /\ r \in Unpruned'
        BY <1>2, <2>4, <3>1 DEF Arrive, Touch
      <3> QED
        BY <1>1, <2>2, <2>3, <3>2
    <2>5. CASE kind \notin WithTree
      <3>1. present' = present /\ r \notin Unpruned
        BY <1>2, <2>1, <2>5 DEF Arrive, WithTree, trees
      <3> QED
        BY <1>1, <2>2, <2>3, <3>1
    <2> QED
      BY <2>4, <2>5
  <1>3. ASSUME NEW r \in Requests, Step(r)
        PROVE  /\ \A p \in S : req'[p] = req[p]
               /\ Others(S)' \subseteq Others(S)
    <2>1. /\ \A q \in Requests \ {r} : req'[q] = req[q]
          /\ req'[r].kind = req[r].kind /\ Allowed(req[r].kind, req[r].step)
      BY <1>3, StepMoves DEF Types, Shape, StepKind
    <2>2. ScanStep(r) \/ OtherStep(r) \/ Reply(r)
      BY <1>3 DEF Step
    <2>3. r \notin S
      BY <1>3, <2>2, StepMoves DEF Moves, Replies, ScanStep, OtherStep
    <2>4. CASE Ingest(r)
      <3>1. req[r].kind \in WithTree /\ req'[r].step = "scan"
        BY <1>3, <2>1, <2>4, StepMoves DEF Moves, Allowed
      <3>2. present' = present \cup {r} /\ r \in Unpruned'
        BY <2>1, <2>4, <3>1 DEF Ingest, Touch
      <3> QED
        BY <1>1, <2>1, <2>3, <3>2
    <2>5. CASE IngestFails(r)
      <3>1. present' = present \ {r}
        BY <2>5 DEF IngestFails
      <3> QED
        BY <1>1, <2>1, <2>3, <3>1
    <2>6. CASE LogScan(r)
      <3>1. \/ req'[r].step = "prune"
            \/ req[r].kind \notin Prunes
        BY <1>3, <2>6, StepMoves DEF Moves
      <3>2. present' = present /\ (r \in Unpruned => r \in Unpruned')
        BY <2>1, <2>6, <3>1 DEF LogScan, Prunes, WithTree, trees
      <3> QED
        BY <1>1, <2>1, <2>3, <3>2
    <2>7. CASE IngestRaises(r) \/ RunScanner(r) \/ RateAsset(r) \/ RateRaises(r) \/ Render(r)
               \/ RecordScan(r)
      <3>1. \/ req'[r].step \in {"scan", "save", "recorded"}
            \/ req'[r].outcome = "error"
        BY <1>3, <2>7, StepMoves DEF Moves, Replies
      <3>2. present' = present /\ (r \in Unpruned => r \in Unpruned')
        BY <2>1, <2>7, <3>1 DEF IngestRaises, RunScanner, RateAsset, RateRaises, Render,
           RecordScan, trees
      <3> QED
        BY <1>1, <2>1, <2>3, <3>2
    <2>8. CASE ApplySetting(r) \/ LogSettings(r) \/ LoadDocument(r) \/ LogExport(r)
      <3>1. req[r].kind \notin WithTree
        BY <1>3, <2>1, <2>8, StepMoves DEF Moves, Replies, Allowed, WithTree
      <3>2. present' = present /\ r \notin Unpruned
        BY <2>8, <3>1 DEF ApplySetting, LogSettings, LoadDocument, LogExport, trees
      <3> QED
        BY <1>1, <2>1, <2>3, <3>2
    <2>9. CASE Reply(r)
      <3>1. req[r].step = "reply" /\ req'[r].outcome = req[r].outcome
        BY <1>3, <2>9, StepMoves DEF Moves
      <3>2. present' = present /\ (r \in Unpruned => r \in Unpruned')
        BY <2>1, <2>9, <3>1 DEF Reply, trees
      <3> QED
        BY <1>1, <2>1, <2>3, <3>2
    <2> QED
      BY <2>2, <2>4, <2>5, <2>6, <2>7, <2>8, <2>9 DEF ScanStep, OtherStep
  <1>4. ASSUME NEW victims \in SUBSET Requests, Lose(victims), present' = present
        PROVE  /\ \A p \in S : req'[p] = req[p]
               /\ Others(S)' \subseteq Others(S)
    BY <1>1, <1>4, LoseMoves
  <1>5. CASE CrashServer \/ \E r \in Requests : Interrupt(r)
    BY <1>4, <1>5 DEF CrashServer, Interrupt, trees
  <1>6. CASE UNCHANGED vars
    BY <1>6 DEF vars
  <1>7. /\ \A p \in S : req'[p] = req[p]
        /\ Others(S)' \subseteq Others(S)
    BY <1>2, <1>3, <1>5, <1>6, NextCases
  <1> QED
    BY <1>7

(* The step of a prune leaves, of the trees to answer for, those that are  *)
(* still there, and its own once it has ended.                             *)
LEMMA PruneOthers ==
  ASSUME Types, NEW r \in Requests, PruneStep(r), NEW S, NEW S2,
         S \ {r} = S2 \ {r}
  PROVE  Others(S2)' \subseteq (Others(S) \cap present') \cup {r}
  <1>1. /\ \A q \in Requests \ {r} : req'[q] = req[q]
        /\ present' \subseteq present /\ present \subseteq Requests
    <2>1. Step(r)
      BY DEF Step
    <2>2. present' \subseteq present
      BY DEF PruneStep, ListTrees, DateRaises, RankTrees, EndPrune, TakeApart, DropTree, trees
    <2> QED
      BY <2>1, <2>2, StepMoves DEF Types, TypeOK
  <1> QED
    BY <1>1 DEF Others, Unpruned

(* What is still to be removed, before and after a step.                   *)
LEMMA ToRemoveBy ==
  ASSUME NEW S, NEW q
  PROVE  /\ q \in ToRemove(S)  <=> \E p \in S : /\ req[p].step \in {"take", "drop"}
                                                /\ q \in DOMAIN req[p].dates
         /\ q \in ToRemove(S)' <=> \E p \in S : /\ req'[p].step \in {"take", "drop"}
                                                /\ q \in DOMAIN req'[p].dates
  BY DEF ToRemove

(* No step spoils the count.                                               *)
LEMMA KeptStep ==
  Types /\ Dated /\ ListingsDated /\ Kept /\ [Next]_vars => Kept'
  <1> SUFFICES ASSUME Types, Dated, ListingsDated, Kept, [Next]_vars, NEW S \in SUBSET Listers'
               PROVE  WithinKeep(S)'
    BY DEF Kept
  <1>1. CASE ~\E r \in Requests : PruneStep(r)
    <2>1. /\ S \subseteq Listers /\ \A p \in S : req'[p] = req[p]
          /\ Others(S)' \subseteq Others(S)
      BY <1>1, UnprunedStep
    <2>2. ToRemove(S)' = ToRemove(S)
      BY <2>1, SameListings
    <2> QED
      BY <2>1, <2>2, KeptCarries
  <1>2. ASSUME NEW r \in Requests, PruneStep(r) PROVE WithinKeep(S)'
    <2>1. /\ \A q \in Requests \ {r} : req'[q] = req[q]
          /\ req'[r].kind = req[r].kind
          /\ \A q \in Requests : Allowed(req[q].kind, req[q].step)
      BY <1>2, StepMoves DEF Step, Types, Shape, StepKind
    <2>2. S \subseteq Requests /\ \A q \in S : req'[q].step \in Listed
      BY DEF Listers
    <2>3. \A q \in S \ {r} : req'[q] = req[q] /\ q \in Listers
      BY <2>1, <2>2 DEF Listers
    <2>4. Step(r)
      BY <1>2 DEF Step
    <2>5. CASE ListTrees(r)
      <3>1. req[r].step = "prune" /\ req'[r].step = "date" /\ DOMAIN req'[r].dates = present
            /\ present' = present
        BY <2>4, <2>5, StepMoves, PruneListings DEF Moves, ListTrees, trees
      <3>2. CASE r \in S
        BY <3>1, <3>2 DEF WithinKeep, Others
      <3>3. CASE r \notin S
        <4>1. r \in Unpruned /\ r \in Unpruned'
          BY <2>1, <3>1 DEF Unpruned, Allowed, PruneSteps, Prunes, WithTree
        <4>2. Others(S)' \subseteq Others(S)
          BY <2>4, <3>1, <3>3, <4>1, PruneOthers, <1>2 DEF Others
        <4>3. ToRemove(S)' = ToRemove(S) /\ S \subseteq Listers
          BY <2>3, <3>3, SameListings
        <4> QED
          BY <2>3, <3>3, <4>2, <4>3, KeptCarries
      <3> QED
        BY <3>2, <3>3
    <2>6. CASE DateRaises(r)
      <3>1. /\ req[r].step = "date" /\ req'[r].step = "reply" /\ req'[r].outcome = "error"
            /\ present' = present
        BY <2>4, <2>6, StepMoves DEF Replies, DateRaises, trees
      <3>2. r \notin S
        BY <2>2, <3>1 DEF Listed
      <3>3. r \in Unpruned /\ r \in Unpruned'
        BY <2>1, <3>1 DEF Unpruned, Allowed, PruneSteps, Listed, Prunes, WithTree
      <3>4. Others(S)' \subseteq Others(S)
        BY <1>2, <3>1, <3>2, <3>3, PruneOthers DEF Others
      <3>5. ToRemove(S)' = ToRemove(S) /\ S \subseteq Listers
        BY <2>3, <3>2, SameListings
      <3> QED
        BY <2>3, <3>2, <3>4, <3>5, KeptCarries
    <2>7. CASE RankTrees(r)
      <3>1. PICK seen \in SUBSET DOMAIN req[r].dates : \E late \in SUBSET seen :
                   /\ req[r].step = "date" /\ req'[r].step = "take"
                   /\ DOMAIN req[r].dates \cap present \subseteq seen
                   /\ req'[r].dates = [q \in After(ReadDates(r, seen, late), Keep)
                                         |-> ReadDates(r, seen, late)[q]]
        BY <2>7, PruneListings
      <3>2. PICK late \in SUBSET seen :
                   /\ req[r].step = "date" /\ req'[r].step = "take"
                   /\ DOMAIN req[r].dates \cap present \subseteq seen
                   /\ req'[r].dates = [q \in After(ReadDates(r, seen, late), Keep)
                                         |-> ReadDates(r, seen, late)[q]]
        BY <3>1
      <3> DEFINE dates == ReadDates(r, seen, late)
                 stale == After(dates, Keep)
      <3>3. /\ seen \subseteq Requests /\ IsFiniteSet(seen)
            /\ dates \in [seen -> Nat] /\ DatedIn(dates) /\ DOMAIN dates = seen
        <4>1. req[r].dates \in Listings
          BY DEF Types, Shape, ReqType, RequestRecord
        <4>2. seen \subseteq Requests
          BY <4>1 DEF Listings
        <4> QED
          BY <3>2, <4>2, ReadDated DEF ListingsDated, Listed
      <3>4. DOMAIN req'[r].dates = stale
        BY <3>2
      <3> HIDE DEF dates
      <3>5. IsFiniteSet(seen \ stale) /\ Cardinality(seen \ stale) <= Keep
        <4>1. \A p, q \in seen : p # q => dates[p] # dates[q]
          BY <3>3 DEF DatedIn
        <4> QED
          BY <3>3, <4>1, RankingKeeps
      <3> HIDE DEF stale
      <3>6. r \in Unpruned /\ r \in Unpruned' /\ present' = present /\ r \in Listers
        <4>1. present' = present
          BY <2>7 DEF RankTrees, trees
        <4> QED
          BY <2>1, <3>2, <4>1 DEF Unpruned, Allowed, PruneSteps, Listed, Listers, Prunes, WithTree
      <3>7. S \subseteq Listers
        BY <2>3, <3>6
      <3>8. Others(S)' \subseteq Others(S)
        BY <1>2, <3>6, PruneOthers DEF Others
      <3>9. ToRemove(S) \subseteq ToRemove(S)'
        <4> SUFFICES ASSUME NEW q \in ToRemove(S) PROVE q \in ToRemove(S)'
          OBVIOUS
        <4>1. PICK p \in S : req[p].step \in {"take", "drop"} /\ q \in DOMAIN req[p].dates
          BY ToRemoveBy
        <4>2. req'[p] = req[p]
          BY <2>3, <3>2, <4>1
        <4> QED
          BY <4>1, <4>2, ToRemoveBy
      <3>10. CASE /\ r \in S
                  /\ Others(S) \subseteq DOMAIN req[r].dates
        <4>1. stale \subseteq ToRemove(S)'
          BY <3>2, <3>4, <3>10, ToRemoveBy
        <4>2. Others(S)' \subseteq seen
          BY <3>2, <3>8, <3>10 DEF Others
        <4>3. Others(S)' \subseteq (seen \ stale) \cup ToRemove(S)'
          BY <4>1, <4>2
        <4> QED
          BY <3>3, <3>5, <4>3 DEF WithinKeep
      <3>11. CASE \E p \in S \ {r} : req[p].step = "date" /\ Others(S) \subseteq DOMAIN req[p].dates
        <4>1. PICK p \in S \ {r} : req[p].step = "date" /\ Others(S) \subseteq DOMAIN req[p].dates
          BY <3>11
        <4>2. p \in S /\ req'[p].step = "date" /\ Others(S)' \subseteq DOMAIN req'[p].dates
          BY <2>3, <3>8, <4>1
        <4> QED
          BY <4>2 DEF WithinKeep
      <3>12. CASE \E kept \in SUBSET Requests : /\ IsFiniteSet(kept) /\ Cardinality(kept) <= Keep
                                                /\ Others(S) \subseteq kept \cup ToRemove(S)
        <4>1. PICK kept \in SUBSET Requests : /\ IsFiniteSet(kept) /\ Cardinality(kept) <= Keep
                                              /\ Others(S) \subseteq kept \cup ToRemove(S)
          BY <3>12
        <4>2. Others(S)' \subseteq kept \cup ToRemove(S)'
          BY <3>8, <3>9, <4>1
        <4> QED
          BY <4>1, <4>2 DEF WithinKeep
      <3> QED
        BY <3>7, <3>10, <3>11, <3>12 DEF Kept, WithinKeep
    <2>8. ASSUME NEW q \in Requests, TakeApart(r, q) PROVE WithinKeep(S)'
      <3>1. /\ req[r].step = "take" /\ req'[r].step = "drop" /\ req'[r].dates = req[r].dates
            /\ present' = present
        <4>1. /\ DOMAIN req = Requests
              /\ DOMAIN req[r] = {"kind", "step", "scanned", "rated", "missed", "used", "header",
                                  "body", "applied", "dates", "outcome"}
          BY DEF Types, Shape, ReqType, RequestRecord
        <4> QED
          BY <2>8, <4>1 DEF TakeApart, At, Goto
      <3>2. r \in Unpruned /\ r \in Unpruned' /\ r \in Listers
        BY <2>1, <3>1 DEF Unpruned, Allowed, PruneSteps, Listed, Listers, Prunes, WithTree
      <3>3. Others(S)' \subseteq Others(S)
        BY <1>2, <3>1, <3>2, PruneOthers DEF Others
      <3>4. ToRemove(S) \subseteq ToRemove(S)'
        <4> SUFFICES ASSUME NEW p \in ToRemove(S) PROVE p \in ToRemove(S)'
          OBVIOUS
        <4> QED
          BY <2>3, <3>1, ToRemoveBy
      <3> QED
        BY <2>3, <3>1, <3>2, <3>3, <3>4, KeptCarries
    <2>9. ASSUME NEW q \in Requests, DropTree(r, q) PROVE WithinKeep(S)'
      <3>1. /\ req[r].step = "drop" /\ req'[r].step = "take"
            /\ DOMAIN req'[r].dates = DOMAIN req[r].dates \ {q}
        BY <2>9, PruneListings
      <3>2. r \in Unpruned /\ r \in Unpruned' /\ r \in Listers
        BY <2>1, <3>1 DEF Unpruned, Allowed, PruneSteps, Listed, Listers, Prunes, WithTree
      <3>3. Others(S)' \subseteq Others(S)
        <4>1. present' \subseteq present
          BY <2>9 DEF DropTree
        <4> QED
          BY <1>2, <3>2, <4>1, PruneOthers DEF Others
      <3>4. q \notin Others(S)'
        <4>1. CASE present' = present \ {q}
          BY <4>1 DEF Others
        <4>2. CASE req[q].step = "ingest"
          <5>1. q # r
            BY <3>1, <4>2
          <5>2. req'[q] = req[q]
            BY <2>1, <5>1
          <5>3. q \in Unpruned' /\ q \notin S
            BY <2>1, <2>2, <4>2, <5>2 DEF Unpruned, Allowed, Listed
          <5> QED
            BY <5>3 DEF Others
        <4> QED
          BY <2>9, <4>1, <4>2 DEF DropTree, At
      <3>5. ToRemove(S) \ {q} \subseteq ToRemove(S)'
        <4> SUFFICES ASSUME NEW p \in ToRemove(S) \ {q} PROVE p \in ToRemove(S)'
          OBVIOUS
        <4>1. PICK s \in S : req[s].step \in {"take", "drop"} /\ p \in DOMAIN req[s].dates
          BY ToRemoveBy
        <4>2. req'[s].step \in {"take", "drop"} /\ p \in DOMAIN req'[s].dates
          BY <2>3, <3>1, <4>1
        <4> QED
          BY <4>2, ToRemoveBy
      <3>6. ToRemove(S) \cap Others(S)' \subseteq ToRemove(S)'
        BY <3>4, <3>5
      <3> QED
        BY <2>3, <3>1, <3>2, <3>3, <3>6, KeptCarries
    <2>10. CASE EndPrune(r)
      <3>1. /\ req[r].step = "take" /\ req'[r].step = "reply" /\ req'[r].outcome = "ok"
            /\ present' = present /\ DOMAIN req[r].dates = {}
        BY <2>4, <2>10, StepMoves DEF Replies, EndPrune, trees
      <3> DEFINE S1 == S \cup {r}
      <3>2. r \notin S /\ r \in Listers /\ S1 \in SUBSET Listers /\ S1 \ {r} = S \ {r}
        BY <2>2, <2>3, <3>1 DEF Listed, Listers
      <3> HIDE DEF S1
      <3>3. Others(S)' \subseteq Others(S1)
        <4>1. Others(S)' \subseteq (Others(S1) \cap present') \cup {r}
          BY <1>2, <3>2, PruneOthers
        <4> QED
          BY <3>1, <4>1 DEF Others, S1
      <3>4. ToRemove(S1) \subseteq ToRemove(S)'
        <4> SUFFICES ASSUME NEW p \in ToRemove(S1) PROVE p \in ToRemove(S)'
          OBVIOUS
        <4>1. PICK s \in S1 : req[s].step \in {"take", "drop"} /\ p \in DOMAIN req[s].dates
          BY ToRemoveBy
        <4>2. s \in S \ {r}
          BY <3>1, <4>1 DEF S1
        <4> QED
          BY <2>3, <4>1, <4>2, ToRemoveBy
      <3>5. \A p \in S1 : req[p].step = "date" => p \in S /\ req'[p] = req[p]
        BY <2>3, <3>1 DEF S1
      <3> QED
        BY <3>2, <3>3, <3>4, <3>5, KeptCarries
    <2> QED
      BY <1>2, <2>5, <2>6, <2>7, <2>8, <2>9, <2>10 DEF PruneStep
  <1> QED
    BY <1>1, <1>2

(* The workspace holds at most Keep trees past their prune and those that  *)
(* no prune has had to reckon with.                                        *)
LEMMA KeptBounds == ASSUME Types, Dated, Kept PROVE RetentionBounded
  <1>1. Keep \in Nat
    BY ScanServerAssumption
  <1>2. Unpruned \subseteq Started
    BY DEF Unpruned, Started, WithTree
  <1>3. IsFiniteSet(Unpruned)
    BY <1>2, FS_Subset DEF Dated
  <1>4. PICK kept \in SUBSET Requests : /\ IsFiniteSet(kept) /\ Cardinality(kept) <= Keep
                                        /\ present \ Unpruned \subseteq kept
    <2>1. WithinKeep({})
      BY DEF Kept
    <2>2. ToRemove({}) = {} /\ Others({}) = present \ Unpruned
      BY ToRemoveBy DEF Others
    <2> QED
      BY <2>1, <2>2 DEF WithinKeep
  <1>5. /\ IsFiniteSet(kept \cup Unpruned)
        /\ Cardinality(kept \cup Unpruned)
             = Cardinality(kept) + Cardinality(Unpruned) - Cardinality(kept \cap Unpruned)
    BY <1>3, <1>4, FS_Union
  <1>6. IsFiniteSet(present) /\ Cardinality(present) <= Cardinality(kept \cup Unpruned)
    BY <1>4, <1>5, FS_Subset
  <1>7. IsFiniteSet(kept \cap Unpruned)
    BY <1>3, FS_Subset
  <1>8. /\ Cardinality(present) \in Nat /\ Cardinality(Unpruned) \in Nat
        /\ Cardinality(kept) \in Nat /\ Cardinality(kept \cap Unpruned) \in Nat
        /\ Cardinality(kept \cup Unpruned) \in Nat
    BY <1>3, <1>4, <1>5, <1>6, <1>7, FS_CardinalityType
  <1> QED
    BY <1>1, <1>4, <1>5, <1>6, <1>8 DEF RetentionBounded

-----------------------------------------------------------------------------
(* The invariant of the workspace.                                         *)
WorkspaceInv ==
  Types /\ Dated /\ ListingsDated /\ StaleOvertaken /\ LostOnlyWhenOvertaken /\ Kept

(* A workspace starts empty.                                               *)
LEMMA WorkspaceInit ==
  Init => Dated /\ ListingsDated /\ StaleOvertaken /\ LostOnlyWhenOvertaken /\ Kept
  <1> SUFFICES ASSUME Init
               PROVE  Dated /\ ListingsDated /\ StaleOvertaken /\ LostOnlyWhenOvertaken /\ Kept
    OBVIOUS
  <1>1. Started = {} /\ present = {} /\ cut = {} /\ \A r \in Requests : req[r].step = "new"
    BY DEF Init, Started
  <1>2. Dated
    BY <1>1, FS_EmptySet DEF Init, Dated
  <1>3. ListingsDated /\ StaleOvertaken /\ LostOnlyWhenOvertaken
    BY <1>1 DEF ListingsDated, Listed, StaleOvertaken, LostOnlyWhenOvertaken
  <1>4. Kept
    <2> SUFFICES ASSUME NEW S \in SUBSET Listers PROVE WithinKeep(S)
      BY DEF Kept
    <2>1. Others(S) = {}
      BY <1>1 DEF Others
    <2>2. IsFiniteSet({}) /\ Cardinality({}) <= Keep
      BY FS_EmptySet, ScanServerAssumption
    <2> QED
      BY <2>1, <2>2 DEF WithinKeep
  <1> QED
    BY <1>2, <1>3, <1>4

(* It is inductive.                                                        *)
LEMMA WorkspaceHolds == Spec => []WorkspaceInv
  <1>1. Init => WorkspaceInv
    BY TypesInit, WorkspaceInit DEF WorkspaceInv
  <1>2. WorkspaceInv /\ [Next]_vars => WorkspaceInv'
    BY TypesStep, DatedStep, ListingsStep, StaleStep, LostStep, KeptStep DEF WorkspaceInv
  <1> QED
    BY <1>1, <1>2, PTL DEF Spec

(* However scans and their prunes overlap, fail and crash, the workspace   *)
(* never holds more than Keep trees beyond those of scans that have not    *)
(* pruned.                                                                 *)
THEOREM WorkspaceBounded == Spec => []RetentionBounded
  <1>1. WorkspaceInv => RetentionBounded
    BY KeptBounds DEF WorkspaceInv
  <1> QED
    BY <1>1, WorkspaceHolds, PTL

(* However prunes overlap, and however old the listing is they work from,  *)
(* they only take a tree when Keep others have been made, filled or taken  *)
(* apart since it was made.                                                *)
THEOREM TreesLostWhenOvertaken == Spec => []LostOnlyWhenOvertaken
  <1>1. WorkspaceInv => LostOnlyWhenOvertaken
    BY DEF WorkspaceInv
  <1> QED
    BY <1>1, WorkspaceHolds, PTL
=============================================================================
