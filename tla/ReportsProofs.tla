---------------------------- MODULE ReportsProofs ----------------------------
(***************************************************************************)
(* Proofs about modules Rating and Reports, for any assets, settings and   *)
(* years: where pairings are declared nothing exposed is discounted, score *)
(* and advice agree, advice that is followed suffices, an export never     *)
(* lowers a score, time only presses and pinned scores hold.               *)
(*                                                                         *)
(* ReportsInv says that what is shown is made of assets a scan can find,   *)
(* under usable settings, and that an export has exactly the rows a filter *)
(* of statuses and levels let through.  The two parts of the argument are  *)
(* that a filter which keeps a row and its co-located partner keeps each   *)
(* pairing declared in their module, since a declared row has the status   *)
(* of one of the two; and that every term of the score grows with the year *)
(* and with Z.                                                             *)
(***************************************************************************)
EXTENDS Reports, TLAPS

-----------------------------------------------------------------------------
(* Arithmetic of the rating.                                               *)

(* mosca.py clamps to the unit interval.                                   *)
LEMMA ClampValue ==
  ASSUME NEW n \in Int
  PROVE  Clamp(n) = IF n < 0 THEN 0 ELSE IF n > 1000 THEN 1000 ELSE n
BY DEF Clamp, Max, Min

(* The larger of two numbers.                                             *)
LEMMA LargerOfTwo ==
  ASSUME NEW i \in Int, NEW j \in Int
  PROVE  Max({i, j}) = IF i >= j THEN i ELSE j
BY DEF Max

(* And the smaller of two.                                                 *)
LEMMA SmallerOfTwo ==
  ASSUME NEW i \in Int, NEW j \in Int
  PROVE  Min({i, j}) = IF i <= j THEN i ELSE j
BY DEF Min

(* A product of naturals grows with its factor.                            *)
LEMMA ProductGrows ==
  ASSUME NEW i \in Int, NEW j \in Int, NEW k \in Nat, i <= j
  PROVE  i * k <= j * k
OBVIOUS

(* What is divided by the urgency scale keeps its order.                   *)
LEMMA QuotientGrows ==
  ASSUME NEW i \in Int, NEW j \in Int, NEW k \in Nat \ {0}, i <= j
  PROVE  i \div k <= j \div k
OBVIOUS

-----------------------------------------------------------------------------
(* What the functions of the rating return.                                *)

(* policy.py x_for(): a lifetime is a number of years.                     *)
LEMMA LifetimeIsNat ==
  ASSUME NEW a \in Asset, NEW p \in Settings
  PROVE  X(a, p) \in Nat
<1> DEFINE class == ClassOf(a, p)
<1>1. class \in Classes \cup {None}
  BY DEF ClassOf, Asset, Settings, Tag
<1>2. class # None => class \in Classes /\ p.lifetimes[class] \in Nat \cup {None}
  BY <1>1 DEF Settings
<1>3. \A c \in DOMAIN ClassLifetime : ClassLifetime[c] \in Nat
  BY DEF ClassLifetime, Year
<1>4. ClassLifetime["financial"] \in Nat
  BY DEF ClassLifetime, Year
<1> HIDE DEF class
<1> QED BY <1>2, <1>3, <1>4 DEF X, class

(* mosca.py default_y(): so is a migration time, whatever is tagged.       *)
LEMMA MigrationIsNat ==
  ASSUME NEW a \in Asset, NEW p \in Settings
  PROVE  Y(a, p) \in Nat
<1>1. a.type \in Types /\ p.tags[a.module] \in Tag \cup {None}
  BY DEF Asset, Settings
<1>2. \A place : InferredSurface(place) \in Surfaces
  BY DEF InferredSurface, Surfaces
<1>3. \A s \in Surfaces : MigrationTime(a.type)[s] \in Nat
  BY <1>1 DEF MigrationTime, Types, Surfaces, Year
<1> DEFINE tag == p.tags[a.module]
           surface == IF tag # None /\ tag.surface # None THEN tag.surface
                      ELSE InferredSurface(a.place)
<1>4. surface \in Surfaces
  BY <1>1, <1>2 DEF Tag
<1>5. Y(a, p) = MigrationTime(a.type)[surface]
  BY DEF Y
<1> QED BY <1>3, <1>4, <1>5

(* mosca.py urgency(): Mosca's inequality, clamped.                        *)
LEMMA UrgencyIsNat ==
  ASSUME NEW a \in Asset, NEW p \in Settings, NEW when \in Nat
  PROVE  Urgency(a, p, when) \in Nat
<1>1. X(a, p) \in Nat /\ Y(a, p) \in Nat
  BY LifetimeIsNat, MigrationIsNat
<1>2. p.z \in Nat /\ p.scale \in Nat \ {0}
  BY DEF Settings
<1>3. Max({0, p.z - when}) \in Int
  BY <1>2, LargerOfTwo
<1> DEFINE n == ((X(a, p) + Y(a, p) - Year * Max({0, p.z - when})) * 50) \div p.scale
<1>4. n \in Int
  BY <1>1, <1>2, <1>3 DEF Year
<1> HIDE DEF n
<1>5. Clamp(n) \in 0..1000
  BY <1>4, ClampValue
<1> QED BY <1>5 DEF Urgency, n

(* algorithms.py, IR 8547: the nearest of an algorithm's deadlines.        *)
LEMMA NearestDeadline ==
  ASSUME NEW a, Deadlines(a) # {}
  PROVE  Min(Deadlines(a)) \in {2030, 2035}
<1>1. Deadlines(a) \in {{2035}, {2030, 2035}}
  BY DEF Deadlines
<1>2. Min({2035}) = 2035
  BY DEF Min
<1>3. Min({2030, 2035}) = 2030
  BY SmallerOfTwo
<1> QED BY <1>1, <1>2, <1>3

(* risk.py: the pressure of the regulator, from none to all.               *)
LEMMA ComplianceIsNat ==
  ASSUME NEW a, NEW when \in Nat
  PROVE  Compliance(a, when) \in Nat
<1> DEFINE n == 1000 - 100 * (Min(Deadlines(a)) - when)
<1>1. ASSUME Deadlines(a) # {} PROVE n \in Int
  BY <1>1, NearestDeadline
<1>2. ASSUME Deadlines(a) # {} PROVE Clamp(n) \in 0..1000
  <2>1. n \in Int
    BY <1>1, <1>2
  <2> HIDE DEF n
  <2> QED BY <2>1, ClampValue
<1>3. CASE a.privateKey \/ TooSmall(a)
  BY <1>3 DEF Compliance
<1>4. CASE ~(a.privateKey \/ TooSmall(a)) /\ Deadlines(a) = {}
  BY <1>4 DEF Compliance
<1>5. CASE ~(a.privateKey \/ TooSmall(a)) /\ Deadlines(a) # {}
  BY <1>2, <1>5 DEF Compliance
<1> QED BY <1>3, <1>4, <1>5

(* classify_asset(): the need to replace an asset in itself.               *)
LEMMA WeaknessInRange ==
  ASSUME NEW a, NEW p
  PROVE  Weakness(a, p) \in {0, 2, 3, 8, 10}
BY DEF Weakness

(* And with what protects it counted in.                                   *)
LEMMA VulnerabilityInRange ==
  ASSUME NEW a, NEW p, NEW paired \in BOOLEAN
  PROVE  Vulnerability(a, p, paired) \in {0, 1, 2, 3, 8, 10}
<1>1. Min({1, Weakness(a, p)}) \in {0, 1}
  BY WeaknessInRange, SmallerOfTwo
<1> QED BY <1>1, WeaknessInRange DEF Vulnerability

(* A pairing only ever lowers it.                                          *)
LEMMA PairingLowers ==
  ASSUME NEW a, NEW p
  PROVE  Vulnerability(a, p, TRUE) <= Vulnerability(a, p, FALSE)
<1>1. Min({1, Weakness(a, p)}) <= Weakness(a, p)
  BY WeaknessInRange, SmallerOfTwo
<1> QED BY <1>1, WeaknessInRange DEF Vulnerability

(* classify_asset(): the pressure on an asset is its largest axis.         *)
LEMMA TimingInRange ==
  ASSUME NEW a \in Asset, NEW p \in Settings, NEW when \in Nat
  PROVE  /\ Timing(a, p, when) \in {Urgency(a, p, when), Compliance(a, when), 500}
         /\ Timing(a, p, when) \in Nat
         /\ Timing(a, p, when) >= Urgency(a, p, when)
         /\ Timing(a, p, when) >= Compliance(a, when)
         /\ Timing(a, p, when) >= 500
<1> DEFINE u == Urgency(a, p, when)
           c == Compliance(a, when)
<1>1. u \in Nat
  BY UrgencyIsNat
<1>2. c \in Nat
  BY ComplianceIsNat
<1>3. Timing(a, p, when) = Max({u, c, 500})
  BY DEF Timing
<1> HIDE DEF u, c
<1>4. u \in Int /\ c \in Int
  BY <1>1, <1>2
<1>5. /\ Max({u, c, 500}) \in {u, c, 500}
      /\ Max({u, c, 500}) >= u /\ Max({u, c, 500}) >= c /\ Max({u, c, 500}) >= 500
  BY <1>4 DEF Max
<1>6. Max({u, c, 500}) \in Nat
  BY <1>1, <1>2, <1>5
<1> QED BY <1>3, <1>5, <1>6 DEF u, c

(* With one vulnerability and one set of weights, the score follows the    *)
(* pressure.                                                               *)
LEMMA ScoreFollowsTiming ==
  ASSUME NEW v \in Nat, NEW t \in Nat, NEW u \in Nat, NEW m \in Nat, NEW w \in Nat, t <= u
  PROVE  v * t * m * w <= v * u * m * w
<1>1. v * t <= v * u
  OBVIOUS
<1>2. v * t \in Nat /\ v * u \in Nat
  OBVIOUS
<1> DEFINE i == v * t
           j == v * u
<1>3. i * m <= j * m /\ i * m \in Nat /\ j * m \in Nat
  <2>1. i \in Nat /\ j \in Nat /\ i <= j
    BY <1>1, <1>2
  <2> HIDE DEF i, j
  <2> QED BY <2>1, ProductGrows
<1>4. (i * m) * w <= (j * m) * w
  <2> DEFINE k == i * m
             l == j * m
  <2>1. k \in Nat /\ l \in Nat /\ k <= l
    BY <1>3
  <2> HIDE DEF k, l
  <2>2. k * w <= l * w
    BY <2>1, ProductGrows
  <2> QED BY <2>2 DEF k, l
<1> QED BY <1>4

(* What the score is weighted with.                                        *)
LEMMA WeightsAreNat ==
  ASSUME NEW a \in Asset, NEW p \in Settings, NEW paired \in BOOLEAN
  PROVE  /\ (10 - p.multiplier) + (IF Harvestable(a, p, paired) THEN p.multiplier ELSE 0) \in Nat
         /\ p.weights[Criticality(a, p)] \in Nat
<1>1. p.multiplier \in 0..10 /\ p.weights \in [Levels -> 0..10]
  BY DEF Settings
<1>2. Criticality(a, p) \in Levels
  <2>1. p.default \in Levels /\ p.tags[a.module] \in Tag \cup {None}
    BY DEF Settings, Asset
  <2> QED BY <2>1 DEF Criticality, Tag
<1> QED BY <1>1, <1>2

-----------------------------------------------------------------------------
(* What is reported, in every state.                                       *)

(* A rating is of assets and settings the rating is defined for.           *)
Rateable(r) == r.assets \subseteq Asset /\ r.settings \in Settings /\ r.year \in Nat

(* An export has the rows of what was found that a filter has let through. *)
Filtered(r) ==
  \E filter \in Filters, p \in Settings :
    r.assets = {a \in r.whole : /\ Status(a) \in filter.statuses
                                /\ Criticality(a, p) \in filter.levels}

ReportsInv ==
  /\ file \in Files /\ live \in Settings /\ year \in Nat
  /\ doc # None => Rateable(doc) /\ IsInventory(doc.assets)
  /\ out # None => /\ Rateable(out)
                   /\ out.assets \subseteq out.whole
                   /\ IsInventory(out.whole)
                   /\ IF out.kind = "export" THEN Filtered(out) ELSE out.assets = out.whole

(* put_policy() keeps the settings usable if the request is.               *)
LEMMA ChangedIsSettings ==
  ASSUME NEW text \in Files, NEW p \in Settings, NEW change \in Changes
  PROVE  Changed(p, change) \in Settings
<1>1. text \in Settings /\ Changed(text, change) \in Settings
  BY ReportsAssumption
<1> DEFINE new == Changed(p, change)
           fields == {"z", "scale", "cnsa", "weights", "multiplier", "default", "lifetimes", "tags"}
<1>2. DOMAIN p = fields /\ DOMAIN text = fields
  BY <1>1 DEF Settings
<1>3. new = [z |-> new.z, scale |-> new.scale, cnsa |-> new.cnsa, weights |-> new.weights,
             multiplier |-> new.multiplier, default |-> new.default,
             lifetimes |-> new.lifetimes, tags |-> new.tags]
  BY <1>2 DEF Changed
<1>4. \A f \in fields : new[f] \in {p[f], Changed(text, change)[f]}
  BY <1>2 DEF Changed
<1>5. /\ new.z \in Nat /\ new.scale \in Nat \ {0} /\ new.cnsa \in BOOLEAN
      /\ new.weights \in [Levels -> 0..10] /\ new.multiplier \in 0..10
      /\ new.default \in Levels /\ new.lifetimes \in [Classes -> Nat \cup {None}]
      /\ new.tags \in [Modules -> Tag \cup {None}]
  <2> DEFINE other == Changed(text, change)
  <2>1. /\ new.z \in {p.z, other.z} /\ new.scale \in {p.scale, other.scale}
        /\ new.cnsa \in {p.cnsa, other.cnsa} /\ new.weights \in {p.weights, other.weights}
        /\ new.multiplier \in {p.multiplier, other.multiplier}
        /\ new.default \in {p.default, other.default}
        /\ new.lifetimes \in {p.lifetimes, other.lifetimes}
        /\ new.tags \in {p.tags, other.tags}
    BY <1>4
  <2> HIDE DEF other, new
  <2>2. other \in Settings
    BY <1>1 DEF other
  <2> QED BY <2>1, <2>2 DEF Settings
<1> HIDE DEF new
<1>6. new \in Settings
  BY <1>3, <1>5 DEF Settings
<1> QED BY <1>6 DEF new

(* Moving Z keeps them usable.                                             *)
LEMMA MovedZ ==
  ASSUME NEW p \in Settings, NEW z \in Nat
  PROVE  [p EXCEPT !.z = z] \in Settings
BY DEF Settings

(* So does taking over the live compliance regime.                         *)
LEMMA TakenRegime ==
  ASSUME NEW p \in Settings, NEW q \in Settings, NEW z \in Nat
  PROVE  [p EXCEPT !.z = z, !.cnsa = q.cnsa] \in Settings
BY DEF Settings

(* What report_for() answers with: the stored rows, rated for any Z.       *)
LEMMA ReportForIsRateable ==
  ASSUME ReportsInv, doc # None, NEW z \in AskedZ \cup {None}
  PROVE  Rateable(ReportFor(z)) /\ ReportFor(z).assets = doc.assets
<1>1. Rateable(doc) /\ file \in Settings /\ live \in Settings /\ year \in Nat
  BY ReportsAssumption DEF ReportsInv
<1>2. CASE z \in {None, doc.settings.z}
  BY <1>1, <1>2 DEF ReportFor
<1>3. CASE z \notin {None, doc.settings.z}
  <2>1. z \in Nat
    BY <1>3, ReportsAssumption
  <2> DEFINE used == [file EXCEPT !.z = z, !.cnsa = live.cnsa]
  <2>2. used \in Settings
    BY <1>1, <2>1, TakenRegime
  <2>3. ReportFor(z) = [assets |-> doc.assets, settings |-> used, year |-> year]
    BY <1>3 DEF ReportFor, Rated
  <2> HIDE DEF used
  <2> QED BY <1>1, <2>2, <2>3 DEF Rateable
<1> QED BY <1>2, <1>3

(* Nothing is stored or shown when the server starts.                      *)
LEMMA ReportsInitially == Init => ReportsInv
BY ReportsAssumption DEF Init, ReportsInv

(* And every operation keeps what is there rateable.                      *)
LEMMA ReportsStep == ReportsInv /\ [Next]_vars => ReportsInv'
<1> SUFFICES ASSUME ReportsInv, [Next]_vars PROVE ReportsInv'
  OBVIOUS
<1>0. file \in Settings /\ file \in Files /\ live \in Settings /\ year \in Nat
  BY ReportsAssumption DEF ReportsInv
<1>1. ASSUME NEW found \in Inventories, ScanByServer(found) PROVE ReportsInv'
  <2>1. doc' = [assets |-> found, settings |-> live, year |-> year]
    BY <1>1 DEF ScanByServer, Rated
  <2>2. found \subseteq Asset /\ IsInventory(found)
    BY ReportsAssumption DEF IsInventory
  <2>3. Rateable(doc') /\ IsInventory(doc'.assets)
    BY <1>0, <2>1, <2>2 DEF Rateable
  <2> QED BY <1>0, <1>1, <2>3 DEF ScanByServer, ReportsInv
<1>2. ASSUME NEW found \in Inventories, NEW z \in AskedZ \cup {None}, ScanByCommand(found, z)
      PROVE ReportsInv'
  <2> DEFINE used == IF z = None THEN file ELSE [file EXCEPT !.z = z]
  <2>1. doc' = [assets |-> found, settings |-> used, year |-> year]
    BY <1>2 DEF ScanByCommand, Rated
  <2>2. found \subseteq Asset /\ IsInventory(found)
    BY ReportsAssumption DEF IsInventory
  <2>3. used \in Settings
    BY <1>0, MovedZ, ReportsAssumption
  <2> HIDE DEF used
  <2>4. Rateable(doc') /\ IsInventory(doc'.assets)
    BY <1>0, <2>1, <2>2, <2>3 DEF Rateable
  <2> QED BY <1>0, <1>2, <2>4 DEF ScanByCommand, ReportsInv
<1>3. ASSUME NEW change \in Changes, PutPolicy(change) PROVE ReportsInv'
  <2>1. live' \in Settings
    BY <1>0, <1>3, ChangedIsSettings DEF PutPolicy
  <2> QED BY <1>3, <2>1 DEF PutPolicy, ReportsInv, Filtered
<1>4. ASSUME NEW text \in Files, EditFile(text) PROVE ReportsInv'
  BY <1>4 DEF EditFile, ReportsInv, Filtered
<1>5. CASE Restart
  BY <1>0, <1>5 DEF Restart, ReportsInv, Filtered
<1>6. CASE NewYear
  BY <1>6, ReportsAssumption DEF NewYear, ReportsInv, Filtered
<1>7. ASSUME NEW z \in AskedZ \cup {None}, Report(z) PROVE ReportsInv'
  <2>1. doc # None
    BY <1>7 DEF Report
  <2>2. PICK r : r = ReportFor(z)
    OBVIOUS
  <2>3. Rateable(r) /\ r.assets = doc.assets
    BY <2>1, <2>2, ReportForIsRateable
  <2>4. out' = [kind |-> "report", assets |-> r.assets, settings |-> r.settings,
                year |-> r.year, whole |-> doc.assets]
    BY <1>7, <2>2 DEF Report, Response
  <2>5. IsInventory(doc.assets)
    BY <2>1 DEF ReportsInv, Rateable
  <2>6. /\ Rateable(out') /\ out'.assets = out'.whole
        /\ IsInventory(out'.whole)
        /\ out'.kind # "export"
    BY <2>3, <2>4, <2>5 DEF Rateable
  <2> QED BY <1>7, <2>6 DEF Report, ReportsInv
<1>8. ASSUME NEW z \in AskedZ \cup {None}, NEW filter \in Filters, Export(z, filter)
      PROVE ReportsInv'
  <2>1. doc # None
    BY <1>8 DEF Export
  <2>2. PICK r : r = ReportFor(z)
    OBVIOUS
  <2>3. Rateable(r) /\ r.assets = doc.assets
    BY <2>1, <2>2, ReportForIsRateable
  <2>4. PICK kept : kept = {a \in doc.assets : /\ Status(a) \in filter.statuses
                                               /\ Criticality(a, r.settings) \in filter.levels}
    OBVIOUS
  <2>5. PICK used : used = [file EXCEPT !.z = IF z = None THEN doc.settings.z ELSE z]
    OBVIOUS
  <2>6. used \in Settings
    <3>1. doc.settings.z \in Nat
      BY <2>1 DEF ReportsInv, Rateable, Settings
    <3> QED BY <1>0, <2>5, <3>1, MovedZ, ReportsAssumption
  <2>7. out' = [kind |-> "export", assets |-> kept, settings |-> used, year |-> year,
                whole |-> doc.assets]
    BY <1>8, <2>2, <2>3, <2>4, <2>5 DEF Export, Response, Rated, Kept
  <2>8. IsInventory(doc.assets) /\ doc.assets \subseteq Asset
    BY <2>1 DEF ReportsInv, Rateable
  <2>9. r.settings \in Settings
    BY <2>3 DEF Rateable
  <2>10. /\ Rateable(out') /\ out'.assets \subseteq out'.whole
         /\ IsInventory(out'.whole)
    BY <1>0, <2>4, <2>6, <2>7, <2>8 DEF Rateable
  <2>11. Filtered(out') /\ out'.kind = "export"
    BY <2>4, <2>7, <2>9 DEF Filtered
  <2> QED BY <1>8, <2>10, <2>11 DEF Export, ReportsInv
<1>9. CASE UNCHANGED vars
  BY <1>9 DEF vars, ReportsInv, Filtered
<1> QED BY <1>1, <1>2, <1>3, <1>4, <1>5, <1>6, <1>7, <1>8, <1>9 DEF Next

(* Whatever is stored or shown can be rated.                               *)
LEMMA ReportsAlways == Spec => []ReportsInv
BY ReportsInitially, ReportsStep, PTL DEF Spec

(* What is shown is the assets of a report or an export.                   *)
LEMMA ShownIsRateable ==
  ASSUME ReportsInv, NEW a \in Shown
  PROVE  /\ out # None /\ Shown = out.assets
         /\ Rateable(out) /\ a \in Asset /\ Findable(a)
<1>1. out # None
  BY DEF Shown
<1> QED BY <1>1 DEF Shown, ReportsInv, Rateable, IsInventory

-----------------------------------------------------------------------------
(* The rating and the advice.                                              *)

(* Nothing is wrong with what is rated harmless, unless its row is left    *)
(* out of the rating.                                                      *)
LEMMA Harmless ==
  ASSUME NEW a, NEW p, NEW paired \in BOOLEAN,
         Vulnerability(a, p, paired) = 0, ~Ignored(a)
  PROVE  Status(a) = "adequate" /\ ~a.privateKey /\ ~(p.cnsa /\ OutsideCNSA(a))
<1>1. Min({1, Weakness(a, p)}) = 0 => Weakness(a, p) = 0
  BY WeaknessInRange, SmallerOfTwo
<1>2. Weakness(a, p) = 0
  BY <1>1 DEF Vulnerability
<1>3. Status(a) \in {"adequate", "not_applicable"} /\ ~a.privateKey /\ ~(p.cnsa /\ OutsideCNSA(a))
  BY <1>2 DEF Weakness, Status
<1>4. Status(a) # "not_applicable"
  BY DEF Status, Ignored
<1> QED BY <1>3, <1>4

(* recommend_asset(), rated harmless: there is nothing to advise.          *)
LEMMA HarmlessStays ==
  ASSUME NEW a, NEW p, NEW paired \in BOOLEAN, Vulnerability(a, p, paired) = 0
  PROVE  Advice(a, p) = NoChange(a)
<1>1. CASE Ignored(a)
  BY <1>1 DEF Advice
<1>2. CASE ~Ignored(a)
  <2>1. Status(a) = "adequate" /\ ~a.privateKey /\ ~(p.cnsa /\ OutsideCNSA(a))
    BY <1>2, Harmless
  <2>2. ~(p.cnsa /\ a.algorithm = "AES" /\ (a.size = None \/ a.size < 256))
    BY <2>1 DEF OutsideCNSA
  <2>3. ~(p.cnsa /\ a.algorithm \in {"SHA-256", "SHA3-256"})
    BY <2>1 DEF OutsideCNSA
  <2>4. Status(a) \notin {"broken_classical", "deprecated_insufficient"}
    BY <2>1
  <2> QED BY <1>2, <2>1, <2>2, <2>3, <2>4, Zenon DEF Advice
<1> QED BY <1>1, <1>2

(* recommend_asset() moves whatever is not sound, or holds a private key.  *)
LEMMA UnsoundMoves ==
  ASSUME NEW a \in Asset, NEW p \in Settings, ~Ignored(a), a.privateKey \/ Status(a) # "adequate"
  PROVE  /\ Advice(a, p) # NoChange(a)
         /\ \/ Advice(a, p) = MoveTo("operational", "rotate")
            \/ /\ Advice(a, p) = MoveTo("FIPS-197/180-4", Replacement(a.algorithm))
               /\ Status(a) \in {"broken_classical", "deprecated_insufficient"}
            \/ Advice(a, p) = MoveTo("RFC-8996", "TLS-1.3") /\ a.type = "protocol"
            \/ Advice(a, p) = MoveTo("FIPS-203", ParameterSet(p, "ML-KEM-768", "ML-KEM-1024"))
            \/ Advice(a, p) = MoveTo("SP-800-208", "LMS/XMSS")
            \/ Advice(a, p) = MoveTo("FIPS-206", "FN-DSA-512")
            \/ Advice(a, p) = MoveTo("FIPS-204", ParameterSet(p, "ML-DSA-65", "ML-DSA-87"))
<1>1. \A s, t : s # "no-change" => MoveTo(s, t) # NoChange(a)
  <2> SUFFICES ASSUME NEW s, NEW t, s # "no-change" PROVE MoveTo(s, t) # NoChange(a)
    OBVIOUS
  <2>1. MoveTo(s, t).standard = s /\ NoChange(a).standard = "no-change"
    BY DEF MoveTo, NoChange
  <2> QED BY <2>1
<1>2. CASE a.privateKey
  <2>1. Advice(a, p) = MoveTo("operational", "rotate")
    BY <1>2, Zenon DEF Advice
  <2> QED BY <2>1, <1>1
<1>3. CASE ~a.privateKey /\ Status(a) \in {"broken_classical", "deprecated_insufficient"}
  <2>1. Status(a) # "adequate"
    BY <1>3
  <2>2. Advice(a, p) = MoveTo("FIPS-197/180-4", Replacement(a.algorithm))
    BY <1>3, <2>1, Zenon DEF Advice
  <2> QED BY <1>3, <2>2, <1>1
<1>4. CASE ~a.privateKey /\ Status(a) \notin {"broken_classical", "deprecated_insufficient"}
  <2>1. Status(a) # "adequate"
    BY <1>4
  <2>2. \/ Advice(a, p) = MoveTo("RFC-8996", "TLS-1.3") /\ a.type = "protocol"
        \/ Advice(a, p) = MoveTo("FIPS-203", ParameterSet(p, "ML-KEM-768", "ML-KEM-1024"))
        \/ Advice(a, p) = MoveTo("SP-800-208", "LMS/XMSS")
        \/ Advice(a, p) = MoveTo("FIPS-206", "FN-DSA-512")
        \/ Advice(a, p) = MoveTo("FIPS-204", ParameterSet(p, "ML-DSA-65", "ML-DSA-87"))
    BY <1>4, <2>1, Zenon DEF Advice
  <2> QED BY <2>2, <1>1
<1> QED BY <1>2, <1>3, <1>4

(* And of what is sound, only what CNSA 2.0 wants larger.                  *)
LEMMA SoundMoves ==
  ASSUME NEW a \in Asset, NEW p \in Settings, ~Ignored(a), ~a.privateKey, Status(a) = "adequate",
         Advice(a, p) # NoChange(a)
  PROVE  /\ a.algorithm \in {"AES", "SHA-256", "SHA3-256"}
         /\ p.cnsa /\ OutsideCNSA(a)
         /\ Advice(a, p) \in {MoveTo("CNSA-2.0", "AES-256"), MoveTo("CNSA-2.0", "SHA-384")}
<1>1. Status(a) \notin {"broken_classical", "deprecated_insufficient"}
  OBVIOUS
<1>2. \/ /\ Advice(a, p) = MoveTo("CNSA-2.0", "AES-256")
         /\ p.cnsa /\ a.algorithm = "AES" /\ (a.size = None \/ a.size < 256)
      \/ /\ Advice(a, p) = MoveTo("CNSA-2.0", "SHA-384")
         /\ p.cnsa /\ a.algorithm \in {"SHA-256", "SHA3-256"}
  BY <1>1, Zenon DEF Advice
<1> QED BY <1>2 DEF OutsideCNSA

(* What CNSA 2.0 wants larger is told so.                                  *)
LEMMA RegimeMoves ==
  ASSUME NEW a \in Asset, NEW p \in Settings, ~Ignored(a), ~a.privateKey, Status(a) = "adequate",
         a.algorithm \in {"AES", "SHA-256", "SHA3-256"}, p.cnsa, OutsideCNSA(a)
  PROVE  Advice(a, p) # NoChange(a)
<1>1. \A s, t : s # "no-change" => MoveTo(s, t) # NoChange(a)
  <2> SUFFICES ASSUME NEW s, NEW t, s # "no-change" PROVE MoveTo(s, t) # NoChange(a)
    OBVIOUS
  <2>1. MoveTo(s, t).standard = s /\ NoChange(a).standard = "no-change"
    BY DEF MoveTo, NoChange
  <2> QED BY <2>1
<1>2. Status(a) \notin {"broken_classical", "deprecated_insufficient"} /\ a.algorithm \notin StandardPQC
  BY DEF StandardPQC
<1>3. a.algorithm = "AES" => a.size = None \/ a.size < 256
  <2>1. "AES" \notin Shor \cup BrokenClassical \cup Deprecated \cup OtherPQC
    BY DEF Shor, Factoring, Curves, BrokenClassical, Deprecated, OtherPQC
  <2> QED BY <2>1 DEF OutsideCNSA
<1>4. \/ Advice(a, p) = MoveTo("CNSA-2.0", "AES-256")
      \/ Advice(a, p) = MoveTo("CNSA-2.0", "SHA-384")
  BY <1>2, <1>3, Zenon DEF Advice
<1> QED BY <1>1, <1>4

(* What is rated and scores is not sound, or the regime objects to it.     *)
LEMMA Scoring ==
  ASSUME NEW a, NEW p, NEW paired \in BOOLEAN, Vulnerability(a, p, paired) # 0
  PROVE  ~Ignored(a) /\ (a.privateKey \/ Status(a) # "adequate" \/ (p.cnsa /\ OutsideCNSA(a)))
<1>1. ~Ignored(a)
  BY DEF Vulnerability
<1>2. Weakness(a, p) # 0
  <2>1. Min({1, 0}) = 0
    BY SmallerOfTwo
  <2> QED BY <1>1, <2>1 DEF Vulnerability
<1> QED BY <1>1, <1>2 DEF Weakness

(* recommend.py follows risk.py: a row of any report is told to move       *)
(* exactly if it scores and is not one of the sound algorithms that no     *)
(* rule replaces.                                                          *)
THEOREM AdviceFollowsRating == Spec => []ScoreAndAdviceAgree
<1>1. ReportsInv => ScoreAndAdviceAgree
  <2> SUFFICES ASSUME ReportsInv, NEW a \in Shown
               PROVE  Advice(a, out.settings) # NoChange(a)
                        <=> RowVulnerability(out, a) > 0 /\ ~Spared(a)
    BY DEF ScoreAndAdviceAgree
  <2>1. a \in Asset /\ out.settings \in Settings
    BY ShownIsRateable DEF Rateable
  <2>2. PICK p \in Settings, paired \in BOOLEAN : p = out.settings /\ paired = Paired(a, out.assets)
    BY <2>1 DEF Paired, Asset
  <2>3. PICK v \in Nat : v = Vulnerability(a, p, paired) /\ v = RowVulnerability(out, a)
    BY <2>2, VulnerabilityInRange DEF RowVulnerability
  <2>4. CASE v = 0
    <3>1. Advice(a, p) = NoChange(a)
      BY <2>3, <2>4, HarmlessStays
    <3>2. ~(RowVulnerability(out, a) > 0)
      BY <2>3, <2>4
    <3> QED BY <2>2, <3>1, <3>2
  <2>5. CASE v # 0
    <3>1. ~Ignored(a) /\ (a.privateKey \/ Status(a) # "adequate" \/ (p.cnsa /\ OutsideCNSA(a)))
      BY <2>3, <2>5, Scoring
    <3>2. CASE a.privateKey \/ Status(a) # "adequate"
      BY <2>1, <2>2, <2>3, <2>5, <3>1, <3>2, UnsoundMoves DEF Spared
    <3>3. CASE ~a.privateKey /\ Status(a) = "adequate"
      <4>1. Advice(a, p) # NoChange(a) <=> a.algorithm \in {"AES", "SHA-256", "SHA3-256"}
        BY <2>1, <3>1, <3>3, SoundMoves, RegimeMoves
      <4> QED BY <2>2, <2>3, <2>5, <3>3, <4>1 DEF Spared
    <3> QED BY <3>2, <3>3
  <2> QED BY <2>4, <2>5
<1> QED BY <1>1, ReportsAlways, PTL

(* What recommend_asset() may tell an asset to become.                     *)
LEMMA Becomes ==
  ASSUME NEW a \in Asset, NEW p \in Settings, Replaces(a, Advice(a, p))
  PROVE  /\ ~Ignored(a) /\ ~a.privateKey
         /\ Advice(a, p).algorithm \in
              {"LMS/XMSS", "FN-DSA-512", "AES-256", "AES-256-GCM", "SHA-256", "SHA-384", "TLS-1.3",
               ParameterSet(p, "ML-KEM-768", "ML-KEM-1024"),
               ParameterSet(p, "ML-DSA-65", "ML-DSA-87")}
<1>1. Advice(a, p) # NoChange(a) /\ Advice(a, p) # MoveTo("operational", "rotate")
  <2>1. NoChange(a).standard = "no-change" /\ MoveTo("operational", "rotate").standard = "operational"
    BY DEF NoChange, MoveTo
  <2> QED BY <2>1 DEF Replaces
<1>2. ~Ignored(a)
  BY <1>1 DEF Advice
<1>3. ~a.privateKey
  BY <1>1, <1>2, Zenon DEF Advice
<1>4. \A s, t : MoveTo(s, t).algorithm = t
  BY DEF MoveTo
<1>5. CASE Status(a) = "adequate"
  BY <1>1, <1>2, <1>3, <1>4, <1>5, SoundMoves
<1>6. CASE Status(a) # "adequate"
  <2>1. Replacement(a.algorithm) \in {"SHA-256", "AES-256", "AES-256-GCM"}
    BY DEF Replacement
  <2> QED BY <1>1, <1>2, <1>3, <1>4, <1>6, <2>1, UnsoundMoves
<1> QED BY <1>2, <1>3, <1>5, <1>6

(* Nothing is wrong with an asset of a safe algorithm that the regime, if  *)
(* it applies, has no objection to: it scores nothing and stays.           *)
LEMMA NothingLeft ==
  ASSUME NEW b, NEW p, ~LibraryRow(b), ~b.privateKey, ~(p.cnsa /\ OutsideCNSA(b)),
         b.algorithm \in {"ML-KEM", "ML-DSA", "FN-DSA", "LMS", "AES", "SHA-256", "SHA-384", "TLSv1.3"}
  PROVE  Vulnerability(b, p, FALSE) = 0 /\ Advice(b, p) = NoChange(b)
<1>1. Status(b) = "adequate"
  BY DEF Status, Shor, Factoring, Curves, BrokenClassical, Deprecated, Adequate, PQC, StandardPQC
<1>2. Weakness(b, p) = 0
  BY <1>1 DEF Weakness
<1>3. Vulnerability(b, p, FALSE) = 0
  BY <1>2 DEF Vulnerability
<1> QED BY <1>3, HarmlessStays

(* Following the advice changes the algorithm and its parameters, and      *)
(* leaves the asset what it is.                                            *)
LEMMA FollowedStays ==
  ASSUME NEW a \in Asset, NEW advice,
         advice.algorithm \in {"ML-KEM-768", "ML-KEM-1024", "ML-DSA-65", "ML-DSA-87", "FN-DSA-512",
                               "LMS/XMSS", "AES-256", "AES-256-GCM", "SHA-256", "SHA-384", "TLS-1.3"}
  PROVE  /\ LibraryRow(Follow(a, advice)) <=> LibraryRow(a)
         /\ Follow(a, advice).privateKey = a.privateKey
         /\ \/ Follow(a, advice).algorithm \in {"FN-DSA", "LMS", "SHA-384", "TLSv1.3"}
            \/ Follow(a, advice).algorithm = "SHA-256" /\ advice.algorithm = "SHA-256"
            \/ /\ Follow(a, advice).algorithm = "ML-KEM"
               /\ advice.algorithm = "ML-KEM-768" \/ Follow(a, advice).set = 1024
            \/ /\ Follow(a, advice).algorithm = "ML-DSA"
               /\ advice.algorithm = "ML-DSA-65" \/ Follow(a, advice).set = 87
            \/ /\ Follow(a, advice).algorithm = "AES"
               /\ Follow(a, advice).size = 256
<1> DEFINE target == advice.algorithm
           bare == [a EXCEPT !.size = None, !.curve = None, !.set = None, !.hybrid = FALSE]
<1>0. /\ DOMAIN bare = DOMAIN a
      /\ {"size", "curve", "set", "hybrid", "algorithm", "type", "library", "privateKey"} \subseteq DOMAIN a
      /\ bare.type = a.type /\ bare.library = a.library /\ bare.privateKey = a.privateKey
  BY DEF Asset
<1> HIDE DEF bare
<1>1. CASE target = "ML-KEM-768"
  <2>1. Follow(a, advice) = [bare EXCEPT !.algorithm = "ML-KEM", !.set = 768]
    BY <1>1 DEF Follow, bare
  <2> QED BY <1>0, <1>1, <2>1 DEF LibraryRow
<1>2. CASE target = "ML-KEM-1024"
  <2>1. Follow(a, advice) = [bare EXCEPT !.algorithm = "ML-KEM", !.set = 1024]
    BY <1>2 DEF Follow, bare
  <2> QED BY <1>0, <1>2, <2>1 DEF LibraryRow
<1>3. CASE target = "ML-DSA-65"
  <2>1. Follow(a, advice) = [bare EXCEPT !.algorithm = "ML-DSA", !.set = 65]
    BY <1>3 DEF Follow, bare
  <2> QED BY <1>0, <1>3, <2>1 DEF LibraryRow
<1>4. CASE target = "ML-DSA-87"
  <2>1. Follow(a, advice) = [bare EXCEPT !.algorithm = "ML-DSA", !.set = 87]
    BY <1>4 DEF Follow, bare
  <2> QED BY <1>0, <1>4, <2>1 DEF LibraryRow
<1>5. CASE target = "FN-DSA-512"
  <2>1. Follow(a, advice) = [bare EXCEPT !.algorithm = "FN-DSA", !.set = 512]
    BY <1>5 DEF Follow, bare
  <2> QED BY <1>0, <1>5, <2>1 DEF LibraryRow
<1>6. CASE target = "LMS/XMSS"
  <2>1. Follow(a, advice) = [bare EXCEPT !.algorithm = "LMS"]
    BY <1>6 DEF Follow, bare
  <2> QED BY <1>0, <1>6, <2>1 DEF LibraryRow
<1>7. CASE target \in {"AES-256", "AES-256-GCM"}
  <2>1. Follow(a, advice) = [bare EXCEPT !.algorithm = "AES", !.size = 256]
    BY <1>7 DEF Follow, bare
  <2> QED BY <1>0, <1>7, <2>1 DEF LibraryRow
<1>8. CASE target = "SHA-256"
  <2>1. Follow(a, advice) = [bare EXCEPT !.algorithm = "SHA-256"]
    BY <1>8 DEF Follow, bare
  <2> QED BY <1>0, <1>8, <2>1 DEF LibraryRow
<1>9. CASE target = "SHA-384"
  <2>1. Follow(a, advice) = [bare EXCEPT !.algorithm = "SHA-384"]
    BY <1>9 DEF Follow, bare
  <2> QED BY <1>0, <1>9, <2>1 DEF LibraryRow
<1>10. CASE target = "TLS-1.3"
  <2>1. Follow(a, advice) = [bare EXCEPT !.algorithm = "TLSv1.3"]
    BY <1>10 DEF Follow, bare
  <2> QED BY <1>0, <1>10, <2>1 DEF LibraryRow
<1> QED BY <1>1, <1>2, <1>3, <1>4, <1>5, <1>6, <1>7, <1>8, <1>9, <1>10

(* "CNSA 2.0 requires ..." (recommend.py): who follows the advice has      *)
(* nothing left to do under the same settings.                             *)
LEMMA FollowedIsSafe ==
  ASSUME NEW a \in Asset, NEW p \in Settings, NEW advice, advice = Advice(a, p), Replaces(a, advice),
         ~(advice.algorithm = "SHA-256" /\ p.cnsa)
  PROVE  /\ Vulnerability(Follow(a, advice), p, FALSE) = 0
         /\ Advice(Follow(a, advice), p) = NoChange(Follow(a, advice))
<1>2. ~LibraryRow(a) /\ ~a.privateKey
  BY Becomes DEF Ignored
<1>3. advice.algorithm \in {"ML-KEM-768", "ML-KEM-1024", "ML-DSA-65", "ML-DSA-87", "FN-DSA-512",
                            "LMS/XMSS", "AES-256", "AES-256-GCM", "SHA-256", "SHA-384", "TLS-1.3"}
  BY Becomes DEF ParameterSet
<1>4. p.cnsa => advice.algorithm \notin {"ML-KEM-768", "ML-DSA-65"}
  BY Becomes DEF ParameterSet
<1>5. PICK b : b = Follow(a, advice)
  OBVIOUS
<1>6. ~LibraryRow(b) /\ ~b.privateKey
  BY <1>2, <1>3, <1>5, FollowedStays
<1>7. \/ b.algorithm \in {"FN-DSA", "LMS", "SHA-384", "TLSv1.3"}
      \/ b.algorithm = "SHA-256" /\ advice.algorithm = "SHA-256"
      \/ b.algorithm = "ML-KEM" /\ (advice.algorithm = "ML-KEM-768" \/ b.set = 1024)
      \/ b.algorithm = "ML-DSA" /\ (advice.algorithm = "ML-DSA-65" \/ b.set = 87)
      \/ b.algorithm = "AES" /\ b.size = 256
  BY <1>3, <1>5, FollowedStays
<1>8. ~(p.cnsa /\ OutsideCNSA(b))
  <2>1. None # 256
    BY ReportsAssumption
  <2> QED BY <1>4, <1>7, <2>1
        DEF OutsideCNSA, Shor, Factoring, Curves, BrokenClassical, Deprecated, OtherPQC
<1>9. b.algorithm \in {"ML-KEM", "ML-DSA", "FN-DSA", "LMS", "AES", "SHA-256", "SHA-384", "TLSv1.3"}
  BY <1>7
<1> QED BY <1>5, <1>6, <1>8, <1>9, NothingLeft

(* Whoever follows the advice a row of any report has, of what to become,  *)
(* has a row that scores nothing and is told to stay; but for the digests  *)
(* that become SHA-256 under CNSA 2.0.                                     *)
THEOREM AdviceSuffices == Spec => []AdviceIsFinal
<1>1. ReportsInv => AdviceIsFinal
  <2> SUFFICES ASSUME ReportsInv, NEW a \in Shown, NEW advice, advice = Advice(a, out.settings),
                      Replaces(a, advice), ~(advice.algorithm = "SHA-256" /\ out.settings.cnsa)
               PROVE  /\ Vulnerability(Follow(a, advice), out.settings, FALSE) = 0
                      /\ Advice(Follow(a, advice), out.settings) = NoChange(Follow(a, advice))
    BY DEF AdviceIsFinal
  <2>1. a \in Asset /\ out.settings \in Settings
    BY ShownIsRateable DEF Rateable
  <2> QED BY <2>1, FollowedIsSafe
<1> QED BY <1>1, ReportsAlways, PTL

-----------------------------------------------------------------------------
(* Exports.                                                                *)

(* What is known of a post-quantum algorithm, of Shor's victims, and of    *)
(* whoever can be covered by the former.                                   *)
LEMMA StatusOfHalves ==
  /\ \A b : b.algorithm \in PQC /\ ~LibraryRow(b) => Status(b) = "adequate"
  /\ \A b : b.algorithm \in Shor /\ ~LibraryRow(b) => Status(b) = "broken"
  /\ \A a, b : a.algorithm \notin PQC /\ Covers(b, a) => a.algorithm \in Shor
<1>1. \A b : b.algorithm \in PQC /\ ~LibraryRow(b) => Status(b) = "adequate"
  <2>1. PQC \subseteq Adequate
    BY DEF Adequate
  <2>2. \A n \in PQC : n \notin Shor /\ n \notin BrokenClassical /\ n \notin Deprecated
    BY DEF PQC, StandardPQC, OtherPQC, Shor, Factoring, Curves, BrokenClassical, Deprecated
  <2>3. ASSUME NEW b, b.algorithm \in PQC, ~LibraryRow(b) PROVE Status(b) = "adequate"
    <3>1. /\ b.algorithm \notin Shor /\ b.algorithm \notin BrokenClassical
          /\ b.algorithm \notin Deprecated /\ b.algorithm \in Adequate
      BY <2>1, <2>2, <2>3
    <3> QED BY <2>3, <3>1 DEF Status
  <2> QED BY <2>3
<1>2. \A b : b.algorithm \in Shor /\ ~LibraryRow(b) => Status(b) = "broken"
  <2>1. ASSUME NEW b, b.algorithm \in Shor, ~LibraryRow(b) PROVE Status(b) = "broken"
    <3>1. /\ b.algorithm \notin BrokenClassical /\ b.algorithm \notin Deprecated
          /\ b.algorithm \notin Adequate
      BY <2>1 DEF PQC, StandardPQC, OtherPQC, Shor, Factoring, Curves, BrokenClassical, Deprecated,
                  Adequate, Containers
    <3> QED BY <2>1, <3>1 DEF Status
  <2> QED BY <2>1
<1>3. \A algorithm : Role(algorithm) \in {"key-agree", "signature", "pke"} =>
                       algorithm \in Shor \cup PQC
  BY DEF Role, PQC, StandardPQC, OtherPQC, Shor, Factoring, Curves
<1>4. \A a, b : a.algorithm \notin PQC /\ Covers(b, a) => a.algorithm \in Shor
  BY <1>3 DEF Covers
<1> QED BY <1>1, <1>2, <1>4

(* A filter goes by status and by module.  So where it keeps a row and its *)
(* co-located partner, it keeps whatever pairing a scanner declared there, *)
(* and no row is paired for want of a declaration that was taken away.     *)
LEMMA FilterInventsNoPair ==
  ASSUME NEW whole, IsInventory(whole), NEW statuses, NEW levels, NEW p,
         NEW assets,
         \A b : b \in assets <=> b \in whole /\ Status(b) \in statuses /\ Criticality(b, p) \in levels,
         NEW a \in assets, ~Ignored(a), Paired(a, assets)
  PROVE  Paired(a, whole)
<1>1. CASE a.hybrid
  BY <1>1 DEF Paired
<1>2. CASE ~a.hybrid
  <2>1. /\ a.algorithm \notin PQC
        /\ ~\E b \in assets : b.hybrid /\ b.module = a.module
    BY <1>2 DEF Paired
  <2>2. PICK q \in assets : q.algorithm \in PQC /\ q.module = a.module /\ Covers(q, a)
    BY <1>2 DEF Paired
  <2>3. ~LibraryRow(a)
    BY DEF Ignored
  <2>4. ASSUME NEW b \in whole, b.hybrid, b.module = a.module PROVE FALSE
    <3>1. b.type = "algorithm" /\ b.algorithm \in Shor \cup PQC /\ ~LibraryRow(q)
      BY <2>2, <2>4 DEF IsInventory, Findable
    <3>2. ~LibraryRow(b)
      BY <3>1 DEF LibraryRow
    <3>3. Status(b) \in {Status(q), Status(a)}
      BY <2>1, <2>2, <2>3, <3>1, <3>2, StatusOfHalves
    <3>4. Status(b) \in statuses
      BY <2>2, <3>3
    <3>5. Criticality(b, p) = Criticality(a, p)
      BY <2>4 DEF Criticality
    <3>6. b \in assets
      BY <3>4, <3>5
    <3> QED BY <2>1, <2>4, <3>6
  <2> QED BY <2>1, <2>2, <2>4 DEF Paired
<1> QED BY <1>1, <1>2

(* What is rated lower for its company is paired, and so it is among all   *)
(* the rows.                                                               *)
LEMMA DiscountedIsPaired ==
  ASSUME ReportsInv, NEW a \in Shown, Discounted(a)
  PROVE  Paired(a, out.whole) /\ a \in out.whole
<1>1. PICK p, assets, whole :
        /\ p = out.settings /\ assets = out.assets /\ whole = out.whole /\ p \in Settings
        /\ a \in Asset /\ a \in assets /\ assets \subseteq whole
        /\ IsInventory(whole)
        /\ IF out.kind = "export" THEN Filtered(out) ELSE assets = whole
  BY ShownIsRateable DEF ReportsInv, Rateable
<1>2. PICK c \in BOOLEAN : c = Paired(a, assets)
  BY <1>1 DEF Paired, Asset
<1>3. Vulnerability(a, p, c) < Vulnerability(a, p, FALSE)
  BY <1>1, <1>2 DEF Discounted, RowVulnerability
<1>4. c = TRUE
  <2>1. PICK v \in Nat : v = Vulnerability(a, p, FALSE)
    BY VulnerabilityInRange
  <2>2. PICK u \in Nat : u = Vulnerability(a, p, c)
    BY VulnerabilityInRange
  <2>3. u < v
    BY <1>3, <2>1, <2>2
  <2>4. u # v
    BY <2>3
  <2>5. c # FALSE
    BY <2>1, <2>2, <2>4, Zenon
  <2> QED BY <2>5
<1>5. ~Ignored(a)
  <2>1. Ignored(a) => Vulnerability(a, p, TRUE) = 0 /\ Vulnerability(a, p, FALSE) = 0
    BY DEF Vulnerability
  <2>2. Ignored(a) => 0 < 0
    BY <1>3, <1>4, <2>1, Zenon
  <2> QED BY <2>2
<1>6. CASE out.kind = "export"
  <2>1. PICK filter \in Filters, q \in Settings :
          assets = {b \in whole : /\ Status(b) \in filter.statuses
                                  /\ Criticality(b, q) \in filter.levels}
    BY <1>1, <1>6 DEF Filtered
  <2>2. PICK statuses, levels : statuses = filter.statuses /\ levels = filter.levels
    OBVIOUS
  <2>3. \A b : b \in assets <=> b \in whole /\ Status(b) \in statuses /\ Criticality(b, q) \in levels
    BY <2>1, <2>2
  <2> QED BY <1>1, <1>2, <1>4, <1>5, <2>3, FilterInventsNoPair
<1>7. CASE out.kind # "export"
  BY <1>1, <1>2, <1>4, <1>7
<1> QED BY <1>6, <1>7

(* In a module with a declared pairing, whatever a report or an export of  *)
(* any inventory discounts is half of a hybrid (risk.py:266-272).          *)
THEOREM ExposedStaysExposed == Spec => []BareStaysExposed
<1>1. ReportsInv => BareStaysExposed
  <2> SUFFICES ASSUME ReportsInv, NEW a \in Shown, Discounted(a),
                      NEW b \in out.whole, b.hybrid, b.module = a.module
               PROVE  InHybrid(a, out.whole)
    BY DEF BareStaysExposed
  <2>1. Paired(a, out.whole) /\ a \in out.whole
    BY DiscountedIsPaired
  <2>2. a.hybrid
    BY <2>1 DEF Paired
  <2>3. IsInventory(out.whole)
    BY ShownIsRateable DEF ReportsInv
  <2> QED BY <2>1, <2>2, <2>3 DEF IsInventory
<1> QED BY <1>1, ReportsAlways, PTL

(* A score grows with the vulnerability and the weight it is made of.      *)
LEMMA ScoreGrows ==
  ASSUME NEW u \in Nat, NEW v \in Nat, NEW t \in Nat, NEW m \in Nat, NEW n \in Nat, NEW w \in Nat,
         u <= v, m <= n
  PROVE  u * t * m * w <= v * t * n * w
<1>1. PICK i \in Nat, j \in Nat : i = u * t /\ j = v * t
  OBVIOUS
<1>2. i <= j
  BY <1>1, ProductGrows
<1>3. i * m <= j * m /\ m * j <= n * j
  BY <1>2, ProductGrows
<1>4. PICK k \in Nat, l \in Nat : k = i * m /\ l = j * n
  OBVIOUS
<1>5. k <= l
  BY <1>3, <1>4
<1>6. k * w <= l * w
  BY <1>5, ProductGrows
<1> QED BY <1>1, <1>4, <1>6

(* Every score is a number.                                                *)
LEMMA ScoreIsNat ==
  ASSUME NEW a \in Asset, NEW p \in Settings, NEW when \in Nat, NEW paired \in BOOLEAN
  PROVE  Score(a, p, when, paired) \in Nat
<1>1. PICK v \in Nat : v = Vulnerability(a, p, paired)
  BY VulnerabilityInRange
<1>2. PICK t \in Nat : t = Timing(a, p, when)
  BY TimingInRange
<1>3. PICK w \in Nat : w = p.weights[Criticality(a, p)]
  BY WeightsAreNat
<1>4. PICK m \in Nat : m = (10 - p.multiplier) + (IF Harvestable(a, p, paired) THEN p.multiplier ELSE 0)
  BY WeightsAreNat
<1>5. v * t * m * w \in Nat
  <2>1. PICK i \in Nat : i = v * t
    OBVIOUS
  <2>2. PICK j \in Nat : j = i * m
    OBVIOUS
  <2>3. j * w \in Nat
    OBVIOUS
  <2> QED BY <2>1, <2>2, <2>3
<1> QED BY <1>1, <1>2, <1>3, <1>4, <1>5 DEF Score

(* A row is scored lower for a pairing, and never higher.                  *)
LEMMA PairingScoresLower ==
  ASSUME NEW a \in Asset, NEW p \in Settings, NEW when \in Nat
  PROVE  Score(a, p, when, TRUE) <= Score(a, p, when, FALSE)
<1>1. PICK t \in Nat : t = Timing(a, p, when)
  BY TimingInRange
<1>2. PICK w \in Nat : w = p.weights[Criticality(a, p)]
  BY WeightsAreNat
<1>3. PICK u \in Nat : u = Vulnerability(a, p, TRUE)
  BY VulnerabilityInRange
<1>4. PICK v \in Nat : v = Vulnerability(a, p, FALSE)
  BY VulnerabilityInRange
<1>5. u <= v
  BY <1>3, <1>4, PairingLowers
<1>6. PICK m \in Nat : m = (10 - p.multiplier) + (IF Harvestable(a, p, TRUE) THEN p.multiplier ELSE 0)
  BY WeightsAreNat
<1>7. PICK n \in Nat : n = (10 - p.multiplier) + (IF Harvestable(a, p, FALSE) THEN p.multiplier ELSE 0)
  BY WeightsAreNat
<1>8. m <= n
  <2>1. Harvestable(a, p, TRUE) => Harvestable(a, p, FALSE)
    BY DEF Harvestable
  <2>2. p.multiplier \in 0..10
    BY DEF Settings
  <2>3. CASE Harvestable(a, p, TRUE)
    BY <1>6, <1>7, <2>1, <2>3
  <2>4. CASE ~Harvestable(a, p, TRUE)
    <3>0. m = (10 - p.multiplier) + 0
      BY <1>6, <2>4, Zenon
    <3>1. m = 10 - p.multiplier
      BY <2>2, <3>0
    <3>2. n = (10 - p.multiplier) + p.multiplier \/ n = (10 - p.multiplier) + 0
      BY <1>7, Zenon
    <3> QED BY <2>2, <3>1, <3>2
  <2> QED BY <2>3, <2>4
<1>9. u * t * m * w <= v * t * n * w
  BY <1>5, <1>8, ScoreGrows
<1> QED BY <1>1, <1>2, <1>3, <1>4, <1>6, <1>7, <1>9 DEF Score

(* A row that is left out of the rating scores nothing, paired or not.     *)
LEMMA IgnoredScoresNothing ==
  ASSUME NEW a \in Asset, NEW p \in Settings, NEW when \in Nat, NEW paired \in BOOLEAN, Ignored(a)
  PROVE  Score(a, p, when, paired) = 0
<1>1. Vulnerability(a, p, paired) = 0
  BY DEF Vulnerability
<1>2. PICK t \in Nat : t = Timing(a, p, when)
  BY TimingInRange
<1>3. PICK w \in Nat : w = p.weights[Criticality(a, p)]
  BY WeightsAreNat
<1>4. PICK m \in Nat : m = (10 - p.multiplier) + (IF Harvestable(a, p, paired) THEN p.multiplier ELSE 0)
  BY WeightsAreNat
<1>5. 0 * t * m * w = 0
  OBVIOUS
<1> QED BY <1>1, <1>2, <1>3, <1>4, <1>5 DEF Score

(* No row of an export is scored lower than it is among all the rows.      *)
THEOREM ExportsNeverLower == Spec => []ExportNeverLower
<1>1. ReportsInv => ExportNeverLower
  <2> SUFFICES ASSUME ReportsInv, out # None, out.kind = "export", NEW a \in out.assets
               PROVE  RowScore(out, a) >= Score(a, out.settings, out.year, Paired(a, out.whole))
    BY DEF ExportNeverLower
  <2>1. PICK assets, whole, settings, when :
          /\ assets = out.assets /\ whole = out.whole
          /\ settings = out.settings /\ when = out.year
    OBVIOUS
  <2>2. /\ settings \in Settings /\ when \in Nat /\ a \in assets
        /\ a \in Asset /\ a.hybrid \in BOOLEAN
        /\ IsInventory(whole)
    BY <2>1 DEF ReportsInv, Rateable, Asset
  <2>3. PICK filter \in Filters, p \in Settings :
          assets = {b \in whole : /\ Status(b) \in filter.statuses
                                  /\ Criticality(b, p) \in filter.levels}
    BY <2>1 DEF ReportsInv, Filtered
  <2>4. PICK c \in BOOLEAN, d \in BOOLEAN : c = Paired(a, assets) /\ d = Paired(a, whole)
    BY <2>2 DEF Paired
  <2>5. /\ RowScore(out, a) = Score(a, settings, when, c)
        /\ Score(a, out.settings, out.year, Paired(a, out.whole)) = Score(a, settings, when, d)
    BY <2>1, <2>4, Zenon DEF RowScore
  <2>6. /\ Score(a, settings, when, c) \in Nat /\ Score(a, settings, when, d) \in Nat
    BY <2>2, ScoreIsNat
  <2>7. CASE c = d
    BY <2>5, <2>6, <2>7
  <2>8. CASE c = FALSE /\ d = TRUE
    BY <2>2, <2>5, <2>6, <2>8, PairingScoresLower
  <2>9. CASE c = TRUE /\ d = FALSE
    <3>1. Ignored(a)
      <4>1. PICK statuses, levels : statuses = filter.statuses /\ levels = filter.levels
        OBVIOUS
      <4>2. \A b : b \in assets <=> b \in whole /\ Status(b) \in statuses /\ Criticality(b, p) \in levels
        BY <2>3, <4>1
      <4>3. Paired(a, assets) /\ ~Paired(a, whole)
        BY <2>4, <2>9
      <4> QED BY <2>2, <4>2, <4>3, FilterInventsNoPair
    <3>2. Score(a, settings, when, c) = 0 /\ Score(a, settings, when, d) = 0
      BY <2>2, <3>1, IgnoredScoresNothing
    <3> QED BY <2>5, <3>2
  <2> QED BY <2>7, <2>8, <2>9
<1> QED BY <1>1, ReportsAlways, PTL

-----------------------------------------------------------------------------
(* Time.                                                                   *)

(* Settings that differ in Z and in nothing else.                          *)
SameButZ(p, q) ==
  /\ p.scale = q.scale /\ p.cnsa = q.cnsa /\ p.weights = q.weights
  /\ p.multiplier = q.multiplier /\ p.default = q.default
  /\ p.lifetimes = q.lifetimes /\ p.tags = q.tags

(* The properties say so with EXCEPT.                                      *)
LEMMA ExceptZ ==
  ASSUME NEW p \in Settings, NEW q \in Settings, [p EXCEPT !.z = 0] = [q EXCEPT !.z = 0]
  PROVE  SameButZ(p, q)
<1>1. PICK r : r = [p EXCEPT !.z = 0]
  OBVIOUS
<1>2. /\ r.scale = p.scale /\ r.cnsa = p.cnsa /\ r.weights = p.weights
      /\ r.multiplier = p.multiplier /\ r.default = p.default
      /\ r.lifetimes = p.lifetimes /\ r.tags = p.tags
  BY <1>1 DEF Settings
<1>3. /\ r.scale = q.scale /\ r.cnsa = q.cnsa /\ r.weights = q.weights
      /\ r.multiplier = q.multiplier /\ r.default = q.default
      /\ r.lifetimes = q.lifetimes /\ r.tags = q.tags
  BY <1>1 DEF Settings
<1> QED BY <1>2, <1>3 DEF SameButZ

(* Nothing but the urgency depends on Z.                                   *)
LEMMA OnlyUrgencyAsksZ ==
  ASSUME NEW a \in Asset, NEW p \in Settings, NEW q \in Settings, SameButZ(p, q),
         NEW paired \in BOOLEAN
  PROVE  /\ X(a, p) = X(a, q) /\ Y(a, p) = Y(a, q) /\ p.scale = q.scale
         /\ Vulnerability(a, p, paired) = Vulnerability(a, q, paired)
         /\ (10 - p.multiplier) + (IF Harvestable(a, p, paired) THEN p.multiplier ELSE 0)
            = (10 - q.multiplier) + (IF Harvestable(a, q, paired) THEN q.multiplier ELSE 0)
         /\ p.weights[Criticality(a, p)] = q.weights[Criticality(a, q)]
<1>1. ClassOf(a, p) = ClassOf(a, q)
  BY DEF ClassOf, SameButZ
<1>2. X(a, p) = X(a, q)
  BY <1>1 DEF X, SameButZ
<1>3. Y(a, p) = Y(a, q)
  BY DEF Y, SameButZ
<1>4. Weakness(a, p) = Weakness(a, q)
  BY DEF Weakness, SameButZ
<1>5. Vulnerability(a, p, paired) = Vulnerability(a, q, paired)
  BY <1>4 DEF Vulnerability
<1>6. Harvestable(a, p, paired) <=> Harvestable(a, q, paired)
  BY <1>1, <1>2, <1>4 DEF Harvestable, LongLived
<1>7. Criticality(a, p) = Criticality(a, q)
  BY DEF Criticality, SameButZ
<1> QED BY <1>2, <1>3, <1>5, <1>6, <1>7 DEF SameButZ

(* mosca.py urgency(): a year that passes, or a Z that comes nearer, makes *)
(* nothing less urgent.                                                    *)
LEMMA UrgencyPresses ==
  ASSUME NEW a \in Asset, NEW p \in Settings, NEW q \in Settings, SameButZ(p, q),
         NEW when \in Nat, NEW later \in Nat, when <= later, q.z <= p.z
  PROVE  Urgency(a, p, when) <= Urgency(a, q, later)
<1>1. /\ X(a, p) = X(a, q) /\ Y(a, p) = Y(a, q) /\ p.scale = q.scale
  BY OnlyUrgencyAsksZ
<1>2. PICK x \in Nat, y \in Nat, scale \in Nat \ {0}, z \in Nat, nearer \in Nat :
        /\ x = X(a, p) /\ y = Y(a, p) /\ scale = p.scale /\ z = p.z /\ nearer = q.z
  <2>1. p.scale \in Nat \ {0} /\ p.z \in Nat /\ q.z \in Nat
    BY DEF Settings
  <2> QED BY <2>1, LifetimeIsNat, MigrationIsNat
<1>3. PICK i \in Nat, j \in Nat : i = Max({0, z - when}) /\ j = Max({0, nearer - later})
  BY LargerOfTwo
<1>4. j <= i
  BY <1>2, <1>3, LargerOfTwo
<1>5. PICK m \in Int, n \in Int : m = (x + y - Year * i) * 50 /\ n = (x + y - Year * j) * 50
  BY DEF Year
<1>6. m <= n
  BY <1>4, <1>5 DEF Year
<1>7. PICK k \in Int, l \in Int : k = m \div scale /\ l = n \div scale
  OBVIOUS
<1>8. k <= l
  BY <1>6, <1>7, QuotientGrows
<1>9. Clamp(k) <= Clamp(l)
  BY <1>8, ClampValue
<1>10. Urgency(a, p, when) = Clamp(k)
  BY <1>2, <1>3, <1>5, <1>7 DEF Urgency
<1>11. Urgency(a, q, later) = Clamp(l)
  BY <1>1, <1>2, <1>3, <1>5, <1>7 DEF Urgency
<1> QED BY <1>9, <1>10, <1>11

(* risk.py compliance pressure: nor does a deadline that comes nearer, or  *)
(* has passed.                                                             *)
LEMMA CompliancePresses ==
  ASSUME NEW a, NEW when \in Nat, NEW later \in Nat, when <= later
  PROVE  Compliance(a, when) <= Compliance(a, later)
<1>1. CASE a.privateKey \/ TooSmall(a)
  BY <1>1 DEF Compliance
<1>2. CASE ~(a.privateKey \/ TooSmall(a)) /\ Deadlines(a) = {}
  BY <1>2 DEF Compliance
<1>3. CASE ~(a.privateKey \/ TooSmall(a)) /\ Deadlines(a) # {}
  <2>1. PICK d \in Int : d = Min(Deadlines(a))
    BY <1>3, NearestDeadline
  <2>2. PICK m \in Int, n \in Int : m = 1000 - 100 * (d - when) /\ n = 1000 - 100 * (d - later)
    BY <2>1
  <2>3. Clamp(m) <= Clamp(n)
    BY <2>2, ClampValue
  <2>4. Compliance(a, when) = Clamp(m) /\ Compliance(a, later) = Clamp(n)
    BY <1>3, <2>1, <2>2 DEF Compliance
  <2> QED BY <2>3, <2>4
<1> QED BY <1>1, <1>2, <1>3

(* So no score falls.                                                      *)
LEMMA ScorePresses ==
  ASSUME NEW a \in Asset, NEW p \in Settings, NEW q \in Settings, SameButZ(p, q),
         NEW when \in Nat, NEW later \in Nat, when <= later, q.z <= p.z, NEW paired \in BOOLEAN
  PROVE  Score(a, p, when, paired) <= Score(a, q, later, paired)
<1>1. PICK t \in Nat : t = Timing(a, p, when)
  BY TimingInRange
<1>2. PICK u \in Nat : u = Timing(a, q, later)
  BY TimingInRange
<1>3. t <= u
  <2>1. /\ Urgency(a, p, when) <= Urgency(a, q, later)
        /\ Compliance(a, when) <= Compliance(a, later)
    BY UrgencyPresses, CompliancePresses
  <2>2. PICK i \in Nat, j \in Nat, k \in Nat, l \in Nat :
          /\ i = Urgency(a, p, when) /\ j = Urgency(a, q, later)
          /\ k = Compliance(a, when) /\ l = Compliance(a, later)
    <3>1. Urgency(a, p, when) \in Nat /\ Urgency(a, q, later) \in Nat
      BY UrgencyIsNat
    <3>2. Compliance(a, when) \in Nat /\ Compliance(a, later) \in Nat
      BY ComplianceIsNat
    <3> QED BY <3>1, <3>2, Zenon
  <2>3. t \in {i, k, 500}
    BY <1>1, <2>2, TimingInRange
  <2>4. u >= j /\ u >= l /\ u >= 500
    BY <1>2, <2>2, TimingInRange
  <2> QED BY <2>1, <2>2, <2>3, <2>4
<1>4. PICK v \in Nat : v = Vulnerability(a, p, paired)
  BY VulnerabilityInRange
<1>5. PICK m \in Nat : m = (10 - p.multiplier) + (IF Harvestable(a, p, paired) THEN p.multiplier ELSE 0)
  BY WeightsAreNat
<1>6. PICK w \in Nat : w = p.weights[Criticality(a, p)]
  BY WeightsAreNat
<1>7. Score(a, p, when, paired) = v * t * m * w
  BY <1>1, <1>4, <1>5, <1>6 DEF Score
<1>8. Score(a, q, later, paired) = v * u * m * w
  BY <1>2, <1>4, <1>5, <1>6, OnlyUrgencyAsksZ DEF Score
<1> QED BY <1>3, <1>7, <1>8, ScoreFollowsTiming

(* Two reports of one inventory pair the same rows.                        *)
LEMMA ReportsDifferInTime ==
  ASSUME NEW r, NEW s, Rateable(r), Rateable(s), DifferInTime(r, s), NEW a \in r.assets
  PROVE  /\ a \in Asset /\ a.hybrid \in BOOLEAN
         /\ r.settings \in Settings /\ s.settings \in Settings /\ SameButZ(r.settings, s.settings)
         /\ r.year \in Nat /\ s.year \in Nat
         /\ Paired(a, r.assets) \in BOOLEAN
         /\ RowScore(r, a) = Score(a, r.settings, r.year, Paired(a, r.assets))
         /\ RowScore(s, a) = Score(a, s.settings, s.year, Paired(a, r.assets))
         /\ RowDriver(r, a) = Driver(a, r.settings, r.year, Paired(a, r.assets))
<1>1. /\ a \in Asset /\ r.settings \in Settings /\ s.settings \in Settings
      /\ r.year \in Nat /\ s.year \in Nat
  BY DEF Rateable
<1>2. a.hybrid \in BOOLEAN
  BY <1>1 DEF Asset
<1>3. SameButZ(r.settings, s.settings)
  BY <1>1, ExceptZ DEF DifferInTime
<1>4. Paired(a, r.assets) \in BOOLEAN
  BY <1>2 DEF Paired
<1>5. r.assets = s.assets
  BY DEF DifferInTime
<1> QED BY <1>1, <1>2, <1>3, <1>4, <1>5, Zenon DEF RowScore, RowDriver

(* Nothing becomes less urgent because a year has passed, or because       *)
(* quantum computers are expected sooner (risk.py:134-151, 211-221).       *)
THEOREM TimePresses == Spec => TimeOnlyPresses
<1>1. ReportsInv /\ ReportsInv' =>
        (out # None /\ out' # None /\ DifferInTime(out, out') /\ out'.year >= out.year
         /\ out'.settings.z <= out.settings.z
         => \A a \in out.assets : RowScore(out', a) >= RowScore(out, a))
  <2> SUFFICES ASSUME ReportsInv, ReportsInv', out # None, out' # None, DifferInTime(out, out'),
                      out'.year >= out.year, out'.settings.z <= out.settings.z, NEW a \in out.assets
               PROVE  RowScore(out', a) >= RowScore(out, a)
    OBVIOUS
  <2>1. PICK r, s : r = out /\ s = out'
    OBVIOUS
  <2>2. /\ Rateable(r) /\ Rateable(s) /\ DifferInTime(r, s) /\ a \in r.assets
        /\ s.year >= r.year /\ s.settings.z <= r.settings.z
    BY <2>1 DEF ReportsInv
  <2>3. PICK c \in BOOLEAN :
          /\ RowScore(r, a) = Score(a, r.settings, r.year, c)
          /\ RowScore(s, a) = Score(a, s.settings, s.year, c)
    BY <2>2, ReportsDifferInTime, Zenon
  <2>4. /\ a \in Asset /\ r.settings \in Settings /\ s.settings \in Settings
        /\ SameButZ(r.settings, s.settings) /\ r.year \in Nat /\ s.year \in Nat
    BY <2>2, ReportsDifferInTime
  <2>5. Score(a, r.settings, r.year, c) <= Score(a, s.settings, s.year, c)
    BY <2>2, <2>4, ScorePresses
  <2>6. Score(a, r.settings, r.year, c) \in Nat /\ Score(a, s.settings, s.year, c) \in Nat
    BY <2>4, ScoreIsNat
  <2> QED BY <2>1, <2>3, <2>5, <2>6
<1> QED BY <1>1, ReportsAlways, PTL DEF TimeOnlyPresses

(* classify_asset(): what the regulator's date drives is not driven by Z.  *)
LEMMA DateDriven ==
  ASSUME NEW a \in Asset, NEW p \in Settings, NEW q \in Settings, SameButZ(p, q),
         NEW when \in Nat, q.z >= p.z, NEW paired \in BOOLEAN,
         Driver(a, p, when, paired) = "compliance"
  PROVE  Score(a, q, when, paired) = Score(a, p, when, paired)
<1>1. Urgency(a, p, when) # Timing(a, p, when) /\ Compliance(a, when) = Timing(a, p, when)
  BY DEF Driver
<1>2. PICK i \in Nat, j \in Nat, c \in Nat :
        i = Urgency(a, p, when) /\ j = Urgency(a, q, when) /\ c = Compliance(a, when)
  <2>1. Urgency(a, p, when) \in Nat /\ Urgency(a, q, when) \in Nat
    BY UrgencyIsNat
  <2>2. Compliance(a, when) \in Nat
    BY ComplianceIsNat
  <2> QED BY <2>1, <2>2, Zenon
<1>3. SameButZ(q, p)
  BY DEF SameButZ
<1>4. j <= i
  <2>1. p.z \in Nat /\ q.z \in Nat /\ p.z <= q.z
    BY DEF Settings
  <2> QED BY <1>2, <1>3, <2>1, UrgencyPresses
<1>5. PICK t \in Nat : t = Timing(a, p, when)
  BY TimingInRange
<1>6. PICK u \in Nat : u = Timing(a, q, when)
  BY TimingInRange
<1>7. t = c /\ i < c /\ c >= 500
  BY <1>1, <1>2, <1>5, TimingInRange
<1>8. u \in {j, c, 500} /\ u >= c
  BY <1>2, <1>6, TimingInRange
<1>9. u = t
  BY <1>4, <1>7, <1>8
<1> QED BY <1>5, <1>6, <1>9, OnlyUrgencyAsksZ DEF Score

(* A score that the regulator's date drives stays as it is when Z is moved *)
(* further off (models.py:250-252).                                        *)
THEOREM PinnedScoresHold == Spec => PinnedHolds
<1>1. ReportsInv /\ ReportsInv' =>
        (out # None /\ out' # None /\ DifferInTime(out, out') /\ out'.year = out.year
         /\ out'.settings.z >= out.settings.z
         => \A a \in out.assets : RowDriver(out, a) = "compliance" =>
              RowScore(out', a) = RowScore(out, a))
  <2> SUFFICES ASSUME ReportsInv, ReportsInv', out # None, out' # None, DifferInTime(out, out'),
                      out'.year = out.year, out'.settings.z >= out.settings.z, NEW a \in out.assets,
                      RowDriver(out, a) = "compliance"
               PROVE  RowScore(out', a) = RowScore(out, a)
    OBVIOUS
  <2>1. PICK r, s : r = out /\ s = out'
    OBVIOUS
  <2>2. /\ Rateable(r) /\ Rateable(s) /\ DifferInTime(r, s) /\ a \in r.assets
        /\ s.year = r.year /\ s.settings.z >= r.settings.z /\ RowDriver(r, a) = "compliance"
    BY <2>1 DEF ReportsInv
  <2>3. PICK c \in BOOLEAN :
          /\ RowScore(r, a) = Score(a, r.settings, r.year, c)
          /\ RowScore(s, a) = Score(a, s.settings, s.year, c)
          /\ RowDriver(r, a) = Driver(a, r.settings, r.year, c)
    BY <2>2, ReportsDifferInTime, Zenon
  <2>4. /\ a \in Asset /\ r.settings \in Settings /\ s.settings \in Settings
        /\ SameButZ(r.settings, s.settings) /\ r.year \in Nat
    BY <2>2, ReportsDifferInTime
  <2>5. Score(a, s.settings, r.year, c) = Score(a, r.settings, r.year, c)
    BY <2>2, <2>3, <2>4, DateDriven
  <2> QED BY <2>1, <2>2, <2>3, <2>5, Zenon
<1> QED BY <1>1, ReportsAlways, PTL DEF PinnedHolds
=============================================================================
