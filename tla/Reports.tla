------------------------------ MODULE Reports ------------------------------
(***************************************************************************)
(* Where ratings come from and go to (api.py report_for(), rescore(),      *)
(* export_cbom(), put_policy(); cli.py cmd_scan(); engine.py run_scan()).  *)
(*                                                                         *)
(* A scan is rated with one of three sets of settings: the server's live   *)
(* ones, the policy file's, or, when a reader moves the Z slider or        *)
(* exports, a mixture of the file, the live ones and the document.  Rows   *)
(* are a function of the assets, the settings and the year, so a document  *)
(* or a response is kept as these three.                                   *)
(***************************************************************************)
EXTENDS Rating

CONSTANTS
  Inventories,    \* what a scan may find: sets of assets
  Files,          \* the policy files their owner writes
  Changes,        \* the bodies of settings requests: [some fields -> values]
  AskedZ,         \* the years a reader asks for
  Filters,        \* the [statuses, levels] an export is filtered by
  Years           \* the years in which the system is looked at

(* What a scanner calls an asset: a protocol is known by its own name, and *)
(* a pairing is declared for the two halves of a key exchange (ssh.py:     *)
(* 62-89, config.py:346-352).                                              *)
Findable(a) ==
  /\ a.type = "protocol" => a.algorithm \notin Shor
  /\ a.hybrid => a.type = "algorithm" /\ a.algorithm \in Shor \cup PQC

(* In truth: half of a hybrid, with the other half in the inventory.       *)
HalvesOf(pqc, classical) ==
  /\ pqc.algorithm \in PQC /\ classical.algorithm \notin PQC /\ Covers(pqc, classical)
  /\ pqc.exchange = classical.exchange

InHybrid(a, found) == \E b \in found : HalvesOf(a, b) \/ HalvesOf(b, a)

(* What a scan finds: a pairing is declared from a name that says so, and  *)
(* the configurations and hosts that declare one are neither the manifests *)
(* nor the sources that have libraries.                                    *)
IsInventory(found) ==
  /\ found \subseteq Asset
  /\ \A a \in found : Findable(a) /\ (a.hybrid => InHybrid(a, found))
  /\ \A a, b \in found : a.hybrid /\ LibraryRow(b) => a.module # b.module

(* Settings after a request: what its body names is replaced.              *)
Changed(settings, change) ==
  [f \in DOMAIN settings |-> IF f \in DOMAIN change THEN change[f] ELSE settings[f]]

(* Files and requests have values rating can use (module ScanServer has    *)
(* the others).                                                            *)
ASSUME ReportsAssumption ==
  /\ \A found \in Inventories : IsInventory(found)
  /\ Files \subseteq Settings
  /\ \A text \in Files, change \in Changes : Changed(text, change) \in Settings
  /\ AskedZ \cup Years \subseteq Nat \ {0}
  /\ None \notin Nat \cup Classes \cup Surfaces \cup Settings

VARIABLES
  file,           \* what crypto-policy.yaml says
  live,           \* the server's state["policy"]
  year,           \* date.today().year
  doc,            \* the newest stored scan, or None
  out             \* the last report or export of doc, or None

vars == <<file, live, year, doc, out>>

Init ==
  /\ file \in Files /\ live = file
  /\ year \in Years
  /\ doc = None /\ out = None

-----------------------------------------------------------------------------
Rated(assets, settings) == [assets |-> assets, settings |-> settings, year |-> year]

(* The server rates with its live settings.                                *)
ScanByServer(found) ==
  /\ doc' = Rated(found, live)
  /\ out' = None
  /\ UNCHANGED <<file, live, year>>

(* The command rates with the file's, and with its -z.                     *)
ScanByCommand(found, z) ==
  /\ doc' = Rated(found, IF z = None THEN file ELSE [file EXCEPT !.z = z])
  /\ out' = None
  /\ UNCHANGED <<file, live, year>>

PutPolicy(change) ==
  /\ live' = Changed(live, change)
  /\ UNCHANGED <<file, year, doc, out>>

(* The owner edits the file; the server reads it again when it starts, and *)
(* at every rescoring and export.                                          *)
EditFile(text) ==
  /\ file' = text
  /\ UNCHANGED <<live, year, doc, out>>

Restart ==
  /\ live' = file
  /\ UNCHANGED <<file, year, doc, out>>

NewYear ==
  /\ \E y \in Years : y > year /\ year' = y
  /\ UNCHANGED <<file, live, doc, out>>

(* The document as it is stored, or rated anew for another Z: the file's   *)
(* settings, and of the live ones only the compliance regime.              *)
ReportFor(z) ==
  IF z \in {None, doc.settings.z} THEN doc
  ELSE Rated(doc.assets, [file EXCEPT !.z = z, !.cnsa = live.cnsa])

Response(kind, report, whole) ==
  [kind |-> kind, assets |-> report.assets, settings |-> report.settings,
   year |-> report.year, whole |-> whole]

Report(z) ==
  /\ doc # None
  /\ out' = Response("report", ReportFor(z), doc.assets)
  /\ UNCHANGED <<file, live, year, doc>>

(* Not the code: the halves of hybrids are left out as well.               *)
KeptUnpaired(report, filter) ==
  {a \in report.assets : /\ ~a.hybrid
                         /\ Status(a) \in filter.statuses
                         /\ Criticality(a, report.settings) \in filter.levels}

(* The rows of a report that a filter keeps.                               *)
Kept(report, filter) ==
  {a \in report.assets : /\ Status(a) \in filter.statuses
                         /\ Criticality(a, report.settings) \in filter.levels}

(* An export filters the report and rates what is left anew: with the      *)
(* file's settings, its compliance regime included.                        *)
Export(z, filter) ==
  /\ doc # None
  /\ LET kept == Kept(ReportFor(z), filter)
         used == [file EXCEPT !.z = IF z = None THEN doc.settings.z ELSE z] IN
       out' = Response("export", Rated(kept, used), doc.assets)
  /\ UNCHANGED <<file, live, year, doc>>

Next ==
  \/ \E found \in Inventories :
       ScanByServer(found) \/ \E z \in AskedZ \cup {None} : ScanByCommand(found, z)
  \/ \E change \in Changes : PutPolicy(change)
  \/ \E text \in Files : EditFile(text)
  \/ Restart
  \/ NewYear
  \/ \E z \in AskedZ \cup {None} :
       Report(z) \/ \E filter \in Filters : Export(z, filter)

Spec == Init /\ [][Next]_vars

-----------------------------------------------------------------------------
Shown == IF out = None THEN {} ELSE out.assets

RowVulnerability(r, a) == Vulnerability(a, r.settings, Paired(a, r.assets))
RowScore(r, a)  == Score(a, r.settings, r.year, Paired(a, r.assets))
RowDriver(r, a) == Driver(a, r.settings, r.year, Paired(a, r.assets))

(* Two reports that differ in Z and in the year, and in nothing else.      *)
DifferInTime(r, s) ==
  /\ r.kind = "report" /\ s.kind = "report"
  /\ r.assets = s.assets
  /\ [r.settings EXCEPT !.z = 0] = [s.settings EXCEPT !.z = 0]

(* classify_asset (risk.py:134-151, 211-221): nothing becomes less urgent  *)
(* because a year has passed, or because quantum computers are expected    *)
(* sooner: with the same inventory and settings no score falls.            *)
TimeOnlyPresses ==
  [][out # None /\ out' # None /\ DifferInTime(out, out') /\ out'.year >= out.year
     /\ out'.settings.z <= out.settings.z
     => \A a \in out.assets : RowScore(out', a) >= RowScore(out, a)]_out

(* models.py:250-252 and tests/test_api.py:44: a score that the            *)
(* regulator's date drives stays as it is when Z is moved further off.     *)
(* (Moved nearer, Z can overtake the date: README.md:182-184 says more     *)
(* than the code does.)                                                    *)
PinnedHolds ==
  [][out # None /\ out' # None /\ DifferInTime(out, out') /\ out'.year = out.year
     /\ out'.settings.z >= out.settings.z
     => \A a \in out.assets : RowDriver(out, a) = "compliance" =>
          RowScore(out', a) = RowScore(out, a)]_out

(* Rated lower for its company.                                            *)
Discounted(a) == RowVulnerability(out, a) < Vulnerability(a, out.settings, FALSE)

(* find_hybrid_partners (risk.py:266-272), "marking a genuinely exposed    *)
(* key exchange as already migrated ... is the most expensive mistake this *)
(* tool could make": where a scanner found a pairing declared, what is     *)
(* discounted really is half of a hybrid, in the report and in every       *)
(* export, whatever rows, declared ones among them, its filter takes away. *)
BareStaysExposed ==
  \A a \in Shown :
    Discounted(a) /\ (\E b \in out.whole : b.hybrid /\ b.module = a.module) => InHybrid(a, out.whole)

(* Sound, and but for three algorithms with no rule that replaces it.      *)
Spared(a) ==
  /\ Status(a) = "adequate" /\ ~a.privateKey
  /\ a.algorithm \notin {"AES", "SHA-256", "SHA3-256"}

(* risk.py:6-15 and recommend.py, two decision trees over one status: a    *)
(* row is told to move exactly if it scores, but for sound algorithms that *)
(* only CNSA 2.0 objects to: of these it moves AES, SHA-256 and SHA3-256.  *)
ScoreAndAdviceAgree ==
  \A a \in Shown :
    Advice(a, out.settings) # NoChange(a) <=> RowVulnerability(out, a) > 0 /\ ~Spared(a)

(* The asset that is there when the advice has been followed.              *)
Follow(a, advice) ==
  LET bare == [a EXCEPT !.size = None, !.curve = None, !.set = None, !.hybrid = FALSE] IN
  CASE advice.algorithm = "ML-KEM-768"    -> [bare EXCEPT !.algorithm = "ML-KEM", !.set = 768]
    [] advice.algorithm = "ML-KEM-1024"   -> [bare EXCEPT !.algorithm = "ML-KEM", !.set = 1024]
    [] advice.algorithm = "ML-DSA-65"     -> [bare EXCEPT !.algorithm = "ML-DSA", !.set = 65]
    [] advice.algorithm = "ML-DSA-87"     -> [bare EXCEPT !.algorithm = "ML-DSA", !.set = 87]
    [] advice.algorithm = "FN-DSA-512"    -> [bare EXCEPT !.algorithm = "FN-DSA", !.set = 512]
    [] advice.algorithm = "LMS/XMSS"    -> [bare EXCEPT !.algorithm = "LMS"]
    [] advice.algorithm \in {"AES-256", "AES-256-GCM"}
                                          -> [bare EXCEPT !.algorithm = "AES", !.size = 256]
    [] advice.algorithm = "SHA-256"       -> [bare EXCEPT !.algorithm = "SHA-256"]
    [] advice.algorithm = "SHA-384"       -> [bare EXCEPT !.algorithm = "SHA-384"]
    [] advice.algorithm = "TLS-1.3"       -> [bare EXCEPT !.algorithm = "TLSv1.3"]
    [] OTHER                              -> a

(* It names what the asset is to become: neither a key to be rotated, nor  *)
(* a cipher for a protocol.                                                *)
Replaces(a, advice) ==
  /\ advice.standard \notin {"no-change", "operational"}
  /\ a.type = "protocol" => advice.algorithm = "TLS-1.3"

(* recommend.py:93-195, "CNSA 2.0 requires the ML-KEM-1024 parameter set"  *)
(* and its like: who follows the advice has nothing left to do there under *)
(* the same settings: it scores nothing and is told to stay.  (But for one *)
(* rule, that does not ask the regime: MD5, SHA-1 and SHA-224 are told to  *)
(* become SHA-256, which CNSA 2.0 objects to.)                             *)
AdviceIsFinal ==
  \A a \in Shown :
    LET advice == Advice(a, out.settings)
        moved == Follow(a, advice)
    IN
    Replaces(a, advice) /\ ~(advice.algorithm = "SHA-256" /\ out.settings.cnsa)
    => /\ Vulnerability(moved, out.settings, FALSE) = 0
       /\ Advice(moved, out.settings) = NoChange(moved)

(* export_cbom (api.py:447-466) rates what the filter leaves, without the  *)
(* rows it took away: no row of an export is scored lower than it would be *)
(* among all the rows.  (It can be higher: the filter takes away the       *)
(* post-quantum half of a hybrid.)                                         *)
ExportNeverLower ==
  out # None /\ out.kind = "export" =>
    \A a \in out.assets :
      RowScore(out, a) >= Score(a, out.settings, out.year, Paired(a, out.whole))
=============================================================================
