------------------------------ MODULE ScanServer ------------------------------
(***************************************************************************)
(* cbom_compass/api.py: requests served concurrently over one live Policy, *)
(* one workspace of extracted trees and one store; and, beside the server, *)
(* "cbom-compass scan --repo" processes on the same workspace and store.   *)
(*                                                                         *)
(* Handlers declared "def" run in worker threads.  The upload handler is   *)
(* "async def" and scans inside the coroutine, so it holds the event loop, *)
(* and while it does nothing else is dispatched and nothing is answered.   *)
(*                                                                         *)
(* A scan is abstracted to what the requests can disturb in each other:    *)
(* whether each scanner found the tree it was given, and the settings each *)
(* asset was rated under.  Ingestion's own checks, the inventory and the   *)
(* rating itself are other modules' business; the store's lock and commits *)
(* are module Store's, and appear here as the two writes of save().        *)
(***************************************************************************)
EXTENDS Naturals, Sequences, FiniteSets

CONSTANTS
  Requests,       \* every request or command there will be
  Kinds,          \* the kinds of request to explore
  Values,         \* the usable values of a setting
  Unusable,       \* a value a setting accepts and rating then fails on
  Malformed,      \* a value the setting's conversion raises on
  FilePolicy,     \* [Fields -> Values]: the policy file
  Bodies,         \* the PUT /api/policy bodies to explore
  Keep,           \* keep_workspaces
  NScanners,      \* the scanners of a scan, run one after the other
  NAssets,        \* the assets each scan rates, one after the other
  MaxCrashes,     \* bound: server crashes in a behaviour
  None            \* nobody holds the event loop

(* The settings a PUT may carry, in the order put_policy applies them.     *)
FieldOrder == <<"z_year", "cnsa2_required", "urgency_scale", "criticality_weights">>
Fields     == {FieldOrder[i] : i \in DOMAIN FieldOrder}
Settings   == [Fields -> Values \cup {Unusable}]

(* POST /api/scan/upload, POST /api/scan/repo, POST /api/scan, the command *)
(* scan --repo, PUT /api/policy, GET /api/export/...                       *)
AllKinds  == {"upload", "repo", "paths", "command", "settings", "export"}
WithTree  == {"upload", "repo", "command"}
ScanKinds == WithTree \cup {"paths"}
Prunes    == {"upload", "repo"}

ASSUME ScanServerAssumption ==
  /\ Kinds \subseteq AllKinds
  /\ Unusable \notin Values /\ Malformed \notin Values \cup {Unusable}
  /\ FilePolicy \in [Fields -> Values]
  /\ Bodies \subseteq UNION {[F -> Values \cup {Unusable, Malformed}] :
                               F \in SUBSET Fields}
  /\ Keep \in Nat /\ NScanners \in Nat /\ NAssets \in Nat /\ MaxCrashes \in Nat
  /\ None \notin Requests

VARIABLES
  policy,         \* state["policy"]: the live settings, shared by all threads
  present,        \* the requests whose tree is on disk
  made,           \* [Requests -> Nat]: when each tree was made, 0 if never
  mtime,          \* [Requests -> Nat]: when each tree was last modified
  now,            \* the latest of those times given out
  cut,            \* the requests whose tree a prune has begun to remove
  scans,          \* the scans table: <<[id, rated, header, missed], ...>>
  audit,          \* the audit table: <<[action, about], ...>>
  loop,           \* the request that holds the event loop
  req,            \* [Requests -> record]: where each request is
  crashes

trees == <<present, made, mtime, now, cut>>
vars  == <<policy, present, made, mtime, now, cut, scans, audit, loop, req, crashes>>

Steps    == {"new", "ingest", "scan", "save", "recorded", "prune", "date", "take",
             "drop", "apply", "load", "log", "reply", "answered"}
Outcomes == {"ok", "error", "rejected", "lost"}

(* The rated and header of a document: the settings its scores were        *)
(* computed under, and those its policy section names.                     *)
Document == [id : Requests, rated : SUBSET Settings, header : Settings,
             missed : BOOLEAN]

(* One record per request: its kind and step; the scanners run and assets  *)
(* rated so far; whether a scanner ran on a tree a prune had begun to      *)
(* remove; the settings used; those it rendered into the document; the     *)
(* settings body and the fields of it already applied; the dates of the    *)
(* trees its prune has listed, and then of those it has still to remove;   *)
(* what the caller will be or was told.                                    *)
TypeOK ==
  /\ policy \in Settings
  /\ present \subseteq Requests
  /\ made \in [Requests -> 0..now]
  /\ mtime \in [Requests -> 0..now]
  /\ now \in Nat
  /\ cut \subseteq Requests
  /\ scans \in Seq(Document)
  /\ audit \in Seq([action : {"scan.completed", "settings.changed", "export"},
                    about : Requests])
  /\ loop \in Requests \cup {None}
  /\ DOMAIN req = Requests
  /\ \A r \in Requests :
       /\ req[r].kind \in AllKinds \cup {"none"}
       /\ req[r].step \in Steps
       /\ req[r].scanned \in 0..NScanners /\ req[r].rated \in 0..NAssets
       /\ req[r].missed \in BOOLEAN
       /\ req[r].used \subseteq Settings /\ req[r].header \in Settings
       /\ req[r].body \in Bodies \cup {<<>>} /\ req[r].applied \subseteq Fields
       /\ \E S \in SUBSET Requests : req[r].dates \in [S -> Nat]
       /\ req[r].outcome \in Outcomes
  /\ crashes \in 0..MaxCrashes

-----------------------------------------------------------------------------
Served(r)   == req[r].kind \notin {"none", "command"}
InFlight(r) == req[r].step \notin {"new", "answered"}

(* The policy a scan reads: a command loads the file, the server's threads *)
(* share one object.                                                       *)
PolicyOf(r) == IF Served(r) THEN policy ELSE FilePolicy

Usable(settings) == \A f \in Fields : settings[f] # Unusable

(* The server's threads share one store and its lock: none of them but r   *)
(* is inside save().  Each command opens a store of its own, and two of    *)
(* them are kept apart by nothing but SQLite: see module Store.            *)
StoreFree(r) == \A q \in Requests \ {r} :
                  req[q].step = "recorded" => ~(Served(q) /\ Served(r))

Logged(r) == \E i \in DOMAIN audit : audit[i].about = r
Saved(r)  == \E i \in DOMAIN scans : scans[i].id = r

At(r, step) == req[r].step = step
Goto(r, step) == req' = [req EXCEPT ![r].step = step]
Finish(r, outcome) == req' = [req EXCEPT ![r].step = "reply",
                                         ![r].outcome = outcome]

(* A tree is written to: it is on disk, and the most recent.               *)
Date(r)  == now' = now + 1 /\ mtime' = [mtime EXCEPT ![r] = now + 1]
Touch(r) == present' = present \cup {r} /\ Date(r)

-----------------------------------------------------------------------------
Init ==
  /\ policy = FilePolicy
  /\ present = {}
  /\ made = [r \in Requests |-> 0]
  /\ mtime = [r \in Requests |-> 0]
  /\ now = 0
  /\ cut = {}
  /\ scans = <<>>
  /\ audit = <<>>
  /\ loop = None
  /\ req = [r \in Requests |->
              [kind |-> "none", step |-> "new", scanned |-> 0, rated |-> 0,
               missed |-> FALSE, used |-> {}, header |-> FilePolicy,
               body |-> <<>>, applied |-> {}, dates |-> <<>>,
               outcome |-> "ok"]]
  /\ crashes = 0

(* A request is dispatched by the event loop; a command is a process of    *)
(* its own.  An upload keeps the loop.                                     *)
Arrive(r, kind, body) ==
  /\ At(r, "new")
  /\ kind # "command" => loop = None
  /\ loop' = IF kind = "upload" THEN r ELSE loop
  /\ req' = [req EXCEPT ![r].kind = kind, ![r].body = body,
                        ![r].step = CASE kind \in WithTree   -> "ingest"
                                      [] kind = "paths"      -> "scan"
                                      [] kind = "settings"   -> "apply"
                                      [] kind = "export"     -> "load"]
  /\ IF kind \in WithTree
       THEN Touch(r) /\ made' = [made EXCEPT ![r] = now + 1] /\ UNCHANGED cut
       ELSE UNCHANGED trees
  /\ UNCHANGED <<policy, scans, audit, crashes>>

(* The tree is filled; its last entry is what dates it.  A tree pruned     *)
(* while it was being filled is made again by the next member's mkdir.     *)
Ingest(r) ==
  /\ At(r, "ingest")
  /\ Touch(r)
  /\ Goto(r, "scan")
  /\ UNCHANGED <<policy, made, cut, scans, audit, loop, crashes>>

(* A refused archive, a failed or slow clone, a tree over its limit: the   *)
(* tree is removed and the request refused.                                *)
IngestFails(r) ==
  /\ At(r, "ingest")
  /\ present' = present \ {r}
  /\ Finish(r, "rejected")
  /\ UNCHANGED <<policy, made, mtime, now, cut, scans, audit, loop, crashes>>

(* Checking a clone raises (ingest_repo has no clause for it): the request *)
(* is answered an error, the command dies, and the tree stays.             *)
IngestRaises(r) ==
  /\ At(r, "ingest")
  /\ req[r].kind \in {"repo", "command"}
  /\ Finish(r, "error")
  /\ UNCHANGED <<policy, trees, scans, audit, loop, crashes>>

(* Not the code: a scanner is run again and again.                         *)
RunScannerAgain(r) ==
  /\ At(r, "scan")
  /\ req' = [req EXCEPT ![r].scanned = @ + 1]
  /\ UNCHANGED <<policy, trees, scans, audit, loop, crashes>>

(* run_scan runs one scanner.  A path that does not exist is an error in   *)
(* the scanner's result, not an exception: the scan goes on without it.    *)
RunScanner(r) ==
  /\ At(r, "scan")
  /\ req[r].scanned < NScanners
  /\ req' = [req EXCEPT ![r].scanned = @ + 1,
                        ![r].missed = @ \/ r \in cut]
  /\ UNCHANGED <<policy, trees, scans, audit, loop, crashes>>

(* classify_all and recommend_all: one asset is rated under the settings   *)
(* as they are now.                                                        *)
RateAsset(r) ==
  /\ At(r, "scan")
  /\ req[r].scanned = NScanners
  /\ req[r].rated < NAssets
  /\ Usable(PolicyOf(r))
  /\ req' = [req EXCEPT ![r].rated = @ + 1, ![r].used = @ \cup {PolicyOf(r)}]
  /\ UNCHANGED <<policy, trees, scans, audit, loop, crashes>>

(* urgency_scale 0, a weight that is not a number: rating raises, nothing  *)
(* in run_scan or in the handler catches it, and the tree stays.           *)
RateRaises(r) ==
  /\ At(r, "scan")
  /\ req[r].scanned = NScanners
  /\ req[r].rated < NAssets
  /\ ~Usable(PolicyOf(r))
  /\ Finish(r, "error")
  /\ UNCHANGED <<policy, trees, scans, audit, loop, crashes>>

(* to_dict: the policy section names the settings as they are now.         *)
Render(r) ==
  /\ At(r, "scan")
  /\ req[r].scanned = NScanners
  /\ req[r].rated = NAssets
  /\ req' = [req EXCEPT ![r].header = PolicyOf(r), ![r].step = "save"]
  /\ UNCHANGED <<policy, trees, scans, audit, loop, crashes>>

(* Not the code: a scan that lost its tree is answered and not stored.     *)
RecordCompleteScan(r) ==
  /\ At(r, "save")
  /\ StoreFree(r)
  /\ scans' = IF req[r].missed THEN scans
              ELSE Append(scans, [id |-> r, rated |-> req[r].used,
                                  header |-> req[r].header, missed |-> FALSE])
  /\ Goto(r, "recorded")
  /\ UNCHANGED <<policy, trees, audit, loop, crashes>>

(* Not the code: the insert is retried after it has been committed.        *)
RecordScanTwice(r) ==
  /\ At(r, "save")
  /\ StoreFree(r)
  /\ scans' = Append(scans, [id |-> r, rated |-> req[r].used,
                             header |-> req[r].header, missed |-> req[r].missed])
  /\ Goto(r, IF Saved(r) THEN "recorded" ELSE "save")
  /\ UNCHANGED <<policy, trees, audit, loop, crashes>>

(* save(), its first commit.                                               *)
RecordScan(r) ==
  /\ At(r, "save")
  /\ StoreFree(r)
  /\ scans' = Append(scans, [id |-> r, rated |-> req[r].used,
                             header |-> req[r].header, missed |-> req[r].missed])
  /\ Goto(r, "recorded")
  /\ UNCHANGED <<policy, trees, audit, loop, crashes>>

(* save(), its second commit.  The command and POST /api/scan do not prune.*)
LogScan(r) ==
  /\ At(r, "recorded")
  /\ audit' = Append(audit, [action |-> "scan.completed", about |-> r])
  /\ IF req[r].kind \in Prunes THEN Goto(r, "prune") ELSE Finish(r, "ok")
  /\ UNCHANGED <<policy, trees, scans, loop, crashes>>

(* prune_workspace, first the directory is listed: the trees, each with    *)
(* the date it has then.                                                   *)
ListTrees(r) ==
  /\ At(r, "prune")
  /\ req' = [req EXCEPT ![r].step = "date", ![r].dates = [q \in present |-> mtime[q]]]
  /\ UNCHANGED <<policy, trees, scans, audit, loop, crashes>>

(* Of a listed tree that another prune has removed meanwhile stat() raises *)
(* FileNotFoundError, after the scan was stored.                           *)
DateRaises(r) ==
  /\ At(r, "date")
  /\ \E q \in DOMAIN req[r].dates : q \notin present
  /\ Finish(r, "error")
  /\ UNCHANGED <<policy, trees, scans, audit, loop, crashes>>

(* The listed trees are dated one after the other, so that each date is    *)
(* the one at the listing or the one now, late ones those that changed     *)
(* before they were dated.  (Changed twice meanwhile are only trees that   *)
(* another prune removes as well.)  A tree gone by now is dated if it was  *)
(* there when its turn came, and passed over if is_dir() found it gone.    *)
ReadDates(r, seen, late) ==
  [q \in seen |-> IF q \in late THEN mtime[q] ELSE req[r].dates[q]]

(* The dated trees that n or more are dated after.                         *)
After(dates, n) ==
  {q \in DOMAIN dates : Cardinality({p \in DOMAIN dates : dates[p] > dates[q]}) >= n}

GoesOn(r, stale, dates) ==
  req' = [req EXCEPT ![r].step = "take", ![r].dates = [q \in stale |-> dates[q]]]

(* Not the code: trees[keep + 1:] is removed.                              *)
RankOneTooFew(r) ==
  /\ At(r, "date")
  /\ GoesOn(r, After(req[r].dates, Keep + 1), req[r].dates)
  /\ UNCHANGED <<policy, trees, scans, audit, loop, crashes>>

(* Not the code: the trees are sorted without reverse=True.                *)
RankOldestFirst(r) ==
  /\ At(r, "date")
  /\ LET dates == req[r].dates
     IN  GoesOn(r, {q \in DOMAIN dates :
                     Cardinality({p \in DOMAIN dates : dates[p] < dates[q]}) >= Keep}, dates)
  /\ UNCHANGED <<policy, trees, scans, audit, loop, crashes>>

(* They are sorted by date, and all but the Keep most recent are to go,    *)
(* whoever's they are.                                                     *)
RankTrees(r) ==
  /\ At(r, "date")
  /\ \E seen \in SUBSET DOMAIN req[r].dates :
       /\ DOMAIN req[r].dates \cap present \subseteq seen
       /\ \E late \in SUBSET {q \in seen : mtime[q] # req[r].dates[q]} :
            LET dates == ReadDates(r, seen, late)
            IN  GoesOn(r, After(dates, Keep), dates)
  /\ UNCHANGED <<policy, trees, scans, audit, loop, crashes>>

(* The most recent of the trees still to remove.                           *)
NextStale(r, q) ==
  q \in DOMAIN req[r].dates /\ \A p \in DOMAIN req[r].dates : req[r].dates[p] <= req[r].dates[q]

(* rmtree takes a tree apart, which dates it anew, unless it is gone, or   *)
(* has nothing in it yet, or nothing any more ...                          *)
TakeApart(r, q) ==
  /\ At(r, "take")
  /\ NextStale(r, q)
  /\ cut' = cut \cup {q}
  /\ \/ q \in present \ cut /\ Date(q)
     \/ ~(q \in present \ cut /\ req[q].step # "ingest") /\ UNCHANGED <<mtime, now>>
  /\ Goto(r, "drop")
  /\ UNCHANGED <<policy, present, made, scans, audit, loop, crashes>>

(* ... and drops the directory in the end.  One that is being filled may   *)
(* have entries again by then: rmdir fails, quietly, and it stays.         *)
DropTree(r, q) ==
  /\ At(r, "drop")
  /\ NextStale(r, q)
  /\ present' = present \ {q} \/ (At(q, "ingest") /\ UNCHANGED present)
  /\ req' = [req EXCEPT ![r].step = "take",
                        ![r].dates = [p \in DOMAIN @ \ {q} |-> @[p]]]
  /\ UNCHANGED <<policy, made, mtime, now, cut, scans, audit, loop, crashes>>

(* No stale tree is left, and the document is returned.                    *)
EndPrune(r) ==
  /\ At(r, "take")
  /\ DOMAIN req[r].dates = {}
  /\ Finish(r, "ok")
  /\ UNCHANGED <<policy, trees, scans, audit, loop, crashes>>

(* put_policy: the settings of the body are taken one by one, in code      *)
(* order; one whose conversion raises ends the request there and then.     *)
NextField(r) ==
  LET todo == {i \in DOMAIN FieldOrder :
                 FieldOrder[i] \in DOMAIN req[r].body \ req[r].applied}
  IN  FieldOrder[CHOOSE i \in todo : \A j \in todo : i <= j]

ApplySetting(r) ==
  /\ At(r, "apply")
  /\ req[r].applied # DOMAIN req[r].body
  /\ LET f == NextField(r) IN
     IF req[r].body[f] = Malformed
       THEN Finish(r, "error") /\ UNCHANGED policy
       ELSE /\ policy' = [policy EXCEPT ![f] = req[r].body[f]]
            /\ req' = [req EXCEPT ![r].applied = @ \cup {f}]
  /\ UNCHANGED <<trees, scans, audit, loop, crashes>>

LogSettings(r) ==
  /\ At(r, "apply")
  /\ req[r].applied = DOMAIN req[r].body
  /\ StoreFree(r)
  /\ audit' = Append(audit, [action |-> "settings.changed", about |-> r])
  /\ Finish(r, "ok")
  /\ UNCHANGED <<policy, trees, scans, loop, crashes>>

(* An export loads the stored document, or answers 404.                    *)
LoadDocument(r) ==
  /\ At(r, "load")
  /\ StoreFree(r)
  /\ IF scans = <<>> THEN Finish(r, "error") ELSE Goto(r, "log")
  /\ UNCHANGED <<policy, trees, scans, audit, loop, crashes>>

LogExport(r) ==
  /\ At(r, "log")
  /\ StoreFree(r)
  /\ audit' = Append(audit, [action |-> "export", about |-> r])
  /\ Finish(r, "ok")
  /\ UNCHANGED <<policy, trees, scans, loop, crashes>>

(* Not the code: the upload waits for its own loop.                        *)
ReplyThroughLoop(r) ==
  /\ At(r, "reply")
  /\ Served(r) => loop = None
  /\ Goto(r, "answered")
  /\ UNCHANGED <<policy, trees, scans, audit, loop, crashes>>

(* The loop sends the response once it is free, or for the upload it runs. *)
Reply(r) ==
  /\ At(r, "reply")
  /\ Served(r) => loop \in {None, r}
  /\ loop' = IF loop = r THEN None ELSE loop
  /\ Goto(r, "answered")
  /\ UNCHANGED <<policy, trees, scans, audit, crashes>>

Lose(victims) ==
  req' = [r \in Requests |->
            IF r \in victims THEN [req[r] EXCEPT !.step = "answered", !.outcome = "lost"]
                             ELSE req[r]]

(* The server dies and is started again: it reads the policy file.         *)
CrashServer ==
  /\ crashes < MaxCrashes
  /\ Lose({r \in Requests : InFlight(r) /\ Served(r)})
  /\ policy' = FilePolicy
  /\ loop' = None
  /\ crashes' = crashes + 1
  /\ UNCHANGED <<trees, scans, audit>>

(* A command is interrupted.                                               *)
Interrupt(r) ==
  /\ crashes < MaxCrashes
  /\ InFlight(r) /\ ~Served(r)
  /\ Lose({r})
  /\ crashes' = crashes + 1
  /\ UNCHANGED <<policy, trees, scans, audit, loop>>

ScanStep(r) ==
  Ingest(r) \/ IngestFails(r) \/ IngestRaises(r) \/ RunScanner(r) \/ RateAsset(r)
  \/ RateRaises(r) \/ Render(r) \/ RecordScan(r) \/ LogScan(r)

PruneStep(r) ==
  \/ ListTrees(r) \/ DateRaises(r) \/ RankTrees(r) \/ EndPrune(r)
  \/ \E q \in Requests : TakeApart(r, q) \/ DropTree(r, q)

OtherStep(r) ==
  ApplySetting(r) \/ LogSettings(r) \/ LoadDocument(r) \/ LogExport(r)

Step(r) == ScanStep(r) \/ PruneStep(r) \/ OtherStep(r) \/ Reply(r)

Next ==
  \/ \E r \in Requests :
       \/ \E kind \in Kinds \ {"settings"} : Arrive(r, kind, <<>>)
       \/ "settings" \in Kinds /\ \E body \in Bodies : Arrive(r, "settings", body)
       \/ Step(r)
       \/ Interrupt(r)
  \/ CrashServer

Spec == Init /\ [][Next]_vars

(* A request that can go on does so in the end: its thread is scheduled.   *)
FairSpec == Spec /\ \A r \in Requests : WF_vars(Step(r))

-----------------------------------------------------------------------------
(* The store the requests write is a Ledger: each scan recorded once, and  *)
(* logged once, after it is recorded (save(), store.py:69-82, called from  *)
(* api.py:235 and 253).  Times and principals are left out.                *)
L == INSTANCE Ledger WITH
       ScanIds <- Requests,
       Actions <- {"settings.changed", "export"},
       clock   <- 0,
       scans   <- [i \in DOMAIN scans |-> [id |-> scans[i].id, started |-> 0]],
       audit   <- [i \in DOMAIN audit |->
                     [ts |-> 0, action |-> audit[i].action,
                      about |-> IF audit[i].action = "scan.completed"
                                  THEN audit[i].about ELSE "-"]]

StoreIsALedger == L!LedgerSpec

(* A request told "ok" did what it was told it did, and it survives every  *)
(* crash since: a scan (api.py:235, 253) is stored and logged, an export   *)
(* (470, 499, 527) and a settings change (434) are logged.                 *)
AnsweredIsDurable ==
  \A r \in Requests : req[r].outcome = "ok" /\ At(r, "answered") =>
    /\ Logged(r)
    /\ req[r].kind \in ScanKinds => Saved(r)

(* The requests whose tree no prune has had to reckon with since it was    *)
(* made: on their way to the end of their own prune, ended without one by  *)
(* an error or a crash, or commands, which never prune.                    *)
Unpruned == {r \in Requests :
               /\ req[r].kind \in WithTree
               /\ \/ req[r].step \notin {"reply", "answered"}
                  \/ req[r].outcome \in {"error", "lost"}
                  \/ req[r].kind = "command"}

(* prune_workspace (ingest.py:104-115), called at the end of scan_tree     *)
(* (api.py:254) by scans that list, date and remove the same trees at the  *)
(* same time: the workspace never holds more than Keep trees beyond those  *)
(* of scans that have not pruned.                                          *)
RetentionBounded == Cardinality(present) <= Keep + Cardinality(Unpruned)

(* prune_workspace (ingest.py:109-113): a tree is only removed when, since *)
(* it was made, at least Keep others have been made, filled or begun to be *)
(* removed themselves.  Prunes that overlap, and work from a listing that  *)
(* others have overtaken, cost a scan its tree no earlier than that.       *)
Overtakers(r) == {q \in Requests \ {r} : mtime[q] > made[r]}

LostOnlyWhenOvertaken == \A r \in cut : Cardinality(Overtakers(r)) >= Keep

(* Said by ingest.py:105 ("Drop all but the `keep` most recent trees"):    *)
(* the tree a prune is about to remove is not among the Keep most recent   *)
(* ones on disk, when a scan is still at work on it.                       *)
KeepsMostRecent ==
  \A p, r \in Requests :
    /\ At(p, "take") /\ NextStale(p, r)
    /\ r \in present \ cut /\ req[r].step \in {"scan", "save", "recorded"}
    => Cardinality({q \in present : mtime[q] > mtime[r]}) >= Keep

(* Every request and command comes to an end, whatever the others do: the  *)
(* upload that holds the loop (api.py:258) does not wait for it.           *)
EveryRequestAnswered ==
  \A r \in Requests : InFlight(r) ~> At(r, "answered")

(* Said by api.py:5-6 ("every settings change and export is written to the *)
(* audit log"): a settings request that changed a setting is logged.       *)
SettingsChangesLogged ==
  \A r \in Requests : req[r].applied # {} /\ At(r, "answered") => Logged(r)

(* Said by docs/cbom-compass-prd.md:297 ("any figure depending on Z is     *)
(* marked stale ... never silently wrong"), which report_for (api.py:179)  *)
(* does by comparing with the document's own z_year: a stored score was    *)
(* computed under the Z its document names.                                *)
ScoresUseHeaderZ ==
  \A i \in DOMAIN scans : \A settings \in scans[i].rated :
    settings["z_year"] = scans[i].header["z_year"]
=============================================================================
