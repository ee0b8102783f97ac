------------------------------- MODULE Collect -------------------------------
(***************************************************************************)
(* engine.run_scan() over key stores, endpoints, images, trees of files    *)
(* and the results of other scanners, the survey's loop over projects and  *)
(* an upload's one tree: targets are taken one after another, and whatever *)
(* fails at one of them must neither lose the others nor go unmentioned.   *)
(*                                                                         *)
(* A job is [kind |-> "scan", targets |-> sequence of [scanner, of]] or    *)
(* [kind |-> "survey" or "upload", targets |-> sequence of [local, of]].   *)
(***************************************************************************)
EXTENDS Ingest, KeyStore, Endpoint, Container, Source, Config, Manifest, Pipeline

CONSTANTS
  Jobs,
  PathScanners    \* PATH_SCANNERS: what is run on a tree

-----------------------------------------------------------------------------
(* What a job is given.  Names, Sizes, Places and the other constants of   *)
(* Findings hold all that the files and results of a job can show.         *)

(* Findings, with relationships between them.                              *)
IsPiece(p) ==
  /\ p.assets \in Seq(Asset)
  /\ \A i \in DOMAIN p.assets : Coherent(p.assets[i])
  /\ \A l \in p.links : {l[1], l[2]} \subseteq DOMAIN p.assets

(* A result of a scanner that is not modelled, with its certificates.      *)
IsResult(r) ==
  /\ IsPiece(r) /\ r.moved = {}
  /\ r.found \in Seq(Range(r.found)) /\ DOMAIN r.found \subseteq DOMAIN r.assets

(* What its tree shows can be at a place in the image, and what is related *)
(* there is known without its place.                                       *)
IsImage(t) ==
  /\ t.form \in {"dir", "tar", "name"} /\ IsPiece(t.catalogue)
  /\ \A gone \in SUBSET t.nested :
       LET walked == t.tree[gone] IN
       /\ IsPiece(walked) /\ IsPiece(t.material[gone])
       /\ \A i \in DOMAIN walked.assets : Relocated(walked.assets[i]) \in Asset
       /\ \A l \in walked.links : \A i \in {l[1], l[2]} :
            walked.assets[i].lib # None \/ walked.assets[i].cert # None

(* What a file may be read as.                                             *)
Readings(f) ==
  CASE f.lang = "python" -> IF f.parses THEN {Piece(PythonFindings(f.id, f.nodes), {})} ELSE {}
    [] f.lang = "pattern" -> {Piece(PatternFindings(f.id, f.text), {})}
    [] f.lang = "config" -> {Besides(f), Joined(Handled(f), Besides(f))}
    [] f.lang = "manifest" -> {ManifestPiece(f)}
    [] OTHER -> {}

(* Files, as the scanners' modules describe them; no two are the same.     *)
IsFile(f) ==
  CASE f.lang = "python" -> IsProgram(f.nodes)
    [] f.lang = "pattern" -> f.text \in Seq(Range(f.text))
    [] f.lang = "config" -> IsConfiguration(f)
    [] f.lang = "manifest" -> f.deps \in Seq(Range(f.deps))
    [] OTHER -> TRUE

IsTree(t) ==
  /\ t.all \in Seq(Range(t.all))
  /\ \A i, j \in DOMAIN t.all : t.all[i].id = t.all[j].id => i = j
  /\ \A f \in Range(t.all) : IsFile(f) /\ \A p \in Readings(f) : Range(p.assets) \subseteq Asset

(* What a store lists, as <<group, entry>>; an entry has a key, and no key *)
(* is listed twice.                                                        *)
Listing(s) == UNION {{g} \X DOMAIN s.groups[g] : g \in DOMAIN s.groups}
EntryAt(s, p) == s.groups[p[1]][p[2]]

IsStore(s) ==
  /\ s.kind \in {"aws", "azure", "gcp", "pkcs11", "file"}
  /\ s.groups \in Seq(Seq(Seq([id : KeyIds, spec : {"mapped", "other", NoSpec}, live : BOOLEAN])))
  /\ s.kind \in {"aws", "azure", "file"} => s.groups # <<>>
  /\ \A p \in Listing(s) : EntryAt(s, p) # <<>>
  /\ \A p, q \in Listing(s) : \A i \in DOMAIN EntryAt(s, p), j \in DOMAIN EntryAt(s, q) :
       EntryAt(s, p)[i].id = EntryAt(s, q)[j].id => p = q /\ i = j

ASSUME CollectAssumption ==
  \A j \in Jobs :
    /\ j.targets \in Seq(Range(j.targets))
    /\ j.kind = "scan" =>
         \A t \in Range(j.targets) :
           CASE t.scanner = "unknown" -> TRUE
             [] t.scanner = "cloud" -> IsStore(t.of)
             [] t.scanner \in {"ssh", "tls"} -> IsHost(t.of)
             [] t.scanner = "container" -> IsImage(t.of)
             [] t.scanner \in {"source", "config", "dependencies"} -> IsTree(t.of)
             [] OTHER -> IsResult(t.of)
    /\ j.kind # "scan" => \A t \in Range(j.targets) : ~t.local => IsSource(t.of)

VARIABLES
  cstep,          \* where the loop is
  job,
  pos,            \* the target it has come to
  scope,          \* targets the run says it looked at
  covered,        \* and the sources it says it covered
  taken_in,       \* targets whose result was taken into the report
  items,          \* <<target, key or algorithm>> that stores and hosts gave it
  errors,         \* <<target, what>> its errors name
  results         \* the survey's, or the upload's: [of, ok, lost]

rvars == <<cstep, job, pos, scope, covered, taken_in, items, errors, results>>
vars == <<ivars, kvars, evars, nvars, svars, pvars, rvars>>

CollectInit ==
  /\ IngestInit /\ KeyStoreInit /\ EndpointInit
  /\ ContainerInit /\ FilesInit /\ PipelineInit
  /\ cstep = "next" /\ job \in Jobs /\ pos = 1
  /\ scope = {} /\ covered = {} /\ taken_in = {}
  /\ items = {} /\ errors = {} /\ results = <<>>

Current == job.targets[pos]
More == cstep = "next" /\ pos \in DOMAIN job.targets

Advance == cstep' = "next" /\ pos' = pos + 1

-----------------------------------------------------------------------------
(* run_scan()                                                              *)
UnknownScanner ==
  /\ More /\ job.kind = "scan" /\ Current.scanner = "unknown"
  /\ errors' = errors \cup {<<pos, <<"unknown">>>>}
  /\ Advance
  /\ UNCHANGED <<job, scope, covered, taken_in, items, results, ivars, kvars, evars, nvars, svars, pvars>>

StartScan ==
  /\ More /\ job.kind = "scan" /\ Current.scanner # "unknown"
  /\ scope' = scope \cup {pos}
  /\ CASE Current.scanner = "cloud" ->
            cstep' = "walk" /\ BeginStore(Current.of) /\ UNCHANGED <<evars, nvars, svars>>
       [] Current.scanner \in {"ssh", "tls"} ->
            cstep' = "probe" /\ BeginHost(Current.of) /\ UNCHANGED <<kvars, nvars, svars>>
       [] Current.scanner = "container" ->
            cstep' = "image" /\ BeginImage(Current.of) /\ UNCHANGED <<kvars, evars, svars>>
       [] Current.scanner \in {"source", "config", "dependencies"} ->
            cstep' = "code" /\ BeginFiles(Current.of) /\ UNCHANGED <<kvars, evars, nvars>>
       [] OTHER ->
            cstep' = "files" /\ UNCHANGED <<kvars, evars, nvars, svars>>
  /\ UNCHANGED <<job, pos, covered, taken_in, items, errors, results, ivars, pvars>>

Walk == cstep = "walk" /\ KeyStoreNext /\ UNCHANGED <<rvars, ivars, evars, nvars, svars, pvars>>

Probe == cstep = "probe" /\ EndpointNext /\ UNCHANGED <<rvars, ivars, kvars, nvars, svars, pvars>>

Image == cstep = "image" /\ ContainerNext /\ UNCHANGED <<rvars, ivars, kvars, evars, svars, pvars>>

Code ==
  /\ cstep = "code"
  /\ WalkFiles \/ SourceStep \/ ConfigStep \/ ParseManifest
  /\ UNCHANGED <<rvars, ivars, kvars, evars, nvars, pvars>>

(* The links of the certificates a result has, as scan() makes them.       *)
Chain ==
  /\ cstep = "files" /\ LinkNext(Current.of.found)
  /\ UNCHANGED <<rvars, ivars, kvars, evars, nvars, svars, pstep, handled, said, raw, rels, mvars>>

(* combined.extend(result)                                                 *)
TakeResult(ids, faults) ==
  /\ items' = items \cup {<<pos, k>> : k \in ids}
  /\ errors' = errors \cup {<<pos, f>> : f \in faults}
  /\ covered' = covered \cup {Current.scanner}
  /\ taken_in' = taken_in \cup {pos}

(* What the scanner had found is gone with the exception.                  *)
Crashed ==
  /\ errors' = errors \cup {<<pos, <<"crash">>>>}
  /\ UNCHANGED <<items, covered, taken_in>>

(* Not the code: a scanner that blows up ends the run.                     *)
CrashEndsRun ==
  /\ cstep = "walk" /\ kstep \in {"done", "crashed"}
  /\ IF kstep = "done" THEN TakeResult(reported, named) /\ Advance
     ELSE Crashed /\ cstep' = "finished" /\ pos' = pos
  /\ UNCHANGED <<job, scope, results, ivars, evars, nvars, svars, pvars>>
  /\ KeyStoreReset

TakeStore ==
  /\ cstep = "walk" /\ kstep \in {"done", "crashed"}
  /\ IF kstep = "done" THEN TakeResult(reported, named) ELSE Crashed
  /\ Advance
  /\ UNCHANGED <<job, scope, results, ivars, evars, nvars, svars, pvars>>
  /\ KeyStoreReset

TakeHost ==
  /\ cstep = "probe" /\ estep \in {"done", "crashed"}
  /\ IF estep = "done"
     THEN TakeResult(found, IF failed THEN {Whole} ELSE {})
     ELSE Crashed
  /\ Advance
  /\ UNCHANGED <<job, scope, results, ivars, kvars, nvars, svars, pvars>>
  /\ EndpointReset

TakeImage ==
  /\ cstep = "image" /\ istep \in {"done", "crashed"}
  /\ IF istep = "done" THEN JoinResult(gathered) /\ TakeResult({}, noted) /\ UNCHANGED cvars
     ELSE Crashed /\ UNCHANGED pvars
  /\ Advance
  /\ UNCHANGED <<job, scope, results, ivars, kvars, evars, svars>>
  /\ ContainerReset

TakeCode ==
  /\ cstep = "code" /\ sstep \in {"done", "crashed"}
  /\ IF sstep = "done"
     THEN JoinResult([Nothing EXCEPT !.assets = sourced, !.links = related]) /\ TakeResult({}, unread) /\ UNCHANGED cvars
     ELSE Crashed /\ UNCHANGED pvars
  /\ Advance
  /\ UNCHANGED <<job, scope, results, ivars, kvars, evars, nvars>>
  /\ FilesReset

TakeFiles ==
  /\ cstep = "files" /\ chain = "linked"
  /\ \/ JoinResult(Current.of) /\ TakeResult({}, {})
     \/ Crashed /\ UNCHANGED <<raw, rels, said, pstep, handled, mvars>>
  /\ Advance /\ LinkReset
  /\ UNCHANGED <<job, scope, results, ivars, kvars, evars, nvars, svars>>

-----------------------------------------------------------------------------
(* survey.scan_one() and the server's upload: a tree that is there, or one *)
(* that is fetched.                                                        *)
StartTree ==
  /\ More /\ job.kind # "scan"
  /\ IF Current.local THEN cstep' = "tree" /\ UNCHANGED ivars
     ELSE cstep' = "fetch" /\ BeginIngest(Current.of)
  /\ UNCHANGED <<job, pos, scope, covered, taken_in, items, errors, results, kvars, evars, nvars, svars, pvars>>

Fetch == cstep = "fetch" /\ IngestNext /\ UNCHANGED <<rvars, kvars, evars, nvars, svars, pvars>>

Result(ok, lost) == results' = Append(results, [of |-> Current.of, ok |-> ok, lost |-> lost])

TakeTree ==
  /\ cstep = "fetch" /\ step \in {"ready", "refused", "abandoned"}
  /\ IF step = "ready" THEN cstep' = "tree" /\ UNCHANGED <<pos, results>>
     ELSE Result(FALSE, {}) /\ Advance
  /\ UNCHANGED <<job, scope, covered, taken_in, items, errors, ivars, kvars, evars, nvars, svars, pvars>>

(* Scanners that blow up are among the report's errors; _summarise() does  *)
(* not look at those, and the project counts as scanned.                   *)
ScanTree ==
  /\ cstep = "tree"
  /\ \/ \E lost \in SUBSET PathScanners : Result(TRUE, lost)
     \/ Result(FALSE, {})
  /\ Advance
  /\ UNCHANGED <<job, scope, covered, taken_in, items, errors, ivars, kvars, evars, nvars, svars, pvars>>

Finish ==
  /\ cstep = "next" /\ pos \notin DOMAIN job.targets
  /\ cstep' = IF job.kind = "scan" THEN "rest" ELSE "finished"
  /\ UNCHANGED <<job, pos, scope, covered, taken_in, items, errors, results, ivars, kvars, evars, nvars, svars, pvars>>

(* The rest of run_scan().                                                 *)
Rest ==
  /\ cstep = "rest"
  /\ IF pstep = "done" THEN cstep' = "finished" /\ UNCHANGED pvars
     ELSE cstep' = cstep /\ PipelineNext
  /\ UNCHANGED <<job, pos, scope, covered, taken_in, items, errors, results, ivars, kvars, evars, nvars, svars>>

Ended == cstep = "finished" /\ UNCHANGED vars

CollectNext ==
  \/ UnknownScanner \/ StartScan \/ Walk \/ Probe \/ Image \/ Code \/ Chain
  \/ TakeStore \/ TakeHost \/ TakeImage \/ TakeCode \/ TakeFiles
  \/ StartTree \/ Fetch \/ TakeTree \/ ScanTree \/ Finish \/ Rest \/ Ended

CollectSpec == CollectInit /\ [][CollectNext]_vars

(* One thread runs it, and every call it makes returns or times out.       *)
FairCollectSpec == CollectSpec /\ WF_vars(CollectNext)

-----------------------------------------------------------------------------
Finished == cstep = "finished"

(* The shape of the loop's state, and that a machine below it runs only    *)
(* while the loop is inside it and is put away afterwards.                 *)
CollectTypeOK ==
  /\ cstep \in {"next", "walk", "probe", "image", "code", "files", "fetch", "tree", "rest", "finished"}
  /\ pos \in 1..(Len(job.targets) + 1)
  /\ {scope, taken_in} \subseteq SUBSET DOMAIN job.targets
  /\ (kstep # "idle") = (cstep = "walk")
  /\ (estep # "idle") = (cstep = "probe")
  /\ (istep # "idle") = (cstep = "image")
  /\ (sstep # "idle") = (cstep = "code") /\ fpos \in 1..(Len(files.all) + 1)
  /\ step \notin {"idle", "ready", "refused", "abandoned"} => cstep = "fetch"
  /\ Len(buffer) <= taken /\ reported \subseteq KeyIds
  /\ InventoryTypeOK /\ pstep \in {"scan", "attribute", "merge", "count", "done"}
  /\ {root} \cup queue \cup seen \cup todo \subseteq kept \cup {Absent}
  /\ budget \in 0..MaxTotal /\ left \in Nat /\ got \in 0..MaxMember

(* cloud.py:152-622, engine.py:252-269: at the end of a run, every key of  *)
(* every store it was given is an asset of the report, or an error names   *)
(* it, the group it is in or the whole target, or it is one of those the   *)
(* scanner leaves out on purpose.  Nothing is in the report and in its     *)
(* errors, and nothing is there of a scanner that blew up.                 *)
EveryKeyAccounted ==
  Finished =>
    \A i \in {j \in DOMAIN job.targets : job.kind = "scan" /\ job.targets[j].scanner = "cloud"} :
      LET s == job.targets[i].of
          Named(what) == <<i, what>> \in errors
      IN
      \A g \in DOMAIN s.groups : \A e \in DOMAIN s.groups[g] : \A j \in DOMAIN s.groups[g][e] :
        LET k == s.groups[g][e][j]
            Has == <<i, k.id>> \in items
            Entry1 == <<"key", s.groups[g][e][1].id>>
            LeftOut == \/ ~IsAsset(s.kind, k)
                       \/ s.kind = "pkcs11" /\ s.slot \notin {AnySlot, g}
        IN
        /\ \/ Has \/ LeftOut
           \/ Named(Whole) \/ Named(<<"group", g>>) \/ Named(Entry1) \/ Named(<<"crash">>)
        /\ Has => ~(LeftOut \/ Named(<<"group", g>>) \/ Named(Entry1) \/ Named(<<"crash">>))

(* cloud.py:175-184, ssh.py:208-214, tls.py:45-51, ingest.py:304-320: no   *)
(* key store or endpoint is connected to, and no repository cloned, that   *)
(* the policy or the list of hosts does not allow, whichever of these a    *)
(* run comes to and whatever came before.  The exception is an image that  *)
(* is named: syft and docker are sent for it (container.py:73, 104) and    *)
(* the policy is not asked.  For a directory or a saved image they are not.*)
OnlyAllowedContacted ==
  /\ contacted => store.allowed /\ store.wellNamed
  /\ probed => host.allowed /\ host.wellNamed
  /\ step \in {"clone", "measure"} /\ src.form = "repo" => src.allowed
  /\ fetched => image.form = "name"

(* engine.py:252-269, cli.py:580-589, survey.py:144-179: a run looks at    *)
(* every target it knows a scanner for, each ends up in the report or is   *)
(* named, a source is covered exactly if one of its targets produced a     *)
(* result, and a survey has one result for each project, in their order.   *)
EveryTargetReported ==
  Finished =>
    IF job.kind = "scan"
    THEN \A i \in DOMAIN job.targets :
           LET name == job.targets[i].scanner IN
           IF name = "unknown" THEN <<i, <<"unknown">>>> \in errors /\ i \notin scope
           ELSE /\ i \in scope
                /\ (i \in taken_in) # (<<i, <<"crash">>>> \in errors)
                /\ name \in covered <=> \E j \in taken_in : job.targets[j].scanner = name
    ELSE /\ Len(results) = Len(job.targets)
         /\ \A i \in DOMAIN results : results[i].of = job.targets[i].of

(* "two different CAs with the same distinguished name" (certificates.py:  *)
(* 136-138): a certificate that names an issuing key on disk is not linked *)
(* to a certificate of another key, unless a certificate with the same     *)
(* fingerprint was.                                                        *)
KeyIdDecides ==
  \A l \in links :
    LET certs == Current.of.found IN
    \E i, j \in DOMAIN certs :
      /\ certs[i].print = l[1] /\ certs[j].print = l[2]
      /\ ~SelfSigned(certs[i])
      /\ IF \E k \in DOMAIN certs : certs[k].ski = certs[i].aki /\ certs[i].aki # Absent
         THEN certs[j].ski = certs[i].aki
         ELSE certs[j].subject = certs[i].issuer

(* Every job ends: the banner and packet loops, the walk of a store, the   *)
(* extraction, and the worklist of the radius, cycles included.            *)
EveryJobEnds == <>Finished
=============================================================================
