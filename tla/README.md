# CBOM Compass: models and proofs

CBOM Compass finds the cryptography of a code base, an image, an endpoint or a
key store, rates how soon each use of it has to be replaced, advises what to
replace it with, stores the result, serves it to a web page and exports it, and
fails pull requests that make things worse. This directory holds TLA+ models of
its core (`src/cbom_compass/`), the TLC configurations that check them, and
proofs, for every value of the constants, of all the safety properties that hold
in them.

Paths below are relative to `src/cbom_compass/` unless they begin with another
directory of the repository.

## 1. The system

```
 browser ──HTTP──> api.py ──────────┐            cli.py (scan, gate, export, ...)
                    │               │              │
          ingest.py (workspace of extracted trees) │
                    │               v              v
                    │        engine.run_scan: scanners/* -> inventory.merge
                    │               -> certificates.blast_radius
                    │               -> risk.classify_all -> recommend_all
                    v               │
               store.py (SQLite) <──┘──> cbom.py, report_pdf.py, verify.py
```

| component | state it keeps | operations | what it calls, shares, is called by |
|---|---|---|---|
| **store** `store.py` | `scans` and `audit` tables in one SQLite file; one connection and one `RLock` per process | `save` (two commits), `latest`, `previous`, `get`, `list_scans`, `audit`, `audit_log` | shared by the server's worker threads, and by commands in other processes |
| **scan server** `api.py` | the live `Policy` in `state["policy"]`, shared and mutable | scan paths, an upload, a repository; read, rescore and export a report; change settings; graph, heat map, drift | FastAPI runs `def` handlers in a thread pool, and `async def post_scan_upload` on the event loop itself |
| **workspace** `ingest.py` | a directory of trees, dated by modification time | make and fill a tree, `prune_workspace`, refuse archives over budget | every server scan of a tree prunes everyone's; commands fill it too |
| **scan pipeline** `engine.py` | none | `run_scan`, `attribute_providers`, `diff`, KPIs, heat map | isolates each scanner's exceptions as errors of the report |
| **inventory** `inventory.py`, identity in `models.py` | none (a merge of lists) | `merge` | between scanners and rating |
| **certificate chains** `scanners/certificates.py`, `x509.py` | none | `link_chain`, `blast_radius` | relationships pass through the inventory between the two |
| **rating** `risk.py`, `policy.py`, `knowledge/` | none; reads the settings and `date.today()` | `classify`, `classify_asset`, `find_hybrid_partners`, Mosca's X, Y, Z | called per asset, by scans, rescorings and exports |
| **recommendations** `recommend.py` | none | `recommend_asset` | a second decision tree over the same status |
| **crypto gate** `cli.py cmd_gate`, `action.yml` | none between runs; git holds the history | scan the change, scan the baseline, compare counts | runs in CI; the host merges what exits 0 |
| **command line** `cli.py` | its own process, policy and connection | scan, export, diff, gate, validate, verify, eval, demo, survey, serve | opens the server's SQLite file beside it |
| **verification** `verify.py` | none | re-read the evidence of a stored scan on disk | needs the trees the workspace still has |
| **evaluation**, **survey** `evaluate.py`, `survey.py` | none | precision and recall over a corpus; a scan per project | loops over scanners and `run_scan` |
| **documents** `cbom.py`, `report_pdf.py` | none | CycloneDX build and validate; PDF | pure |
| **source scanner** `scanners/source.py` | none | `scan(target)`: Python by its syntax tree, other languages by patterns outside comments | what it finds is merged with what the others find |
| **endpoint scanners** `scanners/ssh.py`, `tls.py` | a socket and what was read from it | greet, read a banner and a packet; shake hands | ask the policy's allowlist first |
| **key stores** `scanners/cloud.py`, `pkcs11.py` | a provider's client, a session on a token | list groups, entries and keys, each call of which may fail | ask the allowlist first |
| **container scanner** `scanners/container.py` | an unpacked image | catalogue by syft, save by docker, unpack, walk the tree | runs the dependency and binary scanners on the tree, and relocates what they find |
| **configuration scanner** `scanners/config.py` | none | `scan(target)`: what SSH, IPsec, OpenVPN, web server and S/MIME configurations permit | reads SSH names by the endpoint scanner's tables |
| **dependency scanner** `scanners/dependencies.py` | none | `scan(target)`: the libraries of a manifest and what each exposes | the container scanner runs it on an image |
| **binary scanner** `scanners/binary.py` | none | `scan(target)`: imports and version strings | the container scanner runs it on an image |

**What is hard here.** Threads share a connection, a lock and a mutable policy
object. `save` commits twice. A handler that scans inside the event loop stops
the dispatch of all others. A settings request changes fields one at a time and
can raise half-way. Trees are pruned by requests that did not make them.
Processes crash and are interrupted between steps, and the live settings die
with the process. Ids of findings are rewritten by relocating and merging while
relationships still carry the old ones. Every call to a provider, a server, a
tool or the file system may fail in the middle of a walk, and what was not looked
at has to be said. A stream arrives in pieces of any size. An archive is charged
to its budgets while it is being written out. What a line of source means hangs
on imports, constants and comments far from it. Ratings depend on the year in which they are computed
and on which of three settings objects is at hand. The gate compares two scans
of two populations, each of which may fail in part. `PROJECT.json` lists each
of these hazards at its line, with the properties that would catch it.

**What makes each component correct.**

- Store: the lock is held exactly by who is inside; nothing recorded is lost or
  recorded twice; an unlogged scan is accounted for; the current scan never
  goes back in time; every call returns.
- Server: what was answered is durable; every request is answered; the
  workspace is bounded, and a tree is removed only after so many others were made,
  filled or begun to be removed as the workspace keeps, however prunes overlap.
- Workspace: what is admitted is within the limits and holds no link, what
  is refused leaves nothing behind, and a clone whose check raises is not admitted.
- Scanners: no key store, endpoint or repository is contacted that the policy does
  not allow; every key, endpoint and file, and what an image unpacks to, is reported
  or named by an error, never both in part;
  a commented match is not reported and a live one is; a name stands for what it
  is bound to.
- Pipeline: one scanner's failure costs only its own target; each call site
  leads to a row of its library; every job ends.
- Inventory: no evidence lost or invented, no key size lost, no call site moved,
  relationships follow their findings.
- Documents: whatever is filtered out, every reference has its component.
- Chains: a radius is reachability, cycles included; a key id outranks a name.
- Rating and advice: time only presses; where a pairing is declared, a bare row
  stays exposed; score and advice agree; following advice ends it; an export never
  looks better.
- Gate: the debt of the main branch does not grow; a refactor passes; a failure
  names what is new.

## 2. The modules

| module | models | extends / instantiates |
|---|---|---|
| `Ledger` | what the store promises: two growing tables, each scan recorded once and logged at most once, afterwards | |
| `Store` | `store.py`, statement by statement | `Ledger` |
| `StoreProofs` | theorems about `Store` | `Store` |
| `ScanServer` | `api.py`, with the workspace of `ingest.py`, `run_scan` step by step, and commands beside the server | `Ledger` (instance, by a refinement mapping) |
| `ServerProofs` | theorems about `ScanServer` | `ScanServer` |
| `Admission` | what a tree admitted from outside promises the scanners | |
| `Ingest` | `ingest.py`: extraction chunk by chunk, the clone, the measuring | `Admission` (instance, by a refinement mapping) |
| `Findings` | an asset and its identity, `models.py` | |
| `FileWalk` | what the scanners of files share: listing, one file after another, a file that fails | `Findings` |
| `Source` | `scanners/source.py`: what a file of source shows | `FileWalk` |
| `SSHNames` | what the name of an SSH algorithm stands for | `Findings` |
| `Config` | `scanners/config.py`: what a configuration file permits | `FileWalk`, `SSHNames` |
| `Manifest` | `scanners/dependencies.py`: what a manifest names and exposes | `FileWalk` |
| `KeyStore` | the walks of `cloud.py` and `pkcs11.py`, call by call | |
| `Endpoint` | `ssh.py` on a stream in pieces, and the outcome of `tls.py` | `SSHNames` |
| `Container` | `container.py`, tool by tool | |
| `Inventory` | `inventory.merge` | `Findings` |
| `CertChain` | `link_chain`, `blast_radius` | |
| `Pipeline` | `run_scan` behind its scanners: results joined, call sites attributed, merged, counted, and the document built of it | `Inventory`, `CertChain` |
| `Collect` | `run_scan`'s loop over targets, the survey's over projects and an upload's one tree: the composition of all of the above | `Ingest`, `KeyStore`, `Endpoint`, `Container`, `Source`, `Config`, `Manifest`, `Pipeline` |
| `FetchProofs` | that each step of `Ingest` is one of `Admission`, and lemmas about `Endpoint` | `Ingest`, `Endpoint` |
| `FileProofs` | lemmas about sequences, and about `FileWalk`, `Source`, `Config` and `Manifest` | `Source`, `Config`, `Manifest` |
| `PipelineProofs` | lemmas about `Inventory` and `Pipeline` | `Pipeline` |
| `CollectProofs` | theorems about `Collect` and the machines below its loop | `Collect`, `FetchProofs`, `FileProofs`, `PipelineProofs` |
| `Rating` | `classify`, X, Y, urgency, hybrids, score, `recommend_asset`: operators only | |
| `Reports` | the scans, settings, years, rescorings and exports that rate | `Rating` |
| `ReportsProofs` | theorems about `Rating` and `Reports` | `Reports` |
| `Gate` | `cmd_gate`, `action.yml`, and a repository whose branches merge through it | |
| `GateProofs` | theorems about `Gate` | `Gate` |
| `MC*` | the instances TLC checks | the module named |

Definitions marked "Not the code" are plausible bugs of the definition that
follows them (a dropped lock, a sort the wrong way round). They are used by no
specification; replacing the definition by the bug must violate the property
that `PROJECT.json` names under "mutants", which shows that the property depends
on that code.

### Store

`lock[p]` is the `RLock` of process p: owner and depth. `call[t]` says where a
thread is in `save` or `audit`; a statement and its commit are one step, because
SQLite serialises write transactions. `save` is `CallSave`, `LockSave`,
`InsertScan` (first commit), `LockScanAudit` (re-enters the lock and takes the
timestamp), `InsertScanAudit` (second commit), `Release`. `audit` from outside is
`CallAudit`, `LockAudit`, `InsertAudit`, `Release`. `Raise` is a statement that
fails: the exception leaves the `with` blocks. `Crash` ends a process: its lock
and calls vanish, the file stays. `BeginScan` is the moment `run_scan` stamps
`started_at`; scans therefore overlap and are saved in any order. `Latest` is
`latest()` with its `ORDER BY started_at DESC, rowid DESC`. Reads are not steps:
they take the lock and change nothing.

### ScanServer

`req[r]` is a request or a command: its kind and step, what it has scanned and
rated, and what its caller is told. `loop` is the request holding the event loop
(only uploads do). `policy` is the live settings object, `present` and `mtime`
the workspace. A scan reads the live settings once per asset (`RateAsset`) and
once more when the document is rendered (`Render`): other requests step in
between. `prune_workspace` is as many steps as it has moments at which the others
can act: `ListTrees` reads the directory, `DateRaises` and `RankTrees` date the
trees listed (each with the date of the listing or the one it has now, while those
that another prune removed are dated, passed over by `is_dir()`, or make `stat()` raise)
and rank them, `TakeApart` and `DropTree` empty a stale tree and remove its directory,
whatever has happened to it since, and `EndPrune` answers. `made` and `mtime` date each
tree's making and last change, `cut` are the trees that a prune has begun to take
apart; a scanner that runs on one of them may miss files. `IngestRaises` is a clone
whose check raises: its tree stays. `ApplySetting` takes one field at a time, in code order; a value may be
one whose conversion raises (`Malformed`) or one that is accepted and makes
rating raise later (`Unusable`, e.g. `urgency_scale` 0). `RecordScan` and
`LogScan` are the two commits of `save`; `StoreFree` is the lock that the server's
threads share (each command has a store and a lock of its own), which `Store` models
in full. `CrashServer` and `Interrupt` lose what was in flight.

The refinement: a scan row with its times left out is a `Ledger` row, and the
entries of the audit table are the `Ledger`'s, so `StoreIsALedger` says that the
server's requests and commands together keep the promise `Store` keeps for the
threads inside it.

### Collect, and the machines below it

A *job* is a list of targets. `StartScan` hands the current one to the machine of
its scanner (`BeginStore`, `BeginHost`, `BeginImage`, `BeginFiles`), the machine
takes its steps (`Walk`, `Probe`, `Image`, `Code`, `Chain`), and `TakeStore` ...
`TakeFiles` take its result (`combined.extend`) or, when it blew up, only an
error. `StartTree`, `Fetch`, `TakeTree`, `ScanTree` are the survey and the upload.
`Finish` and `Rest` hand over to `Pipeline`. What the binary scanner and the parsing
of certificates find is an input: a job gives their result, which `TakeFiles` takes
or loses whole.

- `Ingest`: `WriteChunk` is one turn of the copy loop, charged to the file and to
  the tree before it is written; every other step of an upload may end in `Fail`,
  which removes the tree. A clone is removed where `ingest_repo` does so: git failing,
  timing out or missing (`Clone`), and a checkout that is empty or too large
  (`Measure`). Any other exception (`CloneRaises`) goes past it and leaves what is on
  disk by then: the step is "abandoned". `tree` is what is on disk, and the refinement mapping to
  `Admission` is that variable with the step's name.
- `KeyStore`: `store.groups` is what the provider holds, `listed` the entries
  listed and not yet handled. Each call is a step with a failing alternative:
  a page (`ListFails`), a ring or slot (`GroupFails`), a key (`EntryFails`), a
  token's objects (`ReadObjects`), and what is raised outside every `try`
  (`WalkRaises`).
- `Endpoint`: `taken` counts the tokens received, `buffer` is what `recv`
  returned and was not yet used, `cut` is where the server stops. `RecvBanner`,
  `RecvHeader` and `RecvBody` receive any positive number of tokens up to what
  was asked for. `PeerSilent` is the close, the reset and the time-out alike.
- `Container`: with or without syft and docker; `fetched` records that one of them was
  sent for the image. `Unpack` leaves out any of the nested layers
  (`dropped`), as `except Exception: continue` does; `WalkTree` gathers what the tree's
  scanners find in the rest, marked as relocated, or names the tree. What is raised
  outside every `try` ends the target ("crashed").
- `FileWalk`: `fpos` is the file the walk has come to, `sourced` and `related` what
  it has found, `unread` the files its errors name. One step per file; `TakeFile`
  names it or takes all it shows.
- `Source`: a Python file is a sequence of imports, assignments and calls, in the
  order of the lines and walked in the order of `ast.walk`; a file of another
  language is a sequence of the characters that matter to comments, and of matches.
  `FamilyArgument` is `detect_pqc` of the first string among a call's arguments: a
  string that is no family leaves the one of the name. `EndsWith` is `str.endswith`,
  which does not ask for a dot before the key.
- `Config`: a file is a sequence of lines, each a directive with the names it lists
  and those of a comment behind it. `Handled` is the handler of the file's kind,
  `Besides` the search for S/MIME that follows it in every other kind; `UnreadConfig`,
  `LargeConfig`, `ScanConfig` and `HandlerFails` are the ways through the loop's body,
  of which the last names the file and still looks for S/MIME. The relationships to
  the protocol go through `Pipeline` with the findings.
- `Manifest`: `RowsOf` are the rows of the knowledge base whose key is in a
  dependency's name, of which the first decides.
- `Pipeline`: `JoinResult` is `ScanResult.extend`, `Attribute` one provider of
  `attribute_providers`, with names compared in lower case (`Lower`); `Relocated` is what the container scanner does to its
  findings after their relationships were made.

### Inventory

`merge` is a loop with two passes; `nth` is its position, `rows` and `order` the
dictionary and its insertion order, `remap` from finding ids to rows. An asset
keeps what identity and absorption distinguish: algorithm, size, parameters,
library, place (location class with location), fingerprint, and its evidence as
a set of observations.

### CertChain

`IndexCertificate` fills the two dictionaries with `setdefault`,
`LinkCertificate` links through the key id when the certificate names one that
is indexed and through the name otherwise, and `StartRadius`, `Pop`, `EndRadius`
are the worklist for each asset.

### Rating and Reports

`Rating` is the arithmetic of the score in integers (twentieths of a year,
thousandths, tenths: every value of the tables is exact), and the tables of the
knowledge base for the algorithms it names. `ParameterSet`, `Advice` and
`Replacement` are `recommend_asset`'s rules in their order. `Reports` adds the
history: what the policy file says, what the live settings are, the year, the
newest stored document and the last response made from it. A document is kept as
its assets, the settings it was rated with and the year, because rows are a
function of these three. `exchange` says of an asset which key exchange of the
program it is part of: the code does not have it, and what is said of hybrids is
measured by it (`InHybrid`). What is not RSA, DSA or DH is judged as a curve, so
`Curves` holds ElGamal and ECIES too. `ReportFor` is the rescoring (`api.py:131-184`), which
reads the policy *file* again and takes only the regime from the live settings;
`Export` filters and then rates what is left, with the file's settings.

### Gate

A revision gives each file nothing or one algorithm; a finding is a file with an
algorithm. `Compare` is the run of `cmd_gate` with a baseline, `ReportOnly` and
`BadBaseline` the runs without one; `blind` is a file whose scanner crashed.
`CurrentFiles` is what `_materialise_tracked` stages (everything, ignored files
too, beyond `MaxGateFiles`), `BaselineFiles` what `_scan_git_ref`, or the
action's base scan, covers. The gate runs at the root of the repository, as the
action and the pre-commit hook run it: from elsewhere `_materialise_tracked` copies
paths of the current directory while `_repo_relative` maps them to the root's, and
the two populations are not those of the model. The repository around it (branches, commits, moves,
updates, merges) is external; `Merge` requires a passing run on the branch's
current tree and a branch that is up to date, as a protected branch does.

## 3. The runs

| run | asks | instance | result |
|---|---|---|---|
| `store_shared` | `TypeOK`, `LockDiscipline`, `UnloggedAccounted`, `CurrentNeverGoesBack`, and that the store implements `LedgerSpec` | two server threads and a command's thread, two scans, one outside entry, two faults, clock 0..1 | holds |
| `store_server` | `AuditInTimeOrder` within one process, `EveryCallReturns` | two server threads, clock 0..2, two entries, one fault | holds |
| `server_main` | `AnsweredIsDurable`, `StoreIsALedger`, `EveryRequestAnswered` | two requests of every kind, four settings bodies, scans of one scanner and two assets, keep 1, two crashes | holds |
| `server_prune` | `RetentionBounded`, `LostOnlyWhenOvertaken` | three clones, by requests and commands, keep 2, one crash | holds |
| `server_stale` | `KeepsMostRecent` | two scans of trees, keep 1, nothing crashing | **violated** |
| `server_torn` | `ScoresUseHeaderZ` | a scan of two assets and a change of Z | **violated** |
| `server_halfway` | `SettingsChangesLogged` | a body whose second field does not convert | **violated** |
| `scan` | `EveryKeyAccounted`, `EndpointAccounted`, `ImageAccounted`, `SourceAccounted`, `ConfigAccounted`, `EveryTargetReported`, `OnlyAllowedContacted`, `TreesAreSafe`, `EvidenceAccounted`, `AbsorptionKeepsSizeAndPlace`, `EdgesFollowFindings`, `ProvidersLinked`, `DocumentValid`, `RadiusIsReach`, `KeyIdDecides`, `EveryJobEnds` | some 15,000 jobs over the small worlds listed below, every call that may fail failing or not | holds |
| `exposures` | `ExposuresListed` | two manifests, one of a library that bears the name of its algorithm | **violated** |
| `reports_rating` | `BareStaysExposed`, `ScoreAndAdviceAgree`, `AdviceIsFinal`, `ExportNeverLower`, `TimeOnlyPresses`, `PinnedHolds` | nine inventories of up to three assets, two policy files, two settings bodies, Z in 2030, 2035, 2045, years 2026, 2031, 2036, two filters | holds |
| `gate` | `HoldsTheLine`, `RefactorsPass`, `FailureNamesFindings` | two gated files, one beside them, one that git ignores; two branches, one commit each between updates, two merges, one crash or missing baseline | holds |
| `gate_action` | `NewBrokenFails` | the same in the action's mode, with nothing failing | **violated** |

The type invariants (`TypeOK`, `CollectTypeOK`) are checked with the main run of
their component; `Reports`, whose variables are assigned from their sets, has none.

**Why the bounds suffice.** Store: the two commits of one `save` can interleave
with another `save` or `audit` of the same process (two threads) and of another
(a third thread); two faults allow one crash between the commits and a second
fault in the recovery; two scans are needed to invert the order of starting and
saving, and the theorems below hold for any number. Server: retention 2 with
three trees (`server_prune`) is the least instance in which a prune removes something while
another scan is running, and three prunes can overlap in it; its scans run no scanner
and rate nothing, since no more than a tree's date depends on them, and an upload prunes
as a clone does but alone. For the store, the settings and the event loop two requests
are enough (`server_main`): one between the steps of the other, with a crash in each or
between them, and the theorems hold for any number. (Each instance is explored
completely: 4.5 million states of `server_prune`, 0.6 million of `scan`, 0.14 million of
`reports_rating`, 0.1 million of `server_main`.) Four bodies
cover each way a field may end. Inventory: three findings, since
absorption involves an unsized row and a sized one, and a third finding decides
which of two sized ones it is. Chains: walks of up to three files with every choice of
two key ids and two names; of three different certificates the third is known by
its name only and the first by its key, which keeps every shape up to a cycle of
three; a radius relates at most the ends and one in between. Rating: each inventory holds one way of being paired or one rule of
the two decision trees, and the years lie before, between and after the two
deadlines of the knowledge base. Gate: one file grows while another shrinks, one
is moved into the other, and the ignored and outside files are the two ways in
which the populations may differ.

The worlds of `scan`, one job each: stores of up to two groups of two entries,
of every kind of key, at each of the five providers (the second page, ring, slot
or key is the one whose failure may take the first along); SSH servers with up
to `MaxLines` lines before the banner, packets of up to `MaxPacket` tokens and a
cut at every token, padding up to more than the packet holds, received in pieces of
up to `RecvSize`; TLS endpoints;
archives of up to three of nine members with `MaxEntries` 2, `MaxMember` 3,
`MaxTotal` 5 and reads of `Chunk` 2, so that each limit is reached exactly and
exceeded by one, in the middle of a member and at its end; clones; surveys of two
projects; Python programs of up to two of ten bindings and a call, or one binding
and two calls; configurations of up to two lines, of every kind of file, with lists that
add and remove, proposals with and without a key encapsulation on one line, versions
and suites that are disabled, and mail among them; manifests of up to two
dependencies; texts of up to four of the six characters that open, close and
escape, before a match, which is enough for every pair of an opener inside
another's scope with its closer, and pairs of matches up to two lines apart;
findings, up to three, of libraries, call sites and certificates; images with
and without each tool; and pairs of all these targets in one run, which is where
one target's failure could cost another, and where call sites of one meet the
libraries of another.

The counters that the code does not bound are bounded by `MaxClock`,
`MaxEntries`, `MaxFaults` (Store), `MaxCrashes` (ScanServer), `MaxEdits`,
`MaxMerges`, `MaxFlaws` (Gate), in the guard of the action that increments them.
Deadlock is not checked where these bounds, or the end of the algorithm, stop
the model.

**Fairness.** `Store!FairSpec` and `ScanServer!FairSpec` assume weak fairness of
each thread's or request's next step: the operating system schedules threads,
and `RLock` and SQLite hand the lock to a waiter once it is free. A thread
waiting for a lock may be overtaken, but only by calls that begin anew, and the
models (as a server that is not flooded) make finitely many. Arrivals, crashes
and raised statements are not fair: nothing promises they happen.
`Collect!FairCollectSpec` is weak fairness of its one next-state action: a single
thread runs a job, and every call it makes returns, raises or times out (socket,
git, docker and syft calls have time-outs; a provider's SDK has its own). Which of
these happens is not fair, so `EveryJobEnds` holds however often a peer sends one
byte and falls silent.

## 4. Where code and words disagree

Checked by the violation runs:

1. `server_torn`: a Z change between the rating of two assets leaves stored
   scores of another Z than the document names, and `report_for` cannot notice.
2. `server_halfway`: a settings body that fails half-way has changed the live
   settings, and nothing is in the audit log.
3. `gate_action`: the action compares `inputs.path` with the whole base
   revision, which `cli.py:249` calls a coin toss.
4. `server_stale`: "Drop all but the `keep` most recent trees" (`ingest.py:105`) is
   decided by dates that are read once. A tree that is still being filled when
   another request's prune dates it, and is scanned by the time its turn comes, is
   removed from under its scan although it is the most recent one. The scanners
   record an error and go on. `LostOnlyWhenOvertaken` is what does hold.
5. `exposures`: the merge keys library-backed findings by upper-cased name,
   size, parameters and library, without their type, so `rsa==4.9` in a
   requirements file and the RSA it exposes are one row: the library row, rated
   "not applicable", of which `risk.py:117-122` says that its risk is carried by
   the algorithms it exposes, "listed as separate assets".

Noticed, and not run:

- The container scanner asks no allowlist: `syft` (`container.py:104`) and `docker save`
  (`:73`) fetch an image from whatever registry its name gives, while of targets probed
  live `docs/cbom-compass-prd.md:330` says that "non-allowlisted targets are refused, not
  warned". `OnlyAllowedContacted` states the exception.
- A layer that does not extract is passed over (`container.py:98-99`), and nothing names
  it. `ImageAccounted` speaks of the tree as it was unpacked.
- In a module where no scanner declared a pairing, any post-quantum row of the right role
  discounts the classical ones: a file that calls X25519 in one exchange and ML-KEM in
  another has its X25519 rated as half of a hybrid, though pairing like with like is said
  to keep this "from firing on a module that merely mentions both" (`risk.py:262`).
  `BareStaysExposed` is about the other modules.
- An endpoint offering TLS 1.0 is told to move to AES-256-GCM, since the rule for
  deprecated algorithms precedes the one for protocols, whose advice for that case is
  written at `recommend.py:138`. `AdviceIsFinal` leaves out ciphers advised for protocols.
- `prune_workspace` may also remove the tree of a scan still running when `keep`
  others have come since; and of prunes that overlap, one may find a tree gone that it
  has listed, so that `stat()` raises and a scan that is already stored is answered
  with an error.
- An exception while a clone is stripped and measured (`ingest.py:381-383`), or one of
  `subprocess.run` that is neither `FileNotFoundError` nor `TimeoutExpired`, goes past
  `ingest_repo` and leaves its tree.
- `put_policy` takes an `urgency_scale` of 0 and weights that are no numbers, on which
  every later scan raises; and the settings it changes are gone with the process.
- `save` and `audit` never roll back: if `commit()` itself raises and leaves the
  transaction open, the next call's commit takes the row along (`store.py:72-78`).
- `previous()` orders by rowid and `latest()` by start time; for overlapping
  scans drift can look forward. `audit_log` lacks the rowid tie-break that
  `store.py:49` speaks of.
- `README.md:182-184` says that moving Z does not change an RSA score. It does
  when Z moves nearer than the deadline. `PinnedHolds` is the half that holds.
- Under CNSA 2.0, ML-KEM-768, Camellia and TLS 1.2 rows score and are advised
  "no change" (`recommend.py:97-102`, 131), which `ScoreAndAdviceAgree` excepts
  (`Spared`); MD5 is advised to SHA-256, which the regime does not allow, which
  `AdviceIsFinal` excepts.
- An unknown algorithm is advised as if it were Shor-broken
  (`recommend.py:181-195`), though it is rated 0.2.
- Source: a name bound again to something that does not fold
  (`ALG = "md5"`, then `ALG = config["alg"]`), or shadowed by a parameter, is
  still read as the earlier constant, of which `source.py:661` says that it
  "cannot change". Imports are file-wide, so of two functions that import one
  name differently the last decides both. A mode called within two lines
  overrides the mode that a call itself states. The first argument that is a
  constant of the module, if an integer, drops a `hashlib.new(...)` altogether.
  `SourceAccounted` therefore speaks of files that bind no name twice.
- Source: constants are folded where a size or the name of an algorithm is asked for and
  nowhere else, so a call does not always show what it would with its names written out.
  `generate(BITS)` shows no size where `generate(2048)` does, if the table gives the size
  no position; in `hashlib.new(ALG, "SHA-1")` the literal behind a constant is taken for
  the algorithm; a family in a constant is not seen; and a call through
  `getattr(hashlib, "new")` reads the arguments of the `getattr` as those of the function,
  so that the algorithm is "new". `ReadAsWritten` lists these cases, and
  `SourceAccounted` says nothing of the algorithm and size of such calls: only that what
  is reported at a line has a call on it.
- Configuration: a suite taken out by `-` is reported as configured, though one
  excluded by `!` is not (`config.py:437-438`) and a version taken out by `-` is not
  (`config.py:413-415`). A comment behind an IPsec, `ssl_protocols` or `ssl_ciphers`
  directive is read as part of it, unlike one behind an SSH or OpenVPN directive.
  `ConfigAccounted` speaks of files with neither. `config.py:260` says that S/MIME
  markers can appear "in source too", but a file that is no configuration is left
  before they are looked for. `openssl smime -des` is reported as 3DES. A file over
  2 MiB is passed over and no error names it.
- Dependencies: the first row in the table's order whose key is in the name decides,
  so `pyopenssl` is taken for `openssl`, whose row comes first, and any name with `rsa`
  in it (`universal-cookie`) for the library `rsa`.
- `#` opens a comment in every C-family language, so a JavaScript private field
  or a Rust attribute hides what follows on its line; template strings are not
  strings to it. A bare call on the line beside a sized one of its algorithm is
  subsumed though it is another call.
- Endpoints: what arrives behind the banner in one `recv` is dropped
  (`ssh.py:255`), so a server that sends its packet unasked may be named as
  failed. Ciphers and MACs are read for one direction only, though `ssh.py:15-16`
  speaks of the complete accepted set. A port that is not a number makes the TLS
  scanner raise.
- Key stores: objects of one type and size without a label merge into one row;
  a target that was refused counts as covered. `cloud.py:466` puts the curve
  first and the code the size.
- Containers: syft failing without output is not named. A certificate baked into an image is
  fingerprinted as a file, so it is never one with the certificate scanner's.
- Certificates are linked within one target only. Of two versions of a library,
  a call site is linked to the first (`engine.py:203-205` reads otherwise).
- Survey: a project in which every scanner crashed counts as scanned
  (`survey.py:147-151`), and the report names no failed project when none could
  be scanned (`survey.py:194-197`).
- Verification: an unchanged tree gives "unconfirmed" for library rows found by
  version strings or in containers (`verify.py:174-189`), and for rows a manifest
  and a binary share, where `src/tests/test_verify.py:34` expects none. It matches
  a finding's own line, so values folded from a constant elsewhere are not found.
- The `export` command writes JSON whatever `--format` says, and logs the format
  it was given (`cli.py:169-170`).
- An export takes the regime and weights from the policy file, a rescoring only
  the regime from the live settings, and a scan all of them from the live ones.
- The gate sums its counts over the statuses, so MD5 replaced by RSA passes,
  with "adds no quantum-broken cryptography" printed (`cli.py:445`). Branches
  that are not up to date may each pass and together add one.

## 5. The proofs

Eight modules are checked by TLAPS. `StoreProofs`, `ServerProofs`, `GateProofs`,
`ReportsProofs` and `CollectProofs` hold theorems; `FetchProofs`, `FileProofs` and
`PipelineProofs` hold the lemmas about machines that have no specification of their
own, of which `CollectProofs` makes theorems of `CollectSpec`. All are for any
sets (of threads, requests, jobs, assets, files ...), any limits and any bounds;
what else each assumes is said below it. Each inductive invariant was checked by
TLC on the instances of section 3 before it was proved.

### Store

| theorem | statement |
|---|---|
| `TypeCorrect` | `Spec => []TypeOK` |
| `LockSafe` | `Spec => []LockDiscipline` |
| `StoreRefinesLedger` | `Spec => LedgerSpec` |
| `OneProcessInOrder` | with all threads in one process, `Spec => []AuditInTimeOrder` |
| `CurrentOnlyAdvances` | `Spec => CurrentNeverGoesBack` |
| `LossIsBounded` | `Spec => []UnloggedAccounted` |

*Assumptions*: `LedgerAssumption` ("scan.completed" is not one of the other
actions) and `StoreAssumption` (each thread runs in a process, processes are
finitely many, the bounds are numbers). Finiteness of the processes is needed
only by `LossIsBounded`, which counts them.

*The invariant*. `TypeOK` is not inductive: depth stays at most 2 only because
who re-enters the lock is at the one place that does. `IInv` is therefore
`TypeInv` (`TypeOK`, `LockDiscipline`, and `DepthInv`, which gives the depth at
each step of a call), `StampInv` (times taken are not in the future),
`DrawnInv` (the id a scan has drawn is no other thread's; it is not stored
before the insert, and stored and not logged between the two commits), and
`Logged \subseteq Stored`. The last three are what `StoreRefinesLedger` needs:
an inserted row has a fresh id and a past start, and an inserted
"scan.completed" entry is about a scan that is stored and not yet logged.

*The argument*. `StepAside`, `StepIn` and `StepOut` say what a step that leaves
the lock alone, takes it or releases it does to `TypeInv`; `TablesAlone`,
`AuditWritten` and `Left` say the same for the tables, so that each action has a
lemma of its own with a short proof, and `StepInv` collects them. `Invariant`
is `Spec => []IInv`, and the theorems follow. The last three add one invariant
each, proved beside `IInv`: `OrderInv` (no timestamp taken is older than the last
entry written, because there is only one lock), `LatestInv` (the tables have a
first row in `latest()`'s order) and `CountInv` (the unlogged scans are finite,
and each leaves the count either by being logged or by spending a fault).

### ScanServer

| theorem | statement |
|---|---|
| `ServerTypes` | `Spec => []TypeOK` |
| `AnsweredDurable` | `Spec => []AnsweredIsDurable` |
| `ServerWritesLedger` | `Spec => StoreIsALedger`, the refinement |
| `WorkspaceBounded` | `Spec => []RetentionBounded` |
| `TreesLostWhenOvertaken` | `Spec => []LostOnlyWhenOvertaken` |

*Assumption*: `ScanServerAssumption` (the policy file has usable values; a body
gives each field a value, an unusable or a malformed one; the bounds are numbers).

*The invariants*. `Types` is `TypeOK` with `Shape`: which kind of request can be at
which step, and that the settings it has applied are some of its body's. `Written`
says what each request has written to the two tables by the step it is at, which is
both what an answer promises and what makes each insertion a step of the `Ledger`.
`WorkspaceInv` is about prunes that work from what they read earlier. `Dated`: finitely
many requests have started, and their trees are dated apart and not before they were
made. `ListingsDated`: the dates a prune goes by are apart too, each between the making
of its tree and its date now, however late it was read. `StaleOvertaken`: so each tree
that a prune is still to remove has been overtaken by `Keep` others for good, which
`LostOnlyWhenOvertaken` repeats of those it has begun to remove. `Kept`: the trees of
requests past their prune are at most the retention.

### Gate

| theorem | statement |
|---|---|
| `GateTypes` | `Spec => []TypeOK` |
| `LineHeld` | with `--baseline-ref`, `Spec => []HoldsTheLine` |
| `FailureNamed` | `Spec => []FailureNamesFindings` |
| `RefactorsPassed` | `Spec => []RefactorsPass` |

*Assumptions*: `GateAssumption` (finitely many files, of which some are ignored
and some gated; the allowance and the bounds are numbers), and for `LineHeld`
`Mode = "ref"`: for the action it is false, as section 4 shows of a single run.

*The invariants*. `HoldsTheLine` speaks of `main` and says nothing of the branches
that will merge. `LineInv` adds `TypeOK` and `SeenInv`: the run of every branch that
passed bounds what that branch adds to its base, by the allowance and by what
`Merge` will excuse. `VerdictInv` says of each branch what its last run computed
(`Honest`): it named something if it failed, and it passed if the branch adds no
more than the allowance and nothing untracked was counted.

*The argument*. `CompareBounds` is the heart: with `--baseline-ref` the baseline
covers exactly the tracked files of the gated paths, and the current side covers
at least these, whether or not the tree was too large to be staged; so what is
counted now, and what crashed scanners hid (`CountSplits`), is at least the debt
of the branch. A change or an update resets the run (`FreshIsBounded`).
`MergeIsTree` says that merging a branch whose base is `main` makes `main` that
branch's tree on the files that count, and `MergeHolds` adds the numbers up.

### Collect, and the machines below it

| theorem | statement: `CollectSpec =>` | what it needs |
|---|---|---|
| `TypesHold` | `[]CollectTypeOK` | `ShapeInv`, and all below |
| `AllowlistAsked` | `[]OnlyAllowedContacted` | `Contacts`, `Fetches` |
| `TargetsReported` | `[]EveryTargetReported` | `TargetsInv` |
| `TreesAdmitted` | `TreesAreSafe`: `Ingest` implements `Admission` | `IngestInv` |
| `EndpointsAccounted` | `[]EndpointAccounted` | `EndpointInv` |
| `KeysAccounted` | `[]EveryKeyAccounted` | `StoreInv`, `WalkInv`, `KeysInv` |
| `ImagesAccounted` | `[]ImageAccounted` | `ImageInv` |
| `ConfigsAccounted` | `[]ConfigAccounted` | `CodeInv`, `FilesInv` |
| `SourcesAccounted` | `[]SourceAccounted` | `CodeInv`, `FilesInv` |
| `KeyIdsDecide` | `[]KeyIdDecides` | `ChainInv` |
| `EvidenceKept` | `[]EvidenceAccounted` | `MergeInv` |
| `SizesAndPlacesKept` | `[]AbsorptionKeepsSizeAndPlace` | `MergeInv` |
| `EdgesFollow` | `[]EdgesFollowFindings` | `PipelineInv` |
| `ProvidersLead` | `[]ProvidersLinked` | `PipelineInv` |
| `DocumentsValid` | `[]DocumentValid` | `PipelineInv` |
| `RadiusReached` | `[]RadiusIsReach` | `RadiusInv` |

*The invariants*. `LoopInv` says that at most one machine runs, the one of the
current target's scanner; every other invariant rests on it, because it is why a
machine's result is the current target's.

- `TargetsInv`: every target before the current one is taken in or named, and the
  scope, the errors and the covered sources agree.
- `IngestInv` is a ledger: what the files of an upload take and what is left of the
  budget are together within `MaxTotal`, and there are no more files than members
  counted. That is inductive where "within the limits" alone is not: a chunk is
  charged to the budget before it is written, and two members may have one path.
- `EndpointInv` says where in the stream the buffer lies: it ends at the last token
  received, whatever the pieces; while lines are read it begins within the greeting;
  and since only a packet begins with a length, a body lies directly behind its header,
  so that what is parsed is the packet and never a part of two.
- `WalkInv`, `StoreInv` and `KeysInv`: each listed entry is reported, named, left out
  for a reason or still to come, the last exactly for those behind the position of
  the walk; and what has become of a store's keys stays so while later targets run.
- `ImageInv` and `CodeInv`: what each step has gathered of the tree; what is taken of
  files is a piece whose relationships stay inside it.
- `FilesInv`: of the files before the walk nothing is reported or named, and those
  behind it are dealt with: what is there of a file is one piece, in its order and with
  its relationships moved along (`Laid`), or nothing; of a file of source the whole piece
  if it is not named, and nothing if it is (`SourceDealtWith`). Files have different ids,
  so a later file can neither add to it nor name it.
- `ChainInv`: the two dictionaries hold certificates with the key id or name they are
  filed under, every key id met is filed, and each link made so far was decided by the
  key id if its certificate names one of theirs.
- `MergeInv`: a row that leads to itself has exactly the evidence of the findings that
  lead to it (`EvidenceFollows`); an absorbed row leads to a sized row of its place
  that leads to itself, so `remap` has no chains.
- `PipelineInv`: what is related by position is related by identity, through
  relocation, attribution and the merge.
- `RadiusInv`: what was issued by a certificate seen is seen or queued, which at the
  worklist's end makes the seen certificates a closed set; that they are also
  reached is shown along the way, cycles included.
- `GatheredInv` is `PipelineInv` and `RadiusInv` along the loop; `ShapeInv` the rest
  of the types.

*Assumptions*. `PipelineAssumption`, `IngestAssumption`, `EndpointAssumption` and
`TableAssumption` are types of the constants, and that a name stands for one or two
algorithms that differ. `CollectAssumption` says what a job's targets are: `IsSource`
(a size is a number), `IsImage`, `IsResult`, and

- `IsStore`: no entry is empty and no key is listed twice, as providers list them;
- `IsHost`: of what a server sends only a packet begins with a length, which is its
  own. A server that says otherwise is one whose answer nothing can be said of;
- `IsTree`: no two files have one id, the parts of a file are sequences, what a Python
  file assigns and what an environment variable defaults to are expressions
  (`IsProgram`), a configuration is what its module describes (`IsConfiguration`: only the lists of SSH
  have a modifier, a suite is marked by `!`, `-` or nothing), and `Names`, `Places` and
  the other constants hold all that its files show. That what is read of a file is a
  piece, of findings at places in that file, is proved.

`MeansAssumption` and `ManifestAssumption` say of the tables that they are sequences of
names, that S/MIME is not in one and that a name stands for at most one key
encapsulation. `SourceAssumption` says that each pattern belongs to a rule, that a key
size has a position, and that what a pattern matches begins with nothing that opens or
closes a comment, as no pattern in `PATTERN_RULES` does. It may begin with a quote (the
rule for Java's `"RSA/ECB/..."`, `source.py:106`) or a backslash, and is then where a
string begins or a character is escaped.

*What a configuration file shows*. `ConfigsAccounted` needs what each handler returns
for every file, not for the instance's. `Emitted`, `EachLine`, `Plain` and `Chosen` flatten
sequences of sequences; `FlattenOrder` says of `FlattenSeq` where each element is from, in
their order, by the least number for which it is not so (the induction theorems take an
operator, which the provers cannot instantiate). From it each handler gets a lemma that
what it returns has exactly the rows the property's sets name: `SSHFaithful`,
`IPsecFaithful` (with the partner a proposal gives its key agreements, `PartnerIs`),
`VPNFaithful`, `WebFaithful` and `SMIMEShown`. `WholeShown` joins the handler's piece and
that of S/MIME, `TakeLays` puts it into what has been found, and `DealtWithReported`
reads the property off.

*What a file of source shows*. `SourcesAccounted` compares two readings of a file, one
by the code and one by the property, for every file. For Python, `FullNameIs`,
`CalleeIs`, `SizeIs` and `NameIs` say that with each name bound once the look-ups of
imports and constants give what writing them out gives, wherever `ReadAsWritten`;
`PendingIs` puts them together for a call, and `PythonIsShown` for a file. That
precondition was found by the proof: without it the property is false of calls that the
instance did not have, and section 4 says which. For the other languages, `Commented`
goes through the text in leaps, from one string or comment behind it to the next, and
`LexerState` character by character. "Outside comments" is not inductive along the
leaps; `InCode` is: where the scanner looks for the next comment, the reader is in
code, or behind a slash that opens nothing, or at the line break that ends a comment.
`StringRun`, `LineRun` and `BlockRun` follow the reader through each kind of leap,
`OnwardIs` says that it comes out in `InCode`, and `CommentedIs` goes down from the end
of the text to its beginning, since the recursion of `Commented` does. `PatternIsShown`
adds what is subsumed: a match that says less than one beside it, which is itself never
subsumed, so that nothing is lost twice.

### Rating and Reports

| theorem | statement |
|---|---|
| `ExposedStaysExposed` | `Spec => []BareStaysExposed` |
| `AdviceFollowsRating` | `Spec => []ScoreAndAdviceAgree` |
| `AdviceSuffices` | `Spec => []AdviceIsFinal` |
| `ExportsNeverLower` | `Spec => []ExportNeverLower` |
| `TimePresses` | `Spec => TimeOnlyPresses` |
| `PinnedScoresHold` | `Spec => PinnedHolds` |

*Assumption*: `ReportsAssumption`. Settings are usable ones, of files and after any
request (`ScanServer` has the others), years are positive, and an inventory is what
scanners can find (`IsInventory`): a protocol is called by its own name, a pairing is
declared for a classical and a post-quantum half of one exchange, both of them found
(`ssh.py:62-89`, `config.py:346-352`), and never in a module that also has library rows.

*The invariant*. `ReportsInv`: what is shown is made of assets that a scan can find,
rated with usable settings; a report has all the rows of its scan, and an export
exactly those that a filter of statuses and levels lets through.

*The argument*. `AdviceFollowsRating` and `AdviceSuffices` do not depend on the numbers
in the settings: they follow the decision trees of `classify` and `recommend_asset`
beside each other, rule by rule (`UnsoundMoves`, `SoundMoves`, `RegimeMoves`, and
`Becomes` for what the asset is afterwards). `ExposedStaysExposed`: what is discounted is
paired (`DiscountedIsPaired`), also among all the rows of the scan; and in a module with
a declared pairing only declared rows are, which `IsInventory` says are half of a
hybrid. `ExportsNeverLower` rests on `FilterInventsNoPair`: a filter goes by status
and module, and a declared row has the status of one of the two halves, so rows
that are partners in an export were partners in the scan, and an export can only
take a discount away. For `TimePresses` each term of the score (urgency,
compliance) grows as the year does and as Z comes nearer, and so does the clamped sum;
for `PinnedScoresHold` the deadline of the knowledge base is the earlier one and Z does
not enter.

### What is only model-checked

- *Liveness*: `EveryCallReturns`, `EveryRequestAnswered`, `EveryJobEnds`. Fairness and
  `ENABLED` are out of the prover's reach.
- *The violations* of section 4, which are counterexamples.

## 6. What is not modelled

- *Matching as such.* Which text a regular expression matches, how a name is
  normalised, which algorithm a provider's specification stands for, DER
  (`x509.py`): these are tables, and the models take their entries as constants.
  Of `source.py` curves, parameter sets, confidence and `usedforsecurity` are left
  out; they are attributes that no step reads again but `subsume_bare`, which asks of curves
  and parameter sets what it asks of sizes and modes. A text holds at most one match
  at a position.
- *A removal that does not succeed.* `rmtree(..., ignore_errors=True)` of a refused
  tree, and of a clone's `.git`, is assumed to remove it.
- *Layers inside an image of the OCI layout*, whose files have no suffix `.tar`, are never
  unpacked by `_extract` and are no nested layers of the model.
- *A commit() that raises with its transaction left open*: see section 4. Between two
  processes the audit timestamps may be out of order (`store.py:134`), so
  `AuditInTimeOrder` is checked and proved for one.
- *The binary scanner.* One pass over each file with no state; its results are inputs
  of `Collect`. Of configurations and manifests: which file is of which kind, and how
  a manifest's format is parsed.
- *The dependency scanner inside an image* is an input of `Container`, not the steps of
  `Manifest`.
- *Key material and algorithms of stores and endpoints* are followed to the
  report (`items`) and not through the merge, where each is a row of its own place.
- *Verification and evaluation.* Both re-read what the scanners read and match it
  as text; a model would state the matching rules twice. What was noticed of them
  is in section 4.
- *Texts*: reports, rationales, the PDF, the web page; and roles, which are a check
  of a header against a table.
- *Reads* of the server that change nothing (graph, heat map, drift), and the
  commands that only loop over what is modelled (validate, eval, demo, export).
- *A collision of scan ids*, eight hex digits, which would replace a scan.

`PROJECT.json` gives the reason for each component. TLC evaluates disjuncts from
left to right, and some actions put the failing one first so that it finds an
enabled step without computing a file's findings; the order has no meaning.

## 7. The plan

1. **Done**: store with its abstract ledger and proofs; scan server; rating, advice
   and reports; gate, with proofs; ingestion with its abstract admission; source,
   configuration, dependency, endpoint, key-store and container scanners; inventory, chains and pipeline; all
   scanners in one run (`Collect`).
2. **Done**: proofs of every safety property and action property of the passing runs
   (section 5).
3. `Verify`, once its matching can be abstracted without assuming its answer:
   verdicts over a tree edited or pruned since the scan (`verify.py:229-290`),
   together with `ScanServer`'s workspace.
