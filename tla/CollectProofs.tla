---------------------------- MODULE CollectProofs ----------------------------
(***************************************************************************)
(* Proofs about module Collect, for any jobs: the machines below the loop  *)
(* run one at a time and are put away, every target is reported, no store, *)
(* host or repository is contacted that is not allowed, and what the       *)
(* scanners gathered reaches the inventory, its documents and the radius   *)
(* as Inventory and Pipeline promise.                                      *)
(*                                                                         *)
(* Each invariant here is about one part of the state, and the later ones  *)
(* are proved with the earlier: LoopInv (where the loop is), Contacts,     *)
(* TargetsInv (what it has reported), ImageInv, CodeInv and ChainInv       *)
(* (what is being gathered), GatheredInv (the report itself), WalkInv and  *)
(* KeysInv (what became of every key of a store), and ShapeInv (the rest   *)
(* of the shape).  IngestInv and EndpointInv are those of the modules that *)
(* prove them of one request and of one endpoint.                          *)
(***************************************************************************)
EXTENDS Collect, PipelineProofs, FileProofs, FetchProofs

CollectSteps ==
  {"next", "walk", "probe", "image", "code", "files", "fetch", "tree", "rest", "finished"}

(* The scanner that each step of the loop is inside.                       *)
IsAt(at_step, scanner) ==
  CASE scanner = "cloud" -> at_step = "walk"
    [] scanner \in {"ssh", "tls"} -> at_step = "probe"
    [] scanner = "container" -> at_step = "image"
    [] scanner \in {"source", "config", "dependencies"} -> at_step = "code"
    [] OTHER -> at_step = "files"

(* Where the loop is, and that a machine below it runs only while the loop *)
(* is inside it.                                                           *)
LoopInv ==
  /\ job \in Jobs /\ pos \in 1..(Len(job.targets) + 1)
  /\ cstep \in CollectSteps
  /\ cstep \in {"walk", "probe", "image", "code", "files"} =>
       /\ job.kind = "scan" /\ pos \in DOMAIN job.targets
       /\ Current.scanner # "unknown" /\ IsAt(cstep, Current.scanner)
  /\ cstep \in {"fetch", "tree"} => job.kind # "scan" /\ pos \in DOMAIN job.targets
  /\ cstep = "rest" => job.kind = "scan" /\ pos = Len(job.targets) + 1
  /\ cstep = "finished" => pos = Len(job.targets) + 1
  /\ (kstep # "idle") = (cstep = "walk")
  /\ (estep # "idle") = (cstep = "probe")
  /\ (istep # "idle") = (cstep = "image")
  /\ (sstep # "idle") = (cstep = "code")

(* The machines never fall back to idle by themselves.                     *)
LEMMA MachinesGoOn ==
  /\ kstep # "idle" /\ KeyStoreNext => kstep' # "idle"
  /\ estep # "idle" /\ EndpointNext => estep' # "idle"
  /\ istep # "idle" /\ ContainerNext => istep' # "idle"
  /\ sstep # "idle" /\ (WalkFiles \/ SourceStep \/ ConfigStep \/ ParseManifest) => sstep' # "idle"
  <1>1. kstep # "idle" /\ KeyStoreNext => kstep' # "idle"
    BY DEF KeyStoreNext, Misnamed, RefuseStore, Connect, ListFails, ListPage, ListGroups, EndGroups,
           GroupFails, OpenRing, SkipSlot, OpenToken, GetObjects, ReadObjects, EntryFails, ReadEntry,
           WalkRaises, EndWalk, EndWith, NextGroup
  <1>2. estep # "idle" /\ EndpointNext => estep' # "idle"
    BY DEF EndpointNext, BadPort, RefuseHost, ConnectHost, PeerSilent, RecvBanner, TakeLine, RecvHeader,
           ReadLength, RecvBody, ParsePacket, Handshake, FailHost
  <1>3. istep # "idle" /\ ContainerNext => istep' # "idle"
    BY DEF ContainerNext, Catalogue, NoDocker, Save, Unpack, WalkTree, KeyMaterial, EndImage
  <1>4. sstep # "idle" /\ (WalkFiles \/ SourceStep \/ ConfigStep \/ ParseManifest) => sstep' # "idle"
    BY DEF WalkFiles, SourceStep, ConfigStep, ParseManifest, ListFiles, PassOver, EndFiles, ScanPython,
           BadSyntax, ScanPatterns, UnreadConfig, LargeConfig, ScanConfig, HandlerFails, TakeFile, NextFile
  <1> QED
    BY <1>1, <1>2, <1>3, <1>4

(* The loop starts at the first target, inside nothing.                    *)
LEMMA LoopStarts == CollectInit => LoopInv
  <1> SUFFICES ASSUME CollectInit
               PROVE  LoopInv
    OBVIOUS
  <1>1. Len(job.targets) \in Nat
    BY CollectAssumption DEF CollectInit
  <1> QED
    BY <1>1 DEF CollectInit, LoopInv, CollectSteps, KeyStoreInit, EndpointInit, ContainerInit, FilesInit

(* The targets of a job are a sequence, of targets of their scanners.      *)
LEMMA JobTargets ==
  ASSUME NEW j \in Jobs
  PROVE  /\ Len(j.targets) \in Nat /\ DOMAIN j.targets = 1..Len(j.targets)
         /\ j.kind = "scan" =>
              \A i \in DOMAIN j.targets :
                LET t == j.targets[i] IN
                /\ t.scanner = "cloud" => IsStore(t.of)
                /\ t.scanner \in {"ssh", "tls"} => IsHost(t.of)
                /\ t.scanner = "container" => IsImage(t.of)
                /\ t.scanner \in {"source", "config", "dependencies"} => IsTree(t.of)
                /\ t.scanner # "unknown" /\ IsAt("files", t.scanner) => IsResult(t.of)
  <1>1. j.targets \in Seq(Range(j.targets))
    BY CollectAssumption
  <1>2. ASSUME j.kind = "scan", NEW i \in DOMAIN j.targets
        PROVE  LET t == j.targets[i] IN
               /\ t.scanner = "cloud" => IsStore(t.of)
               /\ t.scanner \in {"ssh", "tls"} => IsHost(t.of)
               /\ t.scanner = "container" => IsImage(t.of)
               /\ t.scanner \in {"source", "config", "dependencies"} => IsTree(t.of)
               /\ t.scanner # "unknown" /\ IsAt("files", t.scanner) => IsResult(t.of)
    <2> DEFINE t == j.targets[i]
    <2>1. t \in Range(j.targets)
      BY DEF Range
    <2> HIDE DEF t
    <2>2. (CASE t.scanner = "unknown" -> TRUE
             [] t.scanner = "cloud" -> IsStore(t.of)
             [] t.scanner \in {"ssh", "tls"} -> IsHost(t.of)
             [] t.scanner = "container" -> IsImage(t.of)
             [] t.scanner \in {"source", "config", "dependencies"} -> IsTree(t.of)
             [] OTHER -> IsResult(t.of))
      BY <1>2, <2>1, CollectAssumption
    <2>3. /\ t.scanner = "cloud" => IsStore(t.of)
          /\ t.scanner \in {"ssh", "tls"} => IsHost(t.of)
          /\ t.scanner = "container" => IsImage(t.of)
          /\ t.scanner \in {"source", "config", "dependencies"} => IsTree(t.of)
          /\ t.scanner # "unknown" /\ IsAt("files", t.scanner) => IsResult(t.of)
      BY <2>2 DEF IsAt
    <2> QED
      BY <2>3 DEF t
  <1> QED
    BY <1>1, <1>2

(* A step inside a machine leaves the loop where it is.                    *)
LEMMA InsideKeepsLoop ==
  ASSUME LoopInv, Walk \/ Probe \/ Image \/ Code \/ Chain \/ Fetch \/ Rest
  PROVE  LoopInv'
  <1>1. CASE Walk \/ Probe \/ Image \/ Code
    BY <1>1, MachinesGoOn
    DEF LoopInv, Walk, Probe, Image, Code, rvars, kvars, evars, nvars, svars, Current
  <1>2. CASE Chain \/ Fetch
    BY <1>2 DEF LoopInv, Chain, Fetch, rvars, kvars, evars, nvars, svars, Current
  <1>3. CASE Rest
    BY <1>3 DEF LoopInv, Rest, CollectSteps, kvars, evars, nvars, svars, Current
  <1> QED
    BY <1>1, <1>2, <1>3

(* A target is started in the step of its scanner.                         *)
LEMMA StartKeepsLoop ==
  ASSUME LoopInv, StartScan \/ StartTree
  PROVE  LoopInv'
  <1> DEFINE t == Current
  <1>1. pos \in DOMAIN job.targets /\ cstep = "next" /\ job' = job /\ pos' = pos /\ Current' = Current
    BY DEF StartScan, StartTree, More, Current
  <1>2. CASE StartScan
    <2>1. job.kind = "scan" /\ t.scanner # "unknown"
      BY <1>2 DEF StartScan
    <2>2. t.scanner = "container" => t.of.form \in {"dir", "tar", "name"}
      BY <1>1, <2>1, JobTargets DEF LoopInv, Current, IsImage
    <2>3. CASE t.scanner = "cloud"
      BY <1>1, <1>2, <2>1, <2>3
      DEF StartScan, LoopInv, CollectSteps, IsAt, BeginStore, StartStore, kvars, evars, nvars, svars
    <2>4. CASE t.scanner \in {"ssh", "tls"}
      BY <1>1, <1>2, <2>1, <2>4
      DEF StartScan, LoopInv, CollectSteps, IsAt, BeginHost, StartHost, kvars, evars, nvars, svars
    <2>5. CASE t.scanner = "container"
      BY <1>1, <1>2, <2>1, <2>2, <2>5
      DEF StartScan, LoopInv, CollectSteps, IsAt, BeginImage, StartImage, kvars, evars, nvars, svars
    <2>6. CASE t.scanner \in {"source", "config", "dependencies"}
      BY <1>1, <1>2, <2>1, <2>6
      DEF StartScan, LoopInv, CollectSteps, IsAt, BeginFiles, StartFiles, kvars, evars, nvars, svars
    <2>7. CASE t.scanner \notin {"cloud", "ssh", "tls", "container", "source", "config", "dependencies"}
      BY <1>1, <1>2, <2>1, <2>7 DEF StartScan, LoopInv, CollectSteps, IsAt, kvars, evars, nvars, svars
    <2> QED
      BY <2>3, <2>4, <2>5, <2>6, <2>7
  <1>3. CASE StartTree
    BY <1>1, <1>3 DEF StartTree, LoopInv, CollectSteps, kvars, evars, nvars, svars
  <1> QED
    BY <1>2, <1>3

(* A target that is done with is followed by the next, with the machine it *)
(* ran put away.                                                           *)
LEMMA AdvanceKeepsLoop ==
  ASSUME LoopInv,
         UnknownScanner \/ TakeStore \/ TakeHost \/ TakeImage \/ TakeCode \/ TakeFiles \/ TakeTree \/ ScanTree
  PROVE  LoopInv'
  <1>1. pos \in 1..Len(job.targets) /\ Len(job.targets) \in Nat
    BY JobTargets DEF LoopInv, UnknownScanner, More, TakeStore, TakeHost, TakeImage, TakeCode, TakeFiles,
                      TakeTree, ScanTree
  <1>2. CASE UnknownScanner \/ TakeFiles \/ ScanTree
    <2>1. cstep' = "next" /\ pos' = pos + 1 /\ job' = job /\ cstep \in {"next", "files", "tree"}
          /\ kstep' = kstep /\ estep' = estep /\ istep' = istep /\ sstep' = sstep
      BY <1>2 DEF UnknownScanner, More, TakeFiles, ScanTree, Advance, kvars, evars, nvars, svars
    <2> QED
      BY <1>1, <2>1 DEF LoopInv, CollectSteps
  <1>3. CASE TakeStore \/ TakeHost
    BY <1>1, <1>3 DEF TakeStore, TakeHost, Advance, LoopInv, CollectSteps, kvars, evars, nvars, svars,
                      KeyStoreReset, StartStore, EndpointReset, StartHost
  <1>4. CASE TakeImage \/ TakeCode
    BY <1>1, <1>4 DEF TakeImage, TakeCode, Advance, LoopInv, CollectSteps, kvars, evars, nvars, svars,
                      ContainerReset, StartImage, FilesReset, StartFiles
  <1>5. CASE TakeTree
    <2>1. /\ job' = job /\ cstep = "fetch"
          /\ kstep' = kstep /\ estep' = estep /\ istep' = istep /\ sstep' = sstep
      BY <1>5 DEF TakeTree, kvars, evars, nvars, svars
    <2>2. \/ cstep' = "tree" /\ pos' = pos
          \/ cstep' = "next" /\ pos' = pos + 1
      BY <1>5 DEF TakeTree, Advance
    <2> QED
      BY <1>1, <2>1, <2>2 DEF LoopInv, CollectSteps
  <1> QED
    BY <1>2, <1>3, <1>4, <1>5

(* Every step keeps the loop's invariant.                                  *)
LEMMA LoopKeeps == LoopInv /\ [CollectNext]_vars => LoopInv'
  <1> SUFFICES ASSUME LoopInv, [CollectNext]_vars
               PROVE  LoopInv'
    OBVIOUS
  <1>1. CASE Finish
    BY <1>1, JobTargets DEF Finish, LoopInv, CollectSteps, kvars, evars, nvars, svars
  <1>2. CASE UNCHANGED vars
    BY <1>2 DEF vars, rvars, kvars, evars, nvars, svars, LoopInv, Current
  <1>3. CASE Ended
    BY <1>2, <1>3 DEF Ended
  <1> QED
    BY <1>1, <1>2, <1>3, InsideKeepsLoop, StartKeepsLoop, AdvanceKeepsLoop DEF CollectNext

(* Where the loop is, in every state.                                      *)
LEMMA LoopHolds == CollectSpec => []LoopInv
  BY LoopStarts, LoopKeeps, PTL DEF CollectSpec

-----------------------------------------------------------------------------
(* What is contacted.                                                      *)

(* An archive is never cloned, and a repository only if it is allowed.     *)
Contacts ==
  /\ contacted => store.allowed /\ store.wellNamed
  /\ probed => host.allowed /\ host.wellNamed
  /\ step \in {"clone", "measure"} /\ src.form = "repo" => src.allowed
  /\ step \in {"open", "entries", "write"} => src.form # "repo"

(* The walk of a store connects behind the allowlist.                      *)
LEMMA WalkAsks ==
  ASSUME contacted => store.allowed /\ store.wellNamed, KeyStoreNext
  PROVE  contacted' => store'.allowed /\ store'.wellNamed
  <1>1. CASE Connect
    BY <1>1 DEF Connect
  <1>2. CASE UNCHANGED <<store, contacted>>
    BY <1>2
  <1>3. KeyStoreNext => Connect \/ UNCHANGED <<store, contacted>>
    BY DEF KeyStoreNext, Misnamed, RefuseStore, ListFails, ListPage, ListGroups, EndGroups, GroupFails,
           OpenRing, SkipSlot, OpenToken, GetObjects, ReadObjects, EntryFails, ReadEntry, WalkRaises,
           EndWalk, Kept
  <1> QED
    BY <1>1, <1>2, <1>3

(* And so does the probe of a host.                                        *)
LEMMA ProbeAsks ==
  ASSUME probed => host.allowed /\ host.wellNamed, EndpointNext
  PROVE  probed' => host'.allowed /\ host'.wellNamed
  <1>1. CASE ConnectHost
    BY <1>1 DEF ConnectHost
  <1>2. CASE UNCHANGED <<host, probed>>
    BY <1>2
  <1>3. EndpointNext => ConnectHost \/ UNCHANGED <<host, probed>>
    BY DEF EndpointNext, BadPort, RefuseHost, PeerSilent, RecvBanner, TakeLine, RecvHeader, ReadLength,
           RecvBody, ParsePacket, Handshake, FailHost
  <1> QED
    BY <1>1, <1>2, <1>3

(* And the clone of a repository.                                          *)
LEMMA CloneAsks ==
  ASSUME step \in {"clone", "measure"} /\ src.form = "repo" => src.allowed,
         step \in {"open", "entries", "write"} => src.form # "repo",
         IngestNext
  PROVE  /\ step' \in {"clone", "measure"} /\ src'.form = "repo" => src'.allowed
         /\ step' \in {"open", "entries", "write"} => src'.form # "repo"
  <1>1. src' = src
    BY DEF IngestNext, OpenSource, SkipMember, StartMember, WriteChunk, EndMember, ReadFails, EndEntries,
           Clone, CloneRaises, Measure, Fail
  <1>2. \/ step' \in {"refused", "ready", "abandoned"} \/ step' = step
        \/ step' = "measure" /\ step \in {"entries", "clone"}
        \/ step \in {"open", "entries", "write"} /\ step' \in {"entries", "write"}
    BY DEF IngestNext, OpenSource, SkipMember, StartMember, WriteChunk, EndMember, ReadFails, EndEntries,
           Clone, CloneRaises, Measure, Fail
  <1> QED
    BY <1>1, <1>2

(* Every step of the loop keeps it so.                                     *)
LEMMA ContactsKeep == Contacts /\ [CollectNext]_vars => Contacts'
  <1> SUFFICES ASSUME Contacts, [CollectNext]_vars
               PROVE  Contacts'
    OBVIOUS
  <1> USE DEF ivars, kvars, evars
  <1>1. CASE Walk
    BY <1>1, WalkAsks DEF Walk, Contacts
  <1>2. CASE Probe
    BY <1>2, ProbeAsks DEF Probe, Contacts
  <1>3. CASE Fetch
    BY <1>3, CloneAsks DEF Fetch, Contacts
  <1>4. CASE TakeStore
    BY <1>4 DEF TakeStore, KeyStoreReset, StartStore, Contacts
  <1>5. CASE TakeHost
    BY <1>5 DEF TakeHost, EndpointReset, StartHost, Contacts
  <1>6. CASE StartScan
    <2>1. UNCHANGED ivars
      BY <1>6 DEF StartScan
    <2>2. contacted' = FALSE \/ UNCHANGED kvars
      BY <1>6 DEF StartScan, BeginStore, StartStore
    <2>3. probed' = FALSE \/ UNCHANGED evars
      BY <1>6 DEF StartScan, BeginHost, StartHost
    <2> QED
      BY <2>1, <2>2, <2>3 DEF Contacts
  <1>7. CASE StartTree
    <2>1. UNCHANGED <<kvars, evars>>
      BY <1>7 DEF StartTree
    <2>2. CASE UNCHANGED ivars
      BY <2>1, <2>2 DEF Contacts
    <2>3. CASE BeginIngest(Current.of)
      <3>1. /\ step' = "clone" => src'.allowed
            /\ step' = "open" => src'.form # "repo"
            /\ step' \in {"refused", "clone", "open"}
        BY <2>3 DEF BeginIngest
      <3> QED
        BY <2>1, <3>1 DEF Contacts
    <2> QED
      BY <1>7, <2>2, <2>3 DEF StartTree
  <1>8. CASE UNCHANGED <<ivars, kvars, evars>>
    BY <1>8 DEF Contacts
  <1>9. UnknownScanner \/ Image \/ Code \/ Chain \/ TakeImage \/ TakeCode \/ TakeFiles \/ TakeTree \/ ScanTree
          \/ Finish \/ Rest \/ Ended \/ UNCHANGED vars => UNCHANGED <<ivars, kvars, evars>>
    BY DEF UnknownScanner, Image, Code, Chain, TakeImage, TakeCode, TakeFiles, TakeTree, ScanTree, Finish,
           Rest, Ended, vars
  <1> QED
    BY <1>1, <1>2, <1>3, <1>4, <1>5, <1>6, <1>7, <1>8, <1>9 DEF CollectNext

(* The steps that send for an image are those of a named one.              *)
Fetches ==
  fetched \/ istep \in {"catalogue", "save"} => image.form = "name"

LEMMA FetchesKeep == LoopInv /\ Fetches /\ [CollectNext]_vars => Fetches'
  <1> SUFFICES ASSUME LoopInv, Fetches, [CollectNext]_vars
               PROVE  Fetches'
    OBVIOUS
  <1>1. CASE UNCHANGED nvars
    BY <1>1 DEF nvars, Fetches
  <1>2. CASE Image
    <2>1. image' = image
      BY <1>2 DEF Image, ContainerNext, Catalogue, NoDocker, Save, Unpack, WalkTree, KeyMaterial, EndImage
    <2>2. fetched' = fetched \/ istep \in {"catalogue", "save"}
      BY <1>2 DEF Image, ContainerNext, Catalogue, NoDocker, Save, Unpack, WalkTree, KeyMaterial
    <2>3. istep' \in {"catalogue", "save"} => istep \in {"catalogue", "save"}
      BY <1>2 DEF Image, ContainerNext, Catalogue, NoDocker, Save, Unpack, WalkTree, KeyMaterial, EndImage
    <2> QED
      BY <2>1, <2>2, <2>3 DEF Fetches
  <1>3. CASE StartScan
    <2>1. CASE Current.scanner = "container"
      <3>1. IsImage(Current.of) /\ BeginImage(Current.of)
        BY <1>3, <2>1, JobTargets DEF StartScan, More, LoopInv, Current
      <3>2. PICK t : t = Current.of
        OBVIOUS
      <3> QED
        BY <3>1, <3>2 DEF BeginImage, StartImage, IsImage, Fetches
    <2> QED
      BY <1>1, <1>3, <2>1 DEF StartScan
  <1>4. CASE TakeImage
    BY <1>4 DEF TakeImage, ContainerReset, StartImage, Fetches
  <1>5. UnknownScanner \/ Walk \/ Probe \/ Code \/ Chain \/ TakeStore \/ TakeHost \/ TakeCode \/ TakeFiles
          \/ StartTree \/ Fetch \/ TakeTree \/ ScanTree \/ Finish \/ Rest \/ Ended \/ UNCHANGED vars
            => UNCHANGED nvars
    BY DEF UnknownScanner, Walk, Probe, Code, Chain, TakeStore, TakeHost, TakeCode, TakeFiles, StartTree, Fetch,
           TakeTree, ScanTree, Finish, Rest, Ended, vars
  <1> QED
    BY <1>1, <1>2, <1>3, <1>4, <1>5 DEF CollectNext

(* Whatever the targets of a run, the allowlist was asked before a key     *)
(* store or a host was connected to, and before a repository was cloned;   *)
(* and nothing else is sent for but images that are named.                 *)
THEOREM AllowlistAsked == CollectSpec => []OnlyAllowedContacted
  <1>1. CollectInit => Contacts /\ Fetches
    BY DEF CollectInit, KeyStoreInit, EndpointInit, IngestInit, ContainerInit, Contacts, Fetches
  <1>2. Contacts /\ Fetches => OnlyAllowedContacted
    BY DEF Contacts, Fetches, OnlyAllowedContacted
  <1> QED
    BY <1>1, <1>2, LoopHolds, ContactsKeep, FetchesKeep, PTL DEF CollectSpec

-----------------------------------------------------------------------------
(* What a probe reports.                                                   *)

(* A host is probed from its beginning, and its probe put away.            *)
LEMMA EndpointsKeep == LoopInv /\ EndpointInv /\ [CollectNext]_vars => EndpointInv'
  <1> SUFFICES ASSUME LoopInv, EndpointInv, [CollectNext]_vars
               PROVE  EndpointInv'
    OBVIOUS
  <1>1. CASE Probe
    BY <1>1, EndpointKeeps DEF Probe
  <1>2. CASE TakeHost
    BY <1>2, HostBegun DEF TakeHost, EndpointReset
  <1>3. CASE UNCHANGED evars
    <2>1. /\ estep' = estep /\ host' = host /\ taken' = taken /\ buffer' = buffer /\ lines' = lines
          /\ frame' = frame /\ found' = found /\ failed' = failed
      BY <1>3 DEF evars
    <2>2. HLen' = HLen /\ PLen' = PLen /\ Wire' = Wire /\ Behind' = Behind
      BY <2>1 DEF HLen, PLen, Wire, Behind
    <2>3. Streamed' = Streamed /\ Greeting' = Greeting /\ Framed' = Framed /\ Reached' = Reached
      BY <2>1, <2>2 DEF Streamed, Greeting, Framed, Reached
    <2>4. EndpointAccounted'
      BY <2>1 DEF EndpointInv, EndpointAccounted
    <2> QED
      BY <2>1, <2>2, <2>3, <2>4 DEF EndpointInv
  <1>4. CASE StartScan /\ Current.scanner \in {"ssh", "tls"}
    <2>1. BeginHost(Current.of)
      BY <1>4 DEF StartScan
    <2>2. job \in Jobs /\ pos \in DOMAIN job.targets /\ job.kind = "scan"
      BY <1>4 DEF LoopInv, StartScan, More
    <2>3. IsHost(Current.of)
      BY <1>4, <2>2, JobTargets DEF Current
    <2> QED
      BY <2>1, <2>3, HostBegun DEF BeginHost
  <1>5. CASE StartScan /\ Current.scanner \notin {"ssh", "tls"}
    BY <1>3, <1>5 DEF StartScan
  <1>6. UnknownScanner \/ Walk \/ Image \/ Code \/ Chain \/ TakeStore \/ TakeImage \/ TakeCode \/ TakeFiles
          \/ StartTree \/ Fetch \/ TakeTree \/ ScanTree \/ Finish \/ Rest \/ Ended \/ UNCHANGED vars
          => UNCHANGED evars
    BY DEF UnknownScanner, Walk, Image, Code, Chain, TakeStore, TakeImage, TakeCode, TakeFiles, StartTree,
           Fetch, TakeTree, ScanTree, Finish, Rest, Ended, vars
  <1> QED
    BY <1>1, <1>2, <1>3, <1>4, <1>5, <1>6 DEF CollectNext

(* In whatever pieces a server's answer arrives, and whatever the limits   *)
(* and the table of names: one that speaks is reported with exactly what   *)
(* it offers, and any other end of the probe names the target and reports  *)
(* nothing.                                                                *)
THEOREM EndpointsAccounted == CollectSpec => []EndpointAccounted
  <1>1. CollectInit => EndpointInv
    BY NoHostYet DEF CollectInit
  <1>2. EndpointInv => EndpointAccounted
    BY DEF EndpointInv
  <1> QED
    BY <1>1, <1>2, LoopHolds, EndpointsKeep, PTL DEF CollectSpec

-----------------------------------------------------------------------------
(* What is fetched, as IngestProofs has it of one request after another.   *)

(* Only the loop's own steps start a request, and only Fetch goes on with  *)
(* one.                                                                    *)
LEMMA TreesKeep ==
  LoopInv /\ IngestInv /\ [CollectNext]_vars => IngestInv' /\ [Outside!ANext]_<<Standing, tree>>
  <1> SUFFICES ASSUME LoopInv, IngestInv, [CollectNext]_vars
               PROVE  IngestInv' /\ [Outside!ANext]_<<Standing, tree>>
    OBVIOUS
  <1>1. CASE IngestNext
    BY <1>1, IngestKeeps, IngestAdmits
  <1>2. CASE More /\ job.kind # "scan" /\ ~Current.local /\ BeginIngest(Current.of)
    <2>1. PICK s : s = Current.of
      OBVIOUS
    <2>2. IsSource(s) /\ BeginIngest(s)
      BY <1>2, <2>1, CollectAssumption DEF LoopInv, More, Current, Range
    <2> QED
      BY <2>2, BeginKeeps, BeginArrives
  <1>3. CASE UNCHANGED ivars
    BY <1>3 DEF ivars, IngestInv, Extracted, AmongMembers, Member, Entry, Standing
  <1>4. \/ IngestNext \/ UNCHANGED ivars
        \/ More /\ job.kind # "scan" /\ ~Current.local /\ BeginIngest(Current.of)
    BY DEF CollectNext, Fetch, StartTree, UnknownScanner, StartScan, Walk, Probe, Image, Code, Chain, TakeStore,
           TakeHost, TakeImage, TakeCode, TakeFiles, TakeTree, ScanTree, Finish, Rest, Ended, vars
  <1> QED
    BY <1>1, <1>2, <1>3, <1>4

(* Whatever the projects and uploads of a job, what they are fetched as is *)
(* admitted, refused and held on disk as Admission says: an upload within  *)
(* its limits at every moment, a clone only once it is admitted, and what  *)
(* is refused without a tree.  A clone whose exception goes past           *)
(* ingest_repo() is not refused but abandoned: its tree may stay, and is   *)
(* not admitted.                                                           *)
THEOREM TreesAdmitted == CollectSpec => TreesAreSafe
  <1>1. CollectInit => IngestInv /\ Outside!AInit
    BY IngestInitially DEF CollectInit, IngestInit, Standing, Outside!AInit, Empty, Outside!NoTree
  <1> QED
    BY <1>1, LoopHolds, TreesKeep, PTL DEF CollectSpec, TreesAreSafe, Outside!AdmissionRule

-----------------------------------------------------------------------------
(* What becomes of each target.                                            *)

(* No scanner's own error reads like the exception of one.                 *)
CrashesApart == <<"crash">> \notin named \cup noted \cup unread

Crash(i) == <<i, <<"crash">>>> \in errors

Inside == {"walk", "probe", "image", "code", "files"}

(* A target that is done with was looked at, and taken or lost.            *)
DoneWith(i) ==
  IF job.targets[i].scanner = "unknown" THEN <<i, <<"unknown">>>> \in errors /\ i \notin scope
  ELSE i \in scope /\ (i \in taken_in) # Crash(i)

ScanReported ==
  /\ \A i \in 1..(pos - 1) : DoneWith(i)
  /\ \A i \in DOMAIN job.targets : i >= pos => i \notin taken_in /\ ~Crash(i)
  /\ \A i \in scope : i \in 1..(pos - 1) \/ (i = pos /\ cstep \in Inside)
  /\ cstep \in Inside => pos \in scope
  /\ taken_in \subseteq 1..(pos - 1)
  /\ covered = {job.targets[j].scanner : j \in taken_in}

ProjectsReported ==
  /\ Len(results) = pos - 1 /\ DOMAIN results = 1..(pos - 1)
  /\ \A i \in DOMAIN results : results[i].of = job.targets[i].of

TargetsInv ==
  /\ CrashesApart /\ \E S : results \in Seq(S)
  /\ IF job.kind = "scan" THEN ScanReported ELSE ProjectsReported

(* The machines name targets, groups, keys, files and tools.               *)
LEMMA MachinesNameNoCrash ==
  /\ <<"crash">> \notin named /\ KeyStoreNext => <<"crash">> \notin named'
  /\ <<"crash">> \notin noted /\ ContainerNext => <<"crash">> \notin noted'
  /\ <<"crash">> \notin unread /\ (WalkFiles \/ SourceStep \/ ConfigStep \/ ParseManifest) =>
       <<"crash">> \notin unread'
  <1>1. \A x : <<"group", x>> # <<"crash">> /\ <<"key", x>> # <<"crash">> /\ <<"file", x>> # <<"crash">>
    OBVIOUS
  <1>2. Whole # <<"crash">> /\ <<"syft">> # <<"crash">> /\ <<"tree">> # <<"crash">>
    BY DEF Whole
  <1>3. ASSUME <<"crash">> \notin named, KeyStoreNext
        PROVE  <<"crash">> \notin named'
    <2>1. named' = named \/ \E x : named' = named \cup {x} /\ (x = Whole \/ \E y : x \in {<<"group", y>>, <<"key", y>>})
      BY <1>3
      DEF KeyStoreNext, Misnamed, RefuseStore, Connect, ListFails, ListPage, ListGroups, EndGroups,
          GroupFails, OpenRing, SkipSlot, OpenToken, GetObjects, ReadObjects, EntryFails, ReadEntry,
          WalkRaises, EndWalk, EndWith, Name, Kept
    <2> QED
      BY <1>1, <1>2, <1>3, <2>1
  <1>4. ASSUME <<"crash">> \notin noted, ContainerNext
        PROVE  <<"crash">> \notin noted'
    <2>1. noted' = noted \/ \E x \in {"syft", "target", "tree"} : noted' = noted \cup {<<x>>}
      BY <1>4 DEF ContainerNext, Catalogue, NoDocker, Save, Unpack, WalkTree, KeyMaterial, EndImage, Note
    <2> QED
      BY <1>2, <1>4, <2>1 DEF Whole
  <1>5. ASSUME <<"crash">> \notin unread, WalkFiles \/ SourceStep \/ ConfigStep \/ ParseManifest
        PROVE  <<"crash">> \notin unread'
    <2>1. unread' = unread \/ unread' = {Whole} \/ \E x : unread' = unread \cup {<<"file", x>>}
      BY <1>5
      DEF WalkFiles, SourceStep, ConfigStep, ParseManifest, ListFiles, PassOver, EndFiles, ScanPython,
          BadSyntax, ScanPatterns, UnreadConfig, LargeConfig, ScanConfig, HandlerFails, TakeFile, NameFile, Whole
    <2> QED
      BY <1>1, <1>2, <1>5, <2>1
  <1> QED
    BY <1>3, <1>4, <1>5

(* A result is taken, or an exception named, and the loop goes on.         *)
LEMMA TakenIsReported ==
  ASSUME LoopInv, TargetsInv, cstep \in Inside, Advance, UNCHANGED <<job, scope, results>>, CrashesApart',
         \/ Crashed
         \/ \E ids, faults : TakeResult(ids, faults) /\ <<"crash">> \notin faults
  PROVE  TargetsInv'
  <1>1. /\ job.kind = "scan" /\ pos \in 1..Len(job.targets) /\ Len(job.targets) \in Nat
        /\ DOMAIN job.targets = 1..Len(job.targets)
    BY JobTargets DEF LoopInv, Inside
  <1>2. Current.scanner # "unknown" /\ ScanReported
    BY <1>1 DEF LoopInv, Inside, TargetsInv
  <1>3. pos' = pos + 1 /\ cstep' = "next" /\ job' = job /\ scope' = scope
    BY DEF Advance
  <1>4. \/ /\ taken_in' = taken_in \cup {pos} /\ covered' = covered \cup {Current.scanner}
           /\ \A i : Crash(i)' <=> Crash(i)
        \/ /\ taken_in' = taken_in /\ covered' = covered
           /\ \A i : Crash(i)' <=> (Crash(i) \/ i = pos)
    <2>1. CASE Crashed
      BY <2>1 DEF Crashed, Crash
    <2>2. CASE \E ids, faults : TakeResult(ids, faults) /\ <<"crash">> \notin faults
      BY <2>2 DEF TakeResult, Crash
    <2> QED
      BY <2>1, <2>2
  <1>5. errors \subseteq errors'
    BY DEF Crashed, TakeResult
  <1>6. pos \in scope /\ pos \notin taken_in /\ ~Crash(pos)
    BY <1>1, <1>2 DEF ScanReported, LoopInv
  <1>7. \A i \in 1..pos : DoneWith(i)'
    <2> TAKE i \in 1..pos
    <2>1. CASE i = pos
      BY <1>2, <1>3, <1>4, <1>6, <2>1 DEF DoneWith, Current
    <2>2. CASE i # pos
      <3>1. i \in 1..(pos - 1)
        BY <1>1, <2>2
      <3>2. DoneWith(i)
        BY <1>2, <3>1 DEF ScanReported
      <3> QED
        BY <1>3, <1>4, <1>5, <2>2, <3>2 DEF DoneWith, Crash
    <2> QED
      BY <2>1, <2>2
  <1>8. \A i \in DOMAIN job.targets : i >= pos + 1 => i \notin taken_in' /\ ~Crash(i)'
    <2> TAKE i \in DOMAIN job.targets
    <2>1. i \in Nat /\ pos \in Nat
      BY <1>1
    <2>2. i >= pos + 1 => i >= pos /\ i # pos
      BY <2>1
    <2>3. i >= pos => i \notin taken_in /\ ~Crash(i)
      BY <1>2 DEF ScanReported
    <2> QED
      BY <1>4, <2>2, <2>3
  <1>9. /\ \A i \in scope' : i \in 1..pos
        /\ taken_in' \subseteq 1..pos
    <2>1. 1..(pos - 1) \subseteq 1..pos /\ pos \in 1..pos
      BY <1>1
    <2>2. (\A i \in scope : i \in 1..(pos - 1) \/ i = pos) /\ taken_in \subseteq 1..(pos - 1)
      BY <1>2 DEF ScanReported
    <2> QED
      BY <1>3, <1>4, <2>1, <2>2
  <1>10. covered' = {job.targets[j].scanner : j \in taken_in'}
    BY <1>2, <1>4 DEF ScanReported, Current
  <1>11. ScanReported'
    <2>1. pos' - 1 = pos
      BY <1>1, <1>3
    <2> QED
      BY <1>3, <1>7, <1>8, <1>9, <1>10, <2>1 DEF ScanReported, Inside
  <1> QED
    BY <1>1, <1>3, <1>11 DEF TargetsInv

(* A target that no scanner is known for is named.                         *)
LEMMA UnknownIsReported ==
  ASSUME LoopInv, TargetsInv, UnknownScanner
  PROVE  TargetsInv'
  <1>1. job.kind = "scan" /\ pos \in 1..Len(job.targets) /\ Len(job.targets) \in Nat /\ cstep = "next"
    BY JobTargets DEF LoopInv, UnknownScanner, More
  <1>2. Current.scanner = "unknown" /\ ScanReported
    BY <1>1 DEF UnknownScanner, TargetsInv
  <1>3. pos' = pos + 1 /\ cstep' = "next" /\ job' = job /\ scope' = scope /\ covered' = covered
        /\ taken_in' = taken_in /\ errors' = errors \cup {<<pos, <<"unknown">>>>}
    BY DEF UnknownScanner, Advance
  <1>4. \A i : Crash(i)' <=> Crash(i)
    BY <1>3 DEF Crash
  <1>5. pos \notin scope
    BY <1>1, <1>2 DEF ScanReported, Inside
  <1>6. \A i \in 1..pos : DoneWith(i)'
    <2> TAKE i \in 1..pos
    <2>1. CASE i = pos
      BY <1>2, <1>3, <1>5, <2>1 DEF DoneWith, Current
    <2>2. CASE i # pos
      <3>1. i \in 1..(pos - 1)
        BY <1>1, <2>2
      <3>2. DoneWith(i)
        BY <1>2, <3>1 DEF ScanReported
      <3> QED
        BY <1>3, <1>4, <3>2 DEF DoneWith
    <2> QED
      BY <2>1, <2>2
  <1>7. ScanReported'
    <2>1. pos' - 1 = pos
      BY <1>1, <1>3
    <2>2. \A i \in DOMAIN job.targets : i >= pos + 1 => i \notin taken_in /\ ~Crash(i)'
      BY <1>1, <1>2, <1>4, JobTargets DEF ScanReported, LoopInv
    <2>3. (\A i \in scope : i \in 1..pos) /\ taken_in \subseteq 1..pos
      BY <1>1, <1>2 DEF ScanReported, Inside
    <2> QED
      BY <1>2, <1>3, <1>6, <2>1, <2>2, <2>3 DEF ScanReported, Inside
  <1>8. CrashesApart' /\ (\E S : results \in Seq(S))'
    BY DEF UnknownScanner, TargetsInv, CrashesApart, kvars, nvars, svars
  <1> QED
    BY <1>1, <1>3, <1>7, <1>8 DEF TargetsInv

(* A target that a scanner is known for is looked at.                      *)
LEMMA StartIsReported ==
  ASSUME LoopInv, TargetsInv, StartScan
  PROVE  TargetsInv'
  <1>1. job.kind = "scan" /\ pos \in 1..Len(job.targets) /\ Len(job.targets) \in Nat /\ cstep = "next"
    BY JobTargets DEF LoopInv, StartScan, More
  <1>2. ScanReported /\ Current.scanner # "unknown"
    BY <1>1 DEF TargetsInv, StartScan
  <1>3. scope' = scope \cup {pos} /\ cstep' \in Inside
        /\ UNCHANGED <<pos, job, covered, taken_in, errors, results>>
    <2>1. CASE Current.scanner = "cloud"
      BY <2>1 DEF StartScan, Inside
    <2>2. CASE Current.scanner \in {"ssh", "tls"}
      BY <2>2 DEF StartScan, Inside
    <2>3. CASE Current.scanner = "container"
      BY <2>3 DEF StartScan, Inside
    <2>4. CASE Current.scanner \in {"source", "config", "dependencies"}
      BY <2>4 DEF StartScan, Inside
    <2>5. CASE Current.scanner \notin {"cloud", "ssh", "tls", "container", "source", "config", "dependencies"}
      BY <2>5 DEF StartScan, Inside
    <2> QED
      BY <2>1, <2>2, <2>3, <2>4, <2>5
  <1>4. \A i \in 1..(pos - 1) : DoneWith(i)'
    <2> TAKE i \in 1..(pos - 1)
    <2>1. DoneWith(i) /\ i # pos
      BY <1>1, <1>2 DEF ScanReported
    <2> QED
      BY <1>3, <2>1 DEF DoneWith, Crash
  <1>5. ScanReported'
    BY <1>1, <1>2, <1>3, <1>4 DEF ScanReported, Crash, Inside
  <1>6. CrashesApart'
    <2>1. named' = {} \/ named' = named
      BY DEF StartScan, BeginStore, StartStore, kvars
    <2>2. noted' = {} \/ noted' = noted
      BY DEF StartScan, BeginImage, StartImage, nvars
    <2>3. unread' = {} \/ unread' = unread
      BY DEF StartScan, BeginFiles, StartFiles, svars
    <2> QED
      BY <2>1, <2>2, <2>3 DEF TargetsInv, CrashesApart
  <1> QED
    BY <1>1, <1>3, <1>5, <1>6 DEF TargetsInv

(* A project that is done with has a result.                               *)
LEMMA ProjectIsReported ==
  ASSUME LoopInv, TargetsInv, TakeTree \/ ScanTree
  PROVE  TargetsInv'
  <1>1. job.kind # "scan" /\ pos \in 1..Len(job.targets) /\ cstep \in {"fetch", "tree"} /\ job' = job
    BY JobTargets DEF LoopInv, TakeTree, ScanTree
  <1>2. ProjectsReported /\ CrashesApart /\ \E S : results \in Seq(S)
    BY <1>1 DEF TargetsInv
  <1>3. CrashesApart'
    BY <1>2 DEF TakeTree, ScanTree, CrashesApart, kvars, nvars, svars
  <1>4. CASE pos' = pos /\ results' = results
    BY <1>1, <1>2, <1>3, <1>4 DEF TargetsInv, ProjectsReported
  <1>5. CASE pos' = pos + 1 /\ \E ok, lost : Result(ok, lost)
    <2>1. PICK r : results' = Append(results, r) /\ r.of = Current.of
      BY <1>5 DEF Result
    <2>2. /\ Len(results') = pos /\ DOMAIN results' = 1..pos
          /\ \A i \in 1..(pos - 1) : results'[i] = results[i]
          /\ results'[pos] = r
          /\ \E S : results' \in Seq(S)
      <3> PICK S : results \in Seq(S)
        BY <1>2
      <3>1. results \in Seq(S \cup {r})
        BY SeqMonotonic
      <3>2. Len(results) = pos - 1 /\ pos \in Nat
        BY <1>1, <1>2 DEF ProjectsReported
      <3> QED
        BY <2>1, <3>1, <3>2, AppendProperties
    <2>3. (\E S : results \in Seq(S))'
      BY <2>2
    <2>4. \A i \in DOMAIN results' : results'[i].of = job.targets[i].of
      BY <1>1, <1>2, <2>1, <2>2 DEF ProjectsReported, Current
    <2>5. pos' - 1 = pos
      BY <1>1, <1>5
    <2> QED
      BY <1>1, <1>3, <2>2, <2>3, <2>4, <2>5 DEF TargetsInv, ProjectsReported
  <1>6. \/ pos' = pos /\ results' = results
        \/ pos' = pos + 1 /\ \E ok, lost : Result(ok, lost)
    BY DEF TakeTree, ScanTree, Advance
  <1> QED
    BY <1>4, <1>5, <1>6

(* A step inside a machine reports nothing yet.                            *)
LEMMA InsideReportsNothing ==
  ASSUME LoopInv, TargetsInv, UNCHANGED <<job, pos, scope, covered, taken_in, errors, results>>,
         cstep' = cstep \/ (cstep \notin Inside /\ cstep' \notin Inside), CrashesApart'
  PROVE  TargetsInv'
  <1>1. CASE job.kind = "scan"
    <2>1. ScanReported
      BY <1>1 DEF TargetsInv
    <2>2. ScanReported'
      BY <2>1 DEF ScanReported, DoneWith, Crash, Inside
    <2> QED
      BY <1>1, <2>2 DEF TargetsInv
  <1>2. CASE job.kind # "scan"
    BY <1>2 DEF TargetsInv, ProjectsReported
  <1> QED
    BY <1>1, <1>2

(* Every step reports what it is done with.                                *)
LEMMA TargetsKeep == LoopInv /\ TargetsInv /\ [CollectNext]_vars => TargetsInv'
  <1> SUFFICES ASSUME LoopInv, TargetsInv, [CollectNext]_vars
               PROVE  TargetsInv'
    OBVIOUS
  <1>1. CrashesApart
    BY DEF TargetsInv
  <1>2. CASE Walk \/ Probe \/ Image \/ Code
    <2>1. UNCHANGED rvars
      BY <1>2 DEF Walk, Probe, Image, Code
    <2>2. CrashesApart'
      BY <1>1, <1>2, MachinesNameNoCrash DEF Walk, Probe, Image, Code, CrashesApart, kvars, nvars, svars
    <2>3. UNCHANGED <<job, pos, scope, covered, taken_in, errors, results>>
      BY <2>1 DEF rvars
    <2>4. cstep' = cstep \/ (cstep \notin Inside /\ cstep' \notin Inside)
      BY <2>1 DEF rvars
    <2> QED
      BY <2>2, <2>3, <2>4, InsideReportsNothing
  <1>3. CASE Chain \/ Fetch \/ Ended \/ UNCHANGED vars
    <2>1. UNCHANGED <<rvars, kvars, nvars, svars>>
      BY <1>3 DEF Chain, Fetch, Ended, vars
    <2>2. UNCHANGED <<job, pos, scope, covered, taken_in, errors, results>>
      BY <2>1 DEF rvars
    <2>3. cstep' = cstep \/ (cstep \notin Inside /\ cstep' \notin Inside)
      BY <2>1 DEF rvars
    <2>4. CrashesApart'
      BY <1>1, <2>1 DEF CrashesApart, kvars, nvars, svars
    <2> QED
      BY <2>2, <2>3, <2>4, InsideReportsNothing
  <1>4. CASE Rest \/ Finish \/ StartTree
    <2>1. UNCHANGED <<kvars, nvars, svars, job, pos, scope, covered, taken_in, errors, results>>
      BY <1>4 DEF Rest, Finish, StartTree
    <2>2. cstep \notin Inside /\ cstep' \notin Inside
      BY <1>4 DEF Rest, Finish, StartTree, More, Inside
    <2>3. CrashesApart'
      BY <1>1, <2>1 DEF CrashesApart, kvars, nvars, svars
    <2> QED
      BY <2>1, <2>2, <2>3, InsideReportsNothing
  <1>5. ASSUME TakeStore \/ TakeHost \/ TakeImage \/ TakeCode \/ TakeFiles
        PROVE  TargetsInv'
    <2>1. cstep \in Inside /\ Advance /\ UNCHANGED <<job, scope, results>>
      BY <1>5 DEF TakeStore, TakeHost, TakeImage, TakeCode, TakeFiles, Inside
    <2>2. CrashesApart'
      BY <1>1, <1>5 DEF TakeStore, TakeHost, TakeImage, TakeCode, TakeFiles, CrashesApart, kvars, nvars, svars,
                        KeyStoreReset, StartStore, ContainerReset, StartImage, FilesReset, StartFiles
    <2>3. <<"crash">> \notin (IF failed THEN {Whole} ELSE {})
      BY DEF Whole
    <2>4. \/ Crashed
          \/ \E ids, faults : TakeResult(ids, faults) /\ <<"crash">> \notin faults
      BY <1>1, <1>5, <2>3 DEF TakeStore, TakeHost, TakeImage, TakeCode, TakeFiles, CrashesApart
    <2> QED
      BY <2>1, <2>2, <2>4, TakenIsReported
  <1> QED
    BY <1>2, <1>3, <1>4, <1>5, UnknownIsReported, StartIsReported, ProjectIsReported DEF CollectNext

(* A run looks at every target it knows a scanner for, each is taken into  *)
(* the report or named, a source is covered exactly if one of its targets  *)
(* was taken, and a survey has one result for each project, in order.      *)
THEOREM TargetsReported == CollectSpec => []EveryTargetReported
  <1>1. CollectInit => TargetsInv
    <2> SUFFICES ASSUME CollectInit
                 PROVE  TargetsInv
      OBVIOUS
    <2>1. Len(job.targets) \in Nat /\ DOMAIN job.targets = 1..Len(job.targets)
      BY JobTargets DEF CollectInit
    <2> QED
      BY <2>1 DEF CollectInit, KeyStoreInit, ContainerInit, FilesInit, TargetsInv, CrashesApart, ScanReported,
                  ProjectsReported, Crash, Inside, Range
  <1>2. LoopInv /\ TargetsInv => EveryTargetReported
    <2> SUFFICES ASSUME LoopInv, TargetsInv, Finished
                 PROVE  IF job.kind = "scan"
                        THEN \A i \in DOMAIN job.targets :
                               LET name == job.targets[i].scanner IN
                               IF name = "unknown" THEN <<i, <<"unknown">>>> \in errors /\ i \notin scope
                               ELSE /\ i \in scope
                                    /\ (i \in taken_in) # (<<i, <<"crash">>>> \in errors)
                                    /\ name \in covered <=> \E j \in taken_in : job.targets[j].scanner = name
                        ELSE /\ Len(results) = Len(job.targets)
                             /\ \A i \in DOMAIN results : results[i].of = job.targets[i].of
      BY DEF EveryTargetReported
    <2>1. pos - 1 = Len(job.targets) /\ DOMAIN job.targets = 1..Len(job.targets)
      BY JobTargets DEF LoopInv, Finished
    <2>2. CASE job.kind = "scan"
      <3>1. /\ \A i \in DOMAIN job.targets : DoneWith(i)
            /\ covered = {job.targets[j].scanner : j \in taken_in}
        BY <2>1, <2>2 DEF TargetsInv, ScanReported
      <3> QED
        BY <2>2, <3>1 DEF DoneWith, Crash
    <2>3. CASE job.kind # "scan"
      BY <2>1, <2>3 DEF TargetsInv, ProjectsReported
    <2> QED
      BY <2>2, <2>3
  <1> QED
    BY <1>1, <1>2, LoopHolds, TargetsKeep, PTL DEF CollectSpec

-----------------------------------------------------------------------------
(* What is gathered: images.                                               *)

(* What joins the report, without the links of certificates.               *)
Gatherable(g) ==
  LET assets == g.assets IN
  /\ assets \in Seq(Asset)
  /\ \A i \in DOMAIN assets :
       Coherent(assets[i]) /\ (i \in g.moved => Relocated(assets[i]) \in Asset)
  /\ \A l \in g.links : \A i \in {l[1], l[2]} :
       i \in DOMAIN assets
         /\ (i \in g.moved => assets[i].lib # None \/ assets[i].cert # None)

LEMMA UnsignedJoins ==
  ASSUME NEW g, Gatherable(g), links = {}
  PROVE  Joinable(g)
  <1>1. Signed(g.found) = {}
    BY DEF Signed
  <1> QED
    BY <1>1 DEF Joinable, Gatherable

(* Every asset of a piece is one of another's, read or gathered.           *)
Holds(assets, piece) == Range(piece.assets) \subseteq Range(assets)

Syfted(n) == n \subseteq {<<"syft">>}

(* What scan() has of an image at each of its steps.                       *)
SoFar ==
  CASE istep \in {"catalogue", "save", "unpack", "tree"} ->
         /\ istep \in {"catalogue", "save"} => image.form = "name"
         /\ gathered.moved = {} /\ Syfted(noted)
         /\ Range(gathered.assets) \subseteq Range(image.catalogue.assets)
    [] istep = "material" ->
         /\ <<"target">> \notin noted
         /\ Holds(gathered.assets, image.tree[dropped]) \/ <<"tree">> \in noted
         /\ <<"tree">> \in noted => gathered.moved = {}
    [] istep = "done" -> ImageAccounted
    [] istep = "crashed" -> TRUE
    [] OTHER -> FALSE

ImageInv ==
  istep # "idle" =>
    /\ IsImage(image) /\ dropped \in SUBSET image.nested
    /\ gathered = [assets |-> gathered.assets, links |-> gathered.links,
                   moved |-> gathered.moved, found |-> <<>>]
    /\ gathered.moved \subseteq DOMAIN gathered.assets
    /\ Gatherable(gathered) /\ SoFar

(* A piece is put behind what is gathered; all that was there still is.    *)
LEMMA GatherKeeps ==
  ASSUME NEW piece, NEW moving \in BOOLEAN, Gather(piece, moving), IsPiece(piece),
         gathered = [assets |-> gathered.assets, links |-> gathered.links,
                     moved |-> gathered.moved, found |-> <<>>],
         gathered.moved \subseteq DOMAIN gathered.assets,
         Gatherable(gathered),
         moving => /\ \A i \in DOMAIN piece.assets : Relocated(piece.assets[i]) \in Asset
                   /\ \A l \in piece.links : \A i \in {l[1], l[2]} :
                        piece.assets[i].lib # None \/ piece.assets[i].cert # None
  PROVE  /\ gathered' = [assets |-> gathered'.assets, links |-> gathered'.links,
                         moved |-> gathered'.moved, found |-> <<>>]
         /\ gathered'.moved \subseteq DOMAIN gathered'.assets
         /\ Gatherable(gathered')
         /\ Range(gathered'.assets) = Range(gathered.assets) \cup Range(piece.assets)
         /\ ~moving => gathered'.moved = gathered.moved
  <1> DEFINE a == gathered.assets
             p == piece.assets
             n == Len(a)
             all == a \o p
             moved == gathered.moved \cup (IF moving THEN {n + i : i \in DOMAIN p} ELSE {})
             said_ == gathered.links \cup {<<n + l[1], n + l[2], l[3]>> : l \in piece.links}
  <1>1. gathered' = [assets |-> all, links |-> said_, moved |-> moved, found |-> <<>>]
    <2>1. PICK A, L, M : gathered = [assets |-> A, links |-> L, moved |-> M, found |-> <<>>]
      OBVIOUS
    <2>2. a = A /\ gathered.links = L /\ gathered.moved = M
      BY <2>1
    <2> HIDE DEF all, said_, moved
    <2>3. gathered' = [gathered EXCEPT !.assets = all, !.links = said_, !.moved = moved]
      BY DEF Gather, all, said_, moved
    <2> QED
      BY <2>1, <2>3
  <1>2. a \in Seq(Asset) /\ p \in Seq(Asset)
    BY DEF Gatherable, IsPiece
  <1>3. n \in Nat /\ Len(p) \in Nat /\ DOMAIN a = 1..n /\ DOMAIN p = 1..Len(p)
    BY <1>2, LenProperties
  <1>4. /\ all \in Seq(Asset) /\ DOMAIN all = 1..(n + Len(p))
        /\ \A i \in DOMAIN a : i \in DOMAIN all /\ all[i] = a[i]
        /\ \A i \in DOMAIN p : n + i \in DOMAIN all /\ all[n + i] = p[i] /\ n + i \notin DOMAIN a
    <2>1. all \in Seq(Asset) /\ Len(all) = n + Len(p)
      BY <1>2, ConcatProperties
    <2>2. \A i \in 1..(n + Len(p)) : all[i] = IF i <= n THEN a[i] ELSE p[i - n]
      BY <1>2, <1>3, ConcatProperties
    <2>3. DOMAIN all = 1..(n + Len(p))
      BY <2>1, LenProperties
    <2> HIDE DEF all, a, p, n
    <2>4. \A i \in DOMAIN p : n + i \in 1..(n + Len(p)) /\ ~(n + i <= n) /\ n + i - n = i
      BY <1>3
    <2>5. \A i \in DOMAIN a : i \in 1..(n + Len(p)) /\ i <= n
      BY <1>3
    <2>6. \A i \in DOMAIN p : all[n + i] = p[i]
      <3> TAKE i \in DOMAIN p
      <3>1. PICK k : k = n + i
        OBVIOUS
      <3>2. k \in 1..(n + Len(p)) /\ ~(k <= n) /\ k - n = i
        BY <1>3, <3>1
      <3>3. all[k] = p[k - n]
        BY <2>2, <3>2
      <3> QED
        BY <3>1, <3>2, <3>3
    <2>7. \A i \in DOMAIN p : n + i \notin DOMAIN a
      BY <1>3, <2>4
    <2>8. \A i \in DOMAIN a : all[i] = a[i]
      BY <2>2, <2>5
    <2> QED
      BY <2>1, <2>3, <2>4, <2>5, <2>6, <2>7, <2>8
  <1>5. \A i \in DOMAIN all : i \in DOMAIN a \/ \E j \in DOMAIN p : i = n + j
    <2> HIDE DEF all, a, p, n
    <2> TAKE i \in DOMAIN all
    <2>1. i \in 1..(n + Len(p))
      BY <1>4
    <2>2. CASE i > n
      <3>1. i - n \in DOMAIN p /\ i = n + (i - n)
        BY <1>3, <2>1, <2>2
      <3> QED
        BY <3>1
    <2> QED
      BY <1>3, <2>1, <2>2
  <1>6. \A i \in DOMAIN a : i \in moved <=> i \in gathered.moved
    BY <1>3, <1>4
  <1>7. \A i \in DOMAIN p : n + i \in moved <=> moving
    BY <1>3, <1>4
  <1>8. moved \subseteq DOMAIN all
    BY <1>4
  <1>9. \A l \in said_ : \/ l \in gathered.links
                         \/ \E m \in piece.links : l[1] = n + m[1] /\ l[2] = n + m[2]
    OBVIOUS
  <1>10. Range(all) = Range(a) \cup Range(p)
    <2> HIDE DEF all, a, p, n
    <2> QED
      BY <1>4, <1>5 DEF Range
  <1> HIDE DEF all, moved, said_, n
  <1>11. \A i \in DOMAIN all : Coherent(all[i]) /\ (i \in moved => Relocated(all[i]) \in Asset)
    <2> TAKE i \in DOMAIN all
    <2>1. CASE i \in DOMAIN a
      BY <1>4, <1>6, <2>1 DEF Gatherable
    <2>2. CASE \E j \in DOMAIN p : i = n + j
      <3>1. PICK j \in DOMAIN p : i = n + j
        BY <2>2
      <3>2. all[i] = p[j] /\ (i \in moved <=> moving)
        BY <1>4, <1>7, <3>1
      <3> QED
        BY <3>2 DEF IsPiece
    <2> QED
      BY <1>5, <2>1, <2>2
  <1>12. \A l \in said_ : \A i \in {l[1], l[2]} :
           i \in DOMAIN all /\ (i \in moved => all[i].lib # None \/ all[i].cert # None)
    <2> TAKE l \in said_
    <2>1. CASE l \in gathered.links
      BY <1>4, <1>6, <2>1 DEF Gatherable
    <2>2. CASE \E m \in piece.links : l[1] = n + m[1] /\ l[2] = n + m[2]
      <3>1. PICK m \in piece.links : l[1] = n + m[1] /\ l[2] = n + m[2]
        BY <2>2
      <3>2. \A j \in {m[1], m[2]} : j \in DOMAIN p /\ (moving => p[j].lib # None \/ p[j].cert # None)
        BY <3>1 DEF IsPiece
      <3> QED
        BY <1>4, <1>7, <3>1, <3>2
    <2> QED
      BY <1>9, <2>1, <2>2
  <1>13. /\ gathered'.assets = all /\ gathered'.links = said_ /\ gathered'.moved = moved
         /\ gathered'.found = <<>>
    BY <1>1
  <1>14. Gatherable(gathered')
    BY <1>4, <1>11, <1>12, <1>13 DEF Gatherable
  <1>15. ~moving => moved = gathered.moved
    BY DEF moved
  <1> QED
    BY <1>1, <1>8, <1>10, <1>13, <1>14, <1>15

(* An image goes on to be gathered: with a tool's result or without it.    *)
LEMMA ImageGoesOn == istep # "idle" /\ ImageInv /\ ContainerNext => ImageInv'
  <1> SUFFICES ASSUME istep # "idle", ImageInv, ContainerNext
               PROVE  ImageInv'
    OBVIOUS
  <1> DEFINE Shape(g) == /\ g = [assets |-> g.assets, links |-> g.links, moved |-> g.moved, found |-> <<>>]
                         /\ g.moved \subseteq DOMAIN g.assets
                         /\ Gatherable(g)
             walked == image.tree[dropped]
             baked == image.material[dropped]
  <1>1. IsImage(image) /\ dropped \in SUBSET image.nested /\ Shape(gathered) /\ SoFar
    BY DEF ImageInv
  <1>2. /\ IsPiece(image.catalogue) /\ IsPiece(walked) /\ IsPiece(baked)
        /\ \A i \in DOMAIN walked.assets : Relocated(walked.assets[i]) \in Asset
        /\ \A l \in walked.links : \A i \in {l[1], l[2]} :
             walked.assets[i].lib # None \/ walked.assets[i].cert # None
    BY <1>1 DEF IsImage
  <1>3. image' = image /\ dropped' \in SUBSET image.nested /\ (~Unpack => dropped' = dropped)
    BY <1>1 DEF ContainerNext, Catalogue, NoDocker, Save, Unpack, WalkTree, KeyMaterial, EndImage
  <1>4. ASSUME NEW piece, NEW moving \in BOOLEAN, Gather(piece, moving),
               <<piece, moving>> \in {<<image.catalogue, FALSE>>, <<walked, TRUE>>, <<baked, FALSE>>}
        PROVE  /\ Shape(gathered')
               /\ Range(gathered'.assets) = Range(gathered.assets) \cup Range(piece.assets)
               /\ ~moving => gathered'.moved = gathered.moved
    BY <1>1, <1>2, <1>4, GatherKeeps
  <1>5. ASSUME UNCHANGED gathered
        PROVE  Shape(gathered')
    BY <1>1, <1>5
  <1> HIDE DEF Shape
  <1>6. Shape(gathered') /\ SoFar' => ImageInv'
    BY <1>1, <1>3 DEF ImageInv, Shape
  <1>7. \A S : Syfted(S) => <<"target">> \notin S /\ <<"tree">> \notin S
    <2>1. <<"target">> # <<"syft">> /\ <<"tree">> # <<"syft">>
      OBVIOUS
    <2> QED
      BY <2>1 DEF Syfted
  <1>8. ASSUME istep' = "crashed", UNCHANGED gathered
        PROVE  ImageInv'
    <2>1. SoFar'
      BY <1>8 DEF SoFar
    <2> QED
      BY <1>5, <1>6, <1>8, <2>1
  <1>9. CASE Catalogue /\ istep' # "crashed"
    <2>1. istep = "catalogue" /\ istep' = "save"
      BY <1>9 DEF Catalogue
    <2>2. /\ image.form = "name" /\ gathered.moved = {} /\ Syfted(noted)
          /\ Range(gathered.assets) \subseteq Range(image.catalogue.assets)
      BY <1>1, <2>1 DEF SoFar
    <2>3. CASE Gather(image.catalogue, FALSE) /\ UNCHANGED noted
      <3>1. /\ Shape(gathered') /\ gathered'.moved = gathered.moved
            /\ Range(gathered'.assets) = Range(gathered.assets) \cup Range(image.catalogue.assets)
        BY <1>4, <2>3
      <3>2. SoFar'
        BY <1>3, <2>1, <2>2, <2>3, <3>1 DEF SoFar
      <3> QED
        BY <1>6, <3>1, <3>2
    <2>4. CASE UNCHANGED gathered /\ (Note("syft") \/ UNCHANGED noted)
      <3>1. SoFar'
        BY <1>3, <2>1, <2>2, <2>4 DEF SoFar, Syfted, Note
      <3> QED
        BY <1>5, <1>6, <2>4, <3>1
    <2> QED
      BY <1>9, <2>3, <2>4 DEF Catalogue
  <1>10. CASE (NoDocker \/ Save \/ Unpack) /\ istep' # "crashed"
    <2>1. gathered' = gathered /\ istep \in {"save", "unpack"}
      BY <1>10 DEF NoDocker, Save, Unpack, EndImage
    <2>2. /\ gathered.moved = {} /\ Syfted(noted) /\ (istep = "save" => image.form = "name")
          /\ Range(gathered.assets) \subseteq Range(image.catalogue.assets)
      BY <1>1, <2>1 DEF SoFar
    <2>3. CASE istep' \in {"unpack", "tree"} /\ noted' = noted
      <3>1. SoFar'
        BY <1>3, <2>1, <2>2, <2>3 DEF SoFar
      <3> QED
        BY <1>5, <1>6, <2>1, <3>1
    <2>4. CASE istep' = "done" /\ (Note("target") \/ (UNCHANGED noted /\ image.form = "name" /\ ~image.docker
                                                     /\ gathered.assets # <<>>))
      <3>1. ImageAccounted'
        BY <1>3, <1>7, <2>1, <2>2, <2>4 DEF ImageAccounted, Note, Told, OnlyCatalogued
      <3>2. SoFar'
        BY <2>4, <3>1 DEF SoFar
      <3> QED
        BY <1>5, <1>6, <2>1, <3>2
    <2> QED
      BY <1>10, <2>1, <2>2, <2>3, <2>4 DEF NoDocker, Save, Unpack, EndImage
  <1>11. CASE WalkTree
    <2>1. istep = "tree" /\ istep' = "material" /\ dropped' = dropped
      BY <1>11 DEF WalkTree
    <2>2. gathered.moved = {} /\ Syfted(noted)
      BY <1>1, <2>1 DEF SoFar
    <2>3. CASE Gather(walked, TRUE) /\ UNCHANGED noted
      <3>1. /\ Shape(gathered')
            /\ Range(gathered'.assets) = Range(gathered.assets) \cup Range(walked.assets)
        BY <1>4, <2>3
      <3>2. SoFar'
        BY <1>3, <1>7, <2>1, <2>2, <2>3, <3>1 DEF SoFar, Holds
      <3> QED
        BY <1>6, <3>1, <3>2
    <2>4. CASE Note("tree") /\ UNCHANGED gathered
      <3>1. <<"target">> # <<"tree">>
        OBVIOUS
      <3>2. SoFar'
        BY <1>3, <1>7, <2>1, <2>2, <2>4, <3>1 DEF SoFar, Note
      <3> QED
        BY <1>5, <1>6, <2>4, <3>2
    <2> QED
      BY <1>11, <2>3, <2>4 DEF WalkTree
  <1>12. CASE KeyMaterial
    <2>1. istep = "material" /\ noted' = noted /\ dropped' = dropped
      BY <1>12 DEF KeyMaterial
    <2>2. /\ <<"target">> \notin noted
          /\ Holds(gathered.assets, walked) \/ <<"tree">> \in noted
          /\ <<"tree">> \in noted => gathered.moved = {}
      BY <1>1, <2>1 DEF SoFar
    <2>3. CASE istep' = "done" /\ Gather(baked, FALSE)
      <3>1. /\ Shape(gathered') /\ gathered'.moved = gathered.moved
            /\ Range(gathered'.assets) = Range(gathered.assets) \cup Range(baked.assets)
        BY <1>4, <2>3
      <3>2. ImageAccounted'
        BY <1>3, <2>1, <2>2, <2>3, <3>1 DEF ImageAccounted, Holds, Holding, Told
      <3>3. SoFar'
        BY <2>3, <3>2 DEF SoFar
      <3> QED
        BY <1>6, <3>1, <3>3
    <2>4. CASE istep' = "crashed" /\ UNCHANGED gathered
      BY <1>8, <2>4
    <2> QED
      BY <1>12, <2>3, <2>4 DEF KeyMaterial
  <1>13. CASE (Catalogue \/ NoDocker \/ Save \/ Unpack) /\ istep' = "crashed"
    <2>1. UNCHANGED gathered
      BY <1>13 DEF Catalogue, NoDocker, Save, Unpack, EndImage
    <2> QED
      BY <1>8, <1>13, <2>1
  <1> QED
    BY <1>9, <1>10, <1>11, <1>12, <1>13 DEF ContainerNext

(* An image is begun with nothing gathered.                                *)
LEMMA ImageBegins ==
  ASSUME NEW t, IsImage(t), BeginImage(t)
  PROVE  ImageInv'
  <1> DEFINE g == Nothing
  <1>1. /\ image' = t /\ dropped' = {} /\ gathered' = g /\ noted' = {}
        /\ istep' \in {"tree", "unpack", "catalogue", "save"}
        /\ istep' \in {"catalogue", "save"} => t.form = "name"
    BY DEF BeginImage, StartImage, IsImage
  <1>2. /\ g.assets = <<>> /\ g.links = {} /\ g.moved = {}
        /\ g = [assets |-> g.assets, links |-> g.links, moved |-> g.moved, found |-> <<>>]
    BY DEF Nothing
  <1>3. Gatherable(g)
    BY <1>2 DEF Gatherable
  <1>4. Range(<<>>) = {}
    BY DEF Range
  <1> HIDE DEF g
  <1>5. SoFar'
    BY <1>1, <1>2, <1>4 DEF SoFar, Syfted
  <1> QED
    BY <1>1, <1>2, <1>3, <1>5 DEF ImageInv

(* Every step of the loop keeps what is gathered of an image.              *)
LEMMA ImageKeeps == LoopInv /\ ImageInv /\ [CollectNext]_vars => ImageInv'
  <1> SUFFICES ASSUME LoopInv, ImageInv, [CollectNext]_vars
               PROVE  ImageInv'
    OBVIOUS
  <1>1. CASE UNCHANGED nvars
    BY <1>1 DEF nvars, ImageInv, SoFar, ImageAccounted, Holding, Told, OnlyCatalogued
  <1>2. CASE Image
    <2>1. istep # "idle"
      BY <1>2 DEF LoopInv, Image
    <2> QED
      BY <1>2, <2>1, ImageGoesOn DEF Image
  <1>3. CASE StartScan
    <2>1. CASE Current.scanner = "container"
      <3>1. IsImage(Current.of)
        BY <1>3, <2>1, JobTargets DEF StartScan, More, LoopInv, Current
      <3>2. BeginImage(Current.of)
        BY <1>3, <2>1 DEF StartScan
      <3> QED
        BY <3>1, <3>2, ImageBegins
    <2>2. CASE Current.scanner # "container"
      BY <1>1, <1>3, <2>2 DEF StartScan
    <2> QED
      BY <2>1, <2>2
  <1>4. CASE TakeImage
    BY <1>4 DEF TakeImage, ContainerReset, StartImage, ImageInv
  <1>5. UnknownScanner \/ Walk \/ Probe \/ Code \/ Chain \/ TakeStore \/ TakeHost \/ TakeCode \/ TakeFiles
          \/ StartTree \/ Fetch \/ TakeTree \/ ScanTree \/ Finish \/ Rest \/ Ended \/ UNCHANGED vars
            => UNCHANGED nvars
    BY DEF UnknownScanner, Walk, Probe, Code, Chain, TakeStore, TakeHost, TakeCode, TakeFiles, StartTree, Fetch,
           TakeTree, ScanTree, Finish, Rest, Ended, vars
  <1> QED
    BY <1>1, <1>2, <1>3, <1>4, <1>5 DEF CollectNext

(* What is gathered of an image, in every state.                           *)
LEMMA ImageHolds == CollectSpec => []ImageInv
  <1>1. CollectInit => ImageInv
    BY DEF CollectInit, ContainerInit, ImageInv
  <1> QED
    BY <1>1, LoopHolds, ImageKeeps, PTL DEF CollectSpec

(* The tree of an image as it was unpacked, and the key material in it,    *)
(* are in the result, whole, or an error names what is not, and nothing    *)
(* else of what it names is.  (The layers that were not unpacked are no    *)
(* part of that tree, and of no theorem.)                                  *)
THEOREM ImagesAccounted == CollectSpec => []ImageAccounted
  <1>1. ImageInv => ImageAccounted
    BY DEF ImageInv, SoFar, ImageAccounted
  <1> QED
    BY <1>1, ImageHolds, PTL

-----------------------------------------------------------------------------
(* What is gathered: trees of files.                                       *)

(* What is taken of a tree is a piece, and so is all that may be.          *)
CodeInv ==
  /\ fpos \in 1..(Len(files.all) + 1) /\ files.all \in Seq(Range(files.all))
  /\ sstep # "idle" =>
       /\ IsPiece(Piece(sourced, related))
       /\ sstep = "list" => IsTree(files) /\ fpos = 1
       /\ sstep = "files" => \A i \in DOMAIN files.all : \A p \in Readings(files.all[i]) : IsPiece(p)

(* Two pieces are one.                                                     *)
LEMMA JoinedIsPiece ==
  ASSUME NEW p, NEW q, IsPiece(p), IsPiece(q)
  PROVE  IsPiece(Joined(p, q))
  <1> DEFINE a == p.assets
             b == q.assets
             n == Len(a)
             all == a \o b
             both == p.links \cup {<<n + l[1], n + l[2], l[3]>> : l \in q.links}
  <1>1. Joined(p, q).assets = all /\ Joined(p, q).links = both
    BY DEF Joined, Piece
  <1>2. a \in Seq(Asset) /\ b \in Seq(Asset)
    BY DEF IsPiece
  <1>3. n \in Nat /\ Len(b) \in Nat /\ DOMAIN a = 1..n /\ DOMAIN b = 1..Len(b)
    BY <1>2, LenProperties
  <1>4. all \in Seq(Asset) /\ Len(all) = n + Len(b)
    BY <1>2, ConcatProperties
  <1>5. DOMAIN all = 1..(n + Len(b))
    BY <1>4, LenProperties
  <1>6. \A i \in 1..(n + Len(b)) : all[i] = IF i <= n THEN a[i] ELSE b[i - n]
    BY <1>2, <1>3, ConcatProperties
  <1> HIDE DEF all, a, b, n
  <1>7. \A i \in DOMAIN all : Coherent(all[i])
    <2> TAKE i \in DOMAIN all
    <2>1. CASE i <= n
      <3>1. i \in DOMAIN a /\ all[i] = a[i]
        BY <1>3, <1>5, <1>6, <2>1
      <3> QED
        BY <3>1 DEF IsPiece, a
    <2>2. CASE ~(i <= n)
      <3>1. i - n \in DOMAIN b /\ all[i] = b[i - n]
        BY <1>3, <1>5, <1>6, <2>2
      <3> QED
        BY <3>1 DEF IsPiece, b
    <2> QED
      BY <2>1, <2>2
  <1>8. \A l \in both : {l[1], l[2]} \subseteq DOMAIN all
    <2>1. \A l \in p.links : {l[1], l[2]} \subseteq DOMAIN all
      BY <1>3, <1>5 DEF IsPiece, a
    <2>2. \A l \in q.links : n + l[1] \in DOMAIN all /\ n + l[2] \in DOMAIN all
      <3> TAKE l \in q.links
      <3>1. l[1] \in 1..Len(b) /\ l[2] \in 1..Len(b)
        BY <1>3 DEF IsPiece, b
      <3> QED
        BY <1>3, <1>5, <3>1
    <2> QED
      BY <2>1, <2>2
  <1> QED
    BY <1>1, <1>4, <1>7, <1>8 DEF IsPiece

(* What a file is read as is findings of it.                               *)
LEMMA ReadingFacts ==
  ASSUME NEW f, IsFile(f), NEW p \in Readings(f)
  PROVE  PieceOf(f.id, p)
  <1>1. CASE f.lang = "python"
    <2>1. IsSeq(f.nodes) /\ p = Piece(PythonFindings(f.id, f.nodes), {})
      BY <1>1 DEF IsFile, IsProgram, Readings, IsSeq
    <2> QED
      BY <2>1, PythonFacts
  <1>2. CASE f.lang = "pattern"
    <2>1. IsSeq(f.text) /\ p = Piece(PatternFindings(f.id, f.text), {})
      BY <1>2 DEF IsFile, Readings, IsSeq
    <2> QED
      BY <2>1, PatternFacts
  <1>3. CASE f.lang = "config"
    <2>1. IsConfiguration(f) /\ p \in {Besides(f), Joined(Handled(f), Besides(f))}
      BY <1>3 DEF IsFile, Readings
    <2> QED
      BY <2>1, BesidesShown, WholeShown
  <1>4. CASE f.lang = "manifest"
    <2>1. IsSeq(f.deps) /\ p = ManifestPiece(f)
      BY <1>4 DEF IsFile, Readings, IsSeq
    <2> QED
      BY <2>1, ManifestFacts
  <1> QED
    BY <1>1, <1>2, <1>3, <1>4 DEF Readings

LEMMA ReadingsArePieces ==
  ASSUME NEW t, IsTree(t), NEW f \in Range(t.all), NEW p \in Readings(f)
  PROVE  IsPiece(p) /\ PieceOf(f.id, p)
  <1>1. PieceOf(f.id, p) /\ Range(p.assets) \subseteq Asset
    BY ReadingFacts DEF IsTree
  <1>2. p.assets \in Seq(Asset)
    BY <1>1, SeqWithin DEF PieceOf
  <1> QED
    BY <1>1, <1>2 DEF IsPiece, PieceOf

(* A file is taken whole or not at all.                                    *)
LEMMA TakeKeeps ==
  ASSUME NEW p, IsPiece(p), IsPiece(Piece(sourced, related)), Take(p)
  PROVE  IsPiece(Piece(sourced', related'))
  <1>1. IsPiece(Joined(Piece(sourced, related), p))
    BY JoinedIsPiece
  <1>2. Piece(sourced', related') = Joined(Piece(sourced, related), p)
    BY DEF Take, Piece, Joined
  <1> QED
    BY <1>1, <1>2

(* The files that are not skipped, each once.                              *)
LEMMA UnskippedFacts ==
  ASSUME NEW t, IsTree(t)
  PROVE  LET all == Unskipped(t) IN
         /\ IsSeq(all) /\ Range(all) \subseteq Range(t.all) /\ Len(all) \in Nat
         /\ \A i, j \in DOMAIN all : all[i].id = all[j].id => i = j
  <1> DEFINE kept_ == {i \in DOMAIN t.all : ~t.all[i].skipped}
             all == Chosen(t.all, kept_)
  <1>1. IsSeq(t.all)
    BY DEF IsTree, IsSeq
  <1> HIDE DEF kept_
  <1>2. IsSeq(all) /\ \A x : x \in Range(all) => \E i \in DOMAIN t.all : x = t.all[i]
    BY <1>1, ChosenFacts
  <1>3. PICK h : /\ \A p \in DOMAIN all : h[p] \in DOMAIN t.all /\ all[p] = t.all[h[p]]
                 /\ \A p, q \in DOMAIN all : h[p] = h[q] => p = q
    BY <1>1, ChosenOnce
  <1> HIDE DEF all
  <1>4. Range(all) \subseteq Range(t.all) /\ Len(all) \in Nat
    BY <1>2, SeqFacts DEF Range
  <1>5. \A i, j \in DOMAIN all : all[i].id = all[j].id => i = j
    <2>1. \A i, j \in DOMAIN t.all : t.all[i].id = t.all[j].id => i = j
      BY DEF IsTree
    <2> QED
      BY <1>3, <2>1
  <1> QED
    BY <1>2, <1>4, <1>5 DEF all, kept_, Unskipped

(* The files are listed, without those that are skipped.                   *)
LEMMA ListKeeps ==
  ASSUME CodeInv, ListFiles
  PROVE  CodeInv'
  <1>1. IsTree(files) /\ fpos = 1 /\ fpos' = fpos /\ IsPiece(Piece(sourced, related))
        /\ sourced' = sourced /\ related' = related
    BY DEF CodeInv, ListFiles
  <1> DEFINE all == Unskipped(files)
  <1>2. \A f \in Range(files.all) : \A p \in Readings(f) : IsPiece(p)
    BY <1>1, ReadingsArePieces
  <1>3. all \in Seq(Range(all)) /\ Range(all) \subseteq Range(files.all) /\ Len(all) \in Nat
    BY <1>1, UnskippedFacts DEF IsSeq
  <1> HIDE DEF all
  <1>4. \A i \in DOMAIN all : \A p \in Readings(all[i]) : IsPiece(p)
    BY <1>2, <1>3 DEF Range
  <1>5. CASE sstep' = "files" /\ files' = [exists |-> TRUE, all |-> all]
    <2>1. files'.all = all
      BY <1>5
    <2> QED
      BY <1>1, <1>3, <1>4, <1>5, <2>1 DEF CodeInv
  <1>6. CASE sstep' \in {"crashed", "done"} /\ files' = files
    BY <1>1, <1>6 DEF CodeInv
  <1> QED
    BY <1>5, <1>6 DEF ListFiles, all

(* A file is passed over, named or taken as one of its readings.           *)
LEMMA CodeGoesOn ==
  sstep # "idle" /\ CodeInv /\ (WalkFiles \/ SourceStep \/ ConfigStep \/ ParseManifest) => CodeInv'
  <1> SUFFICES ASSUME sstep # "idle", CodeInv, WalkFiles \/ SourceStep \/ ConfigStep \/ ParseManifest
               PROVE  CodeInv'
    OBVIOUS
  <1>1. CASE ListFiles
    BY <1>1, ListKeeps
  <1>2. CASE EndFiles
    BY <1>2 DEF EndFiles, CodeInv
  <1>3. ASSUME NextFile, sstep' = sstep, files' = files,
               \/ UNCHANGED <<sourced, related>>
               \/ \E p \in Readings(ThisFile) : Take(p)
        PROVE  CodeInv'
    <2>1. /\ sstep = "files" /\ fpos \in DOMAIN files.all /\ fpos' = fpos + 1
          /\ files.all \in Seq(Range(files.all)) /\ IsPiece(Piece(sourced, related))
          /\ \A i \in DOMAIN files.all : \A p \in Readings(files.all[i]) : IsPiece(p)
      BY <1>3 DEF NextFile, CodeInv
    <2>2. fpos' \in 1..(Len(files.all) + 1)
      <3>1. Len(files.all) \in Nat /\ DOMAIN files.all = 1..Len(files.all)
        BY <2>1, LenProperties
      <3> QED
        BY <2>1, <3>1
    <2>3. IsPiece(Piece(sourced', related'))
      <3>1. CASE UNCHANGED <<sourced, related>>
        BY <2>1, <3>1
      <3>2. CASE \E p \in Readings(ThisFile) : Take(p)
        <4>1. PICK p \in Readings(ThisFile) : Take(p)
          BY <3>2
        <4>2. IsPiece(p)
          BY <2>1, <4>1 DEF ThisFile
        <4> QED
          BY <2>1, <4>1, <4>2, TakeKeeps
      <3> QED
        BY <1>3, <3>1, <3>2
    <2> QED
      BY <1>3, <2>1, <2>2, <2>3 DEF CodeInv
  <1>4. CASE PassOver
    BY <1>3, <1>4 DEF PassOver
  <1>5. CASE SourceStep
    <2>1. CASE ScanPython
      <3>1. Readings(ThisFile) = {Piece(PythonFindings(ThisFile.id, ThisFile.nodes), {})}
        BY <2>1 DEF ScanPython, Readings
      <3> QED
        BY <1>3, <2>1, <3>1 DEF ScanPython, TakeFile
    <2>2. CASE BadSyntax
      BY <1>3, <2>2 DEF BadSyntax
    <2>3. CASE ScanPatterns
      <3>1. Readings(ThisFile) = {Piece(PatternFindings(ThisFile.id, ThisFile.text), {})}
        BY <2>3 DEF ScanPatterns, Readings
      <3> QED
        BY <1>3, <2>3, <3>1 DEF ScanPatterns, TakeFile
    <2> QED
      BY <1>5, <2>1, <2>2, <2>3 DEF SourceStep
  <1>6. CASE ConfigStep
    <2>1. Readings(ThisFile) = {Besides(ThisFile), Joined(Handled(ThisFile), Besides(ThisFile))}
      BY <1>6 DEF ConfigStep, UnreadConfig, LargeConfig, ScanConfig, HandlerFails, ThisConfig, Readings
    <2> QED
      BY <1>3, <1>6, <2>1 DEF ConfigStep, UnreadConfig, LargeConfig, ScanConfig, HandlerFails, ThisConfig
  <1>7. CASE ParseManifest
    <2>1. Readings(ThisFile) = {ManifestPiece(ThisFile)}
      BY <1>7 DEF ParseManifest, Readings
    <2> QED
      BY <1>3, <1>7, <2>1 DEF ParseManifest, TakeFile
  <1> QED
    BY <1>1, <1>2, <1>4, <1>5, <1>6, <1>7 DEF WalkFiles

(* Every step of the loop keeps what is taken of a tree.                   *)
LEMMA CodeKeeps == LoopInv /\ CodeInv /\ [CollectNext]_vars => CodeInv'
  <1> SUFFICES ASSUME LoopInv, CodeInv, [CollectNext]_vars
               PROVE  CodeInv'
    OBVIOUS
  <1>1. CASE UNCHANGED svars
    BY <1>1 DEF svars, CodeInv
  <1>2. CASE Code
    <2>1. sstep # "idle"
      BY <1>2 DEF LoopInv, Code
    <2> QED
      BY <1>2, <2>1, CodeGoesOn DEF Code
  <1>3. \A t : t.all \in Seq(Range(t.all)) /\ StartFiles("idle", t) => CodeInv'
    BY LenProperties DEF StartFiles, CodeInv
  <1>4. IsPiece(NoPiece)
    BY DEF NoPiece, Piece, IsPiece
  <1>5. CASE StartScan
    <2>1. CASE Current.scanner \in {"source", "config", "dependencies"}
      <3>1. PICK t : t = Current.of
        OBVIOUS
      <3>2. IsTree(t)
        BY <1>5, <2>1, <3>1, JobTargets DEF StartScan, More, LoopInv, Current
      <3>3. BeginFiles(Current.of)
        BY <1>5, <2>1 DEF StartScan
      <3>4. sstep' = "list" /\ files' = t /\ fpos' = 1 /\ sourced' = <<>> /\ related' = {}
        BY <3>1, <3>3 DEF BeginFiles, StartFiles
      <3>5. t.all \in Seq(Range(t.all)) /\ Len(t.all) \in Nat
        BY <3>2, LenProperties DEF IsTree
      <3> QED
        BY <1>4, <3>2, <3>4, <3>5 DEF CodeInv, NoPiece
    <2>2. CASE Current.scanner \notin {"source", "config", "dependencies"}
      BY <1>1, <1>5, <2>2 DEF StartScan
    <2> QED
      BY <2>1, <2>2
  <1>6. CASE TakeCode
    <2>1. NoFiles.all \in Seq(Range(NoFiles.all)) /\ StartFiles("idle", NoFiles)
      BY <1>6 DEF TakeCode, FilesReset, NoFiles
    <2> QED
      BY <1>3, <2>1
  <1>7. UnknownScanner \/ Walk \/ Probe \/ Image \/ Chain \/ TakeStore \/ TakeHost \/ TakeImage \/ TakeFiles
          \/ StartTree \/ Fetch \/ TakeTree \/ ScanTree \/ Finish \/ Rest \/ Ended \/ UNCHANGED vars
            => UNCHANGED svars
    BY DEF UnknownScanner, Walk, Probe, Image, Chain, TakeStore, TakeHost, TakeImage, TakeFiles, StartTree, Fetch,
           TakeTree, ScanTree, Finish, Rest, Ended, vars
  <1> QED
    BY <1>1, <1>2, <1>5, <1>6, <1>7 DEF CollectNext

(* What is taken of a tree, in every state.                                *)
LEMMA CodeHolds == CollectSpec => []CodeInv
  <1>1. CollectInit => CodeInv
    BY LenProperties DEF CollectInit, FilesInit, NoFiles, CodeInv
  <1> QED
    BY <1>1, LoopHolds, CodeKeeps, PTL DEF CollectSpec

(* How far the walk over a tree has come: the files behind it are dealt    *)
(* with, and of those before it nothing is known.                          *)
BehindWalk(i) ==
  /\ files.all[i].lang = "config" => DealtWith(files.all[i])
  /\ files.all[i].lang \in {"python", "pattern"} => SourceDealtWith(files.all[i])
BeforeWalk(i) == OfFile(files.all[i].id) = {} /\ Followed(files.all[i])

FilesInv ==
  /\ sstep = "list" => sourced = <<>> /\ unread = {}
  /\ sstep \in {"files", "done"} /\ files.exists =>
       /\ \A i, j \in DOMAIN files.all : files.all[i].id = files.all[j].id => i = j
       /\ \A i \in DOMAIN files.all :
            /\ IsFile(files.all[i])
            /\ i < fpos => BehindWalk(i)
            /\ i >= fpos => BeforeWalk(i)
       /\ sstep = "done" => fpos \notin DOMAIN files.all

(* A step at one file leaves what is known of the others.                  *)
LEMMA OthersStay ==
  ASSUME NEW id, IsSeq(sourced),
         UNCHANGED <<sourced, related>> \/ (\E p : PieceOf(id, p) /\ Take(p)),
         unread' = unread \/ unread' = unread \cup {<<"file", id>>}
  PROVE  \A x : x.id # id =>
           /\ OfFile(x.id)' = OfFile(x.id)
           /\ Followed(x)' = Followed(x)
           /\ DealtWith(x) => DealtWith(x)'
           /\ SourceDealtWith(x) => SourceDealtWith(x)'
  <1>1. ASSUME NEW x, x.id # id
        PROVE  Followed(x)' = Followed(x)
    <2>1. <<"file", x.id>> # <<"file", id>>
      BY <1>1
    <2> QED
      BY <2>1 DEF Followed
  <1>2. ASSUME NEW x, x.id # id
        PROVE  /\ OfFile(x.id)' = OfFile(x.id)
               /\ \A q : Laid(q, x.id) => Laid(q, x.id)'
    <2>1. CASE UNCHANGED <<sourced, related>>
      BY <2>1 DEF OfFile, Laid
    <2>2. CASE \E p : PieceOf(id, p) /\ Take(p)
      <3>1. PICK p : PieceOf(id, p) /\ Take(p)
        BY <2>2
      <3>2. /\ \A y : y # id => OfFile(y)' = OfFile(y)
            /\ \A y, q : y # id /\ Laid(q, y) => Laid(q, y)'
        BY <3>1, TakeLays
      <3> QED
        BY <1>2, <3>2
    <2> QED
      BY <2>1, <2>2
  <1>3. ASSUME NEW x, x.id # id, DealtWith(x)
        PROVE  DealtWith(x)'
    <2>1. OfFile(x.id) = {} => OfFile(x.id)' = {}
      BY <1>2, <1>3
    <2>2. Laid(Joined(Handled(x), Besides(x)), x.id) => Laid(Joined(Handled(x), Besides(x)), x.id)'
      BY <1>2, <1>3
    <2>3. Laid(Besides(x), x.id) => Laid(Besides(x), x.id)'
      BY <1>2, <1>3
    <2>4. Followed(x)' = Followed(x)
      BY <1>1, <1>3
    <2> QED
      BY <1>3, <2>1, <2>2, <2>3, <2>4 DEF DealtWith
  <1>4. ASSUME NEW x, x.id # id, SourceDealtWith(x)
        PROVE  SourceDealtWith(x)'
    <2>1. OfFile(x.id) = {} => OfFile(x.id)' = {}
      BY <1>2, <1>4
    <2>2. Laid(SourcePiece(x), x.id) => Laid(SourcePiece(x), x.id)'
      BY <1>2, <1>4
    <2>3. Followed(x)' = Followed(x)
      BY <1>1, <1>4
    <2> QED
      BY <1>4, <2>1, <2>2, <2>3 DEF SourceDealtWith
  <1> QED
    BY <1>1, <1>2, <1>3, <1>4

(* A configuration file is dealt with at the step it is at.                *)
LEMMA ConfigDealtWith ==
  ASSUME NEW f, f = ThisFile, IsConfiguration(f), IsSeq(sourced), OfFile(f.id) = {}, Followed(f), ConfigStep
  PROVE  /\ DealtWith(f)'
         /\ UNCHANGED <<sourced, related>> \/ \E p : PieceOf(f.id, p) /\ Take(p)
         /\ unread' = unread \/ unread' = unread \cup {<<"file", f.id>>}
  <1> DEFINE whole == Joined(Handled(f), Besides(f))
  <1>1. PieceOf(f.id, whole) /\ PieceOf(f.id, Besides(f))
    BY WholeShown, BesidesShown
  <1>2. \A p : PieceOf(f.id, p) /\ Take(p) => Laid(p, f.id)'
    BY TakeLays
  <1>3. UNCHANGED sourced => OfFile(f.id)' = {}
    BY DEF OfFile
  <1>4. UNCHANGED unread => Followed(f)'
    BY DEF Followed
  <1>5. NameFile => ~Followed(f)' /\ unread' = unread \cup {<<"file", f.id>>}
    BY DEF Followed, NameFile
  <1>6. CASE UnreadConfig
    BY <1>3, <1>5, <1>6 DEF UnreadConfig, DealtWith
  <1>7. CASE LargeConfig
    BY <1>3, <1>7 DEF LargeConfig, DealtWith
  <1>8. CASE ScanConfig
    <2>1. ~f.large /\ Take(whole) /\ unread' = unread
      BY <1>8 DEF ScanConfig
    <2> HIDE DEF whole
    <2>2. Laid(whole, f.id)' /\ Followed(f)'
      BY <1>1, <1>2, <1>4, <2>1
    <2>3. DealtWith(f)'
      BY <2>1, <2>2 DEF DealtWith, whole
    <2> QED
      BY <1>1, <2>1, <2>3
  <1>9. CASE HandlerFails
    <2>1. ~f.large /\ Take(Besides(f)) /\ NameFile
      BY <1>9 DEF HandlerFails
    <2>2. Laid(Besides(f), f.id)' /\ ~Followed(f)'
      BY <1>1, <1>2, <1>5, <2>1
    <2>3. DealtWith(f)'
      BY <2>1, <2>2 DEF DealtWith
    <2> QED
      BY <1>1, <1>5, <2>1, <2>3
  <1> QED
    BY <1>6, <1>7, <1>8, <1>9 DEF ConfigStep

(* Of a file of another kind, what it is read as is taken, or it is named. *)
LEMMA OtherDealtWith ==
  ASSUME NEW f, f = ThisFile, IsFile(f), IsSeq(sourced), OfFile(f.id) = {}, Followed(f),
         SourceStep \/ ParseManifest \/ PassOver
  PROVE  /\ f.lang # "config"
         /\ f.lang \in {"python", "pattern"} => SourceDealtWith(f)'
         /\ UNCHANGED <<sourced, related>> \/ \E p : PieceOf(f.id, p) /\ Take(p)
         /\ unread' = unread \/ unread' = unread \cup {<<"file", f.id>>}
  <1>1. ASSUME NEW p, p \in Readings(f), TakeFile(p)
        PROVE  /\ UNCHANGED <<sourced, related>> \/ \E q : PieceOf(f.id, q) /\ Take(q)
               /\ unread' = unread \/ unread' = unread \cup {<<"file", f.id>>}
               /\ IF Followed(f)' THEN Laid(p, f.id)' ELSE OfFile(f.id)' = {}
    <2>1. PieceOf(f.id, p)
      BY <1>1, ReadingFacts
    <2>2. CASE NameFile /\ UNCHANGED <<sourced, related>>
      BY <2>2 DEF NameFile, Followed, OfFile
    <2>3. CASE Take(p) /\ UNCHANGED unread
      <3>1. Laid(p, f.id)'
        BY <2>1, <2>3, TakeLays
      <3>2. Followed(f)'
        BY <2>3 DEF Followed
      <3> QED
        BY <2>1, <2>3, <3>1, <3>2
    <2> QED
      BY <1>1, <2>2, <2>3 DEF TakeFile
  <1>2. CASE ScanPython
    <2>1. f.lang = "python" /\ TakeFile(Piece(PythonFindings(f.id, f.nodes), {})) /\ f.parses
      BY <1>2 DEF ScanPython
    <2>2. SourcePiece(f) = Piece(PythonFindings(f.id, f.nodes), {})
      BY <2>1 DEF SourcePiece
    <2>3. SourcePiece(f) \in Readings(f)
      BY <2>1, <2>2 DEF Readings
    <2> QED
      BY <1>1, <2>1, <2>2, <2>3 DEF SourceDealtWith
  <1>3. CASE BadSyntax
    <2>1. f.lang = "python" /\ NameFile /\ UNCHANGED <<sourced, related>>
      BY <1>3 DEF BadSyntax
    <2>2. ~Followed(f)' /\ OfFile(f.id)' = {}
      BY <2>1 DEF NameFile, Followed, OfFile
    <2> QED
      BY <2>1, <2>2 DEF NameFile, SourceDealtWith
  <1>4. CASE ScanPatterns
    <2>1. f.lang = "pattern" /\ TakeFile(Piece(PatternFindings(f.id, f.text), {}))
      BY <1>4 DEF ScanPatterns
    <2>2. SourcePiece(f) = Piece(PatternFindings(f.id, f.text), {})
      BY <2>1 DEF SourcePiece
    <2>3. SourcePiece(f) \in Readings(f)
      BY <2>1, <2>2 DEF Readings
    <2> QED
      BY <1>1, <2>1, <2>2, <2>3 DEF SourceDealtWith
  <1>5. CASE ParseManifest
    <2>1. f.lang = "manifest" /\ TakeFile(ManifestPiece(f))
      BY <1>5 DEF ParseManifest
    <2>2. ManifestPiece(f) \in Readings(f)
      BY <2>1 DEF Readings
    <2> QED
      BY <1>1, <2>1, <2>2
  <1>6. CASE PassOver
    BY <1>6 DEF PassOver
  <1> QED
    BY <1>2, <1>3, <1>4, <1>5, <1>6 DEF SourceStep

(* The walk goes on from a file to the next.                               *)
LEMMA NextFileKeeps ==
  ASSUME CodeInv, FilesInv, NextFile, SourceStep \/ ParseManifest \/ PassOver \/ ConfigStep
  PROVE  FilesInv'
  <1>1. sstep' = sstep /\ files' = files /\ sstep = "files" /\ fpos \in DOMAIN files.all /\ fpos' = fpos + 1
    BY DEF SourceStep, ParseManifest, PassOver, ConfigStep, ScanPython, BadSyntax, ScanPatterns, UnreadConfig,
           LargeConfig, ScanConfig, HandlerFails, TakeFile, NextFile
  <1> SUFFICES ASSUME files.exists
               PROVE  FilesInv'
    BY <1>1 DEF FilesInv
  <1>2. PICK f : f = ThisFile /\ f = files.all[fpos]
    BY DEF ThisFile
  <1>3. PICK k : k = fpos
    OBVIOUS
  <1>4. IsSeq(sourced)
    <2>1. sourced \in Seq(Asset)
      BY <1>1 DEF CodeInv, IsPiece, Piece
    <2> QED
      BY <2>1, SeqIsSeq
  <1>5. \A i \in DOMAIN files.all : i \in Nat
    BY SeqFacts DEF CodeInv, IsSeq
  <1>6. /\ \A i, j \in DOMAIN files.all : files.all[i].id = files.all[j].id => i = j
        /\ \A i \in DOMAIN files.all :
             /\ IsFile(files.all[i])
             /\ i < fpos => BehindWalk(i)
             /\ i >= fpos => BeforeWalk(i)
    BY <1>1 DEF FilesInv
  <1>7. IsFile(f) /\ OfFile(f.id) = {} /\ Followed(f)
    <2>1. fpos \in DOMAIN files.all /\ fpos \in Nat
      BY <1>1, <1>5
    <2>2. IsFile(files.all[fpos]) /\ BeforeWalk(fpos)
      BY <1>6, <2>1
    <2> QED
      BY <1>2, <2>2 DEF BeforeWalk
  <1>8. /\ UNCHANGED <<sourced, related>> \/ \E p : PieceOf(f.id, p) /\ Take(p)
        /\ unread' = unread \/ unread' = unread \cup {<<"file", f.id>>}
        /\ f.lang = "config" => DealtWith(f)'
        /\ f.lang \in {"python", "pattern"} => SourceDealtWith(f)'
    <2>1. CASE SourceStep \/ ParseManifest \/ PassOver
      BY <1>2, <1>4, <1>7, <2>1, OtherDealtWith
    <2>2. CASE ConfigStep
      <3>1. f.lang = "config"
        BY <1>2, <2>2 DEF ConfigStep, UnreadConfig, LargeConfig, ScanConfig, HandlerFails, ThisConfig
      <3>2. IsConfiguration(f)
        BY <1>7, <3>1 DEF IsFile
      <3> QED
        BY <1>2, <1>4, <1>7, <2>2, <3>1, <3>2, ConfigDealtWith
    <2> QED
      BY <2>1, <2>2
  <1>9. \A x : x.id # f.id =>
          /\ OfFile(x.id)' = OfFile(x.id)
          /\ Followed(x)' = Followed(x)
          /\ DealtWith(x) => DealtWith(x)'
          /\ SourceDealtWith(x) => SourceDealtWith(x)'
    BY <1>4, <1>8, OthersStay
  <1>10. ASSUME NEW i \in DOMAIN files.all
         PROVE  /\ i < k + 1 => BehindWalk(i)'
                /\ i >= k + 1 => BeforeWalk(i)'
    <2>1. PICK x : x = files.all[i]
      OBVIOUS
    <2>2. (files.all[i])' = x
      BY <1>1, <2>1
    <2>3. i # k => x.id # f.id
      BY <1>1, <1>2, <1>3, <1>6, <2>1
    <2>4. i \in Nat /\ k \in Nat
      BY <1>1, <1>3, <1>5
    <2>5. CASE i = k
      <3>1. x = f
        BY <1>2, <1>3, <2>1, <2>5
      <3> QED
        BY <1>8, <2>2, <2>4, <2>5, <3>1 DEF BehindWalk
    <2>6. CASE i < k
      <3>1. /\ x.lang = "config" => DealtWith(x)
            /\ x.lang \in {"python", "pattern"} => SourceDealtWith(x)
        BY <1>3, <1>6, <2>1, <2>6 DEF BehindWalk
      <3>2. /\ x.lang = "config" => DealtWith(x)'
            /\ x.lang \in {"python", "pattern"} => SourceDealtWith(x)'
        BY <1>9, <2>3, <2>4, <2>6, <3>1
      <3> QED
        BY <2>2, <2>4, <2>6, <3>2 DEF BehindWalk
    <2>7. CASE i > k
      <3>1. OfFile(x.id) = {} /\ Followed(x)
        BY <1>3, <1>6, <2>1, <2>4, <2>7 DEF BeforeWalk
      <3>2. OfFile(x.id)' = {} /\ Followed(x)'
        BY <1>9, <2>3, <2>4, <2>7, <3>1
      <3> QED
        BY <2>2, <2>4, <2>7, <3>2 DEF BeforeWalk
    <2> QED
      BY <2>4, <2>5, <2>6, <2>7
  <1> QED
    BY <1>1, <1>3, <1>6, <1>10 DEF FilesInv

LEMMA FilesGoOn ==
  sstep # "idle" /\ CodeInv /\ FilesInv /\ (WalkFiles \/ SourceStep \/ ConfigStep \/ ParseManifest) => FilesInv'
  <1> SUFFICES ASSUME CodeInv, FilesInv, WalkFiles \/ SourceStep \/ ConfigStep \/ ParseManifest
               PROVE  FilesInv'
    OBVIOUS
  <1>1. CASE ListFiles
    <2>1. /\ IsTree(files) /\ fpos = 1 /\ fpos' = 1
          /\ sourced = <<>> /\ sourced' = <<>> /\ unread = {}
      BY <1>1 DEF ListFiles, CodeInv, FilesInv
    <2>2. PICK all : all = Unskipped(files)
      OBVIOUS
    <2>3. /\ IsSeq(all) /\ Range(all) \subseteq Range(files.all) /\ Len(all) \in Nat
          /\ \A i, j \in DOMAIN all : all[i].id = all[j].id => i = j
      BY <2>1, <2>2, UnskippedFacts
    <2>4. \A i \in DOMAIN all : IsFile(all[i]) /\ i >= 1 /\ ~(i < 1)
      <3>1. DOMAIN all = 1..Len(all)
        BY <2>3, SeqFacts
      <3>2. \A i \in DOMAIN all : all[i] \in Range(files.all)
        BY <2>3 DEF Range
      <3> QED
        BY <2>1, <2>3, <3>1, <3>2 DEF IsTree
    <2>5. CASE sstep' = "files" /\ files' = [exists |-> TRUE, all |-> Unskipped(files)] /\ unread' = unread
      <3>1. files'.all = all
        BY <2>2, <2>5
      <3>2. \A i \in DOMAIN all : BeforeWalk(i)'
        BY <2>1, <2>5, <3>1 DEF BeforeWalk, OfFile, Followed
      <3> QED
        BY <2>1, <2>3, <2>4, <2>5, <3>1, <3>2 DEF FilesInv
    <2>6. CASE sstep' = "crashed"
      BY <2>6 DEF FilesInv
    <2>7. CASE sstep' = "done" /\ ~files'.exists
      BY <2>7 DEF FilesInv
    <2> QED
      BY <1>1, <2>5, <2>6, <2>7 DEF ListFiles
  <1>2. CASE EndFiles
    <2>1. /\ sstep = "files" /\ sstep' = "done" /\ fpos \notin DOMAIN files.all
          /\ UNCHANGED <<files, fpos, sourced, related, unread>>
      BY <1>2 DEF EndFiles
    <2>2. \A i : (BehindWalk(i) => BehindWalk(i)') /\ (BeforeWalk(i) => BeforeWalk(i)')
      BY <2>1 DEF BehindWalk, BeforeWalk, DealtWith, SourceDealtWith, OfFile, Laid, Followed
    <2> QED
      BY <2>1, <2>2 DEF FilesInv
  <1>3. CASE SourceStep \/ ParseManifest \/ PassOver \/ ConfigStep
    <2>1. NextFile
      BY <1>3 DEF SourceStep, ParseManifest, PassOver, ConfigStep, ScanPython, BadSyntax, ScanPatterns,
                  UnreadConfig, LargeConfig, ScanConfig, HandlerFails, ThisConfig
    <2> QED
      BY <1>3, <2>1, NextFileKeeps
  <1> QED
    BY <1>1, <1>2, <1>3 DEF WalkFiles

(* Every step of the loop keeps how far the walk has come.                 *)
LEMMA FilesKeep == LoopInv /\ CodeInv /\ FilesInv /\ [CollectNext]_vars => FilesInv'
  <1> SUFFICES ASSUME LoopInv, CodeInv, FilesInv, [CollectNext]_vars
               PROVE  FilesInv'
    OBVIOUS
  <1>1. CASE UNCHANGED svars
    <2>1. \A i : (BehindWalk(i) => BehindWalk(i)') /\ (BeforeWalk(i) => BeforeWalk(i)')
      BY <1>1 DEF svars, BehindWalk, BeforeWalk, DealtWith, SourceDealtWith, OfFile, Laid, Followed
    <2> QED
      BY <1>1, <2>1 DEF svars, FilesInv
  <1>2. CASE Code
    <2>1. sstep # "idle"
      BY <1>2 DEF LoopInv, Code
    <2> QED
      BY <1>2, <2>1, FilesGoOn DEF Code
  <1>3. CASE StartScan
    <2>1. CASE Current.scanner \in {"source", "config", "dependencies"}
      <3>1. BeginFiles(Current.of)
        BY <1>3, <2>1 DEF StartScan
      <3> QED
        BY <3>1 DEF BeginFiles, StartFiles, FilesInv
    <2>2. CASE Current.scanner \notin {"source", "config", "dependencies"}
      BY <1>1, <1>3, <2>2 DEF StartScan
    <2> QED
      BY <2>1, <2>2
  <1>4. CASE TakeCode
    BY <1>4 DEF TakeCode, FilesReset, StartFiles, FilesInv
  <1>5. UnknownScanner \/ Walk \/ Probe \/ Image \/ Chain \/ TakeStore \/ TakeHost \/ TakeImage \/ TakeFiles
          \/ StartTree \/ Fetch \/ TakeTree \/ ScanTree \/ Finish \/ Rest \/ Ended \/ UNCHANGED vars
            => UNCHANGED svars
    BY DEF UnknownScanner, Walk, Probe, Image, Chain, TakeStore, TakeHost, TakeImage, TakeFiles, StartTree, Fetch,
           TakeTree, ScanTree, Finish, Rest, Ended, vars
  <1> QED
    BY <1>1, <1>2, <1>3, <1>4, <1>5 DEF CollectNext

LEMMA FilesHold == CollectSpec => []FilesInv
  <1>1. CollectInit => FilesInv
    BY DEF CollectInit, FilesInit, FilesInv
  <1> QED
    BY <1>1, LoopHolds, CodeHolds, FilesKeep, PTL DEF CollectSpec

(* When the walk is over, every configuration file of the tree is behind it*)
(* and reported as exactly what it permits, or named.                      *)
THEOREM ConfigsAccounted == CollectSpec => []ConfigAccounted
  <1>1. CodeInv /\ FilesInv => ConfigAccounted
    <2> SUFFICES ASSUME CodeInv, FilesInv, sstep = "done", files.exists,
                        NEW f \in Range(files.all), f.lang = "config", ReadAsMeant(f)
                 PROVE  IF f.large THEN OfFile(f.id) = {} ELSE ReportedAsPermitted(f)
      BY DEF ConfigAccounted
    <2>1. PICK i \in DOMAIN files.all : f = files.all[i]
      BY DEF Range
    <2>2. i < fpos
      <3>1. Len(files.all) \in Nat /\ DOMAIN files.all = 1..Len(files.all)
        BY SeqFacts DEF CodeInv, IsSeq
      <3>2. fpos \in 1..(Len(files.all) + 1) /\ fpos \notin 1..Len(files.all)
        BY <3>1 DEF CodeInv, FilesInv
      <3> QED
        BY <3>1, <3>2
    <2>3. IsConfiguration(f) /\ DealtWith(f)
      BY <2>1, <2>2 DEF FilesInv, BehindWalk, IsFile
    <2>4. CASE f.large
      BY <2>3, <2>4 DEF DealtWith
    <2>5. CASE ~f.large
      BY <2>3, <2>5, DealtWithReported
    <2> QED
      BY <2>4, <2>5
  <1> QED
    BY <1>1, CodeHolds, FilesHold, PTL

(* When the walk is over, every file of code is behind it too: named with  *)
(* nothing of it there, or found to hold what it shows.                    *)
THEOREM SourcesAccounted == CollectSpec => []SourceAccounted
  <1>1. CodeInv /\ FilesInv => SourceAccounted
    <2> SUFFICES ASSUME CodeInv, FilesInv, sstep = "done", files.exists,
                        NEW f \in Range(files.all), f.lang \in {"python", "pattern"}
                 PROVE  /\ ~Followed(f) => FoundIn(f) = {}
                        /\ f.lang = "python" /\ Followed(f) /\ BoundOnce(f.nodes) => PythonShown(f)
                        /\ f.lang = "pattern" /\ Followed(f) => PatternsShown(f)
      BY DEF SourceAccounted
    <2>1. PICK i \in DOMAIN files.all : f = files.all[i]
      BY DEF Range
    <2>2. i < fpos
      <3>1. Len(files.all) \in Nat /\ DOMAIN files.all = 1..Len(files.all)
        BY SeqFacts DEF CodeInv, IsSeq
      <3>2. fpos \in 1..(Len(files.all) + 1) /\ fpos \notin 1..Len(files.all)
        BY <3>1 DEF CodeInv, FilesInv
      <3> QED
        BY <3>1, <3>2
    <2>3. IsFile(f) /\ SourceDealtWith(f)
      BY <2>1, <2>2 DEF FilesInv, BehindWalk
    <2>4. (f.lang = "python" => IsProgram(f.nodes)) /\ (f.lang = "pattern" => IsSeq(f.text))
      BY <2>3 DEF IsFile, IsSeq
    <2> QED
      BY <2>3, <2>4, SourceDealtWithShown
  <1> QED
    BY <1>1, CodeHolds, FilesHold, PTL

-----------------------------------------------------------------------------
(* What link_chain() knows of the certificates it was given: the first     *)
(* certificate with each key id and with each name, and links that the     *)
(* key id decided where it could.                                          *)
Decided(certs, l) ==
  \E i, j \in DOMAIN certs :
    /\ certs[i].print = l[1] /\ certs[j].print = l[2]
    /\ ~SelfSigned(certs[i])
    /\ IF \E k \in DOMAIN certs : certs[k].ski = certs[i].aki /\ certs[i].aki # Absent
       THEN certs[j].ski = certs[i].aki
       ELSE certs[j].subject = certs[i].issuer

KeyIdsIndexed(certs, upto) ==
  /\ \A x \in DOMAIN byKeyId :
       x # Absent /\ \E j \in DOMAIN certs : certs[j].ski = x /\ certs[j].print = byKeyId[x]
  /\ \A k \in DOMAIN certs : k < upto /\ certs[k].ski # Absent => certs[k].ski \in DOMAIN byKeyId

NamesIndexed(certs) ==
  \A x \in DOMAIN bySubject :
    x # Absent /\ \E j \in DOMAIN certs : certs[j].subject = x /\ certs[j].print = bySubject[x]

ChainOf(certs) ==
  /\ chain \in {"index", "link", "linked"} /\ cat \in 1..(Len(certs) + 1)
  /\ KeyIdsIndexed(certs, IF chain = "index" THEN cat ELSE Len(certs) + 1)
  /\ NamesIndexed(certs)
  /\ \A l \in links : Decided(certs, l)

Unchained ==
  /\ chain = "index" /\ cat = 1 /\ links = {}
  /\ byKeyId = [x \in {} |-> Absent] /\ bySubject = [x \in {} |-> Absent]

ChainInv ==
  /\ cstep # "files" => Unchained
  /\ cstep = "files" => ChainOf(Current.of.found)

(* Before the first certificate nothing is known, of whichever there are.  *)
LEMMA UnchainedHolds ==
  ASSUME NEW certs, certs \in Seq(Range(certs))
  PROVE  Unchained => ChainOf(certs)
  <1>1. Len(certs) \in Nat /\ DOMAIN certs = 1..Len(certs)
    BY LenProperties
  <1>2. \A k \in DOMAIN certs : ~(k < 1)
    BY <1>1
  <1> QED
    BY <1>1, <1>2 DEF Unchained, ChainOf, KeyIdsIndexed, NamesIndexed

(* The first loop adds a certificate that has the key id and the name.     *)
LEMMA IndexKeeps ==
  ASSUME NEW certs, certs \in Seq(Range(certs)), ChainOf(certs), IndexCertificate(certs)
  PROVE  ChainOf(certs)'
  <1>0. Len(certs) \in Nat /\ DOMAIN certs = 1..Len(certs)
    BY LenProperties
  <1>a. PICK i, c : i = cat /\ c = certs[i]
    OBVIOUS
  <1>1. /\ chain = "index" /\ i \in DOMAIN certs /\ cat' = i + 1 /\ chain' = chain /\ links' = links
        /\ byKeyId' = SetDefault(byKeyId, c.ski, c.print)
        /\ bySubject' = SetDefault(bySubject, c.subject, c.print)
    BY <1>a DEF IndexCertificate
  <1>2. /\ DOMAIN byKeyId' = DOMAIN byKeyId \cup ({c.ski} \ {Absent})
        /\ \A x \in DOMAIN byKeyId' : byKeyId'[x] = IF x \in DOMAIN byKeyId THEN byKeyId[x] ELSE c.print
        /\ DOMAIN bySubject' = DOMAIN bySubject \cup ({c.subject} \ {Absent})
        /\ \A x \in DOMAIN bySubject' :
             bySubject'[x] = IF x \in DOMAIN bySubject THEN bySubject[x] ELSE c.print
    BY <1>1 DEF SetDefault
  <1>3. NamesIndexed(certs)'
    BY <1>a, <1>1, <1>2 DEF ChainOf, NamesIndexed
  <1>4. \A x \in DOMAIN byKeyId' :
          x # Absent /\ \E j \in DOMAIN certs : certs[j].ski = x /\ certs[j].print = byKeyId'[x]
    BY <1>a, <1>1, <1>2 DEF ChainOf, KeyIdsIndexed
  <1>5. ASSUME NEW k \in DOMAIN certs, k < cat', certs[k].ski # Absent
        PROVE  certs[k].ski \in DOMAIN byKeyId'
    <2>1. k < i \/ k = i
      BY <1>0, <1>1, <1>5
    <2> QED
      BY <1>a, <1>1, <1>2, <1>5, <2>1 DEF ChainOf, KeyIdsIndexed
  <1>6. cat' \in 1..(Len(certs) + 1)
    BY <1>0, <1>1
  <1>7. KeyIdsIndexed(certs, cat)'
    BY <1>4, <1>5 DEF KeyIdsIndexed
  <1>8. \A l \in links' : Decided(certs, l)'
    BY <1>1 DEF ChainOf, Decided, SelfSigned
  <1> QED
    BY <1>1, <1>3, <1>6, <1>7, <1>8 DEF ChainOf

(* The second loop asks for the key id first.                              *)
LEMMA LinkDecides ==
  ASSUME NEW certs, certs \in Seq(Range(certs)), ChainOf(certs), chain = "link",
         NEW i \in DOMAIN certs, ~SelfSigned(certs[i]), NEW issuer, issuer = IssuerOf(certs[i]), issuer # Absent
  PROVE  Decided(certs, <<certs[i].print, issuer>>)
  <1>0. Len(certs) \in Nat /\ DOMAIN certs = 1..Len(certs)
    BY LenProperties
  <1>1. \A k \in DOMAIN certs : k < Len(certs) + 1
    BY <1>0
  <1>2. /\ \A x \in DOMAIN byKeyId :
             x # Absent /\ \E j \in DOMAIN certs : certs[j].ski = x /\ certs[j].print = byKeyId[x]
        /\ \A k \in DOMAIN certs : certs[k].ski # Absent => certs[k].ski \in DOMAIN byKeyId
        /\ NamesIndexed(certs)
    BY <1>1 DEF ChainOf, KeyIdsIndexed
  <1>3. CASE certs[i].aki \in DOMAIN byKeyId
    <2>1. PICK j \in DOMAIN certs : certs[j].ski = certs[i].aki /\ certs[j].print = byKeyId[certs[i].aki]
      BY <1>2, <1>3
    <2>2. certs[j].print = issuer
      BY <1>3, <2>1 DEF IssuerOf
    <2> QED
      BY <1>2, <1>3, <2>1, <2>2 DEF Decided
  <1>4. CASE certs[i].aki \notin DOMAIN byKeyId
    <2>1. certs[i].issuer \in DOMAIN bySubject /\ issuer = bySubject[certs[i].issuer]
      BY <1>4 DEF IssuerOf
    <2>2. PICK j \in DOMAIN certs : certs[j].subject = certs[i].issuer /\ certs[j].print = issuer
      BY <1>2, <2>1 DEF NamesIndexed
    <2>3. ~\E k \in DOMAIN certs : certs[k].ski = certs[i].aki /\ certs[i].aki # Absent
      BY <1>2, <1>4
    <2> QED
      BY <2>2, <2>3 DEF Decided
  <1> QED
    BY <1>3, <1>4

(* Every step of link_chain() keeps what it knows.                         *)
LEMMA LinkNextKeeps ==
  ASSUME NEW certs, certs \in Seq(Range(certs)), ChainOf(certs), LinkNext(certs)
  PROVE  ChainOf(certs)'
  <1>0. Len(certs) \in Nat /\ DOMAIN certs = 1..Len(certs)
    BY LenProperties
  <1>1. CASE IndexCertificate(certs)
    BY <1>1, IndexKeeps
  <1>2. CASE EndIndex(certs)
    <2>1. /\ chain = "index" /\ cat \notin DOMAIN certs /\ chain' = "link" /\ cat' = 1
          /\ UNCHANGED <<byKeyId, bySubject, links>>
      BY <1>2 DEF EndIndex
    <2>2. cat = Len(certs) + 1
      BY <1>0, <2>1 DEF ChainOf
    <2>3. KeyIdsIndexed(certs, Len(certs) + 1)
      BY <2>1, <2>2 DEF ChainOf
    <2>4. cat' \in 1..(Len(certs) + 1)
      BY <1>0, <2>1
    <2> QED
      BY <2>1, <2>3, <2>4 DEF ChainOf, KeyIdsIndexed, NamesIndexed, Decided, SelfSigned
  <1>3. CASE LinkCertificate(certs)
    <2>a. PICK i, c, issuer : i = cat /\ c = certs[i] /\ issuer = IssuerOf(c)
      OBVIOUS
    <2>1. /\ chain = "link" /\ i \in DOMAIN certs /\ cat' = i + 1
          /\ links' = IF SelfSigned(c) \/ issuer \in {Absent, c.print} THEN links
                      ELSE links \cup {<<c.print, issuer>>}
          /\ UNCHANGED <<chain, byKeyId, bySubject>>
      BY <1>3, <2>a DEF LinkCertificate
    <2>2. cat' \in 1..(Len(certs) + 1)
      BY <1>0, <2>1
    <2>3. ASSUME NEW l \in links'
          PROVE  Decided(certs, l)
      <3>1. CASE l \in links
        BY <3>1 DEF ChainOf
      <3>2. CASE l \notin links
        <4>1. ~SelfSigned(c) /\ issuer # Absent /\ l = <<c.print, issuer>>
          BY <2>1, <2>3, <3>2
        <4> QED
          BY <2>a, <2>1, <4>1, LinkDecides
      <3> QED
        BY <3>1, <3>2
    <2> QED
      BY <2>1, <2>2, <2>3 DEF ChainOf, KeyIdsIndexed, NamesIndexed, Decided, SelfSigned
  <1>4. CASE EndLink(certs)
    BY <1>4 DEF EndLink, ChainOf, KeyIdsIndexed, NamesIndexed, Decided, SelfSigned
  <1> QED
    BY <1>1, <1>2, <1>3, <1>4 DEF LinkNext

(* A step that leaves the links and the target alone.                      *)
LEMMA ChainSame ==
  ASSUME ChainInv, UNCHANGED Linking, cstep' = "files" <=> cstep = "files",
         cstep = "files" => UNCHANGED <<job, pos>>
  PROVE  ChainInv'
  <1>a. PICK certs : certs = Current.of.found
    OBVIOUS
  <1>1. CASE cstep = "files"
    <2>1. ChainOf(certs)
      BY <1>a, <1>1 DEF ChainInv
    <2>2. ChainOf(certs)'
      BY <2>1 DEF Linking, ChainOf, KeyIdsIndexed, NamesIndexed, Decided, SelfSigned
    <2>3. Current' = Current
      BY <1>1 DEF Current
    <2> QED
      BY <1>a, <1>1, <2>2, <2>3 DEF ChainInv
  <1>2. CASE cstep # "files"
    BY <1>2 DEF ChainInv, Linking, Unchained
  <1> QED
    BY <1>1, <1>2

(* The rest of the pipeline only counts.                                   *)
LEMMA RestLeavesLinks == PipelineNext => UNCHANGED Linking
  BY DEF PipelineNext, EndScans, Attribute, EndAttribute, MergeRows, EndMerge, CountRadius, EndCount,
         CountFrom, CountNext, StartRadius, EndRadius, Pop, cvars, Linking

(* Every step of the loop keeps what is known of the certificates.         *)
LEMMA ChainKeeps == LoopInv /\ LoopInv' /\ ChainInv /\ [CollectNext]_vars => ChainInv'
  <1> SUFFICES ASSUME LoopInv, LoopInv', ChainInv, [CollectNext]_vars
               PROVE  ChainInv'
    OBVIOUS
  <1>1. CASE StartScan
    <2>1. cstep # "files" /\ UNCHANGED Linking /\ UNCHANGED <<job, pos>>
      BY <1>1 DEF StartScan, More, pvars, cvars
    <2>2. CASE cstep' = "files"
      <3>1. PICK certs : certs = Current'.of.found
        OBVIOUS
      <3>2. IsResult(Current'.of)
        BY <2>2, JobTargets DEF LoopInv, Current
      <3>3. certs \in Seq(Range(certs))
        BY <3>1, <3>2 DEF IsResult
      <3>4. Unchained
        BY <2>1 DEF ChainInv
      <3>5. Unchained'
        BY <2>1, <3>4 DEF Unchained, Linking
      <3>6. ChainOf(certs)'
        <4>1. Unchained => ChainOf(certs)
          BY <3>3, UnchainedHolds
        <4>2. ChainOf(certs)
          BY <3>4, <4>1
        <4> QED
          BY <2>1, <4>2 DEF Linking, ChainOf, KeyIdsIndexed, NamesIndexed, Decided, SelfSigned
      <3> QED
        BY <2>2, <3>1, <3>6 DEF ChainInv, Current
    <2>3. CASE cstep' # "files"
      BY <2>1, <2>3, ChainSame
    <2> QED
      BY <2>2, <2>3
  <1>2. CASE Chain
    <2>a. PICK certs : certs = Current.of.found
      OBVIOUS
    <2>1. cstep = "files" /\ LinkNext(certs) /\ UNCHANGED <<cstep, job, pos>>
      BY <1>2, <2>a DEF Chain, rvars
    <2>2. IsResult(Current.of)
      BY <2>1, JobTargets DEF LoopInv, Current
    <2>3. certs \in Seq(Range(certs))
      BY <2>a, <2>2 DEF IsResult
    <2>4. ChainOf(certs)'
      BY <2>a, <2>1, <2>3, LinkNextKeeps DEF ChainInv
    <2> QED
      BY <2>a, <2>1, <2>4 DEF ChainInv, Current
  <1>3. CASE TakeFiles
    BY <1>3 DEF TakeFiles, LinkReset, Advance, ChainInv, Unchained
  <1>4. CASE Rest
    <2>1. UNCHANGED Linking
      BY <1>4, RestLeavesLinks DEF Rest, pvars, cvars
    <2>2. cstep # "files" /\ cstep' # "files"
      BY <1>4 DEF Rest
    <2> QED
      BY <2>1, <2>2, ChainSame
  <1>5. UnknownScanner \/ Walk \/ Probe \/ Image \/ Code \/ StartTree \/ Fetch \/ TakeTree \/ ScanTree \/ Finish
          \/ Ended \/ UNCHANGED vars
            => UNCHANGED Linking /\ (cstep' = "files" <=> cstep = "files")
               /\ (cstep = "files" => UNCHANGED <<job, pos>>)
    BY DEF UnknownScanner, More, Advance, Walk, Probe, Image, Code, StartTree, Fetch, TakeTree, ScanTree, Finish,
           Ended, vars, rvars, pvars, cvars
  <1>6. TakeStore \/ TakeHost \/ TakeImage \/ TakeCode
            => UNCHANGED Linking /\ (cstep' = "files" <=> cstep = "files")
               /\ (cstep = "files" => UNCHANGED <<job, pos>>)
    BY DEF TakeStore, TakeHost, TakeImage, TakeCode, Advance, pvars, cvars
  <1>7. CASE UnknownScanner \/ Walk \/ Probe \/ Image \/ Code \/ StartTree \/ Fetch \/ TakeTree \/ ScanTree \/ Finish
              \/ Ended \/ UNCHANGED vars
    BY <1>5, <1>7, ChainSame
  <1>8. CASE TakeStore \/ TakeHost \/ TakeImage \/ TakeCode
    BY <1>6, <1>8, ChainSame
  <1> QED
    BY <1>1, <1>2, <1>3, <1>4, <1>7, <1>8 DEF CollectNext

(* What is known of the certificates, in every state.                      *)
LEMMA ChainHolds == CollectSpec => []ChainInv
  <1>1. CollectInit => ChainInv
    BY DEF CollectInit, PipelineInit, ChainInit, ChainInv, Unchained
  <1> QED
    BY <1>1, LoopHolds, ChainKeeps, PTL DEF CollectSpec

(* certificates.py:115-146: whatever the certificates of a result, one that*)
(* names an issuing key on disk is linked to a certificate with that key,  *)
(* never to another with the issuer's name.                                *)
THEOREM KeyIdsDecide == CollectSpec => []KeyIdDecides
  <1>1. ChainInv => KeyIdDecides
    BY DEF ChainInv, Unchained, ChainOf, Decided, KeyIdDecides
  <1> QED
    BY <1>1, ChainHolds, PTL

-----------------------------------------------------------------------------
(* The report, all along: nothing of the pipeline's rest runs before the   *)
(* loop is done with its targets.                                          *)
GatheredInv ==
  /\ PipelineInv /\ RadiusInv
  /\ cstep \notin {"rest", "finished"} => pstep = "scan"

(* A step that is not of the pipeline.                                     *)
LEMMA GatheredSame ==
  ASSUME GatheredInv, UNCHANGED <<pstep, handled, said, raw, rels, mvars>>, UNCHANGED Counting,
         cstep' \notin {"rest", "finished"} => pstep' = "scan"
  PROVE  GatheredInv'
  <1>1. PipelineInv'
    BY PipelineInvSame DEF GatheredInv
  <1>2. RadiusInv'
    BY RadiusInvSame DEF GatheredInv, mvars
  <1> QED
    BY <1>1, <1>2 DEF GatheredInv

(* A result joins the report.                                              *)
LEMMA JoinGathers ==
  ASSUME GatheredInv, pstep = "scan", UNCHANGED Counting,
         NEW result, Joinable(result), JoinResult(result)
  PROVE  GatheredInv'
  <1>1. PipelineInv' /\ pstep' = "scan"
    BY JoinKeeps DEF GatheredInv
  <1>2. RadiusInv'
    BY <1>1, RadiusInvSame DEF GatheredInv
  <1> QED
    BY <1>1, <1>2 DEF GatheredInv

(* The links of certificates are between findings of their result.         *)
LEMMA SignedJoins ==
  ASSUME NEW r, IsResult(r), \A l \in links : Decided(r.found, l)
  PROVE  Joinable(r)
  <1> DEFINE P(x) == {i \in DOMAIN r.found : r.found[i].print = x}
  <1>1. /\ r.assets \in Seq(Asset) /\ r.moved = {}
        /\ \A i \in DOMAIN r.assets : Coherent(r.assets[i])
        /\ \A l \in r.links : {l[1], l[2]} \subseteq DOMAIN r.assets
        /\ r.found \in Seq(Range(r.found)) /\ DOMAIN r.found \subseteq DOMAIN r.assets
    BY DEF IsResult, IsPiece
  <1>2. DOMAIN r.found \subseteq Nat
    BY <1>1, LenProperties
  <1>3. ASSUME NEW x, P(x) # {}
        PROVE  LeastOf(P(x)) \in DOMAIN r.assets
    BY <1>1, <1>2, <1>3, LeastOfPositions
  <1>4. \A l \in links : P(l[1]) # {} /\ P(l[2]) # {}
    BY DEF Decided
  <1>5. Signed(r.found) = {<<LeastOf(P(l[1])), LeastOf(P(l[2])), "signed-by">> : l \in links}
    BY DEF Signed
  <1> HIDE DEF P
  <1>6. \A l \in Signed(r.found) : {l[1], l[2]} \subseteq DOMAIN r.assets
    BY <1>3, <1>4, <1>5
  <1> QED
    BY <1>1, <1>6 DEF Joinable

(* What was read of a tree joins the report as it is.                      *)
LEMMA CodeJoins ==
  ASSUME NEW r, IsPiece(Piece(r.assets, r.links)), r.moved = {}, r.found = <<>>, links = {}
  PROVE  Joinable(r)
  <1>1. Signed(r.found) = {}
    BY DEF Signed
  <1>2. /\ r.assets \in Seq(Asset) /\ \A i \in DOMAIN r.assets : Coherent(r.assets[i])
        /\ \A l \in r.links : {l[1], l[2]} \subseteq DOMAIN r.assets
    BY DEF IsPiece, Piece
  <1> QED
    BY <1>1, <1>2 DEF Joinable

(* The loop's steps on the report.                                         *)
LEMMA TakeGathers ==
  ASSUME LoopInv, ImageInv, CodeInv, ChainInv, GatheredInv, TakeImage \/ TakeCode \/ TakeFiles
  PROVE  GatheredInv'
  <1>1. pstep = "scan" /\ cstep \in {"image", "code", "files"} /\ cstep' = "next"
    BY DEF TakeImage, TakeCode, TakeFiles, Advance, GatheredInv
  <1>2. CASE TakeImage
    <2>1. links = {} /\ istep # "idle"
      BY <1>2 DEF TakeImage, ChainInv, Unchained
    <2>2. CASE istep = "done"
      <3>1. PICK g : g = gathered
        OBVIOUS
      <3>2. Joinable(g)
        BY <2>1, <3>1, UnsignedJoins DEF ImageInv
      <3>3. JoinResult(g) /\ UNCHANGED Counting
        BY <1>2, <2>2, <3>1 DEF TakeImage, cvars
      <3> QED
        BY <1>1, <3>2, <3>3, JoinGathers
    <2>3. CASE istep # "done"
      <3>1. UNCHANGED pvars
        BY <1>2, <2>3 DEF TakeImage
      <3> QED
        BY <1>1, <3>1, GatheredSame DEF pvars, cvars
    <2> QED
      BY <2>2, <2>3
  <1>3. CASE TakeCode
    <2>1. links = {} /\ sstep # "idle"
      BY <1>3 DEF TakeCode, ChainInv, Unchained
    <2>2. CASE sstep = "done"
      <3>1. PICK a, l : a = sourced /\ l = related
        OBVIOUS
      <3>2. IsPiece(Piece(a, l))
        BY <2>1, <3>1 DEF CodeInv
      <3>3. PICK r : r = [Nothing EXCEPT !.assets = a, !.links = l]
        OBVIOUS
      <3>4. Joinable(r)
        <4>1. r.assets = a /\ r.links = l /\ r.moved = {} /\ r.found = <<>>
          BY <3>3 DEF Nothing
        <4> QED
          BY <2>1, <3>2, <4>1, CodeJoins
      <3>5. JoinResult(r) /\ UNCHANGED Counting
        BY <1>3, <2>2, <3>1, <3>3 DEF TakeCode, cvars
      <3> QED
        BY <1>1, <3>4, <3>5, JoinGathers
    <2>3. CASE sstep # "done"
      <3>1. UNCHANGED pvars
        BY <1>3, <2>3 DEF TakeCode
      <3> QED
        BY <1>1, <3>1, GatheredSame DEF pvars, cvars
    <2> QED
      BY <2>2, <2>3
  <1>4. CASE TakeFiles
    <2>1. cstep = "files" /\ UNCHANGED Counting
      BY <1>4 DEF TakeFiles, LinkReset
    <2>2. CASE JoinResult(Current.of)
      <3>1. PICK r : r = Current.of
        OBVIOUS
      <3>2. IsResult(r)
        BY <2>1, <3>1, JobTargets DEF LoopInv, Current
      <3>3. \A l \in links : Decided(r.found, l)
        BY <2>1, <3>1 DEF ChainInv, ChainOf
      <3>4. Joinable(r)
        BY <3>2, <3>3, SignedJoins
      <3>5. JoinResult(r)
        BY <2>2, <3>1
      <3> QED
        BY <1>1, <2>1, <3>4, <3>5, JoinGathers
    <2>3. CASE UNCHANGED <<raw, rels, said, pstep, handled, mvars>>
      BY <1>1, <2>1, <2>3, GatheredSame
    <2> QED
      BY <1>4, <2>2, <2>3 DEF TakeFiles
  <1> QED
    BY <1>2, <1>3, <1>4

(* Every step of the loop keeps the report as promised.                    *)
LEMMA GatheredKeeps ==
  LoopInv /\ ImageInv /\ CodeInv /\ ChainInv /\ GatheredInv /\ [CollectNext]_vars => GatheredInv'
  <1> SUFFICES ASSUME LoopInv, ImageInv, CodeInv, ChainInv, GatheredInv, [CollectNext]_vars
               PROVE  GatheredInv'
    OBVIOUS
  <1>1. CASE TakeImage \/ TakeCode \/ TakeFiles
    BY <1>1, TakeGathers
  <1>2. CASE Rest
    <2>1. CASE pstep = "done"
      <3>1. UNCHANGED pvars
        BY <1>2, <2>1 DEF Rest
      <3>2. cstep' = "finished"
        BY <1>2, <2>1 DEF Rest
      <3> QED
        BY <3>1, <3>2, GatheredSame DEF pvars, cvars
    <2>2. CASE pstep # "done"
      <3>1. PipelineNext /\ cstep' = "rest"
        BY <1>2, <2>2 DEF Rest
      <3> QED
        BY <3>1, PipelineNextKeeps, RadiusKeeps DEF GatheredInv
    <2> QED
      BY <2>1, <2>2
  <1>3. UnknownScanner \/ StartScan \/ Walk \/ Probe \/ Image \/ Code \/ TakeStore \/ TakeHost
          \/ StartTree \/ Fetch \/ TakeTree \/ ScanTree \/ Finish \/ Ended \/ UNCHANGED vars
            => UNCHANGED pvars
    BY DEF UnknownScanner, StartScan, Walk, Probe, Image, Code, TakeStore, TakeHost, StartTree, Fetch,
           TakeTree, ScanTree, Finish, Ended, vars
  <1>4. Chain => UNCHANGED <<pstep, handled, said, raw, rels, mvars>> /\ UNCHANGED Counting
    BY DEF Chain, LinkNext, IndexCertificate, EndIndex, LinkCertificate, EndLink
  <1>5. UnknownScanner \/ StartScan \/ Walk \/ Probe \/ Image \/ Code \/ Chain \/ TakeStore \/ TakeHost
          \/ StartTree \/ Fetch \/ TakeTree \/ ScanTree \/ Finish \/ Ended \/ UNCHANGED vars
            => (cstep' \notin {"rest", "finished"} => cstep \notin {"rest", "finished"})
    BY DEF UnknownScanner, More, StartScan, Walk, Probe, Image, Code, Chain, TakeStore, TakeHost, StartTree, Fetch,
           TakeTree, ScanTree, Finish, Ended, vars, rvars
  <1>6. CASE UnknownScanner \/ StartScan \/ Walk \/ Probe \/ Image \/ Code \/ TakeStore \/ TakeHost
               \/ StartTree \/ Fetch \/ TakeTree \/ ScanTree \/ Finish \/ Ended \/ UNCHANGED vars
    <2>1. UNCHANGED pvars /\ (cstep' \notin {"rest", "finished"} => pstep' = "scan")
      BY <1>3, <1>5, <1>6 DEF GatheredInv, pvars
    <2> QED
      BY <2>1, GatheredSame DEF pvars, cvars
  <1>7. CASE Chain
    <2>1. cstep' \notin {"rest", "finished"} => pstep' = "scan"
      BY <1>4, <1>5, <1>7 DEF GatheredInv
    <2> QED
      BY <1>4, <1>7, <2>1, GatheredSame
  <1> QED
    BY <1>1, <1>2, <1>6, <1>7 DEF CollectNext

(* The report, in every state.                                             *)
LEMMA GatheredHolds == CollectSpec => []GatheredInv
  <1>1. CollectInit => GatheredInv
    <2> SUFFICES ASSUME CollectInit
                 PROVE  GatheredInv
      OBVIOUS
    <2>1. PipelineInit /\ pstep = "scan"
      BY DEF CollectInit, PipelineInit
    <2>2. RadiusInv
      BY <2>1 DEF PipelineInit, ChainInit, RadiusInv, NotCounting
    <2> QED
      BY <2>1, <2>2, PipelineStarts DEF GatheredInv
  <1> QED
    BY <1>1, LoopHolds, ImageHolds, CodeHolds, ChainHolds, GatheredKeeps, PTL DEF CollectSpec

(* inventory.py:53-90: when merge() is done every finding of every scanner *)
(* belongs to one surviving row, whose evidence is that of its findings.   *)
THEOREM EvidenceKept == CollectSpec => []EvidenceAccounted
  <1>1. GatheredInv => EvidenceAccounted
    BY EvidenceIsAccounted DEF GatheredInv, PipelineInv
  <1> QED
    BY <1>1, GatheredHolds, PTL

(* inventory.py:35-43, 71-89: no key size is lost to an absorption, and no *)
(* call site leaves its place.                                             *)
THEOREM SizesAndPlacesKept == CollectSpec => []AbsorptionKeepsSizeAndPlace
  <1>1. GatheredInv => AbsorptionKeepsSizeAndPlace
    BY AbsorptionKeeps DEF GatheredInv, PipelineInv
  <1> QED
    BY <1>1, GatheredHolds, PTL

(* inventory.py:93-104: the relationships are between the rows that the    *)
(* findings they were made between are in, and there is no other.          *)
THEOREM EdgesFollow == CollectSpec => []EdgesFollowFindings
  <1>1. GatheredInv => EdgesFollowFindings
    BY DEF GatheredInv, PipelineInv
  <1> QED
    BY <1>1, GatheredHolds, PTL

(* engine.py:192-235: a call site leads to a row of the module it goes     *)
(* through, whichever scanner named the module, if any.                    *)
THEOREM ProvidersLead == CollectSpec => []ProvidersLinked
  <1>1. GatheredInv => ProvidersLinked
    BY ProvidersAreLinked DEF GatheredInv
  <1> QED
    BY <1>1, GatheredHolds, PTL

(* cbom.py: whatever rows are exported, validate() has no complaint.       *)
THEOREM DocumentsValid == CollectSpec => []DocumentValid
  <1>1. GatheredInv => DocumentValid
    BY DocumentIsValid DEF GatheredInv
  <1> QED
    BY <1>1, GatheredHolds, PTL

(* certificates.py:149-172: the radius of a certificate is the number of   *)
(* the assets below it, cycles included.                                   *)
THEOREM RadiusReached == CollectSpec => []RadiusIsReach
  <1>1. GatheredInv => RadiusIsReach
    BY RadiusReaches DEF GatheredInv
  <1> QED
    BY <1>1, GatheredHolds, PTL

-----------------------------------------------------------------------------
(* What becomes of each key of a store.                                    *)

KeysAt(p) == Range(EntryAt(store, p))

LeavesOut(p, k) ==
  ~IsAsset(store.kind, k) \/ (store.kind = "pkcs11" /\ store.slot \notin {AnySlot, p[1]})

NamesGroup(p) == <<"group", p[1]>> \in named
NamesFirst(p) == <<"key", EntryAt(store, p)[1].id>> \in named

(* An entry that was not come to.                                          *)
Untouched(p) ==
  /\ \A k \in KeysAt(p) : k.id \notin reported
  /\ ~NamesGroup(p) /\ ~NamesFirst(p)

(* An entry that was: each of its keys is an asset, left out or named.     *)
EntryDone(p) ==
  \A k \in KeysAt(p) :
    /\ k.id \in reported \/ LeavesOut(p, k) \/ Whole \in named \/ NamesGroup(p) \/ NamesFirst(p)
    /\ k.id \in reported => ~(LeavesOut(p, k) \/ NamesGroup(p) \/ NamesFirst(p))

ByGroup == store.kind \in {"gcp", "pkcs11"}

(* What the walk has still to come to.                                     *)
Ahead(p) ==
  \/ kstep \in {"scheme", "list"}
  \/ kstep = "entries" /\ EntryAt(store, p) \in Range(listed)
  \/ kstep = "entries" /\ ByGroup /\ p[1] > group
  \/ kstep \in {"group", "token"} /\ p[1] >= group

EntryType == Seq([id : KeyIds, spec : {"mapped", "other", NoSpec}, live : BOOLEAN])

(* Where the walk is: what is listed are different entries, of the groups  *)
(* it has come to.                                                         *)
WalkedTo ==
  /\ group \in Nat \ {0} /\ listed \in Seq(EntryType)
  /\ \A i, j \in DOMAIN listed : listed[i] = listed[j] => i = j
  /\ kstep \in {"scheme", "list"} =>
       /\ group \in 1..(Len(store.groups) + 1) /\ (ByGroup \/ kstep = "scheme" => group = 1)
       /\ ~ByGroup => group \in DOMAIN store.groups
       /\ Range(listed) = {EntryAt(store, p) : p \in {q \in Listing(store) : q[1] < group}}
  /\ kstep = "entries" =>
       /\ store.kind # "pkcs11"
       /\ \A x \in Range(listed) : \E p \in Listing(store) :
            EntryAt(store, p) = x /\ (ByGroup => p[1] = group)
  /\ kstep \in {"group", "token"} => ByGroup
  /\ kstep = "token" =>
       /\ store.kind = "pkcs11" /\ group \in DOMAIN store.groups /\ store.slot \in {AnySlot, group}
       /\ ~session => listed = store.groups[group]

StoreInv ==
  kstep \notin {"idle", "crashed"} =>
    /\ kstep \in {"scheme", "list", "entries", "group", "token", "done"}
    /\ IsStore(store) /\ <<"crash">> \notin named
    /\ WalkedTo
    /\ \A p \in Listing(store) : IF Ahead(p) THEN Untouched(p) ELSE EntryDone(p)

(* What a store lists.                                                     *)
LEMMA StoreLists ==
  ASSUME NEW s, IsStore(s)
  PROVE  /\ Len(s.groups) \in Nat /\ DOMAIN s.groups = 1..Len(s.groups)
         /\ \A g \in DOMAIN s.groups : s.groups[g] \in Seq(EntryType)
         /\ \A p \in Listing(s) :
              /\ p[1] \in DOMAIN s.groups /\ p[1] \in Nat /\ p[2] \in DOMAIN s.groups[p[1]]
              /\ EntryAt(s, p) \in EntryType /\ EntryAt(s, p) \in Range(s.groups[p[1]])
              /\ 1 \in DOMAIN EntryAt(s, p) /\ EntryAt(s, p)[1] \in Range(EntryAt(s, p))
         /\ \A g \in DOMAIN s.groups : \A e \in DOMAIN s.groups[g] :
              <<g, e>> \in Listing(s) /\ EntryAt(s, <<g, e>>) = s.groups[g][e]
  <1>1. /\ Len(s.groups) \in Nat /\ DOMAIN s.groups = 1..Len(s.groups)
        /\ \A g \in DOMAIN s.groups : s.groups[g] \in Seq(EntryType)
    BY LenProperties, ElementOfSeq DEF IsStore, EntryType
  <1>2. ASSUME NEW p \in Listing(s)
        PROVE  /\ p[1] \in DOMAIN s.groups /\ p[1] \in Nat /\ p[2] \in DOMAIN s.groups[p[1]]
               /\ EntryAt(s, p) \in EntryType /\ EntryAt(s, p) \in Range(s.groups[p[1]])
               /\ 1 \in DOMAIN EntryAt(s, p) /\ EntryAt(s, p)[1] \in Range(EntryAt(s, p))
    <2>1. p[1] \in DOMAIN s.groups /\ p[2] \in DOMAIN s.groups[p[1]]
      BY DEF Listing
    <2>2. s.groups[p[1]] \in Seq(EntryType)
      BY <1>1, <2>1
    <2>3. EntryAt(s, p) \in EntryType
      BY <2>1, <2>2, ElementOfSeq, LenProperties DEF EntryAt
    <2>4. EntryAt(s, p) # <<>>
      BY DEF IsStore
    <2>5. 1 \in DOMAIN EntryAt(s, p)
      BY <2>3, <2>4, EmptySeq, LenProperties DEF EntryType
    <2> QED
      BY <1>1, <2>1, <2>3, <2>5 DEF EntryAt, Range
  <1>3. \A g \in DOMAIN s.groups : \A e \in DOMAIN s.groups[g] :
          <<g, e>> \in Listing(s) /\ EntryAt(s, <<g, e>>) = s.groups[g][e]
    BY DEF Listing, EntryAt
  <1> QED
    BY <1>1, <1>2, <1>3

(* A key is in one entry, and an entry is listed once.                     *)
LEMMA OneEntryEach ==
  ASSUME NEW s, IsStore(s), NEW p \in Listing(s), NEW q \in Listing(s)
  PROVE  /\ \A k \in Range(EntryAt(s, p)), l \in Range(EntryAt(s, q)) : k.id = l.id => p = q /\ k = l
         /\ EntryAt(s, p) = EntryAt(s, q) => p = q
         /\ EntryAt(s, p)[1].id = EntryAt(s, q)[1].id => p = q
  <1>1. \A i \in DOMAIN EntryAt(s, p), j \in DOMAIN EntryAt(s, q) :
          EntryAt(s, p)[i].id = EntryAt(s, q)[j].id => p = q /\ i = j
    BY DEF IsStore
  <1>2. 1 \in DOMAIN EntryAt(s, p) /\ 1 \in DOMAIN EntryAt(s, q)
    BY StoreLists
  <1>3. \A k \in Range(EntryAt(s, p)), l \in Range(EntryAt(s, q)) : k.id = l.id => p = q /\ k = l
    BY <1>1 DEF Range
  <1> QED
    BY <1>1, <1>2, <1>3

(* The entries of a group are different ones.                              *)
LEMMA GroupListed ==
  ASSUME NEW s, IsStore(s), NEW g \in DOMAIN s.groups
  PROVE  /\ s.groups[g] \in Seq(EntryType)
         /\ \A m, n \in DOMAIN s.groups[g] : s.groups[g][m] = s.groups[g][n] => m = n
         /\ \A x \in Range(s.groups[g]) : \E p \in Listing(s) : EntryAt(s, p) = x /\ p[1] = g
         /\ \A p \in Listing(s) : EntryAt(s, p) \in Range(s.groups[g]) <=> p[1] = g
  <1>1. ASSUME NEW m \in DOMAIN s.groups[g], NEW n \in DOMAIN s.groups[g], s.groups[g][m] = s.groups[g][n]
        PROVE  m = n
    <2>1. /\ <<g, m>> \in Listing(s) /\ EntryAt(s, <<g, m>>) = s.groups[g][m]
          /\ <<g, n>> \in Listing(s) /\ EntryAt(s, <<g, n>>) = s.groups[g][n]
      BY StoreLists
    <2>2. <<g, m>> = <<g, n>>
      BY <1>1, <2>1, OneEntryEach
    <2> QED
      BY <2>2
  <1>2. ASSUME NEW x \in Range(s.groups[g])
        PROVE  \E p \in Listing(s) : EntryAt(s, p) = x /\ p[1] = g
    <2>1. PICK e \in DOMAIN s.groups[g] : s.groups[g][e] = x
      BY DEF Range
    <2>2. <<g, e>> \in Listing(s) /\ EntryAt(s, <<g, e>>) = x
      BY <2>1, StoreLists
    <2> QED
      BY <2>2
  <1>3. ASSUME NEW p \in Listing(s), EntryAt(s, p) \in Range(s.groups[g])
        PROVE  p[1] = g
    BY <1>2, <1>3, OneEntryEach
  <1>4. ASSUME NEW p \in Listing(s), p[1] = g
        PROVE  EntryAt(s, p) \in Range(s.groups[g])
    BY <1>4, StoreLists
  <1> QED
    BY <1>1, <1>2, <1>3, <1>4, StoreLists

(* What a step says of other entries changes nothing of this one.          *)
LEMMA Elsewhere ==
  ASSUME NEW p, store' = store, reported \subseteq reported', named \subseteq named',
         \A k \in KeysAt(p) : k.id \in reported' => k.id \in reported,
         NamesGroup(p)' => NamesGroup(p), NamesFirst(p)' => NamesFirst(p)
  PROVE  (Untouched(p) => Untouched(p)') /\ (EntryDone(p) => EntryDone(p)')
  <1>1. KeysAt(p)' = KeysAt(p) /\ \A k : LeavesOut(p, k)' <=> LeavesOut(p, k)
    BY DEF KeysAt, LeavesOut, IsAsset, IsHardwareKey, HoldsMaterial, IsKey
  <1>2. NamesGroup(p) => NamesGroup(p)'
    BY DEF NamesGroup
  <1>3. NamesFirst(p) => NamesFirst(p)'
    BY DEF NamesFirst
  <1> QED
    BY <1>1, <1>2, <1>3 DEF Untouched, EntryDone

(* What the names of a walk are of.                                        *)
LEMMA NamesApart ==
  /\ \A x, y : <<"group", x>> = <<"group", y>> => x = y
  /\ \A x, y : <<"key", x>> = <<"key", y>> => x = y
  /\ \A x, y : <<"group", x>> # <<"key", y>> /\ <<"group", x>> # Whole /\ <<"key", x>> # Whole
  BY DEF Whole

(* An error that ends the walk before it has come to anything names all.   *)
LEMMA EndsWhole ==
  ASSUME StoreInv, kstep \in {"scheme", "list"}, EndWith(Whole), UNCHANGED <<store, session>>
  PROVE  StoreInv'
  <1>1. /\ store' = store /\ reported' = reported /\ named' = named \cup {Whole} /\ kstep' = "done"
        /\ group' = group /\ listed' = listed /\ session' = session
        /\ IsStore(store) /\ <<"crash">> \notin named /\ WalkedTo
    BY DEF StoreInv, EndWith, Name
  <1>2. WalkedTo'
    BY <1>1 DEF WalkedTo, ByGroup
  <1>3. ASSUME NEW p \in Listing(store)
        PROVE  EntryDone(p)'
    <2>1. Untouched(p)
      BY DEF StoreInv, Ahead
    <2>2. Untouched(p)'
      <3>1. (NamesGroup(p)' => NamesGroup(p)) /\ (NamesFirst(p)' => NamesFirst(p))
        BY <1>1, NamesApart DEF NamesGroup, NamesFirst
      <3> QED
        BY <1>1, <2>1, <3>1, Elsewhere
    <2> QED
      BY <1>1, <2>2 DEF Untouched, EntryDone, NamesGroup, NamesFirst
  <1>4. <<"crash">> \notin named'
    BY <1>1 DEF Whole
  <1>5. \A p : ~Ahead(p)'
    BY <1>1 DEF Ahead
  <1> QED
    BY <1>1, <1>2, <1>3, <1>4, <1>5 DEF StoreInv

Untold(p) ==
  /\ \A k \in KeysAt(p) : k.id \in reported' => k.id \in reported
  /\ NamesGroup(p)' => NamesGroup(p)
  /\ NamesFirst(p)' => NamesFirst(p)

(* A step comes to some entries, and says nothing of the others.           *)
LEMMA StepComesTo ==
  ASSUME StoreInv, kstep \notin {"idle", "crashed"},
         kstep' \in {"scheme", "list", "entries", "group", "token", "done"},
         store' = store, reported \subseteq reported', named \subseteq named', <<"crash">> \notin named', WalkedTo',
         \A p \in Listing(store) :
           IF Ahead(p) /\ ~Ahead(p)' THEN EntryDone(p)' ELSE (Ahead(p)' => Ahead(p)) /\ Untold(p)
  PROVE  StoreInv'
  <1>1. ASSUME NEW p \in Listing(store)
        PROVE  IF Ahead(p)' THEN Untouched(p)' ELSE EntryDone(p)'
    <2>1. IF Ahead(p) THEN Untouched(p) ELSE EntryDone(p)
      BY DEF StoreInv
    <2>2. Untold(p) => (Untouched(p) => Untouched(p)') /\ (EntryDone(p) => EntryDone(p)')
      BY Elsewhere DEF Untold
    <2> QED
      BY <2>1, <2>2
  <1>2. IsStore(store)'
    BY DEF StoreInv
  <1> QED
    BY <1>1, <1>2 DEF StoreInv

(* A step that says nothing.                                               *)
LEMMA QuietStep ==
  ASSUME StoreInv, kstep \notin {"idle", "crashed"},
         kstep' \in {"scheme", "list", "entries", "group", "token", "done"},
         UNCHANGED <<store, reported, named>>, WalkedTo',
         \A p \in Listing(store) : Ahead(p)' <=> Ahead(p)
  PROVE  StoreInv'
  <1>1. <<"crash">> \notin named'
    BY DEF StoreInv
  <1>2. \A p \in Listing(store) : Untold(p)
    BY DEF Untold, NamesGroup, NamesFirst
  <1> QED
    BY <1>1, <1>2, StepComesTo

(* A page joins those before it.                                           *)
LEMMA ListPageKeeps ==
  ASSUME StoreInv, ListPage
  PROVE  StoreInv'
  <1>a. PICK g, S : g = group /\ S = store.groups[group]
    OBVIOUS
  <1>1. /\ kstep = "list" /\ ~ByGroup /\ UNCHANGED <<store, reported, named, session>>
        /\ listed' = listed \o S
        /\ IF g = Len(store.groups) THEN kstep' = "entries" /\ group' = g ELSE kstep' = "list" /\ group' = g + 1
    BY <1>a DEF ListPage, ByGroup, Kept
  <1>2. /\ IsStore(store) /\ WalkedTo /\ g \in DOMAIN store.groups /\ listed \in Seq(EntryType)
        /\ Range(listed) = {EntryAt(store, p) : p \in {q \in Listing(store) : q[1] < g}}
        /\ \A i, j \in DOMAIN listed : listed[i] = listed[j] => i = j
    BY <1>a, <1>1 DEF StoreInv, WalkedTo
  <1>3. Len(store.groups) \in Nat /\ DOMAIN store.groups = 1..Len(store.groups) /\ g \in Nat \ {0}
        /\ S \in Seq(EntryType)
    BY <1>a, <1>2, StoreLists
  <1>4. /\ listed' \in Seq(EntryType) /\ Len(listed') = Len(listed) + Len(S)
        /\ Len(listed) \in Nat /\ Len(S) \in Nat
        /\ \A i \in 1..(Len(listed) + Len(S)) :
             listed'[i] = IF i <= Len(listed) THEN listed[i] ELSE S[i - Len(listed)]
    BY <1>1, <1>2, <1>3, ConcatProperties, LenProperties
  <1>5. DOMAIN listed = 1..Len(listed) /\ DOMAIN S = 1..Len(S) /\ DOMAIN listed' = 1..(Len(listed) + Len(S))
    BY <1>2, <1>3, <1>4, LenProperties
  <1>6. Range(listed') = Range(listed) \cup Range(S)
    BY <1>1, <1>2, <1>3, RangeConcatenation
  <1>7. Range(S) = {EntryAt(store, p) : p \in {q \in Listing(store) : q[1] = g}}
    <2>1. /\ \A x \in Range(store.groups[g]) : \E p \in Listing(store) : EntryAt(store, p) = x /\ p[1] = g
          /\ \A p \in Listing(store) : EntryAt(store, p) \in Range(store.groups[g]) <=> p[1] = g
      BY <1>2, GroupListed
    <2>2. S = store.groups[g]
      BY <1>a
    <2> QED
      BY <2>1, <2>2
  <1>8. Range(listed') = {EntryAt(store, p) : p \in {q \in Listing(store) : q[1] < g + 1}}
    <2>1. \A p \in Listing(store) : p[1] < g + 1 <=> p[1] < g \/ p[1] = g
      BY <1>2, <1>3, StoreLists
    <2> QED
      BY <1>2, <1>6, <1>7, <2>1
  <1>9. ASSUME NEW i \in DOMAIN listed', NEW j \in DOMAIN listed', listed'[i] = listed'[j]
        PROVE  i = j
    <2>1. ASSUME NEW m \in DOMAIN listed, NEW n \in DOMAIN S
          PROVE  listed[m] # S[n]
      <3>1. listed[m] \in Range(listed)
        BY DEF Range
      <3>2. PICK p \in Listing(store) : p[1] < g /\ EntryAt(store, p) = listed[m]
        BY <1>2, <3>1
      <3>3. <<g, n>> \in Listing(store) /\ EntryAt(store, <<g, n>>) = S[n]
        BY <1>a, <1>2, StoreLists
      <3>4. p # <<g, n>>
        BY <1>3, <3>2
      <3> QED
        BY <1>2, <3>2, <3>3, <3>4, OneEntryEach
    <2>2. ASSUME NEW m \in DOMAIN S, NEW n \in DOMAIN S, S[m] = S[n]
          PROVE  m = n
      BY <1>a, <1>2, <2>2, GroupListed
    <2>3. \A x \in DOMAIN listed' :
            \/ x \in DOMAIN listed /\ listed'[x] = listed[x]
            \/ x - Len(listed) \in DOMAIN S /\ listed'[x] = S[x - Len(listed)] /\ x \in Nat
      BY <1>4, <1>5
    <2>4. CASE i \in DOMAIN listed /\ j \in DOMAIN listed /\ listed'[i] = listed[i] /\ listed'[j] = listed[j]
      BY <1>2, <1>9, <2>4
    <2>5. CASE /\ i - Len(listed) \in DOMAIN S /\ listed'[i] = S[i - Len(listed)] /\ i \in Nat
               /\ j - Len(listed) \in DOMAIN S /\ listed'[j] = S[j - Len(listed)] /\ j \in Nat
      <3>1. i - Len(listed) = j - Len(listed)
        BY <1>9, <2>2, <2>5
      <3> QED
        BY <1>4, <2>5, <3>1
    <2> QED
      BY <1>9, <2>1, <2>3, <2>4, <2>5
  <1>10. CASE g = Len(store.groups)
    <2>1. kstep' = "entries" /\ group' = g
      BY <1>1, <1>10
    <2>2. \A p \in Listing(store) : p[1] < g + 1
      BY <1>2, <1>3, <1>10, StoreLists
    <2>3. Range(listed') = {EntryAt(store, p) : p \in Listing(store)}
      BY <1>8, <2>2
    <2>4. ~ByGroup' /\ store'.kind # "pkcs11"
      BY <1>1 DEF ByGroup
    <2>5. WalkedTo'
      BY <1>1, <1>3, <1>4, <1>9, <2>1, <2>3, <2>4 DEF WalkedTo
    <2>6. \A p \in Listing(store) : Ahead(p)' <=> Ahead(p)
      BY <1>1, <2>1, <2>3 DEF Ahead
    <2> QED
      BY <1>1, <2>1, <2>5, <2>6, QuietStep
  <1>11. CASE g # Len(store.groups)
    <2>1. kstep' = "list" /\ group' = g + 1
      BY <1>1, <1>11
    <2>2. g + 1 \in DOMAIN store.groups /\ g + 1 \in 1..(Len(store.groups) + 1)
      BY <1>2, <1>3, <1>11
    <2>3. ~ByGroup'
      BY <1>1 DEF ByGroup
    <2>4. WalkedTo'
      BY <1>1, <1>4, <1>8, <1>9, <2>1, <2>2, <2>3 DEF WalkedTo
    <2>5. \A p \in Listing(store) : Ahead(p)' <=> Ahead(p)
      BY <1>1, <2>1 DEF Ahead
    <2> QED
      BY <1>1, <2>1, <2>4, <2>5, QuietStep
  <1> QED
    BY <1>10, <1>11

(* Groups are listed, and then taken one after another.                    *)
LEMMA NextGroupWalks ==
  ASSUME StoreInv, ByGroup, kstep \in {"group", "token", "entries"}, store' = store, NextGroup
  PROVE  /\ WalkedTo' /\ kstep' = "group"
         /\ \A p \in Listing(store) : Ahead(p)' <=> p[1] > group
  <1>1. IsStore(store) /\ WalkedTo /\ group \in Nat \ {0}
    BY DEF StoreInv, WalkedTo
  <1>2. kstep' = "group" /\ group' = group + 1 /\ listed' = <<>> /\ ByGroup'
    BY DEF NextGroup, ByGroup
  <1>3. WalkedTo'
    BY <1>1, <1>2 DEF WalkedTo
  <1>4. \A p \in Listing(store) : p[1] \in Nat
    BY <1>1, StoreLists
  <1>5. \A p \in Listing(store) : Ahead(p)' <=> p[1] >= group + 1
    BY <1>2 DEF Ahead
  <1> QED
    BY <1>1, <1>2, <1>3, <1>4, <1>5

(* A group whose call fails is named, whether its keys were listed or not. *)
LEMMA GroupNamed ==
  ASSUME StoreInv, ByGroup, kstep \in {"group", "token"}, store' = store,
         Name(<<"group", group>>), NextGroup, reported' = reported
  PROVE  StoreInv'
  <1>1. WalkedTo' /\ kstep' = "group" /\ \A p \in Listing(store) : Ahead(p)' <=> p[1] > group
    BY NextGroupWalks
  <1>2. IsStore(store) /\ group \in Nat \ {0} /\ <<"crash">> \notin named
        /\ \A p \in Listing(store) : IF Ahead(p) THEN Untouched(p) ELSE EntryDone(p)
    BY DEF StoreInv, WalkedTo
  <1>3. named' = named \cup {<<"group", group>>}
    BY DEF Name
  <1>4. ASSUME NEW p \in Listing(store)
        PROVE  IF Ahead(p) /\ ~Ahead(p)' THEN EntryDone(p)' ELSE (Ahead(p)' => Ahead(p)) /\ Untold(p)
    <2>1. p[1] \in Nat /\ (Ahead(p) <=> p[1] >= group)
      BY <1>2, StoreLists DEF Ahead
    <2>2. CASE p[1] = group
      <3>1. Untouched(p) /\ NamesGroup(p)' /\ KeysAt(p)' = KeysAt(p)
        BY <1>2, <1>3, <2>1, <2>2 DEF NamesGroup, KeysAt
      <3>2. EntryDone(p)'
        BY <3>1 DEF Untouched, EntryDone
      <3> QED
        BY <1>1, <1>2, <2>1, <2>2, <3>2
    <2>3. CASE p[1] # group
      <3>1. NamesGroup(p)' => NamesGroup(p)
        BY <1>3, <2>3 DEF NamesGroup
      <3>2. NamesFirst(p)' => NamesFirst(p)
        BY <1>3, NamesApart DEF NamesFirst
      <3>3. Untold(p)
        BY <3>1, <3>2 DEF Untold
      <3>4. Ahead(p)' <=> Ahead(p)
        BY <1>1, <1>2, <2>1, <2>3
      <3> QED
        BY <3>3, <3>4
    <2> QED
      BY <2>2, <2>3
  <1>5. <<"crash">> \notin named'
    BY <1>2, <1>3
  <1> QED
    BY <1>1, <1>3, <1>4, <1>5, StepComesTo

(* The keys of a set of entries become assets, and no others.              *)
LEMMA AssetsOfEntries ==
  ASSUME IsStore(store), NEW Q \in SUBSET Listing(store), NEW R,
         R = UNION {AssetsOf(EntryAt(store, q)) : q \in Q},
         NEW p \in Listing(store), NEW k \in KeysAt(p)
  PROVE  k.id \in R <=> p \in Q /\ IsAsset(store.kind, k)
  <1>1. ASSUME p \in Q, IsAsset(store.kind, k)
        PROVE  k.id \in R
    BY <1>1 DEF AssetsOf, KeysAt
  <1>2. ASSUME k.id \in R
        PROVE  p \in Q /\ IsAsset(store.kind, k)
    <2>1. PICK q \in Q : k.id \in AssetsOf(EntryAt(store, q))
      BY <1>2
    <2>2. PICK l \in Range(EntryAt(store, q)) : IsAsset(store.kind, l) /\ l.id = k.id
      BY <2>1 DEF AssetsOf
    <2>3. p = q /\ k = l
      BY <2>2, OneEntryEach DEF KeysAt
    <2> QED
      BY <2>2, <2>3
  <1> QED
    BY <1>1, <1>2

(* Entries that are read are done with.                                    *)
LEMMA EntriesRead ==
  ASSUME StoreInv, kstep \in {"token", "entries"}, UNCHANGED <<store, named>>, WalkedTo', kstep' \in {"entries", "group"},
         NEW Q \in SUBSET Listing(store),
         reported' = reported \cup UNION {AssetsOf(EntryAt(store, q)) : q \in Q},
         \A q \in Q : store.kind = "pkcs11" => store.slot \in {AnySlot, q[1]},
         \A p \in Listing(store) : (Ahead(p) <=> Ahead(p)' \/ p \in Q) /\ ~(Ahead(p)' /\ p \in Q)
  PROVE  StoreInv'
  <1> DEFINE R == UNION {AssetsOf(EntryAt(store, q)) : q \in Q}
  <1>1. IsStore(store) /\ <<"crash">> \notin named'
        /\ \A p \in Listing(store) : IF Ahead(p) THEN Untouched(p) ELSE EntryDone(p)
    BY DEF StoreInv
  <1>2. reported' = reported \cup R
    OBVIOUS
  <1>3. \A p \in Listing(store) : \A k \in KeysAt(p) : k.id \in R <=> p \in Q /\ IsAsset(store.kind, k)
    BY <1>1, AssetsOfEntries
  <1> HIDE DEF R
  <1>4. ASSUME NEW p \in Listing(store)
        PROVE  IF Ahead(p) /\ ~Ahead(p)' THEN EntryDone(p)' ELSE (Ahead(p)' => Ahead(p)) /\ Untold(p)
    <2>1. (NamesGroup(p)' <=> NamesGroup(p)) /\ (NamesFirst(p)' <=> NamesFirst(p)) /\ KeysAt(p)' = KeysAt(p)
      BY DEF NamesGroup, NamesFirst, KeysAt
    <2>2. CASE p \in Q
      <3>1. Untouched(p) /\ Ahead(p) /\ ~Ahead(p)'
        BY <1>1, <2>2
      <3>2. ASSUME NEW k \in KeysAt(p)
            PROVE  k.id \in reported' <=> ~LeavesOut(p, k)'
        BY <1>2, <1>3, <2>2, <3>1 DEF Untouched, LeavesOut
      <3>3. EntryDone(p)'
        BY <2>1, <3>1, <3>2 DEF Untouched, EntryDone
      <3> QED
        BY <3>1, <3>3
    <2>3. CASE p \notin Q
      <3>1. Untold(p)
        BY <1>2, <1>3, <2>1, <2>3 DEF Untold
      <3>2. Ahead(p)' <=> Ahead(p)
        BY <2>3
      <3> QED
        BY <3>1, <3>2
    <2> QED
      BY <2>2, <2>3
  <1> QED
    BY <1>1, <1>2, <1>4, StepComesTo

(* The rest of a sequence of different entries has all but the first.      *)
LEMMA TailOfDifferent ==
  ASSUME NEW S, NEW s \in Seq(S), s # <<>>, \A i, j \in DOMAIN s : s[i] = s[j] => i = j
  PROVE  /\ Tail(s) \in Seq(S) /\ Head(s) \in Range(s)
         /\ \A i, j \in DOMAIN Tail(s) : Tail(s)[i] = Tail(s)[j] => i = j
         /\ Range(Tail(s)) = Range(s) \ {Head(s)}
  <1>1. Len(s) \in Nat \ {0} /\ DOMAIN s = 1..Len(s)
    BY LenProperties, EmptySeq
  <1>2. /\ Tail(s) \in Seq(S) /\ DOMAIN Tail(s) = 1..(Len(s) - 1) /\ Head(s) = s[1]
        /\ \A i \in 1..(Len(s) - 1) : Tail(s)[i] = s[i + 1]
    BY HeadTailProperties, LenProperties
  <1>3. \A i \in DOMAIN Tail(s) : i + 1 \in DOMAIN s /\ i + 1 # 1 /\ i \in Nat
    BY <1>1, <1>2
  <1>4. \A i, j \in DOMAIN Tail(s) : Tail(s)[i] = Tail(s)[j] => i = j
    <2>1. \A i, j \in DOMAIN Tail(s) : Tail(s)[i] = Tail(s)[j] => i + 1 = j + 1
      BY <1>2, <1>3
    <2> QED
      BY <1>3, <2>1
  <1>5. 1 \in DOMAIN s
    BY <1>1
  <1>6. ASSUME NEW x \in Range(Tail(s))
        PROVE  x \in Range(s) \ {Head(s)}
    <2>1. PICK i \in DOMAIN Tail(s) : Tail(s)[i] = x
      BY DEF Range
    <2>2. x = s[i + 1] /\ i + 1 \in DOMAIN s /\ i + 1 # 1
      BY <1>2, <1>3, <2>1
    <2> QED
      BY <1>2, <1>5, <2>2 DEF Range
  <1>7. ASSUME NEW x \in Range(s) \ {Head(s)}
        PROVE  x \in Range(Tail(s))
    <2>1. PICK i \in DOMAIN s : s[i] = x
      BY DEF Range
    <2>2. i \in 1..Len(s) /\ i # 1
      BY <1>1, <1>2, <2>1
    <2>3. PICK j \in 1..(Len(s) - 1) : i = j + 1
      <3>1. i - 1 \in 1..(Len(s) - 1) /\ i = (i - 1) + 1
        BY <1>1, <2>2
      <3> QED
        BY <3>1
    <2>4. Tail(s)[j] = x /\ j \in DOMAIN Tail(s)
      BY <1>2, <2>1, <2>3
    <2> QED
      BY <2>4 DEF Range
  <1>8. Range(Tail(s)) = Range(s) \ {Head(s)}
    BY <1>6, <1>7
  <1> QED
    BY <1>2, <1>4, <1>5, <1>8 DEF Range

(* The walk goes on with the entries it has not come to.                   *)
LEMMA NextEntry ==
  ASSUME StoreInv, kstep = "entries", Entries, UNCHANGED <<store, kstep, group, session>>, listed' = Tail(listed)
  PROVE  /\ WalkedTo'
         /\ \E q \in Listing(store) :
              /\ EntryAt(store, q) = Head(listed) /\ store.kind # "pkcs11"
              /\ \A p \in Listing(store) : (Ahead(p) <=> Ahead(p)' \/ p = q) /\ ~(Ahead(p)' /\ p = q)
  <1>1. /\ IsStore(store) /\ group \in Nat \ {0} /\ store.kind # "pkcs11" /\ WalkedTo
        /\ listed \in Seq(EntryType) /\ listed # <<>>
        /\ \A i, j \in DOMAIN listed : listed[i] = listed[j] => i = j
        /\ \A x \in Range(listed) : \E p \in Listing(store) :
             EntryAt(store, p) = x /\ (ByGroup => p[1] = group)
    BY DEF StoreInv, WalkedTo, Entries
  <1>2. /\ listed' \in Seq(EntryType) /\ Head(listed) \in Range(listed)
        /\ \A i, j \in DOMAIN listed' : listed'[i] = listed'[j] => i = j
        /\ Range(listed') = Range(listed) \ {Head(listed)}
    BY <1>1, TailOfDifferent
  <1>3. PICK q \in Listing(store) : EntryAt(store, q) = Head(listed) /\ (ByGroup => q[1] = group)
    BY <1>1, <1>2
  <1>4. WalkedTo'
    BY <1>1, <1>2 DEF WalkedTo, ByGroup
  <1>5. ASSUME NEW p \in Listing(store)
        PROVE  (Ahead(p) <=> Ahead(p)' \/ p = q) /\ ~(Ahead(p)' /\ p = q)
    <2>1. EntryAt(store, p) \in Range(listed') <=> EntryAt(store, p) \in Range(listed) /\ p # q
      BY <1>1, <1>2, <1>3, OneEntryEach
    <2>2. ByGroup => ~(q[1] > group)
      BY <1>1, <1>3
    <2>3. EntryAt(store, q) \in Range(listed)
      BY <1>2, <1>3
    <2> QED
      BY <2>1, <2>2, <2>3 DEF Ahead, ByGroup
  <1> QED
    BY <1>1, <1>3, <1>4, <1>5

(* An entry whose call fails is named by its first key.                    *)
LEMMA EntryFailsKeeps ==
  ASSUME StoreInv, EntryFails
  PROVE  StoreInv'
  <1>1. /\ kstep = "entries" /\ Entries /\ UNCHANGED <<store, kstep, group, session, reported>>
        /\ listed' = Tail(listed) /\ named' = named \cup {<<"key", Head(listed)[1].id>>}
    BY DEF EntryFails, Kept, Name
  <1>2. /\ IsStore(store) /\ <<"crash">> \notin named
        /\ \A p \in Listing(store) : IF Ahead(p) THEN Untouched(p) ELSE EntryDone(p)
    BY <1>1 DEF StoreInv
  <1>3. WalkedTo'
    BY <1>1, NextEntry
  <1>4. PICK q \in Listing(store) :
          /\ EntryAt(store, q) = Head(listed)
          /\ \A p \in Listing(store) : (Ahead(p) <=> Ahead(p)' \/ p = q) /\ ~(Ahead(p)' /\ p = q)
    BY <1>1, NextEntry
  <1>5. named' = named \cup {<<"key", EntryAt(store, q)[1].id>>}
    BY <1>1, <1>4
  <1>6. ASSUME NEW p \in Listing(store)
        PROVE  IF Ahead(p) /\ ~Ahead(p)' THEN EntryDone(p)' ELSE (Ahead(p)' => Ahead(p)) /\ Untold(p)
    <2>1. CASE p = q
      <3>1. Untouched(p) /\ NamesFirst(p)' /\ KeysAt(p)' = KeysAt(p) /\ Ahead(p) /\ ~Ahead(p)'
        BY <1>1, <1>2, <1>4, <1>5, <2>1 DEF NamesFirst, KeysAt
      <3>2. EntryDone(p)'
        BY <1>1, <3>1 DEF Untouched, EntryDone
      <3> QED
        BY <3>1, <3>2
    <2>2. CASE p # q
      <3>1. NamesFirst(p)' => NamesFirst(p)
        <4>1. EntryAt(store, p)[1].id # EntryAt(store, q)[1].id
          BY <1>2, <2>2, OneEntryEach
        <4>2. <<"key", EntryAt(store, p)[1].id>> # <<"key", EntryAt(store, q)[1].id>>
          BY <4>1
        <4> QED
          BY <1>1, <1>5, <4>2 DEF NamesFirst
      <3>2. NamesGroup(p)' => NamesGroup(p)
        BY <1>5, NamesApart DEF NamesGroup
      <3>3. Untold(p)
        BY <1>1, <3>1, <3>2 DEF Untold
      <3>4. Ahead(p)' <=> Ahead(p)
        BY <1>4, <2>2
      <3> QED
        BY <3>3, <3>4
    <2> QED
      BY <2>1, <2>2
  <1>7. <<"crash">> \notin named'
    BY <1>2, <1>5
  <1> QED
    BY <1>1, <1>3, <1>5, <1>6, <1>7, StepComesTo

(* An entry that is read becomes its assets.                               *)
LEMMA ReadEntryKeeps ==
  ASSUME StoreInv, ReadEntry
  PROVE  StoreInv'
  <1>1. /\ kstep = "entries" /\ Entries /\ UNCHANGED <<store, kstep, group, session, named>>
        /\ listed' = Tail(listed) /\ reported' = reported \cup AssetsOf(Head(listed))
    BY DEF ReadEntry, Kept, Report
  <1>2. WalkedTo'
    BY <1>1, NextEntry
  <1>3. PICK q \in Listing(store) :
          /\ EntryAt(store, q) = Head(listed) /\ store.kind # "pkcs11"
          /\ \A p \in Listing(store) : (Ahead(p) <=> Ahead(p)' \/ p = q) /\ ~(Ahead(p)' /\ p = q)
    BY <1>1, NextEntry
  <1>4. PICK Q : Q = {q}
    OBVIOUS
  <1>5. reported' = reported \cup UNION {AssetsOf(EntryAt(store, x)) : x \in Q}
    BY <1>1, <1>3, <1>4
  <1>6. /\ Q \in SUBSET Listing(store)
        /\ \A x \in Q : store.kind = "pkcs11" => store.slot \in {AnySlot, x[1]}
        /\ \A p \in Listing(store) : (Ahead(p) <=> Ahead(p)' \/ p \in Q) /\ ~(Ahead(p)' /\ p \in Q)
    BY <1>3, <1>4
  <1> QED
    BY <1>1, <1>2, <1>5, <1>6, EntriesRead

(* The keys of a group are listed at once.                                 *)
LEMMA GroupIsListed ==
  ASSUME StoreInv, ByGroup, group \in DOMAIN store.groups, store' = store, group' = group, kstep' # "list",
         kstep' # "scheme", kstep' = "entries" => store.kind = "gcp",
         kstep' = "token" => store.kind = "pkcs11" /\ store.slot \in {AnySlot, group},
         kstep \notin {"idle", "crashed"}, listed' = store.groups[group]
  PROVE  /\ WalkedTo'
         /\ \A p \in Listing(store) : EntryAt(store, p) \in Range(listed') <=> p[1] = group
  <1>a. PICK g : g = group
    OBVIOUS
  <1>1. IsStore(store) /\ g \in Nat \ {0} /\ g \in DOMAIN store.groups /\ listed' = store.groups[g]
    BY <1>a DEF StoreInv, WalkedTo
  <1> DEFINE S == store.groups[g]
  <1>2. /\ S \in Seq(EntryType)
        /\ \A m, n \in DOMAIN S : S[m] = S[n] => m = n
        /\ \A x \in Range(S) : \E p \in Listing(store) : EntryAt(store, p) = x /\ p[1] = g
        /\ \A p \in Listing(store) : EntryAt(store, p) \in Range(S) <=> p[1] = g
    BY <1>1, GroupListed
  <1> HIDE DEF S
  <1>3. ByGroup' /\ group' = g /\ listed' = S
    BY <1>a, <1>1 DEF ByGroup, S
  <1>4. WalkedTo'
    BY <1>a, <1>1, <1>2, <1>3 DEF WalkedTo
  <1> QED
    BY <1>a, <1>2, <1>3, <1>4

(* The steps of a store that is walked by groups.                          *)
LEMMA GroupsKeep ==
  ASSUME StoreInv,
         ListGroups \/ EndGroups \/ GroupFails \/ OpenRing \/ SkipSlot \/ OpenToken \/ GetObjects \/ ReadObjects
  PROVE  StoreInv'
  <1>1. /\ IsStore(store) /\ WalkedTo /\ group \in Nat \ {0} /\ <<"crash">> \notin named
        /\ \A p \in Listing(store) : IF Ahead(p) THEN Untouched(p) ELSE EntryDone(p)
    BY DEF StoreInv, WalkedTo, ListGroups, EndGroups, GroupFails, OpenRing, SkipSlot, OpenToken, GetObjects, ReadObjects
  <1>2. \A p \in Listing(store) : p[1] \in Nat /\ p[1] \in DOMAIN store.groups /\ p[1] >= 1
    BY <1>1, StoreLists
  <1>3. CASE ListGroups
    <2>1. /\ kstep = "list" /\ kstep' = "group" /\ ByGroup
          /\ UNCHANGED <<store, group, listed, session, reported, named>>
      BY <1>3 DEF ListGroups, ByGroup, Kept
    <2>2. group = 1
      BY <1>1, <2>1 DEF WalkedTo
    <2>3. WalkedTo'
      BY <1>1, <2>1 DEF WalkedTo, ByGroup
    <2>4. \A p \in Listing(store) : Ahead(p)' <=> Ahead(p)
      BY <1>2, <2>1, <2>2 DEF Ahead
    <2> QED
      BY <2>1, <2>3, <2>4, QuietStep
  <1>4. CASE EndGroups
    <2>1. /\ kstep = "group" /\ kstep' = "done" /\ group \notin DOMAIN store.groups
          /\ UNCHANGED <<store, group, listed, session, reported, named>>
      BY <1>4 DEF EndGroups, Groups, Kept
    <2>2. WalkedTo'
      BY <1>1, <2>1 DEF WalkedTo, ByGroup
    <2>3. \A p \in Listing(store) : ~(p[1] >= group)
      BY <1>1, <1>2, <2>1, StoreLists
    <2>4. \A p \in Listing(store) : Ahead(p)' <=> Ahead(p)
      BY <2>1, <2>3 DEF Ahead
    <2> QED
      BY <2>1, <2>2, <2>4, QuietStep
  <1>5. CASE GroupFails
    <2>1. kstep = "group" /\ store' = store /\ reported' = reported /\ Name(<<"group", group>>) /\ NextGroup
      BY <1>5 DEF GroupFails, Kept
    <2>2. ByGroup
      BY <1>1, <2>1 DEF WalkedTo
    <2> QED
      BY <2>1, <2>2, GroupNamed
  <1>6. CASE OpenRing
    <2>1. /\ kstep = "group" /\ kstep' = "entries" /\ group \in DOMAIN store.groups /\ store.kind = "gcp" /\ ByGroup
          /\ listed' = store.groups[group] /\ UNCHANGED <<store, group, session, reported, named>>
      BY <1>6 DEF OpenRing, Groups, Kept, ByGroup
    <2>2. WalkedTo' /\ \A p \in Listing(store) : EntryAt(store, p) \in Range(listed') <=> p[1] = group
      BY <2>1, GroupIsListed
    <2>3. \A p \in Listing(store) : p[1] >= group <=> p[1] > group \/ p[1] = group
      BY <1>1, <1>2
    <2>4. \A p \in Listing(store) : Ahead(p)' <=> Ahead(p)
      BY <2>1, <2>2, <2>3 DEF Ahead, ByGroup
    <2> QED
      BY <2>1, <2>2, <2>4, QuietStep
  <1>7. CASE SkipSlot
    <2>1. /\ kstep = "group" /\ ByGroup /\ store.kind = "pkcs11" /\ store.slot \notin {AnySlot, group}
          /\ NextGroup /\ UNCHANGED <<store, session, reported, named>>
      BY <1>7 DEF SkipSlot, Kept, ByGroup
    <2>2. WalkedTo' /\ kstep' = "group" /\ \A p \in Listing(store) : Ahead(p)' <=> p[1] > group
      BY <2>1, NextGroupWalks
    <2>3. ASSUME NEW p \in Listing(store)
          PROVE  IF Ahead(p) /\ ~Ahead(p)' THEN EntryDone(p)' ELSE (Ahead(p)' => Ahead(p)) /\ Untold(p)
      <3>1. Ahead(p) <=> p[1] >= group
        BY <2>1 DEF Ahead
      <3>2. CASE p[1] = group
        <4>1. Untouched(p) /\ \A k : LeavesOut(p, k)'
          BY <1>1, <1>2, <2>1, <3>1, <3>2 DEF LeavesOut
        <4>2. EntryDone(p)'
          BY <2>1, <4>1 DEF Untouched, EntryDone, KeysAt
        <4> QED
          BY <1>1, <1>2, <2>2, <3>1, <3>2, <4>2
      <3>3. CASE p[1] # group
        <4>1. Ahead(p)' <=> Ahead(p)
          BY <1>1, <1>2, <2>2, <3>1, <3>3
        <4>2. Untold(p)
          BY <2>1 DEF Untold, NamesGroup, NamesFirst
        <4> QED
          BY <4>1, <4>2
      <3> QED
        BY <3>2, <3>3
    <2>4. <<"crash">> \notin named'
      BY <1>1, <2>1
    <2> QED
      BY <2>1, <2>2, <2>3, <2>4, StepComesTo
  <1>8. CASE OpenToken
    <2>1. /\ kstep = "group" /\ kstep' = "token" /\ session' = TRUE /\ group \in DOMAIN store.groups
          /\ store.kind = "pkcs11" /\ store.slot \in {AnySlot, group}
          /\ UNCHANGED <<store, group, listed, reported, named>>
      BY <1>8 DEF OpenToken, Groups
    <2>2. WalkedTo'
      BY <1>1, <2>1 DEF WalkedTo, ByGroup
    <2>3. \A p \in Listing(store) : Ahead(p)' <=> Ahead(p)
      BY <2>1 DEF Ahead
    <2> QED
      BY <2>1, <2>2, <2>3, QuietStep
  <1>9. CASE GetObjects
    <2>1. kstep = "token" /\ store' = store /\ reported' = reported /\ ByGroup
          /\ group \in DOMAIN store.groups /\ store.kind = "pkcs11" /\ store.slot \in {AnySlot, group}
      BY <1>1, <1>9 DEF GetObjects, WalkedTo, ByGroup
    <2>2. CASE listed' = store.groups[group] /\ UNCHANGED <<kstep, group, named>>
      <3>1. WalkedTo'
        BY <2>1, <2>2, GroupIsListed
      <3>2. \A p \in Listing(store) : Ahead(p)' <=> Ahead(p)
        BY <2>1, <2>2 DEF Ahead
      <3> QED
        BY <2>1, <2>2, <3>1, <3>2, QuietStep
    <2>3. CASE Name(<<"group", group>>) /\ NextGroup
      BY <2>1, <2>3, GroupNamed
    <2> QED
      BY <1>9, <2>2, <2>3 DEF GetObjects
  <1>10. CASE ReadObjects
    <2>1. /\ kstep = "token" /\ ~session /\ store' = store /\ ByGroup /\ NextGroup
          /\ group \in DOMAIN store.groups /\ store.kind = "pkcs11" /\ store.slot \in {AnySlot, group}
          /\ listed = store.groups[group]
      BY <1>1, <1>10 DEF ReadObjects, WalkedTo, ByGroup, Kept
    <2>2. CASE Name(<<"group", group>>) /\ reported' = reported
      BY <2>1, <2>2, GroupNamed
    <2>3. CASE Report(UNION {AssetsOf(e) : e \in Range(listed)}) /\ named' = named
      <3>1. PICK g, Q : g = group /\ Q = {q \in Listing(store) : q[1] = g}
        OBVIOUS
      <3>2. /\ \A x \in Range(store.groups[g]) : \E p \in Listing(store) : EntryAt(store, p) = x /\ p[1] = g
            /\ \A p \in Listing(store) : EntryAt(store, p) \in Range(store.groups[g]) <=> p[1] = g
        BY <1>1, <2>1, <3>1, GroupListed
      <3>3. Range(listed) = {EntryAt(store, q) : q \in Q}
        BY <2>1, <3>1, <3>2
      <3>4. reported' = reported \cup UNION {AssetsOf(EntryAt(store, q)) : q \in Q}
        BY <2>3, <3>3 DEF Report
      <3>5. WalkedTo' /\ kstep' = "group" /\ \A p \in Listing(store) : Ahead(p)' <=> p[1] > group
        BY <2>1, NextGroupWalks
      <3>6. \A p \in Listing(store) : Ahead(p) <=> p[1] >= group
        BY <2>1 DEF Ahead
      <3>7. \A p \in Listing(store) : (Ahead(p) <=> Ahead(p)' \/ p \in Q) /\ ~(Ahead(p)' /\ p \in Q)
        BY <1>1, <1>2, <3>1, <3>5, <3>6
      <3>8. Q \in SUBSET Listing(store) /\ \A q \in Q : store.kind = "pkcs11" => store.slot \in {AnySlot, q[1]}
        BY <2>1, <3>1
      <3> QED
        BY <2>1, <2>3, <3>4, <3>5, <3>7, <3>8, EntriesRead
    <2> QED
      BY <1>10, <2>2, <2>3 DEF ReadObjects
  <1> QED
    BY <1>3, <1>4, <1>5, <1>6, <1>7, <1>8, <1>9, <1>10

(* Every step of a walk keeps every key accounted for.                     *)
LEMMA StoreGoesOn == StoreInv /\ KeyStoreNext => StoreInv'
  <1> SUFFICES ASSUME StoreInv, KeyStoreNext
               PROVE  StoreInv'
    OBVIOUS
  <1>1. CASE Misnamed \/ RefuseStore \/ ListFails
    BY <1>1, EndsWhole DEF Misnamed, RefuseStore, ListFails, Kept
  <1>2. CASE Connect
    <2>1. CASE kstep' = "list"
      <3>1. kstep = "scheme" /\ UNCHANGED <<store, group, listed, session, reported, named>>
        BY <1>2, <2>1 DEF Connect, EndWith
      <3>2. IsStore(store) /\ WalkedTo
        BY <3>1 DEF StoreInv
      <3>3. ~ByGroup => 1 \in DOMAIN store.groups
        BY <3>2, StoreLists, EmptySeq DEF IsStore, ByGroup
      <3>4. WalkedTo'
        BY <2>1, <3>1, <3>2, <3>3 DEF WalkedTo, ByGroup
      <3>5. \A p \in Listing(store) : Ahead(p)' <=> Ahead(p)
        BY <2>1, <3>1 DEF Ahead
      <3> QED
        BY <2>1, <3>1, <3>4, <3>5, QuietStep
    <2>2. CASE EndWith(Whole)
      <3>1. kstep = "scheme" /\ UNCHANGED <<store, session>>
        BY <1>2 DEF Connect
      <3> QED
        BY <2>2, <3>1, EndsWhole
    <2> QED
      BY <1>2, <2>1, <2>2 DEF Connect
  <1>3. CASE ListPage
    BY <1>3, ListPageKeeps
  <1>4. CASE EntryFails
    BY <1>4, EntryFailsKeeps
  <1>5. CASE ReadEntry
    BY <1>5, ReadEntryKeeps
  <1>6. CASE WalkRaises
    BY <1>6 DEF WalkRaises, StoreInv
  <1>7. CASE EndWalk
    <2>1. kstep = "entries" /\ listed = <<>> /\ UNCHANGED <<store, session, reported, named>>
      BY <1>7 DEF EndWalk, Entries, Kept
    <2>2. IsStore(store) /\ WalkedTo /\ Range(listed) = {} /\ store.kind # "pkcs11" /\ group \in Nat \ {0}
      BY <2>1 DEF StoreInv, WalkedTo, Range
    <2>3. CASE store.kind = "gcp"
      <3>1. ByGroup /\ NextGroup
        BY <1>7, <2>3 DEF EndWalk, ByGroup
      <3>2. WalkedTo' /\ kstep' = "group" /\ \A p \in Listing(store) : Ahead(p)' <=> p[1] > group
        BY <2>1, <3>1, NextGroupWalks
      <3>3. \A p \in Listing(store) : Ahead(p)' <=> Ahead(p)
        BY <2>1, <2>2, <3>1, <3>2 DEF Ahead
      <3> QED
        BY <2>1, <3>2, <3>3, QuietStep
    <2>4. CASE store.kind # "gcp"
      <3>1. kstep' = "done" /\ UNCHANGED <<group, listed>> /\ ~ByGroup
        BY <1>7, <2>2, <2>4 DEF EndWalk, ByGroup
      <3>2. WalkedTo'
        BY <2>1, <2>2, <3>1 DEF WalkedTo, ByGroup
      <3>3. \A p \in Listing(store) : Ahead(p)' <=> Ahead(p)
        BY <2>1, <2>2, <3>1 DEF Ahead
      <3> QED
        BY <2>1, <3>1, <3>2, <3>3, QuietStep
    <2> QED
      BY <2>3, <2>4
  <1> QED
    BY <1>1, <1>2, <1>3, <1>4, <1>5, <1>6, <1>7, GroupsKeep DEF KeyStoreNext

(* The store that the loop has come to is walked, and no other.            *)
WalkInv == StoreInv /\ (cstep = "walk" => store = Current.of)

LEMMA StoreBegins ==
  ASSUME NEW s, IsStore(s), BeginStore(s)
  PROVE  StoreInv'
  <1>1. /\ kstep' = "scheme" /\ store' = s /\ group' = 1 /\ listed' = <<>>
        /\ reported' = {} /\ named' = {}
    BY DEF BeginStore, StartStore
  <1>2. Len(s.groups) \in Nat /\ DOMAIN s.groups = 1..Len(s.groups) /\ \A p \in Listing(s) : p[1] \in 1..Len(s.groups)
    BY StoreLists
  <1>3. ~ByGroup' => 1 \in DOMAIN s.groups
    BY <1>1, <1>2, EmptySeq DEF IsStore, ByGroup
  <1>4. Range(listed') = {EntryAt(s, p) : p \in {q \in Listing(s) : q[1] < 1}}
    BY <1>1, <1>2 DEF Range
  <1>5. WalkedTo'
    BY <1>1, <1>2, <1>3, <1>4 DEF WalkedTo
  <1>6. \A p : Ahead(p)' /\ Untouched(p)'
    BY <1>1 DEF Ahead, Untouched, NamesGroup, NamesFirst
  <1> QED
    BY <1>1, <1>5, <1>6 DEF StoreInv

LEMMA WalkKeeps == LoopInv /\ WalkInv /\ [CollectNext]_vars => WalkInv'
  <1> SUFFICES ASSUME LoopInv, WalkInv, [CollectNext]_vars
               PROVE  WalkInv'
    OBVIOUS
  <1>1. ASSUME UNCHANGED kvars, cstep' = "walk" => cstep = "walk" /\ Current' = Current
        PROVE  WalkInv'
    <2>1. StoreInv'
      BY <1>1 DEF kvars, WalkInv, StoreInv, WalkedTo, ByGroup, Ahead, Untouched, EntryDone, KeysAt, LeavesOut,
                  NamesGroup, NamesFirst
    <2> QED
      BY <1>1, <2>1 DEF WalkInv, kvars
  <1>2. CASE Walk
    <2>1. StoreInv' /\ UNCHANGED <<cstep, job, pos>> /\ cstep = "walk"
      BY <1>2, StoreGoesOn DEF Walk, WalkInv, rvars
    <2>2. store' = store
      BY <1>2 DEF Walk, KeyStoreNext, Misnamed, RefuseStore, Connect, ListFails, ListPage, ListGroups, EndGroups,
                  GroupFails, OpenRing, SkipSlot, OpenToken, GetObjects, ReadObjects, EntryFails, ReadEntry,
                  WalkRaises, EndWalk, Kept
    <2> QED
      BY <2>1, <2>2 DEF WalkInv, Current
  <1>3. CASE StartScan
    <2>1. Current' = Current
      BY <1>3 DEF StartScan, Current
    <2>2. CASE Current.scanner = "cloud"
      <3>1. PICK s : s = Current.of
        OBVIOUS
      <3>2. IsStore(s)
        BY <1>3, <2>2, <3>1, JobTargets DEF StartScan, More, LoopInv, Current
      <3>3. BeginStore(s)
        BY <1>3, <2>2, <3>1 DEF StartScan
      <3>4. StoreInv' /\ store' = s
        BY <3>2, <3>3, StoreBegins DEF BeginStore, StartStore
      <3> QED
        BY <2>1, <3>1, <3>4 DEF WalkInv
    <2>3. CASE Current.scanner # "cloud"
      <3>1. UNCHANGED kvars /\ cstep' # "walk"
        BY <1>3, <2>3 DEF StartScan
      <3> QED
        BY <1>1, <3>1
    <2> QED
      BY <2>2, <2>3
  <1>4. CASE TakeStore
    BY <1>4 DEF TakeStore, Advance, KeyStoreReset, StartStore, WalkInv, StoreInv
  <1>5. UnknownScanner \/ Probe \/ Image \/ Code \/ Chain \/ TakeHost \/ TakeImage \/ TakeCode \/ TakeFiles
          \/ StartTree \/ Fetch \/ TakeTree \/ ScanTree \/ Finish \/ Rest \/ Ended \/ UNCHANGED vars
            => UNCHANGED kvars
    BY DEF UnknownScanner, Probe, Image, Code, Chain, TakeHost, TakeImage, TakeCode, TakeFiles,
           StartTree, Fetch, TakeTree, ScanTree, Finish, Rest, Ended, vars
  <1>6. UnknownScanner \/ Probe \/ Image \/ Code \/ Chain \/ TakeHost \/ TakeImage \/ TakeCode \/ TakeFiles
          \/ StartTree \/ Fetch \/ TakeTree \/ ScanTree \/ Finish \/ Rest \/ Ended \/ UNCHANGED vars
            => (cstep' = "walk" => cstep = "walk" /\ UNCHANGED <<job, pos>>)
    BY DEF UnknownScanner, Advance, Probe, Image, Code, Chain, TakeHost, TakeImage, TakeCode, TakeFiles,
           StartTree, Fetch, TakeTree, ScanTree, Finish, Rest, Ended, vars, rvars
  <1>7. CASE UnknownScanner \/ Probe \/ Image \/ Code \/ Chain \/ TakeHost \/ TakeImage \/ TakeCode \/ TakeFiles
               \/ StartTree \/ Fetch \/ TakeTree \/ ScanTree \/ Finish \/ Rest \/ Ended \/ UNCHANGED vars
    BY <1>1, <1>5, <1>6, <1>7 DEF Current
  <1> QED
    BY <1>2, <1>3, <1>4, <1>7 DEF CollectNext

(* The keys of a store that the loop is done with.                         *)
KeysOf(i) ==
  LET s == job.targets[i].of
      Named(what) == <<i, what>> \in errors
  IN
  \A p \in Listing(s) : \A k \in Range(EntryAt(s, p)) :
    LET Has == <<i, k.id>> \in items
        Entry1 == <<"key", EntryAt(s, p)[1].id>>
        LeftOut == ~IsAsset(s.kind, k) \/ (s.kind = "pkcs11" /\ s.slot \notin {AnySlot, p[1]})
    IN
    /\ \/ Has \/ LeftOut
       \/ Named(Whole) \/ Named(<<"group", p[1]>>) \/ Named(Entry1) \/ Named(<<"crash">>)
    /\ Has => ~(LeftOut \/ Named(<<"group", p[1]>>) \/ Named(Entry1) \/ Named(<<"crash">>))

IsCloud(i) == job.kind = "scan" /\ job.targets[i].scanner = "cloud"

KeysInv ==
  /\ \A x \in items \cup errors : x[1] \in 1..(pos - 1)
  /\ \A i \in 1..(pos - 1) : IsCloud(i) => KeysOf(i)

(* What is said of another target changes nothing of a store.              *)
LEMMA KeysPast ==
  ASSUME job' = job, NEW i, KeysOf(i),
         \A y : (<<i, y>> \in items' <=> <<i, y>> \in items) /\ (<<i, y>> \in errors' <=> <<i, y>> \in errors)
  PROVE  KeysOf(i)'
  BY DEF KeysOf

(* The loop goes on to the next target, having said things of this one.    *)
LEMMA KeysAdvance ==
  ASSUME LoopInv, KeysInv, pos \in DOMAIN job.targets, job' = job, pos' = pos + 1,
         NEW I, NEW F, items' = items \cup {<<pos, y>> : y \in I}, errors' = errors \cup {<<pos, y>> : y \in F},
         NEW here, here = pos, IsCloud(here) => KeysOf(here)'
  PROVE  KeysInv'
  <1>1. pos \in Nat \ {0}
    BY JobTargets DEF LoopInv
  <1>2. ASSUME NEW x \in items' \cup errors'
        PROVE  x[1] \in 1..(pos' - 1)
    <2>1. CASE x \in items \cup errors
      BY <1>1, <2>1 DEF KeysInv
    <2>2. CASE x[1] = pos
      BY <1>1, <2>2
    <2> QED
      BY <1>2, <2>1, <2>2
  <1>3. ASSUME NEW i \in 1..(pos' - 1), IsCloud(i)'
        PROVE  KeysOf(i)'
    <2>1. CASE i = pos
      BY <1>3, <2>1 DEF IsCloud
    <2>2. CASE i # pos
      <3>1. i \in 1..(pos - 1)
        BY <1>1, <2>2
      <3>2. KeysOf(i)
        BY <1>3, <3>1 DEF KeysInv, IsCloud
      <3>3. \A y : (<<i, y>> \in items' <=> <<i, y>> \in items) /\ (<<i, y>> \in errors' <=> <<i, y>> \in errors)
        BY <2>2
      <3> QED
        BY <3>2, <3>3, KeysPast
    <2> QED
      BY <2>1, <2>2
  <1> QED
    BY <1>2, <1>3 DEF KeysInv

(* What was said of a store's keys is what the report says of them.        *)
LEMMA StoreTaken ==
  ASSUME LoopInv, WalkInv, KeysInv, TakeStore
  PROVE  KeysInv'
  <1>1. /\ cstep = "walk" /\ kstep \in {"done", "crashed"} /\ pos' = pos + 1 /\ job' = job
        /\ pos \in DOMAIN job.targets /\ store = Current.of /\ StoreInv
    BY DEF TakeStore, Advance, LoopInv, WalkInv
  <1>2. \A y : <<pos, y>> \notin items /\ <<pos, y>> \notin errors
    <2>1. pos \notin 1..(pos - 1)
      BY JobTargets DEF LoopInv
    <2>2. \A y : <<pos, y>>[1] = pos
      OBVIOUS
    <2> QED
      BY <2>1, <2>2 DEF KeysInv
  <1>3. CASE kstep = "done"
    <2>1. items' = items \cup {<<pos, y>> : y \in reported} /\ errors' = errors \cup {<<pos, y>> : y \in named}
      BY <1>3 DEF TakeStore, TakeResult
    <2>2. \A y : (<<pos, y>> \in items' <=> y \in reported) /\ (<<pos, y>> \in errors' <=> y \in named)
      BY <1>2, <2>1
    <2>3. <<"crash">> \notin named /\ \A p \in Listing(store) : EntryDone(p)
      BY <1>1, <1>3 DEF StoreInv, Ahead
    <2>4. PICK i, s : i = pos /\ s = store
      OBVIOUS
    <2>5. KeysOf(i)'
      <3>1. /\ job'.targets[i].of = s
            /\ \A y : (<<i, y>> \in items' <=> y \in reported) /\ (<<i, y>> \in errors' <=> y \in named)
        BY <1>1, <2>2, <2>4 DEF Current
      <3>2. ASSUME NEW p \in Listing(s), NEW k \in Range(EntryAt(s, p))
            PROVE  LET LeftOut == ~IsAsset(s.kind, k) \/ (s.kind = "pkcs11" /\ s.slot \notin {AnySlot, p[1]}) IN
                   /\ \/ k.id \in reported \/ LeftOut \/ Whole \in named \/ <<"group", p[1]>> \in named
                      \/ <<"key", EntryAt(s, p)[1].id>> \in named
                   /\ k.id \in reported =>
                        ~(LeftOut \/ <<"group", p[1]>> \in named \/ <<"key", EntryAt(s, p)[1].id>> \in named)
        BY <2>3, <2>4, <3>2 DEF EntryDone, KeysAt, LeavesOut, NamesGroup, NamesFirst
      <3> QED
        BY <2>3, <3>1, <3>2 DEF KeysOf
    <2> QED
      BY <1>1, <2>1, <2>4, <2>5, KeysAdvance
  <1>4. CASE kstep = "crashed"
    <2>1. items' = items /\ errors' = errors \cup {<<pos, <<"crash">>>>}
      BY <1>4 DEF TakeStore, Crashed
    <2>2. PICK i : i = pos
      OBVIOUS
    <2>3. KeysOf(i)'
      BY <1>1, <1>2, <2>1, <2>2 DEF KeysOf
    <2>4. items' = items \cup {<<pos, y>> : y \in {}} /\ errors' = errors \cup {<<pos, y>> : y \in {<<"crash">>}}
      BY <2>1
    <2> QED
      BY <1>1, <2>2, <2>3, <2>4, KeysAdvance
  <1> QED
    BY <1>1, <1>3, <1>4

LEMMA KeysKeep == LoopInv /\ WalkInv /\ KeysInv /\ [CollectNext]_vars => KeysInv'
  <1> SUFFICES ASSUME LoopInv, WalkInv, KeysInv, [CollectNext]_vars
               PROVE  KeysInv'
    OBVIOUS
  <1>1. ASSUME UNCHANGED <<job, pos, items, errors>>
        PROVE  KeysInv'
    <2>1. \A i : (IsCloud(i)' => IsCloud(i)) /\ (KeysOf(i) => KeysOf(i)')
      BY <1>1, KeysPast DEF IsCloud
    <2> QED
      BY <1>1, <2>1 DEF KeysInv
  <1>2. ASSUME pos \in DOMAIN job.targets, job' = job, pos' = pos + 1, ~IsCloud(pos),
               NEW I, NEW F, items' = items \cup {<<pos, y>> : y \in I}, errors' = errors \cup {<<pos, y>> : y \in F}
        PROVE  KeysInv'
    <2>1. PICK i : i = pos
      OBVIOUS
    <2> QED
      BY <1>2, <2>1, KeysAdvance
  <1>3. CASE UnknownScanner
    <2>1. /\ items' = items \cup {<<pos, y>> : y \in {}} /\ errors' = errors \cup {<<pos, y>> : y \in {<<"unknown">>}}
          /\ pos \in DOMAIN job.targets /\ job' = job /\ pos' = pos + 1 /\ ~IsCloud(pos)
      BY <1>3 DEF UnknownScanner, More, Advance, IsCloud, Current
    <2> QED
      BY <1>2, <2>1
  <1>4. CASE TakeTree \/ ScanTree
    <2>1. CASE pos' = pos
      <3>1. UNCHANGED <<job, items, errors>>
        BY <1>4, <2>1 DEF TakeTree, ScanTree
      <3> QED
        BY <1>1, <2>1, <3>1
    <2>2. CASE pos' # pos
      <3>1. /\ items' = items \cup {<<pos, y>> : y \in {}} /\ errors' = errors \cup {<<pos, y>> : y \in {}}
            /\ job' = job /\ pos' = pos + 1 /\ cstep \in {"fetch", "tree"}
        BY <1>4, <2>2 DEF TakeTree, ScanTree, Advance
      <3>2. pos \in DOMAIN job.targets /\ ~IsCloud(pos)
        BY <3>1 DEF LoopInv, IsCloud
      <3> QED
        BY <1>2, <3>1, <3>2
    <2> QED
      BY <2>1, <2>2
  <1>5. CASE TakeHost \/ TakeImage \/ TakeCode \/ TakeFiles
    <2>1. cstep \in {"probe", "image", "code", "files"} /\ job' = job /\ pos' = pos + 1
      BY <1>5 DEF TakeHost, TakeImage, TakeCode, TakeFiles, Advance
    <2>2. pos \in DOMAIN job.targets /\ ~IsCloud(pos)
      BY <2>1 DEF LoopInv, IsAt, IsCloud, Current
    <2>3. \/ Crashed
          \/ \E ids, faults : TakeResult(ids, faults)
      BY <1>5 DEF TakeHost, TakeImage, TakeCode, TakeFiles
    <2>4. CASE Crashed
      <3>1. /\ items' = items \cup {<<pos, y>> : y \in {}}
            /\ errors' = errors \cup {<<pos, y>> : y \in {<<"crash">>}}
        BY <2>4 DEF Crashed
      <3> QED
        BY <1>2, <2>1, <2>2, <3>1
    <2>5. CASE \E ids, faults : TakeResult(ids, faults)
      <3>1. PICK I, F : TakeResult(I, F)
        BY <2>5
      <3>2. items' = items \cup {<<pos, y>> : y \in I} /\ errors' = errors \cup {<<pos, y>> : y \in F}
        BY <3>1 DEF TakeResult
      <3> QED
        BY <1>2, <2>1, <2>2, <3>2
    <2> QED
      BY <2>3, <2>4, <2>5
  <1>6. StartScan \/ Walk \/ Probe \/ Image \/ Code \/ Chain \/ StartTree \/ Fetch \/ Finish \/ Rest \/ Ended
          \/ UNCHANGED vars => UNCHANGED <<job, pos, items, errors>>
    BY DEF StartScan, Walk, Probe, Image, Code, Chain, StartTree, Fetch, Finish, Rest, Ended, vars, rvars
  <1> QED
    BY <1>1, <1>3, <1>4, <1>5, <1>6, StoreTaken DEF CollectNext

(* cloud.py:152-622, engine.py:252-269: whichever calls fail, a key of a   *)
(* store is an asset of the report, or an error names it, its group or the *)
(* target, or it is left out on purpose; none is reported and named both.  *)
THEOREM KeysAccounted == CollectSpec => []EveryKeyAccounted
  <1>1. CollectInit => WalkInv /\ KeysInv
    BY DEF CollectInit, KeyStoreInit, WalkInv, StoreInv, KeysInv
  <1>2. LoopInv /\ KeysInv => EveryKeyAccounted
    <2> SUFFICES ASSUME LoopInv, KeysInv, Finished, NEW i \in DOMAIN job.targets, IsCloud(i),
                        NEW g \in DOMAIN job.targets[i].of.groups,
                        NEW e \in DOMAIN job.targets[i].of.groups[g],
                        NEW j \in DOMAIN job.targets[i].of.groups[g][e]
                 PROVE  LET s == job.targets[i].of
                            Named(what) == <<i, what>> \in errors
                            k == s.groups[g][e][j]
                            Has == <<i, k.id>> \in items
                            Entry1 == <<"key", s.groups[g][e][1].id>>
                            LeftOut == \/ ~IsAsset(s.kind, k)
                                       \/ s.kind = "pkcs11" /\ s.slot \notin {AnySlot, g}
                        IN
                        /\ \/ Has \/ LeftOut
                           \/ Named(Whole) \/ Named(<<"group", g>>) \/ Named(Entry1) \/ Named(<<"crash">>)
                        /\ Has => ~(LeftOut \/ Named(<<"group", g>>) \/ Named(Entry1) \/ Named(<<"crash">>))
      BY DEF EveryKeyAccounted, IsCloud
    <2>1. KeysOf(i)
      <3>1. pos = Len(job.targets) + 1 /\ job \in Jobs
        BY DEF LoopInv, Finished
      <3>2. Len(job.targets) \in Nat /\ DOMAIN job.targets = 1..Len(job.targets)
        BY <3>1, JobTargets
      <3>3. i \in 1..(pos - 1)
        BY <3>1, <3>2
      <3> QED
        BY <3>3 DEF KeysInv
    <2>2. PICK s : s = job.targets[i].of
      OBVIOUS
    <2>3. IsStore(s)
      BY <2>2, JobTargets DEF LoopInv, IsCloud
    <2>4. PICK p \in Listing(s) : EntryAt(s, p) = s.groups[g][e] /\ p[1] = g
      <3>1. g \in DOMAIN s.groups /\ e \in DOMAIN s.groups[g]
        BY <2>2
      <3>2. <<g, e>> \in Listing(s) /\ EntryAt(s, <<g, e>>) = s.groups[g][e]
        BY <2>3, <3>1, StoreLists
      <3>3. <<g, e>>[1] = g
        OBVIOUS
      <3> QED
        BY <3>2, <3>3
    <2>5. s.groups[g][e][j] \in Range(EntryAt(s, p))
      BY <2>2, <2>4 DEF Range
    <2> QED
      BY <2>1, <2>2, <2>4, <2>5 DEF KeysOf
  <1> QED
    BY <1>1, <1>2, LoopHolds, WalkKeeps, KeysKeep, PTL DEF CollectSpec

-----------------------------------------------------------------------------
(* The shape of the state, where the invariants above do not tell it.      *)
ShapeInv ==
  /\ scope \cup taken_in \subseteq DOMAIN job.targets
  /\ reported \subseteq KeyIds
  /\ step \notin {"idle", "ready", "refused", "abandoned"} => cstep = "fetch"
  /\ queue \cup seen \subseteq kept
  /\ remap = [k \in DOMAIN remap |-> remap[k]]

(* What a walk reports are keys of its store.                              *)
LEMMA WalkReportsKeys ==
  ASSUME StoreInv, kstep # "idle", reported \subseteq KeyIds, KeyStoreNext
  PROVE  reported' \subseteq KeyIds
  <1>1. ASSUME NEW e \in EntryType PROVE AssetsOf(e) \subseteq KeyIds
    <2> DEFINE Keys == [id : KeyIds, spec : {"mapped", "other", NoSpec}, live : BOOLEAN]
    <2>1. \A x \in Range(e) : x \in Keys
      <3>1. e \in Seq(Keys)
        BY DEF EntryType
      <3> HIDE DEF Keys
      <3> QED
        BY <3>1, LenProperties, ElementOfSeq DEF Range
    <2> QED
      BY <2>1 DEF AssetsOf
  <1>2. CASE ReadObjects
    <2>1. listed \in Seq(EntryType)
      BY <1>2 DEF StoreInv, WalkedTo, ReadObjects
    <2>2. \A e \in Range(listed) : e \in EntryType
      BY <2>1, ElementOfSeq DEF Range
    <2>3. UNION {AssetsOf(e) : e \in Range(listed)} \subseteq KeyIds
      BY <1>1, <2>2
    <2> QED
      BY <1>2, <2>3 DEF ReadObjects, Report
  <1>3. CASE ReadEntry
    <2>1. listed \in Seq(EntryType) /\ listed # <<>>
      BY <1>3 DEF StoreInv, WalkedTo, ReadEntry, Entries
    <2>2. Head(listed) \in EntryType
      BY <2>1, HeadTailProperties
    <2> QED
      BY <1>1, <1>3, <2>2 DEF ReadEntry, Report
  <1>4. KeyStoreNext => ReadObjects \/ ReadEntry \/ reported' = reported
    BY DEF KeyStoreNext, Misnamed, RefuseStore, Connect, ListFails, ListPage, ListGroups, EndGroups,
           GroupFails, OpenRing, SkipSlot, OpenToken, GetObjects, EntryFails, WalkRaises, EndWalk, EndWith
  <1> QED
    BY <1>2, <1>3, <1>4

(* The worklist is of rows, and what the keys are mapped by is a function. *)
LEMMA PipelineShapes ==
  ASSUME PipelineInv, RadiusInv, RadiusInv', queue \cup seen \subseteq kept,
         remap = [k \in DOMAIN remap |-> remap[k]], PipelineNext
  PROVE  queue' \cup seen' \subseteq kept' /\ remap' = [k \in DOMAIN remap' |-> remap'[k]]
  <1>1. CASE EndScans \/ Attribute \/ EndAttribute \/ MergeRows
    <2>1. pstep' \in {"scan", "attribute", "merge"}
      BY <1>1 DEF EndScans, Attribute, EndAttribute, MergeRows
    <2>2. queue' = {} /\ seen' = {}
      BY <2>1 DEF RadiusInv, NotCounting
    <2>3. \/ remap' = remap
          \/ \E D, e : remap' = [k \in D |-> e[k]]
      <3>1. CASE UNCHANGED remap
        BY <3>1
      <3>2. CASE InsertRow
        <4>1. PICK k : remap' = Extend(remap, k, k)
          BY <3>2 DEF InsertRow
        <4>2. PICK f : f = remap'
          OBVIOUS
        <4>3. f = [x \in DOMAIN remap \cup {k} |-> f[x]]
          BY <4>1, <4>2 DEF Extend
        <4> QED
          BY <4>2, <4>3
      <3>3. CASE AbsorbRow
        <4>1. PICK k : remap' = [x \in DOMAIN remap |-> IF remap[x] = k THEN Twin(k) ELSE remap[x]]
          BY <3>3 DEF AbsorbRow
        <4>2. PICK f : f = remap'
          OBVIOUS
        <4>3. f = [x \in DOMAIN remap |-> f[x]]
          BY <4>1, <4>2
        <4> QED
          BY <4>2, <4>3
      <3> QED
        BY <1>1, <3>1, <3>2, <3>3
        DEF EndScans, Attribute, EndAttribute, MergeRows, MergeNext, MergeRow, EndPass1, KeepRow, RewriteEdges,
            mvars
    <2>4. remap' = [k \in DOMAIN remap' |-> remap'[k]]
      BY <2>3
    <2> QED
      BY <2>2, <2>4
  <1>2. CASE EndMerge \/ EndCount
    <2>1. UNCHANGED <<queue, seen, kept, remap>>
      BY <1>2 DEF EndMerge, EndCount, CountFrom, mvars, cvars, Counting, Linking
    <2> QED
      BY <2>1
  <1>3. CASE CountRadius
    <2>1. CountNext(kept, edges) /\ UNCHANGED <<kept, edges, remap>> /\ Merged
      BY <1>3 DEF CountRadius, mvars, PipelineInv, Phases
    <2>2. \A x : Issued(x, edges) \subseteq kept
      BY <2>1, KeptRows DEF Issued
    <2>3. queue' \cup seen' \subseteq kept
      BY <2>1, <2>2 DEF CountNext, StartRadius, Pop, EndRadius
    <2> QED
      BY <2>1, <2>3
  <1> QED
    BY <1>1, <1>2, <1>3 DEF PipelineNext

(* Every step keeps the shape.                                             *)
LEMMA ShapesKeep ==
  LoopInv /\ WalkInv /\ GatheredInv /\ GatheredInv' /\ ShapeInv /\ [CollectNext]_vars => ShapeInv'
  <1> SUFFICES ASSUME LoopInv, WalkInv, GatheredInv, GatheredInv', ShapeInv, [CollectNext]_vars
               PROVE  ShapeInv'
    OBVIOUS
  <1>1. scope' \cup taken_in' \subseteq DOMAIN job'.targets
    <2>1. job' = job
      BY DEF CollectNext, UnknownScanner, StartScan, Walk, Probe, Image, Code, Chain, TakeStore, TakeHost,
             TakeImage, TakeCode, TakeFiles, StartTree, Fetch, TakeTree, ScanTree, Finish, Rest, Ended, vars, rvars
    <2>2. scope' \in {scope, scope \cup {pos}} /\ taken_in' \in {taken_in, taken_in \cup {pos}}
      BY DEF CollectNext, UnknownScanner, StartScan, Walk, Probe, Image, Code, Chain, TakeStore, TakeHost,
             TakeImage, TakeCode, TakeFiles, StartTree, Fetch, TakeTree, ScanTree, Finish, Rest, Ended, vars, rvars,
             TakeResult, Crashed
    <2>3. scope' # scope \/ taken_in' # taken_in => pos \in DOMAIN job.targets
      BY DEF CollectNext, UnknownScanner, StartScan, Walk, Probe, Image, Code, Chain, TakeStore, TakeHost,
             TakeImage, TakeCode, TakeFiles, StartTree, Fetch, TakeTree, ScanTree, Finish, Rest, Ended, vars, rvars,
             TakeResult, Crashed, More, LoopInv
    <2> QED
      BY <2>1, <2>2, <2>3 DEF ShapeInv
  <1>2. reported' \subseteq KeyIds
    <2>1. CASE Walk
      BY <2>1, WalkReportsKeys DEF Walk, LoopInv, WalkInv, ShapeInv
    <2>2. CASE reported' \in {reported, {}}
      BY <2>2 DEF ShapeInv
    <2>3. CollectNext \/ UNCHANGED vars => Walk \/ reported' \in {reported, {}}
      BY DEF CollectNext, UnknownScanner, StartScan, Probe, Image, Code, Chain, TakeStore, TakeHost,
             TakeImage, TakeCode, TakeFiles, StartTree, Fetch, TakeTree, ScanTree, Finish, Rest, Ended, vars, kvars,
             KeyStoreReset, BeginStore, StartStore
    <2> QED
      BY <2>1, <2>2, <2>3
  <1>3. step' \notin {"idle", "ready", "refused", "abandoned"} => cstep' = "fetch"
    <2>1. CASE Fetch \/ TakeTree \/ StartTree
      BY <2>1 DEF Fetch, TakeTree, StartTree, rvars, ivars, More, ShapeInv
    <2>2. CASE step' = step /\ (cstep = "fetch" => cstep' = "fetch")
      BY <2>2 DEF ShapeInv
    <2>3. CollectNext \/ UNCHANGED vars =>
            \/ Fetch \/ TakeTree \/ StartTree
            \/ step' = step /\ (cstep = "fetch" => cstep' = "fetch")
      BY DEF CollectNext, UnknownScanner, StartScan, Walk, Probe, Image, Code, Chain, TakeStore, TakeHost,
             TakeImage, TakeCode, TakeFiles, ScanTree, Finish, Rest, Ended, vars, rvars, ivars, More
    <2> QED
      BY <2>1, <2>2, <2>3
  <1>4. queue' \cup seen' \subseteq kept' /\ remap' = [k \in DOMAIN remap' |-> remap'[k]]
    <2>1. CASE UNCHANGED <<queue, seen, kept, remap>>
      BY <2>1 DEF ShapeInv
    <2>2. CASE PipelineNext
      BY <2>2, PipelineShapes DEF ShapeInv, GatheredInv
    <2>3. CollectNext \/ UNCHANGED vars => PipelineNext \/ UNCHANGED <<queue, seen, kept, remap>>
      BY DEF CollectNext, UnknownScanner, StartScan, Walk, Probe, Image, Code, Chain, TakeStore, TakeHost,
             TakeImage, TakeCode, TakeFiles, StartTree, Fetch, TakeTree, ScanTree, Finish, Rest, Ended, vars,
             pvars, cvars, mvars, Counting, Linking, JoinResult, LinkReset, LinkNext, IndexCertificate, EndIndex,
             LinkCertificate, EndLink
    <2> QED
      BY <2>1, <2>2, <2>3
  <1> QED
    BY <1>1, <1>2, <1>3, <1>4 DEF ShapeInv

(* The shape of what was merged, of the pipeline's invariant.              *)
LEMMA MergedShape ==
  ASSUME PipelineInv, remap = [k \in DOMAIN remap |-> remap[k]]
  PROVE  InventoryTypeOK /\ pstep \in {"scan", "attribute", "merge", "count", "done"}
  <1>1. /\ FoundAssets /\ MergeStepped /\ RowsAreIdentities /\ OrderListsRows
        /\ RemapLeadsToRows /\ MergeProgress
    BY DEF PipelineInv, MergeInv
  <1>2. \A i \in DOMAIN raw : raw[i] \in Asset
    BY <1>1, ElementOfSeq DEF FoundAssets
  <1>3. DOMAIN rows = {order[j] : j \in DOMAIN order}
    <2>1. \A j \in DOMAIN order : order[j] \in DOMAIN rows
      BY <1>1, LenProperties, ElementOfSeq DEF OrderListsRows
    <2>2. \A k \in DOMAIN rows : \E j \in DOMAIN order : k = order[j]
      BY <1>1 DEF OrderListsRows
    <2>3. {order[j] : j \in DOMAIN order} \subseteq DOMAIN rows
      BY <2>1
    <2>4. DOMAIN rows \subseteq {order[j] : j \in DOMAIN order}
      BY <2>2
    <2> QED
      BY <2>3, <2>4
  <1>4. \A k \in DOMAIN rows : rows[k] \in Asset /\ IdentityKey(rows[k]) = k
    BY <1>1, AlikeIdentity DEF RowsAreIdentities
  <1>5. remap \in [DOMAIN rows -> DOMAIN rows]
    BY <1>1 DEF RemapLeadsToRows
  <1>6. kept \subseteq DOMAIN rows
    BY <1>1, <1>3 DEF MergeStepped, MergeProgress
  <1>7. \A e \in edges : e[1] \in kept /\ e[2] \in kept
    <2>1. CASE Merged
      BY <2>1, KeptRows
    <2>2. CASE ~Merged
      BY <1>1, <2>2 DEF MergeStepped, MergeProgress, Merged
    <2> QED
      BY <2>1, <2>2
  <1>8. pstep \in {"scan", "attribute", "merge", "count", "done"}
    BY DEF PipelineInv, Phases
  <1> QED
    BY <1>1, <1>2, <1>3, <1>4, <1>5, <1>6, <1>7, <1>8 DEF InventoryTypeOK, MergeStepped

(* A machine below the loop runs only while the loop is inside it, for any *)
(* jobs; what it works on, and the report, keep their shape.               *)
THEOREM TypesHold == CollectSpec => []CollectTypeOK
  <1>1. CollectInit => ShapeInv
    <2> SUFFICES ASSUME CollectInit PROVE ShapeInv
      OBVIOUS
    <2>1. scope = {} /\ taken_in = {} /\ reported = {} /\ step = "idle"
      BY DEF CollectInit, KeyStoreInit, IngestInit
    <2>2. queue = {} /\ seen = {}
      BY DEF CollectInit, PipelineInit, ChainInit
    <2>3. remap = [k \in {} |-> None]
      BY DEF CollectInit, PipelineInit, InventoryInit
    <2> QED
      BY <2>1, <2>2, <2>3 DEF ShapeInv
  <1>2. CollectInit => WalkInv /\ EndpointInv /\ IngestInv
    BY NoHostYet, IngestInitially DEF CollectInit, KeyStoreInit, WalkInv, StoreInv
  <1>3. LoopInv /\ CodeInv /\ EndpointInv /\ IngestInv /\ GatheredInv /\ ShapeInv => CollectTypeOK
    <2> SUFFICES ASSUME LoopInv, CodeInv, EndpointInv, IngestInv, GatheredInv, ShapeInv
                 PROVE  CollectTypeOK
      OBVIOUS
    <2>1. cstep \in {"next", "walk", "probe", "image", "code", "files", "fetch", "tree", "rest", "finished"}
          /\ pos \in 1..(Len(job.targets) + 1)
      BY DEF LoopInv, CollectSteps
    <2>2. /\ {scope, taken_in} \subseteq SUBSET DOMAIN job.targets
          /\ step \notin {"idle", "ready", "refused", "abandoned"} => cstep = "fetch"
          /\ reported \subseteq KeyIds
      BY DEF ShapeInv
    <2>3. /\ (kstep # "idle") = (cstep = "walk") /\ (estep # "idle") = (cstep = "probe")
          /\ (istep # "idle") = (cstep = "image") /\ (sstep # "idle") = (cstep = "code")
      BY DEF LoopInv
    <2>4. fpos \in 1..(Len(files.all) + 1) /\ Len(buffer) <= taken
      BY DEF CodeInv, EndpointInv
    <2>5. InventoryTypeOK /\ pstep \in {"scan", "attribute", "merge", "count", "done"}
      BY MergedShape DEF GatheredInv, ShapeInv
    <2>6. {root} \cup queue \cup seen \cup todo \subseteq kept \cup {Absent}
      BY <2>5 DEF GatheredInv, RadiusInv, NotCounting, ShapeInv
    <2>7. budget \in 0..MaxTotal /\ left \in Nat /\ got \in 0..MaxMember
      BY DEF IngestInv
    <2> QED
      BY <2>1, <2>2, <2>3, <2>4, <2>5, <2>6, <2>7, Zenon DEF CollectTypeOK
  <1> QED
    BY <1>1, <1>2, <1>3, LoopHolds, CodeHolds, GatheredHolds, EndpointsKeep, WalkKeeps, TreesKeep, ShapesKeep,
       PTL DEF CollectSpec
=============================================================================
