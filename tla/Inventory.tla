------------------------------ MODULE Inventory ------------------------------
(***************************************************************************)
(* The inventory of one scope: assets found by discovery steps, ports by   *)
(* port-scan steps, services by service-enum steps, each step a session of *)
(* its own that writes what one tool printed, entry by entry.              *)
(*                                                                         *)
(* An asset is looked up by fingerprint before it is written and again, by *)
(* its host, before a port or a service is attached to it.  Neither column *)
(* is unique, and each lookup raises when two rows answer.                 *)
(***************************************************************************)
EXTENDS Integers, Sequences, FiniteSets, SequencesExt, FiniteSetsExt

CONSTANTS
    DiscoverySteps, PortSteps, ServiceSteps, \* the steps, each a session
    Hosts,            \* host names and addresses
    Plugins,          \* names of discovery tools
    PortNumbers,
    Versions,         \* what service detection reads, UnknownVersion included
    UnknownVersion,
    Discoveries,      \* what a discovery tool may print: sequences of Reported
    Scans,            \* what a port scan may print: sequences of OpenPort
    Detections,       \* what service detection may print: sequences of Detected
    None

Steps == DiscoverySteps \cup PortSteps \cup ServiceSteps
AssetTypes == {"domain", "subdomain", "hostname", "ip", "email"}

\* The normalizers give a sighting the confidence of its tool and its kind, and
\* a service a confidence for what was detected of it (in percent).
Confidence(plugin, type) ==
    CASE plugin = "subfinder"   -> 90
      [] plugin = "amass"       -> 85
      [] plugin = "assetfinder" -> 75
      [] plugin = "theharvester" ->
           (CASE type = "email" -> 60 [] type = "hostname" -> 80 [] type = "ip" -> 90)
      [] OTHER -> 50
ServiceConfidence(version) == IF version = UnknownVersion THEN 80 ELSE 95

Sighting == [type: AssetTypes, value: Hosts, plugin: Plugins]
Reported == {x \in Sighting :
                x.plugin = "theharvester" => x.type \in {"email", "hostname", "ip"}}
OpenPort == [host: Hosts, port: PortNumbers]
Detected == [addresses: Seq(Hosts), port: PortNumbers, version: Versions]

ASSUME InventoryAssumption ==
    /\ DiscoverySteps \cap PortSteps = {}
    /\ DiscoverySteps \cap ServiceSteps = {}
    /\ PortSteps \cap ServiceSteps = {}
    /\ None \notin Steps
    /\ UnknownVersion \in Versions
    /\ Discoveries \subseteq Seq(Reported)
    /\ Scans \subseteq Seq(OpenPort)
    /\ Detections \subseteq Seq(Detected)

VARIABLES
    assets,        \* the asset rows in the order of their insertion
    assetHistory,  \* assetHistory[a]: the sources each logged metadata names
    ports,         \* the port rows: pairs of an asset and a port number
    services,      \* services[p]: the service on port p of ports, or Absent
    serviceLog,    \* serviceLog[p]: the versions its history rows end with
    step,          \* step[s]: where s is and what it has read
    oneByOne       \* whether steps wait for each other

inventoryVars == <<assets, assetHistory, ports, services, serviceLog, step, oneByOne>>

\* A source is [confidence, seen]: who saw it last stands for last_seen.
NoSource == [confidence |-> 0, seen |-> None]
Sources == [Plugins -> [confidence: 0..100, seen: Steps \cup {None}]]
Asset == [type: AssetTypes, value: Hosts, sources: Sources, confidence: 0..100]
AssetIds == 1..Len(assets)
AllPorts == Nat \X PortNumbers

NoService == [version |-> None, confidence |-> 0]
Service == [version: Versions, confidence: {80, 95}]
ServiceOn(p) == IF p \in DOMAIN services THEN services[p] ELSE NoService
LogOf(p) == IF p \in DOMAIN serviceLog THEN serviceLog[p] ELSE <<>>

PCs == {"idle", "asset", "write", "log", "host", "port", "address", "attach",
        "note", "done", "ambiguous", "failed"}
AtStart == [pc |-> "idle", todo |-> <<>>, id |-> 0, read |-> None]
Named(sources) == {p \in Plugins : sources[p] # NoSource}

InventoryTypeOK ==
    /\ assets \in Seq(Asset)
    /\ DOMAIN assetHistory = AssetIds
    /\ \A a \in AssetIds : assetHistory[a] \in Seq(SUBSET Plugins)
    /\ ports \subseteq AssetIds \X PortNumbers
    /\ DOMAIN services \subseteq ports /\ DOMAIN serviceLog \subseteq DOMAIN services
    /\ \A p \in DOMAIN services : services[p] \in Service
    /\ \A p \in DOMAIN serviceLog : serviceLog[p] \in Seq(Versions)
    /\ \A s \in Steps : step[s].pc \in PCs /\ step[s].id \in 0..Len(assets)

InventoryInit ==
    /\ assets = <<>>
    /\ assetHistory = <<>>
    /\ ports = {}
    /\ services = [p \in {} |-> NoService]
    /\ serviceLog = [p \in {} |-> <<>>]
    /\ step = [s \in Steps |-> AtStart]
    /\ oneByOne \in BOOLEAN

At(s, pc) == step[s].pc = pc
Ended(s) == step[s].pc \in {"done", "ambiguous", "failed"}
MayBegin(s) == At(s, "idle") /\ (oneByOne => \A t \in Steps \ {s} : At(t, "idle") \/ Ended(t))
Entered(s) == Head(step[s].todo)
Go(s, pc) == step' = [step EXCEPT ![s].pc = pc]

\* The next entry of the step's output, or its end.
Advance(s, pc) ==
    step' = [step EXCEPT ![s] =
        [AtStart EXCEPT !.todo = Tail(step[s].todo),
                        !.pc = IF Len(step[s].todo) = 1 THEN "done" ELSE pc]]
Begin(s, pc, output) ==
    /\ MayBegin(s)
    /\ step' = [step EXCEPT ![s] =
           [AtStart EXCEPT !.todo = output, !.pc = IF output = <<>> THEN "done" ELSE pc]]
    /\ UNCHANGED <<assets, assetHistory, ports, services, serviceLog, oneByOne>>

\* The lookup raises and the task's handler ends the run as failed.
Raise(s) ==
    /\ Go(s, "ambiguous")
    /\ UNCHANGED <<assets, assetHistory, ports, services, serviceLog, oneByOne>>

-----------------------------------------------------------------------------
(* process_discovered_assets                                                *)

BeginDiscovery(s, output) == Begin(s, "asset", output)

SameFingerprint(x, y) == x.type = y.type /\ x.value = y.value
WithFingerprint_Slip(x) == {a \in AssetIds : /\ SameFingerprint(assets[a], x)
                                             /\ assets[a].sources[x.plugin] # NoSource}
WithFingerprint(x) == {a \in AssetIds : SameFingerprint(assets[a], x)}

SelectAsset(s) ==
    /\ At(s, "asset")
    /\ LET found == WithFingerprint(Entered(s))
       IN  IF Cardinality(found) > 1 THEN Raise(s)
           ELSE /\ step' = [step EXCEPT ![s].pc = "write",
                     ![s].id = IF found = {} THEN 0 ELSE Max(found),
                     ![s].read = IF found = {} THEN None ELSE assets[Max(found)]]
                /\ UNCHANGED <<assets, assetHistory, ports, services, serviceLog, oneByOne>>

InsertAsset(s) ==
    LET x == Entered(s)
        c == Confidence(x.plugin, x.type)
        new == [type |-> x.type, value |-> x.value, confidence |-> c,
                sources |-> [p \in Plugins |->
                    IF p = x.plugin THEN [confidence |-> c, seen |-> s] ELSE NoSource]]
    IN  /\ At(s, "write") /\ step[s].id = 0
        /\ assets' = Append(assets, new)
        /\ assetHistory' = Append(assetHistory, <<>>)
        /\ step' = [step EXCEPT ![s].pc = "log", ![s].id = Len(assets) + 1, ![s].read = new]
        /\ UNCHANGED <<ports, services, serviceLog, oneByOne>>

Highest_Slip(sources, x) == Confidence(x.plugin, x.type)  \* the last source decides
Highest(sources, x) == Max({sources[p].confidence : p \in Named(sources)})

Merged_Slip(old, x, s) ==  \* the list of sources is started anew
    [p \in Plugins |-> IF p = x.plugin
       THEN [confidence |-> Confidence(x.plugin, x.type), seen |-> s] ELSE NoSource]
Merged(old, x, s) ==
    [old EXCEPT ![x.plugin] = [confidence |-> Confidence(x.plugin, x.type), seen |-> s]]

\* The metadata column is written when it compares unequal to what was read.
\* A known source is changed inside the very object it is compared with, so a
\* new last_seen alone is not written; the history row is, from the object.
UpdateAsset(s) ==
    LET x == Entered(s)
        old == step[s].read
        sources == Merged(old.sources, x, s)
        new == [old EXCEPT !.sources = sources, !.confidence = Highest(sources, x)]
        written == old.sources[x.plugin] = NoSource \/ new.confidence # old.confidence
    IN  /\ At(s, "write") /\ step[s].id # 0
        /\ assets' = IF written THEN [assets EXCEPT ![step[s].id] = new] ELSE assets
        /\ step' = [step EXCEPT ![s].pc = "log", ![s].read = new]
        /\ UNCHANGED <<assetHistory, ports, services, serviceLog, oneByOne>>

\* The history row, the audit entry and the event follow in later commits.
LogAsset(s) ==
    /\ At(s, "log")
    /\ assetHistory' = [assetHistory EXCEPT ![step[s].id] =
                           Append(@, Named(step[s].read.sources))]
    /\ Advance(s, "asset")
    /\ UNCHANGED <<assets, ports, services, serviceLog, oneByOne>>

-----------------------------------------------------------------------------
(* process_discovered_ports                                                 *)

BeginPorts(s, output) == Begin(s, "host", output)

\* Only these types of asset have their value as host or ip.
Answering(host) == {a \in AssetIds : assets[a].value = host /\ assets[a].type # "email"}

\* The asset must exist first: otherwise the entry is skipped.
FindHost(s) ==
    /\ At(s, "host")
    /\ LET found == Answering(Entered(s).host)
       IN  CASE Cardinality(found) > 1 -> Raise(s)
             [] Cardinality(found) = 1 ->
                  /\ step' = [step EXCEPT ![s].pc = "port", ![s].id = Max(found)]
                  /\ UNCHANGED <<assets, assetHistory, ports, services, serviceLog, oneByOne>>
             [] OTHER ->
                  /\ Advance(s, "host")
                  /\ UNCHANGED <<assets, assetHistory, ports, services, serviceLog, oneByOne>>

\* A port a scan prints is open, so only its evidence can have changed.  If
\* another step inserts the same port first, the unique key makes this fail.
SavePort(s) ==
    /\ At(s, "port")
    /\ ports' = ports \cup {<<step[s].id, Entered(s).port>>}
    /\ Advance(s, "host")
    /\ UNCHANGED <<assets, assetHistory, services, serviceLog, oneByOne>>

-----------------------------------------------------------------------------
(* process_discovered_services                                              *)

BeginServices(s, output) == Begin(s, "address", output)

\* The addresses are tried in turn until one has an asset; a port of that asset
\* must exist.  A lookup that raises is not caught.
FindAddress(s) ==
    LET addresses == Entered(s).addresses
        hits == {k \in DOMAIN addresses : Answering(addresses[k]) # {}}
        found == Answering(addresses[Min(hits)])
    IN  /\ At(s, "address")
        /\ IF hits # {} /\ Cardinality(found) > 1 THEN Raise(s)
           ELSE /\ IF hits # {} /\ <<Max(found), Entered(s).port>> \in ports
                     THEN LET p == <<Max(found), Entered(s).port>>
                          IN  step' = [step EXCEPT ![s].pc = "attach", ![s].id = Max(found),
                                                   ![s].read = ServiceOn(p)]
                     ELSE Advance(s, "address")
                /\ UNCHANGED <<assets, assetHistory, ports, services, serviceLog, oneByOne>>

Put(f, key, value) == [k \in DOMAIN f \cup {key} |-> IF k = key THEN value ELSE f[k]]

\* A new service: the row in one commit, its history in the next.
InsertService(s) ==
    LET p == <<step[s].id, Entered(s).port>>
        version == Entered(s).version
    IN  /\ At(s, "attach") /\ step[s].read = NoService
        /\ ServiceOn(p) = NoService
        /\ services' = Put(services, p, [version |-> version,
                                         confidence |-> ServiceConfidence(version)])
        /\ Go(s, "note")
        /\ UNCHANGED <<assets, assetHistory, ports, serviceLog, oneByOne>>

NoteService(s) ==
    LET p == <<step[s].id, Entered(s).port>>
    IN  /\ At(s, "note")
        /\ serviceLog' = Put(serviceLog, p, Append(LogOf(p), Entered(s).version))
        /\ Advance(s, "address")
        /\ UNCHANGED <<assets, assetHistory, ports, services, oneByOne>>

\* A known one: the columns that differ from what was read are written, the
\* confidence only upwards, together with a history row for a new version.
Raised(old, new) == IF old < new THEN new ELSE old

VersionLog(p, old, new) ==
    IF old = new THEN serviceLog ELSE Put(serviceLog, p, Append(LogOf(p), new))

UpdateService(s) ==
    LET p == <<step[s].id, Entered(s).port>>
        old == step[s].read
        version == Entered(s).version
        confidence == Raised(old.confidence, ServiceConfidence(version))
        row == services[p]
    IN  /\ At(s, "attach") /\ old # NoService
        /\ services' = [services EXCEPT ![p] =
              [version |-> IF version = old.version THEN row.version ELSE version,
               confidence |-> IF confidence = old.confidence THEN row.confidence ELSE confidence]]
        /\ serviceLog' = VersionLog(p, old.version, version)
        /\ Advance(s, "address")
        /\ UNCHANGED <<assets, assetHistory, ports, oneByOne>>

-----------------------------------------------------------------------------
\* A statement raises, or the worker dies: the rest of the output is not done.
StepFails(s) ==
    /\ ~Ended(s) /\ ~At(s, "idle")
    /\ Go(s, "failed")
    /\ UNCHANGED <<assets, assetHistory, ports, services, serviceLog, oneByOne>>

DiscoveryStep(s) ==
    \/ \E output \in Discoveries : BeginDiscovery(s, output)
    \/ SelectAsset(s)
    \/ InsertAsset(s)
    \/ UpdateAsset(s)
    \/ LogAsset(s)

PortStep(s) ==
    \/ \E output \in Scans : BeginPorts(s, output)
    \/ FindHost(s)
    \/ SavePort(s)

ServiceStep(s) ==
    \/ \E output \in Detections : BeginServices(s, output)
    \/ FindAddress(s)
    \/ InsertService(s)
    \/ NoteService(s)
    \/ UpdateService(s)

InventoryNext ==
    \/ \E s \in DiscoverySteps : DiscoveryStep(s)
    \/ \E s \in PortSteps : PortStep(s)
    \/ \E s \in ServiceSteps : ServiceStep(s)
    \/ \E s \in Steps : StepFails(s)

InventorySpec == InventoryInit /\ [][InventoryNext]_inventoryVars

-----------------------------------------------------------------------------
(* However the steps interleave.                                            *)

\* The confidence of an asset is the highest of its sources, although each
\* step computes it from its own, perhaps stale, copy of them.
ConfidenceIsHighest ==
    \A a \in AssetIds :
        assets[a].confidence = Max({assets[a].sources[p].confidence : p \in Plugins})

(* When the steps wait for each other.                                      *)

\* A fingerprint has one asset, so discovery never meets two.
OneAssetPerFingerprint ==
    oneByOne => \A a, b \in AssetIds : a # b => ~SameFingerprint(assets[a], assets[b])

\* A source that the history names is in the row: no update of the metadata
\* drops what an earlier one recorded.
LoggedSourcesExist ==
    oneByOne => \A a \in AssetIds : \A k \in DOMAIN assetHistory[a] :
        assetHistory[a][k] \subseteq Named(assets[a].sources)

\* The last version the history of a service tells is its version, also after
\* a step that failed between the two commits of a new service.
ServiceLogTellsVersion ==
    oneByOne => \A p \in DOMAIN serviceLog : Last(serviceLog[p]) = services[p].version

\* Rows bear out what the histories of assets and services say.
HistoryIsBorneOut == LoggedSourcesExist /\ ServiceLogTellsVersion
=============================================================================
