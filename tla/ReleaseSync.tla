----------------------------- MODULE ReleaseSync -----------------------------
(* The runtime releases of a project, from the server's tables to the host's *)
(* memory: operators publish, activate and configure; the Gateway fetches    *)
(* the active release, imports the host's own when there is none, saves it,  *)
(* lets the embedded runtime apply it and reports what it applied.           *)
(*                                                                           *)
(* A manifest is a set of features: an agent and the provider it is bound to,*)
(* with their endpoints.  One project, one deployment, one Gateway.          *)
EXTENDS Integers, Sequences, FiniteSets

CONSTANTS
  Hosts,        \* how the host starts its runtime: see TypeOK
  HostManifest, \* the manifest the host brings
  Python,       \* features that only exist in the host's process
  Unsupported,  \* features the host has no provider for
  Published,    \* manifests operators publish
  Profile,      \* the feature a profile made live adds
  Setting,      \* the feature that a provider setting switches
  Slug,         \* the project's id on the server ...
  LocalId,      \* ... and the embedded runtime's, which may be the same one
  NoManifest,
  MaxOps,       \* bound: requests of operators
  MaxFaults     \* bound: requests lost, writes refused and crashes

Features == HostManifest \cup Python \cup Unsupported \cup {Profile, Setting} \cup UNION Published

ASSUME ReleaseAssumption ==
  /\ Hosts \subseteq {"bootstrap", "apply", "none"}
  /\ HostManifest \cap Unsupported = {}
  /\ \A m \in SUBSET Features : m # NoManifest
  /\ MaxOps \in Nat /\ MaxFaults \in Nat

VARIABLES
  host,         \* the kind of host
  releases,     \* project_runtime_releases: manifests by version
  active,       \* the deployment's active_release_version; 0: none
  policy,       \* configSync "on" or "off"; "away": not this Gateway's deployment
  request,      \* the operator's request in flight, with what it read
  boot,         \* bootstrap_agent_gateway_runtime_release in flight, by faults so far
  reports,      \* versions whose report passed its checks and is not recorded yet
  applied,      \* runtime_deployment_apply_states: the release reported; 0: none
  store,        \* runtime_releases of the Gateway's file: by project, manifests by version
  stored,       \* runtime_active_releases, by project; 0: none
  running,      \* the manifest in the host's memory
  sync,         \* sync_runtime_state, and before it the start of the host
  activated,    \* server versions the Gateway has finished applying
  ops, faults   \* counters of the bounds

operators == <<request, policy, ops>>
server    == <<releases, active, boot, reports, applied>>
gateway   == <<store, stored, running, sync, activated>>
vars == <<host, operators, server, gateway, faults>>

Embedded == host # "none"
Projects == {Slug, LocalId}
Attempts == 0..MaxFaults
NoRequest == [kind |-> "none", version |-> 0, manifest |-> {}]
NoBoot == [at |-> "idle", manifest |-> {}, active |-> 0, version |-> 0]
NoSync == [at |-> "idle", version |-> 0, manifest |-> {}, local |-> 0]

Init ==
  /\ host \in Hosts
  /\ releases = <<>> /\ active = 0 /\ policy = "on"
  /\ request = NoRequest /\ boot = [k \in Attempts |-> NoBoot]
  /\ reports = {} /\ applied = 0
  /\ store = [p \in Projects |-> <<>>]
  /\ stored = [p \in Projects |-> 0]
  /\ running = NoManifest
  /\ sync = NoSync /\ activated = {}
  /\ ops = 0 /\ faults = 0

Next1 == Len(releases) + 1
Known(m) == \E v \in DOMAIN releases : releases[v] = m
VersionOf(m) == CHOOSE v \in DOMAIN releases : releases[v] = m

(* Mutation: the release that took the version meanwhile is replaced.        *)
Inserted_Replace(v, m) ==
  /\ ~ Known(m)
  /\ releases' = [i \in 1..(IF v > Len(releases) THEN v ELSE Len(releases)) |->
                   IF i = v THEN m ELSE releases[i]]

(* An insert: a version and a content are there once.                        *)
Inserted(v, m) ==
  /\ v = Next1
  /\ ~ Known(m)
  /\ releases' = Append(releases, m)

-----------------------------------------------------------------------------
(* Operators.  A request reads the releases it builds on in one step and     *)
(* writes in a later one; the reads of a request are one step.               *)

Asks(kind, m) ==
  /\ request = NoRequest
  /\ ops < MaxOps
  /\ ops' = ops + 1
  /\ request' = [kind |-> kind, version |-> Next1, manifest |-> m]
  /\ UNCHANGED <<host, policy, server, gateway, faults>>

(* publish_project_runtime_release: a manifest that is there is answered.    *)
Publish == \E m \in Published : ~ Known(m) /\ Asks("publish", m)

(* Making a profile live, configuring a provider: the active release, changed. *)
MakeLive ==
  /\ active # 0 /\ policy = "on"
  /\ Asks("live", releases[active] \cup {Profile})

Configure ==
  /\ active # 0 /\ policy = "on"
  /\ LET m == releases[active]
     IN  Asks("configure", IF Setting \in m THEN m \ {Setting} ELSE m \cup {Setting})

Written ==
  \/ /\ request.kind = "publish"
     /\ Inserted(request.version, request.manifest)
     /\ UNCHANGED active
  \/ /\ request.kind = "configure" /\ policy = "on"
     /\ Inserted(request.version, request.manifest)
     /\ active' = request.version
  \/ /\ request.kind = "live"
     /\ \/ Inserted(request.version, request.manifest) /\ active' = request.version
        \/ /\ Known(request.manifest)       \* ON CONFLICT(content_hash) DO NOTHING
           /\ active' = VersionOf(request.manifest)
           /\ UNCHANGED releases

(* Another request took the version, the content is there, configSync is off. *)
Conflict ==
  /\ \/ request.version # Next1
     \/ Known(request.manifest) /\ request.kind # "live"
     \/ request.kind = "configure" /\ policy # "on"
  /\ UNCHANGED <<releases, active>>

Write ==
  /\ request # NoRequest
  /\ Written \/ Conflict
  /\ request' = NoRequest
  /\ UNCHANGED <<host, policy, ops, boot, reports, applied, gateway, faults>>

(* activate_runtime_deployment_release: the release must be there.           *)
Activate(v) ==
  /\ ops < MaxOps
  /\ ops' = ops + 1
  /\ active' = v
  /\ UNCHANGED <<host, request, policy, releases, boot, reports, applied, gateway, faults>>

(* The deployment's policies and its Gateways.                               *)
SetPolicy(p) ==
  /\ ops < MaxOps
  /\ p # policy
  /\ ops' = ops + 1
  /\ policy' = p
  /\ UNCHANGED <<host, request, server, gateway, faults>>

-----------------------------------------------------------------------------
(* bootstrap_agent_gateway_runtime_release: the deployment is read, then the *)
(* releases, then written.  The request of an earlier attempt may still be   *)
(* handled when the Gateway asks again; nobody waits for its answer.         *)

BootReply(k, v) ==
  /\ boot' = [boot EXCEPT ![k] = NoBoot]
  /\ sync' = IF sync.at # "asked" \/ k # faults THEN sync
             ELSE IF v = 0 THEN NoSync
             ELSE [sync EXCEPT !.at = "save", !.version = v, !.manifest = boot[k].manifest]

BootGoesOn(k, b) == boot' = [boot EXCEPT ![k] = b] /\ UNCHANGED sync

BootDeployment(k) ==
  /\ boot[k].at = "deployment"
  /\ IF policy = "on" THEN BootGoesOn(k, [boot[k] EXCEPT !.at = "releases", !.active = active])
     ELSE BootReply(k, 0)
  /\ UNCHANGED <<releases, active>>

BootReleases(k) ==
  /\ boot[k].at = "releases"
  /\ LET m == boot[k].manifest
     IN  IF Known(m)
         THEN CASE boot[k].active = 0 ->
                     BootGoesOn(k, [boot[k] EXCEPT !.at = "activate", !.version = VersionOf(m)])
                [] boot[k].active = VersionOf(m) -> BootReply(k, VersionOf(m))
                [] OTHER -> BootReply(k, 0)
         ELSE IF releases # <<>> \/ boot[k].active # 0 THEN BootReply(k, 0)
         ELSE BootGoesOn(k, [boot[k] EXCEPT !.at = "create", !.version = 1])
  /\ UNCHANGED <<releases, active>>

BootCreate(k) ==
  /\ boot[k].at = "create"
  /\ \/ /\ Inserted(1, boot[k].manifest)
        /\ BootGoesOn(k, [boot[k] EXCEPT !.at = "activate"])
     \/ /\ releases # <<>>
        /\ BootReply(k, 0)
        /\ UNCHANGED releases
  /\ UNCHANGED active

(* Unconditional: what an operator activated meanwhile is overwritten.       *)
BootActivate(k) ==
  /\ boot[k].at = "activate"
  /\ active' = boot[k].version
  /\ BootReply(k, boot[k].version)
  /\ UNCHANGED releases

Bootstrap(k) ==
  /\ BootDeployment(k) \/ BootReleases(k) \/ BootCreate(k) \/ BootActivate(k)
  /\ UNCHANGED <<host, operators, reports, applied>>
  /\ UNCHANGED <<store, stored, running, activated, faults>>

(* report_agent_gateway_runtime_release_applied, after its checks.           *)
Record(v) ==
  /\ applied' = v
  /\ reports' = reports \ {v}
  /\ sync' = IF sync.at = "reported" /\ sync.version = v THEN NoSync ELSE sync
  /\ UNCHANGED <<host, operators, releases, active, boot, store, stored, running, activated, faults>>

-----------------------------------------------------------------------------
(* sync_runtime_state, on connecting, on RuntimeConfigChanged and every 30 s.*)

(* Mutation: what is recorded as applied is not synchronised again.          *)
Due_Changed ==
  /\ Embedded => running # NoManifest
  /\ policy = "on"
  /\ active # applied \/ active = 0

(* The Gateway runs beside a started runtime and its configuration is synced.*)
Due ==
  /\ Embedded => running # NoManifest
  /\ policy = "on"

Fetch ==
  /\ sync.at = "idle"
  /\ Due
  /\ \/ /\ active # 0
        /\ sync' = [at |-> "save", version |-> active, manifest |-> releases[active], local |-> 0]
        /\ UNCHANGED boot
     \/ /\ active = 0 /\ Embedded
        /\ boot' = [boot EXCEPT ![faults] =
                      [NoBoot EXCEPT !.at = "deployment", !.manifest = running]]
        /\ sync' = [NoSync EXCEPT !.at = "asked"]
  /\ UNCHANGED <<store, stored, running, activated>>

(* save_release inserts, or finds that very release under that version: a    *)
(* version is saved once, and so is a content.                               *)
Saveable(p, v, m) ==
  IF v \in DOMAIN store[p] THEN store[p][v] = m
  ELSE \A w \in DOMAIN store[p] : store[p][w] # m
Saved(p, v, m) ==
  /\ Saveable(p, v, m)
  /\ store' = [store EXCEPT ![p] = [w \in DOMAIN store[p] \cup {v} |->
                                      IF w = v THEN m ELSE store[p][w]]]

(* Mutation: the release is reported before it is applied.                   *)
Save_Report ==
  /\ sync.at = "save"
  /\ Saved(Slug, sync.version, sync.manifest)
  /\ sync' = [sync EXCEPT !.at = "report"]
  /\ UNCHANGED <<boot, stored, running, activated>>

Save ==
  /\ sync.at = "save"
  /\ IF Saveable(Slug, sync.version, sync.manifest)
     THEN /\ Saved(Slug, sync.version, sync.manifest)
          /\ sync' = [sync EXCEPT !.at = IF Embedded THEN "install" ELSE "activate"]
     ELSE sync' = NoSync /\ UNCHANGED store
  /\ UNCHANGED <<boot, stored, running, activated>>

(* preserve_embedded_python_agents: these features, in the place of whatever *)
(* a manifest binds their agents to.                                         *)
Rebound(m, own) == {f \in m : \A g \in own : g[1] # f[1]} \cup own

(* local_embedded_release: the release with the Python features of the host, *)
(* under the version that has this content, its own or the next free one.    *)
Localised(m) == Rebound(m, running \cap Python)

Installed == DOMAIN store[LocalId]

LocalVersion(v, m) ==
  LET same == {i \in Installed : store[LocalId][i] = m}
  IN  IF same # {} THEN CHOOSE i \in same : \A j \in same : i >= j
      ELSE IF v \in Installed THEN 1 + CHOOSE i \in Installed : \A j \in Installed : i >= j
      ELSE v

Install ==
  /\ sync.at = "install"
  /\ LET m == Localised(sync.manifest)
         v == LocalVersion(sync.version, m)
     IN  /\ Saved(LocalId, v, m)
         /\ sync' = [sync EXCEPT !.at = "apply", !.local = v]
  /\ UNCHANGED <<boot, stored, running, activated>>

(* apply_manifest: every provider must be there.                             *)
Applied(m) == m \cap Unsupported = {} /\ running' = m

(* activate_release, in two steps: of a release of the server or, with the   *)
(* version 0, by bootstrap_release.                                          *)
Apply ==
  /\ sync.at = "apply"
  /\ LET m == store[LocalId][sync.local]
     IN  \/ Applied(m) /\ sync' = [sync EXCEPT !.at = "store"]
         \/ m \cap Unsupported # {} /\ sync' = NoSync /\ UNCHANGED running
  /\ UNCHANGED <<boot, store, stored, activated>>

SetActive(p, v) == stored' = [stored EXCEPT ![p] = v]

Activated == sync' = IF sync.version = 0 THEN NoSync ELSE [sync EXCEPT !.at = "activate"]

(* Mutation: only the server's version is made active.                       *)
StoreLocal_Skip ==
  /\ sync.at = "store"
  /\ Activated
  /\ UNCHANGED <<boot, store, stored, running, activated>>

StoreLocal ==
  /\ sync.at = "store"
  /\ SetActive(LocalId, sync.local)
  /\ Activated
  /\ UNCHANGED <<boot, store, running, activated>>

StoreRemote ==
  /\ sync.at = "activate"
  /\ SetActive(Slug, sync.version)
  /\ activated' = activated \cup {sync.version}
  /\ sync' = [sync EXCEPT !.at = "report"]
  /\ UNCHANGED <<boot, store, running>>

Synchronise ==
  /\ Fetch \/ Save \/ Install \/ Apply \/ StoreLocal \/ StoreRemote
  /\ UNCHANGED <<host, operators, releases, active, reports, applied, faults>>

(* The request that reports, up to the server's checks.                      *)
Report ==
  /\ sync.at = "report"
  /\ \/ /\ policy # "away" /\ active = sync.version /\ releases[active] = sync.manifest
        /\ reports' = reports \cup {sync.version}
        /\ sync' = [sync EXCEPT !.at = "reported"]
     \/ /\ policy = "away" \/ active # sync.version \/ releases[active] # sync.manifest
        /\ sync' = NoSync
        /\ UNCHANGED reports
  /\ UNCHANGED <<host, operators, releases, active, boot, applied, faults>>
  /\ UNCHANGED <<store, stored, running, activated>>

-----------------------------------------------------------------------------
(* The host starts its runtime: bootstrap_release activates the stored       *)
(* release, or installs its manifest as version 1 and activates that; other  *)
(* hosts apply their manifest.                                               *)
Activation(v) == [NoSync EXCEPT !.at = "apply", !.local = v]

Start ==
  /\ Embedded /\ running = NoManifest /\ sync = NoSync
  /\ IF host = "apply" THEN Applied(HostManifest) /\ UNCHANGED <<store, sync>>
     ELSE IF stored[LocalId] # 0
     THEN sync' = Activation(stored[LocalId]) /\ UNCHANGED <<store, running>>
     ELSE Saved(LocalId, 1, HostManifest) /\ sync' = Activation(1) /\ UNCHANGED running
  /\ UNCHANGED <<host, operators, server, stored, activated, faults>>

(* A step fails and ends the pass, or the start of the host, after those     *)
(* before it took effect: SQLite refuses a write, or a request fails or times*)
(* out, and the server may go on with it.                                    *)
Lost ==
  /\ faults < MaxFaults
  /\ sync.at # "idle"
  /\ faults' = faults + 1
  /\ sync' = NoSync
  /\ boot' \in {boot, [boot EXCEPT ![faults] = NoBoot]}
  /\ \/ UNCHANGED reports
     \/ sync.at = "reported" /\ reports' = reports \ {sync.version}
  /\ UNCHANGED <<host, operators, releases, active, applied, store, stored, running, activated>>

(* The process of the Gateway and its host ends.                             *)
Crash ==
  /\ faults < MaxFaults
  /\ running # NoManifest \/ sync # NoSync
  /\ faults' = faults + 1
  /\ sync' = NoSync
  /\ running' = NoManifest
  /\ UNCHANGED <<host, operators, server, store, stored, activated>>

Next ==
  \/ Publish \/ MakeLive \/ Configure \/ Write
  \/ \E v \in DOMAIN releases : Activate(v)
  \/ \E p \in {"on", "off", "away"} : SetPolicy(p)
  \/ \E k \in Attempts : Bootstrap(k)
  \/ \E v \in reports : Record(v)
  \/ Synchronise \/ Report
  \/ Start \/ Lost \/ Crash

(* The Gateway synchronises every 30 seconds, the server ends the requests   *)
(* it has begun, a host that crashed or failed to start is started again.    *)
Fairness ==
  /\ WF_vars(Synchronise) /\ WF_vars(Report) /\ WF_vars(Start)
  /\ \A k \in Attempts : WF_vars(Bootstrap(k))
  /\ WF_vars(\E v \in reports : Record(v))

Spec == Init /\ [][Next]_vars /\ Fairness

-----------------------------------------------------------------------------

(* Types.  A host starts by bootstrapping a release, by applying a manifest  *)
(* without a release, or has no embedded runtime at all; what it runs only   *)
(* needs providers it has (apply_manifest), whatever is published.  What is  *)
(* active, on its way or applied is a release of the server.                 *)
TypeOK ==
  /\ host \in Hosts
  /\ releases \in Seq(SUBSET Features)
  /\ active \in 0..Len(releases) /\ applied \in 0..Len(releases)
  /\ policy \in {"on", "off", "away"}
  /\ request \in [kind : {"none", "publish", "live", "configure"}, version : Nat,
                   manifest : SUBSET Features]
  /\ boot \in [Attempts ->
                [at : {"idle", "deployment", "releases", "create", "activate"},
                 manifest : SUBSET Features, active : 0..Len(releases), version : Nat]]
  /\ reports \subseteq 1..Len(releases) /\ activated \subseteq 1..Len(releases)
  /\ DOMAIN store = Projects
  /\ \A p \in Projects : /\ DOMAIN store[p] \subseteq Nat \ {0}
                         /\ store[p] \in [DOMAIN store[p] -> SUBSET Features]
  /\ stored \in [Projects -> Nat]
  /\ running = NoManifest \/ running \in SUBSET (Features \ Unsupported)
  /\ sync \in [at : {"idle", "asked", "save", "install", "apply", "store", "activate",
                      "report", "reported"},
                version : 0..Len(releases), manifest : SUBSET Features, local : Nat]
  /\ ops \in 0..MaxOps /\ faults \in 0..MaxFaults

(* Two operators, or an operator and a bootstrap, take the same next version;*)
(* one of them fails.  A version the Gateway has saved is therefore the      *)
(* release the server has under that version, and saving it never conflicts  *)
(* (create_project_runtime_release, save_release) -- when the embedded       *)
(* runtime's own releases are not in the same project.                       *)
VersionsAgree ==
  /\ LocalId # Slug =>
       \A v \in DOMAIN store[Slug] : v \in DOMAIN releases /\ store[Slug][v] = releases[v]
  /\ \A v, w \in DOMAIN releases : releases[v] = releases[w] => v = w

(* The server shows a release as applied only when the Gateway had finished  *)
(* applying it, though reports are lost, late and overtaken.                 *)
ReportedWasApplied == applied \in {0} \cup activated

(* Whatever write fails: when the Gateway comes to report a release, the host*)
(* runs it and a restart would bring it back (an activation whose last write *)
(* failed is not reported); and a restart never brings back a release that   *)
(* the host has no provider for.                                             *)
ReportedSurvives ==
  Embedded /\ LocalId # Slug =>
    /\ sync.at \in {"activate", "report", "reported"} =>
         stored[LocalId] = sync.local /\ running = store[LocalId][sync.local]
    /\ stored[LocalId] # 0 => store[LocalId][stored[LocalId]] \cap Unsupported = {}

(* The Gateway has the active release: it runs it with the host's own agents,*)
(* unless a provider is missing, and the server knows.  A project without    *)
(* releases has got the host's.                                              *)
Wanted(m) == IF Embedded THEN Rebound(m, HostManifest \cap Python) ELSE m
Settled ==
  policy = "on" =>
    /\ Embedded => releases # <<>>
    /\ active # 0 /\ (Embedded => Wanted(releases[active]) \cap Unsupported = {}) =>
         applied = active /\ (Embedded => running = Wanted(releases[active]))

(* Once operators and failures stop, that is so -- when the server and the   *)
(* embedded runtime use different ids for the project.                       *)
Converges == (Embedded => LocalId # Slug) => <>[]Settled

(* "The first connection to an empty deployment imports the active Project   *)
(* Settings as release 1. Later release activation, configuration sync, ...  *)
(* follow the deployment policies": where the ids are equal, too.            *)
LaterReleasesFollow == applied = 1 /\ releases[1] = HostManifest ~> []Settled
=============================================================================
