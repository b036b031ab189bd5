-------------------------- MODULE ReleaseSyncProofs --------------------------
(***************************************************************************)
(* Proofs about ReleaseSync for any host, any manifests, any ids and any   *)
(* number of requests and faults: a version means the same release on the  *)
(* server and in the Gateway's file, reports are true, and what is reported*)
(* runs and would run again after a restart.                               *)
(***************************************************************************)
EXTENDS ReleaseSync, SequenceTheorems, WellFoundedInduction, TLAPS

AnyManifest == SUBSET Features

(* A release of the server is on its way; the host's start has version 0.  *)
HasRelease ==
  \/ sync.at \in {"save", "install", "activate", "report", "reported"}
  \/ sync.at \in {"apply", "store"} /\ sync.version # 0

BootCarries(b, rs) ==
  /\ b.at = "create" => b.version = 1
  /\ b.at = "activate" => b.version \in DOMAIN rs /\ b.manifest = rs[b.version]

(* What is carried from one step to a later one is still so when it is     *)
(* used: releases are never changed nor removed.                           *)
CarriesReleases ==
  /\ HasRelease => sync.version \in DOMAIN releases /\ sync.manifest = releases[sync.version]
  /\ \A k \in Attempts : BootCarries(boot[k], releases)

(* Only what the Gateway has made active is reported.                      *)
ReportsApplied ==
  /\ sync.at \in {"report", "reported"} => sync.version \in activated
  /\ reports \subseteq activated
  /\ ReportedWasApplied

(* The synchronisation of an embedded runtime stops when that stops.       *)
RunsEmbedded ==
  /\ Embedded /\ sync.at # "idle" =>
       running # NoManifest \/ (sync.at = "apply" /\ sync.version = 0)
  /\ sync.at \in {"install", "apply", "store"} => Embedded

(* The version that is installed, applied and made active, in that order,  *)
(* and the server's own, are in the file.                                  *)
LocalKept ==
  /\ Embedded /\ sync.at \in {"apply", "store", "activate", "report", "reported"} =>
       sync.local \in Installed
  /\ HasRelease /\ sync.at # "save" => sync.version \in DOMAIN store[Slug]
  /\ sync.at = "store" => running = store[LocalId][sync.local]
  /\ stored[LocalId] # 0 => stored[LocalId] \in Installed
  /\ \E n \in Nat : \A v \in Installed : v <= n

Inv ==
  /\ TypeOK
  /\ VersionsAgree
  /\ CarriesReleases
  /\ ReportsApplied
  /\ RunsEmbedded
  /\ LocalKept
  /\ ReportedSurvives

-----------------------------------------------------------------------------
(* Numbers *)

(* A bounded set of numbers has a greatest element, its least bound.       *)
LEMMA GreatestExists ==
  ASSUME NEW S \in SUBSET Nat, S # {}, NEW n \in Nat, \A v \in S : v <= n
  PROVE  \E i \in S : \A j \in S : i >= j
<1> DEFINE Bounds == {b \in Nat : \A v \in S : v <= b}
<1>1. PICK b \in Bounds : \A c \in Bounds : ~ (<<c, b>> \in OpToRel(<, Nat))
  <2>1. Bounds \subseteq Nat /\ Bounds # {}
    OBVIOUS
  <2> QED
    BY <2>1, NatLessThanWellFounded, WFMin
<1>2. \A c \in Bounds : ~ (c < b)
  BY <1>1 DEF OpToRel
<1>3. b \in S
  <2>1. SUFFICES ASSUME b \notin S PROVE FALSE
    OBVIOUS
  <2>2. \A v \in S : v < b
    BY <2>1
  <2>3. PICK v \in S : v < b
    BY <2>2
  <2>4. b - 1 \in Nat
    BY <2>3
  <2>5. \A w \in S : w <= b - 1
    BY <2>2
  <2> QED
    BY <1>2, <2>4, <2>5
<1> QED
  BY <1>3

-----------------------------------------------------------------------------
(* The steps *)

BootT(n) ==
  [at : {"idle", "deployment", "releases", "create", "activate"},
   manifest : AnyManifest, active : 0..n, version : Nat]

SyncT(n) ==
  [at : {"idle", "asked", "save", "install", "apply", "store", "activate", "report", "reported"},
   version : 0..n, manifest : AnyManifest, local : Nat]

LEMMA Widen ==
  ASSUME NEW n \in Nat, NEW k \in Nat, n <= k
  PROVE  /\ BootT(n) \subseteq BootT(k) /\ SyncT(n) \subseteq SyncT(k)
         /\ [Attempts -> BootT(n)] \subseteq [Attempts -> BootT(k)]
<1>1. 0..n \subseteq 0..k
  OBVIOUS
<1>2. BootT(n) \subseteq BootT(k) /\ SyncT(n) \subseteq SyncT(k)
  BY <1>1 DEF BootT, SyncT
<1> QED
  BY <1>2

LEMMA NoneType ==
  ASSUME NEW n \in Nat
  PROVE  NoBoot \in BootT(n) /\ NoSync \in SyncT(n)
BY DEF NoBoot, NoSync, BootT, SyncT, AnyManifest

(* Releases are only added, and only with a new content.                   *)
Grows ==
  \/ releases' = releases
  \/ \E m \in AnyManifest : ~ Known(m) /\ releases' = Append(releases, m)

LEMMA Growth ==
  ASSUME releases \in Seq(AnyManifest), Grows
  PROVE  /\ releases' \in Seq(AnyManifest)
         /\ Len(releases) \in Nat /\ Len(releases') \in Nat
         /\ Len(releases) <= Len(releases')
         /\ DOMAIN releases = 1..Len(releases) /\ DOMAIN releases' = 1..Len(releases')
         /\ \A v \in 1..Len(releases) : v \in 1..Len(releases') /\ releases'[v] = releases[v]
<1>1. CASE releases' = releases
  BY <1>1, LenProperties
<1>2. ASSUME NEW m \in AnyManifest, releases' = Append(releases, m)
      PROVE  /\ releases' \in Seq(AnyManifest) /\ Len(releases) \in Nat
             /\ Len(releases') = Len(releases) + 1
             /\ \A v \in 1..Len(releases) : releases'[v] = releases[v]
  BY <1>2
<1> QED
  BY <1>1, <1>2, LenProperties DEF Grows

LEMMA InsertedGrows ==
  ASSUME releases \in Seq(AnyManifest), NEW v, NEW m \in AnyManifest, Inserted(v, m)
  PROVE  Grows /\ v \in 1..Len(releases') /\ releases'[v] = m /\ v = Len(releases')
<1>1. /\ Len(releases) \in Nat /\ Len(Append(releases, m)) = Len(releases) + 1
      /\ Append(releases, m)[Len(releases) + 1] = m
  OBVIOUS
<1> QED
  BY <1>1 DEF Inserted, Grows, Next1

LEMMA VersionIsKnown ==
  ASSUME NEW m, Known(m)
  PROVE  VersionOf(m) \in DOMAIN releases /\ releases[VersionOf(m)] = m
BY DEF Known, VersionOf

(* The parts of TypeOK.                                                    *)
LEMMA Typed ==
  ASSUME TypeOK
  PROVE  /\ host \in Hosts /\ releases \in Seq(AnyManifest) /\ Len(releases) \in Nat
         /\ DOMAIN releases = 1..Len(releases)
         /\ \A v \in 1..Len(releases) : releases[v] \in AnyManifest
         /\ active \in 0..Len(releases) /\ applied \in 0..Len(releases)
         /\ policy \in {"on", "off", "away"}
         /\ request \in [kind : {"none", "publish", "live", "configure"}, version : Nat,
                         manifest : AnyManifest]
         /\ boot \in [Attempts -> BootT(Len(releases))] /\ sync \in SyncT(Len(releases))
         /\ reports \subseteq 1..Len(releases) /\ activated \subseteq 1..Len(releases)
         /\ running = NoManifest \/ running \in SUBSET (Features \ Unsupported)
         /\ stored \in [Projects -> Nat] /\ ops \in 0..MaxOps /\ faults \in 0..MaxFaults
BY LenProperties, ElementOfSeq DEF TypeOK, AnyManifest, BootT, SyncT

(* A request of an operator.                                               *)
LEMMA OperatorStep ==
  ASSUME TypeOK,
         Publish \/ MakeLive \/ Configure \/ Write \/ (\E v \in DOMAIN releases : Activate(v))
           \/ (\E p \in {"on", "off", "away"} : SetPolicy(p))
  PROVE  /\ Grows /\ active' \in 0..Len(releases')
         /\ policy' \in {"on", "off", "away"}
         /\ request' \in [kind : {"none", "publish", "live", "configure"}, version : Nat,
                          manifest : AnyManifest]
         /\ ops' \in 0..MaxOps
         /\ UNCHANGED <<host, boot, reports, applied, gateway, faults>>
<1> DEFINE Goal ==
      /\ Grows /\ active' \in 0..Len(releases')
      /\ policy' \in {"on", "off", "away"}
      /\ request' \in [kind : {"none", "publish", "live", "configure"}, version : Nat,
                       manifest : AnyManifest]
      /\ ops' \in 0..MaxOps
      /\ UNCHANGED <<host, boot, reports, applied, gateway, faults>>
<1>0. /\ releases \in Seq(AnyManifest) /\ Len(releases) \in Nat
      /\ DOMAIN releases = 1..Len(releases)
      /\ \A v \in 1..Len(releases) : releases[v] \in AnyManifest
      /\ active \in 0..Len(releases) /\ policy \in {"on", "off", "away"}
      /\ request \in [kind : {"none", "publish", "live", "configure"}, version : Nat,
                      manifest : AnyManifest]
      /\ ops \in 0..MaxOps /\ MaxOps \in Nat
  BY Typed, ReleaseAssumption
<1>1. ASSUME NEW kind \in {"publish", "live", "configure"}, NEW m \in AnyManifest, Asks(kind, m)
      PROVE  Goal
  <2>1. [kind |-> kind, version |-> Next1, manifest |-> m]
          \in [kind : {"none", "publish", "live", "configure"}, version : Nat, manifest : AnyManifest]
    BY <1>0 DEF Next1
  <2> QED
    BY <1>0, <1>1, <2>1 DEF Asks, Grows, server
<1>2. CASE Publish
  <2>1. \A m \in Published : m \in AnyManifest
    BY DEF AnyManifest, Features
  <2> QED
    BY <1>1, <1>2, <2>1 DEF Publish
<1>3. CASE MakeLive \/ Configure
  <2>1. active # 0 => releases[active] \in AnyManifest
    BY <1>0
  <2>2. \A m \in AnyManifest : /\ m \cup {Profile} \in AnyManifest
                               /\ m \cup {Setting} \in AnyManifest
                               /\ m \ {Setting} \in AnyManifest
    <3>1. Profile \in Features /\ Setting \in Features
      BY DEF Features
    <3> QED
      BY <3>1 DEF AnyManifest
  <2> QED
    BY <1>1, <1>3, <2>1, <2>2 DEF MakeLive, Configure
<1>4. CASE Write
  <2>1. NoRequest \in [kind : {"none", "publish", "live", "configure"}, version : Nat,
                       manifest : AnyManifest]
    BY DEF NoRequest, AnyManifest
  <2>2. ASSUME Inserted(request.version, request.manifest)
        PROVE  /\ Grows /\ request.version \in 0..Len(releases')
               /\ active \in 0..Len(releases')
    <3>1. request.manifest \in AnyManifest
      BY <1>0
    <3> QED
      BY <1>0, <2>2, <3>1, InsertedGrows, Growth
  <2>3. ASSUME Written PROVE Grows /\ active' \in 0..Len(releases')
    BY <1>0, <2>2, <2>3, VersionIsKnown DEF Written, Grows
  <2>4. ASSUME Conflict PROVE Grows /\ active' \in 0..Len(releases')
    BY <1>0, <2>4 DEF Conflict, Grows
  <2>5. Grows /\ active' \in 0..Len(releases')
    BY <1>4, <2>3, <2>4 DEF Write
  <2> QED
    BY <1>0, <1>4, <2>1, <2>5 DEF Write
<1>5. ASSUME NEW v \in DOMAIN releases, Activate(v) PROVE Goal
  BY <1>0, <1>5 DEF Activate, Grows
<1>6. ASSUME NEW p \in {"on", "off", "away"}, SetPolicy(p) PROVE Goal
  BY <1>0, <1>6 DEF SetPolicy, Grows, server
<1> QED
  BY <1>2, <1>3, <1>4, <1>5, <1>6

LEMMA SyncEdits ==
  ASSUME NEW n \in Nat, NEW y \in SyncT(n), NEW at
  PROVE  /\ [y EXCEPT !.at = at] = [at |-> at, version |-> y.version, manifest |-> y.manifest,
                                    local |-> y.local]
         /\ \A l : [y EXCEPT !.at = at, !.local = l]
                     = [at |-> at, version |-> y.version, manifest |-> y.manifest, local |-> l]
         /\ \A v, m : [y EXCEPT !.at = at, !.version = v, !.manifest = m]
                     = [at |-> at, version |-> v, manifest |-> m, local |-> y.local]
         /\ y.version \in 0..n /\ y.manifest \in AnyManifest /\ y.local \in Nat
<1>1. [y EXCEPT !.at = at] = [at |-> at, version |-> y.version, manifest |-> y.manifest,
                              local |-> y.local]
  BY DEF SyncT
<1> DEFINE z == [y EXCEPT !.at = at]
<1>2. ASSUME NEW l
      PROVE  [y EXCEPT !.at = at, !.local = l]
               = [at |-> at, version |-> y.version, manifest |-> y.manifest, local |-> l]
  <2>1. [y EXCEPT !.at = at, !.local = l] = [z EXCEPT !.local = l]
    OBVIOUS
  <2>2. z = [at |-> at, version |-> y.version, manifest |-> y.manifest, local |-> y.local]
    BY <1>1
  <2> HIDE DEF z
  <2> QED
    BY <2>1, <2>2
<1>3. ASSUME NEW v, NEW m
      PROVE  [y EXCEPT !.at = at, !.version = v, !.manifest = m]
               = [at |-> at, version |-> v, manifest |-> m, local |-> y.local]
  <2> DEFINE x == [z EXCEPT !.version = v]
  <2>0. [y EXCEPT !.at = at, !.version = v, !.manifest = m] = [x EXCEPT !.manifest = m]
    OBVIOUS
  <2>1. z = [at |-> at, version |-> y.version, manifest |-> y.manifest, local |-> y.local]
    BY <1>1
  <2> HIDE DEF z
  <2>2. x = [at |-> at, version |-> v, manifest |-> y.manifest, local |-> y.local]
    BY <2>1
  <2> HIDE DEF x
  <2> QED
    BY <2>0, <2>2
<1>4. y.version \in 0..n /\ y.manifest \in AnyManifest /\ y.local \in Nat
  BY DEF SyncT
<1> QED
  BY <1>1, <1>2, <1>3, <1>4

(* A step of bootstrap_agent_gateway_runtime_release: if the Gateway still *)
(* waits for the answer it is told nothing, or of the release that has its *)
(* manifest.                                                               *)
Told(k, v) ==
  /\ sync.at = "asked"
  /\ v \in 1..Len(releases') /\ releases'[v] = boot[k].manifest
  /\ sync' = [at |-> "save", version |-> v, manifest |-> boot[k].manifest, local |-> sync.local]

Answered(k) ==
  /\ sync' \in SyncT(Len(releases'))
  /\ sync' = sync \/ (sync.at = "asked" /\ sync' = NoSync) \/ \E v \in Nat : Told(k, v)

BootsOn(k, b) ==
  /\ boot' = [boot EXCEPT ![k] = b]
  /\ b \in BootT(Len(releases')) /\ BootCarries(b, releases')

LEMMA BootKept ==
  ASSUME TypeOK, CarriesReleases, Grows, NEW k \in Attempts, NEW b, BootsOn(k, b)
  PROVE  /\ boot' \in [Attempts -> BootT(Len(releases'))]
         /\ \A j \in Attempts : BootCarries(boot'[j], releases')
<1>1. /\ boot \in [Attempts -> BootT(Len(releases'))] /\ boot \in [Attempts -> BootT(Len(releases))]
      /\ DOMAIN releases = 1..Len(releases) /\ DOMAIN releases' = 1..Len(releases')
      /\ \A v \in 1..Len(releases) : v \in 1..Len(releases') /\ releases'[v] = releases[v]
  BY Typed, Growth, Widen
<1>2. boot' \in [Attempts -> BootT(Len(releases'))]
  BY <1>1 DEF BootsOn
<1>3. ASSUME NEW j \in Attempts PROVE BootCarries(boot'[j], releases')
  <2>1. CASE j = k
    BY <1>1, <2>1 DEF BootsOn
  <2>2. CASE j # k
    <3>1. boot'[j] = boot[j]
      BY <1>1, <2>2 DEF BootsOn
    <3> QED
      BY <1>1, <3>1 DEF CarriesReleases, BootCarries
  <2> QED
    BY <2>1, <2>2
<1> QED
  BY <1>2, <1>3

LEMMA ReplyStep ==
  ASSUME TypeOK, Grows, NEW k \in Attempts, NEW v, BootReply(k, v),
         v # 0 => v \in 1..Len(releases') /\ releases'[v] = boot[k].manifest
  PROVE  Answered(k) /\ BootsOn(k, NoBoot)
<1>0. /\ boot[k] \in BootT(Len(releases)) /\ sync \in SyncT(Len(releases'))
      /\ Len(releases') \in Nat
  BY Typed, Growth, Widen
<1>1. boot[k].manifest \in AnyManifest
  BY <1>0, Typed DEF BootT
<1>2. ASSUME v # 0, sync.at = "asked", k = faults
      PROVE  Told(k, v) /\ v \in Nat /\ sync' \in SyncT(Len(releases'))
  <2>1. v \in 0..Len(releases') /\ sync.local \in Nat
    BY <1>0, <1>2 DEF SyncT
  <2>2. sync' = [sync EXCEPT !.at = "save", !.version = v, !.manifest = boot[k].manifest]
    BY <1>2 DEF BootReply
  <2>3. sync' = [at |-> "save", version |-> v, manifest |-> boot[k].manifest, local |-> sync.local]
    BY <1>0, <2>2 DEF SyncT
  <2> QED
    BY <1>0, <1>1, <1>2, <2>1, <2>3 DEF Told, SyncT
<1>3. \/ sync' = sync
      \/ sync.at = "asked" /\ k = faults /\ (v # 0 \/ sync' = NoSync)
  BY DEF BootReply
<1>4. Answered(k)
  BY <1>0, <1>2, <1>3, NoneType DEF Answered
<1>5. BootsOn(k, NoBoot)
  BY <1>0, NoneType DEF BootReply, BootsOn, BootCarries, NoBoot
<1> QED
  BY <1>4, <1>5

LEMMA BootEdits ==
  ASSUME NEW n \in Nat, NEW b \in BootT(n)
  PROVE  /\ \A at, c : [b EXCEPT !.at = at, !.active = c]
                     = [at |-> at, manifest |-> b.manifest, active |-> c, version |-> b.version]
         /\ \A at, m : [b EXCEPT !.at = at, !.manifest = m]
                     = [at |-> at, manifest |-> m, active |-> b.active, version |-> b.version]
         /\ \A at, w : [b EXCEPT !.at = at, !.version = w]
                     = [at |-> at, manifest |-> b.manifest, active |-> b.active, version |-> w]
         /\ [b EXCEPT !.at = "activate"]
              = [at |-> "activate", manifest |-> b.manifest, active |-> b.active, version |-> b.version]
         /\ b.manifest \in AnyManifest /\ b.active \in 0..n /\ b.version \in Nat
<1>1. \A at : [b EXCEPT !.at = at]
               = [at |-> at, manifest |-> b.manifest, active |-> b.active, version |-> b.version]
  BY DEF BootT
<1>2. ASSUME NEW at, NEW c
      PROVE  /\ [b EXCEPT !.at = at, !.active = c]
                   = [at |-> at, manifest |-> b.manifest, active |-> c, version |-> b.version]
             /\ [b EXCEPT !.at = at, !.manifest = c]
                   = [at |-> at, manifest |-> c, active |-> b.active, version |-> b.version]
             /\ [b EXCEPT !.at = at, !.version = c]
                   = [at |-> at, manifest |-> b.manifest, active |-> b.active, version |-> c]
  <2> DEFINE z == [b EXCEPT !.at = at]
  <2>1. /\ [b EXCEPT !.at = at, !.active = c] = [z EXCEPT !.active = c]
        /\ [b EXCEPT !.at = at, !.manifest = c] = [z EXCEPT !.manifest = c]
        /\ [b EXCEPT !.at = at, !.version = c] = [z EXCEPT !.version = c]
    OBVIOUS
  <2>2. z = [at |-> at, manifest |-> b.manifest, active |-> b.active, version |-> b.version]
    BY <1>1
  <2> HIDE DEF z
  <2> QED
    BY <2>1, <2>2
<1>3. /\ [b EXCEPT !.at = "activate"]
           = [at |-> "activate", manifest |-> b.manifest, active |-> b.active, version |-> b.version]
      /\ b.manifest \in AnyManifest /\ b.active \in 0..n /\ b.version \in Nat
  BY <1>1 DEF BootT
<1> QED
  BY <1>2, <1>3

LEMMA BootStep ==
  ASSUME TypeOK, CarriesReleases, NEW k \in Attempts, Bootstrap(k)
  PROVE  /\ Grows /\ active' \in 0..Len(releases')
         /\ \E b : BootsOn(k, b)
         /\ Answered(k)
         /\ UNCHANGED <<host, operators, reports, applied, store, stored, running, activated, faults>>
<1> DEFINE Active == Grows /\ active' \in 0..Len(releases')
           Goal == Active /\ (\E b : BootsOn(k, b)) /\ Answered(k)
           on == boot[k]
<1> SUFFICES Goal
  BY DEF Bootstrap
<1>0. /\ releases \in Seq(AnyManifest) /\ Len(releases) \in Nat
      /\ DOMAIN releases = 1..Len(releases) /\ active \in 0..Len(releases)
      /\ on \in BootT(Len(releases)) /\ sync \in SyncT(Len(releases))
      /\ on.manifest \in AnyManifest /\ on.active \in 0..Len(releases) /\ on.version \in Nat
      /\ BootCarries(on, releases)
  <2>1. on \in BootT(Len(releases)) /\ BootCarries(on, releases)
    BY Typed DEF CarriesReleases
  <2> QED
    BY <2>1, Typed, BootEdits
<1> HIDE DEF on
<1>1. ASSUME NEW v, BootReply(k, v), Grows,
             v # 0 => v \in 1..Len(releases') /\ releases'[v] = boot[k].manifest
      PROVE  (\E b : BootsOn(k, b)) /\ Answered(k)
  BY <1>1, ReplyStep
<1>2. ASSUME UNCHANGED <<releases, active>> PROVE Active
  BY <1>0, <1>2 DEF Grows
<1>3. ASSUME NEW b, BootGoesOn(k, b), Active,
             b \in BootT(Len(releases')), BootCarries(b, releases')
      PROVE  Goal
  <2>1. sync' = sync /\ sync \in SyncT(Len(releases'))
    BY <1>0, <1>3, Growth, Widen DEF BootGoesOn
  <2> QED
    BY <1>3, <2>1 DEF BootGoesOn, BootsOn, Answered
<1>4. CASE BootDeployment(k)
  <2>1. releases' = releases /\ Active
    BY <1>2, <1>4 DEF BootDeployment
  <2>2. CASE policy = "on"
    <3> DEFINE b == [on EXCEPT !.at = "releases", !.active = active]
    <3>1. b = [at |-> "releases", manifest |-> on.manifest, active |-> active, version |-> on.version]
      <4>1. \A at, c : [on EXCEPT !.at = at, !.active = c]
                    = [at |-> at, manifest |-> on.manifest, active |-> c, version |-> on.version]
        <5>1. Len(releases) \in Nat /\ on \in BootT(Len(releases))
          BY <1>0
        <5> QED
          BY <5>1, BootEdits
      <4> QED
        BY <4>1
    <3>2. b \in BootT(Len(releases)) /\ BootCarries(b, releases)
      BY <1>0, <3>1 DEF BootT, BootCarries
    <3>3. BootGoesOn(k, b)
      BY <1>4, <2>2 DEF BootDeployment, on
    <3> HIDE DEF b
    <3> QED
      BY <1>3, <2>1, <3>2, <3>3
  <2>3. CASE policy # "on"
    BY <1>1, <1>4, <2>1, <2>3 DEF BootDeployment
  <2> QED
    BY <2>2, <2>3
<1>5. CASE BootReleases(k)
  <2>0. releases' = releases /\ Active
    BY <1>2, <1>5 DEF BootReleases
  <2>1. CASE Known(on.manifest) /\ on.active = 0
    <3>1. /\ VersionOf(on.manifest) \in 1..Len(releases)
          /\ releases[VersionOf(on.manifest)] = on.manifest
      BY <1>0, <2>1, VersionIsKnown
    <3>2. BootGoesOn(k, [on EXCEPT !.at = "activate", !.version = VersionOf(on.manifest)])
      BY <1>0, <1>5, <2>1, <3>1 DEF BootReleases, on
    <3> DEFINE b == [on EXCEPT !.at = "activate", !.version = VersionOf(on.manifest)]
    <3>3. b = [at |-> "activate", manifest |-> on.manifest, active |-> on.active,
               version |-> VersionOf(on.manifest)]
      BY <1>0, BootEdits
    <3>4. b \in BootT(Len(releases)) /\ BootCarries(b, releases)
      BY <1>0, <3>1, <3>3 DEF BootT, BootCarries
    <3> HIDE DEF b
    <3> QED
      BY <1>3, <2>0, <3>2, <3>4 DEF b
  <2>2. CASE Known(on.manifest) /\ on.active # 0
    <3>1. \/ BootReply(k, VersionOf(on.manifest))
          \/ BootReply(k, 0)
      BY <1>5, <2>2 DEF BootReleases, on
    <3>2. /\ VersionOf(on.manifest) \in 1..Len(releases)
          /\ releases[VersionOf(on.manifest)] = on.manifest
      BY <1>0, <2>2, VersionIsKnown
    <3> QED
      BY <1>1, <2>0, <3>1, <3>2 DEF on
  <2>3. CASE ~ Known(on.manifest)
    <3>1. CASE releases # <<>> \/ on.active # 0
      BY <1>1, <1>5, <2>0, <2>3, <3>1 DEF BootReleases, on
    <3>2. CASE ~ (releases # <<>> \/ on.active # 0)
      <4> DEFINE b == [on EXCEPT !.at = "create", !.version = 1]
      <4>1. b = [at |-> "create", manifest |-> on.manifest, active |-> on.active, version |-> 1]
        BY <1>0, BootEdits
      <4>2. b \in BootT(Len(releases)) /\ BootCarries(b, releases)
        BY <1>0, <4>1 DEF BootT, BootCarries
      <4>3. BootGoesOn(k, b)
        BY <1>5, <2>3, <3>2 DEF BootReleases, on
      <4> HIDE DEF b
      <4> QED
        BY <1>3, <2>0, <4>2, <4>3
    <3> QED
      BY <3>1, <3>2
  <2> QED
    BY <2>1, <2>2, <2>3
<1>6. CASE BootCreate(k)
  <2>1. CASE Inserted(1, on.manifest) /\ BootGoesOn(k, [on EXCEPT !.at = "activate"])
    <3>1. Grows /\ 1 \in 1..Len(releases') /\ releases'[1] = on.manifest
      BY <1>0, <2>1, InsertedGrows
    <3>2. Len(releases') \in Nat /\ Len(releases) <= Len(releases') /\ DOMAIN releases' = 1..Len(releases')
      BY <1>0, <3>1, Growth
    <3>3. on \in BootT(Len(releases')) /\ on.version = 1 /\ Active
      BY <1>0, <1>6, <3>1, <3>2, Widen DEF BootCreate, BootCarries, on
    <3> DEFINE b == [on EXCEPT !.at = "activate"]
    <3>4. b = [at |-> "activate", manifest |-> on.manifest, active |-> on.active, version |-> 1]
      BY <3>2, <3>3, BootEdits
    <3>5. b \in BootT(Len(releases')) /\ BootCarries(b, releases')
      BY <3>1, <3>2, <3>3, <3>4 DEF BootT, BootCarries
    <3> HIDE DEF b
    <3> QED
      BY <1>3, <2>1, <3>3, <3>5 DEF b
  <2>2. CASE BootReply(k, 0) /\ UNCHANGED releases
    BY <1>1, <1>2, <1>6, <2>2 DEF BootCreate, Grows
  <2> QED
    BY <1>6, <2>1, <2>2 DEF BootCreate, on
<1>7. CASE BootActivate(k)
  <2>1. releases' = releases /\ active' = on.version /\ BootReply(k, on.version) /\ Grows
    BY <1>7 DEF BootActivate, Grows, on
  <2>2. on.version \in 1..Len(releases) /\ releases[on.version] = on.manifest
    BY <1>0, <1>7 DEF BootActivate, BootCarries, on
  <2> QED
    BY <1>0, <1>1, <2>1, <2>2 DEF on
<1> QED
  BY <1>4, <1>5, <1>6, <1>7 DEF Bootstrap

-----------------------------------------------------------------------------
(* The store of the Gateway *)

StoreT(st) ==
  /\ DOMAIN st = Projects
  /\ \A p \in Projects : /\ DOMAIN st[p] \subseteq Nat \ {0}
                         /\ st[p] \in [DOMAIN st[p] -> AnyManifest]

(* Saving a release adds it or leaves all as it is.                        *)
LEMMA SavedStore ==
  ASSUME TypeOK, NEW p \in Projects, NEW v \in Nat \ {0}, NEW m \in AnyManifest, Saved(p, v, m)
  PROVE  /\ StoreT(store')
         /\ DOMAIN store'[p] = DOMAIN store[p] \cup {v}
         /\ store'[p][v] = m
         /\ \A w \in DOMAIN store[p] : store'[p][w] = store[p][w]
         /\ \A q \in Projects : q # p => store'[q] = store[q]
<1>0. StoreT(store)
  BY DEF TypeOK, StoreT, AnyManifest
<1> DEFINE f == [w \in DOMAIN store[p] \cup {v} |-> IF w = v THEN m ELSE store[p][w]]
<1>1. store' = [store EXCEPT ![p] = f]
  BY DEF Saved
<1>2. /\ DOMAIN f = DOMAIN store[p] \cup {v} /\ f[v] = m
      /\ \A w \in DOMAIN store[p] : f[w] = store[p][w]
  BY DEF Saved, Saveable
<1>3. f \in [DOMAIN f -> AnyManifest]
  BY <1>0 DEF StoreT
<1> HIDE DEF f
<1>4. /\ DOMAIN store' = Projects /\ store'[p] = f
      /\ \A q \in Projects : q # p => store'[q] = store[q]
  BY <1>0, <1>1 DEF StoreT
<1>5. \A q \in Projects : /\ DOMAIN store'[q] \subseteq Nat \ {0}
                          /\ store'[q] \in [DOMAIN store'[q] -> AnyManifest]
  BY <1>0, <1>2, <1>3, <1>4 DEF StoreT
<1> QED
  BY <1>2, <1>4, <1>5 DEF StoreT

(* The version that is installed is free, or has that very release.        *)
LEMMA LocalVersionFits ==
  ASSUME TypeOK, LocalKept, NEW v \in Nat \ {0}, NEW m
  PROVE  LocalVersion(v, m) \in Nat \ {0} /\ Saveable(LocalId, LocalVersion(v, m), m)
<1>1. Installed \subseteq Nat \ {0}
  BY DEF TypeOK, Installed, Projects
<1>2. PICK n \in Nat : \A i \in Installed : i <= n
  BY DEF LocalKept
<1> DEFINE same == {i \in Installed : store[LocalId][i] = m}
<1>3. CASE same # {}
  <2>1. \E i \in same : \A j \in same : i >= j
    <3>1. same \in SUBSET Nat /\ \A i \in same : i <= n
      BY <1>1, <1>2
    <3> HIDE DEF same
    <3> QED
      BY <1>3, <3>1, GreatestExists
  <2>2. LocalVersion(v, m) = CHOOSE i \in same : \A j \in same : i >= j
    BY <1>3 DEF LocalVersion
  <2>3. LocalVersion(v, m) \in same
    <3> HIDE DEF same
    <3> QED
      BY <2>1, <2>2
  <2> QED
    BY <1>1, <2>3 DEF Saveable, Installed
<1>4. CASE same = {}
  <2>1. \A i \in Installed : store[LocalId][i] # m
    BY <1>4
  <2>2. ASSUME LocalVersion(v, m) \in Nat \ {0}, LocalVersion(v, m) \notin Installed
        PROVE  Saveable(LocalId, LocalVersion(v, m), m)
    BY <2>1, <2>2 DEF Saveable, Installed
  <2>3. CASE v \in Installed
    <3>1. \E i \in Installed : \A j \in Installed : i >= j
      BY <1>1, <1>2, <2>3, GreatestExists
    <3> DEFINE g == CHOOSE i \in Installed : \A j \in Installed : i >= j
    <3>2. LocalVersion(v, m) = 1 + g
      BY <1>4, <2>3 DEF LocalVersion
    <3>3. g \in Installed /\ \A j \in Installed : g >= j
      BY <3>1
    <3> HIDE DEF g
    <3>4. g \in Nat /\ 1 + g \notin Installed
      BY <1>1, <3>3
    <3> QED
      BY <2>2, <3>2, <3>4
  <2>4. CASE v \notin Installed
    <3>1. LocalVersion(v, m) = v
      BY <1>4, <2>4 DEF LocalVersion
    <3> QED
      BY <2>2, <2>4, <3>1
  <2> QED
    BY <2>3, <2>4
<1> QED
  BY <1>3, <1>4

(* What Install saves.                                                     *)
LEMMA InstallStep ==
  ASSUME TypeOK, CarriesReleases, RunsEmbedded, LocalKept, Install
  PROVE  \E v \in Nat \ {0}, m \in AnyManifest :
           /\ Saved(LocalId, v, m)
           /\ sync' = [at |-> "apply", version |-> sync.version, manifest |-> sync.manifest, local |-> v]
<1>0. /\ sync \in SyncT(Len(releases)) /\ sync.at = "install" /\ Len(releases) \in Nat
      /\ DOMAIN releases = 1..Len(releases)
  BY Typed DEF Install
<1>1. sync.version \in Nat \ {0} /\ sync.manifest \in AnyManifest
  BY <1>0, Typed DEF CarriesReleases, HasRelease
<1>2. running \in AnyManifest
  BY <1>0, Typed DEF RunsEmbedded, AnyManifest
<1> DEFINE m == Localised(sync.manifest)
           v == LocalVersion(sync.version, m)
<1>3. m \in AnyManifest
  BY <1>1, <1>2 DEF Localised, Rebound, AnyManifest
<1>4. v \in Nat \ {0}
  BY <1>1, LocalVersionFits
<1>5. Saved(LocalId, v, m) /\ sync' = [sync EXCEPT !.at = "apply", !.local = v]
  BY DEF Install
<1> HIDE DEF v, m
<1>6. sync' = [at |-> "apply", version |-> sync.version, manifest |-> sync.manifest, local |-> v]
  BY <1>0, <1>5, SyncEdits
<1> QED
  BY <1>3, <1>4, <1>5, <1>6

-----------------------------------------------------------------------------
(* Types *)

LEMMA InitInv == Init => Inv
<1> SUFFICES ASSUME Init PROVE Inv
  OBVIOUS
<1>1. StoreT(store) /\ \A p \in Projects : DOMAIN store[p] = {}
  BY DEF Init, StoreT, Projects
<1>2. {} \in AnyManifest
  BY DEF AnyManifest
<1>3. TypeOK
  BY <1>1, <1>2, ReleaseAssumption
     DEF Init, TypeOK, StoreT, AnyManifest, NoRequest, NoBoot, NoSync
<1>4. DOMAIN store[Slug] = {} /\ Installed = {}
  BY <1>1 DEF Projects, Installed
<1>5. VersionsAgree
  BY <1>4 DEF Init, VersionsAgree
<1>6. CarriesReleases /\ ReportsApplied /\ RunsEmbedded /\ ReportedSurvives
  BY DEF Init, CarriesReleases, BootCarries, ReportsApplied, ReportedWasApplied, RunsEmbedded,
         ReportedSurvives, NoSync, NoBoot, HasRelease, Projects
<1>7. LocalKept
  <2>1. 0 \in Nat /\ \A v \in Installed : v <= 0
    BY <1>4
  <2> QED
    BY <2>1, ReleaseAssumption DEF Init, LocalKept, NoSync, HasRelease, Projects
<1> QED
  BY <1>3, <1>5, <1>6, <1>7 DEF Inv

ServerT ==
  /\ host \in Hosts
  /\ releases \in Seq(AnyManifest)
  /\ active \in 0..Len(releases) /\ applied \in 0..Len(releases)
  /\ policy \in {"on", "off", "away"}
  /\ request \in [kind : {"none", "publish", "live", "configure"}, version : Nat,
                  manifest : AnyManifest]
  /\ boot \in [Attempts -> BootT(Len(releases))]
  /\ reports \subseteq 1..Len(releases)
  /\ ops \in 0..MaxOps /\ faults \in 0..MaxFaults

GatewayT ==
  /\ StoreT(store)
  /\ stored \in [Projects -> Nat]
  /\ running = NoManifest \/ running \in SUBSET (Features \ Unsupported)
  /\ sync \in SyncT(Len(releases))
  /\ activated \subseteq 1..Len(releases)

LEMMA TypeParts == TypeOK <=> ServerT /\ GatewayT
BY DEF TypeOK, ServerT, GatewayT, StoreT, BootT, SyncT, AnyManifest

(* A manifest that can be applied runs.                                    *)
LEMMA AppliedType ==
  ASSUME NEW m \in AnyManifest, Applied(m)
  PROVE  running' = m /\ running' # NoManifest /\ running' \in SUBSET (Features \ Unsupported)
BY ReleaseAssumption DEF Applied, AnyManifest

(* What the host starts with: its own manifest, or a release of its file.  *)
LEMMA StartStep ==
  ASSUME TypeOK, LocalKept, Start
  PROVE  /\ Embedded /\ running = NoManifest /\ sync = NoSync
         /\ \/ /\ \E m \in AnyManifest : Applied(m)
               /\ UNCHANGED <<store, sync>>
            \/ /\ UNCHANGED running
               /\ sync' \in SyncT(Len(releases))
               /\ sync'.at = "apply" /\ sync'.version = 0
               /\ \/ sync'.local \in Installed /\ UNCHANGED store
                  \/ \E m \in AnyManifest : Saved(LocalId, sync'.local, m) /\ sync'.local \in Nat \ {0}
         /\ UNCHANGED <<host, operators, server, stored, activated, faults>>
<1>1. HostManifest \in AnyManifest
  BY DEF AnyManifest, Features
<1>2. NoSync \in SyncT(Len(releases)) /\ LocalId \in Projects
  BY Typed, NoneType DEF Projects
<1>3. \A v \in Nat : /\ Activation(v) \in SyncT(Len(releases))
                     /\ Activation(v).at = "apply" /\ Activation(v).version = 0
                     /\ Activation(v).local = v
  BY <1>2 DEF Activation, NoSync, SyncT
<1>4. stored[LocalId] \in Nat /\ (stored[LocalId] # 0 => stored[LocalId] \in Installed)
  BY <1>2, Typed DEF LocalKept
<1>5. 1 \in Nat \ {0}
  OBVIOUS
<1>6. CASE host = "apply"
  BY <1>1, <1>6 DEF Start
<1>7. CASE host # "apply" /\ stored[LocalId] # 0
  BY <1>3, <1>4, <1>7 DEF Start
<1>8. CASE host # "apply" /\ stored[LocalId] = 0
  BY <1>1, <1>3, <1>5, <1>8 DEF Start
<1> QED
  BY <1>6, <1>7, <1>8 DEF Start

(* What Fetch asks with: the manifest that runs.                           *)
LEMMA FetchBoot ==
  ASSUME TypeOK, Fetch
  PROVE  \E b : /\ b \in BootT(Len(releases)) /\ b.at \in {"idle", "deployment"}
                /\ boot' \in {boot, [boot EXCEPT ![faults] = b]}
<1>1. CASE running # NoManifest
  <2> DEFINE b == [NoBoot EXCEPT !.at = "deployment", !.manifest = running]
  <2>1. running \in AnyManifest /\ Len(releases) \in Nat
    BY <1>1, Typed DEF AnyManifest
  <2>0. b = [at |-> "deployment", manifest |-> running, active |-> NoBoot.active,
             version |-> NoBoot.version]
    BY <2>1, NoneType, BootEdits
  <2>2. b \in BootT(Len(releases)) /\ b.at = "deployment"
    BY <2>0, <2>1 DEF BootT, NoBoot
  <2>3. boot' \in {boot, [boot EXCEPT ![faults] = b]}
    BY DEF Fetch
  <2> HIDE DEF b
  <2> QED
    BY <2>2, <2>3
<1>2. CASE running = NoManifest
  <2>1. boot' = boot
    BY <1>2 DEF Fetch, Due
  <2>2. NoBoot \in BootT(Len(releases)) /\ NoBoot.at = "idle"
    BY Typed, NoneType DEF NoBoot
  <2> QED
    BY <2>1, <2>2
<1> QED
  BY <1>1, <1>2

LEMMA NextServer ==
  ASSUME Inv, [Next]_vars PROVE Grows /\ ServerT' /\ host' = host
<1>0. ServerT /\ TypeOK /\ Len(releases) \in Nat /\ sync \in SyncT(Len(releases))
      /\ DOMAIN releases = 1..Len(releases)
      /\ NoBoot \in BootT(Len(releases)) /\ MaxFaults \in Nat /\ faults \in Attempts
  BY TypeParts, Typed, NoneType, ReleaseAssumption DEF Inv, Attempts
<1>1. ASSUME Grows, active' \in 0..Len(releases'), boot' \in [Attempts -> BootT(Len(releases'))],
             policy' \in {"on", "off", "away"},
             request' \in [kind : {"none", "publish", "live", "configure"}, version : Nat,
                           manifest : AnyManifest],
             ops' \in 0..MaxOps, UNCHANGED <<host, reports, applied, faults>>
      PROVE  ServerT'
  BY <1>0, <1>1, Growth DEF ServerT
<1>2. CASE \/ Publish \/ MakeLive \/ Configure \/ Write \/ (\E v \in DOMAIN releases : Activate(v))
           \/ (\E p \in {"on", "off", "away"} : SetPolicy(p))
  <2>1. boot \in [Attempts -> BootT(Len(releases'))]
    BY <1>0, <1>2, OperatorStep, Growth, Widen DEF ServerT
  <2> QED
    BY <1>0, <1>1, <1>2, <2>1, OperatorStep
<1>3. ASSUME NEW k \in Attempts, Bootstrap(k) PROVE Grows /\ ServerT' /\ host' = host
  <2>1. PICK b : BootsOn(k, b)
    BY <1>0, <1>3, BootStep DEF Inv
  <2>2. Grows /\ boot' \in [Attempts -> BootT(Len(releases'))]
    BY <1>0, <1>3, <2>1, BootStep, BootKept DEF Inv
  <2> QED
    BY <1>0, <1>1, <1>3, <2>2, BootStep DEF operators, Inv, ServerT
<1>4. ASSUME NEW v \in reports, Record(v) PROVE Grows /\ ServerT' /\ host' = host
  BY <1>0, <1>4 DEF Record, operators, ServerT, Grows
<1>5. ASSUME UNCHANGED <<host, operators, releases, active, applied>>,
             reports' \subseteq 1..Len(releases), boot' \in [Attempts -> BootT(Len(releases))],
             faults' \in 0..MaxFaults
      PROVE  Grows /\ ServerT' /\ host' = host
  BY <1>0, <1>5 DEF operators, ServerT, Grows
<1>6. CASE Synchronise
  <2>1. boot' \in [Attempts -> BootT(Len(releases))]
    <3>1. CASE Fetch
      <4>1. PICK b : b \in BootT(Len(releases)) /\ boot' \in {boot, [boot EXCEPT ![faults] = b]}
        BY <1>0, <3>1, FetchBoot DEF Inv
      <4> QED
        BY <1>0, <4>1 DEF ServerT
    <3>2. CASE Save \/ Install \/ Apply \/ StoreLocal \/ StoreRemote
      BY <1>0, <3>2 DEF Save, Install, Apply, StoreLocal, StoreRemote, ServerT
    <3> QED
      BY <1>6, <3>1, <3>2 DEF Synchronise
  <2> QED
    BY <1>0, <1>5, <1>6, <2>1 DEF Synchronise, ServerT
<1>7. CASE Report
  <2>1. sync.version \in 1..Len(releases)
    BY <1>0, <1>7 DEF Report, Inv, CarriesReleases, HasRelease
  <2> QED
    BY <1>0, <1>5, <1>7, <2>1 DEF Report, ServerT
<1>8. CASE Lost
  <2>1. /\ boot' \in {boot, [boot EXCEPT ![faults] = NoBoot]}
        /\ reports' \subseteq reports /\ faults' \in 0..MaxFaults
    BY <1>0, <1>8 DEF Lost, ServerT
  <2>2. boot' \in [Attempts -> BootT(Len(releases))]
    BY <1>0, <2>1 DEF ServerT
  <2> QED
    BY <1>0, <1>5, <1>8, <2>1, <2>2 DEF Lost, ServerT
<1>9. CASE Start \/ Crash \/ UNCHANGED vars
  <2>1. UNCHANGED <<host, operators, releases, active, boot, reports, applied>>
    BY <1>9 DEF Start, Crash, vars, server, operators
  <2>2. faults' \in 0..MaxFaults
    BY <1>0, <1>9 DEF Start, Crash, vars, ServerT
  <2> QED
    BY <1>0, <1>5, <2>1, <2>2 DEF ServerT
<1> QED
  BY <1>2, <1>3, <1>4, <1>6, <1>7, <1>8, <1>9 DEF Next

LEMMA NextGateway ==
  ASSUME Inv, [Next]_vars, Grows PROVE GatewayT'
<1>0. /\ TypeOK /\ GatewayT /\ Len(releases) \in Nat /\ Len(releases') \in Nat
      /\ DOMAIN releases = 1..Len(releases)
      /\ 1..Len(releases) \subseteq 1..Len(releases')
      /\ sync \in SyncT(Len(releases')) /\ NoSync \in SyncT(Len(releases'))
      /\ SyncT(Len(releases)) \subseteq SyncT(Len(releases'))
  BY TypeParts, Typed, Growth, Widen, NoneType DEF Inv
<1>1. ASSUME sync' \in SyncT(Len(releases')), UNCHANGED <<store, stored, running, activated>>
      PROVE  GatewayT'
  BY <1>0, <1>1 DEF GatewayT, StoreT
<1>2. CASE \/ Publish \/ MakeLive \/ Configure \/ Write \/ (\E v \in DOMAIN releases : Activate(v))
           \/ (\E p \in {"on", "off", "away"} : SetPolicy(p))
  BY <1>0, <1>1, <1>2, OperatorStep DEF gateway
<1>3. ASSUME NEW k \in Attempts, Bootstrap(k) PROVE GatewayT'
  BY <1>1, <1>3, BootStep DEF Inv, Answered
<1>4. ASSUME NEW v \in reports, Record(v) PROVE GatewayT'
  BY <1>0, <1>1, <1>4 DEF Record
<1>5. CASE Fetch /\ Synchronise
  <2>1. releases' = releases /\ UNCHANGED <<store, stored, running, activated>>
    BY <1>5 DEF Fetch, Synchronise
  <2>2. CASE /\ active # 0
             /\ sync' = [at |-> "save", version |-> active, manifest |-> releases[active], local |-> 0]
    <3>1. active \in 0..Len(releases) /\ releases[active] \in AnyManifest
      BY <1>0, <2>2, Typed
    <3>2. sync' \in SyncT(Len(releases))
      BY <2>2, <3>1 DEF SyncT
    <3> QED
      BY <1>0, <1>1, <2>1, <3>2
  <2>3. CASE sync' = [NoSync EXCEPT !.at = "asked"]
    <3>1. sync' \in SyncT(Len(releases))
      BY <1>0, <2>3 DEF SyncT, NoSync, AnyManifest
    <3> QED
      BY <1>0, <1>1, <2>1, <3>1
  <2> QED
    BY <1>5, <2>2, <2>3 DEF Fetch
<1>6. ASSUME NEW at \in {"install", "apply", "store", "activate", "report", "reported"},
             sync' = [sync EXCEPT !.at = at]
      PROVE  sync' \in SyncT(Len(releases'))
  BY <1>0, <1>6 DEF SyncT
<1>7. CASE Save
  <2>1. CASE Saved(Slug, sync.version, sync.manifest)
    <3>1. sync.version \in Nat \ {0} /\ sync.manifest \in AnyManifest
      BY <1>0, <1>7, Typed DEF Save, Inv, CarriesReleases, HasRelease
    <3>2. StoreT(store')
      BY <1>0, <2>1, <3>1, SavedStore DEF Projects
    <3>3. sync' \in SyncT(Len(releases'))
      BY <1>0, <1>6, <1>7 DEF Save
    <3> QED
      BY <1>0, <1>7, <3>2, <3>3 DEF Save, GatewayT
  <2>2. CASE sync' = NoSync /\ UNCHANGED store
    BY <1>0, <1>1, <1>7, <2>2 DEF Save
  <2> QED
    BY <1>7, <2>1, <2>2 DEF Save
<1>8. CASE Install
  <2>1. PICK v \in Nat \ {0}, m \in AnyManifest :
          /\ Saved(LocalId, v, m)
          /\ sync' = [at |-> "apply", version |-> sync.version, manifest |-> sync.manifest, local |-> v]
    BY <1>8, InstallStep DEF Inv
  <2>2. StoreT(store')
    BY <1>0, <2>1, SavedStore DEF Projects
  <2>3. sync' \in SyncT(Len(releases'))
    BY <1>0, <2>1 DEF SyncT
  <2> QED
    BY <1>0, <1>8, <2>2, <2>3 DEF Install, GatewayT
<1>9. CASE Apply
  <2>1. store[LocalId][sync.local] \in AnyManifest
    <3>1. sync.local \in Installed /\ LocalId \in Projects
      BY <1>9 DEF Apply, Inv, LocalKept, RunsEmbedded, Projects
    <3> QED
      BY <1>0, <3>1 DEF Installed, GatewayT, StoreT
  <2>2. running' = running \/ running' \in SUBSET (Features \ Unsupported)
    BY <1>9, <2>1, AppliedType DEF Apply
  <2>3. sync' \in SyncT(Len(releases'))
    BY <1>0, <1>6, <1>9 DEF Apply
  <2> QED
    BY <1>0, <1>9, <2>2, <2>3 DEF Apply, GatewayT, StoreT
<1>10. CASE StoreLocal \/ StoreRemote
  <2>1. sync' \in SyncT(Len(releases'))
    BY <1>0, <1>6, <1>10 DEF StoreLocal, StoreRemote, Activated
  <2>2. sync.local \in Nat /\ sync.version \in Nat
    BY <1>0 DEF SyncT
  <2>3. stored' \in [Projects -> Nat]
    BY <1>0, <1>10, <2>2 DEF StoreLocal, StoreRemote, SetActive, GatewayT
  <2>4. activated' \subseteq 1..Len(releases')
    <3>1. sync.at = "activate" => sync.version \in 1..Len(releases)
      BY <1>0 DEF Inv, CarriesReleases, HasRelease
    <3> QED
      BY <1>0, <1>10, <3>1 DEF StoreLocal, StoreRemote, GatewayT
  <2> QED
    BY <1>0, <1>10, <2>1, <2>3, <2>4 DEF StoreLocal, StoreRemote, GatewayT, StoreT
<1>11. CASE Report
  BY <1>0, <1>1, <1>6, <1>11 DEF Report
<1>12. CASE Start
  <2>1. stored' = stored /\ activated' = activated /\ releases' = releases
    BY <1>12, StartStep DEF server, Inv
  <2>2. CASE (\E m \in AnyManifest : Applied(m)) /\ UNCHANGED <<store, sync>>
    <3>1. running' \in SUBSET (Features \ Unsupported)
      BY <2>2, AppliedType
    <3> QED
      BY <1>0, <2>1, <2>2, <3>1 DEF GatewayT, StoreT
  <2>3. CASE UNCHANGED <<store, running>> /\ sync' \in SyncT(Len(releases))
    BY <1>0, <2>1, <2>3 DEF GatewayT, StoreT
  <2>4. ASSUME NEW v \in Nat \ {0}, NEW m \in AnyManifest, Saved(LocalId, v, m),
               UNCHANGED running, sync' \in SyncT(Len(releases))
        PROVE  GatewayT'
    <3>1. StoreT(store')
      BY <1>0, <2>4, SavedStore DEF Projects
    <3> QED
      BY <1>0, <2>1, <2>4, <3>1 DEF GatewayT
  <2>5. \/ (\E m \in AnyManifest : Applied(m)) /\ UNCHANGED <<store, sync>>
        \/ UNCHANGED <<store, running>> /\ sync' \in SyncT(Len(releases))
        \/ /\ UNCHANGED running /\ sync' \in SyncT(Len(releases))
           /\ \E v \in Nat \ {0}, m \in AnyManifest : Saved(LocalId, v, m)
    BY <1>0, <1>12, StartStep DEF Inv
  <2> QED
    BY <2>2, <2>3, <2>4, <2>5
<1>13. CASE Lost \/ UNCHANGED vars
  BY <1>0, <1>1, <1>13 DEF Lost, vars, gateway
<1>14. CASE Crash
  BY <1>0, <1>14 DEF Crash, GatewayT, StoreT
<1> QED
  BY <1>2, <1>3, <1>4, <1>5, <1>7, <1>8, <1>9, <1>10, <1>11, <1>12, <1>13, <1>14
     DEF Next, Synchronise

LEMMA NextType ==
  ASSUME Inv, [Next]_vars PROVE TypeOK' /\ Grows /\ host' = host
<1>1. (ServerT /\ GatewayT)' => TypeOK'
  BY DEF TypeOK, ServerT, GatewayT, StoreT, BootT, SyncT, AnyManifest
<1> QED
  BY <1>1, NextServer, NextGateway

-----------------------------------------------------------------------------
(* The invariants *)

(* The store changes when a release is saved: that of the server as it is, *)
(* or the local one.                                                       *)
LEMMA StoreSteps ==
  ASSUME Inv, [Next]_vars
  PROVE  \/ UNCHANGED store
         \/ /\ sync.at = "save" /\ Saved(Slug, sync.version, sync.manifest)
         \/ /\ sync.at \in {"idle", "install"}
            /\ \E v \in Nat \ {0}, m \in AnyManifest : Saved(LocalId, v, m)
<1>1. CASE \/ Publish \/ MakeLive \/ Configure \/ Write \/ (\E v \in DOMAIN releases : Activate(v))
           \/ (\E p \in {"on", "off", "away"} : SetPolicy(p))
  BY <1>1, OperatorStep DEF gateway, Inv
<1>2. CASE Synchronise
  BY <1>2, InstallStep DEF Synchronise, Fetch, Save, Install, Apply, StoreLocal, StoreRemote, Inv
<1>3. CASE Start
  BY <1>3, StartStep DEF Inv, NoSync
<1>4. CASE (\E k \in Attempts : Bootstrap(k)) \/ (\E v \in reports : Record(v)) \/ Report \/ Lost \/ Crash \/ UNCHANGED vars
  BY <1>4 DEF Bootstrap, Record, Report, Lost, Crash, vars, gateway
<1> QED
  BY <1>1, <1>2, <1>3, <1>4 DEF Next

LEMMA NextVersions ==
  ASSUME Inv, Grows, [Next]_vars PROVE VersionsAgree'
<1> DEFINE Saves(v) == v \in DOMAIN releases' /\ store'[Slug][v] = releases'[v]
<1>0. /\ releases \in Seq(AnyManifest) /\ DOMAIN releases = 1..Len(releases)
      /\ Len(releases) \in Nat /\ Len(releases') \in Nat
      /\ \A v \in DOMAIN releases : v \in DOMAIN releases' /\ releases'[v] = releases[v]
  BY Typed, Growth DEF Inv
<1>1. LocalId # Slug => \A v \in DOMAIN store'[Slug] : Saves(v)
  <2>0. SUFFICES ASSUME LocalId # Slug PROVE \A v \in DOMAIN store'[Slug] : Saves(v)
    OBVIOUS
  <2>1. CASE UNCHANGED store
    BY <1>0, <2>0, <2>1 DEF Inv, VersionsAgree
  <2>2. CASE sync.at = "save" /\ Saved(Slug, sync.version, sync.manifest)
    <3>1. sync.version \in DOMAIN releases /\ sync.manifest = releases[sync.version]
      BY <2>2 DEF Inv, CarriesReleases, HasRelease
    <3>2. sync.version \in Nat \ {0} /\ sync.manifest \in AnyManifest
      BY <1>0, <3>1, Typed DEF Inv
    <3>3. /\ DOMAIN store'[Slug] = DOMAIN store[Slug] \cup {sync.version}
          /\ store'[Slug][sync.version] = sync.manifest
          /\ \A w \in DOMAIN store[Slug] : store'[Slug][w] = store[Slug][w]
      BY <2>2, <3>2, SavedStore DEF Inv, Projects
    <3> QED
      BY <1>0, <2>0, <3>1, <3>3 DEF Inv, VersionsAgree
  <2>3. ASSUME NEW v \in Nat \ {0}, NEW m \in AnyManifest, Saved(LocalId, v, m)
        PROVE  store'[Slug] = store[Slug]
    BY <2>0, <2>3, SavedStore DEF Inv, Projects
  <2> QED
    BY <1>0, <2>0, <2>1, <2>2, <2>3, StoreSteps DEF Inv, VersionsAgree
<1>2. ASSUME NEW v \in DOMAIN releases', NEW w \in DOMAIN releases', releases'[v] = releases'[w]
      PROVE  v = w
  <2>1. CASE releases' = releases
    BY <1>2, <2>1 DEF Inv, VersionsAgree
  <2>2. ASSUME NEW m \in AnyManifest, ~ Known(m), releases' = Append(releases, m) PROVE v = w
    <3>1. /\ DOMAIN releases' = 1..(Len(releases) + 1) /\ releases'[Len(releases) + 1] = m
          /\ \A x \in 1..Len(releases) : releases'[x] = releases[x] /\ releases[x] # m
      BY <1>0, <2>2 DEF Known
    <3> QED
      BY <1>0, <1>2, <3>1 DEF Inv, VersionsAgree
  <2> QED
    BY <2>1, <2>2 DEF Grows
<1> QED
  BY <1>1, <1>2 DEF VersionsAgree

(* What a step makes of the synchronisation.                               *)
KeepsRelease == sync'.version = sync.version /\ sync'.manifest = sync.manifest
Follows(at) == sync'.at = at /\ KeepsRelease /\ sync'.local = sync.local

LEMMA SyncSteps ==
  ASSUME Inv, [Next]_vars
  PROVE  \/ sync' = sync
         \/ sync'.at = "idle"
         \/ Fetch /\ sync'.at = "asked"
         \/ /\ Fetch /\ sync'.at = "save" /\ active # 0
            /\ sync'.version = active /\ sync'.manifest = releases[active]
         \/ \E k \in Attempts, v \in Nat : Bootstrap(k) /\ Told(k, v)
         \/ Start /\ running' = running /\ sync'.at = "apply" /\ sync'.version = 0
         \/ /\ Save /\ Saved(Slug, sync.version, sync.manifest) /\ KeepsRelease
            /\ sync'.at = IF Embedded THEN "install" ELSE "activate"
         \/ Install /\ sync'.at = "apply" /\ KeepsRelease
         \/ Apply /\ Follows("store")
         \/ StoreLocal /\ sync.version # 0 /\ Follows("activate")
         \/ StoreRemote /\ Follows("report")
         \/ Report /\ Follows("reported")
<1>0. sync \in SyncT(Len(releases)) /\ NoSync.at = "idle"
  BY Typed DEF NoSync, Inv
<1>1. CASE \/ Publish \/ MakeLive \/ Configure \/ Write \/ (\E v \in DOMAIN releases : Activate(v))
           \/ (\E p \in {"on", "off", "away"} : SetPolicy(p))
  BY <1>1, OperatorStep DEF gateway, Inv
<1>2. CASE \E k \in Attempts : Bootstrap(k)
  BY <1>0, <1>2, BootStep DEF Inv, Answered
<1>3. CASE Fetch
  BY <1>3 DEF Fetch, NoSync
<1>4. ASSUME NEW at, sync' = [sync EXCEPT !.at = at] PROVE Follows(at)
  BY <1>0, <1>4 DEF SyncT, Follows, KeepsRelease
<1>5. CASE Save
  BY <1>0, <1>4, <1>5 DEF Save, Follows
<1>6. CASE Install
  <2>1. \E v : sync' = [at |-> "apply", version |-> sync.version, manifest |-> sync.manifest, local |-> v]
    BY <1>6, InstallStep DEF Inv
  <2> QED
    BY <1>6, <2>1 DEF KeepsRelease
<1>7. CASE Apply
  BY <1>0, <1>4, <1>7 DEF Apply
<1>8. CASE StoreLocal
  BY <1>0, <1>4, <1>8 DEF StoreLocal, Activated
<1>9. CASE StoreRemote
  BY <1>4, <1>9 DEF StoreRemote
<1>10. CASE Report
  BY <1>0, <1>4, <1>10 DEF Report
<1>11. CASE Start
  BY <1>11, StartStep DEF Inv
<1>12. CASE (\E v \in reports : Record(v)) \/ Lost \/ Crash \/ UNCHANGED vars
  BY <1>0, <1>12 DEF Record, Lost, Crash, vars, gateway
<1> QED
  BY <1>1, <1>2, <1>3, <1>5, <1>6, <1>7, <1>8, <1>9, <1>10, <1>11, <1>12 DEF Next, Synchronise

LEMMA NextCarries ==
  ASSUME Inv, TypeOK', Grows, [Next]_vars PROVE CarriesReleases'
<1>0. /\ DOMAIN releases = 1..Len(releases) /\ DOMAIN releases' = 1..Len(releases')
      /\ \A v \in DOMAIN releases : v \in DOMAIN releases' /\ releases'[v] = releases[v]
      /\ active \in 0..Len(releases) /\ CarriesReleases /\ TypeOK
      /\ boot \in [Attempts -> BootT(Len(releases))] /\ Len(releases') \in Nat
      /\ Len(releases) \in Nat /\ Len(releases) <= Len(releases')
  BY Typed, Growth DEF Inv
<1>1. HasRelease' => sync'.version \in DOMAIN releases' /\ sync'.manifest = releases'[sync'.version]
  <2> DEFINE Goal == HasRelease' =>
                       sync'.version \in DOMAIN releases' /\ sync'.manifest = releases'[sync'.version]
  <2>1. CASE sync' = sync
    BY <1>0, <2>1 DEF CarriesReleases, HasRelease
  <2>2. CASE sync'.at \in {"idle", "asked"} \/ (sync'.at = "apply" /\ sync'.version = 0)
    BY <2>2 DEF HasRelease
  <2>3. CASE active # 0 /\ sync'.version = active /\ sync'.manifest = releases[active]
    BY <1>0, <2>3
  <2>4. ASSUME NEW k \in Attempts, NEW v \in Nat, Told(k, v) PROVE Goal
    BY <1>0, <2>4 DEF Told
  <2>5. ASSUME KeepsRelease, HasRelease' => HasRelease PROVE Goal
    BY <1>0, <2>5 DEF CarriesReleases, KeepsRelease
  <2>6. CASE Save \/ Install \/ StoreRemote \/ Report
    BY <2>1, <2>2, <2>3, <2>4, <2>5, <2>6, SyncSteps
       DEF Save, Install, StoreRemote, Report, HasRelease, Follows, Fetch, Start, NoSync, Apply, StoreLocal
  <2>7. ASSUME Apply, Follows("store") PROVE Goal
    BY <2>5, <2>7 DEF Apply, HasRelease, Follows, KeepsRelease
  <2>8. ASSUME StoreLocal, sync.version # 0, Follows("activate") PROVE Goal
    BY <2>5, <2>8 DEF StoreLocal, HasRelease, Follows
  <2> QED
    BY <2>1, <2>2, <2>3, <2>4, <2>6, <2>7, <2>8, SyncSteps
<1>2. \A k \in Attempts : BootCarries(boot'[k], releases')
  <2>1. ASSUME NEW k \in Attempts, NEW b, BootsOn(k, b)
        PROVE  \A j \in Attempts : BootCarries(boot'[j], releases')
    BY <1>0, <2>1, BootKept
  <2>2. ASSUME boot' = boot PROVE \A j \in Attempts : BootCarries(boot'[j], releases')
    BY <1>0, <2>2 DEF CarriesReleases, BootCarries
  <2>3. ASSUME NEW b \in BootT(Len(releases)), b.at \in {"idle", "deployment"},
               boot' = [boot EXCEPT ![faults] = b]
        PROVE  \A j \in Attempts : BootCarries(boot'[j], releases')
    <3>1. faults \in Attempts
      BY <1>0, Typed DEF Attempts
    <3>2. b \in BootT(Len(releases'))
      BY <1>0, Widen
    <3> QED
      BY <2>1, <2>3, <3>1, <3>2 DEF BootsOn, BootCarries
  <2>4. CASE \/ Publish \/ MakeLive \/ Configure \/ Write \/ (\E v \in DOMAIN releases : Activate(v))
             \/ (\E p \in {"on", "off", "away"} : SetPolicy(p))
    BY <2>2, <2>4, OperatorStep DEF Inv
  <2>5. CASE \E k \in Attempts : Bootstrap(k)
    BY <1>0, <2>1, <2>5, BootStep
  <2>6. CASE Fetch
    BY <1>0, <2>2, <2>3, <2>6, FetchBoot
  <2>7. CASE Save \/ Install \/ Apply \/ StoreLocal \/ StoreRemote
    BY <2>2, <2>7 DEF Save, Install, Apply, StoreLocal, StoreRemote
  <2>8. CASE Lost
    <3>1. NoBoot \in BootT(Len(releases)) /\ NoBoot.at = "idle"
      BY <1>0, NoneType DEF NoBoot
    <3> QED
      BY <2>2, <2>3, <2>8, <3>1 DEF Lost
  <2>9. CASE (\E v \in reports : Record(v)) \/ Report \/ Start \/ Crash \/ UNCHANGED vars
    BY <2>2, <2>9 DEF Record, Report, Start, Crash, vars, server
  <2> QED
    BY <2>4, <2>5, <2>6, <2>7, <2>8, <2>9 DEF Next, Synchronise
<1> QED
  BY <1>1, <1>2 DEF CarriesReleases

(* Versions that are active are not forgotten, and reports are of them.    *)
LEMMA ReportSteps ==
  ASSUME Inv, [Next]_vars
  PROVE  /\ activated \subseteq activated'
         /\ StoreRemote => sync.version \in activated'
         /\ reports' \subseteq reports \cup (IF Report THEN {sync.version} ELSE {})
         /\ applied' \in {applied} \cup reports
<1>1. CASE \/ Publish \/ MakeLive \/ Configure \/ Write \/ (\E v \in DOMAIN releases : Activate(v))
           \/ (\E p \in {"on", "off", "away"} : SetPolicy(p))
  <2>1. UNCHANGED <<activated, reports, applied>>
    BY <1>1, OperatorStep DEF gateway, Inv
  <2>2. StoreRemote => sync.version \in activated'
    BY DEF StoreRemote
  <2> QED
    BY <2>1, <2>2
<1>2. CASE Synchronise
  BY <1>2 DEF Synchronise, Fetch, Save, Install, Apply, StoreLocal, StoreRemote
<1>3. CASE \/ (\E k \in Attempts : Bootstrap(k)) \/ (\E v \in reports : Record(v)) \/ Report \/ Start
           \/ Lost \/ Crash \/ UNCHANGED vars
  <2>1. /\ activated' = activated /\ applied' \in {applied} \cup reports
        /\ reports' \subseteq reports \cup (IF Report THEN {sync.version} ELSE {})
    BY <1>3 DEF Bootstrap, Record, Report, Start, Lost, Crash, vars, gateway, server
  <2>2. StoreRemote => sync.version \in activated'
    BY DEF StoreRemote
  <2> QED
    BY <2>1, <2>2
<1> QED
  BY <1>1, <1>2, <1>3 DEF Next

LEMMA NextReports ==
  ASSUME Inv, [Next]_vars PROVE ReportsApplied'
<1>0. ReportsApplied /\ ReportedWasApplied
  BY DEF Inv, ReportsApplied
<1>1. Report => sync.version \in activated
  BY <1>0 DEF Report, ReportsApplied
<1>2. reports' \subseteq activated' /\ applied' \in {0} \cup activated'
  BY <1>0, <1>1, ReportSteps DEF ReportsApplied, ReportedWasApplied
<1>3. sync'.at \in {"report", "reported"} => sync'.version \in activated'
  <2>1. CASE sync' = sync
    BY <1>0, <2>1, ReportSteps DEF ReportsApplied
  <2>2. CASE StoreRemote /\ sync'.version = sync.version
    BY <2>2, ReportSteps
  <2>3. CASE Report /\ sync'.version = sync.version
    BY <1>1, <2>3, ReportSteps
  <2>4. CASE sync'.at \notin {"report", "reported"}
    BY <2>4
  <2> QED
    BY <2>1, <2>2, <2>3, <2>4, SyncSteps DEF Told, Follows, KeepsRelease
<1> QED
  BY <1>2, <1>3 DEF ReportsApplied, ReportedWasApplied

(* What a step does to the manifest in memory.                             *)
LEMMA ApplyStep ==
  ASSUME Inv, Apply, sync'.at = "store"
  PROVE  running' = store[LocalId][sync.local] /\ running' # NoManifest
<1>1. sync.local \in Installed
  BY DEF Apply, Inv, LocalKept, RunsEmbedded
<1>2. store[LocalId][sync.local] \in AnyManifest
  BY <1>1 DEF Inv, TypeOK, Installed, AnyManifest, Projects
<1> QED
  BY <1>2, AppliedType DEF Apply, NoSync

LEMMA RunningSteps ==
  ASSUME Inv, [Next]_vars
  PROVE  \/ running' = running
         \/ Crash /\ running' = NoManifest /\ sync'.at = "idle"
         \/ Apply /\ sync'.at = "store"
         \/ Start /\ running' # NoManifest /\ sync' = sync
<1>1. CASE \/ Publish \/ MakeLive \/ Configure \/ Write \/ (\E v \in DOMAIN releases : Activate(v))
           \/ (\E p \in {"on", "off", "away"} : SetPolicy(p))
  BY <1>1, OperatorStep DEF gateway, Inv
<1>2. CASE Apply
  <2>1. sync' = [sync EXCEPT !.at = "store"] => sync'.at = "store"
    BY Typed DEF SyncT, Inv
  <2> QED
    BY <1>2, <2>1 DEF Apply
<1>3. CASE Start
  BY <1>3, StartStep, AppliedType DEF Inv
<1>4. CASE Crash
  BY <1>4 DEF Crash, NoSync
<1>5. CASE Fetch \/ Save \/ Install \/ StoreLocal \/ StoreRemote
  BY <1>5 DEF Fetch, Save, Install, StoreLocal, StoreRemote
<1>6. CASE \/ (\E k \in Attempts : Bootstrap(k)) \/ (\E v \in reports : Record(v)) \/ Report
           \/ Lost \/ UNCHANGED vars
  BY <1>6 DEF Bootstrap, Record, Report, Lost, vars, gateway
<1> QED
  BY <1>1, <1>2, <1>3, <1>4, <1>5, <1>6 DEF Next, Synchronise

LEMMA NextEmbedded ==
  ASSUME Inv, host' = host, [Next]_vars PROVE RunsEmbedded'
<1>0. RunsEmbedded /\ Embedded' = Embedded
  BY DEF Inv, Embedded
<1>1. sync'.at \in {"install", "apply", "store"} => Embedded
  BY <1>0, SyncSteps DEF RunsEmbedded, Install, Apply, Start, Told, Follows
<1>2. ASSUME Embedded, sync'.at # "idle"
      PROVE  running' # NoManifest \/ (sync'.at = "apply" /\ sync'.version = 0)
  <2>1. CASE running' = running /\ ~ (Apply /\ sync'.at = "store")
    <3>1. CASE sync' = sync
      BY <1>0, <1>2, <2>1, <3>1 DEF RunsEmbedded
    <3>2. CASE Fetch
      BY <1>2, <2>1, <3>2 DEF Fetch, Due
    <3>3. CASE sync.at \notin {"idle", "apply"}
      BY <1>0, <1>2, <2>1, <3>3 DEF RunsEmbedded
    <3> QED
      BY <1>2, <2>1, <3>1, <3>2, <3>3, SyncSteps
         DEF Told, Save, Install, StoreLocal, StoreRemote, Report, Follows
  <2>2. CASE Start /\ running' # NoManifest
    BY <2>2
  <2> QED
    BY <1>2, <2>1, <2>2, RunningSteps, ApplyStep
<1> QED
  BY <1>0, <1>1, <1>2 DEF RunsEmbedded

(* Releases are never changed in the file nor removed from it.             *)
LEMMA StoreGrows ==
  ASSUME Inv, [Next]_vars, NEW p \in Projects
  PROVE  /\ \A w \in DOMAIN store[p] : w \in DOMAIN store'[p] /\ store'[p][w] = store[p][w]
         /\ \E v \in Nat : DOMAIN store'[p] \subseteq DOMAIN store[p] \cup {v}
<1>1. ASSUME NEW q \in Projects, NEW v \in Nat \ {0}, NEW m \in AnyManifest, Saved(q, v, m)
      PROVE  /\ \A w \in DOMAIN store[p] : w \in DOMAIN store'[p] /\ store'[p][w] = store[p][w]
             /\ DOMAIN store'[p] \subseteq DOMAIN store[p] \cup {v}
  <2>1. CASE q = p
    BY <1>1, <2>1, SavedStore DEF Inv
  <2>2. CASE q # p
    BY <1>1, <2>2, SavedStore DEF Inv
  <2> QED
    BY <2>1, <2>2
<1>2. CASE sync.at = "save" /\ Saved(Slug, sync.version, sync.manifest)
  <2>1. sync.version \in Nat \ {0} /\ sync.manifest \in AnyManifest
    BY <1>2, Typed DEF Inv, CarriesReleases, HasRelease
  <2> QED
    BY <1>1, <1>2, <2>1 DEF Projects
<1>3. CASE UNCHANGED store
  BY <1>3
<1>4. LocalId \in Projects
  BY DEF Projects
<1> QED
  BY <1>1, <1>2, <1>3, <1>4, StoreSteps

LEMMA LocalGrows ==
  ASSUME Inv, [Next]_vars
  PROVE  /\ \A w \in Installed : w \in DOMAIN store'[LocalId] /\ store'[LocalId][w] = store[LocalId][w]
         /\ \E n \in Nat : \A v \in DOMAIN store'[LocalId] : v <= n
<1>0. LocalId \in Projects /\ Installed \subseteq Nat
  BY DEF Inv, TypeOK, Installed, Projects
<1>1. PICK n \in Nat : \A v \in Installed : v <= n
  BY DEF Inv, LocalKept
<1>2. PICK v \in Nat : DOMAIN store'[LocalId] \subseteq Installed \cup {v}
  BY <1>0, StoreGrows DEF Installed
<1>3. n + v \in Nat /\ \A w \in Installed \cup {v} : w <= n + v
  BY <1>0, <1>1
<1> QED
  BY <1>0, <1>2, <1>3, StoreGrows DEF Installed

(* The local version that is active changes with StoreLocal -- and with    *)
(* StoreRemote, where the ids are equal.                                   *)
LEMMA StoredSteps ==
  ASSUME Inv, [Next]_vars
  PROVE  \/ stored'[LocalId] = stored[LocalId]
         \/ StoreLocal /\ stored'[LocalId] = sync.local /\ UNCHANGED <<store, running>>
         \/ StoreRemote /\ LocalId = Slug /\ stored'[LocalId] = sync.version /\ UNCHANGED store
<1>0. stored \in [Projects -> Nat] /\ LocalId \in Projects /\ Slug \in Projects
  BY Typed DEF Inv, Projects
<1>1. CASE \/ Publish \/ MakeLive \/ Configure \/ Write \/ (\E v \in DOMAIN releases : Activate(v))
           \/ (\E p \in {"on", "off", "away"} : SetPolicy(p))
  BY <1>1, OperatorStep DEF gateway, Inv
<1>2. CASE StoreLocal
  BY <1>0, <1>2 DEF StoreLocal, SetActive
<1>3. CASE StoreRemote
  BY <1>0, <1>3 DEF StoreRemote, SetActive
<1>4. CASE Start
  BY <1>4, StartStep DEF Inv
<1>5. CASE Fetch \/ Save \/ Install \/ Apply
  BY <1>5 DEF Fetch, Save, Install, Apply
<1>6. CASE \/ (\E k \in Attempts : Bootstrap(k)) \/ (\E v \in reports : Record(v)) \/ Report
           \/ Lost \/ Crash \/ UNCHANGED vars
  BY <1>6 DEF Bootstrap, Record, Report, Lost, Crash, vars, gateway
<1> QED
  BY <1>1, <1>2, <1>3, <1>4, <1>5, <1>6 DEF Next, Synchronise

(* Between the first and the last step of an activation the host runs what *)
(* it ran.                                                                 *)
LEMMA KeepsRunning ==
  ASSUME Inv, [Next]_vars, sync.at \notin {"idle", "apply"}, sync'.at # "idle"
  PROVE  running' = running
BY RunningSteps, StartStep DEF Apply, NoSync, Inv

LEMMA NextLocal ==
  ASSUME Inv, host' = host, [Next]_vars PROVE LocalKept'
<1>0. /\ LocalKept /\ Installed' = DOMAIN store'[LocalId] /\ Embedded' = Embedded
      /\ Slug \in Projects /\ LocalId \in Projects
  BY DEF Inv, Installed, Embedded, Projects
<1>1. ASSUME Embedded, sync'.at \in {"apply", "store", "activate", "report", "reported"}
      PROVE  sync'.local \in DOMAIN store'[LocalId]
  <2>1. CASE sync' = sync
    BY <1>0, <1>1, <2>1, LocalGrows DEF LocalKept
  <2>2. CASE Install
    <3>1. PICK v \in Nat \ {0}, m \in AnyManifest :
            /\ Saved(LocalId, v, m)
            /\ sync' = [at |-> "apply", version |-> sync.version, manifest |-> sync.manifest, local |-> v]
      BY <2>2, InstallStep DEF Inv
    <3>2. v \in DOMAIN store'[LocalId]
      BY <1>0, <3>1, SavedStore DEF Inv
    <3> QED
      BY <3>1, <3>2
  <2>3. CASE Start
    <3>1. CASE sync'.local \in Installed
      BY <3>1, LocalGrows
    <3>2. ASSUME NEW m \in AnyManifest, Saved(LocalId, sync'.local, m), sync'.local \in Nat \ {0}
          PROVE  sync'.local \in DOMAIN store'[LocalId]
      BY <1>0, <3>2, SavedStore DEF Inv
    <3> QED
      BY <2>1, <2>3, <3>1, <3>2, StartStep DEF Inv
  <2>4. CASE /\ sync.at \in {"apply", "store", "activate", "report", "reported"}
             /\ sync'.local = sync.local
    BY <1>0, <1>1, <2>4, LocalGrows DEF LocalKept
  <2> QED
    BY <1>1, <2>1, <2>2, <2>3, <2>4, SyncSteps
       DEF Told, Follows, Apply, StoreLocal, StoreRemote, Report
<1>2. HasRelease' /\ sync'.at # "save" => sync'.version \in DOMAIN store'[Slug]
  <2> DEFINE Goal == HasRelease' /\ sync'.at # "save" => sync'.version \in DOMAIN store'[Slug]
  <2>1. ASSUME HasRelease' => HasRelease /\ sync.at # "save", sync'.version = sync.version PROVE Goal
    BY <1>0, <2>1, StoreGrows DEF LocalKept
  <2>2. ASSUME sync' = sync PROVE Goal
    BY <1>0, <2>2, StoreGrows DEF LocalKept, HasRelease
  <2>3. ASSUME sync'.at \in {"idle", "asked", "save"} \/ (sync'.at = "apply" /\ sync'.version = 0) PROVE Goal
    BY <2>3 DEF HasRelease
  <2>4. ASSUME Save, Saved(Slug, sync.version, sync.manifest), KeepsRelease PROVE Goal
    <3>1. sync.version \in Nat \ {0} /\ sync.manifest \in AnyManifest
      BY <2>4, Typed DEF Save, Inv, CarriesReleases, HasRelease
    <3> QED
      BY <1>0, <2>4, <3>1, SavedStore DEF Inv, KeepsRelease
  <2>5. ASSUME Install /\ KeepsRelease PROVE Goal
    BY <2>1, <2>5 DEF Install, KeepsRelease, HasRelease
  <2>6. ASSUME Apply /\ Follows("store") PROVE Goal
    BY <2>1, <2>6 DEF Apply, KeepsRelease, HasRelease, Follows
  <2>7. ASSUME StoreLocal /\ sync.version # 0 /\ Follows("activate") PROVE Goal
    BY <2>1, <2>7 DEF StoreLocal, KeepsRelease, HasRelease, Follows
  <2>8. ASSUME (StoreRemote /\ Follows("report")) \/ (Report /\ Follows("reported")) PROVE Goal
    BY <2>1, <2>8 DEF StoreRemote, Report, KeepsRelease, HasRelease, Follows
  <2>9. \A k, v : Told(k, v) => sync'.at = "save"
    BY DEF Told
  <2>10. \/ sync' = sync
         \/ sync'.at \in {"idle", "asked", "save"} \/ (sync'.at = "apply" /\ sync'.version = 0)
         \/ Save /\ Saved(Slug, sync.version, sync.manifest) /\ KeepsRelease
         \/ Install /\ KeepsRelease
         \/ Apply /\ Follows("store")
         \/ StoreLocal /\ sync.version # 0 /\ Follows("activate")
         \/ StoreRemote /\ Follows("report")
         \/ Report /\ Follows("reported")
    BY <2>9, SyncSteps
  <2>11. Goal
    <3> HIDE DEF Goal
    <3> QED
      BY <2>2, <2>3, <2>4, <2>5, <2>6, <2>7, <2>8, <2>10
  <2> QED
    BY <2>11
<1>3. ASSUME sync'.at = "store" PROVE running' = store'[LocalId][sync'.local]
  <2>1. CASE sync' = sync
    <3>1. running' = running
      BY <1>3, <2>1, KeepsRunning
    <3>2. sync.local \in Installed /\ running = store[LocalId][sync.local]
      BY <1>0, <1>3, <2>1 DEF LocalKept, Inv, RunsEmbedded
    <3> QED
      BY <2>1, <3>1, <3>2, LocalGrows
  <2>2. CASE Apply /\ sync'.local = sync.local
    <3>1. running' = store[LocalId][sync.local]
      BY <1>3, <2>2, ApplyStep
    <3> QED
      BY <2>2, <3>1 DEF Apply
  <2> QED
    BY <1>3, <2>1, <2>2, SyncSteps DEF Told, Follows
<1>4. stored'[LocalId] # 0 => stored'[LocalId] \in DOMAIN store'[LocalId]
  <2>1. CASE stored'[LocalId] = stored[LocalId]
    BY <1>0, <2>1, LocalGrows DEF LocalKept
  <2>2. CASE StoreLocal /\ stored'[LocalId] = sync.local
    BY <1>0, <2>2, LocalGrows DEF StoreLocal, LocalKept, Inv, RunsEmbedded
  <2>3. CASE StoreRemote /\ LocalId = Slug /\ stored'[LocalId] = sync.version
    BY <1>0, <2>3, StoreGrows DEF StoreRemote, LocalKept, HasRelease
  <2> QED
    BY <2>1, <2>2, <2>3, StoredSteps
<1> QED
  BY <1>0, <1>1, <1>2, <1>3, <1>4, LocalGrows DEF LocalKept

LEMMA NextSurvives ==
  ASSUME Inv, host' = host, [Next]_vars PROVE ReportedSurvives'
<1> SUFFICES ASSUME Embedded, LocalId # Slug
             PROVE  /\ sync'.at \in {"activate", "report", "reported"} =>
                         /\ stored'[LocalId] = sync'.local
                         /\ running' = store'[LocalId][sync'.local]
                    /\ stored'[LocalId] # 0 =>
                         store'[LocalId][stored'[LocalId]] \cap Unsupported = {}
  BY DEF ReportedSurvives, Embedded
<1>0. LocalKept /\ ReportedSurvives /\ RunsEmbedded
  BY DEF Inv
<1>1. ASSUME sync'.at \in {"activate", "report", "reported"}
      PROVE  stored'[LocalId] = sync'.local /\ running' = store'[LocalId][sync'.local]
  <2>1. CASE sync'.local = sync.local /\ sync.at \in {"activate", "report", "reported"}
    <3>1. /\ stored[LocalId] = sync.local /\ running = store[LocalId][sync.local]
          /\ sync.local \in Installed
      BY <1>0, <2>1 DEF ReportedSurvives, LocalKept
    <3>2. running' = running
      BY <1>1, <2>1, KeepsRunning
    <3>3. stored'[LocalId] = stored[LocalId]
      BY <2>1, StoredSteps DEF StoreLocal
    <3> QED
      BY <2>1, <3>1, <3>2, <3>3, LocalGrows
  <2>2. CASE StoreLocal /\ sync'.local = sync.local
    <3>1. stored'[LocalId] = sync.local /\ UNCHANGED <<store, running>>
      BY <2>2, Typed DEF StoreLocal, SetActive, Inv, Projects
    <3>2. running = store[LocalId][sync.local]
      BY <1>0, <2>2 DEF StoreLocal, LocalKept
    <3> QED
      BY <2>2, <3>1, <3>2
  <2> QED
    BY <1>1, <2>1, <2>2, SyncSteps DEF Told, Follows, StoreRemote, Report
<1>2. ASSUME stored'[LocalId] # 0 PROVE store'[LocalId][stored'[LocalId]] \cap Unsupported = {}
  <2>1. CASE stored'[LocalId] = stored[LocalId]
    BY <1>0, <1>2, <2>1, LocalGrows DEF ReportedSurvives, LocalKept
  <2>2. CASE StoreLocal /\ stored'[LocalId] = sync.local /\ UNCHANGED <<store, running>>
    <3>1. running = store[LocalId][sync.local] /\ running # NoManifest
      BY <1>0, <2>2 DEF StoreLocal, LocalKept, RunsEmbedded
    <3> QED
      BY <2>2, <3>1, Typed DEF Inv
  <2> QED
    BY <2>1, <2>2, StoredSteps
<1> QED
  BY <1>1, <1>2

-----------------------------------------------------------------------------
(* Theorems *)

LEMMA Invariance == Spec => []Inv
<1>1. Inv /\ [Next]_vars => Inv'
  BY NextType, NextVersions, NextCarries, NextReports, NextEmbedded, NextLocal, NextSurvives DEF Inv
<1> QED
  BY InitInv, <1>1, PTL DEF Spec

(* A host never runs a release that needs a provider it lacks, and what is *)
(* active, reported or applied is a release of the server.                 *)
THEOREM ReleaseTypes == Spec => []TypeOK
<1>1. Inv => TypeOK
  BY DEF Inv
<1> QED
  BY Invariance, <1>1, PTL

(* UNIQUE(project_id, version) and UNIQUE(project_id, content_hash) keep a *)
(* version's content for ever, whatever operators and bootstraps race for; *)
(* and what the Gateway saved is what the server has, where the embedded   *)
(* runtime does not save its own releases in the same project.             *)
THEOREM SavedVersionsAgree == Spec => []VersionsAgree
<1>1. Inv => VersionsAgree
  BY DEF Inv
<1> QED
  BY Invariance, <1>1, PTL

(* Lost, late and overtaken reports never show a release as applied that   *)
(* the Gateway has not finished applying.                                  *)
THEOREM ReportsAreTrue == Spec => []ReportedWasApplied
<1>1. Inv => ReportedWasApplied
  BY DEF Inv, ReportsApplied
<1> QED
  BY Invariance, <1>1, PTL

(* Whatever write of activate_release or bootstrap_release fails, what the *)
(* Gateway comes to report runs and would run again after a restart, and   *)
(* what a restart brings back needs only providers the host has.           *)
THEOREM ReportedReleasesSurvive == Spec => []ReportedSurvives
<1>1. Inv => ReportedSurvives
  BY DEF Inv
<1> QED
  BY Invariance, <1>1, PTL

(* local_embedded_release takes a version that is free or has the very     *)
(* release, so installing is never refused, whatever the ids are.          *)
THEOREM InstallNeverConflicts ==
  Spec => [](sync.at = "install" =>
               LET m == Localised(sync.manifest)
               IN  Saveable(LocalId, LocalVersion(sync.version, m), m))
<1> DEFINE Goal == sync.at = "install" =>
                     LET m == Localised(sync.manifest)
                     IN  Saveable(LocalId, LocalVersion(sync.version, m), m)
<1>1. Inv => Goal
  <2> SUFFICES ASSUME Inv, sync.at = "install" PROVE Goal
    OBVIOUS
  <2>1. sync.version \in Nat \ {0}
    BY Typed DEF Inv, CarriesReleases, HasRelease
  <2> QED
    BY <2>1, LocalVersionFits DEF Inv
<1> QED
  BY Invariance, <1>1, PTL

(* Where the ids differ, save_release never refuses what sync_runtime_state*)
(* has fetched, by its version or by its content, so a synchronisation does*)
(* not get stuck on a release.                                             *)
THEOREM SaveNeverConflicts ==
  Spec => [](LocalId # Slug /\ sync.at = "save" =>
               Saveable(Slug, sync.version, sync.manifest))
<1>1. Inv => (LocalId # Slug /\ sync.at = "save" => Saveable(Slug, sync.version, sync.manifest))
  BY DEF Inv, VersionsAgree, CarriesReleases, HasRelease, Saveable
<1> QED
  BY Invariance, <1>1, PTL
=============================================================================
