------------------------- MODULE RuntimeBridgeProofs -------------------------
(***************************************************************************)
(* Proofs about RuntimeBridge for any number of pumps, handles and limits: *)
(* the bridge uses the invocation registry only through its operations, so *)
(* what is proved of the registry holds behind the bridge too, and no      *)
(* entry of the registry outlives the bridge's memory of it.               *)
(***************************************************************************)
EXTENDS RuntimeBridge, InvocationRegistryProofs, WellFoundedInduction

(* Where a call of drain_events may stand.                                 *)
Pump == [at : {"rest", "next", "poll", "take"}, todo : SUBSET Handles,
         handle : Handles \cup {0}, batch : Seq(Event), frames : Seq(Frame),
         completed : SUBSET Handles]

BridgeTyped ==
  /\ active \in SUBSET Handles
  /\ starting \in SUBSET Handles
  /\ received \in Seq(Frame)
  /\ pump \in [Pumps -> Pump]

(* A pump that asks for the status or the result of a handle drained the   *)
(* events of that handle before.                                           *)
PumpHolds ==
  \A p \in Pumps : pump[p].at \in {"poll", "take"} => pump[p].handle \in Handles

(* Why forgetting the completed handles is safe: their entries are gone,   *)
(* and, their numbers having been handed out, they do not come back.       *)
CompletedGone ==
  /\ \A h \in active \cup starting : h < nextHandle
  /\ \A p \in Pumps :
       /\ \A h \in pump[p].todo : h < nextHandle
       /\ pump[p].handle < nextHandle
       /\ \A h \in pump[p].completed : h < nextHandle /\ status[h] = "absent"

BridgeInv ==
  IInv /\ BridgeTyped /\ PumpHolds /\ CompletedGone /\ EntriesRemembered

-----------------------------------------------------------------------------
(* The steps *)

(* drain_events takes the handles in their order: a least one exists.      *)
LEMMA NextOfType ==
  ASSUME BridgeTyped, NEW p \in Pumps, pump[p].todo # {}
  PROVE  NextOf(p) \in pump[p].todo /\ NextOf(p) \in Handles
<1>1. pump[p].todo \subseteq Handles
  BY DEF BridgeTyped, Pump
<1>2. pump[p].todo \subseteq Nat
  BY <1>1 DEF Handles
<1>3. PICK h \in pump[p].todo :
         \A k \in pump[p].todo : ~ (<<k, h>> \in OpToRel(<, Nat))
  BY <1>2, NatLessThanWellFounded, WFMin
<1>4. \A k \in pump[p].todo : h <= k
  <2>1. \A k \in pump[p].todo : ~ (k < h)
    BY <1>2, <1>3 DEF OpToRel
  <2> QED
    BY <1>2, <2>1
<1>5. NextOf(p) \in pump[p].todo
  BY <1>4 DEF NextOf
<1> QED
  BY <1>1, <1>5

(* The frames made from drained events are frames.                         *)
LEMMA FramesOfType ==
  ASSUME BridgeTyped, PumpHolds, NEW p \in Pumps, pump[p].at = "poll", NEW s
  PROVE  FramesOf(p, s) \in Seq(Frame)
<1>1. pump[p].handle \in Handles /\ pump[p].batch \in Seq(Event)
  BY DEF BridgeTyped, Pump, PumpHolds
<1>2. \A i \in 1..Len(pump[p].batch) : FramesOf(p, s)[i] \in Frame
  BY <1>1 DEF FramesOf, Frame
<1>3. /\ Len(pump[p].batch) \in Nat
      /\ FramesOf(p, s) = [i \in 1..Len(pump[p].batch) |-> FramesOf(p, s)[i]]
  BY <1>1 DEF FramesOf
<1> QED
  BY <1>2, <1>3

(* Every step of the bridge is a step of the registry or leaves it alone.  *)
LEMMA BridgeStepsRegistry ==
  BridgeInv /\ [BridgeNext]_<<vars, bridgeVars>> => [Next]_vars
<1> SUFFICES ASSUME BridgeInv, [BridgeNext]_<<vars, bridgeVars>> PROVE [Next]_vars
  OBVIOUS
<1>0. BridgeTyped /\ PumpHolds
  BY DEF BridgeInv
<1>1. ASSUME HandleInvoke \/ HandleInvokeRefused PROVE Next
  BY <1>1 DEF HandleInvoke, HandleInvokeRefused, Next, Application
<1>2. ASSUME NEW h \in Handles, HandleCancel(h) PROVE Next
  BY <1>2 DEF HandleCancel, Next, Application
<1>3. ASSUME NEW p \in Pumps, PumpDrain(p) PROVE Next
  <2>1. NextOf(p) \in Handles
    BY <1>0, <1>3, NextOfType DEF PumpDrain
  <2> QED
    BY <1>3, <2>1 DEF PumpDrain, Next, Application
<1>4. ASSUME NEW p \in Pumps, PumpTake(p) PROVE Next
  <2>1. pump[p].handle \in Handles
    BY <1>0, <1>4 DEF PumpTake, PumpHolds
  <2> QED
    BY <1>4, <2>1 DEF PumpTake, Next, Application
<1>5. ASSUME DropBridge \/ Background PROVE Next
  BY <1>5 DEF DropBridge, Background, Next, Application
<1>6. ASSUME NEW h \in Handles, HandleInvokeAnswer(h) PROVE UNCHANGED vars
  BY <1>6 DEF HandleInvokeAnswer
<1>7. ASSUME NEW p \in Pumps,
             PumpBegin(p) \/ PumpGone(p) \/ PumpPoll(p) \/ PumpFails(p) \/ PumpReturn(p)
      PROVE  UNCHANGED vars
  BY <1>7 DEF PumpBegin, PumpGone, PumpPoll, PumpFails, PumpReturn
<1>8. ASSUME UNCHANGED <<vars, bridgeVars>> PROVE UNCHANGED vars
  BY <1>8
<1> QED
  BY <1>1, <1>2, <1>3, <1>4, <1>5, <1>6, <1>7, <1>8 DEF BridgeNext, Host

(* What a step does to the memory of handles, in terms of which entries    *)
(* exist: only start_invoke makes an entry, and it makes one for the next  *)
(* handle.                                                                 *)
LEMMA EntriesStep ==
  ASSUME IInv, IInv', [Next]_vars
  PROVE  /\ nextHandle' \in {nextHandle, nextHandle + 1}
         /\ \A h \in Handles :
              h # nextHandle /\ status[h] = "absent" => status'[h] = "absent"
         /\ \A h \in Handles :
              h < nextHandle /\ status[h] = "absent" => status'[h] = "absent"
         /\ nextHandle' = nextHandle =>
              \A h \in Handles : status[h] = "absent" => status'[h] = "absent"
<1>1. nextHandle' \in {nextHandle, nextHandle + 1}
  BY DEF Next, Application, WorkerStep, Provider, Stopped, IgnoreDelta, StartInvoke,
         StartBackpressure, StartRefused, StartSpawnFails, DropRuntime,
         CancelLookup, CancelSignal, CancelMark, DrainEvents, TakeInvocation,
         WorkerBuildFails, WorkerReceive, WorkerExit, TaskBegin, TaskEnd, TaskPanic, AcceptDelta, vars
<1>2. nextHandle \in Nat /\ nextHandle' \in Nat
  BY DEF IInv, TypeOK
<1>3. ASSUME NEW h \in Handles, h < nextHandle, status[h] = "absent"
      PROVE  status'[h] = "absent"
  <2>1. [FinalStep]_vars
    BY NextFinal
  <2>2. CASE FinalStep
    BY <1>3, <2>2 DEF FinalStep
  <2>3. CASE UNCHANGED vars
    BY <1>3, <2>3 DEF vars, registryVars
  <2> QED
    BY <2>1, <2>2, <2>3
<1>4. \A h \in Handles : h >= nextHandle' => status'[h] = "absent"
  BY DEF IInv, TaskTracked
<1>5. \A h \in Handles : h \in Nat
  BY DEF Handles
<1>6. \A h \in Handles : h # nextHandle => h < nextHandle \/ h >= nextHandle'
  BY <1>1, <1>2, <1>5
<1>7. nextHandle' = nextHandle => \A h \in Handles : h < nextHandle \/ h >= nextHandle'
  BY <1>2, <1>5
<1> QED
  BY <1>1, <1>3, <1>4, <1>6, <1>7

-----------------------------------------------------------------------------
(* The invariant *)

(* A pump that is not running is a pump.                                   *)
LEMMA RestingType == Resting \in Pump
BY DEF Resting, Pump

(* The bridge starts with nothing to remember.                             *)
LEMMA BridgeInitInv == BridgeInit => BridgeInv
<1> SUFFICES ASSUME BridgeInit PROVE BridgeInv
  OBVIOUS
<1>1. IInv
  BY InitInv DEF BridgeInit
<1>2. BridgeTyped
  BY RestingType DEF BridgeInit, BridgeTyped
<1>3. PumpHolds /\ CompletedGone /\ EntriesRemembered
  BY DEF BridgeInit, Init, Resting, PumpHolds, CompletedGone, EntriesRemembered
<1> QED
  BY <1>1, <1>2, <1>3 DEF BridgeInv

(* The bridge's own variables keep their types.                            *)
LEMMA BridgeTypedStep ==
  BridgeInv /\ [BridgeNext]_<<vars, bridgeVars>> => BridgeTyped' /\ PumpHolds'
<1> SUFFICES ASSUME BridgeInv, [BridgeNext]_<<vars, bridgeVars>>
             PROVE  BridgeTyped' /\ PumpHolds'
  OBVIOUS
<1>0. TypeOK /\ BridgeTyped /\ PumpHolds
  BY DEF BridgeInv, IInv
<1> USE <1>0
<1>1. CASE HandleInvoke
  <2>1. nextHandle \in Handles
    BY <1>1 DEF HandleInvoke, StartInvoke
  <2> QED
    BY <1>1, <2>1 DEF HandleInvoke, BridgeTyped, PumpHolds
<1>2. CASE HandleInvokeRefused \/ DropBridge \/ Background
  BY <1>2 DEF HandleInvokeRefused, DropBridge, Background, bridgeVars, BridgeTyped,
              PumpHolds
<1>3. ASSUME NEW h \in Handles, HandleInvokeAnswer(h) \/ HandleCancel(h)
      PROVE  BridgeTyped' /\ PumpHolds'
  BY <1>3 DEF HandleInvokeAnswer, HandleCancel, bridgeVars, BridgeTyped, PumpHolds
<1>4. ASSUME NEW p \in Pumps, PumpBegin(p)
      PROVE  BridgeTyped' /\ PumpHolds'
  <2> DEFINE r1 == [Resting EXCEPT !.at = "next"]
             r  == [r1 EXCEPT !.todo = active]
  <2>0. r1 \in Pump /\ r1.at = "next"
    BY RestingType DEF Pump
  <2> HIDE DEF r1
  <2>1. r \in Pump /\ r.at = "next"
    BY <2>0 DEF BridgeTyped, Pump
  <2> HIDE DEF r
  <2>2. pump' = [pump EXCEPT ![p] = r] /\ UNCHANGED <<active, starting, received>>
    BY <1>4 DEF PumpBegin, r, r1
  <2> QED
    BY <2>1, <2>2 DEF BridgeTyped, PumpHolds
<1>5. ASSUME NEW p \in Pumps, PumpDrain(p)
      PROVE  BridgeTyped' /\ PumpHolds'
  <2>1. NextOf(p) \in Handles /\ events[NextOf(p)] \in Seq(Event)
    BY <1>5, NextOfType DEF PumpDrain, TypeOK
  <2> DEFINE h == NextOf(p)
             es == events[h]
             left == pump[p].todo \ {h}
  <2>2. /\ pump' = [pump EXCEPT ![p].at = "poll", ![p].todo = left,
                                ![p].handle = h, ![p].batch = es]
        /\ UNCHANGED <<active, starting, received>>
    BY <1>5 DEF PumpDrain
  <2>3. pump[p] \in Pump /\ left \in SUBSET Handles /\ es \in Seq(Event) /\ h \in Handles
    BY <2>1 DEF BridgeTyped, Pump
  <2> HIDE DEF h, es, left
  <2>4. /\ pump' \in [Pumps -> Pump]
        /\ pump'[p].at = "poll" /\ pump'[p].handle = h
    BY <2>2, <2>3 DEF BridgeTyped, Pump
  <2>5. \A q \in Pumps \ {p} : pump'[q] = pump[q]
    BY <2>2 DEF BridgeTyped
  <2> QED
    BY <2>2, <2>3, <2>4, <2>5 DEF BridgeTyped, PumpHolds
<1>6. ASSUME NEW p \in Pumps, PumpGone(p)
      PROVE  BridgeTyped' /\ PumpHolds'
  <2>1. NextOf(p) \in Handles
    BY <1>6, NextOfType DEF PumpGone
  <2>2. pump' = [pump EXCEPT ![p].todo = @ \ {NextOf(p)},
                             ![p].completed = @ \cup {NextOf(p)}]
        /\ UNCHANGED <<active, starting, received>>
    BY <1>6 DEF PumpGone
  <2>3. pump' \in [Pumps -> Pump]
    <3> DEFINE x == [pump[p] EXCEPT !.todo = @ \ {NextOf(p)},
                                    !.completed = @ \cup {NextOf(p)}]
    <3>1. pump' = [pump EXCEPT ![p] = x] /\ pump[p] \in Pump
      BY <2>2 DEF BridgeTyped
    <3>2. x \in Pump
      BY <2>1, <3>1 DEF Pump
    <3> HIDE DEF x
    <3> QED
      BY <3>1, <3>2 DEF BridgeTyped
  <2>4. \A q \in Pumps : pump'[q].at = pump[q].at /\ pump'[q].handle = pump[q].handle
    BY <2>2 DEF BridgeTyped, Pump
  <2> QED
    BY <2>2, <2>3, <2>4 DEF BridgeTyped, PumpHolds
<1>7. ASSUME NEW p \in Pumps, PumpPoll(p)
      PROVE  BridgeTyped' /\ PumpHolds'
  <2> DEFINE s == status[pump[p].handle]
             fs == FramesOf(p, s)
  <2>1. fs \in Seq(Frame) /\ pump[p].frames \o fs \in Seq(Frame) /\ <<>> \in Seq(Event)
    BY <1>7, FramesOfType DEF PumpPoll, BridgeTyped, Pump
  <2> HIDE DEF fs
  <2>2. /\ pump' = [pump EXCEPT ![p].at = IF s \in Terminal THEN "take" ELSE "next",
                                ![p].frames = @ \o fs,
                                ![p].batch = <<>>]
        /\ pump[p].at = "poll"
        /\ UNCHANGED <<active, starting, received>>
    BY <1>7 DEF PumpPoll, fs
  <2> DEFINE at == IF s \in Terminal THEN "take" ELSE "next"
             ns == pump[p].frames \o fs
  <2>3. at \in {"take", "next"} /\ pump[p] \in Pump /\ pump[p].handle \in Handles
    BY <2>2 DEF BridgeTyped, PumpHolds
  <2>4. pump' = [pump EXCEPT ![p].at = at, ![p].frames = ns, ![p].batch = <<>>]
    BY <2>2
  <2> HIDE DEF at, ns, s
  <2>5. /\ pump' \in [Pumps -> Pump]
        /\ pump'[p].at \in {"take", "next"} /\ pump'[p].handle = pump[p].handle
    BY <2>1, <2>3, <2>4 DEF BridgeTyped, Pump, ns
  <2>6. \A q \in Pumps \ {p} : pump'[q] = pump[q]
    BY <2>4 DEF BridgeTyped
  <2> QED
    BY <2>2, <2>3, <2>5, <2>6 DEF BridgeTyped, PumpHolds
<1>8. ASSUME NEW p \in Pumps, PumpTake(p)
      PROVE  BridgeTyped' /\ PumpHolds'
  <2> DEFINE h == pump[p].handle
  <2>1. h \in Handles
    BY <1>8 DEF PumpTake, PumpHolds
  <2>2. /\ pump' = [pump EXCEPT ![p].at = "next", ![p].completed = @ \cup {h}]
        /\ UNCHANGED <<active, starting, received>>
    BY <1>8 DEF PumpTake
  <2> HIDE DEF h
  <2>3. pump[p] \in Pump /\ pump[p].completed \cup {h} \in SUBSET Handles
    BY <2>1 DEF BridgeTyped, Pump
  <2>4. pump' \in [Pumps -> Pump] /\ pump'[p].at = "next"
    BY <2>2, <2>3 DEF BridgeTyped, Pump
  <2>5. \A q \in Pumps \ {p} : pump'[q] = pump[q]
    BY <2>2 DEF BridgeTyped
  <2> QED
    BY <2>2, <2>4, <2>5 DEF BridgeTyped, PumpHolds
<1>9. ASSUME NEW p \in Pumps, PumpFails(p)
      PROVE  BridgeTyped' /\ PumpHolds'
  BY <1>9 DEF PumpFails, Resting, BridgeTyped, Pump, PumpHolds
<1>10. ASSUME NEW p \in Pumps, PumpReturn(p)
       PROVE  BridgeTyped' /\ PumpHolds'
  <2>1. received \o pump[p].frames \in Seq(Frame)
    BY DEF BridgeTyped, Pump
  <2>2. received' \in Seq(Frame)
    BY <1>10, <2>1 DEF PumpReturn
  <2> QED
    BY <1>10, <2>2 DEF PumpReturn, Resting, BridgeTyped, Pump, PumpHolds
<1>11. CASE UNCHANGED <<vars, bridgeVars>>
  BY <1>11 DEF bridgeVars, BridgeTyped, PumpHolds
<1> QED
  BY <1>1, <1>2, <1>3, <1>4, <1>5, <1>6, <1>7, <1>8, <1>9, <1>10, <1>11
     DEF BridgeNext, Host

(* Completed handles have no entry, and a handle is remembered from the    *)
(* moment its entry exists until after the entry is gone.                  *)
LEMMA BridgeMemoryStep ==
  ASSUME BridgeInv, IInv', [Next]_vars, [BridgeNext]_<<vars, bridgeVars>>
  PROVE  CompletedGone' /\ EntriesRemembered'
<1>0. TypeOK /\ BridgeTyped /\ PumpHolds /\ CompletedGone /\ EntriesRemembered /\ IInv
  BY DEF BridgeInv, IInv
<1> USE <1>0
<1>a. /\ nextHandle' \in {nextHandle, nextHandle + 1}
      /\ \A h \in Handles :
           h # nextHandle /\ status[h] = "absent" => status'[h] = "absent"
      /\ \A h \in Handles :
           h < nextHandle /\ status[h] = "absent" => status'[h] = "absent"
      /\ nextHandle' = nextHandle =>
           \A h \in Handles : status[h] = "absent" => status'[h] = "absent"
  BY EntriesStep
<1>b. /\ nextHandle \in Nat /\ \A h \in Handles : h \in Nat
      /\ \A h \in Handles \cup {0} : h < nextHandle => h < nextHandle'
      /\ 0 < nextHandle /\ 0 < nextHandle'
  BY <1>a DEF TypeOK, Handles
<1>c. /\ active \subseteq Handles /\ starting \subseteq Handles
      /\ \A p \in Pumps : /\ pump[p].todo \subseteq Handles
                          /\ pump[p].completed \subseteq Handles
                          /\ pump[p].handle \in Handles \cup {0}
  BY DEF BridgeTyped, Pump
(* the handles known to the bridge and to the pumps are older than before  *)
<1>d. /\ \A h \in active \cup starting : h < nextHandle'
      /\ \A p \in Pumps :
           /\ \A h \in pump[p].todo : h < nextHandle'
           /\ pump[p].handle < nextHandle'
           /\ \A h \in pump[p].completed : h < nextHandle' /\ status'[h] = "absent"
  BY <1>a, <1>b, <1>c DEF CompletedGone
<1>1. CASE HandleInvoke
  <2>1. /\ nextHandle \in Handles /\ nextHandle' = nextHandle + 1
        /\ starting' = starting \cup {nextHandle} /\ UNCHANGED <<active, pump>>
    BY <1>1 DEF HandleInvoke, StartInvoke
  <2> QED
    BY <1>a, <1>b, <1>d, <2>1 DEF CompletedGone, EntriesRemembered
<1>2. CASE HandleInvokeRefused \/ DropBridge \/ Background
  <2>1. UNCHANGED bridgeVars
    BY <1>2 DEF HandleInvokeRefused, DropBridge, Background
  <2>2. \A h \in Handles : status[h] = "absent" => status'[h] = "absent"
    <3>1. CASE UNCHANGED status
      BY <3>1
    <3>2. CASE UNCHANGED nextHandle
      BY <1>a, <3>2
    <3> QED
      BY <1>2, <3>1, <3>2
         DEF HandleInvokeRefused, DropBridge, Background, StartBackpressure,
             StartRefused, StartSpawnFails, DropRuntime, WorkerStep, Provider,
             Stopped, IgnoreDelta, WorkerBuildFails, WorkerReceive, WorkerExit,
             TaskBegin, TaskEnd, TaskPanic, AcceptDelta, vars, registryVars
  <2> QED
    BY <1>d, <2>1, <2>2 DEF CompletedGone, EntriesRemembered, bridgeVars
<1>3. ASSUME NEW h \in Handles, HandleInvokeAnswer(h) \/ HandleCancel(h)
      PROVE  CompletedGone' /\ EntriesRemembered'
  <2>1. \A k \in Handles : status[k] = "absent" => status'[k] = "absent"
    BY <1>3, <1>a DEF HandleInvokeAnswer, HandleCancel, CancelLookup, CancelSignal,
                      CancelMark, vars, registryVars
  <2>2. UNCHANGED pump /\ active' \cup starting' = active \cup starting
    BY <1>3 DEF HandleInvokeAnswer, HandleCancel, bridgeVars
  <2> QED
    BY <1>d, <2>1, <2>2 DEF CompletedGone, EntriesRemembered
<1>4. ASSUME NEW p \in Pumps, PumpBegin(p) \/ PumpFails(p)
      PROVE  CompletedGone' /\ EntriesRemembered'
  <2> DEFINE r1 == [Resting EXCEPT !.at = "next"]
             r  == [r1 EXCEPT !.todo = active]
  <2>1. r1 \in Pump /\ r1.handle = 0 /\ r1.completed = {}
    BY RestingType DEF Resting, Pump
  <2> HIDE DEF r1
  <2>2. r.todo = active /\ r.handle = 0 /\ r.completed = {}
    BY <2>1 DEF Pump
  <2> HIDE DEF r
  <2>3. /\ UNCHANGED <<status, active, starting, nextHandle>>
        /\ \E n \in {r, Resting} : pump' = [pump EXCEPT ![p] = n]
    BY <1>4 DEF PumpBegin, PumpFails, r, r1, vars, registryVars
  <2>4. /\ pump'[p].todo \subseteq active /\ pump'[p].handle = 0
        /\ pump'[p].completed = {}
        /\ \A q \in Pumps \ {p} : pump'[q] = pump[q]
    BY <2>2, <2>3 DEF Resting, BridgeTyped
  <2> QED
    BY <1>b, <1>d, <2>3, <2>4 DEF CompletedGone, EntriesRemembered
<1>5. ASSUME NEW p \in Pumps, PumpDrain(p)
      PROVE  CompletedGone' /\ EntriesRemembered'
  <2>1. NextOf(p) \in pump[p].todo
    BY <1>5, NextOfType DEF PumpDrain
  <2>2. /\ UNCHANGED <<status, active, starting, nextHandle>>
        /\ pump'[p].todo \subseteq pump[p].todo /\ pump'[p].handle = NextOf(p)
        /\ pump'[p].completed = pump[p].completed
        /\ \A q \in Pumps \ {p} : pump'[q] = pump[q]
    BY <1>5 DEF PumpDrain, DrainEvents, BridgeTyped, Pump
  <2> QED
    BY <1>d, <2>1, <2>2 DEF CompletedGone, EntriesRemembered
<1>6. ASSUME NEW p \in Pumps, PumpGone(p)
      PROVE  CompletedGone' /\ EntriesRemembered'
  <2>1. NextOf(p) \in pump[p].todo /\ status[NextOf(p)] = "absent"
    BY <1>6, NextOfType DEF PumpGone
  <2>2. /\ UNCHANGED <<status, active, starting, nextHandle>>
        /\ pump'[p].todo \subseteq pump[p].todo /\ pump'[p].handle = pump[p].handle
        /\ pump'[p].completed = pump[p].completed \cup {NextOf(p)}
        /\ \A q \in Pumps \ {p} : pump'[q] = pump[q]
    BY <1>6 DEF PumpGone, vars, registryVars, BridgeTyped, Pump
  <2> QED
    BY <1>d, <2>1, <2>2 DEF CompletedGone, EntriesRemembered
<1>7. ASSUME NEW p \in Pumps, PumpPoll(p)
      PROVE  CompletedGone' /\ EntriesRemembered'
  <2>1. /\ UNCHANGED <<status, active, starting, nextHandle>>
        /\ pump'[p].todo = pump[p].todo /\ pump'[p].handle = pump[p].handle
        /\ pump'[p].completed = pump[p].completed
        /\ \A q \in Pumps \ {p} : pump'[q] = pump[q]
    BY <1>7 DEF PumpPoll, vars, registryVars, BridgeTyped, Pump
  <2> QED
    BY <1>d, <2>1 DEF CompletedGone, EntriesRemembered
<1>8. ASSUME NEW p \in Pumps, PumpTake(p)
      PROVE  CompletedGone' /\ EntriesRemembered'
  <2> DEFINE h == pump[p].handle
  <2>1. h \in Handles /\ h < nextHandle
    BY <1>8 DEF PumpTake, PumpHolds, CompletedGone
  <2>2. /\ status' = [status EXCEPT ![h] = "absent"]
        /\ UNCHANGED <<active, starting, nextHandle>>
        /\ pump' = [pump EXCEPT ![p].at = "next", ![p].completed = @ \cup {h}]
    BY <1>8 DEF PumpTake, TakeInvocation, Remove
  <2> HIDE DEF h
  <2>3. /\ pump'[p].todo = pump[p].todo /\ pump'[p].handle = pump[p].handle
        /\ pump'[p].completed = pump[p].completed \cup {h}
        /\ \A q \in Pumps \ {p} : pump'[q] = pump[q]
    BY <2>2 DEF BridgeTyped, Pump
  <2>4. /\ status'[h] = "absent"
        /\ \A k \in Handles : status[k] = "absent" => status'[k] = "absent"
    BY <2>1, <2>2 DEF TypeOK
  <2> QED
    BY <1>d, <2>1, <2>2, <2>3, <2>4, ZenonT(40) DEF CompletedGone, EntriesRemembered
<1>9. ASSUME NEW p \in Pumps, PumpReturn(p)
      PROVE  CompletedGone' /\ EntriesRemembered'
  <2>1. /\ UNCHANGED <<status, starting, nextHandle>>
        /\ active' = active \ pump[p].completed
        /\ pump'[p].todo = {} /\ pump'[p].handle = 0 /\ pump'[p].completed = {}
        /\ \A q \in Pumps \ {p} : pump'[q] = pump[q]
    BY <1>9 DEF PumpReturn, Resting, vars, registryVars, BridgeTyped
  <2> QED
    BY <1>b, <1>d, <2>1 DEF CompletedGone, EntriesRemembered
<1>10. CASE UNCHANGED <<vars, bridgeVars>>
  BY <1>10, <1>d DEF vars, registryVars, bridgeVars, CompletedGone, EntriesRemembered
<1> QED
  BY <1>1, <1>2, <1>3, <1>4, <1>5, <1>6, <1>7, <1>8, <1>9, <1>10 DEF BridgeNext, Host

LEMMA BridgeInvariance == BridgeSpec => []BridgeInv /\ [][Next]_vars
<1>1. BridgeInv /\ [BridgeNext]_<<vars, bridgeVars>> => BridgeInv'
  <2> SUFFICES ASSUME BridgeInv, [BridgeNext]_<<vars, bridgeVars>> PROVE BridgeInv'
    OBVIOUS
  <2>1. [Next]_vars /\ IInv
    BY BridgeStepsRegistry DEF BridgeInv
  <2>2. IInv'
    BY <2>1, NextType, NextExact, NextTask, NextSignal DEF IInv
  <2>3. BridgeTyped' /\ PumpHolds'
    BY BridgeTypedStep
  <2>4. CompletedGone' /\ EntriesRemembered'
    BY <2>1, <2>2, BridgeMemoryStep
  <2> QED
    BY <2>2, <2>3, <2>4 DEF BridgeInv
<1> QED
  BY <1>1, BridgeInitInv, BridgeStepsRegistry, PTL DEF BridgeSpec

-----------------------------------------------------------------------------
(* Theorems *)

(* The bridge implements the registry: whatever hosts and pumps do, the    *)
(* registry behind the bridge behaves as it does for an application that   *)
(* calls it directly.                                                      *)
THEOREM BridgeImplementsRegistry == BridgeSpec => Spec
<1>1. BridgeInit => Init
  BY DEF BridgeInit
<1> QED
  BY <1>1, BridgeInvariance, PTL DEF BridgeSpec, Spec

(* The bridge's variables keep their types, and a pump that polls or takes *)
(* has a handle.                                                           *)
THEOREM BridgeTypes == BridgeSpec => []BridgeTypeOK
<1>1. BridgeInv => BridgeTypeOK
  BY DEF BridgeInv, BridgeTyped, Pump, BridgeTypeOK
<1> QED
  BY <1>1, BridgeInvariance, PTL

(* Every entry is in active_invocations or about to be answered: no error  *)
(* of drain_events, no eviction and no second pump makes the bridge forget *)
(* a handle that still has an entry.                                       *)
THEOREM EntriesAreRemembered == BridgeSpec => []EntriesRemembered
<1>1. BridgeInv => EntriesRemembered
  BY DEF BridgeInv
<1> QED
  BY <1>1, BridgeInvariance, PTL

(* What is proved of the registry alone holds of the one behind a bridge.  *)
THEOREM BridgeKeepsRegistry ==
  BridgeSpec => /\ []ActiveCountExact /\ []RetentionExact
                /\ []CancelledIsSignalled /\ []DropWaitsForAll
                /\ []StreamOrdered /\ []TerminalEventKept /\ []GapsRevealLoss
                /\ ResultIsFinal /\ ImplementsLifecycle
BY BridgeImplementsRegistry, ActiveCountIsExact, RetentionIsExact,
   CancellationSignalled, DropJoinsAll, StreamsAreOrdered, TerminalEventsAreKept,
   GapsAlwaysRevealLoss, ResultsAreFinal, InvocationsKeepTheirLifecycle, PTL

=============================================================================
