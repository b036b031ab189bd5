---------------------------- MODULE RuntimeBridge ----------------------------
(***************************************************************************)
(* The engine-neutral bridge over the embedded runtime                     *)
(* (crates/vifu-runtime/src/bridge.rs), composed with the invocation       *)
(* registry it drives.  Hosts send runtime.invoke and runtime.cancel       *)
(* requests and pump drain_events from threads of their own; the bridge    *)
(* remembers the handles it started in active_invocations.                 *)
(*                                                                         *)
(* drain_events takes the registry mutex three times per handle (drain,    *)
(* poll, take) and its own mutex twice, so each is an action here and the  *)
(* worker may run in between.  An error half-way loses the frames the call *)
(* has gathered.  The host reaches the runtime through the bridge only.    *)
(***************************************************************************)
EXTENDS InvocationRegistry

CONSTANT Pumps   \* host threads that call drain_events

VARIABLES
  active,    \* active_invocations
  starting,  \* handles that start_invoke returned to handle_invoke
  pump,      \* where each call of drain_events stands
  received   \* history: the frames that were returned to the host

bridgeVars == <<active, starting, pump, received>>

Frame == [handle : Handles, event : Event, output : BOOLEAN]

Resting == [at |-> "rest", todo |-> {}, handle |-> 0, batch |-> <<>>,
            frames |-> <<>>, completed |-> {}]

BridgeInit ==
  /\ Init
  /\ active = {}
  /\ starting = {}
  /\ pump = [p \in Pumps |-> Resting]
  /\ received = <<>>

-----------------------------------------------------------------------------
(* Requests *)

(* handle_invoke: start_invoke, ...                                        *)
HandleInvoke ==
  /\ StartInvoke
  /\ starting' = starting \cup {nextHandle}
  /\ UNCHANGED <<active, pump, received>>

HandleInvokeRefused ==
  /\ StartBackpressure \/ StartRefused \/ StartSpawnFails
  /\ UNCHANGED bridgeVars

(* ... then remember the handle under the bridge's mutex and answer        *)
HandleInvokeAnswer(h) ==
  /\ h \in starting
  /\ active' = active \cup {h}
  /\ starting' = starting \ {h}
  /\ UNCHANGED <<vars, pump, received>>

(* handle_cancel: the host knows a handle once the invoke was answered     *)
HandleCancel(h) ==
  /\ h \notin starting
  /\ CancelLookup(h) \/ CancelSignal(h) \/ CancelMark(h)
  /\ UNCHANGED bridgeVars

-----------------------------------------------------------------------------
(* drain_events *)

PumpBegin(p) ==
  /\ ApiOpen
  /\ pump[p].at = "rest"
  /\ pump' = [pump EXCEPT ![p] = [Resting EXCEPT !.at = "next", !.todo = active]]
  /\ UNCHANGED <<vars, active, starting, received>>

NextOf(p) == CHOOSE h \in pump[p].todo : \A k \in pump[p].todo : h <= k

(* drain_invocation_events found the entry *)
PumpDrain(p) ==
  /\ pump[p].at = "next"
  /\ pump[p].todo # {}
  /\ LET h == NextOf(p) IN
     /\ DrainEvents(h)
     /\ pump' = [pump EXCEPT ![p].at = "poll", ![p].todo = @ \ {h},
                             ![p].handle = h, ![p].batch = events[h]]
  /\ UNCHANGED <<active, starting, received>>

(* Mutation: a handle without an entry is skipped but not forgotten.       *)
PumpGone_Keep(p) ==
  /\ pump[p].at = "next"
  /\ pump[p].todo # {}
  /\ LET h == NextOf(p) IN
     /\ status[h] = "absent"
     /\ pump' = [pump EXCEPT ![p].todo = @ \ {h}]
  /\ UNCHANGED <<vars, active, starting, received>>

(* drain_invocation_events says InvocationNotFound: forget the handle *)
PumpGone(p) ==
  /\ pump[p].at = "next"
  /\ pump[p].todo # {}
  /\ LET h == NextOf(p) IN
     /\ status[h] = "absent"
     /\ pump' = [pump EXCEPT ![p].todo = @ \ {h}, ![p].completed = @ \cup {h}]
  /\ UNCHANGED <<vars, active, starting, received>>

FramesOf(p, s) ==
  [i \in 1..Len(pump[p].batch) |->
     [handle |-> pump[p].handle, event |-> pump[p].batch[i],
      output |-> pump[p].batch[i].kind = "completed" /\ s = "completed"]]

(* poll_invocation: its status decides whether the handle is finished *)
PumpPoll(p) ==
  /\ pump[p].at = "poll"
  /\ LET s == status[pump[p].handle] IN
     /\ s # "absent"
     /\ pump' = [pump EXCEPT ![p].at = IF s \in Terminal THEN "take" ELSE "next",
                             ![p].frames = @ \o FramesOf(p, s),
                             ![p].batch = <<>>]
  /\ UNCHANGED <<vars, active, starting, received>>

PumpTake(p) ==
  /\ pump[p].at = "take"
  /\ TakeInvocation(pump[p].handle)
  /\ pump' = [pump EXCEPT ![p].at = "next",
                          ![p].completed = @ \cup {pump[p].handle}]
  /\ UNCHANGED <<active, starting, received>>

(* poll_invocation or take_invocation fails, because the entry was evicted *)
(* or taken by another pump: `?` returns and the gathered frames are gone  *)
PumpFails(p) ==
  /\ pump[p].at \in {"poll", "take"}
  /\ status[pump[p].handle] = "absent"
  /\ pump' = [pump EXCEPT ![p] = Resting]
  /\ UNCHANGED <<vars, active, starting, received>>

(* Mutation: all handles are forgotten once one has completed.             *)
PumpReturn_ForgetAll(p) ==
  /\ pump[p].at = "next"
  /\ pump[p].todo = {}
  /\ active' = IF pump[p].completed = {} THEN active ELSE {}
  /\ received' = received \o pump[p].frames
  /\ pump' = [pump EXCEPT ![p] = Resting]
  /\ UNCHANGED <<vars, starting>>

(* forget the completed handles and return the frames *)
PumpReturn(p) ==
  /\ pump[p].at = "next"
  /\ pump[p].todo = {}
  /\ active' = active \ pump[p].completed
  /\ received' = received \o pump[p].frames
  /\ pump' = [pump EXCEPT ![p] = Resting]
  /\ UNCHANGED <<vars, starting>>

-----------------------------------------------------------------------------
Host ==
  \/ HandleInvoke \/ HandleInvokeRefused
  \/ \E h \in Handles : HandleInvokeAnswer(h) \/ HandleCancel(h)
  \/ \E p \in Pumps : \/ PumpBegin(p) \/ PumpDrain(p) \/ PumpGone(p) \/ PumpPoll(p)
                      \/ PumpTake(p)  \/ PumpFails(p) \/ PumpReturn(p)

(* the bridge, and with it the runtime, is dropped when no call is running *)
DropBridge ==
  /\ starting = {}
  /\ \A p \in Pumps : pump[p].at = "rest"
  /\ DropRuntime
  /\ UNCHANGED bridgeVars

Background ==
  /\ WorkerStep \/ Provider \/ Stopped
  /\ UNCHANGED bridgeVars

BridgeNext == Host \/ DropBridge \/ Background

BridgeSpec == BridgeInit /\ [][BridgeNext]_<<vars, bridgeVars>>

(* The worker and calls in progress are scheduled, and the host pumps.     *)
BridgeFairness ==
  /\ WF_<<vars, bridgeVars>>(WorkerReceive /\ UNCHANGED bridgeVars)
  /\ WF_<<vars, bridgeVars>>(WorkerExit /\ UNCHANGED bridgeVars)
  /\ \A h \in Handles :
       /\ WF_<<vars, bridgeVars>>(TaskBegin(h) /\ UNCHANGED bridgeVars)
       /\ WF_<<vars, bridgeVars>>(HandleInvokeAnswer(h))
  /\ \A p \in Pumps :
       /\ WF_<<vars, bridgeVars>>(PumpBegin(p))
       /\ WF_<<vars, bridgeVars>>(PumpDrain(p) \/ PumpGone(p))
       /\ WF_<<vars, bridgeVars>>(PumpPoll(p) \/ PumpTake(p) \/ PumpFails(p))
       /\ WF_<<vars, bridgeVars>>(PumpReturn(p))

FairBridgeSpec == BridgeSpec /\ BridgeFairness

-----------------------------------------------------------------------------
(* The bridge's own state keeps its types.                                 *)
BridgeTypeOK ==
  /\ active \subseteq Handles
  /\ starting \subseteq Handles
  /\ received \in Seq(Frame)
  /\ \A p \in Pumps :
       /\ pump[p].at \in {"rest", "next", "poll", "take"}
       /\ pump[p].todo \subseteq Handles
       /\ pump[p].completed \subseteq Handles
       /\ pump[p].handle \in Handles \cup {0}
       /\ pump[p].batch \in Seq(Event)
       /\ pump[p].frames \in Seq(Frame)

(* No entry outlives the bridge's memory of it: take_invocation comes      *)
(* before active.remove and insert before the answer, so every entry of    *)
(* the registry is one a later drain_events will look at, even after a     *)
(* call of drain_events failed half-way.                                   *)
EntriesRemembered ==
  \A h \in Handles : status[h] # "absent" => h \in active \cup starting

(* active_invocations does not grow for ever: every handle is forgotten,   *)
(* unless the bridge is dropped first, the call of its provider never      *)
(* returns, or its task is gone and nobody cancels it.                     *)
HandlesForgotten ==
  \A h \in Handles :
    \/ <>[](task[h] = "invoking")
    \/ h \in active ~> (h \notin active \/ ~ApiOpen \/ Orphaned(h))

(* docs/runtime-embedding.md: "Runtime Bridge clients receive the same     *)
(* ordered events as encoded frames.  Each invocation emits `started`,     *)
(* zero or more `outputDelta` events, and one terminal event."  Once the   *)
(* bridge has forgotten a handle, the host must have its terminal event.   *)
TerminalFrameDelivered ==
  \A h \in Handles :
    task[h] # "none" /\ h \notin active \cup starting =>
      \E i \in 1..Len(received) :
        received[i].handle = h /\ received[i].event.kind \in Terminal
=============================================================================
