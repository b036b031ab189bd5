--------------------------- MODULE RelayHubProofs ---------------------------
(***************************************************************************)
(* Proofs about RelayHub for any set of gateways, connections and          *)
(* requests, any queue capacity: entries, answers and Cancel commands stay *)
(* with the call they belong to, although the hub's mutex covers only one  *)
(* critical section each.                                                  *)
(***************************************************************************)
EXTENDS RelayHub, TLAPS

Abandoned == {"cancelled", "timeout", "unavailable", "dropped"}

(* What has come to a call, by where the call stands.                      *)
SignalMatches(r) ==
  /\ call[r] \in {"idle", "entered"} => signal[r] = "none"
  /\ call[r] = "refused" => signal[r] \in {"backpressure", "unavailable"}
  /\ call[r] \in Waiting => signal[r] \in {"none", "cancelled", "timeout"}
  /\ call[r] \in {"aborting", "cancelling"} => signal[r] \in Abandoned

(* A call under way has a connection.                                      *)
Linked(r) == call[r] \notin {"idle", "done"} => link[r] \in Connections

(* A call that has not begun has left no trace.                            *)
Untouched(r) ==
  call[r] = "idle" =>
    /\ pending[r] = NoConnection /\ answeredBy[r] = NoConnection
    /\ hand[r].stage = "none" /\ answer[r] = "none" /\ result[r] = "none"

(* The answer of a call travels from the entry through the hand into the   *)
(* oneshot channel and the result; the entry is gone once it has left.     *)
AnswerTravels(r) ==
  /\ pending[r] \in {NoConnection, link[r]}
  /\ answeredBy[r] \in {NoConnection, link[r]}
  /\ hand[r].stage # "none" \/ answer[r] # "none" => pending[r] = NoConnection
  /\ hand[r].stage # "none" => hand[r].value # "none"
  /\ \/ hand[r].stage # "none" /\ hand[r].value # "unavailable"
     \/ answer[r] \in {"ok", "error"}
     \/ result[r] \in {"ok", "error"}
     => answeredBy[r] = link[r]

(* Where the entry of a call is, by where the call stands.                 *)
EntryMatches(r) ==
  /\ call[r] \in Waiting \cup {"entered"} =>
       pending[r] = link[r] \/ hand[r].stage = "removed" \/ answer[r] # "none"
  /\ call[r] = "cancelling" => pending[r] = NoConnection
  /\ call[r] = "done" /\ result[r] # "dropped" => pending[r] = NoConnection

CallOK(r) ==
  Linked(r) /\ SignalMatches(r) /\ Untouched(r) /\ AnswerTravels(r) /\ EntryMatches(r)

CallsOK == \A r \in Requests : CallOK(r)

Holds(q, x) == \E i \in 1..Len(q) : q[i] = x

Queued(c, kind, r) == Holds(queue[c], Command(kind, r))

(* The Invoke of a call has been sent.                                     *)
Sent(r) == r \in seen \/ Queued(link[r], "invoke", r)

(* The Cancel of a call has been sent, or a spawned task holds it.         *)
GivenUp(r) ==
  r \in told \/ r \in parked \/ \E c \in Connections : Queued(c, "cancel", r)

InOrder(q) ==
  \A r \in Requests : \A i, j \in 1..Len(q) :
    q[i] = Command("cancel", r) /\ q[j] = Command("invoke", r) => j < i

(* A Cancel is sent once the call is over, to the connection it was sent   *)
(* over, and behind its Invoke.                                            *)
CommandOK(r) ==
  /\ call[r] \in Waiting \cup {"aborting", "cancelling"} => Sent(r)
  /\ GivenUp(r) => Sent(r) /\ call[r] = "done" /\ signal[r] \in Abandoned
  /\ r \in told => r \in seen
  /\ r \in parked => link[r] \in Connections
  /\ \A c \in Connections : Queued(c, "cancel", r) => c = link[r]

CommandsOK ==
  /\ \A r \in Requests : CommandOK(r)
  /\ \A c \in Connections : InOrder(queue[c])

(* The Invoke of a call is on its way, or has been answered.               *)
Known(r) ==
  \/ r \in seen \/ answeredBy[r] # NoConnection
  \/ \E c \in Connections : Queued(c, "invoke", r)

Unsent == {"idle", "entered", "refused"}

(* The answer of a call is what it returned, and will be what it returns   *)
(* unless it has given up.                                                 *)
AnswerOK(r) ==
  /\ call[r] \in Unsent => ~Known(r)
  /\ call[r] \in {"aborting", "cancelling"} /\ signal[r] = "unavailable" =>
       link[r] \in Negotiated
  /\ call[r] = "done" /\ answer[r] \in {"ok", "error"} =>
       \/ result[r] \in {answer[r], "timeout", "cancelled", "dropped"}
       \/ result[r] = "unavailable" /\ link[r] \in Negotiated

AnswersOK == \A r \in Requests : AnswerOK(r)

Inv == TypeOK /\ CallsOK /\ CommandsOK /\ NewestIsCurrent /\ AnswersOK

-----------------------------------------------------------------------------
(* Types *)

LEMMA CommandTypes ==
  /\ \A r \in Requests, k \in {"invoke", "cancel"} : Command(k, r) \in Commands
  /\ \A k \in {"replaced", "revoked", "notice"} : [kind |-> k] \in Commands
BY DEF Command, Commands

(* A sender that found room keeps the queue a bounded queue of commands.   *)
LEMMA AppendType ==
  ASSUME NEW q \in Seq(Commands), Len(q) < Capacity, NEW x \in Commands
  PROVE  Append(q, x) \in Seq(Commands) /\ Len(Append(q, x)) <= Capacity
BY RelayAssumption

LEMMA TailType ==
  ASSUME NEW q \in Seq(Commands), q # <<>>, Len(q) <= Capacity
  PROVE  /\ Head(q) \in Commands
         /\ Tail(q) \in Seq(Commands) /\ Len(Tail(q)) <= Capacity
BY RelayAssumption

LEMMA InitInv == Init => Inv
<1> SUFFICES ASSUME Init PROVE Inv
  OBVIOUS
<1>1. TypeOK
  <2>1. <<>> \in Seq(Commands) /\ Len(<<>>) <= Capacity
    BY RelayAssumption
  <2> QED
    BY <2>1, RelayAssumption DEF Init, TypeOK, Idle, Waiting
<1>2. CallsOK
  BY RelayAssumption
     DEF Init, CallsOK, CallOK, Linked, SignalMatches, Untouched, AnswerTravels,
         EntryMatches, Waiting, Idle
<1>3. CommandsOK
  BY DEF Init, CommandsOK, CommandOK, Queued, Holds, GivenUp, Sent, Waiting, InOrder
<1>4. NewestIsCurrent
  BY DEF Init, NewestIsCurrent
<1>5. AnswersOK
  BY DEF Init, AnswersOK, AnswerOK, Known, Queued, Holds, Unsent
<1> QED
  BY <1>1, <1>2, <1>3, <1>4, <1>5 DEF Inv

(* A step of a call, or of the task that answers it, leaves the queues     *)
(* alone; every other action sends or takes one command, or none.          *)
LEMMA NextType == TypeOK /\ [Next]_vars => TypeOK'
<1> SUFFICES ASSUME TypeOK, [Next]_vars PROVE TypeOK'
  OBVIOUS
<1> USE DEF TypeOK, stateVars, callVars, watchVars, socketVars, Waiting
<1>1. ASSUME NEW r \in Requests, InvokeUnavailable(r) \/ InvokeEnter(r)
      PROVE  TypeOK'
  <2>1. CASE InvokeUnavailable(r)
    BY <2>1, RelayAssumption DEF InvokeUnavailable, Goto, Return
  <2>2. CASE InvokeEnter(r)
    BY <2>2, RelayAssumption DEF InvokeEnter, Goto
  <2> QED
    BY <1>1, <2>1, <2>2
<1>2. ASSUME NEW r \in Requests, InvokeSend(r) PROVE TypeOK'
  <2>1. CASE link[r] \in Connections
    <3>1. /\ Append(queue[link[r]], Command("invoke", r)) \in Seq(Commands)
          /\ Len(Append(queue[link[r]], Command("invoke", r))) <= Capacity
      BY <1>2, <2>1, AppendType, CommandTypes DEF InvokeSend, HasRoom
    <3> QED
      BY <1>2, <2>1, <3>1 DEF InvokeSend, Goto
  <2>2. CASE link[r] \notin Connections
    BY <1>2, <2>2 DEF InvokeSend, Goto
  <2> QED
    BY <2>1, <2>2
<1>3. ASSUME NEW r \in Requests, InvokeRefused(r) \/ InvokeWithdraw(r) PROVE TypeOK'
  <2>1. CASE InvokeRefused(r)
    BY <2>1 DEF InvokeRefused, Goto
  <2>2. CASE InvokeWithdraw(r)
    BY <2>2 DEF InvokeWithdraw, Goto, Return
  <2> QED
    BY <1>3, <2>1, <2>2
<1>4. ASSUME NEW r \in Requests,
             PollResponse(r) \/ PollActivity(r) \/ PollActivityClosed(r) \/ PollSignal(r)
      PROVE  TypeOK'
  <2>1. CASE PollResponse(r)
    <3>1. answer[r] \in {"none", "ok", "error", "unavailable"}
      OBVIOUS
    <3>2. CASE answer[r] # "none"
      <4>1. /\ call' = [call EXCEPT ![r] = "done"]
            /\ result' = [result EXCEPT ![r] = answer[r]]
        BY <2>1, <3>2 DEF PollResponse, Goto, Return
      <4> QED
        BY <2>1, <3>1, <4>1 DEF PollResponse
    <3>3. CASE answer[r] = "none"
      BY <2>1, <3>3 DEF PollResponse, Goto
    <3> QED
      BY <3>2, <3>3
  <2>2. CASE PollActivity(r)
    BY <2>2 DEF PollActivity, Goto
  <2>3. CASE PollActivityClosed(r)
    BY <2>3 DEF PollActivityClosed, Goto
  <2>4. CASE PollSignal(r)
    BY <2>4 DEF PollSignal, Goto
  <2> QED
    BY <1>4, <2>1, <2>2, <2>3, <2>4
<1>5. ASSUME NEW r \in Requests,
             Suspend(r) \/ Wake(r) \/ AbortRemove(r) \/ Cancel(r) \/ Expire(r) \/ DropCall(r)
      PROVE  TypeOK'
  <2>1. CASE Suspend(r)
    BY <2>1 DEF Suspend, Goto
  <2>2. CASE Wake(r)
    BY <2>2 DEF Wake, Goto
  <2>3. CASE AbortRemove(r)
    BY <2>3 DEF AbortRemove, Goto
  <2>4. CASE Cancel(r)
    BY <2>4 DEF Cancel, Fire
  <2>5. CASE Expire(r)
    BY <2>5 DEF Expire, Fire
  <2>6. CASE DropCall(r)
    <3>1. CASE Goto(r, "aborting") /\ signal' = [signal EXCEPT ![r] = "dropped"] /\ UNCHANGED result
      BY <2>6, <3>1 DEF DropCall, Goto
    <3>2. CASE Return(r, "dropped") /\ UNCHANGED signal
      BY <2>6, <3>2 DEF DropCall, Goto, Return
    <3> QED
      BY <2>6, <3>1, <3>2 DEF DropCall
  <2> QED
    BY <1>5, <2>1, <2>2, <2>3, <2>4, <2>5, <2>6
<1>6. ASSUME NEW r \in Requests, AbortCancel(r) PROVE TypeOK'
  <2>1. CASE link[r] \in Connections /\ HasRoom(link[r])
    <3>1. /\ Append(queue[link[r]], Command("cancel", r)) \in Seq(Commands)
          /\ Len(Append(queue[link[r]], Command("cancel", r))) <= Capacity
      BY <2>1, AppendType, CommandTypes DEF HasRoom
    <3> QED
      BY <1>6, <2>1, <3>1, ZenonT(40) DEF AbortCancel, Return, Goto
  <2>2. CASE ~(link[r] \in Connections /\ HasRoom(link[r]))
    BY <1>6, <2>2 DEF AbortCancel, Return, Goto
  <2> QED
    BY <2>1, <2>2
<1>7. ASSUME NEW r \in Requests, ParkedSend(r) PROVE TypeOK'
  <2>1. CASE link[r] \in Connections /\ HasRoom(link[r])
    <3>1. /\ Append(queue[link[r]], Command("cancel", r)) \in Seq(Commands)
          /\ Len(Append(queue[link[r]], Command("cancel", r))) <= Capacity
      BY <2>1, AppendType, CommandTypes DEF HasRoom
    <3>2. queue' = queue \/ queue' = [queue EXCEPT ![link[r]] = Append(@, Command("cancel", r))]
      BY <1>7 DEF ParkedSend
    <3>3. /\ queue' \in [Connections -> Seq(Commands)]
          /\ \A c \in Connections : Len(queue'[c]) <= Capacity
      BY <2>1, <3>1, <3>2, ZenonT(40)
    <3> QED
      BY <1>7, <3>3 DEF ParkedSend
  <2>2. CASE ~(link[r] \in Connections /\ HasRoom(link[r]))
    BY <1>7, <2>2 DEF ParkedSend
  <2> QED
    BY <2>1, <2>2
<1>8. ASSUME NEW r \in Requests, HandSend(r) \/ HandDrop(r) PROVE TypeOK'
  <2>1. CASE HandSend(r)
    <3>1. /\ hand[r] \in [stage : {"none", "removed", "sent"},
                          value : {"none", "ok", "error", "unavailable"},
                          by : Connections \cup {NoConnection}]
          /\ hand[r].value \in {"none", "ok", "error", "unavailable"}
      OBVIOUS
    <3>2. [hand[r] EXCEPT !.stage = "sent"]
            \in [stage : {"none", "removed", "sent"},
                 value : {"none", "ok", "error", "unavailable"},
                 by : Connections \cup {NoConnection}]
      BY <3>1
    <3>3. hand' \in [Requests -> [stage : {"none", "removed", "sent"},
                                  value : {"none", "ok", "error", "unavailable"},
                                  by : Connections \cup {NoConnection}]]
      BY <2>1, <3>2 DEF HandSend
    <3>4. answer' \in [Requests -> {"none", "ok", "error", "unavailable"}]
      BY <2>1, <3>1 DEF HandSend
    <3> QED
      BY <2>1, <3>3, <3>4 DEF HandSend
  <2>2. CASE HandDrop(r)
    BY <2>2 DEF HandDrop, Idle
  <2> QED
    BY <1>8, <2>1, <2>2
<1>9. ASSUME NEW c \in Connections, Register(c) \/ Break(c) \/ BreakEarly(c) \/ Close(c)
      PROVE  TypeOK'
  <2>1. CASE Register(c)
    BY <2>1, RelayAssumption DEF Register
  <2>2. CASE Break(c)
    BY <2>2, RelayAssumption DEF Break, Serving
  <2>3. CASE BreakEarly(c)
    BY <2>3, RelayAssumption DEF BreakEarly, Serving
  <2>4. CASE Close(c)
    BY <2>4, RelayAssumption DEF Close
  <2> QED
    BY <1>9, <2>1, <2>2, <2>3, <2>4
<1>10. ASSUME NEW c \in Connections, RegisterNotify(c) PROVE TypeOK'
  <2>1. CASE replaced[c] \in Connections /\ HasRoom(replaced[c])
    <3>1. /\ Append(queue[replaced[c]], [kind |-> "replaced"]) \in Seq(Commands)
          /\ Len(Append(queue[replaced[c]], [kind |-> "replaced"])) <= Capacity
      BY <2>1, AppendType, CommandTypes DEF HasRoom
    <3>2. \/ queue' = queue
          \/ queue' = [queue EXCEPT ![replaced[c]] = Append(@, [kind |-> "replaced"])]
      BY <1>10 DEF RegisterNotify
    <3>3. /\ queue' \in [Connections -> Seq(Commands)]
          /\ \A d \in Connections : Len(queue'[d]) <= Capacity
      BY <2>1, <3>1, <3>2, ZenonT(40)
    <3> QED
      BY <1>10, <3>3 DEF RegisterNotify
  <2>2. CASE ~(replaced[c] \in Connections /\ HasRoom(replaced[c]))
    BY <1>10, <2>2 DEF RegisterNotify
  <2> QED
    BY <2>1, <2>2
<1>11. ASSUME NEW c \in Connections, Forward(c) PROVE TypeOK'
  <2>1. /\ Head(queue[c]) \in Commands
        /\ Tail(queue[c]) \in Seq(Commands) /\ Len(Tail(queue[c])) <= Capacity
    BY <1>11, TailType DEF Forward
  <2>2. Head(queue[c]).kind \in {"invoke", "cancel"} => Head(queue[c]).request \in Requests
    BY <2>1 DEF Commands
  <2> QED
    BY <1>11, <2>1, <2>2 DEF Forward
<1>12. ASSUME NEW c \in Connections, Unregister(c) PROVE TypeOK'
  BY <1>12, RelayAssumption DEF Unregister
<1>13. ASSUME NEW c \in Connections, NEW r \in Requests, RecordActivity(c, r) PROVE TypeOK'
  BY <1>13, RelayAssumption DEF RecordActivity
<1>14. ASSUME NEW c \in Connections, NEW r \in Requests, NEW v \in {"ok", "error"},
              Complete(c, r, v)
       PROVE  TypeOK'
  BY <1>14 DEF Complete
<1>15. ASSUME NEW g \in Gateways, NEW k \in {"revoked", "notice"}, Notify(g, k) PROVE TypeOK'
  <2>1. current[g] \in Connections
    BY <1>15 DEF Notify
  <2>2. /\ Append(queue[current[g]], [kind |-> k]) \in Seq(Commands)
        /\ Len(Append(queue[current[g]], [kind |-> k])) <= Capacity
    BY <1>15, <2>1, AppendType, CommandTypes DEF Notify, HasRoom
  <2>3. queue' = [queue EXCEPT ![current[g]] = Append(@, [kind |-> k])]
    BY <1>15 DEF Notify
  <2>4. /\ queue' \in [Connections -> Seq(Commands)]
        /\ \A c \in Connections : Len(queue'[c]) <= Capacity
    BY <2>1, <2>2, <2>3
  <2>5. notices' \in 0..MaxNotices
    BY <1>15, RelayAssumption DEF Notify
  <2> QED
    BY <1>15, <2>4, <2>5 DEF Notify
<1>16. CASE UNCHANGED vars
  BY <1>16 DEF vars
<1> QED
  BY <1>1, <1>2, <1>3, <1>4, <1>5, <1>6, <1>7, <1>8, <1>9, <1>10, <1>11, <1>12, <1>13,
     <1>14, <1>15, <1>16, SMTT(30)
     DEF Next, Task, Socket

-----------------------------------------------------------------------------
(* Calls and their answers *)

(* What CallOK(r) looks at.                                                *)
View(r) == <<call[r], link[r], signal[r], pending[r], answeredBy[r], hand[r], answer[r],
             result[r]>>

LEMMA SameView ==
  ASSUME NEW r \in Requests, CallOK(r), UNCHANGED View(r)
  PROVE  CallOK(r)'
BY DEF CallOK, Linked, SignalMatches, Untouched, AnswerTravels, EntryMatches, View

LEMMA OneCall ==
  ASSUME CallsOK, NEW r \in Requests, CallOK(r)',
         \A q \in Requests : q # r => UNCHANGED View(q)
  PROVE  CallsOK'
BY SameView DEF CallsOK

(* The steps of a call, and of the task that answers it.                   *)
CallStep(r) ==
  \/ InvokeUnavailable(r) \/ InvokeEnter(r) \/ Task(r) \/ Cancel(r) \/ Expire(r)
  \/ DropCall(r) \/ HandSend(r) \/ HandDrop(r)

(* No step of a call shows in another call.                                  *)
LEMMA OthersKeep ==
  ASSUME TypeOK, CallsOK, NEW r \in Requests, CallStep(r)
  PROVE  \A q \in Requests : q # r => UNCHANGED View(q)
<1> USE DEF TypeOK, View, stateVars, callVars, watchVars, socketVars
<1>1. CASE InvokeUnavailable(r)
  BY <1>1 DEF InvokeUnavailable, Goto, Return
<1>2. CASE InvokeEnter(r)
  BY <1>2 DEF InvokeEnter, Goto
<1>3. CASE InvokeSend(r)
  BY <1>3 DEF InvokeSend, Goto
<1>4. CASE InvokeRefused(r)
  BY <1>4 DEF InvokeRefused, Goto
<1>5. CASE InvokeWithdraw(r)
  BY <1>5 DEF InvokeWithdraw, Goto, Return
<1>6. CASE PollResponse(r)
  BY <1>6 DEF PollResponse, Goto, Return
<1>7. CASE PollActivity(r)
  BY <1>7 DEF PollActivity, Goto
<1>8. CASE PollActivityClosed(r)
  BY <1>8 DEF PollActivityClosed, Goto
<1>9. CASE PollSignal(r)
  BY <1>9 DEF PollSignal, Goto
<1>10. CASE Suspend(r)
  BY <1>10 DEF Suspend, Goto
<1>11. CASE Wake(r)
  BY <1>11 DEF Wake, Goto
<1>12. CASE AbortRemove(r)
  BY <1>12 DEF AbortRemove, Goto
<1>13. CASE AbortCancel(r)
  BY <1>13 DEF AbortCancel, Goto, Return
<1>14. CASE DropCall(r)
  BY <1>14 DEF DropCall, Goto, Return
<1>15. CASE Cancel(r)
  BY <1>15 DEF Cancel, Fire
<1>16. CASE Expire(r)
  BY <1>16 DEF Expire, Fire
<1>17. CASE HandSend(r)
  BY <1>17 DEF HandSend
<1>18. CASE HandDrop(r)
  BY <1>18 DEF HandDrop, Idle
<1> QED
  BY <1>1, <1>2, <1>3, <1>4, <1>5, <1>6, <1>7, <1>8, <1>9, <1>10, <1>11, <1>12, <1>13, <1>14, <1>15, <1>16, <1>17, <1>18
     DEF CallStep, Task

(* A step of a call keeps its own entry, answer and result consistent.       *)
LEMMA OwnCallOK ==
  ASSUME TypeOK, CallsOK, NEW r \in Requests, CallStep(r)
  PROVE  CallOK(r)'
<1>0. CallOK(r)
  BY DEF CallsOK
<1> USE <1>0 DEF TypeOK, Waiting, Abandoned, stateVars, callVars, watchVars, socketVars,
           CallOK, Linked, SignalMatches, Untouched, AnswerTravels, EntryMatches
<1>1. CASE InvokeUnavailable(r)
  BY <1>1, RelayAssumption DEF InvokeUnavailable, Goto, Return
<1>2. CASE InvokeEnter(r)
  <2>1. current[RouteOf[r]] \in Connections
    <3>1. RouteOf[r] \in Gateways
      BY RelayAssumption
    <3>2. current[RouteOf[r]] # NoConnection
      BY <1>2 DEF InvokeEnter
    <3> QED
      BY <3>1, <3>2
  <2>2. /\ pending'[r] \in Connections /\ link'[r] = pending'[r]
        /\ call'[r] = "entered" /\ signal'[r] = "none" /\ answeredBy'[r] = NoConnection
        /\ hand'[r].stage = "none" /\ answer'[r] = "none" /\ result'[r] = "none"
    BY <1>2, <2>1 DEF InvokeEnter, Goto
  <2> QED
    BY <2>2
<1>3. CASE InvokeSend(r)
  BY <1>3, RelayAssumption DEF InvokeSend, Goto
<1>4. CASE InvokeRefused(r)
  BY <1>4, RelayAssumption DEF InvokeRefused, Goto
<1>5. CASE InvokeWithdraw(r)
  BY <1>5, RelayAssumption DEF InvokeWithdraw, Goto, Return
<1>6. CASE PollResponse(r)
  BY <1>6, RelayAssumption DEF PollResponse, Goto, Return
<1>7. CASE PollActivity(r)
  BY <1>7, RelayAssumption DEF PollActivity, Goto
<1>8. CASE PollActivityClosed(r)
  BY <1>8, RelayAssumption DEF PollActivityClosed, Goto
<1>9. CASE PollSignal(r)
  BY <1>9, RelayAssumption DEF PollSignal, Goto
<1>10. CASE Suspend(r)
  BY <1>10, RelayAssumption DEF Suspend, Goto
<1>11. CASE Wake(r)
  BY <1>11, RelayAssumption DEF Wake, Goto
<1>12. CASE AbortRemove(r)
  BY <1>12, RelayAssumption DEF AbortRemove, Goto
<1>13. CASE AbortCancel(r)
  BY <1>13, RelayAssumption DEF AbortCancel, Goto, Return
<1>14. CASE DropCall(r)
  BY <1>14, RelayAssumption DEF DropCall, Goto, Return
<1>15. CASE Cancel(r)
  BY <1>15, RelayAssumption DEF Cancel, Fire
<1>16. CASE Expire(r)
  BY <1>16, RelayAssumption DEF Expire, Fire
<1>17. CASE HandSend(r)
  BY <1>17, RelayAssumption DEF HandSend
<1>18. CASE HandDrop(r)
  BY <1>18, RelayAssumption DEF HandDrop, Idle
<1> QED
  BY <1>1, <1>2, <1>3, <1>4, <1>5, <1>6, <1>7, <1>8, <1>9, <1>10, <1>11, <1>12, <1>13, <1>14, <1>15, <1>16, <1>17, <1>18
     DEF CallStep, Task

LEMMA NextCalls == TypeOK /\ CallsOK /\ [Next]_vars => CallsOK'
<1> SUFFICES ASSUME TypeOK, CallsOK, [Next]_vars PROVE CallsOK'
  OBVIOUS
<1>1. ASSUME NEW r \in Requests, CallStep(r) PROVE CallsOK'
  BY <1>1, OneCall, OthersKeep, OwnCallOK
<1>2. ASSUME \A r \in Requests : UNCHANGED View(r) PROVE CallsOK'
  BY <1>2, SameView DEF CallsOK
<1>3. ASSUME NEW c \in Connections, NEW r \in Requests, NEW v \in {"ok", "error"},
             Complete(c, r, v)
      PROVE  CallsOK'
  <2>1. \A q \in Requests : q # r => UNCHANGED View(q)
    BY <1>3 DEF TypeOK, View, Complete, callVars, socketVars
  <2>2. c # NoConnection
    BY RelayAssumption
  <2>3. CallOK(r)
    BY DEF CallsOK
  <2>4. CallOK(r)'
    BY <1>3, <2>2, <2>3
       DEF TypeOK, Waiting, Complete, callVars, socketVars, CallOK, Linked, SignalMatches,
           Untouched, AnswerTravels, EntryMatches
  <2> QED
    BY <2>1, <2>4, OneCall
<1>4. ASSUME NEW c \in Connections, Unregister(c) PROVE CallsOK'
  <2> SUFFICES ASSUME NEW r \in Requests PROVE CallOK(r)'
    BY DEF CallsOK
  <2>1. CallOK(r) /\ c # NoConnection
    BY RelayAssumption DEF CallsOK
  <2>2. CASE pending[r] = c
    <3>1. /\ pending'[r] = NoConnection
          /\ hand'[r] = [stage |-> "removed", value |-> "unavailable", by |-> c]
      BY <1>4, <2>2 DEF Unregister
    <3> QED
      BY <1>4, <2>1, <2>2, <3>1
         DEF TypeOK, Waiting, Unregister, callVars, CallOK, Linked, SignalMatches, Untouched,
             AnswerTravels, EntryMatches
  <2>3. CASE pending[r] # c
    BY <1>4, <2>1, <2>3, SameView DEF TypeOK, View, Unregister, callVars
  <2> QED
    BY <2>2, <2>3
<1>5. CASE \/ \E r \in Requests : ParkedSend(r)
           \/ \E c \in Connections :
                \/ Register(c) \/ RegisterNotify(c) \/ Forward(c) \/ Close(c)
                \/ Break(c) \/ BreakEarly(c) \/ \E r \in Requests : RecordActivity(c, r)
           \/ \E g \in Gateways, k \in {"revoked", "notice"} : Notify(g, k)
           \/ UNCHANGED vars
  BY <1>2, <1>5
     DEF View, ParkedSend, Register, RegisterNotify, Forward, Close, Break, BreakEarly,
         RecordActivity, Notify, vars, stateVars, callVars, watchVars, socketVars
<1> QED
  BY <1>1, <1>3, <1>4, <1>5 DEF Next, CallStep, Socket

-----------------------------------------------------------------------------
(* The newest connection *)

LEMMA NextNewest == TypeOK /\ NewestIsCurrent /\ [Next]_vars => NewestIsCurrent'
<1> SUFFICES ASSUME TypeOK, NewestIsCurrent, [Next]_vars PROVE NewestIsCurrent'
  OBVIOUS
<1> USE RelayAssumption DEF TypeOK, NewestIsCurrent
<1>1. ASSUME NEW c \in Connections, Register(c) PROVE NewestIsCurrent'
  BY <1>1 DEF Register
<1>2. ASSUME NEW c \in Connections, Unregister(c) PROVE NewestIsCurrent'
  BY <1>2 DEF Unregister
<1>3. ASSUME NEW c \in Connections,
             RegisterNotify(c) \/ Forward(c) \/ Close(c) \/ Break(c) \/ BreakEarly(c)
      PROVE  NewestIsCurrent'
  <2>1. current' = current /\ newest' = newest
    BY <1>3 DEF RegisterNotify, Forward, Close, Break, BreakEarly, stateVars
  <2>2. \A d \in Connections :
          socket'[d] \in {"registered", "serving", "leaving"} =>
            socket[d] \in {"registered", "serving", "leaving"}
    BY <1>3 DEF RegisterNotify, Forward, Close, Break, BreakEarly, Serving
  <2> QED
    BY <2>1, <2>2
<1>4. ASSUME UNCHANGED <<current, newest, socket>> PROVE NewestIsCurrent'
  BY <1>4
<1>5. ASSUME NEW r \in Requests, CallStep(r) \/ ParkedSend(r) PROVE NewestIsCurrent'
  BY <1>4, <1>5
     DEF CallStep, Task, InvokeUnavailable, InvokeEnter, InvokeSend, InvokeRefused,
         InvokeWithdraw, PollResponse, PollActivity, PollActivityClosed, PollSignal, Suspend,
         Wake, AbortRemove, AbortCancel, DropCall, Cancel, Expire, Fire, HandSend, HandDrop,
         ParkedSend, stateVars, socketVars
<1>6. CASE \/ \E c \in Connections, r \in Requests :
                RecordActivity(c, r) \/ \E v \in {"ok", "error"} : Complete(c, r, v)
           \/ \E g \in Gateways, k \in {"revoked", "notice"} : Notify(g, k)
           \/ UNCHANGED vars
  BY <1>4, <1>6 DEF RecordActivity, Complete, Notify, vars, stateVars, socketVars
<1> QED
  BY <1>1, <1>2, <1>3, <1>5, <1>6 DEF Next, CallStep, Socket

-----------------------------------------------------------------------------
(* Commands *)

LEMMA HoldsAppend ==
  ASSUME NEW q \in Seq(Commands), NEW x \in Commands
  PROVE  \A y : Holds(Append(q, x), y) <=> Holds(q, y) \/ x = y
<1>1. /\ Len(Append(q, x)) = Len(q) + 1 /\ Len(q) \in Nat
      /\ Append(q, x)[Len(q) + 1] = x
      /\ \A i \in 1..Len(q) : Append(q, x)[i] = q[i]
  OBVIOUS
<1>2. 1..Len(Append(q, x)) = 1..Len(q) \cup {Len(q) + 1}
  BY <1>1
<1> QED
  BY <1>1, <1>2, Zenon DEF Holds

LEMMA HoldsTail ==
  ASSUME NEW q \in Seq(Commands), q # <<>>
  PROVE  \A y : Holds(q, y) <=> Head(q) = y \/ Holds(Tail(q), y)
<1>1. /\ Len(Tail(q)) = Len(q) - 1 /\ Len(q) \in Nat /\ Len(q) >= 1
      /\ Head(q) = q[1]
      /\ \A i \in 1..Len(Tail(q)) : Tail(q)[i] = q[i + 1]
  OBVIOUS
<1> TAKE y
<1>2. ASSUME NEW i \in 1..Len(q), q[i] = y
      PROVE  Head(q) = y \/ Holds(Tail(q), y)
  <2>1. CASE i = 1
    BY <1>1, <1>2, <2>1
  <2>2. CASE i # 1
    <3>1. i - 1 \in 1..Len(Tail(q)) /\ Tail(q)[i - 1] = q[i]
      BY <1>1, <2>2
    <3> QED
      BY <1>2, <3>1 DEF Holds
  <2> QED
    BY <2>1, <2>2
<1>3. ASSUME NEW i \in 1..Len(Tail(q)), Tail(q)[i] = y
      PROVE  Holds(q, y)
  <2>1. i + 1 \in 1..Len(q) /\ q[i + 1] = y
    BY <1>1, <1>3
  <2> QED
    BY <2>1 DEF Holds
<1>4. 1 \in 1..Len(q)
  BY <1>1
<1> QED
  BY <1>1, <1>2, <1>3, <1>4 DEF Holds

(* A command goes behind the others: a Cancel may, and an Invoke whose     *)
(* Cancel is not in the queue.                                             *)
LEMMA OrderAppend ==
  ASSUME NEW q \in Seq(Commands), NEW x \in Commands, InOrder(q),
         \A r \in Requests : x = Command("invoke", r) => ~Holds(q, Command("cancel", r))
  PROVE  InOrder(Append(q, x))
<1> SUFFICES ASSUME NEW r \in Requests, NEW i \in 1..Len(Append(q, x)),
                    NEW j \in 1..Len(Append(q, x)),
                    Append(q, x)[i] = Command("cancel", r),
                    Append(q, x)[j] = Command("invoke", r)
             PROVE  j < i
  BY DEF InOrder
<1>1. /\ Len(Append(q, x)) = Len(q) + 1 /\ Len(q) \in Nat
      /\ Append(q, x)[Len(q) + 1] = x
      /\ \A k \in 1..Len(q) : Append(q, x)[k] = q[k]
  OBVIOUS
<1>2. Command("cancel", r) # Command("invoke", r)
  BY DEF Command
<1>3. CASE i \in 1..Len(q) /\ j \in 1..Len(q)
  BY <1>1, <1>3 DEF InOrder
<1>4. CASE i = Len(q) + 1
  <2>1. j # i
    BY <1>2
  <2> QED
    BY <1>1, <1>4, <2>1
<1>5. CASE i \in 1..Len(q) /\ j = Len(q) + 1
  BY <1>1, <1>5 DEF Holds
<1> QED
  BY <1>1, <1>3, <1>4, <1>5

LEMMA OrderTail ==
  ASSUME NEW q \in Seq(Commands), q # <<>>, InOrder(q)
  PROVE  /\ InOrder(Tail(q))
         /\ \A r \in Requests :
              Head(q) = Command("cancel", r) => ~Holds(q, Command("invoke", r))
<1>1. /\ Len(Tail(q)) = Len(q) - 1 /\ Len(q) \in Nat /\ Len(q) >= 1
      /\ Head(q) = q[1]
      /\ \A i \in 1..Len(Tail(q)) : Tail(q)[i] = q[i + 1] /\ i + 1 \in 1..Len(q)
  OBVIOUS
<1>2. InOrder(Tail(q))
  <2> SUFFICES ASSUME NEW r \in Requests, NEW i \in 1..Len(Tail(q)), NEW j \in 1..Len(Tail(q)),
                      Tail(q)[i] = Command("cancel", r), Tail(q)[j] = Command("invoke", r)
               PROVE  j < i
    BY DEF InOrder
  <2>1. j + 1 < i + 1
    BY <1>1 DEF InOrder
  <2> QED
    BY <2>1
<1>3. ASSUME NEW r \in Requests, Head(q) = Command("cancel", r), Holds(q, Command("invoke", r))
      PROVE  FALSE
  <2>1. PICK j \in 1..Len(q) : q[j] = Command("invoke", r)
    BY <1>3 DEF Holds
  <2>2. 1 \in 1..Len(q) /\ q[1] = Command("cancel", r)
    BY <1>1, <1>3
  <2>3. j < 1
    BY <2>1, <2>2 DEF InOrder
  <2> QED
    BY <2>3
<1> QED
  BY <1>2, <1>3

(* A step that sends nothing, brings no call to a state in which its       *)
(* Invoke must have been sent, and lets finished calls be.                 *)
LEMMA Quiet ==
  ASSUME CommandsOK, UNCHANGED <<queue, seen, told, parked>>,
         \A r \in Requests :
           /\ call[r] = "done" => UNCHANGED <<call[r], signal[r], link[r]>>
           /\ (call[r] \in Waiting \cup {"aborting", "cancelling"})' =>
                call[r] \in Waiting \cup {"aborting", "cancelling"} /\ UNCHANGED link[r]
  PROVE  CommandsOK'
<1>1. \A c \in Connections : InOrder(queue[c])'
  BY DEF CommandsOK
<1>2. ASSUME NEW r \in Requests PROVE CommandOK(r)'
  <2>1. CommandOK(r)
    BY DEF CommandsOK
  <2>2. CASE GivenUp(r)
    <3>1. call[r] = "done" /\ UNCHANGED <<call[r], signal[r], link[r]>>
      BY <2>1, <2>2 DEF CommandOK
    <3> QED
      BY <2>1, <3>1 DEF CommandOK, GivenUp, Sent, Queued
  <2>3. CASE ~GivenUp(r)
    <3>1. ~GivenUp(r)'
      BY <2>3 DEF GivenUp, Queued
    <3> QED
      BY <2>1, <2>3, <3>1 DEF CommandOK, GivenUp, Sent, Queued
  <2> QED
    BY <2>2, <2>3
<1> QED
  BY <1>1, <1>2 DEF CommandsOK

LEMMA OneSent ==
  ASSUME TypeOK, NEW c \in Connections, NEW x \in Commands,
         queue' = [queue EXCEPT ![c] = Append(@, x)]
  PROVE  \A d \in Connections, r \in Requests, k \in {"invoke", "cancel"} :
           Queued(d, k, r)' <=> Queued(d, k, r) \/ (d = c /\ x = Command(k, r))
<1> SUFFICES ASSUME NEW d \in Connections, NEW r \in Requests, NEW k \in {"invoke", "cancel"}
             PROVE  Queued(d, k, r)' <=> Queued(d, k, r) \/ (d = c /\ x = Command(k, r))
  OBVIOUS
<1>1. queue[c] \in Seq(Commands)
  BY DEF TypeOK
<1>2. CASE d = c
  <2>1. queue'[d] = Append(queue[c], x)
    BY <1>2 DEF TypeOK
  <2> QED
    BY <1>1, <1>2, <2>1, HoldsAppend DEF Queued
<1>3. CASE d # c
  <2>1. queue'[d] = queue[d]
    BY <1>3 DEF TypeOK
  <2> QED
    BY <1>3, <2>1 DEF Queued
<1> QED
  BY <1>2, <1>3

(* The Cancel of a call that gives up is sent, or a task takes it.         *)
LEMMA SendCancel ==
  ASSUME TypeOK, CommandsOK, NEW r \in Requests, link[r] \in Connections, Sent(r),
         (call[r] = "done" /\ signal[r] \in Abandoned)', UNCHANGED <<link, seen, told>>,
         \A q \in Requests : q # r => UNCHANGED <<call[q], signal[q]>>,
         parked' \subseteq parked \cup {r},
         \/ queue' = [queue EXCEPT ![link[r]] = Append(@, Command("cancel", r))]
         \/ UNCHANGED queue
  PROVE  CommandsOK'
<1>1. CASE UNCHANGED queue
  <2>1. ASSUME NEW q \in Requests PROVE CommandOK(q)'
    <3>1. CommandOK(q)
      BY DEF CommandsOK
    <3>2. Sent(q) <=> Sent(q)'
      BY <1>1 DEF Sent, Queued
    <3>3. CASE q = r
      BY <1>1, <3>1, <3>2, <3>3 DEF CommandOK, Queued, Waiting
    <3>4. CASE q # r
      BY <1>1, <3>1, <3>2, <3>4 DEF CommandOK, GivenUp, Queued
    <3> QED
      BY <3>3, <3>4
  <2> QED
    BY <1>1, <2>1 DEF CommandsOK
<1>2. CASE queue' = [queue EXCEPT ![link[r]] = Append(@, Command("cancel", r))]
  <2>1. Command("cancel", r) \in Commands
    BY CommandTypes
  <2>2. \A q \in Requests : Command("cancel", r) # Command("invoke", q)
    BY DEF Command
  <2>3. \A q \in Requests : Command("cancel", r) = Command("cancel", q) => q = r
    BY DEF Command
  <2>4. \A d \in Connections, q \in Requests :
          /\ Queued(d, "invoke", q)' <=> Queued(d, "invoke", q)
          /\ Queued(d, "cancel", q)' <=> Queued(d, "cancel", q) \/ (d = link[r] /\ q = r)
    <3>1. \A d \in Connections, q \in Requests, k \in {"invoke", "cancel"} :
            Queued(d, k, q)' <=>
              Queued(d, k, q) \/ (d = link[r] /\ Command("cancel", r) = Command(k, q))
      BY <1>2, <2>1, OneSent
    <3> QED
      BY <2>2, <2>3, <3>1
  <2>5. ASSUME NEW d \in Connections PROVE InOrder(queue[d])'
    <3>1. queue[d] \in Seq(Commands) /\ InOrder(queue[d])
      BY DEF TypeOK, CommandsOK
    <3>2. queue'[d] \in {queue[d], Append(queue[d], Command("cancel", r))}
      BY <1>2 DEF TypeOK
    <3>3. InOrder(Append(queue[d], Command("cancel", r)))
      BY <2>1, <2>2, <3>1, OrderAppend
    <3> QED
      BY <3>1, <3>2, <3>3 DEF InOrder
  <2>6. ASSUME NEW q \in Requests PROVE CommandOK(q)'
    <3>1. CommandOK(q)
      BY DEF CommandsOK
    <3>2. Sent(q) => Sent(q)'
      <4>1. CASE link[q] \in Connections
        BY <2>4, <4>1 DEF Sent
      <4>2. CASE link[q] \notin Connections
        <5>1. queue'[link[q]] = queue[link[q]]
          BY <1>2, <4>2 DEF TypeOK
        <5> QED
          BY <5>1 DEF Sent, Queued
      <4> QED
        BY <4>1, <4>2
    <3>3. CASE q = r
      BY <2>4, <3>1, <3>2, <3>3 DEF CommandOK, Waiting
    <3>4. CASE q # r
      BY <2>4, <3>1, <3>2, <3>4 DEF CommandOK, GivenUp
    <3> QED
      BY <3>3, <3>4
  <2> QED
    BY <2>5, <2>6 DEF CommandsOK
<1> QED
  BY <1>1, <1>2

(* A notice is no call's command.                                          *)
LEMMA SendNotice ==
  ASSUME TypeOK, CommandsOK, NEW c \in Connections, NEW k \in {"replaced", "revoked", "notice"},
         queue' = [queue EXCEPT ![c] = Append(@, [kind |-> k])],
         UNCHANGED <<call, signal, link, seen, told, parked>>
  PROVE  CommandsOK'
<1>1. [kind |-> k] \in Commands
  BY CommandTypes
<1>2. \A q \in Requests, j \in {"invoke", "cancel"} : [kind |-> k] # Command(j, q)
  <2> SUFFICES ASSUME NEW q \in Requests, NEW j \in {"invoke", "cancel"},
                      [kind |-> k] = Command(j, q)
               PROVE  FALSE
    OBVIOUS
  <2>1. [kind |-> k].kind = k /\ Command(j, q).kind = j
    BY DEF Command
  <2> QED
    BY <2>1
<1>3. \A d \in Connections, q \in Requests, j \in {"invoke", "cancel"} :
        Queued(d, j, q)' <=> Queued(d, j, q)
  <2>1. \A d \in Connections, q \in Requests, j \in {"invoke", "cancel"} :
          Queued(d, j, q)' <=> Queued(d, j, q) \/ (d = c /\ [kind |-> k] = Command(j, q))
    BY <1>1, OneSent
  <2> QED
    BY <1>2, <2>1, Zenon
<1>4. ASSUME NEW d \in Connections PROVE InOrder(queue[d])'
  <2>1. queue[d] \in Seq(Commands) /\ InOrder(queue[d])
    BY DEF TypeOK, CommandsOK
  <2>2. queue'[d] \in {queue[d], Append(queue[d], [kind |-> k])}
    BY DEF TypeOK
  <2>3. InOrder(Append(queue[d], [kind |-> k]))
    BY <1>1, <1>2, <2>1, OrderAppend
  <2> QED
    BY <2>1, <2>2, <2>3 DEF InOrder
<1>5. ASSUME NEW q \in Requests PROVE CommandOK(q)'
  <2>1. CommandOK(q)
    BY DEF CommandsOK
  <2>2. Sent(q) => Sent(q)'
    <3>1. CASE link[q] \in Connections
      BY <1>3, <3>1 DEF Sent
    <3>2. CASE link[q] \notin Connections
      <4>1. queue'[link[q]] = queue[link[q]]
        BY <3>2 DEF TypeOK
      <4> QED
        BY <4>1 DEF Sent, Queued
    <3> QED
      BY <3>1, <3>2
  <2> QED
    BY <1>3, <2>1, <2>2 DEF CommandOK, GivenUp
<1> QED
  BY <1>4, <1>5 DEF CommandsOK

LEMMA SendInvoke ==
  ASSUME TypeOK, CallsOK, CommandsOK, NEW r \in Requests, InvokeSend(r)
  PROVE  CommandsOK'
<1>1. link[r] \in Connections /\ call[r] = "entered" /\ CommandOK(r)
  BY DEF InvokeSend, CallsOK, CallOK, Linked, CommandsOK
<1>2. /\ queue' = [queue EXCEPT ![link[r]] = Append(@, Command("invoke", r))]
      /\ UNCHANGED <<link, signal, seen, told, parked>>
      /\ \A q \in Requests : q # r => UNCHANGED call[q]
      /\ call'[r] = "waiting"
  BY DEF InvokeSend, Goto, TypeOK
<1>3. ~GivenUp(r)
  BY <1>1 DEF CommandOK
<1>4. /\ Command("invoke", r) \in Commands
      /\ \A q \in Requests : Command("invoke", r) # Command("cancel", q)
      /\ \A q \in Requests : Command("invoke", r) = Command("invoke", q) => q = r
  BY CommandTypes DEF Command
<1>5. \A d \in Connections, q \in Requests :
        /\ Queued(d, "cancel", q)' <=> Queued(d, "cancel", q)
        /\ Queued(d, "invoke", q)' <=> Queued(d, "invoke", q) \/ (d = link[r] /\ q = r)
  <2>1. \A d \in Connections, q \in Requests, k \in {"invoke", "cancel"} :
          Queued(d, k, q)' <=>
            Queued(d, k, q) \/ (d = link[r] /\ Command("invoke", r) = Command(k, q))
    BY <1>1, <1>2, <1>4, OneSent
  <2> QED
    BY <1>4, <2>1
<1>6. ASSUME NEW d \in Connections PROVE InOrder(queue[d])'
  <2>1. queue[d] \in Seq(Commands) /\ InOrder(queue[d])
    BY DEF TypeOK, CommandsOK
  <2>2. queue'[d] \in {queue[d], Append(queue[d], Command("invoke", r))}
    BY <1>2 DEF TypeOK
  <2>3. ~Holds(queue[d], Command("cancel", r))
    BY <1>3 DEF GivenUp, Queued
  <2>4. InOrder(Append(queue[d], Command("invoke", r)))
    BY <1>4, <2>1, <2>3, OrderAppend
  <2> QED
    BY <2>1, <2>2, <2>4 DEF InOrder
<1>7. ASSUME NEW q \in Requests PROVE CommandOK(q)'
  <2>1. CommandOK(q)
    BY DEF CommandsOK
  <2>2. GivenUp(q)' <=> GivenUp(q)
    BY <1>2, <1>5 DEF GivenUp
  <2>3. Sent(q) \/ q = r => Sent(q)'
    <3>1. CASE link[q] \in Connections
      BY <1>2, <1>5, <3>1 DEF Sent
    <3>2. CASE link[q] \notin Connections
      <4>1. queue'[link[q]] = queue[link[q]] /\ q # r
        BY <1>1, <1>2, <3>2 DEF TypeOK
      <4> QED
        BY <1>2, <4>1 DEF Sent, Queued
    <3> QED
      BY <3>1, <3>2
  <2>4. CASE q = r
    BY <1>2, <1>3, <1>5, <2>1, <2>2, <2>3, <2>4 DEF CommandOK
  <2>5. CASE q # r
    BY <1>2, <1>5, <2>1, <2>2, <2>3, <2>5 DEF CommandOK
  <2> QED
    BY <2>4, <2>5
<1> QED
  BY <1>6, <1>7 DEF CommandsOK

(* The socket task writes the first command: a Cancel finds its Invoke     *)
(* written before.                                                         *)
LEMMA ForwardOne ==
  ASSUME TypeOK, CommandsOK, NEW c \in Connections, Forward(c)
  PROVE  CommandsOK'
<1> DEFINE head == Head(queue[c])
<1>1. /\ queue[c] \in Seq(Commands) /\ queue[c] # <<>> /\ InOrder(queue[c])
      /\ queue' = [queue EXCEPT ![c] = Tail(@)]
      /\ UNCHANGED <<call, signal, link, parked>>
  BY DEF TypeOK, CommandsOK, Forward, callVars
<1>2. /\ head \in Commands
      /\ \A q \in Requests : head = Command("invoke", q) => q \in seen'
      /\ \A q \in Requests : q \in told' => q \in told \/ head = Command("cancel", q)
      /\ seen \subseteq seen' /\ told \subseteq told'
  <2>1. head \in Commands
    BY <1>1
  <2>2. \A q \in Requests : head = Command("invoke", q) => q \in seen'
    BY DEF Forward, Command
  <2>3. ASSUME NEW q \in Requests, q \in told', q \notin told
        PROVE  head = Command("cancel", q)
    <3>1. head.kind = "cancel" /\ head.request = q
      BY <2>3 DEF Forward
    <3>2. head \in [kind : {"invoke", "cancel"}, request : Requests]
      BY <2>1, <3>1 DEF Commands
    <3> QED
      BY <3>1, <3>2 DEF Command
  <2>4. seen \subseteq seen' /\ told \subseteq told'
    BY DEF Forward
  <2> QED
    BY <2>1, <2>2, <2>3, <2>4
<1>3. \A d \in Connections, q \in Requests, k \in {"invoke", "cancel"} :
        /\ Queued(d, k, q)' => Queued(d, k, q)
        /\ Queued(d, k, q) => Queued(d, k, q)' \/ (d = c /\ head = Command(k, q))
  <2> SUFFICES ASSUME NEW d \in Connections, NEW q \in Requests, NEW k \in {"invoke", "cancel"}
               PROVE  /\ Queued(d, k, q)' => Queued(d, k, q)
                      /\ Queued(d, k, q) => Queued(d, k, q)' \/ (d = c /\ head = Command(k, q))
    OBVIOUS
  <2>1. CASE d = c
    <3>1. queue'[d] = Tail(queue[c])
      BY <1>1, <2>1 DEF TypeOK
    <3> QED
      BY <1>1, <2>1, <3>1, HoldsTail DEF Queued
  <2>2. CASE d # c
    <3>1. queue'[d] = queue[d]
      BY <1>1, <2>2 DEF TypeOK
    <3> QED
      BY <3>1 DEF Queued
  <2> QED
    BY <2>1, <2>2
<1>4. ASSUME NEW d \in Connections PROVE InOrder(queue[d])'
  <2>1. InOrder(queue[d]) /\ InOrder(Tail(queue[c]))
    BY <1>1, OrderTail DEF CommandsOK
  <2>2. queue'[d] \in {queue[d], Tail(queue[c])}
    BY <1>1 DEF TypeOK
  <2> QED
    BY <2>1, <2>2 DEF InOrder
<1>5. ASSUME NEW q \in Requests PROVE CommandOK(q)'
  <2>1. CommandOK(q)
    BY DEF CommandsOK
  <2>2. Sent(q) => Sent(q)'
    <3>1. CASE link[q] \in Connections
      BY <1>1, <1>2, <1>3, <3>1 DEF Sent
    <3>2. CASE link[q] \notin Connections
      <4>1. queue'[link[q]] = queue[link[q]]
        BY <1>1, <3>2 DEF TypeOK
      <4> QED
        BY <1>1, <1>2, <4>1 DEF Sent, Queued
    <3> QED
      BY <3>1, <3>2
  <2>3. head = Command("cancel", q) => Queued(c, "cancel", q) /\ ~Queued(c, "invoke", q)
    BY <1>1, HoldsTail, OrderTail DEF Queued
  <2>4. GivenUp(q)' => GivenUp(q)
    BY <1>1, <1>2, <1>3, <2>3 DEF GivenUp
  <2>5. q \in told' => q \in seen'
    <3>1. CASE q \in told
      BY <1>2, <2>1, <3>1 DEF CommandOK
    <3>2. CASE head = Command("cancel", q)
      <4>1. Sent(q) /\ c = link[q]
        BY <2>1, <2>3, <3>2 DEF CommandOK, GivenUp
      <4> QED
        BY <1>2, <2>3, <3>2, <4>1 DEF Sent
    <3> QED
      BY <1>2, <3>1, <3>2
  <2> QED
    BY <1>1, <1>3, <2>1, <2>2, <2>4, <2>5 DEF CommandOK
<1> QED
  BY <1>4, <1>5 DEF CommandsOK

LEMMA NextCommands == TypeOK /\ CallsOK /\ CommandsOK /\ [Next]_vars => CommandsOK'
<1> SUFFICES ASSUME TypeOK, CallsOK, CommandsOK, [Next]_vars PROVE CommandsOK'
  OBVIOUS
<1>1. ASSUME NEW r \in Requests, InvokeSend(r) PROVE CommandsOK'
  BY <1>1, SendInvoke
<1>2. ASSUME NEW r \in Requests, AbortCancel(r) PROVE CommandsOK'
  <2>1. /\ call[r] = "cancelling" /\ link[r] \in Connections /\ signal[r] \in Abandoned
        /\ Sent(r)
    BY <1>2 DEF AbortCancel, CallsOK, CallOK, Linked, SignalMatches, CommandsOK, CommandOK
  <2>2. /\ (call[r] = "done" /\ signal[r] \in Abandoned)' /\ UNCHANGED <<link, seen, told>>
        /\ \A q \in Requests : q # r => UNCHANGED <<call[q], signal[q]>>
    BY <1>2, <2>1 DEF AbortCancel, Return, Goto, TypeOK
  <2>3. /\ parked' \subseteq parked \cup {r}
        /\ \/ queue' = [queue EXCEPT ![link[r]] = Append(@, Command("cancel", r))]
           \/ UNCHANGED queue
    BY <1>2 DEF AbortCancel
  <2> QED
    BY <2>1, <2>2, <2>3, SendCancel
<1>3. ASSUME NEW r \in Requests, ParkedSend(r) PROVE CommandsOK'
  <2>1. r \in parked /\ CommandOK(r)
    BY <1>3 DEF ParkedSend, CommandsOK
  <2>2. /\ call[r] = "done" /\ link[r] \in Connections /\ signal[r] \in Abandoned /\ Sent(r)
    BY <2>1 DEF CommandOK, GivenUp
  <2>3. /\ UNCHANGED <<call, signal, link, seen, told>>
        /\ parked' \subseteq parked \cup {r}
        /\ \/ queue' = [queue EXCEPT ![link[r]] = Append(@, Command("cancel", r))]
           \/ UNCHANGED queue
    BY <1>3 DEF ParkedSend, callVars
  <2> QED
    BY <2>2, <2>3, SendCancel
<1>4. ASSUME NEW c \in Connections, RegisterNotify(c) PROVE CommandsOK'
  <2>1. CASE UNCHANGED queue
    BY <1>4, <2>1, Quiet DEF RegisterNotify, callVars
  <2>2. CASE /\ replaced[c] \in Connections
             /\ queue' = [queue EXCEPT ![replaced[c]] = Append(@, [kind |-> "replaced"])]
    BY <1>4, <2>2, SendNotice DEF RegisterNotify, callVars
  <2> QED
    BY <1>4, <2>1, <2>2 DEF RegisterNotify, TypeOK
<1>5. ASSUME NEW c \in Connections, Forward(c) PROVE CommandsOK'
  BY <1>5, ForwardOne
<1>6. ASSUME NEW g \in Gateways, NEW k \in {"revoked", "notice"}, Notify(g, k)
      PROVE  CommandsOK'
  <2>1. /\ current[g] \in Connections
        /\ queue' = [queue EXCEPT ![current[g]] = Append(@, [kind |-> k])]
        /\ UNCHANGED <<call, signal, link, seen, told, parked>>
    BY <1>6 DEF Notify, TypeOK, callVars
  <2> QED
    BY <2>1, SendNotice
<1>7. ASSUME NEW r \in Requests,
             \/ InvokeUnavailable(r) \/ InvokeEnter(r) \/ InvokeRefused(r) \/ InvokeWithdraw(r)
             \/ PollResponse(r) \/ PollActivity(r) \/ PollActivityClosed(r) \/ PollSignal(r)
             \/ Suspend(r) \/ Wake(r) \/ AbortRemove(r) \/ Cancel(r) \/ Expire(r)
             \/ DropCall(r) \/ HandSend(r) \/ HandDrop(r)
      PROVE  CommandsOK'
  <2>1. UNCHANGED <<queue, seen, told, parked>>
    BY <1>7
       DEF InvokeUnavailable, InvokeEnter, InvokeRefused, InvokeWithdraw, PollResponse,
           PollActivity, PollActivityClosed, PollSignal, Suspend, Wake, AbortRemove, Cancel,
           Expire, Fire, DropCall, HandSend, HandDrop, socketVars
  <2>2. /\ call[r] # "done" => call[r] \in Waiting \cup {"aborting", "cancelling"}
                                 \/ (call[r] \notin Waiting \cup {"aborting", "cancelling"})'
        /\ call[r] # "idle" => UNCHANGED link[r]
        /\ call[r] = "done" => UNCHANGED <<call[r], signal[r], link[r]>>
        /\ call[r] = "idle" => (call[r] \notin Waiting \cup {"aborting", "cancelling"})'
    BY <1>7
       DEF InvokeUnavailable, InvokeEnter, InvokeRefused, InvokeWithdraw, PollResponse,
           PollActivity, PollActivityClosed, PollSignal, Suspend, Wake, AbortRemove, Cancel,
           Expire, Fire, DropCall, HandSend, HandDrop, Goto, Return, callVars, TypeOK, Waiting
  <2>3. \A q \in Requests : q # r => UNCHANGED <<call[q], signal[q], link[q]>>
    BY <1>7, OthersKeep DEF CallStep, Task, View
  <2> QED
    BY <2>1, <2>2, <2>3, Quiet DEF Waiting
<1>8. CASE \/ \E c \in Connections :
                \/ Register(c) \/ Break(c) \/ BreakEarly(c) \/ Unregister(c) \/ Close(c)
                \/ \E r \in Requests :
                     RecordActivity(c, r) \/ \E v \in {"ok", "error"} : Complete(c, r, v)
           \/ UNCHANGED vars
  <2>1. UNCHANGED <<queue, seen, told, parked, call, signal, link>>
    BY <1>8
       DEF Register, Break, BreakEarly, Unregister, Close, RecordActivity, Complete, vars,
           callVars, socketVars
  <2> QED
    BY <2>1, Quiet
<1> QED
  BY <1>1, <1>2, <1>3, <1>4, <1>5, <1>6, <1>7, <1>8 DEF Next, Task, Socket

-----------------------------------------------------------------------------
(* Answers *)

(* A command that is not the Invoke of a call leaves the call unknown.     *)
LEMMA OtherCommand ==
  ASSUME TypeOK, NEW r \in Requests, ~Known(r), NEW c \in Connections, NEW x \in Commands,
         x # Command("invoke", r), queue' = [queue EXCEPT ![c] = Append(@, x)],
         UNCHANGED <<seen, answeredBy>>
  PROVE  ~Known(r)'
<1>1. \A d \in Connections :
        Queued(d, "invoke", r)' <=> Queued(d, "invoke", r) \/ (d = c /\ x = Command("invoke", r))
  BY OneSent
<1> QED
  BY <1>1 DEF Known

(* Nobody but its own try_send makes a call known to its gateway, and only *)
(* a gateway that was sent the call can answer it.                         *)
LEMMA KnownStep ==
  ASSUME TypeOK, CallsOK, CommandsOK, [Next]_vars, NEW r \in Requests, ~Known(r),
         ~InvokeSend(r)
  PROVE  ~Known(r)'
<1>0. \A q \in Requests, k \in {"replaced", "revoked", "notice"} :
        /\ Command("cancel", q) \in Commands /\ Command("invoke", q) \in Commands
        /\ [kind |-> k] \in Commands
        /\ Command("cancel", q) # Command("invoke", r)
        /\ q # r => Command("invoke", q) # Command("invoke", r)
        /\ [kind |-> k] # Command("invoke", r)
  <2>1. \A q \in Requests, k \in {"invoke", "cancel"} :
          Command(k, q).kind = k /\ Command(k, q).request = q
    BY DEF Command
  <2>2. \A k \in {"replaced", "revoked", "notice"} : [kind |-> k].kind = k
    OBVIOUS
  <2> QED
    BY <2>1, <2>2, CommandTypes
<1>1. ASSUME UNCHANGED <<queue, seen, answeredBy>> PROVE ~Known(r)'
  BY <1>1 DEF Known, Queued
<1>2. ASSUME NEW q \in Requests, InvokeSend(q) PROVE ~Known(r)'
  <2>1. q # r /\ link[q] \in Connections
    BY <1>2 DEF InvokeSend, CallsOK, CallOK, Linked
  <2>2. /\ queue' = [queue EXCEPT ![link[q]] = Append(@, Command("invoke", q))]
        /\ UNCHANGED <<seen, answeredBy>>
    BY <1>2 DEF InvokeSend
  <2> QED
    BY <1>0, <2>1, <2>2, OtherCommand
<1>3. ASSUME NEW q \in Requests, AbortCancel(q) \/ ParkedSend(q) PROVE ~Known(r)'
  <2>1. link[q] \in Connections
    BY <1>3 DEF AbortCancel, ParkedSend, CallsOK, CallOK, Linked, CommandsOK, CommandOK
  <2>2. /\ \/ queue' = [queue EXCEPT ![link[q]] = Append(@, Command("cancel", q))]
           \/ UNCHANGED queue
        /\ UNCHANGED <<seen, answeredBy>>
    BY <1>3 DEF AbortCancel, ParkedSend
  <2> QED
    BY <1>0, <1>1, <2>1, <2>2, OtherCommand
<1>4. ASSUME NEW c \in Connections, RegisterNotify(c) PROVE ~Known(r)'
  <2>1. /\ \/ /\ replaced[c] \in Connections
              /\ queue' = [queue EXCEPT ![replaced[c]] = Append(@, [kind |-> "replaced"])]
           \/ UNCHANGED queue
        /\ UNCHANGED <<seen, answeredBy>>
    BY <1>4 DEF RegisterNotify, TypeOK
  <2> QED
    BY <1>0, <1>1, <2>1, OtherCommand
<1>5. ASSUME NEW g \in Gateways, NEW k \in {"revoked", "notice"}, Notify(g, k)
      PROVE  ~Known(r)'
  <2>1. /\ current[g] \in Connections
        /\ queue' = [queue EXCEPT ![current[g]] = Append(@, [kind |-> k])]
        /\ UNCHANGED <<seen, answeredBy>>
    BY <1>5 DEF Notify, TypeOK
  <2> QED
    BY <1>0, <2>1, OtherCommand
<1>6. ASSUME NEW c \in Connections, Forward(c) PROVE ~Known(r)'
  <2>1. /\ queue[c] \in Seq(Commands) /\ queue[c] # <<>>
        /\ queue' = [queue EXCEPT ![c] = Tail(@)] /\ UNCHANGED answeredBy
    BY <1>6 DEF Forward, TypeOK
  <2>2. \A y : Holds(queue[c], y) <=> Head(queue[c]) = y \/ Holds(Tail(queue[c]), y)
    BY <2>1, HoldsTail
  <2>3. Head(queue[c]) # Command("invoke", r)
    BY <2>2 DEF Known, Queued
  <2>4. r \notin seen'
    <3>1. Head(queue[c]) \in Commands
      BY <2>1
    <3>2. Head(queue[c]).kind = "invoke" => Head(queue[c]).request # r
      BY <2>3, <3>1 DEF Commands, Command
    <3> QED
      BY <1>6, <3>2 DEF Forward, Known
  <2>5. ASSUME NEW d \in Connections, Queued(d, "invoke", r)' PROVE Queued(d, "invoke", r)
    <3>1. CASE d = c
      <4>1. queue'[d] = Tail(queue[c])
        BY <2>1, <3>1 DEF TypeOK
      <4> QED
        BY <2>2, <2>5, <3>1, <4>1 DEF Queued
    <3>2. CASE d # c
      <4>1. queue'[d] = queue[d]
        BY <2>1, <3>2 DEF TypeOK
      <4> QED
        BY <2>5, <4>1 DEF Queued
    <3> QED
      BY <3>1, <3>2
  <2> QED
    BY <2>1, <2>4, <2>5 DEF Known
<1>7. ASSUME NEW c \in Connections, NEW q \in Requests, NEW v \in {"ok", "error"},
             Complete(c, q, v)
      PROVE  ~Known(r)'
  <2>1. q # r
    BY <1>7 DEF Complete, Known
  <2> QED
    BY <1>7, <2>1 DEF Complete, Known, Queued, socketVars, TypeOK
<1>8. ASSUME NEW q \in Requests,
             \/ InvokeUnavailable(q) \/ InvokeEnter(q) \/ InvokeRefused(q) \/ InvokeWithdraw(q)
             \/ PollResponse(q) \/ PollActivity(q) \/ PollActivityClosed(q) \/ PollSignal(q)
             \/ Suspend(q) \/ Wake(q) \/ AbortRemove(q) \/ Cancel(q) \/ Expire(q)
             \/ DropCall(q) \/ HandSend(q) \/ HandDrop(q)
      PROVE  ~Known(r)'
  <2>1. UNCHANGED <<queue, seen, answeredBy>>
    BY <1>8
       DEF InvokeUnavailable, InvokeEnter, InvokeRefused, InvokeWithdraw, PollResponse,
           PollActivity, PollActivityClosed, PollSignal, Suspend, Wake, AbortRemove, Cancel,
           Expire, Fire, DropCall, HandSend, HandDrop, socketVars
  <2> QED
    BY <1>1, <2>1
<1>9. CASE \/ \E c \in Connections :
                \/ Register(c) \/ Break(c) \/ BreakEarly(c) \/ Unregister(c) \/ Close(c)
                \/ \E q \in Requests : RecordActivity(c, q)
           \/ UNCHANGED vars
  BY <1>1, <1>9
     DEF Register, Break, BreakEarly, Unregister, Close, RecordActivity, vars, socketVars
<1> QED
  BY <1>2, <1>3, <1>4, <1>5, <1>6, <1>7, <1>8, <1>9 DEF Next, Task, Socket

(* What a call does with its answer.                                       *)
LEMMA OwnAnswer ==
  ASSUME TypeOK, CallsOK, AnswersOK, NEW r \in Requests, CallStep(r),
         ~InvokeSend(r) => (~Known(r) => ~Known(r)')
  PROVE  AnswerOK(r)'
<1>0. CallOK(r) /\ AnswerOK(r)
  BY DEF CallsOK, AnswersOK
<1> USE <1>0 DEF TypeOK, Waiting, Unsent, Abandoned, stateVars, callVars, watchVars, socketVars,
           CallOK, Linked, SignalMatches, Untouched, AnswerTravels, AnswerOK
<1>1. CASE InvokeUnavailable(r) \/ InvokeEnter(r)
  <2>1. answer[r] = "none" /\ answer' = answer
    BY <1>1 DEF InvokeUnavailable, InvokeEnter
  <2>2. call[r] = "idle" /\ call'[r] \in {"done", "entered"} /\ ~Known(r)'
    BY <1>1 DEF InvokeUnavailable, InvokeEnter, InvokeSend, Goto, Return
  <2> QED
    BY <2>1, <2>2
<1>2. CASE InvokeSend(r)
  BY <1>2 DEF InvokeSend, Goto
<1>3. CASE InvokeRefused(r)
  BY <1>3 DEF InvokeRefused, InvokeSend, Goto
<1>4. CASE InvokeWithdraw(r)
  <2>1. answeredBy[r] = NoConnection /\ link[r] # NoConnection
    BY <1>4, RelayAssumption DEF InvokeWithdraw, Known
  <2>2. answer[r] \notin {"ok", "error"}
    BY <2>1
  <2> QED
    BY <1>4, <2>2 DEF InvokeWithdraw, Goto, Return
<1>5. CASE PollResponse(r)
  BY <1>5 DEF PollResponse, Goto, Return
<1>6. CASE PollActivity(r)
  BY <1>6 DEF PollActivity, Goto
<1>7. CASE PollActivityClosed(r)
  BY <1>7 DEF PollActivityClosed, ActivityReady, Goto
<1>8. CASE PollSignal(r)
  BY <1>8 DEF PollSignal, Goto
<1>9. CASE Suspend(r)
  BY <1>9 DEF Suspend, Goto
<1>10. CASE Wake(r)
  BY <1>10 DEF Wake, Goto
<1>11. CASE AbortRemove(r)
  BY <1>11 DEF AbortRemove, Goto
<1>12. CASE AbortCancel(r)
  <2>1. /\ call'[r] = "done" /\ result'[r] = signal[r] /\ UNCHANGED <<answer, link>>
        /\ call[r] = "cancelling"
    BY <1>12 DEF AbortCancel, Goto, Return
  <2> QED
    BY <2>1
<1>13. CASE DropCall(r)
  BY <1>13 DEF DropCall, Goto, Return
<1>14. CASE Cancel(r) \/ Expire(r)
  BY <1>14 DEF Cancel, Expire, Fire
<1>15. CASE HandSend(r)
  BY <1>15 DEF HandSend, InvokeSend
<1>16. CASE HandDrop(r)
  BY <1>16 DEF HandDrop, InvokeSend
<1> QED
  BY <1>1, <1>2, <1>3, <1>4, <1>5, <1>6, <1>7, <1>8, <1>9, <1>10, <1>11, <1>12, <1>13, <1>14,
     <1>15, <1>16
     DEF CallStep, Task

LEMMA NextAnswers ==
  TypeOK /\ CallsOK /\ CommandsOK /\ AnswersOK /\ [Next]_vars => AnswersOK'
<1> SUFFICES ASSUME TypeOK, CallsOK, CommandsOK, AnswersOK, [Next]_vars, NEW r \in Requests
             PROVE  AnswerOK(r)'
  BY DEF AnswersOK
<1>1. ~InvokeSend(r) => (~Known(r) => ~Known(r)')
  BY KnownStep
<1>2. CASE CallStep(r)
  BY <1>1, <1>2, OwnAnswer
<1>3. ASSUME UNCHANGED <<call[r], link[r], signal[r], answer[r], result[r]>>, ~InvokeSend(r)
      PROVE  AnswerOK(r)'
  <2>1. AnswerOK(r)
    BY DEF AnswersOK
  <2> QED
    BY <1>1, <1>3, <2>1 DEF AnswerOK
<1>4. ASSUME NEW q \in Requests, CallStep(q), q # r, ~InvokeSend(r) PROVE AnswerOK(r)'
  BY <1>3, <1>4, OthersKeep DEF View
<1>5. CASE /\ ~InvokeSend(r)
           /\ \/ \E q \in Requests : ParkedSend(q)
              \/ \E c \in Connections :
                   \/ Register(c) \/ RegisterNotify(c) \/ Forward(c) \/ Close(c)
                   \/ Break(c) \/ BreakEarly(c) \/ Unregister(c)
                   \/ \E q \in Requests :
                        RecordActivity(c, q) \/ \E v \in {"ok", "error"} : Complete(c, q, v)
              \/ \E g \in Gateways, k \in {"revoked", "notice"} : Notify(g, k)
              \/ UNCHANGED vars
  <2>1. UNCHANGED <<call, link, signal, answer, result>>
    BY <1>5
       DEF ParkedSend, Register, RegisterNotify, Forward, Close, Break, BreakEarly, Unregister,
           RecordActivity, Complete, Notify, vars, callVars, watchVars
  <2> QED
    BY <1>3, <1>5, <2>1
<1>6. InvokeSend(r) => CallStep(r)
  BY DEF CallStep, Task
<1> QED
  BY <1>2, <1>4, <1>5, <1>6 DEF Next, CallStep, Socket

-----------------------------------------------------------------------------
LEMMA Invariance == Spec => []Inv
<1>1. Inv /\ [Next]_vars => Inv'
  BY NextType, NextCalls, NextCommands, NextNewest, NextAnswers DEF Inv
<1> QED
  BY InitInv, <1>1, PTL DEF Spec

(* The hub's tables, channels and queues hold values of their kinds, and   *)
(* no queue outgrows its capacity, whichever tasks send.                   *)
THEOREM HubTypes == Spec => []TypeOK
<1>1. Inv => TypeOK
  BY DEF Inv
<1> QED
  BY Invariance, <1>1, PTL

(* complete, RecordActivity and unregister compare the connection of the   *)
(* entry: a call is answered over the connection it was sent on.           *)
THEOREM AnswersStayOnTheirConnection == Spec => []NoCrossTalk
<1>1. Inv => NoCrossTalk
  <2> SUFFICES ASSUME Inv, NEW r \in Requests
               PROVE  /\ result[r] \in {"ok", "error"} => answeredBy[r] = link[r]
                      /\ answeredBy[r] # NoConnection => answeredBy[r] = link[r]
    BY DEF NoCrossTalk
  <2>1. AnswerTravels(r)
    BY DEF Inv, CallsOK, CallOK
  <2> QED
    BY <2>1 DEF AnswerTravels
<1> QED
  BY Invariance, <1>1, PTL

(* No interleaving of register, unregister, complete, abort and drop loses *)
(* the entry of a call that waits, or keeps one of a call that returned.   *)
THEOREM EntriesMatchCalls == Spec => []PendingMatchesCalls
<1>1. Inv => PendingMatchesCalls
  <2> SUFFICES ASSUME Inv, NEW r \in Requests
               PROVE  /\ call[r] \in Waiting =>
                           \/ pending[r] = link[r]
                           \/ hand[r].stage = "removed"
                           \/ answer[r] # "none"
                      /\ call[r] = "done" /\ result[r] # "dropped" =>
                           pending[r] = NoConnection
    BY DEF PendingMatchesCalls
  <2>1. EntryMatches(r)
    BY DEF Inv, CallsOK, CallOK
  <2> QED
    BY <2>1 DEF EntryMatches
<1> QED
  BY Invariance, <1>1, PTL

(* queue_invocation_cancel, its spawned task and a full queue never bring  *)
(* a Cancel before its Invoke, or a Cancel of a call nobody gave up.       *)
THEOREM CancelIsOrdered == Spec => []CancelFollowsInvoke
<1>1. Inv => CancelFollowsInvoke
  <2>1. ASSUME Inv, NEW r \in Requests, r \in told PROVE r \in seen
    BY <2>1 DEF Inv, CommandsOK, CommandOK
  <2>2. ASSUME Inv, NEW r \in Requests, GivenUp(r) PROVE signal[r] \in Abandoned
    BY <2>2 DEF Inv, CommandsOK, CommandOK
  <2>3. ASSUME Inv, NEW r \in Requests, NEW c \in Connections,
               NEW i \in 1..Len(queue[c]), NEW j \in 1..Len(queue[c]),
               queue[c][i] = Command("cancel", r), queue[c][j] = Command("invoke", r)
        PROVE  j < i
    BY <2>3 DEF Inv, CommandsOK, InOrder
  <2> QED
    BY <2>1, <2>2, <2>3 DEF CancelFollowsInvoke, GivenUp, Queued, Holds, Abandoned
<1> QED
  BY Invariance, <1>1, PTL

(* The answer of complete, once accepted, is not lost to an unregister, to *)
(* a refusal or to a late signal: only a call that gave up returns without *)
(* it, and one that polls the activity channel the same answer has closed. *)
THEOREM AnswersReachCallers == Spec => []AnswerReachesCaller
<1>1. Inv => AnswerReachesCaller
  BY DEF Inv, AnswersOK, AnswerOK, AnswerReachesCaller
<1> QED
  BY Invariance, <1>1, PTL

(* unregister of a connection that was replaced leaves the new one alone.  *)
THEOREM NewestStaysCurrent == Spec => []NewestIsCurrent
<1>1. Inv => NewestIsCurrent
  BY DEF Inv
<1> QED
  BY Invariance, <1>1, PTL
=============================================================================
