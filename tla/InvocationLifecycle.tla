------------------------ MODULE InvocationLifecycle ------------------------
(***************************************************************************)
(* What the embedded runtime promises about an invocation that was         *)
(* started through its handle (docs/runtime-embedding.md): "Each           *)
(* invocation emits `started`, zero or more `outputDelta` events, and one  *)
(* terminal event", and what is polled agrees with them.  One cancelled     *)
(* before it begins has no `started`.  Nothing here says how many          *)
(* invocations may run, when a result is forgotten, or which deltas are    *)
(* merged or lost.                                                         *)
(***************************************************************************)
EXTENDS Naturals, Sequences

CONSTANTS
  Handles   \* the handles start_invoke hands out

VARIABLES
  stage,    \* stage[h]: what a poll says of h, "new" before and "gone" after
  heard     \* heard[h]: the events of h that have been drained

Results == {"completed", "failed", "cancelled"}

Init ==
  /\ stage = [h \in Handles |-> "new"]
  /\ heard = [h \in Handles |-> <<>>]

Start(h) ==
  /\ stage[h] = "new"
  /\ stage' = [stage EXCEPT ![h] = "pending"]
  /\ UNCHANGED heard

(* start_invoke returns an error: its handle is never valid.               *)
Refuse(h) ==
  /\ stage[h] = "new"
  /\ stage' = [stage EXCEPT ![h] = "gone"]
  /\ UNCHANGED heard

Begin(h) ==
  /\ stage[h] = "pending"
  /\ stage' = [stage EXCEPT ![h] = "running"]
  /\ UNCHANGED heard

(* An invocation that has not begun can only be cancelled.  Results may be *)
(* forgotten to make room for the new one, which may be one of them.       *)
Finish(h, r) ==
  /\ stage[h] = "running" \/ (stage[h] = "pending" /\ r = "cancelled")
  /\ \E forgotten \in SUBSET {k \in Handles : k = h \/ stage[k] \in Results} :
       stage' = [k \in Handles |-> IF k \in forgotten THEN "gone"
                                   ELSE IF k = h THEN r ELSE stage[k]]
  /\ UNCHANGED heard

Take(h) ==
  /\ stage[h] \in Results
  /\ stage' = [stage EXCEPT ![h] = "gone"]
  /\ UNCHANGED heard

(* Everything a consumer may have heard of an invocation at a stage.  Once *)
(* there is a result, draining completes the events: the last one is it.   *)
Proper(s, at) ==
  /\ \A i, j \in 1..Len(s) : i < j => s[i].sequence < s[j].sequence
  /\ \A i \in 1..Len(s) : s[i].kind = "started" => s[i].sequence = 1
  /\ \A i \in 1..Len(s) : s[i].kind \in Results => i = Len(s) /\ s[i].kind = at
  /\ at = "pending" => s = <<>>
  /\ at \in Results => s # <<>> /\ s[Len(s)].kind = at

Continues(s, t) == Len(t) <= Len(s) /\ \A i \in 1..Len(t) : s[i] = t[i]

Drain(h) ==
  /\ stage[h] \notin {"new", "gone"}
  /\ Proper(heard'[h], stage[h])
  /\ Continues(heard'[h], heard[h])
  /\ heard' = [heard EXCEPT ![h] = heard'[h]]
  /\ UNCHANGED stage

Next ==
  \E h \in Handles : \/ Start(h) \/ Refuse(h) \/ Begin(h) \/ Take(h) \/ Drain(h)
                     \/ \E r \in Results : Finish(h, r)

Spec == Init /\ [][Next]_<<stage, heard>>
=============================================================================
