----------------------------- MODULE SessionLog -----------------------------
(***************************************************************************)
(* What the embedded runtime promises about session state                  *)
(* (docs/runtime-embedding.md): "Sessions are independent and updates to   *)
(* the same session are serialized so snapshot revisions cannot overwrite  *)
(* one another."  A session is a revision and a state; each invocation     *)
(* commits at most once, in one atomic step, on top of the commit before.  *)
(***************************************************************************)
EXTENDS Naturals, Sequences

CONSTANTS
  Calls,      \* invocations
  Sessions,   \* session ids
  SessionOf   \* the session each invocation names

VARIABLES
  session,    \* session[s]: the revision and the calls whose state it holds
  committed   \* the calls that have committed

Fresh == [revision |-> 0, state |-> <<>>]

Init ==
  /\ session = [s \in Sessions |-> Fresh]
  /\ committed = {}

(* A provider that returns no state leaves the state alone; the revision   *)
(* counts the invocation all the same.                                     *)
Advance(snapshot, c, writes) ==
  [revision |-> snapshot.revision + 1,
   state    |-> IF writes THEN Append(snapshot.state, c) ELSE snapshot.state]

Commit(c, writes) ==
  /\ c \notin committed
  /\ session' = [session EXCEPT ![SessionOf[c]] = Advance(@, c, writes)]
  /\ committed' = committed \cup {c}

Next == \E c \in Calls, writes \in BOOLEAN : Commit(c, writes)

Spec == Init /\ [][Next]_<<session, committed>>
=============================================================================
