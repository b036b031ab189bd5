---------------------------- MODULE GatewaySession ----------------------------
(* The session rows of one authorized Gateway: run_socket from the opening   *)
(* of a session to its close, against the relay hub's current connection,    *)
(* the unique index of connected rows and the session id the Gateway keeps   *)
(* and resumes.                                                              *)
(*                                                                           *)
(* RelayHub has the calls of these connections, GatewayAccess what comes     *)
(* before the session.                                                       *)
EXTENDS Integers, FiniteSets

CONSTANTS
  Sockets,      \* connections of the Gateway the server may be serving at a time
  NoSocket,
  MaxSessions   \* bound: session ids generated

ASSUME SessionAssumption == NoSocket \notin Sockets /\ MaxSessions \in Nat

VARIABLES
  row,          \* row[x]: the row of session x in agent_gateway_sessions
  hub,          \* the connection RelayHub has for the Gateway
  told,         \* connections with SESSION_REPLACED or CREDENTIAL_REVOKED in their queue
  task,         \* task[s]: the run_socket of connection s
  client        \* the Gateway: its connection and the session id it persists

vars == <<row, hub, told, task, client>>

Sessions == 1..MaxSessions          \* 0: no session

Idle == [at |-> "idle", session |-> 0]

Init ==
  /\ row = [x \in Sessions |-> "unused"]
  /\ hub = NoSocket
  /\ told = {}
  /\ task = [s \in Sockets |-> Idle]
  /\ client = [on |-> NoSocket, session |-> 0]

Go(s, at) == task' = [task EXCEPT ![s].at = at]

Leave(s) ==
  /\ task' = [task EXCEPT ![s] = Idle]
  /\ told' = told \ {s}

-----------------------------------------------------------------------------
(* The Gateway.                                                              *)

(* A connection is authorized; the Hello had the session id to resume.  A    *)
(* connection id is used once, so s is not one the hub still knows.          *)
Hello(s) ==
  /\ client.on = NoSocket
  /\ task[s] = Idle
  /\ hub # s
  /\ client' = [client EXCEPT !.on = s]
  /\ task' = [task EXCEPT ![s] = [at |-> "authorized", session |-> client.session]]
  /\ UNCHANGED <<row, hub, told>>

(* The Gateway gives the connection up: a timeout, an error, a new process.  *)
Disconnect ==
  /\ client.on # NoSocket
  /\ client' = [client EXCEPT !.on = NoSocket]
  /\ UNCHANGED <<row, hub, told, task>>

-----------------------------------------------------------------------------
(* run_socket.                                                               *)

Unused == {x \in Sessions : row[x] = "unused"}

(* open_agent_gateway_session, one transaction: every connected row of the   *)
(* Gateway is disconnected, then the resumed row or a new one is connected.  *)
Connected(x) ==
  [y \in Sessions |-> IF y = x THEN "connected"
                      ELSE IF row[y] = "connected" THEN "disconnected" ELSE row[y]]

(* Mutation: only a disconnected row can be resumed.                         *)
Open_Disconnected(s) ==
  /\ task[s].at = "authorized"
  /\ LET resumes == task[s].session # 0 /\ row[task[s].session] = "disconnected" IN
     \E x \in IF resumes THEN {task[s].session} ELSE Unused :
       /\ \A y \in Unused : resumes \/ x <= y
       /\ row' = Connected(x)
       /\ task' = [task EXCEPT ![s] = [at |-> "opened", session |-> x]]
  /\ UNCHANGED <<hub, told, client>>

Open(s) ==
  /\ task[s].at = "authorized"
  /\ LET resumes == task[s].session # 0 /\ row[task[s].session] # "unused" IN
     \E x \in IF resumes THEN {task[s].session} ELSE Unused :
       /\ \A y \in Unused : resumes \/ x <= y
       /\ row' = Connected(x)
       /\ task' = [task EXCEPT ![s] = [at |-> "opened", session |-> x]]
  /\ UNCHANGED <<hub, told, client>>

(* Opening the session, or reconciling the providers and agents of the       *)
(* Gateway after it, fails: the task ends and leaves the row as it is.       *)
Fail(s) ==
  /\ task[s].at \in {"authorized", "opened"}
  /\ Leave(s)
  /\ UNCHANGED <<row, hub, client>>

(* RelayHub::register, which notifies the connection it replaces if that has *)
(* room in its queue.                                                        *)
Register(s) ==
  /\ task[s].at = "opened"
  /\ hub' = s
  /\ \/ told' = told \cup ({hub} \cap Sockets)
     \/ told' = told
  /\ Go(s, "registered")
  /\ UNCHANGED <<row, client>>

(* The Welcome is sent; the Gateway, if it still listens, keeps the session. *)
Welcome(s) ==
  /\ task[s].at = "registered"
  /\ client' = IF client.on = s THEN [client EXCEPT !.session = task[s].session] ELSE client
  /\ Go(s, "serving")
  /\ UNCHANGED <<row, hub, told>>

(* A frame cannot be sent at a place where the error is returned at once:    *)
(* the task ends without unregistering.                                      *)
ReturnEarly(s) ==
  /\ task[s].at \in {"registered", "serving"}
  /\ Leave(s)
  /\ UNCHANGED <<row, hub, client>>

(* Mutation: a heartbeat only refreshes last_seen_at.                        *)
Touch_SeenOnly(s) ==
  /\ task[s].at = "serving"
  /\ UNCHANGED vars

(* A heartbeat is received: touch_agent_gateway_session connects the row,    *)
(* unless the unique index refuses it, which is only logged.                 *)
Touch(s) ==
  /\ task[s].at = "serving"
  /\ \A y \in Sessions \ {task[s].session} : row[y] # "connected"
  /\ row' = [row EXCEPT ![task[s].session] = "connected"]
  /\ UNCHANGED <<hub, told, task, client>>

(* The loop ends: a notice, a closed or broken socket, a bad or missing      *)
(* message; RelayHub::unregister tells whether the connection was current.   *)
Unregister(s) ==
  /\ task[s].at = "serving"
  /\ IF hub = s
     THEN /\ hub' = NoSocket
          /\ Go(s, "closing")
          /\ UNCHANGED told
     ELSE /\ UNCHANGED hub
          /\ Leave(s)
  /\ UNCHANGED <<row, client>>

(* close_agent_gateway_session; a failure is only logged.                    *)
Close(s) ==
  /\ task[s].at = "closing"
  /\ row' \in {row, [row EXCEPT ![task[s].session] = "disconnected"]}
  /\ Leave(s)
  /\ UNCHANGED <<hub, client>>

(* RelayHub::disconnect with CREDENTIAL_REVOKED.                             *)
Revoke ==
  /\ hub # NoSocket
  /\ task[hub] # Idle
  /\ told' = told \cup {hub}
  /\ UNCHANGED <<row, hub, task, client>>

(* The server stops and starts again.                                        *)
ServerRestart ==
  /\ row' = [x \in Sessions |-> IF row[x] = "connected" THEN "disconnected" ELSE row[x]]
  /\ hub' = NoSocket
  /\ told' = {}
  /\ task' = [s \in Sockets |-> Idle]
  /\ client' = [client EXCEPT !.on = NoSocket]

Next ==
  \/ Disconnect \/ Revoke \/ ServerRestart
  \/ \E s \in Sockets :
       \/ Hello(s) \/ Open(s) \/ Fail(s) \/ Register(s) \/ Welcome(s)
       \/ ReturnEarly(s) \/ Touch(s) \/ Unregister(s) \/ Close(s)

(* Both sides keep sending heartbeats, and the server runs its tasks: a loop *)
(* ends when it reads a notice or finds its socket closed.                   *)
Fairness ==
  \A s \in Sockets :
    /\ WF_vars(Touch(s) /\ client.on = s)
    /\ WF_vars(Unregister(s) /\ (s \in told \/ client.on # s))
    /\ WF_vars(Close(s))

Spec == Init /\ [][Next]_vars /\ Fairness

-----------------------------------------------------------------------------
(* Every variable keeps its kind of value; agent_gateway_sessions never has  *)
(* two connected rows of the Gateway.                                        *)
TypeOK ==
  /\ row \in [Sessions -> {"unused", "connected", "disconnected"}]
  /\ \A x, y \in Sessions : row[x] = "connected" /\ row[y] = "connected" => x = y
  /\ hub \in Sockets \cup {NoSocket}
  /\ told \subseteq Sockets
  /\ task \in [Sockets -> [at : {"idle", "authorized", "opened", "registered",
                                 "serving", "closing"},
                           session : Sessions \cup {0}]]
  /\ client \in [on : Sockets \cup {NoSocket}, session : Sessions \cup {0}]

(* A Gateway resumes its session however its connections and the restarts of *)
(* the server overlap: once it has a session id it is never given another.   *)
SessionKept == [][client.session # 0 => client'.session = client.session]_vars

Serves(s) == hub = s /\ task[s].at = "serving" /\ client.on = s

(* The row of the connection the hub uses may be disconnected by the late    *)
(* close of the one before, or by an attempt after it; it does not stay so   *)
(* unless a failed attempt has left another row connected.                   *)
ServedIsListed ==
  \A s \in Sockets :
    Serves(s) ~> ~Serves(s) \/ \E x \in Sessions : row[x] = "connected"
=============================================================================
