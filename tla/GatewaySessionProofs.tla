------------------------ MODULE GatewaySessionProofs ------------------------
(***************************************************************************)
(* Proofs about GatewaySession for any number of sockets and sessions: a   *)
(* Gateway resumes the session it has, and the table has one connected row *)
(* of it, however its connections and the restarts of the server overlap.  *)
(***************************************************************************)
EXTENDS GatewaySession, TLAPS

(* Session x has a row.                                                    *)
Made(x) == x \in Sessions /\ row[x] # "unused"

HasRow == {"opened", "registered", "serving", "closing"}

(* The session a connection has opened has a row; the one the Gateway asks *)
(* to resume, and keeps being asked for over its connection, is its own.   *)
SessionsKnown ==
  /\ client.session # 0 => Made(client.session)
  /\ \A s \in Sockets :
       /\ task[s].at \in HasRow => Made(task[s].session)
       /\ client.on = s /\ task[s].at # "idle" /\ client.session # 0 =>
            task[s].session = client.session

Inv == TypeOK /\ SessionsKnown

-----------------------------------------------------------------------------
(* Types *)

LEMMA InitInv == Init => Inv
BY SessionAssumption DEF Init, Inv, TypeOK, SessionsKnown, Idle, HasRow

Task == [at : {"idle", "authorized", "opened", "registered", "serving", "closing"},
         session : Sessions \cup {0}]

OneConnected(r) == \A x, y \in Sessions : r[x] = "connected" /\ r[y] = "connected" => x = y

(* open_agent_gateway_session leaves one connected row, also if the row it *)
(* resumes was connected.                                                  *)
LEMMA ConnectedType ==
  ASSUME TypeOK, NEW x \in Sessions
  PROVE  /\ Connected(x) \in [Sessions -> {"unused", "connected", "disconnected"}]
         /\ OneConnected(Connected(x))
         /\ \A y \in Sessions : Connected(x)[y] = "unused" => y # x /\ row[y] = "unused"
BY DEF TypeOK, Connected, OneConnected

(* What Open picks: the session to resume, or an id that has no row.       *)
LEMMA OpenPicks ==
  ASSUME TypeOK, NEW s \in Sockets, Open(s)
  PROVE  \E x \in Sessions :
           /\ row' = Connected(x)
           /\ task' = [task EXCEPT ![s] = [at |-> "opened", session |-> x]]
           /\ task[s].session # 0 /\ row[task[s].session] # "unused" => x = task[s].session
<1>1. task[s].session \in Sessions \cup {0}
  BY DEF TypeOK
<1> QED
  BY <1>1 DEF Open, Unused

LEMMA IdleType == Idle \in Task
BY DEF Idle, Task

LEMMA NextType ==
  ASSUME Inv, [Next]_vars PROVE TypeOK'
<1> DEFINE Types == /\ row' \in [Sessions -> {"unused", "connected", "disconnected"}]
                    /\ OneConnected(row')
                    /\ hub' \in Sockets \cup {NoSocket}
                    /\ told' \subseteq Sockets
                    /\ task' \in [Sockets -> Task]
                    /\ client' \in [on : Sockets \cup {NoSocket}, session : Sessions \cup {0}]
<1> SUFFICES Types
  BY DEF TypeOK, OneConnected, Task
<1>0. /\ row \in [Sessions -> {"unused", "connected", "disconnected"}] /\ OneConnected(row)
      /\ hub \in Sockets \cup {NoSocket} /\ told \subseteq Sockets
      /\ task \in [Sockets -> Task]
      /\ client \in [on : Sockets \cup {NoSocket}, session : Sessions \cup {0}]
  BY DEF Inv, TypeOK, OneConnected, Task
<1>1. ASSUME NEW s \in Sockets, NEW at \in {"opened", "registered", "serving", "closing"}, Go(s, at)
      PROVE  task' \in [Sockets -> Task]
  <2>1. [task[s] EXCEPT !.at = at] \in Task
    BY <1>0 DEF Task
  <2> QED
    BY <1>0, <1>1, <2>1 DEF Go
<1>2. ASSUME NEW s \in Sockets, Leave(s)
      PROVE  task' \in [Sockets -> Task] /\ told' \subseteq Sockets
  BY <1>0, <1>2, IdleType DEF Leave
<1>3. ASSUME NEW s \in Sockets, Hello(s) PROVE Types
  <2>1. [at |-> "authorized", session |-> client.session] \in Task
    BY <1>0 DEF Task
  <2> QED
    BY <1>0, <1>3, <2>1 DEF Hello
<1>4. ASSUME NEW s \in Sockets, Open(s) PROVE Types
  <2>1. PICK x \in Sessions : /\ row' = Connected(x)
                              /\ task' = [task EXCEPT ![s] = [at |-> "opened", session |-> x]]
    BY <1>4, OpenPicks DEF Inv
  <2>2. [at |-> "opened", session |-> x] \in Task
    BY DEF Task
  <2>3. row' \in [Sessions -> {"unused", "connected", "disconnected"}] /\ OneConnected(row')
    BY <2>1, ConnectedType DEF Inv
  <2> QED
    BY <1>0, <1>4, <2>1, <2>2, <2>3 DEF Open
<1>5. ASSUME NEW s \in Sockets, Register(s) PROVE Types
  BY <1>0, <1>1, <1>5 DEF Register
<1>6. ASSUME NEW s \in Sockets, Welcome(s) PROVE Types
  <2>1. task[s].session \in Sessions \cup {0}
    BY <1>0 DEF Task
  <2> QED
    BY <1>0, <1>1, <1>6, <2>1 DEF Welcome
<1>7. ASSUME NEW s \in Sockets, Touch(s) PROVE Types
  <2>1. /\ row' = [row EXCEPT ![task[s].session] = "connected"]
        /\ \A y \in Sessions \ {task[s].session} : row[y] # "connected"
    BY <1>7 DEF Touch
  <2>2. row' \in [Sessions -> {"unused", "connected", "disconnected"}] /\ OneConnected(row')
    BY <1>0, <2>1 DEF OneConnected
  <2> QED
    BY <1>0, <1>7, <2>2 DEF Touch
<1>8. ASSUME NEW s \in Sockets, Unregister(s) PROVE Types
  BY <1>0, <1>1, <1>2, <1>8 DEF Unregister
<1>9. ASSUME NEW s \in Sockets, Close(s) PROVE Types
  <2>1. row' \in [Sessions -> {"unused", "connected", "disconnected"}] /\ OneConnected(row')
    BY <1>0, <1>9 DEF Close, OneConnected
  <2> QED
    BY <1>0, <1>2, <1>9, <2>1 DEF Close
<1>10. ASSUME NEW s \in Sockets, Fail(s) \/ ReturnEarly(s) PROVE Types
  BY <1>0, <1>2, <1>10 DEF Fail, ReturnEarly
<1>11. CASE Disconnect \/ Revoke
  BY <1>0, <1>11 DEF Disconnect, Revoke
<1>12. CASE ServerRestart
  BY <1>0, <1>12, IdleType DEF ServerRestart, OneConnected
<1>13. CASE UNCHANGED vars
  BY <1>0, <1>13 DEF vars
<1> QED
  BY <1>3, <1>4, <1>5, <1>6, <1>7, <1>8, <1>9, <1>10, <1>11, <1>12, <1>13 DEF Next

-----------------------------------------------------------------------------
(* Sessions *)

(* Rows are never deleted.                                                 *)
LEMMA RowsStay ==
  ASSUME Inv, [Next]_vars, NEW x \in Sessions, row[x] # "unused"
  PROVE  row'[x] # "unused"
<1>0. row \in [Sessions -> {"unused", "connected", "disconnected"}]
  BY DEF Inv, TypeOK
<1>1. ASSUME NEW s \in Sockets, Open(s) PROVE row'[x] # "unused"
  BY <1>1, OpenPicks, ConnectedType DEF Inv
<1>2. ASSUME NEW s \in Sockets, Touch(s) \/ Close(s) PROVE row'[x] # "unused"
  BY <1>0, <1>2 DEF Touch, Close
<1>3. CASE ServerRestart
  BY <1>0, <1>3 DEF ServerRestart
<1> QED
  BY <1>1, <1>2, <1>3
     DEF Next, vars, Disconnect, Revoke, Hello, Fail, Register, Welcome, ReturnEarly, Unregister

(* The Gateway is told of a session only by the connection it is on.       *)
LEMMA SessionStays ==
  ASSUME Inv, [Next]_vars, client.session # 0
  PROVE  client'.session = client.session
<1>0. client \in [on : Sockets \cup {NoSocket}, session : Sessions \cup {0}]
  BY DEF Inv, TypeOK
<1>1. ASSUME NEW s \in Sockets, Welcome(s) PROVE client'.session = client.session
  BY <1>0, <1>1 DEF Welcome, Inv, SessionsKnown
<1> QED
  BY <1>0, <1>1
     DEF Next, vars, Disconnect, Revoke, ServerRestart, Hello, Open, Fail, Register,
         ReturnEarly, Touch, Unregister, Close

LEMMA NextSessions ==
  ASSUME Inv, TypeOK', [Next]_vars PROVE SessionsKnown'
<1>0. /\ client \in [on : Sockets \cup {NoSocket}, session : Sessions \cup {0}]
      /\ task \in [Sockets -> Task] /\ task' \in [Sockets -> Task]
      /\ NoSocket \notin Sockets
  BY SessionAssumption DEF Inv, TypeOK, Task
<1> DEFINE Still(x) == x \in Sessions /\ row'[x] # "unused"
           Knows(s) == /\ task'[s].at \in HasRow => Still(task'[s].session)
                       /\ client'.on = s /\ task'[s].at # "idle" /\ client'.session # 0 =>
                            task'[s].session = client'.session
           Old == client'.session # 0 => Still(client'.session)
<1> SUFFICES Old /\ \A q \in Sockets : Knows(q)
  BY DEF SessionsKnown, Made
<1>1. ASSUME NEW x, Made(x) PROVE Still(x)
  BY <1>1, RowsStay DEF Made
<1>2. ASSUME client'.session = client.session PROVE Old
  BY <1>1, <1>2 DEF Inv, SessionsKnown, Made
<1>3. ASSUME NEW s \in Sockets, task'[s] = task[s], client'.session = client.session,
             client'.on \in {client.on, NoSocket}
      PROVE  Knows(s)
  BY <1>0, <1>1, <1>3 DEF Inv, SessionsKnown, Made
<1>4. ASSUME NEW s \in Sockets, Hello(s) PROVE Old /\ \A q \in Sockets : Knows(q)
  <2>1. /\ client.on = NoSocket /\ client'.on = s /\ client'.session = client.session
        /\ task'[s].at = "authorized" /\ task'[s].session = client.session
        /\ \A q \in Sockets : q # s => task'[q] = task[q]
    BY <1>0, <1>4 DEF Hello
  <2>2. Knows(s)
    BY <2>1 DEF HasRow
  <2>3. ASSUME NEW q \in Sockets, q # s PROVE Knows(q)
    BY <1>0, <1>1, <2>1, <2>3 DEF Inv, SessionsKnown, Made
  <2> QED
    BY <1>2, <2>1, <2>2, <2>3
<1>5. ASSUME NEW s \in Sockets, Open(s) PROVE Old /\ \A q \in Sockets : Knows(q)
  <2>1. PICK x \in Sessions :
           /\ row' = Connected(x)
           /\ task' = [task EXCEPT ![s] = [at |-> "opened", session |-> x]]
           /\ task[s].session # 0 /\ row[task[s].session] # "unused" => x = task[s].session
    BY <1>5, OpenPicks DEF Inv
  <2>2. /\ task'[s].at = "opened" /\ task'[s].session = x /\ client' = client
        /\ task[s].at = "authorized"
        /\ \A q \in Sockets : q # s => task'[q] = task[q]
    BY <1>0, <1>5, <2>1 DEF Open
  <2>3. Still(x)
    BY <2>1, ConnectedType DEF Inv
  <2>4. client.on = s /\ client.session # 0 => x = client.session
    BY <2>1, <2>2 DEF Inv, SessionsKnown, Made
  <2>5. Knows(s)
    BY <2>2, <2>3, <2>4 DEF Made
  <2> QED
    BY <1>2, <1>3, <2>2, <2>5
<1>6. ASSUME NEW s \in Sockets, Welcome(s) PROVE Old /\ \A q \in Sockets : Knows(q)
  <2>1. /\ task[s].at = "registered" /\ task'[s].at = "serving"
        /\ task'[s].session = task[s].session /\ client'.on = client.on
        /\ \A q \in Sockets : q # s => task'[q] = task[q]
        /\ client'.session = IF client.on = s THEN task[s].session ELSE client.session
    BY <1>0, <1>6 DEF Welcome, Go, Task
  <2>2. Still(task[s].session)
    BY <1>1, <2>1 DEF Inv, SessionsKnown, HasRow, Made
  <2>3. Old
    BY <1>2, <2>1, <2>2 DEF Made
  <2>4. Knows(s)
    BY <2>1, <2>2 DEF Inv, SessionsKnown, Made
  <2>5. ASSUME NEW q \in Sockets, q # s PROVE Knows(q)
    BY <1>0, <1>1, <2>1, <2>5 DEF Inv, SessionsKnown, Made
  <2> QED
    BY <2>3, <2>4, <2>5
<1>7. ASSUME NEW s \in Sockets, client' = client,
             \/ \E at \in {"registered", "closing"} : Go(s, at) /\ task[s].at \in {"opened", "serving"}
             \/ Leave(s)
      PROVE  Old /\ \A q \in Sockets : Knows(q)
  <2>1. \A q \in Sockets : q # s => task'[q] = task[q]
    BY <1>0, <1>7 DEF Go, Leave
  <2>2. Knows(s)
    <3>1. CASE Leave(s)
      BY <1>0, <1>7, <3>1 DEF Leave, Idle, HasRow
    <3>2. CASE \E at \in {"registered", "closing"} : Go(s, at) /\ task[s].at \in {"opened", "serving"}
      <4>1. /\ task[s].at \in HasRow /\ task[s].at # "idle"
            /\ task'[s].session = task[s].session
        BY <1>0, <3>2 DEF Go, Task, HasRow
      <4> QED
        BY <1>1, <1>7, <4>1 DEF Inv, SessionsKnown, Made
    <3> QED
      BY <1>7, <3>1, <3>2
  <2> QED
    BY <1>2, <1>3, <1>7, <2>1, <2>2
<1>8. ASSUME NEW s \in Sockets, Touch(s) PROVE Old /\ \A q \in Sockets : Knows(q)
  BY <1>2, <1>3, <1>8 DEF Touch
<1>9. CASE Disconnect \/ Revoke \/ UNCHANGED vars
  <2>1. /\ task' = task /\ client'.session = client.session
        /\ client'.on \in {client.on, NoSocket}
    BY <1>0, <1>9 DEF Disconnect, Revoke, vars
  <2> QED
    BY <1>2, <1>3, <2>1
<1>10. CASE ServerRestart
  <2>1. /\ client'.session = client.session
        /\ \A s \in Sockets : task'[s].at = "idle"
    BY <1>0, <1>10 DEF ServerRestart, Idle
  <2>2. \A s \in Sockets : Knows(s)
    BY <2>1 DEF HasRow
  <2> QED
    BY <1>2, <2>1, <2>2
<1> QED
  BY <1>4, <1>5, <1>6, <1>7, <1>8, <1>9, <1>10
     DEF Next, Fail, Register, ReturnEarly, Unregister, Close

-----------------------------------------------------------------------------
(* Theorems *)

LEMMA Invariance == Spec => []Inv
<1>1. Inv /\ [Next]_vars => Inv'
  BY NextType, NextSessions DEF Inv
<1> QED
  BY InitInv, <1>1, PTL DEF Spec

(* The unique index of connected rows is never violated: of all overlapping*)
(* open, touch and close statements one row at most is connected.          *)
THEOREM SessionTypes == Spec => []TypeOK
<1>1. Inv => TypeOK
  BY DEF Inv
<1> QED
  BY Invariance, <1>1, PTL

(* open_agent_gateway_session resumes the session a Gateway asks for, and  *)
(* the Welcome of a connection that was given up is not listened to: a     *)
(* Gateway that has a session id is never given another.                   *)
THEOREM SessionsKept == Spec => SessionKept
<1>1. Inv /\ [Next]_vars => [client.session # 0 => client'.session = client.session]_vars
  BY SessionStays
<1> QED
  BY <1>1, Invariance, PTL DEF Spec, SessionKept
=============================================================================
