------------------------ MODULE GatewayAccessProofs ------------------------
(***************************************************************************)
(* Proofs about GatewayAccess for any accounts, enrolments, sockets and    *)
(* numbers of attempts: what an authorization decides on the row it read   *)
(* stays right, although the row changes between its statements.           *)
(***************************************************************************)
EXTENDS GatewayAccess, TLAPS

(* The row is made once, with its id, and from then on active or revoked.  *)
RowOK(r) ==
  \/ r = NoRow
  \/ r.status \in {"active", "revoked"} /\ r.gateway # 0 /\ r.token # 0

(* What may become of the row r: its id stays, its token is never an older *)
(* one, and is a newer one if the row comes to life again.                 *)
RowStep(r, q) ==
  /\ RowOK(q)
  /\ r # NoRow => q # NoRow /\ q.gateway = r.gateway
  /\ r.token <= q.token
  /\ \/ r.status # "active" /\ q.status = "active"
     \/ r.validity = "expired" /\ q.validity # "expired"
     => r.token < q.token

(* What a task read is what the row is or was.                             *)
SeenBefore(t, r) ==
  t.seen # NoRow =>
    /\ t.seen.status \in {"active", "revoked"}
    /\ r # NoRow /\ t.seen.gateway = r.gateway
    /\ t.token <= t.seen.token /\ t.seen.token <= r.token
    /\ t.seen.status = "revoked" /\ r.status = "active" => t.seen.token < r.token

(* No token is presented or answered that the row has not reached.         *)
TokensIssued(t, r) ==
  /\ t.token <= r.token
  /\ t.at = "welcome" => t.answer <= r.token
  /\ t.at \notin {"welcome", "pair"} => t.answer = 0

(* What a task knows, by where it stands.                                  *)
Known(t) ==
  /\ t.at \notin {"idle", "read"} /\ t.seen = NoRow => t.token = 0
  /\ t.at \in {"check", "rotate", "welcome"} => t.seen # NoRow
  /\ t.at = "rotate" => t.approved \/ t.seen.status = "active"

Accepted(t, r) ==
  t.at \in {"pending", "pair"} =>
    ~ (t.token # 0 /\ t.token = r.token /\ r.status = "active" /\ r.validity # "expired")

TaskOK(t, r) == SeenBefore(t, r) /\ TokensIssued(t, r) /\ Known(t) /\ Accepted(t, r)

GatewayOK(g, r) == g.token <= r.token /\ (g.id # 0 => r # NoRow /\ g.id = r.gateway)

(* Pairing requests are never deleted.                                     *)
PairingsKnown ==
  /\ gateway.pairing \in 0..Len(pairings)
  /\ \A s \in Sockets :
       /\ task[s].followup = "pairing" => task[s].id \in 1..Len(pairings)
       /\ task[s].at = "pair" => task[s].answer \in 1..Len(pairings)

(* An account a task acts for has agreed.                                  *)
TasksAgreed == \A s \in Sockets : task[s].owner # NoUser => Agreed(task[s].owner)

Access == RowOK(row) /\ GatewayOK(gateway, row) /\ \A s \in Sockets : TaskOK(task[s], row)

Inv == TypeOK /\ PairingsKnown /\ Access /\ OwnerAgreed /\ TasksAgreed

-----------------------------------------------------------------------------
(* Types *)

LEMMA Values ==
  /\ NoRow \in Row /\ Idle \in Task
  /\ 0 \in GatewayIds
BY AccessAssumption DEF NoRow, Row, Idle, Task, GatewayIds, Launches

LEMMA InitInv == Init => Inv
<1> SUFFICES ASSUME Init PROVE Inv
  OBVIOUS
<1>1. PICK setting \in Settings :
        /\ guest = setting[1]
        /\ gateway = [on |-> NoSocket, launch |-> setting[2], token |-> 0, id |-> 0,
                      pairing |-> 0, attempts |-> 0]
  BY DEF Init
<1>2. setting[1] \in BOOLEAN /\ setting[2] \in Launches
  BY AccessAssumption DEF Launches
<1>3. TypeOK
  <2>1. 1 \in 1..(MaxGateways + 1)
    BY AccessAssumption
  <2>2. [e \in Enrolments |-> [status |-> "unissued", gateway |-> 0, expired |-> FALSE]]
          \in [Enrolments -> Enrolment]
    BY Values DEF Enrolment
  <2>3. gateway \in [on : Sockets \cup {NoSocket}, launch : Launches, token : Nat,
                     id : GatewayIds, pairing : Nat, attempts : Nat]
    BY <1>1, <1>2, Values
  <2>4. [active |-> TRUE, gateway |-> 0] \in [active : BOOLEAN, gateway : GatewayIds]
    BY Values
  <2>5. <<>> \in Seq(Pairing)
    OBVIOUS
  <2> QED
    BY <1>1, <1>2, <2>1, <2>2, <2>3, <2>4, <2>5, Values DEF Init, TypeOK
<1>4. Access
  BY <1>1, Values
     DEF Init, Access, RowOK, GatewayOK, TaskOK, SeenBefore, TokensIssued, Known, Accepted,
         Idle, NoRow
<1>5. PairingsKnown
  BY <1>1 DEF Init, PairingsKnown, Idle
<1>6. OwnerAgreed /\ TasksAgreed
  BY DEF Init, OwnerAgreed, TasksAgreed, NoRow, Idle
<1> QED
  BY <1>3, <1>4, <1>5, <1>6 DEF Inv

LEMMA StepType ==
  ASSUME TypeOK, NEW s \in Sockets, NEW t \in Task, Step(s, t)
  PROVE  task' \in [Sockets -> Task]
BY DEF TypeOK, Step

LEMMA GoType ==
  ASSUME TypeOK, NEW s \in Sockets,
         NEW at \in {"followup", "approvals", "decide", "check", "rotate", "pending", "welcome",
                     "error"},
         Go(s, at)
  PROVE  task' \in [Sockets -> Task]
<1>1. task[s] \in Task
  BY DEF TypeOK
<1>2. [task[s] EXCEPT !.at = at] \in Task
  BY <1>1 DEF Task
<1> QED
  BY <1>2, StepType DEF Go

LEMMA SuggestedType ==
  ASSUME TypeOK, NEW s \in Sockets, SpendId(s)
  PROVE  Suggested(s) \in GatewayIds /\ nextGateway' \in 1..(MaxGateways + 1)
<1>1. task[s].seen.gateway \in GatewayIds
  BY DEF TypeOK, Task, Row
<1>2. MaxGateways \in Nat /\ nextGateway \in 1..(MaxGateways + 1)
  BY AccessAssumption DEF TypeOK
<1> QED
  BY <1>1, <1>2 DEF SpendId, Suggested, GatewayIds

LEMMA ApprovedType ==
  ASSUME TypeOK, NEW s \in Sockets, NEW u \in Users \cup {NoUser}, NEW g \in GatewayIds
  PROVE  Approved(s, u, g) \in Task
<1>1. task[s] \in Task
  BY DEF TypeOK
<1> QED
  BY <1>1 DEF Approved, Task

LEMMA PairedType ==
  ASSUME TypeOK, NEW s \in Sockets, NEW p \in DOMAIN pairings
  PROVE  Paired(s, p) \in Task
<1>1. pairings[p] \in Pairing /\ p \in Nat
  BY DEF TypeOK
<1>2. Approved(s, pairings[p].owner, 0) \in Task
  BY <1>1, ApprovedType, Values DEF Pairing
<1> QED
  BY <1>1, <1>2 DEF Paired, Task

(* What the two ways to consume a pairing request leave of the task.       *)
LEMMA PairedTask ==
  ASSUME TypeOK, NEW s \in Sockets, NEW p
  PROVE  LET t == Paired(s, p) IN
         /\ t.at = "decide" /\ t.approved /\ t.id = p /\ t.owner = pairings[p].owner
         /\ t.token = task[s].token /\ t.followup = task[s].followup
         /\ t.seen = task[s].seen /\ t.answer = task[s].answer
<1>1. task[s] \in Task
  BY DEF TypeOK
<1> QED
  BY <1>1 DEF Paired, Approved, Task

LEMMA IssuedType ==
  ASSUME TypeOK, NEW s \in Sockets, NEW r \in Row
  PROVE  Issued(s, r) \in Task
<1>1. task[s] \in Task /\ r.token \in Nat
  BY DEF TypeOK, Row
<1> QED
  BY <1>1 DEF Issued, Task

LEMMA FunctionIsSequence ==
  ASSUME NEW S, NEW n \in Nat, NEW f \in [1..n -> S]
  PROVE  f \in Seq(S) /\ Len(f) = n
<1>1. f \in Seq(S)
  OBVIOUS
<1>2. DOMAIN f = 1..n /\ Len(f) \in Nat /\ DOMAIN f = 1..Len(f)
  BY <1>1
<1> QED
  BY <1>1, <1>2

(* Pairing requests change in place.                                       *)
LEMMA PairingType ==
  ASSUME TypeOK, NEW p, NEW x \in Pairing, pairings' = [pairings EXCEPT ![p] = x]
  PROVE  pairings' \in Seq(Pairing) /\ Len(pairings') = Len(pairings)
<1>1. /\ pairings \in Seq(Pairing) /\ Len(pairings) \in Nat
      /\ pairings \in [1..Len(pairings) -> Pairing]
  BY DEF TypeOK
<1>2. pairings' \in [1..Len(pairings) -> Pairing]
  BY <1>1
<1> QED
  BY <1>1, <1>2, FunctionIsSequence

(* The sweep of expired requests keeps their number.                       *)
LEMMA RequestType ==
  ASSUME TypeOK, NEW s \in Sockets, RequestPairing(s)
  PROVE  /\ pairings' \in Seq(Pairing) /\ Len(pairings) <= Len(pairings')
         /\ \E p \in 1..Len(pairings') :
              task' = [task EXCEPT ![s] = [task[s] EXCEPT !.at = "pair", !.answer = p]]
<1> DEFINE swept == [p \in DOMAIN pairings |->
                      IF pairings[p].status = "pending" /\ pairings[p].expired
                      THEN [pairings[p] EXCEPT !.status = "expired"] ELSE pairings[p]]
<1>1. /\ pairings \in Seq(Pairing) /\ Len(pairings) \in Nat
      /\ DOMAIN pairings = 1..Len(pairings)
      /\ \A p \in 1..Len(pairings) : pairings[p] \in Pairing
  BY DEF TypeOK
<1>2. ASSUME NEW p \in 1..Len(pairings) PROVE swept[p] \in Pairing
  <2>1. [pairings[p] EXCEPT !.status = "expired"] \in Pairing
    BY <1>1 DEF Pairing
  <2> QED
    BY <1>1, <2>1
<1>3. swept \in Seq(Pairing) /\ Len(swept) = Len(pairings) /\ DOMAIN swept = 1..Len(pairings)
  <2>1. swept \in [1..Len(pairings) -> Pairing]
    BY <1>1, <1>2
  <2> QED
    BY <1>1, <2>1, FunctionIsSequence
<1>4. [status |-> "pending", owner |-> NoUser, expired |-> FALSE] \in Pairing
  BY DEF Pairing
<1>5. \/ /\ pairings' = swept
         /\ \E p \in {q \in DOMAIN swept : swept[q].status = "pending"} :
              Step(s, [task[s] EXCEPT !.at = "pair", !.answer = p])
      \/ /\ pairings' = Append(swept, [status |-> "pending", owner |-> NoUser,
                                       expired |-> FALSE])
         /\ Step(s, [task[s] EXCEPT !.at = "pair", !.answer = Len(pairings')])
  BY DEF RequestPairing
<1> HIDE DEF swept
<1>6. ASSUME pairings' = swept,
             NEW p \in DOMAIN swept, Step(s, [task[s] EXCEPT !.at = "pair", !.answer = p])
      PROVE  \E q \in 1..Len(pairings') :
               task' = [task EXCEPT ![s] = [task[s] EXCEPT !.at = "pair", !.answer = q]]
  BY <1>3, <1>6 DEF Step
<1>7. CASE /\ pairings' = Append(swept, [status |-> "pending", owner |-> NoUser,
                                         expired |-> FALSE])
           /\ Step(s, [task[s] EXCEPT !.at = "pair", !.answer = Len(pairings')])
  <2>1. pairings' \in Seq(Pairing) /\ Len(pairings') = Len(pairings) + 1
    BY <1>1, <1>3, <1>4, <1>7
  <2>2. Len(pairings') \in 1..Len(pairings')
    BY <1>1, <2>1
  <2>3. \E q \in 1..Len(pairings') :
          task' = [task EXCEPT ![s] = [task[s] EXCEPT !.at = "pair", !.answer = q]]
    BY <1>7, <2>2, Zenon DEF Step
  <2>4. pairings' \in Seq(Pairing) /\ Len(pairings) <= Len(pairings')
    BY <1>1, <2>1
  <2> QED
    BY <2>3, <2>4, Zenon
<1>8. CASE /\ pairings' = swept
           /\ \E p \in {q \in DOMAIN swept : swept[q].status = "pending"} :
                Step(s, [task[s] EXCEPT !.at = "pair", !.answer = p])
  <2>1. \E q \in 1..Len(pairings') :
          task' = [task EXCEPT ![s] = [task[s] EXCEPT !.at = "pair", !.answer = q]]
    BY <1>6, <1>8, Zenon
  <2>2. pairings' \in Seq(Pairing) /\ Len(pairings) <= Len(pairings')
    BY <1>1, <1>3, <1>8
  <2> QED
    BY <2>1, <2>2, Zenon
<1> QED
  BY <1>5, <1>7, <1>8, Zenon

(* The statements of authorize_gateway_machine.                            *)
LEMMA AuthorizeType ==
  ASSUME TypeOK, PairingsKnown, NEW s \in Sockets, Authorize(s)
  PROVE  TypeOK'
<1>0. /\ task[s] \in Task /\ task[s].seen \in Row /\ task[s].owner \in Users \cup {NoUser}
      /\ task[s].followup = "pairing" => task[s].id \in DOMAIN pairings
  BY DEF TypeOK, Task, PairingsKnown
<1> USE DEF tables
<1>1. CASE ReadRow(s)
  <2>1. [task[s] EXCEPT !.at = "followup", !.seen = row] \in Task
    BY <1>0 DEF TypeOK, Task
  <2> QED
    BY <1>1, <2>1, StepType DEF ReadRow, TypeOK
<1>2. CASE FollowEnrolment(s)
  <2> DEFINE e == task[s].followup
             g == Suggested(s)
  <2>1. /\ e \in Enrolments /\ g \in GatewayIds /\ nextGateway' \in 1..(MaxGateways + 1)
        /\ OwnerOf[e] \in Users
    BY <1>2, SuggestedType, AccessAssumption DEF FollowEnrolment
  <2>2. CASE Consumable(e, g)
    <3>1. /\ enrolment' = [enrolment EXCEPT ![e].status = "consumed", ![e].gateway = g]
          /\ assigned' = assigned \cup {<<"enrolment", g>>}
          /\ Step(s, Approved(s, OwnerOf[e], g))
      BY <1>2, <2>2 DEF FollowEnrolment
    <3>2. task' \in [Sockets -> Task]
      BY <2>1, <3>1, ApprovedType, StepType
    <3>3. enrolment' \in [Enrolments -> Enrolment]
      BY <2>1, <3>1 DEF TypeOK, Enrolment
    <3>4. assigned' \subseteq {"app", "enrolment"} \X GatewayIds
      BY <2>1, <3>1 DEF TypeOK
    <3> QED
      BY <1>2, <2>1, <3>2, <3>3, <3>4 DEF FollowEnrolment, TypeOK
  <2>3. CASE ~Consumable(e, g)
    BY <1>2, <2>1, <2>3, GoType DEF FollowEnrolment, TypeOK
  <2> QED
    BY <2>2, <2>3
<1>3. CASE FollowApp(s)
  <2>1. Suggested(s) \in GatewayIds /\ nextGateway' \in 1..(MaxGateways + 1)
    BY <1>3, SuggestedType DEF FollowApp
  <2>2. CASE app' = app /\ assigned' = assigned /\ Go(s, "error")
    BY <1>3, <2>1, <2>2, GoType DEF FollowApp, TypeOK
  <2>3. CASE \E g \in {app.gateway, Suggested(s)} :
               /\ app' = [app EXCEPT !.gateway = g]
               /\ assigned' = assigned \cup {<<"app", g>>}
               /\ Step(s, Approved(s, AppOwner, g))
    <3>1. PICK g \in {app.gateway, Suggested(s)} :
               /\ app' = [app EXCEPT !.gateway = g]
               /\ assigned' = assigned \cup {<<"app", g>>}
               /\ Step(s, Approved(s, AppOwner, g))
      BY <2>3
    <3>2. g \in GatewayIds
      BY <2>1 DEF TypeOK
    <3>3. task' \in [Sockets -> Task]
      BY <3>1, <3>2, ApprovedType, StepType, AccessAssumption
    <3>4. app' \in [active : BOOLEAN, gateway : GatewayIds]
      BY <3>1, <3>2 DEF TypeOK
    <3>5. assigned' \subseteq {"app", "enrolment"} \X GatewayIds
      BY <3>1, <3>2 DEF TypeOK
    <3> QED
      BY <1>3, <2>1, <3>3, <3>4, <3>5 DEF FollowApp, TypeOK
  <2> QED
    BY <1>3, <2>2, <2>3 DEF FollowApp
<1>4. CASE FollowBootstrap(s)
  <2>1. Approved(s, NoUser, 0) \in Task
    BY ApprovedType, Values
  <2> QED
    BY <1>4, <2>1, StepType DEF FollowBootstrap, TypeOK
<1>5. ASSUME NEW p \in DOMAIN pairings, Consume(p),
             Step(s, Paired(s, p)),
             UNCHANGED <<guest, row, enrolment, app, assigned, revoking, nextGateway, gateway>>
      PROVE  TypeOK'
  <2>1. pairings[p] \in Pairing
    BY DEF TypeOK
  <2>2. pairings[p].owner \in Users \cup {NoUser}
        /\ [pairings[p] EXCEPT !.status = "consumed"] \in Pairing
    BY <2>1 DEF Pairing
  <2>3. pairings' \in Seq(Pairing)
    BY <1>5, <2>2, PairingType DEF Consume
  <2>4. task' \in [Sockets -> Task]
    BY <1>5, PairedType, StepType
  <2> QED
    BY <1>5, <2>3, <2>4 DEF TypeOK
<1>6. CASE FollowPairing(s)
  BY <1>0, <1>5, <1>6, GoType DEF FollowPairing, TypeOK
<1>7. CASE ConsumeApproval(s)
  BY <1>5, <1>7, GoType DEF ConsumeApproval, TypeOK
<1>8. CASE CreateAuthorization(s)
  <2>1. task[s].preferred \in GatewayIds /\ nextGateway \in 1..(MaxGateways + 1)
        /\ MaxGateways \in Nat
    BY <1>0, AccessAssumption DEF TypeOK, Task
  <2>2. /\ nextGateway' \in 1..(MaxGateways + 1)
        /\ (IF task[s].preferred = 0 THEN nextGateway ELSE task[s].preferred) \in GatewayIds
    BY <1>8, <2>1 DEF CreateAuthorization, GatewayIds
  <2>3. CASE row = NoRow
    <3>1. row' \in Row /\ Step(s, Issued(s, row'))
      BY <1>0, <1>8, <2>2, <2>3 DEF CreateAuthorization, Row
    <3>2. task' \in [Sockets -> Task]
      BY <3>1, IssuedType, StepType
    <3> QED
      BY <1>8, <2>2, <3>1, <3>2 DEF CreateAuthorization, TypeOK
  <2>4. CASE row # NoRow
    BY <1>8, <2>2, <2>4, GoType DEF CreateAuthorization, TypeOK
  <2> QED
    BY <2>3, <2>4
<1>9. CASE ClaimOwner(s)
  <2>1. CASE row' = row /\ Go(s, "error")
    BY <1>9, <2>1, GoType DEF ClaimOwner, TypeOK
  <2>2. CASE /\ row' = [row EXCEPT !.owner = task[s].owner]
             /\ Step(s, [task[s] EXCEPT !.at = "check", !.seen = row'])
    <3>1. row' \in Row
      BY <1>0, <2>2 DEF TypeOK, Row
    <3>2. [task[s] EXCEPT !.at = "check", !.seen = row'] \in Task
      BY <1>0, <3>1 DEF Task
    <3> QED
      BY <1>9, <2>2, <3>1, <3>2, StepType DEF ClaimOwner, TypeOK
  <2> QED
    BY <1>9, <2>1, <2>2 DEF ClaimOwner
<1>10. CASE Check(s)
  BY <1>10, GoType DEF Check, TypeOK
<1>11. CASE Rotate(s)
  <2>1. row' \in Row
    <3>1. row \in Row /\ row.token \in Nat /\ row.token + 1 \in Nat
      BY DEF TypeOK, Row
    <3>2. (IF row.status = "active" /\ row.validity # "expired" THEN row.token ELSE 0) \in Nat
      BY <3>1
    <3> QED
      BY <1>11, <3>1, <3>2 DEF Rotate, Row
  <2>2. task' \in [Sockets -> Task]
    BY <1>11, <2>1, IssuedType, StepType DEF Rotate
  <2> QED
    BY <1>11, <2>1, <2>2 DEF Rotate, TypeOK
<1>12. CASE Unknown(s)
  BY <1>12, GoType DEF Unknown, TypeOK
<1>13. CASE RequestPairing(s)
  <2>1. /\ pairings' \in Seq(Pairing)
        /\ \E p \in 1..Len(pairings') :
             task' = [task EXCEPT ![s] = [task[s] EXCEPT !.at = "pair", !.answer = p]]
    BY <1>13, RequestType
  <2>2. \A p \in Nat : [task[s] EXCEPT !.at = "pair", !.answer = p] \in Task
    BY <1>0 DEF Task
  <2>3. task' \in [Sockets -> Task]
    <3>1. PICK p \in 1..Len(pairings') :
            task' = [task EXCEPT ![s] = [task[s] EXCEPT !.at = "pair", !.answer = p]]
      BY <2>1
    <3>2. p \in Nat
      BY <2>1
    <3> QED
      BY <2>2, <3>1, <3>2 DEF TypeOK
  <2> QED
    BY <1>13, <2>1, <2>3 DEF RequestPairing, TypeOK
<1> QED
  BY <1>1, <1>2, <1>3, <1>4, <1>6, <1>7, <1>8, <1>9, <1>10, <1>11, <1>12, <1>13 DEF Authorize

(* The Gateway process, with the server's end of its sockets.              *)
LEMMA GatewayType ==
  ASSUME TypeOK, Gateway PROVE TypeOK'
<1> DEFINE G == [on : Sockets \cup {NoSocket}, launch : Launches, token : Nat,
                 id : GatewayIds, pairing : Nat, attempts : Nat]
<1>0. gateway \in G /\ \A s \in Sockets : task[s] \in Task
  BY DEF TypeOK
<1> USE DEF tables
<1>1. ASSUME NEW s \in Sockets, Hello(s) PROVE TypeOK'
  <2>1. gateway' \in G
    <3>1. gateway.attempts + 1 \in Nat
      BY <1>0
    <3>2. [gateway EXCEPT !.on = s, !.attempts = @ + 1] \in G
      BY <1>0, <3>1
    <3> QED
      BY <1>1, <3>2 DEF Hello
  <2>2. /\ gateway.token \in Nat /\ gateway.pairing \in Nat
        /\ Followup \in Launches \cup {"pairing"}
    BY <1>0 DEF Followup, Launches
  <2>3. [Idle EXCEPT !.at = "read", !.token = gateway.token, !.followup = Followup,
                     !.id = gateway.pairing] \in Task
    BY <2>2, Values DEF Task
  <2>4. task' \in [Sockets -> Task]
    BY <1>1, <2>3 DEF Hello, TypeOK
  <2> QED
    BY <1>1, <2>1, <2>4 DEF Hello, TypeOK
<1>2. CASE GiveUp
  BY <1>0, <1>2 DEF GiveUp, Hang, TypeOK
<1>3. ASSUME NEW f \in Relaunches, Relaunch(f) PROVE TypeOK'
  <2>1. f \in Launches
    BY AccessAssumption DEF Launches
  <2> QED
    BY <1>0, <1>3, <2>1 DEF Relaunch, Hang, TypeOK
<1>4. ASSUME NEW s \in Sockets, task' = [task EXCEPT ![s] = Idle], gateway' \in G,
             UNCHANGED <<guest, tables>>
      PROVE  TypeOK'
  BY <1>4, Values DEF TypeOK
<1>5. ASSUME NEW s \in Sockets, Welcomed(s) PROVE TypeOK'
  <2>1. /\ task[s].answer \in Nat /\ task[s].token \in Nat /\ task[s].seen.gateway \in GatewayIds
    BY <1>0 DEF Task, Row
  <2>2. Hang(gateway) \in G
    BY <1>0 DEF Hang
  <2>3. [Hang(gateway) EXCEPT
           !.token = IF task[s].answer # 0 THEN task[s].answer ELSE task[s].token,
           !.id = task[s].seen.gateway,
           !.pairing = 0] \in G
    BY <2>1, <2>2
  <2>4. gateway' \in G
    BY <1>0, <1>5, <2>2, <2>3, Zenon DEF Welcomed
  <2> QED
    BY <1>4, <1>5, <2>4 DEF Welcomed
<1>6. ASSUME NEW s \in Sockets, MustPair(s) PROVE TypeOK'
  <2>1. task[s].answer \in Nat
    BY <1>0 DEF Task
  <2>2. Hang(gateway) \in G
    BY <1>0 DEF Hang
  <2>3. [Hang(gateway) EXCEPT !.pairing = task[s].answer] \in G
    BY <2>1, <2>2
  <2>4. gateway' \in G
    BY <1>0, <1>6, <2>3, Zenon DEF MustPair
  <2> QED
    BY <1>4, <1>6, <2>4 DEF MustPair
<1>7. ASSUME NEW s \in Sockets, Refused(s) PROVE TypeOK'
  <2>1. gateway' \in G
    BY <1>0, <1>7 DEF Refused, Hang
  <2> QED
    BY <1>4, <1>7, <2>1 DEF Refused
<1> QED
  BY <1>1, <1>2, <1>3, <1>5, <1>6, <1>7 DEF Gateway

LEMMA OperatorType ==
  ASSUME TypeOK, Operator PROVE TypeOK'
<1>0. Revoked \in Row
  BY DEF TypeOK, Row, Revoked
<1>1. ASSUME NEW e \in Enrolments, IssueEnrolment(e) PROVE TypeOK'
  <2>1. enrolment' \in [Enrolments -> Enrolment]
    BY <1>1 DEF IssueEnrolment, TypeOK, Enrolment
  <2> QED
    BY <1>1, <2>1 DEF IssueEnrolment, TypeOK
<1>2. ASSUME NEW e \in Enrolments, RevokeEnrolment(e) PROVE TypeOK'
  <2>1. enrolment' \in [Enrolments -> Enrolment] /\ enrolment[e].gateway \in GatewayIds
    BY <1>2 DEF RevokeEnrolment, TypeOK, Enrolment
  <2>2. assigned' \subseteq assigned /\ revoking' \subseteq revoking \cup {enrolment[e].gateway}
        /\ (enrolment[e].gateway = 0 => revoking' = revoking)
    BY <1>2 DEF RevokeEnrolment
  <2> QED
    BY <1>2, <2>1, <2>2 DEF RevokeEnrolment, TypeOK
<1>3. ASSUME NEW g \in GatewayIds, RevokeEnrolled(g) PROVE TypeOK'
  BY <1>0, <1>3 DEF RevokeEnrolled, TypeOK
<1>4. CASE RevokeGateway
  BY <1>0, <1>4 DEF RevokeGateway, TypeOK
<1>5. CASE RevokeApp
  BY <1>5 DEF RevokeApp, TypeOK
<1>6. ASSUME NEW p \in Ids, RejectPairing(p) PROVE TypeOK'
  <2>1. [pairings[p] EXCEPT !.status = "rejected"] \in Pairing
    <3>1. pairings[p] \in Pairing
      BY <1>6 DEF RejectPairing, TypeOK
    <3> QED
      BY <3>1 DEF Pairing
  <2>2. pairings' \in Seq(Pairing)
    BY <1>6, <2>1, PairingType DEF RejectPairing
  <2> QED
    BY <1>6, <2>2 DEF RejectPairing, TypeOK
<1>7. ASSUME NEW p \in Ids, NEW u \in Users \cup {NoUser}, ApprovePairing(p, u) PROVE TypeOK'
  <2>1. [pairings[p] EXCEPT !.status = "approved", !.owner = u] \in Pairing
    <3>1. pairings[p] \in Pairing
      BY <1>7 DEF ApprovePairing, TypeOK
    <3> QED
      BY <3>1 DEF Pairing
  <2>2. pairings' = [pairings EXCEPT ![p] = [pairings[p] EXCEPT !.status = "approved",
                                                                !.owner = u]]
    BY <1>7 DEF ApprovePairing, TypeOK
  <2>3. pairings' \in Seq(Pairing)
    BY <2>1, <2>2, PairingType
  <2> QED
    BY <1>7, <2>3 DEF ApprovePairing, TypeOK
<1> QED
  BY <1>1, <1>2, <1>3, <1>4, <1>5, <1>6, <1>7 DEF Operator

LEMMA ClockType ==
  ASSUME TypeOK, Clock PROVE TypeOK'
<1>1. ASSUME NEW e \in Enrolments, EnrolmentExpires(e) PROVE TypeOK'
  BY <1>1, ZenonT(40) DEF EnrolmentExpires, TypeOK, Enrolment
<1>2. ASSUME NEW p \in Ids, PairingExpires(p) PROVE TypeOK'
  <2>1. [pairings[p] EXCEPT !.expired = TRUE] \in Pairing
    <3>1. pairings[p] \in Pairing
      BY <1>2 DEF PairingExpires, TypeOK
    <3> QED
      BY <3>1 DEF Pairing
  <2>2. pairings' \in Seq(Pairing)
    BY <1>2, <2>1, PairingType DEF PairingExpires
  <2> QED
    BY <1>2, <2>2 DEF PairingExpires, TypeOK
<1>3. CASE GraceEnds
  BY <1>3 DEF GraceEnds, TypeOK, Row
<1>4. CASE TokenAges
  <2>1. row' \in Row
    BY <1>4 DEF TokenAges, TypeOK, Row
  <2> QED
    BY <1>4, <2>1 DEF TokenAges, TypeOK
<1> QED
  BY <1>1, <1>2, <1>3, <1>4 DEF Clock

LEMMA NextType == TypeOK /\ PairingsKnown /\ [Next]_vars => TypeOK'
<1> SUFFICES ASSUME TypeOK, PairingsKnown, [Next]_vars PROVE TypeOK'
  OBVIOUS
<1>1. CASE ServerRestart
  BY <1>1, Values DEF ServerRestart, Hang, TypeOK
<1>2. CASE UNCHANGED vars
  BY <1>2 DEF vars, TypeOK
<1> QED
  BY <1>1, <1>2, AuthorizeType, GatewayType, OperatorType, ClockType DEF Next

-----------------------------------------------------------------------------
(* Pairing requests *)

(* What the task that takes a step keeps; only the request for a pairing   *)
(* leads to "pair".                                                        *)
LEMMA AuthorizeKeeps ==
  ASSUME TypeOK, PairingsKnown, NEW s \in Sockets, Authorize(s)
  PROVE  /\ \A q \in Sockets : q # s => task'[q] = task[q]
         /\ task'[s].token = task[s].token
         /\ task'[s].followup = task[s].followup
         /\ task'[s].id \in {task[s].id} \cup DOMAIN pairings
         /\ task'[s].at = "pair" => RequestPairing(s)
<1>0. task[s] \in Task
  BY DEF TypeOK
<1> DEFINE Keeps(t) == /\ t.token = task[s].token /\ t.followup = task[s].followup
                       /\ t.id \in {task[s].id} \cup DOMAIN pairings
<1> DEFINE Goal == /\ \A q \in Sockets : q # s => task'[q] = task[q]
                   /\ task'[s].token = task[s].token
                   /\ task'[s].followup = task[s].followup
                   /\ task'[s].id \in {task[s].id} \cup DOMAIN pairings
                   /\ task'[s].at = "pair" => RequestPairing(s)
<1>1. ASSUME NEW t, Keeps(t), Step(s, t), t.at # "pair" \/ RequestPairing(s)
      PROVE  Goal
  BY <1>1 DEF TypeOK, Step
<1>2. \A r : Keeps(Issued(s, r)) /\ Issued(s, r).at # "pair"
  BY <1>0 DEF Issued, Task
<1>3. \A u, g : Keeps(Approved(s, u, g)) /\ Approved(s, u, g).at # "pair"
  BY <1>0 DEF Approved, Task
<1>4. \A at : Keeps([task[s] EXCEPT !.at = at]) /\ [task[s] EXCEPT !.at = at].at = at
  BY <1>0 DEF Task
<1>5. \A at, r : /\ Keeps([task[s] EXCEPT !.at = at, !.seen = r])
                 /\ [task[s] EXCEPT !.at = at, !.seen = r].at = at
  BY <1>0 DEF Task
<1>6. \A p : Keeps([task[s] EXCEPT !.at = "pair", !.answer = p])
  BY <1>0 DEF Task
<1>20. \A p \in DOMAIN pairings : Keeps(Paired(s, p)) /\ Paired(s, p).at # "pair"
  BY PairedTask
<1>21. task[s].followup = "pairing" => task[s].id \in DOMAIN pairings
  BY DEF PairingsKnown, TypeOK
<1> SUFFICES Goal
  OBVIOUS
<1> HIDE DEF Keeps, Goal
<1>7. \A at : at # "pair" /\ Go(s, at) => Goal
  BY <1>1, <1>4 DEF Go
<1>8. \A u, g : Step(s, Approved(s, u, g)) => Goal
  BY <1>1, <1>3
<1>9. CASE ReadRow(s)
  BY <1>1, <1>5, <1>9 DEF ReadRow
<1>10. CASE FollowEnrolment(s)
  BY <1>7, <1>8, <1>10 DEF FollowEnrolment
<1>11. CASE FollowApp(s)
  BY <1>7, <1>8, <1>11 DEF FollowApp
<1>12. CASE FollowBootstrap(s)
  BY <1>8, <1>12 DEF FollowBootstrap
<1>13. CASE FollowPairing(s)
  BY <1>1, <1>7, <1>13, <1>20, <1>21 DEF FollowPairing
<1>14. CASE ConsumeApproval(s)
  BY <1>1, <1>7, <1>14, <1>20 DEF ConsumeApproval
<1>15. CASE CreateAuthorization(s)
  BY <1>1, <1>2, <1>7, <1>15 DEF CreateAuthorization
<1>16. CASE ClaimOwner(s)
  <2>1. CASE Go(s, "error")
    BY <1>7, <2>1
  <2>2. CASE Step(s, [task[s] EXCEPT !.at = "check", !.seen = row'])
    <3>1. /\ Keeps([task[s] EXCEPT !.at = "check", !.seen = row'])
          /\ [task[s] EXCEPT !.at = "check", !.seen = row'].at # "pair"
      BY <1>0 DEF Keeps, Task
    <3> QED
      BY <1>1, <2>2, <3>1
  <2> QED
    BY <1>16, <2>1, <2>2 DEF ClaimOwner
<1>17. CASE Check(s) \/ Unknown(s)
  BY <1>7, <1>17 DEF Check, Unknown
<1>18. CASE Rotate(s)
  BY <1>1, <1>2, <1>18 DEF Rotate
<1>19. CASE RequestPairing(s)
  <2>1. PICK p : Step(s, [task[s] EXCEPT !.at = "pair", !.answer = p])
    BY <1>19, RequestType, Zenon DEF Step
  <2> QED
    BY <1>1, <1>6, <1>19, <2>1
<1> QED
  BY <1>9, <1>10, <1>11, <1>12, <1>13, <1>14, <1>15, <1>16, <1>17, <1>18, <1>19 DEF Authorize

LEMMA NextPairings == TypeOK /\ PairingsKnown /\ [Next]_vars => PairingsKnown'
<1> SUFFICES ASSUME TypeOK, PairingsKnown, [Next]_vars PROVE PairingsKnown'
  OBVIOUS
<1>0. Len(pairings) \in Nat /\ gateway.pairing \in 0..Len(pairings)
  BY DEF TypeOK, PairingsKnown
<1>1. ASSUME NEW s \in Sockets, Authorize(s) PROVE PairingsKnown'
  <2>1. Len(pairings') \in Nat /\ Len(pairings) <= Len(pairings') /\ gateway' = gateway
    <3>1. CASE FollowPairing(s) \/ ConsumeApproval(s)
      <4>1. \/ pairings' = pairings
            \/ \E p \in DOMAIN pairings : Consume(p)
        BY <3>1 DEF FollowPairing, ConsumeApproval, PairingsKnown, TypeOK
      <4>2. ASSUME NEW p \in DOMAIN pairings, Consume(p) PROVE Len(pairings') = Len(pairings)
        <5>1. pairings[p] \in Pairing
          BY DEF TypeOK
        <5>2. [pairings[p] EXCEPT !.status = "consumed"] \in Pairing
          BY <5>1 DEF Pairing
        <5> QED
          BY <4>2, <5>2, PairingType DEF Consume
      <4>3. gateway' = gateway
        BY <3>1 DEF FollowPairing, ConsumeApproval
      <4> QED
        BY <1>0, <4>1, <4>2, <4>3
    <3>2. CASE RequestPairing(s)
      <4>1. gateway' = gateway
        BY <3>2 DEF RequestPairing
      <4>2. pairings' \in Seq(Pairing) /\ Len(pairings) <= Len(pairings')
        BY <3>2, RequestType, Zenon
      <4> QED
        BY <4>1, <4>2
    <3>3. CASE pairings' = pairings /\ gateway' = gateway
      BY <1>0, <3>3
    <3> QED
      BY <1>1, <3>1, <3>2, <3>3
         DEF Authorize, ReadRow, FollowEnrolment, FollowApp, FollowBootstrap,
             CreateAuthorization, ClaimOwner, Check, Rotate, Unknown, tables
  <2>2. task'[s].at = "pair" => task'[s].answer \in 1..Len(pairings')
    <3> SUFFICES ASSUME task'[s].at = "pair" PROVE task'[s].answer \in 1..Len(pairings')
      OBVIOUS
    <3>1. RequestPairing(s)
      BY <1>1, AuthorizeKeeps
    <3>2. PICK p \in 1..Len(pairings') :
            task' = [task EXCEPT ![s] = [task[s] EXCEPT !.at = "pair", !.answer = p]]
      BY <3>1, RequestType, Zenon
    <3>3. task[s] \in Task
      BY DEF TypeOK
    <3> QED
      BY <3>2, <3>3 DEF TypeOK, Task
  <2> QED
    BY <1>0, <1>1, <2>1, <2>2, AuthorizeKeeps DEF PairingsKnown
<1>2. ASSUME Len(pairings') = Len(pairings), UNCHANGED <<task, gateway>> PROVE PairingsKnown'
  BY <1>2 DEF PairingsKnown
<1>3. CASE Gateway
  <2>1. pairings' = pairings
    BY <1>3 DEF Gateway, Hello, Welcomed, MustPair, Refused, GiveUp, Relaunch, tables
  <2>2. gateway'.pairing \in {gateway.pairing, 0}
        \/ \E s \in Sockets : task[s].at = "pair" /\ gateway'.pairing = task[s].answer
    <3>1. ASSUME NEW s \in Sockets, Hello(s) \/ Refused(s) \/ Welcomed(s)
          PROVE  gateway'.pairing \in {gateway.pairing, 0}
      BY <3>1 DEF Hello, Refused, Welcomed, Hang, TypeOK
    <3>2. ASSUME NEW s \in Sockets, MustPair(s)
          PROVE  gateway'.pairing \in {gateway.pairing, task[s].answer} /\ task[s].at = "pair"
      BY <3>2 DEF MustPair, Hang, TypeOK
    <3>3. CASE GiveUp \/ \E f \in Relaunches : Relaunch(f)
      BY <3>3 DEF GiveUp, Relaunch, Hang, TypeOK
    <3> QED
      BY <1>3, <3>1, <3>2, <3>3 DEF Gateway
  <2>3. ASSUME NEW s \in Sockets, task'[s] # task[s], task'[s] # Idle
        PROVE  /\ task'[s].followup = "pairing" => task'[s].id \in 1..Len(pairings)
               /\ task'[s].at # "pair"
    <3>1. Hello(s)
      BY <1>3, <2>3 DEF Gateway, Hello, Welcomed, MustPair, Refused, GiveUp, Relaunch, TypeOK
    <3>2. /\ task'[s].at = "read" /\ task'[s].followup = Followup
          /\ task'[s].id = gateway.pairing
      BY <3>1 DEF Hello, TypeOK, Idle
    <3>3. gateway.launch # "pairing"
      BY AccessAssumption DEF TypeOK, Launches
    <3> QED
      BY <1>0, <3>2, <3>3 DEF Followup
  <2>4. Idle.followup # "pairing" /\ Idle.at # "pair"
    BY DEF Idle
  <2> QED
    BY <1>0, <2>1, <2>2, <2>3, <2>4 DEF PairingsKnown
<1>4. CASE Operator \/ Clock
  <2>1. UNCHANGED <<task, gateway>>
    BY <1>4
       DEF Operator, Clock, IssueEnrolment, RevokeEnrolment, RevokeEnrolled, RevokeGateway,
           RevokeApp, RejectPairing, ApprovePairing, EnrolmentExpires, PairingExpires,
           GraceEnds, TokenAges
  <2>2. ASSUME NEW p \in Ids,
               \/ RejectPairing(p) \/ PairingExpires(p)
               \/ \E u \in Users \cup {NoUser} : ApprovePairing(p, u)
        PROVE  Len(pairings') = Len(pairings)
    BY <2>2 DEF RejectPairing, PairingExpires, ApprovePairing, TypeOK
  <2>3. Len(pairings') = Len(pairings)
    BY <1>4, <2>2
       DEF Operator, Clock, IssueEnrolment, RevokeEnrolment, RevokeEnrolled, RevokeGateway,
           RevokeApp, EnrolmentExpires, GraceEnds, TokenAges
  <2> QED
    BY <1>2, <2>1, <2>3
<1>5. CASE ServerRestart
  BY <1>0, <1>5 DEF ServerRestart, PairingsKnown, Idle, Hang, TypeOK
<1>6. CASE UNCHANGED vars
  BY <1>2, <1>6 DEF vars
<1> QED
  BY <1>1, <1>3, <1>4, <1>5, <1>6 DEF Next

-----------------------------------------------------------------------------
(* The row, and what tasks and the Gateway know of it                      *)

LEMMA TaskKeeps ==
  ASSUME NEW t \in Task, NEW r \in Row, NEW q \in Row, TaskOK(t, r), RowStep(r, q)
  PROVE  TaskOK(t, q)
<1>1. /\ t.token \in Nat /\ t.answer \in Nat /\ t.seen.token \in Nat
      /\ r.token \in Nat /\ q.token \in Nat
  BY DEF Task, Row
<1>2. SeenBefore(t, q)
  BY <1>1 DEF TaskOK, SeenBefore, RowStep, Row
<1>3. TokensIssued(t, q)
  BY <1>1 DEF TaskOK, TokensIssued, RowStep
<1>4. Accepted(t, q)
  <2> SUFFICES ASSUME t.at \in {"pending", "pair"}, t.token # 0, t.token = q.token,
                      q.status = "active", q.validity # "expired"
               PROVE  FALSE
    BY DEF Accepted
  <2>1. t.token <= r.token /\ r.token <= q.token
    BY DEF TaskOK, TokensIssued, RowStep
  <2>2. r.token = q.token
    BY <1>1, <2>1
  <2>3. r.status = "active" /\ r.validity # "expired"
    BY <1>1, <2>2 DEF RowStep
  <2> QED
    BY <2>2, <2>3 DEF TaskOK, Accepted
<1> QED
  BY <1>2, <1>3, <1>4 DEF TaskOK

LEMMA GatewayKeeps ==
  ASSUME NEW g, g.token \in Nat, NEW r \in Row, NEW q \in Row, GatewayOK(g, r), RowStep(r, q)
  PROVE  GatewayOK(g, q)
<1>1. r.token \in Nat /\ q.token \in Nat
  BY DEF Row
<1> QED
  BY <1>1, SMTT(30) DEF GatewayOK, RowStep

LEMMA SameRow ==
  ASSUME NEW r \in Row, RowOK(r) PROVE RowStep(r, r)
<1>1. r.token \in Nat
  BY SMTT(30) DEF Row
<1>2. r.token <= r.token
  BY <1>1
<1> QED
  BY <1>2 DEF RowStep

LEMMA AuthorizeRow ==
  ASSUME TypeOK, Access, NEW s \in Sockets, Authorize(s)
  PROVE  RowStep(row, row')
<1>0. /\ row \in Row /\ row.token \in Nat /\ RowOK(row) /\ TaskOK(task[s], row)
      /\ task[s] \in Task
  BY DEF Access, TypeOK, Row
<1>1. CASE CreateAuthorization(s)
  <2>1. CASE row = NoRow
    <3>1. /\ row'.token = 1 /\ row'.status = "active"
          /\ row'.gateway = IF task[s].preferred = 0 THEN nextGateway ELSE task[s].preferred
      BY <1>1, <2>1 DEF CreateAuthorization
    <3>2. row'.gateway # 0
      BY <3>1 DEF TypeOK
    <3> QED
      BY <2>1, <3>1, <3>2 DEF RowStep, RowOK, NoRow
  <2>2. CASE row # NoRow
    BY <1>0, <1>1, <2>2, SameRow DEF CreateAuthorization
  <2> QED
    BY <2>1, <2>2
<1>2. CASE ClaimOwner(s)
  <2>1. row # NoRow
    BY <1>0, <1>2 DEF ClaimOwner, TaskOK, SeenBefore
  <2>2. CASE row' = [row EXCEPT !.owner = task[s].owner]
    <3>1. /\ row'.gateway = row.gateway /\ row'.status = row.status /\ row'.token = row.token
          /\ row'.validity = row.validity
      BY <1>0, <2>2 DEF Row
    <3>2. row'.status # NoRow.status
      BY <1>0, <2>1, <3>1 DEF RowOK, NoRow
    <3> QED
      BY <1>0, <2>1, <3>1, <3>2 DEF RowStep, RowOK
  <2>3. CASE row' = row
    BY <1>0, <2>3, SameRow
  <2> QED
    BY <1>2, <2>2, <2>3 DEF ClaimOwner
<1>3. CASE Rotate(s)
  <2>1. row # NoRow
    BY <1>0, <1>3 DEF Rotate, TaskOK, Known, SeenBefore
  <2>2. /\ row'.gateway = row.gateway /\ row'.status = "active" /\ row'.token = row.token + 1
    BY <1>0, <1>3 DEF Rotate, Row
  <2> QED
    BY <1>0, <2>1, <2>2 DEF RowStep, RowOK, NoRow
<1>4. CASE row' = row
  BY <1>0, <1>4, SameRow
<1> QED
  BY <1>1, <1>2, <1>3, <1>4
     DEF Authorize, ReadRow, FollowEnrolment, FollowApp, FollowBootstrap, FollowPairing,
         ConsumeApproval, Check, Unknown, RequestPairing, tables

LEMMA OtherRow ==
  ASSUME TypeOK, Access, Gateway \/ Operator \/ Clock \/ ServerRestart
  PROVE  RowStep(row, row')
<1>0. row \in Row /\ row.token \in Nat /\ RowOK(row)
  BY DEF Access, TypeOK, Row
<1>1. ASSUME row # NoRow, row' = Revoked PROVE RowStep(row, row')
  <2>1. /\ row'.gateway = row.gateway /\ row'.status = "revoked" /\ row'.token = row.token
        /\ row'.validity = row.validity
    BY <1>0, <1>1 DEF Row, Revoked
  <2> QED
    BY <1>0, <1>1, <2>1 DEF RowStep, RowOK, NoRow
<1>2. ASSUME NEW g \in GatewayIds, RevokeEnrolled(g) PROVE RowStep(row, row')
  <2>1. g # 0
    BY <1>2 DEF RevokeEnrolled, TypeOK
  <2>2. CASE row.gateway = g
    <3>1. row # NoRow
      BY <2>1, <2>2 DEF NoRow
    <3> QED
      BY <1>1, <1>2, <2>2, <3>1 DEF RevokeEnrolled
  <2>3. CASE row.gateway # g
    BY <1>0, <1>2, <2>3, SameRow DEF RevokeEnrolled
  <2> QED
    BY <2>2, <2>3
<1>3. CASE RevokeGateway
  BY <1>1, <1>3 DEF RevokeGateway, NoRow
<1>4. CASE GraceEnds \/ TokenAges
  <2>1. row # NoRow
    BY <1>4 DEF GraceEnds, TokenAges, NoRow
  <2>2. /\ row'.gateway = row.gateway /\ row'.status = row.status /\ row'.token = row.token
        /\ row.validity = "expired" => row'.validity = "expired"
    BY <1>0, <1>4 DEF GraceEnds, TokenAges, Row
  <2>3. row'.status # NoRow.status
    BY <1>0, <2>1, <2>2 DEF RowOK, NoRow
  <2> QED
    BY <1>0, <2>1, <2>2, <2>3 DEF RowStep, RowOK
<1>5. CASE row' = row
  BY <1>0, <1>5, SameRow
<1> QED
  BY <1>2, <1>3, <1>4, <1>5
     DEF Gateway, Operator, Clock, ServerRestart, Hello, Welcomed, MustPair, Refused, GiveUp,
         Relaunch, IssueEnrolment, RevokeEnrolment, RevokeApp, RejectPairing, ApprovePairing,
         EnrolmentExpires, PairingExpires, tables

LEMMA RowSteps ==
  ASSUME TypeOK, Access, [Next]_vars PROVE RowStep(row, row')
<1>1. row \in Row /\ RowOK(row)
  BY DEF TypeOK, Access
<1>2. UNCHANGED vars => RowStep(row, row')
  BY <1>1, SameRow DEF vars
<1> QED
  BY <1>2, AuthorizeRow, OtherRow DEF Next

(* A step that decides nothing.                                            *)
LEMMA TaskGoes ==
  ASSUME NEW t \in Task, NEW r \in Row, TaskOK(t, r), t.at \in {"followup", "approvals", "decide"},
         NEW u, u.token = t.token, u.seen = t.seen, u.answer = t.answer,
         u.at \in {"approvals", "decide", "error"}
  PROVE  TaskOK(u, r)
BY DEF TaskOK, SeenBefore, TokensIssued, Known, Accepted

(* A Welcome with the token that the row now has.                          *)
LEMMA IssuedOK ==
  ASSUME TypeOK, NEW s \in Sockets, NEW r \in Row, RowOK(r), r # NoRow,
         task[s].token <= r.token
  PROVE  TaskOK(Issued(s, r), r)
<1>1. task[s] \in Task /\ r.token \in Nat
  BY DEF TypeOK, Row
<1>2. /\ Issued(s, r).at = "welcome" /\ Issued(s, r).seen = r /\ Issued(s, r).answer = r.token
      /\ Issued(s, r).token = task[s].token
  BY <1>1 DEF Issued, Task
<1> QED
  BY <1>1, <1>2 DEF TaskOK, SeenBefore, TokensIssued, Known, Accepted, RowOK

(* Check sends nobody away who brings the current token.                   *)
LEMMA CheckOK ==
  ASSUME TypeOK, Access, NEW s \in Sockets, Check(s)
  PROVE  TaskOK(task'[s], row)
<1> DEFINE t == task[s]
<1>0. /\ t \in Task /\ TaskOK(t, row) /\ t.token \in Nat /\ t.seen.token \in Nat
      /\ row.token \in Nat
  BY DEF TypeOK, Access, Task, Row
<1>1. t.seen # NoRow /\ t.at \in {"check", "decide"} /\ t.answer = 0
  BY <1>0 DEF Check, Checking, TaskOK, Known, TokensIssued
<1>2. PICK at \in {"rotate", "pending", "welcome"} :
        /\ Go(s, at)
        /\ at = "rotate" => t.approved \/ t.seen.status # "revoked"
        /\ at = "pending" => \/ t.seen.status = "revoked" \/ t.token = 0 \/ ~Opens(t.token)
  BY DEF Check
<1>3. /\ task'[s].at = at /\ task'[s].seen = t.seen /\ task'[s].token = t.token
      /\ task'[s].answer = 0 /\ task'[s].approved = t.approved
  BY <1>0, <1>1, <1>2 DEF Go, Step, TypeOK, Task
<1>4. SeenBefore(task'[s], row)
  BY <1>0, <1>3 DEF TaskOK, SeenBefore
<1>5. TokensIssued(task'[s], row)
  BY <1>0, <1>3 DEF TaskOK, TokensIssued
<1>6. Known(task'[s])
  BY <1>0, <1>1, <1>2, <1>3 DEF TaskOK, SeenBefore, Known
<1>7. Accepted(task'[s], row)
  <2> SUFFICES ASSUME at = "pending", t.token # 0, t.token = row.token,
                      row.status = "active", row.validity # "expired"
               PROVE  FALSE
    BY <1>2, <1>3 DEF Accepted
  <2>1. Opens(t.token)
    BY DEF Opens
  <2>2. t.seen.status = "revoked"
    BY <1>2, <2>1
  <2>3. t.token <= t.seen.token /\ t.seen.token < row.token
    BY <1>0, <1>1, <2>2 DEF TaskOK, SeenBefore
  <2> QED
    BY <1>0, <2>3
<1> QED
  BY <1>4, <1>5, <1>6, <1>7 DEF TaskOK

LEMMA AuthorizeTask ==
  ASSUME TypeOK, TypeOK', PairingsKnown, Access, NEW s \in Sockets, Authorize(s)
  PROVE  TaskOK(task'[s], row')
<1> DEFINE t == task[s]
<1>0. /\ t \in Task /\ TaskOK(t, row) /\ t.token \in Nat /\ t.token <= row.token
      /\ row \in Row /\ row' \in Row /\ row.token \in Nat /\ row'.token \in Nat
      /\ RowStep(row, row')
  BY AuthorizeRow DEF TypeOK, Access, Task, Row, TaskOK, TokensIssued
<1>00. task'[s].token = t.token /\ RowOK(row') /\ row.token <= row'.token
  BY <1>0, AuthorizeKeeps DEF RowStep
<1>1. CASE ReadRow(s)
  <2>1. /\ task'[s].at = "followup" /\ task'[s].seen = row /\ task'[s].answer = t.answer
        /\ row' = row /\ t.at = "read"
    BY <1>0, <1>1 DEF ReadRow, Step, TypeOK, Task, tables
  <2>2. row = NoRow => t.token = 0
    BY <1>0 DEF NoRow
  <2> QED
    BY <1>0, <1>00, <2>1, <2>2
       DEF TaskOK, SeenBefore, TokensIssued, Known, Accepted, RowOK
<1>2. ASSUME t.at \in {"followup", "approvals", "decide"}, row' = row,
             \/ \E u, g : Step(s, Approved(s, u, g))
             \/ \E p : Step(s, Paired(s, p))
             \/ \E at \in {"approvals", "decide", "error"} : Go(s, at)
      PROVE  TaskOK(task'[s], row')
  <2>1. /\ task'[s].at \in {"approvals", "decide", "error"}
        /\ task'[s].token = t.token /\ task'[s].seen = t.seen /\ task'[s].answer = t.answer
    <3>1. ASSUME NEW u, NEW g, Step(s, Approved(s, u, g))
          PROVE  /\ task'[s].at = "decide" /\ task'[s].token = t.token
                 /\ task'[s].seen = t.seen /\ task'[s].answer = t.answer
      BY <1>0, <3>1 DEF Step, Approved, TypeOK, Task
    <3>3. ASSUME NEW p, Step(s, Paired(s, p))
          PROVE  /\ task'[s].at = "decide" /\ task'[s].token = t.token
                 /\ task'[s].seen = t.seen /\ task'[s].answer = t.answer
      BY <3>3, PairedTask DEF Step, TypeOK
    <3>2. ASSUME NEW at \in {"approvals", "decide", "error"}, Go(s, at)
          PROVE  /\ task'[s].at = at /\ task'[s].token = t.token
                 /\ task'[s].seen = t.seen /\ task'[s].answer = t.answer
      BY <1>0, <3>2 DEF Step, Go, TypeOK, Task
    <3> QED
      BY <1>2, <3>1, <3>2, <3>3
  <2> QED
    BY <1>0, <1>2, <2>1, TaskGoes
<1>3. CASE FollowEnrolment(s)
  BY <1>2, <1>3 DEF FollowEnrolment
<1>4. CASE FollowApp(s)
  BY <1>2, <1>4 DEF FollowApp
<1>5. CASE FollowBootstrap(s)
  BY <1>2, <1>5 DEF FollowBootstrap, tables
<1>6. CASE FollowPairing(s)
  BY <1>2, <1>6 DEF FollowPairing
<1>7. CASE ConsumeApproval(s)
  BY <1>2, <1>7 DEF ConsumeApproval
<1>8. ASSUME row' # NoRow, Step(s, Issued(s, row')) PROVE TaskOK(task'[s], row')
  <2>1. task'[s] = Issued(s, row')
    BY <1>8 DEF Step, TypeOK
  <2>2. t.token <= row'.token
    BY <1>0, <1>00
  <2> QED
    BY <1>0, <1>00, <1>8, <2>1, <2>2, IssuedOK
<1>9. CASE CreateAuthorization(s)
  <2>1. CASE row = NoRow
    <3>1. row'.token = 1 /\ Step(s, Issued(s, row'))
      BY <1>9, <2>1 DEF CreateAuthorization
    <3>2. row' # NoRow
      BY <3>1 DEF NoRow
    <3> QED
      BY <1>8, <3>1, <3>2
  <2>2. CASE row # NoRow
    BY <1>2, <1>9, <2>2 DEF CreateAuthorization
  <2> QED
    BY <2>1, <2>2
<1>10. CASE ClaimOwner(s)
  <2>1. CASE row' = row /\ Go(s, "error")
    BY <1>2, <1>10, <2>1 DEF ClaimOwner
  <2>2. CASE Step(s, [t EXCEPT !.at = "check", !.seen = row'])
    <3>1. /\ task'[s].at = "check" /\ task'[s].seen = row' /\ task'[s].answer = t.answer
      BY <1>0, <2>2 DEF Step, TypeOK, Task
    <3>2. row # NoRow /\ t.answer = 0
      BY <1>0, <1>10 DEF ClaimOwner, TaskOK, SeenBefore, TokensIssued
    <3>3. row' # NoRow
      BY <1>0, <3>2 DEF RowStep
    <3> QED
      BY <1>0, <1>00, <3>1, <3>2, <3>3
         DEF TaskOK, SeenBefore, TokensIssued, Known, Accepted, RowOK
  <2> QED
    BY <1>10, <2>1, <2>2 DEF ClaimOwner
<1>11. CASE Check(s)
  BY <1>11, CheckOK DEF Check, tables
<1>12. CASE Rotate(s)
  <2>1. row' # NoRow
    <3>1. row # NoRow
      BY <1>0, <1>12 DEF Rotate, TaskOK, Known, SeenBefore
    <3> QED
      BY <1>0, <3>1 DEF RowStep
  <2> QED
    BY <1>8, <1>12, <2>1 DEF Rotate
<1>13. CASE Unknown(s)
  <2>1. /\ task'[s].at = "pending" /\ task'[s].seen = NoRow /\ task'[s].answer = t.answer
        /\ row' = row /\ t.at = "decide" /\ t.seen = NoRow
    BY <1>0, <1>13 DEF Unknown, Go, Step, TypeOK, Task, tables
  <2> QED
    BY <1>0, <1>00, <2>1 DEF TaskOK, SeenBefore, TokensIssued, Known, Accepted
<1>14. CASE RequestPairing(s)
  <2>1. PICK p : task' = [task EXCEPT ![s] = [task[s] EXCEPT !.at = "pair", !.answer = p]]
    BY <1>14, RequestType, Zenon
  <2>2. /\ task'[s].at = "pair" /\ task'[s].seen = t.seen
        /\ row' = row /\ t.at = "pending"
    BY <1>0, <1>14, <2>1, ZenonT(40) DEF RequestPairing, TypeOK, Task
  <2> QED
    BY <1>0, <1>00, <2>2 DEF TaskOK, SeenBefore, TokensIssued, Known, Accepted
<1> QED
  BY <1>1, <1>3, <1>4, <1>5, <1>6, <1>7, <1>9, <1>10, <1>11, <1>12, <1>13, <1>14
     DEF Authorize

LEMMA NextAccess ==
  ASSUME TypeOK, TypeOK', PairingsKnown, Access, [Next]_vars PROVE Access'
<1>0. /\ RowStep(row, row') /\ RowOK(row') /\ row \in Row /\ row' \in Row
      /\ gateway.token \in Nat /\ GatewayOK(gateway, row)
      /\ \A s \in Sockets : task[s] \in Task /\ TaskOK(task[s], row)
  BY RowSteps DEF TypeOK, Access, RowStep
<1>1. GatewayOK(gateway, row') /\ \A s \in Sockets : TaskOK(task[s], row')
  BY <1>0, GatewayKeeps, TaskKeeps
<1>2. TaskOK(Idle, row')
  BY <1>0 DEF Idle, TaskOK, SeenBefore, TokensIssued, Known, Accepted, Row
<1>3. ASSUME NEW g, g.token = gateway.token, g.id = gateway.id PROVE GatewayOK(g, row')
  BY <1>1, <1>3 DEF GatewayOK
<1>4. Hang(gateway).token = gateway.token /\ Hang(gateway).id = gateway.id
  BY DEF Hang, TypeOK
<1>5. ASSUME NEW s \in Sockets, Authorize(s) PROVE Access'
  <2>1. TaskOK(task'[s], row') /\ \A q \in Sockets : q # s => task'[q] = task[q]
    BY <1>5, AuthorizeTask, AuthorizeKeeps
  <2>2. gateway' = gateway
    BY <1>5
       DEF Authorize, ReadRow, FollowEnrolment, FollowApp, FollowBootstrap, FollowPairing,
           ConsumeApproval, CreateAuthorization, ClaimOwner, Check, Rotate, Unknown,
           RequestPairing
  <2> QED
    BY <1>0, <1>1, <2>1, <2>2 DEF Access
<1>6. ASSUME NEW s \in Sockets, Hello(s) PROVE Access'
  <2>1. /\ task'[s].at = "read" /\ task'[s].token = gateway.token
        /\ task'[s].seen = NoRow /\ task'[s].answer = 0
    BY <1>6 DEF Hello, TypeOK, Idle
  <2>2. TaskOK(task'[s], row')
    BY <1>1, <2>1 DEF TaskOK, SeenBefore, TokensIssued, Known, Accepted, GatewayOK
  <2>3. \A q \in Sockets : q # s => task'[q] = task[q]
    BY <1>6 DEF Hello, TypeOK
  <2>4. gateway'.token = gateway.token /\ gateway'.id = gateway.id
    BY <1>6 DEF Hello, TypeOK
  <2>5. GatewayOK(gateway', row')
    BY <1>3, <2>4
  <2> QED
    BY <1>0, <1>1, <2>2, <2>3, <2>5 DEF Access
<1>7. ASSUME task' = task, gateway'.token = gateway.token, gateway'.id = gateway.id PROVE Access'
  <2>1. GatewayOK(gateway', row')
    BY <1>3, <1>7
  <2> QED
    BY <1>0, <1>1, <1>7, <2>1 DEF Access
<1>8. ASSUME NEW s \in Sockets, task' = [task EXCEPT ![s] = Idle], GatewayOK(gateway', row')
      PROVE  Access'
  <2>1. \A q \in Sockets : task'[q] \in {task[q], Idle}
    BY <1>8 DEF TypeOK
  <2> QED
    BY <1>0, <1>1, <1>2, <1>8, <2>1 DEF Access
<1>9. ASSUME NEW s \in Sockets, Welcomed(s) PROVE Access'
  <2> DEFINE g == [Hang(gateway) EXCEPT
                     !.token = IF task[s].answer # 0 THEN task[s].answer ELSE task[s].token,
                     !.id = task[s].seen.gateway,
                     !.pairing = 0]
  <2>1. /\ row' = row /\ task' = [task EXCEPT ![s] = Idle] /\ gateway' \in {gateway, Hang(gateway), g}
        /\ task[s].at = "welcome"
    BY <1>9 DEF Welcomed, tables
  <2>2. /\ g.token = IF task[s].answer # 0 THEN task[s].answer ELSE task[s].token
        /\ g.id = task[s].seen.gateway
    BY DEF Hang, TypeOK
  <2>3. /\ task[s].answer <= row.token /\ task[s].token <= row.token
        /\ row # NoRow /\ task[s].seen.gateway = row.gateway
    BY <1>0, <2>1 DEF TaskOK, TokensIssued, Known, SeenBefore
  <2>4. GatewayOK(g, row')
    BY <2>1, <2>2, <2>3 DEF GatewayOK
  <2>5. GatewayOK(gateway', row')
    BY <1>1, <1>3, <1>4, <2>1, <2>4
  <2> QED
    BY <1>8, <2>1, <2>5
<1>10. ASSUME NEW s \in Sockets, MustPair(s) \/ Refused(s) PROVE Access'
  <2>1. /\ task' = [task EXCEPT ![s] = Idle]
        /\ gateway' \in {gateway, Hang(gateway),
                         [Hang(gateway) EXCEPT !.pairing = task[s].answer]}
    BY <1>10 DEF MustPair, Refused
  <2>2. gateway'.token = gateway.token /\ gateway'.id = gateway.id
    BY <1>4, <2>1 DEF Hang, TypeOK
  <2>3. GatewayOK(gateway', row')
    BY <1>3, <2>2
  <2> QED
    BY <1>8, <2>1, <2>3
<1>11. CASE GiveUp \/ \E f \in Relaunches : Relaunch(f)
  <2>1. task' = task /\ gateway'.token = gateway.token /\ gateway'.id = gateway.id
    BY <1>11 DEF GiveUp, Relaunch, Hang, TypeOK
  <2> QED
    BY <1>7, <2>1
<1>12. CASE Operator \/ Clock \/ UNCHANGED vars
  <2>1. task' = task /\ gateway' = gateway
    BY <1>12
       DEF Operator, Clock, IssueEnrolment, RevokeEnrolment, RevokeEnrolled, RevokeGateway,
           RevokeApp, RejectPairing, ApprovePairing, EnrolmentExpires, PairingExpires,
           GraceEnds, TokenAges, vars
  <2> QED
    BY <1>7, <2>1
<1>13. CASE ServerRestart
  <2>1. gateway' = Hang(gateway) /\ \A s \in Sockets : task'[s] = Idle
    BY <1>13 DEF ServerRestart
  <2>2. GatewayOK(gateway', row')
    BY <1>3, <1>4, <2>1
  <2> QED
    BY <1>0, <1>2, <2>1, <2>2 DEF Access
<1> QED
  BY <1>5, <1>6, <1>9, <1>10, <1>11, <1>12, <1>13 DEF Next, Gateway

-----------------------------------------------------------------------------
(* Owners *)

(* An id that is enrolled is a real one.                                   *)
LEMMA SuggestedIsId ==
  ASSUME TypeOK, Access, NEW s \in Sockets PROVE Suggested(s) # 0
<1>1. nextGateway # 0
  BY DEF TypeOK
<1>2. TaskOK(task[s], row) /\ RowOK(row)
  BY DEF Access
<1> QED
  BY <1>1, <1>2 DEF Suggested, TaskOK, SeenBefore, RowOK

(* A pairing request that was used up stays so.                            *)
PairingsUsed ==
  \A p \in DOMAIN pairings : pairings[p].status = "consumed" =>
    p \in DOMAIN pairings' /\ pairings'[p] = pairings[p]

LEMMA ChangedPairing ==
  ASSUME TypeOK, NEW p, NEW x, pairings[p].status # "consumed",
         pairings' = [pairings EXCEPT ![p] = x]
  PROVE  PairingsUsed
<1>1. DOMAIN pairings' = DOMAIN pairings
  OBVIOUS
<1> QED
  BY <1>1 DEF PairingsUsed

LEMMA SweptPairings ==
  ASSUME TypeOK, NEW s \in Sockets, RequestPairing(s) PROVE PairingsUsed
<1> DEFINE swept == [p \in DOMAIN pairings |->
                      IF pairings[p].status = "pending" /\ pairings[p].expired
                      THEN [pairings[p] EXCEPT !.status = "expired"] ELSE pairings[p]]
           new == [status |-> "pending", owner |-> NoUser, expired |-> FALSE]
<1>1. /\ pairings \in Seq(Pairing) /\ Len(pairings) \in Nat
      /\ DOMAIN pairings = 1..Len(pairings)
      /\ \A p \in 1..Len(pairings) : pairings[p] \in Pairing
  BY DEF TypeOK
<1>2. ASSUME NEW p \in 1..Len(pairings) PROVE swept[p] \in Pairing
  <2>1. [pairings[p] EXCEPT !.status = "expired"] \in Pairing
    BY <1>1 DEF Pairing
  <2> QED
    BY <1>1, <2>1
<1>3. swept \in Seq(Pairing) /\ Len(swept) = Len(pairings) /\ DOMAIN swept = 1..Len(pairings)
  <2>1. swept \in [1..Len(pairings) -> Pairing]
    BY <1>1, <1>2
  <2> QED
    BY <1>1, <2>1, FunctionIsSequence
<1>4. \A p \in DOMAIN pairings : pairings[p].status = "consumed" => swept[p] = pairings[p]
  OBVIOUS
<1>5. new \in Pairing
  BY SMTT(30) DEF Pairing
<1>6. pairings' = swept \/ pairings' = Append(swept, new)
  BY DEF RequestPairing
<1> HIDE DEF swept, new
<1>7. DOMAIN pairings \subseteq DOMAIN pairings' /\ \A p \in DOMAIN pairings : pairings'[p] = swept[p]
  <2>1. CASE pairings' = swept
    BY <1>1, <1>3, <2>1
  <2>2. CASE pairings' = Append(swept, new)
    <3>1. pairings' \in Seq(Pairing) /\ Len(pairings') = Len(pairings) + 1
      BY <1>1, <1>3, <1>5, <2>2
    <3>2. DOMAIN pairings' = 1..(Len(pairings) + 1)
      BY <1>1, <3>1
    <3>3. \A p \in 1..Len(pairings) : pairings'[p] = swept[p]
      BY <1>1, <1>3, <1>5, <2>2
    <3> QED
      BY <1>1, <3>2, <3>3
  <2> QED
    BY <1>6, <2>1, <2>2
<1> QED
  BY <1>4, <1>7 DEF PairingsUsed

(* What was used up for this machine stays used up.                        *)
Uses ==
  /\ \A e \in Enrolments : enrolment[e].gateway # 0 => enrolment'[e].gateway # 0
  /\ PairingsUsed
  /\ app.gateway # 0 => app'.gateway # 0

LEMMA SameUses ==
  UNCHANGED <<enrolment, app, pairings>> => Uses
BY DEF Uses, PairingsUsed

LEMMA ConsumedPairing ==
  ASSUME TypeOK, NEW p \in DOMAIN pairings, Usable(p), Consume(p)
  PROVE  /\ PairingsUsed
         /\ p \in DOMAIN pairings' /\ pairings'[p].status = "consumed"
         /\ pairings'[p].owner = pairings[p].owner
<1>1. pairings[p] \in Pairing
  BY DEF TypeOK
<1>2. pairings' = [pairings EXCEPT ![p] = [pairings[p] EXCEPT !.status = "consumed"]]
  BY DEF Consume
<1>3. PairingsUsed
  BY <1>2, ChangedPairing DEF Usable
<1> QED
  BY <1>1, <1>2, <1>3 DEF Pairing

(* An account that the task newly acts for has just agreed.                *)
NewOwner(s) ==
  LET u == task'[s].owner IN
  \/ u \in {NoUser, task[s].owner}
  \/ \E e \in Enrolments : OwnerOf[e] = u /\ enrolment'[e].gateway # 0
  \/ \E p \in DOMAIN pairings' : pairings'[p].owner = u /\ pairings'[p].status = "consumed"
  \/ u = AppOwner /\ app'.gateway # 0

LEMMA AuthorizeOwner ==
  ASSUME TypeOK, Access, PairingsKnown, NEW s \in Sockets, Authorize(s)
  PROVE  Uses /\ NewOwner(s) /\ row'.owner \in {row.owner, task[s].owner}
<1>0. /\ task[s] \in Task /\ row \in Row
      /\ task[s].followup = "pairing" => task[s].id \in DOMAIN pairings
  BY DEF TypeOK, PairingsKnown
<1>1. ASSUME NEW u, NEW g, Step(s, Approved(s, u, g)) PROVE task'[s].owner = u
  BY <1>0, <1>1 DEF Step, Approved, TypeOK, Task
<1>2. ASSUME NEW at, Go(s, at) PROVE NewOwner(s)
  BY <1>0, <1>2 DEF Go, Step, TypeOK, Task, NewOwner
<1>3. CASE FollowEnrolment(s)
  <2> DEFINE e == task[s].followup
             g == Suggested(s)
  <2>1. CASE Consumable(e, g)
    <3>1. /\ e \in Enrolments /\ g # 0
          /\ enrolment' = [enrolment EXCEPT ![e].status = "consumed", ![e].gateway = g]
          /\ task'[s].owner = OwnerOf[e]
      BY <1>1, <1>3, <2>1, SuggestedIsId DEF FollowEnrolment
    <3>2. /\ enrolment'[e].gateway # 0
          /\ \A x \in Enrolments : x # e => enrolment'[x] = enrolment[x]
      BY <3>1 DEF TypeOK, Enrolment
    <3>3. Uses
      BY <1>3, <3>2 DEF FollowEnrolment, Uses, PairingsUsed
    <3> QED
      BY <1>3, <3>1, <3>2, <3>3 DEF FollowEnrolment, NewOwner
  <2>2. CASE ~Consumable(e, g)
    BY <1>2, <1>3, <2>2, SameUses DEF FollowEnrolment
  <2> QED
    BY <2>1, <2>2
<1>4. CASE FollowApp(s)
  <2>1. CASE app' = app /\ Go(s, "error")
    BY <1>2, <1>4, <2>1, SameUses DEF FollowApp
  <2>2. CASE app'.gateway # 0 /\ \E g : Step(s, Approved(s, AppOwner, g))
    <3>1. task'[s].owner = AppOwner
      BY <1>1, <2>2
    <3>2. Uses
      BY <1>4, <2>2 DEF FollowApp, Uses, PairingsUsed
    <3> QED
      BY <1>4, <2>2, <3>1, <3>2 DEF FollowApp, NewOwner
  <2>3. \/ app' = app /\ Go(s, "error")
        \/ \E g \in {app.gateway, Suggested(s)} :
             g # 0 /\ app' = [app EXCEPT !.gateway = g] /\ Step(s, Approved(s, AppOwner, g))
    BY <1>4, SuggestedIsId DEF FollowApp
  <2>4. ASSUME NEW g, g # 0, app' = [app EXCEPT !.gateway = g] PROVE app'.gateway # 0
    BY <2>4 DEF TypeOK
  <2> QED
    BY <2>1, <2>2, <2>3, <2>4
<1>5. CASE FollowBootstrap(s)
  BY <1>1, <1>5, SameUses DEF FollowBootstrap, NewOwner, tables
<1>6. ASSUME NEW p \in DOMAIN pairings, Usable(p), Consume(p),
             Step(s, Paired(s, p)),
             UNCHANGED <<enrolment, app, row>>
      PROVE  Uses /\ NewOwner(s) /\ row'.owner = row.owner
  <2>1. task'[s].owner = pairings[p].owner
    BY <1>6, PairedTask DEF Step, TypeOK
  <2>2. /\ PairingsUsed /\ p \in DOMAIN pairings' /\ pairings'[p].status = "consumed"
        /\ pairings'[p].owner = pairings[p].owner
    BY <1>6, ConsumedPairing
  <2> QED
    BY <1>6, <2>1, <2>2 DEF Uses, NewOwner
<1>7. CASE FollowPairing(s)
  <2>1. CASE task[s].followup = "pairing" /\ Usable(task[s].id)
    BY <1>0, <1>6, <1>7, <2>1 DEF FollowPairing
  <2>2. CASE ~(task[s].followup = "pairing" /\ Usable(task[s].id))
    BY <1>2, <1>7, <2>2, SameUses DEF FollowPairing
  <2> QED
    BY <2>1, <2>2
<1>8. CASE ConsumeApproval(s)
  <2>1. CASE pairings' = pairings /\ Go(s, "decide")
    BY <1>2, <1>8, <2>1, SameUses DEF ConsumeApproval
  <2>2. CASE \E p \in DOMAIN pairings :
               Usable(p) /\ Consume(p) /\ Step(s, Paired(s, p))
    BY <1>6, <1>8, <2>2 DEF ConsumeApproval
  <2> QED
    BY <1>8, <2>1, <2>2 DEF ConsumeApproval
<1>9. CASE CreateAuthorization(s)
  <2>1. CASE row' = row /\ Go(s, "error")
    BY <1>2, <1>9, <2>1, SameUses DEF CreateAuthorization
  <2>2. CASE row'.owner = task[s].owner /\ Step(s, Issued(s, row'))
    <3>1. task'[s].owner = task[s].owner
      BY <1>0, <2>2 DEF Step, Issued, TypeOK, Task
    <3> QED
      BY <1>9, <2>2, <3>1, SameUses DEF CreateAuthorization, NewOwner
  <2> QED
    BY <1>9, <2>1, <2>2 DEF CreateAuthorization
<1>10. CASE ClaimOwner(s)
  <2>1. CASE row' = row /\ Go(s, "error")
    BY <1>2, <1>10, <2>1, SameUses DEF ClaimOwner
  <2>2. CASE /\ row' = [row EXCEPT !.owner = task[s].owner]
             /\ Step(s, [task[s] EXCEPT !.at = "check", !.seen = row'])
    <3>1. task'[s].owner = task[s].owner /\ row'.owner = task[s].owner
      BY <1>0, <2>2 DEF Step, TypeOK, Task, Row
    <3> QED
      BY <1>10, <3>1, SameUses DEF ClaimOwner, NewOwner
  <2> QED
    BY <1>10, <2>1, <2>2 DEF ClaimOwner
<1>11. CASE Rotate(s)
  <2>1. task'[s].owner = task[s].owner /\ row'.owner = row.owner
    BY <1>0, <1>11 DEF Rotate, Step, Issued, TypeOK, Task, Row
  <2> QED
    BY <1>11, <2>1, SameUses DEF Rotate, NewOwner
<1>12. CASE Check(s) \/ Unknown(s)
  BY <1>2, <1>12, SameUses DEF Check, Unknown, tables
<1>13. CASE ReadRow(s)
  <2>1. task'[s].owner = task[s].owner
    BY <1>0, <1>13 DEF ReadRow, Step, TypeOK, Task
  <2> QED
    BY <1>13, <2>1, SameUses DEF ReadRow, NewOwner, tables
<1>14. CASE RequestPairing(s)
  <2>1. PICK p : task' = [task EXCEPT ![s] = [task[s] EXCEPT !.at = "pair", !.answer = p]]
    BY <1>14, RequestType, Zenon
  <2>2. task'[s].owner = task[s].owner
    BY <1>0, <2>1 DEF TypeOK, Task
  <2>3. PairingsUsed
    BY <1>14, SweptPairings
  <2> QED
    BY <1>14, <2>2, <2>3 DEF RequestPairing, Uses, NewOwner
<1> QED
  BY <1>3, <1>4, <1>5, <1>7, <1>8, <1>9, <1>10, <1>11, <1>12, <1>13, <1>14 DEF Authorize

LEMMA OtherOwner ==
  ASSUME TypeOK, Gateway \/ Operator \/ Clock \/ ServerRestart
  PROVE  /\ Uses /\ row'.owner = row.owner
         /\ \A s \in Sockets : task'[s].owner \in {NoUser, task[s].owner}
<1>0. row \in Row /\ enrolment \in [Enrolments -> Enrolment]
  BY DEF TypeOK
<1>1. CASE Gateway
  <2>1. ASSUME NEW s \in Sockets, NEW t, t.owner = NoUser, task' = [task EXCEPT ![s] = t]
        PROVE  \A q \in Sockets : task'[q].owner \in {NoUser, task[q].owner}
    BY <2>1 DEF TypeOK
  <2>2. Idle.owner = NoUser
    BY DEF Idle
  <2>3. ASSUME NEW s \in Sockets, Hello(s)
        PROVE  \A q \in Sockets : task'[q].owner \in {NoUser, task[q].owner}
    <3>1. [Idle EXCEPT !.at = "read", !.token = gateway.token, !.followup = Followup,
                       !.id = gateway.pairing].owner = NoUser
      BY DEF Idle
    <3> QED
      BY <2>1, <2>3, <3>1 DEF Hello
  <2>4. ASSUME NEW s \in Sockets, Welcomed(s) \/ MustPair(s) \/ Refused(s)
        PROVE  \A q \in Sockets : task'[q].owner \in {NoUser, task[q].owner}
    <3>1. task' = [task EXCEPT ![s] = Idle]
      BY <2>4, SMTT(30) DEF Welcomed, MustPair, Refused
    <3> QED
      BY <2>1, <2>2, <3>1
  <2>5. UNCHANGED tables
    BY <1>1 DEF Gateway, Hello, Welcomed, MustPair, Refused, GiveUp, Relaunch
  <2> QED
    BY <1>1, <2>3, <2>4, <2>5, SameUses DEF Gateway, GiveUp, Relaunch, tables
<1>2. CASE Operator \/ Clock
  <2>1. task' = task
    BY <1>2
       DEF Operator, Clock, IssueEnrolment, RevokeEnrolment, RevokeEnrolled, RevokeGateway,
           RevokeApp, RejectPairing, ApprovePairing, EnrolmentExpires, PairingExpires,
           GraceEnds, TokenAges
  <2>2. row'.owner = row.owner
    BY <1>0, <1>2
       DEF Operator, Clock, IssueEnrolment, RevokeEnrolment, RevokeEnrolled, RevokeGateway,
           RevokeApp, RejectPairing, ApprovePairing, EnrolmentExpires, PairingExpires,
           GraceEnds, TokenAges, Revoked, Row
  <2>3. \A e \in Enrolments : enrolment'[e].gateway = enrolment[e].gateway
    <3>1. ASSUME NEW x, IssueEnrolment(x)
          PROVE  \A e \in Enrolments : enrolment'[e].gateway = enrolment[e].gateway
      BY <1>0, <3>1 DEF IssueEnrolment, Enrolment
    <3>2. ASSUME NEW x, RevokeEnrolment(x) \/ EnrolmentExpires(x)
          PROVE  \A e \in Enrolments : enrolment'[e].gateway = enrolment[e].gateway
      BY <1>0, <3>2 DEF RevokeEnrolment, EnrolmentExpires, Enrolment
    <3>3. CASE enrolment' = enrolment
      BY <3>3
    <3> QED
      BY <1>2, <3>1, <3>2, <3>3
         DEF Operator, Clock, RevokeEnrolled, RevokeGateway, RevokeApp, RejectPairing,
             ApprovePairing, PairingExpires, GraceEnds, TokenAges
  <2>4. app'.gateway = app.gateway
    BY <1>2
       DEF Operator, Clock, IssueEnrolment, RevokeEnrolment, RevokeEnrolled, RevokeGateway,
           RevokeApp, RejectPairing, ApprovePairing, EnrolmentExpires, PairingExpires,
           GraceEnds, TokenAges, TypeOK
  <2>5. PairingsUsed
    <3>1. ASSUME NEW p, \/ RejectPairing(p) \/ PairingExpires(p)
                        \/ \E u \in Users \cup {NoUser} : ApprovePairing(p, u)
          PROVE  PairingsUsed
      <4>1. /\ pairings[p].status # "consumed"
            /\ \E x : pairings' = [pairings EXCEPT ![p] = x]
        BY <3>1 DEF RejectPairing, PairingExpires, ApprovePairing
      <4> QED
        BY <4>1, ChangedPairing
    <3>2. CASE pairings' = pairings
      BY <3>2 DEF PairingsUsed
    <3> QED
      BY <1>2, <3>1, <3>2
         DEF Operator, Clock, IssueEnrolment, RevokeEnrolment, RevokeEnrolled, RevokeGateway,
             RevokeApp, EnrolmentExpires, GraceEnds, TokenAges
  <2> QED
    BY <2>1, <2>2, <2>3, <2>4, <2>5 DEF Uses
<1>3. CASE ServerRestart
  <2>1. \A s \in Sockets : task'[s].owner = NoUser
    BY <1>3 DEF ServerRestart, Idle
  <2> QED
    BY <1>3, <2>1, SameUses DEF ServerRestart
<1> QED
  BY <1>1, <1>2, <1>3

LEMMA NextOwners ==
  ASSUME Inv, [Next]_vars PROVE OwnerAgreed' /\ TasksAgreed'
<1> USE DEF Inv
<1>1. UNCHANGED vars => OwnerAgreed' /\ TasksAgreed'
  BY DEF vars, OwnerAgreed, TasksAgreed, Agreed
<1>2. ASSUME Uses, NEW u, Agreed(u)
      PROVE  \/ \E e \in Enrolments : OwnerOf[e] = u /\ enrolment'[e].gateway # 0
             \/ \E p \in DOMAIN pairings' : pairings'[p].owner = u /\ pairings'[p].status = "consumed"
             \/ u = AppOwner /\ app'.gateway # 0
  BY <1>2 DEF Agreed, Uses, PairingsUsed
<1>3. ASSUME NEW s \in Sockets, Authorize(s) PROVE OwnerAgreed' /\ TasksAgreed'
  <2>1. Uses /\ NewOwner(s) /\ row'.owner \in {row.owner, task[s].owner}
    BY <1>3, AuthorizeOwner
  <2>2. \A q \in Sockets : q # s => task'[q] = task[q]
    BY <1>3, AuthorizeKeeps
  <2>3. OwnerAgreed'
    BY <1>2, <2>1, ZenonT(40) DEF OwnerAgreed, TasksAgreed, Agreed
  <2>4. TasksAgreed'
    <3> SUFFICES ASSUME NEW q \in Sockets, NEW u, u = task'[q].owner, u # NoUser
                 PROVE  \/ \E e \in Enrolments : OwnerOf[e] = u /\ enrolment'[e].gateway # 0
                        \/ \E p \in DOMAIN pairings' :
                             pairings'[p].owner = u /\ pairings'[p].status = "consumed"
                        \/ u = AppOwner /\ app'.gateway # 0
      BY DEF TasksAgreed, Agreed
    <3>1. task[q].owner = u => Agreed(u)
      BY DEF TasksAgreed, Agreed
    <3>2. CASE task[q].owner = u
      BY <1>2, <2>1, <3>1, <3>2
    <3>3. CASE task[q].owner # u
      BY <2>1, <2>2, <3>3 DEF NewOwner
    <3> QED
      BY <3>2, <3>3
  <2> QED
    BY <2>3, <2>4
<1>4. ASSUME Gateway \/ Operator \/ Clock \/ ServerRestart PROVE OwnerAgreed' /\ TasksAgreed'
  <2>1. /\ Uses /\ row'.owner = row.owner
        /\ \A s \in Sockets : task'[s].owner \in {NoUser, task[s].owner}
    BY <1>4, OtherOwner
  <2>2. OwnerAgreed'
    BY <1>2, <2>1 DEF OwnerAgreed, Agreed
  <2>3. TasksAgreed'
    <3> SUFFICES ASSUME NEW q \in Sockets, task'[q].owner # NoUser
                 PROVE  Agreed(task[q].owner)'
      BY DEF TasksAgreed
    <3>1. task'[q].owner = task[q].owner /\ Agreed(task[q].owner)
      BY <2>1 DEF TasksAgreed
    <3> QED
      BY <1>2, <2>1, <3>1 DEF Agreed
  <2> QED
    BY <2>2, <2>3
<1> QED
  BY <1>1, <1>3, <1>4 DEF Next

-----------------------------------------------------------------------------
(* Operators' decisions on pairing requests                                *)

DecisionsUsedUp == \A s \in Sockets : ByPairing(s) => UsesUp(s)

(* An attempt that becomes approved by a decision takes it while it is     *)
(* usable and uses it up.                                                  *)
LEMMA AuthorizeUses ==
  ASSUME TypeOK, PairingsKnown, NEW s \in Sockets, Authorize(s)
  PROVE  \/ /\ task'[s].followup \in {"none", "pairing"} => task'[s].approved = task[s].approved
            /\ task'[s].id = task[s].id
         \/ \E p \in DOMAIN pairings : Usable(p) /\ Consume(p) /\ task'[s].id = p
<1>0. /\ task[s] \in Task
      /\ task[s].followup = "pairing" => task[s].id \in DOMAIN pairings
  BY DEF TypeOK, PairingsKnown
<1> DEFINE Same(t) == /\ t.followup \in {"none", "pairing"} => t.approved = task[s].approved
                      /\ t.id = task[s].id
           Goal == \/ Same(task'[s])
                   \/ \E p \in DOMAIN pairings : Usable(p) /\ Consume(p) /\ task'[s].id = p
<1>1. ASSUME NEW t, Same(t), Step(s, t) PROVE Goal
  BY <1>1 DEF Step, TypeOK
<1>2. \A at : Same([task[s] EXCEPT !.at = at])
  BY <1>0 DEF Task
<1>3. \A at, r : Same([task[s] EXCEPT !.at = at, !.seen = r])
  BY <1>0 DEF Task
<1>4. \A r : Same(Issued(s, r))
  BY <1>0 DEF Issued, Task
<1>5. \A p : Same([task[s] EXCEPT !.at = "pair", !.answer = p])
  BY <1>0 DEF Task
<1>6. task[s].followup \in Enrolments \cup {"app", "bootstrap"} =>
        \A u, g : Same(Approved(s, u, g))
  <2>1. task[s].followup \in Enrolments \cup {"app", "bootstrap"} =>
          task[s].followup \notin {"none", "pairing"}
    BY AccessAssumption
  <2> QED
    BY <1>0, <2>1 DEF Approved, Task
<1>7. \A p : Step(s, Paired(s, p)) => task'[s].id = p
  BY PairedTask DEF Step, TypeOK
<1> SUFFICES Goal
  OBVIOUS
<1>8. \A p \in DOMAIN pairings : Usable(p) /\ Consume(p) /\ Step(s, Paired(s, p)) => Goal
  BY <1>7
<1> HIDE DEF Same, Goal
<1>9. \A at : Go(s, at) => Goal
  BY <1>1, <1>2 DEF Go
<1>10. CASE ReadRow(s)
  BY <1>1, <1>3, <1>10 DEF ReadRow
<1>11. CASE FollowEnrolment(s)
  BY <1>1, <1>6, <1>9, <1>11 DEF FollowEnrolment
<1>12. CASE FollowApp(s)
  BY <1>1, <1>6, <1>9, <1>12 DEF FollowApp
<1>13. CASE FollowBootstrap(s)
  BY <1>1, <1>6, <1>13 DEF FollowBootstrap
<1>14. CASE FollowPairing(s)
  BY <1>0, <1>8, <1>9, <1>14 DEF FollowPairing
<1>15. CASE ConsumeApproval(s)
  BY <1>8, <1>9, <1>15 DEF ConsumeApproval
<1>16. CASE CreateAuthorization(s)
  BY <1>1, <1>4, <1>9, <1>16 DEF CreateAuthorization
<1>17. CASE ClaimOwner(s)
  BY <1>1, <1>3, <1>9, <1>17 DEF ClaimOwner
<1>18. CASE Check(s) \/ Unknown(s)
  BY <1>9, <1>18 DEF Check, Unknown
<1>19. CASE Rotate(s)
  BY <1>1, <1>4, <1>19 DEF Rotate
<1>20. CASE RequestPairing(s)
  <2>1. PICK p : Step(s, [task[s] EXCEPT !.at = "pair", !.answer = p])
    BY <1>20, RequestType, Zenon DEF Step
  <2> QED
    BY <1>1, <1>5, <2>1
<1> QED
  BY <1>10, <1>11, <1>12, <1>13, <1>14, <1>15, <1>16, <1>17, <1>18, <1>19, <1>20 DEF Authorize

(* Outside authorize_gateway_machine no attempt becomes approved.          *)
LEMMA OtherUses ==
  ASSUME TypeOK, Gateway \/ Operator \/ Clock \/ ServerRestart, NEW s \in Sockets
  PROVE  task'[s] = task[s] \/ ~task'[s].approved
<1>1. ASSUME NEW q \in Sockets, Hello(q) PROVE task'[s] = task[s] \/ ~task'[s].approved
  BY <1>1 DEF Hello, TypeOK, Idle
<1>2. ASSUME NEW q \in Sockets, Welcomed(q) \/ MustPair(q) \/ Refused(q)
      PROVE  task'[s] = task[s] \/ ~task'[s].approved
  <2>1. task' = [task EXCEPT ![q] = Idle]
    BY <1>2, SMTT(30) DEF Welcomed, MustPair, Refused
  <2> QED
    BY <2>1 DEF Idle, TypeOK
<1>3. CASE ServerRestart
  BY <1>3 DEF ServerRestart, Idle
<1>4. CASE GiveUp \/ (\E f \in Relaunches : Relaunch(f)) \/ Operator \/ Clock
  BY <1>4
     DEF GiveUp, Relaunch, Operator, Clock, IssueEnrolment, RevokeEnrolment, RevokeEnrolled,
         RevokeGateway, RevokeApp, RejectPairing, ApprovePairing, EnrolmentExpires,
         PairingExpires, GraceEnds, TokenAges
<1> QED
  BY <1>1, <1>2, <1>3, <1>4 DEF Gateway

LEMMA NextUses ==
  ASSUME Inv, DecisionsUsedUp, [Next]_vars PROVE DecisionsUsedUp'
<1> USE DEF Inv
<1> DEFINE Approves(q) == task[q].approved /\ task[q].followup \in {"none", "pairing"}
           Approves2(q) == task'[q].approved /\ task'[q].followup \in {"none", "pairing"}
<1>0. /\ \A q \in Sockets : Approves(q) =>
           /\ task[q].id \in DOMAIN pairings /\ pairings[task[q].id].status = "consumed"
           /\ \A o \in Sockets \ {q} : Approves(o) => task[o].id # task[q].id
  BY DEF DecisionsUsedUp, ByPairing, UsesUp
<1> DEFINE Goal == \A q \in Sockets : Approves2(q) =>
           /\ task'[q].id \in DOMAIN pairings' /\ pairings'[task'[q].id].status = "consumed"
           /\ \A o \in Sockets \ {q} : Approves2(o) => task'[o].id # task'[q].id
<1> SUFFICES Goal
  BY DEF DecisionsUsedUp, ByPairing, UsesUp
<1>1. ASSUME PairingsUsed,
             \A q \in Sockets : Approves2(q) => Approves(q) /\ task'[q].id = task[q].id
      PROVE  Goal
  BY <1>0, <1>1 DEF PairingsUsed
<1>2. ASSUME NEW s \in Sockets, Authorize(s) PROVE Goal
  <2>1. /\ PairingsUsed
        /\ \A q \in Sockets : q # s => task'[q] = task[q]
        /\ task'[s].followup = task[s].followup
    BY <1>2, AuthorizeOwner, AuthorizeKeeps DEF Uses
  <2>2. CASE /\ task'[s].followup \in {"none", "pairing"} => task'[s].approved = task[s].approved
             /\ task'[s].id = task[s].id
    <3>1. ASSUME NEW q \in Sockets, Approves2(q) PROVE Approves(q) /\ task'[q].id = task[q].id
      BY <2>1, <2>2, <3>1
    <3> QED
      BY <1>1, <2>1, <3>1
  <2>3. ASSUME NEW p \in DOMAIN pairings, Usable(p), Consume(p), task'[s].id = p PROVE Goal
    <3>1. p \in DOMAIN pairings' /\ pairings'[p].status = "consumed"
      BY <2>3, ConsumedPairing
    <3>2. \A q \in Sockets \ {s} : Approves2(q) =>
            /\ Approves(q) /\ task'[q].id = task[q].id /\ task[q].id # p
      BY <1>0, <2>1, <2>3 DEF Usable
    <3> QED
      BY <1>0, <2>1, <2>3, <3>1, <3>2 DEF PairingsUsed
  <2> QED
    BY <1>2, <2>2, <2>3, AuthorizeUses
<1>3. CASE Gateway \/ Operator \/ Clock \/ ServerRestart
  <2>1. PairingsUsed
    BY <1>3, OtherOwner DEF Uses
  <2>2. \A q \in Sockets : task'[q] = task[q] \/ ~task'[q].approved
    BY <1>3, OtherUses
  <2> QED
    BY <1>1, <2>1, <2>2
<1>4. CASE UNCHANGED vars
  BY <1>0, <1>4 DEF vars
<1> QED
  BY <1>2, <1>3, <1>4 DEF Next

-----------------------------------------------------------------------------
(* Theorems *)

LEMMA Invariance == Spec => []Inv
<1>1. Inv /\ [Next]_vars => Inv'
  <2> SUFFICES ASSUME Inv, [Next]_vars PROVE Inv'
    OBVIOUS
  <2>1. TypeOK' /\ PairingsKnown'
    BY NextType, NextPairings DEF Inv
  <2>2. Access'
    BY <2>1, NextAccess DEF Inv
  <2>3. OwnerAgreed' /\ TasksAgreed'
    BY NextOwners
  <2> QED
    BY <2>1, <2>2, <2>3 DEF Inv
<1> QED
  BY InitInv, <1>1, PTL DEF Spec

(* The rows and sessions that authorize_gateway_machine and the Gateway    *)
(* read and write keep their kinds of values.                              *)
THEOREM AccessTypes == Spec => []TypeOK
<1>1. Inv => TypeOK
  BY DEF Inv
<1> QED
  BY Invariance, <1>1, PTL

(* create_agent_gateway_authorization and the unique machine_id: of the    *)
(* ids that overlapping attempts make up, the Gateway only ever stores the *)
(* one of its row.                                                         *)
THEOREM OneIdentityStored == Spec => []OneIdentity
<1>1. Inv => OneIdentity
  BY DEF Inv, Access, GatewayOK, OneIdentity
<1> QED
  BY Invariance, <1>1, PTL

(* authorize_gateway_machine decides on a row it read some statements ago: *)
(* whatever changed meanwhile, a current token is not sent to pairing.     *)
THEOREM CurrentTokensAccepted == Spec => []CurrentTokenAccepted
<1>1. Inv => CurrentTokenAccepted
  BY DEF Inv, Access, TaskOK, Accepted, CurrentTokenAccepted
<1> QED
  BY Invariance, <1>1, PTL

(* consume_agent_gateway_machine_enrollment, the pairings and the App ID   *)
(* are used up before the owner is written: nobody owns a Gateway who did  *)
(* not agree to it.                                                        *)
THEOREM OwnersAgreed == Spec => []OwnerAgreed
<1>1. Inv => OwnerAgreed
  BY DEF Inv
<1> QED
  BY Invariance, <1>1, PTL

(* claim_agent_gateway_authorization_owner and the rotations: no attempt   *)
(* takes a Gateway over from its owner.                                    *)
THEOREM OwnersStay == Spec => OwnerStays
<1>1. Inv /\ [Next]_vars => [row.owner # NoUser => row'.owner = row.owner]_vars
  <2> SUFFICES ASSUME Inv, Next, row.owner # NoUser PROVE row'.owner = row.owner
    BY ZenonT(40)
  <2>1. ASSUME NEW s \in Sockets, Authorize(s) PROVE row'.owner = row.owner
    <3>1. NoRow.owner = NoUser /\ row \in Row
      BY DEF NoRow, Inv, TypeOK
    <3> QED
      BY <2>1, <3>1
         DEF Authorize, ReadRow, FollowEnrolment, FollowApp, FollowBootstrap, FollowPairing,
             ConsumeApproval, CreateAuthorization, ClaimOwner, Check, Rotate, Unknown,
             RequestPairing, tables, Row
  <2> QED
    BY <2>1, OtherOwner DEF Next, Inv
<1> QED
  BY <1>1, Invariance, PTL DEF Spec, OwnerStays

(* rotate_agent_gateway_authorization makes a row active whatever it was.  *)
(* Only these get there: an attempt that read the row before it was        *)
(* revoked, one that a decision on a pairing request approved, used up by  *)
(* it alone, and one whose process presents again the App ID, bootstrap    *)
(* token or enrolment it was started with, which nobody decides anew.      *)
THEOREM RevocationsStick == Spec => RevocationSticks
<1> DEFINE Back == \E s \in Sockets : /\ task[s].at = "rotate"
                                      /\ \/ task[s].seen.status = "active"
                                         \/ ByPairing(s) /\ UsesUp(s)
                                         \/ Relaunched(s)
<1>1. Inv /\ DecisionsUsedUp /\ [Next]_vars =>
        [row.status = "revoked" /\ row'.status = "active" => Back]_vars
  <2> SUFFICES ASSUME Inv, DecisionsUsedUp, Next, row.status = "revoked", row'.status = "active"
               PROVE  Back
    OBVIOUS
  <2>1. row \in Row /\ NoRow.status = "none"
    BY DEF Inv, TypeOK, NoRow
  <2>2. ASSUME NEW s \in Sockets, Authorize(s) PROVE Back
    <3>1. Rotate(s)
      BY <2>1, <2>2
         DEF Authorize, ReadRow, FollowEnrolment, FollowApp, FollowBootstrap, FollowPairing,
             ConsumeApproval, CreateAuthorization, ClaimOwner, Check, Unknown,
             RequestPairing, tables, Row
    <3>2. task[s].at = "rotate" /\ Known(task[s]) /\ task[s] \in Task
      BY <3>1 DEF Rotate, Inv, Access, TaskOK, TypeOK
    <3>3. CASE task[s].seen.status = "active"
      BY <3>2, <3>3
    <3>4. CASE task[s].approved
      <4>1. task[s].followup \in Launches \cup {"pairing"}
        BY <3>2 DEF Task
      <4>2. ByPairing(s) \/ Relaunched(s)
        BY <3>4, <4>1 DEF ByPairing, Relaunched
      <4> QED
        BY <3>2, <4>2 DEF DecisionsUsedUp
    <3> QED
      BY <3>2, <3>3, <3>4, SMTT(30) DEF Known
  <2>3. ASSUME Gateway \/ Operator \/ Clock \/ ServerRestart PROVE row'.status # "active"
    BY <2>1, <2>3
       DEF Gateway, Operator, Clock, ServerRestart, Hello, Welcomed, MustPair, Refused, GiveUp,
           Relaunch, IssueEnrolment, RevokeEnrolment, RevokeEnrolled, RevokeGateway, RevokeApp,
           RejectPairing, ApprovePairing, EnrolmentExpires, PairingExpires, GraceEnds,
           TokenAges, Revoked, tables, Row
  <2> QED
    BY <2>2, <2>3 DEF Next
<1>2. Init => DecisionsUsedUp
  BY DEF Init, DecisionsUsedUp, ByPairing, Idle
<1>3. Inv /\ DecisionsUsedUp /\ [Next]_vars => DecisionsUsedUp'
  BY NextUses
<1> QED
  BY <1>1, <1>2, <1>3, Invariance, PTL DEF Spec, RevocationSticks
=============================================================================
