---------------------------- MODULE GatewayAccess ----------------------------
(* How one Gateway machine is let in by the Server: the authorization row   *)
(* with its rotating Device Token, enrolments, App IDs and pairing requests, *)
(* and the reconnect loop of the Gateway that keeps the token.               *)
(*                                                                           *)
(* A task of authorize_gateway_machine reads the row once and then works on  *)
(* that snapshot, one database statement (or transaction) after the other;   *)
(* each statement is an action, so another task, an operator and the clock   *)
(* may come in between.  A token is named by the generation it was issued    *)
(* with, a deployment by what assigns machines to it: the enrolments and the *)
(* App ID belong to deployments of different projects.  What happens to the  *)
(* socket after the Welcome is in GatewaySession and RelayHub.               *)
EXTENDS Integers, FiniteSets, Sequences

CONSTANTS
  Sockets,          \* sockets of the machine the server may be serving at a time
  NoSocket,
  Users,            \* accounts
  NoUser,           \* an authorization nobody owns
  Enrolments,       \* vifu_ge_ tokens operators may issue
  OwnerOf,          \* OwnerOf[e]: the account an enrolment is issued for
  AppOwner,         \* the owner of the App behind the App ID, or NoUser
  Settings,         \* <<guest_bootstrap_enabled, what the Gateway process is started with>>
  Relaunches,       \* what the processes after it may be started with (see Followup)
  MaxGeneration,    \* bound: device tokens issued
  MaxAttempts,      \* bound: connection attempts
  MaxPairings,      \* bound: pairing requests created
  MaxGateways       \* bound: gateway ids generated

ASSUME AccessAssumption ==
  /\ Users # {} /\ NoUser \notin Users
  /\ OwnerOf \in [Enrolments -> Users]
  /\ AppOwner \in Users \cup {NoUser}
  /\ LET launches == Enrolments \cup {"none", "app", "bootstrap"} IN
       Settings \subseteq BOOLEAN \X launches /\ Relaunches \subseteq launches
  /\ Enrolments \cap {"none", "app", "bootstrap", "pairing"} = {}
  /\ NoSocket \notin Sockets /\ MaxAttempts \in Nat
  /\ MaxGeneration \in Nat /\ MaxPairings \in Nat /\ MaxGateways \in Nat

VARIABLES
  guest,        \* guest_bootstrap_enabled
  row,          \* the machine's row of agent_gateway_authorizations
  enrolment,    \* enrolment[e]: its row of agent_gateway_enrollments
  app,          \* the App ID: its status and the gateway id this machine has in it
  assigned,     \* rows of runtime_deployment_gateways: deployments of the two kinds
  revoking,     \* gateway ids a call of revoke_agent_gateway_enrollment has yet to revoke
  pairings,     \* rows of agent_gateway_pairing_requests, by id
  nextGateway,  \* the next id new_gateway_id returns
  task,         \* task[s]: the authorization in progress on socket s
  gateway       \* the Gateway process and the session it persists

vars == <<guest, row, enrolment, app, assigned, revoking, pairings, nextGateway, task, gateway>>

tables == <<row, enrolment, app, assigned, revoking, pairings, nextGateway>>

NoRow == [gateway |-> 0, status |-> "none", owner |-> NoUser, token |-> 0,
          previous |-> 0, validity |-> "expired"]

Tokens == 0..MaxGeneration          \* 0: no token
Ids == 0..MaxPairings               \* 0: no pairing request
GatewayIds == 0..MaxGateways        \* 0: no gateway

Idle == [at |-> "idle", token |-> 0, followup |-> "none", id |-> 0, seen |-> NoRow,
         owner |-> NoUser, approved |-> FALSE, preferred |-> 0, answer |-> 0]

-----------------------------------------------------------------------------
Init ==
  /\ row = NoRow
  /\ enrolment = [e \in Enrolments |->
                    [status |-> "unissued", gateway |-> 0, expired |-> FALSE]]
  /\ app = [active |-> TRUE, gateway |-> 0]
  /\ assigned = {}
  /\ revoking = {}
  /\ pairings = <<>>
  /\ nextGateway = 1
  /\ task = [s \in Sockets |-> Idle]
  /\ \E setting \in Settings :
       /\ guest = setting[1]
       /\ gateway = [on |-> NoSocket, launch |-> setting[2], token |-> 0, id |-> 0,
                     pairing |-> 0, attempts |-> 0]

-----------------------------------------------------------------------------
(* The Gateway process.                                                      *)

(* run_connection's followup: the enrolment token or App ID of the process,  *)
(* else its bootstrap token, else the pairing request it waits for.          *)
Followup ==
  IF gateway.launch # "none" THEN gateway.launch
  ELSE IF gateway.pairing # 0 THEN "pairing" ELSE "none"

(* The Gateway connects and sends Hello; the server accepts its signature    *)
(* and starts to authorize it.  A socket the Gateway has given up may still  *)
(* have its task running.                                                    *)
Hello(s) ==
  /\ gateway.on = NoSocket
  /\ gateway.attempts < MaxAttempts
  /\ task[s] = Idle
  /\ gateway' = [gateway EXCEPT !.on = s, !.attempts = @ + 1]
  /\ task' = [task EXCEPT ![s] = [Idle EXCEPT !.at = "read", !.token = gateway.token,
                                  !.followup = Followup, !.id = gateway.pairing]]
  /\ UNCHANGED <<guest, tables>>

Hang(g) == [g EXCEPT !.on = NoSocket]

(* No answer in ten seconds, or the socket breaks: back to the reconnect     *)
(* loop.                                                                     *)
GiveUp ==
  /\ gateway.on # NoSocket
  /\ gateway' = Hang(gateway)
  /\ UNCHANGED <<guest, tables, task>>

(* The process ends and another is started, with or without a token on its   *)
(* command line; the persisted session is loaded.                            *)
Relaunch(f) ==
  /\ gateway.attempts < MaxAttempts
  /\ gateway' = [Hang(gateway) EXCEPT !.launch = f]
  /\ UNCHANGED <<guest, tables, task>>

(* The Welcome is received, checked against the stored Gateway id and        *)
(* persisted.  It repeats the presented token if none was issued.  The next  *)
(* attempt may follow at once: a connection that lasts changes nothing here. *)
Welcomed(s) ==
  /\ task[s].at = "welcome"
  /\ task' = [task EXCEPT ![s] = Idle]
  /\ gateway' =
       IF gateway.on # s THEN gateway
       ELSE IF gateway.id \notin {0, task[s].seen.gateway} /\ task[s].followup = "none"
       THEN Hang(gateway)
       ELSE [Hang(gateway) EXCEPT
               !.token = IF task[s].answer # 0 THEN task[s].answer ELSE task[s].token,
               !.id = task[s].seen.gateway,
               !.pairing = 0]
  /\ UNCHANGED <<guest, tables>>

(* PairingRequired is received: the request is persisted and is the followup *)
(* of the next attempt, unless the process has one of its own.               *)
MustPair(s) ==
  /\ task[s].at = "pair"
  /\ task' = [task EXCEPT ![s] = Idle]
  /\ gateway' = IF gateway.on # s THEN gateway
                ELSE [Hang(gateway) EXCEPT !.pairing = task[s].answer]
  /\ UNCHANGED <<guest, tables>>

(* run_socket ends with an error: the socket is closed.                      *)
Refused(s) ==
  /\ task[s].at = "error"
  /\ task' = [task EXCEPT ![s] = Idle]
  /\ gateway' = IF gateway.on # s THEN gateway ELSE Hang(gateway)
  /\ UNCHANGED <<guest, tables>>

-----------------------------------------------------------------------------
(* authorize_gateway_machine, one statement at a time.                       *)

Step(s, t) == task' = [task EXCEPT ![s] = t]

Go(s, at) == Step(s, [task[s] EXCEPT !.at = at])

(* get_agent_gateway_authorization_for_machine *)
ReadRow(s) ==
  /\ task[s].at = "read"
  /\ Step(s, [task[s] EXCEPT !.at = "followup", !.seen = row])
  /\ UNCHANGED <<guest, tables, gateway>>

(* The gateway id to enrol: the one of the row read, else a new one.         *)
Suggested(s) == IF task[s].seen # NoRow THEN task[s].seen.gateway ELSE nextGateway

SpendId(s) ==
  /\ task[s].seen = NoRow => nextGateway <= MaxGateways
  /\ nextGateway' = IF task[s].seen = NoRow THEN nextGateway + 1 ELSE nextGateway

(* The rows an enrolment token still opens for gateway id g: a token is      *)
(* consumed once, and may be presented again for the same id until it        *)
(* expires.                                                                  *)
Consumable(e, g) ==
  /\ enrolment[e].status \in {"open", "consumed"}
  /\ ~enrolment[e].expired
  /\ enrolment[e].status = "consumed" => enrolment[e].gateway = g

Approved(s, owner, preferred) ==
  [task[s] EXCEPT !.at = "decide", !.approved = TRUE, !.owner = owner, !.preferred = preferred]

(* consume_agent_gateway_machine_enrollment, one transaction: the token is   *)
(* consumed and the id assigned to its deployment.                           *)
FollowEnrolment(s) ==
  /\ task[s].at = "followup"
  /\ task[s].followup \in Enrolments
  /\ SpendId(s)
  /\ LET e == task[s].followup  g == Suggested(s) IN
       IF Consumable(e, g)
       THEN /\ enrolment' = [enrolment EXCEPT ![e].status = "consumed", ![e].gateway = g]
            /\ assigned' = assigned \cup {<<"enrolment", g>>}
            /\ Step(s, Approved(s, OwnerOf[e], g))
       ELSE /\ UNCHANGED <<enrolment, assigned>>
            /\ Go(s, "error")
  /\ UNCHANGED <<guest, row, app, revoking, pairings, gateway>>

(* authorize_runtime_distribution_gateway, one transaction: the machine      *)
(* keeps the gateway id it first got in the App; a new machine may find the  *)
(* App's device limit reached.                                               *)
FollowApp(s) ==
  /\ task[s].at = "followup"
  /\ task[s].followup = "app"
  /\ SpendId(s)
  /\ \/ /\ app.active
        /\ LET g == IF app.gateway # 0 THEN app.gateway ELSE Suggested(s) IN
             /\ app' = [app EXCEPT !.gateway = g]
             /\ assigned' = assigned \cup {<<"app", g>>}
             /\ Step(s, Approved(s, AppOwner, g))
     \/ /\ ~app.active \/ app.gateway = 0
        /\ UNCHANGED <<app, assigned>>
        /\ Go(s, "error")
  /\ UNCHANGED <<guest, row, enrolment, revoking, pairings, gateway>>

(* The managed bootstrap token approves without an owner; a local Server     *)
(* with a local peer then goes on as with an App ID.                         *)
FollowBootstrap(s) ==
  /\ task[s].at = "followup"
  /\ task[s].followup = "bootstrap"
  /\ Step(s, Approved(s, NoUser, 0))
  /\ UNCHANGED <<guest, tables, gateway>>

(* Mutation: an approval is read without being used up.                      *)
Consume_Keep(p) == p \in DOMAIN pairings /\ UNCHANGED pairings

Consume(p) == pairings' = [pairings EXCEPT ![p].status = "consumed"]

Usable(p) == pairings[p].status = "approved" /\ ~pairings[p].expired

(* Approved by the pairing request p, which this attempt uses up.            *)
Paired(s, p) == [Approved(s, pairings[p].owner, 0) EXCEPT !.id = p]

(* consume_agent_gateway_pairing: by id, an unusable request is ignored.     *)
FollowPairing(s) ==
  /\ task[s].at = "followup"
  /\ task[s].followup \in {"pairing", "none"}
  /\ IF task[s].followup = "pairing" /\ Usable(task[s].id)
     THEN /\ Consume(task[s].id)
          /\ Step(s, Paired(s, task[s].id))
     ELSE /\ UNCHANGED pairings
          /\ Go(s, "approvals")
  /\ UNCHANGED <<guest, row, enrolment, app, assigned, revoking, nextGateway, gateway>>

(* consume_approved_agent_gateway_pairing_for_machine: the oldest usable     *)
(* request of the machine, if there is one.                                  *)
ConsumeApproval(s) ==
  /\ task[s].at = "approvals"
  /\ LET usable == {p \in DOMAIN pairings : Usable(p)} IN
       IF usable # {}
       THEN \E p \in usable :
              /\ \A q \in usable : p <= q
              /\ Consume(p)
              /\ Step(s, Paired(s, p))
       ELSE /\ UNCHANGED pairings
            /\ Go(s, "decide")
  /\ UNCHANGED <<guest, row, enrolment, app, assigned, revoking, nextGateway, gateway>>

Issued(s, r) == [task[s] EXCEPT !.at = "welcome", !.seen = r, !.answer = r.token]

(* Mutation: create_agent_gateway_authorization replaces an existing row.    *)
CreateAuthorization_Replace(s) ==
  /\ task[s].at = "decide"
  /\ task[s].seen = NoRow
  /\ task[s].approved \/ guest
  /\ task[s].preferred = 0 => nextGateway <= MaxGateways
  /\ nextGateway' = IF task[s].preferred = 0 THEN nextGateway + 1 ELSE nextGateway
  /\ row' = [gateway |-> IF task[s].preferred = 0 THEN nextGateway ELSE task[s].preferred,
             status |-> "active", owner |-> task[s].owner, token |-> 1,
             previous |-> 0, validity |-> "fresh"]
  /\ Step(s, Issued(s, row'))
  /\ UNCHANGED <<guest, enrolment, app, assigned, revoking, pairings, gateway>>

(* create_agent_gateway_authorization: machine_id is unique, so of two tasks *)
(* that read no row only the first can create one.                           *)
CreateAuthorization(s) ==
  /\ task[s].at = "decide"
  /\ task[s].seen = NoRow
  /\ task[s].approved \/ guest
  /\ task[s].preferred = 0 => nextGateway <= MaxGateways
  /\ nextGateway' = IF task[s].preferred = 0 THEN nextGateway + 1 ELSE nextGateway
  /\ IF row = NoRow
     THEN /\ row' = [gateway |-> IF task[s].preferred = 0 THEN nextGateway ELSE task[s].preferred,
                     status |-> "active", owner |-> task[s].owner, token |-> 1,
                     previous |-> 0, validity |-> "fresh"]
          /\ Step(s, Issued(s, row'))
     ELSE /\ UNCHANGED row
          /\ Go(s, "error")
  /\ UNCHANGED <<guest, enrolment, app, assigned, revoking, pairings, gateway>>

(* claim_agent_gateway_authorization_owner: the owner is set once.           *)
ClaimOwner(s) ==
  /\ task[s].at = "decide"
  /\ task[s].seen # NoRow
  /\ task[s].owner # NoUser
  /\ IF row.owner \in {NoUser, task[s].owner}
     THEN /\ row' = [row EXCEPT !.owner = task[s].owner]
          /\ Step(s, [task[s] EXCEPT !.at = "check", !.seen = row'])
     ELSE /\ UNCHANGED row
          /\ Go(s, "error")
  /\ UNCHANGED <<guest, enrolment, app, assigned, revoking, pairings, nextGateway, gateway>>

Checking(s) ==
  \/ task[s].at = "check"
  \/ task[s].at = "decide" /\ task[s].seen # NoRow /\ task[s].owner = NoUser

(* Mutation: a token near its end is no longer accepted.                     *)
Opens_FreshOnly(t) ==
  /\ row.status = "active"
  /\ \/ t = row.token /\ row.validity = "fresh"
     \/ t = row.previous

(* authenticate_agent_gateway_device_token: the current token until it       *)
(* expires, the one before it during the grace period.                       *)
Opens(t) ==
  /\ row.status = "active"
  /\ \/ t = row.token /\ row.validity # "expired"
     \/ t = row.previous

(* Mutation: guest bootstrap is looked at before the revocation.             *)
Check_GuestFirst(s) ==
  LET t == task[s] IN
  /\ Checking(s)
  /\ IF t.approved \/ (t.token = 0 /\ guest /\ t.seen.owner = NoUser) THEN Go(s, "rotate")
     ELSE IF t.seen.status = "revoked" \/ t.token = 0 \/ ~Opens(t.token) THEN Go(s, "pending")
     ELSE Go(s, IF t.seen.validity = "fresh" THEN "welcome" ELSE "rotate")
  /\ UNCHANGED <<guest, tables, gateway>>

(* The decision on the row as it was read (or claimed): no token is issued   *)
(* while the presented one is far from its end.                              *)
Check(s) ==
  LET t == task[s] IN
  /\ Checking(s)
  /\ IF t.approved THEN Go(s, "rotate")
     ELSE IF t.seen.status = "revoked" THEN Go(s, "pending")
     ELSE IF t.token = 0
          THEN Go(s, IF guest /\ t.seen.owner = NoUser THEN "rotate" ELSE "pending")
     ELSE IF ~Opens(t.token) THEN Go(s, "pending")
     ELSE Go(s, IF t.seen.validity = "fresh" THEN "welcome" ELSE "rotate")
  /\ UNCHANGED <<guest, tables, gateway>>

(* rotate_agent_gateway_authorization: whatever the row's status is by now,  *)
(* it becomes active with a new token; the old one has its grace period.     *)
Rotate(s) ==
  /\ task[s].at = "rotate"
  /\ row.token < MaxGeneration
  /\ row' = [row EXCEPT !.status = "active", !.token = @ + 1, !.validity = "fresh",
                        !.previous = IF row.status = "active" /\ row.validity # "expired"
                                     THEN row.token ELSE 0]
  /\ Step(s, Issued(s, row'))
  /\ UNCHANGED <<guest, enrolment, app, assigned, revoking, pairings, nextGateway, gateway>>

(* The path of a new machine nobody has approved.                            *)
Unknown(s) ==
  /\ task[s].at = "decide"
  /\ task[s].seen = NoRow
  /\ ~task[s].approved /\ ~guest
  /\ Go(s, "pending")
  /\ UNCHANGED <<guest, tables, gateway>>

(* create_or_get_agent_gateway_pairing: expired requests are closed, the     *)
(* pending one is returned, or a new one is made.                            *)
RequestPairing(s) ==
  /\ task[s].at = "pending"
  /\ LET swept == [p \in DOMAIN pairings |->
                     IF pairings[p].status = "pending" /\ pairings[p].expired
                     THEN [pairings[p] EXCEPT !.status = "expired"] ELSE pairings[p]]
         open == {p \in DOMAIN swept : swept[p].status = "pending"}
     IN \/ /\ open # {}
           /\ pairings' = swept
           /\ \E p \in open : Step(s, [task[s] EXCEPT !.at = "pair", !.answer = p])
        \/ /\ open = {} /\ Len(swept) < MaxPairings
           /\ pairings' = Append(swept, [status |-> "pending", owner |-> NoUser, expired |-> FALSE])
           /\ Step(s, [task[s] EXCEPT !.at = "pair", !.answer = Len(pairings')])
  /\ UNCHANGED <<guest, row, enrolment, app, assigned, revoking, nextGateway, gateway>>

Authorize(s) ==
  \/ ReadRow(s) \/ FollowEnrolment(s) \/ FollowApp(s) \/ FollowBootstrap(s)
  \/ FollowPairing(s) \/ ConsumeApproval(s) \/ CreateAuthorization(s)
  \/ ClaimOwner(s) \/ Check(s) \/ Rotate(s) \/ Unknown(s) \/ RequestPairing(s)

-----------------------------------------------------------------------------
(* Operators, the clock and restarts of the server.                          *)

(* create_agent_gateway_enrollment revokes the deployment's unused tokens.   *)
IssueEnrolment(e) ==
  /\ enrolment[e].status = "unissued"
  /\ enrolment' = [x \in Enrolments |->
       IF x = e THEN [enrolment[x] EXCEPT !.status = "open"]
       ELSE IF enrolment[x].status = "open" THEN [enrolment[x] EXCEPT !.status = "revoked"]
       ELSE enrolment[x]]
  /\ UNCHANGED <<guest, row, app, assigned, revoking, pairings, nextGateway, task, gateway>>

(* revoke_agent_gateway_enrollment, the transaction: the gateway loses the   *)
(* deployment, and its access too if that was its last one.                  *)
RevokeEnrolment(e) ==
  /\ enrolment[e].status # "unissued"
  /\ enrolment' = [enrolment EXCEPT ![e].status = "revoked"]
  /\ LET g == enrolment[e].gateway
         rest == assigned \ {<<"enrolment", g>>} IN
       IF g = 0 THEN UNCHANGED <<assigned, revoking>>
       ELSE /\ assigned' = rest
            /\ revoking' = IF <<"app", g>> \in rest THEN revoking ELSE revoking \cup {g}
  /\ UNCHANGED <<guest, row, app, pairings, nextGateway, task, gateway>>

Revoked == [row EXCEPT !.status = "revoked", !.previous = 0]

(* ... and the statement after it, which ignores a gateway without a row.    *)
RevokeEnrolled(g) ==
  /\ g \in revoking
  /\ revoking' = revoking \ {g}
  /\ row' = IF row.gateway = g THEN Revoked ELSE row
  /\ UNCHANGED <<guest, enrolment, app, assigned, pairings, nextGateway, task, gateway>>

(* revoke_agent_gateway, by the owner or an administrator.                   *)
RevokeGateway ==
  /\ row.status = "active"
  /\ row' = Revoked
  /\ UNCHANGED <<guest, enrolment, app, assigned, revoking, pairings, nextGateway, task, gateway>>

(* approve_agent_gateway_pairing by account u, or by an administrator (then  *)
(* u is the row's owner, if any).  The check of the owner and the update are *)
(* two statements of which only the update shows: an owner claimed between   *)
(* them is claimed right after them here, and the approval is as useless.    *)
ApprovePairing(p, u) ==
  /\ p \in DOMAIN pairings
  /\ pairings[p].status = "pending" /\ ~pairings[p].expired
  /\ u \in Users => row.owner \in {NoUser, u}
  /\ u = NoUser => row.owner = NoUser
  /\ pairings' = [pairings EXCEPT ![p].status = "approved", ![p].owner = u]
  /\ UNCHANGED <<guest, row, enrolment, app, assigned, revoking, nextGateway, task, gateway>>

RejectPairing(p) ==
  /\ p \in DOMAIN pairings
  /\ pairings[p].status = "pending" /\ ~pairings[p].expired
  /\ pairings' = [pairings EXCEPT ![p].status = "rejected"]
  /\ UNCHANGED <<guest, row, enrolment, app, assigned, revoking, nextGateway, task, gateway>>

RevokeApp ==
  /\ app.active
  /\ app' = [app EXCEPT !.active = FALSE]
  /\ UNCHANGED <<guest, row, enrolment, assigned, revoking, pairings, nextGateway, task, gateway>>

EnrolmentExpires(e) ==
  /\ enrolment[e].status \in {"open", "consumed"} /\ ~enrolment[e].expired
  /\ enrolment' = [enrolment EXCEPT ![e].expired = TRUE]
  /\ UNCHANGED <<guest, row, app, assigned, revoking, pairings, nextGateway, task, gateway>>

PairingExpires(p) ==
  /\ p \in DOMAIN pairings
  /\ pairings[p].status \in {"pending", "approved"} /\ ~pairings[p].expired
  /\ pairings' = [pairings EXCEPT ![p].expired = TRUE]
  /\ UNCHANGED <<guest, row, enrolment, app, assigned, revoking, nextGateway, task, gateway>>

(* Ten minutes have passed since the last rotation.                          *)
GraceEnds ==
  /\ row.previous # 0
  /\ row' = [row EXCEPT !.previous = 0]
  /\ UNCHANGED <<guest, enrolment, app, assigned, revoking, pairings, nextGateway, task, gateway>>

(* The current token comes within 30 days of its end, and to its end; the    *)
(* grace period of the one before it is long over.                           *)
TokenAges ==
  /\ row.previous = 0
  /\ \/ row.validity = "fresh" /\ row' = [row EXCEPT !.validity = "window"]
     \/ row.validity = "window" /\ row' = [row EXCEPT !.validity = "expired"]
  /\ UNCHANGED <<guest, enrolment, app, assigned, revoking, pairings, nextGateway, task, gateway>>

(* The server process dies and starts again: the tables stay.                *)
ServerRestart ==
  /\ task' = [s \in Sockets |-> Idle]
  /\ revoking' = {}
  /\ gateway' = Hang(gateway)
  /\ UNCHANGED <<guest, row, enrolment, app, assigned, pairings, nextGateway>>

Gateway ==
  \/ \E s \in Sockets : Hello(s) \/ Welcomed(s) \/ MustPair(s) \/ Refused(s)
  \/ GiveUp
  \/ \E f \in Relaunches : Relaunch(f)

Operator ==
  \/ \E e \in Enrolments : IssueEnrolment(e) \/ RevokeEnrolment(e)
  \/ \E g \in GatewayIds : RevokeEnrolled(g)
  \/ RevokeGateway \/ RevokeApp
  \/ \E p \in Ids : RejectPairing(p) \/ \E u \in Users \cup {NoUser} : ApprovePairing(p, u)

Clock ==
  \/ \E e \in Enrolments : EnrolmentExpires(e)
  \/ \E p \in Ids : PairingExpires(p)
  \/ GraceEnds \/ TokenAges

Next ==
  \/ Gateway \/ Operator \/ Clock \/ ServerRestart
  \/ \E s \in Sockets : Authorize(s)

Spec == Init /\ [][Next]_vars

-----------------------------------------------------------------------------
Row == [gateway : GatewayIds, status : {"none", "active", "revoked"},
        owner : Users \cup {NoUser}, token : Nat, previous : Nat,
        validity : {"fresh", "window", "expired"}]

Enrolment == [status : {"unissued", "open", "consumed", "revoked"}, gateway : GatewayIds,
              expired : BOOLEAN]

Pairing == [status : {"pending", "approved", "rejected", "consumed", "expired"},
            owner : Users \cup {NoUser}, expired : BOOLEAN]

Launches == Enrolments \cup {"none", "app", "bootstrap"}

Task == [at : {"idle", "read", "followup", "approvals", "decide", "check", "rotate", "pending",
               "pair", "welcome", "error"},
         token : Nat, followup : Launches \cup {"pairing"}, id : Nat, seen : Row,
         owner : Users \cup {NoUser}, approved : BOOLEAN, preferred : GatewayIds, answer : Nat]

(* Every variable keeps its kind of value.                                   *)
TypeOK ==
  /\ guest \in BOOLEAN
  /\ row \in Row
  /\ enrolment \in [Enrolments -> Enrolment]
  /\ app \in [active : BOOLEAN, gateway : GatewayIds]
  /\ assigned \subseteq {"app", "enrolment"} \X GatewayIds
  /\ revoking \subseteq GatewayIds \ {0}
  /\ pairings \in Seq(Pairing)
  /\ nextGateway \in 1..(MaxGateways + 1)
  /\ task \in [Sockets -> Task]
  /\ gateway \in [on : Sockets \cup {NoSocket}, launch : Launches, token : Nat,
                  id : GatewayIds, pairing : Nat, attempts : Nat]

(* A machine has one identity: whatever attempts overlap, and whichever of   *)
(* their answers are lost, the Gateway id it stores is the one of its row.   *)
OneIdentity == gateway.id # 0 => gateway.id = row.gateway

(* Nobody loses a Gateway to another account: an owner, once set, stays,     *)
(* although approvals and enrolments of several accounts race.               *)
OwnerStays == [][row.owner # NoUser => row'.owner = row.owner]_vars

Agreed(u) ==
  \/ \E e \in Enrolments : OwnerOf[e] = u /\ enrolment[e].gateway # 0
  \/ \E p \in DOMAIN pairings : pairings[p].owner = u /\ pairings[p].status = "consumed"
  \/ u = AppOwner /\ app.gateway # 0

(* An account owns a Gateway only because an enrolment or pairing of that    *)
(* account, or its App ID, was used up by the machine.                       *)
OwnerAgreed == row.owner # NoUser => Agreed(row.owner)

(* A token that is current, unexpired and not revoked is never answered with *)
(* a pairing request, whatever happened between the statements of the task.  *)
CurrentTokenAccepted ==
  \A s \in Sockets :
    task[s].at \in {"pending", "pair"} =>
      ~ (task[s].token # 0 /\ task[s].token = row.token
          /\ row.status = "active" /\ row.validity # "expired")

(* The process was started with a token that approves it by itself: its App  *)
(* ID, the bootstrap token or an enrolment.  It presents the token on every  *)
(* reconnect, and a used enrolment still opens the id it was used for.       *)
Relaunched(s) == task[s].approved /\ task[s].followup \in Launches \ {"none"}

(* The attempt was approved by an operator's decision on a pairing request.  *)
ByPairing(s) == task[s].approved /\ task[s].followup \in {"none", "pairing"}

(* The decision is used up, and by no other attempt.                         *)
UsesUp(s) ==
  /\ task[s].id \in DOMAIN pairings
  /\ pairings[task[s].id].status = "consumed"
  /\ \A o \in Sockets \ {s} : ByPairing(o) => task[o].id # task[s].id

(* What brings a revoked Gateway back: an attempt that read the row before   *)
(* it was revoked, an approval of an operator that serves this attempt and   *)
(* no other, or -- without a decision of anybody -- the App ID, bootstrap    *)
(* token or enrolment that its process presents again.                       *)
RevocationSticks ==
  [][row.status = "revoked" /\ row'.status = "active" =>
       \E s \in Sockets :
         /\ task[s].at = "rotate"
         /\ \/ task[s].seen.status = "active"
            \/ ByPairing(s) /\ UsesUp(s)
            \/ Relaunched(s)]_vars

(* docs/topology-and-pairing.md: a previously enrolled Gateway presents the  *)
(* stored Device Token on a normal reconnect.  An enrolment that was not     *)
(* revoked is no reason to refuse a Gateway that presents the current token. *)
EnrolledReconnects ==
  \A s \in Sockets :
    LET e == task[s].followup IN
    task[s].at = "error" /\ e \in Enrolments /\ task[s].token # 0 /\ task[s].token = row.token =>
      \/ row.status # "active" \/ row.validity = "expired"
      \/ enrolment[e].status = "revoked"
=============================================================================
