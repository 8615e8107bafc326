-------------------------- MODULE MembershipProofs --------------------------
(***************************************************************************)
(* That the safety invariants of Membership hold for every set of users,   *)
(* roles and invitations, and every number of overlapping requests; and    *)
(* that no step takes a decision about an invitation back.                 *)
(***************************************************************************)
EXTENDS Membership, TLAPS

InviteSteps == {"execute", "expired", "isMember", "wasMember", "addMember", "accepted"}
FlowSteps   == {"mail", "sleep10", "check", "remind", "sleep4", "expire", "update"}

(* What a request has seen or done before the step it waits at.            *)
RequestSound(h) ==
  /\ req[h].at = "expired" => age[req[h].i] = 2
  /\ req[h].at = "wasMember" => Guest(h) \in Members
  /\ req[h].at = "accepted" => member[Guest(h)] = Offer(h)
  /\ req[h].at = "setRole" /\ req[h].role \in Roles => member[req[h].u] = req[h].role

RequestsSound == \A h \in Handlers : RequestSound(h)

(* The workflow expires an invitation after its second timer only.         *)
FlowsDue == \A u \in Users : flow[u].at \in {"expire", "update"} => age[flow[u].i] = 2

IInv ==
  /\ TypeOK /\ RequestsSound /\ FlowsDue
  /\ AcceptedIsMember /\ RoleSound /\ ExpiredOnlyAfterDeadline

-----------------------------------------------------------------------------
(* Facts about the values the variables take. *)

(* An invitation has a user and offers a role. *)
LEMMA InviteType ==
  ASSUME TypeOK, NEW i \in Invites
  PROVE  invite[i].user \in Users /\ invite[i].role \in Roles
BY ScenariosAssumption DEF TypeOK, Invites

(* A request at a step of an invitation carries one. *)
LEMMA InviteRequest ==
  ASSUME TypeOK, NEW h \in Handlers, req[h].at \in InviteSteps
  PROVE  /\ req[h].i \in Invites
         /\ req[h] = [at |-> req[h].at, i |-> req[h].i]
         /\ Guest(h) \in Users /\ Offer(h) \in Roles
<1>1. req[h] \in [at : InviteSteps, i : Invites]
  BY DEF TypeOK, RequestStates, InviteSteps, Idle
<1> QED BY <1>1, InviteType DEF Guest, Offer

(* One that reads or caches a role carries a user. *)
LEMMA RoleRequest ==
  ASSUME TypeOK, NEW h \in Handlers
  PROVE  /\ req[h].at = "getRole" => req[h].u \in Users
         /\ req[h].at = "setRole" =>
              req[h].u \in Users /\ req[h].role \in Roles \cup {Negative}
BY DEF TypeOK, RequestStates, Idle

(* A workflow that runs carries an invitation. *)
LEMMA FlowInvite ==
  ASSUME TypeOK, NEW u \in Users, flow[u].at \in FlowSteps
  PROVE  /\ flow[u].i \in Invites
         /\ flow[u] = [at |-> flow[u].at, i |-> flow[u].i]
BY DEF TypeOK, NoFlow, FlowSteps

-----------------------------------------------------------------------------
(* Type correctness. *)

(* The empty tables and the idle handlers have their types. *)
LEMMA InitType == Init => TypeOK
BY DEF Init, TypeOK, RequestStates, Idle, NoFlow, Handlers

(* A request that moves to a known state leaves the others typed. *)
LEMMA RequestTyped ==
  ASSUME TypeOK, NEW h \in Handlers, NEW r \in RequestStates, Go(h, r)
  PROVE  req' \in [Handlers -> RequestStates]
BY DEF TypeOK, Go

(* A request that keeps its invitation moves to a known state. *)
LEMMA StepTyped ==
  ASSUME TypeOK, NEW h \in Handlers, NEW step \in InviteSteps,
         req[h].at \in InviteSteps, Step(h, step)
  PROVE  req' \in [Handlers -> RequestStates]
<1>1. [at |-> step, i |-> req[h].i] \in RequestStates
  BY InviteRequest DEF RequestStates, InviteSteps
<1> QED BY <1>1, RequestTyped DEF Step

(* A workflow that goes on keeps its invitation. *)
LEMMA FlowTyped ==
  ASSUME TypeOK, NEW u \in Users, NEW step \in FlowSteps,
         flow[u].at \in FlowSteps, NextInFlow(u, step) \/ EndFlow(u)
  PROVE  flow' \in [Users -> {NoFlow} \cup [at : FlowSteps, i : Invites]]
<1>1. [at |-> step, i |-> flow[u].i] \in [at : FlowSteps, i : Invites]
  BY FlowInvite
<1>2. CASE NextInFlow(u, step) BY <1>1, <1>2 DEF TypeOK, NextInFlow, FlowSteps
<1>3. CASE EndFlow(u) BY <1>3 DEF TypeOK, EndFlow, FlowSteps
<1> QED BY <1>2, <1>3

(* Every step of the requests, the workflows and time keeps the types. *)
LEMMA TypeStep == TypeOK /\ [Next]_vars => TypeOK'
<1> SUFFICES ASSUME TypeOK, [Next]_vars PROVE TypeOK'
  OBVIOUS
<1>h. ASSUME NEW h \in Handlers, Request(h) \/ HandlerStep(h) \/ Crash(h) PROVE TypeOK'
  <2>0. Idle \in RequestStates BY DEF RequestStates
  <2>1. ASSUME NEW i \in Invites, CreateInvite(h, i) PROVE TypeOK'
    <3>1. [at |-> "execute", i |-> i] \in RequestStates BY DEF RequestStates
    <3>2. req' \in [Handlers -> RequestStates] BY <2>1, <3>1, RequestTyped DEF CreateInvite
    <3> QED BY <2>1, <3>2 DEF TypeOK, CreateInvite, fixed, Invites, RequestStates
  <2>2. ASSUME NEW i \in Invites, FindInviteByToken(h, i) PROVE TypeOK'
    <3>1. [at |-> IF age[i] = 2 THEN "expired" ELSE "isMember", i |-> i] \in RequestStates
      BY DEF RequestStates
    <3>2. req' \in [Handlers -> RequestStates] BY <2>2, <3>1, RequestTyped DEF FindInviteByToken
    <3> QED BY <2>2, <3>2 DEF TypeOK, FindInviteByToken, fixed, table, Invites, RequestStates
  <2>3. ASSUME NEW u \in Users, GetCachedRole(h, u) PROVE TypeOK'
    <3>1. [at |-> "getRole", u |-> u] \in RequestStates BY DEF RequestStates
    <3>2. req' \in [Handlers -> RequestStates] BY <2>3, <3>1, RequestTyped DEF GetCachedRole
    <3> QED BY <2>3, <3>2 DEF TypeOK, GetCachedRole, fixed, table, Invites, RequestStates
  <2>4. CASE ExecuteWorkflow(h)
    <3>1. req' \in [Handlers -> RequestStates] BY <2>4, <2>0, RequestTyped DEF ExecuteWorkflow
    <3>2. Guest(h) \in Users /\ req[h].i \in Invites
      BY <2>4, InviteRequest DEF ExecuteWorkflow, At, InviteSteps
    <3> QED BY <2>4, <3>1, <3>2 DEF TypeOK, ExecuteWorkflow, fixed, table, Invites, RequestStates
  <2>5. CASE MarkExpired(h)
    <3>1. req' \in [Handlers -> RequestStates] BY <2>5, <2>0, RequestTyped DEF MarkExpired
    <3> QED BY <2>5, <3>1 DEF TypeOK, MarkExpired, UpdateInviteStatus, fixed, Invites, RequestStates
  <2>6. CASE IsMember(h)
    <3>1. req' \in [Handlers -> RequestStates]
      BY <2>6, StepTyped DEF IsMember, At, InviteSteps
    <3> QED BY <2>6, <3>1 DEF TypeOK, IsMember, fixed, table, Invites, RequestStates
  <2>7. CASE MarkAlreadyMember(h)
    <3>1. req' \in [Handlers -> RequestStates] BY <2>7, <2>0, RequestTyped DEF MarkAlreadyMember
    <3> QED BY <2>7, <3>1 DEF TypeOK, MarkAlreadyMember, UpdateInviteStatus, fixed, Invites, RequestStates
  <2>8. CASE AddMember(h)
    <3>1. req[h].at \in InviteSteps BY <2>8 DEF AddMember, At, InviteSteps
    <3>2. req' \in [Handlers -> RequestStates]
      BY <2>8, <3>1, <2>0, StepTyped, RequestTyped DEF AddMember, InviteSteps
    <3>3. Guest(h) \in Users /\ Offer(h) \in Roles BY <3>1, InviteRequest
    <3> QED BY <2>8, <3>2, <3>3 DEF TypeOK, AddMember, fixed, Invites, RequestStates
  <2>9. CASE MarkAccepted(h)
    <3>1. req[h].at \in InviteSteps BY <2>9 DEF MarkAccepted, At, InviteSteps
    <3>2. RoleOf(Guest(h), Offer(h)) \in RequestStates
      BY <3>1, InviteRequest DEF RoleOf, RequestStates
    <3>3. req' \in [Handlers -> RequestStates] BY <2>9, <3>2, RequestTyped DEF MarkAccepted
    <3> QED BY <2>9, <3>3 DEF TypeOK, MarkAccepted, UpdateInviteStatus, fixed, Invites, RequestStates
  <2>10. CASE GetMemberRole(h)
    <3>1. req[h].u \in Users BY <2>10, RoleRequest DEF GetMemberRole, At
    <3>2. RoleOf(req[h].u, Negative) \in RequestStates BY <3>1 DEF RoleOf, RequestStates
    <3>3. req[h].u \in Members => RoleOf(req[h].u, member[req[h].u]) \in RequestStates
      BY <3>1 DEF RoleOf, RequestStates, Members, TypeOK
    <3>4. req' \in [Handlers -> RequestStates]
      BY <2>10, <2>0, <3>2, <3>3, RequestTyped DEF GetMemberRole
    <3> QED BY <2>10, <3>4 DEF TypeOK, GetMemberRole, fixed, table, Invites, RequestStates
  <2>11. CASE SetMemberRole(h)
    <3>1. req' \in [Handlers -> RequestStates] BY <2>11, <2>0, RequestTyped DEF SetMemberRole
    <3>2. req[h].u \in Users /\ req[h].role \in Roles \cup {Negative}
      BY <2>11, RoleRequest DEF SetMemberRole, At
    <3> QED BY <2>11, <3>1, <3>2 DEF TypeOK, SetMemberRole, fixed, table, Invites, RequestStates
  <2>12. CASE Crash(h)
    <3>1. req' \in [Handlers -> RequestStates] BY <2>12, <2>0, RequestTyped DEF Crash
    <3> QED BY <2>12, <3>1 DEF TypeOK, Crash, fixed, table, Invites, RequestStates
  <2> QED BY <1>h, <2>1, <2>2, <2>3, <2>4, <2>5, <2>6, <2>7, <2>8, <2>9, <2>10, <2>11, <2>12
          DEF Request, HandlerStep
<1>w. ASSUME NEW u \in Users, Workflow(u) PROVE TypeOK'
  <2>1. flow' \in [Users -> {NoFlow} \cup [at : FlowSteps, i : Invites]]
    <3>1. flow[u].at \in FlowSteps
      BY <1>w DEF Workflow, SendEmail, Wake, CheckInviteStatus, ExpireInviteFind,
                  ExpireInviteUpdate, InFlow, FlowSteps
    <3>2. EndFlow(u) \/ \E step \in FlowSteps : NextInFlow(u, step)
      BY <1>w DEF Workflow, SendEmail, Wake, CheckInviteStatus, ExpireInviteFind,
                  ExpireInviteUpdate, FlowSteps
    <3>3. \E step \in FlowSteps : NextInFlow(u, step) \/ EndFlow(u)
      BY <3>1, <3>2
    <3> QED BY <3>1, <3>3, FlowTyped
  <2>2. CASE ExpireInviteUpdate(u)
    BY <2>1, <2>2 DEF ExpireInviteUpdate, UpdateInviteStatus, TypeOK, FlowSteps, fixed, Invites, RequestStates
  <2>3. CASE SendEmail(u) \/ Wake(u) \/ CheckInviteStatus(u) \/ ExpireInviteFind(u)
    BY <2>1, <2>3 DEF SendEmail, Wake, CheckInviteStatus, ExpireInviteFind, TypeOK, FlowSteps,
                      fixed, table, Invites, RequestStates
  <2> QED BY <1>w, <2>2, <2>3 DEF Workflow
<1>d. ASSUME NEW i \in Invites, Days(i) PROVE TypeOK'
  BY <1>d DEF Days, TypeOK, fixed, Invites, RequestStates
<1>e. CASE ExpireRoles
  BY <1>e DEF ExpireRoles, TypeOK, fixed, table, Invites, RequestStates
<1>u. CASE UNCHANGED vars
  BY <1>u DEF vars, fixed, table, TypeOK, Invites, RequestStates
<1> QED BY <1>h, <1>w, <1>d, <1>e, <1>u DEF Next

(* The table, the cache, the workflows and the requests keep their types.  *)
THEOREM TypeCorrect == Spec => []TypeOK
<1> QED BY InitType, TypeStep, PTL DEF Spec

-----------------------------------------------------------------------------
(* The strengthening is inductive.  What a request has seen stays true     *)
(* while it waits: rows of workspace_members are never changed or removed, *)
(* and an invitation does not grow younger.                                *)

(* With no row and nothing under way there is nothing to contradict. *)
LEMMA InitIInv == Init => IInv
<1> SUFFICES ASSUME Init PROVE IInv
  OBVIOUS
<1>1. TypeOK BY InitType
<1>2. RequestsSound BY DEF Init, RequestsSound, RequestSound, Idle
<1>3. FlowsDue BY DEF Init, FlowsDue, NoFlow
<1>4. RoleSound BY RolesAssumption DEF Init, RoleSound
<1>5. AcceptedIsMember /\ ExpiredOnlyAfterDeadline
  BY DEF Init, AcceptedIsMember, ExpiredOnlyAfterDeadline
<1> QED BY <1>1, <1>2, <1>3, <1>4, <1>5 DEF IInv

(* What a step may change without disturbing what others have seen.        *)
Grows ==
  /\ invite' = invite
  /\ \A u \in Users : member[u] \in Roles => member'[u] = member[u]
  /\ \A i \in Invites : age[i] = 2 => age'[i] = 2

(* Every step is of that kind: AddMember writes only where no row was. *)
LEMMA NextGrows == TypeOK /\ [Next]_vars => Grows
<1> SUFFICES ASSUME TypeOK, [Next]_vars PROVE Grows
  OBVIOUS
<1>1. CASE member' = member /\ age' = age /\ invite' = invite
  BY <1>1 DEF Grows
<1>2. ASSUME NEW h \in Handlers, AddMember(h) PROVE Grows
  <2>1. req[h].at \in InviteSteps BY <1>2 DEF AddMember, At, InviteSteps
  <2>2. Guest(h) \in Users BY <2>1, InviteRequest
  <2> QED BY <1>2, <2>2, RolesAssumption DEF AddMember, Grows, Members, fixed, TypeOK
<1>3. ASSUME NEW i \in Invites, Days(i) PROVE Grows
  BY <1>3 DEF Days, Grows, fixed, TypeOK
<1>4. ASSUME NEW h \in Handlers, Request(h) \/ Crash(h) \/ (HandlerStep(h) /\ ~AddMember(h))
      PROVE  member' = member /\ age' = age /\ invite' = invite
  BY <1>4 DEF Request, HandlerStep, Crash, CreateInvite, FindInviteByToken, GetCachedRole,
              ExecuteWorkflow, MarkExpired, IsMember, MarkAlreadyMember, MarkAccepted,
              GetMemberRole, SetMemberRole, fixed, table
<1>5. ASSUME NEW u \in Users, Workflow(u)
      PROVE  member' = member /\ age' = age /\ invite' = invite
  BY <1>5 DEF Workflow, SendEmail, Wake, CheckInviteStatus, ExpireInviteFind, ExpireInviteUpdate,
              fixed, table
<1>6. CASE ExpireRoles \/ UNCHANGED vars
  BY <1>1, <1>6 DEF ExpireRoles, vars, fixed, table
<1> QED BY <1>1, <1>2, <1>3, <1>4, <1>5, <1>6 DEF Next

(* A request that takes no step has still seen the truth.                  *)
LEMMA RequestKept ==
  ASSUME IInv, Grows, NEW h \in Handlers, req'[h] = req[h]
  PROVE  RequestSound(h)'
<1> USE DEF RequestSound, IInv
<1>0. RequestSound(h) /\ TypeOK BY DEF RequestsSound
<1>1. ASSUME req[h].at = "expired" PROVE age'[req[h].i] = 2
  BY <1>0, <1>1, InviteRequest DEF InviteSteps, Grows
<1>2. ASSUME req[h].at = "wasMember" PROVE Guest(h)' \in Members'
  <2>1. Guest(h)' = Guest(h) /\ Guest(h) \in Users
    BY <1>2, <1>0, InviteRequest DEF Guest, Grows, InviteSteps
  <2>2. member[Guest(h)] \in Roles BY <1>0, <1>2, <2>1 DEF Members, TypeOK
  <2> QED BY <2>1, <2>2, RolesAssumption DEF Members, Grows
<1>3. ASSUME req[h].at = "accepted" PROVE member'[Guest(h)'] = Offer(h)'
  <2>1. Guest(h)' = Guest(h) /\ Guest(h) \in Users /\ Offer(h)' = Offer(h) /\ Offer(h) \in Roles
    BY <1>3, <1>0, InviteRequest DEF Guest, Offer, Grows, InviteSteps
  <2> QED BY <1>0, <1>3, <2>1 DEF Grows
<1>4. ASSUME req[h].at = "setRole", req[h].role \in Roles PROVE member'[req[h].u] = req[h].role
  BY <1>0, <1>4, RoleRequest DEF Grows
<1> QED BY <1>1, <1>2, <1>3, <1>4

(* The request that takes the step leaves what it saw or did behind.       *)
LEMMA RequestMoves ==
  ASSUME IInv, Grows, NEW h \in Handlers, Request(h) \/ HandlerStep(h) \/ Crash(h)
  PROVE  RequestsSound'
<1>0. TypeOK BY DEF IInv
<1>1. \A g \in Handlers \ {h} : req'[g] = req[g]
  BY <1>0 DEF Request, HandlerStep, Crash, CreateInvite, FindInviteByToken, GetCachedRole,
              ExecuteWorkflow, MarkExpired, IsMember, MarkAlreadyMember, AddMember, MarkAccepted,
              GetMemberRole, SetMemberRole, Step, Go, TypeOK
<1>2. SUFFICES RequestSound(h)'
  BY <1>1, RequestKept DEF RequestsSound
<1> USE DEF Go, Step, RequestSound
<1>3. ASSUME NEW i \in Invites, FindInviteByToken(h, i) PROVE RequestSound(h)'
  BY <1>0, <1>3 DEF FindInviteByToken, table, TypeOK
<1>4. CASE IsMember(h)
  <2>1. req[h].at \in InviteSteps BY <1>4 DEF IsMember, At, InviteSteps
  <2>2. Guest(h)' = Guest(h) /\ Members' = Members
    BY <1>0, <1>4, <2>1 DEF IsMember, Guest, Members, fixed, table, TypeOK
  <2> QED BY <1>0, <1>4, <2>2 DEF IsMember, table, TypeOK
<1>5. CASE AddMember(h)
  <2>1. req[h].at \in InviteSteps BY <1>5 DEF AddMember, At, InviteSteps
  <2>2. Guest(h) \in Users BY <1>0, <2>1, InviteRequest
  <2>3. req'[h].at = "accepted" =>
          req'[h].i = req[h].i /\ member'[Guest(h)] = Offer(h)
    BY <1>0, <1>5, <2>2 DEF AddMember, TypeOK, Idle
  <2>4. req'[h].at \in {"accepted", "idle"}
    BY <1>0, <1>5 DEF AddMember, TypeOK, Idle
  <2>5. invite' = invite BY <1>5 DEF AddMember, fixed
  <2> QED BY <2>3, <2>4, <2>5 DEF Guest, Offer
<1>6. CASE MarkAccepted(h)
  BY <1>0, <1>6 DEF MarkAccepted, RoleOf, TypeOK, IInv, RequestsSound, At
<1>7. CASE GetMemberRole(h)
  BY <1>0, <1>7, RolesAssumption DEF GetMemberRole, RoleOf, TypeOK, table, Idle
<1>8. ASSUME NEW i \in Invites, CreateInvite(h, i) PROVE RequestSound(h)'
  BY <1>0, <1>8 DEF CreateInvite, TypeOK
<1>9. ASSUME NEW u \in Users, GetCachedRole(h, u) PROVE RequestSound(h)'
  BY <1>0, <1>9 DEF GetCachedRole, TypeOK
<1>10. CASE ExecuteWorkflow(h) \/ MarkExpired(h) \/ MarkAlreadyMember(h) \/ SetMemberRole(h) \/ Crash(h)
  BY <1>0, <1>10 DEF ExecuteWorkflow, MarkExpired, MarkAlreadyMember, SetMemberRole, Crash, Idle, TypeOK
<1> QED BY <1>3, <1>4, <1>5, <1>6, <1>7, <1>8, <1>9, <1>10 DEF Request, HandlerStep

(* No step of anybody invalidates what a waiting request has seen. *)
LEMMA RequestsStep == IInv /\ Grows /\ [Next]_vars => RequestsSound'
<1> SUFFICES ASSUME IInv, Grows, [Next]_vars PROVE RequestsSound'
  OBVIOUS
<1>1. CASE req' = req BY <1>1, RequestKept DEF RequestsSound
<1>2. ASSUME NEW h \in Handlers, Request(h) \/ HandlerStep(h) \/ Crash(h) PROVE RequestsSound'
  BY <1>2, RequestMoves
<1>3. ASSUME NEW u \in Users, Workflow(u) PROVE req' = req
  BY <1>3 DEF Workflow, SendEmail, Wake, CheckInviteStatus, ExpireInviteFind, ExpireInviteUpdate
<1>4. ASSUME NEW i \in Invites, Days(i) PROVE req' = req
  BY <1>4 DEF Days
<1>5. CASE ExpireRoles \/ UNCHANGED vars
  BY <1>1, <1>5 DEF ExpireRoles, vars
<1> QED BY <1>1, <1>2, <1>3, <1>4, <1>5 DEF Next

(* Only the second timer takes a workflow to its expiry. *)
LEMMA FlowsStep == IInv /\ Grows /\ [Next]_vars => FlowsDue'
<1> SUFFICES ASSUME IInv, Grows, [Next]_vars, NEW v \in Users, flow'[v].at \in {"expire", "update"}
             PROVE  age'[flow'[v].i] = 2
  BY DEF FlowsDue
<1>0. TypeOK BY DEF IInv
<1>1. CASE flow'[v] = flow[v]
  <2>1. flow[v].i \in Invites BY <1>0, <1>1, FlowInvite DEF FlowSteps
  <2> QED BY <1>1, <2>1 DEF IInv, FlowsDue, Grows
<1>2. ASSUME NEW h \in Handlers, Request(h) \/ HandlerStep(h) \/ Crash(h)
      PROVE  age'[flow'[v].i] = 2
  <2>1. CASE ExecuteWorkflow(h)
    <3>1. flow'[v] = flow[v] \/ flow'[v].at = "mail"
      BY <1>0, <2>1 DEF ExecuteWorkflow, TypeOK
    <3> QED BY <1>1, <3>1
  <2>2. CASE ~ExecuteWorkflow(h)
    BY <1>1, <1>2, <2>2 DEF Request, HandlerStep, Crash, CreateInvite, FindInviteByToken, GetCachedRole,
              MarkExpired, IsMember, MarkAlreadyMember, AddMember, MarkAccepted,
              GetMemberRole, SetMemberRole
  <2> QED BY <2>1, <2>2
<1>3. ASSUME NEW u \in Users, Workflow(u) PROVE age'[flow'[v].i] = 2
  <2>1. CASE u # v
    BY <1>0, <1>1, <1>3, <2>1 DEF Workflow, SendEmail, Wake, CheckInviteStatus, ExpireInviteFind,
       ExpireInviteUpdate, NextInFlow, EndFlow, TypeOK
  <2>2. CASE u = v
    <3>1. age[flow[v].i] = 2 /\ flow'[v].i = flow[v].i /\ age' = age
      BY <1>0, <1>3, <2>2 DEF Workflow, SendEmail, Wake, CheckInviteStatus, ExpireInviteFind,
         ExpireInviteUpdate, NextInFlow, EndFlow, NoFlow, InFlow, TypeOK, IInv, FlowsDue, table
    <3> QED BY <3>1
  <2> QED BY <2>1, <2>2
<1>4. ASSUME NEW i \in Invites, Days(i) PROVE age'[flow'[v].i] = 2
  BY <1>1, <1>4 DEF Days
<1>5. CASE ExpireRoles \/ UNCHANGED vars
  BY <1>1, <1>5 DEF ExpireRoles, vars
<1> QED BY <1>2, <1>3, <1>4, <1>5 DEF Next

(* ACCEPTED is written by a request that saw or inserted the row. *)
LEMMA AcceptedStep == IInv /\ Grows /\ [Next]_vars => AcceptedIsMember'
<1> SUFFICES ASSUME IInv, Grows, [Next]_vars, NEW j \in Invites, status'[j] = "ACCEPTED"
             PROVE  invite[j].user \in Members'
  BY DEF AcceptedIsMember, Grows, Invites
<1>0. TypeOK BY DEF IInv
<1>1. CASE invite[j].user \in Members
  <2>1. invite[j].user \in Users BY <1>0, InviteType
  <2>2. member[invite[j].user] \in Roles BY <1>0, <1>1, <2>1 DEF Members, TypeOK
  <2> QED BY <2>1, <2>2, RolesAssumption DEF Grows, Members
<1>2. CASE status'[j] = status[j]
  BY <1>1, <1>2 DEF IInv, AcceptedIsMember
<1>3. ASSUME NEW h \in Handlers, Request(h) \/ HandlerStep(h) \/ Crash(h)
      PROVE  status'[j] = status[j] \/ invite[j].user \in Members
  <2>1. CASE MarkAlreadyMember(h)
    BY <1>0, <2>1 DEF MarkAlreadyMember, UpdateInviteStatus, TypeOK, IInv, RequestsSound, RequestSound, At, Guest
  <2>2. CASE MarkAccepted(h)
    <3>1. req[h].at = "accepted" BY <2>2 DEF MarkAccepted, At
    <3>2. Guest(h) \in Members
      BY <1>0, <3>1, InviteRequest, RolesAssumption DEF IInv, RequestsSound, RequestSound, Members, InviteSteps
    <3> QED BY <1>0, <2>2, <3>2 DEF MarkAccepted, UpdateInviteStatus, TypeOK, Guest
  <2>3. CASE MarkExpired(h) \/ \E i \in Invites : CreateInvite(h, i)
    BY <1>0, <2>3 DEF MarkExpired, CreateInvite, UpdateInviteStatus, TypeOK
  <2>4. CASE ~(MarkAlreadyMember(h) \/ MarkAccepted(h) \/ MarkExpired(h) \/ \E i \in Invites : CreateInvite(h, i))
    BY <1>3, <2>4 DEF Request, HandlerStep, Crash, FindInviteByToken, GetCachedRole, ExecuteWorkflow,
              IsMember, AddMember, GetMemberRole, SetMemberRole, table
  <2> QED BY <2>1, <2>2, <2>3, <2>4
<1>4. ASSUME NEW u \in Users, Workflow(u) PROVE status'[j] = status[j]
  BY <1>0, <1>4 DEF Workflow, SendEmail, Wake, CheckInviteStatus, ExpireInviteFind, ExpireInviteUpdate,
         UpdateInviteStatus, TypeOK, table
<1>5. CASE ExpireRoles \/ (\E i \in Invites : Days(i)) \/ UNCHANGED vars
  BY <1>2, <1>5 DEF ExpireRoles, Days, vars, table
<1> QED BY <1>1, <1>2, <1>3, <1>4, <1>5 DEF Next

(* EXPIRED is written by a late acceptance or after both timers. *)
LEMMA ExpiredStep == IInv /\ Grows /\ [Next]_vars => ExpiredOnlyAfterDeadline'
<1> SUFFICES ASSUME IInv, Grows, [Next]_vars, NEW j \in Invites, status'[j] = "EXPIRED"
             PROVE  age'[j] = 2
  BY DEF ExpiredOnlyAfterDeadline, Grows, Invites
<1>0. TypeOK BY DEF IInv
<1>1. CASE age[j] = 2
  BY <1>1 DEF Grows
<1>2. CASE status'[j] = status[j]
  BY <1>1, <1>2 DEF IInv, ExpiredOnlyAfterDeadline
<1>3. ASSUME NEW h \in Handlers, Request(h) \/ HandlerStep(h) \/ Crash(h)
      PROVE  status'[j] = status[j] \/ age[j] = 2
  <2>1. CASE MarkExpired(h)
    BY <1>0, <2>1 DEF MarkExpired, UpdateInviteStatus, TypeOK, IInv, RequestsSound, RequestSound, At
  <2>2. CASE MarkAlreadyMember(h) \/ MarkAccepted(h) \/ \E i \in Invites : CreateInvite(h, i)
    BY <1>0, <2>2 DEF MarkAlreadyMember, MarkAccepted, CreateInvite, UpdateInviteStatus, TypeOK
  <2>3. CASE ~(MarkAlreadyMember(h) \/ MarkAccepted(h) \/ MarkExpired(h) \/ \E i \in Invites : CreateInvite(h, i))
    BY <1>3, <2>3 DEF Request, HandlerStep, Crash, FindInviteByToken, GetCachedRole, ExecuteWorkflow,
              IsMember, AddMember, GetMemberRole, SetMemberRole, table
  <2> QED BY <2>1, <2>2, <2>3
<1>4. ASSUME NEW u \in Users, Workflow(u) PROVE status'[j] = status[j] \/ age[j] = 2
  BY <1>0, <1>4 DEF Workflow, SendEmail, Wake, CheckInviteStatus, ExpireInviteFind, ExpireInviteUpdate,
         UpdateInviteStatus, InFlow, TypeOK, table, IInv, FlowsDue
<1>5. CASE ExpireRoles \/ (\E i \in Invites : Days(i)) \/ UNCHANGED vars
  BY <1>2, <1>5 DEF ExpireRoles, Days, vars, table
<1> QED BY <1>1, <1>2, <1>3, <1>4, <1>5 DEF Next

(* A role is cached by a request that has read or inserted it. *)
LEMMA RoleStep == IInv /\ Grows /\ [Next]_vars => RoleSound'
<1> SUFFICES ASSUME IInv, Grows, [Next]_vars, NEW v \in Users, roles'[v] \in Roles
             PROVE  member'[v] = roles'[v]
  BY DEF RoleSound
<1>0. TypeOK BY DEF IInv
<1>1. CASE roles'[v] = roles[v]
  BY <1>1 DEF IInv, RoleSound, Grows
<1>2. ASSUME NEW h \in Handlers, Request(h) \/ HandlerStep(h) \/ Crash(h)
      PROVE  member'[v] = roles'[v]
  <2>1. CASE SetMemberRole(h)
    BY <1>0, <1>1, <2>1 DEF SetMemberRole, At, table, TypeOK, IInv, RequestsSound, RequestSound
  <2>2. CASE ~SetMemberRole(h)
    BY <1>1, <1>2, <2>2 DEF Request, HandlerStep, Crash, CreateInvite, FindInviteByToken, GetCachedRole,
              ExecuteWorkflow, MarkExpired, IsMember, MarkAlreadyMember, AddMember, MarkAccepted,
              GetMemberRole
  <2> QED BY <2>1, <2>2
<1>3. ASSUME NEW u \in Users, Workflow(u) PROVE roles' = roles
  BY <1>3 DEF Workflow, SendEmail, Wake, CheckInviteStatus, ExpireInviteFind, ExpireInviteUpdate
<1>4. CASE ExpireRoles
  BY <1>4, RolesAssumption DEF ExpireRoles
<1>5. CASE (\E i \in Invites : Days(i)) \/ UNCHANGED vars
  BY <1>1, <1>5 DEF Days, vars
<1> QED BY <1>1, <1>2, <1>3, <1>4, <1>5 DEF Next

(* The parts together are preserved by every step. *)
LEMMA StepIInv == IInv /\ [Next]_vars => IInv'
<1> SUFFICES ASSUME IInv, [Next]_vars PROVE IInv'
  OBVIOUS
<1>1. TypeOK BY DEF IInv
<1>2. Grows BY <1>1, NextGrows
<1> QED BY <1>1, <1>2, TypeStep, RequestsStep, FlowsStep, AcceptedStep, ExpiredStep, RoleStep DEF IInv

(* The strengthening holds in every behaviour. *)
LEMMA Inductive == Spec => []IInv
<1> QED BY InitIInv, StepIInv, PTL DEF Spec

(* An invitation marked accepted has its user's row in workspace_members,  *)
(* on both paths of AcceptInvitation, whatever overlaps, fails or crashes. *)
THEOREM AcceptedMembers == Spec => []AcceptedIsMember
<1>1. IInv => AcceptedIsMember BY DEF IInv
<1> QED BY <1>1, Inductive, PTL

(* The cached role of a user is the one in the table, however long before  *)
(* a request read it: that rests on rows never being changed or removed.   *)
THEOREM CachedRolesSound == Spec => []RoleSound
<1>1. IInv => RoleSound BY DEF IInv
<1> QED BY <1>1, Inductive, PTL

(* No invitation is marked as expired before its expires_at, neither by    *)
(* the workflow nor by an acceptance that comes too late.                  *)
THEOREM ExpiredInTime == Spec => []ExpiredOnlyAfterDeadline
<1>1. IInv => ExpiredOnlyAfterDeadline BY DEF IInv
<1> QED BY <1>1, Inductive, PTL

-----------------------------------------------------------------------------
(* Without failures, and with no request under way when a deadline passes: *)
(* those that accept an invitation have time, and those that expire it     *)
(* have seen that nobody had accepted.                                     *)
Accepting == {"isMember", "wasMember", "addMember", "accepted"}

InTime ==
  mode # "free" =>
    /\ \A h \in Handlers : req[h].at \in Accepting => age[req[h].i] # 2
    /\ \A h \in Handlers : req[h].at = "expired" => status[req[h].i] # "ACCEPTED"
    /\ \A u \in Users : flow[u].at = "update" => status[flow[u].i] # "ACCEPTED"

(* One request at a time: a "not a member" that is about to be cached is   *)
(* true, and one that no longer is will be overwritten by the request that *)
(* has inserted the row.                                                   *)
Corrects(h, u) ==
  \/ req[h].at = "accepted" /\ Guest(h) = u
  \/ req[h].at = "setRole" /\ req[h].u = u /\ req[h].role \in Roles

RefusalsDue ==
  mode = "alone" =>
    /\ \A h, g \in Handlers : req[h] # Idle /\ req[g] # Idle => h = g
    /\ \A h \in Handlers :
         req[h].at = "setRole" /\ req[h].role = Negative => req[h].u \notin Members
    /\ \A u \in Members : roles[u] = Negative => \E h \in Handlers : Corrects(h, u)

LEMMA OthersStay ==
  ASSUME TypeOK, NEW h \in Handlers, Request(h) \/ HandlerStep(h) \/ Crash(h)
  PROVE  /\ \A g \in Handlers \ {h} : req'[g] = req[g]
         /\ mode' = mode /\ invite' = invite /\ age' = age
         /\ req[h] = Idle => MayStart(h)
<1>1. \A g \in Handlers \ {h} : req'[g] = req[g]
  BY DEF Request, HandlerStep, Crash, CreateInvite, FindInviteByToken, GetCachedRole,
         ExecuteWorkflow, MarkExpired, IsMember, MarkAlreadyMember, AddMember, MarkAccepted,
         GetMemberRole, SetMemberRole, Step, Go, TypeOK
<1>2. mode' = mode /\ invite' = invite /\ age' = age
  BY DEF Request, HandlerStep, Crash, CreateInvite, FindInviteByToken, GetCachedRole,
         ExecuteWorkflow, MarkExpired, IsMember, MarkAlreadyMember, AddMember, MarkAccepted,
         GetMemberRole, SetMemberRole, fixed, table
<1>3. req[h] = Idle => MayStart(h)
  <2>1. HandlerStep(h) => req[h].at # "idle"
    BY DEF HandlerStep, ExecuteWorkflow, MarkExpired, IsMember, MarkAlreadyMember, AddMember,
           MarkAccepted, GetMemberRole, SetMemberRole, At
  <2>2. Request(h) => MayStart(h)
    BY DEF Request, CreateInvite, FindInviteByToken, GetCachedRole
  <2>3. Crash(h) => req[h] # Idle BY DEF Crash
  <2>4. Idle.at = "idle" BY DEF Idle
  <2> QED BY <2>1, <2>2, <2>3, <2>4
<1> QED BY <1>1, <1>2, <1>3

(* How a request comes to be accepting an invitation, or expiring it.      *)
LEMMA RequestOrigin ==
  ASSUME TypeOK, NEW h \in Handlers, Request(h) \/ HandlerStep(h) \/ Crash(h)
  PROVE  /\ req'[h].at \in Accepting =>
              /\ req'[h].i \in Invites
              /\ \/ req[h].at \in Accepting /\ req'[h].i = req[h].i
                 \/ age[req'[h].i] # 2
         /\ req'[h].at = "expired" =>
              req'[h].i \in Invites /\ status[req'[h].i] = "PENDING" /\ status' = status
<1>h. \A r : Go(h, r) => req'[h] = r BY DEF Go, TypeOK
<1>s. \A step : Step(h, step) => req'[h].at = step /\ req'[h].i = req[h].i
  BY <1>h DEF Step
<1>i. Idle.at = "idle" BY DEF Idle
<1>1. CASE \E i \in Invites : CreateInvite(h, i)
  BY <1>1, <1>h DEF CreateInvite, Accepting
<1>2. ASSUME NEW i \in Invites, FindInviteByToken(h, i)
      PROVE  /\ req'[h].i = i /\ status[i] = "PENDING" /\ status' = status
             /\ req'[h].at \in Accepting => age[i] # 2
  BY <1>2, <1>h DEF FindInviteByToken, Accepting, table
<1>3. CASE \E u \in Users : GetCachedRole(h, u)
  BY <1>3, <1>h DEF GetCachedRole, Accepting
<1>4. CASE ExecuteWorkflow(h) \/ MarkExpired(h) \/ MarkAlreadyMember(h) \/ SetMemberRole(h) \/ Crash(h)
  BY <1>4, <1>h, <1>i DEF ExecuteWorkflow, MarkExpired, MarkAlreadyMember, SetMemberRole, Crash, Accepting
<1>5. CASE IsMember(h) \/ AddMember(h)
  <2>1. req[h].at \in Accepting BY <1>5 DEF IsMember, AddMember, At, Accepting
  <2>2. req[h].i \in Invites BY <2>1, InviteRequest DEF Accepting, InviteSteps
  <2>3. CASE \E step : Step(h, step) /\ step # "expired"
    BY <1>s, <2>1, <2>2, <2>3
  <2>4. CASE Go(h, Idle) BY <1>h, <1>i, <2>4 DEF Accepting
  <2> QED BY <1>5, <2>3, <2>4 DEF IsMember, AddMember
<1>6. CASE MarkAccepted(h) \/ GetMemberRole(h)
  BY <1>6, <1>h, <1>i DEF MarkAccepted, GetMemberRole, RoleOf, Accepting
<1> QED BY <1>1, <1>2, <1>3, <1>4, <1>5, <1>6 DEF Request, HandlerStep

(* Who writes a status, and what it knows of the invitation.               *)
LEMMA StatusWriters ==
  ASSUME IInv, [Next]_vars, NEW i \in Invites
  PROVE  \/ status'[i] = status[i]
         \/ status[i] = "none" /\ status'[i] = "PENDING"
         \/ /\ status'[i] = "ACCEPTED"
            /\ \E h \in Handlers : req[h].at \in Accepting /\ req[h].i = i
         \/ /\ status'[i] = "EXPIRED" /\ age[i] = 2
            /\ \/ \E h \in Handlers : req[h].at = "expired" /\ req[h].i = i
               \/ \E u \in Users : flow[u].at = "update" /\ flow[u].i = i
<1>0. TypeOK /\ RequestsSound /\ FlowsDue BY DEF IInv
<1>1. ASSUME NEW h \in Handlers, Request(h) \/ HandlerStep(h) \/ Crash(h)
      PROVE  \/ status'[i] = status[i]
             \/ status[i] = "none" /\ status'[i] = "PENDING"
             \/ status'[i] = "ACCEPTED" /\ req[h].at \in Accepting /\ req[h].i = i
             \/ status'[i] = "EXPIRED" /\ age[i] = 2 /\ req[h].at = "expired" /\ req[h].i = i
  <2>1. CASE MarkExpired(h)
    BY <1>0, <2>1 DEF MarkExpired, UpdateInviteStatus, TypeOK, RequestsSound, RequestSound, At
  <2>2. CASE MarkAlreadyMember(h) \/ MarkAccepted(h)
    BY <1>0, <2>2 DEF MarkAlreadyMember, MarkAccepted, UpdateInviteStatus, TypeOK, At, Accepting
  <2>3. CASE \E j \in Invites : CreateInvite(h, j)
    BY <1>0, <2>3 DEF CreateInvite, TypeOK
  <2>4. CASE ~(MarkAlreadyMember(h) \/ MarkAccepted(h) \/ MarkExpired(h) \/ \E j \in Invites : CreateInvite(h, j))
    BY <1>1, <2>4 DEF Request, HandlerStep, Crash, FindInviteByToken, GetCachedRole, ExecuteWorkflow,
              IsMember, AddMember, GetMemberRole, SetMemberRole, table
  <2> QED BY <2>1, <2>2, <2>3, <2>4
<1>2. ASSUME NEW u \in Users, Workflow(u)
      PROVE  \/ status'[i] = status[i]
             \/ status'[i] = "EXPIRED" /\ age[i] = 2 /\ flow[u].at = "update" /\ flow[u].i = i
  BY <1>0, <1>2 DEF Workflow, SendEmail, Wake, CheckInviteStatus, ExpireInviteFind, ExpireInviteUpdate,
         UpdateInviteStatus, InFlow, TypeOK, table, FlowsDue
<1>3. CASE ExpireRoles \/ (\E j \in Invites : Days(j)) \/ UNCHANGED vars
  BY <1>3 DEF ExpireRoles, Days, vars, table
<1> QED BY <1>1, <1>2, <1>3 DEF Next

(* What is accepted or expired stays so. *)
Final == \A i \in Invites : status[i] \in {"ACCEPTED", "EXPIRED"} => status'[i] = status[i]

(* Only an invitation that is not past its deadline gets accepted. *)
LEMMA AcceptedInTime ==
  ASSUME IInv, InTime, [Next]_vars, mode # "free", NEW i \in Invites,
         status'[i] = "ACCEPTED", status[i] # "ACCEPTED"
  PROVE  age[i] # 2
BY StatusWriters DEF InTime

LEMMA StatusKept == IInv /\ InTime /\ [Next]_vars /\ mode # "free" => Final
<1> SUFFICES ASSUME IInv, InTime, [Next]_vars, mode # "free",
                    NEW i \in Invites, status[i] \in {"ACCEPTED", "EXPIRED"}
             PROVE  status'[i] = status[i]
  BY DEF Final
<1>1. CASE status[i] = "ACCEPTED" BY <1>1, StatusWriters DEF InTime
<1>2. CASE status[i] = "EXPIRED"
  <2>1. age[i] = 2 BY <1>2 DEF IInv, ExpiredOnlyAfterDeadline
  <2>2. status'[i] # "ACCEPTED" BY <1>2, <2>1, AcceptedInTime
  <2> QED BY <1>2, <2>2, StatusWriters
<1> QED BY <1>1, <1>2

LEMMA InTimeStep == IInv /\ InTime /\ [Next]_vars => InTime'
<1> SUFFICES ASSUME IInv, InTime, [Next]_vars, mode # "free" PROVE InTime'
  <2>1. TypeOK /\ [Next]_vars => mode' = mode
    BY OthersStay DEF Next, Workflow, SendEmail, Wake, CheckInviteStatus, ExpireInviteFind,
       ExpireInviteUpdate, Days, ExpireRoles, vars, fixed
  <2> QED BY <2>1 DEF InTime, IInv
<1>0. TypeOK BY DEF IInv
<1>a. /\ \A h \in Handlers : req[h].at \in Accepting => age[req[h].i] # 2
      /\ \A h \in Handlers : req[h].at = "expired" => status[req[h].i] # "ACCEPTED"
      /\ \A u \in Users : flow[u].at = "update" => status[flow[u].i] # "ACCEPTED"
  BY DEF InTime
<1>b. \A h \in Handlers : req[h].at \in Accepting \cup {"expired"} => req[h].i \in Invites
  BY <1>0, InviteRequest DEF Accepting, InviteSteps
<1>c. \A i \in Invites : age[i] = 2 => status'[i] # "ACCEPTED" \/ status[i] = "ACCEPTED"
  BY AcceptedInTime
<1>1. CASE ~AllIdle => age' = age
  <2>1. ASSUME NEW h \in Handlers, req'[h].at \in Accepting PROVE age'[req'[h].i] # 2
    <3>1. CASE req'[h] = req[h]
      BY <1>1, <1>a, <2>1, <3>1 DEF AllIdle, Idle, Accepting
    <3>2. CASE Request(h) \/ HandlerStep(h) \/ Crash(h)
      BY <1>0, <1>a, <2>1, <3>2, RequestOrigin, OthersStay
    <3> QED BY <1>0, <3>1, <3>2, OthersStay DEF Next, Workflow, SendEmail, Wake, CheckInviteStatus,
               ExpireInviteFind, ExpireInviteUpdate, Days, ExpireRoles, vars
  <2>2. ASSUME NEW h \in Handlers, req'[h].at = "expired" PROVE status'[req'[h].i] # "ACCEPTED"
    <3>1. CASE req'[h] = req[h]
      <4>1. age[req[h].i] = 2 BY <2>2, <3>1 DEF IInv, RequestsSound, RequestSound
      <4> QED BY <1>a, <1>b, <1>c, <2>2, <3>1, <4>1
    <3>2. CASE Request(h) \/ HandlerStep(h) \/ Crash(h)
      BY <1>0, <2>2, <3>2, RequestOrigin
    <3> QED BY <1>0, <3>1, <3>2, OthersStay DEF Next, Workflow, SendEmail, Wake, CheckInviteStatus,
               ExpireInviteFind, ExpireInviteUpdate, Days, ExpireRoles, vars
  <2>3. ASSUME NEW u \in Users, flow'[u].at = "update" PROVE status'[flow'[u].i] # "ACCEPTED"
    <3>1. CASE flow'[u] = flow[u]
      <4>1. age[flow[u].i] = 2 BY <2>3, <3>1 DEF IInv, FlowsDue
      <4>2. flow[u].i \in Invites BY <1>0, <2>3, <3>1, FlowInvite DEF FlowSteps
      <4> QED BY <1>a, <1>c, <2>3, <3>1, <4>1, <4>2
    <3>2. CASE ExpireInviteFind(u) /\ status[flow[u].i] = "PENDING" /\ NextInFlow(u, "update")
      BY <1>0, <3>2 DEF ExpireInviteFind, NextInFlow, table, TypeOK
    <3>3. CASE \E h \in Handlers : Request(h) \/ HandlerStep(h) \/ Crash(h)
      <4>1. PICK h \in Handlers : Request(h) \/ HandlerStep(h) \/ Crash(h) BY <3>3
      <4>2. flow'[u] = flow[u] \/ flow'[u].at = "mail"
        <5>1. CASE ExecuteWorkflow(h) BY <1>0, <5>1 DEF ExecuteWorkflow, TypeOK
        <5>2. CASE ~ExecuteWorkflow(h)
          BY <4>1, <5>2 DEF Request, HandlerStep, Crash, CreateInvite, FindInviteByToken, GetCachedRole,
             MarkExpired, IsMember, MarkAlreadyMember, AddMember, MarkAccepted,
             GetMemberRole, SetMemberRole
        <5> QED BY <5>1, <5>2
      <4> QED BY <2>3, <3>1, <4>2
    <3>4. CASE \E v \in Users : Workflow(v)
      <4>1. PICK v \in Users : Workflow(v) BY <3>4
      <4>2. CASE v # u
        <5>1. flow'[u] = flow[u]
          BY <1>0, <4>1, <4>2 DEF Workflow, SendEmail, Wake, CheckInviteStatus, ExpireInviteFind,
             ExpireInviteUpdate, NextInFlow, EndFlow, TypeOK
        <5> QED BY <3>1, <5>1
      <4>3. CASE v = u
        <5>1. \A step : NextInFlow(u, step) => flow'[u].at = step
          BY <1>0 DEF NextInFlow, TypeOK
        <5>2. EndFlow(u) => flow'[u].at = "none" BY <1>0 DEF EndFlow, NoFlow, TypeOK
        <5> QED BY <2>3, <3>2, <4>1, <4>3, <5>1, <5>2 DEF Workflow, SendEmail, Wake,
               CheckInviteStatus, ExpireInviteFind, ExpireInviteUpdate
      <4> QED BY <4>2, <4>3
    <3> QED BY <3>1, <3>3, <3>4 DEF Next, Days, ExpireRoles, vars
  <2> QED BY <2>1, <2>2, <2>3 DEF InTime
<1>2. CASE ~(~AllIdle => age' = age)
  <2>1. \A i \in Invites : ~Days(i) BY <1>2 DEF Days, Quiet
  <2> QED BY <1>0, <1>2, <2>1, OthersStay DEF Next, Workflow, SendEmail, Wake, CheckInviteStatus,
             ExpireInviteFind, ExpireInviteUpdate, ExpireRoles, vars, table
<1> QED BY <1>1, <1>2

LEMMA InitInTime == Init => InTime
BY DEF Init, InTime, Accepting, Idle, NoFlow

(* Requests overlap and workflows run, but nothing fails and no request    *)
(* spans a deadline: an accepted or expired invitation is never written    *)
(* again with another status, although no writer looks at the old one.     *)
THEOREM StatusIsFinal == Spec => StatusFinal
<1>1. IInv /\ InTime /\ [Next]_vars =>
        [mode # "free" =>
           \A i \in Invites : status[i] \in {"ACCEPTED", "EXPIRED"} => status'[i] = status[i]]_vars
  BY StatusKept DEF Final
<1> QED BY <1>1, Inductive, InitInTime, InTimeStep, PTL DEF Spec, StatusFinal

-----------------------------------------------------------------------------
(* One request at a time. *)

(* A step of a request, where the others are idle and nothing fails: which *)
(* rows, cached roles and corrections it may add.                          *)
LEMMA AloneStep ==
  ASSUME TypeOK, mode = "alone", NEW h \in Handlers, Request(h) \/ HandlerStep(h) \/ Crash(h)
  PROVE  /\ \A u \in Users : u \in Members' =>
              u \in Members \/ (req'[h].at = "accepted" /\ Guest(h)' = u)
         /\ \A u \in Users : roles'[u] = Negative /\ roles[u] # Negative =>
              req[h].at = "setRole" /\ req[h].u = u /\ req[h].role = Negative /\ Members' = Members
         /\ req'[h].at = "setRole" /\ req'[h].role = Negative => req'[h].u \notin Members'
         /\ \A u \in Users : Corrects(h, u) => Corrects(h, u)' \/ roles'[u] # Negative
<1> DEFINE Goal ==
      /\ \A u \in Users : u \in Members' =>
           u \in Members \/ (req'[h].at = "accepted" /\ Guest(h)' = u)
      /\ \A u \in Users : roles'[u] = Negative /\ roles[u] # Negative =>
           req[h].at = "setRole" /\ req[h].u = u /\ req[h].role = Negative /\ Members' = Members
      /\ req'[h].at = "setRole" /\ req'[h].role = Negative => req'[h].u \notin Members'
      /\ \A u \in Users : Corrects(h, u) => Corrects(h, u)' \/ roles'[u] # Negative
<1>h. \A r : Go(h, r) => req'[h] = r BY DEF Go, TypeOK
<1>s. \A step : Step(h, step) => req'[h].at = step /\ req'[h].i = req[h].i
  BY <1>h DEF Step
<1>i. Idle.at = "idle" BY DEF Idle
<1>f. ~MayFail BY DEF MayFail
<1>v. invite' = invite BY OthersStay
<1>1. ASSUME member' = member, roles' = roles, req[h].at \notin {"accepted", "setRole"},
             req'[h].at # "setRole"
      PROVE  Goal
  BY <1>1 DEF Members, Corrects
<1>2. CASE \E i \in Invites : CreateInvite(h, i) \/ FindInviteByToken(h, i)
  BY <1>1, <1>2, <1>h, <1>i DEF CreateInvite, FindInviteByToken, MayStart, table
<1>3. CASE \E u \in Users : GetCachedRole(h, u)
  BY <1>1, <1>3, <1>h, <1>i DEF GetCachedRole, MayStart, table
<1>4. CASE ExecuteWorkflow(h) \/ MarkExpired(h) \/ IsMember(h) \/ MarkAlreadyMember(h)
  BY <1>1, <1>4, <1>h, <1>i, <1>s
  DEF ExecuteWorkflow, MarkExpired, IsMember, MarkAlreadyMember, At, table
<1>5. CASE AddMember(h)
  <2>1. req[h].at = "addMember" /\ roles' = roles BY <1>5 DEF AddMember, At
  <2>2. Guest(h) \in Users /\ Offer(h) \in Roles BY <2>1, InviteRequest DEF InviteSteps
  <2>3. CASE Guest(h) \in Members
    BY <1>1, <1>5, <1>h, <1>i, <2>1, <2>3 DEF AddMember
  <2>4. CASE Guest(h) \notin Members
    <3>1. member' = [member EXCEPT ![Guest(h)] = Offer(h)] /\ Step(h, "accepted")
      BY <1>5, <1>f, <2>4 DEF AddMember
    <3>2. req'[h].at = "accepted" /\ Guest(h)' = Guest(h)
      BY <1>s, <1>v, <3>1 DEF Guest
    <3>3. \A u \in Users : u # Guest(h) => member'[u] = member[u] BY <3>1 DEF TypeOK
    <3> QED BY <2>1, <3>2, <3>3 DEF Members, Corrects
  <2> QED BY <2>3, <2>4
<1>6. CASE MarkAccepted(h)
  <2>1. req[h].at = "accepted" /\ roles' = roles /\ member' = member
    BY <1>6 DEF MarkAccepted, At
  <2>2. Guest(h) \in Users /\ Offer(h) \in Roles BY <2>1, InviteRequest DEF InviteSteps
  <2>3. req'[h] = RoleOf(Guest(h), Offer(h)) BY <1>6, <1>h DEF MarkAccepted
  <2>4. req'[h].at = "setRole" /\ req'[h].u = Guest(h) /\ req'[h].role \in Roles
    BY <2>2, <2>3 DEF RoleOf
  <2>5. req'[h].role # Negative BY <2>4, RolesAssumption
  <2> QED BY <2>1, <2>4, <2>5 DEF Members, Corrects
<1>7. CASE GetMemberRole(h)
  <2>1. req[h].at = "getRole" /\ roles' = roles /\ member' = member
    BY <1>7 DEF GetMemberRole, At, table
  <2>2. req[h].u \in Users BY <2>1, RoleRequest
  <2>3. CASE req[h].u \in Members
    <3>1. req'[h] = RoleOf(req[h].u, member[req[h].u]) BY <1>7, <1>h, <2>3 DEF GetMemberRole
    <3>2. req'[h].role = member[req[h].u] BY <3>1 DEF RoleOf
    <3>3. member[req[h].u] # Negative BY <2>2, <2>3, RolesAssumption DEF Members, TypeOK
    <3> QED BY <2>1, <3>2, <3>3 DEF Members, Corrects
  <2>4. CASE req[h].u \notin Members
    <3>1. req'[h] = RoleOf(req[h].u, Negative) \/ req'[h] = Idle
      BY <1>7, <1>h, <2>4 DEF GetMemberRole
    <3>2. req'[h].at = "setRole" => req'[h].u = req[h].u BY <1>i, <3>1 DEF RoleOf
    <3> QED BY <2>1, <2>4, <3>2 DEF Members, Corrects
  <2> QED BY <2>3, <2>4
<1>8. CASE SetMemberRole(h)
  <2>1. /\ req[h].at = "setRole" /\ member' = member /\ req'[h].at = "idle"
        /\ roles' = [roles EXCEPT ![req[h].u] = req[h].role]
    BY <1>8, <1>f, <1>h, <1>i DEF SetMemberRole, At, table
  <2>2. req[h].u \in Users BY <2>1, RoleRequest
  <2>3. \A u \in Users : roles'[u] = IF u = req[h].u THEN req[h].role ELSE roles[u]
    BY <2>1 DEF TypeOK
  <2> QED BY <2>1, <2>3, RolesAssumption DEF Members, Corrects
<1>9. ~Crash(h) BY <1>f DEF Crash
<1> QED BY <1>2, <1>3, <1>4, <1>5, <1>6, <1>7, <1>8, <1>9 DEF Request, HandlerStep

LEMMA RefusalsStep == TypeOK /\ RefusalsDue /\ [Next]_vars => RefusalsDue'
<1> SUFFICES ASSUME TypeOK, RefusalsDue, [Next]_vars, mode = "alone" PROVE RefusalsDue'
  <2>1. TypeOK /\ [Next]_vars => mode' = mode
    BY OthersStay DEF Next, Workflow, SendEmail, Wake, CheckInviteStatus, ExpireInviteFind,
       ExpireInviteUpdate, Days, ExpireRoles, vars, fixed
  <2> QED BY <2>1 DEF RefusalsDue
<1>0. /\ \A h, g \in Handlers : req[h] # Idle /\ req[g] # Idle => h = g
      /\ \A h \in Handlers :
           req[h].at = "setRole" /\ req[h].role = Negative => req[h].u \notin Members
      /\ \A u \in Members : roles[u] = Negative => \E h \in Handlers : Corrects(h, u)
  BY DEF RefusalsDue
<1>1. ASSUME NEW h \in Handlers, Request(h) \/ HandlerStep(h) \/ Crash(h) PROVE RefusalsDue'
  <2>1. \A g \in Handlers \ {h} : req'[g] = req[g] /\ req[g] = Idle
    BY <1>0, <1>1, OthersStay DEF MayStart, AllIdle
  <2>2. \A f, g \in Handlers : req'[f] # Idle /\ req'[g] # Idle => f = g BY <2>1
  <2>3. \A g \in Handlers :
          req'[g].at = "setRole" /\ req'[g].role = Negative => req'[g].u \notin Members'
    BY <1>1, <2>1, AloneStep DEF Idle
  <2>4. ASSUME NEW u \in Members', roles'[u] = Negative
        PROVE  \E g \in Handlers : Corrects(g, u)'
    <3>1. u \in Users BY DEF Members
    <3>2. CASE u \notin Members
      <4>1. req'[h].at = "accepted" /\ Guest(h)' = u BY <1>1, <3>1, <3>2, AloneStep
      <4> QED BY <4>1 DEF Corrects
    <3>3. CASE u \in Members /\ roles[u] = Negative
      <4>1. PICK g \in Handlers : Corrects(g, u) BY <1>0, <3>3
      <4>2. g = h BY <2>1, <4>1 DEF Corrects, Idle
      <4> QED BY <1>1, <2>4, <3>1, <4>1, <4>2, AloneStep
    <3>4. CASE u \in Members /\ roles[u] # Negative
      BY <1>0, <1>1, <2>4, <3>1, <3>4, AloneStep
    <3> QED BY <3>2, <3>3, <3>4
  <2> QED BY <2>2, <2>3, <2>4 DEF RefusalsDue
<1>2. CASE UNCHANGED <<invite, member, req>> /\ (roles' = roles \/ \A u \in Users : roles'[u] = NoRole)
  BY <1>0, <1>2 DEF RefusalsDue, Members, Corrects, Guest, NoRole, Negative
<1> QED BY <1>1, <1>2 DEF Next, Workflow, SendEmail, Wake, CheckInviteStatus, ExpireInviteFind,
           ExpireInviteUpdate, Days, ExpireRoles, vars, fixed, table

LEMMA InitRefusals == Init => RefusalsDue
BY DEF Init, RefusalsDue, Members, Idle

(* One request at a time: once the acceptance that made somebody a member  *)
(* has ended, the cache does not say "not a member", whoever asked before  *)
(* and whatever has expired.                                               *)
THEOREM NoRefusalStays == Spec => []NoStaleRefusal
<1>1. RefusalsDue => NoStaleRefusal
  BY DEF RefusalsDue, NoStaleRefusal, AllIdle, Corrects, Idle
<1> QED BY <1>1, TypeCorrect, InitRefusals, RefusalsStep, PTL DEF Spec
=============================================================================
