----------------------------- MODULE Membership -----------------------------
(***************************************************************************)
(* Membership of one workspace: invitations and the Temporal workflow that *)
(* mails, reminds and expires them, their acceptance, and the hash in      *)
(* Redis that answers "which role has this user here".                     *)
(*                                                                         *)
(* Each call to PostgreSQL, Redis or Temporal is a step.  Users are those  *)
(* other than the owner, whose rights need no row.  AcceptInvitation also  *)
(* extends two cached lists: those steps, from the inserted row on, are    *)
(* the creations of the lists "joined" and "members" in WorkspaceLists.    *)
(***************************************************************************)
EXTENDS Integers

CONSTANTS
  Users,
  Roles,     \* "ADMIN", "MEMBER", "VIEWER"
  Scenarios, \* what invitations there may be, and how requests overlap
  Requests   \* bound: requests that may be under way at once

Handlers == 1 .. Requests
NoRole   == "none"           \* no row, or no field in the hash
Negative == ""               \* the cached answer "not a member"

ASSUME RolesAssumption == NoRole \notin Roles /\ Negative \notin Roles
ASSUME ScenariosAssumption ==
  \A s \in Scenarios :
    /\ s.mode \in {"alone", "prompt", "free"}
    /\ s.invite \in [DOMAIN s.invite -> [user : Users, role : Roles]]
ASSUME RequestsAssumption == Requests \in Nat

VARIABLES
  mode,     \* how requests overlap in this behaviour
  invite,   \* invite[i]: the user its e-mail belongs to, and the role offered
  status,   \* status[i] in workspace_invitations, "none" before the insert
  age,      \* age[i]: 0, 1 once 10 days have passed, 2 past expires_at
  member,   \* member[u]: the role in workspace_members, or NoRole
  flow,     \* flow[u]: the workflow whose ID is made of u's e-mail
  roles,    \* workspace:<id>:roles
  req       \* req[h]: what handler h is doing

fixed == <<mode, invite>>
table == <<status, age, member>>
vars  == <<fixed, table, flow, roles, req>>

Invites == DOMAIN invite
Idle   == [at |-> "idle"]
NoFlow == [at |-> "none"]
AllIdle == \A h \in Handlers : req[h] = Idle
Members == {u \in Users : member[u] # NoRole}

Init ==
  /\ \E s \in Scenarios : mode = s.mode /\ invite = s.invite
  /\ status = [i \in Invites |-> "none"] /\ age = [i \in Invites |-> 0]
  /\ member = [u \in Users |-> NoRole] /\ flow = [u \in Users |-> NoFlow]
  /\ roles = [u \in Users |-> NoRole]
  /\ req = [h \in Handlers |-> Idle]

(* "alone": one request at a time.  "prompt": requests overlap, but none   *)
(* is under way when an invitation's deadline passes or a key expires.     *)
(* "free": none of that, any call may fail and a process may crash.        *)
MayStart(h) ==
  /\ req[h] = Idle
  /\ \A g \in Handlers : g < h => req[g] # Idle
  /\ mode = "alone" => AllIdle

MayFail == mode = "free"
Quiet   == AllIdle \/ mode = "free"

At(h, step) == req[h].at = step
Go(h, r) == req' = [req EXCEPT ![h] = r]
Step(h, step) == Go(h, [at |-> step, i |-> req[h].i])
Guest(h) == invite[req[h].i].user
Offer(h) == invite[req[h].i].role

(* UPDATE workspace_invitations SET status: whatever the status was.       *)
UpdateInviteStatus(i, s) == status' = [status EXCEPT ![i] = s]

-----------------------------------------------------------------------------
(* InviteUser: the row, then the workflow.  If the second call fails the   *)
(* inviter gets an error and the row stays.                                *)

CreateInvite(h, i) ==
  /\ MayStart(h) /\ status[i] = "none"
  /\ status' = [status EXCEPT ![i] = "PENDING"]
  /\ Go(h, [at |-> "execute", i |-> i])
  /\ UNCHANGED <<fixed, age, member, flow, roles>>

(* The ID of the workflow holds the e-mail only: while one runs, Temporal  *)
(* answers with it and starts no other.                                    *)
ExecuteWorkflow(h) ==
  /\ At(h, "execute")
  /\ IF flow[Guest(h)] = NoFlow
     THEN \/ flow' = [flow EXCEPT ![Guest(h)] = [at |-> "mail", i |-> req[h].i]]
          \/ MayFail /\ UNCHANGED flow
     ELSE UNCHANGED flow
  /\ Go(h, Idle)
  /\ UNCHANGED <<fixed, table, roles>>

-----------------------------------------------------------------------------
(* AcceptInvitation, by the user the invitation was sent to. *)

FindInviteByToken(h, i) ==
  /\ MayStart(h) /\ status[i] = "PENDING"
  /\ Go(h, [at |-> IF age[i] = 2 THEN "expired" ELSE "isMember", i |-> i])
  /\ UNCHANGED <<fixed, table, flow, roles>>

MarkExpired(h) ==
  /\ At(h, "expired")
  /\ UpdateInviteStatus(req[h].i, "EXPIRED") \/ (MayFail /\ UNCHANGED status)
  /\ Go(h, Idle)
  /\ UNCHANGED <<fixed, age, member, flow, roles>>

(* A failing query counts as "not a member".                               *)
IsMember(h) ==
  /\ At(h, "isMember")
  /\ \/ Step(h, IF Guest(h) \in Members THEN "wasMember" ELSE "addMember")
     \/ MayFail /\ Step(h, "addMember")
  /\ UNCHANGED <<fixed, table, flow, roles>>

MarkAlreadyMember(h) ==
  /\ At(h, "wasMember")
  /\ UpdateInviteStatus(req[h].i, "ACCEPTED") \/ (MayFail /\ UNCHANGED status)
  /\ Go(h, Idle)
  /\ UNCHANGED <<fixed, age, member, flow, roles>>

(* Mistake: an insert that finds the row updates its role.                 *)
AddMemberUpserts(h) ==
  /\ At(h, "addMember")
  /\ member' = [member EXCEPT ![Guest(h)] = Offer(h)] /\ Step(h, "accepted")
  /\ UNCHANGED <<fixed, status, age, flow, roles>>

(* Mistake: the error of the insert is only logged.                        *)
AddMemberIgnoringErrors(h) ==
  /\ At(h, "addMember") /\ Step(h, "accepted")
  /\ IF Guest(h) \in Members THEN UNCHANGED member
     ELSE \/ member' = [member EXCEPT ![Guest(h)] = Offer(h)]
          \/ MayFail /\ UNCHANGED member
  /\ UNCHANGED <<fixed, status, age, flow, roles>>

(* The row is unique for a user: of two acceptances the later one fails.   *)
AddMember(h) ==
  /\ At(h, "addMember")
  /\ IF Guest(h) \in Members
     THEN UNCHANGED member /\ Go(h, Idle)
     ELSE \/ member' = [member EXCEPT ![Guest(h)] = Offer(h)] /\ Step(h, "accepted")
          \/ MayFail /\ UNCHANGED member /\ Go(h, Idle)
  /\ UNCHANGED <<fixed, status, age, flow, roles>>

RoleOf(u, role) == [at |-> "setRole", u |-> u, role |-> role]

MarkAccepted(h) ==
  /\ At(h, "accepted")
  /\ UpdateInviteStatus(req[h].i, "ACCEPTED") \/ (MayFail /\ UNCHANGED status)
  /\ Go(h, RoleOf(Guest(h), Offer(h)))
  /\ UNCHANGED <<fixed, age, member, flow, roles>>

-----------------------------------------------------------------------------
(* A user's role: checkAccess of tasks, which also caches that a user is   *)
(* no member; getMemberRole of projects and GetWorkspaceMembers, which do  *)
(* not.  All look into the hash first.  If it is there, a missing field is *)
(* an answer: "not a member".                                              *)
HashExists == \E u \in Users : roles[u] # NoRole
Admitted(u) == ~HashExists \/ roles[u] \in Roles

GetCachedRole(h, u) ==
  /\ MayStart(h)
  /\ ~HashExists \/ MayFail
  /\ Go(h, [at |-> "getRole", u |-> u])
  /\ UNCHANGED <<fixed, table, flow, roles>>

(* Mistake: what a query without rows leaves in the variable is cached.    *)
GetMemberRoleUnchecked(h) ==
  /\ At(h, "getRole")
  /\ Go(h, RoleOf(req[h].u, member[req[h].u]))
  /\ UNCHANGED <<fixed, table, flow, roles>>

GetMemberRole(h) ==
  LET u == req[h].u IN
  /\ At(h, "getRole")
  /\ \/ u \in Members /\ Go(h, RoleOf(u, member[u]))
     \/ u \notin Members /\ (Go(h, RoleOf(u, Negative)) \/ Go(h, Idle))
  /\ UNCHANGED <<fixed, table, flow, roles>>

(* Mistake: HSETNX leaves a field that is there.                           *)
SetMemberRoleOnce(h) ==
  /\ At(h, "setRole")
  /\ roles' = [roles EXCEPT ![req[h].u] = IF @ = NoRole THEN req[h].role ELSE @]
  /\ Go(h, Idle)
  /\ UNCHANGED <<fixed, table, flow>>

SetMemberRole(h) ==
  /\ At(h, "setRole")
  /\ roles' = [roles EXCEPT ![req[h].u] = req[h].role] \/ (MayFail /\ UNCHANGED roles)
  /\ Go(h, Idle)
  /\ UNCHANGED <<fixed, table, flow>>

(* A request that is cut off, by a crash or by the client, is not resumed. *)
Crash(h) ==
  /\ MayFail /\ req[h] # Idle
  /\ Go(h, Idle)
  /\ UNCHANGED <<fixed, table, flow, roles>>

-----------------------------------------------------------------------------
(* InviteUserWorkflow.  Temporal resumes it after a crash, so only an      *)
(* activity whose five attempts fail ends it early.                        *)

InFlow(u, step) == flow[u].at = step
NextInFlow(u, step) == flow' = [flow EXCEPT ![u] = [at |-> step, i |-> flow[u].i]]
EndFlow(u) == flow' = [flow EXCEPT ![u] = NoFlow]

(* Mistake: the reminder's activity is followed by the expiry.             *)
ActivityWithoutSecondSleep(u) ==
  /\ \/ InFlow(u, "mail") /\ (NextInFlow(u, "sleep10") \/ (MayFail /\ EndFlow(u)))
     \/ InFlow(u, "remind") /\ (NextInFlow(u, "expire") \/ (MayFail /\ EndFlow(u)))
  /\ UNCHANGED <<fixed, table, roles, req>>

(* Mistake: the reminder is the workflow's last step.                      *)
SendEmailLast(u) ==
  /\ \/ InFlow(u, "mail") /\ (NextInFlow(u, "sleep10") \/ (MayFail /\ EndFlow(u)))
     \/ InFlow(u, "remind") /\ EndFlow(u)
  /\ UNCHANGED <<fixed, table, roles, req>>

SendEmail(u) ==
  /\ \/ InFlow(u, "mail") /\ (NextInFlow(u, "sleep10") \/ (MayFail /\ EndFlow(u)))
     \/ InFlow(u, "remind") /\ (NextInFlow(u, "sleep4") \/ (MayFail /\ EndFlow(u)))
  /\ UNCHANGED <<fixed, table, roles, req>>

(* The timers start after the row was written and the mail was sent.       *)
Wake(u) ==
  /\ \/ InFlow(u, "sleep10") /\ age[flow[u].i] > 0 /\ NextInFlow(u, "check")
     \/ InFlow(u, "sleep4") /\ age[flow[u].i] = 2 /\ NextInFlow(u, "expire")
  /\ UNCHANGED <<fixed, table, roles, req>>

CheckInviteStatus(u) ==
  /\ InFlow(u, "check")
  /\ \/ status[flow[u].i] = "PENDING" /\ NextInFlow(u, "remind")
     \/ (status[flow[u].i] # "PENDING" \/ MayFail) /\ EndFlow(u)
  /\ UNCHANGED <<fixed, table, roles, req>>

(* Mistake: the invitation is not looked up again before it is expired.    *)
ExpireInviteUnchecked(u) ==
  /\ InFlow(u, "expire")
  /\ NextInFlow(u, "update")
  /\ UNCHANGED <<fixed, table, roles, req>>

ExpireInviteFind(u) ==
  /\ InFlow(u, "expire")
  /\ \/ status[flow[u].i] = "PENDING" /\ NextInFlow(u, "update")
     \/ (status[flow[u].i] # "PENDING" \/ MayFail) /\ EndFlow(u)
  /\ UNCHANGED <<fixed, table, roles, req>>

ExpireInviteUpdate(u) ==
  /\ InFlow(u, "update")
  /\ UpdateInviteStatus(flow[u].i, "EXPIRED") \/ (MayFail /\ UNCHANGED status)
  /\ EndFlow(u)
  /\ UNCHANGED <<fixed, age, member, roles, req>>

Workflow(u) ==
  SendEmail(u) \/ Wake(u) \/ CheckInviteStatus(u) \/ ExpireInviteFind(u) \/ ExpireInviteUpdate(u)

-----------------------------------------------------------------------------
(* Time *)

Days(i) ==
  /\ Quiet
  /\ status[i] # "none" /\ age[i] < 2
  /\ age' = [age EXCEPT ![i] = @ + 1]
  /\ UNCHANGED <<fixed, status, member, flow, roles, req>>

ExpireRoles ==
  /\ Quiet /\ HashExists
  /\ roles' = [u \in Users |-> NoRole]
  /\ UNCHANGED <<fixed, table, flow, req>>

HandlerStep(h) ==
  \/ ExecuteWorkflow(h)
  \/ MarkExpired(h) \/ IsMember(h) \/ MarkAlreadyMember(h) \/ AddMember(h) \/ MarkAccepted(h)
  \/ GetMemberRole(h) \/ SetMemberRole(h)

Request(h) ==
  \/ \E i \in Invites : CreateInvite(h, i) \/ FindInviteByToken(h, i)
  \/ \E u \in Users : GetCachedRole(h, u)

Next ==
  \/ \E h \in Handlers : Request(h) \/ HandlerStep(h) \/ Crash(h)
  \/ \E u \in Users : Workflow(u)
  \/ \E i \in Invites : Days(i)
  \/ ExpireRoles

Spec == Init /\ [][Next]_vars

(* Requests end, Temporal runs what is due, and time passes whatever       *)
(* requests come.                                                          *)
FairSpec ==
  /\ Spec
  /\ \A h \in Handlers : WF_vars(HandlerStep(h))
  /\ \A u \in Users : WF_vars(Workflow(u))
  /\ SF_vars(\E i \in Invites : Days(i))

-----------------------------------------------------------------------------
RequestStates ==
  {Idle}
    \cup [at : {"execute", "expired", "isMember", "wasMember", "addMember", "accepted"}, i : Invites]
    \cup [at : {"getRole"}, u : Users]
    \cup [at : {"setRole"}, u : Users, role : Roles \cup {Negative}]

TypeOK ==
  /\ \E s \in Scenarios : mode = s.mode /\ invite = s.invite
  /\ status \in [Invites -> {"none", "PENDING", "ACCEPTED", "EXPIRED"}]
  /\ age \in [Invites -> 0 .. 2]
  /\ member \in [Users -> Roles \cup {NoRole}]
  /\ flow \in [Users -> {NoFlow} \cup
       [at : {"mail", "sleep10", "check", "remind", "sleep4", "expire", "update"}, i : Invites]]
  /\ roles \in [Users -> Roles \cup {NoRole, Negative}]
  /\ req \in [Handlers -> RequestStates]

(* An invitation is marked accepted, on either path and whoever overlaps,  *)
(* only once its user has a row in workspace_members.                      *)
AcceptedIsMember == \A i \in Invites : status[i] = "ACCEPTED" => invite[i].user \in Members

(* The cache never gives a user a role that the table does not, although   *)
(* checks write what they read long before and acceptances race them.      *)
RoleSound == \A u \in Users : roles[u] \in Roles => member[u] = roles[u]

(* What the workflow's timers and the late acceptance mark as expired is   *)
(* past its expires_at.                                                    *)
ExpiredOnlyAfterDeadline == \A i \in Invites : status[i] = "EXPIRED" => age[i] = 2

(* One request at a time, the cached "not a member" does not survive the   *)
(* acceptance; otherwise it may, see task/service.go:81-85.                *)
NoStaleRefusal ==
  (mode = "alone" /\ AllIdle) => \A u \in Members : roles[u] # Negative

(* The status is written without looking at the old one, yet while no      *)
(* request is under way as the deadline passes, neither a second           *)
(* acceptance nor the workflow changes an accepted or expired invitation.  *)
StatusFinal ==
  [][mode # "free" =>
       \A i \in Invites : status[i] \in {"ACCEPTED", "EXPIRED"} => status'[i] = status[i]]_vars

(* An invitation whose own workflow has started is finally accepted or     *)
(* marked as expired, if no activity fails for good and there are moments  *)
(* without a request.                                                      *)
InviteSettles ==
  []<>AllIdle => \A i \in UNION {DOMAIN s.invite : s \in Scenarios} :
    (mode # "free" /\ \E u \in Users : flow[u] # NoFlow /\ flow[u].i = i) ~> (i \in Invites /\ status[i] # "PENDING")

(* README:145, hashes are updated "to guarantee strong read-after-write    *)
(* consistency": when nothing is under way a member is not refused.        *)
MemberAdmitted == AllIdle => \A u \in Members : Admitted(u)
=============================================================================
