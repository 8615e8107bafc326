---------------------------- MODULE MCMembership ----------------------------
(* Instances of Membership for TLC. *)
EXTENDS Membership

CONSTANTS u1, u2
TwoUsers == {u1, u2}
TwoRoles == {"ADMIN", "MEMBER"}

To(u, role) == [user |-> u, role |-> role]
(* Two to one user, one to each of two, and a single one. *)
SameUser  == <<To(u1, "ADMIN"), To(u1, "MEMBER")>>
EachUser  == <<To(u1, "ADMIN"), To(u2, "MEMBER")>>
OneOnly   == <<To(u1, "ADMIN")>>

AllScenarios ==
  {[mode |-> "alone",  invite |-> EachUser], [mode |-> "alone", invite |-> SameUser],
   [mode |-> "prompt", invite |-> SameUser], [mode |-> "free",  invite |-> OneOnly]}
OneAtATime == {[mode |-> "alone", invite |-> OneOnly]}
=============================================================================
