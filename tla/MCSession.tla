----------------------------- MODULE MCSession -----------------------------
(* Instances of Session for TLC.  The services share nothing but the       *)
(* session and the events, so one of them stands for both; "workspace" is  *)
(* the one whose consumer may die.                                         *)
EXTENDS Session

OneService == {"workspace"}
AllModes   == {"alone", "prompt", "free"}
=============================================================================
