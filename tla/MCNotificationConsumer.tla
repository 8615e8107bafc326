----------------------- MODULE MCNotificationConsumer -----------------------
(* Instances of NotificationConsumer for TLC. *)
EXTENDS NotificationConsumer

(* Every kind where nothing fails; with faults, the kind whose handling is *)
(* the topic's own.  Notifications without a value fare as invalid ones.   *)
Instances ==
  [topic : {"users", "notes"}, faulty : {FALSE}, kinds : {{"valid", "invalid", "rejected"}}]
    \cup [topic : {"users"}, faulty : {FALSE}, kinds : {{"valid", "empty"}}]
    \cup [topic : {"users"}, faulty : {TRUE}, kinds : {{"valid", "invalid"}}]
    \cup [topic : {"notes"}, faulty : {TRUE}, kinds : {{"valid", "rejected"}}]
=============================================================================
