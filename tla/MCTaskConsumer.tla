--------------------------- MODULE MCTaskConsumer ---------------------------
(* Instances of TaskConsumer for TLC. *)
EXTENDS TaskConsumer

AllHandlers == {"task", "user"}
TasksOnly == {"task"}
AllKinds == {"good", "poison", "malformed"}
GoodOnly == {"good"}

(* Everything at once, and sets that leave something intact: no expiry for *)
(* OnlyPoisonWithoutExpiry, failing DLQ writes alone for                   *)
(* NoTaskLostByCrashes.  The handlers differ in malformed records only.    *)
TaskFaults == {{"conn", "timeout", "dlq", "shutdown"}, {"conn", "dlq"}}
UserFaults == {{"dlq"}}
AllFaults == [h \in AllHandlers |-> IF h = "task" THEN TaskFaults ELSE UserFaults]
ConnFault == [h \in TasksOnly |-> {{"conn"}}]
=============================================================================
