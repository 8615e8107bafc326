--------------------------- MODULE MCTaskPipeline ---------------------------
(* Instances of TaskPipeline for TLC. *)
EXTENDS TaskPipeline

CONSTANTS a, b
OneTask == {a}
TwoTasks == {a, b}
PairsAtMost == [t \in Topics |-> 2]
TwoStatuses == {"TODO", "DONE"}
=============================================================================
