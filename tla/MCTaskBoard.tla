---------------------------- MODULE MCTaskBoard ----------------------------
(* Small boards for TLC: two columns, two users, up to two tasks.          *)
EXTENDS TaskBoard

Board == {"TODO", "DONE"}
Team == {"u1", "u2"}

AllModes == {"settled", "lagging", "free"}
Settled == {"settled"}
Lagging == {"lagging"}

(* Overlapping requests multiply the states: one task for them.            *)
CreatedBound == [m \in Modes |-> IF m = "free" THEN 1 ELSE 2]
=============================================================================
