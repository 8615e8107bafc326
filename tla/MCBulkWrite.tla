---------------------------- MODULE MCBulkWrite ----------------------------
(* The instance of BulkWrite for TLC. *)
EXTENDS BulkWrite

CONSTANTS k1, k2
TwoKeys == {k1, k2}
AllDialects == {"insert", "update", "upsert", "ordered"}
BothFaults == {"conn", "timeout"}
=============================================================================
