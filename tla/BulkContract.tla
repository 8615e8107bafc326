---------------------------- MODULE BulkContract ----------------------------
(***************************************************************************)
(* What a bulk repository call (BulkCreate, BulkUpdate, BulkUpdateStatus,  *)
(* BulkUpsertUsers) promises the Kafka handler that makes it: the set of   *)
(* results it may return for a batch, and the one-call specification that  *)
(* module BulkWrite, the recursion as it is coded, is shown to implement.  *)
(* TaskConsumer takes the result of its bulk call from the same set.       *)
(*                                                                         *)
(* A result says which records the database holds after the call, which    *)
(* ones the call returned as failed, and whether it returned an error.     *)
(***************************************************************************)
EXTENDS Naturals

(***************************************************************************)
(* recs     the records of the batch                                       *)
(* poison   those the database rejects whatever they are sent with         *)
(* expired  the context of the call may end (30 s timeout, shutdown)       *)
(* conn     the connection to the database may fail                        *)
(*                                                                         *)
(* An ended context is no connection error for isConnectionError, so every *)
(* statement from then on counts as a rejection of its records; the one    *)
(* that was under way may have been applied and be reported failed.        *)
(***************************************************************************)
BulkResult(recs, poison, expired, conn) ==
  {r \in [err : BOOLEAN, stored : SUBSET (recs \ poison), failed : SUBSET recs] :
     \/ ~r.err /\ r.stored = recs \ poison /\ r.failed = recs \cap poison
     \/ ~r.err /\ expired /\ r.stored \cup r.failed = recs
     \/ r.err /\ conn /\ r.failed = {}}
=============================================================================
