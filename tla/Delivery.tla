------------------------------ MODULE Delivery ------------------------------
(***************************************************************************)
(* What a consumer group promises about the records of a partition: an     *)
(* offset the group has committed belongs to a record that has arrived at  *)
(* a destination, is under way to one, or is excused.  The offset may go   *)
(* back, so a record may arrive again; it may arrive out of order; what    *)
(* is under way may be taken back as long as its offset is not committed.  *)
(* Who excuses a record, and why, is up to the consumer.                   *)
(***************************************************************************)
EXTENDS Integers

VARIABLES
  count,     \* records published; their offsets are 1 .. count
  frontier,  \* the committed offset: the next one to deliver
  arrived,   \* offsets of records in the database or the DLQ
  underway,  \* offsets handed to a writer that has not written them yet
  excused    \* offsets given up

vars == <<count, frontier, arrived, underway, excused>>

Records == 1 .. count
Covered == arrived \cup underway \cup excused

Init == /\ count = 0 /\ frontier = 1
        /\ arrived = {} /\ underway = {} /\ excused = {}

Publish == /\ count' = count + 1
           /\ UNCHANGED <<frontier, arrived, underway, excused>>

(* What has arrived stays; what is excused stays so. *)
Deliver ==
  /\ arrived \subseteq arrived' /\ excused \subseteq excused'
  /\ Covered' \subseteq Records

(* The group moves only to an offset behind which all is covered, and      *)
(* keeps that so: what was under way is not dropped behind it.             *)
Commit ==
  /\ frontier' \in 1 .. count + 1
  /\ \A o \in Records : o < frontier' => o \in Covered'

Work == Deliver /\ Commit /\ UNCHANGED count

Next == Publish \/ Work

Spec == Init /\ [][Next]_vars
=============================================================================
