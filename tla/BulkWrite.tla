----------------------------- MODULE BulkWrite -----------------------------
(***************************************************************************)
(* The divide-and-conquer bulk write of the repositories, one SQL          *)
(* statement (or one Mongo bulkWrite) per step: BulkCreate,                *)
(* recursiveCreate and bulkCreateBatch, their copies for updates, status   *)
(* updates and user snapshots, and bulkSaveSnapshots of the notification   *)
(* service.  They share the recursion and differ in the statement, which   *)
(* "dialect" names:                                                        *)
(*   "insert"  INSERT ... ON CONFLICT DO NOTHING           (BulkCreate)    *)
(*   "update"  UPDATE ... FROM (VALUES ...)   (BulkUpdate, -UpdateStatus)  *)
(*   "upsert"  INSERT ... ON CONFLICT DO UPDATE       (BulkUpsertUsers)    *)
(*   "ordered" Mongo bulkWrite, ordered         (bulkSaveSnapshots)        *)
(* The elements of the batch are its positions 1 .. N.                     *)
(***************************************************************************)
EXTENDS Integers, FiniteSets, BulkContract

CONSTANTS
  N,        \* length of the batch
  Ids,      \* primary keys
  Dialects, \* the statements to consider
  Faults    \* subset of {"conn", "timeout"}

ASSUME BatchAssumption == N \in Nat \ {0}
ASSUME DialectsAssumption == Dialects \subseteq {"insert", "update", "upsert", "ordered"}

VARIABLES
  dialect,  \* which of the four calls this is
  key,      \* key[i]: the primary key of element i
  poison,   \* elements the database rejects
  calls,    \* pending calls of the recursion, as segments of the batch; the
            \* leftmost is the one running
  attempt,  \* "whole": the one BulkCreate makes before the recursion
  ctx,      \* the context of the call: "live" or "ended"
  result,   \* "running", "returned" or "error"
  failed,   \* elements returned as poisonous
  stored,   \* elements some statement has applied
  table,    \* table[k]: the element whose data row k holds, 0 before the batch
  count     \* statements sent

vars == <<dialect, key, poison, calls, attempt, ctx, result, failed, stored, table, count>>

Elements == 1 .. N
Segment == {s \in Elements \X Elements : s[1] <= s[2]}
Span(s) == s[1] .. s[2]
Pending == UNION {Span(s) : s \in calls}

Init ==
  /\ dialect \in Dialects
  /\ key \in [Elements -> Ids] /\ poison \in SUBSET Elements
  /\ calls = {<<1, N>>}
  /\ attempt = IF dialect = "ordered" THEN "recursion" ELSE "whole"
  /\ ctx = "live" /\ result = "running"
  /\ failed = {} /\ stored = {} /\ table = [k \in Ids |-> 0]
  /\ count = 0

-----------------------------------------------------------------------------
(* One statement. *)

(* Mistake: the right half is written first. *)
RunningRightFirst(s) == s \in calls /\ \A t \in calls : t[1] <= s[1]

Running(s) == s \in calls /\ \A t \in calls : s[1] <= t[1]

With(k, es) == {e \in es : key[e] = k}

(* The elements a statement applies, in one transaction for SQL; an        *)
(* ordered Mongo bulk write keeps what precedes the first failure.         *)
Rejected(es) ==
  \/ es \cap poison # {}
  \/ dialect = "upsert" /\ \E k \in Ids : Cardinality(With(k, es)) > 1

Kept(es) ==
  IF ~Rejected(es) THEN es
  ELSE IF dialect = "ordered" THEN {e \in es : \A p \in es \cap poison : e < p}
  ELSE {}

Rows == [Ids -> 0 .. N]

(* Mistake: ON CONFLICT DO UPDATE for a creation. *)
bulkCreateBatchOverwriting(es) ==
  table' \in {t \in Rows : \A k \in Ids :
                IF With(k, es) = {} THEN t[k] = table[k]
                ELSE t[k] \in With(k, es) /\ \A e \in With(k, es) : t[k] <= e}

bulkCreateBatch(es) ==
  table' \in {t \in Rows : \A k \in Ids :
                IF With(k, es) = {} \/ table[k] # 0 THEN t[k] = table[k]
                ELSE t[k] \in With(k, es) /\ \A e \in With(k, es) : t[k] <= e}

(* Several VALUES rows that join one table row: any of them may be used. *)
bulkUpdateBatch(es) ==
  table' \in {t \in Rows : \A k \in Ids :
                IF With(k, es) = {} THEN t[k] = table[k] ELSE t[k] \in With(k, es)}

bulkUpsertUsersBatch(es) ==
  table' \in {t \in Rows : \A k \in Ids :
                IF With(k, es) = {} THEN t[k] = table[k]
                ELSE t[k] \in With(k, es) /\ \A e \in With(k, es) : e <= t[k]}

Apply(es) ==
  /\ stored' = stored \cup es
  /\ \/ dialect = "insert" /\ bulkCreateBatch(es)
     \/ dialect = "update" /\ bulkUpdateBatch(es)
     \/ dialect \in {"upsert", "ordered"} /\ bulkUpsertUsersBatch(es)

-----------------------------------------------------------------------------
(* What the code does with the outcome. *)

Return(cs) == result' = IF cs = {} THEN "returned" ELSE "running"

(* err == nil: this call is done. *)
Succeed(s) ==
  /\ calls' = calls \ {s} /\ Return(calls')
  /\ UNCHANGED <<attempt, failed>>

(* Mistakes in the recursion: a failing segment of "base" elements is      *)
(* poisonous as a whole, the left part has "mid" elements, the right part  *)
(* starts "gap" elements after it.                                         *)
SplitInto(s, base, mid, gap) ==
  \/ /\ attempt = "whole" /\ attempt' = "recursion"
     /\ UNCHANGED <<calls, failed, result>>
  \/ /\ attempt = "recursion" /\ s[2] - s[1] < base
     /\ failed' = failed \cup Span(s)
     /\ calls' = calls \ {s} /\ Return(calls')
     /\ UNCHANGED attempt
  \/ /\ attempt = "recursion" /\ s[2] - s[1] >= base
     /\ calls' = (calls \ {s}) \cup {<<s[1], s[1] + mid - 1>>, <<s[1] + mid + gap, s[2]>>}
     /\ UNCHANGED <<attempt, failed, result>>

DivideDownToTwo(s)     == SplitInto(s, 2, (s[2] - s[1] + 1) \div 2, 0)
DivideSkippingOne(s)   == SplitInto(s, 1, (s[2] - s[1] + 1) \div 2, 1)
DivideOneByOne(s)      == SplitInto(s, 1, 1, 0)

(* Any error that isConnectionError does not know.  The first attempt is   *)
(* repeated by the recursion, a single element is poisonous, anything      *)
(* larger is halved, left half first.                                      *)
Divide(s) ==
  LET mid == (s[2] - s[1] + 1) \div 2
  IN \/ /\ attempt = "whole" /\ attempt' = "recursion"
        /\ UNCHANGED <<calls, failed, result>>
     \/ /\ attempt = "recursion" /\ s[1] = s[2]
        /\ failed' = failed \cup {s[1]}
        /\ calls' = calls \ {s} /\ Return(calls')
        /\ UNCHANGED attempt
     \/ /\ attempt = "recursion" /\ s[1] < s[2]
        /\ calls' = (calls \ {s}) \cup {<<s[1], s[1] + mid - 1>>, <<s[1] + mid, s[2]>>}
        /\ UNCHANGED <<attempt, failed, result>>

Batch == <<dialect, key, poison>>

Execute(s) ==
  /\ ctx = "live" /\ Apply(Kept(Span(s)))
  /\ IF Rejected(Span(s)) THEN Divide(s) ELSE Succeed(s)
  /\ UNCHANGED ctx

(* The context ends while the statement runs, and the database has or has  *)
(* not applied it.                                                         *)
ExpireDuring(s) ==
  /\ "timeout" \in Faults /\ ctx = "live" /\ dialect # "ordered"
  /\ Apply(Kept(Span(s))) \/ UNCHANGED <<stored, table>>
  /\ Divide(s)
  /\ ctx' = "ended"

(* Mistake: the end of the context is not taken for a failure. *)
ExecuteExpiredSilently(s) ==
  /\ ctx = "ended" /\ Succeed(s)
  /\ UNCHANGED <<ctx, stored, table>>

(* Every statement under an ended context fails at once. *)
ExecuteExpired(s) ==
  /\ ctx = "ended" /\ Divide(s)
  /\ UNCHANGED <<ctx, stored, table>>

(* A connection error goes straight up to the handler. *)
Disconnect(s) ==
  /\ "conn" \in Faults
  /\ Apply(Kept(Span(s))) \/ UNCHANGED <<stored, table>>
  /\ result' = "error" /\ calls' = {} /\ failed' = {}
  /\ UNCHANGED <<attempt, ctx>>

Statement ==
  /\ result = "running"
  /\ \E s \in calls :
       /\ Running(s)
       /\ Execute(s) \/ ExpireDuring(s) \/ ExecuteExpired(s) \/ Disconnect(s)
  /\ count' = count + 1
  /\ UNCHANGED Batch

Next == Statement

Spec == Init /\ [][Next]_vars

-----------------------------------------------------------------------------
(* Properties. *)

TypeOK ==
  /\ dialect \in Dialects
  /\ key \in [Elements -> Ids] /\ poison \subseteq Elements
  /\ calls \subseteq Segment
  /\ attempt \in {"whole", "recursion"} /\ ctx \in {"live", "ended"}
  /\ result \in {"running", "returned", "error"}
  /\ failed \subseteq Elements /\ stored \subseteq Elements
  /\ table \in Rows
  /\ count \in Nat

(* The call keeps the contract TaskConsumer relies on.                     *)
MeetsContract ==
  result # "running" =>
    [err |-> result = "error", stored |-> stored, failed |-> failed] \in
      BulkResult(Elements, poison, "timeout" \in Faults, "conn" \in Faults)

(* What makes the contract inductive. *)
CallsDisjoint ==
  \A s, t \in calls : s # t => Span(s) \cap Span(t) = {}

Bookkeeping ==
  /\ stored \cap poison = {}
  /\ ctx = "live" => failed \subseteq poison
  /\ ctx = "ended" => "timeout" \in Faults
  /\ result = "error" => "conn" \in Faults /\ failed = {}
  /\ result = "returned" => calls = {}

(* README:198: without an expiry the isolated elements are exactly the     *)
(* poisonous ones, although larger statements failed for other reasons     *)
(* (two versions of one user) on the way.                                  *)
IsolatesExactly == result = "returned" /\ ctx = "live" => failed = poison

(* An element is, at any time, behind a pending call, applied or isolated, *)
(* and no element is both pending and isolated (each is tried alone once). *)
NothingDropped ==
  result # "error" => /\ Pending \cup stored \cup failed = Elements
                      /\ Pending \cap failed = {}

(* Where a batch holds several versions of one row, the last valid one     *)
(* remains: the halves are written in the order of the batch.              *)
LastVersionRemains ==
  dialect \in {"upsert", "ordered"} /\ result = "returned" /\ ctx = "live" =>
    \A k \in Ids : \A e \in With(k, Elements) \ poison : e <= table[k]

(* A redelivered creation never overwrites the row of the first one.       *)
FirstVersionRemains ==
  dialect = "insert" /\ result = "returned" /\ ctx = "live" =>
    \A k \in Ids : \A e \in With(k, Elements) \ poison : 0 < table[k] /\ table[k] <= e

(* README:196, the fallback does not "resort to slow row-by-row iteration":*)
(* it never sends more than 2N statements, and, as long as only poisonous  *)
(* elements make a statement fail, the two attempts at the whole batch and *)
(* two per poisonous element and level: l levels are enough if halving N,  *)
(* rounded up, l times gives one.                                          *)
Halvings(l) ==
  {size \in [0 .. l -> 1 .. N] :
     /\ size[0] = N /\ size[l] = 1
     /\ \A i \in 1 .. l : size[i] = (size[i - 1] + 1) \div 2}

Levels == {l \in 0 .. N : Halvings(l) # {}}

FewStatements ==
  /\ count <= 2 * N
  /\ ctx = "live" /\ dialect # "upsert" =>
       \A l \in Levels : count <= 2 + 2 * (l * Cardinality(poison))

IInv == TypeOK /\ NothingDropped /\ CallsDisjoint /\ Bookkeeping
=============================================================================
