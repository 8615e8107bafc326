-------------------------- MODULE BulkWriteProofs --------------------------
(***************************************************************************)
(* The divide-and-conquer write keeps BulkContract, whatever the length of *)
(* the batch, the keys in it, the poisonous elements and the statement;    *)
(* which of several versions of a row remains; and how many statements it  *)
(* takes.                                                                  *)
(***************************************************************************)
EXTENDS BulkWrite, FiniteSetTheorems, TLAPS

USE BatchAssumption DEF Elements

(* A statement never applies a poisonous element. *)
LEMMA KeptIsValid ==
  ASSUME NEW es \in SUBSET Elements
  PROVE  Kept(es) \subseteq es /\ Kept(es) \cap poison = {}
<1>1. CASE ~Rejected(es)
  BY <1>1 DEF Kept, Rejected
<1>2. CASE Rejected(es) /\ dialect = "ordered"
  <2>1. Kept(es) = {e \in es : \A p \in es \cap poison : e < p}
    BY <1>2 DEF Kept
  <2>2. \A e \in es : e \in Int /\ ~(e < e)
    OBVIOUS
  <2> QED
    BY <2>1, <2>2
<1>3. CASE Rejected(es) /\ dialect # "ordered"
  BY <1>3 DEF Kept
<1> QED
  BY <1>1, <1>2, <1>3

(* What is not rejected is applied as a whole. *)
LEMMA AcceptedIsKept ==
  ASSUME NEW es \in SUBSET Elements, ~Rejected(es)
  PROVE  Kept(es) = es
  BY DEF Kept

(* A single element fails on its own account only. *)
LEMMA SingleIsPoison ==
  ASSUME NEW e \in Elements, Rejected({e})
  PROVE  e \in poison
<1> SUFFICES ASSUME NEW k \in Ids, Cardinality(With(k, {e})) > 1 PROVE FALSE
  BY DEF Rejected
<1>1. With(k, {e}) = {e} \/ With(k, {e}) = {}
  BY DEF With
<1>2. Cardinality({e}) = 1 /\ Cardinality({}) = 0
  BY FS_Singleton, FS_EmptySet
<1> QED
  BY <1>1, <1>2

(* Applying elements adds them to "stored"; the table keeps its type. *)
LEMMA ApplyType ==
  ASSUME NEW es \in SUBSET Elements, Apply(es)
  PROVE  stored' = stored \cup es /\ table' \in Rows
  BY DEF Apply, bulkCreateBatch, bulkUpdateBatch, bulkUpsertUsersBatch

(* Halving a segment gives two disjoint ones that make it up. *)
LEMMA Halves ==
  ASSUME NEW s \in Segment, s[1] < s[2],
         NEW l, l = <<s[1], s[1] + (s[2] - s[1] + 1) \div 2 - 1>>,
         NEW r, r = <<s[1] + (s[2] - s[1] + 1) \div 2, s[2]>>
  PROVE  /\ l \in Segment /\ r \in Segment
         /\ Span(l) \cup Span(r) = Span(s) /\ Span(l) \cap Span(r) = {}
<1> DEFINE mid == (s[2] - s[1] + 1) \div 2
<1>1. /\ s[1] \in Int /\ s[2] \in Int /\ 1 <= s[1] /\ s[2] <= N /\ N \in Int
      /\ s = <<s[1], s[2]>>
  BY DEF Segment
<1>2. mid \in Int /\ 1 <= mid /\ mid <= s[2] - s[1]
  BY <1>1
<1> HIDE DEF mid
<1>3. l = <<s[1], s[1] + mid - 1>> /\ r = <<s[1] + mid, s[2]>>
  BY DEF mid
<1>4. Span(l) = s[1] .. s[1] + mid - 1 /\ Span(r) = s[1] + mid .. s[2]
  BY <1>3 DEF Span
<1> QED
  BY <1>1, <1>2, <1>3, <1>4 DEF Segment, Span

-----------------------------------------------------------------------------
(* How a step of the recursion changes the pending calls. *)

(* A call that ends takes exactly its own elements off the pending ones. *)
LEMMA PendingWithout ==
  ASSUME CallsDisjoint, NEW s \in calls
  PROVE  UNION {Span(t) : t \in calls \ {s}} = Pending \ Span(s)
  BY DEF CallsDisjoint, Pending

LEMMA SucceedStep ==
  ASSUME TypeOK, NothingDropped, CallsDisjoint, result = "running",
         NEW s \in calls, Succeed(s), stored \cup Span(s) \subseteq stored',
         stored' \subseteq Elements
  PROVE  /\ NothingDropped' /\ CallsDisjoint'
         /\ calls' \subseteq Segment /\ failed' = failed
         /\ result' \in {"running", "returned"}
         /\ result' = "returned" => calls' = {}
<1>1. /\ calls' = calls \ {s} /\ failed' = failed /\ calls' \subseteq Segment
      /\ result' \in {"running", "returned"}
      /\ result' = "returned" => calls' = {}
  BY DEF Succeed, Return, TypeOK
<1>2. Pending' = Pending \ Span(s)
  BY <1>1, PendingWithout DEF Pending
<1>3. Span(s) \subseteq Pending
  BY DEF Pending
<1> QED
  BY <1>1, <1>2, <1>3 DEF NothingDropped, CallsDisjoint, TypeOK

LEMMA DivideStep ==
  ASSUME TypeOK, NothingDropped, CallsDisjoint, result = "running",
         NEW s \in calls, Divide(s), stored \subseteq stored', stored' \subseteq Elements
  PROVE  /\ NothingDropped' /\ CallsDisjoint'
         /\ calls' \subseteq Segment
         /\ failed' = failed \/ (s[1] = s[2] /\ failed' = failed \cup {s[1]})
         /\ attempt' \in {"whole", "recursion"}
         /\ result' \in {"running", "returned"}
         /\ result' = "returned" => calls' = {}
<1> USE DEF TypeOK
<1>0. s \in Segment /\ s = <<s[1], s[2]>> /\ s[1] \in Elements /\ Span(s) \subseteq Pending
  BY DEF Segment, Pending
<1>1. CASE attempt = "whole"
  <2>1. UNCHANGED <<calls, failed, result>> /\ attempt' = "recursion"
    BY <1>1 DEF Divide
  <2>2. Pending' = Pending
    BY <2>1 DEF Pending
  <2> QED
    BY <2>1, <2>2 DEF NothingDropped, CallsDisjoint
<1>2. CASE attempt = "recursion" /\ s[1] = s[2]
  <2>1. /\ failed' = failed \cup {s[1]} /\ calls' = calls \ {s}
        /\ attempt' = attempt /\ result' \in {"running", "returned"}
        /\ result' = "returned" => calls' = {}
    BY <1>2, <1>0 DEF Divide, Return, Segment
  <2>2. Pending' = Pending \ Span(s)
    BY <2>1, PendingWithout DEF Pending
  <2>3. Span(s) = {s[1]}
    BY <1>0, <1>2 DEF Span
  <2> QED
    BY <1>0, <1>2, <2>1, <2>2, <2>3 DEF NothingDropped, CallsDisjoint
<1>3. CASE attempt = "recursion" /\ s[1] < s[2]
  <2> DEFINE l == <<s[1], s[1] + (s[2] - s[1] + 1) \div 2 - 1>>
             r == <<s[1] + (s[2] - s[1] + 1) \div 2, s[2]>>
  <2>1. calls' = (calls \ {s}) \cup {l, r} /\ UNCHANGED <<attempt, failed, result>>
    BY <1>3, <1>0 DEF Divide, Segment
  <2>2. /\ l \in Segment /\ r \in Segment
        /\ Span(l) \cup Span(r) = Span(s) /\ Span(l) \cap Span(r) = {}
    BY <1>0, <1>3, Halves
  <2> HIDE DEF l, r
  <2>3. Pending' = Pending
    BY <1>0, <2>1, <2>2, PendingWithout DEF Pending
  <2>4. CallsDisjoint'
    BY <2>1, <2>2 DEF CallsDisjoint
  <2>5. calls' \subseteq Segment
    BY <2>1, <2>2
  <2> QED
    BY <2>1, <2>3, <2>4, <2>5 DEF NothingDropped
<1> QED
  BY <1>0, <1>1, <1>2, <1>3 DEF Segment

-----------------------------------------------------------------------------
(* The invariant. *)

LEMMA InitInv == Init => IInv
<1> SUFFICES ASSUME Init PROVE IInv
  OBVIOUS
<1>1. /\ calls = {<<1, N>>} /\ result = "running" /\ failed = {} /\ stored = {}
      /\ ctx = "live" /\ attempt \in {"whole", "recursion"} /\ count = 0
  BY DEF Init
<1>2. <<1, N>> \in Segment /\ Span(<<1, N>>) = Elements
  BY DEF Segment, Span
<1>3. Pending = Elements
  BY <1>1, <1>2 DEF Pending
<1>4. table \in Rows /\ dialect \in Dialects /\ key \in [Elements -> Ids] /\ poison \subseteq Elements
  BY DEF Init, Rows
<1>5. TypeOK
  BY <1>1, <1>2, <1>4 DEF TypeOK
<1> QED
  BY <1>1, <1>3, <1>5 DEF IInv, NothingDropped, CallsDisjoint, Bookkeeping

LEMMA ExecuteInv ==
  ASSUME IInv, result = "running", count' = count + 1, UNCHANGED Batch,
         NEW s \in calls, Execute(s)
  PROVE  IInv'
<1> USE DEF IInv
<1>1. Span(s) \subseteq Elements /\ s \in Segment
  BY DEF TypeOK, Segment, Span
<1>2. ctx = "live" /\ ctx' = ctx /\ UNCHANGED <<dialect, key, poison>>
  BY DEF Execute, Batch
<1>3. /\ Kept(Span(s)) \subseteq Span(s) /\ Kept(Span(s)) \cap poison = {}
      /\ stored' = stored \cup Kept(Span(s)) /\ table' \in Rows
  BY <1>1, KeptIsValid, ApplyType DEF Execute
<1>4. stored' \subseteq Elements /\ stored' \cap poison = {}
  BY <1>1, <1>3 DEF TypeOK, Bookkeeping
<1>5. CASE Rejected(Span(s))
  <2>1. Divide(s)
    BY <1>5 DEF Execute
  <2>2. s[1] = s[2] => s[1] \in poison
    <3>1. SUFFICES ASSUME s[1] = s[2] PROVE s[1] \in poison
      OBVIOUS
    <3>2. Span(s) = {s[1]} /\ s[1] \in Elements
      BY <1>1, <3>1 DEF Segment, Span
    <3> QED
      BY <1>5, <3>2, SingleIsPoison
  <2>3. /\ NothingDropped' /\ CallsDisjoint' /\ calls' \subseteq Segment
        /\ failed' = failed \/ (s[1] = s[2] /\ failed' = failed \cup {s[1]})
        /\ attempt' \in {"whole", "recursion"}
        /\ result' \in {"running", "returned"}
        /\ result' = "returned" => calls' = {}
    BY <1>3, <1>4, <2>1, DivideStep
  <2>4. failed' \subseteq poison /\ poison \subseteq Elements
    BY <1>2, <2>2, <2>3 DEF Bookkeeping, TypeOK
  <2>5. TypeOK'
    BY <1>2, <1>3, <1>4, <2>3, <2>4 DEF TypeOK
  <2>6. Bookkeeping'
    BY <1>2, <1>4, <2>3, <2>4 DEF Bookkeeping
  <2> QED
    BY <2>3, <2>5, <2>6
<1>6. CASE ~Rejected(Span(s))
  <2>1. Succeed(s) /\ Kept(Span(s)) = Span(s)
    BY <1>1, <1>6, AcceptedIsKept DEF Execute
  <2>2. /\ NothingDropped' /\ CallsDisjoint' /\ calls' \subseteq Segment
        /\ failed' = failed /\ result' \in {"running", "returned"}
        /\ result' = "returned" => calls' = {}
    BY <1>3, <1>4, <2>1, SucceedStep
  <2>3. attempt' = attempt
    BY <2>1 DEF Succeed
  <2>4. TypeOK'
    BY <1>2, <1>3, <1>4, <2>2, <2>3 DEF TypeOK
  <2>5. Bookkeeping'
    BY <1>2, <1>4, <2>2 DEF Bookkeeping
  <2> QED
    BY <2>2, <2>4, <2>5
<1> QED
  BY <1>5, <1>6

LEMMA ExpiredInv ==
  ASSUME IInv, result = "running", count' = count + 1, UNCHANGED Batch,
         NEW s \in calls, ExpireDuring(s) \/ ExecuteExpired(s)
  PROVE  IInv'
<1> USE DEF IInv
<1>1. Span(s) \subseteq Elements /\ s \in Segment /\ s[1] \in Elements
  BY DEF TypeOK, Segment, Span
<1>2. ctx' = "ended" /\ "timeout" \in Faults /\ UNCHANGED <<dialect, key, poison>> /\ Divide(s)
  BY DEF ExpireDuring, ExecuteExpired, Batch, Bookkeeping
<1>3. Kept(Span(s)) \subseteq Span(s) /\ Kept(Span(s)) \cap poison = {}
  BY <1>1, KeptIsValid
<1>4. /\ stored' = stored \cup Kept(Span(s)) \/ stored' = stored
      /\ table' \in Rows
  BY <1>1, <1>3, ApplyType DEF ExpireDuring, ExecuteExpired, TypeOK
<1>5. stored \subseteq stored' /\ stored' \subseteq Elements /\ stored' \cap poison = {}
  BY <1>1, <1>3, <1>4 DEF TypeOK, Bookkeeping
<1>6. /\ NothingDropped' /\ CallsDisjoint' /\ calls' \subseteq Segment
      /\ failed' = failed \/ (s[1] = s[2] /\ failed' = failed \cup {s[1]})
      /\ attempt' \in {"whole", "recursion"}
      /\ result' \in {"running", "returned"}
      /\ result' = "returned" => calls' = {}
  BY <1>2, <1>5, DivideStep
<1>7. TypeOK'
  <2>1. failed' \subseteq Elements
    BY <1>1, <1>6 DEF TypeOK
  <2> QED
    BY <1>2, <1>4, <1>5, <1>6, <2>1 DEF TypeOK, Rows
<1>8. Bookkeeping'
  BY <1>2, <1>5, <1>6 DEF Bookkeeping
<1> QED
  BY <1>6, <1>7, <1>8

LEMMA DisconnectInv ==
  ASSUME IInv, result = "running", count' = count + 1, UNCHANGED Batch,
         NEW s \in calls, Disconnect(s)
  PROVE  IInv'
<1> USE DEF IInv
<1>1. Span(s) \subseteq Elements
  BY DEF TypeOK, Segment, Span
<1>2. /\ "conn" \in Faults /\ result' = "error" /\ calls' = {} /\ failed' = {}
      /\ UNCHANGED <<attempt, ctx, dialect, key, poison>>
  BY DEF Disconnect, Batch
<1>3. Kept(Span(s)) \subseteq Span(s) /\ Kept(Span(s)) \cap poison = {}
  BY <1>1, KeptIsValid
<1>4. /\ stored' = stored \cup Kept(Span(s)) \/ stored' = stored
      /\ table' \in Rows
  BY <1>1, <1>3, ApplyType DEF Disconnect, TypeOK
<1>5. stored' \subseteq Elements /\ stored' \cap poison = {}
  BY <1>1, <1>3, <1>4 DEF TypeOK, Bookkeeping
<1>6. TypeOK'
  BY <1>2, <1>4, <1>5 DEF TypeOK
<1> QED
  BY <1>2, <1>5, <1>6 DEF NothingDropped, CallsDisjoint, Bookkeeping

LEMMA StepInv == IInv /\ [Next]_vars => IInv'
<1>1. ASSUME IInv, UNCHANGED vars PROVE IInv'
  BY <1>1 DEF vars, IInv, TypeOK, NothingDropped, CallsDisjoint, Bookkeeping, Pending
<1> QED
  BY <1>1, ExecuteInv, ExpiredInv, DisconnectInv DEF Next, Statement

LEMMA Invariant == Spec => []IInv
  BY InitInv, StepInv, PTL DEF Spec

(* BulkCreate and its copies keep the contract TaskConsumer takes the      *)
(* result of its bulk call from.                                           *)
THEOREM ContractKept == Spec => []MeetsContract
<1>1. IInv => MeetsContract
  <2> SUFFICES ASSUME IInv, result # "running"
               PROVE  [err |-> result = "error", stored |-> stored, failed |-> failed]
                        \in BulkResult(Elements, poison, "timeout" \in Faults,
                                       "conn" \in Faults)
    BY DEF MeetsContract
  <2> USE DEF IInv
  <2>1. stored \in SUBSET (Elements \ poison) /\ failed \in SUBSET Elements
    BY DEF TypeOK, Bookkeeping
  <2>2. CASE result = "error"
    BY <2>1, <2>2 DEF Bookkeeping, BulkResult
  <2>3. CASE result = "returned"
    <3>1. stored \cup failed = Elements
      BY <2>3 DEF Bookkeeping, NothingDropped, Pending
    <3>2. CASE ctx = "live"
      <4>1. failed = Elements \cap poison /\ stored = Elements \ poison
        BY <2>1, <3>1, <3>2 DEF Bookkeeping
      <4> QED
        BY <2>1, <2>3, <4>1 DEF BulkResult
    <3>3. CASE ctx = "ended"
      BY <2>1, <2>3, <3>1, <3>3 DEF Bookkeeping, BulkResult
    <3> QED
      BY <3>2, <3>3 DEF TypeOK
  <2> QED
    BY <2>2, <2>3 DEF TypeOK
<1> QED
  BY <1>1, Invariant, PTL

(* Without an expiry exactly the poisonous elements are isolated.          *)
THEOREM IsolationIsExact == Spec => []IsolatesExactly
<1>1. IInv => IsolatesExactly
  BY DEF IInv, TypeOK, IsolatesExactly, Bookkeeping, NothingDropped, Pending
<1> QED
  BY <1>1, Invariant, PTL

(* Every element is pending, applied or isolated at every moment.          *)
THEOREM NothingIsDropped == Spec => []NothingDropped
<1>1. IInv => NothingDropped
  BY DEF IInv
<1> QED
  BY <1>1, Invariant, PTL

-----------------------------------------------------------------------------
(* Which version of a row the table holds.  The context is live throughout:*)
(* one that ends leaves elements applied or not.                           *)

(* The calls work through the batch from left to right.                    *)
HandledFirst == \A e \in Elements \ Pending, p \in Pending : e < p

(* A creation: the row of a key is one of the applied elements, and the    *)
(* first of them.                                                          *)
FirstSoFar ==
  dialect = "insert" =>
    /\ stored \cap Pending = {}
    /\ \A k \in Ids : /\ table[k] # 0 => table[k] \in stored
                      /\ \A e \in With(k, stored) : 0 < table[k] /\ table[k] <= e

(* An update: the row of a key is at least as late as every element that   *)
(* is done with.  An ordered Mongo write applies the prefix of a failing   *)
(* segment once more, so nothing holds of what is still pending.           *)
LastSoFar ==
  dialect \in {"upsert", "ordered"} =>
    \A k \in Ids : \A e \in With(k, stored \ Pending) : e <= table[k]

VersionInv ==
  ctx = "live" /\ result # "error" => HandledFirst /\ FirstSoFar /\ LastSoFar

(* The running call is left of the others.                                 *)
LEMMA RunningIsLeft ==
  ASSUME TypeOK, CallsDisjoint, NEW s \in calls, Running(s)
  PROVE  \A e \in Span(s), p \in Pending \ Span(s) : e < p
<1> SUFFICES ASSUME NEW e \in Span(s), NEW t \in calls, NEW p \in Span(t), p \notin Span(s)
             PROVE  e < p
  BY DEF Pending
<1>1. /\ s[1] \in Int /\ s[2] \in Int /\ s[1] <= s[2]
      /\ t[1] \in Int /\ t[2] \in Int /\ t[1] <= t[2]
  BY DEF TypeOK, Segment
<1>2. s[1] <= t[1] /\ Span(s) \cap Span(t) = {}
  BY DEF Running, CallsDisjoint
<1>3. t[1] \in Span(t)
  BY <1>1 DEF Span
<1>4. s[2] < t[1]
  BY <1>1, <1>2, <1>3 DEF Span
<1> QED
  BY <1>1, <1>4 DEF Span

(* What a live statement does to the pending elements: a failing one keeps *)
(* them, except that a single poisonous element is done with; one that     *)
(* succeeds is done with its segment.                                      *)
LEMMA PendingNext ==
  ASSUME IInv, result = "running", UNCHANGED Batch, NEW s \in calls, Execute(s)
  PROVE  \/ Pending' = Pending /\ Rejected(Span(s))
         \/ /\ Pending' = Pending \ Span(s)
            /\ Rejected(Span(s)) => Kept(Span(s)) = {} /\ Span(s) \subseteq poison
<1> USE DEF IInv
<1>0. s \in Segment /\ s = <<s[1], s[2]>> /\ s[1] \in Elements /\ Span(s) \subseteq Elements
  BY DEF TypeOK, Segment, Span
<1>1. CASE ~Rejected(Span(s))
  <2>1. calls' = calls \ {s}
    BY <1>1 DEF Execute, Succeed
  <2> QED
    BY <1>1, <2>1, PendingWithout DEF Pending
<1>2. CASE Rejected(Span(s))
  <2>0. Divide(s)
    BY <1>2 DEF Execute
  <2>1. CASE attempt = "whole"
    BY <1>2, <2>0, <2>1 DEF Divide, Pending
  <2>2. CASE attempt = "recursion" /\ s[1] = s[2]
    <3>1. calls' = calls \ {s}
      BY <1>0, <2>0, <2>2 DEF Divide, Segment
    <3>2. Span(s) = {s[1]}
      BY <1>0, <2>2 DEF Span
    <3>3. Span(s) \subseteq poison
      BY <1>0, <1>2, <3>2, SingleIsPoison
    <3>4. Kept(Span(s)) = {}
      BY <1>0, <3>3, KeptIsValid
    <3> QED
      BY <3>1, <3>3, <3>4, PendingWithout DEF Pending
  <2>3. CASE attempt = "recursion" /\ s[1] < s[2]
    <3> DEFINE l == <<s[1], s[1] + (s[2] - s[1] + 1) \div 2 - 1>>
               r == <<s[1] + (s[2] - s[1] + 1) \div 2, s[2]>>
    <3>1. calls' = (calls \ {s}) \cup {l, r}
      BY <1>0, <2>0, <2>3 DEF Divide, Segment
    <3>2. Span(l) \cup Span(r) = Span(s)
      BY <1>0, <2>3, Halves
    <3> HIDE DEF l, r
    <3> QED
      BY <1>2, <3>1, <3>2, PendingWithout DEF Pending
  <2> QED
    BY <1>0, <2>1, <2>2, <2>3 DEF TypeOK, Segment
<1> QED
  BY <1>1, <1>2

LEMMA HandledFirstNext ==
  ASSUME IInv, HandledFirst, result = "running", UNCHANGED Batch,
         NEW s \in calls, Running(s), Execute(s)
  PROVE  HandledFirst'
<1>1. Pending' = Pending \/ Pending' = Pending \ Span(s)
  BY PendingNext
<1>2. \A e \in Span(s), p \in Pending \ Span(s) : e < p
  BY RunningIsLeft DEF IInv
<1> QED
  BY <1>1, <1>2 DEF HandledFirst

(* Elements with a key, by their values. *)
LEMMA WithNext ==
  ASSUME UNCHANGED Batch, NEW k \in Ids, NEW es
  PROVE  {e \in es : key'[e] = k} = With(k, es)
  BY DEF With, Batch

LEMMA FirstNext ==
  ASSUME IInv, HandledFirst, FirstSoFar, result = "running", UNCHANGED Batch,
         NEW s \in calls, Execute(s)
  PROVE  FirstSoFar'
<1> USE DEF IInv
<1> SUFFICES ASSUME dialect = "insert" PROVE FirstSoFar'
  BY DEF FirstSoFar, Batch
<1> DEFINE es == Kept(Span(s))
<1>0. Span(s) \subseteq Elements /\ Span(s) \subseteq Pending /\ dialect' = dialect /\ key' = key
  BY DEF TypeOK, Segment, Span, Pending, Batch
<1>1. stored' = stored \cup es /\ bulkCreateBatch(es) /\ es \subseteq Span(s) /\ stored \subseteq Elements
  BY <1>0, KeptIsValid DEF Execute, Apply, TypeOK
<1>2. (es # {} => Pending' = Pending \ Span(s)) /\ Pending' \subseteq Pending
  <2>1. Rejected(Span(s)) => es = {}
    BY DEF Kept
  <2> QED
    BY <2>1, PendingNext
<1> HIDE DEF es
<1>3. stored \cap Pending = {} /\ \A e \in stored, p \in Pending : e < p
  BY <1>1 DEF FirstSoFar, HandledFirst
<1>4. stored' \cap Pending' = {}
  BY <1>1, <1>2, <1>3
<1>5. ASSUME NEW k \in Ids
      PROVE  /\ table'[k] # 0 => table'[k] \in stored'
             /\ \A e \in With(k, stored') : 0 < table'[k] /\ table'[k] <= e
  <2>0. table[k] \in 0 .. N /\ table'[k] \in 0 .. N
    BY <1>1 DEF TypeOK, Rows, bulkCreateBatch
  <2>1. /\ table[k] # 0 => table[k] \in stored
        /\ \A e \in With(k, stored) : 0 < table[k] /\ table[k] <= e
    BY DEF FirstSoFar
  <2>2. CASE table[k] # 0
    <3>1. table'[k] = table[k]
      BY <1>1, <2>2 DEF bulkCreateBatch
    <3>2. \A e \in es : table[k] <= e
      BY <1>0, <1>1, <1>3, <2>0, <2>1, <2>2
    <3>3. 0 < table'[k] /\ table'[k] \in stored'
      BY <1>1, <2>0, <2>1, <2>2, <3>1
    <3>4. \A e \in With(k, stored') : e \in es \/ e \in With(k, stored)
      BY <1>1 DEF With
    <3> QED
      BY <2>1, <3>1, <3>2, <3>3, <3>4
  <2>3. CASE table[k] = 0 /\ With(k, es) = {}
    <3>1. table'[k] = table[k]
      BY <1>1, <2>3 DEF bulkCreateBatch
    <3> QED
      BY <1>1, <2>1, <2>3, <3>1 DEF With
  <2>4. CASE table[k] = 0 /\ With(k, es) # {}
    <3>1. table'[k] \in With(k, es) /\ \A e \in With(k, es) : table'[k] <= e
      BY <1>1, <2>4 DEF bulkCreateBatch
    <3>2. With(k, stored) = {}
      BY <2>1, <2>4
    <3>3. table'[k] \in es /\ 0 < table'[k]
      BY <1>0, <1>1, <3>1 DEF With
    <3> QED
      BY <1>1, <3>1, <3>2, <3>3 DEF With
  <2> QED
    BY <2>2, <2>3, <2>4
<1>6. \A k \in Ids : With(k, stored)' = With(k, stored')
  BY <1>0 DEF With
<1> QED
  BY <1>0, <1>4, <1>5, <1>6 DEF FirstSoFar

LEMMA LastNext ==
  ASSUME IInv, HandledFirst, LastSoFar, result = "running", UNCHANGED Batch,
         NEW s \in calls, Execute(s)
  PROVE  LastSoFar'
<1> USE DEF IInv
<1> SUFFICES ASSUME dialect \in {"upsert", "ordered"} PROVE LastSoFar'
  BY DEF LastSoFar, Batch
<1> DEFINE es == Kept(Span(s))
<1>0. Span(s) \subseteq Elements /\ Span(s) \subseteq Pending /\ dialect' = dialect /\ key' = key
  BY DEF TypeOK, Segment, Span, Pending, Batch
<1>1. /\ stored' = stored \cup es /\ bulkUpsertUsersBatch(es) /\ es \subseteq Span(s)
      /\ stored \subseteq Elements /\ stored \cap poison = {}
  BY <1>0, KeptIsValid DEF Execute, Apply, TypeOK, Bookkeeping
<1>2. stored' \ Pending' \subseteq (stored \ Pending) \cup es
  <2>1. CASE Pending' = Pending
    BY <1>0, <1>1, <2>1
  <2>2. CASE Pending' = Pending \ Span(s) /\ ~Rejected(Span(s))
    BY <1>1, <2>2, AcceptedIsKept, <1>0
  <2>3. CASE Pending' = Pending \ Span(s) /\ Span(s) \subseteq poison
    BY <1>1, <2>3
  <2> QED
    BY <2>1, <2>2, <2>3, PendingNext
<1> HIDE DEF es
<1>3. \A e \in stored \ Pending, p \in es : e < p
  BY <1>0, <1>1 DEF HandledFirst
<1>4. ASSUME NEW k \in Ids, NEW e \in With(k, (stored \ Pending) \cup es)
      PROVE  e <= table'[k]
  <2>0. table[k] \in 0 .. N /\ table'[k] \in 0 .. N /\ e \in Elements
    BY <1>0, <1>1 DEF TypeOK, Rows, bulkUpsertUsersBatch, With
  <2>1. e \in With(k, stored \ Pending) => e <= table[k]
    BY DEF LastSoFar
  <2>2. CASE With(k, es) = {}
    <3>1. table'[k] = table[k]
      BY <1>1, <2>2 DEF bulkUpsertUsersBatch
    <3>2. e \in With(k, stored \ Pending)
      BY <2>2 DEF With
    <3> QED
      BY <2>1, <3>1, <3>2
  <2>3. CASE With(k, es) # {}
    <3>1. table'[k] \in With(k, es) /\ \A d \in With(k, es) : d <= table'[k]
      BY <1>1, <2>3 DEF bulkUpsertUsersBatch
    <3>2. table'[k] \in es
      BY <3>1 DEF With
    <3>3. CASE e \in es
      BY <3>1, <3>3 DEF With
    <3>4. CASE e \in stored \ Pending
      <4>1. e < table'[k]
        BY <1>3, <3>2, <3>4
      <4> QED
        BY <2>0, <4>1
    <3> QED
      BY <3>3, <3>4 DEF With
  <2> QED
    BY <2>2, <2>3
<1>5. \A k \in Ids : With(k, stored \ Pending)' \subseteq With(k, (stored \ Pending) \cup es)
  BY <1>0, <1>2 DEF With
<1> QED
  BY <1>0, <1>4, <1>5 DEF LastSoFar

LEMMA VersionInit == Init => VersionInv
<1> SUFFICES ASSUME Init PROVE HandledFirst /\ FirstSoFar /\ LastSoFar
  BY DEF VersionInv
<1>1. Pending = Elements
  BY DEF Init, Pending, Span
<1>2. stored = {} /\ \A k \in Ids : table[k] = 0
  BY DEF Init
<1> QED
  BY <1>1, <1>2 DEF HandledFirst, FirstSoFar, LastSoFar, With

LEMMA VersionNext == IInv /\ VersionInv /\ [Next]_vars => VersionInv'
<1>1. ASSUME VersionInv, UNCHANGED vars PROVE VersionInv'
  BY <1>1 DEF vars, VersionInv, HandledFirst, FirstSoFar, LastSoFar, Pending, With
<1>2. ASSUME IInv, VersionInv, Next PROVE VersionInv'
  <2>1. PICK s \in calls : Running(s) /\ (Execute(s) \/ ExpireDuring(s) \/ ExecuteExpired(s) \/ Disconnect(s))
    BY <1>2 DEF Next, Statement
  <2>2. result = "running" /\ UNCHANGED Batch
    BY <1>2 DEF Next, Statement
  <2>3. CASE Execute(s)
    <3>1. HandledFirst /\ FirstSoFar /\ LastSoFar
      BY <1>2, <2>2, <2>3 DEF VersionInv, Execute
    <3>2. HandledFirst'
      BY <1>2, <2>1, <2>2, <2>3, <3>1, HandledFirstNext
    <3>3. FirstSoFar'
      BY <1>2, <2>2, <2>3, <3>1, FirstNext
    <3>4. LastSoFar'
      BY <1>2, <2>2, <2>3, <3>1, LastNext
    <3> QED
      BY <3>2, <3>3, <3>4 DEF VersionInv
  <2>4. CASE ExpireDuring(s) \/ ExecuteExpired(s)
    BY <2>4 DEF ExpireDuring, ExecuteExpired, VersionInv
  <2>5. CASE Disconnect(s)
    BY <2>5 DEF Disconnect, VersionInv
  <2> QED
    BY <2>1, <2>3, <2>4, <2>5
<1> QED
  BY <1>1, <1>2

LEMMA Versions == Spec => [](IInv /\ VersionInv)
<1>1. Init => IInv /\ VersionInv
  BY InitInv, VersionInit
<1>2. (IInv /\ VersionInv) /\ [Next]_vars => (IInv /\ VersionInv)'
  BY StepInv, VersionNext
<1> QED
  BY <1>1, <1>2, PTL DEF Spec

(* At the end nothing is pending, and what is not poisonous is applied.    *)
LEMMA AllApplied ==
  ASSUME IInv, result = "returned", ctx = "live"
  PROVE  Pending = {} /\ stored = Elements \ poison
  BY DEF IInv, TypeOK, Bookkeeping, NothingDropped, Pending

(* A creation that is delivered again, or found twice in one batch, never  *)
(* replaces the row of the first one, however the batch is divided.        *)
THEOREM FirstRemains == Spec => []FirstVersionRemains
<1>1. IInv /\ VersionInv => FirstVersionRemains
  <2> SUFFICES ASSUME IInv, VersionInv, dialect = "insert", result = "returned", ctx = "live",
                      NEW k \in Ids, NEW e \in With(k, Elements) \ poison
               PROVE  0 < table[k] /\ table[k] <= e
    BY DEF FirstVersionRemains
  <2>1. e \in With(k, stored)
    BY AllApplied DEF With
  <2> QED
    BY <2>1 DEF VersionInv, FirstSoFar
<1> QED
  BY <1>1, Versions, PTL

(* The last valid version of a row in the batch is the one that remains:   *)
(* the halves are written in the order of the batch.                       *)
THEOREM LastRemains == Spec => []LastVersionRemains
<1>1. IInv /\ VersionInv => LastVersionRemains
  <2> SUFFICES ASSUME IInv, VersionInv, dialect \in {"upsert", "ordered"},
                      result = "returned", ctx = "live",
                      NEW k \in Ids, NEW e \in With(k, Elements) \ poison
               PROVE  e <= table[k]
    BY DEF LastVersionRemains
  <2>1. e \in With(k, stored \ Pending)
    BY AllApplied DEF With
  <2> QED
    BY <2>1 DEF VersionInv, LastSoFar
<1> QED
  BY <1>1, Versions, PTL

-----------------------------------------------------------------------------
(* How many statements are sent. *)

Length(s) == s[2] - s[1] + 1

(* The first value of a falling sequence that is below a bound. *)
LEMMA FirstBelow ==
  ASSUME NEW l \in Nat, NEW size \in [0 .. l -> Nat], NEW n \in Nat,
         n <= size[0], size[l] < n
  PROVE  \E i \in 1 .. l : n <= size[i - 1] /\ size[i] < n
<1> DEFINE T == {i \in 0 .. l : size[i] < n}
<1>1. l \in T /\ T \subseteq Nat /\ T # {}
  OBVIOUS
<1> HIDE DEF T
<1>3. PICK i \in T : \A j \in T : ~ (<<j, i>> \in OpToRel(<, Nat))
  BY <1>1, WFMin, NatLessThanWellFounded, Zenon
<1>4. \A j \in T : ~ (j < i)
  BY <1>1, <1>3, Zenon DEF OpToRel
<1>5. i \in 0 .. l /\ size[i] < n /\ i # 0
  BY DEF T
<1>6. i - 1 \in 0 .. l /\ i - 1 \notin T
  BY <1>1, <1>4, <1>5
<1>7. n <= size[i - 1]
  BY <1>6 DEF T
<1> QED
  BY <1>5, <1>7

(* What one statement does to the pending calls: the attempt at the whole  *)
(* batch fails, a call ends, or it is replaced by two halves.              *)
WholeFails == attempt = "whole" /\ attempt' = "recursion" /\ calls' = calls

Ends(s) == attempt' = attempt /\ calls' = calls \ {s}

Halved(s, l, r) ==
  /\ s[1] < s[2] /\ attempt = "recursion" /\ attempt' = attempt
  /\ calls' = (calls \ {s}) \cup {l, r}
  /\ l \in Segment /\ r \in Segment
  /\ Span(l) \cup Span(r) = Span(s) /\ Span(l) \cap Span(r) = {}
  /\ 2 * Length(l) <= Length(s) + 1 /\ 2 * Length(r) <= Length(s) + 1

LEMMA DivideShape ==
  ASSUME TypeOK, NEW s \in calls, Divide(s)
  PROVE  WholeFails \/ Ends(s) \/ \E l, r \in Segment : Halved(s, l, r)
<1>0. s \in Segment /\ s[1] \in Elements /\ s[2] \in Elements /\ s[1] <= s[2]
  BY DEF TypeOK, Segment
<1>1. CASE attempt = "whole"
  BY <1>1 DEF Divide, WholeFails
<1>2. CASE attempt = "recursion" /\ s[1] = s[2]
  BY <1>0, <1>2 DEF Divide, Ends
<1>3. CASE attempt = "recursion" /\ s[1] < s[2]
  <2> DEFINE l == <<s[1], s[1] + (s[2] - s[1] + 1) \div 2 - 1>>
             r == <<s[1] + (s[2] - s[1] + 1) \div 2, s[2]>>
  <2>1. calls' = (calls \ {s}) \cup {l, r} /\ attempt' = attempt
    BY <1>0, <1>3 DEF Divide
  <2>2. /\ l \in Segment /\ r \in Segment
        /\ Span(l) \cup Span(r) = Span(s) /\ Span(l) \cap Span(r) = {}
    BY <1>0, <1>3, Halves
  <2>3. 2 * Length(l) <= Length(s) + 1 /\ 2 * Length(r) <= Length(s) + 1
    BY <1>0, <1>3 DEF Length
  <2>4. Halved(s, l, r)
    BY <1>3, <2>1, <2>2, <2>3 DEF Halved
  <2> QED
    BY <2>2, <2>4
<1> QED
  BY <1>0, <1>1, <1>2, <1>3 DEF TypeOK

LEMMA StatementShape ==
  ASSUME TypeOK, NEW s \in calls, Execute(s) \/ ExpireDuring(s) \/ ExecuteExpired(s)
  PROVE  WholeFails \/ Ends(s) \/ \E l, r \in Segment : Halved(s, l, r)
<1>1. CASE Divide(s)
  BY <1>1, DivideShape
<1>2. CASE Succeed(s)
  BY <1>2 DEF Succeed, Ends
<1> QED
  BY <1>1, <1>2 DEF Execute, ExpireDuring, ExecuteExpired

(* Every pending call has elements of its own, so there are no more calls  *)
(* than pending elements.                                                  *)
LEMMA CallsFinite ==
  ASSUME TypeOK, CallsDisjoint
  PROVE  /\ IsFiniteSet(calls) /\ IsFiniteSet(Pending) /\ Pending \subseteq Elements
         /\ Cardinality(calls) \in Nat /\ Cardinality(Pending) \in Nat
         /\ Cardinality(calls) <= Cardinality(Pending)
         /\ calls # {} => Cardinality(calls) >= 1
<1>1. \A s \in calls : s[1] \in Span(s) /\ Span(s) \subseteq Elements
  BY DEF TypeOK, Segment, Span
<1>2. Pending \subseteq Elements /\ IsFiniteSet(Elements)
  BY <1>1, FS_Interval DEF Pending
<1>3. IsFiniteSet(Pending)
  BY <1>2, FS_Subset
<1> DEFINE f == [s \in calls |-> s[1]]
<1>4. f \in [calls -> Pending]
  BY <1>1 DEF Pending
<1>5. \A s, t \in calls : f[s] = f[t] => s = t
  BY <1>1 DEF CallsDisjoint
<1> HIDE DEF f
<1>6. f \in Injection(calls, Pending)
  BY <1>4, <1>5 DEF Injection, IsInjective
<1>7. IsFiniteSet(calls) /\ Cardinality(calls) <= Cardinality(Pending)
  BY <1>3, <1>6, FS_Injection
<1>8. Cardinality(calls) \in Nat /\ Cardinality(Pending) \in Nat
  BY <1>3, <1>7, FS_CardinalityType
<1>9. Cardinality(calls) = 0 => calls = {}
  BY <1>7, FS_EmptySet
<1> QED
  BY <1>2, <1>3, <1>7, <1>8, <1>9

(* Two halves count as one call more. *)
LEMMA HalvesCount ==
  ASSUME TypeOK, CallsDisjoint, NEW s \in calls, NEW l \in Segment, NEW r \in Segment,
         Span(l) \cup Span(r) = Span(s), Span(l) \cap Span(r) = {}
  PROVE  Cardinality((calls \ {s}) \cup {l, r}) = Cardinality(calls) + 1
<1>1. \A t \in {l, r} : Span(t) # {} /\ Span(t) \subseteq Span(s)
  BY DEF Segment, Span
<1>2. l # r /\ l \notin calls \ {s} /\ r \notin calls \ {s}
  BY <1>1 DEF CallsDisjoint
<1>3. IsFiniteSet(calls) /\ Cardinality(calls) \in Nat
  BY CallsFinite
<1> DEFINE A == calls \ {s}
           B == A \cup {l}
<1>4. IsFiniteSet(A) /\ Cardinality(A) = Cardinality(calls) - 1
  BY <1>3, FS_RemoveElement
<1>5. IsFiniteSet(B) /\ Cardinality(B) = Cardinality(A) + 1
  BY <1>2, <1>4, FS_AddElement
<1>6. Cardinality(B \cup {r}) = Cardinality(B) + 1
  <2>1. r \notin B
    BY <1>2
  <2> HIDE DEF B
  <2> QED
    BY <1>5, <2>1, FS_AddElement
<1>7. (calls \ {s}) \cup {l, r} = B \cup {r}
  OBVIOUS
<1> HIDE DEF A, B
<1>8. Cardinality(B \cup {r}) = Cardinality(calls) + 1
  BY <1>3, <1>4, <1>5, <1>6
<1> QED
  BY <1>7, <1>8

LEMMA EndsCount ==
  ASSUME TypeOK, CallsDisjoint, NEW s \in calls
  PROVE  /\ Cardinality(calls \ {s}) = Cardinality(calls) - 1
         /\ Cardinality(Pending \ Span(s)) <= Cardinality(Pending) - 1
         /\ Cardinality(Pending \ Span(s)) \in Nat
<1>1. /\ IsFiniteSet(calls) /\ IsFiniteSet(Pending)
      /\ Cardinality(calls) \in Nat /\ Cardinality(Pending) \in Nat
  BY CallsFinite
<1>2. s[1] \in Span(s) /\ s[1] \in Pending
  BY DEF TypeOK, Segment, Span, Pending
<1>3. /\ IsFiniteSet(Pending \ {s[1]})
      /\ Cardinality(Pending \ {s[1]}) = Cardinality(Pending) - 1
  BY <1>1, <1>2, FS_RemoveElement
<1>4. Pending \ Span(s) \in SUBSET (Pending \ {s[1]})
  BY <1>2
<1>5. /\ IsFiniteSet(Pending \ Span(s))
      /\ Cardinality(Pending \ Span(s)) <= Cardinality(Pending \ {s[1]})
  BY <1>3, <1>4, FS_Subset
<1>6. Cardinality(Pending \ Span(s)) \in Nat
  BY <1>5, FS_CardinalityType
<1> QED
  BY <1>1, <1>3, <1>5, <1>6, FS_RemoveElement

-----------------------------------------------------------------------------
(* A pending element costs two statements at most, less one for each call  *)
(* that is already divided off.                                            *)
WholeDue == IF attempt = "whole" THEN 1 ELSE 0

TwoPerElement ==
  /\ count <= 2 * N
  /\ result # "error" =>
       count + 2 * Cardinality(Pending) + WholeDue <= 2 * N + Cardinality(calls)

LEMMA TwoInit == Init => TwoPerElement
<1> SUFFICES ASSUME Init PROVE TwoPerElement
  OBVIOUS
<1>1. calls = {<<1, N>>} /\ count = 0 /\ N \in Nat /\ N >= 1
  BY DEF Init
<1>2. Pending = Elements
  BY <1>1 DEF Pending, Span
<1>3. Cardinality(Pending) = N /\ Cardinality(calls) = 1
  <2>1. Cardinality(1 .. N) = N
    BY <1>1, FS_Interval
  <2> QED
    BY <1>1, <1>2, <2>1, FS_Singleton
<1>4. WholeDue \in 0 .. 1
  BY DEF WholeDue
<1> QED
  BY <1>1, <1>3, <1>4 DEF TwoPerElement

LEMMA TwoNext == IInv /\ TwoPerElement /\ [Next]_vars => TwoPerElement'
<1>1. ASSUME TwoPerElement, UNCHANGED vars PROVE TwoPerElement'
  BY <1>1 DEF vars, TwoPerElement, WholeDue, Pending
<1>2. ASSUME IInv, TwoPerElement, Next PROVE TwoPerElement'
  <2>1. PICK s \in calls : Execute(s) \/ ExpireDuring(s) \/ ExecuteExpired(s) \/ Disconnect(s)
    BY <1>2 DEF Next, Statement
  <2>2. result = "running" /\ count' = count + 1 /\ count \in Nat /\ TypeOK /\ CallsDisjoint
    BY <1>2 DEF Next, Statement, IInv, TypeOK
  <2>3. /\ Cardinality(calls) \in Nat /\ Cardinality(Pending) \in Nat
        /\ Cardinality(calls) <= Cardinality(Pending) /\ Cardinality(calls) >= 1
    BY <2>2, CallsFinite
  <2>4. count + 2 * Cardinality(Pending) + WholeDue <= 2 * N + Cardinality(calls)
    BY <1>2, <2>2 DEF TwoPerElement
  <2>5. WholeDue \in 0 .. 1 /\ WholeDue' \in 0 .. 1 /\ N \in Nat
    BY DEF WholeDue
  <2>6. count' <= 2 * N
    BY <2>2, <2>3, <2>4, <2>5
  <2>7. CASE Disconnect(s)
    BY <2>6, <2>7 DEF Disconnect, TwoPerElement
  <2>8. CASE Execute(s) \/ ExpireDuring(s) \/ ExecuteExpired(s)
    <3>1. CASE WholeFails
      <4>1. Pending' = Pending /\ calls' = calls /\ WholeDue = 1 /\ WholeDue' = 0
        BY <3>1 DEF WholeFails, Pending, WholeDue
      <4> QED
        BY <2>2, <2>3, <2>4, <2>6, <4>1 DEF TwoPerElement
    <3>2. CASE Ends(s)
      <4>1. Pending' = Pending \ Span(s) /\ WholeDue' = WholeDue
        BY <2>2, <3>2, PendingWithout DEF Ends, Pending, WholeDue
      <4>2. /\ Cardinality(calls') = Cardinality(calls) - 1
            /\ Cardinality(Pending') <= Cardinality(Pending) - 1 /\ Cardinality(Pending') \in Nat
        BY <2>2, <3>2, <4>1, EndsCount DEF Ends
      <4> QED
        BY <2>2, <2>3, <2>4, <2>5, <2>6, <4>1, <4>2 DEF TwoPerElement
    <3>3. ASSUME NEW l \in Segment, NEW r \in Segment, Halved(s, l, r) PROVE TwoPerElement'
      <4>1. Pending' = Pending /\ WholeDue' = WholeDue
        BY <2>2, <3>3, PendingWithout DEF Halved, Pending, WholeDue
      <4>2. Cardinality(calls') = Cardinality(calls) + 1
        BY <2>2, <3>3, HalvesCount DEF Halved
      <4> QED
        BY <2>2, <2>3, <2>4, <2>5, <2>6, <4>1, <4>2 DEF TwoPerElement
    <3> QED
      BY <2>2, <2>8, <3>1, <3>2, <3>3, StatementShape
  <2> QED
    BY <2>1, <2>7, <2>8
<1> QED
  BY <1>1, <1>2

-----------------------------------------------------------------------------
(* The levels at which a poisonous element can still make a segment fail:  *)
(* those whose size its pending segment exceeds.                           *)
Due(l, size) ==
  {d \in poison \X (1 .. l) :
     \E s \in calls : d[1] \in Span(s) /\ size[d[2]] < Length(s)}

TwoPerLevel(l, size) ==
  ctx = "live" /\ dialect # "upsert" =>
    /\ count <= 2 + 2 * (l * Cardinality(poison))
    /\ result # "error" =>
         count + Cardinality(calls) + WholeDue + 2 * Cardinality(Due(l, size))
           <= 2 + 2 * (l * Cardinality(poison))

LEMMA DueFinite ==
  ASSUME TypeOK, NEW l \in Nat, NEW size
  PROVE  /\ IsFiniteSet(Due(l, size)) /\ Cardinality(Due(l, size)) \in Nat
         /\ Cardinality(poison) \in Nat /\ l * Cardinality(poison) \in Nat
         /\ Cardinality(Due(l, size)) <= l * Cardinality(poison)
<1>1. IsFiniteSet(Elements) /\ poison \in SUBSET Elements
  BY FS_Interval DEF TypeOK
<1>2. IsFiniteSet(poison) /\ Cardinality(poison) \in Nat
  BY <1>1, FS_Subset, FS_CardinalityType
<1>3. IsFiniteSet(1 .. l) /\ Cardinality(1 .. l) = l
  BY FS_Interval
<1>4. /\ IsFiniteSet(poison \X (1 .. l))
      /\ Cardinality(poison \X (1 .. l)) = Cardinality(poison) * Cardinality(1 .. l)
  BY <1>2, <1>3, FS_Product
<1>5. Due(l, size) \in SUBSET (poison \X (1 .. l))
  BY DEF Due
<1>6. /\ IsFiniteSet(Due(l, size))
      /\ Cardinality(Due(l, size)) <= Cardinality(poison \X (1 .. l))
  BY <1>4, <1>5, FS_Subset
<1>7. Cardinality(Due(l, size)) \in Nat
  BY <1>6, FS_CardinalityType
<1>8. PICK p \in Nat : p = Cardinality(poison)
  BY <1>2
<1>9. p * l = l * p /\ l * p \in Nat
  OBVIOUS
<1> QED
  BY <1>2, <1>3, <1>4, <1>6, <1>7, <1>8, <1>9

LEMMA LevelInit ==
  ASSUME NEW l \in Nat, NEW size, Init
  PROVE  TwoPerLevel(l, size)
<1>1. calls = {<<1, N>>} /\ count = 0 /\ TypeOK
  BY InitInv DEF Init, IInv
<1>2. Cardinality(calls) = 1
  BY <1>1, FS_Singleton
<1>3. WholeDue \in 0 .. 1
  BY DEF WholeDue
<1>4. PICK d \in Nat, k \in Nat : /\ d = Cardinality(Due(l, size))
                                  /\ k = l * Cardinality(poison) /\ d <= k
  BY <1>1, DueFinite
<1> QED
  BY <1>1, <1>2, <1>3, <1>4 DEF TwoPerLevel

(* A failing segment uses up one level of the poisonous element in it.     *)
LEMMA LevelUsed ==
  ASSUME IInv, UNCHANGED Batch, NEW k \in Nat, NEW size \in Halvings(k),
         NEW s \in calls, NEW l \in Segment, NEW r \in Segment, Halved(s, l, r),
         Span(s) \cap poison # {}
  PROVE  \E d \in Due(k, size) : Due(k, size)' \subseteq Due(k, size) \ {d}
<1> USE DEF IInv
<1>0. s \in Segment /\ Span(s) \subseteq Elements
  BY DEF TypeOK, Segment, Span
<1>1. /\ size \in [0 .. k -> 1 .. N] /\ size[0] = N /\ size[k] = 1
      /\ \A i \in 1 .. k : size[i] = (size[i - 1] + 1) \div 2
  BY DEF Halvings
<1>2. /\ Length(s) \in Nat /\ 1 < Length(s) /\ Length(s) <= N
      /\ Length(l) \in Nat /\ Length(r) \in Nat
      /\ 2 * Length(l) <= Length(s) + 1 /\ 2 * Length(r) <= Length(s) + 1
  BY <1>0 DEF Halved, Length, Segment
<1>3. PICK i \in 1 .. k : Length(s) <= size[i - 1] /\ size[i] < Length(s)
  <2>1. size \in [0 .. k -> Nat] /\ N \in Nat
    BY <1>1
  <2> QED
    BY <1>1, <1>2, <2>1, FirstBelow
<1>4. Length(l) <= size[i] /\ Length(r) <= size[i]
  <2>1. PICK m \in Nat, n \in Nat : m = size[i - 1] /\ n = size[i] /\ n = (m + 1) \div 2
    <3>1. i - 1 \in 0 .. k /\ i \in 0 .. k
      BY <1>3
    <3>2. size[i - 1] \in 1 .. N /\ size[i] \in 1 .. N
      BY <1>1, <3>1
    <3>3. size[i] = (size[i - 1] + 1) \div 2
      BY <1>1
    <3>4. PICK m \in Nat, n \in Nat : m = size[i - 1] /\ n = size[i]
      BY <3>2
    <3> QED
      BY <3>3, <3>4
  <2>2. PICK a \in Nat, b \in Nat, c \in Nat : a = Length(l) /\ b = Length(r) /\ c = Length(s)
    BY <1>2
  <2>3. 2 * a <= m + 1 /\ 2 * b <= m + 1
    BY <1>2, <1>3, <2>1, <2>2
  <2>4. a <= (m + 1) \div 2 /\ b <= (m + 1) \div 2
    BY <2>3
  <2> QED
    BY <2>1, <2>2, <2>4
<1>5. PICK p \in Span(s) \cap poison : TRUE
  OBVIOUS
<1>6. <<p, i>> \in Due(k, size)
  BY <1>3, <1>5 DEF Due
<1>7. /\ calls' = (calls \ {s}) \cup {l, r} /\ poison' = poison
      /\ Span(l) \subseteq Span(s) /\ Span(r) \subseteq Span(s)
  BY DEF Halved, Batch
<1>8. ASSUME NEW d \in Due(k, size)' PROVE d \in Due(k, size) /\ d # <<p, i>>
  <2>1. PICK t \in calls' : d[1] \in Span(t) /\ size[d[2]] < Length(t)
    BY <1>8 DEF Due, Length, Span
  <2>2. d \in poison \X (1 .. k) /\ d[2] \in 1 .. k /\ size[d[2]] \in Nat
    BY <1>1, <1>7, <1>8 DEF Due
  <2>3. CASE t \in calls \ {s}
    <3>1. d \in Due(k, size)
      BY <2>1, <2>2, <2>3 DEF Due
    <3>2. d[1] # p
      BY <1>5, <2>1, <2>3 DEF CallsDisjoint
    <3> QED
      BY <3>1, <3>2
  <2>4. CASE t \in {l, r}
    <3>1. d[1] \in Span(s)
      BY <1>7, <2>1, <2>4
    <3>2. Length(t) <= size[i] /\ size[i] \in Nat /\ Length(t) \in Nat
      <4>1. i \in 0 .. k
        OBVIOUS
      <4>2. size[i] \in 1 .. N
        BY <1>1, <4>1
      <4> QED
        BY <1>2, <1>4, <2>4, <4>2
    <3>3. size[d[2]] < Length(s)
      BY <1>2, <1>3, <2>1, <2>2, <3>2
    <3>4. d[2] # i
      BY <2>1, <2>2, <3>2
    <3> QED
      BY <2>2, <3>1, <3>3, <3>4 DEF Due
  <2> QED
    BY <1>7, <2>1, <2>3, <2>4
<1> QED
  BY <1>6, <1>8

LEMMA LevelNext ==
  ASSUME IInv, NEW k \in Nat, NEW size \in Halvings(k), TwoPerLevel(k, size), Next
  PROVE  TwoPerLevel(k, size)'
<1> USE DEF IInv
<1> SUFFICES ASSUME ctx' = "live", dialect' # "upsert" PROVE TwoPerLevel(k, size)'
  BY DEF TwoPerLevel
<1>1. PICK s \in calls : Execute(s) \/ ExpireDuring(s) \/ ExecuteExpired(s) \/ Disconnect(s)
  BY DEF Next, Statement
<1>2. /\ result = "running" /\ count' = count + 1 /\ count \in Nat
      /\ UNCHANGED <<dialect, key, poison>> /\ UNCHANGED Batch
  BY DEF Next, Statement, TypeOK, Batch
<1>3. ctx = "live" /\ (Execute(s) \/ Disconnect(s))
  BY <1>1 DEF Execute, ExpireDuring, ExecuteExpired, Disconnect
<1>4. Cardinality(calls) \in Nat /\ Cardinality(calls) >= 1
  BY CallsFinite
<1>5. WholeDue \in 0 .. 1 /\ WholeDue' \in 0 .. 1
  BY DEF WholeDue
<1>6. PICK d \in Nat, n \in Nat : d = Cardinality(Due(k, size)) /\ n = k * Cardinality(poison)
  BY DueFinite
<1>7. count + Cardinality(calls) + WholeDue + 2 * d <= 2 + 2 * n
  BY <1>2, <1>3, <1>6 DEF TwoPerLevel
<1>8. count' <= 2 + 2 * n
  BY <1>2, <1>4, <1>5, <1>7
<1>9. ASSUME NEW S, Due(k, size)' = S
      PROVE  TwoPerLevel(k, size)' <=>
               count' <= 2 + 2 * n /\ (result' # "error" =>
                 count' + Cardinality(calls') + WholeDue' + 2 * Cardinality(S) <= 2 + 2 * n)
  BY <1>2, <1>6, <1>9 DEF TwoPerLevel
<1>10. CASE Disconnect(s)
  BY <1>8, <1>9, <1>10 DEF Disconnect
<1>11. CASE Execute(s)
  <2>1. CASE WholeFails
    <3>1. Due(k, size)' = Due(k, size)
      BY <1>2, <2>1 DEF WholeFails, Due, Length, Span
    <3>2. WholeDue = 1 /\ WholeDue' = 0 /\ calls' = calls
      BY <2>1 DEF WholeFails, WholeDue
    <3> QED
      BY <1>2, <1>4, <1>6, <1>7, <1>8, <1>9, <3>1, <3>2
  <2>2. CASE Ends(s)
    <3>1. Due(k, size)' \in SUBSET Due(k, size)
      BY <1>2, <2>2 DEF Ends, Due, Length, Span
    <3>2. PICK S \in SUBSET Due(k, size) : Due(k, size)' = S
      BY <3>1
    <3>3. Cardinality(S) <= d /\ Cardinality(S) \in Nat
      BY <1>6, DueFinite, FS_Subset, FS_CardinalityType
    <3>4. Cardinality(calls') = Cardinality(calls) - 1 /\ WholeDue' = WholeDue
      BY <2>2, EndsCount DEF Ends, WholeDue
    <3> QED
      BY <1>2, <1>4, <1>5, <1>6, <1>7, <1>8, <1>9, <3>2, <3>3, <3>4
  <2>3. ASSUME NEW l \in Segment, NEW r \in Segment, Halved(s, l, r) PROVE TwoPerLevel(k, size)'
    <3>1. Span(s) \cap poison # {}
      <4>1. s \in calls' \/ ~Rejected(Span(s)) => FALSE
        <5>1. l # s /\ r # s
          BY <2>3 DEF Halved, Length, Segment
        <5>2. s \notin calls'
          BY <2>3, <5>1 DEF Halved
        <5>3. Rejected(Span(s))
          <6>1. SUFFICES ASSUME ~Rejected(Span(s)) PROVE FALSE
            OBVIOUS
          <6>2. calls' = calls \ {s}
            BY <1>11, <6>1 DEF Execute, Succeed
          <6>3. Span(l) # {} /\ Span(l) \subseteq Span(s) /\ l \in calls'
            BY <2>3 DEF Halved, Segment, Span
          <6> QED
            BY <6>2, <6>3 DEF CallsDisjoint
        <5> QED
          BY <5>2, <5>3
      <4> QED
        BY <1>2, <4>1 DEF Rejected
    <3>2. PICK x \in Due(k, size) : Due(k, size)' \subseteq Due(k, size) \ {x}
      BY <1>2, <2>3, <3>1, LevelUsed
    <3>3. PICK S \in SUBSET (Due(k, size) \ {x}) : Due(k, size)' = S
      BY <3>2
    <3>4. IsFiniteSet(Due(k, size) \ {x}) /\ Cardinality(Due(k, size) \ {x}) = d - 1
      BY <1>6, DueFinite, FS_RemoveElement
    <3>5. Cardinality(S) <= d - 1 /\ Cardinality(S) \in Nat
      BY <3>4, FS_Subset, FS_CardinalityType
    <3>6. Cardinality(calls') = Cardinality(calls) + 1 /\ WholeDue' = WholeDue
      BY <2>3, HalvesCount DEF Halved, WholeDue
    <3> QED
      BY <1>2, <1>4, <1>5, <1>6, <1>7, <1>8, <1>9, <3>3, <3>5, <3>6
  <2> QED
    BY <1>11, <2>1, <2>2, <2>3, StatementShape
<1> QED
  BY <1>3, <1>10, <1>11

CountInv ==
  TwoPerElement /\ \A l \in Nat : \A size \in Halvings(l) : TwoPerLevel(l, size)

LEMMA CountNext == IInv /\ CountInv /\ [Next]_vars => CountInv'
<1>1. ASSUME CountInv, UNCHANGED vars PROVE CountInv'
  <2>1. ASSUME NEW l \in Nat, NEW size \in Halvings(l), TwoPerLevel(l, size)
        PROVE  TwoPerLevel(l, size)'
    BY <1>1, <2>1 DEF vars, TwoPerLevel, Due, WholeDue, Length, Span
  <2>2. TwoPerElement'
    BY <1>1, TwoNext DEF CountInv, vars, TwoPerElement, WholeDue, Pending
  <2> QED
    BY <1>1, <2>1, <2>2 DEF CountInv, Halvings
<1>2. ASSUME IInv, CountInv, Next PROVE CountInv'
  <2>1. ASSUME NEW l \in Nat, NEW size \in Halvings(l)
        PROVE  TwoPerLevel(l, size)'
    BY <1>2, LevelNext DEF CountInv
  <2>2. TwoPerElement'
    BY <1>2, TwoNext DEF CountInv
  <2> QED
    BY <2>1, <2>2 DEF CountInv, Halvings
<1> QED
  BY <1>1, <1>2

(* The division sends at most two statements per element, and, while only  *)
(* poisonous elements fail, two per poisonous element and level: each      *)
(* failing segment uses up a level of the poisonous element it holds.      *)
THEOREM StatementsAreFew == Spec => []FewStatements
<1>1. Init => IInv /\ CountInv
  BY InitInv, TwoInit, LevelInit DEF CountInv
<1>2. (IInv /\ CountInv) /\ [Next]_vars => (IInv /\ CountInv)'
  BY StepInv, CountNext
<1>3. IInv /\ CountInv => FewStatements
  <2> SUFFICES ASSUME CountInv, ctx = "live", dialect # "upsert", NEW l \in Levels
               PROVE  count <= 2 + 2 * (l * Cardinality(poison))
    BY DEF FewStatements, CountInv, TwoPerElement
  <2>1. l \in Nat /\ Halvings(l) # {}
    BY DEF Levels
  <2> QED
    BY <2>1 DEF CountInv, TwoPerLevel
<1> QED
  BY <1>1, <1>2, <1>3, PTL DEF Spec
=============================================================================
