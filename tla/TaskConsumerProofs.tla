------------------------- MODULE TaskConsumerProofs -------------------------
(***************************************************************************)
(* Proofs about TaskConsumer, for every log length, batch size, number of  *)
(* restarts and combination of faults.                                     *)
(***************************************************************************)
EXTENDS TaskConsumer, TLAPS

USE DEF topic

(* A bulk call stores and rejects records of its batch only, and without   *)
(* an error every record of the batch is stored or returned.               *)
LEMMA BulkResultType ==
  ASSUME NEW recs, NEW poison, NEW expired, NEW conn,
         NEW r \in BulkResult(recs, poison, expired, conn)
  PROVE  /\ r.err \in BOOLEAN
         /\ r.stored \subseteq recs /\ r.failed \subseteq recs
         /\ ~r.err => recs \subseteq r.stored \cup r.failed
         /\ r.err => r.failed = {}
  BY DEF BulkResult

(* The commit loop keeps an offset that lies behind every merged one.      *)
LEMMA CommitMessagesMerges ==
  ASSUME TypeOK, NEW os \in SUBSET Offsets, CommitMessages(os)
  PROVE  /\ stash' \in 0 .. Len(log) + 1
         /\ stash' = stash \/ \E m \in os : stash' = m + 1
<1>1. PICK next \in {o + 1 : o \in os} \cup {stash} : stash' = next
  BY DEF CommitMessages
<1> QED
  BY <1>1 DEF TypeOK, Offsets

(* Init establishes the invariant. *)
LEMMA InitInv == Init => IInv
<1> SUFFICES ASSUME Init PROVE IInv
  OBVIOUS
<1>1. log \in Seq(Kinds) /\ Len(log) = 0 /\ Offsets = {}
  BY DEF Init, Offsets
<1>2. committed = 1 /\ pos = 1 /\ stash = 0 /\ restarts = 0
  BY DEF Init
<1>3. TypeOK
  <2>1. phase = "idle" /\ batch = {} /\ failed = {} /\ ctx = "live"
        /\ stored = {} /\ dlqBuf = {} /\ dlq = {} /\ exposed = {}
        /\ faults \in FaultSets[handler] /\ handler \in Handlers
    BY DEF Init
  <2> QED
    BY <1>1, <1>2, <2>1 DEF TypeOK
<1> QED
  BY <1>1, <1>3 DEF Init, IInv, LossAccounted, NothingSkipped, StashAccounted,
                    BatchCovered, PhaseConsistent

-----------------------------------------------------------------------------
(* Type correctness, one step per action. *)

LEMMA TypeStep == TypeOK /\ [Next]_vars => TypeOK'
<1> SUFFICES ASSUME TypeOK, [Next]_vars PROVE TypeOK'
  OBVIOUS
<1> USE DEF TypeOK, Offsets, worker, reader, sinks
<1>1. CASE Publish
  <2>1. PICK k \in Kinds : log' = Append(log, k)
    BY <1>1 DEF Publish
  <2>2. log' \in Seq(Kinds) /\ Len(log') = Len(log) + 1 /\ Len(log) \in Nat
    BY <2>1
  <2> QED
    BY <1>1, <2>2 DEF Publish
<1>2. CASE Fetch
  <2>1. pos \in 1 .. Len(log) /\ pos' = pos + 1 /\ Len(log) \in Nat
    BY <1>2 DEF Fetch
  <2>2. CASE SkipMalformed \/ IsolateMalformed
    <3>1. CommitMalformed
      BY <2>2 DEF SkipMalformed, IsolateMalformed
    <3>2. stash' \in 0 .. Len(log) + 1 /\ batch' = batch
      BY <2>1, <3>1, CommitMessagesMerges DEF CommitMalformed
    <3>3. dlqBuf' \subseteq Offsets /\ exposed' \subseteq Offsets
      BY <2>1, <2>2 DEF SkipMalformed, IsolateMalformed, sendToDLQ
    <3> QED
      BY <1>2, <2>1, <3>2, <3>3 DEF Fetch
  <2>3. CASE Buffer
    BY <1>2, <2>1, <2>3 DEF Fetch, Buffer
  <2> QED
    BY <1>2, <2>2, <2>3 DEF Fetch
<1>3. CASE EndFill
  BY <1>3 DEF EndFill
<1>4. CASE flushBatch
  <2>1. PICK r \in BulkResult(batch, batch \cap OfKind("poison"),
                              "timeout" \in faults \/ ctx = "cancelled", "conn" \in faults) :
          /\ stored' = stored \cup r.stored
          /\ failed' = r.failed
          /\ IF r.err
             THEN phase' = "idle" /\ batch' = {} /\ exposed' = exposed \cup batch
             ELSE phase' = "isolate" /\ UNCHANGED <<batch, exposed>>
    BY <1>4 DEF flushBatch
  <2>2. r.stored \subseteq batch /\ r.failed \subseteq batch
        /\ (r.err => r.failed = {})
    BY <2>1, BulkResultType
  <2> QED
    BY <1>4, <2>1, <2>2 DEF flushBatch
<1>5. CASE CommitBatch
  <2>1. stash' \in 0 .. Len(log) + 1
    BY <1>5, CommitMessagesMerges DEF CommitBatch
  <2> QED
    BY <1>5, <2>1 DEF CommitBatch
<1>6. ASSUME NEW o \in Offsets, handleDLQ(o) PROVE TypeOK'
  BY <1>6 DEF handleDLQ, sendToDLQ
<1>7. ASSUME NEW o \in Offsets, DeliverDLQ(o) PROVE TypeOK'
  BY <1>7 DEF DeliverDLQ
<1>8. ASSUME NEW o \in Offsets, LoseDLQ(o) PROVE TypeOK'
  BY <1>8 DEF LoseDLQ
<1>9. CASE CommitTick
  BY <1>9 DEF CommitTick
<1>10. CASE Rebalance
  BY <1>10 DEF Rebalance, FinalCommit
<1>11. CASE Crash
  <2>1. exposed' \subseteq Offsets /\ UNCHANGED log
    BY <1>11 DEF Crash
  <2>2. pos' \in 1 .. Len(log) + 1 /\ stash' = 0 /\ restarts' \in Nat
    BY <1>11 DEF Crash
  <2> QED
    BY <1>11, <2>1, <2>2 DEF Crash
<1>12. CASE Sigterm
  BY <1>12 DEF Sigterm
<1>13. CASE Exit
  BY <1>13 DEF Exit, FinalCommit
<1>14. CASE Restart
  BY <1>14 DEF Restart
<1>15. CASE UNCHANGED vars
  BY <1>15 DEF vars
<1> QED
  BY <1>1, <1>2, <1>3, <1>4, <1>5, <1>6, <1>7, <1>8, <1>9, <1>10, <1>11,
     <1>12, <1>13, <1>14, <1>15 DEF Next

(* The state of log, reader, handler and DLQ writer is well typed. *)
THEOREM TypeCorrect == Spec => []TypeOK
<1>1. Init => TypeOK
  BY InitInv DEF IInv
<1> QED
  BY <1>1, TypeStep, PTL DEF Spec

-----------------------------------------------------------------------------
(* The inductive invariant, one step per action. *)

(* Nothing that is accounted for is forgotten, except by a crash. *)
LEMMA AccountedGrows ==
  ASSUME TypeOK,
         \/ Fetch \/ EndFill \/ flushBatch \/ CommitBatch
         \/ \E o \in Offsets : handleDLQ(o) \/ DeliverDLQ(o) \/ LoseDLQ(o)
         \/ CommitTick \/ Rebalance \/ Sigterm \/ Exit \/ Restart
         \/ UNCHANGED vars
  PROVE  Accounted \subseteq Accounted' /\ Offsets' = Offsets
<1> USE DEF Accounted, Settled, Offsets, sinks, worker, reader
<1>1. CASE Fetch
  BY <1>1 DEF Fetch, SkipMalformed, IsolateMalformed, CommitMalformed, sendToDLQ, Buffer
<1>2. CASE EndFill \/ CommitBatch \/ CommitTick \/ Restart \/ Sigterm
  BY <1>2 DEF EndFill, CommitBatch, CommitTick, Restart, Sigterm
<1>3. CASE flushBatch
  BY <1>3 DEF flushBatch
<1>4. ASSUME NEW o \in Offsets, handleDLQ(o) \/ DeliverDLQ(o) \/ LoseDLQ(o)
      PROVE  Accounted \subseteq Accounted' /\ Offsets' = Offsets
  BY <1>4 DEF handleDLQ, sendToDLQ, DeliverDLQ, LoseDLQ
<1>5. CASE Rebalance \/ Exit
  BY <1>5 DEF Rebalance, Exit
<1>6. CASE UNCHANGED vars
  BY <1>6 DEF vars
<1> QED
  BY <1>1, <1>2, <1>3, <1>4, <1>5, <1>6

LEMMA PublishInv == IInv /\ TypeOK' /\ Publish => IInv'
<1> SUFFICES ASSUME IInv, TypeOK', Publish PROVE IInv'
  OBVIOUS
<1>1. PICK k \in Kinds : log' = Append(log, k)
  BY DEF Publish
<1>2. Len(log') = Len(log) + 1 /\ Len(log) \in Nat
  BY <1>1 DEF IInv, TypeOK
<1>3. Offsets' = Offsets \cup {Len(log) + 1} /\ Accounted' = Accounted
  BY <1>2 DEF Offsets, Publish, Accounted, Settled, sinks
<1>4. UNCHANGED <<committed, pos, stash, phase, batch, failed>>
  BY DEF Publish, reader, worker
<1>5. /\ committed <= Len(log) + 1 /\ pos <= Len(log) + 1
      /\ stash <= Len(log) + 1 /\ \A b \in batch : b <= Len(log)
      /\ committed \in Int /\ pos \in Int /\ stash \in Int /\ batch \subseteq Int
  BY <1>2 DEF IInv, TypeOK, Offsets
<1>6. \A n \in {committed, pos, stash} \cup batch :
        \A o \in Offsets' : o < n => o \in Offsets
  BY <1>2, <1>3, <1>5
<1> QED
  BY <1>3, <1>4, <1>6 DEF IInv, LossAccounted, NothingSkipped, StashAccounted,
                          BatchCovered, PhaseConsistent

LEMMA FetchInv == IInv /\ TypeOK' /\ Fetch => IInv'
<1> SUFFICES ASSUME IInv, TypeOK', Fetch PROVE IInv'
  OBVIOUS
<1>1. Accounted \subseteq Accounted' /\ Offsets' = Offsets
  BY AccountedGrows DEF IInv
<1>2. /\ pos \in Offsets /\ pos' = pos + 1 /\ committed' = committed
      /\ phase' = "fill" /\ failed' = failed /\ phase \in {"idle", "fill"}
      /\ Offsets \subseteq Int
  BY DEF Fetch, IInv, TypeOK, Offsets
<1>3. LossAccounted'
  BY <1>1, <1>2 DEF IInv, LossAccounted
<1>4. PhaseConsistent'
  BY <1>2 DEF IInv, PhaseConsistent
<1>5. CASE SkipMalformed \/ IsolateMalformed
  <2>1. batch' = batch /\ batch \cup {pos} \subseteq Accounted'
    BY <1>5 DEF SkipMalformed, IsolateMalformed, CommitMalformed, sendToDLQ, Accounted
  <2>2. stash' = stash \/ stash' = pos + 1
    BY <1>2, <1>5, CommitMessagesMerges
    DEF SkipMalformed, IsolateMalformed, CommitMalformed, IInv
  <2>3. \A o \in Offsets : o < pos + 1 => o \in Accounted'
    BY <1>1, <1>2, <2>1 DEF IInv, NothingSkipped
  <2>4. NothingSkipped' /\ StashAccounted'
    BY <1>1, <1>2, <2>2, <2>3 DEF IInv, NothingSkipped, StashAccounted
  <2>5. BatchCovered'
    BY <1>1, <2>1 DEF IInv, BatchCovered
  <2> QED
    BY <1>3, <1>4, <2>4, <2>5 DEF IInv
<1>6. CASE Buffer
  <2>1. batch' = batch \cup {pos} /\ stash' = stash
    BY <1>6 DEF Buffer
  <2>2. NothingSkipped' /\ StashAccounted'
    BY <1>1, <1>2, <2>1 DEF IInv, NothingSkipped, StashAccounted
  <2>3. BatchCovered'
    BY <1>1, <1>2, <2>1 DEF IInv, BatchCovered, NothingSkipped
  <2> QED
    BY <1>3, <1>4, <2>2, <2>3 DEF IInv
<1> QED
  BY <1>5, <1>6 DEF Fetch

LEMMA FlushInv == IInv /\ TypeOK' /\ flushBatch => IInv'
<1> SUFFICES ASSUME IInv, TypeOK', flushBatch PROVE IInv'
  OBVIOUS
<1>1. Accounted \subseteq Accounted' /\ Offsets' = Offsets
  BY AccountedGrows DEF IInv
<1>2. UNCHANGED <<committed, pos, stash>>
  BY DEF flushBatch, reader
<1>3. PICK r \in BulkResult(batch, batch \cap OfKind("poison"),
                            "timeout" \in faults \/ ctx = "cancelled",
                            "conn" \in faults) :
        /\ stored' = stored \cup r.stored
        /\ failed' = r.failed
        /\ IF r.err
           THEN phase' = "idle" /\ batch' = {} /\ exposed' = exposed \cup batch
           ELSE phase' = "isolate" /\ UNCHANGED <<batch, exposed>>
  BY DEF flushBatch
<1>4. /\ ~r.err => batch \subseteq r.stored \cup r.failed
      /\ r.err => r.failed = {}
  BY <1>3, BulkResultType
<1>5. batch' \in {batch, {}} /\ batch \subseteq Accounted' \cup batch'
  BY <1>3 DEF Accounted
<1>6. PhaseConsistent'
  BY <1>3, <1>4 DEF PhaseConsistent, Accounted, Settled
<1> QED
  BY <1>1, <1>2, <1>5, <1>6
  DEF IInv, LossAccounted, NothingSkipped, StashAccounted, BatchCovered

LEMMA CommitInv == IInv /\ TypeOK' /\ CommitBatch => IInv'
<1> SUFFICES ASSUME IInv, TypeOK', CommitBatch PROVE IInv'
  OBVIOUS
<1>1. Accounted \subseteq Accounted' /\ Offsets' = Offsets
  BY AccountedGrows DEF IInv
<1>2. /\ phase = "isolate" /\ failed = {} /\ failed' = {} /\ batch' = {}
      /\ phase' = "idle" /\ UNCHANGED <<committed, pos>>
  BY DEF CommitBatch
<1>3. batch \subseteq Accounted /\ batch \subseteq Offsets /\ Offsets \subseteq Int
  BY <1>2 DEF IInv, PhaseConsistent, TypeOK, Offsets
<1>4. stash' = stash \/ \E m \in batch : stash' = m + 1
  BY <1>3, CommitMessagesMerges DEF CommitBatch, IInv
<1>5. \A m \in batch : \A o \in Offsets : o < m + 1 => o \in Accounted
  BY <1>3 DEF IInv, BatchCovered
<1>6. StashAccounted'
  BY <1>1, <1>4, <1>5 DEF IInv, StashAccounted
<1> QED
  BY <1>1, <1>2, <1>3, <1>6
  DEF IInv, LossAccounted, NothingSkipped, BatchCovered, PhaseConsistent

LEMMA DLQInv ==
  ASSUME IInv, TypeOK', NEW d \in Offsets,
         handleDLQ(d) \/ DeliverDLQ(d) \/ LoseDLQ(d)
  PROVE  IInv'
<1>1. Accounted \subseteq Accounted' /\ Offsets' = Offsets
  BY AccountedGrows DEF IInv
<1>2. UNCHANGED <<committed, pos, stash, phase, batch>>
  BY DEF handleDLQ, sendToDLQ, DeliverDLQ, LoseDLQ, reader, worker
<1>3. failed' \subseteq failed /\ failed \subseteq failed' \cup Accounted'
  BY DEF handleDLQ, sendToDLQ, DeliverDLQ, LoseDLQ, worker, Accounted
<1> QED
  BY <1>1, <1>2, <1>3 DEF IInv, LossAccounted, NothingSkipped, StashAccounted,
                          BatchCovered, PhaseConsistent

(* The reader goes back to an offset behind which all is accounted for. *)
LEMMA RewindInv == IInv /\ TypeOK' /\ (Rebalance \/ Exit) => IInv'
<1> SUFFICES ASSUME IInv, TypeOK', Rebalance \/ Exit PROVE IInv'
  OBVIOUS
<1>1. Accounted \subseteq Accounted' /\ Offsets' = Offsets
  BY AccountedGrows DEF IInv
<1>2. /\ committed' \in {committed, stash} /\ pos' = committed' /\ stash' = 0
      /\ UNCHANGED <<batch, failed>> /\ phase' \in {phase, "down"}
      /\ phase' # phase => phase = "idle"
  BY DEF Rebalance, Exit, FinalCommit, worker
<1>3. LossAccounted' /\ NothingSkipped'
  BY <1>1, <1>2 DEF IInv, LossAccounted, NothingSkipped, StashAccounted
<1>4. StashAccounted'
  BY <1>1, <1>2 DEF StashAccounted, Offsets
<1> QED
  BY <1>1, <1>2, <1>3, <1>4 DEF IInv, BatchCovered, PhaseConsistent

LEMMA CrashInv == IInv /\ TypeOK' /\ Crash => IInv'
<1> SUFFICES ASSUME IInv, TypeOK', Crash PROVE IInv'
  OBVIOUS
<1>1. /\ Offsets' = Offsets /\ committed' = committed /\ pos' = committed
      /\ stash' = 0 /\ batch' = {} /\ failed' = {} /\ phase' = "down"
  BY DEF Crash, Offsets
<1>2. \A o \in Accounted : o < committed => o \in Accounted'
  BY DEF Crash, Accounted, Settled
<1>3. LossAccounted' /\ NothingSkipped'
  BY <1>1, <1>2 DEF IInv, LossAccounted, NothingSkipped
<1>4. StashAccounted'
  BY <1>1 DEF StashAccounted, Offsets
<1> QED
  BY <1>1, <1>3, <1>4 DEF IInv, BatchCovered, PhaseConsistent

LEMMA OtherInv ==
  IInv /\ TypeOK'
  /\ (EndFill \/ CommitTick \/ Sigterm \/ Restart \/ UNCHANGED vars) => IInv'
<1> SUFFICES ASSUME IInv, TypeOK',
                    EndFill \/ CommitTick \/ Sigterm \/ Restart \/ UNCHANGED vars
             PROVE  IInv'
  OBVIOUS
<1>1. Accounted \subseteq Accounted' /\ Offsets' = Offsets
  BY AccountedGrows DEF IInv
<1>2. /\ UNCHANGED <<pos, batch, failed>>
      /\ committed' \in {committed, stash} /\ stash' \in {stash, 0}
  BY DEF EndFill, CommitTick, Sigterm, Restart, vars, reader, worker
<1>3. LossAccounted' /\ NothingSkipped' /\ BatchCovered'
  BY <1>1, <1>2
  DEF IInv, LossAccounted, NothingSkipped, StashAccounted, BatchCovered
<1>4. StashAccounted'
  BY <1>1, <1>2 DEF IInv, StashAccounted, Offsets
<1>5. PhaseConsistent'
  BY <1>1, <1>2 DEF IInv, PhaseConsistent, EndFill, CommitTick, Sigterm,
                    Restart, vars, worker
<1> QED
  BY <1>3, <1>4, <1>5 DEF IInv

LEMMA StepInv == IInv /\ [Next]_vars => IInv'
<1> SUFFICES ASSUME IInv, [Next]_vars PROVE IInv'
  OBVIOUS
<1>1. TypeOK'
  BY TypeStep DEF IInv
<1> QED
  BY <1>1, PublishInv, FetchInv, FlushInv, CommitInv, DLQInv, RewindInv,
     CrashInv, OtherInv DEF Next

(* The consumer loses a record only in the windows marked "exposed": every *)
(* other committed offset is stored, in the DLQ, or on its way to it.      *)
THEOREM LossIsAccounted == Spec => []LossAccounted
<1>1. IInv => LossAccounted
  BY DEF IInv
<1> QED
  BY <1>1, InitInv, StepInv, PTL DEF Spec

(* The running consumer never jumps over a record. *)
THEOREM NoRecordSkipped == Spec => []NothingSkipped
<1>1. IInv => NothingSkipped
  BY DEF IInv
<1> QED
  BY <1>1, InitInv, StepInv, PTL DEF Spec

-----------------------------------------------------------------------------
(* What holds when some faults are absent. *)

(* A published record keeps its kind. *)
LEMMA KindsStay ==
  ASSUME TypeOK, [Next]_vars, NEW k
  PROVE  OfKind(k) \subseteq OfKind(k)'
<1>1. CASE Publish
  <2>1. PICK kind \in Kinds : log' = Append(log, kind)
    BY <1>1 DEF Publish
  <2>2. Len(log') = Len(log) + 1 /\ \A o \in Offsets : log'[o] = log[o]
    BY <2>1 DEF TypeOK, Offsets
  <2> QED
    BY <2>2 DEF OfKind, Offsets, TypeOK
<1>2. CASE UNCHANGED log
  BY <1>2 DEF OfKind, Offsets
<1> QED
  BY <1>1, <1>2
  DEF Next, Fetch, EndFill, flushBatch, CommitBatch, handleDLQ, DeliverDLQ,
      LoseDLQ, CommitTick, Rebalance, Crash, Sigterm, Exit, Restart, vars

(* What nobody but a DLQ can take.                                         *)
Poisonous == OfKind("poison") \cup OfKind("malformed")

(* Without an expiring bulk call the database rejects poison only, and     *)
(* nothing valid enters the DLQ path.                                      *)
PoisonPath ==
  /\ ctx = "live"
  /\ failed \cup dlqBuf \cup dlq \subseteq Poisonous

LEMMA PoisonStep ==
  ASSUME faults \cap {"timeout", "shutdown"} = {},
         TypeOK, PoisonPath, [Next]_vars
  PROVE  PoisonPath'
<1> USE DEF PoisonPath, worker, sinks
<1>1. Poisonous \subseteq Poisonous'
  BY KindsStay DEF Poisonous
<1>2. CASE Publish \/ EndFill \/ CommitTick \/ Rebalance \/ Restart \/ UNCHANGED vars
  BY <1>1, <1>2 DEF Publish, EndFill, CommitTick, Rebalance, Restart, vars
<1>3. CASE CommitBatch \/ Crash \/ Exit
  BY <1>1, <1>3 DEF CommitBatch, Crash, Exit
<1>7. CASE Fetch
  <2>1. IsolateMalformed => pos \in Poisonous
    BY <1>7 DEF Fetch, TypeOK, IsolateMalformed, CommitMalformed, Poisonous, OfKind, Offsets
  <2> QED
    BY <1>1, <1>7, <2>1 DEF Fetch, SkipMalformed, IsolateMalformed, sendToDLQ, Buffer
<1>4. CASE flushBatch
  <2>1. PICK r \in BulkResult(batch, batch \cap OfKind("poison"),
                              "timeout" \in faults \/ ctx = "cancelled",
                              "conn" \in faults) : failed' = r.failed
    BY <1>4 DEF flushBatch
  <2>2. r.failed \subseteq Poisonous
    BY <2>1 DEF BulkResult, Poisonous
  <2> QED
    BY <1>1, <1>4, <2>1, <2>2 DEF flushBatch
<1>5. ASSUME NEW o \in Offsets, handleDLQ(o) \/ DeliverDLQ(o) \/ LoseDLQ(o)
      PROVE  PoisonPath'
  BY <1>1, <1>5 DEF handleDLQ, sendToDLQ, DeliverDLQ, LoseDLQ
<1>6. CASE Sigterm
  BY <1>6 DEF Sigterm
<1> QED
  BY <1>2, <1>3, <1>4, <1>5, <1>6, <1>7 DEF Next

(* The faults of a behaviour are chosen at its start.                      *)
LEMMA FaultsStay == [Next]_vars => UNCHANGED faults
  BY DEF Next, Publish, Fetch, EndFill, flushBatch, CommitBatch, handleDLQ, DeliverDLQ,
         LoseDLQ, CommitTick, Rebalance, Crash, Sigterm, Exit, Restart, vars

(* The DLQ receives no valid record as long as no bulk call outlives its   *)
(* context: connection errors, lost DLQ writes, malformed records, crashes *)
(* and rebalances alone never isolate a valid task.                        *)
THEOREM ValidIsNotIsolated == Spec => []OnlyPoisonWithoutExpiry
<1> DEFINE Safe == faults \cap {"timeout", "shutdown"} = {} => PoisonPath
<1>1. Init => Safe
  BY DEF Init, PoisonPath, Poisonous, OfKind, Offsets
<1>2. TypeOK /\ Safe /\ [Next]_vars => Safe'
  BY PoisonStep, FaultsStay
<1>3. Safe => OnlyPoisonWithoutExpiry
  BY DEF PoisonPath, Poisonous, OnlyPoisonIsolated, OnlyPoisonWithoutExpiry, OfKind
<1> HIDE DEF Safe
<1> QED
  BY <1>1, <1>2, <1>3, TypeCorrect, PTL DEF Spec

(* Without connection errors, expiring calls and malformed records, only   *)
(* poisoned records are exposed.                                           *)
LEMMA ExposedStep ==
  ASSUME Reliable, TypeOK, PoisonPath, exposed \subseteq OfKind("poison"), [Next]_vars
  PROVE  exposed' \subseteq OfKind("poison")'
<1> USE DEF sinks
<1>1. OfKind("poison") \subseteq OfKind("poison")'
  BY KindsStay
<1>2. CASE UNCHANGED exposed
  BY <1>1, <1>2
<1>3. CASE Fetch
  <2>1. log[pos] # "malformed"
    BY <1>3 DEF Fetch, TypeOK, Reliable, OfKind, Offsets
  <2> QED
    BY <1>1, <1>3, <2>1 DEF Fetch, SkipMalformed, IsolateMalformed, CommitMalformed, sendToDLQ, Buffer
<1>4. CASE flushBatch
  BY <1>1, <1>4 DEF flushBatch, BulkResult, Reliable
<1>5. ASSUME NEW o \in Offsets, handleDLQ(o) \/ LoseDLQ(o)
      PROVE  exposed' \subseteq OfKind("poison")'
  BY <1>1, <1>5 DEF handleDLQ, sendToDLQ, LoseDLQ, PoisonPath, Poisonous, Reliable
<1>6. CASE Crash
  BY <1>1, <1>6 DEF Crash, PoisonPath, Poisonous, Reliable
<1> QED
  BY <1>2, <1>3, <1>4, <1>5, <1>6
  DEF Next, Publish, EndFill, CommitBatch, DeliverDLQ, CommitTick, Rebalance,
      Sigterm, Exit, Restart, vars

(* README:9 holds for crashes and rebalances alone: if every record        *)
(* unmarshals, the database connection does not fail and no bulk call      *)
(* outlives its context, no task whose offset is committed is lost,        *)
(* whatever is lost on the way to the DLQ.                                 *)
THEOREM CrashesLoseNoTask == Spec => []NoTaskLostByCrashes
<1> DEFINE Clean == Reliable => PoisonPath /\ exposed \subseteq OfKind("poison")
<1>1. Init => Clean
  BY DEF Init, PoisonPath, Poisonous, OfKind, Offsets
<1>2. TypeOK /\ Clean /\ [Next]_vars => Clean'
  <2> SUFFICES ASSUME TypeOK, Clean, [Next]_vars, Reliable' PROVE Clean'
    OBVIOUS
  <2>1. Reliable
    BY KindsStay, FaultsStay DEF Reliable
  <2> QED
    BY <2>1, PoisonStep, ExposedStep DEF Reliable
<1>3. Clean /\ LossAccounted => NoTaskLostByCrashes
  BY DEF NoTaskLostByCrashes, NoTaskLost, LossAccounted, Accounted, OfKind
<1> HIDE DEF Clean
<1> QED
  BY <1>1, <1>2, <1>3, TypeCorrect, LossIsAccounted, PTL DEF Spec

-----------------------------------------------------------------------------
(* The consumer implements Delivery. *)

(* A step of the consumer that publishes nothing is a step of Delivery's   *)
(* Work: what has arrived or is excused stays, and what is under way is    *)
(* taken back by a crash only, which excuses it if its offset is committed.*)
LEMMA WorkStep ==
  ASSUME IInv, IInv', [Next]_vars, UNCHANGED log
  PROVE  AtLeastOnce!Work
<1>1. Settled \subseteq Settled' /\ exposed \subseteq exposed'
  BY DEF Settled, sinks, Next, Publish, Fetch, SkipMalformed, IsolateMalformed, sendToDLQ, Buffer, EndFill,
         flushBatch, CommitBatch, handleDLQ, DeliverDLQ, LoseDLQ, CommitTick, Rebalance, Crash, Sigterm,
         Exit, Restart, vars
<1>2. (Settled \cup dlqBuf \cup exposed)' \subseteq 1 .. Len(log)
  BY DEF IInv, TypeOK, Settled, Offsets
<1>3. committed' \in 1 .. Len(log) + 1
  BY DEF IInv, TypeOK
<1>4. \A o \in 1 .. Len(log) : o < committed' => o \in (Settled \cup dlqBuf \cup exposed)'
  BY DEF IInv, LossAccounted, Accounted, Offsets
<1> QED
  BY <1>1, <1>2, <1>3, <1>4
  DEF AtLeastOnce!Work, AtLeastOnce!Deliver, AtLeastOnce!Commit, AtLeastOnce!Covered,
      AtLeastOnce!Records

(* Every behaviour of the consumer, with all its faults, crashes and       *)
(* rebalances, is a behaviour of the at-least-once delivery.               *)
THEOREM ConsumerDelivers == Spec => Delivers
<1>1. Init => AtLeastOnce!Init
  BY DEF Init, AtLeastOnce!Init, Settled
<1>2. IInv /\ IInv' /\ [Next]_vars => [AtLeastOnce!Next]_(AtLeastOnce!vars)
  <2> SUFFICES ASSUME IInv, IInv', [Next]_vars PROVE AtLeastOnce!Next
    OBVIOUS
  <2>1. CASE Publish
    <3>1. Len(log') = Len(log) + 1
      BY <2>1 DEF Publish, IInv, TypeOK
    <3> QED
      BY <2>1, <3>1 DEF Publish, AtLeastOnce!Next, AtLeastOnce!Publish, Settled, reader, sinks
  <2>2. CASE UNCHANGED log
    BY <2>2, WorkStep DEF AtLeastOnce!Next
  <2> QED
    BY <2>1, <2>2
    DEF Next, Fetch, EndFill, flushBatch, CommitBatch, handleDLQ, DeliverDLQ,
        LoseDLQ, CommitTick, Rebalance, Crash, Sigterm, Exit, Restart, vars
<1> QED
  BY <1>1, <1>2, InitInv, StepInv, PTL DEF Spec, Delivers, AtLeastOnce!Spec
=============================================================================
