---------------------------- MODULE TaskConsumer ----------------------------
(***************************************************************************)
(* The batching Kafka consumer of the workspace worker: RunLoop,           *)
(* flushBatch and handleDLQ of TaskCreatedHandler, the kafka-go reader     *)
(* under it (group consumer, asynchronous commits) and the asynchronous    *)
(* DLQ writer, for one partition of one topic.  The other two task         *)
(* handlers repeat the same code; UserRegisteredHandler, the consumer of   *)
(* "user-registered", differs in what it does with a malformed record.     *)
(*                                                                         *)
(* Offsets are 1, 2, ...; "committed" and "pos" name the next offset to    *)
(* deliver after a restart and the next one FetchMessage returns.          *)
(***************************************************************************)
EXTENDS Integers, Sequences, FiniteSets, BulkContract

CONSTANTS
  Handlers,    \* which of "task" and "user"
  Kinds,       \* what a record may be: "good", "poison" (the database rejects
               \* it) or "malformed" (json.Unmarshal rejects it)
  FaultSets,   \* per handler, the combinations of faults besides a crash: "conn"
               \* (database connection), "timeout" (the 30 s of a bulk call), "dlq" (a
               \* DLQ write fails), "shutdown" (SIGTERM)
  BatchSize,   \* batchSize in RunLoop
  MaxLog,      \* bound: records published
  MaxRestarts  \* bound: crashes, shutdowns and rebalances

ASSUME HandlersAssumption == Handlers \subseteq {"task", "user"}
ASSUME KindsAssumption == Kinds \subseteq {"good", "poison", "malformed"}
ASSUME FaultsAssumption ==
  FaultSets \in [Handlers -> SUBSET SUBSET {"conn", "timeout", "dlq", "shutdown"}]
ASSUME BoundsAssumption ==
  BatchSize \in Nat \ {0} /\ MaxLog \in Nat /\ MaxRestarts \in Nat

VARIABLES
  handler,    \* the one of this behaviour
  faults,     \* the faults that may happen in this behaviour
  log,        \* the partition: the kind of each published record
  committed,  \* group offset held by the broker
  pos,        \* position of the reader
  stash,      \* offset the commit loop will send next, 0 when none
  phase,      \* where RunLoop is: "idle", "fill", "flush", "isolate", "down"
  batch,      \* offsets in batch/msgs
  failed,     \* offsets returned by the bulk call, not yet given to the DLQ
  ctx,        \* the context of main: "live" or "cancelled"
  stored,     \* offsets whose record the database has taken
  dlqBuf,     \* offsets in the buffer of the asynchronous DLQ writer
  dlq,        \* offsets the DLQ topic holds
  exposed,    \* history: offsets a fault may have cost (see each fault)
  restarts    \* number of crashes, shutdowns and rebalances so far

topic  == <<handler, faults, log>>
worker == <<phase, batch, failed, ctx>>
reader == <<committed, pos, stash>>
sinks  == <<stored, dlqBuf, dlq, exposed>>
vars   == <<topic, reader, worker, sinks, restarts>>

Offsets == 1 .. Len(log)
OfKind(k) == {o \in Offsets : log[o] = k}

Init ==
  /\ handler \in Handlers /\ faults \in FaultSets[handler] /\ log = <<>>
  /\ committed = 1 /\ pos = 1 /\ stash = 0
  /\ phase = "idle" /\ batch = {} /\ failed = {} /\ ctx = "live"
  /\ stored = {} /\ dlqBuf = {} /\ dlq = {} /\ exposed = {}
  /\ restarts = 0

-----------------------------------------------------------------------------
(* Mistakes the properties below are sensitive to; none is part of Next.   *)

(* The committed offset already is the next one; adding one again.         *)
CommitMessagesPastNext(os) ==
  \E next \in {o + 2 : o \in os} \cup {stash} :
    /\ stash <= next /\ \A o \in os : o + 2 <= next
    /\ stash' = next

(* CommitMessages with offsets os: the commit loop keeps, per partition,   *)
(* the largest next offset it was given.                                   *)
CommitMessages(os) ==
  \E next \in {o + 1 : o \in os} \cup {stash} :
    /\ stash <= next /\ \A o \in os : o + 1 <= next
    /\ stash' = next

(* ReadMessage, which commits what it returns, in place of FetchMessage.   *)
BufferWithReadMessage ==
  /\ log[pos] # "malformed"
  /\ batch' = batch \cup {pos} /\ CommitMessages({pos})
  /\ UNCHANGED <<dlqBuf, exposed>>

(* The loop returns on a cancelled context without a last flush.           *)
EndFillWithoutFlush ==
  /\ phase = "fill"
  /\ IF batch = {} \/ ctx = "cancelled"
     THEN phase' = "idle" /\ batch' = {}
     ELSE phase' = "flush" /\ UNCHANGED batch
  /\ UNCHANGED <<topic, reader, failed, ctx, sinks, restarts>>

(* Only a full batch is flushed: no two-second timeout.                    *)
EndFillWhenFull ==
  /\ phase = "fill"
  /\ batch = {} \/ Cardinality(batch) = BatchSize \/ ctx = "cancelled"
  /\ phase' = IF batch = {} THEN "idle" ELSE "flush"
  /\ UNCHANGED <<topic, reader, batch, failed, ctx, sinks, restarts>>

(* A batch the database rejects goes to the DLQ as a whole.                *)
flushBatchIsolatingAll ==
  /\ phase = "flush"
  /\ LET bad == batch \cap OfKind("poison") # {}
     IN /\ stored' = stored \cup (IF bad THEN {} ELSE batch)
        /\ failed' = IF bad THEN batch ELSE {}
  /\ phase' = "isolate"
  /\ UNCHANGED <<topic, reader, batch, ctx, dlqBuf, dlq, exposed, restarts>>

(* The commit loop sends the reader's position, as an automatic commit     *)
(* does.                                                                   *)
CommitTickOfPosition ==
  /\ stash # 0
  /\ committed' = pos /\ stash' = 0
  /\ UNCHANGED <<topic, pos, worker, sinks, restarts>>

(* A batch with a failed record is not committed.                          *)
CommitBatchIfStored ==
  /\ phase = "isolate" /\ failed = {}
  /\ IF batch \subseteq stored THEN CommitMessages(batch) ELSE UNCHANGED stash
  /\ phase' = "idle" /\ batch' = {}
  /\ UNCHANGED <<topic, committed, pos, failed, ctx, sinks, restarts>>

-----------------------------------------------------------------------------
(* The producer side of the topic. *)

Publish ==
  /\ Len(log) < MaxLog
  /\ \E k \in Kinds : log' = Append(log, k)
  /\ UNCHANGED <<handler, faults, reader, worker, sinks, restarts>>

-----------------------------------------------------------------------------
(* RunLoop. *)

(* A record goes to the asynchronous DLQ writer: the call only places it   *)
(* in the writer's buffer.  An error is logged and the record forgotten.   *)
(* Offsets "hit" are exposed whatever becomes of it.                       *)
sendToDLQ(o, hit) ==
  \/ dlqBuf' = dlqBuf \cup {o} /\ exposed' = exposed \cup hit
  \/ /\ "dlq" \in faults \/ ctx = "cancelled"
     /\ exposed' = exposed \cup hit \cup {o} /\ UNCHANGED dlqBuf

(* A record that does not unmarshal is committed on the spot; the records  *)
(* already in the batch, which are older, are then behind a commit.  Under *)
(* a cancelled context the commit may not be handed over.                  *)
CommitMalformed ==
  /\ log[pos] = "malformed"
  /\ CommitMessages({pos}) \/ (ctx = "cancelled" /\ UNCHANGED stash)
  /\ UNCHANGED batch

(* The task handlers only log it, ...                                      *)
SkipMalformed ==
  /\ handler = "task" /\ CommitMalformed
  /\ exposed' = exposed \cup batch \cup {pos} /\ UNCHANGED dlqBuf

(* ... and the one of users isolates it first.                             *)
IsolateMalformed ==
  /\ handler = "user" /\ CommitMalformed
  /\ sendToDLQ(pos, batch)

Buffer ==
  /\ log[pos] # "malformed"
  /\ batch' = batch \cup {pos}
  /\ UNCHANGED <<stash, dlqBuf, exposed>>

(* FetchMessage at the top of the loop, which opens a batch, and in the    *)
(* inner loop, which fills it.  A duplicate delivery after a rebalance     *)
(* is kept once in the set "batch", so the size test admits no less than   *)
(* the one in the code.                                                    *)
Fetch ==
  /\ phase \in {"idle", "fill"}
  /\ Cardinality(batch) < BatchSize
  /\ pos <= Len(log)
  /\ SkipMalformed \/ IsolateMalformed \/ Buffer
  /\ pos' = pos + 1
  /\ phase' = "fill"
  /\ UNCHANGED <<topic, committed, failed, ctx, stored, dlq, restarts>>

(* The inner loop ends: the batch is full, two seconds have passed, the    *)
(* fetch failed or the context is cancelled.                               *)
EndFill ==
  /\ phase = "fill"
  /\ phase' = IF batch = {} THEN "idle" ELSE "flush"
  /\ UNCHANGED <<topic, reader, batch, failed, ctx, sinks, restarts>>

(* flushBatch up to the return of the bulk call.  On a connection error    *)
(* the handler returns: the batch is dropped, its offsets stay             *)
(* uncommitted, and the reader does not move back.                         *)
flushBatch ==
  /\ phase = "flush"
  /\ \E r \in BulkResult(batch, batch \cap OfKind("poison"),
                         "timeout" \in faults \/ ctx = "cancelled", "conn" \in faults) :
       /\ stored' = stored \cup r.stored
       /\ failed' = r.failed
       /\ IF r.err
          THEN phase' = "idle" /\ batch' = {} /\ exposed' = exposed \cup batch
          ELSE phase' = "isolate" /\ UNCHANGED <<batch, exposed>>
  /\ UNCHANGED <<topic, reader, ctx, dlqBuf, dlq, restarts>>

(* One failed record of the batch.                                         *)
handleDLQ(o) ==
  /\ phase = "isolate" /\ o \in failed
  /\ failed' = failed \ {o}
  /\ sendToDLQ(o, {})
  /\ UNCHANGED <<topic, reader, phase, batch, ctx, stored, dlq, restarts>>

(* The end of flushBatch.  Under a cancelled context the commit may not be *)
(* handed over.                                                            *)
CommitBatch ==
  /\ phase = "isolate" /\ failed = {}
  /\ CommitMessages(batch) \/ (ctx = "cancelled" /\ UNCHANGED stash)
  /\ phase' = "idle" /\ batch' = {}
  /\ UNCHANGED <<topic, committed, pos, failed, ctx, sinks, restarts>>

-----------------------------------------------------------------------------
(* The kafka-go goroutines beside the loop. *)

(* CommitInterval: once a second the stashed offset goes to the broker,    *)
(* which takes it even when it is behind the one it holds.                 *)
CommitTick ==
  /\ stash # 0
  /\ committed' = stash /\ stash' = 0
  /\ UNCHANGED <<topic, pos, worker, sinks, restarts>>

DeliverDLQ(o) ==
  /\ o \in dlqBuf
  /\ dlqBuf' = dlqBuf \ {o} /\ dlq' = dlq \cup {o}
  /\ UNCHANGED <<topic, reader, worker, stored, exposed, restarts>>

(* The write fails after WriteMessages has returned: nobody is told. *)
LoseDLQ(o) ==
  /\ "dlq" \in faults /\ o \in dlqBuf
  /\ dlqBuf' = dlqBuf \ {o} /\ exposed' = exposed \cup {o}
  /\ UNCHANGED <<topic, reader, worker, stored, dlq, restarts>>

(* The commit a generation or a closing reader sends last may not arrive.  *)
FinalCommit == committed' \in {committed} \cup ({stash} \ {0})

(* A new generation starts at the committed offset; the handler keeps the  *)
(* batch it has.                                                           *)
Rebalance ==
  /\ phase # "down" /\ restarts < MaxRestarts
  /\ FinalCommit /\ pos' = committed' /\ stash' = 0
  /\ restarts' = restarts + 1
  /\ UNCHANGED <<topic, worker, sinks>>

-----------------------------------------------------------------------------
(* Crash, graceful shutdown, restart. *)

(* What the process held in memory is gone; a DLQ record is lost if its    *)
(* offset has already been committed.                                      *)
Crash ==
  /\ phase # "down" /\ restarts < MaxRestarts
  /\ phase' = "down" /\ batch' = {} /\ failed' = {} /\ ctx' = "live"
  /\ stash' = 0 /\ pos' = committed
  /\ dlqBuf' = {}
  /\ exposed' = exposed \cup {o \in dlqBuf : o < committed}
  /\ restarts' = restarts + 1
  /\ UNCHANGED <<topic, committed, stored, dlq>>

Sigterm ==
  /\ "shutdown" \in faults
  /\ phase # "down" /\ ctx = "live" /\ restarts < MaxRestarts
  /\ ctx' = "cancelled" /\ restarts' = restarts + 1
  /\ UNCHANGED <<topic, reader, phase, batch, failed, sinks>>

(* RunLoop returns, the reader closes, then the writers are flushed.       *)
Exit ==
  /\ phase = "idle" /\ ctx = "cancelled"
  /\ FinalCommit /\ pos' = committed' /\ stash' = 0
  /\ dlq' = dlq \cup dlqBuf /\ dlqBuf' = {}
  /\ phase' = "down" /\ ctx' = "live"
  /\ UNCHANGED <<topic, batch, failed, stored, exposed, restarts>>

Restart ==
  /\ phase = "down"
  /\ phase' = "idle"
  /\ UNCHANGED <<topic, reader, batch, failed, ctx, sinks, restarts>>

-----------------------------------------------------------------------------
Next ==
  \/ Publish
  \/ Fetch \/ EndFill \/ flushBatch \/ CommitBatch
  \/ \E o \in Offsets : handleDLQ(o) \/ DeliverDLQ(o) \/ LoseDLQ(o)
  \/ CommitTick \/ Rebalance
  \/ Crash \/ Sigterm \/ Exit \/ Restart

Spec == Init /\ [][Next]_vars

(* The loop and the goroutines run while the process does, and Kubernetes  *)
(* restarts it (restartPolicy Always).  Nothing is assumed of faults, of   *)
(* what the database answers, or of the producers.                         *)
Fairness ==
  /\ WF_vars(Fetch) /\ WF_vars(EndFill) /\ WF_vars(flushBatch)
  /\ WF_vars(\E o \in Offsets : handleDLQ(o)) /\ WF_vars(CommitBatch)
  /\ WF_vars(\E o \in Offsets : DeliverDLQ(o)) /\ WF_vars(CommitTick)
  /\ WF_vars(Exit) /\ WF_vars(Restart)

FairSpec == Spec /\ Fairness

-----------------------------------------------------------------------------
(* Properties. *)

TypeOK ==
  /\ handler \in Handlers /\ faults \in FaultSets[handler]
  /\ log \in Seq(Kinds)
  /\ committed \in 1 .. Len(log) + 1 /\ pos \in 1 .. Len(log) + 1
  /\ stash \in 0 .. Len(log) + 1
  /\ phase \in {"idle", "fill", "flush", "isolate", "down"}
  /\ batch \subseteq Offsets /\ failed \subseteq batch
  /\ ctx \in {"live", "cancelled"}
  /\ stored \subseteq Offsets /\ dlqBuf \subseteq Offsets
  /\ dlq \subseteq Offsets /\ exposed \subseteq Offsets
  /\ restarts \in Nat

(* Where the data of an offset is, once the consumer is done with it.      *)
Settled == stored \cup dlq
Accounted == Settled \cup dlqBuf \cup exposed

(* Whatever crashes, rebalances and faults happen, an offset behind the    *)
(* group's committed offset is in the database, in the DLQ or on its way   *)
(* to it, unless one of the named faults hit that very offset: the         *)
(* windows listed at "exposed" are the only ones in which RunLoop,         *)
(* flushBatch and the commit loop can lose a record.                       *)
LossAccounted == \A o \in Offsets : o < committed => o \in Accounted

(* The running consumer never jumps over a record: an offset behind the    *)
(* reader's position is accounted for or still in the handler's batch,     *)
(* also after a rebalance has moved the reader under a half-filled batch.  *)
NothingSkipped == \A o \in Offsets : o < pos => o \in Accounted \cup batch

(* The strengthening that makes the two inductive: the offset about to be  *)
(* sent is covered like the one already sent, every older neighbour of a   *)
(* buffered record is accounted for or buffered with it (so that           *)
(* committing the largest offset of a batch is right although batches have *)
(* gaps), and once the bulk call has returned, each record of the batch is *)
(* accounted for or about to be isolated.                                  *)
StashAccounted == \A o \in Offsets : o < stash => o \in Accounted

BatchCovered ==
  \A b \in batch : \A o \in Offsets : o < b => o \in Accounted \cup batch

PhaseConsistent ==
  /\ phase \in {"idle", "down"} => batch = {}
  /\ phase # "isolate" => failed = {}
  /\ phase = "isolate" => batch \subseteq Accounted \cup failed

IInv ==
  /\ TypeOK /\ LossAccounted /\ NothingSkipped
  /\ StashAccounted /\ BatchCovered /\ PhaseConsistent

(* README:9, "no task is ever lost, even in the event of partial system    *)
(* failures": a well-formed task whose offset is committed is in the       *)
(* database or the DLQ, or still in the hands of the running worker.       *)
NoTaskLost ==
  \A o \in OfKind("good") : o < committed => o \in Settled \cup dlqBuf \cup batch

(* It holds under crashes, rebalances and lost DLQ writes alone: as long   *)
(* as every record unmarshals, the connection stays and no bulk call       *)
(* outlives its context.                                                   *)
Reliable == faults \cap {"conn", "timeout", "shutdown"} = {} /\ OfKind("malformed") = {}
NoTaskLostByCrashes == Reliable => NoTaskLost

(* README:198, the bulk fallback isolates poisonous records, "keeping      *)
(* valid records stored safely": the DLQ receives no valid record.         *)
OnlyPoisonIsolated == (dlq \cup dlqBuf) \cap OfKind("good") = {}

(* It holds as long as no bulk call outlives its context: connection       *)
(* errors, lost DLQ writes, malformed records, crashes and rebalances      *)
(* never isolate a valid task.                                             *)
OnlyPoisonWithoutExpiry == faults \cap {"timeout", "shutdown"} = {} => OnlyPoisonIsolated

(* Every record is eventually stored or in the DLQ, unless a fault hit it, *)
(* once crashes cease.                                                     *)
EventuallyHandled ==
  \A o \in 1 .. MaxLog : (o \in Offsets) ~> (o \in Settled \cup exposed)

(* The group's offset follows, over any number of rebalances and crashes:  *)
(* a record still to be fetched ends behind the committed offset, and once *)
(* restarts have ceased it stays there for good, unless a fault hit it (a  *)
(* dropped batch is uncommitted until a later record of the partition is). *)
(* This is all that can be said: the offset does go back, when a batch     *)
(* kept over a rebalance is committed after newer records, and then lags   *)
(* behind records already handled until the next one is fetched.  For the  *)
(* same reason malformed records, committed ahead of the older batch, are  *)
(* left out.                                                               *)
EventuallyCommitted ==
  \A o \in 1 .. MaxLog :
    LET Coming == o \in Offsets \ OfKind("malformed") /\ pos <= o
        Passed == o < committed \/ o \in exposed
    IN /\ Coming ~> Passed
       /\ (Coming /\ restarts = MaxRestarts) ~> []Passed

(* The consumer is an at-least-once delivery: the database and the DLQ are *)
(* where records arrive, the buffer of the DLQ writer is what is under     *)
(* way, and the named faults are the excuses.                              *)
AtLeastOnce == INSTANCE Delivery WITH
  count <- Len(log), frontier <- committed,
  arrived <- Settled, underway <- dlqBuf, excused <- exposed

Delivers == AtLeastOnce!Spec
=============================================================================
