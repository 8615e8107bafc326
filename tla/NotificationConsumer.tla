------------------------ MODULE NotificationConsumer ------------------------
(***************************************************************************)
(* The worker of the notification service, for one partition of            *)
(* "user-registered" or "send-notification": KafkaJS hands over one        *)
(* message at a time and commits behind it by itself, the handler only     *)
(* buffers it, and a flush writes the buffer to MongoDB and commits its    *)
(* offsets once more.  A timer or a full buffer starts a flush; Node runs  *)
(* other callbacks at each await of it, another flush included.            *)
(*                                                                         *)
(* Offsets are 1, 2, ...; "committed" and "position" name the next one.    *)
(***************************************************************************)
EXTENDS Integers, Sequences, FiniteSets

CONSTANTS
  Scenarios,  \* the topic ("users" or "notes", hence the handler), whether
              \* calls may fail and the process crash, and the kinds of
              \* message: "valid", "empty" (it has no value), "invalid"
              \* (the handler refuses it), "rejected" (MongoDB or the
              \* schema does)
  BatchSize,  \* maxBatchSize
  MaxLog,     \* bound: messages published
  MaxFlushes, \* bound: flushes under way at once
  MaxCrashes  \* bound

Flushes == 1 .. MaxFlushes

Kinds == {"valid", "empty", "invalid", "rejected"}

ASSUME ScenariosAssumption ==
  Scenarios \subseteq [topic : {"users", "notes"}, faulty : BOOLEAN, kinds : SUBSET Kinds]
ASSUME BoundsAssumption ==
  BatchSize \in Nat \ {0} /\ MaxLog \in Nat /\ MaxFlushes \in Nat /\ MaxCrashes \in Nat

VARIABLES
  scenario,  \* the one of this behaviour
  log,       \* the kind of each published message
  committed, \* offset held by the broker
  position,  \* messages before it were handled, as KafkaJS sees it
  last,      \* the last message of the batch KafkaJS has fetched
  auto,      \* that batch is through and not yet committed
  buffer,    \* offsets in the handler's buffer
  timer,     \* flushTimeout is set
  flush,     \* flush[f]: a flush under way: its step, batch and trigger
  stored, dlq, \* offsets in MongoDB, and in the DLQ topic
  dropped,   \* offsets whose failure was only logged
  lost,      \* history: offsets committed, yet only in memory when it went
  crashes

kafkajs  == <<committed, position, last, auto>>
handler  == <<buffer, timer>>
sinks    == <<stored, dlq, dropped>>
vars     == <<scenario, log, kafkajs, handler, flush, sinks, lost, crashes>>

topic  == scenario.topic
faulty == scenario.faulty

Offsets == 1 .. Len(log)
OfKind(k) == {o \in Offsets : log[o] = k}
NotParsed == OfKind("invalid") \cup OfKind("empty")

NoFlush == [at |-> "none", batch |-> {}, todo |-> {}, by |-> "timer"]
InMemory == buffer \cup UNION {flush[f].batch : f \in Flushes}
Covered == stored \cup dlq \cup dropped

Init ==
  /\ scenario \in Scenarios
  /\ log = <<>>
  /\ committed = 1 /\ position = 1 /\ last = 0 /\ auto = FALSE
  /\ buffer = {} /\ timer = FALSE
  /\ flush = [f \in Flushes |-> NoFlush]
  /\ stored = {} /\ dlq = {} /\ dropped = {} /\ lost = {}
  /\ crashes = 0

Publish(k) ==
  /\ Len(log) < MaxLog
  /\ log' = Append(log, k)
  /\ UNCHANGED <<scenario, kafkajs, handler, flush, sinks, lost, crashes>>

-----------------------------------------------------------------------------
(* KafkaJS: fetch a batch, hand over its messages, commit behind it.       *)

(* Mistake: the high watermark is taken for the last record.              *)
FetchPastEnd ==
  /\ position > last /\ ~auto
  /\ \E end \in last + 1 .. Len(log) + 1 : last' = end
  /\ UNCHANGED <<scenario, log, committed, position, auto, handler, flush, sinks, lost, crashes>>

Fetch ==
  /\ position > last /\ ~auto
  /\ \E end \in last + 1 .. Len(log) : last' = end
  /\ UNCHANGED <<scenario, log, committed, position, auto, handler, flush, sinks, lost, crashes>>

(* A message counts as handled when eachMessage returns.                   *)
Handled ==
  /\ position' = position + 1 /\ auto' = (position' > last)
  /\ UNCHANGED <<committed, last>>

(* Mistake: the batch is committed when it has been fetched.               *)
AutoCommitEarly ==
  /\ position <= last /\ committed' = last + 1
  /\ UNCHANGED <<scenario, log, position, last, auto, handler, flush, sinks, lost, crashes>>

AutoCommit ==
  /\ auto /\ auto' = FALSE
  /\ committed' = position \/ (faulty /\ UNCHANGED committed)
  /\ UNCHANGED <<scenario, log, position, last, handler, flush, sinks, lost, crashes>>

-----------------------------------------------------------------------------
(* handleBatchMessage: a full buffer is flushed under eachMessage, which   *)
(* waits for it; else a timer is set.                                      *)

Waiting == \E f \in Flushes : flush[f].at # "none" /\ flush[f].by = "size"
FreeFlush(f) == flush[f].at = "none" /\ \A g \in 1 .. f - 1 : flush[g].at # "none"
Started(S, trigger) == [at |-> "parse", batch |-> S, todo |-> {}, by |-> trigger]

(* Mistake: no timer while a flush runs, which is thought to take it.      *)
BufferLeavingItToFlush ==
  /\ position <= last /\ ~Waiting
  /\ Cardinality(buffer) + 1 < BatchSize
  /\ buffer' = buffer \cup {position}
  /\ timer' = (timer \/ \A f \in Flushes : flush[f].at = "none")
  /\ Handled
  /\ UNCHANGED <<scenario, log, flush, sinks, lost, crashes>>

Buffer ==
  /\ position <= last /\ ~Waiting
  /\ Cardinality(buffer) + 1 < BatchSize
  /\ buffer' = buffer \cup {position} /\ timer' = TRUE
  /\ Handled
  /\ UNCHANGED <<scenario, log, flush, sinks, lost, crashes>>

BufferAndFlush(f) ==
  /\ position <= last /\ ~Waiting
  /\ Cardinality(buffer) + 1 >= BatchSize
  /\ FreeFlush(f)
  /\ flush' = [flush EXCEPT ![f] = Started(buffer \cup {position}, "size")]
  /\ buffer' = {} /\ timer' = FALSE
  /\ UNCHANGED <<scenario, log, kafkajs, sinks, lost, crashes>>

TimerFires(f) ==
  /\ timer /\ FreeFlush(f)
  /\ flush' = [flush EXCEPT ![f] = Started(buffer, "timer")]
  /\ buffer' = {} /\ timer' = FALSE
  /\ UNCHANGED <<scenario, log, kafkajs, sinks, lost, crashes>>

-----------------------------------------------------------------------------
(* flush: refuse, write, isolate, commit.                                  *)

At(f, step) == flush[f].at = step
Batch(f) == flush[f].batch
Advance(f, step, todo) ==
  flush' = [flush EXCEPT ![f] =
              [at |-> step, batch |-> @.batch, todo |-> todo, by |-> @.by]]
Written(f) == Advance(f, "commit", Batch(f))

(* sendToDLQ: a failing send is logged, and the message passes as sent.    *)
(* Others are skipped without one.                                         *)
Isolate(S, skipped) ==
  \E D \in SUBSET S :
    /\ D = {} \/ faulty
    /\ dlq' = dlq \cup (S \ D) /\ dropped' = dropped \cup D \cup skipped

(* Mistake: one message that does not parse ends the flush for all.        *)
ParseAborting(f) ==
  /\ At(f, "parse")
  /\ IF Batch(f) \cap OfKind("invalid") = {} THEN Advance(f, "write", {}) /\ UNCHANGED dropped
     ELSE Written(f) /\ dropped' = dropped \cup Batch(f)
  /\ UNCHANGED <<scenario, log, kafkajs, handler, stored, dlq, lost, crashes>>

(* What the handler refuses: users to the DLQ, notifications to the log,   *)
(* a message without a value nowhere.                                      *)
Parse(f) ==
  /\ At(f, "parse")
  /\ IF topic = "users"
     THEN Isolate(Batch(f) \cap OfKind("invalid"), Batch(f) \cap OfKind("empty"))
     ELSE dropped' = dropped \cup (Batch(f) \cap NotParsed) /\ UNCHANGED dlq
  /\ Advance(f, "write", {})
  /\ UNCHANGED <<scenario, log, kafkajs, handler, stored, lost, crashes>>

(* syncUserSnapshotsBulk: all that MongoDB accepts, unless the connection  *)
(* fails on the way (see BulkWrite).                                       *)
SyncUserSnapshots(f) ==
  /\ topic = "users" /\ At(f, "write")
  /\ stored' = stored \cup (Batch(f) \cap OfKind("valid")) /\ Advance(f, "isolate", {})
  /\ UNCHANGED <<scenario, log, kafkajs, handler, dlq, dropped, lost, crashes>>

IsolateFailed(f) ==
  /\ At(f, "isolate")
  /\ Isolate(Batch(f) \cap OfKind("rejected"), {})
  /\ Written(f)
  /\ UNCHANGED <<scenario, log, kafkajs, handler, stored, lost, crashes>>

(* sendNotificationsBulk: Mongoose validates all before it inserts one, so *)
(* one that the schema refuses costs all; handleBatch logs the failure     *)
(* and returns as if nothing had happened.                                 *)
SendNotifications(f) ==
  LET batch == Batch(f) \ NotParsed
      refused == batch \cap OfKind("rejected") # {}
  IN  /\ topic = "notes" /\ At(f, "write")
      /\ \E S \in SUBSET batch :
           /\ IF refused THEN S = {} ELSE S = batch \/ faulty
           /\ stored' = stored \cup S /\ dropped' = dropped \cup (batch \ S)
      /\ Written(f)
      /\ UNCHANGED <<scenario, log, kafkajs, handler, dlq, lost, crashes>>

(* Users are committed in the order in which they were processed: those    *)
(* the handler refused or skipped come first.                              *)
NextToCommit(f, o) ==
  LET first == flush[f].todo \cap NotParsed
      ahead == IF topic = "users" /\ first # {} THEN first ELSE flush[f].todo
  IN  o \in ahead /\ \A p \in ahead : o <= p

CommitOne(f) ==
  /\ At(f, "commit")
  /\ \E o \in flush[f].todo :
       /\ NextToCommit(f, o)
       /\ committed' = o + 1
       /\ Advance(f, "commit", flush[f].todo \ {o})
  /\ UNCHANGED <<scenario, log, position, last, auto, handler, sinks, lost, crashes>>

(* The notifications' flush ends here too when a commit fails.             *)
EndFlush(f) ==
  /\ At(f, "commit")
  /\ flush[f].todo = {} \/ (faulty /\ topic = "notes")
  /\ flush' = [flush EXCEPT ![f] = NoFlush]
  /\ IF flush[f].by = "size" THEN Handled ELSE UNCHANGED kafkajs
  /\ UNCHANGED <<scenario, log, handler, sinks, lost, crashes>>

-----------------------------------------------------------------------------
(* Failure.  What is in memory goes, and what is committed as well is not  *)
(* delivered again.                                                        *)

Gone(S, offset) == {o \in S \ Covered : o < offset}

(* A SIGTERM comes to the same: the buffer is not flushed.                 *)
Crash ==
  /\ faulty /\ crashes < MaxCrashes /\ crashes' = crashes + 1
  /\ buffer' = {} /\ timer' = FALSE /\ flush' = [f \in Flushes |-> NoFlush]
  /\ lost' = lost \cup Gone(InMemory, committed)
  /\ position' = committed /\ last' = committed - 1 /\ auto' = FALSE
  /\ UNCHANGED <<scenario, log, committed, sinks>>

(* The flush of users rethrows.  Under eachMessage, KafkaJS commits what   *)
(* is handled and takes the message again; under the timer nobody catches  *)
(* the rejection and Node exits, which is Crash.                           *)
Rethrow(f) ==
  /\ faulty /\ topic = "users" /\ flush[f].by = "size"
  /\ flush[f].at \in {"write", "commit"}
  /\ \E S \in SUBSET (Batch(f) \cap OfKind("valid")) :
       /\ flush[f].at = "commit" => S = {}
       /\ stored' = stored \cup S
       /\ committed' = position
       /\ lost' = lost \cup Gone(Batch(f) \ S, position)
  /\ flush' = [flush EXCEPT ![f] = NoFlush]
  /\ last' = position - 1 /\ auto' = FALSE
  /\ UNCHANGED <<scenario, log, position, handler, dlq, dropped, crashes>>

FlushStep(f) ==
  \/ TimerFires(f) \/ Parse(f)
  \/ SyncUserSnapshots(f) \/ IsolateFailed(f) \/ SendNotifications(f)
  \/ CommitOne(f) \/ EndFlush(f)

Consume == Fetch \/ Buffer \/ (\E f \in Flushes : BufferAndFlush(f)) \/ AutoCommit

Next ==
  \/ \E k \in scenario.kinds : Publish(k)
  \/ Consume
  \/ \E f \in Flushes : FlushStep(f) \/ Rethrow(f)
  \/ Crash

Spec == Init /\ [][Next]_vars

(* KafkaJS polls, timers fire, calls return.                               *)
FairSpec == Spec /\ WF_vars(Consume) /\ \A f \in Flushes : WF_vars(FlushStep(f))

-----------------------------------------------------------------------------
TypeOK ==
  /\ scenario \in Scenarios
  /\ log \in Seq(Kinds) /\ Len(log) <= MaxLog
  /\ committed \in 1 .. Len(log) + 1 /\ position \in 1 .. Len(log) + 1
  /\ last \in 0 .. Len(log) /\ auto \in BOOLEAN
  /\ buffer \subseteq Offsets /\ timer \in BOOLEAN
  /\ flush \in [Flushes ->
       [at : {"none", "parse", "write", "isolate", "commit"}, batch : SUBSET Offsets,
        todo : SUBSET Offsets, by : {"timer", "size"}]]
  /\ stored \subseteq Offsets /\ dlq \subseteq Offsets
  /\ dropped \subseteq Offsets /\ lost \subseteq Offsets
  /\ crashes \in 0 .. MaxCrashes

(* The handler is an at-least-once delivery only if memory counts as being *)
(* under way, although KafkaJS has committed what the buffer holds: what a *)
(* crash or a rethrow costs is exactly what was committed in memory.       *)
AtLeastOnce == INSTANCE Delivery WITH
  count <- Len(log), frontier <- committed,
  arrived <- stored \cup dlq, underway <- InMemory, excused <- dropped \cup lost

Delivers == AtLeastOnce!Spec

(* A refused message that may share a flush with o.                        *)
Near(o) == \E p \in OfKind("rejected") : p - o < BatchSize /\ o - p < BatchSize

(* Without faults a message that has a value is given up only by the       *)
(* notifications' handler, and only if it, or a neighbour in the same      *)
(* flush, is refused.                                                      *)
DroppedWithNeighbour ==
  ~faulty =>
    /\ lost = {} /\ dlq \subseteq OfKind("invalid") \cup OfKind("rejected")
    /\ \A o \in dropped :
         /\ topic = "notes" \/ log[o] = "empty"
         /\ log[o] \in {"valid", "rejected"} => Near(o)

(* Without faults every message is finally stored, isolated or dropped.    *)
EventuallyHandled ==
  \A o \in 1 .. MaxLog : (o \in Offsets /\ ~faulty) ~> o \in Covered
=============================================================================
