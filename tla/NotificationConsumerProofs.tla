--------------------- MODULE NotificationConsumerProofs ---------------------
(***************************************************************************)
(* That the buffered consumers of the notification service are a delivery  *)
(* of which memory is a part, for every log, batch size, number of flushes *)
(* and of crashes, with and without faults.                                *)
(***************************************************************************)
EXTENDS NotificationConsumer, FiniteSetTheorems, TLAPS

USE DEF topic, faulty

Accounted == Covered \cup InMemory \cup lost
Active(f) == flush[f].at # "none"

(* What KafkaJS has seen handled, and what it has committed, are accounted *)
(* for.  The first is what makes an automatic commit right, and the commit *)
(* of a flush too, since a buffer never runs ahead of the position.        *)
CommittedAccounted == \A o \in Offsets : o < committed => o \in Accounted
HandledAccounted   == \A o \in Offsets : o < position => o \in Accounted
NotAhead == \A o \in InMemory : o <= position

(* The message under eachMessage is in the one flush that it waits for.    *)
OneWaiting ==
  /\ \A f \in Flushes :
       Active(f) /\ flush[f].by = "size" => position \in flush[f].batch
  /\ \A f, g \in Flushes :
       /\ Active(f) /\ flush[f].by = "size"
       /\ Active(g) /\ flush[g].by = "size"
       => f = g

(* What a flush has done with its batch before the step it is at.          *)
FlushSound(f) ==
  /\ flush[f].at = "none" => flush[f].batch = {}
  /\ flush[f].at = "write" =>
       \A o \in flush[f].batch : log[o] \in {"invalid", "empty"} => o \in Covered
  /\ flush[f].at = "isolate" =>
       \A o \in flush[f].batch : log[o] # "rejected" => o \in Covered
  /\ flush[f].at = "commit" => flush[f].batch \subseteq Covered
  /\ flush[f].todo \subseteq flush[f].batch
FlushesSound == \A f \in Flushes : FlushSound(f)

IInv ==
  /\ TypeOK /\ CommittedAccounted /\ HandledAccounted /\ NotAhead
  /\ OneWaiting /\ FlushesSound

-----------------------------------------------------------------------------
(* Facts about memory and flushes. *)

LEMMA MemoryMember ==
  ASSUME NEW o
  PROVE  o \in InMemory <=> o \in buffer \/ \E f \in Flushes : o \in flush[f].batch
BY DEF InMemory

LEMMA MemoryMemberNext ==
  ASSUME NEW o
  PROVE  o \in InMemory' <=> o \in buffer' \/ \E f \in Flushes : o \in flush'[f].batch
BY DEF InMemory

Steps == {"none", "parse", "write", "isolate", "commit"}
FlushStates == [at : Steps, batch : SUBSET Offsets, todo : SUBSET Offsets, by : {"timer", "size"}]

(* A flush that one step of it changes: the others stay.                   *)
LEMMA FlushSet ==
  ASSUME TypeOK, NEW f \in Flushes, NEW r, flush' = [flush EXCEPT ![f] = r]
  PROVE  /\ flush'[f] = r
         /\ \A g \in Flushes \ {f} : flush'[g] = flush[g]
         /\ r \in FlushStates => flush' \in [Flushes -> FlushStates]
BY DEF TypeOK, FlushStates, Steps

LEMMA FlushType ==
  ASSUME TypeOK, NEW f \in Flushes
  PROVE  /\ flush[f] \in FlushStates
         /\ flush[f] = [at |-> flush[f].at, batch |-> flush[f].batch,
                        todo |-> flush[f].todo, by |-> flush[f].by]
         /\ flush[f].batch \subseteq Offsets /\ flush[f].todo \subseteq Offsets
BY DEF TypeOK, FlushStates, Steps

(* Only published messages are in memory. *)
LEMMA MemoryInLog == TypeOK => InMemory \subseteq Offsets
<1> SUFFICES ASSUME TypeOK, NEW o \in InMemory PROVE o \in Offsets
  OBVIOUS
<1>1. buffer \subseteq Offsets /\ \A f \in Flushes : flush[f].batch \subseteq Offsets
  BY FlushType DEF TypeOK
<1> QED
  BY <1>1, MemoryMember

(* A message whose kind is settled keeps it.                               *)
LEMMA KindsStay ==
  ASSUME TypeOK, [Next]_vars
  PROVE  /\ Len(log') \in Nat /\ Len(log) \in Nat /\ log' \in Seq(Kinds)
         /\ Len(log') <= MaxLog
         /\ Offsets \subseteq Offsets'
         /\ \A o \in Offsets : log'[o] = log[o]
<1>1. CASE UNCHANGED log
  BY <1>1, BoundsAssumption DEF TypeOK, Offsets
<1>2. CASE \E k \in scenario.kinds : Publish(k)
  <2>1. PICK k \in scenario.kinds : Len(log) < MaxLog /\ log' = Append(log, k)
    BY <1>2 DEF Publish
  <2>2. k \in Kinds
    BY <2>1, ScenariosAssumption DEF TypeOK
  <2> QED
    BY <2>1, <2>2, BoundsAssumption DEF TypeOK, Offsets
<1> QED
  BY <1>1, <1>2
  DEF Next, Consume, Fetch, Buffer, BufferAndFlush, AutoCommit, FlushStep, TimerFires,
      Parse, SyncUserSnapshots, IsolateFailed, SendNotifications, CommitOne, EndFlush,
      Rethrow, Crash, vars
(* One that advances keeps its batch and its trigger.                      *)
LEMMA AdvanceType ==
  ASSUME TypeOK, NEW f \in Flushes, NEW step \in Steps, NEW todo \in SUBSET Offsets,
         Advance(f, step, todo)
  PROVE  /\ flush'[f] = [at |-> step, batch |-> flush[f].batch, todo |-> todo,
                         by |-> flush[f].by]
         /\ \A g \in Flushes \ {f} : flush'[g] = flush[g]
         /\ flush' \in [Flushes -> FlushStates]
<1> DEFINE r == [at |-> step, batch |-> flush[f].batch, todo |-> todo, by |-> flush[f].by]
<1>1. r \in FlushStates
  BY FlushType DEF FlushStates
<1>2. flush' = [flush EXCEPT ![f] = r]
  BY DEF Advance
<1> QED
  BY <1>1, <1>2, FlushSet

(* Starting and ending one.                                                *)
LEMMA StartedType ==
  ASSUME NEW S \in SUBSET Offsets, NEW trigger \in {"timer", "size"}
  PROVE  Started(S, trigger) \in FlushStates
BY DEF Started, FlushStates, Steps

LEMMA NoFlushType == NoFlush \in FlushStates
BY DEF NoFlush, FlushStates, Steps

-----------------------------------------------------------------------------
(* Type correctness, one step per action. *)

LEMMA InitInv == Init => IInv
<1> SUFFICES ASSUME Init PROVE IInv
  OBVIOUS
<1>1. Offsets = {} /\ Len(log) = 0 /\ log \in Seq(Kinds)
  BY DEF Init, Offsets
<1>2. NoFlush \in FlushStates /\ \A f \in Flushes : flush[f] = NoFlush
  BY NoFlushType DEF Init
<1>3. TypeOK
  <2>1. flush \in [Flushes -> FlushStates]
    BY <1>2 DEF Init
  <2>2. 0 <= MaxLog /\ 0 \in 0 .. MaxCrashes
    BY BoundsAssumption
  <2>3. flush \in [Flushes -> [at : {"none", "parse", "write", "isolate", "commit"},
                               batch : SUBSET Offsets, todo : SUBSET Offsets,
                               by : {"timer", "size"}]]
    BY <2>1 DEF FlushStates, Steps
  <2>4. /\ committed \in 1 .. Len(log) + 1 /\ position \in 1 .. Len(log) + 1
        /\ last \in 0 .. Len(log) /\ crashes \in 0 .. MaxCrashes
    BY <1>1, <2>2 DEF Init
  <2>5. Len(log) <= MaxLog
    BY <1>1, <2>2
  <2>6. /\ scenario \in Scenarios /\ auto = FALSE /\ timer = FALSE
        /\ buffer = {} /\ stored = {} /\ dlq = {} /\ dropped = {} /\ lost = {}
    BY DEF Init
  <2> QED
    BY <1>1, <2>3, <2>4, <2>5, <2>6 DEF TypeOK
<1>4. InMemory = {}
  BY <1>2, MemoryMember DEF Init, NoFlush
<1> QED
  BY <1>1, <1>2, <1>3, <1>4
  DEF IInv, CommittedAccounted, HandledAccounted, NotAhead, OneWaiting, Active,
      FlushesSound, FlushSound, NoFlush

(* The position goes on past a message that is in the log, since the flush *)
(* it waited for holds it.                                                 *)
LEMMA TypeStep == TypeOK /\ OneWaiting /\ [Next]_vars => TypeOK'
<1> SUFFICES ASSUME TypeOK, OneWaiting, [Next]_vars PROVE TypeOK'
  OBVIOUS
<1> DEFINE Rest ==
      /\ scenario \in Scenarios
      /\ committed \in 1 .. Len(log) + 1 /\ position \in 1 .. Len(log) + 1
      /\ last \in 0 .. Len(log) /\ auto \in BOOLEAN
      /\ buffer \subseteq Offsets /\ timer \in BOOLEAN
      /\ stored \subseteq Offsets /\ dlq \subseteq Offsets
      /\ dropped \subseteq Offsets /\ lost \subseteq Offsets
      /\ crashes \in 0 .. MaxCrashes
<1>0. /\ Rest /\ flush \in [Flushes -> FlushStates]
      /\ log' \in Seq(Kinds) /\ Len(log') <= MaxLog /\ Len(log) \in Nat /\ Len(log') \in Nat
  BY KindsStay DEF TypeOK, FlushStates, Steps
<1>a. ASSUME Rest', flush' \in [Flushes -> FlushStates] \/ UNCHANGED flush, UNCHANGED log
      PROVE  TypeOK'
  <2>1. FlushStates' = FlushStates
    BY <1>a DEF FlushStates, Offsets
  <2>2. flush' \in [Flushes -> FlushStates']
    BY <1>0, <1>a, <2>1
  <2> QED
    BY <1>0, <1>a, <2>2 DEF TypeOK, FlushStates, Steps
<1> USE DEF Offsets
<1>1. CASE \E k \in scenario.kinds : Publish(k)
  <2>1. UNCHANGED <<scenario, kafkajs, handler, flush, sinks, lost, crashes>>
        /\ Len(log') = Len(log) + 1
    <3>1. PICK k \in scenario.kinds : Publish(k)
      BY <1>1
    <3> QED
      BY <3>1 DEF Publish, TypeOK
  <2>2. flush' \in [Flushes -> FlushStates']
    BY <1>0, <2>1 DEF FlushStates
  <2> QED
    BY <1>0, <2>1, <2>2 DEF TypeOK, FlushStates, Steps, kafkajs, handler, sinks
<1>2. CASE Fetch \/ AutoCommit \/ Buffer
  <2>1. CASE Fetch
    BY <1>0, <2>1, <1>a DEF Fetch, handler, sinks
  <2>2. CASE AutoCommit
    BY <1>0, <2>2, <1>a DEF AutoCommit, handler, sinks
  <2>3. CASE Buffer
    BY <1>0, <2>3, <1>a DEF Buffer, Handled, sinks
  <2> QED
    BY <1>2, <2>1, <2>2, <2>3
<1>3. ASSUME NEW f \in Flushes, BufferAndFlush(f) \/ TimerFires(f) PROVE TypeOK'
  <2>1. PICK S \in SUBSET Offsets, trigger \in {"timer", "size"} :
          flush' = [flush EXCEPT ![f] = Started(S, trigger)]
    <3>1. CASE BufferAndFlush(f)
      <4>1. buffer \cup {position} \in SUBSET Offsets
        BY <1>0, <3>1 DEF BufferAndFlush
      <4> QED
        BY <3>1, <4>1 DEF BufferAndFlush
    <3>2. CASE TimerFires(f)
      <4>1. buffer \in SUBSET Offsets
        BY <1>0
      <4> QED
        BY <3>2, <4>1 DEF TimerFires
    <3> QED
      BY <1>3, <3>1, <3>2
  <2>2. flush' \in [Flushes -> FlushStates]
    BY <2>1, FlushSet, StartedType
  <2> QED
    BY <1>0, <1>3, <1>a, <2>2 DEF BufferAndFlush, TimerFires, kafkajs, sinks
<1>4. ASSUME NEW f \in Flushes,
             Parse(f) \/ SyncUserSnapshots(f) \/ IsolateFailed(f) \/ SendNotifications(f)
      PROVE  TypeOK'
  <2>1. flush[f].batch \subseteq Offsets /\ {} \in SUBSET Offsets
    BY FlushType
  <2>2. flush' \in [Flushes -> FlushStates]
    <3>1. \A step \in {"write", "isolate", "commit"} : step \in Steps
      BY DEF Steps
    <3>2. \E step \in {"write", "isolate", "commit"}, todo \in SUBSET Offsets : Advance(f, step, todo)
      BY <1>4, <2>1
      DEF Parse, SyncUserSnapshots, IsolateFailed, SendNotifications, Written, Batch
    <3> QED
      BY <3>1, <3>2, AdvanceType
  <2>3. /\ stored' \subseteq Offsets /\ dlq' \subseteq Offsets /\ dropped' \subseteq Offsets
        /\ UNCHANGED <<scenario, log, kafkajs, handler, lost, crashes>>
    <3>1. CASE Parse(f)
      BY <1>0, <2>1, <3>1 DEF Parse, Isolate, Batch
    <3>2. CASE SyncUserSnapshots(f)
      BY <1>0, <2>1, <3>2 DEF SyncUserSnapshots, Batch
    <3>3. CASE IsolateFailed(f)
      BY <1>0, <2>1, <3>3 DEF IsolateFailed, Isolate, Batch
    <3>4. CASE SendNotifications(f)
      BY <1>0, <2>1, <3>4 DEF SendNotifications, Batch
    <3> QED
      BY <1>4, <3>1, <3>2, <3>3, <3>4
  <2> QED
    BY <1>0, <1>a, <2>2, <2>3 DEF kafkajs, handler
<1>5. ASSUME NEW f \in Flushes, CommitOne(f) PROVE TypeOK'
  <2>1. PICK o \in flush[f].todo : committed' = o + 1 /\ Advance(f, "commit", flush[f].todo \ {o})
    BY <1>5 DEF CommitOne
  <2>2. o \in Offsets /\ flush[f].todo \ {o} \in SUBSET Offsets /\ "commit" \in Steps
    BY FlushType DEF Steps
  <2>3. flush' \in [Flushes -> FlushStates]
    BY <2>1, <2>2, AdvanceType
  <2> QED
    BY <1>0, <1>5, <1>a, <2>1, <2>2, <2>3 DEF CommitOne, handler, sinks
<1>6. ASSUME NEW f \in Flushes, EndFlush(f) \/ Rethrow(f) PROVE TypeOK'
  <2>1. flush' \in [Flushes -> FlushStates]
    BY <1>6, FlushSet, NoFlushType DEF EndFlush, Rethrow
  <2>2. CASE EndFlush(f)
    <3>1. CASE flush[f].by = "size"
      <4>1. position \in Offsets
        BY <2>2, <3>1, FlushType DEF EndFlush, OneWaiting, Active, At
      <4> QED
        BY <1>0, <1>a, <2>1, <2>2, <3>1, <4>1 DEF EndFlush, Handled, handler, sinks
    <3>2. CASE flush[f].by # "size"
      BY <1>0, <1>a, <2>1, <2>2, <3>2 DEF EndFlush, kafkajs, handler, sinks
    <3> QED
      BY <3>1, <3>2
  <2>3. CASE Rethrow(f)
    <3>1. PICK S \in SUBSET (Batch(f) \cap OfKind("valid")) :
            /\ stored' = stored \cup S
            /\ committed' = position
            /\ lost' = lost \cup Gone(Batch(f) \ S, position)
      BY <2>3 DEF Rethrow
    <3>2. stored' \subseteq Offsets /\ lost' \subseteq Offsets
      BY <1>0, <3>1, FlushType DEF Batch, Gone
    <3>3. last' = position - 1 /\ auto' = FALSE
          /\ UNCHANGED <<scenario, log, position, buffer, timer, dlq, dropped, crashes>>
      BY <2>3 DEF Rethrow, handler
    <3>4. last' \in 0 .. Len(log)
      BY <1>0, <3>3
    <3> QED
      BY <1>0, <1>a, <2>1, <3>1, <3>2, <3>3, <3>4
  <2> QED
    BY <1>6, <2>2, <2>3
<1>7. CASE Crash
  <2>1. InMemory \subseteq Offsets
    BY <1>0, FlushType, MemoryMember
  <2>2. lost' \subseteq Offsets
    BY <1>0, <1>7, <2>1 DEF Crash, Gone
  <2>3. flush' \in [Flushes -> FlushStates]
    BY <1>7, NoFlushType DEF Crash
  <2>4. crashes' \in 0 .. MaxCrashes
    BY <1>0, <1>7, BoundsAssumption DEF Crash
  <2>5. /\ buffer' = {} /\ timer' = FALSE /\ auto' = FALSE
        /\ position' = committed /\ last' = committed - 1
        /\ UNCHANGED <<scenario, log, committed, stored, dlq, dropped>>
    BY <1>7 DEF Crash, sinks
  <2>6. last' \in 0 .. Len(log)
    BY <1>0, <2>5
  <2> QED
    BY <1>0, <1>a, <2>2, <2>3, <2>4, <2>5, <2>6
<1>8. CASE UNCHANGED vars
  BY <1>0, <1>8, <1>a DEF vars, kafkajs, handler, sinks
<1> QED
  BY <1>1, <1>2, <1>3, <1>4, <1>5, <1>6, <1>7, <1>8 DEF Next, Consume, FlushStep

-----------------------------------------------------------------------------
(* The invariant, by what a step does to memory. *)

Sound == CommittedAccounted /\ HandledAccounted /\ NotAhead /\ OneWaiting /\ FlushesSound

LEMMA MemoryKept ==
  ASSUME UNCHANGED buffer, \A f \in Flushes : flush'[f].batch = flush[f].batch
  PROVE  InMemory' = InMemory
BY DEF InMemory

(* Steps beside the handler: publication, and KafkaJS' fetches and commits.*)
LEMMA PublishSound ==
  ASSUME IInv, NEW k \in scenario.kinds, Publish(k)
  PROVE  Sound'
<1>1. /\ UNCHANGED <<committed, position, buffer, flush, stored, dlq, dropped, lost>>
      /\ log' = Append(log, k) /\ log \in Seq(Kinds)
      /\ committed \in 1 .. Len(log) + 1 /\ position \in 1 .. Len(log) + 1
  BY DEF Publish, kafkajs, handler, sinks, IInv, TypeOK
<1>2. UNCHANGED <<InMemory, Covered, Accounted>>
  BY <1>1, MemoryKept DEF Covered, Accounted
<1>3. Offsets' = 1 .. Len(log) + 1 /\ \A o \in Offsets : log'[o] = log[o]
  BY <1>1 DEF Offsets
<1>4. FlushesSound'
  <2>1. \A f \in Flushes : flush[f].batch \subseteq Offsets
    BY FlushType DEF IInv
  <2> QED
    BY <1>1, <1>2, <1>3, <2>1 DEF IInv, FlushesSound, FlushSound
<1> QED
  BY <1>1, <1>2, <1>3, <1>4
  DEF Sound, IInv, CommittedAccounted, HandledAccounted, NotAhead, OneWaiting, Active, Offsets

LEMMA KafkaSound ==
  ASSUME IInv, Fetch \/ AutoCommit \/ UNCHANGED vars
  PROVE  Sound'
<1>1. /\ UNCHANGED <<log, position, buffer, flush, stored, dlq, dropped, lost>>
      /\ committed' \in {committed, position}
  BY DEF Fetch, AutoCommit, vars, kafkajs, handler, sinks
<1>2. UNCHANGED <<InMemory, Covered, Accounted>>
  BY <1>1, MemoryKept DEF Covered, Accounted
<1> QED
  BY <1>1, <1>2
  DEF Sound, IInv, CommittedAccounted, HandledAccounted, NotAhead, OneWaiting, Active,
      FlushesSound, FlushSound, Offsets

(* A message that is only buffered: no flush waits for the position.       *)
LEMMA BufferSound ==
  ASSUME IInv, Buffer
  PROVE  Sound'
<1>1. /\ UNCHANGED <<log, committed, flush, stored, dlq, dropped, lost>>
      /\ position \in Nat /\ position' = position + 1
      /\ buffer' = buffer \cup {position}
      /\ \A f \in Flushes : ~(Active(f) /\ flush[f].by = "size")
  BY DEF Buffer, Handled, sinks, IInv, TypeOK, Waiting, Active
<1>2. InMemory' = InMemory \cup {position}
  BY <1>1 DEF InMemory
<1>3. UNCHANGED Covered /\ Accounted' = Accounted \cup {position}
  BY <1>1, <1>2 DEF Covered, Accounted
<1>4. NotAhead'
  <2>1. ASSUME NEW o \in InMemory PROVE o \in Int
    BY <2>1, MemoryInLog DEF IInv, Offsets
  <2> QED
    BY <1>1, <1>2, <2>1 DEF IInv, NotAhead
<1>5. OneWaiting'
  BY <1>1 DEF OneWaiting, Active
<1>6. HandledAccounted' /\ CommittedAccounted'
  BY <1>1, <1>3 DEF IInv, HandledAccounted, CommittedAccounted, Offsets
<1>7. FlushesSound'
  BY <1>1, <1>3 DEF IInv, FlushesSound, FlushSound
<1> QED
  BY <1>4, <1>5, <1>6, <1>7 DEF Sound

(* A flush starts: the buffer, and the message at hand if it is full,      *)
(* become its batch.                                                       *)
LEMMA StartSound ==
  ASSUME IInv, NEW f \in Flushes, BufferAndFlush(f) \/ TimerFires(f)
  PROVE  Sound'
<1>1. /\ UNCHANGED <<log, committed, position, stored, dlq, dropped, lost>>
      /\ buffer' = {} /\ flush[f].at = "none"
      /\ position \in 1 .. Len(log) + 1 /\ buffer \subseteq Offsets
  BY DEF BufferAndFlush, TimerFires, FreeFlush, kafkajs, sinks, IInv, TypeOK
<1>2. PICK S, trigger :
        /\ flush' = [flush EXCEPT ![f] = Started(S, trigger)]
        /\ buffer \subseteq S /\ S \subseteq buffer \cup {position}
        /\ trigger = "size" => position \in S /\ ~Waiting
  BY DEF BufferAndFlush, TimerFires
<1>3. /\ flush'[f] = [at |-> "parse", batch |-> S, todo |-> {}, by |-> trigger]
      /\ \A g \in Flushes \ {f} : flush'[g] = flush[g]
  BY <1>2, FlushSet DEF IInv, Started
<1>4. flush[f].batch = {}
  BY <1>1 DEF IInv, FlushesSound, FlushSound
<1>5. InMemory \subseteq InMemory' /\ InMemory' \subseteq InMemory \cup {position}
  <2>1. ASSUME NEW o \in InMemory PROVE o \in InMemory'
    BY <1>2, <1>3, <1>4, <2>1, MemoryMember, MemoryMemberNext
  <2>2. ASSUME NEW o \in InMemory' PROVE o \in InMemory \cup {position}
    BY <1>1, <1>2, <1>3, <2>2, MemoryMember, MemoryMemberNext
  <2> QED
    BY <2>1, <2>2
<1>6. UNCHANGED Covered /\ Accounted \subseteq Accounted'
  BY <1>1, <1>5 DEF Covered, Accounted
<1>7. NotAhead'
  BY <1>1, <1>5 DEF IInv, NotAhead
<1>8. OneWaiting'
  BY <1>1, <1>2, <1>3 DEF IInv, OneWaiting, Active, Waiting
<1>9. FlushesSound'
  BY <1>1, <1>3, <1>6 DEF IInv, FlushesSound, FlushSound
<1> QED
  BY <1>1, <1>6, <1>7, <1>8, <1>9
  DEF Sound, IInv, CommittedAccounted, HandledAccounted, Offsets

(* A flush advances: memory stays, and what it does to its batch is what   *)
(* its next step supposes.                                                 *)
LEMMA AdvanceSound ==
  ASSUME IInv, NEW f \in Flushes, flush[f].at # "none",
         NEW step \in Steps \ {"none"}, NEW todo \in SUBSET flush[f].batch,
         Advance(f, step, todo),
         UNCHANGED <<log, committed, position, buffer, lost>>,
         Covered \subseteq Covered',
         step = "write" => \A o \in flush[f].batch : log[o] \in {"invalid", "empty"} => o \in Covered',
         step = "isolate" => \A o \in flush[f].batch : log[o] # "rejected" => o \in Covered',
         step = "commit" => flush[f].batch \subseteq Covered'
  PROVE  Sound'
<1>1. /\ flush'[f] = [at |-> step, batch |-> flush[f].batch, todo |-> todo,
                      by |-> flush[f].by]
      /\ \A g \in Flushes \ {f} : flush'[g] = flush[g]
  <2>1. todo \in SUBSET Offsets /\ step \in Steps
    BY FlushType DEF IInv
  <2> QED
    BY <2>1, AdvanceType DEF IInv
<1>2. InMemory' = InMemory
  BY <1>1, MemoryKept
<1>3. Accounted \subseteq Accounted'
  BY <1>2 DEF Accounted
<1>4. OneWaiting'
  BY <1>1 DEF IInv, OneWaiting, Active
<1>5. FlushesSound'
  BY <1>1 DEF IInv, FlushesSound, FlushSound, Steps
<1> QED
  BY <1>2, <1>3, <1>4, <1>5
  DEF Sound, IInv, CommittedAccounted, HandledAccounted, NotAhead, Offsets

LEMMA WorkSound ==
  ASSUME IInv, NEW f \in Flushes,
         Parse(f) \/ SyncUserSnapshots(f) \/ IsolateFailed(f) \/ SendNotifications(f)
  PROVE  Sound'
<1>1. /\ UNCHANGED <<log, committed, position, buffer, lost>> /\ flush[f].at # "none"
  BY DEF Parse, SyncUserSnapshots, IsolateFailed, SendNotifications, kafkajs, handler, At
<1>2. flush[f].batch \subseteq Offsets /\ FlushSound(f)
  BY FlushType DEF IInv, FlushesSound
<1>3. {} \in SUBSET flush[f].batch /\ flush[f].batch \in SUBSET flush[f].batch
      /\ {"write", "isolate", "commit"} \subseteq Steps \ {"none"}
  BY DEF Steps
<1>4. CASE Parse(f)
  <2>1. /\ Advance(f, "write", {}) /\ Covered \subseteq Covered'
        /\ Batch(f) \cap NotParsed \subseteq Covered'
    BY <1>4 DEF Parse, Isolate, NotParsed, Covered
  <2>2. \A o \in flush[f].batch : log[o] \in {"invalid", "empty"} => o \in Covered'
    BY <1>2, <2>1 DEF OfKind, NotParsed, Batch
  <2> QED
    BY <1>1, <1>3, <2>1, <2>2, AdvanceSound
<1>5. CASE SyncUserSnapshots(f)
  <2>1. /\ Advance(f, "isolate", {}) /\ Covered \subseteq Covered' /\ flush[f].at = "write"
        /\ Batch(f) \cap OfKind("valid") \subseteq Covered'
    BY <1>5 DEF SyncUserSnapshots, At, Covered
  <2>2. \A o \in flush[f].batch : log[o] # "rejected" => o \in Covered'
    BY <1>2, <2>1 DEF FlushSound, OfKind, Batch, IInv, TypeOK, Kinds, Offsets
  <2> QED
    BY <1>1, <1>3, <2>1, <2>2, AdvanceSound
<1>6. CASE IsolateFailed(f)
  <2>1. /\ Advance(f, "commit", flush[f].batch)
        /\ Covered \subseteq Covered' /\ flush[f].at = "isolate"
        /\ Batch(f) \cap OfKind("rejected") \subseteq Covered'
    BY <1>6 DEF IsolateFailed, Isolate, At, Written, Batch, Covered
  <2>2. flush[f].batch \subseteq Covered'
    BY <1>2, <2>1 DEF FlushSound, OfKind, Batch
  <2> QED
    BY <1>1, <1>3, <2>1, <2>2, AdvanceSound
<1>7. CASE SendNotifications(f)
  <2>1. /\ Advance(f, "commit", flush[f].batch)
        /\ Covered \subseteq Covered' /\ flush[f].at = "write"
        /\ Batch(f) \ NotParsed \subseteq Covered'
    BY <1>7 DEF SendNotifications, At, Written, Batch, Covered
  <2>2. flush[f].batch \subseteq Covered'
    BY <1>2, <2>1 DEF FlushSound, OfKind, NotParsed, Batch
  <2> QED
    BY <1>1, <1>3, <2>1, <2>2, AdvanceSound
<1> QED
  BY <1>4, <1>5, <1>6, <1>7

(* A flush commits one of its messages.  All before it are accounted for,  *)
(* since a batch never runs ahead of the position.                         *)
LEMMA CommitSound ==
  ASSUME IInv, NEW f \in Flushes, CommitOne(f)
  PROVE  Sound'
<1>1. PICK n \in flush[f].todo :
        committed' = n + 1 /\ Advance(f, "commit", flush[f].todo \ {n})
  BY DEF CommitOne
<1>2. /\ UNCHANGED <<log, position, buffer, stored, dlq, dropped, lost>>
      /\ flush[f].at = "commit"
  BY DEF CommitOne, handler, sinks, At
<1>3. /\ n \in flush[f].batch /\ flush[f].batch \subseteq Covered
      /\ flush[f].todo \subseteq flush[f].batch
  BY <1>2 DEF IInv, FlushesSound, FlushSound
<1>4. n \in InMemory /\ n \in Offsets /\ n <= position
  BY <1>3, MemoryMember, FlushType DEF IInv, NotAhead
<1>5. /\ flush'[f] = [at |-> "commit", batch |-> flush[f].batch,
                      todo |-> flush[f].todo \ {n}, by |-> flush[f].by]
      /\ \A g \in Flushes \ {f} : flush'[g] = flush[g]
  <2>1. flush[f].todo \ {n} \in SUBSET Offsets /\ "commit" \in Steps
    BY FlushType DEF IInv, Steps
  <2> QED
    BY <1>1, <2>1, AdvanceType DEF IInv
<1>6. UNCHANGED <<InMemory, Covered, Accounted>>
  BY <1>2, <1>5, MemoryKept DEF Covered, Accounted
<1>7. CommittedAccounted'
  <2> SUFFICES ASSUME NEW o \in Offsets, o < n + 1 PROVE o \in Accounted
    BY <1>1, <1>2, <1>6 DEF CommittedAccounted, Offsets
  <2>1. o < position \/ o = n
    BY <1>4 DEF Offsets, IInv, TypeOK
  <2> QED
    BY <1>4, <2>1 DEF IInv, HandledAccounted, Accounted
<1>8. OneWaiting'
  BY <1>2, <1>5 DEF IInv, OneWaiting, Active
<1>9. FlushesSound'
  BY <1>2, <1>3, <1>5, <1>6 DEF IInv, FlushesSound, FlushSound
<1> QED
  BY <1>2, <1>6, <1>7, <1>8, <1>9 DEF Sound, IInv, HandledAccounted, NotAhead, Offsets

(* A flush ends: its batch has left memory for where it was covered.       *)
LEMMA EndSound ==
  ASSUME IInv, NEW f \in Flushes, EndFlush(f)
  PROVE  Sound'
<1>1. /\ UNCHANGED <<log, committed, buffer, stored, dlq, dropped, lost>>
      /\ flush[f].at = "commit" /\ position \in Nat
      /\ IF flush[f].by = "size" THEN position' = position + 1 ELSE UNCHANGED position
  BY DEF EndFlush, Handled, kafkajs, handler, sinks, At, IInv, TypeOK
<1>2. flush'[f] = NoFlush /\ \A g \in Flushes \ {f} : flush'[g] = flush[g]
  BY FlushSet DEF EndFlush, IInv
<1>3. flush[f].batch \subseteq Covered
  BY <1>1 DEF IInv, FlushesSound, FlushSound
<1>4. UNCHANGED Covered
  BY <1>1 DEF Covered
<1>5. InMemory' \subseteq InMemory /\ InMemory \subseteq InMemory' \cup Covered
  <2>1. ASSUME NEW o \in InMemory' PROVE o \in InMemory
    BY <1>1, <1>2, <2>1, MemoryMember, MemoryMemberNext DEF NoFlush
  <2>2. ASSUME NEW o \in InMemory PROVE o \in InMemory' \cup Covered
    BY <1>1, <1>2, <1>3, <2>2, MemoryMember, MemoryMemberNext
  <2> QED
    BY <2>1, <2>2
<1>6. Accounted \subseteq Accounted'
  BY <1>1, <1>4, <1>5 DEF Accounted
<1>7. FlushesSound'
  BY <1>1, <1>2, <1>4 DEF IInv, FlushesSound, FlushSound, NoFlush
<1>8. CommittedAccounted'
  BY <1>1, <1>6 DEF IInv, CommittedAccounted, Offsets
<1>9. CASE flush[f].by = "size"
  <2>1. position' = position + 1
    BY <1>1, <1>9
  <2>2. position \in Accounted
    BY <1>1, <1>3, <1>9 DEF IInv, OneWaiting, Active, Accounted
  <2>3. HandledAccounted'
    BY <1>1, <1>6, <2>1, <2>2 DEF IInv, HandledAccounted, Offsets
  <2>4. NotAhead'
    <3>1. ASSUME NEW o \in InMemory PROVE o <= position + 1
      <4>1. o \in Offsets
        BY MemoryInLog DEF IInv
      <4> QED
        BY <1>1, <3>1, <4>1 DEF IInv, NotAhead, Offsets
    <3> QED
      BY <1>5, <2>1, <3>1 DEF NotAhead
  <2>5. OneWaiting'
    BY <1>1, <1>2, <1>9 DEF IInv, OneWaiting, Active, NoFlush
  <2> QED
    BY <1>7, <1>8, <2>3, <2>4, <2>5 DEF Sound
<1>10. CASE flush[f].by # "size"
  <2>1. HandledAccounted' /\ NotAhead'
    BY <1>1, <1>5, <1>6, <1>10 DEF IInv, HandledAccounted, NotAhead, Offsets
  <2>2. OneWaiting'
    BY <1>1, <1>2, <1>10 DEF IInv, OneWaiting, Active, NoFlush
  <2> QED
    BY <1>7, <1>8, <2>1, <2>2 DEF Sound
<1> QED
  BY <1>9, <1>10

(* A rethrow under eachMessage: what is handled is committed, and what of  *)
(* the batch has not reached MongoDB is lost, but for the message itself,  *)
(* which is delivered again.                                               *)
LEMMA RethrowSound ==
  ASSUME IInv, NEW f \in Flushes, Rethrow(f)
  PROVE  Sound'
<1>1. PICK S \in SUBSET flush[f].batch :
        /\ stored' = stored \cup S /\ committed' = position
        /\ lost' = lost \cup {o \in (flush[f].batch \ S) \ Covered : o < position}
  BY DEF Rethrow, Batch, Gone
<1>2. UNCHANGED <<log, position, buffer, dlq, dropped>>
  BY DEF Rethrow, handler
<1>3. flush'[f] = NoFlush /\ \A g \in Flushes \ {f} : flush'[g] = flush[g]
  BY FlushSet DEF Rethrow, IInv
<1>4. Covered' = Covered \cup S
  BY <1>1, <1>2 DEF Covered
<1>5. InMemory' \subseteq InMemory /\ InMemory \subseteq InMemory' \cup flush[f].batch
  <2>1. ASSUME NEW o \in InMemory' PROVE o \in InMemory
    BY <1>2, <1>3, <2>1, MemoryMember, MemoryMemberNext DEF NoFlush
  <2>2. ASSUME NEW o \in InMemory PROVE o \in InMemory' \cup flush[f].batch
    BY <1>2, <1>3, <2>2, MemoryMember, MemoryMemberNext
  <2> QED
    BY <2>1, <2>2
<1>6. \A o \in Accounted : o < position => o \in Accounted'
  BY <1>1, <1>4, <1>5 DEF Accounted
<1>7. HandledAccounted' /\ CommittedAccounted' /\ NotAhead'
  BY <1>1, <1>2, <1>5, <1>6
  DEF IInv, HandledAccounted, CommittedAccounted, NotAhead, Offsets
<1>8. OneWaiting'
  BY <1>2, <1>3 DEF IInv, OneWaiting, Active, NoFlush
<1>9. FlushesSound'
  BY <1>2, <1>3, <1>4 DEF IInv, FlushesSound, FlushSound, NoFlush
<1> QED
  BY <1>7, <1>8, <1>9 DEF Sound

(* A crash loses what was in memory, and the position goes back.           *)
LEMMA CrashSound ==
  ASSUME IInv, Crash
  PROVE  Sound'
<1>1. /\ UNCHANGED <<log, committed, stored, dlq, dropped>>
      /\ position' = committed /\ buffer' = {}
      /\ lost' = lost \cup {o \in InMemory \ Covered : o < committed}
      /\ \A f \in Flushes : flush'[f] = NoFlush
  BY DEF Crash, sinks, Gone
<1>2. InMemory' = {}
  BY <1>1, MemoryMemberNext DEF NoFlush
<1>3. UNCHANGED Covered
  BY <1>1 DEF Covered
<1>4. \A o \in Accounted : o < committed => o \in Accounted'
  BY <1>1, <1>3 DEF Accounted
<1> QED
  BY <1>1, <1>2, <1>3, <1>4
  DEF Sound, IInv, CommittedAccounted, HandledAccounted, NotAhead, OneWaiting, Active,
      FlushesSound, FlushSound, NoFlush, Offsets

LEMMA StepInv == IInv /\ [Next]_vars => IInv'
<1> SUFFICES ASSUME IInv, [Next]_vars PROVE IInv'
  OBVIOUS
<1>1. TypeOK'
  BY TypeStep DEF IInv
<1>2. Sound'
  BY PublishSound, KafkaSound, BufferSound, StartSound, WorkSound, CommitSound,
     EndSound, RethrowSound, CrashSound
  DEF Next, Consume, FlushStep
<1> QED
  BY <1>1, <1>2 DEF IInv, Sound

(* The variables keep their types; that the position never passes the end  *)
(* of the log rests on the flush it waits for.                             *)
THEOREM TypeCorrect == Spec => []TypeOK
<1>1. IInv => TypeOK
  BY DEF IInv
<1> QED
  BY <1>1, InitInv, StepInv, PTL DEF Spec

-----------------------------------------------------------------------------
(* The consumer implements Delivery. *)

(* A step that publishes nothing is a step of Delivery's Work: what has    *)
(* arrived or was given up stays so, and what leaves memory is covered or  *)
(* its offset is not committed.                                            *)
LEMMA WorkStep ==
  ASSUME IInv, IInv', [Next]_vars, UNCHANGED log
  PROVE  AtLeastOnce!Work
<1>1. /\ (stored \cup dlq) \subseteq (stored \cup dlq)'
      /\ (dropped \cup lost) \subseteq (dropped \cup lost)'
  BY DEF Next, Publish, Consume, Fetch, Buffer, BufferAndFlush, AutoCommit, FlushStep,
         TimerFires, Parse, SyncUserSnapshots, IsolateFailed, SendNotifications, Isolate,
         CommitOne, EndFlush, Rethrow, Crash, sinks, vars
<1>2. (stored \cup dlq \cup InMemory \cup dropped \cup lost)' \subseteq 1 .. Len(log)
  <2>1. InMemory' \subseteq Offsets'
    <3> SUFFICES ASSUME NEW o \in InMemory' PROVE o \in Offsets'
      OBVIOUS
    <3>1. buffer' \subseteq Offsets' /\ \A f \in Flushes : flush'[f].batch \subseteq Offsets'
      BY DEF IInv, TypeOK
    <3> QED
      BY <3>1, MemoryMemberNext
  <2> QED
    BY <2>1 DEF IInv, TypeOK, Offsets
<1>3. committed' \in 1 .. Len(log) + 1
  BY DEF IInv, TypeOK
<1>4. \A o \in 1 .. Len(log) :
        o < committed' => o \in (stored \cup dlq \cup InMemory \cup dropped \cup lost)'
  BY DEF IInv, CommittedAccounted, Accounted, Covered, Offsets
<1> QED
  BY <1>1, <1>2, <1>3, <1>4
  DEF AtLeastOnce!Work, AtLeastOnce!Deliver, AtLeastOnce!Commit, AtLeastOnce!Covered,
      AtLeastOnce!Records

(* Every behaviour of the worker, with its automatic commits, overlapping  *)
(* flushes, failing calls, rethrows and crashes, is a behaviour of the     *)
(* at-least-once delivery of which memory is a part: the only records that *)
(* are committed and nowhere are those counted as dropped or lost.         *)
THEOREM NotificationsDeliver == Spec => Delivers
<1>1. Init => AtLeastOnce!Init
  <2> SUFFICES ASSUME Init PROVE AtLeastOnce!Init
    OBVIOUS
  <2>1. \A f \in Flushes : flush[f].batch = {}
    BY DEF Init, NoFlush
  <2>2. InMemory = {}
    BY <2>1, MemoryMember DEF Init
  <2> QED
    BY <2>2 DEF Init, AtLeastOnce!Init
<1>2. IInv /\ IInv' /\ [Next]_vars => [AtLeastOnce!Next]_(AtLeastOnce!vars)
  <2> SUFFICES ASSUME IInv, IInv', [Next]_vars PROVE AtLeastOnce!Next
    OBVIOUS
  <2>1. ASSUME NEW k \in scenario.kinds, Publish(k) PROVE AtLeastOnce!Next
    <3>1. Len(log') = Len(log) + 1
      BY <2>1 DEF Publish, IInv, TypeOK
    <3>2. UNCHANGED <<committed, buffer, flush, stored, dlq, dropped, lost>>
      BY <2>1 DEF Publish, kafkajs, handler, sinks
    <3>3. UNCHANGED InMemory
      BY <3>2, MemoryKept
    <3> QED
      BY <3>1, <3>2, <3>3 DEF AtLeastOnce!Next, AtLeastOnce!Publish
  <2>2. CASE UNCHANGED log
    BY <2>2, WorkStep DEF AtLeastOnce!Next
  <2> QED
    BY <2>1, <2>2
    DEF Next, Consume, Fetch, Buffer, BufferAndFlush, AutoCommit, FlushStep, TimerFires,
        Parse, SyncUserSnapshots, IsolateFailed, SendNotifications, CommitOne, EndFlush,
        Rethrow, Crash, vars
<1> QED
  BY <1>1, <1>2, InitInv, StepInv, PTL DEF Spec, Delivers, AtLeastOnce!Spec

-----------------------------------------------------------------------------
(* What a refused notification costs when nothing fails. *)

(* The buffer is a run of messages up to the position, shorter than a full *)
(* one, and a batch is no wider.                                           *)
Together ==
  /\ \E lo \in 1 .. position : buffer = lo .. position - 1 /\ position - lo < BatchSize
  /\ Waiting => buffer = {}
  /\ \A f \in Flushes : \A o, p \in flush[f].batch : p - o < BatchSize

GivenUp ==
  /\ lost = {} /\ dlq \subseteq OfKind("invalid") \cup OfKind("rejected")
  /\ \A o \in dropped :
       /\ topic = "notes" \/ log[o] = "empty"
       /\ log[o] \in {"valid", "rejected"} => Near(o)

LEMMA StartTogether ==
  ASSUME IInv, Together, NEW f \in Flushes, BufferAndFlush(f) \/ TimerFires(f)
  PROVE  Together'
<1>1. PICK lo \in 1 .. position : buffer = lo .. position - 1 /\ position - lo < BatchSize
  BY DEF Together
<1>2. /\ UNCHANGED position /\ buffer' = {} /\ position \in Nat \ {0}
      /\ BatchSize \in Nat \ {0}
  BY BoundsAssumption DEF BufferAndFlush, TimerFires, kafkajs, IInv, TypeOK
<1>3. PICK S, trigger :
        /\ flush' = [flush EXCEPT ![f] = Started(S, trigger)]
        /\ S \subseteq buffer \cup {position}
  BY DEF BufferAndFlush, TimerFires
<1>4. /\ flush'[f] = [at |-> "parse", batch |-> S, todo |-> {}, by |-> trigger]
      /\ \A g \in Flushes \ {f} : flush'[g] = flush[g]
  BY <1>3, FlushSet DEF IInv, Started
<1>5. \A o, p \in S : p - o < BatchSize
  <2>1. \A o \in S : o \in Int /\ lo <= o /\ o <= position
    BY <1>1, <1>2, <1>3
  <2> QED
    BY <1>1, <1>2, <2>1
<1>6. \E l \in 1 .. position : {} = l .. position - 1 /\ position - l < BatchSize
  BY <1>2
<1> QED
  BY <1>2, <1>4, <1>5, <1>6 DEF Together

LEMMA BufferTogether ==
  ASSUME IInv, Together, Buffer
  PROVE  Together'
<1>1. PICK lo \in 1 .. position : buffer = lo .. position - 1 /\ position - lo < BatchSize
  BY DEF Together
<1>2. /\ UNCHANGED flush /\ ~Waiting /\ position \in Nat \ {0}
      /\ position' = position + 1 /\ buffer' = buffer \cup {position}
      /\ Cardinality(buffer) + 1 < BatchSize /\ BatchSize \in Nat
  BY BoundsAssumption DEF Buffer, Handled, IInv, TypeOK
<1>3. Cardinality(buffer) = position - lo
  BY <1>1, <1>2, FS_Interval
<1>4. buffer' = lo .. position' - 1 /\ position' - lo < BatchSize /\ lo \in 1 .. position'
  BY <1>1, <1>2, <1>3
<1>5. ~Waiting'
  BY <1>2 DEF Waiting
<1> QED
  BY <1>2, <1>4, <1>5 DEF Together

LEMMA TogetherStep ==
  ASSUME IInv, Together, ~faulty, [Next]_vars
  PROVE  Together'
<1>1. CASE UNCHANGED <<position, buffer, flush>>
  BY <1>1 DEF Together, Waiting
<1>2. ASSUME NEW f \in Flushes,
             \/ Parse(f) \/ SyncUserSnapshots(f) \/ IsolateFailed(f)
             \/ SendNotifications(f) \/ CommitOne(f)
      PROVE  Together'
  <2>1. UNCHANGED <<position, buffer>> /\ flush[f].at # "none"
    BY <1>2 DEF Parse, SyncUserSnapshots, IsolateFailed, SendNotifications, CommitOne,
                kafkajs, handler, At
  <2>2. flush[f].batch \subseteq Offsets /\ flush[f].todo \subseteq Offsets
    BY FlushType DEF IInv
  <2>3. \E step \in Steps \ {"none"}, todo \in SUBSET Offsets : Advance(f, step, todo)
    BY <1>2, <2>2
    DEF Parse, SyncUserSnapshots, IsolateFailed, SendNotifications, CommitOne, Written,
        Batch, Steps
  <2>4. PICK step \in Steps \ {"none"}, todo \in SUBSET Offsets : Advance(f, step, todo)
    BY <2>3
  <2>5. /\ flush'[f] = [at |-> step, batch |-> flush[f].batch, todo |-> todo,
                        by |-> flush[f].by]
        /\ \A g \in Flushes \ {f} : flush'[g] = flush[g]
    BY <2>4, AdvanceType DEF IInv
  <2>6. \A g \in Flushes : flush'[g].batch = flush[g].batch
    BY <2>5
  <2>7. Waiting' => Waiting
    BY <2>1, <2>5 DEF Waiting
  <2>8. (\E lo \in 1 .. position : buffer = lo .. position - 1 /\ position - lo < BatchSize)'
    BY <2>1 DEF Together
  <2> QED
    BY <2>1, <2>6, <2>7, <2>8 DEF Together
<1>3. ASSUME NEW f \in Flushes, EndFlush(f) PROVE Together'
  <2>1. flush'[f] = NoFlush /\ \A g \in Flushes \ {f} : flush'[g] = flush[g]
    BY <1>3, FlushSet DEF EndFlush, IInv
  <2>2. UNCHANGED buffer /\ position \in Nat \ {0} /\ BatchSize \in Nat \ {0}
    BY <1>3, BoundsAssumption DEF EndFlush, handler, IInv, TypeOK
  <2>3. \A g \in Flushes : \A o, p \in flush'[g].batch : p - o < BatchSize
    BY <2>1 DEF Together, NoFlush
  <2>4. Waiting' => Waiting
    BY <2>1 DEF Waiting, NoFlush
  <2>5. CASE flush[f].by = "size"
    <3>1. position' = position + 1 /\ Waiting
      BY <1>3, <2>5 DEF EndFlush, Handled, Waiting, At
    <3>2. buffer' = position' .. position' - 1 /\ position' - position' < BatchSize
      BY <2>2, <3>1 DEF Together
    <3>3. position' \in 1 .. position'
      BY <2>2, <3>1
    <3> QED
      BY <2>2, <2>3, <2>4, <3>1, <3>2, <3>3 DEF Together
  <2>6. CASE flush[f].by # "size"
    <3>1. UNCHANGED position
      BY <1>3, <2>6 DEF EndFlush, kafkajs
    <3> QED
      BY <2>2, <2>3, <2>4, <3>1 DEF Together
  <2> QED
    BY <2>5, <2>6
<1>4. ASSUME NEW f \in Flushes, Rethrow(f) PROVE FALSE
  BY <1>4 DEF Rethrow
<1>5. ASSUME Crash PROVE FALSE
  BY <1>5 DEF Crash
<1> QED
  BY <1>1, <1>2, <1>3, <1>4, <1>5, StartTogether, BufferTogether
  DEF Next, Publish, Consume, Fetch, AutoCommit, FlushStep, kafkajs, handler, vars

LEMMA GivenUpStep ==
  ASSUME IInv, Together, GivenUp, ~faulty, [Next]_vars
  PROVE  GivenUp'
<1>1. CASE UNCHANGED <<scenario, lost, dlq, dropped>>
  <2>1. dropped \subseteq Offsets
    BY DEF IInv, TypeOK
  <2>2. \A o \in Offsets : o \in Offsets' /\ log'[o] = log[o]
    BY KindsStay DEF IInv
  <2>3. OfKind("rejected") \subseteq OfKind("rejected")'
        /\ OfKind("invalid") \subseteq OfKind("invalid")'
    BY <2>2 DEF OfKind
  <2> QED
    BY <1>1, <2>1, <2>2, <2>3 DEF GivenUp, Near
<1>2. ASSUME NEW f \in Flushes, Parse(f) PROVE GivenUp'
  <2>1. /\ UNCHANGED <<scenario, log, lost>>
        /\ \/ /\ dlq' \subseteq dlq \cup OfKind("invalid")
              /\ dropped' \subseteq dropped \cup OfKind("empty")
           \/ /\ topic # "users" /\ dlq' = dlq
              /\ dropped' \subseteq dropped \cup NotParsed
    BY <1>2 DEF Parse, Isolate
  <2>2. topic \in {"users", "notes"}
    BY ScenariosAssumption DEF IInv, TypeOK
  <2> QED
    BY <2>1, <2>2 DEF GivenUp, Near, NotParsed, OfKind, Offsets
<1>3. ASSUME NEW f \in Flushes, IsolateFailed(f) PROVE GivenUp'
  <2>1. /\ UNCHANGED <<scenario, log, lost, dropped>>
        /\ dlq' \subseteq dlq \cup OfKind("rejected")
    BY <1>3 DEF IsolateFailed, Isolate
  <2> QED
    BY <2>1 DEF GivenUp, Near, OfKind, Offsets
<1>4. ASSUME NEW f \in Flushes, SendNotifications(f) PROVE GivenUp'
  <2> DEFINE given == flush[f].batch \ NotParsed
  <2>1. /\ UNCHANGED <<scenario, log, lost, dlq>> /\ topic = "notes"
        /\ \/ dropped' \subseteq dropped
           \/ dropped' \subseteq dropped \cup given /\ given \cap OfKind("rejected") # {}
    BY <1>4 DEF SendNotifications, Batch
  <2>2. ASSUME NEW o \in given, given \cap OfKind("rejected") # {} PROVE Near(o)
    <3>1. PICK p \in given : p \in OfKind("rejected")
      BY <2>2
    <3> QED
      BY <3>1 DEF Near, Together
  <2> QED
    BY <2>1, <2>2 DEF GivenUp, Near, OfKind, Offsets
<1>5. ASSUME NEW f \in Flushes, Rethrow(f) PROVE FALSE
  BY <1>5 DEF Rethrow
<1>6. ASSUME Crash PROVE FALSE
  BY <1>6 DEF Crash
<1> QED
  BY <1>1, <1>2, <1>3, <1>4, <1>5, <1>6
  DEF Next, Publish, Consume, Fetch, Buffer, BufferAndFlush, AutoCommit, FlushStep,
      TimerFires, SyncUserSnapshots, CommitOne, EndFlush, sinks, vars

(* As long as nothing fails, a message is given up only by the handler of  *)
(* notifications, for itself or for a refused one less than a batch away;  *)
(* a valid user snapshot is never isolated, and nothing is lost.           *)
THEOREM OnlyNeighboursDropped == Spec => []DroppedWithNeighbour
<1> DEFINE Calm == ~faulty => Together /\ GivenUp
<1>1. Init => Calm
  <2> SUFFICES ASSUME Init PROVE Together /\ GivenUp
    OBVIOUS
  <2>1. \A f \in Flushes : flush[f] = NoFlush
    BY DEF Init
  <2>2. \E lo \in 1 .. 1 : {} = lo .. 1 - 1 /\ 1 - lo < BatchSize
    BY BoundsAssumption
  <2> QED
    BY <2>1, <2>2 DEF Init, Together, GivenUp, NoFlush, Waiting
<1>2. IInv /\ Calm /\ [Next]_vars => Calm'
  <2>1. ASSUME [Next]_vars PROVE UNCHANGED scenario
    BY <2>1
    DEF Next, Publish, Consume, Fetch, Buffer, BufferAndFlush, AutoCommit, FlushStep,
        TimerFires, Parse, SyncUserSnapshots, IsolateFailed, SendNotifications, CommitOne,
        EndFlush, Rethrow, Crash, vars
  <2> QED
    BY <2>1, TogetherStep, GivenUpStep
<1>3. Calm => DroppedWithNeighbour
  BY DEF GivenUp, DroppedWithNeighbour
<1> HIDE DEF Calm
<1> QED
  BY <1>1, <1>2, <1>3, InitInv, StepInv, PTL DEF Spec
=============================================================================
