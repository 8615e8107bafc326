------------------------- MODULE TaskPipelineProofs -------------------------
(***************************************************************************)
(* That the row of a task ends up as the API has shown it unless its last  *)
(* batch left it in doubt, for every set of tasks, every size of the       *)
(* batches and every number of edits, moves and crashes.  What redelivery  *)
(* undoes it does again.                                                   *)
(***************************************************************************)
EXTENDS TaskPipeline, SequenceTheorems, TLAPS

(* A creation that the loop has still to apply, the first time or again.   *)
CreationAhead(k) ==
  \E i \in Records("task-created") :
    i >= next["task-created"] /\ topic["task-created"][i].task = k

(* A row that is there was published; one that is not is still on its way. *)
RowFromCreation ==
  \A k \in Tasks :
    /\ row[k].status # "none" => Published(k)
    /\ row[k].status = "none" => row[k].content = 0
    /\ row[k].status = "none" /\ Published(k) => CreationAhead(k)

(* A loop with nothing left about task k, and no doubt about it, has left  *)
(* the row as the last record says; a missing row is in doubt as soon as a *)
(* record about it is consumed.  During a redelivery the older values come *)
(* back, but then the last one is ahead again.                             *)
ContentApplied ==
  \A k \in Tasks :
    LET t == "task-updated"
    IN k \notin doubtful[t] /\ NoneFrom(t, next[t], k)
         => IF row[k].status = "none" THEN NoneFrom(t, 1, k) ELSE ShowsContent(k)

StatusApplied ==
  \A k \in Tasks :
    LET t == "task-status-updated"
    IN k \notin doubtful[t] /\ NoneFrom(t, next[t], k)
         => IF row[k].status = "none" THEN NoneFrom(t, 1, k) ELSE ShowsStatus(k)

IInv == TypeOK /\ RowFromCreation
DecidedInv == IInv /\ ContentApplied /\ StatusApplied

-----------------------------------------------------------------------------
(* Facts about topics and rows. *)

LEMMA TopicTypes ==
  ASSUME TypeOK, NEW t \in Topics
  PROVE  /\ Len(topic[t]) \in Nat
         /\ next[t] \in Nat \ {0} /\ committed[t] \in Nat \ {0}
         /\ committed[t] <= next[t] /\ next[t] <= Len(topic[t]) + 1
BY DEF TypeOK, Topics, UpdateTopics

(* What is appended is the last record; the others keep their place.       *)
LEMMA SendAppends ==
  ASSUME TypeOK, NEW t \in Topics, NEW m, Send(t, m)
  PROVE  /\ DOMAIN topic' = Topics
         /\ Len(topic'[t]) = Len(topic[t]) + 1
         /\ topic'[t][Len(topic[t]) + 1] = m
         /\ \A i \in Records(t) : topic'[t][i] = topic[t][i]
         /\ \A u \in Topics \ {t} : topic'[u] = topic[u]
<1>1. DOMAIN topic = Topics BY DEF TypeOK
<1>2. topic'[t] = Append(topic[t], m) /\ \A u \in Topics \ {t} : topic'[u] = topic[u]
  BY <1>1 DEF Send
<1>3. DOMAIN topic' = Topics BY <1>1 DEF Send
<1>4. \E S : topic[t] \in Seq(S) BY DEF TypeOK, Topics, UpdateTopics
<1>5. PICK S : topic[t] \in Seq(S) BY <1>4
<1>6. topic[t] \in Seq(S \cup {m})
  BY <1>5
<1> QED BY <1>2, <1>3, <1>6 DEF Records

(* A row is NoRow exactly if its status is "none". *)
LEMMA RowStates ==
  ASSUME IInv, NEW k \in Tasks
  PROVE  /\ row[k] = NoRow <=> row[k].status = "none"
         /\ row[k].status \in Statuses \cup {"none"} /\ row[k].content \in 0 .. MaxEdits
<1>1. row[k] \in Row BY DEF IInv, TypeOK
<1>2. row[k].status = "none" => row[k].content = 0 BY DEF IInv, RowFromCreation
<1> QED BY <1>1, <1>2 DEF Row, NoRow

-----------------------------------------------------------------------------
(* Type correctness. *)

LEMMA InitTypeOK == Init => TypeOK
<1> SUFFICES ASSUME Init PROVE TypeOK
  OBVIOUS
<1>1. \A t \in Topics : topic[t] = <<>> /\ Len(topic[t]) = 0 BY DEF Init
<1>2. row \in [Tasks -> Row]
  BY BoundsAssumption DEF Init, Row, NoRow
<1>3. doubtful \in [UpdateTopics -> SUBSET Tasks] BY DEF Init
<1> QED BY <1>1, <1>2, <1>3 DEF Init, TypeOK, Topics, UpdateTopics

LEMMA SendTypeOK ==
  ASSUME TypeOK, Api
  PROVE  TypeOK'
<1> USE BoundsAssumption
<1>1. \A t \in Topics : \A m :
        Send(t, m) => /\ next' = next /\ committed' = committed /\ row' = row /\ crashes' = crashes
                     /\ doubtful' = doubtful
  BY DEF Send
<1>2. ASSUME NEW t \in Topics, NEW m, Send(t, m) PROVE
        /\ DOMAIN topic' = Topics
        /\ topic'[t] = Append(topic[t], m) /\ \A u \in Topics \ {t} : topic'[u] = topic[u]
        /\ \A u \in Topics : Len(topic'[u]) \in Nat /\ Len(topic'[u]) >= Len(topic[u])
  <2>1. DOMAIN topic' = Topics
    /\ topic'[t] = Append(topic[t], m) /\ \A u \in Topics \ {t} : topic'[u] = topic[u]
    BY <1>2 DEF Send, TypeOK
  <2>2. Len(topic'[t]) = Len(topic[t]) + 1 BY <1>2, SendAppends
  <2> QED BY <2>1, <2>2, TopicTypes
<1>3. ASSUME NEW t \in Topics, NEW m, Send(t, m),
             /\ topic'["task-created"] \in Seq([task : Tasks])
             /\ topic'["task-updated"] \in Seq([task : Tasks, content : 1 .. MaxEdits])
             /\ topic'["task-status-updated"] \in Seq([task : Tasks, status : Statuses])
      PROVE TypeOK'
  <2>1. /\ next' = next /\ committed' = committed /\ row' = row /\ crashes' = crashes
        /\ doubtful' = doubtful
    BY <1>1, <1>3
  <2>2. DOMAIN topic' = Topics
    BY <1>2, <1>3
  <2>3. \A u \in Topics : committed'[u] <= next'[u] /\ next'[u] <= Len(topic'[u]) + 1
    <3> TAKE u \in Topics
    <3>1. Len(topic'[u]) \in Nat /\ Len(topic'[u]) >= Len(topic[u]) BY <1>2, <1>3
    <3>2. Len(topic[u]) \in Nat /\ next[u] \in Nat /\ committed[u] <= next[u]
            /\ next[u] <= Len(topic[u]) + 1
      BY TopicTypes
    <3> QED BY <2>1, <3>1, <3>2
  <2> QED BY <1>3, <2>1, <2>2, <2>3 DEF TypeOK
<1>4. CASE \E k \in Tasks : sendTaskCreated(k)
  <2>1. PICK k \in Tasks : Send("task-created", [task |-> k]) BY <1>4 DEF sendTaskCreated
  <2>2. [task |-> k] \in [task : Tasks] OBVIOUS
  <2>3. /\ topic'["task-created"] = Append(topic["task-created"], [task |-> k])
        /\ topic'["task-updated"] = topic["task-updated"]
        /\ topic'["task-status-updated"] = topic["task-status-updated"]
    BY <1>2, <2>1 DEF Topics, UpdateTopics
  <2>4. topic'["task-created"] \in Seq([task : Tasks]) BY <2>2, <2>3 DEF TypeOK
  <2> QED BY <1>3, <2>1, <2>3, <2>4 DEF TypeOK, Topics, UpdateTopics
<1>5. CASE \E k \in Tasks : sendTaskUpdated(k)
  <2>1. PICK k \in Tasks : /\ Len(topic["task-updated"]) < MaxEdits
          /\ Send("task-updated", [task |-> k, content |-> Len(topic["task-updated"]) + 1])
    BY <1>5 DEF sendTaskUpdated
  <2>2. Len(topic["task-updated"]) + 1 \in 1 .. MaxEdits BY <2>1, TopicTypes DEF Topics, UpdateTopics
  <2>3. [task |-> k, content |-> Len(topic["task-updated"]) + 1]
          \in [task : Tasks, content : 1 .. MaxEdits]
    BY <2>2
  <2>4. /\ topic'["task-updated"] = Append(topic["task-updated"],
             [task |-> k, content |-> Len(topic["task-updated"]) + 1])
        /\ topic'["task-created"] = topic["task-created"]
        /\ topic'["task-status-updated"] = topic["task-status-updated"]
    BY <1>2, <2>1 DEF Topics, UpdateTopics
  <2>5. topic'["task-updated"] \in Seq([task : Tasks, content : 1 .. MaxEdits])
    BY <2>3, <2>4 DEF TypeOK
  <2> QED BY <1>3, <2>1, <2>4, <2>5 DEF TypeOK, Topics, UpdateTopics
<1>6. CASE \E k \in Tasks, st \in Statuses : sendTaskStatusUpdated(k, st)
  <2>1. PICK k \in Tasks, st \in Statuses :
          Send("task-status-updated", [task |-> k, status |-> st])
    BY <1>6 DEF sendTaskStatusUpdated
  <2>2. [task |-> k, status |-> st] \in [task : Tasks, status : Statuses] OBVIOUS
  <2>3. /\ topic'["task-status-updated"] =
             Append(topic["task-status-updated"], [task |-> k, status |-> st])
        /\ topic'["task-created"] = topic["task-created"]
        /\ topic'["task-updated"] = topic["task-updated"]
    BY <1>2, <2>1 DEF Topics, UpdateTopics
  <2>4. topic'["task-status-updated"] \in Seq([task : Tasks, status : Statuses])
    BY <2>2, <2>3 DEF TypeOK
  <2> QED BY <1>3, <2>1, <2>3, <2>4 DEF TypeOK, Topics, UpdateTopics
<1> QED BY <1>4, <1>5, <1>6 DEF Api

(* A batch ends at a record of the topic, and rows stay rows.              *)
LEMMA BatchTypes ==
  ASSUME TypeOK, NEW t \in Topics, NEW last, Ready(t, last), Consumed(t, last)
  PROVE  /\ last \in Records(t) /\ last >= next[t]
         /\ next'[t] = last + 1 /\ \A u \in Topics \ {t} : next'[u] = next[u]
         /\ topic' = topic /\ committed' = committed /\ crashes' = crashes
         /\ next' \in [Topics -> Nat \ {0}]
         /\ \A u \in Topics : committed'[u] <= next'[u] /\ next'[u] <= Len(topic'[u]) + 1
<1>1. BatchSize[t] \in Nat \ {0} BY BatchSizeAssumption
<1>2. last \in Records(t) /\ last >= next[t] /\ last \in Nat
  <2>1. next[t] \in Nat \ {0} /\ Len(topic[t]) \in Nat BY TopicTypes
  <2>2. last \in next[t] .. next[t] + BatchSize[t] - 1 /\ last <= Len(topic[t]) BY DEF Ready
  <2> QED BY <1>1, <2>1, <2>2 DEF Records
<1>3. last \in Nat BY <1>2
<1>4. next \in [Topics -> Nat \ {0}] BY DEF TypeOK
<1>5. /\ next'[t] = last + 1 /\ \A u \in Topics \ {t} : next'[u] = next[u]
      /\ next' \in [Topics -> Nat \ {0}]
  BY <1>3, <1>4 DEF Consumed
<1>6. topic' = topic /\ committed' = committed /\ crashes' = crashes BY DEF Consumed
<1>7. \A u \in Topics : committed'[u] <= next'[u] /\ next'[u] <= Len(topic'[u]) + 1
  <2> TAKE u \in Topics
  <2>1. CASE u = t
    <3>1. Len(topic[t]) \in Nat /\ next[t] \in Nat /\ committed[t] \in Nat
            /\ committed[t] <= next[t]
      BY TopicTypes
    <3>2. last <= Len(topic[t]) /\ next[t] <= last BY <1>2, <3>1 DEF Records
    <3>3. next'[u] = last + 1 /\ committed'[u] = committed[t] /\ topic'[u] = topic[t]
      BY <1>5, <1>6, <2>1
    <3> QED BY <1>3, <3>1, <3>2, <3>3
  <2>2. CASE u # t
    <3>1. next'[u] = next[u] /\ committed'[u] = committed[u] /\ topic'[u] = topic[u]
      BY <1>5, <1>6, <2>2
    <3> QED BY <3>1, TopicTypes
  <2> QED BY <2>1, <2>2
<1> QED BY <1>2, <1>5, <1>6, <1>7

LEMMA BatchRecords ==
  ASSUME TypeOK, NEW t \in Topics, NEW last, Ready(t, last), NEW k
  PROVE  \A m : m \in InBatch(t, last, k) <=>
           \E i \in Records(t) : next[t] <= i /\ i <= last /\ m = topic[t][i] /\ topic[t][i].task = k
<1>1. last <= Len(topic[t]) /\ last \in Int
  BY TopicTypes, BatchSizeAssumption DEF Ready
<1>2. \A i : i \in next[t] .. last <=> i \in Records(t) /\ next[t] <= i /\ i <= last
  <2>1. next[t] \in Nat \ {0} /\ Len(topic[t]) \in Nat BY TopicTypes
  <2> QED BY <1>1, <2>1 DEF Records
<1> QED BY <1>2 DEF InBatch

LEMMA CreateTypes ==
  ASSUME TypeOK, NEW last, BulkCreate(last)
  PROVE  row' \in [Tasks -> Row]
<1>1. [status |-> Initial, content |-> 0] \in Row
  BY BoundsAssumption, StatusAssumption DEF Row
<1> QED BY <1>1 DEF TypeOK, BulkCreate

(* A batch of edits: what a row says is what it said or what one of the    *)
(* records says.                                                           *)
LEMMA UpdateRows ==
  ASSUME TypeOK, NEW last, BulkUpdate(last)
  PROVE  /\ row' \in [Tasks -> Row]
         /\ \A k \in Tasks :
              /\ row'[k].status = row[k].status
              /\ row[k] = NoRow \/ InBatch("task-updated", last, k) = {}
                   => row'[k].content = row[k].content
              /\ ~(row[k] = NoRow \/ InBatch("task-updated", last, k) = {})
                   => \E m \in InBatch("task-updated", last, k) : row'[k].content = m.content
<1>1. PICK pick \in [Tasks -> 0 .. MaxEdits] :
        /\ \A k \in Tasks :
             LET ms == InBatch("task-updated", last, k)
             IN IF row[k] = NoRow \/ ms = {} THEN pick[k] = row[k].content
                ELSE pick[k] \in {m.content : m \in ms}
        /\ row' = [k \in Tasks |-> [status |-> row[k].status, content |-> pick[k]]]
  BY DEF BulkUpdate
<1>2. \A k \in Tasks : row[k].status \in Statuses \cup {"none"} BY DEF TypeOK, Row
<1>3. \A k \in Tasks : row'[k] = [status |-> row[k].status, content |-> pick[k]]
  BY <1>1
<1>4. \A k \in Tasks : row'[k].status = row[k].status /\ row'[k].content = pick[k]
  <2> TAKE k \in Tasks
  <2>1. row'[k] = [status |-> row[k].status, content |-> pick[k]] BY <1>3
  <2> QED BY <2>1
<1>5. \A k \in Tasks : row'[k] \in Row
  <2> TAKE k \in Tasks
  <2>1. row'[k] = [status |-> row[k].status, content |-> pick[k]] BY <1>3
  <2>2. pick[k] \in 0 .. MaxEdits /\ row[k].status \in Statuses \cup {"none"} BY <1>2
  <2> QED BY <2>1, <2>2 DEF Row
<1>6. row' \in [Tasks -> Row] BY <1>1, <1>3, <1>5
<1> QED BY <1>1, <1>4, <1>6

LEMMA UpdateStatusRows ==
  ASSUME TypeOK, NEW last, BulkUpdateStatus(last)
  PROVE  /\ row' \in [Tasks -> Row]
         /\ \A k \in Tasks :
              /\ row'[k].content = row[k].content
              /\ row[k] = NoRow \/ InBatch("task-status-updated", last, k) = {}
                   => row'[k].status = row[k].status
              /\ ~(row[k] = NoRow \/ InBatch("task-status-updated", last, k) = {})
                   => \E m \in InBatch("task-status-updated", last, k) : row'[k].status = m.status
<1>1. PICK pick \in [Tasks -> Statuses \cup {"none"}] :
        /\ \A k \in Tasks :
             LET ms == InBatch("task-status-updated", last, k)
             IN IF row[k] = NoRow \/ ms = {} THEN pick[k] = row[k].status
                ELSE pick[k] \in {m.status : m \in ms}
        /\ row' = [k \in Tasks |-> [status |-> pick[k], content |-> row[k].content]]
  BY DEF BulkUpdateStatus
<1>2. \A k \in Tasks : row[k].content \in 0 .. MaxEdits BY DEF TypeOK, Row
<1>3. \A k \in Tasks : row'[k] = [status |-> pick[k], content |-> row[k].content]
  BY <1>1
<1>4. \A k \in Tasks : row'[k].content = row[k].content /\ row'[k].status = pick[k]
  <2> TAKE k \in Tasks
  <2>1. row'[k] = [status |-> pick[k], content |-> row[k].content] BY <1>3
  <2> QED BY <2>1
<1>5. \A k \in Tasks : row'[k] \in Row
  <2> TAKE k \in Tasks
  <2>1. row'[k] = [status |-> pick[k], content |-> row[k].content] BY <1>3
  <2>2. pick[k] \in Statuses \cup {"none"} /\ row[k].content \in 0 .. MaxEdits BY <1>2
  <2> QED BY <2>1, <2>2 DEF Row
<1>6. row' \in [Tasks -> Row] BY <1>1, <1>3, <1>5
<1> QED BY <1>1, <1>4, <1>6

(* The tasks a batch leaves in doubt. *)
LEMMA MarkedTasks ==
  ASSUME TypeOK, NEW t \in UpdateTopics, NEW last, Marks(t, last)
  PROVE  /\ doubtful' \in [UpdateTopics -> SUBSET Tasks]
         /\ \A u \in UpdateTopics \ {t} : doubtful'[u] = doubtful[u]
         /\ \A k \in Tasks :
              k \in doubtful'[t] <=> IF InBatch(t, last, k) = {} THEN k \in doubtful[t]
                                    ELSE ~Decided(t, last, k)
<1> DEFINE D == {k \in Tasks : IF InBatch(t, last, k) = {} THEN k \in doubtful[t]
                               ELSE ~Decided(t, last, k)}
<1>1. doubtful \in [UpdateTopics -> SUBSET Tasks] BY DEF TypeOK
<1>2. doubtful' = [doubtful EXCEPT ![t] = D] BY DEF Marks
<1>3. D \subseteq Tasks OBVIOUS
<1>4. \A k \in Tasks : k \in D <=> IF InBatch(t, last, k) = {} THEN k \in doubtful[t]
                                   ELSE ~Decided(t, last, k)
  OBVIOUS
<1> HIDE DEF D
<1>5. doubtful'[t] = D /\ \A u \in UpdateTopics \ {t} : doubtful'[u] = doubtful[u]
  BY <1>1, <1>2
<1>6. doubtful' \in [UpdateTopics -> SUBSET Tasks] BY <1>1, <1>2, <1>3
<1> QED BY <1>4, <1>5, <1>6

LEMMA NextTypeOK == TypeOK /\ [Next]_vars => TypeOK'
<1> SUFFICES ASSUME TypeOK, [Next]_vars PROVE TypeOK'
  OBVIOUS
<1>0. "task-created" \in Topics /\ "task-updated" \in Topics /\ "task-status-updated" \in Topics
  BY DEF Topics, UpdateTopics
<1>1. CASE UNCHANGED vars BY <1>1 DEF vars, TypeOK
<1>2. CASE Api BY <1>2, SendTypeOK
<1>3. ASSUME NEW last, TaskCreatedHandler(last) PROVE TypeOK'
  BY <1>0, <1>3, BatchTypes, CreateTypes DEF TypeOK, TaskCreatedHandler
<1>4. ASSUME NEW last, TaskUpdatedHandler(last) PROVE TypeOK'
  BY <1>0, <1>4, BatchTypes, UpdateRows, MarkedTasks DEF TypeOK, TaskUpdatedHandler, UpdateTopics
<1>5. ASSUME NEW last, TaskStatusUpdatedHandler(last) PROVE TypeOK'
  BY <1>0, <1>5, BatchTypes, UpdateStatusRows, MarkedTasks
     DEF TypeOK, TaskStatusUpdatedHandler, UpdateTopics
<1>6. ASSUME NEW t \in Topics, CommitTick(t) PROVE TypeOK'
  <2>1. /\ committed' = [committed EXCEPT ![t] = next[t]]
        /\ UNCHANGED <<topic, next, row, doubtful, crashes>>
    BY <1>6 DEF CommitTick
  <2>2. committed' \in [Topics -> Nat \ {0}]
    BY <2>1 DEF TypeOK
  <2>3. \A u \in Topics : committed'[u] <= next'[u]
    BY <2>1 DEF TypeOK
  <2> QED BY <2>1, <2>2, <2>3 DEF TypeOK
<1>7. CASE Crash
  BY <1>7, TopicTypes DEF Crash, TypeOK
<1> QED BY <1>1, <1>2, <1>3, <1>4, <1>5, <1>6, <1>7 DEF Next, Worker

(* Records, positions and rows are what they should be, for any sizes of   *)
(* batches: a loop never passes the end of its topic, nor a commit a loop. *)
THEOREM TypeCorrect == Spec => []TypeOK
BY InitTypeOK, NextTypeOK, PTL DEF Spec

-----------------------------------------------------------------------------
(* The creations.  IInv needs no assumption: with the updates in whatever  *)
(* order and number, a published task has its row or has it coming.        *)

LEMMA InitIInv == Init => IInv
<1> SUFFICES ASSUME Init PROVE IInv
  OBVIOUS
<1>1. \A k \in Tasks : row[k].status = "none" /\ row[k].content = 0
  BY DEF Init, NoRow
<1>2. \A k \in Tasks : ~Published(k)
  BY DEF Init, Published, Topics, UpdateTopics
<1> QED BY <1>1, <1>2, InitTypeOK DEF IInv, RowFromCreation

LEMMA CreationRecord ==
  ASSUME NEW log \in Seq([task : Tasks]), NEW k
  PROVE  (\E i \in DOMAIN log : log[i] = [task |-> k])
           <=> \E i \in 1 .. Len(log) : log[i].task = k
<1>1. DOMAIN log = 1 .. Len(log) OBVIOUS
<1>2. \A i \in 1 .. Len(log) : log[i] \in [task : Tasks] BY ElementOfSeq
<1>3. \A i \in 1 .. Len(log) : log[i] = [task |-> k] <=> log[i].task = k
  <2> TAKE i \in 1 .. Len(log)
  <2>1. log[i] = [task |-> log[i].task] BY <1>2
  <2> QED BY <2>1
<1> QED BY <1>1, <1>3

LEMMA PublishedRecord ==
  ASSUME TypeOK, NEW k
  PROVE  Published(k) <=> \E i \in Records("task-created") : topic["task-created"][i].task = k
<1>1. topic["task-created"] \in Seq([task : Tasks]) BY DEF TypeOK
<1> QED BY <1>1, CreationRecord DEF Published, Records

LEMMA PublishedRecordNext ==
  ASSUME TypeOK', NEW k
  PROVE  Published(k)' <=>
           \E i \in Records("task-created")' : topic'["task-created"][i].task = k
<1>1. topic'["task-created"] \in Seq([task : Tasks]) BY DEF TypeOK
<1> QED BY <1>1, CreationRecord DEF Published, Records

LEMMA SendKeepsCreations ==
  ASSUME IInv, Api
  PROVE  RowFromCreation'
<1>0. PICK t \in Topics : \E m : Send(t, m)
  BY DEF Api, sendTaskCreated, sendTaskUpdated, sendTaskStatusUpdated, Topics, UpdateTopics
<1>1. PICK m : Send(t, m)
  BY <1>0
<1>2. TypeOK /\ TypeOK' BY SendTypeOK DEF IInv
<1> DEFINE C == "task-created"
<1>3. C \in Topics BY DEF Topics, UpdateTopics
<1>4. row' = row /\ next' = next BY <1>1 DEF Send
<1>5. /\ Len(topic[C]) \in Nat /\ next[C] <= Len(topic[C]) + 1 /\ next[C] \in Nat
  BY <1>2, <1>3, TopicTypes
<1>6. \A i \in Records(C) : i \in Records(C)' /\ topic'[C][i] = topic[C][i]
  BY <1>1, <1>2, <1>3, <1>5, SendAppends DEF Records
<1>7. \A i \in Records(C)' : i \in Records(C) \/ i = Len(topic[C]) + 1
  BY <1>1, <1>2, <1>3, <1>5, SendAppends DEF Records
<1> SUFFICES ASSUME NEW k \in Tasks
             PROVE  /\ row[k].status # "none" => Published(k)'
                    /\ row[k].status = "none" => row[k].content = 0
                    /\ row[k].status = "none" /\ Published(k)' => CreationAhead(k)'
  BY <1>4 DEF RowFromCreation
<1>8. /\ row[k].status # "none" => Published(k)
      /\ row[k].status = "none" => row[k].content = 0
      /\ row[k].status = "none" /\ Published(k) => CreationAhead(k)
  BY DEF IInv, RowFromCreation
<1>9. Published(k)' <=> \E i \in Records(C)' : topic'[C][i].task = k
  BY <1>2, PublishedRecordNext
<1>10. Published(k) => Published(k)'
  BY <1>2, <1>6, <1>9, PublishedRecord
<1>11. Published(k)' => Published(k) \/ CreationAhead(k)'
  <2> SUFFICES ASSUME Published(k)', ~Published(k) PROVE CreationAhead(k)'
    OBVIOUS
  <2>1. PICK i \in Records(C)' : topic'[C][i].task = k BY <1>9
  <2>2. i \notin Records(C) BY <1>2, <1>6, <2>1, PublishedRecord
  <2>3. i >= next'[C] BY <1>4, <1>5, <1>7, <2>2
  <2> QED BY <2>1, <2>3 DEF CreationAhead
<1>12. CreationAhead(k) => CreationAhead(k)'
  BY <1>4, <1>6 DEF CreationAhead
<1> QED BY <1>8, <1>10, <1>11, <1>12

LEMMA CreateKeepsCreations ==
  ASSUME IInv, NEW last, TaskCreatedHandler(last)
  PROVE  /\ RowFromCreation'
         /\ \A k \in Tasks : row[k].status # "none" => row'[k] = row[k]
         /\ \A k \in Tasks : row'[k] # row[k] => row'[k] = [status |-> Initial, content |-> 0]
<1> DEFINE C == "task-created"
<1>1. TypeOK /\ C \in Topics BY DEF IInv, Topics, UpdateTopics
<1>2. Ready(C, last) /\ BulkCreate(last) /\ Consumed(C, last) BY DEF TaskCreatedHandler
<1>3. /\ last \in Records(C) /\ next'[C] = last + 1 /\ topic' = topic
  BY <1>1, <1>2, BatchTypes
<1>4. \A k \in Tasks : row'[k] = IF InBatch(C, last, k) = {} \/ row[k] # NoRow THEN row[k]
                                 ELSE [status |-> Initial, content |-> 0]
  BY <1>2 DEF BulkCreate
<1>5. \A k \in Tasks : row[k] = NoRow <=> row[k].status = "none"
  BY RowStates
<1>6. Initial # "none" BY StatusAssumption
<1>7. RowFromCreation'
  <2> SUFFICES ASSUME NEW k \in Tasks
               PROVE  /\ row'[k].status # "none" => Published(k)'
                      /\ row'[k].status = "none" => row'[k].content = 0
                      /\ row'[k].status = "none" /\ Published(k)' => CreationAhead(k)'
    BY DEF RowFromCreation
  <2>1. /\ row[k].status # "none" => Published(k)
        /\ row[k].status = "none" => row[k].content = 0
        /\ row[k].status = "none" /\ Published(k) => CreationAhead(k)
    BY DEF IInv, RowFromCreation
  <2>2. Published(k)' = Published(k) BY <1>3 DEF Published
  <2>3. CASE InBatch(C, last, k) = {} \/ row[k] # NoRow
    <3>1. row'[k] = row[k] BY <1>4, <2>3
    <3>2. CASE row[k] # NoRow BY <1>5, <2>1, <2>2, <3>1, <3>2
    <3>3. CASE row[k] = NoRow
      <4>1. InBatch(C, last, k) = {} BY <2>3, <3>3
      <4>2. CreationAhead(k) => CreationAhead(k)'
        <5> SUFFICES ASSUME NEW i \in Records(C), i >= next[C], topic[C][i].task = k
                     PROVE  i >= next'[C]
          BY <1>3 DEF CreationAhead, Records
        <5>1. ~(i <= last) BY <1>1, <1>2, <4>1, BatchRecords
        <5>2. Len(topic[C]) \in Nat BY <1>1, TopicTypes
        <5> QED BY <1>3, <5>1, <5>2 DEF Records
      <4> QED BY <2>1, <2>2, <3>1, <4>2
    <3> QED BY <3>2, <3>3
  <2>4. CASE InBatch(C, last, k) # {} /\ row[k] = NoRow
    <3>1. row'[k] = [status |-> Initial, content |-> 0] BY <1>4, <2>4
    <3>2. \E i \in Records(C) : topic[C][i].task = k
      BY <1>1, <1>2, <2>4, BatchRecords
    <3>3. Published(k) BY <1>1, <3>2, PublishedRecord
    <3> QED BY <1>6, <2>2, <3>1, <3>3
  <2> QED BY <2>3, <2>4
<1> QED BY <1>4, <1>5, <1>7

(* An update changes rows that are there, and those stay there.            *)
LEMMA UpdatesKeepCreations ==
  ASSUME IInv, NEW last, TaskUpdatedHandler(last) \/ TaskStatusUpdatedHandler(last)
  PROVE  /\ RowFromCreation'
         /\ \A k \in Tasks : row'[k].status = "none" <=> row[k].status = "none"
<1>1. TypeOK /\ "task-updated" \in Topics /\ "task-status-updated" \in Topics
  BY DEF IInv, Topics, UpdateTopics
<1>2. topic' = topic /\ next'["task-created"] = next["task-created"]
  <2>1. CASE TaskUpdatedHandler(last)
    BY <1>1, <2>1, BatchTypes DEF TaskUpdatedHandler, Topics, UpdateTopics
  <2>2. CASE TaskStatusUpdatedHandler(last)
    BY <1>1, <2>2, BatchTypes DEF TaskStatusUpdatedHandler, Topics, UpdateTopics
  <2> QED BY <2>1, <2>2
<1>3. \A k \in Tasks : /\ row[k] = NoRow <=> row[k].status = "none"
                       /\ row[k].status \in Statuses \cup {"none"}
  BY RowStates
<1>4. \A k \in Tasks : /\ row'[k].status = "none" <=> row[k].status = "none"
                       /\ row[k].status = "none" => row'[k].content = row[k].content
  <2> TAKE k \in Tasks
  <2>1. CASE TaskUpdatedHandler(last)
    BY <1>1, <1>3, <2>1, UpdateRows DEF TaskUpdatedHandler
  <2>2. CASE TaskStatusUpdatedHandler(last)
    <3> DEFINE ms == InBatch("task-status-updated", last, k)
    <3>1. /\ row'[k].content = row[k].content
          /\ row[k] = NoRow \/ ms = {} => row'[k].status = row[k].status
          /\ ~(row[k] = NoRow \/ ms = {}) => \E m \in ms : row'[k].status = m.status
      BY <1>1, <2>2, UpdateStatusRows DEF TaskStatusUpdatedHandler
    <3>2. \A m \in ms : m.status \in Statuses
      <4>1. \A i \in Records("task-status-updated") :
              topic["task-status-updated"][i] \in [task : Tasks, status : Statuses]
        <5>1. topic["task-status-updated"] \in Seq([task : Tasks, status : Statuses])
          BY <1>1 DEF TypeOK
        <5> QED BY <5>1, ElementOfSeq DEF Records
      <4>2. \A m \in ms : \E i \in Records("task-status-updated") :
              m = topic["task-status-updated"][i]
        BY <1>1, <2>2, BatchRecords DEF TaskStatusUpdatedHandler
      <4> QED BY <4>1, <4>2
    <3>3. \A m \in ms : m.status # "none" BY <3>2, StatusAssumption
    <3> QED BY <1>3, <3>1, <3>3
  <2> QED BY <2>1, <2>2
<1>5. \A k : Published(k)' = Published(k) /\ CreationAhead(k)' = CreationAhead(k)
  BY <1>2 DEF Published, CreationAhead, Records
<1> QED BY <1>4, <1>5 DEF IInv, RowFromCreation

LEMMA NextIInv == IInv /\ [Next]_vars => IInv'
<1> SUFFICES ASSUME IInv, [Next]_vars PROVE IInv'
  OBVIOUS
<1>1. TypeOK /\ TypeOK' BY NextTypeOK DEF IInv
<1> SUFFICES RowFromCreation' BY <1>1 DEF IInv
<1>2. CASE UNCHANGED <<topic, row>> /\ \A t \in Topics : next'[t] <= next[t]
  <2> DEFINE C == "task-created"
  <2>1. next'[C] <= next[C] BY <1>2 DEF Topics, UpdateTopics
  <2>2. next'[C] \in Nat /\ next[C] \in Nat BY <1>1 DEF TypeOK, Topics, UpdateTopics
  <2>3. \A k : Published(k)' = Published(k) /\ (CreationAhead(k) => CreationAhead(k)')
    BY <1>2, <2>1, <2>2 DEF Published, CreationAhead, Records
  <2> QED BY <1>2, <2>3 DEF IInv, RowFromCreation
<1>3. CASE UNCHANGED <<topic, row, next>>
  BY <1>1, <1>2, <1>3 DEF TypeOK
<1>4. CASE Crash BY <1>1, <1>2, <1>4 DEF Crash, TypeOK
<1> QED BY <1>3, <1>4, SendKeepsCreations, CreateKeepsCreations, UpdatesKeepCreations
        DEF Next, Worker, CommitTick, vars

(* Once the creations are consumed there are as many rows as tasks, with   *)
(* batches of any size, crashes and updates that come too early.           *)
Inserted == Drained("task-created") => \A k \in Tasks : row[k] # NoRow <=> Published(k)

LEMMA InvInserted == IInv => Inserted
<1> SUFFICES ASSUME IInv, Drained("task-created"), NEW k \in Tasks
             PROVE  row[k] # NoRow <=> Published(k)
  BY DEF Inserted
<1>1. TypeOK /\ "task-created" \in Topics BY DEF IInv, Topics, UpdateTopics
<1>2. ~CreationAhead(k)
  <2>1. next["task-created"] \in Nat /\ Len(topic["task-created"]) \in Nat
    BY <1>1, TopicTypes
  <2> QED BY <2>1 DEF Drained, CreationAhead, Records
<1> QED BY <1>2, RowStates DEF IInv, RowFromCreation

(* Every creation the API has published has inserted its row when its      *)
(* topic is consumed, and nothing else has.                                *)
THEOREM EveryTaskInserted == Spec => []Inserted
BY InitIInv, NextIInv, InvInserted, PTL DEF Spec

-----------------------------------------------------------------------------
(* The updates. *)

(* Where the end of the topic is about another task, nothing about k has   *)
(* changed.                                                                *)
LEMMA SendElsewhere ==
  ASSUME TypeOK, NEW t \in Topics, NEW m, Send(t, m), NEW u \in Topics, NEW k,
         NEW n \in Nat, n <= Len(topic[u]) + 1, NoneFrom(u, n, k)'
  PROVE  /\ NoneFrom(u, n, k) /\ (NoneFrom(u, 1, k) => NoneFrom(u, 1, k)')
         /\ NoneFrom(u, 1, k)' => NoneFrom(u, 1, k)
         /\ \A i \in Records(u)' :
              Latest(u, i, k)' =>
                i \in Records(u) /\ Latest(u, i, k) /\ topic'[u][i] = topic[u][i]
<1>1. Len(topic[u]) \in Nat BY TopicTypes
<1>2. CASE u # t
  <2>1. topic'[u] = topic[u] BY <1>2, SendAppends
  <2> QED BY <1>2, <2>1 DEF NoneFrom, Latest, Records
<1>3. CASE u = t
  <2>1. /\ Len(topic'[u]) = Len(topic[u]) + 1 /\ topic'[u][Len(topic[u]) + 1] = m
        /\ \A i \in Records(u) : topic'[u][i] = topic[u][i]
    BY <1>3, SendAppends
  <2>2. \A i : i \in Records(u)' <=> i \in Records(u) \/ i = Len(topic[u]) + 1
    BY <1>1, <2>1 DEF Records
  <2>3. \A i \in Records(u) : i \in Int BY <1>1 DEF Records
  <2>4. \A l : NoneFrom(u, l, k)' => NoneFrom(u, l, k)
    BY <2>1, <2>2 DEF NoneFrom
  <2>5. m.task # k
    <3>1. Len(topic[u]) + 1 \in Records(u)' BY <2>2
    <3>2. topic'[u][Len(topic[u]) + 1].task # k BY <3>1 DEF NoneFrom
    <3> QED BY <2>1, <3>2
  <2>6. ASSUME NEW i \in Records(u)', Latest(u, i, k)'
        PROVE  i \in Records(u) /\ Latest(u, i, k) /\ topic'[u][i] = topic[u][i]
    <3>1. topic'[u][i].task = k /\ NoneFrom(u, i + 1, k)' BY <2>6 DEF Latest
    <3>2. i \in Records(u)
      <4>1. i # Len(topic[u]) + 1 BY <2>1, <2>5, <3>1
      <4> QED BY <2>2, <2>6, <4>1
    <3> QED BY <2>1, <2>4, <3>1, <3>2 DEF Latest
  <2>7. NoneFrom(u, 1, k) => NoneFrom(u, 1, k)' BY <2>1, <2>2, <2>5 DEF NoneFrom
  <2> QED BY <2>4, <2>6, <2>7
<1> QED BY <1>2, <1>3

LEMMA SendDecided ==
  ASSUME DecidedInv, Api
  PROVE  DecidedInv'
<1> DEFINE E == "task-updated"
           M == "task-status-updated"
<1>1. TypeOK /\ IInv /\ E \in Topics /\ M \in Topics
  BY DEF DecidedInv, IInv, Topics, UpdateTopics
<1>2. PICK t \in Topics : \E m : Send(t, m)
  BY DEF Api, sendTaskCreated, sendTaskUpdated, sendTaskStatusUpdated, Topics, UpdateTopics
<1>3. PICK m : Send(t, m) BY <1>2
<1>4. row' = row /\ next' = next /\ doubtful' = doubtful BY <1>3 DEF Send
<1>5. IInv' BY <1>1, SendKeepsCreations, SendTypeOK DEF IInv
<1>6. \A u \in {E, M} : next[u] \in Nat /\ next[u] <= Len(topic[u]) + 1
  BY <1>1, TopicTypes
<1>7. ASSUME NEW u \in {E, M}, NEW k \in Tasks, NoneFrom(u, next[u], k)'
      PROVE  /\ NoneFrom(u, next[u], k)
             /\ NoneFrom(u, 1, k)' <=> NoneFrom(u, 1, k)
             /\ \A i \in Records(u)' : Latest(u, i, k)' =>
                  i \in Records(u) /\ Latest(u, i, k) /\ topic'[u][i] = topic[u][i]
  <2>1. PICK n \in Nat : n = next[u] /\ n <= Len(topic[u]) + 1 BY <1>6
  <2>2. NoneFrom(u, n, k)' BY <1>4, <1>7, <2>1 DEF NoneFrom
  <2>3. u \in Topics BY <1>1
  <2> QED BY <1>1, <1>3, <2>1, <2>2, <2>3, SendElsewhere
<1>8. ContentApplied'
  <2> SUFFICES ASSUME NEW k \in Tasks, k \notin doubtful[E], NoneFrom(E, next[E], k)'
               PROVE  IF row[k].status = "none" THEN NoneFrom(E, 1, k)' ELSE ShowsContent(k)'
    BY <1>4 DEF ContentApplied
  <2>1. IF row[k].status = "none" THEN NoneFrom(E, 1, k) ELSE ShowsContent(k)
    BY <1>7 DEF DecidedInv, ContentApplied
  <2> QED BY <1>4, <1>7, <2>1 DEF ShowsContent
<1>9. StatusApplied'
  <2> SUFFICES ASSUME NEW k \in Tasks, k \notin doubtful[M], NoneFrom(M, next[M], k)'
               PROVE  IF row[k].status = "none" THEN NoneFrom(M, 1, k)' ELSE ShowsStatus(k)'
    BY <1>4 DEF StatusApplied
  <2>1. IF row[k].status = "none" THEN NoneFrom(M, 1, k) ELSE ShowsStatus(k)
    BY <1>7 DEF DecidedInv, StatusApplied
  <2> QED BY <1>4, <1>7, <2>1 DEF ShowsStatus
<1> QED BY <1>5, <1>8, <1>9 DEF DecidedInv

(* A creation whose task is not in doubt finds no update of it consumed.   *)
LEMMA CreateDecided ==
  ASSUME DecidedInv, NEW last, TaskCreatedHandler(last)
  PROVE  DecidedInv'
<1> DEFINE E == "task-updated"
           M == "task-status-updated"
<1>1. TypeOK /\ IInv /\ "task-created" \in Topics
  BY DEF DecidedInv, IInv, Topics, UpdateTopics
<1>2. /\ topic' = topic /\ next'[E] = next[E] /\ next'[M] = next[M] /\ doubtful' = doubtful
  BY <1>1, BatchTypes DEF TaskCreatedHandler, Topics, UpdateTopics
<1>3. /\ \A k \in Tasks : row[k].status # "none" => row'[k] = row[k]
      /\ \A k \in Tasks : row'[k] # row[k] => row'[k] = [status |-> Initial, content |-> 0]
  BY <1>1, CreateKeepsCreations
<1>4. IInv'
  <2>1. last \in Records("task-created") BY <1>1, BatchTypes DEF TaskCreatedHandler
  <2> QED BY <1>1, <2>1, NextIInv DEF Next, Worker
<1>5. \A u, i, k : /\ NoneFrom(u, i, k)' <=> \A j \in Records(u) : j >= i' => topic[u][j].task # k
                   /\ Records(u)' = Records(u)
  BY <1>2 DEF NoneFrom, Records
<1>6. \A k \in Tasks : /\ NoneFrom(E, next[E], k)' = NoneFrom(E, next[E], k)
                       /\ NoneFrom(M, next[M], k)' = NoneFrom(M, next[M], k)
                       /\ NoneFrom(E, 1, k)' = NoneFrom(E, 1, k)
                       /\ NoneFrom(M, 1, k)' = NoneFrom(M, 1, k)
  BY <1>2 DEF NoneFrom, Records
<1>7. \A u, i, k : Latest(u, i, k)' = Latest(u, i, k)
  BY <1>2 DEF NoneFrom, Latest, Records
<1>8. ASSUME NEW k \in Tasks, row'[k] = row[k]
      PROVE  /\ ShowsContent(k)' = ShowsContent(k)
             /\ ShowsStatus(k)' = ShowsStatus(k)
  BY <1>2, <1>5, <1>6, <1>7, <1>8 DEF ShowsContent, ShowsStatus
<1>9. ASSUME NEW k \in Tasks, row'[k] # row[k]
      PROVE  /\ row[k].status = "none"
             /\ row'[k].status # "none"
             /\ NoneFrom(E, 1, k) => ShowsContent(k)'
             /\ NoneFrom(M, 1, k) => ShowsStatus(k)'
  <2>1. row[k].status = "none" BY <1>3, <1>9
  <2>2. row'[k].status = Initial /\ row'[k].content = 0 BY <1>3, <1>9
  <2>3. NoneFrom(E, 1, k) => \A i : ~Latest(E, i, k)
    BY <1>1, TopicTypes DEF Latest, NoneFrom, Records, Topics, UpdateTopics
  <2>4. NoneFrom(M, 1, k) => \A i : ~Latest(M, i, k)
    BY <1>1, TopicTypes DEF Latest, NoneFrom, Records, Topics, UpdateTopics
  <2> QED BY <1>7, <2>1, <2>2, <2>3, <2>4, StatusAssumption DEF ShowsContent, ShowsStatus
<1>10. ContentApplied'
  <2> SUFFICES ASSUME NEW k \in Tasks, k \notin doubtful[E], NoneFrom(E, next[E], k)
               PROVE  IF row'[k].status = "none" THEN NoneFrom(E, 1, k) ELSE ShowsContent(k)'
    BY <1>2, <1>6 DEF ContentApplied
  <2>1. IF row[k].status = "none" THEN NoneFrom(E, 1, k) ELSE ShowsContent(k)
    BY DEF DecidedInv, ContentApplied
  <2>2. CASE row'[k] = row[k] BY <1>8, <2>1, <2>2
  <2>3. CASE row'[k] # row[k] BY <1>9, <2>1, <2>3
  <2> QED BY <2>2, <2>3
<1>11. StatusApplied'
  <2> SUFFICES ASSUME NEW k \in Tasks, k \notin doubtful[M], NoneFrom(M, next[M], k)
               PROVE  IF row'[k].status = "none" THEN NoneFrom(M, 1, k) ELSE ShowsStatus(k)'
    BY <1>2, <1>6 DEF StatusApplied
  <2>1. IF row[k].status = "none" THEN NoneFrom(M, 1, k) ELSE ShowsStatus(k)
    BY DEF DecidedInv, StatusApplied
  <2>2. CASE row'[k] = row[k] BY <1>8, <2>1, <2>2
  <2>3. CASE row'[k] # row[k] BY <1>9, <2>1, <2>3
  <2> QED BY <2>2, <2>3
<1> QED BY <1>4, <1>10, <1>11 DEF DecidedInv

(* What a batch that leaves nothing ahead about k tells of it: without a   *)
(* record about k nothing was ahead before, and a batch that decides the   *)
(* row of k holds the latest record about it.                              *)
LEMMA BatchEnds ==
  ASSUME TypeOK, NEW t \in Topics, NEW last, Ready(t, last), Consumed(t, last),
         NEW k, NoneFrom(t, last + 1, k)
  PROVE  /\ InBatch(t, last, k) = {} => NoneFrom(t, next[t], k)
         /\ InBatch(t, last, k) # {} => ~NoneFrom(t, 1, k)
         /\ \A m \in InBatch(t, last, k) :
              (\A n \in InBatch(t, last, k) : n = m) =>
                \A i \in Records(t) : Latest(t, i, k) => topic[t][i] = m
<1>1. /\ last \in Int /\ next[t] \in Nat \ {0} /\ Len(topic[t]) \in Nat
  BY BatchTypes, TopicTypes DEF Records
<1>2. \A i \in Records(t) : i \in Int /\ i >= 1 BY <1>1 DEF Records
<1>3. ASSUME InBatch(t, last, k) = {} PROVE NoneFrom(t, next[t], k)
  <2> SUFFICES ASSUME NEW i \in Records(t), i >= next[t], topic[t][i].task = k PROVE FALSE
    BY DEF NoneFrom
  <2>1. ~(i <= last) BY <1>3, BatchRecords
  <2> QED BY <1>1, <1>2, <2>1 DEF NoneFrom
<1>4. ASSUME NEW m \in InBatch(t, last, k) PROVE ~NoneFrom(t, 1, k)
  <2>1. PICK j \in Records(t) : topic[t][j].task = k BY BatchRecords
  <2> QED BY <1>2, <2>1 DEF NoneFrom
<1>5. ASSUME NEW m \in InBatch(t, last, k), \A n \in InBatch(t, last, k) : n = m,
             NEW i \in Records(t), Latest(t, i, k)
      PROVE  topic[t][i] = m
  <2>1. PICK j \in Records(t) : next[t] <= j /\ topic[t][j].task = k BY BatchRecords
  <2>2. topic[t][i].task = k /\ NoneFrom(t, i + 1, k) BY <1>5 DEF Latest
  <2>3. j <= i BY <1>2, <2>1, <2>2 DEF NoneFrom
  <2>4. i <= last BY <1>1, <1>2, <2>2 DEF NoneFrom
  <2>5. next[t] <= i BY <1>1, <1>2, <2>1, <2>3
  <2>6. topic[t][i] \in InBatch(t, last, k) BY <2>2, <2>4, <2>5, BatchRecords
  <2> QED BY <1>5, <2>6
<1> QED BY <1>3, <1>4, <1>5

(* A batch of edits: rows without one are as they were, and of the others  *)
(* those that are not left in doubt show theirs, which is the last if      *)
(* nothing is ahead.                                                       *)
LEMMA UpdateDecided ==
  ASSUME DecidedInv, NEW last, TaskUpdatedHandler(last)
  PROVE  DecidedInv'
<1> DEFINE E == "task-updated"
           M == "task-status-updated"
<1>1. TypeOK /\ IInv /\ E \in Topics /\ E \in UpdateTopics /\ M \in UpdateTopics \ {E}
  BY DEF DecidedInv, IInv, Topics, UpdateTopics
<1>2. Ready(E, last) /\ BulkUpdate(last) /\ Consumed(E, last) /\ Marks(E, last)
  BY DEF TaskUpdatedHandler
<1>3. /\ topic' = topic /\ next'[E] = last + 1 /\ next'[M] = next[M]
      /\ last \in Records(E)
  BY <1>1, <1>2, BatchTypes DEF Topics, UpdateTopics
<1>4. IInv' BY <1>1, <1>3, NextIInv DEF Next, Worker
<1>5. \A k \in Tasks : row'[k].status = row[k].status BY <1>1, <1>2, UpdateRows
<1>6. \A k \in Tasks : /\ NoneFrom(E, last + 1, k)' = NoneFrom(E, last + 1, k)
                       /\ NoneFrom(M, next[M], k)' = NoneFrom(M, next[M], k)
                       /\ NoneFrom(E, 1, k)' = NoneFrom(E, 1, k)
                       /\ NoneFrom(M, 1, k)' = NoneFrom(M, 1, k)
  BY <1>3 DEF NoneFrom, Records
<1>7. \A u, i, k : Latest(u, i, k)' = Latest(u, i, k) /\ Records(u)' = Records(u)
  BY <1>3 DEF NoneFrom, Latest, Records
<1>8. /\ doubtful'[M] = doubtful[M]
      /\ \A k \in Tasks : k \in doubtful'[E] <=> IF InBatch(E, last, k) = {} THEN k \in doubtful[E]
                                              ELSE ~Decided(E, last, k)
  BY <1>1, <1>2, MarkedTasks
<1>9. StatusApplied'
  <2> SUFFICES ASSUME NEW k \in Tasks, k \notin doubtful[M], NoneFrom(M, next[M], k)
               PROVE  IF row'[k].status = "none" THEN NoneFrom(M, 1, k) ELSE ShowsStatus(k)'
    BY <1>3, <1>6, <1>8 DEF StatusApplied, NoneFrom
  <2>1. IF row[k].status = "none" THEN NoneFrom(M, 1, k) ELSE ShowsStatus(k)
    BY DEF DecidedInv, StatusApplied
  <2> QED BY <1>3, <1>5, <1>6, <1>7, <2>1 DEF ShowsStatus
<1>10. ContentApplied'
  <2> SUFFICES ASSUME NEW k \in Tasks, k \notin doubtful'[E], NoneFrom(E, last + 1, k)
               PROVE  IF row'[k].status = "none" THEN NoneFrom(E, 1, k) ELSE ShowsContent(k)'
    BY <1>3, <1>6 DEF ContentApplied, NoneFrom
  <2>1. CASE InBatch(E, last, k) = {}
    <3>1. row'[k].content = row[k].content BY <1>1, <1>2, <2>1, UpdateRows
    <3>2. NoneFrom(E, next[E], k) BY <1>1, <1>2, <2>1, BatchEnds
    <3>3. k \notin doubtful[E] BY <1>8, <2>1
    <3>4. IF row[k].status = "none" THEN NoneFrom(E, 1, k) ELSE ShowsContent(k)
      BY <3>2, <3>3 DEF DecidedInv, ContentApplied
    <3> QED BY <1>3, <1>5, <1>6, <1>7, <3>1, <3>4 DEF ShowsContent
  <2>2. CASE InBatch(E, last, k) # {}
    <3>1. row[k] # NoRow /\ \A m, n \in InBatch(E, last, k) : m = n BY <1>8, <2>2 DEF Decided
    <3>2. PICK m \in InBatch(E, last, k) : row'[k].content = m.content
      BY <1>1, <1>2, <2>2, <3>1, UpdateRows
    <3>3. \A i \in Records(E) : Latest(E, i, k) => topic[E][i] = m
      BY <1>1, <1>2, <3>1, BatchEnds
    <3>4. ~NoneFrom(E, 1, k) BY <1>1, <1>2, <2>2, BatchEnds
    <3>5. row'[k].status # "none" BY <1>1, <1>5, <3>1, RowStates
    <3> QED BY <1>3, <1>6, <1>7, <3>2, <3>3, <3>4, <3>5 DEF ShowsContent
  <2> QED BY <2>1, <2>2
<1> QED BY <1>4, <1>9, <1>10 DEF DecidedInv

(* The same for a batch of moves. *)
LEMMA StatusDecided ==
  ASSUME DecidedInv, NEW last, TaskStatusUpdatedHandler(last)
  PROVE  DecidedInv'
<1> DEFINE E == "task-updated"
           M == "task-status-updated"
<1>1. TypeOK /\ IInv /\ M \in Topics /\ M \in UpdateTopics /\ E \in UpdateTopics \ {M}
  BY DEF DecidedInv, IInv, Topics, UpdateTopics
<1>2. Ready(M, last) /\ BulkUpdateStatus(last) /\ Consumed(M, last) /\ Marks(M, last)
  BY DEF TaskStatusUpdatedHandler
<1>3. /\ topic' = topic /\ next'[M] = last + 1 /\ next'[E] = next[E]
      /\ last \in Records(M)
  BY <1>1, <1>2, BatchTypes DEF Topics, UpdateTopics
<1>4. IInv' BY <1>1, <1>3, NextIInv DEF Next, Worker
<1>5. /\ \A k \in Tasks : row'[k].content = row[k].content
      /\ \A k \in Tasks : row'[k].status = "none" <=> row[k].status = "none"
  BY <1>1, <1>2, UpdateStatusRows, UpdatesKeepCreations
<1>6. \A k \in Tasks : /\ NoneFrom(M, last + 1, k)' = NoneFrom(M, last + 1, k)
                       /\ NoneFrom(E, next[E], k)' = NoneFrom(E, next[E], k)
                       /\ NoneFrom(M, 1, k)' = NoneFrom(M, 1, k)
                       /\ NoneFrom(E, 1, k)' = NoneFrom(E, 1, k)
  BY <1>3 DEF NoneFrom, Records
<1>7. \A u, i, k : Latest(u, i, k)' = Latest(u, i, k) /\ Records(u)' = Records(u)
  BY <1>3 DEF NoneFrom, Latest, Records
<1>8. /\ doubtful'[E] = doubtful[E]
      /\ \A k \in Tasks : k \in doubtful'[M] <=> IF InBatch(M, last, k) = {} THEN k \in doubtful[M]
                                              ELSE ~Decided(M, last, k)
  BY <1>1, <1>2, MarkedTasks
<1>9. ContentApplied'
  <2> SUFFICES ASSUME NEW k \in Tasks, k \notin doubtful[E], NoneFrom(E, next[E], k)
               PROVE  IF row'[k].status = "none" THEN NoneFrom(E, 1, k) ELSE ShowsContent(k)'
    BY <1>3, <1>6, <1>8 DEF ContentApplied, NoneFrom
  <2>1. IF row[k].status = "none" THEN NoneFrom(E, 1, k) ELSE ShowsContent(k)
    BY DEF DecidedInv, ContentApplied
  <2> QED BY <1>3, <1>5, <1>6, <1>7, <2>1 DEF ShowsContent
<1>10. StatusApplied'
  <2> SUFFICES ASSUME NEW k \in Tasks, k \notin doubtful'[M], NoneFrom(M, last + 1, k)
               PROVE  IF row'[k].status = "none" THEN NoneFrom(M, 1, k) ELSE ShowsStatus(k)'
    BY <1>3, <1>6 DEF StatusApplied, NoneFrom
  <2>1. CASE InBatch(M, last, k) = {}
    <3>1. row'[k].status = row[k].status BY <1>1, <1>2, <2>1, UpdateStatusRows
    <3>2. NoneFrom(M, next[M], k) BY <1>1, <1>2, <2>1, BatchEnds
    <3>3. k \notin doubtful[M] BY <1>8, <2>1
    <3>4. IF row[k].status = "none" THEN NoneFrom(M, 1, k) ELSE ShowsStatus(k)
      BY <3>2, <3>3 DEF DecidedInv, StatusApplied
    <3> QED BY <1>3, <1>5, <1>6, <1>7, <3>1, <3>4 DEF ShowsStatus
  <2>2. CASE InBatch(M, last, k) # {}
    <3>1. row[k] # NoRow /\ \A m, n \in InBatch(M, last, k) : m = n BY <1>8, <2>2 DEF Decided
    <3>2. PICK m \in InBatch(M, last, k) : row'[k].status = m.status
      BY <1>1, <1>2, <2>2, <3>1, UpdateStatusRows
    <3>3. \A i \in Records(M) : Latest(M, i, k) => topic[M][i] = m
      BY <1>1, <1>2, <3>1, BatchEnds
    <3>4. ~NoneFrom(M, 1, k) BY <1>1, <1>2, <2>2, BatchEnds
    <3>5. row'[k].status # "none" BY <1>1, <1>5, <3>1, RowStates
    <3> QED BY <1>3, <1>6, <1>7, <3>2, <3>3, <3>4, <3>5 DEF ShowsStatus
  <2> QED BY <2>1, <2>2
<1> QED BY <1>4, <1>9, <1>10 DEF DecidedInv

(* Going back to the committed position takes nothing from the rows, and   *)
(* only puts more ahead of the loops.                                      *)
LEMMA RewindDecided ==
  ASSUME DecidedInv, UNCHANGED <<topic, row, doubtful>>, IInv',
         \A t \in Topics : next'[t] <= next[t]
  PROVE  DecidedInv'
<1> DEFINE E == "task-updated"
           M == "task-status-updated"
<1>1. \A u, i, k : /\ NoneFrom(u, i, k)' <=> \A j \in Records(u) : j >= i' => topic[u][j].task # k
                   /\ Records(u)' = Records(u)
  BY DEF NoneFrom, Records
<1>2. \A k : ShowsContent(k)' = ShowsContent(k) /\ ShowsStatus(k)' = ShowsStatus(k)
  BY DEF ShowsContent, ShowsStatus, Latest, NoneFrom, Records
<1>3. \A u, k : NoneFrom(u, 1, k)' = NoneFrom(u, 1, k) BY DEF NoneFrom, Records
<1>4. \A u \in {E, M} : next'[u] <= next[u] /\ next'[u] \in Nat /\ next[u] \in Nat
                          /\ Len(topic[u]) \in Nat
  BY TopicTypes DEF DecidedInv, IInv, TypeOK, Topics, UpdateTopics
<1>5. \A u \in {E, M} : \A k : NoneFrom(u, next[u], k)' => NoneFrom(u, next[u], k)
  BY <1>4 DEF NoneFrom, Records
<1>6. ContentApplied' BY <1>2, <1>3, <1>5 DEF DecidedInv, ContentApplied
<1>7. StatusApplied' BY <1>2, <1>3, <1>5 DEF DecidedInv, StatusApplied
<1> QED BY <1>6, <1>7 DEF DecidedInv

LEMMA InitDecided == Init => DecidedInv
<1> SUFFICES ASSUME Init PROVE DecidedInv
  OBVIOUS
<1>1. \A k \in Tasks : row[k].status = "none" BY DEF Init, NoRow
<1>2. \A t \in Topics : Records(t) = {} BY DEF Init, Records
<1>3. \A t \in UpdateTopics : \A i, k : NoneFrom(t, i, k) BY <1>2 DEF NoneFrom, Topics
<1> QED BY <1>1, <1>3, InitIInv DEF DecidedInv, ContentApplied, StatusApplied, UpdateTopics

LEMMA NextDecided == DecidedInv /\ [Next]_vars => DecidedInv'
<1> SUFFICES ASSUME DecidedInv, [Next]_vars PROVE DecidedInv'
  OBVIOUS
<1>1. TypeOK /\ IInv /\ IInv' BY NextIInv DEF DecidedInv, IInv
<1>2. CASE UNCHANGED <<topic, row, doubtful, next>>
  BY <1>1, <1>2, RewindDecided DEF TypeOK
<1>3. CASE Crash BY <1>1, <1>3, RewindDecided DEF Crash, TypeOK
<1> QED BY <1>2, <1>3, SendDecided, CreateDecided, UpdateDecided, StatusDecided
        DEF Next, Worker, CommitTick, vars

LEMMA DecidedConverged == DecidedInv => ConvergedUnlessDoubtful
<1> SUFFICES ASSUME DecidedInv, \A t \in Topics : Drained(t), NEW k \in Tasks
             PROVE  /\ row[k] # NoRow <=> Published(k)
                    /\ Published(k) /\ k \notin doubtful["task-status-updated"] => ShowsStatus(k)
                    /\ Published(k) /\ k \notin doubtful["task-updated"] => ShowsContent(k)
  BY DEF ConvergedUnlessDoubtful, AllDrained
<1>1. TypeOK /\ IInv BY DEF DecidedInv, IInv
<1>2. row[k] # NoRow <=> Published(k) BY <1>1, InvInserted DEF Inserted, Topics
<1>3. \A t \in Topics : NoneFrom(t, next[t], k)
  <2> SUFFICES ASSUME NEW t \in Topics, NEW i \in Records(t), i >= next[t] PROVE FALSE
    BY DEF NoneFrom
  <2>1. next[t] \in Nat /\ Len(topic[t]) \in Nat BY <1>1, TopicTypes
  <2> QED BY <2>1 DEF Drained, Records
<1>4. Published(k) => row[k].status # "none" BY <1>1, <1>2, RowStates
<1> QED BY <1>2, <1>3, <1>4 DEF DecidedInv, ContentApplied, StatusApplied, Topics, UpdateTopics

(* README:172, what is left of it: for every size of the batches, and      *)
(* every number of tasks, edits, moves and crashes, the rows are what the  *)
(* API has shown whenever the topics are consumed, except where the last   *)
(* batch about a task found no row or two different records of it.         *)
THEOREM ConvergedDecided == Spec => []ConvergedUnlessDoubtful
BY InitDecided, NextDecided, DecidedConverged, PTL DEF Spec
=============================================================================
