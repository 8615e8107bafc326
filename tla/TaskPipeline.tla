---------------------------- MODULE TaskPipeline ----------------------------
(***************************************************************************)
(* The asynchronous write path of a task: the API publishes to the topics  *)
(* task-created, task-updated and task-status-updated, and three consumer  *)
(* loops of one worker apply them in batches to the table tasks.  The      *)
(* loops are the ones TaskConsumer details; here a batch is one step, and  *)
(* what matters is the order in which the topics are applied, the          *)
(* duplicates inside a batch and the redelivery after a crash.             *)
(*                                                                         *)
(* Each topic has one partition (the broker's default; the compose file    *)
(* sets no other), so a topic keeps the order of publication.              *)
(***************************************************************************)
EXTENDS Integers, Sequences, FiniteSets

CONSTANTS
  Tasks, Statuses,
  Initial,      \* the status of a new task, "TODO" in CreateTask
  BatchSize,    \* BatchSize[t]: most records in one batch of topic t
  MaxEdits,     \* bound: full updates published
  MaxMoves,     \* bound: status updates published
  MaxUpdates,   \* bound: full and status updates together
  MaxCrashes    \* bound: crashes of the worker

(* "none" stands for the status of a row that is not there.                *)
ASSUME StatusAssumption == Initial \in Statuses /\ "none" \notin Statuses
ASSUME BoundsAssumption ==
  MaxEdits \in Nat /\ MaxMoves \in Nat /\ MaxUpdates \in Nat /\ MaxCrashes \in Nat

UpdateTopics == {"task-updated", "task-status-updated"}
Topics == {"task-created"} \cup UpdateTopics

ASSUME BatchSizeAssumption == BatchSize \in [Topics -> Nat \ {0}]

VARIABLES
  topic,      \* topic[t]: the records of the topic
  next,       \* next[t]: the record its loop fetches next
  committed,  \* committed[t]: where the loop starts after a crash
  row,        \* row[k]: the row of task k, NoRow before its insert
  doubtful,   \* history: doubtful[t], the tasks whose last batch of topic t
              \* did not decide what their row says (see Decided)
  crashes

vars == <<topic, next, committed, row, doubtful, crashes>>

NoRow == [status |-> "none", content |-> 0]

Published(k) == \E i \in DOMAIN topic["task-created"] : topic["task-created"][i] = [task |-> k]

Init ==
  /\ topic = [t \in Topics |-> <<>>]
  /\ next = [t \in Topics |-> 1] /\ committed = [t \in Topics |-> 1]
  /\ row = [k \in Tasks |-> NoRow]
  /\ doubtful = [t \in UpdateTopics |-> {}]
  /\ crashes = 0

-----------------------------------------------------------------------------
(* The API: publish and return; the row is not waited for. *)

Send(t, m) ==
  /\ topic' = [topic EXCEPT ![t] = Append(@, m)]
  /\ UNCHANGED <<next, committed, row, doubtful, crashes>>

sendTaskCreated(k) ==
  /\ ~Published(k)
  /\ Send("task-created", [task |-> k])

(* getTaskByID finds the task in the cache as soon as it is created: an    *)
(* edit or a move does not wait for the row either.                        *)

MayUpdate == Len(topic["task-updated"]) + Len(topic["task-status-updated"]) < MaxUpdates

sendTaskUpdated(k) ==
  /\ Published(k) /\ MayUpdate /\ Len(topic["task-updated"]) < MaxEdits
  /\ Send("task-updated", [task |-> k, content |-> Len(topic["task-updated"]) + 1])

sendTaskStatusUpdated(k, st) ==
  /\ Published(k) /\ MayUpdate /\ Len(topic["task-status-updated"]) < MaxMoves
  /\ Send("task-status-updated", [task |-> k, status |-> st])

-----------------------------------------------------------------------------
(* One batch of one loop.  The statement applies the records next[t] ..    *)
(* last at once.                                                           *)

Ready(t, last) == last \in next[t] .. next[t] + BatchSize[t] - 1 /\ last <= Len(topic[t])

InBatch(t, last, k) == {m \in {topic[t][i] : i \in next[t] .. last} : m.task = k}

(* Mistake: the position is taken for the last offset, not the next one. *)
ConsumedOneMore(t, last) ==
  /\ next' = [next EXCEPT ![t] = last + 2]
  /\ UNCHANGED <<topic, committed, crashes>>

Consumed(t, last) ==
  /\ next' = [next EXCEPT ![t] = last + 1]
  /\ UNCHANGED <<topic, committed, crashes>>

(* Mistake: the insert overwrites an existing row. *)
BulkCreateOverwriting(last) ==
  row' = [k \in Tasks |-> IF InBatch("task-created", last, k) = {} THEN row[k]
                          ELSE [status |-> Initial, content |-> 0]]

(* The last batch of topic t about task k decided its row when it found    *)
(* the row and held one record about it; finding none, it changed nothing, *)
(* and of several different ones the table has kept either.                *)
Decided(t, last, k) == row[k] # NoRow /\ \A m, n \in InBatch(t, last, k) : m = n

Marks(t, last) ==
  doubtful' = [doubtful EXCEPT ![t] =
    {k \in Tasks : IF InBatch(t, last, k) = {} THEN k \in @ ELSE ~Decided(t, last, k)}]

(* INSERT ... ON CONFLICT (id, workspace_id) DO NOTHING *)
BulkCreate(last) ==
  row' = [k \in Tasks |->
            IF InBatch("task-created", last, k) = {} \/ row[k] # NoRow THEN row[k]
            ELSE [status |-> Initial, content |-> 0]]

(* UPDATE tasks ... FROM (VALUES ...): a record whose task has no row      *)
(* changes nothing, and of several records for one row any one is used.    *)
(* A full update leaves the column status alone.                           *)
BulkUpdate(last) ==
  \E pick \in [Tasks -> 0 .. MaxEdits] :
    /\ \A k \in Tasks :
         LET ms == InBatch("task-updated", last, k)
         IN IF row[k] = NoRow \/ ms = {} THEN pick[k] = row[k].content
            ELSE pick[k] \in {m.content : m \in ms}
    /\ row' = [k \in Tasks |-> [status |-> row[k].status, content |-> pick[k]]]

BulkUpdateStatus(last) ==
  \E pick \in [Tasks -> Statuses \cup {"none"}] :
    /\ \A k \in Tasks :
         LET ms == InBatch("task-status-updated", last, k)
         IN IF row[k] = NoRow \/ ms = {} THEN pick[k] = row[k].status
            ELSE pick[k] \in {m.status : m \in ms}
    /\ row' = [k \in Tasks |-> [status |-> pick[k], content |-> row[k].content]]

(* One turn of each RunLoop: fetch a batch, apply it, go on behind it.     *)
TaskCreatedHandler(last) ==
  /\ Ready("task-created", last) /\ BulkCreate(last) /\ Consumed("task-created", last)
  /\ UNCHANGED doubtful

TaskUpdatedHandler(last) ==
  /\ Ready("task-updated", last) /\ BulkUpdate(last) /\ Consumed("task-updated", last)
  /\ Marks("task-updated", last)

TaskStatusUpdatedHandler(last) ==
  /\ Ready("task-status-updated", last)
  /\ BulkUpdateStatus(last)
  /\ Consumed("task-status-updated", last)
  /\ Marks("task-status-updated", last)

(* Mistake: what has been fetched by nobody is committed. *)
CommitTickAhead(t) ==
  /\ committed[t] < next[t]
  /\ committed' = [committed EXCEPT ![t] = Len(topic[t]) + 1]
  /\ UNCHANGED <<topic, next, row, doubtful, crashes>>

(* The commit loop of the topic's reader sends what has been flushed. *)
CommitTick(t) ==
  /\ committed[t] < next[t]
  /\ committed' = [committed EXCEPT ![t] = next[t]]
  /\ UNCHANGED <<topic, next, row, doubtful, crashes>>

(* All loops run in one process and start again where they had committed.  *)
Crash ==
  /\ crashes < MaxCrashes
  /\ crashes' = crashes + 1
  /\ next' = committed
  /\ UNCHANGED <<topic, committed, row, doubtful>>

-----------------------------------------------------------------------------
Records(t) == 1 .. Len(topic[t])

Worker ==
  \/ \E last \in Records("task-created") : TaskCreatedHandler(last)
  \/ \E last \in Records("task-updated") : TaskUpdatedHandler(last)
  \/ \E last \in Records("task-status-updated") : TaskStatusUpdatedHandler(last)

Api ==
  \E k \in Tasks : \/ sendTaskCreated(k)
                   \/ sendTaskUpdated(k)
                   \/ \E st \in Statuses : sendTaskStatusUpdated(k, st)

Next == Api \/ Worker \/ (\E t \in Topics : CommitTick(t)) \/ Crash

Spec == Init /\ [][Next]_vars

(* Each loop has a goroutine of its own. *)
Fairness ==
  /\ WF_vars(\E last \in Records("task-created") : TaskCreatedHandler(last))
  /\ WF_vars(\E last \in Records("task-updated") : TaskUpdatedHandler(last))
  /\ WF_vars(\E last \in Records("task-status-updated") : TaskStatusUpdatedHandler(last))

FairSpec == Spec /\ Fairness

-----------------------------------------------------------------------------
(* Properties. *)

Row == [status : Statuses \cup {"none"}, content : 0 .. MaxEdits]

TypeOK ==
  /\ DOMAIN topic = Topics
  /\ topic["task-created"] \in Seq([task : Tasks])
  /\ topic["task-updated"] \in Seq([task : Tasks, content : 1 .. MaxEdits])
  /\ topic["task-status-updated"] \in Seq([task : Tasks, status : Statuses])
  /\ next \in [Topics -> Nat \ {0}] /\ committed \in [Topics -> Nat \ {0}]
  /\ \A t \in Topics : committed[t] <= next[t] /\ next[t] <= Len(topic[t]) + 1
  /\ row \in [Tasks -> Row]
  /\ doubtful \in [UpdateTopics -> SUBSET Tasks]
  /\ crashes \in Nat

Drained(t) == next[t] > Len(topic[t])

(* Record i of topic t is about task k, and no later one is.               *)
NoneFrom(t, n, k) == \A i \in Records(t) : i >= n => topic[t][i].task # k

Latest(t, i, k) == i \in Records(t) /\ topic[t][i].task = k /\ NoneFrom(t, i + 1, k)

(* The row shows what the last update and the last move of task k say, and *)
(* what the insert wrote where there is none.                              *)
ShowsStatus(k) ==
  LET t == "task-status-updated"
  IN /\ \A i \in Records(t) : Latest(t, i, k) => row[k].status = topic[t][i].status
     /\ NoneFrom(t, 1, k) => row[k].status = Initial

ShowsContent(k) ==
  LET t == "task-updated"
  IN /\ \A i \in Records(t) : Latest(t, i, k) => row[k].content = topic[t][i].content
     /\ NoneFrom(t, 1, k) => row[k].content = 0

AllDrained == \A t \in Topics : Drained(t)

(* README:172, "eventual consistency": when everything published has been  *)
(* consumed, also after redeliveries and whatever the relative speed of    *)
(* the three loops, the row is the task the API has shown since.           *)
Converged ==
  AllDrained =>
    \A k \in Tasks : IF Published(k) THEN row[k] # NoRow /\ ShowsStatus(k) /\ ShowsContent(k)
                                    ELSE row[k] = NoRow

(* What the three loops do keep of it, with batches of any size, crashes,  *)
(* redeliveries in other batches than the first time, and updates that     *)
(* overtake the creation: every published task has its row, and the row    *)
(* shows the last edit and the last move, column by column, unless the     *)
(* last batch about it found no row or held two different records of it.   *)
(* A later batch with one record ends the doubt.                           *)
ConvergedUnlessDoubtful ==
  AllDrained =>
    \A k \in Tasks :
      /\ row[k] # NoRow <=> Published(k)
      /\ Published(k) /\ k \notin doubtful["task-status-updated"] => ShowsStatus(k)
      /\ Published(k) /\ k \notin doubtful["task-updated"] => ShowsContent(k)

(* Edits and moves end up in the row for good. *)
EventuallyConsistent == <>[](AllDrained /\ ConvergedUnlessDoubtful)
=============================================================================
