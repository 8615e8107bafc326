-------------------------- MODULE TaskBoardProofs --------------------------
(***************************************************************************)
(* The task board for every number of tasks, columns, users and requests.  *)
(*                                                                         *)
(*   TypeCorrect      the types, as IInv: what each step of a handler      *)
(*                    holds, and that a task's creation is the first       *)
(*                    change of it that is queued                          *)
(*   MovesShown       as AInv: where no request overlaps another, what a   *)
(*                    move has found or loaded is still cached at its end, *)
(*                    or has expired under it                              *)
(*   BoardShowsTable  as BInv: where requests also wait for the table, a   *)
(*                    hash agrees with the row its task will have and a    *)
(*                    cached column lists at least the tasks that will be  *)
(*                    in it, unless it was begun anew, or a handler is     *)
(*                    about to write them                                  *)
(*                                                                         *)
(* FitsColumn and FitsPage leave out what TrimColumn and a paged first     *)
(* read do to a larger board: MCTaskBoard's board_pages shows it.          *)
(***************************************************************************)
EXTENDS TaskBoard, SequenceTheorems, FiniteSetTheorems, TLAPS

USE StatusAssumption, UserAssumption, ModeAssumption, PageAssumption, BoundsAssumption

Created == 1 .. created

(* What a handler holds at each step: C are the tasks created so far.      *)
IsList(list, C) == DOMAIN list \in SUBSET C /\ \A k \in DOMAIN list : list[k] \in Metas

MoveSteps == {"target", "prewarm", "prewarmSet", "exists", "moveExec"}
TaskSteps == {"add", "addExec", "find", "keep", "edit", "move", "write"} \cup MoveSteps
Steps == TaskSteps \cup {"idle", "select", "filter", "fill", "metas", "lack", "complete"}

StepTyped(r, C) ==
  /\ r.at \in Steps
  /\ r.at = "idle" => r = Idle
  /\ r.at \in TaskSteps => r.k \in C
  /\ r.at \in {"find", "keep"} => r.op \in {"edit", "move"}
  /\ r.at \in {"keep", "edit", "move", "write", "complete"} => r.t \in Metas
  /\ r.at \in MoveSteps => r.from \in Statuses /\ r.to \in Statuses
  /\ r.at \in {"select", "filter", "fill"} => r.st \in Statuses
  /\ r.at \in {"prewarmSet", "filter", "fill"} => IsList(r.list, C)
  /\ r.at \in {"metas", "lack", "complete"} => r.ids \in SUBSET C
  /\ r.at = "complete" => r.k \in C

ReqTyped ==
  req = [h \in Handlers |-> req[h]] /\ \A h \in Handlers : StepTyped(req[h], Created)

(* Nothing in the table or the cache is about a task that is not created.  *)
OnlyCreated ==
  /\ \A k \in Tasks : row[k] # NoRow \/ meta[k] # NoMeta => k \in Created
  /\ \A st \in Statuses : column[st].ids \subseteq Created
  /\ \A i \in 1 .. Len(pending) : pending[i].k \in Created

(* The creation of a task is applied, or is ahead of everything published  *)
(* about it.                                                               *)
CreationBefore(n, k) ==
  row[k] # NoRow \/ \E i \in 1 .. n - 1 : pending[i].op = "create" /\ pending[i].k = k

CreationFirst ==
  /\ \A k \in Created : CreationBefore(Len(pending) + 1, k)
  /\ \A i \in 1 .. Len(pending) :
       pending[i].op # "create" => CreationBefore(i, pending[i].k)

IInv == TypeOK /\ ReqTyped /\ OnlyCreated /\ CreationFirst

(* TypeOK in two parts: the history, and what the steps of a handler set.  *)
LapsedOK == lapsed \in [tasks : SUBSET Tasks, columns : SUBSET Statuses]

Keys == {"absent", "expiring", "lasting", "partial"}

CacheOK ==
  /\ mode \in Modes
  /\ row \in [Tasks -> Rows \cup {NoRow}]
  /\ pending \in Seq(Messages)
  /\ meta \in [Tasks -> Metas \cup {NoMeta}]
  /\ column \in [Statuses -> [key : Keys, ids : SUBSET Tasks]]
  /\ \A st \in Statuses :
       /\ column[st].key = "absent" => column[st].ids = {}
       /\ column[st].key \in {"lasting", "partial"} => column[st].ids # {}
  /\ created \in 0 .. N /\ updates \in 0 .. MaxUpdates

-----------------------------------------------------------------------------
(* Facts about the values. *)

LEMMA Constants ==
  /\ NoMeta \notin Metas /\ NoRow \notin Rows
  /\ \A m \in Metas : m.status \in Statuses /\ m.who \in Users /\ m.name \in Users
  /\ \A t \in Rows : t.status \in Statuses /\ t.who \in Users
  BY DEF NoMeta, NoRow, Metas, Rows

LEMMA CreatedAreTasks ==
  ASSUME TypeOK
  PROVE  Created \subseteq Tasks /\ created \in Nat
  BY DEF TypeOK, Created, Tasks

LEMMA FromRowTyped ==
  ASSUME TypeOK, NEW k \in Tasks, row[k] # NoRow
  PROVE  FromRow(k) \in Metas
<1>1. row[k] \in Rows
  BY DEF TypeOK
<1> QED
  BY <1>1 DEF FromRow, Rows, Metas

LEMMA InTableCreated ==
  ASSUME IInv, NEW st \in Statuses
  PROVE  InTable(st) \subseteq Created /\ \A k \in InTable(st) : row[k] # NoRow /\ k \in Tasks
  BY DEF IInv, OnlyCreated, InTable, NoRow

LEMMA NewestSubset == \A S, n : Newest(S, n) \subseteq S
  BY DEF Newest

(* The newest entry of a list is among the newest n. *)
LEMMA NewestSome ==
  ASSUME NEW S \in SUBSET Tasks, S # {}, NEW n \in Nat \ {0}
  PROVE  Newest(S, n) # {}
<1>1. \E k \in S : \A j \in S : ~ (j > k)
  <2> DEFINE T == {N - k : k \in S}
  <2>1. T \subseteq Nat /\ T # {}
    <3>1. ASSUME NEW k \in S PROVE N - k \in Nat
      BY DEF Tasks
    <3> QED
      BY <3>1
  <2> HIDE DEF T
  <2>2. PICK i \in T : \A j \in T : ~ (<<j, i>> \in OpToRel(<, Nat))
    BY <2>1, WFMin, NatLessThanWellFounded, Zenon
  <2>3. \A j \in T : ~ (j < i)
    BY <2>1, <2>2, Zenon DEF OpToRel
  <2>4. PICK k \in S : i = N - k
    BY DEF T
  <2>5. ASSUME NEW j \in S PROVE ~ (j > k)
    <3>1. N - j \in T
      BY DEF T
    <3> QED
      BY <2>3, <2>4, <3>1 DEF Tasks
  <2> QED
    BY <2>5
<1>2. PICK k \in S : \A j \in S : ~ (j > k)
  BY <1>1
<1>3. {j \in S : j > k} = {}
  BY <1>2
<1>4. Cardinality({j \in S : j > k}) < n
  BY <1>3, FS_EmptySet
<1> QED
  BY <1>4 DEF Newest

LEMMA SelectList ==
  ASSUME IInv, NEW S, NEW st \in Statuses, S \subseteq InTable(st)
  PROVE  IsList(Select(S), Created)
<1>1. \A k \in S : k \in Tasks /\ row[k] # NoRow /\ k \in Created
  BY InTableCreated
<1>2. \A k \in S : FromRow(k) \in Metas
  BY <1>1, FromRowTyped DEF IInv
<1> QED
  BY <1>1, <1>2 DEF Select, IsList

(* The messages of the queue, one by one. *)
LEMMA PendingElement ==
  ASSUME TypeOK, NEW i \in 1 .. Len(pending)
  PROVE  /\ pending[i] \in Messages /\ pending[i].k \in Tasks
         /\ pending[i].op \in {"create", "update", "status"}
         /\ pending[i].op = "update" => pending[i].who \in Users
         /\ pending[i].op = "status" => pending[i].status \in Statuses
<1>1. pending[i] \in Messages
  BY ElementOfSeq DEF TypeOK
<1> QED
  BY <1>1 DEF Messages

LEMMA PublishTyped ==
  ASSUME TypeOK, NEW m \in Messages, Publish(m)
  PROVE  /\ pending' \in Seq(Messages) /\ Len(pending') = Len(pending) + 1
         /\ \A i \in 1 .. Len(pending) : pending'[i] = pending[i]
         /\ pending'[Len(pending) + 1] = m /\ Len(pending) \in Nat
  BY DEF TypeOK, Publish

-----------------------------------------------------------------------------
(* The initial state. *)

LEMMA InitInv == Init => IInv
<1> SUFFICES ASSUME Init PROVE IInv
  OBVIOUS
<1> USE DEF Init
<1>1. TypeOK
  BY DEF TypeOK, Absent, Nothing
<1>2. ReqTyped
  BY DEF ReqTyped, StepTyped, Idle, Steps, TaskSteps, MoveSteps
<1>3. OnlyCreated /\ CreationFirst
  BY DEF OnlyCreated, CreationFirst, Created, Absent
<1> QED
  BY <1>1, <1>2, <1>3 DEF IInv

-----------------------------------------------------------------------------
(* The step of a handler: what it holds next, and that it is well-formed.  *)

LEMMA TypedGrows ==
  ASSUME NEW r, NEW C, NEW D, C \subseteq D, StepTyped(r, C)
  PROVE  StepTyped(r, D)
  BY DEF StepTyped, IsList

LEMMA GoTyped ==
  ASSUME ReqTyped, Created \subseteq Created', NEW h \in Handlers, NEW r, Go(h, r),
         StepTyped(r, Created')
  PROVE  ReqTyped'
<1>1. req' = [g \in Handlers |-> IF g = h THEN r ELSE req[g]]
  BY DEF Go, ReqTyped
<1>2. PICK C, D : C = Created /\ D = Created'
  OBVIOUS
<1>3. ASSUME NEW g \in Handlers PROVE StepTyped(req'[g], D)
  <2>1. StepTyped(req[g], C)
    BY <1>2 DEF ReqTyped
  <2> QED
    BY <1>1, <1>2, <2>1, TypedGrows
<1> QED
  BY <1>1, <1>2, <1>3 DEF ReqTyped

-----------------------------------------------------------------------------
(* How a step may change the table and the cache. *)

TableOK == CacheOK /\ OnlyCreated /\ CreationFirst

LEMMA SameState ==
  ASSUME IInv, UNCHANGED <<mode, table, cache, created>>, updates' \in 0 .. MaxUpdates
  PROVE  TableOK' /\ Created' = Created
<1>1. UNCHANGED <<mode, row, pending, meta, column, created>>
  BY DEF table, cache
<1>2. CacheOK'
  BY <1>1 DEF IInv, TypeOK, CacheOK, Keys
<1> QED
  BY <1>1, <1>2 DEF IInv, TableOK, OnlyCreated, CreationFirst, CreationBefore, Created

ColumnOK(c, C) ==
  /\ c \in [key : Keys, ids : SUBSET C]
  /\ c.key = "absent" => c.ids = {}
  /\ c.key \in {"lasting", "partial"} => c.ids # {}

LEMMA ColumnTyped ==
  ASSUME IInv, NEW st \in Statuses
  PROVE  ColumnOK(column[st], Created)
<1>1. column[st] \in [key : Keys, ids : SUBSET Tasks] /\ column[st].ids \subseteq Created
  BY DEF IInv, TypeOK, OnlyCreated, Keys
<1> QED
  BY <1>1 DEF IInv, TypeOK, ColumnOK

LEMMA WithoutOK ==
  ASSUME NEW C, NEW c, ColumnOK(c, C), NEW k
  PROVE  ColumnOK(Without(c, k), C)
  BY DEF ColumnOK, Without, Absent, Keys

LEMMA WithOK ==
  ASSUME NEW C \in SUBSET Tasks, NEW c, ColumnOK(c, C), NEW k \in C, NEW found
  PROVE  ColumnOK(With(found, c, k), C) /\ With(found, c, k).key # "absent"
<1>1. CASE c.ids = {}
  <2>1. \E key \in {"lasting", "partial"} : With(found, c, k) = [key |-> key, ids |-> {k}]
    BY <1>1 DEF With
  <2> QED
    BY <2>1 DEF ColumnOK, Keys
<1>2. CASE c.ids # {}
  <2>1. /\ With(found, c, k).key = c.key /\ With(found, c, k).ids \subseteq C
        /\ With(found, c, k) = [key |-> c.key, ids |-> Newest(c.ids \cup {k}, Cap)]
    BY <1>2, NewestSubset DEF With, ColumnOK
  <2>2. c.key \in Keys \ {"absent"}
    BY <1>2 DEF ColumnOK
  <2>3. Newest(c.ids \cup {k}, Cap) # {}
    <3>1. c.ids \cup {k} \subseteq Tasks /\ c.ids \cup {k} # {}
      BY DEF ColumnOK
    <3> QED
      BY <3>1, NewestSome
  <2> QED
    BY <2>1, <2>2, <2>3 DEF ColumnOK
<1> QED
  BY <1>1, <1>2

LEMMA CacheSet ==
  ASSUME IInv, UNCHANGED <<mode, table, count>>,
         meta' \in [Tasks -> Metas \cup {NoMeta}],
         \A k \in Tasks : meta'[k] # NoMeta => meta[k] # NoMeta \/ k \in Created,
         DOMAIN column' = Statuses, column' = [st \in Statuses |-> column'[st]],
         \A st \in Statuses : ColumnOK(column'[st], Created)
  PROVE  TableOK' /\ Created' = Created
<1>1. UNCHANGED <<mode, row, pending, created, updates>> /\ Created' = Created
  BY DEF table, count, Created
<1>2. Created \subseteq Tasks
  BY CreatedAreTasks DEF IInv
<1>3. column' \in [Statuses -> [key : Keys, ids : SUBSET Tasks]]
  BY <1>2 DEF ColumnOK
<1>4. CacheOK'
  BY <1>1, <1>3 DEF IInv, TypeOK, CacheOK, ColumnOK
<1>5. OnlyCreated'
  BY <1>1 DEF IInv, OnlyCreated, ColumnOK
<1>6. CreationFirst'
  BY <1>1 DEF IInv, CreationFirst, CreationBefore
<1> QED
  BY <1>1, <1>4, <1>5, <1>6 DEF TableOK

LEMMA MetaSet ==
  ASSUME IInv, UNCHANGED <<mode, table, column, count>>,
         NEW k \in Created, NEW t \in Metas, meta' = [meta EXCEPT ![k] = t]
  PROVE  TableOK' /\ Created' = Created
<1>1. k \in Tasks
  BY CreatedAreTasks DEF IInv
<1>2. /\ meta' \in [Tasks -> Metas \cup {NoMeta}]
      /\ \A j \in Tasks : meta'[j] # NoMeta => meta[j] # NoMeta \/ j \in Created
  BY <1>1 DEF IInv, TypeOK
<1>3. DOMAIN column' = Statuses /\ column' = [st \in Statuses |-> column'[st]]
  BY DEF IInv, TypeOK
<1>4. \A st \in Statuses : ColumnOK(column'[st], Created)
  BY ColumnTyped
<1> QED
  BY <1>2, <1>3, <1>4, CacheSet

LEMMA ColumnSet ==
  ASSUME IInv, UNCHANGED <<mode, table, count>>, NEW st \in Statuses, NEW list,
         IsList(list, Created), SetColumnCache(st, list)
  PROVE  TableOK' /\ Created' = Created
<1>1. column' = [column EXCEPT ![st] = Fill(DOMAIN list)] /\ Created \subseteq Tasks
  BY CreatedAreTasks DEF SetColumnCache, IInv
<1>2. DOMAIN column = Statuses
  BY DEF IInv, TypeOK
<1>3. DOMAIN column' = Statuses /\ column' = [s \in Statuses |-> column'[s]]
  BY <1>1, <1>2
<1>4. ASSUME NEW s \in Statuses PROVE ColumnOK(column'[s], Created)
  <2>1. CASE s = st
    BY <1>1, <1>2, <2>1 DEF ColumnOK, Fill, IsList, Keys
  <2>2. CASE s # st
    BY <1>1, <1>2, <2>2, ColumnTyped
  <2> QED
    BY <2>1, <2>2
<1>5. /\ meta' \in [Tasks -> Metas \cup {NoMeta}]
      /\ \A j \in Tasks : meta'[j] # NoMeta => meta[j] # NoMeta \/ j \in Created
  BY DEF SetColumnCache, IInv, TypeOK, IsList
<1> QED
  BY <1>3, <1>4, <1>5, CacheSet

(* Publishing about a task whose creation is published, or is this. *)
LEMMA Published ==
  ASSUME IInv, UNCHANGED <<mode, row, cache>>, updates' = updates,
         created' \in created .. N, NEW m \in Messages, Publish(m),
         m.k \in Created',
         \/ created' = created /\ m.op # "create"
         \/ created' = created + 1 /\ m.op = "create" /\ m.k = created'
  PROVE  TableOK' /\ Created \subseteq Created'
<1>1. /\ pending' \in Seq(Messages) /\ Len(pending') = Len(pending) + 1
      /\ \A i \in 1 .. Len(pending) : pending'[i] = pending[i]
      /\ pending'[Len(pending) + 1] = m /\ Len(pending) \in Nat
  BY PublishTyped DEF IInv
<1>2. UNCHANGED <<mode, row, meta, column, updates>> /\ created \in Nat /\ created' \in Nat
  BY DEF cache, IInv, TypeOK
<1>3. Created \subseteq Created'
  BY <1>2 DEF Created
<1>4. CacheOK'
  BY <1>1, <1>2 DEF IInv, TypeOK, CacheOK, Keys
<1>5. OnlyCreated'
  <2>1. \A i \in 1 .. Len(pending') : pending'[i].k \in Created'
    BY <1>1, <1>3 DEF IInv, OnlyCreated
  <2> QED
    BY <1>2, <1>3, <2>1 DEF IInv, OnlyCreated
<1>6. ASSUME NEW n \in 1 .. Len(pending) + 1, NEW k, CreationBefore(n, k)
      PROVE  CreationBefore(n, k)'
  BY <1>1, <1>2, <1>6 DEF CreationBefore
<1>7. PICK n \in Nat : n = Len(pending)
  BY <1>1
<1>8. ASSUME NEW k \in Created' PROVE CreationBefore(n + 2, k)'
  <2>1. CASE k \in Created
    <3>1. CreationBefore(n + 1, k)
      BY <1>7, <2>1 DEF IInv, CreationFirst
    <3> QED
      BY <1>1, <1>2, <1>7, <3>1 DEF CreationBefore
  <2>2. CASE k \notin Created
    <3>1. m.op = "create" /\ m.k = k
      BY <1>2, <1>8, <2>2 DEF Created
    <3> QED
      BY <1>1, <1>7, <3>1 DEF CreationBefore
  <2> QED
    BY <2>1, <2>2
<1>9. ASSUME NEW i \in 1 .. n + 1, pending'[i].op # "create"
      PROVE  CreationBefore(i, pending[i].k)'
  <2>1. CASE i \in 1 .. n
    <3>1. PICK k : k = pending[i].k /\ k = pending'[i].k
      BY <1>1, <1>7, <2>1
    <3>2. CreationBefore(i, k)
      BY <1>1, <1>7, <1>9, <2>1, <3>1 DEF IInv, CreationFirst
    <3>3. CreationBefore(i, k)'
      BY <1>6, <1>7, <2>1, <3>2
    <3> QED
      BY <3>1, <3>3 DEF CreationBefore
  <2>2. CASE i = n + 1
    <3>1. m.op # "create" /\ pending'[i] = m /\ Created' = Created
      BY <1>1, <1>7, <1>9, <2>2 DEF Created
    <3>2. PICK k : k = m.k
      OBVIOUS
    <3>3. CreationBefore(n + 1, k)
      BY <1>7, <3>1, <3>2 DEF IInv, CreationFirst
    <3>4. CreationBefore(n + 1, k)'
      BY <1>6, <1>7, <3>3
    <3> QED
      BY <2>2, <3>1, <3>2, <3>4 DEF CreationBefore
  <2> QED
    BY <1>7, <2>1, <2>2
<1>10. CreationFirst'
  BY <1>1, <1>7, <1>8, <1>9 DEF CreationFirst
<1> QED
  BY <1>3, <1>4, <1>5, <1>10 DEF TableOK

-----------------------------------------------------------------------------
(* The handlers. *)

LEMMA Held ==
  ASSUME IInv, NEW h \in Handlers
  PROVE  StepTyped(req[h], Created) /\ Created \subseteq Tasks
  BY CreatedAreTasks DEF IInv, ReqTyped

LEMMA Handled ==
  ASSUME IInv, NEW h \in Handlers, NEW r, Go(h, r), StepTyped(r, Created'),
         TableOK', Created \subseteq Created'
  PROVE  IInv'
<1>1. LapsedOK'
  BY DEF Go, Nothing, LapsedOK, IInv, TypeOK
<1> QED
  BY <1>1, GoTyped DEF IInv, TableOK, CacheOK, LapsedOK, TypeOK, Keys

(* The steps that change nothing but what the handler holds. *)
LEMMA OnlyGoes ==
  ASSUME IInv, NEW h \in Handlers, NEW r, Go(h, r), StepTyped(r, Created),
         UNCHANGED <<mode, table, cache, count>>
  PROVE  IInv'
<1>1. updates' \in 0 .. MaxUpdates /\ UNCHANGED <<mode, table, cache, created>>
  BY DEF count, IInv, TypeOK
<1>2. TableOK' /\ Created' = Created
  BY <1>1, SameState
<1> QED
  BY <1>2, Handled

LEMMA IdleTyped == \A C : StepTyped(Idle, C)
  BY DEF StepTyped, Idle, Steps, TaskSteps, MoveSteps

LEMMA CreateInv ==
  ASSUME IInv, NEW h \in Handlers, CreateTask(h)
  PROVE  IInv'
<1>1. MaxCreated[mode] \in 0 .. N /\ created \in Nat
  BY DEF IInv, TypeOK
<1>2. created' \in created .. N /\ created' = created + 1 /\ created' \in Tasks
  BY <1>1 DEF CreateTask, Tasks
<1> DEFINE m == [op |-> "create", k |-> created']
           r == [at |-> "add", k |-> created']
<1>3. m \in Messages /\ Publish(m) /\ m.op = "create" /\ m.k = created' /\ created' \in Created'
  BY <1>1, <1>2 DEF Messages, CreateTask, Created
<1>4. UNCHANGED <<mode, row, cache>> /\ updates' = updates
  BY DEF CreateTask
<1>5. TableOK' /\ Created \subseteq Created'
  <2>1. PICK n \in Messages : n = m
    BY <1>3
  <2> QED
    BY <1>2, <1>3, <1>4, <2>1, Published
<1>6. StepTyped(r, Created')
  BY <1>3 DEF StepTyped, Steps, TaskSteps, MoveSteps
<1>7. \E q : Go(h, q) /\ StepTyped(q, Created')
  BY <1>6 DEF CreateTask
<1> QED
  BY <1>5, <1>7, Handled

LEMMA AddInv ==
  ASSUME IInv, NEW h \in Handlers, AddTaskExists(h) \/ AddTask(h)
  PROVE  IInv'
<1>1. StepTyped(req[h], Created) /\ Created \subseteq Tasks
  BY Held
<1>2. CASE AddTaskExists(h)
  <2> DEFINE r == [at |-> "addExec", k |-> req[h].k, seen |-> column[Initial].key # "absent"]
  <2>1. req[h].k \in Created
    BY <1>1, <1>2 DEF AddTaskExists, At, StepTyped, TaskSteps
  <2>2. StepTyped(r, Created)
    BY <2>1 DEF StepTyped, Steps, TaskSteps, MoveSteps
  <2>3. \E q : Go(h, q) /\ StepTyped(q, Created)
    BY <1>2, <2>2 DEF AddTaskExists
  <2> QED
    BY <1>2, <2>3, OnlyGoes DEF AddTaskExists
<1>3. CASE AddTask(h)
  <2>1. PICK k \in Created : k = req[h].k
    BY <1>1, <1>3 DEF AddTask, At, StepTyped, TaskSteps
  <2>2. /\ meta' = [meta EXCEPT ![k] = [status |-> Initial, who |-> First, name |-> First]]
        /\ column' = column \/ column' = [column EXCEPT ![Initial] = With(column[Initial], column[Initial], k)]
        /\ Go(h, Idle) /\ UNCHANGED <<mode, table, count>>
    BY <1>3, <2>1 DEF AddTask
  <2>3. /\ meta' \in [Tasks -> Metas \cup {NoMeta}]
        /\ \A j \in Tasks : meta'[j] # NoMeta => meta[j] # NoMeta \/ j \in Created
    BY <2>1, <2>2 DEF IInv, TypeOK, Metas
  <2>4. /\ DOMAIN column' = Statuses /\ column' = [st \in Statuses |-> column'[st]]
        /\ \A st \in Statuses : ColumnOK(column'[st], Created)
    <3>1. DOMAIN column = Statuses /\ column = [st \in Statuses |-> column[st]]
      BY DEF IInv, TypeOK
    <3>2. \A st \in Statuses : ColumnOK(column[st], Created)
      BY ColumnTyped
    <3>3. ColumnOK(With(column[Initial], column[Initial], k), Created)
      BY <1>1, <3>2, WithOK
    <3> QED
      BY <2>2, <3>1, <3>2, <3>3
  <2>5. TableOK' /\ Created' = Created
    BY <2>2, <2>3, <2>4, CacheSet
  <2> QED
    BY <2>2, <2>5, IdleTyped, Handled
<1> QED
  BY <1>2, <1>3

LEMMA BeginInv ==
  ASSUME IInv, NEW h \in Handlers, NEW k \in Tasks, NEW op \in {"edit", "move"}, Begin(h, k, op)
  PROVE  IInv'
<1>1. /\ updates' = updates + 1 /\ updates < MaxUpdates /\ created' = created
      /\ UNCHANGED <<mode, table, cache, created>>
  BY DEF Begin
<1>2. updates' \in 0 .. MaxUpdates
  BY <1>1 DEF IInv, TypeOK
<1>3. TableOK' /\ Created' = Created
  BY <1>1, <1>2, SameState
<1>4. k \in Created
  BY CreatedAreTasks DEF IInv, Begin, Answered, Tasks, Created
<1>5. \E q : Go(h, q) /\ StepTyped(q, Created)
  <2>1. CASE meta[k] # NoMeta
    <3>1. meta[k] \in Metas
      BY <2>1 DEF IInv, TypeOK
    <3>2. StepTyped([at |-> op, k |-> k, t |-> meta[k]], Created)
      BY <1>4, <3>1 DEF StepTyped, Steps, TaskSteps, MoveSteps
    <3> QED
      BY <2>1, <3>2 DEF Begin
  <2>2. CASE meta[k] = NoMeta
    <3>1. StepTyped([at |-> "find", k |-> k, op |-> op], Created)
      BY <1>4 DEF StepTyped, Steps, TaskSteps, MoveSteps
    <3> QED
      BY <2>2, <3>1 DEF Begin
  <2> QED
    BY <2>1, <2>2
<1> QED
  BY <1>3, <1>5, Handled

LEMMA LoadInv ==
  ASSUME IInv, NEW h \in Handlers, FindByID(h) \/ SetTaskMeta(h)
  PROVE  IInv'
<1>1. StepTyped(req[h], Created) /\ Created \subseteq Tasks
  BY Held
<1>2. PICK k \in Created : k = req[h].k
  BY <1>1 DEF FindByID, SetTaskMeta, At, StepTyped, TaskSteps
<1>3. PICK op \in {"edit", "move"} : op = req[h].op
  BY <1>1 DEF FindByID, SetTaskMeta, At, StepTyped
<1>4. CASE FindByID(h)
  <2>1. CASE row[k] = NoRow
    BY <1>2, <1>4, <2>1, IdleTyped, OnlyGoes DEF FindByID
  <2>2. CASE row[k] # NoRow
    <3>1. FromRow(k) \in Metas
      BY <1>1, <2>2, FromRowTyped DEF IInv
    <3>2. StepTyped([at |-> "keep", k |-> k, op |-> op, t |-> FromRow(k)], Created)
      BY <3>1 DEF StepTyped, Steps, TaskSteps, MoveSteps
    <3>3. \E q : Go(h, q) /\ StepTyped(q, Created)
      BY <1>2, <1>3, <1>4, <2>2, <3>2 DEF FindByID
    <3> QED
      BY <1>4, <3>3, OnlyGoes DEF FindByID
  <2> QED
    BY <2>1, <2>2
<1>5. CASE SetTaskMeta(h)
  <2>1. PICK t \in Metas : t = req[h].t
    BY <1>1, <1>5 DEF SetTaskMeta, At, StepTyped
  <2>2. StepTyped([at |-> op, k |-> k, t |-> t], Created)
    BY DEF StepTyped, Steps, TaskSteps, MoveSteps
  <2>3. TableOK' /\ Created' = Created
    BY <1>2, <1>5, <2>1, MetaSet DEF SetTaskMeta
  <2>4. \E q : Go(h, q) /\ StepTyped(q, Created)
    BY <1>2, <1>3, <1>5, <2>1, <2>2 DEF SetTaskMeta, Loaded
  <2> QED
    BY <2>3, <2>4, Handled
<1> QED
  BY <1>4, <1>5

LEMMA EditInv ==
  ASSUME IInv, NEW h \in Handlers, (\E who \in Users : UpdateFullTask(h, who)) \/ UpdateTaskMeta(h)
  PROVE  IInv'
<1>1. StepTyped(req[h], Created) /\ Created \subseteq Tasks
  BY Held
<1>2. PICK k \in Created : k = req[h].k
  BY <1>1 DEF UpdateFullTask, UpdateTaskMeta, At, StepTyped, TaskSteps
<1>3. PICK t \in Metas : t = req[h].t
  BY <1>1 DEF UpdateFullTask, UpdateTaskMeta, At, StepTyped
<1>4. ASSUME NEW who \in Users, UpdateFullTask(h, who) PROVE IInv'
  <2>1. [op |-> "update", k |-> k, who |-> who] \in Messages
    BY <1>1 DEF Messages
  <2>2. PICK m \in Messages : m = [op |-> "update", k |-> k, who |-> who]
    BY <2>1
  <2>3. /\ UNCHANGED <<mode, row, cache>> /\ updates' = updates /\ created' = created
        /\ Publish(m) /\ Created' = Created /\ created \in 0 .. N
    BY <1>2, <1>4, <2>2 DEF UpdateFullTask, count, Created, IInv, TypeOK
  <2>4. TableOK' /\ Created \subseteq Created'
    BY <2>2, <2>3, Published
  <2>5. Edited(t, who) \in Metas
    BY Constants DEF Edited, Metas
  <2>6. StepTyped([at |-> "write", k |-> k, t |-> Edited(t, who)], Created)
    BY <2>5 DEF StepTyped, Steps, TaskSteps, MoveSteps
  <2>7. \E q : Go(h, q) /\ StepTyped(q, Created)
    BY <1>2, <1>3, <1>4, <2>6 DEF UpdateFullTask
  <2> QED
    BY <2>3, <2>4, <2>7, Handled
<1>5. CASE UpdateTaskMeta(h)
  <2>1. TableOK' /\ Created' = Created
    BY <1>2, <1>3, <1>5, MetaSet DEF UpdateTaskMeta
  <2> QED
    BY <1>5, <2>1, IdleTyped, Handled DEF UpdateTaskMeta
<1> QED
  BY <1>4, <1>5

MoveStep(h) ==
  \/ \E to \in Statuses : UpdateTaskStatus(h, to)
  \/ TargetCached(h) \/ PrewarmSelect(h) \/ PrewarmSet(h) \/ MoveExists(h) \/ MoveInCache(h)

LEMMA MoveInv ==
  ASSUME IInv, NEW h \in Handlers, MoveStep(h)
  PROVE  IInv'
<1>1. StepTyped(req[h], Created) /\ Created \subseteq Tasks
  BY Held
<1>2. PICK k \in Created : k = req[h].k
  BY <1>1 DEF MoveStep, UpdateTaskStatus, TargetCached, PrewarmSelect, PrewarmSet, MoveExists,
              MoveInCache, At, StepTyped, TaskSteps, MoveSteps
<1>3. ASSUME NEW to \in Statuses, UpdateTaskStatus(h, to) PROVE IInv'
  <2>1. [op |-> "status", k |-> k, status |-> to] \in Messages
    BY <1>1 DEF Messages
  <2>2. PICK m \in Messages : m = [op |-> "status", k |-> k, status |-> to]
    BY <2>1
  <2>3. /\ UNCHANGED <<mode, row, cache>> /\ updates' = updates /\ created' = created
        /\ Publish(m) /\ Created' = Created /\ created \in 0 .. N
    BY <1>2, <1>3, <2>2 DEF UpdateTaskStatus, count, Created, IInv, TypeOK
  <2>4. TableOK' /\ Created \subseteq Created'
    BY <2>2, <2>3, Published
  <2>5. PICK from \in Statuses : from = req[h].t.status
    BY <1>1, <1>3, Constants DEF UpdateTaskStatus, At, StepTyped
  <2>6. StepTyped([at |-> "target", k |-> k, from |-> from, to |-> to], Created)
    BY DEF StepTyped, Steps, TaskSteps, MoveSteps
  <2>7. \E q : Go(h, q) /\ StepTyped(q, Created)
    BY <1>2, <1>3, <2>5, <2>6 DEF UpdateTaskStatus
  <2> QED
    BY <2>3, <2>4, <2>7, Handled
<1>4. SUFFICES ASSUME TargetCached(h) \/ PrewarmSelect(h) \/ PrewarmSet(h) \/ MoveExists(h) \/ MoveInCache(h)
               PROVE  IInv'
  BY <1>3 DEF MoveStep
<1>5. PICK from \in Statuses, to \in Statuses : from = req[h].from /\ to = req[h].to
  BY <1>1, <1>4 DEF TargetCached, PrewarmSelect, PrewarmSet, MoveExists, MoveInCache,
                    At, StepTyped, MoveSteps
<1>6. \A at \in {"prewarm", "exists"} : StepTyped(Moving(h, at), Created)
  BY <1>2, <1>5 DEF StepTyped, Moving, Steps, TaskSteps, MoveSteps
<1>7. CASE TargetCached(h)
  BY <1>6, <1>7, OnlyGoes DEF TargetCached
<1>8. CASE PrewarmSelect(h)
  <2> DEFINE list == Select(Newest(InTable(to), Cap))
  <2>1. IsList(list, Created)
    BY NewestSubset, SelectList
  <2>2. StepTyped([at |-> "prewarmSet", k |-> k, from |-> from, to |-> to, list |-> list], Created)
    BY <2>1 DEF StepTyped, Steps, TaskSteps, MoveSteps
  <2>3. \E q : Go(h, q) /\ StepTyped(q, Created)
    BY <1>2, <1>5, <1>8, <2>2 DEF PrewarmSelect
  <2> QED
    BY <1>8, <2>3, OnlyGoes DEF PrewarmSelect
<1>9. CASE PrewarmSet(h)
  <2>1. PICK list : list = req[h].list /\ IsList(list, Created)
    BY <1>1, <1>9 DEF PrewarmSet, At, StepTyped
  <2>2. TableOK' /\ Created' = Created
    BY <1>5, <1>9, <2>1, ColumnSet DEF PrewarmSet
  <2> QED
    BY <1>6, <1>9, <2>2, Handled DEF PrewarmSet
<1>10. CASE MoveExists(h)
  <2>1. PICK seen \in BOOLEAN : seen = (column[to].key # "absent")
    OBVIOUS
  <2>2. StepTyped([at |-> "moveExec", k |-> k, from |-> from, to |-> to, seen |-> seen], Created)
    BY DEF StepTyped, Steps, TaskSteps, MoveSteps
  <2>3. \E q : Go(h, q) /\ StepTyped(q, Created)
    <3>1. Go(h, [at |-> "moveExec", k |-> k, from |-> from, to |-> to, seen |-> seen])
      BY <1>2, <1>5, <1>10, <2>1 DEF MoveExists
    <3> QED
      BY <2>2, <3>1
  <2> QED
    BY <1>10, <2>3, OnlyGoes DEF MoveExists
<1>11. CASE MoveInCache(h)
  <2> DEFINE removed == [column EXCEPT ![from] = Without(column[from], k)]
  <2>1. /\ meta' = [meta EXCEPT ![k] =
                      IF meta[k] = NoMeta THEN meta[k]
                      ELSE [status |-> to, who |-> meta[k].who, name |-> meta[k].name]]
        /\ column' = removed \/ column' = [removed EXCEPT ![to] = With(column[to], removed[to], k)]
        /\ Go(h, Idle) /\ UNCHANGED <<mode, table, count>>
    BY <1>2, <1>5, <1>11 DEF MoveInCache
  <2>2. /\ meta' \in [Tasks -> Metas \cup {NoMeta}]
        /\ \A j \in Tasks : meta'[j] # NoMeta => meta[j] # NoMeta \/ j \in Created
    <3>1. meta[k] # NoMeta => [status |-> to, who |-> meta[k].who, name |-> meta[k].name] \in Metas
      <4>1. meta[k] # NoMeta => meta[k] \in Metas
        BY <1>1 DEF IInv, TypeOK
      <4> QED
        BY <4>1, Constants DEF Metas
    <3> QED
      BY <1>1, <2>1, <3>1 DEF IInv, TypeOK
  <2>3. DOMAIN removed = Statuses /\ \A st \in Statuses : ColumnOK(removed[st], Created)
    <3>1. DOMAIN column = Statuses
      BY DEF IInv, TypeOK
    <3>2. \A st \in Statuses : ColumnOK(column[st], Created) /\ ColumnOK(Without(column[st], k), Created)
      BY ColumnTyped, WithoutOK
    <3> QED
      BY <3>1, <3>2
  <2> HIDE DEF removed
  <2>4. ColumnOK(With(column[to], removed[to], k), Created)
    BY <1>1, <2>3, WithOK
  <2>5. /\ DOMAIN column' = Statuses /\ column' = [st \in Statuses |-> column'[st]]
        /\ \A st \in Statuses : ColumnOK(column'[st], Created)
    <3>1. removed = [st \in Statuses |-> removed[st]]
      BY DEF removed, IInv, TypeOK
    <3> QED
      BY <2>1, <2>3, <2>4, <3>1
  <2>6. TableOK' /\ Created' = Created
    BY <2>1, <2>2, <2>5, CacheSet
  <2> QED
    BY <2>1, <2>6, IdleTyped, Handled
<1> QED
  BY <1>4, <1>7, <1>8, <1>9, <1>10, <1>11

ReadStep(h) ==
  \/ ReadSelect(h) \/ ReadFilter(h) \/ ReadFill(h)
  \/ ReadMetas(h) \/ ReadFindByID(h) \/ ReadSetTaskMeta(h)

LEMMA LackingTyped ==
  ASSUME NEW C, NEW S \in SUBSET C
  PROVE  StepTyped(Lacking(S), C)
<1>1. StepTyped([at |-> "lack", ids |-> S], C)
  BY DEF StepTyped, Steps, TaskSteps, MoveSteps
<1> QED
  BY <1>1, IdleTyped DEF Lacking

LEMMA ReadColumnInv ==
  ASSUME IInv, NEW h \in Handlers, NEW st \in Statuses, NEW cursor \in Cursors, ReadColumn(h, st, cursor)
  PROVE  IInv'
<1>1. StepTyped([at |-> "select", st |-> st, cursor |-> cursor], Created)
  BY DEF StepTyped, Steps, TaskSteps, MoveSteps
<1>2. PICK page : page = Page(column[st].ids, cursor)
  OBVIOUS
<1>3. page \in SUBSET Created
  BY <1>2, NewestSubset DEF Page, IInv, OnlyCreated
<1>4. StepTyped([at |-> "metas", ids |-> page], Created)
  BY <1>3 DEF StepTyped, Steps, TaskSteps, MoveSteps
<1>5. \E q : Go(h, q) /\ StepTyped(q, Created)
  BY <1>1, <1>2, <1>4, IdleTyped DEF ReadColumn
<1> QED
  BY <1>5, OnlyGoes DEF ReadColumn

LEMMA ReadInv ==
  ASSUME IInv, NEW h \in Handlers, ReadStep(h)
  PROVE  IInv'
<1>1. StepTyped(req[h], Created) /\ Created \subseteq Tasks
  BY Held
<1>2. CASE ReadSelect(h)
  <2>1. PICK st \in Statuses : st = req[h].st
    BY <1>1, <1>2 DEF ReadSelect, At, StepTyped
  <2>2. PICK page : page = Page(InTable(st), req[h].cursor)
    OBVIOUS
  <2>3. page \subseteq InTable(st)
    BY <2>2, NewestSubset DEF Page
  <2>4. IsList(Select(page), Created)
    BY <2>3, SelectList
  <2>5. StepTyped([at |-> "filter", st |-> st, list |-> Select(page)], Created)
    BY <2>4 DEF StepTyped, Steps, TaskSteps, MoveSteps
  <2>6. \E q : Go(h, q) /\ StepTyped(q, Created)
    BY <1>2, <2>1, <2>2, <2>5 DEF ReadSelect
  <2> QED
    BY <1>2, <2>6, OnlyGoes DEF ReadSelect
<1>3. CASE ReadFilter(h) \/ ReadFill(h)
  <2>1. PICK st \in Statuses : st = req[h].st
    BY <1>1, <1>3 DEF ReadFilter, ReadFill, At, StepTyped
  <2>0. PICK list : list = req[h].list /\ IsList(list, Created)
    BY <1>1, <1>3 DEF ReadFilter, ReadFill, At, StepTyped
  <2>2. CASE ReadFilter(h)
    <3>1. IsList(Filtered(st, list), Created)
      <4>1. \A k \in DOMAIN list : k \in Created /\ k \in Tasks /\ list[k] \in Metas
        BY <1>1, <2>0 DEF IsList
      <4>2. \A k \in Tasks : meta[k] # NoMeta => meta[k] \in Metas
        BY DEF IInv, TypeOK
      <4> QED
        BY <4>1, <4>2 DEF Filtered, IsList
    <3>2. StepTyped([at |-> "fill", st |-> st, list |-> Filtered(st, list)], Created)
      BY <3>1 DEF StepTyped, Steps, TaskSteps, MoveSteps
    <3>3. \E q : Go(h, q) /\ StepTyped(q, Created)
      BY <2>0, <2>1, <2>2, <3>2 DEF ReadFilter
    <3> QED
      BY <2>2, <3>3, OnlyGoes DEF ReadFilter
  <2>3. CASE ReadFill(h)
    <3>1. TableOK' /\ Created' = Created
      BY <2>0, <2>1, <2>3, ColumnSet DEF ReadFill
    <3> QED
      BY <2>3, <3>1, IdleTyped, Handled DEF ReadFill
  <2> QED
    BY <1>3, <2>2, <2>3
<1>4. CASE ReadMetas(h) \/ ReadFindByID(h) \/ ReadSetTaskMeta(h)
  <2>1. PICK ids \in SUBSET Created : ids = req[h].ids
    BY <1>1, <1>4 DEF ReadMetas, ReadFindByID, ReadSetTaskMeta, At, StepTyped
  <2>2. CASE ReadMetas(h)
    <3>1. Missing(ids) \in SUBSET Created
      BY DEF Missing
    <3> QED
      BY <2>1, <2>2, <3>1, LackingTyped, OnlyGoes DEF ReadMetas
  <2>3. CASE ReadFindByID(h)
    <3>1. PICK k \in Newest(ids, 1) :
            Go(h, IF row[k] = NoRow THEN Lacking(ids \ {k})
                  ELSE [at |-> "complete", k |-> k, t |-> FromRow(k), ids |-> ids \ {k}])
      BY <2>1, <2>3 DEF ReadFindByID
    <3>2. k \in Created /\ k \in Tasks
      BY <1>1, NewestSubset
    <3>3. StepTyped(Lacking(ids \ {k}), Created)
      BY LackingTyped
    <3>4. row[k] # NoRow =>
            StepTyped([at |-> "complete", k |-> k, t |-> FromRow(k), ids |-> ids \ {k}], Created)
      <4>1. row[k] # NoRow => FromRow(k) \in Metas
        BY <3>2, FromRowTyped DEF IInv
      <4> QED
        BY <3>2, <4>1 DEF StepTyped, Steps, TaskSteps, MoveSteps
    <3>5. \E q : Go(h, q) /\ StepTyped(q, Created)
      BY <3>1, <3>3, <3>4
    <3> QED
      BY <2>3, <3>5, OnlyGoes DEF ReadFindByID
  <2>4. CASE ReadSetTaskMeta(h)
    <3>1. PICK k \in Created, t \in Metas : k = req[h].k /\ t = req[h].t
      BY <1>1, <2>4 DEF ReadSetTaskMeta, At, StepTyped
    <3>2. TableOK' /\ Created' = Created
      BY <2>4, <3>1, MetaSet DEF ReadSetTaskMeta
    <3> QED
      BY <2>1, <2>4, <3>2, LackingTyped, Handled DEF ReadSetTaskMeta
  <2> QED
    BY <1>4, <2>2, <2>3, <2>4
<1> QED
  BY <1>2, <1>3, <1>4 DEF ReadStep

-----------------------------------------------------------------------------
(* The worker and the expiry. *)

LEMMA ReqKept ==
  ASSUME IInv, UNCHANGED <<req, created>>
  PROVE  ReqTyped' /\ Created' = Created
  BY DEF IInv, ReqTyped, Created

LEMMA WorkerInv == IInv /\ Worker => IInv'
<1> SUFFICES ASSUME IInv, Worker PROVE IInv'
  OBVIOUS
<1>0. UNCHANGED <<mode, meta, column, req, lapsed, created, updates>>
  BY DEF Worker, cache, count
<1>1. /\ pending \in Seq(Messages) /\ pending # <<>> /\ pending' = Tail(pending)
      /\ Len(pending) \in Nat /\ Len(pending) >= 1
      /\ Len(pending') = Len(pending) - 1 /\ pending' \in Seq(Messages)
      /\ \A i \in 1 .. Len(pending') : pending'[i] = pending[i + 1]
      /\ Head(pending) = pending[1]
  BY DEF IInv, TypeOK, Worker
<1>2. PICK m \in Messages : m = pending[1]
  BY <1>1
<1>3. /\ m.k \in Tasks /\ m.k \in Created /\ m.op \in {"create", "update", "status"}
      /\ m.op = "update" => m.who \in Users
      /\ m.op = "status" => m.status \in Statuses
  <2>1. 1 \in 1 .. Len(pending)
    BY <1>1
  <2> QED
    BY <1>2, <2>1, PendingElement DEF IInv, OnlyCreated
<1>4. m.op # "create" => row[m.k] \in Rows
  <2>1. 1 \in 1 .. Len(pending)
    BY <1>1
  <2>2. m.op # "create" => row[m.k] # NoRow
    BY <1>2, <2>1 DEF IInv, CreationFirst, CreationBefore
  <2> QED
    BY <1>3, <2>2 DEF IInv, TypeOK
<1>5. Applied(m) \in Rows /\ row' = [row EXCEPT ![m.k] = Applied(m)]
  <2>1. row' = [row EXCEPT ![m.k] = Applied(m)]
    BY <1>1, <1>2 DEF Worker
  <2>2. CASE m.op = "create"
    BY <2>1, <2>2 DEF Applied, Rows
  <2>3. CASE m.op = "update"
    BY <1>3, <1>4, <2>1, <2>3, Constants DEF Applied, Rows
  <2>4. CASE m.op = "status"
    BY <1>3, <1>4, <2>1, <2>4, Constants DEF Applied, Rows
  <2> QED
    BY <1>3, <2>1, <2>2, <2>3, <2>4
<1>6. /\ row' \in [Tasks -> Rows \cup {NoRow}] /\ row'[m.k] # NoRow
      /\ \A k \in Tasks : k # m.k => row'[k] = row[k]
      /\ \A k \in Tasks : row[k] # NoRow => row'[k] # NoRow
  BY <1>3, <1>5, Constants DEF IInv, TypeOK
<1>7. TypeOK'
  BY <1>0, <1>1, <1>6 DEF IInv, TypeOK
<1>8. OnlyCreated'
  <2>1. \A i \in 1 .. Len(pending') : pending'[i].k \in Created
    BY <1>1 DEF IInv, OnlyCreated
  <2> QED
    BY <1>0, <1>3, <1>6, <2>1, ReqKept DEF IInv, OnlyCreated
<1>9. ASSUME NEW n \in 1 .. Len(pending) + 1, NEW k \in Tasks, CreationBefore(n, k)
      PROVE  CreationBefore(n - 1, k)'
  <2>1. CASE row[k] # NoRow
    BY <1>6, <2>1 DEF CreationBefore
  <2>2. ASSUME NEW i \in 1 .. n - 1, pending[i].op = "create", pending[i].k = k
        PROVE  CreationBefore(n - 1, k)'
    <3>1. CASE i = 1
      BY <1>2, <1>6, <2>2, <3>1 DEF CreationBefore
    <3>2. CASE i # 1
      <4>1. i - 1 \in 1 .. n - 2 /\ i - 1 \in 1 .. Len(pending')
        BY <1>1, <3>2
      <4>2. pending'[i - 1] = pending[i]
        BY <1>1, <4>1
      <4> QED
        BY <2>2, <4>1, <4>2 DEF CreationBefore
    <3> QED
      BY <3>1, <3>2
  <2> QED
    BY <1>9, <2>1, <2>2 DEF CreationBefore
<1>10. CreationFirst'
  <2>1. PICK n \in Nat : n = Len(pending) /\ n >= 1 /\ Len(pending') = n - 1
    BY <1>1
  <2>2. Created \subseteq Tasks
    BY CreatedAreTasks DEF IInv
  <2>3. \A k \in Created : CreationBefore(n, k)'
    <3>1. ASSUME NEW k \in Created PROVE CreationBefore(n, k)'
      <4>1. CreationBefore(n + 1, k)
        BY <2>1 DEF IInv, CreationFirst
      <4>2. CreationBefore((n + 1) - 1, k)'
        BY <1>9, <2>1, <2>2, <4>1
      <4> QED
        BY <4>2
    <3> QED
      BY <3>1
  <2>4. ASSUME NEW i \in 1 .. n - 1, pending'[i].op # "create"
        PROVE  CreationBefore(i, pending[i].k)'
    <3>1. PICK k \in Tasks : k = pending[i + 1].k /\ pending'[i] = pending[i + 1]
      <4>1. i + 1 \in 1 .. Len(pending)
        BY <2>1
      <4> QED
        BY <1>1, <2>1, <4>1, PendingElement DEF IInv
    <3>2. CreationBefore(i + 1, k)
      BY <2>1, <2>4, <3>1 DEF IInv, CreationFirst
    <3>3. CreationBefore((i + 1) - 1, k)'
      BY <1>9, <2>1, <3>2
    <3>4. CreationBefore(i, k)'
      BY <3>3
    <3> QED
      BY <3>1, <3>4 DEF CreationBefore
  <2> QED
    BY <1>0, <2>1, <2>3, <2>4, ReqKept DEF CreationFirst
<1> QED
  BY <1>0, <1>7, <1>8, <1>10, ReqKept DEF IInv

LEMMA LapseTyped ==
  ASSUME IInv, NEW tasks \in SUBSET Tasks, NEW columns \in SUBSET Statuses, Lapse(tasks, columns)
  PROVE  LapsedOK'
  BY DEF Lapse, LapsedOK, IInv, TypeOK

LEMMA ExpireInv == IInv /\ Expire => IInv'
<1>1. ASSUME IInv, NEW k \in Tasks, ExpireMeta(k) PROVE IInv'
  <2>1. /\ UNCHANGED <<mode, table, count>> /\ UNCHANGED <<req, created>> /\ column' = column
        /\ meta' = [meta EXCEPT ![k] = NoMeta]
    BY <1>1 DEF ExpireMeta, count
  <2>2. /\ meta' \in [Tasks -> Metas \cup {NoMeta}]
        /\ \A j \in Tasks : meta'[j] # NoMeta => meta[j] # NoMeta \/ j \in Created
    BY <1>1, <2>1 DEF IInv, TypeOK
  <2>3. /\ DOMAIN column' = Statuses /\ column' = [st \in Statuses |-> column'[st]]
        /\ \A st \in Statuses : ColumnOK(column'[st], Created)
    BY <1>1, <2>1, ColumnTyped DEF IInv, TypeOK
  <2>4. LapsedOK'
    BY <1>1, LapseTyped DEF ExpireMeta
  <2>5. TableOK' /\ ReqTyped'
    BY <1>1, <2>1, <2>2, <2>3, CacheSet, ReqKept
  <2> QED
    BY <2>4, <2>5 DEF IInv, TableOK, CacheOK, LapsedOK, TypeOK, Keys
<1>2. ASSUME IInv, NEW st \in Statuses, ExpireColumn(st) PROVE IInv'
  <2>1. /\ UNCHANGED <<mode, table, count>> /\ UNCHANGED <<req, created>> /\ meta' = meta
        /\ column' = [column EXCEPT ![st] = Absent]
    BY <1>2 DEF ExpireColumn, count
  <2>2. /\ meta' \in [Tasks -> Metas \cup {NoMeta}]
        /\ \A j \in Tasks : meta'[j] # NoMeta => meta[j] # NoMeta \/ j \in Created
    BY <1>2, <2>1 DEF IInv, TypeOK
  <2>3. /\ DOMAIN column' = Statuses /\ column' = [s \in Statuses |-> column'[s]]
        /\ \A s \in Statuses : ColumnOK(column'[s], Created)
    <3>1. \A s \in Statuses : ColumnOK(column[s], Created)
      BY <1>2, ColumnTyped
    <3>2. ColumnOK(Absent, Created)
      BY DEF ColumnOK, Absent, Keys
    <3>3. DOMAIN column = Statuses /\ column = [s \in Statuses |-> column[s]]
      BY <1>2 DEF IInv, TypeOK
    <3> QED
      BY <2>1, <3>1, <3>2, <3>3
  <2>4. LapsedOK'
    BY <1>2, LapseTyped DEF ExpireColumn
  <2>5. TableOK' /\ ReqTyped'
    BY <1>2, <2>1, <2>2, <2>3, CacheSet, ReqKept
  <2> QED
    BY <2>4, <2>5 DEF IInv, TableOK, CacheOK, LapsedOK, TypeOK, Keys
<1> QED
  BY <1>1, <1>2 DEF Expire

LEMMA StartInv ==
  ASSUME IInv, NEW h \in Handlers, Start(h)
  PROVE  IInv'
  BY CreateInv, BeginInv, ReadColumnInv DEF Start

LEMMA ProceedInv ==
  ASSUME IInv, NEW h \in Handlers, Proceed(h)
  PROVE  IInv'
<1>1. \/ AddTaskExists(h) \/ AddTask(h) \/ FindByID(h) \/ SetTaskMeta(h)
      \/ (\E who \in Users : UpdateFullTask(h, who)) \/ UpdateTaskMeta(h)
      \/ MoveStep(h) \/ ReadStep(h)
  BY DEF Proceed, MoveStep, ReadStep
<1> QED
  BY <1>1, AddInv, LoadInv, EditInv, MoveInv, ReadInv

LEMMA StepInv == IInv /\ [Next]_vars => IInv'
<1>1. ASSUME IInv, UNCHANGED vars PROVE IInv'
  <2>1. UNCHANGED <<mode, table, cache, created, req>> /\ UNCHANGED <<updates, lapsed>>
    BY <1>1 DEF vars, count
  <2>2. updates' \in 0 .. MaxUpdates /\ LapsedOK'
    BY <1>1, <2>1 DEF IInv, TypeOK, LapsedOK
  <2>3. TableOK' /\ ReqTyped'
    BY <1>1, <2>1, <2>2, SameState, ReqKept
  <2> QED
    BY <2>2, <2>3 DEF IInv, TableOK, CacheOK, LapsedOK, TypeOK, Keys
<1> QED
  BY <1>1, StartInv, ProceedInv, WorkerInv, ExpireInv DEF Next

LEMMA Invariant == Spec => []IInv
  BY InitInv, StepInv, PTL DEF Spec

(* The types of the table, the queue and the cache: no update is applied   *)
(* to a row that is not there, and no column is kept without members.      *)
THEOREM TypeCorrect == Spec => []TypeOK
<1>1. IInv => TypeOK
  BY DEF IInv
<1> QED
  BY <1>1, Invariant, PTL

-----------------------------------------------------------------------------
(* Unless requests overlap freely there is one at a time.                  *)

Alone ==
  mode # "free" => \A g, h \in Handlers : req[g] # Idle /\ req[h] # Idle => g = h

(* What a move has found or put in the cache stays there to its end,       *)
(* unless it is among the keys that have expired under the move.           *)
MoveReady(r) ==
  /\ r.at \in {"move"} \cup MoveSteps /\ r.k \notin lapsed.tasks => meta[r.k] # NoMeta
  /\ r.at \in {"exists", "moveExec"} /\ r.to \notin lapsed.columns
       => column[r.to].key # "absent"
  /\ r.at = "moveExec" /\ r.to \notin lapsed.columns => r.seen = TRUE

MoveGuard == mode # "free" => \A h \in Handlers : MoveReady(req[h])

Bounded == created <= MaxCreated[mode]

AInv == IInv /\ Alone /\ MoveGuard /\ Bounded

LEMMA AInit == Init => AInv
<1> SUFFICES ASSUME Init PROVE AInv
  OBVIOUS
<1>1. \A h \in Handlers : req[h] = Idle
  BY DEF Init
<1>2. created = 0 /\ mode \in Modes
  BY DEF Init
<1> QED
  BY <1>1, <1>2, InitInv DEF AInv, Alone, MoveGuard, MoveReady, Bounded, Idle, MoveSteps

(* Who takes a step, and what becomes of the other handlers. *)
LEMMA Goes ==
  ASSUME NEW h \in Handlers, Start(h) \/ Proceed(h)
  PROVE  /\ \E r : Go(h, r)
         /\ mode' = mode
         /\ req[h] # Idle \/ MayStart(h)
<1>1. CASE Start(h)
  BY <1>1 DEF Start, CreateTask, Begin, ReadColumn
<1>2. CASE Proceed(h)
  <2>1. mode' = mode /\ \E x \in Steps \ {"idle"} : At(h, x)
    BY <1>2 DEF Proceed, AddTaskExists, AddTask, FindByID, SetTaskMeta, UpdateFullTask,
                UpdateTaskMeta, UpdateTaskStatus, TargetCached, PrewarmSelect, PrewarmSet,
                MoveExists, MoveInCache, ReadSelect, ReadFilter, ReadFill, ReadMetas,
                ReadFindByID, ReadSetTaskMeta, Steps, TaskSteps, MoveSteps
  <2>2. \E r : Go(h, r)
    BY <1>2 DEF Proceed, AddTaskExists, AddTask, FindByID, SetTaskMeta, Loaded, UpdateFullTask,
                UpdateTaskMeta, UpdateTaskStatus, TargetCached, PrewarmSelect, PrewarmSet,
                MoveExists, MoveInCache, ReadSelect, ReadFilter, ReadFill, ReadMetas,
                ReadFindByID, ReadSetTaskMeta
  <2> QED
    BY <2>1, <2>2 DEF At, Idle
<1> QED
  BY <1>1, <1>2

LEMMA OthersIdle ==
  ASSUME AInv, mode # "free", NEW h \in Handlers, Start(h) \/ Proceed(h)
  PROVE  \A g \in Handlers : g # h => req'[g] = Idle /\ req[g] = Idle
<1>1. PICK r : Go(h, r)
  BY Goes
<1>2. \A g \in Handlers : g # h => req[g] = Idle
  BY Goes DEF AInv, Alone, MayStart, AllIdle
<1> QED
  BY <1>1, <1>2 DEF Go, AInv, IInv, ReqTyped

LEMMA AloneNext ==
  ASSUME AInv, NEW h \in Handlers, Start(h) \/ Proceed(h)
  PROVE  Alone'
  BY OthersIdle, Goes DEF Alone

(* What the handler of a step goes on with. *)
LEMMA GoesTo ==
  ASSUME IInv, NEW h \in Handlers, NEW r, Go(h, r)
  PROVE  req'[h] = r /\ (r.at # "idle" => lapsed' = lapsed)
  BY DEF Go, IInv, ReqTyped, Idle

LEMMA ReadyNext ==
  ASSUME AInv, mode # "free", NEW h \in Handlers, Start(h) \/ Proceed(h)
  PROVE  MoveReady(req[h])'
<1> USE DEF AInv
<1>0. StepTyped(req[h], Created) /\ Created \subseteq Tasks /\ MoveReady(req[h])
  BY Held DEF MoveGuard
<1>1. ASSUME \/ CreateTask(h) \/ AddTaskExists(h) \/ AddTask(h) \/ FindByID(h)
             \/ (\E who \in Users : UpdateFullTask(h, who)) \/ UpdateTaskMeta(h)
             \/ (\E st \in Statuses, cursor \in Cursors : ReadColumn(h, st, cursor))
             \/ ReadStep(h) \/ MoveInCache(h)
      PROVE  req'[h].at \notin {"move"} \cup MoveSteps
  <2>1. \A S : Lacking(S).at \in {"idle", "lack"}
    BY DEF Lacking, Idle
  <2> DEFINE Elsewhere == \E r : Go(h, r) /\ r.at \notin {"move"} \cup MoveSteps
  <2>2. CASE CreateTask(h) \/ AddTaskExists(h) \/ AddTask(h)
    <3>1. Elsewhere
      BY <2>2 DEF CreateTask, AddTaskExists, AddTask, Idle, MoveSteps
    <3> QED
      BY <3>1, GoesTo
  <2>3. CASE FindByID(h) \/ UpdateTaskMeta(h)
    <3>1. Elsewhere
      BY <2>3 DEF FindByID, UpdateTaskMeta, Idle, MoveSteps
    <3> QED
      BY <3>1, GoesTo
  <2>8. CASE \E who \in Users : UpdateFullTask(h, who)
    <3>1. PICK k, t : Go(h, [at |-> "write", k |-> k, t |-> t])
      BY <2>8 DEF UpdateFullTask
    <3>2. Elsewhere
      BY <3>1 DEF MoveSteps
    <3> QED
      BY <3>2, GoesTo
  <2>4. CASE \E st \in Statuses, cursor \in Cursors : ReadColumn(h, st, cursor)
    <3>1. Elsewhere
      BY <2>4 DEF ReadColumn, Idle, MoveSteps
    <3> QED
      BY <3>1, GoesTo
  <2>5. CASE ReadSelect(h) \/ ReadFilter(h) \/ ReadFill(h) \/ MoveInCache(h)
    <3>1. Elsewhere
      BY <2>5 DEF ReadSelect, ReadFilter, ReadFill, MoveInCache, Idle, MoveSteps
    <3> QED
      BY <3>1, GoesTo
  <2>6. CASE ReadMetas(h) \/ ReadSetTaskMeta(h)
    <3>1. Elsewhere
      BY <2>1, <2>6 DEF ReadMetas, ReadSetTaskMeta, MoveSteps
    <3> QED
      BY <3>1, GoesTo
  <2>7. CASE ReadFindByID(h)
    <3>1. PICK k, t, ids : Go(h, Lacking(ids)) \/ Go(h, [at |-> "complete", k |-> k, t |-> t, ids |-> ids])
      BY <2>7 DEF ReadFindByID
    <3>2. Elsewhere
      BY <2>1, <3>1 DEF MoveSteps
    <3> QED
      BY <3>2, GoesTo
  <2> QED
    BY <1>1, <2>2, <2>3, <2>4, <2>5, <2>6, <2>7, <2>8 DEF ReadStep
<1>2. ASSUME NEW k \in Tasks, NEW op \in {"edit", "move"}, Begin(h, k, op)
      PROVE  MoveReady(req[h])'
  <2>1. /\ meta' = meta
        /\ \/ meta[k] # NoMeta /\ req'[h] = [at |-> op, k |-> k, t |-> meta[k]]
           \/ req'[h] = [at |-> "find", k |-> k, op |-> op]
    BY <1>2, GoesTo DEF Begin, cache
  <2> QED
    BY <2>1 DEF MoveReady, MoveSteps
<1>3. CASE SetTaskMeta(h)
  <2>1. req[h].k \in Tasks /\ req[h].t \in Metas /\ req[h].op \in {"edit", "move"}
    BY <1>0, <1>3 DEF SetTaskMeta, At, StepTyped, TaskSteps
  <2>2. /\ meta'[req[h].k] = req[h].t
        /\ req'[h] = [at |-> req[h].op, k |-> req[h].k, t |-> req[h].t]
    BY <1>3, <2>1, GoesTo DEF SetTaskMeta, Loaded, IInv, TypeOK
  <2> QED
    BY <2>1, <2>2, Constants DEF MoveReady, MoveSteps
<1>4. ASSUME NEW to \in Statuses, UpdateTaskStatus(h, to) PROVE MoveReady(req[h])'
  <2>1. /\ meta' = meta /\ (req[h].k \notin lapsed.tasks => meta[req[h].k] # NoMeta)
        /\ req'[h] = [at |-> "target", k |-> req[h].k, from |-> req[h].t.status, to |-> to]
        /\ lapsed' = lapsed
    BY <1>0, <1>4, GoesTo DEF UpdateTaskStatus, cache, At, MoveReady
  <2> QED
    BY <2>1 DEF MoveReady, MoveSteps
<1>5. CASE TargetCached(h) \/ PrewarmSelect(h)
  <2>1. /\ meta' = meta /\ column' = column
        /\ req[h].k \notin lapsed.tasks => meta[req[h].k] # NoMeta
        /\ req'[h].k = req[h].k /\ req'[h].to = req[h].to /\ lapsed' = lapsed
        /\ req'[h].at \in {"prewarm", "prewarmSet", "exists"}
        /\ req'[h].at = "exists" => column[req[h].to].key # "absent"
    BY <1>0, <1>5, GoesTo DEF TargetCached, PrewarmSelect, Moving, cache, At, MoveReady, MoveSteps
  <2> QED
    BY <2>1 DEF MoveReady, MoveSteps
<1>6. CASE PrewarmSet(h)
  <2>1. /\ req[h].k \in Tasks /\ req[h].to \in Statuses /\ IsList(req[h].list, Created)
        /\ req[h].k \notin lapsed.tasks => meta[req[h].k] # NoMeta
    BY <1>0, <1>6 DEF PrewarmSet, At, StepTyped, TaskSteps, MoveSteps, MoveReady
  <2>2. /\ req'[h] = [at |-> "exists", k |-> req[h].k, from |-> req[h].from, to |-> req[h].to]
        /\ lapsed' = lapsed
    BY <1>6, GoesTo DEF PrewarmSet, Moving
  <2>3. req[h].k \notin lapsed.tasks => meta'[req[h].k] # NoMeta
    BY <1>6, <2>1, Constants DEF PrewarmSet, SetColumnCache, IsList
  <2>4. column'[req[h].to].key # "absent"
    BY <1>6, <2>1 DEF PrewarmSet, SetColumnCache, Fill, IInv, TypeOK
  <2> QED
    BY <2>2, <2>3, <2>4 DEF MoveReady
<1>7. CASE MoveExists(h)
  <2>1. /\ meta' = meta /\ column' = column
        /\ req[h].k \notin lapsed.tasks => meta[req[h].k] # NoMeta
        /\ req[h].to \notin lapsed.columns => column[req[h].to].key # "absent"
    BY <1>0, <1>7 DEF MoveExists, cache, At, MoveReady, MoveSteps
  <2>2. PICK seen \in BOOLEAN : seen = (column[req[h].to].key # "absent")
    OBVIOUS
  <2>3. req[h].to \notin lapsed.columns => seen = TRUE
    BY <2>1, <2>2
  <2>4. /\ req'[h] = [at |-> "moveExec", k |-> req[h].k, from |-> req[h].from, to |-> req[h].to,
                      seen |-> seen]
        /\ lapsed' = lapsed
    BY <1>7, <2>2, GoesTo DEF MoveExists
  <2> QED
    BY <2>1, <2>3, <2>4 DEF MoveReady
<1>8. ASSUME req'[h].at \notin {"move"} \cup MoveSteps PROVE MoveReady(req[h])'
  BY <1>8 DEF MoveReady, MoveSteps
<1> QED
  BY <1>1, <1>2, <1>3, <1>4, <1>5, <1>6, <1>7, <1>8 DEF Start, Proceed, ReadStep

(* What expires under a move is recorded. *)
LEMMA LapsedUnder ==
  ASSUME IInv, mode # "free", ~ AllIdle, Expire, NEW h \in Handlers, MoveReady(req[h])
  PROVE  MoveReady(req[h])'
<1>1. req' = req
  BY DEF Expire, ExpireMeta, ExpireColumn
<1>2. StepTyped(req[h], Created) /\ Created \subseteq Tasks
  BY Held
<1>3. PICK r : r = req[h]
  OBVIOUS
<1>4. /\ r.at \in {"move"} \cup MoveSteps => r.k \in Tasks
      /\ r.at \in MoveSteps => r.to \in Statuses
  BY <1>2, <1>3 DEF StepTyped, TaskSteps
<1>5. ASSUME NEW k \in Tasks, ExpireMeta(k) PROVE MoveReady(r)'
  <2>1. /\ lapsed' = [tasks |-> lapsed.tasks \cup {k}, columns |-> lapsed.columns \cup {}]
        /\ column' = column /\ meta' = [meta EXCEPT ![k] = NoMeta]
    BY <1>5 DEF ExpireMeta, Lapse
  <2>2. \A j \in Tasks : j # k => meta'[j] = meta[j]
    BY <2>1 DEF IInv, TypeOK
  <2> QED
    BY <1>3, <1>4, <2>1, <2>2 DEF MoveReady, MoveSteps
<1>6. ASSUME NEW st \in Statuses, ExpireColumn(st) PROVE MoveReady(r)'
  <2>1. /\ lapsed' = [tasks |-> lapsed.tasks \cup {}, columns |-> lapsed.columns \cup {st}]
        /\ meta' = meta /\ column' = [column EXCEPT ![st] = Absent]
    BY <1>6 DEF ExpireColumn, Lapse
  <2>2. \A to \in Statuses : to # st => column'[to] = column[to]
    BY <2>1 DEF IInv, TypeOK
  <2> QED
    BY <1>3, <1>4, <2>1, <2>2 DEF MoveReady, MoveSteps
<1> QED
  BY <1>1, <1>3, <1>5, <1>6 DEF Expire, MoveReady

LEMMA ANext == AInv /\ [Next]_vars => AInv'
<1> SUFFICES ASSUME AInv, [Next]_vars PROVE AInv'
  OBVIOUS
<1>1. IInv'
  BY StepInv DEF AInv
<1>2. CASE UNCHANGED vars
  BY <1>1, <1>2 DEF AInv, vars, cache, count, Alone, MoveGuard, MoveReady, Bounded
<1>3. ASSUME NEW h \in Handlers, Start(h) \/ Proceed(h) PROVE AInv'
  <2>1. Alone' /\ mode' = mode
    BY <1>3, AloneNext, Goes
  <2>2. MoveGuard'
    <3> SUFFICES ASSUME mode # "free", NEW g \in Handlers PROVE MoveReady(req[g])'
      BY <2>1 DEF MoveGuard
    <3>1. CASE g = h
      BY <1>3, <3>1, ReadyNext
    <3>2. CASE g # h
      <4>1. req'[g] = Idle
        BY <1>3, <3>2, OthersIdle
      <4> QED
        BY <4>1 DEF MoveReady, Idle, MoveSteps
    <3> QED
      BY <3>1, <3>2
  <2>3. Bounded'
    <3>1. created' = created \/ (created' = created + 1 /\ created < MaxCreated[mode])
      BY <1>3 DEF Start, CreateTask, Begin, ReadColumn, Proceed, AddTaskExists, AddTask, FindByID,
                  SetTaskMeta, UpdateFullTask, UpdateTaskMeta, UpdateTaskStatus, TargetCached,
                  PrewarmSelect, PrewarmSet, MoveExists, MoveInCache, ReadSelect, ReadFilter,
                  ReadFill, ReadMetas, ReadFindByID, ReadSetTaskMeta, count
    <3>2. MaxCreated[mode] \in Nat /\ created \in Nat
      BY DEF AInv, IInv, TypeOK
    <3> QED
      BY <2>1, <3>1, <3>2 DEF AInv, Bounded
  <2> QED
    BY <1>1, <2>1, <2>2, <2>3 DEF AInv
<1>4. CASE Worker
  BY <1>1, <1>4 DEF Worker, cache, count, AInv, Alone, MoveGuard, MoveReady, Bounded
<1>5. CASE Expire
  <2>1. UNCHANGED <<mode, req, created>>
    BY <1>5 DEF Expire, ExpireMeta, ExpireColumn, count
  <2>2. ASSUME mode = "free" \/ AllIdle PROVE MoveGuard'
    BY <2>1, <2>2 DEF MoveGuard, MoveReady, AllIdle, Idle, MoveSteps
  <2>3. ASSUME mode # "free", ~ AllIdle PROVE MoveGuard'
    BY <1>5, <2>1, <2>3, LapsedUnder DEF AInv, MoveGuard
  <2>4. MoveGuard'
    BY <2>1, <2>2, <2>3 DEF MoveGuard
  <2> QED
    BY <1>1, <2>1, <2>4 DEF AInv, Alone, Bounded
<1> QED
  BY <1>2, <1>3, <1>4, <1>5 DEF Next

(* A set of no more than n tasks is its own newest n. *)
LEMMA NewestAll ==
  ASSUME NEW c \in Nat, NEW S \in SUBSET (1 .. c), NEW n \in Nat, c <= n
  PROVE  Newest(S, n) = S
<1> SUFFICES ASSUME NEW k \in S PROVE Cardinality({j \in S : j > k}) < n
  BY DEF Newest
<1>1. IsFiniteSet(1 .. c) /\ Cardinality(1 .. c) = c /\ k \in 1 .. c
  BY FS_Interval
<1>2. IsFiniteSet((1 .. c) \ {k}) /\ Cardinality((1 .. c) \ {k}) = c - 1
  <2>1. PICK D : D = 1 .. c
    OBVIOUS
  <2>2. IsFiniteSet(D \ {k}) /\ Cardinality(D \ {k}) = Cardinality(D) - 1
    BY <1>1, <2>1, FS_RemoveElement
  <2> QED
    BY <1>1, <2>1, <2>2
<1>3. {j \in S : j > k} \in SUBSET ((1 .. c) \ {k})
  <2>1. \A j \in S : j > k => j \in (1 .. c) \ {k}
    BY <1>1
  <2> QED
    BY <2>1
<1>4. /\ Cardinality({j \in S : j > k}) <= c - 1
      /\ Cardinality({j \in S : j > k}) \in Nat
  BY <1>2, <1>3, FS_Subset, FS_CardinalityType
<1> QED
  BY <1>4

(* A board whose columns hold all its tasks. *)
FitsColumn == \A m \in Modes \ {"free"} : MaxCreated[m] <= Cap

(* What a move leaves in the cache. *)
LEMMA Moved ==
  ASSUME FitsColumn, AInv, mode # "free", NEW h \in Handlers, MoveInCache(h),
         req[h].k \notin lapsed.tasks, req[h].to \notin lapsed.columns
  PROVE  \A st \in Statuses : req[h].k \in Listed(st)' <=> st = req[h].to
<1> USE DEF AInv
<1>1. StepTyped(req[h], Created) /\ Created \subseteq Tasks /\ MoveReady(req[h])
  BY Held DEF MoveGuard
<1>2. PICK k \in Created, from \in Statuses, to \in Statuses :
        k = req[h].k /\ from = req[h].from /\ to = req[h].to
  BY <1>1 DEF MoveInCache, At, StepTyped, TaskSteps, MoveSteps
<1>3. meta[k] # NoMeta /\ req[h].seen = TRUE
  BY <1>1, <1>2 DEF MoveInCache, At, MoveReady, MoveSteps
<1> DEFINE removed == [column EXCEPT ![from] = Without(column[from], k)]
<1>4. /\ meta' = [meta EXCEPT ![k] = [status |-> to, who |-> meta[k].who, name |-> meta[k].name]]
      /\ column' = [removed EXCEPT ![to] = With(column[to], removed[to], k)] /\ UNCHANGED <<row, mode>>
  BY <1>2, <1>3 DEF MoveInCache, table
<1>5. DOMAIN removed = Statuses /\ \A st \in Statuses : ColumnOK(removed[st], Created)
  <2>1. DOMAIN column = Statuses
    BY DEF IInv, TypeOK
  <2>2. \A st \in Statuses : ColumnOK(column[st], Created) /\ ColumnOK(Without(column[st], k), Created)
    BY ColumnTyped, WithoutOK
  <2> QED
    BY <2>1, <2>2
<1> HIDE DEF removed
<1>6. k \in With(column[to], removed[to], k).ids /\ With(column[to], removed[to], k).key # "absent"
  <2>1. created \in Nat /\ created <= Cap /\ MaxCreated[mode] \in Nat /\ mode \in Modes
    BY DEF IInv, TypeOK, Bounded, FitsColumn
  <2>2. removed[to].ids \cup {k} \in SUBSET (1 .. created)
    BY <1>5 DEF ColumnOK, Created
  <2>3. Newest(removed[to].ids \cup {k}, Cap) = removed[to].ids \cup {k}
    BY <2>1, <2>2, NewestAll
  <2>4. With(column[to], removed[to], k).key # "absent"
    BY <1>1, <1>5, WithOK
  <2> QED
    BY <2>3, <2>4 DEF With
<1>7. meta'[k] = [status |-> to, who |-> meta[k].who, name |-> meta[k].name] /\ meta'[k] # NoMeta
  BY <1>1, <1>4 DEF IInv, TypeOK, NoMeta
<1>8. Known(k)'.status = to
  BY <1>7 DEF Known
<1>9. ASSUME NEW st \in Statuses PROVE k \in Listed(st)' <=> st = to
  <2>1. CASE st = to
    <3>1. column'[st] = With(column[to], removed[to], k)
      BY <1>4, <1>5, <2>1
    <3> QED
      BY <1>6, <1>8, <2>1, <3>1 DEF Listed
  <2>2. CASE st # to
    BY <1>7, <1>8, <2>2 DEF Listed
  <2> QED
    BY <2>1, <2>2
<1> QED
  BY <1>2, <1>9

(* A move that no other request overlaps is visible at its end: the task   *)
(* is listed in the new column and in no other one, whatever the table     *)
(* still says and whatever expires meanwhile, if it is not the task's own  *)
(* hash or the new column.                                                 *)
THEOREM MovesShown ==
  ASSUME FitsColumn
  PROVE  Spec => MoveShown
<1>1. AInv /\ [Next]_vars =>
        [\A h \in Handlers, k \in Tasks, to \in Statuses :
           /\ mode # "free" /\ MoveInCache(h) /\ req[h].k = k /\ req[h].to = to
           /\ k \notin lapsed.tasks /\ to \notin lapsed.columns
           => \A st \in Statuses : k \in Listed(st)' <=> st = to]_vars
  BY Moved
<1>2. Spec => []AInv
  BY AInit, ANext, PTL DEF Spec
<1> QED
  BY <1>1, <1>2, PTL DEF Spec, MoveShown

-----------------------------------------------------------------------------
(* The board when requests wait for the table.                             *)

(* The row of a task once the published change is applied. *)
Future(k) ==
  IF pending # <<>> /\ Head(pending).k = k THEN Applied(Head(pending)) ELSE row[k]

Alike(t, u) == t.status = u.status /\ t.who = u.who

(* The handler has still to write the hash of the task, or the column.     *)
Unlisted(r, k) == r.at \in {"add", "addExec"} \cup MoveSteps /\ r.k = k
Unwritten(r, k) == Unlisted(r, k) \/ (r.at = "write" /\ r.k = k)

HashesRight ==
  \A k \in Tasks : meta[k] # NoMeta =>
    Alike(meta[k], Future(k)) \/ \E h \in Handlers : Unwritten(req[h], k)

(* A cached column may list more than it should, which the hashes correct, *)
(* but not less, unless it was begun anew after it had expired.            *)
Whole(st) == st \in Statuses /\ column[st].key \notin {"absent", "partial"}

ColumnsComplete ==
  \A k \in Tasks : Whole(Future(k).status) =>
    k \in column[Future(k).status].ids \/ \E h \in Handlers : Unlisted(req[h], k)

ListRight(list, st, except) ==
  /\ \A j \in DOMAIN list : Alike(list[j], Future(j))
  /\ \A j \in Tasks : Future(j).status = st => j \in DOMAIN list \cup except

(* What a handler holds agrees with the row the task will have.            *)
BoardStep(r) ==
  /\ r.at \in {"add", "addExec"} => Future(r.k) = [status |-> Initial, who |-> First]
  /\ r.at = "addExec" /\ column[Initial].key # "absent" => r.seen
  /\ r.at \in {"find", "keep", "edit", "move", "select", "filter", "fill", "metas", "lack", "complete"}
       => pending = <<>>
  /\ r.at \in {"keep", "edit", "move", "write", "complete"} => Alike(r.t, Future(r.k))
  /\ r.at \in MoveSteps =>
       /\ Future(r.k).status = r.to
       /\ meta[r.k] # NoMeta => meta[r.k].who = Future(r.k).who
       /\ pending # <<>> => Head(pending).op = "status" /\ Head(pending).k = r.k
  /\ r.at = "moveExec" /\ column[r.to].key # "absent" => r.seen
  /\ r.at = "prewarmSet" => ListRight(r.list, r.to, {r.k})
  /\ r.at = "select" => r.cursor = 0
  /\ r.at \in {"filter", "fill"} => ListRight(r.list, r.st, {})

BoardInv ==
  mode = "settled" =>
    /\ Len(pending) <= 1
    /\ HashesRight /\ ColumnsComplete
    /\ \A h \in Handlers : BoardStep(req[h])

(* A board that fits a page: the first page of a missing column becomes    *)
(* the cached column.                                                      *)
FitsPage ==
  "settled" \in Modes =>
    Cursors \subseteq {0} /\ MaxCreated["settled"] <= Limit /\ MaxCreated["settled"] <= Cap

BInv == AInv /\ BoardInv

(* The one request: what holds before its step, and what is to be shown.   *)
Before(h) ==
  /\ mode = "settled" /\ Len(pending) <= 1
  /\ \A k \in Tasks : meta[k] # NoMeta => Alike(meta[k], Future(k)) \/ Unwritten(req[h], k)
  /\ \A k \in Tasks : Whole(Future(k).status) =>
       k \in column[Future(k).status].ids \/ Unlisted(req[h], k)
  /\ BoardStep(req[h])

Lands(h, r) ==
  /\ req'[h] = r /\ Len(pending') <= 1
  /\ \A k \in Tasks : meta'[k] # NoMeta => Alike(meta'[k], Future(k)') \/ Unwritten(r, k)
  /\ \A k \in Tasks : Whole(Future(k).status)' =>
       k \in column'[Future(k)'.status].ids \/ Unlisted(r, k)
  /\ BoardStep(r)'

LEMMA IdleIsDone ==
  \A k : ~ Unwritten(Idle, k) /\ ~ Unlisted(Idle, k)
  BY DEF Unwritten, Unlisted, Idle, MoveSteps

LEMMA BeforeStep ==
  ASSUME BInv, mode = "settled", NEW h \in Handlers, Start(h) \/ Proceed(h)
  PROVE  Before(h)
<1>1. \A g \in Handlers : g # h => req[g] = Idle
  BY OthersIdle DEF BInv
<1>2. /\ \A k \in Tasks : (\E g \in Handlers : Unwritten(req[g], k)) => Unwritten(req[h], k)
      /\ \A k \in Tasks : (\E g \in Handlers : Unlisted(req[g], k)) => Unlisted(req[h], k)
  BY <1>1, IdleIsDone
<1> QED
  BY <1>2 DEF BInv, BoardInv, HashesRight, ColumnsComplete, Before

LEMMA AfterStep ==
  ASSUME BInv, mode = "settled", NEW h \in Handlers, Start(h) \/ Proceed(h), NEW r, Lands(h, r)
  PROVE  BoardInv'
<1>1. \A g \in Handlers : g # h => req'[g] = Idle
  BY OthersIdle DEF BInv
<1>2. req'[h] = r
  BY DEF Lands
<1>3. HashesRight'
  BY <1>2 DEF Lands, HashesRight, Unwritten, Unlisted
<1>4. ColumnsComplete'
  BY <1>2 DEF Lands, ColumnsComplete, Unlisted, Whole
<1>5. ASSUME NEW g \in Handlers PROVE BoardStep(req[g])'
  <2>1. CASE g = h
    BY <1>2, <2>1 DEF Lands, BoardStep
  <2>2. CASE g # h
    BY <1>1, <2>2 DEF BoardStep, Idle, MoveSteps
  <2> QED
    BY <2>1, <2>2
<1> QED
  BY <1>3, <1>4, <1>5 DEF BoardInv, Lands

(* Facts about the future rows. *)
LEMMA FutureKept ==
  ASSUME UNCHANGED <<row, pending>>
  PROVE  \A k : Future(k)' = Future(k)
  BY DEF Future, Applied

LEMMA StepKept ==
  ASSUME UNCHANGED <<row, pending>>, NEW r, BoardStep(r),
         r.at \in {"addExec", "moveExec"} => column' = column,
         r.at \in MoveSteps => meta' = meta
  PROVE  BoardStep(r)'
<1>1. \A k : Future(k)' = Future(k)
  BY FutureKept
<1> QED
  BY <1>1 DEF BoardStep, ListRight, Alike

LEMMA FutureIsRow ==
  ASSUME pending = <<>>
  PROVE  \A k : Future(k) = row[k]
  BY DEF Future

LEMMA FutureTyped ==
  ASSUME IInv, NEW k \in Tasks
  PROVE  Future(k) \in Rows \cup {NoRow}
<1>1. CASE pending = <<>>
  BY <1>1 DEF Future, IInv, TypeOK
<1>2. CASE pending # <<>>
  <2>1. Len(pending) >= 1 /\ Len(pending) \in Nat /\ Head(pending) = pending[1] /\ 1 \in 1 .. Len(pending)
    BY <1>2 DEF IInv, TypeOK
  <2>2. PICK m : m = pending[1]
    OBVIOUS
  <2>3. /\ m \in Messages /\ m.op \in {"create", "update", "status"} /\ m.k \in Tasks
        /\ m.op = "update" => m.who \in Users
        /\ m.op = "status" => m.status \in Statuses
    BY <2>1, <2>2, PendingElement DEF IInv
  <2>4. m.op # "create" => row[m.k] # NoRow
    BY <2>1, <2>2 DEF IInv, CreationFirst, CreationBefore
  <2>5. m.op # "create" => row[m.k] \in Rows
    BY <2>3, <2>4 DEF IInv, TypeOK
  <2>6. Applied(m) \in Rows
    <3>1. CASE m.op = "create"
      BY <3>1 DEF Applied, Rows
    <3>2. CASE m.op = "update"
      BY <2>3, <2>5, <3>2, Constants DEF Applied, Rows
    <3>3. CASE m.op = "status"
      BY <2>3, <2>5, <3>3, Constants DEF Applied, Rows
    <3> QED
      BY <2>3, <3>1, <3>2, <3>3
  <2> QED
    BY <2>1, <2>2, <2>6 DEF Future, IInv, TypeOK
<1> QED
  BY <1>1, <1>2

(* The steps that change only what the handler holds. *)
LEMMA GoesOn ==
  ASSUME NEW h \in Handlers, Before(h), UNCHANGED <<row, pending, meta, column>>,
         NEW r, req'[h] = r, BoardStep(r),
         \A k \in Tasks : /\ Unwritten(req[h], k) => Unwritten(r, k)
                          /\ Unlisted(req[h], k) => Unlisted(r, k)
  PROVE  Lands(h, r)
<1>1. \A k : Future(k)' = Future(k)
  BY FutureKept
<1>2. BoardStep(r)'
  BY StepKept
<1> QED
  BY <1>1, <1>2 DEF Before, Lands, Whole

(* The steps that write one hash. *)
LEMMA WritesHash ==
  ASSUME TypeOK, NEW h \in Handlers, Before(h), UNCHANGED <<row, pending, column>>,
         NEW k \in Tasks, NEW t, meta' = [meta EXCEPT ![k] = t], Alike(t, Future(k)),
         NEW r, req'[h] = r, BoardStep(r), r.at \notin MoveSteps,
         \A j \in Tasks : /\ Unwritten(req[h], j) => j = k
                          /\ ~ Unlisted(req[h], j)
  PROVE  Lands(h, r)
<1>1. \A j : Future(j)' = Future(j)
  BY FutureKept
<1>2. BoardStep(r)'
  BY StepKept
<1>3. meta'[k] = t /\ \A j \in Tasks : j # k => meta'[j] = meta[j]
  BY DEF TypeOK
<1> QED
  BY <1>1, <1>2, <1>3 DEF Before, Lands, Whole

(* The steps of a request when it is the only one, and nothing is on the   *)
(* way to the table when it starts.                                        *)

LEMMA StartsQuiet ==
  ASSUME NEW h \in Handlers, mode = "settled", MayStart(h)
  PROVE  req[h] = Idle /\ pending = <<>> /\ \A k : ~ Unwritten(req[h], k) /\ ~ Unlisted(req[h], k)
  BY IdleIsDone DEF MayStart

(* The first change that is published is the future of its task.           *)
LEMMA FuturePublished ==
  ASSUME pending = <<>>, NEW m, Publish(m), row' = row
  PROVE  /\ Len(pending') = 1 /\ pending' # <<>> /\ Head(pending') = m
         /\ \A k : Future(k)' = IF m.k = k THEN Applied(m) ELSE row[k]
<1>1. pending' = <<m>>
  BY DEF Publish
<1>2. Len(pending') = 1 /\ pending' # <<>> /\ Head(pending') = m
  BY <1>1
<1>3. Applied(m)' = Applied(m)
  BY DEF Applied
<1>4. Applied(Head(pending))' = Applied(m)'
  BY <1>2 DEF Applied
<1> QED
  BY <1>2, <1>3, <1>4 DEF Future

LEMMA CreateLands ==
  ASSUME IInv, NEW h \in Handlers, Before(h), CreateTask(h)
  PROVE  \E r : Lands(h, r)
<1>1. PICK k : k = created' /\ k = created + 1
  BY DEF CreateTask
<1>2. pending = <<>> /\ \A j : ~ Unwritten(req[h], j) /\ ~ Unlisted(req[h], j)
  BY StartsQuiet DEF CreateTask, Before
<1>3. UNCHANGED <<row, meta, column>>
  BY DEF CreateTask, cache
<1>4. PICK r : r = [at |-> "add", k |-> k] /\ req'[h] = r
  BY <1>1, GoesTo DEF CreateTask
<1>5. PICK m : m = [op |-> "create", k |-> k] /\ Publish(m)
  BY <1>1 DEF CreateTask
<1>6. /\ Len(pending') = 1
      /\ \A j : Future(j)' = IF j = k THEN [status |-> Initial, who |-> First] ELSE row[j]
  <2>1. m.k = k /\ Applied(m) = [status |-> Initial, who |-> First]
    BY <1>5 DEF Applied
  <2> QED
    BY <1>2, <1>3, <1>5, <2>1, FuturePublished
<1>7. Unwritten(r, k) /\ Unlisted(r, k)
  BY <1>4 DEF Unwritten, Unlisted
<1>8. \A j : Future(j) = row[j]
  BY <1>2, FutureIsRow
<1>9. BoardStep(r)'
  BY <1>4, <1>6 DEF BoardStep, MoveSteps
<1> QED
  BY <1>2, <1>3, <1>4, <1>6, <1>7, <1>8, <1>9 DEF Before, Lands, Whole

(* A column that takes one task more keeps all it has: the board fits.  It *)
(* is whole only if it was.                                                *)
LEMMA WithAll ==
  ASSUME FitsPage, AInv, mode = "settled", NEW c, ColumnOK(c, Created), NEW k \in Created,
         NEW found, c.key \in {"absent", found.key}
  PROVE  /\ With(found, c, k).ids = c.ids \cup {k} /\ With(found, c, k).key # "absent"
         /\ With(found, c, k).key # "partial" => found.key \notin {"absent", "partial"}
<1>1. created \in Nat /\ created <= Cap /\ mode \in Modes /\ MaxCreated[mode] \in Nat
  BY DEF AInv, IInv, TypeOK, Bounded, FitsPage
<1>2. c.ids \cup {k} \in SUBSET (1 .. created)
  BY DEF ColumnOK, Created
<1>3. Newest(c.ids \cup {k}, Cap) = c.ids \cup {k}
  BY <1>1, <1>2, NewestAll
<1>4. Created \subseteq Tasks
  BY CreatedAreTasks DEF AInv, IInv
<1>5. CASE c.ids = {}
  BY <1>3, <1>4, <1>5, WithOK DEF With
<1>6. CASE c.ids # {}
  BY <1>3, <1>4, <1>6, WithOK DEF With, ColumnOK
<1> QED
  BY <1>5, <1>6

LEMMA AddLands ==
  ASSUME FitsPage, AInv, NEW h \in Handlers, Before(h), AddTaskExists(h) \/ AddTask(h)
  PROVE  \E r : Lands(h, r)
<1> USE DEF AInv
<1>1. StepTyped(req[h], Created) /\ Created \subseteq Tasks /\ BoardStep(req[h])
  BY Held DEF Before
<1>2. PICK k \in Created : k = req[h].k
  BY <1>1 DEF AddTaskExists, AddTask, At, StepTyped, TaskSteps
<1>3. Future(k) = [status |-> Initial, who |-> First]
  BY <1>1, <1>2 DEF AddTaskExists, AddTask, At, BoardStep
<1>4. CASE AddTaskExists(h)
  <2>1. PICK seen \in BOOLEAN : seen <=> column[Initial].key # "absent"
    OBVIOUS
  <2>2. seen = (column[Initial].key # "absent")
    BY <2>1
  <2>3. PICK r : r = [at |-> "addExec", k |-> k, seen |-> seen] /\ req'[h] = r
    BY <1>2, <1>4, <2>2, GoesTo DEF AddTaskExists
  <2>4. \A j : (Unwritten(req[h], j) <=> Unwritten(r, j)) /\ (Unlisted(req[h], j) <=> Unlisted(r, j))
    BY <1>2, <1>4, <2>3 DEF AddTaskExists, At, Unwritten, Unlisted, MoveSteps
  <2>5. BoardStep(r)
    BY <1>3, <2>1, <2>3 DEF BoardStep, MoveSteps
  <2>6. UNCHANGED <<row, pending, meta, column>>
    BY <1>4 DEF AddTaskExists, table, cache
  <2> QED
    BY <2>3, <2>4, <2>5, <2>6, GoesOn
<1>5. CASE AddTask(h)
  <2>1. /\ meta' = [meta EXCEPT ![k] = [status |-> Initial, who |-> First, name |-> First]]
        /\ column' = IF req[h].seen THEN [column EXCEPT ![Initial] = With(column[Initial], column[Initial], k)]
                     ELSE column
        /\ UNCHANGED <<row, pending>> /\ req'[h] = Idle
    BY <1>2, <1>5, GoesTo DEF AddTask, table
  <2>2. column[Initial].key # "absent" => req[h].seen
    BY <1>1, <1>5 DEF AddTask, At, BoardStep
  <2>3. \A j : (Unwritten(req[h], j) => j = k) /\ (Unlisted(req[h], j) => j = k)
    BY <1>2, <1>5 DEF AddTask, At, Unwritten, Unlisted, MoveSteps
  <2>4. \A j : Future(j)' = Future(j)
    BY <2>1, FutureKept
  <2>5. ASSUME NEW j \in Tasks, meta'[j] # NoMeta PROVE Alike(meta'[j], Future(j)')
    <3>1. CASE j = k
      BY <1>3, <2>1, <2>4, <3>1 DEF Alike, IInv, TypeOK
    <3>2. CASE j # k
      BY <2>1, <2>3, <2>4, <2>5, <3>2 DEF Before, IInv, TypeOK
    <3> QED
      BY <3>1, <3>2
  <2>6. ColumnOK(column[Initial], Created) /\ DOMAIN column = Statuses
    BY ColumnTyped DEF IInv, TypeOK
  <2>7. /\ With(column[Initial], column[Initial], k).ids = column[Initial].ids \cup {k}
        /\ With(column[Initial], column[Initial], k).key # "partial" => Whole(Initial)
    BY <2>6, WithAll DEF Before, Whole
  <2>8. ASSUME NEW j \in Tasks, Future(j).status \in Statuses,
               column'[Future(j).status].key \notin {"absent", "partial"}
        PROVE  j \in column'[Future(j).status].ids
    <3>1. PICK st \in Statuses : st = Future(j).status
      BY <2>8
    <3>2. CASE st = Initial
      <4>1. Whole(Initial) /\ column'[Initial].ids = column[Initial].ids \cup {k}
        BY <2>1, <2>2, <2>6, <2>7, <2>8, <3>1, <3>2 DEF Whole
      <4> QED
        BY <2>3, <3>1, <3>2, <4>1 DEF Before
    <3>3. CASE st # Initial
      <4>1. column'[st] = column[st]
        BY <2>1, <2>6, <3>3
      <4>2. j # k
        BY <1>3, <3>1, <3>3
      <4> QED
        BY <2>3, <2>8, <3>1, <4>1, <4>2 DEF Before, Whole
    <3> QED
      BY <3>2, <3>3
  <2>9. BoardStep(Idle)'
    BY DEF BoardStep, Idle, MoveSteps
  <2> QED
    BY <2>1, <2>4, <2>5, <2>8, <2>9 DEF Lands, Before, Whole
<1> QED
  BY <1>4, <1>5

LEMMA BeginLands ==
  ASSUME AInv, NEW h \in Handlers, Before(h),
         NEW k \in Tasks, NEW op \in {"edit", "move"}, Begin(h, k, op)
  PROVE  \E r : Lands(h, r)
<1>1. pending = <<>> /\ \A j : ~ Unwritten(req[h], j) /\ ~ Unlisted(req[h], j)
  BY StartsQuiet DEF Begin, Before
<1>2. UNCHANGED <<row, pending, meta, column>>
  BY DEF Begin, table, cache
<1>3. CASE meta[k] # NoMeta
  <2>1. PICK r : r = [at |-> op, k |-> k, t |-> meta[k]] /\ req'[h] = r
    BY <1>3, GoesTo DEF Begin, AInv
  <2>2. Alike(meta[k], Future(k))
    BY <1>1, <1>3 DEF Before
  <2>3. BoardStep(r)
    BY <1>1, <2>1, <2>2 DEF BoardStep, MoveSteps
  <2> QED
    BY <1>1, <1>2, <2>1, <2>3, GoesOn
<1>4. CASE meta[k] = NoMeta
  <2>1. PICK r : r = [at |-> "find", k |-> k, op |-> op] /\ req'[h] = r
    BY <1>4, GoesTo DEF Begin, AInv
  <2>2. BoardStep(r)
    BY <1>1, <2>1 DEF BoardStep, MoveSteps
  <2> QED
    BY <1>1, <1>2, <2>1, <2>2, GoesOn
<1> QED
  BY <1>3, <1>4

LEMMA LoadLands ==
  ASSUME AInv, NEW h \in Handlers, Before(h), FindByID(h) \/ SetTaskMeta(h)
  PROVE  \E r : Lands(h, r)
<1> USE DEF AInv
<1>1. StepTyped(req[h], Created) /\ Created \subseteq Tasks /\ BoardStep(req[h])
  BY Held DEF Before
<1>2. PICK k \in Created : k = req[h].k
  BY <1>1 DEF FindByID, SetTaskMeta, At, StepTyped, TaskSteps
<1>3. PICK op \in {"edit", "move"} : op = req[h].op
  BY <1>1 DEF FindByID, SetTaskMeta, At, StepTyped
<1>4. pending = <<>> /\ \A j : ~ Unwritten(req[h], j) /\ ~ Unlisted(req[h], j)
  BY <1>1 DEF FindByID, SetTaskMeta, At, BoardStep, Unwritten, Unlisted, MoveSteps
<1>5. CASE FindByID(h)
  <2>1. UNCHANGED <<row, pending, meta, column>>
    BY <1>5 DEF FindByID, table, cache
  <2>2. CASE row[k] = NoRow
    <3>1. req'[h] = Idle
      BY <1>2, <1>5, <2>2, GoesTo DEF FindByID
    <3>2. BoardStep(Idle)
      BY DEF BoardStep, Idle, MoveSteps
    <3> QED
      BY <1>4, <2>1, <3>1, <3>2, GoesOn
  <2>3. CASE row[k] # NoRow
    <3>1. PICK r : r = [at |-> "keep", k |-> k, op |-> op, t |-> FromRow(k)] /\ req'[h] = r
      BY <1>2, <1>3, <1>5, <2>3, GoesTo DEF FindByID
    <3>2. Alike(FromRow(k), Future(k))
      BY <1>4, FutureIsRow DEF Alike, FromRow
    <3>3. BoardStep(r)
      BY <1>4, <3>1, <3>2 DEF BoardStep, MoveSteps
    <3> QED
      BY <1>4, <2>1, <3>1, <3>3, GoesOn
  <2> QED
    BY <2>2, <2>3
<1>6. CASE SetTaskMeta(h)
  <2>1. PICK t : t = req[h].t /\ Alike(t, Future(k))
    BY <1>1, <1>2, <1>6 DEF SetTaskMeta, At, BoardStep
  <2>2. PICK r : r = [at |-> op, k |-> k, t |-> t] /\ req'[h] = r
    BY <1>2, <1>3, <1>6, <2>1, GoesTo DEF SetTaskMeta, Loaded
  <2>3. UNCHANGED <<row, pending, column>> /\ meta' = [meta EXCEPT ![k] = t]
    BY <1>2, <1>6, <2>1 DEF SetTaskMeta, table
  <2>4. BoardStep(r) /\ r.at \notin MoveSteps
    BY <1>4, <2>1, <2>2 DEF BoardStep, MoveSteps
  <2> QED
    BY <1>1, <1>4, <2>1, <2>2, <2>3, <2>4, WritesHash DEF IInv
<1> QED
  BY <1>5, <1>6

LEMMA EditLands ==
  ASSUME AInv, NEW h \in Handlers, Before(h),
         (\E who \in Users : UpdateFullTask(h, who)) \/ UpdateTaskMeta(h)
  PROVE  \E r : Lands(h, r)
<1> USE DEF AInv
<1>1. StepTyped(req[h], Created) /\ Created \subseteq Tasks /\ BoardStep(req[h])
  BY Held DEF Before
<1>2. PICK k \in Created : k = req[h].k
  BY <1>1 DEF UpdateFullTask, UpdateTaskMeta, At, StepTyped, TaskSteps
<1>3. PICK t : t = req[h].t /\ Alike(t, Future(k))
  BY <1>1, <1>2 DEF UpdateFullTask, UpdateTaskMeta, At, BoardStep
<1>4. ASSUME NEW who \in Users, UpdateFullTask(h, who) PROVE \E r : Lands(h, r)
  <2>1. pending = <<>> /\ \A j : ~ Unwritten(req[h], j) /\ ~ Unlisted(req[h], j)
    BY <1>1, <1>4 DEF UpdateFullTask, At, BoardStep, Unwritten, Unlisted, MoveSteps
  <2>2. PICK m : m = [op |-> "update", k |-> k, who |-> who] /\ Publish(m)
    BY <1>2, <1>4 DEF UpdateFullTask
  <2>3. PICK r : r = [at |-> "write", k |-> k, t |-> Edited(t, who)] /\ req'[h] = r
    BY <1>2, <1>3, <1>4, GoesTo DEF UpdateFullTask
  <2>4. UNCHANGED <<row, meta, column>>
    BY <1>4 DEF UpdateFullTask, cache
  <2>5. /\ Len(pending') = 1
        /\ \A j : Future(j)' = IF j = k THEN [status |-> row[k].status, who |-> who] ELSE row[j]
    <3>1. m.k = k /\ Applied(m) = [status |-> row[k].status, who |-> who]
      BY <2>2 DEF Applied
    <3> QED
      BY <2>1, <2>2, <2>4, <3>1, FuturePublished
  <2>6. \A j : Future(j) = row[j]
    BY <2>1, FutureIsRow
  <2>7. Unwritten(r, k)
    BY <2>3 DEF Unwritten
  <2>8. Edited(t, who).status = row[k].status /\ Edited(t, who).who = who
    BY <1>3, <2>6 DEF Edited, Alike
  <2>9. BoardStep(r)'
    BY <2>3, <2>5, <2>8 DEF BoardStep, Alike, MoveSteps
  <2>10. \A j \in Tasks : meta'[j] # NoMeta => Alike(meta'[j], Future(j)') \/ Unwritten(r, j)
    BY <2>1, <2>4, <2>5, <2>6, <2>7 DEF Before
  <2>11. \A j \in Tasks : Future(j)'.status = Future(j).status
    BY <2>5, <2>6
  <2>12. \A j \in Tasks : Whole(Future(j).status)' =>
            j \in column'[Future(j)'.status].ids
    BY <2>1, <2>4, <2>11 DEF Before, Whole
  <2> QED
    BY <2>3, <2>5, <2>9, <2>10, <2>12 DEF Lands
<1>5. CASE UpdateTaskMeta(h)
  <2>1. \A j : ~ Unlisted(req[h], j) /\ (Unwritten(req[h], j) => j = k)
    BY <1>2, <1>5 DEF UpdateTaskMeta, At, Unwritten, Unlisted, MoveSteps
  <2>2. UNCHANGED <<row, pending, column>> /\ meta' = [meta EXCEPT ![k] = t]
    BY <1>2, <1>3, <1>5 DEF UpdateTaskMeta, table
  <2>3. req'[h] = Idle
    BY <1>5, GoesTo DEF UpdateTaskMeta
  <2>4. BoardStep(Idle) /\ Idle.at \notin MoveSteps
    BY DEF BoardStep, Idle, MoveSteps
  <2> QED
    BY <1>1, <1>3, <2>1, <2>2, <2>3, <2>4, WritesHash DEF IInv
<1> QED
  BY <1>4, <1>5

LEMMA InTableAll ==
  ASSUME FitsPage, AInv, mode = "settled", NEW st \in Statuses
  PROVE  /\ Newest(InTable(st), Cap) = InTable(st)
         /\ Newest(InTable(st), Limit) = InTable(st)
         /\ Page(InTable(st), 0) = InTable(st)
<1>1. /\ created \in Nat /\ created <= Cap /\ created <= Limit
      /\ mode \in Modes /\ MaxCreated[mode] \in Nat
  BY DEF AInv, IInv, TypeOK, Bounded, FitsPage
<1>2. InTable(st) \in SUBSET (1 .. created)
  BY InTableCreated DEF AInv, Created
<1>3. /\ Newest(InTable(st), Cap) = InTable(st)
      /\ Newest(InTable(st), Limit) = InTable(st)
  BY <1>1, <1>2, NewestAll
<1>4. {k \in InTable(st) : 0 = 0 \/ k < 0} = InTable(st)
  OBVIOUS
<1> QED
  BY <1>3, <1>4 DEF Page

(* A column without a task keeps the others, or is gone with its last one. *)
LEMMA WithoutKeeps ==
  ASSUME NEW c, NEW k
  PROVE  /\ \A j \in c.ids : j # k => j \in Without(c, k).ids
         /\ Without(c, k).key \in {"absent", c.key}
  BY DEF Without, Absent

LEMMA MoveLands ==
  ASSUME FitsPage, AInv, NEW h \in Handlers, Before(h), MoveStep(h)
  PROVE  \E r : Lands(h, r)
<1> USE DEF AInv
<1>1. /\ StepTyped(req[h], Created) /\ Created \subseteq Tasks
      /\ BoardStep(req[h]) /\ MoveReady(req[h]) /\ mode = "settled"
  BY Held DEF Before, MoveGuard
<1>2. PICK k \in Created : k = req[h].k
  BY <1>1 DEF MoveStep, UpdateTaskStatus, TargetCached, PrewarmSelect, PrewarmSet, MoveExists,
              MoveInCache, At, StepTyped, TaskSteps, MoveSteps
<1>3. ASSUME NEW to \in Statuses, UpdateTaskStatus(h, to) PROVE \E r : Lands(h, r)
  <2>1. /\ pending = <<>>
        /\ \A j : ~ Unwritten(req[h], j) /\ ~ Unlisted(req[h], j)
    BY <1>1, <1>2, <1>3 DEF UpdateTaskStatus, At, BoardStep, MoveReady, Unwritten, Unlisted, MoveSteps
  <2>2. PICK m : m = [op |-> "status", k |-> k, status |-> to] /\ Publish(m)
    BY <1>2, <1>3 DEF UpdateTaskStatus
  <2>3. PICK r : r = [at |-> "target", k |-> k, from |-> req[h].t.status, to |-> to] /\ req'[h] = r
    BY <1>2, <1>3, GoesTo DEF UpdateTaskStatus
  <2>4. UNCHANGED <<row, meta, column>>
    BY <1>3 DEF UpdateTaskStatus, cache
  <2>5. /\ Len(pending') = 1 /\ Head(pending') = m
        /\ \A j : Future(j)' = IF j = k THEN [status |-> to, who |-> row[k].who] ELSE row[j]
    <3>1. m.k = k /\ Applied(m) = [status |-> to, who |-> row[k].who]
      BY <2>2 DEF Applied
    <3> QED
      BY <2>1, <2>2, <2>4, <3>1, FuturePublished
  <2>6. \A j : Future(j) = row[j]
    BY <2>1, FutureIsRow
  <2>7. Unwritten(r, k) /\ Unlisted(r, k)
    BY <2>3 DEF Unwritten, Unlisted, MoveSteps
  <2>8. meta[k] # NoMeta => meta[k].who = row[k].who
    BY <1>1, <2>1, <2>6 DEF Before, Alike
  <2>9. BoardStep(r)'
    BY <2>2, <2>3, <2>4, <2>5, <2>8 DEF BoardStep, MoveSteps
  <2> QED
    BY <2>1, <2>3, <2>4, <2>5, <2>6, <2>7, <2>9 DEF Before, Lands, Whole
<1>4. SUFFICES ASSUME TargetCached(h) \/ PrewarmSelect(h) \/ PrewarmSet(h) \/ MoveExists(h) \/ MoveInCache(h)
               PROVE  \E r : Lands(h, r)
  BY <1>3 DEF MoveStep
<1>5. PICK from \in Statuses, to \in Statuses : from = req[h].from /\ to = req[h].to
  BY <1>1, <1>4 DEF TargetCached, PrewarmSelect, PrewarmSet, MoveExists, MoveInCache,
                    At, StepTyped, MoveSteps
<1>6. /\ Future(k).status = to /\ (meta[k] # NoMeta => meta[k].who = Future(k).who)
      /\ pending # <<>> => Head(pending).op = "status" /\ Head(pending).k = k
      /\ \A j : (Unwritten(req[h], j) <=> j = k) /\ (Unlisted(req[h], j) <=> j = k)
  BY <1>1, <1>2, <1>4, <1>5
     DEF TargetCached, PrewarmSelect, PrewarmSet, MoveExists, MoveInCache,
         At, BoardStep, Unwritten, Unlisted, MoveSteps
<1>7. ASSUME NEW r, r.at \in MoveSteps, r.k = k, r.to = to
      PROVE  /\ Unwritten(r, k) /\ Unlisted(r, k)
             /\ r.at = "prewarmSet" /\ ListRight(r.list, to, {k}) => BoardStep(r)
             /\ r.at = "moveExec" /\ (column[to].key # "absent" => r.seen) => BoardStep(r)
             /\ r.at \notin {"prewarmSet", "moveExec"} => BoardStep(r)
  BY <1>6, <1>7 DEF BoardStep, Unwritten, Unlisted, MoveSteps
<1>8. ASSUME UNCHANGED <<table, cache>>, NEW r, r.at \in MoveSteps, r.k = k, r.to = to, req'[h] = r,
             BoardStep(r)
      PROVE  Lands(h, r)
  <2>1. UNCHANGED <<row, pending, meta, column>>
    BY <1>8 DEF table, cache
  <2>2. \A j \in Tasks : /\ Unwritten(req[h], j) => Unwritten(r, j)
                         /\ Unlisted(req[h], j) => Unlisted(r, j)
    BY <1>6, <1>7, <1>8
  <2> QED
    BY <1>8, <2>1, <2>2, GoesOn
<1>9. CASE TargetCached(h)
  <2>1. PICK r : /\ r.at \in {"prewarm", "exists"} /\ r.k = k /\ r.to = to /\ req'[h] = r
    BY <1>2, <1>5, <1>9, GoesTo DEF TargetCached, Moving
  <2>2. BoardStep(r) /\ r.at \in MoveSteps
    BY <1>7, <2>1 DEF MoveSteps
  <2> QED
    BY <1>8, <1>9, <2>1, <2>2 DEF TargetCached
<1>10. CASE MoveExists(h)
  <2>1. PICK seen \in BOOLEAN : seen = (column[to].key # "absent")
    OBVIOUS
  <2>2. PICK r : /\ r = [at |-> "moveExec", k |-> k, from |-> from, to |-> to, seen |-> seen]
                 /\ req'[h] = r
    BY <1>2, <1>5, <1>10, <2>1, GoesTo DEF MoveExists
  <2>3. BoardStep(r) /\ r.at \in MoveSteps
    <3>1. column[to].key # "absent" => seen
      BY <2>1
    <3>2. r.at = "moveExec" /\ r.k = k /\ r.to = to /\ r.seen = seen
      BY <2>2
    <3> QED
      BY <1>7, <3>1, <3>2 DEF MoveSteps
  <2> QED
    BY <1>8, <1>10, <2>2, <2>3 DEF MoveExists
<1>11. CASE PrewarmSelect(h)
  <2>1. PICK list : list = Select(InTable(to))
    OBVIOUS
  <2>2. PICK r : /\ r = [at |-> "prewarmSet", k |-> k, from |-> from, to |-> to, list |-> list]
                 /\ req'[h] = r
    BY <1>1, <1>2, <1>5, <1>11, <2>1, InTableAll, GoesTo DEF PrewarmSelect
  <2>3. ListRight(list, to, {k})
    <3>1. ASSUME NEW j \in InTable(to) PROVE Alike(FromRow(j), Future(j))
      <4>1. row[j].status = to
        BY DEF InTable
      <4>2. CASE Future(j) = row[j]
        BY <4>2 DEF Alike, FromRow
      <4>3. CASE Future(j) # row[j]
        <5>1. pending # <<>> /\ Head(pending).k = j /\ Future(j) = Applied(Head(pending))
          BY <4>3 DEF Future
        <5>2. j = k /\ Head(pending).op = "status" /\ Future(j).who = row[j].who
          BY <1>6, <5>1 DEF Applied
        <5> QED
          BY <1>6, <4>1, <5>2 DEF Alike, FromRow
      <4> QED
        BY <4>2, <4>3
    <3>2. ASSUME NEW j \in Tasks, Future(j).status = to, j # k PROVE j \in InTable(to)
      BY <1>6, <3>2 DEF Future, InTable
    <3>3. DOMAIN list = InTable(to) /\ \A j \in InTable(to) : list[j] = FromRow(j)
      BY <2>1 DEF Select
    <3> QED
      BY <3>1, <3>2, <3>3 DEF ListRight
  <2>4. BoardStep(r) /\ r.at \in MoveSteps
    BY <1>7, <2>2, <2>3 DEF MoveSteps
  <2> QED
    BY <1>8, <1>11, <2>2, <2>4 DEF PrewarmSelect
<1>12. CASE PrewarmSet(h)
  <2>1. PICK list : list = req[h].list /\ ListRight(list, to, {k})
    BY <1>1, <1>2, <1>5, <1>12 DEF PrewarmSet, At, BoardStep
  <2>2. /\ column' = [column EXCEPT ![to] = Fill(DOMAIN list)]
        /\ meta' = [j \in Tasks |-> IF j \in DOMAIN list THEN list[j] ELSE meta[j]]
        /\ UNCHANGED <<row, pending>>
    BY <1>5, <1>12, <2>1 DEF PrewarmSet, SetColumnCache, table
  <2>3. PICK r : r = [at |-> "exists", k |-> k, from |-> from, to |-> to] /\ req'[h] = r
    BY <1>2, <1>5, <1>12, GoesTo DEF PrewarmSet, Moving
  <2>4. \A j : Future(j)' = Future(j)
    BY <2>2, FutureKept
  <2>5. Unwritten(r, k) /\ Unlisted(r, k)
    BY <1>7, <2>3 DEF MoveSteps
  <2>6. ASSUME NEW j \in Tasks, meta'[j] # NoMeta, j # k PROVE Alike(meta'[j], Future(j)')
    <3>1. CASE j \in DOMAIN list
      BY <2>1, <2>2, <2>4, <3>1 DEF ListRight
    <3>2. CASE j \notin DOMAIN list
      BY <1>6, <2>2, <2>4, <2>6, <3>2 DEF Before
    <3> QED
      BY <3>1, <3>2
  <2>7. DOMAIN column = Statuses
    BY DEF IInv, TypeOK
  <2>8. ASSUME NEW j \in Tasks, j # k, Future(j).status \in Statuses,
               column'[Future(j).status].key \notin {"absent", "partial"}
        PROVE  j \in column'[Future(j).status].ids
    <3>1. CASE Future(j).status = to
      BY <2>1, <2>2, <2>7, <2>8, <3>1 DEF ListRight, Fill
    <3>2. CASE Future(j).status # to
      BY <1>6, <2>2, <2>7, <2>8, <3>2 DEF Before, Whole
    <3> QED
      BY <3>1, <3>2
  <2>9. meta'[k] # NoMeta => meta'[k].who = Future(k).who
    BY <1>1, <1>6, <2>1, <2>2 DEF ListRight, Alike
  <2>10. BoardStep(r)'
    BY <1>6, <2>2, <2>3, <2>4, <2>9 DEF BoardStep, MoveSteps
  <2> QED
    BY <2>2, <2>3, <2>4, <2>5, <2>6, <2>8, <2>10 DEF Before, Lands, Whole
<1>13. CASE MoveInCache(h)
  <2> DEFINE removed == [column EXCEPT ![from] = Without(column[from], k)]
  <2>0. column[to].key # "absent" => req[h].seen
    BY <1>1, <1>5, <1>13 DEF MoveInCache, At, BoardStep
  <2>1. /\ meta' = [meta EXCEPT ![k] = IF meta[k] = NoMeta THEN meta[k]
                        ELSE [status |-> to, who |-> meta[k].who, name |-> meta[k].name]]
        /\ column' = IF req[h].seen THEN [removed EXCEPT ![to] = With(column[to], removed[to], k)]
                     ELSE removed
        /\ UNCHANGED <<row, pending>> /\ req'[h] = Idle
    BY <1>2, <1>5, <1>13, GoesTo DEF MoveInCache, table
  <2>2. DOMAIN column = Statuses /\ DOMAIN removed = Statuses
    BY DEF IInv, TypeOK
  <2>3. /\ \A st \in Statuses : ColumnOK(removed[st], Created)
        /\ \A st \in Statuses, j \in Tasks : j \in column[st].ids /\ j # k => j \in removed[st].ids
        /\ \A st \in Statuses : removed[st].key \in {"absent", column[st].key}
    <3>1. \A st \in Statuses : ColumnOK(column[st], Created) /\ ColumnOK(Without(column[st], k), Created)
      BY ColumnTyped, WithoutOK
    <3> QED
      BY <2>2, <3>1, WithoutKeeps
  <2> HIDE DEF removed
  <2>4. /\ With(column[to], removed[to], k).ids = removed[to].ids \cup {k}
        /\ With(column[to], removed[to], k).key # "partial" => Whole(to)
    BY <1>1, <2>3, WithAll DEF Whole
  <2>5. \A j : Future(j)' = Future(j)
    BY <2>1, FutureKept
  <2>6. ASSUME NEW j \in Tasks, meta'[j] # NoMeta PROVE Alike(meta'[j], Future(j)')
    <3>1. CASE j = k
      <4>1. meta[k] # NoMeta
        BY <2>1, <2>6, <3>1 DEF IInv, TypeOK
      <4>2. meta'[k] = [status |-> to, who |-> meta[k].who, name |-> meta[k].name]
        BY <1>1, <2>1, <4>1 DEF IInv, TypeOK
      <4> QED
        BY <1>6, <2>5, <3>1, <4>1, <4>2 DEF Alike
    <3>2. CASE j # k
      BY <1>6, <2>1, <2>5, <2>6, <3>2 DEF Before, IInv, TypeOK
    <3> QED
      BY <3>1, <3>2
  <2>7. ASSUME NEW j \in Tasks, Future(j).status \in Statuses,
               column'[Future(j).status].key \notin {"absent", "partial"}
        PROVE  j \in column'[Future(j).status].ids
    <3>1. PICK st \in Statuses : st = Future(j).status
      BY <2>7
    <3>0. ASSUME st = to PROVE req[h].seen
      <4>1. CASE column'[to] = removed[to]
        BY <2>0, <2>3, <2>7, <3>0, <3>1, <4>1
      <4> QED
        BY <2>1, <4>1
    <3>2. CASE j = k
      BY <1>6, <2>1, <2>2, <2>4, <3>0, <3>1, <3>2
    <3>3. CASE j # k /\ st = to
      <4>1. Whole(to)
        BY <2>1, <2>2, <2>4, <2>7, <3>0, <3>1, <3>3
      <4>2. j \in column[to].ids
        BY <1>6, <3>1, <3>3, <4>1 DEF Before
      <4> QED
        BY <2>1, <2>2, <2>3, <2>4, <3>0, <3>1, <3>3, <4>2
    <3>4. CASE j # k /\ st # to
      <4>1. column'[st] = removed[st]
        BY <2>1, <2>2, <3>4
      <4>2. j \in column[st].ids
        BY <1>6, <2>3, <2>7, <3>1, <3>4, <4>1 DEF Before, Whole
      <4> QED
        BY <2>3, <3>1, <3>4, <4>1, <4>2
    <3> QED
      BY <3>2, <3>3, <3>4
  <2>8. BoardStep(Idle)'
    BY DEF BoardStep, Idle, MoveSteps
  <2> QED
    BY <2>1, <2>5, <2>6, <2>7, <2>8 DEF Lands, Before, Whole
<1> QED
  BY <1>4, <1>9, <1>10, <1>11, <1>12, <1>13

(* A read asks nothing of the columns and hashes that its step would break. *)
LEMMA ReadGoesOn ==
  ASSUME NEW h \in Handlers, Before(h), UNCHANGED <<table, cache>>,
         \A j : ~ Unwritten(req[h], j) /\ ~ Unlisted(req[h], j),
         NEW r, req'[h] = r, BoardStep(r)
  PROVE  Lands(h, r)
<1>1. UNCHANGED <<row, pending, meta, column>>
  BY DEF table, cache
<1> QED
  BY <1>1, GoesOn

LEMMA LackingStep ==
  ASSUME pending = <<>>, NEW ids
  PROVE  BoardStep(Lacking(ids)) /\ Lacking(ids).at \notin MoveSteps
  BY DEF BoardStep, Lacking, Idle, MoveSteps

LEMMA ReadColumnLands ==
  ASSUME FitsPage, AInv, NEW h \in Handlers, Before(h),
         NEW st \in Statuses, NEW cursor \in Cursors, ReadColumn(h, st, cursor)
  PROVE  \E r : Lands(h, r)
<1>1. pending = <<>> /\ \A j : ~ Unwritten(req[h], j) /\ ~ Unlisted(req[h], j)
  BY StartsQuiet DEF ReadColumn, Before
<1>2. cursor = 0
  BY DEF FitsPage, Before, AInv, IInv, TypeOK
<1>3. PICK r : /\ Go(h, r)
               /\ \/ r = [at |-> "select", st |-> st, cursor |-> cursor]
                  \/ r = Idle
                  \/ \E page : r = [at |-> "metas", ids |-> page]
  BY DEF ReadColumn
<1>4. BoardStep(r)
  BY <1>1, <1>2, <1>3 DEF BoardStep, Idle, MoveSteps
<1>5. req'[h] = r /\ UNCHANGED <<table, cache>>
  BY <1>3, GoesTo DEF AInv, ReadColumn
<1> QED
  BY <1>1, <1>4, <1>5, ReadGoesOn

LEMMA ReadLands ==
  ASSUME FitsPage, AInv, NEW h \in Handlers, Before(h), ReadStep(h)
  PROVE  \E r : Lands(h, r)
<1> USE DEF AInv
<1>1. /\ StepTyped(req[h], Created) /\ Created \subseteq Tasks
      /\ BoardStep(req[h]) /\ mode = "settled"
  BY Held DEF Before
<1>2. pending = <<>> /\ \A j : ~ Unwritten(req[h], j) /\ ~ Unlisted(req[h], j)
  BY <1>1 DEF ReadStep, ReadSelect, ReadFilter, ReadFill, ReadMetas, ReadFindByID, ReadSetTaskMeta,
              At, BoardStep, Unwritten, Unlisted, MoveSteps
<1>3. \A j : Future(j) = row[j]
  BY <1>2, FutureIsRow
<1>4. CASE ReadSelect(h)
  <2>1. PICK st \in Statuses : st = req[h].st /\ req[h].cursor = 0
    BY <1>1, <1>4 DEF ReadSelect, At, StepTyped, BoardStep
  <2>2. PICK list : list = Select(InTable(st))
    OBVIOUS
  <2>3. PICK r : r = [at |-> "filter", st |-> st, list |-> list] /\ req'[h] = r
    BY <1>1, <1>4, <2>1, <2>2, InTableAll, GoesTo DEF ReadSelect
  <2>4. ListRight(list, st, {})
    BY <1>3, <2>2 DEF ListRight, Select, InTable, FromRow, Alike
  <2>5. BoardStep(r)
    BY <1>2, <2>3, <2>4 DEF BoardStep, MoveSteps
  <2> QED
    BY <1>2, <1>4, <2>3, <2>5, ReadGoesOn DEF ReadSelect
<1>5. CASE ReadFilter(h)
  <2>1. PICK st \in Statuses : st = req[h].st
    BY <1>1, <1>5 DEF ReadFilter, At, StepTyped
  <2>2. PICK list : list = req[h].list /\ ListRight(list, st, {}) /\ IsList(list, Created)
    BY <1>1, <1>5, <2>1 DEF ReadFilter, At, StepTyped, BoardStep
  <2>3. PICK new : new = Filtered(st, list)
    OBVIOUS
  <2>4. PICK r : r = [at |-> "fill", st |-> st, list |-> new] /\ req'[h] = r
    BY <1>5, <2>1, <2>2, <2>3, GoesTo DEF ReadFilter
  <2>5. \A j \in Tasks : meta[j] # NoMeta => Alike(meta[j], Future(j))
    BY <1>2 DEF Before
  <2>6. DOMAIN list \subseteq Tasks
    BY <1>1, <2>2 DEF IsList
  <2>7. ListRight(new, st, {})
    BY <2>2, <2>3, <2>5, <2>6 DEF ListRight, Filtered, Alike
  <2>8. BoardStep(r)
    BY <1>2, <2>4, <2>7 DEF BoardStep, MoveSteps
  <2> QED
    BY <1>2, <1>5, <2>4, <2>8, ReadGoesOn DEF ReadFilter
<1>6. CASE ReadFill(h)
  <2>1. PICK st \in Statuses : st = req[h].st
    BY <1>1, <1>6 DEF ReadFill, At, StepTyped
  <2>2. PICK list : list = req[h].list /\ ListRight(list, st, {})
    BY <1>1, <1>6, <2>1 DEF ReadFill, At, BoardStep
  <2>3. /\ column' = [column EXCEPT ![st] = Fill(DOMAIN list)]
        /\ meta' = [j \in Tasks |-> IF j \in DOMAIN list THEN list[j] ELSE meta[j]]
        /\ UNCHANGED <<row, pending>>
    BY <1>6, <2>1, <2>2 DEF ReadFill, SetColumnCache, table
  <2>4. req'[h] = Idle
    BY <1>6, GoesTo DEF ReadFill
  <2>5. \A j : Future(j)' = Future(j)
    BY <2>3, FutureKept
  <2>6. \A j \in Tasks : meta'[j] # NoMeta => Alike(meta'[j], Future(j)')
    BY <1>2, <2>2, <2>3, <2>5 DEF Before, ListRight
  <2>7. DOMAIN column = Statuses
    BY DEF IInv, TypeOK
  <2>8. ASSUME NEW j \in Tasks, Future(j).status \in Statuses,
               column'[Future(j).status].key \notin {"absent", "partial"}
        PROVE  j \in column'[Future(j).status].ids
    <3>1. CASE Future(j).status = st
      BY <2>2, <2>3, <2>7, <3>1 DEF ListRight, Fill
    <3>2. CASE Future(j).status # st
      BY <1>2, <2>3, <2>7, <2>8, <3>2 DEF Before, Whole
    <3> QED
      BY <3>1, <3>2
  <2>9. BoardStep(Idle)'
    BY DEF BoardStep, Idle, MoveSteps
  <2> QED
    BY <2>3, <2>4, <2>5, <2>6, <2>8, <2>9 DEF Before, Lands, Whole
<1>7. CASE ReadMetas(h)
  <2>1. PICK ids : Go(h, Lacking(ids))
    BY <1>7 DEF ReadMetas
  <2>2. req'[h] = Lacking(ids)
    BY <2>1, GoesTo
  <2> QED
    BY <1>2, <1>7, <2>2, LackingStep, ReadGoesOn DEF ReadMetas
<1>8. CASE ReadFindByID(h)
  <2>1. PICK k, ids, r :
          /\ Go(h, r)
          /\ \/ r = Lacking(ids)
             \/ r = [at |-> "complete", k |-> k, t |-> FromRow(k), ids |-> ids]
    BY <1>8 DEF ReadFindByID
  <2>2. Alike(FromRow(k), Future(k))
    BY <1>3 DEF FromRow, Alike
  <2>3. BoardStep([at |-> "complete", k |-> k, t |-> FromRow(k), ids |-> ids])
    BY <1>2, <2>2 DEF BoardStep, MoveSteps
  <2>4. BoardStep(r)
    BY <1>2, <2>1, <2>3, LackingStep
  <2>5. req'[h] = r
    BY <2>1, GoesTo
  <2> QED
    BY <1>2, <1>8, <2>4, <2>5, ReadGoesOn DEF ReadFindByID
<1>9. CASE ReadSetTaskMeta(h)
  <2>1. PICK k \in Tasks : k = req[h].k
    BY <1>1, <1>9 DEF ReadSetTaskMeta, At, StepTyped
  <2>2. PICK t : t = req[h].t /\ Alike(t, Future(k))
    BY <1>1, <1>9, <2>1 DEF ReadSetTaskMeta, At, BoardStep
  <2>3. PICK r : \E ids : r = Lacking(ids) /\ req'[h] = r
    BY <1>9, GoesTo DEF ReadSetTaskMeta
  <2>4. BoardStep(r) /\ r.at \notin MoveSteps /\ req'[h] = r
    BY <1>2, <2>3, LackingStep
  <2>5. UNCHANGED <<row, pending, column>> /\ meta' = [meta EXCEPT ![k] = t]
    BY <1>9, <2>1, <2>2 DEF ReadSetTaskMeta, table
  <2> QED
    BY <1>2, <2>1, <2>2, <2>4, <2>5, WritesHash DEF IInv
<1> QED
  BY <1>4, <1>5, <1>6, <1>7, <1>8, <1>9 DEF ReadStep

LEMMA SettledNext ==
  ASSUME FitsPage, BInv, mode = "settled", NEW h \in Handlers, Start(h) \/ Proceed(h)
  PROVE  BoardInv'
<1>1. Before(h)
  BY BeforeStep
<1>2. \/ CreateTask(h) \/ (\E k \in Tasks, op \in {"edit", "move"} : Begin(h, k, op))
      \/ (\E st \in Statuses, cursor \in Cursors : ReadColumn(h, st, cursor))
      \/ AddTaskExists(h) \/ AddTask(h) \/ FindByID(h) \/ SetTaskMeta(h)
      \/ (\E who \in Users : UpdateFullTask(h, who)) \/ UpdateTaskMeta(h)
      \/ MoveStep(h) \/ ReadStep(h)
  BY DEF Start, Proceed, MoveStep, ReadStep
<1>3. \E r : Lands(h, r)
  <2>0. AInv /\ IInv
    BY DEF BInv, AInv
  <2>1. CASE CreateTask(h)
    BY <1>1, <2>0, <2>1, CreateLands
  <2>2. CASE \E k \in Tasks, op \in {"edit", "move"} : Begin(h, k, op)
    BY <1>1, <2>0, <2>2, BeginLands
  <2>3. CASE \E st \in Statuses, cursor \in Cursors : ReadColumn(h, st, cursor)
    BY <1>1, <2>0, <2>3, ReadColumnLands
  <2>4. CASE AddTaskExists(h) \/ AddTask(h)
    BY <1>1, <2>0, <2>4, AddLands
  <2>5. CASE FindByID(h) \/ SetTaskMeta(h)
    BY <1>1, <2>0, <2>5, LoadLands
  <2>6. CASE (\E who \in Users : UpdateFullTask(h, who)) \/ UpdateTaskMeta(h)
    BY <1>1, <2>0, <2>6, EditLands
  <2>7. CASE MoveStep(h)
    BY <1>1, <2>0, <2>7, MoveLands
  <2>8. CASE ReadStep(h)
    BY <1>1, <2>0, <2>8, ReadLands
  <2> QED
    BY <1>2, <2>1, <2>2, <2>3, <2>4, <2>5, <2>6, <2>7, <2>8
<1> QED
  BY <1>3, AfterStep

(* The worker brings the rows to their future. *)
LEMMA WorkerSettled ==
  ASSUME BInv, mode = "settled", Worker
  PROVE  BoardInv'
<1>1. Len(pending) <= 1 /\ pending \in Seq(Messages) /\ pending # <<>>
  BY DEF BInv, AInv, IInv, TypeOK, BoardInv, Worker
<1>2. PICK m \in Messages : m = Head(pending) /\ m.k \in Tasks
  <2>1. 1 \in 1 .. Len(pending) /\ Head(pending) = pending[1]
    BY <1>1
  <2> QED
    BY <2>1, PendingElement DEF BInv, AInv, IInv
<1>3. pending' = <<>> /\ row' = [row EXCEPT ![m.k] = Applied(m)]
  BY <1>1, <1>2 DEF Worker
<1>4. UNCHANGED <<mode, meta, column, req>>
  BY DEF Worker, cache
<1>5. \A k \in Tasks : Future(k)' = Future(k)
  BY <1>1, <1>2, <1>3 DEF Future, BInv, AInv, IInv, TypeOK
<1>6. HashesRight' /\ ColumnsComplete'
  BY <1>4, <1>5 DEF BInv, BoardInv, HashesRight, ColumnsComplete, Whole
<1>7. ASSUME NEW g \in Handlers PROVE BoardStep(req[g])'
  <2>1. PICK r : r = req[g]
    OBVIOUS
  <2>2. BoardStep(r) /\ StepTyped(r, Created) /\ Created \subseteq Tasks
    BY <2>1, Held DEF BInv, AInv, BoardInv
  <2>3. r.at \in TaskSteps \cup {"complete"} => r.k \in Tasks
    BY <2>2 DEF StepTyped
  <2>4. r.at \in {"prewarmSet", "filter", "fill"} => DOMAIN r.list \subseteq Tasks
    BY <2>2 DEF StepTyped, IsList
  <2>5. BoardStep(r)'
    BY <1>3, <1>4, <1>5, <2>2, <2>3, <2>4 DEF BoardStep, ListRight, Alike, TaskSteps, MoveSteps
  <2> QED
    BY <1>4, <2>1, <2>5 DEF BoardStep
<1> QED
  BY <1>3, <1>4, <1>6, <1>7 DEF BoardInv

LEMMA ExpireSettled ==
  ASSUME BInv, mode = "settled", Expire
  PROVE  BoardInv'
<1>1. UNCHANGED <<mode, row, pending, req>>
  BY DEF Expire, ExpireMeta, ExpireColumn, table
<1>2. \A k : Future(k)' = Future(k)
  BY <1>1, FutureKept
<1>3. /\ \A k \in Tasks : meta'[k] # NoMeta => meta'[k] = meta[k]
      /\ \A st \in Statuses : column'[st].key # "absent" => column'[st] = column[st]
  <2>1. ASSUME NEW k \in Tasks, ExpireMeta(k) PROVE <1>3!1 /\ <1>3!2
    BY <2>1 DEF ExpireMeta, BInv, AInv, IInv, TypeOK
  <2>2. ASSUME NEW st \in Statuses, ExpireColumn(st) PROVE <1>3!1 /\ <1>3!2
    BY <2>2 DEF ExpireColumn, Absent, BInv, AInv, IInv, TypeOK
  <2> QED
    BY <2>1, <2>2 DEF Expire
<1>4. ASSUME NEW h \in Handlers PROVE BoardStep(req[h])'
  <2>1. PICK r : r = req[h]
    OBVIOUS
  <2>2. BoardStep(r) /\ StepTyped(r, Created) /\ Created \subseteq Tasks
    BY <2>1, Held DEF BInv, AInv, BoardInv
  <2>3. /\ r.at \in TaskSteps => r.k \in Tasks
        /\ r.at \in MoveSteps => r.to \in Statuses
    BY <2>2 DEF StepTyped
  <2>4. BoardStep(r)'
    BY <1>1, <1>2, <1>3, <2>2, <2>3 DEF BoardStep, ListRight, Alike, TaskSteps, MoveSteps
  <2> QED
    BY <1>1, <2>1, <2>4 DEF BoardStep
<1>5. HashesRight'
  BY <1>1, <1>2, <1>3 DEF BInv, BoardInv, HashesRight, Unwritten, Unlisted
<1>6. ColumnsComplete'
  BY <1>1, <1>2, <1>3 DEF BInv, BoardInv, ColumnsComplete, Whole, Unlisted
<1> QED
  BY <1>1, <1>4, <1>5, <1>6 DEF BInv, BoardInv

LEMMA BInit == Init => BInv
<1> SUFFICES ASSUME Init PROVE BInv
  OBVIOUS
<1>1. /\ \A h \in Handlers : req[h] = Idle
      /\ pending = <<>> /\ Len(pending) <= 1
      /\ \A k \in Tasks : meta[k] = NoMeta
      /\ \A st \in Statuses : column[st].key = "absent"
  BY DEF Init, Absent
<1>2. \A h \in Handlers : BoardStep(req[h])
  BY <1>1 DEF BoardStep, Idle, MoveSteps
<1> QED
  BY <1>1, <1>2, AInit DEF BInv, BoardInv, HashesRight, ColumnsComplete, Whole

LEMMA BNext ==
  ASSUME FitsPage
  PROVE  BInv /\ [Next]_vars => BInv'
<1> SUFFICES ASSUME BInv, [Next]_vars PROVE BInv'
  OBVIOUS
<1>1. AInv'
  BY ANext DEF BInv
<1>2. mode' = mode
  BY Goes DEF Next, vars, Worker, Expire, ExpireMeta, ExpireColumn
<1>3. ASSUME mode = "settled" PROVE BoardInv'
  <2>1. CASE UNCHANGED vars
    <3>1. UNCHANGED <<row, pending, meta, column, req>>
      BY <2>1 DEF vars, table, cache
    <3>2. \A k : Future(k)' = Future(k)
      BY <3>1, FutureKept
    <3>3. HashesRight'
      BY <1>3, <3>1, <3>2 DEF BInv, BoardInv, HashesRight, Unwritten, Unlisted
    <3>4. ColumnsComplete'
      BY <1>3, <3>1, <3>2 DEF BInv, BoardInv, ColumnsComplete, Whole, Unlisted
    <3>5. ASSUME NEW h \in Handlers PROVE BoardStep(req[h])'
      <4>1. PICK r : r = req[h]
        OBVIOUS
      <4>2. BoardStep(r)
        BY <1>3, <4>1 DEF BInv, BoardInv
      <4>3. BoardStep(r)'
        BY <3>1, <4>2, StepKept
      <4>4. req'[h] = r
        BY <3>1, <4>1
      <4> QED
        BY <4>3, <4>4 DEF BoardStep, ListRight, Future, Applied
    <3> QED
      BY <1>3, <3>1, <3>3, <3>4, <3>5 DEF BInv, BoardInv
  <2>2. CASE \E h \in Handlers : Start(h) \/ Proceed(h)
    BY <1>3, <2>2, SettledNext
  <2>3. CASE Worker
    BY <1>3, <2>3, WorkerSettled
  <2>4. CASE Expire
    BY <1>3, <2>4, ExpireSettled
  <2> QED
    BY <2>1, <2>2, <2>3, <2>4 DEF Next
<1>4. mode # "settled" => BoardInv'
  BY <1>2 DEF BoardInv
<1> QED
  BY <1>1, <1>3, <1>4 DEF BInv

(* A quiet board whose requests waited for the table shows every task in   *)
(* the column of its row, with the assignee of its row, whatever mixture   *)
(* of cached, completed and expired columns and hashes it is read from: if *)
(* it fits a page.  A column begun anew after it had expired under a       *)
(* request shows no other task, but not all of its own.                    *)
THEOREM BoardShowsTable ==
  ASSUME FitsPage
  PROVE  Spec => []BoardMatches
<1>1. BInv => BoardMatches
  <2> SUFFICES ASSUME BInv, mode = "settled", AllIdle, pending = <<>> PROVE Accurate
    BY DEF BoardMatches, Quiet
  <2>1. \A k : Future(k) = row[k]
    BY FutureIsRow
  <2>2. \A h \in Handlers, k \in Tasks : ~ Unwritten(req[h], k) /\ ~ Unlisted(req[h], k)
    BY IdleIsDone DEF AllIdle
  <2>3. \A k \in Tasks : meta[k] # NoMeta => Alike(meta[k], row[k])
    BY <2>1, <2>2 DEF BInv, BoardInv, HashesRight
  <2>4. \A k \in Tasks : Whole(row[k].status) =>
          k \in column[row[k].status].ids
    BY <2>1, <2>2 DEF BInv, BoardInv, ColumnsComplete
  <2>5. \A k \in Tasks : Known(k).status = row[k].status
    BY <2>3 DEF Known, FromRow, Alike
  <2>6. ASSUME NEW st \in Statuses
        PROVE  /\ Listed(st) \subseteq InTable(st)
               /\ column[st].key # "partial" => InTable(st) \subseteq Listed(st)
    <3>1. CASE column[st].key = "absent"
      <4>1. Newest(InTable(st), Limit) = InTable(st)
        BY InTableAll DEF BInv
      <4>2. \A k \in InTable(st) : meta[k] = NoMeta \/ meta[k].status = st
        BY <2>3 DEF InTable, Alike
      <4> QED
        BY <3>1, <4>1, <4>2 DEF Listed
    <3>2. CASE column[st].key # "absent"
      <4>1. column[st].ids \subseteq Tasks
        BY DEF BInv, AInv, IInv, TypeOK
      <4> QED
        BY <2>4, <2>5, <3>2, <4>1 DEF Listed, InTable, Whole
    <3> QED
      BY <3>1, <3>2
  <2> QED
    BY <2>3, <2>6 DEF Accurate, Alike
<1> QED
  BY <1>1, BInit, BNext, PTL DEF Spec
=============================================================================
