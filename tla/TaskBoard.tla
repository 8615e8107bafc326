----------------------------- MODULE TaskBoard -----------------------------
(***************************************************************************)
(* The task board of one project: the handlers of the task API over the    *)
(* Redis cache (a hash per task, a sorted set per column) and a table that *)
(* lags behind what the API publishes.  Each call a handler makes to       *)
(* Redis, PostgreSQL or Kafka is a step; a call that only reads the key    *)
(* the one before it has tested (EXISTS, then ZREVRANGE) is one with it.   *)
(*                                                                         *)
(* The worker applies what is published in order; TaskPipeline says when   *)
(* it does not.  Access has been granted.  Task identifiers are numbers,   *)
(* since UUIDv7 orders them by creation.                                   *)
(***************************************************************************)
EXTENDS Integers, Sequences, FiniteSets

CONSTANTS
  N,          \* tasks that may be created
  Statuses,   \* the board's columns
  Initial,    \* the one CreateTask uses, "TODO"
  Users,
  First,      \* the assignee of a new task
  Requests,   \* requests that may be under way at once
  Modes,      \* how they may overlap, see MayStart
  Limit,      \* tasks on a page
  Cursors,    \* cursors clients send; 0 is none
  Cap,        \* entries a column keeps and prewarming reads, 100 in the code
  MaxCreated, \* bound: tasks created, per mode
  MaxUpdates, \* bound: requests for a full or a status update
  MaxWrites   \* bound: creations and updates together

Tasks == 1 .. N
Handlers == 1 .. Requests

ASSUME StatusAssumption == Initial \in Statuses /\ "none" \notin Statuses
ASSUME UserAssumption == First \in Users
ASSUME ModeAssumption == Modes \subseteq {"settled", "lagging", "free"}
ASSUME PageAssumption == Limit \in Nat \ {0} /\ Cap \in Nat \ {0} /\ Cursors \subseteq 0 .. N
ASSUME BoundsAssumption == /\ N \in Nat /\ Requests \in Nat
                           /\ MaxUpdates \in Nat /\ MaxWrites \in Nat
                           /\ MaxCreated \in [Modes -> 0 .. N]

VARIABLES
  mode,     \* how requests overlap in this behaviour
  row,      \* row[k]: the row of task k, NoRow before its insert
  pending,  \* published changes the worker has not applied yet
  meta,     \* meta[k]: the hash task:<k>:data, NoMeta when missing
  column,   \* column[st]: the sorted set project:<p>:col:<st>
  req,      \* req[h]: what handler h is doing
  lapsed,   \* history: the keys that have expired under the request under
            \* way, when requests do not overlap
  created,  \* tasks created
  updates   \* requests for an update

cache == <<meta, column>>
table == <<row, pending>>
count == <<created, updates>>
vars  == <<mode, table, cache, req, lapsed, count>>

NoRow  == [status |-> "none", who |-> "none"]
NoMeta == [status |-> "none", who |-> "none", name |-> "none"]

(* What the query returns: it joins the assignee's name, which is the      *)
(* user here.                                                              *)
FromRow(k) == [status |-> row[k].status, who |-> row[k].who, name |-> row[k].who]

(* Hashes and table rows as functions over the tasks asked for. *)
Select(S) == [k \in S |-> FromRow(k)]
Missing(S) == {k \in S : meta[k] = NoMeta}

Newest(S, n) == {k \in S : Cardinality({j \in S : j > k}) < n}
Page(S, cursor) == Newest({k \in S : cursor = 0 \/ k < cursor}, Limit)
InTable(st) == {k \in Tasks : row[k].status = st}

-----------------------------------------------------------------------------
(* Columns.  A key that loses its last member is gone, and with it its     *)
(* expiry.  An empty column is cached as the single member "__empty__".    *)
(* The key "partial" is history: a "lasting" column that does not hold all *)
(* of the column, see With.                                                *)

Absent  == [key |-> "absent", ids |-> {}]
Fill(S) == [key |-> "expiring", ids |-> S]

(* Mistake: a sorted set without members is taken to exist. *)
WithoutKeepingKey(c, k) == [key |-> c.key, ids |-> c.ids \ {k}]

(* ZREM *)
Without(c, k) ==
  IF c.ids = {k} THEN Absent ELSE [key |-> c.key, ids |-> c.ids \ {k}]

(* ZREM "__empty__", ZADD, ZREMRANGEBYRANK; no EXPIRE follows, so a key    *)
(* these commands create never expires.  If the transaction has found no   *)
(* key, because it has expired since EXISTS, the ZADD begins the column    *)
(* anew, without the tasks it had.                                         *)
With(found, c, k) ==
  IF c.ids # {} THEN [key |-> c.key, ids |-> Newest(c.ids \cup {k}, Cap)]
  ELSE [key |-> IF found.key \in {"absent", "partial"} THEN "partial" ELSE "lasting",
        ids |-> {k}]

(* SetColumnCache also writes the hash of each task of the list.           *)
SetColumnCache(st, list) ==
  /\ column' = [column EXCEPT ![st] = Fill(DOMAIN list)]
  /\ meta' = [k \in Tasks |-> IF k \in DOMAIN list THEN list[k] ELSE meta[k]]

Known(k) == IF meta[k] = NoMeta THEN FromRow(k) ELSE meta[k]

(* What reading every page of a column, the first one first, lists.  The   *)
(* first page of a missing column becomes the cached column, so the pages  *)
(* after it are empty.                                                     *)
Listed(st) ==
  IF column[st].key = "absent"
  THEN {k \in Newest(InTable(st), Limit) : meta[k] = NoMeta \/ meta[k].status = st}
  ELSE {k \in column[st].ids : Known(k).status = st}

-----------------------------------------------------------------------------
Idle == [at |-> "idle"]
Nothing == [tasks |-> {}, columns |-> {}]
AllIdle == \A h \in Handlers : req[h] = Idle

Init ==
  /\ mode \in Modes
  /\ row = [k \in Tasks |-> NoRow] /\ pending = <<>>
  /\ meta = [k \in Tasks |-> NoMeta] /\ column = [st \in Statuses |-> Absent]
  /\ req = [h \in Handlers |-> Idle] /\ lapsed = Nothing
  /\ created = 0 /\ updates = 0

(* "settled": one request at a time, when the table is up to date;         *)
(* "lagging": one at a time; "free": any.  Handlers are alike, so the      *)
(* first idle one takes a request.                                         *)
MayWrite == created + updates < MaxWrites

MayStart(h) ==
  /\ req[h] = Idle
  /\ \A g \in Handlers : g < h => req[g] # Idle
  /\ mode # "free" => AllIdle
  /\ mode = "settled" => pending = <<>>

At(h, step) == req[h].at = step
Go(h, r) ==
  /\ req' = [req EXCEPT ![h] = r]
  /\ lapsed' = IF r = Idle THEN Nothing ELSE lapsed
Publish(m) == pending' = Append(pending, m)

-----------------------------------------------------------------------------
(* CreateTask: publish, then AddTask. *)

CreateTask(h) ==
  /\ MayStart(h) /\ MayWrite /\ created < MaxCreated[mode]
  /\ created' = created + 1
  /\ Publish([op |-> "create", k |-> created'])
  /\ Go(h, [at |-> "add", k |-> created'])
  /\ UNCHANGED <<mode, row, cache, updates>>

AddTaskExists(h) ==
  /\ At(h, "add")
  /\ Go(h, [at |-> "addExec", k |-> req[h].k, seen |-> column[Initial].key # "absent"])
  /\ UNCHANGED <<mode, table, cache, count>>

(* Mistake: the column is left as it is. *)
AddTaskHashOnly(h) ==
  /\ At(h, "addExec")
  /\ meta' = [meta EXCEPT ![req[h].k] = [status |-> Initial, who |-> First, name |-> First]]
  /\ Go(h, Idle)
  /\ UNCHANGED <<mode, table, column, count>>

AddTask(h) ==
  LET k == req[h].k IN
  /\ At(h, "addExec")
  /\ meta' = [meta EXCEPT ![k] = [status |-> Initial, who |-> First, name |-> First]]
  /\ column' = IF req[h].seen THEN [column EXCEPT ![Initial] = With(@, @, k)] ELSE column
  /\ Go(h, Idle)
  /\ UNCHANGED <<mode, table, count>>

-----------------------------------------------------------------------------
(* getTaskByID, with which a full update and a move begin. *)

Loaded(h, k, t) == Go(h, [at |-> req[h].op, k |-> k, t |-> t])

(* Clients know a task once its creation has answered.                     *)
Answered(k) ==
  k <= created /\ \A h \in Handlers : At(h, "add") \/ At(h, "addExec") => req[h].k # k

Begin(h, k, op) ==
  /\ MayStart(h) /\ MayWrite /\ Answered(k)
  /\ updates < MaxUpdates /\ updates' = updates + 1
  /\ Go(h, IF meta[k] # NoMeta THEN [at |-> op, k |-> k, t |-> meta[k]]
                               ELSE [at |-> "find", k |-> k, op |-> op])
  /\ UNCHANGED <<mode, table, cache, created>>

(* No row: the request ends with "Task not found". *)
FindByID(h) ==
  LET k == req[h].k IN
  /\ At(h, "find")
  /\ Go(h, IF row[k] = NoRow THEN Idle
                             ELSE [at |-> "keep", k |-> k, op |-> req[h].op, t |-> FromRow(k)])
  /\ UNCHANGED <<mode, table, cache, count>>

SetTaskMeta(h) ==
  /\ At(h, "keep")
  /\ meta' = [meta EXCEPT ![req[h].k] = req[h].t]
  /\ Loaded(h, req[h].k, req[h].t)
  /\ UNCHANGED <<mode, table, column, count>>

-----------------------------------------------------------------------------
(* UpdateFullTask after the load.  The code assigns the new assignee to    *)
(* the task it has loaded and compares the two then.                       *)

Edited(t, who) ==
  LET u == [status |-> t.status, who |-> who, name |-> t.name]
  IN  [status |-> u.status, who |-> u.who, name |-> IF who = u.who THEN u.name ELSE who]

UpdateFullTask(h, who) ==
  /\ At(h, "edit")
  /\ Publish([op |-> "update", k |-> req[h].k, who |-> who])
  /\ Go(h, [at |-> "write", k |-> req[h].k, t |-> Edited(req[h].t, who)])
  /\ UNCHANGED <<mode, row, cache, count>>

UpdateTaskMeta(h) ==
  /\ At(h, "write")
  /\ meta' = [meta EXCEPT ![req[h].k] = req[h].t]
  /\ Go(h, Idle)
  /\ UNCHANGED <<mode, table, column, count>>

-----------------------------------------------------------------------------
(* UpdateTaskStatus after the load: publish; prewarm the target column     *)
(* from the table if it is not cached; then the cache's transaction.       *)

Moving(h, step) == [at |-> step, k |-> req[h].k, from |-> req[h].from, to |-> req[h].to]

UpdateTaskStatus(h, to) ==
  /\ At(h, "move")
  /\ Publish([op |-> "status", k |-> req[h].k, status |-> to])
  /\ Go(h, [at |-> "target", k |-> req[h].k, from |-> req[h].t.status, to |-> to])
  /\ UNCHANGED <<mode, row, cache, count>>

(* Mistake: no prewarming. *)
TargetCachedOrNot(h) ==
  /\ At(h, "target")
  /\ Go(h, Moving(h, "exists"))
  /\ UNCHANGED <<mode, table, cache, count>>

TargetCached(h) ==
  /\ At(h, "target")
  /\ Go(h, Moving(h, IF column[req[h].to].key = "absent" THEN "prewarm" ELSE "exists"))
  /\ UNCHANGED <<mode, table, cache, count>>

PrewarmSelect(h) ==
  /\ At(h, "prewarm")
  /\ Go(h, [at |-> "prewarmSet", k |-> req[h].k, from |-> req[h].from, to |-> req[h].to,
            list |-> Select(Newest(InTable(req[h].to), Cap))])
  /\ UNCHANGED <<mode, table, cache, count>>

PrewarmSet(h) ==
  /\ At(h, "prewarmSet")
  /\ SetColumnCache(req[h].to, req[h].list)
  /\ Go(h, Moving(h, "exists"))
  /\ UNCHANGED <<mode, table, count>>

MoveExists(h) ==
  /\ At(h, "exists")
  /\ Go(h, [at |-> "moveExec", k |-> req[h].k, from |-> req[h].from, to |-> req[h].to,
            seen |-> column[req[h].to].key # "absent"])
  /\ UNCHANGED <<mode, table, cache, count>>

(* HSET on an expired hash leaves one without an id, which counts as       *)
(* missing.                                                                *)
MoveInCache(h) ==
  LET k == req[h].k
      removed == [column EXCEPT ![req[h].from] = Without(@, k)]
  IN
  /\ At(h, "moveExec")
  /\ meta' = [meta EXCEPT ![k] =
                IF @ = NoMeta THEN @ ELSE [status |-> req[h].to, who |-> @.who, name |-> @.name]]
  /\ column' = IF req[h].seen THEN [removed EXCEPT ![req[h].to] = With(column[req[h].to], @, k)] ELSE removed
  /\ Go(h, Idle)
  /\ UNCHANGED <<mode, table, count>>

-----------------------------------------------------------------------------
(* GetTasksByProject, one column.  A page of a missing column is read from *)
(* the table, corrected by the hashes and cached as the column; a page of  *)
(* a cached one completes the hashes that are missing.                     *)

ReadColumn(h, st, cursor) ==
  LET page == Page(column[st].ids, cursor) IN
  /\ MayStart(h)
  /\ Go(h, IF column[st].key = "absent" THEN [at |-> "select", st |-> st, cursor |-> cursor]
           ELSE IF page = {} THEN Idle ELSE [at |-> "metas", ids |-> page])
  /\ UNCHANGED <<mode, table, cache, count>>

ReadSelect(h) ==
  LET page == Page(InTable(req[h].st), req[h].cursor) IN
  /\ At(h, "select")
  /\ Go(h, [at |-> "filter", st |-> req[h].st, list |-> Select(page)])
  /\ UNCHANGED <<mode, table, cache, count>>

(* Mistake: a task without a hash is dropped. *)
FilteredByHashes(st, list) ==
  [k \in {k \in DOMAIN list : meta[k].status = st} |-> meta[k]]

(* The tasks of a page the table gave, in their newest known state. *)
Filtered(st, list) ==
  LET kept == {k \in DOMAIN list : meta[k] = NoMeta \/ meta[k].status = st}
  IN  [k \in kept |-> IF meta[k] = NoMeta THEN list[k] ELSE meta[k]]

ReadFilter(h) ==
  /\ At(h, "filter")
  /\ Go(h, [at |-> "fill", st |-> req[h].st, list |-> Filtered(req[h].st, req[h].list)])
  /\ UNCHANGED <<mode, table, cache, count>>

ReadFill(h) ==
  /\ At(h, "fill")
  /\ SetColumnCache(req[h].st, req[h].list)
  /\ Go(h, Idle)
  /\ UNCHANGED <<mode, table, count>>

Lacking(S) == IF S = {} THEN Idle ELSE [at |-> "lack", ids |-> S]

ReadMetas(h) ==
  /\ At(h, "metas")
  /\ Go(h, Lacking(Missing(req[h].ids)))
  /\ UNCHANGED <<mode, table, cache, count>>

ReadFindByID(h) ==
  /\ At(h, "lack")
  /\ \E k \in Newest(req[h].ids, 1) :
       Go(h, IF row[k] = NoRow THEN Lacking(req[h].ids \ {k})
             ELSE [at |-> "complete", k |-> k, t |-> FromRow(k), ids |-> req[h].ids \ {k}])
  /\ UNCHANGED <<mode, table, cache, count>>

ReadSetTaskMeta(h) ==
  /\ At(h, "complete")
  /\ meta' = [meta EXCEPT ![req[h].k] = req[h].t]
  /\ Go(h, Lacking(req[h].ids))
  /\ UNCHANGED <<mode, table, column, count>>

-----------------------------------------------------------------------------
(* The worker, and the keys' expiry, which may come between any two calls  *)
(* of a request.                                                           *)

Applied(m) ==
  CASE m.op = "create" -> [status |-> Initial, who |-> First]
    [] m.op = "update" -> [status |-> row[m.k].status, who |-> m.who]
    [] m.op = "status" -> [status |-> m.status, who |-> row[m.k].who]

Worker ==
  /\ pending # <<>>
  /\ row' = [row EXCEPT ![Head(pending).k] = Applied(Head(pending))]
  /\ pending' = Tail(pending)
  /\ UNCHANGED <<mode, cache, req, lapsed, count>>

Lapse(tasks, columns) ==
  lapsed' = IF AllIdle \/ mode = "free" THEN lapsed
            ELSE [tasks |-> lapsed.tasks \cup tasks, columns |-> lapsed.columns \cup columns]

ExpireMeta(k) ==
  /\ meta[k] # NoMeta
  /\ meta' = [meta EXCEPT ![k] = NoMeta]
  /\ Lapse({k}, {})
  /\ UNCHANGED <<mode, table, column, req, count>>

ExpireColumn(st) ==
  /\ column[st].key = "expiring"
  /\ column' = [column EXCEPT ![st] = Absent]
  /\ Lapse({}, {st})
  /\ UNCHANGED <<mode, table, meta, req, count>>

-----------------------------------------------------------------------------
Start(h) ==
  \/ CreateTask(h)
  \/ \E k \in Tasks, op \in {"edit", "move"} : Begin(h, k, op)
  \/ \E st \in Statuses, cursor \in Cursors : ReadColumn(h, st, cursor)

Proceed(h) ==
  \/ AddTaskExists(h) \/ AddTask(h)
  \/ FindByID(h) \/ SetTaskMeta(h)
  \/ \E who \in Users : UpdateFullTask(h, who)
  \/ UpdateTaskMeta(h)
  \/ \E to \in Statuses : UpdateTaskStatus(h, to)
  \/ TargetCached(h) \/ PrewarmSelect(h) \/ PrewarmSet(h) \/ MoveExists(h) \/ MoveInCache(h)
  \/ ReadSelect(h) \/ ReadFilter(h) \/ ReadFill(h)
  \/ ReadMetas(h) \/ ReadFindByID(h) \/ ReadSetTaskMeta(h)

Expire == (\E k \in Tasks : ExpireMeta(k)) \/ (\E st \in Statuses : ExpireColumn(st))

Next == (\E h \in Handlers : Start(h) \/ Proceed(h)) \/ Worker \/ Expire

Spec == Init /\ [][Next]_vars

(* The worker goes on.  Nothing is assumed of requests.                    *)
Fairness == WF_vars(Worker)

FairSpec == Spec /\ Fairness

-----------------------------------------------------------------------------
(* The types of the cache, the table and the counters: a column that is    *)
(* not cached has no members, and one without an expiry has some, because  *)
(* a sorted set goes with its last member.                                 *)
Rows == [status : Statuses, who : Users]
Metas == [status : Statuses, who : Users, name : Users]
Messages ==
  [op : {"create"}, k : Tasks] \cup [op : {"update"}, k : Tasks, who : Users]
    \cup [op : {"status"}, k : Tasks, status : Statuses]

TypeOK ==
  /\ mode \in Modes
  /\ row \in [Tasks -> Rows \cup {NoRow}]
  /\ pending \in Seq(Messages)
  /\ meta \in [Tasks -> Metas \cup {NoMeta}]
  /\ column \in [Statuses -> [key : {"absent", "expiring", "lasting", "partial"},
                            ids : SUBSET Tasks]]
  /\ \A st \in Statuses :
       /\ column[st].key = "absent" => column[st].ids = {}
       /\ column[st].key \in {"lasting", "partial"} => column[st].ids # {}
  /\ lapsed \in [tasks : SUBSET Tasks, columns : SUBSET Statuses]
  /\ created \in 0 .. N /\ updates \in 0 .. MaxUpdates

Quiet == AllIdle /\ pending = <<>>

Accurate ==
  /\ \A st \in Statuses : /\ Listed(st) \subseteq InTable(st)
                          /\ column[st].key # "partial" => InTable(st) \subseteq Listed(st)
  /\ \A k \in Tasks : meta[k] # NoMeta => /\ meta[k].status = row[k].status
                                         /\ meta[k].who = row[k].who

(* Once the table has caught up and no request is under way, a board whose *)
(* requests never overtook the table shows each task in the column of its  *)
(* row and with the row's assignee: no mixture of cached and missing       *)
(* columns and hashes, filled, extended or expired at any moment, shows a  *)
(* task elsewhere, and none hides one but this: a column that expires      *)
(* between the EXISTS and the transaction of one creation or move is       *)
(* cached from then on with the tasks added since, and shows only those.   *)
BoardMatches == mode = "settled" /\ Quiet => Accurate

(* A move that no other request overlaps is visible at its end, whatever   *)
(* the table still says: the task is listed in the new column and in no    *)
(* other one, also if that column was not cached before, and whatever else *)
(* expires meanwhile.  If the task's own hash or the new column expires    *)
(* under the move, the table has to catch up first.                        *)
MoveShown ==
  [][\A h \in Handlers, k \in Tasks, to \in Statuses :
       /\ mode # "free" /\ MoveInCache(h) /\ req[h].k = k /\ req[h].to = to
       /\ k \notin lapsed.tasks /\ to \notin lapsed.columns
       => \A st \in Statuses : k \in Listed(st)' <=> st = to]_vars

(* Time passes whatever requests come: again and again each key is found   *)
(* expired between two requests.  Not every life of a key, of hours or     *)
(* days, ends within a request.                                            *)
KeysExpire ==
  /\ \A k \in Tasks : []<>(AllIdle /\ meta[k] = NoMeta)
  /\ \A st \in Statuses : []<>(AllIdle /\ column[st] = Absent)

(* Whatever overlapping requests, expiries and the lagging table left in   *)
(* the cache expires, and what a read puts back then is right: from some   *)
(* moment on the board is accurate whenever it is quiet, if there are      *)
(* quiet moments and keys do expire, which a column that has lost its      *)
(* expiry does not.                                                        *)
Healed == <>[](Quiet => Accurate)
BoardHealsByExpiry == KeysExpire => Healed
=============================================================================
