# Verification of the distributed workflow system

TLA+ models of the services under `src/`, the TLC runs that check them and the
TLAPS proofs about them. `PROJECT.json` lists the components, the runs, the
source lines every definition stands for, the known disagreements between the
documentation and the code, and the hazards the properties are aimed at.
Source paths below are relative to `src/services/`; `README:n` is line `n` of
the repository's own `src/README.md`.

## 1. Inventory

| component | state it keeps | operations | interacts with |
| --- | --- | --- | --- |
| Task API (`workspace-service/internal/task/service.go`) | none of its own | create, full update, move, board read, comments | publishes to `task-created`, `task-updated`, `task-status-updated`, `send-notification`; reads and writes the Redis task cache; reads PostgreSQL |
| Task consumers (`internal/kafka/task_handler.go`, `worker.go`, `config/kafka.go`) | batch in memory, reader position, committed group offset, DLQ writer's buffer | `RunLoop`, `flushBatch`, `handleDLQ`, commit loop, start and stop | Kafka topics, bulk repository calls, DLQ topics |
| Bulk writes (`internal/task/repository.go`, `internal/user/repository.go`, `notification-service/src/modules/user/user.repository.ts`) | the tables | divide-and-conquer insert, update, upsert | called by the consumers |
| Task board cache (`internal/task/cache.go`) | `task:<id>:data` hashes, `project:<id>:col:<status>` sorted sets, both with TTL | add, move, read a page, refill | Task API only |
| Workspace service and cache (`internal/workspace`) | members, invitations; id lists, roles and members in Redis | create, invite, accept, list, access checks | PostgreSQL, Redis, Temporal, `send-notification` |
| Invitation workflow (`internal/temporal`) | workflow history | send mail, remind after 10 days, expire after 14 | invitation rows |
| Project service and cache (`internal/project`) | project rows; id list and meta in Redis | create, list | workspace cache for access |
| User snapshots (`internal/kafka/user_handlers.go`, `notification-service/src/kafka/handlers/user_registered.handler.ts`) | copies of users | batch upsert, DLQ | topic `user-registered` |
| Auth service (`auth-service/src/modules/auth`) | users, sessions in Redis, refresh tokens | register, login, logout, refresh, verify (gRPC) | publishes `user-registered`, `user-logout` |
| Session checks (`internal/middleware/auth.go`, `notification-service/src/middleware`, `config/socket.ts`) | cached `session:<user>:<device>` for 15 minutes | verify, purge on `user-logout` | Redis, auth gRPC |
| Notification consumers (`notification-service/src/kafka`) | buffer and flush timer per handler | batch, flush, commit | MongoDB, sockets |
| Wiring, deployment, monitoring, mail | none | | |

The behaviours that are hard to test are the ones where these parts run
concurrently or fail separately: a consumer that crashes, is rebalanced or shut
down between fetch, write, isolation and commit; a bulk call whose connection or
deadline ends half way; three consumer loops applying records about one task in
an order of their own; API requests that read, publish and write the cache in
separate calls while the table lags seconds behind; cached answers (columns,
roles, sessions) written after the fact they describe has changed; timers
racing answers (invitations, flush timers). The `hazards` list in
`PROJECT.json` has each of them with its line.

What makes each component correct:

* consumers: an offset is committed only when its record is in the database, in
  the DLQ or hit by a fault the code knowingly does not survive; every record is
  finally handled; only poisonous records are isolated;
* bulk writes: exactly the rejected elements are returned, each other element
  is applied, the right version of a duplicated row remains, in few statements;
* write path: the table converges to what the API accepted;
* board cache: once the table has caught up, the board shows every task once,
  in the column of its row, under its current data;
* workspace caches: a list names nothing that was not inserted, shows what was
  created, and recovers by expiry from what races leave out; a cached role is
  the one in the table;
* invitations: accepted means member, expired means past the deadline, a decided
  invitation stays decided, and one whose workflow runs is finally decided;
* sessions: an ended session is honoured no longer than a cached answer can
  live, whatever happens to the logout events; who has registered is known to
  every service;
* notifications and snapshots: at-least-once, but for what KafkaJS commits while
  it is in memory only; what one message costs its neighbours is bounded by the
  batch.

## 2. Modules

| module | models |
| --- | --- |
| `Delivery` | what a consumer promises of a partition's records: the abstract specification of both consumers |
| `BulkContract` | the results a bulk repository call may return: the abstract, one-call specification |
| `BulkWrite`, `MCBulkWrite`, `BulkWriteProofs` | the recursion, one SQL statement per step |
| `TaskConsumer`, `MCTaskConsumer`, `TaskConsumerProofs` | one consumer loop with the Kafka reader and the DLQ writer; implements `Delivery` |
| `TaskPipeline`, `MCTaskPipeline`, `TaskPipelineProofs` | API publication, three topics, three loops, the table |
| `TaskBoard`, `MCTaskBoard`, `TaskBoardProofs` | Redis task cache and board requests over a lagging table |
| `CachedSet` | a Redis set that may be absent, expire, or have lost its expiry |
| `WorkspaceLists`, `MCWorkspaceLists`, `WorkspaceListsProofs` | the four cached lists of the workspace service over their tables |
| `Membership`, `MCMembership`, `MembershipProofs` | invitations, their workflow, acceptance, the role hash |
| `Session`, `MCSession`, `SessionProofs` | registration, sessions, cached verification, logout events |
| `NotificationConsumer`, `MCNotificationConsumer`, `NotificationConsumerProofs` | the buffered consumers of the notification service under KafkaJS; implements `Delivery` |

`TaskConsumer` takes the result of its bulk call from `BulkContract!BulkResult`,
and `BulkWriteProofs!ContractKept` shows that the coded recursion returns
nothing else: the two models compose through that contract, so neither has to
repeat the other's steps. `TaskPipeline` takes a whole turn of a loop as one
step, which the consumer model justifies for runs without faults other than
crashes. `WorkspaceLists` and `Membership` meet in `AcceptInvitation`: the steps
that extend the "joined" and "members" lists are creations in `WorkspaceLists`,
the rows, the invitation and the role are `Membership`'s.

Definitions under a comment that starts with "Mistake" are variants that no
specification uses; they document which slips each property notices.

Several modules let the behaviour choose a `mode`, how its requests overlap, so
that one run covers both what holds of sequential use and what still holds of
any use. `alone` is one request at a time. `prompt` (`Membership`, `Session`)
lets them overlap, but no request lasts as long as a deadline or a tick of the
clock, which stands for minutes or days. (Keys of `TaskBoard` and `WorkspaceLists`
may expire between any two calls of a request, in every mode: a life of hours also
ends at some moment, and that may be this one.) `writers` (`WorkspaceLists`) lets
creations overlap each other only. `free` allows all of that, and any call to
fail or process to stop. A property that names a mode says in which of them the
code keeps it; the others are where the code does not.

### Delivery

Five sets and numbers of a partition: records published, the group's offset,
and which records have arrived, are under way, or are excused. A step may
deliver, lose what is under way in front of the offset, and move the offset
either way, but the offset never leaves behind a record that is neither arrived,
nor under way, nor excused. Both consumers implement it
(`TaskConsumer!Delivers`, `NotificationConsumer!Delivers`) under a refinement
mapping that makes the difference between them plain: in the Go consumer
"under way" is only the DLQ writer's buffer, in the Node consumer it is
everything in memory, since KafkaJS has committed it.

### TaskConsumer

One partition of one topic and the worker replica that owns it. The log is a
sequence of record kinds, because what a record says matters only as far as it
unmarshals and the database takes it. `pos` is the reader's position, `stash`
the offset the reader's commit loop will send on its next tick (`CommitInterval`
of one second), `committed` what the broker holds. `phase` is the place in
`RunLoop`: `idle` (top), `fill` (inner loop), `flush` (bulk call), `isolate`
(the DLQ loop of `flushBatch`), `down`. `Fetch` is one `FetchMessage` and the
unmarshalling after it; a malformed record is committed at once, as the code
does. `handler` says whose loop it is: the task handlers only log a malformed
record (`SkipMalformed`), the loop of `user-registered` puts it on its DLQ
before the commit (`IsolateMalformed`); the rest is the same code. `FaultSets` gives
each of the two the combinations of faults to check. `flushBatch` covers the bulk call and the early return on an error,
`handleDLQ` one failed record, `CommitBatch` the end. `CommitTick`,
`DeliverDLQ` and `LoseDLQ` are the goroutines of the Kafka client. `Crash`,
`Rebalance`, `Sigterm`, `Exit` and `Restart` are the life of the process.

The history variable `exposed` collects the offsets a fault hit: the batch
dropped by a connection error, what a malformed record's commit jumps over, a
DLQ write that failed, a DLQ buffer lost in a crash. It only grows, and no
action reads it. `faults` says which of them may happen in a behaviour.

### BulkWrite

`BulkCreate` first sends the whole batch (`attempt = "whole"`), then recurses.
The pending calls of the recursion are segments of the batch; the leftmost runs.
`Execute` is a statement under a live context, `ExpireDuring` one that the
deadline interrupts (applied or not), `ExecuteExpired` one sent after it,
`Disconnect` one that fails with an error `isConnectionError` knows. The four
copies of the code differ in the statement (`dialect`): `DO NOTHING` keeps the
first version of a row, `DO UPDATE` rejects a batch with two versions of a row,
`UPDATE ... FROM (VALUES ...)` takes any of them, an ordered Mongo bulk write
keeps what precedes the failure.

### TaskPipeline

`sendTaskCreated`, `sendTaskUpdated` and `sendTaskStatusUpdated` publish to
their topics; `TaskCreatedHandler`, `TaskUpdatedHandler` and
`TaskStatusUpdatedHandler` each apply a batch, in one statement, to `row`;
`CommitTick` and `Crash` give redelivery. A full update never touches the
column `status`, a move never anything else, as the two `UPDATE` statements do.
Every batch may hold several records of one task. `doubtful` is a history variable:
per topic, the tasks whose last batch did not decide what their row says, because it
found no row (the update came before the insert, and changes nothing) or held two
different records of the task (two `VALUES` rows for one table row, of which
PostgreSQL uses either). A later batch with one record takes the task out again.

### TaskBoard

`row` and `pending` are the table and what is published but not applied; `meta`
and `column` the hashes and sorted sets; `req[h]` what handler `h` is doing.
Each request is a chain of the calls it makes: `CreateTask` publishes, then
`AddTaskExists` and `AddTask`; a full update or move starts with `Begin` (and
`FindByID`, `SetTaskMeta` on a miss); a move goes on with `TargetCached`,
`PrewarmSelect`, `PrewarmSet`, `MoveExists`, `MoveInCache`; a read of a missing
column is `ReadSelect`, `ReadFilter`, `ReadFill`, one of a cached column
completes missing hashes one by one. A column is absent, `expiring`, or
`lasting`: Redis deletes a sorted set with its last member, so taking
`__empty__` out and adding a task makes a key without a TTL. `partial` is a lasting
column of which the model also remembers that the transaction found no key, because
it had expired since `EXISTS`: the column is begun anew with the one task. `lapsed`,
also history, names the keys that expired under the request under way. `Listed` is
what a client that walks a column's pages gets.

The modes here are `settled` (one request at a time, after the table has caught
up), `lagging` (one at a time) and `free`. The worker applies changes in
publication order, since their order is `TaskPipeline`'s subject; the two share
the handlers' publications and the effect of the three statements on a row.

### WorkspaceLists

One list, `which`: the workspaces a user owns or has joined, the projects of a
workspace, or its members. `rows` is the table, `list` the sorted set or hash
(`CachedSet`), `hashes` the cached fields of the rows. A creation is `Create`,
`Insert`, `SetMeta` (where the row has a hash of its own), then the cache's
`Add...ID`: `AddExists`, `AddRemovesEmpty`, `Add`, three commands between which
others may come, and the key may expire. As for columns, the model remembers whether
a key without an expiry was made after `__empty__` was removed (`lasting`) or after
the list had expired (`partial`). A read is `Read`, and on a miss `Select`, `KeepHashes`,
`SetIDs`; on a hit `GetMetas` and `Complete`. The lists differ where the code
does: `AddProjectID` does not remove `__empty__`, an empty workspace's projects
are not cached, members have neither pages nor hashes. Identifiers are numbers
in the order of their creation, as UUIDv7 are.

### Membership

`status` and `age` are the rows of `workspace_invitations` and how much of their
14 days has passed, `member` is `workspace_members`, `roles` the hash
`workspace:<id>:roles`, `flow[u]` the workflow whose ID is made of the user's
e-mail, `req[h]` a request. `InviteUser` is `CreateInvite`, `ExecuteWorkflow`;
`AcceptInvitation` is `FindInviteByToken`, `IsMember`, `AddMember`,
`MarkAccepted`, `SetMemberRole`, with the early ends `MarkExpired` and
`MarkAlreadyMember`; a permission check is `GetCachedRole`, `GetMemberRole`,
`SetMemberRole`. The workflow is `SendEmail`, `Wake`, `CheckInviteStatus`,
`ExpireInviteFind`, `ExpireInviteUpdate`; it survives crashes, as Temporal
replays it, and ends early only when an activity fails for good. `Days` and
`ExpireRoles` are time.

### Session

One account and one device. `account` and `announced` are the auth database and
the `user-registered` event; `session` and `token` what remains of the key in
the auth service's Redis and of the newest access token; `entry[s]` what remains
of the cached answer in the Redis of service `s`; `since` the time since there
was a session. The handlers are `register` (`Create`, `Announce`, `Rollback`,
`SetSession`), `login` (`Login`, `SetSession`), `refreshToken` (`Refresh`,
`Sign`), `logout` (`Logout`, `DelSession`, `PublishLogout`) and the middleware
`Protect` (`Protect`, `VerifySession`, `CacheSession`). `TakeEvent` and
`DelEntry` are `UserLogoutHandler`; `FetchError` ends the Go worker's plain loop
for good; `RestartConsumer` delivers again from an older offset.

### NotificationConsumer

KafkaJS is `Fetch`, `Handled` and `AutoCommit`; the handler `Buffer` and
`BufferAndFlush`; a flush, of which two may be under way, is `TimerFires`,
`Parse`, then `SyncUserSnapshots` and `IsolateFailed` for users or
`SendNotifications` for notifications, and `CommitOne` per message up to
`EndFlush`. `Rethrow` is the user handler's `throw err`, `Crash` the end of the
process, by SIGTERM too. A scenario fixes the topic, whether anything fails, and
the kinds of message: without a value (`empty`, which both handlers skip), what the
handler refuses (`invalid`) and what MongoDB or the schema refuses (`rejected`).
The service runs in one replica, so there is no rebalance. `lost` is a history variable: offsets that were
committed and existed in memory only when that went.

## 3. Runs

| run | shows | bounds, and why they suffice |
| --- | --- | --- |
| `consumer` | the consumer implements `Delivery`; its reader skips nothing, crashes and failing DLQ writes alone lose no task, only poison is isolated unless a call expires; every record is handled and committed | both handlers, 2 records of all kinds in batches of 2 (full, partial, empty), any two crashes, rebalances or shutdowns, so that a batch kept over a rebalance can commit an older offset than its redelivered copies have; two sets of faults for the task handlers, one for users. The safety half is proved for every bound; two records show each wait of the loop |
| `consumer_conn_loss` | violation of `NoTaskLost` | 2 valid records, connection errors only, no crash |
| `bulk_write` | contract, exactness, versions of rows, statement budget | batches of 5 (uneven halves at two levels), 2 keys, every poison set and every dialect |
| `pipeline` | `ConvergedUnlessDoubtful`, `EventuallyConsistent` | 2 tasks, 3 updates (2 of a kind at most), 1 crash; batches of up to 2 in every topic, so two moves of one task share a batch, or a redelivery cuts them otherwise |
| `pipeline_overtaken` | violation of `Converged` | 1 task, 1 move |
| `board` | `BoardMatches`, `MoveShown`, `BoardHealsByExpiry` | 2 tasks, 2 columns, 2 users, 3 writes (2 updates at most) one at a time; overlapping requests on 1 task, 2 at once: an edit with a move, a read with either. Any key expires at any moment. A page holds a whole column and no cursor is sent |
| `board_pages` | violation of `BoardMatches` | 2 tasks, pages of 1, no updates |
| `lists` | `NothingInvented`, `CreationsShown`, `ListHealsByExpiry` | all four lists and modes; 3 creations, 2 requests at once, pages of 2: two creations on one empty list, a creation under a read, a second page. The list and the hashes expire at any moment |
| `membership` | `AcceptedIsMember`, `RoleSound`, `ExpiredOnlyAfterDeadline`, `NoStaleRefusal`, `StatusFinal`, `InviteSettles` | two invitations of one user or of two, or one where anything fails; 2 requests at once: two acceptances, an acceptance with a check, either with the workflow |
| `member_refused` | violation of `MemberAdmitted` | one request at a time, one invitation |
| `session` | `RevocationBounded`, `LogoutPurges`, `AccountAnnounced`, `RevokedFinally` | 15 minutes are 2 ticks and 7 days 3, so every order of the expiries occurs; 2 requests at once, 2 logouts; one service, since services share only the session and the events |
| `notifications` | the handlers implement `Delivery`; `DroppedWithNeighbour`, `EventuallyHandled` | 3 messages, buffers of 2, 2 flushes at once, 1 crash: a flush by size over one by timer, and a message behind both |

`lists`, `membership`, `member_refused` and `session` are checked for deadlock:
requests may always come and keys always expire. The other models come to rest
by the bounds on publication and crashes, and a bulk call ends, so their runs
have `CHECK_DEADLOCK FALSE`.

**Fairness.**

* `consumer`: weak fairness of the loop's steps, the client's goroutines and the
  restart. They are goroutines with nothing to wait for once enabled, in a pod
  of a Deployment that is started again when it ends. Nothing is assumed of
  faults, of the database's answer or of producers; the number of restarts is
  bounded, so "eventually" means after they cease. A rebalance under a
  half-filled batch lets the handler commit that batch after the redelivered
  copies and newer records: the group's offset goes back, and nothing moves it on
  until the next record comes. `EventuallyCommitted` therefore says that each
  record to be fetched ends behind the offset, and for good if restarts have
  ceased when it is; not that one handled before stays there. Nothing is lost by
  an offset that lags, and a restart repeats what is handled. The same happens to
  a malformed record, committed ahead of an older batch: the property leaves those
  out.
* `pipeline`: weak fairness of each loop. Commits need none.
* `board`: weak fairness of the worker. That keys expire is a premise of
  `BoardHealsByExpiry` (`KeysExpire`): again and again each key is found expired
  between two requests. Time passes whatever requests come, so keys that are not
  renewed for ever do expire; what the premise leaves out is that each life of a
  key, for ever, ends inside a request that writes the same stale value back, which
  lives of hours and requests of milliseconds exclude.
* `lists`: strong fairness of the list's expiry. Requests need neither come nor go
  on: `BoardHealsByExpiry` and `ListHealsByExpiry` speak only of behaviours with
  quiet moments.
* `membership`: weak fairness of a request under way and of each workflow
  (Temporal retries and replays), strong fairness of the days.
* `session`: weak fairness of a request under way and of a handler's deletion,
  strong fairness of the clock. Nothing is assumed of the logout consumers, so
  `RevokedFinally` is what expiry alone gives.
* `notifications`: weak fairness of KafkaJS' loop and of each flush (timers
  fire, promises settle).

## 4. What is proved

The theorems hold for every value of the constants that the `ASSUME`s of the
module admit.

**Consumer** (`TaskConsumerProofs`): `ConsumerDelivers`, the refinement of
`Delivery`; `TypeCorrect`, `LossIsAccounted`, `NoRecordSkipped`; and under an
assumption on the faults, `ValidIsNotIsolated` (no bulk call outlives its
context) and `CrashesLoseNoTask` (only crashes, rebalances and DLQ failures; no
malformed record). The violation of `NoTaskLost` shows that the second
assumption is needed.

`LossAccounted` is not inductive by itself: a commit hands the *largest* offset
of a batch to the commit loop, which is right only because a batch has no gap
that nobody accounts for. `IInv` adds that the offset waiting in the commit loop
is covered (`StashAccounted`), that everything older than a buffered record is
accounted for or buffered with it (`BatchCovered`, which a rebalance under a
half-filled batch strains), that the reader's position has the same property
(`NothingSkipped`), and that after the bulk call every record of the batch is
stored, exposed, or about to be isolated (`PhaseConsistent`). `AccountedGrows`
is the lemma that no step but a crash takes an offset back, and a crash only
gives up what the history already names. The refinement then takes one step per
kind of step: publication, or `WorkStep`.

**Bulk write** (`BulkWriteProofs`), for every batch length, key assignment,
poison set and dialect: `ContractKept`, `IsolationIsExact`, `NothingIsDropped`.
The invariant says that the pending segments are disjoint and, with what is
applied and isolated, make up the batch; `Halves` is the arithmetic of the split.
Two further invariants rest on it.

* `FirstRemains`, `LastRemains`: which valid version of a row remains depends on
  the *order* of the halves. `VersionInv` adds that everything left of a pending
  segment has been handled (`HandledFirst`), and what the table holds of the
  elements that are done with (`FirstSoFar`, `LastSoFar`; an ordered Mongo write
  applies the prefix of a failing segment again, so nothing can be said of those
  that are still pending).
* `StatementsAreFew`: two statements per element (`TwoPerElement`), and two per
  poisonous element and level. `TwoPerLevel` counts the pairs of a poisonous
  element and a level that are still due: a failing segment holds a poisonous
  element and uses up its pair at that level. `FewStatements` counts the levels by
  repeated halving (`Halvings`) and not by a logarithm.

**Pipeline** (`TaskPipelineProofs`), for any tasks, batch sizes, edits, moves and
crashes: `TypeCorrect`; `EveryTaskInserted`, that a consumed creation has its row
and no row comes from anything else; and `ConvergedDecided`, that the consumed
table is what the API has shown, column by column, but for the tasks in `doubtful`.
No order of the topics and no limit on a batch is assumed: an update that overtakes
the creation and two updates of one task in a batch are both possible, nothing in
the code prevents either, and both make a task doubtful until a later batch decides
it. `ConvergedUnlessDoubtful` speaks of moments at which everything is consumed, and
a crash takes a loop back over records it has applied: the table then shows *older*
states again. `ContentApplied` and `StatusApplied` therefore say of every moment
that a row shows what the topic says last of its task *if the loop has nothing ahead
about that task and no doubt about it*: what a redelivery undoes, it does again, and
if it cuts the records into other batches, it decides again what is in doubt.

**Board** (`TaskBoardProofs`), for any number of tasks, columns, users, requests
and overlapping handlers. `TypeCorrect` needs `OnlyCreated` and `CreationFirst`: a
published change finds its row because the task's creation is applied, or ahead
of it in the queue. `MovesShown` is about requests that follow each other, however
far the table lags: `MoveReady` says that what a move found or loaded is still in
the cache at its later steps, since no other request comes between, or it is among
the keys that have expired under the move (`lapsed`).
`BoardShowsTable` is about requests that also wait for the table. Its `BoardInv`
compares the cache with the row a task *will* have (`Future`): every cached hash
agrees with that row, and every cached column lists at least the tasks that will be
in it, unless a handler has still to write them or the column was begun anew under a
transaction (`Whole` is the condition); `BoardStep` says what a handler has
to know for that, at each call it can be waiting at. A column may list too much,
which the hashes correct when it is read, but, if whole, never too little. Keys
expire at any step in both theorems. Both need a bound on the board. `FitsColumn`: a column keeps all tasks (100 in the code); beyond it,
a trim may drop the moved task from its new column. `FitsPage`: the board fits a
page that is read from its start; beyond it, `board_pages` shows `BoardMatches` fail.

**Membership** (`MembershipProofs`), for every set of users, roles, invitations
and any number of overlapping requests: `TypeCorrect`, `AcceptedMembers`,
`CachedRolesSound`, `ExpiredInTime`, `StatusIsFinal`, `NoRefusalStays`. No invariant
among them but the first is inductive:
each request acts on what it read some calls ago. `RequestSound` says what a
waiting request still knows, `FlowsDue` what a workflow does after its second
timer, and `Grows` why that knowledge does not age: rows of `workspace_members`
are inserted once and never changed, and an invitation grows only older. A
feature that changes or removes members would break `Grows`, and with it the
role cache. `StatusIsFinal` is an action property: no writer of a status looks at
the old one, so its invariant (`InTime`) says of every place that is about to write
why that is safe: who accepts an invitation has started before its deadline, which
no request spans, and who expires it has seen that nobody had accepted. Both fail in
mode `free`, which the property leaves out. `NoRefusalStays`: a cached "not a member"
that is no longer true will be overwritten by the acceptance that has inserted the
row (`RefusalsDue`).

**Session** (`SessionProofs`), for any lifetimes with token <= entry < session:
`TypeCorrect`, `RevokedInTime`, `LogoutsPurge`, `UsersAnnounced`. The invariant of
the second adds that a request which holds a positive answer
(`AnswersFresh`) has seen no tick since there was a session. In mode `free`,
where a request may sleep between the answer and its caching, that fails, and so
does the bound. The other two follow from where a request stands: while a service
holds an entry of an ended session, the event of the logout is unread, or about to
be published (`EventComing`); a user of whom nobody was told belongs to the one
registration that has still to announce it or to take it back (`RegistrationSound`).
`EventsCounted` bounds the events by the logouts begun, which the type of a
consumer's position needs.

**Lists** (`WorkspaceListsProofs`), for any number of creations, requests and
page size: `TypeCorrect` and `NoPhantoms` in every mode, `ListsComplete` in the two
that `CreationsShown` names. `Backed` says that what a request is about to cache
is in the table already. For the third, `MissingComing` says that a row which the
cached list owes (`Owed`: all of them, or all since the list was begun anew) and lacks
has its creation under way, `ReadsAll` that a read, which nothing overlaps, fills the
list with the whole table, and `EmptyRemoved` follows a list that a creation has found
empty to the step that adds to it. The list may expire at any of these steps.

**Notifications** (`NotificationConsumerProofs`), for every batch size and any
number of flushes under way and of crashes: `NotificationsDeliver`, the second
refinement of `Delivery`; `TypeCorrect`; `OnlyNeighboursDropped`. That what is
committed is accounted for is not inductive, because KafkaJS commits the
position and a flush commits the offsets of its batch, each without regard to the
other. `HandledAccounted` says the same of the position, which covers the first;
`NotAhead`, that nothing in memory lies beyond the position, reduces the second
to it. `OneWaiting` keeps the message under `eachMessage` in the one flush it
waits for, and `FlushSound` says how much of its batch a flush has covered
before each step. For the third theorem, `Together` says that the buffer is a
run of fewer than `BatchSize` messages up to the position; a rethrow or a crash
breaks that, and the theorem is about behaviours without them.

Every safety invariant and action property of a passing run is stated by a
theorem, two of the board's under the assumptions above.
Only model-checked remain:

* liveness under fairness, which is beyond this proof system: `EventuallyHandled`,
  `EventuallyCommitted`, `EventuallyConsistent`, `BoardHealsByExpiry`,
  `ListHealsByExpiry`, `InviteSettles`, `RevokedFinally`;
* that `BulkWrite` and `TaskConsumer` compose: each is proved about the one operator
  `BulkResult`, and no module joins their steps.

## 5. Where code and documentation disagree

Shown by a run:

* `consumer_conn_loss`: after a connection error the batch is dropped, not
  fetched again (`task_handler.go:103-107`), and the next commit passes it.
  README:9 and README:201 say otherwise.
* `pipeline_overtaken`: a move consumed before its task's creation is lost
  (README:172, README:180).
* `board_pages`: a cold read caches one page as the whole column
  (`task/service.go:301`); README:155-158 describe the column as complete to 100.
* `member_refused`: a role missing from an existing hash counts as "not a
  member" (`workspace/cache.go:374`), although README:145 promises strong
  read-after-write consistency of these hashes.

Met on the way, and named by a premise, a mode or an exception of a property instead:

* an ended context is treated as poison (`task/repository.go:184-196`, `:240`),
  so valid tasks are isolated, against README:198: `OnlyPoisonWithoutExpiry`
  excludes it;
* extending a column cached as empty drops its TTL (`task/cache.go:128`, `:297`;
  README:160), and so does extending a workspace list (`workspace/cache.go:53`):
  such a key is never repaired by expiry, which is the premise of
  `BoardHealsByExpiry` (`KeysExpire`) and of `ListHealsByExpiry`;
* a column or list that expires between `EXISTS` and the command that extends it
  (`task/cache.go:118` and `:129`, `:286` and `:297`; `workspace/cache.go:47-54`,
  `project/cache.go:34-39`) is begun anew with one member and no TTL, and hides
  everything older for good, with one request at a time and nothing failing.
  `BoardMatches` and `CreationsShown` name this case (`partial`) and say that
  nothing else does it, and that nothing newer is hidden. A move whose hash or
  target column expires under it is not shown before the table has caught up
  (`task/cache.go:291`, `task/service.go:473`): `MoveShown` names it (`lapsed`);
* two moves (or edits) of one task in one batch, which may hold 1000
  (`task_handler.go:162`, `:290`), are two `VALUES` rows for one table row: PostgreSQL
  uses either, and the row may show the older one for good (README:172).
  `ConvergedUnlessDoubtful` names these rows (`doubtful`);
* a list read beside a creation caches the list without it
  (`workspace/service.go:120`), against the strong read-after-write consistency
  of README:145: `CreationsShown` is about creations only;
* the new assignee is compared with itself (`task/service.go:396`, `:401`), and
  the old name stays in the cache;
* a verification that overtakes a logout is cached after the entry was purged
  (`middleware/auth.go:79`), so "instant token invalidation" (README:167) is
  fifteen minutes: `LogoutPurges` is about one request at a time, and
  `RevocationBounded` is what holds of any;
* the workflow's ID is the invited e-mail (`workspace/service.go:206`): a second
  invitation while one is open, from any workspace, gets neither mail nor
  reminder nor expiry (README:209-213). `InviteSettles` is about invitations
  whose own workflow runs;
* the flush of users rethrows "to prevent committing unprocessed offsets"
  (`user_registered.handler.ts:118`), but KafkaJS has committed all of them
  except the last one; notifications are committed and dropped when `insertMany`
  fails (README:201). `Delivers` needs `lost` and `dropped` for it.

Three related windows of the task consumer need no run of their own, since
`exposed` names them and the assumptions of `NoTaskLostByCrashes` exclude them: a
malformed record commits past a buffered one (`task_handler.go:87`); the
shutdown flush uses the cancelled context (`:71-75`); a committed record's DLQ
write is still in memory at a crash (`container.go:52-54`).

## 6. Not modelled, and the plan

Partly modelled, and what is missing:

* Sockets: one that is open when its session ends stays open; only handshakes
  are in `Session`. Several devices are independent sessions and are not
  multiplied.
* Task write path and board cache: comments, failing Redis calls, and
  overlapping requests on several tasks.

Left out for good: HTTP parsing and validation, cursors' encoding, password
hashing, plain reads and writes of one user or notification, the socket push,
mail, metrics, tracing, the wiring code. Kafka, PostgreSQL, MongoDB, Redis,
KafkaJS and Temporal are modelled by what the code relies on, and marked external
in `map`. Topics have one partition, as the broker creates them; with more, the
writers' `LeastBytes` balancer (`config/kafka.go:27`) would give up the order of
a task's records.

Proofs to add: what a move on a board larger than `FitsColumn` still guarantees, and
that the row of a doubtful task shows one of the records of its last batch.
