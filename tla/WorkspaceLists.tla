--------------------------- MODULE WorkspaceLists ---------------------------
(***************************************************************************)
(* A list of identifiers that the workspace service keeps in Redis beside  *)
(* a table: the workspaces a user owns, the ones a user has joined, the    *)
(* projects of a workspace, or its members (a hash; beside the owner, whom *)
(* the model leaves out).  They repeat one scheme: a creation inserts the  *)
(* row, then caches its fields and extends the list if that is cached; a   *)
(* read of a list that is not cached loads all of it.                      *)
(*                                                                         *)
(* Each call to Redis or PostgreSQL is a step.  Identifiers are numbers,   *)
(* since UUIDv7 orders them by the moment they are drawn.  The fields of   *)
(* a row never change, so of a hash only its presence counts.              *)
(***************************************************************************)
EXTENDS CachedSet

CONSTANTS
  N,        \* bound: creations
  Lists,    \* which of "owned", "joined", "projects", "members"
  Modes,    \* how requests overlap, see MayStart
  Requests, \* requests that may be under way at once
  Limit     \* identifiers on a page

Ids == 1 .. N
Handlers == 1 .. Requests

ASSUME ListsAssumption == Lists \subseteq {"owned", "joined", "projects", "members"}
ASSUME ModesAssumption == Modes \subseteq {"alone", "writers", "free"}
ASSUME BoundsAssumption == N \in Nat /\ Requests \in Nat /\ Limit \in Nat \ {0}

VARIABLES
  which,    \* the list of this behaviour
  mode,     \* how its requests overlap
  rows,     \* identifiers in the table
  list,     \* the cached list
  hashes,   \* identifiers whose fields are cached
  req,      \* req[h]: what handler h is doing
  created   \* creations so far

fixed == <<which, mode>>
cache == <<list, hashes>>
vars  == <<fixed, rows, cache, req, created>>

Idle == [at |-> "idle"]
AllIdle == \A h \in Handlers : req[h] = Idle

Init ==
  /\ which \in Lists /\ mode \in Modes
  /\ rows = {} /\ list = Absent /\ hashes = {}
  /\ req = [h \in Handlers |-> Idle] /\ created = 0

Creating == {"insert", "hash", "exists", "empty", "add"}

(* "alone": one request at a time; "writers": creations overlap each       *)
(* other, a read is alone; "free": anything overlaps, and any call to      *)
(* Redis may fail, which the service only logs.  Handlers are alike, so    *)
(* the first idle one takes a request.                                     *)
MayStart(h, kind) ==
  /\ req[h] = Idle
  /\ \A g \in Handlers : g < h => req[g] # Idle
  /\ mode # "free" =>
       \/ AllIdle
       \/ /\ mode = "writers" /\ kind = "create"
          /\ \A g \in Handlers : req[g].at \in Creating \cup {"idle"}

MayFail == mode = "free"

At(h, step) == req[h].at = step
Go(h, r) == req' = [req EXCEPT ![h] = r]
(* A creation goes on with its identifier. *)
Step(h, step) == Go(h, [at |-> step, k |-> req[h].k])

Page(S, cursor) ==
  LET below == {k \in S : cursor = 0 \/ k < cursor}
  IN  {k \in below : Cardinality({j \in below : j > k}) < Limit}

-----------------------------------------------------------------------------
(* CreateWorkspace, CreateProject, and AcceptInvitation as far as it       *)
(* concerns the joined list or the members.  Only the first two cache the  *)
(* row's fields in a hash of its own.                                      *)

Create(h) ==
  /\ MayStart(h, "create") /\ created < N
  /\ created' = created + 1
  /\ Go(h, [at |-> "insert", k |-> created'])
  /\ UNCHANGED <<fixed, rows, cache>>

AfterInsert == IF which \in {"joined", "members"} THEN "exists" ELSE "hash"

(* AddProjectID does not remove "__empty__", and in the hash of members,   *)
(* where the owner is, its removal changes nothing.                        *)
AfterExists == IF which \in {"projects", "members"} THEN "add" ELSE "empty"

(* Mistake: the fields are cached before the row is known to be inserted.  *)
InsertAfterCaching(h) ==
  /\ At(h, "insert")
  /\ hashes' = hashes \cup {req[h].k}
  /\ \/ rows' = rows \cup {req[h].k} /\ Step(h, AfterInsert)
     \/ UNCHANGED rows /\ Go(h, Idle)
  /\ UNCHANGED <<fixed, list, created>>

(* The insert fails on a slug or a membership that exists already.         *)
Insert(h) ==
  /\ At(h, "insert")
  /\ \/ rows' = rows \cup {req[h].k} /\ Step(h, AfterInsert)
     \/ UNCHANGED rows /\ Go(h, Idle)
  /\ UNCHANGED <<fixed, cache, created>>

SetMeta(h) ==
  /\ At(h, "hash")
  /\ hashes' = hashes \cup {req[h].k} \/ (MayFail /\ UNCHANGED hashes)
  /\ Step(h, "exists")
  /\ UNCHANGED <<fixed, rows, list, created>>

(* Mistake: the answer of EXISTS is taken the wrong way round.             *)
AddExistsReversed(h) ==
  /\ At(h, "exists")
  /\ IF Cached(list) THEN Go(h, Idle) ELSE Step(h, AfterExists)
  /\ UNCHANGED <<fixed, rows, cache, created>>

(* EXISTS: a list that is not cached is left so.                           *)
AddExists(h) ==
  /\ At(h, "exists")
  /\ IF ~ Cached(list) THEN Go(h, Idle)
     ELSE \/ Step(h, AfterExists)
          \/ MayFail /\ Go(h, Idle)
  /\ UNCHANGED <<fixed, rows, cache, created>>

(* The pipeline of AddOwnedWorkspaceID and AddJoinedWorkspaceID is no      *)
(* transaction: other commands may come between the two.                   *)
AddRemovesEmpty(h) ==
  /\ At(h, "empty")
  /\ list' = WithoutEmpty(list) /\ Step(h, "add")
  /\ UNCHANGED <<fixed, rows, hashes, created>>

Add(h) ==
  /\ At(h, "add")
  /\ list' = With(list, req[h].k) \/ (MayFail /\ UNCHANGED list)
  /\ Go(h, Idle)
  /\ UNCHANGED <<fixed, rows, hashes, created>>

-----------------------------------------------------------------------------
(* GetWorkspacesByOwner, GetWorkspacesByMember, GetProjectsByWorkspace;    *)
(* GetWorkspaceMembers, which knows no pages.                              *)

(* The list's page, if it is cached.  A call that fails counts as a miss.  *)
Read(h, cursor) ==
  LET page == Page(list.ids, cursor) IN
  /\ MayStart(h, "read")
  /\ \/ ~ Cached(list) /\ Go(h, [at |-> "select"])
     \/ Cached(list) /\ Go(h, IF page = {} \/ which = "members" THEN Idle
                              ELSE [at |-> "hashes", ids |-> page])
     \/ MayFail /\ Go(h, [at |-> "select"])
  /\ UNCHANGED <<fixed, rows, cache, created>>

(* All rows, not only those of the page.                                   *)
Select(h) ==
  /\ At(h, "select")
  /\ Go(h, [at |-> IF which = "members" THEN "fill" ELSE "keep", ids |-> rows])
  /\ UNCHANGED <<fixed, rows, cache, created>>

KeepHashes(h) ==
  /\ At(h, "keep")
  /\ \E S \in SUBSET req[h].ids :
       /\ S = req[h].ids \/ MayFail
       /\ hashes' = hashes \cup S
  /\ Go(h, [at |-> "fill", ids |-> req[h].ids])
  /\ UNCHANGED <<fixed, rows, list, created>>

(* Mistake: only the page that was asked for becomes the list.             *)
FilledWithPage(S) == Fill(Page(S, 0))

(* SetOwnedWorkspaceIDs and its siblings.  A workspace without projects    *)
(* is not cached: the list is deleted, and nothing put in its place.       *)
Filled(S) == IF which = "projects" /\ S = {} THEN Absent ELSE Fill(S)

SetIDs(h) ==
  /\ At(h, "fill")
  /\ list' = Filled(req[h].ids) \/ (MayFail /\ UNCHANGED list)
  /\ Go(h, Idle)
  /\ UNCHANGED <<fixed, rows, hashes, created>>

GetMetas(h) ==
  /\ At(h, "hashes")
  /\ Go(h, IF req[h].ids \subseteq hashes THEN Idle
           ELSE [at |-> "complete", ids |-> req[h].ids \ hashes])
  /\ UNCHANGED <<fixed, rows, cache, created>>

(* FindByID and SetMeta for each identifier whose fields are missing.      *)
Complete(h) ==
  /\ At(h, "complete")
  /\ \E S \in SUBSET (req[h].ids \cap rows) :
       /\ S = req[h].ids \cap rows \/ MayFail
       /\ hashes' = hashes \cup S
  /\ Go(h, Idle)
  /\ UNCHANGED <<fixed, rows, list, created>>

-----------------------------------------------------------------------------
(* Time.  A key may expire between any two calls of a request.             *)

ExpireList ==
  /\ list.key = "expiring"
  /\ list' = Absent
  /\ UNCHANGED <<fixed, rows, hashes, req, created>>

ExpireHash(k) ==
  /\ k \in hashes
  /\ hashes' = hashes \ {k}
  /\ UNCHANGED <<fixed, rows, list, req, created>>

Next ==
  \/ \E h \in Handlers :
       \/ Create(h) \/ Insert(h) \/ SetMeta(h)
       \/ AddExists(h) \/ AddRemovesEmpty(h) \/ Add(h)
       \/ \E cursor \in 0 .. N : Read(h, cursor)
       \/ Select(h) \/ KeepHashes(h) \/ SetIDs(h) \/ GetMetas(h) \/ Complete(h)
  \/ ExpireList
  \/ \E k \in Ids : ExpireHash(k)

Spec == Init /\ [][Next]_vars

(* The day passes again and again, whatever requests come.                 *)
FairSpec == Spec /\ SF_vars(ExpireList)

-----------------------------------------------------------------------------
(* What reading every page of the list shows. *)
Shown == IF Cached(list) THEN list.ids ELSE rows

TypeOK ==
  /\ which \in Lists /\ mode \in Modes
  /\ rows \subseteq Ids /\ hashes \subseteq Ids /\ list \in CachedSets(Ids)
  /\ created \in 0 .. N
  /\ req \in [Handlers -> {Idle} \cup {[at |-> "select"]}
                \cup [at : Creating, k : Ids]
                \cup [at : {"keep", "fill", "hashes", "complete"}, ids : SUBSET Ids]]

(* However requests overlap and whatever calls to Redis fail, the cache    *)
(* names no workspace or project that the table does not have: an insert   *)
(* that fails, or has not happened yet, leaves no trace in Redis.          *)
NothingInvented == list.ids \cup hashes \subseteq rows

(* Creations keep the cached list complete, whenever its keys expire: once *)
(* none is under way every row is shown, on whichever page.  The one       *)
(* exception is a list that expires between the EXISTS and the ZADD of a   *)
(* creation, which begins it anew: it shows that creation and the ones     *)
(* after it.  Overlapping creations too, unless they found the list cached *)
(* as empty: removing "__empty__" drops the key and its expiry, and a      *)
(* creation that looks for the list then skips it.                         *)
SinceBegun == {k \in rows : \E j \in list.ids : j <= k}

CreationsShown ==
  AllIdle =>
    /\ mode = "alone" => Shown = IF list.key = "partial" THEN SinceBegun ELSE rows
    /\ mode = "writers" /\ list.key \notin {"lasting", "partial"} => Shown = rows

(* A list that a race or a failed command has left incomplete becomes      *)
(* complete again by expiring, if there are quiet moments, unless it has   *)
(* lost its expiry, and it stays complete after the last creation.         *)
ListHealsByExpiry ==
  /\ []<>AllIdle
  /\ <>[](list.key \notin {"lasting", "partial"})
  => <>[](AllIdle => Shown = rows)
=============================================================================
