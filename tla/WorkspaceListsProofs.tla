------------------------ MODULE WorkspaceListsProofs ------------------------
(***************************************************************************)
(* That the cache of workspaces, projects and members names only what the  *)
(* table has, for every bound on creations, pages and overlapping          *)
(* requests; and all of it, where reads and creations do not overlap.      *)
(***************************************************************************)
EXTENDS WorkspaceLists, TLAPS

RequestStates ==
  {Idle} \cup {[at |-> "select"]}
    \cup [at : Creating, k : Ids]
    \cup [at : {"keep", "fill", "hashes", "complete"}, ids : SUBSET Ids]

(* What a request is about to cache was read from the table, or has been   *)
(* inserted into it; rows are never removed.                               *)
Backed(h) ==
  /\ req[h].at \in Creating \ {"insert"} => req[h].k \in rows
  /\ req[h].at \in {"keep", "fill"} => req[h].ids \subseteq rows

IInv == TypeOK /\ NothingInvented /\ \A h \in Handlers : Backed(h)

-----------------------------------------------------------------------------
(* The operations on the cached set keep its shape and its members. *)

(* A list that has been filled holds what it was filled with.              *)
LEMMA FilledTyped ==
  ASSUME NEW S \in SUBSET Ids
  PROVE  Filled(S) \in CachedSets(Ids) /\ Filled(S).ids \subseteq S
BY DEF Filled, Fill, Absent, Cached, CachedSets

(* Removing "__empty__" removes no identifier.                             *)
LEMMA WithoutEmptyTyped ==
  ASSUME NEW c \in CachedSets(Ids)
  PROVE  WithoutEmpty(c) \in CachedSets(Ids) /\ WithoutEmpty(c).ids \subseteq c.ids
BY DEF WithoutEmpty, Emptied, Cached, CachedSets

(* Adding an identifier adds nothing else.                                 *)
LEMMA WithTyped ==
  ASSUME NEW c \in CachedSets(Ids), NEW k \in Ids
  PROVE  With(c, k) \in CachedSets(Ids) /\ With(c, k).ids = c.ids \cup {k}
<1>1. /\ With(c, k).ids = c.ids \cup {k}
      /\ With(c, k).key = IF c.key = "absent" THEN "partial"
                          ELSE IF c.key = "emptied" THEN "lasting" ELSE c.key
      /\ With(c, k) = [key |-> With(c, k).key, ids |-> With(c, k).ids]
  BY DEF With
<1>2. c.key \in {"absent", "emptied", "expiring", "lasting", "partial"} /\ c.ids \subseteq Ids
  BY DEF CachedSets
<1> QED BY <1>1, <1>2 DEF CachedSets, Cached

(* A request moves to a step of its own and leaves the others alone.       *)
LEMMA GoTyped ==
  ASSUME TypeOK, NEW h \in Handlers, NEW r \in RequestStates, Go(h, r)
  PROVE  /\ req' \in [Handlers -> RequestStates]
         /\ req'[h] = r /\ \A g \in Handlers \ {h} : req'[g] = req[g]
BY DEF TypeOK, Go, RequestStates

(* A creation at work carries its identifier, a read its set of them.      *)
LEMMA Carried ==
  ASSUME TypeOK, NEW h \in Handlers
  PROVE  /\ req[h].at \in Creating => req[h].k \in Ids
         /\ req[h].at \in {"keep", "fill", "hashes", "complete"} => req[h].ids \subseteq Ids
BY DEF TypeOK, Creating, Idle

(* While the table keeps its rows, the request that moves is the only one  *)
(* whose backing has to be looked at again.                                *)
LEMMA Moves ==
  ASSUME IInv, NEW h \in Handlers, NEW r \in RequestStates, Go(h, r),
         rows \subseteq rows', rows' \subseteq Ids, UNCHANGED fixed,
         list' \in CachedSets(Ids), hashes' \subseteq Ids, created' \in 0 .. N,
         list'.ids \subseteq rows', hashes' \subseteq rows',
         r.at \in Creating \ {"insert"} => r.k \in rows',
         r.at \in {"keep", "fill"} => r.ids \subseteq rows'
  PROVE  IInv'
<1>1. /\ req' \in [Handlers -> RequestStates]
      /\ req'[h] = r /\ \A g \in Handlers \ {h} : req'[g] = req[g]
  BY GoTyped DEF IInv
<1>2. TypeOK' BY <1>1 DEF IInv, TypeOK, RequestStates, fixed, Ids, Handlers, Creating, Idle
<1>3. \A g \in Handlers : Backed(g)' BY <1>1 DEF IInv, Backed
<1> QED BY <1>2, <1>3 DEF IInv, NothingInvented

(* At first nothing is cached and nothing is under way. *)
LEMMA InitIInv == Init => IInv
BY BoundsAssumption DEF Init, IInv, TypeOK, NothingInvented, Backed, Absent, Cached, CachedSets, Idle, Creating

(* A creation caches its identifier after the row was inserted, or never. *)
LEMMA CreationStep ==
  ASSUME IInv, NEW h \in Handlers,
         Create(h) \/ Insert(h) \/ SetMeta(h) \/ AddExists(h) \/ AddRemovesEmpty(h) \/ Add(h)
  PROVE  IInv'
<1>0. /\ TypeOK /\ Idle \in RequestStates /\ Idle.at \notin Creating \cup {"keep", "fill"}
      /\ rows \subseteq Ids /\ list \in CachedSets(Ids) /\ hashes \subseteq Ids /\ created \in 0 .. N
      /\ list.ids \subseteq rows /\ hashes \subseteq rows
  BY DEF IInv, TypeOK, NothingInvented, RequestStates, Idle, Creating
<1>1. ASSUME req[h].at \in Creating, NEW step \in Creating
      PROVE  [at |-> step, k |-> req[h].k] \in RequestStates
  BY <1>0, <1>1, Carried DEF RequestStates
<1>2. CASE Create(h)
  <2>1. created' \in 0 .. N /\ created' \in Ids
    BY <1>0, <1>2, BoundsAssumption DEF Create, Ids
  <2>2. [at |-> "insert", k |-> created'] \in RequestStates
    BY <2>1 DEF RequestStates, Creating
  <2> QED BY <1>0, <1>2, <2>1, <2>2, Moves DEF Create, cache
<1>3. CASE Insert(h)
  <2>1. req[h].k \in Ids BY <1>0, <1>3, Carried DEF Insert, At, Creating
  <2>2. [at |-> AfterInsert, k |-> req[h].k] \in RequestStates
    BY <1>1, <1>3 DEF Insert, At, AfterInsert, Creating
  <2>3. CASE Go(h, Idle) /\ rows' = rows BY <1>0, <1>3, <2>3, Moves DEF Insert, cache
  <2>4. CASE Step(h, AfterInsert) /\ rows' = rows \cup {req[h].k}
    <3>1. AfterInsert \notin {"keep", "fill"} BY DEF AfterInsert
    <3> QED BY <1>0, <1>3, <2>1, <2>2, <2>4, <3>1, Moves DEF Insert, Step, cache
  <2> QED BY <1>3, <2>3, <2>4 DEF Insert
<1>4. CASE SetMeta(h)
  <2>1. req[h].k \in Ids /\ req[h].k \in rows
    BY <1>0, <1>4, Carried DEF SetMeta, At, Creating, IInv, Backed
  <2>2. [at |-> "exists", k |-> req[h].k] \in RequestStates
    BY <1>1, <1>4 DEF SetMeta, At, Creating
  <2> QED BY <1>0, <1>4, <2>1, <2>2, Moves DEF SetMeta, Step
<1>5. CASE AddExists(h)
  <2>1. req[h].k \in rows BY <1>5 DEF AddExists, At, Creating, IInv, Backed
  <2>2. [at |-> AfterExists, k |-> req[h].k] \in RequestStates
    BY <1>1, <1>5 DEF AddExists, At, AfterExists, Creating
  <2>3. CASE Go(h, Idle) BY <1>0, <1>5, <2>3, Moves DEF AddExists, cache
  <2>4. CASE Step(h, AfterExists)
    <3>1. AfterExists \notin {"keep", "fill"} BY DEF AfterExists
    <3> QED BY <1>0, <1>5, <2>1, <2>2, <2>4, <3>1, Moves DEF AddExists, Step, cache
  <2> QED BY <1>5, <2>3, <2>4 DEF AddExists
<1>6. CASE AddRemovesEmpty(h)
  <2>1. req[h].k \in rows BY <1>6 DEF AddRemovesEmpty, At, Creating, IInv, Backed
  <2>2. [at |-> "add", k |-> req[h].k] \in RequestStates
    BY <1>1, <1>6 DEF AddRemovesEmpty, At, Creating
  <2>3. list' \in CachedSets(Ids) /\ list'.ids \subseteq list.ids
    BY <1>0, <1>6, WithoutEmptyTyped DEF AddRemovesEmpty
  <2> QED BY <1>0, <1>6, <2>1, <2>2, <2>3, Moves DEF AddRemovesEmpty, Step
<1>7. CASE Add(h)
  <2>1. req[h].k \in Ids /\ req[h].k \in rows
    BY <1>0, <1>7, Carried DEF Add, At, Creating, IInv, Backed
  <2>2. list' \in CachedSets(Ids) /\ list'.ids \subseteq rows
    BY <1>0, <1>7, <2>1, WithTyped DEF Add
  <2> QED BY <1>0, <1>7, <2>2, Moves DEF Add
<1> QED BY <1>2, <1>3, <1>4, <1>5, <1>6, <1>7

(* A read caches what it has read, and rows stay. *)
LEMMA ReadStep ==
  ASSUME IInv, NEW h \in Handlers,
         (\E cursor \in 0 .. N : Read(h, cursor)) \/ Select(h) \/ KeepHashes(h)
           \/ SetIDs(h) \/ GetMetas(h) \/ Complete(h)
  PROVE  IInv'
<1>0. /\ TypeOK /\ Idle \in RequestStates /\ Idle.at \notin Creating \cup {"keep", "fill"}
      /\ rows \subseteq Ids /\ list \in CachedSets(Ids) /\ hashes \subseteq Ids /\ created \in 0 .. N
      /\ list.ids \subseteq rows /\ hashes \subseteq rows
  BY DEF IInv, TypeOK, NothingInvented, RequestStates, Idle, Creating
<1>1. ASSUME NEW S \in SUBSET Ids, NEW step \in {"keep", "fill", "hashes", "complete"}
      PROVE  [at |-> step, ids |-> S] \in RequestStates
  BY <1>1 DEF RequestStates
<1>2. ASSUME NEW cursor \in 0 .. N, Read(h, cursor) PROVE IInv'
  <2>1. UNCHANGED <<fixed, rows, cache, created>> BY <1>2 DEF Read
  <2>2. CASE Go(h, [at |-> "select"])
    <3>1. [at |-> "select"] \in RequestStates BY DEF RequestStates
    <3> QED BY <1>0, <2>1, <2>2, <3>1, Moves DEF cache, Creating
  <2>3. CASE Go(h, Idle) BY <1>0, <2>1, <2>3, Moves DEF cache
  <2>4. CASE Go(h, [at |-> "hashes", ids |-> Page(list.ids, cursor)])
    <3>1. Page(list.ids, cursor) \in SUBSET Ids BY <1>0 DEF Page
    <3>2. [at |-> "hashes", ids |-> Page(list.ids, cursor)] \in RequestStates BY <1>1, <3>1
    <3> QED BY <1>0, <2>1, <2>4, <3>2, Moves DEF cache, Creating
  <2> QED BY <1>2, <2>2, <2>3, <2>4 DEF Read
<1>3. CASE Select(h)
  <2>1. [at |-> IF which = "members" THEN "fill" ELSE "keep", ids |-> rows] \in RequestStates
    BY <1>0, <1>1
  <2> QED BY <1>0, <1>3, <2>1, Moves DEF Select, cache, Creating
<1>4. CASE KeepHashes(h)
  <2>1. req[h].ids \subseteq rows /\ req[h].ids \in SUBSET Ids
    BY <1>0, <1>4 DEF KeepHashes, At, IInv, Backed
  <2>2. hashes' \subseteq rows BY <1>0, <1>4, <2>1 DEF KeepHashes
  <2>3. [at |-> "fill", ids |-> req[h].ids] \in RequestStates BY <1>1, <2>1
  <2> QED BY <1>0, <1>4, <2>1, <2>2, <2>3, Moves DEF KeepHashes, Creating
<1>5. CASE SetIDs(h)
  <2>1. req[h].ids \subseteq rows /\ req[h].ids \in SUBSET Ids
    BY <1>0, <1>5 DEF SetIDs, At, IInv, Backed
  <2>2. list' \in CachedSets(Ids) /\ list'.ids \subseteq rows
    BY <1>0, <1>5, <2>1, FilledTyped DEF SetIDs
  <2> QED BY <1>0, <1>5, <2>2, Moves DEF SetIDs
<1>6. CASE GetMetas(h)
  <2>1. req[h].ids \ hashes \in SUBSET Ids
    BY <1>0, <1>6, Carried DEF GetMetas, At
  <2>2. [at |-> "complete", ids |-> req[h].ids \ hashes] \in RequestStates BY <1>1, <2>1
  <2>3. CASE Go(h, Idle) BY <1>0, <1>6, <2>3, Moves DEF GetMetas, cache
  <2>4. CASE Go(h, [at |-> "complete", ids |-> req[h].ids \ hashes])
    BY <1>0, <1>6, <2>2, <2>4, Moves DEF GetMetas, cache, Creating
  <2> QED BY <1>6, <2>3, <2>4 DEF GetMetas
<1>7. CASE Complete(h)
  <2>1. hashes' \subseteq rows BY <1>0, <1>7 DEF Complete
  <2> QED BY <1>0, <1>7, <2>1, Moves DEF Complete
<1> QED BY <1>2, <1>3, <1>4, <1>5, <1>6, <1>7

(* So does everything else: expiry only takes away. *)
LEMMA StepIInv == IInv /\ [Next]_vars => IInv'
<1> SUFFICES ASSUME IInv, [Next]_vars PROVE IInv'
  OBVIOUS
<1> USE DEF IInv, TypeOK, NothingInvented, Backed
<1>1. CASE ExpireList
  BY <1>1 DEF ExpireList, Absent, Cached, CachedSets, fixed
<1>2. ASSUME NEW k \in Ids, ExpireHash(k) PROVE IInv'
  BY <1>2 DEF ExpireHash, fixed
<1>3. CASE UNCHANGED vars
  BY <1>3 DEF vars, fixed, cache
<1> QED BY <1>1, <1>2, <1>3, CreationStep, ReadStep DEF Next

(* The lists, the hashes and the requests keep their types.                *)
THEOREM TypeCorrect == Spec => []TypeOK
<1>1. IInv => TypeOK BY DEF IInv
<1> QED BY <1>1, InitIInv, StepIInv, PTL DEF Spec

(* However requests overlap, whatever calls to Redis fail and whichever    *)
(* keys expire, the cache names nothing that is not in the table.          *)
THEOREM NoPhantoms == Spec => []NothingInvented
<1>1. IInv => NothingInvented BY DEF IInv
<1> QED BY <1>1, InitIInv, StepIInv, PTL DEF Spec

-----------------------------------------------------------------------------
(* That creations keep the list complete.                                  *)

(* Who overlaps with whom. *)
OneAtATime ==
  mode = "alone" => \A h, g \in Handlers : req[h] # Idle /\ req[g] # Idle => h = g

ReadsAlone ==
  mode # "free" =>
    \A h \in Handlers : req[h].at \notin Creating \cup {"idle"} =>
      \A g \in Handlers \ {h} : req[g] = Idle

(* So a read that fills the list fills it with the whole table.            *)
ReadsAll ==
  mode # "free" =>
    \A h \in Handlers : req[h].at \in {"keep", "fill"} => req[h].ids = rows

(* A row that a cached list lacks has its creation under way.  A list that *)
(* a creation has found empty is gone only until that creation adds to it. *)
Extending(k) ==
  \E h \in Handlers : req[h].at \in Creating \ {"insert"} /\ req[h].k = k

Owed(l, R) ==
  IF mode = "alone" /\ l.key = "partial" THEN {k \in R : \E j \in l.ids : j <= k} ELSE R

Kept(l) ==
  Cached(l) /\ (mode = "alone" \/ (mode = "writers" /\ l.key \notin {"lasting", "partial"}))

MissingComing == Kept(list) => \A k \in Owed(list, rows) \ list.ids : Extending(k)

EmptyRemoved ==
  mode = "alone" /\ list.key = "emptied" =>
    \E h \in Handlers : req[h].at = "add" /\ rows \subseteq {req[h].k}

(* One at a time, the creation under way has the latest identifier, so a   *)
(* list it begins anew lacks no later row.                                 *)
InOrder ==
  mode = "alone" =>
    /\ rows \subseteq 1 .. created
    /\ \A h \in Handlers : req[h].at \in Creating => req[h].k = created

ShownInv ==
  /\ IInv /\ OneAtATime /\ ReadsAlone /\ ReadsAll
  /\ MissingComing /\ EmptyRemoved /\ InOrder

HandlerStep(h) ==
  \/ Create(h) \/ Insert(h) \/ SetMeta(h) \/ AddExists(h) \/ AddRemovesEmpty(h) \/ Add(h)
  \/ \E cursor \in 0 .. N : Read(h, cursor)
  \/ Select(h) \/ KeepHashes(h) \/ SetIDs(h) \/ GetMetas(h) \/ Complete(h)

Same(h, from, to) == req[h].at \in from /\ req'[h].at \in to /\ req'[h].k = req[h].k

(* The steps of a handler where no call fails, as far as rows, list and    *)
(* requests go.                                                            *)
LEMMA HandlerMoves ==
  ASSUME IInv, NEW h \in Handlers, HandlerStep(h), mode # "free"
  PROVE  /\ UNCHANGED fixed /\ \A g \in Handlers \ {h} : req'[g] = req[g]
         /\ req'[h].at # "insert" => created' = created
         /\ \/ /\ rows' = rows /\ list' = list /\ MayStart(h, "create")
               /\ req'[h].at = "insert" /\ req'[h].k = created' /\ created' = created + 1
            \/ /\ rows' = rows /\ list' = list /\ AllIdle
               /\ req'[h].at \in {"select", "hashes", "idle"}
            \/ /\ rows' = rows \cup {req[h].k} /\ list' = list
               /\ Same(h, {"insert"}, {"hash", "exists"})
            \/ /\ rows' = rows /\ list' = list
               /\ req[h].at = "insert" /\ req'[h] = Idle
            \/ /\ rows' = rows /\ list' = list
               /\ Same(h, {"hash"}, {"exists"})
            \/ /\ rows' = rows /\ list' = list /\ Cached(list)
               /\ Same(h, {"exists"}, {"empty", "add"})
            \/ /\ rows' = rows /\ list' = list /\ ~ Cached(list)
               /\ req[h].at = "exists" /\ req'[h] = Idle
            \/ /\ rows' = rows /\ list' = WithoutEmpty(list)
               /\ Same(h, {"empty"}, {"add"})
            \/ /\ rows' = rows /\ list' = With(list, req[h].k)
               /\ req[h].at = "add" /\ req'[h] = Idle
            \/ /\ rows' = rows /\ list' = list
               /\ req[h].at = "select" /\ req'[h].at \in {"keep", "fill"} /\ req'[h].ids = rows
            \/ /\ rows' = rows /\ list' = list
               /\ req[h].at = "keep" /\ req'[h].at = "fill" /\ req'[h].ids = req[h].ids
            \/ /\ rows' = rows /\ list' = Filled(req[h].ids)
               /\ req[h].at = "fill" /\ req'[h] = Idle
            \/ /\ rows' = rows /\ list' = list
               /\ req[h].at \in {"hashes", "complete"} /\ req'[h].at \in {"complete", "idle"}
<1>h. \A r : Go(h, r) => req'[h] = r /\ \A g \in Handlers \ {h} : req'[g] = req[g]
  BY DEF Go, IInv, TypeOK
<1>s. \A step : Step(h, step) =>
        /\ req'[h].at = step /\ req'[h].k = req[h].k
        /\ \A g \in Handlers \ {h} : req'[g] = req[g]
  BY <1>h DEF Step
<1>i. Idle.at = "idle" BY DEF Idle
<1>f. ~MayFail BY DEF MayFail
<1> USE DEF cache, At, Same
<1>1. CASE Create(h) BY <1>1, <1>h DEF Create
<1>2. CASE Insert(h) BY <1>2, <1>h, <1>s DEF Insert, AfterInsert
<1>3. CASE SetMeta(h) BY <1>3, <1>s DEF SetMeta
<1>4. CASE AddExists(h) BY <1>4, <1>f, <1>h, <1>s DEF AddExists, AfterExists
<1>5. CASE AddRemovesEmpty(h) BY <1>5, <1>s DEF AddRemovesEmpty
<1>6. CASE Add(h) BY <1>6, <1>f, <1>h DEF Add
<1>7. ASSUME NEW cursor \in 0 .. N, Read(h, cursor)
      PROVE  /\ UNCHANGED fixed /\ \A g \in Handlers \ {h} : req'[g] = req[g]
             /\ rows' = rows /\ list' = list /\ created' = created /\ AllIdle
             /\ req'[h].at \in {"select", "hashes", "idle"}
  <2>1. AllIdle BY <1>7 DEF Read, MayStart
  <2>2. UNCHANGED fixed /\ rows' = rows /\ list' = list /\ created' = created BY <1>7 DEF Read
  <2>3. \E r : Go(h, r) /\ r.at \in {"select", "hashes", "idle"} BY <1>7, <1>i DEF Read
  <2> QED BY <1>h, <2>1, <2>2, <2>3
<1>8. CASE Select(h) BY <1>8, <1>h DEF Select
<1>9. CASE KeepHashes(h) BY <1>9, <1>h DEF KeepHashes
<1>10. CASE SetIDs(h) BY <1>10, <1>f, <1>h DEF SetIDs
<1>11. CASE GetMetas(h) BY <1>11, <1>h, <1>i DEF GetMetas
<1>12. CASE Complete(h) BY <1>12, <1>h, <1>i DEF Complete
<1> QED BY <1>1, <1>2, <1>3, <1>4, <1>5, <1>6, <1>7, <1>8, <1>9, <1>10, <1>11, <1>12
        DEF HandlerStep

(* A request is idle exactly if it says so. *)
LEMMA IdleStep ==
  ASSUME TypeOK, NEW h \in Handlers
  PROVE  req[h].at = "idle" <=> req[h] = Idle
BY DEF TypeOK, Idle, Creating

LEMMA OverlapStep ==
  ASSUME ShownInv, NEW h \in Handlers, HandlerStep(h), mode # "free"
  PROVE  OneAtATime' /\ ReadsAlone' /\ ReadsAll'
<1>0. IInv /\ TypeOK /\ OneAtATime /\ ReadsAlone /\ ReadsAll BY DEF ShownInv, IInv
<1>1. mode' = mode /\ \A g \in Handlers \ {h} : req'[g] = req[g]
  BY <1>0, HandlerMoves DEF fixed
<1>2. req[h] # Idle \/ MayStart(h, "create") \/ AllIdle
  BY <1>0, HandlerMoves DEF Same, Idle
<1>3. OneAtATime'
  <2> SUFFICES ASSUME mode = "alone" PROVE \A g \in Handlers \ {h} : req'[g] = Idle
    BY <1>1 DEF OneAtATime
  <2>1. \A g \in Handlers \ {h} : req[g] = Idle
    BY <1>0, <1>2 DEF OneAtATime, AllIdle, MayStart
  <2> QED BY <1>1, <2>1
<1>4. ReadsAlone'
  <2> SUFFICES ASSUME NEW f \in Handlers, req'[f].at \notin Creating \cup {"idle"},
                      NEW g \in Handlers \ {f}
               PROVE  req'[g] = Idle
    BY DEF ReadsAlone
  <2>1. CASE f = h
    <3>1. AllIdle \/ req[h].at \notin Creating \cup {"idle"}
      BY <1>0, <2>1, HandlerMoves DEF Same, Creating, Idle
    <3> QED BY <1>0, <1>1, <2>1, <3>1 DEF ReadsAlone, AllIdle
  <2>2. CASE f # h
    <3>1. req'[f] = req[f] /\ req[f] # Idle BY <1>1, <2>2 DEF Idle
    <3>2. req[h] = Idle BY <1>0, <2>2, <3>1 DEF ReadsAlone
    <3>3. MayStart(h, "create") /\ ~AllIdle BY <1>2, <3>1, <3>2 DEF AllIdle
    <3>4. req[f].at \in Creating \cup {"idle"} BY <3>3 DEF MayStart
    <3> QED BY <2>2, <3>1, <3>4
  <2> QED BY <2>1, <2>2
<1>5. ReadsAll'
  <2> SUFFICES ASSUME NEW f \in Handlers, req'[f].at \in {"keep", "fill"}
               PROVE  req'[f].ids = rows'
    BY DEF ReadsAll
  <2>1. CASE f = h
    BY <1>0, <2>1, HandlerMoves DEF Same, ReadsAll, Idle
  <2>2. CASE f # h
    <3>1. req'[f] = req[f] BY <1>1, <2>2
    <3>2. req[h] = Idle BY <1>0, <2>2, <3>1 DEF ReadsAlone, Creating
    <3>3. rows' = rows BY <1>0, <3>2, HandlerMoves DEF Same, Idle
    <3> QED BY <1>0, <3>1, <3>3 DEF ReadsAll
  <2> QED BY <2>1, <2>2
<1> QED BY <1>3, <1>4, <1>5

(* A list that was there and is there still lacks a row only as long as    *)
(* its creation goes on; one that comes into being has all of them.        *)
LEMMA MissingStep ==
  ASSUME ShownInv, NEW h \in Handlers, HandlerStep(h), mode # "free"
  PROVE  MissingComing'
<1>0. /\ IInv /\ TypeOK /\ OneAtATime /\ ReadsAlone /\ ReadsAll /\ MissingComing /\ EmptyRemoved
      /\ InOrder
  BY DEF ShownInv, IInv
<1>1. mode' = mode /\ \A g \in Handlers \ {h} : req'[g] = req[g]
  BY <1>0, HandlerMoves DEF fixed
<1> SUFFICES ASSUME Kept(list'), NEW k \in Owed(list', rows'), k \notin list'.ids
             PROVE  Extending(k)'
  BY <1>1 DEF MissingComing, Kept, Owed
<1>2. list \in CachedSets(Ids) BY <1>0 DEF TypeOK
(* The creations that others have under way are still. *)
<1>3. ASSUME NEW g \in Handlers, req[g].at \in Creating \ {"insert"}, req[g].k = k,
             req'[g] = req[g] \/ (req'[g].at \in Creating \ {"insert"} /\ req'[g].k = k)
      PROVE  Extending(k)'
  BY <1>3 DEF Extending
<1>4. CASE list' = list
  <2>1. Kept(list) BY <1>4
  <2>2. CASE k \in rows
    <3>0. k \in Owed(list, rows) BY <1>4, <2>2 DEF Owed
    <3>1. PICK g \in Handlers : req[g].at \in Creating \ {"insert"} /\ req[g].k = k
      BY <1>0, <1>4, <2>1, <3>0 DEF MissingComing, Extending
    <3>2. CASE g # h BY <1>1, <1>3, <3>1, <3>2
    <3>3. CASE g = h
      <4>1. req[h].at \in {"hash", "exists", "empty", "add"} /\ req[h].k = k
        BY <3>1, <3>3 DEF Creating
      <4>2. Cached(list) BY <2>1 DEF Kept
      <4>3. \/ Same(h, {"hash"}, {"exists"})
            \/ Same(h, {"exists"}, {"empty", "add"})
            \/ Same(h, {"empty"}, {"add"})
            \/ list' = With(list, req[h].k)
        BY <1>0, <4>1, <4>2, HandlerMoves DEF Same, Idle, AllIdle, MayStart
      <4>4. CASE Same(h, {"hash"}, {"exists"}) \/ Same(h, {"exists"}, {"empty", "add"})
                   \/ Same(h, {"empty"}, {"add"})
        <5>1. req'[h].at \in Creating \ {"insert"} /\ req'[h].k = k
          BY <4>1, <4>4 DEF Same, Creating
        <5> QED BY <1>3, <3>1, <3>3, <5>1
      <4>5. CASE list' = With(list, req[h].k) BY <4>1, <4>5 DEF With
      <4> QED BY <4>3, <4>4, <4>5
    <3> QED BY <3>2, <3>3
  <2>3. CASE k \notin rows
    <3>0. k \in rows' BY DEF Owed
    <3>1. rows' = rows \cup {req[h].k} /\ Same(h, {"insert"}, {"hash", "exists"})
      BY <1>0, <2>3, <3>0, HandlerMoves
    <3>2. req'[h].at \in Creating \ {"insert"} /\ req'[h].k = k
      BY <2>3, <3>0, <3>1 DEF Same, Creating
    <3> QED BY <3>2 DEF Extending
  <2> QED BY <2>2, <2>3
<1>5. CASE rows' = rows /\ list' = WithoutEmpty(list) /\ Same(h, {"empty"}, {"add"})
  <2>1. list' = list BY <1>5 DEF WithoutEmpty, Emptied, Cached, Kept
  <2> QED BY <1>4, <2>1
<1>6. CASE rows' = rows /\ list' = With(list, req[h].k) /\ req[h].at = "add" /\ req'[h] = Idle
  <2>0. list'.ids = list.ids \cup {req[h].k} /\ k \in rows BY <1>6 DEF With, Owed
  <2>1. k # req[h].k /\ k \notin list.ids BY <2>0
  <2>2. ASSUME mode = "alone" PROVE ~ (req[h].k <= k)
    <3>1. req[h].k = created /\ k \in 1 .. created /\ created \in 0 .. N
      BY <1>0, <1>6, <2>0, <2>2 DEF InOrder, Creating, TypeOK
    <3> QED BY <2>1, <3>1, BoundsAssumption
  <2>3. CASE Cached(list)
    <3>1. list'.key = list.key BY <1>6, <2>3 DEF With, Cached
    <3>2. Kept(list) BY <2>3, <3>1 DEF Kept
    <3>3. k \in Owed(list, rows) BY <1>6, <2>0, <2>2, <3>1 DEF Owed
    <3>4. PICK g \in Handlers : req[g].at \in Creating \ {"insert"} /\ req[g].k = k
      BY <1>0, <2>1, <3>2, <3>3 DEF MissingComing, Extending
    <3>5. g # h BY <2>1, <3>4
    <3> QED BY <1>1, <1>3, <3>4, <3>5
  <2>4. CASE list.key = "emptied"
    <3>1. list'.key = "lasting" BY <1>6, <2>4 DEF With
    <3>2. mode = "alone" BY <3>1 DEF Kept
    <3>3. PICK g \in Handlers : req[g].at = "add" /\ rows \subseteq {req[g].k}
      BY <1>0, <2>4, <3>2 DEF EmptyRemoved
    <3>4. g = h BY <1>0, <1>6, <3>2, <3>3 DEF OneAtATime, Idle
    <3> QED BY <2>0, <2>1, <3>3, <3>4
  <2>5. CASE list.key = "absent"
    <3>1. list'.key = "partial" /\ list.ids = {} BY <1>2, <1>6, <2>5 DEF With, CachedSets, Cached
    <3>2. mode = "alone" BY <3>1 DEF Kept
    <3> QED BY <2>0, <2>2, <3>1, <3>2 DEF Owed
  <2> QED BY <2>3, <2>4, <2>5 DEF Cached
<1>7. CASE rows' = rows /\ list' = Filled(req[h].ids) /\ req[h].at = "fill"
  <2>1. req[h].ids = rows BY <1>0, <1>7 DEF ReadsAll
  <2> QED BY <1>7, <2>1 DEF Filled, Fill, Absent, Owed, Kept, Cached
<1> QED BY <1>0, <1>4, <1>5, <1>6, <1>7, HandlerMoves

(* Alone, a creation that finds the list empty is the only row's.          *)
LEMMA EmptyStep ==
  ASSUME ShownInv, NEW h \in Handlers, HandlerStep(h), mode # "free"
  PROVE  EmptyRemoved' /\ InOrder'
<1>0. IInv /\ TypeOK /\ OneAtATime /\ MissingComing /\ EmptyRemoved /\ InOrder
  BY DEF ShownInv, IInv
<1>m. mode' = mode BY <1>0, HandlerMoves DEF fixed
<1> SUFFICES ASSUME mode = "alone"
             PROVE  /\ list'.key = "emptied" => req'[h].at = "add" /\ rows' \subseteq {req'[h].k}
                    /\ rows' \subseteq 1 .. created'
                    /\ \A f \in Handlers : req'[f].at \in Creating => req'[f].k = created'
  BY <1>m DEF EmptyRemoved, InOrder
<1>1. \A g \in Handlers \ {h} : req'[g] = Idle /\ req[g] = Idle
  <2>1. \A g \in Handlers \ {h} : req'[g] = req[g] BY <1>0, HandlerMoves
  <2>2. req[h] # Idle \/ AllIdle BY <1>0, HandlerMoves DEF Same, Idle, MayStart
  <2> QED BY <1>0, <2>1, <2>2 DEF OneAtATime, AllIdle
<1>2. ASSUME list'.key = "emptied" PROVE req'[h].at = "add" /\ rows' \subseteq {req'[h].k}
  <2>0. list.key = "emptied" => req[h].at = "add" BY <1>1 DEF ShownInv, EmptyRemoved, Idle
  <2>1. CASE rows' = rows /\ list' = WithoutEmpty(list) /\ Same(h, {"empty"}, {"add"})
    <3>1. Cached(list) /\ list.ids = {} BY <1>2, <2>0, <2>1 DEF WithoutEmpty, Same
    <3>2. list.key # "partial" BY <1>0, <3>1 DEF TypeOK, CachedSets
    <3>3. \A k \in rows : Extending(k) BY <1>0, <3>1, <3>2 DEF MissingComing, Kept, Owed
    <3>4. \A k \in rows : k = req[h].k BY <1>1, <3>3 DEF Extending, Creating, Idle
    <3> QED BY <2>1, <3>4 DEF Same
  <2>2. CASE list' = list /\ req[h].at # "add" BY <1>2, <2>0, <2>2
  <2>3. CASE list' = With(list, req[h].k)
    <3>1. list'.key # "emptied" BY <2>3 DEF With
    <3> QED BY <1>2, <3>1
  <2>4. CASE list' = Filled(req[h].ids) BY <1>2, <2>4 DEF Filled, Fill, Absent
  <2> QED BY <1>0, <2>1, <2>2, <2>3, <2>4, HandlerMoves DEF Same, Idle, AllIdle, MayStart
<1>3. rows \subseteq 1 .. created /\ created \in Nat /\ (req[h].at \in Creating => req[h].k = created)
  BY <1>0, BoundsAssumption DEF InOrder, TypeOK
<1>4. CASE rows' = rows /\ req'[h].at = "insert" /\ req'[h].k = created' /\ created' = created + 1
  BY <1>1, <1>2, <1>3, <1>4 DEF Idle, Creating
<1>5. CASE rows' = rows \cup {req[h].k} /\ Same(h, {"insert"}, {"hash", "exists"})
  <2>1. created' = created /\ req[h].k = created /\ req'[h].k = created
    BY <1>0, <1>3, <1>5, HandlerMoves DEF Same, Creating
  <2>2. created \in 1 .. created
    BY <1>0, <1>3, <1>5, <2>1, Carried DEF Same, Creating, Ids
  <2> QED BY <1>1, <1>2, <1>3, <1>5, <2>1, <2>2 DEF Idle, Creating
<1>6. CASE rows' = rows /\ req'[h].at # "insert" /\
           (req'[h].at \in Creating => req[h].at \in Creating /\ req'[h].k = req[h].k)
  <2>1. created' = created BY <1>0, <1>6, HandlerMoves
  <2> QED BY <1>1, <1>2, <1>3, <1>6, <2>1 DEF Idle, Creating
<1> QED BY <1>0, <1>4, <1>5, <1>6, HandlerMoves DEF Same, Idle, Creating

LEMMA StepShownInv == ShownInv /\ [Next]_vars => ShownInv'
<1> SUFFICES ASSUME ShownInv, [Next]_vars PROVE ShownInv'
  OBVIOUS
<1>0. /\ IInv /\ TypeOK /\ OneAtATime /\ ReadsAlone /\ ReadsAll /\ MissingComing /\ EmptyRemoved
      /\ InOrder /\ IInv'
  BY StepIInv DEF ShownInv, IInv
<1>1. CASE mode = "free"
  <2>1. mode' = mode
    BY <1>1 DEF Next, Create, Insert, SetMeta, AddExists, AddRemovesEmpty, Add, Read, Select,
       KeepHashes, SetIDs, GetMetas, Complete, ExpireList, ExpireHash, vars, fixed
  <2> QED BY <1>0, <1>1, <2>1 DEF ShownInv, OneAtATime, ReadsAlone, ReadsAll, MissingComing, Kept,
       EmptyRemoved, InOrder
<1>2. CASE mode # "free"
  <2>1. ASSUME NEW h \in Handlers, HandlerStep(h) PROVE ShownInv'
    BY <1>0, <1>2, <2>1, OverlapStep, MissingStep, EmptyStep DEF ShownInv
  <2>2. CASE ExpireList
    BY <1>0, <1>2, <2>2 DEF ExpireList, Absent, Cached, Kept, fixed, ShownInv, OneAtATime, ReadsAlone,
       ReadsAll, MissingComing, EmptyRemoved, InOrder
  <2>3. CASE UNCHANGED <<fixed, rows, list, req, created>>
    BY <1>0, <2>3 DEF fixed, ShownInv, OneAtATime, ReadsAlone, ReadsAll, MissingComing, Kept, Owed,
       EmptyRemoved, InOrder, Extending
  <2>4. CASE UNCHANGED vars BY <2>3, <2>4 DEF vars, cache
  <2>5. ASSUME NEW k \in Ids, ExpireHash(k) PROVE ShownInv' BY <2>3, <2>5 DEF ExpireHash
  <2> QED BY <2>1, <2>2, <2>4, <2>5 DEF Next, HandlerStep
<1> QED BY <1>1, <1>2

LEMMA InitShownInv == Init => ShownInv
BY InitIInv DEF Init, ShownInv, OneAtATime, ReadsAlone, ReadsAll, MissingComing, Kept, EmptyRemoved,
   InOrder, Absent, Cached, Idle, Creating

(* One request at a time, and with overlapping creations as long as none   *)
(* has found the list cached as empty, every row is on the pages of the    *)
(* list, whenever its keys expire; a list begun anew after it had expired  *)
(* under a creation shows that creation and each one since.  For every     *)
(* number of creations and each of the four lists.                         *)
THEOREM ListsComplete == Spec => []CreationsShown
<1>1. ShownInv => CreationsShown
  <2> SUFFICES ASSUME ShownInv, AllIdle, Kept(list) \/ (~ Cached(list)) PROVE Shown = Owed(list, rows)
    <3>1. list \in CachedSets(Ids) => (list.key = "partial" => Cached(list)) BY DEF Cached
    <3>2. Owed(list, rows) = IF mode = "alone" /\ list.key = "partial" THEN SinceBegun ELSE rows
      BY DEF Owed, SinceBegun
    <3> QED BY <3>2 DEF CreationsShown, Kept
  <2>1. \A k : ~Extending(k) BY DEF AllIdle, Extending, Creating, Idle
  <2>2. list.ids \subseteq rows /\ \A k \in list.ids : k <= k
    <3>1. list.ids \subseteq rows /\ rows \subseteq Ids BY DEF ShownInv, IInv, NothingInvented, TypeOK
    <3>2. \A k \in Ids : k <= k BY BoundsAssumption DEF Ids
    <3> QED BY <3>1, <3>2
  <2>3. Kept(list) => Owed(list, rows) \subseteq list.ids BY <2>1 DEF ShownInv, MissingComing
  <2>4. list.ids \subseteq Owed(list, rows) BY <2>2 DEF Owed
  <2>5. ~ Cached(list) => Owed(list, rows) = rows BY DEF Cached, Owed
  <2> QED BY <2>3, <2>4, <2>5 DEF Shown, Kept
<1> QED BY <1>1, InitShownInv, StepShownInv, PTL DEF Spec
=============================================================================
