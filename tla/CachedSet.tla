----------------------------- MODULE CachedSet -----------------------------
(***************************************************************************)
(* A Redis sorted set or hash that caches a set of the database, as the    *)
(* workspace service uses them: it may be absent, expire, or have lost its *)
(* expiry.  The set without members is cached as the single member         *)
(* "__empty__".                                                            *)
(***************************************************************************)
EXTENDS Integers, FiniteSets

Absent  == [key |-> "absent", ids |-> {}]
Emptied == [key |-> "emptied", ids |-> {}]
Fill(S) == [key |-> "expiring", ids |-> S]

(* Redis has no key in either case; "emptied" and "partial" are history:   *)
(* the key went with its member "__empty__", or what is cached was begun   *)
(* after a key that had been found was gone otherwise.                     *)
Cached(c) == c.key \notin {"absent", "emptied"}

CachedSets(S) ==
  {c \in [key : {"absent", "emptied", "expiring", "lasting", "partial"}, ids : SUBSET S] :
     /\ ~ Cached(c) => c.ids = {}
     /\ c.key \in {"lasting", "partial"} => c.ids # {}}

(* Mistake: the key stays, and only its expiry goes.                       *)
WithoutEmptyPersisting(c) ==
  IF Cached(c) /\ c.ids = {} THEN [key |-> "lasting", ids |-> {}] ELSE c

(* ZREM or HDEL of "__empty__": if it is the only member, Redis drops the  *)
(* key, and with it the expiry.                                            *)
WithoutEmpty(c) == IF Cached(c) /\ c.ids = {} THEN Emptied ELSE c

(* ZADD or HSET without EXPIRE: a key these commands create never expires. *)
With(c, k) ==
  [key |-> CASE c.key = "absent"  -> "partial"
             [] c.key = "emptied" -> "lasting"
             [] OTHER             -> c.key,
   ids |-> c.ids \cup {k}]
=============================================================================
