------------------------------ MODULE Session ------------------------------
(***************************************************************************)
(* An account, its session on one device, and who honours it.  The auth    *)
(* service keeps the session in its Redis for seven days; the workspace    *)
(* and notification services verify it with a call and cache the answer    *)
(* for fifteen minutes in their own Redis, until a "user-logout" event     *)
(* from Kafka deletes the entry.                                           *)
(*                                                                         *)
(* Times are counted in ticks and held as what remains of them.  Each call *)
(* to MongoDB, Redis, Kafka or the auth service is a step.                 *)
(***************************************************************************)
EXTENDS Integers, FiniteSets

CONSTANTS
  Services,   \* "workspace", "notification"
  Modes,      \* how requests overlap, see MayStart
  Requests,   \* bound: requests under way at once
  MaxLogouts, \* bound: logout events
  EntryTTL,   \* 15 minutes: the life of a cached answer
  TokenTTL,   \* 15 minutes: the life of an access token
  SessionTTL  \* 7 days

Handlers == 1 .. Requests

ASSUME ServicesAssumption == Services \subseteq {"workspace", "notification"}
ASSUME ModesAssumption == Modes \subseteq {"alone", "prompt", "free"}
ASSUME BoundsAssumption == Requests \in Nat /\ MaxLogouts \in Nat
ASSUME TimesAssumption ==
  /\ EntryTTL \in Nat /\ TokenTTL \in Nat /\ SessionTTL \in Nat
  /\ 0 < TokenTTL /\ TokenTTL <= EntryTTL /\ EntryTTL < SessionTTL

VARIABLES
  mode,      \* how requests overlap in this behaviour
  account,   \* "none", "exists", "deleted" in the auth database
  announced, \* a "user-registered" event was published
  session,   \* what remains of session:<user>:<device> in the auth Redis
  since,     \* ticks since there was a session, at most EntryTTL
  loggedOut, \* the last session was ended by a logout
  token,     \* what remains of the newest access token
  entry,     \* entry[s]: what remains of the same key in the Redis of s
  published, \* logout events
  position,  \* position[s]: events the consumer of s has taken
  consumer,  \* consumer[s]: "idle", "del" inside its handler, or "dead"
  req        \* req[h]: what handler h is doing

auth     == <<account, announced>>
sessions == <<session, since, loggedOut, token>>
kafka    == <<published, position, consumer>>
vars     == <<mode, auth, sessions, entry, kafka, req>>

Idle == [at |-> "idle"]
AllIdle ==
  /\ \A h \in Handlers : req[h] = Idle
  /\ \A s \in Services : consumer[s] # "del"

Init ==
  /\ mode \in Modes
  /\ account = "none" /\ announced = FALSE
  /\ session = 0 /\ since = EntryTTL /\ loggedOut = FALSE /\ token = 0
  /\ entry = [s \in Services |-> 0]
  /\ published = 0 /\ position = [s \in Services |-> 0]
  /\ consumer = [s \in Services |-> "idle"]
  /\ req = [h \in Handlers |-> Idle]

(* "alone": one request or event at a time.  "prompt": they overlap, but   *)
(* none lasts as long as a tick.  "free": no bound on that, any call may   *)
(* fail, a request may be cut off.                                         *)
MayStart(h) ==
  /\ req[h] = Idle
  /\ \A g \in Handlers : g < h => req[g] # Idle
  /\ mode = "alone" => AllIdle

MayFail == mode = "free"

At(h, step) == req[h].at = step
Go(h, step) == req' = [req EXCEPT ![h] = [at |-> step]]

-----------------------------------------------------------------------------
(* AuthService.register: a user without event is taken back, as far as the *)
(* process lives to do so.                                                 *)

Create(h) ==
  /\ MayStart(h) /\ account = "none"
  /\ account' = "exists" /\ Go(h, "announce")
  /\ UNCHANGED <<mode, announced, sessions, entry, kafka>>

(* Mistake: a failing send is only logged.                                 *)
AnnounceOrLog(h) ==
  /\ At(h, "announce")
  /\ announced' \in {TRUE, announced} /\ Go(h, "setSession")
  /\ UNCHANGED <<mode, account, sessions, entry, kafka>>

(* A failing send may still have reached the broker.                       *)
Announce(h) ==
  /\ At(h, "announce")
  /\ \/ announced' = TRUE /\ Go(h, "setSession")
     \/ UNCHANGED announced /\ Go(h, "rollback")
     \/ MayFail /\ announced' = TRUE /\ Go(h, "rollback")
  /\ UNCHANGED <<mode, account, sessions, entry, kafka>>

Rollback(h) ==
  /\ At(h, "rollback")
  /\ account' = "deleted" \/ (MayFail /\ UNCHANGED account)
  /\ Go(h, "idle")
  /\ UNCHANGED <<mode, announced, sessions, entry, kafka>>

(* AuthService.login, once the password has been compared. *)
Login(h) ==
  /\ MayStart(h) /\ account = "exists"
  /\ Go(h, "setSession")
  /\ UNCHANGED <<mode, auth, sessions, entry, kafka>>

SetSession(h) ==
  /\ At(h, "setSession")
  /\ session' = SessionTTL /\ since' = 0 /\ loggedOut' = FALSE
  /\ token' = TokenTTL
  /\ Go(h, "idle")
  /\ UNCHANGED <<mode, auth, entry, kafka>>

(* AuthService.refreshToken: the token is signed after the session was     *)
(* seen, and the session does not live longer for it.                      *)
Refresh(h) ==
  /\ MayStart(h) /\ session > 0
  /\ Go(h, "sign")
  /\ UNCHANGED <<mode, auth, sessions, entry, kafka>>

Sign(h) ==
  /\ At(h, "sign")
  /\ token' = TokenTTL /\ Go(h, "idle")
  /\ UNCHANGED <<mode, auth, session, since, loggedOut, entry, kafka>>

-----------------------------------------------------------------------------
(* AuthService.logout, behind a middleware that verifies the session. *)

LogoutsUnderWay == {h \in Handlers : req[h].at \in {"delSession", "publish"}}

Logout(h) ==
  /\ MayStart(h) /\ token > 0 /\ session > 0
  /\ published + Cardinality(LogoutsUnderWay) < MaxLogouts
  /\ Go(h, "delSession")
  /\ UNCHANGED <<mode, auth, sessions, entry, kafka>>

DelSession(h) ==
  /\ At(h, "delSession")
  /\ session' = 0 /\ loggedOut' = TRUE
  /\ Go(h, "publish")
  /\ UNCHANGED <<mode, auth, since, token, entry, kafka>>

(* If it fails the client is told so, but a retry finds no session.        *)
PublishLogout(h) ==
  /\ At(h, "publish")
  /\ published' = published + 1 \/ (MayFail /\ UNCHANGED published)
  /\ Go(h, "idle")
  /\ UNCHANGED <<mode, auth, sessions, entry, position, consumer>>

-----------------------------------------------------------------------------
(* A request to service s whose answer is not cached: Protect in Go and in *)
(* Node, and the handshake of a socket.  One that finds an entry is        *)
(* admitted at once and changes nothing.                                   *)

Protect(h, s) ==
  /\ MayStart(h) /\ token > 0
  /\ entry[s] = 0
  /\ req' = [req EXCEPT ![h] = [at |-> "verify", s |-> s]]
  /\ UNCHANGED <<mode, auth, sessions, entry, kafka>>

(* Mistake: a valid token is taken for a session.                          *)
VerifySessionByToken(h) ==
  /\ At(h, "verify")
  /\ IF token > 0 THEN req' = [req EXCEPT ![h] = [at |-> "cache", s |-> req[h].s]]
     ELSE Go(h, "idle")
  /\ UNCHANGED <<mode, auth, sessions, entry, kafka>>

(* The token is checked again by the auth service, then the session.       *)
VerifySession(h) ==
  /\ At(h, "verify")
  /\ \/ token > 0 /\ session > 0
        /\ req' = [req EXCEPT ![h] = [at |-> "cache", s |-> req[h].s]]
     \/ (token = 0 \/ session = 0 \/ MayFail) /\ Go(h, "idle")
  /\ UNCHANGED <<mode, auth, sessions, entry, kafka>>

(* Mistake: the answer is cached for as long as the session may live.      *)
CacheSessionForDays(h) ==
  /\ At(h, "cache")
  /\ entry' = [entry EXCEPT ![req[h].s] = SessionTTL]
  /\ Go(h, "idle")
  /\ UNCHANGED <<mode, auth, sessions, kafka>>

CacheSession(h) ==
  /\ At(h, "cache")
  /\ entry' = [entry EXCEPT ![req[h].s] = EntryTTL] \/ (MayFail /\ UNCHANGED entry)
  /\ Go(h, "idle")
  /\ UNCHANGED <<mode, auth, sessions, kafka>>

(* A request that is cut off is not resumed.                               *)
Crash(h) ==
  /\ MayFail /\ req[h] # Idle
  /\ Go(h, "idle")
  /\ UNCHANGED <<mode, auth, sessions, entry, kafka>>

-----------------------------------------------------------------------------
(* UserLogoutHandler: it looks for the entry, then deletes it. *)

(* Mistake: the key is built without the device, so nothing is found.      *)
TakeEventOfUser(s) ==
  /\ consumer[s] = "idle" /\ position[s] < published
  /\ mode = "alone" => AllIdle
  /\ position' = [position EXCEPT ![s] = @ + 1]
  /\ UNCHANGED <<mode, auth, sessions, entry, published, consumer, req>>

TakeEvent(s) ==
  /\ consumer[s] = "idle" /\ position[s] < published
  /\ mode = "alone" => AllIdle
  /\ \/ entry[s] > 0 /\ consumer' = [consumer EXCEPT ![s] = "del"] /\ UNCHANGED position
     \/ /\ entry[s] = 0 \/ MayFail
        /\ position' = [position EXCEPT ![s] = @ + 1] /\ UNCHANGED consumer
  /\ UNCHANGED <<mode, auth, sessions, entry, published, req>>

DelEntry(s) ==
  /\ consumer[s] = "del"
  /\ entry' = [entry EXCEPT ![s] = 0] \/ (MayFail /\ UNCHANGED entry)
  /\ consumer' = [consumer EXCEPT ![s] = "idle"]
  /\ position' = [position EXCEPT ![s] = @ + 1]
  /\ UNCHANGED <<mode, auth, sessions, published, req>>

(* The Go worker's plain loop returns on the first fetch error; the        *)
(* process lives on, so nothing starts it again until it is replaced.      *)
FetchError ==
  /\ MayFail /\ "workspace" \in Services /\ consumer["workspace"] = "idle"
  /\ consumer' = [consumer EXCEPT !["workspace"] = "dead"]
  /\ UNCHANGED <<mode, auth, sessions, entry, published, position, req>>

(* The consumer starts again at an offset committed before.                *)
RestartConsumer(s) ==
  /\ MayFail
  /\ \E o \in 0 .. position[s] : position' = [position EXCEPT ![s] = o]
  /\ consumer' = [consumer EXCEPT ![s] = "idle"]
  /\ UNCHANGED <<mode, auth, sessions, entry, published, req>>

-----------------------------------------------------------------------------
Less(n) == IF n = 0 THEN 0 ELSE n - 1

(* Mistake: the answer is cached without EX.                               *)
TickWithoutEX ==
  /\ AllIdle \/ mode = "free"
  /\ session' = Less(session) /\ token' = Less(token)
  /\ since' = IF session > 1 THEN 0 ELSE IF session = 0 /\ since < EntryTTL THEN since + 1 ELSE since
  /\ UNCHANGED <<mode, auth, loggedOut, entry, kafka, req>>

Tick ==
  /\ AllIdle \/ mode = "free"
  /\ session' = Less(session) /\ token' = Less(token)
  /\ since' = IF session > 1 THEN 0 ELSE IF session = 0 /\ since < EntryTTL THEN since + 1 ELSE since
  /\ entry' = [s \in Services |-> Less(entry[s])]
  /\ UNCHANGED <<mode, auth, loggedOut, kafka, req>>

HandlerStep(h) ==
  \/ Announce(h) \/ Rollback(h) \/ SetSession(h) \/ Sign(h)
  \/ DelSession(h) \/ PublishLogout(h) \/ VerifySession(h) \/ CacheSession(h)

Request(h) ==
  \/ Create(h) \/ Login(h) \/ Refresh(h) \/ Logout(h)
  \/ \E s \in Services : Protect(h, s)

Next ==
  \/ \E h \in Handlers : Request(h) \/ HandlerStep(h) \/ Crash(h)
  \/ \E s \in Services : TakeEvent(s) \/ DelEntry(s) \/ RestartConsumer(s)
  \/ FetchError
  \/ Tick

Spec == Init /\ [][Next]_vars

(* Requests end and time passes, also when requests keep coming.  Nothing  *)
(* is assumed of the consumers.                                            *)
FairSpec ==
  /\ Spec
  /\ \A h \in Handlers : WF_vars(HandlerStep(h))
  /\ \A s \in Services : WF_vars(DelEntry(s))
  /\ SF_vars(Tick)

-----------------------------------------------------------------------------
TypeOK ==
  /\ mode \in Modes
  /\ account \in {"none", "exists", "deleted"} /\ announced \in BOOLEAN
  /\ session \in 0 .. SessionTTL /\ since \in 0 .. EntryTTL
  /\ loggedOut \in BOOLEAN /\ token \in 0 .. TokenTTL
  /\ entry \in [Services -> 0 .. EntryTTL]
  /\ published \in 0 .. MaxLogouts /\ position \in [Services -> 0 .. published]
  /\ consumer \in [Services -> {"idle", "del", "dead"}]
  /\ req \in [Handlers ->
       [at : {"idle", "announce", "rollback", "setSession", "sign", "delSession", "publish"}]
         \cup [at : {"verify", "cache"}, s : Services]]

(* README:166-167: with events late, duplicated or never applied, and      *)
(* verifications that overtake a logout, no service honours a session, and *)
(* no token is valid, longer than fifteen minutes after the session ended. *)
RevocationBounded ==
  mode # "free" =>
    /\ \A s \in Services : entry[s] > 0 => since + entry[s] <= EntryTTL
    /\ token > 0 => since + token <= EntryTTL

(* One request at a time, a logout whose event has been applied leaves no  *)
(* entry behind.                                                           *)
LogoutPurges ==
  (mode = "alone" /\ AllIdle /\ session = 0 /\ loggedOut) =>
    \A s \in Services : position[s] = published => entry[s] = 0

(* Unless a process dies or an answer is lost, the users of the auth       *)
(* database are those of whom the other services are told.                 *)
AccountAnnounced ==
  (mode # "free" /\ AllIdle) => (account = "exists" <=> announced)

(* A session that has ended for good is finally honoured by no service,    *)
(* whatever fails, even if no event is ever applied.                       *)
RevokedFinally ==
  []<>AllIdle /\ <>[](session = 0) => <>[](\A s \in Services : entry[s] = 0)
=============================================================================
