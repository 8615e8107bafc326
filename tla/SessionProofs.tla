--------------------------- MODULE SessionProofs ---------------------------
(***************************************************************************)
(* That an ended session is honoured no longer than fifteen minutes, for   *)
(* every set of services, every number of overlapping requests and logouts *)
(* and every choice of the three lifetimes; that a logout whose event is   *)
(* applied leaves no entry behind, where no request overlaps another; and  *)
(* that accounts and announcements agree where nothing fails.              *)
(***************************************************************************)
EXTENDS Session, FiniteSetTheorems, TLAPS

ClockSteps ==
  [at : {"idle", "announce", "rollback", "setSession", "sign", "delSession", "publish"}]
    \cup [at : {"verify", "cache"}, s : Services]

(* The part of TypeOK that concerns times and who holds them.              *)
Timed ==
  /\ mode \in Modes
  /\ session \in 0 .. SessionTTL /\ since \in 0 .. EntryTTL
  /\ token \in 0 .. TokenTTL
  /\ entry \in [Services -> 0 .. EntryTTL]
  /\ req \in [Handlers -> ClockSteps]

(* Since the session was seen by a request that has not used its answer    *)
(* yet, no tick has passed.                                                *)
AnswersFresh ==
  mode # "free" => \A h \in Handlers : req[h].at \in {"sign", "cache"} => since = 0

IInv ==
  /\ Timed /\ AnswersFresh /\ RevocationBounded
  /\ session > 0 => since = 0

(* The first state has no session, no token and no entry.                  *)
LEMMA InitIInv == Init => IInv
<1> SUFFICES ASSUME Init PROVE IInv
  OBVIOUS
<1>1. Timed
  BY TimesAssumption DEF Init, Timed, ClockSteps, Idle
<1>2. AnswersFresh BY DEF Init, AnswersFresh, Idle
<1> QED BY <1>1, <1>2 DEF Init, IInv, RevocationBounded

(* A request moves to a step of its own and leaves the others alone.       *)
LEMMA GoTyped ==
  ASSUME Timed, NEW h \in Handlers,
         NEW r \in ClockSteps, req' = [req EXCEPT ![h] = r]
  PROVE  /\ req' \in [Handlers -> ClockSteps]
         /\ req'[h] = r /\ \A g \in Handlers \ {h} : req'[g] = req[g]
BY DEF Timed

(* Requests: what they change of the times, they set to a whole lifetime   *)
(* while there is a session.                                               *)
LEMMA RequestStep ==
  ASSUME IInv, NEW h \in Handlers, Request(h) \/ HandlerStep(h) \/ Crash(h)
  PROVE  IInv'
<1> USE TimesAssumption
<1>0. Timed /\ AnswersFresh /\ RevocationBounded /\ (session > 0 => since = 0)
  BY DEF IInv
<1>a. \A step \in {"idle", "announce", "rollback", "setSession", "sign", "delSession", "publish"} :
        [at |-> step] \in ClockSteps
  BY DEF ClockSteps
<1>b. req[h].at \in {"verify", "cache"} => req[h].s \in Services
  BY <1>0 DEF Timed, ClockSteps
<1>1. CASE UNCHANGED <<mode, session, since, token, entry>> /\
           \E step \in {"idle", "announce", "rollback", "setSession", "delSession", "publish"} : Go(h, step)
  <2>1. PICK step \in {"idle", "announce", "rollback", "setSession", "delSession", "publish"} : Go(h, step)
    BY <1>1
  <2>2. /\ req' \in [Handlers -> ClockSteps]
        /\ req'[h] = [at |-> step] /\ \A g \in Handlers \ {h} : req'[g] = req[g]
    BY <1>0, <1>a, <2>1, GoTyped DEF Go
  <2>3. AnswersFresh' BY <1>0, <1>1, <2>1, <2>2 DEF AnswersFresh
  <2> QED BY <1>0, <1>1, <2>2, <2>3 DEF IInv, Timed, RevocationBounded
<1>2. CASE SetSession(h)
  <2>1. /\ req' \in [Handlers -> ClockSteps]
        /\ req'[h] = [at |-> "idle"] /\ \A g \in Handlers \ {h} : req'[g] = req[g]
    BY <1>0, <1>2, <1>a, GoTyped DEF SetSession, Go
  <2>2. AnswersFresh' BY <1>2 DEF SetSession, AnswersFresh
  <2>3. Timed' BY <1>0, <1>2, <2>1 DEF SetSession, Timed
  <2>4. RevocationBounded' BY <1>0, <1>2, <2>3 DEF SetSession, Timed, RevocationBounded
  <2> QED BY <1>2, <2>2, <2>3, <2>4 DEF IInv, SetSession
<1>3. CASE Refresh(h)
  <2>1. /\ req' \in [Handlers -> ClockSteps]
        /\ req'[h] = [at |-> "sign"] /\ \A g \in Handlers \ {h} : req'[g] = req[g]
    BY <1>0, <1>3, <1>a, GoTyped DEF Refresh, Go
  <2>2. AnswersFresh' BY <1>0, <1>3, <2>1 DEF Refresh, AnswersFresh, sessions
  <2> QED BY <1>0, <1>3, <2>1, <2>2 DEF Refresh, IInv, Timed, RevocationBounded, sessions
<1>4. CASE Sign(h)
  <2>1. /\ req' \in [Handlers -> ClockSteps]
        /\ req'[h] = [at |-> "idle"] /\ \A g \in Handlers \ {h} : req'[g] = req[g]
    BY <1>0, <1>4, <1>a, GoTyped DEF Sign, Go
  <2>2. AnswersFresh' BY <1>0, <1>4, <2>1 DEF Sign, AnswersFresh
  <2>3. mode # "free" => since = 0 BY <1>0, <1>4 DEF Sign, At, AnswersFresh
  <2>4. Timed' BY <1>0, <1>4, <2>1 DEF Sign, Timed
  <2>5. RevocationBounded' BY <1>0, <1>4, <2>3, <2>4 DEF Sign, RevocationBounded, Timed
  <2> QED BY <1>0, <1>4, <2>2, <2>4, <2>5 DEF Sign, IInv
<1>5. CASE DelSession(h)
  <2>1. /\ req' \in [Handlers -> ClockSteps]
        /\ req'[h] = [at |-> "publish"] /\ \A g \in Handlers \ {h} : req'[g] = req[g]
    BY <1>0, <1>5, <1>a, GoTyped DEF DelSession, Go
  <2>2. AnswersFresh' BY <1>0, <1>5, <2>1 DEF DelSession, AnswersFresh
  <2> QED BY <1>0, <1>5, <2>1, <2>2 DEF DelSession, IInv, Timed, RevocationBounded
<1>6. ASSUME NEW s \in Services, Protect(h, s) PROVE IInv'
  <2>0. [at |-> "verify", s |-> s] \in ClockSteps BY DEF ClockSteps
  <2>1. /\ req' \in [Handlers -> ClockSteps]
        /\ req'[h] = [at |-> "verify", s |-> s] /\ \A g \in Handlers \ {h} : req'[g] = req[g]
    BY <1>0, <1>6, <2>0, GoTyped DEF Protect
  <2>2. AnswersFresh' BY <1>0, <1>6, <2>1 DEF Protect, AnswersFresh, sessions
  <2> QED BY <1>0, <1>6, <2>1, <2>2 DEF Protect, IInv, Timed, RevocationBounded, sessions
<1>7. CASE VerifySession(h)
  <2>1. CASE Go(h, "idle")
    BY <1>1, <1>7, <2>1 DEF VerifySession, sessions
  <2>2. CASE session > 0 /\ req' = [req EXCEPT ![h] = [at |-> "cache", s |-> req[h].s]]
    <3>0. [at |-> "cache", s |-> req[h].s] \in ClockSteps
      BY <1>7, <1>b DEF VerifySession, At, ClockSteps
    <3>1. /\ req' \in [Handlers -> ClockSteps]
          /\ req'[h] = [at |-> "cache", s |-> req[h].s] /\ \A g \in Handlers \ {h} : req'[g] = req[g]
      BY <1>0, <2>2, <3>0, GoTyped
    <3>2. AnswersFresh' BY <1>0, <1>7, <2>2, <3>1 DEF VerifySession, AnswersFresh, sessions
    <3> QED BY <1>0, <1>7, <3>1, <3>2 DEF VerifySession, IInv, Timed, RevocationBounded, sessions
  <2> QED BY <1>7, <2>1, <2>2 DEF VerifySession
<1>8. CASE CacheSession(h)
  <2>1. /\ req' \in [Handlers -> ClockSteps]
        /\ req'[h] = [at |-> "idle"] /\ \A g \in Handlers \ {h} : req'[g] = req[g]
    BY <1>0, <1>8, <1>a, GoTyped DEF CacheSession, Go
  <2>2. AnswersFresh' BY <1>0, <1>8, <2>1 DEF CacheSession, AnswersFresh, sessions
  <2>3. mode # "free" => since = 0 BY <1>0, <1>8 DEF CacheSession, At, AnswersFresh
  <2>4. req[h].s \in Services BY <1>8, <1>b DEF CacheSession, At
  <2>5. Timed' BY <1>0, <1>8, <2>1, <2>4 DEF CacheSession, Timed, sessions
  <2>6. RevocationBounded'
    BY <1>0, <1>8, <2>3, <2>4, <2>5 DEF CacheSession, RevocationBounded, Timed, sessions
  <2> QED BY <1>0, <1>8, <2>2, <2>5, <2>6 DEF CacheSession, IInv, sessions
<1>9. CASE Create(h) \/ Login(h) \/ Announce(h) \/ Rollback(h) \/ Logout(h) \/ PublishLogout(h) \/ Crash(h)
  BY <1>1, <1>9 DEF Create, Login, Announce, Rollback, Logout, PublishLogout, Crash, sessions
<1> QED BY <1>2, <1>3, <1>4, <1>5, <1>6, <1>7, <1>8, <1>9 DEF Request, HandlerStep

(* The consumers of "user-logout" only take entries away.                  *)
LEMMA ConsumerStep ==
  ASSUME IInv, NEW s \in Services,
         TakeEvent(s) \/ DelEntry(s) \/ RestartConsumer(s) \/ FetchError
  PROVE  IInv'
<1>1. CASE DelEntry(s)
  BY <1>1, TimesAssumption DEF DelEntry, IInv, Timed, AnswersFresh, RevocationBounded, sessions
<1>2. CASE TakeEvent(s) \/ RestartConsumer(s) \/ FetchError
  BY <1>2 DEF TakeEvent, RestartConsumer, FetchError, IInv, Timed, AnswersFresh, RevocationBounded, sessions
<1> QED BY <1>1, <1>2

(* A tick takes as much from every life as it adds to the time since the   *)
(* session, and finds no request under way.                                *)
LEMMA TickStep == IInv /\ Tick => IInv'
<1> SUFFICES ASSUME IInv, Tick PROVE IInv'
  OBVIOUS
<1> USE TimesAssumption DEF Tick, Less
<1>1. Timed /\ AnswersFresh /\ RevocationBounded /\ (session > 0 => since = 0)
  BY DEF IInv
<1>2. Timed'
  BY <1>1 DEF Timed
<1>3. AnswersFresh'
  BY <1>1 DEF AnswersFresh, AllIdle, Idle
<1>4. since' <= since + 1 /\ (session' > 0 => since' = 0)
  BY <1>1 DEF Timed
<1>5. RevocationBounded'
  BY <1>1, <1>2, <1>4 DEF RevocationBounded, Timed
<1> QED BY <1>2, <1>3, <1>4, <1>5 DEF IInv

(* Every step keeps the four parts together. *)
LEMMA StepIInv == IInv /\ [Next]_vars => IInv'
<1> SUFFICES ASSUME IInv, [Next]_vars PROVE IInv'
  OBVIOUS
<1>1. CASE UNCHANGED vars
  BY <1>1 DEF vars, sessions, IInv, Timed, AnswersFresh, RevocationBounded
<1>2. CASE FetchError
  BY <1>2, ConsumerStep DEF FetchError
<1> QED BY <1>1, <1>2, RequestStep, ConsumerStep, TickStep DEF Next

(* With events late, duplicated or never applied, and verifications that   *)
(* overtake a logout: what a service has cached and what a token is worth  *)
(* ends fifteen minutes after the session did.                             *)
THEOREM RevokedInTime == Spec => []RevocationBounded
<1>1. IInv => RevocationBounded BY DEF IInv
<1> QED BY <1>1, InitIInv, StepIInv, PTL DEF Spec

-----------------------------------------------------------------------------
(* The rest of TypeOK: the account, the events and the consumers.          *)

(* A logout that has begun counts against the bound before its event does, *)
(* and a consumer inside its handler has an event it has not passed yet.   *)
EventsCounted ==
  /\ account \in {"none", "exists", "deleted"}
  /\ announced \in BOOLEAN /\ loggedOut \in BOOLEAN
  /\ published \in Nat /\ published + Cardinality(LogoutsUnderWay) <= MaxLogouts
  /\ position \in [Services -> 0 .. published]
  /\ consumer \in [Services -> {"idle", "del", "dead"}]
  /\ \A s \in Services : consumer[s] = "del" => position[s] < published

(* The one registration that may be under way: until it has announced the  *)
(* user or taken it back, the user exists and nobody was told.             *)
Registering(h) == req[h].at \in {"announce", "rollback"}

RegistrationSound ==
  mode # "free" =>
    /\ account = "none" => ~announced
    /\ \A h \in Handlers :
         Registering(h) => /\ account = "exists" /\ ~announced
                           /\ \A g \in Handlers : Registering(g) => g = h
    /\ (\A h \in Handlers : ~Registering(h)) => (account = "exists" <=> announced)

(* One at a time: a request, or a consumer in its handler.                 *)
OneAtATime ==
  mode = "alone" =>
    /\ \A h, g \in Handlers : req[h] # Idle /\ req[g] # Idle => h = g
    /\ \A s \in Services : consumer[s] = "del" =>
         /\ \A h \in Handlers : req[h] = Idle
         /\ \A r \in Services : consumer[r] = "del" => r = s

(* Then a verified session is there when its answer is cached, and what a  *)
(* logout leaves of it in a service has an event coming.                   *)
EventComing ==
  /\ loggedOut => session = 0
  /\ mode = "alone" =>
       /\ \A h \in Handlers : req[h].at = "cache" => session > 0
       /\ \A s \in Services :
            loggedOut /\ entry[s] > 0 =>
              position[s] < published \/ \E h \in Handlers : req[h].at = "publish"

SInv == IInv /\ EventsCounted /\ RegistrationSound /\ OneAtATime /\ EventComing

LEMMA InitSInv == Init => SInv
<1> SUFFICES ASSUME Init PROVE SInv
  OBVIOUS
<1>1. \A h \in Handlers : req[h] = Idle /\ req[h].at = "idle" BY DEF Init, Idle
<1>2. Cardinality(LogoutsUnderWay) = 0
  <2>1. LogoutsUnderWay = {} BY <1>1 DEF LogoutsUnderWay
  <2> QED BY <2>1, FS_EmptySet
<1>3. EventsCounted
  <2>1. published + Cardinality(LogoutsUnderWay) <= MaxLogouts
    BY <1>2, BoundsAssumption DEF Init
  <2>2. position \in [Services -> 0 .. published] BY DEF Init
  <2>3. consumer \in [Services -> {"idle", "del", "dead"}] BY DEF Init
  <2> QED BY <2>1, <2>2, <2>3 DEF Init, EventsCounted
<1>4. RegistrationSound BY <1>1 DEF Init, RegistrationSound, Registering
<1>5. OneAtATime BY <1>1 DEF Init, OneAtATime
<1>6. EventComing BY <1>1 DEF Init, EventComing
<1> QED BY <1>3, <1>4, <1>5, <1>6, InitIInv DEF SInv

(* What a step of request h is: it goes from one step to another, and only *)
(* some of them touch the account, the session or the events.              *)
Goes(h, from, to) ==
  /\ req[h].at \in from
  /\ req'[h].at \in to
  /\ \A g \in Handlers \ {h} : req'[g] = req[g]

LEMMA RequestGoes ==
  ASSUME Timed, NEW h \in Handlers, Request(h) \/ HandlerStep(h) \/ Crash(h)
  PROVE  /\ UNCHANGED <<mode, position, consumer>>
         /\ req' \in [Handlers -> ClockSteps]
         /\ \A g \in Handlers \ {h} : req'[g] = req[g]
         /\ \/ /\ MayStart(h)
               /\ \/ /\ Goes(h, {"idle"}, {"announce"}) /\ account = "none" /\ account' = "exists"
                     /\ UNCHANGED <<announced, sessions, entry, published>>
                  \/ /\ Goes(h, {"idle"}, {"setSession", "sign", "verify"})
                     /\ UNCHANGED <<auth, sessions, entry, published>>
                  \/ /\ Goes(h, {"idle"}, {"delSession"})
                     /\ published + Cardinality(LogoutsUnderWay) < MaxLogouts
                     /\ UNCHANGED <<auth, sessions, entry, published>>
            \/ /\ req[h] # Idle
               /\ \/ /\ Goes(h, {"announce"}, {"setSession"}) /\ announced' = TRUE
                     /\ UNCHANGED <<account, sessions, entry, published>>
                  \/ /\ Goes(h, {"announce"}, {"rollback"})
                     /\ announced' = announced \/ (MayFail /\ announced' = TRUE)
                     /\ UNCHANGED <<account, sessions, entry, published>>
                  \/ /\ Goes(h, {"rollback"}, {"idle"})
                     /\ account' = "deleted" \/ (MayFail /\ UNCHANGED account)
                     /\ UNCHANGED <<announced, sessions, entry, published>>
                  \/ /\ Goes(h, {"setSession"}, {"idle"}) /\ loggedOut' = FALSE
                     /\ session' = SessionTTL
                     /\ UNCHANGED <<auth, entry, published>>
                  \/ /\ Goes(h, {"delSession"}, {"publish"})
                     /\ loggedOut' = TRUE /\ session' = 0
                     /\ UNCHANGED <<auth, entry, published>>
                  \/ /\ Goes(h, {"publish"}, {"idle"})
                     /\ published' = published + 1 \/ (MayFail /\ UNCHANGED published)
                     /\ UNCHANGED <<auth, sessions, entry>>
                  \/ /\ Goes(h, {"verify"}, {"cache"}) /\ session > 0
                     /\ UNCHANGED <<auth, sessions, entry, published>>
                  \/ /\ Goes(h, {"verify"}, {"idle"})
                     /\ UNCHANGED <<auth, sessions, entry, published>>
                  \/ /\ Goes(h, {"sign"}, {"idle"})
                     /\ UNCHANGED <<auth, session, loggedOut, entry, published>>
                  \/ /\ Goes(h, {"cache"}, {"idle"})
                     /\ UNCHANGED <<auth, sessions, published>>
                  \/ /\ req'[h] = Idle /\ MayFail
                     /\ UNCHANGED <<auth, sessions, entry, published>>
<1>a. \A step \in {"idle", "announce", "rollback", "setSession", "sign", "delSession", "publish"} :
        /\ [at |-> step] \in ClockSteps
        /\ Go(h, step) =>
             /\ req' \in [Handlers -> ClockSteps]
             /\ req'[h] = [at |-> step] /\ req'[h].at = step
             /\ \A g \in Handlers \ {h} : req'[g] = req[g]
  <2> TAKE step \in {"idle", "announce", "rollback", "setSession", "sign", "delSession", "publish"}
  <2>1. [at |-> step] \in ClockSteps BY DEF ClockSteps
  <2>2. [at |-> step].at = step OBVIOUS
  <2> QED BY <2>1, <2>2, GoTyped DEF Go
<1>b. \A s \in Services, step \in {"verify", "cache"} :
        req' = [req EXCEPT ![h] = [at |-> step, s |-> s]] =>
             /\ req' \in [Handlers -> ClockSteps]
             /\ req'[h].at = step
             /\ \A g \in Handlers \ {h} : req'[g] = req[g]
  <2> TAKE s \in Services, step \in {"verify", "cache"}
  <2> DEFINE r == [at |-> step, s |-> s]
  <2>1. r \in ClockSteps BY DEF ClockSteps
  <2>2. r.at = step OBVIOUS
  <2> HIDE DEF r
  <2>3. req' = [req EXCEPT ![h] = r] =>
             /\ req' \in [Handlers -> ClockSteps]
             /\ req'[h] = r
             /\ \A g \in Handlers \ {h} : req'[g] = req[g]
    BY <2>1, GoTyped
  <2>4. req' = [req EXCEPT ![h] = r] =>
             /\ req' \in [Handlers -> ClockSteps]
             /\ req'[h].at = step
             /\ \A g \in Handlers \ {h} : req'[g] = req[g]
    BY <2>2, <2>3
  <2> QED BY <2>4 DEF r
<1>c. req[h].at \in {"verify", "cache"} => req[h].s \in Services
  BY DEF Timed, ClockSteps
<1>d. Idle.at = "idle" /\ \A step \in {"idle"} : [at |-> step] = Idle BY DEF Idle
<1> USE DEF Goes, sessions, auth, kafka
<1>1. CASE Create(h) BY <1>1, <1>a, <1>d DEF Create, MayStart
<1>2. CASE Login(h) BY <1>2, <1>a, <1>d DEF Login, MayStart
<1>3. CASE Refresh(h) BY <1>3, <1>a, <1>d DEF Refresh, MayStart
<1>4. CASE Logout(h) BY <1>4, <1>a, <1>d DEF Logout, MayStart
<1>5. ASSUME NEW s \in Services, Protect(h, s)
      PROVE  /\ UNCHANGED <<mode, position, consumer>> /\ req' \in [Handlers -> ClockSteps]
             /\ \A g \in Handlers \ {h} : req'[g] = req[g]
             /\ MayStart(h) /\ Goes(h, {"idle"}, {"setSession", "sign", "verify"})
             /\ UNCHANGED <<auth, sessions, entry, published>>
  BY <1>5, <1>b, <1>d DEF Protect, MayStart
<1>6. CASE Announce(h) BY <1>6, <1>a, <1>d DEF Announce, At
<1>7. CASE Rollback(h) BY <1>7, <1>a, <1>d DEF Rollback, At
<1>8. CASE SetSession(h) BY <1>8, <1>a, <1>d DEF SetSession, At
<1>9. CASE Sign(h) BY <1>9, <1>a, <1>d DEF Sign, At
<1>10. CASE DelSession(h) BY <1>10, <1>a, <1>d DEF DelSession, At
<1>11. CASE PublishLogout(h) BY <1>11, <1>a, <1>d DEF PublishLogout, At
<1>12. CASE VerifySession(h) BY <1>12, <1>a, <1>b, <1>c, <1>d DEF VerifySession, At
<1>13. CASE CacheSession(h) BY <1>13, <1>a, <1>d DEF CacheSession, At
<1>14. CASE Crash(h) BY <1>14, <1>a, <1>d DEF Crash
<1> QED BY <1>1, <1>2, <1>3, <1>4, <1>5, <1>6, <1>7, <1>8, <1>9, <1>10, <1>11, <1>12, <1>13,
           <1>14 DEF Request, HandlerStep

(* How the number of logouts under way changes with one request.           *)
LEMMA LogoutsCounted ==
  ASSUME NEW h \in Handlers,
         \A g \in Handlers \ {h} : req'[g] = req[g]
  PROVE  LET L == {"delSession", "publish"}
             n == Cardinality(LogoutsUnderWay)
         IN /\ n \in Nat /\ Cardinality(LogoutsUnderWay)' \in Nat
            /\ req[h].at \in L <=> req'[h].at \in L => Cardinality(LogoutsUnderWay)' = n
            /\ req[h].at \notin L /\ req'[h].at \in L => Cardinality(LogoutsUnderWay)' = n + 1
            /\ req[h].at \in L /\ req'[h].at \notin L => Cardinality(LogoutsUnderWay)' = n - 1
<1> DEFINE L == {"delSession", "publish"}
           S == LogoutsUnderWay
<1>1. IsFiniteSet(S)
  <2>1. IsFiniteSet(Handlers) BY FS_Interval, BoundsAssumption DEF Handlers
  <2>2. S \in SUBSET Handlers BY DEF LogoutsUnderWay
  <2> QED BY <2>1, <2>2, FS_Subset
<1>2. Cardinality(S) \in Nat BY <1>1, FS_CardinalityType
<1>3. CASE req[h].at \in L <=> req'[h].at \in L
  <2>1. S' = S BY <1>3 DEF LogoutsUnderWay
  <2> QED BY <1>2, <1>3, <2>1
<1>4. CASE req[h].at \notin L /\ req'[h].at \in L
  <2>1. S' = S \cup {h} /\ h \notin S BY <1>4 DEF LogoutsUnderWay
  <2>2. Cardinality(S') = Cardinality(S) + 1 BY <1>1, <2>1, FS_AddElement
  <2> QED BY <1>2, <1>4, <2>2
<1>5. CASE req[h].at \in L /\ req'[h].at \notin L
  <2>1. S' = S \ {h} /\ h \in S BY <1>5 DEF LogoutsUnderWay
  <2>2. Cardinality(S') = Cardinality(S) - 1 BY <1>1, <2>1, FS_RemoveElement
  <2>3. IsFiniteSet(S') BY <1>1, <2>1, FS_RemoveElement
  <2>4. Cardinality(S') \in Nat BY <2>3, FS_CardinalityType
  <2> QED BY <1>2, <1>5, <2>2, <2>4
<1> QED BY <1>3, <1>4, <1>5

LEMMA RequestCounted ==
  ASSUME Timed, EventsCounted, NEW h \in Handlers, Request(h) \/ HandlerStep(h) \/ Crash(h)
  PROVE  EventsCounted'
<1> DEFINE L == {"delSession", "publish"}
<1>1. UNCHANGED <<position, consumer>> /\ \A g \in Handlers \ {h} : req'[g] = req[g]
  BY RequestGoes
<1>0. MaxLogouts \in Nat BY BoundsAssumption
<1>2. PICK n \in Nat, m \in Nat :
      /\ n = Cardinality(LogoutsUnderWay) /\ m = Cardinality(LogoutsUnderWay)'
      /\ (req[h].at \in L <=> req'[h].at \in L) => m = n
      /\ req[h].at \notin L /\ req'[h].at \in L => m = n + 1
      /\ req[h].at \in L /\ req'[h].at \notin L => m = n - 1
  BY <1>1, LogoutsCounted
<1>3. published \in Nat /\ published + n <= MaxLogouts BY <1>2 DEF EventsCounted
<1>4. /\ account' \in {"none", "exists", "deleted"}
      /\ announced' \in BOOLEAN /\ loggedOut' \in BOOLEAN
  BY RequestGoes DEF EventsCounted, auth, sessions
<1>5. published' \in Nat /\ published <= published' /\ published' + m <= MaxLogouts
  <2>1. CASE published' = published + 1
    <3>1. Goes(h, {"publish"}, {"idle"}) \/ published' = published BY RequestGoes
    <3>2. req[h].at \in L /\ req'[h].at \notin L BY <1>3, <2>1, <3>1 DEF Goes
    <3> QED BY <1>0, <1>2, <1>3, <2>1, <3>2
  <2>2. CASE published' = published
    <3>1. CASE req[h].at \notin L /\ req'[h].at \in L
      <4>1. published + n < MaxLogouts
        <5>1. req'[h] # Idle BY <3>1 DEF Idle
        <5>2. published + Cardinality(LogoutsUnderWay) < MaxLogouts
          BY <3>1, <5>1, RequestGoes DEF Goes
        <5> QED BY <1>2, <5>2
      <4> QED BY <1>0, <1>2, <1>3, <2>2, <3>1, <4>1
    <3>2. CASE ~(req[h].at \notin L /\ req'[h].at \in L)
      <4>1. m = n \/ m = n - 1 BY <1>2, <3>2
      <4> QED BY <1>0, <1>2, <1>3, <2>2, <4>1
    <3> QED BY <3>1, <3>2
  <2> QED BY <1>3, <2>1, <2>2, RequestGoes
<1>6. position' \in [Services -> 0 .. published']
  BY <1>1, <1>3, <1>5 DEF EventsCounted
<1>7. \A s \in Services : consumer'[s] = "del" => position'[s] < published'
  BY <1>1, <1>3, <1>5 DEF EventsCounted
<1> QED BY <1>1, <1>2, <1>4, <1>5, <1>6, <1>7 DEF EventsCounted

(* A consumer passes an event, begins one, or goes back.                   *)
LEMMA ConsumerCounted ==
  ASSUME EventsCounted, NEW s \in Services,
         TakeEvent(s) \/ DelEntry(s) \/ RestartConsumer(s) \/ FetchError
  PROVE  EventsCounted'
<1>1. UNCHANGED <<auth, loggedOut, published, req>>
  BY DEF TakeEvent, DelEntry, RestartConsumer, FetchError, sessions
<1>2. /\ published \in Nat /\ position \in [Services -> 0 .. published]
      /\ consumer \in [Services -> {"idle", "del", "dead"}]
      /\ \A r \in Services : consumer[r] = "del" => position[r] < published
  BY DEF EventsCounted
<1>3. /\ position' \in [Services -> 0 .. published]
      /\ consumer' \in [Services -> {"idle", "del", "dead"}]
      /\ \A r \in Services : consumer'[r] = "del" => position'[r] < published
  <2>1. CASE TakeEvent(s) BY <1>2, <2>1 DEF TakeEvent
  <2>2. CASE DelEntry(s) BY <1>2, <2>2 DEF DelEntry
  <2>3. CASE RestartConsumer(s)
    <3>1. PICK o \in 0 .. position[s] : position' = [position EXCEPT ![s] = o]
      BY <2>3 DEF RestartConsumer
    <3>2. o \in 0 .. published BY <1>2, <3>1
    <3> QED BY <1>2, <2>3, <3>1, <3>2 DEF RestartConsumer
  <2>4. CASE FetchError BY <1>2, <2>4 DEF FetchError
  <2> QED BY <2>1, <2>2, <2>3, <2>4
<1>4. LogoutsUnderWay' = LogoutsUnderWay BY <1>1 DEF LogoutsUnderWay
<1> QED BY <1>1, <1>3, <1>4 DEF EventsCounted, auth

(* Nobody registers while a registration is under way, and it ends with a  *)
(* user who was announced or with neither.                                 *)
LEMMA RequestRegisters ==
  ASSUME Timed, RegistrationSound, NEW h \in Handlers, Request(h) \/ HandlerStep(h) \/ Crash(h)
  PROVE  RegistrationSound'
<1> SUFFICES ASSUME mode # "free" PROVE RegistrationSound'
  BY RequestGoes DEF RegistrationSound
<1>0. mode' = mode /\ \A g \in Handlers \ {h} : Registering(g)' = Registering(g)
  BY RequestGoes DEF Registering
<1>1. /\ account = "none" => ~announced
      /\ \A f \in Handlers :
           Registering(f) => /\ account = "exists" /\ ~announced
                             /\ \A g \in Handlers : Registering(g) => g = f
      /\ (\A f \in Handlers : ~Registering(f)) => (account = "exists" <=> announced)
  BY DEF RegistrationSound
<1>2. \/ ~Registering(h) /\ account = "none" /\ account' = "exists" /\ announced' = announced
           /\ Registering(h)'
      \/ Registering(h) /\ announced' = TRUE /\ account' = account /\ ~Registering(h)'
      \/ Registering(h) /\ Registering(h)' /\ UNCHANGED auth
      \/ Registering(h) /\ ~Registering(h)' /\ account' = "deleted" /\ announced' = announced
      \/ ~Registering(h) /\ ~Registering(h)' /\ UNCHANGED auth
  BY RequestGoes DEF Goes, Registering, MayFail, auth
<1>3. CASE ~Registering(h) /\ account = "none" /\ account' = "exists" /\ announced' = announced
             /\ Registering(h)'
  BY <1>0, <1>1, <1>3 DEF RegistrationSound
<1>4. CASE Registering(h) /\ announced' = TRUE /\ account' = account /\ ~Registering(h)'
  BY <1>0, <1>1, <1>4 DEF RegistrationSound
<1>5. CASE Registering(h) /\ Registering(h)' /\ UNCHANGED auth
  BY <1>0, <1>1, <1>5 DEF RegistrationSound, auth
<1>6. CASE Registering(h) /\ ~Registering(h)' /\ account' = "deleted" /\ announced' = announced
  BY <1>0, <1>1, <1>6 DEF RegistrationSound
<1>7. CASE ~Registering(h) /\ ~Registering(h)' /\ UNCHANGED auth
  BY <1>0, <1>1, <1>7 DEF RegistrationSound, auth
<1> QED BY <1>2, <1>3, <1>4, <1>5, <1>6, <1>7

(* A request starts when nothing is under way. *)
LEMMA RequestAlone ==
  ASSUME Timed, OneAtATime, NEW h \in Handlers, Request(h) \/ HandlerStep(h) \/ Crash(h)
  PROVE  OneAtATime'
<1> SUFFICES ASSUME mode = "alone" PROVE OneAtATime'
  BY RequestGoes DEF OneAtATime
<1>1. /\ mode' = mode /\ consumer' = consumer
      /\ \A g \in Handlers \ {h} : req'[g] = req[g]
      /\ AllIdle \/ req[h] # Idle
  BY RequestGoes DEF MayStart
<1>2. /\ \A f, g \in Handlers : req[f] # Idle /\ req[g] # Idle => f = g
      /\ \A s \in Services : consumer[s] = "del" =>
           /\ \A f \in Handlers : req[f] = Idle
           /\ \A r \in Services : consumer[r] = "del" => r = s
  BY DEF OneAtATime
<1>3. \A g \in Handlers \ {h} : req'[g] = Idle BY <1>1, <1>2 DEF AllIdle
<1>4. \A s \in Services : consumer'[s] # "del" BY <1>1, <1>2 DEF AllIdle
<1> QED BY <1>3, <1>4 DEF OneAtATime

LEMMA ConsumerAlone ==
  ASSUME EventsCounted, OneAtATime, NEW s \in Services,
         TakeEvent(s) \/ DelEntry(s) \/ RestartConsumer(s) \/ FetchError
  PROVE  OneAtATime'
<1> SUFFICES ASSUME mode = "alone" PROVE OneAtATime'
  BY DEF OneAtATime, TakeEvent, DelEntry, RestartConsumer, FetchError
<1>1. mode' = mode /\ req' = req /\ (TakeEvent(s) \/ DelEntry(s))
  BY DEF TakeEvent, DelEntry, RestartConsumer, FetchError, MayFail
<1>2. \A r \in Services \ {s} : consumer'[r] = consumer[r]
  BY <1>1 DEF EventsCounted, TakeEvent, DelEntry
<1>3. consumer'[s] = "del" => AllIdle
  BY <1>1 DEF EventsCounted, TakeEvent, DelEntry
<1> QED BY <1>1, <1>2, <1>3 DEF OneAtATime, AllIdle

(* A logout leaves entries only with its event to come: the step that ends *)
(* the session is the one before it is published.                          *)
LEMMA RequestComing ==
  ASSUME Timed, EventsCounted, OneAtATime, EventComing,
         NEW h \in Handlers, Request(h) \/ HandlerStep(h) \/ Crash(h)
  PROVE  EventComing'
<1>1. mode' = mode /\ position' = position /\ \A g \in Handlers \ {h} : req'[g] = req[g]
  BY RequestGoes
<1>2. loggedOut' => session' = 0
  BY RequestGoes, TimesAssumption DEF EventComing, sessions
<1> SUFFICES ASSUME mode = "alone"
             PROVE  /\ \A f \in Handlers : req'[f].at = "cache" => session' > 0
                    /\ \A s \in Services :
                         loggedOut' /\ entry'[s] > 0 =>
                           position'[s] < published' \/ \E f \in Handlers : req'[f].at = "publish"
  BY <1>1, <1>2 DEF EventComing
<1>3. /\ \A f \in Handlers : req[f].at = "cache" => session > 0
      /\ \A s \in Services :
           loggedOut /\ entry[s] > 0 =>
             position[s] < published \/ \E f \in Handlers : req[f].at = "publish"
      /\ loggedOut => session = 0
  BY DEF EventComing
<1>4. \A g \in Handlers \ {h} : req'[g] = Idle /\ req[g] = Idle
  <2>1. AllIdle \/ req[h] # Idle BY RequestGoes DEF MayStart
  <2> QED BY <1>1, <2>1 DEF OneAtATime, AllIdle
<1>5. Idle.at = "idle" BY DEF Idle
<1>6. ~MayFail BY DEF MayFail
<1>7. req'[h].at = "cache" => session' > 0
  BY <1>5, <1>6, RequestGoes DEF Goes, sessions
<1>8. ASSUME NEW s \in Services, loggedOut', entry'[s] > 0
      PROVE  position'[s] < published' \/ req'[h].at = "publish"
  <2>1. published \in Nat /\ position[s] \in Nat /\ position[s] <= published
    BY DEF EventsCounted
  <2>2. CASE Goes(h, {"delSession"}, {"publish"}) BY <2>2 DEF Goes
  <2>3. CASE Goes(h, {"publish"}, {"idle"}) /\ published' = published + 1
    BY <1>1, <2>1, <2>3
  <2>4. CASE Goes(h, {"cache"}, {"idle"}) /\ loggedOut' = loggedOut
    BY <1>3, <1>8, <2>4 DEF Goes
  <2>5. CASE /\ req[h].at # "publish"
             /\ loggedOut' = loggedOut /\ entry' = entry /\ published' = published
    <3>1. position[s] < published BY <1>3, <1>4, <1>5, <1>8, <2>5
    <3> QED BY <1>1, <2>5, <3>1
  <2>6. CASE loggedOut' = FALSE BY <1>8, <2>6
  <2> QED BY <1>6, <2>2, <2>3, <2>4, <2>5, <2>6, RequestGoes DEF Goes, sessions, MayStart, Idle
<1> QED BY <1>4, <1>5, <1>7, <1>8

(* The consumer deletes the entry before it passes the event.              *)
LEMMA ConsumerComing ==
  ASSUME Timed, EventsCounted, OneAtATime, EventComing, NEW s \in Services,
         TakeEvent(s) \/ DelEntry(s) \/ RestartConsumer(s) \/ FetchError
  PROVE  EventComing'
<1>1. UNCHANGED <<mode, session, loggedOut, published, req>>
  BY DEF TakeEvent, DelEntry, RestartConsumer, FetchError, sessions
<1> SUFFICES ASSUME mode = "alone", NEW r \in Services, loggedOut, entry'[r] > 0
             PROVE  position'[r] < published \/ \E f \in Handlers : req[f].at = "publish"
  BY <1>1 DEF EventComing
<1>2. ~MayFail BY DEF MayFail
<1>3. CASE TakeEvent(s)
  BY <1>2, <1>3 DEF TakeEvent, EventComing, EventsCounted
<1>4. CASE DelEntry(s)
  <2>1. entry'[s] = 0 /\ \A q \in Services \ {s} : entry'[q] = entry[q]
    BY <1>2, <1>4 DEF DelEntry, Timed
  <2>2. r # s BY <2>1
  <2>3. position'[r] = position[r] BY <1>4, <2>2 DEF DelEntry, EventsCounted
  <2> QED BY <2>1, <2>2, <2>3 DEF EventComing
<1>5. CASE RestartConsumer(s) \/ FetchError
  BY <1>2, <1>5 DEF RestartConsumer, FetchError
<1> QED BY <1>3, <1>4, <1>5

LEMMA TickSInv == SInv /\ Tick => SInv'
<1> SUFFICES ASSUME SInv, Tick PROVE SInv'
  OBVIOUS
<1>0. IInv /\ Timed /\ EventsCounted /\ RegistrationSound /\ OneAtATime /\ EventComing
  BY DEF SInv, IInv
<1>1. IInv' BY <1>0, TickStep
<1>2. UNCHANGED <<mode, account, announced, loggedOut, published, position, consumer, req>>
  BY DEF Tick, auth, kafka
<1>3. EventsCounted' BY <1>0, <1>2 DEF EventsCounted, LogoutsUnderWay
<1>4. RegistrationSound' BY <1>0, <1>2 DEF RegistrationSound, Registering
<1>5. OneAtATime' BY <1>0, <1>2 DEF OneAtATime
<1>6. session' = Less(session) /\ entry' = [s \in Services |-> Less(entry[s])]
        /\ (AllIdle \/ mode = "free")
  BY DEF Tick
<1>7. \A s \in Services : entry'[s] > 0 => entry[s] > 0
  <2> TAKE s \in Services
  <2>1. entry[s] \in Nat /\ entry'[s] = Less(entry[s]) BY <1>0, <1>6, TimesAssumption DEF Timed
  <2> QED BY <2>1 DEF Less
<1>8. EventComing' BY <1>0, <1>2, <1>6, <1>7 DEF EventComing, Less, AllIdle, Idle
<1> QED BY <1>1, <1>3, <1>4, <1>5, <1>8 DEF SInv

LEMMA StepSInv == SInv /\ [Next]_vars => SInv'
<1> SUFFICES ASSUME SInv, [Next]_vars PROVE SInv'
  OBVIOUS
<1>0. IInv /\ Timed /\ EventsCounted /\ RegistrationSound /\ OneAtATime /\ EventComing
  BY DEF SInv, IInv
<1>1. IInv' BY <1>0, StepIInv
<1>2. CASE UNCHANGED vars
  BY <1>0, <1>1, <1>2 DEF vars, auth, sessions, kafka, SInv, EventsCounted, LogoutsUnderWay,
     RegistrationSound, Registering, OneAtATime, EventComing
<1>3. ASSUME NEW h \in Handlers, Request(h) \/ HandlerStep(h) \/ Crash(h) PROVE SInv'
  BY <1>0, <1>1, <1>3, RequestCounted, RequestRegisters, RequestAlone, RequestComing DEF SInv
<1>4. ASSUME NEW s \in Services,
             TakeEvent(s) \/ DelEntry(s) \/ RestartConsumer(s) \/ FetchError
      PROVE  SInv'
  <2>1. RegistrationSound'
    BY <1>0, <1>4 DEF TakeEvent, DelEntry, RestartConsumer, FetchError, RegistrationSound,
       Registering, auth
  <2> QED BY <1>0, <1>1, <1>4, <2>1, ConsumerCounted, ConsumerAlone, ConsumerComing DEF SInv
<1>5. CASE FetchError BY <1>4, <1>5 DEF FetchError
<1> QED BY <1>2, <1>3, <1>4, <1>5, TickSInv DEF Next

(* Types, for every number of services, requests and logouts: a consumer   *)
(* never passes more events than there are.                                *)
THEOREM TypeCorrect == Spec => []TypeOK
<1>1. SInv => TypeOK
  <2> SUFFICES ASSUME SInv PROVE TypeOK
    OBVIOUS
  <2>1. Timed /\ EventsCounted BY DEF SInv, IInv
  <2>2. published \in 0 .. MaxLogouts
    <3>1. IsFiniteSet(LogoutsUnderWay)
      <4>1. IsFiniteSet(Handlers) BY FS_Interval, BoundsAssumption DEF Handlers
      <4>2. LogoutsUnderWay \in SUBSET Handlers BY DEF LogoutsUnderWay
      <4> QED BY <4>1, <4>2, FS_Subset
    <3>2. Cardinality(LogoutsUnderWay) \in Nat BY <3>1, FS_CardinalityType
    <3>3. published \in Nat /\ published + Cardinality(LogoutsUnderWay) <= MaxLogouts
      BY <2>1 DEF EventsCounted
    <3> QED BY <3>2, <3>3, BoundsAssumption
  <2> QED BY <2>1, <2>2 DEF Timed, ClockSteps, EventsCounted, TypeOK
<1> QED BY <1>1, InitSInv, StepSInv, PTL DEF Spec

(* README:166, one request at a time: when the event of a logout has been  *)
(* applied, the service holds no entry of the session, however many        *)
(* logins, verifications and logouts came before.                          *)
THEOREM LogoutsPurge == Spec => []LogoutPurges
<1>1. SInv => LogoutPurges
  <2> SUFFICES ASSUME SInv, mode = "alone", AllIdle, loggedOut,
                      NEW s \in Services, position[s] = published
               PROVE  entry[s] = 0
    BY DEF LogoutPurges
  <2>1. position[s] \in Nat /\ published \in Nat BY DEF SInv, EventsCounted
  <2>2. entry[s] \in Nat BY TimesAssumption DEF SInv, IInv, Timed
  <2>3. \A h \in Handlers : req[h].at # "publish" BY DEF AllIdle, Idle
  <2>4. ~(entry[s] > 0) BY <2>1, <2>3 DEF SInv, EventComing
  <2> QED BY <2>2, <2>4
<1> QED BY <1>1, InitSInv, StepSInv, PTL DEF Spec

(* Where no process dies and no answer is lost, a user is in the auth      *)
(* database exactly if the other services were told, whatever requests     *)
(* overlap with the registration.                                          *)
THEOREM UsersAnnounced == Spec => []AccountAnnounced
<1>1. SInv => AccountAnnounced
  BY DEF SInv, RegistrationSound, Registering, AccountAnnounced, AllIdle, Idle
<1> QED BY <1>1, InitSInv, StepSInv, PTL DEF Spec
=============================================================================
