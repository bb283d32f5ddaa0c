----------------------------- MODULE EdgeProofs -----------------------------
(***************************************************************************)
(* Proofs about the machines between the services and at their edges: the  *)
(* login sessions of the gateway, the owner of the crawl jobs, the         *)
(* schedules, and the way of an execution's events to the person.          *)
(***************************************************************************)
EXTENDS Schedules, CrawlerOwner, Gateway, EventRelay, FiniteSetTheorems, SeqFilterProofs, TLAPS

(***************************************************************************)
(* The gateway's sessions.                                                 *)
(***************************************************************************)

\* The request being served, well formed.
Request ==
  [pc : {"none", "calling", "answered"}, token : Tokens \cup {"none"}, kind : Kinds, sent : Nat,
   verdict : {"none", "admitted", "log in", "unavailable"}, rightly : BOOLEAN]

\* The gateway's state, well formed.
GatewayTypeOK ==
  /\ hour \in Nat
  /\ stored \in [Tokens -> SUBSET Nat]
  /\ ends \in [Tokens -> Nat]
  /\ request \in Request

\* The table holds no other row of a token than the one its login stored, and holds that one for as
\* long as the session lasts: neither the sweep nor a logout leaves a difference that get could see.
RowsAreSessions ==
  \A t \in Tokens :
    /\ stored[t] \subseteq {ends[t]}
    /\ ends[t] > hour => stored[t] = {ends[t]}

\* A request still being tried has an attempt left, and is a read once it was sent.
AttemptsLeft ==
  request.pc = "calling" => /\ request.sent < Attempts
                            /\ request.sent > 0 => request.kind = "crawler read"

GatewayInv == GatewayTypeOK /\ RowsAreSessions /\ AttemptsLeft /\ SessionsHonoured

\* The gateway starts without sessions and without a request.
LEMMA GatewayInvInit == GatewayInit => GatewayInv
  BY DEF GatewayInit, GatewayInv, GatewayTypeOK, Request, NoRequest, Kinds, RowsAreSessions,
         AttemptsLeft, SessionsHonoured

\* sessions.rs get finds a row exactly while the session lasts.
LEMMA GoodIsLasting ==
  ASSUME GatewayTypeOK, RowsAreSessions, NEW t \in Tokens
  PROVE  Good(t) # {} <=> ends[t] > hour
  BY DEF GatewayTypeOK, RowsAreSessions, Good

\* A step that leaves the request alone keeps what is said of it.
LEMMA RequestUntouched ==
  GatewayInv /\ request' = request => request' \in Request /\ AttemptsLeft' /\ SessionsHonoured'
  BY DEF GatewayInv, GatewayTypeOK, AttemptsLeft, SessionsHonoured

\* Every step of the gateway keeps the invariant.
LEMMA GatewayInvNext == GatewayInv /\ [GatewayNext]_gatewayVars => GatewayInv'
<1> SUFFICES ASSUME GatewayInv, [GatewayNext]_gatewayVars PROVE GatewayInv'
  OBVIOUS
<1> USE GatewayAssumption DEF GatewayInv
<1>1. ASSUME NEW t \in Tokens, Login(t) PROVE GatewayInv'
  <2>1. /\ stored' \in [Tokens -> SUBSET Nat] /\ ends' \in [Tokens -> Nat]
        /\ RowsAreSessions' /\ hour' \in Nat
    BY <1>1 DEF Login, Keep, GatewayTypeOK, RowsAreSessions
  <2> QED
    BY <1>1, <2>1, RequestUntouched DEF Login, GatewayTypeOK
<1>2. ASSUME NEW t \in Tokens, Logout(t) PROVE GatewayInv'
  <2>1. /\ stored' \in [Tokens -> SUBSET Nat] /\ ends' \in [Tokens -> Nat]
        /\ RowsAreSessions' /\ hour' \in Nat
    BY <1>2 DEF Logout, Keep, GatewayTypeOK, RowsAreSessions
  <2> QED
    BY <1>2, <2>1, RequestUntouched DEF Logout, GatewayTypeOK
<1>3. ASSUME NEW t \in Tokens, NEW kind \in Kinds, Arrives(t, kind) PROVE GatewayInv'
  <2>1. PICK store \in BOOLEAN :
          request' = [pc |-> IF store /\ Good(t) # {} THEN "calling" ELSE "answered",
                      token |-> t, kind |-> kind, sent |-> 0,
                      verdict |-> IF ~store THEN "unavailable"
                                  ELSE IF Good(t) # {} THEN "admitted" ELSE "log in",
                      rightly |-> ends[t] > hour]
    BY <1>3 DEF Arrives
  <2>2. Good(t) # {} <=> ends[t] > hour
    BY GoodIsLasting
  <2> DEFINE lasts == ends[t] > hour
  <2>3. lasts \in BOOLEAN
    BY DEF GatewayTypeOK
  <2>a. request'.sent = 0
    BY <2>1, Zenon
  <2>4. /\ request'.rightly = lasts
        /\ request'.verdict = "admitted" => Good(t) # {}
        /\ request'.verdict = "log in" => Good(t) = {}
    BY <2>1, Zenon
  <2> HIDE DEF lasts
  <2>5. request' \in Request
    BY <2>1, <2>3, Zenon DEF Request, lasts
  <2>6. UNCHANGED <<hour, stored, ends>>
    BY <1>3 DEF Arrives
  <2>7. GatewayTypeOK' /\ RowsAreSessions'
    BY <2>5, <2>6 DEF GatewayTypeOK, RowsAreSessions
  <2>8. AttemptsLeft'
    <3>1. request'.sent < Attempts /\ ~(request'.sent > 0)
      BY <2>a DEF Attempts
    <3> QED
      BY <3>1, Zenon DEF AttemptsLeft
  <2>9. SessionsHonoured'
    <3>1. ~(request'.sent > 1)
      BY <2>a
    <3> QED
      BY <2>2, <2>4, <3>1, Zenon DEF SessionsHonoured, lasts
  <2> QED
    BY <2>7, <2>8, <2>9
<1>4. ASSUME Calls PROVE GatewayInv'
  <2>1. PICK answer \in {"ok", "away", "refused"} :
          request' = [request EXCEPT !.sent = @ + 1,
            !.pc = IF answer = "away" /\ request.kind \notin SentOnce
                      /\ request.sent + 1 < Attempts
                   THEN "calling" ELSE "answered"]
    BY <1>4 DEF Calls
  <2>b. request.kind \in Kinds /\ request.sent \in Nat
    BY Zenon DEF GatewayTypeOK, Request
  <2>2. request.sent + 1 \in Nat
    BY <2>b
  <2>3. request' \in Request
    BY <2>1, <2>b, <2>2, Zenon DEF GatewayTypeOK, Request
  <2>4. UNCHANGED <<hour, stored, ends>> /\ request.pc = "calling"
    BY <1>4 DEF Calls
  <2>5. GatewayTypeOK' /\ RowsAreSessions'
    BY <2>3, <2>4 DEF GatewayTypeOK, RowsAreSessions
  <2>6. /\ request'.sent = request.sent + 1 /\ request'.kind = request.kind
        /\ request'.pc = "calling" => request.kind \notin SentOnce /\ request.sent + 1 < Attempts
    BY <2>1 DEF GatewayTypeOK, Request
  <2>c. request'.verdict = request.verdict /\ request'.rightly = request.rightly
    BY <2>1 DEF GatewayTypeOK, Request
  <2>7. /\ AttemptsLeft'
        /\ request'.sent > 1 => request'.kind = "crawler read" /\ request'.sent <= Attempts
    <3>1. /\ request.sent < Attempts
          /\ request.sent > 0 => request.kind = "crawler read"
      BY <2>4, Zenon DEF AttemptsLeft
    <3>2. /\ request'.sent <= Attempts
          /\ request'.sent > 1 => request.sent > 0
          /\ request.sent + 1 < Attempts => request'.sent < Attempts
      <4> HIDE DEF GatewayInv
      <4>1. request.sent \in Nat /\ request'.sent = request.sent + 1 /\ request.sent < Attempts
        BY <2>b, <2>6, <3>1
      <4> QED
        BY <4>1 DEF Attempts
    <3>3. request.kind \notin SentOnce => request.kind = "crawler read"
      BY <2>b, Zenon DEF Kinds, SentOnce
    <3> QED
      BY <2>6, <3>1, <3>2, <3>3, Zenon DEF AttemptsLeft
  <2>8. SessionsHonoured'
    BY <2>c, <2>7, Zenon DEF SessionsHonoured
  <2> QED
    BY <2>5, <2>7, <2>8
<1>5. CASE Sweep
  <2>1. stored' \in [Tokens -> SUBSET Nat] /\ RowsAreSessions'
    BY <1>5 DEF Sweep, Dropped, GatewayTypeOK, RowsAreSessions
  <2> QED
    BY <1>5, <2>1, RequestUntouched DEF Sweep, GatewayTypeOK
<1>6. CASE HourPasses
  <2>1. hour' \in Nat /\ RowsAreSessions'
    BY <1>6 DEF HourPasses, GatewayTypeOK, RowsAreSessions
  <2> QED
    BY <1>6, <2>1, RequestUntouched DEF HourPasses, GatewayTypeOK
<1>7. CASE UNCHANGED gatewayVars
  BY <1>7 DEF gatewayVars, GatewayTypeOK, RowsAreSessions, AttemptsLeft, SessionsHonoured
<1> QED
  BY <1>1, <1>2, <1>3, <1>4, <1>5, <1>6, <1>7 DEF GatewayNext

\* Whatever the number of tokens, the time to live and the moments of the sweep, a request is let
\* through exactly while its session lasts and only a read is sent upstream again (web.rs
\* require_session, sessions.rs get, proxy.rs retry_crawler_call).
THEOREM SessionsAreHonoured == GatewaySpec => []SessionsHonoured
<1>1. GatewayInv => SessionsHonoured
  BY DEF GatewayInv
<1> QED
  BY <1>1, GatewayInvInit, GatewayInvNext, PTL DEF GatewaySpec

(***************************************************************************)
(* The owner of the crawl jobs.                                            *)
(***************************************************************************)

\* What an instance may be doing, and for how long at most.
Phase == {"off", "waiting", "starting", "new", "old"}

Slack(k) ==
  /\ k.check # "none" => k.phase \in {"waiting", "new", "old"} /\ k.left <= CheckTimeout
  /\ k.phase \in {"new", "old"} => k.left <= CheckInterval
  /\ k.phase \in {"off", "starting"} => k.left = 0

Instance == [phase : Phase, check : {"none", "asked", "answered"}, left : 0 .. TakeoverDelay]

\* The instances, their sessions and the lock, well formed.
OwnerTypeOK ==
  /\ instance \in [Instances -> Instance] /\ \A i \in Instances : Slack(instance[i])
  /\ session \in [Instances -> BOOLEAN]
  /\ lock \subseteq Instances

\* The advisory lock is one session's, lives as long as that session, and a process that ended has no
\* session.
LockIsASession ==
  /\ \A i \in Instances : session[i] <=> i \in lock
  /\ \A i, j \in lock : i = j
  /\ \A i \in lock : instance[i].phase # "off"

\* How long an instance that is or is about to be known for an owner goes on, should no heartbeat of
\* its session run any more.
Rest(k) ==
  IF k.phase \notin {"new", "old"} THEN 0
  ELSE IF k.check = "answered" THEN k.left + CheckInterval + CheckTimeout
  ELSE IF k.phase = "new" THEN 0
  ELSE IF k.check = "asked" THEN k.left ELSE k.left + CheckTimeout

\* How long an instance waits for the previous owner.
Wait(k) == IF k.phase = "waiting" /\ k.check = "none" THEN k.left ELSE 0

\* Who holds the lock waits for no less than any other goes on: this is what
\* TAKEOVER_SAFETY_DELAY_MS is for.
WaitsLongEnough ==
  \A i \in Instances, j \in lock : i # j => Rest(instance[i]) <= Wait(instance[j])

\* At most one instance known for an owner goes on at all.
OneGoesOn ==
  \A i, j \in Instances : i # j => Rest(instance[i]) = 0 \/ Rest(instance[j]) = 0

OwnerInv == OwnerTypeOK /\ LockIsASession /\ WaitsLongEnough /\ OneGoesOn

\* What an instance is made of.
LEMMA InstanceIs ==
  ASSUME NEW k \in Instance, Slack(k)
  PROVE  /\ k.phase \in Phase /\ k.check \in {"none", "asked", "answered"} /\ k.left \in 0 .. 4
         /\ k.check # "none" => k.phase \in {"waiting", "new", "old"} /\ k.left <= 1
         /\ k.phase \in {"new", "old"} => k.left <= 2
         /\ k.phase \in {"off", "starting"} => k.left = 0
  BY DEF Instance, Slack, TakeoverDelay, CheckInterval, CheckTimeout

\* An instance put together from its parts.
LEMMA NowIs ==
  ASSUME NEW p \in Phase, NEW c \in {"none", "asked", "answered"}, NEW n \in 0 .. 4,
         c # "none" => p \in {"waiting", "new", "old"} /\ n <= 1,
         p \in {"new", "old"} => n <= 2,
         p \in {"off", "starting"} => n = 0
  PROVE  /\ Now(p, c, n) \in Instance /\ Slack(Now(p, c, n))
         /\ Now(p, c, n).phase = p /\ Now(p, c, n).check = c /\ Now(p, c, n).left = n
<1>1. /\ Now(p, c, n) \in Instance
      /\ Now(p, c, n).phase = p /\ Now(p, c, n).check = c /\ Now(p, c, n).left = n
  BY DEF Now, Instance, TakeoverDelay
<1> QED
  BY <1>1 DEF Slack, CheckInterval, CheckTimeout

\* Both times, phase by phase.
LEMMA OwnerTimesAre ==
  ASSUME NEW k \in Instance
  PROVE  /\ k.phase \notin {"new", "old"} => Rest(k) = 0
         /\ k.phase \in {"new", "old"} /\ k.check = "answered" => Rest(k) = k.left + 3
         /\ k.phase = "new" /\ k.check # "answered" => Rest(k) = 0
         /\ k.phase = "old" /\ k.check = "asked" => Rest(k) = k.left
         /\ k.phase = "old" /\ k.check = "none" => Rest(k) = k.left + 1
         /\ k.phase = "waiting" /\ k.check = "none" => Wait(k) = k.left
         /\ k.phase # "waiting" \/ k.check # "none" => Wait(k) = 0
<1>1. k.left \in 0 .. 4
  BY DEF Instance, TakeoverDelay
<1>2. k.phase \notin {"new", "old"} => Rest(k) = 0
  BY DEF Rest
<1>3. k.phase \in {"new", "old"} /\ k.check = "answered" => Rest(k) = k.left + 3
  <2>1. k.phase \in {"new", "old"} /\ k.check = "answered"
          => Rest(k) = k.left + CheckInterval + CheckTimeout
    BY DEF Rest
  <2> QED
    BY <1>1, <2>1 DEF CheckInterval, CheckTimeout
<1>4. k.phase = "new" /\ k.check # "answered" => Rest(k) = 0
  BY DEF Rest
<1>5. /\ k.phase = "old" /\ k.check = "asked" => Rest(k) = k.left
      /\ k.phase = "old" /\ k.check = "none" => Rest(k) = k.left + 1
  BY DEF Rest, CheckTimeout
<1>6. /\ k.phase = "waiting" /\ k.check = "none" => Wait(k) = k.left
      /\ k.phase # "waiting" \/ k.check # "none" => Wait(k) = 0
  BY DEF Wait
<1> QED
  BY <1>2, <1>3, <1>4, <1>5, <1>6

\* Both times are bounded by the delay.
LEMMA OwnerTimes ==
  ASSUME NEW k \in Instance, Slack(k)
  PROVE  Rest(k) \in 0 .. 4 /\ Wait(k) \in 0 .. 4
<1>1. CASE k.phase \notin {"new", "old"}
  BY <1>1, OwnerTimesAre, InstanceIs
<1>2. CASE k.phase \in {"new", "old"} /\ k.check = "answered"
  BY <1>2, OwnerTimesAre, InstanceIs
<1>3. CASE k.phase \in {"new", "old"} /\ k.check # "answered"
  BY <1>3, OwnerTimesAre, InstanceIs
<1> QED
  BY <1>1, <1>2, <1>3

\* A process that is not there.
LEMMA OffIs == Off \in Instance /\ Slack(Off) /\ Off.phase = "off" /\ Rest(Off) = 0
<1>1. Off \in Instance /\ Slack(Off) /\ Off.phase = "off"
  BY NowIs DEF Off, Phase
<1> QED
  BY <1>1, OwnerTimesAre

\* No instance runs at first.
LEMMA OwnerInvInit == OwnerInit => OwnerInv
<1> SUFFICES ASSUME OwnerInit PROVE OwnerInv
  OBVIOUS
<1> QED
  BY OffIs DEF OwnerInit, OwnerInv, OwnerTypeOK, LockIsASession, WaitsLongEnough, OneGoesOn

\* An instance moves on by itself: it goes on for no longer than before, or holds the lock and has
\* done with waiting; and as long as it holds the lock it waits for no less than before.
LEMMA OneMovesOn ==
  ASSUME OwnerInv, NEW i \in Instances, NEW k \in Instance, Slack(k),
         instance' = [instance EXCEPT ![i] = k],
         session' = session, lock' = lock, k.phase # "off",
         Rest(k) <= Rest(instance[i]) \/ (i \in lock /\ Wait(instance[i]) = 0),
         Wait(instance[i]) <= Wait(k)
  PROVE  OwnerInv'
<1> USE DEF OwnerInv
<1>1. /\ instance' \in [Instances -> Instance] /\ instance'[i] = k
      /\ \A j \in Instances : j # i => instance'[j] = instance[j]
  BY DEF OwnerTypeOK
<1>2. OwnerTypeOK' /\ LockIsASession'
  BY <1>1 DEF OwnerTypeOK, LockIsASession
<1>3. /\ \A j \in Instances : Rest(instance[j]) \in Nat /\ Wait(instance[j]) \in Nat
      /\ Rest(k) \in Nat /\ Wait(k) \in Nat
  BY OwnerTimes DEF OwnerTypeOK
<1>4. WaitsLongEnough'
  <2> SUFFICES ASSUME NEW a \in Instances, NEW b \in lock, a # b
               PROVE  Rest(instance'[a]) <= Wait(instance'[b])
    BY DEF WaitsLongEnough
  <2>1. Rest(instance[a]) <= Wait(instance[b]) /\ b \in Instances
    BY DEF WaitsLongEnough, OwnerTypeOK
  <2>2. CASE a = i
    BY <1>1, <1>3, <2>1, <2>2 DEF LockIsASession
  <2>3. CASE b = i
    BY <1>1, <1>3, <2>1, <2>3
  <2> QED
    BY <1>1, <2>1, <2>2, <2>3
<1>5. \A j \in Instances : j # i => Rest(k) = 0 \/ Rest(instance[j]) = 0
  BY <1>3 DEF WaitsLongEnough, OneGoesOn
<1>6. OneGoesOn'
  BY <1>1, <1>5 DEF OneGoesOn
<1> QED
  BY <1>2, <1>4, <1>6

\* A process that ends takes its session and the lock with it.
LEMMA OneEnds ==
  ASSUME OwnerInv, NEW i \in Instances,
         instance' = [instance EXCEPT ![i] = Off],
         session' = [session EXCEPT ![i] = FALSE], lock' = lock \ {i}
  PROVE  OwnerInv'
<1> USE DEF OwnerInv
<1>0. Off \in Instance /\ Slack(Off) /\ Off.phase = "off" /\ Rest(Off) = 0
  BY OffIs
<1>1. /\ instance' \in [Instances -> Instance] /\ instance'[i] = Off
      /\ \A j \in Instances : j # i => instance'[j] = instance[j]
  BY <1>0 DEF OwnerTypeOK
<1>2. /\ session' \in [Instances -> BOOLEAN] /\ ~session'[i]
      /\ \A j \in Instances : j # i => session'[j] = session[j]
  BY DEF OwnerTypeOK
<1>s. \A j \in Instances : Slack(instance'[j])
  BY <1>0, <1>1 DEF OwnerTypeOK
<1>3. OwnerTypeOK' /\ LockIsASession'
  BY <1>1, <1>2, <1>s DEF OwnerTypeOK, LockIsASession
<1>4. \A j \in Instances : Wait(instance[j]) \in Nat
  BY OwnerTimes DEF OwnerTypeOK
<1>5. WaitsLongEnough'
  <2> SUFFICES ASSUME NEW a \in Instances, NEW b \in lock, b # i, a # b
               PROVE  Rest(instance'[a]) <= Wait(instance'[b])
    BY DEF WaitsLongEnough
  <2>1. Rest(instance[a]) <= Wait(instance[b]) /\ b \in Instances /\ instance'[b] = instance[b]
    BY <1>1 DEF WaitsLongEnough, OwnerTypeOK
  <2> QED
    BY <1>0, <1>1, <1>4, <2>1
<1>6. OneGoesOn'
  BY <1>0, <1>1 DEF OneGoesOn
<1> QED
  BY <1>3, <1>5, <1>6

\* Every step of an instance, of its session or of time keeps the invariant.
LEMMA OwnerInvNext == OwnerInv /\ [OwnerNext]_ownerVars => OwnerInv'
<1> SUFFICES ASSUME OwnerInv, [OwnerNext]_ownerVars PROVE OwnerInv'
  OBVIOUS
<1> USE DEF OwnerInv
<1>t. \A i \in Instances : instance[i] \in Instance /\ Slack(instance[i])
  BY DEF OwnerTypeOK
<1>n. \A j \in Instances : Rest(instance[j]) \in 0 .. 4 /\ Wait(instance[j]) \in 0 .. 4
  BY <1>t, OwnerTimes
<1>1. ASSUME NEW i \in Instances, Acquire(i) PROVE OwnerInv'
  <2>1. PICK k : /\ k = Now("waiting", "none", 4)
                 /\ instance' = [instance EXCEPT ![i] = k] /\ lock' = {i} /\ lock = {}
    BY <1>1 DEF Acquire, TakeoverDelay
  <2>2. k \in Instance /\ Slack(k) /\ k.phase = "waiting" /\ k.check = "none" /\ k.left = 4
    BY <2>1, NowIs DEF Phase
  <2>r. Rest(k) = 0 /\ Wait(k) = 4 /\ k.phase # "off"
    BY <2>2, OwnerTimesAre
  <2>3. /\ instance' \in [Instances -> Instance] /\ instance'[i] = k
        /\ \A j \in Instances : j # i => instance'[j] = instance[j]
    BY <2>1, <2>2 DEF OwnerTypeOK
  <2>4. /\ session' \in [Instances -> BOOLEAN] /\ session'[i]
        /\ \A j \in Instances : j # i => session'[j] = session[j]
    BY <1>1 DEF Acquire, OwnerTypeOK
  <2>5. OwnerTypeOK' /\ LockIsASession'
    BY <2>1, <2>2, <2>r, <2>3, <2>4 DEF OwnerTypeOK, LockIsASession
  <2>6. WaitsLongEnough'
    BY <1>n, <2>1, <2>r, <2>3 DEF WaitsLongEnough
  <2>7. OneGoesOn'
    BY <2>r, <2>3 DEF OneGoesOn
  <2> QED
    BY <2>5, <2>6, <2>7
<1>2. ASSUME NEW i \in Instances, Check(i) PROVE OwnerInv'
  <2>1. PICK k : /\ k = Now(instance[i].phase, "asked", 1)
                 /\ instance' = [instance EXCEPT ![i] = k] /\ session' = session /\ lock' = lock
    BY <1>2 DEF Check, CheckTimeout
  <2>2. /\ instance[i].phase \in {"waiting", "new", "old"}
        /\ instance[i].check = "none" /\ instance[i].left = 0
    BY <1>2 DEF Check
  <2>3. /\ k \in Instance /\ Slack(k) /\ k.phase = instance[i].phase /\ k.check = "asked"
        /\ k.left = 1
    BY <2>1, <2>2, NowIs DEF Phase
  <2>4. Rest(k) <= Rest(instance[i])
    BY <1>t, <2>2, <2>3, OwnerTimesAre
  <2>5. Wait(instance[i]) <= Wait(k) /\ k.phase # "off"
    BY <1>t, <2>2, <2>3, OwnerTimesAre
  <2> QED
    BY <2>1, <2>3, <2>4, <2>5, OneMovesOn
<1>3. ASSUME NEW i \in Instances, Executes(i) PROVE OwnerInv'
  <2>1. PICK k : /\ k = Now(instance[i].phase, "answered", instance[i].left)
                 /\ instance' = [instance EXCEPT ![i] = k] /\ session' = session /\ lock' = lock
    BY <1>3 DEF Executes
  <2>2. /\ instance[i].check = "asked" /\ instance[i].left \in 0 .. 4 /\ instance[i].left <= 1
        /\ instance[i].phase \in {"waiting", "new", "old"}
    BY <1>3, <1>t, InstanceIs DEF Executes
  <2>3. /\ k \in Instance /\ Slack(k) /\ k.phase = instance[i].phase /\ k.check = "answered"
    BY <2>1, <2>2, NowIs DEF Phase
  <2>4. Wait(instance[i]) = 0 /\ Wait(k) = 0
    BY <1>t, <2>2, <2>3, OwnerTimesAre
  <2>e. Wait(instance[i]) <= Wait(k) /\ k.phase # "off"
    BY <2>2, <2>3, <2>4
  <2>5. i \in lock
    BY <1>3 DEF Executes, LockIsASession
  <2> QED
    BY <2>1, <2>3, <2>4, <2>e, <2>5, OneMovesOn
<1>4. ASSUME NEW i \in Instances, Answered(i) PROVE OwnerInv'
  <2>1. /\ instance[i].check = "answered" /\ instance[i].left \in 0 .. 4
        /\ instance[i].phase \in {"waiting", "new", "old"}
    BY <1>4, <1>t, InstanceIs DEF Answered
  <2>2. PICK k : /\ instance' = [instance EXCEPT ![i] = k] /\ session' = session /\ lock' = lock
                 /\ k = IF instance[i].phase = "waiting" THEN Now("starting", "none", 0)
                                                             ELSE Now("old", "none", 2)
    BY <1>4 DEF Answered, CheckInterval
  <2>3. CASE instance[i].phase = "waiting"
    <3>1. k = Now("starting", "none", 0)
      BY <2>2, <2>3
    <3>2. k \in Instance /\ Slack(k) /\ k.phase = "starting"
      BY <3>1, NowIs DEF Phase
    <3>3. Rest(k) = 0 /\ Rest(instance[i]) = 0 /\ Wait(k) = 0 /\ Wait(instance[i]) = 0
      BY <1>t, <2>1, <2>3, <3>2, OwnerTimesAre
    <3>4. Rest(k) <= Rest(instance[i]) /\ Wait(instance[i]) <= Wait(k) /\ k.phase # "off"
      BY <3>2, <3>3
    <3> QED
      BY <2>2, <3>2, <3>4, OneMovesOn
  <2>4. CASE instance[i].phase # "waiting"
    <3>1. k = Now("old", "none", 2)
      BY <2>2, <2>4
    <3>2. k \in Instance /\ Slack(k) /\ k.phase = "old" /\ k.check = "none" /\ k.left = 2
      BY <3>1, NowIs DEF Phase
    <3>3. Rest(k) = 3 /\ Wait(k) = 0
      BY <3>2, OwnerTimesAre
    <3>4. Rest(instance[i]) = instance[i].left + 3 /\ Wait(instance[i]) = 0
      BY <1>t, <2>1, <2>4, OwnerTimesAre
    <3>5. Rest(k) <= Rest(instance[i]) /\ Wait(instance[i]) <= Wait(k) /\ k.phase # "off"
      BY <2>1, <3>2, <3>3, <3>4
    <3> QED
      BY <2>2, <3>2, <3>5, OneMovesOn
  <2> QED
    BY <2>3, <2>4
<1>5. ASSUME NEW i \in Instances, Starts(i) PROVE OwnerInv'
  <2>1. PICK k : /\ k = Now("new", "none", 2)
                 /\ instance' = [instance EXCEPT ![i] = k] /\ session' = session /\ lock' = lock
    BY <1>5 DEF Starts, CheckInterval
  <2>2. instance[i].phase = "starting"
    BY <1>5 DEF Starts
  <2>3. k \in Instance /\ Slack(k) /\ k.phase = "new" /\ k.check = "none"
    BY <2>1, NowIs DEF Phase
  <2>4. Rest(k) = 0 /\ Rest(instance[i]) = 0 /\ Wait(instance[i]) = 0 /\ Wait(k) = 0
    BY <1>t, <2>2, <2>3, OwnerTimesAre
  <2>5. Rest(k) <= Rest(instance[i]) /\ Wait(instance[i]) <= Wait(k) /\ k.phase # "off"
    BY <2>3, <2>4
  <2> QED
    BY <2>1, <2>3, <2>5, OneMovesOn
<1>6. ASSUME NEW i \in Instances, Stops(i) \/ Killed(i) PROVE OwnerInv'
  BY <1>6, OneEnds DEF Stops, Killed
<1>7. ASSUME NEW i \in Instances, SessionDrops(i) PROVE OwnerInv'
  <2>1. /\ session' \in [Instances -> BOOLEAN] /\ ~session'[i]
        /\ \A j \in Instances : j # i => session'[j] = session[j]
    BY <1>7 DEF SessionDrops, OwnerTypeOK
  <2>2. instance' = instance /\ lock' = lock \ {i}
    BY <1>7 DEF SessionDrops
  <2> QED
    BY <2>1, <2>2 DEF OwnerTypeOK, LockIsASession, WaitsLongEnough, OneGoesOn
<1>8. ASSUME Passes PROVE OwnerInv'
  <2>1. session' = session /\ lock' = lock /\ instance' = [i \in Instances |-> instance'[i]]
    BY <1>8 DEF Passes
  <2>2. ASSUME NEW i \in Instances
        PROVE  /\ instance'[i] \in Instance /\ Slack(instance'[i])
               /\ instance'[i].phase = instance[i].phase
               /\ \/ Rest(instance[i]) = 0 /\ Rest(instance'[i]) = 0
                  \/ Rest(instance[i]) > 0 /\ Rest(instance'[i]) = Rest(instance[i]) - 1
               /\ \/ Wait(instance[i]) = 0 /\ Wait(instance'[i]) = 0
                  \/ Wait(instance[i]) > 0 /\ Wait(instance'[i]) = Wait(instance[i]) - 1
    <3>1. CASE i \notin Timed
      <4>1. instance'[i] = instance[i] /\ instance[i].phase \notin {"waiting", "new", "old"}
        BY <1>8, <3>1 DEF Passes, Timed
      <4>2. Rest(instance[i]) = 0 /\ Wait(instance[i]) = 0
        BY <1>t, <4>1, OwnerTimesAre
      <4> QED
        BY <1>t, <4>1, <4>2
    <3>2. CASE i \in Timed
      <4>1. /\ instance'[i] = Now(instance[i].phase, instance[i].check, instance[i].left - 1)
            /\ instance[i].left > 0
        BY <1>8, <3>2 DEF Passes
      <4>2. /\ instance[i].left \in 0 .. 4 /\ instance[i].phase \in {"waiting", "new", "old"}
            /\ instance[i].check \in {"none", "asked", "answered"}
        BY <1>t, <3>2, InstanceIs DEF Timed
      <4>3. /\ instance[i].check # "none" => instance[i].left <= 1
            /\ instance[i].phase \in {"new", "old"} => instance[i].left <= 2
        BY <1>t, InstanceIs
      <4>4. PICK p, c, n : /\ p = instance[i].phase /\ c = instance[i].check
                           /\ n = instance[i].left - 1
        OBVIOUS
      <4>5. /\ instance'[i] \in Instance /\ Slack(instance'[i])
            /\ instance'[i].phase = p /\ instance'[i].check = c /\ instance'[i].left = n
        <5>1. p \in Phase /\ p \in {"waiting", "new", "old"} /\ n \in 0 .. 4
          BY <4>1, <4>2, <4>4 DEF Phase
        <5>2. (c # "none" => n <= 1) /\ (p \in {"new", "old"} => n <= 2)
          BY <4>2, <4>3, <4>4
        <5>3. instance'[i] = Now(p, c, n)
          BY <4>1, <4>4
        <5> QED
          BY <4>2, <4>4, <5>1, <5>2, <5>3, NowIs
      <4> DEFINE R == \/ Rest(instance[i]) = 0 /\ Rest(instance'[i]) = 0
                      \/ Rest(instance[i]) > 0 /\ Rest(instance'[i]) = Rest(instance[i]) - 1
                 W == \/ Wait(instance[i]) = 0 /\ Wait(instance'[i]) = 0
                      \/ Wait(instance[i]) > 0 /\ Wait(instance'[i]) = Wait(instance[i]) - 1
      <4>6. CASE p = "waiting"
        <5>1. R /\ W
          BY <1>t, <4>1, <4>2, <4>4, <4>5, <4>6, OwnerTimesAre
        <5> QED
          BY <4>4, <4>5, <5>1
      <4>7. CASE p \in {"new", "old"} /\ c = "answered"
        <5>2. Rest(instance[i]) = instance[i].left + 3 /\ Wait(instance[i]) = 0
          BY <1>t, <4>4, <4>7, OwnerTimesAre
        <5>3. Rest(instance'[i]) = n + 3 /\ Wait(instance'[i]) = 0
          BY <4>5, <4>7, OwnerTimesAre
        <5>1. R /\ W
          BY <4>2, <4>4, <5>2, <5>3
        <5> QED
          BY <4>4, <4>5, <5>1
      <4>8. CASE p \in {"new", "old"} /\ c # "answered"
        <5>1. R /\ W
          BY <1>t, <4>1, <4>2, <4>4, <4>5, <4>8, OwnerTimesAre
        <5> QED
          BY <4>4, <4>5, <5>1
      <4> QED
        BY <4>2, <4>4, <4>6, <4>7, <4>8
    <3> QED
      BY <3>1, <3>2
  <2>3. OwnerTypeOK' /\ LockIsASession'
    <3>1. instance' \in [Instances -> Instance]
      BY <2>1, <2>2
    <3> QED
      BY <2>1, <2>2, <3>1 DEF OwnerTypeOK, LockIsASession
  <2>4. WaitsLongEnough'
    BY <1>n, <2>1, <2>2 DEF WaitsLongEnough, OwnerTypeOK
  <2>5. OneGoesOn'
    BY <1>n, <2>2 DEF OneGoesOn
  <2> QED
    BY <2>3, <2>4, <2>5
<1>9. CASE UNCHANGED ownerVars
  BY <1>9 DEF ownerVars, OwnerTypeOK, LockIsASession, WaitsLongEnough, OneGoesOn
<1> QED
  BY <1>1, <1>2, <1>3, <1>4, <1>5, <1>6, <1>7, <1>8, <1>9 DEF OwnerNext

\* However many instances start, for however long, lose their session and are killed: an owner that
\* was checked while it served is alone, and whoever took the lock from it is still waiting
\* (instance_guard.rs, its three delays).
THEOREM CheckedOwnersStandAlone == OwnerSpec => []CheckedOwnersAreAlone
<1>1. OwnerInv => CheckedOwnersAreAlone
  <2> SUFFICES ASSUME OwnerInv, NEW i \in Checked, NEW j \in Instances, i # j
               PROVE  j \notin Checked /\ (j \in lock => instance[j].phase = "waiting")
    BY DEF CheckedOwnersAreAlone
  <2>1. ASSUME NEW k \in Checked PROVE k \in Instances /\ Rest(instance[k]) > 0
    <3>1. k \in Instances /\ instance[k].phase = "old" /\ instance[k].left > 0
      BY DEF Checked
    <3>2. instance[k].left \in 0 .. 4 /\ instance[k].check \in {"none", "asked", "answered"}
      BY <3>1, InstanceIs DEF OwnerInv, OwnerTypeOK
    <3> QED
      BY <3>1, <3>2, OwnerTimesAre DEF OwnerInv, OwnerTypeOK
  <2>2. j \notin Checked
    BY <2>1 DEF OwnerInv, OneGoesOn
  <2>3. ASSUME j \in lock PROVE instance[j].phase = "waiting"
    <3>1. Rest(instance[i]) <= Wait(instance[j]) /\ Wait(instance[j]) \in Nat
      BY <2>1, <2>3, OwnerTimes DEF OwnerInv, WaitsLongEnough, OwnerTypeOK
    <3>2. Rest(instance[i]) \in Nat
      BY <2>1, OwnerTimes DEF OwnerInv, OwnerTypeOK
    <3> QED
      BY <2>1, <3>1, <3>2, OwnerTimesAre DEF OwnerInv, OwnerTypeOK
  <2> QED
    BY <2>2, <2>3
<1> QED
  BY <1>1, OwnerInvInit, OwnerInvNext, PTL DEF OwnerSpec

(***************************************************************************)
(* The schedules.                                                          *)
(***************************************************************************)

\* What a daemon may be doing.
Slot ==
  [pc : {"idle", "claiming", "firing", "recording"}, cron : Crons \cup {"none"}, due : Nat,
   over : SUBSET Crons]

\* A row of the table of schedules.
ScheduleRow == [there : BOOLEAN, enabled : BOOLEAN, next : Nat, last : Nat]

\* The table, the daemons and what they started, well formed.
ScheduleTypeOK ==
  /\ clock \in Nat
  /\ rows \in [Crons -> ScheduleRow]
  /\ daemon \in [Daemons -> Slot]
  /\ started \in [Crons -> Seq(Nat)]
  /\ passed \in [Crons -> [Crons -> Nat]]

\* The columns of a row and the parts of a daemon's work, by name.
There(c) == rows[c].there
Enabled(c) == rows[c].enabled
NextRun(c) == rows[c].next

At(d, p) == daemon[d].pc = p
CronOf(d) == daemon[d].cron
DueOf(d) == daemon[d].due
OverOf(d) == daemon[d].over

\* next_run_at is a fire time of a row that was created, and nothing is known of one that was not.
RowsName ==
  \A c \in Crons : (There(c) => NextRun(c) \in Fires[c]) /\ (~There(c) => NextRun(c) = 0)

\* A row that a daemon claims is due, is as it was when it was locked, and is locked by that daemon
\* alone.
ClaimsHold ==
  /\ \A d \in Daemons :
       At(d, "claiming") => /\ CronOf(d) \in Crons /\ There(CronOf(d)) /\ Enabled(CronOf(d))
                            /\ DueOf(d) = NextRun(CronOf(d)) /\ DueOf(d) <= clock
  /\ \A d, e \in Daemons :
       At(d, "claiming") /\ At(e, "claiming") /\ CronOf(d) = CronOf(e) => d = e

\* What was started is a fire time, came due and lies behind the row's next one.
StartedIsBehind ==
  \A c \in Crons : \A i \in DOMAIN started[c] :
    started[c][i] \in Fires[c] /\ started[c][i] <= clock /\ started[c][i] < NextRun(c)

\* So does what a daemon is about to start, which nobody else has started or is about to.
FiresAlone ==
  /\ \A d \in Daemons :
       At(d, "firing") => /\ CronOf(d) \in Crons
                          /\ DueOf(d) \in Fires[CronOf(d)] /\ DueOf(d) <= clock
                          /\ DueOf(d) < NextRun(CronOf(d))
                          /\ \A i \in DOMAIN started[CronOf(d)] : started[CronOf(d)][i] # DueOf(d)
  /\ \A d, e \in Daemons :
       At(d, "firing") /\ At(e, "firing") /\ CronOf(d) = CronOf(e) /\ DueOf(d) = DueOf(e) => d = e

\* No due time was started twice.
StartedOnce == \A c \in Crons : IsInjective(started[c])

\* A claim passes over rows that are due no earlier than its own.
ClaimsOldest ==
  \A d \in Daemons :
    At(d, "claiming") =>
      \A x \in OverOf(d) : /\ There(x) /\ NextRun(x) <= clock
                           /\ NextRun(CronOf(d)) <= NextRun(x) /\ x # CronOf(d)

\* Who passed a row over is behind it now, or fires no more.
PassedIsBehind ==
  \A x, c \in Crons :
    /\ passed[x][c] <= 1
    /\ passed[x][c] > 0 => /\ There(x) /\ There(c)
                           /\ Enabled(c) => NextRun(c) > NextRun(x)

ScheduleInv ==
  /\ ScheduleTypeOK
  /\ RowsName /\ ClaimsHold /\ StartedIsBehind /\ FiresAlone /\ StartedOnce
  /\ ClaimsOldest /\ PassedIsBehind

\* There is no row and no daemon at work at first.
LEMMA ScheduleInvInit == ScheduleInit => ScheduleInv
<1> SUFFICES ASSUME ScheduleInit PROVE ScheduleInv
  OBVIOUS
<1>1. ScheduleTypeOK
  BY DEF ScheduleInit, ScheduleTypeOK, ScheduleRow, Slot, Resting
<1>2. \A d \in Daemons : ~At(d, "claiming") /\ ~At(d, "firing")
  BY DEF ScheduleInit, Resting, At
<1>3. \A c \in Crons : ~There(c) /\ NextRun(c) = 0
  BY DEF ScheduleInit, There, NextRun
<1>4. \A c \in Crons : DOMAIN started[c] = {}
  BY DEF ScheduleInit
<1>5. \A x, c \in Crons : passed[x][c] = 0
  BY DEF ScheduleInit
<1> QED
  BY <1>1, <1>2, <1>3, <1>4, <1>5
  DEF ScheduleInv, RowsName, ClaimsHold, StartedIsBehind, FiresAlone, StartedOnce, IsInjective,
      ClaimsOldest, PassedIsBehind

\* What the rest of the proof needs of the types.
LEMMA ScheduleTypes ==
  ASSUME ScheduleTypeOK
  PROVE  /\ \A c \in Crons : NextRun(c) \in Nat /\ Fires[c] \subseteq Nat \ {0}
         /\ \A d \in Daemons : DueOf(d) \in Nat /\ OverOf(d) \subseteq Crons
         /\ \A c \in Crons : \A i \in DOMAIN started[c] : started[c][i] \in Nat
         /\ \A x, c \in Crons : passed[x][c] \in Nat
         /\ clock \in Nat
<1>1. \A c \in Crons : NextRun(c) \in Nat
  BY DEF ScheduleTypeOK, ScheduleRow, NextRun
<1>2. \A c \in Crons : Fires[c] \subseteq Nat \ {0}
  BY SchedulesAssumption
<1>3. \A d \in Daemons : DueOf(d) \in Nat /\ OverOf(d) \subseteq Crons
  BY DEF ScheduleTypeOK, Slot, DueOf, OverOf
<1>4. \A c \in Crons : \A i \in DOMAIN started[c] : started[c][i] \in Nat
  BY DEF ScheduleTypeOK
<1>5. clock \in Nat /\ \A x, c \in Crons : passed[x][c] \in Nat
  BY DEF ScheduleTypeOK
<1> QED
  BY <1>1, <1>2, <1>3, <1>4, <1>5

\* A daemon that moves on is where it moved, and the others are where they were.
LEMMA DaemonMoves ==
  ASSUME ScheduleTypeOK, NEW d \in Daemons, NEW s \in Slot, daemon' = [daemon EXCEPT ![d] = s]
  PROVE  /\ daemon' \in [Daemons -> Slot]
         /\ \A p : At(d, p)' <=> s.pc = p
         /\ CronOf(d)' = s.cron /\ DueOf(d)' = s.due /\ OverOf(d)' = s.over
         /\ \A e \in Daemons : e # d => /\ \A p : At(e, p)' <=> At(e, p)
                                        /\ CronOf(e)' = CronOf(e) /\ DueOf(e)' = DueOf(e)
                                        /\ OverOf(e)' = OverOf(e)
  BY DEF ScheduleTypeOK, At, CronOf, DueOf, OverOf

\* A daemon that is done is well formed and claims and fires nothing.
LEMMA RestingType == Resting \in Slot /\ Resting.pc = "idle"
  BY DEF Resting, Slot

\* A daemon that ends its work, whatever it was, leaves all that is said of claims and fires true.
LEMMA DaemonRests ==
  ASSUME ScheduleInv, NEW d \in Daemons, daemon' = [daemon EXCEPT ![d] = Resting],
         clock' = clock, started' = started, passed' = passed,
         rows' \in [Crons -> ScheduleRow],
         \A c \in Crons : /\ There(c)' <=> There(c)
                          /\ Enabled(c)' <=> Enabled(c)
                          /\ NextRun(c)' = NextRun(c)
  PROVE  ScheduleInv'
<1> USE DEF ScheduleInv
<1>1. /\ daemon' \in [Daemons -> Slot]
      /\ ~At(d, "claiming")' /\ ~At(d, "firing")'
      /\ \A e \in Daemons : e # d => /\ \A p : At(e, p)' <=> At(e, p)
                                     /\ CronOf(e)' = CronOf(e) /\ DueOf(e)' = DueOf(e)
                                     /\ OverOf(e)' = OverOf(e)
  BY DaemonMoves, RestingType
<1>2. ScheduleTypeOK'
  BY <1>1 DEF ScheduleTypeOK
<1>3. RowsName' /\ StartedIsBehind' /\ StartedOnce' /\ PassedIsBehind'
  BY DEF RowsName, StartedIsBehind, StartedOnce, PassedIsBehind
<1>4. ClaimsHold'
  BY <1>1 DEF ClaimsHold
<1>5. FiresAlone'
  BY <1>1 DEF FiresAlone
<1>6. ClaimsOldest'
  <2> SUFFICES ASSUME NEW e \in Daemons, At(e, "claiming")', NEW x \in OverOf(e)'
               PROVE  (/\ There(x) /\ NextRun(x) <= clock
                       /\ NextRun(CronOf(e)) <= NextRun(x) /\ x # CronOf(e))'
    BY DEF ClaimsOldest
  <2>1. e # d /\ At(e, "claiming") /\ x \in OverOf(e) /\ x \in Crons /\ CronOf(e) \in Crons
    BY <1>1, ScheduleTypes DEF ClaimsHold
  <2> QED
    BY <1>1, <2>1 DEF ClaimsOldest
<1> QED
  BY <1>2, <1>3, <1>4, <1>5, <1>6

\* cron_next.rs: what next_fire_after finds is a fire time after the instant.
LEMMA NextFire ==
  ASSUME NEW c \in Crons, NEW t \in Nat, next_fire_after(c, t) # {}
  PROVE  LET f == CHOOSE f \in next_fire_after(c, t) : TRUE IN f \in Fires[c] /\ f > t /\ f \in Nat
<1>1. (CHOOSE f \in next_fire_after(c, t) : TRUE) \in next_fire_after(c, t)
  OBVIOUS
<1>2. Fires[c] \subseteq Nat
  BY SchedulesAssumption
<1> QED
  BY <1>1, <1>2 DEF next_fire_after

\* A row that is written is as it was written, and the others are as they were.
LEMMA RowMoves ==
  ASSUME ScheduleTypeOK, NEW c \in Crons, NEW r \in ScheduleRow, rows' = [rows EXCEPT ![c] = r]
  PROVE  /\ rows' \in [Crons -> ScheduleRow]
         /\ (There(c)' <=> r.there) /\ (Enabled(c)' <=> r.enabled) /\ NextRun(c)' = r.next
         /\ \A x \in Crons : x # c => /\ There(x)' <=> There(x)
                                      /\ Enabled(x)' <=> Enabled(x)
                                      /\ NextRun(x)' = NextRun(x)
  BY DEF ScheduleTypeOK, There, Enabled, NextRun

\* The daemon that advances a row moves on; the row is no longer one that others passed over.
LEMMA RowLeavesOver ==
  ASSUME ScheduleTypeOK, NEW d \in Daemons, NEW c \in Crons, NEW s \in Slot,
         daemon' = [[e \in Daemons |-> [daemon[e] EXCEPT !.over = @ \ {c}]] EXCEPT ![d] = s]
  PROVE  /\ daemon' \in [Daemons -> Slot]
         /\ \A p : At(d, p)' <=> s.pc = p
         /\ CronOf(d)' = s.cron /\ DueOf(d)' = s.due
         /\ \A e \in Daemons : e # d => /\ \A p : At(e, p)' <=> At(e, p)
                                        /\ CronOf(e)' = CronOf(e) /\ DueOf(e)' = DueOf(e)
                                        /\ OverOf(e)' = OverOf(e) \ {c}
<1>1. \A e \in Daemons : LET r == [daemon[e] EXCEPT !.over = @ \ {c}]
                         IN /\ r \in Slot /\ r.pc = daemon[e].pc /\ r.cron = daemon[e].cron
                            /\ r.due = daemon[e].due /\ r.over = daemon[e].over \ {c}
  BY DEF Slot, ScheduleTypeOK
<1> QED
  BY <1>1 DEF At, CronOf, DueOf, OverOf

\* Every call, every step of a daemon and of time keeps the invariant.
LEMMA ScheduleInvNext == ScheduleInv /\ [ScheduleNext]_scheduleVars => ScheduleInv'
<1> SUFFICES ASSUME ScheduleInv, [ScheduleNext]_scheduleVars PROVE ScheduleInv'
  OBVIOUS
<1> USE DEF ScheduleInv
<1> DEFINE RowKept(c) == /\ There(c)' <=> There(c)
                         /\ Enabled(c)' <=> Enabled(c)
                         /\ NextRun(c)' = NextRun(c)
           SlotKept(e) == /\ \A p : At(e, p)' <=> At(e, p)
                          /\ CronOf(e)' = CronOf(e) /\ DueOf(e)' = DueOf(e) /\ OverOf(e)' = OverOf(e)
<1>a. rows' = rows => \A c \in Crons : RowKept(c)
  BY DEF There, Enabled, NextRun
<1>b. daemon' = daemon => \A e \in Daemons : SlotKept(e)
  BY DEF At, CronOf, DueOf, OverOf
<1>1. ASSUME NEW c \in Crons, CreateSchedule(c) PROVE ScheduleInv'
  <2>1. UNCHANGED <<clock, daemon, started, passed>> /\ ~There(c)
    BY <1>1 DEF CreateSchedule, There
  <2>2. PICK f \in Fires[c] :
          /\ f > clock /\ f \in Nat
          /\ rows' = [rows EXCEPT ![c] = [there |-> TRUE, enabled |-> TRUE, last |-> 0, next |-> f]]
    BY <1>1, NextFire DEF CreateSchedule, Scheduled, ScheduleTypeOK
  <2>3. /\ There(c)' /\ Enabled(c)' /\ NextRun(c)' = f
        /\ \A x \in Crons : x # c => RowKept(x)
    BY <2>2 DEF ScheduleTypeOK, There, Enabled, NextRun
  <2>4. rows' \in [Crons -> ScheduleRow]
    BY <2>2 DEF ScheduleTypeOK, ScheduleRow
  <2>5. ScheduleTypeOK'
    BY <2>1, <2>4 DEF ScheduleTypeOK
  <2>6. RowsName'
    BY <2>2, <2>3 DEF RowsName
  <2>7. ClaimsHold'
    BY <1>b, <2>1, <2>3 DEF ClaimsHold
  <2>8. /\ DOMAIN started[c] = {}
        /\ \A d \in Daemons : At(d, "firing") => CronOf(d) # c
    <3>1. NextRun(c) = 0
      BY <2>1 DEF RowsName
    <3> QED
      BY <3>1, ScheduleTypes DEF StartedIsBehind, FiresAlone
  <2>9. StartedIsBehind' /\ StartedOnce'
    BY <2>1, <2>3, <2>8 DEF StartedIsBehind, StartedOnce
  <2>10. FiresAlone'
    BY <1>b, <2>1, <2>3, <2>8 DEF FiresAlone
  <2>11. ClaimsOldest'
    BY <1>b, <2>1, <2>3, ScheduleTypes DEF ClaimsOldest, ClaimsHold
  <2>12. PassedIsBehind'
    BY <2>1, <2>3 DEF PassedIsBehind
  <2> QED
    BY <2>5, <2>6, <2>7, <2>9, <2>10, <2>11, <2>12
<1>2. ASSUME NEW d \in Daemons, NEW c \in Crons, ClaimOneDue(d, c) PROVE ScheduleInv'
  <2> DEFINE over == {x \in Crons \ {c} : Unheld(x)}
             s == [pc |-> "claiming", cron |-> c, due |-> rows[c].next, over |-> over]
  <2>1. /\ UNCHANGED <<clock, rows, started, passed>> /\ daemon' = [daemon EXCEPT ![d] = s]
        /\ Unheld(c) /\ \A x \in Crons : Unheld(x) => NextRun(c) <= NextRun(x)
    BY <1>2 DEF ClaimOneDue, NextRun
  <2>2. /\ \A x \in Crons : Unheld(x) => There(x) /\ Enabled(x) /\ NextRun(x) <= clock
        /\ \A e \in Daemons : At(e, "claiming") => CronOf(e) # c
    BY <2>1 DEF Unheld, Due, Locked, There, Enabled, NextRun, At, CronOf
  <2>3. s \in Slot /\ s.pc = "claiming" /\ s.cron = c /\ s.due = NextRun(c) /\ s.over = over
    <3>1. NextRun(c) \in Nat /\ s.due = NextRun(c)
      BY ScheduleTypes DEF NextRun
    <3> QED
      BY <3>1 DEF Slot
  <2> HIDE DEF s
  <2>4. /\ daemon' \in [Daemons -> Slot]
        /\ At(d, "claiming")' /\ ~At(d, "firing")' /\ CronOf(d)' = c /\ DueOf(d)' = NextRun(c)
        /\ OverOf(d)' = over
        /\ \A e \in Daemons : e # d => SlotKept(e)
    BY <2>1, <2>3, DaemonMoves
  <2>5. \A x \in Crons : RowKept(x)
    BY <1>a, <2>1
  <2>6. ScheduleTypeOK'
    BY <2>1, <2>4 DEF ScheduleTypeOK
  <2>7. RowsName' /\ StartedIsBehind' /\ StartedOnce' /\ PassedIsBehind'
    BY <2>1, <2>5 DEF RowsName, StartedIsBehind, StartedOnce, PassedIsBehind
  <2>8. ClaimsHold'
    BY <2>1, <2>2, <2>4, <2>5 DEF ClaimsHold
  <2>9. FiresAlone'
    BY <2>1, <2>4, <2>5 DEF FiresAlone
  <2>10. ClaimsOldest'
    <3> SUFFICES ASSUME NEW e \in Daemons, At(e, "claiming")', NEW x \in OverOf(e)'
                 PROVE  (/\ There(x) /\ NextRun(x) <= clock
                         /\ NextRun(CronOf(e)) <= NextRun(x) /\ x # CronOf(e))'
      BY DEF ClaimsOldest
    <3>1. CASE e = d
      BY <2>1, <2>2, <2>4, <2>5, <3>1
    <3>2. CASE e # d
      <4>1. At(e, "claiming") /\ x \in OverOf(e) /\ x \in Crons /\ CronOf(e) \in Crons
        BY <2>4, <3>2, ScheduleTypes DEF ClaimsHold
      <4> QED
        BY <2>1, <2>4, <2>5, <3>2, <4>1 DEF ClaimsOldest
    <3> QED
      BY <3>1, <3>2
  <2> QED
    BY <2>6, <2>7, <2>8, <2>9, <2>10
<1>3. ASSUME NEW d \in Daemons, Advance(d) PROVE ScheduleInv'
  <2>a. At(d, "claiming")
    BY <1>3 DEF Advance, At
  <2>b. PICK c \in Crons : c = CronOf(d)
    BY <2>a DEF ClaimsHold
  <2>c. PICK over \in SUBSET Crons : over = OverOf(d)
    BY ScheduleTypes
  <2> DEFINE next == next_fire_after(c, clock)
  <2>1. /\ At(d, "claiming") /\ UNCHANGED <<clock, started>>
        /\ passed' = [x \in Crons |->
             IF x = c THEN [y \in Crons |-> 0]
             ELSE IF x \in over THEN [passed[x] EXCEPT ![c] = @ + 1] ELSE passed[x]]
    BY <1>3, <2>b, <2>c DEF Advance, At, CronOf, OverOf
  <2>2. /\ c \in Crons /\ There(c) /\ Enabled(c) /\ DueOf(d) = NextRun(c) /\ NextRun(c) <= clock
        /\ NextRun(c) \in Fires[c] /\ NextRun(c) \in Nat /\ clock \in Nat
        /\ over \subseteq Crons
    BY <2>1, <2>b, <2>c, ScheduleTypes DEF ClaimsHold, RowsName
  <2>3. \A e \in Daemons : e # d /\ At(e, "claiming") => CronOf(e) # c
    BY <2>1, <2>b DEF ClaimsHold
  <2>4. \A x \in over : There(x) /\ NextRun(x) <= clock /\ NextRun(c) <= NextRun(x) /\ x # c
    BY <2>1, <2>b, <2>c DEF ClaimsOldest
  <2>5. \A x \in over : passed[x][c] = 0
    BY <2>2, <2>4, ScheduleTypes DEF PassedIsBehind
  <2> DEFINE r == [rows[c] EXCEPT !.next = CHOOSE f \in next : TRUE]
             q == [rows[c] EXCEPT !.enabled = FALSE]
             fire == [pc |-> "firing", cron |-> c, due |-> DueOf(d), over |-> {}]
             left == [e \in Daemons |-> [daemon[e] EXCEPT !.over = @ \ {c}]]
  <2>6. \/ /\ next # {} /\ rows' = [rows EXCEPT ![c] = r] /\ daemon' = [left EXCEPT ![d] = fire]
        \/ /\ next = {} /\ rows' = [rows EXCEPT ![c] = q] /\ daemon' = [left EXCEPT ![d] = Resting]
    BY <1>3, <2>b DEF Advance, CronOf, DueOf, ScheduleTypeOK
  <2>7. fire \in Slot /\ fire.pc = "firing" /\ fire.cron = c /\ fire.due = DueOf(d)
    BY <2>2, ScheduleTypes DEF Slot
  <2>8. /\ q \in ScheduleRow
        /\ q.there = rows[c].there /\ ~q.enabled /\ q.next = rows[c].next
    BY <2>2 DEF ScheduleTypeOK, ScheduleRow
  <2>9. next # {} => /\ r \in ScheduleRow
                     /\ r.there = rows[c].there /\ r.enabled = rows[c].enabled
                     /\ r.next \in Fires[c] /\ r.next > clock /\ r.next \in Nat
    BY <2>2, NextFire DEF ScheduleTypeOK, ScheduleRow
  <2> HIDE DEF fire, r, q
  <2>10. /\ rows' \in [Crons -> ScheduleRow]
         /\ There(c)' /\ \A x \in Crons : x # c => RowKept(x)
         /\ NextRun(c)' \in Fires[c] /\ NextRun(c)' >= NextRun(c) /\ NextRun(c)' \in Nat
         /\ \/ NextRun(c)' > clock
            \/ ~Enabled(c)' /\ NextRun(c)' = NextRun(c)
    <3>1. CASE next # {} /\ rows' = [rows EXCEPT ![c] = r]
      <4>1. /\ rows' \in [Crons -> ScheduleRow]
            /\ \A x \in Crons : x # c => RowKept(x)
            /\ NextRun(c)' = r.next /\ (There(c)' <=> r.there)
        BY <2>9, <3>1, RowMoves
      <4>2. r.there
        BY <2>2, <2>9, <3>1 DEF There
      <4>3. r.next \in Fires[c] /\ r.next > clock /\ r.next \in Nat
        BY <2>9, <3>1
      <4>4. r.next >= NextRun(c)
        BY <2>2, <4>3
      <4> QED
        BY <4>1, <4>2, <4>3, <4>4
    <3>2. CASE rows' = [rows EXCEPT ![c] = q]
      <4>1. /\ rows' \in [Crons -> ScheduleRow]
            /\ \A x \in Crons : x # c => RowKept(x)
            /\ NextRun(c)' = NextRun(c) /\ (There(c)' <=> There(c)) /\ ~Enabled(c)'
        <5>1. (q.there <=> There(c)) /\ q.next = NextRun(c) /\ ~q.enabled
          BY <2>8 DEF There, NextRun
        <5> QED
          BY <2>8, <3>2, <5>1, RowMoves
      <4>2. NextRun(c)' >= NextRun(c)
        BY <2>2, <4>1
      <4> QED
        BY <2>2, <4>1, <4>2
    <3> QED
      BY <2>6, <3>1, <3>2
  <2>11. /\ daemon' \in [Daemons -> Slot] /\ ~At(d, "claiming")'
         /\ \A e \in Daemons : e # d => /\ \A p : At(e, p)' <=> At(e, p)
                                        /\ CronOf(e)' = CronOf(e) /\ DueOf(e)' = DueOf(e)
                                        /\ OverOf(e)' = OverOf(e) \ {c}
         /\ At(d, "firing")' => CronOf(d)' = c /\ DueOf(d)' = NextRun(c) /\ NextRun(c)' > clock
    <3>1. CASE next # {} /\ rows' = [rows EXCEPT ![c] = r] /\ daemon' = [left EXCEPT ![d] = fire]
      <4>1. NextRun(c)' > clock
        BY <2>9, <3>1, RowMoves
      <4>2. PICK s \in Slot : s = fire
        BY <2>7
      <4> HIDE DEF left
      <4>3. daemon' = [left EXCEPT ![d] = s]
        BY <3>1, <4>2
      <4> USE DEF left
      <4>4. /\ daemon' \in [Daemons -> Slot]
            /\ \A p : At(d, p)' <=> s.pc = p
            /\ CronOf(d)' = s.cron /\ DueOf(d)' = s.due
            /\ \A e \in Daemons : e # d => /\ \A p : At(e, p)' <=> At(e, p)
                                           /\ CronOf(e)' = CronOf(e) /\ DueOf(e)' = DueOf(e)
                                           /\ OverOf(e)' = OverOf(e) \ {c}
        BY <4>3, RowLeavesOver
      <4> QED
        BY <2>2, <2>7, <4>1, <4>2, <4>4
    <3>2. CASE daemon' = [left EXCEPT ![d] = Resting]
      BY <3>2, RestingType, RowLeavesOver
    <3> QED
      BY <2>6, <3>1, <3>2
  <2>12. /\ passed' \in [Crons -> [Crons -> Nat]]
         /\ \A y \in Crons : passed'[c][y] = 0
         /\ \A x, y \in Crons : x # c /\ y # c => passed'[x][y] = passed[x][y]
         /\ \A x \in Crons \ {c} : IF x \in over THEN passed'[x][c] = 1
                                                 ELSE passed'[x][c] = passed[x][c]
    <3> QED
      BY <2>1, <2>2, <2>5 DEF ScheduleTypeOK
  <2> HIDE DEF next, left
  <2>13. ScheduleTypeOK'
    BY <2>1, <2>10, <2>11, <2>12 DEF ScheduleTypeOK
  <2>14. RowsName'
    BY <2>10 DEF RowsName
  <2>15. ClaimsHold'
    BY <2>1, <2>3, <2>10, <2>11 DEF ClaimsHold
  <2>16. StartedIsBehind' /\ StartedOnce'
    BY <2>1, <2>2, <2>10, ScheduleTypes DEF StartedIsBehind, StartedOnce
  <2>17. FiresAlone'
    <3>1. \A e \in Daemons : e # d /\ At(e, "firing") /\ CronOf(e) = c => DueOf(e) # NextRun(c)
      BY <2>2, ScheduleTypes DEF FiresAlone
    <3>2. \A i \in DOMAIN started[c] : started[c][i] # NextRun(c)
      BY <2>2, ScheduleTypes DEF StartedIsBehind
    <3>3. \A e \in Daemons : At(e, "firing")' /\ e # d =>
            /\ CronOf(e) \in Crons /\ DueOf(e) \in Fires[CronOf(e)] /\ DueOf(e) <= clock
            /\ DueOf(e) < NextRun(CronOf(e))'
            /\ \A i \in DOMAIN started[CronOf(e)] : started[CronOf(e)][i] # DueOf(e)
      BY <2>2, <2>10, <2>11, ScheduleTypes DEF FiresAlone
    <3>4. At(d, "firing")' => NextRun(c) < NextRun(c)'
      BY <2>2, <2>10, <2>11
    <3> QED
      BY <2>1, <2>2, <2>10, <2>11, <3>1, <3>2, <3>3, <3>4 DEF FiresAlone
  <2>18. ClaimsOldest'
    <3> SUFFICES ASSUME NEW e \in Daemons, At(e, "claiming")', NEW x \in OverOf(e)'
                 PROVE  (/\ There(x) /\ NextRun(x) <= clock
                         /\ NextRun(CronOf(e)) <= NextRun(x) /\ x # CronOf(e))'
      BY DEF ClaimsOldest
    <3>1. /\ e # d /\ At(e, "claiming") /\ x \in OverOf(e) /\ x \in Crons \ {c}
          /\ CronOf(e) \in Crons \ {c} /\ CronOf(e)' = CronOf(e)
      BY <2>3, <2>11, ScheduleTypes DEF ClaimsHold
    <3>2. There(x) /\ NextRun(x) <= clock /\ NextRun(CronOf(e)) <= NextRun(x) /\ x # CronOf(e)
      BY <3>1 DEF ClaimsOldest
    <3> QED
      BY <2>1, <2>10, <3>1, <3>2
  <2>19. PassedIsBehind'
    <3> SUFFICES ASSUME NEW x \in Crons, NEW y \in Crons
                 PROVE  /\ passed'[x][y] <= 1
                        /\ passed'[x][y] > 0 =>
                             There(x)' /\ There(y)' /\ (Enabled(y)' => NextRun(y)' > NextRun(x)')
      BY DEF PassedIsBehind
    <3>1. CASE x = c
      BY <2>12, <3>1
    <3>2. CASE x # c /\ y # c
      BY <2>10, <2>12, <3>2 DEF PassedIsBehind
    <3>3. CASE x # c /\ y = c
      <4>1. CASE x \in over
        <5>1. passed'[x][y] = 1 /\ There(x) /\ NextRun(x) <= clock /\ RowKept(x)
          BY <2>4, <2>10, <2>12, <3>3, <4>1
        <5>2. Enabled(c)' => NextRun(c)' > NextRun(x)
          BY <2>2, <2>10, <5>1, ScheduleTypes
        <5> QED
          BY <2>10, <3>3, <5>1, <5>2
      <4>2. CASE x \notin over
        <5>1. passed'[x][y] = passed[x][c] /\ RowKept(x)
          BY <2>10, <2>12, <3>3, <4>2
        <5>2. passed[x][c] > 0 /\ Enabled(c)' => NextRun(c)' > NextRun(x)
          BY <2>2, <2>10, ScheduleTypes DEF PassedIsBehind
        <5> QED
          BY <2>2, <2>10, <3>3, <5>1, <5>2 DEF PassedIsBehind
      <4> QED
        BY <4>1, <4>2
    <3> QED
      BY <3>1, <3>2, <3>3
  <2> QED
    BY <2>13, <2>14, <2>15, <2>16, <2>17, <2>18, <2>19
<1>4. ASSUME NEW d \in Daemons, StartRun(d) PROVE ScheduleInv'
  <2>1. At(d, "firing") /\ UNCHANGED <<clock, rows, passed>>
    BY <1>4 DEF StartRun, At
  <2>2. CASE daemon' = [daemon EXCEPT ![d] = Resting] /\ started' = started
    BY <1>a, <2>1, <2>2, DaemonRests DEF ScheduleTypeOK
  <2>3. CASE /\ started' = [started EXCEPT ![daemon[d].cron] = Append(@, daemon[d].due)]
             /\ daemon' = [daemon EXCEPT ![d].pc = "recording"]
    <3> DEFINE c == CronOf(d)
               due == DueOf(d)
    <3>1. /\ c \in Crons /\ due \in Fires[c] /\ due <= clock /\ due < NextRun(c)
          /\ \A i \in DOMAIN started[c] : started[c][i] # due
          /\ due \in Nat
      BY <2>1, ScheduleTypes DEF FiresAlone
    <3>2. /\ \A x \in Crons : x # c => started'[x] = started[x]
          /\ started'[c] = Append(started[c], due)
          /\ started' \in [Crons -> Seq(Nat)]
      BY <2>3, <3>1 DEF ScheduleTypeOK, CronOf, DueOf
    <3>3. /\ DOMAIN started'[c] = DOMAIN started[c] \cup {Len(started[c]) + 1}
          /\ \A i \in DOMAIN started[c] : started'[c][i] = started[c][i]
          /\ started'[c][Len(started[c]) + 1] = due
          /\ Len(started[c]) + 1 \notin DOMAIN started[c]
      BY <3>1, <3>2 DEF ScheduleTypeOK
    <3>4. /\ daemon' \in [Daemons -> Slot]
          /\ ~At(d, "claiming")' /\ ~At(d, "firing")'
          /\ \A e \in Daemons : e # d => SlotKept(e)
      <4> DEFINE s == [daemon[d] EXCEPT !.pc = "recording"]
      <4>1. s \in Slot /\ s.pc = "recording"
        BY DEF ScheduleTypeOK, Slot
      <4>2. daemon' = [daemon EXCEPT ![d] = s]
        BY <2>3 DEF ScheduleTypeOK
      <4> HIDE DEF s
      <4> QED
        BY <4>1, <4>2, DaemonMoves
    <3>5. \A x \in Crons : RowKept(x)
      BY <1>a, <2>1
    <3> HIDE DEF c, due
    <3>6. ScheduleTypeOK'
      BY <2>1, <3>2, <3>4 DEF ScheduleTypeOK
    <3>7. RowsName' /\ PassedIsBehind'
      BY <2>1, <3>5 DEF RowsName, PassedIsBehind
    <3>8. StartedIsBehind'
      BY <2>1, <3>1, <3>2, <3>3, <3>5 DEF StartedIsBehind
    <3>9. StartedOnce'
      <4>1. IsInjective(started'[c])
        BY <3>1, <3>3 DEF StartedOnce, IsInjective
      <4> QED
        BY <3>2, <4>1 DEF StartedOnce
    <3>10. ClaimsHold'
      BY <2>1, <3>4, <3>5 DEF ClaimsHold
    <3>11. FiresAlone'
      <4> SUFFICES ASSUME NEW e \in Daemons, At(e, "firing")'
                   PROVE  /\ (/\ CronOf(e) \in Crons
                              /\ DueOf(e) \in Fires[CronOf(e)] /\ DueOf(e) <= clock
                              /\ DueOf(e) < NextRun(CronOf(e)))'
                          /\ \A i \in DOMAIN started'[CronOf(e)'] :
                               started'[CronOf(e)'][i] # DueOf(e)'
                          /\ \A g \in Daemons :
                               (At(g, "firing") /\ CronOf(g) = CronOf(e) /\ DueOf(g) = DueOf(e))'
                               => g = e
        BY DEF FiresAlone
      <4>1. e # d /\ At(e, "firing") /\ SlotKept(e)
        BY <3>4
      <4>2. CronOf(e) = c => DueOf(e) # due
        BY <2>1, <4>1 DEF FiresAlone, c, due
      <4>3. /\ CronOf(e) \in Crons /\ DueOf(e) \in Fires[CronOf(e)] /\ DueOf(e) <= clock
            /\ DueOf(e) < NextRun(CronOf(e))
            /\ \A i \in DOMAIN started[CronOf(e)] : started[CronOf(e)][i] # DueOf(e)
        BY <4>1 DEF FiresAlone
      <4>4. \A i \in DOMAIN started'[CronOf(e)] : started'[CronOf(e)][i] # DueOf(e)
        BY <3>2, <3>3, <4>2, <4>3
      <4>5. \A g \in Daemons :
              (At(g, "firing") /\ CronOf(g) = CronOf(e) /\ DueOf(g) = DueOf(e))' => g = e
        BY <3>4, <4>1 DEF FiresAlone
      <4> QED
        BY <2>1, <3>5, <4>1, <4>3, <4>4, <4>5
    <3>12. ClaimsOldest'
      <4> SUFFICES ASSUME NEW e \in Daemons, At(e, "claiming")', NEW x \in OverOf(e)'
                   PROVE  (/\ There(x) /\ NextRun(x) <= clock
                           /\ NextRun(CronOf(e)) <= NextRun(x) /\ x # CronOf(e))'
        BY DEF ClaimsOldest
      <4>1. /\ e # d /\ At(e, "claiming") /\ x \in OverOf(e) /\ x \in Crons /\ CronOf(e) \in Crons
            /\ CronOf(e)' = CronOf(e)
        BY <3>4, ScheduleTypes DEF ClaimsHold
      <4> QED
        BY <2>1, <3>5, <4>1 DEF ClaimsOldest
    <3> QED
      BY <3>6, <3>7, <3>8, <3>9, <3>10, <3>11, <3>12
  <2> QED
    BY <1>4, <2>2, <2>3 DEF StartRun
<1>5. ASSUME NEW d \in Daemons, RecordLastExecution(d) PROVE ScheduleInv'
  <2>1. /\ rows' \in [Crons -> ScheduleRow]
        /\ \A c \in Crons : RowKept(c)
    <3>1. CASE daemon[d].cron \in Crons
      <4>1. PICK c \in Crons : c = daemon[d].cron
        BY <3>1
      <4>a. daemon[d].due \in Nat /\ rows[c] \in ScheduleRow
        BY ScheduleTypes DEF DueOf, ScheduleTypeOK
      <4> DEFINE r == [rows[c] EXCEPT !.last = daemon[d].due]
      <4>2. /\ r \in ScheduleRow /\ r.there = rows[c].there /\ r.enabled = rows[c].enabled
            /\ r.next = rows[c].next
        BY <4>a DEF ScheduleRow
      <4>3. rows' = [rows EXCEPT ![c] = r]
        BY <1>5, <4>1 DEF RecordLastExecution, ScheduleTypeOK
      <4> HIDE DEF r
      <4>4. /\ rows' \in [Crons -> ScheduleRow]
            /\ (There(c)' <=> r.there) /\ (Enabled(c)' <=> r.enabled) /\ NextRun(c)' = r.next
            /\ \A x \in Crons : x # c => RowKept(x)
        BY <4>2, <4>3, RowMoves
      <4>5. RowKept(c)
        BY <4>2, <4>4 DEF There, Enabled, NextRun
      <4> QED
        BY <4>4, <4>5
    <3>2. CASE daemon[d].cron \notin Crons
      <4>1. rows' = rows
        BY <1>5, <3>2 DEF RecordLastExecution, ScheduleTypeOK
      <4> QED
        BY <1>a, <4>1 DEF ScheduleTypeOK
    <3> QED
      BY <3>1, <3>2
  <2> QED
    BY <1>5, <2>1, DaemonRests DEF RecordLastExecution
<1>6. ASSUME NEW d \in Daemons, Die(d) PROVE ScheduleInv'
  BY <1>a, <1>6, DaemonRests DEF Die, ScheduleTypeOK
<1>7. CASE TimePasses
  <2>1. UNCHANGED <<rows, daemon, started, passed>> /\ clock' \in Nat /\ clock < clock'
    BY <1>7 DEF TimePasses, ScheduleTypeOK
  <2>2. \A x \in Nat : x <= clock => x <= clock'
    BY <2>1 DEF ScheduleTypeOK
  <2>3. ScheduleTypeOK'
    BY <2>1 DEF ScheduleTypeOK
  <2>4. RowsName' /\ StartedOnce' /\ PassedIsBehind'
    BY <1>a, <2>1 DEF RowsName, StartedOnce, PassedIsBehind
  <2>5. StartedIsBehind'
    BY <1>a, <2>1, <2>2, ScheduleTypes DEF StartedIsBehind
  <2>6. ClaimsHold'
    BY <1>a, <1>b, <2>1, <2>2, ScheduleTypes DEF ClaimsHold
  <2>7. FiresAlone'
    BY <1>a, <1>b, <2>1, <2>2, ScheduleTypes DEF FiresAlone
  <2>8. ClaimsOldest'
    BY <1>a, <1>b, <2>1, <2>2, ScheduleTypes DEF ClaimsOldest, ClaimsHold
  <2> QED
    BY <2>3, <2>4, <2>5, <2>6, <2>7, <2>8
<1>8. CASE UNCHANGED scheduleVars
  <2>1. UNCHANGED <<clock, rows, daemon, started, passed>>
    BY <1>8 DEF scheduleVars
  <2> QED
    BY <1>a, <1>b, <2>1, ScheduleTypes
    DEF ScheduleTypeOK, RowsName, ClaimsHold, StartedIsBehind, FiresAlone, StartedOnce,
        ClaimsOldest, PassedIsBehind
<1> QED
  BY <1>1, <1>2, <1>3, <1>4, <1>5, <1>6, <1>7, <1>8 DEF ScheduleNext

\* However many daemons poll, fail and die and whatever the expressions, a due time starts at most one
\* execution, never early, and no schedule is passed over twice by the same other one (scheduler.rs
\* claim_one_due, README "at-most-once-per-due-tick semantics across any number of instances").
THEOREM SchedulesKeepTheirTime == ScheduleSpec => []SchedulesKeepTime
<1>1. ScheduleInv => SchedulesKeepTime
  BY ScheduleTypes
  DEF ScheduleInv, SchedulesKeepTime, StartedIsBehind, StartedOnce, PassedIsBehind
<1> QED
  BY <1>1, ScheduleInvInit, ScheduleInvNext, PTL DEF ScheduleSpec

(***************************************************************************)
(* How events reach the person.                                            *)
(***************************************************************************)

EventRows  == [id : Nat, kind : {"progress", "terminal"}, at : Nat]
ChatEvents == [kind : {"progress", "finished", "clarify"}, src : Nat, at : Nat]
Publishers == {"watcher", "turn"}

WriterRows == [pc : {"idle", "insert", "commit"}, step : Nat, held : Seq(EventRows)]

WriterPc(w) == writer[w].pc
WriteOf(w)  == writer[w].step
Held(w)     == writer[w].held

\* Between them the writers hold what is committed next.
WritersOK ==
  /\ writer \in [Writers -> WriterRows]
  /\ events \in SUBSET EventRows
  /\ steps \in Nat
  /\ nextId \in Nat \ {0}
  /\ month \in Nat

\* Only one writer is past the checkpoint's primary key, with the next step.
OneCommits ==
  /\ \A w \in Writers : WriterPc(w) # "idle" => WriteOf(w) <= steps + 1
  /\ \A w \in Writers : WriterPc(w) = "commit" => WriteOf(w) > steps
  /\ \A v, w \in Writers : WriterPc(v) = "commit" /\ WriterPc(w) = "commit" => v = w

\* So its events have larger ids than all that are committed.
IdsGrow ==
  /\ \A r \in events : r.id > 0 /\ r.id < nextId
  /\ \A r, s \in events : r.id = s.id => r = s
  /\ \A w \in Writers : WriterPc(w) = "commit" =>
       /\ \A i \in DOMAIN Held(w) : Held(w)[i].id > 0 /\ Held(w)[i].id < nextId
       /\ \A i \in DOMAIN Held(w) : \A r \in events : r.id < Held(w)[i].id
       /\ \A i, j \in DOMAIN Held(w) : Held(w)[i].id = Held(w)[j].id => i = j

EngineInv == WritersOK /\ OneCommits /\ IdsGrow

\* A step that replaces what one writer has.
LEMMA WriterMoves ==
  ASSUME WritersOK, NEW w \in Writers, NEW r \in WriterRows, writer' = [writer EXCEPT ![w] = r]
  PROVE  /\ writer' \in [Writers -> WriterRows]
         /\ WriterPc(w)' = r.pc /\ WriteOf(w)' = r.step /\ Held(w)' = r.held
         /\ \A v \in Writers : v # w =>
              WriterPc(v)' = WriterPc(v) /\ WriteOf(v)' = WriteOf(v) /\ Held(v)' = Held(v)
<1>1. /\ writer' \in [Writers -> WriterRows] /\ writer'[w] = r
      /\ \A v \in Writers : v # w => writer'[v] = writer[v]
  BY DEF WritersOK
<1>. QED  BY <1>1 DEF WriterPc, WriteOf, Held

\* The columns of a writer.
LEMMA WriterColumns ==
  ASSUME WritersOK, NEW w \in Writers
  PROVE  /\ WriterPc(w) \in {"idle", "insert", "commit"} /\ WriteOf(w) \in Nat
         /\ Held(w) \in Seq(EventRows) /\ writer[w] \in WriterRows
<1>1. writer[w] \in WriterRows
  BY DEF WritersOK
<1>. QED  BY <1>1 DEF WriterPc, WriteOf, Held, WriterRows

\* A writer with nothing to write.
LEMMA IdleIs ==
  IdleWriter \in WriterRows /\ IdleWriter.pc = "idle"
  BY DEF IdleWriter, WriterRows

\* A writer with nothing in its transaction changes nothing that is committed.
LEMMA WriterStays ==
  ASSUME EngineInv, NEW w \in Writers, NEW r \in WriterRows,
         r.pc # "commit", r.pc # "idle" => r.step <= steps + 1,
         writer' = [writer EXCEPT ![w] = r],
         UNCHANGED <<events, steps, nextId, month>>
  PROVE  EngineInv'
<1>1. WritersOK
  BY DEF EngineInv
<1>2. /\ writer' \in [Writers -> WriterRows]
      /\ WriterPc(w)' = r.pc /\ WriteOf(w)' = r.step
      /\ \A v \in Writers : v # w =>
           WriterPc(v)' = WriterPc(v) /\ WriteOf(v)' = WriteOf(v) /\ Held(v)' = Held(v)
  BY <1>1, WriterMoves
<1>3. WritersOK'
  BY <1>1, <1>2 DEF WritersOK
<1>4. OneCommits'
  BY <1>1, <1>2 DEF EngineInv, OneCommits
<1>5. IdsGrow'
  BY <1>1, <1>2 DEF EngineInv, IdsGrow
<1>. QED  BY <1>3, <1>4, <1>5 DEF EngineInv

\* Who is past the checkpoint's primary key is alone there, and draws ids above all that are committed.
LEMMA InsertsKeep ==
  ASSUME EngineInv, NEW w \in Writers, CommitInserts(w)
  PROVE  EngineInv'
<1>1. /\ WritersOK /\ OneCommits /\ IdsGrow
      /\ WriterPc(w) = "insert" /\ WriteOf(w) > steps
      /\ \A v \in Writers : WriterPc(v) = "commit" => WriteOf(v) # WriteOf(w)
      /\ events' = events /\ steps' = steps /\ month' = month
  BY DEF EngineInv, CommitInserts, WriterPc, WriteOf, calendar
<1>2. PICK kinds \in Outcomes :
        /\ nextId' = nextId + Len(kinds)
        /\ writer' = [writer EXCEPT ![w].pc = "commit", ![w].held = Drawn(kinds)]
  BY DEF CommitInserts
<1>3. kinds \in Seq({"progress", "terminal"}) /\ Len(kinds) \in Nat
  <2>1. CASE kinds = <<"progress">>
    BY <2>1
  <2>2. CASE kinds = <<"progress", "terminal">>
    BY <2>2
  <2>. QED  BY <2>1, <2>2 DEF Outcomes
<1>. DEFINE held == Drawn(kinds)
<1>4. /\ held \in Seq(EventRows) /\ DOMAIN held = 1..Len(kinds)
      /\ \A i \in DOMAIN held : held[i].id = nextId + i - 1
  <2>1. /\ held = [i \in 1..Len(kinds) |-> [id |-> nextId + i - 1, kind |-> kinds[i], at |-> month]]
        /\ nextId \in Nat \ {0} /\ month \in Nat
    BY <1>1 DEF Drawn, WritersOK
  <2>2. \A i \in 1..Len(kinds) : nextId + i - 1 \in Nat /\ kinds[i] \in {"progress", "terminal"}
    BY <1>3, <2>1
  <2>3. \A i \in 1..Len(kinds) : [id |-> nextId + i - 1, kind |-> kinds[i], at |-> month] \in EventRows
    BY <2>1, <2>2 DEF EventRows
  <2>. HIDE DEF held
  <2>. QED  BY <1>3, <2>1, <2>3
<1>. HIDE DEF held
<1>5. PICK s \in Nat : s = WriteOf(w)
  BY <1>1, WriterColumns
<1>6. PICK r \in WriterRows :
        r.pc = "commit" /\ r.step = s /\ r.held = held /\ writer' = [writer EXCEPT ![w] = r]
  <2>1. PICK f, q : f = writer /\ q = writer[w]
    OBVIOUS
  <2>2. f \in [Writers -> WriterRows] /\ q = f[w] /\ q \in WriterRows /\ q.step = s
    BY <1>1, <1>5, <2>1 DEF WritersOK, WriteOf
  <2>3. writer' = [f EXCEPT ![w].pc = "commit", ![w].held = held]
    BY <1>2, <2>1 DEF held
  <2>. DEFINE r == [q EXCEPT !.pc = "commit", !.held = held]
  <2>4. writer' = [f EXCEPT ![w] = r]
    BY <2>2, <2>3
  <2>5. r \in WriterRows /\ r.pc = "commit" /\ r.step = s /\ r.held = held
    BY <1>4, <2>2 DEF WriterRows
  <2>. HIDE DEF r
  <2>. QED  BY <2>1, <2>4, <2>5
<1>8. /\ writer' \in [Writers -> WriterRows]
      /\ WriterPc(w)' = "commit" /\ WriteOf(w)' = s /\ Held(w)' = held
      /\ \A v \in Writers : v # w =>
           WriterPc(v)' = WriterPc(v) /\ WriteOf(v)' = WriteOf(v) /\ Held(v)' = Held(v)
  BY <1>1, <1>6, WriterMoves
<1>9. nextId' \in Nat \ {0} /\ nextId' >= nextId /\ nextId \in Nat /\ steps \in Nat
  BY <1>1, <1>2, <1>3 DEF WritersOK
<1>10. WritersOK'
  BY <1>1, <1>8, <1>9 DEF WritersOK
<1>11. \A v \in Writers : WriterPc(v) # "commit"
  <2>1. TAKE v \in Writers
  <2>2. SUFFICES ASSUME WriterPc(v) = "commit"
        PROVE  FALSE
    OBVIOUS
  <2>3. /\ WriteOf(v) \in Nat /\ WriteOf(v) <= steps + 1 /\ WriteOf(v) > steps
        /\ WriteOf(w) <= steps + 1
    BY <1>1, <2>2, WriterColumns DEF OneCommits
  <2>4. WriteOf(v) = WriteOf(w)
    BY <1>1, <1>5, <1>9, <2>3
  <2>. QED  BY <1>1, <2>2, <2>4
<1>12. OneCommits'
  <2>1. s > steps /\ s <= steps + 1
    BY <1>1, <1>5 DEF OneCommits
  <2>. QED  BY <1>1, <1>8, <1>11, <2>1 DEF OneCommits
<1>13. /\ \A i \in DOMAIN held : held[i].id > 0 /\ held[i].id < nextId'
       /\ \A i \in DOMAIN held : \A d \in events : d.id < held[i].id
       /\ \A i, j \in DOMAIN held : held[i].id = held[j].id => i = j
  <2>1. nextId \in Nat \ {0} /\ \A d \in events : d.id \in Nat /\ d.id < nextId
    BY <1>1 DEF WritersOK, IdsGrow, EventRows
  <2>. QED  BY <1>2, <1>3, <1>4, <2>1
<1>14. \A d \in events : d.id > 0 /\ d.id < nextId'
  <2>1. \A d \in events : d.id \in Nat /\ d.id < nextId /\ d.id > 0
    BY <1>1 DEF WritersOK, IdsGrow, EventRows
  <2>. QED  BY <1>9, <2>1
<1>15. IdsGrow'
  BY <1>1, <1>8, <1>11, <1>13, <1>14 DEF IdsGrow
<1>. QED  BY <1>10, <1>12, <1>15 DEF EngineInv

\* The events a commit adds are newer than all that were there.
LEMMA EndsKeep ==
  ASSUME EngineInv, NEW w \in Writers, CommitEnds(w)
  PROVE  /\ EngineInv'
         /\ events \subseteq events'
         /\ \A r \in events' \ events : r.id > 0 /\ \A s \in events : s.id < r.id
<1>1. /\ WritersOK /\ OneCommits /\ IdsGrow /\ WriterPc(w) = "commit"
      /\ events' = events \cup ToSet(Held(w)) /\ steps' = WriteOf(w)
      /\ writer' = [writer EXCEPT ![w] = IdleWriter]
      /\ nextId' = nextId /\ month' = month
  BY DEF EngineInv, CommitEnds, WriterPc, WriteOf, Held, calendar
<1>2. /\ writer' \in [Writers -> WriterRows]
      /\ WriterPc(w)' = "idle"
      /\ \A v \in Writers : v # w =>
           WriterPc(v)' = WriterPc(v) /\ WriteOf(v)' = WriteOf(v) /\ Held(v)' = Held(v)
  BY <1>1, IdleIs, WriterMoves
<1>3. PICK held \in Seq(EventRows) : held = Held(w)
  BY <1>1, WriterColumns
<1>4. /\ ToSet(held) \subseteq EventRows
      /\ \A r \in ToSet(held) : \E i \in DOMAIN held : r = held[i]
  BY DEF ToSet
<1>5. /\ \A i \in DOMAIN held : held[i].id > 0 /\ held[i].id < nextId
      /\ \A i \in DOMAIN held : \A r \in events : r.id < held[i].id
      /\ \A i, j \in DOMAIN held : held[i].id = held[j].id => i = j
  BY <1>1, <1>3 DEF IdsGrow
<1>6. /\ \A r \in ToSet(held) : r.id > 0 /\ r.id < nextId /\ \A s \in events : s.id < r.id
      /\ \A r, s \in ToSet(held) : r.id = s.id => r = s
  BY <1>4, <1>5
<1>7. steps' = steps + 1 /\ steps \in Nat
  <2>1. WriteOf(w) \in Nat /\ WriteOf(w) <= steps + 1 /\ WriteOf(w) > steps /\ steps \in Nat
    BY <1>1, WriterColumns DEF OneCommits, WritersOK
  <2>. QED  BY <1>1, <2>1
<1>8. WritersOK'
  BY <1>1, <1>2, <1>3, <1>4, <1>7 DEF WritersOK
<1>9. \A v \in Writers : WriterPc(v)' # "commit"
  BY <1>1, <1>2 DEF OneCommits
<1>10. OneCommits'
  <2>1. \A v \in Writers : WriterPc(v)' # "idle" => WriteOf(v)' <= steps' + 1
    <3>1. TAKE v \in Writers
    <3>2. HAVE WriterPc(v)' # "idle"
    <3>3. WriteOf(v)' = WriteOf(v) /\ WriterPc(v) # "idle"
      BY <1>2, <3>2
    <3>4. WriteOf(v) <= steps + 1 /\ WriteOf(v) \in Nat
      BY <1>1, <3>3, WriterColumns DEF OneCommits
    <3>. QED  BY <1>7, <3>3, <3>4
  <2>. QED  BY <1>9, <2>1 DEF OneCommits
<1>11. \A r, s \in events' : r.id = s.id => r = s
  <2>1. \A r \in events : r.id \in Nat
    BY <1>1 DEF WritersOK, EventRows
  <2>2. \A r, s \in events : r.id = s.id => r = s
    BY <1>1 DEF IdsGrow
  <2>3. \A r \in ToSet(held) : r.id \in Nat
    BY <1>4 DEF EventRows
  <2>. QED  BY <1>1, <1>3, <1>6, <2>1, <2>2, <2>3
<1>12. \A r \in events' : r.id > 0 /\ r.id < nextId'
  BY <1>1, <1>3, <1>6 DEF IdsGrow
<1>13. IdsGrow'
  BY <1>9, <1>11, <1>12 DEF IdsGrow
<1>. QED  BY <1>1, <1>3, <1>6, <1>8, <1>10, <1>13 DEF EngineInv

\* Whoever commits, EngineInv stays.
LEMMA CommitKeeps ==
  ASSUME EngineInv, NEW w \in Writers, Commit(w)
  PROVE  EngineInv'
<1>1. WritersOK /\ steps \in Nat
  BY DEF EngineInv, WritersOK
<1>2. CASE CommitReads(w)
  <2>1. PICK s \in Nat : s = steps + 1
    BY <1>1
  <2>. DEFINE r == [IdleWriter EXCEPT !.pc = "insert", !.step = s]
  <2>2. writer' = [writer EXCEPT ![w] = r] /\ UNCHANGED <<events, steps, nextId, month>>
    BY <1>2, <2>1 DEF CommitReads, calendar
  <2>3. r \in WriterRows /\ r.pc # "commit" /\ r.step = s
    BY <2>1, IdleIs DEF WriterRows
  <2>4. s <= steps + 1
    BY <1>1, <2>1
  <2>. HIDE DEF r
  <2>. QED  BY <2>2, <2>3, <2>4, WriterStays
<1>3. CASE CommitInserts(w)
  BY <1>3, InsertsKeep
<1>4. CASE CommitDuplicate(w)
  <2>1. writer' = [writer EXCEPT ![w] = IdleWriter] /\ UNCHANGED <<events, steps, nextId, month>>
    BY <1>4 DEF CommitDuplicate, calendar
  <2>2. PICK r \in WriterRows : r = IdleWriter /\ r.pc = "idle"
    BY IdleIs
  <2>3. writer' = [writer EXCEPT ![w] = r]
    BY <2>1, <2>2
  <2>4. /\ UNCHANGED <<events, steps, nextId, month>>
        /\ r.pc # "commit"
        /\ (r.pc # "idle" => r.step <= steps + 1)
    BY <2>1, <2>2
  <2>. QED  BY <2>3, <2>4, WriterStays
<1>5. CASE CommitEnds(w)
  BY <1>5, EndsKeep
<1>6. CASE CommitRollsBack(w)
  <2>1. writer' = [writer EXCEPT ![w] = IdleWriter] /\ UNCHANGED <<events, steps, nextId, month>>
    BY <1>6 DEF CommitRollsBack, calendar
  <2>2. PICK r \in WriterRows : r = IdleWriter /\ r.pc = "idle"
    BY IdleIs
  <2>3. writer' = [writer EXCEPT ![w] = r]
    BY <2>1, <2>2
  <2>4. /\ UNCHANGED <<events, steps, nextId, month>>
        /\ r.pc # "commit"
        /\ (r.pc # "idle" => r.step <= steps + 1)
    BY <2>1, <2>2
  <2>. QED  BY <2>3, <2>4, WriterStays
<1>. QED  BY <1>2, <1>3, <1>4, <1>5, <1>6 DEF Commit

\* A step that writes nothing of the engine's.
LEMMA EngineStays ==
  ASSUME EngineInv, UNCHANGED engine, month' \in Nat
  PROVE  EngineInv'
<1>1. writer' = writer /\ events' = events /\ steps' = steps /\ nextId' = nextId
  BY DEF engine
<1>. QED  BY <1>1 DEF EngineInv, WritersOK, OneCommits, IdsGrow, WriterPc, WriteOf, Held

-----------------------------------------------------------------------------
(* From the stream to chat's log *)

Streams == [pc : {"closed", "poll", "wait", "send", "done"}, last : Nat,
            batch : Seq(EventRows), sent : Seq(EventRows)]
Watches == [pc : {"open", "recv", "off"}, seen : Seq(Nat), ended : BOOLEAN]
Pubs    == [pc : {"none", "live", "store"}, event : ChatEvents]
Counts  == [cuts : Nat, restarts : Nat, faults : Nat, clarify : Nat, opened : Nat]

RelayOK ==
  /\ stream \in Streams
  /\ watch \in Watches
  /\ pub \in [Publishers -> Pubs]
  /\ log \in Seq(ChatEvents)
  /\ count \in Counts
  /\ pub["turn"].event.kind = "clarify"

StreamPc  == stream.pc
LastId    == stream.last
BatchRows == stream.batch
SentRows  == stream.sent
SeenIds   == ToSet(watch.seen)
Faults    == count.faults

\* What the stream holds is committed, and a batch has all rows from the last one sent on.
PipeInv ==
  /\ \A k \in DOMAIN SentRows : SentRows[k] \in events
  /\ \A k \in DOMAIN BatchRows : BatchRows[k] \in events /\ BatchRows[k].id > LastId
  /\ \A j, k \in DOMAIN BatchRows : j < k => BatchRows[j].id < BatchRows[k].id
  /\ \A k \in DOMAIN BatchRows : \A r \in events : r.id < BatchRows[k].id =>
       r.id <= LastId \/ \E j \in 1..(k - 1) : BatchRows[j] = r
  /\ LastId = 0 \/ \E r \in events : r.id = LastId
  /\ \A x \in SeenIds : \E r \in events : r.id = x
  /\ StreamPc = "send" => BatchRows # <<>>

\* The ids of the progress that is committed.
Progress == {r.id : r \in {q \in events : q.kind = "progress"}}

Logged(x)   == \E i \in DOMAIN log : log[i].kind = "progress" /\ log[i].src = x
InFlight(x) == /\ pub["watcher"].pc # "none"
               /\ pub["watcher"].event.kind = "progress" /\ pub["watcher"].event.src = x
Told(x)     == Logged(x) \/ InFlight(x)

\* Progress older than what is in the channel has been told, or is before it there.
SentOrder ==
  \A k \in DOMAIN SentRows : \A x \in Progress : x < SentRows[k].id =>
    Told(x) \/ \E j \in 1..(k - 1) : SentRows[j].id = x

\* An open stream has passed on all it read.
LastOrder ==
  StreamPc # "closed" =>
    \A x \in Progress : x <= LastId => Told(x) \/ \E j \in DOMAIN SentRows : SentRows[j].id = x

\* What the watcher remembers it has told.
SeenTold == \A x \in Progress : x \in SeenIds => Told(x)

\* The log is in the engine's order.
LogOrder ==
  \A i \in DOMAIN log : log[i].kind = "progress" =>
    log[i].src \in Progress /\ \A x \in Progress : x < log[i].src => LoggedBefore(x, i)

\* What is being published comes next.
FlightOrder ==
  \A y : InFlight(y) => y \in Progress /\ \A x \in Progress : x < y => Logged(x)

InOrder == SentOrder /\ LastOrder /\ SeenTold /\ LogOrder /\ FlightOrder

\* Within a month one event has one row.
OneRow ==
  \A i, j \in DOMAIN log :
    i # j /\ EventId(log[i]) = EventId(log[j]) => log[i].at # log[j].at

Clean == Faults = 0 /\ month <= Retention

RelayInv ==
  /\ RelayOK
  /\ PipeInv
  /\ Clean => InOrder
  /\ OneRow

\* The stream, watcher and counters, by their fields.
LEMMA RelayColumns ==
  ASSUME RelayOK
  PROVE  /\ StreamPc \in {"closed", "poll", "wait", "send", "done"} /\ LastId \in Nat
         /\ BatchRows \in Seq(EventRows) /\ SentRows \in Seq(EventRows)
         /\ watch.seen \in Seq(Nat) /\ SeenIds \subseteq Nat /\ Faults \in Nat
         /\ pub["watcher"] \in Pubs /\ pub["turn"] \in Pubs
<1>1. watch.seen \in Seq(Nat)
  BY DEF RelayOK, Watches
<1>2. SeenIds \subseteq Nat
  BY <1>1 DEF SeenIds, ToSet
<1>3. /\ StreamPc \in {"closed", "poll", "wait", "send", "done"} /\ LastId \in Nat
      /\ BatchRows \in Seq(EventRows) /\ SentRows \in Seq(EventRows)
  BY DEF RelayOK, Streams, StreamPc, LastId, BatchRows, SentRows
<1>4. Faults \in Nat
  BY DEF RelayOK, Counts, Faults
<1>5. pub["watcher"] \in Pubs /\ pub["turn"] \in Pubs
  BY DEF RelayOK, Publishers
<1>. QED  BY <1>1, <1>2, <1>3, <1>4, <1>5

\* The ids of progress are ids of events.
LEMMA ProgressIds ==
  ASSUME EngineInv
  PROVE  Progress \subseteq Nat /\ \A x \in Progress : \E r \in events : r.id = x /\ r.kind = "progress"
  BY DEF EngineInv, WritersOK, Progress, EventRows

\* Nothing is forgotten: what has been told stays told, and the rest is as it was.
LEMMA OrderStays ==
  ASSUME SentOrder, LastOrder, SeenTold, Progress' = Progress,
         \A x \in Progress : Told(x) => Told(x)',
         SentRows' = SentRows, LastId' = LastId, SeenIds' = SeenIds,
         StreamPc' # "closed" => StreamPc # "closed"
  PROVE  SentOrder' /\ LastOrder' /\ SeenTold'
<1>1. SentOrder'
  BY DEF SentOrder
<1>2. LastOrder'
  BY DEF LastOrder
<1>3. SeenTold'
  BY DEF SeenTold
<1>. QED  BY <1>1, <1>2, <1>3

\* A log that is not written stays in order.
LEMMA LogStays ==
  ASSUME LogOrder, FlightOrder, Progress' = Progress, log' = log,
         \A x : InFlight(x)' => InFlight(x)
  PROVE  LogOrder' /\ FlightOrder'
<1>1. \A x : Logged(x)' <=> Logged(x)
  BY DEF Logged
<1>2. LogOrder'
  BY DEF LogOrder, LoggedBefore
<1>3. FlightOrder'
  BY <1>1 DEF FlightOrder
<1>. QED  BY <1>2, <1>3

\* The oldest of the channel is taken, and told if it is progress.
LEMMA SentTail ==
  ASSUME EngineInv, RelayOK, SentOrder, LastOrder, Progress' = Progress,
         \A x \in Progress : Told(x) => Told(x)',
         SentRows # <<>>, SentRows' = Tail(SentRows), LastId' = LastId,
         \A x \in Progress : x = SentRows[1].id => Told(x)',
         StreamPc' # "closed" => StreamPc # "closed"
  PROVE  SentOrder' /\ LastOrder'
<1>1. PICK s \in Seq(EventRows) : s = SentRows
  BY RelayColumns
<1>2. PICK n \in Nat : Len(s) = n + 1
  BY <1>1
<1>3. PICK q \in Seq(EventRows) : q = Tail(s)
  BY <1>1, <1>2
<1>4. Len(q) = n /\ DOMAIN q = 1..n /\ DOMAIN s = 1..(n + 1) /\ \A j \in 1..n : q[j] = s[j + 1]
  BY <1>1, <1>2, <1>3
<1>5. \A x \in Progress : x = s[1].id => Told(x)'
  BY <1>1
<1>6. SentOrder'
  <2>1. SUFFICES ASSUME NEW k \in DOMAIN q, NEW x \in Progress, x < q[k].id, ~Told(x)'
        PROVE  \E j \in 1..(k - 1) : q[j].id = x
    BY <1>1, <1>3 DEF SentOrder
  <2>2. k \in 1..n /\ k + 1 \in DOMAIN s /\ q[k] = s[k + 1]
    BY <1>4
  <2>3. Told(x) \/ \E j \in 1..k : s[j].id = x
    <3>1. Told(x) \/ \E j \in 1..((k + 1) - 1) : s[j].id = x
      BY <1>1, <2>1, <2>2 DEF SentOrder
    <3>. QED  BY <2>2, <3>1
  <2>4. PICK j \in 1..k : s[j].id = x
    BY <2>1, <2>3
  <2>5. j # 1
    BY <1>5, <2>1, <2>4
  <2>6. j - 1 \in 1..(k - 1) /\ q[j - 1] = s[j]
    <3>1. j - 1 \in 1..n /\ j - 1 \in 1..(k - 1) /\ (j - 1) + 1 = j
      BY <2>2, <2>4, <2>5
    <3>. QED  BY <1>4, <3>1
  <2>. QED  BY <2>4, <2>6
<1>7. LastOrder'
  <2>1. SUFFICES ASSUME StreamPc # "closed", NEW x \in Progress, x <= LastId, ~Told(x)'
        PROVE  \E j \in DOMAIN q : q[j].id = x
    BY <1>1, <1>3 DEF LastOrder
  <2>2. PICK j \in DOMAIN s : s[j].id = x
    BY <1>1, <2>1 DEF LastOrder
  <2>3. j # 1
    BY <1>5, <2>1, <2>2
  <2>4. j - 1 \in 1..n /\ q[j - 1] = s[j]
    <3>1. j - 1 \in 1..n /\ (j - 1) + 1 = j
      BY <1>4, <2>2, <2>3
    <3>. QED  BY <1>4, <3>1
  <2>. QED  BY <1>4, <2>2, <2>4
<1>. QED  BY <1>6, <1>7

\* A commit adds to the end.
LEMMA GrowthKeeps ==
  ASSUME EngineInv, EngineInv', RelayInv, events \subseteq events',
         \A r \in events' \ events : r.id > 0 /\ \A s \in events : s.id < r.id,
         UNCHANGED <<stream, watch, pub, log, count, month>>
  PROVE  RelayInv'
<1>1. /\ RelayOK' /\ SentRows' = SentRows /\ LastId' = LastId /\ BatchRows' = BatchRows
      /\ SeenIds' = SeenIds /\ StreamPc' = StreamPc /\ (Clean' => Clean)
      /\ \A x : Told(x)' <=> Told(x)
      /\ \A x : Logged(x)' <=> Logged(x)
      /\ \A x : InFlight(x)' <=> InFlight(x)
  BY DEF RelayInv, RelayOK, SentRows, LastId, BatchRows, SeenIds, StreamPc, Clean, Faults, Told,
         Logged, InFlight
<1>2. OneRow'
  BY DEF RelayInv, OneRow, EventId
<1>3. /\ RelayOK /\ PipeInv /\ LastId \in Nat /\ SeenIds \subseteq Nat
      /\ BatchRows \in Seq(EventRows) /\ SentRows \in Seq(EventRows)
  BY RelayColumns DEF RelayInv
<1>4. \A r \in events' : r.id \in Nat
  BY DEF EngineInv, WritersOK, EventRows
<1>5. \A r \in events' \ events : ~(r.id <= LastId)
  BY <1>3, <1>4 DEF PipeInv
<1>6. \A k \in DOMAIN BatchRows : \A r \in events' \ events : ~(r.id < BatchRows[k].id)
  <2>1. \A k \in DOMAIN BatchRows : BatchRows[k] \in events
    BY <1>3 DEF PipeInv
  <2>. QED  BY <1>4, <2>1
<1>7. PipeInv'
  <2>1. /\ \A k \in DOMAIN SentRows : SentRows[k] \in events'
        /\ \A k \in DOMAIN BatchRows : BatchRows[k] \in events' /\ BatchRows[k].id > LastId
        /\ \A j, k \in DOMAIN BatchRows : j < k => BatchRows[j].id < BatchRows[k].id
        /\ LastId = 0 \/ \E r \in events' : r.id = LastId
        /\ \A x \in SeenIds : \E r \in events' : r.id = x
        /\ StreamPc = "send" => BatchRows # <<>>
    BY <1>3 DEF PipeInv
  <2>2. \A k \in DOMAIN BatchRows : \A r \in events' : r.id < BatchRows[k].id =>
          r.id <= LastId \/ \E j \in 1..(k - 1) : BatchRows[j] = r
    BY <1>3, <1>6 DEF PipeInv
  <2>. QED  BY <1>1, <2>1, <2>2 DEF PipeInv
<1>8. ASSUME Clean'
      PROVE  InOrder'
  <2>1. SentOrder /\ LastOrder /\ SeenTold /\ LogOrder /\ FlightOrder
    BY <1>1, <1>8 DEF RelayInv, InOrder
  <2>2. /\ Progress \subseteq Progress'
        /\ \A x \in Progress' \ Progress : x \in Nat /\ \A s \in events : s.id < x
    <3>1. ASSUME NEW x \in Progress', x \notin Progress
          PROVE  x \in Nat /\ \A s \in events : s.id < x
      <4>1. PICK r \in events' : r.id = x /\ r.kind = "progress"
        BY <3>1 DEF Progress
      <4>2. r \notin events
        BY <3>1, <4>1 DEF Progress
      <4>. QED  BY <1>4, <4>1, <4>2
    <3>. QED  BY <3>1 DEF Progress
  <2>3. \A x \in Progress' \ Progress : \A s \in events :
          x \in Nat /\ s.id \in Nat /\ ~(x <= s.id) /\ ~(x < s.id) /\ x # s.id
    BY <1>4, <2>2
  <2>4. SentOrder'
    <3>1. \A k \in DOMAIN SentRows : SentRows[k] \in events
      BY <1>3 DEF PipeInv
    <3>. QED  BY <1>1, <2>1, <2>3, <3>1 DEF SentOrder
  <2>5. LastOrder'
    <3>1. \A x \in Progress' \ Progress : ~(x <= LastId)
      <4>1. \A x \in Progress' : \E r \in events' : r.id = x /\ r.kind = "progress"
        BY DEF Progress
      <4>2. \A r \in events : r.kind = "progress" => r.id \in Progress
        BY DEF Progress
      <4>. QED  BY <1>5, <4>1, <4>2
    <3>. QED  BY <1>1, <2>1, <3>1 DEF LastOrder
  <2>6. SeenTold'
    <3>1. \A x \in SeenIds : \E r \in events : r.id = x
      BY <1>3 DEF PipeInv
    <3>. QED  BY <1>1, <2>1, <2>3, <3>1 DEF SeenTold
  <2>7. \A x \in Progress' \ Progress, y \in Progress : ~(x < y)
    <3>1. \A y \in Progress : \E r \in events : r.id = y
      BY DEF Progress
    <3>. QED  BY <2>3, <3>1
  <2>8. LogOrder'
    <3>1. log' = log /\ \A x, i : LoggedBefore(x, i)' <=> LoggedBefore(x, i)
      BY DEF LoggedBefore
    <3>. QED  BY <2>1, <2>2, <2>7, <3>1 DEF LogOrder
  <2>9. FlightOrder'
    BY <1>1, <2>1, <2>2, <2>7 DEF FlightOrder
  <2>. QED  BY <2>4, <2>5, <2>6, <2>8, <2>9 DEF InOrder
<1>. QED  BY <1>1, <1>2, <1>7, <1>8 DEF RelayInv

\* What a step leaves alone when it writes neither events, nor the log, nor a publication.
LEMMA Unpublished ==
  ASSUME RelayInv, UNCHANGED <<events, pub, log>>
  PROVE  /\ Progress' = Progress /\ OneRow'
         /\ \A x : Told(x)' <=> Told(x)
         /\ \A x : InFlight(x)' <=> InFlight(x)
         /\ InOrder => LogOrder' /\ FlightOrder'
<1>1. Progress' = Progress
  BY DEF Progress
<1>2. OneRow'
  BY DEF RelayInv, OneRow, EventId
<1>3. /\ \A x : Told(x)' <=> Told(x)
      /\ \A x : InFlight(x)' <=> InFlight(x)
  BY DEF Told, Logged, InFlight
<1>4. InOrder => LogOrder' /\ FlightOrder'
  BY <1>1, <1>3, LogStays DEF InOrder
<1>. QED  BY <1>1, <1>2, <1>3, <1>4

\* A step of the stream alone.
LEMMA StreamMoves ==
  ASSUME RelayInv, NEW s \in Streams, stream' = s,
         UNCHANGED <<events, watch, pub, log, count, month>>
  PROVE  /\ RelayOK' /\ StreamPc' = s.pc /\ LastId' = s.last /\ BatchRows' = s.batch
         /\ SentRows' = s.sent /\ SeenIds' = SeenIds /\ (Clean' => InOrder)
  BY DEF RelayInv, RelayOK, StreamPc, LastId, BatchRows, SentRows, SeenIds, Clean, Faults

\* poll_forever reads on from the last row it has sent.
LEMMA PollKeeps ==
  ASSUME EngineInv, RelayInv, Poll
  PROVE  RelayInv'
<1>1. /\ UNCHANGED <<events, watch, pub, log, count, month>> /\ StreamPc = "poll"
      /\ RelayOK /\ PipeInv
  BY DEF Poll, engine, chat, calendar, RelayInv, StreamPc
<1>2. PICK b \in Polled :
        stream' = [stream EXCEPT !.batch = b, !.pc = IF b = <<>> THEN "wait" ELSE "send"]
  BY DEF Poll
<1>. DEFINE found == {r \in events : r.id > LastId}
<1>3. /\ b \in UNION {[1..n -> found] : n \in 0..Batch}
      /\ \A i, j \in DOMAIN b : i < j => b[i].id < b[j].id
      /\ \A r \in found \ ToSet(b) : \A i \in DOMAIN b : b[i].id < r.id
  BY DEF Polled, LastId
<1>4. found \subseteq EventRows
  BY DEF EngineInv, WritersOK
<1>5. b \in Seq(found) /\ b \in Seq(EventRows)
  <2>1. PICK n \in 0..Batch : b \in [1..n -> found]
    BY <1>3
  <2>2. n \in Nat
    BY <2>1, RelayAssumption
  <2>. HIDE DEF found
  <2>. QED  BY <1>4, <2>1, <2>2
<1>6. PICK s \in Streams :
        /\ stream' = s /\ s.last = LastId /\ s.sent = SentRows /\ s.batch = b
        /\ s.pc = IF b = <<>> THEN "wait" ELSE "send"
  <2>. DEFINE s == [stream EXCEPT !.batch = b, !.pc = IF b = <<>> THEN "wait" ELSE "send"]
  <2>1. /\ s \in Streams /\ s.last = LastId /\ s.sent = SentRows /\ s.batch = b
        /\ s.pc = IF b = <<>> THEN "wait" ELSE "send"
    BY <1>1, <1>5 DEF RelayOK, Streams, LastId, SentRows
  <2>. HIDE DEF s
  <2>. QED  BY <1>2, <2>1 DEF s
<1>7. /\ RelayOK' /\ LastId' = LastId /\ BatchRows' = b /\ SentRows' = SentRows
      /\ SeenIds' = SeenIds /\ (Clean' => InOrder)
      /\ StreamPc' = IF b = <<>> THEN "wait" ELSE "send"
  BY <1>1, <1>6, StreamMoves
<1>8. PipeInv'
  <2>1. \A k \in DOMAIN b : b[k] \in events /\ b[k].id > LastId
    BY <1>5
  <2>2. ASSUME NEW k \in DOMAIN b, NEW r \in events, r.id < b[k].id, ~(r.id <= LastId)
        PROVE  \E j \in 1..(k - 1) : b[j] = r
    <3>1. r.id \in Nat /\ LastId \in Nat /\ b[k].id \in Nat /\ DOMAIN b = 1..Len(b) /\ Len(b) \in Nat
          /\ \A j \in DOMAIN b : b[j].id \in Nat
      BY <1>1, <1>5, RelayColumns DEF EngineInv, WritersOK, EventRows
    <3>2. r \in found
      BY <2>2, <3>1
    <3>3. r \in ToSet(b)
      BY <1>3, <2>2, <3>1, <3>2
    <3>4. PICK j \in DOMAIN b : b[j] = r
      BY <3>3 DEF ToSet
    <3>5. ~(k < j) /\ k # j
      BY <1>3, <2>2, <3>1, <3>4
    <3>. QED  BY <3>1, <3>4, <3>5
  <2>3. StreamPc' = "send" => BatchRows' # <<>>
    BY <1>7
  <2>. HIDE DEF found
  <2>. QED  BY <1>1, <1>3, <1>7, <2>1, <2>2, <2>3 DEF PipeInv
<1>9. Progress' = Progress /\ OneRow' /\ (InOrder => LogOrder' /\ FlightOrder')
      /\ \A x : Told(x)' <=> Told(x)
  BY <1>1, Unpublished
<1>10. ASSUME Clean' PROVE InOrder'
  <2>1. InOrder /\ SentOrder /\ LastOrder /\ SeenTold
    BY <1>7, <1>10 DEF InOrder
  <2>2. SentOrder' /\ LastOrder' /\ SeenTold'
    BY <1>1, <1>7, <1>9, <2>1, OrderStays
  <2>. QED  BY <1>9, <2>1, <2>2 DEF InOrder
<1>. QED  BY <1>7, <1>8, <1>9, <1>10 DEF RelayInv

\* A wait ends.
LEMMA WokenKeeps ==
  ASSUME EngineInv, RelayInv, Woken
  PROVE  RelayInv'
<1>1. /\ UNCHANGED <<events, watch, pub, log, count, month>> /\ StreamPc = "wait"
      /\ RelayOK /\ PipeInv
  BY DEF Woken, engine, chat, calendar, RelayInv, StreamPc
<1>2. PICK s \in Streams :
        /\ stream' = s /\ s.last = LastId /\ s.sent = SentRows /\ s.batch = BatchRows
        /\ s.pc = "poll"
  <2>. DEFINE s == [stream EXCEPT !.pc = "poll"]
  <2>1. /\ s \in Streams /\ s.last = LastId /\ s.sent = SentRows /\ s.batch = BatchRows
        /\ s.pc = "poll"
    BY <1>1 DEF RelayOK, Streams, LastId, SentRows, BatchRows
  <2>2. stream' = s
    BY DEF Woken
  <2>. HIDE DEF s
  <2>. QED  BY <2>1, <2>2
<1>3. /\ RelayOK' /\ LastId' = LastId /\ BatchRows' = BatchRows /\ SentRows' = SentRows
      /\ SeenIds' = SeenIds /\ (Clean' => InOrder) /\ StreamPc' = "poll"
  BY <1>1, <1>2, StreamMoves
<1>4. PipeInv'
  BY <1>1, <1>3 DEF PipeInv
<1>5. Progress' = Progress /\ OneRow' /\ (InOrder => LogOrder' /\ FlightOrder')
      /\ \A x : Told(x)' <=> Told(x)
  BY <1>1, Unpublished
<1>6. ASSUME Clean' PROVE InOrder'
  <2>1. InOrder /\ SentOrder /\ LastOrder /\ SeenTold
    BY <1>3, <1>6 DEF InOrder
  <2>2. SentOrder' /\ LastOrder' /\ SeenTold'
    BY <1>1, <1>3, <1>5, <2>1, OrderStays
  <2>. QED  BY <1>5, <2>1, <2>2 DEF InOrder
<1>. QED  BY <1>3, <1>4, <1>5, <1>6 DEF RelayInv

\* A row goes into the channel.
LEMMA SendKeeps ==
  ASSUME EngineInv, RelayInv, SendRow
  PROVE  RelayInv'
<1>1. /\ UNCHANGED <<events, watch, pub, log, count, month>> /\ StreamPc = "send"
      /\ RelayOK /\ PipeInv
  BY DEF SendRow, engine, chat, calendar, RelayInv, StreamPc
<1>2. PICK b \in Seq(EventRows), q \in Seq(EventRows), l \in Nat :
        b = BatchRows /\ q = SentRows /\ l = LastId
  BY <1>1, RelayColumns
<1>3. PICK n \in Nat : Len(b) = n + 1
  <2>1. b # <<>>
    BY <1>1, <1>2 DEF PipeInv
  <2>. QED  BY <2>1
<1>4. PICK r \in EventRows : r = b[1] /\ r = Head(b)
  BY <1>3
<1>5. PICK c \in Seq(EventRows) : c = Tail(b)
  <2>1. b # <<>>
    BY <1>3
  <2>2. Tail(b) \in Seq(EventRows)
    BY <2>1
  <2>. QED  BY <2>2
<1>6. /\ DOMAIN b = 1..(n + 1) /\ Len(c) = n /\ DOMAIN c = 1..n
      /\ \A k \in 1..n : c[k] = b[k + 1]
  BY <1>3, <1>5
<1>7. PICK a \in Seq(EventRows) : a = Append(q, r)
  <2>1. Append(q, r) \in Seq(EventRows)
    OBVIOUS
  <2>. QED  BY <2>1
<1>8. PICK m \in Nat : Len(q) = m
  OBVIOUS
<1>9. /\ DOMAIN q = 1..m /\ DOMAIN a = 1..(m + 1) /\ a[m + 1] = r
      /\ \A k \in 1..m : a[k] = q[k]
  BY <1>7, <1>8
<1>10. PICK s \in Streams :
        /\ stream' = s /\ s.last = r.id /\ s.sent = a /\ s.batch = c
        /\ s.pc \in {"done", "poll", "send"} /\ (s.pc = "send" => n # 0)
  <2>. DEFINE pc == IF ClosesOn(r) THEN "done" ELSE IF Len(b) = 1 THEN "poll" ELSE "send"
              s == [stream EXCEPT !.last = r.id, !.batch = c, !.sent = a, !.pc = pc]
  <2>1. stream' = s
    BY <1>2, <1>4, <1>5, <1>7 DEF SendRow, BatchRows, SentRows
  <2>2. pc \in {"done", "poll", "send"} /\ (pc = "send" => n # 0)
    BY <1>3
  <2>. HIDE DEF pc
  <2>3. r.id \in Nat
    BY DEF EventRows
  <2>4. s \in Streams /\ s.last = r.id /\ s.sent = a /\ s.batch = c /\ s.pc = pc
    BY <1>1, <2>2, <2>3 DEF RelayOK, Streams
  <2>. HIDE DEF s
  <2>. QED  BY <2>1, <2>2, <2>4
<1>11. /\ RelayOK' /\ LastId' = r.id /\ BatchRows' = c /\ SentRows' = a
       /\ SeenIds' = SeenIds /\ (Clean' => InOrder) /\ StreamPc' # "closed"
       /\ (StreamPc' = "send" => n # 0)
  BY <1>1, <1>10, StreamMoves
<1>12. /\ \A k \in 1..(n + 1) : b[k] \in events /\ b[k].id > l /\ b[k].id \in Nat
       /\ \A j, k \in 1..(n + 1) : j < k => b[j].id < b[k].id
       /\ \A k \in 1..(n + 1) : \A e \in events : e.id < b[k].id =>
            e.id <= l \/ \E j \in 1..(k - 1) : b[j] = e
       /\ \A k \in 1..m : q[k] \in events
       /\ \A e \in events : e.id \in Nat
  <2>1. /\ \A k \in 1..(n + 1) : b[k] \in events /\ b[k].id > l
        /\ \A j, k \in 1..(n + 1) : j < k => b[j].id < b[k].id
        /\ \A k \in 1..m : q[k] \in events
    BY <1>1, <1>2, <1>6, <1>9 DEF PipeInv
  <2>2. \A e \in events : e.id \in Nat
    BY DEF EngineInv, WritersOK, EventRows
  <2>3. \A k \in 1..(n + 1) : \A e \in events : e.id < b[k].id =>
          e.id <= l \/ \E j \in 1..(k - 1) : b[j] = e
    BY <1>1, <1>2, <1>6 DEF PipeInv
  <2>. QED  BY <2>1, <2>2, <2>3
<1>13. r \in events /\ r.id > l /\ 1 \in 1..(n + 1)
  BY <1>4, <1>12
<1>14. PipeInv'
  <2>1. \A k \in DOMAIN a : a[k] \in events
    <3>1. \A k \in DOMAIN a : k = m + 1 \/ k \in 1..m
      BY <1>9
    <3>. QED  BY <1>9, <1>12, <1>13, <3>1
  <2>2. \A k \in DOMAIN c : c[k] \in events /\ c[k].id > r.id
    <3>1. TAKE k \in DOMAIN c
    <3>2. k + 1 \in 1..(n + 1) /\ 1 < k + 1 /\ c[k] = b[k + 1]
      BY <1>6
    <3>3. b[k + 1] \in events /\ b[1].id < b[k + 1].id /\ b[1].id \in Nat /\ b[k + 1].id \in Nat
      BY <1>12, <1>13, <3>2
    <3>. QED  BY <1>4, <3>2, <3>3
  <2>3. \A j, k \in DOMAIN c : j < k => c[j].id < c[k].id
    <3>1. TAKE j, k \in DOMAIN c
    <3>2. HAVE j < k
    <3>3. j + 1 \in 1..(n + 1) /\ k + 1 \in 1..(n + 1) /\ j + 1 < k + 1
      BY <1>6, <3>2
    <3>. QED  BY <1>6, <1>12, <3>3
  <2>4. ASSUME NEW k \in DOMAIN c, NEW e \in events, e.id < c[k].id, ~(e.id <= r.id)
        PROVE  \E j \in 1..(k - 1) : c[j] = e
    <3>1. k \in 1..n /\ k + 1 \in 1..(n + 1) /\ c[k] = b[k + 1]
      BY <1>6
    <3>2. e.id <= l \/ \E j \in 1..((k + 1) - 1) : b[j] = e
      BY <1>12, <2>4, <3>1
    <3>3. ~(e.id <= l)
      BY <1>12, <1>13, <2>4
    <3>4. PICK j \in 1..((k + 1) - 1) : b[j] = e
      BY <3>2, <3>3
    <3>5. j \in Nat /\ j # 1
      <4>1. e.id \in Nat
        BY <1>12
      <4>. QED  BY <1>4, <2>4, <3>4, <4>1
    <3>6. j - 1 \in 1..(k - 1) /\ j - 1 \in 1..n /\ (j - 1) + 1 = j
      <4>1. k \in Nat /\ j \in 1..k /\ k <= n /\ (k + 1) - 1 = k
        BY <3>1, <3>4
      <4>. QED  BY <3>5, <4>1
    <3>7. c[j - 1] = b[(j - 1) + 1]
      BY <1>6, <3>6
    <3>. QED  BY <3>4, <3>6, <3>7
  <2>5. \A x \in SeenIds : \E e \in events : e.id = x
    BY <1>1 DEF PipeInv
  <2>6. StreamPc' = "send" => c # <<>>
    BY <1>6, <1>11
  <2>. QED  BY <1>1, <1>11, <1>13, <2>1, <2>2, <2>3, <2>4, <2>5, <2>6 DEF PipeInv
<1>15. Progress' = Progress /\ OneRow' /\ (InOrder => LogOrder' /\ FlightOrder')
       /\ \A x : Told(x)' <=> Told(x)
  BY <1>1, Unpublished
<1>16. ASSUME Clean' PROVE InOrder'
  <2>1. InOrder /\ SentOrder /\ LastOrder /\ SeenTold
    BY <1>11, <1>16 DEF InOrder
  <2>2. ASSUME NEW x \in Progress, x < r.id
        PROVE  Told(x) \/ \E j \in 1..m : q[j].id = x
    <3>1. PICK e \in events : e.id = x
      BY ProgressIds
    <3>2. x <= l
      <4>1. e.id <= l \/ \E j \in 1..(1 - 1) : b[j] = e
        BY <1>4, <1>12, <1>13, <2>2, <3>1
      <4>. QED  BY <3>1, <4>1
    <3>. QED  BY <1>1, <1>2, <1>9, <2>1, <3>2 DEF LastOrder
  <2>3. SentOrder'
    <3>1. SUFFICES ASSUME NEW k \in DOMAIN a, NEW x \in Progress, x < a[k].id, ~Told(x)
          PROVE  \E j \in 1..(k - 1) : a[j].id = x
      BY <1>11, <1>15 DEF SentOrder
    <3>2. CASE k \in 1..m
      <4>1. PICK j \in 1..(k - 1) : q[j].id = x
        BY <1>2, <1>9, <2>1, <3>1, <3>2 DEF SentOrder
      <4>2. j \in 1..m
        BY <3>2, <4>1
      <4>. QED  BY <1>9, <4>1, <4>2
    <3>3. CASE k = m + 1
      <4>1. PICK j \in 1..m : q[j].id = x
        BY <1>9, <2>2, <3>1, <3>3
      <4>2. j \in 1..(k - 1) /\ a[j] = q[j]
        BY <1>9, <3>3, <4>1
      <4>. QED  BY <4>1, <4>2
    <3>. QED  BY <1>9, <3>2, <3>3
  <2>4. LastOrder'
    <3>1. SUFFICES ASSUME NEW x \in Progress, x <= r.id, ~Told(x)
          PROVE  \E j \in DOMAIN a : a[j].id = x
      BY <1>11, <1>15 DEF LastOrder
    <3>2. x \in Nat /\ r.id \in Nat
      BY <1>12, <1>13, ProgressIds
    <3>3. CASE x = r.id
      BY <1>9, <3>3
    <3>4. CASE x < r.id
      <4>1. PICK j \in 1..m : q[j].id = x
        BY <2>2, <3>1, <3>4
      <4>2. j \in DOMAIN a /\ a[j] = q[j]
        BY <1>9, <4>1
      <4>. QED  BY <4>1, <4>2
    <3>. QED  BY <3>1, <3>2, <3>3, <3>4
  <2>5. SeenTold'
    BY <1>11, <1>15, <2>1 DEF SeenTold
  <2>. QED  BY <1>15, <2>1, <2>3, <2>4, <2>5 DEF InOrder
<1>. QED  BY <1>11, <1>14, <1>15, <1>16 DEF RelayInv
-----------------------------------------------------------------------------
(* Publications, counters and the watcher's memory, by what a step does to them *)

\* A step that replaces one publication.
LEMMA PubMoves ==
  ASSUME RelayOK, NEW p \in Publishers, NEW v \in Pubs, pub' = [pub EXCEPT ![p] = v],
         p = "turn" => v.event.kind = "clarify"
  PROVE  /\ pub' \in [Publishers -> Pubs] /\ pub'["turn"].event.kind = "clarify"
         /\ pub'[p] = v /\ \A q \in Publishers : q # p => pub'[q] = pub[q]
<1>1. pub \in [Publishers -> Pubs] /\ pub["turn"].event.kind = "clarify"
  BY DEF RelayOK
<1>2. pub' \in [Publishers -> Pubs] /\ pub'[p] = v /\ \A q \in Publishers : q # p => pub'[q] = pub[q]
  BY <1>1
<1>3. pub'["turn"].event.kind = "clarify"
  BY <1>1, <1>2 DEF Publishers
<1>. QED  BY <1>2, <1>3

\* NoPub is a publication, and none is under way.
LEMMA NoPubIs ==
  NoPub \in Pubs /\ NoPub.pc = "none" /\ NoPub.event.kind = "clarify"
  BY DEF NoPub, Pubs, ChatEvents

\* publish_all has two halves, and what only the log has is stored in the first.
LEMMA AfterIs ==
  ASSUME RelayOK, NEW p \in Publishers, pub[p].pc # "none"
  PROVE  \E v \in Pubs :
           /\ After(p) = [pub EXCEPT ![p] = v]
           /\ pub[p].event.kind = "clarify" => v.event.kind = "clarify"
           /\ pub[p].event.kind = "clarify" /\ pub[p].pc = "store" =>
                v.pc = "live" /\ v.event = pub[p].event
           /\ pub[p].event.kind = "clarify" /\ pub[p].pc = "live" => v.pc = "none"
           /\ pub[p].event.kind # "clarify" /\ pub[p].pc = "live" =>
                v.pc = "store" /\ v.event = pub[p].event
           /\ pub[p].event.kind # "clarify" /\ pub[p].pc = "store" => v.pc = "none"
<1>1. PICK f \in [Publishers -> Pubs], u \in Pubs : f = pub /\ u = f[p]
  BY DEF RelayOK
<1>2. u.pc \in {"live", "store"} /\ u.event \in ChatEvents
  BY <1>1 DEF Pubs
<1>. DEFINE first == IF u.event.kind = "clarify" THEN "store" ELSE "live"
            other == IF u.pc = "live" THEN "store" ELSE "live"
            w == [u EXCEPT !.pc = other]
<1>3. After(p) = IF u.pc = first THEN [f EXCEPT ![p].pc = IF @ = "live" THEN "store" ELSE "live"]
                 ELSE [f EXCEPT ![p] = NoPub]
  BY <1>1 DEF After, StoredFirst, OnlyLogged
<1>4. other \in {"live", "store"}
  OBVIOUS
<1>5. w \in Pubs /\ w.pc = other /\ w.event = u.event
  <2>. HIDE DEF other
  <2>. QED  BY <1>2, <1>4 DEF Pubs
<1>6. CASE u.pc = first
  <2>1. After(p) = [f EXCEPT ![p] = w]
    BY <1>1, <1>3, <1>6
  <2>2. /\ u.event.kind = "clarify" => u.pc = "store" /\ other = "live"
        /\ u.event.kind # "clarify" => u.pc = "live" /\ other = "store"
    BY <1>6
  <2>. HIDE DEF w, other, first
  <2>. QED  BY <1>1, <1>5, <2>1, <2>2
<1>7. CASE u.pc # first
  <2>1. After(p) = [f EXCEPT ![p] = NoPub]
    BY <1>3, <1>7
  <2>2. /\ u.event.kind = "clarify" => u.pc = "live"
        /\ u.event.kind # "clarify" => u.pc = "store"
    BY <1>2, <1>7
  <2>. HIDE DEF w, other, first
  <2>. QED  BY <1>1, <2>1, <2>2, NoPubIs
<1>. QED  BY <1>6, <1>7

\* A publication that starts has not been through either half.
LEMMA PublishIs ==
  ASSUME NEW e \in ChatEvents
  PROVE  /\ Publish(e) \in Pubs /\ Publish(e).event = e /\ Publish(e).pc # "none"
         /\ (e.kind = "clarify" => Publish(e).pc = "store")
  BY DEF Publish, Pubs, StoredFirst, OnlyLogged

\* What counts a disturbance.
LEMMA OnceIs ==
  ASSUME RelayOK, NEW k \in {"cuts", "restarts", "faults", "clarify", "opened"}, Once(k)
  PROVE  /\ count' \in Counts
         /\ (k = "faults" => Faults' # 0)
         /\ (k # "faults" => Faults' = Faults)
<1>1. count \in Counts /\ count' = [count EXCEPT ![k] = @ + 1]
  BY DEF RelayOK, Once
<1>2. CASE k = "cuts"
  BY <1>1, <1>2 DEF Counts, Faults
<1>3. CASE k = "restarts"
  BY <1>1, <1>3 DEF Counts, Faults
<1>4. CASE k = "faults"
  BY <1>1, <1>4 DEF Counts, Faults
<1>5. CASE k = "clarify"
  BY <1>1, <1>5 DEF Counts, Faults
<1>6. CASE k = "opened"
  BY <1>1, <1>6 DEF Counts, Faults
<1>. QED  BY <1>2, <1>3, <1>4, <1>5, <1>6

\* The watcher forgets the oldest id it remembers, and remembers the new one.
LEMMA RememberIs ==
  ASSUME RelayOK, NEW id \in Nat
  PROVE  Remember(id) \in Seq(Nat) /\ ToSet(Remember(id)) \subseteq SeenIds \cup {id}
<1>1. PICK s \in Seq(Nat) : s = watch.seen
  BY RelayColumns
<1>2. PICK a \in Seq(Nat) : a = Append(s, id)
  <2>1. Append(s, id) \in Seq(Nat)
    OBVIOUS
  <2>. QED  BY <2>1
<1>3. PICK n \in Nat : Len(s) = n
  OBVIOUS
<1>4. DOMAIN s = 1..n /\ DOMAIN a = 1..(n + 1) /\ a[n + 1] = id /\ \A k \in 1..n : a[k] = s[k]
  BY <1>2, <1>3
<1>5. \A k \in 1..(n + 1) : a[k] \in ToSet(s) \cup {id}
  <2>1. \A k \in 1..n : s[k] \in ToSet(s)
    BY <1>4 DEF ToSet
  <2>. QED  BY <1>4, <2>1
<1>6. Tail(a) \in Seq(Nat) /\ DOMAIN Tail(a) = 1..n /\ \A k \in 1..n : Tail(a)[k] = a[k + 1]
  <2>1. Len(a) = n + 1 /\ a # <<>>
    BY <1>4
  <2>. QED  BY <2>1
<1>7. Remember(id) = a \/ Remember(id) = Tail(a)
  BY <1>1, <1>2 DEF Remember
<1>8. ToSet(a) \subseteq ToSet(s) \cup {id}
  BY <1>4, <1>5 DEF ToSet
<1>9. ToSet(Tail(a)) \subseteq ToSet(s) \cup {id}
  <2>1. \A k \in 1..n : k + 1 \in 1..(n + 1)
    OBVIOUS
  <2>. QED  BY <1>5, <1>6, <2>1 DEF ToSet
<1>. QED  BY <1>1, <1>6, <1>7, <1>8, <1>9 DEF SeenIds

-----------------------------------------------------------------------------
(* The steps that leave the stream, the watcher and the log alone *)

\* Nothing moves between the tables and the log.
LEMMA QuietKeeps ==
  ASSUME RelayInv, RelayOK', UNCHANGED <<events, stream, watch, log>>,
         Clean' => Clean /\ \A x : InFlight(x)' <=> InFlight(x)
  PROVE  RelayInv'
<1>1. /\ Progress' = Progress /\ SentRows' = SentRows /\ LastId' = LastId /\ BatchRows' = BatchRows
      /\ SeenIds' = SeenIds /\ StreamPc' = StreamPc
  BY DEF Progress, SentRows, LastId, BatchRows, SeenIds, StreamPc
<1>2. PipeInv'
  BY <1>1 DEF RelayInv, PipeInv
<1>3. OneRow'
  BY DEF RelayInv, OneRow, EventId
<1>4. ASSUME Clean' PROVE InOrder'
  <2>1. SentOrder /\ LastOrder /\ SeenTold /\ LogOrder /\ FlightOrder
    BY <1>4 DEF RelayInv, InOrder
  <2>2. \A x : Told(x) => Told(x)'
    BY <1>4 DEF Told, Logged
  <2>3. SentOrder' /\ LastOrder' /\ SeenTold'
    BY <1>1, <2>1, <2>2, OrderStays
  <2>4. LogOrder' /\ FlightOrder'
    BY <1>1, <1>4, <2>1, LogStays
  <2>. QED  BY <2>3, <2>4 DEF InOrder
<1>. QED  BY <1>2, <1>3, <1>4 DEF RelayInv

\* A commit of the engine.
LEMMA CommitRelays ==
  ASSUME EngineInv, RelayInv, NEW w \in Writers, Commit(w)
  PROVE  RelayInv'
<1>1. EngineInv'
  BY CommitKeeps
<1>2. CASE CommitEnds(w)
  <2>1. UNCHANGED <<stream, watch, pub, log, count, month>>
    BY <1>2 DEF CommitEnds, chat, calendar
  <2>. QED  BY <1>1, <1>2, <2>1, EndsKeep, GrowthKeeps
<1>3. CASE UNCHANGED events /\ UNCHANGED <<stream, watch, pub, log, count, month>>
  BY <1>1, <1>3, GrowthKeeps
<1>. QED  BY <1>2, <1>3 DEF Commit, CommitReads, CommitInserts, CommitDuplicate, CommitRollsBack,
            chat, calendar

\* What a watcher has under way is as it was.
LEMMA SameFlight ==
  ASSUME pub'["watcher"] = pub["watcher"]
  PROVE  \A x : InFlight(x)' <=> InFlight(x)
  BY DEF InFlight

\* tell_live_subscribers.
LEMMA TellKeeps ==
  ASSUME EngineInv, RelayInv, NEW p \in Publishers, TellLiveSubscribers(p)
  PROVE  RelayInv'
<1>1. /\ UNCHANGED <<events, stream, watch, log, count, month>> /\ RelayOK
      /\ pub[p].pc = "live" /\ pub' = After(p)
  BY DEF TellLiveSubscribers, engine, calendar, RelayInv
<1>2. PICK v \in Pubs :
        /\ pub' = [pub EXCEPT ![p] = v]
        /\ pub[p].event.kind = "clarify" => v.event.kind = "clarify"
        /\ pub[p].event.kind # "clarify" => v.pc = "store" /\ v.event = pub[p].event
  BY <1>1, AfterIs
<1>3. p = "turn" => v.event.kind = "clarify"
  BY <1>1, <1>2 DEF RelayOK
<1>4. /\ pub' \in [Publishers -> Pubs] /\ pub'["turn"].event.kind = "clarify"
      /\ pub'[p] = v /\ \A q \in Publishers : q # p => pub'[q] = pub[q]
  BY <1>1, <1>2, <1>3, PubMoves
<1>5. RelayOK'
  BY <1>1, <1>4 DEF RelayOK
<1>6. \A x : InFlight(x)' <=> InFlight(x)
  <2>1. CASE p = "watcher"
    BY <1>1, <1>2, <1>4, <2>1 DEF InFlight
  <2>2. CASE p # "watcher"
    BY <1>4, <2>2, SameFlight DEF Publishers
  <2>. QED  BY <2>1, <2>2
<1>7. Clean' => Clean
  BY <1>1 DEF Clean, Faults
<1>. QED  BY <1>1, <1>5, <1>6, <1>7, QuietKeeps

\* store_events_logging_failure: from here on the log may have gaps.
LEMMA StoreFailsKeeps ==
  ASSUME EngineInv, RelayInv, NEW p \in Publishers, StoreFails(p)
  PROVE  RelayInv'
<1>1. /\ UNCHANGED <<events, stream, watch, log, month>> /\ RelayOK
      /\ pub[p].pc = "store" /\ pub' = After(p) /\ Once("faults")
  BY DEF StoreFails, engine, calendar, RelayInv
<1>2. PICK v \in Pubs :
        /\ pub' = [pub EXCEPT ![p] = v]
        /\ pub[p].event.kind = "clarify" => v.event.kind = "clarify"
  BY <1>1, AfterIs
<1>3. p = "turn" => v.event.kind = "clarify"
  BY <1>1, <1>2 DEF RelayOK
<1>4. pub' \in [Publishers -> Pubs] /\ pub'["turn"].event.kind = "clarify"
  BY <1>1, <1>2, <1>3, PubMoves
<1>5. count' \in Counts /\ Faults' # 0
  BY <1>1, OnceIs
<1>6. RelayOK'
  BY <1>1, <1>4, <1>5 DEF RelayOK
<1>7. ~Clean'
  BY <1>5 DEF Clean
<1>. QED  BY <1>1, <1>6, <1>7, QuietKeeps

\* A turn that publishes a clarification.
LEMMA ClarifyKeeps ==
  ASSUME EngineInv, RelayInv, Clarify
  PROVE  RelayInv'
<1>1. /\ UNCHANGED <<events, stream, watch, log, month>> /\ RelayOK /\ Once("clarify")
      /\ month \in Nat
  BY DEF Clarify, engine, calendar, RelayInv, EngineInv, WritersOK
<1>2. count' \in Counts /\ Faults' = Faults
  BY <1>1, OnceIs
<1>3. PICK n \in Nat : n = count'.clarify
  BY <1>2 DEF Counts
<1>4. PICK e \in ChatEvents : e = [kind |-> "clarify", src |-> n, at |-> month] /\ e.kind = "clarify"
  <2>1. [kind |-> "clarify", src |-> n, at |-> month] \in ChatEvents
    BY <1>1 DEF ChatEvents
  <2>. QED  BY <2>1
<1>5. PICK v \in Pubs : v = Publish(e) /\ v.event.kind = "clarify"
  BY <1>4, PublishIs
<1>6. pub' = [pub EXCEPT !["turn"] = v]
  BY <1>3, <1>4, <1>5 DEF Clarify
<1>7. /\ pub' \in [Publishers -> Pubs] /\ pub'["turn"].event.kind = "clarify"
      /\ pub'["watcher"] = pub["watcher"]
  BY <1>1, <1>5, <1>6, PubMoves DEF Publishers
<1>8. RelayOK'
  BY <1>1, <1>2, <1>7 DEF RelayOK
<1>9. Clean' => Clean
  BY <1>1, <1>2 DEF Clean
<1>. QED  BY <1>1, <1>7, <1>8, <1>9, SameFlight, QuietKeeps

\* The browser only reads.
LEMMA BrowserKeeps ==
  ASSUME RelayInv, Browser
  PROVE  RelayInv'
<1>1. UNCHANGED <<events, stream, watch, log, pub, month>> /\ RelayOK
  BY DEF Browser, Subscribe, Replay, Deliver, engine, chat, calendar, RelayInv
<1>2. count' \in Counts /\ Faults' = Faults
  <2>1. CASE Subscribe
    <3>1. Once("opened")
      BY <2>1 DEF Subscribe
    <3>. QED  BY <1>1, <3>1, OnceIs
  <2>2. CASE Replay
    BY <1>1, <2>2 DEF Replay, RelayOK, Faults
  <2>3. CASE Deliver
    BY <1>1, <2>3 DEF Deliver, RelayOK, Faults
  <2>. QED  BY <2>1, <2>2, <2>3 DEF Browser
<1>3. RelayOK'
  BY <1>1, <1>2 DEF RelayOK
<1>4. Clean' => Clean
  BY <1>1, <1>2 DEF Clean
<1>. QED  BY <1>1, <1>3, <1>4, SameFlight, QuietKeeps

\* A month ends.
LEMMA NextMonthKeeps ==
  ASSUME EngineInv, RelayInv, NextMonth
  PROVE  RelayInv'
<1>1. /\ UNCHANGED <<events, stream, watch, log, pub, count>> /\ RelayOK /\ month' = month + 1
      /\ month \in Nat /\ Retention \in Nat
  BY RelayAssumption DEF NextMonth, engine, chat, RelayInv, EngineInv, WritersOK
<1>2. RelayOK'
  BY <1>1 DEF RelayOK
<1>3. Clean' => Clean
  BY <1>1 DEF Clean, Faults
<1>. QED  BY <1>1, <1>2, <1>3, SameFlight, QuietKeeps
-----------------------------------------------------------------------------
(* What is stored *)

\* row_for and ON CONFLICT DO NOTHING: the event is in the log, once in its month.
LEMMA StoredIs ==
  ASSUME EngineInv, RelayInv, NEW e \in ChatEvents, log' = Stored(e), month' = month
  PROVE  /\ log' \in Seq(ChatEvents) /\ OneRow'
         /\ \/ /\ log' = log
               /\ \E i \in DOMAIN log : log[i].kind = e.kind /\ log[i].src = e.src
            \/ \E row \in ChatEvents :
                 log' = Append(log, row) /\ row.kind = e.kind /\ row.src = e.src
<1>1. log \in Seq(ChatEvents) /\ month \in Nat /\ OneRow
  BY DEF RelayInv, RelayOK, EngineInv, WritersOK
<1>. DEFINE row == [e EXCEPT !.at = Clamp(e.at)]
<1>2. Clamp(e.at) \in Nat
  BY <1>1 DEF Clamp, ChatEvents
<1>3. row \in ChatEvents /\ row.kind = e.kind /\ row.src = e.src
  BY <1>2 DEF ChatEvents
<1>4. log' = IF \E f \in ToSet(log) : EventId(row) = EventId(f) /\ row.at = f.at THEN log
             ELSE Append(log, row)
  BY DEF Stored
<1>. HIDE DEF row
<1>5. \A f \in ToSet(log) : \E i \in DOMAIN log : f = log[i]
  BY <1>1 DEF ToSet
<1>6. CASE \E f \in ToSet(log) : EventId(row) = EventId(f) /\ row.at = f.at
  <2>1. log' = log
    BY <1>4, <1>6
  <2>2. PICK i \in DOMAIN log : EventId(row) = EventId(log[i])
    BY <1>5, <1>6
  <2>3. log[i].kind = e.kind /\ log[i].src = e.src
    BY <1>3, <2>2 DEF EventId
  <2>. QED  BY <1>1, <2>1, <2>3 DEF OneRow, EventId
<1>7. CASE ~\E f \in ToSet(log) : EventId(row) = EventId(f) /\ row.at = f.at
  <2>1. log' = Append(log, row)
    BY <1>4, <1>7
  <2>2. PICK l \in Seq(ChatEvents), n \in Nat : l = log /\ Len(l) = n
    BY <1>1
  <2>3. PICK m \in Seq(ChatEvents) : m = Append(l, row)
    <3>1. Append(l, row) \in Seq(ChatEvents)
      BY <1>3, <2>2
    <3>. QED  BY <3>1
  <2>4. /\ DOMAIN l = 1..n /\ DOMAIN m = 1..(n + 1) /\ m[n + 1] = row
        /\ \A i \in 1..n : m[i] = l[i]
    BY <2>2, <2>3
  <2>5. \A i \in 1..n : EventId(row) = EventId(l[i]) => row.at # l[i].at
    <3>1. \A i \in 1..n : l[i] \in ToSet(log)
      BY <2>2, <2>4 DEF ToSet
    <3>. QED  BY <1>7, <3>1
  <2>6. ASSUME NEW i \in 1..(n + 1), NEW j \in 1..(n + 1), i # j, EventId(m[i]) = EventId(m[j])
        PROVE  m[i].at # m[j].at
    <3>1. CASE i = n + 1
      <4>1. j \in 1..n
        BY <2>6, <3>1
      <4>. QED  BY <2>4, <2>5, <2>6, <3>1, <4>1
    <3>2. CASE j = n + 1
      <4>1. i \in 1..n
        BY <2>6, <3>2
      <4>. QED  BY <2>4, <2>5, <2>6, <3>2, <4>1
    <3>3. CASE i # n + 1 /\ j # n + 1
      <4>1. i \in 1..n /\ j \in 1..n
        BY <3>3
      <4>. QED  BY <1>1, <2>2, <2>4, <2>6, <4>1 DEF OneRow
    <3>. QED  BY <3>1, <3>2, <3>3
  <2>7. log' = m
    BY <2>1, <2>2, <2>3
  <2>8. OneRow'
    BY <2>4, <2>6, <2>7 DEF OneRow, EventId
  <2>. QED  BY <1>3, <2>1, <2>3, <2>7, <2>8
<1>. QED  BY <1>6, <1>7

\* A row more: the log stays in order if the row is next.
LEMMA LogGrows ==
  ASSUME RelayOK, LogOrder, Progress' = Progress, NEW row \in ChatEvents, log' = Append(log, row),
         row.kind = "progress" =>
           row.src \in Progress /\ \A x \in Progress : x < row.src => Logged(x)
  PROVE  /\ LogOrder' /\ \A x : Logged(x) => Logged(x)'
         /\ row.kind = "progress" => Logged(row.src)'
<1>1. PICK l \in Seq(ChatEvents), n \in Nat : l = log /\ Len(l) = n
  BY DEF RelayOK
<1>2. PICK m \in Seq(ChatEvents) : m = Append(l, row)
  <2>1. Append(l, row) \in Seq(ChatEvents)
    BY <1>1
  <2>. QED  BY <2>1
<1>3. /\ DOMAIN l = 1..n /\ DOMAIN m = 1..(n + 1) /\ m[n + 1] = row /\ n + 1 \in 1..(n + 1)
      /\ \A i \in 1..n : m[i] = l[i] /\ i \in 1..(n + 1)
  BY <1>1, <1>2
<1>4. log' = m
  BY <1>1, <1>2
<1>5. \A x : Logged(x) => Logged(x)'
  BY <1>1, <1>3, <1>4 DEF Logged
<1>6. row.kind = "progress" => Logged(row.src)'
  BY <1>3, <1>4 DEF Logged
<1>7. ASSUME NEW i \in 1..(n + 1), m[i].kind = "progress"
      PROVE  /\ m[i].src \in Progress
             /\ \A x \in Progress : x < m[i].src =>
                  \E j \in 1..(i - 1) : m[j].kind = "progress" /\ m[j].src = x
  <2>1. CASE i = n + 1
    <3>1. row.kind = "progress" /\ m[i] = row
      BY <1>3, <1>7, <2>1
    <3>2. ASSUME NEW x \in Progress, x < row.src
          PROVE  \E j \in 1..(i - 1) : m[j].kind = "progress" /\ m[j].src = x
      <4>1. PICK j \in 1..n : l[j].kind = "progress" /\ l[j].src = x
        BY <1>1, <1>3, <3>1, <3>2 DEF Logged
      <4>2. j \in 1..(i - 1)
        BY <2>1
      <4>. QED  BY <1>3, <4>1, <4>2
    <3>. QED  BY <3>1, <3>2
  <2>2. CASE i # n + 1
    <3>1. i \in 1..n /\ m[i] = l[i]
      BY <1>3, <2>2
    <3>2. /\ l[i].src \in Progress
          /\ \A x \in Progress : x < l[i].src =>
               \E j \in 1..(i - 1) : l[j].kind = "progress" /\ l[j].src = x
      BY <1>1, <1>3, <1>7, <3>1 DEF LogOrder, LoggedBefore
    <3>3. \A j \in 1..(i - 1) : m[j] = l[j]
      <4>1. \A j \in 1..(i - 1) : j \in 1..n
        BY <3>1
      <4>. QED  BY <1>3, <4>1
    <3>. QED  BY <3>1, <3>2, <3>3
  <2>. QED  BY <2>1, <2>2
<1>8. LogOrder'
  BY <1>3, <1>4, <1>7 DEF LogOrder, LoggedBefore
<1>. QED  BY <1>5, <1>6, <1>8

\* store_events: what the watcher publishes comes next in the engine's order.
LEMMA StoreKeeps ==
  ASSUME EngineInv, RelayInv, NEW p \in Publishers, StoreEvents(p)
  PROVE  RelayInv'
<1>1. /\ UNCHANGED <<events, stream, watch, count, month>> /\ RelayOK /\ PipeInv
      /\ pub[p].pc = "store" /\ pub' = After(p)
  BY DEF StoreEvents, engine, calendar, RelayInv
<1>2. PICK v \in Pubs :
        /\ pub' = [pub EXCEPT ![p] = v]
        /\ pub[p].event.kind = "clarify" => v.event.kind = "clarify"
        /\ pub[p].event.kind # "clarify" => v.pc = "none"
  BY <1>1, AfterIs
<1>3. p = "turn" => v.event.kind = "clarify"
  BY <1>1, <1>2 DEF RelayOK
<1>4. /\ pub' \in [Publishers -> Pubs] /\ pub'["turn"].event.kind = "clarify"
      /\ pub'[p] = v /\ \A q \in Publishers : q # p => pub'[q] = pub[q]
  BY <1>1, <1>2, <1>3, PubMoves
<1>5. PICK e \in ChatEvents : e = pub[p].event
  BY <1>1 DEF RelayOK, Pubs
<1>6. log' = Stored(e)
  BY <1>5 DEF StoreEvents
<1>7. /\ log' \in Seq(ChatEvents) /\ OneRow'
      /\ \/ /\ log' = log
            /\ \E i \in DOMAIN log : log[i].kind = e.kind /\ log[i].src = e.src
         \/ \E row \in ChatEvents :
              log' = Append(log, row) /\ row.kind = e.kind /\ row.src = e.src
  BY <1>1, <1>6, StoredIs
<1>8. RelayOK'
  BY <1>1, <1>4, <1>7 DEF RelayOK
<1>9. /\ Progress' = Progress /\ SentRows' = SentRows /\ LastId' = LastId /\ BatchRows' = BatchRows
      /\ SeenIds' = SeenIds /\ StreamPc' = StreamPc /\ (Clean' => Clean)
  BY <1>1 DEF Progress, SentRows, LastId, BatchRows, SeenIds, StreamPc, Clean, Faults
<1>10. PipeInv'
  BY <1>1, <1>9 DEF PipeInv
<1>11. \A x : InFlight(x)' => InFlight(x) /\ p # "watcher"
  <2>1. CASE p = "watcher"
    BY <1>2, <1>4, <1>5, <2>1 DEF InFlight
  <2>2. CASE p # "watcher"
    BY <1>4, <2>2, SameFlight DEF Publishers
  <2>. QED  BY <2>1, <2>2
<1>12. e.kind = "progress" => p = "watcher" /\ InFlight(e.src)
  <2>1. p = "turn" => e.kind = "clarify"
    BY <1>1, <1>5 DEF RelayOK
  <2>. QED  BY <1>1, <1>5, <2>1 DEF InFlight, Publishers
<1>13. ASSUME NEW x, InFlight(x)
       PROVE  InFlight(x)' \/ (p = "watcher" /\ e.kind = "progress" /\ e.src = x)
  <2>1. CASE p = "watcher"
    BY <1>5, <1>13, <2>1 DEF InFlight
  <2>2. CASE p # "watcher"
    BY <1>4, <1>13, <2>2, SameFlight DEF Publishers
  <2>. QED  BY <2>1, <2>2
<1>14. ASSUME Clean' PROVE InOrder'
  <2>1. SentOrder /\ LastOrder /\ SeenTold /\ LogOrder /\ FlightOrder
    BY <1>9, <1>14 DEF RelayInv, InOrder
  <2>2. /\ LogOrder' /\ \A x : Logged(x) => Logged(x)'
        /\ e.kind = "progress" => Logged(e.src)'
    <3>1. CASE /\ log' = log
               /\ \E i \in DOMAIN log : log[i].kind = e.kind /\ log[i].src = e.src
      <4>1. \A x : Logged(x)' <=> Logged(x)
        BY <3>1 DEF Logged
      <4>2. LogOrder'
        BY <1>9, <2>1, <3>1 DEF LogOrder, LoggedBefore
      <4>. QED  BY <3>1, <4>1, <4>2 DEF Logged
    <3>2. CASE \E row \in ChatEvents :
                 log' = Append(log, row) /\ row.kind = e.kind /\ row.src = e.src
      <4>1. PICK row \in ChatEvents :
              log' = Append(log, row) /\ row.kind = e.kind /\ row.src = e.src
        BY <3>2
      <4>2. row.kind = "progress" =>
              row.src \in Progress /\ \A x \in Progress : x < row.src => Logged(x)
        BY <1>12, <2>1, <4>1 DEF FlightOrder
      <4>3. /\ LogOrder' /\ \A x : Logged(x) => Logged(x)'
            /\ row.kind = "progress" => Logged(row.src)'
        BY <1>1, <1>9, <2>1, <4>1, <4>2, LogGrows
      <4>. QED  BY <4>1, <4>3
    <3>. QED  BY <1>7, <3>1, <3>2
  <2>3. \A x : Told(x) => Told(x)'
    BY <1>13, <2>2 DEF Told
  <2>4. SentOrder' /\ LastOrder' /\ SeenTold'
    BY <1>9, <2>1, <2>3, OrderStays
  <2>5. FlightOrder'
    BY <1>9, <1>11, <2>1, <2>2 DEF FlightOrder
  <2>. QED  BY <2>2, <2>4, <2>5 DEF InOrder
<1>. QED  BY <1>7, <1>8, <1>10, <1>14 DEF RelayInv

\* drop_older_than drops no row while no month is past the retention.
LEMMA MaintainKeeps ==
  ASSUME EngineInv, RelayInv, Maintain
  PROVE  RelayInv'
<1>. DEFINE keep == {e \in ToSet(log) : WithinRetention(e.at)}
<1>1. /\ UNCHANGED <<events, stream, watch, pub, count, month>> /\ RelayOK /\ PipeInv /\ OneRow
      /\ log' = Only(log, keep) /\ month \in Nat /\ Retention \in Nat
  BY RelayAssumption DEF Maintain, engine, calendar, RelayInv, EngineInv, WritersOK
<1>2. PICK l \in Seq(ChatEvents) : l = log
  BY <1>1 DEF RelayOK
<1>3. Only(l, keep) \in Seq(ChatEvents) /\ \E e : Embeds(e, Only(l, keep), l, keep, Len(l))
  <2>. HIDE DEF keep
  <2>. QED  BY OnlyIsAFilter
<1>4. PICK m \in Seq(ChatEvents) : m = log' /\ \E e : Embeds(e, m, l, keep, Len(l))
  BY <1>1, <1>2, <1>3
<1>5. PICK e : Embeds(e, m, l, keep, Len(l))
  BY <1>4
<1>6. RelayOK'
  BY <1>1, <1>4 DEF RelayOK
<1>7. /\ \A i \in 1..Len(m) : e[i] \in 1..Len(l) /\ m[i] = l[e[i]]
      /\ \A i, j \in 1..Len(m) : i < j => e[i] < e[j]
  <2>. HIDE DEF keep
  <2>. QED  BY <1>5 DEF Embeds
<1>8. OneRow'
  <2>1. ASSUME NEW i \in 1..Len(m), NEW j \in 1..Len(m), i # j, EventId(m[i]) = EventId(m[j])
        PROVE  m[i].at # m[j].at
    <3>1. i < j \/ j < i
      BY <2>1
    <3>2. e[i] # e[j]
      BY <1>7, <3>1
    <3>. QED  BY <1>1, <1>2, <1>7, <2>1, <3>2 DEF OneRow
  <2>. QED  BY <1>4, <2>1 DEF OneRow, EventId
<1>9. ASSUME Clean' PROVE log' = log
  <2>1. month <= Retention
    BY <1>1, <1>9 DEF Clean
  <2>2. \A i \in 1..Len(l) : l[i] \in keep
    <3>1. TAKE i \in 1..Len(l)
    <3>2. l[i] \in ChatEvents /\ l[i] \in ToSet(log)
      BY <1>2 DEF ToSet
    <3>3. l[i].at \in Nat
      BY <3>2 DEF ChatEvents
    <3>4. WithinRetention(l[i].at)
      BY <1>1, <2>1, <3>3 DEF WithinRetention
    <3>. QED  BY <3>2, <3>4
  <2>. HIDE DEF keep
  <2>. QED  BY <1>1, <1>2, <2>2, OnlyKeepsAll
<1>10. CASE Clean'
  <2>1. Clean' => Clean
    BY <1>1 DEF Clean, Faults
  <2>. QED  BY <1>1, <1>6, <1>9, <1>10, <2>1, SameFlight, QuietKeeps
<1>11. CASE ~Clean'
  <2>1. /\ SentRows' = SentRows /\ LastId' = LastId /\ BatchRows' = BatchRows
        /\ SeenIds' = SeenIds /\ StreamPc' = StreamPc
    BY <1>1 DEF SentRows, LastId, BatchRows, SeenIds, StreamPc
  <2>2. PipeInv'
    BY <1>1, <2>1 DEF PipeInv
  <2>. QED  BY <1>6, <1>8, <1>11, <2>2 DEF RelayInv
<1>. QED  BY <1>10, <1>11
-----------------------------------------------------------------------------
(* The watcher *)

\* The watcher takes the oldest event of the channel.
LEMMA TakeMoves ==
  ASSUME EngineInv, RelayInv, Receiving, stream' = [stream EXCEPT !.sent = Tail(@)], events' = events
  PROVE  /\ stream' \in Streams /\ StreamPc' = StreamPc /\ LastId' = LastId
         /\ BatchRows' = BatchRows /\ SentRows # <<>> /\ SentRows' = Tail(SentRows)
         /\ SentRows[1] = Received /\ Received \in events /\ Received.id \in Nat
         /\ Progress' = Progress
         /\ \A k \in DOMAIN SentRows' : SentRows'[k] \in events
<1>1. stream \in Streams /\ PipeInv /\ SentRows \in Seq(EventRows) /\ SentRows # <<>>
  BY RelayColumns DEF RelayInv, RelayOK, Receiving, SentRows
<1>2. PICK s \in Seq(EventRows), n \in Nat : s = SentRows /\ Len(s) = n + 1
  <2>1. PICK s \in Seq(EventRows) : s = SentRows /\ s # <<>>
    BY <1>1
  <2>2. Len(s) - 1 \in Nat /\ Len(s) = (Len(s) - 1) + 1
    BY <2>1
  <2>. QED  BY <2>1, <2>2
<1>3. PICK q \in Seq(EventRows) : q = Tail(s)
  <2>1. s # <<>>
    BY <1>2
  <2>2. Tail(s) \in Seq(EventRows)
    BY <2>1
  <2>. QED  BY <2>2
<1>4. /\ DOMAIN s = 1..(n + 1) /\ DOMAIN q = 1..n /\ 1 \in 1..(n + 1)
      /\ \A k \in 1..n : q[k] = s[k + 1] /\ k + 1 \in 1..(n + 1)
  BY <1>2, <1>3
<1>5. stream' = [stream EXCEPT !.sent = q]
  BY <1>2, <1>3 DEF SentRows
<1>6. /\ stream' \in Streams /\ stream'.pc = stream.pc /\ stream'.last = stream.last
      /\ stream'.batch = stream.batch /\ stream'.sent = q
  BY <1>1, <1>5 DEF Streams
<1>7. Received = s[1]
  BY <1>2 DEF Received, SentRows
<1>8. \A k \in 1..(n + 1) : s[k] \in events
  BY <1>1, <1>2, <1>4 DEF PipeInv
<1>9. Received \in events /\ Received.id \in Nat
  BY <1>4, <1>7, <1>8 DEF EngineInv, WritersOK, EventRows
<1>10. Progress' = Progress
  BY DEF Progress
<1>11. SentRows' = q
  BY <1>6 DEF SentRows
<1>12. \A k \in DOMAIN q : q[k] \in events
  BY <1>4, <1>8
<1>. QED  BY <1>1, <1>2, <1>3, <1>6, <1>7, <1>9, <1>10, <1>11, <1>12 DEF StreamPc, LastId, BatchRows

\* The stream's part of PipeInv survives a take, whatever the watcher remembers of it.
LEMMA TakePipe ==
  ASSUME EngineInv, RelayInv, Receiving, stream' = [stream EXCEPT !.sent = Tail(@)], events' = events,
         SeenIds' \subseteq SeenIds \cup {Received.id}
  PROVE  PipeInv'
<1>1. /\ StreamPc' = StreamPc /\ LastId' = LastId /\ BatchRows' = BatchRows
      /\ Received \in events
      /\ \A k \in DOMAIN SentRows' : SentRows'[k] \in events
  BY TakeMoves
<1>2. PipeInv
  BY DEF RelayInv
<1>3. \A x \in SeenIds' : \E r \in events : r.id = x
  BY <1>1, <1>2 DEF PipeInv
<1>. QED  BY <1>1, <1>2, <1>3 DEF PipeInv

\* An event the watcher remembers has been told.
LEMMA SkipKeeps ==
  ASSUME EngineInv, RelayInv, SkipSeen
  PROVE  RelayInv'
<1>1. /\ UNCHANGED <<events, watch, pub, log, count, month>> /\ Receiving
      /\ Received.id \in SeenIds /\ stream' = [stream EXCEPT !.sent = Tail(@)] /\ RelayOK
  BY DEF SkipSeen, engine, chat, calendar, RelayInv, SeenIds
<1>2. /\ stream' \in Streams /\ StreamPc' = StreamPc /\ LastId' = LastId
      /\ SentRows # <<>> /\ SentRows' = Tail(SentRows) /\ SentRows[1] = Received
      /\ Progress' = Progress
  BY <1>1, TakeMoves
<1>3. RelayOK' /\ SeenIds' = SeenIds /\ (Clean' => Clean)
  BY <1>1, <1>2 DEF RelayOK, SeenIds, Clean, Faults
<1>4. PipeInv'
  BY <1>1, <1>3, TakePipe
<1>5. OneRow' /\ (InOrder => LogOrder' /\ FlightOrder') /\ \A x : Told(x)' <=> Told(x)
  BY <1>1, Unpublished
<1>6. ASSUME Clean' PROVE InOrder'
  <2>1. InOrder /\ SentOrder /\ LastOrder /\ SeenTold
    BY <1>3, <1>6 DEF RelayInv, InOrder
  <2>2. \A x \in Progress : x = SentRows[1].id => Told(x)'
    BY <1>1, <1>2, <1>5, <2>1 DEF SeenTold
  <2>3. SentOrder' /\ LastOrder'
    BY <1>1, <1>2, <1>5, <2>1, <2>2, SentTail
  <2>4. SeenTold'
    BY <1>2, <1>3, <1>5, <2>1 DEF SeenTold
  <2>. QED  BY <1>5, <2>1, <2>3, <2>4 DEF InOrder
<1>. QED  BY <1>3, <1>4, <1>5, <1>6 DEF RelayInv

\* Nothing is under way when the watcher takes an event.
LEMMA NothingInFlight ==
  ASSUME Receiving
  PROVE  \A x : ~InFlight(x)
  BY DEF Receiving, InFlight

\* What the watcher remembers after an event.
LEMMA WatchMoves ==
  ASSUME RelayOK, NEW id \in Nat, NEW e \in BOOLEAN,
         watch' = [watch EXCEPT !.seen = Remember(id), !.ended = e]
  PROVE  watch' \in Watches /\ SeenIds' \subseteq SeenIds \cup {id}
<1>1. PICK s \in Seq(Nat) : s = Remember(id) /\ ToSet(s) \subseteq SeenIds \cup {id}
  BY RememberIs
<1>2. watch \in Watches
  BY DEF RelayOK
<1>3. watch' \in Watches /\ watch'.seen = s
  BY <1>1, <1>2 DEF Watches
<1>. QED  BY <1>1, <1>3 DEF SeenIds

\* handle_engine_event, progress: all older progress is in the log by now.
LEMMA RelayProgressKeeps ==
  ASSUME EngineInv, RelayInv, RelayProgress
  PROVE  RelayInv'
<1>1. /\ UNCHANGED <<events, log, count, month>> /\ Receiving /\ Received.kind = "progress"
      /\ stream' = [stream EXCEPT !.sent = Tail(@)] /\ RelayOK
  BY DEF RelayProgress, engine, calendar, RelayInv
<1>2. /\ stream' \in Streams /\ StreamPc' = StreamPc /\ LastId' = LastId
      /\ SentRows # <<>> /\ SentRows' = Tail(SentRows) /\ SentRows[1] = Received
      /\ Received \in events /\ Received.id \in Nat /\ Progress' = Progress
  BY <1>1, TakeMoves
<1>3. PICK id \in Nat, at \in Nat : id = Received.id /\ at = Received.at
  BY <1>2 DEF EngineInv, WritersOK, EventRows
<1>4. watch' \in Watches /\ SeenIds' \subseteq SeenIds \cup {id}
  <2>1. watch \in Watches /\ watch' = [watch EXCEPT !.seen = Remember(id)]
    BY <1>1, <1>3 DEF RelayProgress, RelayOK
  <2>2. PICK e \in BOOLEAN : e = watch.ended
    BY <2>1 DEF Watches
  <2>3. watch' = [watch EXCEPT !.seen = Remember(id), !.ended = e]
    BY <2>1, <2>2 DEF Watches
  <2>. QED  BY <1>1, <2>3, WatchMoves
<1>5. PICK e \in ChatEvents :
        e = [kind |-> "progress", src |-> id, at |-> at] /\ e.kind = "progress" /\ e.src = id
  <2>1. [kind |-> "progress", src |-> id, at |-> at] \in ChatEvents
    BY DEF ChatEvents
  <2>. QED  BY <2>1
<1>6. PICK v \in Pubs : v = Publish(e) /\ v.event = e /\ v.pc # "none"
  BY PublishIs
<1>7. pub' = [pub EXCEPT !["watcher"] = v]
  BY <1>3, <1>5, <1>6 DEF RelayProgress
<1>8. /\ pub' \in [Publishers -> Pubs] /\ pub'["turn"].event.kind = "clarify"
      /\ pub'["watcher"] = v
  BY <1>1, <1>6, <1>7, PubMoves DEF Publishers
<1>9. RelayOK' /\ (Clean' => Clean)
  BY <1>1, <1>2, <1>4, <1>8 DEF RelayOK, Clean, Faults
<1>10. PipeInv'
  BY <1>1, <1>3, <1>4, TakePipe
<1>11. OneRow'
  BY <1>1 DEF RelayInv, OneRow, EventId
<1>12. \A x : InFlight(x)' <=> x = id
  BY <1>5, <1>6, <1>8 DEF InFlight
<1>13. \A x : Logged(x)' <=> Logged(x)
  BY <1>1 DEF Logged
<1>14. \A x : ~InFlight(x)
  BY <1>1, NothingInFlight
<1>15. ASSUME Clean' PROVE InOrder'
  <2>1. SentOrder /\ LastOrder /\ SeenTold /\ LogOrder /\ FlightOrder
    BY <1>9, <1>15 DEF RelayInv, InOrder
  <2>2. \A x : Told(x) => Told(x)'
    BY <1>13, <1>14 DEF Told
  <2>3. Told(id)'
    BY <1>12 DEF Told
  <2>4. SentOrder' /\ LastOrder'
    BY <1>1, <1>2, <1>3, <2>1, <2>2, <2>3, SentTail
  <2>5. SeenTold'
    BY <1>2, <1>4, <2>1, <2>2, <2>3 DEF SeenTold
  <2>6. LogOrder'
    BY <1>1, <1>2, <2>1 DEF LogOrder, LoggedBefore
  <2>7. id \in Progress
    BY <1>1, <1>2, <1>3 DEF Progress
  <2>8. ASSUME NEW x \in Progress, x < id
        PROVE  Logged(x)
    <3>1. PICK s \in Seq(EventRows) : s = SentRows
      BY <1>1, RelayColumns
    <3>2. 1 \in DOMAIN s /\ s[1].id = id
      BY <1>2, <1>3, <3>1
    <3>3. Told(x) \/ \E j \in 1..(1 - 1) : s[j].id = x
      BY <2>1, <2>8, <3>1, <3>2 DEF SentOrder
    <3>. QED  BY <1>14, <3>3 DEF Told
  <2>9. FlightOrder'
    BY <1>2, <1>12, <1>13, <2>7, <2>8 DEF FlightOrder
  <2>. QED  BY <2>4, <2>5, <2>6, <2>9 DEF InOrder
<1>. QED  BY <1>9, <1>10, <1>11, <1>15 DEF RelayInv

\* finish_topic: the end of an execution is no progress.
LEMMA FinishKeeps ==
  ASSUME EngineInv, RelayInv, FinishTopic
  PROVE  RelayInv'
<1>1. /\ UNCHANGED <<events, log, count, month>> /\ Receiving /\ Received.kind = "terminal"
      /\ stream' = [stream EXCEPT !.sent = Tail(@)] /\ RelayOK /\ month \in Nat
  BY DEF FinishTopic, engine, calendar, RelayInv, EngineInv, WritersOK
<1>2. /\ stream' \in Streams /\ StreamPc' = StreamPc /\ LastId' = LastId
      /\ SentRows # <<>> /\ SentRows' = Tail(SentRows) /\ SentRows[1] = Received
      /\ Received \in events /\ Received.id \in Nat /\ Progress' = Progress
  BY <1>1, TakeMoves
<1>3. PICK id \in Nat : id = Received.id
  BY <1>2
<1>4. watch' \in Watches /\ SeenIds' \subseteq SeenIds \cup {id}
  <2>1. watch' = [watch EXCEPT !.seen = Remember(id), !.ended = TRUE]
    BY <1>3 DEF FinishTopic
  <2>. QED  BY <1>1, <2>1, WatchMoves
<1>5. PICK e \in ChatEvents : e = [kind |-> "finished", src |-> 0, at |-> month] /\ e.kind = "finished"
  <2>1. [kind |-> "finished", src |-> 0, at |-> month] \in ChatEvents
    BY <1>1 DEF ChatEvents
  <2>. QED  BY <2>1
<1>6. PICK v \in Pubs : v = Publish(e) /\ v.event = e
  BY PublishIs
<1>7. pub' = [pub EXCEPT !["watcher"] = v]
  BY <1>5, <1>6 DEF FinishTopic
<1>8. /\ pub' \in [Publishers -> Pubs] /\ pub'["turn"].event.kind = "clarify"
      /\ pub'["watcher"] = v
  BY <1>1, <1>6, <1>7, PubMoves DEF Publishers
<1>9. RelayOK' /\ (Clean' => Clean)
  BY <1>1, <1>2, <1>4, <1>8 DEF RelayOK, Clean, Faults
<1>10. PipeInv'
  BY <1>1, <1>3, <1>4, TakePipe
<1>11. OneRow'
  BY <1>1 DEF RelayInv, OneRow, EventId
<1>12. \A x : ~InFlight(x)'
  BY <1>5, <1>6, <1>8 DEF InFlight
<1>13. \A x : Logged(x)' <=> Logged(x)
  BY <1>1 DEF Logged
<1>14. \A x : ~InFlight(x)
  BY <1>1, NothingInFlight
<1>15. id \notin Progress
  <2>1. SUFFICES ASSUME id \in Progress
        PROVE  FALSE
    OBVIOUS
  <2>2. PICK r \in events : r.id = id /\ r.kind = "progress"
    BY <2>1, ProgressIds
  <2>3. r = Received
    BY <1>2, <1>3, <2>2 DEF EngineInv, IdsGrow
  <2>. QED  BY <1>1, <2>2, <2>3
<1>16. ASSUME Clean' PROVE InOrder'
  <2>1. SentOrder /\ LastOrder /\ SeenTold /\ LogOrder /\ FlightOrder
    BY <1>9, <1>16 DEF RelayInv, InOrder
  <2>2. \A x : Told(x) => Told(x)'
    BY <1>13, <1>14 DEF Told
  <2>3. \A x \in Progress : x = SentRows[1].id => Told(x)'
    BY <1>2, <1>3, <1>15
  <2>4. SentOrder' /\ LastOrder'
    BY <1>1, <1>2, <2>1, <2>2, <2>3, SentTail
  <2>5. SeenTold'
    BY <1>2, <1>4, <1>15, <2>1, <2>2 DEF SeenTold
  <2>6. LogOrder' /\ FlightOrder'
    BY <1>1, <1>2, <1>12, <2>1, LogStays
  <2>. QED  BY <2>4, <2>5, <2>6 DEF InOrder
<1>. QED  BY <1>9, <1>10, <1>11, <1>16 DEF RelayInv

\* finish_topic fails.
LEMMA FinishFailsKeeps ==
  ASSUME EngineInv, RelayInv, FinishFails
  PROVE  RelayInv'
<1>1. /\ UNCHANGED <<events, log, pub, month>> /\ Receiving /\ Once("faults")
      /\ stream' = [stream EXCEPT !.sent = Tail(@)] /\ RelayOK
  BY DEF FinishFails, engine, calendar, RelayInv
<1>2. stream' \in Streams /\ Received.id \in Nat
  BY <1>1, TakeMoves
<1>3. PICK id \in Nat : id = Received.id
  BY <1>2
<1>4. watch' \in Watches /\ SeenIds' \subseteq SeenIds \cup {id}
  <2>1. watch' = [watch EXCEPT !.seen = Remember(id), !.ended = TRUE]
    BY <1>3 DEF FinishFails
  <2>. QED  BY <1>1, <2>1, WatchMoves
<1>5. count' \in Counts /\ Faults' # 0
  BY <1>1, OnceIs
<1>6. RelayOK' /\ ~Clean'
  BY <1>1, <1>2, <1>4, <1>5 DEF RelayOK, Clean
<1>7. PipeInv'
  BY <1>1, <1>3, <1>4, TakePipe
<1>8. OneRow'
  BY <1>1 DEF RelayInv, OneRow, EventId
<1>. QED  BY <1>6, <1>7, <1>8 DEF RelayInv
-----------------------------------------------------------------------------
(* The watcher's stream *)

\* A stream that is replaced by one with nothing in its batch.
LEMMA StreamReplaced ==
  ASSUME EngineInv, RelayInv, RelayOK', UNCHANGED <<events, pub, log, month>>,
         SeenIds' = SeenIds, Faults' = Faults,
         BatchRows' = <<>>, LastId' = 0, StreamPc' # "send",
         SentRows' = SentRows \/ SentRows' = <<>>
  PROVE  RelayInv'
<1>1. PipeInv /\ SentRows \in Seq(EventRows)
  BY RelayColumns DEF RelayInv
<1>2. PipeInv'
  BY <1>1 DEF PipeInv
<1>3. Progress' = Progress /\ OneRow' /\ (InOrder => LogOrder' /\ FlightOrder')
      /\ \A x : Told(x)' <=> Told(x)
  BY Unpublished
<1>4. ASSUME Clean' PROVE InOrder'
  <2>1. InOrder /\ SentOrder /\ SeenTold
    BY <1>4 DEF RelayInv, InOrder, Clean
  <2>2. SentOrder'
    BY <1>3, <2>1 DEF SentOrder
  <2>3. LastOrder'
    <3>1. \A x \in Progress : ~(x <= 0)
      <4>1. \A x \in Progress : x \in Nat /\ x > 0
        BY ProgressIds DEF EngineInv, IdsGrow
      <4>. QED  BY <4>1
    <3>. QED  BY <1>3, <3>1 DEF LastOrder
  <2>4. SeenTold'
    BY <1>3, <2>1 DEF SeenTold
  <2>. QED  BY <1>3, <2>1, <2>2, <2>3, <2>4 DEF InOrder
<1>. QED  BY <1>2, <1>3, <1>4 DEF RelayInv

\* The streams there are no rows in.
LEMMA ClosedIs ==
  /\ Closed \in Streams /\ Closed.pc = "closed" /\ Closed.last = 0
  /\ Closed.batch = <<>> /\ Closed.sent = <<>>
  /\ Started \in Streams /\ Started.pc = "poll" /\ Started.last = 0
  /\ Started.batch = <<>> /\ Started.sent = <<>>
<1>1. <<>> \in Seq(EventRows)
  OBVIOUS
<1>2. /\ Closed \in Streams /\ Closed.pc = "closed" /\ Closed.last = 0
      /\ Closed.batch = <<>> /\ Closed.sent = <<>>
  BY <1>1 DEF Closed, Streams
<1>. QED  BY <1>1, <1>2 DEF Started, Streams

\* A subscription starts at the first event, and what has been told
\* is skipped, or told again and not stored twice.
LEMMA OpenKeeps ==
  ASSUME EngineInv, RelayInv, OpenStream
  PROVE  RelayInv'
<1>1. UNCHANGED <<events, pub, log, count, month>> /\ RelayOK /\ stream' = Started
      /\ watch' = [watch EXCEPT !.pc = "recv"]
  BY DEF OpenStream, engine, calendar, RelayInv
<1>2. watch' \in Watches /\ watch'.seen = watch.seen
  BY <1>1 DEF RelayOK, Watches
<1>3. RelayOK' /\ SeenIds' = SeenIds /\ Faults' = Faults
  BY <1>1, <1>2, ClosedIs DEF RelayOK, SeenIds, Faults
<1>4. BatchRows' = <<>> /\ LastId' = 0 /\ StreamPc' # "send" /\ SentRows' = <<>>
  BY <1>1, ClosedIs DEF BatchRows, LastId, StreamPc, SentRows
<1>. QED  BY <1>1, <1>3, <1>4, StreamReplaced

\* consume_one_stream returns.
LEMMA StreamEndsKeeps ==
  ASSUME EngineInv, RelayInv, StreamEnds
  PROVE  RelayInv'
<1>1. UNCHANGED <<events, pub, log, count, month>> /\ RelayOK /\ stream' = Closed
  BY DEF StreamEnds, engine, calendar, RelayInv
<1>2. watch' \in Watches /\ watch'.seen = watch.seen
  <2>. DEFINE pc == IF watch.ended \/ topic # "running" THEN "off" ELSE "open"
  <2>1. watch' = [watch EXCEPT !.pc = pc, !.ended = FALSE]
    BY DEF StreamEnds
  <2>2. pc \in {"off", "open"}
    OBVIOUS
  <2>. HIDE DEF pc
  <2>. QED  BY <1>1, <2>1, <2>2 DEF RelayOK, Watches
<1>3. RelayOK' /\ SeenIds' = SeenIds /\ Faults' = Faults
  BY <1>1, <1>2, ClosedIs DEF RelayOK, SeenIds, Faults
<1>4. BatchRows' = <<>> /\ LastId' = 0 /\ StreamPc' # "send" /\ SentRows' = <<>>
  BY <1>1, ClosedIs DEF BatchRows, LastId, StreamPc, SentRows
<1>. QED  BY <1>1, <1>3, <1>4, StreamReplaced

\* A stream that is cut leaves the watcher what is in the channel.
LEMMA CutKeeps ==
  ASSUME EngineInv, RelayInv, StreamCut
  PROVE  RelayInv'
<1>1. /\ UNCHANGED <<events, watch, pub, log, month>> /\ RelayOK /\ Once("cuts")
      /\ stream' = [Closed EXCEPT !.sent = SentRows]
  BY DEF StreamCut, engine, chat, calendar, RelayInv, SentRows
<1>2. SentRows \in Seq(EventRows)
  BY <1>1, RelayColumns
<1>3. PICK s \in Streams :
        stream' = s /\ s.pc = "closed" /\ s.last = 0 /\ s.batch = <<>> /\ s.sent = SentRows
  <2>. DEFINE s == [Closed EXCEPT !.sent = SentRows]
  <2>1. s \in Streams /\ s.pc = "closed" /\ s.last = 0 /\ s.batch = <<>> /\ s.sent = SentRows
    BY <1>2, ClosedIs DEF Streams
  <2>. HIDE DEF s
  <2>. QED  BY <1>1, <2>1 DEF s
<1>4. count' \in Counts /\ Faults' = Faults
  BY <1>1, OnceIs
<1>5. RelayOK' /\ SeenIds' = SeenIds
  BY <1>1, <1>3, <1>4 DEF RelayOK, SeenIds
<1>6. BatchRows' = <<>> /\ LastId' = 0 /\ StreamPc' # "send" /\ SentRows' = SentRows
  BY <1>3 DEF BatchRows, LastId, StreamPc, SentRows
<1>. QED  BY <1>1, <1>4, <1>5, <1>6, StreamReplaced

\* A watcher with nothing behind it.
LEMMA FreshIs ==
  /\ watch' = [NewWatch EXCEPT !.pc = IF topic = "running" THEN "open" ELSE "off"]
     => watch' \in Watches /\ watch'.seen = <<>>
  /\ NewWatch \in Watches /\ NewWatch.seen = <<>>
<1>1. NewWatch \in Watches /\ NewWatch.seen = <<>>
  <2>1. <<>> \in Seq(Nat)
    OBVIOUS
  <2>. QED  BY <2>1 DEF NewWatch, Watches
<1>. DEFINE pc == IF topic = "running" THEN "open" ELSE "off"
<1>2. pc \in {"open", "off"}
  OBVIOUS
<1>. HIDE DEF pc
<1>3. ASSUME watch' = [NewWatch EXCEPT !.pc = pc]
      PROVE  watch' \in Watches /\ watch'.seen = <<>>
  BY <1>1, <1>2, <1>3 DEF Watches
<1>. QED  BY <1>1, <1>3 DEF pc

\* A process that is restarted knows the log, and reads the events again.
LEMMA RestartKeeps ==
  ASSUME EngineInv, RelayInv, Restart
  PROVE  RelayInv'
<1>1. /\ UNCHANGED <<events, log, month>> /\ RelayOK /\ Once("restarts") /\ PipeInv
      /\ stream' = Closed /\ pub' = [p \in DOMAIN pub |-> NoPub]
      /\ watch' = [NewWatch EXCEPT !.pc = IF topic = "running" THEN "open" ELSE "off"]
  BY DEF Restart, engine, calendar, RelayInv
<1>2. watch' \in Watches /\ SeenIds' = {}
  <2>1. watch' \in Watches /\ watch'.seen = <<>>
    BY <1>1, FreshIs
  <2>. QED  BY <2>1 DEF SeenIds, ToSet
<1>3. DOMAIN pub = Publishers
  BY <1>1 DEF RelayOK
<1>4. pub' \in [Publishers -> Pubs] /\ \A p \in Publishers : pub'[p] = NoPub
  BY <1>1, <1>3, NoPubIs
<1>5. count' \in Counts /\ Faults' = Faults
  BY <1>1, OnceIs
<1>6. RelayOK' /\ (Clean' => Clean)
  BY <1>1, <1>2, <1>4, <1>5, ClosedIs, NoPubIs DEF RelayOK, Publishers, Clean
<1>7. BatchRows' = <<>> /\ LastId' = 0 /\ StreamPc' = "closed" /\ SentRows' = <<>>
  BY <1>1, ClosedIs DEF BatchRows, LastId, StreamPc, SentRows
<1>8. PipeInv'
  BY <1>2, <1>7 DEF PipeInv
<1>9. OneRow'
  BY <1>1 DEF RelayInv, OneRow, EventId
<1>10. \A x : ~InFlight(x)'
  BY <1>4, NoPubIs DEF InFlight, Publishers
<1>11. ASSUME Clean' PROVE InOrder'
  <2>1. LogOrder /\ FlightOrder
    BY <1>6, <1>11 DEF RelayInv, InOrder
  <2>2. Progress' = Progress
    BY <1>1 DEF Progress
  <2>3. LogOrder' /\ FlightOrder'
    BY <1>1, <1>10, <2>1, <2>2, LogStays
  <2>4. SentOrder' /\ LastOrder' /\ SeenTold'
    BY <1>2, <1>7 DEF SentOrder, LastOrder, SeenTold
  <2>. QED  BY <2>3, <2>4 DEF InOrder
<1>. QED  BY <1>6, <1>8, <1>9, <1>11 DEF RelayInv

\* Nothing has happened yet.
LEMMA RelayStarts ==
  ASSUME Init
  PROVE  EngineInv /\ RelayInv
<1>1. /\ writer = [w \in Writers |-> IdleWriter] /\ events = {} /\ steps = 0 /\ nextId = 1
      /\ stream = Closed /\ watch = NewWatch /\ log = <<>> /\ month = 0
      /\ pub = [p \in Publishers |-> NoPub]
      /\ count = [cuts |-> 0, restarts |-> 0, faults |-> 0, clarify |-> 0, opened |-> 0]
  BY DEF Init, Publishers
<1>2. WritersOK
  BY <1>1, IdleIs DEF WritersOK
<1>3. \A w \in Writers : WriterPc(w) = "idle"
  BY <1>1, IdleIs DEF WriterPc
<1>4. OneCommits /\ IdsGrow
  BY <1>1, <1>3 DEF OneCommits, IdsGrow
<1>5. RelayOK
  <2>1. count \in Counts
    BY <1>1 DEF Counts
  <2>2. pub \in [Publishers -> Pubs] /\ pub["turn"].event.kind = "clarify"
    BY <1>1, NoPubIs DEF Publishers
  <2>3. log \in Seq(ChatEvents)
    BY <1>1
  <2>. QED  BY <1>1, <2>1, <2>2, <2>3, ClosedIs, FreshIs DEF RelayOK
<1>6. BatchRows = <<>> /\ LastId = 0 /\ StreamPc = "closed" /\ SentRows = <<>> /\ SeenIds = {}
  BY <1>1, ClosedIs, FreshIs DEF BatchRows, LastId, StreamPc, SentRows, SeenIds, ToSet
<1>7. PipeInv
  BY <1>6 DEF PipeInv
<1>8. \A x : ~InFlight(x)
  BY <1>1, NoPubIs DEF InFlight, Publishers
<1>9. InOrder
  BY <1>1, <1>6, <1>8 DEF InOrder, SentOrder, LastOrder, SeenTold, LogOrder, FlightOrder
<1>10. OneRow
  BY <1>1 DEF OneRow
<1>. QED  BY <1>2, <1>4, <1>5, <1>7, <1>9, <1>10 DEF EngineInv, RelayInv

\* Every step keeps both.
LEMMA RelayStep ==
  ASSUME EngineInv, RelayInv, [Next]_vars
  PROVE  EngineInv' /\ RelayInv'
<1>0. RelayOK /\ DOMAIN pub = Publishers /\ month \in Nat
  BY DEF RelayInv, RelayOK, EngineInv, WritersOK
<1>1. CASE \E w \in Writers : Commit(w)
  BY <1>1, CommitKeeps, CommitRelays
<1>2. CASE Stream
  <2>1. EngineInv'
    BY <1>0, <1>2, EngineStays DEF Stream, Poll, Woken, SendRow, calendar
  <2>. QED  BY <1>2, <2>1, PollKeeps, WokenKeeps, SendKeeps DEF Stream
<1>3. CASE Watch
  <2>1. EngineInv'
    BY <1>0, <1>3, EngineStays
       DEF Watch, OpenStream, SkipSeen, RelayProgress, FinishTopic, StreamEnds, calendar
  <2>. QED  BY <1>3, <2>1, OpenKeeps, SkipKeeps, RelayProgressKeeps, FinishKeeps, StreamEndsKeeps DEF Watch
<1>4. CASE FinishFails
  <2>1. EngineInv'
    BY <1>0, <1>4, EngineStays DEF FinishFails, calendar
  <2>. QED  BY <1>4, <2>1, FinishFailsKeeps
<1>5. CASE StreamCut
  <2>1. EngineInv'
    BY <1>0, <1>5, EngineStays DEF StreamCut, calendar
  <2>. QED  BY <1>5, <2>1, CutKeeps
<1>6. CASE Restart
  <2>1. EngineInv'
    BY <1>0, <1>6, EngineStays DEF Restart, calendar
  <2>. QED  BY <1>6, <2>1, RestartKeeps
<1>7. CASE \E p \in DOMAIN pub : Publishing(p) \/ StoreFails(p)
  <2>1. PICK p \in Publishers : TellLiveSubscribers(p) \/ StoreEvents(p) \/ StoreFails(p)
    BY <1>0, <1>7 DEF Publishing
  <2>2. EngineInv'
    BY <1>0, <2>1, EngineStays DEF TellLiveSubscribers, StoreEvents, StoreFails, calendar
  <2>. QED  BY <2>1, <2>2, TellKeeps, StoreKeeps, StoreFailsKeeps
<1>8. CASE Clarify
  <2>1. EngineInv'
    BY <1>0, <1>8, EngineStays DEF Clarify, calendar
  <2>. QED  BY <1>8, <2>1, ClarifyKeeps
<1>9. CASE Browser
  <2>1. EngineInv'
    BY <1>0, <1>9, EngineStays DEF Browser, Subscribe, Replay, Deliver, calendar
  <2>. QED  BY <1>9, <2>1, BrowserKeeps
<1>10. CASE Maintain
  <2>1. EngineInv'
    BY <1>0, <1>10, EngineStays DEF Maintain
  <2>. QED  BY <1>10, <2>1, MaintainKeeps
<1>11. CASE NextMonth
  <2>1. EngineInv'
    BY <1>0, <1>11, EngineStays DEF NextMonth
  <2>. QED  BY <1>11, <2>1, NextMonthKeeps
<1>12. CASE UNCHANGED vars
  <2>1. UNCHANGED <<events, stream, watch, pub, log, count, month>> /\ UNCHANGED engine
    BY <1>12 DEF vars, engine
  <2>2. RelayOK' /\ (Clean' => Clean)
    BY <1>0, <2>1 DEF RelayOK, Clean, Faults
  <2>. QED  BY <1>0, <2>1, <2>2, EngineStays, SameFlight, QuietKeeps
<1>. QED  BY <1>1, <1>2, <1>3, <1>4, <1>5, <1>6, <1>7, <1>8, <1>9, <1>10, <1>11, <1>12 DEF Next

\* What the invariants say of the three claims of StreamSkipsNothing.
LEMMA RelayImplies ==
  ASSUME EngineInv, RelayInv
  PROVE  StreamSkipsNothing
<1>1. \A r \in events : r.id < stream.last =>
        \A w \in Writers : writer[w].pc = "commit" => \A h \in ToSet(writer[w].held) : h.id > r.id
  <2>1. ASSUME NEW r \in events, NEW w \in Writers, WriterPc(w) = "commit", NEW h \in ToSet(Held(w))
        PROVE  h.id > r.id
    <3>1. PICK held \in Seq(EventRows) : held = Held(w)
      BY WriterColumns DEF EngineInv
    <3>2. PICK i \in DOMAIN held : h = held[i]
      BY <2>1, <3>1 DEF ToSet
    <3>3. r.id < held[i].id
      BY <2>1, <3>1 DEF EngineInv, IdsGrow
    <3>4. r.id \in Nat /\ held[i].id \in Nat
      <4>1. held[i] \in EventRows /\ r \in EventRows
        BY <3>2 DEF EngineInv, WritersOK
      <4>. QED  BY <4>1 DEF EventRows
    <3>. QED  BY <3>2, <3>3, <3>4
  <2>. QED  BY <2>1 DEF WriterPc, Held
<1>2. count.faults = 0 /\ month <= Retention =>
        \A i \in DOMAIN log : log[i].kind = "progress" =>
          /\ \E r \in events : r.kind = "progress" /\ r.id = log[i].src
          /\ \A r \in events : r.kind = "progress" /\ r.id < log[i].src => LoggedBefore(r.id, i)
  <2>1. SUFFICES ASSUME Clean
        PROVE  \A i \in DOMAIN log : log[i].kind = "progress" =>
                 /\ \E r \in events : r.kind = "progress" /\ r.id = log[i].src
                 /\ \A r \in events : r.kind = "progress" /\ r.id < log[i].src => LoggedBefore(r.id, i)
    BY DEF Clean, Faults
  <2>2. LogOrder
    BY <2>1 DEF RelayInv, InOrder
  <2>3. /\ \A x \in Progress : \E r \in events : r.kind = "progress" /\ r.id = x
        /\ \A r \in events : r.kind = "progress" => r.id \in Progress
    BY DEF Progress
  <2>. QED  BY <2>2, <2>3 DEF LogOrder
<1>3. \A i, j \in 1..Len(log) :
        i # j /\ EventId(log[i]) = EventId(log[j]) => log[i].at # log[j].at
  <2>1. DOMAIN log = 1..Len(log)
    BY DEF RelayInv, RelayOK
  <2>. QED  BY <2>1 DEF RelayInv, OneRow
<1>. QED  BY <1>1, <1>2, <1>3 DEF StreamSkipsNothing

\* Nothing is skipped or reordered between engine.execution_events and chat.events, whatever
\* is cut, restarted, forgotten or replayed.
THEOREM NothingIsSkipped == RelaySpec => []StreamSkipsNothing
<1>1. Init => EngineInv /\ RelayInv
  BY RelayStarts
<1>2. EngineInv /\ RelayInv /\ [Next]_vars => EngineInv' /\ RelayInv'
  BY RelayStep
<1>3. EngineInv /\ RelayInv => StreamSkipsNothing
  BY RelayImplies
<1>. QED  BY <1>1, <1>2, <1>3, PTL DEF RelaySpec
-----------------------------------------------------------------------------
(* What only the log has *)

Tabs == [pc : {"off", "subscribed", "live"}, queue : Seq(ChatEvents),
         got : SUBSET {EventId(e) : e \in ChatEvents}, lagged : BOOLEAN]

TabPc     == tab.pc
Lagged    == tab.lagged
QueuedIds == {EventId(tab.queue[k]) : k \in DOMAIN tab.queue}

\* The clarifications of the log.
Clarified == {EventId(log[i]) : i \in {j \in DOMAIN log : log[j].kind = "clarify"}}

\* A publication is on its way to the live subscribers.
ToBeTold(x) == \E p \in Publishers : pub[p].pc = "live" /\ EventId(pub[p].event) = x

TabInv ==
  /\ tab \in Tabs
  /\ TabPc = "live" /\ ~Lagged =>
       \A x \in Clarified : x \in tab.got \/ x \in QueuedIds \/ ToBeTold(x)

\* The subscription stays, and so does all that was to be told or is in the log.
LEMMA TabStays ==
  ASSUME TabInv, tab' = tab, \A x : ToBeTold(x) => ToBeTold(x)',
         \A x \in Clarified' : x \in Clarified \/ ToBeTold(x)'
  PROVE  TabInv'
<1>1. TabPc' = TabPc /\ Lagged' = Lagged /\ QueuedIds' = QueuedIds /\ tab' \in Tabs
      /\ tab'.got = tab.got
  BY DEF TabInv, TabPc, Lagged, QueuedIds, EventId
<1>. QED  BY <1>1 DEF TabInv

\* A publication that is replaced was not on its way to them.
LEMMA ToldStays ==
  ASSUME RelayOK, NEW p \in Publishers, pub[p].pc # "live",
         \A q \in Publishers : q # p => pub'[q] = pub[q]
  PROVE  \A x : ToBeTold(x) => ToBeTold(x)'
  BY DEF ToBeTold, EventId

\* The log stays, or shrinks.
LEMMA ClarifiedStays ==
  ASSUME \A i \in DOMAIN log' : \E j \in DOMAIN log : log'[i] = log[j]
  PROVE  Clarified' \subseteq Clarified
  BY DEF Clarified, EventId

\* Steps that leave the log and the subscription alone, and replace a publication that is not live.
LEMMA QuietForTabs ==
  ASSUME RelayOK, TabInv, UNCHANGED <<tab, log>>,
         \/ pub' = pub
         \/ \E p \in Publishers : \E v : pub' = [pub EXCEPT ![p] = v] /\ pub[p].pc # "live"
  PROVE  TabInv'
<1>1. Clarified' \subseteq Clarified
  BY ClarifiedStays
<1>2. \A x : ToBeTold(x) => ToBeTold(x)'
  <2>1. CASE pub' = pub
    BY <2>1 DEF ToBeTold, EventId
  <2>2. CASE \E p \in Publishers : \E v : pub' = [pub EXCEPT ![p] = v] /\ pub[p].pc # "live"
    <3>1. PICK p \in Publishers : (\E v : pub' = [pub EXCEPT ![p] = v]) /\ pub[p].pc # "live"
      BY <2>2
    <3>2. PICK v : pub' = [pub EXCEPT ![p] = v]
      BY <3>1
    <3>3. \A q \in Publishers : q # p => pub'[q] = pub[q]
      BY <3>2 DEF RelayOK
    <3>. QED  BY <3>1, <3>3, ToldStays
  <2>. QED  BY <2>1, <2>2
<1>. QED  BY <1>1, <1>2, TabStays

\* store_events: a clarification that is now in the log is still to be told.
LEMMA StoreReaches ==
  ASSUME EngineInv, RelayInv, TabInv, NEW p \in Publishers, StoreEvents(p)
  PROVE  TabInv'
<1>1. /\ RelayOK /\ pub[p].pc = "store" /\ pub' = After(p) /\ tab' = tab /\ month' = month
      /\ log' = Stored(pub[p].event)
  BY DEF StoreEvents, calendar, RelayInv
<1>2. PICK v \in Pubs :
        /\ pub' = [pub EXCEPT ![p] = v]
        /\ pub[p].event.kind = "clarify" => v.pc = "live" /\ v.event = pub[p].event
  BY <1>1, AfterIs
<1>3. pub'[p] = v /\ \A q \in Publishers : q # p => pub'[q] = pub[q]
  BY <1>1, <1>2 DEF RelayOK
<1>4. \A x : ToBeTold(x) => ToBeTold(x)'
  BY <1>1, <1>3, ToldStays
<1>5. PICK e \in ChatEvents : e = pub[p].event
  BY <1>1 DEF RelayOK, Pubs
<1>6. \/ /\ log' = log
         /\ \E i \in DOMAIN log : log[i].kind = e.kind /\ log[i].src = e.src
      \/ \E row \in ChatEvents :
           log' = Append(log, row) /\ row.kind = e.kind /\ row.src = e.src
  BY <1>1, <1>5, StoredIs
<1>7. CASE log' = log
  BY <1>1, <1>4, <1>7, ClarifiedStays, TabStays
<1>8. CASE \E row \in ChatEvents :
             log' = Append(log, row) /\ row.kind = e.kind /\ row.src = e.src
  <2>1. PICK row \in ChatEvents :
          log' = Append(log, row) /\ row.kind = e.kind /\ row.src = e.src
    BY <1>8
  <2>2. PICK l \in Seq(ChatEvents), n \in Nat : l = log /\ Len(l) = n
    BY <1>1 DEF RelayOK
  <2>3. PICK m \in Seq(ChatEvents) : m = Append(l, row)
    <3>1. Append(l, row) \in Seq(ChatEvents)
      BY <2>2
    <3>. QED  BY <3>1
  <2>4. /\ DOMAIN l = 1..n /\ DOMAIN m = 1..(n + 1) /\ m[n + 1] = row
        /\ \A i \in 1..n : m[i] = l[i]
    BY <2>2, <2>3
  <2>5. log' = m
    BY <2>1, <2>2, <2>3
  <2>6. ASSUME NEW x \in Clarified'
        PROVE  x \in Clarified \/ ToBeTold(x)'
    <3>1. PICK i \in 1..(n + 1) : m[i].kind = "clarify" /\ x = <<m[i].kind, m[i].src>>
      BY <2>4, <2>5 DEF Clarified, EventId
    <3>2. CASE i = n + 1
      <4>1. x = <<e.kind, e.src>> /\ e.kind = "clarify"
        BY <2>1, <2>4, <3>1, <3>2
      <4>2. v.pc = "live" /\ v.event = e
        BY <1>2, <1>5, <4>1
      <4>. QED  BY <1>3, <4>1, <4>2 DEF ToBeTold, EventId
    <3>3. CASE i # n + 1
      <4>1. i \in 1..n
        BY <3>3
      <4>. QED  BY <2>2, <2>4, <3>1, <4>1 DEF Clarified, EventId
    <3>. QED  BY <3>2, <3>3
  <2>. QED  BY <1>1, <1>4, <2>6, TabStays
<1>. QED  BY <1>6, <1>7, <1>8

\* broadcast: the event is in the queue of who keeps up.
LEMMA BroadcastIs ==
  ASSUME TabInv, NEW e \in ChatEvents, tab' = Broadcast(e)
  PROVE  /\ tab' \in Tabs
         /\ TabPc' = "live" /\ ~Lagged' =>
              /\ TabPc = "live" /\ ~Lagged /\ tab'.got = tab.got
              /\ QueuedIds \subseteq QueuedIds' /\ EventId(e) \in QueuedIds'
<1>1. tab \in Tabs /\ BusCapacity \in Nat \ {0}
  BY RelayAssumption DEF TabInv
<1>2. CASE TabPc = "off"
  BY <1>1, <1>2 DEF Broadcast, TabPc
<1>3. CASE TabPc # "off" /\ Len(tab.queue) < BusCapacity
  <2>1. PICK q \in Seq(ChatEvents), n \in Nat : q = tab.queue /\ Len(q) = n
    BY <1>1 DEF Tabs
  <2>2. PICK a \in Seq(ChatEvents) : a = Append(q, e)
    <3>1. Append(q, e) \in Seq(ChatEvents)
      OBVIOUS
    <3>. QED  BY <3>1
  <2>3. /\ DOMAIN q = 1..n /\ DOMAIN a = 1..(n + 1) /\ a[n + 1] = e /\ n + 1 \in 1..(n + 1)
        /\ \A k \in 1..n : a[k] = q[k] /\ k \in 1..(n + 1)
    BY <2>1, <2>2
  <2>4. tab' = [tab EXCEPT !.queue = a]
    BY <1>3, <2>1, <2>2 DEF Broadcast, TabPc
  <2>5. /\ tab' \in Tabs /\ tab'.queue = a /\ tab'.got = tab.got /\ tab'.pc = tab.pc
        /\ tab'.lagged = tab.lagged
    BY <1>1, <2>4 DEF Tabs
  <2>6. QueuedIds' = {EventId(a[k]) : k \in DOMAIN a}
    BY <2>5 DEF QueuedIds, EventId
  <2>7. QueuedIds \subseteq QueuedIds' /\ EventId(e) \in QueuedIds'
    BY <2>1, <2>3, <2>6 DEF QueuedIds
  <2>. QED  BY <2>5, <2>7 DEF TabPc, Lagged
<1>4. CASE TabPc # "off" /\ ~(Len(tab.queue) < BusCapacity)
  <2>1. PICK q \in Seq(ChatEvents) : q = tab.queue
    BY <1>1 DEF Tabs
  <2>2. q # <<>>
    BY <1>1, <1>4, <2>1
  <2>3. Tail(q) \in Seq(ChatEvents)
    BY <2>2
  <2>4. PICK a \in Seq(ChatEvents) : a = Append(Tail(q), e)
    <3>1. Append(Tail(q), e) \in Seq(ChatEvents)
      BY <2>3
    <3>. QED  BY <3>1
  <2>5. tab' = [tab EXCEPT !.queue = a, !.lagged = TRUE]
    BY <1>4, <2>1, <2>4 DEF Broadcast, TabPc
  <2>6. tab' \in Tabs /\ tab'.lagged = TRUE
    BY <1>1, <2>5 DEF Tabs
  <2>. QED  BY <2>6 DEF Lagged
<1>. QED  BY <1>2, <1>3, <1>4

\* tell_live_subscribers: what was to be told is in the queue.
LEMMA TellReaches ==
  ASSUME EngineInv, RelayInv, TabInv, NEW p \in Publishers, TellLiveSubscribers(p)
  PROVE  TabInv'
<1>1. /\ RelayOK /\ pub[p].pc = "live" /\ pub' = After(p) /\ log' = log
      /\ tab' = Broadcast(pub[p].event)
  BY DEF TellLiveSubscribers, RelayInv
<1>2. PICK v \in Pubs : pub' = [pub EXCEPT ![p] = v]
  BY <1>1, AfterIs
<1>3. \A q \in Publishers : q # p => pub'[q] = pub[q]
  BY <1>1, <1>2 DEF RelayOK
<1>4. PICK e \in ChatEvents : e = pub[p].event
  BY <1>1 DEF RelayOK, Pubs
<1>5. /\ tab' \in Tabs
      /\ TabPc' = "live" /\ ~Lagged' =>
           /\ TabPc = "live" /\ ~Lagged /\ tab'.got = tab.got
           /\ QueuedIds \subseteq QueuedIds' /\ EventId(e) \in QueuedIds'
  BY <1>1, <1>4, BroadcastIs
<1>6. \A x : ToBeTold(x) => x = EventId(e) \/ ToBeTold(x)'
  BY <1>3, <1>4 DEF ToBeTold, EventId
<1>7. Clarified' = Clarified
  BY <1>1 DEF Clarified, EventId
<1>. QED  BY <1>5, <1>6, <1>7 DEF TabInv

\* subscribe_and_replay and the live tail.
LEMMA BrowserReaches ==
  ASSUME EngineInv, RelayInv, TabInv, Browser
  PROVE  TabInv'
<1>1. /\ UNCHANGED <<log, pub>> /\ tab \in Tabs /\ log \in Seq(ChatEvents)
  BY DEF Browser, Subscribe, Replay, Deliver, chat, TabInv, RelayInv, RelayOK
<1>2. Clarified' = Clarified /\ \A x : ToBeTold(x) => ToBeTold(x)'
  BY <1>1 DEF Clarified, ToBeTold, EventId
<1>3. CASE Subscribe
  <2>1. tab' = [NewTab EXCEPT !.pc = "subscribed"]
    BY <1>3 DEF Subscribe
  <2>2. <<>> \in Seq(ChatEvents)
    OBVIOUS
  <2>3. tab' \in Tabs /\ tab'.pc = "subscribed"
    BY <2>1, <2>2 DEF NewTab, Tabs
  <2>. QED  BY <2>3 DEF TabInv, TabPc
<1>4. CASE Replay
  <2>1. PICK g : g = {EventId(e) : e \in ToSet(log)}
    OBVIOUS
  <2>2. g \subseteq {EventId(e) : e \in ChatEvents} /\ Clarified \subseteq g
    BY <1>1, <2>1 DEF ToSet, Clarified
  <2>3. tab' = [tab EXCEPT !.pc = "live", !.got = g]
    BY <1>4, <2>1 DEF Replay
  <2>4. tab' \in Tabs /\ tab'.got = g
    BY <1>1, <2>2, <2>3 DEF Tabs
  <2>. QED  BY <1>2, <2>2, <2>4 DEF TabInv
<1>5. CASE Deliver
  <2>1. PICK q \in Seq(ChatEvents) : q = tab.queue /\ q # <<>>
    BY <1>1, <1>5 DEF Tabs, Deliver
  <2>2. PICK n \in Nat : Len(q) = n + 1
    <3>1. Len(q) - 1 \in Nat /\ Len(q) = (Len(q) - 1) + 1
      BY <2>1
    <3>. QED  BY <3>1
  <2>3. PICK t \in Seq(ChatEvents) : t = Tail(q)
    <3>1. Tail(q) \in Seq(ChatEvents)
      BY <2>1
    <3>. QED  BY <3>1
  <2>4. /\ DOMAIN q = 1..(n + 1) /\ DOMAIN t = 1..n /\ Head(q) = q[1] /\ q[1] \in ChatEvents
        /\ \A k \in 1..n : t[k] = q[k + 1]
    BY <2>2, <2>3
  <2>5. PICK g : g = tab.got \cup {EventId(q[1])}
    OBVIOUS
  <2>6. g \subseteq {EventId(e) : e \in ChatEvents}
    BY <1>1, <2>4, <2>5 DEF Tabs
  <2>7. tab' = [tab EXCEPT !.queue = t, !.got = g]
    BY <1>5, <2>1, <2>3, <2>4, <2>5 DEF Deliver
  <2>8. /\ tab' \in Tabs /\ tab'.queue = t /\ tab'.got = g /\ tab'.pc = tab.pc
        /\ tab'.lagged = tab.lagged
    BY <1>1, <2>6, <2>7 DEF Tabs
  <2>9. QueuedIds' = {EventId(t[k]) : k \in DOMAIN t}
    BY <2>8 DEF QueuedIds, EventId
  <2>10. ASSUME NEW x \in QueuedIds
         PROVE  x \in g \/ x \in QueuedIds'
    <3>1. PICK k \in 1..(n + 1) : x = EventId(q[k])
      BY <2>1, <2>4 DEF QueuedIds
    <3>2. CASE k = 1
      BY <2>5, <3>1, <3>2
    <3>3. CASE k # 1
      <4>1. k - 1 \in 1..n /\ (k - 1) + 1 = k
        BY <3>3
      <4>2. t[k - 1] = q[k]
        BY <2>4, <4>1
      <4>. QED  BY <2>4, <2>9, <3>1, <4>1, <4>2
    <3>. QED  BY <3>2, <3>3
  <2>11. TabPc' = TabPc /\ Lagged' = Lagged /\ tab.got \subseteq tab'.got
    BY <2>5, <2>8 DEF TabPc, Lagged
  <2>. QED  BY <1>2, <2>8, <2>10, <2>11 DEF TabInv
<1>. QED  BY <1>3, <1>4, <1>5 DEF Browser

\* Every step keeps it.
LEMMA TabStep ==
  ASSUME EngineInv, RelayInv, TabInv, [Next]_vars
  PROVE  TabInv'
<1>0. RelayOK /\ DOMAIN pub = Publishers /\ tab \in Tabs /\ log \in Seq(ChatEvents)
  BY DEF RelayInv, RelayOK, TabInv
<1>1. CASE UNCHANGED <<tab, log, pub>>
  BY <1>0, <1>1, QuietForTabs
<1>2. CASE RelayProgress \/ FinishTopic
  <2>1. UNCHANGED <<tab, log>> /\ pub["watcher"].pc # "live"
    BY <1>2 DEF RelayProgress, FinishTopic, Receiving
  <2>2. \E v : pub' = [pub EXCEPT !["watcher"] = v]
    BY <1>2 DEF RelayProgress, FinishTopic
  <2>. QED  BY <1>0, <2>1, <2>2, QuietForTabs DEF Publishers
<1>3. CASE Restart
  <2>1. tab' = [tab EXCEPT !.pc = "off"]
    BY <1>3 DEF Restart
  <2>2. tab' \in Tabs /\ tab'.pc = "off"
    BY <1>0, <2>1 DEF Tabs
  <2>. QED  BY <2>2 DEF TabInv, TabPc
<1>4. CASE \E p \in DOMAIN pub : Publishing(p) \/ StoreFails(p)
  <2>1. PICK p \in Publishers : TellLiveSubscribers(p) \/ StoreEvents(p) \/ StoreFails(p)
    BY <1>0, <1>4 DEF Publishing
  <2>2. CASE StoreFails(p)
    <3>1. UNCHANGED <<tab, log>> /\ pub[p].pc = "store" /\ pub' = After(p)
      BY <2>2 DEF StoreFails
    <3>2. PICK v \in Pubs : pub' = [pub EXCEPT ![p] = v]
      BY <1>0, <3>1, AfterIs
    <3>3. pub[p].pc # "live"
      BY <3>1
    <3>. QED  BY <1>0, <3>1, <3>2, <3>3, QuietForTabs
  <2>. QED  BY <2>1, <2>2, TellReaches, StoreReaches
<1>5. CASE Clarify
  <2>1. UNCHANGED <<tab, log>> /\ pub["turn"].pc # "live"
    BY <1>5 DEF Clarify
  <2>2. \E v : pub' = [pub EXCEPT !["turn"] = v]
    BY <1>5 DEF Clarify
  <2>. QED  BY <1>0, <2>1, <2>2, QuietForTabs DEF Publishers
<1>6. CASE Browser
  BY <1>6, BrowserReaches
<1>7. CASE Maintain
  <2>1. tab' = tab /\ pub' = pub /\ \E keep : log' = Only(log, keep)
    BY <1>7 DEF Maintain
  <2>2. PICK keep : log' = Only(log, keep)
    BY <2>1
  <2>3. PICK e, m : m = log' /\ m \in Seq(ChatEvents) /\ Embeds(e, m, log, keep, Len(log))
    BY <1>0, <2>2, OnlyIsAFilter
  <2>4. \A i \in DOMAIN m : \E j \in DOMAIN log : m[i] = log[j]
    <3>1. DOMAIN m = 1..Len(m) /\ DOMAIN log = 1..Len(log)
      BY <1>0, <2>3
    <3>2. \A i \in 1..Len(m) : e[i] \in 1..Len(log) /\ m[i] = log[e[i]]
      BY <2>3 DEF Embeds
    <3>. QED  BY <3>1, <3>2
  <2>5. Clarified' \subseteq Clarified
    BY <2>3, <2>4, ClarifiedStays
  <2>6. \A x : ToBeTold(x) => ToBeTold(x)'
    BY <2>1 DEF ToBeTold, EventId
  <2>. QED  BY <2>1, <2>5, <2>6, TabStays
<1>8. ASSUME (\E w \in Writers : Commit(w)) \/ Stream \/ OpenStream \/ SkipSeen \/ StreamEnds
             \/ FinishFails \/ StreamCut \/ NextMonth \/ UNCHANGED vars
      PROVE  UNCHANGED <<tab, log, pub>>
  BY <1>8 DEF Commit, CommitReads, CommitInserts, CommitDuplicate, CommitEnds, CommitRollsBack,
              Stream, Poll, Woken, SendRow, OpenStream, SkipSeen, StreamEnds, FinishFails, StreamCut,
              NextMonth, vars, chat
<1>. QED  BY <1>1, <1>2, <1>3, <1>4, <1>5, <1>6, <1>7, <1>8 DEF Next, Watch

\* What only the log records reaches every open subscription that keeps up, by the replay or
\* by the live tail.
THEOREM ClarificationsArrive == RelaySpec => []OnlyLoggedNeverMissed
<1>1. Init => EngineInv /\ RelayInv /\ TabInv
  <2>1. ASSUME Init PROVE TabInv
    <3>1. <<>> \in Seq(ChatEvents)
      OBVIOUS
    <3>2. tab \in Tabs /\ tab.pc = "off"
      BY <2>1, <3>1 DEF Init, NewTab, Tabs
    <3>. QED  BY <3>2 DEF TabInv, TabPc
  <2>. QED  BY <2>1, RelayStarts
<1>2. EngineInv /\ RelayInv /\ TabInv /\ [Next]_vars => EngineInv' /\ RelayInv' /\ TabInv'
  BY RelayStep, TabStep
<1>3. EngineInv /\ RelayInv /\ TabInv => OnlyLoggedNeverMissed
  <2>1. SUFFICES ASSUME RelayInv, TabInv, TabPc = "live", ~Lagged, NEW e \in ToSet(log), e.kind = "clarify"
        PROVE  \/ EventId(e) \in Reached
               \/ \E p \in DOMAIN pub : pub[p].pc = "live" /\ EventId(pub[p].event) = EventId(e)
    BY DEF OnlyLoggedNeverMissed, OnlyLogged, TabPc, Lagged
  <2>2. PICK i \in DOMAIN log : e = log[i]
    BY <2>1 DEF ToSet, RelayInv, RelayOK
  <2>3. EventId(e) \in Clarified
    BY <2>1, <2>2 DEF Clarified
  <2>4. QueuedIds \subseteq {EventId(f) : f \in ToSet(tab.queue)}
    BY <2>1 DEF QueuedIds, ToSet, TabInv, Tabs
  <2>5. DOMAIN pub = Publishers
    BY <2>1 DEF RelayInv, RelayOK
  <2>. QED  BY <2>1, <2>3, <2>4, <2>5 DEF TabInv, Reached, ToBeTold
<1>. QED  BY <1>1, <1>2, <1>3, PTL DEF RelaySpec
=============================================================================
