------------------------------ MODULE Gateway ------------------------------
(***************************************************************************)
(* What the gateway adds to the services behind it: login sessions kept in *)
(* a table with an expiry and swept hourly, and the repeated calls to the  *)
(* crawler.  The store may fail at any call; upstream answers as it likes. *)
(***************************************************************************)
EXTENDS Integers, FiniteSets

CONSTANTS
  Tokens,      \* session tokens, and so the hashes stored for them
  Ttl,         \* GATEWAY_SESSION_TTL_HOURS
  LastHour     \* the clock's bound

ASSUME GatewayAssumption == Ttl \in Nat \ {0} /\ LastHour \in Nat

VARIABLES
  hour,
  stored,      \* [Tokens -> set of at most one expiry]: gateway.sessions
  ends,        \* [Tokens -> when the session it was given for ends, 0 before a login]
  request      \* the request being served: [pc, token, kind, sent, verdict, rightly]

gatewayVars == <<hour, stored, ends, request>>

Attempts == 3   \* CRAWLER_CALL_ATTEMPTS

NoRequest ==
  [pc |-> "none", token |-> "none", kind |-> "page", sent |-> 0, verdict |-> "none",
   rightly |-> TRUE]

GatewayInit ==
  /\ hour = 0
  /\ stored = [t \in Tokens |-> {}] /\ ends = [t \in Tokens |-> 0]
  /\ request = NoRequest

\* app.rs: what lies behind the session check.
Kinds == {"page", "start crawl", "crawler read", "chat"}

\* proxy.rs: calls that are forwarded once, those to the knowledge base with chat's.
SentOnce == {"page", "start crawl", "chat"}

\* auth.rs generate_token: no token is given twice.
Fresh(t) == ends[t] = 0

\* sessions.rs set and delete: the one row of a token's hash.
Keep(t, expiries) == stored' = [stored EXCEPT ![t] = expiries]

\* web.rs login_submit with the right password: a fresh token, stored before the cookie is set.
Login(t) ==
  /\ Fresh(t)
  /\ Keep(t, {hour + Ttl})
  /\ ends' = [ends EXCEPT ![t] = hour + Ttl]
  /\ UNCHANGED <<hour, request>>

\* web.rs logout: the row goes, or the failure is logged and the session lives on without its cookie.
Logout(t) ==
  /\ ends[t] > hour
  /\ Keep(t, {})
  /\ ends' = [ends EXCEPT ![t] = hour]
  /\ UNCHANGED <<hour, request>>

\* A slip in sessions.rs: a row not yet swept is good.
GoodTillSwept(t) == stored[t]

\* sessions.rs get: an expired row is no row.
Good(t) == {e \in stored[t] : e > hour}

\* web.rs require_session: on to the service, to the login, or 503 when the store does not answer.
Arrives(t, kind) ==
  /\ request.pc \in {"none", "answered"}
  /\ \E store \in BOOLEAN :
       request' = [pc |-> IF store /\ Good(t) # {} THEN "calling" ELSE "answered",
                   token |-> t, kind |-> kind, sent |-> 0,
                   verdict |-> IF ~store THEN "unavailable"
                               ELSE IF Good(t) # {} THEN "admitted" ELSE "log in",
                   rightly |-> ends[t] > hour]
  /\ UNCHANGED <<hour, stored, ends>>

\* proxy.rs retry_crawler_call: reads are sent again while the crawler is away; start_crawl and every
\* call to the other services are sent once.
Calls ==
  /\ request.pc = "calling"
  /\ \E answer \in {"ok", "away", "refused"} :
       request' = [request EXCEPT !.sent = @ + 1,
         !.pc = IF answer = "away" /\ request.kind \notin SentOnce /\ request.sent + 1 < Attempts
                THEN "calling" ELSE "answered"]
  /\ UNCHANGED <<hour, stored, ends>>

\* sessions.rs drop_expired.
Dropped(e) == e < hour

Sweep ==
  /\ stored' = [t \in Tokens |-> {e \in stored[t] : ~Dropped(e)}]
  /\ UNCHANGED <<hour, ends, request>>

HourPasses ==
  /\ hour < LastHour /\ hour' = hour + 1
  /\ UNCHANGED <<stored, ends, request>>

GatewayNext ==
  \/ \E t \in Tokens : Login(t) \/ Logout(t)
  \/ \E t \in Tokens, kind \in Kinds : Arrives(t, kind)
  \/ Calls \/ Sweep \/ HourPasses

GatewaySpec == GatewayInit /\ [][GatewayNext]_gatewayVars

\* A request is let through exactly while the session it carries lasts: from the login to the end of
\* its time or the logout, whenever the sweep ran, and a store that fails turns it away without
\* deciding; only a read is ever sent upstream more than once (web.rs, sessions.rs, proxy.rs).
SessionsHonoured ==
  /\ request.verdict = "admitted" => request.rightly
  /\ request.verdict = "log in" => ~request.rightly
  /\ request.sent > 1 => request.kind = "crawler read" /\ request.sent <= Attempts
=============================================================================
