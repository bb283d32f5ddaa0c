------------------------------ MODULE ToolRace ------------------------------
(***************************************************************************)
(* What Execute runs: a declarative tool's sources, web_fetch's urls and   *)
(* the prefetch behind web_search pass through ensure_public_url and are   *)
(* raced `width` at a time until `quorum` of them answer; each one follows *)
(* its redirects through get_guarded, one checked hop after the other.     *)
(***************************************************************************)
EXTENDS Naturals, Sequences, SequencesExt, FiniteSets

CONSTANTS
  NOps,           \* how many sources or urls there are
  Hosts,          \* where a url can lead: scheme, host and port
  PublicHosts,    \* addresses that is_private_ip lets pass
  NamedHosts,     \* names, which the resolver answers for anew each time it is asked
  SourceHeaders,  \* the names of the headers each declarative source sends
  MaxHops,        \* MAX_REDIRECT_HOPS
  Choosing        \* ANSWERS_BEFORE_CHOOSING, PREFETCH_TAKE

ASSUME RaceAssumption ==
  /\ NOps \in Nat \ {0} /\ Choosing \in Nat \ {0} /\ MaxHops \in Nat
  /\ SourceHeaders \in [1 .. NOps -> SUBSET STRING]

VARIABLES
  call,      \* the Execute in flight: its kind, its width and quorum, how far it is
  op,        \* per operation: its state, the url asked for, where it is, how many hops
  outcome,   \* race's Outcome: what was taken, in order, and what failed
  checked,   \* (checking only) the checks that let a url pass: operation, hop, host
  sent       \* (checking only) the requests made: operation, hop, host, names of the headers

raceVars == <<call, op, outcome, checked, sent>>

Index == 1..NOps
Running == {i \in Index : op[i].state = "running"}

\* ensure_public_url, on the url of an operation or of a redirect: every address the resolver gives
\* for a name just now is public.  The client asks the resolver again when it connects.
EnsurePublicUrl(host, resolvesToPublic) ==
  host \in PublicHosts \/ (host \in NamedHosts /\ resolvesToPublic)

-----------------------------------------------------------------------------
(* Before the race *)

\* A declarative source by the placeholders of its url and headers, of its pick, and by the
\* secrets it names; what the caller supplied, and which of it holds a path separator.
Source == [fields : SUBSET {"field"}, picked : SUBSET {"field"}, secrets : SUBSET {"key"}]
Input == [given : SUBSET {"field"}, dotted : SUBSET {"field"}]

\* check_source, for every source: only declared fields, only secrets that are set.
ParseSources(sources, declared, environment) ==
  \A i \in Index : /\ sources[i].fields \cup sources[i].picked \subseteq declared
                   /\ sources[i].secrets \subseteq environment

\* prepare: fill refuses a field that is missing, fill_path one that would read deeper.
Prepare(source, input) ==
  /\ source.fields \cup source.picked \subseteq input.given
  /\ source.picked \cap input.dotted = {}

\* checked_limit and checked_urls have let the arguments pass.
Widths(kind) == IF kind = "declarative" THEN 1..NOps ELSE {NOps}
Quorums(kind) == IF kind = "declarative" THEN 1..NOps ELSE {Choosing}

RaceInit ==
  /\ \E kind \in {"declarative", "fetch", "prefetch"} :
       \E width \in Widths(kind), quorum \in Quorums(kind) :
         call = [kind |-> kind, width |-> width, quorum |-> quorum,
                 pc |-> IF kind = "declarative" THEN "parse" ELSE "guard",
                 at |-> 1, ready |-> <<>>, result |-> "none"]
  /\ \E url \in [Index -> Hosts] :
       op = [i \in Index |-> [state |-> "new", url |-> url[i], here |-> url[i], hops |-> 0]]
  /\ outcome = [taken |-> <<>>, failures |-> {}]
  /\ checked = {} /\ sent = {}

\* run_declarative checks the row again: the environment may have changed since it was seeded.
Parse ==
  /\ call.pc = "parse"
  /\ \E sources \in [Index -> Source], declared \in SUBSET {"field"},
        environment \in SUBSET {"key"} :
       call' = IF ParseSources(sources, declared, environment) THEN [call EXCEPT !.pc = "guard"]
               ELSE [call EXCEPT !.pc = "done", !.result = "not_executable"]
  /\ UNCHANGED <<op, outcome, checked, sent>>

Check(i, hop, host) == [op |-> i, hop |-> hop, host |-> host]

\* One url is checked.  prepare may refuse a declarative source before that; web_fetch gives
\* up on the first url that is not public, the others leave it out.
Guard ==
  /\ call.pc = "guard" /\ call.at <= NOps
  /\ \E source \in Source, input \in Input, resolves \in BOOLEAN :
       LET passes == /\ call.kind = "declarative" => Prepare(source, input)
                     /\ EnsurePublicUrl(op[call.at].url, resolves)
           over == call.kind = "fetch" /\ ~passes
       IN /\ call' = [call EXCEPT !.at = @ + 1,
                                  !.ready = IF passes THEN Append(@, call.at) ELSE @,
                                  !.pc = IF over THEN "done" ELSE @,
                                  !.result = IF over THEN "error" ELSE @]
          /\ op' = [op EXCEPT ![call.at].state = IF passes THEN @ ELSE "refused"]
          /\ checked' = IF passes THEN checked \cup {Check(call.at, 0, op[call.at].url)} ELSE checked
  /\ UNCHANGED <<outcome, sent>>

\* HEADERS_BOUND_TO_THEIR_ORIGIN
BoundHeaders == {"authorization", "cookie", "proxy-authorization", "www-authenticate"}

\* A declarative source's own headers; a page is fetched with none.
Headers(i) == IF call.kind = "declarative" THEN SourceHeaders[i] ELSE {}

\* hop_request: away from the origin that was asked for the bound headers are left out, and every
\* other header is sent again.
HopRequest(i, o) == {h \in Headers(i) : o.here = o.url \/ h \notin BoundHeaders}

Request(i, o) == [op |-> i, hop |-> o.hops, host |-> o.here, headers |-> HopRequest(i, o)]

\* attempt: the first request of an operation.
Launched(ops, i) == [ops EXCEPT ![i].state = "running"]

\* The operations the first loop of race starts.
FirstOps == {call.ready[i] : i \in {j \in DOMAIN call.ready : j <= call.width}}

\* race: nothing to race, or the width is filled.
RaceStarts ==
  /\ call.pc = "guard" /\ call.at > NOps
  /\ IF call.ready = <<>>
     THEN /\ call' = [call EXCEPT !.pc = "done",
                          !.result = IF call.kind = "prefetch" THEN "ok" ELSE "error"]
          /\ UNCHANGED <<op, sent>>
     ELSE /\ call' = [call EXCEPT !.pc = "race",
                          !.at = Cardinality(FirstOps) + 1]
          /\ op' = [i \in Index |-> IF i \in FirstOps THEN [op[i] EXCEPT !.state = "running"]
                                    ELSE op[i]]
          /\ sent' = sent \cup {Request(i, op[i]) : i \in FirstOps}
  /\ UNCHANGED <<outcome, checked>>

-----------------------------------------------------------------------------
(* The race *)

\* What Execute answers once the race is over.
Result(taken) == IF taken = <<>> /\ call.kind # "prefetch" THEN "error" ELSE "ok"

\* Mutant: only a success makes room for the next operation.
MoreToStartAfterSuccess(succeeded) == succeeded /\ call.at <= Len(call.ready)

\* A finished operation makes room for the next one.
MoreToStart(succeeded) == call.at <= Len(call.ready)

\* race's loop, after operation i has ended.
Finished(i, succeeded) ==
  LET taken == IF succeeded THEN Append(outcome.taken, i) ELSE outcome.taken
      quorum == succeeded /\ Len(taken) >= call.quorum
      ended == [op EXCEPT ![i].state = IF succeeded THEN "taken" ELSE "failed"]
      more == ~quorum /\ MoreToStart(succeeded)
      over == quorum \/ (~more /\ Running = {i})
  IN
  /\ outcome' = [taken |-> taken,
                 failures |-> IF succeeded THEN outcome.failures ELSE outcome.failures \cup {i}]
  /\ op' = IF quorum
           THEN [j \in Index |-> IF ended[j].state = "running"
                                 THEN [ended[j] EXCEPT !.state = "dropped"] ELSE ended[j]]
           ELSE IF more THEN Launched(ended, call.ready[call.at]) ELSE ended
  /\ sent' = IF more THEN sent \cup {Request(call.ready[call.at], op[call.ready[call.at]])} ELSE sent
  /\ call' = [call EXCEPT !.at = IF more THEN @ + 1 ELSE @,
                          !.pc = IF over THEN "done" ELSE @,
                          !.result = IF over THEN Result(taken) ELSE @]

\* The last hop answers with what was wanted: a page with readable text, a reply that has
\* the picked value.
Succeed(i) == call.pc = "race" /\ i \in Running /\ Finished(i, TRUE) /\ UNCHANGED checked

\* A status, a body, a reply or the timeout of the operation refuses it.
Fail(i) == call.pc = "race" /\ i \in Running /\ Finished(i, FALSE) /\ UNCHANGED checked

\* Mutant: a redirect is followed before it is checked.
RefusedNot(o, passes) == o.hops >= MaxHops

\* get_guarded, for a redirect: not public, or one too many.
Refused(o, passes) == ~passes \/ o.hops >= MaxHops

Redirect(i, host) ==
  /\ call.pc = "race" /\ i \in Running
  /\ \E resolves \in BOOLEAN :
       LET passes == EnsurePublicUrl(host, resolves)
           o == [op[i] EXCEPT !.here = host, !.hops = @ + 1]
       IN /\ checked' = IF passes THEN checked \cup {Check(i, o.hops, host)} ELSE checked
          /\ IF Refused(op[i], passes) THEN Finished(i, FALSE)
             ELSE /\ op' = [op EXCEPT ![i] = o]
                  /\ sent' = sent \cup {Request(i, o)}
                  /\ UNCHANGED <<call, outcome>>

RaceNext ==
  \/ Parse \/ Guard \/ RaceStarts
  \/ \E i \in Index : Succeed(i) \/ Fail(i) \/ \E host \in Hosts : Redirect(i, host)

RaceSpec == RaceInit /\ [][RaceNext]_raceVars

-----------------------------------------------------------------------------
(* Properties *)

\* "so the width stays full" (race.rs): while there is reserve nothing idles, the race stops
\* at the quorum, and one that ends below it has a verdict of every operation that was let in.
RaceAccounts ==
  /\ call.pc = "race" =>
       \/ Cardinality(Running) = call.width
       \/ Cardinality(Running) < call.width /\ call.at > Len(call.ready)
  /\ Len(outcome.taken) <= call.quorum
  /\ call.pc = "done" /\ sent # {} /\ Len(outcome.taken) < call.quorum =>
       ToSet(call.ready) = ToSet(outcome.taken) \cup outcome.failures
  /\ ToSet(outcome.taken) \cap outcome.failures = {}

\* Whatever the chain of redirects and the resolver's answers: every request follows a check of its
\* own that let that url of that hop pass, none is made for an operation that was refused, and a
\* header bound to its origin goes only to the origin asked for.  It says nothing of the address the
\* client then connects to, nor of a secret that an operator put into another header.
RequestsStayGuarded ==
  \A r \in sent :
    /\ Check(r.op, r.hop, r.host) \in checked
    /\ op[r.op].state # "refused"
    /\ r.headers \cap BoundHeaders # {} => r.host = op[r.op].url
=============================================================================
