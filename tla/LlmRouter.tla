----------------------------- MODULE LlmRouter -----------------------------
(***************************************************************************)
(* One call of the llm-router from the wire to its audit row: a completion *)
(* tried on a tier's primary model and, when that failure is worth         *)
(* retrying, on its backup; or a decision put once to the one vendor of    *)
(* its class inside what is left of the caller's deadline.  Beside it, the *)
(* maintenance pass that opens the audit tables' months and drops old      *)
(* payloads.  Time is in steps of 100 ms for a decision and in months for  *)
(* the tables.                                                             *)
(***************************************************************************)
EXTENDS LlmContract

CONSTANTS
  Prompts,        \* completion requests
  Decisions,      \* decision requests
  Verdicts,       \* what the decision vendor may put in a readable reply
  Deadlines,      \* how long a decision's caller waits, in steps
  RecordTime,     \* the longest an audit write takes, in steps
  MaxMonths,      \* months that may begin
  MaxFaults       \* audit writes that may fail

ASSUME TimesAssumption ==
  /\ Deadlines \subseteq Nat /\ RecordTime \in Nat /\ MaxMonths \in Nat /\ MaxFaults \in Nat

VARIABLES
  process,   \* "starting" | "up" | "down"
  decides,   \* whether a System One vendor is configured
  call,      \* the call
  now,       \* steps since the call arrived
  logs,      \* statistics rows, oldest first
  open,      \* months the four audit tables have a partition for
  payloads,  \* months the payload tables still hold
  month, maintained, faults

llmVars == <<process, decides, call, now, logs, open, payloads, month, maintained, faults>>

Ceiling == 15

RoomToRecord == 4

OneAttempt == 1

NameColumn == 128

Statuses == {0, 400, 401, 408, 422, 429, 500}

Probes == {0, 200, 401, 429}

CompletionReplies ==
  {[status |-> s, body |-> "none"] : s \in Statuses}
    \cup {[status |-> 200, body |-> b] :
            b \in {"unreadable", "no choices", "choice error", "empty", "only reasoning", "content"}}

DecisionReplies ==
  {[status |-> s, readable |-> FALSE, name |-> 0] : s \in Statuses \cup {200}}
    \cup {[status |-> 200, readable |-> TRUE, name |-> n] : n \in {10, 200}}

\* tiers.rs: the models of a tier, in the order they are tried.
Models == <<"primary", "backup">>

NoCall ==
  [kind |-> "none", pc |-> "idle", asked |-> <<>>, outcomes |-> <<>>, reply |-> "none",
   deadline |-> 0, askedAt |-> 0, dueAt |-> 0, name |-> 0, status |-> 0]

LlmInit ==
  /\ process = "starting" /\ decides = FALSE
  /\ call = NoCall /\ now = 0 /\ logs = <<>>
  /\ open = {} /\ payloads = {} /\ month = 0 /\ maintained = FALSE /\ faults = 0

(***************************************************************************)
(* Starting and the audit tables' months                                   *)
(***************************************************************************)

\* A slip in partition.rs: only the month that has begun is opened.
OpenedThisMonth(m) == {m}

\* partition.rs maintain: this month and the next, for all four tables.
Opened(m) == {m, m + 1}

\* partition.rs maintain: payload months older than the last one.
PastRetention(m) == {p \in payloads : p < m - 1}

\* main.rs required, provider_routing and type_safe_ai: a key that is refused or a missing setting
\* stops startup; a provider that cannot be asked does not.
Configured(completions, systemOne, settings) ==
  settings /\ ~KeyRejected(completions) /\ ~KeyRejected(systemOne)

\* main.rs main: the tables' shape, the settings, the first maintenance, and then requests.
Start ==
  /\ process = "starting"
  /\ \E completions \in Probes, systemOne \in Probes \cup {-1}, settings \in BOOLEAN :
       IF ~Configured(completions, systemOne, settings)
       THEN process' = "down" /\ UNCHANGED <<decides, open, payloads, maintained>>
       ELSE /\ process' = "up" /\ decides' = (systemOne # -1)
            /\ open' = Opened(month) /\ payloads' = Opened(month) /\ maintained' = TRUE
  /\ UNCHANGED <<call, now, logs, month, faults>>

\* main.rs: the hourly pass, in one transaction under the advisory lock.
Maintain ==
  /\ process = "up" /\ ~maintained
  /\ open' = open \cup Opened(month)
  /\ payloads' = (payloads \cup Opened(month)) \ PastRetention(month)
  /\ maintained' = TRUE
  /\ UNCHANGED <<process, decides, call, now, logs, month, faults>>

\* The pass runs hourly, so no month ends without one.
NewMonth ==
  /\ process = "up" /\ maintained /\ month < MaxMonths
  /\ month' = month + 1 /\ maintained' = FALSE
  /\ UNCHANGED <<process, decides, call, now, logs, open, payloads, faults>>

(***************************************************************************)
(* A call                                                                  *)
(***************************************************************************)

Refuse(kind, code) ==
  call' = [NoCall EXCEPT !.kind = kind, !.pc = "done", !.reply = code]

\* service.rs complete: what does not fit the tier is refused before anyone is asked.
Complete(r) ==
  /\ process = "up" /\ call.pc = "idle"
  /\ IF ValidPrompt(r)
     THEN call' = [NoCall EXCEPT !.kind = "complete", !.pc = "asking", !.asked = <<Models[1]>>]
     ELSE Refuse("complete", "invalid_argument")
  /\ UNCHANGED <<process, decides, now, logs, open, payloads, month, maintained, faults>>

\* A slip in system_one: the vendor is given all that is left of the caller's deadline.
VendorTimeNoRoom(left) ==
  LET capped == IF left < Ceiling THEN left ELSE Ceiling
  IN IF capped > OneAttempt THEN capped ELSE OneAttempt

\* system_one within: what is left of the deadline, less the room the audit write needs, under
\* the ceiling, and never nothing.
VendorTime(left) ==
  LET kept == IF left > RoomToRecord THEN left - RoomToRecord ELSE 0
      capped == IF kept < Ceiling THEN kept ELSE Ceiling
  IN IF capped > OneAttempt THEN capped ELSE OneAttempt

\* decisions.rs decide: configured, within the budget, and then to the vendor.
Decide(r, d) ==
  /\ process = "up" /\ call.pc = "idle"
  /\ IF ~decides THEN Refuse("decide", "failed_precondition")
     ELSE IF ~ValidDecision(r) THEN Refuse("decide", "invalid_argument")
     ELSE call' = [NoCall EXCEPT !.kind = "decide", !.pc = "dispatching", !.deadline = d,
                                 !.asked = <<r>>]
  /\ UNCHANGED <<process, decides, now, logs, open, payloads, month, maintained, faults>>

AskVendor ==
  /\ call.pc = "dispatching"
  /\ call' = [call EXCEPT !.pc = "asking", !.askedAt = now,
                          !.dueAt = now + VendorTime(call.deadline - now)]
  /\ UNCHANGED <<process, decides, now, logs, open, payloads, month, maintained, faults>>

CompletionOutcome(reply) ==
  CASE reply.status = 0 -> "retry"
    [] reply.status \notin {0, 200} -> ErrorForStatus(reply.status, FALSE)
    [] reply.status = 200 /\ reply.body = "unreadable" -> "retry"
    [] OTHER -> ReadCompletion(reply.body)

DecisionOutcome(reply, answers) ==
  CASE reply.status = 0 -> "retry"
    [] reply.status \notin {0, 200} -> ErrorForStatus(reply.status, TRUE)
    [] reply.status = 200 /\ ~reply.readable -> "retry"
    [] OTHER -> ReadVerdict(answers, call.asked[1].questions)

\* A slip in router.rs: any failure is worth the backup.
GoesToBackupAlways(outcome) == outcome # "ok"

\* router.rs: only a failure another vendor might not share.
GoesToBackup(outcome) == outcome = "retry"

\* router.rs complete: the primary's failure may be worth the backup (after a pause), whose
\* answer is final either way.
CompletionReply(reply) ==
  LET outcome == CompletionOutcome(reply)
      again == GoesToBackup(outcome) /\ Len(call.asked) = 1
  IN /\ call.kind = "complete" /\ call.pc = "asking"
     /\ call' = [call EXCEPT !.outcomes = Append(@, outcome), !.status = reply.status,
                             !.asked = IF again THEN Append(@, Models[2]) ELSE @,
                             !.pc = IF again THEN "asking" ELSE "recording", !.name = 20]
     /\ UNCHANGED <<process, decides, now, logs, open, payloads, month, maintained, faults>>

\* system_one decide: one attempt, its reply held against the questions asked.  The model named in
\* the row is the vendor's own word for a verdict and the configured one otherwise.
DecisionReply(reply, answers) ==
  LET outcome == DecisionOutcome(reply, answers)
  IN /\ call.kind = "decide" /\ call.pc = "asking"
     /\ reply.status = 0 => now = call.dueAt
     /\ call' = [call EXCEPT !.outcomes = Append(@, outcome), !.status = reply.status,
                             !.pc = "recording", !.dueAt = now + RecordTime,
                             !.name = IF outcome = "ok" THEN reply.name ELSE 10]
     /\ UNCHANGED <<process, decides, now, logs, open, payloads, month, maintained, faults>>

\* service.rs and decisions.rs: what the caller is told.  Only a decision's body is the caller's.
Reported ==
  CASE Last(call.outcomes) = "ok" -> "ok"
    [] Last(call.outcomes) = "retry" -> "unavailable"
    [] Last(call.outcomes) = "refused" -> IF call.kind = "decide" THEN "invalid_argument"
                                          ELSE "internal"
    [] Last(call.outcomes) = "final" -> "internal"

\* audit/mod.rs bounded_model_name: a name is cut to the column.
StoredName(n) == IF n > NameColumn THEN NameColumn ELSE n

\* log.rs: statistics and payload in one transaction, so both rows or neither; a write that fails
\* is logged and the caller answered all the same.
Record ==
  /\ call.pc = "recording"
  /\ call' = [call EXCEPT !.pc = "done", !.reply = Reported]
  /\ \/ /\ month \in open /\ month \in payloads /\ StoredName(call.name) <= NameColumn
        /\ logs' = Append(logs, [outcome |-> IF Last(call.outcomes) = "ok" THEN "answered"
                                             ELSE "failed",
                                 model |-> Last(call.asked), backup |-> Len(call.asked) > 1,
                                 month |-> month])
        /\ UNCHANGED faults
     \/ /\ month \notin open \/ month \notin payloads \/ StoredName(call.name) > NameColumn
        /\ UNCHANGED <<logs, faults>>
     \/ faults < MaxFaults /\ faults' = faults + 1 /\ UNCHANGED logs
  /\ UNCHANGED <<process, decides, now, open, payloads, month, maintained>>

\* The server drops a decision at its caller's deadline, whatever it awaits; a tie may go either way.
Drop ==
  /\ call.kind = "decide" /\ call.pc \in {"dispatching", "asking", "recording"}
  /\ now >= call.deadline
  /\ call' = [call EXCEPT !.pc = "dropped"]
  /\ UNCHANGED <<process, decides, now, logs, open, payloads, month, maintained, faults>>

\* A completion's caller may go away at any await.
CallerGone ==
  /\ call.kind = "complete" /\ call.pc \in {"asking", "recording"}
  /\ call' = [call EXCEPT !.pc = "dropped"]
  /\ UNCHANGED <<process, decides, now, logs, open, payloads, month, maintained, faults>>

\* 100 ms pass: not beyond the deadline, nor beyond what the call's own timer allows.
Tick ==
  /\ call.kind = "decide" /\ call.pc \in {"dispatching", "asking", "recording"}
  /\ now < call.deadline
  /\ call.pc # "dispatching" => now < call.dueAt
  /\ now' = now + 1
  /\ UNCHANGED <<process, decides, call, logs, open, payloads, month, maintained, faults>>

LlmNext ==
  \/ Start \/ Maintain \/ NewMonth
  \/ \E r \in Prompts : Complete(r)
  \/ \E r \in Decisions, d \in Deadlines : Decide(r, d)
  \/ AskVendor
  \/ \E reply \in CompletionReplies : CompletionReply(reply)
  \/ \E reply \in DecisionReplies, answers \in Verdicts : DecisionReply(reply, answers)
  \/ Record \/ Drop \/ CallerGone \/ Tick

LlmSpec == LlmInit /\ [][LlmNext]_llmVars

(***************************************************************************)
(* Properties                                                              *)
(***************************************************************************)

\* Every call that was answered and that reached a provider has exactly one audit row, about the
\* model asked last and what came of it, unless its write failed; one refused locally cost nothing
\* and has none (service.rs and decisions.rs record).  The payload of a row outlives the month after
\* it (partition.rs maintain).
EveryCallAudited ==
  /\ call.pc = "done" =>
       IF call.outcomes = <<>> THEN logs = <<>> /\ call.reply \in {"invalid_argument", "failed_precondition"}
       ELSE \/ faults > 0
            \/ /\ Len(logs) = 1
               /\ logs[1].model = Last(call.asked)
               /\ logs[1].backup = (Len(call.outcomes) > 1)
               /\ (logs[1].outcome = "answered") = (call.reply = "ok")
  /\ \A i \in 1 .. Len(logs) : month <= logs[i].month + 1 => logs[i].month \in payloads

\* A decision put to the vendor is recorded before its caller's deadline drops it, whenever the
\* caller left room for the shortest attempt and the record (system_one within).
RecordedBeforeTheDeadline ==
  call.pc = "dropped" /\ call.kind = "decide" /\ call.outcomes # <<>> =>
    call.deadline < call.askedAt + OneAttempt + RoomToRecord

\* A caller is told its request is at fault only for its own words: refused here unsent, or
\* refused by the decision vendor for its body.  A second model is asked, and the caller told to try
\* again, only when the failure before was one another try might not meet.
BlameIsTheCallers ==
  /\ call.pc = "done" /\ call.reply = "invalid_argument" =>
       call.outcomes = <<>> \/ (call.kind = "decide" /\ call.status \in BodyShaped)
  /\ \A i \in 1 .. Len(call.outcomes) - 1 : call.outcomes[i] = "retry"
  /\ call.pc = "done" /\ call.reply = "unavailable" => call.status = 0 \/ Retryable(call.status) \/ call.status = 200
=============================================================================
