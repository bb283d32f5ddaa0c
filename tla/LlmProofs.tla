----------------------------- MODULE LlmProofs -----------------------------
(***************************************************************************)
(* Proofs about a call of the llm-router: what its caller is told, the     *)
(* audit row it leaves and the time a decision keeps for that row, for any *)
(* requests, replies, deadlines and any number of months and failed        *)
(* writes.                                                                 *)
(***************************************************************************)
EXTENDS LlmRouter, TLAPS

Steps == {"idle", "dispatching", "asking", "recording", "done", "dropped"}
Outcomes == {"ok", "retry", "refused", "final"}
Replies == {"none", "ok", "unavailable", "invalid_argument", "failed_precondition", "internal"}
Askable == {"primary", "backup"} \cup Decisions
AuditRow == [outcome : {"answered", "failed"}, model : Askable, backup : BOOLEAN, month : Nat]

Call ==
  [kind : {"none", "complete", "decide"}, pc : Steps, asked : Seq(Askable), outcomes : Seq(Outcomes),
   reply : Replies, deadline : Nat, askedAt : Nat, dueAt : Nat, name : Nat, status : Nat]

\* The call, its clock and the tables, well formed.
LlmTypeOK ==
  /\ process \in {"starting", "up", "down"} /\ decides \in BOOLEAN
  /\ call \in Call /\ now \in Nat /\ logs \in Seq(AuditRow)
  /\ open \subseteq Nat /\ payloads \subseteq Nat /\ month \in Nat /\ maintained \in BOOLEAN
  /\ faults \in Nat

\* The parts of the call, by name.
IsA(k) == call.kind = k
Step(p) == call.pc = p
Asked == call.asked
Told == call.outcomes
Answer == call.reply
Until == call.deadline
SentAt == call.askedAt
Due == call.dueAt
Label == call.name
Status == call.status
MonthOf(i) == logs[i].month

\* The month that runs has its partitions, and the next one too once the pass has run.
TablesReady ==
  /\ process = "up" => month \in open /\ month \in payloads
  /\ process = "up" /\ maintained => month + 1 \in open /\ month + 1 \in payloads
  /\ process # "up" => Step("idle")

\* There is no row before the call is answered, and a payload outlives the month after it.
RowsComeLast ==
  /\ Step("done") \/ logs = <<>>
  /\ \A i \in 1 .. Len(logs) : MonthOf(i) <= month /\ (month <= MonthOf(i) + 1 => MonthOf(i) \in payloads)

\* An outcome for every model asked but the one still being asked.
OutcomesFollowAsking ==
  /\ Step("asking") /\ IsA("complete") =>
       Len(Asked) = Len(Told) + 1 /\ \A i \in 1 .. Len(Told) : Told[i] = "retry"
  /\ IsA("decide") /\ (Step("dispatching") \/ Step("asking")) => Told = <<>> /\ Len(Asked) = 1
  /\ Step("dispatching") => IsA("decide")
  /\ Step("recording") => Len(Told) = Len(Asked) /\ Len(Told) > 0
  /\ \A i \in 1 .. Len(Told) - 1 : Told[i] = "retry"

\* What the last outcome says of the vendor's status.
LastIsTheStatus ==
  Step("recording") =>
    /\ Last(Told) = "refused" => IsA("decide") /\ Status \in BodyShaped
    /\ Last(Told) = "retry" => Status = 0 \/ Retryable(Status) \/ Status = 200

\* What has come of an answered call.
AnsweredAsRecorded ==
  Step("done") =>
    /\ Told = <<>> => logs = <<>> /\ Answer \in {"invalid_argument", "failed_precondition"}
    /\ Told # <<>> => \/ faults > 0
                      \/ /\ Len(logs) = 1
                         /\ logs[1].model = Last(Asked)
                         /\ logs[1].backup = (Len(Told) > 1)
                         /\ (logs[1].outcome = "answered") = (Answer = "ok")
    /\ Told # <<>> /\ Answer = "invalid_argument" => IsA("decide") /\ Status \in BodyShaped
    /\ Answer = "unavailable" => Status = 0 \/ Retryable(Status) \/ Status = 200

LlmInv ==
  /\ LlmTypeOK /\ TablesReady /\ RowsComeLast /\ OutcomesFollowAsking /\ LastIsTheStatus
  /\ AnsweredAsRecorded

\* A decision whose caller left room for an attempt and the record is due that much earlier.
DueInTime ==
  /\ LlmTypeOK
  /\ IsA("decide") /\ (Step("dispatching") \/ Step("asking")) => Told = <<>>
  /\ IsA("decide") /\ Until >= SentAt + OneAttempt + RoomToRecord =>
       /\ Step("asking") => now <= Due /\ Due + RoomToRecord <= Until
       /\ Step("recording") => now <= Due /\ Due + RoomToRecord <= Until + RecordTime
  /\ RecordedBeforeTheDeadline

-----------------------------------------------------------------------------
(* What the steps do to the call *)

\* The types of the parts.
LEMMA CallTypes ==
  ASSUME LlmTypeOK
  PROVE  /\ Asked \in Seq(Askable) /\ Told \in Seq(Outcomes) /\ Answer \in Replies
         /\ Until \in Nat /\ SentAt \in Nat /\ Due \in Nat /\ Label \in Nat /\ Status \in Nat
         /\ Len(Asked) \in Nat /\ Len(Told) \in Nat
<1>1. Asked \in Seq(Askable) /\ Told \in Seq(Outcomes)
  BY DEF LlmTypeOK, Call, Asked, Told
<1>2. Answer \in Replies
  BY DEF LlmTypeOK, Call, Answer
<1>3. Until \in Nat /\ SentAt \in Nat /\ Due \in Nat /\ Label \in Nat /\ Status \in Nat
  BY DEF LlmTypeOK, Call, Until, SentAt, Due, Label, Status
<1> QED
  BY <1>1, <1>2, <1>3

\* A call refused before anyone is asked.
LEMMA RefuseMoves ==
  ASSUME NEW kind \in {"complete", "decide"}, NEW code \in {"invalid_argument", "failed_precondition"},
         Refuse(kind, code)
  PROVE  /\ call' \in Call /\ Step("done")' /\ Told' = <<>> /\ Answer' = code
         /\ \A p \in Steps : Step(p)' => p = "done"
<1>1. call' = [kind |-> kind, pc |-> "done", asked |-> <<>>, outcomes |-> <<>>, reply |-> code,
               deadline |-> 0, askedAt |-> 0, dueAt |-> 0, name |-> 0, status |-> 0]
  BY DEF Refuse, NoCall
<1> QED
  BY <1>1 DEF Call, Steps, Replies, Step, Told, Answer

\* A completion is refused at once or asks one vendor.
LEMMA CompleteMoves ==
  ASSUME NEW r, Complete(r)
  PROVE  /\ process = "up" /\ Step("idle") /\ call' \in Call
         /\ UNCHANGED <<process, decides, now, logs, open, payloads, month, maintained, faults>>
         /\ \/ /\ IsA("complete")' /\ ~IsA("decide")' /\ Step("asking")' /\ Told' = <<>> /\ Len(Asked') = 1
               /\ \A p \in Steps : Step(p)' => p = "asking"
            \/ /\ Step("done")' /\ Told' = <<>> /\ Answer' = "invalid_argument"
               /\ \A p \in Steps : Step(p)' => p = "done"
<1>1. /\ process = "up" /\ Step("idle")
      /\ UNCHANGED <<process, decides, now, logs, open, payloads, month, maintained, faults>>
  BY DEF Complete, Step
<1>2. CASE Refuse("complete", "invalid_argument")
  BY <1>1, <1>2, RefuseMoves
<1>3. CASE call' = [NoCall EXCEPT !.kind = "complete", !.pc = "asking", !.asked = <<Models[1]>>]
  <2>1. call' = [kind |-> "complete", pc |-> "asking", asked |-> <<"primary">>, outcomes |-> <<>>,
                 reply |-> "none", deadline |-> 0, askedAt |-> 0, dueAt |-> 0, name |-> 0, status |-> 0]
    BY <1>3 DEF NoCall, Models
  <2>2. <<"primary">> \in Seq(Askable) /\ Len(<<"primary">>) = 1
    BY DEF Askable
  <2>3. call' \in Call
    BY <2>1, <2>2 DEF Call, Steps, Replies
  <2>4. /\ IsA("complete")' /\ ~IsA("decide")' /\ Step("asking")' /\ Told' = <<>> /\ Len(Asked') = 1
        /\ \A p \in Steps : Step(p)' => p = "asking"
    BY <2>1, <2>2 DEF Steps, Step, IsA, Told, Asked
  <2> QED
    BY <1>1, <2>3, <2>4
<1> QED
  BY <1>2, <1>3 DEF Complete

\* A decision is refused at once or is handed to its task.
LEMMA DecideMoves ==
  ASSUME NEW r \in Decisions, NEW d \in Deadlines, Decide(r, d)
  PROVE  /\ process = "up" /\ Step("idle") /\ call' \in Call
         /\ UNCHANGED <<process, decides, now, logs, open, payloads, month, maintained, faults>>
         /\ \/ /\ IsA("decide")' /\ ~IsA("complete")' /\ Step("dispatching")' /\ Told' = <<>>
               /\ Len(Asked') = 1 /\ \A p \in Steps : Step(p)' => p = "dispatching"
            \/ /\ Step("done")' /\ Told' = <<>> /\ Answer' \in {"invalid_argument", "failed_precondition"}
               /\ \A p \in Steps : Step(p)' => p = "done"
<1>1. /\ process = "up" /\ Step("idle")
      /\ UNCHANGED <<process, decides, now, logs, open, payloads, month, maintained, faults>>
  BY DEF Decide, Step
<1>2. CASE Refuse("decide", "invalid_argument") \/ Refuse("decide", "failed_precondition")
  BY <1>1, <1>2, RefuseMoves
<1>3. CASE call' = [NoCall EXCEPT !.kind = "decide", !.pc = "dispatching", !.deadline = d,
                                  !.asked = <<r>>]
  <2>1. call' = [kind |-> "decide", pc |-> "dispatching", asked |-> <<r>>, outcomes |-> <<>>,
                 reply |-> "none", deadline |-> d, askedAt |-> 0, dueAt |-> 0, name |-> 0, status |-> 0]
    BY <1>3 DEF NoCall
  <2>2. <<r>> \in Seq(Askable) /\ Len(<<r>>) = 1 /\ d \in Nat
    BY TimesAssumption DEF Askable
  <2>3. call' \in Call
    BY <2>1, <2>2 DEF Call, Steps, Replies
  <2>4. /\ IsA("decide")' /\ ~IsA("complete")' /\ Step("dispatching")' /\ Told' = <<>> /\ Len(Asked') = 1
        /\ \A p \in Steps : Step(p)' => p = "dispatching"
    BY <2>1, <2>2 DEF Steps, Step, IsA, Told, Asked
  <2> QED
    BY <1>1, <2>3, <2>4
<1> QED
  BY <1>2, <1>3 DEF Decide

\* How long the vendor is given.
LEMMA VendorTimeBounds ==
  ASSUME NEW left \in Int
  PROVE  /\ VendorTime(left) \in Nat
         /\ left >= OneAttempt + RoomToRecord => VendorTime(left) + RoomToRecord <= left
  BY DEF VendorTime, OneAttempt, RoomToRecord, Ceiling

\* A sequence that grew by one.
LEMMA Grown ==
  ASSUME NEW S, NEW s \in Seq(S), NEW x \in S
  PROVE  /\ Append(s, x) \in Seq(S) /\ Len(Append(s, x)) = Len(s) + 1 /\ Len(s) \in Nat
         /\ Append(s, x) # <<>> /\ Last(Append(s, x)) = x
         /\ \A i \in 1 .. Len(s) : Append(s, x)[i] = s[i]
  BY DEF Last

\* The task asks with what is left of the deadline.
LEMMA AskVendorMoves ==
  ASSUME LlmTypeOK, AskVendor
  PROVE  /\ Step("dispatching") /\ call' \in Call
         /\ UNCHANGED <<process, decides, now, logs, open, payloads, month, maintained, faults>>
         /\ Asked' = Asked /\ Told' = Told /\ Until' = Until /\ SentAt' = now
         /\ Due' = now + VendorTime(Until - now)
         /\ \A x \in Steps : Step(x)' <=> x = "asking"
         /\ \A k \in {"none", "complete", "decide"} : IsA(k)' <=> IsA(k)
<1>1. /\ Step("dispatching") /\ call \in Call /\ now \in Nat
      /\ UNCHANGED <<process, decides, now, logs, open, payloads, month, maintained, faults>>
  BY DEF AskVendor, Step, LlmTypeOK
<1>2. PICK e \in Nat : e = now + VendorTime(Until - now)
  <2>1. PICK left \in Int : left = Until - now
    BY <1>1, CallTypes
  <2>2. VendorTime(left) \in Nat
    BY VendorTimeBounds
  <2> QED
    BY <1>1, <2>1, <2>2
<1>3. call' = [call EXCEPT !.pc = "asking", !.askedAt = now, !.dueAt = e]
  BY <1>2 DEF AskVendor, Until
<1>4. call' \in Call
  BY <1>1, <1>3 DEF Call, Steps
<1>5. Asked' = Asked /\ Told' = Told
  BY <1>1, <1>3 DEF Call, Asked, Told
<1>6. Until' = Until /\ SentAt' = now /\ Due' = e
  BY <1>1, <1>3 DEF Call, Until, SentAt, Due
<1>7. /\ \A x \in Steps : Step(x)' <=> x = "asking"
      /\ \A k \in {"none", "complete", "decide"} : IsA(k)' <=> IsA(k)
  BY <1>1, <1>3 DEF Call, Step, IsA
<1> QED
  BY <1>1, <1>2, <1>4, <1>5, <1>6, <1>7

\* What a provider's reply comes to.
LEMMA CompletionOutcomes ==
  ASSUME NEW reply \in CompletionReplies
  PROVE  /\ CompletionOutcome(reply) \in {"ok", "retry", "final"} /\ reply.status \in Nat
         /\ CompletionOutcome(reply) = "retry" =>
              reply.status = 0 \/ Retryable(reply.status) \/ reply.status = 200
<1> DEFINE Bodies == {"unreadable", "no choices", "choice error", "empty", "only reasoning", "content"}
<1>1. reply.status \in Statuses \/ (reply.status = 200 /\ reply.body \in Bodies)
  <2>1. CASE reply \in {[status |-> s, body |-> "none"] : s \in Statuses}
    <3>1. PICK s \in Statuses : reply = [status |-> s, body |-> "none"]
      BY <2>1
    <3> QED
      BY <3>1
  <2>2. CASE reply \in {[status |-> 200, body |-> b] : b \in Bodies}
    <3>1. PICK b \in Bodies : reply = [status |-> 200, body |-> b]
      BY <2>2
    <3> QED
      BY <3>1
  <2> QED
    BY <2>1, <2>2 DEF CompletionReplies
<1>2. (reply.status = 200 => reply.body \in Bodies) /\ reply.status \in Nat
  <2> HIDE DEF Bodies
  <2> QED
    BY <1>1 DEF Statuses
<1>3. reply.status \in Nat
  BY <1>2
<1>4. CASE reply.status = 0
  BY <1>3, <1>4 DEF CompletionOutcome
<1>5. CASE reply.status \notin {0, 200}
  <2>1. CompletionOutcome(reply) = ErrorForStatus(reply.status, FALSE)
    BY <1>5 DEF CompletionOutcome
  <2>2. ErrorForStatus(reply.status, FALSE) = IF Retryable(reply.status) THEN "retry" ELSE "final"
    BY DEF ErrorForStatus
  <2> QED
    BY <1>3, <2>1, <2>2
<1>6. CASE reply.status = 200
  <2>1. CASE reply.body = "unreadable"
    BY <1>3, <1>6, <2>1 DEF CompletionOutcome
  <2>2. CASE reply.body # "unreadable"
    <3>1. CompletionOutcome(reply) = ReadCompletion(reply.body)
      BY <1>6, <2>2 DEF CompletionOutcome
    <3>2. PICK b \in Bodies : b = reply.body /\ b # "unreadable"
      BY <1>2, <1>6, <2>2
    <3>3. ReadCompletion(b) \in {"ok", "retry", "final"}
      BY <3>2 DEF ReadCompletion
    <3> QED
      BY <1>3, <1>6, <3>1, <3>2, <3>3
  <2> QED
    BY <2>1, <2>2
<1> QED
  BY <1>4, <1>5, <1>6

\* What a reply to a decision may lead to.
LEMMA DecisionOutcomes ==
  ASSUME NEW reply \in DecisionReplies, NEW answers
  PROVE  /\ DecisionOutcome(reply, answers) \in Outcomes /\ reply.status \in Nat /\ reply.name \in Nat
         /\ DecisionOutcome(reply, answers) = "retry" =>
              reply.status = 0 \/ Retryable(reply.status) \/ reply.status = 200
         /\ DecisionOutcome(reply, answers) = "refused" => reply.status \in BodyShaped
<1>1. reply.status \in Statuses \cup {200} /\ reply.readable \in BOOLEAN /\ reply.name \in Nat
  <2>1. CASE reply \in {[status |-> s, readable |-> FALSE, name |-> 0] : s \in Statuses \cup {200}}
    <3>1. PICK s \in Statuses \cup {200} : reply = [status |-> s, readable |-> FALSE, name |-> 0]
      BY <2>1
    <3> QED
      BY <3>1
  <2>2. CASE reply \in {[status |-> 200, readable |-> TRUE, name |-> n] : n \in {10, 200}}
    <3>1. PICK n \in {10, 200} : reply = [status |-> 200, readable |-> TRUE, name |-> n]
      BY <2>2
    <3> QED
      BY <3>1
  <2> QED
    BY <2>1, <2>2 DEF DecisionReplies
<1>2. reply.status \in Nat
  BY <1>1 DEF Statuses
<1>3. CASE reply.status = 0
  BY <1>1, <1>2, <1>3 DEF DecisionOutcome, Outcomes
<1>4. CASE reply.status \notin {0, 200}
  <2>1. DecisionOutcome(reply, answers) = ErrorForStatus(reply.status, TRUE)
    BY <1>4 DEF DecisionOutcome
  <2>2. ErrorForStatus(reply.status, TRUE) =
          IF Retryable(reply.status) THEN "retry"
          ELSE IF reply.status \in BodyShaped THEN "refused" ELSE "final"
    BY DEF ErrorForStatus
  <2> QED
    BY <1>1, <1>2, <2>1, <2>2 DEF Outcomes
<1>5. CASE reply.status = 200
  <2>1. ReadVerdict(answers, call.asked[1].questions) \in {"retry", "ok", "final"}
    BY DEF ReadVerdict
  <2>2. \/ DecisionOutcome(reply, answers) = "retry"
        \/ DecisionOutcome(reply, answers) = ReadVerdict(answers, call.asked[1].questions)
    BY <1>5 DEF DecisionOutcome
  <2> QED
    BY <1>1, <1>2, <1>5, <2>1, <2>2 DEF Outcomes
<1> QED
  BY <1>3, <1>4, <1>5

\* The reply to a completion: it goes on to the backup, or to its record.
LEMMA CompletionReplyMoves ==
  ASSUME LlmTypeOK, NEW reply \in CompletionReplies, CompletionReply(reply)
  PROVE  /\ Step("asking") /\ IsA("complete") /\ call' \in Call
         /\ UNCHANGED <<process, decides, now, logs, open, payloads, month, maintained, faults>>
         /\ \A k \in {"none", "complete", "decide"} : IsA(k)' <=> IsA(k)
         /\ \E o \in {"ok", "retry", "final"} :
              /\ Told' = Append(Told, o)
              /\ o = "retry" => Status' = 0 \/ Retryable(Status') \/ Status' = 200
              /\ \/ /\ o = "retry" /\ Len(Asked) = 1 /\ Len(Asked') = Len(Asked) + 1
                    /\ \A x \in Steps : Step(x)' <=> x = "asking"
                 \/ /\ Asked' = Asked
                    /\ \A x \in Steps : Step(x)' <=> x = "recording"
<1>1. /\ Step("asking") /\ IsA("complete") /\ call \in Call
      /\ UNCHANGED <<process, decides, now, logs, open, payloads, month, maintained, faults>>
  BY DEF CompletionReply, Step, IsA, LlmTypeOK
<1>2. Asked \in Seq(Askable) /\ Told \in Seq(Outcomes)
  BY CallTypes
<1>3. PICK o \in {"ok", "retry", "final"}, t \in Nat : o = CompletionOutcome(reply) /\ t = reply.status
  BY CompletionOutcomes
<1>4. o = "retry" => t = 0 \/ Retryable(t) \/ t = 200
  BY <1>3, CompletionOutcomes
<1> DEFINE again == o = "retry" /\ Len(Asked) = 1
<1>5. PICK q \in Seq(Askable), w \in Seq(Outcomes), p \in {"asking", "recording"} :
        /\ q = (IF again THEN Append(Asked, "backup") ELSE Asked) /\ w = Append(Told, o)
        /\ p = IF again THEN "asking" ELSE "recording"
  <2>1. Append(Asked, "backup") \in Seq(Askable) /\ Append(Told, o) \in Seq(Outcomes)
    BY <1>2 DEF Askable, Outcomes
  <2> QED
    BY <1>2, <2>1
<1>6. call' = [call EXCEPT !.outcomes = w, !.status = t, !.asked = q, !.pc = p, !.name = 20]
  BY <1>3, <1>5 DEF CompletionReply, GoesToBackup, Asked, Told, Models
<1> HIDE DEF again
<1>7. call' \in Call
  BY <1>1, <1>6 DEF Call, Steps
<1>8. Asked' = q /\ Told' = w
  BY <1>1, <1>6 DEF Call, Asked, Told
<1>9. Status' = t
  BY <1>1, <1>6 DEF Call, Status
<1>10. /\ \A x \in Steps : Step(x)' <=> x = p
       /\ \A k \in {"none", "complete", "decide"} : IsA(k)' <=> IsA(k)
  BY <1>1, <1>6 DEF Call, Step, IsA
<1>11. CASE again
  <2>1. q = Append(Asked, "backup") /\ p = "asking" /\ "backup" \in Askable /\ o = "retry" /\ Len(Asked) = 1
    BY <1>5, <1>11 DEF again, Askable
  <2>2. Len(q) = Len(Asked) + 1
    BY <1>2, <2>1, Grown
  <2>3. w = Append(Told, o)
    BY <1>5
  <2> QED
    BY <1>1, <1>4, <1>7, <1>8, <1>9, <1>10, <2>1, <2>2, <2>3
<1>12. CASE ~again
  BY <1>1, <1>4, <1>5, <1>7, <1>8, <1>9, <1>10, <1>12
<1> QED
  BY <1>11, <1>12

\* The reply to a decision.
LEMMA DecisionReplyMoves ==
  ASSUME LlmTypeOK, NEW reply \in DecisionReplies, NEW answers, DecisionReply(reply, answers)
  PROVE  /\ Step("asking") /\ IsA("decide") /\ call' \in Call
         /\ UNCHANGED <<process, decides, now, logs, open, payloads, month, maintained, faults>>
         /\ \A k \in {"none", "complete", "decide"} : IsA(k)' <=> IsA(k)
         /\ \A x \in Steps : Step(x)' <=> x = "recording"
         /\ Asked' = Asked /\ Until' = Until /\ SentAt' = SentAt /\ Due' = now + RecordTime
         /\ \E o \in Outcomes :
              /\ Told' = Append(Told, o)
              /\ o = "retry" => Status' = 0 \/ Retryable(Status') \/ Status' = 200
              /\ o = "refused" => Status' \in BodyShaped
<1>1. /\ Step("asking") /\ IsA("decide") /\ call \in Call /\ now \in Nat
      /\ UNCHANGED <<process, decides, now, logs, open, payloads, month, maintained, faults>>
  BY DEF DecisionReply, Step, IsA, LlmTypeOK
<1>2. Told \in Seq(Outcomes)
  BY CallTypes
<1>3. PICK o \in Outcomes, t \in Nat : o = DecisionOutcome(reply, answers) /\ t = reply.status
  BY DecisionOutcomes
<1>4. (o = "retry" => t = 0 \/ Retryable(t) \/ t = 200) /\ (o = "refused" => t \in BodyShaped)
  BY <1>3, DecisionOutcomes
<1>5. PICK w \in Seq(Outcomes), e \in Nat, n \in Nat :
        w = Append(Told, o) /\ e = now + RecordTime /\ n = IF o = "ok" THEN reply.name ELSE 10
  <2>1. Append(Told, o) \in Seq(Outcomes)
    BY <1>2
  <2>2. now + RecordTime \in Nat
    BY <1>1, TimesAssumption
  <2>3. (IF o = "ok" THEN reply.name ELSE 10) \in Nat
    BY DecisionOutcomes
  <2> QED
    BY <2>1, <2>2, <2>3
<1>6. call' = [call EXCEPT !.outcomes = w, !.status = t, !.pc = "recording", !.dueAt = e, !.name = n]
  BY <1>3, <1>5 DEF DecisionReply, Told
<1>7. call' \in Call
  BY <1>1, <1>6 DEF Call, Steps
<1>8. Asked' = Asked /\ Told' = w
  BY <1>1, <1>6 DEF Call, Asked, Told
<1>9. Status' = t /\ Until' = Until /\ SentAt' = SentAt /\ Due' = e
  BY <1>1, <1>6 DEF Call, Status, Until, SentAt, Due
<1>10. /\ \A x \in Steps : Step(x)' <=> x = "recording"
       /\ \A k \in {"none", "complete", "decide"} : IsA(k)' <=> IsA(k)
  BY <1>1, <1>6 DEF Call, Step, IsA
<1> QED
  BY <1>1, <1>4, <1>5, <1>7, <1>8, <1>9, <1>10

\* A call that ends: everything but its step and its reply stays.
LEMMA EndMoves ==
  ASSUME LlmTypeOK, NEW p \in Steps, NEW a \in Replies, call' = [call EXCEPT !.pc = p, !.reply = a]
  PROVE  /\ call' \in Call /\ Asked' = Asked /\ Told' = Told /\ Answer' = a /\ Until' = Until
         /\ SentAt' = SentAt /\ Due' = Due /\ Status' = Status
         /\ \A x \in Steps : Step(x)' <=> x = p
         /\ \A k \in {"none", "complete", "decide"} : IsA(k)' <=> IsA(k)
<1>0. call \in Call
  BY DEF LlmTypeOK
<1>1. call' \in Call
  BY <1>0 DEF Call
<1>2. Asked' = Asked /\ Told' = Told
  BY <1>0 DEF Call, Asked, Told
<1>3. Answer' = a /\ \A x \in Steps : Step(x)' <=> x = p
  BY <1>0 DEF Call, Answer, Step
<1>4. Until' = Until /\ SentAt' = SentAt /\ Due' = Due /\ Status' = Status
  BY <1>0 DEF Call, Until, SentAt, Due, Status
<1>5. \A k \in {"none", "complete", "decide"} : IsA(k)' <=> IsA(k)
  BY <1>0 DEF Call, IsA
<1> QED
  BY <1>1, <1>2, <1>3, <1>4, <1>5

\* A call that is dropped, with when that may be.
LEMMA DroppedMoves ==
  ASSUME LlmTypeOK, Drop \/ CallerGone
  PROVE  /\ call' \in Call
         /\ Step("dispatching") \/ Step("asking") \/ Step("recording")
         /\ UNCHANGED <<process, decides, now, logs, open, payloads, month, maintained, faults>>
         /\ Asked' = Asked /\ Told' = Told /\ Until' = Until /\ SentAt' = SentAt
         /\ \A x \in Steps : Step(x)' <=> x = "dropped"
         /\ \A k \in {"none", "complete", "decide"} : IsA(k)' <=> IsA(k)
         /\ IsA("decide") => now >= Until
<1>1. call \in Call /\ Answer \in Replies
  BY CallTypes DEF LlmTypeOK
<1>2. /\ call' = [call EXCEPT !.pc = "dropped"]
      /\ Step("dispatching") \/ Step("asking") \/ Step("recording")
      /\ UNCHANGED <<process, decides, now, logs, open, payloads, month, maintained, faults>>
  BY DEF Drop, CallerGone, Step
<1>3. IsA("decide") => now >= Until
  BY DEF Drop, CallerGone, IsA, Until
<1>4. call' \in Call
  BY <1>1, <1>2 DEF Call, Steps
<1>5. Asked' = Asked /\ Told' = Told
  BY <1>1, <1>2 DEF Call, Asked, Told
<1>6. Until' = Until /\ SentAt' = SentAt
  BY <1>1, <1>2 DEF Call, Until, SentAt
<1>7. /\ \A x \in Steps : Step(x)' <=> x = "dropped"
      /\ \A k \in {"none", "complete", "decide"} : IsA(k)' <=> IsA(k)
  BY <1>1, <1>2 DEF Call, Step, IsA
<1> QED
  BY <1>2, <1>3, <1>4, <1>5, <1>6, <1>7

\* What the caller is told says what the last outcome was.
LEMMA ReportedIs ==
  ASSUME Last(Told) \in Outcomes
  PROVE  /\ Reported \in Replies
         /\ Reported = "ok" <=> Last(Told) = "ok"
         /\ Reported = "invalid_argument" => Last(Told) = "refused"
         /\ Reported = "unavailable" => Last(Told) = "retry"
<1>1. PICK o \in Outcomes : o = Last(call.outcomes)
  BY DEF Told
<1>2. Reported = CASE o = "ok" -> "ok"
                   [] o = "retry" -> "unavailable"
                   [] o = "refused" -> IF call.kind = "decide" THEN "invalid_argument" ELSE "internal"
                   [] o = "final" -> "internal"
  BY <1>1 DEF Reported
<1> QED
  BY <1>1, <1>2 DEF Outcomes, Replies, Told

\* The answer, with its audit row or without.
LEMMA RecordMoves ==
  ASSUME LlmInv, Record
  PROVE  /\ Step("recording") /\ call' \in Call /\ Asked' = Asked /\ Told' = Told /\ Status' = Status
         /\ Until' = Until /\ SentAt' = SentAt
         /\ UNCHANGED <<process, decides, now, open, payloads, month, maintained>>
         /\ \A x \in Steps : Step(x)' <=> x = "done"
         /\ \A k \in {"none", "complete", "decide"} : IsA(k)' <=> IsA(k)
         /\ Last(Told) \in Outcomes /\ Told # <<>>
         /\ Answer' = "ok" <=> Last(Told) = "ok"
         /\ Answer' = "invalid_argument" => Last(Told) = "refused"
         /\ Answer' = "unavailable" => Last(Told) = "retry"
         /\ \/ /\ month \in payloads /\ faults' = faults
               /\ logs' = Append(logs, [outcome |-> IF Last(Told) = "ok" THEN "answered" ELSE "failed",
                                        model |-> Last(Asked), backup |-> Len(Asked) > 1,
                                        month |-> month])
            \/ faults' = faults + 1 /\ logs' = logs
<1>1. LlmTypeOK /\ TablesReady /\ OutcomesFollowAsking
  BY DEF LlmInv
<1>2. Step("recording") /\ UNCHANGED <<process, decides, now, open, payloads, month, maintained>>
  BY DEF Record, Step
<1>3. Told \in Seq(Outcomes) /\ Len(Told) > 0 /\ Len(Asked) = Len(Told)
  BY <1>1, <1>2, CallTypes DEF OutcomesFollowAsking
<1>4. Last(Told) \in Outcomes /\ Told # <<>>
  BY <1>3 DEF Last
<1>5. PICK a \in Replies : a = Reported
  BY <1>4, ReportedIs
<1>6. call' = [call EXCEPT !.pc = "done", !.reply = a]
  BY <1>5 DEF Record
<1>7. /\ call' \in Call /\ Asked' = Asked /\ Told' = Told /\ Answer' = a /\ Until' = Until
      /\ SentAt' = SentAt /\ Status' = Status
      /\ \A x \in Steps : Step(x)' <=> x = "done"
      /\ \A k \in {"none", "complete", "decide"} : IsA(k)' <=> IsA(k)
  BY <1>1, <1>6, EndMoves DEF Steps
<1>8. /\ a = "ok" <=> Last(Told) = "ok"
      /\ a = "invalid_argument" => Last(Told) = "refused"
      /\ a = "unavailable" => Last(Told) = "retry"
  BY <1>4, <1>5, ReportedIs
<1>9. month \in open /\ month \in payloads
  <2>1. process = "up"
    BY <1>1, <1>2 DEF TablesReady, Step
  <2> QED
    BY <1>1, <2>1 DEF TablesReady
<1>10. StoredName(call.name) <= NameColumn
  BY <1>1, CallTypes DEF StoredName, NameColumn, Label
<1>11. ~(month \notin open \/ month \notin payloads \/ StoredName(call.name) > NameColumn)
  <2>1. StoredName(call.name) \in Int /\ NameColumn \in Int
    BY <1>1, CallTypes DEF StoredName, NameColumn, Label
  <2> QED
    BY <1>9, <1>10, <2>1
<1>12. \/ /\ logs' = Append(logs, [outcome |-> IF Last(Told) = "ok" THEN "answered" ELSE "failed",
                                  model |-> Last(Asked), backup |-> Len(Asked) > 1, month |-> month])
          /\ faults' = faults
       \/ faults' = faults + 1 /\ logs' = logs
  BY <1>11 DEF Record, Told, Asked
<1> QED
  BY <1>2, <1>4, <1>7, <1>8, <1>9, <1>12

-----------------------------------------------------------------------------
(* The invariant of the call and the tables *)

\* At first nothing runs, nothing is open and there is no call.
LEMMA LlmInvInit == LlmInit => LlmInv
<1> SUFFICES ASSUME LlmInit PROVE LlmInv
  OBVIOUS
<1>1. /\ process = "starting" /\ decides = FALSE /\ now = 0 /\ logs = <<>> /\ open = {} /\ payloads = {}
      /\ month = 0 /\ maintained = FALSE /\ faults = 0
      /\ call = [kind |-> "none", pc |-> "idle", asked |-> <<>>, outcomes |-> <<>>, reply |-> "none",
                 deadline |-> 0, askedAt |-> 0, dueAt |-> 0, name |-> 0, status |-> 0]
  BY DEF LlmInit, NoCall
<1>2. call \in Call
  BY <1>1 DEF Call, Steps, Replies
<1>3. Told = <<>> /\ Step("idle") /\ ~Step("asking") /\ ~Step("dispatching") /\ ~Step("recording")
      /\ ~Step("done")
  BY <1>1 DEF Told, Step
<1>4. LlmTypeOK
  <2>1. logs \in Seq(AuditRow)
    BY <1>1
  <2> QED
    BY <1>1, <1>2, <2>1 DEF LlmTypeOK
<1>5. Len(Told) = 0 /\ Len(logs) = 0
  BY <1>1, <1>3
<1> QED
  BY <1>1, <1>3, <1>4, <1>5
  DEF LlmInv, TablesReady, RowsComeLast, OutcomesFollowAsking, LastIsTheStatus, AnsweredAsRecorded

\* The start, the pass, the month and the clock leave the call alone.
LEMMA TablesKeep ==
  ASSUME LlmInv, Start \/ Maintain \/ NewMonth \/ Tick
  PROVE  LlmInv'
<1>1. LlmTypeOK /\ TablesReady /\ RowsComeLast
  BY DEF LlmInv
<1>2. /\ call' = call /\ logs' = logs /\ faults' = faults
      /\ month' \in {month, month + 1} /\ now' \in {now, now + 1}
  BY DEF Start, Maintain, NewMonth, Tick
<1>3. month \in Nat /\ month + 1 \in Nat /\ now + 1 \in Nat
  BY <1>1 DEF LlmTypeOK
<1>4. LlmTypeOK'
  <2>1. CASE Start
    BY <1>1, <1>3, <2>1 DEF Start, LlmTypeOK, Opened
  <2>2. CASE Maintain
    BY <1>1, <1>3, <2>2 DEF Maintain, LlmTypeOK, Opened, PastRetention
  <2>3. CASE NewMonth
    BY <1>1, <1>3, <2>3 DEF NewMonth, LlmTypeOK
  <2>4. CASE Tick
    BY <1>1, <1>3, <2>4 DEF Tick, LlmTypeOK
  <2> QED
    BY <2>1, <2>2, <2>3, <2>4
<1>5. TablesReady'
  <2>0. Step("idle")' <=> Step("idle")
    BY <1>2 DEF Step
  <2>1. CASE Start
    <3>1. Step("idle")
      BY <1>1, <2>1 DEF Start, TablesReady
    <3> QED
      BY <1>3, <2>0, <2>1, <3>1 DEF Start, TablesReady, Opened
  <2>2. CASE Maintain
    BY <1>3, <2>2 DEF Maintain, TablesReady, Opened, PastRetention
  <2>3. CASE NewMonth
    BY <1>1, <1>3, <2>3 DEF NewMonth, TablesReady
  <2>4. CASE Tick
    BY <1>1, <2>0, <2>4 DEF Tick, TablesReady
  <2> QED
    BY <2>1, <2>2, <2>3, <2>4
<1>6. /\ \A p : Step(p)' <=> Step(p)
      /\ \A k : IsA(k)' <=> IsA(k)
      /\ Told' = Told /\ Asked' = Asked /\ Answer' = Answer /\ Status' = Status
      /\ \A i : MonthOf(i)' = MonthOf(i)
  BY <1>2 DEF Step, IsA, Told, Asked, Answer, Status, MonthOf
<1>7. RowsComeLast'
  <2>1. Step("done") \/ logs = <<>>
    BY <1>1 DEF RowsComeLast
  <2>2. ASSUME NEW i \in 1 .. Len(logs)
        PROVE  MonthOf(i) <= month' /\ (month' <= MonthOf(i) + 1 => MonthOf(i) \in payloads')
    <3>1. MonthOf(i) \in Nat
      <4>1. logs[i] \in AuditRow
        BY <1>1 DEF LlmTypeOK
      <4> QED
        BY <4>1 DEF AuditRow, MonthOf
    <3>2. MonthOf(i) <= month /\ (month <= MonthOf(i) + 1 => MonthOf(i) \in payloads)
      BY <1>1 DEF RowsComeLast
    <3>3. CASE Start
      <4>1. logs = <<>>
        BY <1>1, <2>1, <3>3 DEF Start, TablesReady, Step
      <4> QED
        BY <4>1
    <3>4. CASE Maintain
      BY <1>3, <3>1, <3>2, <3>4 DEF Maintain, PastRetention
    <3>5. CASE NewMonth
      BY <1>3, <3>1, <3>2, <3>5 DEF NewMonth
    <3>6. CASE Tick
      BY <3>2, <3>6 DEF Tick
    <3> QED
      BY <3>3, <3>4, <3>5, <3>6
  <2> QED
    BY <1>2, <1>6, <2>1, <2>2 DEF RowsComeLast
<1>8. OutcomesFollowAsking' /\ LastIsTheStatus' /\ AnsweredAsRecorded'
  BY <1>2, <1>6 DEF LlmInv, OutcomesFollowAsking, LastIsTheStatus, AnsweredAsRecorded
<1> QED
  BY <1>4, <1>5, <1>7, <1>8 DEF LlmInv

\* A step that only moves the call on before it is answered.
LEMMA CallOnlyKeeps ==
  ASSUME LlmInv, process = "up" \/ Step("idle")', call' \in Call, ~Step("done"),
         UNCHANGED <<process, decides, now, logs, open, payloads, month, maintained, faults>>
  PROVE  LlmTypeOK' /\ TablesReady' /\ RowsComeLast'
<1>1. LlmTypeOK'
  BY DEF LlmInv, LlmTypeOK
<1>2. logs = <<>>
  BY DEF LlmInv, RowsComeLast
<1>3. RowsComeLast'
  BY <1>2 DEF RowsComeLast
<1>4. TablesReady'
  BY DEF LlmInv, TablesReady
<1> QED
  BY <1>1, <1>3, <1>4

\* A call arrives.
LEMMA ArrivalKeeps ==
  ASSUME LlmInv, \/ \E r \in Prompts : Complete(r)
                 \/ \E r \in Decisions, d \in Deadlines : Decide(r, d)
  PROVE  LlmInv'
<1>1. /\ process = "up" /\ Step("idle") /\ call' \in Call /\ Told' = <<>>
      /\ UNCHANGED <<process, decides, now, logs, open, payloads, month, maintained, faults>>
      /\ \/ /\ IsA("complete")' /\ ~IsA("decide")' /\ Step("asking")' /\ Len(Asked') = 1
            /\ \A p \in Steps : Step(p)' => p = "asking"
         \/ /\ IsA("decide")' /\ ~IsA("complete")' /\ Len(Asked') = 1
            /\ \A p \in Steps : Step(p)' => p = "dispatching"
         \/ /\ Step("done")' /\ Answer' \in {"invalid_argument", "failed_precondition"}
            /\ \A p \in Steps : Step(p)' => p = "done"
  <2>1. ASSUME NEW r \in Prompts, Complete(r) PROVE <1>1!:
    BY <2>1, CompleteMoves
  <2>2. ASSUME NEW r \in Decisions, NEW d \in Deadlines, Decide(r, d) PROVE <1>1!:
    BY <2>2, DecideMoves
  <2> QED
    BY <2>1, <2>2
<1>2. ~Step("done")
  BY <1>1 DEF Step
<1>3. LlmTypeOK' /\ TablesReady' /\ RowsComeLast'
  BY <1>1, <1>2, CallOnlyKeeps
<1>4. Len(Told') = 0 /\ logs' = <<>>
  BY <1>1, <1>2 DEF LlmInv, RowsComeLast
<1>5. OutcomesFollowAsking'
  BY <1>1, <1>4 DEF OutcomesFollowAsking, Steps
<1>6. LastIsTheStatus'
  BY <1>1 DEF LastIsTheStatus, Steps
<1>7. AnsweredAsRecorded'
  BY <1>1, <1>4 DEF AnsweredAsRecorded, Steps
<1> QED
  BY <1>3, <1>5, <1>6, <1>7 DEF LlmInv

\* What keeps to the letter the parts that speak of other steps.
LEMMA NotDone ==
  ASSUME NEW p \in Steps \ {"done"}, \A x \in Steps : Step(x)' <=> x = p
  PROVE  AnsweredAsRecorded' /\ (p # "recording" => LastIsTheStatus')
  BY DEF AnsweredAsRecorded, LastIsTheStatus, Steps

\* Every step of the call keeps the invariant.
LEMMA LlmInvNext == LlmInv /\ [LlmNext]_llmVars => LlmInv'
<1> SUFFICES ASSUME LlmInv, [LlmNext]_llmVars PROVE LlmInv'
  OBVIOUS
<1>0. LlmTypeOK /\ TablesReady /\ RowsComeLast /\ OutcomesFollowAsking /\ LastIsTheStatus
  BY DEF LlmInv
<1>t. Asked \in Seq(Askable) /\ Told \in Seq(Outcomes) /\ Len(Asked) \in Nat /\ Len(Told) \in Nat
  BY <1>0, CallTypes
<1>1. CASE Start \/ Maintain \/ NewMonth \/ Tick
  BY <1>1, TablesKeep
<1>2. CASE \/ \E r \in Prompts : Complete(r)
           \/ \E r \in Decisions, d \in Deadlines : Decide(r, d)
  BY <1>2, ArrivalKeeps
<1>3. CASE AskVendor
  <2>1. /\ Step("dispatching") /\ call' \in Call
        /\ UNCHANGED <<process, decides, now, logs, open, payloads, month, maintained, faults>>
        /\ Asked' = Asked /\ Told' = Told
        /\ \A x \in Steps : Step(x)' <=> x = "asking"
        /\ \A k \in {"none", "complete", "decide"} : IsA(k)' <=> IsA(k)
    BY <1>0, <1>3, AskVendorMoves
  <2>2. process = "up" /\ ~Step("done")
    BY <1>0, <2>1 DEF TablesReady, Step
  <2>3. LlmTypeOK' /\ TablesReady' /\ RowsComeLast'
    BY <2>1, <2>2, CallOnlyKeeps
  <2>4. IsA("decide")
    BY <1>0, <2>1 DEF OutcomesFollowAsking
  <2>5. OutcomesFollowAsking'
    BY <1>0, <2>1, <2>4 DEF OutcomesFollowAsking, Steps, IsA
  <2> QED
    BY <2>1, <2>3, <2>5, NotDone DEF LlmInv, Steps
<1>4. ASSUME NEW reply \in CompletionReplies, CompletionReply(reply)
      PROVE  LlmInv'
  <2>1. /\ Step("asking") /\ IsA("complete") /\ call' \in Call
        /\ UNCHANGED <<process, decides, now, logs, open, payloads, month, maintained, faults>>
        /\ \A k \in {"none", "complete", "decide"} : IsA(k)' <=> IsA(k)
    BY <1>0, <1>4, CompletionReplyMoves
  <2>2. PICK o \in {"ok", "retry", "final"} :
          /\ Told' = Append(Told, o)
          /\ o = "retry" => Status' = 0 \/ Retryable(Status') \/ Status' = 200
          /\ \/ /\ o = "retry" /\ Len(Asked) = 1 /\ Len(Asked') = Len(Asked) + 1
                /\ \A x \in Steps : Step(x)' <=> x = "asking"
             \/ /\ Asked' = Asked
                /\ \A x \in Steps : Step(x)' <=> x = "recording"
    BY <1>0, <1>4, CompletionReplyMoves
  <2>3. process = "up" /\ ~Step("done") /\ ~IsA("decide")'
    BY <1>0, <2>1 DEF TablesReady, Step, IsA
  <2>4. LlmTypeOK' /\ TablesReady' /\ RowsComeLast'
    BY <2>1, <2>3, CallOnlyKeeps
  <2>5. /\ Len(Told') = Len(Told) + 1 /\ Last(Told') = o
        /\ \A i \in 1 .. Len(Told) : Told'[i] = Told[i]
        /\ Told'[Len(Told) + 1] = o
    <3>1. o \in Outcomes
      BY DEF Outcomes
    <3> QED
      BY <1>t, <2>2, <3>1, Grown DEF Last
  <2>6. Len(Asked) = Len(Told) + 1 /\ \A i \in 1 .. Len(Told) : Told[i] = "retry"
    BY <1>0, <2>1 DEF OutcomesFollowAsking
  <2>7. \A i \in 1 .. Len(Told') - 1 : Told'[i] = "retry"
    BY <1>t, <2>5, <2>6
  <2>8. CASE o = "retry" /\ Len(Asked') = Len(Asked) + 1 /\ \A x \in Steps : Step(x)' <=> x = "asking"
    <3>1. \A i \in 1 .. Len(Told') : Told'[i] = "retry"
      <4>1. \A i \in 1 .. Len(Told) + 1 : i \in 1 .. Len(Told) \/ i = Len(Told) + 1
        BY <1>t
      <4> QED
        BY <2>5, <2>6, <2>8, <4>1
    <3>2. Len(Asked') = Len(Told') + 1
      BY <1>t, <2>5, <2>6, <2>8
    <3>3. ~Step("dispatching")' /\ ~Step("recording")'
      BY <2>8 DEF Steps
    <3>4. OutcomesFollowAsking'
      BY <2>3, <2>7, <3>1, <3>2, <3>3 DEF OutcomesFollowAsking
    <3> QED
      BY <2>4, <2>8, <3>4, NotDone DEF LlmInv, Steps
  <2>9. CASE Asked' = Asked /\ \A x \in Steps : Step(x)' <=> x = "recording"
    <3>1. Len(Told') = Len(Asked') /\ Len(Told') > 0
      BY <1>t, <2>5, <2>6, <2>9
    <3>2. ~Step("dispatching")' /\ ~Step("asking")'
      BY <2>9 DEF Steps
    <3>3. OutcomesFollowAsking'
      BY <2>7, <3>1, <3>2 DEF OutcomesFollowAsking
    <3>4. LastIsTheStatus'
      BY <2>2, <2>5 DEF LastIsTheStatus
    <3> QED
      BY <2>4, <2>9, <3>3, <3>4, NotDone DEF LlmInv, Steps
  <2> QED
    BY <2>2, <2>8, <2>9
<1>5. ASSUME NEW reply \in DecisionReplies, NEW answers, DecisionReply(reply, answers)
      PROVE  LlmInv'
  <2>1. /\ Step("asking") /\ IsA("decide") /\ call' \in Call /\ Asked' = Asked
        /\ UNCHANGED <<process, decides, now, logs, open, payloads, month, maintained, faults>>
        /\ \A k \in {"none", "complete", "decide"} : IsA(k)' <=> IsA(k)
        /\ \A x \in Steps : Step(x)' <=> x = "recording"
    BY <1>0, <1>5, DecisionReplyMoves
  <2>2. PICK o \in Outcomes :
          /\ Told' = Append(Told, o)
          /\ o = "retry" => Status' = 0 \/ Retryable(Status') \/ Status' = 200
          /\ o = "refused" => Status' \in BodyShaped
    BY <1>0, <1>5, DecisionReplyMoves
  <2>3. process = "up" /\ ~Step("done") /\ IsA("decide")'
    BY <1>0, <2>1 DEF TablesReady, Step, IsA
  <2>4. LlmTypeOK' /\ TablesReady' /\ RowsComeLast'
    BY <2>1, <2>3, CallOnlyKeeps
  <2>5. Told = <<>> /\ Len(Asked) = 1
    BY <1>0, <2>1 DEF OutcomesFollowAsking
  <2>6. Len(Told') = 1 /\ Last(Told') = o
    <3>1. Told' = Append(Told, o) /\ Len(Told) = 0
      BY <2>2, <2>5
    <3>2. Len(Append(Told, o)) = Len(Told) + 1 /\ Last(Append(Told, o)) = o
      BY <1>t, Grown
    <3> QED
      BY <3>1, <3>2
  <2>7. ~Step("dispatching")' /\ ~Step("asking")'
    BY <2>1 DEF Steps
  <2>8. OutcomesFollowAsking'
    BY <2>1, <2>5, <2>6, <2>7 DEF OutcomesFollowAsking
  <2>9. LastIsTheStatus'
    BY <2>2, <2>3, <2>6 DEF LastIsTheStatus, BodyShaped
  <2> QED
    BY <2>1, <2>4, <2>8, <2>9, NotDone DEF LlmInv, Steps
<1>6. CASE Record
  <2>1. /\ Step("recording") /\ call' \in Call /\ Asked' = Asked /\ Told' = Told /\ Status' = Status
        /\ UNCHANGED <<process, decides, now, open, payloads, month, maintained>>
        /\ \A x \in Steps : Step(x)' <=> x = "done"
        /\ \A k \in {"none", "complete", "decide"} : IsA(k)' <=> IsA(k)
        /\ Told # <<>>
        /\ Answer' = "ok" <=> Last(Told) = "ok"
        /\ Answer' = "invalid_argument" => Last(Told) = "refused"
        /\ Answer' = "unavailable" => Last(Told) = "retry"
    BY <1>6, RecordMoves
  <2>2. \/ /\ month \in payloads /\ faults' = faults
           /\ logs' = Append(logs, [outcome |-> IF Last(Told) = "ok" THEN "answered" ELSE "failed",
                                    model |-> Last(Asked), backup |-> Len(Asked) > 1, month |-> month])
        \/ faults' = faults + 1 /\ logs' = logs
    BY <1>6, RecordMoves
  <2>3. logs = <<>> /\ process = "up"
    BY <1>0, <2>1 DEF RowsComeLast, TablesReady, Step
  <2>4. Len(Told) = Len(Asked) /\ Len(Told) > 0 /\ \A i \in 1 .. Len(Told) - 1 : Told[i] = "retry"
    BY <1>0, <2>1 DEF OutcomesFollowAsking
  <2>5. Last(Asked) \in Askable /\ month \in Nat /\ faults \in Nat
    BY <1>0, <1>t, <2>4 DEF Last, LlmTypeOK
  <2> DEFINE row == [outcome |-> IF Last(Told) = "ok" THEN "answered" ELSE "failed",
                     model |-> Last(Asked), backup |-> Len(Asked) > 1, month |-> month]
  <2>6. row \in AuditRow
    BY <2>5 DEF AuditRow
  <2>7. /\ row.month = month /\ row.model = Last(Asked)
        /\ row.backup = (Len(Asked) > 1)
        /\ (row.outcome = "answered") = (Last(Told) = "ok")
    OBVIOUS
  <2> HIDE DEF row
  <2>8. \/ /\ month \in payloads /\ faults' = faults /\ logs' = <<row>> /\ Len(logs') = 1 /\ logs'[1] = row
        \/ faults' = faults + 1 /\ logs' = <<>>
    BY <2>2, <2>3 DEF row
  <2>9. LlmTypeOK'
    <3>1. logs' \in Seq(AuditRow) /\ faults' \in Nat
      <4>1. <<row>> \in Seq(AuditRow) /\ <<>> \in Seq(AuditRow)
        BY <2>6
      <4>2. logs' \in {<<row>>, <<>>} /\ faults' \in {faults, faults + 1}
        BY <2>8
      <4>3. faults' \in Nat
        BY <2>5, <4>2
      <4>4. logs' \in Seq(AuditRow)
        BY <4>1, <4>2
      <4> QED
        BY <4>3, <4>4
    <3> QED
      BY <1>0, <2>1, <3>1 DEF LlmTypeOK
  <2>10. TablesReady'
    BY <1>0, <2>1, <2>3 DEF TablesReady
  <2>11. RowsComeLast'
    <3>1. Step("done")'
      BY <2>1 DEF Steps
    <3>2. \A i \in 1 .. Len(logs') : /\ MonthOf(i)' <= month
                                     /\ month <= MonthOf(i)' + 1 => MonthOf(i)' \in payloads
      <4>1. CASE logs' = <<>>
        BY <4>1
      <4>2. CASE month \in payloads /\ Len(logs') = 1 /\ logs'[1] = row
        <5>1. \A i \in 1 .. Len(logs') : MonthOf(i)' = month
          BY <2>7, <4>2 DEF MonthOf
        <5> QED
          BY <2>5, <4>2, <5>1
      <4> QED
        BY <2>8, <4>1, <4>2
    <3> QED
      BY <2>1, <3>1, <3>2 DEF RowsComeLast
  <2>12. OutcomesFollowAsking'
    <3>1. ~Step("dispatching")' /\ ~Step("asking")' /\ ~Step("recording")'
      BY <2>1 DEF Steps
    <3> QED
      BY <2>1, <2>4, <3>1 DEF OutcomesFollowAsking
  <2>13. LastIsTheStatus'
    BY <2>1 DEF LastIsTheStatus, Steps
  <2>14. AnsweredAsRecorded'
    <3>1. /\ Last(Told) = "refused" => IsA("decide")' /\ Status \in BodyShaped
          /\ Last(Told) = "retry" => Status = 0 \/ Retryable(Status) \/ Status = 200
      BY <1>0, <2>1 DEF LastIsTheStatus
    <3>2. \/ faults' > 0
          \/ /\ Len(logs') = 1
             /\ logs'[1].model = Last(Asked)
             /\ logs'[1].backup = (Len(Told) > 1)
             /\ (logs'[1].outcome = "answered") = (Last(Told) = "ok")
      BY <2>4, <2>5, <2>7, <2>8
    <3>3. (Answer' = "ok") = (Last(Told) = "ok")
      BY <2>1
    <3> QED
      BY <2>1, <3>1, <3>2, <3>3 DEF AnsweredAsRecorded, BodyShaped
  <2> QED
    BY <2>9, <2>10, <2>11, <2>12, <2>13, <2>14 DEF LlmInv
<1>7. CASE Drop \/ CallerGone
  <2>1. /\ call' \in Call
        /\ Step("dispatching") \/ Step("asking") \/ Step("recording")
        /\ UNCHANGED <<process, decides, now, logs, open, payloads, month, maintained, faults>>
        /\ Asked' = Asked /\ Told' = Told
        /\ \A x \in Steps : Step(x)' <=> x = "dropped"
    BY <1>0, <1>7, DroppedMoves
  <2>2. process = "up" /\ ~Step("done")
    BY <1>0, <2>1 DEF TablesReady, Step
  <2>3. LlmTypeOK' /\ TablesReady' /\ RowsComeLast'
    BY <2>1, <2>2, CallOnlyKeeps
  <2>4. ~Step("dispatching")' /\ ~Step("asking")' /\ ~Step("recording")'
    BY <2>1 DEF Steps
  <2>5. OutcomesFollowAsking'
    BY <1>0, <2>1, <2>4 DEF OutcomesFollowAsking
  <2> QED
    BY <2>1, <2>3, <2>5, NotDone DEF LlmInv, Steps
<1>8. CASE UNCHANGED llmVars
  BY <1>8 DEF llmVars, LlmInv, LlmTypeOK, TablesReady, RowsComeLast, OutcomesFollowAsking, LastIsTheStatus,
      AnsweredAsRecorded, IsA, Step, Asked, Told, Answer, Status, MonthOf
<1> QED
  BY <1>1, <1>2, <1>3, <1>4, <1>5, <1>6, <1>7, <1>8 DEF LlmNext

-----------------------------------------------------------------------------
(* The invariant of the deadline *)

\* For a write that takes less than the room kept for it, every step keeps a decision in time.
LEMMA DueInTimeNext ==
  ASSUME RecordTime < RoomToRecord, LlmInv, LlmInv', DueInTime, [LlmNext]_llmVars
  PROVE  DueInTime'
<1>0. /\ LlmTypeOK /\ LlmTypeOK' /\ RecordTime \in Nat /\ now \in Nat /\ OutcomesFollowAsking'
      /\ Until \in Nat /\ SentAt \in Nat /\ Due \in Nat
      /\ Until' \in Nat /\ SentAt' \in Nat /\ Due' \in Nat
  <2>1. LlmTypeOK /\ LlmTypeOK' /\ RecordTime \in Nat /\ now \in Nat /\ OutcomesFollowAsking'
    BY TimesAssumption DEF LlmInv, LlmTypeOK
  <2>2. Until \in Nat /\ SentAt \in Nat /\ Due \in Nat
    BY <2>1, CallTypes
  <2>3. Until' \in Nat /\ SentAt' \in Nat /\ Due' \in Nat
    BY <2>1 DEF LlmTypeOK, Call, Until, SentAt, Due
  <2> QED
    BY <2>1, <2>2, <2>3
<1>1. (IsA("decide") /\ (Step("dispatching") \/ Step("asking")) => Told = <<>>)'
  BY <1>0 DEF OutcomesFollowAsking
<1> DEFINE Asks == Step("asking") => now <= Due /\ Due + RoomToRecord <= Until
           Records == Step("recording") => now <= Due /\ Due + RoomToRecord <= Until + RecordTime
           Roomy == IsA("decide") /\ Until >= SentAt + OneAttempt + RoomToRecord
           Loses == Step("dropped") /\ IsA("decide") /\ Told # <<>> =>
                      Until < SentAt + OneAttempt + RoomToRecord
<1>2. SUFFICES (Roomy' => Asks' /\ Records') /\ Loses'
  BY <1>0, <1>1
  DEF DueInTime, RecordedBeforeTheDeadline, IsA, Step, Until, SentAt, Told
<1>3. (Roomy => Asks /\ Records) /\ Loses
  BY DEF DueInTime, RecordedBeforeTheDeadline, IsA, Step, Until, SentAt, Told
<1>4. CASE Start \/ Maintain \/ NewMonth \/ UNCHANGED llmVars
  <2>1. call' = call /\ now' = now
    BY <1>4 DEF Start, Maintain, NewMonth, llmVars
  <2> QED
    BY <1>3, <2>1 DEF IsA, Step, Until, SentAt, Due, Told
<1>5. CASE Tick
  <2>1. /\ call' = call /\ now' = now + 1
        /\ ~Step("dispatching") => now < Due
    BY <1>5 DEF Tick, Step, Due
  <2>2. /\ Until' = Until /\ SentAt' = SentAt /\ Due' = Due /\ Told' = Told
        /\ \A p \in Steps : Step(p)' <=> Step(p)
        /\ IsA("decide")' <=> IsA("decide")
    BY <2>1 DEF IsA, Step, Until, SentAt, Due, Told
  <2>3. "asking" \in Steps /\ "recording" \in Steps /\ "dropped" \in Steps
    BY DEF Steps
  <2>4. Step("asking") \/ Step("recording") => ~Step("dispatching")
    BY DEF Step
  <2> QED
    BY <1>0, <1>3, <2>1, <2>2, <2>3, <2>4
<1>6. CASE \/ \E r \in Prompts : Complete(r)
           \/ \E r \in Decisions, d \in Deadlines : Decide(r, d)
  <2>1. Told' = <<>> /\ (IsA("decide")' => ~Step("asking")') /\ ~Step("recording")'
    <3>1. ASSUME NEW r \in Prompts, Complete(r) PROVE <2>1!:
      BY <3>1, CompleteMoves DEF Steps
    <3>2. ASSUME NEW r \in Decisions, NEW d \in Deadlines, Decide(r, d) PROVE <2>1!:
      BY <3>2, DecideMoves DEF Steps
    <3> QED
      BY <1>6, <3>1, <3>2
  <2> QED
    BY <2>1
<1>7. CASE AskVendor
  <2>1. /\ Until' = Until /\ SentAt' = now /\ Due' = now + VendorTime(Until - now) /\ now' = now
        /\ ~Step("recording")' /\ ~Step("dropped")'
    BY <1>0, <1>7, AskVendorMoves DEF Steps
  <2>2. PICK left \in Int : left = Until - now
    BY <1>0
  <2>3. /\ VendorTime(left) \in Nat
        /\ left >= OneAttempt + RoomToRecord => VendorTime(left) + RoomToRecord <= left
    BY VendorTimeBounds
  <2>4. Due' = now + VendorTime(left)
    BY <2>1, <2>2
  <2>5. OneAttempt \in Nat /\ RoomToRecord \in Nat
    BY DEF OneAttempt, RoomToRecord
  <2>6. Until >= now + OneAttempt + RoomToRecord => now <= Due' /\ Due' + RoomToRecord <= Until
    BY <1>0, <2>2, <2>3, <2>4, <2>5
  <2> QED
    BY <2>1, <2>6
<1>8. ASSUME NEW reply \in CompletionReplies, CompletionReply(reply)
      PROVE  (Roomy' => Asks' /\ Records') /\ Loses'
  <2>1. IsA("complete") /\ (IsA("decide")' <=> IsA("decide"))
    BY <1>0, <1>8, CompletionReplyMoves
  <2>2. ~IsA("decide")'
    BY <2>1 DEF IsA
  <2> QED
    BY <2>2
<1>9. ASSUME NEW reply \in DecisionReplies, NEW answers, DecisionReply(reply, answers)
      PROVE  (Roomy' => Asks' /\ Records') /\ Loses'
  <2>1. /\ Step("asking") /\ IsA("decide") /\ now' = now
        /\ ~Step("asking")' /\ ~Step("dropped")'
        /\ Until' = Until /\ SentAt' = SentAt /\ Due' = now + RecordTime
    BY <1>0, <1>9, DecisionReplyMoves DEF Steps
  <2>2. OneAttempt \in Nat /\ RoomToRecord \in Nat
    BY DEF OneAttempt, RoomToRecord
  <2>3. Until >= SentAt + OneAttempt + RoomToRecord => now <= Due /\ Due + RoomToRecord <= Until
    BY <1>3, <2>1
  <2> QED
    BY <1>0, <2>1, <2>2, <2>3
<1>10. CASE Record
  <2>1. ~Step("asking")' /\ ~Step("recording")' /\ ~Step("dropped")'
    BY <1>10, RecordMoves DEF Steps
  <2> QED
    BY <2>1
<1>11. CASE Drop \/ CallerGone
  <2>1. /\ Step("dispatching") \/ Step("asking") \/ Step("recording")
        /\ Told' = Told /\ Until' = Until /\ SentAt' = SentAt
        /\ ~Step("asking")' /\ ~Step("recording")'
        /\ IsA("decide")' <=> IsA("decide")
        /\ IsA("decide") => now >= Until
    BY <1>0, <1>11, DroppedMoves DEF Steps
  <2>2. OneAttempt \in Nat /\ RoomToRecord \in Nat
    BY DEF OneAttempt, RoomToRecord
  <2>3. IsA("decide") /\ Told # <<>> => Step("recording")
    BY <2>1 DEF DueInTime
  <2>4. IsA("decide") /\ Told # <<>> => Until < SentAt + OneAttempt + RoomToRecord
    BY <1>0, <1>3, <2>1, <2>2, <2>3
  <2> QED
    BY <2>1, <2>4
<1> QED
  BY <1>4, <1>5, <1>6, <1>7, <1>8, <1>9, <1>10, <1>11 DEF LlmNext

-----------------------------------------------------------------------------
(* Theorems *)

\* Every call that was answered has exactly one audit row about the model asked last, unless its write
\* failed, and its payload outlives the month after it (service.rs, decisions.rs and partition.rs).
THEOREM CallsAreAudited == LlmSpec => []EveryCallAudited
<1>1. ASSUME LlmInv PROVE EveryCallAudited
  <2>1. RowsComeLast /\ AnsweredAsRecorded
    BY <1>1 DEF LlmInv
  <2>2. \A i \in 1 .. Len(logs) : month <= logs[i].month + 1 => logs[i].month \in payloads
    BY <2>1 DEF RowsComeLast, MonthOf
  <2>3. call.pc = "done" =>
          IF call.outcomes = <<>>
          THEN logs = <<>> /\ call.reply \in {"invalid_argument", "failed_precondition"}
          ELSE \/ faults > 0
               \/ /\ Len(logs) = 1
                  /\ logs[1].model = Last(call.asked)
                  /\ logs[1].backup = (Len(call.outcomes) > 1)
                  /\ (logs[1].outcome = "answered") = (call.reply = "ok")
    BY <2>1 DEF AnsweredAsRecorded, Step, Told, Asked, Answer
  <2> QED
    BY <2>2, <2>3 DEF EveryCallAudited
<1> QED
  BY <1>1, LlmInvInit, LlmInvNext, PTL DEF LlmSpec

\* The caller is told that its request is at fault only for its own words, a second model is asked only
\* after a failure another try might not meet, and so is the caller asked to try again (router.rs,
\* service.rs, decisions.rs).
THEOREM BlameIsRight == LlmSpec => []BlameIsTheCallers
<1>1. ASSUME LlmInv PROVE BlameIsTheCallers
  BY <1>1
  DEF LlmInv, AnsweredAsRecorded, OutcomesFollowAsking, BlameIsTheCallers, Step, IsA, Told, Answer, Status
<1> QED
  BY <1>1, LlmInvInit, LlmInvNext, PTL DEF LlmSpec

\* When an audit write takes less than the room kept for it, a decision that was put to the vendor is
\* never dropped unrecorded, unless its caller left no room for the shortest attempt (system_one within).
THEOREM DecisionsAreRecordedInTime ==
  ASSUME RecordTime < RoomToRecord
  PROVE  LlmSpec => []RecordedBeforeTheDeadline
<1>1. LlmInit => DueInTime
  <2> SUFFICES ASSUME LlmInit PROVE DueInTime
    OBVIOUS
  <2>1. LlmTypeOK
    BY LlmInvInit DEF LlmInv
  <2>2. call.kind = "none"
    BY DEF LlmInit, NoCall
  <2> QED
    BY <2>1, <2>2 DEF DueInTime, RecordedBeforeTheDeadline, IsA
<1>2. LlmInv /\ LlmInv' /\ DueInTime /\ [LlmNext]_llmVars => DueInTime'
  BY DueInTimeNext
<1>3. DueInTime => RecordedBeforeTheDeadline
  BY DEF DueInTime
<1> QED
  BY <1>1, <1>2, <1>3, LlmInvInit, LlmInvNext, PTL DEF LlmSpec
=============================================================================
