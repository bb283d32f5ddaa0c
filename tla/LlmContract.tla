---------------------------- MODULE LlmContract ----------------------------
(***************************************************************************)
(* What the llm-router accepts and how it reads what a provider sends      *)
(* back: the tier contract (llm.rs, service.rs), the decision budget       *)
(* (budget.rs) and the two adapters' readers.  Operators only; LlmRouter   *)
(* drives them.  An optional field is a set of at most one value, a string *)
(* is its length, a probability is in percent.                             *)
(***************************************************************************)
EXTENDS Integers, Sequences, FiniteSets, SequencesExt

Sum(s) == FoldLeft(LAMBDA a, b : a + b, 0, s)

(***************************************************************************)
(* Completions                                                             *)
(***************************************************************************)

ServedTiers == {"low", "medium", "high"}

WideContext == 131072

MaxOutput(tier) == IF tier = "high" THEN 32768 ELSE 8192

\* llm.rs: the prompt's size is guessed at four characters a token, rounded up.
EstimatedTokens(system, user) == (system + user + 3) \div 4

\* Tenths; a value that is not finite lies outside every range.
Within(opt, lo, hi) == \A v \in opt : lo <= v /\ v <= hi

ValidSampling(s) ==
  /\ Within(s.temperature, 0, 20)
  /\ Within(s.topP, 0, 10)
  /\ Within(s.frequency, -20, 20)
  /\ Within(s.presence, -20, 20)
  /\ Len(s.stop) <= 4
  /\ \A i \in 1 .. Len(s.stop) : s.stop[i] <= 1024
  /\ Sum(s.stop) <= 2048
  /\ s.biases <= 300
  /\ Within(s.bias, -1000, 1000)
  /\ Within(s.topLogprobs, 0, 20)

\* A prompt the router takes: served tier, something to answer, and both ends of the context.
ValidPrompt(r) ==
  /\ r.tier \in ServedTiers
  /\ r.user > 0
  /\ ValidSampling(r.sampling)
  /\ EstimatedTokens(r.system, r.user) <= WideContext
  /\ Within(r.sampling.maxTokens, 1, MaxOutput(r.tier))

(***************************************************************************)
(* Decisions                                                               *)
(***************************************************************************)

MaxQuestions == 64

MaxState == 49152

MaxInstructions == 8192

MaxStatePlusQuestion == 65536

MaxRequest == 131072

MaxId == 64

MaxPhrase == 1024

ValidKind(k) ==
  \/ k.type = "noul" /\ \A i \in 1 .. Len(k.criteria) : k.criteria[i] <= MaxPhrase
  \/ /\ k.type = "choice"
     /\ Len(k.options) \in 1 .. 255
     /\ \A i \in 1 .. Len(k.options) :
          k.options[i].bytes \in 1 .. MaxId /\ k.options[i].description <= MaxPhrase
     /\ Cardinality({k.options[i].name : i \in 1 .. Len(k.options)}) = Len(k.options)
  \/ /\ k.type = "score"
     /\ Len(k.levels) \in 2 .. 10
     /\ \A i \in 1 .. Len(k.levels) : k.levels[i] <= MaxPhrase

KindBytes(k) ==
  CASE k.type = "noul" -> Sum(k.criteria)
    [] k.type = "choice" ->
         Sum([i \in 1 .. Len(k.options) |-> k.options[i].bytes + k.options[i].description])
    [] k.type = "score" -> Sum(k.levels)
    [] OTHER -> 0

QuestionBytes(q) == q.instructions + KindBytes(q.kind)

\* The checks that look at one question at a time: unique ids, its fields, and it with the state.
ValidQuestions(r) ==
  /\ \A i \in 1 .. Len(r.questions) :
       LET q == r.questions[i]
       IN /\ q.idBytes \in 1 .. MaxId
          /\ q.instructions \in 1 .. MaxInstructions
          /\ ValidKind(q.kind)
          /\ r.state + QuestionBytes(q) <= MaxStatePlusQuestion
  /\ Cardinality({r.questions[i].id : i \in 1 .. Len(r.questions)}) = Len(r.questions)

RequestBytes(r) ==
  r.state + Sum([i \in 1 .. Len(r.questions) |-> QuestionBytes(r.questions[i])])

\* budget.rs validated_decision; 0 bytes of JSON is a value the caller left unset.
ValidDecision(r) ==
  /\ Len(r.questions) \in 1 .. MaxQuestions
  /\ r.state \in 1 .. MaxState
  /\ ValidQuestions(r)
  /\ RequestBytes(r) <= MaxRequest

(***************************************************************************)
(* Reading a provider                                                      *)
(***************************************************************************)

Retryable(status) == status \in {408, 429} \/ status >= 500

BodyShaped == {400, 409, 413, 422}

\* adapters/mod.rs error_for_status; only the decision path has a caller-authored body to refuse.
ErrorForStatus(status, callerAuthored) ==
  CASE Retryable(status) -> "retry"
    [] ~Retryable(status) /\ callerAuthored /\ status \in BodyShaped -> "refused"
    [] OTHER -> "final"

\* adapters/mod.rs key_accepted: what the startup probe makes of the answer (0: none came).
KeyRejected(status) == status # 0 /\ ~Retryable(status) /\ status >= 400

\* openai_compatible.rs read_completion: how a body that arrived whole is read.
ReadCompletion(body) ==
  CASE body \in {"no choices", "choice error", "empty"} -> "retry"
    [] body = "only reasoning" -> "final"
    [] body = "content" -> "ok"

InPercent(v) == 0 <= v /\ v <= 100

\* answers.rs read_answer: the value must lie on the scale the question offered.
ReadsAs(q, a) ==
  /\ a.type = q.kind.type
  /\ a.type # "noul" => Within(a.confidence, 0, 100)
  /\ CASE a.type = "noul" -> InPercent(a.value)
       [] a.type = "choice" ->
            LET offered == {q.kind.options[i].name : i \in 1 .. Len(q.kind.options)}
            IN a.value \in offered /\ \A w \in a.weights : w.of \in offered /\ InPercent(w.is)
       [] a.type = "score" ->
            /\ 0 <= a.value /\ a.value <= 100 * (Len(q.kind.levels) - 1)
            /\ \A w \in a.weights : w.of < Len(q.kind.levels) /\ InPercent(w.is)

\* answers.rs read_verdict: nothing that was not asked, everything that was, each on its scale.
ReadVerdict(answers, questions) ==
  IF ~answers.present THEN "retry"
  ELSE IF /\ DOMAIN answers.given = {questions[i].id : i \in 1 .. Len(questions)}
          /\ \A i \in 1 .. Len(questions) :
               ReadsAs(questions[i], answers.given[questions[i].id])
       THEN "ok" ELSE "final"
=============================================================================
