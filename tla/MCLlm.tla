------------------------------- MODULE MCLlm -------------------------------
(***************************************************************************)
(* Requests on and just past each limit, one departure from an ordinary    *)
(* request at a time, and vendor replies of every kind the reader tells    *)
(* apart.                                                                  *)
(***************************************************************************)
EXTENDS LlmRouter

PlainSampling ==
  [temperature |-> {}, topP |-> {}, frequency |-> {}, presence |-> {}, stop |-> <<>>,
   biases |-> 0, bias |-> {}, topLogprobs |-> {}, maxTokens |-> {}]

PlainPrompt == [tier |-> "low", system |-> 100, user |-> 100, sampling |-> PlainSampling]

MCPrompts ==
  {PlainPrompt, [PlainPrompt EXCEPT !.tier = "unspecified"], [PlainPrompt EXCEPT !.user = 0]}
    \cup {[PlainPrompt EXCEPT !.user = n] : n \in {524188, 524189}}
    \cup {[PlainPrompt EXCEPT !.tier = t, !.sampling.maxTokens = {n}] :
            t \in {"low", "high"}, n \in {0, 8192, 8193, 32769}}
    \cup {[PlainPrompt EXCEPT !.sampling.temperature = {n}] : n \in {20, 21, 100000}}
    \cup {[PlainPrompt EXCEPT !.sampling.stop = s] :
            s \in {<<1, 1, 1, 1, 1>>, <<1025>>, <<1024, 1024, 1>>}}

Noul(n) == [type |-> "noul", criteria |-> <<n, 10>>]

Choice(n) ==
  [type |-> "choice",
   options |-> [i \in 1 .. n |-> [name |-> i, bytes |-> 20, description |-> 100]]]

Score(n) == [type |-> "score", levels |-> [i \in 1 .. n |-> 50]]

Ask(id, kind) == [id |-> id, idBytes |-> 10, instructions |-> 200, kind |-> kind]

MixedQuestions == <<Ask("q1", Choice(2)), Ask("q2", Score(3)), Ask("q3", Noul(10))>>

PlainDecision == [state |-> 1000, questions |-> MixedQuestions]

MCDecisions ==
  {PlainDecision, [PlainDecision EXCEPT !.questions = <<>>],
   [PlainDecision EXCEPT !.questions = <<MixedQuestions[1], MixedQuestions[1]>>],
   [PlainDecision EXCEPT !.questions[1].idBytes = 65],
   [PlainDecision EXCEPT !.questions[1].instructions = 0],
   [state |-> 49152, questions |-> <<[Ask("q1", Choice(70)) EXCEPT !.instructions = 8192]>>]}
    \cup {[PlainDecision EXCEPT !.state = n] : n \in {0, 49153}}
    \cup {[PlainDecision EXCEPT !.questions[2].kind = k] :
            k \in {Score(1), Score(11), Choice(256), Noul(1025)}}
    \cup {[state |-> 40000, questions |-> [i \in 1 .. n |->
            [Ask(i, Noul(10)) EXCEPT !.instructions = 8192]]] : n \in {12, 65}}

OneTo(v) == [type |-> "choice", value |-> v, weights |-> {[of |-> 1, is |-> 60]}, confidence |-> {60}]

Scored(v) == [type |-> "score", value |-> v, weights |-> {[of |-> 2, is |-> 40]}, confidence |-> {}]

Sure(v) == [type |-> "noul", value |-> v, weights |-> {}, confidence |-> {}]

Given(a, b, c) == [present |-> TRUE, given |-> [q1 |-> a, q2 |-> b, q3 |-> c]]

MCVerdicts ==
  {[present |-> FALSE, given |-> <<>>],
   Given(OneTo(1), Scored(200), Sure(90)),
   Given(OneTo(3), Scored(200), Sure(90)),
   Given(OneTo(1), Scored(201), Sure(90)),
   Given(OneTo(1), OneTo(1), Sure(90)),
   Given(OneTo(1), Scored(100), Sure(101)),
   [present |-> TRUE, given |-> [q1 |-> OneTo(1), q2 |-> Scored(100)]],
   [present |-> TRUE, given |-> [q1 |-> OneTo(1), q2 |-> Scored(100), q3 |-> Sure(0), q9 |-> Sure(1)]]}
=============================================================================
