----------------------------- MODULE ChatIntent -----------------------------
(***************************************************************************)
(* How the chat service routes one message: the decision over the user's   *)
(* topics, the split of a message that raises several themes, the judge    *)
(* of that split, and the rewrite of a message that leans on what was said *)
(* before.  Every one of these is a call to the LLM router that may fail.  *)
(*                                                                         *)
(* A text is what routing can tell of it: the themes it asks for, whether  *)
(* it can be understood alone, and whether it holds the whole message.     *)
(***************************************************************************)
EXTENDS Integers, Sequences, FiniteSets, SeqFilter

CONSTANTS
  Summaries,   \* most topics in the session
  Raised,      \* most themes one message raises
  OptionsCap   \* max_choice_options of the decision budget

ASSUME IntentAssumption ==
  /\ Summaries \in Nat
  /\ Raised \in Nat \ {0}
  /\ OptionsCap \in Nat \ {0}

VARIABLE intent

New     == 0                  \* Action::New, and the option "new"
Unknown == Summaries + 1      \* no answer, an unsure one or a topic there is not

Text(themes, alone, whole) == [themes |-> themes, alone |-> alone, whole |-> whole]
Blank   == Text({}, FALSE, FALSE)
Message == Text(intent.themes, ~intent.leans, TRUE)

\* The topics of the session are 1..count, the newest last.
Topics == 1..intent.count

IntentInit ==
  \E count \in 0..Summaries, n \in 1..Raised, leans \in BOOLEAN :
  \E focus \in 0..count, recent \in IF count = 0 THEN {0} ELSE 1..count :
    intent = [pc |-> "decide", count |-> count, focus |-> focus, recent |-> recent,
              themes |-> 1..n, leans |-> leans,
              route |-> New, leaning |-> FALSE, idle |-> FALSE, again |-> FALSE,
              actions |-> <<>>, unjudged |-> {}]

-----------------------------------------------------------------------------
(* What a message becomes *)

Act(actions) == [intent EXCEPT !.pc = "act", !.actions = actions]

\* continue_focus_or_open_one_topic.
ContinueFocusOrOpenOneTopic(focus, text) ==
  << [topic |-> IF focus \in Topics THEN focus ELSE New, question |-> text] >>

\* unplaced: a message that leans on the conversation goes where it last was.
Unplaced(i, text) ==
  ContinueFocusOrOpenOneTopic(
    IF i.leaning /\ i.focus = New THEN i.recent ELSE i.focus, text)

\* The actions of a message that is not split, once its question is known.
Placed(i, text) ==
  CASE i.route = New     -> << [topic |-> New, question |-> text] >>
    [] i.route = Unknown -> Unplaced(i, text)
    [] OTHER             -> << [topic |-> i.route, question |-> text] >>

\* recent_turns_newest_last has something to say.
Earlier(i) == i.count > 0

\* question_that_stands_alone: a rewrite needs earlier turns to draw on.
AskedAlone(i) ==
  IF i.leaning /\ Earlier(i)
  THEN [i EXCEPT !.pc = "rewrite"]
  ELSE [i EXCEPT !.pc = "act", !.actions = Placed(i, Message)]

\* route, past its split.
Unsplit(i) == IF i.idle THEN [i EXCEPT !.pc = "clarify"] ELSE AskedAlone(i)

-----------------------------------------------------------------------------
(* Calls *)

\* most_recent_topics_leaving_room_for_new: the topics offered.  The cap is known only
\* if the budget could be read at start.
Offered(capped) ==
  IF capped THEN {t \in Topics : t > intent.count - (OptionsCap - 1)} ELSE Topics

\* build_request: where the message belongs is asked only of a session with topics.
RouteAsked == intent.count > 0

\* route_outcome: an option by its name, the new one, or an answer that does not count.
Routes(capped) ==
  IF RouteAsked THEN Offered(capped) \cup {New, Unknown} ELSE {New}

\* The typed decision: a topic or a new one, whether the message leans on the
\* conversation, asks for nothing, or raises several themes.
Decide ==
  /\ intent.pc = "decide"
  /\ \E capped, leaning, idle, several \in BOOLEAN :
     \E route \in Routes(capped) :
       LET i == [intent EXCEPT !.route = route, !.leaning = leaning, !.idle = idle]
       IN  intent' = IF route # New THEN AskedAlone(i)
                     ELSE IF several THEN [i EXCEPT !.pc = "split"] ELSE Unsplit(i)

\* The decision fails or comes back empty.
DecideFails ==
  /\ intent.pc = "decide"
  /\ intent' = Act(ContinueFocusOrOpenOneTopic(intent.focus, Message))

\* rewritten_against_the_conversation; an empty rewrite is as good as none.
Rewrite ==
  /\ intent.pc = "rewrite"
  /\ \E text \in {Message, Text(intent.themes, TRUE, FALSE)} :
       intent' = Act(Placed(intent, text))

\* external: what the model may write as one action of a split.
RawActions ==
  [topic : {New},
   question : [themes : SUBSET intent.themes, alone : BOOLEAN, whole : {FALSE}]]
    \cup [topic : Topics \cup {Unknown}, question : {Blank}]

\* parse_actions: continued topics must exist, questions must say something.
ParseActions(raw) ==
  Only(raw, {a \in RawActions : IF a.topic = New THEN a.question.themes # {} ELSE a.topic \in Topics})

\* The positions of the new questions, in order: what the judge is shown.
NewOnes(actions)   == {i \in DOMAIN actions : actions[i].topic = New}
Questions(actions) == Only([i \in DOMAIN actions |-> i], NewOnes(actions))

\* ask_split, and judge_and_repair_split up to its call.
AskSplit ==
  /\ intent.pc = "split"
  /\ \E raw \in UNION {[1..n -> RawActions] : n \in 1..2} :
       LET actions == ParseActions(raw) IN
       intent' = IF actions = <<>> THEN Unsplit(intent)
                 ELSE IF Questions(actions) = <<>> THEN Act(actions)
                 ELSE [intent EXCEPT !.pc = "judge", !.actions = actions]

\* The completion fails, or is no JSON.
AskSplitFails ==
  /\ intent.pc = "split"
  /\ intent' = Unsplit(intent)

\* whole_message_scoped_to_title.
Scoped(question) == Text(question.themes, FALSE, TRUE)

\* Mutant: a verdict is looked up by the place among all actions.
MadeToStandAloneByPlace(actions, verdicts) ==
  [i \in DOMAIN actions |->
     IF actions[i].topic = New /\ i \in DOMAIN verdicts /\ verdicts[i] = "leans"
     THEN [actions[i] EXCEPT !.question = Scoped(@)] ELSE actions[i]]

\* questions_made_to_stand_alone: a verdict is looked up by the place among the
\* new questions, which is counted on the way.
At(actions, i) == Cardinality({j \in NewOnes(actions) : j <= i})
MadeToStandAlone(actions, verdicts) ==
  [i \in DOMAIN actions |->
     IF actions[i].topic = New /\ verdicts[At(actions, i)] = "leans"
     THEN [actions[i] EXCEPT !.question = Scoped(@)] ELSE actions[i]]

\* external: what the judge may say of each question; it errs only by silence.
Verdicts(actions) ==
  LET asked == Questions(actions) IN
  {v \in [DOMAIN asked -> {"alone", "leans", "none"}] :
     \A i \in DOMAIN asked : v[i] = "alone" => actions[asked[i]].question.alone}

Covered(actions) == UNION {actions[i].question.themes : i \in DOMAIN actions}

\* The judge answers: the split is kept, asked for once more, or given up.
Judge ==
  /\ intent.pc = "judge"
  /\ \E covers \in BOOLEAN, verdicts \in Verdicts(intent.actions) :
       LET asked == Questions(intent.actions) IN
       /\ covers => Covered(intent.actions) = intent.themes
       /\ intent' =
            IF covers
            THEN [Act(MadeToStandAlone(intent.actions, verdicts)) EXCEPT
                    !.unjudged = {asked[i] : i \in {j \in DOMAIN asked : verdicts[j] = "none"}}]
            ELSE LET dropped == [intent EXCEPT !.actions = <<>>] IN
                 IF intent.again THEN Unsplit(dropped)
                 ELSE [dropped EXCEPT !.pc = "split", !.again = TRUE]

\* No verdict on the split: it is dropped.
JudgeFails ==
  /\ intent.pc = "judge"
  /\ intent' = Unsplit([intent EXCEPT !.actions = <<>>])

IntentNext ==
  \/ Decide
  \/ DecideFails
  \/ Rewrite
  \/ AskSplit
  \/ AskSplitFails
  \/ Judge
  \/ JudgeFails

IntentSpec == IntentInit /\ [][IntentNext]_intent

-----------------------------------------------------------------------------
(* Properties *)

\* apply_continue: an empty question stands for the whole message.
Carried(action) == IF action.question = Blank THEN Message ELSE action.question

\* Whichever calls fail on the way, a message that is acted on reaches topics whole:
\* every theme it raises is asked somewhere, no topic is continued that is not there,
\* and a new topic is never left with a fragment the judge found to lean on the rest of
\* the message.  A follow-up nobody could place continues a topic.
TurnsReachTopicsWhole ==
  intent.pc = "act" =>
    /\ UNION {Carried(intent.actions[i]).themes : i \in DOMAIN intent.actions} = intent.themes
    /\ \A i \in DOMAIN intent.actions :
         LET a == intent.actions[i] IN
         /\ a.topic \in Topics \cup {New}
         /\ Carried(a).alone \/ Carried(a).whole \/ i \in intent.unjudged
    /\ intent.leaning /\ intent.route = Unknown => intent.actions[1].topic \in Topics
=============================================================================
