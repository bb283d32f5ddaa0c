----------------------------- MODULE AgentTurn ------------------------------
(***************************************************************************)
(* The turns of one conversation as the built-in graphs run them: the llm  *)
(* and tool executors, the dispatcher in front of them, what step() does   *)
(* with their outputs, and the material a follow-up inherits.              *)
(*                                                                         *)
(* The language model, the decider and the tools are services whose every  *)
(* answer is possible.  Their words are abstracted to what the executors   *)
(* tell apart.  Time is the order of the lookups and how many of them are  *)
(* older than ten minutes.                                                 *)
(***************************************************************************)
EXTENDS Integers, Sequences, SequencesExt, FiniteSets, SeqFilter

CONSTANTS
  Graphs,            \* the built-in graphs that turns run: "agent", "simple", "rag"
  Window,            \* RENDERED_TOOL_RESULTS
  MaxParallel,       \* MAX_PARALLEL_TOOL_CALLS
  MaxErrors,         \* MAX_CONSECUTIVE_TOOL_ERRORS
  Attempts,          \* RETRY_ATTEMPTS
  TokenBudget,       \* DEFAULT_TOKEN_BUDGET, one token per answer of a service
  ToolCallBudget,    \* DEFAULT_TOOL_CALL_BUDGET
  MaxTurns,          \* bound: turns of the conversation
  MaxLookups,        \* bound: steps that look something up
  MaxLost            \* bound: ticks lost before their commit

ASSUME AgentAssumption ==
  /\ Graphs \subseteq {"agent", "simple", "rag"} /\ Graphs # {}
  /\ Window \in Nat \ {0} /\ MaxParallel \in Nat \ {0} /\ Attempts \in Nat \ {0}
  /\ MaxErrors \in Nat \ {0, 1}
  /\ TokenBudget \in Nat /\ ToolCallBudget \in Nat
  /\ MaxTurns \in Nat /\ MaxLookups \in Nat /\ MaxLost \in Nat

VARIABLES
  graph,      \* the graph of the current turn
  turn,       \* turns so far
  carried,    \* state["prior_material"]
  fetched,    \* state["tool_result"]
  lookups,    \* steps that have looked something up, in all turns
  stale,      \* the first so many of them are older than the freshness limit
  pc,         \* the node to run, or the point the llm executor has reached
  job,        \* the locals of the llm executor
  out,        \* its output: state["llm"] once committed
  spent,      \* what the services charged for this run of the node
  lost        \* ticks lost so far

vars == <<graph, turn, carried, fetched, lookups, stale, pc, job, out, spent, lost>>
conversation == <<graph, turn, carried, fetched>>

-----------------------------------------------------------------------------
(* Material *)

\* ToolRecord: the step that fetched it, and whether it reached its source.
Record == [at : 1..MaxLookups, ok : BOOLEAN]

\* The last chunk of chunk_by(made_in_the_same_step_as): where its records are.
LatestStep(records) ==
  {i \in DOMAIN records : \A j \in i..Len(records) : records[j].at = records[Len(records)].at}

\* Mutant: the window begins one record late.
ShownShort(records) ==
  LET step == Cardinality(LatestStep(records))
      wide == IF step > Window THEN step ELSE Window
  IN  SubSeq(records, IF Len(records) >= wide THEN Len(records) - wide + 2 ELSE 1, Len(records))

\* first_shown and what follows it.
Shown(records) ==
  LET step == Cardinality(LatestStep(records))
      wide == IF step > Window THEN step ELSE Window
  IN  SubSeq(records, IF Len(records) > wide THEN Len(records) - wide + 1 ELSE 1, Len(records))

ReachedItsSource == {r \in Record : r.ok}
Fresh == {r \in Record : r.at > stale}

\* Material::of: what earlier turns found, then what this one has.
Material == carried \o fetched

\* AppendEach under tool_result.
WithRecords(records) == fetched \o records

\* Material::only_what_was_carried_and_is_still_fresh.
StillFresh == Only(carried, Fresh)

\* What a follow-up inherits.
CarriedRecords == Shown(Only(Material, ReachedItsSource))

\* The steps since anything reached its source.
ConsecutiveFailedSteps(records) ==
  Cardinality({r.at : r \in {s \in ToSet(records) :
                               \A t \in ToSet(records) : t.ok => t.at < s.at}})

-----------------------------------------------------------------------------
(* LlmOutput.  tool_call is null, falsy without being null ([], {}, ""),
   nothing that can be called, or a number of calls; reply is nothing to read,
   text, or JSON that is not a string. *)

Shapes  == {"null", "empty", "bad", "calls"}
Replies == {"none", "text", "value"}

\* parse_llm_output: whatever the model writes becomes one of these.
Written ==
  {w \in [shape : Shapes, n : 0..(MaxParallel + 1), known : BOOLEAN, reply : Replies] :
     /\ w.shape = "calls" <=> w.n > 0
     /\ w.known => w.n = 1}

\* History: what came of putting a reply to the decider.
Verdicts == {"none", "unheard", "sound", "fault"}

Output == [shape : Shapes, n : 0..(MaxParallel + 1), known : BOOLEAN, reply : Replies,
           by : {"model", "engine"}, beside : Shapes, view : Seq(Record),
           verdict : Verdicts, judged : Seq(Record)]

\* What the model wrote, with the material it was shown (by, beside, view, verdict
\* and judged are history: who wrote the reply, beside which call, and how it was judged).
ByModel(w, view) ==
  [shape |-> w.shape, n |-> w.n, known |-> w.known, reply |-> w.reply, by |-> "model",
   beside |-> w.shape, view |-> view, verdict |-> "none", judged |-> <<>>]

\* decline, clarify, COMPOSE_FAILURE: a reply composed in Rust, no call.
ByEngine ==
  [shape |-> "null", n |-> 0, known |-> FALSE, reply |-> "text", by |-> "engine",
   beside |-> "null", view |-> <<>>, verdict |-> "none", judged |-> <<>>]

\* refused: the reply is replaced, the rest of the output stays.
Refused(o) == [o EXCEPT !.reply = "text", !.by = "engine"]

\* without_tool_call.
WithoutToolCall(o) == [o EXCEPT !.shape = "null", !.n = 0, !.known = FALSE]

\* composed_call: exactly one call.
ComposedCall(w) == w.n = 1

\* in_catalog.
InCatalog(w) == w.known

\* Condition::Truthy on the tool call.
Truthy(o) == o.shape \in {"bad", "calls"}

-----------------------------------------------------------------------------
(* The llm executor's locals *)

Modes   == {"Loop", "ComposeOnly", "FromMaterial"}
Origins == {"none", "picked", "verbatim", "composed", "pointed"}
Usage   == [gen : Nat, dec : Nat]
Nothing == [gen |-> 0, dec |-> 0]

\* lookup is FAST_TOOL_CALL_FIELD; origin (history) is where its argument came from;
\* asked (history) is the staleness when the model was asked.
NewJob == [mode |-> "Loop", view |-> <<>>, attempt |-> 1, usage |-> Nothing,
           lookup |-> <<>>, origin |-> "none", asked |-> 0]

\* What one answer of the model, or of the decider, adds.
Generated(u) == [u EXCEPT !.gen = @ + 1]
Decided(u)   == [u EXCEPT !.dec = @ + 1]

\* config["tool_calling"], set by agent_graph only.
ToolCalling == graph = "agent"

\* The points of a turn: a node to run, inside the llm executor, or over.
Points == {"retrieve", "llm", "tool", "compose", "recompose", "point", "lookup",
           "answer", "check", "again", "recheck", "commit", "ended", "failed"}

-----------------------------------------------------------------------------
(* Turns *)

Entry(g) == IF g = "rag" THEN "retrieve" ELSE "llm"

Init ==
  /\ graph \in Graphs /\ turn = 1
  /\ carried = <<>> /\ fetched = <<>> /\ lookups = 0 /\ stale = 0
  /\ pc = Entry(graph) /\ job = NewJob /\ out = ByEngine /\ spent = Nothing /\ lost = 0

\* start_continuing, carry_material_from: a parent of another user, or one that cannot
\* be read, carries nothing.
StartContinuing ==
  /\ pc \in {"ended", "failed"} /\ turn < MaxTurns
  /\ graph' \in Graphs /\ turn' = turn + 1
  /\ carried' \in {<<>>, CarriedRecords}
  /\ fetched' = <<>>
  /\ pc' = Entry(graph') /\ job' = NewJob /\ out' = ByEngine /\ spent' = Nothing
  /\ UNCHANGED <<lookups, stale, lost>>

TimePasses ==
  /\ stale' \in (stale + 1)..lookups
  /\ UNCHANGED <<conversation, lookups, pc, job, out, spent, lost>>

\* A tick lost inside the llm executor leaves the checkpoint as it was: the node runs
\* again from its start, lookups included.
TickLost ==
  /\ pc \notin {"retrieve", "llm", "tool", "ended", "failed"} /\ lost < MaxLost
  /\ lost' = lost + 1
  /\ pc' = "llm" /\ job' = NewJob /\ out' = ByEngine /\ spent' = Nothing
  /\ UNCHANGED <<conversation, lookups, stale>>

\* A TaskError: no Failed edge, so step() fails the execution.
Fails ==
  /\ pc' = "failed"
  /\ UNCHANGED <<conversation, lookups, stale, job, out, spent, lost>>

-----------------------------------------------------------------------------
(* LlmTaskExecutor *)

\* available_tools: the catalog is not cached and cannot be listed.
CatalogUnavailable == pc = "llm" /\ ToolCalling /\ Fails

\* complete_request_for: the mode's instructions and the material to show.
Ask(mode, records, j) ==
  /\ job' = [j EXCEPT !.mode = mode, !.view = Shown(records), !.attempt = 1, !.asked = stale]
  /\ pc' = "answer"

\* decline.
Decline(u) ==
  /\ job' = [job EXCEPT !.usage = u]
  /\ out' = ByEngine /\ pc' = "commit"

\* execute, when there is no fast path to try.
ExecuteLoop ==
  /\ pc = "llm"
  /\ ~ToolCalling \/ fetched # <<>>
  /\ Ask("Loop", Material, job)
  /\ UNCHANGED <<conversation, lookups, stale, out, spent, lost>>

TriesFastPath == pc = "llm" /\ ToolCalling /\ fetched = <<>>

\* Mutant: a turn whose scope decision fails goes to the model.
ScopeUnansweredAsks ==
  /\ TriesFastPath
  /\ Ask("Loop", Material, job)
  /\ UNCHANGED <<conversation, lookups, stale, out, spent, lost>>

\* decide_fast_path: no answer to the scope decision.
ScopeUnanswered ==
  /\ TriesFastPath
  /\ Decline(Nothing)
  /\ UNCHANGED <<conversation, lookups, stale, spent, lost>>

\* decide_fast_path: no source, too little confidence, or a name nobody has.
ScopeNone ==
  /\ TriesFastPath
  /\ Decline(Decided(Nothing)) /\ spent' = Decided(spent)
  /\ UNCHANGED <<conversation, lookups, stale, lost>>

\* answer_from_material, offered only when something was carried.
AnswerFromMaterial ==
  /\ TriesFastPath /\ carried # <<>>
  /\ spent' = Decided(spent)
  /\ IF StillFresh = <<>>
     THEN Decline(Decided(Nothing))
     ELSE /\ Ask("FromMaterial", StillFresh, [job EXCEPT !.usage = Decided(@)])
          /\ UNCHANGED out
  /\ UNCHANGED <<conversation, lookups, stale, lost>>

\* picked_value: an option, named outright, and the only one.
PickedValue(answers) == answers.chosen /\ answers.stated /\ answers.oneOnly
Answers == [chosen : BOOLEAN, stated : BOOLEAN, oneOnly : BOOLEAN]

\* decidable_field, single_required_free_text_field: what a tool's schema says of its one
\* required string, if it has just one.
Schemas == SUBSET {"decidable", "freeText"}

\* fast_dispatchable_tool_call: where the argument of the call comes from, if there is one.
FastArgument(schema, answers, safeVerbatim) ==
  IF "decidable" \in schema /\ PickedValue(answers) THEN "picked"
  ELSE IF "freeText" \in schema /\ safeVerbatim THEN "verbatim"
  ELSE "none"

\* decide_fast_path: a tool of the catalog, with its one required argument's schema.
ScopeTool ==
  /\ TriesFastPath
  /\ spent' = Decided(spent)
  /\ \E schema \in Schemas, answers \in Answers, safe \in BOOLEAN :
       LET origin == FastArgument(schema, answers, safe) IN
       /\ job' = [job EXCEPT !.usage = Decided(@), !.origin = origin, !.attempt = 1]
       /\ pc' = IF origin = "none" THEN "compose" ELSE "lookup"
  /\ UNCHANGED <<conversation, lookups, stale, out, lost>>

\* complete_with_retries: an error, and another attempt if there is one.
Retry ==
  /\ job.attempt < Attempts
  /\ job' = [job EXCEPT !.attempt = @ + 1]
  /\ UNCHANGED <<conversation, lookups, stale, pc, out, spent, lost>>

CompleteErrs == pc \in {"compose", "recompose", "answer", "again"} /\ Retry

\* complete_with_retries: the last attempt fails.
CompleteFails ==
  /\ pc \in {"compose", "recompose", "answer"} /\ job.attempt = Attempts
  /\ Fails

\* composed: no call in the first output, so it is asked for once more.
ComposedNoCall ==
  /\ pc = "compose"
  /\ spent' = Generated(spent)
  /\ \E w \in Written : ~ComposedCall(w)
  /\ job' = [job EXCEPT !.usage = Generated(@), !.attempt = 1]
  /\ pc' = "recompose"
  /\ UNCHANGED <<conversation, lookups, stale, out, lost>>

\* compose_tool_call: a call of the catalog goes on, anything else is COMPOSE_FAILURE.
ComposeToolCall ==
  /\ pc \in {"compose", "recompose"}
  /\ spent' = Generated(spent)
  /\ \E w \in Written :
       /\ ComposedCall(w) \/ pc = "recompose"
       /\ IF ComposedCall(w) /\ InCatalog(w)
          THEN /\ job' = [job EXCEPT !.usage = Generated(@), !.origin = "composed"]
               /\ pc' = "point" /\ UNCHANGED out
          ELSE /\ job' = [job EXCEPT !.usage = Generated(@)]
               /\ out' = ByEngine /\ pc' = "commit"
  /\ UNCHANGED <<conversation, lookups, stale, lost>>

\* not_pointed_at: the decider did not answer twice, so the value is asked for.
PointUnchecked ==
  /\ pc = "point"
  /\ out' = ByEngine /\ pc' = "commit"
  /\ UNCHANGED <<conversation, lookups, stale, job, spent, lost>>

\* not_pointed_at, asked_for_instead: the decision is not added to the usage.
PointDecided ==
  /\ pc = "point"
  /\ spent' = Decided(spent)
  /\ \/ out' = ByEngine /\ pc' = "commit" /\ UNCHANGED job
     \/ pc' = "lookup" /\ job' = [job EXCEPT !.origin = "pointed"] /\ UNCHANGED out
  /\ UNCHANGED <<conversation, lookups, stale, lost>>

\* dispatch_tool_fast, looked_up: every failure becomes an error record.
LookedUp == {<<[at |-> lookups + 1, ok |-> ok]>> : ok \in BOOLEAN}

\* answered_with_the_lookup: the model is asked with the record beside the material.
FastLookup ==
  /\ pc = "lookup" /\ lookups < MaxLookups
  /\ lookups' = lookups + 1
  /\ \E record \in LookedUp :
       Ask("Loop", Material \o record, [job EXCEPT !.lookup = record])
  /\ UNCHANGED <<conversation, stale, out, spent, lost>>

\* complete_with_retries: an answer, first or asked for again with the fault stated.
\* What a second answer costs is merged with what the first did.
Completed ==
  /\ pc \in {"answer", "again"}
  /\ spent' = Generated(spent)
  /\ \E w \in Written : out' = ByModel(w, job.view)
  /\ job' = [job EXCEPT !.usage = Generated(@)]
  /\ pc' = IF pc = "answer" THEN "check" ELSE "recheck"
  /\ UNCHANGED <<conversation, lookups, stale, lost>>

\* asked_again_with fails: the first reply is refused.
AskedAgainFails ==
  /\ pc = "again" /\ job.attempt = Attempts
  /\ out' = Refused(out) /\ pc' = "commit"
  /\ UNCHANGED <<conversation, lookups, stale, job, spent, lost>>

\* Mutant: only a first reply is checked.
NeedsCheckFirst(o) == o.reply = "text" /\ o.shape = "null" /\ pc = "check"

\* faults_in: there is a text to check and no call beside it.
NeedsCheck(o) == o.reply = "text" /\ o.shape = "null"

CheckNotNeeded ==
  /\ pc \in {"check", "recheck"} /\ ~NeedsCheck(out)
  /\ pc' = "commit"
  /\ UNCHANGED <<conversation, lookups, stale, job, out, spent, lost>>

\* reply_check_request: the reply is put to the decider beside the material that was shown.
JudgedAs(verdict) == [out EXCEPT !.verdict = verdict, !.judged = job.view]

\* Check::CouldNotRun: no room for it in one decision, or no answer twice.
CouldNotRun ==
  /\ pc \in {"check", "recheck"} /\ NeedsCheck(out)
  /\ out' = Refused(JudgedAs("unheard")) /\ pc' = "commit"
  /\ UNCHANGED <<conversation, lookups, stale, job, spent, lost>>

\* Faults, read from the two answers of the check.
Faults == [promises : BOOLEAN, ungrounded : BOOLEAN]
Sound(faults) == ~faults.promises /\ ~faults.ungrounded
Verdict(faults) == IF Sound(faults) THEN "sound" ELSE "fault"

\* Mutant: the check of a second reply is not charged.
CheckRanFree ==
  /\ pc \in {"check", "recheck"} /\ NeedsCheck(out)
  /\ spent' = Decided(spent)
  /\ job' = [job EXCEPT !.usage = IF pc = "check" THEN Decided(@) ELSE @, !.attempt = 1]
  /\ \E faults \in Faults :
       /\ pc' = IF ~Sound(faults) /\ pc = "check" THEN "again" ELSE "commit"
       /\ out' = IF ~Sound(faults) /\ pc = "recheck" THEN Refused(JudgedAs("fault"))
                 ELSE JudgedAs(Verdict(faults))
  /\ UNCHANGED <<conversation, lookups, stale, lost>>

\* Check::Ran, in checked_against and second_reply_checked_against: a first fault is
\* asked about again, a second one refused.
CheckRan ==
  /\ pc \in {"check", "recheck"} /\ NeedsCheck(out)
  /\ spent' = Decided(spent)
  /\ job' = [job EXCEPT !.usage = Decided(@), !.attempt = 1]
  /\ \E faults \in Faults :
       /\ pc' = IF ~Sound(faults) /\ pc = "check" THEN "again" ELSE "commit"
       /\ out' = IF ~Sound(faults) /\ pc = "recheck" THEN Refused(JudgedAs("fault"))
                 ELSE JudgedAs(Verdict(faults))
  /\ UNCHANGED <<conversation, lookups, stale, lost>>

-----------------------------------------------------------------------------
(* step() and the tool executor *)

\* Budget::charge, exhausted.  The row's budget is read afresh by every tick.
Exhausted(u, toolCalls) ==
  u.gen + u.dec >= TokenBudget \/ toolCalls >= ToolCallBudget

\* charge_budget, extra_tool_call_charge: one call for the node, one more for its lookup.
ToolCallsCharged == 1 + Len(job.lookup)

\* apply_output, apply_fast_tool_call and the llm node's edges.
LlmStep ==
  /\ pc = "commit"
  /\ LET o == IF job.mode = "FromMaterial" THEN WithoutToolCall(out) ELSE out IN
     /\ out' = o
     /\ fetched' = WithRecords(job.lookup)
     /\ pc' = IF Exhausted(job.usage, ToolCallsCharged) THEN "failed"
              ELSE IF ToolCalling /\ Truthy(o) THEN "tool"
              ELSE "ended"
  /\ UNCHANGED <<graph, turn, carried, lookups, stale, job, spent, lost>>

\* requested_calls and call_tool: nothing usable to call, a tool service out of reach,
\* an approval, or output that is no JSON.
ToolFails == pc \in {"tool", "retrieve"} /\ Fails

\* records_of, or refused_whole for too many calls: one record per call, of one step.
StepRecords(n) ==
  IF n > MaxParallel THEN {<<[at |-> lookups + 1, ok |-> FALSE]>>}
  ELSE [1..n -> [at : {lookups + 1}, ok : BOOLEAN]]

\* recoverable_unless_the_run_is_too_long.
TooLong(records) ==
  (\A r \in ToSet(records) : ~r.ok) /\ ConsecutiveFailedSteps(fetched) + 1 >= MaxErrors

\* ToolTaskExecutor::execute and the AppendEach of its records.
ToolStep ==
  /\ pc = "tool" /\ out.shape = "calls" /\ lookups < MaxLookups
  /\ lookups' = lookups + 1
  /\ \E records \in StepRecords(out.n) :
       /\ fetched' = IF TooLong(records) THEN fetched ELSE WithRecords(records)
       /\ pc' = IF TooLong(records) \/ Exhausted(Nothing, 1) THEN "failed" ELSE "llm"
  /\ job' = NewJob /\ spent' = Nothing
  /\ UNCHANGED <<graph, turn, carried, stale, out, lost>>

\* rag_graph's retrieve node: its records go under a key of their own.
RetrieveStep ==
  /\ pc = "retrieve" /\ lookups < MaxLookups
  /\ lookups' = lookups + 1
  /\ \E records \in StepRecords(1) :
       pc' = IF TooLong(records) \/ Exhausted(Nothing, 1) THEN "failed" ELSE "llm"
  /\ UNCHANGED <<conversation, stale, job, out, spent, lost>>

-----------------------------------------------------------------------------
Decide == ScopeUnanswered \/ ScopeNone \/ AnswerFromMaterial \/ ScopeTool
Compose == ComposedNoCall \/ ComposeToolCall \/ PointUnchecked \/ PointDecided \/ FastLookup
Complete == CompleteErrs \/ CompleteFails \/ Completed \/ AskedAgainFails
Check == CheckNotNeeded \/ CouldNotRun \/ CheckRan
Run == LlmStep \/ ToolFails \/ ToolStep \/ RetrieveStep

Next ==
  \/ StartContinuing \/ TimePasses \/ TickLost
  \/ CatalogUnavailable \/ ExecuteLoop
  \/ Decide \/ Compose \/ Complete \/ Check \/ Run

Spec == Init /\ [][Next]_vars

-----------------------------------------------------------------------------
(* Properties *)

\* The conversation, the executor's locals and its output keep their types.
TypeOK ==
  /\ graph \in Graphs /\ turn \in Nat
  /\ carried \in Seq(Record) /\ fetched \in Seq(Record)
  /\ lookups \in 0..MaxLookups /\ stale \in 0..lookups
  /\ pc \in Points
  /\ job \in [mode : Modes, view : Seq(Record), attempt : 1..Attempts, usage : Usage,
              lookup : Seq(Record), origin : Origins, asked : Nat]
  /\ out \in Output
  /\ spent \in Usage
  /\ lost \in 0..MaxLost

ReachesThePerson == pc = "ended" /\ out.by = "model" /\ out.reply # "none"

\* "An answer from the model's own memory has no path to the person" (docs/architecture.md):
\* the model wrote every reply of an agent turn with a lookup of that turn before it, or
\* with carried material none of which had gone stale when it was asked.  The fast path
\* looks up nothing on a composed argument that the message was not found to point at, and
\* a turn never goes on after MAX_CONSECUTIVE_TOOL_ERRORS steps in which nothing reached its
\* source, whatever the decider and the model answered or failed to.
AnswersHaveASource ==
  /\ ReachesThePerson /\ graph = "agent" =>
       /\ out.view # <<>>
       /\ fetched = <<>> => \A r \in ToSet(out.view) : r.ok /\ r.at > job.asked
  /\ pc = "lookup" \/ job.lookup # <<>> => job.origin \in {"picked", "verbatim", "pointed"}
  /\ ConsecutiveFailedSteps(fetched) < MaxErrors

\* A text the model wrote with no call beside it, first or second, reaches the person only
\* after it was put to the decider beside the very material it was written from, and where
\* the decider was heard, only if it was found sound (checked_against).
PlainRepliesHoldUp ==
  ReachesThePerson /\ out.beside = "null" /\ out.reply = "text" =>
    out.verdict \in {"sound", "unheard"} /\ out.judged = out.view

\* docs/architecture.md: "an unreachable decider leaves the reply exactly as it was", so a
\* reply that could not be checked is committed as the model wrote it.
UncheckedRepliesStay ==
  pc = "commit" /\ out.verdict = "unheard" => out.by = "model"

Asking == {"answer", "check", "again", "recheck"}

\* While the model is asked within the loop, it is shown the end of the material, and in it
\* every record of the latest step, "even beyond the usual window" (first_shown and its test;
\* the engine README has the window alone, which a wider step exceeds).
LatestStepSeen ==
  pc \in Asking /\ job.mode = "Loop" =>
    LET all == Material \o job.lookup
        first == Len(all) - Len(job.view) + 1
    IN  /\ job.view = SubSeq(all, first, Len(all))
        /\ \A i \in DOMAIN all : all[i].at = all[Len(all)].at => i >= first

\* When the node completes, its usage has every answer of the model, the discarded ones
\* too, and every decision except the one over a composed argument, which the code drops
\* although the engine README has every typed decision charged (merge_usage, not_pointed_at).
UsageAccounted ==
  pc = "commit" =>
    /\ job.usage.gen = spent.gen
    /\ spent.dec - job.usage.dec \in {0, 1}
    /\ spent.dec # job.usage.dec => job.origin \in {"composed", "pointed"}
=============================================================================
