------------------------------ MODULE MCUpkeep ------------------------------
(***************************************************************************)
(* The small machines at the edges of the system, which share no state: a  *)
(* behaviour is one of the queue of executions, of the schedules, of the   *)
(* ownership of the crawler, of the gateway, of the llm-router, or one     *)
(* question to a lookup.                                                   *)
(***************************************************************************)
EXTENDS ExecutionQueue, Schedules, CrawlerOwner, Gateway, Retrieval, MCLlm, TLC

VARIABLE part

\* A schedule that fires at every instant beside one that fires seldom and stops.
MCFires == "often" :> (1 .. 4) @@ "seldom" :> {1, 3}

\* Sentences that fit, that must be cut into words, and words longer than the window.
Sentences == {<<3>>, <<1, 2>>, <<6>>, <<4, 2, 1>>, <<5, 9>>}

Lines == {<<s>> : s \in Sentences} \cup {<<s, t>> : s, t \in Sentences}

MCTexts == {<<l>> : l \in Lines} \cup {<<l, m>> : l, m \in Lines}

upkeepVars == <<part, question, vars, scheduleVars, ownerVars, gatewayVars, llmVars>>

MCInit ==
  /\ Init /\ ScheduleInit /\ OwnerInit /\ GatewayInit /\ LlmInit
  /\ part \in {"queue", "schedules", "owner", "gateway", "router", "lookup"}
  /\ IF part = "lookup" THEN question \in Questions ELSE question = NoQuestion

MCNext ==
  /\ part' = part /\ question' = question
  /\ \/ part = "queue" /\ Next /\ UNCHANGED <<scheduleVars, ownerVars, gatewayVars, llmVars>>
     \/ part = "schedules" /\ ScheduleNext /\ UNCHANGED <<vars, ownerVars, gatewayVars, llmVars>>
     \/ part = "owner" /\ OwnerNext /\ UNCHANGED <<vars, scheduleVars, gatewayVars, llmVars>>
     \/ part = "gateway" /\ GatewayNext /\ UNCHANGED <<vars, scheduleVars, ownerVars, llmVars>>
     \/ part = "router" /\ LlmNext /\ UNCHANGED <<vars, scheduleVars, ownerVars, gatewayVars>>

MCSpec == MCInit /\ [][MCNext]_upkeepVars /\ WF_vars(ClaimSome)
=============================================================================
