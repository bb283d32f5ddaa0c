------------------------------- MODULE MCChat -------------------------------
(***************************************************************************)
(* The chat service in two parts that share no state: three topics that    *)
(* come, go and fail with no turn in flight, and the routing of one        *)
(* message.  The deliveries of a turn are in MCSafety.                     *)
(***************************************************************************)
EXTENDS ChatTopics, ChatIntent

VARIABLE part

MCInit ==
  /\ Init
  /\ \/ part = "topics" /\ intent = [pc |-> "none"]
     \/ part = "intent" /\ IntentInit

MCNext ==
  /\ part' = part
  /\ \/ part = "topics" /\ Next /\ sender' = sender /\ UNCHANGED intent
     \/ part = "intent" /\ IntentNext /\ UNCHANGED vars

MCSpec ==
  /\ MCInit /\ [][MCNext]_<<part, intent, vars>>
  /\ \A t \in Ids : WF_vars(Watch(t)) /\ SF_vars(StreamTerminal(t))
=============================================================================
