------------------------------ MODULE MCSafety ------------------------------
(***************************************************************************)
(* Parts that share no state and of which only safety is asked: a          *)
(* super-step over the graphs of MCGraphStep, the two halves of the tool   *)
(* service, and two topics with two deliveries of one turn, either of      *)
(* which may be cut short (which is all a restart does to it).             *)
(***************************************************************************)
EXTENDS MCGraphStep, ToolRegistry, ToolRace, ChatTopics

VARIABLE part

\* A key in a bound header beside one in a header of the vendor's own, one of each, and none.
MCHeaders == <<{"authorization", "x-api-key"}, {"authorization"}, {}>>

NoCall ==
  /\ call = [kind |-> "prefetch", width |-> 1, quorum |-> 1, pc |-> "done", at |-> 1,
             ready |-> <<>>, result |-> "none"]
  /\ op = <<>> /\ outcome = [taken |-> <<>>, failures |-> {}] /\ checked = {}
  /\ sent = {}

NoSteps == GraphInit /\ graph = PlainFan /\ exec.items = 0

MCInit ==
  /\ RegistryInit /\ Init
  /\ \/ part = "steps" /\ GraphInit /\ NoCall
     \/ part \in {"registry", "turns"} /\ NoSteps /\ NoCall
     \/ part = "race" /\ NoSteps /\ RaceInit

\* Two topics, and a call that fails while there is one.
Deliveries ==
  /\ Next
  /\ lastTopic' <= IF faults' = 0 THEN 2 ELSE 1
  /\ restarts' = 0
  /\ \A t \in Ids : /\ topics'[t].run \in {"none", "live", "Completed"}
                    /\ watcher'[t] # "closed"

MCNext ==
  /\ part' = part
  /\ \/ part = "steps" /\ GraphNext /\ UNCHANGED <<registryVars, raceVars, vars>>
     \/ part = "registry" /\ RegistryNext /\ UNCHANGED <<graphVars, raceVars, vars>>
     \/ part = "race" /\ RaceNext /\ UNCHANGED <<graphVars, registryVars, vars>>
     \/ part = "turns" /\ Deliveries /\ UNCHANGED <<graphVars, registryVars, raceVars>>

MCSpec == MCInit /\ [][MCNext]_<<part, graphVars, registryVars, raceVars, vars>>

\* The deliveries of a turn are alike, and so are the calls of a user.
Alike == Permutations(Senders) \cup Permutations(Calls)
=============================================================================
