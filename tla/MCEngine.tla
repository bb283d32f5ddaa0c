------------------------------ MODULE MCEngine ------------------------------
(***************************************************************************)
(* Instances of Engine for TLC.  The .cfg files choose the sizes; two tick *)
(* slots and two engine processes are the least that can race.             *)
(***************************************************************************)
EXTENDS Engine, TLC

\* Tick slots, executions and callers differ only by their names.
Anonymous ==
  Permutations(Workers) \cup Permutations(Executions) \cup Permutations(Clients)

\* Callers and failures in turn: nobody calls an engine whose process or tick has failed.
Calm == (\A c \in Clients : client[c].pc = "idle") \/ (boots = 1 /\ faults = 0)

CalmSpec == Init /\ [][Next /\ Calm']_vars /\ Fairness
=============================================================================
