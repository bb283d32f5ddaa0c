--------------------------- MODULE ExecutionQueue ---------------------------
(***************************************************************************)
(* What the executions table promises as a work queue, whoever writes it:  *)
(* rows are claimed oldest first by updated_at, one holder at a time, and  *)
(* every write sends a row to the back.  Engine.tla implements it; here    *)
(* there are no checkpoints, so executions may loop for ever and the       *)
(* question whether one of them starves another can be asked.              *)
(***************************************************************************)
EXTENDS Integers

CONSTANTS Executions

VARIABLES
  status,   \* executions.status, "unstarted" and "swept" where there is no row
  wait,     \* wait_kind, "elapsed" once a timer's until has passed
  lease,    \* lease_until against the clock: none, held, expired
  older     \* <<a, b>> when a's updated_at is before b's

vars == <<status, wait, lease, older>>

Terminal == {"Completed", "Failed", "Cancelled"}
Idle     == {"Ready", "Waiting"} \cup Terminal
InTable(e) == status[e] \in Idle \cup {"Running"}

Init ==
  /\ status = [e \in Executions |-> "unstarted"]
  /\ wait = [e \in Executions |-> "none"]
  /\ lease = [e \in Executions |-> "none"]
  /\ older = {}

\* updated_at = now().
ToBack(e) ==
  older' = {p \in older : p[1] # e /\ p[2] # e}
             \cup {<<x, e>> : x \in {y \in Executions : y # e /\ InTable(y)}}

\* An execution is created Ready.
Insert(e) ==
  /\ status[e] = "unstarted"
  /\ status' = [status EXCEPT ![e] = "Ready"]
  /\ wait' = [wait EXCEPT ![e] = "none"]
  /\ lease' = [lease EXCEPT ![e] = "none"]
  /\ ToBack(e)

Claimable(e) ==
  \/ status[e] = "Ready"
  \/ status[e] = "Running" /\ lease[e] = "expired"
  \/ status[e] = "Waiting" /\ wait[e] = "elapsed"

\* Mutant: the claim query without its ORDER BY.
ClaimUnordered(e) ==
  /\ Claimable(e)
  /\ status' = [status EXCEPT ![e] = "Running"]
  /\ lease' = [lease EXCEPT ![e] = "held"]
  /\ ToBack(e)
  /\ UNCHANGED wait

\* claim_one_ready takes the claimable row with the oldest updated_at.
Claim(e) ==
  /\ Claimable(e)
  /\ ~\E x \in Executions : Claimable(x) /\ <<x, e>> \in older
  /\ status' = [status EXCEPT ![e] = "Running"]
  /\ lease' = [lease EXCEPT ![e] = "held"]
  /\ ToBack(e)
  /\ UNCHANGED wait

\* The holder commits its step and gives the lease back.
Settle(e) ==
  /\ status[e] = "Running"
  /\ \E s \in Idle, k \in {"none", "input", "timer"} :
       /\ s = "Waiting" <=> k # "none"
       /\ status' = [status EXCEPT ![e] = s]
       /\ wait' = [wait EXCEPT ![e] = k]
  /\ lease' = [lease EXCEPT ![e] = "none"]
  /\ ToBack(e)

\* A control call writes a row nobody holds.
Rewrite(e) ==
  /\ status[e] \in Idle
  /\ \E s \in {"Ready", "Cancelled"} : status' = [status EXCEPT ![e] = s]
  /\ wait' = [wait EXCEPT ![e] = "none"]
  /\ ToBack(e)
  /\ UNCHANGED lease

\* Leases run out, one by one or all at once when an engine starts.
Expire(E) ==
  /\ \A e \in E : lease[e] = "held"
  /\ lease' = [e \in Executions |-> IF e \in E THEN "expired" ELSE lease[e]]
  /\ UNCHANGED <<status, wait, older>>

Elapse(e) ==
  /\ wait[e] = "timer"
  /\ wait' = [wait EXCEPT ![e] = "elapsed"]
  /\ UNCHANGED <<status, lease, older>>

\* The sweep removes rows; it does not look at them again once it chose them.
Delete(E) ==
  /\ \A e \in E : InTable(e)
  /\ status' = [e \in Executions |-> IF e \in E THEN "swept" ELSE status[e]]
  /\ wait' = [e \in Executions |-> IF e \in E THEN "none" ELSE wait[e]]
  /\ lease' = [e \in Executions |-> IF e \in E THEN "none" ELSE lease[e]]
  /\ older' = {p \in older : p[1] \notin E /\ p[2] \notin E}

ClaimSome == \E e \in Executions : Claim(e)

Next ==
  \/ \E e \in Executions : Insert(e)
  \/ ClaimSome
  \/ \E e \in Executions : Settle(e)
  \/ \E e \in Executions : Rewrite(e)
  \/ \E E \in SUBSET Executions : Expire(E)
  \/ \E e \in Executions : Elapse(e)
  \/ \E E \in SUBSET Executions : Delete(E)

Spec == Init /\ [][Next]_vars

\* While there is work some tick slot claims it: every tick ends, and the loop
\* spawns the next one on a NOTIFY or after the fallback interval.
FairSpec == Spec /\ WF_vars(ClaimSome)

\* A Ready execution is claimed, or removed, whatever the others do - loop for
\* ever, fail, expire - unless its own user keeps rewriting it, which sends it to
\* the back each time.
NoStarvation ==
  \A e \in Executions :
    \/ status[e] = "Ready" ~> status[e] # "Ready"
    \/ []<><<Rewrite(e)>>_vars
=============================================================================
