---------------------------- MODULE EngineProofs ----------------------------
(***************************************************************************)
(* Proofs about Engine.tla, for every number of executions, tick slots,    *)
(* callers and engine processes, and about GraphStep.tla, for every set of *)
(* graphs that validate() accepts.                                         *)
(***************************************************************************)
EXTENDS Engine, GraphStep, SeqFilterProofs, TLAPS

\* The tables and every call in flight are well formed, and the advisory lock is
\* held by a live process or by nobody, initially.
LEMMA TypeInit == Init => TypeOK
  BY EngineAssumption
  DEF Init, TypeOK, Row, Blank, Status, Live, Terminal, NoRow, WaitKind, Nodes,
      Lease, Steps, Checkpoint, NoCheckpoint, Worker, IdleWorker, Client,
      IdleClient, Sweep, IdleSweep

\* Process ids stay within the bound.
LEMMA UpType == TypeOK => up \subseteq 0..MaxBoots
  BY EngineAssumption DEF TypeOK

\* updated_at = now() keeps the order a relation on executions.
LEMMA TouchType ==
  ASSUME TypeOK, NEW e \in Executions, Touch(e)
  PROVE  older' \subseteq Executions \X Executions
  BY DEF TypeOK, Touch

\* What step() returns is a status, a wait and nodes that a row can hold, and
\* never Running.
LEMMA StepOutcomeType ==
  ASSUME NEW k, k.nodes \in Nodes, NEW o \in StepOutcomes(k)
  PROVE  /\ o.status \in Status \ {"Running"}
         /\ o.wait \in WaitKind
         /\ o.nodes \in Nodes
  BY DEF StepOutcomes, Outcome, Status, Live, Terminal, WaitKind, Nodes

\* A commit writes a well-formed row and a well-formed checkpoint.
LEMMA CommitType ==
  ASSUME TypeOK, NEW e \in Executions, NEW owner, NEW step, NEW c \in Checkpoint, NEW o,
         o.status \in Status, o.wait \in WaitKind, o.nodes \in Nodes,
         CommitStep(e, owner, step, c, o)
  PROVE  /\ row' \in [Executions -> Row]
         /\ cps' \in [Executions -> [Steps -> Checkpoint]]
         /\ older' \subseteq Executions \X Executions
<1>1. row[e] \in Row
  BY DEF TypeOK
<1>2. Released(row[e], o) \in Row
  BY <1>1, EngineAssumption DEF Released, Row, Lease
<1>3. row' \in [Executions -> Row]
  BY <1>2 DEF TypeOK, CommitStep
<1>4. cps' \in [Executions -> [Steps -> Checkpoint]]
  BY DEF TypeOK, CommitStep
<1>5. QED
  BY <1>3, <1>4, TouchType DEF CommitStep

\* A slot, a caller or the sweep that is done is well formed.
LEMMA IdleType == IdleWorker \in Worker /\ IdleClient \in Client /\ IdleSweep \in Sweep
  BY EngineAssumption
  DEF IdleWorker, Worker, IdleClient, Client, IdleSweep, Sweep, Nodes

\* Every step keeps the tables and the calls in flight well formed.
LEMMA TypeNext == TypeOK /\ [Next]_vars => TypeOK'
<1> SUFFICES ASSUME TypeOK, [Next]_vars PROVE TypeOK'
  OBVIOUS
<1>1. ASSUME NEW e \in Executions, StartExecution(e) PROVE TypeOK'
  <2>1. row' \in [Executions -> Row]
    BY <1>1, EngineAssumption
    DEF StartExecution, TypeOK, Row, Status, Live, WaitKind, Nodes, Lease
  <2>2. cps' \in [Executions -> [Steps -> Checkpoint]]
    BY <1>1, EngineAssumption DEF StartExecution, TypeOK, Checkpoint, Nodes, Steps
  <2> QED
    BY <1>1, <2>1, <2>2, TouchType DEF StartExecution, TypeOK
<1>2. ASSUME NEW w \in Workers, NEW e \in Executions, Claim(w, e) PROVE TypeOK'
  <2>1. PICK i \in up :
          /\ row' = [row EXCEPT ![e] = Leased(row[e], i)]
          /\ worker' = [worker EXCEPT ![w] =
                          [IdleWorker EXCEPT !.pc = "claimed", !.engine = i, !.exec = e]]
    BY <1>2 DEF Claim
  <2>2. i \in 0..MaxBoots
    BY UpType
  <2>3. Leased(row[e], i) \in Row
    <3>1. row[e] \in Row
      BY DEF TypeOK
    <3> QED
      BY <2>2, <3>1 DEF Leased, Row, Status, Live, Lease
  <2>4. ASSUME NEW v \in Workers
        PROVE  /\ worker'[v] \in Worker
               /\ worker'[v].pc # "idle" =>
                    worker'[v].exec \in Executions /\ worker'[v].engine \in up
    <3>1. CASE v = w
      <4>1. worker'[v] = [pc |-> "claimed", engine |-> i, exec |-> e, from |-> -1,
                          nodes |-> "none", iteration |-> 0]
        BY <2>1, <3>1 DEF IdleWorker, TypeOK
      <4> QED
        BY <4>1, <2>1, <2>2 DEF Worker, Nodes
    <3>2. CASE v # w
      <4>1. worker'[v] = worker[v]
        BY <2>1, <3>2 DEF TypeOK
      <4> QED
        BY <4>1 DEF TypeOK
    <3> QED
      BY <3>1, <3>2
  <2>5. worker' \in [Workers -> Worker]
    BY <2>1, <2>4 DEF TypeOK
  <2>6. row' \in [Executions -> Row]
    BY <2>1, <2>3 DEF TypeOK
  <2> QED
    BY <1>2, <2>4, <2>5, <2>6, TouchType DEF Claim, TypeOK
<1>3. ASSUME NEW w \in Workers, Load(w) PROVE TypeOK'
  <2>1. worker[w].exec \in Executions /\ worker[w].engine \in up /\ worker[w] \in Worker
    BY <1>3 DEF Load, TypeOK
  <2>2. PICK s \in Steps : worker' = [worker EXCEPT ![w] =
          [pc |-> "loaded", engine |-> worker[w].engine, exec |-> worker[w].exec,
           from |-> s, nodes |-> cps[worker[w].exec][s].nodes,
           iteration |-> row[worker[w].exec].iteration]]
    BY <1>3 DEF Load
  <2>3. cps[worker[w].exec][s].nodes \in Nodes
    BY <2>1, <2>2 DEF TypeOK, Checkpoint
  <2>4. row[worker[w].exec].iteration \in Nat
    BY <2>1 DEF TypeOK, Row
  <2>5. worker'[w] \in Worker
    BY <2>1, <2>2, <2>3, <2>4 DEF TypeOK, Worker, Steps
  <2>6. worker' \in [Workers -> Worker]
    BY <2>2, <2>5 DEF TypeOK
  <2>7. \A v \in Workers : worker'[v].pc # "idle" =>
          worker'[v].exec \in Executions /\ worker'[v].engine \in up
    BY <2>1, <2>2 DEF TypeOK
  <2> QED
    BY <1>3, <2>6, <2>7 DEF Load, TypeOK
<1>4. ASSUME NEW w \in Workers, TickCommit(w) PROVE TypeOK'
  <2>1. worker[w].exec \in Executions /\ worker[w] \in Worker
    BY <1>4 DEF TickCommit, TypeOK
  <2>2. PICK o \in StepOutcomes(worker[w]) :
          CommitStep(worker[w].exec, worker[w].engine, worker[w].from + 1,
                     [by |-> "tick", from |-> worker[w].from, nodes |-> o.nodes], o)
    BY <1>4 DEF TickCommit
  <2>3. worker[w].nodes \in Nodes /\ worker[w].from \in Int
    BY <2>1 DEF Worker
  <2>4. o.status \in Status /\ o.wait \in WaitKind /\ o.nodes \in Nodes
    BY <2>2, <2>3, StepOutcomeType
  <2>5. [by |-> "tick", from |-> worker[w].from, nodes |-> o.nodes] \in Checkpoint
    BY <2>3, <2>4 DEF Checkpoint
  <2>6. /\ row' \in [Executions -> Row]
        /\ cps' \in [Executions -> [Steps -> Checkpoint]]
        /\ older' \subseteq Executions \X Executions
    BY <2>1, <2>2, <2>4, <2>5, CommitType
  <2> QED
    BY <1>4, <2>6, IdleType DEF TickCommit, TypeOK, IdleWorker
<1>5. ASSUME NEW w \in Workers, TickRefused(w) PROVE TypeOK'
  BY <1>5, IdleType DEF TickRefused, TypeOK, IdleWorker
<1>18. ASSUME NEW w \in Workers, TickVanished(w) PROVE TypeOK'
  BY <1>18, IdleType DEF TickVanished, TypeOK, IdleWorker
<1>6. ASSUME NEW w \in Workers, TickError(w) PROVE TypeOK'
  BY <1>6, IdleType, EngineAssumption DEF TickError, TypeOK, IdleWorker
<1>7. ASSUME NEW e \in Executions, LeaseExpires(e) PROVE TypeOK'
  <2>1. row' \in [Executions -> Row]
    BY <1>7 DEF LeaseExpires, TypeOK, Row, Lease
  <2> QED
    BY <1>7, <2>1 DEF LeaseExpires, TypeOK
<1>19. ASSUME NEW e \in Executions, TimerElapses(e) PROVE TypeOK'
  <2>1. row' \in [Executions -> Row]
    <3>1. row[e] \in Row
      BY DEF TypeOK
    <3>2. [row[e] EXCEPT !.wait = "elapsed"] \in Row
      BY <3>1 DEF Row, WaitKind
    <3> QED
      BY <1>19, <3>2 DEF TimerElapses, TypeOK
  <2> QED
    BY <1>19, <2>1 DEF TimerElapses, TypeOK
<1>8. ASSUME NEW c \in Clients, NEW op \in Ops, NEW e \in Executions, ControlRow(c, op, e)
      PROVE  TypeOK'
  <2>1. PICK i \in up : client' = [client EXCEPT ![c] =
          [IdleClient EXCEPT !.pc = "row", !.engine = i, !.op = op, !.exec = e]]
    BY <1>8 DEF ControlRow
  <2>2. i \in 0..MaxBoots
    BY UpType
  <2>3. client'[c] = [pc |-> "row", engine |-> i, op |-> op, exec |-> e,
                      from |-> -1, next |-> 0, nodes |-> "none"]
    BY <2>1 DEF TypeOK, IdleClient
  <2>4. client'[c] \in Client
    BY <2>2, <2>3 DEF Client, Nodes
  <2>5. client' \in [Clients -> Client]
    BY <2>1, <2>4 DEF TypeOK
  <2>6. \A d \in Clients : client'[d].pc # "idle" =>
          client'[d].exec \in Executions /\ client'[d].engine \in up /\ client'[d].op \in Ops
    BY <2>1, <2>3 DEF TypeOK
  <2> QED
    BY <1>8, <2>5, <2>6 DEF ControlRow, TypeOK
<1>9. ASSUME NEW c \in Clients, ControlState(c) PROVE TypeOK'
  <2>1. client[c].exec \in Executions /\ client[c] \in Client
    BY <1>9 DEF ControlState, TypeOK
  <2>2. /\ client' \in [Clients -> Client]
        /\ \A d \in Clients : /\ client'[d].pc # "idle" => client[d].pc # "idle"
                              /\ client'[d].exec = client[d].exec
                              /\ client'[d].engine = client[d].engine
                              /\ client'[d].op = client[d].op
    <3>1. ASSUME NEW s \in Steps,
                 client' = [client EXCEPT ![c].pc = "state", ![c].from = s,
                                          ![c].nodes = cps[client[c].exec][s].nodes]
          PROVE  <2>2!:
      <4>1. cps[client[c].exec][s].nodes \in Nodes
        BY <2>1, <3>1 DEF TypeOK, Checkpoint
      <4>2. client'[c] = [pc |-> "state", engine |-> client[c].engine, op |-> client[c].op,
                          exec |-> client[c].exec, from |-> s, next |-> client[c].next,
                          nodes |-> cps[client[c].exec][s].nodes]
        BY <2>1, <3>1 DEF TypeOK, Client
      <4>3. client'[c] \in Client
        BY <2>1, <4>1, <4>2 DEF Client, Steps
      <4>4. \A d \in Clients \ {c} : client'[d] = client[d]
        BY <3>1 DEF TypeOK
      <4>5. client' \in [Clients -> Client]
        BY <3>1, <4>3, <4>4 DEF TypeOK
      <4>6. client[c].pc # "idle"
        BY <1>9 DEF ControlState
      <4> QED
        BY <4>2, <4>4, <4>5, <4>6
    <3>2. ASSUME client' = [client EXCEPT ![c].pc = "state"]
          PROVE  <2>2!:
      BY <1>9, <2>1, <3>2 DEF TypeOK, ControlState, Client
    <3> QED
      BY <1>9, <3>1, <3>2 DEF ControlState
  <2> QED
    BY <1>9, <2>2 DEF ControlState, TypeOK
<1>10. ASSUME NEW c \in Clients, ControlStep(c) PROVE TypeOK'
  <2>1. client[c] \in Client
    BY DEF TypeOK
  <2>2. PICK n \in Int : client' = [client EXCEPT ![c].pc = "ready", ![c].next = n]
    BY <1>10 DEF ControlStep, Steps
  <2>3. client'[c] = [pc |-> "ready", engine |-> client[c].engine, op |-> client[c].op,
                      exec |-> client[c].exec, from |-> client[c].from, next |-> n,
                      nodes |-> client[c].nodes]
    BY <2>1, <2>2 DEF TypeOK, Client
  <2>4. client'[c] \in Client
    BY <2>1, <2>2, <2>3 DEF Client
  <2>5. client' \in [Clients -> Client]
    BY <2>2, <2>4 DEF TypeOK
  <2>6. client[c].pc # "idle" /\ \A d \in Clients \ {c} : client'[d] = client[d]
    BY <1>10, <2>2 DEF TypeOK, ControlStep
  <2>7. \A d \in Clients : client'[d].pc # "idle" =>
          client'[d].exec \in Executions /\ client'[d].engine \in up /\ client'[d].op \in Ops
    BY <2>3, <2>6 DEF TypeOK
  <2> QED
    BY <1>10, <2>5, <2>7 DEF ControlStep, TypeOK
<1>11. ASSUME NEW c \in Clients, ControlCommit(c) PROVE TypeOK'
  <2>1. client[c].exec \in Executions /\ client[c] \in Client /\ client[c].op \in Ops
    BY <1>11 DEF ControlCommit, TypeOK
  <2>2. CommitStep(client[c].exec, 0, client[c].next,
                   [by |-> client[c].op, from |-> client[c].from, nodes |-> client[c].nodes],
                   ControlOutcome(client[c]))
    BY <1>11 DEF ControlCommit
  <2>3. client[c].nodes \in Nodes /\ client[c].from \in Int
    BY <2>1 DEF Client
  <2>4. /\ ControlOutcome(client[c]).status \in Status
        /\ ControlOutcome(client[c]).wait \in WaitKind
        /\ ControlOutcome(client[c]).nodes \in Nodes
    BY <2>3 DEF ControlOutcome, Outcome, Status, Live, Terminal, WaitKind
  <2>5. [by |-> client[c].op, from |-> client[c].from, nodes |-> client[c].nodes]
          \in Checkpoint
    BY <2>1, <2>3 DEF Checkpoint
  <2>6. /\ row' \in [Executions -> Row]
        /\ cps' \in [Executions -> [Steps -> Checkpoint]]
        /\ older' \subseteq Executions \X Executions
    BY <2>1, <2>2, <2>4, <2>5, CommitType
  <2> QED
    BY <1>11, <2>6, IdleType DEF ControlCommit, TypeOK, IdleClient
<1>12. ASSUME NEW c \in Clients, ControlRefused(c) PROVE TypeOK'
  BY <1>12, IdleType DEF ControlRefused, TypeOK, IdleClient
<1>13. ASSUME SweepSelect PROVE TypeOK'
  <2>1. PICK i \in up, ids \in SUBSET Executions :
          sweep' = [pc |-> "selected", engine |-> i, ids |-> ids, doomed |-> {}]
    BY <1>13, Zenon DEF SweepSelect
  <2>2. i \in 0..MaxBoots
    BY UpType
  <2>3. sweep' \in Sweep
    BY <2>1, <2>2 DEF Sweep
  <2> QED
    BY <1>13, <2>1, <2>3 DEF SweepSelect, TypeOK
<1>14. ASSUME SweepCheckpoints PROVE TypeOK'
  <2> DEFINE D == {p \in sweep.ids \X Steps : Written(p[1], p[2])}
  <2>1. sweep' = [pc |-> "purged", engine |-> sweep.engine, ids |-> sweep.ids, doomed |-> D]
    BY <1>14 DEF SweepCheckpoints, TypeOK, Sweep
  <2>2. D \subseteq Executions \X Steps
    BY DEF TypeOK, Sweep
  <2>3. sweep' \in Sweep
    BY <2>1, <2>2 DEF Sweep, TypeOK
  <2> QED
    BY <1>14, <2>1, <2>3 DEF SweepCheckpoints, TypeOK
<1>15. ASSUME SweepCommit PROVE TypeOK'
  <2>1. Blank("swept") \in Row
    BY EngineAssumption DEF Blank, Row, NoRow, WaitKind, Nodes, Lease
  <2>2. row' \in [Executions -> Row]
    BY <1>15, <2>1 DEF SweepCommit, TypeOK
  <2>3. NoCheckpoint \in Checkpoint
    BY DEF NoCheckpoint, Checkpoint, Nodes
  <2>4. cps' \in [Executions -> [Steps -> Checkpoint]]
    BY <1>15, <2>3 DEF SweepCommit, TypeOK
  <2> QED
    BY <1>15, <2>2, <2>4, IdleType DEF SweepCommit, TypeOK, IdleSweep
<1>16. ASSUME Boot PROVE TypeOK'
  <2>1. row' \in [Executions -> Row]
    <3>1. CASE row' = row
      BY <3>1 DEF TypeOK
    <3>2. CASE row' = [e \in Executions |-> IF row[e].status = "Running" /\ row[e].lease = "held"
                                            THEN [row[e] EXCEPT !.lease = "expired"]
                                            ELSE row[e]]
      <4>1. ASSUME NEW e \in Executions PROVE [row[e] EXCEPT !.lease = "expired"] \in Row
        <5>1. row[e] \in Row
          BY DEF TypeOK
        <5> QED
          BY <5>1 DEF Row, Lease
      <4> QED
        BY <3>2, <4>1 DEF TypeOK
    <3> QED
      BY <1>16, <3>1, <3>2 DEF Boot
  <2>2. up' \subseteq 1..boots' /\ lock' \in up' \cup {0} /\ boots' \in 0..MaxBoots
    BY <1>16, EngineAssumption DEF Boot, TypeOK
  <2> QED
    BY <1>16, <2>1, <2>2 DEF Boot, TypeOK
<1>17. ASSUME NEW i \in 1..MaxBoots, Crash(i) PROVE TypeOK'
  <2>1. worker' \in [Workers -> Worker] /\ client' \in [Clients -> Client] /\ sweep' \in Sweep
    BY <1>17, IdleType DEF Crash, TypeOK
  <2>2. up' \subseteq 1..boots' /\ lock' \in up' \cup {0}
    BY <1>17 DEF Crash, TypeOK
  <2>3. \A w \in Workers : worker'[w].pc # "idle" =>
          worker'[w].exec \in Executions /\ worker'[w].engine \in up'
    BY <1>17 DEF Crash, TypeOK, IdleWorker
  <2>4. \A c \in Clients : client'[c].pc # "idle" =>
          client'[c].exec \in Executions /\ client'[c].engine \in up' /\ client'[c].op \in Ops
    BY <1>17 DEF Crash, TypeOK, IdleClient
  <2>5. sweep'.pc # "idle" => sweep'.engine \in up'
    BY <1>17 DEF Crash, TypeOK, IdleSweep
  <2> QED
    BY <1>17, <2>1, <2>2, <2>3, <2>4, <2>5 DEF Crash, TypeOK
<1>20. ASSUME LockSessionDrops PROVE TypeOK'
  BY <1>20, EngineAssumption DEF LockSessionDrops, TypeOK
<1>21. CASE UNCHANGED vars
  BY <1>21 DEF vars, TypeOK
<1> QED
  BY <1>1, <1>2, <1>3, <1>4, <1>5, <1>6, <1>7, <1>8, <1>9, <1>10, <1>11, <1>12, <1>13,
     <1>14, <1>15, <1>16, <1>17, <1>18, <1>19, <1>20, <1>21
  DEF Next, Tick, Control

\* Type correctness.
THEOREM TypeCorrect == Spec => []TypeOK
  BY TypeInit, TypeNext, PTL DEF Spec

-----------------------------------------------------------------------------
(* Leases *)

\* A commit, of a tick or of a control call, leaves the row idle and unleased.
LEMMA CommitLease ==
  ASSUME TypeOK, LeaseMatchesRunning, NEW e \in Executions, NEW owner, NEW step, NEW c, NEW o,
         o.status \in Status \ {"Running"}, CommitStep(e, owner, step, c, o)
  PROVE  LeaseMatchesRunning'
<1>1. \A x \in Executions \ {e} : row'[x] = row[x]
  BY DEF CommitStep, TypeOK
<1>2. row'[e].status # "Running" /\ row'[e].owner = 0 /\ row'[e].lease = "none"
  BY DEF CommitStep, TypeOK, Released
<1> QED
  BY <1>1, <1>2 DEF LeaseMatchesRunning

\* Every step keeps a row Running exactly while it is leased.
LEMMA LeaseNext ==
  TypeOK /\ LeaseMatchesRunning /\ [Next]_vars => LeaseMatchesRunning'
<1> SUFFICES ASSUME TypeOK, LeaseMatchesRunning, [Next]_vars PROVE LeaseMatchesRunning'
  OBVIOUS
<1>1. ASSUME NEW e \in Executions, StartExecution(e) PROVE LeaseMatchesRunning'
  BY <1>1 DEF StartExecution, TypeOK, LeaseMatchesRunning
<1>2. ASSUME NEW w \in Workers, NEW e \in Executions, Claim(w, e) PROVE LeaseMatchesRunning'
  <2>1. PICK i \in up : row' = [row EXCEPT ![e] = Leased(row[e], i)]
    BY <1>2 DEF Claim
  <2>2. i # 0
    BY DEF TypeOK
  <2>3. \A x \in Executions \ {e} : row'[x] = row[x]
    BY <2>1 DEF TypeOK
  <2>4. row'[e].status = "Running" /\ row'[e].owner # 0 /\ row'[e].lease # "none"
    BY <2>1, <2>2 DEF TypeOK, Leased
  <2> QED
    BY <2>3, <2>4 DEF LeaseMatchesRunning
<1>3. ASSUME NEW w \in Workers, TickCommit(w) PROVE LeaseMatchesRunning'
  <2>1. worker[w].exec \in Executions /\ worker[w].nodes \in Nodes
    BY <1>3 DEF TickCommit, TypeOK, Worker
  <2>2. PICK o \in StepOutcomes(worker[w]) :
          CommitStep(worker[w].exec, worker[w].engine, worker[w].from + 1,
                     [by |-> "tick", from |-> worker[w].from, nodes |-> o.nodes], o)
    BY <1>3 DEF TickCommit
  <2>3. o.status \in Status \ {"Running"}
    BY <2>1, <2>2, StepOutcomeType
  <2> QED
    BY <2>1, <2>2, <2>3, CommitLease
<1>4. ASSUME NEW c \in Clients, ControlCommit(c) PROVE LeaseMatchesRunning'
  <2>1. client[c].exec \in Executions
    BY <1>4 DEF ControlCommit, TypeOK
  <2>2. ControlOutcome(client[c]).status \in Status \ {"Running"}
    BY DEF ControlOutcome, Outcome, Status, Live, Terminal
  <2>3. CommitStep(client[c].exec, 0, client[c].next,
                   [by |-> client[c].op, from |-> client[c].from, nodes |-> client[c].nodes],
                   ControlOutcome(client[c]))
    BY <1>4 DEF ControlCommit
  <2> QED
    BY <2>1, <2>2, <2>3, CommitLease
<1>5. ASSUME NEW e \in Executions, LeaseExpires(e) PROVE LeaseMatchesRunning'
  BY <1>5 DEF LeaseExpires, TypeOK, LeaseMatchesRunning, Row
<1>6. ASSUME NEW e \in Executions, TimerElapses(e) PROVE LeaseMatchesRunning'
  BY <1>6 DEF TimerElapses, TypeOK, LeaseMatchesRunning, Row
<1>7. ASSUME SweepCommit PROVE LeaseMatchesRunning'
  BY <1>7 DEF SweepCommit, TypeOK, LeaseMatchesRunning, Blank
<1>8. ASSUME Boot PROVE LeaseMatchesRunning'
  <2>1. \A e \in Executions : /\ row'[e].status = row[e].status
                              /\ row'[e].owner = row[e].owner
                              /\ row'[e].lease # "none" <=> row[e].lease # "none"
    BY <1>8 DEF Boot, TypeOK, Row
  <2> QED
    BY <2>1 DEF LeaseMatchesRunning
<1>9. ASSUME UNCHANGED row PROVE LeaseMatchesRunning'
  BY <1>9 DEF LeaseMatchesRunning
<1> QED
  BY <1>1, <1>2, <1>3, <1>4, <1>5, <1>6, <1>7, <1>8, <1>9
  DEF Next, Tick, Control, vars, Load, TickRefused, TickVanished, TickError, ControlRow,
      ControlState, ControlStep, ControlRefused, SweepSelect, SweepCheckpoints, Crash,
      LockSessionDrops

\* A row is Running exactly while some process holds its lease.
THEOREM LeaseCorrect == Spec => []LeaseMatchesRunning
<1>1. Init => LeaseMatchesRunning
  BY DEF Init, LeaseMatchesRunning, Blank
<1> QED
  BY <1>1, LeaseNext, TypeCorrect, PTL DEF Spec

\* A tick writes a row only under the lease it claimed, and a terminal row has none:
\* however late a tick returns, a finished or cancelled execution is left alone.
THEOREM TicksLeaveTerminalAlone == Spec => TicksNeverReopen
<1> DEFINE A == \A e \in Executions :
                  row[e].status \in Terminal /\ worker' # worker => row'[e] = row[e]
<1>1. ASSUME TypeOK, LeaseMatchesRunning, [Next]_vars PROVE [A]_vars
  <2> USE <1>1
  <2>1. ASSUME NEW w \in Workers, NEW x \in Executions, Claim(w, x) PROVE A
    <3>1. row[x].status \notin Terminal
      BY <2>1 DEF Claim, Claimable, Terminal
    <3>2. \A e \in Executions \ {x} : row'[e] = row[e]
      BY <2>1 DEF Claim, TypeOK
    <3> QED
      BY <3>1, <3>2
  <2>2. ASSUME NEW w \in Workers, TickCommit(w) PROVE A
    <3>1. worker[w].exec \in Executions /\ worker[w].engine \in up
      BY <2>2 DEF TickCommit, TypeOK
    <3>2. PICK o \in StepOutcomes(worker[w]) :
            CommitStep(worker[w].exec, worker[w].engine, worker[w].from + 1,
                       [by |-> "tick", from |-> worker[w].from, nodes |-> o.nodes], o)
      BY <2>2 DEF TickCommit
    <3>3. row[worker[w].exec].owner = worker[w].engine
      BY <3>2 DEF CommitStep
    <3>4. worker[w].engine # 0
      BY <3>1 DEF TypeOK
    <3>5. row[worker[w].exec].status = "Running"
      BY <3>1, <3>3, <3>4 DEF LeaseMatchesRunning
    <3>6. \A e \in Executions \ {worker[w].exec} : row'[e] = row[e]
      BY <3>2 DEF CommitStep, TypeOK
    <3> QED
      BY <3>5, <3>6 DEF Terminal
  <2>3. CASE UNCHANGED row
    BY <2>3
  <2>4. CASE UNCHANGED worker
    BY <2>4
  <2> QED
    BY <1>1, <2>1, <2>2, <2>3, <2>4
    DEF Next, Tick, Control, vars, StartExecution, Load, TickRefused, TickVanished, TickError,
        LeaseExpires, TimerElapses, ControlRow, ControlState, ControlStep, ControlCommit,
        ControlRefused, SweepSelect, SweepCheckpoints, SweepCommit, Boot, Crash,
        LockSessionDrops
<1> QED
  BY <1>1, TypeCorrect, LeaseCorrect, PTL DEF Spec, TicksNeverReopen

-----------------------------------------------------------------------------
(* The checkpoint history *)

\* A step that keeps the checkpoints, and every row's presence and nodes, keeps the
\* numbering of the checkpoints and the copy in the row.
LEMMA HistoryFrame ==
  ASSUME ContiguousCheckpoints, RowMirrorsLatest, cps' = cps,
         \A e \in Executions : /\ row'[e].status \in Status <=> row[e].status \in Status
                               /\ row'[e].nodes = row[e].nodes
  PROVE  ContiguousCheckpoints' /\ RowMirrorsLatest'
  BY DEF ContiguousCheckpoints, RowMirrorsLatest, Exists, Written, IsLatest

\* A commit at the step after a committed one extends the history by one step and
\* copies its nodes into the row.
LEMMA CommitHistory ==
  ASSUME TypeOK, ContiguousCheckpoints, RowMirrorsLatest, NEW e \in Executions,
         NEW owner, NEW step \in Int, NEW c, NEW o, CommitStep(e, owner, step, c, o),
         o.status \in Status, c # NoCheckpoint, c.nodes = o.nodes,
         step - 1 \in Steps, Written(e, step - 1)
  PROVE  /\ ContiguousCheckpoints' /\ RowMirrorsLatest'
         /\ \A x \in Executions : row'[x].status \in Status <=> row[x].status \in Status
         /\ \A x \in Executions : row[x].status = "unstarted" => cps'[x] = cps[x]
         /\ \A x \in Executions, s \in Steps : Written(x, s) => cps'[x][s] = cps[x][s]
<1>1. step \in Steps /\ ~Written(e, step) /\ Exists(e)
  BY DEF CommitStep
<1>2. /\ \A x \in Executions \ {e} : cps'[x] = cps[x] /\ row'[x] = row[x]
      /\ \A s \in Steps \ {step} : cps'[e][s] = cps[e][s]
      /\ cps'[e][step] = c
  BY <1>1 DEF CommitStep, TypeOK
<1>3. row'[e].status = o.status /\ row'[e].nodes = o.nodes
  BY DEF CommitStep, TypeOK, Released
<1>4. \A s \in Steps : Written(e, s) <=> s < step
  <2>1. \A s \in Steps : s < step => s = step - 1 \/ s < step - 1
    BY DEF Steps
  <2>2. \A s \in Steps : s < step => Written(e, s)
    BY <1>1, <2>1 DEF ContiguousCheckpoints
  <2>3. \A s \in Steps : ~(s < step) => s = step \/ step < s
    BY DEF Steps
  <2> QED
    BY <1>1, <2>2, <2>3 DEF ContiguousCheckpoints
<1>5. \A s \in Steps : Written(e, s)' <=> s <= step
  BY <1>1, <1>2, <1>4 DEF Written, Steps
<1>6. ContiguousCheckpoints'
  <2>1. \A x \in Executions \ {e}, s \in Steps : Written(x, s)' <=> Written(x, s)
    BY <1>2 DEF Written
  <2>2. 0 \in Steps /\ 0 <= step
    BY <1>1, EngineAssumption DEF Steps
  <2>3. \A s, t \in Steps : t < s /\ s <= step => t <= step
    BY <1>1 DEF Steps
  <2>4. Written(e, 0)' /\ \A s, t \in Steps : t < s /\ Written(e, s)' => Written(e, t)'
    BY <1>5, <2>2, <2>3
  <2>5. \A x \in Executions \ {e} : Exists(x)' <=> Exists(x)
    BY <1>2 DEF Exists
  <2> QED
    BY <2>1, <2>2, <2>4, <2>5 DEF ContiguousCheckpoints
<1>7. RowMirrorsLatest'
  <2>1. ASSUME NEW s \in Steps, IsLatest(e, s)' PROVE s = step
    BY <1>1, <1>5, <2>1 DEF IsLatest, Steps
  <2>2. \A x \in Executions \ {e}, s \in Steps : IsLatest(x, s)' <=> IsLatest(x, s)
    BY <1>2 DEF IsLatest, Written
  <2>3. \A x \in Executions \ {e} : Exists(x)' <=> Exists(x)
    BY <1>2 DEF Exists
  <2>4. cps'[e][step].nodes = row'[e].nodes
    BY <1>2, <1>3
  <2> QED
    BY <1>2, <2>1, <2>2, <2>3, <2>4 DEF RowMirrorsLatest
<1>8. \A x \in Executions : row'[x].status \in Status <=> row[x].status \in Status
  BY <1>1, <1>2, <1>3 DEF Exists
<1>9. row[e].status # "unstarted"
  BY <1>1 DEF Exists, Status, Live, Terminal
<1> QED
  BY <1>1, <1>2, <1>6, <1>7, <1>8, <1>9

\* What every step does to the tables, seen by a call that is already under way: no
\* row reappears, and the checkpoints of a row that stays are kept.
Grows ==
  /\ \A e \in Executions : row'[e].status = "unstarted" => row[e].status = "unstarted"
  /\ \A e \in Executions : Exists(e)' /\ row[e].status # "unstarted" => Exists(e)
  /\ \A e \in Executions, s \in Steps : Exists(e)' /\ Written(e, s) => Written(e, s)'

\* A tick that a step does not touch keeps the checkpoint it stands on.
LEMMA TickStaysAnchored ==
  ASSUME TypeOK, Grows, NEW w \in Workers, TickAnchored(w),
         worker'[w].pc = worker[w].pc, worker'[w].exec = worker[w].exec,
         worker'[w].from = worker[w].from
  PROVE  TickAnchored(w)'
<1>1. worker[w].pc # "idle" => worker[w].exec \in Executions
  BY DEF TypeOK
<1>2. "loaded" # "idle"
  OBVIOUS
<1> QED
  BY <1>1, <1>2 DEF TickAnchored, Grows

\* A control call that a step does not touch keeps the checkpoint it stands on.
LEMMA CallStaysAnchored ==
  ASSUME TypeOK, Grows, NEW c \in Clients, CallAnchored(c), client'[c] = client[c]
  PROVE  CallAnchored(c)'
<1>1. client[c].pc # "idle" => client[c].exec \in Executions
  BY DEF TypeOK
<1>2. "ready" # "idle"
  OBVIOUS
<1> QED
  BY <1>1, <1>2 DEF CallAnchored, Grows

\* Steps that neither create nor remove rows nor write checkpoints.
LEMMA SameTables ==
  ASSUME cps' = cps,
         \A e \in Executions : /\ row'[e].status \in Status <=> row[e].status \in Status
                               /\ row'[e].status = "unstarted" <=> row[e].status = "unstarted"
  PROVE  Grows
  BY DEF Grows, Exists, Written

\* The history invariant: contiguous checkpoints are preserved only because calls in
\* flight stand on committed ones, so the three are inductive together.
HistoryInv == ContiguousCheckpoints /\ RowMirrorsLatest /\ Anchored

\* Ticks, callers and the sweep that a step leaves alone stay anchored.
LEMMA AnchorFrame ==
  ASSUME TypeOK, Anchored, Grows
  PROVE  /\ UNCHANGED worker => \A w \in Workers : TickAnchored(w)'
         /\ UNCHANGED client => \A c \in Clients : CallAnchored(c)'
<1>1. ASSUME UNCHANGED worker, NEW w \in Workers PROVE TickAnchored(w)'
  BY <1>1, TickStaysAnchored DEF Anchored
<1>2. ASSUME UNCHANGED client, NEW c \in Clients PROVE CallAnchored(c)'
  BY <1>2, CallStaysAnchored DEF Anchored
<1> QED
  BY <1>1, <1>2

\* Every step that leaves the tables alone and finishes, starts or drops calls.
LEMMA QuietHistory ==
  ASSUME TypeOK, HistoryInv, cps' = cps,
         \A e \in Executions : /\ row'[e].status \in Status <=> row[e].status \in Status
                               /\ row'[e].status = "unstarted" <=> row[e].status = "unstarted"
                               /\ row'[e].nodes = row[e].nodes,
         Grows => \A w \in Workers : TickAnchored(w)',
         Grows => \A c \in Clients : CallAnchored(c)',
         \A e \in sweep'.ids : Exists(e),
         \A p \in sweep'.doomed : p[1] \in sweep'.ids,
         sweep'.ids \subseteq Executions
  PROVE  HistoryInv'
<1>1. ContiguousCheckpoints' /\ RowMirrorsLatest'
  BY HistoryFrame DEF HistoryInv
<1>2. Grows
  BY SameTables
<1>3. \A e \in Executions, s \in Steps : row'[e].status = "unstarted" => ~Written(e, s)'
  BY DEF HistoryInv, Anchored, Written
<1>4. \A e \in sweep'.ids : Exists(e)'
  BY DEF Exists
<1> QED
  BY <1>1, <1>2, <1>3, <1>4 DEF HistoryInv, Anchored

\* Every commit extends the history by the step after the one its call stands on.
LEMMA CommitKeepsHistory ==
  ASSUME TypeOK, HistoryInv, NEW e \in Executions, NEW owner, NEW step \in Int, NEW c, NEW o,
         CommitStep(e, owner, step, c, o), o.status \in Status, c # NoCheckpoint,
         c.nodes = o.nodes, step - 1 \in Steps, Written(e, step - 1), UNCHANGED sweep
  PROVE  /\ Grows
         /\ ContiguousCheckpoints' /\ RowMirrorsLatest'
         /\ \A x \in Executions, s \in Steps : row'[x].status = "unstarted" => ~Written(x, s)'
         /\ \A x \in sweep'.ids : Exists(x)'
<1>1. /\ ContiguousCheckpoints' /\ RowMirrorsLatest'
      /\ \A x \in Executions : row'[x].status \in Status <=> row[x].status \in Status
      /\ \A x \in Executions : row[x].status = "unstarted" => cps'[x] = cps[x]
      /\ \A x \in Executions, s \in Steps : Written(x, s) => cps'[x][s] = cps[x][s]
  BY CommitHistory DEF HistoryInv
<1>2. \A x \in Executions : row'[x].status = "unstarted" => row[x].status = "unstarted"
  <2>1. row'[e].status = o.status
    BY DEF CommitStep, TypeOK, Released
  <2>2. \A x \in Executions \ {e} : row'[x] = row[x]
    BY DEF CommitStep, TypeOK
  <2> QED
    BY <2>1, <2>2 DEF Status, Live, Terminal
<1>3. Grows
  BY <1>1, <1>2 DEF Grows, Exists, Written
<1>4. \A x \in Executions, s \in Steps : row'[x].status = "unstarted" => ~Written(x, s)'
  BY <1>1, <1>2 DEF HistoryInv, Anchored, Written
<1>5. \A x \in sweep'.ids : Exists(x)'
  BY <1>1 DEF HistoryInv, Anchored, Exists, TypeOK, Sweep
<1> QED
  BY <1>1, <1>3, <1>4, <1>5

\* Every step keeps the history.
LEMMA HistoryNext == TypeOK /\ HistoryInv /\ [Next]_vars => HistoryInv'
<1> SUFFICES ASSUME TypeOK, HistoryInv, [Next]_vars PROVE HistoryInv'
  OBVIOUS
<1> USE DEF HistoryInv
<1>ids. sweep.ids \subseteq Executions
  BY DEF TypeOK, Sweep
<1>1. ASSUME NEW e \in Executions, StartExecution(e) PROVE HistoryInv'
  <2>1. row[e].status = "unstarted" /\ ~Exists(e) /\ \A s \in Steps : ~Written(e, s)
    BY <1>1 DEF StartExecution, Exists, Status, Live, Terminal, Anchored
  <2>2. row'[e].status = "Ready" /\ row'[e].nodes = "some"
    BY <1>1 DEF StartExecution, TypeOK
  <2>3. \A x \in Executions \ {e} : row'[x] = row[x] /\ cps'[x] = cps[x]
    BY <1>1 DEF StartExecution, TypeOK
  <2>4. 0 \in Steps
    BY EngineAssumption DEF Steps
  <2>5. /\ cps'[e][0] = [by |-> "start", from |-> -1, nodes |-> "some"]
        /\ \A s \in Steps \ {0} : cps'[e][s] = cps[e][s]
    BY <1>1, <2>4 DEF StartExecution, TypeOK
  <2>6. \A s \in Steps : Written(e, s)' <=> s = 0
    BY <2>1, <2>5 DEF Written, NoCheckpoint
  <2>7. ContiguousCheckpoints'
    <3>1. \A s, t \in Steps : t < s /\ s = 0 => FALSE
      BY DEF Steps
    <3> QED
      BY <2>3, <2>4, <2>6, <3>1 DEF ContiguousCheckpoints, Exists, Written
  <2>8. RowMirrorsLatest'
    BY <2>2, <2>3, <2>5, <2>6 DEF RowMirrorsLatest, Exists, IsLatest, Written
  <2>9. Grows
    BY <2>1, <2>2, <2>3 DEF Grows, Exists, Written, Status, Live
  <2>10. \A x \in Executions, s \in Steps : row'[x].status = "unstarted" => ~Written(x, s)'
    BY <2>2, <2>3 DEF Anchored, Written
  <2>11. \A x \in sweep'.ids : Exists(x)'
    BY <1>1, <1>ids, <2>2, <2>3 DEF StartExecution, Anchored, Exists, Status, Live
  <2> QED
    BY <1>1, <2>7, <2>8, <2>9, <2>10, <2>11, AnchorFrame DEF StartExecution, Anchored
<1>2. ASSUME NEW w \in Workers, NEW e \in Executions, Claim(w, e) PROVE HistoryInv'
  <2>1. PICK i \in up :
          /\ row' = [row EXCEPT ![e] = Leased(row[e], i)]
          /\ worker' = [worker EXCEPT ![w] =
                          [IdleWorker EXCEPT !.pc = "claimed", !.engine = i, !.exec = e]]
    BY <1>2 DEF Claim
  <2>2. row[e].status \in Status /\ row[e].status # "unstarted"
    BY <1>2 DEF Claim, Claimable, Status, Live
  <2>3. /\ row'[e].status = "Running" /\ row'[e].nodes = row[e].nodes
        /\ \A x \in Executions \ {e} : row'[x] = row[x]
    BY <2>1 DEF TypeOK, Leased
  <2>4. \A x \in Executions : /\ row'[x].status \in Status <=> row[x].status \in Status
                              /\ row'[x].status = "unstarted" <=> row[x].status = "unstarted"
                              /\ row'[x].nodes = row[x].nodes
    BY <2>2, <2>3 DEF Status, Live
  <2>5. ASSUME Grows, NEW v \in Workers PROVE TickAnchored(v)'
    <3>1. CASE v = w
      <4>1. worker'[v].pc = "claimed" /\ worker'[v].exec = e
        BY <2>1, <3>1 DEF IdleWorker, TypeOK
      <4> QED
        BY <2>3, <4>1 DEF TickAnchored
    <3>2. CASE v # w
      <4>1. worker'[v] = worker[v]
        BY <2>1, <3>2 DEF TypeOK
      <4> QED
        BY <2>5, <4>1, TickStaysAnchored DEF Anchored
    <3> QED
      BY <3>1, <3>2
  <2>6. cps' = cps /\ client' = client /\ sweep' = sweep
    BY <1>2 DEF Claim
  <2>7. Grows => \A c \in Clients : CallAnchored(c)'
    BY <2>6, AnchorFrame
  <2>8. Grows => \A v \in Workers : TickAnchored(v)'
    BY <2>5
  <2>9. /\ \A x \in sweep'.ids : Exists(x)
        /\ \A p \in sweep'.doomed : p[1] \in sweep'.ids
        /\ sweep'.ids \subseteq Executions
    BY <2>6, <1>ids DEF Anchored
  <2> QED
    BY <2>4, <2>6, <2>7, <2>8, <2>9, QuietHistory
<1>swp. /\ \A x \in sweep.ids : Exists(x)
        /\ \A p \in sweep.doomed : p[1] \in sweep.ids
  BY DEF Anchored
<1>row. ASSUME cps' = cps, UNCHANGED <<worker, client, sweep>>,
               \A e \in Executions : \/ row'[e].status = row[e].status
                                     /\ row'[e].nodes = row[e].nodes
        PROVE  HistoryInv'
  BY <1>row, <1>ids, <1>swp, AnchorFrame, QuietHistory
<1>tick. ASSUME NEW w \in Workers, UNCHANGED <<row, cps, client, sweep>>,
                \A v \in Workers \ {w} : worker'[v] = worker[v],
                Grows => TickAnchored(w)'
         PROVE  HistoryInv'
  <2>1. ASSUME Grows, NEW v \in Workers PROVE TickAnchored(v)'
    BY <1>tick, <2>1, TickStaysAnchored DEF Anchored
  <2> QED
    BY <1>tick, <1>ids, <1>swp, <2>1, AnchorFrame, QuietHistory
<1>call. ASSUME NEW c \in Clients, UNCHANGED <<row, cps, worker, sweep>>,
                \A d \in Clients \ {c} : client'[d] = client[d],
                Grows => CallAnchored(c)'
         PROVE  HistoryInv'
  <2>1. ASSUME Grows, NEW d \in Clients PROVE CallAnchored(d)'
    BY <1>call, <2>1, CallStaysAnchored DEF Anchored
  <2> QED
    BY <1>call, <1>ids, <1>swp, <2>1, AnchorFrame, QuietHistory
<1>3. ASSUME NEW w \in Workers, Load(w) PROVE HistoryInv'
  <2>1. PICK s \in Steps :
          /\ IsLatest(worker[w].exec, s)
          /\ worker' = [worker EXCEPT ![w] =
               [pc |-> "loaded", engine |-> worker[w].engine, exec |-> worker[w].exec,
                from |-> s, nodes |-> cps[worker[w].exec][s].nodes,
                iteration |-> row[worker[w].exec].iteration]]
    BY <1>3 DEF Load
  <2>2. worker[w].pc = "claimed" /\ UNCHANGED <<row, cps, client, sweep>>
    BY <1>3 DEF Load
  <2>3. worker'[w].exec = worker[w].exec /\ worker'[w].from = s
    BY <2>1 DEF TypeOK
  <2>4. row[worker[w].exec].status # "unstarted"
    BY <2>2 DEF Anchored, TickAnchored
  <2>5. TickAnchored(w)'
    BY <2>1, <2>2, <2>3, <2>4 DEF TickAnchored, IsLatest, Written
  <2>6. \A v \in Workers \ {w} : worker'[v] = worker[v]
    BY <2>1 DEF TypeOK
  <2> QED
    BY <2>2, <2>5, <2>6, <1>tick
<1>idle. ASSUME NEW w \in Workers, UNCHANGED <<row, cps, client, sweep>>,
                worker' = [worker EXCEPT ![w] = IdleWorker]
         PROVE  HistoryInv'
  <2>1. worker'[w] = IdleWorker /\ \A v \in Workers \ {w} : worker'[v] = worker[v]
    BY <1>idle DEF TypeOK
  <2>2. TickAnchored(w)'
    BY <2>1 DEF TickAnchored, IdleWorker
  <2> QED
    BY <2>1, <2>2, <1>idle, <1>tick
<1>4. ASSUME NEW w \in Workers, TickCommit(w) PROVE HistoryInv'
  <2>1. worker[w].exec \in Executions /\ worker[w].nodes \in Nodes /\ worker[w].from \in Int
    BY <1>4 DEF TickCommit, TypeOK, Worker
  <2>2. PICK o \in StepOutcomes(worker[w]) :
          CommitStep(worker[w].exec, worker[w].engine, worker[w].from + 1,
                     [by |-> "tick", from |-> worker[w].from, nodes |-> o.nodes], o)
    BY <1>4 DEF TickCommit
  <2>3. o.status \in Status
    BY <2>1, <2>2, StepOutcomeType
  <2>4. (worker[w].from + 1) - 1 \in Steps /\ Written(worker[w].exec, (worker[w].from + 1) - 1)
    <3>1. Exists(worker[w].exec)
      BY <2>2 DEF CommitStep
    <3>2. worker[w].from \in Steps /\ Written(worker[w].exec, worker[w].from)
      BY <1>4, <3>1 DEF TickCommit, Anchored, TickAnchored
    <3>3. (worker[w].from + 1) - 1 = worker[w].from
      BY <2>1
    <3> QED
      BY <3>2, <3>3
  <2>5. [by |-> "tick", from |-> worker[w].from, nodes |-> o.nodes] # NoCheckpoint
    BY DEF NoCheckpoint
  <2>6. /\ worker' = [worker EXCEPT ![w] = IdleWorker]
        /\ client' = client /\ sweep' = sweep
    BY <1>4 DEF TickCommit
  <2>7. /\ Grows
        /\ ContiguousCheckpoints' /\ RowMirrorsLatest'
        /\ \A x \in Executions, s \in Steps : row'[x].status = "unstarted" => ~Written(x, s)'
        /\ \A x \in sweep'.ids : Exists(x)'
    <3> DEFINE c == [by |-> "tick", from |-> worker[w].from, nodes |-> o.nodes]
    <3>1. c.nodes = o.nodes /\ worker[w].from + 1 \in Int
      BY <2>1
    <3> HIDE DEF c
    <3> QED
      BY <2>1, <2>2, <2>3, <2>4, <2>5, <2>6, <3>1, CommitKeepsHistory DEF c
  <2>8. ASSUME NEW v \in Workers PROVE TickAnchored(v)'
    <3>1. CASE v = w
      <4>1. worker'[w] = IdleWorker
        BY <2>6 DEF TypeOK
      <4> QED
        BY <3>1, <4>1 DEF TickAnchored, IdleWorker
    <3>2. CASE v # w
      <4>1. worker'[v] = worker[v]
        BY <2>6, <3>2 DEF TypeOK
      <4> QED
        BY <2>7, <4>1, TickStaysAnchored DEF Anchored
    <3> QED
      BY <3>1, <3>2
  <2> QED
    BY <2>6, <2>7, <2>8, <1>swp, AnchorFrame DEF Anchored
<1>5. ASSUME NEW c \in Clients, ControlCommit(c) PROVE HistoryInv'
  <2>1. /\ client[c].exec \in Executions /\ client[c].next \in Int
        /\ client[c].op \in Ops
    BY <1>5 DEF ControlCommit, TypeOK, Client
  <2> DEFINE k == [by |-> client[c].op, from |-> client[c].from, nodes |-> client[c].nodes]
             o == ControlOutcome(client[c])
  <2>2. CommitStep(client[c].exec, 0, client[c].next, k, o)
    BY <1>5 DEF ControlCommit
  <2>3. o.status \in Status /\ k.nodes = o.nodes
    BY DEF ControlOutcome, Outcome, Status, Live, Terminal
  <2>4. client[c].next - 1 \in Steps /\ Written(client[c].exec, client[c].next - 1)
    <3>1. Exists(client[c].exec)
      BY <2>2 DEF CommitStep
    <3> QED
      BY <1>5, <3>1 DEF ControlCommit, Anchored, CallAnchored
  <2>5. k # NoCheckpoint
    BY <2>1, EngineAssumption DEF NoCheckpoint
  <2>6. /\ client' = [client EXCEPT ![c] = IdleClient]
        /\ worker' = worker /\ sweep' = sweep
    BY <1>5 DEF ControlCommit
  <2>7. /\ Grows
        /\ ContiguousCheckpoints' /\ RowMirrorsLatest'
        /\ \A x \in Executions, s \in Steps : row'[x].status = "unstarted" => ~Written(x, s)'
        /\ \A x \in sweep'.ids : Exists(x)'
    <3> HIDE DEF k, o
    <3> QED
      BY <2>1, <2>2, <2>3, <2>4, <2>5, <2>6, CommitKeepsHistory
  <2>8. ASSUME NEW d \in Clients PROVE CallAnchored(d)'
    <3>1. CASE d = c
      <4>1. client'[c] = IdleClient
        BY <2>6 DEF TypeOK
      <4> QED
        BY <3>1, <4>1 DEF CallAnchored, IdleClient
    <3>2. CASE d # c
      <4>1. client'[d] = client[d]
        BY <2>6, <3>2 DEF TypeOK
      <4> QED
        BY <2>7, <4>1, CallStaysAnchored DEF Anchored
    <3> QED
      BY <3>1, <3>2
  <2> QED
    BY <2>6, <2>7, <2>8, <1>swp, AnchorFrame DEF Anchored
<1>6. ASSUME NEW c \in Clients, NEW op \in Ops, NEW e \in Executions, ControlRow(c, op, e)
      PROVE  HistoryInv'
  <2>1. PICK i \in up : client' = [client EXCEPT ![c] =
          [IdleClient EXCEPT !.pc = "row", !.engine = i, !.op = op, !.exec = e]]
    BY <1>6 DEF ControlRow
  <2>2. client'[c].pc = "row" /\ client'[c].exec = e
    BY <2>1 DEF TypeOK, IdleClient
  <2>3. row[e].status # "unstarted" /\ UNCHANGED <<row, cps, worker, sweep>>
    BY <1>6 DEF ControlRow, Exists, Status, Live, Terminal
  <2>4. CallAnchored(c)'
    BY <2>2, <2>3 DEF CallAnchored
  <2>5. \A d \in Clients \ {c} : client'[d] = client[d]
    BY <2>1 DEF TypeOK
  <2> QED
    BY <2>3, <2>4, <2>5, <1>call
<1>7. ASSUME NEW c \in Clients, ControlState(c) PROVE HistoryInv'
  <2>1. client[c].pc = "row" /\ UNCHANGED <<row, cps, worker, sweep>>
    BY <1>7 DEF ControlState
  <2>2. /\ client'[c].pc = "state" /\ client'[c].exec = client[c].exec
        /\ \A d \in Clients \ {c} : client'[d] = client[d]
    <3>1. client[c] \in Client
      BY DEF TypeOK
    <3>2. ASSUME NEW s \in Steps,
                 client' = [client EXCEPT ![c].pc = "state", ![c].from = s,
                                          ![c].nodes = cps[client[c].exec][s].nodes]
          PROVE  <2>2!:
      BY <3>1, <3>2 DEF TypeOK, Client
    <3>3. ASSUME client' = [client EXCEPT ![c].pc = "state"] PROVE <2>2!:
      BY <3>1, <3>3 DEF TypeOK, Client
    <3> QED
      BY <1>7, <3>2, <3>3 DEF ControlState
  <2>3. CallAnchored(c)'
    BY <2>1, <2>2 DEF CallAnchored, Anchored
  <2> QED
    BY <2>1, <2>2, <2>3, <1>call
<1>8. ASSUME NEW c \in Clients, ControlStep(c) PROVE HistoryInv'
  <2>1. /\ client[c].pc = "state" /\ client[c].exec \in Executions
        /\ UNCHANGED <<row, cps, worker, sweep>>
    BY <1>8 DEF ControlStep, TypeOK
  <2>2. PICK n \in Int :
          /\ client' = [client EXCEPT ![c].pc = "ready", ![c].next = n]
          /\ \/ \E s \in Steps : IsLatest(client[c].exec, s) /\ n = s + 1
             \/ \A s \in Steps : ~Written(client[c].exec, s)
    BY <1>8 DEF ControlStep, Steps
  <2>3. /\ client'[c].pc = "ready" /\ client'[c].exec = client[c].exec /\ client'[c].next = n
        /\ \A d \in Clients \ {c} : client'[d] = client[d]
    <3>1. client[c] \in Client
      BY DEF TypeOK
    <3> QED
      BY <2>2, <3>1 DEF TypeOK, Client
  <2>4. Exists(client[c].exec) => n - 1 \in Steps /\ Written(client[c].exec, n - 1)
    <3>1. ASSUME NEW s \in Steps, IsLatest(client[c].exec, s), n = s + 1
          PROVE  n - 1 \in Steps /\ Written(client[c].exec, n - 1)
      <4>1. n - 1 = s
        BY <3>1 DEF Steps
      <4> QED
        BY <3>1, <4>1 DEF IsLatest
    <3>2. ASSUME \A s \in Steps : ~Written(client[c].exec, s) PROVE ~Exists(client[c].exec)
      <4>1. 0 \in Steps
        BY EngineAssumption DEF Steps
      <4> QED
        BY <2>1, <3>2, <4>1 DEF ContiguousCheckpoints
    <3> QED
      BY <2>2, <3>1, <3>2
  <2>5. row[client[c].exec].status # "unstarted"
    BY <2>1 DEF Anchored, CallAnchored
  <2>6. CallAnchored(c)'
    BY <2>1, <2>3, <2>4, <2>5 DEF CallAnchored, Exists, Written
  <2> QED
    BY <2>1, <2>3, <2>6, <1>call
<1>9. ASSUME NEW c \in Clients, ControlRefused(c) PROVE HistoryInv'
  <2>1. client'[c] = IdleClient /\ \A d \in Clients \ {c} : client'[d] = client[d]
    BY <1>9 DEF ControlRefused, TypeOK
  <2>2. CallAnchored(c)'
    BY <2>1 DEF CallAnchored, IdleClient
  <2>3. UNCHANGED <<row, cps, worker, sweep>>
    BY <1>9 DEF ControlRefused
  <2> QED
    BY <2>1, <2>2, <2>3, <1>call
<1>10. ASSUME SweepSelect PROVE HistoryInv'
  <2>1. PICK i \in up, ids \in SUBSET {e \in Executions : row[e].status \in Terminal} :
          sweep' = [pc |-> "selected", engine |-> i, ids |-> ids, doomed |-> {}]
    BY <1>10, Zenon DEF SweepSelect
  <2>2. UNCHANGED <<row, cps, worker, client>>
    BY <1>10 DEF SweepSelect
  <2>3. /\ \A x \in sweep'.ids : Exists(x)
        /\ \A p \in sweep'.doomed : p[1] \in sweep'.ids
        /\ sweep'.ids \subseteq Executions
    BY <2>1 DEF Exists, Status
  <2> QED
    BY <2>2, <2>3, AnchorFrame, QuietHistory
<1>11. ASSUME SweepCheckpoints PROVE HistoryInv'
  <2> DEFINE D == {p \in sweep.ids \X Steps : Written(p[1], p[2])}
  <2>1. sweep' = [pc |-> "purged", engine |-> sweep.engine, ids |-> sweep.ids, doomed |-> D]
    BY <1>11 DEF SweepCheckpoints, TypeOK, Sweep
  <2>2. UNCHANGED <<row, cps, worker, client>>
    BY <1>11 DEF SweepCheckpoints
  <2>3. /\ \A x \in sweep'.ids : Exists(x)
        /\ \A p \in sweep'.doomed : p[1] \in sweep'.ids
        /\ sweep'.ids \subseteq Executions
    BY <2>1, <1>swp, <1>ids
  <2> QED
    BY <2>2, <2>3, AnchorFrame, QuietHistory
<1>12. ASSUME SweepCommit PROVE HistoryInv'
  <2>1. /\ \A e \in sweep.ids : row'[e] = Blank("swept")
        /\ \A e \in Executions \ sweep.ids : row'[e] = row[e]
    BY <1>12, <1>ids DEF SweepCommit
  <2>2. \A e \in Executions, s \in Steps : cps'[e][s] =
          IF <<e, s>> \in sweep.doomed THEN NoCheckpoint ELSE cps[e][s]
    BY <1>12 DEF SweepCommit
  <2>3. \A e \in Executions \ sweep.ids, s \in Steps : cps'[e][s] = cps[e][s]
    BY <2>2, <1>swp
  <2>4. \A e \in sweep.ids : ~Exists(e)' /\ row'[e].status # "unstarted"
    BY <2>1 DEF Exists, Blank, Status, Live, Terminal
  <2>5. \A e \in Executions \ sweep.ids : Exists(e)' <=> Exists(e)
    BY <2>1 DEF Exists
  <2>6. \A e \in Executions \ sweep.ids, s \in Steps : Written(e, s)' <=> Written(e, s)
    BY <2>3 DEF Written
  <2>7. ContiguousCheckpoints'
    <3>1. 0 \in Steps
      BY EngineAssumption DEF Steps
    <3> QED
      BY <2>4, <2>5, <2>6, <3>1 DEF ContiguousCheckpoints
  <2>8. RowMirrorsLatest'
    <3>1. \A e \in Executions \ sweep.ids, s \in Steps : IsLatest(e, s)' <=> IsLatest(e, s)
      BY <2>6 DEF IsLatest
    <3> QED
      BY <2>1, <2>3, <2>4, <2>5, <3>1 DEF RowMirrorsLatest
  <2>9. Grows
    BY <2>1, <2>4, <2>5, <2>6 DEF Grows
  <2>10. \A e \in Executions, s \in Steps : row'[e].status = "unstarted" => ~Written(e, s)'
    BY <2>1, <2>4, <2>6 DEF Anchored
  <2>11. sweep'.ids = {} /\ sweep'.doomed = {} /\ UNCHANGED <<worker, client>>
    BY <1>12 DEF SweepCommit, IdleSweep
  <2> QED
    BY <2>7, <2>8, <2>9, <2>10, <2>11, AnchorFrame DEF Anchored
<1>13. ASSUME NEW e \in Executions, LeaseExpires(e) PROVE HistoryInv'
  <2>1. \A x \in Executions : row'[x].status = row[x].status /\ row'[x].nodes = row[x].nodes
    BY <1>13 DEF LeaseExpires, TypeOK, Row
  <2> QED
    BY <1>13, <2>1, <1>row DEF LeaseExpires
<1>14. ASSUME NEW e \in Executions, TimerElapses(e) PROVE HistoryInv'
  <2>1. \A x \in Executions : row'[x].status = row[x].status /\ row'[x].nodes = row[x].nodes
    BY <1>14 DEF TimerElapses, TypeOK, Row
  <2> QED
    BY <1>14, <2>1, <1>row DEF TimerElapses
<1>15. ASSUME Boot PROVE HistoryInv'
  <2>1. \A x \in Executions : row'[x].status = row[x].status /\ row'[x].nodes = row[x].nodes
    BY <1>15 DEF Boot, TypeOK, Row
  <2> QED
    BY <1>15, <2>1, <1>row DEF Boot
<1>16. ASSUME NEW i \in 1..MaxBoots, Crash(i) PROVE HistoryInv'
  <2>1. UNCHANGED <<row, cps>>
    BY <1>16 DEF Crash
  <2>2. ASSUME Grows, NEW w \in Workers PROVE TickAnchored(w)'
    <3>1. CASE worker'[w] = IdleWorker
      BY <3>1 DEF TickAnchored, IdleWorker
    <3>2. CASE worker'[w] = worker[w]
      BY <2>2, <3>2, TickStaysAnchored DEF Anchored
    <3> QED
      BY <1>16, <3>1, <3>2 DEF Crash
  <2>3. ASSUME Grows, NEW c \in Clients PROVE CallAnchored(c)'
    <3>1. CASE client'[c] = IdleClient
      BY <3>1 DEF CallAnchored, IdleClient
    <3>2. CASE client'[c] = client[c]
      BY <2>3, <3>2, CallStaysAnchored DEF Anchored
    <3> QED
      BY <1>16, <3>1, <3>2 DEF Crash
  <2>4. /\ \A x \in sweep'.ids : Exists(x)
        /\ \A p \in sweep'.doomed : p[1] \in sweep'.ids
        /\ sweep'.ids \subseteq Executions
    <3>1. sweep' = sweep \/ sweep' = IdleSweep
      BY <1>16 DEF Crash
    <3> QED
      BY <3>1, <1>swp, <1>ids DEF IdleSweep
  <2> QED
    BY <2>1, <2>2, <2>3, <2>4, QuietHistory
<1>17. ASSUME UNCHANGED <<row, cps, worker, client, sweep>> PROVE HistoryInv'
  BY <1>17, <1>row
<1>18. ASSUME NEW w \in Workers, TickRefused(w) \/ TickVanished(w) \/ TickError(w)
       PROVE  HistoryInv'
  BY <1>18, <1>idle DEF TickRefused, TickVanished, TickError
<1> QED
  BY <1>1, <1>2, <1>3, <1>4, <1>5, <1>6, <1>7, <1>8, <1>9, <1>10, <1>11, <1>12, <1>13,
     <1>14, <1>15, <1>16, <1>17, <1>18
  DEF Next, Tick, Control, vars, LockSessionDrops

\* The history invariant holds throughout.
THEOREM HistoryCorrect == Spec => []HistoryInv
<1>1. Init => HistoryInv
  <2> SUFFICES ASSUME Init PROVE HistoryInv
    OBVIOUS
  <2>1. \A e \in Executions, s \in Steps : ~Written(e, s) /\ ~Exists(e)
    BY DEF Init, Written, Exists, Blank, Status, Live, Terminal
  <2>2. 0 \in Steps
    BY EngineAssumption DEF Steps
  <2>3. /\ \A w \in Workers : TickAnchored(w)
        /\ \A c \in Clients : CallAnchored(c)
    BY DEF Init, TickAnchored, CallAnchored, IdleWorker, IdleClient
  <2>4. sweep.ids = {} /\ sweep.doomed = {}
    BY DEF Init, IdleSweep
  <2> QED
    BY <2>1, <2>2, <2>3, <2>4
    DEF HistoryInv, ContiguousCheckpoints, RowMirrorsLatest, Anchored
<1> QED
  BY <1>1, HistoryNext, TypeCorrect, PTL DEF Spec

\* Checkpoints are numbered without a gap, whoever wrote them.
THEOREM CheckpointsContiguous == Spec => []ContiguousCheckpoints
  BY HistoryCorrect, PTL DEF HistoryInv

\* The nodes in the row are those of the latest checkpoint.
THEOREM RowIsACopy == Spec => []RowMirrorsLatest
  BY HistoryCorrect, PTL DEF HistoryInv

\* A committed checkpoint is never rewritten while its execution is in the table:
\* a commit writes a free step, a new execution had none, and the sweep deletes
\* checkpoints only of rows it deletes.
THEOREM CheckpointsNeverRewritten == Spec => CheckpointsImmutable
<1> DEFINE A == \A e \in Executions, s \in Steps :
                  Exists(e) /\ Written(e, s) /\ row'[e].status # "swept"
                    => cps'[e][s] = cps[e][s]
<1>1. ASSUME TypeOK, HistoryInv, [Next]_vars PROVE [A]_vars
  <2> USE <1>1
  <2>1. ASSUME NEW e \in Executions, StartExecution(e) PROVE A
    <3>1. ~Exists(e) /\ \A x \in Executions \ {e} : cps'[x] = cps[x]
      BY <2>1 DEF StartExecution, Exists, Status, Live, Terminal, TypeOK
    <3> QED
      BY <3>1
  <2>2. ASSUME NEW e \in Executions, NEW owner, NEW step, NEW c, NEW o,
               CommitStep(e, owner, step, c, o)
        PROVE  A
    <3>1. /\ \A x \in Executions \ {e} : cps'[x] = cps[x]
          /\ \A s \in Steps \ {step} : cps'[e][s] = cps[e][s]
          /\ ~Written(e, step)
      BY <2>2 DEF CommitStep, TypeOK
    <3> QED
      BY <3>1
  <2>3. ASSUME NEW w \in Workers, TickCommit(w) PROVE A
    <3>1. worker[w].exec \in Executions
      BY <2>3 DEF TickCommit, TypeOK
    <3>2. PICK o \in StepOutcomes(worker[w]) :
            CommitStep(worker[w].exec, worker[w].engine, worker[w].from + 1,
                       [by |-> "tick", from |-> worker[w].from, nodes |-> o.nodes], o)
      BY <2>3 DEF TickCommit
    <3> HIDE DEF A
    <3> QED
      BY <2>2, <3>1, <3>2
  <2>4. ASSUME NEW c \in Clients, ControlCommit(c) PROVE A
    <3>1. client[c].exec \in Executions
      BY <2>4 DEF ControlCommit, TypeOK
    <3>2. CommitStep(client[c].exec, 0, client[c].next,
                     [by |-> client[c].op, from |-> client[c].from, nodes |-> client[c].nodes],
                     ControlOutcome(client[c]))
      BY <2>4 DEF ControlCommit
    <3> HIDE DEF A
    <3> QED
      BY <2>2, <3>1, <3>2
  <2>5. ASSUME SweepCommit PROVE A
    <3>1. sweep.ids \subseteq Executions /\ \A p \in sweep.doomed : p[1] \in sweep.ids
      BY DEF HistoryInv, Anchored, TypeOK, Sweep
    <3>2. \A e \in sweep.ids : row'[e].status = "swept"
      BY <2>5, <3>1 DEF SweepCommit, Blank
    <3>3. \A e \in Executions \ sweep.ids, s \in Steps : cps'[e][s] = cps[e][s]
      BY <2>5, <3>1 DEF SweepCommit
    <3> QED
      BY <3>2, <3>3
  <2>6. CASE UNCHANGED cps
    BY <2>6
  <2> QED
    BY <1>1, <2>1, <2>3, <2>4, <2>5, <2>6
    DEF Next, Tick, Control, vars, Claim, Load, TickRefused, TickVanished, TickError,
        LeaseExpires, TimerElapses, ControlRow, ControlState, ControlStep, ControlRefused,
        SweepSelect, SweepCheckpoints, Boot, Crash, LockSessionDrops
<1> QED
  BY <1>1, TypeCorrect, HistoryCorrect, PTL DEF Spec, CheckpointsImmutable

-----------------------------------------------------------------------------
(* Processes *)

\* As long as the lock's session never dropped, whoever is up holds the lock.
LockHeld == drops = 0 => up \subseteq {lock}

\* Two engine processes are never up at once unless the lock's session dropped.
THEOREM OneEngine == Spec => []SoleEngine
<1>1. Init => LockHeld
  BY DEF Init, LockHeld
<1>2. TypeOK /\ LockHeld /\ [Next]_vars => LockHeld'
  <2> SUFFICES ASSUME TypeOK, LockHeld, [Next]_vars PROVE LockHeld'
    OBVIOUS
  <2>1. CASE Boot
    BY <2>1 DEF Boot, LockHeld, TypeOK
  <2>2. ASSUME NEW i \in 1..MaxBoots, Crash(i) PROVE LockHeld'
    BY <2>2 DEF Crash, LockHeld
  <2>3. CASE LockSessionDrops
    BY <2>3 DEF LockSessionDrops, LockHeld, TypeOK
  <2>4. CASE UNCHANGED <<up, lock, drops>>
    BY <2>4 DEF LockHeld
  <2> QED
    BY <2>1, <2>2, <2>3, <2>4
    DEF Next, Tick, Control, vars, StartExecution, Claim, Load, TickCommit, TickRefused,
        TickVanished, TickError, LeaseExpires, TimerElapses, ControlRow, ControlState,
        ControlStep, ControlCommit, ControlRefused, SweepSelect, SweepCheckpoints, SweepCommit
<1>3. LockHeld => SoleEngine
  BY DEF LockHeld, SoleEngine
<1> QED
  BY <1>1, <1>2, <1>3, TypeCorrect, PTL DEF Spec

-----------------------------------------------------------------------------
(* Engine.tla implements the work queue of ExecutionQueue.tla: under the
   mapping that keeps status, wait_kind, lease_until and the updated_at order
   of every row, each of the engine's steps is a step of the queue or leaves
   the queue alone. *)

\* What the queue sees of the table.
StatusOf == [e \in Executions |-> row[e].status]
WaitOf   == [e \in Executions |-> row[e].wait]
LeaseOf  == [e \in Executions |-> row[e].lease]

\* An execution is in the queue's table when it has a row.
LEMMA SameRows ==
  ASSUME NEW e \in Executions PROVE Queue!InTable(e) <=> Exists(e)
  BY DEF Queue!InTable, Queue!Idle, Queue!Terminal, Exists, Status, Live, Terminal

\* Setting updated_at sends the row to the back of the queue.
LEMMA TouchIsToBack ==
  ASSUME NEW e \in Executions, Touch(e) PROVE Queue!ToBack(e)
<1>1. {y \in Executions : y # e /\ Queue!InTable(y)} = {y \in Executions : y # e /\ Exists(y)}
  BY SameRows
<1> QED
  BY <1>1 DEF Touch, Queue!ToBack

\* step() parks an execution exactly when it gives it something to wait for.
LEMMA StepOutcomeWaits ==
  ASSUME NEW k, NEW o \in StepOutcomes(k)
  PROVE  /\ o.status \in Queue!Idle
         /\ o.wait \in {"none", "input", "timer"}
         /\ o.status = "Waiting" <=> o.wait # "none"
  BY DEF StepOutcomes, Outcome, Queue!Idle, Queue!Terminal, Nodes

\* Each step of the engine is a step of the queue or a stutter.
LEMMA StepRefines ==
  ASSUME TypeOK, LeaseMatchesRunning, HistoryInv, [Next]_vars
  PROVE  [Queue!Next]_(Queue!vars)
<1>1. ASSUME NEW e \in Executions, StartExecution(e) PROVE Queue!Insert(e)
  <2>1. /\ StatusOf' = [StatusOf EXCEPT ![e] = "Ready"]
        /\ WaitOf' = [WaitOf EXCEPT ![e] = "none"]
        /\ LeaseOf' = [LeaseOf EXCEPT ![e] = "none"]
    BY <1>1 DEF StartExecution, TypeOK, StatusOf, WaitOf, LeaseOf
  <2> QED
    BY <1>1, <2>1, TouchIsToBack
    DEF StartExecution, Queue!Insert, StatusOf, WaitOf, LeaseOf
<1>2. ASSUME NEW w \in Workers, NEW e \in Executions, Claim(w, e) PROVE Queue!Claim(e)
  <2>1. PICK i \in up : row' = [row EXCEPT ![e] = Leased(row[e], i)]
    BY <1>2 DEF Claim
  <2>2. \A x \in Executions : Queue!Claimable(x) <=> Claimable(x)
    BY DEF Queue!Claimable, Claimable
  <2>3. /\ StatusOf' = [StatusOf EXCEPT ![e] = "Running"]
        /\ WaitOf' = WaitOf
        /\ LeaseOf' = [LeaseOf EXCEPT ![e] = "held"]
    BY <2>1 DEF TypeOK, Leased, StatusOf, WaitOf, LeaseOf
  <2> QED
    BY <1>2, <2>2, <2>3, TouchIsToBack
    DEF Claim, Queue!Claim, StatusOf, WaitOf, LeaseOf
<1>3. ASSUME NEW e \in Executions, NEW owner, NEW step, NEW c, NEW o,
             CommitStep(e, owner, step, c, o)
      PROVE  /\ StatusOf' = [StatusOf EXCEPT ![e] = o.status]
             /\ WaitOf' = [WaitOf EXCEPT ![e] = o.wait]
             /\ LeaseOf' = [LeaseOf EXCEPT ![e] = "none"]
             /\ Queue!ToBack(e)
             /\ Exists(e) /\ row[e].owner = owner
  BY <1>3, TouchIsToBack DEF CommitStep, TypeOK, Released, StatusOf, WaitOf, LeaseOf
<1>4. ASSUME NEW w \in Workers, NEW e \in Executions, e = worker[w].exec, TickCommit(w)
      PROVE  Queue!Settle(e)
  <2>1. worker[w].engine \in up
    BY <1>4 DEF TickCommit, TypeOK
  <2>2. PICK o \in StepOutcomes(worker[w]) :
          CommitStep(e, worker[w].engine, worker[w].from + 1,
                     [by |-> "tick", from |-> worker[w].from, nodes |-> o.nodes], o)
    BY <1>4 DEF TickCommit
  <2>3. worker[w].engine # 0
    BY <2>1 DEF TypeOK
  <2>4. /\ StatusOf' = [StatusOf EXCEPT ![e] = o.status]
        /\ WaitOf' = [WaitOf EXCEPT ![e] = o.wait]
        /\ LeaseOf' = [LeaseOf EXCEPT ![e] = "none"]
        /\ Queue!ToBack(e)
        /\ row[e].owner = worker[w].engine
    BY <2>2, <1>3
  <2>5. row[e].status = "Running"
    BY <2>3, <2>4 DEF LeaseMatchesRunning
  <2>6. /\ o.status \in Queue!Idle
        /\ o.wait \in {"none", "input", "timer"}
        /\ o.status = "Waiting" <=> o.wait # "none"
    BY StepOutcomeWaits
  <2> QED
    BY <2>4, <2>5, <2>6 DEF Queue!Settle, StatusOf, WaitOf, LeaseOf
<1>5. ASSUME NEW c \in Clients, NEW e \in Executions, e = client[c].exec, ControlCommit(c)
      PROVE  Queue!Rewrite(e)
  <2> DEFINE o == ControlOutcome(client[c])
  <2>1. o.status \in {"Ready", "Cancelled"} /\ o.wait = "none"
    BY DEF ControlOutcome, Outcome
  <2>2. CommitStep(e, 0, client[c].next,
                   [by |-> client[c].op, from |-> client[c].from, nodes |-> client[c].nodes], o)
    BY <1>5 DEF ControlCommit
  <2> HIDE DEF o
  <2>3. /\ StatusOf' = [StatusOf EXCEPT ![e] = o.status]
        /\ WaitOf' = [WaitOf EXCEPT ![e] = o.wait]
        /\ LeaseOf' = [LeaseOf EXCEPT ![e] = "none"]
        /\ Queue!ToBack(e)
        /\ Exists(e) /\ row[e].owner = 0
    BY <2>2, <1>3
  <2>4. row[e].status # "Running" /\ row[e].lease = "none"
    BY <2>3 DEF LeaseMatchesRunning
  <2>5. LeaseOf' = LeaseOf
    BY <2>3, <2>4 DEF LeaseOf
  <2>6. row[e].status \in Queue!Idle
    BY <2>3, <2>4 DEF Exists, Status, Live, Terminal, Queue!Idle, Queue!Terminal
  <2> QED
    BY <2>1, <2>3, <2>5, <2>6 DEF Queue!Rewrite, StatusOf, WaitOf, LeaseOf
<1>6. ASSUME NEW e \in Executions, LeaseExpires(e) PROVE Queue!Expire({e})
  <2>1. /\ StatusOf' = StatusOf /\ WaitOf' = WaitOf
        /\ LeaseOf' = [x \in Executions |-> IF x \in {e} THEN "expired" ELSE LeaseOf[x]]
    BY <1>6 DEF LeaseExpires, TypeOK, Row, StatusOf, WaitOf, LeaseOf
  <2> QED
    BY <1>6, <2>1 DEF LeaseExpires, Queue!Expire, StatusOf, WaitOf, LeaseOf
<1>7. ASSUME NEW e \in Executions, TimerElapses(e) PROVE Queue!Elapse(e)
  <2>1. /\ StatusOf' = StatusOf /\ LeaseOf' = LeaseOf
        /\ WaitOf' = [WaitOf EXCEPT ![e] = "elapsed"]
    BY <1>7 DEF TimerElapses, TypeOK, Row, StatusOf, WaitOf, LeaseOf
  <2> QED
    BY <1>7, <2>1 DEF TimerElapses, Queue!Elapse, StatusOf, WaitOf, LeaseOf
<1>8. ASSUME NEW E \in SUBSET Executions, E = sweep.ids, SweepCommit PROVE Queue!Delete(E)
  <2>1. \A e \in E : Queue!InTable(e)
    BY <1>8, SameRows DEF HistoryInv, Anchored
  <2>2. /\ StatusOf' = [e \in Executions |-> IF e \in E THEN "swept" ELSE StatusOf[e]]
        /\ WaitOf' = [e \in Executions |-> IF e \in E THEN "none" ELSE WaitOf[e]]
        /\ LeaseOf' = [e \in Executions |-> IF e \in E THEN "none" ELSE LeaseOf[e]]
        /\ older' = {p \in older : p[1] \notin E /\ p[2] \notin E}
    BY <1>8 DEF SweepCommit, Blank, StatusOf, WaitOf, LeaseOf
  <2> QED
    BY <2>1, <2>2 DEF Queue!Delete, StatusOf, WaitOf, LeaseOf
<1>9. ASSUME Boot PROVE \E E \in SUBSET Executions : Queue!Expire(E)
  <2> DEFINE held == {e \in Executions : row[e].status = "Running" /\ row[e].lease = "held"}
  <2>1. StatusOf' = StatusOf /\ WaitOf' = WaitOf /\ older' = older
    <3>1. ASSUME NEW e \in Executions
          PROVE  row'[e].status = row[e].status /\ row'[e].wait = row[e].wait
      <4>1. row[e] \in Row
        BY DEF TypeOK
      <4>2. row'[e] = row[e] \/ row'[e] = [row[e] EXCEPT !.lease = "expired"]
        BY <1>9 DEF Boot
      <4> QED
        BY <4>1, <4>2 DEF Row
    <3>2. older' = older
      BY <1>9 DEF Boot
    <3> QED
      BY <3>1, <3>2 DEF StatusOf, WaitOf
  <2>2. PICK E \in SUBSET held :
          LeaseOf' = [e \in Executions |-> IF e \in E THEN "expired" ELSE LeaseOf[e]]
    <3>1. CASE row' = row
      <4>1. LeaseOf' = [e \in Executions |-> IF e \in {} THEN "expired" ELSE LeaseOf[e]]
        BY <3>1 DEF LeaseOf
      <4>2. {} \in SUBSET held
        OBVIOUS
      <4> QED
        BY <4>1, <4>2, Zenon
    <3>2. CASE row' = [e \in Executions |->
                         IF row[e].status = "Running" /\ row[e].lease = "held"
                         THEN [row[e] EXCEPT !.lease = "expired"] ELSE row[e]]
      <4>1. LeaseOf' = [e \in Executions |-> IF e \in held THEN "expired" ELSE LeaseOf[e]]
        BY <3>2 DEF LeaseOf, TypeOK, Row
      <4>2. held \in SUBSET held
        OBVIOUS
      <4> HIDE DEF held
      <4> QED
        BY <4>1, <4>2, Zenon
    <3> QED
      BY <1>9, <3>1, <3>2 DEF Boot
  <2>3. E \in SUBSET Executions /\ \A e \in E : LeaseOf[e] = "held"
    BY DEF LeaseOf
  <2>4. Queue!Expire(E)
    BY <2>1, <2>2, <2>3 DEF Queue!Expire, StatusOf, WaitOf, LeaseOf
  <2> QED
    BY <2>3, <2>4
<1>10. CASE UNCHANGED <<row, older>>
  BY <1>10 DEF Queue!vars
<1>11. ASSUME Next PROVE Queue!Next \/ UNCHANGED <<row, older>>
  <2>1. PICK E \in SUBSET Executions : E = sweep.ids
    BY DEF TypeOK, Sweep
  <2>2. ASSUME NEW w \in Workers, Tick(w) PROVE Queue!Next \/ UNCHANGED <<row, older>>
    <3>1. ASSUME TickCommit(w) PROVE Queue!Next
      <4>1. PICK e \in Executions : e = worker[w].exec
        BY <3>1 DEF TickCommit, TypeOK
      <4> QED
        BY <1>4, <3>1, <4>1 DEF Queue!Next
    <3>2. ASSUME NEW e \in Executions, Claim(w, e) PROVE Queue!Next
      BY <1>2, <3>2 DEF Queue!Next, Queue!ClaimSome
    <3> QED
      BY <2>2, <3>1, <3>2 DEF Tick, Load, TickRefused, TickVanished
  <2>3. ASSUME NEW c \in Clients, Control(c) PROVE Queue!Next \/ UNCHANGED <<row, older>>
    <3>1. ASSUME ControlCommit(c) PROVE Queue!Next
      <4>1. PICK e \in Executions : e = client[c].exec
        BY <3>1 DEF ControlCommit, TypeOK
      <4> QED
        BY <1>5, <3>1, <4>1 DEF Queue!Next
    <3> QED
      BY <2>3, <3>1 DEF Control, ControlRow, ControlState, ControlStep, ControlRefused
  <2>4. ASSUME NEW e \in Executions, StartExecution(e) PROVE Queue!Next
    BY <1>1, <2>4 DEF Queue!Next
  <2>5. ASSUME NEW e \in Executions, LeaseExpires(e) PROVE Queue!Next
    <3>1. {e} \in SUBSET Executions
      OBVIOUS
    <3> QED
      BY <1>6, <2>5, <3>1 DEF Queue!Next
  <2>6. ASSUME NEW e \in Executions, TimerElapses(e) PROVE Queue!Next
    BY <1>7, <2>6 DEF Queue!Next
  <2>7. ASSUME SweepCommit PROVE Queue!Next
    BY <1>8, <2>1, <2>7 DEF Queue!Next
  <2>8. ASSUME Boot PROVE Queue!Next
    BY <1>9, <2>8 DEF Queue!Next
  <2>9. ASSUME NEW w \in Workers, TickError(w) PROVE UNCHANGED <<row, older>>
    BY <2>9 DEF TickError
  <2>10. ASSUME NEW i \in 1..MaxBoots, Crash(i) PROVE UNCHANGED <<row, older>>
    BY <2>10 DEF Crash
  <2>11. ASSUME SweepSelect \/ SweepCheckpoints \/ LockSessionDrops
         PROVE  UNCHANGED <<row, older>>
    BY <2>11 DEF SweepSelect, SweepCheckpoints, LockSessionDrops
  <2> QED
    BY <1>11, <2>2, <2>3, <2>4, <2>5, <2>6, <2>7, <2>8, <2>9, <2>10, <2>11 DEF Next
<1> QED
  BY <1>10, <1>11 DEF vars

\* The executions table is a first-in first-out work queue by updated_at whatever
\* ticks, control calls, the sweep, crashes and restarts do to it.
THEOREM EngineImplementsQueue == Spec => ImplementsQueue
<1>1. Init => Queue!Init
  BY DEF Init, Queue!Init, Blank
<1> QED
  BY <1>1, StepRefines, TypeCorrect, LeaseCorrect, HistoryCorrect, PTL
  DEF Spec, ImplementsQueue, Queue!Spec

(***************************************************************************)
(* The super-step                                                          *)
(***************************************************************************)

\* A set of prefixes that has the empty one and, with each, the next longer one has them all.
LEMMA PrefixInduction ==
  ASSUME NEW n \in Nat, NEW P, 0 \in P, \A k \in 1..n : k - 1 \in P => k \in P
  PROVE  \A k \in 0..n : k \in P
<1> DEFINE Bad == {k \in 0..n : k \notin P}
<1> SUFFICES ASSUME Bad # {} PROVE FALSE
  OBVIOUS
<1>1. Bad \in SUBSET Nat
  OBVIOUS
<1>2. PICK k \in Bad : \A j \in Bad : k <= j
  BY <1>1, LeastExists
<1>3. k \in 1..n /\ k - 1 \in 0..n /\ ~(k <= k - 1)
  OBVIOUS
<1>4. k - 1 \in P
  BY <1>2, <1>3
<1> QED
  BY <1>3, <1>4

\* A branch below n has a place among n results.
LEMMA Place ==
  ASSUME NEW branch \in Nat, NEW n \in Nat, branch < n
  PROVE  branch + 1 \in 1..n
OBVIOUS

\* A barrier opened for n branches.
LEMMA LenOfBlanks ==
  ASSUME NEW n \in Nat
  PROVE  Len([i \in 1..n |-> Null]) = n
OBVIOUS

Active == [node : NodesOf(graph), branch : Nat \cup {NoBranch}]
Output == [at : Nat, active : Active, result : Nat \cup {Error, Null}]
Barriers == [FanIns -> Seq(Int)]
Execution == [status : {"Ready", "Waiting", "Completed", "Failed"}, nodes : Seq(Active),
              items : Nat, slots : Barriers, folded : Barriers]
Accumulator == [items : Nat, slots : Barriers, folded : Barriers, next : Seq(Active),
                failed : BOOLEAN, panic : BOOLEAN]

GraphOK == WellFormed(graph) /\ Valid(graph)

\* The edges of a graph join nodes of it.
LEMMA EdgeType ==
  ASSUME GraphOK
  PROVE  /\ graph.edges \in Seq([from : NodesOf(graph), to : NodesOf(graph), always : BOOLEAN, when : SUBSET Nat])
         /\ DOMAIN graph.edges = 1..Len(graph.edges)
         /\ \A i \in DOMAIN graph.edges :
              graph.edges[i].from \in NodesOf(graph) /\ graph.edges[i].to \in NodesOf(graph)
<1> DEFINE S == [from : NodesOf(graph), to : NodesOf(graph), always : BOOLEAN, when : SUBSET Nat]
<1>1. graph.edges \in Seq(S)
  BY DEF GraphOK, WellFormed
<1>2. DOMAIN graph.edges = 1..Len(graph.edges)
  BY <1>1
<1>3. \A i \in 1..Len(graph.edges) : graph.edges[i] \in S
  BY <1>1, ElementOfSeq
<1> QED
  BY <1>1, <1>2, <1>3

\* fan_in_consuming finds FanIns only.
LEMMA ConsumingType ==
  ASSUME NEW n
  PROVE  FanInConsuming(n) \subseteq FanIns
BY DEF FanInConsuming, FanIns

\* What the edges that hold lead to.
LEMMA SuccessorsType ==
  ASSUME GraphOK, NEW n, NEW holds
  PROVE  /\ Successors(n, holds) \in Seq(Active)
         /\ \E e : /\ e \in [1..Len(Successors(n, holds)) -> DOMAIN graph.edges]
                   /\ \A i, j \in 1..Len(Successors(n, holds)) : i # j => e[i] # e[j]
                   /\ \A i \in 1..Len(Successors(n, holds)) :
                        /\ Successors(n, holds)[i] = Plain(graph.edges[e[i]].to)
                        /\ graph.edges[e[i]].from = n
                        /\ graph.edges[e[i]] \in holds
                   /\ \A k \in DOMAIN graph.edges :
                        graph.edges[k] \in holds /\ graph.edges[k].from = n =>
                          \E i \in 1..Len(Successors(n, holds)) : e[i] = k
<1> DEFINE keep == {edge \in holds : edge.from = n}
           fired == Only(graph.edges, keep)
           S == [from : NodesOf(graph), to : NodesOf(graph), always : BOOLEAN, when : SUBSET Nat]
<1>1. graph.edges \in Seq(S) /\ DOMAIN graph.edges = 1..Len(graph.edges)
  BY EdgeType
<1>2. fired \in Seq(S) /\ \E e : Embeds(e, fired, graph.edges, keep, Len(graph.edges))
  BY <1>1, OnlyIsAFilter
<1>3. PICK e : Embeds(e, fired, graph.edges, keep, Len(graph.edges))
  BY <1>2
<1>4. PICK s \in Seq(S) : s = fired
  BY <1>2
<1>5. PICK t : t = [i \in 1..Len(s) |-> Plain(s[i].to)]
  OBVIOUS
<1>6. t = Successors(n, holds)
  BY <1>4, <1>5 DEF Successors
<1> HIDE DEF fired
<1>7. \A i \in 1..Len(s) : s[i] \in S
  BY ElementOfSeq
<1>8. t \in Seq(Active) /\ Len(t) = Len(s)
  <2>1. \A i \in 1..Len(s) : t[i] \in Active
    BY <1>5, <1>7 DEF Plain, Active, NoBranch
  <2> QED
    BY <1>5, <2>1
<1>9. /\ e \in [1..Len(s) -> 1..Len(graph.edges)]
      /\ \A i \in 1..Len(s) : s[i] = graph.edges[e[i]] /\ graph.edges[e[i]] \in keep
      /\ \A i, j \in 1..Len(s) : i < j => e[i] < e[j]
      /\ \A k \in 1..Len(graph.edges) : graph.edges[k] \in keep => \E i \in 1..Len(s) : e[i] = k
  BY <1>3, <1>4 DEF Embeds
<1>10. \A i, j \in 1..Len(s) : i # j => e[i] # e[j]
  <2>1. \A i, j \in 1..Len(s) : i # j => i < j \/ j < i
    OBVIOUS
  <2>2. \A i \in 1..Len(s) : e[i] \in Nat
    BY <1>9
  <2> QED
    BY <1>9, <2>1, <2>2
<1>11. \A i \in 1..Len(s) : t[i] = Plain(graph.edges[e[i]].to)
  BY <1>5, <1>9
<1>12. \A k \in DOMAIN graph.edges :
         graph.edges[k] \in holds /\ graph.edges[k].from = n => \E i \in 1..Len(t) : e[i] = k
  BY <1>1, <1>8, <1>9
<1>13. \A i \in 1..Len(t) : graph.edges[e[i]].from = n /\ graph.edges[e[i]] \in holds
  BY <1>8, <1>9
<1>14. e \in [1..Len(t) -> DOMAIN graph.edges]
  BY <1>1, <1>8, <1>9
<1> HIDE DEF keep, S
<1> QED
  BY <1>6, <1>8, <1>10, <1>11, <1>12, <1>13, <1>14

\* The branches a FanOut over n elements starts.
Branches(target, n) == [i \in 1..n |-> [node |-> target, branch |-> i - 1]]

\* A FanOut starts n branches of its target, numbered from zero.
LEMMA BranchesType ==
  ASSUME NEW target \in NodesOf(graph), NEW n \in Nat
  PROVE  /\ Branches(target, n) \in Seq(Active) /\ Len(Branches(target, n)) = n
         /\ \A i \in 1..n : Branches(target, n)[i] = [node |-> target, branch |-> i - 1]
<1>1. \A i \in 1..n : [node |-> target, branch |-> i - 1] \in Active
  BY DEF Active
<1> QED
  BY <1>1 DEF Branches

\* The branches are numbered from zero.
LEMMA BranchesRange ==
  ASSUME NEW target \in NodesOf(graph), NEW n \in Nat, NEW active \in Active
  PROVE  active \in Range(Branches(target, n)) <=>
           active.node = target /\ active.branch # NoBranch /\ active.branch < n
<1>1. PICK t \in Seq(Active) : t = Branches(target, n) /\ Len(t) = n
  BY BranchesType
<1>2. \A i \in 1..n : t[i] = [node |-> target, branch |-> i - 1]
  BY <1>1, BranchesType
<1>3. DOMAIN t = 1..n
  BY <1>1
<1>4. ASSUME NEW i \in 1..n, active = [node |-> target, branch |-> i - 1]
      PROVE  active.node = target /\ active.branch # NoBranch /\ active.branch < n
  BY <1>4 DEF NoBranch
<1>5. ASSUME active.node = target, active.branch # NoBranch, active.branch < n
      PROVE  \E i \in 1..n : active = [node |-> target, branch |-> i - 1]
  <2>1. active = [node |-> target, branch |-> active.branch] /\ active.branch \in Nat
    BY <1>5 DEF Active
  <2>2. active.branch + 1 \in 1..n
    BY <1>5, <2>1, Place
  <2>3. (active.branch + 1) - 1 = active.branch
    BY <2>1
  <2> QED
    BY ONLY <2>1, <2>2, <2>3
<1> QED
  BY <1>1, <1>2, <1>3, <1>4, <1>5 DEF Range

\* A FanOut's output opens the barrier and starts the branches.
LEMMA FanOutOutput ==
  ASSUME GraphOK, NEW a \in Accumulator, NEW o \in Output,
         graph.kind[o.active.node] = "FanOut"
  PROVE  LET b == OneOutput(a, o)
             target == graph.target[o.active.node]
         IN  /\ b \in Accumulator
             /\ b.items = a.items /\ b.folded = a.folded /\ b.failed = a.failed /\ b.panic = a.panic
             /\ b.slots = OpenFanInBarrier(a.slots, target, a.items)
             /\ b.next = a.next \o Branches(target, a.items)
             /\ target \in Targets(graph) /\ target \in NodesOf(graph)
<1> DEFINE target == graph.target[o.active.node]
           applied == [a EXCEPT !.items = ApplyOutput(@, o)]
<1>1. o.active.node \in NodesOf(graph)
  BY DEF Output, Active
<1>2. target \in NodesOf(graph) /\ target \in Targets(graph)
  BY <1>1 DEF GraphOK, WellFormed, OfKind, Targets
<1>3. ApplyOutput(a.items, o) = a.items
  BY DEF ApplyOutput
<1>4. applied = a
  BY <1>3 DEF Accumulator
<1>5. a.next \in Seq(Active) /\ a.slots \in Barriers /\ a.items \in Nat
  BY DEF Accumulator
<1>6. OpenFanInBarrier(a.slots, target, a.items) \in Barriers
  <2>1. [i \in 1..a.items |-> Null] \in Seq(Int)
    BY <1>5 DEF Null
  <2> QED
    BY <1>5, <2>1 DEF OpenFanInBarrier, Barriers
<1>7. a.next \o Branches(target, a.items) \in Seq(Active)
  BY <1>2, <1>5, BranchesType
<1>8. OneOutput(a, o) = FanOut(a, o)
  BY <1>4 DEF OneOutput
<1>9. FanOut(a, o) = [a EXCEPT !.slots = OpenFanInBarrier(a.slots, target, a.items),
                               !.next = a.next \o Branches(target, a.items)]
  BY DEF FanOut, Branches
<1> HIDE DEF target
<1> QED
  <2>1. OneOutput(a, o) \in Accumulator
    BY <1>6, <1>7, <1>8, <1>9 DEF Accumulator
  <2>2. LET b == OneOutput(a, o)
        IN  /\ b.items = a.items /\ b.folded = a.folded /\ b.failed = a.failed /\ b.panic = a.panic
            /\ b.slots = OpenFanInBarrier(a.slots, target, a.items)
            /\ b.next = a.next \o Branches(target, a.items)
    BY <1>8, <1>9 DEF Accumulator
  <2> QED
    BY <1>2, <2>1, <2>2 DEF target

\* An output that no barrier takes fails the execution or fires its edges.
LEMMA EdgesOutput ==
  ASSUME GraphOK, NEW a \in Accumulator, NEW o \in Output,
         graph.kind[o.active.node] # "FanOut", ~Reports(o)
  PROVE  LET b == OneOutput(a, o)
         IN  /\ b \in Accumulator
             /\ b.items = ApplyOutput(a.items, o)
             /\ b.slots = a.slots /\ b.folded = a.folded /\ b.panic = a.panic
             /\ b.failed = (a.failed \/ o.result = Error)
             /\ b.next = IF o.result = Error THEN a.next
                         ELSE a.next \o Successors(o.active.node, Holding(b.items))
<1> DEFINE applied == [a EXCEPT !.items = ApplyOutput(@, o)]
<1>1. ApplyOutput(a.items, o) \in Nat
  BY DEF ApplyOutput, Elements, Accumulator
<1>2. /\ applied \in Accumulator /\ applied.items = ApplyOutput(a.items, o)
      /\ applied.slots = a.slots /\ applied.folded = a.folded /\ applied.panic = a.panic
      /\ applied.failed = a.failed /\ applied.next = a.next
  BY <1>1 DEF Accumulator
<1> HIDE DEF applied
<1>3. OneOutput(a, o) = RecordEdges(applied, o)
  BY DEF OneOutput, applied
<1>4. CASE o.result = Error
  <2>1. OneOutput(a, o) = [applied EXCEPT !.failed = TRUE]
    BY <1>3, <1>4 DEF RecordEdges
  <2> QED
    BY <1>2, <1>4, <2>1 DEF Accumulator
<1>5. CASE o.result # Error
  <2>1. OneOutput(a, o) = [applied EXCEPT !.next = a.next \o Successors(o.active.node, Holding(applied.items))]
    BY <1>2, <1>3, <1>5 DEF RecordEdges
  <2>2. a.next \o Successors(o.active.node, Holding(applied.items)) \in Seq(Active)
    BY SuccessorsType DEF Accumulator
  <2>3. OneOutput(a, o) \in Accumulator
    BY <1>2, <2>1, <2>2 DEF Accumulator
  <2>4. OneOutput(a, o).items = applied.items
    BY <1>2, <2>1, <2>2 DEF Accumulator
  <2>5. OneOutput(a, o).next = a.next \o Successors(o.active.node, Holding(OneOutput(a, o).items))
    BY <1>2, <2>1, <2>4 DEF Accumulator
  <2> QED
    BY <1>2, <1>5, <2>1, <2>3, <2>4, <2>5 DEF Accumulator
<1> QED
  BY <1>4, <1>5

\* A result that has its place changes no other, and one that has none makes room.
LEMMA ReportedType ==
  ASSUME NEW results \in Seq(Int), NEW branch \in Nat, NEW result \in Int
  PROVE  /\ Reported(results, branch, result) \in Seq(Int)
         /\ branch < Len(results) =>
              /\ Len(Reported(results, branch, result)) = Len(results)
              /\ Reported(results, branch, result)[branch + 1] = result
              /\ \A i \in 1..Len(results) : i # branch + 1 =>
                   Reported(results, branch, result)[i] = results[i]
<1> DEFINE size == IF branch >= Len(results) THEN branch + 1 ELSE Len(results)
           r == [i \in 1..size |-> IF i = branch + 1 THEN result
                                   ELSE IF i <= Len(results) THEN results[i] ELSE Null]
<1>1. size \in Nat
  OBVIOUS
<1>2. \A i \in 1..size : i <= Len(results) => i \in 1..Len(results) /\ results[i] \in Int
  BY <1>1
<1>3. r \in Seq(Int) /\ Len(r) = size
  <2>1. \A i \in 1..size : r[i] \in Int
    BY <1>2 DEF Null
  <2> HIDE DEF size
  <2> QED
    BY <1>1, <2>1
<1>4. Reported(results, branch, result) = r
  BY DEF Reported
<1>5. ASSUME branch < Len(results)
      PROVE  /\ Len(r) = Len(results) /\ r[branch + 1] = result
             /\ \A i \in 1..Len(results) : i # branch + 1 => r[i] = results[i]
  <2>1. size = Len(results) /\ branch + 1 \in 1..size
    BY <1>5
  <2> QED
    BY <1>3, <2>1
<1> HIDE DEF r
<1> QED
  BY <1>3, <1>4, <1>5

\* A branch that has a place is put there.
LEMMA ReportedInPlace ==
  ASSUME NEW s \in Seq(Int), NEW branch \in Nat, branch < Len(s), NEW result \in Int,
         NEW results, results = Reported(s, branch, result)
  PROVE  /\ results \in Seq(Int) /\ Len(results) = Len(s)
         /\ results[branch + 1] = result
         /\ \A i \in 1..Len(s) : i # branch + 1 => results[i] = s[i]
BY ReportedType

\* o is the output of a branch that f takes, and makes b of a.
Reporting(a, o, f, b) ==
  /\ GraphOK /\ a \in Accumulator /\ o \in Output
  /\ graph.kind[o.active.node] # "FanOut" /\ Reports(o) /\ o.active.branch # NoBranch
  /\ FanInConsuming(o.active.node) = {f}
  /\ b = OneOutput(a, o)

Missing(results) == \E i \in DOMAIN results : results[i] = Null

\* The output of a branch goes to its place at the barrier, which folds when nothing is missing.
LEMMA BranchOutput ==
  ASSUME NEW a, NEW o, NEW f, NEW b, Reporting(a, o, f, b),
         NEW results, results = Reported(a.slots[f], o.active.branch, o.result)
  PROVE  /\ b \in Accumulator
         /\ b.slots = [a.slots EXCEPT ![f] = results]
         /\ Missing(results) => b.folded = a.folded /\ b.next = a.next
         /\ ~Missing(results) => /\ b.folded = [a.folded EXCEPT ![f] = results]
                                /\ b.next = Append(a.next, Plain(f))
         /\ b.failed = a.failed /\ b.panic = a.panic
<1> USE DEF Reporting
<1> DEFINE applied == [a EXCEPT !.items = ApplyOutput(@, o)]
<1>1. ApplyOutput(a.items, o) \in Nat
  BY DEF ApplyOutput, Elements, Accumulator
<1>2. /\ applied \in Accumulator /\ applied.items = ApplyOutput(a.items, o)
      /\ applied.slots = a.slots /\ applied.folded = a.folded /\ applied.panic = a.panic
      /\ applied.failed = a.failed /\ applied.next = a.next
  BY <1>1 DEF Accumulator
<1> HIDE DEF applied
<1>3. f \in FanIns /\ f \in NodesOf(graph) /\ (CHOOSE g \in FanInConsuming(o.active.node) : TRUE) = f
  BY ConsumingType DEF FanIns, OfKind
<1>4. OneOutput(a, o) = RecordFanInBranch(applied, o, f)
  BY <1>3 DEF OneOutput, applied
<1>5. results \in Seq(Int)
  <2>1. o.active.branch \in Nat
    BY DEF Output, Active
  <2> QED
  BY <1>3, <2>1, ReportedType DEF Accumulator, Barriers, Output, Error, Null
<1>6. a.slots \in Barriers /\ a.folded \in Barriers /\ a.next \in Seq(Active)
  BY DEF Accumulator
<1>7. /\ [a.slots EXCEPT ![f] = results] \in Barriers
      /\ [a.folded EXCEPT ![f] = results] \in Barriers
      /\ Append(a.next, Plain(f)) \in Seq(Active)
  <2>1. Plain(f) \in Active
    BY <1>3 DEF Plain, Active, NoBranch
  <2> QED
    BY <1>3, <1>5, <1>6, <2>1 DEF Barriers
<1>8. CASE Missing(results)
  <2>1. OneOutput(a, o) = [applied EXCEPT !.slots = [a.slots EXCEPT ![f] = results]]
    BY <1>2, <1>4, <1>8 DEF RecordFanInBranch, Missing
  <2>2. OneOutput(a, o) \in Accumulator
    BY <1>2, <1>7, <2>1 DEF Accumulator
  <2> QED
    BY <1>2, <1>8, <2>1, <2>2 DEF Accumulator
<1>9. CASE ~Missing(results)
  <2>1. OneOutput(a, o) = [applied EXCEPT !.slots = [a.slots EXCEPT ![f] = results],
                                          !.folded = [a.folded EXCEPT ![f] = results],
                                          !.next = Append(a.next, Plain(f)),
                                          !.items = FoldResults(applied.items, results, f)]
    BY <1>2, <1>4, <1>9 DEF RecordFanInBranch, Missing
  <2>3. FoldResults(applied.items, results, f) \in Nat
    BY <1>2 DEF FoldResults, Elements, Accumulator
  <2>2. OneOutput(a, o) \in Accumulator
    BY <1>2, <1>7, <2>1, <2>3 DEF Accumulator
  <2> QED
    BY <1>2, <1>9, <2>1, <2>2 DEF Accumulator
<1> QED
  BY <1>8, <1>9

\* A numbered branch neither fails nor panics the super-step.
LEMMA BranchFlags ==
  ASSUME NEW a, NEW o, NEW f, NEW b, Reporting(a, o, f, b)
  PROVE  /\ b.failed = a.failed /\ b.panic = a.panic
         /\ f \notin graph.writes => b.items = ApplyOutput(a.items, o)
<1> USE DEF Reporting
<1> DEFINE applied == [a EXCEPT !.items = ApplyOutput(@, o)]
<1>1. ApplyOutput(a.items, o) \in Nat
  BY DEF ApplyOutput, Elements, Accumulator
<1>2. /\ applied \in Accumulator /\ applied.items = ApplyOutput(a.items, o)
      /\ applied.panic = a.panic /\ applied.failed = a.failed
  BY <1>1 DEF Accumulator
<1> HIDE DEF applied
<1>3. (CHOOSE g \in FanInConsuming(o.active.node) : TRUE) = f
  OBVIOUS
<1>4. b = RecordFanInBranch(applied, o, f)
  BY <1>3 DEF OneOutput, applied
<1> QED
  BY <1>2, <1>4 DEF RecordFanInBranch, FoldResults, Accumulator

\* A node has one first edge.
LEMMA ConsumingOne ==
  ASSUME GraphOK, NEW n
  PROVE  FanInConsuming(n) = {} \/ \E f \in FanIns : FanInConsuming(n) = {f}
<1> DEFINE first == {i \in DOMAIN graph.edges : /\ graph.edges[i].from = n
                                                /\ \A j \in 1..i - 1 : graph.edges[j].from # n}
<1>1. DOMAIN graph.edges = 1..Len(graph.edges) /\ Len(graph.edges) \in Nat
  BY EdgeType
<1>2. \A i, j \in first : i = j
  <2>1. \A i, j \in first : i < j => i \in 1..j - 1
    BY <1>1
  <2>2. \A i, j \in first : ~(i < j)
    BY <2>1
  <2>3. \A i, j \in first : i \in Int /\ j \in Int
    BY <1>1
  <2> QED
    BY <2>2, <2>3
<1>3. FanInConsuming(n) = {graph.edges[i].to : i \in first} \cap FanIns
  BY DEF FanInConsuming, FanIns
<1> HIDE DEF first
<1> QED
  BY <1>2, <1>3

\* A branch's output, numbered or not.
Delivering(a, o, f, b) ==
  /\ GraphOK /\ a \in Accumulator /\ o \in Output
  /\ graph.kind[o.active.node] # "FanOut" /\ Reports(o)
  /\ FanInConsuming(o.active.node) = {f}
  /\ b = OneOutput(a, o)

\* A branch's output adds at most its FanIn to the next nodes.
LEMMA ReportNext ==
  ASSUME NEW a, NEW o, NEW f, NEW b, Delivering(a, o, f, b)
  PROVE  b \in Accumulator /\ (b.next = a.next \/ b.next = Append(a.next, Plain(f)))
<1> USE DEF Delivering
<1> DEFINE applied == [a EXCEPT !.items = ApplyOutput(@, o)]
<1>1. ApplyOutput(a.items, o) \in Nat
  BY DEF ApplyOutput, Elements, Accumulator
<1>2. applied \in Accumulator /\ applied.next = a.next
  BY <1>1 DEF Accumulator
<1> HIDE DEF applied
<1>3. (CHOOSE g \in FanInConsuming(o.active.node) : TRUE) = f
  OBVIOUS
<1>4. b = RecordFanInBranch(applied, o, f)
  BY <1>3 DEF OneOutput, applied
<1>5. b.next = a.next \/ b.next = Append(a.next, Plain(f))
  BY <1>2, <1>4 DEF RecordFanInBranch, Accumulator
<1>6. CASE o.active.branch # NoBranch
  <2>1. Reporting(a, o, f, b)
    BY <1>6 DEF Reporting
  <2>2. b \in Accumulator
    BY <2>1, BranchOutput
  <2> QED
    BY <1>5, <2>2
<1>7. CASE o.active.branch = NoBranch
  <2>1. b = [applied EXCEPT !.panic = TRUE]
    BY <1>4, <1>7 DEF RecordFanInBranch
  <2> QED
    BY <1>2, <1>5, <2>1 DEF Accumulator
<1> QED
  BY <1>6, <1>7

\* An output whatever it is leaves an accumulator.
LEMMA OneOutputType ==
  ASSUME GraphOK, NEW a \in Accumulator, NEW o \in Output
  PROVE  OneOutput(a, o) \in Accumulator
<1>1. CASE graph.kind[o.active.node] = "FanOut"
  BY <1>1, FanOutOutput
<1>2. CASE graph.kind[o.active.node] # "FanOut" /\ ~Reports(o)
  BY <1>2, EdgesOutput
<1>3. CASE graph.kind[o.active.node] # "FanOut" /\ Reports(o)
  <2>1. PICK f \in FanIns : FanInConsuming(o.active.node) = {f}
    BY <1>3, ConsumingOne DEF Reports
  <2> QED
    BY <1>3, <2>1, ReportNext DEF Delivering
<1> QED
  BY <1>1, <1>2, <1>3

\* What the outputs are folded from.
Start(x, os) ==
  [items |-> x.items, slots |-> x.slots, folded |-> x.folded,
   next |-> IF os = <<>> THEN x.nodes ELSE <<>>, failed |-> FALSE, panic |-> FALSE]

\* a holds what the first k outputs make, for every k up to m.
Accumulates(a, x, os, m) ==
  /\ a[0] = Start(x, os)
  /\ \A k \in 1..m : a[k] = OneOutput(a[k - 1], os[k])

\* The fold over the outputs is a function on their prefixes.
LEMMA AccumulatorExists ==
  ASSUME GraphOK, NEW x \in Execution, NEW os \in Seq(Output)
  PROVE  \E a \in [0..Len(os) -> Accumulator] : Accumulates(a, x, os, Len(os))
<1> DEFINE P == {m \in 0..Len(os) :
                   \E a \in [0..m -> Accumulator] : Accumulates(a, x, os, m)}
<1>1. 0 \in P
  <2> DEFINE a == [k \in 0..0 |-> Start(x, os)]
  <2>1. Start(x, os) \in Accumulator
    BY DEF Start, Execution, Accumulator
  <2>2. a \in [0..0 -> Accumulator] /\ Accumulates(a, x, os, 0)
    BY <2>1 DEF Accumulates
  <2> QED
    BY <2>2
<1>2. ASSUME NEW m \in 1..Len(os), m - 1 \in P
      PROVE  m \in P
  <2>1. PICK a \in [0..(m - 1) -> Accumulator] : Accumulates(a, x, os, m - 1)
    BY <1>2
  <2>2. PICK last \in Accumulator : last = OneOutput(a[m - 1], os[m])
    <3>1. os[m] \in Output /\ a[m - 1] \in Accumulator
      BY ElementOfSeq
    <3> QED
      BY <3>1, OneOutputType
  <2> DEFINE b == [k \in 0..m |-> IF k = m THEN last ELSE a[k]]
  <2>3. b \in [0..m -> Accumulator]
    <3>1. \A k \in 0..m : k # m => k \in 0..(m - 1)
      OBVIOUS
    <3> QED
      BY <3>1
  <2>4. b[0] = a[0] /\ \A k \in 1..(m - 1) : b[k] = a[k] /\ b[k - 1] = a[k - 1]
    OBVIOUS
  <2>5. b[m] = last /\ b[m - 1] = a[m - 1]
    OBVIOUS
  <2> HIDE DEF b
  <2>6. \A k \in 1..m : k = m \/ k \in 1..(m - 1)
    OBVIOUS
  <2>7. Accumulates(b, x, os, m)
    BY <2>1, <2>2, <2>4, <2>5, <2>6 DEF Accumulates
  <2> QED
    BY <2>3, <2>7
<1>3. Len(os) \in Nat /\ Len(os) \in 0..Len(os)
  OBVIOUS
<1> HIDE DEF P
<1>4. Len(os) \in P
  BY <1>1, <1>2, <1>3, PrefixInduction
<1> QED
  BY <1>4 DEF P

\* Accumulated is the last of them.
LEMMA AccumulatedUnfolds ==
  ASSUME GraphOK, NEW x \in Execution, NEW os \in Seq(Output)
  PROVE  \E a \in [0..Len(os) -> Accumulator] :
           Accumulates(a, x, os, Len(os)) /\ Accumulated(x, os) = a[Len(os)]
<1> DEFINE Body(a) == [k \in 0..Len(os) |->
                         IF k = 0 THEN Start(x, os) ELSE OneOutput(a[k - 1], os[k])]
           after == CHOOSE a : a = Body(a)
<1>1. PICK a \in [0..Len(os) -> Accumulator] : Accumulates(a, x, os, Len(os))
  BY AccumulatorExists
<1>2. a = Body(a)
  BY <1>1 DEF Accumulates
<1>3. after = Body(after)
  <2> HIDE DEF Body
  <2> QED
    BY <1>2
<1>4. Accumulated(x, os) = after[Len(os)]
  BY DEF Accumulated, Start
<1> HIDE DEF after
<1>5. Len(os) \in Nat
  OBVIOUS
<1>6. after[0] = Start(x, os) /\ \A k \in 1..Len(os) : after[k] = OneOutput(after[k - 1], os[k])
  BY <1>3, <1>5
<1> DEFINE P == {k \in 0..Len(os) : after[k] \in Accumulator}
<1>7. 0 \in P
  <2>1. Start(x, os) \in Accumulator
    BY DEF Start, Execution, Accumulator
  <2> QED
    BY <1>5, <1>6, <2>1
<1>8. ASSUME NEW k \in 1..Len(os), k - 1 \in P
      PROVE  k \in P
  <2>1. os[k] \in Output
    BY ElementOfSeq
  <2> QED
    BY <1>6, <1>8, <2>1, OneOutputType
<1>9. \A k \in 0..Len(os) : k \in P
  <2> HIDE DEF P
  <2> QED
    BY <1>5, <1>7, <1>8, PrefixInduction
<1>10. after \in [0..Len(os) -> Accumulator]
  <2>1. DOMAIN after = 0..Len(os) /\ after = [k \in DOMAIN after |-> after[k]]
    BY <1>3
  <2> HIDE DEF Body
  <2> QED
    BY <1>9, <2>1
<1> QED
  BY <1>4, <1>6, <1>10 DEF Accumulates

-----------------------------------------------------------------------------
(* The shape of the graph *)

\* A target leads to one FanIn, which takes what it returns.
LEMMA TargetFacts ==
  ASSUME GraphOK, Branched(graph), NEW t \in Targets(graph)
  PROVE  t \in NodesOf(graph) /\ \E f \in FanIns : FanInConsuming(t) = {f}
<1>1. PICK n \in OfKind(graph, "FanOut") : t = graph.target[n]
  BY DEF Targets
<1>2. t \in NodesOf(graph)
  BY <1>1 DEF GraphOK, WellFormed
<1>3. PICK i \in DOMAIN graph.edges :
        {i} = {j \in DOMAIN graph.edges : /\ graph.edges[j].from = t
                                          /\ graph.kind[graph.edges[j].to] = "FanIn"}
  BY <1>1 DEF GraphOK, Valid
<1>4. graph.edges[i].from = t /\ graph.kind[graph.edges[i].to] = "FanIn"
  BY <1>3
<1>5. \A j \in DOMAIN graph.edges : graph.edges[j].from = t => graph.kind[graph.edges[j].to] = "FanIn"
  BY DEF Branched, EdgesOf, Range
<1>6. \A j \in DOMAIN graph.edges : graph.edges[j].from = t => j = i
  BY <1>3, <1>5
<1>7. DOMAIN graph.edges = 1..Len(graph.edges) /\ Len(graph.edges) \in Nat
  BY EdgeType
<1>8. \A j \in 1..i - 1 : graph.edges[j].from # t
  BY <1>6, <1>7
<1>9. graph.edges[i].to \in FanIns
  BY <1>4, EdgeType DEF FanIns, OfKind
<1>10. graph.edges[i].to \in FanInConsuming(t)
  BY <1>4, <1>8, <1>9 DEF FanInConsuming, FanIns
<1> QED
  BY <1>2, <1>10, ConsumingOne

\* What leads to a FanIn is a target.
LEMMA ConsumerFacts ==
  ASSUME GraphOK, Branched(graph), NEW n, NEW f \in FanInConsuming(n)
  PROVE  n \in Targets(graph) /\ \E edge \in EdgesOf(graph) : edge.from = n /\ edge.to = f
<1>1. PICK i \in DOMAIN graph.edges : graph.edges[i].from = n /\ graph.edges[i].to = f
  BY DEF FanInConsuming
<1>2. graph.kind[f] = "FanIn"
  BY ConsumingType DEF FanIns, OfKind
<1>3. graph.edges[i] \in EdgesOf(graph)
  BY DEF EdgesOf, Range
<1> QED
  BY <1>1, <1>2, <1>3 DEF Branched

\* A FanIn is one target's.
LEMMA OneFeeder ==
  ASSUME GraphOK, FanShaped(graph), NEW f, NEW m, NEW n,
         f \in FanInConsuming(m), f \in FanInConsuming(n)
  PROVE  m = n
<1>1. Branched(graph)
  BY DEF FanShaped
<1>2. PICK d \in EdgesOf(graph) : d.from = m /\ d.to = f
  BY <1>1, ConsumerFacts
<1>3. PICK e \in EdgesOf(graph) : e.from = n /\ e.to = f
  BY <1>1, ConsumerFacts
<1>4. graph.kind[f] = "FanIn"
  BY ConsumingType DEF FanIns, OfKind
<1> QED
  BY <1>2, <1>3, <1>4 DEF FanShaped

\* Nothing a node of a trunk is led to by is outside it.
LEMMA TrunkFacts ==
  ASSUME GraphOK, FanShaped(graph), NEW trunk, Trunk(graph, trunk)
  PROVE  /\ \A n \in OfKind(graph, "FanOut") : graph.target[n] \in trunk => n \in trunk
         /\ \A edge \in EdgesOf(graph) : edge.to \in trunk => edge.from \in trunk
         /\ \A n : \A f \in FanInConsuming(n) : f \in trunk => n \in trunk
<1>1. Branched(graph)
  BY DEF FanShaped
<1> QED
  BY <1>1, ConsumerFacts DEF Trunk

\* A target is on a trunk.
LEMMA TrunkExists ==
  ASSUME FanShaped(graph), NEW t \in Targets(graph)
  PROVE  \E trunk : Trunk(graph, trunk) /\ t \in trunk
BY DEF FanShaped, Targets

\* A target is neither a FanOut nor a FanIn.
LEMMA TargetKind ==
  ASSUME FanShaped(graph), NEW t \in Targets(graph)
  PROVE  graph.kind[t] # "FanOut" /\ graph.kind[t] # "FanIn"
BY DEF FanShaped, Targets

-----------------------------------------------------------------------------
(* The outputs of a super-step *)

\* At most one of the active nodes is on the trunk, unless they are the branches of one target.
OneToken(trunk, nodes) ==
  \A i, j \in DOMAIN nodes :
    i # j /\ nodes[i].node \in trunk /\ nodes[j].node \in trunk =>
      /\ nodes[i].node = nodes[j].node
      /\ nodes[i].node \in Targets(graph)
      /\ nodes[i].branch # nodes[j].branch

\* None of them is.
Quiet(trunk, nodes) == \A i \in DOMAIN nodes : nodes[i].node \notin trunk

\* No FanIn is active, and the branches that are have a place at their barrier, which has no result.
BarriersOpen(nodes, slots) ==
  \A i \in DOMAIN nodes :
    /\ nodes[i].node \notin FanIns
    /\ nodes[i].node \in Targets(graph) =>
         /\ nodes[i].branch # NoBranch
         /\ \A f \in FanInConsuming(nodes[i].node) :
              /\ nodes[i].branch < Len(slots[f])
              /\ \A k \in 1..Len(slots[f]) : slots[f][k] = Null

\* The nodes the outputs are of.
Ran(os) == [j \in DOMAIN os |-> os[j].active]

\* Outputs as run_active_nodes collects them, in any order.
Collected(x, os) ==
  /\ os \in Seq(Output)
  /\ os = <<>> => x.nodes = <<>>
  /\ \A j \in DOMAIN os : graph.kind[os[j].active.node] # "Task" => os[j].result = Null
  /\ BarriersOpen(Ran(os), x.slots)
  /\ \A trunk : Trunk(graph, trunk) => OneToken(trunk, Ran(os))

Opens(o, f) ==
  graph.kind[o.active.node] = "FanOut" /\ f \in FanInConsuming(graph.target[o.active.node])

Tells(o, f) == Reports(o) /\ f \in FanInConsuming(o.active.node)

\* In a fan-shaped graph what reports to a FanIn is a FanOut's target, and of that FanIn alone.
LEMMA TellerFacts ==
  ASSUME GraphOK, FanShaped(graph), NEW o, NEW f, Tells(o, f)
  PROVE  /\ o.active.node \in Targets(graph) /\ FanInConsuming(o.active.node) = {f} /\ f \in FanIns
         /\ graph.kind[o.active.node] # "FanOut"
<1>1. Branched(graph)
  BY DEF FanShaped
<1>2. o.active.node \in Targets(graph)
  BY <1>1, ConsumerFacts DEF Tells
<1>3. FanInConsuming(o.active.node) = {f} /\ f \in FanIns
  BY ConsumingOne, ConsumingType DEF Tells
<1> QED
  BY <1>2, <1>3 DEF Tells, Reports

\* A FanOut opens one barrier, and is no branch itself.
LEMMA OpenerFacts ==
  ASSUME GraphOK, FanShaped(graph), NEW o \in Output, graph.kind[o.active.node] = "FanOut"
  PROVE  /\ o.active.node \in OfKind(graph, "FanOut")
         /\ graph.target[o.active.node] \in Targets(graph)
         /\ o.active.node \notin Targets(graph)
         /\ \E f \in FanIns : FanInConsuming(graph.target[o.active.node]) = {f}
<1>1. Branched(graph)
  BY DEF FanShaped
<1>2. o.active.node \in OfKind(graph, "FanOut")
  BY DEF Output, Active, OfKind
<1>3. graph.target[o.active.node] \in Targets(graph)
  BY <1>2 DEF Targets
<1> QED
  BY <1>1, <1>2, <1>3, TargetFacts, TargetKind

\* A barrier is opened once, by no super-step in which a branch reports to it, and each branch
\* reports once.
LEMMA Apart ==
  ASSUME GraphOK, FanShaped(graph), NEW x, NEW os, Collected(x, os),
         NEW i \in DOMAIN os, NEW j \in DOMAIN os, NEW f
  PROVE  /\ ~(Tells(os[i], f) /\ Opens(os[j], f))
         /\ Tells(os[i], f) /\ Tells(os[j], f) /\ i # j => os[i].active.branch # os[j].active.branch
         /\ Opens(os[i], f) /\ Opens(os[j], f) => i = j
<1>0. /\ os \in Seq(Output) /\ os[i] \in Output /\ os[j] \in Output
      /\ i \in DOMAIN Ran(os) /\ j \in DOMAIN Ran(os)
      /\ Ran(os)[i] = os[i].active /\ Ran(os)[j] = os[j].active
  BY ElementOfSeq DEF Collected, Ran
<1>1. ASSUME NEW t \in Targets(graph)
      PROVE  \E trunk : /\ t \in trunk /\ Trunk(graph, trunk) /\ OneToken(trunk, Ran(os))
                        /\ \A n \in OfKind(graph, "FanOut") : graph.target[n] = t => n \in trunk
  <2>1. PICK trunk : Trunk(graph, trunk) /\ t \in trunk
    BY TrunkExists
  <2> QED
    BY <2>1, TrunkFacts DEF Collected
<1>2. ASSUME Tells(os[i], f), Opens(os[j], f) PROVE FALSE
  <2>1. os[i].active.node \in Targets(graph) /\ graph.kind[os[i].active.node] # "FanOut"
    BY <1>2, TellerFacts
  <2>2. graph.target[os[j].active.node] = os[i].active.node /\ os[j].active.node \in OfKind(graph, "FanOut")
    BY <1>0, <1>2, OneFeeder, OpenerFacts DEF Tells, Opens
  <2>3. PICK trunk : /\ os[i].active.node \in trunk /\ OneToken(trunk, Ran(os))
                     /\ os[j].active.node \in trunk
    BY <1>1, <2>1, <2>2
  <2>4. i # j
    BY <1>2, <2>1 DEF Opens
  <2>5. os[i].active.node = os[j].active.node
    BY <1>0, <2>3, <2>4 DEF OneToken
  <2> QED
    BY <1>2, <2>1, <2>5 DEF Opens
<1>3. ASSUME Tells(os[i], f), Tells(os[j], f), i # j PROVE os[i].active.branch # os[j].active.branch
  <2>1. os[i].active.node \in Targets(graph) /\ os[j].active.node = os[i].active.node
    BY <1>3, TellerFacts, OneFeeder DEF Tells
  <2>2. PICK trunk : os[i].active.node \in trunk /\ OneToken(trunk, Ran(os))
    BY <1>1, <2>1
  <2> QED
    BY <1>0, <1>3, <2>1, <2>2 DEF OneToken
<1>4. ASSUME Opens(os[i], f), Opens(os[j], f), i # j PROVE FALSE
  <2>1. /\ os[i].active.node \in OfKind(graph, "FanOut") /\ os[i].active.node \notin Targets(graph)
        /\ os[j].active.node \in OfKind(graph, "FanOut")
        /\ graph.target[os[i].active.node] \in Targets(graph)
    BY <1>0, <1>4, OpenerFacts DEF Opens
  <2>2. graph.target[os[i].active.node] = graph.target[os[j].active.node]
    BY <1>4, OneFeeder DEF Opens
  <2>3. PICK trunk : /\ OneToken(trunk, Ran(os))
                     /\ os[i].active.node \in trunk /\ os[j].active.node \in trunk
    BY <1>1, <2>1, <2>2
  <2> QED
    BY <1>0, <1>4, <2>1, <2>3 DEF OneToken
<1> QED
  BY <1>2, <1>3, <1>4

-----------------------------------------------------------------------------
(* What the first k outputs make, in terms that do not depend on their order *)

\* The results at f's barrier.
BarrierIs(x, os, k, slots, f) ==
  IF \E j \in 1..k : Opens(os[j], f)
  THEN /\ \A i \in 1..Len(slots[f]) : slots[f][i] = Null
       /\ NothingWritten(os) => Len(slots[f]) = x.items
  ELSE /\ Len(slots[f]) = Len(x.slots[f])
       /\ \A j \in 1..k : Tells(os[j], f) => slots[f][os[j].active.branch + 1] = os[j].result
       /\ \A i \in 1..Len(slots[f]) :
            (\A j \in 1..k : Tells(os[j], f) => os[j].active.branch + 1 # i) =>
              slots[f][i] = x.slots[f][i]

\* Branches of f have reported, and none is missing.
Joined(os, k, slots, f) ==
  /\ \E j \in 1..k : Tells(os[j], f)
  /\ \A i \in 1..Len(slots[f]) : slots[f][i] # Null

FoldIs(x, os, k, slots, folded, f) ==
  folded[f] = IF Joined(os, k, slots, f) THEN slots[f] ELSE x.folded[f]

\* What an output starts, other than a FanIn.
Sends(o, slots, holds, active) ==
  \/ /\ graph.kind[o.active.node] = "FanOut"
     /\ active.node = graph.target[o.active.node]
     /\ active.branch # NoBranch
     /\ \E f \in FanInConsuming(active.node) : active.branch < Len(slots[f])
  \/ /\ graph.kind[o.active.node] # "FanOut" /\ ~Reports(o) /\ o.result # Error
     /\ \E edge \in EdgesOf(graph) \cap holds :
          edge.from = o.active.node /\ active = Plain(edge.to)

\* holds[j]: the edges that hold once the first j outputs are in.
NextIs(os, k, slots, next, holds) ==
  \A active \in Active :
    active \in Range(next) <=>
      \/ \E j \in 1..k : Sends(os[j], slots, holds[j], active)
      \/ \E f \in FanIns : active = Plain(f) /\ Joined(os, k, slots, f)

PrefixIs(x, os, holds, k, a) ==
  /\ \A f \in FanIns : BarrierIs(x, os, k, a.slots, f) /\ FoldIs(x, os, k, a.slots, a.folded, f)
  /\ NextIs(os, k, a.slots, a.next, holds)
  /\ \A trunk : Trunk(graph, trunk) => OneToken(trunk, a.next)
  /\ a.failed <=> \E j \in 1..k : os[j].result = Error
  /\ ~a.panic
  /\ NothingWritten(os) => a.items = x.items

\* The first k are the first k - 1 and the kth.
LEMMA LastOfPrefix ==
  ASSUME NEW k \in Nat \ {0}
  PROVE  \A j : j \in 1..k <=> j \in 1..k - 1 \/ j = k
OBVIOUS

\* An output that has nothing to do with f leaves its barrier as it is.
LEMMA BarrierFrame ==
  ASSUME NEW x, NEW os, NEW k \in Nat \ {0}, NEW f, NEW slots, NEW slots2, NEW folded, NEW folded2,
         BarrierIs(x, os, k - 1, slots, f), FoldIs(x, os, k - 1, slots, folded, f),
         ~Opens(os[k], f), ~Tells(os[k], f), slots2[f] = slots[f], folded2[f] = folded[f]
  PROVE  /\ BarrierIs(x, os, k, slots2, f) /\ FoldIs(x, os, k, slots2, folded2, f)
         /\ Joined(os, k, slots2, f) <=> Joined(os, k - 1, slots, f)
<1>1. (\E j \in 1..k : Opens(os[j], f)) <=> \E j \in 1..k - 1 : Opens(os[j], f)
  BY LastOfPrefix
<1>2. \A j : j \in 1..k /\ Tells(os[j], f) <=> j \in 1..k - 1 /\ Tells(os[j], f)
  BY LastOfPrefix
<1>3. Joined(os, k, slots2, f) <=> Joined(os, k - 1, slots, f)
  BY <1>2 DEF Joined
<1>4. FoldIs(x, os, k, slots2, folded2, f)
  BY <1>3 DEF FoldIs
<1>5. BarrierIs(x, os, k, slots2, f)
  BY <1>1, <1>2 DEF BarrierIs
<1> QED
  BY <1>3, <1>4, <1>5

\* The k-th output of a super-step takes the accumulator from a to b, and its edges are taken
\* on the state as b has it.
Folding(x, os, holds, k, a, b) ==
  /\ GraphOK /\ FanShaped(graph)
  /\ x \in Execution /\ Collected(x, os) /\ k \in 1..Len(os)
  /\ a \in Accumulator /\ PrefixIs(x, os, holds, k - 1, a)
  /\ b = OneOutput(a, os[k]) /\ holds[k] = Holding(b.items)

\* The effect of each output on the barriers and on what was folded.
LEMMA BarrierStep ==
  ASSUME NEW x, NEW os, NEW holds, NEW k, NEW a, NEW b, Folding(x, os, holds, k, a, b),
         NEW f \in FanIns
  PROVE  /\ BarrierIs(x, os, k, b.slots, f) /\ FoldIs(x, os, k, b.slots, b.folded, f)
         /\ Opens(os[k], f) \/ Tells(os[k], f) => ~Joined(os, k - 1, a.slots, f)
         /\ ~Opens(os[k], f) /\ ~Tells(os[k], f) =>
              /\ b.slots[f] = a.slots[f]
              /\ Joined(os, k, b.slots, f) <=> Joined(os, k - 1, a.slots, f)
         /\ Opens(os[k], f) => ~Joined(os, k, b.slots, f)
         /\ Tells(os[k], f) =>
              b.next = IF Joined(os, k, b.slots, f) THEN Append(a.next, Plain(f)) ELSE a.next
<1> USE DEF Folding
<1>0. /\ os \in Seq(Output) /\ os[k] \in Output /\ k \in Nat \ {0} /\ k \in DOMAIN os
      /\ \A j \in 1..k - 1 : j \in DOMAIN os /\ j # k
  BY ElementOfSeq DEF Collected
<1>1. BarrierIs(x, os, k - 1, a.slots, f) /\ FoldIs(x, os, k - 1, a.slots, a.folded, f)
  BY DEF PrefixIs
<1>2. a.slots \in Barriers /\ a.folded \in Barriers /\ a.items \in Nat
  BY DEF Accumulator
<1>3. CASE graph.kind[os[k].active.node] = "FanOut"
  <2> DEFINE target == graph.target[os[k].active.node]
  <2>1. /\ b.slots = OpenFanInBarrier(a.slots, target, a.items)
        /\ b.folded = a.folded
    BY <1>0, <1>3, FanOutOutput
  <2>2. ~Tells(os[k], f)
    BY <1>3, TellerFacts
  <2>3. CASE Opens(os[k], f)
    <3>1. b.slots[f] = [i \in 1..a.items |-> Null]
      BY <1>2, <2>1, <2>3 DEF OpenFanInBarrier, Opens, Barriers
    <3>2. Len(b.slots[f]) = a.items
      BY <1>2, <3>1
    <3>3. \A j \in 1..k : ~Tells(os[j], f)
      BY <1>0, <2>3, Apart
    <3>4. ~Joined(os, k, b.slots, f) /\ ~Joined(os, k - 1, a.slots, f)
      BY <3>3, LastOfPrefix DEF Joined
    <3>5. BarrierIs(x, os, k, b.slots, f)
      <4>1. \A i \in 1..Len(b.slots[f]) : b.slots[f][i] = Null
        BY <3>1, <3>2
      <4>2. NothingWritten(os) => Len(b.slots[f]) = x.items
        BY <3>2 DEF PrefixIs
      <4>3. \E j \in 1..k : Opens(os[j], f)
        BY <1>0, <2>3
      <4> QED
        BY <4>1, <4>2, <4>3 DEF BarrierIs
    <3>6. FoldIs(x, os, k, b.slots, b.folded, f)
      BY <1>1, <2>1, <3>4 DEF FoldIs
    <3> QED
      BY <2>2, <2>3, <3>4, <3>5, <3>6
  <2>4. CASE ~Opens(os[k], f)
    <3>1. b.slots[f] = a.slots[f]
      BY <1>2, <1>3, <2>1, <2>4 DEF OpenFanInBarrier, Opens, Barriers
    <3> QED
      BY <1>0, <1>1, <2>1, <2>2, <2>4, <3>1, BarrierFrame
  <2> QED
    BY <2>3, <2>4
<1>4. CASE graph.kind[os[k].active.node] # "FanOut" /\ ~Reports(os[k])
  <2>1. b.slots = a.slots /\ b.folded = a.folded
    BY <1>0, <1>4, EdgesOutput
  <2>2. ~Opens(os[k], f) /\ ~Tells(os[k], f)
    BY <1>4 DEF Opens, Tells
  <2> QED
    BY <1>0, <1>1, <2>1, <2>2, BarrierFrame
<1>5. CASE graph.kind[os[k].active.node] # "FanOut" /\ Reports(os[k])
  <2>1. PICK g \in FanIns : Tells(os[k], g)
    BY <1>5, ConsumingType DEF Reports, Tells
  <2>2. os[k].active.node \in Targets(graph) /\ FanInConsuming(os[k].active.node) = {g}
    BY <2>1, TellerFacts
  <2>3. /\ os[k].active.branch # NoBranch /\ os[k].active.branch \in Nat
        /\ os[k].active.branch < Len(x.slots[g])
        /\ \A i \in 1..Len(x.slots[g]) : x.slots[g][i] = Null
    <3>1. k \in DOMAIN Ran(os) /\ Ran(os)[k] = os[k].active
      BY <1>0 DEF Ran
    <3>2. os[k].active.branch \in Nat \cup {NoBranch}
      BY <1>0 DEF Output, Active
    <3> QED
      BY <2>2, <3>1, <3>2 DEF Collected, BarriersOpen
  <2>0. PICK results : results = Reported(a.slots[g], os[k].active.branch, os[k].result)
    OBVIOUS
  <2>4. /\ b.slots = [a.slots EXCEPT ![g] = results]
        /\ Missing(results) => b.folded = a.folded /\ b.next = a.next
        /\ ~Missing(results) => /\ b.folded = [a.folded EXCEPT ![g] = results]
                               /\ b.next = Append(a.next, Plain(g))
    <3>1. Reporting(a, os[k], g, b)
      BY <1>0, <1>5, <2>2, <2>3 DEF Reporting
    <3> QED
      BY <2>0, <3>1, BranchOutput
  <2>5. ~Opens(os[k], f)
    BY <1>5 DEF Opens
  <2>6. CASE f # g
    <3>1. ~Tells(os[k], f)
      BY <2>2, <2>6 DEF Tells
    <3>2. b.slots[f] = a.slots[f] /\ b.folded[f] = a.folded[f]
      BY <1>2, <2>4, <2>6 DEF Barriers
    <3> QED
      BY <1>0, <1>1, <2>5, <3>1, <3>2, BarrierFrame
  <2>7. CASE f = g
    <3>1. \A j \in 1..k : ~Opens(os[j], f)
      BY <1>0, <2>1, <2>7, Apart
    <3>2. /\ Len(a.slots[f]) = Len(x.slots[f])
          /\ \A j \in 1..k - 1 : Tells(os[j], f) => a.slots[f][os[j].active.branch + 1] = os[j].result
          /\ \A i \in 1..Len(a.slots[f]) :
               (\A j \in 1..k - 1 : Tells(os[j], f) => os[j].active.branch + 1 # i) =>
                 a.slots[f][i] = x.slots[f][i]
      BY <1>0, <1>1, <3>1, LastOfPrefix DEF BarrierIs
    <3>3. \A j \in 1..k - 1 : Tells(os[j], f) => os[j].active.branch # os[k].active.branch
      BY <1>0, <2>1, <2>7, Apart
    <3>4. \A j \in 1..k : os[j] \in Output /\ os[j].active.branch \in Int
      <4>1. \A j \in 1..k : os[j] \in Output
        BY <1>0, ElementOfSeq
      <4> QED
        BY <4>1 DEF Output, Active, NoBranch
    <3>5. \A j \in 1..k - 1 : Tells(os[j], f) => os[j].active.branch + 1 # os[k].active.branch + 1
      BY <3>3, <3>4, <1>0, LastOfPrefix
    <3>6. os[k].active.branch + 1 \in 1..Len(a.slots[f]) /\ a.slots[f] \in Seq(Int)
      <4>1. a.slots[f] \in Seq(Int)
        BY <1>2 DEF Barriers
      <4>2. Len(a.slots[f]) \in Nat
        BY ONLY <4>1
      <4>3. os[k].active.branch \in Nat /\ os[k].active.branch < Len(a.slots[f])
        BY ONLY <2>3, <2>7, <3>2
      <4> QED
        BY ONLY <4>1, <4>2, <4>3, Place
    <3>7. a.slots[f][os[k].active.branch + 1] = Null
      BY <2>3, <2>7, <3>2, <3>5, <3>6
    <3>8. ~Joined(os, k - 1, a.slots, f)
      BY <3>6, <3>7 DEF Joined
    <3>9. a.folded[f] = x.folded[f]
      BY <1>1, <3>8 DEF FoldIs
    <3>10. os[k].result \in Int
      BY <1>0 DEF Output, Error, Null
    <3>11. /\ results \in Seq(Int) /\ Len(results) = Len(a.slots[f])
           /\ results[os[k].active.branch + 1] = os[k].result
           /\ \A i \in 1..Len(a.slots[f]) : i # os[k].active.branch + 1 => results[i] = a.slots[f][i]
      <4>1. os[k].active.branch \in Nat /\ os[k].active.branch < Len(a.slots[f])
        BY ONLY <2>3, <2>7, <3>2
      <4>2. results = Reported(a.slots[f], os[k].active.branch, os[k].result)
        BY ONLY <2>0, <2>7
      <4>3. PICK s : s = a.slots[f]
        OBVIOUS
      <4>4. PICK branch : branch = os[k].active.branch
        OBVIOUS
      <4>5. PICK result : result = os[k].result
        OBVIOUS
      <4>6. s \in Seq(Int) /\ branch \in Nat /\ branch < Len(s) /\ result \in Int
        BY ONLY <3>6, <3>10, <4>1, <4>3, <4>4, <4>5
      <4>7. results = Reported(s, branch, result)
        BY ONLY <4>2, <4>3, <4>4, <4>5
      <4>8. /\ results \in Seq(Int) /\ Len(results) = Len(s) /\ results[branch + 1] = result
            /\ \A i \in 1..Len(s) : i # branch + 1 => results[i] = s[i]
        BY ONLY <4>6, <4>7, ReportedInPlace
      <4> QED
        BY ONLY <4>3, <4>4, <4>5, <4>8
    <3>12. b.slots[f] = results /\ DOMAIN results = 1..Len(results)
      BY <1>2, <2>4, <2>7, <3>11 DEF Barriers
    <3>13. Missing(results) <=> ~Joined(os, k, b.slots, f)
      BY <1>0, <2>1, <2>7, <3>12 DEF Joined, Missing
    <3>14. FoldIs(x, os, k, b.slots, b.folded, f)
      <4>1. CASE Missing(results)
        BY <2>4, <3>9, <3>13, <4>1 DEF FoldIs
      <4>2. CASE ~Missing(results)
        <5>1. b.folded[f] = results
          BY <1>2, <2>4, <2>7, <4>2 DEF Barriers
        <5> QED
          BY <3>12, <3>13, <4>2, <5>1 DEF FoldIs
      <4> QED
        BY <4>1, <4>2
    <3>15. \A j \in 1..k : Tells(os[j], f) => results[os[j].active.branch + 1] = os[j].result
      <4>1. ASSUME NEW j \in 1..k - 1, Tells(os[j], f)
            PROVE  results[os[j].active.branch + 1] = os[j].result
        <5>1. os[j].active.branch + 1 \in 1..Len(a.slots[f])
          <6>1. os[j].active.node \in Targets(graph) /\ FanInConsuming(os[j].active.node) = {f}
            BY <4>1, TellerFacts
          <6>2. j \in DOMAIN Ran(os) /\ Ran(os)[j] = os[j].active
            BY <1>0 DEF Ran
          <6>3. os[j].active.branch # NoBranch /\ os[j].active.branch < Len(x.slots[f])
            BY <6>1, <6>2 DEF Collected, BarriersOpen
          <6>4. os[j].active.branch \in Nat
            <7>1. os[j] \in Output
              BY <1>0, ElementOfSeq
            <7> QED
              BY <6>3, <7>1 DEF Output, Active
          <6> QED
            <7>1. Len(a.slots[f]) \in Nat
              BY ONLY <3>6
            <7>2. os[j].active.branch < Len(a.slots[f])
              BY ONLY <3>2, <6>3
            <7> QED
              BY ONLY <6>4, <7>1, <7>2, Place
        <5>2. os[j].active.branch + 1 # os[k].active.branch + 1
          BY <3>5, <4>1
        <5>3. results[os[j].active.branch + 1] = a.slots[f][os[j].active.branch + 1]
          BY <3>11, <5>1, <5>2
        <5> QED
          BY <3>2, <4>1, <5>3
      <4> QED
        BY <1>0, <3>11, <4>1, LastOfPrefix
    <3>16. \A i \in 1..Len(results) :
             (\A j \in 1..k : Tells(os[j], f) => os[j].active.branch + 1 # i) =>
               results[i] = x.slots[f][i]
      <4>1. ASSUME NEW i \in 1..Len(results),
                   \A j \in 1..k : Tells(os[j], f) => os[j].active.branch + 1 # i
            PROVE  results[i] = x.slots[f][i]
        <5>1. i # os[k].active.branch + 1
          BY <2>1, <2>7, <4>1, <1>0
        <5>2. \A j \in 1..k - 1 : Tells(os[j], f) => os[j].active.branch + 1 # i
          BY <1>0, <4>1, LastOfPrefix
        <5>3. i \in 1..Len(a.slots[f])
          BY <3>11
        <5>4. results[i] = a.slots[f][i]
          BY <3>11, <5>1, <5>3
        <5> QED
          BY <3>2, <5>2, <5>3, <5>4
      <4> QED
        BY <4>1
    <3>17. BarrierIs(x, os, k, b.slots, f)
      BY <3>1, <3>2, <3>11, <3>12, <3>15, <3>16 DEF BarrierIs
    <3>18. b.next = IF Joined(os, k, b.slots, f) THEN Append(a.next, Plain(f)) ELSE a.next
      BY <2>4, <2>7, <3>13
    <3> QED
      BY <2>1, <2>5, <2>7, <3>8, <3>14, <3>17, <3>18
  <2> QED
    BY <2>6, <2>7
<1> QED
  BY <1>3, <1>4, <1>5

-----------------------------------------------------------------------------
(* The next active nodes *)

\* A branch that did not fail reports.
LEMMA TargetReports ==
  ASSUME GraphOK, FanShaped(graph), NEW o, o.active.node \in Targets(graph), o.result # Error
  PROVE  Reports(o)
<1>1. Branched(graph)
  BY DEF FanShaped
<1> QED
  BY <1>1, TargetFacts, TargetKind DEF Reports

\* The edges of a node that hold, as a set.
LEMMA SuccessorsRange ==
  ASSUME GraphOK, NEW n, NEW holds, NEW active
  PROVE  active \in Range(Successors(n, holds)) <=>
           \E edge \in EdgesOf(graph) \cap holds : edge.from = n /\ active = Plain(edge.to)
<1>1. PICK t \in Seq(Active) : t = Successors(n, holds)
  BY SuccessorsType
<1>2. PICK e : /\ e \in [1..Len(t) -> DOMAIN graph.edges]
               /\ \A i \in 1..Len(t) : /\ t[i] = Plain(graph.edges[e[i]].to)
                                       /\ graph.edges[e[i]].from = n
                                       /\ graph.edges[e[i]] \in holds
               /\ \A k \in DOMAIN graph.edges :
                    graph.edges[k] \in holds /\ graph.edges[k].from = n =>
                      \E i \in 1..Len(t) : e[i] = k
  BY <1>1, SuccessorsType
<1>3. DOMAIN t = 1..Len(t)
  OBVIOUS
<1>4. ASSUME active \in Range(t)
      PROVE  \E edge \in EdgesOf(graph) \cap holds : edge.from = n /\ active = Plain(edge.to)
  <2>1. PICK i \in 1..Len(t) : active = t[i]
    BY <1>3, <1>4 DEF Range
  <2>2. graph.edges[e[i]] \in EdgesOf(graph)
    BY <1>2 DEF EdgesOf, Range
  <2> QED
    BY <1>2, <2>1, <2>2
<1>5. ASSUME NEW edge \in EdgesOf(graph) \cap holds, edge.from = n, active = Plain(edge.to)
      PROVE  active \in Range(t)
  <2>1. PICK k \in DOMAIN graph.edges : edge = graph.edges[k]
    BY DEF EdgesOf, Range
  <2>2. PICK i \in 1..Len(t) : e[i] = k
    BY <1>2, <1>5, <2>1
  <2> QED
    BY <1>2, <1>3, <1>5, <2>1, <2>2 DEF Range
<1> QED
  BY <1>1, <1>4, <1>5

\* What two lists hold, one after the other.
LEMMA RangeConcat ==
  ASSUME NEW S, NEW s \in Seq(S), NEW t \in Seq(S)
  PROVE  /\ s \o t \in Seq(S)
         /\ \A v : v \in Range(s \o t) <=> v \in Range(s) \/ v \in Range(t)
         /\ \A i \in DOMAIN (s \o t) :
              \/ i \in DOMAIN s /\ (s \o t)[i] = s[i]
              \/ i - Len(s) \in DOMAIN t /\ (s \o t)[i] = t[i - Len(s)] /\ i \notin DOMAIN s
<1>1. s \o t \in Seq(S) /\ Len(s \o t) = Len(s) + Len(t)
  OBVIOUS
<1>2. \A i \in 1..Len(s) : i \in 1..Len(s \o t) /\ (s \o t)[i] = s[i]
  BY <1>1
<1>3. \A i \in 1..Len(t) : i + Len(s) \in 1..Len(s \o t) /\ (s \o t)[i + Len(s)] = t[i]
  BY <1>1
<1>4. \A i \in 1..Len(s \o t) :
         \/ i \in 1..Len(s) /\ (s \o t)[i] = s[i]
         \/ i - Len(s) \in 1..Len(t) /\ (s \o t)[i] = t[i - Len(s)] /\ i \notin 1..Len(s)
  BY <1>1
<1>5. DOMAIN s = 1..Len(s) /\ DOMAIN t = 1..Len(t) /\ DOMAIN (s \o t) = 1..Len(s \o t)
  BY <1>1
<1>6. ASSUME NEW v PROVE v \in Range(s \o t) <=> v \in Range(s) \/ v \in Range(t)
  <2>1. ASSUME v \in Range(s) PROVE v \in Range(s \o t)
    BY <1>2, <1>5, <2>1 DEF Range
  <2>2. ASSUME v \in Range(t) PROVE v \in Range(s \o t)
    BY <1>3, <1>5, <2>2 DEF Range
  <2>3. ASSUME v \in Range(s \o t) PROVE v \in Range(s) \/ v \in Range(t)
    BY <1>4, <1>5, <2>3 DEF Range
  <2> QED
    BY <2>1, <2>2, <2>3
<1> QED
  BY <1>1, <1>4, <1>5, <1>6

\* What a list holds after a push.
LEMMA RangeAppend ==
  ASSUME NEW S, NEW s \in Seq(S), NEW e \in S
  PROVE  /\ Append(s, e) = s \o <<e>> /\ <<e>> \in Seq(S)
         /\ \A v : v \in Range(Append(s, e)) <=> v \in Range(s) \/ v = e
<1>1. Append(s, e) = s \o <<e>> /\ <<e>> \in Seq(S)
  OBVIOUS
<1>2. \A v : v \in Range(<<e>>) <=> v = e
  BY DEF Range
<1> QED
  BY <1>1, <1>2, RangeConcat

\* What an earlier output starts is not changed by a later one.
LEMMA SendsStays ==
  ASSUME NEW x, NEW os, NEW holds, NEW k, NEW a, NEW b, Folding(x, os, holds, k, a, b),
         NEW j \in 1..k - 1, NEW active
  PROVE  Sends(os[j], b.slots, holds[j], active) <=> Sends(os[j], a.slots, holds[j], active)
<1>0. /\ GraphOK /\ FanShaped(graph) /\ Collected(x, os)
      /\ os \in Seq(Output) /\ os[k] \in Output /\ os[j] \in Output
      /\ j \in DOMAIN os /\ k \in DOMAIN os /\ j # k
  BY ElementOfSeq DEF Collected, Folding
<1>1. CASE graph.kind[os[j].active.node] # "FanOut"
  BY <1>1 DEF Sends
<1>2. CASE graph.kind[os[j].active.node] = "FanOut" /\ active.node = graph.target[os[j].active.node]
  <2>1. ASSUME NEW f \in FanIns, f \in FanInConsuming(active.node)
        PROVE  b.slots[f] = a.slots[f]
    <3>1. Opens(os[j], f)
      BY <1>2, <2>1 DEF Opens
    <3>2. ~Opens(os[k], f) /\ ~Tells(os[k], f)
      BY <1>0, <3>1, Apart
    <3> QED
      BY <3>2, BarrierStep
  <2> QED
    BY <1>2, <2>1, ConsumingType DEF Sends
<1>3. CASE graph.kind[os[j].active.node] = "FanOut" /\ active.node # graph.target[os[j].active.node]
  BY <1>3 DEF Sends
<1> QED
  BY <1>1, <1>2, <1>3

\* The facts each step of the fold starts from.
LEMMA FoldingFacts ==
  ASSUME NEW x, NEW os, NEW holds, NEW k, NEW a, NEW b, Folding(x, os, holds, k, a, b)
  PROVE  /\ GraphOK /\ FanShaped(graph) /\ Branched(graph)
         /\ x \in Execution /\ Collected(x, os) /\ PrefixIs(x, os, holds, k - 1, a)
         /\ os \in Seq(Output) /\ os[k] \in Output /\ k \in DOMAIN os /\ k \in Nat \ {0}
         /\ \A j \in 1..k - 1 : j \in DOMAIN os /\ j # k /\ os[j] \in Output
         /\ a \in Accumulator /\ a.next \in Seq(Active) /\ a.items \in Nat /\ a.slots \in Barriers
         /\ b \in Accumulator /\ b = OneOutput(a, os[k]) /\ holds[k] = Holding(b.items) /\ b.next \in Seq(Active)
<1>1. os \in Seq(Output) /\ k \in 1..Len(os)
  BY DEF Folding, Collected
<1>2. /\ os[k] \in Output /\ k \in DOMAIN os /\ k \in Nat \ {0}
      /\ \A j \in 1..k - 1 : j \in DOMAIN os /\ j # k /\ os[j] \in Output
  BY <1>1, ElementOfSeq
<1>3. b \in Accumulator
  BY <1>2, OneOutputType DEF Folding
<1>4. \A c \in Accumulator : c.next \in Seq(Active) /\ c.items \in Nat /\ c.slots \in Barriers
  BY DEF Accumulator
<1> QED
  BY <1>1, <1>2, <1>3, <1>4 DEF Folding, FanShaped

\* An output's part in the next active nodes.
LEMMA NextStep ==
  ASSUME NEW x, NEW os, NEW holds, NEW k, NEW a, NEW b, Folding(x, os, holds, k, a, b)
  PROVE  NextIs(os, k, b.slots, b.next, holds)
<1>0. /\ GraphOK /\ FanShaped(graph) /\ Branched(graph)
      /\ os[k] \in Output /\ k \in Nat \ {0}
      /\ a \in Accumulator /\ a.next \in Seq(Active) /\ a.items \in Nat
      /\ b = OneOutput(a, os[k]) /\ holds[k] = Holding(b.items)
  BY FoldingFacts
<1>1. NextIs(os, k - 1, a.slots, a.next, holds)
  BY FoldingFacts DEF PrefixIs
<1>2. SUFFICES ASSUME NEW active \in Active
               PROVE  active \in Range(b.next) <=>
                        \/ \E j \in 1..k : Sends(os[j], b.slots, holds[j], active)
                        \/ \E f \in FanIns : active = Plain(f) /\ Joined(os, k, b.slots, f)
  BY DEF NextIs
<1>3. active \in Range(a.next) <=>
        \/ \E j \in 1..k - 1 : Sends(os[j], b.slots, holds[j], active)
        \/ \E f \in FanIns : active = Plain(f) /\ Joined(os, k - 1, a.slots, f)
  BY <1>1, SendsStays DEF NextIs
<1>4. (\E j \in 1..k : Sends(os[j], b.slots, holds[j], active)) <=>
        \/ \E j \in 1..k - 1 : Sends(os[j], b.slots, holds[j], active)
        \/ Sends(os[k], b.slots, holds[k], active)
  BY <1>0, LastOfPrefix
<1>5. CASE graph.kind[os[k].active.node] = "FanOut"
  <2> DEFINE target == graph.target[os[k].active.node]
  <2>1. /\ b.slots = OpenFanInBarrier(a.slots, target, a.items)
        /\ b.next = a.next \o Branches(target, a.items)
        /\ target \in Targets(graph) /\ target \in NodesOf(graph)
    <3>1. GraphOK /\ a \in Accumulator /\ os[k] \in Output /\ b = OneOutput(a, os[k])
      BY ONLY <1>0
    <3> QED
      BY ONLY <1>5, <3>1, FanOutOutput
  <2>2. PICK g \in FanIns : FanInConsuming(target) = {g}
    BY <1>0, <2>1, TargetFacts
  <2>3. Len(b.slots[g]) = a.items
    <3>1. b.slots[g] = [i \in 1..a.items |-> Null]
      BY <1>0, <2>1, <2>2, FoldingFacts DEF OpenFanInBarrier, Barriers
    <3> QED
      BY ONLY <1>0, <3>1, LenOfBlanks
  <2>4. Sends(os[k], b.slots, holds[k], active) <=>
          active.node = target /\ active.branch # NoBranch /\ active.branch < a.items
    <3>1. (\E f \in FanInConsuming(target) : active.branch < Len(b.slots[f])) <=> active.branch < a.items
      BY ONLY <2>2, <2>3
    <3>2. Sends(os[k], b.slots, holds[k], active) <=>
            /\ active.node = target /\ active.branch # NoBranch
            /\ \E f \in FanInConsuming(active.node) : active.branch < Len(b.slots[f])
      BY ONLY <1>5 DEF Sends
    <3> HIDE DEF target
    <3> QED
      BY ONLY <3>1, <3>2
  <2>5. PICK t \in Seq(Active) : t = Branches(target, a.items)
    BY ONLY <1>0, <2>1, BranchesType
  <2>6. active \in Range(t) <=> active.node = target /\ active.branch # NoBranch /\ active.branch < a.items
    <3>1. active \in Active
      BY <1>2
    <3> QED
      BY ONLY <1>0, <2>1, <2>5, <3>1, BranchesRange
  <2>7. active \in Range(b.next) <=> active \in Range(a.next) \/ active \in Range(t)
    <3>1. b.next = a.next \o t
      BY ONLY <2>1, <2>5
    <3>2. \A v : v \in Range(a.next \o t) <=> v \in Range(a.next) \/ v \in Range(t)
      BY <1>0, RangeConcat
    <3>3. Range(b.next) = Range(a.next \o t)
      BY ONLY <3>1
    <3> QED
      BY ONLY <3>2, <3>3
  <2>8. \A f \in FanIns : Joined(os, k, b.slots, f) <=> Joined(os, k - 1, a.slots, f)
    <3>1. \A f : ~Tells(os[k], f)
      BY <1>5 DEF Tells, Reports
    <3> QED
      BY <3>1, BarrierStep
  <2> HIDE DEF target
  <2> QED
    BY <1>3, <1>4, <2>4, <2>6, <2>7, <2>8
<1>6. CASE graph.kind[os[k].active.node] # "FanOut" /\ ~Reports(os[k])
  <2>1. b.next = IF os[k].result = Error THEN a.next
                 ELSE a.next \o Successors(os[k].active.node, holds[k])
    BY <1>0, <1>6, EdgesOutput
  <2>2. \A f \in FanIns : Joined(os, k, b.slots, f) <=> Joined(os, k - 1, a.slots, f)
    <3>1. \A f : ~Tells(os[k], f) /\ ~Opens(os[k], f)
      BY <1>6 DEF Tells, Opens
    <3> QED
      BY <3>1, BarrierStep
  <2>3. Sends(os[k], b.slots, holds[k], active) <=>
          os[k].result # Error /\ active \in Range(Successors(os[k].active.node, holds[k]))
    BY <1>0, <1>6, SuccessorsRange DEF Sends
  <2>4. os[k].result # Error =>
          (active \in Range(b.next) <=>
             active \in Range(a.next) \/ active \in Range(Successors(os[k].active.node, holds[k])))
    BY <1>0, <2>1, SuccessorsType, RangeConcat
  <2> QED
    BY <1>3, <1>4, <2>1, <2>2, <2>3, <2>4
<1>7. CASE graph.kind[os[k].active.node] # "FanOut" /\ Reports(os[k])
  <2>1. PICK g \in FanIns : Tells(os[k], g)
    BY <1>7, ConsumingType DEF Reports, Tells
  <2>2. ~Sends(os[k], b.slots, holds[k], active)
    BY <1>7 DEF Sends
  <2>3. \A f \in FanIns : f # g => (Joined(os, k, b.slots, f) <=> Joined(os, k - 1, a.slots, f))
    <3>1. FanInConsuming(os[k].active.node) = {g}
      BY <1>0, <2>1, TellerFacts
    <3>2. \A f : f # g => ~Tells(os[k], f) /\ ~Opens(os[k], f)
      BY <1>7, <3>1 DEF Opens, Tells
    <3> QED
      BY <3>2, BarrierStep
  <2>4. ~Joined(os, k - 1, a.slots, g)
    BY <2>1, BarrierStep
  <2>5. b.next = IF Joined(os, k, b.slots, g) THEN Append(a.next, Plain(g)) ELSE a.next
    BY <2>1, BarrierStep
  <2>6. Plain(g) \in Active
    BY DEF Plain, Active, NoBranch, FanIns, OfKind
  <2>7. Joined(os, k, b.slots, g) =>
          (active \in Range(b.next) <=> active \in Range(a.next) \/ active = Plain(g))
    <3>1. \A v : v \in Range(Append(a.next, Plain(g))) <=> v \in Range(a.next) \/ v = Plain(g)
      BY <1>0, <2>6, RangeAppend
    <3> QED
      BY <2>5, <3>1
  <2> QED
    BY <1>3, <1>4, <2>2, <2>3, <2>4, <2>5, <2>7
<1> QED
  BY <1>5, <1>6, <1>7

\* Two lists on one trunk hold one token together if they are branches of the same target.
LEMMA TokenJoin ==
  ASSUME NEW trunk, NEW s \in Seq(Active), NEW t \in Seq(Active),
         OneToken(trunk, s), OneToken(trunk, t),
         \A i \in DOMAIN s, j \in DOMAIN t :
           s[i].node \in trunk /\ t[j].node \in trunk =>
             /\ s[i].node = t[j].node /\ s[i].node \in Targets(graph)
             /\ s[i].branch # t[j].branch
  PROVE  OneToken(trunk, s \o t)
<1> DEFINE u == s \o t
<1>1. \A i \in DOMAIN u :
        \/ i \in DOMAIN s /\ u[i] = s[i]
        \/ i - Len(s) \in DOMAIN t /\ u[i] = t[i - Len(s)] /\ i \notin DOMAIN s
  BY RangeConcat
<1>2. DOMAIN u \subseteq Int /\ Len(s) \in Int
  <2>1. u \in Seq(Active)
    OBVIOUS
  <2> QED
    BY <2>1
<1>3. SUFFICES ASSUME NEW i \in DOMAIN u, NEW j \in DOMAIN u,
                      i # j, u[i].node \in trunk, u[j].node \in trunk
               PROVE  /\ u[i].node = u[j].node
                      /\ u[i].node \in Targets(graph)
                      /\ u[i].branch # u[j].branch
  BY DEF OneToken
<1> HIDE DEF u
<1>4. CASE i \in DOMAIN s /\ u[i] = s[i] /\ j \in DOMAIN s /\ u[j] = s[j]
  BY <1>3, <1>4 DEF OneToken
<1>5. CASE /\ i - Len(s) \in DOMAIN t /\ u[i] = t[i - Len(s)]
           /\ j - Len(s) \in DOMAIN t /\ u[j] = t[j - Len(s)]
  <2>1. i - Len(s) # j - Len(s)
    BY <1>2, <1>3
  <2> QED
    BY <1>3, <1>5, <2>1 DEF OneToken
<1>6. CASE i \in DOMAIN s /\ u[i] = s[i] /\ j - Len(s) \in DOMAIN t /\ u[j] = t[j - Len(s)]
  BY <1>3, <1>6
<1>7. CASE j \in DOMAIN s /\ u[j] = s[j] /\ i - Len(s) \in DOMAIN t /\ u[i] = t[i - Len(s)]
  BY <1>3, <1>7
<1> QED
  BY <1>1, <1>4, <1>5, <1>6, <1>7

\* Two lists hold one token together if one of them is off the trunk.
LEMMA TokenConcat ==
  ASSUME NEW trunk, NEW s \in Seq(Active), NEW t \in Seq(Active),
         OneToken(trunk, s), OneToken(trunk, t), Quiet(trunk, s) \/ Quiet(trunk, t)
  PROVE  OneToken(trunk, s \o t)
BY TokenJoin DEF Quiet

\* The edges out of a node lead to a trunk at most once, and from the trunk.
LEMMA SuccessorsToken ==
  ASSUME GraphOK, NEW trunk, Trunk(graph, trunk), NEW n, NEW holds
  PROVE  OneToken(trunk, Successors(n, holds)) /\ (n \notin trunk => Quiet(trunk, Successors(n, holds)))
<1>1. PICK t \in Seq(Active) : t = Successors(n, holds)
  BY SuccessorsType
<1>2. PICK e : /\ e \in [1..Len(t) -> DOMAIN graph.edges]
               /\ \A i, j \in 1..Len(t) : i # j => e[i] # e[j]
               /\ \A i \in 1..Len(t) : /\ t[i] = Plain(graph.edges[e[i]].to)
                                       /\ graph.edges[e[i]].from = n
  BY <1>1, SuccessorsType
<1>3. DOMAIN t = 1..Len(t)
  OBVIOUS
<1>4. \A i \in DOMAIN t : t[i].node = graph.edges[e[i]].to
  BY <1>2, <1>3 DEF Plain
<1>5. OneToken(trunk, t)
  <2>1. ASSUME NEW i \in DOMAIN t, NEW j \in DOMAIN t, i # j, t[i].node \in trunk, t[j].node \in trunk
        PROVE  FALSE
    BY <1>2, <1>3, <1>4, <2>1 DEF Trunk
  <2> QED
    BY <2>1 DEF OneToken
<1>6. ASSUME n \notin trunk, NEW i \in DOMAIN t PROVE t[i].node \notin trunk
  <2>1. graph.edges[e[i]] \in EdgesOf(graph)
    BY <1>2, <1>3 DEF EdgesOf, Range
  <2> QED
    BY <1>2, <1>3, <1>4, <1>6, <2>1 DEF Trunk
<1> QED
  BY <1>1, <1>5, <1>6 DEF Quiet

\* What is next on a trunk was started from the trunk: by a node that is no target, or by a
\* barrier that joined.
LEMMA NextSource ==
  ASSUME GraphOK, FanShaped(graph), NEW os, NEW k, NEW slots, NEW next \in Seq(Active), NEW holds,
         NextIs(os, k, slots, next, holds), \A j \in 1..k : os[j] \in Output,
         NEW trunk, Trunk(graph, trunk), NEW i \in DOMAIN next, next[i].node \in trunk
  PROVE  \E j \in 1..k :
           /\ os[j].active.node \in trunk
           /\ \/ os[j].active.node \notin Targets(graph)
              \/ \E f \in FanIns : Tells(os[j], f) /\ Joined(os, k, slots, f)
<1>1. PICK active \in Active : active = next[i]
  BY ElementOfSeq
<1>2. active \in Range(next)
  BY <1>1 DEF Range
<1>3. CASE \E j \in 1..k : Sends(os[j], slots, holds[j], active)
  <2>1. PICK j \in 1..k : Sends(os[j], slots, holds[j], active)
    BY <1>3
  <2>2. CASE graph.kind[os[j].active.node] = "FanOut" /\ active.node = graph.target[os[j].active.node]
    <3>1. os[j].active.node \in OfKind(graph, "FanOut") /\ os[j].active.node \notin Targets(graph)
      BY <2>2, OpenerFacts
    <3>2. os[j].active.node \in trunk
      BY <1>1, <2>2, <3>1, TrunkFacts
    <3> QED
      BY <3>1, <3>2
  <2>3. CASE /\ graph.kind[os[j].active.node] # "FanOut" /\ ~Reports(os[j]) /\ os[j].result # Error
             /\ \E edge \in EdgesOf(graph) \cap holds[j] :
                  edge.from = os[j].active.node /\ active = Plain(edge.to)
    <3>1. os[j].active.node \notin Targets(graph)
      BY <2>3, TargetReports
    <3>2. PICK edge \in EdgesOf(graph) : edge.from = os[j].active.node /\ active = Plain(edge.to)
      BY <2>3
    <3>3. edge.to \in trunk
      BY <1>1, <3>2 DEF Plain
    <3>4. os[j].active.node \in trunk
      BY <3>2, <3>3, TrunkFacts
    <3> QED
      BY <3>1, <3>4
  <2> QED
    BY <2>1, <2>2, <2>3 DEF Sends
<1>4. CASE \E f \in FanIns : active = Plain(f) /\ Joined(os, k, slots, f)
  <2>1. PICK f \in FanIns : active = Plain(f) /\ Joined(os, k, slots, f)
    BY <1>4
  <2>2. PICK j \in 1..k : Tells(os[j], f)
    BY <2>1 DEF Joined
  <2>3. f \in trunk
    BY <1>1, <2>1 DEF Plain
  <2>4. os[j].active.node \in trunk
    BY <2>2, <2>3, TrunkFacts DEF Tells
  <2> QED
    BY <2>1, <2>2, <2>4
<1> QED
  BY <1>2, <1>3, <1>4 DEF NextIs

\* When the k-th output starts something on the trunk, the outputs before it did not.
LEMMA TrunkQuiet ==
  ASSUME NEW x, NEW os, NEW holds, NEW k, NEW a, NEW b, Folding(x, os, holds, k, a, b),
         NEW trunk, Trunk(graph, trunk), os[k].active.node \in trunk,
         \/ os[k].active.node \notin Targets(graph)
         \/ \E g \in FanIns : Tells(os[k], g)
  PROVE  Quiet(trunk, a.next)
<1>0. /\ GraphOK /\ FanShaped(graph) /\ Collected(x, os)
      /\ k \in DOMAIN os /\ a.next \in Seq(Active)
      /\ \A j \in 1..k - 1 : j \in DOMAIN os /\ j # k /\ os[j] \in Output
  BY FoldingFacts
<1>1. NextIs(os, k - 1, a.slots, a.next, holds)
  BY FoldingFacts DEF PrefixIs
<1>2. SUFFICES ASSUME NEW i \in DOMAIN a.next, a.next[i].node \in trunk PROVE FALSE
  BY DEF Quiet
<1>3. PICK j \in 1..k - 1 :
        /\ os[j].active.node \in trunk
        /\ \/ os[j].active.node \notin Targets(graph)
           \/ \E f \in FanIns : Tells(os[j], f) /\ Joined(os, k - 1, a.slots, f)
  <2>1. PICK m : m = k - 1
    OBVIOUS
  <2> QED
    BY <1>0, <1>1, <1>2, <2>1, NextSource
<1>4. os[j].active.node = os[k].active.node /\ os[k].active.node \in Targets(graph)
  <2>1. OneToken(trunk, Ran(os))
    BY <1>0 DEF Collected
  <2>2. /\ j \in DOMAIN Ran(os) /\ k \in DOMAIN Ran(os)
        /\ Ran(os)[j] = os[j].active /\ Ran(os)[k] = os[k].active
    BY <1>0 DEF Ran
  <2> QED
    BY <1>0, <1>3, <2>1, <2>2 DEF OneToken
<1>5. PICK f \in FanIns : Tells(os[j], f) /\ Joined(os, k - 1, a.slots, f)
  BY <1>3, <1>4
<1>6. PICK g \in FanIns : Tells(os[k], g)
  BY <1>4
<1>7. f = g
  <2>1. FanInConsuming(os[j].active.node) = {f}
    BY <1>0, <1>5, TellerFacts
  <2>2. FanInConsuming(os[k].active.node) = {g}
    BY <1>0, <1>6, TellerFacts
  <2> QED
    BY <1>4, <2>1, <2>2
<1>8. ~Joined(os, k - 1, a.slots, g)
  BY <1>6, BarrierStep
<1> QED
  BY <1>5, <1>7, <1>8

\* One output more leaves at most one token on a trunk among the next active nodes.
LEMMA TokenStep ==
  ASSUME NEW x, NEW os, NEW holds, NEW k, NEW a, NEW b, Folding(x, os, holds, k, a, b),
         NEW trunk, Trunk(graph, trunk)
  PROVE  OneToken(trunk, b.next)
<1>0. /\ GraphOK /\ FanShaped(graph) /\ Branched(graph)
      /\ os[k] \in Output /\ a \in Accumulator /\ a.next \in Seq(Active) /\ a.items \in Nat
      /\ b = OneOutput(a, os[k]) /\ holds[k] = Holding(b.items)
  BY FoldingFacts
<1>1. OneToken(trunk, a.next)
  BY FoldingFacts DEF PrefixIs
<1>2. CASE graph.kind[os[k].active.node] = "FanOut"
  <2> DEFINE target == graph.target[os[k].active.node]
  <2>1. /\ b.next = a.next \o Branches(target, a.items)
        /\ target \in Targets(graph) /\ target \in NodesOf(graph)
    BY <1>0, <1>2, FanOutOutput
  <2>2. PICK t \in Seq(Active) : /\ t = Branches(target, a.items) /\ Len(t) = a.items
                                 /\ \A i \in 1..a.items : t[i] = [node |-> target, branch |-> i - 1]
    BY <1>0, <2>1, BranchesType
  <2>3. os[k].active.node \in OfKind(graph, "FanOut") /\ os[k].active.node \notin Targets(graph)
    BY <1>0, <1>2, OpenerFacts
  <2>4. target \in trunk => os[k].active.node \in trunk
    BY <1>0, <2>3, TrunkFacts
  <2> HIDE DEF target
  <2>5. \A i \in DOMAIN t : t[i].node = target /\ t[i].branch = i - 1 /\ i \in Int
    <3>1. DOMAIN t = 1..a.items
      BY <2>2
    <3>2. ASSUME NEW i \in 1..a.items
          PROVE  t[i].node = target /\ t[i].branch = i - 1 /\ i \in Int
      <4>1. t[i] = [node |-> target, branch |-> i - 1]
        BY <2>2
      <4> QED
        BY <4>1
    <3> QED
      BY <3>1, <3>2
  <2>6. OneToken(trunk, t)
    BY <2>1, <2>5 DEF OneToken
  <2>7. CASE target \in trunk
    <3>1. Quiet(trunk, a.next)
      BY <2>3, <2>4, <2>7, TrunkQuiet
    <3> QED
      BY <1>0, <1>1, <2>1, <2>2, <2>6, <3>1, TokenConcat
  <2>8. CASE target \notin trunk
    <3>1. Quiet(trunk, t)
      BY <2>5, <2>8 DEF Quiet
    <3> QED
      BY <1>0, <1>1, <2>1, <2>2, <2>6, <3>1, TokenConcat
  <2> QED
    BY <2>7, <2>8
<1>3. CASE graph.kind[os[k].active.node] # "FanOut" /\ ~Reports(os[k])
  <2>1. b.next = IF os[k].result = Error THEN a.next
                 ELSE a.next \o Successors(os[k].active.node, holds[k])
    BY <1>0, <1>3, EdgesOutput
  <2>2. CASE os[k].result # Error
    <3>1. PICK t \in Seq(Active) : t = Successors(os[k].active.node, holds[k])
      BY <1>0, SuccessorsType
    <3>2. OneToken(trunk, t) /\ (os[k].active.node \notin trunk => Quiet(trunk, t))
      BY <1>0, <3>1, SuccessorsToken
    <3>3. os[k].active.node \in trunk => Quiet(trunk, a.next)
      BY <1>0, <1>3, <2>2, TargetReports, TrunkQuiet
    <3> QED
      BY <1>0, <1>1, <2>1, <2>2, <3>1, <3>2, <3>3, TokenConcat
  <2> QED
    BY <1>1, <2>1, <2>2
<1>4. CASE graph.kind[os[k].active.node] # "FanOut" /\ Reports(os[k])
  <2>1. PICK g \in FanIns : Tells(os[k], g)
    BY <1>4, ConsumingType DEF Reports, Tells
  <2>2. b.next = IF Joined(os, k, b.slots, g) THEN Append(a.next, Plain(g)) ELSE a.next
    BY <2>1, BarrierStep
  <2>3. Plain(g) \in Active
    BY DEF Plain, Active, NoBranch, FanIns, OfKind
  <2>4. Append(a.next, Plain(g)) = a.next \o <<Plain(g)>> /\ <<Plain(g)>> \in Seq(Active)
    BY <1>0, <2>3, RangeAppend
  <2>5. OneToken(trunk, <<Plain(g)>>)
    BY DEF OneToken
  <2>6. CASE g \in trunk
    <3>1. os[k].active.node \in trunk
      BY <1>0, <2>1, <2>6, TrunkFacts DEF Tells
    <3>2. Quiet(trunk, a.next)
      BY <2>1, <3>1, TrunkQuiet
    <3> QED
      BY <1>0, <1>1, <2>2, <2>4, <2>5, <3>2, TokenConcat
  <2>7. CASE g \notin trunk
    <3>1. Quiet(trunk, <<Plain(g)>>)
      BY <2>7 DEF Quiet, Plain
    <3> QED
      BY <1>0, <1>1, <2>2, <2>4, <2>5, <3>1, TokenConcat
  <2> QED
    BY <2>6, <2>7
<1> QED
  BY <1>2, <1>3, <1>4

\* The output rewrites the key, or its FanIn does.
Writes(o) ==
  o.active.node \in graph.writes \/ FanInConsuming(o.active.node) \cap graph.writes # {}

\* A branch that carries its index fails with its result and does not panic.
LEMMA OutputFlags ==
  ASSUME GraphOK, Branched(graph), NEW a \in Accumulator, NEW o \in Output,
         o.active.node \in Targets(graph) => o.active.branch # NoBranch,
         graph.kind[o.active.node] # "Task" => o.result = Null,
         NEW b, b = OneOutput(a, o)
  PROVE  /\ b.failed <=> a.failed \/ o.result = Error
         /\ b.panic = a.panic
         /\ ~Writes(o) => b.items = a.items
<1>0. ~Writes(o) => ApplyOutput(a.items, o) = a.items
  BY DEF ApplyOutput, Writes
<1>1. CASE graph.kind[o.active.node] = "FanOut"
  <2>1. o.result # Error
    BY <1>1 DEF Error, Null
  <2>2. b.failed = a.failed /\ b.panic = a.panic /\ b.items = a.items
    BY <1>1, FanOutOutput
  <2> QED
    BY <2>1, <2>2
<1>2. CASE graph.kind[o.active.node] # "FanOut" /\ ~Reports(o)
  <2>1. /\ b.failed = (a.failed \/ o.result = Error) /\ b.panic = a.panic
        /\ b.items = ApplyOutput(a.items, o)
    BY <1>2, EdgesOutput
  <2> QED
    BY <1>0, <2>1
<1>3. CASE graph.kind[o.active.node] # "FanOut" /\ Reports(o)
  <2>1. PICK f \in FanIns : FanInConsuming(o.active.node) = {f}
    BY <1>3, ConsumingOne DEF Reports
  <2>2. o.active.branch # NoBranch
    BY <2>1, ConsumerFacts
  <2>3. Reporting(a, o, f, b)
    BY <1>3, <2>1, <2>2 DEF Reporting
  <2>4. b.failed = a.failed /\ b.panic = a.panic /\ (~Writes(o) => b.items = ApplyOutput(a.items, o))
    BY <2>1, <2>3, BranchFlags DEF Writes
  <2> QED
    BY <1>0, <1>3, <2>4 DEF Reports
<1> QED
  BY <1>1, <1>2, <1>3

\* One output more, and the description is that of the longer prefix.
LEMMA PrefixStep ==
  ASSUME NEW x, NEW os, NEW holds, NEW k, NEW a, NEW b, Folding(x, os, holds, k, a, b)
  PROVE  PrefixIs(x, os, holds, k, b)
<1>0. /\ GraphOK /\ FanShaped(graph) /\ Collected(x, os)
      /\ os[k] \in Output /\ k \in Nat \ {0} /\ k \in DOMAIN os
      /\ a \in Accumulator /\ PrefixIs(x, os, holds, k - 1, a)
      /\ b = OneOutput(a, os[k])
  BY FoldingFacts
<1>1. /\ b.failed <=> a.failed \/ os[k].result = Error
      /\ b.panic = a.panic
      /\ NothingWritten(os) => b.items = a.items
  <2>1. os[k].active.node \in Targets(graph) => os[k].active.branch # NoBranch
    <3>1. k \in DOMAIN Ran(os) /\ Ran(os)[k] = os[k].active
      BY <1>0 DEF Ran
    <3> QED
      BY <1>0, <3>1 DEF Collected, BarriersOpen
  <2>2. graph.kind[os[k].active.node] # "Task" => os[k].result = Null
    BY <1>0 DEF Collected
  <2>3. NothingWritten(os) => ~Writes(os[k])
    BY <1>0 DEF NothingWritten, Writes, Range
  <2> QED
    BY <1>0, <2>1, <2>2, <2>3, OutputFlags, FoldingFacts
<1>2. b.failed <=> \E j \in 1..k : os[j].result = Error
  BY <1>0, <1>1, LastOfPrefix DEF PrefixIs
<1>3. \A f \in FanIns : BarrierIs(x, os, k, b.slots, f) /\ FoldIs(x, os, k, b.slots, b.folded, f)
  BY BarrierStep
<1>4. \A trunk : Trunk(graph, trunk) => OneToken(trunk, b.next)
  BY TokenStep
<1>5. NextIs(os, k, b.slots, b.next, holds)
  BY NextStep
<1>6. ~b.panic /\ (NothingWritten(os) => b.items = x.items)
  BY <1>0, <1>1 DEF PrefixIs
<1> QED
  BY <1>2, <1>3, <1>4, <1>5, <1>6 DEF PrefixIs

\* What a super-step accumulates, whatever order its outputs came in.
LEMMA AccumulatedIs ==
  ASSUME GraphOK, FanShaped(graph), NEW x \in Execution, NEW os, Collected(x, os)
  PROVE  /\ Accumulated(x, os) \in Accumulator
         /\ \E holds : /\ PrefixIs(x, os, holds, Len(os), Accumulated(x, os))
                       /\ NothingWritten(os) => \A j \in 1..Len(os) : holds[j] = Holding(x.items)
<1>0. os \in Seq(Output) /\ Len(os) \in Nat
  BY DEF Collected
<1>1. PICK a \in [0..Len(os) -> Accumulator] :
        Accumulates(a, x, os, Len(os)) /\ Accumulated(x, os) = a[Len(os)]
  BY <1>0, AccumulatedUnfolds
<1>5. PICK holds : holds = [k \in 1..Len(os) |-> Holding(a[k].items)]
  OBVIOUS
<1> DEFINE P == {k \in 0..Len(os) : PrefixIs(x, os, holds, k, a[k])}
<1>2. 0 \in P
  <2>1. a[0] = Start(x, os)
    BY <1>1 DEF Accumulates
  <2>2. PICK s : s = a[0]
    OBVIOUS
  <2>3. /\ s.items = x.items /\ s.slots = x.slots /\ s.folded = x.folded
        /\ s.next = <<>> /\ ~s.failed /\ ~s.panic
    BY <2>1, <2>2 DEF Start, Collected
  <2>4. \A j : j \notin 1..0
    OBVIOUS
  <2>5. \A f \in FanIns : BarrierIs(x, os, 0, s.slots, f) /\ FoldIs(x, os, 0, s.slots, s.folded, f)
    BY <2>3, <2>4 DEF BarrierIs, FoldIs, Joined
  <2>6. NextIs(os, 0, s.slots, s.next, holds)
    <3>1. \A v : v \notin Range(s.next)
      BY <2>3 DEF Range
    <3> QED
      BY <2>4, <3>1 DEF NextIs, Joined
  <2>7. \A trunk : OneToken(trunk, s.next)
    BY <2>3 DEF OneToken
  <2>8. PrefixIs(x, os, holds, 0, s)
    BY <2>3, <2>4, <2>5, <2>6, <2>7 DEF PrefixIs
  <2> QED
    BY <1>0, <2>2, <2>8
<1>3. ASSUME NEW k \in 1..Len(os), k - 1 \in P
      PROVE  k \in P
  <2>1. Folding(x, os, holds, k, a[k - 1], a[k])
    BY <1>0, <1>1, <1>3, <1>5 DEF Folding, Accumulates
  <2> QED
    BY <1>0, <2>1, PrefixStep
<1> HIDE DEF P
<1>4. \A k \in 0..Len(os) : k \in P
  BY <1>0, <1>2, <1>3, PrefixInduction
<1>6. ASSUME NothingWritten(os), NEW j \in 1..Len(os)
      PROVE  holds[j] = Holding(x.items)
  <2>1. PrefixIs(x, os, holds, j, a[j])
    BY <1>0, <1>4 DEF P
  <2>2. a[j].items = x.items
    BY <1>6, <2>1 DEF PrefixIs
  <2> QED
    BY <1>5, <2>2
<1>7. PrefixIs(x, os, holds, Len(os), a[Len(os)])
  BY <1>0, <1>4 DEF P
<1> QED
  BY <1>0, <1>1, <1>6, <1>7

-----------------------------------------------------------------------------
(* From the accumulated nodes to the next super-step's *)

\* What stands for an active node once the FanIns are expanded.
Piece(active, holds) ==
  IF graph.kind[active.node] = "FanIn" THEN Successors(active.node, holds) ELSE <<active>>

\* What a next node expands to is a list of active nodes.
LEMMA PieceType ==
  ASSUME GraphOK, NEW active \in Active, NEW holds
  PROVE  Piece(active, holds) \in Seq(Active)
BY SuccessorsType DEF Piece

Grown(s, active, holds) == s \o Piece(active, holds)

\* Expanding one node more gives a list of active nodes.
LEMMA GrownType ==
  ASSUME GraphOK, NEW s \in Seq(Active), NEW active \in Active, NEW holds
  PROVE  Grown(s, active, holds) \in Seq(Active)
BY PieceType DEF Grown

\* e holds the expansion of the first k nodes, for every k up to m.
Expands(e, next, holds, m) ==
  e[0] = <<>> /\ \A k \in 1..m : e[k] = Grown(e[k - 1], next[k], holds)

\* Expanding the next nodes is a function on their prefixes.
LEMMA ExpansionExists ==
  ASSUME GraphOK, NEW next \in Seq(Active), NEW holds
  PROVE  \E e \in [0..Len(next) -> Seq(Active)] : Expands(e, next, holds, Len(next))
<1> DEFINE P == {m \in 0..Len(next) :
                   \E e \in [0..m -> Seq(Active)] : Expands(e, next, holds, m)}
<1>1. 0 \in P
  <2> DEFINE e == [k \in 0..0 |-> <<>>]
  <2>1. e \in [0..0 -> Seq(Active)] /\ Expands(e, next, holds, 0)
    BY DEF Expands
  <2> HIDE DEF e
  <2> QED
    BY <2>1
<1>2. ASSUME NEW m \in 1..Len(next), m - 1 \in P
      PROVE  m \in P
  <2>1. PICK e \in [0..(m - 1) -> Seq(Active)] : Expands(e, next, holds, m - 1)
    BY <1>2
  <2>2. PICK last \in Seq(Active) : last = Grown(e[m - 1], next[m], holds)
    <3>1. e[m - 1] \in Seq(Active) /\ next[m] \in Active
      BY ElementOfSeq
    <3> QED
      BY <3>1, GrownType
  <2> DEFINE d == [k \in 0..m |-> IF k = m THEN last ELSE e[k]]
  <2>3. d \in [0..m -> Seq(Active)]
    <3>1. \A k \in 0..m : k # m => k \in 0..(m - 1)
      OBVIOUS
    <3> QED
      BY <3>1
  <2>4. d[0] = e[0] /\ \A k \in 1..(m - 1) : d[k] = e[k] /\ d[k - 1] = e[k - 1]
    OBVIOUS
  <2>5. d[m] = last /\ d[m - 1] = e[m - 1]
    OBVIOUS
  <2> HIDE DEF d
  <2>6. \A k \in 1..m : k = m \/ k \in 1..(m - 1)
    OBVIOUS
  <2>7. Expands(d, next, holds, m)
    BY <2>1, <2>2, <2>4, <2>5, <2>6 DEF Expands
  <2> QED
    BY <2>3, <2>7
<1>3. Len(next) \in Nat /\ Len(next) \in 0..Len(next)
  OBVIOUS
<1> HIDE DEF P
<1>4. Len(next) \in P
  BY <1>1, <1>2, <1>3, PrefixInduction
<1> QED
  BY <1>4 DEF P

\* expand_completed_fan_ins computes that function.
LEMMA ExpansionUnfolds ==
  ASSUME GraphOK, NEW next \in Seq(Active), NEW holds
  PROVE  \E e \in [0..Len(next) -> Seq(Active)] :
           Expands(e, next, holds, Len(next)) /\ ExpandCompletedFanIns(next, holds) = e[Len(next)]
<1> DEFINE Body(e) == [k \in 0..Len(next) |->
                         IF k = 0 THEN <<>> ELSE Grown(e[k - 1], next[k], holds)]
           expanded == CHOOSE e : e = Body(e)
<1>1. PICK e \in [0..Len(next) -> Seq(Active)] : Expands(e, next, holds, Len(next))
  BY ExpansionExists
<1>2. e = Body(e)
  BY <1>1 DEF Expands
<1>3. expanded = Body(expanded)
  <2> HIDE DEF Body
  <2> QED
    BY <1>2
<1>4. ExpandCompletedFanIns(next, holds) = expanded[Len(next)]
  BY DEF ExpandCompletedFanIns, Grown, Piece
<1> HIDE DEF expanded
<1>5. Len(next) \in Nat
  OBVIOUS
<1>6. expanded[0] = <<>> /\ \A k \in 1..Len(next) : expanded[k] = Grown(expanded[k - 1], next[k], holds)
  BY <1>3, <1>5
<1> DEFINE P == {k \in 0..Len(next) : expanded[k] \in Seq(Active)}
<1>7. 0 \in P
  <2>1. <<>> \in Seq(Active) /\ 0 \in 0..Len(next)
    BY <1>5
  <2>2. expanded[0] \in Seq(Active)
    BY <1>6, <2>1, Zenon
  <2> QED
    BY <2>1, <2>2
<1>8. ASSUME NEW k \in 1..Len(next), k - 1 \in P
      PROVE  k \in P
  <2>1. next[k] \in Active
    BY ElementOfSeq
  <2> QED
    BY <1>6, <1>8, <2>1, GrownType
<1>9. \A k \in 0..Len(next) : k \in P
  <2> HIDE DEF P
  <2> QED
    BY <1>5, <1>7, <1>8, PrefixInduction
<1>10. expanded \in [0..Len(next) -> Seq(Active)]
  <2>1. DOMAIN expanded = 0..Len(next) /\ expanded = [k \in DOMAIN expanded |-> expanded[k]]
    BY <1>3
  <2> HIDE DEF Body
  <2> QED
    BY <1>9, <2>1
<1> QED
  BY <1>4, <1>6, <1>10 DEF Expands

\* The expansion has what stands for each node, and no more.
LEMMA ExpansionRange ==
  ASSUME GraphOK, NEW next \in Seq(Active), NEW holds, NEW e \in [0..Len(next) -> Seq(Active)],
         Expands(e, next, holds, Len(next))
  PROVE  \A k \in 0..Len(next) : \A v :
           v \in Range(e[k]) <=> \E i \in 1..k : v \in Range(Piece(next[i], holds))
<1> DEFINE P == {k \in 0..Len(next) : \A v :
                   v \in Range(e[k]) <=> \E i \in 1..k : v \in Range(Piece(next[i], holds))}
<1>0. Len(next) \in Nat
  OBVIOUS
<1>1. 0 \in P
  <2>1. \A v : v \notin Range(e[0])
    BY DEF Expands, Range
  <2> QED
    BY <2>1
<1>2. ASSUME NEW k \in 1..Len(next), k - 1 \in P
      PROVE  k \in P
  <2>1. Piece(next[k], holds) \in Seq(Active) /\ e[k - 1] \in Seq(Active)
    BY PieceType, ElementOfSeq
  <2>2. e[k] = e[k - 1] \o Piece(next[k], holds)
    BY DEF Expands, Grown
  <2>3. \A v : v \in Range(e[k]) <=> v \in Range(e[k - 1]) \/ v \in Range(Piece(next[k], holds))
    BY <2>1, <2>2, RangeConcat
  <2>4. \A v : v \in Range(e[k - 1]) <=> \E i \in 1..k - 1 : v \in Range(Piece(next[i], holds))
    BY <1>2
  <2>5. k \in Nat \ {0}
    OBVIOUS
  <2>6. \A v : v \in Range(e[k]) <=> \E i \in 1..k : v \in Range(Piece(next[i], holds))
    BY <2>3, <2>4, <2>5, LastOfPrefix
  <2> QED
    BY <2>6
<1> HIDE DEF P
<1>3. \A k \in 0..Len(next) : k \in P
  BY <1>0, <1>1, <1>2, PrefixInduction
<1> QED
  BY <1>3 DEF P

\* The expansion of a list with one token has one token.
LEMMA ExpansionToken ==
  ASSUME GraphOK, FanShaped(graph), NEW next \in Seq(Active), NEW holds,
         NEW e \in [0..Len(next) -> Seq(Active)], Expands(e, next, holds, Len(next)),
         NEW trunk, Trunk(graph, trunk), OneToken(trunk, next)
  PROVE  OneToken(trunk, e[Len(next)])
<1>3. \A k \in 0..Len(next) : \A v :
        v \in Range(e[k]) <=> \E i \in 1..k : v \in Range(Piece(next[i], holds))
  BY ExpansionRange
<1> DEFINE P == {k \in 0..Len(next) : OneToken(trunk, e[k])}
<1>0. Len(next) \in Nat /\ DOMAIN next = 1..Len(next)
  OBVIOUS
<1>1. 0 \in P
  BY <1>0 DEF Expands, OneToken
<1>2. ASSUME NEW k \in 1..Len(next), k - 1 \in P
      PROVE  k \in P
  <2>1. PICK s \in Seq(Active) : s = e[k - 1]
    OBVIOUS
  <2>2. PICK t \in Seq(Active) : t = Piece(next[k], holds)
    BY PieceType, ElementOfSeq
  <2>3. e[k] = s \o t
    BY <2>1, <2>2 DEF Expands, Grown
  <2>4. ASSUME NEW i \in 1..Len(next), NEW v \in Range(Piece(next[i], holds)), v.node \in trunk
        PROVE  next[i].node \in trunk /\ (next[i].node \in Targets(graph) => v = next[i])
    <3>1. CASE graph.kind[next[i].node] = "FanIn"
      <4>1. next[i].node \notin Targets(graph)
        BY <3>1, TargetKind
      <4>2. v \in Range(Successors(next[i].node, holds))
        BY <2>4, <3>1 DEF Piece
      <4>3. PICK edge \in EdgesOf(graph) : edge.from = next[i].node /\ v = Plain(edge.to)
        BY <4>2, SuccessorsRange
      <4>4. edge.to \in trunk
        BY <2>4, <4>3 DEF Plain
      <4> QED
        BY <4>1, <4>3, <4>4, TrunkFacts
    <3>2. CASE graph.kind[next[i].node] # "FanIn"
      BY <2>4, <3>2 DEF Piece, Range
    <3> QED
      BY <3>1, <3>2
  <2>5. OneToken(trunk, t)
    <3>1. CASE graph.kind[next[k].node] = "FanIn"
      BY <2>2, <3>1, SuccessorsToken DEF Piece
    <3>2. CASE graph.kind[next[k].node] # "FanIn"
      BY <2>2, <3>2 DEF Piece, OneToken
    <3> QED
      BY <3>1, <3>2
  <2>6. ASSUME NEW p \in DOMAIN s, NEW q \in DOMAIN t, s[p].node \in trunk, t[q].node \in trunk
        PROVE  s[p].node = t[q].node /\ s[p].node \in Targets(graph) /\ s[p].branch # t[q].branch
    <3>1. PICK i \in 1..k - 1 : s[p] \in Range(Piece(next[i], holds))
      <4>1. s[p] \in Range(e[k - 1]) /\ k - 1 \in 0..Len(next)
        BY <2>1 DEF Range
      <4>2. PICK m \in 0..Len(next) : m = k - 1
        BY <4>1
      <4> QED
        BY <1>3, <4>1, <4>2
    <3>2. i \in 1..Len(next) /\ i # k
      OBVIOUS
    <3>3. next[i].node \in trunk /\ (next[i].node \in Targets(graph) => s[p] = next[i])
      BY <2>4, <2>6, <3>1, <3>2
    <3>4. next[k].node \in trunk /\ (next[k].node \in Targets(graph) => t[q] = next[k])
      <4>1. t[q] \in Range(Piece(next[k], holds))
        BY <2>2 DEF Range
      <4> QED
        BY <2>4, <2>6, <4>1
    <3>5. /\ next[i].node = next[k].node /\ next[i].node \in Targets(graph)
          /\ next[i].branch # next[k].branch
      BY <1>0, <3>2, <3>3, <3>4 DEF OneToken
    <3> QED
      BY <3>3, <3>4, <3>5
  <2>7. OneToken(trunk, s)
    BY <1>2, <2>1
  <2> QED
    <3>1. OneToken(trunk, s \o t)
      BY <2>5, <2>6, <2>7, TokenJoin
    <3>2. OneToken(trunk, e[k])
      BY <2>3, <3>1, Zenon
    <3> QED
      BY <1>0, <3>2
<1> HIDE DEF P
<1>4. \A k \in 0..Len(next) : k \in P
  BY <1>0, <1>1, <1>2, PrefixInduction
<1> QED
  BY <1>0, <1>4 DEF P

\* dedup_by loses no node, and no place is kept twice.
LEMMA DedupIs ==
  ASSUME NEW next \in Seq(Active)
  PROVE  /\ Dedup(next) \in Seq(Active)
         /\ \A v : v \in Range(Dedup(next)) <=> v \in Range(next)
         /\ \A trunk : OneToken(trunk, next) => OneToken(trunk, Dedup(next))
<1> DEFINE ids == [i \in DOMAIN next |-> i]
           keep == {i \in DOMAIN next : i > 1 => next[i] # next[i - 1]}
<1>1. Len(next) \in Nat /\ DOMAIN next = 1..Len(next)
  OBVIOUS
<1>2. ids \in Seq(Nat) /\ Len(ids) = Len(next) /\ \A i \in 1..Len(next) : ids[i] = i
  BY <1>1
<1>3. PICK kept \in Seq(Nat) : kept = Only(ids, keep)
  BY <1>2, OnlyIsAFilter
<1>4. PICK e : Embeds(e, kept, ids, keep, Len(next))
  BY <1>2, <1>3, OnlyIsAFilter
<1>5. PICK r : r = [k \in DOMAIN kept |-> next[kept[k]]]
  OBVIOUS
<1>6. r = Dedup(next)
  BY <1>3, <1>5 DEF Dedup
<1> HIDE DEF ids
<1>7. DOMAIN kept = 1..Len(kept)
  OBVIOUS
<1>8. /\ \A k \in 1..Len(kept) : kept[k] \in 1..Len(next)
      /\ \A i, j \in 1..Len(kept) : i # j => kept[i] # kept[j]
      /\ \A m \in 1..Len(next) : m \in keep => \E k \in 1..Len(kept) : kept[k] = m
  <2>1. \A k \in 1..Len(kept) : e[k] \in 1..Len(next) /\ kept[k] = e[k]
    BY <1>2, <1>4 DEF Embeds
  <2>2. \A i, j \in 1..Len(kept) : i < j => kept[i] < kept[j]
    BY <1>4, <2>1 DEF Embeds
  <2>3. \A i, j \in 1..Len(kept) : i # j => i < j \/ j < i
    OBVIOUS
  <2>4. \A i, j \in 1..Len(kept) : i # j => kept[i] # kept[j]
    BY <2>1, <2>2, <2>3
  <2>5. ASSUME NEW m \in 1..Len(next), m \in keep
        PROVE  \E k \in 1..Len(kept) : kept[k] = m
    <3>1. ids[m] \in keep
      BY <1>2, <2>5
    <3>2. PICK k \in 1..Len(kept) : e[k] = m
      BY <1>4, <3>1 DEF Embeds
    <3> QED
      BY <2>1, <3>2
  <2> QED
    BY <2>1, <2>4, <2>5
<1>9. r \in Seq(Active) /\ DOMAIN r = 1..Len(kept)
  <2>1. \A k \in 1..Len(kept) : next[kept[k]] \in Active
    BY <1>8, ElementOfSeq
  <2> QED
    BY <1>5, <1>7, <2>1
<1>10. \A k \in 1..Len(kept) : r[k] = next[kept[k]]
  BY <1>5, <1>7
<1>11. ASSUME NEW v \in Range(next) PROVE v \in Range(r)
  <2> DEFINE Places == {i \in 1..Len(next) : next[i] = v}
  <2>1. Places # {} /\ Places \in SUBSET Nat
    BY <1>1 DEF Range
  <2>2. PICK m \in Places : \A i \in Places : m <= i
    BY <2>1, LeastExists
  <2>3. m > 1 => m - 1 \in 1..Len(next) /\ ~(m <= m - 1)
    BY <1>1
  <2>4. m > 1 => next[m - 1] # v
    BY <2>2, <2>3
  <2>5. m \in keep
    BY <1>1, <2>2, <2>4
  <2>6. PICK k \in 1..Len(kept) : kept[k] = m
    BY <1>8, <2>2, <2>5
  <2> QED
    BY <1>9, <1>10, <2>2, <2>6 DEF Range
<1>12. ASSUME NEW v \in Range(r) PROVE v \in Range(next)
  BY <1>1, <1>8, <1>9, <1>10 DEF Range
<1>13. ASSUME NEW trunk, OneToken(trunk, next) PROVE OneToken(trunk, r)
  <2>1. ASSUME NEW i \in 1..Len(kept), NEW j \in 1..Len(kept), i # j
        PROVE  /\ kept[i] \in DOMAIN next /\ kept[j] \in DOMAIN next /\ kept[i] # kept[j]
               /\ r[i] = next[kept[i]] /\ r[j] = next[kept[j]]
    BY <1>1, <1>8, <1>10, <2>1
  <2>2. ASSUME NEW i \in 1..Len(kept), NEW j \in 1..Len(kept), i # j,
               r[i].node \in trunk, r[j].node \in trunk
        PROVE  /\ r[i].node = r[j].node /\ r[i].node \in Targets(graph)
               /\ r[i].branch # r[j].branch
    <3>1. /\ kept[i] \in DOMAIN next /\ kept[j] \in DOMAIN next /\ kept[i] # kept[j]
          /\ r[i] = next[kept[i]] /\ r[j] = next[kept[j]]
      BY <2>1, <2>2
    <3> QED
      BY <1>13, <2>2, <3>1 DEF OneToken
  <2> QED
    BY <1>9, <2>2 DEF OneToken
<1> HIDE DEF keep
<1> QED
  BY <1>6, <1>9, <1>11, <1>12, <1>13

\* The nodes that follow the accumulated ones.
Following(next, holds) == Dedup(ExpandCompletedFanIns(next, holds))

\* After the expansion and dedup_by the nodes are what the next ones expand to, with one
\* token on a trunk if there was one.
LEMMA FollowingIs ==
  ASSUME GraphOK, NEW next \in Seq(Active), NEW holds
  PROVE  /\ Following(next, holds) \in Seq(Active)
         /\ \A v : v \in Range(Following(next, holds)) <=>
                     \E u \in Range(next) : v \in Range(Piece(u, holds))
         /\ \A trunk : FanShaped(graph) /\ Trunk(graph, trunk) /\ OneToken(trunk, next) =>
                         OneToken(trunk, Following(next, holds))
<1>1. PICK e \in [0..Len(next) -> Seq(Active)] :
        Expands(e, next, holds, Len(next)) /\ ExpandCompletedFanIns(next, holds) = e[Len(next)]
  BY ExpansionUnfolds
<1>2. Len(next) \in Nat /\ Len(next) \in 0..Len(next) /\ DOMAIN next = 1..Len(next)
  OBVIOUS
<1>3. PICK s \in Seq(Active) : s = e[Len(next)]
  BY <1>2
<1>4. Following(next, holds) = Dedup(s)
  BY <1>1, <1>3 DEF Following
<1>5. \A k \in 0..Len(next) : \A v :
        v \in Range(e[k]) <=> \E i \in 1..k : v \in Range(Piece(next[i], holds))
  BY <1>1, ExpansionRange
<1>6. \A v : v \in Range(s) <=> \E u \in Range(next) : v \in Range(Piece(u, holds))
  <2>1. \A v : v \in Range(s) <=> \E i \in 1..Len(next) : v \in Range(Piece(next[i], holds))
    BY <1>2, <1>3, <1>5
  <2>2. \A u : u \in Range(next) <=> \E i \in 1..Len(next) : u = next[i]
    BY <1>2 DEF Range
  <2> QED
    BY <2>1, <2>2
<1>7. \A trunk : FanShaped(graph) /\ Trunk(graph, trunk) /\ OneToken(trunk, next) => OneToken(trunk, s)
  BY <1>1, <1>3, ExpansionToken
<1> QED
  BY <1>4, <1>6, <1>7, DedupIs

\* step(): where the execution ends up.
LEMMA StepIs ==
  ASSUME GraphOK, NEW x \in Execution, NEW os \in Seq(Output), NEW spent \in BOOLEAN,
         NEW a \in Accumulator, a = Accumulated(x, os),
         NEW y, y = Step(x, os, spent)
  PROVE  /\ y \in Execution
         /\ y.items = a.items /\ y.slots = a.slots /\ y.folded = a.folded
         /\ \/ y.status = "Failed" /\ y.nodes = x.nodes
            \/ y.status = "Completed" /\ y.nodes = <<>>
            \/ y.status \in {"Ready", "Waiting"} /\ y.nodes = Following(a.next, Holding(a.items))
<1>1. PICK next \in Seq(Active) : next = Following(a.next, Holding(a.items))
  BY FollowingIs DEF Accumulator
<1> DEFINE Ended(status, nodes) == [status |-> status, nodes |-> nodes, items |-> a.items,
                                    slots |-> a.slots, folded |-> a.folded]
<1>2. ASSUME NEW status \in {"Ready", "Waiting", "Completed", "Failed"}, NEW nodes \in Seq(Active)
      PROVE  Ended(status, nodes) \in Execution
  BY DEF Execution, Accumulator
<1>3. \/ y = Ended("Failed", x.nodes)
      \/ y = Ended("Completed", <<>>)
      \/ y = Ended("Waiting", next)
      \/ y = Ended("Ready", next)
  BY <1>1 DEF Step, Following
<1>4. x.nodes \in Seq(Active) /\ <<>> \in Seq(Active)
  BY DEF Execution
<1>5. CASE y = Ended("Failed", x.nodes)
  BY <1>2, <1>4, <1>5
<1>6. CASE y = Ended("Completed", <<>>)
  <2>1. Ended("Completed", <<>>) \in Execution
    BY <1>2, <1>4
  <2> QED
    BY <1>6, <2>1
<1>7. CASE y = Ended("Waiting", next)
  BY <1>1, <1>2, <1>7
<1>8. CASE y = Ended("Ready", next)
  BY <1>1, <1>2, <1>8
<1> QED
  BY <1>3, <1>5, <1>6, <1>7, <1>8

-----------------------------------------------------------------------------
(* Branches carry their index *)

\* Only targets carry a branch; where only FanOuts lead to them, all of them do.
Marked(nodes) ==
  \A active \in Range(nodes) :
    /\ active.branch # NoBranch => active.node \in Targets(graph)
    /\ Branched(graph) /\ active.node \in Targets(graph) => active.branch # NoBranch

\* Edges lead to nodes without a branch.
LEMMA SuccessorsMarked ==
  ASSUME GraphOK, NEW n, NEW holds
  PROVE  Marked(Successors(n, holds))
<1>1. SUFFICES ASSUME NEW active \in Range(Successors(n, holds))
               PROVE  active.branch = NoBranch /\ (Branched(graph) => active.node \notin Targets(graph))
  BY DEF Marked
<1>2. PICK edge \in EdgesOf(graph) : active = Plain(edge.to)
  BY SuccessorsRange
<1> QED
  BY <1>2 DEF Plain, Branched

\* A FanIn is pushed without a branch, and is no target in a graph that is branched.
LEMMA FanInMarked ==
  ASSUME GraphOK, NEW n, NEW f \in FanInConsuming(n)
  PROVE  Marked(<<Plain(f)>>)
<1>1. Branched(graph) => f \notin Targets(graph)
  BY ConsumerFacts DEF Branched
<1> QED
  BY <1>1 DEF Marked, Range, Plain

\* Two marked lists, one after the other, are marked.
LEMMA MarkedConcat ==
  ASSUME NEW s \in Seq(Active), NEW t \in Seq(Active), Marked(s), Marked(t)
  PROVE  Marked(s \o t)
BY RangeConcat DEF Marked

\* Each output keeps the next nodes marked, and with an index nothing panics.
LEMMA MarkedStep ==
  ASSUME GraphOK, NEW a \in Accumulator, NEW o \in Output, Marked(a.next),
         Branched(graph) /\ o.active.node \in Targets(graph) => o.active.branch # NoBranch,
         graph.kind[o.active.node] # "Task" => o.result = Null,
         NEW b, b = OneOutput(a, o)
  PROVE  Marked(b.next) /\ (Branched(graph) => b.panic = a.panic)
<1>0. a.next \in Seq(Active) /\ a.items \in Nat
  BY DEF Accumulator
<1>1. Branched(graph) => b.panic = a.panic
  BY OutputFlags
<1>2. CASE graph.kind[o.active.node] = "FanOut"
  <2> DEFINE target == graph.target[o.active.node]
  <2>1. /\ b.next = a.next \o Branches(target, a.items)
        /\ target \in Targets(graph) /\ target \in NodesOf(graph)
    BY <1>2, FanOutOutput
  <2> HIDE DEF target
  <2>2. PICK t \in Seq(Active) : /\ t = Branches(target, a.items) /\ Len(t) = a.items
                                 /\ \A i \in 1..a.items : t[i] = [node |-> target, branch |-> i - 1]
    BY <1>0, <2>1, BranchesType
  <2>3. ASSUME NEW i \in DOMAIN t PROVE t[i].node = target /\ t[i].branch # NoBranch
    <3>1. i \in 1..a.items
      BY <2>2
    <3>2. t[i] = [node |-> target, branch |-> i - 1]
      BY <2>2, <3>1
    <3> QED
      BY <1>0, <3>1, <3>2 DEF NoBranch
  <2>4. Marked(t)
    BY <2>1, <2>3 DEF Marked, Range
  <2>5. Marked(a.next \o t)
    BY <1>0, <2>4, MarkedConcat
  <2> QED
    BY <1>1, <2>1, <2>2, <2>5
<1>3. CASE graph.kind[o.active.node] # "FanOut" /\ ~Reports(o)
  <2>1. b.next = IF o.result = Error THEN a.next
                 ELSE a.next \o Successors(o.active.node, Holding(b.items))
    BY <1>3, EdgesOutput
  <2>2. PICK t \in Seq(Active) : t = Successors(o.active.node, Holding(b.items)) /\ Marked(t)
    BY SuccessorsType, SuccessorsMarked
  <2>3. Marked(a.next \o t)
    BY <1>0, <2>2, MarkedConcat
  <2> QED
    BY <1>1, <2>1, <2>2, <2>3
<1>4. CASE graph.kind[o.active.node] # "FanOut" /\ Reports(o)
  <2>1. PICK f \in FanIns : FanInConsuming(o.active.node) = {f}
    BY <1>4, ConsumingOne DEF Reports
  <2>2. b.next = a.next \/ b.next = Append(a.next, Plain(f))
    <3>1. Delivering(a, o, f, b)
      BY <1>4, <2>1 DEF Delivering
    <3> QED
      BY ONLY <3>1, ReportNext
  <2>3. Plain(f) \in Active
    BY DEF Plain, Active, NoBranch, FanIns, OfKind
  <2>4. Append(a.next, Plain(f)) = a.next \o <<Plain(f)>> /\ <<Plain(f)>> \in Seq(Active)
    BY <1>0, <2>3, RangeAppend
  <2>5. Marked(<<Plain(f)>>)
    BY <2>1, FanInMarked
  <2>6. Marked(a.next \o <<Plain(f)>>)
    BY <1>0, <2>4, <2>5, MarkedConcat
  <2> QED
    BY <1>1, <2>2, <2>4, <2>6
<1> QED
  BY <1>2, <1>3, <1>4

\* So does the whole super-step.
LEMMA AccumulatedMarked ==
  ASSUME GraphOK, NEW x \in Execution, Marked(x.nodes), NEW os \in Seq(Output), Marked(Ran(os)),
         \A j \in DOMAIN os : graph.kind[os[j].active.node] # "Task" => os[j].result = Null
  PROVE  /\ Accumulated(x, os) \in Accumulator
         /\ Marked(Accumulated(x, os).next)
         /\ Branched(graph) => ~Accumulated(x, os).panic
<1>0. Len(os) \in Nat
  OBVIOUS
<1>1. PICK a \in [0..Len(os) -> Accumulator] :
        Accumulates(a, x, os, Len(os)) /\ Accumulated(x, os) = a[Len(os)]
  BY AccumulatedUnfolds
<1> DEFINE P == {k \in 0..Len(os) : Marked(a[k].next) /\ (Branched(graph) => ~a[k].panic)}
<1>2. 0 \in P
  <2>1. a[0] = Start(x, os)
    BY <1>1 DEF Accumulates
  <2>2. Marked(<<>>)
    BY DEF Marked, Range
  <2>3. Marked(a[0].next) /\ ~a[0].panic
    BY <2>1, <2>2 DEF Start
  <2> QED
    BY <1>0, <2>3
<1>3. ASSUME NEW k \in 1..Len(os), k - 1 \in P
      PROVE  k \in P
  <2>1. a[k] = OneOutput(a[k - 1], os[k]) /\ a[k - 1] \in Accumulator /\ os[k] \in Output
    BY <1>1, ElementOfSeq DEF Accumulates
  <2>2. Branched(graph) /\ os[k].active.node \in Targets(graph) => os[k].active.branch # NoBranch
    <3>1. os[k].active \in Range(Ran(os))
      BY DEF Ran, Range
    <3> QED
      BY <3>1 DEF Marked
  <2>3. Marked(a[k].next) /\ (Branched(graph) => a[k].panic = a[k - 1].panic)
    BY <1>3, <2>1, <2>2, MarkedStep
  <2> QED
    BY <1>3, <2>3
<1> HIDE DEF P
<1>4. \A k \in 0..Len(os) : k \in P
  BY <1>0, <1>2, <1>3, PrefixInduction
<1> QED
  BY <1>0, <1>1, <1>4 DEF P

\* The expansion and dedup_by keep the marks.
LEMMA FollowingMarked ==
  ASSUME GraphOK, NEW next \in Seq(Active), NEW holds, Marked(next)
  PROVE  Marked(Following(next, holds))
<1>1. SUFFICES ASSUME NEW v \in Range(Following(next, holds))
               PROVE  /\ v.branch # NoBranch => v.node \in Targets(graph)
                      /\ Branched(graph) /\ v.node \in Targets(graph) => v.branch # NoBranch
  BY DEF Marked
<1>2. PICK u \in Range(next) : v \in Range(Piece(u, holds))
  BY FollowingIs
<1>3. CASE graph.kind[u.node] = "FanIn"
  BY <1>2, <1>3, SuccessorsMarked DEF Piece, Marked
<1>4. CASE graph.kind[u.node] # "FanIn"
  BY <1>2, <1>4 DEF Piece, Marked, Range
<1> QED
  BY <1>3, <1>4

-----------------------------------------------------------------------------
(* The tick *)

\* The outputs so far are those of active nodes, one each.
OutsOK ==
  /\ outs \in Seq(Output)
  /\ \A i \in DOMAIN outs :
       /\ outs[i].at \in DOMAIN exec.nodes
       /\ outs[i].active = exec.nodes[outs[i].at]
       /\ graph.kind[outs[i].active.node] # "Task" => outs[i].result = Null
  /\ \A i, j \in DOMAIN outs : outs[i].at = outs[j].at => i = j
  /\ outs # <<>> => exec.status = "Ready"

\* What an execution's checkpoint keeps from one super-step to the next.
Standing(x) ==
  /\ Marked(x.nodes)
  /\ FanShaped(graph) => \A trunk : Trunk(graph, trunk) => OneToken(trunk, x.nodes)
  /\ FanShaped(graph) /\ x.status \in {"Ready", "Waiting"} => BarriersOpen(x.nodes, x.slots)

\* The inductive invariant.
GraphInv == graph \in Graphs /\ exec \in Execution /\ OutsOK /\ Standing(exec)

\* The graphs that are run passed validate().
LEMMA GraphIsOK ==
  ASSUME graph \in Graphs
  PROVE  GraphOK
BY GraphStepAssumption DEF GraphOK

\* The outputs are of marked nodes.
LEMMA RanMarked ==
  ASSUME GraphInv
  PROVE  Marked(Ran(outs))
<1>1. ASSUME NEW i \in DOMAIN outs PROVE outs[i].active \in Range(exec.nodes)
  BY DEF GraphInv, OutsOK, Range
<1>2. \A active \in Range(Ran(outs)) : active \in Range(exec.nodes)
  BY <1>1 DEF Ran, Range
<1> QED
  BY <1>2 DEF GraphInv, Standing, Marked

\* The outputs that are in, in whatever order p, are a super-step's.
LEMMA AnyOrderCollected ==
  ASSUME GraphInv, AllIn, FanShaped(graph), NEW os \in Seq(Output), os = <<>> => exec.nodes = <<>>,
         NEW p \in [DOMAIN os -> DOMAIN outs], \A i, j \in DOMAIN os : p[i] = p[j] => i = j,
         \A i \in DOMAIN os : os[i] = outs[p[i]]
  PROVE  Collected(exec, os)
<1>1. DOMAIN Ran(os) = DOMAIN os
  BY DEF Ran
<1>2. ASSUME NEW i \in DOMAIN os
      PROVE  /\ outs[p[i]].at \in DOMAIN exec.nodes
             /\ Ran(os)[i] = exec.nodes[outs[p[i]].at]
             /\ graph.kind[os[i].active.node] # "Task" => os[i].result = Null
  BY DEF GraphInv, OutsOK, Ran
<1>3. \A i, j \in DOMAIN os : i # j => outs[p[i]].at # outs[p[j]].at
  BY DEF GraphInv, OutsOK
<1>4. BarriersOpen(exec.nodes, exec.slots)
  BY DEF GraphInv, Standing, AllIn, Runnable
<1>5. BarriersOpen(Ran(os), exec.slots)
  BY <1>1, <1>2, <1>4 DEF BarriersOpen
<1>6. ASSUME NEW trunk, Trunk(graph, trunk) PROVE OneToken(trunk, Ran(os))
  <2>1. OneToken(trunk, exec.nodes)
    BY <1>6 DEF GraphInv, Standing
  <2> QED
    BY <1>1, <1>2, <1>3, <2>1 DEF OneToken
<1> QED
  BY <1>2, <1>5, <1>6 DEF Collected

\* Once all outputs are in they are as the fold expects them.
LEMMA OutsCollected ==
  ASSUME GraphInv, AllIn, FanShaped(graph)
  PROVE  Collected(exec, outs)
<1>1. outs \in Seq(Output) /\ exec.nodes \in Seq(Active)
  BY DEF GraphInv, OutsOK, Execution
<1>2. outs = <<>> => exec.nodes = <<>>
  BY <1>1 DEF AllIn
<1>3. PICK p \in [DOMAIN outs -> DOMAIN outs] : \A i \in DOMAIN outs : p[i] = i
  <2>1. [i \in DOMAIN outs |-> i] \in [DOMAIN outs -> DOMAIN outs]
    OBVIOUS
  <2> QED
    BY <2>1
<1> QED
  BY <1>1, <1>2, <1>3, AnyOrderCollected

\* A target among the next nodes is a branch of a barrier that was just opened.
LEMMA NextTargets ==
  ASSUME GraphOK, FanShaped(graph), NEW x \in Execution, NEW os, Collected(x, os), NEW holds,
         NEW a \in Accumulator, PrefixIs(x, os, holds, Len(os), a),
         NEW active \in Range(a.next), active.node \in Targets(graph)
  PROVE  /\ active.branch # NoBranch
         /\ \A f \in FanInConsuming(active.node) :
              /\ active.branch < Len(a.slots[f])
              /\ \A k \in 1..Len(a.slots[f]) : a.slots[f][k] = Null
<1>0. Branched(graph) /\ active \in Active
  <2>1. a.next \in Seq(Active)
    BY DEF Accumulator
  <2>2. active \in Active
    BY <2>1, ElementOfSeq DEF Range
  <2> QED
    BY <2>2 DEF FanShaped
<1>1. \/ \E j \in 1..Len(os) : Sends(os[j], a.slots, holds[j], active)
      \/ \E f \in FanIns : active = Plain(f) /\ Joined(os, Len(os), a.slots, f)
  BY <1>0 DEF PrefixIs, NextIs
<1>2. \A f \in FanIns : active # Plain(f)
  BY TargetKind DEF Plain, FanIns, OfKind
<1>3. PICK j \in 1..Len(os) : Sends(os[j], a.slots, holds[j], active)
  BY <1>1, <1>2
<1>4. CASE /\ graph.kind[os[j].active.node] = "FanOut"
           /\ active.node = graph.target[os[j].active.node]
           /\ active.branch # NoBranch
           /\ \E f \in FanInConsuming(active.node) : active.branch < Len(a.slots[f])
  <2>1. PICK f \in FanIns : FanInConsuming(active.node) = {f}
    BY <1>0, TargetFacts
  <2>2. Opens(os[j], f)
    BY <1>4, <2>1 DEF Opens
  <2>3. BarrierIs(x, os, Len(os), a.slots, f)
    BY <2>1 DEF PrefixIs
  <2>4. \A k \in 1..Len(a.slots[f]) : a.slots[f][k] = Null
    BY <2>2, <2>3 DEF BarrierIs
  <2> QED
    BY <1>4, <2>1, <2>4
<1>5. CASE \E edge \in EdgesOf(graph) \cap holds[j] : active = Plain(edge.to)
  BY <1>0, <1>5 DEF Branched, Plain
<1> QED
  BY <1>3, <1>4, <1>5 DEF Sends

\* A super-step leaves the execution as a tick may find it.
LEMMA StepStands ==
  ASSUME GraphInv, AllIn, NEW spent \in BOOLEAN, NEW y, y = Step(exec, outs, spent)
  PROVE  y \in Execution /\ Standing(y)
<1>0. /\ GraphOK /\ exec \in Execution /\ exec.nodes \in Seq(Active) /\ Marked(exec.nodes)
      /\ outs \in Seq(Output)
  BY GraphIsOK DEF GraphInv, OutsOK, Standing, Execution
<1>1. PICK a : a = Accumulated(exec, outs)
  OBVIOUS
<1>2. a \in Accumulator /\ a.next \in Seq(Active) /\ Marked(a.next)
  <2>1. a \in Accumulator /\ Marked(a.next)
    BY <1>0, <1>1, RanMarked, AccumulatedMarked DEF GraphInv, OutsOK
  <2> QED
    BY <2>1 DEF Accumulator
<1>3. /\ y \in Execution
      /\ y.slots = a.slots
      /\ \/ y.status = "Failed" /\ y.nodes = exec.nodes
         \/ y.status = "Completed" /\ y.nodes = <<>>
         \/ y.status \in {"Ready", "Waiting"} /\ y.nodes = Following(a.next, Holding(a.items))
  BY <1>0, <1>1, <1>2, StepIs
<1>4. CASE y.status = "Failed" /\ y.nodes = exec.nodes
  BY <1>3, <1>4 DEF GraphInv, Standing
<1>5. CASE y.status = "Completed" /\ y.nodes = <<>>
  BY <1>3, <1>5 DEF Standing, Marked, Range, OneToken
<1>6. CASE y.status \in {"Ready", "Waiting"} /\ y.nodes = Following(a.next, Holding(a.items))
  <2>1. Marked(y.nodes)
    BY <1>0, <1>2, <1>6, FollowingMarked
  <2>2. ASSUME FanShaped(graph)
        PROVE  /\ \E holds : PrefixIs(exec, outs, holds, Len(outs), a)
               /\ Collected(exec, outs) /\ Branched(graph)
    BY <1>0, <1>1, <2>2, OutsCollected, AccumulatedIs DEF FanShaped
  <2>3. ASSUME FanShaped(graph), NEW trunk, Trunk(graph, trunk) PROVE OneToken(trunk, y.nodes)
    <3>1. OneToken(trunk, a.next)
      BY <2>2, <2>3 DEF PrefixIs
    <3> QED
      BY <1>0, <1>2, <1>6, <2>3, <3>1, FollowingIs
  <2>4. ASSUME FanShaped(graph), NEW i \in DOMAIN y.nodes
        PROVE  /\ y.nodes[i].node \notin FanIns
               /\ y.nodes[i].node \in Targets(graph) =>
                    /\ y.nodes[i].branch # NoBranch
                    /\ \A f \in FanInConsuming(y.nodes[i].node) :
                         /\ y.nodes[i].branch < Len(y.slots[f])
                         /\ \A k \in 1..Len(y.slots[f]) : y.slots[f][k] = Null
    <3>1. PICK v : v = y.nodes[i] /\ v \in Range(Following(a.next, Holding(a.items)))
      BY <1>6 DEF Range
    <3>2. PICK u \in Range(a.next) : v \in Range(Piece(u, Holding(a.items)))
      BY <1>0, <1>2, <3>1, FollowingIs
    <3>3. CASE graph.kind[u.node] = "FanIn"
      <4>1. PICK edge \in EdgesOf(graph) : edge.from = u.node /\ v = Plain(edge.to)
        BY <1>0, <3>2, <3>3, SuccessorsRange DEF Piece
      <4>2. u.node \notin Targets(graph)
        BY <2>4, <3>3, TargetKind
      <4>3. graph.kind[edge.to] # "FanIn" /\ edge.to \notin Targets(graph)
        BY <2>2, <2>4, <4>1, <4>2 DEF Branched
      <4> QED
        BY <3>1, <4>1, <4>3 DEF Plain, FanIns, OfKind
    <3>4. CASE graph.kind[u.node] # "FanIn"
      <4>1. v = u
        BY <3>2, <3>4 DEF Piece, Range
      <4>2. v.node \notin FanIns
        BY <3>4, <4>1 DEF FanIns, OfKind
      <4>3. v.node \in Targets(graph) =>
               /\ v.branch # NoBranch
               /\ \A f \in FanInConsuming(v.node) :
                    /\ v.branch < Len(a.slots[f])
                    /\ \A k \in 1..Len(a.slots[f]) : a.slots[f][k] = Null
        BY <1>0, <1>2, <2>2, <2>4, <4>1, NextTargets
      <4> QED
        BY <1>3, <3>1, <4>2, <4>3
    <3> QED
      BY <3>3, <3>4
  <2>5. FanShaped(graph) => BarriersOpen(y.nodes, y.slots)
    BY <2>4 DEF BarriersOpen
  <2> QED
    BY <1>3, <2>1, <2>3, <2>5 DEF Standing
<1> QED
  BY <1>3, <1>4, <1>5, <1>6

\* The invariant holds at the start of an execution.
LEMMA GraphInvInit == GraphInit => GraphInv
<1> SUFFICES ASSUME GraphInit PROVE GraphInv
  OBVIOUS
<1>0. graph \in Graphs /\ GraphOK
  BY GraphIsOK DEF GraphInit
<1>1. PICK n \in Inputs :
        exec = [status |-> "Ready", nodes |-> <<Plain(graph.entry)>>, items |-> n,
                slots |-> [f \in FanIns |-> <<>>], folded |-> [f \in FanIns |-> <<>>]]
  BY DEF GraphInit
<1>2. n \in Nat
  BY GraphStepAssumption
<1>3. Plain(graph.entry) \in Active
  BY <1>0 DEF Plain, Active, NoBranch, GraphOK, Valid
<1>4. <<Plain(graph.entry)>> \in Seq(Active) /\ [f \in FanIns |-> <<>>] \in Barriers
  BY <1>3 DEF Barriers
<1>5. exec \in Execution /\ exec.nodes = <<Plain(graph.entry)>>
  BY <1>1, <1>2, <1>4 DEF Execution
<1>6. OutsOK
  BY DEF GraphInit, OutsOK
<1>7. \A i \in DOMAIN exec.nodes : i = 1 /\ exec.nodes[i] = Plain(graph.entry)
  BY <1>5
<1>8. Marked(exec.nodes)
  BY <1>7 DEF Marked, Range, Plain, Branched
<1>9. \A trunk : OneToken(trunk, exec.nodes)
  BY <1>7 DEF OneToken
<1>10. FanShaped(graph) => BarriersOpen(exec.nodes, exec.slots)
  BY <1>7 DEF BarriersOpen, FanShaped, Branched, Plain, FanIns, OfKind
<1> QED
  BY <1>0, <1>5, <1>6, <1>8, <1>9, <1>10 DEF GraphInv, Standing

\* What holds of the next execution holds in the next state.
LEMMA StandingFrame ==
  ASSUME NEW y, UNCHANGED graph, exec' = y, y \in Execution, Standing(y)
  PROVE  (exec \in Execution /\ Standing(exec))'
<1>1. (exec \in Execution)'
  BY DEF Execution, Active, Barriers, FanIns
<1>2. Marked(exec.nodes)'
  BY DEF Standing, Marked
<1>3. (FanShaped(graph) => \A trunk : Trunk(graph, trunk) => OneToken(trunk, exec.nodes))'
  BY DEF Standing, OneToken
<1>4. (FanShaped(graph) /\ exec.status \in {"Ready", "Waiting"} => BarriersOpen(exec.nodes, exec.slots))'
  BY DEF Standing, BarriersOpen, FanIns, FanInConsuming
<1> QED
  BY <1>1, <1>2, <1>3, <1>4 DEF Standing

\* Every step of the tick keeps the invariant.
LEMMA GraphInvNext == GraphInv /\ [GraphNext]_graphVars => GraphInv'
<1> SUFFICES ASSUME GraphInv, [GraphNext]_graphVars PROVE GraphInv'
  OBVIOUS
<1>0. GraphOK /\ exec.nodes \in Seq(Active) /\ outs \in Seq(Output)
  BY GraphIsOK DEF GraphInv, Execution, OutsOK
<1>1. ASSUME UNCHANGED <<graph, exec>> PROVE (graph \in Graphs /\ exec \in Execution /\ Standing(exec))'
  <2>1. PICK y : y = exec
    OBVIOUS
  <2>2. (exec \in Execution /\ Standing(exec))'
    BY <1>1, <2>1, StandingFrame DEF GraphInv
  <2> QED
    BY <1>1, <2>2 DEF GraphInv
<1>2. ASSUME UNCHANGED graph, outs' = <<>> PROVE OutsOK'
  BY <1>2 DEF OutsOK
<1>3. CASE CompleteSome
  <2>1. PICK i \in DOMAIN exec.nodes, r \in Results \cup {Null} : Complete(i, r)
    BY <1>3 DEF CompleteSome
  <2>2. UNCHANGED <<graph, exec, lost>> /\ exec.status = "Ready"
    BY <2>1 DEF Complete, Runnable
  <2> DEFINE new == [at |-> i, active |-> exec.nodes[i], result |-> r]
  <2>3. new \in Output
    <3>1. exec.nodes[i] \in Active /\ i \in Nat
      BY <1>0, ElementOfSeq
    <3>2. r \in Nat \cup {Error, Null}
      BY GraphStepAssumption
    <3> QED
      BY <3>1, <3>2 DEF Output
  <2>4. outs' = Append(outs, new)
    BY <2>1 DEF Complete
  <2> HIDE DEF new
  <2>5. /\ outs' \in Seq(Output) /\ Len(outs') = Len(outs) + 1 /\ Len(outs) \in Nat
        /\ outs'[Len(outs) + 1] = new
        /\ \A j \in 1..Len(outs) : outs'[j] = outs[j]
    BY <1>0, <2>3, <2>4
  <2>6. DOMAIN outs' = 1..Len(outs) + 1 /\ DOMAIN outs = 1..Len(outs)
    BY <1>0, <2>5
  <2>7. \A j \in DOMAIN outs' : (j \in DOMAIN outs /\ outs'[j] = outs[j]) \/ (j = Len(outs) + 1 /\ outs'[j] = new)
    <3>1. \A j \in 1..Len(outs) + 1 : j \in 1..Len(outs) \/ j = Len(outs) + 1
      BY <2>5
    <3>2. ASSUME NEW j \in DOMAIN outs'
          PROVE  (j \in DOMAIN outs /\ outs'[j] = outs[j]) \/ (j = Len(outs) + 1 /\ outs'[j] = new)
      <4>1. CASE j \in 1..Len(outs)
        BY <2>5, <2>6, <4>1
      <4>2. CASE j = Len(outs) + 1
        BY <2>5, <4>2
      <4> QED
        BY <2>6, <3>1, <4>1, <4>2
    <3> QED
      BY <3>2
  <2>8. \A j \in DOMAIN outs' :
          /\ outs'[j].at \in DOMAIN exec.nodes
          /\ outs'[j].active = exec.nodes[outs'[j].at]
          /\ graph.kind[outs'[j].active.node] # "Task" => outs'[j].result = Null
    BY <2>1, <2>7 DEF GraphInv, OutsOK, Complete, new
  <2>9. \A j, k \in DOMAIN outs' : outs'[j].at = outs'[k].at => j = k
    BY <2>1, <2>7 DEF GraphInv, OutsOK, Complete, new
  <2>10. (outs \in Seq(Output))'
    BY <2>2, <2>5 DEF Output, Active
  <2>11. OutsOK'
    BY <2>2, <2>8, <2>9, <2>10 DEF OutsOK
  <2> QED
    BY <1>1, <2>2, <2>11 DEF GraphInv
<1>4. CASE StepCommit
  <2>1. PICK spent \in BOOLEAN : exec' = Step(exec, outs, spent)
    BY <1>4 DEF StepCommit
  <2>2. AllIn /\ UNCHANGED graph /\ outs' = <<>>
    BY <1>4 DEF StepCommit
  <2>3. PICK y : y = Step(exec, outs, spent)
    OBVIOUS
  <2>4. y \in Execution /\ Standing(y)
    BY <2>2, <2>3, StepStands
  <2>5. exec' = y
    BY <2>1, <2>3
  <2>6. (exec \in Execution /\ Standing(exec))'
    BY <2>2, <2>4, <2>5, StandingFrame
  <2>7. (graph \in Graphs)'
    BY <2>2 DEF GraphInv
  <2> QED
    BY <1>2, <2>2, <2>6, <2>7 DEF GraphInv
<1>5. CASE StepPanics
  BY <1>1, <1>2, <1>5 DEF StepPanics, GraphInv
<1>6. CASE Lost
  BY <1>1, <1>2, <1>6 DEF Lost, GraphInv
<1>7. CASE Wake
  <2>1. /\ UNCHANGED <<graph, outs, lost>> /\ exec.status = "Waiting"
        /\ exec' = [exec EXCEPT !.status = "Ready"]
    BY <1>7 DEF Wake
  <2>2. PICK y : y = [exec EXCEPT !.status = "Ready"]
    OBVIOUS
  <2>3. /\ y \in Execution /\ y.status = "Ready" /\ y.nodes = exec.nodes /\ y.slots = exec.slots
        /\ exec' = y
    BY <2>1, <2>2 DEF GraphInv, Execution
  <2>4. Standing(y)
    BY <2>1, <2>3 DEF GraphInv, Standing
  <2>5. (exec \in Execution /\ Standing(exec))'
    BY <2>1, <2>3, <2>4, StandingFrame
  <2>6. (graph \in Graphs)' /\ outs = <<>>
    BY <2>1 DEF GraphInv, OutsOK
  <2>7. OutsOK'
    BY <1>2, <2>1, <2>6
  <2> QED
    BY <2>5, <2>6, <2>7 DEF GraphInv
<1>8. CASE UNCHANGED graphVars
  <2>1. UNCHANGED <<graph, exec, outs>>
    BY <1>8 DEF graphVars
  <2>2. OutsOK'
    BY <2>1 DEF GraphInv, OutsOK, Output, Active
  <2> QED
    BY <1>1, <2>1, <2>2 DEF GraphInv
<1> QED
  BY <1>3, <1>4, <1>5, <1>6, <1>7, <1>8 DEF GraphNext

\* The invariant holds in every reachable state.
THEOREM GraphStands == GraphSpec => []GraphInv
BY GraphInvInit, GraphInvNext, PTL DEF GraphSpec

\* Every execution's nodes are of its graph, and only a FanOut's target carries a branch.
THEOREM GraphTypes == GraphSpec => []GraphTypeOK
<1>1. ASSUME GraphInv PROVE GraphTypeOK
  <2>1. GraphOK /\ exec.nodes \in Seq(Active) /\ exec.items \in Nat
        /\ exec.status \in {"Ready", "Waiting", "Completed", "Failed"}
    BY <1>1, GraphIsOK DEF GraphInv, Execution
  <2>2. \A active \in Range(exec.nodes) : active.node \in NodesOf(graph)
    <3>1. \A active \in Range(exec.nodes) : active \in Active
      BY <2>1, ElementOfSeq DEF Range
    <3> QED
      BY <3>1 DEF Active
  <2> QED
    BY <1>1, <2>1, <2>2 DEF GraphTypeOK, GraphOK, GraphInv, OutsOK, Standing, Marked
<1> QED
  BY <1>1, GraphStands, PTL

\* step() never meets a branch result without a branch index.
THEOREM BranchesCarryTheirIndex == GraphSpec => []NeverPanics
<1>1. ASSUME GraphInv PROVE NeverPanics
  <2>1. SUFFICES ASSUME Branched(graph) PROVE ~Accumulated(exec, outs).panic
    BY DEF NeverPanics, Panics
  <2>2. /\ GraphOK /\ exec \in Execution /\ Marked(exec.nodes) /\ outs \in Seq(Output)
        /\ \A j \in DOMAIN outs : graph.kind[outs[j].active.node] # "Task" => outs[j].result = Null
    BY <1>1, GraphIsOK DEF GraphInv, Standing, OutsOK
  <2> QED
    BY <1>1, <2>1, <2>2, RanMarked, AccumulatedMarked
<1> QED
  BY <1>1, GraphStands, PTL

-----------------------------------------------------------------------------
(* The joins *)

\* A barrier that joined holds one result of each branch, at the branch's place.
LEMMA JoinedIsByBranch ==
  ASSUME GraphInv, AllIn, FanShaped(graph), NEW slots \in Barriers, NEW f \in FanIns,
         BarrierIs(exec, outs, Len(outs), slots, f), Joined(outs, Len(outs), slots, f)
  PROVE  slots[f] = ByBranch(f) /\ slots[f] # <<>>
<1>0. /\ GraphOK /\ Branched(graph) /\ Collected(exec, outs) /\ exec.slots \in Barriers
      /\ outs \in Seq(Output) /\ DOMAIN outs = 1..Len(outs)
  BY GraphIsOK, OutsCollected DEF GraphInv, OutsOK, Execution, FanShaped
<1>1. PICK k \in 1..Len(outs) : Tells(outs[k], f)
  BY DEF Joined
<1>2. \A j \in 1..Len(outs) : ~Opens(outs[j], f)
  BY <1>0, <1>1, Apart
<1>3. /\ Len(slots[f]) = Len(exec.slots[f])
      /\ \A j \in 1..Len(outs) : Tells(outs[j], f) => slots[f][outs[j].active.branch + 1] = outs[j].result
      /\ \A i \in 1..Len(slots[f]) :
           (\A j \in 1..Len(outs) : Tells(outs[j], f) => outs[j].active.branch + 1 # i) =>
             slots[f][i] = exec.slots[f][i]
  BY <1>2 DEF BarrierIs
<1>4. ASSUME NEW j \in 1..Len(outs), f \in FanInConsuming(outs[j].active.node)
      PROVE  /\ outs[j].active.node \in Targets(graph)
             /\ outs[j].active.branch \in Nat /\ outs[j].active.branch < Len(exec.slots[f])
             /\ \A i \in 1..Len(exec.slots[f]) : exec.slots[f][i] = Null
  <2>1. outs[j].active.node \in Targets(graph)
    BY <1>0, <1>4, ConsumerFacts
  <2>2. j \in DOMAIN Ran(outs) /\ Ran(outs)[j] = outs[j].active
    BY <1>0 DEF Ran
  <2>3. outs[j].active.branch \in Nat \cup {NoBranch}
    <3>1. outs[j] \in Output
      BY <1>0, ElementOfSeq
    <3> QED
      BY <3>1 DEF Output, Active
  <2> QED
    BY <1>0, <1>4, <2>1, <2>2, <2>3 DEF Collected, BarriersOpen
<1>5. slots[f] \in Seq(Int) /\ exec.slots[f] \in Seq(Int)
  BY <1>0 DEF Barriers
<1>6. \A i \in 1..Len(slots[f]) : slots[f][i] # Null
  BY DEF Joined
<1>7. f \in FanInConsuming(outs[k].active.node)
  BY <1>1 DEF Tells
<1>8. slots[f] # <<>>
  <2>1. outs[k].active.branch \in Nat /\ outs[k].active.branch < Len(slots[f])
    BY <1>3, <1>4, <1>7
  <2>2. Len(slots[f]) # 0
    BY <1>5, <2>1
  <2> QED
    BY <2>2
<1>9. ASSUME NEW i \in 1..Len(slots[f])
      PROVE  slots[f][i] = (CHOOSE o \in Range(outs) :
                              o.active.branch = i - 1 /\ f \in FanInConsuming(o.active.node)).result
  <2>1. i \in 1..Len(exec.slots[f])
    BY <1>3
  <2>2. exec.slots[f][i] = Null
    BY <1>4, <1>7, <2>1
  <2>3. PICK j \in 1..Len(outs) : Tells(outs[j], f) /\ outs[j].active.branch + 1 = i
    BY <1>3, <1>6, <2>2
  <2>4. f \in FanInConsuming(outs[j].active.node) /\ outs[j].active.branch \in Nat
    BY <1>4, <2>3 DEF Tells
  <2>5. outs[j].active.branch = i - 1 /\ outs[j] \in Range(outs)
    BY <1>0, <2>3, <2>4 DEF Range
  <2>6. ASSUME NEW o \in Range(outs), o.active.branch = i - 1, f \in FanInConsuming(o.active.node)
        PROVE  o = outs[j]
    <3>1. PICK m \in 1..Len(outs) : o = outs[m]
      BY <1>0 DEF Range
    <3>2. outs[m].active.node = outs[j].active.node
      BY <1>0, <2>4, <2>6, <3>1, OneFeeder
    <3>3. outs[j].active.node \in Targets(graph)
      BY <1>4, <2>4
    <3>4. PICK trunk : Trunk(graph, trunk) /\ outs[j].active.node \in trunk
      BY <3>3, TrunkExists
    <3>5. OneToken(trunk, Ran(outs))
      BY <1>0, <3>4 DEF Collected
    <3>6. /\ j \in DOMAIN Ran(outs) /\ m \in DOMAIN Ran(outs)
          /\ Ran(outs)[j] = outs[j].active /\ Ran(outs)[m] = outs[m].active
      BY <1>0 DEF Ran
    <3>7. j = m
      BY <2>5, <2>6, <3>1, <3>2, <3>4, <3>5, <3>6 DEF OneToken
    <3> QED
      BY <3>1, <3>7
  <2>7. (CHOOSE o \in Range(outs) :
           o.active.branch = i - 1 /\ f \in FanInConsuming(o.active.node)) = outs[j]
    BY <2>4, <2>5, <2>6
  <2> QED
    BY <1>3, <2>3, <2>7
<1>10. PICK r : r = ByBranch(f)
  OBVIOUS
<1>11. r = [i \in 1..Len(slots[f]) |->
              (CHOOSE o \in Range(outs) :
                 o.active.branch = i - 1 /\ f \in FanInConsuming(o.active.node)).result]
  BY <1>3, <1>10 DEF ByBranch
<1>12. slots[f] = r
  <2>1. DOMAIN slots[f] = 1..Len(slots[f]) /\ slots[f] = [i \in DOMAIN slots[f] |-> slots[f][i]]
    BY <1>5
  <2> QED
    BY <1>9, <1>11, <2>1
<1> QED
  BY <1>8, <1>10, <1>12

\* A node behind a FanIn follows only when its barrier joined.
LEMMA BehindAJoin ==
  ASSUME GraphOK, FanShaped(graph), NEW x \in Execution, NEW os, Collected(x, os), NEW holds,
         NEW a \in Accumulator, PrefixIs(x, os, holds, Len(os), a), NEW f \in FanIns,
         NEW v \in Range(Following(a.next, Holding(a.items))), v.node \in Behind(f)
  PROVE  Joined(os, Len(os), a.slots, f)
<1>0. /\ Branched(graph) /\ a.next \in Seq(Active) /\ os \in Seq(Output) /\ DOMAIN os = 1..Len(os)
      /\ graph.kind[f] = "FanIn"
  BY DEF FanShaped, Accumulator, Collected, FanIns, OfKind
<1>1. PICK u \in Range(a.next) : v \in Range(Piece(u, Holding(a.items)))
  BY <1>0, FollowingIs
<1>2. u \in Active
  BY <1>0, ElementOfSeq DEF Range
<1>3. \/ \E j \in 1..Len(os) : Sends(os[j], a.slots, holds[j], u)
      \/ \E g \in FanIns : u = Plain(g) /\ Joined(os, Len(os), a.slots, g)
  BY <1>2 DEF PrefixIs, NextIs
<1>4. /\ \A edge \in EdgesOf(graph) : edge.to = v.node => edge.from = f
      /\ \E edge \in EdgesOf(graph) : edge.to = v.node /\ edge.from = f
  <2>1. {edge.from : edge \in {d \in EdgesOf(graph) : d.to = v.node}} = {f}
    BY DEF Behind
  <2> QED
    BY <2>1
<1>5. v.node \notin Targets(graph)
  BY <1>0, <1>4 DEF Branched
<1>6. \A j \in 1..Len(os) : os[j].active.node # f
  <2>1. ASSUME NEW j \in 1..Len(os) PROVE os[j].active.node \notin FanIns
    <3>1. j \in DOMAIN Ran(os) /\ Ran(os)[j] = os[j].active
      BY <1>0 DEF Ran
    <3> QED
      BY <3>1 DEF Collected, BarriersOpen
  <2> QED
    BY <2>1
<1>7. CASE graph.kind[u.node] = "FanIn"
  <2>1. PICK edge \in EdgesOf(graph) : edge.from = u.node /\ v = Plain(edge.to)
    BY <1>1, <1>7, SuccessorsRange DEF Piece
  <2>2. u.node = f
    BY <1>4, <2>1 DEF Plain
  <2>3. ASSUME NEW j \in 1..Len(os), Sends(os[j], a.slots, holds[j], u) PROVE FALSE
    <3>1. CASE graph.kind[os[j].active.node] = "FanOut" /\ u.node = graph.target[os[j].active.node]
      <4>1. os[j] \in Output
        BY <1>0, ElementOfSeq
      <4>2. u.node \in Targets(graph)
        BY <3>1, <4>1, OpenerFacts
      <4> QED
        BY <1>7, <4>2, TargetKind
    <3>2. CASE /\ ~Reports(os[j]) /\ os[j].result # Error
               /\ \E e \in EdgesOf(graph) \cap holds[j] : e.from = os[j].active.node /\ u = Plain(e.to)
      <4>1. PICK e \in EdgesOf(graph) : e.from = os[j].active.node /\ u = Plain(e.to)
        BY <3>2
      <4>2. os[j].active.node \in Targets(graph)
        BY <1>0, <1>7, <4>1 DEF Branched, Plain
      <4> QED
        BY <3>2, <4>2, TargetReports
    <3> QED
      BY <2>3, <3>1, <3>2 DEF Sends
  <2> QED
    BY <1>3, <2>2, <2>3 DEF Plain
<1>8. CASE graph.kind[u.node] # "FanIn"
  <2>1. v = u
    BY <1>1, <1>8 DEF Piece, Range
  <2>2. ASSUME NEW j \in 1..Len(os), Sends(os[j], a.slots, holds[j], u) PROVE FALSE
    <3>1. CASE graph.kind[os[j].active.node] = "FanOut" /\ u.node = graph.target[os[j].active.node]
      <4>1. os[j] \in Output
        BY <1>0, ElementOfSeq
      <4> QED
        BY <1>5, <2>1, <3>1, <4>1, OpenerFacts
    <3>2. CASE \E e \in EdgesOf(graph) \cap holds[j] : e.from = os[j].active.node /\ u = Plain(e.to)
      BY <1>4, <1>6, <2>1, <3>2 DEF Plain
    <3> QED
      BY <2>2, <3>1, <3>2 DEF Sends
  <2>3. \A g \in FanIns : u # Plain(g)
    BY <1>8 DEF Plain, FanIns, OfKind
  <2> QED
    BY <1>3, <2>2, <2>3
<1> QED
  BY <1>7, <1>8

\* The barrier folds exactly one result per branch the FanOut spawned, in branch order, and a
\* node behind the FanIn becomes active only in a super-step that folded them.
THEOREM JoinsAreWhole == GraphSpec => JoinsFoldEveryBranch
<1> DEFINE Folds(f) ==
      /\ exec'.folded[f] # exec.folded[f] => exec'.folded[f] = ByBranch(f)
      /\ \A active \in Range(exec'.nodes) \ Range(exec.nodes) :
           active.node \in Behind(f) =>
             exec'.slots[f] # <<>> /\ exec'.folded[f] = exec'.slots[f]
<1>1. ASSUME GraphInv, [GraphNext]_graphVars, exec' # exec, FanShaped(graph), NEW f \in FanIns
      PROVE  Folds(f)
  <2>1. CASE StepCommit
    <3>1. PICK spent \in BOOLEAN : exec' = Step(exec, outs, spent)
      BY <2>1 DEF StepCommit
    <3>2. AllIn /\ GraphOK /\ exec \in Execution /\ outs \in Seq(Output)
      BY <1>1, <2>1, GraphIsOK DEF StepCommit, GraphInv, OutsOK
    <3>3. Collected(exec, outs)
      BY <1>1, <3>2, OutsCollected
    <3>4. PICK a, holds : /\ a \in Accumulator /\ a = Accumulated(exec, outs)
                          /\ PrefixIs(exec, outs, holds, Len(outs), a)
      BY <1>1, <3>2, <3>3, AccumulatedIs
    <3>5. PICK y : y = Step(exec, outs, spent)
      OBVIOUS
    <3>6. /\ y.slots = a.slots /\ y.folded = a.folded
          /\ \/ y.nodes = exec.nodes
             \/ y.nodes = <<>>
             \/ y.nodes = Following(a.next, Holding(a.items))
      BY <3>2, <3>4, <3>5, StepIs
    <3>7. BarrierIs(exec, outs, Len(outs), a.slots, f) /\ FoldIs(exec, outs, Len(outs), a.slots, a.folded, f)
      BY <3>4 DEF PrefixIs
    <3>8. a.slots \in Barriers
      BY <3>4 DEF Accumulator
    <3>9. Joined(outs, Len(outs), a.slots, f) =>
            a.folded[f] = a.slots[f] /\ a.slots[f] = ByBranch(f) /\ a.slots[f] # <<>>
      BY <1>1, <3>2, <3>7, <3>8, JoinedIsByBranch DEF FoldIs
    <3>10. ~Joined(outs, Len(outs), a.slots, f) => a.folded[f] = exec.folded[f]
      BY <3>7 DEF FoldIs
    <3>11. ASSUME NEW active \in Range(y.nodes) \ Range(exec.nodes), active.node \in Behind(f)
           PROVE  Joined(outs, Len(outs), a.slots, f)
      <4>1. Range(<<>>) = {}
        BY DEF Range
      <4>2. active \in Range(Following(a.next, Holding(a.items)))
        BY <3>6, <3>11, <4>1
      <4> QED
        BY <1>1, <3>2, <3>3, <3>4, <3>11, <4>2, BehindAJoin
    <3>12. /\ y.folded[f] # exec.folded[f] => y.folded[f] = ByBranch(f)
           /\ \A active \in Range(y.nodes) \ Range(exec.nodes) :
                active.node \in Behind(f) => y.slots[f] # <<>> /\ y.folded[f] = y.slots[f]
      BY <3>6, <3>9, <3>10, <3>11
    <3>13. exec' = y
      BY <3>1, <3>5
    <3> QED
      BY <3>12, <3>13
  <2>2. CASE Wake
    <3>1. exec'.folded = exec.folded /\ exec'.nodes = exec.nodes
      BY <1>1, <2>2 DEF Wake, GraphInv, Execution
    <3> QED
      BY <3>1
  <2>3. CASE CompleteSome \/ StepPanics \/ Lost \/ UNCHANGED graphVars
    BY <1>1, <2>3 DEF CompleteSome, Complete, StepPanics, Lost, graphVars
  <2> QED
    BY <1>1, <2>1, <2>2, <2>3 DEF GraphNext
<1>2. GraphInv /\ [GraphNext]_graphVars =>
        [exec' # exec /\ FanShaped(graph) => \A f \in FanIns : Folds(f)]_graphVars
  BY <1>1
<1> QED
  BY <1>2, GraphStands, PTL DEF GraphSpec, JoinsFoldEveryBranch

-----------------------------------------------------------------------------
(* Any order of completion *)

Alike(a, b) ==
  /\ a.slots = b.slots /\ a.folded = b.folded /\ a.items = b.items /\ a.failed = b.failed
  /\ Range(a.next) = Range(b.next)

\* Two orders of the same outputs accumulate the same.
LEMMA SameAccumulation ==
  ASSUME GraphOK, NEW x \in Execution, NEW holds, NEW holds2,
         NEW os \in Seq(Output), NEW os2 \in Seq(Output), Range(os) = Range(os2),
         NEW a \in Accumulator, PrefixIs(x, os, holds, Len(os), a),
         NEW b \in Accumulator, PrefixIs(x, os2, holds2, Len(os2), b),
         NothingWritten(os), \A j \in 1..Len(os) : holds[j] = Holding(x.items),
         NothingWritten(os2), \A j \in 1..Len(os2) : holds2[j] = Holding(x.items)
  PROVE  Alike(a, b)
<1>1. /\ \A j \in 1..Len(os) : \E i \in 1..Len(os2) : os2[i] = os[j]
      /\ \A i \in 1..Len(os2) : \E j \in 1..Len(os) : os2[i] = os[j]
  <2>1. DOMAIN os = 1..Len(os) /\ DOMAIN os2 = 1..Len(os2)
    OBVIOUS
  <2>2. \A j \in 1..Len(os) : os[j] \in Range(os2)
    BY <2>1 DEF Range
  <2>3. \A i \in 1..Len(os2) : os2[i] \in Range(os)
    BY <2>1 DEF Range
  <2> QED
    BY <2>1, <2>2, <2>3 DEF Range
<1>2. ASSUME NEW f \in FanIns PROVE a.slots[f] = b.slots[f]
  <2>1. BarrierIs(x, os, Len(os), a.slots, f) /\ BarrierIs(x, os2, Len(os2), b.slots, f)
    BY DEF PrefixIs
  <2>2. a.slots[f] \in Seq(Int) /\ b.slots[f] \in Seq(Int)
    BY DEF Accumulator, Barriers
  <2>3. (\E j \in 1..Len(os) : Opens(os[j], f)) <=> \E i \in 1..Len(os2) : Opens(os2[i], f)
    BY <1>1
  <2>4. /\ Len(a.slots[f]) = Len(b.slots[f])
        /\ \A i \in 1..Len(a.slots[f]) : a.slots[f][i] = b.slots[f][i]
    <3>1. CASE \E j \in 1..Len(os) : Opens(os[j], f)
      BY <2>1, <2>3, <3>1 DEF BarrierIs
    <3>2. CASE ~\E j \in 1..Len(os) : Opens(os[j], f)
      <4>1. /\ Len(a.slots[f]) = Len(x.slots[f])
            /\ \A j \in 1..Len(os) : Tells(os[j], f) => a.slots[f][os[j].active.branch + 1] = os[j].result
            /\ \A i \in 1..Len(a.slots[f]) :
                 (\A j \in 1..Len(os) : Tells(os[j], f) => os[j].active.branch + 1 # i) =>
                   a.slots[f][i] = x.slots[f][i]
        BY <2>1, <3>2 DEF BarrierIs
      <4>2. /\ Len(b.slots[f]) = Len(x.slots[f])
            /\ \A j \in 1..Len(os2) : Tells(os2[j], f) => b.slots[f][os2[j].active.branch + 1] = os2[j].result
            /\ \A i \in 1..Len(b.slots[f]) :
                 (\A j \in 1..Len(os2) : Tells(os2[j], f) => os2[j].active.branch + 1 # i) =>
                   b.slots[f][i] = x.slots[f][i]
        BY <2>1, <2>3, <3>2 DEF BarrierIs
      <4>3. ASSUME NEW i \in 1..Len(a.slots[f]) PROVE a.slots[f][i] = b.slots[f][i]
        <5>1. CASE \E j \in 1..Len(os) : Tells(os[j], f) /\ os[j].active.branch + 1 = i
          <6>1. PICK j \in 1..Len(os) : Tells(os[j], f) /\ os[j].active.branch + 1 = i
            BY <5>1
          <6>2. PICK m \in 1..Len(os2) : os2[m] = os[j]
            BY <1>1
          <6>3. a.slots[f][i] = os[j].result
            BY ONLY <4>1, <6>1
          <6>4. b.slots[f][i] = os2[m].result
            BY ONLY <4>2, <6>1, <6>2
          <6> QED
            BY ONLY <6>2, <6>3, <6>4
        <5>2. CASE ~\E j \in 1..Len(os) : Tells(os[j], f) /\ os[j].active.branch + 1 = i
          <6>1. \A j \in 1..Len(os2) : Tells(os2[j], f) => os2[j].active.branch + 1 # i
            BY <1>1, <5>2
          <6> QED
            BY <4>1, <4>2, <5>2, <6>1
        <5> QED
          BY <5>1, <5>2
      <4> QED
        BY <4>1, <4>2, <4>3
    <3> QED
      BY <3>1, <3>2
  <2>5. PICK s \in Seq(Int) : s = a.slots[f]
    BY <2>2
  <2>6. PICK t \in Seq(Int) : t = b.slots[f]
    BY <2>2
  <2>7. Len(s) = Len(t) /\ \A i \in 1..Len(s) : s[i] = t[i]
    BY <2>4, <2>5, <2>6
  <2>8. s = t
    BY <2>7, SeqEqual
  <2> QED
    BY <2>5, <2>6, <2>8
<1>3. a.slots = b.slots
  BY <1>2 DEF Accumulator, Barriers
<1>4. ASSUME NEW f \in FanIns
      PROVE  Joined(os, Len(os), a.slots, f) <=> Joined(os2, Len(os2), b.slots, f)
  BY <1>1, <1>3 DEF Joined
<1>5. ASSUME NEW f \in FanIns PROVE a.folded[f] = b.folded[f]
  <2>1. FoldIs(x, os, Len(os), a.slots, a.folded, f) /\ FoldIs(x, os2, Len(os2), b.slots, b.folded, f)
    BY DEF PrefixIs
  <2> QED
    BY <1>3, <1>4, <2>1 DEF FoldIs
<1>6. a.folded = b.folded
  BY <1>5 DEF Accumulator, Barriers
<1>7. a.failed = b.failed
  <2>1. a.failed \in BOOLEAN /\ b.failed \in BOOLEAN
    BY DEF Accumulator
  <2>2. a.failed <=> \E j \in 1..Len(os) : os[j].result = Error
    BY DEF PrefixIs
  <2>3. b.failed <=> \E i \in 1..Len(os2) : os2[i].result = Error
    BY DEF PrefixIs
  <2>4. ASSUME a.failed PROVE b.failed
    <3>1. PICK j \in 1..Len(os) : os[j].result = Error
      BY ONLY <2>2, <2>4
    <3>2. PICK i \in 1..Len(os2) : os2[i] = os[j]
      BY ONLY <1>1, <3>1
    <3> QED
      BY ONLY <2>3, <3>1, <3>2
  <2>5. ASSUME b.failed PROVE a.failed
    <3>1. PICK i \in 1..Len(os2) : os2[i].result = Error
      BY ONLY <2>3, <2>5
    <3>2. PICK j \in 1..Len(os) : os2[i] = os[j]
      BY ONLY <1>1, <3>1
    <3> QED
      BY ONLY <2>2, <3>1, <3>2
  <2> QED
    BY <2>1, <2>4, <2>5
<1>8. a.items = b.items
  BY DEF PrefixIs
<1>9. Range(a.next) = Range(b.next)
  <2>1. a.next \in Seq(Active) /\ b.next \in Seq(Active)
    BY DEF Accumulator
  <2>2. Range(a.next) \subseteq Active /\ Range(b.next) \subseteq Active
    BY <2>1, ElementOfSeq DEF Range
  <2>3. ASSUME NEW active \in Active PROVE active \in Range(a.next) <=> active \in Range(b.next)
    <3>1. (\E j \in 1..Len(os) : Sends(os[j], a.slots, holds[j], active)) <=>
            \E j \in 1..Len(os2) : Sends(os2[j], b.slots, holds2[j], active)
      BY <1>1, <1>3
    <3> QED
      BY <1>4, <3>1 DEF PrefixIs, NextIs
  <2> QED
    BY <2>2, <2>3
<1> QED
  BY <1>3, <1>6, <1>7, <1>8, <1>9 DEF Alike

\* y is what step() makes of the outputs os, and a what they accumulate.
Stepped(x, os, a, y) ==
  a \in Accumulator /\ a = Accumulated(x, os) /\ y = Step(x, os, FALSE)

\* The status depends on which nodes follow, not on their order.
LEMMA SameStep ==
  ASSUME GraphOK, NEW x, NEW os, NEW os2, NEW a, NEW b, NEW y, NEW z, Alike(a, b),
         Stepped(x, os, a, y), Stepped(x, os2, b, z)
  PROVE  /\ y.status = z.status /\ Range(y.nodes) = Range(z.nodes) /\ y.items = z.items
         /\ y.slots = z.slots /\ y.folded = z.folded
<1> USE DEF Stepped, Alike
<1>1. PICK m : m = Following(a.next, Holding(a.items))
  OBVIOUS
<1>2. PICK n : n = Following(b.next, Holding(b.items))
  OBVIOUS
<1>3. Range(m) = Range(n)
  <2>1. a.next \in Seq(Active) /\ b.next \in Seq(Active)
    BY DEF Accumulator
  <2>2. \A v : v \in Range(m) <=> v \in Range(n)
    BY <1>1, <1>2, <2>1, FollowingIs
  <2> QED
    BY <2>2
<1> DEFINE Ends(nodes) == \E i \in DOMAIN nodes : graph.kind[nodes[i].node] = "End"
           Ended(c, status, nodes) == [status |-> status, nodes |-> nodes, items |-> c.items,
                                       slots |-> c.slots, folded |-> c.folded]
<1>4. Ends(m) <=> Ends(n)
  <2>1. \A s : Ends(s) <=> \E v \in Range(s) : graph.kind[v.node] = "End"
    BY DEF Range
  <2> HIDE DEF Ends
  <2> QED
    BY <1>3, <2>1
<1>5. Parks(m) <=> Parks(n)
  <2>1. \A s : Parks(s) <=> \E v \in Range(s) : graph.kind[v.node] \in {"Wait", "Subgraph"}
    BY DEF Range, Parks
  <2> QED
    BY <1>3, <2>1
<1>6. y = IF a.failed THEN Ended(a, "Failed", x.nodes)
          ELSE IF Ends(m) THEN Ended(a, "Completed", <<>>)
          ELSE IF Iteration + 1 >= IterationLimit THEN Ended(a, "Failed", x.nodes)
          ELSE Ended(a, IF Parks(m) THEN "Waiting" ELSE "Ready", m)
  BY <1>1 DEF Step, Following
<1>7. z = IF b.failed THEN Ended(b, "Failed", x.nodes)
          ELSE IF Ends(n) THEN Ended(b, "Completed", <<>>)
          ELSE IF Iteration + 1 >= IterationLimit THEN Ended(b, "Failed", x.nodes)
          ELSE Ended(b, IF Parks(n) THEN "Waiting" ELSE "Ready", n)
  BY <1>2 DEF Step, Following
<1> HIDE DEF Ends
<1>8. CASE a.failed
  BY <1>6, <1>7, <1>8
<1>9. CASE ~a.failed /\ Ends(m)
  BY <1>4, <1>6, <1>7, <1>9
<1>10. CASE ~a.failed /\ ~Ends(m) /\ Iteration + 1 >= IterationLimit
  BY <1>4, <1>6, <1>7, <1>10
<1>11. CASE ~a.failed /\ ~Ends(m) /\ ~(Iteration + 1 >= IterationLimit)
  <2>1. y = Ended(a, IF Parks(m) THEN "Waiting" ELSE "Ready", m)
    BY <1>6, <1>11
  <2>2. z = Ended(b, IF Parks(n) THEN "Waiting" ELSE "Ready", n)
    BY <1>4, <1>7, <1>11
  <2>3. PICK status : /\ status = (IF Parks(m) THEN "Waiting" ELSE "Ready")
                      /\ status = (IF Parks(n) THEN "Waiting" ELSE "Ready")
    BY <1>5
  <2>4. y = Ended(a, status, m) /\ z = Ended(b, status, n)
    BY <2>1, <2>2, <2>3
  <2>5. y.status = z.status /\ y.items = z.items /\ y.slots = z.slots /\ y.folded = z.folded
    BY ONLY <2>4, Alike(a, b) DEF Alike
  <2>6. y.nodes = m /\ z.nodes = n
    BY ONLY <2>4
  <2> QED
    BY ONLY <1>3, <2>5, <2>6
<1> QED
  BY <1>8, <1>9, <1>10, <1>11

\* What a super-step makes of the execution does not depend on which of its nodes finished first,
\* as long as none of them writes what the conditions and FanOuts of the others read.
THEOREM AnyOrderTheSame == GraphSpec => []OrderIndependent
<1>1. ASSUME GraphInv PROVE OrderIndependent
  <2> DEFINE y == Step(exec, outs, FALSE)
             z(p) == Step(exec, InOrder(p), FALSE)
  <2>1. SUFFICES ASSUME AllIn, NothingWritten(outs), FanShaped(graph), NEW p \in Orders
                 PROVE  /\ y.status = z(p).status
                        /\ Range(y.nodes) = Range(z(p).nodes)
                        /\ y.items = z(p).items
                        /\ y.slots = z(p).slots
                        /\ y.folded = z(p).folded
    BY DEF OrderIndependent
  <2>2. /\ GraphOK /\ exec \in Execution /\ outs \in Seq(Output) /\ exec.nodes \in Seq(Active)
        /\ DOMAIN outs = 1..Len(outs) /\ Len(outs) \in Nat
    BY <1>1, GraphIsOK DEF GraphInv, OutsOK, Execution
  <2>3. /\ p \in [DOMAIN outs -> DOMAIN outs]
        /\ \A i, j \in DOMAIN outs : p[i] = p[j] => i = j
        /\ \A j \in DOMAIN outs : \E i \in DOMAIN outs : p[i] = j
    BY DEF Orders, Bijection, Injection, Surjection, IsInjective
  <2>4. PICK os : os = InOrder(p)
    OBVIOUS
  <2>5. os = [i \in 1..Len(outs) |-> outs[p[i]]]
    BY <2>2, <2>4 DEF InOrder
  <2>6. os \in Seq(Output) /\ DOMAIN os = DOMAIN outs /\ \A i \in DOMAIN os : os[i] = outs[p[i]]
    <3>1. \A i \in 1..Len(outs) : outs[p[i]] \in Output
      BY <2>2, <2>3, ElementOfSeq
    <3> QED
      BY <2>2, <2>5, <3>1
  <2>7. os = <<>> => exec.nodes = <<>>
    <3>1. os = <<>> => Len(outs) = 0
      BY <2>2, <2>5
    <3> QED
      BY <2>1, <2>2, <3>1 DEF AllIn
  <2>8. Collected(exec, os) /\ Collected(exec, outs)
    BY <1>1, <2>1, <2>3, <2>6, <2>7, AnyOrderCollected, OutsCollected
  <2>9. Range(outs) = Range(os)
    BY <2>3, <2>6 DEF Range
  <2>14. NothingWritten(os)
    BY <2>1, <2>9 DEF NothingWritten
  <2>10. PICK a, holds :
           /\ a \in Accumulator
           /\ a = Accumulated(exec, outs) /\ PrefixIs(exec, outs, holds, Len(outs), a)
           /\ \A j \in 1..Len(outs) : holds[j] = Holding(exec.items)
    BY <2>1, <2>2, <2>8, AccumulatedIs
  <2>11. PICK b, holds2 :
           /\ b \in Accumulator
           /\ b = Accumulated(exec, os) /\ PrefixIs(exec, os, holds2, Len(os), b)
           /\ \A j \in 1..Len(os) : holds2[j] = Holding(exec.items)
    BY <2>1, <2>14, <2>2, <2>8, AccumulatedIs
  <2>12. Alike(a, b)
    <3>1. GraphOK /\ exec \in Execution /\ outs \in Seq(Output) /\ os \in Seq(Output)
      BY <2>2, <2>6
    <3>2. PrefixIs(exec, outs, holds, Len(outs), a) /\ PrefixIs(exec, os, holds2, Len(os), b)
      BY <2>10, <2>11
    <3>3. NothingWritten(outs) /\ \A j \in 1..Len(outs) : holds[j] = Holding(exec.items)
      BY <2>1, <2>10
    <3>4. NothingWritten(os) /\ \A j \in 1..Len(os) : holds2[j] = Holding(exec.items)
      BY <2>11, <2>14
    <3> QED
      BY ONLY <2>9, <2>10, <2>11, <3>1, <3>2, <3>3, <3>4, SameAccumulation
  <2>13. Stepped(exec, outs, a, y) /\ Stepped(exec, os, b, z(p))
    BY <2>4, <2>10, <2>11 DEF Stepped
  <2> HIDE DEF y, z
  <2> QED
    BY <2>2, <2>10, <2>11, <2>12, <2>13, SameStep
<1> QED
  BY <1>1, GraphStands, PTL

=============================================================================
