------------------------------- MODULE Engine -------------------------------
(***************************************************************************)
(* The engine service's durable core: the executions and checkpoints       *)
(* tables, the tick loop that claims, runs and commits super-steps under a *)
(* lease, the Interrupt / Resume / Cancel calls that write the same rows,  *)
(* the retention sweep, and engine processes that crash and are replaced.  *)
(*                                                                         *)
(* What a node computes is abstracted to the outcomes step() can return    *)
(* (GraphStep.tla models step() itself).  A checkpoint carries two history *)
(* fields that are not columns: by, the operation that wrote it, and from, *)
(* the step of the checkpoint its state was computed from.                 *)
(*                                                                         *)
(* A database transaction that takes no part in a race is one action, at   *)
(* the point where it commits.                                             *)
(***************************************************************************)
EXTENDS Integers, FiniteSets

CONSTANTS
  Executions,      \* execution ids
  NoExec,          \* no execution
  Workers,         \* tick slots: the permits of the tick loop's semaphore
  Clients,         \* callers of Interrupt, Resume and Cancel
  Ops,             \* the control calls these callers make
  MaxBoots,        \* bound: engine processes started, one after the other
  MaxStep,         \* bound: last checkpoint step an execution may write
  MaxFaults,       \* bound: ticks that end in an error
  MaxDrops,        \* bound: times the lock's database session drops
  MaxIterations    \* executions.max_iterations

ASSUME EngineAssumption ==
  /\ NoExec \notin Executions
  /\ Ops \subseteq {"interrupt", "resume", "cancel"}
  /\ MaxBoots \in Nat \ {0}
  /\ MaxStep \in Nat \ {0}
  /\ MaxFaults \in Nat
  /\ MaxDrops \in Nat
  /\ MaxIterations \in Nat

VARIABLES
  row,      \* executions: one row per execution id
  cps,      \* checkpoints: execution and step to checkpoint
  older,    \* executions ordered by updated_at: <<a, b>> when a is older
  worker,   \* the ticks in flight
  client,   \* the control calls in flight
  sweep,    \* the maintenance pass in flight
  up,       \* engine processes alive
  lock,     \* holder of the sole-engine advisory lock, 0 when free
  boots,    \* engine processes started so far
  faults,   \* ticks that ended in an error so far
  drops     \* times the lock's session dropped so far

vars == <<row, cps, older, worker, client, sweep, up, lock, boots, faults, drops>>

-----------------------------------------------------------------------------
(* The tables *)

Live     == {"Ready", "Running", "Waiting"}
Terminal == {"Completed", "Failed", "Cancelled"}
Status   == Live \cup Terminal
NoRow    == {"unstarted", "swept"}

\* wait_kind: "elapsed" is a timer whose until has passed.
WaitKind == {"none", "input", "timer", "elapsed"}

\* lease_until against the clock: null, in the future, in the past.
Lease == {"none", "held", "expired"}

\* current_nodes, empty or not: all that the tick loop tells apart.
Nodes == {"some", "none"}

Row == [status : Status \cup NoRow, wait : WaitKind, nodes : Nodes,
        owner : 0..MaxBoots, lease : Lease, iteration : Nat]

Steps == 0..MaxStep

Checkpoint == [by : {"none", "start", "tick"} \cup Ops, from : Int, nodes : Nodes]
NoCheckpoint == [by |-> "none", from |-> -1, nodes |-> "none"]

Blank(status) ==
  [status |-> status, wait |-> "none", nodes |-> "none", owner |-> 0,
   lease |-> "none", iteration |-> 0]

Exists(e) == row[e].status \in Status
Written(e, s) == cps[e][s] # NoCheckpoint

\* PgCheckpointStore::latest orders by step and takes the last one.
IsLatest(e, s) ==
  /\ Written(e, s)
  /\ \A t \in Steps : t > s => ~Written(e, t)

\* updated_at = now(): the row becomes the youngest.
Touch(e) ==
  older' = {p \in older : p[1] # e /\ p[2] # e}
             \cup {<<x, e>> : x \in {y \in Executions : y # e /\ Exists(y)}}

-----------------------------------------------------------------------------
(* Processes *)

IdleWorker ==
  [pc |-> "idle", engine |-> 0, exec |-> NoExec, from |-> -1, nodes |-> "none",
   iteration |-> 0]
Worker ==
  [pc : {"idle", "claimed", "loaded"}, engine : 0..MaxBoots,
   exec : Executions \cup {NoExec}, from : Int, nodes : Nodes,
   iteration : Nat]

IdleClient ==
  [pc |-> "idle", engine |-> 0, op |-> "none", exec |-> NoExec, from |-> -1,
   next |-> 0, nodes |-> "none"]
Client ==
  [pc : {"idle", "row", "state", "ready"}, engine : 0..MaxBoots,
   op : Ops \cup {"none"}, exec : Executions \cup {NoExec}, from : Int,
   next : Int, nodes : Nodes]

IdleSweep == [pc |-> "idle", engine |-> 0, ids |-> {}, doomed |-> {}]
Sweep ==
  [pc : {"idle", "selected", "purged"}, engine : 0..MaxBoots,
   ids : SUBSET Executions, doomed : SUBSET (Executions \X Steps)]

Init ==
  /\ row = [e \in Executions |-> Blank("unstarted")]
  /\ cps = [e \in Executions |-> [s \in Steps |-> NoCheckpoint]]
  /\ older = {}
  /\ worker = [w \in Workers |-> IdleWorker]
  /\ client = [c \in Clients |-> IdleClient]
  /\ sweep = IdleSweep
  /\ up = {}
  /\ lock = 0
  /\ boots = 0
  /\ faults = 0
  /\ drops = 0

-----------------------------------------------------------------------------
(* Service::start_continuing: the row and its step 0 in one transaction. *)

StartExecution(e) ==
  /\ row[e].status = "unstarted"
  /\ up # {}
  /\ row' = [row EXCEPT ![e] =
               [status |-> "Ready", wait |-> "none", nodes |-> "some", owner |-> 0,
                lease |-> "none", iteration |-> 0]]
  /\ cps' = [cps EXCEPT ![e][0] = [by |-> "start", from |-> -1, nodes |-> "some"]]
  /\ Touch(e)
  /\ UNCHANGED <<worker, client, sweep, up, lock, boots, faults, drops>>

-----------------------------------------------------------------------------
(* The tick: claim, load, run, commit. *)

\* Mutant: no crash recovery.
ClaimableUnleased(e) ==
  \/ row[e].status = "Ready"
  \/ row[e].status = "Waiting" /\ row[e].wait = "elapsed"

\* lease::claimable: new work, crash recovery, an elapsed timer.
Claimable(e) ==
  \/ row[e].status = "Ready"
  \/ row[e].status = "Running" /\ row[e].lease = "expired"
  \/ row[e].status = "Waiting" /\ row[e].wait = "elapsed"

\* The columns a claim sets; wait_kind is left alone.
Leased(r, i) ==
  [status |-> "Running", wait |-> r.wait, nodes |-> r.nodes, owner |-> i,
   lease |-> "held", iteration |-> r.iteration]

\* Mutant: the claim query without its ORDER BY.
ClaimUnordered(w, e) ==
  /\ worker[w].pc = "idle"
  /\ Claimable(e)
  /\ \E i \in up :
       /\ row' = [row EXCEPT ![e] = Leased(row[e], i)]
       /\ worker' = [worker EXCEPT ![w] =
                       [IdleWorker EXCEPT !.pc = "claimed", !.engine = i, !.exec = e]]
  /\ Touch(e)
  /\ UNCHANGED <<cps, client, sweep, up, lock, boots, faults, drops>>

\* lease::claim_one_ready: the oldest claimable row.
Claim(w, e) ==
  /\ worker[w].pc = "idle"
  /\ Claimable(e)
  /\ ~\E x \in Executions : Claimable(x) /\ <<x, e>> \in older
  /\ \E i \in up :
       /\ row' = [row EXCEPT ![e] = Leased(row[e], i)]
       /\ worker' = [worker EXCEPT ![w] =
                       [IdleWorker EXCEPT !.pc = "claimed", !.engine = i, !.exec = e]]
  /\ Touch(e)
  /\ UNCHANGED <<cps, client, sweep, up, lock, boots, faults, drops>>

\* Tick::process up to the nodes: the row's counters, and in one read
\* the latest checkpoint's state and step.  The row is read first; nothing the
\* tick takes from it ever changes, so one action at the second read is enough.
Load(w) ==
  LET e == worker[w].exec IN
  /\ worker[w].pc = "claimed"
  /\ Exists(e)
  /\ \E s \in Steps :
       /\ IsLatest(e, s)
       /\ worker' = [worker EXCEPT ![w] =
                       [pc |-> "loaded", engine |-> worker[w].engine, exec |-> e,
                        from |-> s, nodes |-> cps[e][s].nodes,
                        iteration |-> row[e].iteration]]
  /\ UNCHANGED <<row, cps, older, client, sweep, up, lock, boots, faults, drops>>

Outcome(status, wait, nodes) == [status |-> status, wait |-> wait, nodes |-> nodes]

\* What step() may return for the loaded execution.  A node that ran fails (an
\* exhausted budget is such a failure), ends the graph, parks it or moves on;
\* without active nodes there are no outputs, no edge is looked at and the
\* execution stays as it is.
StepOutcomes(k) ==
  LET lastTurn == k.iteration + 1 >= MaxIterations
      failed == {Outcome("Failed", "none", k.nodes)}
      moved == {Outcome("Ready", "none", n) : n \in Nodes}
                 \cup {Outcome("Waiting", t, "some") : t \in {"input", "timer"}}
      stayed == {Outcome("Ready", "none", "none")}
  IN  IF k.nodes = "none"
      THEN IF lastTurn THEN failed ELSE stayed
      ELSE failed \cup {Outcome("Completed", "none", "none")}
                  \cup (IF lastTurn THEN {} ELSE moved)

\* Mutant: a release that forgets lease_owner and lease_until.
ReleasedStillLeased(r, o) ==
  [status |-> o.status, wait |-> o.wait, nodes |-> o.nodes, owner |-> r.owner,
   lease |-> r.lease, iteration |-> r.iteration]

\* lease::release_lease: the columns it sets; iteration and budget are not
\* among them.
Released(r, o) ==
  [status |-> o.status, wait |-> o.wait, nodes |-> o.nodes, owner |-> 0,
   lease |-> "none", iteration |-> r.iteration]

\* Mutant: no unique key on (execution_id, step).
CommitStepUnkeyed(e, owner, step, checkpoint, outcome) ==
  /\ step \in Steps
  /\ Exists(e)
  /\ row[e].owner = owner
  /\ cps' = [cps EXCEPT ![e][step] = checkpoint]
  /\ row' = [row EXCEPT ![e] = Released(row[e], outcome)]
  /\ Touch(e)

\* Mutant: release_lease matches the id alone.
CommitStepUnfenced(e, owner, step, checkpoint, outcome) ==
  /\ step \in Steps
  /\ ~Written(e, step)
  /\ Exists(e)
  /\ cps' = [cps EXCEPT ![e][step] = checkpoint]
  /\ row' = [row EXCEPT ![e] = Released(row[e], outcome)]
  /\ Touch(e)

\* store::commit_step: the checkpoint insert under the unique (execution, step)
\* key and the release of the lease it names, in one transaction.
CommitStep(e, owner, step, checkpoint, outcome) ==
  /\ step \in Steps
  /\ ~Written(e, step)
  /\ Exists(e)
  /\ row[e].owner = owner
  /\ cps' = [cps EXCEPT ![e][step] = checkpoint]
  /\ row' = [row EXCEPT ![e] = Released(row[e], outcome)]
  /\ Touch(e)

\* The transaction rolls back: the step exists, the lease is another's, or the
\* row is gone.
CommitRefused(e, owner, step) ==
  \/ step \in Steps /\ Written(e, step)
  \/ ~Exists(e)
  \/ row[e].owner # owner

TickCommit(w) ==
  LET k == worker[w] IN
  /\ k.pc = "loaded"
  /\ \E o \in StepOutcomes(k) :
       CommitStep(k.exec, k.engine, k.from + 1,
                  [by |-> "tick", from |-> k.from, nodes |-> o.nodes], o)
  /\ worker' = [worker EXCEPT ![w] = IdleWorker]
  /\ UNCHANGED <<client, sweep, up, lock, boots, faults, drops>>

TickRefused(w) ==
  LET k == worker[w] IN
  /\ k.pc = "loaded"
  /\ CommitRefused(k.exec, k.engine, k.from + 1)
  /\ worker' = [worker EXCEPT ![w] = IdleWorker]
  /\ UNCHANGED <<row, cps, older, client, sweep, up, lock, boots, faults, drops>>

\* run_one returns an error before the commit: the graph is not registered, a
\* node panicked, the storage call failed.  The row keeps its lease.
TickError(w) ==
  /\ worker[w].pc # "idle"
  /\ faults < MaxFaults
  /\ faults' = faults + 1
  /\ worker' = [worker EXCEPT ![w] = IdleWorker]
  /\ UNCHANGED <<row, cps, older, client, sweep, up, lock, boots, drops>>

\* "claimed execution vanished": the sweep took the row between claim and load.
TickVanished(w) ==
  /\ worker[w].pc = "claimed"
  /\ ~Exists(worker[w].exec)
  /\ worker' = [worker EXCEPT ![w] = IdleWorker]
  /\ UNCHANGED <<row, cps, older, client, sweep, up, lock, boots, faults, drops>>

-----------------------------------------------------------------------------
(* The clock *)

\* LEASE_DURATION passes; nothing renews a lease mid-tick.
LeaseExpires(e) ==
  /\ row[e].lease = "held"
  /\ row' = [row EXCEPT ![e].lease = "expired"]
  /\ UNCHANGED <<cps, older, worker, client, sweep, up, lock, boots, faults, drops>>

TimerElapses(e) ==
  /\ row[e].wait = "timer"
  /\ row' = [row EXCEPT ![e].wait = "elapsed"]
  /\ UNCHANGED <<cps, older, worker, client, sweep, up, lock, boots, faults, drops>>

-----------------------------------------------------------------------------
(* Interrupt, Resume and Cancel: four separate reads and writes. *)

\* load_idle's row: a Running one is Busy, and Resume wants a Waiting one.
ControlRow(c, op, e) ==
  /\ client[c].pc = "idle"
  /\ Exists(e)
  /\ row[e].status # "Running"
  /\ op = "resume" => row[e].status = "Waiting"
  /\ \E i \in up : client' = [client EXCEPT ![c] =
       [IdleClient EXCEPT !.pc = "row", !.engine = i, !.op = op, !.exec = e]]
  /\ UNCHANGED <<row, cps, older, worker, sweep, up, lock, boots, faults, drops>>

\* load_idle's latest checkpoint: the state and nodes the call will write back.
\* With no checkpoint left they come from the row read before; the commit of
\* such a call is always refused.
ControlState(c) ==
  LET e == client[c].exec IN
  /\ client[c].pc = "row"
  /\ \/ \E s \in Steps :
          /\ IsLatest(e, s)
          /\ client' = [client EXCEPT ![c].pc = "state", ![c].from = s,
                                      ![c].nodes = cps[e][s].nodes]
     \/ /\ \A s \in Steps : ~Written(e, s)
        /\ client' = [client EXCEPT ![c].pc = "state"]
  /\ UNCHANGED <<row, cps, older, worker, sweep, up, lock, boots, faults, drops>>

\* next_checkpoint_step reads the latest checkpoint a second time.
ControlStep(c) ==
  LET e == client[c].exec IN
  /\ client[c].pc = "state"
  /\ \/ \E s \in Steps :
          /\ IsLatest(e, s)
          /\ client' = [client EXCEPT ![c].pc = "ready", ![c].next = s + 1]
     \/ /\ \A s \in Steps : ~Written(e, s)
        /\ client' = [client EXCEPT ![c].pc = "ready", ![c].next = 0]
  /\ UNCHANGED <<row, cps, older, worker, sweep, up, lock, boots, faults, drops>>

ControlOutcome(k) ==
  Outcome(IF k.op = "cancel" THEN "Cancelled" ELSE "Ready", "none", k.nodes)

\* persist: commit_step with no owner, so only a row nobody leases is written.
ControlCommit(c) ==
  LET k == client[c] IN
  /\ k.pc = "ready"
  /\ CommitStep(k.exec, 0, k.next,
                [by |-> k.op, from |-> k.from, nodes |-> k.nodes], ControlOutcome(k))
  /\ client' = [client EXCEPT ![c] = IdleClient]
  /\ UNCHANGED <<worker, sweep, up, lock, boots, faults, drops>>

ControlRefused(c) ==
  LET k == client[c] IN
  /\ k.pc = "ready"
  /\ CommitRefused(k.exec, 0, k.next)
  /\ client' = [client EXCEPT ![c] = IdleClient]
  /\ UNCHANGED <<row, cps, older, worker, sweep, up, lock, boots, faults, drops>>

-----------------------------------------------------------------------------
(* sweep::sweep_terminal, READ COMMITTED: the select takes no row lock, and each
   delete sees what is committed when it runs.  Nothing is visible to others
   until the commit. *)

\* The batch is the terminal rows older than the cutoff, the oldest ones first.
SweepSelect ==
  LET terminal == {e \in Executions : row[e].status \in Terminal} IN
  /\ sweep.pc = "idle"
  /\ \E i \in up, ids \in SUBSET terminal :
       /\ ids # {}
       /\ \A e \in ids, x \in terminal \ ids : <<x, e>> \notin older
       /\ sweep' = [pc |-> "selected", engine |-> i, ids |-> ids, doomed |-> {}]
  /\ UNCHANGED <<row, cps, older, worker, client, up, lock, boots, faults, drops>>

SweepCheckpoints ==
  /\ sweep.pc = "selected"
  /\ sweep' = [sweep EXCEPT !.pc = "purged",
                 !.doomed = {p \in sweep.ids \X Steps : Written(p[1], p[2])}]
  /\ UNCHANGED <<row, cps, older, worker, client, up, lock, boots, faults, drops>>

\* Mutant: only the second delete looks at the status again.
SweepCommitRechecks ==
  LET gone == {e \in sweep.ids : row[e].status \in Terminal} IN
  /\ sweep.pc = "purged"
  /\ cps' = [e \in Executions |-> [s \in Steps |->
               IF <<e, s>> \in sweep.doomed THEN NoCheckpoint ELSE cps[e][s]]]
  /\ row' = [e \in Executions |-> IF e \in gone THEN Blank("swept") ELSE row[e]]
  /\ older' = {p \in older : p[1] \notin gone /\ p[2] \notin gone}
  /\ sweep' = IdleSweep
  /\ UNCHANGED <<worker, client, up, lock, boots, faults, drops>>

SweepCommit ==
  /\ sweep.pc = "purged"
  /\ cps' = [e \in Executions |-> [s \in Steps |->
               IF <<e, s>> \in sweep.doomed THEN NoCheckpoint ELSE cps[e][s]]]
  /\ row' = [e \in Executions |-> IF e \in sweep.ids THEN Blank("swept") ELSE row[e]]
  /\ older' = {p \in older : p[1] \notin sweep.ids /\ p[2] \notin sweep.ids}
  /\ sweep' = IdleSweep
  /\ UNCHANGED <<worker, client, up, lock, boots, faults, drops>>

-----------------------------------------------------------------------------
(* Engine processes *)

\* Mutant: a process that starts without the lock.
BootUnlocked ==
  /\ boots < MaxBoots
  /\ boots' = boots + 1
  /\ lock' = boots + 1
  /\ up' = up \cup {boots + 1}
  /\ UNCHANGED <<row, cps, older, worker, client, sweep, faults, drops>>

\* main: claim_sole_engine_lock, expire_abandoned_leases (best effort), then a
\* fresh owner name.
Boot ==
  /\ boots < MaxBoots
  /\ lock = 0
  /\ boots' = boots + 1
  /\ lock' = boots + 1
  /\ up' = up \cup {boots + 1}
  /\ row' \in {row,
               [e \in Executions |-> IF row[e].status = "Running" /\ row[e].lease = "held"
                                     THEN [row[e] EXCEPT !.lease = "expired"]
                                     ELSE row[e]]}
  /\ UNCHANGED <<cps, older, worker, client, sweep, faults, drops>>

\* Mutant: a dead process keeps the lock.
CrashKeepsLock(i) ==
  /\ i \in up
  /\ boots < MaxBoots \/ up # {i}
  /\ up' = up \ {i}
  /\ worker' = [w \in Workers |-> IF worker[w].engine = i THEN IdleWorker ELSE worker[w]]
  /\ UNCHANGED <<row, cps, older, client, sweep, lock, boots, faults, drops>>

\* The process dies: its ticks, its calls and its open transactions with it.
\* The last process the bound allows stays up.
Crash(i) ==
  /\ i \in up
  /\ boots < MaxBoots \/ up # {i}
  /\ up' = up \ {i}
  /\ lock' = IF lock = i THEN 0 ELSE lock
  /\ worker' = [w \in Workers |-> IF worker[w].engine = i THEN IdleWorker ELSE worker[w]]
  /\ client' = [c \in Clients |-> IF client[c].engine = i THEN IdleClient ELSE client[c]]
  /\ sweep' = IF sweep.engine = i THEN IdleSweep ELSE sweep
  /\ UNCHANGED <<row, cps, older, boots, faults, drops>>

\* The session holding the lock's transaction drops: Postgres frees the lock
\* while the process lives on, and nothing in the process notices.
LockSessionDrops ==
  /\ lock # 0
  /\ drops < MaxDrops
  /\ drops' = drops + 1
  /\ lock' = 0
  /\ UNCHANGED <<row, cps, older, worker, client, sweep, up, boots, faults>>

-----------------------------------------------------------------------------
Tick(w) ==
  \/ \E e \in Executions : Claim(w, e)
  \/ Load(w)
  \/ TickCommit(w)
  \/ TickRefused(w)
  \/ TickVanished(w)

Control(c) ==
  \/ \E op \in Ops, e \in Executions : ControlRow(c, op, e)
  \/ ControlState(c)
  \/ ControlStep(c)
  \/ ControlCommit(c)
  \/ ControlRefused(c)

Next ==
  \/ \E e \in Executions : StartExecution(e)
  \/ \E w \in Workers : Tick(w)
  \/ \E w \in Workers : TickError(w)
  \/ \E c \in Clients : Control(c)
  \/ \E e \in Executions : LeaseExpires(e)
  \/ \E e \in Executions : TimerElapses(e)
  \/ SweepSelect
  \/ SweepCheckpoints
  \/ SweepCommit
  \/ Boot
  \/ \E i \in 1..MaxBoots : Crash(i)
  \/ LockSessionDrops

Spec == Init /\ [][Next]_vars

\* The process is restarted when it dies, its loop keeps spawning ticks and every
\* call a tick makes has a timeout, and time passes.  Users promise nothing.
Fairness ==
  /\ WF_vars(Boot)
  /\ \A w \in Workers : WF_vars(Tick(w))
  /\ \A e \in Executions : WF_vars(LeaseExpires(e))

-----------------------------------------------------------------------------
(* Properties *)

\* Types of the tables and of the calls in flight; the lock's holder is alive, and
\* so is the process of every tick, control call and sweep pass.
TypeOK ==
  /\ row \in [Executions -> Row]
  /\ cps \in [Executions -> [Steps -> Checkpoint]]
  /\ older \subseteq Executions \X Executions
  /\ worker \in [Workers -> Worker]
  /\ client \in [Clients -> Client]
  /\ sweep \in Sweep
  /\ up \subseteq 1..boots
  /\ lock \in up \cup {0}
  /\ boots \in 0..MaxBoots
  /\ faults \in 0..MaxFaults
  /\ drops \in 0..MaxDrops
  /\ \A w \in Workers : worker[w].pc # "idle" =>
       worker[w].exec \in Executions /\ worker[w].engine \in up
  /\ \A c \in Clients : client[c].pc # "idle" =>
       client[c].exec \in Executions /\ client[c].engine \in up /\ client[c].op \in Ops
  /\ sweep.pc # "idle" => sweep.engine \in up

\* A row is Running exactly while it is leased: no commit, control call, crash or
\* recovery leaves a lease on an idle row (nobody could ever interrupt it) or a
\* Running row without one (nobody could ever claim it).
LeaseMatchesRunning ==
  \A e \in Executions :
    /\ row[e].status = "Running" <=> row[e].owner # 0
    /\ row[e].status = "Running" <=> row[e].lease # "none"

\* The checkpoints of an execution number 0, 1, 2, ... without a gap, whichever
\* of ticks and control calls wrote them, so latest() is always the last write.
ContiguousCheckpoints ==
  \A e \in Executions : Exists(e) =>
    /\ Written(e, 0)
    /\ \A s, t \in Steps : t < s /\ Written(e, s) => Written(e, t)

\* executions.current_nodes is a copy of the latest checkpoint's, also when ticks
\* and control calls race for the row.
RowMirrorsLatest ==
  \A e \in Executions, s \in Steps :
    Exists(e) /\ IsLatest(e, s) => row[e].nodes = cps[e][s].nodes

\* Two engines never tick at once as long as the lock's session lives.
SoleEngine == drops = 0 => \A i, j \in up : i = j

\* A tick that loaded stands on a committed checkpoint as long as its row exists.
TickAnchored(w) ==
  LET k == worker[w] IN
  /\ k.pc # "idle" => row[k.exec].status # "unstarted"
  /\ k.pc = "loaded" /\ Exists(k.exec) => k.from \in Steps /\ Written(k.exec, k.from)

\* So does a control call that has chosen its step.
CallAnchored(c) ==
  LET k == client[c] IN
  /\ k.pc # "idle" => row[k.exec].status # "unstarted"
  /\ k.pc = "ready" /\ Exists(k.exec) => k.next - 1 \in Steps /\ Written(k.exec, k.next - 1)

\* The calls in flight stand on committed checkpoints, an execution without a row
\* has none yet, and a sweep pass deletes the checkpoints of the rows it deletes.
Anchored ==
  /\ \A e \in Executions, s \in Steps : row[e].status = "unstarted" => ~Written(e, s)
  /\ \A w \in Workers : TickAnchored(w)
  /\ \A c \in Clients : CallAnchored(c)
  /\ \A e \in sweep.ids : Exists(e)
  /\ \A p \in sweep.doomed : p[1] \in sweep.ids

\* A checkpoint, once committed, is never rewritten: a stale tick, a late control
\* call or a crash and replay cannot change a step that was already taken.
CheckpointsImmutable ==
  [][\A e \in Executions, s \in Steps :
       Exists(e) /\ Written(e, s) /\ row'[e].status # "swept"
         => cps'[e][s] = cps[e][s]]_vars

\* No tick, however late it comes back, touches an execution that has finished
\* or was cancelled while the tick ran.
TicksNeverReopen ==
  [][\A e \in Executions :
       row[e].status \in Terminal /\ worker' # worker => row'[e] = row[e]]_vars

\* An execution does not stay Running: its tick settles it, or the tick is lost to
\* a crash, an error or an expired lease and another one settles it.  An execution
\* at the last step of the model is left out.
RunningSettles ==
  \A e \in Executions :
    row[e].status = "Running" ~> row[e].status # "Running" \/ Written(e, MaxStep)

\* The table is the work queue of ExecutionQueue.tla: whatever ticks, control
\* calls, the sweep and restarts do to a row is one of that module's steps.
Queue == INSTANCE ExecutionQueue WITH
  status <- [e \in Executions |-> row[e].status],
  wait   <- [e \in Executions |-> row[e].wait],
  lease  <- [e \in Executions |-> row[e].lease]

ImplementsQueue == Queue!Spec

-----------------------------------------------------------------------------
(* What the repository's documents say and these steps do not keep *)

\* services/engine/README.md: at most max_iterations checkpoints per live
\* execution.  Checked without control calls.
CheckpointsBoundedByIterations ==
  \A e \in Executions : row[e].status \in Live =>
    Cardinality({s \in Steps : Written(e, s)}) <= MaxIterations

\* services/engine/README.md: checkpoints are swept with their execution.  An interrupt that
\* commits between the two deletes of sweep_terminal has its checkpoint left behind.
NoOrphanCheckpoints ==
  \A e \in Executions, s \in Steps : ~Exists(e) => ~Written(e, s)
=============================================================================
