----------------------------- MODULE GraphStep ------------------------------
(***************************************************************************)
(* engine-core's step(), the one place graph semantics live, driven the    *)
(* way the tick loop drives it: the active nodes run concurrently and      *)
(* complete in any order (a JoinSet), step() folds their outputs into the  *)
(* execution in that order and the result is the next super-step's start.  *)
(*                                                                         *)
(* State is abstracted to what step() itself reads or writes: one key that *)
(* FanOuts and edge conditions read, by the length of the array it holds,  *)
(* the __fan_in table and the folded results.                              *)
(***************************************************************************)
EXTENDS Integers, Sequences, Functions, SeqFilter

CONSTANTS
  Graphs,          \* graph definitions: [kind, edges, target, writes, entry]; writes are
                   \* the Tasks and FanIns whose result replaces what is under the key
  Inputs,          \* lengths of the array the input carries
  Results,         \* what an executor returns: Error, Null or an array's length
  IterationLimit,  \* executions.max_iterations
  MaxActive,       \* bound: active nodes of a super-step
  MaxLost          \* bound: ticks lost between their first output and the commit

Error == -2
Null  == -1

-----------------------------------------------------------------------------
(* Graph *)

Kinds == {"Task", "FanOut", "FanIn", "Wait", "Subgraph", "End"}
NodesOf(g) == DOMAIN g.kind
OfKind(g, k) == {n \in NodesOf(g) : g.kind[n] = k}

EdgesOf(g) == Range(g.edges)

\* The fields of a Graph.
WellFormed(g) ==
  /\ g.kind \in [NodesOf(g) -> Kinds]
  /\ g.edges \in Seq([from : NodesOf(g), to : NodesOf(g), always : BOOLEAN,
                     when : SUBSET Nat])
  /\ g.target \in [OfKind(g, "FanOut") -> NodesOf(g)]

\* Graph::validate.
Valid(g) ==
  /\ g.entry \in NodesOf(g)
  /\ \A edge \in EdgesOf(g) : {edge.from, edge.to} \subseteq NodesOf(g)
  /\ \A n \in OfKind(g, "FanOut") :
       \E i \in DOMAIN g.edges :
         {i} = {j \in DOMAIN g.edges : /\ g.edges[j].from = g.target[n]
                                       /\ g.kind[g.edges[j].to] = "FanIn"}

\* Only graphs that validate() accepted are run.
ASSUME GraphStepAssumption ==
  /\ \A g \in Graphs : WellFormed(g) /\ Valid(g)
  /\ Inputs \subseteq Nat
  /\ Results \subseteq Nat \cup {Error, Null}
  /\ IterationLimit \in Nat
  /\ MaxActive \in Nat
  /\ MaxLost \in Nat

VARIABLES
  graph,    \* the execution's graph version
  exec,     \* the execution as the latest checkpoint has it
  outs,     \* outputs of the super-step in flight, in order of completion
  lost      \* ticks lost so far

graphVars == <<graph, exec, outs, lost>>

\* fan_in_consuming: the node the first edge leads to, if that is a FanIn.
FanInConsuming(n) ==
  LET first == {i \in DOMAIN graph.edges : /\ graph.edges[i].from = n
                                           /\ \A j \in 1..i - 1 : graph.edges[j].from # n}
  IN  {graph.edges[i].to : i \in first} \cap OfKind(graph, "FanIn")

FanIns == OfKind(graph, "FanIn")

NoBranch == -1
Plain(n) == [node |-> n, branch |-> NoBranch]

\* evaluate_condition: the edges whose condition holds of the state as it is just then.
Holding(items) == {edge \in EdgesOf(graph) : edge.always \/ items \in edge.when}

\* The edges that leave a node and hold, as the nodes they lead to.
Successors(n, holds) ==
  LET fired == Only(graph.edges, {edge \in holds : edge.from = n}) IN
  [i \in DOMAIN fired |-> Plain(fired[i].to)]

-----------------------------------------------------------------------------
(* What step() relies on beyond validate(). *)

Targets(g) == {g.target[n] : n \in OfKind(g, "FanOut")}

\* Only FanOuts lead to their targets, and the targets, no other node, lead to FanIns.
Branched(g) ==
  /\ g.entry \notin Targets(g)
  /\ \A edge \in EdgesOf(g) :
       /\ edge.to \notin Targets(g)
       /\ g.kind[edge.to] = "FanIn" <=> edge.from \in Targets(g)

\* Nodes that only nodes of the same set lead to or start, each by one edge at most.
Trunk(g, trunk) ==
  /\ \A edge \in EdgesOf(g) : edge.to \in trunk => edge.from \in trunk
  /\ \A n \in OfKind(g, "FanOut") : g.target[n] \in trunk => n \in trunk
  /\ \A i, j \in DOMAIN g.edges :
       g.edges[i].from = g.edges[j].from /\ {g.edges[i].to, g.edges[j].to} \subseteq trunk => i = j

\* Every FanOut has a target and a FanIn of its own, and one way leads to it, so that it is
\* not started again before its branches are in.
FanShaped(g) ==
  /\ Branched(g)
  /\ g.kind[g.entry] # "FanIn"
  /\ \A n \in OfKind(g, "FanOut") : g.kind[g.target[n]] \notin {"FanOut", "FanIn"}
  /\ \A m, n \in OfKind(g, "FanOut") : g.target[m] = g.target[n] => m = n
  /\ \A d, e \in EdgesOf(g) : g.kind[d.to] = "FanIn" /\ d.to = e.to => d.from = e.from
  /\ \A n \in OfKind(g, "FanOut") :
       \E trunk \in SUBSET NodesOf(g) : g.target[n] \in trunk /\ Trunk(g, trunk)

-----------------------------------------------------------------------------
(* step(): the outputs are folded into an accumulator - what they do to the
   execution, the next active nodes, whether a node failed, whether it panicked. *)

\* What is no array has no elements.
Elements(result) == IF result \in Nat THEN result ELSE 0

\* apply_output: a Task's Replace may rewrite the array.
ApplyOutput(items, o) ==
  IF graph.kind[o.active.node] = "Task" /\ o.active.node \in graph.writes /\ o.result # Error
  THEN Elements(o.result) ELSE items

\* open_fan_in_barrier: one empty result per branch spawned.
OpenFanInBarrier(slots, target, items) ==
  [f \in DOMAIN slots |->
     IF f \in FanInConsuming(target) THEN [i \in 1..items |-> Null] ELSE slots[f]]

\* Mutant: branches without an index.
FanOutUnnumbered(a, o) ==
  LET target == graph.target[o.active.node] IN
  [a EXCEPT !.slots = OpenFanInBarrier(@, target, a.items),
            !.next = @ \o [i \in 1..a.items |-> Plain(target)]]

\* fan_handled_output at a FanOut: one branch per element.
FanOut(a, o) ==
  LET target == graph.target[o.active.node] IN
  [a EXCEPT !.slots = OpenFanInBarrier(@, target, a.items),
            !.next = @ \o [i \in 1..a.items |-> [node |-> target, branch |-> i - 1]]]

\* Mutant: results in order of arrival.
ReportedInOrder(results, branch, result) == Append(SelectSeq(results, LAMBDA r : r # Null), result)

\* results.resize, then the branch's own place.
Reported(results, branch, result) ==
  LET size == IF branch >= Len(results) THEN branch + 1 ELSE Len(results) IN
  [i \in 1..size |-> IF i = branch + 1 THEN result
                     ELSE IF i <= Len(results) THEN results[i] ELSE Null]

\* Mutant: the FanIn fires on the first branch.
RecordFanInBranchEager(a, o, f) ==
  LET results == Reported(a.slots[f], o.active.branch, o.result) IN
  IF o.active.branch = NoBranch THEN [a EXCEPT !.panic = TRUE]
  ELSE [a EXCEPT !.slots[f] = results, !.next = Append(@, Plain(f))]

\* The FanIn's own reducer, given one result after the other.
FoldResults(items, results, f) ==
  IF f \in graph.writes THEN Elements(results[Len(results)]) ELSE items

\* record_fan_in_branch: "a FanOut target always carries a branch" or it panics.
RecordFanInBranch(a, o, f) ==
  LET results == Reported(a.slots[f], o.active.branch, o.result) IN
  IF o.active.branch = NoBranch THEN [a EXCEPT !.panic = TRUE]
  ELSE IF \E i \in DOMAIN results : results[i] = Null THEN [a EXCEPT !.slots[f] = results]
  ELSE [a EXCEPT !.slots[f] = results, !.folded[f] = results, !.next = Append(@, Plain(f)),
                 !.items = FoldResults(@, results, f)]

\* record_edges, on the state as the outputs so far have left it.
RecordEdges(a, o) ==
  IF o.result = Error THEN [a EXCEPT !.failed = TRUE]
  ELSE [a EXCEPT !.next = @ \o Successors(o.active.node, Holding(a.items))]

\* The output of a branch, which its FanIn takes.
Reports(o) ==
  /\ graph.kind[o.active.node] \notin {"FanOut", "FanIn"}
  /\ FanInConsuming(o.active.node) # {}
  /\ o.result # Error

\* One output: apply_output, then fan_handled_output or record_edges.
OneOutput(a, o) ==
  LET applied == [a EXCEPT !.items = ApplyOutput(@, o)] IN
  IF graph.kind[o.active.node] = "FanOut" THEN FanOut(applied, o)
  ELSE IF Reports(o)
  THEN RecordFanInBranch(applied, o, CHOOSE f \in FanInConsuming(o.active.node) : TRUE)
  ELSE RecordEdges(applied, o)

Accumulated(x, os) ==
  LET start == [items |-> x.items, slots |-> x.slots, folded |-> x.folded,
                next |-> IF os = <<>> THEN x.nodes ELSE <<>>,
                failed |-> FALSE, panic |-> FALSE]
      after[k \in 0..Len(os)] == IF k = 0 THEN start ELSE OneOutput(after[k - 1], os[k])
  IN  after[Len(os)]

\* expand_completed_fan_ins, with the conditions that hold once all outputs are in.
ExpandCompletedFanIns(next, holds) ==
  LET expanded[k \in 0..Len(next)] ==
        IF k = 0 THEN <<>>
        ELSE expanded[k - 1] \o
               (IF graph.kind[next[k].node] = "FanIn" THEN Successors(next[k].node, holds)
                ELSE <<next[k]>>)
  IN  expanded[Len(next)]

\* dedup_by drops neighbours that are equal.
Dedup(next) ==
  LET kept == Only([i \in DOMAIN next |-> i],
                   {i \in DOMAIN next : i > 1 => next[i] # next[i - 1]})
  IN  [k \in DOMAIN kept |-> next[kept[k]]]

\* The active nodes that park an execution.
Parks(nodes) == \E i \in DOMAIN nodes : graph.kind[nodes[i].node] \in {"Wait", "Subgraph"}

\* The iteration every tick starts from: the row's, which no tick writes back.
Iteration == 0

\* step(), once the outputs are in, and park_next.  spent: budget or deadline is used up.
Step(x, os, spent) ==
  LET a == Accumulated(x, os)
      next == Dedup(ExpandCompletedFanIns(a.next, Holding(a.items)))
      ended(status, nodes) == [status |-> status, nodes |-> nodes, items |-> a.items,
                               slots |-> a.slots, folded |-> a.folded]
  IN  IF a.failed \/ (os # <<>> /\ spent) THEN ended("Failed", x.nodes)
      ELSE IF \E i \in DOMAIN next : graph.kind[next[i].node] = "End"
      THEN ended("Completed", <<>>)
      ELSE IF Iteration + 1 >= IterationLimit THEN ended("Failed", x.nodes)
      ELSE ended(IF Parks(next) THEN "Waiting" ELSE "Ready", next)

Panics(x, os) == Accumulated(x, os).panic

-----------------------------------------------------------------------------
(* The tick around it *)

GraphInit ==
  /\ graph \in Graphs
  /\ \E n \in Inputs :
       exec = [status |-> "Ready", nodes |-> <<Plain(graph.entry)>>, items |-> n,
               slots |-> [f \in FanIns |-> <<>>], folded |-> [f \in FanIns |-> <<>>]]
  /\ outs = <<>>
  /\ lost = 0

\* load_current_state: "Subgraph is not wired at the service level yet".
Runnable ==
  /\ exec.status = "Ready"
  /\ Len(exec.nodes) <= MaxActive
  /\ \A active \in Range(exec.nodes) : graph.kind[active.node] # "Subgraph"

AllIn == Runnable /\ Len(outs) = Len(exec.nodes)

\* run_active_nodes: a Task goes through an executor, any other node is Ok(null).
Complete(i, r) ==
  /\ Runnable
  /\ \A j \in DOMAIN outs : outs[j].at # i
  /\ graph.kind[exec.nodes[i].node] # "Task" => r = Null
  /\ outs' = Append(outs, [at |-> i, active |-> exec.nodes[i], result |-> r])
  /\ UNCHANGED <<graph, exec, lost>>

CompleteSome ==
  \E i \in DOMAIN exec.nodes : \E r \in Results \cup {Null} :
    /\ r \in Results \/ graph.kind[exec.nodes[i].node] # "Task"
    /\ Complete(i, r)

\* process: step() and commit.
StepCommit ==
  /\ AllIn
  /\ ~Panics(exec, outs)
  /\ \E spent \in BOOLEAN : exec' = Step(exec, outs, spent)
  /\ outs' = <<>>
  /\ UNCHANGED <<graph, lost>>

\* A panic in step() takes the tick down: nothing is committed.
StepPanics ==
  /\ AllIn
  /\ Panics(exec, outs)
  /\ outs' = <<>>
  /\ UNCHANGED <<graph, exec, lost>>

\* A crash or an error before the commit: the super-step is run again.
Lost ==
  /\ outs # <<>>
  /\ lost < MaxLost
  /\ lost' = lost + 1
  /\ outs' = <<>>
  /\ UNCHANGED <<graph, exec>>

\* Interrupt, Resume or an elapsed timer.
Wake ==
  /\ exec.status = "Waiting"
  /\ exec' = [exec EXCEPT !.status = "Ready"]
  /\ UNCHANGED <<graph, outs, lost>>

GraphNext == CompleteSome \/ StepCommit \/ StepPanics \/ Lost \/ Wake

GraphSpec == GraphInit /\ [][GraphNext]_graphVars

-----------------------------------------------------------------------------
(* Properties *)

\* Every graph that is run passed validate(); active nodes are nodes of it and
\* only a FanOut's target carries a branch.
GraphTypeOK ==
  /\ Valid(graph)
  /\ exec.status \in {"Ready", "Waiting", "Completed", "Failed"}
  /\ \A active \in Range(exec.nodes) :
       /\ active.node \in NodesOf(graph)
       /\ active.branch # NoBranch => active.node \in Targets(graph)
  /\ exec.items \in Nat
  /\ \A i, j \in DOMAIN outs : outs[i].at = outs[j].at => i = j

\* record_fan_in_branch's results when f's branches complete: by branch, whatever
\* order they completed in.
ByBranch(f) ==
  [i \in 1..Len(exec.slots[f]) |->
     LET o == CHOOSE o \in Range(outs) :
                o.active.branch = i - 1 /\ f \in FanInConsuming(o.active.node)
     IN  o.result]

\* The nodes only f leads to.
Behind(f) ==
  {n \in NodesOf(graph) : {edge.from : edge \in {d \in EdgesOf(graph) : d.to = n}} = {f}}

\* The barrier folds exactly one result per branch the FanOut spawned, in branch
\* order, and a node behind the FanIn becomes active only in a super-step that folded
\* them: whatever order the branches completed in, what other nodes of the super-step
\* do to the array, and however often the super-step is run again.
JoinsFoldEveryBranch ==
  [][exec' # exec /\ FanShaped(graph) => \A f \in FanIns :
       /\ exec'.folded[f] # exec.folded[f] => exec'.folded[f] = ByBranch(f)
       /\ \A active \in Range(exec'.nodes) \ Range(exec.nodes) :
            active.node \in Behind(f) =>
              exec'.slots[f] # <<>> /\ exec'.folded[f] = exec'.slots[f]]_graphVars

\* The outputs in the order p.
InOrder(p) == [i \in DOMAIN outs |-> outs[p[i]]]

Orders == Bijection(DOMAIN outs, DOMAIN outs)

\* Nothing that ran, and no FanIn it reports to, writes what conditions and FanOuts read.
NothingWritten(os) ==
  \A o \in Range(os) :
    o.active.node \notin graph.writes /\ FanInConsuming(o.active.node) \cap graph.writes = {}

\* What a super-step makes of the execution does not depend on which of its nodes
\* happened to finish first - the same status, the same nodes to run next, the same
\* barriers and results - as long as none of them writes what the conditions and
\* FanOuts of the others read.  Where one does, the order decides.
OrderIndependent ==
  AllIn /\ NothingWritten(outs) /\ FanShaped(graph) =>
    LET x == Step(exec, outs, FALSE) IN
    \A p \in Orders :
      LET y == Step(exec, InOrder(p), FALSE) IN
      /\ x.status = y.status
      /\ Range(x.nodes) = Range(y.nodes)
      /\ x.items = y.items
      /\ x.slots = y.slots
      /\ x.folded = y.folded

\* step() never meets a branch result without a branch index, in a graph in which only
\* FanOuts start their targets and only those lead to FanIns: what record_fan_in_branch
\* expects of every graph, and validate() does not ask for.
NeverPanics ==
  AllIn /\ Branched(graph) => ~Panics(exec, outs)
=============================================================================
