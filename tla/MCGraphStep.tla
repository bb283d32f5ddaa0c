---------------------------- MODULE MCGraphStep -----------------------------
(***************************************************************************)
(* Graphs for GraphStep: one FanOut, its branches and its FanIn, with any  *)
(* one further edge that validate() accepts, before or after the edges of  *)
(* the plain shape, and a further node of each kind; and two FanOuts, side *)
(* by side, one after the other, or started again by their own FanIns.     *)
(***************************************************************************)
EXTENDS GraphStep

KindWith(side) ==
  [src |-> "Task", fan |-> "FanOut", work |-> "Task", join |-> "FanIn",
   side |-> side, end |-> "End"]

\* An edge taken always, and one taken while the array has one element.
Edge(from, to) == [from |-> from, to |-> to, always |-> TRUE, when |-> {}]
Guarded(from, to) == [from |-> from, to |-> to, always |-> FALSE, when |-> {1}]

Cores ==
  {<<Edge("src", "fan"), Edge("work", "join"), last>> :
     last \in {Edge("join", "end"), Guarded("join", "end")}}

Extra ==
  LET nodes == {"src", "fan", "work", "join", "side", "end"} IN
  {Edge(n, m) : n, m \in nodes} \cup {Guarded(n, m) : n, m \in nodes}

Shaped(side, edges, writes) ==
  [kind |-> KindWith(side), edges |-> edges, target |-> [n \in {"fan"} |-> "work"],
   writes |-> writes, entry |-> "src"]

EdgeLists ==
  Cores \cup {<<x>> \o core : x \in Extra, core \in Cores}
        \cup {core \o <<x>> : x \in Extra, core \in Cores}

TwoFans(edges, writes) ==
  [kind |-> [src |-> "Task", fan |-> "FanOut", work |-> "Task", join |-> "FanIn",
             fan2 |-> "FanOut", work2 |-> "Task", join2 |-> "FanIn", end |-> "End"],
   edges |-> <<Edge("work", "join"), Edge("work2", "join2")>> \o edges,
   target |-> [n \in {"fan", "fan2"} |-> IF n = "fan" THEN "work" ELSE "work2"],
   writes |-> writes, entry |-> "src"]

FanPairs ==
  {TwoFans(edges, writes) : writes \in {{}, {"work2"}}, edges \in
     {<<Edge("src", "fan"), Edge("src", "fan2"), Guarded("join", "end"), Guarded("join2", "end")>>,
      <<Edge("src", "fan"), Edge("join", "fan2"), Guarded("join2", "src")>>,
      <<Edge("src", "fan"), Edge("src", "fan2"), Guarded("join", "fan"), Edge("join2", "end")>>}}

PlainFan == Shaped("Task", <<Edge("src", "fan"), Edge("work", "join"), Edge("join", "end")>>, {})

\* The array is written by nobody, by the branches it was read for, by their FanIn or by a node
\* beside them.
ValidGraphs ==
  {g \in {Shaped(side, edges, {}) : side \in {"Task", "Wait", "Subgraph"}, edges \in EdgeLists}
           \cup {Shaped("Task", edges, {n}) : n \in {"work", "join", "side"}, edges \in EdgeLists}
           \cup FanPairs : Valid(g)}

\* An executor fails, returns null or an array.
AnyResult == {Error, Null, 1, 2}
=============================================================================
