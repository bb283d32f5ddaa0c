----------------------------- MODULE ToolProofs -----------------------------
(***************************************************************************)
(* Proofs about the tool service: the registry, for any users, tools,      *)
(* files of the operator and calls in flight, and the race of an           *)
(* execution, for any number of sources and any chain of redirects.        *)
(***************************************************************************)
EXTENDS ToolRegistry, ToolRace, FiniteSetTheorems, TLAPS

(***************************************************************************)
(* The registry.                                                           *)
(***************************************************************************)

Keys == Owners \X Slugs

\* The table, the start in progress and the calls in flight, well formed.
RegistryTypeOK ==
  /\ rows \in [Keys -> Row \cup {NoRow}]
  /\ boot \in [pc : {"down", "seeding", "serving"}, todo : Seq(Slugs), made : BOOLEAN,
               failed : SUBSET Slugs]
  /\ config \in [overrides : [BuiltIns -> [enabled : BOOLEAN, text : {"shipped", "renamed"}]],
                 declared : SUBSET Slugs]
  /\ calls \in [Calls -> [pc : {"idle", "review", "activate"},
                          key : Keys \cup {<<System, "none">>}]]

\* The columns of a row, the steps of a start and of a call, by name.
Status(k) == rows[k].status
Risk(k) == rows[k].risk
Text(k) == rows[k].text
Sources(k) == rows[k].sources
Made(k) == rows[k] \in Row
BootAt(p) == boot.pc = p
Todo == boot.todo
Failed == boot.failed
InUse(b) == config.overrides[b].enabled
Declared == config.declared
CallAt(c, p) == calls[c].pc = p
CallKey(c) == calls[c].key

\* A call writes a row that a user has made, and activates one that passed a review.
CallsKnowTheirRow ==
  \A c \in Calls :
    /\ CallAt(c, "review") \/ CallAt(c, "activate") =>
         CallKey(c) \in Users \X Slugs /\ Made(CallKey(c))
    /\ CallAt(c, "activate") => CallKey(c) \in passed

\* A user's row is never under a reserved slug, races nothing, and is past the draft only when a
\* review passed it; the system's rows are read-only.
RowsAreOwned ==
  /\ \A k \in Users \X Slugs :
       /\ Made(k) => k[2] \notin BuiltIns /\ Sources(k) = FALSE
       /\ Status(k) \in {"validated", "active"} => k \in passed
  /\ \A s \in Slugs : Made(<<System, s>>) => Risk(<<System, s>>) = "read_only"

\* What the operator's files ask of a built-in tool, and of a row of their own.
AsOverridden(b) ==
  /\ InUse(b) => Status(<<System, b>>) = "active" /\ Text(<<System, b>>) = Named(b)
  /\ ~InUse(b) => Status(<<System, b>>) # "active"

AsDeclared(d) ==
  Made(<<System, d>>) /\ Status(<<System, d>>) = "active" /\ Sources(<<System, d>>) = TRUE

\* Everything that the start has seeded is as the files ask, and everything they ask for is seeded,
\* failed or still to come.
SeededSoFar ==
  /\ ~BootAt("down") =>
       /\ \A b \in BuiltIns : b \in ToSet(Todo) \/ b \in Failed \/ AsOverridden(b)
       /\ \A d \in Declared : d \in ToSet(Todo) \/ d \in Failed \/ AsDeclared(d)
  /\ BootAt("serving") => Todo = <<>>
  /\ Declared \cap BuiltIns = {}

RegistryInv == RegistryTypeOK /\ CallsKnowTheirRow /\ RowsAreOwned /\ SeededSoFar

-----------------------------------------------------------------------------
(* Lemmas *)

\* A row is made or it is not, and no row has no status.
LEMMA RowFacts ==
  ASSUME RegistryTypeOK, NEW k \in Keys
  PROVE  /\ Made(k) <=> Exists(rows[k])
         /\ Made(k) <=> Status(k) # "none"
         /\ Made(k) => rows[k] \in Row
<1>1. NoRow \notin Row /\ NoRow.status = "none"
  BY DEF NoRow, Row
<1>2. \A r \in Row : r.status # "none"
  BY DEF Row
<1> QED
  BY <1>1, <1>2 DEF RegistryTypeOK, Made, Exists, Status

\* A row that is written is as it was written, and the others are as they were.
LEMMA RowWritten ==
  ASSUME RegistryTypeOK, NEW k \in Keys, NEW r \in Row, rows' = [rows EXCEPT ![k] = r]
  PROVE  /\ rows' \in [Keys -> Row \cup {NoRow}]
         /\ Made(k)' /\ Status(k)' = r.status /\ Risk(k)' = r.risk /\ Text(k)' = r.text
         /\ Sources(k)' = r.sources
         /\ \A j \in Keys : j # k => /\ Made(j)' <=> Made(j)
                                     /\ Status(j)' = Status(j) /\ Risk(j)' = Risk(j)
                                     /\ Text(j)' = Text(j) /\ Sources(j)' = Sources(j)
  BY DEF RegistryTypeOK, Made, Status, Risk, Text, Sources

\* A write of the status alone leaves the rest of the row.
LEMMA StatusWritten ==
  ASSUME NEW r \in Row, NEW x \in {"draft", "validated", "active"}
  PROVE  LET q == [r EXCEPT !.status = x]
         IN  q \in Row /\ q.status = x /\ q.risk = r.risk /\ q.text = r.text
             /\ q.sources = r.sources
  BY DEF Row, Risks

\* What is left to do is the next slug and the rest.
LEMMA HeadAndTail ==
  ASSUME NEW s \in Seq(Slugs), s # <<>>
  PROVE  ToSet(s) = {Head(s)} \cup ToSet(Tail(s)) /\ Tail(s) \in Seq(Slugs) /\ Head(s) \in Slugs
<1>1. /\ Len(s) \in Nat \ {0} /\ DOMAIN s = 1 .. Len(s) /\ Head(s) = s[1]
      /\ DOMAIN Tail(s) = 1 .. Len(s) - 1
      /\ \A i \in 1 .. Len(s) - 1 : Tail(s)[i] = s[i + 1]
  OBVIOUS
<1>2. ToSet(s) \subseteq {Head(s)} \cup ToSet(Tail(s))
  <2> SUFFICES ASSUME NEW i \in DOMAIN s, i # 1 PROVE s[i] \in ToSet(Tail(s))
    BY <1>1 DEF ToSet
  <2>1. i - 1 \in 1 .. Len(s) - 1 /\ (i - 1) + 1 = i
    BY <1>1
  <2>2. Tail(s)[i - 1] = s[i]
    BY <1>1, <2>1
  <2> QED
    BY <1>1, <2>1, <2>2 DEF ToSet
<1>3. {Head(s)} \cup ToSet(Tail(s)) \subseteq ToSet(s)
  <2>1. 1 \in DOMAIN s /\ \A i \in 1 .. Len(s) - 1 : i + 1 \in DOMAIN s
    BY <1>1
  <2> QED
    BY <1>1, <2>1 DEF ToSet
<1> QED
  BY <1>2, <1>3

\* seed_system_tools goes through every built-in tool.
LEMMA EveryBuiltIn == ToSet(SetToSeq(BuiltIns)) = BuiltIns /\ SetToSeq(BuiltIns) \in Seq(BuiltIns)
<1> DEFINE n == Cardinality(BuiltIns)
           f == SetToSeq(BuiltIns)
<1>1. n \in Nat /\ ExistsBijection(1 .. n, BuiltIns)
  BY RegistryAssumption, FS_CardinalityType
<1>2. PICK g \in [1 .. n -> BuiltIns] : IsInjective(g)
  BY <1>1 DEF ExistsBijection, Bijection, Injection, IsInjective
<1>3. f \in [1 .. n -> BuiltIns] /\ IsInjective(f)
  BY <1>2 DEF SetToSeq
<1>4. f \in Injection(1 .. n, BuiltIns)
  BY <1>3 DEF Injection, IsInjective
<1>5. IsFiniteSet(1 .. n) /\ Cardinality(1 .. n) = n
  BY <1>1, FS_Interval
<1>6. f \in Surjection(1 .. n, BuiltIns)
  BY <1>4, <1>5, RegistryAssumption, FS_Injection
<1>7. \A b \in BuiltIns : \E i \in 1 .. n : f[i] = b
  BY <1>6 DEF Surjection
<1>8. f \in Seq(BuiltIns)
  BY <1>1, <1>3
<1> QED
  BY <1>3, <1>7, <1>8 DEF ToSet

\* A start has every built-in tool and every row of an accepted file ahead of it.
LEMMA SeedsEverything ==
  ASSUME NEW file \in Files
  PROVE  ToSeed(file) \in Seq(Slugs) /\ BuiltIns \subseteq ToSet(ToSeed(file))
         /\ ToSet(ToSeed(file)) \subseteq Slugs
<1> DEFINE b == SetToSeq(BuiltIns)
           q == [i \in DOMAIN ReadRows(file) |-> ReadRows(file)[i].slug]
<1>1. b \in Seq(Slugs) /\ ToSet(b) = BuiltIns
  BY EveryBuiltIn DEF Slugs
<1>2. file \in Seq(FileRow)
  <2>1. CASE file = <<>>
    BY <2>1
  <2>2. CASE \E x \in FileRow : file = <<x>>
    BY <2>2
  <2>3. CASE \E x, y \in FileRow : file = <<x, y>>
    BY <2>3
  <2> QED
    BY <2>1, <2>2, <2>3 DEF Files
<1>3. ReadRows(file) \in Seq(FileRow)
  BY <1>2 DEF ReadRows
<1>4. q \in Seq(Slugs)
  <2>1. \A i \in DOMAIN ReadRows(file) : ReadRows(file)[i] \in FileRow
    BY <1>3
  <2>2. Len(ReadRows(file)) \in Nat /\ DOMAIN ReadRows(file) = 1 .. Len(ReadRows(file))
    BY <1>3
  <2>3. q \in [1 .. Len(ReadRows(file)) -> Slugs]
    BY <2>1, <2>2 DEF FileRow
  <2> QED
    BY <2>2, <2>3
<1>5. ToSeed(file) = b \o q
  BY DEF ToSeed
<1> HIDE DEF b, q
<1>6. b \o q \in Seq(Slugs) /\ \A i \in DOMAIN b : i \in DOMAIN (b \o q) /\ (b \o q)[i] = b[i]
  BY <1>1, <1>4
<1> QED
  BY <1>1, <1>5, <1>6 DEF ToSet

-----------------------------------------------------------------------------
(* The invariant *)

\* The table is empty and nothing runs at first.
LEMMA RegistryInvInit == RegistryInit => RegistryInv
<1> SUFFICES ASSUME RegistryInit PROVE RegistryInv
  OBVIOUS
<1>1. rows \in [Keys -> Row \cup {NoRow}] /\ \A k \in Keys : rows[k] = NoRow
  BY DEF RegistryInit, Keys
<1>2. calls \in [Calls -> [pc : {"idle", "review", "activate"},
                           key : Keys \cup {<<System, "none">>}]]
  BY DEF RegistryInit, Idle
<1>3. /\ boot \in [pc : {"down", "seeding", "serving"}, todo : Seq(Slugs), made : BOOLEAN,
                   failed : SUBSET Slugs]
      /\ BootAt("down") /\ ~BootAt("serving") /\ Declared = {}
  BY DEF RegistryInit, BootAt, Declared
<1>4. config \in [overrides : [BuiltIns -> [enabled : BOOLEAN, text : {"shipped", "renamed"}]],
                  declared : SUBSET Slugs]
  BY DEF RegistryInit, NoOverride
<1>5. RegistryTypeOK
  BY <1>1, <1>2, <1>3, <1>4 DEF RegistryTypeOK
<1>6. CallsKnowTheirRow
  BY DEF RegistryInit, CallsKnowTheirRow, CallAt, Idle
<1>7. \A k \in Keys : Status(k) = "none" /\ ~Made(k)
  BY <1>1, <1>5, RowFacts DEF Status, NoRow
<1>8. RowsAreOwned
  BY <1>7 DEF RowsAreOwned, Keys, Owners
<1> QED
  BY <1>3, <1>5, <1>6, <1>8 DEF RegistryInv, SeededSoFar

\* What is the same row before and after a step.
RowKept(k) ==
  /\ Made(k)' <=> Made(k)
  /\ Status(k)' = Status(k) /\ Risk(k)' = Risk(k) /\ Text(k)' = Text(k)
  /\ Sources(k)' = Sources(k)

\* One step of the seeding, of slug x: it writes that row of the system's only, and what it is done
\* with is as the files ask, or has failed.
LEMMA SeedStep ==
  ASSUME RegistryInv, NEW x \in Slugs, BootAt("seeding"), BootAt("seeding")',
         UNCHANGED <<config, calls, passed>>,
         rows' \in [Keys -> Row \cup {NoRow}],
         boot' \in [pc : {"down", "seeding", "serving"}, todo : Seq(Slugs), made : BOOLEAN,
                    failed : SUBSET Slugs],
         \A k \in Keys : k # <<System, x>> => RowKept(k),
         Made(<<System, x>>)' => Risk(<<System, x>>)' = "read_only",
         ToSet(Todo) \subseteq ToSet(Todo') \cup {x}, Failed \subseteq Failed',
         \/ x \in ToSet(Todo') \/ x \in Failed'
         \/ (x \in BuiltIns => AsOverridden(x)') /\ (x \in Declared => AsDeclared(x)')
  PROVE  RegistryInv'
<1> USE DEF RegistryInv
<1>1. RegistryTypeOK'
  BY DEF RegistryTypeOK
<1>2. \A k \in Users \X Slugs : k \in Keys /\ k # <<System, x>>
  BY RegistryAssumption DEF Keys, Owners
<1>3. \A s \in Slugs : <<System, s>> \in Keys /\ (s # x => <<System, s>> # <<System, x>>)
  BY DEF Keys, Owners
<1>4. CallsKnowTheirRow'
  <2>1. \A c \in Calls : \A p : (CallAt(c, p)' <=> CallAt(c, p)) /\ CallKey(c)' = CallKey(c)
    BY DEF CallAt, CallKey
  <2> QED
    BY <1>2, <2>1 DEF CallsKnowTheirRow, RowKept
<1>5. RowsAreOwned'
  BY <1>2, <1>3 DEF RowsAreOwned, RowKept
<1>6. Declared' = Declared /\ (\A b \in BuiltIns : (InUse(b)' <=> InUse(b)) /\ Named(b)' = Named(b))
  BY DEF Declared, InUse, Named
<1>7. \A b \in BuiltIns : b # x /\ AsOverridden(b) => AsOverridden(b)'
  BY <1>3, <1>6 DEF AsOverridden, RowKept, Slugs
<1>8. \A d \in Declared : d # x /\ AsDeclared(d) => AsDeclared(d)'
  <2>1. Declared \subseteq Slugs
    BY DEF RegistryTypeOK, Declared
  <2> QED
    BY <1>3, <2>1 DEF AsDeclared, RowKept
<1>9. ~BootAt("down") /\ ~BootAt("serving")'
  BY DEF BootAt
<1>10. SeededSoFar'
  BY <1>6, <1>7, <1>8, <1>9 DEF SeededSoFar
<1> QED
  BY <1>1, <1>4, <1>5, <1>10

\* A step of a call, or of a user's: it writes one row of the user's and leaves the seeding alone.
LEMMA UserStep ==
  ASSUME RegistryInv, NEW k \in Users \X Slugs, UNCHANGED <<boot, config>>,
         rows' \in [Keys -> Row \cup {NoRow}],
         \A j \in Keys : j # k => RowKept(j)
  PROVE  SeededSoFar' /\ \A s \in Slugs : Made(<<System, s>>)' => Risk(<<System, s>>)' = "read_only"
<1> USE DEF RegistryInv
<1>1. \A s \in Slugs : <<System, s>> \in Keys /\ <<System, s>> # k
  BY RegistryAssumption DEF Keys, Owners
<1>2. /\ Declared' = Declared
      /\ \A b \in BuiltIns : (InUse(b)' <=> InUse(b)) /\ Named(b)' = Named(b)
      /\ Declared \subseteq Slugs
  BY DEF Declared, InUse, Named, RegistryTypeOK
<1>3. Todo' = Todo /\ Failed' = Failed /\ \A p : BootAt(p)' <=> BootAt(p)
  BY DEF Todo, Failed, BootAt
<1>4. \A b \in BuiltIns : AsOverridden(b) => AsOverridden(b)'
  BY <1>1, <1>2 DEF AsOverridden, RowKept, Slugs
<1>5. \A d \in Declared : AsDeclared(d) => AsDeclared(d)'
  BY <1>1, <1>2 DEF AsDeclared, RowKept
<1>6. SeededSoFar'
  BY <1>2, <1>3, <1>4, <1>5 DEF SeededSoFar
<1> QED
  BY <1>1, <1>6 DEF RowKept, RowsAreOwned

\* The slug a start is at: it is the head of what is left, and stays or is taken off.
LEMMA SeedsNext ==
  ASSUME RegistryInv, NEW slugs \in SUBSET Slugs, Seeding(slugs)
  PROVE  /\ Slug \in slugs /\ BootAt("seeding") /\ Todo \in Seq(Slugs) /\ Todo # <<>>
         /\ <<System, Slug>> \in Keys
         /\ ToSet(Todo) = {Slug} \cup ToSet(Tail(Todo)) /\ Tail(Todo) \in Seq(Slugs)
         /\ boot.failed \in SUBSET Slugs
<1>1. Todo \in Seq(Slugs) /\ Todo # <<>> /\ Slug = Head(Todo) /\ Slug \in slugs /\ BootAt("seeding")
      /\ boot.failed \in SUBSET Slugs
  BY DEF RegistryInv, RegistryTypeOK, Todo, Seeding, Slug, BootAt
<1> QED
  BY <1>1, HeadAndTail DEF Keys, Owners

\* Seeded: the tool is taken off what is left.
LEMMA SeededBoot ==
  ASSUME RegistryInv, Seeding(Slugs), NEW row, Seeded(row)
  PROVE  /\ boot' \in [pc : {"down", "seeding", "serving"}, todo : Seq(Slugs), made : BOOLEAN,
                       failed : SUBSET Slugs]
         /\ BootAt("seeding")' /\ ToSet(Todo) \subseteq ToSet(Todo') \cup {Slug} /\ Failed' = Failed
<1>1. Tail(boot.todo) \in Seq(Slugs) /\ ToSet(Todo) = {Slug} \cup ToSet(Tail(Todo))
      /\ boot.pc = "seeding"
  BY SeedsNext DEF Todo, BootAt
<1>2. /\ boot' \in [pc : {"down", "seeding", "serving"}, todo : Seq(Slugs), made : BOOLEAN,
                    failed : SUBSET Slugs]
      /\ boot'.todo = Tail(boot.todo) /\ boot'.pc = boot.pc /\ boot'.failed = boot.failed
  BY <1>1 DEF Seeded, RegistryInv, RegistryTypeOK
<1> QED
  BY <1>1, <1>2 DEF BootAt, Todo, Failed

\* Every step of a start, of a user and of a call keeps the invariant.
LEMMA RegistryInvNext == RegistryInv /\ [RegistryNext]_registryVars => RegistryInv'
<1> SUFFICES ASSUME RegistryInv, [RegistryNext]_registryVars PROVE RegistryInv'
  OBVIOUS
<1> USE DEF RegistryInv
<1> DEFINE Boots == [pc : {"down", "seeding", "serving"}, todo : Seq(Slugs), made : BOOLEAN,
                     failed : SUBSET Slugs]
           Call == [pc : {"idle", "review", "activate"}, key : Keys \cup {<<System, "none">>}]
<1>a. BuiltIns \subseteq Slugs /\ Custom \subseteq Slugs /\ Slugs \subseteq Slugs
  BY DEF Slugs
<1>b. rows' = rows => \A k \in Keys : RowKept(k)
  BY DEF RowKept, Made, Status, Risk, Text, Sources
<1>c. calls' = calls =>
        \A c \in Calls : \A p : (CallAt(c, p)' <=> CallAt(c, p)) /\ CallKey(c)' = CallKey(c)
  BY DEF CallAt, CallKey
<1>d. Users \X Slugs \subseteq Keys
  BY DEF Keys, Owners
<1>1. CASE Start
  <2>1. PICK overrides \in Overrides, file \in Files :
          /\ config' = [overrides |-> overrides, declared |-> ToSet(ToSeed(file)) \ BuiltIns]
          /\ boot' = [pc |-> "seeding", todo |-> ToSeed(file), made |-> FALSE, failed |-> {}]
    BY <1>1 DEF Start
  <2>2. UNCHANGED <<rows, calls, passed>>
    BY <1>1 DEF Start
  <2>3. /\ ToSeed(file) \in Seq(Slugs) /\ BuiltIns \subseteq ToSet(ToSeed(file))
        /\ ToSet(ToSeed(file)) \subseteq Slugs
    BY SeedsEverything
  <2>4. overrides \in [BuiltIns -> [enabled : BOOLEAN, text : {"shipped", "renamed"}]]
    <3>1. NoOverride \in [enabled : BOOLEAN, text : {"shipped", "renamed"}]
      BY DEF NoOverride
    <3> QED
      BY <3>1 DEF Overrides
  <2>5. RegistryTypeOK'
    BY <2>1, <2>2, <2>3, <2>4 DEF RegistryTypeOK
  <2>6. Todo' = ToSeed(file) /\ Declared' = ToSet(ToSeed(file)) \ BuiltIns /\ ~BootAt("serving")'
    BY <2>1 DEF Todo, Declared, BootAt
  <2>7. SeededSoFar'
    BY <2>3, <2>6 DEF SeededSoFar
  <2>8. CallsKnowTheirRow' /\ RowsAreOwned'
    BY <1>b, <1>c, <1>d, <2>2 DEF CallsKnowTheirRow, RowsAreOwned, RowKept, Keys, Owners
  <2> QED
    BY <2>5, <2>7, <2>8
<1>2. CASE Withdraw
  <2> DEFINE row == IF Exists(Stored) /\ Stored.status = "active"
                    THEN [Stored EXCEPT !.status = "draft"] ELSE Stored
  <2>1. Seeding(Slugs) /\ Seeding(BuiltIns) /\ Seeded(row) /\ UNCHANGED <<config, calls, passed>>
    BY <1>2, <1>a DEF Withdraw, Seeding
  <2>2. PICK x \in BuiltIns : x = Slug
    BY <1>a, <2>1, SeedsNext
  <2>3. <<System, x>> \in Keys /\ ~InUse(x) /\ x \in Slugs /\ x \notin Declared
    BY <1>2, <1>a, <2>1, <2>2, SeedsNext DEF Withdraw, InUse, SeededSoFar
  <2>4. /\ rows' \in [Keys -> Row \cup {NoRow}] /\ Status(<<System, x>>)' # "active"
        /\ \A k \in Keys : k # <<System, x>> => RowKept(k)
        /\ Made(<<System, x>>)' => Risk(<<System, x>>)' = "read_only"
    <3>1. CASE Exists(Stored) /\ Stored.status = "active"
      <4>1. Stored \in Row /\ Stored = rows[<<System, x>>]
        BY <2>2, <2>3, <3>1, RowFacts DEF Stored
      <4>2. PICK q \in Row : q = row
        BY <3>1, <4>1, StatusWritten
      <4>3. q.status = "draft" /\ q.risk = rows[<<System, x>>].risk
        BY <3>1, <4>1, <4>2, StatusWritten
      <4>4. rows' = [rows EXCEPT ![<<System, x>>] = q]
        BY <2>1, <2>2, <4>2 DEF Seeded
      <4>5. Risk(<<System, x>>) = "read_only"
        BY <2>3, <4>1 DEF RowsAreOwned, Made
      <4> QED
        BY <2>3, <4>3, <4>4, <4>5, RowWritten DEF RowKept, Risk
    <3>2. CASE ~(Exists(Stored) /\ Stored.status = "active")
      <4>1. rows' = rows
        BY <2>1, <2>2, <2>3, <3>2 DEF Seeded, Stored, RegistryTypeOK
      <4>2. Status(<<System, x>>) # "active"
        BY <2>2, <2>3, <3>2, RowFacts DEF Status, Stored
      <4> QED
        BY <1>b, <2>3, <4>1, <4>2 DEF RegistryTypeOK, RowKept, RowsAreOwned
    <3> QED
      BY <3>1, <3>2
  <2>5. /\ boot' \in Boots /\ BootAt("seeding")' /\ ToSet(Todo) \subseteq ToSet(Todo') \cup {x}
        /\ Failed' = Failed
    BY <2>1, <2>2, SeededBoot
  <2>6. AsOverridden(x)'
    BY <2>1, <2>3, <2>4 DEF AsOverridden, InUse
  <2>7. BootAt("seeding")
    BY <1>a, <2>1, SeedsNext
  <2> QED
    BY <2>1, <2>3, <2>4, <2>5, <2>6, <2>7, SeedStep
<1>3. CASE SeedStored
  <2> DEFINE row == IF SeedingAlreadyFinished(Stored, Named(Slug)) /\ ~boot.made THEN Stored
                    ELSE [Stored EXCEPT !.status = "active", !.text = Named(Slug)]
  <2>1. /\ Seeding(Slugs) /\ Seeding(BuiltIns) /\ Seeded(row) /\ UNCHANGED <<config, calls, passed>>
        /\ Exists(Stored)
    BY <1>3, <1>a DEF SeedStored, Seeding
  <2>2. PICK x \in BuiltIns : x = Slug
    BY <1>a, <2>1, SeedsNext
  <2>3. <<System, x>> \in Keys /\ InUse(x) /\ x \in Slugs /\ x \notin Declared
    BY <1>3, <1>a, <2>1, <2>2, SeedsNext DEF SeedStored, InUse, SeededSoFar
  <2>4. Stored \in Row /\ Stored = rows[<<System, x>>] /\ Stored.risk = "read_only"
    BY <2>1, <2>2, <2>3, RowFacts DEF Stored, Made, RowsAreOwned, Risk
  <2>5. Named(x) \in {"shipped", "renamed"} /\ Named(x)' = Named(x)
    BY <2>1 DEF RegistryTypeOK, Named
  <2>6. PICK q \in Row : q = row
    BY <2>2, <2>4, <2>5 DEF Row
  <2>7. q.status = "active" /\ q.risk = "read_only" /\ q.text = Named(x)
    BY <2>2, <2>4, <2>5, <2>6 DEF Row, SeedingAlreadyFinished
  <2>8. rows' = [rows EXCEPT ![<<System, x>>] = q]
    BY <2>1, <2>2, <2>6 DEF Seeded
  <2>9. /\ rows' \in [Keys -> Row \cup {NoRow}] /\ Status(<<System, x>>)' = "active"
        /\ Text(<<System, x>>)' = Named(x)'
        /\ \A k \in Keys : k # <<System, x>> => RowKept(k)
        /\ Risk(<<System, x>>)' = "read_only"
    BY <2>3, <2>5, <2>7, <2>8, RowWritten DEF RowKept
  <2>10. /\ boot' \in Boots /\ BootAt("seeding")' /\ ToSet(Todo) \subseteq ToSet(Todo') \cup {x}
         /\ Failed' = Failed
    BY <2>1, <2>2, SeededBoot
  <2>11. AsOverridden(x)'
    BY <2>1, <2>3, <2>9 DEF AsOverridden, InUse
  <2>12. BootAt("seeding")
    BY <1>a, <2>1, SeedsNext
  <2> QED
    BY <2>1, <2>3, <2>9, <2>10, <2>11, <2>12, SeedStep
<1>4. CASE SeedCreates
  <2> DEFINE row == Row0("read_only", IF Slug \in BuiltIns THEN Named(Slug) ELSE "declared")
  <2>1. /\ Seeding(Slugs) /\ UNCHANGED <<config, calls, passed>>
        /\ rows' = [rows EXCEPT ![<<System, Slug>>] = row]
        /\ boot' = [boot EXCEPT !.made = TRUE]
    BY <1>4 DEF SeedCreates
  <2>2. PICK x \in Slugs : x = Slug
    BY <1>a, <2>1, SeedsNext
  <2>3. <<System, x>> \in Keys /\ x \in ToSet(Todo) /\ BootAt("seeding")
    BY <1>a, <2>1, <2>2, SeedsNext
  <2>4. row \in Row /\ row.risk = "read_only"
    BY DEF RegistryTypeOK, Named, Row, Row0, Risks
  <2>5. PICK q \in Row : q = row
    BY <2>4
  <2>6. /\ rows' \in [Keys -> Row \cup {NoRow}] /\ Risk(<<System, x>>)' = "read_only"
        /\ \A k \in Keys : k # <<System, x>> => RowKept(k)
    <3> HIDE DEF row
    <3>1. rows' = [rows EXCEPT ![<<System, x>>] = q]
      BY <2>1, <2>2, <2>5
    <3> QED
      BY <2>3, <2>4, <2>5, <3>1, RowWritten DEF RowKept
  <2>7. boot' \in Boots /\ boot'.pc = boot.pc /\ boot'.todo = boot.todo /\ boot'.failed = boot.failed
    BY <2>1 DEF RegistryTypeOK
  <2>8. BootAt("seeding")' /\ Todo' = Todo /\ Failed' = Failed
    BY <2>3, <2>7 DEF BootAt, Todo, Failed
  <2> QED
    BY <2>1, <2>3, <2>6, <2>7, <2>8, SeedStep
<1>5. CASE SeedDeclared
  <2> DEFINE row == [status |-> "active", risk |-> "read_only", text |-> "declared", sources |-> TRUE]
  <2>1. Seeding(Slugs) /\ Seeding(Custom) /\ Seeded(row) /\ UNCHANGED <<config, calls, passed>>
    BY <1>5, <1>a DEF SeedDeclared, Seeding
  <2>2. PICK x \in Custom : x = Slug
    BY <1>a, <2>1, SeedsNext
  <2>3. <<System, x>> \in Keys /\ x \in Slugs /\ x \notin BuiltIns
    BY <1>a, <2>1, <2>2, SeedsNext, RegistryAssumption
  <2>4. row \in Row
    BY DEF Row, Risks
  <2>5. rows' = [rows EXCEPT ![<<System, x>>] = row]
    BY <2>1, <2>2 DEF Seeded
  <2>6. /\ rows' \in [Keys -> Row \cup {NoRow}] /\ Risk(<<System, x>>)' = "read_only"
        /\ Made(<<System, x>>)' /\ Status(<<System, x>>)' = "active"
        /\ Sources(<<System, x>>)' = TRUE
        /\ \A k \in Keys : k # <<System, x>> => RowKept(k)
    BY <2>3, <2>4, <2>5, RowWritten DEF RowKept
  <2>7. /\ boot' \in Boots /\ BootAt("seeding")' /\ ToSet(Todo) \subseteq ToSet(Todo') \cup {x}
        /\ Failed' = Failed
    BY <2>1, <2>2, SeededBoot
  <2>8. AsDeclared(x)'
    BY <2>6 DEF AsDeclared
  <2>9. BootAt("seeding")
    BY <1>a, <2>1, SeedsNext
  <2> QED
    BY <2>1, <2>3, <2>6, <2>7, <2>8, <2>9, SeedStep
<1>6. CASE SeedFails
  <2>1. /\ Seeding(Slugs) /\ UNCHANGED <<rows, config, calls, passed>>
        /\ boot' = [boot EXCEPT !.todo = Tail(@), !.made = FALSE, !.failed = @ \cup {Slug}]
    BY <1>6 DEF SeedFails
  <2>2. PICK x \in Slugs : x = Slug
    BY <1>a, <2>1, SeedsNext
  <2>3. /\ <<System, x>> \in Keys /\ BootAt("seeding") /\ boot.failed \cup {x} \in SUBSET Slugs
        /\ Tail(boot.todo) \in Seq(Slugs) /\ ToSet(Todo) = {x} \cup ToSet(Tail(boot.todo))
    BY <1>a, <2>1, <2>2, SeedsNext DEF Todo
  <2>4. /\ boot' \in Boots /\ boot'.pc = boot.pc /\ boot'.todo = Tail(boot.todo)
        /\ boot'.failed = boot.failed \cup {x}
    BY <2>1, <2>2, <2>3 DEF RegistryTypeOK
  <2>5. BootAt("seeding")' /\ ToSet(Todo) \subseteq ToSet(Todo') \cup {x} /\ x \in Failed'
        /\ Failed \subseteq Failed'
    BY <2>3, <2>4 DEF BootAt, Todo, Failed
  <2>6. /\ rows' \in [Keys -> Row \cup {NoRow}] /\ \A k \in Keys : RowKept(k)
        /\ Made(<<System, x>>)' => Risk(<<System, x>>)' = "read_only"
    BY <1>b, <2>1, <2>3 DEF RegistryTypeOK, RowKept, RowsAreOwned
  <2> QED
    BY <2>1, <2>3, <2>4, <2>5, <2>6, SeedStep
<1>7. CASE Serve
  <2>1. UNCHANGED <<rows, config, calls, passed>> /\ boot' = [boot EXCEPT !.pc = "serving"]
        /\ boot.pc = "seeding" /\ boot.todo = <<>>
    BY <1>7 DEF Serve
  <2>2. boot' \in Boots /\ boot'.pc = "serving" /\ boot'.todo = <<>> /\ boot'.failed = boot.failed
    BY <2>1 DEF RegistryTypeOK
  <2>3. /\ BootAt("seeding") /\ ~BootAt("down") /\ Todo = <<>> /\ Todo' = <<>> /\ Failed' = Failed
        /\ Declared' = Declared
        /\ \A b \in BuiltIns : (InUse(b)' <=> InUse(b)) /\ Named(b)' = Named(b)
        /\ Declared \subseteq Slugs
    BY <2>1, <2>2 DEF BootAt, Todo, Failed, Declared, InUse, Named, RegistryTypeOK
  <2>4. \A s \in Slugs : <<System, s>> \in Keys /\ RowKept(<<System, s>>)
    BY <1>b, <2>1 DEF Keys, Owners
  <2>5. \A b \in BuiltIns : AsOverridden(b) => AsOverridden(b)'
    BY <1>a, <2>3, <2>4 DEF AsOverridden, RowKept
  <2>6. \A d \in Declared : AsDeclared(d) => AsDeclared(d)'
    BY <2>3, <2>4 DEF AsDeclared, RowKept
  <2>7. SeededSoFar'
    BY <2>3, <2>5, <2>6 DEF SeededSoFar
  <2>8. CallsKnowTheirRow' /\ RowsAreOwned'
    BY <1>b, <1>c, <1>d, <2>1, <2>4 DEF CallsKnowTheirRow, RowsAreOwned, RowKept
  <2>9. RegistryTypeOK'
    BY <2>1, <2>2 DEF RegistryTypeOK
  <2> QED
    BY <2>7, <2>8, <2>9
<1>8. CASE Crash
  <2>1. /\ UNCHANGED <<rows, config, passed>> /\ calls' = [c \in Calls |-> Idle]
        /\ boot' = [pc |-> "down", todo |-> <<>>, made |-> FALSE, failed |-> {}]
    BY <1>8 DEF Crash
  <2>2. boot' \in Boots /\ BootAt("down")' /\ ~BootAt("serving")' /\ Declared' = Declared
    BY <2>1 DEF BootAt, Declared
  <2>3. calls' \in [Calls -> Call] /\ \A c \in Calls : ~CallAt(c, "review")' /\ ~CallAt(c, "activate")'
    BY <2>1 DEF Idle, CallAt
  <2>4. RegistryTypeOK' /\ SeededSoFar' /\ CallsKnowTheirRow'
    BY <2>1, <2>2, <2>3 DEF RegistryTypeOK, SeededSoFar, CallsKnowTheirRow
  <2>5. RowsAreOwned'
    BY <1>b, <1>d, <2>1 DEF RowsAreOwned, RowKept, Keys, Owners
  <2> QED
    BY <2>4, <2>5
<1>9. ASSUME NEW u \in Users, NEW slug \in Slugs, NEW risk \in Risks, CreateTool(u, slug, risk)
      PROVE  RegistryInv'
  <2>1. PICK k \in Users \X Slugs : k = <<u, slug>>
    OBVIOUS
  <2>a. k[2] = slug
    BY <2>1
  <2>2. PICK q \in Row : q = Row0(risk, "own")
    BY Zenon DEF Row, Row0
  <2>b. q.status = "draft" /\ q.sources = FALSE
    BY <2>2 DEF Row0
  <2>3. /\ UNCHANGED <<boot, config, calls, passed>> /\ slug \notin BuiltIns
        /\ rows' = [rows EXCEPT ![k] = q] /\ ~Exists(rows[k])
    BY <1>9, <2>1, <2>2, RegistryAssumption DEF CreateTool, ClaimsReservedSlug
  <2>4. k \in Keys /\ ~Made(k)
    BY <1>d, <2>3, RowFacts
  <2>5. /\ rows' \in [Keys -> Row \cup {NoRow}] /\ \A j \in Keys : j # k => RowKept(j)
        /\ Status(k)' = "draft" /\ Sources(k)' = FALSE
    BY <2>2, <2>b, <2>3, <2>4, RowWritten DEF RowKept
  <2>6. RegistryTypeOK'
    BY <2>3, <2>5 DEF RegistryTypeOK
  <2>7. SeededSoFar' /\ \A s \in Slugs : Made(<<System, s>>)' => Risk(<<System, s>>)' = "read_only"
    BY <2>3, <2>5, UserStep
  <2>8. RowsAreOwned'
    BY <1>d, <2>a, <2>3, <2>5, <2>7 DEF RowsAreOwned, RowKept
  <2>9. CallsKnowTheirRow'
    BY <1>c, <1>d, <2>3, <2>4, <2>5 DEF CallsKnowTheirRow, RowKept
  <2> QED
    BY <2>6, <2>7, <2>8, <2>9
<1>10. ASSUME NEW c \in Calls, NEW u \in Users, NEW slug \in Slugs, ValidateReads(c, u, slug)
       PROVE  RegistryInv'
  <2>1. PICK k \in Users \X Slugs : k = <<u, slug>>
    OBVIOUS
  <2>2. /\ UNCHANGED <<rows, boot, config, passed>> /\ Status(k) = "draft"
        /\ calls' = [calls EXCEPT ![c] = [pc |-> "review", key |-> k]]
    BY <1>10, <2>1 DEF ValidateReads, Status
  <2>3. Made(k) /\ Made(k)' /\ k \in Keys
    BY <1>b, <1>d, <2>2, RowFacts DEF RowKept
  <2>4. /\ calls' \in [Calls -> Call] /\ CallAt(c, "review")' /\ ~CallAt(c, "activate")'
        /\ CallKey(c)' = k
        /\ \A e \in Calls : e # c => \A p : (CallAt(e, p)' <=> CallAt(e, p)) /\ CallKey(e)' = CallKey(e)
    BY <2>2, <2>3 DEF RegistryTypeOK, CallAt, CallKey
  <2>5. RegistryTypeOK'
    BY <2>2, <2>4 DEF RegistryTypeOK
  <2>6. CallsKnowTheirRow'
    BY <1>b, <1>d, <2>2, <2>3, <2>4 DEF CallsKnowTheirRow, RowKept
  <2>7. SeededSoFar' /\ RowsAreOwned'
    BY <1>b, <1>d, <2>2, UserStep DEF RowsAreOwned, RowKept, RegistryTypeOK
  <2> QED
    BY <2>5, <2>6, <2>7
<1>11. ASSUME NEW c \in Calls, NEW u \in Users, NEW slug \in Slugs, ActivateReads(c, u, slug)
       PROVE  RegistryInv'
  <2>1. PICK k \in Users \X Slugs : k = <<u, slug>>
    OBVIOUS
  <2>2. /\ UNCHANGED <<rows, boot, config, passed>> /\ Status(k) = "validated"
        /\ calls' = [calls EXCEPT ![c] = [pc |-> "activate", key |-> k]]
    BY <1>11, <2>1 DEF ActivateReads, Status
  <2>3. Made(k) /\ Made(k)' /\ k \in Keys /\ k \in passed
    BY <1>b, <1>d, <2>2, RowFacts DEF RowKept, RowsAreOwned
  <2>4. /\ calls' \in [Calls -> Call] /\ CallAt(c, "activate")' /\ CallKey(c)' = k
        /\ \A e \in Calls : e # c => \A p : (CallAt(e, p)' <=> CallAt(e, p)) /\ CallKey(e)' = CallKey(e)
    BY <2>2, <2>3 DEF RegistryTypeOK, CallAt, CallKey
  <2>5. RegistryTypeOK'
    BY <2>2, <2>4 DEF RegistryTypeOK
  <2>6. CallsKnowTheirRow'
    BY <1>b, <1>d, <2>2, <2>3, <2>4 DEF CallsKnowTheirRow, RowKept
  <2>7. SeededSoFar' /\ RowsAreOwned'
    BY <1>b, <1>d, <2>2, UserStep DEF RowsAreOwned, RowKept, RegistryTypeOK
  <2> QED
    BY <2>5, <2>6, <2>7
<1>e. ASSUME NEW c \in Calls, calls' = [calls EXCEPT ![c] = Idle]
      PROVE  /\ calls' \in [Calls -> Call] /\ ~CallAt(c, "review")' /\ ~CallAt(c, "activate")'
             /\ \A e \in Calls : e # c => \A p : (CallAt(e, p)' <=> CallAt(e, p)) /\ CallKey(e)' = CallKey(e)
  <2>1. Idle \in Call /\ Idle.pc = "idle"
    BY DEF Idle
  <2> QED
    BY <1>e, <2>1 DEF RegistryTypeOK, CallAt, CallKey
<1>12. ASSUME NEW c \in Calls, ValidateWrites(c) PROVE RegistryInv'
  <2>1. CallAt(c, "review") /\ CallKey(c) \in Users \X Slugs /\ Made(CallKey(c))
    BY <1>12 DEF ValidateWrites, CallAt, CallsKnowTheirRow
  <2>2. PICK k \in Users \X Slugs : k = CallKey(c)
    BY <2>1
  <2>3. PICK met \in SUBSET AllCriteria :
          /\ rows' = [rows EXCEPT ![k].status =
                        IF Approved(rows[k].risk, met) THEN "validated" ELSE "draft"]
          /\ passed' = IF CriteriaFor(rows[k].risk) \subseteq met THEN passed \cup {k} ELSE passed
    BY <1>12, <2>2 DEF ValidateWrites, CallKey
  <2>4. UNCHANGED <<boot, config>> /\ calls' = [calls EXCEPT ![c] = Idle]
    BY <1>12 DEF ValidateWrites
  <2>5. k \in Keys /\ rows[k] \in Row /\ Made(k)
    BY <1>d, <2>1, <2>2 DEF Made
  <2> DEFINE v == IF Approved(rows[k].risk, met) THEN "validated" ELSE "draft"
  <2>6. v \in {"draft", "validated", "active"} /\ v # "active"
    OBVIOUS
  <2>7. v = "validated" => k \in passed'
    BY <2>3 DEF Approved
  <2>8. passed \subseteq passed'
    BY <2>3
  <2>9. rows' = [rows EXCEPT ![k] = [rows[k] EXCEPT !.status = v]]
    BY <2>3, <2>5 DEF RegistryTypeOK
  <2> HIDE DEF v
  <2>10. PICK q \in Row : q = [rows[k] EXCEPT !.status = v]
    BY <2>5, <2>6, StatusWritten
  <2>11. q.status = v /\ q.sources = Sources(k)
    BY <2>5, <2>6, <2>10, StatusWritten DEF Sources
  <2>12. /\ rows' \in [Keys -> Row \cup {NoRow}] /\ \A j \in Keys : j # k => RowKept(j)
         /\ Made(k)' /\ Status(k)' = v /\ Sources(k)' = Sources(k)
    BY <2>5, <2>9, <2>10, <2>11, RowWritten DEF RowKept
  <2>13. RegistryTypeOK'
    BY <1>e, <2>4, <2>12 DEF RegistryTypeOK
  <2>14. SeededSoFar' /\ \A s \in Slugs : Made(<<System, s>>)' => Risk(<<System, s>>)' = "read_only"
    BY <2>4, <2>12, UserStep
  <2>15. RowsAreOwned'
    BY <1>d, <2>5, <2>6, <2>7, <2>8, <2>12, <2>14 DEF RowsAreOwned, RowKept
  <2>16. CallsKnowTheirRow'
    BY <1>d, <1>e, <2>4, <2>8, <2>12 DEF CallsKnowTheirRow, RowKept
  <2> QED
    BY <2>13, <2>14, <2>15, <2>16
<1>13. ASSUME NEW c \in Calls, ActivateWrites(c) PROVE RegistryInv'
  <2>1. CallAt(c, "activate") /\ CallKey(c) \in Users \X Slugs /\ Made(CallKey(c))
        /\ CallKey(c) \in passed
    BY <1>13 DEF ActivateWrites, CallAt, CallsKnowTheirRow
  <2>2. PICK k \in Users \X Slugs : k = CallKey(c)
    BY <2>1
  <2>3. /\ rows' = [rows EXCEPT ![k].status = "active"]
        /\ UNCHANGED <<boot, config, passed>> /\ calls' = [calls EXCEPT ![c] = Idle]
    BY <1>13, <2>2 DEF ActivateWrites, CallKey
  <2>4. k \in Keys /\ rows[k] \in Row /\ Made(k) /\ k \in passed
    BY <1>d, <2>1, <2>2 DEF Made
  <2>5. rows' = [rows EXCEPT ![k] = [rows[k] EXCEPT !.status = "active"]]
    BY <2>3, <2>4 DEF RegistryTypeOK
  <2>6. PICK q \in Row : q = [rows[k] EXCEPT !.status = "active"]
    BY <2>4, StatusWritten
  <2>7. q.sources = Sources(k)
    BY <2>4, <2>6, StatusWritten DEF Sources
  <2>8. /\ rows' \in [Keys -> Row \cup {NoRow}] /\ \A j \in Keys : j # k => RowKept(j)
        /\ Made(k)' /\ Sources(k)' = Sources(k)
    BY <2>4, <2>5, <2>6, <2>7, RowWritten DEF RowKept
  <2>9. RegistryTypeOK'
    BY <1>e, <2>3, <2>8 DEF RegistryTypeOK
  <2>10. SeededSoFar' /\ \A s \in Slugs : Made(<<System, s>>)' => Risk(<<System, s>>)' = "read_only"
    BY <2>3, <2>8, UserStep
  <2>11. RowsAreOwned'
    BY <1>d, <2>3, <2>4, <2>8, <2>10 DEF RowsAreOwned, RowKept
  <2>12. CallsKnowTheirRow'
    <3> SUFFICES ASSUME NEW e \in Calls, CallAt(e, "review")' \/ CallAt(e, "activate")'
                 PROVE  /\ CallKey(e)' \in Users \X Slugs /\ Made(CallKey(e))'
                        /\ CallAt(e, "activate")' => CallKey(e)' \in passed'
      BY DEF CallsKnowTheirRow
    <3>1. e # c /\ CallKey(e)' = CallKey(e) /\ \A p : CallAt(e, p)' <=> CallAt(e, p)
      BY <1>e, <2>3
    <3>2. PICK j \in Users \X Slugs : j = CallKey(e) /\ Made(j) /\ (CallAt(e, "activate") => j \in passed)
      BY <3>1 DEF CallsKnowTheirRow
    <3>3. Made(j)' /\ Made(CallKey(e))' = Made(j)'
      BY <1>b, <1>d, <2>3, <3>1, <3>2, <2>8 DEF RowKept, Made
    <3> QED
      BY <2>3, <3>1, <3>2, <3>3
  <2> QED
    BY <2>9, <2>10, <2>11, <2>12
<1>14. ASSUME NEW c \in Calls, CallFails(c) PROVE RegistryInv'
  <2>1. UNCHANGED <<rows, boot, config, passed>> /\ calls' = [calls EXCEPT ![c] = Idle]
    BY <1>14 DEF CallFails
  <2>2. RegistryTypeOK' /\ CallsKnowTheirRow'
    <3> SUFFICES CallsKnowTheirRow'
      BY <1>e, <2>1 DEF RegistryTypeOK
    <3> SUFFICES ASSUME NEW e \in Calls, CallAt(e, "review")' \/ CallAt(e, "activate")'
                 PROVE  /\ CallKey(e)' \in Users \X Slugs /\ Made(CallKey(e))'
                        /\ CallAt(e, "activate")' => CallKey(e)' \in passed'
      BY DEF CallsKnowTheirRow
    <3>1. e # c /\ CallKey(e)' = CallKey(e) /\ \A p : CallAt(e, p)' <=> CallAt(e, p)
      BY <1>e, <2>1
    <3>2. PICK j \in Users \X Slugs : j = CallKey(e) /\ Made(j) /\ (CallAt(e, "activate") => j \in passed)
      BY <3>1 DEF CallsKnowTheirRow
    <3>3. Made(j)' /\ Made(CallKey(e))' = Made(j)'
      BY <1>b, <1>d, <2>1, <3>1, <3>2 DEF RowKept, Made
    <3> QED
      BY <2>1, <3>1, <3>2, <3>3
  <2>3. SeededSoFar' /\ RowsAreOwned'
    BY <1>b, <1>d, <2>1 DEF SeededSoFar, BootAt, Todo, Failed, Declared, AsOverridden, AsDeclared,
       InUse, Named, Made, Status, Text, Risk, Sources, RowsAreOwned
  <2> QED
    BY <2>2, <2>3
<1>15. CASE UNCHANGED registryVars
  <2>1. UNCHANGED <<rows, boot, config, calls, passed>>
    BY <1>15 DEF registryVars
  <2> QED
    BY <2>1
    DEF RegistryTypeOK, CallsKnowTheirRow, SeededSoFar, BootAt, Todo, Failed, Declared,
        AsOverridden, AsDeclared, InUse, Named, Made, Status, Text, Risk, Sources, RowsAreOwned,
        CallAt, CallKey
<1> QED
  BY <1>1, <1>2, <1>3, <1>4, <1>5, <1>6, <1>7, <1>8, <1>9, <1>10, <1>11, <1>12, <1>13, <1>14, <1>15
  DEF RegistryNext, Principals

\* find_tool and execute, for a row of the system's that is in use and races.
LEMMA DeclaredRaces ==
  ASSUME RegistryInv, NEW d \in Slugs, AsDeclared(d)
  PROVE  Execute(System, d) = "race"
<1> DEFINE k == <<System, d>>
<1>1. rows[k].status = "active" /\ rows[k].sources = TRUE /\ Made(k)
  BY DEF AsDeclared, Status, Sources
<1>2. rows[k].risk = "read_only"
  BY <1>1 DEF RegistryInv, RowsAreOwned, Risk
<1>3. FindTool(System, d) = k
  BY <1>1 DEF FindTool
<1>4. k # <<>>
  OBVIOUS
<1>5. ~RequiresApproval(rows[k].risk)
  BY <1>2 DEF RequiresApproval
<1> QED
  BY <1>1, <1>3, <1>4, <1>5 DEF Execute

\* Whatever a start found half done, and however many starts and faults came before: once the service
\* serves, the built-in tools and the rows of the operator's files are as those files ask, but for
\* what failed in this start (seed_system_tools, load_rows).
THEOREM SeedingFollowsTheFiles == RegistrySpec => []SeededAsConfigured
<1>1. RegistryInv => SeededAsConfigured
  <2> SUFFICES ASSUME RegistryInv, boot.pc = "serving" PROVE SeededAsConfigured
    BY DEF SeededAsConfigured
  <2>1. ~BootAt("down") /\ ToSet(Todo) = {} /\ Declared \subseteq Slugs
    BY DEF BootAt, RegistryInv, SeededSoFar, ToSet, RegistryTypeOK, Declared
  <2>2. \A b \in BuiltIns \ boot.failed : AsOverridden(b)
    BY <2>1 DEF RegistryInv, SeededSoFar, Failed
  <2>3. \A d \in config.declared \ boot.failed : Execute(System, d) = "race"
    BY <2>1, DeclaredRaces DEF RegistryInv, SeededSoFar, Failed, Declared
  <2>4. \A b \in BuiltIns \ boot.failed :
          LET row == rows[System, b] IN
          IF config.overrides[b].enabled
          THEN row.status = "active" /\ row.text = config.overrides[b].text
          ELSE row.status # "active"
    BY <2>2 DEF AsOverridden, InUse, Named, Status, Text
  <2> QED
    BY <2>3, <2>4 DEF SeededAsConfigured
<1> QED
  BY <1>1, RegistryInvInit, RegistryInvNext, PTL DEF RegistrySpec

\* Whatever calls of whatever users overlap, a user's tool is in the catalog only if a review found it
\* to meet every criterion, and what runs without approval is the operator's and read-only
\* (validate_tool, activate_tool, execute).
THEOREM OnlyReviewedIsActive == RegistrySpec => []ActiveWasReviewed
<1>1. RegistryInv => ActiveWasReviewed
  <2> SUFFICES ASSUME RegistryInv, NEW caller \in Callers
               PROVE  /\ \A k \in ListTools(caller) : k[1] # System => k \in passed
                      /\ \A slug \in Slugs : Execute(caller, slug) \in {"race", "built_in"} =>
                           LET key == FindTool(caller, slug) IN
                           key[1] = System /\ rows[key].risk = "read_only"
    BY DEF ActiveWasReviewed
  <2>1. ASSUME NEW k \in ListTools(caller), k[1] # System PROVE k \in passed
    <3>1. k \in Users \X Slugs /\ Status(k) = "active"
      BY <2>1 DEF ListTools, Callers, Status
    <3> QED
      BY <3>1 DEF RegistryInv, RowsAreOwned
  <2>2. ASSUME NEW slug \in Slugs, Execute(caller, slug) \in {"race", "built_in"}
        PROVE  FindTool(caller, slug)[1] = System /\ rows[FindTool(caller, slug)].risk = "read_only"
    <3>1. CASE caller # System /\ rows[caller, slug].status = "active"
      <4>1. PICK k \in Users \X Slugs : k = <<caller, slug>>
        BY <3>1 DEF Callers
      <4>2. k[2] = slug /\ FindTool(caller, slug) = k /\ k # <<>> /\ k \in Keys
        BY <3>1, <4>1 DEF FindTool, Keys, Owners
      <4>3. Made(k)
        BY <3>1, <4>1, <4>2, RowFacts DEF RegistryInv, Status
      <4>4. rows[k].sources = FALSE /\ slug \notin BuiltIns
        BY <4>2, <4>3 DEF RegistryInv, RowsAreOwned, Sources
      <4>5. Execute(caller, slug) \in {"requires_approval", "not_executable"}
        BY <4>2, <4>4 DEF Execute
      <4> QED
        BY <2>2, <4>5
    <3>2. CASE /\ ~(caller # System /\ rows[caller, slug].status = "active")
               /\ rows[System, slug].status = "active"
      <4>1. PICK k \in Keys : k = <<System, slug>>
        BY DEF Keys, Owners
      <4>2. FindTool(caller, slug) = k /\ k[1] = System /\ Status(k) = "active"
        BY <3>2, <4>1 DEF FindTool, Status
      <4>3. Made(k)
        BY <4>2, RowFacts DEF RegistryInv
      <4>4. rows[k].risk = "read_only"
        BY <4>1, <4>3 DEF RegistryInv, RowsAreOwned, Risk
      <4> QED
        BY <4>2, <4>4
    <3>3. CASE /\ ~(caller # System /\ rows[caller, slug].status = "active")
               /\ rows[System, slug].status # "active"
      BY <2>2, <3>3 DEF FindTool, Execute
    <3> QED
      BY <3>1, <3>2, <3>3
  <2> QED
    BY <2>1, <2>2
<1> QED
  BY <1>1, RegistryInvInit, RegistryInvNext, PTL DEF RegistrySpec

(***************************************************************************)
(* The race.                                                               *)
(***************************************************************************)

\* The call, its operations, its outcome and its requests, well formed.
RaceCall ==
  [kind : {"declarative", "fetch", "prefetch"}, width : Nat \ {0}, quorum : Nat \ {0},
   pc : {"parse", "guard", "race", "done"}, at : Nat \ {0}, ready : Seq(Index),
   result : {"none", "not_executable", "error", "ok"}]

RaceOp ==
  [state : {"new", "refused", "running", "taken", "failed", "dropped"}, url : Hosts, here : Hosts,
   hops : Nat]

RaceCheck == [op : Index, hop : Nat, host : Hosts]

RaceRequest == [op : Index, hop : Nat, host : Hosts, headers : SUBSET STRING]

RaceTypeOK ==
  /\ call \in RaceCall
  /\ op \in [Index -> RaceOp]
  /\ outcome \in [taken : Seq(Index), failures : SUBSET Index]
  /\ checked \subseteq RaceCheck /\ sent \subseteq RaceRequest

\* The parts of the call, of an operation and of the outcome, by name; a spot is the check that an
\* operation's next request needs.
CallIs(p) == call.pc = p
NextUp == call.at
Width == call.width
Wanted == call.quorum
Ready == call.ready
State(i) == op[i].state
Url(i) == op[i].url
Spot(i) == Check(i, op[i].hops, op[i].here)
Taken == outcome.taken
Failures == outcome.failures

\* What was let in is not refused and was checked where it is; nothing else is started.
LetInWasChecked ==
  /\ \A i \in ToSet(Ready) : State(i) # "refused" /\ Spot(i) \in checked
  /\ \A i \in Index : State(i) \notin {"new", "refused"} => i \in ToSet(Ready)

\* Before the race nothing has been asked for, and the urls are checked in their order.
NothingYet ==
  CallIs("parse") \/ CallIs("guard") =>
    /\ sent = {} /\ Taken = <<>> /\ Failures = {}
    /\ \A i \in Index : /\ Spot(i) = Check(i, 0, Url(i)) /\ State(i) \in {"new", "refused"}
                        /\ i >= NextUp => State(i) = "new"
    /\ \A i \in ToSet(Ready) : i < NextUp /\ State(i) = "new"

\* No operation is let in twice; in the race those before `at` were started and the others were not.
StartedInOrder ==
  /\ IsInjective(Ready)
  /\ CallIs("race") =>
       \A j \in DOMAIN Ready : IF j < NextUp THEN State(Ready[j]) \in {"running", "taken", "failed"}
                               ELSE State(Ready[j]) = "new"

\* The outcome is what the operations came to.
OutcomeIsTheirs ==
  /\ \A i \in Index : i \in ToSet(Taken) <=> State(i) = "taken"
  /\ \A i \in Index : i \in Failures <=> State(i) = "failed"

\* How many run, how many were taken, and what has become of the rest when the race ends without
\* its quorum.
WidthStaysFull ==
  /\ CallIs("race") => /\ \/ Cardinality(Running) = Width
                          \/ Cardinality(Running) < Width /\ NextUp > Len(Ready)
                       /\ Len(Taken) < Wanted
  /\ Len(Taken) <= Wanted
  /\ CallIs("done") /\ sent # {} /\ Len(Taken) < Wanted =>
       \A i \in ToSet(Ready) : State(i) \in {"taken", "failed"}

RaceInv ==
  /\ RaceTypeOK /\ LetInWasChecked /\ NothingYet /\ StartedInOrder /\ OutcomeIsTheirs
  /\ WidthStaysFull /\ RequestsStayGuarded

-----------------------------------------------------------------------------
(* Lemmas *)

\* What the steps need of the types.
LEMMA RaceTypes ==
  ASSUME RaceTypeOK
  PROVE  /\ NextUp \in Nat \ {0} /\ Width \in Nat \ {0} /\ Wanted \in Nat \ {0}
         /\ Ready \in Seq(Index) /\ Taken \in Seq(Index) /\ Failures \subseteq Index
         /\ ToSet(Ready) \subseteq Index /\ ToSet(Taken) \subseteq Index
         /\ Len(Taken) \in Nat /\ Len(Ready) \in Nat /\ DOMAIN Ready = 1 .. Len(Ready)
         /\ \A i \in Index : State(i) \in {"new", "refused", "running", "taken", "failed", "dropped"}
<1>1. NextUp \in Nat \ {0} /\ Width \in Nat \ {0} /\ Wanted \in Nat \ {0} /\ Ready \in Seq(Index)
  BY DEF RaceTypeOK, RaceCall, NextUp, Width, Wanted, Ready
<1>2. Taken \in Seq(Index) /\ Failures \subseteq Index
  BY DEF RaceTypeOK, Taken, Failures
<1>3. \A i \in Index : State(i) \in {"new", "refused", "running", "taken", "failed", "dropped"}
  BY DEF RaceTypeOK, RaceOp, State
<1> QED
  BY <1>1, <1>2, <1>3 DEF ToSet

\* The operations are finitely many, and so are those that run.
LEMMA RunningFinite == IsFiniteSet(Running) /\ Cardinality(Running) \in Nat
<1>1. IsFiniteSet(Index)
  BY RaceAssumption, FS_Interval DEF Index
<1>2. Running \in SUBSET Index
  BY DEF Running
<1>3. IsFiniteSet(Running)
  BY <1>1, <1>2, FS_Subset
<1> QED
  BY <1>3, FS_CardinalityType

\* A sequence that grew by one has that one more.
LEMMA AppendSet ==
  ASSUME NEW S, NEW s \in Seq(S), NEW x \in S
  PROVE  /\ Append(s, x) \in Seq(S) /\ Len(Append(s, x)) = Len(s) + 1
         /\ ToSet(Append(s, x)) = ToSet(s) \cup {x}
         /\ DOMAIN Append(s, x) = 1 .. Len(s) + 1
         /\ \A j \in 1 .. Len(s) : Append(s, x)[j] = s[j]
         /\ Append(s, x)[Len(s) + 1] = x
<1>1. /\ Append(s, x) \in Seq(S) /\ Len(Append(s, x)) = Len(s) + 1
      /\ DOMAIN Append(s, x) = 1 .. Len(s) + 1 /\ DOMAIN s = 1 .. Len(s) /\ Len(s) \in Nat
      /\ \A j \in 1 .. Len(s) : Append(s, x)[j] = s[j]
      /\ Append(s, x)[Len(s) + 1] = x
  OBVIOUS
<1>2. \A j \in 1 .. Len(s) + 1 : j \in 1 .. Len(s) \/ j = Len(s) + 1
  BY <1>1
<1>3. Len(s) + 1 \in 1 .. Len(s) + 1 /\ \A j \in 1 .. Len(s) : j \in 1 .. Len(s) + 1
  BY <1>1
<1>4. ToSet(Append(s, x)) \subseteq ToSet(s) \cup {x}
  BY <1>1, <1>2 DEF ToSet
<1>5. ToSet(s) \cup {x} \subseteq ToSet(Append(s, x))
  BY <1>1, <1>3 DEF ToSet
<1> QED
  BY <1>1, <1>4, <1>5

\* An operation whose state is set keeps the rest.
LEMMA StateSet ==
  ASSUME NEW r \in RaceOp,
         NEW x \in {"new", "refused", "running", "taken", "failed", "dropped"}
  PROVE  LET q == [r EXCEPT !.state = x]
         IN  q \in RaceOp /\ q.state = x /\ q.url = r.url /\ q.here = r.here /\ q.hops = r.hops
  BY DEF RaceOp

\* Setting one member's state changes nothing else of the race.
LEMMA OneStateSet ==
  ASSUME NEW f \in [Index -> RaceOp], NEW i \in Index,
         NEW x \in {"new", "refused", "running", "taken", "failed", "dropped"},
         NEW g, g = [f EXCEPT ![i].state = x]
  PROVE  /\ g \in [Index -> RaceOp] /\ g[i].state = x
         /\ \A j \in Index : /\ g[j].url = f[j].url /\ g[j].here = f[j].here
                             /\ g[j].hops = f[j].hops
                             /\ j # i => g[j].state = f[j].state
<1>1. g = [f EXCEPT ![i] = [f[i] EXCEPT !.state = x]]
  OBVIOUS
<1>2. f[i] \in RaceOp
  OBVIOUS
<1> DEFINE q == [f[i] EXCEPT !.state = x]
<1>3. q \in RaceOp /\ q.state = x /\ q.url = f[i].url /\ q.here = f[i].here /\ q.hops = f[i].hops
  BY <1>2, StateSet
<1>4. g = [f EXCEPT ![i] = q]
  BY <1>1
<1> HIDE DEF q
<1>5. g \in [Index -> RaceOp] /\ g[i] = q /\ \A j \in Index : j # i => g[j] = f[j]
  BY <1>3, <1>4
<1> QED
  BY <1>3, <1>5

\* A request is one of its operation where it is, and has a bound header only at its origin.
LEMMA RequestIs ==
  ASSUME NEW i \in Index, NEW o \in RaceOp
  PROVE  /\ Request(i, o) \in RaceRequest /\ Request(i, o).op = i
         /\ Check(i, Request(i, o).hop, Request(i, o).host) = Check(i, o.hops, o.here)
         /\ Request(i, o).headers \cap BoundHeaders # {} => Request(i, o).host = o.url
<1>1. SourceHeaders[i] \in SUBSET STRING
  BY RaceAssumption DEF Index
<1>2. HopRequest(i, o) \in SUBSET STRING
  BY <1>1 DEF HopRequest, Headers
<1>3. o.hops \in Nat /\ o.here \in Hosts
  BY DEF RaceOp
<1>4. HopRequest(i, o) \cap BoundHeaders # {} => o.here = o.url
  BY DEF HopRequest
<1> QED
  BY <1>2, <1>3, <1>4 DEF Request, RaceRequest

\* No request made before becomes unguarded: what was checked stays checked.
LEMMA RequestsKept ==
  ASSUME RaceInv, sent' = sent, checked \subseteq checked',
         \A j \in Index : Url(j)' = Url(j) /\ (State(j) # "refused" => State(j)' # "refused")
  PROVE  RequestsStayGuarded'
<1> SUFFICES ASSUME NEW r \in sent
             PROVE  (/\ Check(r.op, r.hop, r.host) \in checked /\ op[r.op].state # "refused"
                     /\ r.headers \cap BoundHeaders # {} => r.host = op[r.op].url)'
  BY DEF RequestsStayGuarded
<1>1. r.op \in Index
  BY DEF RaceInv, RaceTypeOK, RaceRequest
<1>2. /\ Check(r.op, r.hop, r.host) \in checked /\ State(r.op) # "refused"
      /\ r.headers \cap BoundHeaders # {} => r.host = Url(r.op)
  BY DEF RaceInv, RequestsStayGuarded, State, Url
<1>3. Check(r.op, r.hop, r.host)' = Check(r.op, r.hop, r.host) /\ BoundHeaders' = BoundHeaders
  BY DEF Check, BoundHeaders
<1> QED
  BY <1>1, <1>2, <1>3 DEF State, Url

\* A request that was checked before it is sent keeps them all guarded.
LEMMA RequestMade ==
  ASSUME RaceInv, NEW x \in Index, NEW m \in RaceRequest, m.op = x, checked \subseteq checked',
         sent' = sent \cup {m},
         \A j \in Index : Url(j)' = Url(j) /\ (State(j) # "refused" => State(j)' # "refused"),
         Check(x, m.hop, m.host) \in checked', State(x)' # "refused",
         m.headers \cap BoundHeaders # {} => m.host = Url(x)
  PROVE  RequestsStayGuarded' /\ sent' \subseteq RaceRequest
<1>1. ASSUME NEW r \in sent \cup {m}
      PROVE  /\ Check(r.op, r.hop, r.host) \in checked' /\ State(r.op)' # "refused"
             /\ r.headers \cap BoundHeaders # {} => r.host = Url(r.op)'
  <2>1. CASE r \in sent
    <3>1. r.op \in Index
      BY <2>1 DEF RaceInv, RaceTypeOK, RaceRequest
    <3>2. /\ Check(r.op, r.hop, r.host) \in checked /\ State(r.op) # "refused"
          /\ r.headers \cap BoundHeaders # {} => r.host = Url(r.op)
      BY <2>1 DEF RaceInv, RequestsStayGuarded, State, Url
    <3> QED
      BY <3>1, <3>2
  <2>2. CASE r = m
    BY <2>2
  <2> QED
    BY <2>1, <2>2
<1>2. RequestsStayGuarded'
  BY <1>1 DEF RequestsStayGuarded, State, Url, Check, BoundHeaders
<1> QED
  BY <1>2 DEF RaceInv, RaceTypeOK

-----------------------------------------------------------------------------
(* The invariant *)

\* Nothing was checked and nothing runs at first.
LEMMA RaceInvInit == RaceInit => RaceInv
<1> SUFFICES ASSUME RaceInit PROVE RaceInv
  OBVIOUS
<1>1. PICK kind \in {"declarative", "fetch", "prefetch"} :
        \E width \in Widths(kind), quorum \in Quorums(kind) :
          call = [kind |-> kind, width |-> width, quorum |-> quorum,
                  pc |-> IF kind = "declarative" THEN "parse" ELSE "guard",
                  at |-> 1, ready |-> <<>>, result |-> "none"]
  BY DEF RaceInit
<1>2. PICK width \in Widths(kind), quorum \in Quorums(kind) :
        call = [kind |-> kind, width |-> width, quorum |-> quorum,
                pc |-> IF kind = "declarative" THEN "parse" ELSE "guard",
                at |-> 1, ready |-> <<>>, result |-> "none"]
  BY <1>1
<1>3. width \in Nat \ {0} /\ quorum \in Nat \ {0}
  BY RaceAssumption DEF Widths, Quorums
<1>4. call \in RaceCall /\ Ready = <<>> /\ ~CallIs("race") /\ ~CallIs("done") /\ NextUp = 1
      /\ Wanted \in Nat \ {0}
  BY <1>2, <1>3 DEF RaceCall, Ready, CallIs, NextUp, Wanted
<1>5. PICK url \in [Index -> Hosts] :
        op = [i \in Index |-> [state |-> "new", url |-> url[i], here |-> url[i], hops |-> 0]]
  BY DEF RaceInit
<1>6. op \in [Index -> RaceOp] /\ \A i \in Index : State(i) = "new" /\ Spot(i) = Check(i, 0, Url(i))
  BY <1>5 DEF RaceOp, State, Spot, Url
<1>7. /\ outcome \in [taken : Seq(Index), failures : SUBSET Index] /\ Taken = <<>>
      /\ Failures = {} /\ sent = {} /\ checked = {} /\ Len(Taken) = 0
  BY DEF RaceInit, Taken, Failures
<1>8. RaceTypeOK
  BY <1>4, <1>6, <1>7 DEF RaceTypeOK
<1>9. ToSet(Ready) = {} /\ ToSet(Taken) = {} /\ IsInjective(Ready) /\ Len(Taken) <= Wanted
  BY <1>4, <1>7 DEF ToSet, IsInjective
<1> QED
  BY <1>4, <1>6, <1>7, <1>8, <1>9
  DEF RaceInv, LetInWasChecked, NothingYet, StartedInOrder, OutcomeIsTheirs, WidthStaysFull,
      RequestsStayGuarded

\* A call that moves on keeps what it was asked for.
LEMMA CallMoves ==
  ASSUME call \in RaceCall, NEW n \in Nat \ {0}, NEW p \in {"parse", "guard", "race", "done"},
         NEW s \in {"none", "not_executable", "error", "ok"}, NEW q \in Seq(Index),
         call' = [call EXCEPT !.at = n, !.ready = q, !.pc = p, !.result = s]
  PROVE  /\ call' \in RaceCall /\ NextUp' = n /\ Ready' = q /\ Width' = Width /\ Wanted' = Wanted
         /\ call'.pc = p /\ call'.kind = call.kind
<1>1. call' \in RaceCall
  BY DEF RaceCall
<1>2. call'.at = n /\ call'.ready = q /\ call'.width = call.width /\ call'.quorum = call.quorum
  BY DEF RaceCall
<1>3. call'.pc = p /\ call'.kind = call.kind
  BY DEF RaceCall
<1> QED
  BY <1>1, <1>2, <1>3 DEF NextUp, Ready, Width, Wanted

\* What an operation that ended leaves behind: the race is over, the next operation has taken its
\* place, or there was no other.
LEMMA FinishedMoves ==
  ASSUME RaceInv, CallIs("race"), NEW i \in Index, State(i) = "running", NEW won \in BOOLEAN,
         Finished(i, won)
  PROVE  /\ call' \in RaceCall /\ op' \in [Index -> RaceOp]
         /\ outcome' \in [taken : Seq(Index), failures : SUBSET Index]
         /\ Ready' = Ready /\ Width' = Width /\ Wanted' = Wanted
         /\ \A j \in Index : Url(j)' = Url(j) /\ Spot(j)' = Spot(j)
         /\ Taken' = IF won THEN Append(Taken, i) ELSE Taken
         /\ Failures' = IF won THEN Failures ELSE Failures \cup {i}
         /\ State(i)' = IF won THEN "taken" ELSE "failed"
         /\ \/ /\ won /\ Len(Taken) + 1 >= Wanted
               /\ CallIs("done")' /\ ~CallIs("race")' /\ sent' = sent
               /\ \A j \in Index \ {i} :
                    State(j)' = IF State(j) = "running" THEN "dropped" ELSE State(j)
            \/ /\ won => Len(Taken) + 1 < Wanted
               /\ CallIs("race")' /\ ~CallIs("done")' /\ NextUp <= Len(Ready) /\ NextUp' = NextUp + 1
               /\ State(Ready[NextUp]) = "new"
               /\ \A j \in Index : j = Ready[NextUp] => State(j)' = "running"
               /\ \A j \in Index : j \notin {i, Ready[NextUp]} => State(j)' = State(j)
               /\ sent' = sent \cup {Request(Ready[NextUp], op[Ready[NextUp]])}
            \/ /\ won => Len(Taken) + 1 < Wanted
               /\ NextUp > Len(Ready) /\ NextUp' = NextUp /\ sent' = sent
               /\ \A j \in Index \ {i} : State(j)' = State(j)
               /\ \/ CallIs("done")' /\ ~CallIs("race")' /\ Running = {i}
                  \/ CallIs("race")' /\ ~CallIs("done")'
<1> DEFINE took == IF won THEN Append(Taken, i) ELSE Taken
           mark == IF won THEN "taken" ELSE "failed"
           quorum == won /\ Len(took) >= Wanted
           ended == [op EXCEPT ![i].state = mark]
           more == ~quorum /\ NextUp <= Len(Ready)
           over == quorum \/ (~more /\ Running = {i})
           new == Ready[NextUp]
<1>t. RaceTypeOK
  BY DEF RaceInv
<1>0. /\ NextUp \in Nat \ {0} /\ Wanted \in Nat \ {0} /\ Ready \in Seq(Index) /\ Taken \in Seq(Index)
      /\ Len(Taken) \in Nat /\ Len(Ready) \in Nat /\ Failures \subseteq Index
      /\ DOMAIN Ready = 1 .. Len(Ready)
  BY <1>t, RaceTypes
<1>1. took \in Seq(Index) /\ (won => Len(took) = Len(Taken) + 1)
  BY <1>0, AppendSet
<1>2. ended \in [Index -> RaceOp] /\ ended[i].state = mark
      /\ \A j \in Index : /\ ended[j].url = op[j].url /\ ended[j].here = op[j].here
                          /\ ended[j].hops = op[j].hops
                          /\ j # i => ended[j].state = op[j].state
  <2>1. mark \in {"new", "refused", "running", "taken", "failed", "dropped"}
    OBVIOUS
  <2>2. op \in [Index -> RaceOp] /\ ended = [op EXCEPT ![i].state = mark]
    BY <1>t DEF RaceTypeOK
  <2> HIDE DEF ended, mark
  <2> QED
    BY <2>1, <2>2, OneStateSet
<1>3. /\ outcome' = [taken |-> took, failures |-> IF won THEN Failures ELSE Failures \cup {i}]
      /\ op' = IF quorum
               THEN [j \in Index |-> IF ended[j].state = "running"
                                     THEN [ended[j] EXCEPT !.state = "dropped"] ELSE ended[j]]
               ELSE IF more THEN Launched(ended, new) ELSE ended
      /\ sent' = IF more THEN sent \cup {Request(new, op[new])} ELSE sent
      /\ call' = [call EXCEPT !.at = IF more THEN @ + 1 ELSE @,
                              !.pc = IF over THEN "done" ELSE @,
                              !.result = IF over THEN Result(took) ELSE @]
  BY DEF Finished, Taken, Failures, Wanted, NextUp, Ready, MoreToStart
<1>4. /\ outcome' \in [taken : Seq(Index), failures : SUBSET Index]
      /\ Taken' = took /\ Failures' = IF won THEN Failures ELSE Failures \cup {i}
  BY <1>0, <1>1, <1>3 DEF Taken, Failures
<1>5. /\ call' \in RaceCall /\ Ready' = Ready /\ Width' = Width /\ Wanted' = Wanted
      /\ NextUp' = IF more THEN NextUp + 1 ELSE NextUp
      /\ call'.pc = IF over THEN "done" ELSE "race"
  <2> DEFINE n == IF more THEN NextUp + 1 ELSE NextUp
             p == IF over THEN "done" ELSE call.pc
             s == IF over THEN Result(took) ELSE call.result
  <2>1. call \in RaceCall /\ call.pc = "race" /\ call.at = NextUp /\ call.ready = Ready
    BY <1>t DEF RaceTypeOK, CallIs, NextUp, Ready
  <2>2. n \in Nat \ {0}
    BY <1>0
  <2>3. p \in {"parse", "guard", "race", "done"}
    BY <2>1
  <2>4. s \in {"none", "not_executable", "error", "ok"}
    BY <2>1 DEF RaceCall, Result
  <2>5. call' = [call EXCEPT !.at = n, !.ready = Ready, !.pc = p, !.result = s]
    BY <1>3, <2>1 DEF RaceCall
  <2> HIDE DEF n, p, s
  <2>6. PICK a \in Nat \ {0}, b \in {"parse", "guard", "race", "done"},
             c \in {"none", "not_executable", "error", "ok"}, q \in Seq(Index) :
          a = n /\ b = p /\ c = s /\ q = Ready
    BY <1>0, <2>2, <2>3, <2>4
  <2>7. call' = [call EXCEPT !.at = a, !.ready = q, !.pc = b, !.result = c]
    BY <2>5, <2>6
  <2>8. call \in RaceCall
    BY <2>1
  <2>9. /\ call' \in RaceCall /\ NextUp' = a /\ Ready' = q /\ Width' = Width /\ Wanted' = Wanted
        /\ call'.pc = b
    BY <2>7, <2>8, CallMoves, ZenonT(60)
  <2> QED
    BY <2>1, <2>6, <2>9 DEF n, p
<1> HIDE DEF ended, over
<1>6. CASE quorum
  <2>0. ~more
    BY <1>6
  <2>1. \A j \in Index : [ended[j] EXCEPT !.state = "dropped"] \in RaceOp
          /\ [ended[j] EXCEPT !.state = "dropped"].state = "dropped"
          /\ [ended[j] EXCEPT !.state = "dropped"].url = ended[j].url
          /\ [ended[j] EXCEPT !.state = "dropped"].here = ended[j].here
          /\ [ended[j] EXCEPT !.state = "dropped"].hops = ended[j].hops
    BY <1>2, StateSet
  <2>2. op' = [j \in Index |-> IF ended[j].state = "running"
                               THEN [ended[j] EXCEPT !.state = "dropped"] ELSE ended[j]]
    BY <1>3, <1>6
  <2>3. op' \in [Index -> RaceOp]
    BY <1>2, <2>1, <2>2
  <2>4. \A j \in Index : /\ op'[j].url = ended[j].url /\ op'[j].here = ended[j].here
                         /\ op'[j].hops = ended[j].hops
                         /\ op'[j].state = IF ended[j].state = "running" THEN "dropped"
                                           ELSE ended[j].state
    BY <2>1, <2>2
  <2>5. \A j \in Index : Url(j)' = Url(j) /\ Spot(j)' = Spot(j)
    BY <1>2, <2>4 DEF Url, Spot
  <2>6. /\ State(i)' = mark
        /\ \A j \in Index \ {i} : State(j)' = IF State(j) = "running" THEN "dropped" ELSE State(j)
    BY <1>2, <2>4 DEF State
  <2>7. sent' = sent /\ CallIs("done")' /\ ~CallIs("race")'
    BY <1>3, <1>5, <1>6, <2>0 DEF CallIs, over
  <2>8. won /\ Len(Taken) + 1 >= Wanted
    BY <1>1, <1>6
  <2> QED
    BY <1>4, <1>5, <2>3, <2>5, <2>6, <2>7, <2>8
<1>7. ~quorum => (won => Len(Taken) + 1 < Wanted)
  BY <1>0, <1>1
<1>8. CASE more
  <2>1. new \in Index /\ State(new) = "new"
    <3>1. NextUp \in DOMAIN Ready
      BY <1>0, <1>8
    <3> QED
      BY <1>0, <3>1 DEF RaceInv, StartedInOrder
  <2>2. op' = [ended EXCEPT ![new].state = "running"]
    BY <1>3, <1>8 DEF Launched
  <2>3. /\ op' \in [Index -> RaceOp] /\ op'[new].state = "running"
        /\ \A j \in Index : /\ op'[j].url = ended[j].url /\ op'[j].here = ended[j].here
                            /\ op'[j].hops = ended[j].hops
                            /\ j # new => op'[j].state = ended[j].state
    BY <1>2, <2>1, <2>2, OneStateSet
  <2>4. \A j \in Index : Url(j)' = Url(j) /\ Spot(j)' = Spot(j)
    BY <1>2, <2>3 DEF Url, Spot
  <2>5. new # i
    BY <2>1
  <2>6. /\ State(i)' = mark
        /\ \A j \in Index : j = new => State(j)' = "running"
        /\ \A j \in Index : j \notin {i, new} => State(j)' = State(j)
    BY <1>2, <2>1, <2>3, <2>5 DEF State
  <2>7. sent' = sent \cup {Request(new, op[new])}
    BY <1>3, <1>8
  <2>8. CallIs("race")' /\ ~CallIs("done")' /\ NextUp <= Len(Ready) /\ NextUp' = NextUp + 1
    BY <1>5, <1>8 DEF CallIs, over
  <2> QED
    BY <1>4, <1>5, <1>7, <1>8, <2>1, <2>3, <2>4, <2>6, <2>7, <2>8
<1>9. CASE ~quorum /\ ~more
  <2>1. op' = ended /\ sent' = sent /\ NextUp > Len(Ready) /\ NextUp' = NextUp
    BY <1>0, <1>3, <1>5, <1>9
  <2>2. \A j \in Index : Url(j)' = Url(j) /\ Spot(j)' = Spot(j)
    BY <1>2, <2>1 DEF Url, Spot
  <2>3. State(i)' = mark /\ \A j \in Index \ {i} : State(j)' = State(j)
    BY <1>2, <2>1 DEF State
  <2>4. \/ CallIs("done")' /\ ~CallIs("race")' /\ Running = {i}
        \/ CallIs("race")' /\ ~CallIs("done")'
    BY <1>5, <1>9 DEF CallIs, over
  <2> QED
    BY <1>2, <1>4, <1>5, <1>7, <1>9, <2>1, <2>2, <2>3, <2>4
<1> QED
  BY <1>6, <1>8, <1>9

\* Who runs, once operation i has ended: the next one in its place, or one fewer.
LEMMA RunningReplaced ==
  ASSUME NEW i \in Index, State(i) = "running", State(i)' # "running", NEW x \in Index,
         State(x) # "running", State(x)' = "running",
         \A j \in Index : j \notin {i, x} => State(j)' = State(j)
  PROVE  Cardinality(Running)' = Cardinality(Running)
<1>1. Running' = (Running \ {i}) \cup {x} /\ i \in Running /\ x \notin Running \ {i}
  BY DEF Running, State
<1>2. IsFiniteSet(Running) /\ Cardinality(Running) \in Nat
  BY RunningFinite
<1>3. IsFiniteSet(Running \ {i}) /\ Cardinality(Running \ {i}) = Cardinality(Running) - 1
  BY <1>1, <1>2, FS_RemoveElement
<1>4. Cardinality((Running \ {i}) \cup {x}) = Cardinality(Running \ {i}) + 1
  BY <1>1, <1>3, FS_AddElement
<1> QED
  BY <1>1, <1>2, <1>3, <1>4

\* One that stops running leaves one less.
LEMMA RunningFewer ==
  ASSUME NEW i \in Index, State(i) = "running", State(i)' # "running",
         \A j \in Index \ {i} : State(j)' = State(j)
  PROVE  Cardinality(Running)' = Cardinality(Running) - 1
<1>1. Running' = Running \ {i} /\ i \in Running
  BY DEF Running, State
<1>2. IsFiniteSet(Running)
  BY RunningFinite
<1> QED
  BY <1>1, <1>2, FS_RemoveElement

\* The end of an operation, won or lost, keeps the invariant.
LEMMA FinishedKeeps ==
  ASSUME RaceInv, CallIs("race"), NEW i \in Index, State(i) = "running", NEW won \in BOOLEAN,
         Finished(i, won), checked \subseteq checked', checked' \subseteq RaceCheck
  PROVE  RaceInv'
<1> DEFINE QuorumMet ==
             /\ won /\ Len(Taken) + 1 >= Wanted
             /\ CallIs("done")' /\ ~CallIs("race")' /\ sent' = sent
             /\ \A j \in Index \ {i} :
                  State(j)' = IF State(j) = "running" THEN "dropped" ELSE State(j)
           AnotherStarts ==
             /\ won => Len(Taken) + 1 < Wanted
             /\ CallIs("race")' /\ ~CallIs("done")' /\ NextUp <= Len(Ready) /\ NextUp' = NextUp + 1
             /\ State(Ready[NextUp]) = "new"
             /\ \A j \in Index : j = Ready[NextUp] => State(j)' = "running"
             /\ \A j \in Index : j \notin {i, Ready[NextUp]} => State(j)' = State(j)
             /\ sent' = sent \cup {Request(Ready[NextUp], op[Ready[NextUp]])}
           NoneIsLeft ==
             /\ won => Len(Taken) + 1 < Wanted
             /\ NextUp > Len(Ready) /\ NextUp' = NextUp /\ sent' = sent
             /\ \A j \in Index \ {i} : State(j)' = State(j)
             /\ \/ CallIs("done")' /\ ~CallIs("race")' /\ Running = {i}
                \/ CallIs("race")' /\ ~CallIs("done")'
<1>1. /\ call' \in RaceCall /\ op' \in [Index -> RaceOp]
      /\ outcome' \in [taken : Seq(Index), failures : SUBSET Index]
      /\ Ready' = Ready /\ Width' = Width /\ Wanted' = Wanted
      /\ \A j \in Index : Url(j)' = Url(j) /\ Spot(j)' = Spot(j)
      /\ Taken' = IF won THEN Append(Taken, i) ELSE Taken
      /\ Failures' = IF won THEN Failures ELSE Failures \cup {i}
      /\ State(i)' = IF won THEN "taken" ELSE "failed"
      /\ QuorumMet \/ AnotherStarts \/ NoneIsLeft
  BY FinishedMoves
<1>2. /\ RaceTypeOK /\ LetInWasChecked /\ StartedInOrder /\ OutcomeIsTheirs /\ WidthStaysFull
      /\ RequestsStayGuarded
  BY DEF RaceInv
<1>3. /\ NextUp \in Nat \ {0} /\ Width \in Nat \ {0} /\ Wanted \in Nat \ {0}
      /\ Ready \in Seq(Index) /\ Taken \in Seq(Index) /\ Failures \subseteq Index
      /\ ToSet(Ready) \subseteq Index /\ ToSet(Taken) \subseteq Index
      /\ Len(Taken) \in Nat /\ Len(Ready) \in Nat /\ DOMAIN Ready = 1 .. Len(Ready)
      /\ \A j \in Index : State(j) \in {"new", "refused", "running", "taken", "failed", "dropped"}
  BY <1>2, RaceTypes
<1>4. /\ won => Len(Taken') = Len(Taken) + 1 /\ ToSet(Taken') = ToSet(Taken) \cup {i}
      /\ ~won => Taken' = Taken
  BY <1>1, <1>3, AppendSet
<1>5. Len(Taken) < Wanted /\ i \in ToSet(Ready)
  BY <1>2 DEF WidthStaysFull, LetInWasChecked
<1>6. PICK q \in Seq(Index) : q = Ready
  BY <1>3
<1>7. ToSet(Ready)' = ToSet(Ready) /\ ToSet(Taken)' = ToSet(Taken') /\ Len(Taken)' = Len(Taken')
  BY <1>1
<1>8. ~CallIs("parse")' /\ ~CallIs("guard")'
  BY <1>1 DEF CallIs
<1>9. NothingYet'
  BY <1>8 DEF NothingYet
<1>10. /\ won => State(i)' = "taken" /\ Failures' = Failures
       /\ ~won => State(i)' = "failed" /\ Failures' = Failures \cup {i}
  BY <1>1
<1> HIDE DEF QuorumMet, AnotherStarts, NoneIsLeft
<1>11. CASE QuorumMet
  <2>1. \A j \in Index \ {i} :
          State(j)' = IF State(j) = "running" THEN "dropped" ELSE State(j)
    BY <1>11 DEF QuorumMet
  <2>2. won /\ sent' = sent /\ CallIs("done")' /\ ~CallIs("race")' /\ Len(Taken) + 1 >= Wanted
    BY <1>11 DEF QuorumMet
  <2>3. RaceTypeOK'
    BY <1>1, <1>2, <2>2 DEF RaceTypeOK
  <2>4. \A j \in Index : State(j) # "refused" => State(j)' # "refused"
    BY <1>10, <2>1
  <2>5. LetInWasChecked'
    BY <1>1, <1>2, <1>3, <1>5, <1>7, <1>10, <2>1, <2>4 DEF LetInWasChecked
  <2>6. StartedInOrder'
    BY <1>1, <1>2, <2>2 DEF StartedInOrder
  <2>7. OutcomeIsTheirs'
    BY <1>2, <1>4, <1>7, <1>10, <2>1, <2>2 DEF OutcomeIsTheirs
  <2>8. WidthStaysFull'
    BY <1>1, <1>3, <1>4, <1>5, <1>7, <2>2 DEF WidthStaysFull
  <2>9. RequestsStayGuarded'
    BY <1>1, <2>2, <2>4, RequestsKept
  <2> QED
    BY <1>9, <2>3, <2>5, <2>6, <2>7, <2>8, <2>9 DEF RaceInv
<1>12. CASE AnotherStarts
  <2>1. PICK x \in Index : x = Ready[NextUp]
    <3>1. NextUp \in DOMAIN Ready
      BY <1>3, <1>12 DEF AnotherStarts
    <3> QED
      BY <1>3, <3>1
  <2>2. /\ won => Len(Taken) + 1 < Wanted
        /\ CallIs("race")' /\ ~CallIs("done")' /\ NextUp <= Len(Ready) /\ NextUp' = NextUp + 1
    BY <1>12 DEF AnotherStarts
  <2>3. /\ State(x) = "new" /\ State(x)' = "running"
        /\ \A j \in Index : j \notin {i, x} => State(j)' = State(j)
    BY <1>12, <2>1 DEF AnotherStarts
  <2>4. /\ x \in ToSet(Ready) /\ Spot(x) \in checked
        /\ \A j \in DOMAIN Ready : j # NextUp => Ready[j] # x
    <3>1. NextUp \in DOMAIN Ready
      BY <1>3, <2>2
    <3>2. x \in ToSet(Ready)
      BY <2>1, <3>1 DEF ToSet
    <3> QED
      BY <1>2, <2>1, <3>1, <3>2 DEF LetInWasChecked, StartedInOrder, IsInjective
  <2>5. \A j \in Index : State(j) # "refused" => State(j)' # "refused"
    BY <1>10, <2>3
  <2>6. RequestsStayGuarded' /\ sent' \subseteq RaceRequest
    <3>1. op[x] \in RaceOp
      BY <1>2 DEF RaceTypeOK
    <3>2. PICK m \in RaceRequest : m = Request(x, op[x])
      BY <3>1, RequestIs
    <3>3. sent' = sent \cup {m}
      BY <1>12, <2>1, <3>2 DEF AnotherStarts
    <3>4. /\ m.op = x /\ Check(x, m.hop, m.host) = Spot(x)
          /\ m.headers \cap BoundHeaders # {} => m.host = Url(x)
      BY <3>1, <3>2, RequestIs DEF Spot, Url
    <3>5. Check(x, m.hop, m.host) \in checked' /\ State(x)' # "refused"
      BY <2>3, <2>4, <3>4
    <3> QED
      BY <1>1, <2>5, <3>3, <3>4, <3>5, RequestMade
  <2>7. RaceTypeOK'
    BY <1>1, <2>6 DEF RaceTypeOK
  <2>8. LetInWasChecked'
    BY <1>1, <1>2, <1>3, <1>5, <1>7, <1>10, <2>3, <2>4, <2>5 DEF LetInWasChecked
  <2>9. StartedInOrder'
    <3>1. IsInjective(Ready')
      BY <1>1, <1>2 DEF StartedInOrder
    <3>2. ASSUME NEW j \in DOMAIN Ready
          PROVE  IF j < NextUp + 1 THEN State(q[j])' \in {"running", "taken", "failed"}
                 ELSE State(q[j])' = "new"
      <4>1. q[j] \in Index /\ j \in Nat
        BY <1>3, <1>6
      <4>2. CASE j = NextUp
        BY <1>3, <1>6, <2>1, <2>3, <4>2
      <4>3. CASE j < NextUp
        <5>1. State(q[j]) \in {"running", "taken", "failed"} /\ q[j] # x
          BY <1>2, <1>3, <1>6, <2>4, <4>1, <4>3 DEF StartedInOrder
        <5>2. State(q[j])' \in {"running", "taken", "failed"}
          BY <1>10, <2>3, <4>1, <5>1
        <5> QED
          BY <1>3, <4>1, <4>3, <5>2
      <4>4. CASE j > NextUp
        <5>1. State(q[j]) = "new" /\ q[j] # x
          BY <1>2, <1>3, <1>6, <2>4, <4>1, <4>4 DEF StartedInOrder
        <5>2. State(q[j])' = "new"
          BY <2>3, <4>1, <5>1
        <5> QED
          BY <1>3, <4>1, <4>4, <5>2
      <4> QED
        BY <1>3, <4>1, <4>2, <4>3, <4>4
    <3> QED
      BY <1>1, <1>6, <2>2, <3>1, <3>2 DEF StartedInOrder
  <2>10. OutcomeIsTheirs'
    BY <1>2, <1>4, <1>7, <1>10, <2>3 DEF OutcomeIsTheirs
  <2>11. WidthStaysFull'
    <3>1. Cardinality(Running)' = Cardinality(Running)
      BY <1>10, <2>3, RunningReplaced
    <3>2. Cardinality(Running) = Width
      BY <1>2, <1>3, <2>2 DEF WidthStaysFull
    <3> QED
      BY <1>1, <1>3, <1>4, <1>5, <1>7, <2>2, <3>1, <3>2 DEF WidthStaysFull
  <2> QED
    BY <1>9, <2>6, <2>7, <2>8, <2>9, <2>10, <2>11 DEF RaceInv
<1>13. CASE NoneIsLeft
  <2>1. \A j \in Index \ {i} : State(j)' = State(j)
    BY <1>13 DEF NoneIsLeft
  <2>2. /\ won => Len(Taken) + 1 < Wanted
        /\ NextUp > Len(Ready) /\ NextUp' = NextUp /\ sent' = sent
        /\ \/ CallIs("done")' /\ ~CallIs("race")' /\ Running = {i}
           \/ CallIs("race")' /\ ~CallIs("done")'
    BY <1>13 DEF NoneIsLeft
  <2>3. RaceTypeOK'
    BY <1>1, <1>2, <2>2 DEF RaceTypeOK
  <2>4. \A j \in Index : State(j) # "refused" => State(j)' # "refused"
    BY <1>10, <2>1
  <2>5. LetInWasChecked'
    BY <1>1, <1>2, <1>3, <1>5, <1>7, <1>10, <2>1, <2>4 DEF LetInWasChecked
  <2>6. \A j \in DOMAIN Ready : State(Ready[j]) \in {"running", "taken", "failed"} /\ j < NextUp
    BY <1>2, <1>3, <2>2 DEF StartedInOrder
  <2>7. StartedInOrder'
    <3>1. \A j \in DOMAIN Ready : q[j] \in Index /\ State(q[j])' \in {"running", "taken", "failed"}
      BY <1>3, <1>6, <1>10, <2>1, <2>6
    <3> QED
      BY <1>1, <1>2, <1>6, <2>2, <2>6, <3>1 DEF StartedInOrder
  <2>8. OutcomeIsTheirs'
    BY <1>2, <1>4, <1>7, <1>10, <2>1 DEF OutcomeIsTheirs
  <2>9. WidthStaysFull'
    <3>1. Cardinality(Running)' = Cardinality(Running) - 1 /\ Cardinality(Running) \in Nat
      BY <1>10, <2>1, RunningFewer, RunningFinite
    <3>2. Cardinality(Running) <= Width
      BY <1>2, <1>3, <3>1 DEF WidthStaysFull
    <3>3. ASSUME Running = {i}
          PROVE  \A j \in ToSet(Ready) : State(j)' \in {"taken", "failed"}
      <4>1. \A j \in ToSet(Ready) : State(j) \in {"running", "taken", "failed"}
        BY <2>6 DEF ToSet
      <4>2. \A j \in Index : State(j) = "running" => j = i
        BY <3>3 DEF Running, State
      <4> QED
        BY <1>3, <1>10, <2>1, <4>1, <4>2
    <3> QED
      BY <1>1, <1>3, <1>4, <1>5, <1>7, <2>2, <3>1, <3>2, <3>3 DEF WidthStaysFull
  <2>10. RequestsStayGuarded'
    BY <1>1, <2>2, <2>4, RequestsKept
  <2> QED
    BY <1>9, <2>3, <2>5, <2>7, <2>8, <2>9, <2>10 DEF RaceInv
<1> QED
  BY <1>1, <1>11, <1>12, <1>13

\* The first loop of race starts as many as the width and the operations allow, each once.
LEMMA FirstOpsCount ==
  ASSUME RaceInv
  PROVE  /\ FirstOps \subseteq ToSet(Ready)
         /\ \A j \in DOMAIN Ready : Ready[j] \in FirstOps <=> j <= Width
         /\ Cardinality(FirstOps) = IF Width <= Len(Ready) THEN Width ELSE Len(Ready)
<1>1. /\ Ready \in Seq(Index) /\ Len(Ready) \in Nat /\ DOMAIN Ready = 1 .. Len(Ready)
      /\ Width \in Nat \ {0}
  BY RaceTypes DEF RaceInv
<1>2. \A j, k \in DOMAIN Ready : Ready[j] = Ready[k] => j = k
  BY DEF RaceInv, StartedInOrder, IsInjective
<1>3. FirstOps = {Ready[j] : j \in {k \in DOMAIN Ready : k <= Width}}
  BY DEF FirstOps, Ready, Width
<1> DEFINE n == IF Width <= Len(Ready) THEN Width ELSE Len(Ready)
           f == [j \in 1 .. n |-> Ready[j]]
<1>4. n \in Nat /\ {k \in DOMAIN Ready : k <= Width} = 1 .. n /\ 1 .. n \subseteq DOMAIN Ready
  BY <1>1
<1>5. FirstOps = {Ready[j] : j \in 1 .. n}
  BY <1>3, <1>4
<1> HIDE DEF n
<1>6. f \in Bijection(1 .. n, FirstOps)
  <2>1. f \in [1 .. n -> FirstOps]
    BY <1>5
  <2>2. \A j, k \in 1 .. n : f[j] = f[k] => j = k
    BY <1>2, <1>4
  <2>3. \A t \in FirstOps : \E j \in 1 .. n : f[j] = t
    BY <1>5
  <2> QED
    BY <2>1, <2>2, <2>3 DEF Bijection, Injection, Surjection, IsInjective
<1>7. IsFiniteSet(1 .. n) /\ Cardinality(1 .. n) = n
  BY <1>4, FS_Interval
<1>8. Cardinality(FirstOps) = n
  BY <1>6, <1>7, FS_Bijection DEF ExistsBijection
<1>9. FirstOps \subseteq ToSet(Ready)
  BY <1>3 DEF ToSet
<1>10. \A j \in DOMAIN Ready : Ready[j] \in FirstOps <=> j <= Width
  BY <1>2, <1>3
<1> QED
  BY <1>8, <1>9, <1>10 DEF n

\* Checking the sources changes nothing but where the call is.
LEMMA ParseKeeps ==
  ASSUME RaceInv, Parse
  PROVE  RaceInv'
<1>1. call.pc = "parse" /\ UNCHANGED <<op, outcome, checked, sent>>
  BY DEF Parse
<1>2. \/ call' = [call EXCEPT !.pc = "guard"]
      \/ call' = [call EXCEPT !.pc = "done", !.result = "not_executable"]
  BY DEF Parse
<1>3. call \in RaceCall
  BY DEF RaceInv, RaceTypeOK
<1>4. call' \in RaceCall
  BY <1>2, <1>3 DEF RaceCall
<1>5. NextUp' = NextUp /\ Ready' = Ready /\ Width' = Width /\ Wanted' = Wanted
  BY <1>2, <1>3 DEF RaceCall, NextUp, Ready, Width, Wanted
<1>6. call'.pc \in {"guard", "done"}
  BY <1>2, <1>3 DEF RaceCall
<1>7. ~CallIs("race")' /\ ~CallIs("parse")' /\ CallIs("parse")
  BY <1>1, <1>6 DEF CallIs
<1>8. /\ \A j \in Index : State(j)' = State(j) /\ Url(j)' = Url(j) /\ Spot(j)' = Spot(j)
      /\ Taken' = Taken /\ Failures' = Failures
  BY <1>1 DEF State, Url, Spot, Taken, Failures
<1>9. ToSet(Ready)' = ToSet(Ready) /\ ToSet(Taken)' = ToSet(Taken) /\ ToSet(Ready) \subseteq Index
      /\ Len(Taken)' = Len(Taken)
  BY <1>5, <1>8, RaceTypes DEF RaceInv
<1>10. RaceTypeOK'
  BY <1>1, <1>4 DEF RaceInv, RaceTypeOK
<1>11. LetInWasChecked' /\ OutcomeIsTheirs'
  BY <1>1, <1>8, <1>9 DEF RaceInv, LetInWasChecked, OutcomeIsTheirs
<1>12. NothingYet'
  BY <1>1, <1>5, <1>7, <1>8, <1>9 DEF RaceInv, NothingYet
<1>13. StartedInOrder'
  BY <1>5, <1>7 DEF RaceInv, StartedInOrder
<1>14. sent' = {}
  BY <1>1, <1>7 DEF RaceInv, NothingYet
<1>15. WidthStaysFull'
  BY <1>5, <1>7, <1>9, <1>14 DEF RaceInv, WidthStaysFull
<1>16. RequestsStayGuarded'
  BY <1>14 DEF RequestsStayGuarded
<1> QED
  BY <1>10, <1>11, <1>12, <1>13, <1>15, <1>16 DEF RaceInv

\* The check of one url: it is let in, left out, or the end of the call.
LEMMA GuardMoves ==
  ASSUME RaceTypeOK, Guard
  PROVE  /\ call.pc = "guard" /\ NextUp \in Index /\ UNCHANGED <<outcome, sent>>
         /\ call' \in RaceCall /\ call'.pc \in {"guard", "done"}
         /\ NextUp' = NextUp + 1 /\ Width' = Width /\ Wanted' = Wanted
         /\ op' \in [Index -> RaceOp]
         /\ \A j \in Index : Url(j)' = Url(j) /\ Spot(j)' = Spot(j)
         /\ \A j \in Index : j # NextUp => State(j)' = State(j)
         /\ checked \subseteq checked' /\ checked' \subseteq RaceCheck
         /\ \/ /\ Check(NextUp, 0, Url(NextUp)) \in checked' /\ Ready' = Append(Ready, NextUp)
               /\ \A j \in Index : State(j)' = State(j)
            \/ /\ Ready' = Ready
               /\ \A j \in Index : j = NextUp => State(j)' = "refused"
<1>1. /\ call.pc = "guard" /\ call.at <= NOps /\ UNCHANGED <<outcome, sent>>
      /\ \E pass \in BOOLEAN :
           /\ checked' = IF pass THEN checked \cup {Check(call.at, 0, op[call.at].url)} ELSE checked
           /\ call' = [call EXCEPT !.at = @ + 1,
                                   !.ready = IF pass THEN Append(@, call.at) ELSE @,
                                   !.pc = IF call.kind = "fetch" /\ ~pass THEN "done" ELSE @,
                                   !.result = IF call.kind = "fetch" /\ ~pass THEN "error" ELSE @]
           /\ op' = [op EXCEPT ![call.at].state = IF pass THEN @ ELSE "refused"]
  <2>1. PICK source \in Source, input \in Input, resolves \in BOOLEAN :
          LET passes == /\ call.kind = "declarative" => Prepare(source, input)
                        /\ EnsurePublicUrl(op[call.at].url, resolves)
              over == call.kind = "fetch" /\ ~passes
          IN /\ call' = [call EXCEPT !.at = @ + 1,
                                     !.ready = IF passes THEN Append(@, call.at) ELSE @,
                                     !.pc = IF over THEN "done" ELSE @,
                                     !.result = IF over THEN "error" ELSE @]
             /\ op' = [op EXCEPT ![call.at].state = IF passes THEN @ ELSE "refused"]
             /\ checked' = IF passes THEN checked \cup {Check(call.at, 0, op[call.at].url)} ELSE checked
    BY DEF Guard
  <2> DEFINE passes == /\ call.kind = "declarative" => Prepare(source, input)
                       /\ EnsurePublicUrl(op[call.at].url, resolves)
  <2>2. passes \in BOOLEAN
    OBVIOUS
  <2>3. /\ call' = [call EXCEPT !.at = @ + 1,
                                !.ready = IF passes THEN Append(@, call.at) ELSE @,
                                !.pc = IF call.kind = "fetch" /\ ~passes THEN "done" ELSE @,
                                !.result = IF call.kind = "fetch" /\ ~passes THEN "error" ELSE @]
        /\ op' = [op EXCEPT ![call.at].state = IF passes THEN @ ELSE "refused"]
        /\ checked' = IF passes THEN checked \cup {Check(call.at, 0, op[call.at].url)} ELSE checked
    BY <2>1
  <2> HIDE DEF passes
  <2>4. call.pc = "guard" /\ call.at <= NOps /\ UNCHANGED <<outcome, sent>>
    BY DEF Guard
  <2> QED
    BY <2>2, <2>3, <2>4
<1>2. PICK pass \in BOOLEAN :
        /\ checked' = IF pass THEN checked \cup {Check(call.at, 0, op[call.at].url)} ELSE checked
        /\ call' = [call EXCEPT !.at = @ + 1,
                                !.ready = IF pass THEN Append(@, call.at) ELSE @,
                                !.pc = IF call.kind = "fetch" /\ ~pass THEN "done" ELSE @,
                                !.result = IF call.kind = "fetch" /\ ~pass THEN "error" ELSE @]
        /\ op' = [op EXCEPT ![call.at].state = IF pass THEN @ ELSE "refused"]
  BY <1>1
<1>3. call \in RaceCall /\ op \in [Index -> RaceOp]
  BY DEF RaceTypeOK
<1>4. NextUp \in Nat \ {0} /\ Ready \in Seq(Index)
  BY RaceTypes
<1>5. PICK x \in Index : x = NextUp
  BY <1>1, <1>4, RaceAssumption DEF Index, NextUp
<1>6. PICK n \in Nat \ {0}, p \in {"parse", "guard", "race", "done"},
           s \in {"none", "not_executable", "error", "ok"}, q \in Seq(Index) :
        /\ n = x + 1 /\ q = (IF pass THEN Append(Ready, x) ELSE Ready) /\ p \in {"guard", "done"}
        /\ call' = [call EXCEPT !.at = n, !.ready = q, !.pc = p, !.result = s]
  <2> DEFINE p0 == IF call.kind = "fetch" /\ ~pass THEN "done" ELSE call.pc
             s0 == IF call.kind = "fetch" /\ ~pass THEN "error" ELSE call.result
             q0 == IF pass THEN Append(Ready, x) ELSE Ready
  <2>1. x + 1 \in Nat \ {0}
    BY <1>4, <1>5
  <2>2. p0 \in {"guard", "done"}
    BY <1>1
  <2>3. s0 \in {"none", "not_executable", "error", "ok"}
    BY <1>3 DEF RaceCall
  <2>4. q0 \in Seq(Index)
    BY <1>4
  <2>5. call.at = x /\ call.ready = Ready
    BY <1>5 DEF NextUp, Ready
  <2>6. call' = [call EXCEPT !.at = x + 1, !.ready = q0, !.pc = p0, !.result = s0]
    BY <1>2, <1>3, <2>5 DEF RaceCall
  <2>7. p0 \in {"parse", "guard", "race", "done"}
    BY <2>2
  <2>8. q0 = (IF pass THEN Append(Ready, x) ELSE Ready)
    OBVIOUS
  <2> HIDE DEF p0, s0, q0
  <2> QED
    BY <2>1, <2>2, <2>3, <2>4, <2>6, <2>7, <2>8
<1>7. /\ call' \in RaceCall /\ NextUp' = n /\ Ready' = q /\ Width' = Width /\ Wanted' = Wanted
      /\ call'.pc = p
  <2>1. call' = [call EXCEPT !.at = n, !.ready = q, !.pc = p, !.result = s]
    BY <1>6
  <2>2. call \in RaceCall
    BY <1>3
  <2> QED
    BY <2>1, <2>2, CallMoves, ZenonT(60)
<1>8. PICK m \in {"new", "refused", "running", "taken", "failed", "dropped"} :
        m = IF pass THEN State(x) ELSE "refused"
  BY <1>5, RaceTypes
<1>9. op' = [op EXCEPT ![x].state = m]
  BY <1>2, <1>3, <1>5, <1>8 DEF State, NextUp
<1>10. /\ op' \in [Index -> RaceOp] /\ op'[x].state = m
       /\ \A j \in Index : /\ op'[j].url = op[j].url /\ op'[j].here = op[j].here
                           /\ op'[j].hops = op[j].hops
                           /\ j # x => op'[j].state = op[j].state
  BY <1>3, <1>9, OneStateSet
<1>11. \A j \in Index : Url(j)' = Url(j) /\ Spot(j)' = Spot(j) /\ (j # x => State(j)' = State(j))
  BY <1>10 DEF Url, Spot, State
<1>12. State(x)' = m
  BY <1>10 DEF State
<1>13. checked' = IF pass THEN checked \cup {Check(x, 0, Url(x))} ELSE checked
  BY <1>2, <1>5 DEF NextUp, Url
<1>14. Check(x, 0, Url(x)) \in RaceCheck /\ checked \subseteq RaceCheck
  <2>1. Url(x) \in Hosts
    BY <1>3 DEF RaceOp, Url
  <2> QED
    BY <2>1 DEF Check, RaceCheck, RaceTypeOK
<1>15. checked \subseteq checked' /\ checked' \subseteq RaceCheck
  BY <1>13, <1>14
<1> QED
  BY <1>1, <1>5, <1>6, <1>7, <1>8, <1>10, <1>11, <1>12, <1>13, <1>15

\* A url that is checked keeps the invariant.
LEMMA GuardKeeps ==
  ASSUME RaceInv, Guard
  PROVE  RaceInv'
<1>1. RaceTypeOK /\ LetInWasChecked /\ NothingYet /\ StartedInOrder /\ OutcomeIsTheirs /\ WidthStaysFull
  BY DEF RaceInv
<1>2. PICK x \in Index :
         /\ call.pc = "guard" /\ x = NextUp /\ UNCHANGED <<outcome, sent>>
         /\ call' \in RaceCall /\ call'.pc \in {"guard", "done"}
         /\ NextUp' = x + 1 /\ Width' = Width /\ Wanted' = Wanted
         /\ op' \in [Index -> RaceOp]
         /\ \A j \in Index : Url(j)' = Url(j) /\ Spot(j)' = Spot(j)
         /\ \A j \in Index : j # x => State(j)' = State(j)
         /\ checked \subseteq checked' /\ checked' \subseteq RaceCheck
         /\ \/ /\ Check(x, 0, Url(x)) \in checked' /\ Ready' = Append(Ready, x)
               /\ \A j \in Index : State(j)' = State(j)
            \/ /\ Ready' = Ready
               /\ State(x)' = "refused"
  BY <1>1, GuardMoves
<1>3. ~CallIs("race")' /\ ~CallIs("parse")' /\ CallIs("guard")
  BY <1>2 DEF CallIs
<1>4. /\ sent = {} /\ Taken = <<>> /\ Failures = {}
      /\ \A i \in Index : /\ Spot(i) = Check(i, 0, Url(i)) /\ State(i) \in {"new", "refused"}
                          /\ i >= x => State(i) = "new"
      /\ \A i \in ToSet(Ready) : i < x /\ State(i) = "new"
  BY <1>1, <1>2, <1>3 DEF NothingYet
<1>5. sent' = {} /\ Taken' = <<>> /\ Failures' = {} /\ Taken' = Taken
  BY <1>2, <1>4 DEF Taken, Failures
<1>6. /\ Ready \in Seq(Index) /\ ToSet(Ready) \subseteq Index /\ Wanted \in Nat \ {0}
      /\ DOMAIN Ready = 1 .. Len(Ready) /\ Len(Ready) \in Nat
  BY <1>1, RaceTypes
<1>7. x \in Nat /\ x >= x /\ Index \subseteq Nat /\ State(x) = "new" /\ x \notin ToSet(Ready)
  BY <1>4, <1>6, RaceAssumption DEF Index
<1>8. \/ /\ Check(x, 0, Url(x)) \in checked' /\ ToSet(Ready') = ToSet(Ready) \cup {x} /\ IsInjective(Ready')
         /\ \A j \in Index : State(j)' = State(j)
      \/ ToSet(Ready') = ToSet(Ready) /\ State(x)' = "refused" /\ IsInjective(Ready')
  <2>1. IsInjective(Ready)
    BY <1>1 DEF StartedInOrder
  <2>2. ASSUME Ready' = Append(Ready, x)
        PROVE  ToSet(Ready') = ToSet(Ready) \cup {x} /\ IsInjective(Ready')
    <3>1. /\ ToSet(Append(Ready, x)) = ToSet(Ready) \cup {x}
          /\ DOMAIN Append(Ready, x) = 1 .. Len(Ready) + 1
          /\ \A j \in 1 .. Len(Ready) : Append(Ready, x)[j] = Ready[j]
          /\ Append(Ready, x)[Len(Ready) + 1] = x
      BY <1>6, AppendSet
    <3>2. \A j \in 1 .. Len(Ready) : Ready[j] # x
      BY <1>6, <1>7 DEF ToSet
    <3>3. \A j \in 1 .. Len(Ready) + 1 : j \in 1 .. Len(Ready) \/ j = Len(Ready) + 1
      BY <1>6
    <3>4. \A j, k \in 1 .. Len(Ready) : Ready[j] = Ready[k] => j = k
      BY <1>6, <2>1 DEF IsInjective
    <3>5. \A j, k \in 1 .. Len(Ready) + 1 : Append(Ready, x)[j] = Append(Ready, x)[k] => j = k
      BY <3>1, <3>2, <3>3, <3>4
    <3> QED
      BY <2>2, <3>1, <3>5 DEF IsInjective
  <2>3. CASE Check(x, 0, Url(x)) \in checked' /\ Ready' = Append(Ready, x)
             /\ \A j \in Index : State(j)' = State(j)
    BY <2>2, <2>3
  <2>4. CASE Ready' = Ready /\ State(x)' = "refused"
    BY <2>1, <2>4
  <2> QED
    BY <1>2, <2>3, <2>4
<1>9. \A j \in Index : j # x => State(j)' = State(j)
  BY <1>2
<1>10. \A j \in Index : Url(j)' = Url(j) /\ Spot(j)' = Spot(j)
  BY <1>2
<1>11. ToSet(Ready)' = ToSet(Ready') /\ \A j \in Index : Check(j, 0, Url(j))' = Check(j, 0, Url(j))
  BY <1>10 DEF Check
<1>a. checked \subseteq checked'
  BY <1>2
<1>12. RaceTypeOK'
  BY <1>1, <1>2 DEF RaceTypeOK
<1>13. LetInWasChecked'
  BY <1>1, <1>4, <1>6, <1>7, <1>8, <1>9, <1>10, <1>11, <1>a DEF LetInWasChecked
<1>14. NothingYet'
  <2>1. \A i \in Index : i >= x + 1 => i >= x /\ i # x
    BY <1>7
  <2>2. \A i \in Index : i < x => i < x + 1
    BY <1>7
  <2>3. \A i \in Index : State(i)' \in {"new", "refused"} /\ (i >= x + 1 => State(i)' = "new")
    BY <1>4, <1>7, <1>8, <1>9, <2>1
  <2>4. \A i \in ToSet(Ready') : i < x + 1 /\ State(i)' = "new"
    <3>1. \A i \in ToSet(Ready) : i \in Index /\ i # x /\ i < x + 1 /\ State(i)' = "new"
      BY <1>4, <1>6, <1>7, <1>9, <2>2
    <3>2. x < x + 1
      BY <1>7
    <3>3. CASE ToSet(Ready') = ToSet(Ready) \cup {x} /\ State(x)' = "new"
      BY <3>1, <3>2, <3>3
    <3>4. CASE ToSet(Ready') = ToSet(Ready)
      BY <3>1, <3>4
    <3> QED
      BY <1>7, <1>8, <3>3, <3>4
  <2> QED
    BY <1>2, <1>4, <1>5, <1>10, <1>11, <2>3, <2>4 DEF NothingYet
<1>15. StartedInOrder'
  BY <1>3, <1>8 DEF StartedInOrder
<1>16. OutcomeIsTheirs'
  <2>1. \A j \in Index : State(j)' \in {"new", "refused"}
    BY <1>4, <1>7, <1>8, <1>9
  <2>2. ToSet(Taken') = {}
    BY <1>5 DEF ToSet
  <2> QED
    BY <1>5, <2>1, <2>2 DEF OutcomeIsTheirs
<1>17. WidthStaysFull'
  BY <1>2, <1>3, <1>5, <1>6 DEF WidthStaysFull
<1>18. RequestsStayGuarded'
  BY <1>5 DEF RequestsStayGuarded
<1> QED
  BY <1>12, <1>13, <1>14, <1>15, <1>16, <1>17, <1>18 DEF RaceInv

\* The race that fills its width keeps the invariant, and so does one with nothing to race.
LEMMA RaceStartsKeeps ==
  ASSUME RaceInv, RaceStarts
  PROVE  RaceInv'
<1>1. RaceTypeOK /\ LetInWasChecked /\ NothingYet /\ StartedInOrder /\ OutcomeIsTheirs /\ WidthStaysFull
  BY DEF RaceInv
<1>2. CallIs("guard") /\ call.pc = "guard" /\ outcome' = outcome /\ checked' = checked
  BY DEF RaceStarts, CallIs
<1>3. /\ sent = {} /\ Taken = <<>> /\ Failures = {}
      /\ \A i \in Index : State(i) \in {"new", "refused"}
      /\ \A i \in ToSet(Ready) : State(i) = "new"
  BY <1>1, <1>2 DEF NothingYet
<1>4. /\ Ready \in Seq(Index) /\ ToSet(Ready) \subseteq Index /\ Wanted \in Nat \ {0}
      /\ Width \in Nat \ {0} /\ DOMAIN Ready = 1 .. Len(Ready) /\ Len(Ready) \in Nat
  BY <1>1, RaceTypes
<1>5. Taken' = <<>> /\ Failures' = {} /\ Len(Taken') = 0 /\ ToSet(Taken') = {}
  BY <1>2, <1>3 DEF Taken, Failures, ToSet
<1>6. call \in RaceCall /\ call.ready = Ready /\ op \in [Index -> RaceOp]
  BY <1>1 DEF RaceTypeOK, Ready
<1>7. CASE Ready = <<>>
  <2>1. UNCHANGED <<op, sent>>
    BY <1>6, <1>7 DEF RaceStarts
  <2>2. PICK s \in {"error", "ok"} : call' = [call EXCEPT !.pc = "done", !.result = s]
    BY <1>6, <1>7 DEF RaceStarts
  <2>3. call' \in RaceCall /\ call'.pc = "done"
    BY <1>6, <2>2 DEF RaceCall
  <2>4. NextUp' = NextUp /\ Ready' = Ready /\ Width' = Width /\ Wanted' = Wanted
    BY <1>6, <2>2 DEF RaceCall, NextUp, Ready, Width, Wanted
  <2>5. \A j \in Index : State(j)' = State(j) /\ Url(j)' = Url(j) /\ Spot(j)' = Spot(j)
    BY <2>1 DEF State, Url, Spot
  <2>6. ~CallIs("race")' /\ ~CallIs("parse")' /\ ~CallIs("guard")' /\ sent' = {}
    BY <1>3, <2>1, <2>3 DEF CallIs
  <2>7. RaceTypeOK'
    BY <1>1, <1>2, <2>1, <2>3 DEF RaceTypeOK
  <2>8. LetInWasChecked' /\ NothingYet' /\ StartedInOrder'
    BY <1>1, <1>2, <1>4, <2>4, <2>5, <2>6 DEF LetInWasChecked, NothingYet, StartedInOrder
  <2>9. OutcomeIsTheirs'
    BY <1>3, <1>5, <2>5 DEF OutcomeIsTheirs
  <2>10. WidthStaysFull' /\ RequestsStayGuarded'
    BY <1>4, <1>5, <2>4, <2>6 DEF WidthStaysFull, RequestsStayGuarded
  <2> QED
    BY <2>7, <2>8, <2>9, <2>10 DEF RaceInv
<1>8. CASE Ready # <<>>
  <2>1. /\ call' = [call EXCEPT !.pc = "race", !.at = Cardinality(FirstOps) + 1]
        /\ op' = [i \in Index |-> IF i \in FirstOps THEN [op[i] EXCEPT !.state = "running"] ELSE op[i]]
        /\ sent' = {Request(i, op[i]) : i \in FirstOps}
    BY <1>3, <1>6, <1>8 DEF RaceStarts
  <2>2. PICK n \in Nat : n = Cardinality(FirstOps)
    BY <1>4, FirstOpsCount
  <2>3. /\ FirstOps \subseteq ToSet(Ready)
        /\ \A j \in DOMAIN Ready : Ready[j] \in FirstOps <=> j <= Width
        /\ n = IF Width <= Len(Ready) THEN Width ELSE Len(Ready)
    BY <2>2, FirstOpsCount
  <2>4. call' = [call EXCEPT !.pc = "race", !.at = n + 1] /\ n + 1 \in Nat \ {0}
    BY <2>1, <2>2
  <2>5. call' \in RaceCall /\ call'.pc = "race"
    BY <1>6, <2>4 DEF RaceCall
  <2>6. NextUp' = n + 1 /\ Ready' = Ready /\ Width' = Width /\ Wanted' = Wanted
    BY <1>6, <2>4 DEF RaceCall, NextUp, Ready, Width, Wanted
  <2>7. PICK F \in SUBSET Index : F = FirstOps
    BY <1>4, <2>3
  <2>8. \A j \in Index : [op[j] EXCEPT !.state = "running"] \in RaceOp
          /\ [op[j] EXCEPT !.state = "running"].state = "running"
          /\ [op[j] EXCEPT !.state = "running"].url = op[j].url
          /\ [op[j] EXCEPT !.state = "running"].here = op[j].here
          /\ [op[j] EXCEPT !.state = "running"].hops = op[j].hops
    BY <1>6, StateSet
  <2>9. op' = [i \in Index |-> IF i \in F THEN [op[i] EXCEPT !.state = "running"] ELSE op[i]]
    BY <2>1, <2>7
  <2>10. op' \in [Index -> RaceOp]
    BY <1>6, <2>8, <2>9
  <2>11. \A j \in Index : Url(j)' = Url(j) /\ Spot(j)' = Spot(j)
    BY <2>8, <2>9 DEF Url, Spot
  <2>12. \A j \in Index : State(j)' = IF j \in F THEN "running" ELSE State(j)
    BY <2>8, <2>9 DEF State
  <2>13. /\ CallIs("race")' /\ ~CallIs("parse")' /\ ~CallIs("guard")' /\ ~CallIs("done")'
         /\ ToSet(Ready)' = ToSet(Ready)
    BY <2>5, <2>6 DEF CallIs
  <2>14. \A i \in F : i \in Index /\ i \in ToSet(Ready) /\ op[i] \in RaceOp
    BY <1>6, <2>3, <2>7
  <2>15. RaceTypeOK'
    <3>1. sent' \subseteq RaceRequest
      <4>1. \A i \in F : Request(i, op[i]) \in RaceRequest
        BY <2>14, RequestIs
      <4>2. sent' = {Request(i, op[i]) : i \in F}
        BY <2>1, <2>7
      <4> QED
        BY <4>1, <4>2
    <3> QED
      BY <1>1, <1>2, <2>5, <2>10, <3>1 DEF RaceTypeOK
  <2>16. LetInWasChecked'
    BY <1>1, <1>2, <1>4, <2>11, <2>12, <2>13, <2>14 DEF LetInWasChecked
  <2>17. NothingYet'
    BY <2>13 DEF NothingYet
  <2>18. StartedInOrder'
    <3>1. PICK q \in Seq(Index) : q = Ready
      BY <1>4
    <3>a. \A j \in 1 .. Len(Ready) : j <= Width <=> j < n + 1
      <4>1. n = (IF Width <= Len(Ready) THEN Width ELSE Len(Ready)) /\ Width \in Nat
            /\ Len(Ready) \in Nat
        BY <1>4, <2>3
      <4> QED
        BY <4>1
    <3>b. \A j \in DOMAIN q : q[j] \in Index /\ q[j] \in ToSet(Ready) /\ j \in 1 .. Len(Ready)
      BY <1>4, <3>1 DEF ToSet
    <3>c. \A j \in DOMAIN q : q[j] \in F <=> j <= Width
      BY <2>3, <2>7, <3>1
    <3>2. \A j \in DOMAIN q : q[j] \in Index /\ State(q[j]) = "new" /\ (q[j] \in F <=> j < n + 1)
      BY <1>3, <3>a, <3>b, <3>c
    <3>3. \A j \in DOMAIN q : IF j < n + 1 THEN State(q[j])' \in {"running", "taken", "failed"}
                              ELSE State(q[j])' = "new"
      BY <2>12, <3>2
    <3> QED
      BY <1>1, <2>6, <3>1, <3>3 DEF StartedInOrder
  <2>19. OutcomeIsTheirs'
    BY <1>3, <1>5, <2>12 DEF OutcomeIsTheirs
  <2>20. WidthStaysFull'
    <3>1. Running' = F
      BY <1>3, <2>12 DEF Running, State
    <3>2. Cardinality(Running)' = n
      BY <2>2, <2>7, <3>1
    <3> QED
      <4>1. n = Width \/ (n < Width /\ n + 1 > Len(Ready))
        <5>1. n = (IF Width <= Len(Ready) THEN Width ELSE Len(Ready)) /\ Width \in Nat
              /\ Len(Ready) \in Nat
          BY <1>4, <2>3
        <5> QED
          BY <5>1
      <4>2. 0 < Wanted /\ 0 <= Wanted
        BY <1>4
      <4>3. \/ Cardinality(Running)' = Width'
            \/ Cardinality(Running)' < Width' /\ NextUp' > Len(Ready')
        BY <2>6, <3>2, <4>1
      <4>4. Len(Taken') < Wanted' /\ Len(Taken') <= Wanted'
        BY <1>5, <2>6, <4>2
      <4> QED
        BY <2>13, <4>3, <4>4 DEF WidthStaysFull
  <2>21. RequestsStayGuarded'
    <3>1. ASSUME NEW r \in sent'
          PROVE  /\ Check(r.op, r.hop, r.host) \in checked' /\ State(r.op)' # "refused"
                 /\ r.headers \cap BoundHeaders # {} => r.host = Url(r.op)'
      <4>1. PICK i \in F : r = Request(i, op[i])
        BY <2>1, <2>7, <3>1
      <4>2. /\ r.op = i /\ Check(i, r.hop, r.host) = Spot(i) /\ i \in Index /\ i \in ToSet(Ready)
            /\ r.headers \cap BoundHeaders # {} => r.host = Url(i)
        BY <2>14, <4>1, RequestIs DEF Spot, Url
      <4>3. Spot(i) \in checked /\ State(i)' = "running"
        BY <1>1, <2>12, <4>2 DEF LetInWasChecked
      <4> QED
        BY <1>2, <2>11, <4>2, <4>3
    <3> QED
      BY <3>1 DEF RequestsStayGuarded, State, Url, Check, BoundHeaders
  <2> QED
    BY <2>15, <2>16, <2>17, <2>18, <2>19, <2>20, <2>21 DEF RaceInv
<1> QED
  BY <1>7, <1>8

\* A hop changes where an operation is.
LEMMA HopTaken ==
  ASSUME NEW r \in RaceOp, NEW h \in Hosts
  PROVE  LET q == [r EXCEPT !.here = h, !.hops = @ + 1]
         IN  q \in RaceOp /\ q.state = r.state /\ q.url = r.url /\ q.here = h /\ q.hops = r.hops + 1
<1>1. [r EXCEPT !.here = h, !.hops = @ + 1] \in RaceOp
  <2>1. r.hops + 1 \in Nat
    BY DEF RaceOp
  <2>2. PICK n \in Nat : n = r.hops + 1
    BY <2>1
  <2>3. [r EXCEPT !.here = h, !.hops = n] \in RaceOp
    BY DEF RaceOp
  <2> QED
    BY <2>2, <2>3
<1>2. LET q == [r EXCEPT !.here = h, !.hops = @ + 1]
      IN  q.state = r.state /\ q.url = r.url /\ q.here = h /\ q.hops = r.hops + 1
  BY DEF RaceOp
<1> QED
  BY <1>1, <1>2

\* A redirect that is followed leads to a host that was checked.
LEMMA RedirectKeeps ==
  ASSUME RaceInv, CallIs("race"), NEW i \in Index, State(i) = "running", NEW host \in Hosts,
         Redirect(i, host)
  PROVE  RaceInv'
<1> DEFINE o == [op[i] EXCEPT !.here = host, !.hops = @ + 1]
           spot == Check(i, o.hops, host)
<1>1. PICK passes \in BOOLEAN :
        /\ checked' = IF passes THEN checked \cup {spot} ELSE checked
        /\ IF Refused(op[i], passes) THEN Finished(i, FALSE)
           ELSE /\ op' = [op EXCEPT ![i] = o] /\ sent' = sent \cup {Request(i, o)}
                /\ UNCHANGED <<call, outcome>>
  <2>1. PICK resolves \in BOOLEAN :
          /\ checked' = IF EnsurePublicUrl(host, resolves) THEN checked \cup {spot} ELSE checked
          /\ IF Refused(op[i], EnsurePublicUrl(host, resolves)) THEN Finished(i, FALSE)
             ELSE /\ op' = [op EXCEPT ![i] = o] /\ sent' = sent \cup {Request(i, o)}
                  /\ UNCHANGED <<call, outcome>>
    BY DEF Redirect
  <2>2. EnsurePublicUrl(host, resolves) \in BOOLEAN
    BY DEF EnsurePublicUrl
  <2> QED
    BY <2>1, <2>2
<1>2. op \in [Index -> RaceOp] /\ op[i] \in RaceOp /\ checked \subseteq RaceCheck
  BY DEF RaceInv, RaceTypeOK
<1>3. o \in RaceOp /\ o.state = op[i].state /\ o.url = op[i].url /\ o.here = host /\ o.hops \in Nat
  <2>1. o \in RaceOp /\ o.state = op[i].state /\ o.url = op[i].url /\ o.here = host
    BY <1>2, HopTaken
  <2> HIDE DEF o
  <2> QED
    BY <2>1 DEF RaceOp
<1> HIDE DEF o
<1>4. spot \in RaceCheck
  BY <1>3 DEF Check, RaceCheck
<1> HIDE DEF spot
<1>5. checked \subseteq checked' /\ checked' \subseteq RaceCheck
  BY <1>1, <1>2, <1>4
<1>6. CASE Refused(op[i], passes)
  <2>1. Finished(i, FALSE)
    BY <1>1, <1>6
  <2> QED
    BY <1>5, <2>1, FinishedKeeps
<1>7. CASE ~Refused(op[i], passes)
  <2>1. /\ op' = [op EXCEPT ![i] = o] /\ sent' = sent \cup {Request(i, o)} /\ UNCHANGED <<call, outcome>>
        /\ spot \in checked'
    BY <1>1, <1>7 DEF Refused
  <2>7. op' \in [Index -> RaceOp]
    BY <2>1, <1>2, <1>3
  <2>8. \A j \in Index : Url(j)' = Url(j) /\ State(j)' = State(j)
    BY <2>1, <1>2, <1>3 DEF Url, State
  <2>9. /\ \A j \in Index : j # i => Spot(j)' = Spot(j)
        /\ Spot(i)' = spot
    BY <2>1, <1>2, <1>3 DEF Spot, spot, Check
  <2>10. PICK m \in RaceRequest : m = Request(i, o)
    BY <1>3, RequestIs
  <2>11. RequestsStayGuarded' /\ sent' \subseteq RaceRequest
    <3>1. State(i)' # "refused"
      BY <2>8
    <3>2. /\ m.op = i /\ Check(i, m.hop, m.host) = spot
          /\ m.headers \cap BoundHeaders # {} => m.host = Url(i)
      BY <1>3, <2>10, RequestIs DEF spot, Url
    <3>3. sent' = sent \cup {m} /\ Check(i, m.hop, m.host) \in checked'
      BY <2>1, <2>10, <3>2
    <3> QED
      BY <1>5, <2>8, <3>1, <3>2, <3>3, RequestMade
  <2>12. /\ Ready' = Ready /\ NextUp' = NextUp /\ Width' = Width /\ Wanted' = Wanted
         /\ Taken' = Taken /\ Failures' = Failures
         /\ CallIs("race")' /\ ~CallIs("parse")' /\ ~CallIs("guard")' /\ ~CallIs("done")'
    BY <2>1 DEF Ready, NextUp, Width, Wanted, Taken, Failures, CallIs
  <2>13. RaceTypeOK'
    BY <1>5, <2>1, <2>7, <2>11 DEF RaceInv, RaceTypeOK
  <2>14. LetInWasChecked'
    <3>1. ToSet(Ready)' = ToSet(Ready) /\ ToSet(Ready) \subseteq Index
      BY <2>12, RaceTypes DEF RaceInv
    <3> QED
      BY <1>5, <2>1, <2>8, <2>9, <3>1 DEF RaceInv, LetInWasChecked
  <2>15. NothingYet'
    BY <2>12 DEF NothingYet
  <2>16. StartedInOrder'
    <3>1. PICK q \in Seq(Index) : q = Ready
      BY RaceTypes DEF RaceInv
    <3>2. \A j \in DOMAIN q : q[j] \in Index
      BY <3>1
    <3> QED
      BY <2>8, <2>12, <3>1, <3>2 DEF RaceInv, StartedInOrder
  <2>17. OutcomeIsTheirs'
    BY <2>8, <2>12 DEF RaceInv, OutcomeIsTheirs
  <2>18. WidthStaysFull'
    <3>1. Running' = Running
      BY <2>8 DEF Running, State
    <3> QED
      BY <2>12, <3>1 DEF RaceInv, WidthStaysFull
  <2> QED
    BY <2>11, <2>13, <2>14, <2>15, <2>16, <2>17, <2>18 DEF RaceInv
<1> QED
  BY <1>6, <1>7

\* Every step of an execution keeps the invariant.
LEMMA RaceInvNext == RaceInv /\ [RaceNext]_raceVars => RaceInv'
<1> SUFFICES ASSUME RaceInv, [RaceNext]_raceVars PROVE RaceInv'
  OBVIOUS
<1>1. CASE Parse
  BY <1>1, ParseKeeps
<1>2. CASE Guard
  BY <1>2, GuardKeeps
<1>3. CASE RaceStarts
  BY <1>3, RaceStartsKeeps
<1>4. ASSUME NEW i \in Index, Succeed(i) \/ Fail(i) PROVE RaceInv'
  <2>1. /\ CallIs("race") /\ State(i) = "running" /\ (Finished(i, TRUE) \/ Finished(i, FALSE))
        /\ checked' = checked
    BY <1>4 DEF Succeed, Fail, CallIs, Running, State
  <2>2. checked \subseteq checked' /\ checked' \subseteq RaceCheck
    BY <2>1 DEF RaceInv, RaceTypeOK
  <2> QED
    BY <2>1, <2>2, FinishedKeeps
<1>5. ASSUME NEW i \in Index, NEW host \in Hosts, Redirect(i, host) PROVE RaceInv'
  <2>1. CallIs("race") /\ State(i) = "running"
    BY <1>5 DEF Redirect, CallIs, Running, State
  <2> QED
    BY <1>5, <2>1, RedirectKeeps
<1>6. CASE UNCHANGED raceVars
  BY <1>6 DEF raceVars, RaceInv, RaceTypeOK, LetInWasChecked, NothingYet, StartedInOrder, OutcomeIsTheirs,
      WidthStaysFull, RequestsStayGuarded, CallIs, NextUp, Width, Wanted, Ready, State, Url, Spot, Taken,
      Failures, Running
<1> QED
  BY <1>1, <1>2, <1>3, <1>4, <1>5, <1>6 DEF RaceNext

-----------------------------------------------------------------------------
(* Theorems *)

\* For any sources, headers, hosts, answers of the resolver and chains of redirects (get_guarded):
\* every request follows a check of its own hop, none is made for an operation that was refused, and
\* only the origin that was asked for sees a header of HEADERS_BOUND_TO_THEIR_ORIGIN.
THEOREM RequestsAreGuarded == RaceSpec => []RequestsStayGuarded
<1>1. RaceInv => RequestsStayGuarded
  BY DEF RaceInv
<1> QED
  BY <1>1, RaceInvInit, RaceInvNext, PTL DEF RaceSpec

\* For any number of operations, width and quorum (race.rs): the width stays full while there is
\* reserve, the race stops at its quorum, and one that ends below it has accounted for every
\* operation that was let in.
THEOREM RacesAccount == RaceSpec => []RaceAccounts
<1>1. ASSUME RaceInv PROVE RaceAccounts
  <2>1. RaceTypeOK /\ LetInWasChecked /\ OutcomeIsTheirs /\ WidthStaysFull
    BY <1>1 DEF RaceInv
  <2>2. ToSet(Ready) \subseteq Index /\ ToSet(Taken) \subseteq Index /\ Failures \subseteq Index
    BY <2>1, RaceTypes
  <2>3. ToSet(Taken) \cap Failures = {}
    BY <2>1, <2>2 DEF OutcomeIsTheirs
  <2>4. ASSUME \A i \in ToSet(Ready) : State(i) \in {"taken", "failed"}
        PROVE  ToSet(Ready) = ToSet(Taken) \cup Failures
    <3>1. \A i \in Index : i \in ToSet(Taken) \cup Failures <=> State(i) \in {"taken", "failed"}
      BY <2>1 DEF OutcomeIsTheirs
    <3>2. \A i \in Index : State(i) \in {"taken", "failed"} => i \in ToSet(Ready)
      BY <2>1 DEF LetInWasChecked
    <3> QED
      BY <2>2, <2>4, <3>1, <3>2
  <2>5. WidthStaysFull
    BY <2>1
  <2> QED
    BY <2>3, <2>4, <2>5
    DEF RaceAccounts, WidthStaysFull, CallIs, Width, Wanted, NextUp, Ready, Taken, Failures
<1> QED
  BY <1>1, RaceInvInit, RaceInvNext, PTL DEF RaceSpec
=============================================================================
