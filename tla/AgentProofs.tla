---------------------------- MODULE AgentProofs -----------------------------
(***************************************************************************)
(* Theorems about AgentTurn, for every window, budget and bound.           *)
(***************************************************************************)
EXTENDS AgentTurn, SeqFilterProofs, FiniteSetTheorems

-----------------------------------------------------------------------------
(* Lists of records *)

\* The steps never go back in a list of records, and none is later than n.
InOrder(s) == \A i, j \in 1..Len(s) : i <= j => s[i].at <= s[j].at
UpTo(s, n) == \A i \in 1..Len(s) : s[i].at <= n

\* Every record of s reached its source.
AllReached(s) == \A i \in 1..Len(s) : s[i].ok

\* The step of a record is a number.
LEMMA RecordFacts ==
  ASSUME NEW s \in Seq(Record)
  PROVE  /\ Len(s) \in Nat /\ DOMAIN s = 1..Len(s)
         /\ \A i \in 1..Len(s) : s[i] \in Record /\ s[i].at \in Nat /\ s[i].at \in 1..MaxLookups
<1>1. Len(s) \in Nat /\ DOMAIN s = 1..Len(s)
  OBVIOUS
<1>2. \A i \in 1..Len(s) : s[i] \in Record
  BY ElementOfSeq
<1>3. \A r \in Record : r.at \in Nat /\ r.at \in 1..MaxLookups
  BY AgentAssumption DEF Record
<1>. QED  BY <1>1, <1>2, <1>3

\* What joining two lists does to their places.
LEMMA Joined ==
  ASSUME NEW s \in Seq(Record), NEW t \in Seq(Record)
  PROVE  /\ s \o t \in Seq(Record) /\ Len(s \o t) = Len(s) + Len(t)
         /\ \A i \in 1..Len(s) : (s \o t)[i] = s[i]
         /\ \A i \in 1..Len(t) : (s \o t)[Len(s) + i] = t[i]
         /\ \A i \in 1..Len(s \o t) : i \in 1..Len(s) \/ i - Len(s) \in 1..Len(t)
<1>1. s \o t \in Seq(Record) /\ Len(s \o t) = Len(s) + Len(t)
  OBVIOUS
<1>2. Len(s) \in Nat /\ Len(t) \in Nat
  OBVIOUS
<1>3. \A i \in 1..Len(s) : (s \o t)[i] = s[i]
  BY ConcatProperties
<1>4. \A i \in 1..Len(t) : (s \o t)[Len(s) + i] = t[i]
  <2>1. SUFFICES ASSUME NEW i \in 1..Len(t)
        PROVE  (s \o t)[Len(s) + i] = t[i]
    OBVIOUS
  <2>2. Len(s) + i \in 1..(Len(s) + Len(t)) /\ ~(Len(s) + i <= Len(s)) /\ Len(s) + i - Len(s) = i
    BY <1>2
  <2>. QED  BY <2>2, ConcatProperties
<1>5. \A i \in 1..Len(s \o t) : i \in 1..Len(s) \/ i - Len(s) \in 1..Len(t)
  BY <1>1, <1>2
<1>. QED  BY <1>1, <1>3, <1>4, <1>5

\* The records of one step keep a list in order when they are later than all of it.
LEMMA JoinedInOrder ==
  ASSUME NEW s \in Seq(Record), NEW t \in Seq(Record), NEW n \in Nat,
         InOrder(s), UpTo(s, n), \A i \in 1..Len(t) : t[i].at = n + 1
  PROVE  InOrder(s \o t) /\ UpTo(s \o t, n + 1)
<1>. DEFINE u == s \o t
<1>1. /\ u \in Seq(Record) /\ Len(u) = Len(s) + Len(t)
      /\ \A i \in 1..Len(s) : u[i] = s[i]
      /\ \A i \in 1..Len(t) : u[Len(s) + i] = t[i]
      /\ \A i \in 1..Len(u) : i \in 1..Len(s) \/ i - Len(s) \in 1..Len(t)
  BY Joined
<1>. HIDE DEF u
<1>2. /\ \A i \in 1..Len(s) : s[i].at \in Nat
      /\ \A i \in 1..Len(t) : t[i].at \in Nat
      /\ Len(s) \in Nat /\ Len(t) \in Nat
  BY RecordFacts
<1>3. \A i \in 1..Len(s) : u[i].at = s[i].at /\ u[i].at <= n /\ u[i].at \in Nat
  BY <1>1, <1>2 DEF UpTo
<1>4. ASSUME NEW i \in 1..Len(u), i \notin 1..Len(s)
      PROVE  u[i].at = n + 1
  <2>1. i - Len(s) \in 1..Len(t) /\ Len(s) + (i - Len(s)) = i
    BY <1>1, <1>2, <1>4
  <2>. QED  BY <1>1, <2>1
<1>5. UpTo(u, n + 1)
  BY <1>3, <1>4 DEF UpTo
<1>6. InOrder(u)
  <2>1. SUFFICES ASSUME NEW i \in 1..Len(u), NEW j \in 1..Len(u), i <= j
        PROVE  u[i].at <= u[j].at
    BY DEF InOrder
  <2>2. CASE i \in 1..Len(s) /\ j \in 1..Len(s)
    BY <1>3, <2>1, <2>2 DEF InOrder
  <2>3. CASE j \notin 1..Len(s)
    BY <1>3, <1>4, <2>3
  <2>4. CASE i \notin 1..Len(s) /\ j \in 1..Len(s)
    BY <1>1, <1>2, <2>1, <2>4
  <2>. QED  BY <2>2, <2>3, <2>4
<1>. QED  BY <1>5, <1>6 DEF u

\* The window is the end of the list, not empty unless the list is, and begins no later
\* than its latest step.
LEMMA ShownIsTheEnd ==
  ASSUME NEW s \in Seq(Record)
  PROVE  \E first \in 1..(Len(s) + 1) :
           /\ Shown(s) = SubSeq(s, first, Len(s))
           /\ Shown(s) \in Seq(Record) /\ Len(Shown(s)) = Len(s) - first + 1
           /\ \A i \in 1..Len(Shown(s)) : Shown(s)[i] = s[first + i - 1] /\ first + i - 1 \in 1..Len(s)
           /\ s # <<>> => Shown(s) # <<>>
           /\ \A i \in LatestStep(s) : first <= i
<1>1. Len(s) \in Nat /\ DOMAIN s = 1..Len(s)
  BY RecordFacts
<1>2. PICK step : step = Cardinality(LatestStep(s))
  OBVIOUS
<1>3. LatestStep(s) \subseteq 1..Len(s)
  BY <1>1 DEF LatestStep
<1>4. IsFiniteSet(1..Len(s)) /\ IsFiniteSet(LatestStep(s))
  <2>1. IsFiniteSet(1..Len(s))
    BY <1>1, FS_Interval
  <2>. QED  BY <1>3, <2>1, FS_Subset
<1>5. step \in Nat
  BY <1>2, <1>4, FS_CardinalityType
<1>6. PICK wide : wide = IF step > Window THEN step ELSE Window
  OBVIOUS
<1>7. PICK first : first = IF Len(s) > wide THEN Len(s) - wide + 1 ELSE 1
  OBVIOUS
<1>8. wide \in Nat /\ wide >= 1 /\ wide >= step
  BY <1>5, <1>6, AgentAssumption
<1>9. first \in 1..(Len(s) + 1) /\ (Len(s) > 0 => first <= Len(s))
  BY <1>1, <1>7, <1>8
<1>10. Shown(s) = SubSeq(s, first, Len(s))
  BY <1>2, <1>6, <1>7 DEF Shown
<1>11. PICK v : v = Shown(s)
  OBVIOUS
<1>12. /\ v \in Seq(Record) /\ Len(v) = Len(s) - first + 1
       /\ \A i \in 1..Len(v) : v[i] = s[first + i - 1] /\ first + i - 1 \in 1..Len(s)
  <2>1. \A i \in first..Len(s) : s[i] \in Record
    BY <1>1, <1>9, ElementOfSeq
  <2>. QED  BY <1>1, <1>9, <1>10, <1>11, <2>1
<1>13. s # <<>> => v # <<>>
  <2>1. s # <<>> => Len(s) > 0
    BY <1>1, EmptySeq
  <2>. QED  BY <1>1, <1>9, <1>12, <2>1
<1>14. ASSUME NEW i \in LatestStep(s)
       PROVE  first <= i
  <2>1. i \in 1..Len(s)
    BY <1>3
  <2>2. i..Len(s) \subseteq LatestStep(s)
    BY <1>1, <2>1 DEF LatestStep
  <2>3. Cardinality(i..Len(s)) = Len(s) - i + 1
    BY <1>1, <2>1, FS_Interval
  <2>4. Cardinality(i..Len(s)) <= step
    BY <1>2, <1>4, <2>2, FS_Subset
  <2>. QED  BY <1>1, <1>5, <1>7, <1>8, <2>1, <2>3, <2>4
<1>. QED  BY <1>9, <1>10, <1>11, <1>12, <1>13, <1>14

\* What the window keeps of a list.
LEMMA ShownKeeps ==
  ASSUME NEW s \in Seq(Record), NEW n \in Nat
  PROVE  /\ Shown(s) \in Seq(Record)
         /\ InOrder(s) => InOrder(Shown(s))
         /\ UpTo(s, n) => UpTo(Shown(s), n)
         /\ \A i \in 1..Len(Shown(s)) : \E k \in 1..Len(s) : Shown(s)[i] = s[k]
         /\ s # <<>> => Shown(s) # <<>>
<1>1. PICK first \in 1..(Len(s) + 1) :
           /\ Shown(s) \in Seq(Record) /\ Len(Shown(s)) = Len(s) - first + 1
           /\ \A i \in 1..Len(Shown(s)) : Shown(s)[i] = s[first + i - 1] /\ first + i - 1 \in 1..Len(s)
           /\ s # <<>> => Shown(s) # <<>>
  BY ShownIsTheEnd
<1>2. Len(s) \in Nat /\ Len(Shown(s)) \in Nat
  BY <1>1
<1>3. ASSUME InOrder(s)
      PROVE  InOrder(Shown(s))
  <2>1. SUFFICES ASSUME NEW i \in 1..Len(Shown(s)), NEW j \in 1..Len(Shown(s)), i <= j
        PROVE  Shown(s)[i].at <= Shown(s)[j].at
    BY DEF InOrder
  <2>2. /\ Shown(s)[i] = s[first + i - 1] /\ first + i - 1 \in 1..Len(s)
        /\ Shown(s)[j] = s[first + j - 1] /\ first + j - 1 \in 1..Len(s)
    BY <1>1
  <2>3. first + i - 1 <= first + j - 1
    BY <1>2, <2>1
  <2>4. s[first + i - 1].at <= s[first + j - 1].at
    BY <1>3, <2>2, <2>3 DEF InOrder
  <2>. QED  BY <2>2, <2>4
<1>4. UpTo(s, n) => UpTo(Shown(s), n)
  BY <1>1, <1>2 DEF UpTo
<1>. QED  BY <1>1, <1>3, <1>4

\* What a filter keeps of a list.
LEMMA OnlyKeeps ==
  ASSUME NEW s \in Seq(Record), NEW keep, NEW n \in Nat
  PROVE  /\ Only(s, keep) \in Seq(Record)
         /\ InOrder(s) => InOrder(Only(s, keep))
         /\ UpTo(s, n) => UpTo(Only(s, keep), n)
         /\ \A i \in 1..Len(Only(s, keep)) :
              Only(s, keep)[i] \in keep /\ \E k \in 1..Len(s) : Only(s, keep)[i] = s[k]
<1>1. PICK r : r = Only(s, keep)
  OBVIOUS
<1>2. r \in Seq(Record) /\ \E e : Embeds(e, r, s, keep, Len(s))
  BY <1>1, OnlyIsAFilter
<1>3. PICK e : Embeds(e, r, s, keep, Len(s))
  BY <1>2
<1>4. /\ \A i \in 1..Len(r) : e[i] \in 1..Len(s) /\ r[i] = s[e[i]] /\ s[e[i]] \in keep
      /\ \A i, j \in 1..Len(r) : i < j => e[i] < e[j]
  BY <1>3 DEF Embeds
<1>5. Len(r) \in Nat /\ Len(s) \in Nat
  BY <1>2
<1>6. \A i, j \in 1..Len(r) : i <= j => e[i] <= e[j]
  BY <1>4, <1>5
<1>7. InOrder(s) => InOrder(r)
  BY <1>4, <1>6 DEF InOrder
<1>8. UpTo(s, n) => UpTo(r, n)
  BY <1>4 DEF UpTo
<1>. QED  BY <1>1, <1>2, <1>4, <1>7, <1>8

\* The material with nothing beside it.
LEMMA JoinedWithNothing ==
  ASSUME NEW s \in Seq(Record)
  PROVE  s \o <<>> = s /\ <<>> \o s = s
BY ConcatEmptySeq

\* The steps since anything reached its source.
FailedSteps(records) ==
  {r.at : r \in {s \in ToSet(records) : \A t \in ToSet(records) : t.ok => t.at < s.at}}

\* The count of failed steps is that of a finite set of numbers, which this set is.
LEMMA FailedStepsFacts ==
  ASSUME NEW s \in Seq(Record)
  PROVE  /\ ConsecutiveFailedSteps(s) = Cardinality(FailedSteps(s))
         /\ FailedSteps(s) \subseteq 1..MaxLookups /\ IsFiniteSet(FailedSteps(s))
         /\ \A n : n \in FailedSteps(s) <=>
              \E i \in 1..Len(s) : /\ s[i].at = n
                                   /\ \A j \in 1..Len(s) : s[j].ok => s[j].at < n
<1>1. DOMAIN s = 1..Len(s) /\ \A i \in 1..Len(s) : s[i].at \in 1..MaxLookups
  BY RecordFacts
<1>2. ToSet(s) = {s[i] : i \in 1..Len(s)}
  BY <1>1 DEF ToSet
<1>3. ASSUME NEW n
      PROVE  n \in FailedSteps(s) <=>
              \E i \in 1..Len(s) : /\ s[i].at = n
                                   /\ \A j \in 1..Len(s) : s[j].ok => s[j].at < n
  BY <1>2 DEF FailedSteps
<1>4. FailedSteps(s) \subseteq 1..MaxLookups
  BY <1>1, <1>3
<1>5. IsFiniteSet(1..MaxLookups)
  BY AgentAssumption, FS_Interval
<1>6. IsFiniteSet(FailedSteps(s))
  BY <1>4, <1>5, FS_Subset
<1>. QED  BY <1>3, <1>4, <1>6 DEF ConsecutiveFailedSteps, FailedSteps

\* One more step, later than the rest, adds itself to the failed ones, or ends their run.
LEMMA OneMoreStep ==
  ASSUME NEW s \in Seq(Record), NEW t \in Seq(Record), NEW n \in Nat,
         UpTo(s, n), \A i \in 1..Len(t) : t[i].at = n + 1
  PROVE  /\ (\E i \in 1..Len(t) : t[i].ok) => ConsecutiveFailedSteps(s \o t) = 0
         /\ ConsecutiveFailedSteps(s \o t) <= ConsecutiveFailedSteps(s) + 1
         /\ ConsecutiveFailedSteps(s) \in Nat /\ ConsecutiveFailedSteps(s \o t) \in Nat
<1>. DEFINE u == s \o t
<1>1. /\ u \in Seq(Record) /\ Len(u) = Len(s) + Len(t)
      /\ \A i \in 1..Len(s) : u[i] = s[i]
      /\ \A i \in 1..Len(t) : u[Len(s) + i] = t[i]
      /\ \A i \in 1..Len(u) : i \in 1..Len(s) \/ i - Len(s) \in 1..Len(t)
  BY Joined
<1>. HIDE DEF u
<1>2. /\ \A i \in 1..Len(s) : s[i].at \in Nat
      /\ \A i \in 1..Len(u) : u[i].at \in Nat
      /\ Len(s) \in Nat /\ Len(t) \in Nat /\ Len(u) \in Nat
  BY <1>1, RecordFacts
<1>3. \A i \in 1..Len(u) : i \notin 1..Len(s) => u[i].at = n + 1
  <2>1. SUFFICES ASSUME NEW i \in 1..Len(u), i \notin 1..Len(s)
        PROVE  u[i].at = n + 1
    OBVIOUS
  <2>2. i - Len(s) \in 1..Len(t) /\ Len(s) + (i - Len(s)) = i
    BY <1>1, <1>2, <2>1
  <2>. QED  BY <1>1, <2>2
<1>4. \A i \in 1..Len(u) : u[i].at <= n + 1
  <2>1. SUFFICES ASSUME NEW i \in 1..Len(u)
        PROVE  u[i].at <= n + 1
    OBVIOUS
  <2>2. CASE i \in 1..Len(s)
    <3>1. s[i].at <= n /\ s[i].at \in Nat /\ u[i] = s[i]
      BY <1>1, <1>2, <2>2 DEF UpTo
    <3>. QED  BY <3>1
  <2>3. CASE i \notin 1..Len(s)
    BY <1>3, <2>3
  <2>. QED  BY <2>2, <2>3
<1>5. /\ ConsecutiveFailedSteps(s) = Cardinality(FailedSteps(s)) /\ IsFiniteSet(FailedSteps(s))
      /\ ConsecutiveFailedSteps(u) = Cardinality(FailedSteps(u)) /\ IsFiniteSet(FailedSteps(u))
  BY <1>1, FailedStepsFacts
<1>6. Cardinality(FailedSteps(s)) \in Nat /\ Cardinality(FailedSteps(u)) \in Nat
  BY <1>5, FS_CardinalityType
<1>7. ASSUME NEW i \in 1..Len(t), t[i].ok
      PROVE  FailedSteps(u) = {}
  <2>1. SUFFICES ASSUME NEW k \in FailedSteps(u)
        PROVE  FALSE
    OBVIOUS
  <2>2. PICK a \in 1..Len(u) : u[a].at = k /\ \A j \in 1..Len(u) : u[j].ok => u[j].at < k
    BY <1>1, <2>1, FailedStepsFacts
  <2>3. Len(s) + i \in 1..Len(u) /\ u[Len(s) + i] = t[i]
    BY <1>1, <1>2
  <2>4. u[Len(s) + i].at = n + 1 /\ u[Len(s) + i].ok
    BY <1>7, <2>3
  <2>5. n + 1 < k
    BY <2>2, <2>3, <2>4
  <2>6. k <= n + 1 /\ k \in Nat
    BY <1>2, <1>4, <2>2
  <2>. QED  BY <2>5, <2>6
<1>8. FailedSteps(u) \subseteq FailedSteps(s) \cup {n + 1}
  <2>1. SUFFICES ASSUME NEW k \in FailedSteps(u), k # n + 1
        PROVE  k \in FailedSteps(s)
    OBVIOUS
  <2>2. PICK a \in 1..Len(u) : u[a].at = k /\ \A j \in 1..Len(u) : u[j].ok => u[j].at < k
    BY <1>1, <2>1, FailedStepsFacts
  <2>3. a \in 1..Len(s)
    BY <1>3, <2>1, <2>2
  <2>4. \A j \in 1..Len(s) : j \in 1..Len(u)
    BY <1>1, <1>2
  <2>5. s[a].at = k /\ \A j \in 1..Len(s) : s[j].ok => s[j].at < k
    BY <1>1, <2>2, <2>3, <2>4
  <2>. QED  BY <2>3, <2>5, FailedStepsFacts
<1>9. /\ IsFiniteSet(FailedSteps(s) \cup {n + 1})
      /\ Cardinality(FailedSteps(s) \cup {n + 1}) <= Cardinality(FailedSteps(s)) + 1
      /\ Cardinality(FailedSteps(s) \cup {n + 1}) \in Nat
  <2>1. PICK F, k : F = FailedSteps(s) /\ k = n + 1
    OBVIOUS
  <2>2. IsFiniteSet(F) /\ Cardinality(F) \in Nat
    BY <1>5, <1>6, <2>1
  <2>3. PICK c, d : c = Cardinality(F) /\ d = Cardinality(F \cup {k})
    OBVIOUS
  <2>4. IsFiniteSet(F \cup {k}) /\ d = IF k \in F THEN c ELSE c + 1
    BY <2>2, <2>3, FS_AddElement
  <2>5. c \in Nat
    BY <2>2, <2>3
  <2>6. d <= c + 1 /\ d \in Nat
    BY <2>4, <2>5
  <2>. QED  BY <2>1, <2>3, <2>4, <2>6
<1>10. Cardinality(FailedSteps(u)) <= Cardinality(FailedSteps(s) \cup {n + 1})
  BY <1>8, <1>9, FS_Subset
<1>11. Cardinality(FailedSteps(u)) <= Cardinality(FailedSteps(s)) + 1
  BY <1>6, <1>9, <1>10
<1>12. ConsecutiveFailedSteps(u) <= ConsecutiveFailedSteps(s) + 1
  BY <1>5, <1>11
<1>13. (\E i \in 1..Len(t) : t[i].ok) => ConsecutiveFailedSteps(u) = 0
  BY <1>5, <1>7, FS_EmptySet
<1>. QED  BY <1>5, <1>6, <1>12, <1>13 DEF u

-----------------------------------------------------------------------------
(* Types *)

Job == [mode : Modes, view : Seq(Record), attempt : 1..Attempts, usage : Usage,
        lookup : Seq(Record), origin : Origins, asked : Nat]

\* A new job, a new output and nothing spent have their types.
LEMMA NewTypes ==
  NewJob \in Job /\ ByEngine \in Output /\ Nothing \in Usage
<1>1. <<>> \in Seq(Record) /\ 1 \in 1..Attempts /\ 0 \in 0..(MaxParallel + 1)
  BY AgentAssumption
<1>2. Nothing \in Usage
  BY DEF Nothing, Usage
<1>3. NewJob \in Job
  BY <1>1, <1>2 DEF NewJob, Job, Modes, Origins
<1>4. ByEngine \in Output
  BY <1>1 DEF ByEngine, Output, Shapes, Replies, Verdicts
<1>. QED  BY <1>2, <1>3, <1>4

\* Charging an answer or a decision keeps the type of what was used.
LEMMA UsageTypes ==
  ASSUME NEW u \in Usage
  PROVE  Generated(u) \in Usage /\ Decided(u) \in Usage
BY DEF Usage, Generated, Decided

\* What the model writes is an output, and so is one that was refused or lost its call.
LEMMA OutputTypes ==
  /\ \A w \in Written, v \in Seq(Record) : ByModel(w, v) \in Output
  /\ \A o \in Output : Refused(o) \in Output /\ WithoutToolCall(o) \in Output
<1>1. ASSUME NEW w \in Written, NEW v \in Seq(Record)
      PROVE  ByModel(w, v) \in Output
  <2>1. /\ w.shape \in Shapes /\ w.n \in 0..(MaxParallel + 1)
        /\ w.known \in BOOLEAN /\ w.reply \in Replies
    BY DEF Written
  <2>2. <<>> \in Seq(Record)
    OBVIOUS
  <2>. QED  BY <2>1, <2>2 DEF ByModel, Output, Verdicts
<1>2. ASSUME NEW o \in Output
      PROVE  Refused(o) \in Output /\ WithoutToolCall(o) \in Output
  <2>1. PICK SH, RE, N, V : SH = Shapes /\ RE = Replies /\ N = 0..(MaxParallel + 1) /\ V = Seq(Record)
    OBVIOUS
  <2>2. Output = [shape : SH, n : N, known : BOOLEAN, reply : RE, by : {"model", "engine"},
                  beside : SH, view : V, verdict : Verdicts, judged : V]
    BY <2>1 DEF Output
  <2>3. "null" \in SH /\ "text" \in RE /\ 0 \in N
    BY <2>1, AgentAssumption DEF Shapes, Replies
  <2>4. Refused(o) \in Output
    BY <2>2, <2>3 DEF Refused
  <2>5. WithoutToolCall(o) \in Output
    BY <2>2, <2>3 DEF WithoutToolCall
  <2>. QED  BY <2>4, <2>5
<1>. QED  BY <1>1, <1>2

\* The material and its windows are lists of records.
LEMMA MaterialTypes ==
  ASSUME carried \in Seq(Record), fetched \in Seq(Record)
  PROVE  /\ Material \in Seq(Record)
         /\ Only(carried, Fresh) \in Seq(Record)
         /\ Only(Material, ReachedItsSource) \in Seq(Record)
         /\ CarriedRecords \in Seq(Record)
<1>1. Material \in Seq(Record)
  BY DEF Material
<1>2. \A s \in Seq(Record) : \A keep : Only(s, keep) \in Seq(Record)
  BY OnlyIsAFilter
<1>3. \A s \in Seq(Record) : Shown(s) \in Seq(Record)
  BY ShownIsTheEnd
<1>. QED  BY <1>1, <1>2, <1>3 DEF CarriedRecords

\* The records a step may add.
LEMMA StepRecordsFacts ==
  ASSUME lookups \in Nat, lookups < MaxLookups, NEW n \in Nat, NEW records \in StepRecords(n)
  PROVE  records \in Seq(Record) /\ \A i \in 1..Len(records) : records[i].at = lookups + 1
<1>1. lookups + 1 \in 1..MaxLookups
  BY AgentAssumption
<1>2. [at : {lookups + 1}, ok : BOOLEAN] \subseteq Record
  BY <1>1 DEF Record
<1>3. CASE n > MaxParallel
  <2>1. records = <<[at |-> lookups + 1, ok |-> FALSE]>>
    BY <1>3 DEF StepRecords
  <2>2. [at |-> lookups + 1, ok |-> FALSE] \in Record
    BY <1>1 DEF Record
  <2>. QED  BY <2>1, <2>2
<1>4. CASE ~(n > MaxParallel)
  <2>1. records \in [1..n -> [at : {lookups + 1}, ok : BOOLEAN]]
    BY <1>4 DEF StepRecords
  <2>2. records \in [1..n -> Record]
    BY <1>2, <2>1
  <2>3. records \in Seq(Record) /\ Len(records) = n
    BY <2>2, SeqDef, LenProperties
  <2>4. \A i \in 1..n : records[i].at = lookups + 1
    BY <2>1
  <2>. QED  BY <2>3, <2>4
<1>. QED  BY <1>3, <1>4

\* The record of a fast lookup.
LEMMA LookedUpFacts ==
  ASSUME lookups \in Nat, lookups < MaxLookups, NEW record \in LookedUp
  PROVE  /\ record \in Seq(Record) /\ Len(record) = 1 /\ record # <<>>
         /\ \A i \in 1..Len(record) : record[i].at = lookups + 1
<1>1. lookups + 1 \in 1..MaxLookups
  BY AgentAssumption
<1>2. PICK ok \in BOOLEAN : record = <<[at |-> lookups + 1, ok |-> ok]>>
  BY DEF LookedUp
<1>3. PICK r : r = [at |-> lookups + 1, ok |-> ok]
  OBVIOUS
<1>4. r \in Record /\ r.at = lookups + 1
  BY <1>1, <1>3 DEF Record
<1>5. record = <<r>>
  BY <1>2, <1>3
<1>. QED  BY <1>4, <1>5

-----------------------------------------------------------------------------
(* The fields of the job, of what was spent and of the output *)

JMode   == job.mode
JView   == job.view
JGen    == job.usage.gen
JDec    == job.usage.dec
JLooked == job.lookup
JOrigin == job.origin
JAsked  == job.asked
SGen    == spent.gen
SDec    == spent.dec
OBy     == out.by
OShape  == out.shape
OReply  == out.reply
OBeside == out.beside
OView   == out.view
OVerdict == out.verdict
OJudged == out.judged

\* The job keeps everything but what it has used and where its argument came from.
JobGoesOn ==
  /\ job' \in Job
  /\ JMode' = JMode /\ JView' = JView /\ JLooked' = JLooked /\ JAsked' = JAsked

JobKept == JobGoesOn /\ JGen' = JGen /\ JDec' = JDec /\ JOrigin' = JOrigin

OutKept ==
  /\ OBy' = OBy /\ OShape' = OShape /\ OReply' = OReply /\ OBeside' = OBeside
  /\ OView' = OView /\ OVerdict' = OVerdict /\ OJudged' = OJudged

\* Fields of typed values are typed.
LEMMA FieldTypes ==
  ASSUME TypeOK
  PROVE  /\ job \in Job /\ job.usage \in Usage
         /\ JMode \in Modes /\ JView \in Seq(Record) /\ JLooked \in Seq(Record)
         /\ JGen \in Nat /\ JDec \in Nat /\ JOrigin \in Origins /\ JAsked \in Nat
         /\ SGen \in Nat /\ SDec \in Nat
<1>1. job \in Job
  BY DEF TypeOK, Job
<1>2. job.usage \in Usage /\ spent \in Usage
  BY <1>1 DEF TypeOK, Job
<1>3. \A u \in Usage : u.gen \in Nat /\ u.dec \in Nat
  BY DEF Usage
<1>4. JGen \in Nat /\ JDec \in Nat /\ SGen \in Nat /\ SDec \in Nat
  BY <1>2, <1>3 DEF JGen, JDec, SGen, SDec
<1>. QED  BY <1>1, <1>2, <1>4 DEF Job, JMode, JView, JLooked, JOrigin, JAsked

\* A job left alone.
LEMMA KeptJob ==
  ASSUME job \in Job, job' = job
  PROVE  JobKept
BY DEF JobKept, JobGoesOn, JMode, JView, JLooked, JAsked, JGen, JDec, JOrigin

\* An output left alone.
LEMMA KeptOut ==
  ASSUME out' = out
  PROVE  OutKept
BY DEF OutKept, OBy, OShape, OReply, OBeside, OView, OVerdict, OJudged

\* The fields of a new job.
LEMMA NewFields ==
  ASSUME job' = NewJob
  PROVE  /\ job' \in Job
         /\ JMode' = "Loop" /\ JView' = <<>> /\ JLooked' = <<>> /\ JOrigin' = "none"
         /\ JGen' = 0 /\ JDec' = 0
BY NewTypes DEF NewJob, Nothing, JMode, JView, JLooked, JOrigin, JGen, JDec

\* Charging a job, with a new argument and a new count of attempts.
LEMMA ChargedJob ==
  ASSUME job \in Job, NEW u \in Usage, NEW o \in Origins, NEW a \in 1..Attempts,
         job' = [job EXCEPT !.usage = u, !.origin = o, !.attempt = a]
  PROVE  JobGoesOn /\ JGen' = u.gen /\ JDec' = u.dec /\ JOrigin' = o
<1>1. PICK V, N : V = Seq(Record) /\ N = 1..Attempts
  OBVIOUS
<1>2. Job = [mode : Modes, view : V, attempt : N, usage : Usage, lookup : V, origin : Origins, asked : Nat]
  BY <1>1 DEF Job
<1>3. job' \in Job
  BY <1>1, <1>2
<1>4. /\ job'.mode = job.mode /\ job'.view = job.view /\ job'.lookup = job.lookup
      /\ job'.asked = job.asked /\ job'.usage = u /\ job'.origin = o
  BY <1>2
<1>. QED  BY <1>3, <1>4 DEF JobGoesOn, JMode, JView, JLooked, JAsked, JGen, JDec, JOrigin

\* A job whose other fields are left out of the update.
LEMMA SameUpdate ==
  ASSUME job \in Job, NEW u, NEW o, NEW a
  PROVE  /\ [job EXCEPT !.usage = u] =
               [job EXCEPT !.usage = u, !.origin = job.origin, !.attempt = job.attempt]
         /\ [job EXCEPT !.usage = u, !.origin = o] =
               [job EXCEPT !.usage = u, !.origin = o, !.attempt = job.attempt]
         /\ [job EXCEPT !.usage = u, !.attempt = a] =
               [job EXCEPT !.usage = u, !.origin = job.origin, !.attempt = a]
         /\ [job EXCEPT !.origin = o] =
               [job EXCEPT !.usage = job.usage, !.origin = o, !.attempt = job.attempt]
         /\ [job EXCEPT !.attempt = a] =
               [job EXCEPT !.usage = job.usage, !.origin = job.origin, !.attempt = a]
         /\ job.origin \in Origins /\ job.attempt \in 1..Attempts /\ job.usage \in Usage
BY DEF Job

\* What a usage becomes.
LEMMA UsageFields ==
  ASSUME NEW u \in Usage
  PROVE  /\ Generated(u) \in Usage /\ Decided(u) \in Usage
         /\ Generated(u).gen = u.gen + 1 /\ Generated(u).dec = u.dec
         /\ Decided(u).gen = u.gen /\ Decided(u).dec = u.dec + 1
BY DEF Usage, Generated, Decided

\* Asking the model, with a job that has another lookup or another usage.
LEMMA AskedJob ==
  ASSUME NEW j \in Job, NEW mode \in Modes, NEW records \in Seq(Record), stale \in Nat,
         Ask(mode, records, j)
  PROVE  /\ job' \in Job /\ pc' = "answer"
         /\ JMode' = mode /\ JView' = Shown(records) /\ JAsked' = stale
         /\ JLooked' = j.lookup /\ JOrigin' = j.origin /\ JGen' = j.usage.gen /\ JDec' = j.usage.dec
<1>1. PICK V, N : V = Seq(Record) /\ N = 1..Attempts
  OBVIOUS
<1>2. Job = [mode : Modes, view : V, attempt : N, usage : Usage, lookup : V, origin : Origins, asked : Nat]
  BY <1>1 DEF Job
<1>3. Shown(records) \in V
  BY <1>1, ShownIsTheEnd
<1>4. 1 \in N
  BY <1>1, AgentAssumption
<1>5. job' = [j EXCEPT !.mode = mode, !.view = Shown(records), !.attempt = 1, !.asked = stale]
  BY DEF Ask
<1>6. job' \in Job
  BY <1>2, <1>3, <1>4, <1>5
<1>7. /\ job'.mode = mode /\ job'.view = Shown(records) /\ job'.lookup = j.lookup
      /\ job'.asked = stale /\ job'.usage = j.usage /\ job'.origin = j.origin
  BY <1>2, <1>5
<1>. QED  BY <1>6, <1>7 DEF Ask, JMode, JView, JLooked, JAsked, JGen, JDec, JOrigin

\* The fields of the outputs that are made.
LEMMA OutputFields ==
  /\ out' = ByEngine => OBy' = "engine"
  /\ \A w, v : out' = ByModel(w, v) =>
       /\ OBy' = "model" /\ OShape' = w.shape /\ OReply' = w.reply /\ OBeside' = w.shape
       /\ OView' = v
  /\ out \in Output /\ out' = Refused(out) => OBy' = "engine"
  /\ out \in Output /\ out' = WithoutToolCall(out) =>
       /\ OBy' = OBy /\ OReply' = OReply /\ OBeside' = OBeside /\ OView' = OView
       /\ OVerdict' = OVerdict /\ OJudged' = OJudged
<1>1. out' = ByEngine => OBy' = "engine"
  BY DEF ByEngine, OBy
<1>2. ASSUME NEW w, NEW v, out' = ByModel(w, v)
      PROVE  /\ OBy' = "model" /\ OShape' = w.shape /\ OReply' = w.reply /\ OBeside' = w.shape
             /\ OView' = v
  BY <1>2 DEF ByModel, OBy, OShape, OReply, OBeside, OView
<1>3. ASSUME out \in Output, out' = Refused(out)
      PROVE  OBy' = "engine"
  BY <1>3 DEF Output, Refused, OBy
<1>4. ASSUME out \in Output, out' = WithoutToolCall(out)
      PROVE  /\ OBy' = OBy /\ OReply' = OReply /\ OBeside' = OBeside /\ OView' = OView
             /\ OVerdict' = OVerdict /\ OJudged' = OJudged
  BY <1>4 DEF Output, WithoutToolCall, OBy, OReply, OBeside, OView, OVerdict, OJudged
<1>. QED  BY <1>1, <1>2, <1>3, <1>4

-----------------------------------------------------------------------------
(* The inductive invariant *)

Inside == {"llm", "compose", "recompose", "point", "lookup",
           "answer", "check", "again", "recheck", "commit"}
Dispatching == {"compose", "recompose", "point", "lookup"}

\* A node starts with nothing used, nothing spent and no lookup.
StartsClean ==
  pc \in {"retrieve", "llm"} =>
    JMode = "Loop" /\ JOrigin = "none" /\ JGen = 0 /\ JDec = 0 /\ SGen = 0 /\ SDec = 0

\* Where the argument of a fast call came from, by how far the call has got.
OriginsFollow ==
  /\ pc \in {"compose", "recompose"} => JOrigin = "none"
  /\ pc = "point" => JOrigin = "composed"
  /\ pc = "lookup" \/ JLooked # <<>> => JOrigin \in {"picked", "verbatim", "pointed"}

\* A fast lookup is the first of its turn, and the last before the commit.
LooksUpFirst ==
  /\ pc \in Dispatching \cup {"retrieve", "llm"} => JLooked = <<>>
  /\ pc \in Dispatching => fetched = <<>> /\ JMode = "Loop"
  /\ pc \in Inside /\ JLooked # <<>> => fetched = <<>> /\ Len(JLooked) = 1

\* The usage lacks at most the decision over a composed argument.
UsageKept ==
  pc \in Inside =>
    /\ JGen = SGen
    /\ SDec # JDec => SDec = JDec + 1 /\ JOrigin \in {"composed", "pointed"} /\ pc # "point"

\* The material is in the order of its lookups, and what was carried reached its source.
MaterialInOrder ==
  /\ InOrder(Material) /\ UpTo(Material, lookups)
  /\ pc \in Inside => InOrder(Material \o JLooked) /\ UpTo(Material \o JLooked, lookups)
  /\ AllReached(carried)

\* A turn goes on only while its run of failed steps is short.
FailuresBounded == ConsecutiveFailedSteps(fetched) < MaxErrors

\* What makes a view a source for an agent's reply: a lookup of the turn, or nothing in the
\* view that is stale or an error.
Grounded(view, got, looked, asked) ==
  /\ view # <<>>
  /\ got = <<>> /\ looked = <<>> =>
       \A i \in 1..Len(view) : view[i].ok /\ view[i].at > asked

\* What the model is shown.
ViewsFollow ==
  pc \in Asking =>
    /\ JMode = "Loop" => JView = Shown(Material \o JLooked)
    /\ graph = "agent" => Grounded(JView, fetched, JLooked, JAsked)

\* A reply of the model was written from the view of the job.
RepliesHaveViews ==
  /\ pc \in {"check", "again", "recheck"} => OBy = "model" /\ OView = JView
  /\ pc = "commit" /\ OBy = "model" =>
       OView = JView /\ (graph = "agent" => Grounded(JView, fetched, JLooked, JAsked))
  /\ pc = "ended" /\ OBy = "model" /\ graph = "agent" => Grounded(OView, fetched, <<>>, JAsked)

\* A plain reply is committed only once it was found sound.
PlainRepliesJudged ==
  /\ pc \in {"check", "recheck"} => OBeside = OShape
  /\ pc \in {"commit", "ended"} /\ OBy = "model" /\ OBeside = "null" /\ OReply = "text" =>
       OVerdict = "sound" /\ OJudged = OView

AgentInv ==
  /\ TypeOK /\ StartsClean /\ OriginsFollow /\ LooksUpFirst /\ UsageKept
  /\ MaterialInOrder /\ FailuresBounded /\ ViewsFollow /\ RepliesHaveViews
  /\ PlainRepliesJudged

-----------------------------------------------------------------------------
(* Every step keeps it *)

World ==
  /\ graph' = graph /\ turn' = turn /\ carried' = carried /\ fetched' = fetched
  /\ lookups' = lookups /\ stale' = stale /\ lost' = lost

\* Steps that leave the conversation alone leave the order of the material.
LEMMA SameMaterial ==
  ASSUME AgentInv, carried' = carried, fetched' = fetched, lookups' = lookups,
         \/ JLooked' = <<>>
         \/ JLooked' = JLooked /\ pc \in Inside
         \/ pc' \notin Inside
  PROVE  MaterialInOrder' /\ FailuresBounded'
<1>1. carried \in Seq(Record) /\ fetched \in Seq(Record)
  BY DEF AgentInv, TypeOK
<1>2. Material' = Material /\ Material \in Seq(Record)
  BY <1>1 DEF Material
<1>3. Material \o <<>> = Material
  BY <1>2, JoinedWithNothing
<1>4. /\ InOrder(Material) /\ UpTo(Material, lookups) /\ AllReached(carried)
      /\ pc \in Inside => InOrder(Material \o JLooked) /\ UpTo(Material \o JLooked, lookups)
  BY DEF AgentInv, MaterialInOrder
<1>5. MaterialInOrder'
  <2>1. InOrder(Material)' /\ UpTo(Material, lookups)' /\ AllReached(carried)'
    BY <1>2, <1>4 DEF InOrder, UpTo, AllReached
  <2>2. CASE JLooked' = <<>>
    <3>1. (Material \o JLooked)' = Material
      BY <1>2, <1>3, <2>2
    <3>. QED  BY <1>4, <2>1, <3>1 DEF MaterialInOrder, InOrder, UpTo
  <2>3. CASE JLooked' = JLooked /\ pc \in Inside
    <3>1. (Material \o JLooked)' = Material \o JLooked
      BY <1>2, <2>3
    <3>. QED  BY <1>4, <2>1, <2>3, <3>1 DEF MaterialInOrder, InOrder, UpTo
  <2>4. CASE pc' \notin Inside
    BY <2>1, <2>4 DEF MaterialInOrder
  <2>. QED  BY <2>2, <2>3, <2>4
<1>6. FailuresBounded'
  <2>1. ConsecutiveFailedSteps(fetched)' = ConsecutiveFailedSteps(fetched)
    BY DEF ConsecutiveFailedSteps
  <2>. QED  BY <2>1 DEF AgentInv, FailuresBounded
<1>. QED  BY <1>5, <1>6

\* A turn that fails goes no further.
LEMMA FailsKeeps ==
  ASSUME AgentInv, Fails
  PROVE  AgentInv'
<1>1. pc' = "failed" /\ World /\ job' = job /\ out' = out /\ spent' = spent
  BY DEF Fails, World, conversation
<1>2. TypeOK /\ job \in Job
  BY FieldTypes DEF AgentInv
<1>3. JobKept
  BY <1>1, <1>2, KeptJob
<1>4. TypeOK'
  BY <1>1, <1>2 DEF TypeOK, World, Points
<1>5. StartsClean' /\ OriginsFollow' /\ LooksUpFirst' /\ UsageKept'
  BY <1>1, <1>3 DEF AgentInv, StartsClean, OriginsFollow, LooksUpFirst, UsageKept, JobKept,
     JobGoesOn, Inside, Dispatching
<1>6. MaterialInOrder' /\ FailuresBounded'
  <2>1. pc' \notin Inside
    BY <1>1 DEF Inside
  <2>. QED  BY <1>1, <2>1, SameMaterial DEF World
<1>7. ViewsFollow' /\ RepliesHaveViews' /\ PlainRepliesJudged'
  BY <1>1 DEF ViewsFollow, RepliesHaveViews, PlainRepliesJudged, Asking
<1>. QED  BY <1>4, <1>5, <1>6, <1>7 DEF AgentInv

\* Time passes: what was asked stays asked.
LEMMA TimePassesKeeps ==
  ASSUME AgentInv, TimePasses
  PROVE  AgentInv'
<1>1. /\ pc' = pc /\ graph' = graph /\ turn' = turn /\ carried' = carried /\ fetched' = fetched
      /\ lookups' = lookups /\ lost' = lost /\ job' = job /\ out' = out /\ spent' = spent
      /\ stale' \in (stale + 1)..lookups
  BY DEF TimePasses, conversation
<1>2. TypeOK /\ job \in Job
  BY FieldTypes DEF AgentInv
<1>3. JobKept /\ OutKept /\ SGen' = SGen /\ SDec' = SDec
  BY <1>1, <1>2, KeptJob, KeptOut DEF SGen, SDec
<1>4. TypeOK'
  BY <1>1, <1>2, AgentAssumption DEF TypeOK
<1>5. StartsClean' /\ OriginsFollow' /\ LooksUpFirst' /\ UsageKept'
  BY <1>1, <1>3 DEF AgentInv, StartsClean, OriginsFollow, LooksUpFirst, UsageKept, JobKept,
     JobGoesOn
<1>6. MaterialInOrder' /\ FailuresBounded'
  <2>1. JLooked' = JLooked /\ (pc \in Inside \/ pc' \notin Inside)
    BY <1>1, <1>3 DEF JobKept, JobGoesOn
  <2>. QED  BY <1>1, <2>1, SameMaterial
<1>7. ViewsFollow' /\ RepliesHaveViews' /\ PlainRepliesJudged'
  <2>1. /\ JMode' = JMode /\ JView' = JView /\ JLooked' = JLooked /\ JAsked' = JAsked
        /\ Material' = Material
    BY <1>1, <1>3 DEF JobKept, JobGoesOn, Material
  <2>2. Shown(Material \o JLooked)' = Shown(Material \o JLooked)
    BY <2>1 DEF Shown, LatestStep
  <2>3. ViewsFollow'
    BY <1>1, <2>1, <2>2 DEF AgentInv, ViewsFollow
  <2>4. RepliesHaveViews' /\ PlainRepliesJudged'
    BY <1>1, <1>3, <2>1 DEF AgentInv, RepliesHaveViews, PlainRepliesJudged, OutKept
  <2>. QED  BY <2>3, <2>4
<1>. QED  BY <1>4, <1>5, <1>6, <1>7 DEF AgentInv

\* A node that begins, or begins again, or the end of a turn with nothing left to run.
LEMMA BeginsKeeps ==
  ASSUME AgentInv, job' = NewJob, spent' = Nothing, pc' \in {"retrieve", "llm", "failed"},
         TypeOK', MaterialInOrder', FailuresBounded'
  PROVE  AgentInv'
<1>1. /\ JMode' = "Loop" /\ JView' = <<>> /\ JLooked' = <<>> /\ JOrigin' = "none"
      /\ JGen' = 0 /\ JDec' = 0
  BY NewFields
<1>2. SGen' = 0 /\ SDec' = 0
  BY DEF Nothing, SGen, SDec
<1>3. StartsClean' /\ OriginsFollow' /\ LooksUpFirst' /\ UsageKept'
  BY <1>1, <1>2 DEF StartsClean, OriginsFollow, LooksUpFirst, UsageKept, Dispatching
<1>4. ViewsFollow' /\ RepliesHaveViews' /\ PlainRepliesJudged'
  BY DEF ViewsFollow, RepliesHaveViews, PlainRepliesJudged, Asking
<1>. QED  BY <1>3, <1>4 DEF AgentInv

\* A lost tick runs the node from its start, with what the checkpoint has.
LEMMA TickLostKeeps ==
  ASSUME AgentInv, TickLost
  PROVE  AgentInv'
<1>1. /\ pc' = "llm" /\ graph' = graph /\ turn' = turn /\ carried' = carried /\ fetched' = fetched
      /\ lookups' = lookups /\ stale' = stale /\ lost' = lost + 1 /\ lost < MaxLost
      /\ job' = NewJob /\ out' = ByEngine /\ spent' = Nothing
  BY DEF TickLost, conversation
<1>2. TypeOK'
  <2>1. NewJob \in Job /\ ByEngine \in Output /\ Nothing \in Usage
    BY NewTypes
  <2>2. lost' \in 0..MaxLost
    BY <1>1, AgentAssumption DEF AgentInv, TypeOK
  <2>. QED  BY <1>1, <2>1, <2>2 DEF AgentInv, TypeOK, Job, Points
<1>3. MaterialInOrder' /\ FailuresBounded'
  <2>1. JLooked' = <<>>
    BY <1>1, NewFields
  <2>. QED  BY <1>1, <2>1, SameMaterial
<1>. QED  BY <1>1, <1>2, <1>3, BeginsKeeps

\* What a follow-up inherits is in order and reached its source.
LEMMA InheritedFacts ==
  ASSUME AgentInv
  PROVE  /\ CarriedRecords \in Seq(Record)
         /\ InOrder(CarriedRecords) /\ UpTo(CarriedRecords, lookups) /\ AllReached(CarriedRecords)
<1>1. /\ carried \in Seq(Record) /\ fetched \in Seq(Record) /\ lookups \in Nat
      /\ Material \in Seq(Record)
  BY AgentAssumption, MaterialTypes DEF AgentInv, TypeOK
<1>2. InOrder(Material) /\ UpTo(Material, lookups)
  BY DEF AgentInv, MaterialInOrder
<1>3. PICK r : r = Only(Material, ReachedItsSource)
  OBVIOUS
<1>4. /\ r \in Seq(Record) /\ InOrder(r) /\ UpTo(r, lookups)
      /\ \A i \in 1..Len(r) : r[i] \in ReachedItsSource
  BY <1>1, <1>2, <1>3, OnlyKeeps
<1>5. /\ Shown(r) \in Seq(Record) /\ InOrder(Shown(r)) /\ UpTo(Shown(r), lookups)
      /\ \A i \in 1..Len(Shown(r)) : \E k \in 1..Len(r) : Shown(r)[i] = r[k]
  BY <1>1, <1>4, ShownKeeps
<1>6. AllReached(Shown(r))
  BY <1>4, <1>5 DEF AllReached, ReachedItsSource
<1>. QED  BY <1>3, <1>5, <1>6 DEF CarriedRecords

\* A follow-up begins with what it inherits, or with nothing.
LEMMA StartContinuingKeeps ==
  ASSUME AgentInv, StartContinuing
  PROVE  AgentInv'
<1>1. /\ graph' \in Graphs /\ turn' = turn + 1 /\ carried' \in {<<>>, CarriedRecords}
      /\ fetched' = <<>> /\ pc' = Entry(graph') /\ job' = NewJob /\ out' = ByEngine
      /\ spent' = Nothing /\ lookups' = lookups /\ stale' = stale /\ lost' = lost
  BY DEF StartContinuing
<1>2. lookups \in Nat
  BY AgentAssumption DEF AgentInv, TypeOK
<1>3. /\ carried' \in Seq(Record) /\ InOrder(carried') /\ UpTo(carried', lookups)
      /\ AllReached(carried')
  <2>1. CASE carried' = <<>>
    BY <2>1 DEF InOrder, UpTo, AllReached
  <2>2. CASE carried' = CarriedRecords
    BY <2>2, InheritedFacts
  <2>. QED  BY <1>1, <2>1, <2>2
<1>4. TypeOK'
  <2>1. NewJob \in Job /\ ByEngine \in Output /\ Nothing \in Usage
    BY NewTypes
  <2>2. turn' \in Nat /\ fetched' \in Seq(Record) /\ pc' \in Points
    BY <1>1 DEF AgentInv, TypeOK, Points, Entry
  <2>. QED  BY <1>1, <1>3, <2>1, <2>2 DEF AgentInv, TypeOK, Job
<1>5. MaterialInOrder'
  <2>1. Material' = carried'
    BY <1>1, <1>3, JoinedWithNothing DEF Material
  <2>2. JLooked' = <<>>
    BY <1>1, NewFields
  <2>3. (Material \o JLooked)' = carried'
    BY <1>3, <2>1, <2>2, JoinedWithNothing
  <2>. QED  BY <1>1, <1>3, <2>1, <2>3 DEF MaterialInOrder, InOrder, UpTo, AllReached
<1>6. FailuresBounded'
  <2>1. <<>> \in Seq(Record)
    OBVIOUS
  <2>2. FailedSteps(<<>>) = {}
    BY DEF FailedSteps, ToSet
  <2>3. ConsecutiveFailedSteps(<<>>) = 0
    BY <2>1, <2>2, FailedStepsFacts, FS_EmptySet
  <2>4. FailuresBounded' <=> ConsecutiveFailedSteps(<<>>) < MaxErrors
    BY <1>1 DEF FailuresBounded, ConsecutiveFailedSteps
  <2>. QED  BY <2>3, <2>4, AgentAssumption
<1>7. pc' \in {"retrieve", "llm"}
  BY <1>1 DEF Entry
<1>. QED  BY <1>1, <1>4, <1>5, <1>6, <1>7, BeginsKeeps

\* The model is asked: with its view the rest follows.
LEMMA AskKeeps ==
  ASSUME AgentInv, NEW j \in Job, NEW mode \in {"Loop", "FromMaterial"}, NEW records \in Seq(Record),
         pc \in {"llm", "lookup"}, Ask(mode, records, j),
         graph' = graph, turn' = turn, carried' = carried, fetched' = fetched, stale' = stale,
         lost' = lost, lookups' \in 0..MaxLookups, lookups <= lookups', out' = out, spent' \in Usage,
         j.usage.gen = SGen', j.usage.dec = SDec' \/ (j.usage.dec + 1 = SDec' /\ j.origin = "pointed"),
         j.lookup # <<>> => /\ fetched = <<>> /\ Len(j.lookup) = 1
                            /\ j.origin \in {"picked", "verbatim", "pointed"},
         MaterialInOrder', FailuresBounded',
         mode = "Loop" => records = Material \o j.lookup,
         graph = "agent" => Grounded(Shown(records), fetched, j.lookup, stale)
  PROVE  AgentInv'
<1>1. TypeOK /\ stale \in Nat /\ lookups \in Nat
  BY AgentAssumption DEF AgentInv, TypeOK
<1>2. mode \in Modes
  BY DEF Modes
<1>3. /\ job' \in Job /\ pc' = "answer"
      /\ JMode' = mode /\ JView' = Shown(records) /\ JAsked' = stale
      /\ JLooked' = j.lookup /\ JOrigin' = j.origin /\ JGen' = j.usage.gen /\ JDec' = j.usage.dec
  BY <1>1, <1>2, AskedJob
<1>4. TypeOK'
  <2>1. stale' \in 0..lookups'
    BY <1>1, AgentAssumption DEF TypeOK
  <2>. QED  BY <1>1, <1>3, <2>1 DEF TypeOK, Job, Points
<1>5. StartsClean' /\ OriginsFollow' /\ LooksUpFirst' /\ UsageKept'
  <2>1. SDec' # JDec' => SDec' = JDec' + 1 /\ JOrigin' = "pointed"
    BY <1>3
  <2>2. UsageKept'
    BY <1>3, <2>1 DEF UsageKept
  <2>3. StartsClean' /\ OriginsFollow' /\ LooksUpFirst'
    BY <1>3 DEF StartsClean, OriginsFollow, LooksUpFirst, Dispatching
  <2>. QED  BY <2>2, <2>3
<1>6. ViewsFollow' /\ RepliesHaveViews' /\ PlainRepliesJudged'
  <2>1. Material' = Material
    BY DEF Material
  <2>2. ViewsFollow'
    <3>1. mode = "Loop" => JView' = Shown(Material' \o JLooked')
      BY <1>3, <2>1
    <3>2. mode = "Loop" => JView' = Shown(Material \o JLooked)'
      BY <3>1 DEF Shown, LatestStep
    <3>. QED  BY <1>3, <3>2 DEF ViewsFollow
  <2>. QED  BY <1>3, <2>2 DEF RepliesHaveViews, PlainRepliesJudged
<1>. QED  BY <1>4, <1>5, <1>6 DEF AgentInv

\* Without a fast path the model sees the material; in the agent graph that is never nothing.
LEMMA ExecuteLoopKeeps ==
  ASSUME AgentInv, ExecuteLoop
  PROVE  AgentInv'
<1>1. /\ pc = "llm" /\ (graph # "agent" \/ fetched # <<>>) /\ Ask("Loop", Material, job)
      /\ World /\ out' = out /\ spent' = spent
  BY DEF ExecuteLoop, World, conversation, ToolCalling
<1>2. /\ TypeOK /\ job \in Job /\ job.usage.gen \in Nat /\ stale \in Nat
      /\ carried \in Seq(Record) /\ fetched \in Seq(Record) /\ Material \in Seq(Record)
  BY AgentAssumption, FieldTypes, MaterialTypes DEF AgentInv, TypeOK, JGen
<1>3. job.lookup = <<>> /\ job.usage.gen = 0 /\ job.usage.dec = 0 /\ SGen = 0 /\ SDec = 0
  BY <1>1 DEF AgentInv, StartsClean, LooksUpFirst, JLooked, JGen, JDec
<1>4. SGen' = SGen /\ SDec' = SDec /\ spent' \in Usage
  BY <1>1, <1>2 DEF SGen, SDec, TypeOK
<1>5. Material \o job.lookup = Material
  BY <1>2, <1>3, JoinedWithNothing
<1>6. JLooked' = <<>>
  BY <1>1, <1>2, <1>3, AskedJob DEF Modes
<1>7. MaterialInOrder' /\ FailuresBounded'
  BY <1>1, <1>6, SameMaterial DEF World
<1>8. graph = "agent" => Grounded(Shown(Material), fetched, job.lookup, stale)
  <2>1. SUFFICES ASSUME graph = "agent"
        PROVE  Grounded(Shown(Material), fetched, job.lookup, stale)
    OBVIOUS
  <2>2. fetched # <<>>
    BY <1>1, <2>1
  <2>3. Material # <<>>
    <3>1. Len(fetched) > 0 /\ Len(fetched) \in Nat /\ Len(carried) \in Nat
      BY <1>2, <2>2, EmptySeq
    <3>2. Len(Material) = Len(carried) + Len(fetched)
      BY <1>2, Joined DEF Material
    <3>. QED  BY <3>1, <3>2
  <2>4. Shown(Material) # <<>>
    BY <1>2, <2>3, ShownIsTheEnd
  <2>. QED  BY <2>2, <2>4 DEF Grounded
<1>9. lookups' \in 0..MaxLookups /\ lookups <= lookups'
  BY <1>1, <1>2, AgentAssumption DEF TypeOK, World
<1>. QED  BY <1>1, <1>2, <1>3, <1>4, <1>5, <1>7, <1>8, <1>9, AskKeeps DEF World

\* A reply composed in Rust is committed.
LEMMA EngineReplies ==
  ASSUME AgentInv, pc \in Inside, World, JobGoesOn, out' \in Output, OBy' = "engine",
         pc' = "commit", spent' \in Usage, JGen' = SGen',
         SDec' # JDec' => SDec' = JDec' + 1 /\ JOrigin' \in {"composed", "pointed"},
         JLooked # <<>> => JOrigin' = JOrigin
  PROVE  AgentInv'
<1>1. TypeOK'
  BY DEF AgentInv, TypeOK, Job, Points, World, JobGoesOn
<1>2. StartsClean' /\ OriginsFollow' /\ LooksUpFirst' /\ UsageKept'
  BY DEF AgentInv, StartsClean, OriginsFollow, LooksUpFirst, UsageKept, Dispatching, Inside,
     JobGoesOn, World
<1>3. MaterialInOrder' /\ FailuresBounded'
  <2>1. JLooked' = JLooked
    BY DEF JobGoesOn
  <2>. QED  BY <2>1, SameMaterial DEF World
<1>4. ViewsFollow' /\ RepliesHaveViews' /\ PlainRepliesJudged'
  BY DEF ViewsFollow, RepliesHaveViews, PlainRepliesJudged, Asking
<1>. QED  BY <1>1, <1>2, <1>3, <1>4 DEF AgentInv

\* The fast path goes on to its next point.
LEMMA Dispatches ==
  ASSUME AgentInv, pc \in {"llm", "compose", "recompose", "point", "lookup"}, World, JobGoesOn,
         out' = out, spent' \in Usage, JLooked = <<>>, fetched = <<>>, JMode = "Loop",
         pc' \in {"compose", "recompose", "point", "lookup"}, JGen' = SGen',
         pc' \in {"compose", "recompose"} => JOrigin' = "none",
         pc' = "point" => JOrigin' = "composed",
         pc' = "lookup" => JOrigin' \in {"picked", "verbatim", "pointed"},
         SDec' # JDec' => SDec' = JDec' + 1 /\ JOrigin' = "pointed"
  PROVE  AgentInv'
<1>1. TypeOK'
  BY DEF AgentInv, TypeOK, Job, Points, World, JobGoesOn
<1>2. StartsClean' /\ OriginsFollow' /\ LooksUpFirst' /\ UsageKept'
  BY DEF StartsClean, OriginsFollow, LooksUpFirst, UsageKept, JobGoesOn, World
<1>3. MaterialInOrder' /\ FailuresBounded'
  <2>1. JLooked' = <<>>
    BY DEF JobGoesOn
  <2>. QED  BY <2>1, SameMaterial DEF World
<1>4. ViewsFollow' /\ RepliesHaveViews' /\ PlainRepliesJudged'
  BY DEF ViewsFollow, RepliesHaveViews, PlainRepliesJudged, Asking
<1>. QED  BY <1>1, <1>2, <1>3, <1>4 DEF AgentInv

\* Where the fast path begins.
LEMMA FastPathFacts ==
  ASSUME AgentInv, TriesFastPath
  PROVE  /\ pc = "llm" /\ pc \in Inside /\ graph = "agent" /\ fetched = <<>>
         /\ TypeOK /\ job \in Job /\ spent \in Usage /\ Nothing \in Usage
         /\ JLooked = <<>> /\ JMode = "Loop" /\ JOrigin = "none"
         /\ JGen = 0 /\ JDec = 0 /\ SGen = 0 /\ SDec = 0
BY FieldTypes, NewTypes DEF AgentInv, TriesFastPath, ToolCalling, StartsClean, LooksUpFirst,
   Inside, TypeOK

\* A decline charges what the decision over the scope did.
LEMMA DeclineKeeps ==
  ASSUME AgentInv, TriesFastPath, World, NEW u \in Usage, Decline(u), spent' \in Usage,
         u.gen = SGen', u.dec = SDec'
  PROVE  AgentInv'
<1>1. /\ pc \in Inside /\ job \in Job /\ JLooked = <<>>
  BY FastPathFacts
<1>2. job' = [job EXCEPT !.usage = u] /\ out' = ByEngine /\ pc' = "commit"
  BY DEF Decline
<1>3. /\ job' = [job EXCEPT !.usage = u, !.origin = job.origin, !.attempt = job.attempt]
      /\ job.origin \in Origins /\ job.attempt \in 1..Attempts
  BY <1>1, <1>2, SameUpdate
<1>4. JobGoesOn /\ JGen' = u.gen /\ JDec' = u.dec
  BY <1>1, <1>3, ChargedJob
<1>5. out' \in Output /\ OBy' = "engine"
  BY <1>2, NewTypes, OutputFields
<1>. QED  BY <1>1, <1>2, <1>4, <1>5, EngineReplies

\* No decision over the scope: nothing was charged, and the person is told.
LEMMA ScopeUnansweredKeeps ==
  ASSUME AgentInv, ScopeUnanswered
  PROVE  AgentInv'
<1>1. TriesFastPath /\ World /\ Decline(Nothing) /\ spent' = spent
  BY DEF ScopeUnanswered, World, conversation
<1>2. Nothing \in Usage /\ spent \in Usage /\ SGen = 0 /\ SDec = 0
  BY <1>1, FastPathFacts
<1>3. Nothing.gen = SGen' /\ Nothing.dec = SDec'
  BY <1>1, <1>2 DEF Nothing, SGen, SDec
<1>. QED  BY <1>1, <1>2, <1>3, DeclineKeeps

\* One decision, from nothing.
LEMMA FirstDecision ==
  ASSUME AgentInv, TriesFastPath, spent' = Decided(spent)
  PROVE  /\ Decided(Nothing) \in Usage /\ spent' \in Usage
         /\ Decided(Nothing).gen = SGen' /\ Decided(Nothing).dec = SDec'
         /\ SGen' = 0 /\ SDec' = 1
<1>1. Nothing \in Usage /\ spent \in Usage /\ spent.gen = 0 /\ spent.dec = 0
  BY FastPathFacts DEF SGen, SDec
<1>2. Nothing.gen = 0 /\ Nothing.dec = 0
  BY DEF Nothing
<1>3. /\ Decided(Nothing) \in Usage /\ Decided(spent) \in Usage
      /\ Decided(Nothing).gen = 0 /\ Decided(Nothing).dec = 0 + 1
      /\ Decided(spent).gen = 0 /\ Decided(spent).dec = 0 + 1
  BY <1>1, <1>2, UsageFields
<1>. QED  BY <1>3 DEF SGen, SDec

\* A decision for no tool: one decision was charged, and the person is told.
LEMMA ScopeNoneKeeps ==
  ASSUME AgentInv, ScopeNone
  PROVE  AgentInv'
<1>1. TriesFastPath /\ World /\ Decline(Decided(Nothing)) /\ spent' = Decided(spent)
  BY DEF ScopeNone, World, conversation
<1>. QED  BY <1>1, FirstDecision, DeclineKeeps

\* Carried material answers while some of it is fresh.
LEMMA AnswerFromMaterialKeeps ==
  ASSUME AgentInv, AnswerFromMaterial
  PROVE  AgentInv'
<1>1. TriesFastPath /\ World /\ spent' = Decided(spent)
  BY DEF AnswerFromMaterial, World, conversation
<1>2. CASE StillFresh = <<>>
  <2>1. Decline(Decided(Nothing))
    BY <1>2 DEF AnswerFromMaterial
  <2>. QED  BY <1>1, <2>1, FirstDecision, DeclineKeeps
<1>3. CASE StillFresh # <<>>
  <2>. DEFINE j == [job EXCEPT !.usage = Decided(@)]
  <2>1. Ask("FromMaterial", StillFresh, j) /\ out' = out
    BY <1>3 DEF AnswerFromMaterial
  <2>2. /\ pc = "llm" /\ job \in Job /\ fetched = <<>> /\ JLooked = <<>> /\ JGen = 0 /\ JDec = 0
        /\ TypeOK
    BY <1>1, FastPathFacts
  <2>3. /\ j \in Job /\ j.lookup = <<>> /\ j.usage.gen = 0 /\ j.usage.dec = 1
    <3>1. job.usage \in Usage /\ job.usage.gen = 0 /\ job.usage.dec = 0
      BY <2>2 DEF Job, JGen, JDec
    <3>2. PICK u : u = Decided(job.usage)
      OBVIOUS
    <3>3. u \in Usage /\ u.gen = 0 /\ u.dec = 0 + 1
      BY <3>1, <3>2, UsageFields
    <3>4. j = [job EXCEPT !.usage = u]
      BY <3>2
    <3>5. j \in Job /\ j.usage = u /\ j.lookup = job.lookup
      BY <2>2, <3>3, <3>4 DEF Job
    <3>. QED  BY <2>2, <3>3, <3>5 DEF JLooked
  <2>. HIDE DEF j
  <2>4. spent' \in Usage /\ SGen' = 0 /\ SDec' = 1
    BY <1>1, FirstDecision
  <2>5. /\ carried \in Seq(Record) /\ StillFresh \in Seq(Record) /\ stale \in Nat
        /\ fetched \in Seq(Record) /\ lookups \in 0..MaxLookups /\ lookups \in Nat
    BY <2>2, AgentAssumption, MaterialTypes DEF TypeOK, StillFresh
  <2>6. JLooked' = <<>>
    BY <2>1, <2>3, <2>5, AskedJob DEF Modes
  <2>7. MaterialInOrder' /\ FailuresBounded'
    BY <1>1, <2>6, SameMaterial DEF World
  <2>8. Grounded(Shown(StillFresh), fetched, j.lookup, stale)
    <3>1. /\ \A i \in 1..Len(StillFresh) :
               StillFresh[i] \in Fresh /\ \E k \in 1..Len(carried) : StillFresh[i] = carried[k]
      BY <2>5, OnlyKeeps DEF StillFresh
    <3>2. AllReached(carried)
      BY DEF AgentInv, MaterialInOrder
    <3>3. \A i \in 1..Len(StillFresh) : StillFresh[i].ok /\ StillFresh[i].at > stale
      BY <3>1, <3>2 DEF AllReached, Fresh
    <3>4. /\ Shown(StillFresh) # <<>>
          /\ \A i \in 1..Len(Shown(StillFresh)) :
               \E k \in 1..Len(StillFresh) : Shown(StillFresh)[i] = StillFresh[k]
      BY <1>3, <2>5, ShownKeeps
    <3>. QED  BY <3>3, <3>4 DEF Grounded
  <2>9. lookups' \in 0..MaxLookups /\ lookups <= lookups'
    BY <1>1, <2>5 DEF World
  <2>. QED  BY <1>1, <2>1, <2>2, <2>3, <2>4, <2>5, <2>7, <2>8, <2>9, AskKeeps DEF World
<1>. QED  BY <1>2, <1>3

\* A tool is chosen: its argument is in the message, or has to be composed.
LEMMA ScopeToolKeeps ==
  ASSUME AgentInv, ScopeTool
  PROVE  AgentInv'
<1>1. TriesFastPath /\ World /\ spent' = Decided(spent) /\ out' = out
  BY DEF ScopeTool, World, conversation
<1>2. PICK schema \in Schemas, answers \in Answers, safe \in BOOLEAN :
        /\ job' = [job EXCEPT !.usage = Decided(@), !.origin = FastArgument(schema, answers, safe),
                              !.attempt = 1]
        /\ pc' = IF FastArgument(schema, answers, safe) = "none" THEN "compose" ELSE "lookup"
  BY DEF ScopeTool
<1>3. PICK o : o = FastArgument(schema, answers, safe)
  OBVIOUS
<1>4. o \in {"none", "picked", "verbatim"} /\ o \in Origins
  BY <1>3 DEF FastArgument, Origins
<1>5. /\ pc = "llm" /\ job \in Job /\ fetched = <<>> /\ JLooked = <<>> /\ JMode = "Loop"
      /\ JGen = 0 /\ JDec = 0
  BY <1>1, FastPathFacts
<1>6. PICK u : u = Decided(job.usage)
  OBVIOUS
<1>7. u \in Usage /\ u.gen = 0 /\ u.dec = 1
  <2>1. job.usage \in Usage /\ job.usage.gen = 0 /\ job.usage.dec = 0
    BY <1>5 DEF Job, JGen, JDec
  <2>2. u \in Usage /\ u.gen = 0 /\ u.dec = 0 + 1
    BY <1>6, <2>1, UsageFields
  <2>. QED  BY <2>2
<1>8. job' = [job EXCEPT !.usage = u, !.origin = o, !.attempt = 1] /\ 1 \in 1..Attempts
  BY <1>2, <1>3, <1>6, AgentAssumption
<1>9. JobGoesOn /\ JGen' = u.gen /\ JDec' = u.dec /\ JOrigin' = o
  BY <1>4, <1>5, <1>7, <1>8, ChargedJob
<1>10. spent' \in Usage /\ SGen' = 0 /\ SDec' = 1
  BY <1>1, FirstDecision
<1>11. pc' = IF o = "none" THEN "compose" ELSE "lookup"
  BY <1>2, <1>3
<1>. QED  BY <1>1, <1>4, <1>5, <1>7, <1>9, <1>10, <1>11, Dispatches

\* Another attempt, or nothing at all, changes nothing the invariant speaks of.
LEMMA SameFieldsKeep ==
  ASSUME AgentInv, World, JobKept, out' = out, spent' = spent, pc' = pc
  PROVE  AgentInv'
<1>1. OutKept /\ SGen' = SGen /\ SDec' = SDec
  BY KeptOut DEF SGen, SDec
<1>2. TypeOK'
  BY DEF AgentInv, TypeOK, World, JobKept, JobGoesOn, Job
<1>3. StartsClean' /\ OriginsFollow' /\ LooksUpFirst' /\ UsageKept'
  BY <1>1 DEF AgentInv, StartsClean, OriginsFollow, LooksUpFirst, UsageKept, JobKept,
     JobGoesOn, World
<1>4. MaterialInOrder' /\ FailuresBounded'
  <2>1. JLooked' = JLooked /\ (pc \in Inside \/ pc' \notin Inside)
    BY DEF JobKept, JobGoesOn
  <2>. QED  BY <2>1, SameMaterial DEF World
<1>5. /\ JMode' = JMode /\ JView' = JView /\ JLooked' = JLooked /\ JAsked' = JAsked
      /\ Material' = Material
  BY DEF JobKept, JobGoesOn, Material, World
<1>6. Shown(Material \o JLooked)' = Shown(Material \o JLooked)
  BY <1>5 DEF Shown, LatestStep
<1>7. ViewsFollow'
  BY <1>5, <1>6 DEF AgentInv, ViewsFollow, World
<1>8. RepliesHaveViews' /\ PlainRepliesJudged'
  BY <1>1, <1>5 DEF AgentInv, RepliesHaveViews, PlainRepliesJudged, OutKept, World
<1>. QED  BY <1>2, <1>3, <1>4, <1>7, <1>8 DEF AgentInv

\* An error that leaves an attempt changes only their count.
LEMMA RetryKeeps ==
  ASSUME AgentInv, Retry
  PROVE  AgentInv'
<1>1. /\ job.attempt < Attempts /\ job' = [job EXCEPT !.attempt = job.attempt + 1]
      /\ World /\ out' = out /\ spent' = spent /\ pc' = pc
  BY DEF Retry, World, conversation
<1>2. job \in Job /\ job.usage \in Usage
  BY FieldTypes DEF AgentInv
<1>3. PICK a : a = job.attempt + 1
  OBVIOUS
<1>4. /\ job' = [job EXCEPT !.usage = job.usage, !.origin = job.origin, !.attempt = a]
      /\ job.origin \in Origins /\ job.attempt \in 1..Attempts
  BY <1>1, <1>2, <1>3, SameUpdate
<1>5. a \in 1..Attempts
  BY <1>1, <1>3, <1>4, AgentAssumption
<1>6. PICK u, o : u = job.usage /\ o = job.origin
  OBVIOUS
<1>7. JobGoesOn /\ JGen' = u.gen /\ JDec' = u.dec /\ JOrigin' = o
  BY <1>2, <1>4, <1>5, <1>6, ChargedJob
<1>8. JobKept
  BY <1>6, <1>7 DEF JobKept, JGen, JDec, JOrigin
<1>. QED  BY <1>1, <1>8, SameFieldsKeep

\* What an answer of the model charges, on both accounts.
LEMMA AnswerCharged ==
  ASSUME AgentInv, spent' = Generated(spent)
  PROVE  /\ Generated(job.usage) \in Usage /\ spent' \in Usage
         /\ Generated(job.usage).gen = JGen + 1 /\ Generated(job.usage).dec = JDec
         /\ SGen' = SGen + 1 /\ SDec' = SDec
<1>1. job.usage \in Usage /\ spent \in Usage
  BY FieldTypes DEF AgentInv, TypeOK
<1>. QED  BY <1>1, UsageFields DEF JGen, JDec, SGen, SDec

\* What a decision charges, on both accounts.
LEMMA DecisionCharged ==
  ASSUME AgentInv, spent' = Decided(spent)
  PROVE  /\ Decided(job.usage) \in Usage /\ spent' \in Usage
         /\ Decided(job.usage).gen = JGen /\ Decided(job.usage).dec = JDec + 1
         /\ SGen' = SGen /\ SDec' = SDec + 1
<1>1. job.usage \in Usage /\ spent \in Usage
  BY FieldTypes DEF AgentInv, TypeOK
<1>. QED  BY <1>1, UsageFields DEF JGen, JDec, SGen, SDec

\* The first output had no call: the second is asked for.
LEMMA ComposedNoCallKeeps ==
  ASSUME AgentInv, ComposedNoCall
  PROVE  AgentInv'
<1>1. /\ pc = "compose" /\ spent' = Generated(spent) /\ World /\ out' = out /\ pc' = "recompose"
      /\ job' = [job EXCEPT !.usage = Generated(job.usage), !.attempt = 1]
  BY DEF ComposedNoCall, World, conversation
<1>2. /\ job \in Job /\ JLooked = <<>> /\ fetched = <<>> /\ JMode = "Loop" /\ JOrigin = "none"
      /\ JGen = SGen /\ JDec = SDec
  BY <1>1, FieldTypes DEF AgentInv, OriginsFollow, LooksUpFirst, UsageKept, Dispatching, Inside
<1>3. PICK u : u = Generated(job.usage)
  OBVIOUS
<1>4. /\ u \in Usage /\ spent' \in Usage /\ u.gen = JGen + 1 /\ u.dec = JDec
      /\ SGen' = SGen + 1 /\ SDec' = SDec
  BY <1>1, <1>3, AnswerCharged
<1>5. /\ job' = [job EXCEPT !.usage = u, !.origin = job.origin, !.attempt = 1]
      /\ job.origin \in Origins /\ 1 \in 1..Attempts
  <2>1. PICK a : a = 1
    OBVIOUS
  <2>2. [job EXCEPT !.usage = u, !.attempt = a] =
          [job EXCEPT !.usage = u, !.origin = job.origin, !.attempt = a]
    BY <1>2, SameUpdate
  <2>3. 1 \in 1..Attempts
    BY AgentAssumption
  <2>. QED  BY <1>1, <1>2, <1>3, <2>1, <2>2, <2>3 DEF Job
<1>6. JobGoesOn /\ JGen' = u.gen /\ JDec' = u.dec /\ JOrigin' = JOrigin
  BY <1>2, <1>4, <1>5, ChargedJob DEF JOrigin
<1>. QED  BY <1>1, <1>2, <1>4, <1>6, Dispatches

\* A composed call goes on to the decision over its argument; anything else is a failure
\* told to the person.
LEMMA ComposeToolCallKeeps ==
  ASSUME AgentInv, ComposeToolCall
  PROVE  AgentInv'
<1>1. pc \in {"compose", "recompose"} /\ spent' = Generated(spent) /\ World
  BY DEF ComposeToolCall, World, conversation
<1>2. \/ /\ job' = [job EXCEPT !.usage = Generated(job.usage), !.origin = "composed"]
         /\ pc' = "point" /\ out' = out
      \/ /\ job' = [job EXCEPT !.usage = Generated(job.usage)]
         /\ out' = ByEngine /\ pc' = "commit"
  BY DEF ComposeToolCall
<1>3. /\ job \in Job /\ JLooked = <<>> /\ fetched = <<>> /\ JMode = "Loop" /\ JOrigin = "none"
      /\ JGen = SGen /\ JDec = SDec /\ pc \in Inside
  BY <1>1, FieldTypes DEF AgentInv, OriginsFollow, LooksUpFirst, UsageKept, Dispatching, Inside
<1>4. PICK u : u = Generated(job.usage)
  OBVIOUS
<1>5. /\ u \in Usage /\ spent' \in Usage /\ u.gen = JGen + 1 /\ u.dec = JDec
      /\ SGen' = SGen + 1 /\ SDec' = SDec
  BY <1>1, <1>4, AnswerCharged
<1>6. "composed" \in Origins
  BY DEF Origins
<1>7. CASE pc' = "point"
  <2>1. /\ job' = [job EXCEPT !.usage = u, !.origin = "composed", !.attempt = job.attempt]
        /\ job.attempt \in 1..Attempts /\ out' = out
    BY <1>2, <1>3, <1>4, <1>7, SameUpdate
  <2>2. JobGoesOn /\ JGen' = u.gen /\ JDec' = u.dec /\ JOrigin' = "composed"
    BY <1>3, <1>5, <1>6, <2>1, ChargedJob
  <2>. QED  BY <1>1, <1>3, <1>5, <1>7, <2>1, <2>2, Dispatches
<1>8. CASE pc' = "commit"
  <2>1. /\ job' = [job EXCEPT !.usage = u, !.origin = job.origin, !.attempt = job.attempt]
        /\ job.attempt \in 1..Attempts /\ job.origin \in Origins /\ out' = ByEngine
    BY <1>2, <1>3, <1>4, <1>8, SameUpdate
  <2>2. JobGoesOn /\ JGen' = u.gen /\ JDec' = u.dec
    BY <1>3, <1>5, <2>1, ChargedJob
  <2>3. out' \in Output /\ OBy' = "engine"
    BY <2>1, NewTypes, OutputFields
  <2>. QED  BY <1>1, <1>3, <1>5, <1>8, <2>2, <2>3, EngineReplies
<1>. QED  BY <1>2, <1>7, <1>8

\* Nobody could say whether the message points at the argument: the person is asked.
LEMMA PointUncheckedKeeps ==
  ASSUME AgentInv, PointUnchecked
  PROVE  AgentInv'
<1>1. /\ pc = "point" /\ out' = ByEngine /\ pc' = "commit" /\ World /\ job' = job /\ spent' = spent
  BY DEF PointUnchecked, World, conversation
<1>2. /\ job \in Job /\ spent \in Usage /\ JGen = SGen /\ JDec = SDec /\ JLooked = <<>> /\ pc \in Inside
  BY <1>1, FieldTypes DEF AgentInv, TypeOK, LooksUpFirst, UsageKept, Dispatching, Inside
<1>3. JobKept
  BY <1>1, <1>2, KeptJob
<1>4. out' \in Output /\ OBy' = "engine" /\ SGen' = SGen /\ SDec' = SDec /\ spent' \in Usage
  BY <1>1, <1>2, NewTypes, OutputFields DEF SGen, SDec
<1>. QED  BY <1>1, <1>2, <1>3, <1>4, EngineReplies DEF JobKept

\* The one decision that is not added to the usage.
LEMMA PointDecidedKeeps ==
  ASSUME AgentInv, PointDecided
  PROVE  AgentInv'
<1>1. /\ pc = "point" /\ spent' = Decided(spent) /\ World
      /\ \/ out' = ByEngine /\ pc' = "commit" /\ job' = job
         \/ pc' = "lookup" /\ job' = [job EXCEPT !.origin = "pointed"] /\ out' = out
  BY DEF PointDecided, World, conversation
<1>2. /\ job \in Job /\ job.usage \in Usage /\ JGen = SGen /\ JDec = SDec /\ JDec \in Nat
      /\ JLooked = <<>> /\ fetched = <<>> /\ JMode = "Loop" /\ JOrigin = "composed" /\ pc \in Inside
  BY <1>1, FieldTypes DEF AgentInv, LooksUpFirst, UsageKept, OriginsFollow, Dispatching, Inside
<1>3. spent' \in Usage /\ SGen' = SGen /\ SDec' = SDec + 1
  BY <1>1, DecisionCharged
<1>4. CASE out' = ByEngine /\ pc' = "commit" /\ job' = job
  <2>1. JobKept
    BY <1>2, <1>4, KeptJob
  <2>2. out' \in Output /\ OBy' = "engine"
    BY <1>4, NewTypes, OutputFields
  <2>. QED  BY <1>1, <1>2, <1>3, <1>4, <2>1, <2>2, EngineReplies DEF JobKept
<1>5. CASE pc' = "lookup" /\ job' = [job EXCEPT !.origin = "pointed"] /\ out' = out
  <2>1. /\ job' = [job EXCEPT !.usage = job.usage, !.origin = "pointed", !.attempt = job.attempt]
        /\ job.attempt \in 1..Attempts /\ "pointed" \in Origins
    BY <1>2, <1>5, SameUpdate DEF Origins
  <2>2. PICK u : u = job.usage
    OBVIOUS
  <2>3. JobGoesOn /\ JGen' = u.gen /\ JDec' = u.dec /\ JOrigin' = "pointed"
    BY <1>2, <2>1, <2>2, ChargedJob
  <2>4. JGen' = JGen /\ JDec' = JDec
    BY <2>2, <2>3 DEF JGen, JDec
  <2>. QED  BY <1>1, <1>2, <1>3, <1>5, <2>3, <2>4, Dispatches
<1>. QED  BY <1>1, <1>4, <1>5

\* A bound on the steps of a list stays one when it grows.
LEMMA UpToGrows ==
  ASSUME NEW s \in Seq(Record), NEW n \in Nat, UpTo(s, n)
  PROVE  UpTo(s, n + 1)
BY RecordFacts DEF UpTo

\* The model is asked with the record of the lookup beside the material.
LEMMA FastLookupKeeps ==
  ASSUME AgentInv, FastLookup
  PROVE  AgentInv'
<1>1. /\ pc = "lookup" /\ lookups < MaxLookups /\ lookups' = lookups + 1
      /\ graph' = graph /\ turn' = turn /\ carried' = carried /\ fetched' = fetched
      /\ stale' = stale /\ out' = out /\ spent' = spent /\ lost' = lost
  BY DEF FastLookup, conversation
<1>2. PICK record \in LookedUp : Ask("Loop", Material \o record, [job EXCEPT !.lookup = record])
  BY DEF FastLookup
<1>3. /\ TypeOK /\ job \in Job /\ carried \in Seq(Record) /\ fetched \in Seq(Record)
      /\ Material \in Seq(Record) /\ lookups \in Nat /\ lookups \in 0..MaxLookups
      /\ stale \in Nat /\ spent \in Usage /\ JDec \in Nat /\ SDec \in Nat
  BY AgentAssumption, FieldTypes, MaterialTypes DEF AgentInv, TypeOK
<1>4. /\ record \in Seq(Record) /\ Len(record) = 1 /\ record # <<>>
      /\ \A i \in 1..Len(record) : record[i].at = lookups + 1
  BY <1>1, <1>3, LookedUpFacts
<1>5. PICK j : j = [job EXCEPT !.lookup = record]
  OBVIOUS
<1>6. j \in Job /\ j.lookup = record /\ j.origin = JOrigin /\ j.usage.gen = JGen /\ j.usage.dec = JDec
  BY <1>3, <1>4, <1>5 DEF Job, JOrigin, JGen, JDec
<1>7. /\ fetched = <<>> /\ JOrigin \in {"picked", "verbatim", "pointed"} /\ JGen = SGen
      /\ SDec = JDec \/ (JDec + 1 = SDec /\ JOrigin = "pointed")
  BY <1>1 DEF AgentInv, LooksUpFirst, OriginsFollow, UsageKept, Dispatching, Inside
<1>8. SGen' = SGen /\ SDec' = SDec
  BY <1>1 DEF SGen, SDec
<1>9. PICK records : records = Material \o record
  OBVIOUS
<1>10. records \in Seq(Record) /\ Ask("Loop", records, j)
  BY <1>2, <1>3, <1>4, <1>5, <1>9
<1>11. JLooked' = record
  BY <1>3, <1>6, <1>10, AskedJob DEF Modes
<1>12. MaterialInOrder'
  <2>1. InOrder(Material) /\ UpTo(Material, lookups) /\ AllReached(carried)
    BY DEF AgentInv, MaterialInOrder
  <2>2. InOrder(records) /\ UpTo(records, lookups + 1)
    BY <1>3, <1>4, <1>9, <2>1, JoinedInOrder
  <2>3. UpTo(Material, lookups + 1)
    BY <1>3, <2>1, UpToGrows
  <2>4. Material' = Material /\ (Material \o JLooked)' = records
    BY <1>1, <1>9, <1>11 DEF Material
  <2>. QED  BY <1>1, <2>1, <2>2, <2>3, <2>4 DEF MaterialInOrder, InOrder, UpTo, AllReached
<1>13. FailuresBounded'
  BY <1>1 DEF AgentInv, FailuresBounded, ConsecutiveFailedSteps
<1>14. Grounded(Shown(records), fetched, j.lookup, stale)
  <2>1. records # <<>>
    <3>1. Len(records) = Len(Material) + Len(record) /\ Len(Material) \in Nat
      <4>1. PICK m : m = Material
        OBVIOUS
      <4>2. m \in Seq(Record)
        BY <1>3, <4>1
      <4>3. Len(m \o record) = Len(m) + Len(record) /\ Len(m) \in Nat
        BY <1>4, <4>2, Joined, RecordFacts
      <4>. QED  BY <1>9, <4>1, <4>3
    <3>2. Len(records) # 0
      BY <1>4, <3>1
    <3>. QED  BY <3>2
  <2>2. Shown(records) # <<>>
    BY <1>10, <2>1, ShownIsTheEnd
  <2>. QED  BY <1>4, <1>6, <2>2 DEF Grounded
<1>15. lookups' \in 0..MaxLookups /\ lookups <= lookups'
  BY <1>1, <1>3, AgentAssumption
<1>16. /\ j.usage.gen = SGen' /\ spent' \in Usage
       /\ j.usage.dec = SDec' \/ (j.usage.dec + 1 = SDec' /\ j.origin = "pointed")
  BY <1>1, <1>3, <1>6, <1>7, <1>8
<1>17. j.lookup # <<>> => /\ fetched = <<>> /\ Len(j.lookup) = 1
                          /\ j.origin \in {"picked", "verbatim", "pointed"}
  BY <1>4, <1>6, <1>7
<1>18. records = Material \o j.lookup
  BY <1>6, <1>9
<1>. QED  BY <1>1, <1>6, <1>10, <1>12, <1>13, <1>14, <1>15, <1>16, <1>17, <1>18, AskKeeps

\* From the model's answer to the commit the view stays what it was.
LEMMA AskingGoesOn ==
  ASSUME AgentInv, pc \in Asking, World, JobGoesOn, out' \in Output, spent' \in Usage,
         pc' \in Asking \cup {"commit"}, JOrigin' = JOrigin, JGen' = SGen',
         SDec' # JDec' => SDec # JDec /\ SDec' = JDec' + 1,
         pc' \in {"check", "again", "recheck"} => OBy' = "model",
         OBy' = "model" => OView' = JView,
         PlainRepliesJudged'
  PROVE  AgentInv'
<1>1. pc \in Inside
  BY DEF Asking, Inside
<1>2. TypeOK'
  BY DEF AgentInv, TypeOK, Job, Points, World, JobGoesOn, Asking
<1>3. StartsClean' /\ OriginsFollow' /\ LooksUpFirst' /\ UsageKept'
  <2>1. StartsClean' /\ LooksUpFirst' /\ OriginsFollow'
    BY <1>1 DEF AgentInv, StartsClean, OriginsFollow, LooksUpFirst, Dispatching, Asking,
       JobGoesOn, World
  <2>2. UsageKept'
    BY <1>1 DEF AgentInv, UsageKept, Asking
  <2>. QED  BY <2>1, <2>2
<1>4. MaterialInOrder' /\ FailuresBounded'
  <2>1. JLooked' = JLooked
    BY DEF JobGoesOn
  <2>. QED  BY <1>1, <2>1, SameMaterial DEF World
<1>5. ViewsFollow' /\ RepliesHaveViews'
  <2>1. /\ JMode' = JMode /\ JView' = JView /\ JLooked' = JLooked /\ JAsked' = JAsked
        /\ Material' = Material /\ graph' = graph /\ fetched' = fetched
    BY DEF JobGoesOn, Material, World
  <2>2. Shown(Material \o JLooked)' = Shown(Material \o JLooked)
    BY <2>1 DEF Shown, LatestStep
  <2>3. /\ JMode = "Loop" => JView = Shown(Material \o JLooked)
        /\ graph = "agent" => Grounded(JView, fetched, JLooked, JAsked)
    BY DEF AgentInv, ViewsFollow
  <2>4. ViewsFollow'
    BY <2>1, <2>2, <2>3 DEF ViewsFollow
  <2>5. RepliesHaveViews'
    BY <2>1, <2>3 DEF RepliesHaveViews, Asking
  <2>. QED  BY <2>4, <2>5
<1>. QED  BY <1>2, <1>3, <1>4, <1>5 DEF AgentInv

\* The model answers from the view it was given.
LEMMA CompletedKeeps ==
  ASSUME AgentInv, Completed
  PROVE  AgentInv'
<1>1. /\ pc \in {"answer", "again"} /\ spent' = Generated(spent) /\ World
      /\ job' = [job EXCEPT !.usage = Generated(job.usage)]
      /\ pc' = IF pc = "answer" THEN "check" ELSE "recheck"
  BY DEF Completed, World, conversation
<1>2. PICK w \in Written : out' = ByModel(w, job.view)
  BY DEF Completed
<1>3. job \in Job /\ JView \in Seq(Record) /\ JGen = SGen /\ pc \in Asking
  BY <1>1, FieldTypes DEF AgentInv, UsageKept, Inside, Asking
<1>4. PICK u : u = Generated(job.usage)
  OBVIOUS
<1>5. /\ u \in Usage /\ spent' \in Usage /\ u.gen = JGen + 1 /\ u.dec = JDec
      /\ SGen' = SGen + 1 /\ SDec' = SDec
  BY <1>1, <1>4, AnswerCharged
<1>6. /\ job' = [job EXCEPT !.usage = u, !.origin = job.origin, !.attempt = job.attempt]
      /\ job.attempt \in 1..Attempts /\ job.origin \in Origins
  BY <1>1, <1>3, <1>4, SameUpdate
<1>7. JobGoesOn /\ JGen' = u.gen /\ JDec' = u.dec /\ JOrigin' = JOrigin
  BY <1>3, <1>5, <1>6, ChargedJob DEF JOrigin
<1>8. PICK v : v = job.view
  OBVIOUS
<1>9. out' = ByModel(w, v) /\ v \in Seq(Record) /\ v = JView
  BY <1>2, <1>3, <1>8 DEF JView
<1>10. /\ out' \in Output /\ OBy' = "model" /\ OView' = JView /\ OBeside' = OShape'
  BY <1>9, OutputTypes, OutputFields
<1>11. PlainRepliesJudged'
  BY <1>1, <1>10 DEF PlainRepliesJudged
<1>12. UsageKept
  BY DEF AgentInv
<1>13. SDec' # JDec' => SDec # JDec /\ SDec' = JDec' + 1
  BY <1>3, <1>5, <1>7, <1>12 DEF UsageKept, Inside, Asking
<1>14. pc' \in Asking
  BY <1>1 DEF Asking
<1>. QED  BY <1>1, <1>3, <1>5, <1>7, <1>10, <1>11, <1>13, <1>14, AskingGoesOn

\* A refusal replaces the reply.
LEMMA RefusalKeeps ==
  ASSUME AgentInv, pc \in Asking, World, job' = job, spent' = spent, pc' = "commit",
         out' \in Output, OBy' = "engine"
  PROVE  AgentInv'
<1>1. job \in Job /\ spent \in Usage
  BY FieldTypes DEF AgentInv, TypeOK
<1>2. JobKept
  BY <1>1, KeptJob
<1>3. SGen' = SGen /\ SDec' = SDec
  BY DEF SGen, SDec
<1>4. pc \in Inside
  BY DEF Asking, Inside
<1>. QED  BY <1>1, <1>2, <1>3, <1>4, EngineReplies DEF AgentInv, UsageKept, JobKept

\* A reply with a call beside it, or no text, is not a plain reply.
LEMMA CheckNotNeededKeeps ==
  ASSUME AgentInv, CheckNotNeeded
  PROVE  AgentInv'
<1>1. /\ pc \in {"check", "recheck"} /\ ~NeedsCheck(out) /\ pc' = "commit" /\ World
      /\ job' = job /\ out' = out /\ spent' = spent
  BY DEF CheckNotNeeded, World, conversation
<1>2. /\ job \in Job /\ out \in Output /\ spent \in Usage /\ pc \in Asking /\ pc \in Inside
      /\ OView = JView /\ OBeside = OShape
  BY <1>1, FieldTypes DEF AgentInv, TypeOK, RepliesHaveViews, PlainRepliesJudged, Asking, Inside
<1>3. JobKept /\ OutKept /\ SGen' = SGen /\ SDec' = SDec
  BY <1>1, <1>2, KeptJob, KeptOut DEF SGen, SDec
<1>4. ~(OReply = "text" /\ OBeside = "null")
  BY <1>1, <1>2 DEF NeedsCheck, OReply, OShape
<1>5. PlainRepliesJudged'
  BY <1>1, <1>3, <1>4 DEF PlainRepliesJudged, OutKept
<1>6. JGen' = SGen' /\ (SDec' # JDec' => SDec # JDec /\ SDec' = JDec' + 1)
  BY <1>2, <1>3 DEF AgentInv, UsageKept, JobKept
<1>. QED  BY <1>1, <1>2, <1>3, <1>5, <1>6, AskingGoesOn DEF JobKept, OutKept

\* What the check leaves of an output.
LEMMA JudgedFields ==
  ASSUME out \in Output, job.view \in Seq(Record), NEW verdict \in Verdicts
  PROVE  /\ JudgedAs(verdict) \in Output /\ Refused(JudgedAs(verdict)) \in Output
         /\ out' = JudgedAs(verdict) => /\ OBy' = OBy /\ OView' = OView /\ OVerdict' = verdict
                                      /\ OJudged' = job.view
         /\ out' = Refused(JudgedAs(verdict)) => OBy' = "engine"
<1>1. PICK V, SH, RE, N : V = Seq(Record) /\ SH = Shapes /\ RE = Replies /\ N = 0..(MaxParallel + 1)
  OBVIOUS
<1>2. Output = [shape : SH, n : N, known : BOOLEAN, reply : RE, by : {"model", "engine"},
                beside : SH, view : V, verdict : Verdicts, judged : V]
  BY <1>1 DEF Output
<1>3. PICK v : v = job.view
  OBVIOUS
<1>4. v \in V
  BY <1>1, <1>3
<1>5. JudgedAs(verdict) = [out EXCEPT !.verdict = verdict, !.judged = v]
  BY <1>3 DEF JudgedAs
<1>6. JudgedAs(verdict) \in Output
  BY <1>2, <1>4, <1>5
<1>7. Refused(JudgedAs(verdict)) \in Output
  BY <1>6, OutputTypes
<1>8. ASSUME out' = JudgedAs(verdict)
      PROVE  OBy' = OBy /\ OView' = OView /\ OVerdict' = verdict /\ OJudged' = v
  <2>1. out' = [out EXCEPT !.verdict = verdict, !.judged = v]
    BY <1>5, <1>8
  <2>2. /\ out'.by = out.by /\ out'.view = out.view /\ out'.verdict = verdict /\ out'.judged = v
    BY <1>2, <2>1
  <2>. QED  BY <2>2 DEF OBy, OView, OVerdict, OJudged
<1>9. ASSUME out' = Refused(JudgedAs(verdict))
      PROVE  OBy' = "engine"
  BY <1>2, <1>6, <1>9 DEF Refused, OBy
<1>. QED  BY <1>3, <1>6, <1>7, <1>8, <1>9

\* A check that cannot run is a refusal.
LEMMA CouldNotRunKeeps ==
  ASSUME AgentInv, CouldNotRun
  PROVE  AgentInv'
<1>1. /\ pc \in {"check", "recheck"} /\ World /\ job' = job /\ spent' = spent
      /\ out' = Refused(JudgedAs("unheard")) /\ pc' = "commit"
  BY DEF CouldNotRun, World, conversation
<1>2. JView \in Seq(Record) /\ out \in Output
  BY FieldTypes DEF AgentInv, TypeOK
<1>3. out' \in Output /\ OBy' = "engine"
  BY <1>1, <1>2, JudgedFields DEF JView, Verdicts
<1>. QED  BY <1>1, <1>3, RefusalKeeps DEF Asking

\* A second answer that does not come is a refusal of the first.
LEMMA AskedAgainFailsKeeps ==
  ASSUME AgentInv, AskedAgainFails
  PROVE  AgentInv'
<1>1. /\ pc = "again" /\ World /\ job' = job /\ spent' = spent
      /\ out' = Refused(out) /\ pc' = "commit"
  BY DEF AskedAgainFails, World, conversation
<1>2. out' \in Output /\ OBy' = "engine"
  BY <1>1, OutputTypes, OutputFields DEF AgentInv, TypeOK
<1>. QED  BY <1>1, <1>2, RefusalKeeps DEF Asking

\* Only a reply found sound is committed; a second fault is a refusal.
LEMMA CheckRanKeeps ==
  ASSUME AgentInv, CheckRan
  PROVE  AgentInv'
<1>1. /\ pc \in {"check", "recheck"} /\ spent' = Decided(spent) /\ World
      /\ job' = [job EXCEPT !.usage = Decided(job.usage), !.attempt = 1]
  BY DEF CheckRan, World, conversation
<1>2. PICK faults \in Faults :
        /\ pc' = IF ~Sound(faults) /\ pc = "check" THEN "again" ELSE "commit"
        /\ out' = IF ~Sound(faults) /\ pc = "recheck" THEN Refused(JudgedAs("fault"))
                  ELSE JudgedAs(Verdict(faults))
  BY DEF CheckRan
<1>3. PICK sound \in BOOLEAN, verdict \in Verdicts :
        sound = Sound(faults) /\ verdict = Verdict(faults) /\ (sound => verdict = "sound")
  BY DEF Sound, Faults, Verdict, Verdicts
<1>4. /\ pc' = IF ~sound /\ pc = "check" THEN "again" ELSE "commit"
      /\ out' = IF ~sound /\ pc = "recheck" THEN Refused(JudgedAs("fault")) ELSE JudgedAs(verdict)
  BY <1>2, <1>3
<1>5. /\ job \in Job /\ out \in Output /\ JView \in Seq(Record) /\ JGen = SGen /\ pc \in Asking
      /\ OView = JView /\ OBy = "model" /\ JDec \in Nat /\ SDec \in Nat
      /\ SDec # JDec => SDec = JDec + 1
  BY <1>1, FieldTypes DEF AgentInv, TypeOK, UsageKept, RepliesHaveViews, Inside, Asking
<1>6. PICK u : u = Decided(job.usage)
  OBVIOUS
<1>7. /\ u \in Usage /\ spent' \in Usage /\ u.gen = JGen /\ u.dec = JDec + 1
      /\ SGen' = SGen /\ SDec' = SDec + 1
  BY <1>1, <1>6, DecisionCharged
<1>8. /\ job' = [job EXCEPT !.usage = u, !.origin = job.origin, !.attempt = 1]
      /\ job.origin \in Origins /\ 1 \in 1..Attempts
  <2>1. PICK a : a = 1
    OBVIOUS
  <2>2. [job EXCEPT !.usage = u, !.attempt = a] =
          [job EXCEPT !.usage = u, !.origin = job.origin, !.attempt = a]
    BY <1>5, SameUpdate
  <2>3. 1 \in 1..Attempts
    BY AgentAssumption
  <2>. QED  BY <1>1, <1>5, <1>6, <2>1, <2>2, <2>3 DEF Job
<1>9. JobGoesOn /\ JGen' = u.gen /\ JDec' = u.dec /\ JOrigin' = JOrigin
  BY <1>5, <1>7, <1>8, ChargedJob DEF JOrigin
<1>10. CASE ~sound /\ pc = "recheck"
  <2>1. out' = Refused(JudgedAs("fault")) /\ pc' = "commit"
    BY <1>4, <1>10
  <2>2. out' \in Output /\ OBy' = "engine"
    BY <1>5, <2>1, JudgedFields DEF JView, Verdicts
  <2>3. PlainRepliesJudged'
    BY <2>1, <2>2 DEF PlainRepliesJudged
  <2>. QED  BY <1>1, <1>5, <1>7, <1>9, <2>1, <2>2, <2>3, AskingGoesOn
<1>11. CASE ~(~sound /\ pc = "recheck")
  <2>1. out' = JudgedAs(verdict)
    BY <1>4, <1>11
  <2>2. out' \in Output /\ OBy' = "model" /\ OView' = JView /\ OVerdict' = verdict /\ OJudged' = JView
    BY <1>5, <2>1, JudgedFields DEF JView
  <2>3. (sound /\ pc' = "commit") \/ pc' = "again"
    BY <1>1, <1>4, <1>11
  <2>4. PlainRepliesJudged'
    BY <1>3, <2>2, <2>3 DEF PlainRepliesJudged
  <2>5. pc' \in Asking \cup {"commit"}
    BY <2>3 DEF Asking
  <2>. QED  BY <1>1, <1>5, <1>7, <1>9, <2>2, <2>4, <2>5, AskingGoesOn
<1>. QED  BY <1>10, <1>11

\* The run of failed steps of the empty list, and of one step alone.
LEMMA FirstSteps ==
  /\ ConsecutiveFailedSteps(<<>>) = 0
  /\ \A t \in Seq(Record) : Len(t) = 1 => ConsecutiveFailedSteps(t) <= 1
<1>1. <<>> \in Seq(Record)
  OBVIOUS
<1>2. FailedSteps(<<>>) = {}
  BY DEF FailedSteps, ToSet
<1>3. ConsecutiveFailedSteps(<<>>) = 0
  BY <1>1, <1>2, FailedStepsFacts, FS_EmptySet
<1>4. ASSUME NEW t \in Seq(Record), Len(t) = 1
      PROVE  ConsecutiveFailedSteps(t) <= 1
  <2>1. PICK n \in Nat : t[1].at = n + 1
    <3>1. t[1].at \in Nat /\ t[1].at \in 1..MaxLookups
      BY <1>4, RecordFacts
    <3>2. t[1].at - 1 \in Nat /\ t[1].at = (t[1].at - 1) + 1
      BY <3>1, AgentAssumption
    <3>. QED  BY <3>2
  <2>2. \A i \in 1..Len(t) : t[i].at = n + 1
    BY <1>4, <2>1
  <2>3. UpTo(<<>>, n)
    BY DEF UpTo
  <2>4. ConsecutiveFailedSteps(<<>> \o t) <= ConsecutiveFailedSteps(<<>>) + 1
    BY <1>1, <2>2, <2>3, OneMoreStep
  <2>5. <<>> \o t = t
    BY JoinedWithNothing
  <2>. QED  BY <1>3, <2>4, <2>5
<1>. QED  BY <1>3, <1>4

\* The node's output is applied: the lookup joins what was fetched, and the reply is sent,
\* dropped or goes on to the tools.
LEMMA LlmStepKeeps ==
  ASSUME AgentInv, LlmStep
  PROVE  AgentInv'
<1>1. /\ pc = "commit" /\ out' \in {WithoutToolCall(out), out} /\ fetched' = fetched \o JLooked
      /\ pc' \in {"failed", "tool", "ended"}
      /\ graph' = graph /\ turn' = turn /\ carried' = carried /\ lookups' = lookups
      /\ stale' = stale /\ job' = job /\ spent' = spent /\ lost' = lost
  BY DEF LlmStep, WithRecords, JLooked
<1>2. /\ TypeOK /\ job \in Job /\ out \in Output /\ carried \in Seq(Record) /\ fetched \in Seq(Record)
      /\ JLooked \in Seq(Record) /\ Material \in Seq(Record)
  BY FieldTypes, MaterialTypes DEF AgentInv, TypeOK
<1>3. JobKept
  BY <1>1, <1>2, KeptJob
<1>4. /\ out' \in Output /\ OBy' = OBy /\ OReply' = OReply /\ OBeside' = OBeside
      /\ OView' = OView /\ OVerdict' = OVerdict /\ OJudged' = OJudged
  <2>1. CASE out' = WithoutToolCall(out)
    BY <1>2, <2>1, OutputTypes, OutputFields
  <2>2. CASE out' = out
    BY <1>2, <2>2, KeptOut DEF OutKept
  <2>. QED  BY <1>1, <2>1, <2>2
<1>5. fetched' \in Seq(Record)
  BY <1>1, <1>2, Joined
<1>6. TypeOK'
  BY <1>1, <1>2, <1>3, <1>4, <1>5 DEF TypeOK, Job, Points
<1>7. StartsClean' /\ OriginsFollow' /\ LooksUpFirst' /\ UsageKept'
  BY <1>1, <1>3 DEF AgentInv, StartsClean, OriginsFollow, LooksUpFirst, UsageKept, JobKept,
     JobGoesOn, Inside, Dispatching
<1>8. MaterialInOrder'
  <2>1. InOrder(Material \o JLooked) /\ UpTo(Material \o JLooked, lookups) /\ AllReached(carried)
    BY <1>1 DEF AgentInv, MaterialInOrder, Inside
  <2>2. Material' = Material \o JLooked
    <3>1. Material' = carried \o (fetched \o JLooked)
      BY <1>1 DEF Material
    <3>2. PICK c, f, l : c = carried /\ f = fetched /\ l = JLooked
      OBVIOUS
    <3>3. c \o (f \o l) = (c \o f) \o l
      BY <1>2, <3>2, ConcatAssociative
    <3>. QED  BY <3>1, <3>2, <3>3 DEF Material
  <2>3. pc' \notin Inside
    BY <1>1 DEF Inside
  <2>. QED  BY <1>1, <2>1, <2>2, <2>3 DEF MaterialInOrder, InOrder, UpTo, AllReached
<1>9. FailuresBounded'
  <2>1. FailuresBounded' <=> ConsecutiveFailedSteps(fetched \o JLooked) < MaxErrors
    BY <1>1 DEF FailuresBounded, ConsecutiveFailedSteps
  <2>2. CASE JLooked = <<>>
    <3>1. fetched \o JLooked = fetched
      BY <1>2, <2>2, JoinedWithNothing
    <3>. QED  BY <2>1, <3>1 DEF AgentInv, FailuresBounded
  <2>3. CASE JLooked # <<>>
    <3>1. fetched = <<>> /\ Len(JLooked) = 1
      BY <1>1, <2>3 DEF AgentInv, LooksUpFirst, Inside
    <3>2. fetched \o JLooked = JLooked
      BY <1>2, <3>1, JoinedWithNothing
    <3>3. ConsecutiveFailedSteps(JLooked) <= 1
      BY <1>2, <3>1, FirstSteps
    <3>4. ConsecutiveFailedSteps(JLooked) \in Nat
      BY <1>2, FailedStepsFacts, FS_CardinalityType
    <3>. QED  BY <2>1, <3>2, <3>3, <3>4, AgentAssumption
  <2>. QED  BY <2>2, <2>3
<1>10. ViewsFollow' /\ PlainRepliesJudged'
  BY <1>1, <1>4 DEF AgentInv, ViewsFollow, PlainRepliesJudged, Asking
<1>11. RepliesHaveViews'
  <2>1. SUFFICES ASSUME pc' = "ended", OBy' = "model", graph' = "agent"
        PROVE  Grounded(OView', fetched', <<>>, JAsked')
    BY <1>1 DEF RepliesHaveViews
  <2>2. OView = JView /\ Grounded(JView, fetched, JLooked, JAsked)
    BY <1>1, <1>4, <2>1 DEF AgentInv, RepliesHaveViews
  <2>3. fetched' = <<>> => fetched = <<>> /\ JLooked = <<>>
    <3>1. PICK f, l : f = fetched /\ l = JLooked
      OBVIOUS
    <3>2. Len(f \o l) = Len(f) + Len(l) /\ Len(f) \in Nat /\ Len(l) \in Nat
      BY <1>2, <3>1, Joined, RecordFacts
    <3>3. f \o l = <<>> => Len(f) = 0 /\ Len(l) = 0
      BY <3>2
    <3>4. f \o l = <<>> => f = <<>> /\ l = <<>>
      BY <1>2, <3>1, <3>3, EmptySeq
    <3>. QED  BY <1>1, <3>1, <3>4
  <2>4. OView' = JView /\ JAsked' = JAsked
    BY <1>3, <1>4, <2>2 DEF JobKept, JobGoesOn
  <2>. QED  BY <2>2, <2>3, <2>4 DEF Grounded
<1>. QED  BY <1>6, <1>7, <1>8, <1>9, <1>10, <1>11 DEF AgentInv

\* The tools answer, or fail once too often.
LEMMA ToolStepKeeps ==
  ASSUME AgentInv, ToolStep
  PROVE  AgentInv'
<1>1. /\ lookups < MaxLookups /\ lookups' = lookups + 1 /\ pc' \in {"failed", "llm"}
      /\ job' = NewJob /\ spent' = Nothing /\ graph' = graph /\ turn' = turn
      /\ carried' = carried /\ stale' = stale /\ out' = out /\ lost' = lost
  BY DEF ToolStep
<1>2. PICK records \in StepRecords(out.n) :
        fetched' = IF TooLong(records) THEN fetched ELSE WithRecords(records)
  BY DEF ToolStep
<1>3. /\ TypeOK /\ out \in Output /\ carried \in Seq(Record) /\ fetched \in Seq(Record)
      /\ Material \in Seq(Record) /\ lookups \in Nat /\ lookups \in 0..MaxLookups /\ stale \in 0..lookups
  BY AgentAssumption, MaterialTypes DEF AgentInv, TypeOK
<1>4. out.n \in Nat
  BY <1>3, AgentAssumption DEF Output
<1>5. records \in Seq(Record) /\ \A i \in 1..Len(records) : records[i].at = lookups + 1
  BY <1>1, <1>3, <1>4, StepRecordsFacts
<1>6. InOrder(Material) /\ UpTo(Material, lookups) /\ AllReached(carried)
  BY DEF AgentInv, MaterialInOrder
<1>7. fetched' = fetched \/ fetched' = fetched \o records
  BY <1>2 DEF WithRecords
<1>8. fetched' \in Seq(Record)
  <2>1. fetched \o records \in Seq(Record)
    BY <1>3, <1>5, Joined
  <2>. QED  BY <1>3, <1>7, <2>1
<1>9. TypeOK'
  <2>1. NewJob \in Job /\ Nothing \in Usage
    BY NewTypes
  <2>2. lookups' \in 0..MaxLookups /\ stale' \in 0..lookups'
    BY <1>1, <1>3, AgentAssumption
  <2>. QED  BY <1>1, <1>3, <1>8, <2>1, <2>2 DEF TypeOK, Job, Points
<1>10. MaterialInOrder'
  <2>1. InOrder(Material') /\ UpTo(Material', lookups + 1) /\ Material' \in Seq(Record)
    <3>1. CASE fetched' = fetched
      <4>1. Material' = Material
        BY <1>1, <3>1 DEF Material
      <4>. QED  BY <1>3, <1>6, <4>1, UpToGrows
    <3>2. CASE fetched' = fetched \o records
      <4>1. Material' = Material \o records
        <5>1. PICK c, f : c = carried /\ f = fetched
          OBVIOUS
        <5>2. c \o (f \o records) = (c \o f) \o records
          BY <1>3, <1>5, <5>1, ConcatAssociative
        <5>. QED  BY <1>1, <3>2, <5>1, <5>2 DEF Material
      <4>2. InOrder(Material \o records) /\ UpTo(Material \o records, lookups + 1)
        BY <1>3, <1>5, <1>6, JoinedInOrder
      <4>3. Material \o records \in Seq(Record)
        BY <1>3, <1>5, Joined
      <4>. QED  BY <4>1, <4>2, <4>3
    <3>. QED  BY <1>7, <3>1, <3>2
  <2>2. JLooked' = <<>>
    BY <1>1, NewFields
  <2>3. (Material \o JLooked)' = Material'
    BY <2>1, <2>2, JoinedWithNothing
  <2>. QED  BY <1>1, <1>6, <2>1, <2>3 DEF MaterialInOrder, InOrder, UpTo, AllReached
<1>11. FailuresBounded'
  <2>1. FailuresBounded' <=> ConsecutiveFailedSteps(fetched') < MaxErrors
    BY DEF FailuresBounded, ConsecutiveFailedSteps
  <2>2. ConsecutiveFailedSteps(fetched) < MaxErrors
    BY DEF AgentInv, FailuresBounded
  <2>3. CASE TooLong(records)
    BY <1>2, <2>1, <2>2, <2>3
  <2>4. CASE ~TooLong(records)
    <3>1. fetched' = fetched \o records
      BY <1>2, <2>4 DEF WithRecords
    <3>2. UpTo(fetched, lookups)
      <4>1. PICK c, f : c = carried /\ f = fetched
        OBVIOUS
      <4>2. /\ Len(c \o f) = Len(c) + Len(f) /\ Len(c) \in Nat /\ Len(f) \in Nat
            /\ \A i \in 1..Len(f) : (c \o f)[Len(c) + i] = f[i]
        BY <1>3, <4>1, Joined, RecordFacts
      <4>3. \A i \in 1..Len(f) : Len(c) + i \in 1..Len(c \o f)
        BY <4>2
      <4>4. UpTo(c \o f, lookups)
        BY <1>6, <4>1 DEF Material
      <4>5. UpTo(f, lookups)
        BY <4>2, <4>3, <4>4 DEF UpTo
      <4>. QED  BY <4>1, <4>5
    <3>3. /\ (\E i \in 1..Len(records) : records[i].ok) => ConsecutiveFailedSteps(fetched \o records) = 0
          /\ ConsecutiveFailedSteps(fetched \o records) <= ConsecutiveFailedSteps(fetched) + 1
          /\ ConsecutiveFailedSteps(fetched) \in Nat
          /\ ConsecutiveFailedSteps(fetched \o records) \in Nat
      BY <1>3, <1>5, <3>2, OneMoreStep
    <3>4. (\E i \in 1..Len(records) : records[i].ok)
          \/ ~(ConsecutiveFailedSteps(fetched) + 1 >= MaxErrors)
      <4>1. DOMAIN records = 1..Len(records)
        BY <1>5, RecordFacts
      <4>. QED  BY <2>4, <4>1 DEF TooLong, ToSet
    <3>. QED  BY <2>1, <3>1, <3>3, <3>4, AgentAssumption
  <2>. QED  BY <2>3, <2>4
<1>. QED  BY <1>1, <1>9, <1>10, <1>11, BeginsKeeps

\* The retrieve node looks something up and leaves it to nobody.
LEMMA RetrieveStepKeeps ==
  ASSUME AgentInv, RetrieveStep
  PROVE  AgentInv'
<1>1. /\ pc = "retrieve" /\ lookups < MaxLookups /\ lookups' = lookups + 1 /\ pc' \in {"failed", "llm"}
      /\ graph' = graph /\ turn' = turn /\ carried' = carried /\ fetched' = fetched
      /\ stale' = stale /\ job' = job /\ out' = out /\ spent' = spent /\ lost' = lost
  BY DEF RetrieveStep, conversation
<1>2. /\ TypeOK /\ job \in Job /\ Material \in Seq(Record) /\ lookups \in Nat
      /\ lookups \in 0..MaxLookups /\ stale \in 0..lookups
  BY AgentAssumption, FieldTypes, MaterialTypes DEF AgentInv, TypeOK
<1>3. JobKept /\ SGen' = SGen /\ SDec' = SDec
  BY <1>1, <1>2, KeptJob DEF SGen, SDec
<1>4. TypeOK'
  <2>1. lookups' \in 0..MaxLookups /\ stale' \in 0..lookups'
    BY <1>1, <1>2, AgentAssumption
  <2>. QED  BY <1>1, <1>2, <2>1 DEF TypeOK, Points
<1>5. /\ JLooked = <<>> /\ JMode = "Loop" /\ JOrigin = "none" /\ JGen = 0 /\ JDec = 0
      /\ SGen = 0 /\ SDec = 0
  BY <1>1 DEF AgentInv, StartsClean, LooksUpFirst
<1>6. StartsClean' /\ OriginsFollow' /\ LooksUpFirst' /\ UsageKept'
  BY <1>1, <1>3, <1>5 DEF StartsClean, OriginsFollow, LooksUpFirst, UsageKept, Dispatching,
     JobKept, JobGoesOn
<1>7. MaterialInOrder'
  <2>1. InOrder(Material) /\ UpTo(Material, lookups) /\ AllReached(carried)
    BY DEF AgentInv, MaterialInOrder
  <2>2. UpTo(Material, lookups + 1)
    BY <1>2, <2>1, UpToGrows
  <2>3. Material' = Material /\ JLooked' = <<>>
    BY <1>1, <1>3, <1>5 DEF Material, JobKept, JobGoesOn
  <2>4. (Material \o JLooked)' = Material
    BY <1>2, <2>3, JoinedWithNothing
  <2>. QED  BY <1>1, <2>1, <2>2, <2>3, <2>4 DEF MaterialInOrder, InOrder, UpTo, AllReached
<1>8. FailuresBounded'
  BY <1>1 DEF AgentInv, FailuresBounded, ConsecutiveFailedSteps
<1>9. ViewsFollow' /\ RepliesHaveViews' /\ PlainRepliesJudged'
  BY <1>1 DEF ViewsFollow, RepliesHaveViews, PlainRepliesJudged, Asking
<1>. QED  BY <1>4, <1>6, <1>7, <1>8, <1>9 DEF AgentInv

\* The first turn has nothing.
LEMMA InitEstablishes ==
  ASSUME Init
  PROVE  AgentInv
<1>1. /\ graph \in Graphs /\ turn = 1 /\ carried = <<>> /\ fetched = <<>> /\ lookups = 0 /\ stale = 0
      /\ pc = Entry(graph) /\ job = NewJob /\ out = ByEngine /\ spent = Nothing /\ lost = 0
  BY DEF Init
<1>2. pc \in {"retrieve", "llm"}
  BY <1>1 DEF Entry
<1>3. TypeOK
  <2>1. NewJob \in Job /\ ByEngine \in Output /\ Nothing \in Usage
    BY NewTypes
  <2>2. <<>> \in Seq(Record) /\ 0 \in 0..MaxLookups /\ 0 \in 0..0 /\ 0 \in 0..MaxLost
    BY AgentAssumption
  <2>. QED  BY <1>1, <1>2, <2>1, <2>2 DEF TypeOK, Job, Points
<1>4. /\ JMode = "Loop" /\ JLooked = <<>> /\ JOrigin = "none" /\ JGen = 0 /\ JDec = 0
      /\ SGen = 0 /\ SDec = 0
  BY <1>1 DEF NewJob, Nothing, JMode, JLooked, JOrigin, JGen, JDec, SGen, SDec
<1>5. StartsClean /\ OriginsFollow /\ LooksUpFirst /\ UsageKept
  BY <1>2, <1>4 DEF StartsClean, OriginsFollow, LooksUpFirst, UsageKept, Dispatching
<1>6. MaterialInOrder
  <2>1. Material = <<>> /\ Material \o JLooked = <<>>
    BY <1>1, <1>4 DEF Material
  <2>. QED  BY <1>1, <2>1 DEF MaterialInOrder, InOrder, UpTo, AllReached
<1>7. FailuresBounded
  BY <1>1, FirstSteps, AgentAssumption DEF FailuresBounded
<1>8. ViewsFollow /\ RepliesHaveViews /\ PlainRepliesJudged
  BY <1>2 DEF ViewsFollow, RepliesHaveViews, PlainRepliesJudged, Asking
<1>. QED  BY <1>3, <1>5, <1>6, <1>7, <1>8 DEF AgentInv

\* Every step of a turn keeps the invariant.
LEMMA StepKeeps ==
  ASSUME AgentInv, [Next]_vars
  PROVE  AgentInv'
<1>1. CASE UNCHANGED vars
  <2>1. World /\ out' = out /\ spent' = spent /\ pc' = pc /\ job' = job
    BY <1>1 DEF vars, World
  <2>2. JobKept
    BY <2>1, FieldTypes, KeptJob DEF AgentInv
  <2>. QED  BY <2>1, <2>2, SameFieldsKeep
<1>2. CASE StartContinuing \/ TimePasses \/ TickLost
  BY <1>2, StartContinuingKeeps, TimePassesKeeps, TickLostKeeps
<1>3. CASE CatalogUnavailable \/ CompleteFails \/ ToolFails
  BY <1>3, FailsKeeps DEF CatalogUnavailable, CompleteFails, ToolFails
<1>4. CASE ExecuteLoop
  BY <1>4, ExecuteLoopKeeps
<1>5. CASE Decide
  BY <1>5, ScopeUnansweredKeeps, ScopeNoneKeeps, AnswerFromMaterialKeeps, ScopeToolKeeps DEF Decide
<1>6. CASE Compose
  BY <1>6, ComposedNoCallKeeps, ComposeToolCallKeeps, PointUncheckedKeeps, PointDecidedKeeps,
     FastLookupKeeps DEF Compose
<1>7. CASE CompleteErrs \/ Completed \/ AskedAgainFails
  BY <1>7, RetryKeeps, CompletedKeeps, AskedAgainFailsKeeps DEF CompleteErrs
<1>8. CASE Check
  BY <1>8, CheckNotNeededKeeps, CouldNotRunKeeps, CheckRanKeeps DEF Check
<1>9. CASE LlmStep \/ ToolStep \/ RetrieveStep
  BY <1>9, LlmStepKeeps, ToolStepKeeps, RetrieveStepKeeps
<1>. QED  BY <1>1, <1>2, <1>3, <1>4, <1>5, <1>6, <1>7, <1>8, <1>9 DEF Next, Complete, Run

\* The invariant of a turn holds always.
THEOREM AgentInvariant == Spec => []AgentInv
<1>1. Init => AgentInv
  BY InitEstablishes
<1>2. AgentInv /\ [Next]_vars => AgentInv'
  BY StepKeeps
<1>. QED  BY <1>1, <1>2, PTL DEF Spec

-----------------------------------------------------------------------------
(* The properties of the run *)

\* No reply of the model reaches the person of an agent turn without a source: a lookup of
\* the turn, or carried material that was fresh and free of errors when the model was asked.
THEOREM SourcesAreHad == Spec => []AnswersHaveASource
<1>1. ASSUME AgentInv
      PROVE  AnswersHaveASource
  <2>1. job \in Job /\ out \in Output
    BY <1>1, FieldTypes DEF AgentInv, TypeOK
  <2>2. ASSUME ReachesThePerson, graph = "agent"
        PROVE  /\ out.view # <<>>
               /\ fetched = <<>> => \A r \in ToSet(out.view) : r.ok /\ r.at > job.asked
    <3>1. Grounded(out.view, fetched, <<>>, job.asked)
      BY <1>1, <2>2 DEF AgentInv, RepliesHaveViews, ReachesThePerson, OBy, OView, JAsked
    <3>2. DOMAIN out.view = 1..Len(out.view)
      <4>1. out.view \in Seq(Record)
        BY <2>1 DEF Output
      <4>. QED  BY <4>1
    <3>. QED  BY <3>1, <3>2 DEF Grounded, ToSet
  <2>3. pc = "lookup" \/ job.lookup # <<>> => job.origin \in {"picked", "verbatim", "pointed"}
    BY <1>1 DEF AgentInv, OriginsFollow, JLooked, JOrigin
  <2>4. ConsecutiveFailedSteps(fetched) < MaxErrors
    BY <1>1 DEF AgentInv, FailuresBounded
  <2>. QED  BY <2>2, <2>3, <2>4 DEF AnswersHaveASource
<1>. QED  BY <1>1, AgentInvariant, PTL

\* A plain reply of the model reaches the person only after it was put to the decider beside
\* the view it was written from, and never with a fault found in it (checked_against).
THEOREM PlainRepliesAreChecked == Spec => []PlainRepliesHoldUp
<1>1. AgentInv => PlainRepliesHoldUp
  BY DEF AgentInv, PlainRepliesJudged, PlainRepliesHoldUp, ReachesThePerson, OBy, OBeside,
     OReply, OVerdict, OJudged, OView
<1>. QED  BY <1>1, AgentInvariant, PTL

\* The model within the loop is shown the end of the material with the whole latest step.
THEOREM LatestStepIsShown == Spec => []LatestStepSeen
<1>1. ASSUME AgentInv
      PROVE  LatestStepSeen
  <2>1. SUFFICES ASSUME pc \in Asking, JMode = "Loop", NEW all, all = Material \o JLooked
        PROVE  /\ JView = SubSeq(all, Len(all) - Len(JView) + 1, Len(all))
               /\ \A i \in DOMAIN all :
                    all[i].at = all[Len(all)].at => i >= Len(all) - Len(JView) + 1
    BY Zenon DEF LatestStepSeen, Asking, JMode, JLooked, JView
  <2>2. Material \in Seq(Record) /\ JLooked \in Seq(Record)
    BY <1>1, FieldTypes, MaterialTypes DEF AgentInv, TypeOK
  <2>3. all \in Seq(Record)
    BY <2>1, <2>2, Joined
  <2>4. InOrder(all)
    BY <1>1, <2>1 DEF AgentInv, MaterialInOrder, Asking, Inside
  <2>5. JView = Shown(all)
    BY <1>1, <2>1 DEF AgentInv, ViewsFollow
  <2>6. PICK first \in 1..(Len(all) + 1) :
          /\ Shown(all) = SubSeq(all, first, Len(all)) /\ Len(Shown(all)) = Len(all) - first + 1
          /\ \A i \in LatestStep(all) : first <= i
    BY <2>3, ShownIsTheEnd
  <2>7. Len(all) \in Nat /\ DOMAIN all = 1..Len(all) /\ \A i \in 1..Len(all) : all[i].at \in Nat
    BY <2>3, RecordFacts
  <2>8. first = Len(all) - Len(JView) + 1
    BY <2>5, <2>6, <2>7
  <2>9. ASSUME NEW i \in DOMAIN all, all[i].at = all[Len(all)].at
        PROVE  first <= i
    <3>1. \A j \in i..Len(all) : all[j].at = all[Len(all)].at
      <4>1. SUFFICES ASSUME NEW j \in i..Len(all)
            PROVE  all[j].at = all[Len(all)].at
        OBVIOUS
      <4>2. i \in 1..Len(all) /\ j \in 1..Len(all) /\ Len(all) \in 1..Len(all) /\ i <= j /\ j <= Len(all)
        BY <2>7, <2>9
      <4>3. all[i].at <= all[j].at /\ all[j].at <= all[Len(all)].at
        BY <2>4, <4>2 DEF InOrder
      <4>4. all[i].at \in Nat /\ all[j].at \in Nat /\ all[Len(all)].at \in Nat
        BY <2>7, <4>2
      <4>. QED  BY <2>9, <4>3, <4>4
    <3>2. i \in LatestStep(all)
      BY <2>9, <3>1 DEF LatestStep
    <3>. QED  BY <2>6, <3>2
  <2>. QED  BY <2>5, <2>6, <2>7, <2>8, <2>9
<1>. QED  BY <1>1, AgentInvariant, PTL

\* A node that completes has been charged for every answer, and for every decision but the
\* one over a composed argument.
THEOREM SpendingIsAccounted == Spec => []UsageAccounted
<1>1. ASSUME AgentInv
      PROVE  UsageAccounted
  <2>1. SUFFICES ASSUME pc = "commit"
        PROVE  /\ JGen = SGen /\ SDec - JDec \in {0, 1}
               /\ SDec # JDec => JOrigin \in {"composed", "pointed"}
    BY DEF UsageAccounted, JGen, SGen, JDec, SDec, JOrigin
  <2>2. JDec \in Nat /\ SDec \in Nat
    BY <1>1, FieldTypes DEF AgentInv
  <2>. QED  BY <1>1, <2>1, <2>2 DEF AgentInv, UsageKept, Inside
<1>. QED  BY <1>1, AgentInvariant, PTL

=============================================================================
