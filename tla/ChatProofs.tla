----------------------------- MODULE ChatProofs -----------------------------
(***************************************************************************)
(* Proofs about the chat service's topics, for any numbers of topics,      *)
(* slots, calls and sessions, and about the routing of a message, for any  *)
(* numbers of topics and themes.                                           *)
(*                                                                         *)
(* TopicInv is the invariant of the tables: FocusNeverLost and             *)
(* SlotsAreUsed with what the watchers know of the topics they watch.      *)
(* TurnInv is the invariant of the send_turn calls: a turn that has landed *)
(* is either in the messages or in the hands of one call, which holds the  *)
(* turn's lock.                                                            *)
(*                                                                         *)
(* IntentInv is the invariant of routing: where a message may still go at  *)
(* each stage, and what a split holds before it is judged.                 *)
(*                                                                         *)
(* The columns of topics, sessions and calls are operators here, so that   *)
(* the proofs speak of each one by itself.                                 *)
(***************************************************************************)
EXTENDS ChatTopics, ChatIntent, FiniteSetTheorems, SequenceTheorems, WellFoundedInduction,
        SeqFilterProofs, TLAPS

Status(t)   == topics[t].status
Run(t)      == topics[t].run
Session     == session.id
Focus       == session.focus

Statuses    == {"none"} \cup Open \cup Ended
Runs        == {"none", "live"} \cup Ended
Watching    == {"none", "stream", "closed", "finish", "promote"}

TablesOK ==
  /\ topics \in [Ids -> Topic]
  /\ session \in [id : 0..MaxSessions, focus : Ids \cup {NoTopic}]
  /\ lastTopic \in 0..MaxTopics
  /\ watcher \in [Ids -> Watching]
  /\ opened \in Nat
  /\ faults \in Nat
  /\ restarts \in Nat

\* A topic in the table is one of the session, and was created.
TopicsOfSession == \A t \in Ids : Status(t) # "none" => Session # 0 /\ t <= lastTopic

\* The focus is on one of the session's topics.
FocusInTable == Focus # NoTopic => Status(Focus) # "none"

\* What the watchers know: only created topics are watched, a queued one is not, and
\* one that is being finished has ended.
WatchersKnow ==
  \A t \in Ids : /\ watcher[t] # "none" => t <= lastTopic
                 /\ Status(t) = "Queued" => watcher[t] = "none"
                 /\ watcher[t] = "finish" /\ Status(t) # "none" => Run(t) \in Ended

TopicInv ==
  /\ TablesOK
  /\ TopicsOfSession
  /\ FocusInTable
  /\ WatchersKnow
  /\ FocusNeverLost
  /\ SlotsAreUsed

-----------------------------------------------------------------------------
(* Facts about the operators *)

\* The topics running, and the promotions under way.
RunningSet   == {t \in Ids : Status(t) = "Running"}
PromotingSet == {t \in Ids : watcher[t] = "promote" /\ Status(t) # "none"}

\* Ids is finite, and so is each of its subsets.
LEMMA IdsFinite ==
  IsFiniteSet(Ids) /\ \A S \in SUBSET Ids : IsFiniteSet(S) /\ Cardinality(S) \in Nat
<1>1. IsFiniteSet(Ids)
  BY ChatAssumption, FS_Interval DEF Ids
<1>2. ASSUME NEW S \in SUBSET Ids
      PROVE  IsFiniteSet(S) /\ Cardinality(S) \in Nat
  <2>1. IsFiniteSet(S)
    BY <1>1, FS_Subset
  <2>. QED  BY <2>1, FS_CardinalityType
<1>. QED  BY <1>1, <1>2

\* A set that gains at most one member gains at most one in number.
LEMMA GainsOne ==
  ASSUME NEW S \in SUBSET Ids, NEW T \in SUBSET Ids, NEW x,
         T \subseteq S \cup {x}
  PROVE  Cardinality(T) <= Cardinality(S) + 1
<1>1. IsFiniteSet(S) /\ IsFiniteSet(T) /\ Cardinality(S) \in Nat /\ Cardinality(T) \in Nat
  BY IdsFinite
<1>2. IsFiniteSet(S \cup {x})
      /\ Cardinality(S \cup {x}) = IF x \in S THEN Cardinality(S) ELSE Cardinality(S) + 1
  BY <1>1, FS_AddElement
<1>3. Cardinality(T) <= Cardinality(S \cup {x})
  BY <1>2, FS_Subset
<1>. QED  BY <1>1, <1>2, <1>3

\* A subset is no larger.
LEMMA Shrinks ==
  ASSUME NEW S \in SUBSET Ids, NEW T \in SUBSET Ids, T \subseteq S
  PROVE  Cardinality(T) <= Cardinality(S)
BY IdsFinite, FS_Subset

\* A new member counts.
LEMMA GainsExactly ==
  ASSUME NEW S \in SUBSET Ids, NEW x \in Ids, x \notin S
  PROVE  Cardinality(S \cup {x}) = Cardinality(S) + 1
BY IdsFinite, FS_AddElement

\* A member that leaves counts.
LEMMA LosesExactly ==
  ASSUME NEW S \in SUBSET Ids, NEW x \in S
  PROVE  Cardinality(S \ {x}) = Cardinality(S) - 1
BY IdsFinite, FS_RemoveElement

\* The oldest of some topics is one of them.
LEMMA OldestIsThere ==
  ASSUME NEW S \in SUBSET Ids, S # {}
  PROVE  Oldest(S) \in S
<1>1. S \subseteq Nat
  BY ChatAssumption DEF Ids
<1>. DEFINE Less == {p \in Nat \X Nat : p[1] < p[2]}
<1>2. IsWellFoundedOn(Less, Nat)
  BY NatLessThanWellFounded, Zenon DEF OpToRel
<1>3. PICK x \in S : \A y \in S : ~(<<y, x>> \in Less)
  BY <1>1, <1>2, WFMin
<1>4. ASSUME NEW y \in S
      PROVE  x <= y
  <2>1. x \in Nat /\ y \in Nat /\ <<y, x>> \in Nat \X Nat
    BY <1>1
  <2>2. ~(<<y, x>>[1] < <<y, x>>[2])
    BY <1>3, <2>1, Zenon
  <2>. QED  BY <2>1, <2>2
<1>. QED  BY <1>4 DEF Oldest

-----------------------------------------------------------------------------
(* What the steps do to the tables *)

\* The tables' types at the next step, but for the counters.
TypedNext ==
  /\ topics' \in [Ids -> Topic]
  /\ session' \in [id : 0..MaxSessions, focus : Ids \cup {NoTopic}]
  /\ lastTopic' \in 0..MaxTopics
  /\ watcher' \in [Ids -> Watching]

\* What a step leaves alone of a topic.
Untouched(t) == Status(t)' = Status(t) /\ Run(t)' = Run(t) /\ watcher'[t] = watcher[t]

\* The columns have the types of the rows.
LEMMA Columns ==
  ASSUME TablesOK
  PROVE  /\ \A t \in Ids : Status(t) \in Statuses /\ Run(t) \in Runs /\ watcher[t] \in Watching
         /\ Session \in 0..MaxSessions
         /\ Focus \in Ids \cup {NoTopic}
         /\ lastTopic \in 0..MaxTopics
BY DEF TablesOK, Status, Run, Session, Focus, Statuses, Runs, Topic

\* The session a call works in exists from then on.
LEMMA OpenedSession ==
  ASSUME TablesOK, SessionOfUser.id <= MaxSessions
  PROVE  /\ SessionOfUser \in [id : 0..MaxSessions, focus : Ids \cup {NoTopic}]
         /\ SessionOfUser.id # 0
         /\ SessionOfUser.id \in Nat
         /\ Session # 0 => SessionOfUser.id = Session /\ SessionOfUser.focus = Focus
         /\ Session = 0 => SessionOfUser.focus = NoTopic
<1>1. session \in [id : 0..MaxSessions, focus : Ids \cup {NoTopic}] /\ opened \in Nat
  BY DEF TablesOK
<1>2. CASE session.id = 0
  <2>1. SessionOfUser = [id |-> opened + 1, focus |-> NoTopic]
    BY <1>2 DEF SessionOfUser
  <2>2. opened + 1 \in 0..MaxSessions
    BY <1>1, <2>1, ChatAssumption
  <2>. QED  BY <1>1, <1>2, <2>1, <2>2 DEF Session
<1>3. CASE session.id # 0
  <2>1. SessionOfUser = session
    BY <1>3 DEF SessionOfUser
  <2>. QED  BY <1>1, <1>3, <2>1, ChatAssumption DEF Session, Focus
<1>. QED  BY <1>2, <1>3

\* insert_topic: the next topic, running if a slot is free.
Inserted(n) ==
  /\ n \in Ids
  /\ n = lastTopic + 1
  /\ lastTopic' = n
  /\ \/ AdmissionStatus = "Running" /\ Status(n)' = "Running" /\ Run(n)' = "live"
        /\ watcher'[n] = "stream"
     \/ AdmissionStatus = "Queued" /\ Status(n)' = "Queued" /\ Run(n)' = "none"
        /\ watcher'[n] = "none"
  /\ \A t \in Ids \ {n} : Untouched(t)
  /\ Session' # 0
  /\ Session # 0 => Session' = Session
  /\ Focus' # NoTopic
  /\ Focus' = n \/ (Focus' = Focus /\ Session # 0)

\* insert_topic, by the columns.
LEMMA InsertMoves ==
  ASSUME TablesOK, InsertTopic(SessionOfUser), SessionOfUser.id <= MaxSessions
  PROVE  TypedNext /\ \E n \in Ids : Inserted(n)
<1>1. lastTopic + 1 \in Ids /\ lastTopic \in 0..MaxTopics
  BY ChatAssumption DEF InsertTopic, TablesOK, Ids
<1>2. PICK n \in Ids : n = lastTopic + 1
  BY <1>1
<1>3. PICK st \in {"Running", "Queued"} : st = AdmissionStatus
  BY DEF AdmissionStatus
<1>4. PICK locked \in [id : 0..MaxSessions, focus : Ids \cup {NoTopic}] : locked = SessionOfUser
  BY OpenedSession
<1>5. locked.id # 0 /\ (Session # 0 => locked.focus = Focus /\ locked.id = Session)
      /\ (Session = 0 => locked.focus = NoTopic)
  BY <1>4, OpenedSession
<1>6. lastTopic' = n
      /\ topics' = [topics EXCEPT ![n] = [status |-> st, run |-> IF st = "Running" THEN "live" ELSE "none"]]
      /\ session' = (IF locked.focus = NoTopic THEN [locked EXCEPT !.focus = n] ELSE locked)
      /\ watcher' = [watcher EXCEPT ![n] = IF st = "Running" THEN "stream" ELSE "none"]
  BY <1>2, <1>3, <1>4 DEF InsertTopic
<1>7. topics \in [Ids -> Topic] /\ watcher \in [Ids -> Watching]
  BY DEF TablesOK
<1>8. PICK row \in Topic : row = [status |-> st, run |-> IF st = "Running" THEN "live" ELSE "none"]
  <2>1. (IF st = "Running" THEN "live" ELSE "none") \in {"none", "live"} \cup Ended
    OBVIOUS
  <2>2. st \in {"none"} \cup Open \cup Ended
    BY DEF Open
  <2>. QED  BY <2>1, <2>2 DEF Topic
<1>9. topics' \in [Ids -> Topic] /\ topics'[n] = row /\ \A t \in Ids \ {n} : topics'[t] = topics[t]
  BY <1>6, <1>7, <1>8
<1>10. PICK w \in Watching : w = IF st = "Running" THEN "stream" ELSE "none"
  BY DEF Watching
<1>11. watcher' \in [Ids -> Watching] /\ watcher'[n] = w /\ \A t \in Ids \ {n} : watcher'[t] = watcher[t]
  BY <1>6, <1>7, <1>10
<1>12. session' \in [id : 0..MaxSessions, focus : Ids \cup {NoTopic}] /\ Session' = locked.id
       /\ Focus' = IF locked.focus = NoTopic THEN n ELSE locked.focus
  BY <1>6 DEF Session, Focus
<1>13. TypedNext
  BY <1>6, <1>9, <1>11, <1>12 DEF TypedNext, Ids
<1>14. Status(n)' = st /\ Run(n)' = (IF st = "Running" THEN "live" ELSE "none")
  BY <1>8, <1>9 DEF Status, Run
<1>15. \A t \in Ids \ {n} : Untouched(t)
  BY <1>9, <1>11 DEF Untouched, Status, Run
<1>16. Session' # 0 /\ (Session # 0 => Session' = Session) /\ Focus' # NoTopic
       /\ (Focus' = n \/ (Focus' = Focus /\ Session # 0))
  BY <1>5, <1>12, ChatAssumption DEF NoTopic, Ids
<1>17. \/ AdmissionStatus = "Running" /\ Status(n)' = "Running" /\ Run(n)' = "live"
          /\ watcher'[n] = "stream"
       \/ AdmissionStatus = "Queued" /\ Status(n)' = "Queued" /\ Run(n)' = "none"
          /\ watcher'[n] = "none"
  BY <1>3, <1>10, <1>11, <1>14
<1>18. Inserted(n)
  BY <1>2, <1>6, <1>15, <1>16, <1>17 DEF Inserted
<1>. QED  BY <1>13, <1>18

\* A step that only opens the session or moves the focus within the table.
Stays ==
  /\ lastTopic' = lastTopic
  /\ \A t \in Ids : Untouched(t)
  /\ \/ Session' = Session /\ Focus' = Focus
     \/ Session = 0 /\ Session' # 0 /\ Focus' = NoTopic
     \/ Session' = Session /\ Focus' # NoTopic /\ Focus' \in Ids /\ Status(Focus') # "none"

\* get_or_create_session touches no topic.
LEMMA OpenMoves ==
  ASSUME TablesOK, OpenSession, UNCHANGED <<topics, lastTopic, watcher>>
  PROVE  TypedNext /\ Stays
<1>1. SessionOfUser.id <= MaxSessions /\ session' = SessionOfUser
  BY DEF OpenSession
<1>2. session' \in [id : 0..MaxSessions, focus : Ids \cup {NoTopic}]
      /\ Session' # 0 /\ (Session # 0 => Session' = Session /\ Focus' = Focus)
      /\ (Session = 0 => Focus' = NoTopic)
  BY <1>1, OpenedSession DEF Session, Focus
<1>3. TypedNext
  BY <1>2 DEF TypedNext, TablesOK
<1>4. \A t \in Ids : Untouched(t)
  BY DEF Untouched, Status, Run
<1>. QED  BY <1>2, <1>3, <1>4 DEF Stays

\* set_focus moves the focus within the table, or not at all.
LEMMA RefocusMoves ==
  ASSUME TablesOK, NEW f, Refocus(f), UNCHANGED <<topics, lastTopic, watcher>>
  PROVE  TypedNext /\ Stays
<1>1. session \in [id : 0..MaxSessions, focus : Ids \cup {NoTopic}]
  BY DEF TablesOK
<1>2. \A t \in Ids : Untouched(t)
  BY DEF Untouched, Status, Run
<1>3. CASE f \in Ids /\ InTable(f)
  <2>1. session' = [session EXCEPT !.focus = f]
    BY <1>3 DEF Refocus
  <2>2. session' \in [id : 0..MaxSessions, focus : Ids \cup {NoTopic}] /\ Session' = Session /\ Focus' = f
    BY <1>1, <1>3, <2>1 DEF Session, Focus
  <2>3. TypedNext
    BY <2>2 DEF TypedNext, TablesOK
  <2>4. f # NoTopic /\ Status(f) # "none"
    BY <1>3, ChatAssumption DEF NoTopic, Ids, InTable, Status
  <2>. QED  BY <1>2, <1>3, <2>2, <2>3, <2>4 DEF Stays
<1>4. CASE ~(f \in Ids /\ InTable(f))
  <2>1. session' = session
    BY <1>4 DEF Refocus
  <2>. QED  BY <1>1, <1>2, <2>1 DEF Stays, TypedNext, TablesOK, Session, Focus
<1>. QED  BY <1>3, <1>4

\* A step that leaves the tables alone.
LEMMA QuietMoves ==
  ASSUME TablesOK, UNCHANGED <<topics, session, lastTopic, watcher>>
  PROVE  TypedNext /\ Stays
<1>1. \A t \in Ids : Untouched(t)
  BY DEF Untouched, Status, Run
<1>. QED  BY <1>1 DEF Stays, TypedNext, TablesOK, Session, Focus

\* A watcher takes a step of its own.
Rewatched(t, w) ==
  /\ lastTopic' = lastTopic
  /\ Session' = Session
  /\ Focus' = Focus
  /\ \A u \in Ids : Status(u)' = Status(u) /\ Run(u)' = Run(u)
  /\ watcher'[t] = w
  /\ \A u \in Ids \ {t} : watcher'[u] = watcher[u]

\* A watcher's step, by the columns.
LEMMA WatcherMoves ==
  ASSUME TablesOK, NEW t \in Ids, NEW w \in Watching,
         watcher' = [watcher EXCEPT ![t] = w],
         UNCHANGED <<topics, session, lastTopic>>
  PROVE  TypedNext /\ Rewatched(t, w)
<1>1. watcher \in [Ids -> Watching]
  BY DEF TablesOK
<1>2. watcher' \in [Ids -> Watching] /\ watcher'[t] = w /\ \A u \in Ids \ {t} : watcher'[u] = watcher[u]
  BY <1>1
<1>3. TypedNext
  BY <1>2 DEF TypedNext, TablesOK
<1>4. (\A u \in Ids : Status(u)' = Status(u) /\ Run(u)' = Run(u)) /\ Session' = Session /\ Focus' = Focus
  BY DEF Status, Run, Session, Focus
<1>. QED  BY <1>2, <1>3, <1>4 DEF Rewatched

\* The engine's terminal event.
RunEnded(t) ==
  /\ lastTopic' = lastTopic
  /\ Session' = Session
  /\ Focus' = Focus
  /\ \A u \in Ids : Status(u)' = Status(u) /\ watcher'[u] = watcher[u]
  /\ Run(t)' \in Ended
  /\ \A u \in Ids \ {t} : Run(u)' = Run(u)

\* The terminal event changes the execution's column only.
LEMMA EndMoves ==
  ASSUME TablesOK, NEW t \in Ids, ExecutionEnds(t)
  PROVE  TypedNext /\ RunEnded(t)
<1>1. PICK r \in Ended : topics' = [topics EXCEPT ![t].run = r]
  BY ChatAssumption DEF ExecutionEnds, Ended
<1>2. topics \in [Ids -> Topic] /\ topics[t] \in Topic
  BY DEF TablesOK
<1>3. PICK row \in Topic : row = [topics[t] EXCEPT !.run = r]
  BY <1>2 DEF Topic
<1>4. row.status = topics[t].status /\ row.run = r
  BY <1>2, <1>3 DEF Topic
<1>5. topics' \in [Ids -> Topic] /\ topics'[t] = row /\ \A u \in Ids \ {t} : topics'[u] = topics[u]
  BY <1>1, <1>2, <1>3
<1>6. session' = session /\ lastTopic' = lastTopic /\ watcher' = watcher
  BY DEF ExecutionEnds
<1>7. TypedNext
  BY <1>5, <1>6 DEF TypedNext, TablesOK
<1>8. (\A u \in Ids : Status(u)' = Status(u)) /\ Run(t)' = r /\ \A u \in Ids \ {t} : Run(u)' = Run(u)
  BY <1>4, <1>5 DEF Status, Run
<1>. QED  BY <1>6, <1>7, <1>8 DEF RunEnded, Session, Focus

\* finish_topic: the topic has its execution's outcome, and a completed one that had
\* the focus passes it on to an unfinished one if there is any.
Finished(t) ==
  /\ lastTopic' = lastTopic
  /\ Session' = Session
  /\ Status(t) # "none"
  /\ Status(t)' = Run(t)
  /\ watcher'[t] = "promote"
  /\ \A u \in Ids : Run(u)' = Run(u)
  /\ \A u \in Ids \ {t} : Untouched(u)
  /\ \/ Focus' = Focus /\ ~(Focus = t /\ Status(t)' = "Completed")
     \/ \E u \in Ids : Focus' = u /\ Status(u)' \in Open
     \/ Focus' = NoTopic /\ \A u \in Ids : Status(u)' \notin Open

\* finish_topic, by the columns; a topic that a reset took only loses its watcher.
LEMMA FinishMoves ==
  ASSUME TablesOK, WatchersKnow, NEW t \in Ids, FinishTopic(t)
  PROVE  TypedNext /\ (Finished(t) \/ (Status(t) = "none" /\ Rewatched(t, "none")))
<1>1. CASE ~InTable(t)
  <2>1. watcher' = [watcher EXCEPT ![t] = "none"] /\ UNCHANGED <<topics, session, lastTopic>>
    BY <1>1 DEF FinishTopic
  <2>2. TypedNext /\ Rewatched(t, "none")
    BY <2>1, WatcherMoves DEF Watching
  <2>. QED  BY <1>1, <2>2 DEF InTable, Status
<1>2. CASE InTable(t)
  <2>0. PICK after : after = [topics EXCEPT ![t].status = topics[t].run]
    OBVIOUS
  <2>1. topics' = after /\ session' = [session EXCEPT !.focus = MovedFocus(t, after)]
        /\ watcher' = [watcher EXCEPT ![t] = "promote"] /\ lastTopic' = lastTopic
    BY <1>2, <2>0 DEF FinishTopic
  <2>2. topics \in [Ids -> Topic] /\ topics[t] \in Topic /\ watcher \in [Ids -> Watching]
        /\ session \in [id : 0..MaxSessions, focus : Ids \cup {NoTopic}]
    BY DEF TablesOK
  <2>3. watcher[t] = "finish" /\ Status(t) # "none"
    BY <1>2 DEF FinishTopic, InTable, Status
  <2>4. PICK r \in Ended : r = topics[t].run
    BY <2>3 DEF WatchersKnow, Run
  <2>5. PICK row \in Topic : row = [topics[t] EXCEPT !.status = r]
    BY <2>2 DEF Topic
  <2>6. row.status = r /\ row.run = topics[t].run
    BY <2>2, <2>5 DEF Topic
  <2>7. after \in [Ids -> Topic] /\ after[t] = row /\ \A u \in Ids \ {t} : after[u] = topics[u]
    BY <2>0, <2>2, <2>4, <2>5
  <2>8. watcher' \in [Ids -> Watching] /\ watcher'[t] = "promote"
        /\ \A u \in Ids \ {t} : watcher'[u] = watcher[u]
    BY <2>1, <2>2 DEF Watching
  <2>9. Status(t)' = r /\ Run(t) = r /\ (\A u \in Ids : Run(u)' = Run(u))
        /\ \A u \in Ids \ {t} : Status(u)' = Status(u)
    BY <2>1, <2>4, <2>6, <2>7 DEF Status, Run
  <2>10. PICK open \in SUBSET Ids : open = {u \in Ids : after[u].status \in Open}
    OBVIOUS
  <2>11. \A u \in Ids : u \in open <=> Status(u)' \in Open
    BY <2>1, <2>10 DEF Status
  <2>12. PICK f \in Ids \cup {NoTopic} : f = MovedFocus(t, after)
    <3>1. CASE session.focus = t /\ after[t].status = "Completed"
      <4>1. MovedFocus(t, after) = Oldest(open)
        BY <2>10, <3>1 DEF MovedFocus
      <4>2. Oldest(open) \in Ids \cup {NoTopic}
        BY OldestIsThere DEF Oldest
      <4>. QED  BY <4>1, <4>2
    <3>2. CASE ~(session.focus = t /\ after[t].status = "Completed")
      BY <2>2, <3>2 DEF MovedFocus
    <3>. QED  BY <3>1, <3>2
  <2>13. session' \in [id : 0..MaxSessions, focus : Ids \cup {NoTopic}] /\ Session' = Session /\ Focus' = f
    BY <2>1, <2>2, <2>12 DEF Session, Focus
  <2>14. \/ Focus' = Focus /\ ~(Focus = t /\ Status(t)' = "Completed")
         \/ \E u \in Ids : Focus' = u /\ Status(u)' \in Open
         \/ Focus' = NoTopic /\ \A u \in Ids : Status(u)' \notin Open
    <3>1. CASE session.focus = t /\ after[t].status = "Completed"
      <4>1. f = Oldest(open)
        BY <2>10, <2>12, <3>1 DEF MovedFocus
      <4>2. open = {} => f = NoTopic
        BY <4>1 DEF Oldest
      <4>3. open # {} => f \in open
        BY <4>1, OldestIsThere
      <4>. QED  BY <2>11, <2>13, <4>2, <4>3
    <3>2. CASE ~(session.focus = t /\ after[t].status = "Completed")
      <4>1. f = session.focus
        BY <2>12, <3>2 DEF MovedFocus
      <4>2. ~(Focus = t /\ Status(t)' = "Completed")
        BY <2>1, <3>2 DEF Focus, Status
      <4>. QED  BY <2>13, <4>1, <4>2 DEF Focus
    <3>. QED  BY <3>1, <3>2
  <2>15. TypedNext
    BY <2>1, <2>7, <2>8, <2>13 DEF TypedNext, TablesOK
  <2>16. \A u \in Ids \ {t} : Untouched(u)
    BY <2>8, <2>9 DEF Untouched
  <2>17. Finished(t)
    BY <2>1, <2>3, <2>8, <2>9, <2>13, <2>14, <2>16 DEF Finished
  <2>. QED  BY <2>15, <2>17
<1>. QED  BY <1>1, <1>2

\* promote_next_queued with a slot and a queued topic n.
Promoted(t, n) ==
  /\ n \in Ids
  /\ n # t
  /\ lastTopic' = lastTopic
  /\ Session' = Session
  /\ Focus' = Focus
  /\ AdmissionStatus = "Running"
  /\ Status(n) = "Queued"
  /\ Status(n)' = "Running"
  /\ watcher'[n] = "stream"
  /\ Status(t)' = Status(t)
  /\ watcher'[t] = "none"
  /\ \A u \in Ids \ {t, n} : Untouched(u)

\* promote_next_queued, by the columns, with why it promotes nothing when it does not.
LEMMA PromoteMoves ==
  ASSUME TablesOK, WatchersKnow, NEW t \in Ids, PromoteNextQueued(t)
  PROVE  TypedNext /\ \/ \E n \in Ids : Promoted(t, n)
                      \/ /\ Rewatched(t, "none")
                         /\ \/ Status(t) = "none"
                            \/ AdmissionStatus = "Queued"
                            \/ \A u \in Ids : Status(u) # "Queued"
<1>. DEFINE next == Oldest(With({"Queued"}))
<1>1. CASE ~(InTable(t) /\ AdmissionStatus = "Running" /\ next # NoTopic)
  <2>1. watcher' = [watcher EXCEPT ![t] = "none"] /\ UNCHANGED <<topics, session, lastTopic>>
    BY <1>1 DEF PromoteNextQueued
  <2>2. TypedNext /\ Rewatched(t, "none")
    BY <2>1, WatcherMoves DEF Watching
  <2>3. next = NoTopic => \A u \in Ids : Status(u) # "Queued"
    <3>1. PICK S \in SUBSET Ids : S = With({"Queued"})
      BY DEF With
    <3>2. S # {} => Oldest(S) \in Ids
      BY OldestIsThere
    <3>3. next = NoTopic => S = {}
      BY <3>1, <3>2, ChatAssumption DEF Ids, NoTopic
    <3>. QED  BY <3>1, <3>3 DEF With, Status
  <2>4. AdmissionStatus # "Running" => AdmissionStatus = "Queued"
    BY DEF AdmissionStatus
  <2>5. ~InTable(t) => Status(t) = "none"
    BY DEF InTable, Status
  <2>. QED  BY <1>1, <2>2, <2>3, <2>4, <2>5
<1>2. CASE InTable(t) /\ AdmissionStatus = "Running" /\ next # NoTopic
  <2>1. next \in With({"Queued"})
    <3>1. PICK S \in SUBSET Ids : S = With({"Queued"})
      BY DEF With
    <3>2. S # {}
      BY <1>2, <3>1 DEF Oldest
    <3>. QED  BY <3>1, <3>2, OldestIsThere
  <2>2. PICK n \in Ids : n = next
    BY <2>1 DEF With
  <2>3. Status(n) = "Queued" /\ watcher[n] = "none" /\ n # t
    BY <2>1, <2>2 DEF With, Status, WatchersKnow, PromoteNextQueued
  <2>4. topics' = [topics EXCEPT ![n] = [status |-> "Running", run |-> "live"]]
        /\ watcher' = [watcher EXCEPT ![t] = "none", ![n] = "stream"]
        /\ UNCHANGED <<session, lastTopic>>
    BY <1>2, <2>2 DEF PromoteNextQueued
  <2>5. topics \in [Ids -> Topic] /\ watcher \in [Ids -> Watching]
    BY DEF TablesOK
  <2>6. PICK row \in Topic : row = [status |-> "Running", run |-> "live"]
    BY DEF Topic, Open
  <2>7. topics' \in [Ids -> Topic] /\ topics'[n] = row /\ \A u \in Ids \ {n} : topics'[u] = topics[u]
    BY <2>4, <2>5, <2>6
  <2>8. watcher' \in [Ids -> Watching] /\ watcher'[n] = "stream" /\ watcher'[t] = "none"
        /\ \A u \in Ids \ {t, n} : watcher'[u] = watcher[u]
    BY <2>3, <2>4, <2>5 DEF Watching
  <2>9. TypedNext
    BY <2>4, <2>7, <2>8 DEF TypedNext, TablesOK
  <2>10. Status(n)' = "Running" /\ Status(t)' = Status(t) /\ \A u \in Ids \ {t, n} : Untouched(u)
    BY <2>3, <2>6, <2>7, <2>8 DEF Status, Untouched, Run
  <2>11. Promoted(t, n)
    BY <1>2, <2>3, <2>4, <2>8, <2>10 DEF Promoted, Session, Focus
  <2>. QED  BY <2>9, <2>11
<1>. QED  BY <1>1, <1>2

\* reset_session.
Cleared ==
  /\ lastTopic' = lastTopic
  /\ Session' = 0
  /\ Focus' = NoTopic
  /\ \A t \in Ids : Status(t)' = "none" /\ watcher'[t] = watcher[t]

\* reset_session, by the columns.
LEMMA ResetMoves ==
  ASSUME TablesOK, ResetSession
  PROVE  TypedNext /\ Cleared
<1>1. topics' = [t \in Ids |-> Absent] /\ session' = [id |-> 0, focus |-> NoTopic]
      /\ lastTopic' = lastTopic /\ watcher' = watcher
  BY DEF ResetSession
<1>2. Absent \in Topic /\ Absent.status = "none"
  BY DEF Absent, Topic
<1>3. topics' \in [Ids -> Topic] /\ \A t \in Ids : topics'[t].status = "none"
  BY <1>1, <1>2
<1>4. session' \in [id : 0..MaxSessions, focus : Ids \cup {NoTopic}] /\ Session' = 0 /\ Focus' = NoTopic
  BY <1>1, ChatAssumption DEF Session, Focus
<1>5. TypedNext
  BY <1>1, <1>3, <1>4 DEF TypedNext, TablesOK
<1>. QED  BY <1>1, <1>3, <1>4, <1>5 DEF Cleared, Status

\* A new process watches what is running.
Restarted ==
  /\ lastTopic' = lastTopic
  /\ Session' = Session
  /\ Focus' = Focus
  /\ \A t \in Ids : /\ Status(t)' = Status(t)
                    /\ watcher'[t] = IF Status(t) = "Running" THEN "stream" ELSE "none"

\* A restart, by the columns.
LEMMA RestartMoves ==
  ASSUME TablesOK, Restart
  PROVE  TypedNext /\ Restarted
<1>1. watcher' = [t \in Ids |-> IF topics[t].status = "Running" THEN "stream" ELSE "none"]
      /\ UNCHANGED <<topics, session, lastTopic>>
  BY DEF Restart
<1>2. watcher' \in [Ids -> Watching]
      /\ \A t \in Ids : watcher'[t] = IF topics[t].status = "Running" THEN "stream" ELSE "none"
  BY <1>1 DEF Watching
<1>3. TypedNext
  BY <1>1, <1>2 DEF TypedNext, TablesOK
<1>. QED  BY <1>1, <1>2, <1>3 DEF Restarted, Status, Session, Focus

-----------------------------------------------------------------------------
(* The invariant of the tables *)

\* What has to be kept beside the types.
TopicsKept ==
  /\ TopicsOfSession'
  /\ FocusInTable'
  /\ WatchersKnow'
  /\ FocusNeverLost'
  /\ SlotsAreUsed'

\* No step takes a fault or a restart back.
NoneTakenBack == faults' = 0 /\ restarts' = 0 => faults = 0 /\ restarts = 0

\* The properties in terms of the columns.
Queueing == \E t \in Ids : Status(t) = "Queued"
SlotsByColumns ==
  /\ Cardinality(RunningSet) <= MaxRunning
  /\ faults = 0 /\ restarts = 0 /\ Queueing =>
       MaxRunning <= Cardinality(RunningSet) + Cardinality(PromotingSet)
FocusByColumns == Session # 0 /\ (\E t \in Ids : Status(t) \in Open) => Focus # NoTopic

\* The sets that the slots are counted by are finite.
LEMMA SetsOfTopics ==
  /\ RunningSet \in SUBSET Ids /\ PromotingSet \in SUBSET Ids
  /\ RunningSet' \in SUBSET Ids /\ PromotingSet' \in SUBSET Ids
  /\ Cardinality(RunningSet) \in Nat /\ Cardinality(PromotingSet) \in Nat
  /\ Cardinality(RunningSet)' \in Nat /\ Cardinality(PromotingSet)' \in Nat
<1>1. /\ RunningSet \in SUBSET Ids /\ PromotingSet \in SUBSET Ids
      /\ RunningSet' \in SUBSET Ids /\ PromotingSet' \in SUBSET Ids
  BY DEF RunningSet, PromotingSet
<1>. QED  BY <1>1, IdsFinite

\* The properties and the slot check say the same of the columns.
LEMMA ByColumns ==
  /\ SlotsAreUsed <=> SlotsByColumns
  /\ SlotsAreUsed' <=> SlotsByColumns'
  /\ FocusNeverLost <=> FocusByColumns
  /\ FocusNeverLost' <=> FocusByColumns'
  /\ AdmissionStatus = "Running" <=> Cardinality(RunningSet) < MaxRunning
  /\ AdmissionStatus = "Queued" <=> ~(Cardinality(RunningSet) < MaxRunning)
<1>1. With({"Running"}) = RunningSet /\ With({"Running"})' = RunningSet'
  BY DEF With, RunningSet, Status
<1>2. {t \in Ids : watcher[t] = "promote" /\ InTable(t)} = PromotingSet
      /\ {t \in Ids : watcher[t] = "promote" /\ InTable(t)}' = PromotingSet'
  BY DEF PromotingSet, InTable, Status
<1>3. (With({"Queued"}) # {} <=> Queueing) /\ (With({"Queued"})' # {} <=> Queueing')
  BY DEF With, Queueing, Status
<1>4. (With(Open) # {} <=> \E t \in Ids : Status(t) \in Open)
      /\ (With(Open)' # {} <=> \E t \in Ids : Status(t)' \in Open)
  BY DEF With, Status, Open
<1>5. SlotsAreUsed <=> SlotsByColumns
  <2>1. SlotsAreUsed <=>
          /\ MaxRunning - Cardinality(RunningSet) >= 0
          /\ faults = 0 /\ restarts = 0 /\ Queueing =>
               MaxRunning - Cardinality(RunningSet) <= Cardinality(PromotingSet)
    BY <1>1, <1>2, <1>3, Zenon DEF SlotsAreUsed
  <2>. QED  BY <2>1, SetsOfTopics, ChatAssumption DEF SlotsByColumns
<1>6. SlotsAreUsed' <=> SlotsByColumns'
  <2>1. SlotsAreUsed' <=>
          /\ MaxRunning - Cardinality(RunningSet)' >= 0
          /\ faults' = 0 /\ restarts' = 0 /\ Queueing' =>
               MaxRunning - Cardinality(RunningSet)' <= Cardinality(PromotingSet)'
    BY <1>1, <1>2, <1>3, Zenon DEF SlotsAreUsed
  <2>. QED  BY <2>1, SetsOfTopics, ChatAssumption DEF SlotsByColumns
<1>7. FocusNeverLost <=> FocusByColumns
  BY <1>4 DEF FocusNeverLost, FocusByColumns, Session, Focus
<1>8. FocusNeverLost' <=> FocusByColumns'
  BY <1>4 DEF FocusNeverLost, FocusByColumns, Session, Focus
<1>9. /\ AdmissionStatus = "Running" <=> Cardinality(RunningSet) < MaxRunning
      /\ AdmissionStatus = "Queued" <=> ~(Cardinality(RunningSet) < MaxRunning)
  BY <1>1 DEF AdmissionStatus
<1>. QED  BY <1>5, <1>6, <1>7, <1>8, <1>9

\* The focus after a step, by name.
LEMMA FocusAt ==
  ASSUME NEW f, Focus' = f, f # NoTopic => Status(f)' # "none"
  PROVE  FocusInTable'
BY DEF FocusInTable, Status

\* The invariant in terms of the columns.
LEMMA TopicInvColumns ==
  ASSUME TopicInv
  PROVE  /\ \A t \in Ids : Status(t) \in Statuses /\ Run(t) \in Runs /\ watcher[t] \in Watching
         /\ Focus \in Ids \cup {NoTopic}
         /\ lastTopic \in 0..MaxTopics
         /\ \A t \in Ids : Status(t) # "none" => Session # 0 /\ t <= lastTopic
         /\ Focus # NoTopic => Status(Focus) # "none"
         /\ SlotsByColumns /\ FocusByColumns
         /\ WatchersKnow
BY Columns, ByColumns DEF TopicInv, TopicsOfSession, FocusInTable

\* The slots after a step, from how the sets grow and shrink.
LEMMA SlotsKept ==
  ASSUME TopicInv, NoneTakenBack,
         Cardinality(RunningSet)' <= MaxRunning,
         Queueing' /\ faults = 0 /\ restarts = 0 =>
            MaxRunning <= Cardinality(RunningSet)' + Cardinality(PromotingSet)'
  PROVE  SlotsAreUsed'
BY ByColumns DEF SlotsByColumns, NoneTakenBack

\* Opening a session or moving the focus keeps the invariant.
LEMMA StaysKeeps ==
  ASSUME TopicInv, NoneTakenBack, Stays
  PROVE  TopicsKept
<1>1. lastTopic' = lastTopic /\ (Session # 0 => Session' # 0)
      /\ \A t \in Ids : Status(t)' = Status(t) /\ Run(t)' = Run(t) /\ watcher'[t] = watcher[t]
  BY DEF Stays, Untouched
<1>2. TopicsOfSession'
  BY <1>1, TopicInvColumns DEF TopicsOfSession
<1>3. FocusInTable'
  <2>1. PICK f : f = Focus'
    OBVIOUS
  <2>2. f # NoTopic => f \in Ids /\ Status(f) # "none"
    BY <2>1, TopicInvColumns DEF Stays
  <2>. QED  BY <1>1, <2>1, <2>2, FocusAt
<1>4. WatchersKnow'
  BY <1>1, TopicInvColumns DEF WatchersKnow
<1>5. FocusNeverLost'
  <2>1. FocusByColumns'
    <3>1. SUFFICES ASSUME NEW t \in Ids, Status(t)' \in Open
                   PROVE  Focus' # NoTopic
      BY DEF FocusByColumns
    <3>2. Status(t) \in Open /\ Session # 0 /\ Focus # NoTopic
      BY <1>1, <3>1, TopicInvColumns DEF FocusByColumns, Open
    <3>. QED  BY <3>2 DEF Stays
  <2>. QED  BY <2>1, ByColumns
<1>6. SlotsAreUsed'
  <2>1. RunningSet' = RunningSet /\ PromotingSet' = PromotingSet /\ (Queueing' <=> Queueing)
    BY <1>1 DEF RunningSet, PromotingSet, Queueing
  <2>. QED  BY <2>1, TopicInvColumns, SlotsKept DEF SlotsByColumns
<1>. QED  BY <1>2, <1>3, <1>4, <1>5, <1>6 DEF TopicsKept

\* A new topic takes a free slot, or queues when there is none.
LEMMA InsertKeeps ==
  ASSUME TopicInv, NoneTakenBack, NEW n \in Ids, Inserted(n)
  PROVE  TopicsKept
<1>1. n = lastTopic + 1 /\ lastTopic' = n /\ lastTopic \in 0..MaxTopics /\ Session' # 0
      /\ (Status(n)' = "Running" \/ Status(n)' = "Queued")
      /\ \A t \in Ids \ {n} : Status(t)' = Status(t) /\ Run(t)' = Run(t) /\ watcher'[t] = watcher[t]
  BY TopicInvColumns DEF Inserted, Untouched
<1>2. Status(n) = "none" /\ watcher[n] = "none"
  BY <1>1, TopicInvColumns DEF WatchersKnow
<1>3. TopicsOfSession'
  BY <1>1, TopicInvColumns DEF TopicsOfSession, Ids
<1>4. FocusInTable'
  <2>1. PICK f : f = Focus'
    OBVIOUS
  <2>2. f = n \/ (f # NoTopic /\ f = Focus)
    BY <2>1 DEF Inserted
  <2>3. f # n => f \in Ids \ {n} /\ Status(f) # "none"
    BY <2>2, TopicInvColumns
  <2>4. Status(f)' # "none"
    BY <1>1, <2>3
  <2>. QED  BY <2>1, <2>4, FocusAt
<1>5. WatchersKnow'
  <2>1. SUFFICES ASSUME NEW t \in Ids
                 PROVE  /\ watcher'[t] # "none" => t <= lastTopic'
                        /\ Status(t)' = "Queued" => watcher'[t] = "none"
                        /\ watcher'[t] = "finish" /\ Status(t)' # "none" => Run(t)' \in Ended
    BY DEF WatchersKnow
  <2>2. CASE t = n
    BY <1>1, <2>2 DEF Inserted, Ids
  <2>3. CASE t # n
    BY <1>1, <2>3, TopicInvColumns DEF WatchersKnow, Ids
  <2>. QED  BY <2>2, <2>3
<1>6. FocusNeverLost'
  BY ByColumns DEF Inserted, FocusByColumns
<1>7. SlotsAreUsed'
  <2>1. CASE AdmissionStatus = "Running"
    <3>1. Status(n)' = "Running" /\ watcher'[n] = "stream" /\ Cardinality(RunningSet) < MaxRunning
      BY <2>1, ByColumns DEF Inserted
    <3>2. RunningSet' = RunningSet \cup {n} /\ n \notin RunningSet
      BY <1>1, <1>2, <3>1 DEF RunningSet
    <3>3. PromotingSet' = PromotingSet
      BY <1>1, <1>2, <3>1 DEF PromotingSet
    <3>4. Queueing' => Queueing
      BY <1>1, <3>1 DEF Queueing
    <3>5. PICK R \in SUBSET Ids : R = RunningSet
      BY SetsOfTopics
    <3>6. Cardinality(R \cup {n}) = Cardinality(R) + 1
      BY <3>2, <3>5, GainsExactly
    <3>7. Cardinality(RunningSet)' = Cardinality(RunningSet) + 1
          /\ Cardinality(PromotingSet)' = Cardinality(PromotingSet)
      BY <3>2, <3>3, <3>5, <3>6
    <3>8. PICK a \in Nat, b \in Nat : a = Cardinality(RunningSet) /\ b = Cardinality(PromotingSet)
      BY SetsOfTopics
    <3>9. faults = 0 /\ restarts = 0 /\ Queueing => MaxRunning <= a + b
      BY <3>8, TopicInvColumns DEF SlotsByColumns
    <3>10. a + 1 <= MaxRunning /\ (MaxRunning <= a + b => MaxRunning <= a + 1 + b)
      BY <3>1, <3>8, ChatAssumption
    <3>. QED  BY <3>4, <3>7, <3>8, <3>9, <3>10, SlotsKept
  <2>2. CASE AdmissionStatus = "Queued"
    <3>1. Status(n)' = "Queued" /\ ~(Cardinality(RunningSet) < MaxRunning)
      BY <2>2, ByColumns DEF Inserted
    <3>2. RunningSet' = RunningSet
      BY <1>1, <1>2, <3>1 DEF RunningSet
    <3>3. Cardinality(RunningSet)' = MaxRunning
      BY <3>1, <3>2, TopicInvColumns, SetsOfTopics, ChatAssumption DEF SlotsByColumns
    <3>4. MaxRunning <= Cardinality(RunningSet)' + Cardinality(PromotingSet)'
      BY <3>3, SetsOfTopics, ChatAssumption
    <3>. QED  BY <3>3, <3>4, SlotsKept, ChatAssumption
  <2>. QED  BY <2>1, <2>2 DEF Inserted
<1>. QED  BY <1>3, <1>4, <1>5, <1>6, <1>7 DEF TopicsKept

\* A watcher's own step: the slots look as before when it does not give up a promotion.
LEMMA RewatchKeeps ==
  ASSUME TopicInv, NoneTakenBack, NEW t \in Ids, NEW w \in Watching, Rewatched(t, w),
         watcher[t] # "none",
         w = "finish" => Run(t) \in Ended,
         \/ faults' # 0
         \/ watcher[t] # "promote"
         \/ Status(t) = "none"
         \/ AdmissionStatus = "Queued"
         \/ \A u \in Ids : Status(u) # "Queued"
  PROVE  TopicsKept
<1>1. lastTopic' = lastTopic /\ Session' = Session /\ Focus' = Focus /\ watcher'[t] = w
      /\ (\A u \in Ids : Status(u)' = Status(u) /\ Run(u)' = Run(u))
      /\ \A u \in Ids \ {t} : watcher'[u] = watcher[u]
  BY DEF Rewatched
<1>2. t <= lastTopic /\ Status(t) # "Queued"
  BY TopicInvColumns DEF WatchersKnow
<1>3. TopicsOfSession'
  BY <1>1, TopicInvColumns DEF TopicsOfSession
<1>4. FocusInTable'
  <2>1. PICK f : f = Focus
    OBVIOUS
  <2>. QED  BY <1>1, <2>1, TopicInvColumns, FocusAt
<1>5. WatchersKnow'
  <2>1. SUFFICES ASSUME NEW u \in Ids
                 PROVE  /\ watcher'[u] # "none" => u <= lastTopic'
                        /\ Status(u)' = "Queued" => watcher'[u] = "none"
                        /\ watcher'[u] = "finish" /\ Status(u)' # "none" => Run(u)' \in Ended
    BY DEF WatchersKnow
  <2>2. CASE u = t
    BY <1>1, <1>2, <2>2
  <2>3. CASE u # t
    BY <1>1, <2>3, TopicInvColumns DEF WatchersKnow
  <2>. QED  BY <2>2, <2>3
<1>6. FocusNeverLost'
  BY <1>1, TopicInvColumns, ByColumns DEF FocusByColumns
<1>7. SlotsAreUsed'
  <2>1. RunningSet' = RunningSet /\ (Queueing' <=> Queueing)
    BY <1>1 DEF RunningSet, Queueing
  <2>2. CASE faults' # 0
    BY <2>1, <2>2, TopicInvColumns, ByColumns DEF SlotsByColumns
  <2>3. CASE watcher[t] # "promote" \/ Status(t) = "none"
    <3>1. PromotingSet \subseteq PromotingSet'
      BY <1>1, <2>3 DEF PromotingSet
    <3>2. PICK P \in SUBSET Ids, Q \in SUBSET Ids : P = PromotingSet /\ Q = PromotingSet'
      BY SetsOfTopics
    <3>3. Cardinality(P) <= Cardinality(Q)
      BY <3>1, <3>2, Shrinks
    <3>4. PICK a \in Nat, b \in Nat, c \in Nat :
            a = Cardinality(RunningSet) /\ b = Cardinality(P) /\ c = Cardinality(Q)
      BY <3>2, SetsOfTopics
    <3>5. faults = 0 /\ restarts = 0 /\ Queueing => MaxRunning <= a + b
      BY <3>2, <3>4, TopicInvColumns DEF SlotsByColumns
    <3>6. MaxRunning <= a + b => MaxRunning <= a + c
      BY <3>3, <3>4, ChatAssumption
    <3>. QED  BY <2>1, <3>2, <3>4, <3>5, <3>6, TopicInvColumns, SlotsKept DEF SlotsByColumns
  <2>4. CASE AdmissionStatus = "Queued"
    <3>1. ~(Cardinality(RunningSet) < MaxRunning)
      BY <2>4, ByColumns
    <3>2. Cardinality(RunningSet)' = MaxRunning
      BY <2>1, <3>1, TopicInvColumns, SetsOfTopics, ChatAssumption DEF SlotsByColumns
    <3>3. MaxRunning <= Cardinality(RunningSet)' + Cardinality(PromotingSet)'
      BY <3>2, SetsOfTopics, ChatAssumption
    <3>. QED  BY <3>2, <3>3, SlotsKept, ChatAssumption
  <2>5. CASE \A u \in Ids : Status(u) # "Queued"
    BY <2>1, <2>5, TopicInvColumns, SlotsKept DEF SlotsByColumns, Queueing
  <2>. QED  BY <2>2, <2>3, <2>4, <2>5
<1>. QED  BY <1>3, <1>4, <1>5, <1>6, <1>7 DEF TopicsKept

\* The end of an execution changes nothing until a watcher sees it.
LEMMA EndKeeps ==
  ASSUME TopicInv, NoneTakenBack, NEW t \in Ids, RunEnded(t)
  PROVE  TopicsKept
<1>1. lastTopic' = lastTopic /\ Session' = Session /\ Focus' = Focus /\ Run(t)' \in Ended
      /\ (\A u \in Ids : Status(u)' = Status(u) /\ watcher'[u] = watcher[u])
      /\ \A u \in Ids \ {t} : Run(u)' = Run(u)
  BY DEF RunEnded
<1>2. TopicsOfSession'
  BY <1>1, TopicInvColumns DEF TopicsOfSession
<1>3. FocusInTable'
  <2>1. PICK f : f = Focus
    OBVIOUS
  <2>. QED  BY <1>1, <2>1, TopicInvColumns, FocusAt
<1>4. WatchersKnow'
  BY <1>1, TopicInvColumns DEF WatchersKnow
<1>5. FocusNeverLost'
  BY <1>1, TopicInvColumns, ByColumns DEF FocusByColumns
<1>6. SlotsAreUsed'
  <2>1. RunningSet' = RunningSet /\ PromotingSet' = PromotingSet /\ (Queueing' <=> Queueing)
    BY <1>1 DEF RunningSet, PromotingSet, Queueing
  <2>. QED  BY <2>1, TopicInvColumns, SlotsKept DEF SlotsByColumns
<1>. QED  BY <1>2, <1>3, <1>4, <1>5, <1>6 DEF TopicsKept

\* The slot that a finish frees is matched by the promotion it starts.
LEMMA FinishKeeps ==
  ASSUME TopicInv, NoneTakenBack, NEW t \in Ids, watcher[t] = "finish", Finished(t)
  PROVE  TopicsKept
<1>1. lastTopic' = lastTopic /\ Session' = Session /\ Status(t)' = Run(t) /\ watcher'[t] = "promote"
      /\ Status(t) # "none" /\ Run(t)' = Run(t)
      /\ \A u \in Ids \ {t} : Status(u)' = Status(u) /\ Run(u)' = Run(u) /\ watcher'[u] = watcher[u]
  BY DEF Finished, Untouched
<1>2. Status(t)' \in Ended /\ Run(t) \in Ended /\ t <= lastTopic /\ Session # 0
  BY <1>1, TopicInvColumns DEF WatchersKnow
<1>3. Status(t)' # "none" /\ Status(t)' # "Running" /\ Status(t)' # "Queued"
  BY <1>2 DEF Ended
<1>4. TopicsOfSession'
  BY <1>1, <1>2, TopicInvColumns DEF TopicsOfSession
<1>5. FocusInTable'
  <2>1. PICK f : f = Focus'
    OBVIOUS
  <2>2. f # NoTopic => Status(f)' # "none"
    <3>1. CASE Focus' = Focus
      <4>1. f # NoTopic => f \in Ids /\ Status(f) # "none"
        BY <2>1, <3>1, TopicInvColumns
      <4>. QED  BY <1>1, <1>3, <4>1
    <3>2. CASE \E u \in Ids : Focus' = u /\ Status(u)' \in Open
      BY <2>1, <3>2 DEF Open
    <3>3. CASE Focus' = NoTopic
      BY <2>1, <3>3
    <3>. QED  BY <3>1, <3>2, <3>3 DEF Finished
  <2>. QED  BY <2>1, <2>2, FocusAt
<1>6. WatchersKnow'
  <2>1. SUFFICES ASSUME NEW u \in Ids
                 PROVE  /\ watcher'[u] # "none" => u <= lastTopic'
                        /\ Status(u)' = "Queued" => watcher'[u] = "none"
                        /\ watcher'[u] = "finish" /\ Status(u)' # "none" => Run(u)' \in Ended
    BY DEF WatchersKnow
  <2>2. CASE u = t
    BY <1>1, <1>2, <1>3, <2>2
  <2>3. CASE u # t
    BY <1>1, <2>3, TopicInvColumns DEF WatchersKnow
  <2>. QED  BY <2>2, <2>3
<1>7. FocusNeverLost'
  <2>1. SUFFICES ASSUME NEW u \in Ids, Status(u)' \in Open
                 PROVE  Focus' # NoTopic
    BY ByColumns DEF FocusByColumns
  <2>2. u # t
    BY <1>3, <2>1 DEF Open
  <2>3. Status(u) \in Open /\ Focus # NoTopic
    BY <1>1, <1>2, <2>1, <2>2, TopicInvColumns DEF FocusByColumns
  <2>4. \A v \in Ids : v # NoTopic
    BY ChatAssumption DEF Ids, NoTopic
  <2>. QED  BY <2>1, <2>3, <2>4 DEF Finished
<1>8. SlotsAreUsed'
  <2>1. PICK R \in SUBSET Ids, P \in SUBSET Ids : R = RunningSet /\ P = PromotingSet
    BY SetsOfTopics
  <2>2. RunningSet' = R \ {t}
    BY <1>1, <1>3, <2>1 DEF RunningSet
  <2>3. t \notin P
    BY <2>1 DEF PromotingSet
  <2>4. PromotingSet' = P \cup {t}
    BY <1>1, <1>3, <2>1 DEF PromotingSet
  <2>5. Queueing' => Queueing
    BY <1>1, <1>3 DEF Queueing
  <2>6. Cardinality(P \cup {t}) = Cardinality(P) + 1
    BY <2>3, GainsExactly
  <2>7. Cardinality(R \ {t}) = Cardinality(R) \/ Cardinality(R \ {t}) = Cardinality(R) - 1
    <3>1. CASE t \in R
      BY <3>1, LosesExactly
    <3>2. CASE t \notin R
      <4>1. R \ {t} = R
        BY <3>2
      <4>. QED  BY <4>1
    <3>. QED  BY <3>1, <3>2
  <2>8. PICK a \in Nat, b \in Nat, c \in Nat :
          a = Cardinality(R) /\ b = Cardinality(P) /\ c = Cardinality(RunningSet)'
    BY <2>1, SetsOfTopics
  <2>9. (c = a \/ c = a - 1) /\ Cardinality(PromotingSet)' = b + 1
    BY <2>2, <2>4, <2>6, <2>7, <2>8
  <2>10. a <= MaxRunning /\ (faults = 0 /\ restarts = 0 /\ Queueing => MaxRunning <= a + b)
    BY <2>1, <2>8, TopicInvColumns DEF SlotsByColumns
  <2>11. c <= MaxRunning /\ (MaxRunning <= a + b => MaxRunning <= c + (b + 1))
    BY <2>8, <2>9, <2>10, ChatAssumption
  <2>. QED  BY <2>5, <2>8, <2>9, <2>10, <2>11, SlotsKept
<1>. QED  BY <1>4, <1>5, <1>6, <1>7, <1>8 DEF TopicsKept

\* A promotion takes the slot it stands for.
LEMMA PromoteKeeps ==
  ASSUME TopicInv, NoneTakenBack, NEW t \in Ids, NEW n \in Ids, watcher[t] = "promote", Promoted(t, n)
  PROVE  TopicsKept
<1>1. n # t /\ lastTopic' = lastTopic /\ Session' = Session /\ Focus' = Focus
      /\ Status(n) = "Queued" /\ Status(n)' = "Running" /\ watcher'[n] = "stream"
      /\ Status(t)' = Status(t) /\ watcher'[t] = "none"
      /\ \A u \in Ids \ {t, n} : Status(u)' = Status(u) /\ Run(u)' = Run(u) /\ watcher'[u] = watcher[u]
  BY DEF Promoted, Untouched
<1>2. watcher[n] = "none" /\ n <= lastTopic /\ Session # 0
  BY <1>1, TopicInvColumns DEF WatchersKnow
<1>3. TopicsOfSession'
  <2>1. SUFFICES ASSUME NEW u \in Ids, Status(u)' # "none"
                 PROVE  Session' # 0 /\ u <= lastTopic'
    BY DEF TopicsOfSession
  <2>2. u # n => Status(u) # "none"
    BY <1>1, <2>1
  <2>. QED  BY <1>1, <1>2, <2>2, TopicInvColumns
<1>4. FocusInTable'
  <2>1. PICK f : f = Focus
    OBVIOUS
  <2>2. f # NoTopic => f \in Ids /\ Status(f) # "none"
    BY <2>1, TopicInvColumns
  <2>3. f # NoTopic => Status(f)' # "none"
    BY <1>1, <2>2
  <2>. QED  BY <1>1, <2>1, <2>3, FocusAt
<1>5. WatchersKnow'
  <2>1. SUFFICES ASSUME NEW u \in Ids
                 PROVE  /\ watcher'[u] # "none" => u <= lastTopic'
                        /\ Status(u)' = "Queued" => watcher'[u] = "none"
                        /\ watcher'[u] = "finish" /\ Status(u)' # "none" => Run(u)' \in Ended
    BY DEF WatchersKnow
  <2>2. CASE u = t
    BY <1>1, <2>2
  <2>3. CASE u = n
    BY <1>1, <1>2, <2>3
  <2>4. CASE u # t /\ u # n
    BY <1>1, <2>4, TopicInvColumns DEF WatchersKnow
  <2>. QED  BY <2>2, <2>3, <2>4
<1>6. FocusNeverLost'
  <2>1. Focus # NoTopic
    BY <1>1, <1>2, TopicInvColumns DEF FocusByColumns, Open
  <2>. QED  BY <1>1, <2>1, ByColumns DEF FocusByColumns
<1>7. SlotsAreUsed'
  <2>1. PICK R \in SUBSET Ids, P \in SUBSET Ids : R = RunningSet /\ P = PromotingSet
    BY SetsOfTopics
  <2>2. RunningSet' = R \cup {n} /\ n \notin R
    BY <1>1, <2>1 DEF RunningSet
  <2>3. PICK Q \in SUBSET Ids : Q = PromotingSet'
    BY SetsOfTopics
  <2>4. P \subseteq Q \cup {t}
    BY <1>1, <1>2, <2>1, <2>3 DEF PromotingSet
  <2>5. Cardinality(P) <= Cardinality(Q) + 1
    BY <2>4, GainsOne
  <2>6. Cardinality(R \cup {n}) = Cardinality(R) + 1
    BY <2>2, GainsExactly
  <2>7. PICK a \in Nat, b \in Nat, c \in Nat :
          a = Cardinality(R) /\ b = Cardinality(P) /\ c = Cardinality(PromotingSet)'
    BY <2>1, SetsOfTopics
  <2>8. Cardinality(RunningSet)' = a + 1 /\ b <= c + 1
    BY <2>2, <2>3, <2>5, <2>6, <2>7
  <2>9. a < MaxRunning /\ (faults = 0 /\ restarts = 0 /\ Queueing => MaxRunning <= a + b)
    BY <2>1, <2>7, TopicInvColumns, ByColumns DEF SlotsByColumns, Promoted
  <2>10. Queueing
    BY <1>1 DEF Queueing
  <2>11. a + 1 <= MaxRunning /\ (MaxRunning <= a + b => MaxRunning <= (a + 1) + c)
    BY <2>7, <2>8, <2>9, ChatAssumption
  <2>. QED  BY <2>7, <2>8, <2>9, <2>10, <2>11, SlotsKept
<1>. QED  BY <1>3, <1>4, <1>5, <1>6, <1>7 DEF TopicsKept

\* A reset leaves no topic to run, to queue or to have the focus.
LEMMA ResetKeeps ==
  ASSUME TopicInv, NoneTakenBack, Cleared
  PROVE  TopicsKept
<1>1. lastTopic' = lastTopic /\ Session' = 0 /\ Focus' = NoTopic
      /\ \A t \in Ids : Status(t)' = "none" /\ watcher'[t] = watcher[t]
  BY DEF Cleared
<1>2. TopicsOfSession'
  BY <1>1 DEF TopicsOfSession
<1>3. FocusInTable'
  BY <1>1 DEF FocusInTable
<1>4. WatchersKnow'
  BY <1>1, TopicInvColumns DEF WatchersKnow
<1>5. FocusNeverLost'
  BY <1>1, ByColumns DEF FocusByColumns
<1>6. SlotsAreUsed'
  <2>1. RunningSet' \subseteq RunningSet /\ ~Queueing'
    BY <1>1 DEF RunningSet, Queueing
  <2>2. PICK R \in SUBSET Ids, S \in SUBSET Ids : R = RunningSet /\ S = RunningSet'
    BY SetsOfTopics
  <2>3. Cardinality(S) <= Cardinality(R)
    BY <2>1, <2>2, Shrinks
  <2>4. Cardinality(RunningSet)' <= MaxRunning
    BY <2>2, <2>3, SetsOfTopics, TopicInvColumns, ChatAssumption DEF SlotsByColumns
  <2>. QED  BY <2>1, <2>4, SlotsKept
<1>. QED  BY <1>2, <1>3, <1>4, <1>5, <1>6 DEF TopicsKept

\* A restart keeps all but the promotions, which SlotsAreUsed leaves out.
LEMMA RestartKeeps ==
  ASSUME TopicInv, Restarted, restarts' # 0
  PROVE  TopicsKept
<1>1. lastTopic' = lastTopic /\ Session' = Session /\ Focus' = Focus
      /\ \A t \in Ids : Status(t)' = Status(t)
                        /\ watcher'[t] = IF Status(t) = "Running" THEN "stream" ELSE "none"
  BY DEF Restarted
<1>2. TopicsOfSession'
  BY <1>1, TopicInvColumns DEF TopicsOfSession
<1>3. FocusInTable'
  <2>1. PICK f : f = Focus
    OBVIOUS
  <2>. QED  BY <1>1, <2>1, TopicInvColumns, FocusAt
<1>4. WatchersKnow'
  BY <1>1, TopicInvColumns DEF WatchersKnow
<1>5. FocusNeverLost'
  BY <1>1, TopicInvColumns, ByColumns DEF FocusByColumns
<1>6. SlotsAreUsed'
  <2>1. RunningSet' = RunningSet
    BY <1>1 DEF RunningSet
  <2>. QED  BY <2>1, TopicInvColumns, ByColumns DEF SlotsByColumns
<1>. QED  BY <1>2, <1>3, <1>4, <1>5, <1>6 DEF TopicsKept

-----------------------------------------------------------------------------
(* The calls *)

Pc(c)       == sender[c].pc
TurnOf(c)   == sender[c].turn
Plan(c)     == sender[c].plan
Sid(c)      == sender[c].sid
Received(c) == sender[c].received
Effect(c)   == sender[c].effect

Pcs     == {"idle", "lock", "apply", "insert", "record", "focus"}
Actions == Ids \cup {NewTopic}
Views   == UNION {[S -> Statuses] : S \in SUBSET Ids}

Call ==
  [pc : Pcs, turn : Turns \cup {NoTurn}, plan : Seq(Actions), view : Views, sid : Nat,
   received : Seq(Ids), focus : Ids \cup {NoTopic}, effect : BOOLEAN]

\* Calls are well formed; one that is to insert has a session and an action to apply,
\* one that records has topics to record.
CallsOK ==
  /\ sender \in [Senders -> Call]
  /\ \A c \in Senders : /\ Pc(c) # "idle" => TurnOf(c) \in Turns
                        /\ Pc(c) = "insert" => Sid(c) # 0 /\ Plan(c) # <<>>
                        /\ Pc(c) = "record" => Received(c) # <<>>

\* A call without a view.
LEMMA NoView == <<>> \in Views
<1>1. <<>> \in [{} -> Statuses]
  OBVIOUS
<1>2. {} \in SUBSET Ids
  OBVIOUS
<1>. QED  BY <1>1, <1>2 DEF Views

\* The columns of an idle call.
LEMMA IdleIsCall ==
  /\ IdleSender \in Call
  /\ IdleSender.pc = "idle" /\ IdleSender.turn = NoTurn /\ IdleSender.plan = <<>>
  /\ IdleSender.sid = 0 /\ IdleSender.received = <<>> /\ IdleSender.effect = FALSE
<1>1. <<>> \in Seq(Actions) /\ <<>> \in Seq(Ids)
  OBVIOUS
<1>2. IdleSender \in Call
  BY <1>1, NoView DEF IdleSender, Call, Pcs
<1>. QED  BY <1>2 DEF IdleSender

\* A step of call c, by its columns; the others stay as they are.
SameCall(d) ==
  /\ Pc(d)' = Pc(d) /\ TurnOf(d)' = TurnOf(d) /\ Plan(d)' = Plan(d)
  /\ Sid(d)' = Sid(d) /\ Received(d)' = Received(d) /\ Effect(d)' = Effect(d)

Became(c, p, u, plan, sid, received, effect) ==
  /\ Pc(c)' = p /\ TurnOf(c)' = u /\ Plan(c)' = plan
  /\ Sid(c)' = sid /\ Received(c)' = received /\ Effect(c)' = effect
  /\ \A d \in Senders \ {c} : SameCall(d)

\* A call's step, by the columns of what it becomes.
LEMMA CallMoves ==
  ASSUME sender \in [Senders -> Call], NEW c \in Senders, NEW k \in Call,
         sender' = [sender EXCEPT ![c] = k]
  PROVE  /\ sender' \in [Senders -> Call]
         /\ Became(c, k.pc, k.turn, k.plan, k.sid, k.received, k.effect)
<1>1. sender' \in [Senders -> Call] /\ sender'[c] = k /\ \A d \in Senders \ {c} : sender'[d] = sender[d]
  OBVIOUS
<1>2. \A d \in Senders \ {c} : SameCall(d)
  BY <1>1 DEF SameCall, Pc, TurnOf, Plan, Sid, Received, Effect
<1>. QED  BY <1>1, <1>2 DEF Became, Pc, TurnOf, Plan, Sid, Received, Effect

\* A call ends, by the columns.
LEMMA IdleMoves ==
  ASSUME sender \in [Senders -> Call], NEW c \in Senders,
         sender' = [sender EXCEPT ![c] = IdleSender]
  PROVE  sender' \in [Senders -> Call] /\ Became(c, "idle", NoTurn, <<>>, 0, <<>>, FALSE)
<1>1. PICK k \in Call : k = IdleSender
  BY IdleIsCall
<1>2. sender' \in [Senders -> Call] /\ Became(c, k.pc, k.turn, k.plan, k.sid, k.received, k.effect)
  BY <1>1, CallMoves
<1>3. k.pc = "idle" /\ k.turn = NoTurn /\ k.plan = <<>> /\ k.sid = 0 /\ k.received = <<>>
      /\ k.effect = FALSE
  BY <1>1, IdleIsCall
<1>. QED  BY <1>2, <1>3

\* The columns of the calls have their types.
LEMMA CallColumns ==
  ASSUME sender \in [Senders -> Call], NEW c \in Senders
  PROVE  /\ sender[c] \in Call /\ Pc(c) \in Pcs /\ TurnOf(c) \in Turns \cup {NoTurn}
         /\ Plan(c) \in Seq(Actions) /\ Sid(c) \in Nat /\ Received(c) \in Seq(Ids)
         /\ Effect(c) \in BOOLEAN
<1>1. sender[c] \in Call
  OBVIOUS
<1>. QED  BY <1>1 DEF Call, Pc, TurnOf, Plan, Sid, Received, Effect

\* The plans of a turn: at least one action, on topics of the table or new ones; a
\* split into new topics only continues none.
LEMMA PlansAre ==
  ASSUME NEW seen \in SUBSET Ids, NEW plan \in Plans(seen)
  PROVE  /\ plan \in Seq(Actions)
         /\ plan # <<>>
<1>1. CASE plan \in [1..1 -> seen \cup {NewTopic}]
  <2>1. PICK n \in Nat : n = 1
    OBVIOUS
  <2>2. plan \in [1..n -> Actions]
    BY <1>1, <2>1 DEF Actions
  <2>3. plan \in Seq(Actions) /\ Len(plan) = n
    BY <2>2
  <2>4. Len(plan) = 1
    BY <2>1, <2>3
  <2>5. plan # <<>>
    BY <2>4
  <2>. QED  BY <2>3, <2>4, <2>5
<1>2. CASE plan \in Splits(seen)
  <2>. DEFINE actions == (IF "new" \in SplitKinds THEN {NewTopic} ELSE {})
                           \cup (IF "continue" \in SplitKinds THEN seen ELSE {})
  <2>1. PICK n \in 2..MaxActions : plan \in [1..n -> actions]
    BY <1>2 DEF Splits
  <2>2. actions \subseteq Actions
    BY DEF Actions
  <2>3. plan \in Seq(Actions) /\ Len(plan) = n /\ n # 0
    BY <2>1, <2>2, ChatAssumption
  <2>. QED  BY <2>1, <2>2, <2>3
<1>. QED  BY <1>1, <1>2 DEF Plans

\* The view of the topics that a plan names.
LEMMA SeenIsView ==
  ASSUME TablesOK, NEW plan \in Seq(Actions)
  PROVE  Seen(plan) \in Views
<1>0. \A i \in DOMAIN plan : plan[i] \in Actions
  OBVIOUS
<1>1. PICK S \in SUBSET Ids : S = {plan[i] : i \in DOMAIN plan} \ {NewTopic}
  BY <1>0, Zenon DEF Actions
<1>2. \A t \in S : topics[t].status \in Statuses
  BY <1>1, Columns DEF Status
<1>3. [t \in S |-> topics[t].status] \in [S -> Statuses]
  BY <1>2
<1>. QED  BY <1>1, <1>3 DEF Seen, Views

\* Calls stay well formed when the one that moves does.
LEMMA CallsStayOK ==
  ASSUME CallsOK, NEW c \in Senders, NEW p, NEW u, NEW plan, NEW sid, NEW received, NEW effect,
         sender' \in [Senders -> Call], Became(c, p, u, plan, sid, received, effect),
         p # "idle" => u \in Turns,
         p = "insert" => sid # 0 /\ plan # <<>>,
         p = "record" => received # <<>>
  PROVE  CallsOK'
<1>1. SUFFICES ASSUME NEW d \in Senders
               PROVE  /\ Pc(d)' # "idle" => TurnOf(d)' \in Turns
                      /\ Pc(d)' = "insert" => Sid(d)' # 0 /\ Plan(d)' # <<>>
                      /\ Pc(d)' = "record" => Received(d)' # <<>>
  BY DEF CallsOK
<1>2. CASE d = c
  BY <1>2 DEF Became
<1>3. CASE d # c
  BY <1>3 DEF Became, SameCall, CallsOK
<1>. QED  BY <1>2, <1>3

\* A call may end at any point.
LEMMA IdleKeepsCalls ==
  ASSUME CallsOK, NEW c \in Senders, sender' = [sender EXCEPT ![c] = IdleSender]
  PROVE  CallsOK' /\ Became(c, "idle", NoTurn, <<>>, 0, <<>>, FALSE)
<1>1. sender' \in [Senders -> Call] /\ Became(c, "idle", NoTurn, <<>>, 0, <<>>, FALSE)
  BY IdleMoves DEF CallsOK
<1>. QED  BY <1>1, CallsStayOK

\* send_turn up to the lock: a plan, and nothing done yet.
LEMMA SendMoves ==
  ASSUME TablesOK, CallsOK, NEW c \in Senders, NEW u \in Turns, SendTurn(c, u)
  PROVE  /\ CallsOK'
         /\ Pc(c) = "idle"
         /\ \E plan \in Seq(Actions) : Became(c, "lock", u, plan, 0, <<>>, FALSE)
<1>1. PICK seen \in SUBSET Ids : seen = With(Open \cup Ended)
  BY DEF With
<1>2. PICK plan \in Plans(seen) :
        sender' = [sender EXCEPT ![c] = [IdleSender EXCEPT !.pc = "lock", !.turn = u, !.plan = plan]]
  BY <1>1 DEF SendTurn
<1>3. plan \in Seq(Actions)
  BY PlansAre
<1>4. PICK k : k = [IdleSender EXCEPT !.pc = "lock", !.turn = u, !.plan = plan]
  OBVIOUS
<1>5. k \in Call
  BY <1>3, <1>4, IdleIsCall DEF Call, Pcs
<1>6. k.pc = "lock" /\ k.turn = u /\ k.plan = plan /\ k.sid = 0 /\ k.received = <<>> /\ k.effect = FALSE
  BY <1>4, IdleIsCall DEF IdleSender
<1>7. sender' \in [Senders -> Call] /\ Became(c, k.pc, k.turn, k.plan, k.sid, k.received, k.effect)
  BY <1>2, <1>4, <1>5, CallMoves DEF CallsOK
<1>8. Became(c, "lock", u, plan, 0, <<>>, FALSE)
  BY <1>6, <1>7
<1>9. CallsOK'
  BY <1>7, <1>8, CallsStayOK
<1>10. Pc(c) = "idle"
  BY DEF SendTurn, Pc
<1>. QED  BY <1>3, <1>8, <1>9, <1>10

\* lock_turn: nobody else delivers the turn; a delivered one is answered from the messages.
LEMMA LockMoves ==
  ASSUME TablesOK, CallsOK, NEW c \in Senders, LockTurn(c)
  PROVE  /\ CallsOK'
         /\ Pc(c) = "lock"
         /\ \A d \in Senders : Delivering(d) => TurnOf(d) # TurnOf(c)
         /\ \/ Became(c, "idle", NoTurn, <<>>, 0, <<>>, FALSE)
            \/ /\ Delivered(TurnOf(c)) = {}
               /\ Became(c, "apply", TurnOf(c), Plan(c), Sid(c), Received(c), Effect(c))
<1>0. Pc(c) = "lock" /\ \A d \in Senders : Delivering(d) => TurnOf(d) # TurnOf(c)
  BY DEF LockTurn, Pc, TurnOf
<1>1. CASE Delivered(sender[c].turn) # {}
  <2>1. sender' = [sender EXCEPT ![c] = IdleSender]
    BY <1>1 DEF LockTurn
  <2>. QED  BY <1>0, <2>1, IdleKeepsCalls
<1>2. CASE Delivered(sender[c].turn) = {}
  <2>1. PICK k : k = [sender[c] EXCEPT !.pc = "apply", !.view = Seen(sender[c].plan)]
    OBVIOUS
  <2>2. sender' = [sender EXCEPT ![c] = k]
    BY <1>2, <2>1 DEF LockTurn
  <2>3. sender[c] \in Call /\ Seen(sender[c].plan) \in Views
    BY SeenIsView, CallColumns DEF CallsOK, Plan
  <2>4. k \in Call
    BY <2>1, <2>3 DEF Call, Pcs
  <2>5. k.pc = "apply" /\ k.turn = TurnOf(c) /\ k.plan = Plan(c) /\ k.sid = Sid(c)
        /\ k.received = Received(c) /\ k.effect = Effect(c)
    BY <2>1, <2>3 DEF Call, TurnOf, Plan, Sid, Received, Effect
  <2>6. sender' \in [Senders -> Call] /\ Became(c, k.pc, k.turn, k.plan, k.sid, k.received, k.effect)
    BY <2>2, <2>4, CallMoves DEF CallsOK
  <2>7. Became(c, "apply", TurnOf(c), Plan(c), Sid(c), Received(c), Effect(c))
    BY <2>5, <2>6
  <2>8. TurnOf(c) \in Turns
    BY <1>0 DEF CallsOK
  <2>9. PICK u, plan, sid, received, effect :
          u = TurnOf(c) /\ plan = Plan(c) /\ sid = Sid(c) /\ received = Received(c) /\ effect = Effect(c)
    OBVIOUS
  <2>10. CallsOK'
    BY <2>6, <2>7, <2>8, <2>9, CallsStayOK
  <2>. QED  BY <1>0, <1>2, <2>7, <2>10 DEF TurnOf
<1>. QED  BY <1>1, <1>2

\* The session is looked up before a topic is created.
LEMMA NewMoves ==
  ASSUME TablesOK, CallsOK, NEW c \in Senders, ApplyNew(c)
  PROVE  /\ CallsOK'
         /\ Pc(c) = "apply"
         /\ Became(c, "insert", TurnOf(c), Plan(c), Session', Received(c), Effect(c))
<1>1. SessionOfUser.id <= MaxSessions /\ session' = SessionOfUser
  BY DEF ApplyNew, OpenSession
<1>2. PICK sid \in Nat : sid = SessionOfUser.id
  BY <1>1, OpenedSession
<1>3. sid # 0 /\ Session' = sid
  BY <1>1, <1>2, OpenedSession DEF Session
<1>4. PICK k : k = [sender[c] EXCEPT !.pc = "insert", !.sid = sid]
  OBVIOUS
<1>5. sender' = [sender EXCEPT ![c] = k] /\ Pc(c) = "apply" /\ Plan(c) # <<>>
  BY <1>2, <1>4 DEF ApplyNew, Pc, Plan
<1>6. sender[c] \in Call
  BY CallColumns DEF CallsOK
<1>7. k \in Call
  BY <1>4, <1>6 DEF Call, Pcs
<1>8. k.pc = "insert" /\ k.turn = TurnOf(c) /\ k.plan = Plan(c) /\ k.sid = sid
      /\ k.received = Received(c) /\ k.effect = Effect(c)
  BY <1>4, <1>6 DEF Call, TurnOf, Plan, Sid, Received, Effect
<1>9. sender' \in [Senders -> Call] /\ Became(c, k.pc, k.turn, k.plan, k.sid, k.received, k.effect)
  BY <1>5, <1>7, CallMoves DEF CallsOK
<1>10. PICK u, plan, received, effect :
         u = TurnOf(c) /\ plan = Plan(c) /\ received = Received(c) /\ effect = Effect(c)
  OBVIOUS
<1>11. Became(c, "insert", u, plan, sid, received, effect)
  BY <1>8, <1>9, <1>10
<1>12. u \in Turns /\ plan # <<>>
  BY <1>5, <1>10 DEF CallsOK
<1>13. CallsOK'
  BY <1>3, <1>9, <1>11, <1>12, CallsStayOK
<1>. QED  BY <1>3, <1>5, <1>10, <1>11, <1>13

\* Applied, by the columns.
LEMMA AppliedIs ==
  ASSUME NEW k \in Call, k.plan # <<>>
  PROVE  /\ Applied(k) \in Call
         /\ Applied(k).pc = "apply" /\ Applied(k).turn = k.turn /\ Applied(k).plan = Tail(k.plan)
         /\ Applied(k).sid = 0 /\ Applied(k).received = k.received /\ Applied(k).effect = k.effect
<1>1. Tail(k.plan) \in Seq(Actions)
  BY DEF Call
<1>. QED  BY <1>1 DEF Applied, Call, Pcs

\* A turn that reaches a topic: the count of its landings.
Landed(u, effect) ==
  landed' = [landed EXCEPT ![u] = IF effect THEN @ ELSE @ + 1]

\* create_topic in a turn: the topic and the landing, or a session that vanished.
LEMMA InsertCallMoves ==
  ASSUME TablesOK, CallsOK, NEW c \in Senders, ApplyInsert(c)
  PROVE  /\ CallsOK'
         /\ Pc(c) = "insert"
         /\ \/ /\ Session = Sid(c)
               /\ InsertTopic(SessionOfUser) /\ SessionOfUser.id <= MaxSessions
               /\ Landed(TurnOf(c), Effect(c))
               /\ Became(c, "apply", TurnOf(c), Tail(Plan(c)), 0, Append(Received(c), lastTopic + 1), TRUE)
            \/ /\ Session # Sid(c)
               /\ UNCHANGED <<topics, session, lastTopic, watcher, landed>>
               /\ Became(c, "idle", NoTurn, <<>>, 0, <<>>, FALSE)
<1>0. Pc(c) = "insert" /\ Sid(c) # 0 /\ Plan(c) # <<>> /\ TurnOf(c) \in Turns
  BY DEF ApplyInsert, Pc, CallsOK
<1>1. CASE session.id = sender[c].sid
  <2>1. InsertTopic(session) /\ Landed(TurnOf(c), Effect(c))
    BY <1>1 DEF ApplyInsert, Lands, Landed, TurnOf, Effect
  <2>2. PICK t \in Ids : t = lastTopic + 1
    <3>1. lastTopic + 1 \in Ids
      BY <2>1, ChatAssumption DEF InsertTopic, TablesOK, Ids
    <3>. QED  BY <3>1
  <2>3. sender[c] \in Call /\ sender[c].plan # <<>>
    BY <1>0, CallColumns DEF CallsOK, Plan
  <2>4. PICK a \in Call : a = Applied(sender[c])
    BY <2>3, AppliedIs
  <2>5. a.pc = "apply" /\ a.turn = TurnOf(c) /\ a.plan = Tail(Plan(c)) /\ a.sid = 0
        /\ a.received = Received(c)
    BY <2>3, <2>4, AppliedIs DEF TurnOf, Plan, Received
  <2>6. PICK k : k = [a EXCEPT !.received = Append(@, t), !.effect = TRUE,
                               !.focus = IF @ = NoTopic THEN t ELSE @]
    OBVIOUS
  <2>7. sender' = [sender EXCEPT ![c] = k]
    BY <1>1, <2>2, <2>4, <2>6 DEF ApplyInsert
  <2>8. Append(a.received, t) \in Seq(Ids)
    BY DEF Call
  <2>9. k \in Call
    BY <2>6, <2>8 DEF Call
  <2>10. k.pc = "apply" /\ k.turn = a.turn /\ k.plan = a.plan /\ k.sid = 0
         /\ k.received = Append(a.received, t) /\ k.effect = TRUE
    BY <2>5, <2>6 DEF Call
  <2>11. sender' \in [Senders -> Call] /\ Became(c, k.pc, k.turn, k.plan, k.sid, k.received, k.effect)
    BY <2>7, <2>9, CallMoves DEF CallsOK
  <2>12. PICK u, plan, received :
           u = TurnOf(c) /\ plan = Tail(Plan(c)) /\ received = Append(Received(c), t)
    OBVIOUS
  <2>13. Became(c, "apply", u, plan, 0, received, TRUE)
    BY <2>5, <2>10, <2>11, <2>12
  <2>14. CallsOK'
    BY <1>0, <2>11, <2>12, <2>13, CallsStayOK
  <2>15. SessionOfUser = session /\ session.id <= MaxSessions /\ Session = Sid(c)
    BY <1>0, <1>1, ChatAssumption DEF SessionOfUser, Sid, TablesOK, Session
  <2>. QED  BY <1>0, <2>1, <2>2, <2>12, <2>13, <2>14, <2>15
<1>2. CASE session.id # sender[c].sid
  <2>1. sender' = [sender EXCEPT ![c] = IdleSender]
        /\ UNCHANGED <<topics, session, lastTopic, watcher, landed>>
    BY <1>2 DEF ApplyInsert
  <2>. QED  BY <1>0, <1>2, <2>1, IdleKeepsCalls DEF Session, Sid
<1>. QED  BY <1>1, <1>2

\* apply_continue: the topic is told, takes the turn as it is, or refuses it.
LEMMA ContinueMoves ==
  ASSUME TablesOK, CallsOK, NEW c \in Senders, ApplyContinue(c)
  PROVE  /\ CallsOK'
         /\ Pc(c) = "apply" /\ Plan(c) # <<>> /\ Head(Plan(c)) # NewTopic
         /\ \/ /\ Head(Plan(c)) \in Ids /\ Status(Head(Plan(c))) # "none"
               /\ Landed(TurnOf(c), Effect(c))
               /\ Became(c, "apply", TurnOf(c), Tail(Plan(c)), 0, Append(Received(c), Head(Plan(c))), TRUE)
            \/ /\ landed' = landed /\ Head(Plan(c)) \in Ids
               /\ Became(c, "apply", TurnOf(c), Tail(Plan(c)), 0,
                         Append(Received(c), Head(Plan(c))), Effect(c))
            \/ /\ landed' = landed
               /\ Became(c, "apply", TurnOf(c), Tail(Plan(c)), 0, Received(c), Effect(c))
<1>0. Pc(c) = "apply" /\ Plan(c) # <<>> /\ Head(Plan(c)) # NewTopic
  BY DEF ApplyContinue, Pc, Plan
<1>1. sender[c] \in Call /\ sender[c].plan # <<>> /\ TurnOf(c) \in Turns
  BY <1>0, CallColumns DEF CallsOK, Plan
<1>2. PICK t \in Ids : t = Head(Plan(c))
  <2>1. Head(Plan(c)) \in Actions
    BY <1>0, CallColumns DEF CallsOK
  <2>. QED  BY <1>0, <2>1 DEF Actions
<1>3. PICK a \in Call : a = Applied(sender[c])
  BY <1>1, AppliedIs
<1>4. a.pc = "apply" /\ a.turn = TurnOf(c) /\ a.plan = Tail(Plan(c)) /\ a.sid = 0
      /\ a.received = Received(c) /\ a.effect = Effect(c)
  BY <1>1, <1>3, AppliedIs DEF TurnOf, Plan, Received, Effect
<1>5. PICK u, plan, received, appended, effect :
        u = TurnOf(c) /\ plan = Tail(Plan(c)) /\ received = Received(c)
        /\ appended = Append(Received(c), t) /\ effect = Effect(c)
  OBVIOUS
<1>6. Append(a.received, t) \in Seq(Ids)
  BY DEF Call
<1>7. CASE InTable(t) /\ Lands(c)
           /\ sender' = [sender EXCEPT ![c] = [a EXCEPT !.received = Append(@, t), !.effect = TRUE]]
  <2>1. PICK k : k = [a EXCEPT !.received = Append(@, t), !.effect = TRUE]
    OBVIOUS
  <2>2. k \in Call
    BY <1>6, <2>1 DEF Call
  <2>3. k.pc = a.pc /\ k.turn = a.turn /\ k.plan = a.plan /\ k.sid = a.sid
        /\ k.received = Append(a.received, t) /\ k.effect = TRUE
    BY <2>1 DEF Call
  <2>4. sender' \in [Senders -> Call] /\ Became(c, k.pc, k.turn, k.plan, k.sid, k.received, k.effect)
    BY <1>7, <2>1, <2>2, CallMoves DEF CallsOK
  <2>5. Became(c, "apply", u, plan, 0, appended, TRUE)
    BY <1>4, <1>5, <2>3, <2>4
  <2>6. CallsOK'
    BY <1>1, <1>5, <2>4, <2>5, CallsStayOK
  <2>7. Status(t) # "none" /\ Landed(TurnOf(c), Effect(c))
    BY <1>7 DEF InTable, Status, Lands, Landed, TurnOf, Effect
  <2>. QED  BY <1>0, <1>2, <1>5, <2>5, <2>6, <2>7
<1>8. CASE landed' = landed /\ sender' = [sender EXCEPT ![c] = [a EXCEPT !.received = Append(@, t)]]
  <2>1. PICK k : k = [a EXCEPT !.received = Append(@, t)]
    OBVIOUS
  <2>2. k \in Call
    BY <1>6, <2>1 DEF Call
  <2>3. k.pc = a.pc /\ k.turn = a.turn /\ k.plan = a.plan /\ k.sid = a.sid
        /\ k.received = Append(a.received, t) /\ k.effect = a.effect
    BY <2>1 DEF Call
  <2>4. sender' \in [Senders -> Call] /\ Became(c, k.pc, k.turn, k.plan, k.sid, k.received, k.effect)
    BY <1>8, <2>1, <2>2, CallMoves DEF CallsOK
  <2>5. Became(c, "apply", u, plan, 0, appended, effect)
    BY <1>4, <1>5, <2>3, <2>4
  <2>6. CallsOK'
    BY <1>1, <1>5, <2>4, <2>5, CallsStayOK
  <2>. QED  BY <1>0, <1>2, <1>5, <1>8, <2>5, <2>6
<1>9. CASE landed' = landed /\ sender' = [sender EXCEPT ![c] = a]
  <2>1. sender' \in [Senders -> Call] /\ Became(c, a.pc, a.turn, a.plan, a.sid, a.received, a.effect)
    BY <1>9, CallMoves DEF CallsOK
  <2>2. Became(c, "apply", u, plan, 0, received, effect)
    BY <1>4, <1>5, <2>1
  <2>3. CallsOK'
    BY <1>1, <1>5, <2>1, <2>2, CallsStayOK
  <2>. QED  BY <1>0, <1>5, <1>9, <2>2, <2>3
<1>10. t = Head(sender[c].plan)
  BY <1>2 DEF Plan
<1>. QED  BY <1>3, <1>7, <1>8, <1>9, <1>10, Zenon DEF ApplyContinue

\* apply_actions is through.
LEMMA AllAppliedMoves ==
  ASSUME CallsOK, NEW c \in Senders, AllApplied(c)
  PROVE  /\ CallsOK'
         /\ Pc(c) = "apply" /\ Plan(c) = <<>>
         /\ \/ /\ Received(c) = <<>>
               /\ Became(c, "idle", NoTurn, <<>>, 0, <<>>, FALSE)
            \/ /\ Received(c) # <<>>
               /\ Became(c, "record", TurnOf(c), Plan(c), Sid(c), Received(c), Effect(c))
<1>0. Pc(c) = "apply" /\ Plan(c) = <<>> /\ TurnOf(c) \in Turns
  BY DEF AllApplied, Pc, Plan, CallsOK
<1>1. CASE sender[c].received = <<>>
  <2>1. sender' = [sender EXCEPT ![c] = IdleSender]
    BY <1>1 DEF AllApplied
  <2>. QED  BY <1>0, <1>1, <2>1, IdleKeepsCalls DEF Received
<1>2. CASE sender[c].received # <<>>
  <2>1. PICK k : k = [sender[c] EXCEPT !.pc = "record", !.view = <<>>]
    OBVIOUS
  <2>2. sender' = [sender EXCEPT ![c] = k]
    BY <1>2, <2>1 DEF AllApplied
  <2>3. sender[c] \in Call
    BY CallColumns DEF CallsOK
  <2>4. k \in Call
    BY <2>1, <2>3, NoView DEF Call, Pcs
  <2>5. k.pc = "record" /\ k.turn = TurnOf(c) /\ k.plan = Plan(c) /\ k.sid = Sid(c)
        /\ k.received = Received(c) /\ k.effect = Effect(c)
    BY <2>1, <2>3 DEF Call, TurnOf, Plan, Sid, Received, Effect
  <2>6. sender' \in [Senders -> Call] /\ Became(c, k.pc, k.turn, k.plan, k.sid, k.received, k.effect)
    BY <2>2, <2>4, CallMoves DEF CallsOK
  <2>7. PICK u, plan, sid, received, effect :
          u = TurnOf(c) /\ plan = Plan(c) /\ sid = Sid(c) /\ received = Received(c) /\ effect = Effect(c)
    OBVIOUS
  <2>8. Became(c, "record", u, plan, sid, received, effect)
    BY <2>5, <2>6, <2>7
  <2>9. Received(c) # <<>>
    BY <1>2 DEF Received
  <2>10. CallsOK'
    BY <1>0, <2>6, <2>7, <2>8, <2>9, CallsStayOK
  <2>. QED  BY <1>0, <2>7, <2>8, <2>9, <2>10
<1>. QED  BY <1>1, <1>2

\* record_turn, one topic at a time.
LEMMA RecordMoves ==
  ASSUME CallsOK, NEW c \in Senders, RecordTurn(c)
  PROVE  /\ CallsOK'
         /\ Pc(c) = "record" /\ Received(c) # <<>>
         /\ messages' = messages \cup {<<TurnOf(c), Head(Received(c))>>}
         /\ \/ /\ Tail(Received(c)) = <<>>
               /\ Became(c, "focus", TurnOf(c), Plan(c), Sid(c), Tail(Received(c)), Effect(c))
            \/ /\ Tail(Received(c)) # <<>>
               /\ Became(c, "record", TurnOf(c), Plan(c), Sid(c), Tail(Received(c)), Effect(c))
<1>0. Pc(c) = "record" /\ Received(c) # <<>> /\ TurnOf(c) \in Turns
      /\ messages' = messages \cup {<<TurnOf(c), Head(Received(c))>>}
  BY DEF RecordTurn, Pc, Received, TurnOf, CallsOK
<1>1. PICK p \in Pcs : p = IF Tail(sender[c].received) = <<>> THEN "focus" ELSE "record"
  BY DEF Pcs
<1>2. PICK k : k = [sender[c] EXCEPT !.received = Tail(@), !.pc = p]
  OBVIOUS
<1>3. sender' = [sender EXCEPT ![c] = k]
  BY <1>1, <1>2 DEF RecordTurn
<1>4. sender[c] \in Call
  BY CallColumns DEF CallsOK
<1>5. Tail(sender[c].received) \in Seq(Ids)
  BY <1>0, <1>4 DEF Call, Received
<1>6. k \in Call
  BY <1>2, <1>4, <1>5 DEF Call
<1>7. k.pc = p /\ k.turn = TurnOf(c) /\ k.plan = Plan(c) /\ k.sid = Sid(c)
      /\ k.received = Tail(Received(c)) /\ k.effect = Effect(c)
  BY <1>2, <1>4 DEF Call, TurnOf, Plan, Sid, Received, Effect
<1>8. sender' \in [Senders -> Call] /\ Became(c, k.pc, k.turn, k.plan, k.sid, k.received, k.effect)
  BY <1>3, <1>6, CallMoves DEF CallsOK
<1>9. PICK u, plan, sid, received, effect :
        u = TurnOf(c) /\ plan = Plan(c) /\ sid = Sid(c) /\ received = Tail(Received(c))
        /\ effect = Effect(c)
  OBVIOUS
<1>10. Became(c, p, u, plan, sid, received, effect)
  BY <1>7, <1>8, <1>9
<1>11. p = IF received = <<>> THEN "focus" ELSE "record"
  BY <1>1, <1>9 DEF Received
<1>12. CallsOK'
  <2>1. (p # "idle" => u \in Turns) /\ (p = "insert" => sid # 0 /\ plan # <<>>)
        /\ (p = "record" => received # <<>>)
    BY <1>0, <1>9, <1>11
  <2>. QED  BY <1>8, <1>10, <2>1, CallsStayOK
<1>. QED  BY <1>0, <1>9, <1>10, <1>11, <1>12

\* No call survives a restart.
LEMMA RestartCalls ==
  ASSUME Restart
  PROVE  CallsOK'
<1>1. sender' = [c \in Senders |-> IdleSender]
  BY DEF Restart
<1>2. sender' \in [Senders -> Call] /\ \A c \in Senders : Pc(c)' = "idle"
  BY <1>1, IdleIsCall DEF Pc
<1>. QED  BY <1>2 DEF CallsOK

\* Steps of others leave the calls alone.
LEMMA SameCalls ==
  ASSUME CallsOK, sender' = sender
  PROVE  CallsOK' /\ \A c \in Senders : SameCall(c)
BY DEF CallsOK, SameCall, Pc, TurnOf, Plan, Sid, Received, Effect

-----------------------------------------------------------------------------
(* Every step keeps the tables *)

\* The counters' types and directions.
CountersKept == opened' \in Nat /\ faults' \in Nat /\ restarts' \in Nat /\ NoneTakenBack

\* The parts of the invariant at the next step, put together.
LEMMA TablesNext ==
  ASSUME TypedNext, CountersKept, TopicsKept
  PROVE  TopicInv'
BY DEF TypedNext, CountersKept, TopicsKept, TopicInv, TablesOK

\* A failure is counted.
LEMMA FailsCounts ==
  ASSUME TablesOK, Fails, restarts' = restarts, opened' = opened
  PROVE  CountersKept /\ faults' # 0
BY DEF Fails, CountersKept, NoneTakenBack, TablesOK

\* A step that counts nothing.
LEMMA QuietCounts ==
  ASSUME TablesOK, UNCHANGED <<opened, faults, restarts>>
  PROVE  CountersKept
BY DEF CountersKept, NoneTakenBack, TablesOK

\* A session that is opened is counted.
LEMMA OpenCounts ==
  ASSUME TablesOK, SessionOfUser.id <= MaxSessions, opened' = SessionOfUser.id,
         UNCHANGED <<faults, restarts>>
  PROVE  CountersKept
<1>1. SessionOfUser.id \in Nat
  BY OpenedSession
<1>. QED  BY <1>1 DEF CountersKept, NoneTakenBack, TablesOK

\* The watchers keep the invariant of the tables.
LEMMA WatchKeepsTables ==
  ASSUME TopicInv, NEW t \in Ids, Watch(t)
  PROVE  TopicInv'
<1>0. TablesOK /\ WatchersKnow
  BY DEF TopicInv
<1>1. CountersKept
  <2>1. UNCHANGED <<opened, faults, restarts>>
    BY DEF Watch, StreamTerminal, WaitBeforeReconnect, FinishTopic, PromoteNextQueued
  <2>. QED  BY <1>0, <2>1, QuietCounts
<1>2. NoneTakenBack
  BY <1>1 DEF CountersKept
<1>3. CASE StreamTerminal(t)
  <2>1. watcher[t] = "stream" /\ Run(t) \in Ended /\ watcher' = [watcher EXCEPT ![t] = "finish"]
        /\ UNCHANGED <<topics, session, lastTopic>>
    BY <1>3 DEF StreamTerminal, Run
  <2>2. TypedNext /\ Rewatched(t, "finish")
    BY <1>0, <2>1, WatcherMoves DEF Watching
  <2>3. TopicsKept
    BY <1>2, <2>1, <2>2, RewatchKeeps DEF Watching
  <2>. QED  BY <1>1, <2>2, <2>3, TablesNext
<1>4. CASE WaitBeforeReconnect(t)
  <2>1. PICK w \in Watching : w = IF topics[t].status = "Running" THEN "stream" ELSE "none"
    BY DEF Watching
  <2>2. watcher[t] = "closed" /\ watcher' = [watcher EXCEPT ![t] = w]
        /\ UNCHANGED <<topics, session, lastTopic>>
    BY <1>4, <2>1 DEF WaitBeforeReconnect
  <2>3. TypedNext /\ Rewatched(t, w)
    BY <1>0, <2>2, WatcherMoves
  <2>4. TopicsKept
    BY <1>2, <2>1, <2>2, <2>3, RewatchKeeps
  <2>. QED  BY <1>1, <2>3, <2>4, TablesNext
<1>5. CASE FinishTopic(t)
  <2>1. TypedNext /\ (Finished(t) \/ (Status(t) = "none" /\ Rewatched(t, "none")))
    BY <1>0, <1>5, FinishMoves
  <2>2. watcher[t] = "finish"
    BY <1>5 DEF FinishTopic
  <2>3. Finished(t) => TopicsKept
    BY <1>2, <2>2, FinishKeeps
  <2>4. Status(t) = "none" /\ Rewatched(t, "none") => TopicsKept
    BY <1>2, <2>2, RewatchKeeps DEF Watching
  <2>. QED  BY <1>1, <2>1, <2>3, <2>4, TablesNext
<1>6. CASE PromoteNextQueued(t)
  <2>1. TypedNext /\ \/ \E n \in Ids : Promoted(t, n)
                     \/ /\ Rewatched(t, "none")
                        /\ \/ Status(t) = "none"
                           \/ AdmissionStatus = "Queued"
                           \/ \A u \in Ids : Status(u) # "Queued"
    BY <1>0, <1>6, PromoteMoves
  <2>2. watcher[t] = "promote"
    BY <1>6 DEF PromoteNextQueued
  <2>3. ASSUME NEW n \in Ids, Promoted(t, n)
        PROVE  TopicsKept
    BY <1>2, <2>2, <2>3, PromoteKeeps
  <2>4. Rewatched(t, "none") /\ (Status(t) = "none" \/ AdmissionStatus = "Queued"
                                   \/ \A u \in Ids : Status(u) # "Queued") => TopicsKept
    BY <1>2, <2>2, RewatchKeeps DEF Watching
  <2>. QED  BY <1>1, <2>1, <2>3, <2>4, TablesNext
<1>. QED  BY <1>3, <1>4, <1>5, <1>6 DEF Watch

\* The turns keep the invariant of the tables, and the calls stay well formed.
LEMMA TurnKeepsTables ==
  ASSUME TopicInv, CallsOK, NEW c \in Senders, Turn(c)
  PROVE  TopicInv' /\ CallsOK'
<1>0. TablesOK
  BY DEF TopicInv
<1>a. ASSUME TypedNext, Stays, CountersKept
      PROVE  TopicInv'
  BY <1>a, StaysKeeps, TablesNext DEF CountersKept
<1>b. ASSUME OpenSession, UNCHANGED <<topics, lastTopic, watcher, faults, restarts>>
      PROVE  TopicInv'
  <2>1. TypedNext /\ Stays
    BY <1>0, <1>b, OpenMoves
  <2>2. CountersKept
    BY <1>0, <1>b, OpenCounts DEF OpenSession
  <2>. QED  BY <1>a, <2>1, <2>2
<1>c. ASSUME UNCHANGED <<topics, session, lastTopic, watcher, opened, faults, restarts>>
      PROVE  TopicInv'
  <2>1. TypedNext /\ Stays
    BY <1>0, <1>c, QuietMoves
  <2>2. CountersKept
    BY <1>0, <1>c, QuietCounts
  <2>. QED  BY <1>a, <2>1, <2>2
<1>1. ASSUME NEW u \in Turns, SendTurn(c, u)
      PROVE  TopicInv' /\ CallsOK'
  <2>1. CallsOK'
    BY <1>0, <1>1, SendMoves
  <2>2. OpenSession /\ UNCHANGED <<topics, lastTopic, watcher, faults, restarts>>
    BY <1>1 DEF SendTurn
  <2>. QED  BY <1>b, <2>1, <2>2
<1>2. CASE LockTurn(c)
  <2>1. CallsOK'
    BY <1>0, <1>2, LockMoves
  <2>2. OpenSession /\ UNCHANGED <<topics, lastTopic, watcher, faults, restarts>>
    BY <1>2 DEF LockTurn
  <2>. QED  BY <1>b, <2>1, <2>2
<1>3. CASE ApplyNew(c)
  <2>1. CallsOK'
    BY <1>0, <1>3, NewMoves
  <2>2. OpenSession /\ UNCHANGED <<topics, lastTopic, watcher, faults, restarts>>
    BY <1>3 DEF ApplyNew
  <2>. QED  BY <1>b, <2>1, <2>2
<1>4. CASE ApplyInsert(c)
  <2>1. CallsOK' /\ \/ InsertTopic(SessionOfUser) /\ SessionOfUser.id <= MaxSessions
                    \/ UNCHANGED <<topics, session, lastTopic, watcher>>
    BY <1>0, <1>4, InsertCallMoves
  <2>2. UNCHANGED <<opened, faults, restarts>>
    BY <1>4 DEF ApplyInsert
  <2>3. CountersKept
    BY <1>0, <2>2, QuietCounts
  <2>4. CASE InsertTopic(SessionOfUser) /\ SessionOfUser.id <= MaxSessions
    <3>1. TypedNext /\ \E n \in Ids : Inserted(n)
      BY <1>0, <2>4, InsertMoves
    <3>2. TopicsKept
      BY <2>3, <3>1, InsertKeeps DEF CountersKept
    <3>. QED  BY <2>1, <2>3, <3>1, <3>2, TablesNext
  <2>5. CASE UNCHANGED <<topics, session, lastTopic, watcher>>
    BY <1>c, <2>1, <2>2, <2>5
  <2>. QED  BY <2>1, <2>4, <2>5
<1>5. CASE ApplyContinue(c)
  <2>1. CallsOK'
    BY <1>0, <1>5, ContinueMoves
  <2>2. UNCHANGED <<topics, session, lastTopic, watcher, opened, faults, restarts>>
    BY <1>5 DEF ApplyContinue
  <2>. QED  BY <1>c, <2>1, <2>2
<1>6. CASE ApplyBusy(c)
  <2>1. sender' = [sender EXCEPT ![c] = IdleSender]
        /\ UNCHANGED <<topics, session, lastTopic, watcher, opened, faults, restarts>>
    BY <1>6 DEF ApplyBusy
  <2>. QED  BY <1>c, <2>1, IdleKeepsCalls
<1>7. CASE AllApplied(c)
  <2>1. CallsOK'
    BY <1>7, AllAppliedMoves
  <2>2. UNCHANGED <<topics, session, lastTopic, watcher, opened, faults, restarts>>
    BY <1>7 DEF AllApplied
  <2>. QED  BY <1>c, <2>1, <2>2
<1>8. CASE RecordTurn(c)
  <2>1. CallsOK'
    BY <1>8, RecordMoves
  <2>2. UNCHANGED <<topics, session, lastTopic, watcher, opened, faults, restarts>>
    BY <1>8 DEF RecordTurn
  <2>. QED  BY <1>c, <2>1, <2>2
<1>9. CASE TurnDone(c)
  <2>1. sender' = [sender EXCEPT ![c] = IdleSender] /\ Refocus(sender[c].focus)
        /\ UNCHANGED <<topics, lastTopic, watcher, opened, faults, restarts>>
    BY <1>9 DEF TurnDone
  <2>2. PICK f : f = sender[c].focus
    OBVIOUS
  <2>3. TypedNext /\ Stays
    BY <1>0, <2>1, <2>2, RefocusMoves
  <2>4. CountersKept
    BY <1>0, <2>1, QuietCounts
  <2>. QED  BY <1>a, <2>1, <2>3, <2>4, IdleKeepsCalls
<1>. QED  BY <1>1, <1>2, <1>3, <1>4, <1>5, <1>6, <1>7, <1>8, <1>9 DEF Turn

\* The invariant of the tables is inductive, with the calls well formed.
LEMMA TopicsStep ==
  ASSUME TopicInv, CallsOK, [Next]_vars
  PROVE  TopicInv' /\ CallsOK'
<1>0. TablesOK
  BY DEF TopicInv
<1>a. ASSUME TypedNext, Stays, CountersKept
      PROVE  TopicInv'
  BY <1>a, StaysKeeps, TablesNext DEF CountersKept
<1>1. CASE CreateTopic
  <2>1. InsertTopic(SessionOfUser) /\ SessionOfUser.id <= MaxSessions /\ opened' = SessionOfUser.id
        /\ UNCHANGED <<sender, faults, restarts>>
    BY <1>1 DEF CreateTopic
  <2>2. TypedNext /\ \E n \in Ids : Inserted(n)
    BY <1>0, <2>1, InsertMoves
  <2>3. CountersKept
    BY <1>0, <2>1, OpenCounts
  <2>4. TopicsKept
    BY <2>2, <2>3, InsertKeeps DEF CountersKept
  <2>. QED  BY <2>1, <2>2, <2>3, <2>4, TablesNext, SameCalls
<1>2. ASSUME NEW t \in Ids, SetFocus(t)
      PROVE  TopicInv' /\ CallsOK'
  <2>1. Refocus(t) /\ UNCHANGED <<topics, lastTopic, watcher, sender, opened, faults, restarts>>
    BY <1>2 DEF SetFocus
  <2>2. TypedNext /\ Stays
    BY <1>0, <2>1, RefocusMoves
  <2>3. CountersKept
    BY <1>0, <2>1, QuietCounts
  <2>. QED  BY <1>a, <2>1, <2>2, <2>3, SameCalls
<1>3. CASE ResetSession
  <2>1. UNCHANGED <<sender, opened, faults, restarts>>
    BY <1>3 DEF ResetSession
  <2>2. TypedNext /\ Cleared
    BY <1>0, <1>3, ResetMoves
  <2>3. CountersKept
    BY <1>0, <2>1, QuietCounts
  <2>4. TopicsKept
    BY <2>2, <2>3, ResetKeeps DEF CountersKept
  <2>. QED  BY <2>1, <2>2, <2>3, <2>4, TablesNext, SameCalls
<1>4. ASSUME NEW t \in Ids, ExecutionEnds(t)
      PROVE  TopicInv' /\ CallsOK'
  <2>1. UNCHANGED <<sender, opened, faults, restarts>>
    BY <1>4 DEF ExecutionEnds
  <2>2. TypedNext /\ RunEnded(t)
    BY <1>0, <1>4, EndMoves
  <2>3. CountersKept
    BY <1>0, <2>1, QuietCounts
  <2>4. TopicsKept
    BY <2>2, <2>3, EndKeeps DEF CountersKept
  <2>. QED  BY <2>1, <2>2, <2>3, <2>4, TablesNext, SameCalls
<1>5. ASSUME NEW t \in Ids, Watch(t)
      PROVE  TopicInv' /\ CallsOK'
  <2>1. sender' = sender
    BY <1>5 DEF Watch, StreamTerminal, WaitBeforeReconnect, FinishTopic, PromoteNextQueued
  <2>. QED  BY <1>5, <2>1, WatchKeepsTables, SameCalls
<1>6. ASSUME NEW t \in Ids, StreamEnds(t)
      PROVE  TopicInv' /\ CallsOK'
  <2>1. watcher[t] = "stream" /\ watcher' = [watcher EXCEPT ![t] = "closed"]
        /\ UNCHANGED <<topics, session, lastTopic, sender, opened, faults, restarts>>
    BY <1>6 DEF StreamEnds
  <2>2. TypedNext /\ Rewatched(t, "closed")
    BY <1>0, <2>1, WatcherMoves DEF Watching
  <2>3. CountersKept
    BY <1>0, <2>1, QuietCounts
  <2>4. TopicsKept
    BY <2>1, <2>2, <2>3, RewatchKeeps DEF CountersKept, Watching
  <2>. QED  BY <2>1, <2>2, <2>3, <2>4, TablesNext, SameCalls
<1>7. ASSUME NEW t \in Ids, WatcherFails(t)
      PROVE  TopicInv' /\ CallsOK'
  <2>1. watcher[t] # "none" /\ Fails /\ watcher' = [watcher EXCEPT ![t] = "none"]
        /\ UNCHANGED <<topics, session, lastTopic, sender, opened, restarts>>
    BY <1>7 DEF WatcherFails
  <2>2. TypedNext /\ Rewatched(t, "none")
    BY <1>0, <2>1, WatcherMoves DEF Watching
  <2>3. CountersKept /\ faults' # 0
    BY <1>0, <2>1, FailsCounts
  <2>4. TopicsKept
    BY <2>1, <2>2, <2>3, RewatchKeeps DEF CountersKept, Watching
  <2>. QED  BY <2>1, <2>2, <2>3, <2>4, TablesNext, SameCalls
<1>8. ASSUME NEW c \in Senders, Turn(c)
      PROVE  TopicInv' /\ CallsOK'
  BY <1>8, TurnKeepsTables
<1>9. ASSUME NEW c \in Senders, TurnFails(c)
      PROVE  TopicInv' /\ CallsOK'
  <2>1. Fails /\ sender' = [sender EXCEPT ![c] = IdleSender]
        /\ UNCHANGED <<topics, session, lastTopic, watcher, opened, restarts>>
    BY <1>9 DEF TurnFails
  <2>2. TypedNext /\ Stays
    BY <1>0, <2>1, QuietMoves
  <2>3. CountersKept
    BY <1>0, <2>1, FailsCounts
  <2>. QED  BY <1>a, <2>1, <2>2, <2>3, IdleKeepsCalls
<1>10. CASE Restart
  <2>1. TypedNext /\ Restarted
    BY <1>0, <1>10, RestartMoves
  <2>2. restarts' = restarts + 1 /\ UNCHANGED <<opened, faults>>
    BY <1>10 DEF Restart
  <2>3. CountersKept /\ restarts' # 0
    BY <1>0, <2>2 DEF CountersKept, NoneTakenBack, TablesOK
  <2>4. TopicsKept
    BY <2>1, <2>3, RestartKeeps
  <2>. QED  BY <1>10, <2>1, <2>3, <2>4, TablesNext, RestartCalls
<1>11. CASE UNCHANGED vars
  <2>1. UNCHANGED <<topics, session, lastTopic, watcher, sender, opened, faults, restarts>>
    BY <1>11 DEF vars
  <2>2. TypedNext /\ Stays
    BY <1>0, <2>1, QuietMoves
  <2>3. CountersKept
    BY <1>0, <2>1, QuietCounts
  <2>. QED  BY <1>a, <2>1, <2>2, <2>3, SameCalls
<1>. QED
  BY <1>1, <1>2, <1>3, <1>4, <1>5, <1>6, <1>7, <1>8, <1>9, <1>10, <1>11 DEF Next

\* The invariants hold of the empty tables.
LEMMA TopicsInit ==
  ASSUME Init
  PROVE  TopicInv /\ CallsOK
<1>1. topics = [t \in Ids |-> Absent] /\ session = [id |-> 0, focus |-> NoTopic] /\ lastTopic = 0
      /\ watcher = [t \in Ids |-> "none"] /\ sender = [c \in Senders |-> IdleSender]
      /\ opened = 0 /\ faults = 0 /\ restarts = 0
  BY DEF Init
<1>2. Absent \in Topic /\ Absent.status = "none"
  BY DEF Absent, Topic
<1>3. TablesOK
  BY <1>1, <1>2, ChatAssumption DEF TablesOK, Watching
<1>4. Session = 0 /\ Focus = NoTopic /\ \A t \in Ids : Status(t) = "none" /\ watcher[t] = "none"
  BY <1>1, <1>2 DEF Session, Focus, Status
<1>5. TopicsOfSession /\ FocusInTable /\ WatchersKnow
  BY <1>4 DEF TopicsOfSession, FocusInTable, WatchersKnow
<1>6. FocusNeverLost
  BY <1>4, ByColumns DEF FocusByColumns
<1>7. SlotsAreUsed
  <2>1. RunningSet = {} /\ ~Queueing
    BY <1>4 DEF RunningSet, Queueing
  <2>2. Cardinality(RunningSet) = 0
    BY <2>1, FS_EmptySet
  <2>3. Cardinality(RunningSet) <= MaxRunning
    BY <2>2, ChatAssumption
  <2>. QED  BY <2>1, <2>3, ByColumns DEF SlotsByColumns
<1>8. sender \in [Senders -> Call] /\ \A c \in Senders : Pc(c) = "idle"
  BY <1>1, IdleIsCall DEF Pc
<1>9. CallsOK
  BY <1>8 DEF CallsOK
<1>. QED  BY <1>3, <1>5, <1>6, <1>7, <1>9 DEF TopicInv

\* The invariant of the tables and of the calls.
LEMMA TopicsInvariant == Spec => [](TopicInv /\ CallsOK)
<1>1. Init => TopicInv /\ CallsOK
  BY TopicsInit
<1>2. (TopicInv /\ CallsOK) /\ [Next]_vars => (TopicInv /\ CallsOK)'
  BY TopicsStep
<1>. QED  BY <1>1, <1>2, PTL DEF Spec

\* While a topic is unfinished the focus is somewhere, whatever number of topics are
\* created, finished, promoted and reset around it (move_focus_off_completed, insert_topic).
THEOREM FocusIsKept == Spec => []FocusNeverLost
<1>1. TopicInv /\ CallsOK => FocusNeverLost
  BY DEF TopicInv
<1>. QED  BY <1>1, TopicsInvariant, PTL

\* No more than MAX_CONCURRENT_TOPICS run, and every free slot has a promotion under way
\* while topics are queued and nothing has failed (admission_status, promote_next_queued).
THEOREM SlotsAreHandedOn == Spec => []SlotsAreUsed
<1>1. TopicInv /\ CallsOK => SlotsAreUsed
  BY DEF TopicInv
<1>. QED  BY <1>1, TopicsInvariant, PTL

-----------------------------------------------------------------------------
(* Turns: what keeps a second effect away *)

\* The call holds the turn's lock.
Holding(c) == Pc(c) \in {"apply", "insert", "record", "focus"}

\* The turn is in the messages of a topic that is still there.
Stored(u) == \E t \in Ids : Status(t) # "none" /\ <<u, t>> \in messages

\* One of the topics is still there.
Reached(r) == \E i \in 1..Len(r) : Status(r[i]) # "none"

\* One landing of the turn was not cut half way, and no other is outstanding.
Counted(u) == landed[u] # torn[u]
Tally(u)   == landed[u] = torn[u] \/ landed[u] = torn[u] + 1

Counting == landed \in [Turns -> Nat] /\ torn \in [Turns -> Nat]
SameCount(u) == landed'[u] = landed[u] /\ torn'[u] = torn[u]

\* What a call that holds the lock may rely on while a landing of its turn counts: the
\* landing is its own, it is recorded or is yet to be for a topic that is still there, and
\* the session it looked up has not vanished.
Knows(u, p, e, s, r) ==
  Counted(u) =>
    /\ e = TRUE
    /\ Stored(u) \/ (p # "focus" /\ Reached(r))
    /\ p = "insert" => Session = s

HolderKnows(c) == Knows(TurnOf(c), Pc(c), Effect(c), Sid(c), Received(c))

\* A landing that counts is recorded, or in the hands of the call that had it.
Accounted(u) == Stored(u) \/ \E c \in Senders : Holding(c) /\ TurnOf(c) = u

OneHolder ==
  \A c, d \in Senders : Holding(c) /\ Holding(d) /\ TurnOf(c) = TurnOf(d) => c = d

Once ==
  /\ OneHolder
  /\ \A c \in Senders : Holding(c) => HolderKnows(c)
  /\ \A u \in Turns : Tally(u) /\ (Counted(u) => Accounted(u))

TurnInv ==
  /\ Counting
  /\ faults = 0 /\ restarts = 0 => Once

\* What stays whatever the step, a reset apart: topics stay in the table, an open session
\* stays open.
Persist ==
  /\ \A t \in Ids : Status(t) # "none" => Status(t)' # "none"
  /\ Session # 0 => Session' = Session

\* No step but a reset takes a topic out of the table or closes the session.
LEMMA MovesPersist ==
  ASSUME TopicInv
  PROVE  /\ Stays => Persist
         /\ \A n \in Ids : Inserted(n) => Persist
         /\ \A t \in Ids, w \in Watching : Rewatched(t, w) => Persist
         /\ \A t \in Ids : RunEnded(t) => Persist
         /\ \A t \in Ids : watcher[t] = "finish" /\ Finished(t) => Persist
         /\ \A t, n \in Ids : Promoted(t, n) => Persist
<1>1. Stays => Persist
  BY DEF Stays, Persist, Untouched
<1>2. ASSUME NEW n \in Ids, Inserted(n)
      PROVE  Persist
  <2>1. Status(n)' # "none" /\ (Session # 0 => Session' = Session)
        /\ \A t \in Ids \ {n} : Status(t)' = Status(t)
    BY <1>2 DEF Inserted, Untouched
  <2>. QED  BY <2>1 DEF Persist
<1>3. ASSUME NEW t \in Ids, NEW w \in Watching, Rewatched(t, w)
      PROVE  Persist
  BY <1>3 DEF Rewatched, Persist
<1>4. ASSUME NEW t \in Ids, RunEnded(t)
      PROVE  Persist
  BY <1>4 DEF RunEnded, Persist
<1>5. ASSUME NEW t \in Ids, watcher[t] = "finish", Finished(t)
      PROVE  Persist
  <2>1. Status(t)' \in Ended
    BY <1>5 DEF TopicInv, WatchersKnow, Finished
  <2>2. Status(t)' # "none"
    BY <2>1 DEF Ended
  <2>3. Session' = Session /\ \A u \in Ids \ {t} : Status(u)' = Status(u)
    BY <1>5 DEF Finished, Untouched
  <2>. QED  BY <2>2, <2>3 DEF Persist
<1>6. ASSUME NEW t \in Ids, NEW n \in Ids, Promoted(t, n)
      PROVE  Persist
  <2>1. Session' = Session /\ Status(n)' = "Running" /\ Status(t)' = Status(t)
        /\ \A u \in Ids \ {t, n} : Status(u)' = Status(u)
    BY <1>6 DEF Promoted, Untouched
  <2>. QED  BY <2>1 DEF Persist
<1>. QED  BY <1>1, <1>2, <1>3, <1>4, <1>5, <1>6

\* A turn that is in the messages stays there until a reset.
LEMMA StoredStays ==
  ASSUME Persist, messages \subseteq messages', NEW u, Stored(u)
  PROVE  Stored(u)'
BY DEF Persist, Stored

\* A topic that is still there stays until a reset.
LEMMA ReachedStays ==
  ASSUME Persist, NEW r \in Seq(Ids), Reached(r)
  PROVE  Reached(r)'
<1>1. PICK i \in 1..Len(r) : Status(r[i]) # "none"
  BY DEF Reached
<1>2. PICK t \in Ids : t = r[i]
  OBVIOUS
<1>3. Status(t)' # "none"
  BY <1>1, <1>2 DEF Persist
<1>. QED  BY <1>2, <1>3 DEF Reached

\* What a call knows, by its columns at the next step.
LEMMA KnowsNext ==
  ASSUME NEW c \in Senders, NEW u, NEW p, NEW e, NEW s, NEW r,
         TurnOf(c)' = u, Pc(c)' = p, Effect(c)' = e, Sid(c)' = s, Received(c)' = r,
         Knows(u, p, e, s, r)'
  PROVE  HolderKnows(c)'
BY DEF HolderKnows, Knows, Counted, Stored, Reached

\* What a call knows stays true while its counts do, whatever others do.
LEMMA KnowsStays ==
  ASSUME Persist, messages \subseteq messages',
         NEW u, NEW p, NEW e, NEW s, NEW r \in Seq(Ids),
         Knows(u, p, e, s, r), SameCount(u), p = "insert" => s # 0
  PROVE  Knows(u, p, e, s, r)'
<1>1. Counted(u)' => Counted(u)
  BY DEF Counted, SameCount
<1>2. (Stored(u) => Stored(u)') /\ (Reached(r) => Reached(r)')
  BY StoredStays, ReachedStays
<1>3. Session # 0 => Session' = Session
  BY DEF Persist
<1>. QED  BY <1>1, <1>2, <1>3 DEF Knows

\* What another call may rely on is not touched by a step that does not count for its turn.
LEMMA OthersKnow ==
  ASSUME CallsOK, Persist, messages \subseteq messages', NEW d \in Senders, SameCall(d),
         HolderKnows(d), SameCount(TurnOf(d))
  PROVE  HolderKnows(d)'
<1>1. PICK u, p, e, s : u = TurnOf(d) /\ p = Pc(d) /\ e = Effect(d) /\ s = Sid(d)
  OBVIOUS
<1>2. PICK r \in Seq(Ids) : r = Received(d)
  BY CallColumns DEF CallsOK
<1>3. TurnOf(d)' = u /\ Pc(d)' = p /\ Effect(d)' = e /\ Sid(d)' = s /\ Received(d)' = r
  BY <1>1, <1>2 DEF SameCall
<1>4. Knows(u, p, e, s, r) /\ SameCount(u)
  BY <1>1, <1>2 DEF HolderKnows
<1>5. p = "insert" => s # 0
  BY <1>1 DEF CallsOK
<1>6. Knows(u, p, e, s, r)'
  BY <1>4, <1>5, KnowsStays
<1>. QED  BY <1>3, <1>6, KnowsNext

\* How a step of call c keeps Once: what it must do to its own columns and to the counts.
LEMMA OnceNext ==
  ASSUME Once, CallsOK, Persist, messages \subseteq messages',
         NEW c \in Senders, \A d \in Senders \ {c} : SameCall(d),
         Holding(c)' => HolderKnows(c)',
         Holding(c)' => \/ Holding(c) /\ TurnOf(c)' = TurnOf(c)
                        \/ \A d \in Senders : Holding(d) => TurnOf(d) # TurnOf(c)',
         \A u \in Turns : (Holding(c) /\ u = TurnOf(c)) \/ SameCount(u),
         \A u \in Turns : Holding(c) /\ u = TurnOf(c) =>
            /\ Tally(u)'
            /\ Counted(u)' => Stored(u)' \/ (Holding(c)' /\ TurnOf(c)' = u)
  PROVE  Once'
<1>0. \A d \in Senders \ {c} : TurnOf(d)' = TurnOf(d) /\ (Holding(d)' <=> Holding(d))
  BY DEF SameCall, Holding
<1>1. OneHolder'
  <2>1. SUFFICES ASSUME NEW d \in Senders, NEW e \in Senders,
                        Holding(d)', Holding(e)', TurnOf(d)' = TurnOf(e)'
                 PROVE  d = e
    BY DEF OneHolder
  <2>2. ASSUME NEW x \in Senders \ {c}, Holding(x)', Holding(c)', TurnOf(x)' = TurnOf(c)'
        PROVE  FALSE
    <3>1. Holding(x) /\ TurnOf(x) = TurnOf(c)'
      BY <1>0, <2>2
    <3>2. Holding(c) /\ TurnOf(c)' = TurnOf(c)
      BY <2>2, <3>1
    <3>. QED  BY <3>1, <3>2 DEF Once, OneHolder
  <2>3. CASE d # c /\ e # c
    BY <1>0, <2>1, <2>3 DEF Once, OneHolder
  <2>. QED  BY <2>1, <2>2, <2>3
<1>2. ASSUME NEW d \in Senders, Holding(d)'
      PROVE  HolderKnows(d)'
  <2>1. CASE d = c
    BY <1>2, <2>1
  <2>2. CASE d # c
    <3>1. Holding(d) /\ SameCall(d) /\ HolderKnows(d)
      BY <1>0, <1>2, <2>2 DEF Once
    <3>2. TurnOf(d) \in Turns
      BY <3>1 DEF CallsOK, Holding
    <3>3. SameCount(TurnOf(d))
      BY <2>2, <3>1, <3>2 DEF Once, OneHolder
    <3>. QED  BY <3>1, <3>3, OthersKnow
  <2>. QED  BY <2>1, <2>2
<1>3. ASSUME NEW u \in Turns
      PROVE  Tally(u)' /\ (Counted(u)' => Accounted(u)')
  <2>1. CASE Holding(c) /\ u = TurnOf(c)
    BY <2>1 DEF Accounted
  <2>2. CASE ~(Holding(c) /\ u = TurnOf(c))
    <3>1. SameCount(u) /\ Tally(u) /\ (Counted(u) => Accounted(u))
      BY <2>2 DEF Once
    <3>2. Tally(u)' /\ (Counted(u)' => Counted(u))
      BY <3>1 DEF SameCount, Tally, Counted
    <3>3. Accounted(u) => Accounted(u)'
      BY <1>0, <2>2, StoredStays DEF Accounted
    <3>. QED  BY <3>1, <3>2, <3>3
  <2>. QED  BY <2>1, <2>2
<1>. QED  BY <1>1, <1>2, <1>3 DEF Once

\* A step of nobody's turn.
LEMMA OnceStays ==
  ASSUME Once, CallsOK, Persist, messages \subseteq messages', UNCHANGED <<landed, torn>>,
         \A d \in Senders : SameCall(d)
  PROVE  Once'
<1>1. \A d \in Senders : TurnOf(d)' = TurnOf(d) /\ (Holding(d)' <=> Holding(d))
  BY DEF SameCall, Holding
<1>2. \A u : SameCount(u)
  BY DEF SameCount
<1>3. OneHolder'
  BY <1>1 DEF Once, OneHolder
<1>4. ASSUME NEW d \in Senders, Holding(d)'
      PROVE  HolderKnows(d)'
  BY <1>1, <1>2, <1>4, OthersKnow DEF Once
<1>5. ASSUME NEW u \in Turns
      PROVE  Tally(u)' /\ (Counted(u)' => Accounted(u)')
  <2>1. Tally(u) /\ (Counted(u) => Accounted(u))
    BY DEF Once
  <2>2. Accounted(u) => Accounted(u)'
    BY <1>1, StoredStays DEF Accounted
  <2>3. Tally(u)' /\ (Counted(u)' => Counted(u))
    BY <2>1 DEF Tally, Counted
  <2>. QED  BY <2>1, <2>2, <2>3
<1>. QED  BY <1>3, <1>4, <1>5 DEF Once

\* A call that goes on or ends with the counts as they are: what it then knows, or that
\* its landing does not count any more or is recorded.
LEMMA CallOnce ==
  ASSUME Once, CallsOK, Persist, messages \subseteq messages', UNCHANGED <<landed, torn>>,
         NEW c \in Senders, \A d \in Senders \ {c} : SameCall(d),
         \/ Holding(c) /\ Holding(c)' /\ TurnOf(c)' = TurnOf(c) /\ HolderKnows(c)'
         \/ ~Holding(c)' /\ (Holding(c) /\ Counted(TurnOf(c)) => Stored(TurnOf(c)))
  PROVE  Once'
<1>1. \A u : SameCount(u)
  BY DEF SameCount
<1>2. ASSUME NEW u \in Turns, Holding(c), u = TurnOf(c)
      PROVE  /\ Tally(u)'
             /\ Counted(u)' => Stored(u)' \/ (Holding(c)' /\ TurnOf(c)' = u)
  <2>1. Tally(u)' /\ (Counted(u)' => Counted(u))
    BY DEF Once, Tally, Counted
  <2>2. Holding(c)' => TurnOf(c)' = u
    BY <1>2
  <2>3. ~Holding(c)' /\ Counted(u) => Stored(u)'
    BY <1>2, StoredStays
  <2>. QED  BY <2>1, <2>2, <2>3
<1>3. Holding(c)' => HolderKnows(c)' /\ Holding(c) /\ TurnOf(c)' = TurnOf(c)
  OBVIOUS
<1>. QED  BY <1>1, <1>2, <1>3, OnceNext

\* A call ends: with no landing that counts, or with one recorded.
LEMMA IdleOnce ==
  ASSUME Once, CallsOK, Persist, messages \subseteq messages', UNCHANGED <<landed, torn>>,
         NEW c \in Senders, Became(c, "idle", NoTurn, <<>>, 0, <<>>, FALSE),
         Holding(c) /\ Counted(TurnOf(c)) => Stored(TurnOf(c))
  PROVE  Once'
<1>1. ~Holding(c)' /\ \A d \in Senders \ {c} : SameCall(d)
  BY DEF Became, Holding
<1>. QED  BY <1>1, CallOnce

\* A landing that counts, by its call.
LEMMA LandingCounts ==
  ASSUME Counting, NEW u \in Turns, NEW e \in BOOLEAN, Landed(u, e), torn' = torn,
         Tally(u), Counted(u) => e = TRUE
  PROVE  /\ Counting'
         /\ \A v \in Turns \ {u} : SameCount(v)
         /\ Tally(u)'
<1>1. landed' = [landed EXCEPT ![u] = IF e THEN landed[u] ELSE landed[u] + 1]
  BY DEF Landed
<1>2. PICK n \in Nat : n = IF e THEN landed[u] ELSE landed[u] + 1
  BY DEF Counting
<1>3. landed' \in [Turns -> Nat] /\ landed'[u] = n /\ \A v \in Turns \ {u} : landed'[v] = landed[v]
  BY <1>1, <1>2 DEF Counting
<1>4. e = TRUE => Tally(u)'
  BY <1>2, <1>3 DEF Tally
<1>5. e = FALSE => Tally(u)'
  <2>1. SUFFICES ASSUME e = FALSE
                 PROVE  Tally(u)'
    OBVIOUS
  <2>2. n = landed[u] + 1 /\ landed[u] = torn[u]
    BY <1>2, <2>1 DEF Counted
  <2>. QED  BY <1>3, <2>2 DEF Tally
<1>. QED  BY <1>3, <1>4, <1>5 DEF Counting, SameCount

\* A call that starts has landed nothing.
LEMMA SendOnce ==
  ASSUME Once, CallsOK, TablesOK, Persist, NEW c \in Senders, NEW u \in Turns, SendTurn(c, u)
  PROVE  Once'
<1>1. PICK plan : Became(c, "lock", u, plan, 0, <<>>, FALSE)
  BY SendMoves
<1>2. Pc(c) = "idle" /\ messages' = messages /\ UNCHANGED <<landed, torn>>
  BY SendMoves DEF SendTurn
<1>3. ~Holding(c) /\ ~Holding(c)' /\ \A d \in Senders \ {c} : SameCall(d)
  BY <1>1, <1>2 DEF Became, Holding
<1>. QED  BY <1>2, <1>3, CallOnce

\* A call that gets the lock and finds no message finds no landing that counts.
LEMMA LockOnce ==
  ASSUME Once, CallsOK, TablesOK, Persist, NEW c \in Senders, LockTurn(c)
  PROVE  Once'
<1>0. Pc(c) = "lock" /\ messages' = messages /\ UNCHANGED <<landed, torn>> /\ ~Holding(c)
      /\ TurnOf(c) \in Turns
      /\ \A d \in Senders : Holding(d) => TurnOf(d) # TurnOf(c)
  BY LockMoves DEF LockTurn, Holding, Delivering, Pc, CallsOK
<1>1. CASE Became(c, "idle", NoTurn, <<>>, 0, <<>>, FALSE)
  BY <1>0, <1>1, IdleOnce
<1>2. CASE Delivered(TurnOf(c)) = {}
           /\ Became(c, "apply", TurnOf(c), Plan(c), Sid(c), Received(c), Effect(c))
  <2>1. PICK u \in Turns : u = TurnOf(c)
    BY <1>0
  <2>2. PICK e, s, r : e = Effect(c) /\ s = Sid(c) /\ r = Received(c)
    OBVIOUS
  <2>3. Pc(c)' = "apply" /\ TurnOf(c)' = u /\ Effect(c)' = e /\ Sid(c)' = s /\ Received(c)' = r
        /\ \A d \in Senders \ {c} : SameCall(d)
    BY <1>2, <2>1, <2>2 DEF Became
  <2>4. ~Stored(u)
    BY <1>2, <2>1 DEF Delivered, Stored, InTable, Status
  <2>5. ~Counted(u)
    BY <1>0, <2>1, <2>4 DEF Once, Accounted
  <2>6. Knows(u, "apply", e, s, r)'
    BY <1>0, <2>5 DEF Knows, Counted
  <2>7. HolderKnows(c)'
    BY <2>3, <2>6, KnowsNext
  <2>8. \A d \in Senders : Holding(d) => TurnOf(d) # TurnOf(c)'
    BY <1>0, <2>1, <2>3
  <2>9. \A v \in Turns : SameCount(v)
    BY <1>0 DEF SameCount
  <2>. QED  BY <1>0, <2>3, <2>7, <2>8, <2>9, OnceNext
<1>. QED  BY <1>1, <1>2, LockMoves

\* Looking up the session is no effect.
LEMMA NewOnce ==
  ASSUME Once, CallsOK, TablesOK, Persist, NEW c \in Senders, ApplyNew(c)
  PROVE  Once'
<1>0. Pc(c) = "apply" /\ messages' = messages /\ UNCHANGED <<landed, torn>> /\ Holding(c)
  BY NewMoves DEF ApplyNew, Holding
<1>1. PICK u, e, s : u = TurnOf(c) /\ e = Effect(c) /\ s = Session'
  OBVIOUS
<1>2. PICK r \in Seq(Ids) : r = Received(c)
  BY CallColumns DEF CallsOK
<1>3. Pc(c)' = "insert" /\ TurnOf(c)' = u /\ Sid(c)' = s /\ Received(c)' = r /\ Effect(c)' = e
      /\ \A d \in Senders \ {c} : SameCall(d)
  BY <1>1, <1>2, NewMoves DEF Became
<1>4. Knows(u, "apply", e, s, r)
  BY <1>0, <1>1, <1>2 DEF Once, HolderKnows, Knows
<1>5. Knows(u, "apply", e, s, r)'
  BY <1>0, <1>4, KnowsStays DEF SameCount
<1>6. Knows(u, "insert", e, s, r)'
  BY <1>1, <1>5 DEF Knows
<1>7. HolderKnows(c)' /\ Holding(c)'
  BY <1>3, <1>6, KnowsNext DEF Holding
<1>. QED  BY <1>0, <1>1, <1>3, <1>7, CallOnce

\* A call that ends without a topic has no landing that counts.
LEMMA AllAppliedOnce ==
  ASSUME Once, CallsOK, Persist, NEW c \in Senders, AllApplied(c)
  PROVE  Once'
<1>0. Pc(c) = "apply" /\ messages' = messages /\ UNCHANGED <<landed, torn>> /\ Holding(c)
  BY AllAppliedMoves DEF AllApplied, Holding
<1>1. PICK u, e, s : u = TurnOf(c) /\ e = Effect(c) /\ s = Sid(c)
  OBVIOUS
<1>2. PICK r \in Seq(Ids) : r = Received(c)
  BY CallColumns DEF CallsOK
<1>3. Knows(u, "apply", e, s, r)
  BY <1>0, <1>1, <1>2 DEF Once, HolderKnows
<1>4. CASE Received(c) = <<>> /\ Became(c, "idle", NoTurn, <<>>, 0, <<>>, FALSE)
  <2>1. Len(r) = 0
    BY <1>2, <1>4
  <2>2. ~Reached(r)
    BY <2>1 DEF Reached
  <2>3. Counted(u) => Stored(u)
    BY <1>3, <2>2 DEF Knows
  <2>. QED  BY <1>0, <1>1, <1>4, <2>3, IdleOnce
<1>5. CASE Became(c, "record", TurnOf(c), Plan(c), Sid(c), Received(c), Effect(c))
  <2>1. Pc(c)' = "record" /\ TurnOf(c)' = u /\ Sid(c)' = s /\ Received(c)' = r /\ Effect(c)' = e
        /\ \A d \in Senders \ {c} : SameCall(d)
    BY <1>1, <1>2, <1>5 DEF Became
  <2>2. Knows(u, "record", e, s, r)
    BY <1>3 DEF Knows
  <2>3. Knows(u, "record", e, s, r)'
    BY <1>0, <2>2, KnowsStays DEF SameCount
  <2>4. HolderKnows(c)' /\ Holding(c)'
    BY <2>1, <2>3, KnowsNext DEF Holding
  <2>. QED  BY <1>0, <1>1, <2>1, <2>4, CallOnce
<1>. QED  BY <1>4, <1>5, AllAppliedMoves

\* record_turn works through the topics in order: the one that is still there is recorded
\* or comes later.
LEMMA RecordOnce ==
  ASSUME Once, CallsOK, Persist, NEW c \in Senders, RecordTurn(c)
  PROVE  Once'
<1>0. Pc(c) = "record" /\ UNCHANGED <<landed, torn>> /\ Holding(c) /\ Received(c) # <<>>
      /\ messages' = messages \cup {<<TurnOf(c), Head(Received(c))>>}
  BY RecordMoves DEF RecordTurn, Holding
<1>1. PICK u, e, s : u = TurnOf(c) /\ e = Effect(c) /\ s = Sid(c)
  OBVIOUS
<1>2. PICK r \in Seq(Ids) : r = Received(c)
  BY CallColumns DEF CallsOK
<1>3. r # <<>> /\ Tail(r) \in Seq(Ids) /\ Len(Tail(r)) = Len(r) - 1 /\ Len(r) \in Nat
      /\ \A i \in 1..Len(r) - 1 : Tail(r)[i] = r[i + 1]
  BY <1>0, <1>2, HeadTailProperties
<1>4. PICK p : /\ Pc(c)' = p /\ (p = "record" \/ (p = "focus" /\ Tail(r) = <<>>))
               /\ TurnOf(c)' = u /\ Received(c)' = Tail(r) /\ Effect(c)' = e /\ Sid(c)' = s
               /\ \A d \in Senders \ {c} : SameCall(d)
  BY <1>1, <1>2, RecordMoves DEF Became
<1>5. Knows(u, "record", e, s, r)
  BY <1>0, <1>1, <1>2 DEF Once, HolderKnows
<1>6. messages \subseteq messages' /\ <<u, Head(r)>> \in messages'
  BY <1>0, <1>1, <1>2
<1>7. Reached(r)' => Stored(u)' \/ Reached(Tail(r))'
  <2>1. SUFFICES ASSUME NEW i \in 1..Len(r), Status(r[i])' # "none"
                 PROVE  Stored(u)' \/ Reached(Tail(r))'
    BY DEF Reached
  <2>2. CASE i = 1
    <3>1. r[1] = Head(r) /\ r[1] \in Ids
      BY <1>3
    <3>. QED  BY <1>6, <2>1, <2>2, <3>1 DEF Stored
  <2>3. CASE i # 1
    <3>1. i - 1 \in 1..Len(r) - 1 /\ (i - 1) + 1 = i
      BY <1>3, <2>3
    <3>2. Tail(r)[i - 1] = r[i] /\ i - 1 \in 1..Len(Tail(r))
      BY <1>3, <3>1
    <3>. QED  BY <2>1, <3>2 DEF Reached
  <2>. QED  BY <2>2, <2>3
<1>8. Knows(u, "record", e, s, r)'
  BY <1>0, <1>5, <1>6, KnowsStays DEF SameCount
<1>9. Tail(r) = <<>> => ~Reached(Tail(r))'
  <2>1. PICK q \in Seq(Ids) : q = Tail(r)
    BY <1>3
  <2>2. q = <<>> => Len(q) = 0
    OBVIOUS
  <2>3. q = <<>> => ~Reached(q)'
    BY <2>2 DEF Reached
  <2>. QED  BY <2>1, <2>3
<1>10. Knows(u, p, e, s, Tail(r))'
  BY <1>4, <1>7, <1>8, <1>9 DEF Knows
<1>11. HolderKnows(c)' /\ Holding(c)'
  BY <1>4, <1>10, KnowsNext DEF Holding
<1>. QED  BY <1>0, <1>1, <1>4, <1>6, <1>11, CallOnce

\* A call that reaches topic t.
LEMMA LandOnce ==
  ASSUME Once, CallsOK, Counting, Persist, messages' = messages, torn' = torn,
         NEW c \in Senders, NEW t \in Ids, Status(t)' # "none", Pc(c) \in {"apply", "insert"},
         Landed(TurnOf(c), Effect(c)),
         Became(c, "apply", TurnOf(c), Tail(Plan(c)), 0, Append(Received(c), t), TRUE)
  PROVE  Once' /\ Counting'
<1>1. Holding(c) /\ HolderKnows(c)
  BY DEF Holding, Once
<1>2. PICK u \in Turns : u = TurnOf(c)
  BY DEF CallsOK
<1>3. PICK e \in BOOLEAN : e = Effect(c)
  BY CallColumns DEF CallsOK
<1>4. PICK r \in Seq(Ids) : r = Append(Received(c), t)
  <2>1. PICK q \in Seq(Ids) : q = Received(c)
    BY CallColumns DEF CallsOK
  <2>2. Append(q, t) \in Seq(Ids)
    OBVIOUS
  <2>. QED  BY <2>1, <2>2
<1>5. Counted(u) => e = TRUE
  BY <1>1, <1>2, <1>3 DEF HolderKnows, Knows
<1>6. Counting' /\ Tally(u)' /\ \A v \in Turns \ {u} : SameCount(v)
  BY <1>2, <1>3, <1>5, LandingCounts DEF Once
<1>7. Pc(c)' = "apply" /\ TurnOf(c)' = u /\ Received(c)' = r /\ Sid(c)' = 0
      /\ Effect(c)' = TRUE /\ \A d \in Senders \ {c} : SameCall(d)
  BY <1>2, <1>4 DEF Became
<1>8. Reached(r)'
  <2>1. Len(r) \in 1..Len(r) /\ r[Len(r)] = t
    BY <1>4, CallColumns, AppendProperties DEF CallsOK
  <2>. QED  BY <2>1 DEF Reached
<1>9. Knows(u, "apply", TRUE, 0, r)'
  BY <1>8 DEF Knows
<1>10. HolderKnows(c)' /\ Holding(c)'
  BY <1>7, <1>9, KnowsNext DEF Holding
<1>11. Once'
  BY <1>1, <1>2, <1>6, <1>7, <1>10, OnceNext
<1>. QED  BY <1>6, <1>11

\* A new topic is the turn's first landing, or its call had one before.
LEMMA InsertOnce ==
  ASSUME Once, CallsOK, TablesOK, Counting, Persist, NEW c \in Senders, ApplyInsert(c)
  PROVE  Once' /\ Counting'
<1>0. Pc(c) = "insert" /\ messages' = messages /\ torn' = torn /\ Holding(c)
  BY InsertCallMoves DEF ApplyInsert, Holding
<1>1. CASE /\ InsertTopic(SessionOfUser) /\ SessionOfUser.id <= MaxSessions
           /\ Landed(TurnOf(c), Effect(c))
           /\ Became(c, "apply", TurnOf(c), Tail(Plan(c)), 0, Append(Received(c), lastTopic + 1), TRUE)
  <2>1. PICK t \in Ids : Inserted(t)
    BY <1>1, InsertMoves
  <2>2. t = lastTopic + 1 /\ Status(t)' # "none"
    BY <2>1 DEF Inserted
  <2>. QED  BY <1>0, <1>1, <2>2, LandOnce
<1>2. CASE Session # Sid(c) /\ landed' = landed /\ Became(c, "idle", NoTurn, <<>>, 0, <<>>, FALSE)
  <2>1. ~Counted(TurnOf(c))
    BY <1>0, <1>2 DEF Once, HolderKnows, Knows
  <2>2. Once'
    BY <1>0, <1>2, <2>1, IdleOnce
  <2>. QED  BY <1>0, <1>2, <2>2 DEF Counting
<1>. QED  BY <1>1, <1>2, InsertCallMoves

\* A topic that is continued is told, takes the turn as it is, or refuses it.
LEMMA ContinueOnce ==
  ASSUME Once, CallsOK, TablesOK, Counting, Persist, NEW c \in Senders, ApplyContinue(c)
  PROVE  Once' /\ Counting'
<1>0. Pc(c) = "apply" /\ messages' = messages /\ torn' = torn /\ Holding(c)
  BY ContinueMoves DEF ApplyContinue, Holding
<1>1. PICK t : t = Head(Plan(c))
  OBVIOUS
<1>2. CASE /\ t \in Ids /\ Status(t) # "none"
           /\ Landed(TurnOf(c), Effect(c))
           /\ Became(c, "apply", TurnOf(c), Tail(Plan(c)), 0, Append(Received(c), t), TRUE)
  <2>1. Status(t)' # "none"
    BY <1>2 DEF Persist
  <2>. QED  BY <1>0, <1>2, <2>1, LandOnce
<1>3. ASSUME NEW q \in Seq(Ids), Reached(Received(c)) => Reached(q), landed' = landed,
             Became(c, "apply", TurnOf(c), Tail(Plan(c)), 0, q, Effect(c))
      PROVE  Once' /\ Counting'
  <2>1. PICK u, e, s, r : u = TurnOf(c) /\ e = Effect(c) /\ s = Sid(c) /\ r = Received(c)
    OBVIOUS
  <2>2. Pc(c)' = "apply" /\ TurnOf(c)' = u /\ Effect(c)' = e /\ Sid(c)' = 0 /\ Received(c)' = q
        /\ \A d \in Senders \ {c} : SameCall(d)
    BY <1>3, <2>1 DEF Became
  <2>3. Knows(u, "apply", e, s, r)
    BY <1>0, <2>1 DEF Once, HolderKnows
  <2>4. Knows(u, "apply", e, 0, q)
    BY <1>3, <2>1, <2>3 DEF Knows
  <2>5. Knows(u, "apply", e, 0, q)'
    BY <1>0, <1>3, <2>4, KnowsStays DEF SameCount
  <2>6. HolderKnows(c)' /\ Holding(c)'
    BY <2>2, <2>5, KnowsNext DEF Holding
  <2>7. Once'
    BY <1>0, <1>3, <2>1, <2>2, <2>6, CallOnce
  <2>. QED  BY <1>0, <1>3, <2>7 DEF Counting
<1>4. Received(c) \in Seq(Ids)
  BY CallColumns DEF CallsOK
<1>5. CASE landed' = landed /\ t \in Ids
           /\ Became(c, "apply", TurnOf(c), Tail(Plan(c)), 0, Append(Received(c), t), Effect(c))
  <2>1. PICK r \in Seq(Ids) : r = Received(c)
    BY <1>4
  <2>2. PICK q \in Seq(Ids) : q = Append(r, t)
    <3>1. Append(r, t) \in Seq(Ids)
      BY <1>5
    <3>. QED  BY <3>1
  <2>3. Len(q) = Len(r) + 1 /\ \A i \in 1..Len(r) : q[i] = r[i]
    BY <1>5, <2>2, AppendProperties
  <2>4. Reached(r) => Reached(q)
    BY <2>3 DEF Reached
  <2>. QED  BY <1>3, <1>5, <2>1, <2>2, <2>4
<1>6. CASE landed' = landed /\ Became(c, "apply", TurnOf(c), Tail(Plan(c)), 0, Received(c), Effect(c))
  BY <1>3, <1>4, <1>6
<1>. QED  BY <1>1, <1>2, <1>5, <1>6, ContinueMoves

\* A call that is cut half way has its landing counted as torn.
LEMMA BusyOnce ==
  ASSUME Once, CallsOK, Counting, Persist, NEW c \in Senders, ApplyBusy(c)
  PROVE  Once' /\ Counting'
<1>0. Pc(c) = "apply" /\ messages' = messages /\ landed' = landed /\ Holding(c)
      /\ sender' = [sender EXCEPT ![c] = IdleSender]
  BY DEF ApplyBusy, Pc, Holding
<1>1. PICK u \in Turns : u = TurnOf(c)
  BY <1>0 DEF CallsOK
<1>2. PICK e \in BOOLEAN : e = Effect(c)
  BY CallColumns DEF CallsOK
<1>3. torn' = [torn EXCEPT ![u] = IF e /\ torn[u] < landed[u] THEN torn[u] + 1 ELSE torn[u]]
  BY <1>1, <1>2 DEF ApplyBusy, TurnOf, Effect
<1>4. PICK m \in Nat : m = IF e /\ torn[u] < landed[u] THEN torn[u] + 1 ELSE torn[u]
  BY DEF Counting
<1>5. torn' \in [Turns -> Nat] /\ torn'[u] = m /\ \A v \in Turns \ {u} : torn'[v] = torn[v]
  BY <1>3, <1>4 DEF Counting
<1>6. Tally(u) /\ (Counted(u) => e = TRUE)
  BY <1>0, <1>1, <1>2 DEF Once, HolderKnows, Knows
<1>7. landed[u] \in Nat /\ torn[u] \in Nat
  BY DEF Counting
<1>8. m = landed[u]
  BY <1>4, <1>6, <1>7 DEF Tally, Counted
<1>9. Tally(u)' /\ ~Counted(u)'
  BY <1>0, <1>5, <1>8 DEF Tally, Counted
<1>10. Became(c, "idle", NoTurn, <<>>, 0, <<>>, FALSE)
  BY <1>0, IdleKeepsCalls
<1>11. ~Holding(c)' /\ \A d \in Senders \ {c} : SameCall(d)
  BY <1>10 DEF Became, Holding
<1>12. \A v \in Turns \ {u} : SameCount(v)
  BY <1>0, <1>5 DEF SameCount
<1>13. Once'
  BY <1>0, <1>1, <1>9, <1>11, <1>12, OnceNext
<1>. QED  BY <1>0, <1>5, <1>13 DEF Counting

\* A call that ends has recorded its landing.
LEMMA DoneOnce ==
  ASSUME Once, CallsOK, Persist, NEW c \in Senders, TurnDone(c)
  PROVE  Once'
<1>1. Pc(c) = "focus" /\ messages' = messages /\ UNCHANGED <<landed, torn>> /\ Holding(c)
      /\ sender' = [sender EXCEPT ![c] = IdleSender]
  BY DEF TurnDone, Pc, Holding
<1>2. Counted(TurnOf(c)) => Stored(TurnOf(c))
  BY <1>1 DEF Once, HolderKnows, Knows
<1>3. Became(c, "idle", NoTurn, <<>>, 0, <<>>, FALSE)
  BY <1>1, IdleKeepsCalls
<1>. QED  BY <1>1, <1>2, <1>3, IdleOnce

\* Every step of a call keeps Once.
LEMMA TurnOnce ==
  ASSUME Once, CallsOK, TablesOK, Counting, Persist, NEW c \in Senders, Turn(c)
  PROVE  Once'
<1>1. ASSUME NEW u \in Turns, SendTurn(c, u)
      PROVE  Once'
  BY <1>1, SendOnce
<1>2. CASE LockTurn(c)
  BY <1>2, LockOnce
<1>3. CASE ApplyNew(c)
  BY <1>3, NewOnce
<1>4. CASE ApplyInsert(c)
  BY <1>4, InsertOnce
<1>5. CASE ApplyContinue(c)
  BY <1>5, ContinueOnce
<1>6. CASE ApplyBusy(c)
  BY <1>6, BusyOnce
<1>7. CASE AllApplied(c)
  BY <1>7, AllAppliedOnce
<1>8. CASE RecordTurn(c)
  BY <1>8, RecordOnce
<1>9. CASE TurnDone(c)
  BY <1>9, DoneOnce
<1>. QED  BY <1>1, <1>2, <1>3, <1>4, <1>5, <1>6, <1>7, <1>8, <1>9 DEF Turn

\* The counts are numbers whatever a call does.
LEMMA TurnCounts ==
  ASSUME CallsOK, TablesOK, Counting, NEW c \in Senders, Turn(c)
  PROVE  Counting'
<1>0. ASSUME UNCHANGED <<landed, torn>>
      PROVE  Counting'
  BY <1>0 DEF Counting
<1>1. ASSUME NEW u \in Turns, NEW e \in BOOLEAN, Landed(u, e), torn' = torn
      PROVE  Counting'
  <2>1. landed[u] \in Nat /\ landed[u] + 1 \in Nat
    BY DEF Counting
  <2>. QED  BY <1>1, <2>1 DEF Landed, Counting
<1>2. Pc(c) # "idle" => TurnOf(c) \in Turns /\ Effect(c) \in BOOLEAN
  BY CallColumns DEF CallsOK
<1>3. CASE ApplyInsert(c)
  <2>1. Pc(c) # "idle" /\ (Landed(TurnOf(c), Effect(c)) \/ landed' = landed) /\ torn' = torn
    BY <1>3, InsertCallMoves DEF ApplyInsert
  <2>. QED  BY <1>0, <1>1, <1>2, <2>1
<1>4. CASE ApplyContinue(c)
  <2>1. Pc(c) # "idle" /\ (Landed(TurnOf(c), Effect(c)) \/ landed' = landed) /\ torn' = torn
    BY <1>4, ContinueMoves DEF ApplyContinue
  <2>. QED  BY <1>0, <1>1, <1>2, <2>1
<1>5. CASE ApplyBusy(c)
  <2>1. PICK u \in Turns : u = sender[c].turn
    BY <1>5 DEF ApplyBusy, CallsOK, Pc, TurnOf
  <2>2. PICK m \in Nat :
          m = IF sender[c].effect /\ torn[u] < landed[u] THEN torn[u] + 1 ELSE torn[u]
    BY DEF Counting
  <2>3. torn' = [torn EXCEPT ![u] = m] /\ landed' = landed
    BY <1>5, <2>1, <2>2 DEF ApplyBusy
  <2>. QED  BY <2>3 DEF Counting
<1>6. CASE ~ApplyInsert(c) /\ ~ApplyContinue(c) /\ ~ApplyBusy(c)
  <2>1. UNCHANGED <<landed, torn>>
    BY <1>6 DEF Turn, SendTurn, LockTurn, ApplyNew, AllApplied, RecordTurn, TurnDone
  <2>. QED  BY <1>0, <2>1
<1>. QED  BY <1>3, <1>4, <1>5, <1>6

\* A reset takes the counts with the topics.
LEMMA ResetOnce ==
  ASSUME CallsOK, ResetSession
  PROVE  Counting' /\ (Once => Once')
<1>1. landed' = [u \in Turns |-> 0] /\ torn' = [u \in Turns |-> 0] /\ sender' = sender
  BY DEF ResetSession
<1>2. Counting' /\ \A u \in Turns : Tally(u)' /\ ~Counted(u)'
  BY <1>1 DEF Counting, Tally, Counted
<1>3. \A d \in Senders : (Holding(d)' <=> Holding(d)) /\ TurnOf(d)' = TurnOf(d)
  BY <1>1, SameCalls DEF SameCall, Holding
<1>4. Once => OneHolder'
  BY <1>3 DEF Once, OneHolder
<1>5. ASSUME NEW d \in Senders, Holding(d)'
      PROVE  HolderKnows(d)'
  <2>1. PICK u \in Turns : u = TurnOf(d)'
    BY <1>3, <1>5 DEF CallsOK, Holding
  <2>2. PICK p, e, s, r : p = Pc(d)' /\ e = Effect(d)' /\ s = Sid(d)' /\ r = Received(d)'
    OBVIOUS
  <2>3. Knows(u, p, e, s, r)'
    BY <1>2 DEF Knows
  <2>. QED  BY <2>1, <2>2, <2>3, KnowsNext
<1>. QED  BY <1>2, <1>4, <1>5 DEF Once

\* No step of a turn takes a topic out of the table.
LEMMA TurnPersists ==
  ASSUME TopicInv, CallsOK, NEW c \in Senders, Turn(c)
  PROVE  Persist
<1>0. TablesOK
  BY DEF TopicInv
<1>a. ASSUME OpenSession, UNCHANGED <<topics, lastTopic, watcher>>
      PROVE  Persist
  BY <1>0, <1>a, OpenMoves, MovesPersist
<1>b. ASSUME UNCHANGED <<topics, session, lastTopic, watcher>>
      PROVE  Persist
  BY <1>0, <1>b, QuietMoves, MovesPersist
<1>1. ASSUME NEW u \in Turns, SendTurn(c, u)
      PROVE  Persist
  BY <1>a, <1>1 DEF SendTurn
<1>2. CASE LockTurn(c)
  BY <1>a, <1>2 DEF LockTurn
<1>3. CASE ApplyNew(c)
  BY <1>a, <1>3 DEF ApplyNew
<1>4. CASE ApplyInsert(c)
  <2>1. \/ InsertTopic(SessionOfUser) /\ SessionOfUser.id <= MaxSessions
        \/ UNCHANGED <<topics, session, lastTopic, watcher>>
    BY <1>0, <1>4, InsertCallMoves
  <2>2. CASE InsertTopic(SessionOfUser) /\ SessionOfUser.id <= MaxSessions
    BY <1>0, <2>2, InsertMoves, MovesPersist
  <2>. QED  BY <1>b, <2>1, <2>2
<1>5. CASE ApplyContinue(c)
  BY <1>b, <1>5 DEF ApplyContinue
<1>6. CASE ApplyBusy(c)
  BY <1>b, <1>6 DEF ApplyBusy
<1>7. CASE AllApplied(c)
  BY <1>b, <1>7 DEF AllApplied
<1>8. CASE RecordTurn(c)
  BY <1>b, <1>8 DEF RecordTurn
<1>9. CASE TurnDone(c)
  <2>1. Refocus(sender[c].focus) /\ UNCHANGED <<topics, lastTopic, watcher>>
    BY <1>9 DEF TurnDone
  <2>2. PICK f : f = sender[c].focus
    OBVIOUS
  <2>. QED  BY <1>0, <2>1, <2>2, RefocusMoves, MovesPersist
<1>. QED  BY <1>1, <1>2, <1>3, <1>4, <1>5, <1>6, <1>7, <1>8, <1>9 DEF Turn

\* No step of a watcher takes a topic out of the table.
LEMMA WatchPersists ==
  ASSUME TopicInv, NEW t \in Ids, Watch(t)
  PROVE  Persist
<1>0. TablesOK /\ WatchersKnow
  BY DEF TopicInv
<1>1. CASE StreamTerminal(t)
  <2>1. Rewatched(t, "finish")
    BY <1>0, <1>1, WatcherMoves DEF StreamTerminal, Watching
  <2>. QED  BY <2>1, MovesPersist DEF Watching
<1>2. CASE WaitBeforeReconnect(t)
  <2>1. PICK w \in Watching : w = IF topics[t].status = "Running" THEN "stream" ELSE "none"
    BY DEF Watching
  <2>2. Rewatched(t, w)
    BY <1>0, <1>2, <2>1, WatcherMoves DEF WaitBeforeReconnect
  <2>. QED  BY <2>2, MovesPersist
<1>3. CASE FinishTopic(t)
  <2>1. (Finished(t) \/ Rewatched(t, "none")) /\ watcher[t] = "finish"
    BY <1>0, <1>3, FinishMoves DEF FinishTopic
  <2>. QED  BY <2>1, MovesPersist DEF Watching
<1>4. CASE PromoteNextQueued(t)
  <2>1. (\E n \in Ids : Promoted(t, n)) \/ Rewatched(t, "none")
    BY <1>0, <1>4, PromoteMoves
  <2>. QED  BY <2>1, MovesPersist DEF Watching
<1>. QED  BY <1>1, <1>2, <1>3, <1>4 DEF Watch

\* TurnInv is inductive over the other invariants.
LEMMA TurnsStep ==
  ASSUME TopicInv, CallsOK, TurnInv, [Next]_vars
  PROVE  TurnInv'
<1>0. TablesOK /\ Counting
  BY DEF TopicInv, TurnInv
<1>a. ASSUME Persist, messages' = messages, UNCHANGED <<landed, torn>>, sender' = sender,
             UNCHANGED <<faults, restarts>>
      PROVE  TurnInv'
  <2>1. \A d \in Senders : SameCall(d)
    BY <1>a, SameCalls
  <2>2. Once => Once'
    BY <1>a, <2>1, OnceStays
  <2>3. Counting'
    BY <1>0, <1>a DEF Counting
  <2>. QED  BY <1>a, <2>2, <2>3 DEF TurnInv
<1>1. CASE CreateTopic
  <2>1. Persist
    BY <1>0, <1>1, InsertMoves, MovesPersist DEF CreateTopic
  <2>. QED  BY <1>a, <1>1, <2>1 DEF CreateTopic
<1>2. ASSUME NEW t \in Ids, SetFocus(t)
      PROVE  TurnInv'
  <2>1. Persist
    BY <1>0, <1>2, RefocusMoves, MovesPersist DEF SetFocus
  <2>. QED  BY <1>a, <1>2, <2>1 DEF SetFocus
<1>3. CASE ResetSession
  <2>1. UNCHANGED <<faults, restarts>>
    BY <1>3 DEF ResetSession
  <2>. QED  BY <1>3, <2>1, ResetOnce DEF TurnInv
<1>4. ASSUME NEW t \in Ids, ExecutionEnds(t)
      PROVE  TurnInv'
  <2>1. Persist
    BY <1>0, <1>4, EndMoves, MovesPersist
  <2>. QED  BY <1>a, <1>4, <2>1 DEF ExecutionEnds
<1>5. ASSUME NEW t \in Ids, Watch(t)
      PROVE  TurnInv'
  <2>1. Persist
    BY <1>5, WatchPersists
  <2>2. messages' = messages /\ UNCHANGED <<landed, torn>> /\ sender' = sender
        /\ UNCHANGED <<faults, restarts>>
    BY <1>5 DEF Watch, StreamTerminal, WaitBeforeReconnect, FinishTopic, PromoteNextQueued
  <2>. QED  BY <1>a, <2>1, <2>2
<1>6. ASSUME NEW t \in Ids, StreamEnds(t)
      PROVE  TurnInv'
  <2>1. Rewatched(t, "closed")
    BY <1>0, <1>6, WatcherMoves DEF StreamEnds, Watching
  <2>2. Persist
    BY <2>1, MovesPersist DEF Watching
  <2>. QED  BY <1>a, <1>6, <2>2 DEF StreamEnds
<1>7. ASSUME NEW t \in Ids, WatcherFails(t)
      PROVE  TurnInv'
  <2>1. faults' # 0 /\ UNCHANGED <<landed, torn>>
    BY <1>0, <1>7 DEF WatcherFails, Fails, TablesOK
  <2>. QED  BY <1>0, <2>1 DEF TurnInv, Counting
<1>8. ASSUME NEW c \in Senders, Turn(c)
      PROVE  TurnInv'
  <2>1. Persist
    BY <1>8, TurnPersists
  <2>2. UNCHANGED <<faults, restarts>>
    BY <1>8 DEF Turn, SendTurn, LockTurn, ApplyNew, ApplyInsert, ApplyContinue, ApplyBusy,
                AllApplied, RecordTurn, TurnDone
  <2>3. Once => Once'
    BY <1>0, <1>8, <2>1, TurnOnce
  <2>4. Counting'
    BY <1>0, <1>8, TurnCounts
  <2>. QED  BY <2>2, <2>3, <2>4 DEF TurnInv
<1>9. ASSUME NEW c \in Senders, TurnFails(c)
      PROVE  TurnInv'
  <2>1. faults' # 0 /\ UNCHANGED <<landed, torn>>
    BY <1>0, <1>9 DEF TurnFails, Fails, TablesOK
  <2>. QED  BY <1>0, <2>1 DEF TurnInv, Counting
<1>10. CASE Restart
  <2>1. restarts' # 0 /\ UNCHANGED <<landed, torn>>
    BY <1>0, <1>10 DEF Restart, TablesOK
  <2>. QED  BY <1>0, <2>1 DEF TurnInv, Counting
<1>11. CASE UNCHANGED vars
  <2>1. UNCHANGED <<topics, session, lastTopic, watcher>>
    BY <1>11 DEF vars
  <2>2. Persist
    BY <1>0, <2>1, QuietMoves, MovesPersist
  <2>. QED  BY <1>a, <1>11, <2>2 DEF vars
<1>. QED
  BY <1>1, <1>2, <1>3, <1>4, <1>5, <1>6, <1>7, <1>8, <1>9, <1>10, <1>11 DEF Next

\* No turn has landed at first.
LEMMA TurnsInit ==
  ASSUME Init
  PROVE  TurnInv
<1>1. landed = [u \in Turns |-> 0] /\ torn = [u \in Turns |-> 0]
      /\ sender = [c \in Senders |-> IdleSender]
  BY DEF Init
<1>2. \A c \in Senders : Pc(c) = "idle"
  BY <1>1, IdleIsCall DEF Pc
<1>3. \A c \in Senders : ~Holding(c)
  BY <1>2 DEF Holding
<1>4. Counting /\ \A u \in Turns : Tally(u) /\ ~Counted(u)
  BY <1>1 DEF Counting, Tally, Counted
<1>. QED  BY <1>3, <1>4 DEF TurnInv, Once, OneHolder

\* A turn lands again only where a delivery of it was cut half way, for any number of
\* retries, resets and other calls and whatever the classifier splits a message into:
\* whatever else ends a call leaves its landing recorded for a topic that is still there,
\* or the session of it gone (lock_turn, already_delivered, record_turn).
THEOREM TurnsLandOnce == Spec => []TurnLandsOnce
<1>1. Init => TurnInv
  BY TurnsInit
<1>2. (TopicInv /\ CallsOK) /\ TurnInv /\ [Next]_vars => TurnInv'
  BY TurnsStep
<1>3. TurnInv => TurnLandsOnce
  <2>1. SUFFICES ASSUME TurnInv, faults = 0, restarts = 0, NEW u \in Turns
                 PROVE  landed[u] <= 1 + torn[u]
    BY DEF TurnLandsOnce
  <2>2. Tally(u) /\ landed[u] \in Nat /\ torn[u] \in Nat
    BY <2>1 DEF TurnInv, Once, Counting
  <2>. QED  BY <2>2 DEF Tally
<1>. QED  BY <1>1, <1>2, <1>3, TopicsInvariant, PTL DEF Spec

-----------------------------------------------------------------------------
(* Routing: TurnsReachTopicsWhole *)

Words      == [themes : SUBSET Nat, alone : BOOLEAN, whole : BOOLEAN]
RouteSteps == [topic : Nat, question : Words]

Stages     == {"decide", "split", "judge", "rewrite", "clarify", "act"}

Intents ==
  [pc : Stages, count : 0..Summaries, focus : Nat, recent : Nat,
   themes : SUBSET Nat, leans : BOOLEAN,
   route : Nat, leaning : BOOLEAN, idle : BOOLEAN, again : BOOLEAN,
   actions : Seq(RouteSteps), unjudged : SUBSET Nat]

IntentTypeOK == intent \in Intents

\* What the routing of a message is given.
Given ==
  /\ intent.themes # {}
  /\ intent.focus \in Topics \cup {New}
  /\ intent.count > 0 => intent.recent \in Topics

\* Where the decision says it belongs.  Only a session with topics is asked.
Routed ==
  /\ intent.route \in Topics \cup {New, Unknown}
  /\ intent.route = Unknown => intent.count > 0
  /\ intent.pc \in {"decide", "split", "judge"} => intent.route = New
  /\ intent.pc = "decide" => ~intent.leaning
  /\ intent.pc = "rewrite" => intent.leaning /\ intent.count > 0

\* A split that has been parsed: its new questions ask for themes of the message, and
\* what continues a topic has no question of its own.
SplitOK(actions) ==
  /\ actions # <<>>
  /\ \A i \in DOMAIN actions :
       /\ actions[i].topic \in Topics \cup {New}
       /\ actions[i].topic = New =>
            actions[i].question.themes # {} /\ actions[i].question.themes \subseteq intent.themes
       /\ actions[i].topic # New => actions[i].question = Blank

IntentInv ==
  /\ IntentTypeOK
  /\ Given
  /\ Routed
  /\ intent.pc # "act" => intent.unjudged = {}
  /\ intent.pc = "judge" => SplitOK(intent.actions)
  /\ TurnsReachTopicsWhole

\* What TurnsReachTopicsWhole asks of the actions of a message with this route.
Reaches(actions, unjudged, leaning, route) ==
  /\ UNION {Carried(actions[i]).themes : i \in DOMAIN actions} = intent.themes
  /\ \A i \in DOMAIN actions :
       LET a == actions[i] IN
       /\ a.topic \in Topics \cup {New}
       /\ Carried(a).alone \/ Carried(a).whole \/ i \in unjudged
  /\ leaning /\ route = Unknown => actions[1].topic \in Topics

\* The judge's verdict on a new question is found by its place among the new ones.
LEMMA VerdictsFind ==
  ASSUME NEW S, NEW actions \in Seq(S), NEW i \in NewOnes(actions)
  PROVE  /\ At(actions, i) \in DOMAIN Questions(actions)
         /\ Questions(actions)[At(actions, i)] = i
<1>. DEFINE s == [k \in DOMAIN actions |-> k]
            asked == Questions(actions)
            n == Len(actions)
<1>1. n \in Nat /\ s \in Seq(1..n) /\ Len(s) = n /\ \A k \in 1..n : s[k] = k
  OBVIOUS
<1>2. asked = Only(s, NewOnes(actions))
  BY DEF Questions
<1>. HIDE DEF s, asked, n
<1>3. asked \in Seq(1..n)
  BY <1>1, <1>2, OnlyIsAFilter
<1>4. PICK e : Embeds(e, asked, s, NewOnes(actions), n)
  BY <1>1, <1>2, OnlyIsAFilter
<1>5. i \in 1..n
  BY DEF NewOnes, n
<1>6. NewOnes(actions) \subseteq 1..n
  BY DEF NewOnes, n
<1>7. /\ e \in [1..Len(asked) -> 1..n]
      /\ \A k \in 1..Len(asked) : asked[k] = e[k] /\ e[k] \in NewOnes(actions)
      /\ \A j, k \in 1..Len(asked) : j < k => e[j] < e[k]
      /\ \A k \in NewOnes(actions) : \E j \in 1..Len(asked) : e[j] = k
  <2>1. \A k \in NewOnes(actions) : k \in 1..n /\ s[k] = k
    BY <1>1, <1>6
  <2>2. \A k \in 1..Len(asked) : e[k] \in 1..n /\ s[e[k]] = e[k]
    BY <1>1, <1>4 DEF Embeds
  <2>3. \A k \in NewOnes(actions) : \E j \in 1..Len(asked) : e[j] = k
    BY <1>4, <2>1 DEF Embeds
  <2>. QED  BY <1>4, <2>2, <2>3 DEF Embeds
<1>8. PICK m \in 1..Len(asked) : e[m] = i
  BY <1>7
<1>. DEFINE Before == {j \in NewOnes(actions) : j <= i}
            g == [k \in 1..m |-> e[k]]
<1>9. m \in Nat /\ Len(asked) \in Nat /\ m \in 1..Len(asked) /\ 1..m \subseteq 1..Len(asked)
  BY <1>3
<1>10. \A k \in 1..m : e[k] \in Before
  BY <1>1, <1>5, <1>7, <1>8, <1>9
<1>11. \A k \in Before : \E j \in 1..m : e[j] = k
  <2>1. TAKE k \in Before
  <2>2. PICK j \in 1..Len(asked) : e[j] = k
    BY <1>7
  <2>3. ~(m < j)
    BY <1>1, <1>5, <1>7, <1>8, <1>9, <2>2
  <2>. QED  BY <1>9, <2>2, <2>3
<1>12. \A j, k \in 1..m : e[j] = e[k] => j = k
  <2>1. TAKE j, k \in 1..m
  <2>2. j \in 1..Len(asked) /\ k \in 1..Len(asked) /\ j \in Nat /\ k \in Nat
    BY <1>9
  <2>3. e[j] \in Nat /\ e[k] \in Nat
    <3>1. e[j] \in 1..n /\ e[k] \in 1..n
      BY <1>7, <2>2
    <3>. QED  BY <1>1, <3>1
  <2>4. (j < k => e[j] < e[k]) /\ (k < j => e[k] < e[j])
    BY <1>7, <2>2
  <2>. QED  BY <2>2, <2>3, <2>4
<1>13. g \in Bijection(1..m, Before)
  BY <1>10, <1>11, <1>12 DEF Bijection, Injection, Surjection, IsInjective
<1>14. ExistsBijection(1..m, Before)
  BY <1>13 DEF ExistsBijection
<1>15. IsFiniteSet(1..m) /\ Cardinality(1..m) = m
  BY <1>9, FS_Interval
<1>16. Cardinality(Before) = m
  BY <1>14, <1>15, FS_Bijection
<1>17. At(actions, i) = m
  BY <1>16 DEF At
<1>18. asked[m] = i /\ m \in DOMAIN asked
  BY <1>3, <1>7, <1>8, <1>9
<1>. QED  BY <1>17, <1>18 DEF asked

\* The message itself, in the terms its topics are told.
LEMMA MessageIs ==
  ASSUME IntentTypeOK
  PROVE  /\ Message \in Words
         /\ Message.themes = intent.themes /\ Message.whole = TRUE
         /\ Text(intent.themes, TRUE, FALSE) \in Words
         /\ Text(intent.themes, TRUE, FALSE).themes = intent.themes
         /\ Text(intent.themes, TRUE, FALSE).alone = TRUE
         /\ Blank \in Words /\ Blank.themes = {}
  BY DEF IntentTypeOK, Intents, Message, Text, Blank, Words

\* One action that carries the message, or a rewrite of it, reaches one topic whole.
LEMMA OneReaches ==
  ASSUME IntentTypeOK, Given, NEW to \in Topics \cup {New}, NEW text \in Words,
         text.themes = intent.themes, text.alone = TRUE \/ text.whole = TRUE,
         NEW unjudged, NEW leaning, NEW route,
         leaning /\ route = Unknown => to \in Topics
  PROVE  /\ << [topic |-> to, question |-> text] >> \in Seq(RouteSteps)
         /\ Reaches(<< [topic |-> to, question |-> text] >>, unjudged, leaning, route)
<1>. DEFINE a == [topic |-> to, question |-> text]
            s == <<a>>
<1>1. a.topic = to /\ a.question = text
  OBVIOUS
<1>2. a \in RouteSteps
  BY DEF RouteSteps, IntentTypeOK, Intents, Topics, New
<1>3. s \in Seq(RouteSteps) /\ DOMAIN s = {1} /\ s[1] = a
  BY <1>2
<1>4. text # Blank
  BY MessageIs DEF Given
<1>5. Carried(a) = text
  BY <1>1, <1>4 DEF Carried
<1>. HIDE DEF a, s
<1>6. {Carried(s[i]).themes : i \in DOMAIN s} = {intent.themes}
  BY <1>3, <1>5
<1>7. Reaches(s, unjudged, leaning, route)
  BY <1>1, <1>3, <1>5, <1>6 DEF Reaches
<1>. QED  BY <1>3, <1>7 DEF s, a

\* i is the message with these fields; the others stay.
Fields(i, pc, route, leaning, idle, again, actions, unjudged) ==
  /\ i \in Intents
  /\ i.count = intent.count /\ i.focus = intent.focus /\ i.recent = intent.recent
  /\ i.themes = intent.themes /\ i.leans = intent.leans
  /\ i.pc = pc /\ i.route = route /\ i.leaning = leaning /\ i.idle = idle /\ i.again = again
  /\ i.actions = actions /\ i.unjudged = unjudged

\* The fields of the message as it is.
LEMMA IntentFields ==
  ASSUME IntentTypeOK
  PROVE  /\ Fields(intent, intent.pc, intent.route, intent.leaning, intent.idle, intent.again,
                   intent.actions, intent.unjudged)
         /\ intent.leaning \in BOOLEAN /\ intent.idle \in BOOLEAN
         /\ intent.again \in BOOLEAN /\ intent.actions \in Seq(RouteSteps)
  BY DEF IntentTypeOK, Intents, Fields

\* The stages of a message.
LEMMA StageNames ==
  /\ "decide" \in Stages /\ "split" \in Stages /\ "judge" \in Stages
  /\ "rewrite" \in Stages /\ "clarify" \in Stages /\ "act" \in Stages
  BY DEF Stages

\* A step that only moves on to another stage.
LEMMA StageSet ==
  ASSUME NEW i, NEW pc, NEW route, NEW leaning, NEW idle, NEW again, NEW actions, NEW unjudged,
         Fields(i, pc, route, leaning, idle, again, actions, unjudged), NEW p \in Stages
  PROVE  Fields([i EXCEPT !.pc = p], p, route, leaning, idle, again, actions, unjudged)
  BY DEF Fields, Intents

\* A step that only replaces the actions.
LEMMA ActionsSet ==
  ASSUME NEW i, NEW pc, NEW route, NEW leaning, NEW idle, NEW again, NEW actions, NEW unjudged,
         Fields(i, pc, route, leaning, idle, again, actions, unjudged),
         NEW a \in Seq(RouteSteps)
  PROVE  Fields([i EXCEPT !.actions = a], pc, route, leaning, idle, again, a, unjudged)
  BY DEF Fields, Intents

\* A step that acts on the message.
LEMMA Acted ==
  ASSUME NEW i, NEW pc, NEW route, NEW leaning, NEW idle, NEW again, NEW actions, NEW unjudged,
         Fields(i, pc, route, leaning, idle, again, actions, unjudged),
         NEW a \in Seq(RouteSteps)
  PROVE  Fields([i EXCEPT !.pc = "act", !.actions = a],
                "act", route, leaning, idle, again, a, unjudged)
  BY DEF Fields, Intents, Stages

\* What the invariant asks of the fields that change.
Consistent(pc, route, leaning, actions, unjudged) ==
  /\ route \in Topics \cup {New, Unknown}
  /\ route = Unknown => intent.count > 0
  /\ pc \in {"decide", "split", "judge"} => route = New
  /\ pc = "decide" => ~leaning
  /\ pc = "rewrite" => leaning /\ intent.count > 0
  /\ pc # "act" => unjudged = {}
  /\ pc = "judge" => SplitOK(actions)
  /\ pc = "act" => Reaches(actions, unjudged, leaning, route)

\* A step whose fields are consistent keeps the invariant.
LEMMA FieldsKeep ==
  ASSUME IntentTypeOK, Given,
         NEW pc, NEW route, NEW leaning, NEW idle, NEW again, NEW actions, NEW unjudged,
         Consistent(pc, route, leaning, actions, unjudged),
         NEW j, intent' = j, Fields(j, pc, route, leaning, idle, again, actions, unjudged)
  PROVE  IntentInv'
<1>1. /\ intent'.pc = pc /\ intent'.count = intent.count /\ intent'.focus = intent.focus
      /\ intent'.recent = intent.recent /\ intent'.themes = intent.themes
      /\ intent'.leans = intent.leans /\ intent'.route = route /\ intent'.leaning = leaning
      /\ intent'.actions = actions /\ intent'.unjudged = unjudged
  BY DEF Fields
<1>2. Topics' = Topics /\ Message' = Message
  BY <1>1 DEF Topics, Message
<1>4. IntentTypeOK'
  BY DEF IntentTypeOK, Fields
<1>5. Given'
  BY <1>1, <1>2 DEF Given
<1>6. Routed'
  BY <1>1, <1>2 DEF Routed, Consistent
<1>7. (intent.pc # "act" => intent.unjudged = {})'
  BY <1>1 DEF Consistent
<1>8. (intent.pc = "judge" => SplitOK(intent.actions))'
  BY <1>1, <1>2 DEF SplitOK, Consistent
<1>9. TurnsReachTopicsWhole'
  <2>1. \A a : Carried(a)' = Carried(a)
    BY <1>2 DEF Carried
  <2>2. SUFFICES ASSUME pc = "act"
        PROVE  TurnsReachTopicsWhole'
    BY <1>1 DEF TurnsReachTopicsWhole
  <2>. QED  BY <1>1, <1>2, <2>1, <2>2 DEF TurnsReachTopicsWhole, Reaches, Carried, Consistent
<1>. QED  BY <1>4, <1>5, <1>6, <1>7, <1>8, <1>9 DEF IntentInv

\* A message that is not split carries its question to one topic.
LEMMA PlacedReaches ==
  ASSUME IntentTypeOK, Given, NEW i,
         i.count = intent.count, i.focus = intent.focus, i.recent = intent.recent,
         i.route \in Topics \cup {New, Unknown}, i.route = Unknown => intent.count > 0,
         i.leaning \in BOOLEAN,
         NEW text \in Words, text.themes = intent.themes, text.alone = TRUE \/ text.whole = TRUE
  PROVE  /\ Placed(i, text) \in Seq(RouteSteps)
         /\ Reaches(Placed(i, text), {}, i.leaning, i.route)
<1>1. New \notin Topics /\ Unknown \notin Topics /\ New # Unknown
  BY IntentAssumption DEF IntentTypeOK, Intents, Topics, New, Unknown
<1>2. CASE i.route = New
  <2>1. Placed(i, text) = << [topic |-> New, question |-> text] >>
    BY <1>1, <1>2 DEF Placed
  <2>2. New \in Topics \cup {New} /\ ~(i.leaning /\ i.route = Unknown)
    BY <1>1, <1>2
  <2>. QED  BY <2>1, <2>2, OneReaches
<1>3. CASE i.route \in Topics
  <2>1. Placed(i, text) = << [topic |-> i.route, question |-> text] >>
    BY <1>1, <1>3 DEF Placed
  <2>. QED  BY <1>1, <1>3, <2>1, OneReaches
<1>4. CASE i.route = Unknown
  <2>. DEFINE focus == IF i.leaning /\ i.focus = New THEN i.recent ELSE i.focus
              to == IF focus \in Topics THEN focus ELSE New
  <2>1. Placed(i, text) = << [topic |-> to, question |-> text] >>
    BY <1>1, <1>4 DEF Placed, Unplaced, ContinueFocusOrOpenOneTopic
  <2>2. i.leaning => to \in Topics
    BY <1>4 DEF Given
  <2>3. to \in Topics \cup {New}
    OBVIOUS
  <2>. HIDE DEF to
  <2>. QED  BY <1>4, <2>1, <2>2, <2>3, OneReaches
<1>. QED  BY <1>2, <1>3, <1>4

\* AskedAlone and Unsplit, from a message not yet acted on.
LEMMA AskedAloneKeeps ==
  ASSUME IntentTypeOK, Given, NEW i, NEW pc \in {"decide", "split", "judge"},
         NEW route \in Topics \cup {New, Unknown}, route = Unknown => intent.count > 0,
         NEW leaning \in BOOLEAN, NEW idle \in BOOLEAN,
         NEW again \in BOOLEAN, NEW actions \in Seq(RouteSteps),
         Fields(i, pc, route, leaning, idle, again, actions, {}),
         intent' = AskedAlone(i)
  PROVE  IntentInv'
<1>1. /\ i.count = intent.count /\ i.focus = intent.focus /\ i.recent = intent.recent
      /\ i.route = route /\ i.leaning = leaning
  BY DEF Fields
<1>2. CASE leaning /\ intent.count > 0
  <2>. DEFINE j == [i EXCEPT !.pc = "rewrite"]
  <2>1. intent' = j
    BY <1>1, <1>2 DEF AskedAlone, Earlier
  <2>2. Fields(j, "rewrite", route, leaning, idle, again, actions, {})
    BY StageSet, StageNames, Zenon
  <2>3. Consistent("rewrite", route, leaning, actions, {})
    BY <1>2 DEF Consistent
  <2>. HIDE DEF j
  <2>. QED  BY <2>1, <2>2, <2>3, FieldsKeep, Zenon
<1>3. CASE ~(leaning /\ intent.count > 0)
  <2>. DEFINE placed == Placed(i, Message)
              j == [i EXCEPT !.pc = "act", !.actions = placed]
  <2>1. intent' = j
    BY <1>1, <1>3 DEF AskedAlone, Earlier
  <2>2. placed \in Seq(RouteSteps) /\ Reaches(placed, {}, leaning, route)
    BY <1>1, MessageIs, PlacedReaches
  <2>. HIDE DEF placed
  <2>3. Fields(j, "act", route, leaning, idle, again, placed, {})
    BY <2>2, Acted, Zenon
  <2>4. Consistent("act", route, leaning, placed, {})
    BY <2>2 DEF Consistent
  <2>. HIDE DEF j
  <2>. QED  BY <2>1, <2>3, <2>4, FieldsKeep, Zenon
<1>. QED  BY <1>2, <1>3

\* A message whose split came to nothing asks back or is asked alone.
LEMMA UnsplitKeeps ==
  ASSUME IntentTypeOK, Given, NEW i, NEW pc \in {"decide", "split", "judge"},
         NEW leaning \in BOOLEAN, NEW idle \in BOOLEAN,
         NEW again \in BOOLEAN, NEW actions \in Seq(RouteSteps),
         Fields(i, pc, New, leaning, idle, again, actions, {}),
         intent' = Unsplit(i)
  PROVE  IntentInv'
<1>1. i.idle = idle
  BY DEF Fields
<1>2. New # Unknown
  BY IntentAssumption DEF New, Unknown
<1>3. CASE idle
  <2>. DEFINE j == [i EXCEPT !.pc = "clarify"]
  <2>1. intent' = j
    BY <1>1, <1>3 DEF Unsplit
  <2>2. Fields(j, "clarify", New, leaning, idle, again, actions, {})
    BY StageSet, StageNames, Zenon
  <2>3. Consistent("clarify", New, leaning, actions, {})
    BY <1>2 DEF Consistent
  <2>. HIDE DEF j
  <2>. QED  BY <2>1, <2>2, <2>3, FieldsKeep, Zenon
<1>4. CASE ~idle
  <2>1. intent' = AskedAlone(i)
    BY <1>1, <1>4 DEF Unsplit
  <2>. QED  BY <1>2, <2>1, AskedAloneKeeps
<1>. QED  BY <1>3, <1>4

\* A message that has not been acted on, by its fields.
LEMMA AtStage ==
  ASSUME IntentInv, NEW pc, intent.pc = pc, pc # "act"
  PROVE  /\ IntentTypeOK /\ Given
         /\ Fields(intent, pc, intent.route, intent.leaning, intent.idle, intent.again,
                   intent.actions, {})
         /\ intent.leaning \in BOOLEAN /\ intent.idle \in BOOLEAN
         /\ intent.again \in BOOLEAN /\ intent.actions \in Seq(RouteSteps)
<1>1. intent.unjudged = {}
  BY DEF IntentInv
<1>. QED  BY <1>1, IntentFields DEF IntentInv

\* The actions the message lands with, after a step that acts on it.
LEMMA ActKeeps ==
  ASSUME IntentTypeOK, Given, NEW i, NEW pc, NEW route, NEW leaning, NEW idle, NEW again,
         NEW actions, NEW a \in Seq(RouteSteps),
         Fields(i, pc, route, leaning, idle, again, actions, {}),
         route \in Topics \cup {New, Unknown}, route = Unknown => intent.count > 0,
         Reaches(a, {}, leaning, route),
         intent' = [i EXCEPT !.pc = "act", !.actions = a]
  PROVE  IntentInv'
<1>. DEFINE j == [i EXCEPT !.pc = "act", !.actions = a]
<1>1. Fields(j, "act", route, leaning, idle, again, a, {})
  BY Acted, Zenon
<1>2. Consistent("act", route, leaning, a, {})
  BY DEF Consistent
<1>3. intent' = j
  OBVIOUS
<1>. HIDE DEF j
<1>. QED  BY <1>1, <1>2, <1>3, FieldsKeep, Zenon

\* The decision is in: another stage, or the topic it goes to.
LEMMA DecideKeeps ==
  ASSUME IntentInv, Decide
  PROVE  IntentInv'
<1>1. intent.pc = "decide"
  BY DEF Decide
<1>2. /\ IntentTypeOK /\ Given
      /\ Fields(intent, "decide", intent.route, intent.leaning, intent.idle, intent.again,
                intent.actions, {})
      /\ intent.again \in BOOLEAN /\ intent.actions \in Seq(RouteSteps)
  BY <1>1, AtStage
<1>3. PICK capped, leaning, idle, several \in BOOLEAN :
      \E r \in Routes(capped) :
        LET i == [intent EXCEPT !.route = r, !.leaning = leaning, !.idle = idle]
        IN  intent' = IF r # New THEN AskedAlone(i)
                      ELSE IF several THEN [i EXCEPT !.pc = "split"] ELSE Unsplit(i)
  BY DEF Decide
<1>4. PICK route \in Routes(capped) :
      LET i == [intent EXCEPT !.route = route, !.leaning = leaning, !.idle = idle]
      IN  intent' = IF route # New THEN AskedAlone(i)
                    ELSE IF several THEN [i EXCEPT !.pc = "split"] ELSE Unsplit(i)
  BY <1>3
<1>5. route \in Topics \cup {New, Unknown} /\ (route = Unknown => intent.count > 0)
  BY IntentAssumption DEF Routes, RouteAsked, Offered, New, Unknown
<1>6. route \in Nat
  BY <1>2, <1>5, IntentAssumption DEF IntentTypeOK, Intents, Topics, New, Unknown
<1>. DEFINE i == [intent EXCEPT !.route = route, !.leaning = leaning, !.idle = idle]
<1>7. Fields(i, "decide", route, leaning, idle, intent.again, intent.actions, {})
  BY <1>2, <1>6 DEF Fields, Intents
<1>8. intent' = IF route # New THEN AskedAlone(i)
                ELSE IF several THEN [i EXCEPT !.pc = "split"] ELSE Unsplit(i)
  BY <1>4
<1>9. PICK again, actions : again = intent.again /\ actions = intent.actions
  OBVIOUS
<1>. HIDE DEF i
<1>10. /\ Fields(i, "decide", route, leaning, idle, again, actions, {})
       /\ again \in BOOLEAN /\ actions \in Seq(RouteSteps)
  BY <1>2, <1>7, <1>9
<1>11. PICK k : k = i
  OBVIOUS
<1>12. Fields(k, "decide", route, leaning, idle, again, actions, {})
  BY <1>10, <1>11
<1>13. CASE route # New
  <2>1. intent' = AskedAlone(k)
    BY <1>8, <1>11, <1>13
  <2>. QED  BY <1>2, <1>5, <1>10, <1>12, <2>1, AskedAloneKeeps
<1>14. CASE route = New /\ several
  <2>. DEFINE j == [k EXCEPT !.pc = "split"]
  <2>1. intent' = j
    BY <1>8, <1>11, <1>14
  <2>2. Fields(j, "split", route, leaning, idle, again, actions, {})
    BY <1>12, StageSet, StageNames, Zenon
  <2>3. Consistent("split", route, leaning, actions, {})
    BY <1>5, <1>14 DEF Consistent
  <2>. HIDE DEF j
  <2>. QED  BY <1>2, <2>1, <2>2, <2>3, FieldsKeep, Zenon
<1>15. CASE route = New /\ ~several
  <2>1. intent' = Unsplit(k)
    BY <1>8, <1>11, <1>15
  <2>2. Fields(k, "decide", New, leaning, idle, again, actions, {})
    BY <1>12, <1>15
  <2>. QED  BY <1>2, <1>10, <2>1, <2>2, UnsplitKeeps
<1>. QED  BY <1>13, <1>14, <1>15

\* No decision: the focus gets the whole message.
LEMMA DecideFailsKeeps ==
  ASSUME IntentInv, DecideFails
  PROVE  IntentInv'
<1>1. intent.pc = "decide"
  BY DEF DecideFails
<1>2. /\ IntentTypeOK /\ Given
      /\ Fields(intent, "decide", intent.route, intent.leaning, intent.idle, intent.again,
                intent.actions, {})
  BY <1>1, AtStage
<1>3. /\ ~intent.leaning
      /\ intent.route \in Topics \cup {New, Unknown}
      /\ intent.route = Unknown => intent.count > 0
  BY <1>1 DEF IntentInv, Routed
<1>. DEFINE to == IF intent.focus \in Topics THEN intent.focus ELSE New
            a == << [topic |-> to, question |-> Message] >>
<1>4. intent' = [intent EXCEPT !.pc = "act", !.actions = a]
  BY DEF DecideFails, Act, ContinueFocusOrOpenOneTopic
<1>5. to \in Topics \cup {New}
  OBVIOUS
<1>6. PICK r, l, t, text : r = intent.route /\ l = intent.leaning /\ t = to /\ text = Message
  OBVIOUS
<1>7. << [topic |-> t, question |-> text] >> \in Seq(RouteSteps)
      /\ Reaches(<< [topic |-> t, question |-> text] >>, {}, l, r)
  <2>1. t \in Topics \cup {New} /\ text \in Words /\ text.themes = intent.themes /\ text.whole = TRUE
    BY <1>2, <1>5, <1>6, MessageIs
  <2>2. ~l
    BY <1>3, <1>6
  <2>. QED  BY <1>2, <2>1, <2>2, OneReaches
<1>8. a \in Seq(RouteSteps) /\ Reaches(a, {}, intent.leaning, intent.route)
  BY <1>6, <1>7
<1>. HIDE DEF a, to
<1>9. PICK i, b, idle, again, actions :
        i = intent /\ b = a /\ idle = intent.idle /\ again = intent.again /\ actions = intent.actions
  OBVIOUS
<1>10. /\ Fields(i, "decide", r, l, idle, again, actions, {})
       /\ b \in Seq(RouteSteps) /\ Reaches(b, {}, l, r)
       /\ intent' = [i EXCEPT !.pc = "act", !.actions = b]
       /\ r \in Topics \cup {New, Unknown} /\ (r = Unknown => intent.count > 0)
  BY <1>2, <1>3, <1>4, <1>6, <1>8, <1>9
<1>. QED  BY <1>2, <1>10, ActKeeps

\* The rewrite, or the message as it was, goes where the route says.
LEMMA RewriteKeeps ==
  ASSUME IntentInv, Rewrite
  PROVE  IntentInv'
<1>1. intent.pc = "rewrite"
  BY DEF Rewrite
<1>2. /\ IntentTypeOK /\ Given
      /\ Fields(intent, "rewrite", intent.route, intent.leaning, intent.idle, intent.again,
                intent.actions, {})
      /\ intent.leaning \in BOOLEAN
  BY <1>1, AtStage
<1>3. /\ intent.route \in Topics \cup {New, Unknown}
      /\ intent.route = Unknown => intent.count > 0
  BY DEF IntentInv, Routed
<1>4. PICK text \in {Message, Text(intent.themes, TRUE, FALSE)} :
        intent' = Act(Placed(intent, text))
  BY DEF Rewrite
<1>5. text \in Words /\ text.themes = intent.themes /\ (text.alone = TRUE \/ text.whole = TRUE)
  BY <1>2, MessageIs
<1>6. PICK i : i = intent
  OBVIOUS
<1>7. Placed(i, text) \in Seq(RouteSteps) /\ Reaches(Placed(i, text), {}, i.leaning, i.route)
  BY <1>2, <1>3, <1>5, <1>6, PlacedReaches
<1>8. PICK a : a = Placed(i, text)
  OBVIOUS
<1>9. PICK r, l, idle, again, actions :
        /\ r = i.route /\ l = i.leaning /\ idle = i.idle /\ again = i.again
        /\ actions = i.actions
  OBVIOUS
<1>10. /\ Fields(i, "rewrite", r, l, idle, again, actions, {})
       /\ a \in Seq(RouteSteps) /\ Reaches(a, {}, l, r)
       /\ r \in Topics \cup {New, Unknown} /\ (r = Unknown => intent.count > 0)
  BY <1>2, <1>3, <1>6, <1>7, <1>8, <1>9
<1>11. intent' = [i EXCEPT !.pc = "act", !.actions = a]
  BY <1>4, <1>6, <1>8 DEF Act
<1>. QED  BY <1>2, <1>10, <1>11, ActKeeps

\* What is left of a split once it has been parsed.
LEMMA ParsedIs ==
  ASSUME IntentTypeOK, NEW raw \in Seq(RawActions)
  PROVE  /\ ParseActions(raw) \in Seq(RouteSteps)
         /\ ParseActions(raw) # <<>> => SplitOK(ParseActions(raw))
<1>. DEFINE keep == {a \in RawActions : IF a.topic = New THEN a.question.themes # {}
                                        ELSE a.topic \in Topics}
            actions == ParseActions(raw)
<1>1. actions = Only(raw, keep)
  BY DEF ParseActions
<1>. HIDE DEF keep, actions
<1>2. PICK e : Embeds(e, actions, raw, keep, Len(raw))
  BY <1>1, OnlyIsAFilter
<1>3. actions \in Seq(RawActions)
  BY <1>1, OnlyIsAFilter
<1>4. \A i \in DOMAIN actions : actions[i] \in keep
  <2>1. \A i \in 1..Len(actions) : actions[i] \in keep
    BY <1>2 DEF Embeds
  <2>. QED  BY <1>3, <2>1
<1>5. ASSUME NEW a \in RawActions
      PROVE  /\ a \in RouteSteps
             /\ a.topic = New => a.question.themes \subseteq intent.themes
             /\ a.topic # New => a.question = Blank
  <2>1. CASE a \in [topic : {New},
                    question : [themes : SUBSET intent.themes, alone : BOOLEAN, whole : {FALSE}]]
    <3>1. /\ a.question \in [themes : SUBSET intent.themes, alone : BOOLEAN, whole : {FALSE}]
          /\ a = [topic |-> a.topic, question |-> a.question] /\ a.topic = New
      BY <2>1
    <3>2. intent.themes \in SUBSET Nat
      BY DEF IntentTypeOK, Intents
    <3>3. a.question \in Words /\ a.question.themes \subseteq intent.themes
      BY <3>1, <3>2 DEF Words
    <3>. QED  BY <3>1, <3>3 DEF RouteSteps, New
  <2>2. CASE a \in [topic : Topics \cup {Unknown}, question : {Blank}]
    <3>1. /\ a.question = Blank /\ a.topic \in Topics \cup {Unknown}
          /\ a = [topic |-> a.topic, question |-> a.question]
      BY <2>2
    <3>2. a.topic \in Nat /\ a.topic # New
      BY <3>1, IntentAssumption DEF IntentTypeOK, Intents, Topics, Unknown, New
    <3>. QED  BY <3>1, <3>2, MessageIs DEF RouteSteps
  <2>. QED  BY <2>1, <2>2 DEF RawActions
<1>6. RawActions \subseteq RouteSteps
  BY <1>5
<1>7. actions \in Seq(RouteSteps)
  BY <1>3, <1>6
<1>8. ASSUME NEW i \in DOMAIN actions
      PROVE  /\ actions[i].topic \in Topics \cup {New}
             /\ actions[i].topic = New =>
                  actions[i].question.themes # {} /\ actions[i].question.themes \subseteq intent.themes
             /\ actions[i].topic # New => actions[i].question = Blank
  <2>1. PICK a : a = actions[i]
    OBVIOUS
  <2>2. a \in RawActions /\ (IF a.topic = New THEN a.question.themes # {} ELSE a.topic \in Topics)
    BY <1>4, <2>1 DEF keep
  <2>3. /\ a.topic \in Topics \cup {New}
        /\ a.topic = New => a.question.themes # {} /\ a.question.themes \subseteq intent.themes
        /\ a.topic # New => a.question = Blank
    BY <1>5, <2>2
  <2>. QED  BY <2>1, <2>3
<1>9. actions # <<>> => SplitOK(actions)
  BY <1>8 DEF SplitOK
<1>. QED  BY <1>7, <1>9 DEF actions

\* A split with no new question continues topics with the whole message.
LEMMA OldOnesReach ==
  ASSUME IntentTypeOK, Given, NEW actions \in Seq(RouteSteps), SplitOK(actions),
         Questions(actions) = <<>>, NEW leaning
  PROVE  Reaches(actions, {}, leaning, New)
<1>1. \A i \in DOMAIN actions : actions[i].topic # New
  <2>1. SUFFICES ASSUME NEW i \in DOMAIN actions, actions[i].topic = New
        PROVE  FALSE
    OBVIOUS
  <2>2. i \in NewOnes(actions)
    BY <2>1 DEF NewOnes
  <2>3. At(actions, i) \in DOMAIN Questions(actions)
    BY <2>2, VerdictsFind
  <2>. QED  BY <2>3
<1>2. \A i \in DOMAIN actions : Carried(actions[i]) = Message
  BY <1>1 DEF SplitOK, Carried
<1>3. 1 \in DOMAIN actions
  BY DEF SplitOK
<1>4. {Carried(actions[i]).themes : i \in DOMAIN actions} = {intent.themes}
  BY <1>2, <1>3, MessageIs
<1>5. New # Unknown
  BY IntentAssumption DEF New, Unknown
<1>6. \A i \in DOMAIN actions : actions[i].topic \in Topics \cup {New} /\ Carried(actions[i]).whole = TRUE
  BY <1>2, MessageIs DEF SplitOK
<1>. QED  BY <1>4, <1>5, <1>6 DEF Reaches

\* A parsed split is acted on, judged, or dropped when nothing is left of it.
LEMMA AskSplitKeeps ==
  ASSUME IntentInv, AskSplit
  PROVE  IntentInv'
<1>1. intent.pc = "split"
  BY DEF AskSplit
<1>2. /\ IntentTypeOK /\ Given
      /\ Fields(intent, "split", intent.route, intent.leaning, intent.idle, intent.again,
                intent.actions, {})
      /\ intent.leaning \in BOOLEAN /\ intent.idle \in BOOLEAN
      /\ intent.again \in BOOLEAN /\ intent.actions \in Seq(RouteSteps)
  BY <1>1, AtStage
<1>3. intent.route = New
  BY <1>1 DEF IntentInv, Routed
<1>4. PICK raw \in UNION {[1..n -> RawActions] : n \in 1..2} :
        LET actions == ParseActions(raw) IN
        intent' = IF actions = <<>> THEN Unsplit(intent)
                  ELSE IF Questions(actions) = <<>> THEN Act(actions)
                  ELSE [intent EXCEPT !.pc = "judge", !.actions = actions]
  BY DEF AskSplit
<1>5. raw \in Seq(RawActions)
  <2>1. PICK n \in 1..2 : raw \in [1..n -> RawActions]
    OBVIOUS
  <2>. QED  BY <2>1
<1>6. PICK split : split = ParseActions(raw)
  OBVIOUS
<1>7. split \in Seq(RouteSteps) /\ (split # <<>> => SplitOK(split))
  BY <1>2, <1>5, <1>6, ParsedIs
<1>8. PICK i, l, idle, again, actions :
        /\ i = intent /\ l = intent.leaning /\ idle = intent.idle /\ again = intent.again
        /\ actions = intent.actions
  OBVIOUS
<1>9. /\ Fields(i, "split", New, l, idle, again, actions, {})
      /\ l \in BOOLEAN /\ idle \in BOOLEAN /\ again \in BOOLEAN /\ actions \in Seq(RouteSteps)
  BY <1>2, <1>3, <1>8
<1>10. intent' = IF split = <<>> THEN Unsplit(i)
                 ELSE IF Questions(split) = <<>> THEN [i EXCEPT !.pc = "act", !.actions = split]
                 ELSE [i EXCEPT !.pc = "judge", !.actions = split]
  BY <1>4, <1>6, <1>8 DEF Act
<1>11. New # Unknown
  BY IntentAssumption DEF New, Unknown
<1>12. CASE split = <<>>
  <2>1. intent' = Unsplit(i)
    BY <1>10, <1>12
  <2>. QED  BY <1>2, <1>9, <2>1, UnsplitKeeps
<1>13. CASE split # <<>> /\ Questions(split) = <<>>
  <2>1. Reaches(split, {}, l, New)
    BY <1>2, <1>7, <1>13, OldOnesReach
  <2>2. intent' = [i EXCEPT !.pc = "act", !.actions = split]
    BY <1>10, <1>13
  <2>. QED  BY <1>2, <1>7, <1>9, <1>11, <2>1, <2>2, ActKeeps
<1>14. CASE split # <<>> /\ Questions(split) # <<>>
  <2>. DEFINE j == [i EXCEPT !.pc = "judge", !.actions = split]
  <2>1. intent' = j
    BY <1>10, <1>14
  <2>2. Fields(j, "judge", New, l, idle, again, split, {})
    BY <1>7, <1>9, StageNames DEF Fields, Intents
  <2>3. Consistent("judge", New, l, split, {})
    BY <1>7, <1>11, <1>14 DEF Consistent
  <2>. HIDE DEF j
  <2>. QED  BY <1>2, <2>1, <2>2, <2>3, FieldsKeep, Zenon
<1>. QED  BY <1>12, <1>13, <1>14

\* No split: the message goes on whole.
LEMMA AskSplitFailsKeeps ==
  ASSUME IntentInv, AskSplitFails
  PROVE  IntentInv'
<1>1. intent.pc = "split" /\ intent' = Unsplit(intent)
  BY DEF AskSplitFails
<1>2. intent.route = New
  BY <1>1 DEF IntentInv, Routed
<1>3. PICK i, l, idle, again, actions :
        /\ i = intent /\ l = intent.leaning /\ idle = intent.idle /\ again = intent.again
        /\ actions = intent.actions
  OBVIOUS
<1>4. /\ IntentTypeOK /\ Given
      /\ Fields(i, "split", New, l, idle, again, actions, {})
      /\ l \in BOOLEAN /\ idle \in BOOLEAN /\ again \in BOOLEAN /\ actions \in Seq(RouteSteps)
  BY <1>1, <1>2, <1>3, AtStage
<1>5. intent' = Unsplit(i)
  BY <1>1, <1>3
<1>. QED  BY <1>4, <1>5, UnsplitKeeps

\* A split that covers the message, once its questions are made to stand alone.
LEMMA JudgedReaches ==
  ASSUME IntentTypeOK, Given, NEW actions \in Seq(RouteSteps), SplitOK(actions),
         Covered(actions) = intent.themes,
         NEW verdicts \in Verdicts(actions), NEW unjudged, NEW leaning,
         \A k \in DOMAIN Questions(actions) :
           verdicts[k] = "none" => Questions(actions)[k] \in unjudged
  PROVE  /\ MadeToStandAlone(actions, verdicts) \in Seq(RouteSteps)
         /\ Reaches(MadeToStandAlone(actions, verdicts), unjudged, leaning, New)
<1>. DEFINE made == MadeToStandAlone(actions, verdicts)
            leans(i) == actions[i].topic = New /\ verdicts[At(actions, i)] = "leans"
<1>1. /\ made = [i \in DOMAIN actions |->
                   IF leans(i) THEN [actions[i] EXCEPT !.question = Scoped(@)] ELSE actions[i]]
      /\ DOMAIN actions = 1..Len(actions) /\ Len(actions) \in Nat
      /\ \A i \in DOMAIN actions : actions[i] \in RouteSteps
  BY DEF MadeToStandAlone
<1>2. ASSUME NEW a \in RouteSteps
      PROVE  /\ [a EXCEPT !.question = Scoped(@)] \in RouteSteps
             /\ [a EXCEPT !.question = Scoped(@)].topic = a.topic
             /\ [a EXCEPT !.question = Scoped(@)].question.themes = a.question.themes
             /\ [a EXCEPT !.question = Scoped(@)].question.whole = TRUE
  BY DEF RouteSteps, Words, Scoped, Text
<1>3. ASSUME NEW i \in DOMAIN actions
      PROVE  /\ made[i] \in RouteSteps
             /\ made[i].topic = actions[i].topic
             /\ leans(i) =>
                  made[i].question.themes = actions[i].question.themes /\ made[i].question.whole = TRUE
             /\ ~leans(i) => made[i] = actions[i]
  <2>1. PICK a : a = actions[i]
    OBVIOUS
  <2>2. made[i] = IF leans(i) THEN [a EXCEPT !.question = Scoped(@)] ELSE a
    BY <1>1, <2>1
  <2>3. a \in RouteSteps
    BY <1>1, <2>1
  <2>. HIDE DEF made, leans
  <2>4. CASE leans(i)
    <3>1. made[i] = [a EXCEPT !.question = Scoped(@)]
      BY <2>2, <2>4
    <3>. QED  BY <1>2, <2>1, <2>3, <2>4, <3>1
  <2>5. CASE ~leans(i)
    BY <2>1, <2>2, <2>3, <2>5
  <2>. QED  BY <2>4, <2>5
<1>4. made \in Seq(RouteSteps) /\ DOMAIN made = DOMAIN actions
  <2>1. DOMAIN made = 1..Len(actions) /\ made = [i \in 1..Len(actions) |-> made[i]]
    BY <1>1
  <2>2. \A i \in DOMAIN actions : made[i] \in RouteSteps
    BY <1>3
  <2>3. PICK n \in Nat : DOMAIN actions = 1..n
    BY <1>1
  <2>. HIDE DEF made, leans
  <2>4. made \in [1..n -> RouteSteps]
    BY <1>1, <2>1, <2>2, <2>3
  <2>. QED  BY <2>3, <2>4
<1>. HIDE DEF made
<1>5. ASSUME NEW i \in DOMAIN actions, actions[i].topic # New
      PROVE  Carried(made[i]) = Message
  BY <1>3, <1>5 DEF SplitOK, Carried
<1>6. ASSUME NEW i \in DOMAIN actions, actions[i].topic = New
      PROVE  /\ Carried(made[i]) = made[i].question
             /\ made[i].question.themes = actions[i].question.themes
             /\ actions[i].question.themes \subseteq intent.themes
  <2>1. actions[i].question.themes # {} /\ actions[i].question.themes \subseteq intent.themes
    BY <1>6 DEF SplitOK
  <2>2. made[i].question.themes = actions[i].question.themes
    BY <1>3
  <2>3. made[i].question # Blank
    BY <2>1, <2>2, MessageIs
  <2>. QED  BY <2>1, <2>2, <2>3 DEF Carried
<1>7. ASSUME NEW i \in DOMAIN actions
      PROVE  Carried(made[i]).alone \/ Carried(made[i]).whole \/ i \in unjudged
  <2>1. CASE actions[i].topic # New
    BY <1>5, <2>1, MessageIs
  <2>2. CASE leans(i)
    <3>1. made[i].question.whole = TRUE /\ Carried(made[i]) = made[i].question
      BY <1>3, <1>6, <2>2
    <3>. QED  BY <3>1
  <2>3. CASE actions[i].topic = New /\ ~leans(i)
    <3>1. i \in NewOnes(actions)
      BY <2>3 DEF NewOnes
    <3>2. PICK k \in DOMAIN Questions(actions) : k = At(actions, i) /\ Questions(actions)[k] = i
      BY <3>1, VerdictsFind
    <3>3. verdicts[k] \in {"alone", "leans", "none"} /\ verdicts[k] # "leans"
      BY <2>3, <3>2 DEF Verdicts
    <3>4. CASE verdicts[k] = "none"
      BY <3>2, <3>4
    <3>5. CASE verdicts[k] = "alone"
      <4>1. actions[Questions(actions)[k]].question.alone
        BY <3>5 DEF Verdicts
      <4>2. made[i] = actions[i] /\ Carried(made[i]) = made[i].question
        BY <1>3, <1>6, <2>3
      <4>. QED  BY <3>2, <4>1, <4>2
    <3>. QED  BY <3>3, <3>4, <3>5
  <2>. QED  BY <2>1, <2>2, <2>3
<1>8. UNION {Carried(made[i]).themes : i \in DOMAIN made} = intent.themes
  <2>1. ASSUME NEW i \in DOMAIN made
        PROVE  Carried(made[i]).themes \subseteq intent.themes
    BY <1>4, <1>5, <1>6, MessageIs
  <2>2. ASSUME NEW x \in intent.themes
        PROVE  \E i \in DOMAIN made : x \in Carried(made[i]).themes
    <3>1. PICK i \in DOMAIN actions : x \in actions[i].question.themes
      BY DEF Covered
    <3>2. CASE actions[i].topic = New
      BY <1>4, <1>6, <3>1, <3>2
    <3>3. CASE actions[i].topic # New
      BY <1>4, <1>5, <3>3, MessageIs
    <3>. QED  BY <3>2, <3>3
  <2>. QED  BY <2>1, <2>2
<1>9. New # Unknown
  BY IntentAssumption DEF New, Unknown
<1>10. \A i \in DOMAIN made : made[i].topic \in Topics \cup {New}
  BY <1>3, <1>4 DEF SplitOK
<1>11. Reaches(made, unjudged, leaning, New)
  BY <1>4, <1>7, <1>8, <1>9, <1>10 DEF Reaches
<1>. QED  BY <1>4, <1>11 DEF made

\* The judge's answer: made to stand alone, asked once more, or dropped.
LEMMA JudgeKeeps ==
  ASSUME IntentInv, Judge
  PROVE  IntentInv'
<1>1. intent.pc = "judge"
  BY DEF Judge
<1>2. intent.route = New /\ SplitOK(intent.actions)
  BY <1>1 DEF IntentInv, Routed
<1>3. PICK i, l, idle, again, actions :
        /\ i = intent /\ l = intent.leaning /\ idle = intent.idle /\ again = intent.again
        /\ actions = intent.actions
  OBVIOUS
<1>4. /\ IntentTypeOK /\ Given
      /\ Fields(i, "judge", New, l, idle, again, actions, {})
      /\ l \in BOOLEAN /\ idle \in BOOLEAN /\ again \in BOOLEAN /\ actions \in Seq(RouteSteps)
  BY <1>1, <1>2, <1>3, AtStage
<1>13. PICK covers \in BOOLEAN, verdicts \in Verdicts(intent.actions) :
        LET asked == Questions(intent.actions) IN
        /\ covers => Covered(intent.actions) = intent.themes
        /\ intent' =
             IF covers
             THEN [Act(MadeToStandAlone(intent.actions, verdicts)) EXCEPT
                     !.unjudged = {asked[k] : k \in {j \in DOMAIN asked : verdicts[j] = "none"}}]
             ELSE LET dropped == [intent EXCEPT !.actions = <<>>] IN
                  IF intent.again THEN Unsplit(dropped)
                  ELSE [dropped EXCEPT !.pc = "split", !.again = TRUE]
  BY DEF Judge
<1>5. verdicts \in Verdicts(actions)
  BY <1>3, <1>13
<1>. DEFINE asked == Questions(actions)
            unjudged == {asked[k] : k \in {j \in DOMAIN asked : verdicts[j] = "none"}}
            dropped == [i EXCEPT !.actions = <<>>]
<1>6. /\ covers => /\ Covered(actions) = intent.themes
                   /\ intent' = [[i EXCEPT !.pc = "act", !.actions = MadeToStandAlone(actions, verdicts)]
                                   EXCEPT !.unjudged = unjudged]
      /\ ~covers /\ again => intent' = Unsplit(dropped)
      /\ ~covers /\ ~again => intent' = [dropped EXCEPT !.pc = "split", !.again = TRUE]
  BY <1>3, <1>13 DEF Act
<1>7. New # Unknown
  BY IntentAssumption DEF New, Unknown
<1>8. <<>> \in Seq(RouteSteps)
  OBVIOUS
<1>9. Fields(dropped, "judge", New, l, idle, again, <<>>, {})
  BY <1>4, <1>8, ActionsSet, Zenon
<1>10. CASE covers
  <2>1. asked \in Seq(DOMAIN actions)
    <3>1. [k \in DOMAIN actions |-> k] \in Seq(DOMAIN actions)
      BY <1>4
    <3>. QED  BY <3>1, OnlyIsAFilter DEF Questions
  <2>2. unjudged \in SUBSET Nat
    <3>. HIDE DEF asked
    <3>1. \A k \in DOMAIN asked : asked[k] \in DOMAIN actions
      BY <2>1
    <3>2. DOMAIN actions \subseteq Nat
      BY <1>4
    <3>. QED  BY <3>1, <3>2
  <2>3. \A k \in DOMAIN asked : verdicts[k] = "none" => asked[k] \in unjudged
    OBVIOUS
  <2>4. PICK made, u : made = MadeToStandAlone(actions, verdicts) /\ u = unjudged
    OBVIOUS
  <2>5. made \in Seq(RouteSteps) /\ Reaches(made, u, l, New)
    <3>1. Covered(actions) = intent.themes /\ SplitOK(actions)
      BY <1>2, <1>3, <1>6, <1>10
    <3>. HIDE DEF unjudged
    <3>. QED  BY <1>4, <1>5, <2>3, <2>4, <3>1, JudgedReaches
  <2>. DEFINE acted == [i EXCEPT !.pc = "act", !.actions = made]
              j == [acted EXCEPT !.unjudged = u]
  <2>6. intent' = j
    BY <1>6, <1>10, <2>4
  <2>7. Fields(acted, "act", New, l, idle, again, made, {})
    BY <1>4, <2>5, Acted, Zenon
  <2>. HIDE DEF acted
  <2>8. Fields(j, "act", New, l, idle, again, made, u)
    <3>1. u \in SUBSET Nat
      BY <2>2, <2>4
    <3>. QED  BY <2>7, <3>1 DEF Fields, Intents
  <2>9. Consistent("act", New, l, made, u)
    BY <1>7, <2>5 DEF Consistent
  <2>. HIDE DEF j
  <2>. QED  BY <1>4, <2>6, <2>8, <2>9, FieldsKeep, Zenon
<1>11. CASE ~covers /\ again
  <2>1. intent' = Unsplit(dropped)
    BY <1>6, <1>11
  <2>2. PICK k : k = dropped
    OBVIOUS
  <2>3. Fields(k, "judge", New, l, idle, again, <<>>, {}) /\ intent' = Unsplit(k)
    BY <1>9, <2>1, <2>2
  <2>. QED  BY <1>4, <1>8, <2>3, UnsplitKeeps
<1>12. CASE ~covers /\ ~again
  <2>. DEFINE j == [dropped EXCEPT !.pc = "split", !.again = TRUE]
  <2>1. intent' = j
    BY <1>6, <1>12
  <2>. HIDE DEF dropped
  <2>2. Fields(j, "split", New, l, idle, TRUE, <<>>, {})
    BY <1>9, StageNames DEF Fields, Intents
  <2>3. Consistent("split", New, l, <<>>, {})
    BY <1>7 DEF Consistent
  <2>. HIDE DEF j
  <2>. QED  BY <1>4, <2>1, <2>2, <2>3, FieldsKeep, Zenon
<1>. QED  BY <1>10, <1>11, <1>12

\* No verdict: the split is dropped and the message goes on whole.
LEMMA JudgeFailsKeeps ==
  ASSUME IntentInv, JudgeFails
  PROVE  IntentInv'
<1>1. intent.pc = "judge" /\ intent' = Unsplit([intent EXCEPT !.actions = <<>>])
  BY DEF JudgeFails
<1>2. intent.route = New
  BY <1>1 DEF IntentInv, Routed
<1>3. PICK i, l, idle, again, actions :
        /\ i = intent /\ l = intent.leaning /\ idle = intent.idle /\ again = intent.again
        /\ actions = intent.actions
  OBVIOUS
<1>4. /\ IntentTypeOK /\ Given
      /\ Fields(i, "judge", New, l, idle, again, actions, {})
      /\ l \in BOOLEAN /\ idle \in BOOLEAN /\ again \in BOOLEAN
  BY <1>1, <1>2, <1>3, AtStage
<1>5. <<>> \in Seq(RouteSteps)
  OBVIOUS
<1>6. Fields([i EXCEPT !.actions = <<>>], "judge", New, l, idle, again, <<>>, {})
  BY <1>4, <1>5, ActionsSet, Zenon
<1>7. PICK k : k = [i EXCEPT !.actions = <<>>]
  OBVIOUS
<1>8. Fields(k, "judge", New, l, idle, again, <<>>, {}) /\ intent' = Unsplit(k)
  BY <1>1, <1>3, <1>6, <1>7
<1>. QED  BY <1>4, <1>5, <1>8, UnsplitKeeps

\* Whichever calls fail on the way, and whatever the model answers, the topics that a
\* message lands in are asked all of it.
THEOREM TurnsReachTopics == IntentSpec => []TurnsReachTopicsWhole
<1>1. IntentInit => IntentInv
  <2>1. SUFFICES ASSUME IntentInit
        PROVE  IntentInv
    OBVIOUS
  <2>2. PICK count \in 0..Summaries, n \in 1..Raised, leans \in BOOLEAN :
        \E focus \in 0..count, recent \in IF count = 0 THEN {0} ELSE 1..count :
          intent = [pc |-> "decide", count |-> count, focus |-> focus, recent |-> recent,
                    themes |-> 1..n, leans |-> leans,
                    route |-> New, leaning |-> FALSE, idle |-> FALSE, again |-> FALSE,
                    actions |-> <<>>, unjudged |-> {}]
    BY <2>1, Zenon DEF IntentInit
  <2>3. PICK focus \in 0..count, recent \in IF count = 0 THEN {0} ELSE 1..count :
          intent = [pc |-> "decide", count |-> count, focus |-> focus, recent |-> recent,
                    themes |-> 1..n, leans |-> leans,
                    route |-> New, leaning |-> FALSE, idle |-> FALSE, again |-> FALSE,
                    actions |-> <<>>, unjudged |-> {}]
    BY <2>2
  <2>4. count \in Nat /\ n \in Nat /\ focus \in Nat /\ recent \in Nat /\ 1 \in 1..n
    BY IntentAssumption
  <2>5. IntentTypeOK
    BY <2>3, <2>4 DEF IntentTypeOK, Intents, Stages, New
  <2>6. Given
    BY <2>3, <2>4 DEF Given, Topics, New
  <2>7. /\ intent.pc = "decide" /\ intent.route = New /\ ~intent.leaning /\ intent.unjudged = {}
        /\ New # Unknown
    BY <2>3, IntentAssumption DEF New, Unknown
  <2>. QED  BY <2>5, <2>6, <2>7 DEF IntentInv, Routed, TurnsReachTopicsWhole
<1>2. IntentInv /\ [IntentNext]_intent => IntentInv'
  <2>1. SUFFICES ASSUME IntentInv, [IntentNext]_intent
        PROVE  IntentInv'
    OBVIOUS
  <2>2. CASE Decide
    BY <2>1, <2>2, DecideKeeps
  <2>3. CASE DecideFails
    BY <2>1, <2>3, DecideFailsKeeps
  <2>4. CASE Rewrite
    BY <2>1, <2>4, RewriteKeeps
  <2>5. CASE AskSplit
    BY <2>1, <2>5, AskSplitKeeps
  <2>6. CASE AskSplitFails
    BY <2>1, <2>6, AskSplitFailsKeeps
  <2>7. CASE Judge
    BY <2>1, <2>7, JudgeKeeps
  <2>8. CASE JudgeFails
    BY <2>1, <2>8, JudgeFailsKeeps
  <2>9. CASE UNCHANGED intent
    <3>1. intent' = intent /\ Topics' = Topics /\ Message' = Message
      BY <2>9 DEF Topics, Message
    <3>2. IntentTypeOK' /\ Given' /\ Routed'
      BY <2>1, <3>1 DEF IntentInv, IntentTypeOK, Given, Routed
    <3>3. (intent.pc = "judge" => SplitOK(intent.actions))'
      BY <2>1, <3>1 DEF IntentInv, SplitOK
    <3>4. TurnsReachTopicsWhole'
      BY <2>1, <3>1 DEF IntentInv, TurnsReachTopicsWhole, Carried
    <3>5. (intent.pc # "act" => intent.unjudged = {})'
      BY <2>1, <3>1 DEF IntentInv
    <3>. QED  BY <3>2, <3>3, <3>4, <3>5 DEF IntentInv
  <2>. QED  BY <2>1, <2>2, <2>3, <2>4, <2>5, <2>6, <2>7, <2>8, <2>9 DEF IntentNext
<1>3. IntentInv => TurnsReachTopicsWhole
  BY DEF IntentInv
<1>. QED  BY <1>1, <1>2, <1>3, PTL DEF IntentSpec
=============================================================================
