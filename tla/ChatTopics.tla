----------------------------- MODULE ChatTopics -----------------------------
(***************************************************************************)
(* The chat service's topics for one user: the sessions, topics and        *)
(* messages tables, the calls that create and focus topics, deliver a turn *)
(* or reset the session, the watcher of every running topic, and restarts. *)
(*                                                                         *)
(* The session row's FOR UPDATE lock makes each transaction that takes it  *)
(* one action; what a call does before, between and after its transactions *)
(* are actions of their own.  All topics in the table belong to the one    *)
(* session, because a reset deletes them with it.  Topic ids are ordered   *)
(* as created_at is: both are assigned under the lock.                     *)
(***************************************************************************)
EXTENDS Integers, Sequences, FiniteSets

CONSTANTS
  Turns,         \* turn ids
  NoTurn,        \* no turn
  Senders,       \* send_turn calls, retries of one turn among them
  Outcomes,      \* how executions end in this model
  SplitKinds,    \* actions the classifier splits a message into
  MaxActions,    \* bound: actions of one turn
  MaxRunning,    \* MAX_CONCURRENT_TOPICS
  MaxTopics,     \* bound: topics ever created
  MaxSessions,   \* bound: sessions ever opened
  MaxTorn,       \* bound: deliveries of a turn that end half way and are tried again
  MaxFaults,     \* bound: engine and database calls that fail
  MaxRestarts    \* bound: restarts of the process

ASSUME ChatAssumption ==
  /\ NoTurn \notin Turns
  /\ Outcomes \subseteq {"Completed", "Failed", "Cancelled"}
  /\ SplitKinds \subseteq {"new", "continue"}
  /\ MaxActions \in Nat \ {0}
  /\ MaxRunning \in Nat \ {0}
  /\ MaxTopics \in Nat
  /\ MaxSessions \in Nat
  /\ MaxTorn \in Nat
  /\ MaxFaults \in Nat
  /\ MaxRestarts \in Nat

VARIABLES
  topics,     \* topics, and what the engine's event log says of each one's execution
  session,    \* the user's session row; id 0 when there is none
  lastTopic,  \* topics created so far
  messages,   \* messages: turn and topic
  watcher,    \* the watcher task of each topic
  sender,     \* the send_turn calls in flight
  landed,     \* history: deliveries of each turn that had an effect
  torn,       \* history: those of them that ended half way
  opened,     \* sessions opened so far
  faults,     \* calls that failed so far
  restarts    \* restarts so far

vars == <<topics, session, lastTopic, messages, watcher, sender, landed, torn, opened, faults, restarts>>

-----------------------------------------------------------------------------
(* Tables *)

Ids      == 1..MaxTopics
NoTopic  == 0
Ended    == {"Completed", "Failed", "Cancelled"}
Open     == {"Queued", "Running"}

\* run: the first terminal event of the execution, "live" while there is none.
Topic    == [status : {"none"} \cup Open \cup Ended, run : {"none", "live"} \cup Ended]
Absent   == [status |-> "none", run |-> "none"]

With(statuses) == {t \in Ids : topics[t].status \in statuses}
InTable(t) == topics[t].status # "none"

\* order_by_asc(CreatedAt).one, if there is one.
Oldest(S) == IF S = {} THEN NoTopic ELSE CHOOSE t \in S : \A u \in S : t <= u

\* Topics that hold a message of the turn: already_delivered.
Delivered(u) == {t \in Ids : InTable(t) /\ <<u, t>> \in messages}

\* get_or_create_session.
SessionOfUser ==
  IF session.id = 0 THEN [id |-> opened + 1, focus |-> NoTopic] ELSE session

OpenSession ==
  /\ SessionOfUser.id <= MaxSessions
  /\ session' = SessionOfUser
  /\ opened' = SessionOfUser.id

\* admission_status.
AdmissionStatus ==
  IF Cardinality(With({"Running"})) < MaxRunning THEN "Running" ELSE "Queued"

-----------------------------------------------------------------------------
(* Processes *)

NewTopic == 0     \* an Action::New in a plan; Action::Continue is the topic's id

IdleSender ==
  [pc |-> "idle", turn |-> NoTurn, plan |-> <<>>, view |-> <<>>, sid |-> 0,
   received |-> <<>>, focus |-> NoTopic, effect |-> FALSE]

Delivering(c) == sender[c].pc \in {"apply", "insert", "record", "focus"}

Init ==
  /\ topics = [t \in Ids |-> Absent]
  /\ session = [id |-> 0, focus |-> NoTopic]
  /\ lastTopic = 0
  /\ messages = {}
  /\ watcher = [t \in Ids |-> "none"]
  /\ sender = [c \in Senders |-> IdleSender]
  /\ landed = [u \in Turns |-> 0]
  /\ torn = [u \in Turns |-> 0]
  /\ opened = 0
  /\ faults = 0
  /\ restarts = 0

\* Engine calls and statements that may fail.
Fails == faults < MaxFaults /\ faults' = faults + 1

-----------------------------------------------------------------------------
(* Creating, focusing, resetting *)

\* insert_topic and the watcher create_topic_continuing spawns: the slot check,
\* the execution and the row under the session's lock.
InsertTopic(locked) ==
  LET t == lastTopic + 1
      running == AdmissionStatus = "Running"
  IN  /\ t <= MaxTopics
      /\ lastTopic' = t
      /\ topics' = [topics EXCEPT ![t] =
                      [status |-> AdmissionStatus, run |-> IF running THEN "live" ELSE "none"]]
      /\ session' = IF locked.focus = NoTopic THEN [locked EXCEPT !.focus = t] ELSE locked
      /\ watcher' = [watcher EXCEPT ![t] = IF running THEN "stream" ELSE "none"]

\* The CreateTopic call.  A failed one changes nothing.
CreateTopic ==
  /\ SessionOfUser.id <= MaxSessions
  /\ InsertTopic(SessionOfUser)
  /\ opened' = SessionOfUser.id
  /\ UNCHANGED <<messages, sender, landed, torn, faults, restarts>>

\* set_focus: the topic is one of the session's; its status is not looked at.
Refocus(t) ==
  session' = IF t \in Ids /\ InTable(t) THEN [session EXCEPT !.focus = t] ELSE session

SetFocus(t) ==
  /\ InTable(t)
  /\ Refocus(t)
  /\ UNCHANGED <<topics, lastTopic, messages, watcher, sender, landed, torn, opened, faults, restarts>>

\* reset_session.  The executions it interrupts run on; nobody watches them.
ResetSession ==
  /\ session.id # 0
  /\ topics' = [t \in Ids |-> Absent]
  /\ messages' = {m \in messages : ~InTable(m[2])}
  /\ session' = [id |-> 0, focus |-> NoTopic]
  /\ landed' = [u \in Turns |-> 0]
  /\ torn' = [u \in Turns |-> 0]
  /\ UNCHANGED <<lastTopic, watcher, sender, opened, faults, restarts>>

-----------------------------------------------------------------------------
(* The engine and the watchers *)

\* external: the engine appends the execution's terminal event.
ExecutionEnds(t) ==
  /\ topics[t].run = "live"
  /\ \E r \in Outcomes : topics' = [topics EXCEPT ![t].run = r]
  /\ UNCHANGED <<session, lastTopic, messages, watcher, sender, landed, torn, opened, faults, restarts>>

\* consume_one_stream reads the terminal event.  A replay starts at the
\* execution's first event, so a watcher never misses it.
StreamTerminal(t) ==
  /\ watcher[t] = "stream"
  /\ topics[t].run \in Ended
  /\ watcher' = [watcher EXCEPT ![t] = "finish"]
  /\ UNCHANGED <<topics, session, lastTopic, messages, sender, landed, torn, opened, faults, restarts>>

\* The stream ends or fails to open before a terminal event.
StreamEnds(t) ==
  /\ watcher[t] = "stream"
  /\ watcher' = [watcher EXCEPT ![t] = "closed"]
  /\ UNCHANGED <<topics, session, lastTopic, messages, sender, landed, torn, opened, faults, restarts>>

\* Mutant: the watcher gives up when its stream ends.
WaitBeforeReconnectNever(t) ==
  /\ watcher[t] = "closed"
  /\ watcher' = [watcher EXCEPT ![t] = "none"]
  /\ UNCHANGED <<topics, session, lastTopic, messages, sender, landed, torn, opened, faults, restarts>>

\* wait_before_reconnect: only a topic that is still Running is worth another stream.
WaitBeforeReconnect(t) ==
  /\ watcher[t] = "closed"
  /\ watcher' = [watcher EXCEPT ![t] =
                   IF topics[t].status = "Running" THEN "stream" ELSE "none"]
  /\ UNCHANGED <<topics, session, lastTopic, messages, sender, landed, torn, opened, faults, restarts>>

\* Mutant: focus only moves to a running topic.
MovedFocusToRunning(t, after) ==
  IF session.focus = t /\ after[t].status = "Completed"
  THEN Oldest({u \in Ids : after[u].status = "Running"})
  ELSE session.focus

\* move_focus_off_completed: the oldest unfinished topic, for a completed one that
\* had the focus.
MovedFocus(t, after) ==
  IF session.focus = t /\ after[t].status = "Completed"
  THEN Oldest({u \in Ids : after[u].status \in Open})
  ELSE session.focus

\* finish_topic up to its promotion: update_topic_status_and_move_focus.  A topic
\* that a reset took is an error the watcher logs.
FinishTopic(t) ==
  /\ watcher[t] = "finish"
  /\ IF InTable(t)
     THEN LET after == [topics EXCEPT ![t].status = topics[t].run] IN
          /\ topics' = after
          /\ session' = [session EXCEPT !.focus = MovedFocus(t, after)]
          /\ watcher' = [watcher EXCEPT ![t] = "promote"]
     ELSE /\ watcher' = [watcher EXCEPT ![t] = "none"]
          /\ UNCHANGED <<topics, session>>
  /\ UNCHANGED <<lastTopic, messages, sender, landed, torn, opened, faults, restarts>>

\* Mutant: the promotion trusts that a slot is free.
PromoteNextQueuedUnchecked(t) ==
  LET next == Oldest(With({"Queued"})) IN
  /\ watcher[t] = "promote"
  /\ IF InTable(t) /\ next # NoTopic
     THEN /\ topics' = [topics EXCEPT ![next] = [status |-> "Running", run |-> "live"]]
          /\ watcher' = [watcher EXCEPT ![t] = "none", ![next] = "stream"]
     ELSE /\ watcher' = [watcher EXCEPT ![t] = "none"]
          /\ UNCHANGED topics
  /\ UNCHANGED <<session, lastTopic, messages, sender, landed, torn, opened, faults, restarts>>

\* promote_next_queued: the slot is checked again, since a new topic may have
\* taken it; the oldest queued topic gets an execution and a watcher.
PromoteNextQueued(t) ==
  LET next == Oldest(With({"Queued"})) IN
  /\ watcher[t] = "promote"
  /\ IF InTable(t) /\ AdmissionStatus = "Running" /\ next # NoTopic
     THEN /\ topics' = [topics EXCEPT ![next] = [status |-> "Running", run |-> "live"]]
          /\ watcher' = [watcher EXCEPT ![t] = "none", ![next] = "stream"]
     ELSE /\ watcher' = [watcher EXCEPT ![t] = "none"]
          /\ UNCHANGED topics
  /\ UNCHANGED <<session, lastTopic, messages, sender, landed, torn, opened, faults, restarts>>

\* The read before the first stream, the check before a reconnect, the finish or the
\* promotion fails: logged, and the watcher is gone.
WatcherFails(t) ==
  /\ watcher[t] # "none"
  /\ Fails
  /\ watcher' = [watcher EXCEPT ![t] = "none"]
  /\ UNCHANGED <<topics, session, lastTopic, messages, sender, landed, torn, opened, restarts>>

Watch(t) ==
  \/ StreamTerminal(t)
  \/ WaitBeforeReconnect(t)
  \/ FinishTopic(t)
  \/ PromoteNextQueued(t)

-----------------------------------------------------------------------------
(* send_turn *)

\* parse_actions: a split is any actions on topics of the session and new ones.
Splits(seen) ==
  LET actions == (IF "new" \in SplitKinds THEN {NewTopic} ELSE {})
                   \cup (IF "continue" \in SplitKinds THEN seen ELSE {})
  IN  UNION {[1..n -> actions] : n \in 2..MaxActions}

\* What route() can answer besides Clarify: continue one topic, open one, or a split.
Plans(seen) == [1..1 -> seen \cup {NewTopic}] \cup Splits(seen)

\* send_turn up to the turn's lock: a turn that was delivered is answered from the
\* messages, one that needs clarification changes nothing, any other is routed.
SendTurn(c, u) ==
  /\ sender[c].pc = "idle"
  /\ OpenSession
  /\ Delivered(u) = {}
  /\ torn[u] <= MaxTorn
  /\ \E plan \in Plans(With(Open \cup Ended)) :
       sender' = [sender EXCEPT ![c] =
                    [IdleSender EXCEPT !.pc = "lock", !.turn = u, !.plan = plan]]
  /\ UNCHANGED <<topics, lastTopic, messages, watcher, landed, torn, faults, restarts>>

\* The status of the topics the plan names.
Seen(plan) == [t \in {plan[i] : i \in DOMAIN plan} \ {NewTopic} |-> topics[t].status]

\* Mutant: no second look under the lock.
LockTurnUnchecked(c) ==
  /\ sender[c].pc = "lock"
  /\ ~\E d \in Senders : Delivering(d) /\ sender[d].turn = sender[c].turn
  /\ OpenSession
  /\ sender' = [sender EXCEPT ![c].pc = "apply", ![c].view = Seen(sender[c].plan)]
  /\ UNCHANGED <<topics, lastTopic, messages, watcher, landed, torn, faults, restarts>>

\* lock_turn, then deliver_turn's own view of the session and its second look at
\* the messages.
LockTurn(c) ==
  /\ sender[c].pc = "lock"
  /\ ~\E d \in Senders : Delivering(d) /\ sender[d].turn = sender[c].turn
  /\ OpenSession
  /\ sender' = [sender EXCEPT ![c] =
       IF Delivered(sender[c].turn) # {} THEN IdleSender
       ELSE [sender[c] EXCEPT !.pc = "apply", !.view = Seen(sender[c].plan)]]
  /\ UNCHANGED <<topics, lastTopic, messages, watcher, landed, torn, faults, restarts>>

\* The turn reached a topic.
Lands(c) ==
  landed' = [landed EXCEPT ![sender[c].turn] = IF sender[c].effect THEN @ ELSE @ + 1]

Applied(k) == [k EXCEPT !.plan = Tail(@), !.pc = "apply", !.sid = 0]

\* Action::New, or a Continue of a completed topic: the session is looked up first.
ApplyNew(c) ==
  LET k == sender[c] IN
  /\ k.pc = "apply" /\ k.plan # <<>>
  /\ Head(k.plan) # NewTopic => k.view[Head(k.plan)] = "Completed"
  /\ OpenSession
  /\ sender' = [sender EXCEPT ![c] = [k EXCEPT !.pc = "insert", !.sid = SessionOfUser.id]]
  /\ UNCHANGED <<topics, lastTopic, messages, watcher, landed, torn, faults, restarts>>

\* create_topic; the first new topic is to have the focus.  "session vanished" ends
\* the call.
ApplyInsert(c) ==
  LET k == sender[c]
      t == lastTopic + 1
  IN
  /\ k.pc = "insert"
  /\ IF session.id = k.sid
     THEN /\ InsertTopic(session)
          /\ Lands(c)
          /\ sender' = [sender EXCEPT ![c] =
               [Applied(k) EXCEPT !.received = Append(@, t), !.effect = TRUE,
                                  !.focus = IF @ = NoTopic THEN t ELSE @]]
     ELSE /\ sender' = [sender EXCEPT ![c] = IdleSender]
          /\ UNCHANGED <<topics, session, lastTopic, watcher, landed>>
  /\ UNCHANGED <<messages, torn, opened, faults, restarts>>

\* apply_continue of a topic that was running when the view was read: the engine is
\* told.  A Queued one takes the turn as it is; a Failed or Cancelled one refuses it,
\* and one that vanished is dropped.
ApplyContinue(c) ==
  LET k == sender[c]
      t == Head(k.plan)
  IN
  /\ k.pc = "apply" /\ k.plan # <<>> /\ t # NewTopic
  /\ \/ /\ k.view[t] = "Running"
        /\ InTable(t)
        /\ Lands(c)
        /\ sender' = [sender EXCEPT ![c] =
                        [Applied(k) EXCEPT !.received = Append(@, t), !.effect = TRUE]]
     \/ /\ k.view[t] = "Queued"
        /\ sender' = [sender EXCEPT ![c] = [Applied(k) EXCEPT !.received = Append(@, t)]]
        /\ UNCHANGED landed
     \/ /\ k.view[t] \in {"Failed", "Cancelled", "none"}
        /\ sender' = [sender EXCEPT ![c] = Applied(k)]
        /\ UNCHANGED landed
  /\ UNCHANGED <<topics, session, lastTopic, messages, watcher, torn, opened, faults, restarts>>

\* The engine answers Busy, the execution being mid-tick, or the session is gone:
\* the turn ends here, whatever landed before.
ApplyBusy(c) ==
  LET k == sender[c] IN
  /\ k.pc = "apply" /\ k.plan # <<>> /\ Head(k.plan) # NewTopic
  /\ k.view[Head(k.plan)] = "Running"
  /\ sender' = [sender EXCEPT ![c] = IdleSender]
  /\ torn' = [torn EXCEPT ![k.turn] = IF k.effect /\ @ < landed[k.turn] THEN @ + 1 ELSE @]
  /\ UNCHANGED <<topics, session, lastTopic, messages, watcher, landed, opened, faults, restarts>>

\* apply_actions is through: an error if no topic received the turn.
AllApplied(c) ==
  LET k == sender[c] IN
  /\ k.pc = "apply" /\ k.plan = <<>>
  /\ sender' = [sender EXCEPT ![c] =
                  IF k.received = <<>> THEN IdleSender ELSE [k EXCEPT !.pc = "record", !.view = <<>>]]
  /\ UNCHANGED <<topics, session, lastTopic, messages, watcher, landed, torn, opened, faults, restarts>>

\* record_turn: a message per topic, each committed on its own.
RecordTurn(c) ==
  LET k == sender[c] IN
  /\ k.pc = "record"
  /\ messages' = messages \cup {<<k.turn, Head(k.received)>>}
  /\ sender' = [sender EXCEPT ![c] =
       [k EXCEPT !.received = Tail(@), !.pc = IF Tail(k.received) = <<>> THEN "focus" ELSE "record"]]
  /\ UNCHANGED <<topics, session, lastTopic, watcher, landed, torn, opened, faults, restarts>>

\* The focus moves to the first topic the turn created, and the lock is released.
TurnDone(c) ==
  /\ sender[c].pc = "focus"
  /\ Refocus(sender[c].focus)
  /\ sender' = [sender EXCEPT ![c] = IdleSender]
  /\ UNCHANGED <<topics, lastTopic, messages, watcher, landed, torn, opened, faults, restarts>>

\* Any engine or database call of the turn fails.
TurnFails(c) ==
  /\ sender[c].pc # "idle"
  /\ Fails
  /\ sender' = [sender EXCEPT ![c] = IdleSender]
  /\ UNCHANGED <<topics, session, lastTopic, messages, watcher, landed, torn, opened, restarts>>

Turn(c) ==
  \/ \E u \in Turns : SendTurn(c, u)
  \/ LockTurn(c)
  \/ ApplyNew(c)
  \/ ApplyInsert(c)
  \/ ApplyContinue(c)
  \/ ApplyBusy(c)
  \/ AllApplied(c)
  \/ RecordTurn(c)
  \/ TurnDone(c)

-----------------------------------------------------------------------------
\* The process dies with its calls and watchers, and comes back: recover()
\* watches every Running topic.
Restart ==
  /\ restarts < MaxRestarts
  /\ restarts' = restarts + 1
  /\ watcher' = [t \in Ids |-> IF topics[t].status = "Running" THEN "stream" ELSE "none"]
  /\ sender' = [c \in Senders |-> IdleSender]
  /\ UNCHANGED <<topics, session, lastTopic, messages, landed, torn, opened, faults>>

Next ==
  \/ CreateTopic
  \/ \E t \in Ids : SetFocus(t)
  \/ ResetSession
  \/ \E t \in Ids : ExecutionEnds(t)
  \/ \E t \in Ids : Watch(t)
  \/ \E t \in Ids : StreamEnds(t)
  \/ \E t \in Ids : WatcherFails(t)
  \/ \E c \in Senders : Turn(c)
  \/ \E c \in Senders : TurnFails(c)
  \/ Restart

Spec == Init /\ [][Next]_vars

\* The runtime polls every watcher.  Each stream replays the whole log, so
\* one that keeps being cut is not cut before the terminal event every time.
FairSpec ==
  /\ Spec
  /\ \A t \in Ids : WF_vars(Watch(t)) /\ SF_vars(StreamTerminal(t))

-----------------------------------------------------------------------------
(* Properties *)

\* Types of the tables and calls; a message row of the session names a topic that was
\* created, and focus is on one of the session's topics.
TypeOK ==
  /\ topics \in [Ids -> Topic]
  /\ session \in [id : 0..MaxSessions, focus : Ids \cup {NoTopic}]
  /\ lastTopic \in 0..MaxTopics
  /\ messages \subseteq Turns \X (1..lastTopic)
  /\ watcher \in [Ids -> {"none", "stream", "closed", "finish", "promote"}]
  /\ \A t \in Ids : InTable(t) => session.id # 0 /\ t <= lastTopic
  /\ session.focus # NoTopic => InTable(session.focus)
  /\ \A c \in Senders : sender[c].pc = "idle" <=> sender[c] = IdleSender

\* The slots are used and never oversubscribed, whoever takes the one a finished topic
\* frees: its own promotion, another's, or a topic created in between.  No more than
\* MAX_CONCURRENT_TOPICS run, and a queue never waits for a slot nobody will hand out:
\* while topics are queued every free slot has a promotion under way.  A failed
\* promotion and a restart in front of one do strand the queue, and are left out.
SlotsAreUsed ==
  LET free == MaxRunning - Cardinality(With({"Running"})) IN
  /\ free >= 0
  /\ faults = 0 /\ restarts = 0 /\ With({"Queued"}) # {} =>
       free <= Cardinality({t \in Ids : watcher[t] = "promote" /\ InTable(t)})

\* While a topic is unfinished the focus is somewhere, however finishes, creations and
\* turns interleave: the next message has a topic to continue.
FocusNeverLost == session.id # 0 /\ With(Open) # {} => session.focus # NoTopic

\* However the deliveries of a turn overlap and are retried, it lands again only where
\* the delivery before was cut half way, by Busy or by a reset of what it was to continue:
\* a delivery that runs to its end leaves no second topic, execution or interrupt for one
\* message (the turn's lock, and the second look at the messages under it).
TurnLandsOnce == faults = 0 /\ restarts = 0 => \A u \in Turns : landed[u] <= 1 + torn[u]

\* The chat README says that SendTurn is idempotent on turn_id and that a retry finds the
\* turn fully delivered or not delivered at all: no turn lands twice while nothing fails.
TurnTakesEffectOnce == faults = 0 /\ restarts = 0 => \A u \in Turns : landed[u] <= 1

\* A topic whose execution has ended does not stay Running, through cut streams
\* and restarts.
TopicsSettle ==
  \A t \in Ids : topics[t].status = "Running" /\ topics[t].run \in Ended
                   ~> topics[t].status # "Running" \/ faults > 0
=============================================================================
