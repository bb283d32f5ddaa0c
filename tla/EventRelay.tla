----------------------------- MODULE EventRelay -----------------------------
(***************************************************************************)
(* How what happens to one execution reaches the person: commit_step       *)
(* writes events into engine.execution_events, a StreamEvents subscription *)
(* polls them out, chat's watcher relays them into chat.events and onto    *)
(* the live bus, and a browser's subscription replays the log and then     *)
(* follows the bus.                                                        *)
(*                                                                         *)
(* Event ids come from a sequence when a row is inserted; rows are seen    *)
(* when their transaction commits.                                         *)
(***************************************************************************)
EXTENDS Integers, Sequences, SequencesExt, FiniteSets, SeqFilter

CONSTANTS
  Writers,        \* calls of commit_step in flight on the execution
  Batch,          \* POLL_BATCH
  Channel,        \* CHANNEL_CAPACITY
  Remembered,     \* MAX_REMEMBERED_EVENT_IDS
  BusCapacity,    \* DEFAULT_CAPACITY of the bus
  Retention,      \* CHAT_EVENTS_RETENTION_MONTHS
  MaxIds,         \* bound: event ids drawn from the sequence
  MaxMonths,      \* bound: month boundaries
  MaxEach,        \* bound: cuts, restarts, failed writes, clarifications, subscriptions
  MaxInAll        \* bound: all of these together

ASSUME RelayAssumption ==
  /\ {Batch, Channel, Remembered, BusCapacity, Retention} \subseteq Nat \ {0}
  /\ {MaxIds, MaxMonths, MaxEach, MaxInAll} \subseteq Nat

VARIABLES
  writer,     \* per commit_step: the step it writes and the rows it has inserted
  events,     \* committed engine.execution_events
  steps,      \* committed checkpoints of the execution
  nextId,     \* the bigserial of the events
  stream,     \* the StreamEvents call the watcher has open
  announced,  \* a NOTIFY the stream has not consumed
  watch,      \* the watcher task
  topic,      \* the topic's status
  log,        \* chat.events
  pub,        \* publish_all in flight, by the watcher and by a turn
  tab,        \* the browser's subscription
  month,      \* now
  open,       \* months with a partition in chat.events
  count       \* cuts, restarts, faults, clarifications, subscriptions so far

vars == <<writer, events, steps, nextId, stream, announced, watch, topic, log, pub, tab,
          month, open, count>>
engine == <<writer, events, steps, nextId>>
chat == <<watch, topic, log, pub>>
calendar == <<month, open>>

\* The bound on what disturbs the relay: one more of a kind, and in all.
Disturbed == count.cuts + count.restarts + count.faults + count.clarify + count.opened + month

Once(kind) ==
  /\ count[kind] < MaxEach /\ Disturbed < MaxInAll
  /\ count' = [count EXCEPT ![kind] = @ + 1]

-----------------------------------------------------------------------------
(* engine.execution_events *)

\* execution_event::Model, without what no reader tells apart; at is its month.
Row == [id : 1..MaxIds, kind : {"progress", "terminal"}, at : 0..MaxMonths]

\* What step() returns for one super-step: it ends the execution or it does not.
Outcomes == {<<"progress">>, <<"progress", "terminal">>}

IdleWriter == [pc |-> "idle", step |-> 0, held |-> <<>>]

\* next_checkpoint_step, or the step a tick loaded.
CommitReads(w) ==
  /\ writer[w].pc = "idle" /\ nextId + 2 <= MaxIds + 1
  /\ writer' = [writer EXCEPT ![w] = [IdleWriter EXCEPT !.pc = "insert", !.step = steps + 1]]
  /\ UNCHANGED <<events, steps, nextId, stream, announced, chat, tab, calendar, count>>

\* event_to_active_model, row by row, with the ids the sequence gives.
Drawn(kinds) ==
  [i \in 1..Len(kinds) |-> [id |-> nextId + i - 1, kind |-> kinds[i], at |-> month]]

\* Mutant: the events are inserted before the checkpoint, which is what the others wait for.
CommitInsertsEventsFirst(w) ==
  /\ writer[w].pc = "insert"
  /\ \E kinds \in Outcomes :
       /\ nextId + Len(kinds) <= MaxIds + 1
       /\ nextId' = nextId + Len(kinds)
       /\ writer' = [writer EXCEPT ![w].pc = "commit", ![w].held = Drawn(kinds)]
  /\ UNCHANGED <<events, steps, stream, announced, chat, tab, calendar, count>>

\* commit_step up to its commit: the checkpoint's primary key makes a second writer of
\* the step wait, so its events get their ids after the first one's transaction ends.
CommitInserts(w) ==
  /\ writer[w].pc = "insert"
  /\ writer[w].step > steps
  /\ \A v \in Writers : writer[v].pc = "commit" => writer[v].step # writer[w].step
  /\ \E kinds \in Outcomes :
       /\ nextId + Len(kinds) <= MaxIds + 1
       /\ nextId' = nextId + Len(kinds)
       /\ writer' = [writer EXCEPT ![w].pc = "commit", ![w].held = Drawn(kinds)]
  /\ UNCHANGED <<events, steps, stream, announced, chat, tab, calendar, count>>

\* The step was written by somebody else.
CommitDuplicate(w) ==
  /\ writer[w].pc = "insert" /\ writer[w].step <= steps
  /\ writer' = [writer EXCEPT ![w] = IdleWriter]
  /\ UNCHANGED <<events, steps, nextId, stream, announced, chat, tab, calendar, count>>

\* The commit, and the NOTIFY that goes with it: every open stream has it pending.
CommitEnds(w) ==
  /\ writer[w].pc = "commit"
  /\ events' = events \cup ToSet(writer[w].held)
  /\ steps' = writer[w].step
  /\ writer' = [writer EXCEPT ![w] = IdleWriter]
  /\ announced' \in {TRUE, announced}
  /\ UNCHANGED <<nextId, stream, chat, tab, calendar, count>>

\* The lease was lost or the process died: the rows go, the ids stay drawn.
CommitRollsBack(w) ==
  /\ writer[w].pc = "commit"
  /\ writer' = [writer EXCEPT ![w] = IdleWriter]
  /\ UNCHANGED <<events, steps, nextId, stream, announced, chat, tab, calendar, count>>

-----------------------------------------------------------------------------
(* StreamEvents *)

Closed == [pc |-> "closed", last |-> 0, batch |-> <<>>, sent |-> <<>>]

\* poll_forever's query: ids above the last one sent, in order, at most a batch.
Polled ==
  LET found == {r \in events : r.id > stream.last} IN
  {s \in UNION {[1..n -> found] : n \in 0..Batch} :
     /\ \A i, j \in DOMAIN s : i < j => s[i].id < s[j].id
     /\ \A r \in found \ ToSet(s) : Len(s) = Batch /\ \A i \in DOMAIN s : s[i].id < r.id}

Poll ==
  /\ stream.pc = "poll"
  /\ \E batch \in Polled :
       stream' = [stream EXCEPT !.batch = batch,
                                !.pc = IF batch = <<>> THEN "wait" ELSE "send"]
  /\ UNCHANGED <<engine, announced, chat, tab, calendar, count>>

\* Mutant: a wait that only a NOTIFY ends.
WokenByNotifyOnly ==
  /\ stream.pc = "wait" /\ announced
  /\ stream' = [stream EXCEPT !.pc = "poll"]
  /\ announced' = FALSE
  /\ UNCHANGED <<engine, chat, tab, calendar, count>>

\* Announcements::wait returns: a NOTIFY, the interval, or the timeout that finds a
\* lost one.
Woken ==
  /\ stream.pc = "wait"
  /\ stream' = [stream EXCEPT !.pc = "poll"]
  /\ announced' = FALSE
  /\ UNCHANGED <<engine, chat, tab, calendar, count>>

\* closes_on, for an execution's own stream.
ClosesOn(r) == r.kind = "terminal"

\* One row into the channel, if there is room.
SendRow ==
  /\ stream.pc = "send" /\ Len(stream.sent) < Channel
  /\ LET r == Head(stream.batch) IN
     stream' = [stream EXCEPT !.last = r.id, !.batch = Tail(@), !.sent = Append(@, r),
                              !.pc = IF ClosesOn(r) THEN "done"
                                     ELSE IF Len(stream.batch) = 1 THEN "poll" ELSE "send"]
  /\ UNCHANGED <<engine, announced, chat, tab, calendar, count>>

-----------------------------------------------------------------------------
(* chat.events and the bus *)

\* TopicEvent: progress and its engine event, the end of a topic, or a clarification.
Event == [kind : {"progress", "finished", "clarify"}, src : 0..MaxIds, at : 0..MaxMonths]

\* has_no_record_but_the_event_log.
OnlyLogged(e) == e.kind = "clarify"

\* clamp_to_open_window.
Clamp(at) == IF at < month THEN month ELSE at

\* event_id_of: derived from the engine's id for progress, fresh for everything else.
EventId(e) == <<e.kind, e.src>>

\* row_for and store_events: ON CONFLICT (occurred_at, event_id) DO NOTHING.
Stored(e) ==
  LET row == [e EXCEPT !.at = Clamp(e.at)] IN
  IF \E f \in ToSet(log) : EventId(row) = EventId(f) /\ row.at = f.at THEN log ELSE Append(log, row)

NoPub == [pc |-> "none", event |-> [kind |-> "clarify", src |-> 0, at |-> 0]]

\* Mutant: every event is told first.
StoredFirstNever(e) == FALSE

\* publish_all: what only the log has is stored first, everything else is told first.
StoredFirst(e) == OnlyLogged(e)

Publish(e) == [pc |-> IF StoredFirst(e) THEN "store" ELSE "live", event |-> e]

\* The other half of publish_all, or its end.
After(p) ==
  IF pub[p].pc = (IF StoredFirst(pub[p].event) THEN "store" ELSE "live")
  THEN [pub EXCEPT ![p].pc = IF @ = "live" THEN "store" ELSE "live"]
  ELSE [pub EXCEPT ![p] = NoPub]

\* broadcast::Sender::send: a receiver that is behind loses the oldest.
Broadcast(e) ==
  IF tab.pc = "off" THEN tab
  ELSE IF Len(tab.queue) < BusCapacity THEN [tab EXCEPT !.queue = Append(@, e)]
  ELSE [tab EXCEPT !.queue = Append(Tail(@), e), !.lagged = TRUE]

TellLiveSubscribers(p) ==
  /\ pub[p].pc = "live"
  /\ tab' = Broadcast(pub[p].event)
  /\ pub' = After(p)
  /\ UNCHANGED <<engine, stream, announced, watch, topic, log, calendar, count>>

StoreEvents(p) ==
  /\ pub[p].pc = "store"
  /\ log' = Stored(pub[p].event)
  /\ pub' = After(p)
  /\ UNCHANGED <<engine, stream, announced, watch, topic, tab, calendar, count>>

\* store_events_logging_failure.
StoreFails(p) ==
  /\ pub[p].pc = "store" /\ Once("faults")
  /\ pub' = After(p)
  /\ UNCHANGED <<engine, stream, announced, watch, topic, log, tab, calendar>>

\* publish_clarification_without_starting_a_topic, publish_engine_busy.
Clarify ==
  /\ pub["turn"].pc = "none" /\ Once("clarify")
  /\ pub' = [pub EXCEPT !["turn"] = 
                 Publish([kind |-> "clarify", src |-> count'.clarify, at |-> month])]
  /\ UNCHANGED <<engine, stream, announced, watch, topic, log, tab, calendar>>

-----------------------------------------------------------------------------
(* The watcher *)

NewWatch == [pc |-> "open", seen |-> <<>>, ended |-> FALSE]

\* stream_events on the engine's side: a task that starts from the first event.
Started == [Closed EXCEPT !.pc = "poll"]

\* EngineClient::stream_events: every subscription starts at the first event.
OpenStream ==
  /\ watch.pc = "open"
  /\ watch' = [watch EXCEPT !.pc = "recv"]
  /\ stream' = Started
  /\ announced' = FALSE
  /\ UNCHANGED <<engine, topic, log, pub, tab, calendar, count>>

\* RecentEventIds::remember, for an id that is not there.
Remember(id) ==
  LET all == Append(watch.seen, id) IN IF Len(all) > Remembered THEN Tail(all) ELSE all

Received == Head(stream.sent)
Receiving == watch.pc = "recv" /\ stream.sent # <<>> /\ pub["watcher"].pc = "none"

\* An event the watcher remembers.
SkipSeen ==
  /\ Receiving /\ Received.id \in ToSet(watch.seen)
  /\ stream' = [stream EXCEPT !.sent = Tail(@)]
  /\ UNCHANGED <<engine, announced, chat, tab, calendar, count>>

\* handle_engine_event: progress is published under the id of its engine event.
RelayProgress ==
  /\ Receiving /\ Received.id \notin ToSet(watch.seen) /\ Received.kind = "progress"
  /\ stream' = [stream EXCEPT !.sent = Tail(@)]
  /\ watch' = [watch EXCEPT !.seen = Remember(Received.id)]
  /\ pub' = [pub EXCEPT !["watcher"] =
                 Publish([kind |-> "progress", src |-> Received.id, at |-> Received.at])]
  /\ UNCHANGED <<engine, announced, topic, log, tab, calendar, count>>

\* finish_topic, then publish_terminal_events.
FinishTopic ==
  /\ Receiving /\ Received.id \notin ToSet(watch.seen) /\ Received.kind = "terminal"
  /\ stream' = [stream EXCEPT !.sent = Tail(@)]
  /\ watch' = [watch EXCEPT !.seen = Remember(Received.id), !.ended = TRUE]
  /\ topic' = "finished"
  /\ pub' = [pub EXCEPT !["watcher"] = Publish([kind |-> "finished", src |-> 0, at |-> month])]
  /\ UNCHANGED <<engine, announced, log, tab, calendar, count>>

\* finish_topic fails: logged, and the event counts as seen.
FinishFails ==
  /\ Receiving /\ Received.id \notin ToSet(watch.seen) /\ Received.kind = "terminal"
  /\ Once("faults")
  /\ stream' = [stream EXCEPT !.sent = Tail(@)]
  /\ watch' = [watch EXCEPT !.seen = Remember(Received.id), !.ended = TRUE]
  /\ UNCHANGED <<engine, announced, topic, log, pub, tab, calendar>>

\* The call's deadline, an engine that restarts, a poll that fails.
StreamCut ==
  /\ stream.pc # "closed" /\ Once("cuts")
  /\ stream' = [Closed EXCEPT !.sent = stream.sent]
  /\ UNCHANGED <<engine, announced, chat, tab, calendar>>

\* consume_one_stream returns; watch_topic ends, or reconnects while the topic runs.
StreamEnds ==
  /\ watch.pc = "recv" /\ stream.sent = <<>> /\ pub["watcher"].pc = "none"
  /\ stream.pc \in {"closed", "done"}
  /\ stream' = Closed
  /\ watch' = [watch EXCEPT !.pc = IF watch.ended \/ topic # "running" THEN "off" ELSE "open",
                            !.ended = FALSE]
  /\ UNCHANGED <<engine, announced, topic, log, pub, tab, calendar, count>>

\* Every task of the process is lost; recover attaches a watcher to a running topic.
Restart ==
  /\ Once("restarts")
  /\ watch' = [NewWatch EXCEPT !.pc = IF topic = "running" THEN "open" ELSE "off"]
  /\ stream' = Closed /\ announced' = FALSE
  /\ pub' = [p \in DOMAIN pub |-> NoPub]
  /\ tab' = [tab EXCEPT !.pc = "off"]
  /\ UNCHANGED <<engine, topic, log, calendar>>

-----------------------------------------------------------------------------
(* The browser *)

NewTab == [pc |-> "off", queue |-> <<>>, got |-> {}, lagged |-> FALSE]

\* subscribe_and_replay: the receiver first.
Subscribe ==
  /\ tab.pc = "off" /\ Once("opened")
  /\ tab' = [NewTab EXCEPT !.pc = "subscribed"]
  /\ UNCHANGED <<engine, stream, announced, chat, calendar>>

\* stored_events: then what the log holds.
Replay ==
  /\ tab.pc = "subscribed"
  /\ tab' = [tab EXCEPT !.pc = "live", !.got = {EventId(e) : e \in ToSet(log)}]
  /\ UNCHANGED <<engine, stream, announced, chat, calendar, count>>

\* The live tail, chained behind the replay.
Deliver ==
  /\ tab.pc = "live" /\ tab.queue # <<>>
  /\ tab' = [tab EXCEPT !.queue = Tail(@), !.got = @ \cup {EventId(Head(tab.queue))}]
  /\ UNCHANGED <<engine, stream, announced, chat, calendar, count>>

-----------------------------------------------------------------------------
(* Partitions *)

\* ensure_open_through, with MONTHS_OPEN_AHEAD = 1.
OpenThrough == {month, month + 1}

\* drop_older_than: the months that stay.
WithinRetention(m) == m >= month - Retention

\* maintain: this month and the next are opened, months past the retention dropped.
Maintain ==
  /\ OpenThrough \ open # {}
  /\ open' = {m \in open \cup OpenThrough : WithinRetention(m)}
  /\ log' = Only(log, {e \in ToSet(log) : WithinRetention(e.at)})
  /\ UNCHANGED <<engine, stream, announced, watch, topic, pub, tab, month, count>>

\* A month ends; the daily maintenance has run in it.
NextMonth ==
  /\ month < MaxMonths /\ month + 1 \in open /\ Disturbed < MaxInAll
  /\ month' = month + 1
  /\ UNCHANGED <<engine, stream, announced, chat, tab, open, count>>

-----------------------------------------------------------------------------
Init ==
  /\ writer = [w \in Writers |-> IdleWriter] /\ events = {} /\ steps = 0 /\ nextId = 1
  /\ stream = Closed /\ announced = FALSE
  /\ watch = NewWatch /\ topic = "running" /\ log = <<>>
  /\ pub = [p \in {"watcher", "turn"} |-> NoPub]
  /\ tab = NewTab
  /\ month = 0 /\ open = {0, 1}
  /\ count = [cuts |-> 0, restarts |-> 0, faults |-> 0, clarify |-> 0, opened |-> 0]

Commit(w) == CommitReads(w) \/ CommitInserts(w) \/ CommitDuplicate(w) \/ CommitEnds(w)
             \/ CommitRollsBack(w)
Stream == Poll \/ Woken \/ SendRow
Watch == OpenStream \/ SkipSeen \/ RelayProgress \/ FinishTopic \/ StreamEnds
Publishing(p) == TellLiveSubscribers(p) \/ StoreEvents(p)
Browser == Subscribe \/ Replay \/ Deliver

Next ==
  \/ \E w \in Writers : Commit(w)
  \/ Stream \/ Watch \/ FinishFails \/ StreamCut \/ Restart
  \/ \E p \in DOMAIN pub : Publishing(p) \/ StoreFails(p)
  \/ Clarify \/ Browser \/ Maintain \/ NextMonth

RelaySpec == Init /\ [][Next]_vars

\* The stream's and the watcher's tasks are polled; nothing is assumed of writers, of
\* the browser or of announcements.
FairSpec ==
  /\ RelaySpec
  /\ WF_vars(Stream) /\ WF_vars(Watch \/ Publishing("watcher"))

-----------------------------------------------------------------------------
(* Properties *)

\* Every task, table and queue keeps its type.
TypeOK ==
  /\ \A w \in Writers : writer[w].pc \in {"idle", "insert", "commit"}
                        /\ writer[w].held \in Seq(Row)
  /\ events \subseteq Row /\ nextId \in 1..MaxIds + 1
  /\ stream.last \in 0..MaxIds /\ stream.batch \in Seq(Row) /\ stream.sent \in Seq(Row)
  /\ Len(stream.sent) <= Channel
  /\ Len(watch.seen) <= Remembered
  /\ topic \in {"running", "finished"}
  /\ log \in Seq(Event) /\ tab.got \subseteq {EventId(e) : e \in Event} /\ tab.queue \in Seq(Event)
  /\ Len(tab.queue) <= BusCapacity

\* The log has the progress of engine event id before position i.
LoggedBefore(id, i) == \E j \in 1..(i - 1) : log[j].kind = "progress" /\ log[j].src = id

\* Nothing is skipped on the way from the engine's tables to chat's.  A subscription to an
\* execution never passes over an event that is still to commit with a smaller id (only
\* the primary key of the checkpoints makes it so: ids are drawn before the commit).  As
\* long as no write has failed and no month is past the retention, chat's log has the
\* engine's events in the engine's order and without a gap, whatever was cut, restarted,
\* forgotten or replayed; and within a month one event has one row ("ON CONFLICT DO
\* NOTHING ... makes a replay idempotent", services/chat/README.md).
StreamSkipsNothing ==
  /\ \A r \in events : r.id < stream.last =>
       \A w \in Writers : writer[w].pc = "commit" => \A h \in ToSet(writer[w].held) : h.id > r.id
  /\ count.faults = 0 /\ month <= Retention =>
       \A i \in DOMAIN log : log[i].kind = "progress" =>
         /\ \E r \in events : r.kind = "progress" /\ r.id = log[i].src
         /\ \A r \in events : r.kind = "progress" /\ r.id < log[i].src => LoggedBefore(r.id, i)
  /\ \A i, j \in 1..Len(log) :
       i # j /\ EventId(log[i]) = EventId(log[j]) => log[i].at # log[j].at

\* What the browser has, or has in its queue.
Reached == tab.got \cup {EventId(e) : e \in ToSet(tab.queue)}

\* What no table but the log records reaches every open subscription that keeps up,
\* through the replay or the live tail (publish_all stores such events first).
OnlyLoggedNeverMissed ==
  tab.pc = "live" /\ ~tab.lagged =>
    \A e \in ToSet(log) : OnlyLogged(e) =>
      \/ EventId(e) \in Reached
      \/ \E p \in DOMAIN pub : pub[p].pc = "live" /\ EventId(pub[p].event) = EventId(e)

\* An execution that has ended finishes its topic, whatever announcement was lost and
\* whatever was cut, unless a write of chat failed.
EndReachesTheTopic ==
  (\E r \in events : r.kind = "terminal") ~> (topic = "finished" \/ count.faults > 0)
=============================================================================
