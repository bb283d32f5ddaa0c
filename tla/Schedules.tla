----------------------------- MODULE Schedules -----------------------------
(***************************************************************************)
(* The cron daemon and its table.  A poll locks one due row, moves its     *)
(* next_run_at past now in the same transaction, and only then starts the  *)
(* execution, best effort.  Daemons of several instances share the table;  *)
(* each may die between any two steps.  A cron expression is the set of    *)
(* instants it fires at.                                                   *)
(***************************************************************************)
EXTENDS Integers, Sequences, FiniteSets, Functions

CONSTANTS
  Crons,      \* schedules that may be created
  Fires,      \* [Crons -> SUBSET (1 .. LastInstant)]
  LastInstant,\* the clock's bound
  Daemons,    \* engine instances polling the table
  MaxDeaths   \* daemons that die between two steps, and starts that fail, in all

ASSUME SchedulesAssumption ==
  Fires \in [Crons -> SUBSET (1 .. LastInstant)] /\ LastInstant \in Nat /\ MaxDeaths \in Nat

VARIABLES
  clock,
  rows,       \* [Crons -> [there, enabled, next, last]]
  daemon,     \* [Daemons -> [pc, cron, due, over]]; over: rows as claimable that its claim left
  started,    \* [Crons -> the due instants whose execution was started, in order]
  passed,     \* [Crons -> [Crons -> claims of the second made while the first was due]]
  deaths

scheduleVars == <<clock, rows, daemon, started, passed, deaths>>

Resting == [pc |-> "idle", cron |-> "none", due |-> 0, over |-> {}]

ScheduleInit ==
  /\ clock = 0
  /\ rows = [c \in Crons |-> [there |-> FALSE, enabled |-> FALSE, next |-> 0, last |-> 0]]
  /\ daemon = [d \in Daemons |-> Resting]
  /\ started = [c \in Crons |-> <<>>]
  /\ passed = [c \in Crons |-> [x \in Crons |-> 0]]
  /\ deaths = 0

\* cron_next.rs: strictly after, so standing on a fire time advances; nothing when it never fires again.
next_fire_after(c, t) == {f \in Fires[c] : f > t /\ \A g \in Fires[c] : g > t => f <= g}

\* schedule_service.rs create_schedule: the row, with its first fire time.
Scheduled(c) ==
  [there |-> TRUE, enabled |-> TRUE, last |-> 0,
   next |-> CHOOSE f \in next_fire_after(c, clock) : TRUE]

\* CreateSchedule: refused when the expression never fires again.
CreateSchedule(c) ==
  /\ ~rows[c].there /\ next_fire_after(c, clock) # {}
  /\ rows' = [rows EXCEPT ![c] = Scheduled(c)]
  /\ UNCHANGED <<clock, daemon, started, passed, deaths>>

Locked(c) == \E d \in Daemons : daemon[d].pc = "claiming" /\ daemon[d].cron = c

Due(c) == rows[c].there /\ rows[c].enabled /\ rows[c].next <= clock

\* A slip in scheduler.rs: the row is read without FOR UPDATE SKIP LOCKED.
UnheldAny(c) == Due(c)

Unheld(c) == Due(c) /\ ~Locked(c)

\* scheduler.rs claim_one_due: the oldest due row nobody else holds.
ClaimOneDue(d, c) ==
  /\ daemon[d].pc = "idle" /\ Unheld(c)
  /\ \A x \in Crons : Unheld(x) => rows[c].next <= rows[x].next
  /\ daemon' = [daemon EXCEPT ![d] = [pc |-> "claiming", cron |-> c, due |-> rows[c].next,
                                      over |-> {x \in Crons \ {c} : Unheld(x)}]]
  /\ UNCHANGED <<clock, rows, started, passed, deaths>>

\* ... moved past now and committed, or disabled when there is no next time, which fires nothing.
Advance(d) ==
  LET c == daemon[d].cron
      next == next_fire_after(c, clock)
      left == [e \in Daemons |-> [daemon[e] EXCEPT !.over = @ \ {c}]]
  IN /\ daemon[d].pc = "claiming"
     /\ IF next # {}
        THEN /\ rows' = [rows EXCEPT ![c].next = CHOOSE f \in next : TRUE]
             /\ daemon' = [left EXCEPT ![d] =
                  [pc |-> "firing", cron |-> c, due |-> daemon[d].due, over |-> {}]]
        ELSE /\ rows' = [rows EXCEPT ![c].enabled = FALSE]
             /\ daemon' = [left EXCEPT ![d] = Resting]
     /\ passed' = [x \in Crons |->
          IF x = c THEN [y \in Crons |-> 0]
          ELSE IF x \in daemon[d].over THEN [passed[x] EXCEPT ![c] = @ + 1] ELSE passed[x]]
     /\ UNCHANGED <<clock, started, deaths>>

\* scheduler.rs start: an execution, or a logged failure that costs this run.
StartRun(d) ==
  /\ daemon[d].pc = "firing"
  /\ \/ /\ started' = [started EXCEPT ![daemon[d].cron] = Append(@, daemon[d].due)]
        /\ daemon' = [daemon EXCEPT ![d].pc = "recording"]
        /\ UNCHANGED deaths
     \/ /\ deaths < MaxDeaths /\ deaths' = deaths + 1
        /\ daemon' = [daemon EXCEPT ![d] = Resting]
        /\ UNCHANGED started
  /\ UNCHANGED <<clock, rows, passed>>

\* scheduler.rs record_last_execution.
RecordLastExecution(d) ==
  /\ daemon[d].pc = "recording"
  /\ rows' = [rows EXCEPT ![daemon[d].cron].last = daemon[d].due]
  /\ daemon' = [daemon EXCEPT ![d] = Resting]
  /\ UNCHANGED <<clock, started, passed, deaths>>

\* The process dies: an open transaction rolls back, a claimed run is lost.
Die(d) ==
  /\ daemon[d].pc # "idle" /\ deaths < MaxDeaths
  /\ deaths' = deaths + 1
  /\ daemon' = [daemon EXCEPT ![d] = Resting]
  /\ UNCHANGED <<clock, rows, started, passed>>

TimePasses ==
  /\ clock < LastInstant /\ clock' = clock + 1
  /\ UNCHANGED <<rows, daemon, started, passed, deaths>>

ScheduleNext ==
  \/ \E c \in Crons : CreateSchedule(c)
  \/ \E d \in Daemons : \/ (\E c \in Crons : ClaimOneDue(d, c))
                        \/ Advance(d) \/ StartRun(d) \/ RecordLastExecution(d) \/ Die(d)
  \/ TimePasses

ScheduleSpec == ScheduleInit /\ [][ScheduleNext]_scheduleVars

\* However many daemons poll, fail and die, a due time starts at most one execution, never ahead of
\* time nor for an instant the expression does not name (README "at-most-once-per-due-tick semantics
\* across any number of instances"), and a due row that nobody holds is passed over by no other
\* schedule twice, although a poll takes a single row (scheduler.rs ORDER BY next_run_at).
SchedulesKeepTime ==
  /\ \A c \in Crons :
       /\ IsInjective(started[c])
       /\ \A i \in DOMAIN started[c] : started[c][i] \in Fires[c] \cap (1 .. clock)
  /\ \A c, x \in Crons : passed[c][x] <= 1
=============================================================================
