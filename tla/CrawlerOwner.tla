---------------------------- MODULE CrawlerOwner ----------------------------
(***************************************************************************)
(* Who owns the crawl jobs.  An instance takes a Postgres advisory lock    *)
(* that lives as long as its database session, waits for the previous      *)
(* owner to notice that it lost the lock, starts up, and then serves,      *)
(* asking the session at fixed intervals whether it is still there.        *)
(* Starting up takes as long as it takes, unwatched.  Time runs in steps   *)
(* of 500 ms and no timer fires late.                                      *)
(***************************************************************************)
EXTENDS Integers, FiniteSets

CONSTANTS Instances

VARIABLES
  instance,   \* [Instances -> [phase, check, left]]: left of the sleep or of the check's timeout
  session,    \* [Instances -> BOOLEAN]: the database session is up
  lock        \* the sessions that hold the advisory lock

ownerVars == <<instance, session, lock>>

CheckInterval == 2   \* OWNERSHIP_CHECK_INTERVAL_MS
CheckTimeout  == 1   \* OWNERSHIP_CHECK_TIMEOUT_MS

\* A slip in instance_guard.rs: the delay allows for the interval and not for the check.
TakeoverDelayShort == 2

TakeoverDelay == 4   \* TAKEOVER_SAFETY_DELAY_MS

Now(phase, check, left) == [phase |-> phase, check |-> check, left |-> left]

Off == Now("off", "none", 0)

OwnerInit ==
  /\ instance = [i \in Instances |-> Off]
  /\ session = [i \in Instances |-> FALSE]
  /\ lock = {}

\* acquire: one try at the lock; without it the process ends.
Acquire(i) ==
  /\ instance[i].phase = "off" /\ lock = {}
  /\ session' = [session EXCEPT ![i] = TRUE]
  /\ lock' = {i}
  /\ instance' = [instance EXCEPT ![i] = Now("waiting", "none", TakeoverDelay)]

\* wait_for_previous_owner and monitor: a sleep over, the session is asked.
Check(i) ==
  /\ instance[i].phase \in {"waiting", "new", "old"}
  /\ instance[i].check = "none" /\ instance[i].left = 0
  /\ instance' = [instance EXCEPT ![i] = Now(@.phase, "asked", CheckTimeout)]
  /\ UNCHANGED <<session, lock>>

\* The heartbeat runs in the session; its answer is on the way.
Executes(i) ==
  /\ instance[i].check = "asked" /\ session[i]
  /\ instance' = [instance EXCEPT ![i] = Now(@.phase, "answered", @.left)]
  /\ UNCHANGED <<session, lock>>

\* The answer arrives, maybe from a session that is gone by now: start up, or serve on for another
\* interval as an owner that was checked since it began to serve.
Answered(i) ==
  /\ instance[i].check = "answered"
  /\ instance' = [instance EXCEPT ![i] =
       IF @.phase = "waiting" THEN Now("starting", "none", 0)
                                  ELSE Now("old", "none", CheckInterval)]
  /\ UNCHANGED <<session, lock>>

\* Schema, statements, fail_unfinished and the port are done with: serve, and sleep before the
\* first check of monitor.
Starts(i) ==
  /\ instance[i].phase = "starting"
  /\ instance' = [instance EXCEPT ![i] = Now("new", "none", CheckInterval)]
  /\ UNCHANGED <<session, lock>>

\* check_connection failed, or ran out of time although the session is up: the process ends, and its
\* crawls and its session with it.
Stops(i) ==
  /\ instance[i].check # "none"
  /\ ~session[i] \/ instance[i].left = 0
  /\ instance' = [instance EXCEPT ![i] = Off]
  /\ session' = [session EXCEPT ![i] = FALSE]
  /\ lock' = lock \ {i}

\* The process is killed, or does not get through its start-up.
Killed(i) ==
  /\ instance[i].phase # "off"
  /\ instance' = [instance EXCEPT ![i] = Off]
  /\ session' = [session EXCEPT ![i] = FALSE]
  /\ lock' = lock \ {i}

\* The database drops the session, and its lock, while the process runs on.
SessionDrops(i) ==
  /\ session[i]
  /\ session' = [session EXCEPT ![i] = FALSE]
  /\ lock' = lock \ {i}
  /\ UNCHANGED instance

Timed == {i \in Instances : instance[i].phase \in {"waiting", "new", "old"}}

\* A step of time, when no timer is due.
Passes ==
  /\ Timed # {} /\ \A i \in Timed : instance[i].left > 0
  /\ instance' = [i \in Instances |->
       IF i \in Timed THEN Now(instance[i].phase, instance[i].check, instance[i].left - 1)
                      ELSE instance[i]]
  /\ UNCHANGED <<session, lock>>

OwnerNext ==
  \/ \E i \in Instances : \/ Acquire(i) \/ Check(i) \/ Executes(i) \/ Answered(i) \/ Starts(i)
                          \/ Stops(i) \/ Killed(i) \/ SessionDrops(i)
  \/ Passes

OwnerSpec == OwnerInit /\ [][OwnerNext]_ownerVars

\* Owners that a check has found in possession since they began to serve, up to the instant at which
\* their next check runs out of time.
Checked == {i \in Instances : instance[i].phase = "old" /\ instance[i].left > 0}

\* An owner that was checked while it served is the only such one, and whoever has taken the lock from
\* under it is still waiting, although a check's answer may be as old as its timeout
\* (instance_guard.rs's assertion on the three delays leaves that out; the delay of 2 s does not).
\* Nothing is said of an owner that has just begun to serve: its session may have dropped while it
\* started up, which its first check is the first to notice.
CheckedOwnersAreAlone ==
  \A i \in Checked, j \in Instances : i # j =>
    j \notin Checked /\ (j \in lock => instance[j].phase = "waiting")
=============================================================================
