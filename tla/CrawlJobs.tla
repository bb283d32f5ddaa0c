----------------------------- MODULE CrawlJobs -----------------------------
(***************************************************************************)
(* Crawl jobs and what they leave behind: rows deduplicated by key, at     *)
(* most MaxConcurrent crawls at a time, each a fetch loop feeding a store  *)
(* stage (page row, count, hand-off to the knowledge base) and a graph     *)
(* stage (the page's outbound links replaced) through channels of one;     *)
(* the process may stop at any point and the next one fails what it finds  *)
(* unfinished.  The site changes while it is crawled.                      *)
(***************************************************************************)
EXTENDS KnowledgeBase

CONSTANTS
  Callers,         \* concurrent StartCrawl calls
  Keys,            \* idempotency keys; "" is none
  Links,           \* what each version of a page links to
  MaxPages,        \* CRAWL_MAX_PAGES
  MaxConcurrent,   \* MAX_CONCURRENT_CRAWLS
  MaxDisturbances  \* site edits, failed writes and hand-offs, and crashes, in all

ASSUME CrawlAssumption ==
  /\ DOMAIN Links = Versions /\ MaxPages \in Nat /\ MaxConcurrent \in Nat \ {0}
  /\ IsFiniteSet(Callers)

VARIABLES
  site,      \* [Urls -> Versions]
  caller,    \* [Callers -> [pc, key, job]]
  jobs,      \* rows: [key, status, crawled]
  run,       \* the process's crawl of each job
  pages,     \* [Urls -> set of at most one version]: crawler.pages
  edges,     \* [Urls -> set of [to, by]]: crawler.page_edges
  process,   \* "up" | "down"
  disturbed

crawlVars == <<docs, reader, site, caller, jobs, run, pages, edges, process, disturbed>>

Ids == 1 .. Cardinality(Callers)

NoRun ==
  [pc |-> "none", todo |-> {}, emitted |-> 0, any |-> FALSE, lost |-> FALSE,
   store |-> <<>>, step |-> "idle", changed |-> FALSE, graph |-> <<>>, deletes |-> {}, txn |-> FALSE,
   fetched |-> {}, starts |-> 0, clean |-> TRUE, kept |-> TRUE]

CrawlInit ==
  /\ KbInit
  /\ site \in [Urls -> {v \in Versions : Accepts(v)}]
  /\ caller = [c \in Callers |-> [pc |-> "idle", key |-> "", job |-> 0]]
  /\ jobs = <<>> /\ run = [j \in Ids |-> NoRun]
  /\ pages = [u \in Urls |-> {}] /\ edges = [u \in Urls |-> {}]
  /\ process = "up" /\ disturbed = 0

Disturb == disturbed < MaxDisturbances /\ disturbed' = disturbed + 1

ByKey(k) == {j \in 1 .. Len(jobs) : jobs[j].key = k}

\* main.rs get_crawl_job: the row, as stored.
GetCrawlJob(j) == jobs[j]

(***************************************************************************)
(* StartCrawl: jobs.rs create                                              *)
(***************************************************************************)

Moves(c, p, k, j) == caller' = [caller EXCEPT ![c] = [pc |-> p, key |-> k, job |-> j]]

\* The look before the insert, which may fail; a caller without a key goes straight to the insert.
Lookup(c, k) ==
  /\ process = "up" /\ caller[c].pc = "idle"
  /\ \/ /\ IF k # "" /\ ByKey(k) # {}
           THEN Moves(c, "done", k, CHOOSE j \in ByKey(k) : TRUE)
           ELSE Moves(c, "inserting", k, 0)
        /\ UNCHANGED disturbed
     \/ k # "" /\ Disturb /\ Moves(c, "failed", k, 0)
  /\ UNCHANGED <<docs, reader, site, jobs, run, pages, edges, process>>

\* A slip in crawl_job.rs: the key column is not unique.
TakenNever(k) == FALSE

\* entity/crawl_job.rs: the key is unique, so a second insert of it fails.
Taken(k) == k # "" /\ ByKey(k) # {}

\* job_store.rs create.
NewJob(k) == [key |-> k, status |-> "queued", crawled |-> 0]

\* The insert: a row that no crawl carries yet, or an error, for a key that is taken or for any other
\* reason.
Insert(c) ==
  LET k == caller[c].key
  IN /\ process = "up" /\ caller[c].pc = "inserting"
     /\ \/ /\ ~Taken(k) /\ jobs' = Append(jobs, NewJob(k)) /\ UNCHANGED disturbed
           /\ Moves(c, "inserted", k, Len(jobs) + 1)
        \/ Taken(k) /\ Moves(c, "refused", k, 0) /\ UNCHANGED <<jobs, disturbed>>
        \/ Disturb /\ Moves(c, "refused", k, 0) /\ UNCHANGED jobs
     /\ UNCHANGED <<docs, reader, site, run, pages, edges, process>>

\* main.rs start_crawl: the crawl of the row that was created, and the answer.
Spawn(c) ==
  LET j == caller[c].job
  IN /\ process = "up" /\ caller[c].pc = "inserted"
     /\ run' = [run EXCEPT ![j].pc = "waiting", ![j].starts = @ + 1]
     /\ Moves(c, "done", caller[c].key, j)
     /\ UNCHANGED <<docs, reader, site, jobs, pages, edges, process, disturbed>>

\* jobs.rs create, after an error: whatever row has the key now is the answer, and it is not spawned.
Refind(c) ==
  LET k == caller[c].key
  IN /\ process = "up" /\ caller[c].pc = "refused"
     /\ IF k # "" /\ ByKey(k) # {}
        THEN Moves(c, "done", k, CHOOSE i \in ByKey(k) : TRUE)
        ELSE Moves(c, "failed", k, 0)
     /\ UNCHANGED <<docs, reader, site, jobs, run, pages, edges, process, disturbed>>

\* The row was committed and the call does not learn of it, which is an error of the insert, or its
\* caller goes away and the handler is dropped: nothing spawns the crawl.
SpawnLost(c) ==
  /\ process = "up" /\ caller[c].pc = "inserted" /\ Disturb
  /\ run' = [run EXCEPT ![caller[c].job].kept = FALSE]
  /\ \E p \in {"refused", "failed"} : Moves(c, p, caller[c].key, 0)
  /\ UNCHANGED <<docs, reader, site, jobs, pages, edges, process>>

\* The caller goes away before the insert was sent or after it was refused, or the second look fails.
CallFails(c) ==
  /\ process = "up" /\ caller[c].pc \in {"inserting", "refused"} /\ Disturb
  /\ Moves(c, "failed", caller[c].key, 0)
  /\ UNCHANGED <<docs, reader, site, jobs, run, pages, edges, process>>

(***************************************************************************)
(* One crawl: jobs.rs run                                                  *)
(***************************************************************************)

Live(j) == run[j].pc \in {"crawling", "ending"}

LiveJobs == {j \in Ids : Live(j)}

\* A permit, then the running status, whose write may fail.
Begin(j) ==
  /\ run[j].pc = "waiting" /\ Cardinality(LiveJobs) < MaxConcurrent
  /\ run' = [i \in Ids |->
       IF i = j THEN [run[j] EXCEPT !.pc = "crawling", !.todo = Urls, !.clean = (LiveJobs = {})]
       ELSE [run[i] EXCEPT !.clean = FALSE]]
  /\ \/ jobs' = [jobs EXCEPT ![j].status = "running"] /\ UNCHANGED disturbed
     \/ Disturb /\ UNCHANGED jobs
  /\ UNCHANGED <<docs, reader, site, caller, pages, edges, process>>

\* crawl.rs forward_page: a page over the cap is lost, one under it is counted and goes to the stages.
\* A page too large to parse goes to neither, one out of scope is not stored, one whose final URL is
\* too long is not linked.  Which pages spider finds, and whether one answers, is the site's choice.
Fetch(j, u) ==
  LET r == run[j]
      page == [url |-> u, version |-> site[u]]
  IN /\ r.pc = "crawling" /\ u \in r.todo
     /\ r.store = <<>> /\ r.graph = <<>>
     /\ IF r.emitted >= MaxPages
        THEN run' = [run EXCEPT ![j] = [r EXCEPT !.todo = @ \ {u}, !.any = TRUE, !.lost = TRUE]]
        ELSE \E toStore \in {<<>>, <<page>>}, toGraph \in {<<>>, <<page>>} :
               run' = [run EXCEPT ![j] =
                 [r EXCEPT !.todo = @ \ {u}, !.any = TRUE, !.emitted = @ + 1, !.store = toStore,
                           !.graph = toGraph, !.fetched = IF toStore = <<>> THEN @ ELSE @ \cup {u}]]
     /\ UNCHANGED <<docs, reader, site, caller, jobs, pages, edges, process, disturbed>>

\* spider stops: no page left, or none reached.
CrawlEnds(j) ==
  /\ run[j].pc = "crawling"
  /\ run' = [run EXCEPT ![j].pc = "ending", ![j].todo = {}]
  /\ UNCHANGED <<docs, reader, site, caller, jobs, pages, edges, process, disturbed>>

Stored(j) == run[j].store[1]

NextPage(r) == [r EXCEPT !.store = <<>>, !.step = "idle", !.changed = FALSE]

\* job_store.rs add_crawled_page.
Counted(j) == [jobs EXCEPT ![j].crawled = @ + 1]

\* store.rs save, the row for the URL inserted or updated, then job_store.rs add_crawled_page; a
\* failed count is logged, a failed save skips the page.
SavePage(j) ==
  /\ Live(j) /\ run[j].store # <<>> /\ run[j].step = "idle"
  /\ \/ /\ pages' = [pages EXCEPT ![Stored(j).url] = {Stored(j).version}]
        /\ run' = [run EXCEPT ![j].step = "hand off",
                              ![j].changed = pages[Stored(j).url] # {Stored(j).version}]
        /\ \/ jobs' = Counted(j) /\ UNCHANGED disturbed
           \/ Disturb /\ UNCHANGED jobs
     \/ /\ Disturb
        /\ run' = [run EXCEPT ![j] = [NextPage(@) EXCEPT !.clean = FALSE]]
        /\ UNCHANGED <<pages, jobs>>
  /\ UNCHANGED <<docs, reader, site, caller, edges, process>>

\* A slip in jobs.rs: only a page whose row changed is handed over.
HandsOffChanged(j) == run[j].changed

\* jobs.rs ingest_stored_page: every stored page, changed or not.
HandsOff(j) == TRUE

\* ingest.rs: refused, skipped by its own hash, or on to the model and the embedder.
IngestLooks(j) ==
  LET p == Stored(j)
  IN /\ Live(j) /\ run[j].step = "hand off"
     /\ IF HandsOff(j) /\ Accepts(p.version) /\ ~Skips(p.url, p.version)
        THEN run' = [run EXCEPT ![j].step = "ingesting"]
        ELSE run' = [run EXCEPT ![j] = NextPage(@)]
     /\ UNCHANGED <<docs, reader, site, caller, jobs, pages, edges, process, disturbed>>

\* ingest.rs: all written at once, or nothing when the model, the embedder or the store fails or the
\* crawler stops waiting; the crawler logs it and goes on.
IngestWrites(j) ==
  /\ Live(j) /\ run[j].step = "ingesting"
  /\ \/ /\ Upsert(Stored(j).url, Stored(j).version) /\ UNCHANGED disturbed
        /\ run' = [run EXCEPT ![j] = NextPage(@)]
     \/ /\ Disturb /\ UNCHANGED docs
        /\ run' = [run EXCEPT ![j] = [NextPage(@) EXCEPT !.clean = FALSE]]
  /\ UNCHANGED <<reader, site, caller, jobs, pages, edges, process>>

(***************************************************************************)
(* The graph stage: graph.rs replace_outbound, one read-committed          *)
(* transaction.  The delete takes the rows committed when it runs; the     *)
(* insert fails on a link another crawl has committed since.               *)
(***************************************************************************)

DeleteEdges(j) ==
  /\ Live(j) /\ run[j].graph # <<>> /\ ~run[j].txn
  /\ run' = [run EXCEPT ![j].txn = TRUE, ![j].deletes = edges[run[j].graph[1].url]]
  /\ UNCHANGED <<docs, reader, site, caller, jobs, pages, edges, process, disturbed>>

NewEdges(j) == {[to |-> u, by |-> j] : u \in Links[run[j].graph[1].version] \ {run[j].graph[1].url}}

CommitEdges(j) ==
  LET u == run[j].graph[1].url
      left == edges[u] \ run[j].deletes
      conflict == \E e \in left, n \in NewEdges(j) : e.to = n.to
  IN /\ Live(j) /\ run[j].txn
     /\ run' = [run EXCEPT ![j].txn = FALSE, ![j].deletes = {}, ![j].graph = <<>>]
     /\ edges' = IF conflict THEN edges ELSE [edges EXCEPT ![u] = left \cup NewEdges(j)]
     /\ UNCHANGED <<docs, reader, site, caller, jobs, pages, process, disturbed>>

\* jobs.rs complete_job: done when something was reached and nothing lost; the write may fail, which
\* leaves the row as it was.
Outcome(j) == IF run[j].lost \/ ~run[j].any THEN "failed" ELSE "done"

Complete(j) ==
  /\ run[j].pc = "ending" /\ run[j].store = <<>> /\ run[j].graph = <<>>
  /\ \/ /\ jobs' = [jobs EXCEPT ![j].status = Outcome(j)]
        /\ run' = [run EXCEPT ![j].pc = "over"]
        /\ UNCHANGED disturbed
     \/ /\ Disturb /\ UNCHANGED jobs
        /\ run' = [run EXCEPT ![j].pc = "over", ![j].kept = FALSE]
  /\ UNCHANGED <<docs, reader, site, caller, pages, edges, process>>

(***************************************************************************)
(* The site, and the process                                               *)
(***************************************************************************)

Edit(u, v) ==
  /\ Disturb /\ v # site[u]
  /\ site' = [site EXCEPT ![u] = v]
  /\ UNCHANGED <<docs, reader, caller, jobs, run, pages, edges, process>>

Crash ==
  /\ process = "up" /\ Disturb
  /\ process' = "down"
  /\ run' = [j \in Ids |-> [NoRun EXCEPT !.starts = run[j].starts]]
  /\ caller' = [c \in Callers |-> IF caller[c].pc \in {"idle", "done"}
                                  THEN caller[c] ELSE [caller[c] EXCEPT !.pc = "failed"]]
  /\ UNCHANGED <<docs, reader, site, jobs, pages, edges>>

\* job_store.rs fail_unfinished.
Unfinished == {"queued", "running"}

\* main.rs: the new owner fails what the last one left before it takes requests.
Restart ==
  /\ process = "down" /\ process' = "up"
  /\ jobs' = [j \in 1 .. Len(jobs) |->
       IF jobs[j].status \in Unfinished THEN [jobs[j] EXCEPT !.status = "failed"] ELSE jobs[j]]
  /\ UNCHANGED <<docs, reader, site, caller, run, pages, edges, disturbed>>

CrawlNext ==
  \/ \E c \in Callers, k \in Keys : Lookup(c, k)
  \/ \E c \in Callers : Insert(c) \/ Spawn(c) \/ Refind(c) \/ SpawnLost(c) \/ CallFails(c)
  \/ \E j \in Ids : \/ Begin(j) \/ (\E u \in Urls : Fetch(j, u)) \/ CrawlEnds(j)
                    \/ SavePage(j) \/ IngestLooks(j) \/ IngestWrites(j)
                    \/ DeleteEdges(j) \/ CommitEdges(j) \/ Complete(j)
  \/ \E u \in Urls, v \in Versions : Edit(u, v)
  \/ Crash \/ Restart
  \/ KbNext /\ UNCHANGED <<site, caller, jobs, run, pages, edges, process, disturbed>>

CrawlSpec == CrawlInit /\ [][CrawlNext]_crawlVars

(***************************************************************************)
(* Properties                                                              *)
(***************************************************************************)

\* Whoever submits one key gets one job, however lookups, inserts, errors and crashes interleave; a job
\* is crawled at most once, at most MaxConcurrent at a time; and a row that says queued or running is
\* one this process carries or is about to spawn, but for the two ways it can lose hold of a row: its
\* last status write failed, or the call that committed it was lost before the spawn (jobs.rs create
\* and run, main.rs start_crawl; README "unfinished jobs are marked failed when a new owner takes over").
JobRowsTellTheTruth ==
  /\ \A c, d \in Callers :
       caller[c].pc = "done" /\ caller[d].pc = "done"
         /\ caller[c].key = caller[d].key /\ caller[c].key # ""
         => caller[c].job = caller[d].job
  /\ \A j \in Ids : run[j].starts <= 1
  /\ Cardinality(LiveJobs) <= MaxConcurrent
  /\ process = "up" =>
       \A j \in 1 .. Len(jobs) :
         GetCrawlJob(j).status \in {"queued", "running"} =>
           \/ run[j].pc \in {"waiting", "crawling", "ending"} \/ ~run[j].kept
           \/ \E c \in Callers : caller[c].pc = "inserted" /\ caller[c].job = j

\* A crawl that ran alone and met no failure leaves the knowledge base holding what it stored of every
\* page it fetched, whatever earlier hand-offs failed (README "a later crawl can retry a previously
\* failed hand-off"); only a page Ingest refuses is left out.
HandOffHeals ==
  [][\A j \in 1 .. Len(jobs) :
       jobs[j].status # "done" /\ jobs'[j].status = "done" /\ run[j].clean =>
         \A u \in run[j].fetched :
           docs[u] = pages[u] \/ \E v \in pages[u] : ~Accepts(v)]_crawlVars
=============================================================================
