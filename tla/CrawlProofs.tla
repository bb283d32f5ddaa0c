----------------------------- MODULE CrawlProofs -----------------------------
(***************************************************************************)
(* Proofs about crawl jobs and the documents they hand over, for any       *)
(* callers, keys, sites, page caps and crashes, and about an agent that    *)
(* reads a document while crawls replace it.                               *)
(***************************************************************************)
EXTENDS CrawlJobs, FiniteSetTheorems, SequenceTheorems, TLAPS

Page == [url : Urls, version : Versions]
Edge == [to : UNION {Links[v] : v \in Versions}, by : Ids]
Job == [key : Keys, status : {"queued", "running", "done", "failed"}, crawled : Nat]
CallerPcs == {"idle", "inserting", "inserted", "refused", "done", "failed"}
Caller == [pc : CallerPcs, key : Keys \cup {""}, job : Nat]
RunPcs == {"none", "waiting", "crawling", "ending", "over"}

Run ==
  [pc : RunPcs, todo : SUBSET Urls, emitted : Nat, any : BOOLEAN, lost : BOOLEAN,
   store : Seq(Page), step : {"idle", "hand off", "ingesting"}, changed : BOOLEAN, graph : Seq(Page),
   deletes : SUBSET Edge, txn : BOOLEAN, fetched : SUBSET Urls, starts : Nat, clean : BOOLEAN,
   kept : BOOLEAN]

\* The tables, the callers and the process, well formed.
CrawlTypeOK ==
  /\ docs \in [Urls -> SUBSET Versions] /\ pages \in [Urls -> SUBSET Versions]
  /\ site \in [Urls -> Versions] /\ edges \in [Urls -> SUBSET Edge]
  /\ caller \in [Callers -> Caller] /\ jobs \in Seq(Job) /\ run \in [Ids -> Run]
  /\ process \in {"up", "down"}

\* The columns of a job, of a caller and of a crawl, by name.
KeyOf(j) == jobs[j].key
StatusOf(j) == jobs[j].status
CallerAt(c, p) == caller[c].pc = p
CallerKey(c) == caller[c].key
CallerJob(c) == caller[c].job
RunAt(j, p) == run[j].pc = p
Starts(j) == run[j].starts
Clean(j) == run[j].clean
Kept(j) == run[j].kept
Pending(j) == run[j].store # <<>>
StepIs(j, s) == run[j].step = s
Fetched(j) == run[j].fetched
Linking(j) == run[j].txn
ToLink(j) == run[j].graph
Past == {c \in Callers : ~CallerAt(c, "idle") /\ ~CallerAt(c, "inserting")}
HasRow(c) == CallerAt(c, "done") \/ CallerAt(c, "inserted")
AboutToSpawn(j) == \E c \in Callers : CallerAt(c, "inserted") /\ CallerJob(c) = j

\* A caller that has a row has the row of its key, there is one row of a key, and no more rows than
\* callers past their insert.
KeysAreUnique ==
  /\ Len(jobs) <= Cardinality(Past)
  /\ \A c \in Callers : HasRow(c) =>
       CallerJob(c) \in 1 .. Len(jobs) /\ KeyOf(CallerJob(c)) = CallerKey(c)
  /\ \A i, j \in 1 .. Len(jobs) : KeyOf(i) = KeyOf(j) /\ KeyOf(i) # "" => i = j
  /\ \A c \in Callers : ~CallerAt(c, "idle") => CallerKey(c) \in Keys

\* The rows between commit and spawn: not crawled yet, and each in one caller's hands.
SpawnsToCome ==
  /\ \A c \in Callers : CallerAt(c, "inserted") =>
       Starts(CallerJob(c)) = 0 /\ RunAt(CallerJob(c), "none")
  /\ \A c, d \in Callers :
       CallerAt(c, "inserted") /\ CallerAt(d, "inserted") /\ CallerJob(c) = CallerJob(d) => c = d

\* A row is crawled at most once, and says so while this process crawls it.
RowsAreCrawled ==
  /\ \A j \in Ids : IF j <= Len(jobs) THEN Starts(j) <= 1 ELSE Starts(j) = 0 /\ RunAt(j, "none")
  /\ process = "down" => \A j \in Ids : RunAt(j, "none")
  /\ process = "up" => \A j \in 1 .. Len(jobs) :
       StatusOf(j) \in {"queued", "running"} =>
         RunAt(j, "waiting") \/ RunAt(j, "crawling") \/ RunAt(j, "ending") \/ ~Kept(j) \/ AboutToSpawn(j)
  /\ Cardinality(LiveJobs) <= MaxConcurrent
  /\ SpawnsToCome

\* What a crawl holds of the pages it fetched: nothing before it begins, a page in hand while it is
\* being handed over, and links to write inside its transaction.
CrawlsHoldPages ==
  \A j \in Ids :
    /\ RunAt(j, "none") \/ RunAt(j, "waiting") => Fetched(j) = {} /\ ~Pending(j)
    /\ ~StepIs(j, "idle") => Pending(j)
    /\ StepIs(j, "ingesting") => Accepts(Stored(j).version)
    /\ Linking(j) => ToLink(j) # <<>>

\* A document is one version that Ingest took.
DocsAreAccepted == \A u \in Urls : docs[u] = {} \/ \E v \in Versions : docs[u] = {v} /\ Accepts(v)

\* A clean crawl has the process to itself, and what it fetched is in the knowledge base but for the
\* page in hand, whose row is already the one being handed over.
Held(u) == docs[u] = pages[u] \/ \E v \in pages[u] : ~Accepts(v)

CleanIsAlone ==
  \A j \in Ids : Clean(j) /\ Live(j) =>
    /\ \A i \in Ids : Live(i) => i = j
    /\ \A u \in Fetched(j) : (Pending(j) /\ Stored(j).url = u) \/ Held(u)
    /\ ~StepIs(j, "idle") => pages[Stored(j).url] = {Stored(j).version}

CrawlInv ==
  /\ CrawlTypeOK /\ KeysAreUnique /\ RowsAreCrawled /\ CrawlsHoldPages /\ DocsAreAccepted /\ CleanIsAlone

\* What an agent has read, page by page: the reference is of a version that was taken, and what it has
\* got so far is that version's first pages.
ReaderPcs == {"idle", "reading", "changed", "past the end", "whole"}

Reader ==
  [pc : ReaderPcs, url : Urls \cup {"none"}, version : Versions \cup {"none"}, at : Nat,
   got : Seq(Versions \X Nat)]

ReaderAt(p) == reader.pc = p
OfUrl == reader.url
OfVersion == reader.version
Cursor == reader.at
Got == reader.got

ReadsInOrder ==
  /\ reader \in Reader
  /\ ~ReaderAt("idle") =>
       /\ OfUrl \in Urls /\ OfVersion \in Versions /\ Accepts(OfVersion)
       /\ Len(Got) = Cursor /\ Cursor <= Size[OfVersion]
       /\ \A i \in 1 .. Cursor : Got[i] = <<OfVersion, i>>
  /\ ReaderAt("reading") => Cursor < Size[OfVersion]
  /\ ReaderAt("whole") => Cursor = Size[OfVersion]


-----------------------------------------------------------------------------
(* What the steps do to a crawl *)

\* Jobs and callers are finitely many.
LEMMA IdsFinite == IsFiniteSet(Ids) /\ Cardinality(Callers) \in Nat
<1>1. Cardinality(Callers) \in Nat
  BY CrawlAssumption, FS_CardinalityType
<1> QED
  BY <1>1, FS_Interval DEF Ids

\* A crawl that is left alone shows the same columns.
Untouched(i) ==
  /\ \A p : RunAt(i, p)' <=> RunAt(i, p)
  /\ Starts(i)' = Starts(i) /\ (Clean(i)' <=> Clean(i)) /\ (Kept(i)' <=> Kept(i))
  /\ (Pending(i)' <=> Pending(i)) /\ Stored(i)' = Stored(i) /\ Fetched(i)' = Fetched(i)
  /\ \A s : StepIs(i, s)' <=> StepIs(i, s)
  /\ (Linking(i)' <=> Linking(i)) /\ ToLink(i)' = ToLink(i)

\* A crawl that is replaced by r shows r's columns, and the others are left alone.
LEMMA RunWritten ==
  ASSUME run \in [Ids -> Run], NEW j \in Ids, NEW r \in Run, run' = [run EXCEPT ![j] = r]
  PROVE  /\ run' \in [Ids -> Run]
         /\ \A p : RunAt(j, p)' <=> r.pc = p
         /\ Starts(j)' = r.starts /\ (Clean(j)' <=> r.clean) /\ (Kept(j)' <=> r.kept)
         /\ (Pending(j)' <=> r.store # <<>>) /\ Stored(j)' = r.store[1] /\ Fetched(j)' = r.fetched
         /\ \A s : StepIs(j, s)' <=> r.step = s
         /\ (Linking(j)' <=> r.txn) /\ ToLink(j)' = r.graph
         /\ \A i \in Ids \ {j} : Untouched(i)
<1>1. run' \in [Ids -> Run] /\ run'[j] = r /\ \A i \in Ids \ {j} : run'[i] = run[i]
  OBVIOUS
<1>2. \A i \in Ids \ {j} : Untouched(i)
  BY <1>1
  DEF Untouched, RunAt, Starts, Clean, Kept, Pending, Stored, StepIs, Fetched, Linking, ToLink
<1> QED
  BY <1>1, <1>2 DEF RunAt, Starts, Clean, Kept, Pending, Stored, StepIs, Fetched, Linking, ToLink

\* The types of what a crawl holds.
LEMMA RunTypes ==
  ASSUME run \in [Ids -> Run], NEW j \in Ids
  PROVE  /\ \A p : RunAt(j, p) => p \in RunPcs
         /\ Fetched(j) \subseteq Urls /\ Starts(j) \in Nat
         /\ Clean(j) \in BOOLEAN /\ Kept(j) \in BOOLEAN /\ Linking(j) \in BOOLEAN
         /\ \A s : StepIs(j, s) => s \in {"idle", "hand off", "ingesting"}
         /\ Pending(j) => Stored(j) \in Page
         /\ ToLink(j) \in Seq(Page)
<1>1. PICK r \in Run : r = run[j]
  OBVIOUS
<1>2. (\A p : RunAt(j, p) => p \in RunPcs) /\ \A s : StepIs(j, s) => s \in {"idle", "hand off", "ingesting"}
  BY <1>1 DEF Run, RunAt, StepIs
<1>3. Fetched(j) \subseteq Urls /\ Starts(j) \in Nat
  BY <1>1 DEF Run, Fetched, Starts
<1>4. Clean(j) \in BOOLEAN /\ Kept(j) \in BOOLEAN /\ Linking(j) \in BOOLEAN
  BY <1>1 DEF Run, Clean, Kept, Linking
<1>5. r.store \in Seq(Page) /\ ToLink(j) \in Seq(Page)
  BY <1>1 DEF Run, ToLink
<1>6. Pending(j) => Stored(j) \in Page
  BY <1>1, <1>5 DEF Pending, Stored
<1> QED
  BY <1>2, <1>3, <1>4, <1>5, <1>6

\* Nothing but what a crawl is carrying: its page, its hand-off and its links.
SameHold(j) ==
  /\ (Pending(j)' <=> Pending(j)) /\ Stored(j)' = Stored(j) /\ Fetched(j)' = Fetched(j)
  /\ \A s : StepIs(j, s)' <=> StepIs(j, s)

SameLinks(j) == (Linking(j)' <=> Linking(j)) /\ ToLink(j)' = ToLink(j)

SameMarks(j) == Starts(j)' = Starts(j) /\ (Clean(j)' <=> Clean(j)) /\ (Kept(j)' <=> Kept(j))

\* The crawl moves on to another step of its own.
LEMMA PcMoves ==
  ASSUME run \in [Ids -> Run], NEW j \in Ids, NEW p \in RunPcs, NEW t \in SUBSET Urls,
         run' = [run EXCEPT ![j].pc = p, ![j].todo = t]
  PROVE  /\ run' \in [Ids -> Run] /\ \A i \in Ids \ {j} : Untouched(i)
         /\ \A x : RunAt(j, x)' <=> x = p
         /\ SameHold(j) /\ SameLinks(j) /\ SameMarks(j)
<1>1. PICK r \in Run : r = run[j]
  OBVIOUS
<1>2. PICK n : n = [r EXCEPT !.pc = p, !.todo = t]
  OBVIOUS
<1>3. run' = [run EXCEPT ![j] = n]
  BY <1>1, <1>2
<1>4. n \in Run
  BY <1>2 DEF Run
<1>5. n.pc = p /\ n.step = r.step
  BY <1>2 DEF Run
<1>6. n.starts = r.starts /\ n.clean = r.clean /\ n.kept = r.kept /\ n.txn = r.txn
  BY <1>2 DEF Run
<1>7. n.store = r.store /\ n.fetched = r.fetched /\ n.graph = r.graph
  BY <1>2 DEF Run
<1>8. /\ run' \in [Ids -> Run]
      /\ \A x : RunAt(j, x)' <=> n.pc = x
      /\ Starts(j)' = n.starts /\ (Clean(j)' <=> n.clean) /\ (Kept(j)' <=> n.kept)
      /\ (Pending(j)' <=> n.store # <<>>) /\ Stored(j)' = n.store[1] /\ Fetched(j)' = n.fetched
      /\ \A s : StepIs(j, s)' <=> n.step = s
      /\ (Linking(j)' <=> n.txn) /\ ToLink(j)' = n.graph
      /\ \A i \in Ids \ {j} : Untouched(i)
  BY <1>3, <1>4, RunWritten
<1> QED
  BY <1>1, <1>5, <1>6, <1>7, <1>8
  DEF SameHold, SameLinks, SameMarks, Starts, Clean, Kept, Pending, Stored, Fetched, StepIs, Linking, ToLink

\* The crawl of a new row waits for a permit.
LEMMA SpawnMoves ==
  ASSUME run \in [Ids -> Run], NEW j \in Ids,
         run' = [run EXCEPT ![j].pc = "waiting", ![j].starts = @ + 1]
  PROVE  /\ run' \in [Ids -> Run] /\ \A i \in Ids \ {j} : Untouched(i)
         /\ \A x : RunAt(j, x)' <=> x = "waiting"
         /\ SameHold(j) /\ SameLinks(j) /\ Starts(j)' = Starts(j) + 1 /\ (Clean(j)' <=> Clean(j))
<1>1. PICK r \in Run : r = run[j]
  OBVIOUS
<1>s. r.starts \in Nat
  BY DEF Run
<1>a. PICK p \in RunPcs : p = "waiting"
  <2>1. "waiting" \in RunPcs
    BY DEF RunPcs
  <2> QED
    BY <2>1
<1>b. PICK k \in Nat : k = r.starts + 1
  <2>1. r.starts + 1 \in Nat
    BY <1>s
  <2> QED
    BY <2>1
<1>2. PICK n : n = [r EXCEPT !.pc = p, !.starts = k]
  OBVIOUS
<1>3. run' = [run EXCEPT ![j] = n]
  BY <1>1, <1>2, <1>a, <1>b
<1>4. n \in Run
  BY <1>2 DEF Run
<1>5. n.pc = p /\ n.step = r.step
  BY <1>2 DEF Run
<1>6. n.starts = k /\ n.clean = r.clean /\ n.kept = r.kept /\ n.txn = r.txn
  BY <1>2 DEF Run
<1>7. n.store = r.store /\ n.fetched = r.fetched /\ n.graph = r.graph
  BY <1>2 DEF Run
<1>8. /\ run' \in [Ids -> Run]
      /\ \A x : RunAt(j, x)' <=> n.pc = x
      /\ Starts(j)' = n.starts /\ (Clean(j)' <=> n.clean) /\ (Kept(j)' <=> n.kept)
      /\ (Pending(j)' <=> n.store # <<>>) /\ Stored(j)' = n.store[1] /\ Fetched(j)' = n.fetched
      /\ \A s : StepIs(j, s)' <=> n.step = s
      /\ (Linking(j)' <=> n.txn) /\ ToLink(j)' = n.graph
      /\ \A i \in Ids \ {j} : Untouched(i)
  BY <1>3, <1>4, RunWritten
<1> QED
  BY <1>1, <1>5, <1>6, <1>7, <1>8, <1>a, <1>b
  DEF SameHold, SameLinks, SameMarks, RunAt, Starts, Clean, Kept, Pending, Stored, Fetched, StepIs,
      Linking, ToLink

\* A page over the cap is only noted.
LEMMA LostMoves ==
  ASSUME run \in [Ids -> Run], NEW j \in Ids, NEW t \in SUBSET Urls,
         run' = [run EXCEPT ![j] = [run[j] EXCEPT !.todo = t, !.any = TRUE, !.lost = TRUE]]
  PROVE  /\ run' \in [Ids -> Run] /\ \A i \in Ids \ {j} : Untouched(i)
         /\ Untouched(j)
<1>1. PICK r \in Run : r = run[j]
  OBVIOUS
<1>2. PICK n : n = [r EXCEPT !.todo = t, !.any = TRUE, !.lost = TRUE]
  OBVIOUS
<1>3. run' = [run EXCEPT ![j] = n]
  BY <1>1, <1>2
<1>4. n \in Run
  BY <1>2 DEF Run
<1>5. n.pc = r.pc /\ n.step = r.step
  BY <1>2 DEF Run
<1>6. n.starts = r.starts /\ n.clean = r.clean /\ n.kept = r.kept /\ n.txn = r.txn
  BY <1>2 DEF Run
<1>7. n.store = r.store /\ n.fetched = r.fetched /\ n.graph = r.graph
  BY <1>2 DEF Run
<1>8. /\ run' \in [Ids -> Run]
      /\ \A x : RunAt(j, x)' <=> n.pc = x
      /\ Starts(j)' = n.starts /\ (Clean(j)' <=> n.clean) /\ (Kept(j)' <=> n.kept)
      /\ (Pending(j)' <=> n.store # <<>>) /\ Stored(j)' = n.store[1] /\ Fetched(j)' = n.fetched
      /\ \A s : StepIs(j, s)' <=> n.step = s
      /\ (Linking(j)' <=> n.txn) /\ ToLink(j)' = n.graph
      /\ \A i \in Ids \ {j} : Untouched(i)
  BY <1>3, <1>4, RunWritten
<1> QED
  BY <1>1, <1>5, <1>6, <1>7, <1>8
  DEF Untouched, SameHold, SameLinks, SameMarks, RunAt, Starts, Clean, Kept, Pending, Stored, Fetched, StepIs,
      Linking, ToLink

\* A page under the cap goes to the stages that take it.
LEMMA FetchedMoves ==
  ASSUME run \in [Ids -> Run], NEW j \in Ids, NEW t \in SUBSET Urls, NEW e \in Nat, NEW q \in Seq(Page),
         NEW g \in Seq(Page), NEW f \in SUBSET Urls,
         run' = [run EXCEPT ![j] = [run[j] EXCEPT !.todo = t, !.any = TRUE, !.emitted = e, !.store = q,
                                                   !.graph = g, !.fetched = f]]
  PROVE  /\ run' \in [Ids -> Run] /\ \A i \in Ids \ {j} : Untouched(i)
         /\ \A x : RunAt(j, x)' <=> RunAt(j, x)
         /\ SameMarks(j) /\ (Linking(j)' <=> Linking(j)) /\ ToLink(j)' = g
         /\ (Pending(j)' <=> q # <<>>) /\ Stored(j)' = q[1] /\ Fetched(j)' = f
         /\ \A s : StepIs(j, s)' <=> StepIs(j, s)
<1>1. PICK r \in Run : r = run[j]
  OBVIOUS
<1>2. PICK n : n = [r EXCEPT !.todo = t, !.any = TRUE, !.emitted = e, !.store = q,
                            !.graph = g, !.fetched = f]
  OBVIOUS
<1>3. run' = [run EXCEPT ![j] = n]
  BY <1>1, <1>2
<1>4. n \in Run
  BY <1>2 DEF Run
<1>5. n.pc = r.pc /\ n.step = r.step
  BY <1>2 DEF Run
<1>6. n.starts = r.starts /\ n.clean = r.clean /\ n.kept = r.kept /\ n.txn = r.txn
  BY <1>2 DEF Run
<1>7. n.store = q /\ n.fetched = f /\ n.graph = g
  BY <1>2 DEF Run
<1>8. /\ run' \in [Ids -> Run]
      /\ \A x : RunAt(j, x)' <=> n.pc = x
      /\ Starts(j)' = n.starts /\ (Clean(j)' <=> n.clean) /\ (Kept(j)' <=> n.kept)
      /\ (Pending(j)' <=> n.store # <<>>) /\ Stored(j)' = n.store[1] /\ Fetched(j)' = n.fetched
      /\ \A s : StepIs(j, s)' <=> n.step = s
      /\ (Linking(j)' <=> n.txn) /\ ToLink(j)' = n.graph
      /\ \A i \in Ids \ {j} : Untouched(i)
  BY <1>3, <1>4, RunWritten
<1> QED
  BY <1>1, <1>5, <1>6, <1>7, <1>8
  DEF SameHold, SameLinks, SameMarks, RunAt, Starts, Clean, Kept, Pending, Stored, Fetched, StepIs,
      Linking, ToLink

\* A row whose spawn is lost is only marked.
LEMMA StrandMoves ==
  ASSUME run \in [Ids -> Run], NEW j \in Ids, NEW k \in BOOLEAN, run' = [run EXCEPT ![j].kept = k]
  PROVE  /\ run' \in [Ids -> Run] /\ \A i \in Ids \ {j} : Untouched(i)
         /\ \A x : RunAt(j, x)' <=> RunAt(j, x)
         /\ SameHold(j) /\ SameLinks(j) /\ Starts(j)' = Starts(j) /\ (Kept(j)' <=> k)
<1>1. PICK r \in Run : r = run[j]
  OBVIOUS
<1>2. PICK n : n = [r EXCEPT !.kept = k]
  OBVIOUS
<1>3. run' = [run EXCEPT ![j] = n]
  BY <1>1, <1>2
<1>4. n \in Run
  BY <1>2 DEF Run
<1>5. n.pc = r.pc /\ n.step = r.step
  BY <1>2 DEF Run
<1>6. n.starts = r.starts /\ n.clean = r.clean /\ n.kept = k /\ n.txn = r.txn
  BY <1>2 DEF Run
<1>7. n.store = r.store /\ n.fetched = r.fetched /\ n.graph = r.graph
  BY <1>2 DEF Run
<1>8. /\ run' \in [Ids -> Run]
      /\ \A x : RunAt(j, x)' <=> n.pc = x
      /\ Starts(j)' = n.starts /\ (Clean(j)' <=> n.clean) /\ (Kept(j)' <=> n.kept)
      /\ (Pending(j)' <=> n.store # <<>>) /\ Stored(j)' = n.store[1] /\ Fetched(j)' = n.fetched
      /\ \A s : StepIs(j, s)' <=> n.step = s
      /\ (Linking(j)' <=> n.txn) /\ ToLink(j)' = n.graph
      /\ \A i \in Ids \ {j} : Untouched(i)
  BY <1>3, <1>4, RunWritten
<1> QED
  BY <1>1, <1>5, <1>6, <1>7, <1>8
  DEF SameHold, SameLinks, RunAt, Starts, Clean, Kept, Pending, Stored, Fetched, StepIs, Linking, ToLink

\* A page in hand goes one step further.
LEMMA StepMoves ==
  ASSUME run \in [Ids -> Run], NEW j \in Ids, NEW p \in {"hand off", "ingesting"}, NEW b \in BOOLEAN,
         run' = [run EXCEPT ![j].step = p, ![j].changed = b]
  PROVE  /\ run' \in [Ids -> Run] /\ \A i \in Ids \ {j} : Untouched(i)
         /\ \A x : RunAt(j, x)' <=> RunAt(j, x)
         /\ SameMarks(j) /\ SameLinks(j)
         /\ (Pending(j)' <=> Pending(j)) /\ Stored(j)' = Stored(j) /\ Fetched(j)' = Fetched(j)
         /\ \A s : StepIs(j, s)' <=> s = p
<1>1. PICK r \in Run : r = run[j]
  OBVIOUS
<1>2. PICK n : n = [r EXCEPT !.step = p, !.changed = b]
  OBVIOUS
<1>3. run' = [run EXCEPT ![j] = n]
  BY <1>1, <1>2
<1>4. n \in Run
  BY <1>2 DEF Run
<1>5. n.pc = r.pc /\ n.step = p
  BY <1>2 DEF Run
<1>6. n.starts = r.starts /\ n.clean = r.clean /\ n.kept = r.kept /\ n.txn = r.txn
  BY <1>2 DEF Run
<1>7. n.store = r.store /\ n.fetched = r.fetched /\ n.graph = r.graph
  BY <1>2 DEF Run
<1>8. /\ run' \in [Ids -> Run]
      /\ \A x : RunAt(j, x)' <=> n.pc = x
      /\ Starts(j)' = n.starts /\ (Clean(j)' <=> n.clean) /\ (Kept(j)' <=> n.kept)
      /\ (Pending(j)' <=> n.store # <<>>) /\ Stored(j)' = n.store[1] /\ Fetched(j)' = n.fetched
      /\ \A s : StepIs(j, s)' <=> n.step = s
      /\ (Linking(j)' <=> n.txn) /\ ToLink(j)' = n.graph
      /\ \A i \in Ids \ {j} : Untouched(i)
  BY <1>3, <1>4, RunWritten
<1> QED
  BY <1>1, <1>5, <1>6, <1>7, <1>8, ZenonT(60)
  DEF SameHold, SameLinks, SameMarks, RunAt, Starts, Clean, Kept, Pending, Stored, Fetched, StepIs,
      Linking, ToLink

\* A page is done with.
LEMMA NextPageMoves ==
  ASSUME run \in [Ids -> Run], NEW j \in Ids,
         run' = [run EXCEPT ![j] = NextPage(@)]
  PROVE  /\ run' \in [Ids -> Run] /\ \A i \in Ids \ {j} : Untouched(i)
         /\ \A x : RunAt(j, x)' <=> RunAt(j, x)
         /\ SameMarks(j) /\ SameLinks(j)
         /\ ~Pending(j)' /\ Fetched(j)' = Fetched(j)
         /\ \A s : StepIs(j, s)' <=> s = "idle"
<1>1. PICK r \in Run : r = run[j]
  OBVIOUS
<1>a. PICK q \in Seq(Page) : q = <<>>
  <2>1. <<>> \in Seq(Page)
    OBVIOUS
  <2> QED
    BY <2>1
<1>2. PICK n : n = [r EXCEPT !.store = q, !.step = "idle", !.changed = FALSE]
  OBVIOUS
<1>3. run' = [run EXCEPT ![j] = n]
  BY <1>1, <1>2, <1>a DEF NextPage
<1>4. n \in Run
  BY <1>2 DEF Run
<1>5. n.pc = r.pc /\ n.step = "idle"
  BY <1>2 DEF Run
<1>6. n.starts = r.starts /\ n.clean = r.clean /\ n.kept = r.kept /\ n.txn = r.txn
  BY <1>2 DEF Run
<1>7. n.store = q /\ n.fetched = r.fetched /\ n.graph = r.graph
  BY <1>2 DEF Run
<1>8. /\ run' \in [Ids -> Run]
      /\ \A x : RunAt(j, x)' <=> n.pc = x
      /\ Starts(j)' = n.starts /\ (Clean(j)' <=> n.clean) /\ (Kept(j)' <=> n.kept)
      /\ (Pending(j)' <=> n.store # <<>>) /\ Stored(j)' = n.store[1] /\ Fetched(j)' = n.fetched
      /\ \A s : StepIs(j, s)' <=> n.step = s
      /\ (Linking(j)' <=> n.txn) /\ ToLink(j)' = n.graph
      /\ \A i \in Ids \ {j} : Untouched(i)
  BY <1>3, <1>4, RunWritten
<1> QED
  BY <1>1, <1>5, <1>6, <1>7, <1>8, <1>a
  DEF SameHold, SameLinks, SameMarks, RunAt, Starts, Clean, Kept, Pending, Stored, Fetched, StepIs,
      Linking, ToLink

\* A page is given up, and the crawl is clean no more.
LEMMA PageFailsMoves ==
  ASSUME run \in [Ids -> Run], NEW j \in Ids,
         run' = [run EXCEPT ![j] = [NextPage(@) EXCEPT !.clean = FALSE]]
  PROVE  /\ run' \in [Ids -> Run] /\ \A i \in Ids \ {j} : Untouched(i)
         /\ \A x : RunAt(j, x)' <=> RunAt(j, x)
         /\ SameLinks(j) /\ Starts(j)' = Starts(j) /\ (Kept(j)' <=> Kept(j)) /\ ~Clean(j)'
         /\ ~Pending(j)' /\ Fetched(j)' = Fetched(j)
         /\ \A s : StepIs(j, s)' <=> s = "idle"
<1>1. PICK r \in Run : r = run[j]
  OBVIOUS
<1>a. PICK q \in Seq(Page) : q = <<>>
  <2>1. <<>> \in Seq(Page)
    OBVIOUS
  <2> QED
    BY <2>1
<1>2. PICK n : n = [r EXCEPT !.store = q, !.step = "idle", !.changed = FALSE, !.clean = FALSE]
  OBVIOUS
<1>3. run' = [run EXCEPT ![j] = n]
  BY <1>1, <1>2, <1>a DEF NextPage
<1>4. n \in Run
  BY <1>2 DEF Run
<1>5. n.pc = r.pc /\ n.step = "idle"
  BY <1>2 DEF Run
<1>6. n.starts = r.starts /\ n.clean = FALSE /\ n.kept = r.kept /\ n.txn = r.txn
  BY <1>2 DEF Run
<1>7. n.store = q /\ n.fetched = r.fetched /\ n.graph = r.graph
  BY <1>2 DEF Run
<1>8. /\ run' \in [Ids -> Run]
      /\ \A x : RunAt(j, x)' <=> n.pc = x
      /\ Starts(j)' = n.starts /\ (Clean(j)' <=> n.clean) /\ (Kept(j)' <=> n.kept)
      /\ (Pending(j)' <=> n.store # <<>>) /\ Stored(j)' = n.store[1] /\ Fetched(j)' = n.fetched
      /\ \A s : StepIs(j, s)' <=> n.step = s
      /\ (Linking(j)' <=> n.txn) /\ ToLink(j)' = n.graph
      /\ \A i \in Ids \ {j} : Untouched(i)
  BY <1>3, <1>4, RunWritten
<1> QED
  BY <1>1, <1>5, <1>6, <1>7, <1>8, <1>a
  DEF SameHold, SameLinks, SameMarks, RunAt, Starts, Clean, Kept, Pending, Stored, Fetched, StepIs,
      Linking, ToLink

\* The links of a page have been replaced.
LEMMA LinksMove ==
  ASSUME run \in [Ids -> Run], NEW j \in Ids, NEW b \in BOOLEAN, NEW d \in SUBSET Edge, NEW g \in Seq(Page),
         run' = [run EXCEPT ![j].txn = b, ![j].deletes = d, ![j].graph = g]
  PROVE  /\ run' \in [Ids -> Run] /\ \A i \in Ids \ {j} : Untouched(i)
         /\ \A x : RunAt(j, x)' <=> RunAt(j, x)
         /\ SameMarks(j) /\ SameHold(j) /\ (Linking(j)' <=> b) /\ ToLink(j)' = g
<1>1. PICK r \in Run : r = run[j]
  OBVIOUS
<1>2. PICK n : n = [r EXCEPT !.txn = b, !.deletes = d, !.graph = g]
  OBVIOUS
<1>3. run' = [run EXCEPT ![j] = n]
  BY <1>1, <1>2
<1>4. n \in Run
  BY <1>2 DEF Run
<1>5. n.pc = r.pc /\ n.step = r.step
  BY <1>2 DEF Run
<1>6. n.starts = r.starts /\ n.clean = r.clean /\ n.kept = r.kept /\ n.txn = b
  BY <1>2 DEF Run
<1>7. n.store = r.store /\ n.fetched = r.fetched /\ n.graph = g
  BY <1>2 DEF Run
<1>8. /\ run' \in [Ids -> Run]
      /\ \A x : RunAt(j, x)' <=> n.pc = x
      /\ Starts(j)' = n.starts /\ (Clean(j)' <=> n.clean) /\ (Kept(j)' <=> n.kept)
      /\ (Pending(j)' <=> n.store # <<>>) /\ Stored(j)' = n.store[1] /\ Fetched(j)' = n.fetched
      /\ \A s : StepIs(j, s)' <=> n.step = s
      /\ (Linking(j)' <=> n.txn) /\ ToLink(j)' = n.graph
      /\ \A i \in Ids \ {j} : Untouched(i)
  BY <1>3, <1>4, RunWritten
<1> QED
  BY <1>1, <1>5, <1>6, <1>7, <1>8
  DEF SameHold, SameLinks, SameMarks, RunAt, Starts, Clean, Kept, Pending, Stored, Fetched, StepIs,
      Linking, ToLink

\* The crawl is over, and its row may not say so.
LEMMA OverMoves ==
  ASSUME run \in [Ids -> Run], NEW j \in Ids, NEW k \in BOOLEAN,
         run' = [run EXCEPT ![j].pc = "over", ![j].kept = k]
  PROVE  /\ run' \in [Ids -> Run] /\ \A i \in Ids \ {j} : Untouched(i)
         /\ \A x : RunAt(j, x)' <=> x = "over"
         /\ SameHold(j) /\ SameLinks(j) /\ Starts(j)' = Starts(j)
         /\ (Clean(j)' <=> Clean(j)) /\ (Kept(j)' <=> k)
<1>1. PICK r \in Run : r = run[j]
  OBVIOUS
<1>a. PICK p \in RunPcs : p = "over"
  <2>1. "over" \in RunPcs
    BY DEF RunPcs
  <2> QED
    BY <2>1
<1>2. PICK n : n = [r EXCEPT !.pc = p, !.kept = k]
  OBVIOUS
<1>3. run' = [run EXCEPT ![j] = n]
  BY <1>1, <1>2, <1>a
<1>4. n \in Run
  BY <1>2 DEF Run
<1>5. n.pc = p /\ n.step = r.step
  BY <1>2 DEF Run
<1>6. n.starts = r.starts /\ n.clean = r.clean /\ n.kept = k /\ n.txn = r.txn
  BY <1>2 DEF Run
<1>7. n.store = r.store /\ n.fetched = r.fetched /\ n.graph = r.graph
  BY <1>2 DEF Run
<1>8. /\ run' \in [Ids -> Run]
      /\ \A x : RunAt(j, x)' <=> n.pc = x
      /\ Starts(j)' = n.starts /\ (Clean(j)' <=> n.clean) /\ (Kept(j)' <=> n.kept)
      /\ (Pending(j)' <=> n.store # <<>>) /\ Stored(j)' = n.store[1] /\ Fetched(j)' = n.fetched
      /\ \A s : StepIs(j, s)' <=> n.step = s
      /\ (Linking(j)' <=> n.txn) /\ ToLink(j)' = n.graph
      /\ \A i \in Ids \ {j} : Untouched(i)
  BY <1>3, <1>4, RunWritten
<1> QED
  BY <1>1, <1>5, <1>6, <1>7, <1>8, <1>a
  DEF SameHold, SameLinks, SameMarks, RunAt, Starts, Clean, Kept, Pending, Stored, Fetched, StepIs,
      Linking, ToLink

\* A page in hand goes to the model and the embedder.
LEMMA IngestingMoves ==
  ASSUME run \in [Ids -> Run], NEW j \in Ids,
         run' = [run EXCEPT ![j].step = "ingesting"]
  PROVE  /\ run' \in [Ids -> Run] /\ \A i \in Ids \ {j} : Untouched(i)
         /\ \A x : RunAt(j, x)' <=> RunAt(j, x)
         /\ SameMarks(j) /\ SameLinks(j)
         /\ (Pending(j)' <=> Pending(j)) /\ Stored(j)' = Stored(j) /\ Fetched(j)' = Fetched(j)
         /\ \A s : StepIs(j, s)' <=> s = "ingesting"
<1>1. PICK r \in Run : r = run[j]
  OBVIOUS
<1>2. PICK n : n = [r EXCEPT !.step = "ingesting"]
  OBVIOUS
<1>3. run' = [run EXCEPT ![j] = n]
  BY <1>1, <1>2
<1>4. n \in Run
  BY <1>2 DEF Run
<1>5. n.pc = r.pc /\ n.step = "ingesting"
  BY <1>2 DEF Run
<1>6. n.starts = r.starts /\ n.clean = r.clean /\ n.kept = r.kept /\ n.txn = r.txn
  BY <1>2 DEF Run
<1>7. n.store = r.store /\ n.fetched = r.fetched /\ n.graph = r.graph
  BY <1>2 DEF Run
<1>8. /\ run' \in [Ids -> Run]
      /\ \A x : RunAt(j, x)' <=> n.pc = x
      /\ Starts(j)' = n.starts /\ (Clean(j)' <=> n.clean) /\ (Kept(j)' <=> n.kept)
      /\ (Pending(j)' <=> n.store # <<>>) /\ Stored(j)' = n.store[1] /\ Fetched(j)' = n.fetched
      /\ \A s : StepIs(j, s)' <=> n.step = s
      /\ (Linking(j)' <=> n.txn) /\ ToLink(j)' = n.graph
      /\ \A i \in Ids \ {j} : Untouched(i)
  BY <1>3, <1>4, RunWritten
<1> QED
  BY <1>1, <1>5, <1>6, <1>7, <1>8
  DEF SameHold, SameLinks, SameMarks, RunAt, Starts, Clean, Kept, Pending, Stored, Fetched, StepIs,
      Linking, ToLink

\* The links of a page are deleted, inside a transaction.
LEMMA DeletingMoves ==
  ASSUME run \in [Ids -> Run], NEW j \in Ids, NEW d \in SUBSET Edge,
         run' = [run EXCEPT ![j].txn = TRUE, ![j].deletes = d]
  PROVE  /\ run' \in [Ids -> Run] /\ \A i \in Ids \ {j} : Untouched(i)
         /\ \A x : RunAt(j, x)' <=> RunAt(j, x)
         /\ SameMarks(j) /\ SameHold(j) /\ Linking(j)' /\ ToLink(j)' = ToLink(j)
<1>1. PICK r \in Run : r = run[j]
  OBVIOUS
<1>2. PICK n : n = [r EXCEPT !.txn = TRUE, !.deletes = d]
  OBVIOUS
<1>3. run' = [run EXCEPT ![j] = n]
  BY <1>1, <1>2
<1>4. n \in Run
  BY <1>2 DEF Run
<1>5. n.pc = r.pc /\ n.step = r.step
  BY <1>2 DEF Run
<1>6. n.starts = r.starts /\ n.clean = r.clean /\ n.kept = r.kept /\ n.txn = TRUE
  BY <1>2 DEF Run
<1>7. n.store = r.store /\ n.fetched = r.fetched /\ n.graph = r.graph
  BY <1>2 DEF Run
<1>8. /\ run' \in [Ids -> Run]
      /\ \A x : RunAt(j, x)' <=> n.pc = x
      /\ Starts(j)' = n.starts /\ (Clean(j)' <=> n.clean) /\ (Kept(j)' <=> n.kept)
      /\ (Pending(j)' <=> n.store # <<>>) /\ Stored(j)' = n.store[1] /\ Fetched(j)' = n.fetched
      /\ \A s : StepIs(j, s)' <=> n.step = s
      /\ (Linking(j)' <=> n.txn) /\ ToLink(j)' = n.graph
      /\ \A i \in Ids \ {j} : Untouched(i)
  BY <1>3, <1>4, RunWritten
<1> QED
  BY <1>1, <1>5, <1>6, <1>7, <1>8
  DEF SameHold, SameLinks, SameMarks, RunAt, Starts, Clean, Kept, Pending, Stored, Fetched, StepIs,
      Linking, ToLink

\* The crawl is over, and its row says so.
LEMMA EndMoves ==
  ASSUME run \in [Ids -> Run], NEW j \in Ids,
         run' = [run EXCEPT ![j].pc = "over"]
  PROVE  /\ run' \in [Ids -> Run] /\ \A i \in Ids \ {j} : Untouched(i)
         /\ \A x : RunAt(j, x)' <=> x = "over"
         /\ SameHold(j) /\ SameLinks(j) /\ SameMarks(j)
<1>1. PICK r \in Run : r = run[j]
  OBVIOUS
<1>a. PICK p \in RunPcs : p = "over"
  <2>1. "over" \in RunPcs
    BY DEF RunPcs
  <2> QED
    BY <2>1
<1>2. PICK n : n = [r EXCEPT !.pc = p]
  OBVIOUS
<1>3. run' = [run EXCEPT ![j] = n]
  BY <1>1, <1>2, <1>a
<1>4. n \in Run
  BY <1>2 DEF Run
<1>5. n.pc = p /\ n.step = r.step
  BY <1>2 DEF Run
<1>6. n.starts = r.starts /\ n.clean = r.clean /\ n.kept = r.kept /\ n.txn = r.txn
  BY <1>2 DEF Run
<1>7. n.store = r.store /\ n.fetched = r.fetched /\ n.graph = r.graph
  BY <1>2 DEF Run
<1>8. /\ run' \in [Ids -> Run]
      /\ \A x : RunAt(j, x)' <=> n.pc = x
      /\ Starts(j)' = n.starts /\ (Clean(j)' <=> n.clean) /\ (Kept(j)' <=> n.kept)
      /\ (Pending(j)' <=> n.store # <<>>) /\ Stored(j)' = n.store[1] /\ Fetched(j)' = n.fetched
      /\ \A s : StepIs(j, s)' <=> n.step = s
      /\ (Linking(j)' <=> n.txn) /\ ToLink(j)' = n.graph
      /\ \A i \in Ids \ {j} : Untouched(i)
  BY <1>3, <1>4, RunWritten
<1> QED
  BY <1>1, <1>5, <1>6, <1>7, <1>8, <1>a
  DEF SameHold, SameLinks, SameMarks, RunAt, Starts, Clean, Kept, Pending, Stored, Fetched, StepIs,
      Linking, ToLink

-----------------------------------------------------------------------------
(* What a step has to show of the crawl it moves *)

\* A live crawl is crawling or ending.
LEMMA LiveIs ==
  ASSUME NEW j
  PROVE  /\ Live(j) <=> RunAt(j, "crawling") \/ RunAt(j, "ending")
         /\ Live(j)' <=> RunAt(j, "crawling")' \/ RunAt(j, "ending")'
  BY DEF Live, RunAt

\* There is a crawl for every row, and for one more while a caller is at its insert.
LEMMA JobsAreIds ==
  ASSUME CrawlTypeOK, KeysAreUnique
  PROVE  /\ Len(jobs) \in Nat /\ 1 .. Len(jobs) \subseteq Ids /\ DOMAIN jobs = 1 .. Len(jobs)
         /\ \A c \in Callers : CallerAt(c, "inserting") => Len(jobs) + 1 \in Ids
<1>1. Len(jobs) \in Nat /\ DOMAIN jobs = 1 .. Len(jobs)
  BY DEF CrawlTypeOK
<1>2. IsFiniteSet(Callers) /\ Past \in SUBSET Callers /\ Cardinality(Callers) \in Nat
  BY CrawlAssumption, IdsFinite DEF Past
<1>3. /\ IsFiniteSet(Past) /\ Cardinality(Past) <= Cardinality(Callers)
      /\ Cardinality(Callers) = Cardinality(Past) => Callers = Past
  BY <1>2, FS_Subset
<1>4. Cardinality(Past) \in Nat
  BY <1>3, FS_CardinalityType
<1>5. Len(jobs) <= Cardinality(Past)
  BY DEF KeysAreUnique
<1>6. 1 .. Len(jobs) \subseteq Ids
  BY <1>1, <1>2, <1>3, <1>4, <1>5 DEF Ids
<1>7. ASSUME NEW c \in Callers, CallerAt(c, "inserting") PROVE Len(jobs) + 1 \in Ids
  <2>1. Cardinality(Callers) # Cardinality(Past)
    BY <1>3, <1>7 DEF Past
  <2> QED
    BY <1>1, <1>2, <1>3, <1>4, <1>5, <2>1 DEF Ids
<1> QED
  BY <1>1, <1>6, <1>7

\* A step of no caller that leaves the rows' keys alone keeps them unique.
LEMMA KeysKept ==
  ASSUME CrawlTypeOK, KeysAreUnique, caller' = caller, Len(jobs)' = Len(jobs),
         \A j \in 1 .. Len(jobs) : KeyOf(j)' = KeyOf(j)
  PROVE  KeysAreUnique'
<1>1. /\ \A c, p : CallerAt(c, p)' <=> CallerAt(c, p)
      /\ \A c : CallerKey(c)' = CallerKey(c) /\ CallerJob(c)' = CallerJob(c)
  BY DEF CallerAt, CallerKey, CallerJob
<1>a. Past' = Past /\ \A c : HasRow(c)' <=> HasRow(c)
  BY <1>1 DEF Past, HasRow
<1>2. ASSUME NEW c \in Callers, HasRow(c)
      PROVE  CallerJob(c) \in 1 .. Len(jobs) /\ (KeyOf(CallerJob(c)) = CallerKey(c))'
  <2>1. CallerJob(c) \in 1 .. Len(jobs) /\ KeyOf(CallerJob(c)) = CallerKey(c)
    BY <1>2 DEF KeysAreUnique
  <2>2. PICK j \in 1 .. Len(jobs) : j = CallerJob(c)
    BY <2>1
  <2>3. KeyOf(j)' = KeyOf(j) /\ CallerJob(c)' = j
    BY <1>1, <2>2
  <2> QED
    BY <1>1, <2>1, <2>2, <2>3 DEF KeyOf
<1>3. Len(jobs)' <= Cardinality(Past)'
  BY <1>a DEF KeysAreUnique
<1>4. \A i, j \in 1 .. Len(jobs) : KeyOf(i)' = KeyOf(j)' /\ KeyOf(i)' # "" => i = j
  BY DEF KeysAreUnique
<1>5. \A c \in Callers : ~CallerAt(c, "idle")' => CallerKey(c)' \in Keys
  BY <1>1 DEF KeysAreUnique
<1>6. \A c \in Callers : HasRow(c)' =>
        CallerJob(c)' \in 1 .. Len(jobs) /\ (KeyOf(CallerJob(c)) = CallerKey(c))'
  BY <1>1, <1>a, <1>2
<1> QED
  BY <1>3, <1>4, <1>5, <1>6 DEF KeysAreUnique

\* A step of no caller that starts nothing leaves the rows to spawn as they were.
LEMMA SpawnsKept ==
  ASSUME CrawlTypeOK, KeysAreUnique, SpawnsToCome, caller' = caller,
         \A i \in Ids : Starts(i)' = Starts(i) /\ (RunAt(i, "none")' <=> RunAt(i, "none"))
  PROVE  SpawnsToCome' /\ \A j : AboutToSpawn(j)' <=> AboutToSpawn(j)
<1>1. /\ \A c, p : CallerAt(c, p)' <=> CallerAt(c, p)
      /\ \A c : CallerJob(c)' = CallerJob(c)
  BY DEF CallerAt, CallerJob
<1>2. ASSUME NEW c \in Callers, CallerAt(c, "inserted")
      PROVE  (Starts(CallerJob(c)) = 0)' /\ RunAt(CallerJob(c), "none")'
  <2>1. CallerJob(c) \in Ids
    BY <1>2, JobsAreIds DEF KeysAreUnique, HasRow
  <2>2. PICK i \in Ids : i = CallerJob(c)
    BY <2>1
  <2>3. Starts(i) = 0 /\ RunAt(i, "none")
    BY <1>2, <2>2 DEF SpawnsToCome
  <2>4. Starts(i)' = 0 /\ RunAt(i, "none")' /\ CallerJob(c)' = i
    BY <1>1, <2>2, <2>3
  <2> QED
    BY <2>4 DEF Starts, RunAt
<1>3. SpawnsToCome'
  BY <1>1, <1>2 DEF SpawnsToCome
<1> QED
  BY <1>1, <1>3 DEF AboutToSpawn

\* No crawl goes live: still at most MaxConcurrent of them.
LEMMA FewerLive ==
  ASSUME RowsAreCrawled, \A i \in Ids : Live(i)' => Live(i)
  PROVE  Cardinality(LiveJobs)' <= MaxConcurrent
<1>1. LiveJobs' \in SUBSET LiveJobs
  BY DEF LiveJobs
<1>2. LiveJobs \in SUBSET Ids
  BY DEF LiveJobs
<1>3. IsFiniteSet(LiveJobs)
  BY <1>2, IdsFinite, FS_Subset
<1>4. Cardinality(LiveJobs') <= Cardinality(LiveJobs) /\ IsFiniteSet(LiveJobs')
  BY <1>1, <1>3, FS_Subset
<1>5. Cardinality(LiveJobs') \in Nat /\ Cardinality(LiveJobs) \in Nat
  BY <1>3, <1>4, FS_CardinalityType
<1> QED
  BY <1>4, <1>5, CrawlAssumption DEF RowsAreCrawled

\* A step that leaves the rows alone and starts no crawl keeps each with its crawl.
LEMMA RowsKept ==
  ASSUME CrawlTypeOK, KeysAreUnique, RowsAreCrawled, Len(jobs)' = Len(jobs), process' = process,
         caller' = caller,
         \A j \in 1 .. Len(jobs) : StatusOf(j)' = StatusOf(j),
         \A i \in Ids : Starts(i)' = Starts(i) /\ (Kept(i)' <=> Kept(i)),
         \A i \in Ids : RunAt(i, "none")' <=> RunAt(i, "none"),
         \A i \in Ids : RunAt(i, "waiting") \/ RunAt(i, "crawling") \/ RunAt(i, "ending") =>
                          RunAt(i, "waiting")' \/ RunAt(i, "crawling")' \/ RunAt(i, "ending")',
         \A i \in Ids : Live(i)' => Live(i)
  PROVE  RowsAreCrawled'
<1>1. 1 .. Len(jobs) \subseteq Ids
  BY JobsAreIds
<1>7. Cardinality(LiveJobs)' <= MaxConcurrent
  BY FewerLive
<1>8. \A j \in Ids : IF j <= Len(jobs) THEN Starts(j)' <= 1 ELSE Starts(j)' = 0 /\ RunAt(j, "none")'
  BY DEF RowsAreCrawled
<1>a. SpawnsToCome' /\ \A j : AboutToSpawn(j)' <=> AboutToSpawn(j)
  <2>1. SpawnsToCome
    BY DEF RowsAreCrawled
  <2> QED
    BY <2>1, SpawnsKept
<1>9. process = "up" => \A j \in 1 .. Len(jobs) :
        StatusOf(j)' \in {"queued", "running"} =>
          RunAt(j, "waiting")' \/ RunAt(j, "crawling")' \/ RunAt(j, "ending")' \/ ~Kept(j)' \/ AboutToSpawn(j)'
  BY <1>1, <1>a DEF RowsAreCrawled
<1> QED
  BY <1>7, <1>8, <1>9, <1>a DEF RowsAreCrawled

\* Only the crawl that takes the step may change what it holds.
LEMMA HoldsKept ==
  ASSUME CrawlsHoldPages, NEW j \in Ids, \A i \in Ids \ {j} : Untouched(i),
         RunAt(j, "none")' \/ RunAt(j, "waiting")' => Fetched(j)' = {} /\ ~Pending(j)',
         ~StepIs(j, "idle")' => Pending(j)',
         StepIs(j, "ingesting")' => Accepts(Stored(j).version)',
         Linking(j)' => ToLink(j)' # <<>>
  PROVE  CrawlsHoldPages'
<1>1. ASSUME NEW i \in Ids \ {j}
      PROVE  /\ RunAt(i, "none")' \/ RunAt(i, "waiting")' => Fetched(i)' = {} /\ ~Pending(i)'
             /\ ~StepIs(i, "idle")' => Pending(i)'
             /\ StepIs(i, "ingesting")' => Accepts(Stored(i).version)'
             /\ Linking(i)' => ToLink(i)' # <<>>
  BY DEF CrawlsHoldPages, Untouched, Accepts
<1> QED
  BY <1>1 DEF CrawlsHoldPages

\* A step of a live crawl: no other live one is clean, so only its own clause is to be shown.
LEMMA AloneKept ==
  ASSUME CleanIsAlone, NEW j \in Ids, Live(j), \A i \in Ids \ {j} : Untouched(i),
         Live(j)' /\ Clean(j)' =>
           /\ Clean(j)
           /\ \A u \in Fetched(j)' : (Pending(j)' /\ (Stored(j).url)' = u) \/ Held(u)'
           /\ ~StepIs(j, "idle")' => (pages[Stored(j).url] = {Stored(j).version})'
  PROVE  CleanIsAlone'
<1>1. \A i \in Ids \ {j} : (Live(i)' <=> Live(i)) /\ (Clean(i)' <=> Clean(i))
  BY LiveIs DEF Untouched
<1>2. \A i \in Ids \ {j} : ~(Clean(i)' /\ Live(i)')
  BY <1>1 DEF CleanIsAlone
<1>3. Live(j)' /\ Clean(j)' => \A i \in Ids : Live(i)' => i = j
  BY <1>1 DEF CleanIsAlone
<1> QED
  BY <1>2, <1>3 DEF CleanIsAlone

-----------------------------------------------------------------------------
(* The steps of a crawl *)

\* What a step of one live crawl leaves alone: callers, rows' keys and statuses, and the process.
LEMMA LiveStepKeeps ==
  ASSUME CrawlInv, NEW j \in Ids, Live(j), run' \in [Ids -> Run], Live(j)',
         \A i \in Ids \ {j} : Untouched(i), Starts(j)' = Starts(j), Kept(j)' <=> Kept(j),
         caller' = caller, process' = process, Len(jobs)' = Len(jobs),
         \A k \in 1 .. Len(jobs) : KeyOf(k)' = KeyOf(k) /\ StatusOf(k)' = StatusOf(k)
  PROVE  KeysAreUnique' /\ RowsAreCrawled'
<1>1. CrawlTypeOK /\ KeysAreUnique /\ RowsAreCrawled
  BY DEF CrawlInv
<1>2. ~RunAt(j, "none") /\ ~RunAt(j, "none")'
  BY LiveIs DEF RunAt
<1>3. \A i \in Ids : RunAt(i, "none")' <=> RunAt(i, "none")
  BY <1>2 DEF Untouched
<1>4. \A i \in Ids : RunAt(i, "waiting") \/ RunAt(i, "crawling") \/ RunAt(i, "ending") =>
                       RunAt(i, "waiting")' \/ RunAt(i, "crawling")' \/ RunAt(i, "ending")'
  BY LiveIs DEF Untouched
<1>5. \A i \in Ids : Live(i)' => Live(i)
  BY LiveIs DEF Untouched
<1>6. \A i \in Ids : Starts(i)' = Starts(i) /\ (Kept(i)' <=> Kept(i))
  BY DEF Untouched
<1>7. RowsAreCrawled'
  BY <1>1, <1>3, <1>4, <1>5, <1>6, RowsKept
<1>8. KeysAreUnique'
  BY <1>1, KeysKept
<1> QED
  BY <1>7, <1>8

\* Fetching a page keeps the invariant: the page is held until it is saved.
LEMMA FetchKeeps ==
  ASSUME CrawlInv, NEW j \in Ids, NEW u \in Urls, Fetch(j, u)
  PROVE  CrawlInv'
<1>1. /\ CrawlTypeOK /\ CrawlsHoldPages /\ DocsAreAccepted /\ CleanIsAlone /\ run \in [Ids -> Run]
  BY DEF CrawlInv, CrawlTypeOK
<1>2. /\ UNCHANGED <<docs, reader, site, caller, jobs, pages, edges, process, disturbed>>
      /\ RunAt(j, "crawling") /\ ~Pending(j) /\ ToLink(j) = <<>>
  BY DEF Fetch, RunAt, Pending, ToLink
<1>3. PICK t \in SUBSET Urls, e \in Nat, g \in Page :
        t = run[j].todo \ {u} /\ e = run[j].emitted + 1 /\ g = [url |-> u, version |-> site[u]]
  <2>1. run[j] \in Run
    BY <1>1
  <2>2. run[j].todo \ {u} \in SUBSET Urls /\ run[j].emitted + 1 \in Nat
    <3>1. run[j].todo \in SUBSET Urls
      BY <2>1 DEF Run
    <3>2. run[j].emitted \in Nat
      BY <2>1 DEF Run
    <3> QED
      BY <3>1, <3>2
  <2>3. [url |-> u, version |-> site[u]] \in Page
    BY <1>1 DEF CrawlTypeOK, Page
  <2> QED
    BY <2>2, <2>3
<1>a. Fetched(j) \in SUBSET Urls
  BY <1>1, RunTypes
<1>4. \/ run' = [run EXCEPT ![j] = [run[j] EXCEPT !.todo = t, !.any = TRUE, !.lost = TRUE]]
      \/ \E q \in {<<>>, <<g>>}, l \in {<<>>, <<g>>} :
           run' = [run EXCEPT ![j] = [run[j] EXCEPT !.todo = t, !.any = TRUE, !.emitted = e, !.store = q,
                     !.graph = l, !.fetched = IF q = <<>> THEN Fetched(j) ELSE Fetched(j) \cup {u}]]
  BY <1>3 DEF Fetch, Fetched
<1>5. /\ run' \in [Ids -> Run] /\ \A i \in Ids \ {j} : Untouched(i)
      /\ \A x : RunAt(j, x)' <=> RunAt(j, x)
      /\ SameMarks(j) /\ (\A s : StepIs(j, s)' <=> StepIs(j, s)) /\ (Linking(j)' <=> Linking(j))
      /\ \/ Fetched(j)' = Fetched(j)
         \/ Pending(j)' /\ Stored(j)' = g /\ Fetched(j)' = Fetched(j) \cup {u}
  <2>1. CASE run' = [run EXCEPT ![j] = [run[j] EXCEPT !.todo = t, !.any = TRUE, !.lost = TRUE]]
    <3>1. run' \in [Ids -> Run] /\ (\A i \in Ids \ {j} : Untouched(i)) /\ Untouched(j)
      BY <1>1, <2>1, LostMoves
    <3> QED
      BY <3>1 DEF Untouched, SameMarks
  <2>2. ASSUME NEW q \in {<<>>, <<g>>}, NEW l \in {<<>>, <<g>>},
               run' = [run EXCEPT ![j] = [run[j] EXCEPT !.todo = t, !.any = TRUE, !.emitted = e, !.store = q,
                         !.graph = l, !.fetched = IF q = <<>> THEN Fetched(j) ELSE Fetched(j) \cup {u}]]
        PROVE  /\ run' \in [Ids -> Run] /\ \A i \in Ids \ {j} : Untouched(i)
               /\ \A x : RunAt(j, x)' <=> RunAt(j, x)
               /\ SameMarks(j) /\ (\A s : StepIs(j, s)' <=> StepIs(j, s)) /\ (Linking(j)' <=> Linking(j))
               /\ \/ Fetched(j)' = Fetched(j)
                  \/ Pending(j)' /\ Stored(j)' = g /\ Fetched(j)' = Fetched(j) \cup {u}
    <3>0. <<>> \in Seq(Page) /\ <<g>> \in Seq(Page)
      OBVIOUS
    <3>1. q \in Seq(Page) /\ l \in Seq(Page) /\ run \in [Ids -> Run]
      BY <1>1, <3>0
    <3>2. PICK f \in SUBSET Urls : f = IF q = <<>> THEN Fetched(j) ELSE Fetched(j) \cup {u}
      BY <1>a
    <3>3. run' = [run EXCEPT ![j] = [run[j] EXCEPT !.todo = t, !.any = TRUE, !.emitted = e, !.store = q,
                                                   !.graph = l, !.fetched = f]]
      BY <2>2, <3>2
    <3>4. /\ run' \in [Ids -> Run] /\ \A i \in Ids \ {j} : Untouched(i)
          /\ \A x : RunAt(j, x)' <=> RunAt(j, x)
          /\ SameMarks(j) /\ (Linking(j)' <=> Linking(j)) /\ ToLink(j)' = l
          /\ (Pending(j)' <=> q # <<>>) /\ Stored(j)' = q[1] /\ Fetched(j)' = f
          /\ \A s : StepIs(j, s)' <=> StepIs(j, s)
      BY <3>1, <3>3, FetchedMoves
    <3>5. CASE q = <<>>
      BY <3>2, <3>4, <3>5
    <3>6. CASE q = <<g>>
      BY <3>2, <3>4, <3>6
    <3> QED
      BY <3>5, <3>6
  <2> QED
    BY <1>4, <2>1, <2>2
<1>6. Live(j) /\ Live(j)'
  BY <1>2, <1>5, LiveIs
<1>7. KeysAreUnique' /\ RowsAreCrawled'
  BY <1>2, <1>5, <1>6, LiveStepKeeps DEF KeyOf, StatusOf, SameMarks
<1>8. CrawlTypeOK'
  BY <1>1, <1>2, <1>5 DEF CrawlTypeOK
<1>9. StepIs(j, "idle") /\ ~Linking(j) /\ ~RunAt(j, "none") /\ ~RunAt(j, "waiting")
  BY <1>1, <1>2 DEF CrawlsHoldPages, RunAt
<1>10. StepIs(j, "idle")' /\ ~StepIs(j, "ingesting")' /\ ~Linking(j)'
  BY <1>5, <1>9 DEF StepIs
<1>11. CrawlsHoldPages'
  BY <1>1, <1>5, <1>9, <1>10, HoldsKept
<1>12. \A x \in Urls : Held(x)' <=> Held(x)
  BY <1>2 DEF Held, Accepts
<1>13. Live(j)' /\ Clean(j)' =>
         /\ Clean(j)
         /\ \A x \in Fetched(j)' : (Pending(j)' /\ (Stored(j).url)' = x) \/ Held(x)'
  <2>1. SUFFICES ASSUME Clean(j)'
                 PROVE  Clean(j) /\ \A x \in Fetched(j)' : (Pending(j)' /\ (Stored(j).url)' = x) \/ Held(x)'
    OBVIOUS
  <2>2. Clean(j)
    BY <1>5, <2>1 DEF SameMarks
  <2>3. \A x \in Fetched(j) : Held(x)
    BY <1>1, <1>2, <1>6, <2>2 DEF CleanIsAlone
  <2>4. Fetched(j) \subseteq Urls
    BY <1>1, RunTypes
  <2>5. CASE Fetched(j)' = Fetched(j)
    BY <1>12, <2>2, <2>3, <2>4, <2>5
  <2>6. CASE Pending(j)' /\ Stored(j)' = g /\ Fetched(j)' = Fetched(j) \cup {u}
    <3>1. (Stored(j).url)' = u
      BY <1>3, <2>6
    <3> QED
      BY <1>3, <1>12, <2>2, <2>3, <2>4, <2>6, <3>1
  <2> QED
    BY <1>5, <2>5, <2>6
<1>14. CleanIsAlone'
  BY <1>1, <1>5, <1>6, <1>10, <1>13, AloneKept
<1>15. DocsAreAccepted'
  BY <1>1, <1>2 DEF DocsAreAccepted, Accepts
<1> QED
  BY <1>7, <1>8, <1>11, <1>14, <1>15 DEF CrawlInv

\* A step of one live crawl: what is left to show of the page it holds.
LEMMA LiveStep ==
  ASSUME CrawlInv, NEW j \in Ids, Live(j), Live(j)', \A i \in Ids \ {j} : Untouched(i),
         Starts(j)' = Starts(j), Kept(j)' <=> Kept(j),
         CrawlTypeOK', DocsAreAccepted', caller' = caller, process' = process, Len(jobs)' = Len(jobs),
         \A k \in 1 .. Len(jobs) : KeyOf(k)' = KeyOf(k) /\ StatusOf(k)' = StatusOf(k),
         ~StepIs(j, "idle")' => Pending(j)',
         StepIs(j, "ingesting")' => Accepts(Stored(j).version)',
         Linking(j)' => ToLink(j)' # <<>>,
         Clean(j)' =>
           /\ Clean(j)
           /\ \A u \in Fetched(j)' : (Pending(j)' /\ (Stored(j).url)' = u) \/ Held(u)'
           /\ ~StepIs(j, "idle")' => (pages[Stored(j).url] = {Stored(j).version})'
  PROVE  CrawlInv'
<1>1. CrawlsHoldPages /\ CleanIsAlone
  BY DEF CrawlInv
<1>2. run' \in [Ids -> Run]
  BY DEF CrawlTypeOK
<1>3. KeysAreUnique' /\ RowsAreCrawled'
  BY <1>2, LiveStepKeeps
<1>4. ~RunAt(j, "none")' /\ ~RunAt(j, "waiting")'
  BY LiveIs DEF RunAt
<1>5. CrawlsHoldPages'
  BY <1>1, <1>4, HoldsKept
<1>6. CleanIsAlone'
  BY <1>1, AloneKept
<1> QED
  BY <1>3, <1>5, <1>6 DEF CrawlInv

\* A live crawl whose page in hand, and what was stored of the others, is as it was.
LEMMA HoldSame ==
  ASSUME CrawlInv, NEW j \in Ids, Live(j), SameHold(j), Clean(j)' => Clean(j), UNCHANGED <<docs, pages>>
  PROVE  /\ ~StepIs(j, "idle")' => Pending(j)'
         /\ StepIs(j, "ingesting")' => Accepts(Stored(j).version)'
         /\ Clean(j)' =>
              /\ Clean(j)
              /\ \A u \in Fetched(j)' : (Pending(j)' /\ (Stored(j).url)' = u) \/ Held(u)'
              /\ ~StepIs(j, "idle")' => (pages[Stored(j).url] = {Stored(j).version})'
<1>1. CrawlsHoldPages /\ CleanIsAlone
  BY DEF CrawlInv
<1>2. ~StepIs(j, "idle")' => Pending(j)'
  BY <1>1 DEF CrawlsHoldPages, SameHold
<1>3. StepIs(j, "ingesting")' => Accepts(Stored(j).version)'
  BY <1>1 DEF CrawlsHoldPages, SameHold, Accepts
<1>4. \A u : Held(u)' <=> Held(u)
  BY DEF Held, Accepts
<1>5. ASSUME Clean(j)'
      PROVE  /\ \A u \in Fetched(j)' : (Pending(j)' /\ (Stored(j).url)' = u) \/ Held(u)'
             /\ ~StepIs(j, "idle")' => (pages[Stored(j).url] = {Stored(j).version})'
  <2>1. /\ \A u \in Fetched(j) : (Pending(j) /\ Stored(j).url = u) \/ Held(u)
        /\ ~StepIs(j, "idle") => pages[Stored(j).url] = {Stored(j).version}
    BY <1>1, <1>5 DEF CleanIsAlone
  <2> QED
    BY <1>4, <2>1 DEF SameHold
<1> QED
  BY <1>2, <1>3, <1>5

\* The tables stay well formed when only crawls move.
LEMMA OnlyCrawlsMove ==
  ASSUME CrawlInv, run' \in [Ids -> Run], edges' \in [Urls -> SUBSET Edge],
         UNCHANGED <<docs, pages, site, caller, jobs, process>>
  PROVE  /\ CrawlTypeOK' /\ DocsAreAccepted' /\ Len(jobs)' = Len(jobs)
         /\ \A k \in 1 .. Len(jobs) : KeyOf(k)' = KeyOf(k) /\ StatusOf(k)' = StatusOf(k)
  BY DEF CrawlInv, CrawlTypeOK, DocsAreAccepted, Accepts, KeyOf, StatusOf

\* A crawl that has nothing left to fetch goes on to its end.
LEMMA CrawlEndsKeeps ==
  ASSUME CrawlInv, NEW j \in Ids, CrawlEnds(j)
  PROVE  CrawlInv'
<1>1. /\ run \in [Ids -> Run] /\ CrawlsHoldPages /\ edges \in [Urls -> SUBSET Edge]
  BY DEF CrawlInv, CrawlTypeOK
<1>2. /\ UNCHANGED <<docs, reader, site, caller, jobs, pages, edges, process, disturbed>>
      /\ RunAt(j, "crawling")
  BY DEF CrawlEnds, RunAt
<1>3. PICK p \in RunPcs, t \in SUBSET Urls : p = "ending" /\ t = {}
  BY DEF RunPcs
<1>4. run' = [run EXCEPT ![j].pc = p, ![j].todo = t]
  BY <1>3 DEF CrawlEnds
<1>5. run \in [Ids -> Run]
  BY <1>1
<1>6. /\ run' \in [Ids -> Run] /\ \A i \in Ids \ {j} : Untouched(i)
      /\ \A x : RunAt(j, x)' <=> x = p
      /\ SameHold(j) /\ SameLinks(j) /\ SameMarks(j)
  BY <1>4, <1>5, PcMoves
<1>7. Live(j) /\ Live(j)'
  BY <1>2, <1>3, <1>6, LiveIs
<1>8. /\ CrawlTypeOK' /\ DocsAreAccepted' /\ Len(jobs)' = Len(jobs)
      /\ \A k \in 1 .. Len(jobs) : KeyOf(k)' = KeyOf(k) /\ StatusOf(k)' = StatusOf(k)
  BY <1>1, <1>2, <1>6, OnlyCrawlsMove
<1>9. Clean(j)' => Clean(j)
  BY <1>6 DEF SameMarks
<1>10. /\ ~StepIs(j, "idle")' => Pending(j)'
       /\ StepIs(j, "ingesting")' => Accepts(Stored(j).version)'
       /\ Clean(j)' =>
            /\ Clean(j)
            /\ \A u \in Fetched(j)' : (Pending(j)' /\ (Stored(j).url)' = u) \/ Held(u)'
            /\ ~StepIs(j, "idle")' => (pages[Stored(j).url] = {Stored(j).version})'
  BY <1>2, <1>6, <1>7, <1>9, HoldSame
<1>11. Linking(j)' => ToLink(j)' # <<>>
  BY <1>1, <1>6 DEF CrawlsHoldPages, SameLinks
<1>12. Starts(j)' = Starts(j) /\ (Kept(j)' <=> Kept(j))
  BY <1>6 DEF SameMarks
<1> QED
  BY <1>2, <1>6, <1>7, <1>8, <1>10, <1>11, <1>12, LiveStep

\* Deleting a page's old links keeps the invariant.
LEMMA DeleteEdgesKeeps ==
  ASSUME CrawlInv, NEW j \in Ids, DeleteEdges(j)
  PROVE  CrawlInv'
<1>1. /\ run \in [Ids -> Run] /\ edges \in [Urls -> SUBSET Edge]
  BY DEF CrawlInv, CrawlTypeOK
<1>2. /\ UNCHANGED <<docs, reader, site, caller, jobs, pages, edges, process, disturbed>>
      /\ Live(j) /\ ToLink(j) # <<>>
  BY DEF DeleteEdges, ToLink
<1>3. ToLink(j)[1] \in Page
  <2>1. ToLink(j) \in Seq(Page)
    BY <1>1, RunTypes
  <2> QED
    BY <1>2, <2>1
<1>4. PICK d \in SUBSET Edge : d = edges[ToLink(j)[1].url]
  <2>1. ToLink(j)[1].url \in Urls
    BY <1>3 DEF Page
  <2>2. edges[ToLink(j)[1].url] \in SUBSET Edge
    BY <1>1, <2>1
  <2> QED
    BY <2>2
<1>5. run' = [run EXCEPT ![j].txn = TRUE, ![j].deletes = d]
  BY <1>4 DEF DeleteEdges, ToLink
<1>6. run \in [Ids -> Run]
  BY <1>1
<1>7. /\ run' \in [Ids -> Run] /\ \A i \in Ids \ {j} : Untouched(i)
      /\ \A x : RunAt(j, x)' <=> RunAt(j, x)
      /\ SameMarks(j) /\ SameHold(j) /\ Linking(j)' /\ ToLink(j)' = ToLink(j)
  BY <1>5, <1>6, DeletingMoves
<1>8. Live(j)'
  BY <1>2, <1>7, LiveIs
<1>9. /\ CrawlTypeOK' /\ DocsAreAccepted' /\ Len(jobs)' = Len(jobs)
      /\ \A k \in 1 .. Len(jobs) : KeyOf(k)' = KeyOf(k) /\ StatusOf(k)' = StatusOf(k)
  BY <1>1, <1>2, <1>7, OnlyCrawlsMove
<1>10. Clean(j)' => Clean(j)
  BY <1>7 DEF SameMarks
<1>11. /\ ~StepIs(j, "idle")' => Pending(j)'
       /\ StepIs(j, "ingesting")' => Accepts(Stored(j).version)'
       /\ Clean(j)' =>
            /\ Clean(j)
            /\ \A u \in Fetched(j)' : (Pending(j)' /\ (Stored(j).url)' = u) \/ Held(u)'
            /\ ~StepIs(j, "idle")' => (pages[Stored(j).url] = {Stored(j).version})'
  BY <1>2, <1>7, <1>10, HoldSame
<1>12. Linking(j)' => ToLink(j)' # <<>>
  BY <1>2, <1>7
<1>13. Starts(j)' = Starts(j) /\ (Kept(j)' <=> Kept(j))
  BY <1>7 DEF SameMarks
<1> QED
  BY <1>2, <1>7, <1>8, <1>9, <1>11, <1>12, <1>13, LiveStep

\* Committing a page's new links keeps the invariant.
LEMMA CommitEdgesKeeps ==
  ASSUME CrawlInv, NEW j \in Ids, CommitEdges(j)
  PROVE  CrawlInv'
<1>1. /\ run \in [Ids -> Run] /\ edges \in [Urls -> SUBSET Edge] /\ CrawlsHoldPages
  BY DEF CrawlInv, CrawlTypeOK
<1>2. /\ UNCHANGED <<docs, reader, site, caller, jobs, pages, process, disturbed>>
      /\ Live(j) /\ Linking(j)
  BY DEF CommitEdges, Linking
<1>3. ToLink(j)[1] \in Page
  <2>1. ToLink(j) \in Seq(Page)
    BY <1>1, RunTypes
  <2>2. ToLink(j) # <<>>
    BY <1>1, <1>2 DEF CrawlsHoldPages
  <2> QED
    BY <2>1, <2>2
<1>4. NewEdges(j) \subseteq Edge
  <2>1. ToLink(j)[1].version \in Versions
    BY <1>3 DEF Page
  <2> QED
    BY <2>1 DEF NewEdges, Edge, ToLink
<1>5. PICK u \in Urls : u = ToLink(j)[1].url
  BY <1>3 DEF Page
<1>6. edges' = edges \/ edges' = [edges EXCEPT ![u] = (edges[u] \ run[j].deletes) \cup NewEdges(j)]
  BY <1>5 DEF CommitEdges, ToLink
<1>7. edges' \in [Urls -> SUBSET Edge]
  <2>1. (edges[u] \ run[j].deletes) \cup NewEdges(j) \in SUBSET Edge
    BY <1>1, <1>4
  <2> QED
    BY <1>1, <1>6, <2>1
<1>8. PICK d \in SUBSET Edge, g \in Seq(Page), b \in BOOLEAN : d = {} /\ g = <<>> /\ b = FALSE
  <2>1. <<>> \in Seq(Page)
    OBVIOUS
  <2> QED
    BY <2>1
<1>9. run' = [run EXCEPT ![j].txn = b, ![j].deletes = d, ![j].graph = g]
  BY <1>8 DEF CommitEdges
<1>10. run \in [Ids -> Run]
  BY <1>1
<1>11. /\ run' \in [Ids -> Run] /\ \A i \in Ids \ {j} : Untouched(i)
       /\ \A x : RunAt(j, x)' <=> RunAt(j, x)
       /\ SameMarks(j) /\ SameHold(j) /\ (Linking(j)' <=> b) /\ ToLink(j)' = g
  BY <1>9, <1>10, LinksMove
<1>12. Live(j)'
  BY <1>2, <1>11, LiveIs
<1>13. /\ CrawlTypeOK' /\ DocsAreAccepted' /\ Len(jobs)' = Len(jobs)
       /\ \A k \in 1 .. Len(jobs) : KeyOf(k)' = KeyOf(k) /\ StatusOf(k)' = StatusOf(k)
  BY <1>2, <1>7, <1>11, OnlyCrawlsMove
<1>14. Clean(j)' => Clean(j)
  BY <1>11 DEF SameMarks
<1>15. /\ ~StepIs(j, "idle")' => Pending(j)'
       /\ StepIs(j, "ingesting")' => Accepts(Stored(j).version)'
       /\ Clean(j)' =>
            /\ Clean(j)
            /\ \A x \in Fetched(j)' : (Pending(j)' /\ (Stored(j).url)' = x) \/ Held(x)'
            /\ ~StepIs(j, "idle")' => (pages[Stored(j).url] = {Stored(j).version})'
  BY <1>2, <1>11, <1>14, HoldSame
<1>16. ~Linking(j)'
  BY <1>8, <1>11
<1>17. Starts(j)' = Starts(j) /\ (Kept(j)' <=> Kept(j))
  BY <1>11 DEF SameMarks
<1> QED
  BY <1>2, <1>11, <1>12, <1>13, <1>15, <1>16, <1>17, LiveStep

\* The knowledge base's look at what it has keeps the invariant.
LEMMA IngestLooksKeeps ==
  ASSUME CrawlInv, NEW j \in Ids, IngestLooks(j)
  PROVE  CrawlInv'
<1>1. /\ run \in [Ids -> Run] /\ edges \in [Urls -> SUBSET Edge] /\ CrawlsHoldPages /\ CleanIsAlone
      /\ DocsAreAccepted
  BY DEF CrawlInv, CrawlTypeOK
<1>2. /\ UNCHANGED <<docs, reader, site, caller, jobs, pages, edges, process, disturbed>>
      /\ Live(j) /\ StepIs(j, "hand off")
  BY DEF IngestLooks, StepIs
<1>3. ~StepIs(j, "idle") /\ Pending(j)
  <2>1. ~StepIs(j, "idle")
    BY <1>2 DEF StepIs
  <2> QED
    BY <1>1, <2>1 DEF CrawlsHoldPages
<1>4. Stored(j) \in Page /\ Fetched(j) \subseteq Urls
  BY <1>1, <1>3, RunTypes
<1>5. PICK p \in Page : p = Stored(j)
  BY <1>4
<1>6. \/ Accepts(p.version) /\ run' = [run EXCEPT ![j].step = "ingesting"]
      \/ ~(Accepts(p.version) /\ ~Skips(p.url, p.version)) /\ run' = [run EXCEPT ![j] = NextPage(@)]
  BY <1>5 DEF IngestLooks, HandsOff
<1>7. \A u : Held(u)' <=> Held(u)
  BY <1>2 DEF Held, Accepts
<1>8. Clean(j) => /\ \A u \in Fetched(j) : p.url = u \/ Held(u)
                  /\ pages[p.url] = {p.version}
  BY <1>1, <1>2, <1>3, <1>5 DEF CleanIsAlone
<1>9. run \in [Ids -> Run]
  BY <1>1
<1>10. CASE Accepts(p.version) /\ run' = [run EXCEPT ![j].step = "ingesting"]
  <2>1. run' = [run EXCEPT ![j].step = "ingesting"]
    BY <1>10
  <2>2. /\ run' \in [Ids -> Run] /\ \A i \in Ids \ {j} : Untouched(i)
        /\ \A x : RunAt(j, x)' <=> RunAt(j, x)
        /\ SameMarks(j) /\ SameLinks(j)
        /\ (Pending(j)' <=> Pending(j)) /\ Stored(j)' = Stored(j) /\ Fetched(j)' = Fetched(j)
        /\ \A s : StepIs(j, s)' <=> s = "ingesting"
    BY <1>9, <2>1, IngestingMoves
  <2>3. Live(j)'
    BY <1>2, <2>2, LiveIs
  <2>4. /\ CrawlTypeOK' /\ DocsAreAccepted' /\ Len(jobs)' = Len(jobs)
        /\ \A k \in 1 .. Len(jobs) : KeyOf(k)' = KeyOf(k) /\ StatusOf(k)' = StatusOf(k)
    BY <1>1, <1>2, <2>2, OnlyCrawlsMove
  <2>5. Linking(j)' => ToLink(j)' # <<>>
    BY <1>1, <2>2 DEF CrawlsHoldPages, SameLinks
  <2>6. Starts(j)' = Starts(j) /\ (Kept(j)' <=> Kept(j)) /\ (Clean(j)' <=> Clean(j))
    BY <2>2 DEF SameMarks
  <2>7. Pending(j)' /\ Accepts(Stored(j).version)'
    BY <1>3, <1>5, <1>10, <2>2 DEF Accepts
  <2>8. Clean(j)' =>
          /\ Clean(j)
          /\ \A u \in Fetched(j)' : (Pending(j)' /\ (Stored(j).url)' = u) \/ Held(u)'
          /\ (pages[Stored(j).url] = {Stored(j).version})'
    BY <1>2, <1>3, <1>5, <1>7, <1>8, <2>2, <2>6
  <2> QED
    BY <1>2, <2>2, <2>3, <2>4, <2>5, <2>6, <2>7, <2>8, LiveStep
<1>11. CASE ~(Accepts(p.version) /\ ~Skips(p.url, p.version)) /\ run' = [run EXCEPT ![j] = NextPage(@)]
  <2>1. run' = [run EXCEPT ![j] = NextPage(@)]
    BY <1>11
  <2>2. /\ run' \in [Ids -> Run] /\ \A i \in Ids \ {j} : Untouched(i)
        /\ \A x : RunAt(j, x)' <=> RunAt(j, x)
        /\ SameMarks(j) /\ SameLinks(j)
        /\ ~Pending(j)' /\ Fetched(j)' = Fetched(j)
        /\ \A s : StepIs(j, s)' <=> s = "idle"
    BY <1>9, <2>1, NextPageMoves
  <2>3. Live(j)'
    BY <1>2, <2>2, LiveIs
  <2>4. /\ CrawlTypeOK' /\ DocsAreAccepted' /\ Len(jobs)' = Len(jobs)
        /\ \A k \in 1 .. Len(jobs) : KeyOf(k)' = KeyOf(k) /\ StatusOf(k)' = StatusOf(k)
    BY <1>1, <1>2, <2>2, OnlyCrawlsMove
  <2>5. Linking(j)' => ToLink(j)' # <<>>
    BY <1>1, <2>2 DEF CrawlsHoldPages, SameLinks
  <2>6. Starts(j)' = Starts(j) /\ (Kept(j)' <=> Kept(j)) /\ (Clean(j)' <=> Clean(j))
    BY <2>2 DEF SameMarks
  <2>7. Clean(j) => Held(p.url)
    <3>1. p.url \in Urls /\ p.version \in Versions
      BY DEF Page
    <3>2. CASE ~Accepts(p.version)
      BY <1>8, <3>2 DEF Held
    <3>3. CASE p.version \in docs[p.url]
      BY <1>1, <1>8, <3>1, <3>3 DEF DocsAreAccepted, Held
    <3> QED
      BY <1>11, <3>2, <3>3 DEF Skips
  <2>8. Clean(j)' => Clean(j) /\ \A u \in Fetched(j)' : Held(u)'
    BY <1>7, <1>8, <2>2, <2>6, <2>7
  <2>9. StepIs(j, "idle")' /\ ~StepIs(j, "ingesting")'
    BY <2>2
  <2> QED
    BY <1>2, <2>2, <2>3, <2>4, <2>5, <2>6, <2>8, <2>9, LiveStep
<1> QED
  BY <1>6, <1>10, <1>11

\* A document that is written is the page in hand, and no longer owed.
LEMMA IngestWritesKeeps ==
  ASSUME CrawlInv, NEW j \in Ids, IngestWrites(j)
  PROVE  CrawlInv'
<1>1. /\ run \in [Ids -> Run] /\ CrawlsHoldPages /\ CleanIsAlone /\ CrawlTypeOK /\ DocsAreAccepted
      /\ docs \in [Urls -> SUBSET Versions]
  BY DEF CrawlInv, CrawlTypeOK
<1>2. /\ UNCHANGED <<reader, site, caller, jobs, pages, edges, process>>
      /\ Live(j) /\ StepIs(j, "ingesting")
  BY DEF IngestWrites, StepIs
<1>3. ~StepIs(j, "idle") /\ Pending(j) /\ Accepts(Stored(j).version)
  <2>1. ~StepIs(j, "idle")
    BY <1>2 DEF StepIs
  <2> QED
    BY <1>1, <1>2, <2>1 DEF CrawlsHoldPages
<1>4. Stored(j) \in Page /\ Fetched(j) \subseteq Urls
  BY <1>1, <1>3, RunTypes
<1>5. PICK p \in Page : p = Stored(j)
  BY <1>4
<1>6. p.url \in Urls /\ p.version \in Versions /\ Accepts(p.version)
  BY <1>3, <1>5 DEF Page
<1>7. Clean(j) => /\ \A u \in Fetched(j) : p.url = u \/ Held(u)
                  /\ pages[p.url] = {p.version}
  BY <1>1, <1>2, <1>3, <1>5 DEF CleanIsAlone
<1>8. run \in [Ids -> Run] /\ Len(jobs)' = Len(jobs)
  BY <1>1, <1>2
<1>9. \A k \in 1 .. Len(jobs) : KeyOf(k)' = KeyOf(k) /\ StatusOf(k)' = StatusOf(k)
  BY <1>2 DEF KeyOf, StatusOf
<1>10. CASE docs' = [docs EXCEPT ![p.url] = {p.version}] /\ run' = [run EXCEPT ![j] = NextPage(@)]
  <2>1. run \in [Ids -> Run] /\ run' = [run EXCEPT ![j] = NextPage(@)]
    BY <1>8, <1>10
  <2>2. /\ run' \in [Ids -> Run] /\ \A i \in Ids \ {j} : Untouched(i)
        /\ \A x : RunAt(j, x)' <=> RunAt(j, x)
        /\ SameMarks(j) /\ SameLinks(j)
        /\ ~Pending(j)' /\ Fetched(j)' = Fetched(j)
        /\ \A s : StepIs(j, s)' <=> s = "idle"
    BY <2>1, NextPageMoves
  <2>3. Live(j)'
    BY <1>2, <2>2, LiveIs
  <2>4. docs' \in [Urls -> SUBSET Versions] /\ docs'[p.url] = {p.version}
        /\ \A u \in Urls \ {p.url} : docs'[u] = docs[u]
    BY <1>1, <1>6, <1>10
  <2>5. CrawlTypeOK'
    BY <1>1, <1>2, <2>2, <2>4 DEF CrawlTypeOK
  <2>6. DocsAreAccepted'
    BY <1>1, <1>6, <2>4 DEF DocsAreAccepted, Accepts
  <2>7. Linking(j)' => ToLink(j)' # <<>>
    BY <1>1, <2>2 DEF CrawlsHoldPages, SameLinks
  <2>8. Starts(j)' = Starts(j) /\ (Kept(j)' <=> Kept(j)) /\ (Clean(j)' <=> Clean(j))
    BY <2>2 DEF SameMarks
  <2>9. \A u \in Urls \ {p.url} : Held(u) => Held(u)'
    BY <1>2, <2>4 DEF Held, Accepts
  <2>10. Clean(j) => Held(p.url)'
    BY <1>2, <1>7, <2>4 DEF Held
  <2>11. Clean(j)' => Clean(j) /\ \A u \in Fetched(j)' : Held(u)'
    BY <1>4, <1>7, <2>2, <2>8, <2>9, <2>10
  <2>12. StepIs(j, "idle")' /\ ~StepIs(j, "ingesting")'
    BY <2>2
  <2> QED
    BY <1>2, <1>8, <1>9, <2>2, <2>3, <2>5, <2>6, <2>7, <2>8, <2>11, <2>12, LiveStep
<1>11. CASE docs' = docs /\ run' = [run EXCEPT ![j] = [NextPage(@) EXCEPT !.clean = FALSE]]
  <2>1. run \in [Ids -> Run] /\ run' = [run EXCEPT ![j] = [NextPage(@) EXCEPT !.clean = FALSE]]
    BY <1>8, <1>11
  <2>2. /\ run' \in [Ids -> Run] /\ \A i \in Ids \ {j} : Untouched(i)
        /\ \A x : RunAt(j, x)' <=> RunAt(j, x)
        /\ SameLinks(j) /\ Starts(j)' = Starts(j) /\ (Kept(j)' <=> Kept(j)) /\ ~Clean(j)'
        /\ ~Pending(j)' /\ Fetched(j)' = Fetched(j)
        /\ \A s : StepIs(j, s)' <=> s = "idle"
    BY <2>1, PageFailsMoves
  <2>3. Live(j)'
    BY <1>2, <2>2, LiveIs
  <2>4. CrawlTypeOK' /\ DocsAreAccepted'
    BY <1>1, <1>2, <1>11, <2>2 DEF CrawlTypeOK, DocsAreAccepted, Accepts
  <2>5. Linking(j)' => ToLink(j)' # <<>>
    BY <1>1, <2>2 DEF CrawlsHoldPages, SameLinks
  <2>6. StepIs(j, "idle")' /\ ~StepIs(j, "ingesting")'
    BY <2>2
  <2> QED
    BY <1>2, <1>8, <1>9, <2>2, <2>3, <2>4, <2>5, <2>6, LiveStep
<1> QED
  BY <1>5, <1>10, <1>11 DEF IngestWrites, Upsert

\* A row that is written keeps its key and the table its length.
LEMMA RowCounted ==
  ASSUME jobs \in Seq(Job), NEW j \in 1 .. Len(jobs), jobs' = Counted(j)
  PROVE  /\ jobs' \in Seq(Job) /\ Len(jobs)' = Len(jobs)
         /\ \A k \in 1 .. Len(jobs) : KeyOf(k)' = KeyOf(k) /\ StatusOf(k)' = StatusOf(k)
<1>1. PICK r \in Job : r = jobs[j]
  OBVIOUS
<1>2. r.crawled \in Nat
  BY DEF Job
<1>3. PICK m \in Nat : m = r.crawled + 1
  BY <1>2
<1>4. PICK n : n = [r EXCEPT !.crawled = m]
  OBVIOUS
<1>5. n \in Job /\ n.key = r.key /\ n.status = r.status
  BY <1>4 DEF Job
<1>6. jobs' = [jobs EXCEPT ![j] = n]
  BY <1>1, <1>3, <1>4 DEF Counted
<1>7. /\ jobs' \in Seq(Job) /\ Len(jobs') = Len(jobs)
      /\ \A k \in 1 .. Len(jobs) : jobs'[k] = IF k = j THEN n ELSE jobs[k]
  BY <1>5, <1>6
<1> QED
  BY <1>1, <1>5, <1>7 DEF KeyOf, StatusOf

\* A status that is written changes nothing else of the rows.
LEMMA StatusWritten ==
  ASSUME jobs \in Seq(Job), NEW j \in 1 .. Len(jobs), NEW s \in {"queued", "running", "done", "failed"},
         jobs' = [jobs EXCEPT ![j].status = s]
  PROVE  /\ jobs' \in Seq(Job) /\ Len(jobs)' = Len(jobs)
         /\ \A k \in 1 .. Len(jobs) : KeyOf(k)' = KeyOf(k)
         /\ \A k \in 1 .. Len(jobs) : StatusOf(k)' = IF k = j THEN s ELSE StatusOf(k)
<1>1. PICK r \in Job : r = jobs[j]
  OBVIOUS
<1>2. PICK n : n = [r EXCEPT !.status = s]
  OBVIOUS
<1>3. n \in Job /\ n.key = r.key /\ n.status = s
  BY <1>2 DEF Job
<1>4. jobs' = [jobs EXCEPT ![j] = n]
  BY <1>1, <1>2
<1>5. /\ jobs' \in Seq(Job) /\ Len(jobs') = Len(jobs)
      /\ \A k \in 1 .. Len(jobs) : jobs'[k] = IF k = j THEN n ELSE jobs[k]
  BY <1>3, <1>4
<1> QED
  BY <1>1, <1>3, <1>5 DEF KeyOf, StatusOf

\* A crawl that has begun is the crawl of a row.
LEMMA BegunIsARow ==
  ASSUME CrawlInv, NEW j \in Ids, ~RunAt(j, "none")
  PROVE  j \in 1 .. Len(jobs) /\ jobs \in Seq(Job) /\ process = "up"
<1>1. RowsAreCrawled /\ CrawlTypeOK /\ jobs \in Seq(Job) /\ process \in {"up", "down"}
  BY DEF CrawlInv, CrawlTypeOK
<1>2. j <= Len(jobs) /\ process = "up"
  BY <1>1 DEF RowsAreCrawled
<1> QED
  BY <1>1, <1>2, IdsFinite DEF Ids

\* A saved page is still held until it is handed off; a save that fails leaves the crawl unclean.
LEMMA SavePageKeeps ==
  ASSUME CrawlInv, NEW j \in Ids, SavePage(j)
  PROVE  CrawlInv'
<1>1. /\ run \in [Ids -> Run] /\ CrawlsHoldPages /\ CleanIsAlone /\ CrawlTypeOK /\ DocsAreAccepted
      /\ pages \in [Urls -> SUBSET Versions]
  BY DEF CrawlInv, CrawlTypeOK
<1>2. /\ UNCHANGED <<docs, reader, site, caller, edges, process>>
      /\ Live(j) /\ StepIs(j, "idle") /\ Pending(j)
  BY DEF SavePage, StepIs, Pending
<1>3. Stored(j) \in Page /\ Fetched(j) \subseteq Urls
  BY <1>1, <1>2, RunTypes
<1>4. PICK p \in Page : p = Stored(j)
  BY <1>3
<1>5. p.url \in Urls /\ p.version \in Versions
  BY DEF Page
<1>6. ~RunAt(j, "none")
  BY <1>2, LiveIs DEF RunAt
<1>7. j \in 1 .. Len(jobs) /\ jobs \in Seq(Job)
  BY <1>6, BegunIsARow
<1>8. jobs' = Counted(j) \/ jobs' = jobs
  BY DEF SavePage
<1>9. /\ jobs' \in Seq(Job) /\ Len(jobs)' = Len(jobs)
      /\ \A k \in 1 .. Len(jobs) : KeyOf(k)' = KeyOf(k) /\ StatusOf(k)' = StatusOf(k)
  <2>1. CASE jobs' = Counted(j)
    BY <1>7, <2>1, RowCounted
  <2>2. CASE jobs' = jobs
    BY <1>7, <2>2 DEF KeyOf, StatusOf
  <2> QED
    BY <1>8, <2>1, <2>2
<1>10. DocsAreAccepted'
  BY <1>1, <1>2 DEF DocsAreAccepted, Accepts
<1>11. Clean(j) => \A u \in Fetched(j) : p.url = u \/ Held(u)
  BY <1>1, <1>2, <1>4 DEF CleanIsAlone
<1>12. ASSUME NEW b \in BOOLEAN, pages' = [pages EXCEPT ![p.url] = {p.version}],
              run' = [run EXCEPT ![j].step = "hand off", ![j].changed = b]
       PROVE  CrawlInv'
  <2>1. PICK s \in {"hand off", "ingesting"} : s = "hand off"
    OBVIOUS
  <2>2. run \in [Ids -> Run] /\ run' = [run EXCEPT ![j].step = s, ![j].changed = b]
    BY <1>1, <1>12, <2>1
  <2>3. /\ run' \in [Ids -> Run] /\ \A i \in Ids \ {j} : Untouched(i)
        /\ \A x : RunAt(j, x)' <=> RunAt(j, x)
        /\ SameMarks(j) /\ SameLinks(j)
        /\ (Pending(j)' <=> Pending(j)) /\ Stored(j)' = Stored(j) /\ Fetched(j)' = Fetched(j)
        /\ \A x : StepIs(j, x)' <=> x = s
    BY <2>2, StepMoves
  <2>4. Live(j)'
    BY <1>2, <2>3, LiveIs
  <2>5. /\ pages' \in [Urls -> SUBSET Versions] /\ pages'[p.url] = {p.version}
        /\ \A u \in Urls \ {p.url} : pages'[u] = pages[u]
    BY <1>1, <1>5, <1>12
  <2>6. CrawlTypeOK'
    BY <1>1, <1>2, <1>9, <2>3, <2>5 DEF CrawlTypeOK
  <2>7. Linking(j)' => ToLink(j)' # <<>>
    BY <1>1, <2>3 DEF CrawlsHoldPages, SameLinks
  <2>8. Starts(j)' = Starts(j) /\ (Kept(j)' <=> Kept(j)) /\ (Clean(j)' <=> Clean(j))
    BY <2>3 DEF SameMarks
  <2>9. \A u \in Urls \ {p.url} : Held(u) => Held(u)'
    BY <1>2, <2>5 DEF Held, Accepts
  <2>10. Pending(j)' /\ Stored(j)' = p
    BY <1>2, <1>4, <2>3
  <2>11. Clean(j)' =>
           /\ Clean(j)
           /\ \A u \in Fetched(j)' : (Pending(j)' /\ (Stored(j).url)' = u) \/ Held(u)'
    BY <1>3, <1>11, <2>3, <2>8, <2>9, <2>10
  <2>12. (pages[Stored(j).url] = {Stored(j).version})'
    BY <2>5, <2>10
  <2>13. ~StepIs(j, "ingesting")'
    BY <2>1, <2>3
  <2> QED
    BY <1>2, <1>9, <1>10, <2>3, <2>4, <2>6, <2>7, <2>8, <2>10, <2>11, <2>12, <2>13, LiveStep
<1>13. ASSUME pages' = pages, run' = [run EXCEPT ![j] = [NextPage(@) EXCEPT !.clean = FALSE]]
       PROVE  CrawlInv'
  <2>1. run \in [Ids -> Run] /\ run' = [run EXCEPT ![j] = [NextPage(@) EXCEPT !.clean = FALSE]]
    BY <1>1, <1>13
  <2>2. /\ run' \in [Ids -> Run] /\ \A i \in Ids \ {j} : Untouched(i)
        /\ \A x : RunAt(j, x)' <=> RunAt(j, x)
        /\ SameLinks(j) /\ Starts(j)' = Starts(j) /\ (Kept(j)' <=> Kept(j)) /\ ~Clean(j)'
        /\ ~Pending(j)' /\ Fetched(j)' = Fetched(j)
        /\ \A s : StepIs(j, s)' <=> s = "idle"
    BY <2>1, PageFailsMoves
  <2>3. Live(j)'
    BY <1>2, <2>2, LiveIs
  <2>4. CrawlTypeOK'
    BY <1>1, <1>2, <1>9, <1>13, <2>2 DEF CrawlTypeOK
  <2>5. Linking(j)' => ToLink(j)' # <<>>
    BY <1>1, <2>2 DEF CrawlsHoldPages, SameLinks
  <2>6. StepIs(j, "idle")' /\ ~StepIs(j, "ingesting")'
    BY <2>2
  <2> QED
    BY <1>2, <1>9, <1>10, <2>2, <2>3, <2>4, <2>5, <2>6, LiveStep
<1>14. \/ /\ pages' = [pages EXCEPT ![p.url] = {p.version}]
          /\ run' = [run EXCEPT ![j].step = "hand off", ![j].changed = pages[p.url] # {p.version}]
       \/ pages' = pages /\ run' = [run EXCEPT ![j] = [NextPage(@) EXCEPT !.clean = FALSE]]
  BY <1>4 DEF SavePage
<1>15. PICK b \in BOOLEAN : b = (pages[p.url] # {p.version})
  OBVIOUS
<1> QED
  BY <1>12, <1>13, <1>14, <1>15

\* The crawl that completes says how it went, or cannot say.
LEMMA CompleteKeeps ==
  ASSUME CrawlInv, NEW j \in Ids, Complete(j)
  PROVE  CrawlInv'
<1>1. /\ run \in [Ids -> Run] /\ CrawlsHoldPages /\ CleanIsAlone /\ CrawlTypeOK /\ DocsAreAccepted
      /\ KeysAreUnique /\ RowsAreCrawled
  BY DEF CrawlInv, CrawlTypeOK
<1>2. /\ UNCHANGED <<docs, reader, site, caller, pages, edges, process>> /\ RunAt(j, "ending")
  BY DEF Complete, RunAt
<1>3. ~RunAt(j, "none") /\ Live(j)
  BY <1>2, LiveIs DEF RunAt
<1>4. j \in 1 .. Len(jobs) /\ jobs \in Seq(Job)
  BY <1>3, BegunIsARow
<1>5. PICK s \in {"queued", "running", "done", "failed"} : s = Outcome(j)
  BY DEF Outcome
<1>6. s \notin {"queued", "running"}
  BY <1>5 DEF Outcome
<1>7. /\ run' \in [Ids -> Run] /\ \A i \in Ids \ {j} : Untouched(i)
      /\ \A x : RunAt(j, x)' <=> x = "over"
      /\ SameHold(j) /\ SameLinks(j) /\ Starts(j)' = Starts(j)
      /\ jobs' = [jobs EXCEPT ![j].status = s] \/ (jobs' = jobs /\ ~Kept(j)')
  <2>1. CASE jobs' = [jobs EXCEPT ![j].status = s] /\ run' = [run EXCEPT ![j].pc = "over"]
    <3>1. run \in [Ids -> Run] /\ run' = [run EXCEPT ![j].pc = "over"]
      BY <1>1, <2>1
    <3>2. /\ run' \in [Ids -> Run] /\ \A i \in Ids \ {j} : Untouched(i)
          /\ \A x : RunAt(j, x)' <=> x = "over"
          /\ SameHold(j) /\ SameLinks(j) /\ SameMarks(j)
      BY <3>1, EndMoves
    <3> QED
      BY <2>1, <3>2 DEF SameMarks
  <2>2. CASE jobs' = jobs /\ run' = [run EXCEPT ![j].pc = "over", ![j].kept = FALSE]
    <3>1. PICK k \in BOOLEAN : k = FALSE
      OBVIOUS
    <3>2. run \in [Ids -> Run] /\ run' = [run EXCEPT ![j].pc = "over", ![j].kept = k]
      BY <1>1, <2>2, <3>1
    <3>3. /\ run' \in [Ids -> Run] /\ \A i \in Ids \ {j} : Untouched(i)
          /\ \A x : RunAt(j, x)' <=> x = "over"
          /\ SameHold(j) /\ SameLinks(j) /\ Starts(j)' = Starts(j)
          /\ (Clean(j)' <=> Clean(j)) /\ (Kept(j)' <=> k)
      BY <3>2, OverMoves
    <3> QED
      BY <2>2, <3>1, <3>3
  <2> QED
    BY <1>5, <2>1, <2>2 DEF Complete
<1>8. /\ jobs' \in Seq(Job) /\ Len(jobs)' = Len(jobs)
      /\ \A k \in 1 .. Len(jobs) : KeyOf(k)' = KeyOf(k)
      /\ \A k \in 1 .. Len(jobs) : k # j => StatusOf(k)' = StatusOf(k)
      /\ StatusOf(j)' = s \/ ~Kept(j)'
  <2>1. CASE jobs' = [jobs EXCEPT ![j].status = s]
    <3>1. /\ jobs' \in Seq(Job) /\ Len(jobs)' = Len(jobs)
          /\ \A k \in 1 .. Len(jobs) : KeyOf(k)' = KeyOf(k)
          /\ \A k \in 1 .. Len(jobs) : StatusOf(k)' = IF k = j THEN s ELSE StatusOf(k)
      BY <1>4, <2>1, StatusWritten
    <3> QED
      BY <1>4, <3>1
  <2>2. CASE jobs' = jobs /\ ~Kept(j)'
    BY <1>4, <2>2 DEF KeyOf, StatusOf
  <2> QED
    BY <1>7, <2>1, <2>2
<1>9. KeysAreUnique'
  BY <1>1, <1>2, <1>8, KeysKept
<1>10. ~Live(j)'
  BY <1>7, LiveIs
<1>11. \A i \in Ids : Live(i)' => Live(i)
  BY <1>7, <1>10, LiveIs DEF Untouched
<1>12. RowsAreCrawled'
  <2>1. \A i \in Ids : Starts(i)' = Starts(i) /\ (RunAt(i, "none")' <=> RunAt(i, "none"))
    BY <1>3, <1>7 DEF Untouched
  <2>2. Cardinality(LiveJobs)' <= MaxConcurrent
    BY <1>1, <1>11, FewerLive
  <2>3. \A i \in Ids : IF i <= Len(jobs) THEN Starts(i)' <= 1 ELSE Starts(i)' = 0 /\ RunAt(i, "none")'
    BY <1>1, <2>1 DEF RowsAreCrawled
  <2>a. SpawnsToCome' /\ \A i : AboutToSpawn(i)' <=> AboutToSpawn(i)
    <3>1. SpawnsToCome
      BY <1>1 DEF RowsAreCrawled
    <3> QED
      BY <1>1, <1>2, <2>1, <3>1, SpawnsKept
  <2>4. process = "down" => \A i \in Ids : RunAt(i, "none")'
    BY <1>1, <2>1 DEF RowsAreCrawled
  <2>5. ASSUME process = "up", NEW k \in 1 .. Len(jobs), StatusOf(k)' \in {"queued", "running"}
        PROVE  RunAt(k, "waiting")' \/ RunAt(k, "crawling")' \/ RunAt(k, "ending")' \/ ~Kept(k)' \/ AboutToSpawn(k)'
    <3>1. CASE k = j
      BY <1>6, <1>8, <2>5, <3>1
    <3>2. CASE k # j
      <4>1. k \in Ids \ {j}
        BY <1>1, <3>2, JobsAreIds
      <4>2. Untouched(k) /\ StatusOf(k) \in {"queued", "running"}
        BY <1>7, <1>8, <2>5, <3>2, <4>1
      <4>3. RunAt(k, "waiting") \/ RunAt(k, "crawling") \/ RunAt(k, "ending") \/ ~Kept(k) \/ AboutToSpawn(k)
        BY <1>1, <2>5, <4>2 DEF RowsAreCrawled
      <4> QED
        BY <2>a, <4>2, <4>3 DEF Untouched
    <3> QED
      BY <3>1, <3>2
  <2> QED
    BY <1>2, <1>8, <2>2, <2>3, <2>4, <2>5, <2>a DEF RowsAreCrawled
<1>13. CrawlsHoldPages'
  <2>1. ~RunAt(j, "none")' /\ ~RunAt(j, "waiting")'
    BY <1>7
  <2>2. /\ ~StepIs(j, "idle")' => Pending(j)'
        /\ StepIs(j, "ingesting")' => Accepts(Stored(j).version)'
        /\ Linking(j)' => ToLink(j)' # <<>>
    BY <1>1, <1>7 DEF CrawlsHoldPages, SameHold, SameLinks, Accepts
  <2> QED
    BY <1>1, <1>7, <2>1, <2>2, HoldsKept
<1>14. CleanIsAlone'
  BY <1>1, <1>3, <1>7, <1>10, AloneKept
<1>15. CrawlTypeOK' /\ DocsAreAccepted'
  BY <1>1, <1>2, <1>7, <1>8 DEF CrawlTypeOK, DocsAreAccepted, Accepts
<1> QED
  BY <1>9, <1>12, <1>13, <1>14, <1>15 DEF CrawlInv

-----------------------------------------------------------------------------
(* Beginning a crawl, the callers and the process *)

\* The columns of the crawl that a step leaves in a row.
LEMMA Columns ==
  ASSUME NEW i \in Ids, NEW r \in Run, run'[i] = r
  PROVE  /\ \A p : RunAt(i, p)' <=> r.pc = p
         /\ Starts(i)' = r.starts /\ (Clean(i)' <=> r.clean) /\ (Kept(i)' <=> r.kept)
         /\ (Pending(i)' <=> r.store # <<>>) /\ Stored(i)' = r.store[1] /\ Fetched(i)' = r.fetched
         /\ \A s : StepIs(i, s)' <=> r.step = s
         /\ (Linking(i)' <=> r.txn) /\ ToLink(i)' = r.graph
  BY DEF RunAt, Starts, Clean, Kept, Pending, Stored, StepIs, Fetched, Linking, ToLink

\* The crawl that begins is clean when it is alone, and no other is any more.
LEMMA BeginMoves ==
  ASSUME run \in [Ids -> Run], NEW j \in Ids, NEW b \in BOOLEAN,
         run' = [i \in Ids |->
           IF i = j THEN [run[j] EXCEPT !.pc = "crawling", !.todo = Urls, !.clean = b]
           ELSE [run[i] EXCEPT !.clean = FALSE]]
  PROVE  /\ run' \in [Ids -> Run]
         /\ \A x : RunAt(j, x)' <=> x = "crawling"
         /\ Clean(j)' <=> b
         /\ \A i \in Ids \ {j} : ~Clean(i)' /\ \A x : RunAt(i, x)' <=> RunAt(i, x)
         /\ \A i \in Ids : /\ SameHold(i) /\ SameLinks(i)
                           /\ Starts(i)' = Starts(i) /\ (Kept(i)' <=> Kept(i))
<1>1. PICK p \in RunPcs, t \in SUBSET Urls : p = "crawling" /\ t = Urls
  BY DEF RunPcs
<1>2. PICK r \in Run : r = run[j]
  OBVIOUS
<1>3. PICK n : n = [r EXCEPT !.pc = p, !.todo = t, !.clean = b]
  OBVIOUS
<1>4. n \in Run
  BY <1>3 DEF Run
<1>5. run'[j] = n
  BY <1>1, <1>2, <1>3
<1>6. n.pc = p /\ n.step = r.step
  BY <1>3 DEF Run
<1>7. n.starts = r.starts /\ n.clean = b /\ n.kept = r.kept /\ n.txn = r.txn
  BY <1>3 DEF Run
<1>8. n.store = r.store /\ n.fetched = r.fetched /\ n.graph = r.graph
  BY <1>3 DEF Run
<1>9. /\ \A x : RunAt(j, x)' <=> n.pc = x
      /\ Starts(j)' = n.starts /\ (Clean(j)' <=> n.clean) /\ (Kept(j)' <=> n.kept)
      /\ (Pending(j)' <=> n.store # <<>>) /\ Stored(j)' = n.store[1] /\ Fetched(j)' = n.fetched
      /\ \A s : StepIs(j, s)' <=> n.step = s
      /\ (Linking(j)' <=> n.txn) /\ ToLink(j)' = n.graph
  BY <1>4, <1>5, Columns, ZenonT(60)
<1>10. /\ \A x : RunAt(j, x)' <=> x = "crawling"
       /\ Clean(j)' <=> b
       /\ SameHold(j) /\ SameLinks(j) /\ Starts(j)' = Starts(j) /\ (Kept(j)' <=> Kept(j))
  BY <1>1, <1>2, <1>6, <1>7, <1>8, <1>9
  DEF SameHold, SameLinks, Starts, Clean, Kept, Pending, Stored, Fetched, StepIs, Linking, ToLink
<1>11. ASSUME NEW i \in Ids \ {j}
       PROVE  /\ run'[i] \in Run
              /\ ~Clean(i)' /\ \A x : RunAt(i, x)' <=> RunAt(i, x)
              /\ SameHold(i) /\ SameLinks(i) /\ Starts(i)' = Starts(i) /\ (Kept(i)' <=> Kept(i))
  <2>1. PICK q \in Run : q = run[i]
    OBVIOUS
  <2>2. PICK m : m = [q EXCEPT !.clean = FALSE]
    OBVIOUS
  <2>3. m \in Run
    BY <2>2 DEF Run
  <2>4. run'[i] = m
    BY <2>1, <2>2
  <2>5. m.pc = q.pc /\ m.step = q.step
    BY <2>2 DEF Run
  <2>6. m.starts = q.starts /\ m.clean = FALSE /\ m.kept = q.kept /\ m.txn = q.txn
    BY <2>2 DEF Run
  <2>7. m.store = q.store /\ m.fetched = q.fetched /\ m.graph = q.graph
    BY <2>2 DEF Run
  <2>8. /\ \A x : RunAt(i, x)' <=> m.pc = x
        /\ Starts(i)' = m.starts /\ (Clean(i)' <=> m.clean) /\ (Kept(i)' <=> m.kept)
        /\ (Pending(i)' <=> m.store # <<>>) /\ Stored(i)' = m.store[1] /\ Fetched(i)' = m.fetched
        /\ \A s : StepIs(i, s)' <=> m.step = s
        /\ (Linking(i)' <=> m.txn) /\ ToLink(i)' = m.graph
    BY <2>3, <2>4, Columns
  <2> QED
    BY <2>1, <2>3, <2>4, <2>5, <2>6, <2>7, <2>8, ZenonT(60)
    DEF SameHold, SameLinks, RunAt, Starts, Clean, Kept, Pending, Stored, Fetched, StepIs, Linking, ToLink
<1>12. run' \in [Ids -> Run]
  BY <1>4, <1>5, <1>11
<1> QED
  BY <1>10, <1>11, <1>12

\* A crawl begins with a permit, and clean only when it is alone.
LEMMA BeginKeeps ==
  ASSUME CrawlInv, NEW j \in Ids, Begin(j)
  PROVE  CrawlInv'
<1>1. /\ run \in [Ids -> Run] /\ CrawlsHoldPages /\ CleanIsAlone /\ CrawlTypeOK /\ DocsAreAccepted
      /\ KeysAreUnique /\ RowsAreCrawled
  BY DEF CrawlInv, CrawlTypeOK
<1>2. /\ UNCHANGED <<docs, reader, site, caller, pages, edges, process>> /\ RunAt(j, "waiting")
      /\ Cardinality(LiveJobs) < MaxConcurrent
  BY DEF Begin, RunAt
<1>3. ~RunAt(j, "none") /\ ~Live(j)
  BY <1>2, LiveIs DEF RunAt
<1>4. j \in 1 .. Len(jobs) /\ jobs \in Seq(Job) /\ process = "up"
  BY <1>3, BegunIsARow
<1>5. PICK b \in BOOLEAN : b = (LiveJobs = {})
  OBVIOUS
<1>6. run' = [i \in Ids |->
        IF i = j THEN [run[j] EXCEPT !.pc = "crawling", !.todo = Urls, !.clean = b]
        ELSE [run[i] EXCEPT !.clean = FALSE]]
  BY <1>5 DEF Begin
<1>7. run \in [Ids -> Run]
  BY <1>1
<1>8. /\ run' \in [Ids -> Run]
      /\ \A x : RunAt(j, x)' <=> x = "crawling"
      /\ Clean(j)' <=> b
      /\ \A i \in Ids \ {j} : ~Clean(i)' /\ \A x : RunAt(i, x)' <=> RunAt(i, x)
      /\ \A i \in Ids : /\ SameHold(i) /\ SameLinks(i)
                        /\ Starts(i)' = Starts(i) /\ (Kept(i)' <=> Kept(i))
  BY <1>6, <1>7, BeginMoves
<1>9. /\ jobs' \in Seq(Job) /\ Len(jobs)' = Len(jobs)
      /\ \A k \in 1 .. Len(jobs) : KeyOf(k)' = KeyOf(k)
      /\ \A k \in 1 .. Len(jobs) : k # j => StatusOf(k)' = StatusOf(k)
  <2>1. CASE jobs' = [jobs EXCEPT ![j].status = "running"]
    <3>1. PICK s \in {"queued", "running", "done", "failed"} : s = "running"
      OBVIOUS
    <3>2. jobs' = [jobs EXCEPT ![j].status = s]
      BY <2>1, <3>1
    <3>3. /\ jobs' \in Seq(Job) /\ Len(jobs)' = Len(jobs)
          /\ \A k \in 1 .. Len(jobs) : KeyOf(k)' = KeyOf(k)
          /\ \A k \in 1 .. Len(jobs) : StatusOf(k)' = IF k = j THEN s ELSE StatusOf(k)
      BY <1>4, <3>2, StatusWritten
    <3> QED
      BY <3>3
  <2>2. CASE jobs' = jobs
    BY <1>4, <2>2 DEF KeyOf, StatusOf
  <2> QED
    BY <2>1, <2>2 DEF Begin
<1>10. KeysAreUnique'
  BY <1>1, <1>2, <1>9, KeysKept
<1>11. Live(j)' /\ \A i \in Ids \ {j} : Live(i)' <=> Live(i)
  BY <1>8, LiveIs
<1>12. Cardinality(LiveJobs)' <= MaxConcurrent
  <2>1. LiveJobs' = LiveJobs \cup {j} /\ j \notin LiveJobs
    BY <1>3, <1>11 DEF LiveJobs
  <2>2. LiveJobs \in SUBSET Ids
    BY DEF LiveJobs
  <2>3. IsFiniteSet(LiveJobs)
    BY <2>2, IdsFinite, FS_Subset
  <2>4. Cardinality(LiveJobs \cup {j}) = Cardinality(LiveJobs) + 1 /\ Cardinality(LiveJobs) \in Nat
    BY <2>1, <2>3, FS_AddElement, FS_CardinalityType
  <2> QED
    BY <1>2, <2>1, <2>4, CrawlAssumption
<1>13. RowsAreCrawled'
  <2>1. \A i \in Ids : Starts(i)' = Starts(i) /\ (RunAt(i, "none")' <=> RunAt(i, "none"))
    BY <1>3, <1>8
  <2>2. \A i \in Ids : IF i <= Len(jobs) THEN Starts(i)' <= 1 ELSE Starts(i)' = 0 /\ RunAt(i, "none")'
    BY <1>1, <2>1 DEF RowsAreCrawled
  <2>a. SpawnsToCome' /\ \A i : AboutToSpawn(i)' <=> AboutToSpawn(i)
    <3>1. SpawnsToCome
      BY <1>1 DEF RowsAreCrawled
    <3> QED
      BY <1>1, <1>2, <2>1, <3>1, SpawnsKept
  <2>3. ASSUME NEW k \in 1 .. Len(jobs), StatusOf(k)' \in {"queued", "running"}
        PROVE  RunAt(k, "waiting")' \/ RunAt(k, "crawling")' \/ RunAt(k, "ending")' \/ ~Kept(k)' \/ AboutToSpawn(k)'
    <3>1. CASE k = j
      BY <1>8, <3>1
    <3>2. CASE k # j
      <4>1. k \in Ids \ {j}
        BY <1>1, <3>2, JobsAreIds
      <4>2. StatusOf(k) \in {"queued", "running"}
        BY <1>9, <2>3, <3>2
      <4>3. RunAt(k, "waiting") \/ RunAt(k, "crawling") \/ RunAt(k, "ending") \/ ~Kept(k) \/ AboutToSpawn(k)
        BY <1>1, <1>4, <4>2 DEF RowsAreCrawled
      <4> QED
        BY <1>8, <2>a, <4>1, <4>3
    <3> QED
      BY <3>1, <3>2
  <2> QED
    BY <1>2, <1>4, <1>9, <1>12, <2>2, <2>3, <2>a DEF RowsAreCrawled
<1>14. Fetched(j) = {} /\ ~Pending(j) /\ StepIs(j, "idle")
  BY <1>1, <1>2 DEF CrawlsHoldPages
<1>15. CrawlsHoldPages'
  <2>1. ASSUME NEW i \in Ids
        PROVE  /\ RunAt(i, "none")' \/ RunAt(i, "waiting")' => Fetched(i)' = {} /\ ~Pending(i)'
               /\ ~StepIs(i, "idle")' => Pending(i)'
               /\ StepIs(i, "ingesting")' => Accepts(Stored(i).version)'
               /\ Linking(i)' => ToLink(i)' # <<>>
    <3>1. SameHold(i) /\ SameLinks(i)
      BY <1>8
    <3>2. RunAt(i, "none")' \/ RunAt(i, "waiting")' => RunAt(i, "none") \/ RunAt(i, "waiting")
      BY <1>8
    <3> QED
      BY <1>1, <3>1, <3>2 DEF CrawlsHoldPages, SameHold, SameLinks, Accepts
  <2> QED
    BY <2>1 DEF CrawlsHoldPages
<1>16. CleanIsAlone'
  <2>1. Clean(j)' => \A i \in Ids : Live(i)' => i = j
    BY <1>5, <1>8, <1>11 DEF LiveJobs
  <2>2. Fetched(j)' = {} /\ StepIs(j, "idle")'
    BY <1>8, <1>14 DEF SameHold
  <2> QED
    BY <1>8, <2>1, <2>2 DEF CleanIsAlone
<1>17. CrawlTypeOK' /\ DocsAreAccepted'
  BY <1>1, <1>2, <1>8, <1>9 DEF CrawlTypeOK, DocsAreAccepted, Accepts
<1> QED
  BY <1>10, <1>13, <1>15, <1>16, <1>17 DEF CrawlInv

\* A caller that moves on; the others are where they were.
LEMMA CallerMoves ==
  ASSUME caller \in [Callers -> Caller], NEW c \in Callers, NEW r \in Caller,
         caller' = [caller EXCEPT ![c] = r]
  PROVE  /\ caller' \in [Callers -> Caller]
         /\ \A p : CallerAt(c, p)' <=> r.pc = p
         /\ CallerKey(c)' = r.key /\ CallerJob(c)' = r.job
         /\ \A d \in Callers \ {c} :
              /\ \A p : CallerAt(d, p)' <=> CallerAt(d, p)
              /\ CallerKey(d)' = CallerKey(d) /\ CallerJob(d)' = CallerJob(d)
<1>1. /\ caller' \in [Callers -> Caller] /\ caller'[c] = r
      /\ \A d \in Callers \ {c} : caller'[d] = caller[d]
  OBVIOUS
<1> QED
  BY <1>1 DEF CallerAt, CallerKey, CallerJob

\* A caller that does not go back: those past their insert stay past it.
LEMMA PastGrows ==
  ASSUME \A d \in Past : ~CallerAt(d, "idle")' /\ ~CallerAt(d, "inserting")'
  PROVE  /\ Cardinality(Past) \in Nat /\ Cardinality(Past)' \in Nat
         /\ Cardinality(Past) <= Cardinality(Past)'
         /\ \A c \in Past' \ Past : Cardinality(Past) + 1 <= Cardinality(Past)'
<1>1. Past \in SUBSET Past' /\ Past' \in SUBSET Callers
  BY DEF Past
<1>2. IsFiniteSet(Past')
  BY <1>1, CrawlAssumption, FS_Subset
<1>3. /\ IsFiniteSet(Past) /\ Cardinality(Past) <= Cardinality(Past')
      /\ Cardinality(Past') = Cardinality(Past) => Past' = Past
  BY <1>1, <1>2, FS_Subset
<1>4. Cardinality(Past) \in Nat /\ Cardinality(Past') \in Nat
  BY <1>2, <1>3, FS_CardinalityType
<1> QED
  BY <1>3, <1>4

\* A caller that moves on, with a row of its key if it has one, leaves the keys unique.
LEMMA CallerKeys ==
  ASSUME CrawlTypeOK, KeysAreUnique, NEW c \in Callers, NEW r \in Caller,
         caller' = [caller EXCEPT ![c] = r], jobs' = jobs, r.key \in Keys, r.pc # "idle",
         r.pc = "inserting" => CallerAt(c, "idle"),
         r.pc \in {"done", "inserted"} => r.job \in 1 .. Len(jobs) /\ KeyOf(r.job) = r.key
  PROVE  /\ caller' \in [Callers -> Caller] /\ KeysAreUnique'
         /\ \A p : CallerAt(c, p)' <=> r.pc = p
         /\ CallerJob(c)' = r.job
         /\ \A d \in Callers \ {c} :
              (\A p : CallerAt(d, p)' <=> CallerAt(d, p)) /\ CallerJob(d)' = CallerJob(d)
<1>1. caller \in [Callers -> Caller] /\ Len(jobs) \in Nat
  BY DEF CrawlTypeOK
<1>2. /\ caller' \in [Callers -> Caller]
      /\ \A p : CallerAt(c, p)' <=> r.pc = p
      /\ CallerKey(c)' = r.key /\ CallerJob(c)' = r.job
      /\ \A d \in Callers \ {c} :
           /\ \A p : CallerAt(d, p)' <=> CallerAt(d, p)
           /\ CallerKey(d)' = CallerKey(d) /\ CallerJob(d)' = CallerJob(d)
  BY <1>1, CallerMoves
<1>3. \A d \in Past : ~CallerAt(d, "idle")' /\ ~CallerAt(d, "inserting")'
  BY <1>2 DEF Past
<1>4. Len(jobs)' <= Cardinality(Past)'
  <2>1. /\ Cardinality(Past) \in Nat /\ Cardinality(Past)' \in Nat
        /\ Cardinality(Past) <= Cardinality(Past)'
    BY <1>3, PastGrows
  <2>2. Len(jobs) <= Cardinality(Past)
    BY DEF KeysAreUnique
  <2> QED
    BY <1>1, <2>1, <2>2
<1>5. ASSUME NEW d \in Callers, HasRow(d)'
      PROVE  CallerJob(d)' \in 1 .. Len(jobs) /\ (KeyOf(CallerJob(d)) = CallerKey(d))'
  <2>1. CASE d = c
    <3>1. r.pc \in {"done", "inserted"}
      BY <1>2, <1>5, <2>1 DEF HasRow
    <3> QED
      BY <1>2, <2>1, <3>1 DEF KeyOf
  <2>2. CASE d # c
    <3>1. HasRow(d)
      BY <1>2, <1>5, <2>2 DEF HasRow
    <3>2. CallerJob(d) \in 1 .. Len(jobs) /\ KeyOf(CallerJob(d)) = CallerKey(d)
      BY <3>1 DEF KeysAreUnique
    <3>3. PICK i \in 1 .. Len(jobs) : i = CallerJob(d)
      BY <3>2
    <3>4. CallerJob(d)' = i /\ CallerKey(d)' = CallerKey(d)
      BY <1>2, <2>2, <3>3
    <3> QED
      BY <3>2, <3>3, <3>4 DEF KeyOf
  <2> QED
    BY <2>1, <2>2
<1>6. \A i, m \in 1 .. Len(jobs) : KeyOf(i)' = KeyOf(m)' /\ KeyOf(i)' # "" => i = m
  BY DEF KeysAreUnique, KeyOf
<1>7. \A d \in Callers : ~CallerAt(d, "idle")' => CallerKey(d)' \in Keys
  BY <1>2 DEF KeysAreUnique
<1>8. KeysAreUnique'
  BY <1>4, <1>5, <1>6, <1>7 DEF KeysAreUnique
<1> QED
  BY <1>2, <1>8

\* The crawls and the documents are as they were.
LEMMA CrawlsStay ==
  ASSUME CrawlInv, UNCHANGED <<docs, pages, run>>
  PROVE  /\ CrawlsHoldPages' /\ DocsAreAccepted' /\ CleanIsAlone'
         /\ (\A i : Untouched(i)) /\ LiveJobs' = LiveJobs
<1>1. \A i : Untouched(i)
  BY DEF Untouched, RunAt, Starts, Clean, Kept, Pending, Stored, Fetched, StepIs, Linking, ToLink
<1>2. \A i : Live(i)' <=> Live(i)
  BY DEF Live
<1>3. LiveJobs' = LiveJobs
  BY <1>2 DEF LiveJobs
<1>4. CrawlsHoldPages'
  BY <1>1 DEF CrawlInv, CrawlsHoldPages, Untouched, Accepts
<1>5. DocsAreAccepted' /\ \A u : Held(u)' <=> Held(u)
  BY DEF CrawlInv, DocsAreAccepted, Accepts, Held
<1>6. CleanIsAlone'
  BY <1>1, <1>2, <1>5 DEF CrawlInv, CleanIsAlone, Untouched
<1> QED
  BY <1>1, <1>3, <1>4, <1>5, <1>6

\* A caller that neither has nor gets a row to spawn.
LEMMA CallerStepKeeps ==
  ASSUME CrawlInv, NEW c \in Callers, NEW p \in CallerPcs, NEW k \in Keys, NEW j \in Nat, Moves(c, p, k, j),
         ~CallerAt(c, "inserted"), p # "inserted", p # "idle", p = "inserting" => CallerAt(c, "idle"),
         p = "done" => j \in ByKey(k),
         UNCHANGED <<docs, site, jobs, run, pages, edges, process>>
  PROVE  CrawlInv'
<1>1. CrawlTypeOK /\ KeysAreUnique /\ RowsAreCrawled /\ SpawnsToCome
  BY DEF CrawlInv, RowsAreCrawled
<1>2. PICK r : r = [pc |-> p, key |-> k, job |-> j]
  OBVIOUS
<1>3. r \in Caller /\ r.pc = p /\ r.key = k /\ r.job = j
  BY <1>2 DEF Caller
<1>4. caller' = [caller EXCEPT ![c] = r]
  BY <1>2 DEF Moves
<1>5. r.pc \in {"done", "inserted"} => r.job \in 1 .. Len(jobs) /\ KeyOf(r.job) = r.key
  BY <1>3 DEF ByKey, KeyOf
<1>6. /\ caller' \in [Callers -> Caller] /\ KeysAreUnique'
      /\ \A x : CallerAt(c, x)' <=> r.pc = x
      /\ CallerJob(c)' = r.job
      /\ \A d \in Callers \ {c} :
           (\A x : CallerAt(d, x)' <=> CallerAt(d, x)) /\ CallerJob(d)' = CallerJob(d)
  <2>1. r \in Caller /\ r.key \in Keys /\ r.pc # "idle" /\ (r.pc = "inserting" => CallerAt(c, "idle"))
    BY <1>3
  <2> QED
    BY <1>1, <1>4, <1>5, <2>1, CallerKeys
<1>7. /\ CrawlsHoldPages' /\ DocsAreAccepted' /\ CleanIsAlone'
      /\ (\A i : Untouched(i)) /\ LiveJobs' = LiveJobs
  BY CrawlsStay
<1>8. \A d \in Callers : /\ CallerAt(d, "inserted")' <=> CallerAt(d, "inserted")
                         /\ CallerAt(d, "inserted") => CallerJob(d)' = CallerJob(d)
  BY <1>3, <1>6
<1>9. SpawnsToCome'
  <2>1. ASSUME NEW d \in Callers, CallerAt(d, "inserted")'
        PROVE  (Starts(CallerJob(d)) = 0)' /\ RunAt(CallerJob(d), "none")'
    <3>1. CallerAt(d, "inserted") /\ CallerJob(d)' = CallerJob(d)
      BY <1>8, <2>1
    <3>2. Starts(CallerJob(d)) = 0 /\ RunAt(CallerJob(d), "none")
      BY <1>1, <3>1 DEF SpawnsToCome
    <3> QED
      BY <3>1, <3>2 DEF Starts, RunAt
  <2> QED
    BY <1>1, <1>8, <2>1 DEF SpawnsToCome
<1>10. \A i : AboutToSpawn(i)' <=> AboutToSpawn(i)
  BY <1>8 DEF AboutToSpawn
<1>11. \A i : StatusOf(i)' = StatusOf(i)
  BY DEF StatusOf
<1>12. RowsAreCrawled'
  BY <1>1, <1>7, <1>9, <1>10, <1>11 DEF RowsAreCrawled, Untouched
<1>13. CrawlTypeOK'
  BY <1>1, <1>6 DEF CrawlTypeOK
<1> QED
  BY <1>6, <1>7, <1>12, <1>13 DEF CrawlInv

\* A caller that finds its key's row takes that row, and one that does not goes on to its insert.
LEMMA LookupKeeps ==
  ASSUME CrawlInv, NEW c \in Callers, NEW k \in Keys, Lookup(c, k)
  PROVE  CrawlInv'
<1>1. Len(jobs) \in Nat
  BY DEF CrawlInv, CrawlTypeOK
<1>2. UNCHANGED <<docs, site, jobs, run, pages, edges, process>> /\ CallerAt(c, "idle")
  BY DEF Lookup, CallerAt
<1>3. ~CallerAt(c, "inserted")
  BY <1>2 DEF CallerAt
<1>4. PICK p \in CallerPcs, j \in Nat : Moves(c, p, k, j) /\ p \in {"done", "inserting", "failed"}
                                        /\ (p = "done" => j \in ByKey(k))
  <2>1. CASE ByKey(k) # {} /\ Moves(c, "done", k, CHOOSE j \in ByKey(k) : TRUE)
    <3>1. PICK j \in ByKey(k) : Moves(c, "done", k, j)
      BY <2>1
    <3>2. j \in Nat
      BY <1>1, <3>1 DEF ByKey
    <3> QED
      BY <3>1, <3>2 DEF CallerPcs
  <2>2. CASE Moves(c, "inserting", k, 0)
    BY <2>2 DEF CallerPcs
  <2>3. CASE Moves(c, "failed", k, 0)
    BY <2>3 DEF CallerPcs
  <2> QED
    BY <2>1, <2>2, <2>3 DEF Lookup
<1>5. p # "inserted" /\ p # "idle"
  BY <1>4
<1> QED
  BY <1>2, <1>3, <1>4, <1>5, CallerStepKeeps

\* A caller whose insert was refused takes the row of its key, or fails; none is spawned.
LEMMA RefindKeeps ==
  ASSUME CrawlInv, NEW c \in Callers, Refind(c)
  PROVE  CrawlInv'
<1>1. Len(jobs) \in Nat /\ KeysAreUnique
  BY DEF CrawlInv, CrawlTypeOK
<1>2. UNCHANGED <<docs, site, jobs, run, pages, edges, process>> /\ CallerAt(c, "refused")
  BY DEF Refind, CallerAt
<1>3. ~CallerAt(c, "inserted") /\ ~CallerAt(c, "idle")
  BY <1>2 DEF CallerAt
<1>4. PICK k \in Keys : k = CallerKey(c)
  BY <1>1, <1>3 DEF KeysAreUnique
<1>5. PICK p \in CallerPcs, j \in Nat :
        Moves(c, p, k, j) /\ p \in {"done", "failed"} /\ (p = "done" => j \in ByKey(k))
  <2>1. CASE ByKey(k) # {} /\ Moves(c, "done", k, CHOOSE j \in ByKey(k) : TRUE)
    <3>1. PICK j \in ByKey(k) : Moves(c, "done", k, j)
      BY <2>1
    <3>2. j \in Nat
      BY <1>1, <3>1 DEF ByKey
    <3> QED
      BY <3>1, <3>2 DEF CallerPcs
  <2>2. CASE Moves(c, "failed", k, 0)
    BY <2>2 DEF CallerPcs
  <2> QED
    BY <1>4, <2>1, <2>2 DEF Refind, CallerKey
<1>6. p # "inserted" /\ p # "idle" /\ p # "inserting"
  BY <1>5
<1> QED
  BY <1>2, <1>3, <1>4, <1>5, <1>6, CallerStepKeeps

\* A call that fails before it has a row leaves everything else alone.
LEMMA CallFailsKeeps ==
  ASSUME CrawlInv, NEW c \in Callers, CallFails(c)
  PROVE  CrawlInv'
<1>1. KeysAreUnique
  BY DEF CrawlInv
<1>2. /\ UNCHANGED <<docs, site, jobs, run, pages, edges, process>>
      /\ CallerAt(c, "inserting") \/ CallerAt(c, "refused")
  BY DEF CallFails, CallerAt
<1>3. ~CallerAt(c, "inserted") /\ ~CallerAt(c, "idle")
  BY <1>2 DEF CallerAt
<1>4. PICK k \in Keys, p \in CallerPcs, j \in Nat : k = CallerKey(c) /\ p = "failed" /\ j = 0
  BY <1>1, <1>3 DEF KeysAreUnique, CallerPcs
<1>5. Moves(c, p, k, j)
  BY <1>4 DEF CallFails, CallerKey
<1>6. p # "inserted" /\ p # "idle" /\ p # "inserting" /\ p # "done"
  BY <1>4
<1> QED
  BY <1>2, <1>3, <1>5, <1>6, CallerStepKeeps

\* The row that is added, and the rows that were there.
LEMMA RowAdded ==
  ASSUME jobs \in Seq(Job), NEW k \in Keys, NEW m \in Nat, m = Len(jobs) + 1,
         jobs' = Append(jobs, NewJob(k))
  PROVE  /\ jobs' \in Seq(Job) /\ Len(jobs)' = m /\ KeyOf(m)' = k
         /\ \A i \in 1 .. Len(jobs) : KeyOf(i)' = KeyOf(i) /\ StatusOf(i)' = StatusOf(i)
<1>1. PICK n : n = NewJob(k)
  OBVIOUS
<1>2. n \in Job /\ n.key = k
  BY <1>1 DEF NewJob, Job
<1>3. /\ jobs' \in Seq(Job) /\ Len(jobs') = Len(jobs) + 1 /\ jobs'[Len(jobs) + 1] = n
      /\ \A i \in 1 .. Len(jobs) : jobs'[i] = jobs[i]
  BY <1>1, <1>2
<1>4. KeyOf(m)' = k
  BY <1>2, <1>3 DEF KeyOf
<1> QED
  BY <1>3, <1>4 DEF KeyOf, StatusOf

\* The jobs are numbered from one.
LEMMA IdsAreNumbers == Ids \subseteq Nat /\ 0 <= 1
  BY IdsFinite DEF Ids

\* The index after the last.
LEMMA NextIndex ==
  ASSUME NEW n \in Nat, NEW m, m = n + 1
  PROVE  /\ m \in Nat /\ m \notin 1 .. n /\ m \in 1 .. m /\ 1 .. n \subseteq 1 .. m
         /\ \A i \in 1 .. m : i \in 1 .. n \/ i = m
         /\ \A i \in Nat : i <= n => i <= m
         /\ ~(m <= n)
         /\ \A x, y \in Nat : n <= x /\ x + 1 <= y => m <= y
  OBVIOUS

\* A caller that inserts a row is the first of its key, and the row is in its hands.
LEMMA RowInsertedKeeps ==
  ASSUME CrawlInv, NEW c \in Callers, CallerAt(c, "inserting"), NEW k \in Keys, NEW m \in Ids,
         m = Len(jobs) + 1, k # "" => \A i \in 1 .. Len(jobs) : KeyOf(i) # k,
         jobs' \in Seq(Job), Len(jobs)' = m, KeyOf(m)' = k,
         \A i \in 1 .. Len(jobs) : KeyOf(i)' = KeyOf(i) /\ StatusOf(i)' = StatusOf(i),
         NEW r \in Caller, r.pc = "inserted", r.key = k, r.job = m, caller' = [caller EXCEPT ![c] = r],
         UNCHANGED <<docs, site, run, pages, edges, process>>
  PROVE  CrawlInv'
<1>1. CrawlTypeOK /\ KeysAreUnique /\ RowsAreCrawled /\ SpawnsToCome
  BY DEF CrawlInv, RowsAreCrawled
<1>a. Len(jobs) \in Nat
  BY <1>1, JobsAreIds
<1>b. caller \in [Callers -> Caller]
  BY <1>1 DEF CrawlTypeOK
<1>2. /\ m \in Nat /\ m \notin 1 .. Len(jobs) /\ m \in 1 .. m /\ 1 .. Len(jobs) \subseteq 1 .. m
      /\ \A i \in 1 .. m : i \in 1 .. Len(jobs) \/ i = m
      /\ \A i \in Nat : i <= Len(jobs) => i <= m
      /\ ~(m <= Len(jobs))
      /\ \A x, y \in Nat : Len(jobs) <= x /\ x + 1 <= y => m <= y
  BY <1>a, NextIndex, Zenon
<1>8. /\ caller' \in [Callers -> Caller]
      /\ \A p : CallerAt(c, p)' <=> r.pc = p
      /\ CallerKey(c)' = r.key /\ CallerJob(c)' = r.job
      /\ \A d \in Callers \ {c} :
           /\ \A p : CallerAt(d, p)' <=> CallerAt(d, p)
           /\ CallerKey(d)' = CallerKey(d) /\ CallerJob(d)' = CallerJob(d)
  BY <1>b, CallerMoves
<1>9. /\ CrawlsHoldPages' /\ DocsAreAccepted' /\ CleanIsAlone'
      /\ (\A i : Untouched(i)) /\ LiveJobs' = LiveJobs
  BY CrawlsStay
<1>10. KeysAreUnique'
  <2>1. /\ \A d \in Past : ~CallerAt(d, "idle")' /\ ~CallerAt(d, "inserting")'
        /\ c \in Past' \ Past
    BY <1>8 DEF Past
  <2>2. /\ Cardinality(Past) \in Nat /\ Cardinality(Past)' \in Nat
        /\ Cardinality(Past) + 1 <= Cardinality(Past)'
    BY <2>1, PastGrows
  <2>3. Len(jobs)' <= Cardinality(Past)'
    <3>1. Len(jobs) <= Cardinality(Past)
      BY <1>1 DEF KeysAreUnique
    <3>2. Len(jobs)' = m /\ \A x, y \in Nat : Len(jobs) <= x /\ x + 1 <= y => m <= y
      BY <1>2
    <3> QED
      BY ONLY <2>2, <3>1, <3>2, Zenon
  <2>4. ASSUME NEW d \in Callers, HasRow(d)'
        PROVE  CallerJob(d)' \in 1 .. m /\ (KeyOf(CallerJob(d)) = CallerKey(d))'
    <3>1. CASE d = c
      <4>1. CallerJob(c)' = m /\ CallerKey(c)' = k /\ m \in 1 .. m
        BY <1>2, <1>8
      <4> QED
        BY <3>1, <4>1 DEF KeyOf
    <3>2. CASE d # c
      <4>1. HasRow(d)
        BY <1>8, <2>4, <3>2 DEF HasRow
      <4>2. CallerJob(d) \in 1 .. Len(jobs) /\ KeyOf(CallerJob(d)) = CallerKey(d)
        BY <1>1, <4>1 DEF KeysAreUnique
      <4>3. PICK i \in 1 .. Len(jobs) : i = CallerJob(d)
        BY <4>2
      <4>4. CallerJob(d)' = i /\ CallerKey(d)' = CallerKey(d) /\ KeyOf(i)' = KeyOf(i)
        BY <1>8, <3>2, <4>3
      <4>5. i \in 1 .. m
        BY <1>2
      <4> QED
        BY <4>2, <4>3, <4>4, <4>5 DEF KeyOf
    <3> QED
      BY <3>1, <3>2
  <2>6. \A i, n \in 1 .. m : KeyOf(i)' = KeyOf(n)' /\ KeyOf(i)' # "" => i = n
    <3>1. \A i \in 1 .. m : i \in 1 .. Len(jobs) \/ i = m
      BY <1>2
    <3>2. \A i, n \in 1 .. Len(jobs) : KeyOf(i)' = KeyOf(n)' /\ KeyOf(i)' # "" => i = n
      <4>1. \A i, n \in 1 .. Len(jobs) : KeyOf(i) = KeyOf(n) /\ KeyOf(i) # "" => i = n
        BY <1>1 DEF KeysAreUnique
      <4>2. ASSUME NEW i \in 1 .. Len(jobs), NEW n \in 1 .. Len(jobs), KeyOf(i)' = KeyOf(n)', KeyOf(i)' # ""
            PROVE  i = n
        <5>1. KeyOf(i)' = KeyOf(i) /\ KeyOf(n)' = KeyOf(n)
          OBVIOUS
        <5>2. KeyOf(i) = KeyOf(n) /\ KeyOf(i) # ""
          BY <4>2, <5>1, Zenon
        <5> QED
          BY <4>1, <5>2, Zenon
      <4> QED
        BY <4>2
    <3>3. \A i \in 1 .. Len(jobs) : KeyOf(i)' # "" => KeyOf(i)' # KeyOf(m)'
      OBVIOUS
    <3> QED
      BY <3>1, <3>2, <3>3
  <2>7. \A d \in Callers : ~CallerAt(d, "idle")' => CallerKey(d)' \in Keys
    BY <1>1, <1>8 DEF KeysAreUnique
  <2> QED
    BY <2>3, <2>4, <2>6, <2>7 DEF KeysAreUnique
<1>11. \A d \in Callers \ {c} : CallerAt(d, "inserted")' => /\ CallerAt(d, "inserted")
                                                            /\ CallerJob(d)' \in 1 .. Len(jobs)
  <2>1. \A d \in Callers : HasRow(d) => CallerJob(d) \in 1 .. Len(jobs)
    BY <1>1 DEF KeysAreUnique
  <2>2. ASSUME NEW d \in Callers \ {c}, CallerAt(d, "inserted")'
        PROVE  CallerAt(d, "inserted") /\ CallerJob(d)' \in 1 .. Len(jobs)
    <3>1. CallerAt(d, "inserted") /\ CallerJob(d)' = CallerJob(d)
      BY ONLY <1>8, <2>2, Zenon
    <3> QED
      BY ONLY <2>1, <2>2, <3>1, Zenon DEF HasRow
  <2> QED
    BY ONLY <2>2, Zenon
<1>12. SpawnsToCome'
  <2>1. ASSUME NEW d \in Callers, CallerAt(d, "inserted")'
        PROVE  (Starts(CallerJob(d)) = 0)' /\ RunAt(CallerJob(d), "none")'
    <3>1. Starts(CallerJob(d)') = 0 /\ RunAt(CallerJob(d)', "none")
      <4>1. CASE d = c
        <5>1. Starts(m) = 0 /\ RunAt(m, "none")
          BY <1>1, <1>2 DEF RowsAreCrawled
        <5> QED
          BY <1>8, <4>1, <5>1
      <4>2. CASE d # c
        <5>1. CallerAt(d, "inserted") /\ CallerJob(d)' = CallerJob(d)
          BY <1>8, <2>1, <4>2
        <5>2. Starts(CallerJob(d)) = 0 /\ RunAt(CallerJob(d), "none")
          BY <1>1, <5>1 DEF SpawnsToCome
        <5> QED
          BY <5>1, <5>2
      <4> QED
        BY <4>1, <4>2
    <3> QED
      BY <3>1 DEF Starts, RunAt
  <2>2. ASSUME NEW d \in Callers, NEW e \in Callers, CallerAt(d, "inserted")', CallerAt(e, "inserted")',
               CallerJob(d)' = CallerJob(e)'
        PROVE  d = e
    <3>1. CallerJob(c)' = m
      BY <1>8
    <3>2. CASE d = c \/ e = c
      <4>1. \A x \in Callers \ {c} : CallerAt(x, "inserted")' => CallerJob(x)' # m
        BY <1>2, <1>11, Zenon
      <4> QED
        BY <2>2, <3>1, <3>2, <4>1, Zenon
    <3>3. CASE d # c /\ e # c
      BY <1>1, <1>8, <2>2, <3>3 DEF SpawnsToCome
    <3> QED
      BY <3>2, <3>3
  <2> QED
    BY <2>1, <2>2 DEF SpawnsToCome
<1>13. RowsAreCrawled'
  <2>a. Ids \subseteq Nat
    BY IdsAreNumbers
  <2>1. ASSUME NEW i \in Ids
        PROVE  (i <= m => Starts(i)' <= 1) /\ (~(i <= m) => Starts(i)' = 0 /\ RunAt(i, "none")')
    <3>1. Starts(i)' = Starts(i) /\ (RunAt(i, "none")' <=> RunAt(i, "none"))
      BY <1>9 DEF Untouched
    <3>2. i <= Len(jobs) => i <= m
      BY <1>2, <2>a, Zenon
    <3>3. Starts(i) <= 1 /\ (~(i <= Len(jobs)) => Starts(i) = 0 /\ RunAt(i, "none"))
      <4>1. IF i <= Len(jobs) THEN Starts(i) <= 1 ELSE Starts(i) = 0 /\ RunAt(i, "none")
        BY <1>1 DEF RowsAreCrawled
      <4>2. 0 <= 1
        BY IdsAreNumbers
      <4> QED
        BY <4>1, <4>2, Zenon
    <3> QED
      BY <3>1, <3>2, <3>3, Zenon
  <2>2. ASSUME process = "up", NEW i \in 1 .. m, StatusOf(i)' \in {"queued", "running"}
        PROVE  \/ RunAt(i, "waiting")' \/ RunAt(i, "crawling")' \/ RunAt(i, "ending")' \/ ~Kept(i)'
               \/ AboutToSpawn(i)'
    <3>1. CASE i = m
      BY <1>8, <3>1 DEF AboutToSpawn
    <3>2. CASE i # m
      <4>1. i \in 1 .. Len(jobs)
        BY <1>2, <3>2, Zenon
      <4>2. StatusOf(i) \in {"queued", "running"}
        BY <2>2, <4>1
      <4>3. RunAt(i, "waiting") \/ RunAt(i, "crawling") \/ RunAt(i, "ending") \/ ~Kept(i) \/ AboutToSpawn(i)
        BY <1>1, <2>2, <4>1, <4>2 DEF RowsAreCrawled
      <4>4. ~CallerAt(c, "inserted")
        BY DEF CallerAt
      <4>5. AboutToSpawn(i) => AboutToSpawn(i)'
        BY <1>8, <4>4 DEF AboutToSpawn
      <4> QED
        BY <1>9, <4>3, <4>5 DEF Untouched
    <3> QED
      BY <3>1, <3>2
  <2>3. process = "down" => \A i \in Ids : RunAt(i, "none")'
    BY <1>1, <1>9 DEF RowsAreCrawled, Untouched
  <2>4. Cardinality(LiveJobs)' <= MaxConcurrent
    BY <1>1, <1>9 DEF RowsAreCrawled
  <2> QED
    BY <1>12, <2>1, <2>2, <2>3, <2>4 DEF RowsAreCrawled
<1>14. CrawlTypeOK'
  BY <1>1, <1>8 DEF CrawlTypeOK
<1> QED
  BY <1>9, <1>10, <1>13, <1>14 DEF CrawlInv

\* An insert adds a row, or is refused.
LEMMA InsertKeeps ==
  ASSUME CrawlInv, NEW c \in Callers, Insert(c)
  PROVE  CrawlInv'
<1>1. CrawlTypeOK /\ KeysAreUnique
  BY DEF CrawlInv
<1>2. UNCHANGED <<docs, site, run, pages, edges, process>> /\ CallerAt(c, "inserting")
  BY DEF Insert, CallerAt
<1>3. ~CallerAt(c, "inserted") /\ ~CallerAt(c, "idle")
  BY <1>2 DEF CallerAt
<1>4. PICK k \in Keys : k = CallerKey(c)
  BY <1>1, <1>3 DEF KeysAreUnique
<1>5. PICK m \in Ids : m = Len(jobs) + 1
  BY <1>1, <1>2, JobsAreIds
<1>6. CASE ~Taken(k) /\ jobs' = Append(jobs, NewJob(k)) /\ Moves(c, "inserted", k, m)
  <2>1. k # "" => \A i \in 1 .. Len(jobs) : KeyOf(i) # k
    BY <1>6 DEF Taken, ByKey, KeyOf
  <2>2. jobs \in Seq(Job) /\ m \in Nat
    BY <1>1, IdsFinite DEF CrawlTypeOK, Ids
  <2>3. /\ jobs' \in Seq(Job) /\ Len(jobs)' = m /\ KeyOf(m)' = k
        /\ \A i \in 1 .. Len(jobs) : KeyOf(i)' = KeyOf(i) /\ StatusOf(i)' = StatusOf(i)
    BY <1>5, <1>6, <2>2, RowAdded
  <2>4. PICK r : r = [pc |-> "inserted", key |-> k, job |-> m]
    OBVIOUS
  <2>5. r.pc = "inserted" /\ r.key = k /\ r.job = m
    BY <2>4
  <2>6. r \in Caller
    BY <2>2, <2>4, <2>5 DEF Caller, CallerPcs
  <2>7. caller' = [caller EXCEPT ![c] = r]
    BY <1>6, <2>4 DEF Moves
  <2> QED
    BY <1>2, <1>5, <2>1, <2>3, <2>5, <2>6, <2>7, RowInsertedKeeps
<1>7. CASE jobs' = jobs /\ Moves(c, "refused", k, 0)
  <2>1. PICK p \in CallerPcs, j \in Nat : p = "refused" /\ j = 0
    BY DEF CallerPcs
  <2>2. Moves(c, p, k, j)
    BY <1>7, <2>1
  <2>3. p # "inserted" /\ p # "idle" /\ p # "inserting" /\ p # "done"
    BY <2>1
  <2> QED
    BY <1>2, <1>3, <1>7, <2>2, <2>3, CallerStepKeeps
<1> QED
  BY <1>4, <1>5, <1>6, <1>7 DEF Insert, CallerKey

\* The crawl of a row that no crawl carried yet: what the pages and the documents are is as it was.
LEMMA UnstartedStep ==
  ASSUME CrawlInv, NEW m \in Ids, RunAt(m, "none"), run' \in [Ids -> Run],
         \A i \in Ids \ {m} : Untouched(i), RunAt(m, "none")' \/ RunAt(m, "waiting")',
         SameHold(m), SameLinks(m), UNCHANGED <<docs, pages>>
  PROVE  /\ CrawlsHoldPages' /\ DocsAreAccepted' /\ CleanIsAlone'
         /\ \A i \in Ids : Live(i)' <=> Live(i)
<1>1. CrawlsHoldPages /\ DocsAreAccepted /\ CleanIsAlone
  BY DEF CrawlInv
<1>2. \A i \in Ids \ {m} : Live(i)' <=> Live(i)
  BY LiveIs DEF Untouched
<1>3. ~Live(m)' /\ ~Live(m)
  BY LiveIs DEF RunAt
<1>4. CrawlsHoldPages'
  <2>1. Fetched(m)' = {} /\ ~Pending(m)' /\ StepIs(m, "idle")' /\ ~StepIs(m, "ingesting")'
    <3>1. Fetched(m) = {} /\ ~Pending(m) /\ StepIs(m, "idle")
      BY <1>1 DEF CrawlsHoldPages
    <3>2. ~StepIs(m, "ingesting")
      BY <3>1 DEF StepIs
    <3> QED
      BY <3>1, <3>2 DEF SameHold
  <2>2. Linking(m)' => ToLink(m)' # <<>>
    BY <1>1 DEF CrawlsHoldPages, SameLinks
  <2> QED
    BY <1>1, <2>1, <2>2, HoldsKept
<1>5. CleanIsAlone'
  <2>1. \A u : Held(u)' <=> Held(u)
    BY DEF Held, Accepts
  <2>2. ASSUME NEW i \in Ids, Clean(i)', Live(i)'
        PROVE  /\ \A n \in Ids : Live(n)' => n = i
               /\ \A u \in Fetched(i)' : (Pending(i)' /\ (Stored(i).url)' = u) \/ Held(u)'
               /\ ~StepIs(i, "idle")' => (pages[Stored(i).url] = {Stored(i).version})'
    <3>1. i \in Ids \ {m} /\ Untouched(i)
      BY <1>3, <2>2
    <3>2. Clean(i) /\ Live(i)
      BY <1>2, <2>2, <3>1 DEF Untouched
    <3>3. /\ \A n \in Ids : Live(n) => n = i
          /\ \A u \in Fetched(i) : (Pending(i) /\ Stored(i).url = u) \/ Held(u)
          /\ ~StepIs(i, "idle") => pages[Stored(i).url] = {Stored(i).version}
      BY <1>1, <3>2 DEF CleanIsAlone
    <3> QED
      BY <1>2, <1>3, <2>1, <3>1, <3>3 DEF Untouched
  <2> QED
    BY <2>2 DEF CleanIsAlone
<1>6. DocsAreAccepted'
  BY <1>1 DEF DocsAreAccepted, Accepts
<1> QED
  BY <1>2, <1>3, <1>4, <1>5, <1>6

\* A caller lets go of its row, which is then carried by a crawl or known to be lost.
LEMMA LetGoKeeps ==
  ASSUME CrawlInv, NEW c \in Callers, CallerAt(c, "inserted"), NEW m \in Ids, m = CallerJob(c),
         NEW p \in CallerPcs, NEW k \in Keys, NEW j \in Nat, k = CallerKey(c), Moves(c, p, k, j),
         p \in {"done", "refused", "failed"}, p = "done" => j = m,
         process = "up",
         UNCHANGED <<docs, site, jobs, pages, edges, process>>, run' \in [Ids -> Run],
         \A i \in Ids \ {m} : Untouched(i), SameHold(m), SameLinks(m), Starts(m)' <= 1,
         RunAt(m, "waiting")' \/ (RunAt(m, "none")' /\ ~Kept(m)')
  PROVE  CrawlInv'
<1>1. CrawlTypeOK /\ KeysAreUnique /\ RowsAreCrawled /\ SpawnsToCome
  BY DEF CrawlInv, RowsAreCrawled
<1>2. m \in 1 .. Len(jobs) /\ KeyOf(m) = k /\ Starts(m) = 0 /\ RunAt(m, "none")
  BY <1>1 DEF KeysAreUnique, HasRow, SpawnsToCome
<1>3. PICK r : r = [pc |-> p, key |-> k, job |-> j]
  OBVIOUS
<1>4. r \in Caller /\ r.pc = p /\ r.key = k /\ r.job = j
  BY <1>3 DEF Caller
<1>5. caller' = [caller EXCEPT ![c] = r]
  BY <1>3 DEF Moves
<1>6. /\ caller' \in [Callers -> Caller] /\ KeysAreUnique'
      /\ \A x : CallerAt(c, x)' <=> r.pc = x
      /\ CallerJob(c)' = r.job
      /\ \A d \in Callers \ {c} :
           (\A x : CallerAt(d, x)' <=> CallerAt(d, x)) /\ CallerJob(d)' = CallerJob(d)
  <2>1. r \in Caller /\ r.key \in Keys /\ r.pc # "idle" /\ (r.pc = "inserting" => CallerAt(c, "idle"))
    BY <1>4
  <2>2. r.pc \in {"done", "inserted"} => r.job \in 1 .. Len(jobs) /\ KeyOf(r.job) = r.key
    BY <1>2, <1>4
  <2> QED
    BY <1>1, <1>5, <2>1, <2>2, CallerKeys
<1>7. /\ CrawlsHoldPages' /\ DocsAreAccepted' /\ CleanIsAlone'
      /\ \A i \in Ids : Live(i)' <=> Live(i)
  BY <1>2, UnstartedStep
<1>8. \A d \in Callers : CallerAt(d, "inserted")' <=> d # c /\ CallerAt(d, "inserted")
  BY <1>4, <1>6
<1>9. \A d \in Callers \ {c} : CallerAt(d, "inserted") => CallerJob(d) \in Ids \ {m}
  <2>1. \A d \in Callers : CallerAt(d, "inserted") => CallerJob(d) \in Ids
    BY <1>1, JobsAreIds DEF KeysAreUnique, HasRow
  <2> QED
    BY <1>1, <2>1 DEF SpawnsToCome
<1>10. SpawnsToCome'
  <2>1. ASSUME NEW d \in Callers, CallerAt(d, "inserted")'
        PROVE  (Starts(CallerJob(d)) = 0)' /\ RunAt(CallerJob(d), "none")'
    <3>1. PICK i \in Ids \ {m} : i = CallerJob(d) /\ CallerAt(d, "inserted") /\ CallerJob(d)' = i
      BY <1>6, <1>8, <1>9, <2>1
    <3>2. Starts(i) = 0 /\ RunAt(i, "none")
      BY <1>1, <3>1 DEF SpawnsToCome
    <3>3. Starts(i)' = 0 /\ RunAt(i, "none")'
      BY <3>2 DEF Untouched
    <3> QED
      BY <3>1, <3>3 DEF Starts, RunAt
  <2>2. \A d, e \in Callers :
          CallerAt(d, "inserted")' /\ CallerAt(e, "inserted")' /\ CallerJob(d)' = CallerJob(e)' => d = e
    BY <1>1, <1>6, <1>8 DEF SpawnsToCome
  <2> QED
    BY <2>1, <2>2 DEF SpawnsToCome
<1>11. RowsAreCrawled'
  <2>1. ASSUME NEW i \in Ids
        PROVE  IF i <= Len(jobs) THEN Starts(i)' <= 1 ELSE Starts(i)' = 0 /\ RunAt(i, "none")'
    <3>1. CASE i = m
      BY <1>2, <3>1
    <3>2. CASE i # m
      BY <1>1, <3>2 DEF RowsAreCrawled, Untouched
    <3> QED
      BY <3>1, <3>2
  <2>2. ASSUME NEW i \in 1 .. Len(jobs), StatusOf(i)' \in {"queued", "running"}
        PROVE  \/ RunAt(i, "waiting")' \/ RunAt(i, "crawling")' \/ RunAt(i, "ending")' \/ ~Kept(i)'
               \/ AboutToSpawn(i)'
    <3>1. CASE i = m
      BY <3>1
    <3>2. CASE i # m
      <4>1. i \in Ids \ {m} /\ StatusOf(i) \in {"queued", "running"}
        BY <1>1, <2>2, <3>2, JobsAreIds DEF StatusOf
      <4>2. RunAt(i, "waiting") \/ RunAt(i, "crawling") \/ RunAt(i, "ending") \/ ~Kept(i) \/ AboutToSpawn(i)
        BY <1>1, <2>2, <4>1 DEF RowsAreCrawled
      <4>3. AboutToSpawn(i) => AboutToSpawn(i)'
        BY <1>6, <1>8, <3>2 DEF AboutToSpawn
      <4> QED
        BY <4>1, <4>2, <4>3 DEF Untouched
    <3> QED
      BY <3>1, <3>2
  <2>3. Cardinality(LiveJobs)' <= MaxConcurrent
    BY <1>1, <1>7, FewerLive
  <2> QED
    BY <1>10, <2>1, <2>2, <2>3 DEF RowsAreCrawled
<1>12. CrawlTypeOK'
  BY <1>1, <1>6 DEF CrawlTypeOK
<1> QED
  BY <1>6, <1>7, <1>11, <1>12 DEF CrawlInv

\* The spawn of a row's crawl is its first.
LEMMA SpawnKeeps ==
  ASSUME CrawlInv, NEW c \in Callers, Spawn(c)
  PROVE  CrawlInv'
<1>1. CrawlTypeOK /\ KeysAreUnique /\ SpawnsToCome /\ run \in [Ids -> Run]
  BY DEF CrawlInv, RowsAreCrawled, CrawlTypeOK
<1>2. /\ UNCHANGED <<docs, site, jobs, pages, edges, process>> /\ CallerAt(c, "inserted") /\ process = "up"
  BY DEF Spawn, CallerAt
<1>3. ~CallerAt(c, "idle") /\ HasRow(c)
  BY <1>2 DEF CallerAt, HasRow
<1>4. PICK k \in Keys : k = CallerKey(c)
  BY <1>1, <1>3 DEF KeysAreUnique
<1>5. PICK m \in Ids : m = CallerJob(c)
  BY <1>1, <1>3, JobsAreIds DEF KeysAreUnique
<1>6. PICK p \in CallerPcs, j \in Nat : p = "done" /\ j = m
  BY IdsFinite DEF CallerPcs, Ids
<1>7. Moves(c, p, k, j) /\ run' = [run EXCEPT ![m].pc = "waiting", ![m].starts = @ + 1]
  BY <1>4, <1>5, <1>6 DEF Spawn, CallerKey, CallerJob
<1>8. /\ run' \in [Ids -> Run] /\ \A i \in Ids \ {m} : Untouched(i)
      /\ \A x : RunAt(m, x)' <=> x = "waiting"
      /\ SameHold(m) /\ SameLinks(m) /\ Starts(m)' = Starts(m) + 1 /\ (Clean(m)' <=> Clean(m))
  BY <1>1, <1>7, SpawnMoves
<1>9. Starts(m)' <= 1 /\ RunAt(m, "waiting")'
  <2>1. Starts(m) = 0
    BY <1>1, <1>2, <1>5 DEF SpawnsToCome
  <2> QED
    BY <1>8, <2>1
<1>10. p \in {"done", "refused", "failed"}
  BY <1>6
<1> QED
  BY <1>2, <1>4, <1>5, <1>6, <1>7, <1>8, <1>9, <1>10, LetGoKeeps

\* A row whose spawn is lost is known to be.
LEMMA SpawnLostKeeps ==
  ASSUME CrawlInv, NEW c \in Callers, SpawnLost(c)
  PROVE  CrawlInv'
<1>1. CrawlTypeOK /\ KeysAreUnique /\ SpawnsToCome /\ run \in [Ids -> Run]
  BY DEF CrawlInv, RowsAreCrawled, CrawlTypeOK
<1>2. /\ UNCHANGED <<docs, site, jobs, pages, edges, process>> /\ CallerAt(c, "inserted") /\ process = "up"
  BY DEF SpawnLost, CallerAt
<1>3. ~CallerAt(c, "idle") /\ HasRow(c)
  BY <1>2 DEF CallerAt, HasRow
<1>4. PICK k \in Keys : k = CallerKey(c)
  BY <1>1, <1>3 DEF KeysAreUnique
<1>5. PICK m \in Ids : m = CallerJob(c)
  BY <1>1, <1>3, JobsAreIds DEF KeysAreUnique
<1>6. PICK p \in CallerPcs, j \in Nat : p \in {"refused", "failed"} /\ j = 0 /\ Moves(c, p, k, j)
  BY <1>4 DEF SpawnLost, CallerKey, CallerPcs
<1>7. PICK b \in BOOLEAN : b = FALSE /\ run' = [run EXCEPT ![m].kept = b]
  BY <1>5 DEF SpawnLost, CallerJob
<1>8. /\ run' \in [Ids -> Run] /\ \A i \in Ids \ {m} : Untouched(i)
      /\ \A x : RunAt(m, x)' <=> RunAt(m, x)
      /\ SameHold(m) /\ SameLinks(m) /\ Starts(m)' = Starts(m) /\ (Kept(m)' <=> b)
  BY <1>1, <1>7, StrandMoves
<1>9. Starts(m)' <= 1 /\ RunAt(m, "none")' /\ ~Kept(m)'
  <2>1. Starts(m) = 0 /\ RunAt(m, "none")
    BY <1>1, <1>2, <1>5 DEF SpawnsToCome
  <2> QED
    BY <1>7, <1>8, <2>1
<1>10. p \in {"done", "refused", "failed"} /\ p # "done"
  BY <1>6
<1> QED
  BY <1>2, <1>4, <1>5, <1>6, <1>8, <1>9, <1>10, LetGoKeeps

\* A site edit and a reader's step leave the crawls alone.
LEMMA OthersKeep ==
  ASSUME CrawlInv, site' \in [Urls -> Versions], UNCHANGED <<docs, caller, jobs, run, pages, edges, process>>
  PROVE  CrawlInv'
<1>1. CrawlTypeOK /\ KeysAreUnique /\ RowsAreCrawled
  BY DEF CrawlInv
<1>2. /\ CrawlsHoldPages' /\ DocsAreAccepted' /\ CleanIsAlone'
      /\ (\A i : Untouched(i)) /\ LiveJobs' = LiveJobs
  BY CrawlsStay
<1>3. CrawlTypeOK'
  BY <1>1 DEF CrawlTypeOK
<1>4. KeysAreUnique'
  BY <1>1, KeysKept DEF KeyOf
<1>5. \A i : StatusOf(i)' = StatusOf(i)
  BY DEF StatusOf
<1>6. \A i \in Ids : Live(i)' <=> Live(i)
  BY <1>2, LiveIs DEF Untouched
<1>7. RowsAreCrawled'
  BY <1>1, <1>2, <1>5, <1>6, RowsKept DEF Untouched
<1> QED
  BY <1>2, <1>3, <1>4, <1>7 DEF CrawlInv

\* A run that has not begun.
LEMMA NoRunIs ==
  ASSUME NEW n \in Nat
  PROVE  /\ [NoRun EXCEPT !.starts = n] \in Run
         /\ [NoRun EXCEPT !.starts = n].pc = "none" /\ [NoRun EXCEPT !.starts = n].step = "idle"
         /\ [NoRun EXCEPT !.starts = n].starts = n
         /\ [NoRun EXCEPT !.starts = n].store = <<>> /\ [NoRun EXCEPT !.starts = n].fetched = {}
         /\ [NoRun EXCEPT !.starts = n].txn = FALSE
         /\ NoRun \in Run /\ NoRun.pc = "none" /\ NoRun.step = "idle" /\ NoRun.starts = 0
         /\ NoRun.store = <<>> /\ NoRun.fetched = {} /\ NoRun.txn = FALSE
<1>1. PICK p \in RunPcs, q \in Seq(Page), s \in {"idle", "hand off", "ingesting"}, m \in Nat, f \in BOOLEAN,
           t \in BOOLEAN, us \in SUBSET Urls, es \in SUBSET Edge :
        /\ p = "none" /\ q = <<>> /\ s = "idle" /\ m = 0 /\ f = FALSE /\ t = TRUE /\ us = {} /\ es = {}
  <2>1. <<>> \in Seq(Page)
    OBVIOUS
  <2>2. "none" \in RunPcs
    BY DEF RunPcs
  <2> QED
    BY <2>1, <2>2
<1>2. PICK r : r = [pc |-> p, todo |-> us, emitted |-> m, any |-> f, lost |-> f, store |-> q, step |-> s,
                    changed |-> f, graph |-> q, deletes |-> es, txn |-> f, fetched |-> us, starts |-> m,
                    clean |-> t, kept |-> t]
  OBVIOUS
<1>3. r = NoRun
  BY <1>1, <1>2 DEF NoRun
<1>4. r \in Run
  BY <1>2 DEF Run
<1>5. r.pc = p /\ r.step = s /\ r.store = q /\ r.fetched = us /\ r.txn = f /\ r.starts = m
  BY <1>2
<1>6. PICK n1 : n1 = [r EXCEPT !.starts = n]
  OBVIOUS
<1>7. n1 \in Run
  BY <1>4, <1>6 DEF Run
<1>8. n1.pc = r.pc /\ n1.step = r.step /\ n1.starts = n
  BY <1>4, <1>6 DEF Run
<1>9. n1.store = r.store /\ n1.fetched = r.fetched /\ n1.txn = r.txn
  BY <1>4, <1>6 DEF Run
<1>10. n1 = [NoRun EXCEPT !.starts = n]
  BY <1>3, <1>6
<1>11. n1.pc = "none" /\ n1.step = "idle" /\ r.pc = "none" /\ r.step = "idle"
  BY <1>1, <1>5, <1>8
<1>12. n1.store = <<>> /\ n1.fetched = {} /\ n1.txn = FALSE
  BY <1>1, <1>5, <1>9
<1>13. r.store = <<>> /\ r.fetched = {} /\ r.txn = FALSE /\ r.starts = 0
  BY <1>1, <1>5
<1> QED
  BY <1>3, <1>4, <1>7, <1>8, <1>10, <1>11, <1>12, <1>13

\* Nothing is being crawled: nothing is left to say of crawls.
LEMMA NothingLive ==
  ASSUME NEW st, st \in [Ids -> Nat], run' = [i \in Ids |-> [NoRun EXCEPT !.starts = st[i]]]
  PROVE  /\ run' \in [Ids -> Run] /\ CrawlsHoldPages' /\ CleanIsAlone'
         /\ \A i \in Ids : Starts(i)' = st[i] /\ RunAt(i, "none")'
         /\ Cardinality(LiveJobs)' <= MaxConcurrent
<1>1. ASSUME NEW i \in Ids
      PROVE  /\ run'[i] \in Run /\ RunAt(i, "none")' /\ Starts(i)' = st[i] /\ ~Live(i)'
             /\ Fetched(i)' = {} /\ ~Pending(i)' /\ StepIs(i, "idle")' /\ ~StepIs(i, "ingesting")'
             /\ ~Linking(i)'
  <2>1. PICK n \in Nat : n = st[i]
    OBVIOUS
  <2>2. PICK r : r = [NoRun EXCEPT !.starts = n]
    OBVIOUS
  <2>3. r \in Run /\ r.pc = "none" /\ r.step = "idle" /\ r.starts = n /\ r.store = <<>> /\ r.fetched = {}
        /\ r.txn = FALSE
    BY <2>2, NoRunIs
  <2>4. run'[i] = r
    BY <2>1, <2>2
  <2>5. /\ \A p : RunAt(i, p)' <=> r.pc = p
        /\ Starts(i)' = r.starts /\ (Clean(i)' <=> r.clean) /\ (Kept(i)' <=> r.kept)
        /\ (Pending(i)' <=> r.store # <<>>) /\ Stored(i)' = r.store[1] /\ Fetched(i)' = r.fetched
        /\ \A s : StepIs(i, s)' <=> r.step = s
        /\ (Linking(i)' <=> r.txn) /\ ToLink(i)' = r.graph
    BY <2>3, <2>4, Columns
  <2>6. ~Live(i)'
    BY <2>3, <2>5, LiveIs
  <2> QED
    BY <2>1, <2>3, <2>4, <2>5, <2>6
<1>2. run' \in [Ids -> Run]
  BY <1>1
<1>3. CrawlsHoldPages'
  BY <1>1 DEF CrawlsHoldPages
<1>4. CleanIsAlone'
  BY <1>1 DEF CleanIsAlone
<1>5. LiveJobs' = {}
  BY <1>1 DEF LiveJobs
<1>6. Cardinality(LiveJobs)' <= MaxConcurrent
  BY <1>5, FS_EmptySet, CrawlAssumption
<1> QED
  BY <1>1, <1>2, <1>3, <1>4, <1>6

\* A crash takes the crawls and the calls, and leaves the rows.
LEMMA CrashKeeps ==
  ASSUME CrawlInv, Crash
  PROVE  CrawlInv'
<1>1. /\ CrawlTypeOK /\ KeysAreUnique /\ RowsAreCrawled /\ DocsAreAccepted
      /\ caller \in [Callers -> Caller] /\ run \in [Ids -> Run]
  BY DEF CrawlInv, CrawlTypeOK
<1>2. /\ UNCHANGED <<docs, reader, site, jobs, pages, edges>> /\ process' = "down"
  BY DEF Crash
<1>3. \A i \in Ids : Starts(i) \in Nat
  BY <1>1, RunTypes
<1>4. PICK st \in [Ids -> Nat] : st = [i \in Ids |-> Starts(i)]
  <2>1. [i \in Ids |-> Starts(i)] \in [Ids -> Nat]
    BY <1>3
  <2> QED
    BY <2>1
<1>5. run' = [i \in Ids |-> [NoRun EXCEPT !.starts = st[i]]]
  BY <1>4 DEF Crash, Starts
<1>6. /\ run' \in [Ids -> Run] /\ CrawlsHoldPages' /\ CleanIsAlone'
      /\ \A i \in Ids : Starts(i)' = st[i] /\ RunAt(i, "none")'
      /\ Cardinality(LiveJobs)' <= MaxConcurrent
  BY <1>5, NothingLive
<1>8. ASSUME NEW d \in Callers
      PROVE  /\ caller'[d] \in Caller /\ (CallerAt(d, "done")' <=> CallerAt(d, "done"))
             /\ ~CallerAt(d, "inserted")' /\ ~CallerAt(d, "inserting")'
             /\ (CallerAt(d, "idle")' <=> CallerAt(d, "idle"))
             /\ CallerKey(d)' = CallerKey(d) /\ CallerJob(d)' = CallerJob(d)
  <2>1. PICK r \in Caller : r = caller[d]
    BY <1>1
  <2>2. PICK n : n = IF r.pc \in {"idle", "done"} THEN r ELSE [r EXCEPT !.pc = "failed"]
    OBVIOUS
  <2>3. caller'[d] = n
    BY <1>1, <2>1, <2>2 DEF Crash
  <2>4. /\ n.pc # "inserting" /\ n.pc # "inserted" /\ (n.pc = "done" <=> r.pc = "done")
        /\ (n.pc = "idle" <=> r.pc = "idle")
    BY <2>2 DEF Caller
  <2>5. n.key = r.key /\ n.job = r.job
    BY <2>2 DEF Caller
  <2>6. n \in Caller
    BY <2>2 DEF Caller, CallerPcs
  <2> QED
    BY <2>1, <2>3, <2>4, <2>5, <2>6 DEF CallerAt, CallerKey, CallerJob
<1>7. RowsAreCrawled'
  <2>1. \A i \in Ids : IF i <= Len(jobs) THEN Starts(i)' <= 1 ELSE Starts(i)' = 0 /\ RunAt(i, "none")'
    BY <1>1, <1>4, <1>6 DEF RowsAreCrawled
  <2>2. SpawnsToCome'
    BY <1>8 DEF SpawnsToCome
  <2> QED
    BY <1>2, <1>6, <2>1, <2>2 DEF RowsAreCrawled
<1>9. caller' \in [Callers -> Caller]
  BY <1>8 DEF Crash
<1>10. KeysAreUnique'
  <2>1. \A d \in Past : ~CallerAt(d, "idle")' /\ ~CallerAt(d, "inserting")'
    BY <1>8 DEF Past
  <2>2. Len(jobs)' <= Cardinality(Past)'
    <3>1. /\ Cardinality(Past) \in Nat /\ Cardinality(Past)' \in Nat
          /\ Cardinality(Past) <= Cardinality(Past)'
      BY <2>1, PastGrows
    <3>2. Len(jobs) <= Cardinality(Past) /\ Len(jobs) \in Nat
      BY <1>1, JobsAreIds DEF KeysAreUnique
    <3> QED
      BY <1>2, <3>1, <3>2
  <2>3. \A i, m \in 1 .. Len(jobs) : KeyOf(i)' = KeyOf(m)' /\ KeyOf(i)' # "" => i = m
    BY <1>1, <1>2 DEF KeysAreUnique, KeyOf
  <2>4. ASSUME NEW d \in Callers, HasRow(d)'
        PROVE  CallerJob(d)' \in 1 .. Len(jobs) /\ (KeyOf(CallerJob(d)) = CallerKey(d))'
    <3>1. HasRow(d)
      BY <1>8, <2>4 DEF HasRow
    <3>2. CallerJob(d) \in 1 .. Len(jobs) /\ KeyOf(CallerJob(d)) = CallerKey(d)
      BY <1>1, <3>1 DEF KeysAreUnique
    <3>3. PICK i \in 1 .. Len(jobs) : i = CallerJob(d)
      BY <3>2
    <3>4. CallerJob(d)' = i /\ CallerKey(d)' = CallerKey(d)
      BY <1>8, <3>3
    <3> QED
      BY <1>2, <3>2, <3>3, <3>4 DEF KeyOf
  <2>5. \A d \in Callers : ~CallerAt(d, "idle")' => CallerKey(d)' \in Keys
    BY <1>1, <1>8 DEF KeysAreUnique
  <2> QED
    BY <1>2, <2>2, <2>3, <2>4, <2>5 DEF KeysAreUnique
<1>11. CrawlTypeOK' /\ DocsAreAccepted'
  BY <1>1, <1>2, <1>6, <1>9 DEF CrawlTypeOK, DocsAreAccepted, Accepts
<1> QED
  BY <1>6, <1>7, <1>10, <1>11 DEF CrawlInv

\* A restart fails the rows that no crawl is behind.
LEMMA RestartKeeps ==
  ASSUME CrawlInv, Restart
  PROVE  CrawlInv'
<1>1. /\ CrawlTypeOK /\ KeysAreUnique /\ RowsAreCrawled /\ DocsAreAccepted /\ CrawlsHoldPages /\ CleanIsAlone
      /\ jobs \in Seq(Job) /\ Len(jobs) \in Nat /\ run \in [Ids -> Run]
  BY DEF CrawlInv, CrawlTypeOK
<1>2. /\ UNCHANGED <<docs, reader, site, caller, run, pages, edges, disturbed>> /\ process' = "up"
  BY DEF Restart
<1>3. ASSUME NEW i \in 1 .. Len(jobs)
      PROVE  /\ jobs'[i] \in Job /\ KeyOf(i)' = KeyOf(i) /\ StatusOf(i)' \notin {"queued", "running"}
  <2>1. PICK r \in Job : r = jobs[i]
    BY <1>1
  <2>2. PICK n : n = IF r.status \in Unfinished THEN [r EXCEPT !.status = "failed"] ELSE r
    OBVIOUS
  <2>3. jobs'[i] = n
    BY <2>1, <2>2 DEF Restart
  <2>4. n \in Job /\ n.key = r.key /\ n.status \notin {"queued", "running"}
    BY <2>2 DEF Job, Unfinished
  <2> QED
    BY <2>1, <2>3, <2>4 DEF KeyOf, StatusOf
<1>4. jobs' \in Seq(Job) /\ Len(jobs)' = Len(jobs)
  <2>1. jobs' = [i \in 1 .. Len(jobs) |->
          IF jobs[i].status \in Unfinished THEN [jobs[i] EXCEPT !.status = "failed"] ELSE jobs[i]]
    BY DEF Restart
  <2>2. DOMAIN jobs' = 1 .. Len(jobs)
    BY <2>1
  <2>3. jobs' \in [1 .. Len(jobs) -> Job]
    BY <1>3, <2>1
  <2> QED
    BY <1>1, <2>2, <2>3
<1>5. KeysAreUnique'
  BY <1>1, <1>2, <1>3, <1>4, KeysKept
<1>6. \A i \in Ids : Untouched(i)
  BY <1>2 DEF Untouched, RunAt, Starts, Clean, Kept, Pending, Stored, Fetched, StepIs, Linking, ToLink
<1>7. \A i \in Ids : Live(i)' <=> Live(i)
  BY <1>2 DEF Live
<1>8. RowsAreCrawled'
  <2>1. Cardinality(LiveJobs)' <= MaxConcurrent
    BY <1>1, <1>7, FewerLive
  <2>2. \A i \in Ids : IF i <= Len(jobs) THEN Starts(i)' <= 1 ELSE Starts(i)' = 0 /\ RunAt(i, "none")'
    BY <1>1, <1>6 DEF RowsAreCrawled, Untouched
  <2>3. SpawnsToCome'
    <3>1. SpawnsToCome /\ caller' = caller
      BY <1>1, <1>2 DEF RowsAreCrawled
    <3> QED
      BY <1>1, <1>6, <3>1, SpawnsKept DEF Untouched
  <2> QED
    BY <1>2, <1>3, <1>4, <2>1, <2>2, <2>3 DEF RowsAreCrawled
<1>9. CrawlsHoldPages'
  BY <1>1, <1>6 DEF CrawlsHoldPages, Untouched, Accepts
<1>10. DocsAreAccepted' /\ \A u : Held(u)' <=> Held(u)
  BY <1>1, <1>2 DEF DocsAreAccepted, Accepts, Held
<1>11. CleanIsAlone'
  BY <1>1, <1>2, <1>6, <1>7, <1>10 DEF CleanIsAlone, Untouched
<1>12. CrawlTypeOK'
  BY <1>1, <1>2, <1>4 DEF CrawlTypeOK
<1> QED
  BY <1>5, <1>8, <1>9, <1>10, <1>11, <1>12 DEF CrawlInv

-----------------------------------------------------------------------------
(* The invariant *)

\* CrawlInv holds at first.
LEMMA CrawlInvInit == CrawlInit => CrawlInv
<1> SUFFICES ASSUME CrawlInit PROVE CrawlInv
  OBVIOUS
<1>1. /\ docs = [u \in Urls |-> {}] /\ pages = [u \in Urls |-> {}] /\ edges = [u \in Urls |-> {}]
      /\ site \in [Urls -> Versions] /\ jobs = <<>> /\ run = [j \in Ids |-> NoRun] /\ process = "up"
  BY DEF CrawlInit, KbInit
<1>2. caller = [c \in Callers |-> [pc |-> "idle", key |-> "", job |-> 0]]
  BY DEF CrawlInit
<1>3. ASSUME NEW i \in Ids
      PROVE  /\ run[i] \in Run /\ RunAt(i, "none") /\ Starts(i) = 0 /\ ~Live(i)
             /\ Fetched(i) = {} /\ ~Pending(i) /\ StepIs(i, "idle") /\ ~StepIs(i, "ingesting") /\ ~Linking(i)
  <2>1. run[i] = NoRun
    BY <1>1
  <2>2. /\ NoRun \in Run /\ NoRun.pc = "none" /\ NoRun.step = "idle" /\ NoRun.starts = 0
        /\ NoRun.store = <<>> /\ NoRun.fetched = {} /\ NoRun.txn = FALSE
    BY NoRunIs
  <2>3. RunAt(i, "none") /\ ~Live(i) /\ StepIs(i, "idle") /\ ~StepIs(i, "ingesting")
    BY <2>1, <2>2 DEF RunAt, Live, StepIs
  <2> QED
    BY <2>1, <2>2, <2>3 DEF Starts, Fetched, Pending, Linking
<1>4. ASSUME NEW c \in Callers
      PROVE  /\ caller[c] \in Caller /\ CallerAt(c, "idle") /\ ~CallerAt(c, "done")
             /\ ~CallerAt(c, "inserted")
  <2>1. PICK r : r = [pc |-> "idle", key |-> "", job |-> 0]
    OBVIOUS
  <2>2. r \in Caller /\ r.pc = "idle"
    BY <2>1 DEF Caller, CallerPcs
  <2> QED
    BY <1>2, <2>1, <2>2 DEF CallerAt
<1>5. run \in [Ids -> Run] /\ caller \in [Callers -> Caller]
  BY <1>1, <1>2, <1>3, <1>4
<1>6. jobs \in Seq(Job) /\ Len(jobs) = 0
  BY <1>1
<1>7. CrawlTypeOK
  BY <1>1, <1>5, <1>6 DEF CrawlTypeOK
<1>8. KeysAreUnique
  <2>1. Past = {}
    BY <1>4 DEF Past
  <2>2. Len(jobs) <= Cardinality(Past)
    BY <1>6, <2>1, FS_EmptySet
  <2> QED
    BY <1>4, <1>6, <2>2 DEF KeysAreUnique, HasRow
<1>9. RowsAreCrawled
  <2>1. LiveJobs = {}
    BY <1>3 DEF LiveJobs
  <2>2. Cardinality(LiveJobs) <= MaxConcurrent
    BY <2>1, FS_EmptySet, CrawlAssumption
  <2>3. \A i \in Ids : ~(i <= Len(jobs))
    BY <1>6, IdsFinite DEF Ids
  <2>4. SpawnsToCome
    BY <1>4 DEF SpawnsToCome
  <2> QED
    BY <1>3, <1>6, <2>2, <2>3, <2>4 DEF RowsAreCrawled
<1>10. CrawlsHoldPages /\ CleanIsAlone
  BY <1>3 DEF CrawlsHoldPages, CleanIsAlone
<1>11. DocsAreAccepted
  BY <1>1 DEF DocsAreAccepted
<1> QED
  BY <1>7, <1>8, <1>9, <1>10, <1>11 DEF CrawlInv

\* Every step keeps CrawlInv.
LEMMA CrawlInvKept == CrawlInv /\ [CrawlNext]_crawlVars => CrawlInv'
<1> SUFFICES ASSUME CrawlInv, [CrawlNext]_crawlVars PROVE CrawlInv'
  OBVIOUS
<1>1. site \in [Urls -> Versions]
  BY DEF CrawlInv, CrawlTypeOK
<1>2. ASSUME NEW c \in Callers, NEW k \in Keys, Lookup(c, k) PROVE CrawlInv'
  BY <1>2, LookupKeeps
<1>3. ASSUME NEW c \in Callers, Insert(c) PROVE CrawlInv'
  BY <1>3, InsertKeeps
<1>a. ASSUME NEW c \in Callers, Spawn(c) PROVE CrawlInv'
  BY <1>a, SpawnKeeps
<1>b. ASSUME NEW c \in Callers, Refind(c) PROVE CrawlInv'
  BY <1>b, RefindKeeps
<1>c. ASSUME NEW c \in Callers, SpawnLost(c) PROVE CrawlInv'
  BY <1>c, SpawnLostKeeps
<1>d. ASSUME NEW c \in Callers, CallFails(c) PROVE CrawlInv'
  BY <1>d, CallFailsKeeps
<1>4. ASSUME NEW j \in Ids, Begin(j) PROVE CrawlInv'
  BY <1>4, BeginKeeps
<1>5. ASSUME NEW j \in Ids, NEW u \in Urls, Fetch(j, u) PROVE CrawlInv'
  BY <1>5, FetchKeeps
<1>6. ASSUME NEW j \in Ids, CrawlEnds(j) PROVE CrawlInv'
  BY <1>6, CrawlEndsKeeps
<1>7. ASSUME NEW j \in Ids, SavePage(j) PROVE CrawlInv'
  BY <1>7, SavePageKeeps
<1>8. ASSUME NEW j \in Ids, IngestLooks(j) PROVE CrawlInv'
  BY <1>8, IngestLooksKeeps
<1>9. ASSUME NEW j \in Ids, IngestWrites(j) PROVE CrawlInv'
  BY <1>9, IngestWritesKeeps
<1>10. ASSUME NEW j \in Ids, DeleteEdges(j) PROVE CrawlInv'
  BY <1>10, DeleteEdgesKeeps
<1>11. ASSUME NEW j \in Ids, CommitEdges(j) PROVE CrawlInv'
  BY <1>11, CommitEdgesKeeps
<1>12. ASSUME NEW j \in Ids, Complete(j) PROVE CrawlInv'
  BY <1>12, CompleteKeeps
<1>13. ASSUME NEW u \in Urls, NEW v \in Versions, Edit(u, v) PROVE CrawlInv'
  <2>1. site' \in [Urls -> Versions]
    BY <1>1, <1>13 DEF Edit
  <2> QED
    BY <1>13, <2>1, OthersKeep DEF Edit
<1>14. CASE Crash
  BY <1>14, CrashKeeps
<1>15. CASE Restart
  BY <1>15, RestartKeeps
<1>16. CASE KbNext /\ UNCHANGED <<site, caller, jobs, run, pages, edges, process, disturbed>>
  <2>1. docs' = docs
    BY <1>16 DEF KbNext, Search, ReadDocument, SearchAgain
  <2> QED
    BY <1>1, <1>16, <2>1, OthersKeep
<1>17. CASE UNCHANGED crawlVars
  BY <1>1, <1>17, OthersKeep DEF crawlVars
<1> QED
  BY <1>2, <1>3, <1>4, <1>5, <1>6, <1>7, <1>8, <1>9, <1>10, <1>11, <1>12, <1>13, <1>14, <1>15, <1>16, <1>17,
     <1>a, <1>b, <1>c, <1>d
  DEF CrawlNext

\* CrawlInv is an invariant.
LEMMA CrawlInvHolds == CrawlSpec => []CrawlInv
  BY CrawlInvInit, CrawlInvKept, PTL DEF CrawlSpec

\* One job for a key, one crawl for a job, never more crawls than permits, and no row that says queued
\* or running without a crawl or a call behind it, but for one whose spawn or last status write was
\* lost, for any callers, keys, errors and crashes (jobs.rs create and run, main.rs start_crawl,
\* job_store.rs fail_unfinished).
THEOREM RowsAreTrue == CrawlSpec => []JobRowsTellTheTruth
<1>1. CrawlInv => JobRowsTellTheTruth
  <2> SUFFICES ASSUME CrawlInv PROVE JobRowsTellTheTruth
    OBVIOUS
  <2>1. CrawlTypeOK /\ KeysAreUnique /\ RowsAreCrawled
    BY DEF CrawlInv
  <2>2. ASSUME NEW c \in Callers, NEW d \in Callers, CallerAt(c, "done"), CallerAt(d, "done"),
               CallerKey(c) = CallerKey(d), CallerKey(c) # ""
        PROVE  CallerJob(c) = CallerJob(d)
    BY <2>1, <2>2 DEF KeysAreUnique, HasRow
  <2>3. \A j \in Ids : Starts(j) <= 1
    BY <2>1 DEF RowsAreCrawled
  <2>4. process = "up" => \A j \in 1 .. Len(jobs) :
          StatusOf(j) \in {"queued", "running"} =>
            RunAt(j, "waiting") \/ RunAt(j, "crawling") \/ RunAt(j, "ending") \/ ~Kept(j) \/ AboutToSpawn(j)
    BY <2>1 DEF RowsAreCrawled
  <2>5. Cardinality(LiveJobs) <= MaxConcurrent
    BY <2>1 DEF RowsAreCrawled
  <2>6. \A c, d \in Callers :
          caller[c].pc = "done" /\ caller[d].pc = "done"
            /\ caller[c].key = caller[d].key /\ caller[c].key # ""
            => caller[c].job = caller[d].job
    BY <2>2 DEF CallerAt, CallerKey, CallerJob
  <2>7. \A j \in Ids : run[j].starts <= 1
    BY <2>3 DEF Starts
  <2>8. process = "up" =>
          \A j \in 1 .. Len(jobs) :
            GetCrawlJob(j).status \in {"queued", "running"} =>
              \/ run[j].pc \in {"waiting", "crawling", "ending"} \/ ~run[j].kept
              \/ \E c \in Callers : caller[c].pc = "inserted" /\ caller[c].job = j
    BY <2>4 DEF GetCrawlJob, StatusOf, RunAt, Kept, AboutToSpawn, CallerAt, CallerJob
  <2> QED
    BY <2>5, <2>6, <2>7, <2>8 DEF JobRowsTellTheTruth
<1> QED
  BY <1>1, CrawlInvHolds, PTL

-----------------------------------------------------------------------------
(* The hand-off *)

\* Only Complete makes a row done.
LEMMA DoneIsCompleted ==
  ASSUME CrawlInv, CrawlNext, NEW k \in 1 .. Len(jobs), StatusOf(k) # "done", StatusOf(k)' = "done"
  PROVE  Complete(k)
<1>1. jobs \in Seq(Job) /\ CrawlTypeOK /\ RowsAreCrawled /\ KeysAreUnique
  BY DEF CrawlInv, CrawlTypeOK
<1>2. jobs' # jobs
  BY DEF StatusOf
<1>3. ASSUME NEW c \in Callers, Insert(c) PROVE FALSE
  <2>1. PICK kk \in Keys : kk = CallerKey(c)
    <3>1. ~CallerAt(c, "idle")
      BY <1>3 DEF Insert, CallerAt
    <3> QED
      BY <1>1, <3>1 DEF KeysAreUnique
  <2>2. PICK m \in Nat : m = Len(jobs) + 1
    BY <1>1
  <2>3. jobs' = Append(jobs, NewJob(kk))
    BY <1>2, <1>3, <2>1 DEF Insert, CallerKey
  <2>4. jobs \in Seq(Job)
    BY <1>1
  <2>5. \A i \in 1 .. Len(jobs) : KeyOf(i)' = KeyOf(i) /\ StatusOf(i)' = StatusOf(i)
    BY <2>2, <2>3, <2>4, RowAdded
  <2> QED
    BY <2>5
<1>4. ASSUME NEW j \in Ids, Begin(j) PROVE FALSE
  <2>1. ~RunAt(j, "none")
    BY <1>4 DEF Begin, RunAt
  <2>2. j \in 1 .. Len(jobs) /\ jobs \in Seq(Job)
    BY <2>1, BegunIsARow
  <2>3. PICK s \in {"queued", "running", "done", "failed"} : s = "running"
    OBVIOUS
  <2>4. jobs' = [jobs EXCEPT ![j].status = s]
    BY <1>2, <1>4, <2>3 DEF Begin
  <2>5. \A i \in 1 .. Len(jobs) : StatusOf(i)' = IF i = j THEN s ELSE StatusOf(i)
    BY <2>2, <2>4, StatusWritten
  <2> QED
    BY <2>3, <2>5
<1>5. ASSUME NEW j \in Ids, SavePage(j) PROVE FALSE
  <2>1. ~RunAt(j, "none")
    BY <1>5, LiveIs DEF SavePage, RunAt
  <2>2. j \in 1 .. Len(jobs) /\ jobs \in Seq(Job)
    BY <2>1, BegunIsARow
  <2>3. jobs' = Counted(j)
    BY <1>2, <1>5 DEF SavePage
  <2>4. \A i \in 1 .. Len(jobs) : KeyOf(i)' = KeyOf(i) /\ StatusOf(i)' = StatusOf(i)
    BY <2>2, <2>3, RowCounted
  <2> QED
    BY <2>4
<1>6. ASSUME NEW j \in Ids, Complete(j) PROVE j = k
  <2>1. ~RunAt(j, "none")
    BY <1>6 DEF Complete, RunAt
  <2>2. j \in 1 .. Len(jobs) /\ jobs \in Seq(Job)
    BY <2>1, BegunIsARow
  <2>3. PICK s \in {"queued", "running", "done", "failed"} : s = Outcome(j)
    BY DEF Outcome
  <2>4. jobs' = [jobs EXCEPT ![j].status = s]
    BY <1>2, <1>6, <2>3 DEF Complete
  <2>5. \A i \in 1 .. Len(jobs) : StatusOf(i)' = IF i = j THEN s ELSE StatusOf(i)
    BY <2>2, <2>4, StatusWritten
  <2> QED
    BY <2>5
<1>7. ASSUME Restart PROVE FALSE
  <2>1. PICK r \in Job : r = jobs[k]
    BY <1>1
  <2>2. jobs'[k] = IF r.status \in Unfinished THEN [r EXCEPT !.status = "failed"] ELSE r
    BY <1>7, <2>1 DEF Restart
  <2>3. jobs'[k].status # "done"
    BY <2>1, <2>2 DEF StatusOf, Job
  <2> QED
    BY <2>3 DEF StatusOf
<1>8. ASSUME NEW j \in Ids,
             CrawlEnds(j) \/ IngestLooks(j) \/ IngestWrites(j) \/ DeleteEdges(j) \/ CommitEdges(j)
      PROVE  FALSE
  BY <1>2, <1>8 DEF CrawlEnds, IngestLooks, IngestWrites, DeleteEdges, CommitEdges
<1>9. ASSUME NEW j \in Ids, NEW u \in Urls, Fetch(j, u) PROVE FALSE
  BY <1>2, <1>9 DEF Fetch
<1>10. ASSUME NEW c \in Callers, NEW x \in Keys, Lookup(c, x) PROVE FALSE
  BY <1>2, <1>10 DEF Lookup
<1>a. ASSUME NEW c \in Callers, Spawn(c) \/ Refind(c) \/ SpawnLost(c) \/ CallFails(c) PROVE FALSE
  BY <1>2, <1>a DEF Spawn, Refind, SpawnLost, CallFails
<1>11. ASSUME NEW u \in Urls, NEW v \in Versions, Edit(u, v) PROVE FALSE
  BY <1>2, <1>11 DEF Edit
<1>12. ~Crash
  BY <1>2 DEF Crash
<1> QED
  BY <1>2, <1>3, <1>4, <1>5, <1>6, <1>7, <1>8, <1>9, <1>10, <1>11, <1>12, <1>a DEF CrawlNext

\* A crawl that ran alone and met no failure has left the knowledge base holding what it stored, for
\* any site, edits and earlier failures (jobs.rs ingest_stored_page, complete_job).
THEOREM HandOffsHeal == CrawlSpec => HandOffHeals
<1> DEFINE Heals ==
      \A j \in 1 .. Len(jobs) :
        jobs[j].status # "done" /\ jobs'[j].status = "done" /\ run[j].clean =>
          \A u \in run[j].fetched : docs[u] = pages[u] \/ \E v \in pages[u] : ~Accepts(v)
<1>1. CrawlInv /\ [CrawlNext]_crawlVars => [Heals]_crawlVars
  <2> SUFFICES ASSUME CrawlInv, CrawlNext, NEW j \in 1 .. Len(jobs), jobs[j].status # "done",
                      jobs'[j].status = "done", run[j].clean, NEW u \in run[j].fetched
               PROVE  docs[u] = pages[u] \/ \E v \in pages[u] : ~Accepts(v)
    OBVIOUS
  <2>1. StatusOf(j) # "done" /\ StatusOf(j)' = "done"
    BY DEF StatusOf
  <2>2. Complete(j)
    BY <2>1, DoneIsCompleted
  <2>3. j \in Ids /\ CleanIsAlone
    <3>1. CrawlTypeOK /\ KeysAreUnique /\ CleanIsAlone
      BY DEF CrawlInv
    <3> QED
      BY <3>1, JobsAreIds
  <2>4. Live(j) /\ ~Pending(j)
    BY <2>2 DEF Complete, Live, Pending
  <2>5. Clean(j) /\ u \in Fetched(j)
    BY DEF Clean, Fetched
  <2>6. Held(u)
    BY <2>3, <2>4, <2>5 DEF CleanIsAlone
  <2> QED
    BY <2>6 DEF Held
<1> QED
  BY <1>1, CrawlInvHolds, PTL DEF CrawlSpec, HandOffHeals

-----------------------------------------------------------------------------
(* Reading page by page *)

\* The pages of a version, in order.
LEMMA ContentIs ==
  ASSUME NEW v \in Versions
  PROVE  /\ Content(v) \in Seq(Versions \X Nat) /\ Len(Content(v)) = Size[v] /\ Size[v] \in Nat
         /\ \A i \in 1 .. Size[v] : Content(v)[i] = <<v, i>>
<1>1. Size[v] \in Nat
  BY VersionsAssumption
<1>2. PICK n \in Nat : n = Size[v]
  BY <1>1
<1>3. \A i \in 1 .. n : <<v, i>> \in Versions \X Nat
  OBVIOUS
<1>4. Content(v) = [i \in 1 .. n |-> <<v, i>>]
  BY <1>2 DEF Content
<1>5. Content(v) \in [1 .. n -> Versions \X Nat] /\ DOMAIN Content(v) = 1 .. n
  BY <1>3, <1>4
<1>6. Content(v) \in Seq(Versions \X Nat) /\ Len(Content(v)) = n
  BY <1>5
<1> QED
  BY <1>2, <1>4, <1>6

\* One page from the cursor of a version that has more.
LEMMA OnePage ==
  ASSUME NEW v \in Versions, NEW a \in Nat, a < Size[v]
  PROVE  /\ Min({a + 1, Len(Content(v))}) = a + 1
         /\ SubSeq(Content(v), a + 1, a + 1) \in Seq(Versions \X Nat)
         /\ Len(SubSeq(Content(v), a + 1, a + 1)) = 1
         /\ SubSeq(Content(v), a + 1, a + 1)[1] = <<v, a + 1>>
<1>1. /\ Content(v) \in Seq(Versions \X Nat) /\ Len(Content(v)) = Size[v] /\ Size[v] \in Nat
      /\ \A i \in 1 .. Size[v] : Content(v)[i] = <<v, i>>
  BY ContentIs
<1>2. PICK b \in Nat : b = a + 1
  OBVIOUS
<1>3. b \in 1 .. Size[v] /\ b <= Size[v]
  BY <1>1, <1>2
<1>4. Min({b, Size[v]}) = b
  BY <1>1, <1>3 DEF Min
<1>5. \A i \in b .. b : Content(v)[i] \in Versions \X Nat
  BY <1>1, <1>3
<1>6. PICK S, s : S = Versions \X Nat /\ s = Content(v)
  OBVIOUS
<1>7. b \in Int /\ \A i \in b .. b : s[i] \in S
  BY <1>5, <1>6
<1>8. /\ SubSeq(s, b, b) \in Seq(S) /\ Len(SubSeq(s, b, b)) = (IF b <= b THEN b - b + 1 ELSE 0)
      /\ \A i \in 1 .. b - b + 1 : SubSeq(s, b, b)[i] = s[b + i - 1]
  BY <1>7, SubSeqProperties
<1>9. /\ SubSeq(Content(v), b, b) \in Seq(Versions \X Nat)
      /\ Len(SubSeq(Content(v), b, b)) = (IF b <= b THEN b - b + 1 ELSE 0)
      /\ \A i \in 1 .. b - b + 1 : SubSeq(Content(v), b, b)[i] = Content(v)[b + i - 1]
  BY <1>6, <1>8
<1>10. Len(SubSeq(Content(v), b, b)) = 1 /\ SubSeq(Content(v), b, b)[1] = Content(v)[b]
  BY <1>9
<1> QED
  BY <1>1, <1>2, <1>3, <1>4, <1>9, <1>10


\* The reader after one of its steps.
LEMMA ReaderIs ==
  ASSUME NEW r \in Reader, reader' = r
  PROVE  /\ reader' \in Reader /\ (\A p : ReaderAt(p)' <=> r.pc = p)
         /\ OfUrl' = r.url /\ OfVersion' = r.version /\ Cursor' = r.at /\ Got' = r.got
  BY DEF ReaderAt, OfUrl, OfVersion, Cursor, Got

\* A search starts a reader at the first page of the one version there is.
LEMMA SearchReads ==
  ASSUME CrawlInv, NEW u \in Urls, Search(u)
  PROVE  ReadsInOrder'
<1>1. PICK v \in Versions : docs[u] = {v} /\ Accepts(v)
  BY DEF CrawlInv, DocsAreAccepted, Search
<1>2. PICK p \in ReaderPcs, q \in Seq(Versions \X Nat) : p = "reading" /\ q = <<>>
  <2>1. "reading" \in ReaderPcs
    BY DEF ReaderPcs
  <2>2. <<>> \in Seq(Versions \X Nat)
    OBVIOUS
  <2> QED
    BY <2>1, <2>2
<1>3. PICK r : r = [pc |-> p, url |-> u, version |-> v, at |-> 0, got |-> q]
  OBVIOUS
<1>4. reader' = r
  BY <1>1, <1>2, <1>3 DEF Search
<1>5. r \in Reader
  BY <1>3 DEF Reader
<1>6. r.pc = p /\ r.url = u /\ r.version = v /\ r.at = 0 /\ r.got = q
  BY <1>3
<1>7. /\ reader' \in Reader /\ (\A x : ReaderAt(x)' <=> r.pc = x)
      /\ OfUrl' = r.url /\ OfVersion' = r.version /\ Cursor' = r.at /\ Got' = r.got
  BY <1>4, <1>5, ReaderIs
<1>8. ~ReaderAt("whole")' /\ ~ReaderAt("idle")'
  BY <1>2, <1>6, <1>7
<1>9. OfUrl' \in Urls /\ OfVersion' = v /\ Accepts(v) /\ Accepts(OfVersion)'
  BY <1>1, <1>6, <1>7 DEF Accepts
<1>10. Cursor' = 0 /\ Len(Got)' = 0 /\ 0 < Size[v] /\ 0 <= Size[v]
  <2>1. Size[v] \in Nat
    BY VersionsAssumption
  <2>2. Len(q) = 0
    BY <1>2
  <2>3. 0 < Size[v]
    BY <1>1, <2>1, VersionsAssumption DEF Accepts
  <2> QED
    BY <1>6, <1>7, <2>1, <2>2, <2>3
<1>11. \A i \in 1 .. Cursor' : (Got[i])' = <<OfVersion', i>>
  BY <1>10
<1> QED
  BY <1>7, <1>8, <1>9, <1>10, <1>11 DEF ReadsInOrder

\* A read goes on from its cursor in the version it started with, or says that it changed.
LEMMA ReadDocumentReads ==
  ASSUME CrawlInv, ReadsInOrder, ReadDocument
  PROVE  ReadsInOrder'
<1>1. PICK r \in Reader : r = reader
  BY DEF ReadsInOrder
<1>2. r.at \in Nat /\ r.got \in Seq(Versions \X Nat)
  BY DEF Reader
<1>3. ReaderAt("reading") /\ ~ReaderAt("idle")
  BY DEF ReadDocument, ReaderAt
<1>4. /\ OfUrl \in Urls /\ OfVersion \in Versions /\ Accepts(OfVersion)
      /\ Len(Got) = Cursor /\ Cursor < Size[OfVersion]
      /\ \A i \in 1 .. Cursor : Got[i] = <<OfVersion, i>>
  BY <1>3 DEF ReadsInOrder
<1>5. PICK u \in Urls, v \in Versions, a \in Nat, g \in Seq(Versions \X Nat) :
        u = r.url /\ v = r.version /\ a = r.at /\ g = r.got
  BY <1>1, <1>2, <1>4 DEF OfUrl, OfVersion
<1>6. /\ Accepts(v) /\ Len(g) = a /\ a < Size[v] /\ \A i \in 1 .. a : g[i] = <<v, i>>
  BY <1>1, <1>4, <1>5 DEF OfVersion, Cursor, Got
<1>7. Size[v] \in Nat
  BY VersionsAssumption
<1>8. ASSUME NEW p \in ReaderPcs, NEW b \in Nat, NEW h \in Seq(Versions \X Nat),
             reader' = [r EXCEPT !.got = h, !.at = b, !.pc = p], p # "idle",
             Len(h) = b, b <= Size[v], \A i \in 1 .. b : h[i] = <<v, i>>,
             p = "reading" => b < Size[v], p = "whole" => b = Size[v]
      PROVE  ReadsInOrder'
  <2>1. PICK n : n = [r EXCEPT !.got = h, !.at = b, !.pc = p]
    OBVIOUS
  <2>2. n \in Reader
    BY <2>1 DEF Reader
  <2>3. n.pc = p /\ n.url = r.url /\ n.version = r.version
    BY <2>1 DEF Reader
  <2>4. n.at = b /\ n.got = h
    BY <2>1 DEF Reader
  <2>5. reader' = n
    BY <1>8, <2>1
  <2>6. /\ reader' \in Reader /\ (\A x : ReaderAt(x)' <=> n.pc = x)
        /\ OfUrl' = n.url /\ OfVersion' = n.version /\ Cursor' = n.at /\ Got' = n.got
    BY <2>2, <2>5, ReaderIs
  <2>7. OfUrl' = u /\ OfVersion' = v /\ Cursor' = b /\ Got' = h /\ \A x : ReaderAt(x)' <=> p = x
    BY <1>5, <2>3, <2>4, <2>6
  <2>8. Accepts(OfVersion)'
    BY <1>6, <2>7 DEF Accepts
  <2> QED
    BY <1>8, <2>6, <2>7, <2>8 DEF ReadsInOrder
<1>9. CASE ~SameVersion(u, v)
  <2>1. PICK p \in ReaderPcs : p = "changed"
    BY DEF ReaderPcs
  <2>2. reader' = [r EXCEPT !.pc = p]
    BY <1>1, <1>5, <1>9, <2>1 DEF ReadDocument
  <2>3. [r EXCEPT !.pc = p] = [r EXCEPT !.got = g, !.at = a, !.pc = p]
    BY <1>5 DEF Reader
  <2>4. reader' = [r EXCEPT !.got = g, !.at = a, !.pc = p]
    BY <2>2, <2>3
  <2>5. p # "idle" /\ (p = "reading" => a < Size[v]) /\ (p = "whole" => a = Size[v])
    BY <2>1
  <2>6. Len(g) = a /\ a <= Size[v] /\ \A i \in 1 .. a : g[i] = <<v, i>>
    BY <1>6, <1>7
  <2> QED
    BY <1>8, <2>4, <2>5, <2>6
<1>10. CASE SameVersion(u, v)
  <2>1. docs[u] = {v}
    BY <1>10 DEF SameVersion, CrawlInv, DocsAreAccepted
  <2>2. (CHOOSE x \in docs[u] : TRUE) = v
    BY <2>1
  <2>3. /\ Min({a + 1, Len(Content(v))}) = a + 1
        /\ SubSeq(Content(v), a + 1, a + 1) \in Seq(Versions \X Nat)
        /\ Len(SubSeq(Content(v), a + 1, a + 1)) = 1
        /\ SubSeq(Content(v), a + 1, a + 1)[1] = <<v, a + 1>>
    BY <1>6, OnePage
  <2>4. Len(Content(v)) = Size[v]
    BY ContentIs
  <2>5. PICK b \in Nat : b = a + 1
    OBVIOUS
  <2>s. PICK s \in Seq(Versions \X Nat) : s = SubSeq(Content(v), b, b)
    <3>1. SubSeq(Content(v), b, b) \in Seq(Versions \X Nat)
      BY <2>3, <2>5
    <3> QED
      BY <3>1
  <2>6. PICK p \in ReaderPcs : p = IF b < Size[v] THEN "reading" ELSE "whole"
    BY DEF ReaderPcs
  <2>7. ~(a > Size[v])
    BY <1>6, <1>7
  <2>8. reader' = [reader EXCEPT !.got = reader.got \o s, !.at = b,
                                 !.pc = IF reader.at + 1 < Len(Content(v)) THEN "reading" ELSE "whole"]
    <3>1. PICK c, m : c = Content(v) /\ m = Min({reader.at + 1, Len(Content(v))})
      OBVIOUS
    <3>2. m = b /\ SubSeq(c, reader.at + 1, m) = s
      BY <1>1, <1>5, <2>3, <2>5, <2>s, <3>1
    <3>3. SameVersion(reader.url, reader.version) /\ ~(reader.at > Len(c))
      BY <1>1, <1>5, <1>10, <2>4, <2>7, <3>1
    <3>4. Content(CHOOSE x \in docs[reader.url] : TRUE) = c
      BY <1>1, <1>5, <2>2, <3>1
    <3>5. reader' = [reader EXCEPT !.got = reader.got \o SubSeq(c, reader.at + 1, Min({reader.at + 1, Len(c)})),
                                   !.at = Min({reader.at + 1, Len(c)}),
                                   !.pc = IF reader.at + 1 < Len(c) THEN "reading" ELSE "whole"]
      BY <3>3, <3>4 DEF ReadDocument
    <3> QED
      BY <3>1, <3>2, <3>5
  <2>9. PICK h : h = g \o s
    OBVIOUS
  <2>10. reader' = [r EXCEPT !.got = h, !.at = b, !.pc = p]
    BY <1>1, <1>5, <2>4, <2>5, <2>6, <2>8, <2>9
  <2>11. /\ h \in Seq(Versions \X Nat) /\ Len(h) = a + 1
         /\ \A i \in 1 .. a + 1 : h[i] = IF i <= a THEN g[i] ELSE s[i - a]
    <3>1. PICK S : S = Versions \X Nat
      OBVIOUS
    <3>2. g \in Seq(S) /\ s \in Seq(S) /\ Len(g) = a /\ Len(s) = 1
      BY <1>6, <2>3, <2>5, <2>s, <3>1
    <3>3. /\ g \o s \in Seq(S) /\ Len(g \o s) = Len(g) + Len(s)
          /\ \A i \in 1 .. Len(g) + Len(s) : (g \o s)[i] = IF i <= Len(g) THEN g[i] ELSE s[i - Len(g)]
      BY <3>2, ConcatProperties
    <3> QED
      BY <2>9, <3>1, <3>2, <3>3
  <2>12. b <= Size[v] /\ Len(h) = b /\ (b < Size[v] \/ b = Size[v])
    BY <1>6, <1>7, <2>5, <2>11
  <2>13. \A i \in 1 .. b : h[i] = <<v, i>>
    <3>1. ASSUME NEW i \in 1 .. b, i <= a PROVE h[i] = <<v, i>>
      BY <1>6, <2>5, <2>11, <3>1
    <3>2. h[b] = <<v, b>>
      <4>1. h[b] = s[b - a] /\ b - a = 1
        BY <2>5, <2>11
      <4> QED
        BY <2>3, <2>5, <2>s, <4>1
    <3>3. \A i \in 1 .. b : i <= a \/ i = b
      BY <2>5
    <3> QED
      BY <3>1, <3>2, <3>3
  <2> QED
    BY <1>8, <2>6, <2>10, <2>11, <2>12, <2>13
<1> QED
  BY <1>9, <1>10

\* No reader is well formed.
LEMMA NoReaderIs == NoReader \in Reader /\ NoReader.pc = "idle"
<1>1. PICK p \in ReaderPcs, q \in Seq(Versions \X Nat), u \in Urls \cup {"none"}, v \in Versions \cup {"none"} :
        p = "idle" /\ q = <<>> /\ u = "none" /\ v = "none"
  <2>1. "idle" \in ReaderPcs
    BY DEF ReaderPcs
  <2>2. <<>> \in Seq(Versions \X Nat)
    OBVIOUS
  <2> QED
    BY <2>1, <2>2
<1>2. PICK r : r = [pc |-> p, url |-> u, version |-> v, at |-> 0, got |-> q]
  OBVIOUS
<1>3. r \in Reader
  BY <1>2 DEF Reader
<1>4. r = NoReader /\ r.pc = p
  BY <1>1, <1>2 DEF NoReader
<1> QED
  BY <1>1, <1>3, <1>4

\* Every step keeps ReadsInOrder.
LEMMA ReadsKept == CrawlInv /\ ReadsInOrder /\ [CrawlNext]_crawlVars => ReadsInOrder'
<1> SUFFICES ASSUME CrawlInv, ReadsInOrder, [CrawlNext]_crawlVars PROVE ReadsInOrder'
  OBVIOUS
<1>1. CASE reader' = reader
  BY <1>1 DEF ReadsInOrder, ReaderAt, OfUrl, OfVersion, Cursor, Got, Accepts
<1>2. ASSUME NEW u \in Urls, Search(u) PROVE ReadsInOrder'
  BY <1>2, SearchReads
<1>3. CASE ReadDocument
  BY <1>3, ReadDocumentReads
<1>4. CASE reader' = NoReader
  <2>1. PICK r \in Reader : r = NoReader /\ r.pc = "idle"
    BY NoReaderIs
  <2>2. reader' = r
    BY <1>4, <2>1
  <2>3. reader' \in Reader /\ \A p : ReaderAt(p)' <=> r.pc = p
    BY <2>2, ReaderIs
  <2>4. ReaderAt("idle")' /\ ~ReaderAt("reading")' /\ ~ReaderAt("whole")'
    BY <2>1, <2>3
  <2> QED
    BY <2>3, <2>4 DEF ReadsInOrder
<1>5. \/ reader' = reader \/ (\E u \in Urls : Search(u)) \/ ReadDocument \/ reader' = NoReader
  BY DEF CrawlNext, crawlVars, KbNext, SearchAgain, Lookup, Insert, Spawn, Refind, SpawnLost, CallFails,
         Begin, Fetch, CrawlEnds, SavePage,
         IngestLooks, IngestWrites, DeleteEdges, CommitEdges, Complete, Edit, Crash, Restart
<1> QED
  BY <1>1, <1>2, <1>3, <1>4, <1>5

\* ReadsInOrder is an invariant.
LEMMA ReadsAreInOrder == CrawlSpec => []ReadsInOrder
<1>1. CrawlInit => ReadsInOrder
  <2> SUFFICES ASSUME CrawlInit PROVE ReadsInOrder
    OBVIOUS
  <2>1. reader = NoReader /\ NoReader \in Reader /\ NoReader.pc = "idle"
    BY NoReaderIs DEF CrawlInit, KbInit
  <2>2. ReaderAt("idle") /\ ~ReaderAt("reading") /\ ~ReaderAt("whole")
    BY <2>1 DEF ReaderAt
  <2> QED
    BY <2>1, <2>2 DEF ReadsInOrder
<1> QED
  BY <1>1, CrawlInvHolds, ReadsKept, PTL DEF CrawlSpec

\* What an agent put together page by page is one version of the document, and the whole of it at the
\* end, while any crawls replace documents under it (read.rs run, store.rs upsert).
THEOREM ReadersSeeOneVersion == CrawlSpec => []ReadsOneVersion
<1>1. ReadsInOrder => ReadsOneVersion
  <2> SUFFICES ASSUME ReadsInOrder PROVE ReadsOneVersion
    OBVIOUS
  <2>1. ASSUME ~ReaderAt("idle")
        PROVE  /\ Got = SubSeq(Content(OfVersion), 1, Len(Got))
               /\ ReaderAt("whole") => Got = Content(OfVersion)
    <3>1. reader \in Reader
      BY DEF ReadsInOrder
    <3>2. Got \in Seq(Versions \X Nat)
      BY <3>1 DEF Reader, Got
    <3>3. Cursor \in Nat
      BY <3>1 DEF Reader, Cursor
    <3>a. PICK n \in Nat : n = Cursor
      BY <3>3
    <3>4. PICK S, g, v : S = Versions \X Nat /\ g = Got /\ v = OfVersion
      OBVIOUS
    <3>5. /\ g \in Seq(S) /\ Len(g) = n /\ n <= Size[v] /\ v \in Versions
          /\ \A i \in 1 .. n : g[i] = <<v, i>>
      BY <2>1, <3>2, <3>4, <3>a DEF ReadsInOrder
    <3>6. /\ Content(v) \in Seq(S) /\ Len(Content(v)) = Size[v] /\ Size[v] \in Nat
          /\ \A i \in 1 .. Size[v] : Content(v)[i] = <<v, i>>
      BY <3>4, <3>5, ContentIs
    <3>7. PICK s : s = Content(v)
      OBVIOUS
    <3>8. \A i \in 1 .. n : s[i] \in S
      BY <3>5, <3>6, <3>7
    <3>9. /\ SubSeq(s, 1, n) \in Seq(S) /\ Len(SubSeq(s, 1, n)) = (IF 1 <= n THEN n - 1 + 1 ELSE 0)
          /\ \A i \in 1 .. n - 1 + 1 : SubSeq(s, 1, n)[i] = s[1 + i - 1]
      BY <3>8, SubSeqProperties
    <3>10. Len(SubSeq(s, 1, n)) = n
      BY <3>9
    <3>11. \A i \in 1 .. n : SubSeq(s, 1, n)[i] = g[i]
      <4>1. ASSUME NEW i \in 1 .. n PROVE SubSeq(s, 1, n)[i] = s[i]
        <5>1. i \in 1 .. n - 1 + 1 /\ 1 + i - 1 = i
          OBVIOUS
        <5> QED
          BY <3>9, <5>1
      <4>2. \A i \in 1 .. n : s[i] = <<v, i>>
        BY <3>5, <3>6, <3>7
      <4> QED
        BY <3>5, <4>1, <4>2
    <3>12. PICK t \in Seq(S) : t = SubSeq(s, 1, n)
      BY <3>9
    <3>13. g = t
      <4>1. g \in Seq(S) /\ Len(g) = Len(t) /\ \A i \in 1 .. Len(g) : g[i] = t[i]
        BY <3>5, <3>10, <3>11, <3>12
      <4> QED
        BY <4>1, SeqEqual
    <3>14. ASSUME n = Size[v] PROVE g = s
      <4>1. g \in Seq(S) /\ s \in Seq(S) /\ Len(g) = Len(s) /\ \A i \in 1 .. Len(g) : g[i] = s[i]
        BY <3>5, <3>6, <3>7, <3>14
      <4> QED
        BY <4>1, SeqEqual
    <3>15. ReaderAt("whole") => n = Size[v]
      BY <3>4, <3>a DEF ReadsInOrder
    <3> QED
      BY <3>4, <3>5, <3>7, <3>12, <3>13, <3>14, <3>15
  <2>2. ReaderAt("whole") => ~ReaderAt("idle")
    BY DEF ReaderAt
  <2> QED
    BY <2>1, <2>2 DEF ReadsOneVersion, ReaderAt, OfVersion, Got
<1> QED
  BY <1>1, ReadsAreInOrder, PTL
=============================================================================
