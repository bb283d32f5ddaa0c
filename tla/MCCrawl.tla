------------------------------ MODULE MCCrawl ------------------------------
(***************************************************************************)
(* Three instances of CrawlJobs: two crawls in turn of a site that         *)
(* changes, and an agent that reads; two crawls of one page at once; and   *)
(* the rows of three submissions with and without a key, whose crawls      *)
(* store nothing.  The site has a version of each kind the store tells     *)
(* apart: two ordinary ones with different links, and one with no text.    *)
(***************************************************************************)
EXTENDS CrawlJobs

VARIABLE part

MCSize == [v \in Versions |-> CASE v = "v1" -> 1 [] v = "v2" -> 2 [] OTHER -> 0]

MCLinks == [v \in Versions |-> CASE v = "v1" -> {"x"} [] v = "v2" -> {"y"} [] OTHER -> {}]

MCInit ==
  /\ CrawlInit
  /\ part \in {"turns", "overlap", "rows"}
  /\ site["a"] = "v1"   \* and b has any

\* How many submit, and whether with a key.
Submit(n, keys) ==
  /\ Cardinality({c \in Callers : caller[c].pc # "idle"}) <= n
  /\ \A c \in Callers : caller[c].key \in keys

MCNext ==
  /\ part' = part
  /\ CrawlNext
  /\ \/ part = "turns" /\ Submit(2, {""})' /\ Cardinality(LiveJobs') <= 1
     \/ /\ part = "overlap" /\ Submit(2, {""})' /\ reader' = reader
        /\ \A j \in Ids : run'[j].fetched \subseteq {"a"} /\ run'[j].emitted <= 1
     \/ /\ part = "rows" /\ UNCHANGED <<docs, reader, site, pages, edges>>
        /\ \A j \in Ids : run'[j].store = <<>> /\ run'[j].graph = <<>>

MCSpec == MCInit /\ [][MCNext]_<<part, crawlVars>>

MCSymmetry == Permutations(Callers)
=============================================================================
