--------------------------- MODULE KnowledgeBase ---------------------------
(***************************************************************************)
(* The document store of the knowledge base: what Ingest keeps of a page   *)
(* and what an agent reads back page by page while documents are replaced. *)
(* A version of a page stands for its content and so for its hash; its     *)
(* size is in read pages, 0 for a page with no text and more than          *)
(* MaxContent for one over the 200,000 character limit.                    *)
(***************************************************************************)
EXTENDS Integers, Sequences, FiniteSets, SequencesExt

CONSTANTS
  Urls,        \* pages of the crawled site
  Versions,    \* contents a page may have
  Size,        \* [Versions -> Nat]
  MaxContent   \* the longest content Ingest takes, in read pages

ASSUME VersionsAssumption == Size \in [Versions -> Nat] /\ MaxContent \in Nat

VARIABLES
  docs,     \* [Urls -> set of at most one version]: documents, with their passages
  reader    \* an agent between two ReadDocument calls

kbVars == <<docs, reader>>

Content(v) == [i \in 1 .. Size[v] |-> <<v, i>>]

NoReader == [pc |-> "idle", url |-> "none", version |-> "none", at |-> 0, got |-> <<>>]

KbInit == docs = [u \in Urls |-> {}] /\ reader = NoReader

(***************************************************************************)
(* Ingest                                                                  *)
(***************************************************************************)

\* service.rs validate: content must be there and within the limit.
Accepts(v) == Size[v] \in 1 .. MaxContent

\* ingest.rs run: content whose hash is already stored costs nothing.
Skips(u, v) == v \in docs[u]

\* store.rs upsert: document and passages replaced in one transaction.
Upsert(u, v) == docs' = [docs EXCEPT ![u] = {v}]

(***************************************************************************)
(* Search and ReadDocument                                                 *)
(***************************************************************************)

\* A search names the document and the version whose passage it returns.
Search(u) ==
  /\ reader.pc = "idle" /\ docs[u] # {}
  /\ reader' = [pc |-> "reading", url |-> u, version |-> CHOOSE v \in docs[u] : TRUE,
                at |-> 0, got |-> <<>>]
  /\ UNCHANGED docs

\* A slip in read.rs: the cursor is trusted without the version.
SameVersionAny(u, v) == TRUE

\* read.rs run: the document must still be the version the reference names.
SameVersion(u, v) == v \in docs[u]

\* read.rs run: one page from the cursor, and the next cursor while there is more.
ReadDocument ==
  /\ reader.pc = "reading"
  /\ IF ~SameVersion(reader.url, reader.version)
     THEN reader' = [reader EXCEPT !.pc = "changed"]
     ELSE LET content == Content(CHOOSE v \in docs[reader.url] : TRUE)
          IN IF reader.at > Len(content)
             THEN reader' = [reader EXCEPT !.pc = "past the end"]
             ELSE reader' = [reader EXCEPT
                    !.got = @ \o SubSeq(content, reader.at + 1, Min({reader.at + 1, Len(content)})),
                    !.at = Min({reader.at + 1, Len(content)}),
                    !.pc = IF reader.at + 1 < Len(content) THEN "reading" ELSE "whole"]
  /\ UNCHANGED docs

\* An agent told the document changed searches again.
SearchAgain ==
  /\ reader.pc \in {"changed", "past the end"}
  /\ reader' = NoReader /\ UNCHANGED docs

KbNext == (\E u \in Urls : Search(u)) \/ ReadDocument \/ SearchAgain

\* What an agent has put together from the pages of one reference is one version, never a mix of
\* two (README "silently combining passages from different document versions"), and the whole of it
\* once no cursor is left.
ReadsOneVersion ==
  /\ reader.pc # "idle" =>
       reader.got = SubSeq(Content(reader.version), 1, Len(reader.got))
  /\ reader.pc = "whole" => reader.got = Content(reader.version)
=============================================================================
