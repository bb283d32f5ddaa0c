----------------------------- MODULE Retrieval -----------------------------
(***************************************************************************)
(* The algorithms behind a lookup, each beside what it is meant to         *)
(* compute: the walk over page links, the fusion of three rankings, and    *)
(* the cutting of a text into passages.  A question is one input of one of *)
(* them; it is asked once and never changes.                               *)
(***************************************************************************)
EXTENDS Integers, Sequences, FiniteSets

LOCAL INSTANCE SequencesExt

CONSTANTS
  Pages,          \* 1 .. n, in the order of their URLs; 1 is where a walk starts
  MaxHopRows,     \* MAX_FRONTIER_ROWS_PER_HOP
  MaxNeighbors,   \* MAX_RETURNED_NEIGHBORS
  Window,         \* MAX_CHUNK_CHARS_IN_EMBEDDER_WINDOW
  Texts           \* the texts to cut: sequences of lines of sentences of word lengths

ASSUME RetrievalAssumption ==
  Pages \subseteq Nat /\ {MaxHopRows, MaxNeighbors, Window} \subseteq Nat \ {0}

VARIABLE question

AddUp(s) == FoldLeft(LAMBDA a, b : a + b, 0, s)

Sorted(S, Before(_, _)) == SortSeq(FoldSet(LAMBDA e, s : Append(s, e), <<>>, S), Before)

(***************************************************************************)
(* crawler graph.rs neighbors                                              *)
(***************************************************************************)

\* edges_from: the rows that leave the frontier, by target and relation, up to the cap.
EdgesFrom(edges, frontier, allowed) ==
  LET rows == {e \in edges : e.from \in frontier /\ (allowed = {} \/ e.rel \in allowed)}
      order == Sorted(rows, LAMBDA a, b :
                 \/ a.to < b.to
                 \/ a.to = b.to /\ a.rel < b.rel
                 \/ a.to = b.to /\ a.rel = b.rel /\ a.from < b.from)
  IN SubSeq(order, 1, Min({MaxHopRows, Len(order)}))

\* A slip in graph.rs: the page asked about may come back as its own neighbour.
AlreadyThereWithoutStart(to, start, found) == \E f \in found : f.url = to

AlreadyThere(to, start, found) == to = start \/ \E f \in found : f.url = to

\* One hop: what is found for the first time is the next frontier.
Hop(edges, start, allowed, walk, depth) ==
  FoldLeft(LAMBDA w, e :
      IF AlreadyThere(e.to, start, w.found) THEN w
      ELSE [found |-> w.found \cup {[url |-> e.to, depth |-> depth, rel |-> e.rel]},
            frontier |-> w.frontier \cup {e.to}],
    [found |-> walk.found, frontier |-> {}],
    EdgesFrom(edges, walk.frontier, allowed))

Neighbors(edges, start, allowed, maxDepth) ==
  LET walk == FoldLeft(LAMBDA w, depth : Hop(edges, start, allowed, w, depth),
                       [found |-> {}, frontier |-> {start}], [i \in 1 .. maxDepth |-> i])
      ranked == Sorted(walk.found, LAMBDA a, b :
                  a.depth < b.depth \/ (a.depth = b.depth /\ a.url < b.url))
  IN SubSeq(ranked, 1, Min({MaxNeighbors, Len(ranked)}))

\* What walks of exactly n links reach.
Reached(edges, start, allowed) ==
  LET reached[n \in Nat] ==
        IF n = 0 THEN {start}
        ELSE {e.to : e \in {x \in edges : x.from \in reached[n - 1]
                                          /\ (allowed = {} \/ x.rel \in allowed)}}
  IN reached

\* The nearest pages within the depth, each once and at its shortest distance; when a hop had more
\* rows than it may read, fewer pages, none said to be nearer than it is.
NeighborsAreNearest(edges, start, allowed, maxDepth) ==
  LET found == Neighbors(edges, start, allowed, maxDepth)
      near(n) == UNION {Reached(edges, start, allowed)[k] : k \in 1 .. n} \ {start}
      capped == \E f \in SUBSET Pages : Len(EdgesFrom(edges, f, allowed)) = MaxHopRows
  IN /\ IsInjective([i \in DOMAIN found |-> found[i].url])
     /\ \A i, j \in DOMAIN found : i < j => found[i].depth <= found[j].depth
     /\ \A i \in DOMAIN found : found[i].url \in near(found[i].depth)
     /\ ~capped =>
          /\ Len(found) = Min({MaxNeighbors, Cardinality(near(maxDepth))})
          /\ \A i \in DOMAIN found :
               /\ found[i].url \notin near(found[i].depth - 1)
               /\ near(found[i].depth - 1) \subseteq {found[j].url : j \in DOMAIN found}

(***************************************************************************)
(* knowledge-base ranking.rs                                               *)
(***************************************************************************)

\* Passages 1 and 2 are of document 1, passage 3 of document 2, passage 4 of document 3.
DocumentOf(p) == IF p <= 2 THEN 1 ELSE p - 1

\* 1 / (60 + rank), over the common denominator of the first three ranks.
Contribution(rank) == (61 * 62 * 63) \div (60 + rank)

RankScore(list, p) == IF p \in ToSet(list) THEN Contribution(CHOOSE i \in DOMAIN list : list[i] = p) ELSE 0

ByScore(ranked) ==
  Sorted(ranked, LAMBDA a, b :
    a.score > b.score \/ (a.score = b.score /\ a.passage < b.passage))

\* fuse: a passage scores in each list that holds it.
Fuse(lists) ==
  {[passage |-> p, score |-> AddUp([i \in DOMAIN lists |-> RankScore(lists[i], p)])] :
     p \in UNION {ToSet(lists[i]) : i \in DOMAIN lists}}

\* fuse_with_document_titles: a title lifts every passage found of its document, and stands for the
\* document by its first passage when none was found.
FuseWithDocumentTitles(lists, titles) ==
  LET ranked == Fuse(lists)
      title(d) == AddUp([i \in DOMAIN titles |->
                           IF DocumentOf(titles[i]) = d THEN Contribution(i) ELSE 0])
      found == {DocumentOf(r.passage) : r \in ranked}
  IN ByScore({[r EXCEPT !.score = @ + title(DocumentOf(r.passage))] : r \in ranked}
             \cup {[passage |-> titles[i], score |-> Contribution(i)] :
                     i \in {j \in DOMAIN titles : DocumentOf(titles[j]) \notin found}})

\* best_per_document: the first of each document, up to the limit.
BestPerDocument(ranked, limit) ==
  LET first == SelectSeq([i \in DOMAIN ranked |-> [at |-> i, item |-> ranked[i]]],
                 LAMBDA x : \A j \in 1 .. x.at - 1 :
                   DocumentOf(ranked[j].passage) # DocumentOf(x.item.passage))
  IN SubSeq([i \in DOMAIN first |-> first[i].item], 1, Min({limit, Len(first)}))

\* Each document that anything found comes back once, by its best passage, best document first; a
\* match in the title only ever lifts it.
RankingIsBestFirst(lists, titles, limit) ==
  LET ranked == FuseWithDocumentTitles(lists, titles)
      result == BestPerDocument(ranked, limit)
      hits == UNION {ToSet(lists[i]) : i \in DOMAIN lists} \cup ToSet(titles)
      best(d) == Max({r.score : r \in {x \in ToSet(ranked) : DocumentOf(x.passage) = d}})
  IN /\ IsInjective([i \in DOMAIN result |-> DocumentOf(result[i].passage)])
     /\ Len(result) = Min({limit, Cardinality({DocumentOf(p) : p \in hits})})
     /\ \A i \in DOMAIN result : result[i].score = best(DocumentOf(result[i].passage))
     /\ \A p \in hits : \/ \E i \in DOMAIN result : DocumentOf(result[i].passage) = DocumentOf(p)
                        \/ \A i \in DOMAIN result : result[i].score >= best(DocumentOf(p))
     /\ \A d \in {DocumentOf(p) : p \in hits} :
          \A r \in Fuse(lists) : DocumentOf(r.passage) = d => best(d) >= r.score

(***************************************************************************)
(* knowledge-base chunk.rs, over lengths                                   *)
(***************************************************************************)

Spaced(lengths) == AddUp(lengths) + Len(lengths) - 1

\* hard_split: a word cut at every full window.
HardSplit(word) ==
  [i \in 1 .. (word + Window - 1) \div Window |-> Min({Window, word - (i - 1) * Window})]

\* fit: a line whole, else its sentences, else their words.
Fit(line) ==
  LET sentence(s) == IF Spaced(s) <= Window THEN <<Spaced(s)>>
                     ELSE FlattenSeq([i \in DOMAIN s |-> HardSplit(s[i])])
      whole == Spaced([i \in DOMAIN line |-> Spaced(line[i])])
  IN IF whole <= Window THEN <<whole>> ELSE FlattenSeq([i \in DOMAIN line |-> sentence(line[i])])

Pieces(text) == FlattenSeq([i \in DOMAIN text |-> Fit(text[i])])

\* split: pieces put together with one character between them while they fit.
Split(text) ==
  FoldLeft(LAMBDA chunks, piece :
      IF chunks # <<>> /\ Spaced(Last(chunks)) + 1 + piece <= Window
      THEN Front(chunks) \o <<Append(Last(chunks), piece)>>
      ELSE Append(chunks, <<piece>>),
    <<>>, Pieces(text))

\* Every passage fits the embedder's window, no letter of a line or of a long word is lost, nothing is
\* moved, and no two neighbouring passages would have fitted in one.
PassagesFit(text) ==
  LET chunks == Split(text)
      letters(line) == AddUp(FlattenSeq(line))
  IN /\ \A line \in ToSet(text) :
          AddUp(Fit(line)) \in letters(line) .. letters(line) + Len(FlattenSeq(line)) - 1
     /\ \A word \in ToSet(FlattenSeq(FlattenSeq(text))) : AddUp(HardSplit(word)) = word
     /\ \A i \in DOMAIN chunks : chunks[i] # <<>> /\ Spaced(chunks[i]) <= Window
     /\ FlattenSeq(chunks) = Pieces(text)
     /\ \A i \in 1 .. Len(chunks) - 1 : Spaced(chunks[i]) + 1 + chunks[i + 1][1] > Window

(***************************************************************************)
(* Questions                                                               *)
(***************************************************************************)

Rankings(S) == {s \in UNION {[1 .. n -> S] : n \in 0 .. 2} : IsInjective(s)}

Pairs == {<<a, b>> \in Pages \X Pages : a # b}

\* Nothing to ask: what the question is while another part of a model runs.
NoQuestion == [kind |-> "none"]

\* get_page_neighbors: depths up to the ceiling, no relation types standing for all of them.
Walks == [depth : 1 .. 3, allowed : {{}, {1}}]

Questions ==
  {[kind |-> "walk", depth |-> w.depth, allowed |-> w.allowed,
    edges |-> {[from |-> p[1], to |-> p[2], rel |-> 1 + ((p[1] + p[2]) % 2)] : p \in E}] :
     w \in Walks, E \in SUBSET Pairs}
  \cup {[kind |-> "rank", semantic |-> s, lexical |-> l, titles |-> t, limit |-> n] :
          s, l \in Rankings({1, 2, 3}), t \in Rankings({1, 3, 4}), n \in {1, 3}}
  \cup {[kind |-> "cut", text |-> t] : t \in Texts}

\* A walk over page links, a search and the cutting of a text each compute what they are meant to:
\* shortest distances, every document once by its best passage, and passages that fit
\* (graph.rs neighbors, ranking.rs, chunk.rs).
LookupsComputeTheirMeaning ==
  /\ question.kind = "walk" => NeighborsAreNearest(question.edges, 1, question.allowed, question.depth)
  /\ question.kind = "rank" =>
       RankingIsBestFirst(<<question.semantic, question.lexical>>, question.titles, question.limit)
  /\ question.kind = "cut" => PassagesFit(question.text)
=============================================================================
