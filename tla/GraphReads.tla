----------------------------- MODULE GraphReads -----------------------------
(***************************************************************************)
(* What the chat agent's tools read for one asker's novel                  *)
(* (repository/neo4j/retrieval.py, service/chat/tools.py): two hybrid      *)
(* searches, which the index cuts to its best hits before they are cut to  *)
(* the tenant, and the lookup of an entity by name, which is two queries.  *)
(*                                                                         *)
(* The graph is no variable. Indexing, of this and of other novels, writes *)
(* it at any time, so that each query meets any graph whose edges stay     *)
(* inside a novel. What dates a fact need not agree: the chapter of an     *)
(* event is written by the model, that of a passage by the code, and merges*)
(* join facts of several chapters. The id of an entity that was deleted    *)
(* between the two queries may meanwhile be the id of another novel's.     *)
(***************************************************************************)
EXTENDS Naturals, FiniteSets

CONSTANTS
  Tenants,    \* novels of authors
  Asker,      \* the one the question is about
  Absent,     \* null
  Ids,        \* element ids of entities
  Oversample, \* _TENANT_OVERSAMPLE
  FactLimit,  \* LIMIT 60 of the facts query
  MaxChapter, \* bound: chapters
  MaxTopK,    \* bound: top_k
  MaxHits,    \* bound: nodes that resemble the query
  MaxFacts    \* bound: facts of the entities looked up

ASSUME ReadBounds ==
  /\ Asker \in Tenants /\ IsFiniteSet(Ids) /\ Absent \notin 1 .. MaxChapter
  /\ Oversample \in Nat \ {0} /\ FactLimit \in Nat \ {0}
  /\ MaxChapter \in Nat /\ MaxTopK \in Nat /\ MaxHits \in Nat /\ MaxFacts \in Nat

VARIABLES
  found, \* between the queries of a lookup: the entities' ids and the bound
  read   \* what the tool that is run saw and showed

Nothing == [tool |-> "none"]

Chapters == 1 .. MaxChapter

ReadsInit == found = Nothing /\ read = Nothing

\* The tool has made no query yet.
Fresh == found = Nothing /\ read = Nothing

-----------------------------------------------------------------------------
\* Of the ranks R, the n best.
Best(R, n) == {i \in R : Cardinality({j \in R : j < i}) < n}

\* Mutant: the index is asked for no more than is wanted.
CandidatesExact(k, hits) == Best(DOMAIN hits, k)

\* The library's LIMIT, over both channels and all tenants.
Candidates(k, hits) == Best(DOMAIN hits, k * Oversample)

\* hits: whose node has which rank, the best score of both channels first.
Search(k, hits) ==
  /\ Fresh
  /\ read' = [tool |-> "search", k |-> k, hits |-> hits,
              shown |-> Best({i \in Candidates(k, hits) : hits[i] = Asker}, k)]
  /\ UNCHANGED found

Hits == UNION {[1 .. n -> Tenants] : n \in 0 .. MaxHits}

-----------------------------------------------------------------------------
\* A fact: the entities it hangs on, its own chapter, which only an event has,
\* the chapters of the events it was established in, which only a state has, and
\* those of its passages.  The schema lets no fact have the first two.
Facts ==
  {f \in [owner : Tenants, of : SUBSET Ids, chapter : Chapters \cup {Absent},
          events : SUBSET Chapters, passages : SUBSET Chapters] :
     f.chapter = Absent \/ f.events = {}}

Dates(f) == ({f.chapter} \ {Absent}) \cup f.events \cup f.passages

EdgesStayInside(g) == \A f, h \in g : f.of \cap h.of # {} => f.owner = h.owner

Graphs ==
  LET hung == {f \in Facts : f.of # {}}
      listed == UNION {[1 .. n -> hung] : n \in 0 .. MaxFacts}
  IN {g \in {{s[i] : i \in DOMAIN s} : s \in listed} : EdgesStayInside(g)}

Earliest(S) == CHOOSE c \in S : \A d \in S : c <= d

\* Mutant: only an event's own chapter is looked at.
OwnDate(f) == f.chapter

\* Mutant: the earliest of all dates, whatever they are of.
EarliestDate(f) == IF Dates(f) = {} THEN Absent ELSE Earliest(Dates(f))

\* coalesce(f.chapter, min(est.chapter), min(ck.chapter))
Established(f) ==
  IF f.chapter # Absent THEN f.chapter
  ELSE IF f.events # {} THEN Earliest(f.events)
  ELSE IF f.passages # {} THEN Earliest(f.passages)
  ELSE Absent

\* Under a bound a fact without a date is not shown.
Within(f, upTo) ==
  upTo = Absent \/ (Established(f) # Absent /\ Established(f) <= upTo)

\* No date is the latest one.
Before(f, h) ==
  Established(f) # Absent /\ (Established(h) = Absent \/ Established(f) < Established(h))

-----------------------------------------------------------------------------
\* The first query: no entity of the novel has the name or alias.
FindNothing(upTo) ==
  /\ Fresh
  /\ read' = [tool |-> "lookup", upTo |-> upTo, ids |-> {}, graph |-> {}, rows |-> {}]
  /\ UNCHANGED found

\* The first query: the ids of the novel's entities with the name or alias.
FindEntities(ids, upTo) ==
  /\ Fresh
  /\ ids # {}
  /\ found' = [tool |-> "lookup", ids |-> ids, upTo |-> upTo]
  /\ UNCHANGED read

\* Mutant: the ids are trusted to be of the novel still.
RowsById(g) ==
  {r \in found.ids \X g : r[1] \in r[2].of /\ Within(r[2], found.upTo)}

Rows(g) ==
  {r \in found.ids \X g :
     r[1] \in r[2].of /\ r[2].owner = Asker /\ Within(r[2], found.upTo)}

\* ORDER BY est_chapter LIMIT 60
IsCut(S, R) ==
  /\ S \subseteq R
  /\ Cardinality(S) = IF Cardinality(R) < FactLimit THEN Cardinality(R) ELSE FactLimit
  /\ \A r \in R \ S, s \in S : ~Before(r[2], s[2])

\* The second query: the facts that hang on these ids.
ReadFacts(g) ==
  /\ found # Nothing
  /\ \E S \in SUBSET Rows(g) :
       /\ IsCut(S, Rows(g))
       /\ read' = [tool |-> "lookup", upTo |-> found.upTo, ids |-> found.ids,
                   graph |-> g, rows |-> S]
  /\ found' = Nothing

\* A manuscript or the work's title, from the other database, by the work alone.
ReadOriginal ==
  /\ Fresh
  /\ read' = [tool |-> "original"]
  /\ UNCHANGED found

\* The tool returns what it has read, or raises: for arguments it does not
\* take, at a query, at any point.
ReadReturned == read # Nothing /\ read' = Nothing /\ UNCHANGED found

ReadFailed == found' = Nothing /\ read' = Nothing

=============================================================================
