----------------------------- MODULE ChatReads -----------------------------
(***************************************************************************)
(* The chat agent with its tools: a call that is run is one of GraphReads' *)
(* reads, in a thread of its own, and its result is the call's output.     *)
(***************************************************************************)
EXTENDS ChatAgentProps, GraphReads

allVars == <<vars, found, read>>

JointInit == Init /\ ReadsInit

Bounds == Chapters \cup {Absent}

\* The next call is one that is run.
CallRuns == at = "tools" /\ pos < Len(calls) /\ calls[pos + 1] /\ Runs(TRUE)

Reads ==
  /\ CallRuns
  /\ \/ \E k \in 1 .. MaxTopK, hits \in Hits : Search(k, hits)
     \/ \E upTo \in Bounds : FindNothing(upTo)
     \/ \E ids \in SUBSET Ids, upTo \in Bounds : FindEntities(ids, upTo)
     \/ \E g \in Graphs : ReadFacts(g)
     \/ ReadOriginal
  /\ UNCHANGED vars

ToolReturns ==
  \/ RunTool("DONE") /\ ReadReturned
  \/ RunTool("FAILED") /\ ReadFailed

\* Whatever the agent does between two tools.
AgentGoesOn ==
  /\ \/ ReadIndexed
     \/ \E cs \in Responses : CallsTools(cs)
     \/ AnswersInWords
     \/ GiveUp
     \/ ModelFails
     \/ Refuse
     \/ AskAgain
     \/ SuggestTitle
  /\ UNCHANGED <<found, read>>

JointNext == Reads \/ ToolReturns \/ AgentGoesOn

JointSpec == JointInit /\ [][JointNext]_allVars

\* Calls of the model end by their timeouts and tools, having read or not, by
\* those of their queries.
JointFairSpec == JointSpec /\ WF_allVars(ToolReturns \/ AgentGoesOn)

-----------------------------------------------------------------------------
\* A search shows the best of the asker's own hits and no one else's; it shows
\* fewer than were wanted, and than there are, only where the foreign hits that
\* rank before one left out outnumber all that oversampling makes up for.
SearchShowsBestOwn ==
  read.tool = "search" =>
    LET own == {i \in DOMAIN read.hits : read.hits[i] = Asker}
        foreign == DOMAIN read.hits \ own
        leftOut == own \ read.shown
    IN /\ read.shown \subseteq own
       /\ \A i \in read.shown, j \in leftOut : i < j
       /\ Cardinality(read.shown) <= read.k
       /\ Cardinality(read.shown) < read.k =>
            \A j \in leftOut :
              Cardinality({i \in foreign : i < j}) > (Oversample - 1) * read.k

\* Something that dates the fact is of a chapter up to the bound: its own chapter,
\* or one of its events', if it has them.
BeginsBy(f, bound) ==
  /\ \E c \in Dates(f) : c <= bound
  /\ f.chapter # Absent => f.chapter <= bound
  /\ f.events # {} => \E c \in f.events : c <= bound

\* Everything that dates the fact is of a chapter up to the bound; or it has no
\* chapter of its own, and one of its events is.
SurelyBy(f, bound) ==
  \/ Dates(f) # {} /\ \A c \in Dates(f) : c <= bound
  \/ f.chapter = Absent /\ \E c \in f.events : c <= bound

\* What a lookup shows is the asker's, though the ids it asks for may be another
\* novel's by then, and begins by the bound; and what is not shown can be taken as
\* not there: unless the rows were cut at the limit, each fact of these entities
\* is shown that belongs before the bound by all its dates, or by an event it was
\* established in.  Where the dates disagree the bound cuts facts and not text: a
\* fact that is shown brings all its passages, those of later chapters too, and
\* one whose own chapter the model put too late hides passages of earlier ones.
LookupIsExact ==
  read.tool = "lookup" =>
    /\ \A r \in read.rows :
         r[2].owner = Asker /\ (read.upTo # Absent => BeginsBy(r[2], read.upTo))
    /\ Cardinality(read.rows) < FactLimit =>
         \A e \in read.ids, f \in read.graph :
           /\ e \in f.of /\ f.owner = Asker
           /\ read.upTo = Absent \/ SurelyBy(f, read.upTo)
           => <<e, f>> \in read.rows

=============================================================================
