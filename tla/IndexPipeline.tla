---------------------------- MODULE IndexPipeline ----------------------------
(***************************************************************************)
(* One indexing run (service/index/indexing_service.py, indexing()) and    *)
(* the graph it leaves behind, whatever step it fails at.                  *)
(*                                                                         *)
(* A run writes the graph in some fifteen separate queries.  Any of them,  *)
(* or an LLM call between them, can raise, and the process can die: the    *)
(* graph keeps what was written, nothing cleans it up, and the next run    *)
(* of the novel works on top of it.  One run is in progress at a time and  *)
(* it is of the chapter after the completed ones: that is what the job     *)
(* service provides (IndexLedger, implemented by IndexJobs).               *)
(***************************************************************************)
EXTENDS Integers, Sequences, FiniteSets, FiniteSetsExt, Functions

CONSTANTS
  Novels,       \* tenants
  MaxEpisode,   \* bound: chapters of a novel
  MaxRuns,      \* bound: runs in a behaviour
  MaxPieces,    \* bound: chunks a chapter's text is cut into
  Names,        \* entity names, up to what the resolver takes for the same
  RecentWindow  \* _RECENT_WINDOW: chapter summaries given verbatim

ASSUME PipelineBounds ==
  MaxEpisode \in Nat /\ MaxRuns \in Nat /\ MaxPieces \in Nat /\ RecentWindow \in Nat

Episodes == 1 .. MaxEpisode
Runs == 1 .. MaxRuns
Chapters == Novels \X Episodes
Pieces == 1 .. MaxPieces
Facts == Runs \X Pieces

VARIABLES
  of,        \* of[r]: the chapter run r was for, a pair <<novel, number>>
  pieces,    \* pieces[r]: how many chunks the text run r was given is cut into;
             \* the author may have edited it since an earlier run
  run,       \* the run in progress and its next step
  background, \* the chapters its LLM is told of (novel_context)
  chapters,  \* the Chapter nodes
  layers,    \* the runs whose Chunk nodes, 1 .. pieces[r], are in the graph
  inChapter, \* those whose chunks are tied to the Chapter node
  facts,     \* the Event and CharacterState nodes that have a text and name a
             \* chunk of it: the run that wrote them and the chunk's number
  tokens,    \* those that still carry evidence_chunk
  evidence,  \* EVIDENCED_BY: pairs of a fact and the chunk layer whose chunk
             \* of that number it is tied to
  embedded,  \* the facts with the :Fact label and a vector
  nodes,     \* nodes[v][x]: entity nodes of novel v named x
  combined,  \* the <<v, x>> whose description is an array after a merge
  summary,   \* summary[c]: the run that wrote Chapter.summary, 0 if none
  story,     \* story[v]: the runs whose summaries Story.summary folded, in order
  marked     \* marked[v]: the chapters with IN_STORY, the completion marker

graph == <<chapters, layers, inChapter, facts, tokens, evidence, embedded,
           nodes, combined, summary, story, marked>>
vars == <<of, pieces, run, background, graph>>

Idle == [step |-> "idle", id |-> 0]

Init ==
  /\ of = <<>>
  /\ pieces = <<>>
  /\ run = Idle
  /\ background = {}
  /\ chapters = {}
  /\ layers = {}
  /\ inChapter = {}
  /\ facts = {}
  /\ tokens = {}
  /\ evidence = {}
  /\ embedded = {}
  /\ nodes = [v \in Novels |-> [x \in Names |-> 0]]
  /\ combined = {}
  /\ summary = [c \in Chapters |-> 0]
  /\ story = [v \in Novels |-> <<>>]
  /\ marked = [v \in Novels |-> {}]

\* The novel and the chapter of the run in progress.
Chapter == of[run.id]
Novel == Chapter[1]
Episode == Chapter[2]

\* What a query narrowed to the tenant sees.
Own(F) == {f \in F : of[f[1]][1] = Novel}
LayersOf(c) == {r \in layers : of[r] = c}

\* What a query that MATCHes the Chapter node does: nothing if it is not there.
OnChapter(S) == IF Chapter \in chapters THEN S ELSE {}

At(step) == run.step = step
Goto(step) == run' = [run EXCEPT !.step = step]

-----------------------------------------------------------------------------
\* Mutant: any chapter without a marker may be run.
BeginAny(c, n) ==
  /\ At("idle")
  /\ Len(of) < MaxRuns
  /\ c[2] \notin marked[c[1]]
  /\ of' = Append(of, c)
  /\ pieces' = Append(pieces, n)
  /\ run' = [step |-> "context", id |-> Len(of) + 1]
  /\ UNCHANGED <<background, graph>>

\* The worker starts a run of the next chapter of a novel, with the text as it
\* is now, of n chunks.
Begin(c, n) ==
  /\ At("idle")
  /\ Len(of) < MaxRuns
  /\ marked[c[1]] = 1 .. (c[2] - 1)
  /\ of' = Append(of, c)
  /\ pieces' = Append(pieces, n)
  /\ run' = [step |-> "context", id |-> Len(of) + 1]
  /\ UNCHANGED <<background, graph>>

\* dump_graph_text: every event and state of the novel is named, those that
\* failed runs left included.
Dumped == {of[f[1]][2] : f \in Own(facts)}

\* load_summaries, second query: the last chapters that have a summary, marked
\* or not, so a failed run of this chapter takes a place in the window.
Recent ==
  LET told == {n \in Episodes : summary[<<Novel, n>>] # 0}
  IN  {n \in told : Cardinality({m \in told : m > n}) < RecentWindow}

\* Mutant: the story so far is left out.
BackgroundRecent == Dumped \cup Recent

\* build_context: the story so far, the recent summaries and the graph.
Background == Dumped \cup Recent \cup {of[r][2] : r \in Range(story[Novel])}

\* The background is read once, before the run writes anything.
ReadContext ==
  /\ At("context")
  /\ background' = Background
  /\ Goto("chunks")
  /\ UNCHANGED <<of, pieces, graph>>

\* write_chunk_layer: the library creates the Chunk nodes anew in every run.
WriteChunks ==
  /\ At("chunks")
  /\ layers' = layers \cup {run.id}
  /\ Goto("chapter")
  /\ UNCHANGED <<of, pieces, background, chapters, inChapter, facts, tokens, evidence, embedded,
                 nodes, combined, summary, story, marked>>

MergeChapter ==
  /\ At("chapter")
  /\ chapters' = chapters \cup {Chapter}
  /\ Goto("attach")
  /\ UNCHANGED <<of, pieces, background, layers, inChapter, facts, tokens, evidence, embedded,
                 nodes, combined, summary, story, marked>>

\* Every chunk of the chapter is attached, those of failed runs included.
AttachChunks ==
  /\ At("attach")
  /\ inChapter' = inChapter \cup OnChapter(LayersOf(Chapter))
  /\ Goto("extract")
  /\ UNCHANGED <<of, pieces, background, chapters, layers, facts, tokens, evidence, embedded,
                 nodes, combined, summary, story, marked>>

\* pipe.run, up to the writer: the LLM decides what is in the chapter.  A
\* writer that fails half-way has written less and then fails, so partial
\* writes are the smaller choices of F and X.
WriteExtracted(F, X) ==
  /\ At("extract")
  /\ F \subseteq 1 .. pieces[run.id]
  /\ facts' = facts \cup ({run.id} \X F)
  /\ tokens' = tokens \cup ({run.id} \X F)
  /\ nodes' = [nodes EXCEPT ![Novel] = [x \in Names |-> @[x] + (IF x \in X THEN 1 ELSE 0)]]
  /\ Goto("resolve")
  /\ UNCHANGED <<of, pieces, background, chapters, layers, inChapter, evidence, embedded,
                 combined, summary, story, marked>>

\* What a resolver's filter_query and grouping find: nodes of this novel that
\* one label's resolver (similar or normalised names) takes for the same.
Duplicates == {x \in Names : nodes[Novel][x] > 1}

\* The duplicates become one node, and descriptions that differ an array.
Merge(x) ==
  /\ At("resolve")
  /\ x \in Duplicates
  /\ nodes' = [nodes EXCEPT ![Novel][x] = 1]
  /\ combined' \in {combined, combined \cup {<<Novel, x>>}}
  /\ UNCHANGED <<of, pieces, run, background, chapters, layers, inChapter, facts, tokens, evidence,
                 embedded, summary, story, marked>>

Resolved ==
  /\ At("resolve")
  /\ Duplicates = {}
  /\ Goto("evidence")
  /\ UNCHANGED <<of, pieces, background, graph>>

\* The chunks of this chapter a fact's number finds, in every copy of the text
\* that is long enough.
Cited(f) == {r \in LayersOf(Chapter) : f[2] <= pieces[r]}

\* Mutant: the query is not narrowed to the tenant.
LinkEvidenceOfAll ==
  /\ At("evidence")
  /\ evidence' = evidence \cup UNION {{f} \X Cited(f) : f \in tokens}
  /\ Goto("clear")
  /\ UNCHANGED <<of, pieces, background, chapters, layers, inChapter, facts, tokens, embedded,
                 nodes, combined, summary, story, marked>>

\* Mutant: only the chunks this run wrote are looked at.
LinkEvidenceOfRun ==
  /\ At("evidence")
  /\ evidence' = evidence \cup UNION {{f} \X (Cited(f) \cap {run.id}) : f \in Own(tokens)}
  /\ Goto("clear")
  /\ UNCHANGED <<of, pieces, background, chapters, layers, inChapter, facts, tokens, embedded,
                 nodes, combined, summary, story, marked>>

\* link_evidence, first query: whatever still carries evidence_chunk in this
\* novel is tied to the chunks of this chapter with its number, also to those of
\* another version of the text.
LinkEvidence ==
  /\ At("evidence")
  /\ evidence' = evidence \cup UNION {{f} \X Cited(f) : f \in Own(tokens)}
  /\ Goto("clear")
  /\ UNCHANGED <<of, pieces, background, chapters, layers, inChapter, facts, tokens, embedded,
                 nodes, combined, summary, story, marked>>

\* Mutant: only the tokens of this run are removed.
ClearTokensOfRun ==
  /\ At("clear")
  /\ tokens' = {f \in tokens : f[1] # run.id}
  /\ Goto("collapse")
  /\ UNCHANGED <<of, pieces, background, chapters, layers, inChapter, facts, evidence, embedded,
                 nodes, combined, summary, story, marked>>

\* link_evidence, second query.
ClearTokens ==
  /\ At("clear")
  /\ tokens' = tokens \ Own(tokens)
  /\ Goto("collapse")
  /\ UNCHANGED <<of, pieces, background, chapters, layers, inChapter, facts, evidence, embedded,
                 nodes, combined, summary, story, marked>>

\* collapse_merged_descriptions, one LLM call and one query per node.
Collapse(x) ==
  /\ At("collapse")
  /\ <<Novel, x>> \in combined
  /\ combined' = combined \ {<<Novel, x>>}
  /\ UNCHANGED <<of, pieces, run, background, chapters, layers, inChapter, facts, tokens, evidence,
                 embedded, nodes, summary, story, marked>>

\* Mutant: a failing LLM call is skipped and its description stays an array.
CollapsedInPart ==
  /\ At("collapse")
  /\ Goto("embed")
  /\ UNCHANGED <<of, pieces, background, graph>>

Collapsed ==
  /\ At("collapse")
  /\ \A x \in Names : <<Novel, x>> \notin combined
  /\ Goto("embed")
  /\ UNCHANGED <<of, pieces, background, graph>>

\* What ensure_fact_layer finds without a vector.
Unembedded == Own(facts) \ embedded

\* ensure_fact_layer: one embedding call and one query per fact.
EmbedFact(f) ==
  /\ At("embed")
  /\ f \in Unembedded
  /\ embedded' = embedded \cup {f}
  /\ UNCHANGED <<of, pieces, run, background, chapters, layers, inChapter, facts, tokens, evidence,
                 nodes, combined, summary, story, marked>>

Embedded ==
  /\ At("embed")
  /\ Unembedded = {}
  /\ Goto("summary")
  /\ UNCHANGED <<of, pieces, background, graph>>

StoreSummary ==
  /\ At("summary")
  /\ summary' = [c \in Chapters |-> IF c \in OnChapter({Chapter}) THEN run.id ELSE summary[c]]
  /\ Goto("story")
  /\ UNCHANGED <<of, pieces, background, chapters, layers, inChapter, facts, tokens, evidence,
                 embedded, nodes, combined, story, marked>>

\* Mutant: the summary and the marker are two queries.
UpdateStoryFirst ==
  /\ At("story")
  /\ story' = [story EXCEPT ![Novel] = Append(@, run.id)]
  /\ marked' \in {marked, [marked EXCEPT ![Novel] = @ \cup OnChapter({Episode})]}
  /\ Goto("count")
  /\ UNCHANGED <<of, pieces, background, chapters, layers, inChapter, facts, tokens, evidence,
                 embedded, nodes, combined, summary>>

\* update_global_summary: the summary so far is read, this chapter's is folded
\* into it, and the result is written together with the marker.
UpdateStory ==
  /\ At("story")
  /\ story' = [story EXCEPT ![Novel] = Append(@, run.id)]
  /\ marked' = [marked EXCEPT ![Novel] = @ \cup OnChapter({Episode})]
  /\ Goto("count")
  /\ UNCHANGED <<of, pieces, background, chapters, layers, inChapter, facts, tokens, evidence,
                 embedded, nodes, combined, summary>>

\* The counts are printed and the run returns.
Return ==
  /\ At("count")
  /\ run' = Idle
  /\ background' = {}
  /\ UNCHANGED <<of, pieces, graph>>

\* A query or an LLM call raises, or the process dies.
Fail ==
  /\ ~At("idle")
  /\ run' = Idle
  /\ background' = {}
  /\ UNCHANGED <<of, pieces, graph>>

-----------------------------------------------------------------------------
Next ==
  \/ \E c \in Chapters, n \in Pieces : Begin(c, n)
  \/ ReadContext
  \/ WriteChunks
  \/ MergeChapter
  \/ AttachChunks
  \/ \E F \in SUBSET Pieces, X \in SUBSET Names : WriteExtracted(F, X)
  \/ \E x \in Names : Merge(x)
  \/ Resolved
  \/ LinkEvidence
  \/ ClearTokens
  \/ \E x \in Names : Collapse(x)
  \/ Collapsed
  \/ \E f \in Facts : EmbedFact(f)
  \/ Embedded
  \/ StoreSummary
  \/ UpdateStory
  \/ Return
  \/ Fail

Spec == Init /\ [][Next]_vars

=============================================================================
