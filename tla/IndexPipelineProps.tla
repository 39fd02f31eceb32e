-------------------------- MODULE IndexPipelineProps --------------------------
(***************************************************************************)
(* What a completion marker promises about the graph, whatever runs failed *)
(* before it was written.                                                  *)
(***************************************************************************)
EXTENDS IndexPipeline

Steps == {"context", "chunks", "chapter", "attach", "extract", "resolve", "evidence",
          "clear", "collapse", "embed", "summary", "story", "count"}

\* The types of the state; what is in the graph was written by a run.
TypeOK ==
  /\ of \in Seq(Chapters)
  /\ pieces \in Seq(Pieces) /\ Len(pieces) = Len(of)
  /\ run \in [step: Steps, id: 1 .. Len(of)] \cup {Idle}
  /\ background \subseteq Episodes
  /\ chapters \subseteq Chapters
  /\ layers \subseteq 1 .. Len(of)
  /\ inChapter \subseteq layers
  /\ facts \subseteq (1 .. Len(of)) \X Pieces
  /\ tokens \subseteq facts
  /\ evidence \subseteq facts \X layers
  /\ embedded \subseteq facts
  /\ nodes \in [Novels -> [Names -> Nat]]
  /\ combined \subseteq Novels \X Names
  /\ summary \in [Chapters -> 0 .. Len(of)]
  /\ story \in [Novels -> Seq(1 .. Len(of))]
  /\ marked \in [Novels -> SUBSET Episodes]

\* A chapter with the marker is complete: its node and its summary are there,
\* every copy of its chunks is attached, and every fact any of its runs wrote
\* is tied to the very passage it was read from, has no leftover token, and a
\* vector.  An edit between two runs may tie a fact to other sentences as well,
\* or shorten the text below its number, but never costs it its own passage.  It
\* rests on each step working on the whole novel and not on its own run's nodes.
MarkerMeansComplete ==
  \A v \in Novels : \A n \in marked[v] :
    /\ <<v, n>> \in chapters
    /\ summary[<<v, n>>] # 0
    /\ \E r \in layers : of[r] = <<v, n>>
    /\ \A r \in layers : of[r] = <<v, n>> => r \in inChapter
    /\ \A f \in facts : of[f[1]] = <<v, n>> =>
         f \notin tokens /\ f \in embedded /\ <<f, f[1]>> \in evidence

\* A fact's evidence is text of the fact's own chapter, also when it was
\* extracted by a run that failed before linking and a later run linked it.
\* It rests on the next run of the novel being of the same chapter.
EvidenceStaysHome == \A e \in evidence : of[e[1][1]] = of[e[2]]

\* The story summary folds in every completed chapter once and in order, and
\* nothing else: a repeated run cannot fold its chapter in a second time.
GlobalSummaryOnce ==
  \A v \in Novels :
    /\ marked[v] = 1 .. Len(story[v])
    /\ \A i \in 1 .. Len(story[v]) : of[story[v][i]] = <<v, i>>

\* The LLM that reads a chapter is told of every chapter before it and of none
\* after it.  It may be told of the chapter itself, but only if an earlier run
\* of that chapter failed: what that run left pushes an older chapter out of
\* the window of recent summaries, and the story keeps it in the background.
BackgroundIsStorySoFar ==
  run.step \in Steps \ {"context"} =>
    /\ 1 .. (Episode - 1) \subseteq background
    /\ background \subseteq 1 .. Episode
    /\ Episode \in background => \E r \in 1 .. (run.id - 1) : of[r] = Chapter

\* When a marker is written no entity of the novel is left in two nodes or
\* with an unmerged description, not even by a run that failed in between.
MarkedWhenTidy ==
  [][\A v \in Novels : marked'[v] # marked[v] =>
       \A x \in Names : nodes[v][x] <= 1 /\ <<v, x>> \notin combined]_vars

\* Seen from the markers, a run is a step of the ledger: a failure before the
\* last query leaves no trace in it and a failure after it changes nothing.
Writing == IF run.step \in Steps \ {"count"} THEN Chapter ELSE <<>>

Ledger == INSTANCE IndexLedger
  WITH Tenants <- Novels, book <- marked, writing <- Writing

ImplementsLedger == Ledger!LedgerSpec

=============================================================================
