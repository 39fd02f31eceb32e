------------------------- MODULE IndexPipelineProofs -------------------------
(***************************************************************************)
(* Theorems about an indexing run and the graph it leaves behind, for any  *)
(* novels, any number of runs and any texts.                               *)
(***************************************************************************)
EXTENDS IndexPipelineProps, TLAPS

\* Which actions can change what.
LEMMA Changes ==
  ASSUME [Next]_vars
  PROVE  /\ UNCHANGED <<of, pieces>> \/ \E c \in Chapters, n \in Pieces : Begin(c, n)
         /\ UNCHANGED background \/ ReadContext \/ Return \/ Fail
         /\ UNCHANGED layers \/ WriteChunks
         /\ UNCHANGED chapters \/ MergeChapter
         /\ UNCHANGED inChapter \/ AttachChunks
         /\ UNCHANGED facts \/ \E F \in SUBSET Pieces, X \in SUBSET Names : WriteExtracted(F, X)
         /\ UNCHANGED tokens \/ ClearTokens
              \/ \E F \in SUBSET Pieces, X \in SUBSET Names : WriteExtracted(F, X)
         /\ UNCHANGED nodes \/ (\E x \in Names : Merge(x))
              \/ \E F \in SUBSET Pieces, X \in SUBSET Names : WriteExtracted(F, X)
         /\ UNCHANGED combined \/ \E x \in Names : Merge(x) \/ Collapse(x)
         /\ UNCHANGED evidence \/ LinkEvidence
         /\ UNCHANGED embedded \/ \E f \in Facts : EmbedFact(f)
         /\ UNCHANGED summary \/ StoreSummary
         /\ UNCHANGED <<story, marked>> \/ UpdateStory
<1> USE DEF graph
<1>1. CASE UNCHANGED vars
  BY <1>1 DEF vars
<1>2. CASE \E c \in Chapters, n \in Pieces : Begin(c, n)
  BY <1>2 DEF Begin
<1>3. CASE ReadContext \/ WriteChunks \/ MergeChapter \/ AttachChunks
  BY <1>3 DEF ReadContext, WriteChunks, MergeChapter, AttachChunks
<1>4. CASE \E F \in SUBSET Pieces, X \in SUBSET Names : WriteExtracted(F, X)
  BY <1>4 DEF WriteExtracted
<1>5. CASE \E x \in Names : Merge(x) \/ Collapse(x)
  BY <1>5 DEF Merge, Collapse
<1>6. CASE Resolved \/ LinkEvidence \/ ClearTokens \/ Collapsed \/ Embedded
  BY <1>6 DEF Resolved, LinkEvidence, ClearTokens, Collapsed, Embedded
<1>7. CASE \E f \in Facts : EmbedFact(f)
  BY <1>7 DEF EmbedFact
<1>8. CASE StoreSummary \/ UpdateStory \/ Return \/ Fail
  BY <1>8 DEF StoreSummary, UpdateStory, Return, Fail
<1> QED
  BY <1>1, <1>2, <1>3, <1>4, <1>5, <1>6, <1>7, <1>8 DEF Next

\* How a run goes on.
LEMMA Moves ==
  ASSUME [Next]_vars
  PROVE  \/ run' = run
         \/ run' = Idle /\ UNCHANGED <<of, pieces, graph>>
         \/ \E c \in Chapters, n \in Pieces : Begin(c, n)
         \/ ReadContext \/ WriteChunks \/ MergeChapter \/ AttachChunks
         \/ \E F \in SUBSET Pieces, X \in SUBSET Names : WriteExtracted(F, X)
         \/ Resolved \/ LinkEvidence \/ ClearTokens \/ Collapsed \/ Embedded
         \/ StoreSummary \/ UpdateStory
BY DEF Next, vars, Merge, Collapse, EmbedFact, Return, Fail

LEMMA TypesHold == Init => TypeOK
BY PipelineBounds
DEF Init, TypeOK, Episodes, Chapters, Pieces, Steps, Idle

LEMMA Elements == ASSUME NEW S, NEW s \in Seq(S) PROVE \A i \in DOMAIN s : s[i] \in S
OBVIOUS

LEMMA TypesKept == ASSUME TypeOK, [Next]_vars PROVE TypeOK'
<1> USE PipelineBounds DEF Episodes, Runs, Chapters, Pieces, Facts, TypeOK
<1> DEFINE Ids == 1 .. Len(of)
<1>1. /\ of' \in Seq(Chapters) /\ pieces' \in Seq(Pieces)
      /\ Len(pieces') = Len(of') /\ Len(of') \in Nat
      /\ Len(of) \in Nat /\ Len(of) <= Len(of')
  <2>1. ASSUME NEW c \in Chapters, NEW n \in Pieces, Begin(c, n)
        PROVE  /\ of' \in Seq(Chapters) /\ Len(of') = Len(of) + 1
               /\ pieces' \in Seq(Pieces) /\ Len(pieces') = Len(pieces) + 1
    <3>1. of' = Append(of, c) /\ pieces' = Append(pieces, n)
      BY <2>1 DEF Begin
    <3>2. \A s \in Seq(Chapters), e \in Chapters :
            Append(s, e) \in Seq(Chapters) /\ Len(Append(s, e)) = Len(s) + 1
      OBVIOUS
    <3>3. \A s \in Seq(Pieces), e \in Pieces :
            Append(s, e) \in Seq(Pieces) /\ Len(Append(s, e)) = Len(s) + 1
      OBVIOUS
    <3>4. of \in Seq(Chapters) /\ pieces \in Seq(Pieces)
      OBVIOUS
    <3> HIDE DEF TypeOK, Chapters, Pieces
    <3> QED
      BY <3>1, <3>2, <3>3, <3>4
  <2> QED
    BY <2>1, Changes
<1>2. Ids \subseteq 1 .. Len(of') /\ 0 .. Len(of) \subseteq 0 .. Len(of')
  BY <1>1
<1>3. ASSUME NEW s \in Steps, At(s)
      PROVE  run.id \in Ids /\ Chapter \in Chapters /\ Novel \in Novels /\ Episode \in Episodes
  BY <1>3 DEF At, Steps, Idle, Chapter, Novel, Episode
<1>4. run' \in [step: Steps, id: 1 .. Len(of')] \cup {Idle}
  <2>1. CASE run' = run \/ run' = Idle
    BY <2>1, <1>2
  <2>2. ASSUME NEW c \in Chapters, NEW n \in Pieces, Begin(c, n)
        PROVE  run' \in [step: Steps, id: 1 .. Len(of')]
    BY <2>2 DEF Begin, Steps
  <2>3. ASSUME NEW s \in Steps, NEW t \in Steps, At(s), Goto(t)
        PROVE  run' \in [step: Steps, id: 1 .. Len(of')]
    <3>1. run \in [step: Steps, id: Ids]
      BY <2>3 DEF At, Idle, Steps
    <3>2. run' = [run EXCEPT !.step = t]
      BY <2>3 DEF Goto
    <3>3. run' \in [step: Steps, id: Ids]
      BY <3>1, <3>2
    <3> QED
      BY <3>3, <1>2
  <2> QED
    BY <2>1, <2>2, <2>3, Moves
    DEF ReadContext, WriteChunks, MergeChapter, AttachChunks, WriteExtracted, Resolved,
        LinkEvidence, ClearTokens, Collapsed, Embedded, StoreSummary, UpdateStory, Steps
<1>5. layers' \subseteq 1 .. Len(of') /\ layers \subseteq layers'
  BY <1>2, <1>3, Changes DEF WriteChunks, Steps
<1>6. chapters' \subseteq Chapters
  BY <1>3, Changes DEF MergeChapter, Steps
<1>7. inChapter' \subseteq layers'
  BY <1>5, Changes DEF AttachChunks, OnChapter, LayersOf
<1>8. /\ facts' \subseteq (1 .. Len(of')) \X Pieces /\ facts \subseteq facts'
      /\ tokens' \subseteq facts'
  <2>1. ASSUME NEW F \in SUBSET Pieces, NEW X \in SUBSET Names, WriteExtracted(F, X)
        PROVE  /\ facts' = facts \cup ({run.id} \X F) /\ run.id \in Ids
               /\ tokens' = tokens \cup ({run.id} \X F)
    BY <2>1, <1>3 DEF WriteExtracted, Steps
  <2> QED
    <3>1. CASE \E F \in SUBSET Pieces, X \in SUBSET Names : WriteExtracted(F, X)
      <4>1. PICK F \in SUBSET Pieces, X \in SUBSET Names : WriteExtracted(F, X)
        BY <3>1
      <4>2. ({run.id} \X F) \subseteq Ids \X Pieces
        BY <2>1, <4>1
      <4>3. facts' \subseteq Ids \X Pieces /\ facts \subseteq facts' /\ tokens' \subseteq facts'
        BY <2>1, <4>1, <4>2
      <4> QED
        BY <4>3, <1>2
    <3>2. CASE UNCHANGED facts
      BY <3>2, <1>2, Changes DEF ClearTokens, WriteExtracted
    <3> QED
      BY <3>1, <3>2, Changes
<1>9. evidence' \subseteq facts' \X layers'
  <2>1. evidence \subseteq facts \X layers
    OBVIOUS
  <2>2. evidence \subseteq facts' \X layers'
    BY <1>5, <1>8, <2>1
  <2>3. CASE LinkEvidence
    <3>1. UNCHANGED <<facts, layers>>
      BY <2>3 DEF LinkEvidence
    <3>2. \A f : Cited(f) \subseteq layers
      BY DEF Cited, LayersOf
    <3>3. Own(tokens) \subseteq facts
      BY DEF Own
    <3>4. UNION {{f} \X Cited(f) : f \in Own(tokens)} \subseteq facts \X layers
      BY <3>2, <3>3
    <3> QED
      BY <2>1, <2>3, <3>1, <3>4 DEF LinkEvidence
  <2> QED
    BY <2>2, <2>3, Changes
<1>10. embedded' \subseteq facts'
  BY <1>8, Changes DEF EmbedFact, Unembedded, Own
<1>11. nodes' \in [Novels -> [Names -> Nat]] /\ combined' \subseteq Novels \X Names
  <2>1. ASSUME NEW F \in SUBSET Pieces, NEW X \in SUBSET Names, WriteExtracted(F, X)
        PROVE  nodes' \in [Novels -> [Names -> Nat]]
    <3>1. Novel \in Novels
      BY <2>1, <1>3 DEF WriteExtracted, Steps
    <3>2. [x \in Names |-> nodes[Novel][x] + (IF x \in X THEN 1 ELSE 0)] \in [Names -> Nat]
      BY <3>1
    <3> QED
      BY <2>1, <3>1, <3>2 DEF WriteExtracted
  <2>2. ASSUME NEW x \in Names, Merge(x)
        PROVE  nodes' \in [Novels -> [Names -> Nat]] /\ combined' \subseteq Novels \X Names
    <3>1. Novel \in Novels
      BY <2>2, <1>3 DEF Merge, Steps
    <3>2. [nodes[Novel] EXCEPT ![x] = 1] \in [Names -> Nat]
      BY <3>1
    <3>3. nodes' = [nodes EXCEPT ![Novel] = [nodes[Novel] EXCEPT ![x] = 1]]
      BY <2>2 DEF Merge
    <3> QED
      BY <2>2, <3>1, <3>2, <3>3 DEF Merge
  <2>3. ASSUME NEW x \in Names, Collapse(x)
        PROVE  combined' \subseteq Novels \X Names
    BY <2>3 DEF Collapse
  <2> QED
    BY <2>1, <2>2, <2>3, Changes
<1>12. summary' \in [Chapters -> 0 .. Len(of')]
  <2>1. StoreSummary => run.id \in 0 .. Len(of)
    BY <1>3 DEF StoreSummary, Steps
  <2>2. summary' \in [Chapters -> 0 .. Len(of)]
    BY <2>1, Changes DEF StoreSummary
  <2> QED
    BY <2>2, <1>2
<1>13. story' \in [Novels -> Seq(1 .. Len(of'))]
  <2>1. CASE UNCHANGED story
    <3>1. \A t \in Seq(Ids) : t \in Seq(1 .. Len(of'))
      BY <1>1, <1>2
    <3> QED
      BY <2>1, <3>1
  <2>2. CASE UpdateStory
    <3>1. \A s \in Seq(Ids) : Append(s, run.id) \in Seq(Ids)
      BY <2>2, <1>3 DEF UpdateStory, Steps
    <3>2. story' \in [Novels -> Seq(Ids)]
      BY <2>2, <3>1 DEF UpdateStory
    <3> QED
      BY <3>2, <1>1, <2>2 DEF UpdateStory
  <2> QED
    BY <2>1, <2>2, Changes
<1>14. marked' \in [Novels -> SUBSET Episodes]
  <2>1. CASE UpdateStory
    <3>1. Novel \in Novels /\ OnChapter({Episode}) \subseteq Episodes
      BY <2>1, <1>3 DEF UpdateStory, OnChapter, Steps
    <3>2. marked[Novel] \cup OnChapter({Episode}) \in SUBSET Episodes
      BY <3>1
    <3> QED
      BY <2>1, <3>1, <3>2 DEF UpdateStory
  <2> QED
    BY <2>1, Changes
<1>15. background' \subseteq Episodes
  <2>1. CASE ReadContext
    <3>1. Novel \in Novels
      BY <2>1, <1>3 DEF ReadContext, Steps
    <3>2. \A r \in Ids : of[r][2] \in Episodes
      OBVIOUS
    <3>3. Dumped \subseteq Episodes
      BY <3>2 DEF Dumped, Own
    <3>4. Recent \subseteq Episodes
      BY DEF Recent
    <3>5. {of[r][2] : r \in Range(story[Novel])} \subseteq Episodes
      <4>1. story \in [Novels -> Seq(Ids)]
        OBVIOUS
      <4>2. story[Novel] \in Seq(Ids)
        BY <3>1, <4>1, Zenon
      <4>3. story[Novel] \in Seq(1 .. Len(of))
        BY <4>2
      <4>4. \A i \in DOMAIN story[Novel] : story[Novel][i] \in Ids
        BY <4>3, Elements, Zenon
      <4>5. \A r \in Range(story[Novel]) : r \in Ids
        BY <4>4, Zenon DEF Range
      <4> QED
        BY <3>2, <4>5
    <3> QED
      BY <2>1, <3>3, <3>4, <3>5 DEF ReadContext, Background
  <2>2. CASE UNCHANGED background
    BY <2>2
  <2> QED
    BY <2>1, <2>2, Changes DEF Return, Fail
<1> QED
  BY <1>1, <1>4, <1>5, <1>6, <1>7, <1>8, <1>9, <1>10, <1>11, <1>12, <1>13, <1>14, <1>15

THEOREM PipelineTypes == Spec => []TypeOK
BY TypesHold, TypesKept, PTL DEF Spec

-----------------------------------------------------------------------------
\* Every fact was read in a chunk of its own run's text, and either still
\* carries the number of that chunk or is tied to it.
Written ==
  \A f \in facts :
    /\ f[1] \in layers /\ f[2] <= pieces[f[1]]
    /\ f \in tokens \/ <<f, f[1]>> \in evidence

\* Until its last query a run is of the chapter after those in the story, and
\* whatever is still to be linked in a novel was read in that same chapter.
NextInStory(c) == c[2] = Len(story[c[1]]) + 1
RunIsNext == run.step \in Steps \ {"count"} => NextInStory(Chapter)
TokensAreNext == \A f \in tokens : NextInStory(of[f[1]])

\* What the run in progress has done so far, for the whole novel.
AfterChunks == Steps \ {"context", "chunks"}
AfterChapter == AfterChunks \ {"chapter"}
AfterAttach == AfterChapter \ {"attach"}
AfterClear == {"collapse", "embed", "summary", "story", "count"}
AfterEmbed == {"summary", "story", "count"}
AfterSummary == {"story", "count"}

ChunksWritten == run.step \in AfterChunks => run.id \in layers
ChapterThere == run.step \in AfterChapter => Chapter \in chapters
ChunksAttached == run.step \in AfterAttach => LayersOf(Chapter) \subseteq inChapter
TokensLinked == run.step = "clear" => \A f \in Own(tokens) : <<f, f[1]>> \in evidence
TokensCleared == run.step \in AfterClear => Own(tokens) = {}
FactsEmbedded == run.step \in AfterEmbed => Own(facts) \subseteq embedded
SummaryThere == run.step \in AfterSummary => summary[Chapter] # 0

Inv ==
  /\ TypeOK
  /\ Written /\ RunIsNext /\ TokensAreNext
  /\ ChunksWritten /\ ChapterThere /\ ChunksAttached
  /\ TokensLinked /\ TokensCleared /\ FactsEmbedded /\ SummaryThere
  /\ GlobalSummaryOnce /\ EvidenceStaysHome /\ MarkerMeansComplete

LEMMA InvHolds == Init => Inv
<1> SUFFICES ASSUME Init PROVE Inv
  OBVIOUS
<1>1. TypeOK
  BY TypesHold
<1>2. /\ run.step = "idle" /\ facts = {} /\ tokens = {} /\ evidence = {}
      /\ \A v \in Novels : marked[v] = {} /\ story[v] = <<>>
  BY DEF Init, Idle
<1>3. 1 .. 0 = {} /\ Len(<<>>) = 0
  OBVIOUS
<1> QED
  BY <1>1, <1>2, <1>3
  DEF Inv, Written, RunIsNext, TokensAreNext, ChunksWritten, ChapterThere, ChunksAttached,
      TokensLinked, TokensCleared, FactsEmbedded, SummaryThere, GlobalSummaryOnce,
      EvidenceStaysHome, MarkerMeansComplete, Steps, AfterChunks, AfterChapter, AfterAttach,
      AfterClear, AfterEmbed, AfterSummary

\* A run keeps the chapter and the text it was given.
LEMMA RunsStay ==
  ASSUME TypeOK, [Next]_vars
  PROVE  \A r \in 1 .. Len(of) : of'[r] = of[r] /\ pieces'[r] = pieces[r]
<1>1. CASE UNCHANGED <<of, pieces>>
  BY <1>1
<1>2. ASSUME NEW c \in Chapters, NEW n \in Pieces, Begin(c, n)
      PROVE  \A r \in 1 .. Len(of) : of'[r] = of[r] /\ pieces'[r] = pieces[r]
  <2>1. of' = Append(of, c) /\ pieces' = Append(pieces, n)
    BY <1>2 DEF Begin
  <2>2. \A s \in Seq(Chapters), e \in Chapters : \A r \in 1 .. Len(s) : Append(s, e)[r] = s[r]
    OBVIOUS
  <2>3. \A s \in Seq(Pieces), e \in Pieces : \A r \in 1 .. Len(s) : Append(s, e)[r] = s[r]
    OBVIOUS
  <2>4. of \in Seq(Chapters) /\ pieces \in Seq(Pieces) /\ Len(pieces) = Len(of)
    BY DEF TypeOK
  <2> QED
    BY <2>1, <2>2, <2>3, <2>4
<1> QED
  BY <1>1, <1>2, Changes

\* What the type invariant says of runs, chapters and facts.
LEMMA Known ==
  ASSUME TypeOK
  PROVE  /\ Len(of) \in Nat
         /\ \A r \in 1 .. Len(of) :
              /\ of[r] = <<of[r][1], of[r][2]>>
              /\ of[r][1] \in Novels /\ of[r][2] \in Episodes /\ of[r][2] \in Nat \ {0}
         /\ run.step \in Steps =>
              /\ run.id \in 1 .. Len(of) /\ run.id # 0
              /\ Chapter = <<Novel, Episode>> /\ Chapter \in Chapters
              /\ Novel \in Novels /\ Episode \in Nat \ {0} /\ Episode \in Episodes
         /\ \A f \in facts : f = <<f[1], f[2]>> /\ f[1] \in 1 .. Len(of) /\ f[2] \in Nat
         /\ \A f \in tokens : f \in facts
         /\ \A e \in evidence : e = <<e[1], e[2]>> /\ e[1] \in facts /\ e[2] \in 1 .. Len(of)
         /\ \A v \in Novels : Len(story[v]) \in Nat
<1> USE PipelineBounds DEF Chapters, Episodes, Pieces
<1>1. of \in Seq(Chapters) /\ Len(of) \in Nat
  BY DEF TypeOK
<1>2. \A r \in 1 .. Len(of) :
        /\ of[r] = <<of[r][1], of[r][2]>>
        /\ of[r][1] \in Novels /\ of[r][2] \in Episodes /\ of[r][2] \in Nat \ {0}
  BY <1>1
<1>3. run.step \in Steps => run.id \in 1 .. Len(of) /\ run.id # 0
  BY DEF TypeOK, Steps, Idle
<1>4. \A f \in facts : f = <<f[1], f[2]>> /\ f[1] \in 1 .. Len(of) /\ f[2] \in Nat
  <2>1. facts \subseteq (1 .. Len(of)) \X (1 .. MaxPieces)
    BY DEF TypeOK
  <2> QED
    BY <2>1
<1>5. \A f \in tokens : f \in facts
  BY DEF TypeOK
<1>6. \A e \in evidence : e = <<e[1], e[2]>> /\ e[1] \in facts /\ e[2] \in 1 .. Len(of)
  <2>1. evidence \subseteq facts \X layers /\ layers \subseteq 1 .. Len(of)
    BY DEF TypeOK
  <2>2. \A e \in facts \X layers : e = <<e[1], e[2]>> /\ e[1] \in facts /\ e[2] \in layers
    OBVIOUS
  <2> QED
    BY <2>1, <2>2, Zenon
<1>7. \A v \in Novels : Len(story[v]) \in Nat
  <2>1. story \in [Novels -> Seq(1 .. Len(of))]
    BY DEF TypeOK
  <2> QED
    BY <2>1
<1> QED
  BY <1>1, <1>2, <1>3, <1>4, <1>5, <1>6, <1>7 DEF Chapter, Novel, Episode

\* While a run goes on it is the same run, of the same chapter.
LEMMA SameRun ==
  ASSUME TypeOK, [Next]_vars, run.step \in Steps, run'.step \in Steps
  PROVE  run'.id = run.id /\ Chapter' = Chapter /\ Novel' = Novel /\ Episode' = Episode
<1>1. run.step # "idle" /\ run'.step # "idle"
  BY DEF Steps
<1>2. run'.id = run.id
  <2>1. ASSUME NEW t \in Steps, Goto(t) PROVE run'.id = run.id
    BY <2>1, <1>1 DEF Goto, TypeOK, Idle
  <2>2. CASE run' = Idle
    BY <2>2, <1>1 DEF Idle
  <2>3. CASE \E c \in Chapters, n \in Pieces : Begin(c, n)
    BY <2>3, <1>1 DEF Begin, At
  <2> QED
    BY <2>1, <2>2, <2>3, Moves
    DEF ReadContext, WriteChunks, MergeChapter, AttachChunks, WriteExtracted, Resolved,
        LinkEvidence, ClearTokens, Collapsed, Embedded, StoreSummary, UpdateStory, Steps
<1>3. run.id \in 1 .. Len(of)
  BY Known
<1> QED
  BY <1>2, <1>3, RunsStay DEF Chapter, Novel, Episode

\* A new run is of the next chapter of its novel's story.
LEMMA NewRun ==
  ASSUME Inv, NEW c \in Chapters, NEW n \in Pieces, Begin(c, n)
  PROVE  /\ run'.step = "context" /\ run'.id \notin 1 .. Len(of)
         /\ Chapter' = c /\ NextInStory(c) /\ UNCHANGED graph
<1>1. TypeOK /\ GlobalSummaryOnce
  BY DEF Inv
<1>2. of \in Seq(Chapters) /\ Len(of) \in Nat
  BY <1>1 DEF TypeOK
<1>3. \A s \in Seq(Chapters), e \in Chapters : Append(s, e)[Len(s) + 1] = e
  OBVIOUS
<1>4. of' = Append(of, c) /\ run' = [step |-> "context", id |-> Len(of) + 1]
  BY DEF Begin
<1>5. Chapter' = c
  BY <1>2, <1>3, <1>4 DEF Chapter
<1>6. c[1] \in Novels /\ c[2] \in Nat \ {0} /\ Len(story[c[1]]) \in Nat
  BY <1>1, Known, PipelineBounds DEF Chapters, Episodes
<1>7. 1 .. Len(story[c[1]]) = 1 .. (c[2] - 1)
  BY <1>1, <1>6 DEF GlobalSummaryOnce, Begin
<1>8. \A a, b \in Nat : 1 .. a = 1 .. b => a = b
  <2> SUFFICES ASSUME NEW a \in Nat, NEW b \in Nat, 1 .. a = 1 .. b PROVE a = b
    OBVIOUS
  <2>1. a > 0 => a \in 1 .. b
    BY a \in 1 .. a \/ ~(a > 0)
  <2>2. b > 0 => b \in 1 .. a
    BY b \in 1 .. b \/ ~(b > 0)
  <2> QED
    BY <2>1, <2>2
<1>9. Len(story[c[1]]) = c[2] - 1
  BY <1>6, <1>7, <1>8
<1> QED
  BY <1>2, <1>4, <1>5, <1>6, <1>9 DEF NextInStory, Begin

LEMMA RunIsNextKept == ASSUME Inv, [Next]_vars, TypeOK' PROVE RunIsNext'
<1>1. TypeOK /\ RunIsNext
  BY DEF Inv
<1>2. CASE \E c \in Chapters, n \in Pieces : Begin(c, n)
  BY <1>2, NewRun DEF RunIsNext, NextInStory, graph
<1>3. CASE UpdateStory
  BY <1>3 DEF UpdateStory, Goto, RunIsNext, TypeOK, At, Idle, Steps
<1>4. CASE /\ UNCHANGED story
           /\ run'.step \in Steps \ {"count"} => run.step \in Steps \ {"count"}
  BY <1>1, <1>4, SameRun DEF RunIsNext, NextInStory
<1>5. run' = Idle => run'.step \notin Steps
  BY DEF Idle, Steps
<1>6. \/ UpdateStory \/ UNCHANGED story
  BY Changes
<1>7. \/ \E c \in Chapters, n \in Pieces : Begin(c, n)
      \/ UpdateStory
      \/ run'.step \in Steps \ {"count"} => run.step \in Steps \ {"count"}
  BY <1>5, Moves
  DEF ReadContext, WriteChunks, MergeChapter, AttachChunks, WriteExtracted, Resolved,
      LinkEvidence, ClearTokens, Collapsed, Embedded, StoreSummary, At, Steps
<1> QED
  BY <1>2, <1>3, <1>4, <1>6, <1>7

\* The steps of a run are taken in order.
LEMMA Onward ==
  ASSUME TypeOK, [Next]_vars
  PROVE  /\ run'.step \in AfterChunks => run.step \in AfterChunks \/ WriteChunks
         /\ run'.step \in AfterChapter => run.step \in AfterChapter \/ MergeChapter
         /\ run'.step \in AfterAttach => run.step \in AfterAttach \/ AttachChunks
         /\ run'.step = "clear" => (run.step = "clear" /\ run' = run) \/ LinkEvidence
         /\ run'.step \in AfterClear => run.step \in AfterClear \/ ClearTokens
         /\ run'.step \in AfterEmbed => run.step \in AfterEmbed \/ Embedded
         /\ run'.step \in AfterSummary => run.step \in AfterSummary \/ StoreSummary
<1> USE DEF AfterChunks, AfterChapter, AfterAttach, AfterClear, AfterEmbed, AfterSummary, Steps
<1>1. ASSUME NEW t, Goto(t) PROVE run'.step = t
  BY <1>1 DEF Goto, TypeOK, Idle
<1>2. CASE run' = run
  BY <1>2
<1>3. CASE run' = Idle \/ \E c \in Chapters, n \in Pieces : Begin(c, n)
  BY <1>3 DEF Idle, Begin
<1>4. CASE ReadContext \/ WriteChunks \/ MergeChapter \/ AttachChunks
  BY <1>1, <1>4 DEF ReadContext, WriteChunks, MergeChapter, AttachChunks, At
<1>5. CASE \E F \in SUBSET Pieces, X \in SUBSET Names : WriteExtracted(F, X)
  BY <1>1, <1>5 DEF WriteExtracted, At
<1>6. CASE Resolved \/ LinkEvidence \/ ClearTokens
  BY <1>1, <1>6 DEF Resolved, LinkEvidence, ClearTokens, At
<1>7. CASE Collapsed \/ Embedded \/ StoreSummary \/ UpdateStory
  BY <1>1, <1>7 DEF Collapsed, Embedded, StoreSummary, UpdateStory, At
<1> QED
  BY <1>2, <1>3, <1>4, <1>5, <1>6, <1>7, Moves

LEMMA ChunksWrittenKept == ASSUME Inv, [Next]_vars, TypeOK' PROVE ChunksWritten'
<1>1. TypeOK /\ ChunksWritten
  BY DEF Inv
<1>2. CASE WriteChunks
  BY <1>1, <1>2, Known, SameRun DEF WriteChunks, At, Steps, AfterChunks, ChunksWritten
<1>3. CASE run.step \in AfterChunks /\ run'.step \in AfterChunks
  <2>1. layers \subseteq layers'
    BY Changes DEF WriteChunks
  <2> QED
    BY <1>1, <1>3, <2>1, SameRun DEF ChunksWritten, AfterChunks
<1> QED
  BY <1>1, <1>2, <1>3, Onward DEF ChunksWritten

LEMMA ChapterThereKept == ASSUME Inv, [Next]_vars, TypeOK' PROVE ChapterThere'
<1>1. TypeOK /\ ChapterThere
  BY DEF Inv
<1>2. CASE MergeChapter
  BY <1>1, <1>2, SameRun DEF MergeChapter, At, Steps, AfterChunks, AfterChapter, ChapterThere
<1>3. CASE run.step \in AfterChapter /\ run'.step \in AfterChapter
  <2>1. chapters \subseteq chapters'
    BY Changes DEF MergeChapter
  <2> QED
    BY <1>1, <1>3, <2>1, SameRun DEF ChapterThere, AfterChunks, AfterChapter
<1> QED
  BY <1>1, <1>2, <1>3, Onward DEF ChapterThere

LEMMA ChunksAttachedKept == ASSUME Inv, [Next]_vars, TypeOK' PROVE ChunksAttached'
<1>1. TypeOK /\ ChunksAttached /\ ChapterThere
  BY DEF Inv
<1>2. run.step \in Steps /\ run'.step \in Steps /\ UNCHANGED layers =>
        LayersOf(Chapter)' = LayersOf(Chapter)
  <2>1. \A r \in layers : of'[r] = of[r]
    BY <1>1, RunsStay DEF TypeOK
  <2> QED
    BY <1>1, <2>1, SameRun DEF LayersOf
<1>3. CASE AttachChunks
  BY <1>1, <1>2, <1>3
  DEF AttachChunks, At, Steps, AfterChunks, AfterChapter, AfterAttach, ChapterThere,
      ChunksAttached, OnChapter
<1>4. CASE run.step \in AfterAttach /\ run'.step \in AfterAttach
  <2>1. inChapter \subseteq inChapter'
    BY Changes DEF AttachChunks
  <2>2. UNCHANGED layers
    BY <1>4, Changes DEF WriteChunks, At, AfterAttach, AfterChapter, AfterChunks
  <2> QED
    BY <1>1, <1>2, <1>4, <2>1, <2>2 DEF ChunksAttached, AfterChunks, AfterChapter, AfterAttach
<1> QED
  BY <1>1, <1>3, <1>4, Onward DEF ChunksAttached

LEMMA SummaryThereKept == ASSUME Inv, [Next]_vars, TypeOK' PROVE SummaryThere'
<1>1. TypeOK /\ SummaryThere /\ ChapterThere
  BY DEF Inv
<1>2. CASE StoreSummary
  BY <1>1, <1>2, SameRun, Known
  DEF StoreSummary, At, Steps, AfterChunks, AfterChapter, AfterSummary, ChapterThere,
      SummaryThere, OnChapter
<1>3. CASE run.step \in AfterSummary /\ run'.step \in AfterSummary
  BY <1>1, <1>3, SameRun, Changes DEF SummaryThere, AfterSummary, Steps, StoreSummary, At
<1> QED
  BY <1>1, <1>2, <1>3, Onward DEF SummaryThere

-----------------------------------------------------------------------------
\* A fact keeps its chapter and its passage, and a step adds facts, tokens and
\* evidence in one query each.
LEMMA FactsStay ==
  ASSUME TypeOK, [Next]_vars
  PROVE  /\ \A f \in facts : of'[f[1]] = of[f[1]] /\ pieces'[f[1]] = pieces[f[1]]
         /\ \A e \in evidence : of'[e[2]] = of[e[2]]
         /\ facts \subseteq facts' /\ evidence \subseteq evidence' /\ layers \subseteq layers'
         /\ embedded \subseteq embedded' /\ inChapter \subseteq inChapter'
<1>1. \A f \in facts : f[1] \in 1 .. Len(of)
  BY Known
<1>2. \A e \in evidence : e[2] \in 1 .. Len(of)
  BY Known
<1>3. /\ facts \subseteq facts' /\ evidence \subseteq evidence' /\ layers \subseteq layers'
      /\ embedded \subseteq embedded' /\ inChapter \subseteq inChapter'
  BY Changes DEF WriteExtracted, LinkEvidence, WriteChunks, EmbedFact, AttachChunks
<1> QED
  BY <1>1, <1>2, <1>3, RunsStay

\* A fact that is linked is linked to its own passage.
LEMMA Linked ==
  ASSUME Inv, LinkEvidence
  PROVE  \A f \in Own(tokens) : <<f, f[1]>> \in evidence'
<1>1. /\ TypeOK /\ Written /\ RunIsNext /\ TokensAreNext
  BY DEF Inv
<1>2. SUFFICES ASSUME NEW f \in Own(tokens) PROVE <<f, f[1]>> \in evidence'
  OBVIOUS
<1>3. run.step \in Steps \ {"count"}
  BY DEF LinkEvidence, At, Steps
<1>4. f \in tokens /\ f \in facts /\ of[f[1]][1] = Novel
  BY <1>1, Known DEF Own
<1>5. of[f[1]] = Chapter
  BY <1>1, <1>3, <1>4, Known DEF RunIsNext, TokensAreNext, NextInStory, Novel, Episode
<1>6. f[1] \in Cited(f)
  BY <1>1, <1>4, <1>5 DEF Cited, LayersOf, Written
<1>7. <<f, f[1]>> \in {f} \X Cited(f)
  BY <1>6
<1>8. <<f, f[1]>> \in UNION {{g} \X Cited(g) : g \in Own(tokens)}
  BY <1>7
<1> QED
  BY <1>8 DEF LinkEvidence

LEMMA TokensLinkedKept == ASSUME Inv, [Next]_vars, TypeOK' PROVE TokensLinked'
<1>1. TypeOK /\ TokensLinked
  BY DEF Inv
<1>2. CASE LinkEvidence
  <2>1. run.step \in Steps /\ (run'.step = "clear" => run'.step \in Steps)
    BY <1>2 DEF LinkEvidence, At, Steps
  <2>2. tokens' = tokens
    BY <1>2 DEF LinkEvidence
  <2>3. run'.step = "clear" => Own(tokens)' = Own(tokens)
    BY <1>1, <2>1, <2>2, SameRun, FactsStay, Known DEF Own
  <2> QED
    BY <1>2, <2>3, Linked DEF TokensLinked
<1>3. CASE run.step = "clear" /\ run' = run
  <2>1. UNCHANGED <<tokens, evidence>> /\ evidence \subseteq evidence'
    BY <1>1, <1>3, Changes
    DEF ClearTokens, WriteExtracted, LinkEvidence, At, Goto, TypeOK, Idle
  <2>2. Own(tokens)' = Own(tokens)
    BY <1>1, <1>3, <2>1, SameRun, FactsStay, Known DEF Own, Steps
  <2> QED
    BY <1>1, <1>3, <2>1, <2>2 DEF TokensLinked
<1> QED
  BY <1>1, <1>2, <1>3, Onward DEF TokensLinked

LEMMA TokensClearedKept == ASSUME Inv, [Next]_vars, TypeOK' PROVE TokensCleared'
<1>1. TypeOK /\ TokensCleared
  BY DEF Inv
<1>2. ASSUME run'.step \in AfterClear, run.step \in Steps, tokens' \subseteq tokens,
             \A f \in tokens' : f \notin Own(tokens)
      PROVE  Own(tokens)' = {}
  <2>1. run'.step \in Steps
    BY <1>2 DEF AfterClear, Steps
  <2> QED
    BY <1>1, <1>2, <2>1, SameRun, FactsStay, Known DEF Own
<1>3. CASE ClearTokens
  BY <1>1, <1>2, <1>3, Known DEF ClearTokens, At, Steps, TokensCleared
<1>4. CASE run.step \in AfterClear
  <2>1. UNCHANGED tokens
    BY <1>4, Changes DEF ClearTokens, WriteExtracted, At, AfterClear
  <2> QED
    BY <1>1, <1>2, <1>4, <2>1 DEF TokensCleared, AfterClear, Steps
<1> QED
  BY <1>1, <1>3, <1>4, Onward DEF TokensCleared

LEMMA FactsEmbeddedKept == ASSUME Inv, [Next]_vars, TypeOK' PROVE FactsEmbedded'
<1>1. TypeOK /\ FactsEmbedded
  BY DEF Inv
<1>2. ASSUME run'.step \in AfterEmbed, run.step \in Steps, UNCHANGED facts,
             Own(facts) \subseteq embedded
      PROVE  Own(facts)' \subseteq embedded'
  <2>1. run'.step \in Steps
    BY <1>2 DEF AfterEmbed, Steps
  <2> QED
    BY <1>1, <1>2, <2>1, SameRun, FactsStay, Known DEF Own
<1>3. CASE Embedded
  <2>1. Own(facts) \subseteq embedded /\ UNCHANGED facts /\ run.step \in Steps
    BY <1>3 DEF Embedded, Unembedded, graph, At, Steps
  <2> QED
    BY <1>2, <2>1 DEF FactsEmbedded
<1>4. CASE run.step \in AfterEmbed
  <2>1. UNCHANGED facts
    BY <1>4, Changes DEF WriteExtracted, At, AfterEmbed
  <2> QED
    BY <1>1, <1>2, <1>4, <2>1 DEF FactsEmbedded, AfterEmbed, Steps
<1> QED
  BY <1>1, <1>3, <1>4, Onward DEF FactsEmbedded

\* What the writer adds was read in the text of its own run.
LEMMA Extracted ==
  ASSUME Inv, NEW F \in SUBSET Pieces, NEW X \in SUBSET Names, WriteExtracted(F, X)
  PROVE  /\ run.id \in layers /\ NextInStory(Chapter)
         /\ \A f \in facts' : f \in facts \/ (f[1] = run.id /\ f[2] <= pieces[run.id])
         /\ \A f \in tokens' : f \in tokens \/ f[1] = run.id
         /\ \A f \in facts' : f \in facts \/ f \in tokens'
<1>1. TypeOK /\ ChunksWritten /\ RunIsNext
  BY DEF Inv
<1>2. run.id \in layers /\ NextInStory(Chapter)
  BY <1>1 DEF ChunksWritten, RunIsNext, AfterChunks, Steps, WriteExtracted, At
<1>3. \A f \in {run.id} \X F : f[1] = run.id /\ f[2] \in 1 .. pieces[run.id]
  BY DEF WriteExtracted
<1>4. pieces[run.id] \in Nat
  <2>1. run.id \in 1 .. Len(of)
    BY <1>1, Known DEF WriteExtracted, At, Steps
  <2>2. pieces \in Seq(Pieces) /\ Len(pieces) = Len(of)
    BY <1>1 DEF TypeOK
  <2> QED
    BY <2>1, <2>2, PipelineBounds DEF Pieces
<1>5. \A f \in {run.id} \X F : f[2] <= pieces[run.id]
  BY <1>3, <1>4
<1>6. facts' = facts \cup ({run.id} \X F) /\ tokens' = tokens \cup ({run.id} \X F)
  BY DEF WriteExtracted
<1>7. \A f \in facts' : f \in facts \/ f \in {run.id} \X F
  BY <1>6, Zenon
<1>8. \A f \in tokens' : f \in tokens \/ f \in {run.id} \X F
  BY <1>6, Zenon
<1>9. \A f \in {run.id} \X F : f \in tokens'
  BY <1>6, Zenon
<1> QED
  BY <1>2, <1>3, <1>5, <1>7, <1>8, <1>9, Zenon

LEMMA WrittenKept == ASSUME Inv, [Next]_vars, TypeOK' PROVE Written'
<1>1. TypeOK /\ Written /\ TokensLinked
  BY DEF Inv
<1>2. SUFFICES ASSUME NEW f \in facts'
      PROVE  /\ f[1] \in layers' /\ f[2] <= pieces'[f[1]]
             /\ f \in tokens' \/ <<f, f[1]>> \in evidence'
  BY DEF Written
<1>3. CASE f \in facts
  <2>1. f[1] \in layers' /\ f[2] <= pieces'[f[1]]
    BY <1>1, <1>3, FactsStay DEF Written
  <2>2. CASE <<f, f[1]>> \in evidence
    BY <1>1, <2>1, <2>2, FactsStay
  <2>3. CASE f \in tokens
    <3>1. tokens \subseteq tokens' \/ ClearTokens
      BY Changes DEF WriteExtracted
    <3>2. CASE ClearTokens
      BY <1>1, <2>1, <2>3, <3>2, FactsStay DEF ClearTokens, At, TokensLinked
    <3> QED
      BY <2>1, <2>3, <3>1, <3>2
  <2> QED
    BY <1>1, <1>3, <2>2, <2>1, <2>3 DEF Written
<1>4. CASE f \notin facts
  <2>1. PICK F \in SUBSET Pieces, X \in SUBSET Names : WriteExtracted(F, X)
    BY <1>2, <1>4, Changes
  <2>2. run.id \in layers /\ f[1] = run.id /\ f[2] <= pieces[run.id] /\ f \in tokens'
    BY <1>2, <1>4, <2>1, Extracted
  <2>3. UNCHANGED <<layers, pieces>>
    BY <2>1 DEF WriteExtracted
  <2> QED
    BY <2>2, <2>3
<1> QED
  BY <1>3, <1>4

LEMMA TokensAreNextKept == ASSUME Inv, [Next]_vars, TypeOK' PROVE TokensAreNext'
<1>1. TypeOK /\ TokensAreNext /\ TokensCleared
  BY DEF Inv
<1>2. SUFFICES ASSUME NEW f \in tokens' PROVE NextInStory(of[f[1]])'
  BY DEF TokensAreNext
<1>3. CASE f \in tokens
  <2>1. f \in facts /\ of'[f[1]] = of[f[1]] /\ of[f[1]][1] \in Novels
    BY <1>1, <1>3, FactsStay, Known
  <2>2. CASE UNCHANGED story
    BY <1>1, <1>3, <2>1, <2>2 DEF TokensAreNext, NextInStory
  <2>3. CASE UpdateStory
    <3>1. of[f[1]][1] # Novel
      BY <1>1, <1>3, <2>3 DEF UpdateStory, At, TokensCleared, AfterClear, Own
    <3>2. story'[of[f[1]][1]] = story[of[f[1]][1]]
      BY <1>1, <2>1, <2>3, <3>1 DEF UpdateStory, TypeOK
    <3> QED
      BY <1>1, <1>3, <2>1, <3>2 DEF TokensAreNext, NextInStory
  <2> QED
    BY <2>2, <2>3, Changes
<1>4. CASE f \notin tokens
  <2>1. PICK F \in SUBSET Pieces, X \in SUBSET Names : WriteExtracted(F, X)
    BY <1>2, <1>4, Changes DEF ClearTokens
  <2>2. f[1] = run.id /\ NextInStory(Chapter)
    BY <1>2, <1>4, <2>1, Extracted
  <2>3. UNCHANGED <<story, of>>
    BY <2>1 DEF WriteExtracted
  <2>4. of'[f[1]] = Chapter
    BY <2>2, <2>3 DEF Chapter
  <2> QED
    BY <2>2, <2>3, <2>4 DEF NextInStory
<1> QED
  BY <1>3, <1>4

LEMMA EvidenceKept == ASSUME Inv, [Next]_vars, TypeOK' PROVE EvidenceStaysHome'
<1>1. TypeOK /\ EvidenceStaysHome /\ RunIsNext /\ TokensAreNext
  BY DEF Inv
<1>2. SUFFICES ASSUME NEW e \in evidence' PROVE of'[e[1][1]] = of'[e[2]]
  BY DEF EvidenceStaysHome
<1>3. CASE e \in evidence
  BY <1>1, <1>3, FactsStay, Known DEF EvidenceStaysHome
<1>4. CASE e \notin evidence
  <2>1. LinkEvidence
    BY <1>2, <1>4, Changes
  <2>2. PICK f \in Own(tokens) : e \in {f} \X Cited(f)
    BY <1>2, <1>4, <2>1 DEF LinkEvidence
  <2>3. e[1] = f /\ e[2] \in LayersOf(Chapter)
    BY <2>2 DEF Cited
  <2>4. f \in tokens /\ f \in facts /\ of[f[1]][1] = Novel
    BY <1>1, <2>2, Known DEF Own
  <2>5. run.step \in Steps \ {"count"}
    BY <2>1 DEF LinkEvidence, At, Steps
  <2>6. of[f[1]] = Chapter
    BY <1>1, <2>4, <2>5, Known DEF RunIsNext, TokensAreNext, NextInStory, Novel, Episode
  <2>7. of' = of
    BY <2>1 DEF LinkEvidence
  <2> QED
    BY <2>3, <2>6, <2>7 DEF LayersOf
<1> QED
  BY <1>3, <1>4

\* The query that folds a chapter into the story also marks it.
LEMMA Folded ==
  ASSUME Inv, UpdateStory
  PROVE  /\ NextInStory(Chapter) /\ Chapter \in chapters
         /\ Novel \in Novels /\ Chapter = <<Novel, Episode>>
         /\ marked' = [marked EXCEPT ![Novel] = @ \cup {Episode}]
         /\ story' = [story EXCEPT ![Novel] = Append(@, run.id)]
<1>1. TypeOK /\ RunIsNext /\ ChapterThere
  BY DEF Inv
<1>2. run.step = "story"
  BY DEF UpdateStory, At
<1>3. NextInStory(Chapter) /\ Chapter \in chapters
  BY <1>1, <1>2 DEF RunIsNext, ChapterThere, AfterChapter, AfterChunks, Steps
<1> QED
  BY <1>1, <1>2, <1>3, Known DEF UpdateStory, OnChapter, Steps

LEMMA StoryKept == ASSUME Inv, [Next]_vars, TypeOK' PROVE GlobalSummaryOnce'
<1>1. TypeOK /\ GlobalSummaryOnce
  BY DEF Inv
<1>2. SUFFICES ASSUME NEW v \in Novels
      PROVE  /\ marked'[v] = 1 .. Len(story'[v])
             /\ \A i \in 1 .. Len(story'[v]) : of'[story'[v][i]] = <<v, i>>
  BY DEF GlobalSummaryOnce
<1>3. story \in [Novels -> Seq(1 .. Len(of))] /\ marked \in [Novels -> SUBSET Episodes]
  BY <1>1 DEF TypeOK
<1>4. \A i \in 1 .. Len(story[v]) : of'[story[v][i]] = <<v, i>>
  <2>1. story[v] \in Seq(1 .. Len(of))
    BY <1>3
  <2>2. \A i \in 1 .. Len(story[v]) : story[v][i] \in 1 .. Len(of)
    BY <2>1
  <2> QED
    BY <1>1, <2>2, RunsStay DEF GlobalSummaryOnce
<1>5. CASE story'[v] = story[v] /\ marked'[v] = marked[v]
  BY <1>1, <1>4, <1>5 DEF GlobalSummaryOnce
<1>6. CASE UpdateStory /\ v = Novel
  <2>1. /\ NextInStory(Chapter) /\ Chapter = <<v, Episode>>
        /\ marked'[v] = marked[v] \cup {Episode} /\ story'[v] = Append(story[v], run.id)
    BY <1>3, <1>6, Folded
  <2>2. Episode = Len(story[v]) + 1 /\ Len(story[v]) \in Nat
    BY <1>1, <2>1, Known DEF NextInStory
  <2>3. run.id \in 1 .. Len(of) /\ of' = of
    BY <1>1, <1>6, Known DEF UpdateStory, At, Steps
  <2>4. story[v] \in Seq(1 .. Len(of))
    BY <1>3
  <2>5. /\ Len(story'[v]) = Episode
        /\ story'[v][Episode] = run.id
        /\ \A i \in 1 .. Len(story[v]) : story'[v][i] = story[v][i]
    BY <2>1, <2>2, <2>3, <2>4
  <2>6. marked'[v] = 1 .. Len(story'[v])
    BY <1>1, <2>1, <2>2, <2>5 DEF GlobalSummaryOnce
  <2>7. \A i \in 1 .. Len(story'[v]) : of'[story'[v][i]] = <<v, i>>
    <3>1. of'[run.id] = <<v, Episode>>
      BY <2>1, <2>3 DEF Chapter
    <3>2. \A i \in 1 .. Episode : i = Episode \/ i \in 1 .. Len(story[v])
      BY <2>2
    <3> QED
      BY <1>4, <2>5, <3>1, <3>2
  <2> QED
    BY <2>6, <2>7
<1>7. CASE UpdateStory /\ v # Novel
  BY <1>3, <1>5, <1>7, Folded
<1> QED
  BY <1>5, <1>6, <1>7, Changes

-----------------------------------------------------------------------------
\* A chapter that has just been marked is complete.
LEMMA MarkedIsComplete ==
  ASSUME Inv, UpdateStory
  PROVE  /\ Chapter \in chapters /\ summary[Chapter] # 0
         /\ run.id \in layers /\ LayersOf(Chapter) \subseteq inChapter
         /\ \A f \in facts : of[f[1]] = Chapter =>
              f \notin tokens /\ f \in embedded /\ <<f, f[1]>> \in evidence
<1>1. /\ TypeOK /\ ChapterThere /\ SummaryThere /\ ChunksWritten /\ ChunksAttached
      /\ TokensCleared /\ FactsEmbedded /\ Written
  BY DEF Inv
<1>2. run.step = "story"
  BY DEF UpdateStory, At
<1>3. /\ Chapter \in chapters /\ summary[Chapter] # 0
      /\ run.id \in layers /\ LayersOf(Chapter) \subseteq inChapter
      /\ Own(tokens) = {} /\ Own(facts) \subseteq embedded
  BY <1>1, <1>2
  DEF ChapterThere, SummaryThere, ChunksWritten, ChunksAttached, TokensCleared, FactsEmbedded,
      AfterChunks, AfterChapter, AfterAttach, AfterClear, AfterEmbed, AfterSummary, Steps
<1>4. ASSUME NEW f \in facts, of[f[1]] = Chapter
      PROVE  f \notin tokens /\ f \in embedded /\ <<f, f[1]>> \in evidence
  <2>1. f \in Own(facts)
    BY <1>4 DEF Own, Novel
  <2>2. f \notin tokens
    BY <1>3, <1>4 DEF Own, Novel
  <2> QED
    BY <1>1, <1>3, <2>1, <2>2 DEF Written
<1> QED
  BY <1>3, <1>4

\* A run that may still write is of a chapter that is not marked.
LEMMA NotMarkedYet ==
  ASSUME Inv, run.step \in Steps \ {"count"}
  PROVE  Novel \in Novels /\ Episode \notin marked[Novel]
<1>1. TypeOK /\ RunIsNext /\ GlobalSummaryOnce
  BY DEF Inv
<1>2. Novel \in Novels /\ Episode = Len(story[Novel]) + 1 /\ Len(story[Novel]) \in Nat
  BY <1>1, Known DEF RunIsNext, NextInStory, Novel, Episode
<1>3. marked[Novel] = 1 .. Len(story[Novel])
  BY <1>1, <1>2 DEF GlobalSummaryOnce
<1> QED
  BY <1>2, <1>3

LEMMA MarkersKept == ASSUME Inv, [Next]_vars, TypeOK' PROVE MarkerMeansComplete'
<1>1. TypeOK /\ MarkerMeansComplete
  BY DEF Inv
<1>2. SUFFICES ASSUME NEW v \in Novels, NEW n \in marked'[v]
      PROVE  /\ <<v, n>> \in chapters'
             /\ summary'[<<v, n>>] # 0
             /\ \E r \in layers' : of'[r] = <<v, n>>
             /\ \A r \in layers' : of'[r] = <<v, n>> => r \in inChapter'
             /\ \A f \in facts' : of'[f[1]] = <<v, n>> =>
                  f \notin tokens' /\ f \in embedded' /\ <<f, f[1]>> \in evidence'
  BY DEF MarkerMeansComplete
<1>3. \A r \in layers : of'[r] = of[r]
  BY <1>1, RunsStay DEF TypeOK
<1>4. CASE n \notin marked[v]
  <2>1. UpdateStory
    BY <1>2, <1>4, Changes
  <2>2. n = Episode /\ v = Novel
    BY <1>1, <1>2, <1>4, <2>1, Folded DEF TypeOK
  <2>3. Chapter = <<v, n>>
    BY <2>1, <2>2, Folded
  <2>4. UNCHANGED <<of, chapters, summary, layers, inChapter, facts, tokens, embedded, evidence>>
    BY <2>1 DEF UpdateStory
  <2> QED
    BY <2>1, <2>3, <2>4, MarkedIsComplete DEF LayersOf, Chapter
<1>5. CASE n \in marked[v]
  <2>0. run.step \in Steps \ {"count"} => Chapter # <<v, n>>
    BY <1>1, <1>5, NotMarkedYet, Known
  <2>c. <<v, n>> \in Chapters
    BY <1>1, <1>5 DEF TypeOK, Chapters
  <2>1. <<v, n>> \in chapters'
    BY <1>1, <1>5, Changes DEF MarkerMeansComplete, MergeChapter
  <2>2. summary'[<<v, n>>] # 0
    <3>1. CASE StoreSummary
      <4>1. Chapter # <<v, n>>
        BY <2>0, <3>1 DEF StoreSummary, At, Steps
      <4>2. summary'[<<v, n>>] = summary[<<v, n>>]
        BY <2>c, <3>1, <4>1 DEF StoreSummary, OnChapter
      <4> QED
        BY <1>1, <1>5, <4>2 DEF MarkerMeansComplete
    <3> QED
      BY <1>1, <1>5, <3>1, Changes DEF MarkerMeansComplete
  <2>3. \E r \in layers' : of'[r] = <<v, n>>
    BY <1>1, <1>3, <1>5, FactsStay DEF MarkerMeansComplete
  <2>4. ASSUME NEW r \in layers', of'[r] = <<v, n>> PROVE r \in inChapter'
    <3>1. CASE r \in layers
      BY <1>1, <1>3, <1>5, <2>4, <3>1, FactsStay DEF MarkerMeansComplete
    <3>2. CASE r \notin layers
      <4>1. WriteChunks /\ r = run.id
        BY <2>4, <3>2, Changes DEF WriteChunks
      <4>2. of'[r] = Chapter
        BY <4>1 DEF WriteChunks, Chapter
      <4> QED
        BY <2>0, <2>4, <4>1, <4>2 DEF WriteChunks, At, Steps
    <3> QED
      BY <3>1, <3>2
  <2>5. ASSUME NEW f \in facts', of'[f[1]] = <<v, n>>
        PROVE  f \notin tokens' /\ f \in embedded' /\ <<f, f[1]>> \in evidence'
    <3>1. ASSUME NEW F \in SUBSET Pieces, NEW X \in SUBSET Names, WriteExtracted(F, X)
          PROVE  f[1] # run.id
      BY <2>0, <2>5, <3>1 DEF WriteExtracted, At, Steps, Chapter
    <3>2. f \in facts
      BY <2>5, <3>1, Extracted, Changes
    <3>3. f \notin tokens /\ f \in embedded /\ <<f, f[1]>> \in evidence
      BY <1>1, <1>5, <2>5, <3>2, FactsStay DEF MarkerMeansComplete
    <3>4. f \notin tokens'
      BY <3>1, <3>3, Extracted, Changes DEF ClearTokens
    <3> QED
      BY <1>1, <3>3, <3>4, FactsStay
  <2> QED
    BY <2>1, <2>2, <2>3, <2>4, <2>5
<1> QED
  BY <1>4, <1>5

LEMMA InvKept == ASSUME Inv, [Next]_vars PROVE Inv'
<1>1. TypeOK'
  BY TypesKept DEF Inv
<1> QED
  BY <1>1, WrittenKept, RunIsNextKept, TokensAreNextKept, ChunksWrittenKept, ChapterThereKept,
     ChunksAttachedKept, TokensLinkedKept, TokensClearedKept, FactsEmbeddedKept,
     SummaryThereKept, StoryKept, EvidenceKept, MarkersKept
  DEF Inv

\* Along every behaviour the invariant holds.
THEOREM PipelineInv == Spec => []Inv
BY InvHolds, InvKept, PTL DEF Spec

\* A chapter with the marker is complete, whatever runs failed before.
THEOREM MarkersAreTrue == Spec => []MarkerMeansComplete
<1>1. Inv => MarkerMeansComplete
  BY DEF Inv
<1> QED
  BY <1>1, PipelineInv, PTL

\* A fact is never tied to the text of another chapter.
THEOREM EvidenceAtHome == Spec => []EvidenceStaysHome
<1>1. Inv => EvidenceStaysHome
  BY DEF Inv
<1> QED
  BY <1>1, PipelineInv, PTL

\* The story folds in the completed chapters once and in order.
THEOREM StoryFoldedOnce == Spec => []GlobalSummaryOnce
<1>1. Inv => GlobalSummaryOnce
  BY DEF Inv
<1> QED
  BY <1>1, PipelineInv, PTL

-----------------------------------------------------------------------------
\* The entities of the run's novel, once the resolvers and the merged
\* descriptions are done with.
AfterResolve == AfterClear \cup {"evidence", "clear"}
AfterCollapse == AfterEmbed \cup {"embed"}
NodesResolved == run.step \in AfterResolve => \A x \in Names : nodes[Novel][x] <= 1
NothingCombined ==
  run.step \in AfterCollapse => \A x \in Names : <<Novel, x>> \notin combined

LEMMA NodesResolvedKept == ASSUME TypeOK, NodesResolved, [Next]_vars PROVE NodesResolved'
<1> USE DEF AfterResolve, AfterClear
<1>1. CASE Resolved
  <2>1. UNCHANGED nodes /\ run.step \in Steps /\ Duplicates = {}
    BY <1>1 DEF Resolved, graph, At, Steps
  <2>2. \A x \in Names : nodes[Novel][x] \in Nat
    BY <2>1, Known DEF TypeOK
  <2>3. \A x \in Names : nodes[Novel][x] <= 1
    BY <2>1, <2>2 DEF Duplicates
  <2>4. run'.step \in AfterResolve => run'.step \in Steps
    BY DEF Steps
  <2> QED
    BY <2>1, <2>3, <2>4, SameRun DEF NodesResolved
<1>2. CASE run.step \in AfterResolve
  <2>1. UNCHANGED nodes
    BY <1>2, Changes DEF WriteExtracted, Merge, At
  <2> QED
    BY <1>2, <2>1, SameRun DEF NodesResolved, Steps
<1>3. run'.step \in AfterResolve => run.step \in AfterResolve \/ Resolved
  <2>1. ASSUME NEW t, Goto(t) PROVE run'.step = t
    BY <2>1 DEF Goto, TypeOK, Idle
  <2>2. CASE run' = run \/ run' = Idle \/ \E c \in Chapters, n \in Pieces : Begin(c, n)
    BY <2>2 DEF Idle, Begin
  <2>3. CASE ReadContext \/ WriteChunks \/ MergeChapter \/ AttachChunks
    BY <2>1, <2>3 DEF ReadContext, WriteChunks, MergeChapter, AttachChunks
  <2>4. CASE \E F \in SUBSET Pieces, X \in SUBSET Names : WriteExtracted(F, X)
    BY <2>1, <2>4 DEF WriteExtracted
  <2>5. CASE LinkEvidence \/ ClearTokens \/ Collapsed \/ Embedded \/ StoreSummary \/ UpdateStory
    BY <2>5 DEF LinkEvidence, ClearTokens, Collapsed, Embedded, StoreSummary, UpdateStory, At
  <2> QED
    BY <2>2, <2>3, <2>4, <2>5, Moves
<1> QED
  BY <1>1, <1>2, <1>3 DEF NodesResolved

LEMMA NothingCombinedKept == ASSUME TypeOK, NothingCombined, [Next]_vars PROVE NothingCombined'
<1> USE DEF AfterCollapse, AfterEmbed
<1>1. CASE Collapsed
  <2>1. UNCHANGED combined /\ run.step \in Steps /\ \A x \in Names : <<Novel, x>> \notin combined
    BY <1>1 DEF Collapsed, graph, At, Steps
  <2>2. run'.step \in AfterCollapse => run'.step \in Steps
    BY DEF Steps
  <2> QED
    BY <2>1, <2>2, SameRun DEF NothingCombined
<1>2. CASE run.step \in AfterCollapse
  <2>1. UNCHANGED combined
    BY <1>2, Changes DEF Merge, Collapse, At
  <2> QED
    BY <1>2, <2>1, SameRun DEF NothingCombined, Steps
<1>3. run'.step \in AfterCollapse => run.step \in AfterCollapse \/ Collapsed
  <2>1. ASSUME NEW t, Goto(t) PROVE run'.step = t
    BY <2>1 DEF Goto, TypeOK, Idle
  <2>2. CASE run' = run \/ run' = Idle \/ \E c \in Chapters, n \in Pieces : Begin(c, n)
    BY <2>2 DEF Idle, Begin
  <2>3. CASE ReadContext \/ WriteChunks \/ MergeChapter \/ AttachChunks
    BY <2>1, <2>3 DEF ReadContext, WriteChunks, MergeChapter, AttachChunks
  <2>4. CASE \E F \in SUBSET Pieces, X \in SUBSET Names : WriteExtracted(F, X)
    BY <2>1, <2>4 DEF WriteExtracted
  <2>5. CASE Resolved \/ LinkEvidence \/ ClearTokens
    BY <2>1, <2>5 DEF Resolved, LinkEvidence, ClearTokens
  <2>6. CASE Embedded \/ StoreSummary \/ UpdateStory
    BY <2>6 DEF Embedded, StoreSummary, UpdateStory, At
  <2> QED
    BY <2>2, <2>3, <2>4, <2>5, <2>6, Moves
<1> QED
  BY <1>1, <1>2, <1>3 DEF NothingCombined

LEMMA MarkingIsTidy ==
  ASSUME Inv, NodesResolved, NothingCombined, [Next]_vars,
         NEW v \in Novels, marked'[v] # marked[v], NEW x \in Names
  PROVE  nodes[v][x] <= 1 /\ <<v, x>> \notin combined
<1>1. UpdateStory
  BY Changes
<1>2. v = Novel
  <2>1. marked \in [Novels -> SUBSET Episodes] /\ Novel \in Novels
    BY <1>1, Folded DEF Inv, TypeOK
  <2> QED
    BY <1>1, <2>1, Folded
<1> QED
  BY <1>1, <1>2
  DEF UpdateStory, At, NodesResolved, NothingCombined, AfterResolve, AfterClear, AfterCollapse,
      AfterEmbed

\* A marker is written over a novel whose entities are all merged.
THEOREM MarkedIsTidy == Spec => MarkedWhenTidy
<1>1. Init => NodesResolved /\ NothingCombined
  BY DEF Init, Idle, NodesResolved, NothingCombined, AfterResolve, AfterClear, AfterCollapse,
         AfterEmbed
<1>2. Inv => TypeOK
  BY DEF Inv
<1>3. Inv /\ NodesResolved /\ NothingCombined /\ [Next]_vars
      => NodesResolved' /\ NothingCombined'
  BY <1>2, NodesResolvedKept, NothingCombinedKept
<1>4. Inv /\ NodesResolved /\ NothingCombined /\ [Next]_vars
      => [\A v \in Novels : marked'[v] # marked[v] =>
            \A x \in Names : nodes[v][x] <= 1 /\ <<v, x>> \notin combined]_vars
  BY MarkingIsTidy
<1> QED
  BY <1>1, <1>3, <1>4, PipelineInv, PTL DEF Spec, MarkedWhenTidy

-----------------------------------------------------------------------------
LEMMA LedgerStarts == Init => Ledger!LedgerInit
<1> SUFFICES ASSUME Init PROVE Ledger!LedgerInit
  OBVIOUS
<1>1. 1 .. 0 = {} /\ 0 \in 0 .. MaxEpisode
  BY PipelineBounds
<1>2. {} \in {1 .. k : k \in 0 .. MaxEpisode}
  BY <1>1
<1>3. marked \in [Novels -> {1 .. k : k \in 0 .. MaxEpisode}]
  BY <1>2 DEF Init
<1>4. Writing = <<>>
  BY DEF Init, Idle, Writing, Steps
<1> QED
  BY <1>3, <1>4 DEF Ledger!LedgerInit

LEMMA LedgerSteps ==
  ASSUME Inv, [Next]_vars
  PROVE  [Ledger!LedgerNext]_<<marked, Writing>>
<1>1. TypeOK
  BY DEF Inv
<1>2. ASSUME NEW c \in Chapters, NEW n \in Pieces, Begin(c, n)
      PROVE  Ledger!LedgerNext
  <2>1. c[1] \in Novels /\ c[2] \in 1 .. MaxEpisode /\ c = <<c[1], c[2]>>
    BY DEF Chapters, Episodes
  <2>2. Writing = <<>> /\ Writing' = c /\ marked[c[1]] = 1 .. (c[2] - 1) /\ UNCHANGED marked
    BY <1>2, NewRun DEF Writing, Begin, At, Steps, graph
  <2>3. Ledger!Begin(c[1], c[2])
    BY <2>1, <2>2 DEF Ledger!Begin
  <2> QED
    BY <2>1, <2>3 DEF Ledger!LedgerNext
<1>3. CASE UpdateStory
  <2>1. Writing = <<Novel, Episode>> /\ Writing' = <<>>
    <3>1. run.step = "story" /\ run'.step = "count"
      BY <1>1, <1>3 DEF UpdateStory, At, Goto, TypeOK, Idle
    <3> QED
      BY <1>3, <3>1, Folded DEF Writing, Steps
  <2>2. marked' = [marked EXCEPT ![Novel] = @ \cup {Episode}]
    BY <1>3, Folded
  <2>3. Ledger!Commit
    BY <2>1, <2>2 DEF Ledger!Commit
  <2> QED
    BY <2>3 DEF Ledger!LedgerNext
<1>4. ASSUME UNCHANGED marked, run' = Idle
      PROVE  Ledger!LedgerNext \/ UNCHANGED <<marked, Writing>>
  <2>1. Writing' = <<>>
    BY <1>4 DEF Writing, Idle, Steps
  <2>2. CASE run.step \in Steps \ {"count"}
    <3>1. Writing # <<>>
      BY <1>1, <2>2, Known DEF Writing
    <3> QED
      BY <1>4, <2>1, <3>1 DEF Ledger!LedgerNext, Ledger!Abandon
  <2>3. CASE run.step \notin Steps \ {"count"}
    BY <1>4, <2>1, <2>3 DEF Writing
  <2> QED
    BY <2>2, <2>3
<1>5. ASSUME UNCHANGED marked, run.step \in Steps \ {"count"}, run'.step \in Steps \ {"count"}
      PROVE  UNCHANGED <<marked, Writing>>
  BY <1>1, <1>5, SameRun DEF Writing
<1>6. CASE UNCHANGED <<of, run, marked>>
  BY <1>6 DEF Writing, Chapter
<1>7. \/ \E c \in Chapters, n \in Pieces : Begin(c, n)
      \/ UpdateStory
      \/ UNCHANGED marked /\ run' = Idle
      \/ UNCHANGED marked /\ run.step \in Steps \ {"count"} /\ run'.step \in Steps \ {"count"}
      \/ UNCHANGED <<of, run, marked>>
  <2>1. ASSUME NEW t, Goto(t) PROVE run'.step = t
    BY <2>1, <1>1 DEF Goto, TypeOK, Idle
  <2>2. \/ \E c \in Chapters, n \in Pieces : Begin(c, n)
        \/ UpdateStory
        \/ UNCHANGED <<of, marked>>
    BY Changes
  <2>3. CASE run' = run \/ run' = Idle
    <3>1. UNCHANGED <<of, marked>> \/ UpdateStory \/ \E c \in Chapters, n \in Pieces : Begin(c, n)
      BY <2>2
    <3> QED
      BY <2>3, <3>1
  <2>4. CASE ReadContext \/ WriteChunks \/ MergeChapter \/ AttachChunks
    BY <2>1, <2>2, <2>4 DEF ReadContext, WriteChunks, MergeChapter, AttachChunks, At, Steps
  <2>5. CASE \E F \in SUBSET Pieces, X \in SUBSET Names : WriteExtracted(F, X)
    BY <2>1, <2>2, <2>5 DEF WriteExtracted, At, Steps
  <2>6. CASE Resolved \/ LinkEvidence \/ ClearTokens
    BY <2>1, <2>2, <2>6 DEF Resolved, LinkEvidence, ClearTokens, At, Steps
  <2>7. CASE Collapsed \/ Embedded \/ StoreSummary
    BY <2>1, <2>2, <2>7 DEF Collapsed, Embedded, StoreSummary, At, Steps
  <2> QED
    BY <2>2, <2>3, <2>4, <2>5, <2>6, <2>7, Moves
<1> QED
  BY <1>2, <1>3, <1>4, <1>5, <1>6, <1>7

\* Seen from the markers, a run is a step of the ledger.
THEOREM RunImplementsLedger == Spec => ImplementsLedger
<1>1. Inv /\ [Next]_vars => [Ledger!LedgerNext]_<<marked, Writing>>
  BY LedgerSteps
<1> QED
  BY LedgerStarts, <1>1, PipelineInv, PTL
  DEF Spec, ImplementsLedger, Ledger!LedgerSpec, Ledger!ledgerVars

-----------------------------------------------------------------------------
\* Facts and summaries are of the chapters in the story and of the next one,
\* and a run that has read nothing yet has written nothing.
Reached(c) == c[2] <= Len(story[c[1]]) + 1
FactsReached == \A f \in facts : Reached(of[f[1]])
SummariesReached ==
  \A c \in Chapters : summary[c] # 0 => Reached(c) /\ of[summary[c]] = c
NothingWrittenYet ==
  run.step = "context" =>
    /\ \A f \in facts : f[1] < run.id
    /\ \A c \in Chapters : summary[c] < run.id

ToldInv ==
  /\ Inv /\ FactsReached /\ SummariesReached /\ NothingWrittenYet
  /\ BackgroundIsStorySoFar

\* The story only gets longer.
LEMMA StoryGrows ==
  ASSUME Inv, [Next]_vars, NEW c \in Chapters, Reached(c)
  PROVE  c[2] <= Len(story'[c[1]]) + 1
<1>1. TypeOK /\ c[1] \in Novels /\ c[2] \in Nat
  BY PipelineBounds DEF Inv, Chapters, Episodes
<1>2. CASE UNCHANGED story
  BY <1>2 DEF Reached
<1>3. CASE UpdateStory
  <2>1. story \in [Novels -> Seq(1 .. Len(of))] /\ run.id \in 1 .. Len(of)
    BY <1>1, <1>3, Known DEF TypeOK, UpdateStory, At, Steps
  <2>2. \A s \in Seq(1 .. Len(of)) : Len(s) \in Nat /\ Len(Append(s, run.id)) = Len(s) + 1
    BY <2>1
  <2>3. story'[c[1]] = story[c[1]] \/ story'[c[1]] = Append(story[c[1]], run.id)
    BY <1>1, <1>3, <2>1 DEF UpdateStory
  <2>4. story[c[1]] \in Seq(1 .. Len(of))
    BY <1>1, <2>1
  <2>5. Len(story[c[1]]) \in Nat /\ Len(story'[c[1]]) >= Len(story[c[1]])
    BY <2>2, <2>3, <2>4
  <2>6. Len(story'[c[1]]) \in Nat
    BY <2>2, <2>3, <2>4
  <2> QED
    BY <1>1, <2>5, <2>6 DEF Reached
<1> QED
  BY <1>2, <1>3, Changes

LEMMA FactsReachedKept == ASSUME ToldInv, [Next]_vars PROVE FactsReached'
<1>1. Inv /\ TypeOK /\ FactsReached
  BY DEF ToldInv, Inv
<1>2. SUFFICES ASSUME NEW f \in facts' PROVE Reached(of[f[1]])'
  BY DEF FactsReached
<1>3. CASE f \in facts
  <2>1. of'[f[1]] = of[f[1]] /\ of[f[1]] \in Chapters
    <3>1. f[1] \in 1 .. Len(of)
      BY <1>1, <1>3, Known
    <3> QED
      BY <1>1, <1>3, <3>1, FactsStay DEF TypeOK
  <2>2. of[f[1]][2] <= Len(story'[of[f[1]][1]]) + 1
    BY <1>1, <1>3, <2>1, StoryGrows DEF FactsReached
  <2> QED
    BY <2>1, <2>2 DEF Reached
<1>4. CASE f \notin facts
  <2>1. PICK F \in SUBSET Pieces, X \in SUBSET Names : WriteExtracted(F, X)
    BY <1>2, <1>4, Changes
  <2>2. f[1] = run.id /\ NextInStory(Chapter)
    BY <1>1, <1>2, <1>4, <2>1, Extracted
  <2>3. UNCHANGED <<story, of>> /\ run.step \in Steps
    BY <2>1 DEF WriteExtracted, At, Steps
  <2>4. of'[f[1]] = Chapter /\ Len(story[Chapter[1]]) \in Nat
    BY <1>1, <2>2, <2>3, Known DEF Chapter, Novel
  <2> QED
    BY <2>2, <2>3, <2>4 DEF NextInStory, Reached
<1> QED
  BY <1>3, <1>4

LEMMA SummariesReachedKept == ASSUME ToldInv, [Next]_vars PROVE SummariesReached'
<1>1. Inv /\ TypeOK /\ SummariesReached
  BY DEF ToldInv, Inv
<1>2. SUFFICES ASSUME NEW c \in Chapters, summary'[c] # 0
      PROVE  Reached(c)' /\ of'[summary'[c]] = c
  BY DEF SummariesReached
<1>3. CASE summary'[c] = summary[c]
  <2>1. summary[c] \in 1 .. Len(of)
    BY <1>1, <1>2, <1>3 DEF TypeOK
  <2>2. Reached(c) /\ of[summary[c]] = c
    BY <1>1, <1>2, <1>3 DEF SummariesReached
  <2> QED
    BY <1>1, <1>3, <2>1, <2>2, RunsStay, StoryGrows DEF Reached
<1>4. CASE summary'[c] # summary[c]
  <2>1. StoreSummary
    BY <1>4, Changes
  <2>2. c = Chapter /\ summary'[c] = run.id
    BY <1>4, <2>1 DEF StoreSummary, OnChapter
  <2>3. NextInStory(Chapter) /\ Len(story[Chapter[1]]) \in Nat
    BY <1>1, <2>1, Known DEF Inv, RunIsNext, StoreSummary, At, Steps, Novel
  <2>4. UNCHANGED <<story, of>>
    BY <2>1 DEF StoreSummary
  <2> QED
    BY <2>2, <2>3, <2>4 DEF NextInStory, Reached, Chapter
<1> QED
  BY <1>3, <1>4

LEMMA NothingWrittenYetKept == ASSUME ToldInv, [Next]_vars PROVE NothingWrittenYet'
<1>1. Inv /\ TypeOK /\ NothingWrittenYet
  BY DEF ToldInv, Inv
<1>2. CASE \E c \in Chapters, n \in Pieces : Begin(c, n)
  <2>1. UNCHANGED <<facts, summary>> /\ run'.id = Len(of) + 1 /\ Len(of) \in Nat
    BY <1>1, <1>2, Known DEF Begin, graph
  <2>2. \A f \in facts : f[1] \in 1 .. Len(of)
    BY <1>1, Known
  <2>3. \A c \in Chapters : summary[c] \in 0 .. Len(of)
    BY <1>1 DEF TypeOK
  <2> QED
    BY <2>1, <2>2, <2>3 DEF NothingWrittenYet
<1>3. CASE run'.step = "context" /\ run' = run
  <2>1. UNCHANGED <<facts, summary>> \/ run.step \in {"extract", "summary"}
    BY Changes DEF WriteExtracted, StoreSummary, At
  <2> QED
    BY <1>1, <1>3, <2>1 DEF NothingWrittenYet
<1>4. \/ \E c \in Chapters, n \in Pieces : Begin(c, n)
      \/ run'.step = "context" => run' = run
  <2>1. ASSUME NEW t, Goto(t) PROVE run'.step = t
    BY <1>1, <2>1 DEF Goto, TypeOK, Idle
  <2>2. ReadContext \/ WriteChunks \/ MergeChapter \/ AttachChunks => run'.step # "context"
    BY <2>1 DEF ReadContext, WriteChunks, MergeChapter, AttachChunks
  <2>3. (\E F \in SUBSET Pieces, X \in SUBSET Names : WriteExtracted(F, X))
        => run'.step # "context"
    BY <2>1 DEF WriteExtracted
  <2>4. Resolved \/ LinkEvidence \/ ClearTokens \/ Collapsed => run'.step # "context"
    BY <2>1 DEF Resolved, LinkEvidence, ClearTokens, Collapsed
  <2>5. Embedded \/ StoreSummary \/ UpdateStory => run'.step # "context"
    BY <2>1 DEF Embedded, StoreSummary, UpdateStory
  <2>6. run' = Idle => run'.step # "context"
    BY DEF Idle
  <2> QED
    BY <2>2, <2>3, <2>4, <2>5, <2>6, Moves
<1> QED
  BY <1>2, <1>3, <1>4 DEF NothingWrittenYet

\* What is read is the story so far and, of the chapter itself, what an earlier
\* run left.
LEMMA ReadIsStorySoFar ==
  ASSUME ToldInv, ReadContext
  PROVE  /\ 1 .. (Episode - 1) \subseteq background'
         /\ background' \subseteq 1 .. Episode
         /\ Episode \in background' => \E r \in 1 .. (run.id - 1) : of[r] = Chapter
<1>1. /\ TypeOK /\ FactsReached /\ SummariesReached /\ NothingWrittenYet
      /\ RunIsNext /\ GlobalSummaryOnce
  BY DEF ToldInv, Inv
<1>2. run.step = "context" /\ run.step \in Steps \ {"count"}
  BY DEF ReadContext, At, Steps
<1>3. /\ Novel \in Novels /\ Len(story[Novel]) \in Nat /\ run.id \in Nat \ {0}
      /\ Episode = Len(story[Novel]) + 1 /\ Chapter = <<Novel, Episode>>
  BY <1>1, <1>2, Known DEF RunIsNext, NextInStory, Novel, Episode
<1>4. \A n \in Dumped :
        n \in 1 .. Episode /\ (n = Episode => \E r \in 1 .. (run.id - 1) : of[r] = Chapter)
  <2>1. SUFFICES ASSUME NEW f \in Own(facts)
        PROVE  /\ of[f[1]][2] \in 1 .. Episode
               /\ of[f[1]][2] = Episode => \E r \in 1 .. (run.id - 1) : of[r] = Chapter
    BY DEF Dumped
  <2>2. f \in facts /\ of[f[1]][1] = Novel /\ f[1] \in 1 .. Len(of)
    BY <1>1, Known DEF Own
  <2>3. of[f[1]] = <<Novel, of[f[1]][2]>> /\ of[f[1]][2] \in Nat \ {0} /\ f[1] \in Nat \ {0}
    BY <1>1, <2>2, Known
  <2>4. of[f[1]][2] <= Episode /\ f[1] < run.id
    BY <1>1, <1>2, <1>3, <2>2 DEF FactsReached, Reached, NothingWrittenYet
  <2>5. f[1] \in 1 .. (run.id - 1)
    BY <1>3, <2>3, <2>4
  <2> QED
    BY <1>3, <2>3, <2>4, <2>5
<1>5. \A n \in Recent :
        n \in 1 .. Episode /\ (n = Episode => \E r \in 1 .. (run.id - 1) : of[r] = Chapter)
  <2>1. SUFFICES ASSUME NEW n \in Episodes, summary[<<Novel, n>>] # 0
        PROVE  n \in 1 .. Episode /\ (n = Episode => \E r \in 1 .. (run.id - 1) : of[r] = Chapter)
    BY DEF Recent
  <2>2. <<Novel, n>> \in Chapters /\ n \in Nat \ {0}
    BY <1>3, PipelineBounds DEF Chapters, Episodes
  <2>3. summary[<<Novel, n>>] \in Nat
    BY <1>1, <2>2 DEF TypeOK
  <2>4. n <= Episode /\ of[summary[<<Novel, n>>]] = <<Novel, n>> /\ summary[<<Novel, n>>] < run.id
    BY <1>1, <1>2, <1>3, <2>1, <2>2 DEF SummariesReached, Reached, NothingWrittenYet
  <2>5. summary[<<Novel, n>>] \in 1 .. (run.id - 1)
    BY <1>3, <2>1, <2>3, <2>4
  <2>6. n \in 1 .. Episode
    BY <1>3, <2>2, <2>4
  <2>7. n = Episode => of[summary[<<Novel, n>>]] = Chapter
    BY <1>3, <2>4
  <2> QED
    BY <2>5, <2>6, <2>7
<1>6. {of[r][2] : r \in Range(story[Novel])} = 1 .. (Episode - 1)
  <2>1. DOMAIN story[Novel] = 1 .. Len(story[Novel])
    <3>1. story \in [Novels -> Seq(1 .. Len(of))]
      BY <1>1 DEF TypeOK
    <3>2. story[Novel] \in Seq(1 .. Len(of))
      BY <1>3, <3>1
    <3> QED
      BY <3>2
  <2>2. \A i \in 1 .. Len(story[Novel]) : of[story[Novel][i]][2] = i
    <3>1. \A i \in 1 .. Len(story[Novel]) : of[story[Novel][i]] = <<Novel, i>>
      BY <1>1, <1>3 DEF GlobalSummaryOnce
    <3> QED
      BY <3>1
  <2>3. \A n \in 1 .. (Episode - 1) : n \in 1 .. Len(story[Novel])
    BY <1>3
  <2>4. \A i \in 1 .. Len(story[Novel]) : i \in 1 .. (Episode - 1)
    BY <1>3
  <2>5. ASSUME NEW n \in 1 .. (Episode - 1)
        PROVE  \E r \in Range(story[Novel]) : n = of[r][2]
    BY <2>1, <2>2, <2>3 DEF Range
  <2>6. ASSUME NEW r \in Range(story[Novel]) PROVE of[r][2] \in 1 .. (Episode - 1)
    <3>1. PICK i \in 1 .. Len(story[Novel]) : r = story[Novel][i]
      BY <2>1 DEF Range
    <3> QED
      BY <2>2, <2>4, <3>1
  <2> QED
    BY <2>5, <2>6
<1>7. background' = Dumped \cup Recent \cup (1 .. (Episode - 1))
  BY <1>6 DEF ReadContext, Background
<1>8. \A n \in 1 .. (Episode - 1) : n \in 1 .. Episode /\ n # Episode
  BY <1>3
<1> QED
  BY <1>4, <1>5, <1>7, <1>8

LEMMA BackgroundKept == ASSUME ToldInv, [Next]_vars PROVE BackgroundIsStorySoFar'
<1>1. Inv /\ TypeOK /\ BackgroundIsStorySoFar
  BY DEF ToldInv, Inv
<1>2. SUFFICES ASSUME run'.step \in Steps \ {"context"}
      PROVE  /\ 1 .. (Episode' - 1) \subseteq background'
             /\ background' \subseteq 1 .. Episode'
             /\ Episode' \in background' => \E r \in 1 .. (run'.id - 1) : of'[r] = Chapter'
  BY DEF BackgroundIsStorySoFar
<1>3. CASE ReadContext
  <2>1. run.step \in Steps /\ UNCHANGED of
    BY <1>3 DEF ReadContext, At, Steps
  <2> QED
    BY <1>1, <1>2, <1>3, <2>1, SameRun, ReadIsStorySoFar
<1>4. CASE run.step \in Steps \ {"context"}
  <2>1. UNCHANGED background
    BY <1>2, <1>4, Changes DEF ReadContext, Return, Fail, At, Idle, Steps
  <2>2. run'.id = run.id /\ Chapter' = Chapter /\ Episode' = Episode
    BY <1>1, <1>2, <1>4, SameRun
  <2>3. \A r \in 1 .. (run.id - 1) : of'[r] = of[r]
    <3>1. Len(of) \in Nat /\ run.id \in 1 .. Len(of)
      BY <1>1, <1>4, Known
    <3>2. \A r \in 1 .. (run.id - 1) : r \in 1 .. Len(of)
      BY <3>1
    <3> QED
      BY <1>1, <3>2, RunsStay
  <2> QED
    BY <1>1, <1>4, <2>1, <2>2, <2>3 DEF BackgroundIsStorySoFar
<1>5. ReadContext \/ run.step \in Steps \ {"context"}
  BY <1>2, Moves
  DEF Begin, Idle, WriteChunks, MergeChapter, AttachChunks, WriteExtracted, Resolved,
      LinkEvidence, ClearTokens, Collapsed, Embedded, StoreSummary, UpdateStory, At, Steps
<1> QED
  BY <1>3, <1>4, <1>5

\* A run is told of every chapter before its own and of none after it.
THEOREM ToldTheStorySoFar == Spec => []BackgroundIsStorySoFar
<1>1. Init => ToldInv
  <2> SUFFICES ASSUME Init PROVE ToldInv
    OBVIOUS
  <2>1. Inv /\ run.step = "idle" /\ facts = {} /\ \A c \in Chapters : summary[c] = 0
    BY InvHolds DEF Init, Idle
  <2> QED
    BY <2>1 DEF ToldInv, FactsReached, SummariesReached, NothingWrittenYet,
                BackgroundIsStorySoFar, Steps
<1>2. ToldInv /\ [Next]_vars => ToldInv'
  <2> SUFFICES ASSUME ToldInv, [Next]_vars PROVE ToldInv'
    OBVIOUS
  <2>1. Inv'
    BY InvKept DEF ToldInv
  <2> QED
    BY <2>1, FactsReachedKept, SummariesReachedKept, NothingWrittenYetKept, BackgroundKept
    DEF ToldInv
<1>3. ToldInv => BackgroundIsStorySoFar
  BY DEF ToldInv
<1> QED
  BY <1>1, <1>2, <1>3, PTL DEF Spec

=============================================================================
