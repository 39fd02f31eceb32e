----------------------------- MODULE DetectStages -----------------------------
(***************************************************************************)
(* The three stages of one check (service/detect/): the claims of the      *)
(* manuscript's pieces are extracted in parallel, the graph is searched    *)
(* for each claim in a pool of threads, and one answer of the model judges *)
(* all claims against what the searches brought.                           *)
(*                                                                         *)
(* The graph is fixed during a check.  What the model answers is a choice; *)
(* its answers are JSON that nobody has validated.                         *)
(***************************************************************************)
EXTENDS Integers, Sequences, FiniteSets, SequencesExt

CONSTANTS
  Pieces,     \* number of pieces of the manuscript
  LastLine,   \* number of its lines
  Claimable,  \* what the model can claim: records of Route's kind and lines
  MaxClaims,  \* bound: claims of a piece
  Checked,    \* up_to_chapter, the number of the chapter that is checked
  Chunks,     \* Chunk nodes of the novel
  Facts,      \* Event and CharacterState nodes of the novel
  ChapterOf,  \* ChapterOf[n]: chapter a chunk or a fact is said to be of, or Null
  IndexOf,    \* IndexOf[c]: number of chunk c in its chapter
  Evidence,   \* Evidence[f]: the chunks fact f is EVIDENCED_BY
  MaxVerdicts \* bound: verdicts of an answer

Null == -1
Nodes == Chunks \cup Facts

ASSUME StagesBounds ==
  /\ Pieces \in Nat \ {0} /\ LastLine \in Nat /\ MaxClaims \in Nat /\ MaxVerdicts \in Nat
  /\ IsFiniteSet(Chunks) /\ IsFiniteSet(Facts)
  /\ Checked \in Int /\ \A n \in Nodes : ChapterOf[n] \in Int
  /\ \A f \in Facts : Evidence[f] \in Seq(Chunks)

VARIABLES
  stage,    \* the stage the check is at, or how it ended
  answers,  \* answers[p]: the claims of piece p, Pending until they are there
  claims,   \* the claims, numbered
  found,    \* found[i]: what the searches for claim i brought, or Pending
  store,    \* the nodes the judge is shown, and which of them for which claim
  verdicts, \* the verdicts of its answer
  findings  \* the result

vars == <<stage, answers, claims, found, store, verdicts, findings>>

Pending == [pending |-> TRUE]
Empty == [chunks |-> {}, facts |-> {}, refs |-> <<>>]

Init ==
  /\ stage = "extract"
  /\ answers = [p \in 1 .. Pieces |-> Pending]
  /\ claims = <<>>
  /\ found = <<>>
  /\ store = Empty
  /\ verdicts = <<>>
  /\ findings = <<>>

Fail(at) ==
  /\ stage = at
  /\ stage' = "failed"
  /\ UNCHANGED <<answers, claims, found, store, verdicts, findings>>

-----------------------------------------------------------------------------
(* extract().                                                              *)

FirstPending(f) == CHOOSE i \in DOMAIN f : f[i] = Pending /\ \A k \in 1 .. i - 1 : f[k] # Pending

\* What _extract_one returns for piece p.
AnswersOf(p) ==
  {[claims |-> [k \in DOMAIN s |-> [piece |-> p, kind |-> s[k].kind, lines |-> s[k].lines]]] :
     s \in BoundedSeq(Claimable, MaxClaims)}

\* Mutant: the pieces' claims are kept in the order the answers come.
ExtractedAsCompleted(p) ==
  /\ stage = "extract"
  /\ \A q \in 1 .. Pieces : answers[q] \notin AnswersOf(p) \ {[claims |-> <<>>]}
  /\ \E q \in 1 .. Pieces : answers[q] = Pending
  /\ \E a \in AnswersOf(p) : answers' = [answers EXCEPT ![FirstPending(answers)] = a]
  /\ UNCHANGED <<stage, claims, found, store, verdicts, findings>>

\* The model answers for piece p, in any order of the pieces.
Extracted(p) ==
  /\ stage = "extract"
  /\ answers[p] = Pending
  /\ \E a \in AnswersOf(p) : answers' = [answers EXCEPT ![p] = a]
  /\ UNCHANGED <<stage, claims, found, store, verdicts, findings>>

\* gather() returns in the order of the pieces; the claims are numbered after
\* they have been put together.  Without claims nothing is searched or judged.
ExtractEnds ==
  /\ stage = "extract"
  /\ \A p \in 1 .. Pieces : answers[p] # Pending
  /\ claims' = FlattenSeq([p \in 1 .. Pieces |-> answers[p].claims])
  /\ found' = [i \in 1 .. Len(claims') |-> Pending]
  /\ stage' = IF claims' = <<>> THEN "done" ELSE "retrieve"
  /\ UNCHANGED <<answers, store, verdicts, findings>>

-----------------------------------------------------------------------------
(* retrieve().                                                             *)

\* route_qav: two channels for the axis, two more for "axis: value", and two
\* for the quote of a claim without an axis.
Route(claim) ==
  {"hybrid_search", "fact_search"} \X
    CASE claim.kind = "axis and value" -> {"axis", "axis: value"}
      [] claim.kind = "axis" -> {"axis"}
      [] claim.kind = "quote" -> {"quote"}
      [] OTHER -> {}

\* What a channel can bring.
Reach(call) == IF call[1] = "hybrid_search" THEN Chunks ELSE Facts

\* Mutant: the chapter that is checked is not yet the future.
FutureAfterChecked(n) == ChapterOf[n] > Checked

\* _is_future: what is of no known chapter is kept.
Future(n) == ChapterOf[n] >= Checked

\* What claim i brings when the channels in ok answer.
Brought(i, ok) ==
  LET calls == Route(claims[i])
  IN  {[claim |-> claims[i], calls |-> Cardinality(calls), failed |-> Cardinality(calls \ ok),
        nodes |-> {n \in S : ~Future(n)}] : S \in SUBSET UNION {Reach(c) : c \in ok}}

\* _retrieve_one: some channels fail, the others bring any of their nodes.
Searched(i) == UNION {Brought(i, ok) : ok \in SUBSET Route(claims[i])}

\* Mutant: the records are collected as the threads end.
RetrievedAsCompleted(i) ==
  /\ stage = "retrieve"
  /\ found[i] = Pending
  /\ \E r \in Searched(i) : found' = [found EXCEPT ![FirstPending(found)] = r]
  /\ UNCHANGED <<stage, answers, claims, store, verdicts, findings>>

\* The thread of claim i ends, in any order of the claims.
Retrieved(i) ==
  /\ stage = "retrieve"
  /\ found[i] = Pending
  /\ \E r \in Searched(i) : found' = [found EXCEPT ![i] = r]
  /\ UNCHANGED <<stage, answers, claims, store, verdicts, findings>>

\* Mutant: the failure of every channel is taken for an empty graph.
UnreachedNever == FALSE

Total(s) == FoldLeft(+, 0, s)

\* Every channel failed: the graph was not reached.
Unreached ==
  LET total == Total([i \in DOMAIN found |-> found[i].calls])
      failed == Total([i \in DOMAIN found |-> found[i].failed])
  IN  total > 0 /\ failed = total

\* build_docstore: every node once, the evidence of the facts among them, and
\* for each claim the nodes its own searches brought.
Docstore ==
  LET hits == UNION {r.nodes : r \in ToSet(found)}
  IN  [chunks |-> (hits \cap Chunks) \cup UNION {ToSet(Evidence[f]) : f \in hits \cap Facts},
       facts |-> hits \cap Facts,
       refs |-> [i \in DOMAIN found |-> found[i].nodes]]

\* map() returns in the order of the claims; judge() begins with the store.
RetrieveEnds ==
  /\ stage = "retrieve"
  /\ \A i \in DOMAIN found : found[i] # Pending
  /\ IF Unreached
       THEN stage' = "failed" /\ UNCHANGED store
       ELSE stage' = "judge" /\ store' = Docstore
  /\ UNCHANGED <<answers, claims, found, verdicts, findings>>

-----------------------------------------------------------------------------
(* judge().                                                                *)

\* A line that the extraction did not give as a number.
Unreadable == -2
MadeUp == Null

\* A verdict may name a claim that does not exist, lines that are not the
\* claim's and aliases that are nobody's.  Of a score below the threshold
\* nothing but the score is looked at.
Verdicts ==
  LET named == 0 .. Len(claims) + 1
      shown == SetToSeq(store.chunks \cup store.facts)
  IN  [claim: named, error: {TRUE}, lines: {{}, {1}, {LastLine, LastLine + 1}},
       cited: {shown, <<MadeUp>> \o SetToSeq(store.facts)}]
      \cup [claim: named, error: {FALSE}, lines: {{}}, cited: {<<>>}]

\* Mutant: the first verdict of a claim stays.
ReadFirst(answer) ==
  [n \in {v.claim : v \in ToSet(answer)} |->
     answer[CHOOSE i \in DOMAIN answer :
       answer[i].claim = n /\ \A k \in 1 .. i - 1 : answer[k].claim # n]]

\* parse_verdicts: by claim, the last verdict of each.
Read(answer) ==
  [n \in {v.claim : v \in ToSet(answer)} |->
     answer[CHOOSE i \in DOMAIN answer :
       answer[i].claim = n /\ \A k \in i + 1 .. Len(answer) : answer[k].claim # n]]

\* The lines of a verdict must be among the claim's, if it has any.
Picked(v) ==
  LET own == claims[v.claim].lines
  IN  IF own # {} /\ (v.lines = {} \/ ~(v.lines \subseteq own)) THEN own ELSE v.lines

\* _resolve_cited: a fact stands for its evidence, nobody's alias for nothing.
Expand(alias) ==
  IF alias \in store.chunks THEN <<alias>>
  ELSE IF alias \in store.facts THEN Evidence[alias]
  ELSE <<>>

\* What an answer cites, chunk by chunk.
Spread(cited) == FlattenSeq([k \in DOMAIN cited |-> Expand(cited[k])])

SamePlace(c, d) == ChapterOf[c] = ChapterOf[d] /\ IndexOf[c] = IndexOf[d]

\* Mutant: the places are not compared.
ResolveAll(cited) ==
  FoldLeft(LAMBDA out, c :
             IF c \notin store.chunks \/ ChapterOf[c] = Null THEN out ELSE Append(out, c),
           <<>>, Spread(cited))

\* Each place of the text once, the first chunk that has it; what is not in
\* the store or of no known chapter is passed over.
Resolve(cited) ==
  FoldLeft(LAMBDA out, c :
             IF \/ c \notin store.chunks \/ ChapterOf[c] = Null
                \/ \E k \in DOMAIN out : SamePlace(out[k], c)
             THEN out ELSE Append(out, c),
           <<>>, Spread(cited))

\* Mutant: lines that the manuscript does not have are not dropped.
FindingUncut(v) == [claim |-> v.claim, lines |-> Picked(v), cited |-> Resolve(v.cited)]

Finding(v) ==
  [claim |-> v.claim, lines |-> Picked(v) \cap (1 .. LastLine), cited |-> Resolve(v.cited)]

\* The claims found to be wrong; numbers that no claim has are passed over.
Errors(read) == {n \in DOMAIN read : read[n].error /\ n \in 1 .. Len(claims)}

\* sorted(verdicts), of those.
Sorted(S) ==
  CHOOSE s \in [1 .. Cardinality(S) -> S] :
    \A i, k \in 1 .. Cardinality(S) : i < k => s[i] < s[k]

\* The answer is there.  No verdict at all is a failure; so is a line that is
\* no number, which the comparison with the manuscript's lines raises on.
Judged ==
  /\ stage = "judge"
  /\ \E answer \in BoundedSeq(Verdicts, MaxVerdicts) :
       LET read == Read(answer)
       IN  /\ verdicts' = answer
           /\ IF answer = <<>> \/ \E n \in Errors(read) : Unreadable \in Picked(read[n])
                THEN stage' = "failed" /\ UNCHANGED findings
                ELSE /\ stage' = "done"
                     /\ findings' = [k \in 1 .. Cardinality(Errors(read)) |->
                          Finding(read[Sorted(Errors(read))[k]])]
  /\ UNCHANGED <<answers, claims, found, store>>

-----------------------------------------------------------------------------
\* A call that fails, or an answer that cannot be read, fails the check; so
\* does what cannot be built or asked at all.
StageFails == \E at \in {"extract", "retrieve", "judge"} : Fail(at)

Next ==
  \/ \E p \in 1 .. Pieces : Extracted(p)
  \/ ExtractEnds
  \/ \E i \in DOMAIN found : Retrieved(i)
  \/ RetrieveEnds
  \/ Judged
  \/ StageFails

Spec == Init /\ [][Next]_vars

=============================================================================
