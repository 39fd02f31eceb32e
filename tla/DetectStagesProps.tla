-------------------------- MODULE DetectStagesProps --------------------------
(***************************************************************************)
(* What the result of a check rests on.                                    *)
(***************************************************************************)
EXTENDS DetectStages

\* The claims are numbered in the order of the manuscript, whichever piece was
\* answered first: the same manuscript and answers give the same numbers.
ClaimsFollowText ==
  \A i, k \in DOMAIN claims : i < k => claims[i].piece <= claims[k].piece

\* What the judge is pointed to for a claim was found by the searches for that
\* claim, whichever thread ended first.
RefsAreOwn ==
  stage = "judge" =>
    \A i \in DOMAIN claims : found[i].claim = claims[i] /\ store.refs[i] = found[i].nodes

\* Nothing that the checked chapter or a later one says is shown to the judge,
\* as a hit or as the evidence of one; so no chapter is its own proof.  The
\* evidence of a fact is not looked at: this needs facts that are said to be of
\* the chapter their evidence is of.
ShownIsPast == \A n \in store.chunks \cup store.facts : ChapterOf[n] < Checked

\* A check that says "no errors" read a verdict and reached the graph, or had
\* nothing to judge or to search for.
SilenceIsTold ==
  stage = "done" /\ claims # <<>> =>
    /\ verdicts # <<>>
    /\ \/ \E i \in DOMAIN found : found[i].failed < found[i].calls
       \/ \A i \in DOMAIN found : found[i].calls = 0

\* The findings are the claims whose last verdict is an error, in the claims'
\* order and each once, whatever else the answer says.
FindingsAreVerdicts ==
  stage = "done" =>
    /\ \A k \in 1 .. Len(findings) - 1 : findings[k].claim < findings[k + 1].claim
    /\ \A n \in DOMAIN claims :
         (\E k \in DOMAIN findings : findings[k].claim = n)
           <=> \E i \in DOMAIN verdicts :
                 /\ verdicts[i].claim = n /\ verdicts[i].error
                 /\ ~\E j \in i + 1 .. Len(verdicts) : verdicts[j].claim = n

\* A finding stands on what is there: its lines are its claim's, if that has
\* any, and its citations are text the judge was shown, each place once.
FindingsStandUp ==
  \A k \in DOMAIN findings :
    LET own == claims[findings[k].claim].lines
        cited == findings[k].cited
    IN  /\ own # {} => findings[k].lines \subseteq own
        /\ ToSet(cited) \subseteq store.chunks
        /\ \A i, j \in DOMAIN cited : SamePlace(cited[i], cited[j]) => i = j

=============================================================================
