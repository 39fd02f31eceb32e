--------------------------- MODULE EvalHarnessProps ---------------------------
(***************************************************************************)
(* What a reader of the measurements relies on, in whatever order the      *)
(* stages were run, failed and were run again.                             *)
(***************************************************************************)
EXTENDS EvalHarness

\* A saved answer is never bought again: a command run again after a failure
\* pays for what is missing only, and so does one after an edit of a piece.
\* Verdicts are bought again on --judge-refresh alone.
BoughtOnce ==
  \A r \in DOMAIN bought : bought[r] > 1 => refreshed /\ r \notin DOMAIN cache

\* The record of the i-th claim in the evidence is of this claim.  It is not
\* always: judge pairs records and claims by their place, and does not notice
\* evidence that was gathered before the claims were extracted anew.
HasRecord(J, i) == i \in DOMAIN J.evidence /\ J.evidence[i].claim = J.claims[i]

\* Answers that were kept fit what is asked now.  A claims file has the claims
\* of the text it was made from, piece after piece, whatever was cached of
\* other versions.  A verdict was given to a prompt for this store and for this
\* batch, and the prompt showed the claim, under its number, with what was found
\* for it: unless the evidence has no record of this claim, or the verdict's
\* batch is noted for claims it did not ask about.
AnswersFit ==
  /\ \A t \in DOMAIN claims :
       LET list == claims[t].list
       IN  \A i \in DOMAIN list :
             /\ \E u \in 1 .. Units : list[i].of = Shown(t, claims[t].text, u)
             /\ \A j \in 1 .. (i - 1) : list[j].of.piece[1] <= list[i].of.piece[1]
  /\ \A t \in DOMAIN judged : \A i \in DOMAIN judged[t].verdict :
       LET J == judged[t]
           v == J.verdict[i]
       IN  /\ v.of = Prompt(J.claims, J.evidence, Batches(Len(J.claims), J.size)[v.batch])
           /\ HasRecord(J, i) /\ v.batch \notin J.extra =>
                /\ i \in DOMAIN v.of.refs
                /\ v.of.refs[i] = <<J.claims[i], J.claims[i], Ref(J.evidence[i])>>

\* The store that is judged shows for each claim at least what the search found
\* for it, whichever channel or claim brought a node first.  Of nodes the model
\* has chunks and facts, with their names as their text; entity profiles, which
\* the store takes whole from the first channel that brings them, are left out.
StoreLosesNothing ==
  \A t \in DOMAIN evidence : \A i \in DOMAIN evidence[t] :
    ChannelText(evidence[t][i]) \subseteq PoolText(Store(evidence[t]), Ref(evidence[t][i]))

=============================================================================
