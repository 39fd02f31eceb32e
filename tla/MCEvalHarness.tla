---------------------------- MODULE MCEvalHarness ----------------------------
(* EvalHarness for TLC.                                                     *)
EXTENDS EvalHarnessProps, TLC

\* The wordings of a piece are interchangeable.
WordingsAlike == Permutations(Wordings)

\* A fact found for one claim with its evidence and for the other without, by
\* either order; a chunk that is also a fact's evidence; nothing for a claim, and
\* for the other what the first search found, in a store that lacks the chunk.
FewSearches ==
  LET chunk == CHOOSE it \in Items : it.kind = "chunk"
      bare == CHOOSE it \in Items : it.kind = "fact" /\ it.rests = {}
      full == CHOOSE it \in Items : it.kind = "fact" /\ it.rests = Chunks
  IN  {<<{full}, {bare}>>, <<{bare, chunk}, {full}>>, <<{}, {bare}>>}

=============================================================================
