---------------------------- MODULE MCDetectStages ----------------------------
(***************************************************************************)
(* A small manuscript and a small graph.                                   *)
(***************************************************************************)
EXTENDS DetectStagesProps, TLC

\* Claims that are searched for and have a line, and claims that are not and
\* have no line, or have one that is no number.
MCClaimable ==
  {[kind |-> "axis and value", lines |-> {1}], [kind |-> "none", lines |-> {}],
   [kind |-> "none", lines |-> {1, Unreadable}]}

\* The third chapter is checked.  Chunk 1 is of the first chapter and fact 4
\* rests on it, chunk 3 is of the third and fact 5 rests on it, and what
\* chapter chunk 2 is of is not known.
MCChunks == 1 .. 3
MCFacts == {4, 5}
MCChapterOf == <<1, Null, 3, 1, 3>>
\* Who wrote fact 5 down took the second chapter for its chapter.
MCChapterAsTold == <<1, Null, 3, 1, 2>>
MCIndexOf == <<0, 0, 0>>
MCEvidence == 4 :> <<1>> @@ 5 :> <<3>>

=============================================================================
