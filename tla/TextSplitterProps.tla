--------------------------- MODULE TextSplitterProps ---------------------------
(***************************************************************************)
(* What the readers of chunks and pieces rely on, for every size and       *)
(* overlap a splitter is made with.                                        *)
(***************************************************************************)
EXTENDS TextSplitter

\* The types of the state.
SplitTypes ==
  /\ mode \in {"chunks", "pieces"}
  /\ size \in Nat \ {0}
  /\ overlap \in Nat
  /\ mode = "pieces" => overlap = 0
  /\ phase \in {"parts", "group", "carry", "done"}
  /\ cursor \in Nat
  /\ rest \in Nat \X Nat
  /\ parts \in Seq(Nat \X Nat)
  /\ first \in Nat \ {0} /\ next \in Nat \ {0} /\ keep \in Nat \ {0}
  /\ kept \in Nat
  /\ chunks \in Seq((Nat \ {0}) \X (Nat \ {0}))

\* No chunk is wider than chunk_size, line breaks and carried sentences
\* included: the size is there to stay below what the embedder takes.  A piece
\* is within its size or a single line.
ChunksFit ==
  \A i \in DOMAIN chunks :
    \/ Width(chunks[i][1], chunks[i][2]) <= size
    \/ mode = "pieces" /\ chunks[i][1] = chunks[i][2]

\* Nothing that was found is lost, whatever is carried or given up: each part
\* is in a chunk, also the last ones; no chunk starts or ends where an earlier
\* one did; and without an overlap no sentence is in two chunks, where it would
\* have two numbers.
ChunksCoverInOrder ==
  /\ phase = "done" =>
       \A k \in DOMAIN parts : \E i \in DOMAIN chunks : chunks[i][1] <= k /\ k <= chunks[i][2]
  /\ \A i, j \in DOMAIN chunks : i < j =>
       /\ chunks[i][1] < chunks[j][1]
       /\ chunks[i][2] < chunks[j][2]
       /\ overlap = 0 => chunks[i][2] < chunks[j][1]

=============================================================================
