----------------------------- MODULE TextSplitter -----------------------------
(***************************************************************************)
(* How a manuscript is cut.                                                *)
(*                                                                         *)
(* Indexing cuts it into chunks (service/index/splitters.py): the          *)
(* sentences a library found are looked for in the text, what is too long  *)
(* is cut, and what fits together becomes one substring of the text, which *)
(* may take the last sentences of the one before with it.  Detection cuts  *)
(* it into numbered lines and the lines into pieces (detect/lines.py,      *)
(* extract_service.py), with a loop of the same form.                      *)
(*                                                                         *)
(* The text is its length; a span is a pair <<start, end>>, end excluded.  *)
(* For the pieces, whose size is counted in labelled lines without the     *)
(* line breaks, the text is those lines put end to end.                    *)
(***************************************************************************)
EXTENDS Integers, Sequences

CONSTANTS
  Sizes,     \* chunk_size of a splitter, CHUNK_SIZE of the pieces
  Overlaps,  \* chunk_overlap of a splitter
  LineMax,   \* LINE_MAX, the label included
  TextLen    \* bound: characters of a text

ASSUME SplitterAssumption ==
  /\ Sizes \subseteq Nat \ {0}
  /\ Overlaps \subseteq Nat
  /\ LineMax \in Nat \ {0}
  /\ TextLen \in Nat

VARIABLES
  mode,     \* "chunks": _group_sentences; "pieces": _chunk
  size,     \* the target size, and
  overlap,  \* the overlap, as the caller gave them
  phase,    \* the loop that is running
  cursor,   \* where the next sentence is looked for
  rest,     \* what is left of a span that is being cut
  parts,    \* the spans found so far, in order
  first,    \* current: the parts first .. next - 1 wait for the next chunk
  next,     \* the part the grouping loop is at
  keep,     \* carried: the parts keep .. next - 1, while it is being filled
  kept,     \* carried_len
  chunks    \* the chunks: pairs of their first and their last part

given == <<mode, size, overlap>>
split == <<cursor, rest, parts>>
carry == <<keep, kept>>
splitVars == <<given, phase, split, first, next, carry, chunks>>

SplitInit ==
  /\ size \in Sizes
  /\ \/ mode = "chunks" /\ overlap \in Overlaps
     \/ mode = "pieces" /\ overlap = 0
  /\ phase = "parts"
  /\ cursor = 0
  /\ rest = <<0, 0>>
  /\ parts = <<>>
  /\ first = 1
  /\ next = 1
  /\ keep = 1
  /\ kept = 0
  /\ chunks = <<>>

-----------------------------------------------------------------------------
\* The longest part that is not cut.
Widest == IF mode = "chunks" THEN size ELSE LineMax

\* Where text.find may find a sentence: behind the one before, any distance
\* away, since what is not found as it stands is passed over.  Lines leave
\* nothing out.
Sentence(s, e) ==
  /\ phase = "parts"
  /\ rest[1] = rest[2]
  /\ cursor <= s /\ s < e
  /\ mode = "pieces" => s = cursor

Find(s, e) ==
  /\ Sentence(s, e)
  /\ e - s <= Widest
  /\ parts' = Append(parts, <<s, e>>)
  /\ cursor' = e
  /\ UNCHANGED <<given, phase, rest, first, next, carry, chunks>>

FindLong(s, e) ==
  /\ Sentence(s, e)
  /\ e - s > Widest
  /\ rest' = <<s, e>>
  /\ cursor' = e
  /\ UNCHANGED <<given, phase, parts, first, next, carry, chunks>>

\* _split_oversized_span, one cut.
Cut ==
  /\ phase = "parts"
  /\ rest[1] < rest[2]
  /\ LET end == IF rest[1] + Widest < rest[2] THEN rest[1] + Widest ELSE rest[2]
     IN  /\ parts' = Append(parts, <<rest[1], end>>)
         /\ rest' = <<end, rest[2]>>
  /\ UNCHANGED <<given, phase, cursor, first, next, carry, chunks>>

NoMoreSentences ==
  /\ phase = "parts"
  /\ rest[1] = rest[2]
  /\ phase' = "group"
  /\ UNCHANGED <<given, split, first, next, carry, chunks>>

-----------------------------------------------------------------------------
\* The width of the text from part i to part j, what is between them included.
Width(i, j) == parts[j][2] - parts[i][1]

AtPart == phase = "group" /\ next <= Len(parts)

\* There is something in current and this part does not fit to it.
Overflows == first < next /\ Width(first, next) > size

\* current.append(part).
Add ==
  /\ AtPart
  /\ ~Overflows
  /\ next' = next + 1
  /\ UNCHANGED <<given, phase, split, first, carry, chunks>>

\* _emit, and carried is empty.
Emit ==
  /\ mode = "chunks"
  /\ AtPart
  /\ Overflows
  /\ chunks' = Append(chunks, <<first, next - 1>>)
  /\ phase' = "carry"
  /\ keep' = next
  /\ kept' = 0
  /\ UNCHANGED <<given, split, first, next>>

\* Mutant: the overlap is looked at before the part is added.
CarriesOneMore ==
  /\ phase = "carry"
  /\ keep > first
  /\ kept <= overlap

\* One more part of the chunk before fits in the overlap.
Carries ==
  /\ phase = "carry"
  /\ keep > first
  /\ kept + Width(keep - 1, keep - 1) <= overlap

CarryOne ==
  /\ Carries
  /\ kept' = kept + Width(keep - 1, keep - 1)
  /\ keep' = keep - 1
  /\ UNCHANGED <<given, phase, split, first, next, chunks>>

\* Mutant: what is carried is kept although the part does not fit behind it.
StartFromCarried == keep

\* Where the next chunk starts: without the overlap, if the part would not fit.
Start == IF keep < next /\ Width(keep, next) > size THEN next ELSE keep

\* The carried parts and this one are the new current.
Carried ==
  /\ phase = "carry"
  /\ ~Carries
  /\ phase' = "group"
  /\ first' = Start
  /\ next' = next + 1
  /\ UNCHANGED <<given, split, carry, chunks>>

\* The pieces: the next one starts with the line that did not fit.
EmitPiece ==
  /\ mode = "pieces"
  /\ AtPart
  /\ Overflows
  /\ chunks' = Append(chunks, <<first, next - 1>>)
  /\ first' = next
  /\ next' = next + 1
  /\ UNCHANGED <<given, phase, split, carry>>

\* The last _emit.
Finish ==
  /\ phase = "group"
  /\ next > Len(parts)
  /\ phase' = "done"
  /\ chunks' = IF first < next THEN Append(chunks, <<first, next - 1>>) ELSE chunks
  /\ UNCHANGED <<given, split, first, next, carry>>

SplitNext ==
  \/ \E s \in 0 .. TextLen, e \in 1 .. TextLen : Find(s, e) \/ FindLong(s, e)
  \/ Cut
  \/ NoMoreSentences
  \/ Add
  \/ Emit
  \/ CarryOne
  \/ Carried
  \/ EmitPiece
  \/ Finish

SplitSpec == SplitInit /\ [][SplitNext]_splitVars

=============================================================================
