-------------------------- MODULE DetectStagesProofs --------------------------
(***************************************************************************)
(* Theorems about the stages of a check, for every manuscript, graph and   *)
(* answer; before them, about how its manuscript (and indexing's) is cut.  *)
(***************************************************************************)
EXTENDS DetectStagesProps, TextSplitterProps, DataLemmas

-----------------------------------------------------------------------------
(* Cutting the manuscript.  The inductive invariant says what each loop     *)
(* hands to the next: the parts are in order and none is too wide; what is  *)
(* in current fits; what is carried is a proper end of the chunk just given *)
(* out.                                                                     *)

\* Where the next part can begin at the earliest.
Begins == IF rest[1] < rest[2] THEN rest[1] ELSE cursor

PartsInOrder ==
  /\ rest[1] <= rest[2] /\ rest[2] <= cursor
  /\ \A i \in DOMAIN parts :
       /\ parts[i][1] < parts[i][2]
       /\ parts[i][2] - parts[i][1] <= Widest
       /\ parts[i][2] <= Begins
  /\ \A i, j \in DOMAIN parts : i < j => parts[i][2] <= parts[j][1]

Fits(a, b) == Width(a, b) <= size \/ (mode = "pieces" /\ a = b)

CurrentFits ==
  /\ phase = "parts" => first = 1 /\ next = 1 /\ chunks = <<>>
  /\ first <= next /\ next <= Len(parts) + 1
  /\ first < next => Fits(first, next - 1)
  /\ first < next \/ next = 1
  /\ phase = "done" => next = Len(parts) + 1

CarriedIsEnd ==
  phase = "carry" =>
    /\ mode = "chunks"
    /\ next <= Len(parts)
    /\ first < next
    /\ Width(first, next) > size
    /\ first <= keep /\ keep <= next
    /\ overlap = 0 => keep = next

ChunksAreRuns ==
  \A i \in DOMAIN chunks :
    /\ chunks[i][1] <= chunks[i][2]
    /\ chunks[i][2] <= Len(parts)
    /\ Fits(chunks[i][1], chunks[i][2])

InOrder ==
  \A i, j \in DOMAIN chunks : i < j =>
    /\ chunks[i][1] < chunks[j][1]
    /\ chunks[i][2] < chunks[j][2]
    /\ overlap = 0 => chunks[i][2] < chunks[j][1]

\* The chunks are behind what is being put together.
Behind ==
  \A i \in DOMAIN chunks :
    /\ phase = "group" =>
         /\ chunks[i][1] < first
         /\ chunks[i][2] < next - 1
         /\ overlap = 0 => chunks[i][2] < first
    /\ phase = "carry" => chunks[i][1] <= first /\ chunks[i][2] <= next - 1

\* The parts that are in a chunk.
Given == IF phase = "carry" \/ phase = "done" THEN next - 1 ELSE first - 1

Covered ==
  \A k \in 1 .. Given : \E i \in DOMAIN chunks : chunks[i][1] <= k /\ k <= chunks[i][2]

SplitInv ==
  /\ SplitTypes
  /\ PartsInOrder
  /\ CurrentFits
  /\ CarriedIsEnd
  /\ ChunksAreRuns
  /\ InOrder
  /\ Behind
  /\ Covered

-----------------------------------------------------------------------------
\* Every splitter has a size, an overlap and an empty result to start with.
LEMMA InitSplit == SplitInit => SplitInv
<1> SUFFICES ASSUME SplitInit PROVE SplitInv
  OBVIOUS
<1>1. size \in Nat \ {0} /\ overlap \in Nat
  <2>1. size \in Sizes /\ (overlap \in Overlaps \/ overlap = 0)
    BY DEF SplitInit
  <2>2. \A n \in Sizes : n \in Nat \ {0}
    BY SplitterAssumption, Zenon DEF SplitterAssumption
  <2>3. \A n \in Overlaps : n \in Nat
    BY SplitterAssumption, Zenon DEF SplitterAssumption
  <2> QED
    BY <2>1, <2>2, <2>3
<1>2. SplitTypes
  BY <1>1 DEF SplitInit, SplitTypes
<1> QED
  BY <1>1, <1>2 DEF SplitInit, SplitInv, PartsInOrder, CurrentFits, CarriedIsEnd, ChunksAreRuns,
                    InOrder, Behind, Covered, Given

\* A part that is not too wide, begins where the last one ended or later and
\* ends where the next may begin keeps the parts in order.
LEMMA PartAppended ==
  ASSUME SplitTypes, SplitTypes', PartsInOrder, NEW s \in Nat, NEW e \in Nat,
         Begins <= s, s < e, e - s <= Widest, e <= Begins',
         rest[1]' <= rest[2]', rest[2]' <= cursor', Widest' = Widest,
         parts' = Append(parts, <<s, e>>)
  PROVE  PartsInOrder'
<1>1. parts \in Seq(Nat \X Nat) /\ <<s, e>> \in Nat \X Nat
  BY DEF SplitTypes
<1>2. /\ Len(parts') = Len(parts) + 1
      /\ DOMAIN parts = 1 .. Len(parts) /\ DOMAIN parts' = 1 .. Len(parts) + 1
      /\ parts'[Len(parts) + 1] = <<s, e>>
      /\ \A i \in DOMAIN parts : parts'[i] = parts[i] /\ parts[i] \in Nat \X Nat
  BY <1>1
<1>3. Begins \in Nat /\ Begins' \in Nat /\ Widest \in Nat
  BY SplitterAssumption DEF SplitterAssumption, Begins, Widest, SplitTypes
<1>4. \A i \in DOMAIN parts : parts[i][2] <= Begins /\ parts[i][1] < parts[i][2]
                              /\ parts[i][2] - parts[i][1] <= Widest
  BY DEF PartsInOrder
<1>5. \A i \in DOMAIN parts' :
        /\ parts'[i][1] < parts'[i][2]
        /\ parts'[i][2] - parts'[i][1] <= Widest'
        /\ parts'[i][2] <= Begins'
  BY <1>2, <1>3, <1>4
<1>6. \A i, j \in DOMAIN parts' : i < j => parts'[i][2] <= parts'[j][1]
  BY <1>2, <1>3, <1>4 DEF PartsInOrder
<1> QED
  BY <1>5, <1>6 DEF PartsInOrder

\* The types survive every step.
LEMMA TypesStep ==
  SplitTypes /\ PartsInOrder /\ CurrentFits /\ CarriedIsEnd /\ [SplitNext]_splitVars => SplitTypes'
<1> SUFFICES ASSUME SplitTypes, PartsInOrder, CurrentFits, CarriedIsEnd, [SplitNext]_splitVars
             PROVE  SplitTypes'
  OBVIOUS
<1> USE DEF SplitTypes, given, split, carry
<1>w. Widest \in Nat \ {0}
  BY SplitterAssumption DEF SplitterAssumption, Widest
<1>p. \A s, e \in Nat : Append(parts, <<s, e>>) \in Seq(Nat \X Nat)
  OBVIOUS
<1>c. \A a, b \in Nat \ {0} : Append(chunks, <<a, b>>) \in Seq((Nat \ {0}) \X (Nat \ {0}))
  OBVIOUS
<1>l. first < next => next - 1 \in Nat \ {0}
  OBVIOUS
<1>1. ASSUME NEW s \in 0 .. TextLen, NEW e \in 1 .. TextLen, Find(s, e) PROVE SplitTypes'
  <2>1. s \in Nat /\ e \in Nat
    BY SplitterAssumption DEF SplitterAssumption
  <2> QED
    BY <1>1, <1>p, <2>1 DEF Find, Sentence
<1>2. ASSUME NEW s \in 0 .. TextLen, NEW e \in 1 .. TextLen, FindLong(s, e) PROVE SplitTypes'
  <2>1. s \in Nat /\ e \in Nat
    BY SplitterAssumption DEF SplitterAssumption
  <2> QED
    BY <1>2, <2>1 DEF FindLong, Sentence
<1>3. CASE Cut
  BY <1>3, <1>p, <1>w DEF Cut
<1>4. CASE NoMoreSentences
  BY <1>4 DEF NoMoreSentences
<1>5. CASE Add
  BY <1>5 DEF Add
<1>6. CASE Emit
  BY <1>6, <1>c, <1>l DEF Emit, Overflows
<1>7. CASE CarryOne
  <2>0. phase = "carry" /\ keep > first
    BY <1>7 DEF CarryOne, Carries
  <2>1. keep - 1 \in Nat \ {0} /\ keep - 1 <= Len(parts)
    BY <2>0 DEF CarriedIsEnd
  <2>3. keep - 1 \in DOMAIN parts /\ parts[keep - 1] \in Nat \X Nat
    BY <2>1
  <2>2. Width(keep - 1, keep - 1) \in Nat
    BY <2>1, <2>3 DEF Width, PartsInOrder
  <2> QED
    BY <1>7, <2>1, <2>2 DEF CarryOne
<1>8. CASE Carried
  BY <1>8 DEF Carried, Start
<1>9. CASE EmitPiece
  BY <1>9, <1>c, <1>l DEF EmitPiece, Overflows
<1>10. CASE Finish
  BY <1>10, <1>c, <1>l DEF Finish
<1>11. CASE UNCHANGED splitVars
  BY <1>11 DEF splitVars
<1> QED
  BY <1>1, <1>2, <1>3, <1>4, <1>5, <1>6, <1>7, <1>8, <1>9, <1>10, <1>11 DEF SplitNext

\* Only the first loop touches the parts.
LEMMA PartsStep ==
  SplitTypes /\ SplitTypes' /\ PartsInOrder /\ [SplitNext]_splitVars => PartsInOrder'
<1> SUFFICES ASSUME SplitTypes, SplitTypes', PartsInOrder, [SplitNext]_splitVars PROVE PartsInOrder'
  OBVIOUS
<1>w. Widest \in Nat \ {0} /\ Widest' = Widest
  <2>1. UNCHANGED <<mode, size>>
    BY DEF SplitNext, splitVars, given, Find, FindLong, Cut, NoMoreSentences, Add, Emit, CarryOne, Carried,
           EmitPiece, Finish
  <2> QED
    BY <2>1, SplitterAssumption DEF SplitterAssumption, Widest, SplitTypes
<1>r. Begins \in Nat
  BY DEF Begins, SplitTypes
<1>1. ASSUME NEW s \in 0 .. TextLen, NEW e \in 1 .. TextLen, Find(s, e) PROVE PartsInOrder'
  <2>1. s \in Nat /\ e \in Nat /\ s < e /\ cursor <= s /\ e - s <= Widest
    BY <1>1, SplitterAssumption DEF SplitterAssumption, Find, Sentence
  <2>2. /\ parts' = Append(parts, <<s, e>>) /\ rest' = rest /\ cursor' = e
        /\ rest[1] = rest[2]
    BY <1>1 DEF Find, Sentence
  <2>3. Begins = cursor /\ Begins' = e /\ rest[2] <= cursor /\ cursor \in Nat /\ rest[2] \in Nat
    BY <2>2 DEF Begins, PartsInOrder, SplitTypes
  <2>4. rest[1]' <= rest[2]' /\ rest[2]' <= cursor'
    BY <2>1, <2>2, <2>3
  <2> QED
    BY <2>1, <2>2, <2>3, <2>4, <1>w, PartAppended
<1>2. ASSUME NEW s \in 0 .. TextLen, NEW e \in 1 .. TextLen, FindLong(s, e) PROVE PartsInOrder'
  <2>1. s \in Nat /\ e \in Nat /\ s < e /\ cursor <= s
    BY <1>2, SplitterAssumption DEF SplitterAssumption, FindLong, Sentence
  <2>2. parts' = parts /\ rest' = <<s, e>> /\ cursor' = e /\ rest[1] = rest[2]
    BY <1>2 DEF FindLong, Sentence
  <2>3. Begins = cursor /\ Begins' = s /\ cursor \in Nat
    BY <2>1, <2>2 DEF Begins, SplitTypes
  <2>4. \A i \in DOMAIN parts : parts[i] \in Nat \X Nat
    BY DEF SplitTypes
  <2> QED
    BY <2>1, <2>2, <2>3, <2>4, <1>w DEF PartsInOrder
<1>3. CASE Cut
  <2> DEFINE end == IF rest[1] + Widest < rest[2] THEN rest[1] + Widest ELSE rest[2]
  <2>1. /\ rest[1] \in Nat /\ rest[2] \in Nat /\ cursor \in Nat
        /\ rest[1] < rest[2] /\ rest[2] <= cursor
    BY <1>3 DEF Cut, SplitTypes, PartsInOrder
  <2>2. end \in Nat /\ rest[1] < end /\ end <= rest[2] /\ end - rest[1] <= Widest
    BY <2>1, <1>w
  <2>3. parts' = Append(parts, <<rest[1], end>>) /\ rest' = <<end, rest[2]>> /\ cursor' = cursor
    BY <1>3 DEF Cut
  <2>4. Begins = rest[1] /\ end <= Begins'
    BY <2>1, <2>2, <2>3 DEF Begins
  <2>5. rest[1]' <= rest[2]' /\ rest[2]' <= cursor'
    BY <2>1, <2>2, <2>3
  <2> HIDE DEF end
  <2> QED
    BY <2>1, <2>2, <2>3, <2>4, <2>5, <1>w, PartAppended
<1>4. CASE UNCHANGED split
  BY <1>4, <1>w DEF split, PartsInOrder, Begins
<1> QED
  BY <1>1, <1>2, <1>3, <1>4
     DEF SplitNext, splitVars, NoMoreSentences, Add, Emit, CarryOne, Carried, EmitPiece, Finish

\* What is put together fits, in every loop.
LEMMA CurrentStep ==
  SplitTypes /\ SplitTypes' /\ PartsInOrder /\ CurrentFits /\ CarriedIsEnd /\ [SplitNext]_splitVars
    => CurrentFits' /\ CarriedIsEnd'
<1> SUFFICES ASSUME SplitTypes, SplitTypes', PartsInOrder, CurrentFits, CarriedIsEnd, [SplitNext]_splitVars
             PROVE  CurrentFits' /\ CarriedIsEnd'
  OBVIOUS
<1>t. /\ size \in Nat /\ first \in Nat \ {0} /\ next \in Nat \ {0} /\ keep \in Nat \ {0}
      /\ kept \in Nat /\ overlap \in Nat
      /\ DOMAIN parts = 1 .. Len(parts) /\ Len(parts) \in Nat
      /\ \A i \in DOMAIN parts : parts[i] \in Nat \X Nat
  BY DEF SplitTypes
\* One part is not wider than a chunk, and a line may be a piece.
<1>o. \A i \in DOMAIN parts : Fits(i, i)
  <2>1. mode \in {"chunks", "pieces"}
    BY DEF SplitTypes
  <2> QED
    BY <2>1 DEF Fits, Width, PartsInOrder, Widest
<1>1. ASSUME NEW s, NEW e, Find(s, e) PROVE CurrentFits' /\ CarriedIsEnd'
  <2>1. Len(parts') = Len(parts) + 1
    BY <1>1 DEF Find, SplitTypes
  <2> QED
    BY <1>1, <1>t, <2>1 DEF Find, Sentence, CurrentFits, CarriedIsEnd
<1>2. ASSUME NEW s, NEW e, FindLong(s, e) PROVE CurrentFits' /\ CarriedIsEnd'
  BY <1>2, <1>t DEF FindLong, Sentence, CurrentFits, CarriedIsEnd
<1>3. CASE Cut
  <2>1. Len(parts') = Len(parts) + 1
    BY <1>3 DEF Cut, SplitTypes
  <2> QED
    BY <1>3, <1>t, <2>1 DEF Cut, CurrentFits, CarriedIsEnd
<1>4. CASE NoMoreSentences
  BY <1>4, <1>t DEF NoMoreSentences, split, CurrentFits, CarriedIsEnd
<1>5. CASE Add
  <2>1. /\ phase = "group" /\ phase' = "group" /\ next <= Len(parts) /\ next' = next + 1
        /\ first' = first /\ parts' = parts /\ size' = size /\ mode' = mode
        /\ ~Overflows
    BY <1>5 DEF Add, AtPart, given, split
  <2>2. Fits(first, next)
    <3>1. CASE first < next
      <4>1. Width(first, next) \in Int
        BY <2>1, <3>1, <1>t DEF Width
      <4> QED
        BY <2>1, <3>1, <4>1, <1>t DEF Overflows, Fits
    <3>2. CASE first = next
      BY <2>1, <3>2, <1>o, <1>t
    <3> QED
      BY <3>1, <3>2, <1>t DEF CurrentFits
  <2>3. Fits(first, next - 1)'
    <3>1. next' - 1 = next
      BY <2>1, <1>t
    <3> QED
      BY <2>1, <2>2, <3>1 DEF Fits, Width
  <2>4. CurrentFits'
    BY <2>1, <2>3, <1>t DEF CurrentFits
  <2> QED
    BY <2>1, <2>4 DEF CarriedIsEnd
<1>6. CASE Emit
  <2>1. /\ phase = "group" /\ phase' = "carry" /\ next <= Len(parts) /\ next' = next
        /\ first' = first /\ parts' = parts /\ size' = size /\ mode' = mode /\ keep' = next
        /\ mode = "chunks" /\ first < next /\ Width(first, next) > size
    BY <1>6 DEF Emit, AtPart, Overflows, given, split
  <2> QED
    BY <2>1, <1>t DEF CurrentFits, CarriedIsEnd, Fits, Width
<1>7. CASE CarryOne
  <2>1. /\ phase = "carry" /\ phase' = "carry" /\ next' = next /\ first' = first
        /\ parts' = parts /\ size' = size /\ mode' = mode /\ overlap' = overlap
        /\ keep > first /\ keep' = keep - 1
        /\ kept + Width(keep - 1, keep - 1) <= overlap
    BY <1>7 DEF CarryOne, Carries, given, split
  <2>2. keep - 1 \in DOMAIN parts
    BY <2>1, <1>t DEF CarriedIsEnd
  <2>3. Width(keep - 1, keep - 1) \in Nat \ {0}
    BY <2>2, <1>t DEF Width, PartsInOrder
  <2>4. overlap # 0
    BY <2>1, <2>3, <1>t
  <2> QED
    BY <2>1, <2>4, <1>t DEF CurrentFits, CarriedIsEnd, Fits, Width
<1>8. CASE Carried
  <2>1. /\ phase = "carry" /\ phase' = "group" /\ next' = next + 1 /\ first' = Start
        /\ parts' = parts /\ size' = size /\ mode' = mode
        /\ next <= Len(parts) /\ first < next /\ keep <= next
    BY <1>8 DEF Carried, CarriedIsEnd, given, split
  <2>2. Start \in Nat \ {0} /\ Start <= next
    BY <2>1, <1>t DEF Start
  <2>3. Fits(Start, next)
    <3>1. CASE Start = next
      BY <2>1, <3>1, <1>o, <1>t
    <3>2. CASE Start # next
      <4>1. Start = keep /\ keep < next /\ ~(Width(keep, next) > size)
        BY <3>2, <2>1, <1>t DEF Start
      <4>2. Width(keep, next) \in Int
        BY <4>1, <2>1, <1>t DEF Width
      <4> QED
        BY <4>1, <4>2, <1>t DEF Fits
    <3> QED
      BY <3>1, <3>2
  <2>4. Fits(first, next - 1)'
    <3>1. next' - 1 = next
      BY <2>1, <1>t
    <3> QED
      BY <2>1, <2>3, <3>1 DEF Fits, Width
  <2>5. CurrentFits'
    BY <2>1, <2>2, <2>4, <1>t DEF CurrentFits
  <2> QED
    BY <2>1, <2>5 DEF CarriedIsEnd
<1>9. CASE EmitPiece
  <2>1. /\ phase = "group" /\ phase' = "group" /\ next <= Len(parts) /\ next' = next + 1
        /\ first' = next /\ parts' = parts /\ size' = size /\ mode' = mode
    BY <1>9 DEF EmitPiece, AtPart, given, split
  <2>2. Fits(next, next)
    BY <2>1, <1>o, <1>t
  <2>3. Fits(first, next - 1)'
    <3>1. next' - 1 = next
      BY <2>1, <1>t
    <3> QED
      BY <2>1, <2>2, <3>1 DEF Fits, Width
  <2>4. CurrentFits'
    BY <2>1, <2>3, <1>t DEF CurrentFits
  <2> QED
    BY <2>1, <2>4 DEF CarriedIsEnd
<1>10. CASE Finish
  BY <1>10, <1>t DEF Finish, given, split, CurrentFits, CarriedIsEnd, Fits, Width
<1>11. CASE UNCHANGED splitVars
  BY <1>11 DEF splitVars, given, split, carry, CurrentFits, CarriedIsEnd, Fits, Width
<1> QED
  BY <1>1, <1>2, <1>3, <1>4, <1>5, <1>6, <1>7, <1>8, <1>9, <1>10, <1>11 DEF SplitNext

\* A chunk given out behind the others, of parts that fit.
LEMMA ChunkAppended ==
  ASSUME SplitTypes, ChunksAreRuns, InOrder,
         NEW a \in Nat \ {0}, NEW b \in Nat \ {0}, a <= b, b <= Len(parts), Fits(a, b),
         \A i \in DOMAIN chunks : /\ chunks[i][1] < a /\ chunks[i][2] < b
                                  /\ overlap = 0 => chunks[i][2] < a,
         chunks' = Append(chunks, <<a, b>>), UNCHANGED <<given, parts>>
  PROVE  /\ ChunksAreRuns' /\ InOrder'
         /\ \A i \in DOMAIN chunks' : chunks'[i][1] <= a /\ chunks'[i][2] <= b
         /\ (\A k \in 1 .. (a - 1) : \E i \in DOMAIN chunks : chunks[i][1] <= k /\ k <= chunks[i][2])
              => \A k \in 1 .. b : \E i \in DOMAIN chunks' : chunks'[i][1] <= k /\ k <= chunks'[i][2]
<1>1. chunks \in Seq((Nat \ {0}) \X (Nat \ {0}))
  BY DEF SplitTypes
<1>2. /\ DOMAIN chunks = 1 .. Len(chunks) /\ DOMAIN chunks' = 1 .. Len(chunks) + 1
      /\ Len(chunks) \in Nat
      /\ chunks'[Len(chunks) + 1] = <<a, b>>
      /\ \A i \in DOMAIN chunks : chunks'[i] = chunks[i]
      /\ \A i \in DOMAIN chunks : chunks[i] \in (Nat \ {0}) \X (Nat \ {0})
  BY <1>1
<1>3. \A i \in DOMAIN chunks' : i \in DOMAIN chunks \/ chunks'[i] = <<a, b>>
  BY <1>2
<1>f. \A i, j : Fits(i, j)' <=> Fits(i, j)
  BY DEF Fits, Width, given
<1>4. ChunksAreRuns'
  BY <1>2, <1>3, <1>f DEF ChunksAreRuns
<1>5. InOrder'
  BY <1>2, <1>3 DEF InOrder, given
<1>6. \A i \in DOMAIN chunks' : chunks'[i][1] <= a /\ chunks'[i][2] <= b
  BY <1>2, <1>3
<1>7. \A i \in DOMAIN chunks : i \in DOMAIN chunks' /\ chunks'[i] = chunks[i]
  BY <1>2
<1>8. \E i \in DOMAIN chunks' : chunks'[i] = <<a, b>>
  BY <1>2
<1>9. ASSUME \A k \in 1 .. (a - 1) :
               \E i \in DOMAIN chunks : chunks[i][1] <= k /\ k <= chunks[i][2],
             NEW k \in 1 .. b
      PROVE  \E i \in DOMAIN chunks' : chunks'[i][1] <= k /\ k <= chunks'[i][2]
  <2>1. CASE k <= a - 1
    <3>1. k \in 1 .. (a - 1)
      BY <2>1
    <3>2. PICK i \in DOMAIN chunks : chunks[i][1] <= k /\ k <= chunks[i][2]
      BY <1>9, <3>1
    <3> QED
      BY <3>2, <1>7
  <2>2. CASE ~(k <= a - 1)
    <3>1. a <= k /\ k <= b
      BY <2>2
    <3>2. PICK i \in DOMAIN chunks' : chunks'[i] = <<a, b>>
      BY <1>8
    <3> QED
      BY <3>1, <3>2
  <2> QED
    BY <2>1, <2>2
<1> QED
  BY <1>4, <1>5, <1>6, <1>9

\* The chunks given out so far fit, are in order and leave nothing out.
LEMMA ChunksStep ==
  SplitInv /\ SplitTypes' /\ [SplitNext]_splitVars => ChunksAreRuns' /\ InOrder' /\ Behind' /\ Covered'
<1> SUFFICES ASSUME SplitInv, SplitTypes', [SplitNext]_splitVars
             PROVE  ChunksAreRuns' /\ InOrder' /\ Behind' /\ Covered'
  OBVIOUS
<1>i. /\ SplitTypes /\ PartsInOrder /\ CurrentFits /\ CarriedIsEnd
      /\ ChunksAreRuns /\ InOrder /\ Behind /\ Covered
  BY DEF SplitInv
<1>t. /\ size \in Nat /\ first \in Nat \ {0} /\ next \in Nat \ {0} /\ keep \in Nat \ {0}
      /\ Len(parts) \in Nat /\ overlap \in Nat
  BY <1>i DEF SplitTypes
<1>d. \A i \in DOMAIN chunks : chunks[i] \in (Nat \ {0}) \X (Nat \ {0})
  <2>1. chunks \in Seq((Nat \ {0}) \X (Nat \ {0}))
    BY <1>i DEF SplitTypes
  <2>2. \A s \in Seq((Nat \ {0}) \X (Nat \ {0})) :
          \A i \in DOMAIN s : s[i] \in (Nat \ {0}) \X (Nat \ {0})
    OBVIOUS
  <2> QED
    BY <2>1, <2>2, Zenon
<1>c. phase = "group" =>
        \A k \in 1 .. (first - 1) :
          \E i \in DOMAIN chunks : chunks[i][1] <= k /\ k <= chunks[i][2]
  BY <1>i DEF Covered, Given
<1>n. first < next => next - 1 \in Nat \ {0}
  BY <1>t
\* The first loop gives nothing out.
<1>1. ASSUME UNCHANGED <<given, chunks, first, next>>, phase = "parts", phase' \in {"parts", "group"}
      PROVE  ChunksAreRuns' /\ InOrder' /\ Behind' /\ Covered'
  <2>1. chunks' = <<>> /\ first' = 1
    BY <1>1, <1>i DEF CurrentFits
  <2>2. ChunksAreRuns' /\ InOrder' /\ Behind'
    BY <2>1 DEF ChunksAreRuns, InOrder, Behind
  <2>3. Covered'
    BY <1>1, <2>1 DEF Covered, Given
  <2> QED
    BY <2>2, <2>3
<1>5. CASE Add
  <2>1. /\ phase = "group" /\ phase' = "group" /\ next' = next + 1
        /\ UNCHANGED <<mode, size, overlap, parts, first, chunks>>
    BY <1>5 DEF Add, AtPart, given, split
  <2>2. ChunksAreRuns' /\ InOrder'
    BY <2>1, <1>i DEF ChunksAreRuns, InOrder, Fits, Width
  <2>3. Behind' /\ Covered'
    BY <2>1, <1>i, <1>t, <1>d DEF Behind, Covered, Given
  <2> QED
    BY <2>2, <2>3
<1>6. CASE Emit
  <2>1. /\ phase = "group" /\ phase' = "carry" /\ next' = next /\ next <= Len(parts)
        /\ UNCHANGED <<given, parts, first>> /\ first < next
        /\ chunks' = Append(chunks, <<first, next - 1>>)
    BY <1>6 DEF Emit, AtPart, Overflows, split
  <2>2. /\ Fits(first, next - 1) /\ first <= next - 1 /\ next - 1 <= Len(parts)
    BY <2>1, <1>i, <1>t DEF CurrentFits
  <2>3. \A i \in DOMAIN chunks : /\ chunks[i][1] < first /\ chunks[i][2] < next - 1
                                 /\ overlap = 0 => chunks[i][2] < first
    BY <2>1, <1>i DEF Behind
  <2>4. /\ ChunksAreRuns' /\ InOrder'
        /\ \A i \in DOMAIN chunks' : chunks'[i][1] <= first /\ chunks'[i][2] <= next - 1
        /\ \A k \in 1 .. (next - 1) :
             \E i \in DOMAIN chunks' : chunks'[i][1] <= k /\ k <= chunks'[i][2]
    BY <2>1, <2>2, <2>3, <1>i, <1>t, <1>n, <1>c, ChunkAppended
  <2>5. Behind'
    BY <2>1, <2>4 DEF Behind
  <2>6. Covered'
    BY <2>1, <2>4, <1>t DEF Covered, Given
  <2> QED
    BY <2>4, <2>5, <2>6
<1>7. CASE CarryOne
  <2>1. /\ phase = "carry" /\ phase' = "carry"
        /\ UNCHANGED <<mode, size, overlap, parts, first, next, chunks>>
    BY <1>7 DEF CarryOne, Carries, given, split
  <2> QED
    BY <2>1, <1>i DEF ChunksAreRuns, InOrder, Behind, Covered, Given, Fits, Width
<1>8. CASE Carried
  <2>1. /\ phase = "carry" /\ phase' = "group" /\ next' = next + 1 /\ first' = Start
        /\ UNCHANGED <<mode, size, overlap, parts, chunks>>
    BY <1>8 DEF Carried, given, split
  <2>2. /\ first < next /\ first <= keep /\ keep <= next /\ Width(first, next) > size
        /\ overlap = 0 => keep = next
    BY <2>1, <1>i DEF CarriedIsEnd
  <2>3. first < Start /\ Start <= next /\ (overlap = 0 => Start = next)
    <3>1. CASE keep = first
      BY <2>2, <3>1, <1>t DEF Start
    <3>2. CASE keep # first
      BY <2>2, <3>2, <1>t DEF Start
    <3> QED
      BY <3>1, <3>2
  <2>4. \A i \in DOMAIN chunks : chunks[i][1] <= first /\ chunks[i][2] <= next - 1
    BY <2>1, <1>i DEF Behind
  <2>5. Start \in Nat
    BY <1>t DEF Start
  <2>6. Behind'
    BY <2>1, <2>3, <2>4, <2>5, <1>t, <1>d DEF Behind
  <2>7. Covered'
    BY <2>1, <2>3, <2>5, <1>i, <1>t DEF Covered, Given
  <2> QED
    BY <2>1, <2>6, <2>7, <1>i DEF ChunksAreRuns, InOrder, Fits, Width
<1>9. CASE EmitPiece
  <2>1. /\ phase = "group" /\ phase' = "group" /\ next' = next + 1 /\ first' = next
        /\ next <= Len(parts) /\ UNCHANGED <<given, parts>> /\ first < next
        /\ chunks' = Append(chunks, <<first, next - 1>>)
    BY <1>9 DEF EmitPiece, AtPart, Overflows, split
  <2>2. /\ Fits(first, next - 1) /\ first <= next - 1 /\ next - 1 <= Len(parts)
    BY <2>1, <1>i, <1>t DEF CurrentFits
  <2>3. \A i \in DOMAIN chunks : /\ chunks[i][1] < first /\ chunks[i][2] < next - 1
                                 /\ overlap = 0 => chunks[i][2] < first
    BY <2>1, <1>i DEF Behind
  <2>4. /\ ChunksAreRuns' /\ InOrder'
        /\ \A i \in DOMAIN chunks' : chunks'[i][1] <= first /\ chunks'[i][2] <= next - 1
        /\ \A k \in 1 .. (next - 1) :
             \E i \in DOMAIN chunks' : chunks'[i][1] <= k /\ k <= chunks'[i][2]
    BY <2>1, <2>2, <2>3, <1>i, <1>t, <1>n, <1>c, ChunkAppended
  <2>d. \A i \in DOMAIN chunks' : chunks'[i] \in (Nat \ {0}) \X (Nat \ {0})
    BY DEF SplitTypes
  <2>5. Behind'
    BY <2>1, <2>4, <2>d, <1>t DEF Behind
  <2>6. Covered'
    BY <2>1, <2>4, <1>t DEF Covered, Given
  <2> QED
    BY <2>4, <2>5, <2>6
<1>10. CASE Finish
  <2>1. /\ phase = "group" /\ phase' = "done" /\ next' = next /\ first' = first
        /\ UNCHANGED <<given, parts>>
    BY <1>10 DEF Finish, split
  <2>2. Behind'
    BY <2>1 DEF Behind
  <2>3. CASE first < next
    <3>1. chunks' = Append(chunks, <<first, next - 1>>)
      BY <1>10, <2>3 DEF Finish
    <3>2. /\ Fits(first, next - 1) /\ first <= next - 1 /\ next - 1 <= Len(parts)
      BY <2>3, <1>i, <1>t DEF CurrentFits
    <3>3. \A i \in DOMAIN chunks : /\ chunks[i][1] < first /\ chunks[i][2] < next - 1
                                   /\ overlap = 0 => chunks[i][2] < first
      BY <2>1, <1>i DEF Behind
    <3>4. /\ ChunksAreRuns' /\ InOrder'
          /\ \A k \in 1 .. (next - 1) :
               \E i \in DOMAIN chunks' : chunks'[i][1] <= k /\ k <= chunks'[i][2]
      BY <2>1, <2>3, <3>1, <3>2, <3>3, <1>i, <1>t, <1>n, <1>c, ChunkAppended
    <3>5. Covered'
      BY <2>1, <3>4, <1>t DEF Covered, Given
    <3> QED
      BY <2>2, <3>4, <3>5
  <2>4. CASE ~(first < next)
    <3>1. chunks' = chunks /\ next = 1
      BY <1>10, <2>4, <1>i DEF Finish, CurrentFits
    <3>2. Covered'
      BY <2>1, <3>1 DEF Covered, Given
    <3> QED
      BY <2>1, <2>2, <3>1, <3>2, <1>i DEF ChunksAreRuns, InOrder, Fits, Width, given
  <2> QED
    BY <2>3, <2>4
<1>11. CASE UNCHANGED splitVars
  BY <1>11, <1>i DEF splitVars, given, split, carry, ChunksAreRuns, InOrder, Behind, Covered, Given,
                     Fits, Width
<1>12. CASE Cut \/ NoMoreSentences \/ (\E s \in 0 .. TextLen, e \in 1 .. TextLen : Find(s, e) \/ FindLong(s, e))
  BY <1>12, <1>1 DEF Find, FindLong, Sentence, Cut, NoMoreSentences
<1> QED
  BY <1>5, <1>6, <1>7, <1>8, <1>9, <1>10, <1>11, <1>12 DEF SplitNext

\* The invariant of the splitter holds in every reachable state.
THEOREM SplitterInvariant == SplitSpec => []SplitInv
<1>1. SplitInit => SplitInv
  BY InitSplit
<1>2. SplitInv /\ [SplitNext]_splitVars => SplitInv'
  BY TypesStep, PartsStep, CurrentStep, ChunksStep DEF SplitInv
<1> QED
  BY <1>1, <1>2, PTL DEF SplitSpec

\* No chunk is wider than its size, for any text, size and overlap.
THEOREM ChunksAlwaysFit == SplitSpec => []ChunksFit
<1>1. SplitInv => ChunksFit
  BY DEF SplitInv, ChunksAreRuns, Fits, ChunksFit
<1> QED
  BY <1>1, SplitterInvariant, PTL

\* Every part is in a chunk, chunks are in order and share text only if an
\* overlap was asked for.
THEOREM NothingIsLost == SplitSpec => []ChunksCoverInOrder
<1>1. ASSUME SplitInv PROVE ChunksCoverInOrder
  <2>1. InOrder /\ Covered /\ CurrentFits /\ parts \in Seq(Nat \X Nat) /\ next \in Nat \ {0}
    BY <1>1 DEF SplitInv, SplitTypes
  <2>2. phase = "done" => Given = Len(parts)
    BY <2>1 DEF Given, CurrentFits
  <2>3. phase = "done" =>
          \A k \in DOMAIN parts : \E i \in DOMAIN chunks : chunks[i][1] <= k /\ k <= chunks[i][2]
    BY <2>1, <2>2 DEF Covered
  <2> QED
    BY <2>1, <2>3 DEF InOrder, ChunksCoverInOrder
<1> QED
  BY <1>1, SplitterInvariant, PTL

-----------------------------------------------------------------------------
(* Extracting claims.                                                       *)

\* What can be claimed of piece p.
ClaimOf(p) == {[piece |-> p, kind |-> c.kind, lines |-> c.lines] : c \in Claimable}
Claim == UNION {ClaimOf(p) : p \in 1 .. Pieces}

\* The claims of an answer are claims of its piece.
LEMMA AnswerClaims ==
  ASSUME NEW p \in 1 .. Pieces, NEW a \in AnswersOf(p)
  PROVE  a.claims \in Seq(ClaimOf(p)) /\ a.claims \in Seq(Claim)
<1>1. PICK s \in BoundedSeq(Claimable, MaxClaims) :
        a = [claims |-> [k \in DOMAIN s |-> [piece |-> p, kind |-> s[k].kind, lines |-> s[k].lines]]]
  BY DEF AnswersOf
<1>2. PICK m \in 0 .. MaxClaims : s \in [1 .. m -> Claimable]
  BY <1>1 DEF BoundedSeq, SeqOf
<1>3. \A k \in 1 .. m : [piece |-> p, kind |-> s[k].kind, lines |-> s[k].lines] \in ClaimOf(p)
  BY <1>2 DEF ClaimOf
<1>4. a.claims = [k \in 1 .. m |-> [piece |-> p, kind |-> s[k].kind, lines |-> s[k].lines]]
  BY <1>1, <1>2
<1>5. m \in Nat
  BY StagesBounds
<1>6. a.claims \in [1 .. m -> ClaimOf(p)]
  BY <1>3, <1>4
<1>7. ClaimOf(p) \subseteq Claim
  BY DEF Claim
<1>8. a.claims \in [1 .. m -> Claim]
  BY <1>6, <1>7
<1> QED
  BY <1>5, <1>6, <1>8

\* The claims put together are in the order of the pieces.
LEMMA NumberedInOrder ==
  ASSUME \A p \in 1 .. Pieces : answers[p] \in AnswersOf(p)
  PROVE  LET s == FlattenSeq([p \in 1 .. Pieces |-> answers[p].claims])
         IN  s \in Seq(Claim) /\ \A i, k \in DOMAIN s : i < k => s[i].piece <= s[k].piece
<1> DEFINE lists == [p \in 1 .. Pieces |-> answers[p].claims]
           s == FlattenSeq(lists)
<1>1. \A p \in 1 .. Pieces : lists[p] \in Seq(ClaimOf(p)) /\ lists[p] \in Seq(Claim)
  BY AnswerClaims
<1>2. lists \in [1 .. Pieces -> Seq(Claim)] /\ Pieces \in Nat
  BY <1>1, StagesBounds
<1> HIDE DEF lists
<1>3. /\ s \in Seq(Claim)
      /\ \E from \in [DOMAIN s -> 1 .. Pieces] :
           /\ \A a \in DOMAIN s : \E k \in DOMAIN lists[from[a]] : s[a] = lists[from[a]][k]
           /\ \A a, b \in DOMAIN s : a < b => from[a] <= from[b]
  BY <1>2, FlattenInOrder
<1> HIDE DEF s
<1>4. PICK from \in [DOMAIN s -> 1 .. Pieces] :
        /\ \A a \in DOMAIN s : \E k \in DOMAIN lists[from[a]] : s[a] = lists[from[a]][k]
        /\ \A a, b \in DOMAIN s : a < b => from[a] <= from[b]
  BY <1>3
<1>5. ASSUME NEW a \in DOMAIN s
      PROVE  s[a].piece = from[a]
  <2>1. PICK k \in DOMAIN lists[from[a]] : s[a] = lists[from[a]][k]
    BY <1>4
  <2>2. lists[from[a]] \in Seq(ClaimOf(from[a]))
    BY <1>1, <1>4
  <2>3. s[a] \in ClaimOf(from[a])
    BY <2>1, <2>2
  <2> QED
    BY <2>3 DEF ClaimOf
<1>6. \A i, k \in DOMAIN s : i < k => s[i].piece <= s[k].piece
  BY <1>4, <1>5
<1> QED
  BY <1>3, <1>6 DEF s, lists

-----------------------------------------------------------------------------
(* Searching.                                                              *)

\* A claim has finitely many channels.
LEMMA RouteFinite ==
  ASSUME NEW claim
  PROVE  IsFiniteSet(Route(claim))
<1> DEFINE words == CASE claim.kind = "axis and value" -> {"axis", "axis: value"}
                      [] claim.kind = "axis" -> {"axis"}
                      [] claim.kind = "quote" -> {"quote"}
                      [] OTHER -> {}
           all == {"axis"} \cup {"axis: value"} \cup {"quote"}
<1>1. words \subseteq all
  OBVIOUS
<1>2. IsFiniteSet(all)
  BY FS_Singleton, FS_AddElement
<1>3. IsFiniteSet(words)
  <2> HIDE DEF words, all
  <2> QED BY <1>1, <1>2, FS_Subset
<1>4. IsFiniteSet({"hybrid_search", "fact_search"})
  <2>1. {"hybrid_search", "fact_search"} = {"hybrid_search"} \cup {"fact_search"}
    OBVIOUS
  <2>2. IsFiniteSet({"hybrid_search"})
    BY FS_Singleton
  <2> QED
    BY <2>1, <2>2, FS_AddElement
<1>5. Route(claim) = {"hybrid_search", "fact_search"} \X words
  BY DEF Route
<1> HIDE DEF words
<1> QED
  BY <1>3, <1>4, <1>5, FS_Product

\* What a thread may bring for a claim: a record of that claim, whose nodes are
\* of the past, with no more failures than calls.
IsRecordOf(r, claim) ==
  /\ r.claim = claim
  /\ r.calls \in Nat /\ r.failed \in Nat /\ r.failed <= r.calls
  /\ r.nodes \subseteq Nodes /\ \A n \in r.nodes : ~Future(n)

LEMMA SearchedIs ==
  ASSUME NEW i \in DOMAIN claims, NEW r \in Searched(i)
  PROVE  IsRecordOf(r, claims[i])
<1> DEFINE calls == Route(claims[i])
<1>0. PICK ok \in SUBSET calls : r \in Brought(i, ok)
  BY DEF Searched
<1>1. PICK S \in SUBSET UNION {Reach(c) : c \in ok} :
        r = [claim |-> claims[i], calls |-> Cardinality(calls),
             failed |-> Cardinality(calls \ ok), nodes |-> {n \in S : ~Future(n)}]
  BY <1>0 DEF Brought
<1>4. S \subseteq Nodes
  BY DEF Reach, Nodes
<1>2. IsFiniteSet(calls)
  BY RouteFinite
<1>3. /\ Cardinality(calls) \in Nat /\ Cardinality(calls \ ok) \in Nat
      /\ Cardinality(calls \ ok) <= Cardinality(calls)
  <2> HIDE DEF calls
  <2>1. calls \ ok \in SUBSET calls
    OBVIOUS
  <2> QED
    BY <1>2, <2>1, FS_Subset, FS_CardinalityType
<1> HIDE DEF calls
<1> QED
  BY <1>1, <1>3, <1>4 DEF IsRecordOf

\* Every thread has ended.
AllSearched == \A i \in DOMAIN found : IsRecordOf(found[i], claims[i])

\* Some channel of some claim answered, or there was none.
Reached ==
  \/ \E i \in DOMAIN found : found[i].failed < found[i].calls
  \/ \A i \in DOMAIN found : found[i].calls = 0

\* If the sums do not say that the graph was not reached, it was.
LEMMA ReachedIs ==
  ASSUME NEW n \in Nat, DOMAIN found = 1 .. n, DOMAIN claims = 1 .. n, AllSearched, ~Unreached
  PROVE  Reached
<1> DEFINE calls == [i \in DOMAIN found |-> found[i].calls]
           failures == [i \in DOMAIN found |-> found[i].failed]
<1> SUFFICES ASSUME \A i \in DOMAIN found : ~(found[i].failed < found[i].calls)
             PROVE  \A i \in DOMAIN found : found[i].calls = 0
  BY DEF Reached
<1>1. \A i \in 1 .. n : /\ found[i].calls \in Nat /\ found[i].failed \in Nat
                        /\ found[i].failed <= found[i].calls
  BY DEF AllSearched, IsRecordOf
<1>2. \A i \in 1 .. n : found[i].calls = found[i].failed
  BY <1>1
<1>3. calls = failures
  BY <1>2
<1>4. calls \in [1 .. n -> Nat]
  BY <1>1
<1>5. ~(Total(calls) > 0 /\ Total(failures) = Total(calls))
  BY DEF Unreached
<1>6. \A i \in 1 .. n : calls[i] = found[i].calls
  OBVIOUS
<1> HIDE DEF calls, failures
<1>7. Total(calls) \in Nat /\ \A i \in 1 .. n : calls[i] <= Total(calls)
  BY <1>4, SumBounds DEF Total
<1>8. Total(failures) = Total(calls)
  BY <1>3
<1>9. Total(calls) = 0
  BY <1>5, <1>7, <1>8
<1> QED
  BY <1>1, <1>6, <1>7, <1>9

-----------------------------------------------------------------------------
(* Judging.                                                                *)

\* The store holds nodes of the novel.
StoreIsOfNovel == store.chunks \subseteq Chunks /\ store.facts \subseteq Facts

\* What is put together from citations is a sequence of chunks.
LEMMA SpreadIs ==
  ASSUME StoreIsOfNovel, NEW n \in Nat, NEW cited, DOMAIN cited = 1 .. n
  PROVE  Spread(cited) \in Seq(Chunks)
<1> DEFINE lists == [k \in DOMAIN cited |-> Expand(cited[k])]
<1>1. ASSUME NEW alias
      PROVE  Expand(alias) \in Seq(Chunks)
  <2>1. CASE alias \in store.chunks
    <3>1. alias \in Chunks
      BY <2>1 DEF StoreIsOfNovel
    <3>2. <<alias>> \in Seq(Chunks)
      BY <3>1
    <3> QED
      BY <2>1, <3>2 DEF Expand
  <2>2. CASE alias \notin store.chunks /\ alias \in store.facts
    BY <2>2, StagesBounds DEF Expand, StoreIsOfNovel
  <2>3. CASE alias \notin store.chunks /\ alias \notin store.facts
    <3>1. <<>> \in Seq(Chunks)
      OBVIOUS
    <3> QED
      BY <2>3, <3>1 DEF Expand
  <2> QED
    BY <2>1, <2>2, <2>3
<1>2. lists \in [1 .. n -> Seq(Chunks)]
  BY <1>1
<1> HIDE DEF lists
<1>3. FlattenSeq(lists) \in Seq(Chunks)
  BY <1>2, FlattenInOrder
<1> QED
  BY <1>3 DEF Spread, lists

\* Chunks that the judge was shown, each place of the text once.
Cited ==
  {out \in Seq(Chunks) :
     /\ ToSet(out) \subseteq store.chunks
     /\ \A i, j \in DOMAIN out : SamePlace(out[i], out[j]) => i = j}

\* The step of Resolve.
Keep(out, c) ==
  IF \/ c \notin store.chunks \/ ChapterOf[c] = Null
     \/ \E k \in DOMAIN out : SamePlace(out[k], c)
  THEN out ELSE Append(out, c)

\* It leaves such a sequence one.
LEMMA KeepKeeps ==
  ASSUME StoreIsOfNovel, NEW out \in Cited, NEW c
  PROVE  Keep(out, c) \in Cited
<1>1. /\ out \in Seq(Chunks)
      /\ ToSet(out) \subseteq store.chunks
      /\ \A i, j \in DOMAIN out : SamePlace(out[i], out[j]) => i = j
  BY DEF Cited
<1>2. CASE \/ c \notin store.chunks \/ ChapterOf[c] = Null
           \/ \E k \in DOMAIN out : SamePlace(out[k], c)
  BY <1>2 DEF Keep
<1>3. CASE /\ c \in store.chunks
           /\ \A k \in DOMAIN out : ~SamePlace(out[k], c)
           /\ Keep(out, c) = Append(out, c)
  <2> DEFINE new == Append(out, c)
  <2>1. c \in Chunks
    BY <1>3 DEF StoreIsOfNovel
  <2>2. /\ new \in Seq(Chunks) /\ DOMAIN new = 1 .. Len(out) + 1 /\ Len(out) \in Nat
        /\ DOMAIN out = 1 .. Len(out)
        /\ new[Len(out) + 1] = c /\ \A k \in DOMAIN out : new[k] = out[k]
    BY <1>1, <2>1
  <2> HIDE DEF new
  <2>3. \A i \in DOMAIN new : i = Len(out) + 1 \/ i \in DOMAIN out
    BY <2>2
  <2>4. ToSet(new) \subseteq store.chunks
    BY <1>1, <1>3, <2>2, <2>3 DEF ToSet
  <2>5. ASSUME NEW i \in DOMAIN new, NEW j \in DOMAIN new, SamePlace(new[i], new[j])
        PROVE  i = j
    <3>1. \A k \in DOMAIN out : ~SamePlace(c, out[k])
      BY <1>3 DEF SamePlace
    <3> QED
      BY <1>1, <1>3, <2>2, <2>3, <2>5, <3>1
  <2>6. new \in Cited
    BY <2>2, <2>4, <2>5 DEF Cited
  <2> QED
    BY <1>3, <2>6 DEF new
<1> QED
  BY <1>2, <1>3 DEF Keep

\* What Resolve computes is such a sequence: its fold starts with one, and
\* every step leaves it one.
LEMMA ResolveIs ==
  ASSUME StoreIsOfNovel, NEW m \in Nat, NEW cited, DOMAIN cited = 1 .. m
  PROVE  Resolve(cited) \in Cited
<1> DEFINE s == Spread(cited)
           n == Len(s)
           Step(it) == [S \in SUBSET DOMAIN s |->
                          IF S = {} THEN <<>> ELSE Keep(it[S \ {Max(S)}], s[Max(S)])]
           iter == CHOOSE it : it = Step(it)
           h == [i \in 1 .. n |-> [out \in Cited |-> Keep(out, s[i])]]
<1>1. Resolve(cited) = iter[DOMAIN s]
  BY DEF Resolve, FoldLeft, MapThenFoldSet, Keep
<1> HIDE DEF iter
<1>2. s \in Seq(Chunks) /\ n \in Nat /\ DOMAIN s = 1 .. n
  BY SpreadIs
<1> HIDE DEF s, n
<1>3. <<>> \in Cited
  BY DEF Cited, ToSet
<1>4. PICK it \in Folds(n, Cited, <<>>, h) : TRUE
  <2>1. h \in [1 .. n -> [Cited -> Cited]]
    BY KeepKeeps
  <2> HIDE DEF h, Step
  <2>2. Folds(n, Cited, <<>>, h) # {}
    BY <1>2, <1>3, <2>1, FoldsExist
  <2> QED
    BY <2>2
<1>5. it = Step(it)
  <2>1. ASSUME NEW S \in SUBSET (1 .. n)
        PROVE  it[S] = IF S = {} THEN <<>> ELSE Keep(it[S \ {Max(S)}], s[Max(S)])
    <3>1. it[S] = IF S = {} THEN <<>> ELSE h[Max(S)][it[S \ {Max(S)}]]
      BY <1>4 DEF Folds
    <3>2. ASSUME S # {}
          PROVE  h[Max(S)][it[S \ {Max(S)}]] = Keep(it[S \ {Max(S)}], s[Max(S)])
      <4>1. Max(S) \in 1 .. n
        <5>1. S \subseteq 1 .. n + 1 /\ S # {}
          BY <1>2, <3>2
        <5> QED
          BY <1>2, <5>1, MaxUpTo
      <4>2. it[S \ {Max(S)}] \in Cited
        BY <1>4 DEF Folds
      <4> QED
        BY <4>1, <4>2
    <3> HIDE DEF h
    <3> QED
      BY <3>1, <3>2
  <2>2. it = [S \in SUBSET (1 .. n) |-> it[S]]
    BY <1>4 DEF Folds
  <2>3. it = [S \in SUBSET (1 .. n) |->
                IF S = {} THEN <<>> ELSE Keep(it[S \ {Max(S)}], s[Max(S)])]
    BY <2>1, <2>2, Zenon
  <2> QED
    BY <1>2, <2>3
<1>6. iter = Step(iter)
  <2> HIDE DEF Step
  <2> QED BY <1>5 DEF iter
<1>7. ASSUME NEW S \in SUBSET (1 .. n)
      PROVE  iter[S] = IF S = {} THEN <<>> ELSE Keep(iter[S \ {Max(S)}], s[Max(S)])
  <2>1. Step(iter)[S] = IF S = {} THEN <<>> ELSE Keep(iter[S \ {Max(S)}], s[Max(S)])
    BY <1>2
  <2> HIDE DEF Step
  <2> QED BY <1>6, <2>1
<1> HIDE DEF Step
<1> DEFINE P == {k \in 0 .. n : iter[1 .. k] \in Cited}
<1>8. 0 \in P
  <2>1. 1 .. 0 = {} /\ {} \in SUBSET (1 .. n) /\ 0 \in 0 .. n
    BY <1>2
  <2>2. iter[{}] = <<>>
    BY <1>7
  <2> QED
    BY <1>3, <2>1, <2>2
<1>9. ASSUME NEW k \in 0 .. n - 1, k \in P
      PROVE  k + 1 \in P
  <2>1. k + 1 \in 1 .. n /\ k + 1 \in 0 .. n /\ (k + 1) - 1 = k
    BY <1>2
  <2>2. iter[1 .. k + 1] = Keep(iter[1 .. k], s[k + 1])
    <3> DEFINE j == k + 1
    <3>1. j \in 1 .. n /\ j - 1 = k
      BY <2>1
    <3> HIDE DEF j
    <3>2. /\ 1 .. j \in SUBSET (1 .. n) /\ 1 .. j # {}
          /\ Max(1 .. j) = j /\ (1 .. j) \ {j} = 1 .. k
      BY <1>2, <3>1, PrefixTop
    <3>3. iter[1 .. j] = Keep(iter[1 .. k], s[j])
      BY <1>7, <3>2
    <3> QED
      BY <3>3 DEF j
  <2>3. iter[1 .. k] \in Cited
    BY <1>9
  <2> QED
    BY <2>1, <2>2, <2>3, KeepKeeps
<1>10. n \in P
  <2>1. \A k \in 0 .. n : k \in P
    <3> HIDE DEF P
    <3> QED BY <1>2, <1>8, <1>9, InductionUpTo
  <2>2. n \in 0 .. n
    BY <1>2
  <2> HIDE DEF P
  <2> QED BY <2>1, <2>2
<1> QED
  BY <1>1, <1>2, <1>10

\* A finite set can be put in a row.
LEMMA RowExists ==
  ASSUME NEW S, IsFiniteSet(S)
  PROVE  \E m \in Nat : SetToSeq(S) \in [1 .. m -> S]
<1>1. Cardinality(S) \in Nat /\ ExistsBijection(1 .. Cardinality(S), S)
  BY FS_CardinalityType
<1>2. PICK f \in [1 .. Cardinality(S) -> S] : IsInjective(f)
  BY <1>1 DEF ExistsBijection, Bijection, Injection
<1>3. SetToSeq(S) \in [1 .. Cardinality(S) -> S]
  BY <1>2 DEF SetToSeq
<1> QED
  BY <1>1, <1>3

\* A verdict cites a sequence of aliases.
LEMMA VerdictCites ==
  ASSUME StoreIsOfNovel, NEW v \in Verdicts
  PROVE  \E m \in Nat : DOMAIN v.cited = 1 .. m
<1> DEFINE named == 0 .. Len(claims) + 1
           shown == SetToSeq(store.chunks \cup store.facts)
           madeUp == <<MadeUp>> \o SetToSeq(store.facts)
<1>1. IsFiniteSet(store.facts) /\ IsFiniteSet(store.chunks \cup store.facts)
  <2>1. IsFiniteSet(store.facts) /\ IsFiniteSet(store.chunks)
    BY StagesBounds, FS_Subset DEF StoreIsOfNovel
  <2> QED
    BY <2>1, FS_Union
<1>2. PICK m \in Nat : shown \in [1 .. m -> store.chunks \cup store.facts]
  BY <1>1, RowExists
<1>3. PICK k \in Nat : SetToSeq(store.facts) \in [1 .. k -> store.facts]
  BY <1>1, RowExists
<1>4. \E j \in Nat : DOMAIN madeUp = 1 .. j
  <2> DEFINE T == store.facts \cup {MadeUp}
             row == SetToSeq(store.facts)
  <2>1. row \in [1 .. k -> T]
    BY <1>3
  <2> HIDE DEF row, T
  <2>2. row \in Seq(T)
    BY <2>1
  <2>3. <<MadeUp>> \in Seq(T)
    BY DEF T
  <2>4. <<MadeUp>> \o row \in Seq(T)
    BY <2>2, <2>3
  <2>5. Len(<<MadeUp>> \o row) \in Nat /\ DOMAIN (<<MadeUp>> \o row) = 1 .. Len(<<MadeUp>> \o row)
    BY <2>4
  <2> QED
    BY <2>5 DEF row
<1>5. DOMAIN shown = 1 .. m
  BY <1>2
<1>6. \E j \in Nat : DOMAIN <<>> = 1 .. j
  <2>1. DOMAIN <<>> = 1 .. 0 /\ 0 \in Nat
    OBVIOUS
  <2> QED
    BY <2>1
<1>7. v.cited \in {shown, madeUp, <<>>}
  <2> HIDE DEF shown, madeUp
  <2> QED BY DEF Verdicts, shown, madeUp
<1> HIDE DEF shown, madeUp
<1> QED
  BY <1>4, <1>5, <1>6, <1>7

\* Of each claim an answer names, its last verdict is read.
LEMMA ReadIs ==
  ASSUME NEW m \in Nat, NEW answer \in [1 .. m -> Verdicts]
  PROVE  /\ DOMAIN Read(answer) = {answer[i].claim : i \in 1 .. m}
         /\ \A n \in DOMAIN Read(answer) :
              \E i \in 1 .. m :
                /\ Read(answer)[n] = answer[i] /\ answer[i].claim = n
                /\ \A k \in i + 1 .. m : answer[k].claim # n
<1>1. Len(answer) = m /\ DOMAIN answer = 1 .. m
  OBVIOUS
<1>2. DOMAIN Read(answer) = {answer[i].claim : i \in 1 .. m}
  BY <1>1 DEF Read, ToSet
<1>3. ASSUME NEW n \in DOMAIN Read(answer)
      PROVE  \E i \in 1 .. m :
               /\ Read(answer)[n] = answer[i] /\ answer[i].claim = n
               /\ \A k \in i + 1 .. m : answer[k].claim # n
  <2> DEFINE Of == {i \in 1 .. m : answer[i].claim = n}
             Latest(i) == answer[i].claim = n /\ \A k \in i + 1 .. Len(answer) : answer[k].claim # n
  <2>1. Of \in SUBSET Int /\ Of # {} /\ IsFiniteSet(Of)
    <3>1. Of # {}
      BY <1>2
    <3>2. IsFiniteSet(1 .. m) /\ 1 .. m \subseteq Int
      BY FS_Interval, 1 \in Int, m \in Int
    <3>3. Of \subseteq 1 .. m
      OBVIOUS
    <3> HIDE DEF Of
    <3> QED
      BY <3>1, <3>2, <3>3, FS_Subset
  <2>2. PICK i \in Of : \A k \in Of : i >= k
    <3> HIDE DEF Of
    <3> QED BY <2>1, GreatestExists
  <2>3. ASSUME NEW k \in i + 1 .. m
        PROVE  answer[k].claim # n
    <3>1. k \in 1 .. m /\ ~(i >= k)
      BY <2>2
    <3> QED
      BY <2>2, <3>1
  <2>4. i \in DOMAIN answer /\ Latest(i)
    BY <1>1, <2>2, <2>3
  <2> DEFINE last == CHOOSE j \in DOMAIN answer : Latest(j)
  <2>5. last \in DOMAIN answer /\ Latest(last)
    <3> HIDE DEF Latest
    <3> QED BY <2>4
  <2>6. Read(answer)[n] = answer[last]
    BY DEF Read
  <2> HIDE DEF last
  <2> QED
    BY <1>1, <2>5, <2>6
<1> QED
  BY <1>2, <1>3

\* The result that the judge makes of an answer.
FindingsOf(answer) ==
  LET read == Read(answer)
  IN  [k \in 1 .. Cardinality(Errors(read)) |-> Finding(read[Sorted(Errors(read))[k]])]

\* Its findings are the claims found wrong, counted upwards.
LEMMA FindingsCount ==
  ASSUME NEW n \in Nat, DOMAIN claims = 1 .. n, claims \in Seq(Claim),
         NEW m \in Nat, NEW answer \in [1 .. m -> Verdicts]
  PROVE  LET E == Errors(Read(answer))
             s == Sorted(E)
         IN  /\ E \in SUBSET (1 .. n) /\ Cardinality(E) \in Nat
             /\ s \in [1 .. Cardinality(E) -> E]
             /\ \A i, k \in 1 .. Cardinality(E) : i < k => s[i] < s[k]
             /\ \A x \in E : \E i \in 1 .. Cardinality(E) : s[i] = x
             /\ \A k \in 1 .. Cardinality(E) : FindingsOf(answer)[k] = Finding(Read(answer)[s[k]])
<1> DEFINE E == Errors(Read(answer))
           s == Sorted(E)
<1>1. Len(claims) = n
  OBVIOUS
<1>2. E \in SUBSET (1 .. n)
  BY <1>1 DEF Errors
<1>3. \A k \in 1 .. Cardinality(E) : FindingsOf(answer)[k] = Finding(Read(answer)[s[k]])
  BY DEF FindingsOf
<1> HIDE DEF E
<1>4. /\ IsFiniteSet(E)
      /\ \E t \in [1 .. Cardinality(E) -> E] :
           \A i, k \in 1 .. Cardinality(E) : i < k => t[i] < t[k]
  BY <1>2, SortedExists
<1>5. Cardinality(E) \in Nat
  BY <1>4, FS_CardinalityType
<1>6. /\ s \in [1 .. Cardinality(E) -> E]
      /\ \A i, k \in 1 .. Cardinality(E) : i < k => s[i] < s[k]
  BY <1>4 DEF Sorted
<1> HIDE DEF s
<1>7. \A x \in E : \E i \in 1 .. Cardinality(E) : s[i] = x
  BY <1>2, <1>6, SortedMeetsAll
<1> QED
  BY <1>2, <1>3, <1>5, <1>6, <1>7 DEF E, s

\* They are the claims whose last verdict is an error, in their order.
LEMMA FindingsFollowVerdicts ==
  ASSUME NEW n \in Nat, DOMAIN claims = 1 .. n, claims \in Seq(Claim),
         NEW m \in Nat, NEW answer \in [1 .. m -> Verdicts]
  PROVE  LET f == FindingsOf(answer)
         IN  /\ \A k \in 1 .. Len(f) - 1 : f[k].claim < f[k + 1].claim
             /\ \A c \in DOMAIN claims :
                  (\E k \in DOMAIN f : f[k].claim = c)
                    <=> \E i \in DOMAIN answer :
                          /\ answer[i].claim = c /\ answer[i].error
                          /\ ~\E j \in i + 1 .. Len(answer) : answer[j].claim = c
<1> DEFINE read == Read(answer)
           E == Errors(read)
           s == Sorted(E)
           f == FindingsOf(answer)
           e == Cardinality(E)
<1>1. /\ E \in SUBSET (1 .. n) /\ e \in Nat
      /\ s \in [1 .. e -> E]
      /\ \A i, k \in 1 .. e : i < k => s[i] < s[k]
      /\ \A x \in E : \E i \in 1 .. e : s[i] = x
      /\ \A k \in 1 .. e : f[k] = Finding(read[s[k]])
  BY FindingsCount
<1>2. DOMAIN f = 1 .. e
  BY DEF FindingsOf
<1>3. Len(f) = e
  <2>1. f = [k \in 1 .. e |-> Finding(read[s[k]])]
    BY DEF FindingsOf
  <2> HIDE DEF e, s, read, f
  <2> QED
    BY <1>1, <2>1
<1>4. /\ DOMAIN read = {answer[i].claim : i \in 1 .. m}
      /\ \A c \in DOMAIN read :
           \E i \in 1 .. m :
             /\ read[c] = answer[i] /\ answer[i].claim = c
             /\ \A k \in i + 1 .. m : answer[k].claim # c
  BY ReadIs
<1>5. \A c \in E : c \in DOMAIN read /\ read[c].error
  BY DEF Errors
<1>6. \A c \in DOMAIN read : c \in 1 .. n /\ read[c].error => c \in E
  <2>1. Len(claims) = n
    OBVIOUS
  <2> QED
    BY <2>1 DEF Errors
<1>7. Len(answer) = m /\ DOMAIN answer = 1 .. m
  OBVIOUS
<1> HIDE DEF read, E, s, e, f
<1>8. ASSUME NEW k \in 1 .. e
      PROVE  f[k].claim = s[k] /\ s[k] \in E
  <2>1. s[k] \in E
    BY <1>1
  <2>2. read[s[k]].claim = s[k]
    BY <1>4, <1>5, <2>1
  <2>3. \A v : Finding(v).claim = v.claim
    BY DEF Finding
  <2>4. f[k] = Finding(read[s[k]])
    BY <1>1
  <2> QED
    BY <2>1, <2>2, <2>3, <2>4
<1>9. ASSUME NEW k \in 1 .. Len(f) - 1
      PROVE  f[k].claim < f[k + 1].claim
  <2>1. k \in 1 .. e /\ k + 1 \in 1 .. e /\ k < k + 1
    BY <1>1, <1>3
  <2> QED
    BY <1>1, <1>8, <2>1
<1>10. ASSUME NEW c \in DOMAIN claims, NEW k \in DOMAIN f, f[k].claim = c
       PROVE  \E i \in DOMAIN answer :
                /\ answer[i].claim = c /\ answer[i].error
                /\ ~\E j \in i + 1 .. Len(answer) : answer[j].claim = c
  <2>1. c \in E
    BY <1>2, <1>8, <1>10
  <2> QED
    BY <1>4, <1>5, <1>7, <2>1
<1>11. ASSUME NEW c \in DOMAIN claims, NEW i \in DOMAIN answer,
              answer[i].claim = c, answer[i].error,
              ~\E j \in i + 1 .. Len(answer) : answer[j].claim = c
       PROVE  \E k \in DOMAIN f : f[k].claim = c
  <2>1. c \in DOMAIN read /\ i \in 1 .. m
    BY <1>4, <1>7, <1>11
  <2>2. PICK l \in 1 .. m : /\ read[c] = answer[l] /\ answer[l].claim = c
                            /\ \A k \in l + 1 .. m : answer[k].claim # c
    BY <1>4, <2>1
  <2>3. i = l
    <3>1. ~(i < l)
      <4>1. i < l => l \in i + 1 .. Len(answer)
        BY <1>7, <2>1
      <4> QED
        BY <1>11, <2>2, <4>1
    <3>2. ~(l < i)
      <4>1. l < i => i \in l + 1 .. m
        BY <2>1
      <4> QED
        BY <1>11, <2>2, <4>1
    <3> QED
      BY <2>1, <3>1, <3>2
  <2>4. c \in E
    BY <1>6, <1>11, <2>1, <2>2, <2>3
  <2>5. PICK k \in 1 .. e : s[k] = c
    BY <1>1, <2>4
  <2> QED
    BY <1>2, <1>8, <2>5
<1> QED
  BY <1>9, <1>10, <1>11 DEF f

\* And they stand on what is there.
LEMMA FindingsRest ==
  ASSUME NEW n \in Nat, DOMAIN claims = 1 .. n, claims \in Seq(Claim), StoreIsOfNovel,
         NEW m \in Nat, NEW answer \in [1 .. m -> Verdicts], NEW k \in DOMAIN FindingsOf(answer)
  PROVE  LET f == FindingsOf(answer)[k]
             own == claims[f.claim].lines
         IN  /\ own # {} => f.lines \subseteq own
             /\ ToSet(f.cited) \subseteq store.chunks
             /\ \A i, j \in DOMAIN f.cited : SamePlace(f.cited[i], f.cited[j]) => i = j
<1> DEFINE read == Read(answer)
           E == Errors(read)
           s == Sorted(E)
           c == s[k]
<1>1. k \in 1 .. Cardinality(E)
  BY DEF FindingsOf
<1>2. c \in E /\ FindingsOf(answer)[k] = Finding(read[c])
  BY <1>1, FindingsCount
<1>3. c \in DOMAIN read
  BY <1>2 DEF Errors
<1> HIDE DEF s, E, c
<1>4. PICK i \in 1 .. m : read[c] = answer[i] /\ answer[i].claim = c
  <2>1. /\ DOMAIN read = {answer[i].claim : i \in 1 .. m}
        /\ \A x \in DOMAIN read :
             \E i \in 1 .. m :
               /\ read[x] = answer[i] /\ answer[i].claim = x
               /\ \A j \in i + 1 .. m : answer[j].claim # x
    BY ReadIs
  <2> HIDE DEF read
  <2> QED
    BY <1>3, <2>1
<1>5. \E j \in Nat : DOMAIN answer[i].cited = 1 .. j
  BY VerdictCites
<1>6. Resolve(answer[i].cited) \in Cited
  BY <1>5, ResolveIs
<1> DEFINE v == answer[i]
           own == claims[v.claim].lines
<1>7. own # {} => Picked(v) \subseteq own
  BY DEF Picked
<1>8. Finding(v) = [claim |-> v.claim, lines |-> Picked(v) \cap (1 .. LastLine),
                    cited |-> Resolve(v.cited)]
  BY DEF Finding
<1>9. FindingsOf(answer)[k] = Finding(v)
  BY <1>2, <1>4
<1> HIDE DEF v
<1>10. Resolve(v.cited) \in Cited
  BY <1>6 DEF v
<1> QED
  BY <1>7, <1>8, <1>9, <1>10 DEF Cited

-----------------------------------------------------------------------------
(* The invariant of the stages.                                            *)

Answers == {Pending} \cup UNION {AnswersOf(p) : p \in 1 .. Pieces}

StagesType ==
  /\ stage \in {"extract", "retrieve", "judge", "done", "failed"}
  /\ answers \in [1 .. Pieces -> Answers]
  /\ claims \in Seq(Claim)
  /\ StoreIsOfNovel

\* A piece has been answered for itself.
AnswersOwn == \A p \in 1 .. Pieces : answers[p] # Pending => answers[p] \in AnswersOf(p)

\* A claim's record is its own, or not there yet.
FoundOwn ==
  /\ DOMAIN found = DOMAIN claims
  /\ \A i \in DOMAIN found : found[i] # Pending => IsRecordOf(found[i], claims[i])

\* The judge is asked when every thread has ended and the graph was reached.
JudgeKnows == stage = "judge" => Reached

\* There are no findings before there are verdicts.
FindingsComeLast == stage \in {"extract", "retrieve", "judge"} => findings = <<>>

\* The evidence of a fact that is said to be of the past is of the past.
EvidenceDated ==
  \A f \in Facts : ~Future(f) => \A i \in DOMAIN Evidence[f] : ~Future(Evidence[f][i])

StagesInv ==
  /\ StagesType /\ AnswersOwn /\ FoundOwn /\ JudgeKnows /\ FindingsComeLast
  /\ ClaimsFollowText /\ RefsAreOwn /\ SilenceIsTold /\ FindingsAreVerdicts /\ FindingsStandUp

\* The invariant holds at the start.
LEMMA StagesInit == Init => StagesInv
<1> SUFFICES ASSUME Init PROVE StagesInv
  OBVIOUS
<1>1. claims = <<>> /\ findings = <<>> /\ found = <<>> /\ verdicts = <<>> /\ stage = "extract"
  BY DEF Init
<1>2. claims \in Seq(Claim) /\ DOMAIN claims = {} /\ DOMAIN findings = {} /\ DOMAIN found = {}
  BY <1>1
<1>3. StoreIsOfNovel
  BY DEF Init, Empty, StoreIsOfNovel
<1>4. answers = [p \in 1 .. Pieces |-> Pending]
  BY DEF Init
<1>5. answers \in [1 .. Pieces -> Answers] /\ AnswersOwn
  BY <1>4 DEF AnswersOwn, Answers
<1>6. StagesType /\ FoundOwn /\ JudgeKnows /\ FindingsComeLast
  BY <1>1, <1>2, <1>3, <1>5 DEF StagesType, FoundOwn, JudgeKnows, FindingsComeLast
<1>7. ClaimsFollowText /\ RefsAreOwn /\ SilenceIsTold /\ FindingsAreVerdicts /\ FindingsStandUp
  BY <1>1, <1>2 DEF ClaimsFollowText, RefsAreOwn, SilenceIsTold, FindingsAreVerdicts, FindingsStandUp
<1> QED
  BY <1>5, <1>6, <1>7 DEF StagesInv

\* A step that leaves the claims, the records and the store alone, and ends no
\* check, keeps it.
LEMMA StagesStay ==
  ASSUME StagesInv, UNCHANGED <<claims, found, store>>,
         \/ UNCHANGED <<stage, answers, verdicts, findings>>
         \/ stage' = "failed" /\ UNCHANGED <<answers, verdicts, findings>>
         \/ stage = "extract" /\ UNCHANGED <<stage, verdicts, findings>>
            /\ answers' \in [1 .. Pieces -> Answers]
            /\ AnswersOwn'
  PROVE  StagesInv'
<1>1. StagesType'
  BY DEF StagesInv, StagesType, StoreIsOfNovel
<1>2. AnswersOwn'
  BY DEF StagesInv, AnswersOwn
<1>3. FoundOwn'
  BY DEF StagesInv, FoundOwn, IsRecordOf
<1>4. JudgeKnows' /\ FindingsComeLast'
  BY DEF StagesInv, JudgeKnows, FindingsComeLast, Reached
<1>5. ClaimsFollowText' /\ FindingsStandUp'
  BY DEF StagesInv, ClaimsFollowText, FindingsStandUp, SamePlace
<1>6. RefsAreOwn' /\ SilenceIsTold'
  BY DEF StagesInv, RefsAreOwn, SilenceIsTold
<1>7. FindingsAreVerdicts'
  BY DEF StagesInv, FindingsAreVerdicts
<1> QED
  BY <1>1, <1>2, <1>3, <1>4, <1>5, <1>6, <1>7 DEF StagesInv

\* Extraction: an answer is its piece's own, and the claims are put together
\* in the order of the pieces.
LEMMA StagesExtract ==
  ASSUME StagesInv, (\E p \in 1 .. Pieces : Extracted(p)) \/ ExtractEnds
  PROVE  StagesInv'
<1>1. ASSUME NEW p \in 1 .. Pieces, Extracted(p)
      PROVE  StagesInv'
  <2>1. PICK a \in AnswersOf(p) : answers' = [answers EXCEPT ![p] = a]
    BY <1>1 DEF Extracted
  <2>2. answers' \in [1 .. Pieces -> Answers]
    BY <2>1 DEF StagesInv, StagesType, Answers
  <2>3. \A q \in 1 .. Pieces : answers'[q] = IF q = p THEN a ELSE answers[q]
    BY <2>1 DEF StagesInv, StagesType
  <2>4. AnswersOwn'
    <3>1. \A q \in 1 .. Pieces : answers'[q] # Pending => answers'[q] \in AnswersOf(q)
      BY <2>3 DEF StagesInv, AnswersOwn
    <3> QED
      BY <3>1 DEF AnswersOwn
  <2> QED
    BY <1>1, <2>2, <2>4, StagesStay DEF Extracted
<1>2. ASSUME ExtractEnds
      PROVE  StagesInv'
  <2>1. \A p \in 1 .. Pieces : answers[p] \in AnswersOf(p)
    BY <1>2 DEF ExtractEnds, StagesInv, AnswersOwn
  <2>2. claims' \in Seq(Claim) /\ \A i, k \in DOMAIN claims' : i < k => claims'[i].piece <= claims'[k].piece
    BY <1>2, <2>1, NumberedInOrder DEF ExtractEnds
  <2>3. /\ stage = "extract" /\ found' = [i \in 1 .. Len(claims') |-> Pending]
        /\ stage' = IF claims' = <<>> THEN "done" ELSE "retrieve"
        /\ UNCHANGED <<answers, store, verdicts, findings>>
    BY <1>2 DEF ExtractEnds
  <2>4. findings' = <<>>
    BY <2>3 DEF StagesInv, FindingsComeLast
  <2>5. StagesType' /\ AnswersOwn'
    BY <2>2, <2>3 DEF StagesInv, StagesType, AnswersOwn, StoreIsOfNovel
  <2>6. FoundOwn'
    BY <2>2, <2>3 DEF FoundOwn
  <2>7. JudgeKnows' /\ FindingsComeLast' /\ ClaimsFollowText' /\ RefsAreOwn' /\ SilenceIsTold'
    BY <2>2, <2>3, <2>4 DEF JudgeKnows, FindingsComeLast, ClaimsFollowText, RefsAreOwn, SilenceIsTold
  <2>8. FindingsAreVerdicts' /\ FindingsStandUp'
    <3>1. DOMAIN findings' = {} /\ Len(findings') = 0 /\ (stage' = "done" => DOMAIN claims' = {})
      BY <2>3, <2>4
    <3> QED
      BY <3>1 DEF FindingsAreVerdicts, FindingsStandUp
  <2> QED
    BY <2>5, <2>6, <2>7, <2>8 DEF StagesInv
<1> QED
  BY <1>1, <1>2

\* The store is built of nodes of the novel.
LEMMA DocstoreIs ==
  ASSUME AllSearched
  PROVE  /\ Docstore.chunks \subseteq Chunks /\ Docstore.facts \subseteq Facts
         /\ Docstore.refs = [i \in DOMAIN found |-> found[i].nodes]
         /\ EvidenceDated => \A n \in Docstore.chunks \cup Docstore.facts : ~Future(n)
<1> DEFINE hits == UNION {r.nodes : r \in ToSet(found)}
           evidence == UNION {ToSet(Evidence[f]) : f \in hits \cap Facts}
<1>1. /\ Docstore.chunks = (hits \cap Chunks) \cup evidence
      /\ Docstore.facts = hits \cap Facts
      /\ Docstore.refs = [i \in DOMAIN found |-> found[i].nodes]
  BY DEF Docstore
<1>2. \A n \in hits : ~Future(n)
  BY DEF AllSearched, IsRecordOf, ToSet
<1>3. ASSUME NEW c \in evidence
      PROVE  c \in Chunks /\ (EvidenceDated => ~Future(c))
  <2>1. PICK f \in hits \cap Facts : c \in ToSet(Evidence[f])
    OBVIOUS
  <2>2. PICK i \in DOMAIN Evidence[f] : c = Evidence[f][i]
    BY <2>1 DEF ToSet
  <2>3. Evidence[f] \in Seq(Chunks)
    BY StagesBounds
  <2>4. c \in Chunks
    BY <2>2, <2>3
  <2>5. ~Future(f)
    BY <1>2
  <2> QED
    BY <2>2, <2>4, <2>5 DEF EvidenceDated
<1> HIDE DEF hits, evidence
<1> QED
  BY <1>1, <1>2, <1>3

\* Searching: a record is its claim's own, and the judge is asked only when
\* the graph was reached.
LEMMA StagesRetrieve ==
  ASSUME StagesInv, (\E i \in DOMAIN found : Retrieved(i)) \/ RetrieveEnds
  PROVE  StagesInv'
<1>0. PICK n \in Nat : DOMAIN claims = 1 .. n /\ Len(claims) = n
  BY DEF StagesInv, StagesType
<1>1. ASSUME NEW i \in DOMAIN found, Retrieved(i)
      PROVE  StagesInv'
  <2>1. PICK r \in Searched(i) : found' = [found EXCEPT ![i] = r]
    BY <1>1 DEF Retrieved
  <2>2. stage = "retrieve" /\ UNCHANGED <<stage, answers, claims, store, verdicts, findings>>
    BY <1>1 DEF Retrieved
  <2>3. IsRecordOf(r, claims[i])
    BY SearchedIs DEF StagesInv, FoundOwn
  <2>4. DOMAIN found' = DOMAIN found /\ \A k \in DOMAIN found : found'[k] = IF k = i THEN r ELSE found[k]
    BY <2>1
  <2>5. FoundOwn'
    <3>1. \A k \in DOMAIN found : found'[k] # Pending => IsRecordOf(found'[k], claims[k])
      BY <2>3, <2>4 DEF StagesInv, FoundOwn
    <3>2. DOMAIN found' = DOMAIN claims'
      BY <2>2, <2>4 DEF StagesInv, FoundOwn
    <3> QED
      BY <2>2, <2>4, <3>1, <3>2 DEF FoundOwn, IsRecordOf
  <2>6. StagesType' /\ AnswersOwn'
    BY <2>2 DEF StagesInv, StagesType, AnswersOwn, StoreIsOfNovel
  <2>7. JudgeKnows' /\ RefsAreOwn' /\ SilenceIsTold' /\ FindingsComeLast' /\ ClaimsFollowText'
    BY <2>2 DEF StagesInv, JudgeKnows, RefsAreOwn, SilenceIsTold, FindingsComeLast, ClaimsFollowText
  <2>8. FindingsAreVerdicts' /\ FindingsStandUp'
    BY <2>2 DEF StagesInv, FindingsAreVerdicts, FindingsStandUp, SamePlace
  <2> QED
    BY <2>5, <2>6, <2>7, <2>8 DEF StagesInv
<1>2. ASSUME RetrieveEnds
      PROVE  StagesInv'
  <2>1. AllSearched
    BY <1>2 DEF RetrieveEnds, StagesInv, FoundOwn, AllSearched
  <2>2. UNCHANGED <<answers, claims, found, verdicts, findings>> /\ stage = "retrieve"
    BY <1>2 DEF RetrieveEnds
  <2>3. CASE Unreached
    BY <1>2, <2>2, <2>3, StagesStay DEF RetrieveEnds
  <2>4. CASE ~Unreached
    <3>1. stage' = "judge" /\ store' = Docstore
      BY <1>2, <2>4 DEF RetrieveEnds
    <3>2. Reached
      BY <1>0, <2>1, <2>4, ReachedIs DEF StagesInv, FoundOwn
    <3>3. JudgeKnows'
      BY <2>2, <3>2 DEF JudgeKnows, Reached
    <3>4. findings = <<>>
      BY <2>2 DEF StagesInv, FindingsComeLast
    <3>5. StagesType' /\ AnswersOwn'
      BY <2>1, <2>2, <3>1, DocstoreIs DEF StagesInv, StagesType, AnswersOwn, StoreIsOfNovel
    <3>6. FoundOwn' /\ FindingsComeLast' /\ ClaimsFollowText' /\ SilenceIsTold' /\ FindingsAreVerdicts'
      BY <2>2, <3>1, <3>4
         DEF StagesInv, FoundOwn, IsRecordOf, FindingsComeLast, ClaimsFollowText, SilenceIsTold,
             FindingsAreVerdicts
    <3>7. FindingsStandUp'
      BY <2>2, <3>4 DEF FindingsStandUp
    <3>8. RefsAreOwn'
      <4>1. DOMAIN found = DOMAIN claims
        BY DEF StagesInv, FoundOwn
      <4>2. \A i \in DOMAIN claims : found[i].claim = claims[i] /\ Docstore.refs[i] = found[i].nodes
        BY <2>1, <4>1, DocstoreIs DEF AllSearched, IsRecordOf
      <4> QED
        BY <2>2, <3>1, <4>2 DEF RefsAreOwn
    <3> QED
      BY <3>3, <3>5, <3>6, <3>7, <3>8 DEF StagesInv
  <2> QED
    BY <2>3, <2>4
<1> QED
  BY <1>1, <1>2

\* Judging: the findings are made of the answer.
LEMMA StagesJudge ==
  ASSUME StagesInv, Judged
  PROVE  StagesInv'
<1>0. PICK n \in Nat : DOMAIN claims = 1 .. n /\ Len(claims) = n
  BY DEF StagesInv, StagesType
<1>1. claims \in Seq(Claim) /\ StoreIsOfNovel
  BY DEF StagesInv, StagesType
<1>2. stage = "judge" /\ UNCHANGED <<answers, claims, found, store>>
  BY DEF Judged
<1>3. PICK answer \in BoundedSeq(Verdicts, MaxVerdicts) :
        /\ verdicts' = answer
        /\ IF answer = <<>> \/ \E c \in Errors(Read(answer)) : Unreadable \in Picked(Read(answer)[c])
             THEN stage' = "failed" /\ UNCHANGED findings
             ELSE stage' = "done" /\ findings' = FindingsOf(answer)
  BY DEF Judged, FindingsOf
<1>4. PICK m \in Nat : answer \in [1 .. m -> Verdicts]
  <2>1. PICK m \in 0 .. MaxVerdicts : answer \in [1 .. m -> Verdicts]
    BY <1>3 DEF BoundedSeq, SeqOf
  <2>2. m \in Nat
    BY StagesBounds
  <2> QED
    BY <2>1, <2>2
<1>5. StagesType' /\ AnswersOwn' /\ FoundOwn' /\ ClaimsFollowText'
  BY <1>2, <1>3 DEF StagesInv, StagesType, AnswersOwn, StoreIsOfNovel, FoundOwn, IsRecordOf, ClaimsFollowText
<1>6. JudgeKnows' /\ FindingsComeLast' /\ RefsAreOwn'
  BY <1>3 DEF JudgeKnows, FindingsComeLast, RefsAreOwn
<1>7. CASE stage' = "failed" /\ UNCHANGED findings
  <2>1. SilenceIsTold' /\ FindingsAreVerdicts'
    BY <1>7 DEF SilenceIsTold, FindingsAreVerdicts
  <2>2. FindingsStandUp'
    BY <1>2, <1>7 DEF StagesInv, FindingsStandUp, SamePlace
  <2> QED
    BY <1>5, <1>6, <2>1, <2>2 DEF StagesInv
<1>8. CASE stage' = "done" /\ answer # <<>> /\ findings' = FindingsOf(answer)
  <2>1. SilenceIsTold'
    BY <1>2, <1>3, <1>8 DEF StagesInv, JudgeKnows, Reached, SilenceIsTold
  <2>2. FindingsAreVerdicts'
    <3> DEFINE f == FindingsOf(answer)
    <3>1. /\ \A k \in 1 .. Len(f) - 1 : f[k].claim < f[k + 1].claim
          /\ \A c \in DOMAIN claims :
               (\E k \in DOMAIN f : f[k].claim = c)
                 <=> \E i \in DOMAIN answer :
                       /\ answer[i].claim = c /\ answer[i].error
                       /\ ~\E j \in i + 1 .. Len(answer) : answer[j].claim = c
      BY <1>0, <1>1, <1>4, FindingsFollowVerdicts
    <3> HIDE DEF f
    <3>2. findings' = f /\ verdicts' = answer /\ claims' = claims
      BY <1>2, <1>3, <1>8 DEF f
    <3> QED
      BY <3>1, <3>2 DEF FindingsAreVerdicts
  <2>3. FindingsStandUp'
    <3> DEFINE f == FindingsOf(answer)
    <3>1. \A k \in DOMAIN f :
            LET own == claims[f[k].claim].lines
                cited == f[k].cited
            IN  /\ own # {} => f[k].lines \subseteq own
                /\ ToSet(cited) \subseteq store.chunks
                /\ \A i, j \in DOMAIN cited : SamePlace(cited[i], cited[j]) => i = j
      BY <1>0, <1>1, <1>4, FindingsRest
    <3> HIDE DEF f
    <3>2. findings' = f /\ claims' = claims /\ store' = store
      BY <1>2, <1>8 DEF f
    <3> QED
      BY <3>1, <3>2 DEF FindingsStandUp, SamePlace
  <2> QED
    BY <1>5, <1>6, <2>1, <2>2, <2>3 DEF StagesInv
<1> QED
  BY <1>3, <1>7, <1>8

LEMMA StagesNext == StagesInv /\ [Next]_vars => StagesInv'
<1> SUFFICES ASSUME StagesInv, [Next]_vars PROVE StagesInv'
  OBVIOUS
<1>1. CASE (\E p \in 1 .. Pieces : Extracted(p)) \/ ExtractEnds
  BY <1>1, StagesExtract
<1>2. CASE (\E i \in DOMAIN found : Retrieved(i)) \/ RetrieveEnds
  BY <1>2, StagesRetrieve
<1>3. CASE Judged
  BY <1>3, StagesJudge
<1>4. CASE StageFails
  BY <1>4, StagesStay DEF StageFails, Fail
<1>5. CASE UNCHANGED vars
  BY <1>5, StagesStay DEF vars
<1> QED
  BY <1>1, <1>2, <1>3, <1>4, <1>5 DEF Next

\* The invariant, of every behaviour.
THEOREM StagesCorrect == Spec => []StagesInv
BY StagesInit, StagesNext, PTL DEF Spec

\* The claims are numbered in the order of the manuscript: extract() puts the
\* answers together in the order of the pieces, whichever came first.
THEOREM NumbersFollowText == Spec => []ClaimsFollowText
<1>1. StagesInv => ClaimsFollowText
  BY DEF StagesInv
<1> QED
  BY <1>1, StagesCorrect, PTL

\* What the judge is pointed to for a claim was found for that claim: map()
\* keeps the records in the order of the claims.
THEOREM RefsStayOwn == Spec => []RefsAreOwn
<1>1. StagesInv => RefsAreOwn
  BY DEF StagesInv
<1> QED
  BY <1>1, StagesCorrect, PTL

\* A check that ends without errors has read a verdict and reached the graph:
\* the two sums of retrieve() differ when any channel answered.
THEOREM NoSilentSuccess == Spec => []SilenceIsTold
<1>1. StagesInv => SilenceIsTold
  BY DEF StagesInv
<1> QED
  BY <1>1, StagesCorrect, PTL

\* The findings are the claims whose last verdict is an error, each once and
\* in order, whatever else judge() is answered.
THEOREM VerdictsDecide == Spec => []FindingsAreVerdicts
<1>1. StagesInv => FindingsAreVerdicts
  BY DEF StagesInv
<1> QED
  BY <1>1, StagesCorrect, PTL

\* A finding's lines are its claim's and its citations are in the store, each
\* place once: what parse_verdicts and _resolve_cited make of any answer.
THEOREM FindingsRestOnStore == Spec => []FindingsStandUp
<1>1. StagesInv => FindingsStandUp
  BY DEF StagesInv
<1> QED
  BY <1>1, StagesCorrect, PTL

-----------------------------------------------------------------------------
(* The chapter limit.                                                      *)

LEMMA PastNext ==
  ASSUME EvidenceDated, StagesInv, ShownIsPast, [Next]_vars
  PROVE  ShownIsPast'
<1>1. CASE UNCHANGED store
  BY <1>1 DEF ShownIsPast
<1>2. CASE RetrieveEnds /\ store' = Docstore
  <2>1. AllSearched
    BY <1>2 DEF RetrieveEnds, StagesInv, FoundOwn, AllSearched
  <2>2. \A n \in Docstore.chunks \cup Docstore.facts : n \in Nodes /\ ~Future(n)
    BY <2>1, DocstoreIs DEF Nodes
  <2>3. \A n \in Docstore.chunks \cup Docstore.facts : ChapterOf[n] < Checked
    BY <2>2, StagesBounds DEF Future
  <2> QED
    BY <1>2, <2>3 DEF ShownIsPast
<1>3. [Next]_vars => UNCHANGED store \/ (RetrieveEnds /\ store' = Docstore)
  BY DEF Next, Extracted, ExtractEnds, Retrieved, RetrieveEnds, Judged, StageFails, Fail, vars
<1> QED
  BY <1>1, <1>2, <1>3

\* If facts are said to be of a chapter no earlier than their evidence, the
\* judge is shown nothing of the checked chapter or a later one: _is_future is
\* asked of the hits, build_docstore adds evidence without asking.
THEOREM NoChapterIsItsOwnProof ==
  ASSUME EvidenceDated
  PROVE  Spec => []ShownIsPast
<1>1. Init => ShownIsPast
  BY DEF Init, Empty, ShownIsPast
<1>2. StagesInv /\ ShownIsPast /\ [Next]_vars => ShownIsPast'
  BY PastNext
<1> QED
  BY <1>1, <1>2, StagesCorrect, PTL DEF Spec

=============================================================================
