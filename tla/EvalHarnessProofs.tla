--------------------------- MODULE EvalHarnessProofs ---------------------------
(***************************************************************************)
(* Theorems about the evaluation script, for every draft, search, answer   *)
(* and order of commands.                                                  *)
(***************************************************************************)
EXTENDS EvalHarnessProps, DataLemmas

Drafts == [1 .. Units -> Wordings]

\* The requests of extract.
PieceRequests == {Request(t, v, u) : t \in Tags, v \in Drafts, u \in 1 .. Units}

Claim == [of : PieceRequests, nth : Nat]

IsAnswerTo(answer, r) ==
  /\ answer \in Seq(Claim) /\ Len(answer) <= MaxClaims
  /\ \A i \in DOMAIN answer : answer[i].of = r

\* The files of the two caches are of different requests, and each is of the
\* request its name is made from.
CachesKeep ==
  /\ DOMAIN cache \subseteq PieceRequests
  /\ DOMAIN judgeCache \cap PieceRequests = {}
  /\ \A r \in DOMAIN cache : IsAnswerTo(cache[r], r)
  /\ \A r \in DOMAIN judgeCache : judgeCache[r].to = r

\* What was paid for left a file.
PaidLeftFile ==
  \A r \in DOMAIN bought :
    bought[r] \in Nat \ {0} /\ r \in DOMAIN cache \cup DOMAIN judgeCache \cup torn

\* The claims of a file are an answer's to a piece of its text, and their order
\* is that of the pieces.
ClaimsOfText(f, t) ==
  /\ f.list \in Seq(Claim) /\ Len(f.list) <= Units * MaxClaims
  /\ \A i \in DOMAIN f.list :
       /\ \E u \in 1 .. Units : f.list[i].of = Shown(t, f.text, u)
       /\ \A j \in 1 .. (i - 1) : f.list[j].of.piece[1] <= f.list[i].of.piece[1]

\* Each verdict is from an answer to a prompt for this store, and noted if it
\* is not of a claim of the prompt.
VerdictsOfPrompts(J) ==
  LET plan == Batches(Len(J.claims), J.size)
  IN  \A i \in DOMAIN J.verdict :
        LET batch == J.verdict[i].batch
        IN  /\ J.verdict[i].of = Prompt(J.claims, J.evidence, plan[batch])
            /\ i \notin plan[batch] => batch \in J.extra

FilesFit ==
  /\ \A t \in DOMAIN claims : ClaimsOfText(claims[t], t)
  /\ \A t \in DOMAIN evidence : \A i \in DOMAIN evidence[t] : evidence[t][i].items \subseteq Items
  /\ \A t \in DOMAIN judged : VerdictsOfPrompts(judged[t])

\* What extract has is the answers to its pieces, and what it waits for was
\* never paid for.
Extracts ==
  proc.at = "extract" =>
    /\ proc = [at |-> "extract", tag |-> proc.tag, all |-> proc.all, text |-> proc.text,
               got |-> proc.got]
    /\ proc.tag \in Tags /\ proc.text \in Drafts
    /\ DOMAIN proc.got \subseteq 1 .. Units
    /\ \A u \in DOMAIN proc.got : IsAnswerTo(proc.got[u], Request(proc.tag, proc.text, u))
    /\ \A u \in Waiting : Request(proc.tag, proc.text, u) \notin DOMAIN cache \cup torn

Retrieves == proc.at = "retrieve" => proc.tag \in DOMAIN claims

\* The verdicts so far are as those of a file.
Judges ==
  proc.at = "judge" =>
    /\ proc = [at |-> "judge", tag |-> proc.tag, size |-> proc.size, refresh |-> proc.refresh,
               batch |-> proc.batch, claims |-> proc.claims, evidence |-> proc.evidence,
               verdict |-> proc.verdict, extra |-> proc.extra]
    /\ proc.refresh \in BOOLEAN /\ (proc.refresh => refreshed)
    /\ VerdictsOfPrompts(proc)

HarnessInv ==
  /\ refreshed \in BOOLEAN
  /\ CachesKeep /\ PaidLeftFile /\ FilesFit
  /\ Extracts /\ Retrieves /\ Judges
  /\ BoughtOnce

-----------------------------------------------------------------------------
(* Files and requests.                                                      *)

\* What is shown of two pieces differs: they are numbered.
LEMMA PiecesDiffer ==
  ASSUME NEW t, NEW v, NEW u, NEW w, Request(t, v, u) = Request(t, v, w)
  PROVE  u = w
<1>1. Shown(t, v, u).piece = Shown(t, v, w).piece
  BY DEF Request
<1> QED
  BY <1>1 DEF Shown

\* A request of judge is none of extract.
LEMMA PromptIsNoPiece ==
  ASSUME NEW L, NEW E, NEW batch
  PROVE  JudgeRequest(L, E, batch) \notin PieceRequests
<1> SUFFICES ASSUME NEW t \in Tags, NEW v \in Drafts, NEW u \in 1 .. Units,
                    JudgeRequest(L, E, batch) = Request(t, v, u)
             PROVE  FALSE
  BY DEF PieceRequests
<1>1. "store" \in DOMAIN JudgeRequest(L, E, batch)
  BY DEF JudgeRequest, Prompt
<1>2. "store" \notin DOMAIN Request(t, v, u)
  BY DEF Request, Shown
<1> QED
  BY <1>1, <1>2

\* Numbers in the bounds of the model.
LEMMA UnitsAndClaims == Units \in Nat /\ MaxClaims \in Nat
BY HarnessAssumption DEF HarnessAssumption

\* An answer is one to its request.
LEMMA AnswerIsAnswer ==
  ASSUME NEW t \in Tags, NEW v \in Drafts, NEW u \in 1 .. Units, NEW n \in 0 .. MaxClaims
  PROVE  IsAnswerTo(Answer(t, v, u, n), Request(t, v, u))
<1>1. Request(t, v, u) \in PieceRequests /\ Request(t, v, u) = Shown(t, v, u)
  BY DEF PieceRequests, Request
<1>2. n \in Nat /\ n <= MaxClaims
  BY UnitsAndClaims
<1>3. \A i \in 1 .. n : [of |-> Shown(t, v, u), nth |-> i] \in Claim
  BY <1>1 DEF Claim
<1>4. Answer(t, v, u, n) \in [1 .. n -> Claim]
  BY <1>3 DEF Answer
<1>5. Answer(t, v, u, n) \in Seq(Claim) /\ Len(Answer(t, v, u, n)) = n
  BY <1>2, <1>4
<1> QED
  BY <1>1, <1>2, <1>5 DEF IsAnswerTo, Answer

-----------------------------------------------------------------------------
(* The document store.                                                      *)

\* The store shows all that was found for a claim, whichever channel and claim
\* brought what.
LEMMA StoreShowsFound ==
  ASSUME NEW E, \A i \in DOMAIN E : E[i].items \subseteq Items, NEW i \in DOMAIN E
  PROVE  ChannelText(E[i]) \subseteq PoolText(Store(E), Ref(E[i]))
<1> DEFINE S == Store(E)
           ref == Ref(E[i])
           chunksOf == {it \in E[i].items : it.kind = "chunk"}
           factsOf == {it \in E[i].items : it.kind = "fact"}
<1>1. /\ E[i].items = chunksOf \cup factsOf
      /\ \A it \in chunksOf : it.rests = {}
  BY DEF Items
<1>2. \A it \in E[i].items : it \in Found(E)
  BY DEF Found
<1>3. ref.chunks = {it.id : it \in chunksOf} /\ ref.facts = {it.id : it \in factsOf}
  BY DEF Ref
<1>4. ASSUME NEW it \in chunksOf
      PROVE  it.id \in ref.chunks \cap S.chunks
  BY <1>2, <1>3 DEF Store
<1>5. ASSUME NEW it \in factsOf
      PROVE  it.id \in ref.facts /\ it.rests \subseteq S.facts[it.id]
  <2>1. it.id \in ref.facts
    BY <1>3
  <2>2. it \in Versions(E, it.id) /\ it \in {x \in Found(E) : x.kind = "fact"}
    BY <1>2 DEF Versions
  <2>3. S.facts[it.id] = UNION {x.rests : x \in Versions(E, it.id)}
    BY <2>2 DEF Store
  <2> QED
    BY <2>1, <2>2, <2>3
<1> HIDE DEF S, ref
<1>6. ASSUME NEW it \in E[i].items
      PROVE  /\ it.id \in PoolText(S, ref)
             /\ it.rests \subseteq PoolText(S, ref)
  <2>1. CASE it \in chunksOf
    BY <1>1, <1>4, <2>1 DEF PoolText
  <2>2. CASE it \in factsOf
    BY <1>5, <2>2 DEF PoolText
  <2> QED
    BY <1>1, <2>1, <2>2
<1>7. ChannelText(E[i]) \subseteq PoolText(S, ref)
  BY <1>6 DEF ChannelText
<1> QED
  BY <1>7 DEF S, ref

-----------------------------------------------------------------------------
(* Putting answers together.                                                *)

\* The claims of all pieces are claims of the text, piece after piece.
LEMMA ClaimsTogether ==
  ASSUME NEW t \in Tags, NEW v \in Drafts, NEW got,
         \A u \in 1 .. Units : IsAnswerTo(got[u], Request(t, v, u))
  PROVE  ClaimsOfText([text |-> v, list |-> FlattenSeq([u \in 1 .. Units |-> got[u]])], t)
<1> DEFINE lists == [u \in 1 .. Units |-> got[u]]
           s == FlattenSeq(lists)
<1>1. lists \in [1 .. Units -> Seq(Claim)]
  BY DEF IsAnswerTo
<1>2. \A u \in 1 .. Units : lists[u] = got[u]
  OBVIOUS
<1> HIDE DEF lists
<1>3. Len(s) <= Units * MaxClaims
  <2>1. \A u \in 1 .. Units : Len(lists[u]) <= MaxClaims
    BY <1>2 DEF IsAnswerTo
  <2> QED
    BY <1>1, <2>1, UnitsAndClaims, FlattenLength
<1>4. /\ s \in Seq(Claim)
      /\ \E from \in [DOMAIN s -> 1 .. Units] :
           /\ \A a \in DOMAIN s : \E k \in DOMAIN lists[from[a]] : s[a] = lists[from[a]][k]
           /\ \A a, b \in DOMAIN s : a < b => from[a] <= from[b]
  BY <1>1, UnitsAndClaims, FlattenInOrder
<1> HIDE DEF s
<1>5. PICK from \in [DOMAIN s -> 1 .. Units] :
        /\ \A a \in DOMAIN s : \E k \in DOMAIN lists[from[a]] : s[a] = lists[from[a]][k]
        /\ \A a, b \in DOMAIN s : a < b => from[a] <= from[b]
  BY <1>4
<1>6. ASSUME NEW a \in DOMAIN s
      PROVE  /\ from[a] \in 1 .. Units
             /\ s[a].of = Shown(t, v, from[a]) /\ s[a].of.piece[1] = from[a]
  <2>1. from[a] \in 1 .. Units
    BY <1>5
  <2>2. PICK k \in DOMAIN lists[from[a]] : s[a] = lists[from[a]][k]
    BY <1>5
  <2>3. s[a].of = Request(t, v, from[a])
    BY <1>2, <2>1, <2>2 DEF IsAnswerTo
  <2> QED
    BY <2>1, <2>3 DEF Request, Shown
<1>7. ASSUME NEW a \in DOMAIN s, NEW b \in 1 .. (a - 1)
      PROVE  s[b].of.piece[1] <= s[a].of.piece[1]
  <2>1. b \in DOMAIN s /\ b < a
    BY <1>4
  <2> QED
    BY <1>5, <1>6, <2>1
<1> DEFINE f == [text |-> v, list |-> s]
<1>8. f.text = v /\ f.list = s
  OBVIOUS
<1> HIDE DEF f
<1>9. ClaimsOfText(f, t)
  BY <1>3, <1>4, <1>6, <1>7, <1>8 DEF ClaimsOfText
<1> QED
  BY <1>9 DEF f, s, lists

\* Taking in the answer to a prompt keeps the verdicts right.
LEMMA MergedFits ==
  ASSUME proc.at = "judge", Judges, NEW answer,
         answer.to = Prompt(proc.claims, proc.evidence, Plan[proc.batch])
  PROVE  LET p == Merged(answer)
         IN  /\ p.at = "judge"
             /\ p = [at |-> "judge", tag |-> p.tag, size |-> p.size, refresh |-> p.refresh,
                     batch |-> p.batch, claims |-> p.claims, evidence |-> p.evidence,
                     verdict |-> p.verdict, extra |-> p.extra]
             /\ p.refresh = proc.refresh
             /\ VerdictsOfPrompts(p)
<1> DEFINE p == Merged(answer)
           verdict == [batch |-> proc.batch, of |-> answer.to]
           batch == Plan[proc.batch]
<1> DEFINE verdicts == [i \in DOMAIN proc.verdict \cup answer.names |->
                          IF i \in answer.names THEN verdict ELSE proc.verdict[i]]
           extras == IF Extra(answer.names, batch) # {} THEN proc.extra \cup {proc.batch}
                     ELSE proc.extra
<1>1. p = [at |-> "judge", tag |-> proc.tag, size |-> proc.size, refresh |-> proc.refresh,
           batch |-> proc.batch + 1, claims |-> proc.claims, evidence |-> proc.evidence,
           verdict |-> verdicts, extra |-> extras]
  <2>1. p = [proc EXCEPT !.batch = proc.batch + 1, !.verdict = verdicts, !.extra = extras]
    BY Zenon DEF Merged
  <2>2. proc = [at |-> "judge", tag |-> proc.tag, size |-> proc.size, refresh |-> proc.refresh,
                batch |-> proc.batch, claims |-> proc.claims, evidence |-> proc.evidence,
                verdict |-> proc.verdict, extra |-> proc.extra]
    BY DEF Judges
  <2> HIDE DEF p, verdicts, extras
  <2> QED
    BY <2>1, <2>2
<1>2. Plan = Batches(Len(p.claims), p.size) /\ p.claims = proc.claims /\ p.evidence = proc.evidence
  BY <1>1 DEF Plan
<1>3. VerdictsOfPrompts(proc)
  BY DEF Judges
<1>4. ASSUME NEW i \in DOMAIN p.verdict
      PROVE  LET b == p.verdict[i].batch
             IN  /\ p.verdict[i].of = Prompt(p.claims, p.evidence, Plan[b])
                 /\ i \notin Plan[b] => b \in p.extra
  <2>1. CASE i \in answer.names
    <3>1. p.verdict[i] = verdict
      BY <1>1, <2>1
    <3>2. i \notin batch => proc.batch \in p.extra
      BY <1>1, <2>1 DEF Extra
    <3> QED
      BY <1>2, <3>1, <3>2
  <2>2. CASE i \notin answer.names
    <3>1. i \in DOMAIN proc.verdict /\ p.verdict[i] = proc.verdict[i]
      BY <1>1, <2>2
    <3>2. proc.extra \subseteq p.extra
      BY <1>1
    <3> QED
      BY <1>2, <1>3, <3>1, <3>2 DEF VerdictsOfPrompts, Plan
  <2> QED
    BY <2>1, <2>2
<1>5. VerdictsOfPrompts(p)
  <2> HIDE DEF p
  <2> QED BY <1>2, <1>4 DEF VerdictsOfPrompts
<1>6. /\ p.at = "judge" /\ p.refresh = proc.refresh
      /\ p = [at |-> "judge", tag |-> p.tag, size |-> p.size, refresh |-> p.refresh,
              batch |-> p.batch, claims |-> p.claims, evidence |-> p.evidence,
              verdict |-> p.verdict, extra |-> p.extra]
  BY <1>1
<1> QED
  BY <1>5, <1>6

-----------------------------------------------------------------------------
(* The steps.                                                               *)

\* Paying for an answer: it leaves a file, no file is lost, and what was paid
\* for before is paid for again only for the judge and on --judge-refresh.
LEMMA BuyKeeps ==
  ASSUME PaidLeftFile, BoughtOnce, NEW r, Buy(r), refreshed' = refreshed,
         DOMAIN cache \cup DOMAIN judgeCache \cup torn
           \subseteq DOMAIN cache' \cup DOMAIN judgeCache' \cup torn',
         r \in DOMAIN cache' \cup DOMAIN judgeCache' \cup torn',
         DOMAIN cache' \subseteq DOMAIN cache \cup {r},
         r \in DOMAIN bought => refreshed /\ r \notin DOMAIN cache'
  PROVE  PaidLeftFile' /\ BoughtOnce'
<1>1. /\ DOMAIN bought' = DOMAIN bought \cup {r}
      /\ bought'[r] = IF r \in DOMAIN bought THEN bought[r] + 1 ELSE 1
      /\ \A y \in DOMAIN bought : y # r => bought'[y] = bought[y]
  BY DEF Buy, With
<1>2. ASSUME NEW y \in DOMAIN bought'
      PROVE  /\ bought'[y] \in Nat \ {0}
             /\ y \in DOMAIN cache' \cup DOMAIN judgeCache' \cup torn'
             /\ bought'[y] > 1 => refreshed' /\ y \notin DOMAIN cache'
  <2>1. CASE y = r /\ r \in DOMAIN bought
    <3>1. bought[r] \in Nat \ {0}
      BY <2>1 DEF PaidLeftFile
    <3> QED
      BY <1>1, <2>1, <3>1
  <2>2. CASE y = r /\ r \notin DOMAIN bought
    BY <1>1, <2>2
  <2>3. CASE y # r
    <3>1. y \in DOMAIN bought /\ bought'[y] = bought[y]
      BY <1>1, <2>3
    <3> QED
      BY <2>3, <3>1 DEF PaidLeftFile, BoughtOnce
  <2> QED
    BY <2>1, <2>2, <2>3
<1> QED
  BY <1>2 DEF PaidLeftFile, BoughtOnce

\* Nothing is there at the start.
LEMMA HarnessInit == Init => HarnessInv
<1> SUFFICES ASSUME Init PROVE HarnessInv
  OBVIOUS
<1>1. /\ cache = <<>> /\ judgeCache = <<>> /\ bought = <<>> /\ DOMAIN <<>> = {}
      /\ claims = <<>> /\ evidence = <<>> /\ judged = <<>>
      /\ refreshed = FALSE /\ proc = Idle
  BY DEF Init
<1>2. CachesKeep /\ PaidLeftFile /\ BoughtOnce
  BY <1>1 DEF CachesKeep, PaidLeftFile, BoughtOnce
<1>3. FilesFit
  BY <1>1 DEF FilesFit
<1>4. Extracts /\ Retrieves /\ Judges
  BY <1>1 DEF Idle, Extracts, Retrieves, Judges
<1> QED
  BY <1>1, <1>2, <1>3, <1>4 DEF HarnessInv

\* What is on disk stays as good as it is when nothing is written.
LEMMA DiskStays ==
  ASSUME HarnessInv, UNCHANGED saved, refreshed \in BOOLEAN, refreshed => refreshed'
  PROVE  CachesKeep' /\ PaidLeftFile' /\ BoughtOnce'
BY DEF HarnessInv, saved, CachesKeep, PaidLeftFile, BoughtOnce

LEMMA FilesStay == FilesFit /\ UNCHANGED files => FilesFit'
BY DEF FilesFit, files

\* With no command running there is nothing to say of one.
LEMMA NoneRuns == proc' = Idle => Extracts' /\ Retrieves' /\ Judges'
BY DEF Idle, Extracts, Retrieves, Judges

LEMMA StopStep ==
  ASSUME HarnessInv, Stop \/ JudgeRaises
  PROVE  HarnessInv'
<1>1. proc' = Idle /\ UNCHANGED <<files, saved, refreshed>>
  BY DEF Stop, Fail, JudgeRaises
<1> QED
  BY <1>1, DiskStays, FilesStay, NoneRuns DEF HarnessInv

LEMMA StartExtractStep ==
  ASSUME HarnessInv, NEW t \in Tags, NEW text \in Drafts, NEW all \in BOOLEAN,
         StartExtract(t, text, all)
  PROVE  HarnessInv'
<1> DEFINE kept == {u \in 1 .. Units : Request(t, text, u) \in DOMAIN cache}
           got == [u \in kept |-> cache[Request(t, text, u)]]
<1>1. /\ proc' = [at |-> "extract", tag |-> t, all |-> all, text |-> text, got |-> got]
      /\ \A u \in 1 .. Units : Request(t, text, u) \notin torn
      /\ UNCHANGED <<files, saved, refreshed>>
  BY DEF StartExtract
<1>2. \A u \in kept : IsAnswerTo(got[u], Request(t, text, u))
  BY DEF HarnessInv, CachesKeep
<1>3. cache' = cache /\ torn' = torn
  BY <1>1 DEF saved
<1>4. Waiting' = (1 .. Units) \ kept
  BY <1>1 DEF Waiting
<1>5. \A u \in Waiting' : Request(t, text, u) \notin DOMAIN cache' \cup torn'
  BY <1>1, <1>3, <1>4
<1> HIDE DEF got
<1>6. DOMAIN got = kept
  BY DEF got
<1> HIDE DEF kept
<1>7. Extracts'
  <2>1. kept \subseteq 1 .. Units
    BY DEF kept
  <2> QED
    BY <1>1, <1>2, <1>5, <1>6, <2>1 DEF Extracts
<1>8. Retrieves' /\ Judges'
  BY <1>1 DEF Retrieves, Judges
<1> QED
  BY <1>1, <1>7, <1>8, DiskStays, FilesStay DEF HarnessInv

\* What extract waits for is in no file.
LEMMA WaitingIsUnpaid ==
  ASSUME HarnessInv, proc.at = "extract", NEW u \in Waiting
  PROVE  LET r == Request(proc.tag, proc.text, u)
         IN  r \in PieceRequests /\ r \notin DOMAIN bought /\ u \in 1 .. Units
<1>1. u \in 1 .. Units /\ proc.tag \in Tags /\ proc.text \in Drafts
  BY DEF Waiting, HarnessInv, Extracts
<1>2. Request(proc.tag, proc.text, u) \in PieceRequests
  BY <1>1 DEF PieceRequests
<1>3. Request(proc.tag, proc.text, u) \notin DOMAIN cache \cup torn
  BY DEF HarnessInv, Extracts
<1>4. Request(proc.tag, proc.text, u) \notin DOMAIN judgeCache
  BY <1>2 DEF HarnessInv, CachesKeep
<1> QED
  BY <1>1, <1>2, <1>3, <1>4 DEF HarnessInv, PaidLeftFile

LEMMA ExtractAnsweredStep ==
  ASSUME HarnessInv, NEW u \in 1 .. Units, NEW n \in 0 .. MaxClaims, ExtractAnswered(u, n)
  PROVE  HarnessInv'
<1> DEFINE r == Request(proc.tag, proc.text, u)
           answer == Answer(proc.tag, proc.text, u, n)
<1>1. /\ proc.at = "extract" /\ u \in Waiting
      /\ proc' = [proc EXCEPT !.got = With(proc.got, u, answer)]
      /\ cache' = With(cache, r, answer) /\ Buy(r)
      /\ UNCHANGED <<files, judgeCache, torn, refreshed>>
  BY DEF ExtractAnswered
<1>2. r \in PieceRequests /\ r \notin DOMAIN bought
  BY <1>1, WaitingIsUnpaid
<1>3. proc.tag \in Tags /\ proc.text \in Drafts /\ DOMAIN proc.got \subseteq 1 .. Units
  BY <1>1 DEF HarnessInv, Extracts
<1>4. IsAnswerTo(answer, r)
  BY <1>3, AnswerIsAnswer
<1>5. /\ DOMAIN cache' = DOMAIN cache \cup {r} /\ cache'[r] = answer
      /\ \A y \in DOMAIN cache : y # r => cache'[y] = cache[y]
  BY <1>1 DEF With
<1> HIDE DEF answer
<1>6. proc' = [at |-> "extract", tag |-> proc.tag, all |-> proc.all, text |-> proc.text,
               got |-> With(proc.got, u, answer)]
  <2>1. proc = [at |-> "extract", tag |-> proc.tag, all |-> proc.all, text |-> proc.text,
                got |-> proc.got]
    BY <1>1 DEF HarnessInv, Extracts
  <2> QED
    BY <1>1, <2>1
<1>7. CachesKeep'
  <2>1. \A y \in DOMAIN cache' : IsAnswerTo(cache'[y], y)
    BY <1>4, <1>5 DEF HarnessInv, CachesKeep
  <2> HIDE DEF r
  <2> QED
    BY <1>1, <1>2, <1>5, <2>1 DEF HarnessInv, CachesKeep
<1>8. PaidLeftFile' /\ BoughtOnce'
  <2> HIDE DEF r
  <2> QED BY <1>1, <1>2, <1>5, BuyKeeps DEF HarnessInv
<1>9. Extracts'
  <2>1. /\ DOMAIN proc'.got = DOMAIN proc.got \cup {u} /\ proc'.got[u] = answer
        /\ \A w \in DOMAIN proc.got : w # u => proc'.got[w] = proc.got[w]
        /\ proc'.tag = proc.tag /\ proc'.text = proc.text
    BY <1>6 DEF With
  <2>2. \A w \in DOMAIN proc'.got : IsAnswerTo(proc'.got[w], Request(proc.tag, proc.text, w))
    BY <1>1, <1>4, <2>1 DEF HarnessInv, Extracts
  <2>3. Waiting' = Waiting \ {u}
    BY <2>1 DEF Waiting
  <2>4. ASSUME NEW w \in Waiting'
        PROVE  Request(proc.tag, proc.text, w) \notin DOMAIN cache' \cup torn'
    <3>1. w \in Waiting /\ w # u
      BY <2>3
    <3>2. Request(proc.tag, proc.text, w) # r
      BY <3>1, PiecesDiffer
    <3>3. Request(proc.tag, proc.text, w) \notin DOMAIN cache \cup torn
      BY <1>1, <3>1 DEF HarnessInv, Extracts
    <3> QED
      BY <1>1, <1>5, <3>2, <3>3
  <2> QED
    BY <1>3, <1>6, <2>1, <2>2, <2>4 DEF Extracts
<1>10. Retrieves' /\ Judges'
  BY <1>6 DEF Retrieves, Judges
<1>11. FilesFit' /\ refreshed' \in BOOLEAN
  BY <1>1, FilesStay DEF HarnessInv
<1> QED
  BY <1>7, <1>8, <1>9, <1>10, <1>11 DEF HarnessInv

LEMMA ExtractTornStep ==
  ASSUME HarnessInv, NEW u \in 1 .. Units, ExtractTorn(u)
  PROVE  HarnessInv'
<1> DEFINE r == Request(proc.tag, proc.text, u)
<1>1. /\ proc.at = "extract" /\ u \in Waiting /\ proc' = Idle
      /\ torn' = torn \cup {r} /\ Buy(r)
      /\ UNCHANGED <<files, cache, judgeCache, refreshed>>
  BY DEF ExtractTorn, Fail
<1>2. r \notin DOMAIN bought
  BY <1>1, WaitingIsUnpaid
<1> HIDE DEF r
<1>3. PaidLeftFile' /\ BoughtOnce'
  BY <1>1, <1>2, BuyKeeps DEF HarnessInv
<1>4. CachesKeep' /\ FilesFit' /\ refreshed' \in BOOLEAN
  BY <1>1, FilesStay DEF HarnessInv, CachesKeep
<1> QED
  BY <1>1, <1>3, <1>4, NoneRuns DEF HarnessInv

LEMMA ExtractDoneStep ==
  ASSUME HarnessInv, ExtractDone
  PROVE  HarnessInv'
<1> DEFINE f == [text |-> proc.text, list |-> FlattenSeq([u \in 1 .. Units |-> proc.got[u]])]
<1>1. /\ proc.at = "extract" /\ Waiting = {}
      /\ claims' = With(claims, proc.tag, f)
      /\ proc' = IF proc.all THEN [at |-> "retrieve", tag |-> proc.tag] ELSE Idle
      /\ UNCHANGED <<evidence, judged, saved, refreshed>>
  BY DEF ExtractDone
<1>2. ClaimsOfText(f, proc.tag)
  <2>1. proc.tag \in Tags /\ proc.text \in Drafts
    BY <1>1 DEF HarnessInv, Extracts
  <2>2. \A u \in 1 .. Units : IsAnswerTo(proc.got[u], Request(proc.tag, proc.text, u))
    BY <1>1 DEF HarnessInv, Extracts, Waiting
  <2> QED
    BY <2>1, <2>2, ClaimsTogether
<1> HIDE DEF f
<1>3. /\ DOMAIN claims' = DOMAIN claims \cup {proc.tag} /\ claims'[proc.tag] = f
      /\ \A t \in DOMAIN claims : t # proc.tag => claims'[t] = claims[t]
  BY <1>1 DEF With
<1>4. FilesFit'
  BY <1>1, <1>2, <1>3 DEF HarnessInv, FilesFit
<1>5. Extracts' /\ Retrieves' /\ Judges'
  <2>1. CASE proc' = Idle
    BY <2>1, NoneRuns
  <2>2. CASE proc' = [at |-> "retrieve", tag |-> proc.tag]
    BY <1>3, <2>2 DEF Extracts, Retrieves, Judges
  <2> QED
    BY <1>1, <2>1, <2>2
<1> QED
  BY <1>1, <1>4, <1>5, DiskStays DEF HarnessInv

LEMMA StartRetrieveStep ==
  ASSUME HarnessInv, NEW t \in Tags, StartRetrieve(t)
  PROVE  HarnessInv'
<1>1. /\ t \in DOMAIN claims /\ proc' = [at |-> "retrieve", tag |-> t]
      /\ UNCHANGED <<files, saved, refreshed>>
  BY DEF StartRetrieve
<1>2. Extracts' /\ Retrieves' /\ Judges'
  BY <1>1 DEF Extracts, Retrieves, Judges, files
<1> QED
  BY <1>1, <1>2, DiskStays, FilesStay DEF HarnessInv

LEMMA RetrieveStep ==
  ASSUME HarnessInv, NEW found \in Searches, Retrieve(found)
  PROVE  HarnessInv'
<1> DEFINE list == claims[proc.tag].list
           E == [i \in DOMAIN list |-> [claim |-> list[i], items |-> found[i]]]
<1>1. /\ proc.at = "retrieve" /\ proc' = Idle
      /\ evidence' = With(evidence, proc.tag, E)
      /\ UNCHANGED <<claims, judged, saved, refreshed>>
  BY DEF Retrieve
<1>2. list \in Seq(Claim) /\ Len(list) <= Units * MaxClaims
  BY <1>1 DEF HarnessInv, Retrieves, FilesFit, ClaimsOfText
<1>3. found \in [1 .. (Units * MaxClaims) -> SUBSET Items]
  BY HarnessAssumption, Zenon DEF HarnessAssumption
<1>4. \A i \in DOMAIN E : E[i].items \subseteq Items
  <2>1. DOMAIN list \subseteq 1 .. (Units * MaxClaims)
    <3>1. DOMAIN list = 1 .. Len(list) /\ Len(list) \in Nat
      BY <1>2
    <3>2. Units * MaxClaims \in Nat
      BY UnitsAndClaims
    <3> HIDE DEF list
    <3> QED
      BY <1>2, <3>1, <3>2
  <2>2. \A i \in DOMAIN list : found[i] \in SUBSET Items
    BY <1>3, <2>1
  <2> HIDE DEF list
  <2> QED
    BY <2>2
<1> HIDE DEF E
<1>5. /\ DOMAIN evidence' = DOMAIN evidence \cup {proc.tag} /\ evidence'[proc.tag] = E
      /\ \A t \in DOMAIN evidence : t # proc.tag => evidence'[t] = evidence[t]
  BY <1>1 DEF With
<1>6. FilesFit'
  BY <1>1, <1>4, <1>5 DEF HarnessInv, FilesFit
<1> QED
  BY <1>1, <1>6, DiskStays, NoneRuns DEF HarnessInv

LEMMA StartJudgeStep ==
  ASSUME HarnessInv, NEW t \in Tags, NEW n \in BatchSizes, NEW refresh \in BOOLEAN,
         StartJudge(t, n, refresh)
  PROVE  HarnessInv'
<1>1. /\ proc' = [at |-> "judge", tag |-> t, size |-> n, refresh |-> refresh, batch |-> 1,
                  claims |-> claims[t].list, evidence |-> evidence[t], verdict |-> <<>>,
                  extra |-> {}]
      /\ refreshed' = (refreshed \/ refresh)
      /\ UNCHANGED <<files, saved>>
  BY DEF StartJudge
<1>2. refreshed' \in BOOLEAN /\ (refreshed => refreshed') /\ (refresh => refreshed')
  BY <1>1 DEF HarnessInv
<1>3. Judges'
  <2>1. VerdictsOfPrompts(proc')
    BY <1>1 DEF VerdictsOfPrompts
  <2> QED
    BY <1>1, <1>2, <2>1 DEF Judges
<1>4. Extracts' /\ Retrieves'
  BY <1>1 DEF Extracts, Retrieves
<1>5. CachesKeep' /\ PaidLeftFile' /\ BoughtOnce'
  BY <1>1, <1>2, DiskStays DEF HarnessInv
<1> QED
  BY <1>1, <1>2, <1>3, <1>4, <1>5, FilesStay DEF HarnessInv

\* The verdicts stay right when an answer to the prompt is taken in.
LEMMA MergedStep ==
  ASSUME HarnessInv, proc.at = "judge", NEW answer, proc' = Merged(answer), refreshed' = refreshed,
         answer.to = Prompt(proc.claims, proc.evidence, Plan[proc.batch])
  PROVE  Extracts' /\ Retrieves' /\ Judges'
<1>1. /\ proc'.at = "judge"
      /\ proc' = [at |-> "judge", tag |-> proc'.tag, size |-> proc'.size,
                  refresh |-> proc'.refresh, batch |-> proc'.batch, claims |-> proc'.claims,
                  evidence |-> proc'.evidence, verdict |-> proc'.verdict, extra |-> proc'.extra]
      /\ proc'.refresh = proc.refresh
      /\ VerdictsOfPrompts(proc')
  BY MergedFits DEF HarnessInv
<1>2. proc.refresh \in BOOLEAN /\ (proc.refresh => refreshed)
  BY DEF HarnessInv, Judges
<1> QED
  BY <1>1, <1>2 DEF Extracts, Retrieves, Judges

LEMMA JudgeCachedStep ==
  ASSUME HarnessInv, JudgeCached
  PROVE  HarnessInv'
<1>1. /\ proc.at = "judge" /\ Asked \in DOMAIN judgeCache
      /\ proc' = Merged(judgeCache[Asked])
      /\ UNCHANGED <<files, saved, refreshed>>
  BY DEF JudgeCached, Judging
<1>2. judgeCache[Asked].to = Prompt(proc.claims, proc.evidence, Plan[proc.batch])
  BY <1>1 DEF HarnessInv, CachesKeep, Asked, JudgeRequest
<1>3. Extracts' /\ Retrieves' /\ Judges'
  BY <1>1, <1>2, MergedStep
<1> QED
  BY <1>1, <1>3, DiskStays, FilesStay DEF HarnessInv

\* What judge asks again is asked on --judge-refresh, and it is no request of
\* extract.
LEMMA AskedAgain ==
  ASSUME HarnessInv, MayAsk
  PROVE  Asked \notin PieceRequests /\ (Asked \in DOMAIN bought => refreshed)
<1>1. Asked \notin PieceRequests
  BY PromptIsNoPiece DEF Asked
<1>2. ASSUME Asked \in DOMAIN bought
      PROVE  refreshed
  <2>1. Asked \in DOMAIN judgeCache \cup torn
    BY <1>1, <1>2 DEF HarnessInv, PaidLeftFile, CachesKeep
  <2>2. proc.refresh /\ proc.at = "judge"
    BY <2>1 DEF MayAsk, Judging
  <2> QED
    BY <2>2 DEF HarnessInv, Judges
<1> QED
  BY <1>1, <1>2

LEMMA JudgeAnsweredStep ==
  ASSUME HarnessInv, NEW names \in SUBSET Numbers, JudgeAnswered(names)
  PROVE  HarnessInv'
<1> DEFINE answer == [to |-> Prompt(proc.claims, proc.evidence, Plan[proc.batch]),
                      names |-> names]
           r == Asked
<1>1. /\ MayAsk /\ proc.at = "judge"
      /\ judgeCache' = With(judgeCache, r, answer)
      /\ proc' = Merged(answer)
      /\ torn' = torn \ {r} /\ Buy(r)
      /\ UNCHANGED <<files, cache, refreshed>>
  BY DEF JudgeAnswered, MayAsk, Judging
<1>2. answer.to = Prompt(proc.claims, proc.evidence, Plan[proc.batch])
  OBVIOUS
<1>3. answer.to = r
  BY DEF Asked, JudgeRequest
<1>4. r \notin PieceRequests /\ (r \in DOMAIN bought => refreshed)
  BY <1>1, AskedAgain
<1> HIDE DEF answer, r
<1>5. /\ DOMAIN judgeCache' = DOMAIN judgeCache \cup {r} /\ judgeCache'[r] = answer
      /\ \A y \in DOMAIN judgeCache : y # r => judgeCache'[y] = judgeCache[y]
  BY <1>1 DEF With
<1>6. CachesKeep'
  BY <1>1, <1>3, <1>4, <1>5 DEF HarnessInv, CachesKeep
<1>7. PaidLeftFile' /\ BoughtOnce'
  <2>1. r \notin DOMAIN cache
    BY <1>4 DEF HarnessInv, CachesKeep
  <2> QED
    BY <1>1, <1>4, <1>5, <2>1, BuyKeeps DEF HarnessInv
<1>8. Extracts' /\ Retrieves' /\ Judges'
  BY <1>1, <1>2, MergedStep
<1> QED
  BY <1>1, <1>6, <1>7, <1>8, FilesStay DEF HarnessInv

LEMMA JudgeTornStep ==
  ASSUME HarnessInv, JudgeTorn
  PROVE  HarnessInv'
<1> DEFINE r == Asked
<1>1. /\ MayAsk /\ torn' = torn \cup {r} /\ Buy(r) /\ proc' = Idle
      /\ UNCHANGED <<files, cache, judgeCache, refreshed>>
  BY DEF JudgeTorn, Fail
<1>2. r \notin PieceRequests /\ (r \in DOMAIN bought => refreshed)
  BY <1>1, AskedAgain
<1> HIDE DEF r
<1>3. r \notin DOMAIN cache
  BY <1>2 DEF HarnessInv, CachesKeep
<1>4. PaidLeftFile' /\ BoughtOnce'
  BY <1>1, <1>2, <1>3, BuyKeeps DEF HarnessInv
<1>5. CachesKeep' /\ FilesFit' /\ refreshed' \in BOOLEAN
  BY <1>1, FilesStay DEF HarnessInv, CachesKeep
<1> QED
  BY <1>1, <1>4, <1>5, NoneRuns DEF HarnessInv

LEMMA JudgeDoneStep ==
  ASSUME HarnessInv, JudgeDone
  PROVE  HarnessInv'
<1> DEFINE J == [claims |-> proc.claims, evidence |-> proc.evidence, size |-> proc.size,
                 verdict |-> proc.verdict, extra |-> proc.extra]
<1>1. /\ proc.at = "judge" /\ proc' = Idle
      /\ judged' = With(judged, proc.tag, J)
      /\ UNCHANGED <<claims, evidence, saved, refreshed>>
  BY DEF JudgeDone, Judged
<1>2. VerdictsOfPrompts(J)
  BY <1>1 DEF HarnessInv, Judges, VerdictsOfPrompts
<1> HIDE DEF J
<1>3. /\ DOMAIN judged' = DOMAIN judged \cup {proc.tag} /\ judged'[proc.tag] = J
      /\ \A t \in DOMAIN judged : t # proc.tag => judged'[t] = judged[t]
  BY <1>1 DEF With
<1>4. FilesFit'
  BY <1>1, <1>2, <1>3 DEF HarnessInv, FilesFit
<1> QED
  BY <1>1, <1>4, DiskStays, NoneRuns DEF HarnessInv

\* The invariant survives every step.
LEMMA HarnessNext == HarnessInv /\ [Next]_vars => HarnessInv'
<1> SUFFICES ASSUME HarnessInv, [Next]_vars PROVE HarnessInv'
  OBVIOUS
<1>1. CASE Stop \/ JudgeRaises
  BY <1>1, StopStep
<1>2. CASE \E t \in Tags, text \in [1 .. Units -> Wordings], all \in BOOLEAN :
             StartExtract(t, text, all)
  BY <1>2, StartExtractStep DEF Drafts
<1>3. CASE \/ \E u \in 1 .. Units, n \in 0 .. MaxClaims : ExtractAnswered(u, n)
           \/ \E u \in 1 .. Units : ExtractTorn(u)
           \/ ExtractDone
  BY <1>3, ExtractAnsweredStep, ExtractTornStep, ExtractDoneStep
<1>4. CASE (\E t \in Tags : StartRetrieve(t)) \/ (\E found \in Searches : Retrieve(found))
  BY <1>4, StartRetrieveStep, RetrieveStep
<1>5. CASE \E t \in Tags, size \in BatchSizes, refresh \in BOOLEAN : StartJudge(t, size, refresh)
  BY <1>5, StartJudgeStep
<1>6. CASE \/ JudgeCached
           \/ \E names \in SUBSET Numbers : JudgeAnswered(names)
           \/ JudgeTorn \/ JudgeDone
  BY <1>6, JudgeCachedStep, JudgeAnsweredStep, JudgeTornStep, JudgeDoneStep
<1>7. CASE UNCHANGED vars
  <2>1. UNCHANGED <<files, saved, refreshed, proc>>
    BY <1>7 DEF vars
  <2>2. Extracts' /\ Retrieves' /\ Judges'
    BY <2>1 DEF HarnessInv, Extracts, Retrieves, Judges, Waiting, files, saved
  <2> QED
    BY <2>1, <2>2, DiskStays, FilesStay DEF HarnessInv
<1> QED
  BY <1>1, <1>2, <1>3, <1>4, <1>5, <1>6, <1>7 DEF Next

\* The invariant, of every behaviour.
THEOREM HarnessCorrect == Spec => []HarnessInv
BY HarnessInit, HarnessNext, PTL DEF Spec

\* An answer that was saved is never bought again, whatever failed, was killed
\* or was edited in between: cached files are asked first, and each answer is
\* saved at once.
THEOREM SavedAnswersAreFree == Spec => []BoughtOnce
<1>1. HarnessInv => BoughtOnce
  BY DEF HarnessInv
<1> QED
  BY <1>1, HarnessCorrect, PTL

\* Kept answers fit what is asked now: the name of a cache file is made from all
\* that the request shows, and a verdict on a claim the prompt did not show is
\* one on a claim without a record of its own, or is noted with its batch.
THEOREM KeptAnswersFit == Spec => []AnswersFit
<1>1. ASSUME HarnessInv, NEW t \in DOMAIN claims
      PROVE  ClaimsOfText(claims[t], t)
  BY <1>1 DEF HarnessInv, FilesFit
<1>2. ASSUME HarnessInv, NEW t \in DOMAIN judged, NEW i \in DOMAIN judged[t].verdict
      PROVE  LET J == judged[t]
                 v == J.verdict[i]
             IN  /\ v.of = Prompt(J.claims, J.evidence, Batches(Len(J.claims), J.size)[v.batch])
                 /\ HasRecord(J, i) /\ v.batch \notin J.extra =>
                      /\ i \in DOMAIN v.of.refs
                      /\ v.of.refs[i] = <<J.claims[i], J.claims[i], Ref(J.evidence[i])>>
  <2> DEFINE J == judged[t]
             v == J.verdict[i]
             batch == Batches(Len(J.claims), J.size)[v.batch]
  <2>1. v.of = Prompt(J.claims, J.evidence, batch) /\ (i \notin batch => v.batch \in J.extra)
    BY <1>2 DEF HarnessInv, FilesFit, VerdictsOfPrompts
  <2>2. ASSUME HasRecord(J, i), v.batch \notin J.extra
        PROVE  /\ i \in DOMAIN v.of.refs
               /\ v.of.refs[i] = <<J.claims[i], J.claims[i], Ref(J.evidence[i])>>
    <3>1. i \in batch \cap DOMAIN J.evidence /\ J.evidence[i].claim = J.claims[i]
      BY <2>1, <2>2 DEF HasRecord
    <3> HIDE DEF J, v, batch
    <3> QED
      BY <2>1, <3>1 DEF Prompt
  <2> QED
    BY <2>1, <2>2
<1>3. HarnessInv => AnswersFit
  BY <1>1, <1>2 DEF ClaimsOfText, AnswersFit
<1> QED
  BY <1>3, HarnessCorrect, PTL

\* The store that is judged shows all that was found for each claim.
THEOREM StoreIsWhole == Spec => []StoreLosesNothing
<1>1. HarnessInv => StoreLosesNothing
  BY StoreShowsFound DEF HarnessInv, FilesFit, StoreLosesNothing
<1> QED
  BY <1>1, HarnessCorrect, PTL

=============================================================================
