----------------------------- MODULE EvalHarness -----------------------------
(***************************************************************************)
(* The evaluation script (scripts/eval_claims.py): stages that are run one *)
(* command at a time, hand their results on in files, and keep every LLM   *)
(* answer on disk under a hash of its request.                             *)
(*                                                                         *)
(* A command can fail or be killed at any point; its files stay.  Between  *)
(* two commands the draft may be edited and a stage may be run again, so   *)
(* what a stage reads need not be of one age.  Only extract reads the      *)
(* draft, so any version of its pieces may be there when it starts (the    *)
(* judge's prompt p6, which shows the draft as well, is left out).  The    *)
(* model has the files of one draft: drafts share the caches only, and     *)
(* their requests differ.                                                  *)
(* Its pieces differ from each other (their lines are numbered).  A stage  *)
(* file that is torn is left out: the stage that made it makes it anew.    *)
(* The reports (score, assemble, judge-score, compare) only read.          *)
(***************************************************************************)
EXTENDS Integers, Sequences, FiniteSets, FiniteSetsExt, SequencesExt, Functions

CONSTANTS
  Tags,        \* run tags whose variants cut the draft into the same pieces
  WithDraft,   \* those whose variant has the whole draft in the system message
  Units,       \* pieces the draft is cut into
  MaxClaims,   \* bound: claims in one answer
  Chunks,      \* chunks a search may find
  Facts,       \* facts a search may find
  Searches,    \* bound: what a search of all claims may find, claim by claim
  Numbers,     \* bound: claim numbers an answer may name, 0 for P0
  BatchSizes,  \* --judge-batch, 0 for a single call
  Wordings,    \* what a piece may say
  MaxFailures, \* bound: commands that fail or are killed
  MaxCommands  \* bound: commands in a behaviour

\* A search result: a chunk, or a fact with the chunks it rests on.  Two
\* channels may bring a fact with different evidence.  Entity profiles, which
\* some variants search too, and a fact's other fields are left out.
Items == [kind : {"chunk"}, id : Chunks, rests : {{}}]
           \cup [kind : {"fact"}, id : Facts, rests : SUBSET Chunks]

ASSUME HarnessAssumption ==
  /\ {Units, MaxClaims, MaxFailures, MaxCommands} \cup Numbers \cup BatchSizes \subseteq Nat
  /\ WithDraft \subseteq Tags
  /\ Searches \subseteq [1 .. (Units * MaxClaims) -> SUBSET Items]

VARIABLES
  cache,       \* CACHE_DIR: the answers to the extraction requests
  claims,      \* claims[t]: the claims file, for the tags that have one
  evidence,    \* evidence[t]: the evidence file, a record per claim
  judgeCache,  \* JUDGE_CACHE_DIR
  torn,        \* the requests whose cache file was left half written
  judged,      \* judged[t]: the verdict file
  bought,      \* requests with the number of answers that were saved for each
  refreshed,   \* --judge-refresh was given once
  failures,    \* commands that failed so far
  commands,    \* commands so far
  proc         \* the command that is running

files == <<claims, evidence, judged>>
saved == <<cache, judgeCache, torn, bought>>
vars == <<files, saved, refreshed, failures, commands, proc>>

Idle == [at |-> "idle"]

Init ==
  /\ cache = <<>>
  /\ claims = <<>>
  /\ evidence = <<>>
  /\ judgeCache = <<>>
  /\ torn = {}
  /\ judged = <<>>
  /\ bought = <<>>
  /\ refreshed = FALSE
  /\ failures = 0
  /\ commands = 0
  /\ proc = Idle

\* f with the value v for x.
With(f, x, v) == [y \in DOMAIN f \cup {x} |-> IF y = x THEN v ELSE f[y]]

Buy(r) == bought' = With(bought, r, IF r \in DOMAIN bought THEN bought[r] + 1 ELSE 1)

Command == proc = Idle /\ commands < MaxCommands /\ commands' = commands + 1

Fail == failures < MaxFailures /\ failures' = failures + 1 /\ proc' = Idle

\* A call or a file raises, or the process is killed: what is on disk stays.
Stop ==
  /\ proc # Idle
  /\ Fail
  /\ UNCHANGED <<files, saved, refreshed, commands>>

-----------------------------------------------------------------------------
(* extract *)

\* What the two messages show for a piece.
Shown(t, v, u) == [draft |-> IF t \in WithDraft THEN v ELSE <<>>, piece |-> <<u, v[u]>>]

\* Mutant: the hash is of the user's message alone.
RequestOfPiece(t, v, u) == [draft |-> <<>>, piece |-> <<u, v[u]>>]

\* _cache_path: the hash has the model, the effort and both messages.
Request(t, v, u) == Shown(t, v, u)

\* The claims of an answer of n.
Answer(t, v, u, n) == [i \in 1 .. n |-> [of |-> Shown(t, v, u), nth |-> i]]

\* The text is read and cut; each piece looks for its answer in the cache.  An
\* answer that cannot be read raises.
StartExtract(t, text, all) ==
  /\ Command
  /\ \A u \in 1 .. Units : Request(t, text, u) \notin torn
  /\ proc' = [at |-> "extract", tag |-> t, all |-> all, text |-> text,
              got |-> [u \in {w \in 1 .. Units : Request(t, text, w) \in DOMAIN cache} |->
                         cache[Request(t, text, u)]]]
  /\ UNCHANGED <<files, saved, refreshed, failures>>

Waiting == {u \in 1 .. Units : u \notin DOMAIN proc.got}

\* Mutant: the answers are kept for the end of the stage.
ExtractAnsweredUnsaved(u, n) ==
  /\ proc.at = "extract"
  /\ u \in Waiting
  /\ LET answer == Answer(proc.tag, proc.text, u, n)
     IN  /\ proc' = [proc EXCEPT !.got = With(@, u, answer)]
         /\ Buy(Request(proc.tag, proc.text, u))
  /\ UNCHANGED <<files, cache, judgeCache, torn, refreshed, failures, commands>>

\* _extract_one: one piece is answered and the answer is saved at once.
ExtractAnswered(u, n) ==
  /\ proc.at = "extract"
  /\ u \in Waiting
  /\ LET answer == Answer(proc.tag, proc.text, u, n)
     IN  /\ proc' = [proc EXCEPT !.got = With(@, u, answer)]
         /\ cache' = With(cache, Request(proc.tag, proc.text, u), answer)
         /\ Buy(Request(proc.tag, proc.text, u))
  /\ UNCHANGED <<files, judgeCache, torn, refreshed, failures, commands>>

\* write_text is not atomic: killed in it, the process leaves half a file.
ExtractTorn(u) ==
  /\ proc.at = "extract"
  /\ u \in Waiting
  /\ torn' = torn \cup {Request(proc.tag, proc.text, u)}
  /\ Buy(Request(proc.tag, proc.text, u))
  /\ Fail
  /\ UNCHANGED <<files, cache, judgeCache, refreshed, commands>>

\* All pieces are there: the claims, in the order of the text, are written.
ExtractDone ==
  /\ proc.at = "extract"
  /\ Waiting = {}
  /\ claims' = With(claims, proc.tag,
       [text |-> proc.text, list |-> FlattenSeq([u \in 1 .. Units |-> proc.got[u]])])
  /\ proc' = IF proc.all THEN [at |-> "retrieve", tag |-> proc.tag] ELSE Idle
  /\ UNCHANGED <<evidence, judged, saved, refreshed, failures, commands>>

-----------------------------------------------------------------------------
(* retrieve *)

StartRetrieve(t) ==
  /\ Command
  /\ t \in DOMAIN claims
  /\ proc' = [at |-> "retrieve", tag |-> t]
  /\ UNCHANGED <<files, saved, refreshed, failures>>

\* One record per claim in the order of the claims; a search that fails finds
\* nothing.  The file's name has no --top-k: another one overwrites it.
Retrieve(found) ==
  /\ proc.at = "retrieve"
  /\ evidence' = With(evidence, proc.tag,
       [i \in DOMAIN claims[proc.tag].list |->
          [claim |-> claims[proc.tag].list[i], items |-> found[i]]])
  /\ proc' = Idle
  /\ UNCHANGED <<claims, judged, saved, refreshed, failures, commands>>

-----------------------------------------------------------------------------
(* The document store *)

Found(E) == UNION {E[i].items : i \in DOMAIN E}

Versions(E, f) == {it \in Found(E) : it.kind = "fact" /\ it.id = f}

\* Mutant: a fact that is there already takes no evidence from another channel.
StoreOfFirst(E) ==
  [chunks |-> {it.id : it \in {x \in Found(E) : x.kind = "chunk"}}
                \cup UNION {it.rests : it \in Found(E)},
   facts |-> [f \in {it.id : it \in {x \in Found(E) : x.kind = "fact"}} |->
                (CHOOSE it \in Versions(E, f) : TRUE).rests]]

\* build_docstore: every node once; a fact has the evidence all channels gave.
Store(E) ==
  [chunks |-> {it.id : it \in {x \in Found(E) : x.kind = "chunk"}}
                \cup UNION {it.rests : it \in Found(E)},
   facts |-> [f \in {it.id : it \in {x \in Found(E) : x.kind = "fact"}} |->
                UNION {it.rests : it \in Versions(E, f)}]]

\* The nodes a record refers to.
Ref(rec) == [chunks |-> {it.id : it \in {x \in rec.items : x.kind = "chunk"}},
             facts |-> {it.id : it \in {x \in rec.items : x.kind = "fact"}}]

\* claim_pool_text: what the store shows of a claim's nodes.
PoolText(S, ref) ==
  ref.facts \cup (ref.chunks \cap S.chunks)
            \cup UNION {S.facts[f] : f \in ref.facts}

\* What the search showed of them.
ChannelText(rec) == {it.id : it \in rec.items} \cup UNION {it.rests : it \in rec.items}

-----------------------------------------------------------------------------
(* judge *)

\* The claims judged in one call.
Batches(n, size) ==
  IF size = 0 THEN <<1 .. n>>
  ELSE [b \in 1 .. ((n + size - 1) \div size) |-> {i \in 1 .. n : (i - 1) \div size = b - 1}]

\* What the messages show: the system message the store, the user message a
\* line for each claim of the batch that has a record, with its number.
Prompt(L, E, batch) ==
  [store |-> Store(E), refs |-> [i \in batch \cap DOMAIN E |-> <<L[i], E[i].claim, Ref(E[i])>>]]

\* Mutant: the hash is of the user's message alone.
JudgeRequestOfRefs(L, E, batch) == [Prompt(L, E, batch) EXCEPT !.store = <<>>]

\* _judge_cache_path: the hash has both messages.
JudgeRequest(L, E, batch) == Prompt(L, E, batch)

StartJudge(t, size, refresh) ==
  /\ Command
  /\ t \in DOMAIN claims \cap DOMAIN evidence
  /\ proc' = [at |-> "judge", tag |-> t, size |-> size, refresh |-> refresh, batch |-> 1,
              claims |-> claims[t].list, evidence |-> evidence[t], verdict |-> <<>>, extra |-> {}]
  /\ refreshed' = (refreshed \/ refresh)
  /\ UNCHANGED <<files, saved, failures>>

Plan == Batches(Len(proc.claims), proc.size)
Asked == JudgeRequest(proc.claims, proc.evidence, Plan[proc.batch])
Judging == proc.at = "judge" /\ proc.batch <= Len(Plan)

\* Mutant: only numbers beyond the claims are taken for extra.
ExtraOutside(names, batch) == names \ (1 .. Len(proc.claims))

Extra(names, batch) == names \ batch

\* _parse_verdicts and the merge: each verdict in the answer counts, also for
\* claims of another batch, whose verdict it replaces; that is noted.
Merged(answer) ==
  LET verdict == [batch |-> proc.batch, of |-> answer.to]
  IN  [proc EXCEPT !.batch = @ + 1,
         !.verdict = [i \in DOMAIN @ \cup answer.names |->
                        IF i \in answer.names THEN verdict ELSE @[i]],
         !.extra = IF Extra(answer.names, Plan[proc.batch]) # {} THEN @ \cup {proc.batch} ELSE @]

JudgeCached ==
  /\ Judging
  /\ ~proc.refresh
  /\ Asked \in DOMAIN judgeCache \ torn
  /\ proc' = Merged(judgeCache[Asked])
  /\ UNCHANGED <<files, saved, refreshed, failures, commands>>

MayAsk == Judging /\ (proc.refresh \/ Asked \notin DOMAIN judgeCache \cup torn)

\* An answer names the claims it has a verdict for: none if it cannot be read,
\* 0 for P0, and numbers that no claim of the batch has.
JudgeAnswered(names) ==
  /\ MayAsk
  /\ LET answer == [to |-> Prompt(proc.claims, proc.evidence, Plan[proc.batch]), names |-> names]
     IN  /\ judgeCache' = With(judgeCache, Asked, answer)
         /\ proc' = Merged(answer)
  /\ torn' = torn \ {Asked}
  /\ Buy(Asked)
  /\ UNCHANGED <<files, cache, refreshed, failures, commands>>

JudgeTorn ==
  /\ MayAsk
  /\ torn' = torn \cup {Asked}
  /\ Buy(Asked)
  /\ Fail
  /\ UNCHANGED <<files, cache, judgeCache, refreshed, commands>>

Judged == proc.at = "judge" /\ proc.batch > Len(Plan)

\* Index -1 (P0) is the last claim's to Python, if there is one.
Indexed == \A i \in DOMAIN proc.verdict : i <= Len(proc.claims) /\ Len(proc.claims) > 0

JudgeDone ==
  /\ Judged
  /\ Indexed
  /\ judged' = With(judged, proc.tag,
       [claims |-> proc.claims, evidence |-> proc.evidence, size |-> proc.size,
        verdict |-> proc.verdict, extra |-> proc.extra])
  /\ proc' = Idle
  /\ UNCHANGED <<claims, evidence, saved, refreshed, failures, commands>>

\* A verdict beyond the last claim raises; the answer stays in the cache.
JudgeRaises ==
  /\ Judged
  /\ ~Indexed
  /\ proc' = Idle
  /\ UNCHANGED <<files, saved, refreshed, failures, commands>>

-----------------------------------------------------------------------------
Next ==
  \/ Stop
  \/ \E t \in Tags, text \in [1 .. Units -> Wordings], all \in BOOLEAN : StartExtract(t, text, all)
  \/ \E u \in 1 .. Units, n \in 0 .. MaxClaims : ExtractAnswered(u, n)
  \/ \E u \in 1 .. Units : ExtractTorn(u)
  \/ ExtractDone
  \/ \E t \in Tags : StartRetrieve(t)
  \/ \E found \in Searches : Retrieve(found)
  \/ \E t \in Tags, size \in BatchSizes, refresh \in BOOLEAN : StartJudge(t, size, refresh)
  \/ JudgeCached
  \/ \E names \in SUBSET Numbers : JudgeAnswered(names)
  \/ JudgeTorn
  \/ JudgeDone
  \/ JudgeRaises

Spec == Init /\ [][Next]_vars

=============================================================================
