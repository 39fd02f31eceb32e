# Formal model of the search-agent workflow

TLA+ modules, TLC configurations and TLAPS proofs for the Python service in
`src/`: a server that indexes the chapters of web novels into a Neo4j graph,
detects contradictions between a new chapter and that graph, and answers
questions in a chat. A Spring backend is its only client; it owns the users, the
novels and two PostgreSQL tables. Paths below are relative to the repository root.

Contents: 1 the system, 2 the modules and how they correspond to the code, 3 the
runs, 4 fairness, 5 the proofs, 6 where code and documents disagree, 7 what is not
modelled, 8 the plan.

## 1. The system

One process, one asyncio event loop, a thread pool for database calls and polls.

| Component | Code | State | Operations | Talks to |
|---|---|---|---|---|
| Index job service | `src/service/index/job_service.py` | `_index_jobs`, `_index_queue` (in memory); markers `Chapter-[:IN_STORY]->Story` (Neo4j) | `submit`, `worker`/`_run_index_job`, `get_status` | Spring (POST, poll), pipeline (await), admission, Neo4j (threads) |
| Indexing pipeline | `src/service/index/indexing_service.py`, `context_service.py`, `extraction_pipeline.py`, `resolver.py`, `src/repository/neo4j/{chunk,fact,evidence,kg_writer,tenant_bootstrap}.py` | the novel's part of the graph | `indexing`: about fifteen queries with LLM calls between them | Neo4j, LLM gateway, `neo4j_graphrag` |
| Extraction and splitting | `extractor.py`, `splitters.py`, `graph_schema.py`, `extraction_examples.py` | none | prompts, chunking, parsing | pipeline |
| Detect job service | `src/service/detect/job_service.py`, `src/repository/postgres/detection.py` | `_detect_jobs`, `_running` (in memory); `detection_jobs`, `detection_findings` (Spring's tables) | `submit`, `_run_detect`, `get_status`, `mark_running`, `save_result`, `mark_error` | Spring, stages (await), PostgreSQL (threads), admission |
| Detection stages | `src/service/detect/{extract,retrieve,judge}_service.py`, `docstore.py`, `lines.py`, `routing.py` | none between checks | `extract`, `retrieve`, `judge` | LLM gateway, graph reads (threads) |
| LLM gateway | `src/common/openai_client.py`, `graphrag.py` | one semaphore per model and loop | `create_completion`, `create_response` | OpenAI |
| Limit meter, admission | `src/common/llm_limit.py`, `admission.py` | `_buckets` | `observe`, `remaining`, `budget_retry_after` | gateway writes, job services read |
| Chat agent | `src/service/chat/` | none between requests | bounded tool loop | gateway, graph reads |
| Graph reads | `src/repository/neo4j/retrieval.py` | none | hybrid searches, lookup of an entity, its neighbours | Neo4j, embedder |
| Evaluation script | `scripts/eval_claims.py` | stage files, caches of LLM answers | `extract`, `retrieve`, `judge`, reports | LLM, Neo4j, disk |
| Tenant keys, HTTP surface | `tenant.py`, `kg_scope.py`, `app.py`, `controller/`, `dto/` | none | — | — |

What is hard about them, and what makes each correct:

* **Index job service.** Requests read the markers in a thread and decide after the
  await, on a job table that has moved on; the worker runs chapters that were
  admitted on the promise of others; marker queries fail; the process restarts and
  forgets its jobs while the graph stays. Correct: no novel's graph has a hole,
  DONE means complete, no chapter is run twice or at the wrong time, nothing accepted
  is lost, the backlog is bounded, a status that was final stays.
* **Indexing pipeline.** Any of its queries may be the last one of a run, nothing
  cleans up, and the next run of the novel works on the leftovers. Correct: a marker
  means a complete chapter, evidence is text of its own chapter, the story so far
  folds every chapter in once.
* **Detect job service.** A poll and the task interleave; the same job is POSTed again
  while it runs, after it ended, and after a restart that left its rows behind; every
  database write may fail and only be logged; a piece that fails leaves the calls of the
  other pieces out. Correct: no answer or row is half written, a job costs one run per
  life of the process, every job settles, and the load is bounded as far as the gate
  counts it.
* **Detection stages.** Answers and searches end in any order, and claims, references and
  verdicts refer to each other by position; searches fail one by one; the answers are
  JSON nobody validated; the graph may already hold the chapter that is checked.
  Correct: numbers follow the manuscript, references are the claim's own, nothing of the
  future is shown, silence is never taken for "no errors", findings stand on what is there.
* **Gateway, meter, gate.** Calls queue for slots, fail in six ways and come back; the
  gate turns work away on what the last headers said. Correct: slots are held in
  flight and only there, retries end, timeouts are rarer than other retries, and waiting
  as long as one was told is enough wherever the meter knows the reset time.
* **Chat agent.** The model calls tools that do not exist, several at once, or beyond its
  budget; tools, the model and the title fail. Correct: the budget is kept, every call
  gets an output, turns are left for the answer, an answer reaches the author.
* **Splitting.** What is too long is cut, what is short is grouped, the last sentences of
  a chunk may be carried into the next, and a last chunk is given out after the loop.
  Correct: no chunk is wider than what the embedder takes, nothing found is lost, and
  nothing is in two chunks unless an overlap was asked for.
* **Graph reads.** The indexes are global: novels that resemble the asker's compete for
  the hits. A lookup is two queries, with indexing going on in between, and what dates a
  fact is one of three things, which need not agree. Correct: a search shows the best of
  the asker's own, and a lookup the asker's facts that began by the bound, none missing
  that surely did.
* **Evaluation script.** Its commands are run by hand, in any order, and fail half-way;
  each keeps files that the next one trusts. Correct: a saved answer is not paid for twice,
  kept claims are of their text, and a kept verdict is on a claim its prompt showed,
  where the evidence it was given is of that claim.

## 2. The modules

| Module | What it is |
|---|---|
| `IndexLedger` | abstract specification of indexing: one writer; the next chapter of a novel; in the ledger in one write or not at all |
| `IndexJobs` | the index job service |
| `IndexJobsProps`, `MCIndexJobs` | its properties and refinement mapping; small instances |
| `IndexJobsProofs` | the theorems about the index job service |
| `DataLemmas` | lemmas about finite sets, sorting and folding, for all proofs |
| `IndexPipeline`, `IndexPipelineProps`, `MCIndexPipeline`, `IndexPipelineProofs` | one run of `indexing()` and the graph it leaves; its properties; small instances; the theorems |
| `TextSplitter`, `TextSplitterProps` | how a manuscript is cut into chunks and pieces; what their readers rely on (theorems in `DetectStagesProofs`) |
| `DetectJobs`, `DetectJobsProps`, `DetectJobsProofs` | the detect job service with its tables; its properties; the theorems |
| `DetectStages`, `DetectStagesProps`, `MCDetectStages`, `DetectStagesProofs` | the three stages of one check; what its result rests on; a small manuscript and graph; the theorems |
| `LlmGateway`, `LlmGatewayProps`, `LlmGatewayProofs` | gateway, meter and admission gate together; their properties; the theorems |
| `ChatAgent`, `ChatAgentProps`, `ChatAgentProofs` | one question to the chat agent; its properties; the theorems |
| `GraphReads`, `ChatReads` | what the tools read; the agent with its tools and what it may conclude from them (theorems in `ChatAgentProofs`) |
| `EvalHarness`, `EvalHarnessProps`, `MCEvalHarness`, `EvalHarnessProofs` | the evaluation script with its files; what a reader of its numbers relies on; a small instance; the theorems |

`IndexJobs` and `IndexPipeline` meet in `IndexLedger`. `IndexJobs` sees a run as one
interval that may write a marker, and implements the ledger with it; `IndexPipeline`
assumes of its caller exactly what the ledger says (one run at a time, of the chapter
after the completed ones), opens the interval, and implements the same ledger with its
own steps. So the assumption one module makes is what the other one provides.
`ChatReads` composes `ChatAgent` with `GraphReads`: a call that is run is a read, in
steps of its own, and returns or fails as the agent's action says.

### IndexJobs

`marked[t]` is the set of chapters of novel t with the marker, `status`, `text` and
`owner` are `_index_jobs`, `queue` is `_index_queue`, `worker` is where the worker
coroutine stands, `call[h]` the local variables of a request in progress. A step is
what the event loop does between two awaits.

* `SubmitBegin`, `SubmitRead`, then one of `SubmitReject`, `SubmitQueueFull`,
  `SubmitModelLimit`, `SubmitAccept`: `submit` up to its await, the marker query in its
  thread, and the rest. The gates stand in the code's order. The admission answer is
  nondeterministic, as the meter is moved by other traffic.
* `WorkerTake`, `WorkerAlreadyDone`, `WorkerOutOfOrder`, `WorkerStart`,
  `IndexingMarks`, `IndexingSucceeds`, `IndexingFails`, `WorkerFinishJob`: one turn of
  `_run_index_job`. The marker and the status are two steps because a marker query in
  its thread can fall between them; `run_indexing` may also fail after the marker.
* `Restart` empties what lives in the process and keeps the markers.
* Only the worker's runs write markers and it waits for its own query, so that query and
  the decision are one step. `AlreadyIndexed` is both queries with their failure value.

### IndexPipeline

`of[r]` is the chapter of the r-th run, `pieces[r]` how many chunks its text is cut into
(an author may edit a chapter between two runs) and `run` the step the current one is at; the
other variables are the graph: who wrote which chunk layer, fact, summary and
`evidence_chunk` token, which of them are tied together, how many nodes an entity name
has, which descriptions are arrays, and the markers. There is one action per query (or
per element of a loop of queries), in the order of `indexing()`, and `Fail` after any
of them. LLM output is a choice: which facts, which entities. Chunks are created anew
by each run, which is what `job_service.py` says of the library. Facts are those with a
text and a readable chunk number; a fact without either is by design not searchable or
has no evidence.

`background` is what `novel_context` tells the extracting LLM, as the chapters it comes
from: the story (`Story.summary`), the `RecentWindow` last chapter summaries and every
event and state in the graph. It is read once, before the run writes. The window is over
the chapters that *have a summary*, so a run of a chapter that failed once may be told of
the chapter itself, in place of the oldest one; `BackgroundIsStorySoFar` says when that
can happen and that the story summary makes up for what falls out of the window.

A fact's `evidence_chunk` is the number of a chunk. `Cited` finds that number in every
copy of the chapter's text that is long enough, so a rerun with an edited text ties a
leftover fact to other sentences too, or to none of the new ones; what it cannot lose is
the passage it was read from (`MarkerMeansComplete`).

### TextSplitter

`_group_sentences` and the `_chunk` of the detection stage, which is the same loop with
other bounds (`mode`). A text is its length and a span a pair of positions. `Find` and
`FindLong` take any sentences a library may return, found in order from `cursor`, and
lines of any length; `Cut` cuts what is longer than allowed. `Add`, `Emit`,
`CarryOne`, `Start` and `Finish` are the grouping loop: what is in `current`, what of
the last chunk is carried, and when carrying is given up.

### DetectJobs

`job[j]` is `_detect_jobs[j]`, `task[j]` where `_run_detect` stands, `asked[j]` how many
of its extraction calls are out, `row[j]` and `found[j]` are Spring's row and its
findings. `AskPieces` sends the pieces of a manuscript at once (`asyncio.gather`),
`CallEnds` is the return of one and `PieceFails` its failure: the stage raises at once,
and what else is out stays out while the job is in ERROR and no longer counted by the
gate. `Submit` is the request that is accepted;
known jobs and refused ones change nothing. Each database write either takes place or
does not (its exception is logged); `Update` also refuses what Spring's CHECK
constraint refuses, which is why a row that is DONE cannot be set to RUNNING.
`SaveResult` is one transaction. `Restart` keeps the tables.

### DetectStages

What `DetectJobs` sees as three awaits. `answers[p]` is what `gather` waits for,
`claims` the numbered claims, `found[i]` what `map` waits for, `store` the document
store, `verdicts` and `findings` the judge's answer and the result.

* `Extracted(p)`, in any order, then `ExtractEnds`: flattening in the order of the
  pieces and numbering. A claim is a kind (what `Route` looks at) and its lines.
* `Retrieved(i)`, in any order, then `RetrieveEnds`: which channels failed, which nodes
  the others brought, without those of the checked chapter or later; the failure of all
  channels; the document store, which adds the evidence of the facts.
* `Judged`: the model's verdicts, among them ones for claims, lines and aliases that do
  not exist; `Read`, `Picked`, `Resolve` and `Finding` are the parsing and folding.
* `StageFails` after any of these. The graph is a constant: an extracted fact's chapter
  (`ChapterOf`) need not be that of its evidence.

### LlmGateway

`call[c]` is where a call stands in `_request`, with its attempt; `waiting` and
`holders` are the semaphore; `axis` is the token axis of the model's bucket; `client`
is one refused client of `budget_retry_after`. Reset times are kept as the time that is
left, so `Tick` needs no clock. `Headers` are all the combinations a response may
carry, with any of the fields missing or unreadable. `Ask` is the client, `OthersAsk`
anybody else's work reading the meter, which refreshes it. Properties alone read two
fields of the client: `known`, that the meter had a reset time when it refused, and
`quiet`, that no header was seen since.

### ChatAgent

`at`, `turn`, `used`, `records`, `outputs` and `answer` are the local variables of
`run_chat`; `calls` and `pos` the response being gone through. `CallsTools` (only while
tools are offered), `AnswersInWords`, `GiveUp` and `ModelFails` are the outcomes of a
turn, `Refuse` and `RunTool` what is done with one call, `AskAgain` the next request.
`SuggestTitle` cannot fail, because the code swallows its failure. `refused` counts calls
of tools that do not exist and is read by properties only.

### GraphReads and ChatReads

The graph is not a variable: indexing of this and of other novels changes it at any time,
so each query meets any graph that indexing can leave behind (`Graphs`: edges stay in a
novel; the chapter of an event, those of the events a state was established in and those
of the passages may all differ, as the model writes the first and merges join facts of
several chapters), and an id that was found by the first
query of a lookup may be another novel's when the second one asks for it. `Search` is
both searches: ranks stand for scores, `Candidates` is the LIMIT inside the library,
`Oversample` the factor that makes up for it. `FindEntities` and `ReadFacts` are the two
queries of a lookup, `Established` the date that the second one computes, `IsCut` its
LIMIT. In `ChatReads` any failure of a tool, before or after a query, is the agent's
`RunTool("FAILED")`.

### EvalHarness

`proc` is the command that is running, with the local variables of its stage; `claims`,
`evidence` and `judged` are the stage files of a tag, `cache` and `judgeCache` the
answers on disk by request, `torn` the files a kill left half written, and `bought` counts
the answers paid for. A request is what its messages show (`Shown`, `Prompt`), because
the name of a cache file is a hash of them. `Store` is the document store of all claims;
of its nodes the model has chunks and facts, and leaves out entity profiles, which are
taken whole from the first channel that brings them (`eval_claims.py:2020`). What a stage
reads may be of different ages: `Prompt` pairs claims and records by their place, as the
script does, and has no line for a claim without a record.
A command may stop at any step; the draft may be of another wording whenever `extract`
starts.

## 3. The runs

Passing runs:

| Run | Instance | Shows |
|---|---|---|
| `index_core` | 2 novels, 2 requests at once, 2 chapters, 2 jobs, 1 restart, backlog 3, request queries may fail | `NoGap`, `DoneIsMarked`, `BacklogBounded`, `InCustody`, `SettledStays`, and that the service implements the ledger |
| `index_outage` | 1 novel, 3 chapters, 2 jobs, every marker query may fail | what holds without the worker's own query: `StopsAtFailure`, `EveryEpisodeSettles` |
| `pipeline` | 2 novels, 2 chapters, 3 runs of texts of 1 or 2 chunks, up to 2 facts and 1 entity name per run, a window of 1 recent summary | `MarkerMeansComplete`, `EvidenceStaysHome`, `GlobalSummaryOnce`, `BackgroundIsStorySoFar`, `MarkedWhenTidy`, and that a run implements the ledger |
| `splitting` | texts of 10 characters, sizes 2 and 4, overlaps from 0 to the whole size and beyond | `ChunksFit`, `ChunksCoverInOrder` |
| `detect` | 2 jobs, 1 at a time, up to 2 pieces and 2 findings, 2 restarts | `LoadBounded`, `RunOnce`, `ReportIsWhole`, `RowIsConsistent`, `EveryCheckSettles` |
| `stages` | 2 pieces with at most 1 claim each, 3 chunks and 2 facts of known, future and unknown chapters, 2 verdicts | `ClaimsFollowText`, `RefsAreOwn`, `ShownIsPast`, `SilenceIsTold`, `FindingsAreVerdicts`, `FindingsStandUp` |
| `gateway` | 2 calls, 1 slot, 3 attempts, 2 for timeouts, half-second ticks, headers with any field missing | `SlotsAreInFlight`, `TimeoutsBounded`, `EveryCallReturns`, `RetryAfterSuffices` |
| `chat` | budget 2, 2 spare turns, up to 2 calls in a response; 2 novels, searches for 1 or 2 among up to 5 hits with an oversampling of 2; lookups of an entity with up to 2 facts, each dated in any way by 2 chapters, and a limit of 1 row | `BudgetKept`, `EveryCallAnswered`, `BudgetLeavesTurns`, `SearchShowsBestOwn`, `LookupIsExact`, `EveryQuestionEnds` |
| `harness` | 1 tag, 2 pieces of 2 wordings, 1 claim each, 4 commands of which 1 fails, batches of 1 or of all | `BoughtOnce`, `AnswersFit`, `StoreLosesNothing` |

Why the bounds are enough. *index*: the hazards need two requests deciding at once, a
chapter queued in two jobs, a second novel that the queue and the cap are shared with,
and a job that outlives a failure in another; two of each give them, and the backlog of
3 is smaller than what two jobs of two chapters hold. The third chapter of
`index_outage` lets a job have chapters before, at and after a failure. *pipeline*: a
chapter needs a failed run behind it and a second chapter and novel whose leftovers
could be mixed up with it; three runs give every split of these, and the theorems of
section 5 hold for any number. Two chunks let a rerun's text be longer, shorter or the
same, so that a number can point past its end. The
window (3 in the code) is 1, so that two chapters are enough to overfill it.
*detect*: one place and two jobs make the gate matter; three lives of the server let a
DONE row be met by a second and a third run with other numbers of findings; two pieces
let one fail while the other is out, and the other job be admitted meanwhile. *stages*:
two claims of two pieces are what an order needs; among the nodes there is one past, one
future and one of no known chapter, and a fact with past and one with future evidence; two
verdicts can be of the same claim, of two, or of none. *chat*: a response of two calls
meets every remainder of the budget; five hits are one more than a search for two looks
at, so that foreign hits can crowd out the asker's; two chapters are what dates need to
disagree, and the graphs of two facts have every pair of facts dated alike, differently
or not at all. *harness*: extract, judge,
a new retrieve or an edit with another extract, and judge again are four commands, the
shortest way for a kept answer to meet another store; two searches differ only in what the
store has for the same references, and three commands are enough for new claims to be
judged by old evidence. *splitting*: ten characters make up to five
parts, enough for a chunk, the next one with what it carries, and a last one. *gateway*:
one slot and two calls make somebody wait in every state; three attempts and two for
timeouts are the smallest numbers that mix; half-second ticks make rounding visible.
`MaxJobs`, `MaxRestarts`, `MaxRuns`, `MaxFindings`, `MaxEpisode`, `MaxReset`, `MaxClaims`,
`MaxVerdicts`, `MaxParallel`, `MaxMessages`, `MaxPieces`, `MaxTopK`, `MaxHits`, `MaxFacts`,
`MaxCommands`, `MaxFailures` and `TextLen` are bounds of the models and not of the code. Deadlock is not checked in runs where the
bounded system comes to rest (all jobs issued, all runs used).

Type invariants are part of the invariants of section 5 and not checked again by these runs.

Symmetry is used over novels, requests and wordings in runs without liveness properties.

Runs that end in a counterexample are listed with their findings in section 6.

## 4. Fairness

* `IndexJobs!FairSpec`: weak fairness of the worker's steps. The worker is one coroutine in an endless loop whose awaits all end: marker queries have
  driver timeouts, a run is bounded by the gateway's timeouts. Nobody has to
  send a request, and nothing is assumed of failures or restarts.
* `DetectJobs!FairSpec`: weak fairness of each task's steps. Tasks are held in
  `_running` so that they are not collected. Calls of the model and the graph's driver have
  timeouts. That PostgreSQL answers is assumed: connecting has a timeout, a statement has none.
* `LlmGateway!FairSpec`: weak fairness of each call's steps. A call in flight ends, at
  the latest by `_TIMEOUT_SECONDS`; a backoff is a sleep; `asyncio.Semaphore` wakes its
  waiters in order. No outcome is ever assumed to happen: all could be failures.
* `ChatReads!JointFairSpec`: weak fairness of the request's steps, a single coroutine. Calls
  of the model end by the gateway's timeouts, tools by those of their queries, whether they
  have read anything or not: nothing is assumed of the reads themselves.

## 5. What is proved

`IndexJobsProofs`, about `IndexJobs`, for any sets of novels and requests and any values
of the bounds:

| Theorem | States | Assumes |
|---|---|---|
| `TypeCorrect` | `[]TypeOK` | |
| `JobsInvariant` | `[]JobsInv`, the inductive invariant | |
| `DoneIsComplete` | `[]DoneIsMarked` | |
| `OrderInvariant`, `GraphHasNoGap` | `[]NoGap`, and the chapter being run is the next | `~WorkerReadMayFail` |
| `ServiceImplementsLedger` | `Spec => Ledger!LedgerSpec` | `~WorkerReadMayFail` |
| `StatusSettles` | `SettledStays` | |
| `NothingAfterFailure` | `StopsAtFailure` | |
| `BacklogStaysBounded` | `[]BacklogBounded` | |
| `CustodyKept` | `[]InCustody` | |
| `JobsAreFinite` | the worker's way to the end of a job is finite and only gets shorter | |

`NoGap` is not inductive by itself: a run that is under way has checked its place
before it writes. `NextUp` says that the chapter being run still is the one after its
novel's markers, which needs that only the worker writes markers and that a marker
query of the worker cannot fail; `index_gap` shows that without this assumption the
property is false. `DoneIsMarked` needs to know that the worker's chapter belongs to
the job's owner and that issued jobs keep their owner; this and the shape of the
statuses in a job (what comes after an ERROR is not RUNNING) is `JobsInv`. The backlog
bound is inductive, with a count of the pairs a request adds.

`InCustody` counts places: an unfinished chapter is in the queue once or with the worker,
not both. What keeps that true is an order and not a count. Job ids are issued in
order and the queue is first in, first out, so the queue is sorted and all of it younger
than the worker's job (`QueueInOrder`); a job that is accepted is younger than both. With
`NothingLost`, that a job with something to do and its manuscripts are somewhere, this is
`CustodyInv`; it needs `JobsInv` for what the job of the worker has left.

`JobsAreFinite` counts, for a job, the steps the worker has before it and those before
the job is done (`StepsUpTo`): `3 * MaxEpisode + 2` for each job it has not taken, and
what is left of the one it has. A step of the worker lowers it, no other step but a
restart raises it (`RequestsComeAfter`: a job accepted later is younger), and where it is 0
the job has no unfinished chapter. It rests on `CustodyInv`: the worker has no way to a
job that is nowhere. `TasksAreFinite`, `CallsAreFinite` and `QuestionsAreFinite` below are
the same for a check, a call and a question.

`DetectJobsProofs`, about `DetectJobs`, for any set of jobs and any bounds:

| Theorem | States |
|---|---|
| `DetectTypes` | `[]TypeOK` |
| `OneRunPerLife` | `[]RunOnce` |
| `ReportsAreWhole` | `[]ReportIsWhole` |
| `RowsAreConsistent` | `[]RowIsConsistent` |
| `FinalIsFinal` | `FinalStays` |
| `LoadStaysBounded` | `[]LoadBounded` |
| `TasksAreFinite` | a report that is not settled has a task with 1 to `MaxPieces + 7` steps left; each step of the task lowers that and no other task's |

The first four rest on one invariant, `DetectInv`. `Fits` says what the place of a task
implies for its report: one that has not started is QUEUED, one in a stage RUNNING, one
that saves DONE with its findings, and a job without a task has no report. `RunsCounted`
says that a job with no task in this life of the process was run in earlier lives only.
`RowIsConsistent` is inductive once the numbers a save writes are those of its report.
`LeftOver` says where calls of the extraction can be out: while the stage gathers them,
or after the job has failed. So a job that has calls out and did
not fail is one the gate counts, and `LoadBounded` adds a count: no step but `Submit`
makes a task unfinished, and it adds one (`GateHolds`). Of failed jobs no such bound
holds (section 6).

`LlmGatewayProofs`, about `LlmGateway`, for any number of calls, slots and attempts:

| Theorem | States | Assumes |
|---|---|---|
| `GatewayTypes` | `[]TypeOK` | |
| `SlotsFollowCalls` | `[]SlotsAreInFlight` | |
| `InFlightStaysBounded` | `[]InFlightBounded` | |
| `TimeoutsStayBounded` | `[]TimeoutsBounded` | |
| `RetryAfterIsEnough` | `RetryAfterSuffices` | |
| `CallsAreFinite` | a call has at most `3 * MaxAttempts` steps left; each step of its own lowers that and no other call's | |
| `QueueNeverStuck` | who waits for a slot waits for one that is free or for a call in flight | |

`CallInv` says that the queue holds waiting calls, each once, so that who gets a slot
held none, and (`Spread`) that the timeouts of a call fell on different attempts, all
but an ending one early enough to be retried. `WaitInv` is about a client that waits in quiet.
If the meter knew the reset time when it refused, the client waits at least until then,
or somebody's question has filled the bucket meanwhile; the seconds it was told are
rounded up, which is what makes them enough (`RoundedUp`). If it did not, the bucket is
too low, has no reset time, and stays so, so that the client is refused again. The theorem
states both.

`ChatAgentProofs`, about `ChatAgent` and `ChatReads`, for any budget, any spare turns and
any number of calls in a response; any novels, rankings, graphs and limits:

| Theorem | States |
|---|---|
| `BudgetIsKept` | `[]BudgetKept` |
| `CallsAreAnswered` | `[]EveryCallAnswered` |
| `BudgetLeavesSpareTurns` | `[]BudgetLeavesTurns` |
| `JointImplementsAgent` | `JointSpec => Spec`: the agent with its tools is the agent |
| `SearchesShowBestOwn` | `JointSpec => []SearchShowsBestOwn` |
| `LookupsAreExact` | `JointSpec => []LookupIsExact` |
| `QuestionsAreFinite` | a question has at most `MaxTurns * StepsOfTurn + 3` steps left; every step lowers that, and none are left only where it was answered or has failed |

`ChatInv` counts turns: every response with calls either used up budget or called a tool
that does not exist, so `turn <= used + refused` between responses (`TurnsAreUsed`); with
`used` within the budget, a request that has no turn left refused as many calls as there
are spare turns. That needs the first call of a response to find budget left, which holds
because tools are offered only then. By `JointImplementsAgent` the first three hold of the
agent with its tools as well.

Both properties of the reads are about what one tool showed. They are inductive with
`Looking`, that the ids between the queries of a lookup are ids there can be, whatever
indexing has done since (`ReadsInv`); the rest is about the queries. `Best` keeps what
ranks first (`BestIsBefore`), and leaves nothing out unless it keeps all it may
(`BestCounts`): so when fewer are shown than wanted, the library's LIMIT was reached
before the hit that is missing, and what reached it was foreign. The date the
query computes is one of those a fact has, and the least of its kind (`EarliestIsLeast`):
a fact within the bound has something that dates it within it, and one whose dates all
are, or with an event that is, is within the bound (`BoundOnDates`). A lookup that is
not cut shows as many rows as there are, so all of them. `ReadBounds` asks that
the ids are finitely many, as those of a database are, and that the mark for "no chapter" is not a chapter.

`DetectStagesProofs`, about `DetectStages`, for any manuscript, any claims, graph and
answer:

| Theorem | States | Assumes |
|---|---|---|
| `StagesCorrect` | `[]StagesInv`, the inductive invariant | |
| `NumbersFollowText` | `[]ClaimsFollowText` | |
| `RefsStayOwn` | `[]RefsAreOwn` | |
| `NoSilentSuccess` | `[]SilenceIsTold` | |
| `VerdictsDecide` | `[]FindingsAreVerdicts` | |
| `FindingsRestOnStore` | `[]FindingsStandUp` | |
| `NoChapterIsItsOwnProof` | `[]ShownIsPast` | `EvidenceDated` |

Each step uses what the ones before it collected, in whatever order it came: answers are
of their own piece (`AnswersOwn`) before they are put together, records are of their own
claim, with no more failures than calls (`FoundOwn`), before they are added up, and
`judge` runs only if a channel answered or none was asked (`JudgeKnows`), which is how a
check that ends well has reached the graph. `StagesInv` is these, with the properties
themselves but for `ShownIsPast`.

That one is true only of some graphs. `EvidenceDated` says that a fact whose own
chapter is before the checked one rests on text from before it. The graph of the run
`stages` satisfies it; `stages_undated` has one that does not, and finds the property
violated (section 6). The theorem says that there is no other way to violate it.

The steps of the stages are flattenings, sums and folds over sequences of any length
(`ExtractEnds`, `Unreached`, `Resolve`, `Judged`), which the provers cannot unfold.
`DataLemmas` makes them usable: `InductionUpTo` is induction over numbers stated for a
*set*, which the provers can instantiate where they cannot instantiate an operator, and
from it follow what `FlattenSeq` (`FlattenUnfolds`, `FlattenInOrder`, `FlattenIsConcat`, `FlattenLength`), `FoldLeft`
(`FoldsExist`, `PrefixTop`, `SumBounds`), sorting (`SortedExists`) and `Max` of the
community modules return. Some definitions of `DetectStages` are written for this:
`Searched` as a union over the channels that answered, `Total` as one sum, and `Sorted`
in place of the library's sorting. `StagesBounds` asks that the graph is finite and that
the chapter of a node, like that of the check, is a number (`Null` is one too).

`IndexPipelineProofs`, about `IndexPipeline`, for any novels, any number of runs and
any texts:

| Theorem | States |
|---|---|
| `PipelineTypes` | `[]TypeOK` |
| `PipelineInv` | `[]Inv`, the inductive invariant |
| `MarkersAreTrue` | `[]MarkerMeansComplete` |
| `EvidenceAtHome` | `[]EvidenceStaysHome` |
| `StoryFoldedOnce` | `[]GlobalSummaryOnce` |
| `MarkedIsTidy` | `MarkedWhenTidy` |
| `RunImplementsLedger` | `Spec => Ledger!LedgerSpec` |
| `ToldTheStorySoFar` | `[]BackgroundIsStorySoFar` |

What a marker promises is about the whole chapter, and what a step of a run does is about
the whole novel; `Inv` connects the two. It says that a run that may still write is of the
chapter after the story (`RunIsNext`), and so is every fact that still carries a token,
whoever left it (`TokensAreNext`): this is why linking all tokens of the novel ties each to
its own chapter. It says that a fact without a token is tied to its passage (`Written`),
and for each step what has been done once it is past (`ChunksAttached`, `TokensLinked`,
`TokensCleared`, `FactsEmbedded` and the others), so that the last query finds nothing
missing. A chapter with the marker is out of every later run's reach (`NotMarkedYet`).
`ToldInv` adds that facts and summaries are of chapters in the story or of the next one.

The first section of `DetectStagesProofs` is about `TextSplitter`, for any text and any sizes
and overlaps:

| Theorem | States |
|---|---|
| `SplitterInvariant` | `SplitSpec => []SplitInv`, the inductive invariant |
| `ChunksAlwaysFit` | `SplitSpec => []ChunksFit` |
| `NothingIsLost` | `SplitSpec => []ChunksCoverInOrder` |

`SplitInv` says that the parts are in order and none wider than the size (`PartsInOrder`),
that what waits in `current` fits (`CurrentFits`), that what is carried is a proper end of
the last chunk (`CarriedIsEnd`), which is why chunks advance, and that all before
`current` is in the chunks given out (`Covered`).

`EvalHarnessProofs`, about `EvalHarness`, for any pieces, wordings, searches and batches, and
any number of commands and failures:

| Theorem | States |
|---|---|
| `HarnessCorrect` | `[]HarnessInv`, the inductive invariant |
| `SavedAnswersAreFree` | `[]BoughtOnce` |
| `KeptAnswersFit` | `[]AnswersFit` |
| `StoreIsWhole` | `[]StoreLosesNothing` |

`BoughtOnce` needs that what was paid for is found again: it left a whole file or a torn one
(`PaidLeftFile`), and what `extract` waits for is in no file, because the cache was asked
first and an answer to one piece is not that to another (`PiecesDiffer`, `Extracts`). For
`judge`, which asks its cache one batch at a time, it needs that a prompt is never the name of
a piece's request (`PromptIsNoPiece`). `CachesKeep` says that a file answers the request its
name is made from; from it comes `FilesFit`, that stage files are made of such answers, in
the order of the pieces, and that a verdict kept is of a prompt for the store it stands
beside and its batch, or the batch is noted. What a prompt shows of a claim depends on the
record at the claim's place; `AnswersFit` says it for claims whose record is their own
(`HasRecord`), and follows, and with the lengths of what is put together
(`FlattenLength`) so does `StoreLosesNothing`.

Only model-checked: liveness under fairness (`EveryEpisodeSettles`, `EveryCheckSettles`,
`EveryCallReturns`, `EveryQuestionEnds`), which is out of the prover's reach. What it rests
on is proved as far as safety goes: that the steps left are finitely many and that each
step lowers them (`JobsAreFinite`, `TasksAreFinite`, `CallsAreFinite`,
`QuestionsAreFinite`), and that a queue is never one in which all wait for each other
(`QueueNeverStuck`). What is left to the runs is that a step can be taken (ENABLED), and
that fairness then takes it.

What the counterexamples of section 6 state is false.

## 6. Where the code and its documents disagree

Each is a run whose one property states the document's sentence; PROJECT.json quotes it.

| Run | Sentence | What happens |
|---|---|---|
| `index_gap` | resubmit from the failed chapter (`docs/indexing-api-spec.md:214`) | one failed marker query of the worker lets a chapter be built over a hole, which then cannot be filled |
| `stages_undated` | results of the checked chapter or later are filtered out (`retrieve_service.py:6`) | the evidence of a fact whose chapter the model took down too early is shown, though it is text of the checked chapter |
| `detect_rerun` | a rerun overwrites the earlier result (`docs/detecting-api-spec.md:216`) | a rerun that fails leaves ERROR with the first run's findings |

Other sentences have no run of their own; the models follow the code, and where a
property of a passing run is near, it says exactly how much of the sentence is true:

* `job_service.py:31-35` (detection) says that bounding the checks in progress bounds how
  many big calls overlap, and line 56 that the status is the more exact count. That is so of
  the judge's call. The extraction calls that a failed check left out
  (`extract_service.py:118`) are not in the count: `LoadBounded` is about checks that did
  not fail.
* `docs/indexing-api-spec.md:252` says that on a used-up limit `Retry-After` is when the
  tokens are expected to be back, and `admission.py:41-42` that without a reset time a few
  seconds are enough. Where a response told a low remaining and no reset time, the meter
  never fills the bucket again, and a client is refused until another response says more:
  `RetryAfterSuffices` is an equivalence.
* `retrieval.py:662-663` says that the bound keeps out what has not happened yet. The bound is
  on one date of a fact; a fact that is shown brings its passages of later chapters, and one
  whose chapter was taken down too late is missing. `LookupIsExact` has both limits in
  `BeginsBy` and `SurelyBy`.
* `chunk.py:39` says that chunks are upserted on a rerun, and `IndexPipeline` has a copy per
  run, as `job_service.py:249` explains.
* `docs/indexing-api-spec.md:177` says that a 400 is the same on retry, and a chapter that
  completes between the marker query and the order gate is in neither list.

`eval_claims.py` promises nothing of files of different ages, and does not notice them:
verdicts by the evidence of older claims are kept like any other, also where the prompt had
no line for the claim (line 2109). `AnswersFit` excepts claims without a record of their own.

## 7. Not modelled

* Texts, prompts, LLM answers, formatting and logging: choices from small sets, or left
  out. Whether an answer is *good* is not a question for these models.
* The relationships between entities and which of two nodes a merge keeps; index
  creation (idempotent, no effect on data); counting and printing at the end of a run.
* The embedder's thread semaphore, which has no retries, and the request axis of the
  meter, which no gate reads. `spend` has no caller.
* HTTP routes, DTOs, error formats, configuration: no state.
* Of the reads: the neighbours of a node, which are matched by the node and not by the
  tenant; the profile; manuscripts, which are read by the work alone. `LookupIsExact` says
  nothing of a lookup whose rows were cut at the LIMIT of 60: what the docstring says of a
  closed set does not hold there.
* The list of characters for the extractor (`entity_nodes.py`) is data of the stages. Its
  comment says that the name of a character stays in the list; one whose states are all of
  later chapters is filtered out with them.
* Of the evaluation script: the scores and reports, which only read, the judge's prompt
  `p6`, which shows the draft as well, the several samples of one judgement, and the entity
  profiles among the nodes of the store (`eval_claims.py:2020-2031`), so that
  `StoreLosesNothing` is about chunks and facts.

## 8. Plan

Done: the index job service, the pipeline with edited texts, the detect job service, the
detection stages, the gateway with meter and gate, the chat agent with what its tools
read, the splitter and the evaluation script, each with its proofs.

Next, in this order:

1. Dated facts in the pipeline, so that `stages` and `GraphReads` share with it what they
   assume of a fact's chapter.
2. The embedder's semaphore and the adapters of `graphrag.py`.
