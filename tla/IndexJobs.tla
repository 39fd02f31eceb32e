------------------------------ MODULE IndexJobs ------------------------------
(***************************************************************************)
(* The indexing job service (service/index/job_service.py): requests that  *)
(* submit chapters, the global FIFO of jobs, the single worker, and the    *)
(* completion markers in Neo4j that both consult.                          *)
(*                                                                         *)
(* A step is what the event loop does between two awaits.  A handler       *)
(* awaits once (the marker query, run in a thread), so a request is three  *)
(* steps: it arrives, its query is answered, and it is decided on what     *)
(* the query saw.  The worker awaits the marker query and the indexing     *)
(* run; nothing but its own runs writes markers, so its query and the      *)
(* decision that follows it are one step.  An indexing run writes the      *)
(* marker and returns without another await, so handlers stand still       *)
(* between the two; a query already in its thread does not.                *)
(***************************************************************************)
EXTENDS Integers, Sequences, FiniteSets, FiniteSetsExt

CONSTANTS
  Tenants,            \* the novels, kg_scope(userId, workId)
  NoTenant,           \* not a novel: the owner of a job id not yet issued
  Handlers,           \* requests that can be in progress at once
  MaxEpisode,         \* bound: chapters are numbered 1 .. MaxEpisode
  MaxJobs,            \* bound: jobs accepted in a behaviour
  MaxRestarts,        \* bound: restarts in a behaviour
  QueueCap,           \* INDEX_MAX_WAIT_SECONDS \div INDEX_EPISODE_SECONDS
  SubmitReadMayFail,  \* may the marker query of a request fail?
  WorkerReadMayFail   \* may the marker query of the worker fail?

ASSUME TenantsAssumption == NoTenant \notin Tenants
ASSUME BoundsAssumption ==
  MaxEpisode \in Nat /\ MaxJobs \in Nat /\ MaxRestarts \in Nat /\ QueueCap \in Nat
ASSUME ReadsAssumption ==
  SubmitReadMayFail \in BOOLEAN /\ WorkerReadMayFail \in BOOLEAN

VARIABLES
  marked,    \* marked[t]: chapters with a marker, Chapter-[:IN_STORY]->Story
  owner,     \* owner[j]: the novel of job j
  status,    \* status[j][n]: chapter n of job j, "ABSENT" if not in the job
  text,      \* text[j]: the chapters whose manuscript job j still holds
  queue,     \* the job ids waiting for the worker
  issued,    \* how many job ids were issued so far, over all restarts
  worker,    \* what the worker is doing
  call,      \* call[h]: the request handler h is working on
  restarts

vars == <<marked, owner, status, text, queue, issued, worker, call, restarts>>
jobVars == <<owner, status, text>>

Episodes == 1 .. MaxEpisode
JobIds == 1 .. MaxJobs
EpisodeStatus == {"QUEUED", "RUNNING", "DONE", "ERROR"}
Unfinished == {"QUEUED", "RUNNING"}
Unknown == -1   \* _MARKER_UNKNOWN

\* "idle" waits for a job, "between" is between two chapters of a job,
\* "running" is inside run_indexing before the marker, "marked" after it.
At(phase, j, n) == [phase |-> phase, job |-> j, episode |-> n]
Idle == At("idle", 0, 0)

\* A request: what was asked, and what the marker query said.
Asking(phase, t, nos, indexed, latest) ==
  [phase |-> phase, tenant |-> t, nos |-> nos, indexed |-> indexed, latest |-> latest]
NoCall == Asking("none", NoTenant, {}, {}, 0)

Init ==
  /\ marked \in [Tenants -> {1 .. k : k \in 0 .. MaxEpisode}]
  /\ owner = [j \in JobIds |-> NoTenant]
  /\ status = [j \in JobIds |-> [n \in Episodes |-> "ABSENT"]]
  /\ text = [j \in JobIds |-> {}]
  /\ queue = <<>>
  /\ issued = 0
  /\ worker = Idle
  /\ call = [h \in Handlers |-> NoCall]
  /\ restarts = 0

-----------------------------------------------------------------------------
(* What the markers and the jobs say.                                      *)

Latest(S) == Max(S \cup {0})

\* Mutant: a query that fails is taken for "all of them are complete".
AlreadyIndexedTrusting(t, nos, mayFail) ==
  {[indexed |-> marked[t] \cap nos, latest |-> Latest(marked[t])]}
    \cup (IF mayFail THEN {[indexed |-> nos, latest |-> Unknown]} ELSE {})

\* _already_indexed: which of the chapters `nos` of t are complete and the
\* last complete one; a query that fails says "none, unknown".
AlreadyIndexed(t, nos, mayFail) ==
  {[indexed |-> marked[t] \cap nos, latest |-> Latest(marked[t])]}
    \cup (IF mayFail THEN {[indexed |-> {}, latest |-> Unknown]} ELSE {})

\* _active_episode_nos
ActiveEpisodes(t) ==
  {n \in Episodes : \E j \in JobIds : owner[j] = t /\ status[j][n] \in Unfinished}

\* What _queued_episode_count counts, over all novels.
Waiting == {p \in JobIds \X Episodes : status[p[1]][p[2]] \in Unfinished}

Consecutive(nos) == nos # {} /\ nos = Min(nos) .. Max(nos)

\* The continuity gate of submit: the first chapter nobody knows yet has to
\* be the one after everything complete or in progress.
OutOfOrder(t, nos, indexed, latest) ==
  LET active == ActiveEpisodes(t)
      fresh  == (nos \ indexed) \ active
  IN  /\ fresh # {}
      /\ latest # Unknown
      /\ Min(fresh) # Max({latest} \cup active) + 1

-----------------------------------------------------------------------------
(* submit()                                                                *)

\* From the marker write to the chapter's status the event loop is blocked.
LoopFree == worker.phase # "marked"

\* A request arrives.  One with a gap is refused before anything is read,
\* and leaves no trace.
SubmitBegin(h, t, nos) ==
  /\ LoopFree
  /\ call[h].phase = "none"
  /\ Consecutive(nos)
  /\ call' = [call EXCEPT ![h] = Asking("asked", t, nos, {}, 0)]
  /\ UNCHANGED <<marked, jobVars, queue, issued, worker, restarts>>

\* The thread answers; the event loop has not resumed the handler yet.
SubmitRead(h) ==
  /\ call[h].phase = "asked"
  /\ \E r \in AlreadyIndexed(call[h].tenant, call[h].nos, SubmitReadMayFail) :
       call' = [call EXCEPT ![h] = Asking("read", @.tenant, @.nos, r.indexed, r.latest)]
  /\ UNCHANGED <<marked, jobVars, queue, issued, worker, restarts>>

Pending(c) == c.nos \ c.indexed

BadRequest(c) ==
  \/ OutOfOrder(c.tenant, c.nos, c.indexed, c.latest)
  \/ Cardinality(Pending(c)) > QueueCap

\* Mutant: the request's own chapters are not added to the backlog.
QueueFullWithoutOwn(c) == Cardinality(Waiting) > QueueCap

QueueFull(c) == Cardinality(Waiting) + Cardinality(Pending(c)) > QueueCap

\* A refusal, 400 or 429, changes nothing but the request itself.
Refuse(h) ==
  /\ LoopFree
  /\ call[h].phase = "read"
  /\ call' = [call EXCEPT ![h] = NoCall]
  /\ UNCHANGED <<marked, jobVars, queue, issued, worker, restarts>>

SubmitReject(h) ==
  /\ Refuse(h)
  /\ BadRequest(call[h])

SubmitQueueFull(h) ==
  /\ Refuse(h)
  /\ ~BadRequest(call[h])
  /\ QueueFull(call[h])

\* admission.budget_retry_after: the model may be short of tokens at any time.
SubmitModelLimit(h) ==
  /\ Refuse(h)
  /\ ~BadRequest(call[h])
  /\ ~QueueFull(call[h])

\* The job is registered and queued in the same step.
SubmitAccept(h) ==
  LET c == call[h]
      j == issued + 1
  IN  /\ LoopFree
      /\ c.phase = "read"
      /\ ~BadRequest(c)
      /\ ~QueueFull(c)
      /\ j \in JobIds
      /\ issued' = j
      /\ owner' = [owner EXCEPT ![j] = c.tenant]
      /\ status' = [status EXCEPT ![j] =
                      [n \in Episodes |-> IF n \notin c.nos THEN "ABSENT"
                                          ELSE IF n \in c.indexed THEN "DONE"
                                          ELSE "QUEUED"]]
      /\ text' = [text EXCEPT ![j] = c.nos]
      /\ queue' = Append(queue, j)
      /\ call' = [call EXCEPT ![h] = NoCall]
      /\ UNCHANGED <<marked, worker, restarts>>

-----------------------------------------------------------------------------
(* worker() and _run_index_job()                                           *)

ToDo(j) == {n \in Episodes : status[j][n] = "QUEUED"}

\* Mutant: the failure is not passed on to the later chapters.
FailedFromOnly(j, n) == [status[j] EXCEPT ![n] = "ERROR"]

\* Mutant: the whole job is marked as failed.
FailedFromAll(j, n) ==
  [m \in Episodes |-> IF status[j][m] = "ABSENT" THEN "ABSENT" ELSE "ERROR"]

\* The state of job j once chapter n failed: the later ones are not tried.
FailedFrom(j, n) ==
  [m \in Episodes |-> IF m = n \/ (m > n /\ status[j][m] = "QUEUED")
                        THEN "ERROR" ELSE status[j][m]]

WorkerTake ==
  /\ worker.phase = "idle"
  /\ queue # <<>>
  /\ worker' = At("between", Head(queue), 0)
  /\ queue' = Tail(queue)
  /\ UNCHANGED <<marked, jobVars, issued, call, restarts>>

\* Mutant: the worker leaves a job with chapters still to do.
WorkerFinishJobEarly ==
  /\ worker.phase = "between"
  /\ worker' = Idle
  /\ UNCHANGED <<marked, jobVars, queue, issued, call, restarts>>

WorkerFinishJob ==
  /\ worker.phase = "between"
  /\ ToDo(worker.job) = {}
  /\ worker' = Idle
  /\ UNCHANGED <<marked, jobVars, queue, issued, call, restarts>>

\* The worker's own look at the markers, just before it would run chapter n.
Looking(n) ==
  /\ worker.phase = "between"
  /\ n \in ToDo(worker.job)
  /\ \A m \in ToDo(worker.job) : n <= m

Looks(n) == AlreadyIndexed(owner[worker.job], {n}, WorkerReadMayFail)

\* Mutant: the order check is an inequality the wrong way round.
MustWaitForEarlier(n, latest) == latest # Unknown /\ n < latest + 1

MustWait(n, latest) == latest # Unknown /\ n # latest + 1

WorkerAlreadyDone(n) ==
  /\ Looking(n)
  /\ \E r \in Looks(n) : n \in r.indexed
  /\ status' = [status EXCEPT ![worker.job][n] = "DONE"]
  /\ text' = [text EXCEPT ![worker.job] = @ \ {n}]
  /\ UNCHANGED <<marked, owner, queue, issued, worker, call, restarts>>

WorkerOutOfOrder(n) ==
  /\ Looking(n)
  /\ \E r \in Looks(n) : n \notin r.indexed /\ MustWait(n, r.latest)
  /\ status' = [status EXCEPT ![worker.job] = FailedFrom(worker.job, n)]
  /\ text' = [text EXCEPT ![worker.job] = @ \ {n}]
  /\ UNCHANGED <<marked, owner, queue, issued, worker, call, restarts>>

WorkerStart(n) ==
  /\ Looking(n)
  /\ \E r \in Looks(n) : n \notin r.indexed /\ ~MustWait(n, r.latest)
  /\ status' = [status EXCEPT ![worker.job][n] = "RUNNING"]
  /\ worker' = At("running", worker.job, n)
  /\ UNCHANGED <<marked, owner, text, queue, issued, call, restarts>>

\* Mutant: the marker is written without the novel it belongs to.
IndexingMarksAnyNovel ==
  /\ worker.phase = "running"
  /\ marked' = [t \in Tenants |-> marked[t] \cup {worker.episode}]
  /\ worker' = At("marked", worker.job, worker.episode)
  /\ UNCHANGED <<jobVars, queue, issued, call, restarts>>

\* run_indexing's last write: summary and marker in one query.
IndexingMarks ==
  /\ worker.phase = "running"
  /\ marked' = [marked EXCEPT ![owner[worker.job]] = @ \cup {worker.episode}]
  /\ worker' = At("marked", worker.job, worker.episode)
  /\ UNCHANGED <<jobVars, queue, issued, call, restarts>>

IndexingSucceeds ==
  /\ worker.phase = "marked"
  /\ status' = [status EXCEPT ![worker.job][worker.episode] = "DONE"]
  /\ text' = [text EXCEPT ![worker.job] = @ \ {worker.episode}]
  /\ worker' = At("between", worker.job, 0)
  /\ UNCHANGED <<marked, owner, queue, issued, call, restarts>>

\* Mutant: an exception of the run ends the worker task.
IndexingFailsUncaught ==
  /\ worker.phase \in {"running", "marked"}
  /\ worker' = At("dead", worker.job, worker.episode)
  /\ UNCHANGED <<marked, jobVars, queue, issued, call, restarts>>

\* run_indexing raises, before its last write or after it (it still counts
\* the graph once the marker is there).
IndexingFails ==
  /\ worker.phase \in {"running", "marked"}
  /\ status' = [status EXCEPT ![worker.job] = FailedFrom(worker.job, worker.episode)]
  /\ text' = [text EXCEPT ![worker.job] = @ \ {worker.episode}]
  /\ worker' = At("between", worker.job, 0)
  /\ UNCHANGED <<marked, owner, queue, issued, call, restarts>>

-----------------------------------------------------------------------------
\* The process dies and starts again: all but the graph is gone.
Restart ==
  /\ restarts < MaxRestarts
  /\ restarts' = restarts + 1
  /\ owner' = [j \in JobIds |-> NoTenant]
  /\ status' = [j \in JobIds |-> [n \in Episodes |-> "ABSENT"]]
  /\ text' = [j \in JobIds |-> {}]
  /\ queue' = <<>>
  /\ worker' = Idle
  /\ call' = [h \in Handlers |-> NoCall]
  /\ UNCHANGED <<marked, issued>>

-----------------------------------------------------------------------------
HandlerStep(h) ==
  \/ SubmitRead(h)
  \/ SubmitReject(h)
  \/ SubmitQueueFull(h)
  \/ SubmitModelLimit(h)
  \/ SubmitAccept(h)

WorkerStep ==
  \/ WorkerTake
  \/ WorkerFinishJob
  \/ \E n \in Episodes : WorkerAlreadyDone(n)
  \/ \E n \in Episodes : WorkerOutOfOrder(n)
  \/ \E n \in Episodes : WorkerStart(n)
  \/ IndexingMarks
  \/ IndexingSucceeds
  \/ IndexingFails

Next ==
  \/ \E h \in Handlers, t \in Tenants, nos \in SUBSET Episodes : SubmitBegin(h, t, nos)
  \/ \E h \in Handlers : HandlerStep(h)
  \/ WorkerStep
  \/ Restart

Spec == Init /\ [][Next]_vars

\* The worker task lives as long as the process and every await of it ends:
\* driver and LLM calls have timeouts.  Nobody has to send requests.
FairSpec == Spec /\ WF_vars(WorkerStep)

=============================================================================
