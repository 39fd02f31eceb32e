---------------------------- MODULE IndexJobsProps ----------------------------
(***************************************************************************)
(* What the indexing job service should never do, whatever the order of    *)
(* requests, worker steps, failures and restarts.                          *)
(***************************************************************************)
EXTENDS IndexJobs

Working == worker.phase \in {"running", "marked"}

WorkerRecord == [phase: {"idle", "between", "running", "marked"},
                 job: 0 .. MaxJobs, episode: 0 .. MaxEpisode]

CallRecord == [phase: {"none", "asked", "read"}, tenant: Tenants \cup {NoTenant},
               nos: SUBSET Episodes, indexed: SUBSET Episodes,
               latest: {Unknown} \cup (0 .. MaxEpisode)]

\* The types of the state; phases that hold a job name a job.
TypeOK ==
  /\ marked \in [Tenants -> SUBSET Episodes]
  /\ owner \in [JobIds -> Tenants \cup {NoTenant}]
  /\ status \in [JobIds -> [Episodes -> EpisodeStatus \cup {"ABSENT"}]]
  /\ text \in [JobIds -> SUBSET Episodes]
  /\ queue \in Seq(JobIds)
  /\ issued \in 0 .. MaxJobs
  /\ worker \in WorkerRecord
  /\ worker.phase # "idle" => worker.job \in JobIds
  /\ Working => worker.episode \in Episodes
  /\ call \in [Handlers -> CallRecord]
  /\ \A h \in Handlers : call[h].phase # "none" => call[h].tenant \in Tenants
  /\ restarts \in 0 .. MaxRestarts

\* A novel's graph never has a hole: chapter n is built on chapters 1 .. n-1.
\* It rests on the worker's own look at the markers, since a request is let
\* through on the promise of chapters that may still fail.
NoGap == \A t \in Tenants : marked[t] = 1 .. Latest(marked[t])

\* A chapter reported DONE is complete in the graph: no chapter is lost by
\* being taken for done (the fear of _already_indexed's comment).
DoneIsMarked ==
  \A j \in JobIds, n \in Episodes : status[j][n] = "DONE" => n \in marked[owner[j]]

\* The chapters admitted and not finished, counted over all novels and with
\* chapters submitted twice counted twice, never exceed the worker's backlog.
BacklogBounded == Cardinality(Waiting) <= QueueCap

\* Every unfinished chapter is in exactly one place from which the worker
\* will get to it: its job is queued once, or it is the worker's job; what
\* is RUNNING is what the worker runs; and its manuscript is still there.
InCustody ==
  /\ \A j \in JobIds :
       (\E n \in Episodes : status[j][n] \in Unfinished) =>
          Cardinality({i \in DOMAIN queue : queue[i] = j})
            = (IF worker.phase # "idle" /\ worker.job = j THEN 0 ELSE 1)
  /\ \A j \in JobIds, n \in Episodes :
       status[j][n] = "RUNNING" <=> Working /\ worker.job = j /\ worker.episode = n
  /\ \A j \in JobIds, n \in Episodes : status[j][n] \in Unfinished => n \in text[j]

\* Once a poll has shown a chapter DONE or ERROR, every later poll of this
\* process shows the same.
SettledStays ==
  [][\A j \in JobIds, n \in Episodes :
       status[j][n] \in {"DONE", "ERROR"} /\ restarts' = restarts
         => status'[j][n] = status[j][n]]_vars

Starts == worker.phase = "between" /\ worker'.phase = "running"

\* After a failure the job's later chapters are not run, even when the
\* markers cannot be read.
StopsAtFailure ==
  [][Starts => \A m \in Episodes :
                 m < worker'.episode => status[worker.job][m] # "ERROR"]_vars

\* Every chapter accepted is eventually finished, or lost to a restart.
EveryEpisodeSettles ==
  \A j \in JobIds, n \in Episodes :
    status[j][n] \in Unfinished ~> status[j][n] \notin Unfinished

\* With a worker that can read the markers, the service implements the
\* ledger: one chapter at a time, always the next one, each one once.
Writing ==
  IF worker.phase = "running" THEN <<owner[worker.job], worker.episode>> ELSE <<>>

Ledger == INSTANCE IndexLedger WITH book <- marked, writing <- Writing

ImplementsLedger == Ledger!LedgerSpec

=============================================================================
