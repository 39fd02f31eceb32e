--------------------------- MODULE DetectJobsProps ---------------------------
(***************************************************************************)
(* What Spring may rely on, polling this server or reading its own tables. *)
(***************************************************************************)
EXTENDS DetectJobs

TaskPoints == Stages \cup {"none", "created", "marking", "saving", "erring", "ended"}

Reports == [status: Statuses \cup {"ABSENT"}, phase: {"none", "EXTRACT", "RETRIEVE", "JUDGE"},
            claims: BOOLEAN, findings: {Null} \cup (0 .. MaxFindings)]
Rows == [status: Statuses, claims: BOOLEAN, count: 0 .. MaxFindings]

\* The types of the state.
TypeOK ==
  /\ job \in [Jobs -> Reports]
  /\ task \in [Jobs -> TaskPoints]
  /\ asked \in [Jobs -> 0 .. MaxPieces]
  /\ runs \in [Jobs -> Nat]
  /\ row \in [Jobs -> Rows]
  /\ found \in [Jobs -> SUBSET (Nat \X (1 .. MaxFindings))]
  /\ restarts \in 0 .. MaxRestarts

\* A job with calls of the model out.
Calling(j) == asked[j] > 0 \/ task[j] = "judge"

\* The checks with calls of the model out are bounded, but for those that have
\* failed: what a failed one left out is not counted by the gate, which counts
\* states, so that these add to the load.  No call outlives a check that did not
\* fail, and the big call of the judge is always one of those that are bounded.
LoadBounded ==
  LET counted == {j \in Jobs : Calling(j) /\ job[j].status # "ERROR"}
  IN  /\ Cardinality(counted) <= MaxDetects
      /\ {j \in Jobs : task[j] = "judge"} \subseteq counted

\* A job costs one run in the life of a process, however often it is sent
\* and however it ended.
RunOnce == \A j \in Jobs : runs[j] <= restarts + 1

\* A poll never sees a final status without its result: DONE has the claims
\* and the findings, ERROR and unfinished jobs have none.
ReportIsWhole ==
  \A j \in Jobs :
    /\ job[j].status = "DONE" <=> job[j].findings # Null
    /\ job[j].status = "DONE" => job[j].claims /\ job[j].phase = "none"

\* A DONE row counts exactly the findings stored with it, and they are of one
\* run, whatever earlier runs of the job left; another row counts nothing.
RowIsConsistent ==
  \A j \in Jobs :
    /\ row[j].status = "DONE" =>
         row[j].claims /\ \E r \in 1 .. runs[j] : found[j] = {r} \X (1 .. row[j].count)
    /\ row[j].status # "DONE" => row[j].count = 0 /\ ~row[j].claims

\* What a poll has shown as final stays what every poll of this process shows.
FinalStays ==
  [][\A j \in Jobs :
       job[j].status \in {"DONE", "ERROR"} /\ restarts' = restarts
         => job'[j] = job[j]]_vars

\* Running a job again overwrites what its earlier run reported (spec, section
\* 4): a row that says ERROR does not come with an earlier run's findings.
RerunOverwrites == \A j \in Jobs : row[j].status = "ERROR" => found[j] = {}

\* Every accepted check ends in DONE or ERROR, or is lost to a restart, with
\* the database writing or not.
EveryCheckSettles ==
  \A j \in Jobs : job[j].status \in {"QUEUED", "RUNNING"}
                    ~> job[j].status \notin {"QUEUED", "RUNNING"}

=============================================================================
