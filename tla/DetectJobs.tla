----------------------------- MODULE DetectJobs -----------------------------
(***************************************************************************)
(* Detection jobs (service/detect/job_service.py) and the rows in Spring's *)
(* tables that report them (repository/postgres/detection.py).             *)
(*                                                                         *)
(* Spring names the job, creates its row and may POST it again whenever it *)
(* likes: a copy of a request, or a new try after a 404.  Accepted jobs    *)
(* run at once, each in a task of its own; a step is what a task does      *)
(* between two awaits.  The database writes run in threads and swallow     *)
(* their exceptions, so each may silently not happen.                      *)
(*                                                                         *)
(* The pieces of a manuscript are extracted by calls that are out at the   *)
(* same time (asyncio.gather in extract_service.py).  When one raises, so  *)
(* does the stage, at once, and nobody ends the others: they stay out      *)
(* while the job is already reported as failed.                            *)
(***************************************************************************)
EXTENDS Integers, FiniteSets

CONSTANTS
  Jobs,          \* the job ids Spring issues
  MaxDetects,    \* MAX_CONCURRENT_DETECTS
  MaxPieces,     \* bound: pieces of a manuscript
  MaxFindings,   \* bound: contradictions a run finds
  MaxRestarts    \* bound: restarts of this server in a behaviour

ASSUME DetectBounds ==
  /\ MaxDetects \in Nat \ {0} /\ MaxPieces \in Nat
  /\ MaxFindings \in Nat /\ MaxRestarts \in Nat

VARIABLES
  job,       \* job[j]: what _detect_jobs holds of j, Unheard if nothing
  task,      \* task[j]: where the task of j is
  asked,     \* asked[j]: how many of its extraction calls are out
  runs,      \* runs[j]: how often j was run so far, over all restarts
  row,       \* row[j]: the detection_jobs row
  found,     \* found[j]: the detection_findings rows, <<run, seq>>
  restarts

vars == <<job, task, asked, runs, row, found, restarts>>

Null == -1
Statuses == {"QUEUED", "RUNNING", "DONE", "ERROR"}
Stages == {"extract", "gather", "retrieve", "judge"}   \* the try block up to its result

\* claims says whether claim_count is set; findings is their number.
Report(status, phase, claims, findings) ==
  [status |-> status, phase |-> phase, claims |-> claims, findings |-> findings]
Unheard == Report("ABSENT", "none", FALSE, Null)

\* claims as above; count is contradiction_count.
Row(status, claims, count) == [status |-> status, claims |-> claims, count |-> count]

Init ==
  /\ job = [j \in Jobs |-> Unheard]
  /\ task = [j \in Jobs |-> "none"]
  /\ asked = [j \in Jobs |-> 0]
  /\ runs = [j \in Jobs |-> 0]
  /\ row = [j \in Jobs |-> Row("QUEUED", FALSE, 0)]
  /\ found = [j \in Jobs |-> {}]
  /\ restarts = 0

\* _running_detect_count
Running == {j \in Jobs : job[j].status \in {"QUEUED", "RUNNING"}}

\* ck_detection_jobs_counts_by_status: only a DONE row may have counts.
Allowed(r) == r.status = "DONE" \/ (r.count = 0 /\ ~r.claims)

\* An UPDATE of the row of j: it happens, or fails and is logged.
Update(j, r) == row' \in {row} \cup (IF Allowed(r) THEN {[row EXCEPT ![j] = r]} ELSE {})

-----------------------------------------------------------------------------
\* Mutant: an off-by-one in the limit.
SubmitOneTooMany(j) ==
  /\ job[j] = Unheard
  /\ Cardinality(Running) <= MaxDetects
  /\ job' = [job EXCEPT ![j] = Report("QUEUED", "none", FALSE, Null)]
  /\ task' = [task EXCEPT ![j] = "created"]
  /\ runs' = [runs EXCEPT ![j] = @ + 1]
  /\ UNCHANGED <<asked, row, found, restarts>>

\* Mutant: a job that has ended may be submitted again.
SubmitAgain(j) ==
  /\ job[j].status \notin {"QUEUED", "RUNNING"}
  /\ runs[j] <= MaxRestarts + 1
  /\ Cardinality(Running) < MaxDetects
  /\ job' = [job EXCEPT ![j] = Report("QUEUED", "none", FALSE, Null)]
  /\ task' = [task EXCEPT ![j] = "created"]
  /\ runs' = [runs EXCEPT ![j] = @ + 1]
  /\ UNCHANGED <<asked, row, found, restarts>>

\* A request for a job that is known is answered with its status, and one that
\* is over the limit, or comes when the model is short of tokens, with 429:
\* neither changes anything.
Submit(j) ==
  /\ job[j] = Unheard
  /\ Cardinality(Running) < MaxDetects
  /\ job' = [job EXCEPT ![j] = Report("QUEUED", "none", FALSE, Null)]
  /\ task' = [task EXCEPT ![j] = "created"]
  /\ runs' = [runs EXCEPT ![j] = @ + 1]
  /\ UNCHANGED <<asked, row, found, restarts>>

\* The task gets its first turn.
Start(j) ==
  /\ task[j] = "created"
  /\ job' = [job EXCEPT ![j] = Report("RUNNING", "EXTRACT", @.claims, @.findings)]
  /\ task' = [task EXCEPT ![j] = "marking"]
  /\ UNCHANGED <<asked, runs, row, found, restarts>>

MarkRunning(j) ==
  /\ task[j] = "marking"
  /\ Update(j, Row("RUNNING", row[j].claims, row[j].count))
  /\ task' = [task EXCEPT ![j] = "extract"]
  /\ UNCHANGED <<job, asked, runs, found, restarts>>

\* The list of characters is read and the manuscript cut; its pieces are all
\* sent at once.
AskPieces(j, n) ==
  /\ task[j] = "extract"
  /\ task' = [task EXCEPT ![j] = "gather"]
  /\ asked' = [asked EXCEPT ![j] = n]
  /\ UNCHANGED <<job, runs, row, found, restarts>>

\* A call returns: with a piece's claims, or, if its job has failed meanwhile,
\* with whatever, as nobody looks at it any more.
CallEnds(j) ==
  /\ asked[j] > 0
  /\ asked' = [asked EXCEPT ![j] = @ - 1]
  /\ UNCHANGED <<job, task, runs, row, found, restarts>>

Failed(j) == Report("ERROR", "none", job[j].claims, job[j].findings)

\* A call raises, or its answer is no JSON: so does gather, and the other
\* pieces' calls go on.
PieceFails(j) ==
  /\ task[j] = "gather"
  /\ asked[j] > 0
  /\ asked' = [asked EXCEPT ![j] = @ - 1]
  /\ job' = [job EXCEPT ![j] = Failed(j)]
  /\ task' = [task EXCEPT ![j] = "erring"]
  /\ UNCHANGED <<runs, row, found, restarts>>

\* extract_service.extract returns, all pieces answered: the number of claims
\* is known.
Extracted(j) ==
  /\ task[j] = "gather"
  /\ asked[j] = 0
  /\ job' = [job EXCEPT ![j] = Report(@.status, "RETRIEVE", TRUE, @.findings)]
  /\ task' = [task EXCEPT ![j] = "retrieve"]
  /\ UNCHANGED <<asked, runs, row, found, restarts>>

Retrieved(j) ==
  /\ task[j] = "retrieve"
  /\ job' = [job EXCEPT ![j] = Report(@.status, "JUDGE", @.claims, @.findings)]
  /\ task' = [task EXCEPT ![j] = "judge"]
  /\ UNCHANGED <<asked, runs, row, found, restarts>>

\* Mutant: the status is written before the findings.
JudgedStatusFirst(j, n) ==
  /\ task[j] = "judge"
  /\ job' = [job EXCEPT ![j] = Report("DONE", "none", @.claims, Null)]
  /\ task' = [task EXCEPT ![j] = "saving"]
  /\ UNCHANGED <<asked, runs, row, found, restarts>>

\* judge_service.judge returns n findings: status and findings are one update.
Judged(j, n) ==
  /\ task[j] = "judge"
  /\ job' = [job EXCEPT ![j] = Report("DONE", "none", @.claims, n)]
  /\ task' = [task EXCEPT ![j] = "saving"]
  /\ UNCHANGED <<asked, runs, row, found, restarts>>

FindingsOf(j) == {runs[j]} \X (1 .. job[j].findings)

\* Mutant: findings and counts are two transactions.
SaveResultInTwo(j) ==
  /\ task[j] = "saving"
  /\ found' \in {found, [found EXCEPT ![j] = FindingsOf(j)]}
  /\ Update(j, Row("DONE", TRUE, job[j].findings))
  /\ task' = [task EXCEPT ![j] = "ended"]
  /\ UNCHANGED <<job, asked, runs, restarts>>

\* save_result, one transaction: the findings of an earlier run are deleted,
\* this run's are inserted and the row gets its counts, or nothing happens.
SaveResult(j) ==
  /\ task[j] = "saving"
  /\ \/ /\ found' = [found EXCEPT ![j] = FindingsOf(j)]
        /\ row' = [row EXCEPT ![j] = Row("DONE", TRUE, job[j].findings)]
     \/ UNCHANGED <<found, row>>
  /\ task' = [task EXCEPT ![j] = "ended"]
  /\ UNCHANGED <<job, asked, runs, restarts>>

\* Mutant: only the stages after extraction are in the try block.
StageFailsUncaught(j) ==
  /\ task[j] \in Stages \ {"gather"}
  /\ task' = [task EXCEPT ![j] = IF @ = "extract" THEN "ended" ELSE "erring"]
  /\ job' = [job EXCEPT ![j] = IF task[j] = "extract" THEN @ ELSE Failed(j)]
  /\ UNCHANGED <<asked, runs, row, found, restarts>>

\* A stage raises with no call of the model out but its own, if any: cause and
\* status are one update.
StageFails(j) ==
  /\ task[j] \in Stages \ {"gather"}
  /\ job' = [job EXCEPT ![j] = Failed(j)]
  /\ task' = [task EXCEPT ![j] = "erring"]
  /\ UNCHANGED <<asked, runs, row, found, restarts>>

\* Mutant: the counts of an earlier run are not cleared.
MarkErrorKeepsCounts(j) ==
  /\ task[j] = "erring"
  /\ row' \in {row, [row EXCEPT ![j] = Row("ERROR", @.claims, @.count)]}
  /\ task' = [task EXCEPT ![j] = "ended"]
  /\ UNCHANGED <<job, asked, runs, found, restarts>>

MarkError(j) ==
  /\ task[j] = "erring"
  /\ Update(j, Row("ERROR", FALSE, 0))
  /\ task' = [task EXCEPT ![j] = "ended"]
  /\ UNCHANGED <<job, asked, runs, found, restarts>>

\* This server dies and starts again; Spring's tables stay.
Restart ==
  /\ restarts < MaxRestarts
  /\ restarts' = restarts + 1
  /\ job' = [j \in Jobs |-> Unheard]
  /\ task' = [j \in Jobs |-> "none"]
  /\ asked' = [j \in Jobs |-> 0]
  /\ UNCHANGED <<runs, row, found>>

-----------------------------------------------------------------------------
TaskStep(j) ==
  \/ Start(j)
  \/ MarkRunning(j)
  \/ \E n \in 0 .. MaxPieces : AskPieces(j, n)
  \/ CallEnds(j)
  \/ PieceFails(j)
  \/ Extracted(j)
  \/ Retrieved(j)
  \/ \E n \in 0 .. MaxFindings : Judged(j, n)
  \/ SaveResult(j)
  \/ StageFails(j)
  \/ MarkError(j)

Next ==
  \/ \E j \in Jobs : Submit(j)
  \/ \E j \in Jobs : TaskStep(j)
  \/ Restart

Spec == Init /\ [][Next]_vars

\* The tasks are held in _running, and their awaits end: LLM calls and the graph's
\* driver have timeouts.  Of PostgreSQL that is an assumption: connecting has a
\* timeout, a statement has none.
FairSpec == Spec /\ \A j \in Jobs : WF_vars(TaskStep(j))

=============================================================================
