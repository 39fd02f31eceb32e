--------------------------- MODULE DetectJobsProofs ---------------------------
(***************************************************************************)
(* Theorems about the detection jobs, for every set of jobs and every      *)
(* value of the bounds.                                                    *)
(***************************************************************************)
EXTENDS DetectJobsProps, FiniteSetTheorems, TLAPS

Whole(r) ==
  /\ r.status = "DONE" <=> r.findings # Null
  /\ r.status = "DONE" => r.claims /\ r.phase = "none"

\* What the place of a task says of its report.
Fits(t, r) ==
  /\ t = "none" => r = Unheard
  /\ t = "created" => r.status = "QUEUED"
  /\ t \in {"marking"} \cup Stages => r.status = "RUNNING"
  /\ t \in {"retrieve", "judge"} => r.claims
  /\ t = "saving" => r.status = "DONE"
  /\ t = "erring" => r.status = "ERROR"
  /\ t = "ended" => r.status \in {"DONE", "ERROR"}
  /\ Whole(r)

TaskFitsReport == \A j \in Jobs : Fits(task[j], job[j])

\* A job that has a task in this life of the process has been run in it, and
\* one that has none has been run in earlier lives only.
RunsCounted ==
  \A j \in Jobs :
    /\ task[j] = "none" => runs[j] <= restarts
    /\ task[j] # "none" => runs[j] \in 1 .. restarts + 1

\* Extraction calls are out while their stage waits for them, or after it failed.
LeftOver ==
  \A j \in Jobs :
    asked[j] > 0 => \/ task[j] = "gather"
                    \/ task[j] \in {"erring", "ended"} /\ job[j].status = "ERROR"

DetectInv == TypeOK /\ TaskFitsReport /\ RunsCounted /\ LeftOver /\ RowIsConsistent

-----------------------------------------------------------------------------
\* The constructors build well-typed records.
LEMMA Typed ==
  /\ Unheard \in Reports /\ Whole(Unheard)
  /\ \A s \in Statuses, p \in {"none", "EXTRACT", "RETRIEVE", "JUDGE"}, c \in BOOLEAN,
        n \in {Null} \cup (0 .. MaxFindings) : Report(s, p, c, n) \in Reports
  /\ \A s \in Statuses, c \in BOOLEAN, n \in 0 .. MaxFindings : Row(s, c, n) \in Rows
BY DetectBounds DEF Unheard, Reports, Rows, Report, Row, Statuses, Whole, Null

\* The invariant holds at the start.
LEMMA InvInit == Init => DetectInv
<1> SUFFICES ASSUME Init PROVE DetectInv
  OBVIOUS
<1> USE DetectBounds
<1>1. job \in [Jobs -> Reports]
  BY Typed DEF Init
<1>2. row \in [Jobs -> Rows]
  <2>1. Row("QUEUED", FALSE, 0) \in Rows
    BY DEF Row, Rows, Statuses
  <2> QED
    BY <2>1 DEF Init
<1>3. task \in [Jobs -> TaskPoints] /\ runs \in [Jobs -> Nat] /\ asked \in [Jobs -> 0 .. MaxPieces]
  BY DEF Init, TaskPoints
<1>4. found \in [Jobs -> SUBSET (Nat \X (1 .. MaxFindings))] /\ restarts \in 0 .. MaxRestarts
  BY DEF Init
<1>5. TaskFitsReport
  BY Typed DEF Init, TaskFitsReport, Fits, Stages
<1>6. RunsCounted
  BY DEF Init, RunsCounted
<1>7. RowIsConsistent
  BY DEF Init, RowIsConsistent, Row
<1>8. LeftOver
  BY DEF Init, LeftOver
<1> QED
  BY <1>1, <1>2, <1>3, <1>4, <1>5, <1>6, <1>7, <1>8 DEF DetectInv, TypeOK

\* What the database may do with an update: nothing, or write an allowed row.
\* A row that is not DONE then has no counts.
LEMMA UpdateKeeps ==
  ASSUME DetectInv, NEW j \in Jobs, NEW r \in Rows, Update(j, r), r.status # "DONE",
         UNCHANGED <<runs, found>>
  PROVE  row' \in [Jobs -> Rows] /\ RowIsConsistent'
<1>1. CASE row' = row
  BY <1>1 DEF DetectInv, TypeOK, RowIsConsistent
<1>2. CASE row' = [row EXCEPT ![j] = r] /\ Allowed(r)
  <2>1. row' \in [Jobs -> Rows] /\ row'[j] = r
    BY <1>2 DEF DetectInv, TypeOK
  <2>2. \A k \in Jobs \ {j} : row'[k] = row[k]
    BY <1>2 DEF DetectInv, TypeOK
  <2>3. r.count = 0 /\ ~r.claims
    BY <1>2 DEF Allowed
  <2> QED
    BY <2>1, <2>2, <2>3 DEF DetectInv, RowIsConsistent
<1> QED
  BY <1>1, <1>2 DEF Update

\* A move of one task to a place that fits its new report keeps what the
\* invariant says of tasks and reports.
LEMMA MoveKeeps ==
  ASSUME DetectInv, NEW j \in Jobs, NEW t \in TaskPoints \ {"none"}, NEW r \in Reports,
         task[j] # "none", Fits(t, r),
         task' = [task EXCEPT ![j] = t], job' = [job EXCEPT ![j] = r],
         UNCHANGED <<runs, restarts>>
  PROVE  /\ job' \in [Jobs -> Reports] /\ task' \in [Jobs -> TaskPoints]
         /\ TaskFitsReport' /\ RunsCounted'
<1>1. job' \in [Jobs -> Reports] /\ task' \in [Jobs -> TaskPoints]
  BY DEF DetectInv, TypeOK
<1>2. task'[j] = t /\ job'[j] = r
  BY DEF DetectInv, TypeOK
<1>3. \A k \in Jobs \ {j} : task'[k] = task[k] /\ job'[k] = job[k]
  BY DEF DetectInv, TypeOK
<1>4. TaskFitsReport'
  BY <1>2, <1>3 DEF DetectInv, TaskFitsReport
<1>5. RunsCounted'
  BY <1>2, <1>3 DEF DetectInv, RunsCounted
<1> QED
  BY <1>1, <1>4, <1>5

\* A request that is accepted gives the job a task and counts a run.
LEMMA SubmitKeeps ==
  ASSUME DetectInv, NEW j \in Jobs, Submit(j)
  PROVE  DetectInv'
<1> USE DetectBounds DEF DetectInv, TypeOK, Submit
<1> DEFINE r == Report("QUEUED", "none", FALSE, Null)
<1>1. r \in Reports /\ r.status = "QUEUED" /\ Whole(r)
  BY DEF Reports, Report, Statuses, Whole
<1> HIDE DEF r
<1>2. job' = [job EXCEPT ![j] = r]
  BY DEF r
<1>3. job' \in [Jobs -> Reports]
  BY <1>1, <1>2
<1>4. task' \in [Jobs -> TaskPoints] /\ runs' \in [Jobs -> Nat] /\ row' \in [Jobs -> Rows]
  BY DEF TaskPoints
<1>5. found' = found /\ \A k \in Jobs : runs[k] <= runs'[k] /\ runs'[k] \in Nat
  OBVIOUS
<1>7. TaskFitsReport'
  <2>1. task'[j] = "created" /\ job'[j] = r
    BY <1>2
  <2>2. \A k \in Jobs \ {j} : task'[k] = task[k] /\ job'[k] = job[k]
    BY <1>2
  <2> QED
    BY <1>1, <2>1, <2>2 DEF TaskFitsReport, Fits, Stages
<1>8. RunsCounted'
  <2>1. task[j] = "none"
    BY DEF TaskFitsReport, Fits, Unheard, Report, TaskPoints
  <2>2. task'[j] = "created" /\ runs'[j] = runs[j] + 1 /\ restarts' = restarts
    OBVIOUS
  <2>3. runs'[j] \in 1 .. restarts + 1
    BY <2>1, <2>2 DEF RunsCounted
  <2>4. \A k \in Jobs \ {j} : task'[k] = task[k] /\ runs'[k] = runs[k]
    OBVIOUS
  <2> QED
    BY <2>2, <2>3, <2>4 DEF RunsCounted
<1>10. asked' \in [Jobs -> 0 .. MaxPieces] /\ LeftOver'
  <2>1. task[j] = "none" /\ asked' = asked
    BY DEF TaskFitsReport, Fits, Unheard, Report, TaskPoints, Stages
  <2>2. \A k \in Jobs \ {j} : task'[k] = task[k] /\ job'[k] = job[k]
    OBVIOUS
  <2> QED
    BY <2>1, <2>2 DEF LeftOver
<1>9. RowIsConsistent'
  <2> SUFFICES ASSUME NEW k \in Jobs
               PROVE  /\ row[k].status = "DONE" =>
                           /\ row[k].claims
                           /\ \E m \in 1 .. runs'[k] : found[k] = {m} \X (1 .. row[k].count)
                      /\ row[k].status # "DONE" => row[k].count = 0 /\ ~row[k].claims
    BY DEF RowIsConsistent
  <2>1. 1 .. runs[k] \subseteq 1 .. runs'[k]
    BY <1>5
  <2> QED
    BY <2>1 DEF RowIsConsistent
<1> QED
  BY <1>3, <1>4, <1>5, <1>7, <1>8, <1>9, <1>10

\* What is out after a step of the task of j.
LEMMA CallsKeep ==
  ASSUME DetectInv, NEW j \in Jobs, TaskStep(j)
  PROVE  asked' \in [Jobs -> 0 .. MaxPieces] /\ LeftOver'
<1> USE DetectBounds DEF DetectInv, TypeOK
<1> DEFINE Covered(a, t, s) == a > 0 => t = "gather" \/ (t \in {"erring", "ended"} /\ s = "ERROR")
<1>1. ASSUME NEW a \in 0 .. MaxPieces, asked' = [asked EXCEPT ![j] = a],
             Covered(a, task'[j], job'[j].status),
             \A k \in Jobs \ {j} : task'[k] = task[k] /\ job'[k] = job[k]
      PROVE  asked' \in [Jobs -> 0 .. MaxPieces] /\ LeftOver'
  <2>1. asked' \in [Jobs -> 0 .. MaxPieces] /\ asked'[j] = a
    BY <1>1
  <2>2. \A k \in Jobs \ {j} : asked'[k] = asked[k]
    BY <1>1
  <2> QED
    BY <1>1, <2>1, <2>2 DEF LeftOver
<1>2. asked[j] \in 0 .. MaxPieces /\ Covered(asked[j], task[j], job[j].status)
  BY DEF LeftOver
<1>3. \A k \in Jobs \ {j} : task'[k] = task[k] /\ job'[k] = job[k]
  BY DEF TaskStep, Start, MarkRunning, AskPieces, CallEnds, PieceFails, Extracted, Retrieved,
         Judged, SaveResult, StageFails, MarkError
<1>4. ASSUME NEW n \in 0 .. MaxPieces, AskPieces(j, n)
      PROVE  asked' \in [Jobs -> 0 .. MaxPieces] /\ LeftOver'
  BY <1>1, <1>3, <1>4 DEF AskPieces
<1>5. CASE CallEnds(j)
  <2>1. asked[j] - 1 \in 0 .. MaxPieces /\ Covered(asked[j] - 1, task'[j], job'[j].status)
    BY <1>2, <1>5 DEF CallEnds
  <2> HIDE DEF Covered
  <2> QED
    BY <1>1, <1>3, <1>5, <2>1 DEF CallEnds
<1>6. CASE PieceFails(j)
  <2>1. /\ asked[j] - 1 \in 0 .. MaxPieces
        /\ task'[j] = "erring" /\ job'[j].status = "ERROR"
    BY <1>2, <1>6 DEF PieceFails, Failed, Report
  <2> QED
    BY <1>1, <1>3, <1>6, <2>1 DEF PieceFails
<1>7. ASSUME \/ Start(j) \/ MarkRunning(j) \/ Extracted(j) \/ Retrieved(j) \/ StageFails(j)
             \/ \E n \in 0 .. MaxFindings : Judged(j, n)
      PROVE  asked' \in [Jobs -> 0 .. MaxPieces] /\ LeftOver'
  <2>1. task[j] \in {"created", "marking"} \cup Stages /\ (task[j] = "gather" => asked[j] = 0)
    BY <1>2, <1>7 DEF Start, MarkRunning, Extracted, Retrieved, Judged, StageFails, Stages
  <2>2. asked[j] = 0
    BY <1>2, <2>1 DEF Stages
  <2>3. asked' = asked
    BY <1>7 DEF Start, MarkRunning, Extracted, Retrieved, Judged, StageFails
  <2>4. asked' = [asked EXCEPT ![j] = 0] /\ 0 \in 0 .. MaxPieces
    BY <2>2, <2>3
  <2>5. Covered(0, task'[j], job'[j].status)
    OBVIOUS
  <2> HIDE DEF Covered
  <2> QED
    BY <1>1, <1>3, <2>4, <2>5
<1>8. CASE SaveResult(j) \/ MarkError(j)
  <2>1. Covered(asked[j], task'[j], job'[j].status)
    BY <1>2, <1>8 DEF SaveResult, MarkError
  <2>2. asked' = [asked EXCEPT ![j] = asked[j]]
    BY <1>8 DEF SaveResult, MarkError
  <2>3. asked[j] \in 0 .. MaxPieces
    BY <1>2
  <2> HIDE DEF Covered
  <2> QED
    BY <1>1, <1>3, <2>1, <2>2, <2>3
<1> QED
  BY <1>4, <1>5, <1>6, <1>7, <1>8 DEF TaskStep

\* A step of a task.
LEMMA TaskKeeps ==
  ASSUME DetectInv, NEW j \in Jobs, TaskStep(j)
  PROVE  DetectInv'
<1> USE DetectBounds
<1>c. asked' \in [Jobs -> 0 .. MaxPieces] /\ LeftOver'
  BY CallsKeep
<1>0. /\ job[j] \in Reports /\ row[j] \in Rows /\ Fits(task[j], job[j])
      /\ job[j].status \in Statuses \cup {"ABSENT"} /\ job[j].claims \in BOOLEAN
      /\ job[j].findings \in {Null} \cup (0 .. MaxFindings)
      /\ row[j].claims \in BOOLEAN /\ row[j].count \in 0 .. MaxFindings
  <2>1. job[j] \in Reports /\ row[j] \in Rows /\ Fits(task[j], job[j])
    BY DEF DetectInv, TypeOK, TaskFitsReport
  <2> QED
    BY <2>1 DEF Reports, Rows
<1>1. task[j] # "none"
  BY DEF TaskStep, Start, MarkRunning, AskPieces, CallEnds, PieceFails, Extracted, Retrieved,
         Judged, SaveResult, StageFails, MarkError, Stages, DetectInv, TypeOK, LeftOver
<1>2. ASSUME NEW t \in TaskPoints \ {"none"}, NEW r \in Reports, Fits(t, r),
             task' = [task EXCEPT ![j] = t], job' = [job EXCEPT ![j] = r],
             UNCHANGED <<runs, restarts, row, found>>
      PROVE  DetectInv'
  BY <1>c, <1>1, <1>2, MoveKeeps DEF DetectInv, TypeOK, RowIsConsistent
<1>3. ASSUME NEW t \in TaskPoints \ {"none"}, Fits(t, job[j]), NEW r \in Rows,
             task' = [task EXCEPT ![j] = t], Update(j, r), r.status # "DONE",
             UNCHANGED <<job, runs, restarts, found>>
      PROVE  DetectInv'
  <2>1. job' = [job EXCEPT ![j] = job[j]]
    BY <1>3 DEF DetectInv, TypeOK
  <2>2. /\ job' \in [Jobs -> Reports] /\ task' \in [Jobs -> TaskPoints]
        /\ TaskFitsReport' /\ RunsCounted'
    BY <1>0, <1>1, <1>3, <2>1, MoveKeeps
  <2>3. row' \in [Jobs -> Rows] /\ RowIsConsistent'
    BY <1>3, UpdateKeeps
  <2> QED
    BY <1>c, <1>3, <2>2, <2>3 DEF DetectInv, TypeOK
<1>4. CASE Start(j)
  <2> DEFINE r == Report("RUNNING", "EXTRACT", job[j].claims, job[j].findings)
  <2>1. job[j].findings = Null
    BY <1>0, <1>4 DEF Start, Fits, Whole
  <2>2. r \in Reports /\ Fits("marking", r)
    BY <1>0, <2>1, Typed DEF Report, Fits, Whole, Stages, Statuses
  <2>3. job' = [job EXCEPT ![j] = r] /\ task' = [task EXCEPT ![j] = "marking"]
    BY <1>4 DEF Start
  <2> HIDE DEF r
  <2> QED
    BY <1>2, <1>4, <2>2, <2>3 DEF Start, TaskPoints
<1>5. CASE MarkRunning(j)
  <2>1. Fits("extract", job[j])
    BY <1>0, <1>5 DEF MarkRunning, Fits, Stages
  <2>2. /\ Row("RUNNING", row[j].claims, row[j].count) \in Rows
        /\ Row("RUNNING", row[j].claims, row[j].count).status # "DONE"
    BY <1>0, Typed DEF Statuses, Row
  <2> QED
    BY <1>3, <1>5, <2>1, <2>2 DEF MarkRunning, TaskPoints, Stages
<1>12. ASSUME NEW n \in 0 .. MaxPieces, AskPieces(j, n)
       PROVE  DetectInv'
  <2>1. Fits("gather", job[j]) /\ job' = [job EXCEPT ![j] = job[j]]
    BY <1>0, <1>12 DEF AskPieces, Fits, Stages, DetectInv, TypeOK
  <2> QED
    BY <1>0, <1>2, <1>12, <2>1 DEF AskPieces, TaskPoints, Stages
<1>13. CASE CallEnds(j)
  <2>1. task' = [task EXCEPT ![j] = task[j]] /\ job' = [job EXCEPT ![j] = job[j]]
    BY <1>13 DEF CallEnds, DetectInv, TypeOK
  <2> QED
    BY <1>0, <1>1, <1>2, <1>13, <2>1 DEF CallEnds, DetectInv, TypeOK
<1>14. CASE PieceFails(j)
  <2>1. job[j].findings = Null
    BY <1>0, <1>14 DEF PieceFails, Fits, Whole, Stages
  <2>2. Failed(j) \in Reports /\ Fits("erring", Failed(j))
    BY <1>0, <2>1, Typed DEF Failed, Report, Fits, Whole, Stages, Statuses
  <2> QED
    BY <1>2, <1>14, <2>2 DEF PieceFails, TaskPoints
<1>6. CASE Extracted(j)
  <2> DEFINE r == Report(job[j].status, "RETRIEVE", TRUE, job[j].findings)
  <2>1. job[j].status = "RUNNING" /\ job[j].findings = Null
    BY <1>0, <1>6 DEF Extracted, Fits, Whole, Stages
  <2>2. r \in Reports /\ Fits("retrieve", r)
    BY <2>1, Typed DEF Report, Fits, Whole, Stages, Statuses
  <2>3. job' = [job EXCEPT ![j] = r] /\ task' = [task EXCEPT ![j] = "retrieve"]
    BY <1>6 DEF Extracted
  <2> HIDE DEF r
  <2> QED
    BY <1>2, <1>6, <2>2, <2>3 DEF Extracted, TaskPoints, Stages
<1>7. CASE Retrieved(j)
  <2> DEFINE r == Report(job[j].status, "JUDGE", job[j].claims, job[j].findings)
  <2>1. job[j].status = "RUNNING" /\ job[j].claims /\ job[j].findings = Null
    BY <1>0, <1>7 DEF Retrieved, Fits, Whole, Stages
  <2>2. r \in Reports /\ Fits("judge", r)
    BY <1>0, <2>1, Typed DEF Report, Fits, Whole, Stages, Statuses
  <2>3. job' = [job EXCEPT ![j] = r] /\ task' = [task EXCEPT ![j] = "judge"]
    BY <1>7 DEF Retrieved
  <2> HIDE DEF r
  <2> QED
    BY <1>2, <1>7, <2>2, <2>3 DEF Retrieved, TaskPoints, Stages
<1>8. ASSUME NEW n \in 0 .. MaxFindings, Judged(j, n)
      PROVE  DetectInv'
  <2> DEFINE r == Report("DONE", "none", job[j].claims, n)
  <2>1. job[j].claims /\ n # Null
    BY <1>0, <1>8 DEF Judged, Fits, Stages, Null
  <2>2. r \in Reports /\ Fits("saving", r)
    BY <1>0, <2>1, Typed DEF Report, Fits, Whole, Stages, Statuses
  <2>3. job' = [job EXCEPT ![j] = r] /\ task' = [task EXCEPT ![j] = "saving"]
    BY <1>8 DEF Judged
  <2> HIDE DEF r
  <2> QED
    BY <1>2, <1>8, <2>2, <2>3 DEF Judged, TaskPoints, Stages
<1>9. CASE SaveResult(j)
  <2>1. job[j].status = "DONE" /\ job[j].findings \in 0 .. MaxFindings /\ Fits("ended", job[j])
    BY <1>0, <1>9 DEF SaveResult, Fits, Whole, Stages
  <2>2. /\ task' = [task EXCEPT ![j] = "ended"] /\ job' = [job EXCEPT ![j] = job[j]]
        /\ UNCHANGED <<runs, restarts>>
    BY <1>9 DEF SaveResult, DetectInv, TypeOK
  <2>3. /\ job' \in [Jobs -> Reports] /\ task' \in [Jobs -> TaskPoints]
        /\ TaskFitsReport' /\ RunsCounted'
    BY <1>0, <1>1, <2>1, <2>2, MoveKeeps DEF TaskPoints, Stages
  <2>4. CASE UNCHANGED <<found, row>>
    BY <1>c, <2>2, <2>3, <2>4 DEF DetectInv, TypeOK, RowIsConsistent
  <2>5. CASE /\ found' = [found EXCEPT ![j] = FindingsOf(j)]
             /\ row' = [row EXCEPT ![j] = Row("DONE", TRUE, job[j].findings)]
    <3> DEFINE r == Row("DONE", TRUE, job[j].findings)
    <3>1. r \in Rows /\ r.status = "DONE" /\ r.claims /\ r.count = job[j].findings
      BY <2>1, Typed DEF Row, Statuses
    <3>2. row' = [row EXCEPT ![j] = r]
      BY <2>5
    <3> HIDE DEF r
    <3>3. runs[j] \in 1 .. runs[j] /\ runs'[j] = runs[j]
      BY <1>1, <2>2 DEF DetectInv, TypeOK, RunsCounted
    <3>4. row' \in [Jobs -> Rows] /\ row'[j] = r /\ \A k \in Jobs \ {j} : row'[k] = row[k]
      BY <3>1, <3>2 DEF DetectInv, TypeOK
    <3>5. FindingsOf(j) = {runs[j]} \X (1 .. r.count)
      BY <3>1 DEF FindingsOf
    <3>6. FindingsOf(j) \in SUBSET (Nat \X (1 .. MaxFindings))
      <4>1. 1 .. r.count \subseteq 1 .. MaxFindings /\ runs[j] \in Nat
        BY <2>1, <3>1 DEF DetectInv, TypeOK
      <4> QED
        BY <3>5, <4>1
    <3>7. /\ found' \in [Jobs -> SUBSET (Nat \X (1 .. MaxFindings))]
          /\ found'[j] = FindingsOf(j)
          /\ \A k \in Jobs \ {j} : found'[k] = found[k]
      BY <2>5, <3>6 DEF DetectInv, TypeOK
    <3>8. RowIsConsistent'
      BY <2>2, <3>1, <3>3, <3>4, <3>5, <3>7 DEF DetectInv, RowIsConsistent
    <3> QED
      BY <1>c, <2>2, <2>3, <3>4, <3>7, <3>8 DEF DetectInv, TypeOK
  <2> QED
    BY <1>9, <2>4, <2>5 DEF SaveResult
<1>10. CASE StageFails(j)
  <2>1. job[j].findings = Null
    BY <1>0, <1>10 DEF StageFails, Fits, Whole, Stages
  <2>2. Failed(j) \in Reports /\ Fits("erring", Failed(j))
    BY <1>0, <2>1, Typed DEF Failed, Report, Fits, Whole, Stages, Statuses
  <2> QED
    BY <1>2, <1>10, <2>2 DEF StageFails, TaskPoints
<1>11. CASE MarkError(j)
  <2>1. Fits("ended", job[j])
    BY <1>0, <1>11 DEF MarkError, Fits, Stages
  <2>2. Row("ERROR", FALSE, 0) \in Rows /\ Row("ERROR", FALSE, 0).status # "DONE"
    BY DEF Rows, Statuses, Row
  <2> QED
    BY <1>3, <1>11, <2>1, <2>2 DEF MarkError, TaskPoints
<1> QED
  BY <1>4, <1>5, <1>6, <1>7, <1>8, <1>9, <1>10, <1>11, <1>12, <1>13, <1>14 DEF TaskStep

\* A restart forgets the jobs; what the tables say stays.
LEMMA RestartKeeps == DetectInv /\ Restart => DetectInv'
<1> SUFFICES ASSUME DetectInv, Restart PROVE DetectInv'
  OBVIOUS
<1> USE DetectBounds DEF DetectInv, TypeOK, Restart
<1>1. job' \in [Jobs -> Reports] /\ task' \in [Jobs -> TaskPoints]
  BY Typed DEF TaskPoints
<1>2. TaskFitsReport'
  BY Typed DEF TaskFitsReport, Fits, Stages
<1>3. RunsCounted'
  <2> SUFFICES ASSUME NEW j \in Jobs PROVE runs[j] <= restarts + 1
    BY DEF RunsCounted
  <2> QED
    BY DEF RunsCounted
<1>4. RowIsConsistent'
  BY DEF RowIsConsistent
<1>5. asked' \in [Jobs -> 0 .. MaxPieces] /\ LeftOver'
  BY DEF LeftOver
<1> QED
  BY <1>1, <1>2, <1>3, <1>4, <1>5

\* The invariant is kept by every step.
LEMMA InvNext == DetectInv /\ [Next]_vars => DetectInv'
<1> SUFFICES ASSUME DetectInv, [Next]_vars PROVE DetectInv'
  OBVIOUS
<1>1. CASE UNCHANGED vars
  BY <1>1 DEF vars, DetectInv, TypeOK, TaskFitsReport, RunsCounted, LeftOver, RowIsConsistent
<1>2. CASE Next
  BY <1>2, SubmitKeeps, TaskKeeps, RestartKeeps DEF Next
<1> QED
  BY <1>1, <1>2

-----------------------------------------------------------------------------
\* The inductive invariant: types, what a task's place says of its report, how
\* often a job was run, whose calls are out, and that the tables agree with each
\* other.
THEOREM DetectInvariant == Spec => []DetectInv
BY InvInit, InvNext, PTL DEF Spec

\* Every reachable state is well typed.
THEOREM DetectTypes == Spec => []TypeOK
<1>1. DetectInv => TypeOK
  BY DEF DetectInv
<1> QED
  BY DetectInvariant, <1>1, PTL

\* A job is run at most once in each life of the process.
THEOREM OneRunPerLife == Spec => []RunOnce
<1>1. DetectInv => RunOnce
  <2> SUFFICES ASSUME DetectInv, NEW j \in Jobs PROVE runs[j] <= restarts + 1
    BY DEF RunOnce
  <2>1. runs[j] \in Nat /\ restarts \in Nat
    BY DetectBounds DEF DetectInv, TypeOK
  <2> QED
    BY <2>1 DEF DetectInv, RunsCounted
<1> QED
  BY DetectInvariant, <1>1, PTL

\* A poll sees DONE with its claims and findings, and findings only with DONE.
THEOREM ReportsAreWhole == Spec => []ReportIsWhole
<1>1. DetectInv => ReportIsWhole
  BY DEF DetectInv, TaskFitsReport, Fits, Whole, ReportIsWhole
<1> QED
  BY DetectInvariant, <1>1, PTL

\* A DONE row counts the findings stored with it, all of one run, and no
\* other row counts any, whichever writes failed and however often it was run.
THEOREM RowsAreConsistent == Spec => []RowIsConsistent
<1>1. DetectInv => RowIsConsistent
  BY DEF DetectInv
<1> QED
  BY DetectInvariant, <1>1, PTL

\* A final report stays until the process restarts.
THEOREM FinalIsFinal == Spec => FinalStays
<1>1. ASSUME DetectInv, [Next]_vars, NEW j \in Jobs, job[j].status \in {"DONE", "ERROR"},
             restarts' = restarts
      PROVE  job'[j] = job[j]
  <2>1. task[j] \in {"saving", "erring", "ended"}
    BY <1>1 DEF DetectInv, TypeOK, TaskFitsReport, Fits, TaskPoints, Stages, Unheard, Report
  <2>2. ASSUME NEW k \in Jobs, Submit(k)
        PROVE  job'[j] = job[j]
    BY <1>1, <2>2 DEF Submit, Unheard, Report, DetectInv, TypeOK
  <2>3. ASSUME NEW k \in Jobs, TaskStep(k)
        PROVE  job'[j] = job[j]
    BY <1>1, <2>1, <2>3 DEF TaskStep, Start, MarkRunning, AskPieces, CallEnds, PieceFails,
       Extracted, Retrieved, Judged, SaveResult, StageFails, MarkError, Stages, DetectInv, TypeOK
  <2>4. CASE Restart
    BY <1>1, <2>4, DetectBounds DEF Restart, DetectInv, TypeOK
  <2>5. CASE UNCHANGED vars
    BY <2>5 DEF vars
  <2> QED
    BY <1>1, <2>2, <2>3, <2>4, <2>5 DEF Next
<1>2. DetectInv /\ [Next]_vars
        => [\A j \in Jobs : job[j].status \in {"DONE", "ERROR"} /\ restarts' = restarts
              => job'[j] = job[j]]_vars
  BY <1>1
<1> QED
  BY DetectInvariant, <1>2, PTL DEF Spec, FinalStays
-----------------------------------------------------------------------------
(* The load: whoever is between its submission and its result is counted.  *)

GateHolds == IsFiniteSet(Running) /\ Cardinality(Running) <= MaxDetects

\* Nobody becomes unfinished except by a submission.
LEMMA OnlySubmitAdds ==
  ASSUME DetectInv, [Next]_vars, ~\E j \in Jobs : Submit(j)
  PROVE  Running' \subseteq Running
<1> SUFFICES ASSUME NEW j \in Jobs, job'[j].status \in {"QUEUED", "RUNNING"}
             PROVE  job[j].status \in {"QUEUED", "RUNNING"}
  BY DEF Running
<1>0. Fits(task[j], job[j]) /\ Whole(job[j])
  BY DEF DetectInv, TaskFitsReport, Fits
<1>1. ASSUME NEW k \in Jobs, TaskStep(k)
      PROVE  job[j].status \in {"QUEUED", "RUNNING"}
  <2>1. CASE k = j
    BY <1>0, <1>1, <2>1 DEF TaskStep, Start, MarkRunning, AskPieces, CallEnds, PieceFails,
       Extracted, Retrieved, Judged, SaveResult, StageFails, MarkError, Stages, DetectInv, TypeOK,
       Fits, Report
  <2>2. CASE k # j
    BY <1>1, <2>2 DEF TaskStep, Start, MarkRunning, AskPieces, CallEnds, PieceFails, Extracted,
       Retrieved, Judged, SaveResult, StageFails, MarkError, DetectInv, TypeOK
  <2> QED
    BY <2>1, <2>2
<1>2. CASE Restart
  BY <1>2 DEF Restart, Unheard, Report
<1>3. CASE UNCHANGED vars
  BY <1>3 DEF vars
<1> QED
  BY <1>1, <1>2, <1>3 DEF Next

\* A submission adds one, and only below the limit.
LEMMA SubmitAddsOne ==
  ASSUME DetectInv, GateHolds, NEW j \in Jobs, Submit(j)
  PROVE  GateHolds'
<1>1. Running' = Running \cup {j}
  BY DEF Submit, Running, Report, DetectInv, TypeOK
<1>2. /\ IsFiniteSet(Running \cup {j})
      /\ Cardinality(Running \cup {j}) <= Cardinality(Running) + 1
  <2>1. IsFiniteSet(Running) /\ Cardinality(Running) \in Nat
    BY FS_CardinalityType DEF GateHolds
  <2>2. /\ IsFiniteSet(Running \cup {j})
        /\ Cardinality(Running \cup {j}) =
             IF j \in Running THEN Cardinality(Running) ELSE Cardinality(Running) + 1
    BY <2>1, FS_AddElement
  <2> QED
    BY <2>1, <2>2
<1>3. Cardinality(Running) < MaxDetects /\ Cardinality(Running) \in Nat
  BY FS_CardinalityType DEF Submit, GateHolds
<1>4. Cardinality(Running \cup {j}) \in Nat
  BY <1>2, FS_CardinalityType
<1> QED
  BY <1>1, <1>2, <1>3, <1>4, DetectBounds DEF GateHolds

\* The unfinished checks never exceed the limit.
LEMMA GateNext == DetectInv /\ GateHolds /\ [Next]_vars => GateHolds'
<1> SUFFICES ASSUME DetectInv, GateHolds, [Next]_vars PROVE GateHolds'
  OBVIOUS
<1>1. CASE \E j \in Jobs : Submit(j)
  BY <1>1, SubmitAddsOne
<1>2. CASE ~\E j \in Jobs : Submit(j)
  <2>1. Running' \subseteq Running
    BY <1>2, OnlySubmitAdds
  <2>2. IsFiniteSet(Running') /\ Cardinality(Running') <= Cardinality(Running)
    BY <2>1, FS_Subset DEF GateHolds
  <2>3. Cardinality(Running') \in Nat /\ Cardinality(Running) \in Nat
    BY <2>2, FS_CardinalityType DEF GateHolds
  <2> QED
    BY <2>2, <2>3, DetectBounds DEF GateHolds
<1> QED
  BY <1>1, <1>2

\* Of the checks that have calls of the model out, at most MAX_CONCURRENT_DETECTS
\* have not failed, and they are all that can have the judge's call out.
THEOREM LoadStaysBounded == Spec => []LoadBounded
<1>1. Init => GateHolds
  <2> SUFFICES ASSUME Init PROVE GateHolds
    OBVIOUS
  <2>1. Running = {}
    BY DEF Init, Running, Unheard, Report
  <2> QED
    BY <2>1, FS_EmptySet, DetectBounds DEF GateHolds
<1>2. DetectInv /\ GateHolds => LoadBounded
  <2> SUFFICES ASSUME DetectInv, GateHolds PROVE LoadBounded
    OBVIOUS
  <2> DEFINE S == {j \in Jobs : Calling(j) /\ job[j].status # "ERROR"}
  <2>1. S \subseteq Running
    BY DEF DetectInv, TaskFitsReport, LeftOver, Calling, Fits, Running, Stages
  <2>4. {j \in Jobs : task[j] = "judge"} \subseteq S
    BY DEF DetectInv, TaskFitsReport, Calling, Fits, Stages
  <2>2. IsFiniteSet(S) /\ Cardinality(S) <= Cardinality(Running)
    BY <2>1, FS_Subset DEF GateHolds
  <2>3. Cardinality(S) \in Nat /\ Cardinality(Running) \in Nat
    BY <2>2, FS_CardinalityType DEF GateHolds
  <2> QED
    BY <2>2, <2>3, <2>4, DetectBounds DEF GateHolds, LoadBounded
<1> QED
  BY DetectInvariant, GateNext, <1>1, <1>2, PTL DEF Spec

-----------------------------------------------------------------------------
(* What the jobs' liveness rests on besides fairness: a task is never back  *)
(* where it was, and no unfinished job is without one.                      *)

\* The steps a task has before it at most, with n of its extraction calls out.
StepsLeft(t, n) ==
  n + CASE t = "created"  -> MaxPieces + 7
        [] t = "marking"  -> MaxPieces + 6
        [] t = "extract"  -> MaxPieces + 5
        [] t = "gather"   -> 4
        [] t = "retrieve" -> 3
        [] t = "judge"    -> 2
        [] t \in {"saving", "erring"} -> 1
        [] OTHER -> 0

\* A step of a task is one of those it had left, and of no other task.
StepIsCounted(j) ==
  /\ StepsLeft(task'[j], asked'[j]) < StepsLeft(task[j], asked[j])
  /\ \A k \in Jobs \ {j} : task'[k] = task[k] /\ asked'[k] = asked[k] /\ job'[k] = job[k]

LEMMA StepCounts ==
  ASSUME DetectInv, NEW j \in Jobs, TaskStep(j)
  PROVE  StepIsCounted(j)
<1>1. task \in [Jobs -> TaskPoints] /\ job \in [Jobs -> Reports] /\ asked \in [Jobs -> 0 .. MaxPieces]
  BY DEF DetectInv, TypeOK
<1>2. \A k \in Jobs \ {j} : task'[k] = task[k] /\ asked'[k] = asked[k] /\ job'[k] = job[k]
  BY <1>1 DEF TaskStep, Start, MarkRunning, AskPieces, CallEnds, PieceFails, Extracted, Retrieved,
     Judged, SaveResult, StageFails, MarkError
<1>3. \/ task[j] = "created" /\ task'[j] = "marking" /\ asked'[j] = asked[j]
      \/ task[j] = "marking" /\ task'[j] = "extract" /\ asked'[j] = asked[j]
      \/ task[j] = "extract" /\ task'[j] = "erring" /\ asked'[j] = asked[j]
      \/ task[j] = "extract" /\ task'[j] = "gather" /\ asked'[j] \in 0 .. MaxPieces
      \/ task'[j] = task[j] /\ asked'[j] = asked[j] - 1
      \/ task[j] = "gather" /\ task'[j] = "erring" /\ asked'[j] = asked[j] - 1
      \/ task[j] = "gather" /\ task'[j] = "retrieve" /\ asked'[j] = asked[j]
      \/ task[j] = "retrieve" /\ task'[j] \in {"judge", "erring"} /\ asked'[j] = asked[j]
      \/ task[j] = "judge" /\ task'[j] \in {"saving", "erring"} /\ asked'[j] = asked[j]
      \/ task[j] \in {"saving", "erring"} /\ task'[j] = "ended" /\ asked'[j] = asked[j]
  BY <1>1 DEF TaskStep, Start, MarkRunning, AskPieces, CallEnds, PieceFails, Extracted, Retrieved,
     Judged, SaveResult, StageFails, MarkError, Stages
<1>4. asked[j] \in Nat /\ MaxPieces \in Nat /\ task[j] \in TaskPoints
  BY <1>1, DetectBounds
<1>5. StepsLeft(task'[j], asked'[j]) < StepsLeft(task[j], asked[j])
  BY <1>3, <1>4 DEF StepsLeft, TaskPoints, Stages
<1> QED
  BY <1>2, <1>5 DEF StepIsCounted

\* A job that is told to be unfinished has a task that has steps to go, and a
\* task ends, its calls included, within MaxPieces + 7 steps, whatever fails and
\* whatever other jobs do: none is left behind unfinished with nobody to finish
\* it, and no call is out for ever.
THEOREM TasksAreFinite ==
  Spec => /\ [](\A j \in Jobs : job[j].status \in {"QUEUED", "RUNNING"}
                    => StepsLeft(task[j], asked[j]) \in 1 .. MaxPieces + 7)
          /\ [][\A j \in Jobs : TaskStep(j) => StepIsCounted(j)]_vars
<1> DEFINE Carried == \A j \in Jobs : job[j].status \in {"QUEUED", "RUNNING"}
                        => StepsLeft(task[j], asked[j]) \in 1 .. MaxPieces + 7
           Counted == \A j \in Jobs : TaskStep(j) => StepIsCounted(j)
<1>1. DetectInv => Carried
  <2> SUFFICES ASSUME DetectInv, NEW j \in Jobs, job[j].status \in {"QUEUED", "RUNNING"}
               PROVE  StepsLeft(task[j], asked[j]) \in 1 .. MaxPieces + 7
    OBVIOUS
  <2>1. task[j] \in {"created", "marking"} \cup Stages
    BY DEF DetectInv, TypeOK, TaskFitsReport, Fits, TaskPoints, Stages, Unheard, Report
  <2>2. asked[j] \in 0 .. MaxPieces /\ (task[j] # "gather" => asked[j] = 0)
    BY <2>1 DEF DetectInv, TypeOK, LeftOver, Stages
  <2> QED
    BY <2>1, <2>2, DetectBounds DEF StepsLeft, Stages
<1>2. DetectInv => Counted
  BY StepCounts
<1> HIDE DEF Carried, Counted
<1>3. Spec => []Carried
  BY <1>1, DetectInvariant, PTL
<1>4. DetectInv /\ [Next]_vars => [Counted]_vars
  BY <1>2
<1>5. Spec => [][Counted]_vars
  BY <1>4, DetectInvariant, PTL DEF Spec
<1> QED
  BY <1>3, <1>5 DEF Carried, Counted

=============================================================================
