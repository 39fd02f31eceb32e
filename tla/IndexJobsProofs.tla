--------------------------- MODULE IndexJobsProofs ---------------------------
(***************************************************************************)
(* Theorems about the indexing job service, for every set of novels and    *)
(* requests and every value of the bounds.                                 *)
(***************************************************************************)
EXTENDS IndexJobsProps, DataLemmas

\* The last complete chapter of a novel, 0 when it has none.
LEMMA LatestTyped ==
  ASSUME NEW S \in SUBSET Episodes
  PROVE  Latest(S) \in 0 .. MaxEpisode /\ \A n \in S : n <= Latest(S)
BY MaxOfChapters, BoundsAssumption DEF Episodes, Latest

\* When the graph has no hole, the last complete chapter is their number.
LEMMA LatestOfPrefix ==
  ASSUME NEW k \in Nat
  PROVE  Latest(1 .. k) = k
BY MaxOfPrefix DEF Latest

\* A handler with no request is well typed.
LEMMA NoCallTyped == NoCall \in CallRecord /\ NoCall.phase = "none"
BY BoundsAssumption DEF NoCall, Asking, CallRecord

\* The state is well typed from the start.
LEMMA InitTyped == Init => TypeOK
<1> SUFFICES ASSUME Init PROVE TypeOK
  OBVIOUS
<1> USE BoundsAssumption
<1>1. marked \in [Tenants -> SUBSET Episodes]
  BY DEF Init, Episodes
<1>2. /\ owner \in [JobIds -> Tenants \cup {NoTenant}]
      /\ status \in [JobIds -> [Episodes -> EpisodeStatus \cup {"ABSENT"}]]
      /\ text \in [JobIds -> SUBSET Episodes]
      /\ queue \in Seq(JobIds)
      /\ issued \in 0 .. MaxJobs
      /\ restarts \in 0 .. MaxRestarts
  BY DEF Init
<1>3. /\ worker.phase = "idle"
      /\ worker \in WorkerRecord
  BY DEF Init, Idle, At, WorkerRecord
<1>4. /\ call \in [Handlers -> CallRecord]
      /\ \A h \in Handlers : call[h].phase = "none"
  BY NoCallTyped DEF Init
<1> QED
  BY <1>1, <1>2, <1>3, <1>4 DEF TypeOK, Working

\* No step spoils the types.
LEMMA NextTyped == TypeOK /\ [Next]_vars => TypeOK'
<1> SUFFICES ASSUME TypeOK, [Next]_vars PROVE TypeOK'
  OBVIOUS
<1> USE BoundsAssumption DEF TypeOK, Working, jobVars
<1>1. ASSUME NEW h \in Handlers, NEW t \in Tenants, NEW nos \in SUBSET Episodes,
             SubmitBegin(h, t, nos)
      PROVE  TypeOK'
  <2> DEFINE c == Asking("asked", t, nos, {}, 0)
  <2>1. c \in CallRecord /\ c.tenant = t
    BY DEF CallRecord, Asking
  <2>2. call' = [call EXCEPT ![h] = c]
    BY <1>1 DEF SubmitBegin
  <2> HIDE DEF c
  <2> QED
    BY <1>1, <2>1, <2>2 DEF SubmitBegin
<1>2. ASSUME NEW h \in Handlers, SubmitRead(h)
      PROVE  TypeOK'
  <2>1. PICK r \in AlreadyIndexed(call[h].tenant, call[h].nos, SubmitReadMayFail) :
          call' = [call EXCEPT ![h] = Asking("read", @.tenant, @.nos, r.indexed, r.latest)]
    BY <1>2 DEF SubmitRead
  <2>2. call[h].tenant \in Tenants /\ call[h].nos \in SUBSET Episodes
    BY <1>2 DEF SubmitRead, CallRecord
  <2>3. r.indexed \in SUBSET Episodes /\ r.latest \in {Unknown} \cup (0 .. MaxEpisode)
    BY <2>2, LatestTyped DEF AlreadyIndexed
  <2> DEFINE c == Asking("read", call[h].tenant, call[h].nos, r.indexed, r.latest)
  <2>4. c \in CallRecord /\ c.tenant \in Tenants
    BY <2>2, <2>3 DEF CallRecord, Asking
  <2>5. call' = [call EXCEPT ![h] = c]
    BY <2>1
  <2> HIDE DEF c
  <2> QED
    BY <1>2, <2>4, <2>5 DEF SubmitRead
<1>3. ASSUME NEW h \in Handlers, Refuse(h)
      PROVE  TypeOK'
  BY <1>3, NoCallTyped DEF Refuse
<1>4. ASSUME NEW h \in Handlers, SubmitAccept(h)
      PROVE  TypeOK'
  <2> DEFINE c == call[h]
             j == issued + 1
             fresh == [n \in Episodes |-> IF n \notin c.nos THEN "ABSENT"
                                          ELSE IF n \in c.indexed THEN "DONE"
                                          ELSE "QUEUED"]
  <2>1. /\ c.tenant \in Tenants /\ c.nos \in SUBSET Episodes
        /\ j \in JobIds /\ j \in 0 .. MaxJobs
    BY <1>4 DEF SubmitAccept, JobIds, CallRecord
  <2>2. fresh \in [Episodes -> EpisodeStatus \cup {"ABSENT"}]
    BY DEF EpisodeStatus
  <2>3. /\ issued' = j
        /\ owner' = [owner EXCEPT ![j] = c.tenant]
        /\ status' = [status EXCEPT ![j] = fresh]
        /\ text' = [text EXCEPT ![j] = c.nos]
        /\ queue' = Append(queue, j)
        /\ call' = [call EXCEPT ![h] = NoCall]
        /\ UNCHANGED <<marked, worker, restarts>>
    BY <1>4 DEF SubmitAccept
  <2> HIDE DEF c, j, fresh
  <2>4. queue' \in Seq(JobIds) /\ status' \in [JobIds -> [Episodes -> EpisodeStatus \cup {"ABSENT"}]]
    BY <2>1, <2>2, <2>3
  <2> QED
    BY <2>1, <2>3, <2>4, NoCallTyped
<1>5. CASE WorkerTake
  <2>1. Head(queue) \in JobIds /\ Tail(queue) \in Seq(JobIds)
    BY <1>5 DEF WorkerTake
  <2> QED
    BY <1>5, <2>1 DEF WorkerTake, JobIds, At, WorkerRecord
<1>6. CASE WorkerFinishJob
  BY <1>6 DEF WorkerFinishJob, Idle, At, WorkerRecord
<1>7. ASSUME NEW n \in Episodes, WorkerAlreadyDone(n)
      PROVE  TypeOK'
  BY <1>7 DEF WorkerAlreadyDone, EpisodeStatus
<1>8. ASSUME NEW j \in JobIds, NEW n \in Episodes
      PROVE  FailedFrom(j, n) \in [Episodes -> EpisodeStatus \cup {"ABSENT"}]
  BY DEF FailedFrom, EpisodeStatus
<1>9. ASSUME NEW n \in Episodes, WorkerOutOfOrder(n)
      PROVE  TypeOK'
  <2>1. FailedFrom(worker.job, n) \in [Episodes -> EpisodeStatus \cup {"ABSENT"}]
    BY <1>8, <1>9 DEF WorkerOutOfOrder, Looking
  <2> QED
    BY <1>9, <2>1 DEF WorkerOutOfOrder
<1>10. ASSUME NEW n \in Episodes, WorkerStart(n)
       PROVE  TypeOK'
  <2>1. worker' \in WorkerRecord /\ worker'.job = worker.job /\ worker'.episode = n
    BY <1>10 DEF WorkerStart, WorkerRecord, At, Episodes
  <2> QED
    BY <1>10, <2>1 DEF WorkerStart, Looking, EpisodeStatus
<1>11. CASE IndexingMarks
  <2>1. /\ worker' \in WorkerRecord /\ worker'.job = worker.job
        /\ worker.phase = "running" /\ worker'.episode = worker.episode
    BY <1>11 DEF IndexingMarks, WorkerRecord, At
  <2> QED
    BY <1>11, <2>1 DEF IndexingMarks, EpisodeStatus, WorkerRecord
<1>12. CASE IndexingSucceeds
  <2>1. /\ worker' \in WorkerRecord /\ worker'.job = worker.job
        /\ worker.phase = "marked" /\ worker'.phase = "between"
    BY <1>12 DEF IndexingSucceeds, WorkerRecord, At
  <2> QED
    BY <1>12, <2>1 DEF IndexingSucceeds, EpisodeStatus, WorkerRecord
<1>13. CASE IndexingFails
  <2>1. FailedFrom(worker.job, worker.episode) \in [Episodes -> EpisodeStatus \cup {"ABSENT"}]
    BY <1>8, <1>13 DEF IndexingFails
  <2>2. /\ worker' \in WorkerRecord /\ worker'.job = worker.job
        /\ worker.phase # "idle" /\ worker'.phase = "between"
    BY <1>13 DEF IndexingFails, WorkerRecord, At
  <2> QED
    BY <1>13, <2>1, <2>2 DEF IndexingFails, WorkerRecord
<1>14. CASE Restart
  BY <1>14, NoCallTyped DEF Restart, Idle, At, WorkerRecord
<1>15. CASE UNCHANGED vars
  BY <1>15 DEF vars
<1> QED
  BY <1>1, <1>2, <1>3, <1>4, <1>5, <1>6, <1>7, <1>9, <1>10, <1>11, <1>12, <1>13, <1>14, <1>15
  DEF Next, HandlerStep, WorkerStep, SubmitReject, SubmitQueueFull, SubmitModelLimit

\* Type correctness of the indexing job service.
THEOREM TypeCorrect == Spec => []TypeOK
<1>1. TypeOK /\ [Next]_vars => TypeOK'
  BY NextTyped
<1> QED
  BY InitTyped, <1>1, PTL DEF Spec

-----------------------------------------------------------------------------
(* The inductive invariant.  NoGap and DoneIsMarked are not inductive: they *)
(* need to know whose jobs the queue and the worker hold, what the waiting  *)
(* requests have seen, and what the worker is about to write.               *)

\* The queue and the worker hold jobs this process issued.
HeldIsIssued ==
  /\ \A i \in DOMAIN queue : queue[i] <= issued /\ owner[queue[i]] \in Tenants
  /\ worker.phase # "idle" => worker.job <= issued /\ owner[worker.job] \in Tenants

\* A job id not issued yet has no chapters.
UnissuedIsEmpty ==
  \A j \in JobIds, n \in Episodes : j > issued => status[j][n] = "ABSENT"

\* What a request saw complete still is.
SeenIsMarked ==
  \A h \in Handlers :
    call[h].phase = "read" => call[h].indexed \subseteq marked[call[h].tenant]

\* What is RUNNING is what the worker runs.
RunningIsWorkers ==
  \A j \in JobIds, n \in Episodes :
    status[j][n] = "RUNNING" <=> Working /\ worker.job = j /\ worker.episode = n

\* DoneIsMarked, with the owner a novel.
DoneIsOwned ==
  \A j \in JobIds, n \in Episodes :
    status[j][n] = "DONE" => owner[j] \in Tenants /\ n \in marked[owner[j]]

\* After the marker write the marker is there.
WrittenIsMarked ==
  worker.phase = "marked" => worker.episode \in marked[owner[worker.job]]

\* Past a failed chapter of a job nothing is left to do.
FailedIsLast ==
  \A j \in JobIds, m \in Episodes, n \in Episodes :
    status[j][m] = "ERROR" /\ m < n => status[j][n] \notin Unfinished

JobsInv ==
  /\ HeldIsIssued
  /\ UnissuedIsEmpty
  /\ SeenIsMarked
  /\ RunningIsWorkers
  /\ DoneIsOwned
  /\ WrittenIsMarked
  /\ FailedIsLast

LEMMA JobsInvInit == Init => JobsInv
<1> SUFFICES ASSUME Init PROVE JobsInv
  OBVIOUS
<1>1. /\ queue = <<>> /\ worker.phase = "idle"
      /\ \A j \in JobIds, n \in Episodes : status[j][n] = "ABSENT"
      /\ \A h \in Handlers : call[h].phase = "none"
  BY NoCallTyped DEF Init, Idle, At
<1> QED
  BY <1>1 DEF JobsInv, HeldIsIssued, UnissuedIsEmpty, SeenIsMarked, RunningIsWorkers,
              DoneIsOwned, WrittenIsMarked, FailedIsLast, Working, Unfinished

LEMMA JobsInvNext == TypeOK /\ JobsInv /\ [Next]_vars => JobsInv'
<1> SUFFICES ASSUME TypeOK, JobsInv, [Next]_vars PROVE JobsInv'
  OBVIOUS
<1> USE BoundsAssumption DEF TypeOK, Working, jobVars, JobsInv, HeldIsIssued, UnissuedIsEmpty,
              SeenIsMarked, RunningIsWorkers, DoneIsOwned, WrittenIsMarked, FailedIsLast
<1>1. ASSUME NEW h \in Handlers, NEW t \in Tenants, NEW nos \in SUBSET Episodes,
             SubmitBegin(h, t, nos)
      PROVE  JobsInv'
  <2>1. SeenIsMarked'
    BY <1>1 DEF SubmitBegin, Asking
  <2> QED
    BY <1>1, <2>1 DEF SubmitBegin
<1>2. ASSUME NEW h \in Handlers, SubmitRead(h)
      PROVE  JobsInv'
  <2>1. SeenIsMarked'
    BY <1>2 DEF SubmitRead, Asking, AlreadyIndexed, CallRecord
  <2> QED
    BY <1>2, <2>1 DEF SubmitRead
<1>3. ASSUME NEW h \in Handlers, Refuse(h)
      PROVE  JobsInv'
  <2>1. SeenIsMarked'
    BY <1>3, NoCallTyped DEF Refuse
  <2> QED
    BY <1>3, <2>1 DEF Refuse
<1>4. ASSUME NEW h \in Handlers, SubmitAccept(h)
      PROVE  JobsInv'
  <2> DEFINE c == call[h]
             j == issued + 1
  <2>1. j \in JobIds /\ c.tenant \in Tenants /\ c.indexed \subseteq marked[c.tenant]
    BY <1>4 DEF SubmitAccept
  <2>2. HeldIsIssued'
    BY <1>4, <2>1 DEF SubmitAccept, JobIds, WorkerRecord
  <2>3. UnissuedIsEmpty'
    BY <1>4, <2>1 DEF SubmitAccept, JobIds
  <2>4. SeenIsMarked'
    BY <1>4, NoCallTyped DEF SubmitAccept
  <2>5. RunningIsWorkers'
    BY <1>4, <2>1 DEF SubmitAccept, JobIds
  <2>6. DoneIsOwned'
    BY <1>4, <2>1 DEF SubmitAccept, JobIds
  <2>7. WrittenIsMarked'
    BY <1>4, <2>1 DEF SubmitAccept, JobIds
  <2>8. FailedIsLast'
    BY <1>4, <2>1 DEF SubmitAccept, Unfinished
  <2> QED
    BY <2>2, <2>3, <2>4, <2>5, <2>6, <2>7, <2>8
<1>5. CASE WorkerTake
  <2>1. HeldIsIssued'
    BY <1>5 DEF WorkerTake, At
  <2> QED
    BY <1>5, <2>1 DEF WorkerTake, At
<1>6. CASE WorkerFinishJob
  BY <1>6 DEF WorkerFinishJob, Idle, At
<1>7. ASSUME NEW n \in Episodes, WorkerAlreadyDone(n)
      PROVE  JobsInv'
  <2>1. n \in marked[owner[worker.job]] /\ worker.job \in JobIds
    BY <1>7 DEF WorkerAlreadyDone, Looking, Looks, AlreadyIndexed
  <2> QED
    BY <1>7, <2>1 DEF WorkerAlreadyDone, Looking, ToDo, Unfinished
<1>8. ASSUME NEW n \in Episodes, WorkerOutOfOrder(n)
      PROVE  JobsInv'
  <2>1. worker.job \in JobIds /\ status[worker.job][n] = "QUEUED"
    BY <1>8 DEF WorkerOutOfOrder, Looking, ToDo
  <2>2. \A j \in JobIds, m \in Episodes :
          status'[j][m] = IF j = worker.job /\ (m = n \/ (m > n /\ status[j][m] = "QUEUED"))
                            THEN "ERROR" ELSE status[j][m]
    BY <1>8, <2>1 DEF WorkerOutOfOrder, FailedFrom
  <2>3. UNCHANGED <<marked, owner, queue, issued, worker, call>> /\ worker.phase = "between"
    BY <1>8 DEF WorkerOutOfOrder, Looking
  <2>4. UnissuedIsEmpty'
    BY <2>1, <2>2, <2>3
  <2>5. RunningIsWorkers'
    BY <2>1, <2>2, <2>3 DEF EpisodeStatus
  <2>6. DoneIsOwned'
    BY <2>1, <2>2, <2>3
  <2>7. FailedIsLast'
    <3> SUFFICES ASSUME NEW j \in JobIds, NEW a \in Episodes, NEW b \in Episodes,
                        status'[j][a] = "ERROR", a < b
                 PROVE  status'[j][b] \notin Unfinished
      OBVIOUS
    <3>1. a \in Int /\ b \in Int /\ n \in Int
      BY <2>1 DEF Episodes
    <3>2. CASE status[j][a] = "ERROR"
      BY <2>2, <3>2 DEF Unfinished
    <3>3. CASE status[j][a] # "ERROR"
      <4>1. j = worker.job /\ b > n
        BY <2>2, <3>1, <3>3
      <4>2. status[j][b] # "RUNNING"
        BY <2>3, <3>1, <4>1
      <4>3. status'[j][b] = IF status[j][b] = "QUEUED" THEN "ERROR" ELSE status[j][b]
        BY <2>2, <3>1, <4>1
      <4> QED
        BY <4>2, <4>3 DEF Unfinished
    <3> QED
      BY <3>2, <3>3
  <2> QED
    BY <2>1, <2>3, <2>4, <2>5, <2>6, <2>7
<1>9. ASSUME NEW n \in Episodes, WorkerStart(n)
      PROVE  JobsInv'
  BY <1>9 DEF WorkerStart, Looking, ToDo, Unfinished, At
<1>10. CASE IndexingMarks
  BY <1>10 DEF IndexingMarks, At
<1>11. CASE IndexingSucceeds
  BY <1>11 DEF IndexingSucceeds, At, Unfinished
<1>12. CASE IndexingFails
  <2> DEFINE n == worker.episode
  <2>1. worker.job \in JobIds /\ n \in Episodes /\ status[worker.job][n] = "RUNNING"
    BY <1>12 DEF IndexingFails
  <2>2. \A j \in JobIds, m \in Episodes :
          status'[j][m] = IF j = worker.job /\ (m = n \/ (m > n /\ status[j][m] = "QUEUED"))
                            THEN "ERROR" ELSE status[j][m]
    BY <1>12, <2>1 DEF IndexingFails, FailedFrom
  <2>3. /\ UNCHANGED <<marked, owner, queue, issued, call>>
        /\ worker'.phase = "between" /\ worker'.job = worker.job
    BY <1>12 DEF IndexingFails, At
  <2>4. UnissuedIsEmpty'
    BY <2>1, <2>2, <2>3
  <2>5. RunningIsWorkers'
    BY <2>1, <2>2, <2>3 DEF EpisodeStatus
  <2>6. DoneIsOwned'
    BY <2>1, <2>2, <2>3
  <2>7. FailedIsLast'
    <3> SUFFICES ASSUME NEW j \in JobIds, NEW a \in Episodes, NEW b \in Episodes,
                        status'[j][a] = "ERROR", a < b
                 PROVE  status'[j][b] \notin Unfinished
      OBVIOUS
    <3>1. a \in Int /\ b \in Int /\ n \in Int
      BY <2>1 DEF Episodes
    <3>2. CASE status[j][a] = "ERROR"
      BY <2>2, <3>2 DEF Unfinished
    <3>3. CASE status[j][a] # "ERROR"
      <4>1. j = worker.job /\ b > n
        BY <2>2, <3>1, <3>3
      <4>2. status[j][b] # "RUNNING"
        BY <2>3, <3>1, <4>1
      <4>3. status'[j][b] = IF status[j][b] = "QUEUED" THEN "ERROR" ELSE status[j][b]
        BY <2>2, <3>1, <4>1
      <4> QED
        BY <4>2, <4>3 DEF Unfinished
    <3> QED
      BY <3>2, <3>3
  <2> QED
    BY <2>1, <2>3, <2>4, <2>5, <2>6, <2>7
<1>13. CASE Restart
  BY <1>13, NoCallTyped DEF Restart, Idle, At
<1>14. CASE UNCHANGED vars
  BY <1>14 DEF vars
<1> QED
  BY <1>1, <1>2, <1>3, <1>4, <1>5, <1>6, <1>7, <1>8, <1>9, <1>10, <1>11, <1>12, <1>13, <1>14
  DEF Next, HandlerStep, WorkerStep, SubmitReject, SubmitQueueFull, SubmitModelLimit

\* The inductive invariant holds.
THEOREM JobsInvariant == Spec => []JobsInv
<1>1. TypeOK /\ JobsInv /\ [Next]_vars => JobsInv'
  BY JobsInvNext
<1> QED
  BY JobsInvInit, TypeCorrect, <1>1, PTL DEF Spec

\* No chapter is taken for done that is not complete in the graph: _already_indexed
\* may be wrong about what is missing, never about what is there.
THEOREM DoneIsComplete == Spec => []DoneIsMarked
<1>1. JobsInv => DoneIsMarked
  BY DEF JobsInv, DoneIsOwned, DoneIsMarked
<1> QED
  BY <1>1, JobsInvariant, PTL

-----------------------------------------------------------------------------
(* The order of the chapters, for a worker that can read the markers.       *)

\* The chapter being indexed is the one after the last complete one.
NextUp ==
  worker.phase = "running" =>
    worker.episode = Latest(marked[owner[worker.job]]) + 1

\* The worker starts a chapter only on a graph that ends right before it.
LEMMA StartsNext ==
  ASSUME ~WorkerReadMayFail, TypeOK, JobsInv, NEW n \in Episodes, WorkerStart(n)
  PROVE  n = Latest(marked[owner[worker.job]]) + 1
<1> DEFINE t == owner[worker.job]
<1>1. t \in Tenants /\ marked[t] \in SUBSET Episodes
  BY DEF TypeOK, JobsInv, HeldIsIssued, WorkerStart, Looking
<1>2. ~MustWait(n, Latest(marked[t]))
  BY DEF WorkerStart, Looks, AlreadyIndexed
<1>3. Latest(marked[t]) # Unknown
  BY <1>1, LatestTyped, BoundsAssumption DEF Unknown
<1> QED
  BY <1>2, <1>3 DEF MustWait

\* Writing the marker of the next chapter leaves no hole.
LEMMA MarksNext ==
  ASSUME TypeOK, JobsInv, NoGap, NextUp, IndexingMarks
  PROVE  NoGap'
<1> DEFINE t == owner[worker.job]
           k == Latest(marked[t])
<1>1. t \in Tenants /\ worker.episode = k + 1 /\ marked[t] = 1 .. k
  BY DEF JobsInv, HeldIsIssued, IndexingMarks, NextUp, NoGap
<1>2. k \in Nat
  BY <1>1, LatestTyped, BoundsAssumption DEF TypeOK
<1>3. marked' = [marked EXCEPT ![t] = (1 .. k) \cup {k + 1}]
  BY <1>1 DEF IndexingMarks
<1> HIDE DEF k, t
<1>4. (1 .. k) \cup {k + 1} = 1 .. (k + 1)
  BY <1>2
<1>5. Latest(1 .. (k + 1)) = k + 1
  BY <1>2, LatestOfPrefix
<1>6. ASSUME NEW u \in Tenants
      PROVE  marked'[u] = 1 .. Latest(marked'[u])
  <2>1. CASE u = t
    BY <2>1, <1>3, <1>4, <1>5 DEF TypeOK
  <2>2. CASE u # t
    <3>1. marked'[u] = marked[u]
      BY <2>2, <1>3 DEF TypeOK
    <3> QED
      BY <3>1 DEF NoGap
  <2> QED
    BY <2>1, <2>2
<1> QED
  BY <1>6 DEF NoGap

LEMMA OrderInit == Init => NoGap /\ NextUp
<1> SUFFICES ASSUME Init PROVE NoGap
  BY DEF Init, Idle, At, NextUp
<1> SUFFICES ASSUME NEW t \in Tenants
             PROVE  marked[t] = 1 .. Latest(marked[t])
  BY DEF NoGap
<1>1. PICK k \in 0 .. MaxEpisode : marked[t] = 1 .. k
  BY DEF Init
<1>2. k \in Nat
  BY BoundsAssumption
<1> QED
  BY <1>1, <1>2, LatestOfPrefix

LEMMA OrderNext ==
  ASSUME ~WorkerReadMayFail
  PROVE  TypeOK /\ JobsInv /\ NoGap /\ NextUp /\ [Next]_vars => NoGap' /\ NextUp'
<1> SUFFICES ASSUME TypeOK, JobsInv, NoGap, NextUp, [Next]_vars
             PROVE  NoGap' /\ NextUp'
  OBVIOUS
<1>1. ASSUME UNCHANGED <<marked, worker>>,
             worker.phase # "idle" => UNCHANGED owner[worker.job]
      PROVE  NoGap' /\ NextUp'
  BY <1>1 DEF NoGap, NextUp
<1>2. ASSUME NEW h \in Handlers, NEW t \in Tenants, NEW nos \in SUBSET Episodes,
             SubmitBegin(h, t, nos)
      PROVE  NoGap' /\ NextUp'
  BY <1>1, <1>2 DEF SubmitBegin, jobVars
<1>3. ASSUME NEW h \in Handlers, SubmitRead(h) \/ Refuse(h)
      PROVE  NoGap' /\ NextUp'
  BY <1>1, <1>3 DEF SubmitRead, Refuse, jobVars
<1>4. ASSUME NEW h \in Handlers, SubmitAccept(h)
      PROVE  NoGap' /\ NextUp'
  <2>1. worker.phase # "idle" => UNCHANGED owner[worker.job]
    BY <1>4 DEF SubmitAccept, TypeOK, JobsInv, HeldIsIssued, JobIds
  <2> QED
    BY <1>1, <1>4, <2>1 DEF SubmitAccept
<1>5. ASSUME UNCHANGED marked, worker'.phase # "running"
      PROVE  NoGap' /\ NextUp'
  BY <1>5 DEF NoGap, NextUp
<1>6. CASE WorkerTake \/ WorkerFinishJob
  BY <1>5, <1>6 DEF WorkerTake, WorkerFinishJob, Idle, At
<1>7. ASSUME NEW n \in Episodes, WorkerAlreadyDone(n) \/ WorkerOutOfOrder(n)
      PROVE  NoGap' /\ NextUp'
  BY <1>1, <1>7 DEF WorkerAlreadyDone, WorkerOutOfOrder
<1>8. ASSUME NEW n \in Episodes, WorkerStart(n)
      PROVE  NoGap' /\ NextUp'
  <2>1. n = Latest(marked[owner[worker.job]]) + 1
    BY <1>8, StartsNext
  <2>2. UNCHANGED <<marked, owner>> /\ worker' = At("running", worker.job, n)
    BY <1>8 DEF WorkerStart
  <2> QED
    BY <2>1, <2>2 DEF NoGap, NextUp, At
<1>9. CASE IndexingMarks
  <2>1. worker'.phase # "running"
    BY <1>9 DEF IndexingMarks, At
  <2> QED
    BY <1>9, <2>1, MarksNext DEF NextUp
<1>10. CASE IndexingSucceeds \/ IndexingFails
  BY <1>5, <1>10 DEF IndexingSucceeds, IndexingFails, At
<1>11. CASE Restart
  BY <1>5, <1>11 DEF Restart, Idle, At
<1>12. CASE UNCHANGED vars
  BY <1>1, <1>12 DEF vars
<1> QED
  BY <1>2, <1>3, <1>4, <1>6, <1>7, <1>8, <1>9, <1>10, <1>11, <1>12
  DEF Next, HandlerStep, WorkerStep, SubmitReject, SubmitQueueFull, SubmitModelLimit

\* The order invariant holds.
THEOREM OrderInvariant ==
  ASSUME ~WorkerReadMayFail
  PROVE  Spec => [](NoGap /\ NextUp)
<1>1. TypeOK /\ JobsInv /\ NoGap /\ NextUp /\ [Next]_vars => NoGap' /\ NextUp'
  BY OrderNext
<1> QED
  BY OrderInit, TypeCorrect, JobsInvariant, <1>1, PTL DEF Spec

\* A novel's graph never has a hole, as long as the worker can read the
\* markers; what the requests read may be stale or missing.
THEOREM GraphHasNoGap ==
  ASSUME ~WorkerReadMayFail
  PROVE  Spec => []NoGap
BY OrderInvariant, PTL

-----------------------------------------------------------------------------
(* The service implements the ledger.                                       *)

LEMMA LedgerStarts == Init => Ledger!LedgerInit
<1> SUFFICES ASSUME Init PROVE Ledger!LedgerInit
  OBVIOUS
<1>1. worker.phase # "running" /\ marked \in [Tenants -> {1 .. k : k \in 0 .. MaxEpisode}]
  BY DEF Init, Idle, At
<1> QED
  BY <1>1 DEF Ledger!LedgerInit, Writing

\* Every step of the service is a step of the ledger or leaves it as it is.
LEMMA LedgerSteps ==
  ASSUME ~WorkerReadMayFail
  PROVE  TypeOK /\ JobsInv /\ NoGap /\ NextUp /\ [Next]_vars
           => [Ledger!LedgerNext]_<<marked, Writing>>
<1> SUFFICES ASSUME TypeOK, JobsInv, NoGap, NextUp, [Next]_vars
             PROVE  Ledger!LedgerNext \/ UNCHANGED <<marked, Writing>>
  OBVIOUS
<1>0. ASSUME UNCHANGED marked, worker.phase # "running", worker'.phase # "running"
      PROVE  UNCHANGED <<marked, Writing>>
  BY <1>0 DEF Writing
<1>1. ASSUME UNCHANGED <<marked, worker>>,
             worker.phase # "idle" => UNCHANGED owner[worker.job]
      PROVE  UNCHANGED <<marked, Writing>>
  BY <1>1 DEF Writing
<1>2. ASSUME NEW h \in Handlers, NEW t \in Tenants, NEW nos \in SUBSET Episodes,
             SubmitBegin(h, t, nos)
      PROVE  UNCHANGED <<marked, Writing>>
  BY <1>1, <1>2 DEF SubmitBegin, jobVars
<1>3. ASSUME NEW h \in Handlers, SubmitRead(h) \/ Refuse(h)
      PROVE  UNCHANGED <<marked, Writing>>
  BY <1>1, <1>3 DEF SubmitRead, Refuse, jobVars
<1>4. ASSUME NEW h \in Handlers, SubmitAccept(h)
      PROVE  UNCHANGED <<marked, Writing>>
  <2>1. worker.phase # "idle" => UNCHANGED owner[worker.job]
    BY <1>4 DEF SubmitAccept, TypeOK, JobsInv, HeldIsIssued, JobIds
  <2> QED
    BY <1>1, <1>4, <2>1 DEF SubmitAccept
<1>5. CASE WorkerTake \/ WorkerFinishJob
  BY <1>0, <1>5 DEF WorkerTake, WorkerFinishJob, Idle, At
<1>6. ASSUME NEW n \in Episodes, WorkerAlreadyDone(n) \/ WorkerOutOfOrder(n)
      PROVE  UNCHANGED <<marked, Writing>>
  BY <1>1, <1>6 DEF WorkerAlreadyDone, WorkerOutOfOrder
<1>7. ASSUME NEW n \in Episodes, WorkerStart(n)
      PROVE  Ledger!LedgerNext
  <2> DEFINE t == owner[worker.job]
  <2>1. t \in Tenants /\ worker.phase = "between" /\ n \in 1 .. MaxEpisode
    BY <1>7 DEF JobsInv, HeldIsIssued, WorkerStart, Looking, Episodes
  <2>2. n = Latest(marked[t]) + 1 /\ Latest(marked[t]) \in 0 .. MaxEpisode
    BY <1>7, <2>1, StartsNext, LatestTyped DEF TypeOK
  <2>3. marked[t] = 1 .. (n - 1)
    BY <2>1, <2>2, BoundsAssumption DEF NoGap
  <2>4. Writing = <<>> /\ Writing' = <<t, n>> /\ UNCHANGED marked
    BY <1>7, <2>1 DEF WorkerStart, Writing, At
  <2> QED
    BY <2>1, <2>3, <2>4 DEF Ledger!LedgerNext, Ledger!Begin
<1>8. CASE IndexingMarks
  <2> DEFINE t == owner[worker.job]
             n == worker.episode
  <2>1. Writing = <<t, n>> /\ Writing' = <<>>
    BY <1>8 DEF IndexingMarks, Writing, At
  <2>2. marked' = [marked EXCEPT ![Writing[1]] = @ \cup {Writing[2]}] /\ Writing # <<>>
    BY <1>8, <2>1 DEF IndexingMarks
  <2> QED
    BY <2>1, <2>2 DEF Ledger!LedgerNext, Ledger!Commit
<1>9. CASE IndexingSucceeds
  BY <1>0, <1>9 DEF IndexingSucceeds, At
<1>10. CASE IndexingFails \/ Restart
  <2>1. UNCHANGED marked /\ worker'.phase # "running"
    BY <1>10 DEF IndexingFails, Restart, Idle, At
  <2>2. CASE worker.phase = "running"
    BY <2>1, <2>2 DEF Ledger!LedgerNext, Ledger!Abandon, Writing
  <2>3. CASE worker.phase # "running"
    BY <2>1, <2>3, <1>0
  <2> QED
    BY <2>2, <2>3
<1>11. CASE UNCHANGED vars
  BY <1>1, <1>11 DEF vars
<1> QED
  BY <1>2, <1>3, <1>4, <1>5, <1>6, <1>7, <1>8, <1>9, <1>10, <1>11
  DEF Next, HandlerStep, WorkerStep, SubmitReject, SubmitQueueFull, SubmitModelLimit

\* With a worker that can read the markers the service implements the
\* ledger: one chapter at a time over all novels, always the next one, none
\* twice, and a chapter enters the graph's ledger in one write.
THEOREM ServiceImplementsLedger ==
  ASSUME ~WorkerReadMayFail
  PROVE  Spec => ImplementsLedger
<1>1. TypeOK /\ JobsInv /\ NoGap /\ NextUp /\ [Next]_vars
        => [Ledger!LedgerNext]_<<marked, Writing>>
  BY LedgerSteps
<1> QED
  BY LedgerStarts, TypeCorrect, JobsInvariant, OrderInvariant, <1>1, PTL
  DEF Spec, ImplementsLedger, Ledger!LedgerSpec, Ledger!ledgerVars

-----------------------------------------------------------------------------
(* What a poll of a job shows.                                              *)

\* A failure changes no chapter of the job that is settled.
LEMMA FailedFromSettled ==
  ASSUME NEW k \in JobIds, NEW m \in Episodes, status[k][m] \in Unfinished,
         NEW n \in Episodes, status[k][n] \in {"DONE", "ERROR"}
  PROVE  FailedFrom(k, m)[n] = status[k][n]
<1>1. n # m /\ status[k][n] # "QUEUED"
  BY DEF Unfinished
<1> QED
  BY <1>1 DEF FailedFrom

\* What a chapter's status may become in one step of this process.
LEMMA StatusSteps ==
  ASSUME TypeOK, JobsInv, [Next]_vars, restarts' = restarts,
         NEW j \in JobIds, NEW n \in Episodes, status[j][n] \in {"DONE", "ERROR"}
  PROVE  status'[j][n] = status[j][n]
<1> USE DEF TypeOK
<1>1. ASSUME NEW h \in Handlers, SubmitAccept(h)
      PROVE  status'[j][n] = status[j][n]
  BY <1>1 DEF SubmitAccept, JobsInv, UnissuedIsEmpty, JobIds
<1>2. ASSUME NEW m \in Episodes,
             WorkerAlreadyDone(m) \/ WorkerOutOfOrder(m) \/ WorkerStart(m)
      PROVE  status'[j][n] = status[j][n]
  <2>1. worker.job \in JobIds /\ status[worker.job][m] = "QUEUED"
    BY <1>2 DEF WorkerAlreadyDone, WorkerOutOfOrder, WorkerStart, Looking, ToDo
  <2>2. CASE WorkerAlreadyDone(m) \/ WorkerStart(m)
    BY <2>1, <2>2 DEF WorkerAlreadyDone, WorkerStart
  <2>3. CASE WorkerOutOfOrder(m)
    <3>1. status' = [status EXCEPT ![worker.job] = FailedFrom(worker.job, m)]
      BY <2>3 DEF WorkerOutOfOrder
    <3>2. j = worker.job => FailedFrom(j, m)[n] = status[j][n]
      BY <2>1, FailedFromSettled DEF Unfinished
    <3> QED
      BY <2>1, <3>1, <3>2
  <2> QED
    BY <1>2, <2>2, <2>3
<1>3. CASE IndexingSucceeds \/ IndexingFails
  <2>1. /\ worker.job \in JobIds /\ worker.episode \in Episodes
        /\ status[worker.job][worker.episode] = "RUNNING"
    BY <1>3 DEF IndexingSucceeds, IndexingFails, JobsInv, RunningIsWorkers, Working
  <2>2. CASE IndexingSucceeds
    BY <2>1, <2>2 DEF IndexingSucceeds
  <2>3. CASE IndexingFails
    <3>1. status' = [status EXCEPT ![worker.job] = FailedFrom(worker.job, worker.episode)]
      BY <2>3 DEF IndexingFails
    <3>2. j = worker.job => FailedFrom(j, worker.episode)[n] = status[j][n]
      BY <2>1, FailedFromSettled DEF Unfinished
    <3> QED
      BY <2>1, <3>1, <3>2
  <2> QED
    BY <1>3, <2>2, <2>3
<1>4. ~Restart
  BY BoundsAssumption DEF Restart
<1> QED
  BY <1>1, <1>2, <1>3, <1>4
  DEF Next, HandlerStep, WorkerStep, SubmitReject, SubmitQueueFull, SubmitModelLimit,
      SubmitBegin, SubmitRead, Refuse, WorkerTake, WorkerFinishJob, IndexingMarks,
      jobVars, vars

\* A chapter that was shown DONE or ERROR stays so until the process dies.
THEOREM StatusSettles == Spec => SettledStays
<1>1. TypeOK /\ JobsInv /\ [Next]_vars
        => [\A j \in JobIds, n \in Episodes :
              status[j][n] \in {"DONE", "ERROR"} /\ restarts' = restarts
                => status'[j][n] = status[j][n]]_vars
  BY StatusSteps
<1> QED
  BY TypeCorrect, JobsInvariant, <1>1, PTL DEF Spec, SettledStays

\* The worker never starts a chapter of a job after one of it failed.
THEOREM NothingAfterFailure == Spec => StopsAtFailure
<1>1. TypeOK /\ JobsInv /\ [Next]_vars
        => [Starts => \A m \in Episodes :
              m < worker'.episode => status[worker.job][m] # "ERROR"]_vars
  <2> SUFFICES ASSUME TypeOK, JobsInv, Next, Starts, NEW m \in Episodes,
                      m < worker'.episode
               PROVE  status[worker.job][m] # "ERROR"
    BY DEF vars
  <2>1. PICK n \in Episodes : WorkerStart(n)
    <3>1. ~IndexingMarks /\ ~IndexingSucceeds /\ ~IndexingFails /\ ~Restart
      BY DEF Starts, IndexingMarks, IndexingSucceeds, IndexingFails, Restart, Idle, At
    <3>2. ~WorkerTake /\ ~WorkerFinishJob
      BY DEF Starts, WorkerTake, WorkerFinishJob, Idle, At
    <3>3. worker' # worker
      BY DEF Starts
    <3>4. \A n \in Episodes : ~WorkerAlreadyDone(n) /\ ~WorkerOutOfOrder(n)
      BY <3>3 DEF WorkerAlreadyDone, WorkerOutOfOrder
    <3>5. \A h \in Handlers : ~HandlerStep(h)
      BY <3>3 DEF HandlerStep, SubmitReject, SubmitQueueFull, SubmitModelLimit,
                  SubmitRead, SubmitAccept, Refuse
    <3> QED
      BY <3>1, <3>2, <3>3, <3>4, <3>5 DEF Next, WorkerStep, SubmitBegin
  <2>2. /\ worker'.episode = n /\ worker.job \in JobIds
        /\ status[worker.job][n] = "QUEUED"
    BY <2>1 DEF WorkerStart, Looking, ToDo, At, TypeOK
  <2> QED
    BY <2>2 DEF JobsInv, FailedIsLast, Unfinished
<1> QED
  BY TypeCorrect, JobsInvariant, <1>1, PTL DEF Spec, StopsAtFailure

-----------------------------------------------------------------------------
(* The backlog.                                                             *)

LEMMA WaitingFinite ==
  TypeOK => IsFiniteSet(Waiting) /\ Cardinality(Waiting) \in Nat
<1>1. IsFiniteSet(JobIds) /\ IsFiniteSet(Episodes)
  BY BoundsAssumption, FS_Interval, 1 \in Int, MaxJobs \in Int, MaxEpisode \in Int
  DEF JobIds, Episodes
<1>2. IsFiniteSet(JobIds \X Episodes)
  BY <1>1, FS_Product
<1>3. Waiting \subseteq JobIds \X Episodes
  BY DEF Waiting
<1> QED
  BY <1>2, <1>3, FS_Subset, FS_CardinalityType

\* Chapters that leave the backlog, or none at all, do not make it longer.
LEMMA BacklogShrinks ==
  ASSUME TypeOK, BacklogBounded,
         \A j \in JobIds, n \in Episodes :
           status'[j][n] \in Unfinished => status[j][n] \in Unfinished
  PROVE  BacklogBounded'
<1>1. Waiting' \subseteq Waiting
  BY DEF Waiting
<1>2. IsFiniteSet(Waiting) /\ Cardinality(Waiting) \in Nat
  BY WaitingFinite
<1>3. Cardinality(Waiting') <= Cardinality(Waiting) /\ Cardinality(Waiting') \in Nat
  BY <1>1, <1>2, FS_Subset, FS_CardinalityType
<1> QED
  BY <1>2, <1>3, BoundsAssumption DEF BacklogBounded

\* An accepted request adds its pending chapters, which had to fit.
LEMMA BacklogAccepts ==
  ASSUME TypeOK, NEW h \in Handlers, SubmitAccept(h)
  PROVE  BacklogBounded'
<1> DEFINE c == call[h]
           j == issued + 1
           New == {j} \X Pending(c)
<1>1. /\ j \in JobIds /\ c.nos \in SUBSET Episodes
      /\ Cardinality(Waiting) + Cardinality(Pending(c)) <= QueueCap
  <2>1. Cardinality(Waiting) + Cardinality(Pending(c)) \in Int
    <3>1. IsFiniteSet(Episodes)
      BY BoundsAssumption, FS_Interval, 1 \in Int, MaxEpisode \in Int DEF Episodes
    <3>2. Pending(c) \subseteq Episodes
      BY DEF Pending, TypeOK, CallRecord
    <3>3. Cardinality(Pending(c)) \in Nat
      BY <3>1, <3>2, FS_Subset, FS_CardinalityType
    <3> QED
      BY <3>3, WaitingFinite
  <2> QED
    BY <2>1, BoundsAssumption DEF SubmitAccept, QueueFull, TypeOK, CallRecord
<1>2. Waiting' \subseteq Waiting \cup New
  <2> SUFFICES ASSUME NEW k \in JobIds, NEW n \in Episodes, status'[k][n] \in Unfinished,
                      status[k][n] \notin Unfinished
               PROVE  k = j /\ n \in Pending(c)
    BY DEF Waiting
  <2>1. k = j
    BY DEF SubmitAccept, TypeOK
  <2>2. status'[j][n] = IF n \notin c.nos THEN "ABSENT"
                         ELSE IF n \in c.indexed THEN "DONE" ELSE "QUEUED"
    BY <1>1 DEF SubmitAccept, TypeOK
  <2> QED
    BY <2>1, <2>2 DEF Pending, Unfinished
<1>3. IsFiniteSet(Pending(c)) /\ Cardinality(Pending(c)) \in Nat
  <2>1. IsFiniteSet(Episodes)
    BY BoundsAssumption, FS_Interval, 1 \in Int, MaxEpisode \in Int DEF Episodes
  <2>2. Pending(c) \subseteq Episodes
    BY <1>1 DEF Pending
  <2> QED
    BY <2>1, <2>2, FS_Subset, FS_CardinalityType
<1>4. IsFiniteSet(Waiting) /\ Cardinality(Waiting) \in Nat
  BY WaitingFinite
<1>5. IsFiniteSet(New) /\ Cardinality(New) = Cardinality(Pending(c))
  <2>1. IsFiniteSet({j}) /\ Cardinality({j}) = 1
    BY FS_Singleton
  <2>2. IsFiniteSet(New) /\ Cardinality(New) = Cardinality({j}) * Cardinality(Pending(c))
    BY <2>1, <1>3, FS_Product
  <2> QED
    BY <2>1, <2>2, <1>3
<1> HIDE DEF New, c, j
<1>6. /\ IsFiniteSet(Waiting \cup New)
      /\ Cardinality(Waiting \cup New) =
           Cardinality(Waiting) + Cardinality(New) - Cardinality(Waiting \cap New)
      /\ Cardinality(Waiting \cap New) \in Nat
      /\ Cardinality(Waiting \cup New) \in Nat
  BY <1>4, <1>5, FS_Union, FS_Intersection, FS_CardinalityType
<1>7. Cardinality(Waiting') <= Cardinality(Waiting \cup New) /\ Cardinality(Waiting') \in Nat
  BY <1>2, <1>6, FS_Subset, FS_CardinalityType
<1>8. Cardinality(Waiting') <= QueueCap
  BY <1>1, <1>3, <1>4, <1>5, <1>6, <1>7, BoundsAssumption
<1> QED
  BY <1>8 DEF BacklogBounded

LEMMA BacklogInit == Init => BacklogBounded
<1> SUFFICES ASSUME Init PROVE BacklogBounded
  OBVIOUS
<1>1. Waiting = {}
  BY DEF Init, Waiting, Unfinished
<1> QED
  BY <1>1, FS_EmptySet, BoundsAssumption DEF BacklogBounded

LEMMA BacklogNext == TypeOK /\ BacklogBounded /\ [Next]_vars => BacklogBounded'
<1> SUFFICES ASSUME TypeOK, BacklogBounded, [Next]_vars PROVE BacklogBounded'
  OBVIOUS
<1>1. ASSUME UNCHANGED status
      PROVE  BacklogBounded'
  BY <1>1, BacklogShrinks
<1>2. ASSUME NEW h \in Handlers, SubmitAccept(h)
      PROVE  BacklogBounded'
  BY <1>2, BacklogAccepts
<1>3. ASSUME NEW k, NEW n, status' = [status EXCEPT ![k] = FailedFrom(k, n)]
      PROVE  BacklogBounded'
  <2>1. ASSUME NEW j \in JobIds, NEW m \in Episodes, status'[j][m] \in Unfinished
        PROVE  status[j][m] \in Unfinished
    <3>1. CASE j = k
      <4>1. status'[j][m] = FailedFrom(k, n)[m]
        BY <1>3, <3>1 DEF TypeOK
      <4> QED
        BY <2>1, <3>1, <4>1 DEF FailedFrom, Unfinished
    <3>2. CASE j # k
      BY <1>3, <2>1, <3>2 DEF TypeOK
    <3> QED
      BY <3>1, <3>2
  <2> QED
    BY <2>1, BacklogShrinks
<1>4. ASSUME NEW n \in Episodes, WorkerAlreadyDone(n) \/ WorkerStart(n)
      PROVE  BacklogBounded'
  <2>1. worker.job \in JobIds /\ status[worker.job][n] = "QUEUED"
    BY <1>4 DEF WorkerAlreadyDone, WorkerStart, Looking, ToDo, TypeOK
  <2>2. status' = [status EXCEPT ![worker.job][n] = "DONE"]
        \/ status' = [status EXCEPT ![worker.job][n] = "RUNNING"]
    BY <1>4 DEF WorkerAlreadyDone, WorkerStart
  <2>3. \A j \in JobIds, m \in Episodes :
          status'[j][m] = status[j][m] \/ (j = worker.job /\ m = n)
    BY <2>2 DEF TypeOK
  <2>4. status[worker.job][n] \in Unfinished
    BY <2>1 DEF Unfinished
  <2> QED
    BY <2>3, <2>4, BacklogShrinks
<1>5. ASSUME IndexingSucceeds
      PROVE  BacklogBounded'
  <2>1. status' = [status EXCEPT ![worker.job][worker.episode] = "DONE"]
    BY <1>5 DEF IndexingSucceeds
  <2>2. \A j \in JobIds, m \in Episodes :
          status'[j][m] \in Unfinished => status[j][m] \in Unfinished
    BY <2>1 DEF Unfinished, TypeOK
  <2> QED
    BY <2>2, BacklogShrinks
<1>6. ASSUME Restart
      PROVE  BacklogBounded'
  <2>1. \A j \in JobIds, m \in Episodes : status'[j][m] \notin Unfinished
    BY <1>6 DEF Restart, Unfinished
  <2> QED
    BY <2>1, BacklogShrinks
<1> QED
  BY <1>1, <1>2, <1>3, <1>4, <1>5, <1>6
  DEF Next, HandlerStep, WorkerStep, SubmitReject, SubmitQueueFull, SubmitModelLimit,
      SubmitBegin, SubmitRead, Refuse, WorkerTake, WorkerFinishJob, WorkerOutOfOrder,
      IndexingMarks, IndexingFails, jobVars, vars

\* The chapters admitted and unfinished never exceed the worker's backlog,
\* however requests interleave.
THEOREM BacklogStaysBounded == Spec => []BacklogBounded
<1>1. TypeOK /\ BacklogBounded /\ [Next]_vars => BacklogBounded'
  BY BacklogNext
<1> QED
  BY BacklogInit, TypeCorrect, <1>1, PTL DEF Spec

-----------------------------------------------------------------------------
(* Custody.  That a job is queued once is not inductive: nothing would keep *)
(* the worker's job, or one that is accepted, out of the queue.  Job ids    *)
(* are issued in order and the queue is a FIFO: so the queue is sorted and  *)
(* all of it younger than the worker's job.                                 *)

QueueInOrder ==
  /\ \A i, k \in DOMAIN queue : i < k => queue[i] < queue[k]
  /\ worker.phase # "idle" => \A i \in DOMAIN queue : worker.job < queue[i]

\* A job with chapters to do is somewhere, and so are their manuscripts.
NothingLost ==
  \A j \in JobIds, n \in Episodes :
    status[j][n] \in Unfinished =>
      /\ (worker.phase # "idle" /\ worker.job = j) \/ \E i \in DOMAIN queue : queue[i] = j
      /\ n \in text[j]

CustodyInv == QueueInOrder /\ NothingLost

LEMMA CustodyInit == Init => CustodyInv
<1> SUFFICES ASSUME Init PROVE CustodyInv
  OBVIOUS
<1>1. /\ DOMAIN queue = {} /\ worker.phase = "idle"
      /\ \A j \in JobIds, n \in Episodes : status[j][n] = "ABSENT"
  BY DEF Init, Idle, At
<1> QED
  BY <1>1 DEF CustodyInv, QueueInOrder, NothingLost, Unfinished

\* A step that moves no job keeps custody if it begins no chapter and takes
\* only manuscripts of chapters it ends.
LEMMA CustodyStays ==
  ASSUME TypeOK, CustodyInv, queue' = queue,
         worker'.phase # "idle" <=> worker.phase # "idle", worker'.job = worker.job,
         \A j \in JobIds, n \in Episodes :
           status'[j][n] \in Unfinished =>
             status[j][n] \in Unfinished /\ (n \in text[j] => n \in text'[j])
  PROVE  CustodyInv'
BY DEF CustodyInv, QueueInOrder, NothingLost

LEMMA CustodyAccepts ==
  ASSUME TypeOK, JobsInv, CustodyInv, NEW h \in Handlers, SubmitAccept(h)
  PROVE  CustodyInv'
<1> DEFINE c == call[h]
           j == issued + 1
<1>1. j \in JobIds /\ c.nos \in SUBSET Episodes /\ queue' = Append(queue, j)
  BY DEF SubmitAccept, TypeOK, CallRecord
<1>2. worker' = worker /\ issued \in Nat
  BY DEF SubmitAccept, TypeOK
<1>3. /\ Len(queue') = Len(queue) + 1 /\ queue'[Len(queue) + 1] = j
      /\ \A i \in DOMAIN queue : i \in DOMAIN queue' /\ queue'[i] = queue[i]
      /\ DOMAIN queue' = DOMAIN queue \cup {Len(queue) + 1}
      /\ \A i \in DOMAIN queue : i < Len(queue) + 1 /\ i \in Int
      /\ Len(queue) + 1 \in DOMAIN queue'
  BY <1>1 DEF TypeOK
<1>4. ASSUME NEW i \in DOMAIN queue
      PROVE  queue[i] < j /\ queue[i] \in Int
  <2>1. queue[i] \in JobIds /\ queue[i] <= issued
    BY DEF JobsInv, HeldIsIssued, TypeOK
  <2> QED
    BY <1>2, <2>1 DEF JobIds
<1>5. QueueInOrder'
  <2>1. ASSUME NEW i \in DOMAIN queue', NEW k \in DOMAIN queue', i < k
        PROVE  queue'[i] < queue'[k]
    BY <1>3, <1>4, <2>1 DEF CustodyInv, QueueInOrder
  <2>2. ASSUME worker.phase # "idle", NEW i \in DOMAIN queue'
        PROVE  worker.job < queue'[i]
    BY <1>1, <1>2, <1>3, <2>2 DEF CustodyInv, QueueInOrder, JobsInv, HeldIsIssued, TypeOK, JobIds
  <2> QED
    BY <1>2, <2>1, <2>2 DEF QueueInOrder
<1>6. NothingLost'
  <2> SUFFICES ASSUME NEW k \in JobIds, NEW n \in Episodes, status'[k][n] \in Unfinished
               PROVE  /\ \/ worker.phase # "idle" /\ worker.job = k
                         \/ \E i \in DOMAIN queue' : queue'[i] = k
                      /\ n \in text'[k]
    BY <1>2 DEF NothingLost
  <2>1. CASE k = j
    <3>1. status'[j][n] = IF n \notin c.nos THEN "ABSENT"
                           ELSE IF n \in c.indexed THEN "DONE" ELSE "QUEUED"
      BY <1>1 DEF SubmitAccept, TypeOK
    <3>2. n \in c.nos
      BY <2>1, <3>1 DEF Unfinished
    <3>3. text'[j] = c.nos
      BY <1>1 DEF SubmitAccept, TypeOK
    <3> QED
      BY <1>3, <2>1, <3>2, <3>3
  <2>2. CASE k # j
    <3>1. status'[k] = status[k] /\ text'[k] = text[k]
      BY <1>1, <2>2 DEF SubmitAccept, TypeOK
    <3> QED
      BY <1>3, <3>1 DEF CustodyInv, NothingLost
  <2> QED
    BY <2>1, <2>2
<1> QED
  BY <1>5, <1>6 DEF CustodyInv

LEMMA CustodyTakes ==
  ASSUME TypeOK, CustodyInv, WorkerTake
  PROVE  CustodyInv'
<1>1. /\ queue \in Seq(JobIds) /\ queue # <<>> /\ queue' = Tail(queue)
      /\ worker'.phase = "between" /\ worker'.job = Head(queue) /\ worker.phase = "idle"
      /\ status' = status /\ text' = text
  BY DEF WorkerTake, At, TypeOK, jobVars
<1>2. /\ Head(queue) = queue[1] /\ 1 \in DOMAIN queue
      /\ \A i \in DOMAIN queue' : i + 1 \in DOMAIN queue /\ queue'[i] = queue[i + 1]
      /\ \A i \in DOMAIN queue \ {1} : i - 1 \in DOMAIN queue' /\ queue'[i - 1] = queue[i]
      /\ DOMAIN queue' \subseteq Int /\ \A i \in DOMAIN queue' : i >= 1
  BY <1>1
<1>3. QueueInOrder'
  <2>1. \A i, k \in DOMAIN queue : i < k => queue[i] < queue[k]
    BY DEF CustodyInv, QueueInOrder
  <2>2. ASSUME NEW i \in DOMAIN queue', NEW k \in DOMAIN queue', i < k
        PROVE  queue'[i] < queue'[k]
    <3>1. i + 1 < k + 1
      BY <1>2, <2>2
    <3> QED
      BY <1>2, <2>1, <3>1
  <2>3. ASSUME NEW i \in DOMAIN queue'
        PROVE  Head(queue) < queue'[i]
    <3>1. 1 < i + 1
      BY <1>2
    <3> QED
      BY <1>2, <2>1, <3>1
  <2> QED
    BY <1>1, <2>2, <2>3 DEF QueueInOrder
<1>4. NothingLost'
  <2> SUFFICES ASSUME NEW j \in JobIds, NEW n \in Episodes, status[j][n] \in Unfinished
               PROVE  /\ Head(queue) = j \/ \E i \in DOMAIN queue' : queue'[i] = j
                      /\ n \in text[j]
    BY <1>1 DEF NothingLost
  <2>1. PICK i \in DOMAIN queue : queue[i] = j
    BY <1>1 DEF CustodyInv, NothingLost
  <2>2. n \in text[j]
    BY DEF CustodyInv, NothingLost
  <2> QED
    BY <1>2, <2>1, <2>2
<1> QED
  BY <1>3, <1>4 DEF CustodyInv

LEMMA CustodyNext == TypeOK /\ JobsInv /\ CustodyInv /\ [Next]_vars => CustodyInv'
<1> SUFFICES ASSUME TypeOK, JobsInv, CustodyInv, [Next]_vars PROVE CustodyInv'
  OBVIOUS
<1> USE DEF jobVars
<1>1. ASSUME UNCHANGED <<queue, worker, status, text>>
      PROVE  CustodyInv'
  BY <1>1, CustodyStays
<1>2. ASSUME NEW h \in Handlers, SubmitAccept(h)
      PROVE  CustodyInv'
  BY <1>2, CustodyAccepts
<1>3. CASE WorkerTake
  BY <1>3, CustodyTakes
<1>4. CASE WorkerFinishJob
  <2>1. \A n \in Episodes : status[worker.job][n] \notin Unfinished
    <3> SUFFICES ASSUME NEW n \in Episodes, status[worker.job][n] = "RUNNING" PROVE FALSE
      BY <1>4 DEF WorkerFinishJob, ToDo, Unfinished
    <3> QED
      BY <1>4 DEF WorkerFinishJob, JobsInv, RunningIsWorkers, Working, TypeOK
  <2>2. UNCHANGED <<queue, status, text>> /\ worker'.phase = "idle"
    BY <1>4 DEF WorkerFinishJob, Idle, At
  <2> QED
    BY <2>1, <2>2 DEF CustodyInv, QueueInOrder, NothingLost
<1>5. ASSUME NEW k \in JobIds, NEW n \in Episodes, queue' = queue,
             worker'.phase # "idle" <=> worker.phase # "idle", worker'.job = worker.job,
             status' = [status EXCEPT ![k] = FailedFrom(k, n)],
             text' = [text EXCEPT ![k] = @ \ {n}]
      PROVE  CustodyInv'
  <2>1. ASSUME NEW j \in JobIds, NEW m \in Episodes, status'[j][m] \in Unfinished
        PROVE  status[j][m] \in Unfinished /\ (m \in text[j] => m \in text'[j])
    <3>1. CASE j = k
      <4>1. status'[j][m] = FailedFrom(k, n)[m] /\ text'[j] = text[j] \ {n}
        BY <1>5, <3>1 DEF TypeOK
      <4> QED
        BY <2>1, <3>1, <4>1 DEF FailedFrom, Unfinished
    <3>2. CASE j # k
      BY <1>5, <2>1, <3>2 DEF TypeOK
    <3> QED
      BY <3>1, <3>2
  <2> QED
    BY <1>5, <2>1, CustodyStays
<1>6. ASSUME NEW k \in JobIds, NEW n \in Episodes, queue' = queue,
             worker'.phase # "idle" <=> worker.phase # "idle", worker'.job = worker.job,
             status[k][n] \in Unfinished,
             \/ /\ status' = [status EXCEPT ![k][n] = "DONE"]
                /\ text' = [text EXCEPT ![k] = @ \ {n}]
             \/ status' = [status EXCEPT ![k][n] = "RUNNING"] /\ text' = text
      PROVE  CustodyInv'
  <2>1. \A j \in JobIds, m \in Episodes :
          status'[j][m] \in Unfinished =>
            status[j][m] \in Unfinished /\ (m \in text[j] => m \in text'[j])
    BY <1>6 DEF TypeOK, Unfinished
  <2> QED
    BY <1>6, <2>1, CustodyStays
<1>7. ASSUME NEW n \in Episodes, WorkerAlreadyDone(n)
      PROVE  CustodyInv'
  BY <1>6, <1>7 DEF WorkerAlreadyDone, Looking, ToDo, Unfinished, TypeOK
<1>8. ASSUME NEW n \in Episodes, WorkerOutOfOrder(n)
      PROVE  CustodyInv'
  BY <1>5, <1>8 DEF WorkerOutOfOrder, Looking, TypeOK
<1>9. ASSUME NEW n \in Episodes, WorkerStart(n)
      PROVE  CustodyInv'
  BY <1>6, <1>9 DEF WorkerStart, Looking, ToDo, Unfinished, At, TypeOK
<1>10. CASE IndexingMarks
  BY <1>10, CustodyStays DEF IndexingMarks, At
<1>11. CASE IndexingSucceeds
  <2>1. status[worker.job][worker.episode] \in Unfinished
    BY <1>11 DEF IndexingSucceeds, JobsInv, RunningIsWorkers, Working, Unfinished, TypeOK
  <2> QED
    BY <1>6, <1>11, <2>1 DEF IndexingSucceeds, At, TypeOK, Working
<1>12. CASE IndexingFails
  BY <1>5, <1>12 DEF IndexingFails, At, TypeOK, Working
<1>13. CASE Restart
  <2>1. /\ DOMAIN queue' = {} /\ worker'.phase = "idle"
        /\ \A j \in JobIds, n \in Episodes : status'[j][n] = "ABSENT"
    BY <1>13 DEF Restart, Idle, At
  <2> QED
    BY <2>1 DEF CustodyInv, QueueInOrder, NothingLost, Unfinished
<1> QED
  BY <1>1, <1>2, <1>3, <1>4, <1>7, <1>8, <1>9, <1>10, <1>11, <1>12, <1>13
  DEF Next, HandlerStep, WorkerStep, SubmitReject, SubmitQueueFull, SubmitModelLimit,
      SubmitBegin, SubmitRead, Refuse, vars

\* A sorted queue that holds a job holds it once, and no job of the worker's.
LEMMA CustodyImplies == TypeOK /\ JobsInv /\ CustodyInv => InCustody
<1> SUFFICES ASSUME TypeOK, JobsInv, CustodyInv PROVE InCustody
  OBVIOUS
<1>1. ASSUME NEW j \in JobIds, NEW n \in Episodes, status[j][n] \in Unfinished
      PROVE  Cardinality({i \in DOMAIN queue : queue[i] = j})
               = (IF worker.phase # "idle" /\ worker.job = j THEN 0 ELSE 1)
  <2>0. /\ DOMAIN queue \subseteq Int
        /\ \A i \in DOMAIN queue : queue[i] \in Int
    <3>1. \A i \in DOMAIN queue : queue[i] \in JobIds
      BY DEF TypeOK
    <3> QED
      BY <3>1 DEF TypeOK, JobIds
  <2>1. CASE worker.phase # "idle" /\ worker.job = j
    <3>1. {i \in DOMAIN queue : queue[i] = j} = {}
      BY <2>0, <2>1 DEF CustodyInv, QueueInOrder
    <3> QED
      BY <2>1, <3>1, FS_EmptySet
  <2>2. CASE ~(worker.phase # "idle" /\ worker.job = j)
    <3>1. PICK i \in DOMAIN queue : queue[i] = j
      BY <1>1, <2>2 DEF CustodyInv, NothingLost
    <3>2. ASSUME NEW k \in DOMAIN queue, queue[k] = j
          PROVE  k = i
      <4>1. ~(k < i) /\ ~(i < k)
        BY <2>0, <3>1, <3>2 DEF CustodyInv, QueueInOrder
      <4> QED
        BY <2>0, <4>1
    <3>3. {k \in DOMAIN queue : queue[k] = j} = {i}
      BY <3>1, <3>2
    <3> QED
      BY <2>2, <3>3, FS_Singleton
  <2> QED
    BY <2>1, <2>2
<1>2. \A j \in JobIds, n \in Episodes : status[j][n] \in Unfinished => n \in text[j]
  BY DEF CustodyInv, NothingLost
<1> QED
  BY <1>1, <1>2 DEF InCustody, JobsInv, RunningIsWorkers

\* Every unfinished chapter is in exactly one place from which the worker will
\* get to it, with its manuscript, whatever failed and whoever asked.
THEOREM CustodyKept == Spec => []InCustody
<1>1. TypeOK /\ JobsInv /\ CustodyInv /\ [Next]_vars => CustodyInv'
  BY CustodyNext
<1> QED
  BY CustodyInit, CustodyImplies, TypeCorrect, JobsInvariant, <1>1, PTL DEF Spec

-----------------------------------------------------------------------------
(* What EveryEpisodeSettles rests on besides fairness: the worker has only  *)
(* so many steps to take before a job is done, and no later job adds one.   *)

\* The jobs of the queue that are not younger than j.
QueuedUpTo(j) == {k \in 1 .. j : \E i \in DOMAIN queue : queue[i] = k}

\* A job is taken and left, and each of its chapters is begun, marked and ended.
StepsOfJob == 3 * MaxEpisode + 2

\* The steps the worker still has with the job it holds, at most.
StepsHeld ==
  LET chapters == 3 * Cardinality(ToDo(worker.job))
  IN  CASE worker.phase = "between" -> chapters + 1
        [] worker.phase = "marked"  -> chapters + 2
        [] worker.phase = "running" -> chapters + 3
        [] OTHER -> 0

\* The steps the worker has before job j and those before it are done.
StepsUpTo(j) ==
  Cardinality(QueuedUpTo(j)) * StepsOfJob + (IF worker.job <= j THEN StepsHeld ELSE 0)

\* Sets of chapters and of jobs are small and have a size.
LEMMA CountsTyped ==
  /\ \A j \in JobIds : IsFiniteSet(ToDo(j)) /\ Cardinality(ToDo(j)) \in 0 .. MaxEpisode
  /\ \A j \in JobIds : IsFiniteSet(QueuedUpTo(j)) /\ Cardinality(QueuedUpTo(j)) \in Nat
<1> USE BoundsAssumption
<1>1. IsFiniteSet(Episodes) /\ Cardinality(Episodes) = MaxEpisode
  BY FS_Interval DEF Episodes
<1>2. ASSUME NEW j \in JobIds
      PROVE  IsFiniteSet(ToDo(j)) /\ Cardinality(ToDo(j)) \in 0 .. MaxEpisode
  <2>1. ToDo(j) \subseteq Episodes
    BY DEF ToDo
  <2>2. IsFiniteSet(ToDo(j)) /\ Cardinality(ToDo(j)) <= MaxEpisode
    BY <1>1, <2>1, FS_Subset
  <2> QED
    BY <2>2, FS_CardinalityType
<1>3. ASSUME NEW j \in JobIds
      PROVE  IsFiniteSet(QueuedUpTo(j)) /\ Cardinality(QueuedUpTo(j)) \in Nat
  <2>1. IsFiniteSet(1 .. j)
    BY FS_Interval, 1 \in Int, j \in Int DEF JobIds
  <2>2. QueuedUpTo(j) \subseteq 1 .. j
    BY DEF QueuedUpTo
  <2>3. IsFiniteSet(QueuedUpTo(j))
    BY <2>1, <2>2, FS_Subset
  <2> QED
    BY <2>3, FS_CardinalityType
<1> QED
  BY <1>2, <1>3

\* What is left of a set without one of its elements is smaller.
LEMMA OneLess ==
  ASSUME NEW S, IsFiniteSet(S), NEW x \in S, NEW R \in SUBSET (S \ {x})
  PROVE  Cardinality(R) + 1 <= Cardinality(S) /\ Cardinality(R) \in Nat
<1>1. IsFiniteSet(S \ {x}) /\ Cardinality(S \ {x}) = Cardinality(S) - 1
  BY FS_RemoveElement
<1>2. IsFiniteSet(R) /\ Cardinality(R) <= Cardinality(S \ {x})
  BY <1>1, FS_Subset
<1> QED
  BY <1>1, <1>2, FS_CardinalityType

LEMMA HeldTyped ==
  ASSUME TypeOK
  PROVE  /\ StepsHeld \in Nat
         /\ StepsHeld < StepsOfJob + 2
         /\ worker.phase = "between" => StepsHeld < StepsOfJob
         /\ worker.phase = "idle" <=> StepsHeld = 0
<1>1. CASE worker.phase = "idle"
  BY <1>1, BoundsAssumption DEF StepsHeld, StepsOfJob
<1>2. CASE worker.phase # "idle"
  <2>1. /\ Cardinality(ToDo(worker.job)) \in 0 .. MaxEpisode
        /\ worker.phase \in {"between", "running", "marked"}
    BY <1>2, CountsTyped DEF TypeOK, WorkerRecord
  <2> QED
    BY <2>1, BoundsAssumption DEF StepsHeld, StepsOfJob
<1> QED
  BY <1>1, <1>2

\* A step with a job that is held is one of those it had left, and the worker
\* does not turn to another job.
LEMMA HeldStep ==
  ASSUME TypeOK, TypeOK', WorkerStep, worker.phase # "idle"
  PROVE  StepsHeld' < StepsHeld /\ UNCHANGED queue /\ worker'.job \in {0, worker.job}
<1> DEFINE S == ToDo(worker.job)
           T == {n \in Episodes : status'[worker.job][n] = "QUEUED"}
<1>0. /\ worker.job \in JobIds /\ IsFiniteSet(S) /\ Cardinality(S) \in Nat
      /\ worker.phase \in {"between", "running", "marked"}
  BY CountsTyped DEF TypeOK, WorkerRecord
<1>1. StepsHeld = (CASE worker.phase = "between" -> 3 * Cardinality(S) + 1
                     [] worker.phase = "marked"  -> 3 * Cardinality(S) + 2
                     [] worker.phase = "running" -> 3 * Cardinality(S) + 3
                     [] OTHER -> 0)
  BY DEF StepsHeld
<1>2. worker'.job = worker.job =>
        StepsHeld' = (CASE worker'.phase = "between" -> 3 * Cardinality(T) + 1
                        [] worker'.phase = "marked"  -> 3 * Cardinality(T) + 2
                        [] worker'.phase = "running" -> 3 * Cardinality(T) + 3
                        [] OTHER -> 0)
  BY DEF StepsHeld, ToDo
<1>3. ASSUME T \subseteq S
      PROVE  Cardinality(T) <= Cardinality(S) /\ Cardinality(T) \in Nat
  BY <1>0, <1>3, FS_Subset, FS_CardinalityType
<1>4. ASSUME NEW n \in S, T \subseteq S \ {n}
      PROVE  Cardinality(T) + 1 <= Cardinality(S) /\ Cardinality(T) \in Nat
  <2>1. T \in SUBSET (S \ {n})
    BY <1>4
  <2> HIDE DEF S, T
  <2> QED
    BY <1>0, <2>1, OneLess
<1>5. ASSUME NEW n \in Episodes
      PROVE  \A m \in Episodes : FailedFrom(worker.job, n)[m] = "QUEUED"
                                   => status[worker.job][m] = "QUEUED" /\ m # n
  BY DEF FailedFrom
<1>6. CASE WorkerFinishJob
  <2>1. worker' = Idle /\ queue' = queue /\ worker.phase = "between"
    BY <1>6 DEF WorkerFinishJob
  <2>2. worker'.phase = "idle" /\ worker'.job = 0
    BY <2>1 DEF Idle, At
  <2>3. StepsHeld' = 0
    BY <2>2 DEF StepsHeld
  <2> HIDE DEF S
  <2> QED
    BY <1>0, <1>1, <2>1, <2>2, <2>3
<1>7. ASSUME NEW n \in Episodes, WorkerAlreadyDone(n) \/ WorkerOutOfOrder(n)
      PROVE  StepsHeld' < StepsHeld /\ UNCHANGED queue /\ worker'.job = worker.job
  <2>1. n \in S /\ worker.phase = "between" /\ worker' = worker /\ queue' = queue
    BY <1>7 DEF WorkerAlreadyDone, WorkerOutOfOrder, Looking
  <2>2. T \subseteq S \ {n}
    BY <1>0, <1>5, <1>7 DEF WorkerAlreadyDone, WorkerOutOfOrder, ToDo, TypeOK
  <2>3. Cardinality(T) + 1 <= Cardinality(S) /\ Cardinality(T) \in Nat
    BY <1>4, <2>1, <2>2
  <2> HIDE DEF S, T
  <2> QED
    BY <1>0, <1>1, <1>2, <2>1, <2>3
<1>8. ASSUME NEW n \in Episodes, WorkerStart(n)
      PROVE  StepsHeld' < StepsHeld /\ UNCHANGED queue /\ worker'.job = worker.job
  <2>1. /\ n \in S /\ worker.phase = "between" /\ queue' = queue
        /\ worker'.phase = "running" /\ worker'.job = worker.job
    BY <1>8 DEF WorkerStart, Looking, At
  <2>2. T \subseteq S \ {n}
    BY <1>0, <1>8 DEF WorkerStart, ToDo, TypeOK
  <2>3. Cardinality(T) + 1 <= Cardinality(S) /\ Cardinality(T) \in Nat
    BY <1>4, <2>1, <2>2
  <2> HIDE DEF S, T
  <2> QED
    BY <1>0, <1>1, <1>2, <2>1, <2>3
<1>9. CASE IndexingMarks
  <2>1. /\ worker.phase = "running" /\ worker'.phase = "marked" /\ worker'.job = worker.job
        /\ queue' = queue /\ status' = status
    BY <1>9 DEF IndexingMarks, At, jobVars
  <2>2. T = S
    BY <2>1 DEF ToDo
  <2> HIDE DEF S, T
  <2> QED
    BY <1>0, <1>1, <1>2, <2>1, <2>2
<1>10. CASE IndexingSucceeds \/ IndexingFails
  <2>1. /\ worker.phase \in {"running", "marked"} /\ queue' = queue
        /\ worker'.phase = "between" /\ worker'.job = worker.job
        /\ worker.episode \in Episodes
    BY <1>10 DEF IndexingSucceeds, IndexingFails, At, TypeOK, Working
  <2>2. T \subseteq S
    <3>1. /\ worker.job \in JobIds
          /\ status \in [JobIds -> [Episodes -> EpisodeStatus \cup {"ABSENT"}]]
      BY <1>0 DEF TypeOK
    <3>2. CASE IndexingSucceeds
      BY <2>1, <3>1, <3>2 DEF IndexingSucceeds, ToDo
    <3>3. CASE IndexingFails
      <4>1. status'[worker.job] = FailedFrom(worker.job, worker.episode)
        BY <3>1, <3>3 DEF IndexingFails
      <4> QED
        BY <1>5, <2>1, <4>1 DEF ToDo
    <3> QED
      BY <1>10, <3>2, <3>3
  <2>3. Cardinality(T) <= Cardinality(S) /\ Cardinality(T) \in Nat
    BY <1>3, <2>2
  <2> HIDE DEF S, T
  <2> QED
    BY <1>0, <1>1, <1>2, <2>1, <2>3
<1>11. ~WorkerTake
  BY DEF WorkerTake
<1> QED
  BY <1>6, <1>7, <1>8, <1>9, <1>10, <1>11 DEF WorkerStep

\* Taking a job leaves fewer of the jobs up to j in the queue, if there were
\* any: the first of the queue is the oldest.
LEMMA TakeCounts ==
  ASSUME TypeOK, CustodyInv, WorkerTake, NEW j \in JobIds
  PROVE  /\ QueuedUpTo(j)' \subseteq QueuedUpTo(j)
         /\ QueuedUpTo(j) # {} =>
              Head(queue) \in QueuedUpTo(j) /\ Head(queue) \notin QueuedUpTo(j)'
         /\ Head(queue) <= j => QueuedUpTo(j) # {}
<1>1. /\ queue \in Seq(JobIds) /\ queue # <<>> /\ queue' = Tail(queue)
  BY DEF WorkerTake, TypeOK
<1>2. /\ Head(queue) = queue[1] /\ 1 \in DOMAIN queue /\ queue[1] \in 1 .. MaxJobs
      /\ \A i \in DOMAIN queue' : i + 1 \in DOMAIN queue /\ queue'[i] = queue[i + 1]
      /\ \A i \in DOMAIN queue : i \in Nat /\ i >= 1 /\ queue[i] \in 1 .. MaxJobs
      /\ \A i \in DOMAIN queue' : i \in Nat /\ i >= 1
  <2>1. /\ Head(queue) = queue[1] /\ 1 \in DOMAIN queue
        /\ \A i \in DOMAIN queue : i \in Nat /\ i >= 1 /\ queue[i] \in JobIds
    BY <1>1
  <2>2. /\ \A i \in DOMAIN queue' : i + 1 \in DOMAIN queue /\ queue'[i] = queue[i + 1]
        /\ \A i \in DOMAIN queue' : i \in Nat /\ i >= 1
    BY <1>1
  <2> QED
    BY <2>1, <2>2 DEF JobIds
<1>3. \A i, k \in DOMAIN queue : i < k => queue[i] < queue[k]
  BY DEF CustodyInv, QueueInOrder
<1>4. \A i \in DOMAIN queue : queue[1] <= queue[i]
  BY <1>2, <1>3
<1>5. \A i \in DOMAIN queue' : queue'[i] # queue[1]
  <2> SUFFICES ASSUME NEW i \in DOMAIN queue' PROVE queue'[i] # queue[1]
    OBVIOUS
  <2>1. 1 < i + 1 /\ i + 1 \in DOMAIN queue /\ queue'[i] = queue[i + 1]
    BY <1>2
  <2>2. queue[1] < queue[i + 1] /\ queue[1] \in Int
    BY <1>2, <1>3, <2>1
  <2> QED
    BY <2>1, <2>2
<1>6. QueuedUpTo(j)' \subseteq QueuedUpTo(j)
  BY <1>2 DEF QueuedUpTo
<1>7. Head(queue) <= j => Head(queue) \in QueuedUpTo(j)
  BY <1>2 DEF QueuedUpTo, JobIds
<1>8. Head(queue) \notin QueuedUpTo(j)'
  BY <1>2, <1>5 DEF QueuedUpTo
<1>9. ASSUME NEW k \in QueuedUpTo(j)
      PROVE  Head(queue) <= j
  <2>1. PICK i \in DOMAIN queue : queue[i] = k
    BY DEF QueuedUpTo
  <2>2. k \in 1 .. j /\ queue[1] <= k
    BY <1>4, <2>1 DEF QueuedUpTo
  <2> QED
    BY <1>2, <2>2 DEF JobIds
<1> QED
  BY <1>6, <1>7, <1>8, <1>9

\* No more jobs of the queue, no more steps.
LEMMA Product ==
  ASSUME NEW m \in Nat, NEW n \in Nat
  PROVE  /\ m * StepsOfJob \in Nat
         /\ StepsOfJob \in Nat
         /\ m = 0 <=> m * StepsOfJob = 0
         /\ n + 1 <= m => n * StepsOfJob + StepsOfJob <= m * StepsOfJob
<1>1. StepsOfJob \in Nat \ {0}
  BY BoundsAssumption DEF StepsOfJob
<1> HIDE DEF StepsOfJob
<1>2. m * StepsOfJob \in Nat /\ (m = 0 <=> m * StepsOfJob = 0)
  BY <1>1
<1>3. ASSUME n + 1 <= m
      PROVE  n * StepsOfJob + StepsOfJob <= m * StepsOfJob
  <2>1. (m - n - 1) * StepsOfJob >= 0
    BY <1>1, <1>3
  <2>2. m * StepsOfJob = n * StepsOfJob + StepsOfJob + (m - n - 1) * StepsOfJob
    BY <1>1
  <2> QED
    BY <1>1, <2>1, <2>2
<1> QED
  BY <1>1, <1>2, <1>3

CountInv == TypeOK /\ JobsInv /\ CustodyInv

\* A step that brings the worker nearer to the end of job j.
Nearer(j) == StepsUpTo(j)' < StepsUpTo(j)

\* If the worker's job is younger than j, nothing up to j is left.
LEMMA YoungerIsPast ==
  ASSUME CountInv, NEW j \in JobIds, worker.phase # "idle", ~(worker.job <= j)
  PROVE  QueuedUpTo(j) = {} /\ StepsUpTo(j) = 0
<1>1. QueuedUpTo(j) = {}
  <2> SUFFICES ASSUME NEW k \in 1 .. j, NEW i \in DOMAIN queue, queue[i] = k
               PROVE  FALSE
    BY DEF QueuedUpTo
  <2>1. worker.job < k /\ worker.job \in Int /\ k <= j
    BY DEF CountInv, CustodyInv, QueueInOrder, TypeOK, JobIds
  <2> QED
    BY <2>1 DEF JobIds
<1>2. Cardinality(QueuedUpTo(j)) = 0
  BY <1>1, FS_EmptySet
<1>3. 0 * StepsOfJob = 0
  BY Product, 0 \in Nat
<1> QED
  BY <1>1, <1>2, <1>3 DEF StepsUpTo

LEMMA UpToTyped ==
  ASSUME CountInv, NEW j \in JobIds
  PROVE  /\ StepsUpTo(j) \in Nat
         /\ StepsUpTo(j) = 0 => QueuedUpTo(j) = {} /\ (worker.phase = "idle" \/ j < worker.job)
<1> DEFINE q == Cardinality(QueuedUpTo(j))
           p == q * StepsOfJob
<1>1. q \in Nat /\ p \in Nat /\ (q = 0 <=> p = 0) /\ IsFiniteSet(QueuedUpTo(j))
  BY CountsTyped, Product
<1>2. StepsHeld \in Nat /\ (worker.phase = "idle" <=> StepsHeld = 0)
  BY HeldTyped DEF CountInv
<1>3. q = 0 => QueuedUpTo(j) = {}
  BY <1>1, FS_EmptySet
<1>4. StepsUpTo(j) = p + (IF worker.job <= j THEN StepsHeld ELSE 0)
  BY DEF StepsUpTo
<1>5. worker.job \in Int /\ j \in Int
  BY DEF CountInv, TypeOK, WorkerRecord, JobIds
<1> HIDE DEF p, q
<1> QED
  BY <1>1, <1>2, <1>3, <1>4, <1>5

\* Two sums compared.
LEMMA LowerSum ==
  /\ \A p, k, m \in Nat : k < m => p + k < p + m /\ p + m # 0
  /\ \A p, q, k, m \in Nat : k < m /\ q + m <= p => q + 0 < p /\ q + k < p /\ p # 0
OBVIOUS

\* A step of the worker brings it nearer to the end of every job not done.
LEMMA WorkerNears ==
  ASSUME CountInv, TypeOK', WorkerStep, NEW j \in JobIds
  PROVE  /\ StepsUpTo(j) # 0 => Nearer(j)
         /\ StepsUpTo(j) = 0 => StepsUpTo(j)' = 0
<1> DEFINE q == Cardinality(QueuedUpTo(j))
           p == q * StepsOfJob
<1>1. q \in Nat /\ p \in Nat /\ (q = 0 <=> p = 0) /\ IsFiniteSet(QueuedUpTo(j))
  BY CountsTyped, Product
<1>2. /\ StepsUpTo(j) = p + (IF worker.job <= j THEN StepsHeld ELSE 0)
      /\ StepsUpTo(j)' = p' + (IF worker'.job <= j THEN StepsHeld' ELSE 0)
  BY DEF StepsUpTo
<1>3. StepsHeld \in Nat /\ StepsHeld' \in Nat /\ (worker.phase = "idle" <=> StepsHeld = 0)
      /\ (worker'.phase = "between" => StepsHeld' < StepsOfJob)
  <2>1. StepsHeld \in Nat /\ (worker.phase = "idle" <=> StepsHeld = 0)
    BY HeldTyped DEF CountInv
  <2>2. (TypeOK => StepsHeld \in Nat /\ (worker.phase = "between" => StepsHeld < StepsOfJob))'
    BY HeldTyped, PTL
  <2>3. StepsOfJob' = StepsOfJob
    BY DEF StepsOfJob
  <2> QED
    BY <2>1, <2>2, <2>3
<1>4. worker.job \in Int /\ worker'.job \in Int /\ j \in Int
  BY DEF CountInv, TypeOK, WorkerRecord, JobIds
<1>5. CASE worker.phase # "idle"
  <2>1. StepsHeld' < StepsHeld /\ queue' = queue /\ worker'.job \in {0, worker.job}
    BY <1>5, HeldStep DEF CountInv
  <2>2. q' = q /\ p' = p
    BY <2>1 DEF QueuedUpTo, StepsOfJob
  <2>3. worker.job \in JobIds /\ (worker'.job = 0 => worker'.phase = "idle")
    BY <1>5 DEF CountInv, TypeOK, JobIds
  <2>4. worker'.phase = "idle" => StepsHeld' = 0
    BY DEF StepsHeld
  <2>5. CASE worker.job <= j
    <3> HIDE DEF p, q
    <3>1. StepsUpTo(j) = p + StepsHeld
      BY <1>2, <2>5
    <3>2. worker'.job <= j
      BY <1>4, <2>1, <2>5 DEF JobIds
    <3>3. StepsUpTo(j)' = p + StepsHeld'
      BY <1>2, <2>2, <3>2
    <3>4. p + StepsHeld' < p + StepsHeld /\ p + StepsHeld # 0
      <4>1. p \in Nat /\ StepsHeld \in Nat /\ StepsHeld' \in Nat
        BY <1>1, <1>3
      <4>2. StepsHeld' < StepsHeld
        BY <2>1
      <4> QED
        BY <4>1, <4>2, LowerSum
    <3>5. StepsUpTo(j)' < StepsUpTo(j)
      BY <3>1, <3>3, <3>4
    <3>6. StepsUpTo(j) # 0
      BY <3>1, <3>4
    <3> QED
      BY <3>5, <3>6 DEF Nearer
  <2>6. CASE ~(worker.job <= j)
    <3>1. StepsUpTo(j) = 0
      BY <1>5, <2>6, YoungerIsPast
    <3> HIDE DEF p, q
    <3>2. p = 0
      BY <1>1, <1>2, <2>6, <3>1
    <3>3. worker'.job <= j => worker'.job = 0
      BY <2>1, <2>6
    <3>4. (IF worker'.job <= j THEN StepsHeld' ELSE 0) = 0
      BY <2>3, <2>4, <3>3
    <3>5. StepsUpTo(j)' = 0
      BY <1>2, <2>2, <3>2, <3>4
    <3> QED
      BY <3>1, <3>5
  <2> QED
    BY <2>5, <2>6
<1>6. CASE worker.phase = "idle"
  <2>1. WorkerTake
    BY <1>6 DEF WorkerStep, WorkerFinishJob, WorkerAlreadyDone, WorkerOutOfOrder, WorkerStart,
       Looking, IndexingMarks, IndexingSucceeds, IndexingFails
  <2>2. worker'.phase = "between" /\ worker'.job = Head(queue)
    BY <2>1 DEF WorkerTake, At
  <2>3. /\ QueuedUpTo(j)' \subseteq QueuedUpTo(j)
        /\ QueuedUpTo(j) # {} =>
             Head(queue) \in QueuedUpTo(j) /\ Head(queue) \notin QueuedUpTo(j)'
        /\ Head(queue) <= j => QueuedUpTo(j) # {}
    BY <2>1, TakeCounts DEF CountInv
  <2>4. CASE QueuedUpTo(j) = {}
    <3>1. q' = 0 /\ q = 0
      BY <2>3, <2>4, FS_EmptySet
    <3>2. p' = 0 * StepsOfJob
      BY <3>1 DEF StepsOfJob
    <3>3. p' = 0 /\ p = 0
      BY <1>1, <3>1, <3>2, Product, 0 \in Nat
    <3> HIDE DEF p, q
    <3>4. ~(worker'.job <= j) /\ StepsHeld = 0
      BY <1>3, <1>6, <2>2, <2>3, <2>4
    <3>5. StepsUpTo(j)' = 0
      BY <1>2, <3>3, <3>4
    <3>6. StepsUpTo(j) = 0
      BY <1>2, <3>3, <3>4
    <3> QED
      BY <3>5, <3>6
  <2>5. CASE QueuedUpTo(j) # {}
    <3>1. QueuedUpTo(j)' \in SUBSET (QueuedUpTo(j) \ {Head(queue)}) /\ Head(queue) \in QueuedUpTo(j)
      BY <2>3, <2>5
    <3>2. q' + 1 <= q /\ q' \in Nat
      BY <1>1, <3>1, OneLess
    <3>3. p' = q' * StepsOfJob
      BY DEF StepsOfJob
    <3> HIDE DEF p
    <3>4. p' + StepsOfJob <= p /\ p' \in Nat /\ StepsOfJob \in Nat
      <4>1. q' * StepsOfJob + StepsOfJob <= q * StepsOfJob /\ q' * StepsOfJob \in Nat
        BY <1>1, <3>2, Product
      <4> QED
        BY <3>3, <4>1, <1>1, Product DEF p
    <3> HIDE DEF q
    <3>5. StepsHeld = 0 /\ StepsHeld' \in Nat /\ StepsHeld' < StepsOfJob
      BY <1>3, <1>6, <2>2
    <3>6. StepsUpTo(j) = p
      BY <1>1, <1>2, <3>5
    <3>7. 0 < StepsOfJob
      BY BoundsAssumption DEF StepsOfJob
    <3>8. p' + 0 < p /\ p' + StepsHeld' < p /\ p # 0
      <4>1. p \in Nat /\ p' \in Nat /\ p' + StepsOfJob <= p
        BY <1>1, <3>4
      <4> QED
        BY <3>4, <3>5, <3>7, <4>1, LowerSum
    <3>9. StepsUpTo(j)' < StepsUpTo(j)
      <4>1. CASE worker'.job <= j
        BY <1>2, <3>6, <3>8, <4>1
      <4>2. CASE ~(worker'.job <= j)
        BY <1>2, <3>6, <3>8, <4>2
      <4> QED
        BY <4>1, <4>2
    <3> QED
      BY <3>6, <3>8, <3>9 DEF Nearer
  <2> QED
    BY <2>4, <2>5
<1> QED
  BY <1>5, <1>6

\* A request that is served, or accepted, adds nothing before a job there is.
LEMMA RequestsComeAfter ==
  ASSUME CountInv, NEW h \in Handlers,
         HandlerStep(h) \/ \E t \in Tenants, nos \in SUBSET Episodes : SubmitBegin(h, t, nos),
         NEW j \in 1 .. issued
  PROVE  StepsUpTo(j)' = StepsUpTo(j)
<1>1. worker' = worker
  BY DEF HandlerStep, SubmitRead, SubmitReject, SubmitQueueFull, SubmitModelLimit, SubmitAccept,
     SubmitBegin, Refuse
<1>2. /\ issued \in 0 .. MaxJobs /\ queue \in Seq(JobIds)
      /\ worker.phase # "idle" => worker.job \in 1 .. issued
  BY DEF CountInv, TypeOK, JobsInv, HeldIsIssued, JobIds
<1>3. CASE ~SubmitAccept(h)
  <2>1. UNCHANGED <<queue, status>>
    BY <1>3 DEF HandlerStep, SubmitRead, SubmitReject, SubmitQueueFull, SubmitModelLimit,
       SubmitBegin, Refuse, jobVars
  <2> QED
    BY <1>1, <2>1 DEF StepsUpTo, QueuedUpTo, StepsHeld, ToDo, StepsOfJob
<1>4. CASE SubmitAccept(h)
  <2>1. /\ queue' = Append(queue, issued + 1) /\ issued + 1 \in JobIds
        /\ \A k \in JobIds \ {issued + 1} : status'[k] = status[k]
    BY <1>4 DEF SubmitAccept, CountInv, TypeOK
  <2>2. QueuedUpTo(j)' = QueuedUpTo(j)
    <3>1. /\ DOMAIN queue' = DOMAIN queue \cup {Len(queue) + 1}
          /\ \A i \in DOMAIN queue : queue'[i] = queue[i]
          /\ queue'[Len(queue) + 1] = issued + 1
      BY <1>2, <2>1
    <3>2. issued + 1 \notin 1 .. j
      BY <1>2
    <3> QED
      BY <3>1, <3>2 DEF QueuedUpTo
  <2>3. StepsHeld' = StepsHeld
    <3>1. worker.phase = "idle" => StepsHeld = 0 /\ StepsHeld' = 0
      BY <1>1 DEF StepsHeld
    <3>2. worker.phase # "idle" => worker.job \in JobIds \ {issued + 1}
      <4>1. \A k \in 1 .. issued : k \in JobIds /\ k # issued + 1
        BY <1>2, BoundsAssumption DEF JobIds
      <4> QED
        BY <1>2, <4>1
    <3>3. worker.phase # "idle" => ToDo(worker.job)' = ToDo(worker.job)
      BY <1>1, <2>1, <3>2 DEF ToDo
    <3> QED
      BY <1>1, <3>1, <3>3 DEF StepsHeld
  <2> QED
    BY <1>1, <2>2, <2>3 DEF StepsUpTo, StepsOfJob
<1> QED
  BY <1>3, <1>4

\* A job that is not done has the worker still coming to it, in a number of
\* steps that each of the worker's steps lowers and nothing raises: not the
\* failures of its chapters or of other jobs, nor any job accepted later.  Only
\* a restart ends it otherwise.
THEOREM JobsAreFinite ==
  Spec => /\ [](\A j \in JobIds :
                  /\ StepsUpTo(j) \in Nat
                  /\ StepsUpTo(j) = 0 => \A n \in Episodes : status[j][n] \notin Unfinished)
          /\ [][restarts' = restarts =>
                  \A j \in 1 .. issued :
                    /\ StepsUpTo(j)' <= StepsUpTo(j)
                    /\ WorkerStep /\ StepsUpTo(j) # 0 => Nearer(j)]_vars
<1> DEFINE Ends(j) == /\ StepsUpTo(j) \in Nat
                      /\ StepsUpTo(j) = 0 => \A n \in Episodes : status[j][n] \notin Unfinished
           AllEnd == \A j \in JobIds : Ends(j)
           Nears(j) == /\ StepsUpTo(j)' <= StepsUpTo(j)
                       /\ WorkerStep /\ StepsUpTo(j) # 0 => Nearer(j)
           AllNear == restarts' = restarts => \A j \in 1 .. issued : Nears(j)
<1>1. ASSUME CountInv, NEW j \in JobIds
      PROVE  Ends(j)
  <2> SUFFICES ASSUME StepsUpTo(j) = 0, NEW n \in Episodes, status[j][n] \in Unfinished
               PROVE  FALSE
    BY <1>1, UpToTyped
  <2>1. QueuedUpTo(j) = {} /\ (worker.phase = "idle" \/ j < worker.job)
    BY <1>1, UpToTyped
  <2>2. ~(worker.phase # "idle" /\ worker.job = j)
    BY <1>1, <2>1 DEF CountInv, TypeOK, WorkerRecord, JobIds
  <2>3. PICK i \in DOMAIN queue : queue[i] = j
    BY <1>1, <2>2 DEF CountInv, CustodyInv, NothingLost
  <2>4. j \in 1 .. j
    BY DEF JobIds
  <2> QED
    BY <2>1, <2>3, <2>4 DEF QueuedUpTo
<1>2. ASSUME CountInv, TypeOK', Next, restarts' = restarts, NEW j \in 1 .. issued
      PROVE  Nears(j)
  <2>1. j \in JobIds
    <3>1. issued \in 0 .. MaxJobs
      BY <1>2 DEF CountInv, TypeOK
    <3> QED
      BY <3>1, BoundsAssumption DEF JobIds
  <2>2. StepsUpTo(j) \in Nat
    BY <1>2, <2>1, UpToTyped
  <2>3. StepsUpTo(j)' \in Nat
    <3>1. (TypeOK => StepsHeld \in Nat)'
      BY HeldTyped, PTL
    <3>2. (Cardinality(QueuedUpTo(j)) \in Nat)'
      <4>1. IsFiniteSet(1 .. j)
        BY <2>1, FS_Interval, 1 \in Int, j \in Int DEF JobIds
      <4>2. QueuedUpTo(j)' \subseteq 1 .. j
        BY DEF QueuedUpTo
      <4>3. IsFiniteSet(QueuedUpTo(j)')
        BY <4>1, <4>2, FS_Subset
      <4> QED
        BY <4>3, FS_CardinalityType
    <3>3. StepsUpTo(j)' = Cardinality(QueuedUpTo(j))' * StepsOfJob
                            + (IF worker'.job <= j THEN StepsHeld' ELSE 0)
      BY DEF StepsUpTo, StepsOfJob
    <3>4. Cardinality(QueuedUpTo(j))' * StepsOfJob \in Nat
      BY <3>2, Product
    <3> QED
      BY <1>2, <3>1, <3>3, <3>4
  <2>4. WorkerStep => (StepsUpTo(j) # 0 => Nearer(j)) /\ (StepsUpTo(j) = 0 => StepsUpTo(j)' = 0)
    BY <1>2, <2>1, WorkerNears
  <2>5. ASSUME NEW h \in Handlers,
               HandlerStep(h) \/ \E t \in Tenants, nos \in SUBSET Episodes : SubmitBegin(h, t, nos)
        PROVE  StepsUpTo(j)' = StepsUpTo(j)
    BY <1>2, <2>5, RequestsComeAfter
  <2>6. ~Restart
    BY <1>2 DEF Restart, CountInv, TypeOK
  <2>7. StepsUpTo(j)' <= StepsUpTo(j)
    <3>1. CASE WorkerStep
      BY <2>2, <2>3, <2>4, <3>1 DEF Nearer
    <3>2. CASE ~WorkerStep
      <4>1. StepsUpTo(j)' = StepsUpTo(j)
        BY <1>2, <2>5, <2>6, <3>2 DEF Next
      <4> QED
        BY <2>2, <4>1
    <3> QED
      BY <3>1, <3>2
  <2> QED
    BY <2>4, <2>7
<1>3. CountInv => AllEnd
  BY <1>1
<1> HIDE DEF Ends, Nears
<1>4. CountInv /\ TypeOK' /\ [Next]_vars => [AllNear]_vars
  BY <1>2
<1> HIDE DEF AllEnd, AllNear
<1>5. Spec => []CountInv
  <2>1. Init => CustodyInv
    BY CustodyInit
  <2> QED
    BY <2>1, CustodyNext, TypeCorrect, JobsInvariant, PTL DEF Spec, CountInv
<1>6. Spec => []AllEnd
  BY <1>3, <1>5, PTL
<1>7. CountInv => TypeOK
  BY DEF CountInv
<1>8. Spec => [][AllNear]_vars
  BY <1>4, <1>5, <1>7, PTL DEF Spec
<1> QED
  BY <1>6, <1>8 DEF AllEnd, AllNear, Ends, Nears

=============================================================================
