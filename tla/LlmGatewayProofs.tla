--------------------------- MODULE LlmGatewayProofs ---------------------------
(***************************************************************************)
(* Theorems about the gateway and the gate, for any number of calls, slots *)
(* and attempts and any limit.                                             *)
(***************************************************************************)
EXTENDS LlmGatewayProps, FiniteSetTheorems, TLAPS

\* The timeouts of a call, but for one that ended it, fell on different
\* attempts that were early enough to be retried; who backs off has an attempt
\* left.
Spread(r) ==
  /\ r.timeouts <= TimeoutMaxAttempts
  /\ r.at \in {"waiting", "sent"} =>
       r.timeouts <= r.attempt /\ r.timeouts < TimeoutMaxAttempts
  /\ r.at = "backoff" =>
       /\ r.timeouts <= r.attempt + 1
       /\ r.timeouts < TimeoutMaxAttempts
       /\ r.attempt < MaxAttempts - 1

TimeoutsSpread == \A c \in Calls : Spread(call[c])

\* Whoever is in the queue waits, and queues once.
QueueWaits ==
  /\ \A i \in DOMAIN waiting : call[waiting[i]].at = "waiting"
  /\ \A i, k \in DOMAIN waiting : waiting[i] = waiting[k] => i = k

CallTypes ==
  /\ call \in [Calls -> CallRecord]
  /\ waiting \in Seq(Calls)
  /\ holders \in SUBSET Calls

MeterTypes == axis \in AxisRecord /\ client \in ClientRecord

CallInv == CallTypes /\ QueueWaits /\ TimeoutsSpread /\ SlotsAreInFlight

-----------------------------------------------------------------------------
(* The calls.                                                              *)

\* No call is anywhere at the start.
LEMMA CallsInit == Init => CallInv
<1> SUFFICES ASSUME Init PROVE CallInv
  OBVIOUS
<1> USE GatewayBounds
<1>1. Free \in CallRecord /\ Spread(Free) /\ Free.at = "free"
  BY DEF Free, At, CallRecord, Spread
<1>2. CallTypes
  BY <1>1 DEF Init, CallTypes
<1>3. QueueWaits /\ TimeoutsSpread /\ SlotsAreInFlight
  BY <1>1 DEF Init, QueueWaits, TimeoutsSpread, SlotsAreInFlight
<1> QED
  BY <1>2, <1>3 DEF CallInv

\* A call that lines up, for the first time or again.
LEMMA LineUpKeeps ==
  ASSUME CallInv, NEW c \in Calls, NEW r \in CallRecord, Spread(r), r.at = "waiting",
         call[c].at \notin {"waiting", "sent"},
         call' = [call EXCEPT ![c] = r], waiting' = Append(waiting, c), UNCHANGED holders
  PROVE  CallInv'
<1> USE DEF CallInv, CallTypes
<1>1. CallTypes'
  OBVIOUS
<1>2. call'[c] = r /\ \A d \in Calls \ {c} : call'[d] = call[d]
  OBVIOUS
<1>3. TimeoutsSpread' /\ SlotsAreInFlight'
  BY <1>2 DEF TimeoutsSpread, SlotsAreInFlight
<1>4. \A i \in DOMAIN waiting : waiting[i] \in Calls /\ waiting[i] # c
  BY DEF QueueWaits
<1>5. /\ DOMAIN waiting' = 1 .. Len(waiting) + 1
      /\ DOMAIN waiting = 1 .. Len(waiting)
      /\ waiting'[Len(waiting) + 1] = c
      /\ \A i \in DOMAIN waiting : waiting'[i] = waiting[i]
  OBVIOUS
<1>6. QueueWaits'
  BY <1>2, <1>4, <1>5 DEF QueueWaits
<1> QED
  BY <1>1, <1>3, <1>6

\* A call that ends its attempt, however it ends.
LEMMA LeaveKeeps ==
  ASSUME CallInv, NEW c \in Calls, NEW r \in CallRecord, Spread(r),
         r.at \notin {"waiting", "sent"}, call[c].at = "sent",
         call' = [call EXCEPT ![c] = r], holders' = holders \ {c}, UNCHANGED waiting
  PROVE  CallInv'
<1> USE DEF CallInv, CallTypes
<1>1. CallTypes'
  OBVIOUS
<1>2. call'[c] = r /\ \A d \in Calls \ {c} : call'[d] = call[d]
  OBVIOUS
<1>3. TimeoutsSpread' /\ SlotsAreInFlight'
  BY <1>2 DEF TimeoutsSpread, SlotsAreInFlight
<1>4. \A i \in DOMAIN waiting : waiting[i] \in Calls /\ waiting[i] # c
  BY DEF QueueWaits
<1>5. QueueWaits'
  BY <1>2, <1>4 DEF QueueWaits
<1> QED
  BY <1>1, <1>3, <1>5

\* A call that gets a slot.
LEMMA SendKeeps ==
  ASSUME CallInv, NEW c \in Calls, Send(c)
  PROVE  CallInv'
<1> USE DEF CallInv, CallTypes
<1> DEFINE r == [call[c] EXCEPT !.at = "sent"]
<1>1. waiting # <<>> /\ c = waiting[1] /\ 1 \in DOMAIN waiting
  BY DEF Send
<1>2. call[c].at = "waiting" /\ call[c] \in CallRecord /\ Spread(call[c])
  BY <1>1 DEF QueueWaits, TimeoutsSpread
<1>3. r \in CallRecord /\ Spread(r) /\ r.at = "sent"
  BY <1>2 DEF CallRecord, Spread
<1>4. call' = [call EXCEPT ![c] = r] /\ holders' = holders \cup {c} /\ waiting' = Tail(waiting)
  BY DEF Send
<1> HIDE DEF r
<1>5. CallTypes'
  BY <1>1, <1>3, <1>4
<1>6. call'[c] = r /\ \A d \in Calls \ {c} : call'[d] = call[d]
  BY <1>4
<1>7. TimeoutsSpread' /\ SlotsAreInFlight'
  BY <1>3, <1>4, <1>6 DEF TimeoutsSpread, SlotsAreInFlight
<1>8. \A i \in DOMAIN waiting' :
        i + 1 \in DOMAIN waiting /\ waiting'[i] = waiting[i + 1] /\ waiting[i + 1] \in Calls
  BY <1>1, <1>4
<1>9. QueueWaits'
  <2>1. ASSUME NEW i \in DOMAIN waiting'
        PROVE  waiting'[i] # c /\ call'[waiting'[i]].at = "waiting"
    <3>1. i \in Nat \ {0} /\ i + 1 # 1
      OBVIOUS
    <3>2. waiting[i + 1] # c
      BY <3>1, <1>1, <1>8 DEF QueueWaits
    <3> QED
      BY <3>2, <1>6, <1>8 DEF QueueWaits
  <2>2. ASSUME NEW i \in DOMAIN waiting', NEW k \in DOMAIN waiting', waiting'[i] = waiting'[k]
        PROVE  i = k
    BY <1>8, <2>2 DEF QueueWaits
  <2> QED
    BY <2>1, <2>2 DEF QueueWaits
<1> QED
  BY <1>5, <1>7, <1>9

\* A call that fails in a way that is retried backs off if it has an attempt
\* left, and fails if not.
LEMMA RetriedSpread ==
  ASSUME CallInv, NEW c \in Calls, call[c].at = "sent"
  PROVE  \A p \in {Retried(c), "failed", "answered"} :
           /\ [call[c] EXCEPT !.at = p] \in CallRecord
           /\ Spread([call[c] EXCEPT !.at = p])
           /\ [call[c] EXCEPT !.at = p].at \notin {"waiting", "sent"}
<1>1. call[c] \in CallRecord /\ Spread(call[c])
  BY DEF CallInv, CallTypes, TimeoutsSpread
<1>2. Retried(c) \in {"failed", "backoff"}
      /\ (Retried(c) = "backoff" => call[c].attempt < MaxAttempts - 1)
  BY <1>1, GatewayBounds DEF Retried, LastAttempt, CallRecord
<1> SUFFICES ASSUME NEW p \in {"failed", "answered", "backoff"},
                    p = "backoff" => call[c].attempt < MaxAttempts - 1
             PROVE  /\ [call[c] EXCEPT !.at = p] \in CallRecord
                    /\ Spread([call[c] EXCEPT !.at = p])
                    /\ [call[c] EXCEPT !.at = p].at \notin {"waiting", "sent"}
  BY <1>2
<1> QED
  BY <1>1, GatewayBounds DEF CallRecord, Spread

\* A timeout is retried only while TimeoutMaxAttempts allows.
LEMMA TimedOutKeeps ==
  ASSUME CallInv, NEW c \in Calls, TimedOut(c)
  PROVE  CallInv'
<1> DEFINE p == IF call[c].attempt >= TimeoutMaxAttempts - 1 THEN "failed" ELSE "backoff"
           r == At(p, call[c].attempt, call[c].timeouts + 1)
<1>1. call[c] \in CallRecord /\ Spread(call[c]) /\ call[c].at = "sent"
  BY DEF CallInv, CallTypes, TimeoutsSpread, TimedOut
<1>2. r \in CallRecord /\ Spread(r) /\ r.at \notin {"waiting", "sent"}
  BY <1>1, GatewayBounds DEF At, CallRecord, Spread
<1>3. call' = [call EXCEPT ![c] = r] /\ holders' = holders \ {c} /\ UNCHANGED waiting
  BY DEF TimedOut, CallInv, CallTypes
<1> QED
  BY <1>1, <1>2, <1>3, LeaveKeeps

\* Every step of a call keeps CallInv.
LEMMA CallsNext == CallInv /\ [Next]_vars => CallInv'
<1> SUFFICES ASSUME CallInv, [Next]_vars PROVE CallInv'
  OBVIOUS
<1>1. ASSUME UNCHANGED calls
      PROVE  CallInv'
  BY <1>1 DEF calls, CallInv, CallTypes, QueueWaits, TimeoutsSpread, SlotsAreInFlight
<1>2. ASSUME NEW c \in Calls, Request(c)
      PROVE  CallInv'
  <2>1. /\ At("waiting", 0, 0) \in CallRecord /\ Spread(At("waiting", 0, 0))
        /\ At("waiting", 0, 0).at = "waiting"
    BY GatewayBounds DEF At, CallRecord, Spread
  <2> QED
    BY <1>2, <2>1, LineUpKeeps DEF Request
<1>3. ASSUME NEW c \in Calls, Send(c)
      PROVE  CallInv'
  BY <1>3, SendKeeps
<1>4. ASSUME NEW c \in Calls, NEW p \in {Retried(c), "failed", "answered"}, Leave(c, p)
      PROVE  CallInv'
  <2>1. call' = [call EXCEPT ![c] = [call[c] EXCEPT !.at = p]]
    BY <1>4 DEF Leave
  <2> QED
    BY <1>4, <2>1, RetriedSpread, LeaveKeeps DEF Leave
<1>5. ASSUME NEW c \in Calls, Outcome(c)
      PROVE  CallInv'
  BY <1>4, <1>5, TimedOutKeeps DEF Outcome, Answered, Congested, QuotaExhausted,
     ServerFails, Refused
<1>6. ASSUME NEW c \in Calls, Wake(c)
      PROVE  CallInv'
  <2> DEFINE r == At("waiting", call[c].attempt + 1, call[c].timeouts)
  <2>1. call[c] \in CallRecord /\ Spread(call[c]) /\ call[c].at = "backoff"
    BY <1>6 DEF CallInv, CallTypes, TimeoutsSpread, Wake
  <2>2. r \in CallRecord /\ Spread(r) /\ r.at = "waiting"
    BY <2>1, GatewayBounds DEF At, CallRecord, Spread
  <2>3. call' = [call EXCEPT ![c] = r] /\ waiting' = Append(waiting, c) /\ UNCHANGED holders
    BY <1>6 DEF Wake, CallInv, CallTypes
  <2> QED
    BY <2>1, <2>2, <2>3, LineUpKeeps
<1>7. ASSUME Ask \/ OthersAsk \/ Tick \/ UNCHANGED vars
      PROVE  UNCHANGED calls
  BY <1>7 DEF Ask, OthersAsk, Tick, vars, calls
<1> QED
  BY <1>1, <1>2, <1>3, <1>5, <1>6, <1>7 DEF Next, CallStep

LEMMA GatewayInvariant == Spec => []CallInv
<1> QED
  BY CallsInit, CallsNext, PTL DEF Spec

\* Who holds a slot is in flight, and who is in flight holds one.
THEOREM SlotsFollowCalls == Spec => []SlotsAreInFlight
<1>1. CallInv => SlotsAreInFlight
  BY DEF CallInv
<1> QED
  BY <1>1, GatewayInvariant, PTL

\* No call times out more often than TimeoutMaxAttempts, however its failures
\* are mixed.
THEOREM TimeoutsStayBounded == Spec => []TimeoutsBounded
<1>1. CallInv => TimeoutsBounded
  BY DEF CallInv, TimeoutsSpread, Spread, TimeoutsBounded
<1> QED
  BY <1>1, GatewayInvariant, PTL

-----------------------------------------------------------------------------
(* The semaphore.                                                          *)

SlotsKept == IsFiniteSet(holders) /\ Cardinality(holders) <= Slots

\* A slot that is taken was free, one that is given back stays free.
LEMMA SlotsStep == SlotsKept /\ [Next]_vars => SlotsKept'
<1> SUFFICES ASSUME SlotsKept, [Next]_vars PROVE SlotsKept'
  OBVIOUS
<1> USE GatewayBounds
<1>1. IsFiniteSet(holders) /\ Cardinality(holders) \in Nat /\ Cardinality(holders) <= Slots
  BY FS_CardinalityType DEF SlotsKept
<1>2. ASSUME UNCHANGED holders
      PROVE  SlotsKept'
  BY <1>1, <1>2 DEF SlotsKept
<1>3. ASSUME NEW c \in Calls, Send(c)
      PROVE  SlotsKept'
  <2>1. holders' = holders \cup {c} /\ Cardinality(holders) < Slots
    BY <1>3 DEF Send
  <2>2. /\ IsFiniteSet(holders \cup {c})
        /\ Cardinality(holders \cup {c})
             = IF c \in holders THEN Cardinality(holders) ELSE Cardinality(holders) + 1
    BY <1>1, FS_AddElement
  <2>3. Cardinality(holders \cup {c}) <= Slots
    BY <1>1, <2>1, <2>2
  <2> QED
    BY <2>1, <2>2, <2>3 DEF SlotsKept
<1>4. ASSUME NEW c \in Calls, holders' = holders \ {c}
      PROVE  SlotsKept'
  <2>1. IsFiniteSet(holders \ {c}) /\ Cardinality(holders \ {c}) <= Cardinality(holders)
    BY <1>1, FS_Subset
  <2>2. Cardinality(holders \ {c}) \in Nat
    BY <2>1, FS_CardinalityType
  <2> QED
    BY <1>1, <1>4, <2>1, <2>2 DEF SlotsKept
<1>5. ASSUME NEW c \in Calls, Outcome(c)
      PROVE  holders' = holders \ {c}
  BY <1>5 DEF Outcome, Answered, Congested, QuotaExhausted, TimedOut, ServerFails, Refused, Leave
<1>6. ASSUME (\E c \in Calls : Request(c) \/ Wake(c)) \/ Ask \/ OthersAsk \/ Tick \/ UNCHANGED vars
      PROVE  UNCHANGED holders
  BY <1>6 DEF Request, Wake, Ask, OthersAsk, Tick, vars, calls
<1> QED
  BY <1>2, <1>3, <1>4, <1>5, <1>6 DEF Next, CallStep

LEMMA SlotsInvariant == Spec => []SlotsKept
<1>1. Init => SlotsKept
  BY FS_EmptySet, GatewayBounds DEF Init, SlotsKept
<1> QED
  BY <1>1, SlotsStep, PTL DEF Spec

\* The calls in flight never exceed the model's limit, for any number of calls.
THEOREM InFlightStaysBounded == Spec => []InFlightBounded
<1>1. CallInv /\ SlotsKept => InFlightBounded
  BY DEF CallInv, SlotsAreInFlight, SlotsKept, InFlightBounded
<1> QED
  BY <1>1, GatewayInvariant, SlotsInvariant, PTL

-----------------------------------------------------------------------------
(* What EveryCallReturns rests on besides fairness: a call has only so many *)
(* steps before it, and the queue never waits for nobody.                   *)

\* The steps a call has before it at most: queued, sent and backed off for each
\* attempt.
StepsLeft(r) ==
  LET later == 3 * (MaxAttempts - 1 - r.attempt)
  IN  CASE r.at = "waiting" -> later + 3
        [] r.at = "sent"    -> later + 2
        [] r.at = "backoff" -> later + 1
        [] OTHER            -> 0

\* A step of a call is one of those it had left, and of no other call.
StepIsCounted(c) ==
  /\ StepsLeft(call'[c]) < StepsLeft(call[c])
  /\ \A d \in Calls \ {c} : call'[d] = call[d]

LEMMA StepsLeftBounded ==
  ASSUME NEW r \in CallRecord
  PROVE  StepsLeft(r) \in 0 .. 3 * MaxAttempts
BY GatewayBounds DEF CallRecord, StepsLeft

LEMMA StepCounts ==
  ASSUME CallInv, NEW c \in Calls, CallStep(c)
  PROVE  StepIsCounted(c)
<1> USE GatewayBounds DEF CallInv, CallTypes
<1>1. call[c] \in CallRecord /\ Spread(call[c])
  BY DEF TimeoutsSpread
<1>2. call[c].attempt \in 0 .. MaxAttempts - 1
  BY <1>1 DEF CallRecord
<1>3. CASE Send(c)
  <2>1. call[c].at = "waiting" /\ call' = [call EXCEPT ![c].at = "sent"]
    BY <1>3 DEF Send, QueueWaits
  <2>2. call'[c].at = "sent" /\ call'[c].attempt = call[c].attempt
    BY <1>1, <2>1 DEF CallRecord
  <2> QED
    BY <1>2, <2>1, <2>2 DEF StepIsCounted, StepsLeft
<1>4. ASSUME NEW p \in {"backoff", "failed", "answered"}, call[c].at = "sent",
             call'[c].at = p, call'[c].attempt = call[c].attempt,
             \A d \in Calls \ {c} : call'[d] = call[d]
      PROVE  StepIsCounted(c)
  BY <1>2, <1>4 DEF StepIsCounted, StepsLeft
<1>5. ASSUME NEW p \in {Retried(c), "failed", "answered"}, Leave(c, p)
      PROVE  StepIsCounted(c)
  <2>1. p \in {"backoff", "failed", "answered"}
    BY DEF Retried
  <2>2. call'[c].at = p /\ call'[c].attempt = call[c].attempt /\ call[c].at = "sent"
    BY <1>1, <1>5 DEF Leave, CallRecord
  <2>3. \A d \in Calls \ {c} : call'[d] = call[d]
    BY <1>5 DEF Leave
  <2> QED
    BY <1>4, <2>1, <2>2, <2>3
<1>6. CASE TimedOut(c)
  <2>1. /\ call'[c].at \in {"backoff", "failed"} /\ call'[c].attempt = call[c].attempt
        /\ call[c].at = "sent"
        /\ \A d \in Calls \ {c} : call'[d] = call[d]
    BY <1>6 DEF TimedOut, At
  <2> QED
    BY <1>4, <2>1
<1>7. CASE Wake(c)
  <2>1. /\ call[c].at = "backoff" /\ call'[c].at = "waiting"
        /\ call'[c].attempt = call[c].attempt + 1
        /\ \A d \in Calls \ {c} : call'[d] = call[d]
    BY <1>7 DEF Wake, At
  <2> QED
    BY <1>2, <2>1 DEF StepIsCounted, StepsLeft
<1> QED
  BY <1>3, <1>5, <1>6, <1>7
  DEF CallStep, Outcome, Answered, Congested, QuotaExhausted, ServerFails, Refused

\* However its failures are mixed, a call is answered or fails within three
\* steps for each attempt, and nobody else's steps bring it back.
THEOREM CallsAreFinite ==
  Spec => /\ [](\A c \in Calls : StepsLeft(call[c]) \in 0 .. 3 * MaxAttempts)
          /\ [][\A c \in Calls : CallStep(c) => StepIsCounted(c)]_vars
<1> DEFINE Few == \A c \in Calls : StepsLeft(call[c]) \in 0 .. 3 * MaxAttempts
           Counted == \A c \in Calls : CallStep(c) => StepIsCounted(c)
<1>1. CallInv => Few
  BY StepsLeftBounded DEF CallInv, CallTypes
<1>2. CallInv => Counted
  BY StepCounts
<1> HIDE DEF Few, Counted
<1>3. Spec => []Few
  BY <1>1, GatewayInvariant, PTL
<1>4. CallInv /\ [Next]_vars => [Counted]_vars
  BY <1>2
<1>5. Spec => [][Counted]_vars
  BY <1>4, GatewayInvariant, PTL DEF Spec
<1> QED
  BY <1>3, <1>5 DEF Few, Counted

\* Who waits is in the queue.
WaitersQueued == \A c \in Calls : call[c].at = "waiting" => \E i \in DOMAIN waiting : waiting[i] = c

LEMMA QueuedStep == CallInv /\ WaitersQueued /\ [Next]_vars => WaitersQueued'
<1> SUFFICES ASSUME CallInv, WaitersQueued, [Next]_vars PROVE WaitersQueued'
  OBVIOUS
<1> USE DEF CallInv, CallTypes, WaitersQueued
<1>1. ASSUME UNCHANGED calls
      PROVE  WaitersQueued'
  BY <1>1 DEF calls
<1>2. ASSUME NEW c \in Calls, Request(c) \/ Wake(c)
      PROVE  WaitersQueued'
  <2>1. waiting' = Append(waiting, c) /\ \A d \in Calls \ {c} : call'[d] = call[d]
    BY <1>2 DEF Request, Wake
  <2>2. /\ DOMAIN waiting' = 1 .. Len(waiting) + 1 /\ DOMAIN waiting = 1 .. Len(waiting)
        /\ waiting'[Len(waiting) + 1] = c
        /\ \A i \in DOMAIN waiting : waiting'[i] = waiting[i]
    BY <2>1
  <2> QED
    BY <2>1, <2>2
<1>3. ASSUME NEW c \in Calls, Send(c)
      PROVE  WaitersQueued'
  <2>1. /\ waiting # <<>> /\ c = waiting[1] /\ waiting' = Tail(waiting)
        /\ call' = [call EXCEPT ![c].at = "sent"]
    BY <1>3 DEF Send
  <2>2. call'[c].at = "sent" /\ \A d \in Calls \ {c} : call'[d] = call[d]
    BY <2>1 DEF CallRecord
  <2> SUFFICES ASSUME NEW d \in Calls, call'[d].at = "waiting"
               PROVE  \E i \in DOMAIN waiting' : waiting'[i] = d
    OBVIOUS
  <2>3. d # c /\ call[d].at = "waiting"
    BY <2>2
  <2>4. PICK i \in DOMAIN waiting : waiting[i] = d
    BY <2>3
  <2>5. i \in 2 .. Len(waiting)
    BY <2>1, <2>3, <2>4
  <2>6. i - 1 \in DOMAIN waiting' /\ waiting'[i - 1] = waiting[i]
    BY <2>1, <2>5
  <2> QED
    BY <2>4, <2>6
<1>4. ASSUME NEW c \in Calls, Outcome(c)
      PROVE  WaitersQueued'
  <2>1. /\ UNCHANGED waiting /\ call'[c].at # "waiting"
        /\ \A d \in Calls \ {c} : call'[d] = call[d]
    BY <1>4 DEF Outcome, Answered, Congested, QuotaExhausted, TimedOut, ServerFails, Refused,
       Leave, Retried, At, CallRecord
  <2> QED
    BY <2>1
<1> QED
  BY <1>1, <1>2, <1>3, <1>4 DEF Next, CallStep, Ask, OthersAsk, Tick, vars, calls

\* A call that waits for a slot waits for somebody: there is a slot for the
\* first of the queue, or a call in flight whose end frees one.
SomebodyGoesOn ==
  (\E c \in Calls : call[c].at = "waiting") =>
    /\ waiting # <<>>
    /\ Cardinality(holders) < Slots \/ \E c \in Calls : call[c].at = "sent"

\* The semaphore is never exhausted by calls that are gone or that back off:
\* the queue can always move, or will when a call in flight ends.
THEOREM QueueNeverStuck == Spec => []SomebodyGoesOn
<1>1. Init => WaitersQueued
  BY DEF Init, WaitersQueued, Free, At
<1>2. Spec => []WaitersQueued
  BY <1>1, QueuedStep, GatewayInvariant, PTL DEF Spec
<1>3. ASSUME CallInv, WaitersQueued
      PROVE  SomebodyGoesOn
  <2>1. holders = {} => Cardinality(holders) < Slots
    BY FS_EmptySet, GatewayBounds
  <2>2. holders # {} => \E c \in Calls : call[c].at = "sent"
    BY <1>3 DEF CallInv, SlotsAreInFlight
  <2> QED
    BY <1>3, <2>1, <2>2 DEF WaitersQueued, SomebodyGoesOn
<1> QED
  BY <1>2, <1>3, GatewayInvariant, PTL

-----------------------------------------------------------------------------
(* The meter and the gate.                                                 *)

\* Seconds rounded up are not too few.
LEMMA RoundedUp ==
  ASSUME NEW n \in Nat, NEW s \in Nat \ {0}
  PROVE  /\ (n + s - 1) \div s \in Nat
         /\ ((n + s - 1) \div s) * s >= n
<1>1. PICK q \in Int : q = (n + s - 1) \div s
  OBVIOUS
<1>2. PICK r \in 0 .. s - 1 : n + s - 1 = q * s + r
  BY <1>1
<1> QED
  BY <1>1, <1>2

\* The wait told to a client, whatever the bucket holds.
LEMMA WaitIsWhole ==
  ASSUME NEW a \in AxisRecord
  PROVE  /\ RetryAfter(a) * Second \in Nat
         /\ a.left # Null => a.left \in Nat /\ RetryAfter(a) * Second >= a.left
<1> USE GatewayBounds
<1>1. CASE a.left = Null
  BY <1>1 DEF RetryAfter
<1>2. CASE a.left # Null
  <2> DEFINE k == (a.left + Second - 1) \div Second
  <2>1. a.left \in Nat
    BY <1>2 DEF AxisRecord
  <2>2. k \in Nat /\ k * Second >= a.left
    BY <2>1, RoundedUp
  <2>3. RetryAfter(a) = Larger(1, k)
    BY <1>2 DEF RetryAfter
  <2> HIDE DEF k
  <2>4. CASE k = 0
    BY <2>1, <2>2, <2>3, <2>4 DEF Larger
  <2>5. CASE k # 0
    BY <2>1, <2>2, <2>3, <2>5 DEF Larger
  <2> QED
    BY <2>2, <2>4, <2>5
<1> QED
  BY <1>1, <1>2

\* What the steps do to the meter keeps its types.
LEMMA MeterTyped ==
  /\ \A a \in AxisRecord : Seed(a) \in AxisRecord /\ Refresh(a) \in AxisRecord
  /\ \A h \in Headers : axis \in AxisRecord /\ Observe(h) => axis' \in AxisRecord
<1> USE GatewayBounds DEF AxisRecord, Null
<1>1. \A a \in AxisRecord : Seed(a) \in AxisRecord
  BY DEF Seed, Or, Axis
<1>2. \A a \in AxisRecord : Refresh(a) \in AxisRecord
  BY DEF Refresh, Axis
<1>3. ASSUME NEW h \in Headers, axis \in AxisRecord, Observe(h)
      PROVE  axis' \in AxisRecord
  <2>1. /\ h.limit \in {Null, TpmLimit} /\ h.remaining \in {Null} \cup (0 .. TpmLimit)
        /\ h.left \in {Null} \cup (0 .. MaxReset)
    BY DEF Headers
  <2>2. Axis(Or(h.limit, axis.limit), Or(h.remaining, axis.remaining), Or(h.left, axis.left))
          \in AxisRecord
    BY <1>3, <2>1 DEF Axis, Or
  <2> QED
    BY <1>1, <1>3, <2>2 DEF Observe
<1> QED
  BY <1>1, <1>2, <1>3

\* A call's steps leave the meter alone or bring it a response's headers.
LEMMA CallsObserve ==
  ASSUME NEW c \in Calls, Request(c) \/ CallStep(c)
  PROVE  UNCHANGED <<axis, client>> \/ \E h \in Headers : Observe(h)
<1>1. CASE Request(c) \/ Send(c) \/ Wake(c) \/ TimedOut(c) \/ ServerFails(c) \/ Refused(c)
  BY <1>1 DEF Request, Send, Wake, TimedOut, ServerFails, Refused
<1>2. ASSUME NEW h \in Headers, Answered(c, h) \/ Congested(c, h) \/ QuotaExhausted(c, h)
      PROVE  Observe(h)
  BY <1>2 DEF Answered, Congested, QuotaExhausted
<1> QED
  BY <1>1, <1>2 DEF CallStep, Outcome

LEMMA MeterStep == MeterTypes /\ [Next]_vars => MeterTypes'
<1> SUFFICES ASSUME MeterTypes, [Next]_vars PROVE MeterTypes'
  OBVIOUS
<1> USE GatewayBounds DEF MeterTypes
<1>1. CASE UNCHANGED <<axis, client>>
  BY <1>1
<1>2. ASSUME NEW h \in Headers, Observe(h)
      PROVE  MeterTypes'
  BY <1>2, MeterTyped DEF Observe, ClientRecord
<1>3. CASE Ask
  <2> DEFINE a == Refresh(Seed(axis))
  <2>1. a \in AxisRecord /\ axis' = a
    BY <1>3, MeterTyped DEF Ask
  <2>2. RetryAfter(a) * Second \in Nat
    BY <2>1, WaitIsWhole
  <2>3. client' \in {NoClient, Told(RetryAfter(a) * Second, a.left # Null)}
    BY <1>3 DEF Ask
  <2>4. ASSUME NEW n \in Nat, NEW b \in BOOLEAN
        PROVE  {NoClient, Told(n, b)} \subseteq ClientRecord
    BY DEF ClientRecord, NoClient, Told
  <2> HIDE DEF a
  <2> QED
    BY <2>1, <2>2, <2>3, <2>4
<1>4. CASE Tick
  BY <1>4 DEF Tick, Less, AxisRecord, ClientRecord, Null
<1>5. CASE OthersAsk
  BY <1>5, MeterTyped DEF OthersAsk
<1> QED
  BY <1>1, <1>2, <1>3, <1>4, <1>5, CallsObserve DEF Next, vars

LEMMA MeterInvariant == Spec => []MeterTypes
<1>1. Init => MeterTypes
  BY DEF Init, MeterTypes, AxisRecord, ClientRecord, Axis, NoClient
<1> QED
  BY <1>1, MeterStep, PTL DEF Spec

\* The state of the calls and of the meter is always well typed.
THEOREM GatewayTypes == Spec => []TypeOK
<1>1. CallInv /\ MeterTypes => TypeOK
  BY DEF CallInv, CallTypes, MeterTypes, TypeOK
<1> QED
  BY <1>1, GatewayInvariant, MeterInvariant, PTL

-----------------------------------------------------------------------------
(* The wait that is told: when it suffices, and when no wait does.         *)

Full(a) == a.limit = TpmLimit /\ a.remaining = TpmLimit
Shut(a) == a.left = Null /\ a.limit = TpmLimit /\ a.remaining \in 0 .. TpmLimit /\ ~Open(a)

\* Who waits, as long as no response says otherwise, waits at least until the
\* reset of the bucket, which is full once somebody has looked at it after that;
\* or for nothing, if there is no reset.
WaitsLongEnough ==
  client.at = "waiting" /\ client.quiet =>
    IF client.known
    THEN \/ axis.left \in Nat /\ axis.left <= client.left
         \/ axis.left = Null /\ Full(axis)
    ELSE Shut(axis)

WaitInv == MeterTypes /\ WaitsLongEnough

\* What somebody who asks finds in the bucket.
LEMMA Found ==
  ASSUME NEW a \in AxisRecord
  PROVE  LET b == Refresh(Seed(a))
         IN  /\ b \in AxisRecord /\ b.limit = TpmLimit /\ b.remaining \in 0 .. TpmLimit
             /\ a.left = 0 => b.left = Null /\ Full(b)
             /\ a.left # 0 => b.left = a.left
             /\ a.left = Null /\ Full(a) => Full(b)
             /\ Shut(a) => b = a
<1> DEFINE s == Seed(a)
           b == Refresh(Seed(a))
<1> USE GatewayBounds
<1>1. /\ s \in AxisRecord /\ s.limit = TpmLimit /\ s.remaining \in 0 .. TpmLimit
      /\ s.left = a.left /\ (a.remaining # Null => s.remaining = a.remaining)
  BY DEF Seed, Or, Axis, AxisRecord, Null
<1>2. b = IF s.left = 0 THEN Axis(s.limit, s.limit, Null) ELSE s
  BY DEF Refresh
<1>3. Shut(a) => s = a
  BY <1>1 DEF Shut, AxisRecord, Null
<1> HIDE DEF s
<1>4. CASE a.left = 0
  BY <1>1, <1>2, <1>4 DEF Axis, AxisRecord, Full, Shut, Null
<1>5. CASE a.left # 0
  BY <1>1, <1>2, <1>3, <1>5 DEF AxisRecord, Full, Null
<1> QED
  BY <1>4, <1>5

\* A full bucket lets work in.
LEMMA FullIsOpen ==
  ASSUME NEW a, Full(a)
  PROVE  Open(a)
BY GatewayBounds DEF Full, Open

LEMMA WaitStep == WaitInv /\ [Next]_vars => WaitInv'
<1> SUFFICES ASSUME WaitInv, [Next]_vars PROVE WaitInv'
  OBVIOUS
<1>1. MeterTypes'
  BY MeterStep DEF WaitInv
<1> SUFFICES WaitsLongEnough'
  BY <1>1 DEF WaitInv
<1> DEFINE a == Refresh(Seed(axis))
<1>t. axis \in AxisRecord /\ client \in ClientRecord
  BY DEF WaitInv, MeterTypes
<1>f. /\ a \in AxisRecord /\ a.limit = TpmLimit /\ a.remaining \in 0 .. TpmLimit
      /\ axis.left = 0 => a.left = Null /\ Full(a)
      /\ axis.left # 0 => a.left = axis.left
      /\ axis.left = Null /\ Full(axis) => Full(a)
      /\ Shut(axis) => a = axis
  BY <1>t, Found
<1>2. CASE UNCHANGED <<axis, client>>
  BY <1>2 DEF WaitInv, WaitsLongEnough, Full, Shut, Open
<1>3. ASSUME NEW h \in Headers, Observe(h)
      PROVE  WaitsLongEnough'
  <2>1. ~client'.quiet
    BY <1>3, <1>t DEF Observe, ClientRecord
  <2> QED
    BY <2>1 DEF WaitsLongEnough
<1>4. CASE Ask
  <2>1. axis' = a
    BY <1>4 DEF Ask
  <2>2. CASE Open(a)
    BY <1>4, <2>2 DEF Ask, NoClient, WaitsLongEnough
  <2>3. CASE ~Open(a)
    <3>1. client' = Told(RetryAfter(a) * Second, a.left # Null)
      BY <1>4, <2>3 DEF Ask
    <3>2. a.left # Null => a.left \in Nat /\ a.left <= RetryAfter(a) * Second
      BY <1>f, WaitIsWhole
    <3>3. a.left = Null => Shut(a)
      BY <1>f, <2>3 DEF Shut
    <3> HIDE DEF a
    <3>4. client'.known = (a.left # Null) /\ client'.left = RetryAfter(a) * Second
      BY <3>1 DEF Told
    <3>5. CASE a.left # Null
      BY <2>1, <3>2, <3>4, <3>5 DEF WaitsLongEnough
    <3>6. CASE a.left = Null
      BY <2>1, <3>3, <3>4, <3>6 DEF WaitsLongEnough, Shut, Open
    <3> QED
      BY <3>5, <3>6
  <2> QED
    BY <2>2, <2>3
<1>5. CASE OthersAsk
  <2>1. axis' = a /\ client' = client
    BY <1>5 DEF OthersAsk
  <2> HIDE DEF a
  <2> SUFFICES ASSUME client.at = "waiting", client.quiet
               PROVE  IF client.known
                      THEN \/ a.left \in Nat /\ a.left <= client.left
                           \/ a.left = Null /\ Full(a)
                      ELSE Shut(a)
    BY <2>1 DEF WaitsLongEnough, Full, Shut, Open
  <2> QED
    BY <1>f DEF WaitInv, WaitsLongEnough, Null
<1>6. CASE Tick
  <2>1. /\ axis'.left = Less(axis.left) /\ axis'.limit = axis.limit
        /\ axis'.remaining = axis.remaining /\ client'.left = Less(client.left)
        /\ client'.at = client.at /\ client'.quiet = client.quiet
        /\ client'.known = client.known
    BY <1>6, <1>t DEF Tick, AxisRecord, ClientRecord
  <2>2. Less(Null) = Null /\ \A m, n \in Nat : m <= n => Less(m) \in Nat /\ Less(m) <= Less(n)
    BY DEF Less, Null
  <2>3. client.left \in Nat
    BY <1>t DEF ClientRecord
  <2> SUFFICES ASSUME client.at = "waiting", client.quiet
               PROVE  IF client.known
                      THEN \/ axis'.left \in Nat /\ axis'.left <= client'.left
                           \/ axis'.left = Null /\ Full(axis')
                      ELSE Shut(axis')
    BY <2>1 DEF WaitsLongEnough
  <2>4. CASE client.known
    BY <2>1, <2>2, <2>3, <2>4 DEF WaitInv, WaitsLongEnough, Full
  <2>5. CASE ~client.known
    BY <2>1, <2>2, <2>5 DEF WaitInv, WaitsLongEnough, Shut, Open
  <2> QED
    BY <2>4, <2>5
<1> QED
  BY <1>2, <1>3, <1>4, <1>5, <1>6, CallsObserve DEF Next, vars

LEMMA WaitInvariant == Spec => []WaitInv
<1>1. Init => WaitInv
  BY DEF Init, WaitInv, WaitsLongEnough, MeterTypes, AxisRecord, ClientRecord, Axis, NoClient
<1> QED
  BY <1>1, WaitStep, PTL DEF Spec

\* Retry-After is never too short where it is taken from a reset time: who waits
\* it out in quiet is let in.  Where it is the default because no reset time is
\* known, nobody is let in before a response is seen.
THEOREM RetryAfterIsEnough == Spec => RetryAfterSuffices
<1> DEFINE Answer == client.at = "waiting" /\ client.left = 0 /\ client.quiet /\ Ask
                       => (client'.at = "free" <=> client.known)
<1>1. WaitInv => Answer
  <2> SUFFICES ASSUME WaitInv, client.at = "waiting", client.left = 0, client.quiet, Ask
               PROVE  client'.at = "free" <=> client.known
    OBVIOUS
  <2> DEFINE a == Refresh(Seed(axis))
  <2>1. axis \in AxisRecord /\ client.known \in BOOLEAN
    BY DEF WaitInv, MeterTypes, ClientRecord
  <2>2. client'.at = "free" <=> Open(a)
    BY DEF Ask, NoClient, Told
  <2>3. /\ axis.left = 0 => Full(a)
        /\ axis.left = Null /\ Full(axis) => Full(a)
        /\ Shut(axis) => a = axis
    BY <2>1, Found
  <2> HIDE DEF a
  <2>4. CASE client.known
    <3>1. Full(a)
      BY <2>3, <2>4 DEF WaitInv, WaitsLongEnough
    <3> QED
      BY <2>2, <2>4, <3>1, FullIsOpen
  <2>5. CASE ~client.known
    BY <2>2, <2>3, <2>5 DEF WaitInv, WaitsLongEnough, Shut
  <2> QED
    BY <2>4, <2>5
<1> HIDE DEF Answer
<1>2. WaitInv /\ [Next]_vars => [Answer]_vars
  BY <1>1
<1>3. Spec => [][Answer]_vars
  BY <1>2, WaitInvariant, PTL DEF Spec
<1> QED
  BY <1>3 DEF Answer, RetryAfterSuffices

=============================================================================
