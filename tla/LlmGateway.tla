----------------------------- MODULE LlmGateway -----------------------------
(***************************************************************************)
(* Calls to the model: the gateway (common/openai_client.py) that queues   *)
(* them at a semaphore, retries them and reads the rate-limit headers, the *)
(* meter that keeps what the headers said (common/llm_limit.py), and the   *)
(* gate that consults it before new work is taken (common/admission.py).   *)
(*                                                                         *)
(* One model, its token axis, many concurrent calls of the one event loop. *)
(* Time is in ticks, Second of them to a second; a reset time is kept as   *)
(* what is left of it, so that time itself needs no bound.                 *)
(***************************************************************************)
EXTENDS Integers, Sequences, FiniteSets

CONSTANTS
  Calls,               \* calls that can be in progress at once
  Slots,               \* limit_for(model)
  MaxAttempts,         \* _MAX_ATTEMPTS
  TimeoutMaxAttempts,  \* _TIMEOUT_MAX_ATTEMPTS
  Second,              \* ticks to a second
  DefaultRetryAfter,   \* _DEFAULT_RETRY_AFTER, in seconds
  TpmLimit,            \* the limit the headers report; _ASSUMED_TPM is the same
  MaxReset             \* bound: ticks to a reset

ASSUME GatewayBounds ==
  /\ Slots \in Nat \ {0} /\ TimeoutMaxAttempts \in Nat \ {0}
  /\ MaxAttempts \in Nat /\ MaxAttempts >= TimeoutMaxAttempts
  /\ Second \in Nat \ {0} /\ DefaultRetryAfter \in Nat \ {0}
  /\ TpmLimit \in Nat \ {0} /\ MaxReset \in Nat

VARIABLES
  call,      \* call[c]: where call c is and which attempt it is at
  waiting,   \* the calls waiting for a slot, first come first served
  holders,   \* the calls that hold a slot
  axis,      \* tokens of the model's bucket: limit, remaining, left to reset
  client     \* somebody whose new work the gate refused

calls == <<call, waiting, holders>>
vars == <<calls, axis, client>>

Null == -1

\* timeouts counts the attempts of the call that timed out; only properties
\* look at it.
At(place, attempt, timeouts) == [at |-> place, attempt |-> attempt, timeouts |-> timeouts]
Free == At("free", 0, 0)

Axis(limit, remaining, left) == [limit |-> limit, remaining |-> remaining, left |-> left]

Told(left, known) == [at |-> "waiting", left |-> left, known |-> known, quiet |-> TRUE]

\* known: the refusal knew when the bucket resets; quiet: no header has been seen
\* since.  Only properties look at the two.
NoClient == [at |-> "free", left |-> 0, known |-> FALSE, quiet |-> FALSE]

Init ==
  /\ call = [c \in Calls |-> Free]
  /\ waiting = <<>>
  /\ holders = {}
  /\ axis = Axis(Null, Null, Null)
  /\ client = NoClient

-----------------------------------------------------------------------------
(* The meter.                                                              *)

\* What the headers of a response can say; each field may be missing or unread.
Headers ==
  [limit: {Null, TpmLimit}, remaining: {Null} \cup (0 .. TpmLimit),
   left: {Null} \cup (0 .. MaxReset)]

Or(x, y) == IF x = Null THEN y ELSE x

\* _seed: what no header has filled yet is assumed, a full bucket.
Seed(a) ==
  LET limit == Or(a.limit, TpmLimit)
  IN  Axis(limit, Or(a.remaining, limit), a.left)

\* _refresh: once the reset time has come the bucket is full again.  A bucket of
\* which no reset time is known never is, however much time passes.
Refresh(a) == IF a.left = 0 THEN Axis(a.limit, a.limit, Null) ELSE a

\* Mutant: the reset time of a response is not kept.
ObserveWithoutReset(h) ==
  /\ axis' = Seed(Axis(Or(h.limit, axis.limit), Or(h.remaining, axis.remaining), axis.left))
  /\ client' = [client EXCEPT !.quiet = FALSE]

\* observe: each field the headers have replaces the one kept.
Observe(h) ==
  /\ axis' = Seed(Axis(Or(h.limit, axis.limit), Or(h.remaining, axis.remaining),
                       Or(h.left, axis.left)))
  /\ client' = [client EXCEPT !.quiet = FALSE]

-----------------------------------------------------------------------------
(* _request().                                                             *)

\* Call c is done with its attempt: its slot goes back.
Leave(c, place) ==
  /\ call[c].at = "sent"
  /\ call' = [call EXCEPT ![c].at = place]
  /\ holders' = holders \ {c}
  /\ UNCHANGED waiting

LastAttempt(c) == call[c].attempt = MaxAttempts - 1

Retried(c) == IF LastAttempt(c) THEN "failed" ELSE "backoff"

Request(c) ==
  /\ call[c].at \in {"free", "answered", "failed"}
  /\ call' = [call EXCEPT ![c] = At("waiting", 0, 0)]
  /\ waiting' = Append(waiting, c)
  /\ UNCHANGED <<holders, axis, client>>

Send(c) ==
  /\ waiting # <<>>
  /\ c = Head(waiting)
  /\ Cardinality(holders) < Slots
  /\ call' = [call EXCEPT ![c].at = "sent"]
  /\ waiting' = Tail(waiting)
  /\ holders' = holders \cup {c}
  /\ UNCHANGED <<axis, client>>

Answered(c, h) ==
  /\ Leave(c, "answered")
  /\ Observe(h)

\* Mutant: the call keeps its slot while it backs off.
CongestedHoldingSlot(c, h) ==
  /\ call[c].at = "sent"
  /\ call' = [call EXCEPT ![c].at = Retried(c)]
  /\ Observe(h)
  /\ UNCHANGED <<waiting, holders>>

\* 429: the headers of a refusal are the most exact ones.
Congested(c, h) ==
  /\ Leave(c, Retried(c))
  /\ Observe(h)

\* 429 that no waiting cures: it is not retried.
QuotaExhausted(c, h) ==
  /\ Leave(c, "failed")
  /\ Observe(h)

\* Mutant: the handler of connection errors comes first and takes timeouts.
TimedOutAsConnection(c) ==
  /\ call[c].at = "sent"
  /\ call' = [call EXCEPT ![c] = At(Retried(c), @.attempt, @.timeouts + 1)]
  /\ holders' = holders \ {c}
  /\ UNCHANGED <<waiting, axis, client>>

TimedOut(c) ==
  /\ call[c].at = "sent"
  /\ call' = [call EXCEPT ![c] =
       At(IF @.attempt >= TimeoutMaxAttempts - 1 THEN "failed" ELSE "backoff",
          @.attempt, @.timeouts + 1)]
  /\ holders' = holders \ {c}
  /\ UNCHANGED <<waiting, axis, client>>

\* The connection fails, or the server answers 5xx.
ServerFails(c) ==
  /\ Leave(c, Retried(c))
  /\ UNCHANGED <<axis, client>>

\* Any other 4xx.
Refused(c) ==
  /\ Leave(c, "failed")
  /\ UNCHANGED <<axis, client>>

\* Mutant: a retry is not counted.
WakeUncounted(c) ==
  /\ call[c].at = "backoff"
  /\ call' = [call EXCEPT ![c] = At("waiting", @.attempt, @.timeouts)]
  /\ waiting' = Append(waiting, c)
  /\ UNCHANGED <<holders, axis, client>>

\* The backoff is over and the call lines up again.
Wake(c) ==
  /\ call[c].at = "backoff"
  /\ call' = [call EXCEPT ![c] = At("waiting", @.attempt + 1, @.timeouts)]
  /\ waiting' = Append(waiting, c)
  /\ UNCHANGED <<holders, axis, client>>

-----------------------------------------------------------------------------
(* budget_retry_after(): new work is taken unless less than a tenth is left.*)

Open(a) == 10 * a.remaining >= a.limit

Larger(x, y) == IF x >= y THEN x ELSE y

\* Mutant: the wait is rounded down.
RetryAfterFloor(a) ==
  IF a.left = Null THEN DefaultRetryAfter ELSE Larger(1, a.left \div Second)

\* In seconds, rounded up.
RetryAfter(a) ==
  IF a.left = Null THEN DefaultRetryAfter
  ELSE Larger(1, (a.left + Second - 1) \div Second)

\* New work arrives, or the client refused earlier comes back in time.
Ask ==
  LET a == Refresh(Seed(axis))
  IN  /\ client.at = "free" \/ client.left = 0
      /\ axis' = a
      /\ client' = IF Open(a) THEN NoClient
                   ELSE Told(RetryAfter(a) * Second, a.left # Null)
      /\ UNCHANGED calls

\* Anybody else's work asks: the meter is read, and refreshed by it.
OthersAsk ==
  /\ axis' = Refresh(Seed(axis))
  /\ UNCHANGED <<calls, client>>

Less(n) == IF n > 0 THEN n - 1 ELSE n

Tick ==
  /\ axis' = [axis EXCEPT !.left = Less(@)]
  /\ client' = [client EXCEPT !.left = Less(@)]
  /\ UNCHANGED calls

-----------------------------------------------------------------------------
Outcome(c) ==
  \/ \E h \in Headers : Answered(c, h)
  \/ \E h \in Headers : Congested(c, h)
  \/ \E h \in Headers : QuotaExhausted(c, h)
  \/ TimedOut(c)
  \/ ServerFails(c)
  \/ Refused(c)

CallStep(c) == Send(c) \/ Outcome(c) \/ Wake(c)

Next ==
  \/ \E c \in Calls : Request(c)
  \/ \E c \in Calls : CallStep(c)
  \/ Ask
  \/ OthersAsk
  \/ Tick

Spec == Init /\ [][Next]_vars

\* A call in flight ends, at the latest by its timeout; a backoff is a sleep;
\* the semaphore wakes its waiters.
FairSpec == Spec /\ \A c \in Calls : WF_vars(CallStep(c))

=============================================================================
