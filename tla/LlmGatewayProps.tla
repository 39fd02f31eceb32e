--------------------------- MODULE LlmGatewayProps ---------------------------
(***************************************************************************)
(* What the gateway promises its callers and the gate its clients.         *)
(***************************************************************************)
EXTENDS LlmGateway

CallRecord == [at: {"free", "waiting", "sent", "backoff", "answered", "failed"},
               attempt: 0 .. MaxAttempts - 1, timeouts: 0 .. MaxAttempts]
AxisRecord == [limit: {Null, TpmLimit}, remaining: {Null} \cup (0 .. TpmLimit),
               left: {Null} \cup (0 .. MaxReset)]
ClientRecord == [at: {"free", "waiting"}, left: Nat, known: BOOLEAN, quiet: BOOLEAN]

\* The types of the state.
TypeOK ==
  /\ call \in [Calls -> CallRecord]
  /\ waiting \in Seq(Calls)
  /\ holders \in SUBSET Calls
  /\ axis \in AxisRecord
  /\ client \in ClientRecord

\* A slot is held by a call that is in flight and by no other: not by one that
\* backs off, nor by one that failed, whatever the failure.
SlotsAreInFlight == holders = {c \in Calls : call[c].at = "sent"}

\* The calls in flight never exceed the model's limit, retries included.
InFlightBounded == Cardinality({c \in Calls : call[c].at = "sent"}) <= Slots

\* However a call's failures are mixed, it is not stuck in timeouts of half an
\* hour more than TimeoutMaxAttempts times.
TimeoutsBounded == \A c \in Calls : call[c].timeouts <= TimeoutMaxAttempts

\* A call that was made is answered or fails, whatever other calls do.
EveryCallReturns ==
  \A c \in Calls : call[c].at \in {"waiting", "sent", "backoff"}
                     ~> call[c].at \in {"free", "answered", "failed"}

\* Who was refused, waited as long as Retry-After said and asks again, with no
\* response seen meanwhile, is let in if the meter knew when the bucket resets.
\* If it did not, as the headers lacked that field, the default that was told is
\* not enough, nor is any wait: the meter fills no bucket without a reset time,
\* so only the next response can open the gate.
RetryAfterSuffices ==
  [][client.at = "waiting" /\ client.left = 0 /\ client.quiet /\ Ask
       => (client'.at = "free" <=> client.known)]_vars

=============================================================================
