---------------------------- MODULE ChatAgentProps ----------------------------
(***************************************************************************)
(* What the agent promises the author and the model's interface.           *)
(***************************************************************************)
EXTENDS ChatAgent

\* However many calls a response has, no more tools are run than the budget
\* allows, and each one that was run is told to the author.
BudgetKept == Len(records) = used /\ used <= MaxToolCalls

\* The model is asked again with one output for each of its calls, in order,
\* those of tools that were not run included: the interface refuses a chained
\* request without.
EveryCallAnswered ==
  at = "ask" /\ turn > 0 => outputs = [k \in DOMAIN calls |-> k]

\* The agent gives up only on a model that went on calling tools that do not
\* exist; the budget alone never uses up the turns.
BudgetLeavesTurns == answer = "agent" => refused >= Spare

\* A question is answered, unless a call of the model fails on the way; once
\* there is an answer nothing keeps it from the author.
EveryQuestionEnds == <>(at = "returned" \/ (at = "failed" /\ answer = "none"))

=============================================================================
