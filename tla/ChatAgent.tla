------------------------------ MODULE ChatAgent ------------------------------
(***************************************************************************)
(* One question to the chat agent (service/chat/agent.py, run_chat): the   *)
(* model is asked again and again, with tools as long as the budget lasts, *)
(* until it answers in words or the turns are used up.                     *)
(*                                                                         *)
(* The model may call tools that do not exist and, though it is told not   *)
(* to, several at once; it calls none when it was offered none.            *)
(***************************************************************************)
EXTENDS Naturals, Sequences

CONSTANTS
  MaxToolCalls,  \* MAX_TOOL_CALLS
  Spare,         \* turns for the answer, MAX_TURNS - MAX_TOOL_CALLS
  MaxParallel,   \* bound: calls in one response
  MaxMessages    \* bound: messages of the conversation

ASSUME ChatBounds ==
  /\ MaxToolCalls \in Nat /\ Spare \in Nat \ {0}
  /\ MaxParallel \in Nat \ {0} /\ MaxMessages \in Nat

FirstTurnMessageCount == 2

\* Mutant: the turns for the answer are forgotten.
MaxTurnsTight == MaxToolCalls

MaxTurns == MaxToolCalls + Spare

VARIABLES
  at,       \* where run_chat is
  messages, \* number of messages of the conversation
  turn,     \* responses had so far
  calls,    \* the calls of the last response: does the tool exist?
  pos,      \* how many of these calls have been gone through
  outputs,  \* request_input: for which of these calls there is an output, in order
  used,     \* tool_calls_used
  records,  \* tool_records: how each tool that was run ended
  refused,  \* calls of tools that do not exist; only properties look at it
  answer    \* who answered: nobody yet, the model, or the agent that gave up

vars == <<at, messages, turn, calls, pos, outputs, used, records, refused, answer>>

Init ==
  /\ at = "indexed"
  /\ messages \in 0 .. MaxMessages
  /\ turn = 0
  /\ calls = <<>>
  /\ pos = 0
  /\ outputs = <<>>
  /\ used = 0
  /\ records = <<>>
  /\ refused = 0
  /\ answer = "none"

\* The indexed chapters are read for the prompt; if that fails there are none.
ReadIndexed ==
  /\ at = "indexed"
  /\ at' = "ask"
  /\ UNCHANGED <<messages, turn, calls, pos, outputs, used, records, refused, answer>>

\* After the answer only a title may be missing.
Answer(who) ==
  /\ answer' = who
  /\ at' = IF messages <= FirstTurnMessageCount THEN "title" ELSE "returned"

\* The model answers with calls of tools.
CallsTools(cs) ==
  /\ at = "ask"
  /\ turn < MaxTurns
  /\ used < MaxToolCalls
  /\ at' = "tools"
  /\ turn' = turn + 1
  /\ calls' = cs
  /\ pos' = 0
  /\ outputs' = <<>>
  /\ UNCHANGED <<messages, used, records, refused, answer>>

\* The model answers in words.
AnswersInWords ==
  /\ at = "ask"
  /\ turn < MaxTurns
  /\ turn' = turn + 1
  /\ Answer("model")
  /\ UNCHANGED <<messages, calls, pos, outputs, used, records, refused>>

\* No turn is left.
GiveUp ==
  /\ at = "ask"
  /\ turn = MaxTurns
  /\ Answer("agent")
  /\ UNCHANGED <<messages, turn, calls, pos, outputs, used, records, refused>>

\* The gateway raises: the request fails.
ModelFails ==
  /\ at = "ask"
  /\ turn < MaxTurns
  /\ at' = "failed"
  /\ UNCHANGED <<messages, turn, calls, pos, outputs, used, records, refused, answer>>

-----------------------------------------------------------------------------
\* The next call is gone through: does its tool exist?
NextCall(exists) ==
  /\ at = "tools"
  /\ pos < Len(calls)
  /\ calls[pos + 1] = exists
  /\ pos' = pos + 1

\* Mutant: the budget is not looked at within a response.
RunsAnyOf(exists) == exists

Runs(exists) == exists /\ used < MaxToolCalls

\* Mutant: what is not run gets no output.
RefuseSilently ==
  \E exists \in BOOLEAN :
    /\ NextCall(exists)
    /\ ~Runs(exists)
    /\ refused' = IF exists THEN refused ELSE refused + 1
    /\ UNCHANGED <<at, messages, turn, calls, outputs, used, records, answer>>

\* The tool does not exist, or the budget is used up.
Refuse ==
  \E exists \in BOOLEAN :
    /\ NextCall(exists)
    /\ ~Runs(exists)
    /\ outputs' = Append(outputs, pos')
    /\ refused' = IF exists THEN refused ELSE refused + 1
    /\ UNCHANGED <<at, messages, turn, calls, used, records, answer>>

\* The tool is run in a thread; its failure, or arguments it cannot take, is
\* told to the model like a result.
RunTool(status) ==
  \E exists \in BOOLEAN :
    /\ NextCall(exists)
    /\ Runs(exists)
    /\ used' = used + 1
    /\ records' = Append(records, status)
    /\ outputs' = Append(outputs, pos')
    /\ UNCHANGED <<at, messages, turn, calls, refused, answer>>

\* The outputs are the next request's input.
AskAgain ==
  /\ at = "tools"
  /\ pos = Len(calls)
  /\ at' = "ask"
  /\ UNCHANGED <<messages, turn, calls, pos, outputs, used, records, refused, answer>>

\* Mutant: the title is asked for outside the try block.
TitleOrFailure ==
  /\ at = "title"
  /\ at' \in {"returned", "failed"}
  /\ UNCHANGED <<messages, turn, calls, pos, outputs, used, records, refused, answer>>

\* _suggest_title: without one if it fails.
SuggestTitle ==
  /\ at = "title"
  /\ at' = "returned"
  /\ UNCHANGED <<messages, turn, calls, pos, outputs, used, records, refused, answer>>

-----------------------------------------------------------------------------
Responses == UNION {[1 .. n -> BOOLEAN] : n \in 1 .. MaxParallel}

Next ==
  \/ ReadIndexed
  \/ \E cs \in Responses : CallsTools(cs)
  \/ AnswersInWords
  \/ GiveUp
  \/ ModelFails
  \/ Refuse
  \/ \E status \in {"DONE", "FAILED"} : RunTool(status)
  \/ AskAgain
  \/ SuggestTitle

Spec == Init /\ [][Next]_vars

\* Calls of the model end by their timeouts, queries by those of the drivers.
FairSpec == Spec /\ WF_vars(Next)

=============================================================================
