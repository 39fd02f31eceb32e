--------------------------- MODULE ChatAgentProofs ---------------------------
(***************************************************************************)
(* Theorems about the chat agent, for any budget and any number of calls   *)
(* in a response, and about what its tools read, for any graph.            *)
(***************************************************************************)
EXTENDS ChatReads, DataLemmas

Places == {"indexed", "ask", "tools", "title", "returned", "failed"}

ChatTypes ==
  /\ at \in Places
  /\ turn \in Nat /\ used \in Nat /\ refused \in Nat
  /\ calls \in Seq(BOOLEAN) /\ pos \in 0 .. Len(calls)
  /\ records \in Seq({"DONE", "FAILED"})

\* There is an output for each call that has been gone through.
OutputsFollow ==
  /\ outputs = [k \in 1 .. pos |-> k]
  /\ at \in {"indexed", "ask"} => pos = Len(calls)

\* Every response with calls used the budget or called a tool that does not
\* exist, but for one whose calls have not been gone through yet.
TurnsAreUsed ==
  /\ at \in {"indexed", "ask"} => turn <= used + refused
  /\ at = "tools" =>
       /\ calls # <<>>
       /\ pos = 0 => turn <= used + refused + 1 /\ used < MaxToolCalls
       /\ pos # 0 => turn <= used + refused

ChatInv ==
  ChatTypes /\ BudgetKept /\ OutputsFollow /\ TurnsAreUsed /\ BudgetLeavesTurns

LEMMA ChatInit == Init => ChatInv
BY ChatBounds
DEF Init, ChatInv, ChatTypes, Places, BudgetKept, OutputsFollow, TurnsAreUsed, BudgetLeavesTurns

\* What going through one call does.
LEMMA NextCallKeeps ==
  ASSUME ChatInv, Refuse \/ \E status \in {"DONE", "FAILED"} : RunTool(status)
  PROVE  ChatInv'
<1> USE ChatBounds DEF ChatInv, ChatTypes, Places
<1>1. PICK exists \in BOOLEAN :
        /\ NextCall(exists)
        /\ outputs' = Append(outputs, pos')
        /\ \/ /\ ~Runs(exists)
              /\ refused' = (IF exists THEN refused ELSE refused + 1)
              /\ UNCHANGED <<used, records>>
           \/ /\ Runs(exists)
              /\ UNCHANGED refused
              /\ used' = used + 1
              /\ \E status \in {"DONE", "FAILED"} : records' = Append(records, status)
        /\ UNCHANGED <<at, messages, turn, calls, answer>>
  BY DEF Refuse, RunTool
<1>2. at = "tools" /\ pos < Len(calls) /\ pos' = pos + 1
  BY <1>1 DEF NextCall
<1>3. ChatTypes'
  <2>1. at' \in Places /\ turn' \in Nat /\ calls' \in Seq(BOOLEAN)
    BY <1>1
  <2>2. pos' \in 0 .. Len(calls')
    BY <1>1, <1>2
  <2>3. used' \in Nat /\ refused' \in Nat
    BY <1>1
  <2>4. records' \in Seq({"DONE", "FAILED"})
    <3>1. \A status \in {"DONE", "FAILED"} : Append(records, status) \in Seq({"DONE", "FAILED"})
      OBVIOUS
    <3> QED
      BY <1>1, <3>1
  <2> QED
    BY <2>1, <2>2, <2>3, <2>4
<1>4. BudgetKept'
  BY <1>1 DEF BudgetKept, Runs
<1>5. OutputsFollow'
  BY <1>1, <1>2 DEF OutputsFollow
<1>6. TurnsAreUsed'
  BY <1>1, <1>2 DEF TurnsAreUsed, Runs
<1>7. BudgetLeavesTurns'
  BY <1>1 DEF BudgetLeavesTurns
<1> QED
  BY <1>3, <1>4, <1>5, <1>6, <1>7

LEMMA ChatNext == ChatInv /\ [Next]_vars => ChatInv'
<1> SUFFICES ASSUME ChatInv, [Next]_vars PROVE ChatInv'
  OBVIOUS
<1> USE ChatBounds DEF ChatInv, ChatTypes, Places, BudgetKept
<1>1. CASE ReadIndexed
  BY <1>1 DEF ReadIndexed, OutputsFollow, TurnsAreUsed, BudgetLeavesTurns
<1>6. CASE SuggestTitle
  BY <1>6 DEF SuggestTitle, OutputsFollow, TurnsAreUsed, BudgetLeavesTurns
<1>7. CASE ModelFails
  BY <1>7 DEF ModelFails, OutputsFollow, TurnsAreUsed, BudgetLeavesTurns
<1>8. CASE UNCHANGED vars
  BY <1>8 DEF vars, OutputsFollow, TurnsAreUsed, BudgetLeavesTurns
<1>2. ASSUME NEW cs \in Responses, CallsTools(cs)
      PROVE  ChatInv'
  <2>1. cs \in Seq(BOOLEAN) /\ cs # <<>>
    BY DEF Responses
  <2> QED
    BY <1>2, <2>1 DEF CallsTools, OutputsFollow, TurnsAreUsed, BudgetLeavesTurns
<1>3. CASE AnswersInWords
  BY <1>3 DEF AnswersInWords, Answer, OutputsFollow, TurnsAreUsed, BudgetLeavesTurns
<1>4. CASE GiveUp
  <2>1. refused >= Spare
    BY <1>4 DEF GiveUp, TurnsAreUsed, MaxTurns
  <2> QED
    BY <1>4, <2>1 DEF GiveUp, Answer, OutputsFollow, TurnsAreUsed, BudgetLeavesTurns
<1>5. CASE AskAgain
  BY <1>5 DEF AskAgain, OutputsFollow, TurnsAreUsed, BudgetLeavesTurns
<1> QED
  BY <1>1, <1>2, <1>3, <1>4, <1>5, <1>6, <1>7, <1>8, NextCallKeeps DEF Next

LEMMA ChatInvariant == Spec => []ChatInv
<1> QED
  BY ChatInit, ChatNext, PTL DEF Spec

\* The budget is kept, whatever number of calls a response has.
THEOREM BudgetIsKept == Spec => []BudgetKept
<1>1. ChatInv => BudgetKept
  BY DEF ChatInv
<1> QED
  BY <1>1, ChatInvariant, PTL

\* Every call gets its output before the model is asked again.
THEOREM CallsAreAnswered == Spec => []EveryCallAnswered
<1>1. ChatInv => EveryCallAnswered
  BY DEF ChatInv, ChatTypes, OutputsFollow, EveryCallAnswered
<1> QED
  BY <1>1, ChatInvariant, PTL

\* The budget never uses up the turns: who is given up on called tools that do
\* not exist, at least as often as there are spare turns.
THEOREM BudgetLeavesSpareTurns == Spec => []BudgetLeavesTurns
<1>1. ChatInv => BudgetLeavesTurns
  BY DEF ChatInv
<1> QED
  BY <1>1, ChatInvariant, PTL

-----------------------------------------------------------------------------
(* What EveryQuestionEnds rests on besides fairness: no step of a question  *)
(* leads back, and none leads anywhere else than to its end.                *)

\* A turn is a request, the calls of its response, and the way back.
StepsOfTurn == MaxParallel + 2

\* The steps a question has before it at most.
StepsLeft ==
  LET later == (MaxTurns - turn) * StepsOfTurn
  IN  CASE at = "indexed" -> later + 3
        [] at = "tools"   -> later + 3 + (Len(calls) - pos)
        [] at = "ask"     -> later + 2
        [] at = "title"   -> 1
        [] OTHER          -> 0

\* Turns and responses keep their bounds, and who failed has no answer.
Bounded ==
  /\ turn <= MaxTurns
  /\ Len(calls) <= MaxParallel
  /\ at = "tools" => turn > 0
  /\ at \notin {"title", "returned"} => answer = "none"

CountInv == ChatInv /\ Bounded

\* Whole turns, in a form that needs no multiplication of what is left.
LEMMA TurnTakesSteps ==
  ASSUME NEW m \in Nat
  PROVE  /\ m * StepsOfTurn \in Nat
         /\ (m + 1) * StepsOfTurn = m * StepsOfTurn + StepsOfTurn
         /\ StepsOfTurn \in Nat
         /\ \A n \in 0 .. m : n * StepsOfTurn <= m * StepsOfTurn
<1>1. m * StepsOfTurn \in Nat /\ (m + 1) * StepsOfTurn = m * StepsOfTurn + StepsOfTurn
      /\ StepsOfTurn \in Nat
  BY ChatBounds DEF StepsOfTurn
<1>2. ASSUME NEW n \in 0 .. m
      PROVE  n * StepsOfTurn <= m * StepsOfTurn
  BY ChatBounds DEF StepsOfTurn
<1> QED
  BY <1>1, <1>2

\* Every step of a question is one of those it had left.
LEMMA QuestionStep ==
  ASSUME CountInv, Next
  PROVE  Bounded' /\ StepsLeft' < StepsLeft
<1> DEFINE later == (MaxTurns - turn) * StepsOfTurn
<1>1. /\ turn \in Nat /\ calls \in Seq(BOOLEAN) /\ pos \in 0 .. Len(calls)
      /\ MaxTurns \in Nat /\ MaxParallel \in Nat /\ MaxTurns - turn \in Nat
  BY ChatBounds DEF CountInv, ChatInv, ChatTypes, Bounded, MaxTurns
<1>2. later \in Nat
  BY <1>1, TurnTakesSteps
<1>3. UNCHANGED turn => later' = later
  BY DEF StepsOfTurn, MaxTurns
<1>4. turn' = turn + 1 /\ turn < MaxTurns =>
        /\ later' \in Nat
        /\ later = later' + StepsOfTurn
  <2> SUFFICES ASSUME turn' = turn + 1, turn < MaxTurns
               PROVE  later' \in Nat /\ later = later' + StepsOfTurn
    OBVIOUS
  <2> DEFINE m == MaxTurns - (turn + 1)
  <2>1. m \in Nat /\ MaxTurns - turn = m + 1
    BY <1>1
  <2>2. later' = m * StepsOfTurn
    BY DEF StepsOfTurn, MaxTurns
  <2> HIDE DEF m
  <2>3. later = (m + 1) * StepsOfTurn
    BY <2>1
  <2> QED
    BY <2>1, <2>2, <2>3, TurnTakesSteps
<1>5. /\ StepsLeft = (CASE at = "indexed" -> later + 3
                        [] at = "tools"   -> later + 3 + (Len(calls) - pos)
                        [] at = "ask"     -> later + 2
                        [] at = "title"   -> 1
                        [] OTHER          -> 0)
      /\ StepsLeft' = (CASE at' = "indexed" -> later' + 3
                         [] at' = "tools"   -> later' + 3 + (Len(calls') - pos')
                         [] at' = "ask"     -> later' + 2
                         [] at' = "title"   -> 1
                         [] OTHER           -> 0)
  BY DEF StepsLeft
<1> HIDE DEF later
<1> USE DEF CountInv, Bounded
<1>6. CASE ReadIndexed
  BY <1>1, <1>2, <1>3, <1>5, <1>6 DEF ReadIndexed
<1>7. ASSUME NEW cs \in Responses, CallsTools(cs)
      PROVE  Bounded' /\ StepsLeft' < StepsLeft
  <2>1. Len(cs) \in 0 .. MaxParallel
    BY ChatBounds DEF Responses
  <2>2. /\ at = "ask" /\ at' = "tools" /\ calls' = cs /\ pos' = 0 /\ answer' = answer
        /\ turn' = turn + 1 /\ turn < MaxTurns
    BY <1>7 DEF CallsTools
  <2>3. Bounded'
    BY <1>1, <2>1, <2>2, ChatBounds DEF MaxTurns
  <2>4. StepsLeft' = later' + 3 + Len(cs) /\ StepsLeft = later + 2
    BY <1>5, <1>2, <1>4, <2>1, <2>2
  <2> QED
    BY <1>1, <1>2, <1>4, <2>1, <2>2, <2>3, <2>4 DEF StepsOfTurn
<1>8. CASE AnswersInWords
  <2>1. /\ at = "ask" /\ at' \in {"title", "returned"} /\ calls' = calls
        /\ turn' = turn + 1 /\ turn < MaxTurns
    BY <1>8 DEF AnswersInWords, Answer
  <2>2. Bounded'
    BY <1>1, <2>1, ChatBounds DEF MaxTurns
  <2> QED
    BY <1>2, <1>5, <2>1, <2>2
<1>9. CASE GiveUp
  BY <1>1, <1>2, <1>5, <1>9 DEF GiveUp, Answer, MaxTurns
<1>10. CASE ModelFails
  BY <1>1, <1>2, <1>5, <1>10 DEF ModelFails, MaxTurns
<1>11. CASE Refuse \/ \E status \in {"DONE", "FAILED"} : RunTool(status)
  <2>1. /\ at = "tools" /\ at' = at /\ pos < Len(calls) /\ pos' = pos + 1
        /\ UNCHANGED <<turn, calls, answer>>
    BY <1>11 DEF Refuse, RunTool, NextCall
  <2> QED
    BY <1>1, <1>2, <1>3, <1>5, <2>1 DEF MaxTurns
<1>12. CASE AskAgain
  BY <1>1, <1>2, <1>3, <1>5, <1>12 DEF AskAgain, MaxTurns
<1>13. CASE SuggestTitle
  BY <1>1, <1>5, <1>13 DEF SuggestTitle, MaxTurns
<1> QED
  BY <1>6, <1>7, <1>8, <1>9, <1>10, <1>11, <1>12, <1>13 DEF Next

LEMMA CountInvariant == Spec => []CountInv
<1>1. Init => Bounded
  BY ChatBounds DEF Init, Bounded, MaxTurns
<1>2. CountInv /\ UNCHANGED vars => Bounded'
  BY DEF CountInv, Bounded, vars, MaxTurns
<1>3. CountInv /\ [Next]_vars => Bounded'
  BY <1>2, QuestionStep
<1>4. CountInv /\ [Next]_vars => CountInv'
  BY <1>3, ChatNext DEF CountInv
<1>5. Init => CountInv
  BY <1>1, ChatInit DEF CountInv
<1> QED
  BY <1>4, <1>5, PTL DEF Spec

\* Whatever the model calls, no step of a question repeats: it has a bounded
\* number of them before it, and none is left only where it is answered or
\* where a call of the model failed before there was an answer.
THEOREM QuestionsAreFinite ==
  Spec => /\ [](/\ StepsLeft \in 0 .. MaxTurns * StepsOfTurn + 3
                /\ StepsLeft = 0 => at = "returned" \/ (at = "failed" /\ answer = "none"))
          /\ [][StepsLeft' < StepsLeft]_vars
<1> DEFINE Ends == /\ StepsLeft \in 0 .. MaxTurns * StepsOfTurn + 3
                   /\ StepsLeft = 0 => at = "returned" \/ (at = "failed" /\ answer = "none")
           Counted == StepsLeft' < StepsLeft
<1>1. CountInv => Ends
  <2> SUFFICES ASSUME CountInv PROVE Ends
    OBVIOUS
  <2> DEFINE later == (MaxTurns - turn) * StepsOfTurn
  <2>1. /\ at \in Places /\ turn \in Nat /\ calls \in Seq(BOOLEAN) /\ pos \in 0 .. Len(calls)
        /\ MaxTurns \in Nat /\ MaxTurns - turn \in Nat /\ MaxParallel \in Nat
    BY ChatBounds DEF CountInv, ChatInv, ChatTypes, Bounded, MaxTurns
  <2>2. later \in Nat /\ later <= MaxTurns * StepsOfTurn /\ MaxTurns * StepsOfTurn \in Nat
    <3> DEFINE left == MaxTurns - turn
    <3>1. left \in 0 .. MaxTurns /\ later = left * StepsOfTurn
      BY <2>1
    <3> HIDE DEF left, later
    <3>2. left * StepsOfTurn \in Nat /\ left * StepsOfTurn <= MaxTurns * StepsOfTurn
      BY <2>1, <3>1, TurnTakesSteps
    <3> QED
      BY <2>1, <3>1, <3>2, TurnTakesSteps
  <2>3. at = "tools" => later + 3 + Len(calls) <= MaxTurns * StepsOfTurn + 3
    <3> SUFFICES ASSUME at = "tools"
                 PROVE  later + 3 + Len(calls) <= MaxTurns * StepsOfTurn + 3
      OBVIOUS
    <3> DEFINE most == MaxTurns - 1
               left == MaxTurns - turn
    <3>1. most \in Nat /\ MaxTurns = most + 1 /\ left \in 0 .. most /\ Len(calls) <= MaxParallel
      BY <2>1 DEF CountInv, Bounded
    <3>2. later = left * StepsOfTurn
      OBVIOUS
    <3> HIDE DEF most, left, later
    <3>3. left * StepsOfTurn <= most * StepsOfTurn
      BY <3>1, TurnTakesSteps
    <3>4. (most + 1) * StepsOfTurn = most * StepsOfTurn + StepsOfTurn /\ most * StepsOfTurn \in Nat
      BY <3>1, TurnTakesSteps
    <3>5. MaxTurns * StepsOfTurn = most * StepsOfTurn + StepsOfTurn
      BY <3>1, <3>4
    <3>6. later <= most * StepsOfTurn
      BY <3>2, <3>3
    <3>7. Len(calls) \in Nat /\ Len(calls) + 2 <= StepsOfTurn /\ StepsOfTurn \in Nat
      BY <2>1, <3>1, ChatBounds DEF StepsOfTurn
    <3> DEFINE whole == most * StepsOfTurn
    <3> HIDE DEF whole
    <3>8. later <= whole /\ whole \in Nat /\ MaxTurns * StepsOfTurn = whole + StepsOfTurn
      BY <3>4, <3>5, <3>6 DEF whole
    <3> QED
      BY <2>2, <3>7, <3>8
  <2>4. StepsLeft = (CASE at = "indexed" -> later + 3
                       [] at = "tools"   -> later + 3 + (Len(calls) - pos)
                       [] at = "ask"     -> later + 2
                       [] at = "title"   -> 1
                       [] OTHER          -> 0)
    BY DEF StepsLeft
  <2> HIDE DEF later
  <2>5. StepsLeft \in 0 .. MaxTurns * StepsOfTurn + 3
    <3> DEFINE top == MaxTurns * StepsOfTurn
    <3>1. top \in Nat /\ later \in Nat /\ later <= top
          /\ (at = "tools" => later + 3 + Len(calls) <= top + 3)
      BY <2>2, <2>3
    <3> HIDE DEF top
    <3>2. Len(calls) \in Nat /\ Len(calls) - pos \in 0 .. Len(calls)
      BY <2>1
    <3>3. ASSUME at = "tools"
          PROVE  StepsLeft \in 0 .. top + 3
      <4>1. StepsLeft = later + 3 + (Len(calls) - pos)
        BY <2>4, <3>3
      <4>2. later + 3 + Len(calls) <= top + 3
        BY <3>1, <3>3
      <4> QED
        BY <3>1, <3>2, <4>1, <4>2
    <3>4. ASSUME at # "tools"
          PROVE  StepsLeft \in 0 .. top + 3
      BY <2>1, <2>4, <3>1, <3>4 DEF Places
    <3> QED
      BY <3>3, <3>4 DEF top
  <2>6. StepsLeft = 0 => at \in {"returned", "failed"}
    BY <2>1, <2>2, <2>4 DEF Places
  <2> QED
    BY <2>5, <2>6 DEF CountInv, Bounded
<1>2. CountInv /\ Next => Counted
  BY QuestionStep
<1> HIDE DEF Ends, Counted
<1>3. Spec => []Ends
  BY <1>1, CountInvariant, PTL
<1>4. Spec => [][Counted]_vars
  BY <1>2, CountInvariant, PTL DEF Spec
<1> QED
  BY <1>3, <1>4 DEF Ends, Counted

-----------------------------------------------------------------------------
(* The agent with its tools.                                               *)

LEMMA JointStep == [JointNext]_allVars => [Next]_vars
<1>1. ASSUME ToolReturns
      PROVE  Next
  BY <1>1 DEF ToolReturns, Next
<1>2. ASSUME AgentGoesOn
      PROVE  Next
  BY <1>2 DEF AgentGoesOn, Next
<1>3. ASSUME Reads
      PROVE  UNCHANGED vars
  BY <1>3 DEF Reads
<1>4. UNCHANGED allVars => UNCHANGED vars
  BY DEF allVars
<1> QED
  BY <1>1, <1>2, <1>3, <1>4 DEF JointNext

\* The agent with its tools is the agent: what was said of the one holds for
\* the other, whatever the tools read.
THEOREM JointImplementsAgent == JointSpec => Spec
<1>1. JointInit => Init
  BY DEF JointInit
<1> QED
  BY <1>1, JointStep, PTL DEF JointSpec, Spec

-----------------------------------------------------------------------------
(* What Best keeps of finitely many ranks.                                  *)

LEMMA BelowFinite ==
  ASSUME NEW R \in SUBSET Int, IsFiniteSet(R), NEW i
  PROVE  /\ IsFiniteSet({j \in R : j < i})
         /\ Cardinality({j \in R : j < i}) \in Nat
BY FS_Subset, FS_CardinalityType

\* What is kept ranks before what is not.
LEMMA BestIsBefore ==
  ASSUME NEW R \in SUBSET Int, IsFiniteSet(R), NEW n \in Nat,
         NEW i \in Best(R, n), NEW j \in R \ Best(R, n)
  PROVE  i < j
<1> DEFINE Below(x) == {y \in R : y < x}
<1>1. i \in Int /\ j \in Int /\ i \in R
  BY DEF Best
<1>2. Cardinality(Below(i)) < n /\ ~(Cardinality(Below(j)) < n)
  BY DEF Best
<1>3. Cardinality(Below(i)) \in Nat /\ Cardinality(Below(j)) \in Nat /\ IsFiniteSet(Below(i))
  BY BelowFinite
<1> SUFFICES ASSUME j <= i PROVE FALSE
  BY <1>1
<1>4. Below(j) \subseteq Below(i)
  <2>1. ASSUME NEW y \in R, y < j
        PROVE  y < i
    <3>1. y \in Int
      OBVIOUS
    <3> QED
      BY <1>1, <2>1, <3>1
  <2> QED
    BY <2>1
<1>5. Cardinality(Below(j)) <= Cardinality(Below(i))
  <2> HIDE DEF Below
  <2> QED BY <1>3, <1>4, FS_Subset
<1> QED
  BY <1>2, <1>3, <1>5

\* No more than n are kept, and n if one is not.
LEMMA BestCounts ==
  ASSUME NEW R \in SUBSET Int, IsFiniteSet(R), NEW n \in Nat
  PROVE  /\ Best(R, n) \subseteq R /\ IsFiniteSet(Best(R, n))
         /\ Cardinality(Best(R, n)) \in Nat
         /\ Cardinality(Best(R, n)) <= n
         /\ R # Best(R, n) => Cardinality(Best(R, n)) = n
<1> DEFINE Below(x) == {y \in R : y < x}
           B == Best(R, n)
<1>1. B \subseteq R /\ IsFiniteSet(B) /\ Cardinality(B) \in Nat
  <2>1. B \subseteq R
    BY DEF Best
  <2> QED
    BY <2>1, FS_Subset, FS_CardinalityType
<1>2. Cardinality(B) <= n
  <2>1. CASE B = {}
    BY <2>1, FS_EmptySet
  <2>2. CASE B # {}
    <3>1. PICK x \in B : \A y \in B : x >= y
      <4>1. B \in SUBSET Int
        BY <1>1
      <4> HIDE DEF B
      <4> QED BY <1>1, <2>2, <4>1, GreatestExists
    <3>2. Cardinality(Below(x)) < n /\ x \in Int
      BY <1>1, <3>1 DEF Best
    <3>3. B \ {x} \subseteq Below(x)
      <4> SUFFICES ASSUME NEW y \in B, y # x PROVE y < x
        BY <1>1
      <4>1. y \in Int /\ x >= y
        BY <1>1, <3>1
      <4> QED
        BY <3>2, <4>1
    <3>4. IsFiniteSet(Below(x)) /\ Cardinality(Below(x)) \in Nat
      BY BelowFinite
    <3>5. Cardinality(B \ {x}) <= Cardinality(Below(x))
      <4> HIDE DEF B, Below
      <4> QED BY <3>3, <3>4, FS_Subset
    <3>6. Cardinality(B \ {x}) = Cardinality(B) - 1
      <4> HIDE DEF B
      <4> QED BY <1>1, <3>1, FS_RemoveElement
    <3> HIDE DEF B, Below
    <3> QED
      BY <1>1, <3>2, <3>4, <3>5, <3>6
  <2> QED
    BY <2>1, <2>2
<1>3. ASSUME R # B
      PROVE  Cardinality(B) = n
  <2>1. R \ B \in SUBSET Int /\ IsFiniteSet(R \ B) /\ R \ B # {}
    <3> HIDE DEF B
    <3> QED BY <1>1, <1>3, FS_Subset
  <2>2. PICK x \in R \ B : \A y \in R \ B : x <= y
    <3> HIDE DEF B
    <3> QED BY <2>1, LeastExists
  <2>3. Below(x) \subseteq B
    <3> SUFFICES ASSUME NEW y \in R, y < x, y \notin B PROVE FALSE
      OBVIOUS
    <3>1. y \in Int /\ x \in Int /\ x <= y
      BY <2>2
    <3> QED
      BY <3>1
  <2>4. ~(Cardinality(Below(x)) < n)
    BY <2>2 DEF Best
  <2>5. Cardinality(Below(x)) <= Cardinality(B)
    <3> HIDE DEF B, Below
    <3> QED BY <1>1, <2>3, FS_Subset
  <2>6. Cardinality(Below(x)) \in Nat
    BY BelowFinite
  <2> HIDE DEF B, Below
  <2> QED
    BY <1>1, <1>2, <2>4, <2>5, <2>6
<1> QED
  BY <1>1, <1>2, <1>3

-----------------------------------------------------------------------------
(* A search.                                                               *)

LEMMA SearchIsExact ==
  ASSUME NEW k \in 1 .. MaxTopK, NEW hits \in Hits, Search(k, hits)
  PROVE  SearchShowsBestOwn'
<1> USE ReadBounds
<1> DEFINE D == DOMAIN hits
           m == k * Oversample
           C == Best(D, m)
           own == {i \in D : hits[i] = Asker}
           foreign == D \ own
           R == {i \in C : hits[i] = Asker}
           shown == Best(R, k)
<1>1. D \in SUBSET Int /\ IsFiniteSet(D)
  <2>1. PICK n \in 0 .. MaxHits : hits \in [1 .. n -> Tenants]
    BY DEF Hits
  <2>2. D = 1 .. n
    BY <2>1
  <2> QED
    BY <2>2, FS_Interval, 1 \in Int, n \in Int
<1>2. k \in Nat /\ m \in Nat /\ (Oversample - 1) * k = m - k
  BY ReadBounds
<1>3. read' = [tool |-> "search", k |-> k, hits |-> hits, shown |-> shown]
  BY DEF Search, Candidates
<1> HIDE DEF m, D
<1>4. /\ C \subseteq D /\ IsFiniteSet(C) /\ Cardinality(C) \in Nat
      /\ D # C => Cardinality(C) = m
  BY <1>1, <1>2, BestCounts
<1>5. R = C \cap own /\ R \in SUBSET Int /\ IsFiniteSet(R)
  <2>1. R = C \cap own
    BY <1>4
  <2> HIDE DEF C, own
  <2> QED
    BY <1>1, <1>4, <2>1, FS_Subset
<1> HIDE DEF R
<1>6. /\ shown \subseteq R /\ Cardinality(shown) \in Nat /\ Cardinality(shown) <= k
      /\ R # shown => Cardinality(shown) = k
  BY <1>2, <1>5, BestCounts
<1>7. ASSUME NEW i \in shown, NEW j \in own \ shown
      PROVE  i < j
  <2>1. CASE j \in R
    BY <1>2, <1>5, <2>1, BestIsBefore
  <2>2. CASE j \notin R
    <3>1. i \in C /\ j \in D \ C
      BY <1>5, <1>6, <2>2
    <3> HIDE DEF C
    <3> QED
      BY <1>1, <1>2, <3>1, BestIsBefore DEF C
  <2> QED
    BY <2>1, <2>2
<1>8. ASSUME Cardinality(shown) < k, NEW j \in own \ shown
      PROVE  Cardinality({i \in foreign : i < j}) > (Oversample - 1) * k
  <2> DEFINE before == {i \in foreign : i < j}
             strangers == C \ R
  <2>1. R = shown
    BY <1>2, <1>6, <1>8
  <2>2. j \in D \ C
    BY <1>5, <2>1
  <2>3. Cardinality(C) = m
    BY <1>4, <2>2
  <2>4. strangers \subseteq before
    <3> SUFFICES ASSUME NEW i \in C, i \notin R PROVE i \in foreign /\ i < j
      OBVIOUS
    <3>1. i \in foreign
      BY <1>4, <1>5
    <3>2. i < j
      <4> HIDE DEF own, foreign
      <4> QED BY <1>1, <1>2, <2>2, BestIsBefore
    <3> QED
      BY <3>1, <3>2
  <2>5. IsFiniteSet(before)
    <3>1. before \subseteq D
      OBVIOUS
    <3> QED
      BY <1>1, <3>1, FS_Subset
  <2> HIDE DEF C, own, foreign, before, shown
  <2>6. /\ R \cap strangers = {} /\ R \cup strangers = C
        /\ IsFiniteSet(R) /\ IsFiniteSet(strangers)
    BY <1>4, <1>5, FS_Subset
  <2>7. /\ Cardinality(C) = Cardinality(R) + Cardinality(strangers)
        /\ Cardinality(R) \in Nat /\ Cardinality(strangers) \in Nat
    <3>1. Cardinality(R \cup strangers) =
            Cardinality(R) + Cardinality(strangers) - Cardinality(R \cap strangers)
      BY <2>6, FS_Union
    <3>2. Cardinality(R) \in Nat /\ Cardinality(strangers) \in Nat
      BY <2>6, FS_CardinalityType
    <3>3. Cardinality(R \cap strangers) = 0
      BY <2>6, FS_EmptySet
    <3>4. Cardinality(R \cup strangers) = Cardinality(C)
      BY <2>6
    <3> QED
      BY <3>1, <3>2, <3>3, <3>4
  <2>8. Cardinality(strangers) <= Cardinality(before) /\ Cardinality(before) \in Nat
    BY <2>4, <2>5, FS_Subset, FS_CardinalityType
  <2>9. Cardinality(R) < k
    BY <1>8, <2>1
  <2> QED
    BY <1>2, <2>3, <2>7, <2>8, <2>9 DEF before
<1> HIDE DEF C, shown
<1>9. shown \subseteq own
  BY <1>5, <1>6
<1> QED
  BY <1>3, <1>6, <1>7, <1>8, <1>9 DEF SearchShowsBestOwn, D

LEMMA NothingRead ==
  ASSUME read' = Nothing
  PROVE  SearchShowsBestOwn' /\ LookupIsExact'
BY DEF Nothing, SearchShowsBestOwn, LookupIsExact

-----------------------------------------------------------------------------
(* A lookup.                                                               *)

\* The earliest of some chapters.
LEMMA EarliestIsLeast ==
  ASSUME NEW S \in SUBSET Chapters, S # {}
  PROVE  Earliest(S) \in S /\ \A d \in S : Earliest(S) <= d
<1>1. S \in SUBSET Int /\ IsFiniteSet(S)
  <2>1. IsFiniteSet(Chapters)
    BY ReadBounds, FS_Interval, 1 \in Int, MaxChapter \in Int DEF Chapters
  <2>2. IsFiniteSet(S)
    BY <2>1, FS_Subset
  <2>3. Chapters \subseteq Int
    BY ReadBounds DEF Chapters
  <2> QED
    BY <2>2, <2>3
<1>2. \E c \in S : \A d \in S : c <= d
  BY <1>1, LeastExists
<1> QED
  BY <1>2 DEF Earliest

\* What the query's one date says of all that dates a fact.
LEMMA BoundOnDates ==
  ASSUME NEW f \in Facts, NEW bound \in Chapters
  PROVE  /\ Within(f, bound) => BeginsBy(f, bound)
         /\ SurelyBy(f, bound) => Within(f, bound)
<1>1. /\ f.chapter \in Chapters \cup {Absent} /\ f.events \in SUBSET Chapters
      /\ f.passages \in SUBSET Chapters
      /\ f.chapter = Absent \/ f.events = {}
  BY DEF Facts
<1>2. Chapters \subseteq Int /\ Absent \notin Chapters
  BY ReadBounds DEF Chapters
<1>3. Within(f, bound) <=> Established(f) # Absent /\ Established(f) <= bound
  BY <1>2 DEF Within
<1>4. Dates(f) = ({f.chapter} \ {Absent}) \cup f.events \cup f.passages
  BY DEF Dates
<1>5. CASE f.chapter # Absent
  <2>1. Established(f) = f.chapter /\ f.chapter \in Dates(f) /\ f.events = {}
    BY <1>1, <1>4, <1>5 DEF Established
  <2> QED
    BY <1>3, <1>5, <2>1 DEF BeginsBy, SurelyBy
<1>6. CASE f.chapter = Absent /\ f.events # {}
  <2>1. Established(f) = Earliest(f.events)
    BY <1>6 DEF Established
  <2>2. Earliest(f.events) \in f.events /\ \A d \in f.events : Earliest(f.events) <= d
    BY <1>1, <1>6, EarliestIsLeast
  <2>3. f.events \subseteq Dates(f)
    BY <1>4
  <2> DEFINE m == Earliest(f.events)
  <2> HIDE DEF m
  <2>4. m \in f.events /\ (\A d \in f.events : m <= d) /\ Established(f) = m
    BY <2>1, <2>2 DEF m
  <2>5. m \in Chapters /\ m # Absent /\ m \in Int /\ bound \in Int
    BY <1>1, <1>2, <2>4
  <2>6. Within(f, bound) <=> m <= bound
    BY <1>3, <2>4, <2>5
  <2>7. m <= bound => BeginsBy(f, bound)
    BY <1>6, <2>3, <2>4 DEF BeginsBy
  <2>8. ASSUME SurelyBy(f, bound)
        PROVE  m <= bound
    <3>1. PICK c \in f.events : c <= bound
      BY <1>6, <2>3, <2>4, <2>8 DEF SurelyBy
    <3>2. c \in Int /\ m <= c
      BY <1>1, <1>2, <2>4
    <3> QED
      BY <2>5, <3>1, <3>2
  <2> QED
    BY <2>6, <2>7, <2>8
<1>7. CASE f.chapter = Absent /\ f.events = {} /\ f.passages # {}
  <2> DEFINE m == Earliest(f.passages)
  <2>1. m \in f.passages /\ Established(f) = m /\ Dates(f) = f.passages
    BY <1>1, <1>4, <1>7, EarliestIsLeast DEF Established
  <2> HIDE DEF m
  <2>2. m # Absent
    BY <1>1, <1>2, <2>1
  <2> QED
    BY <1>3, <1>7, <2>1, <2>2 DEF BeginsBy, SurelyBy
<1>8. CASE f.chapter = Absent /\ f.events = {} /\ f.passages = {}
  <2>1. Established(f) = Absent /\ Dates(f) = {}
    BY <1>4, <1>8 DEF Established
  <2> QED
    BY <1>3, <1>8, <2>1 DEF SurelyBy
<1> QED
  BY <1>5, <1>6, <1>7, <1>8

\* The graphs a query meets are finite sets of such facts.
LEMMA GraphsTyped ==
  ASSUME NEW g \in Graphs
  PROVE  IsFiniteSet(g) /\ g \subseteq Facts
<1> DEFINE hung == {f \in Facts : f.of # {}}
<1>0. PICK n \in 0 .. MaxFacts : \E s \in [1 .. n -> hung] : g = {s[i] : i \in DOMAIN s}
  BY DEF Graphs
<1>1. PICK s \in [1 .. n -> hung] : g = {s[i] : i \in DOMAIN s}
  BY <1>0
<1>2. s \in Surjection(1 .. n, g)
  <2>1. s \in [1 .. n -> g] /\ \A f \in g : \E i \in 1 .. n : s[i] = f
    <3> HIDE DEF hung
    <3> QED BY <1>1
  <2> QED
    BY <2>1, Fun_IsSurj
<1>3. IsFiniteSet(1 .. n)
  BY ReadBounds, FS_Interval, 1 \in Int, n \in Int
<1>4. IsFiniteSet(g)
  BY <1>2, <1>3, FS_Surjection
<1>5. \A f \in g : f \in hung
  <2> HIDE DEF hung
  <2> QED BY <1>1
<1> QED
  BY <1>4, <1>5

\* Between the queries of a lookup its ids and its bound are known.
Looking == found # Nothing => found.ids \in SUBSET Ids /\ found.upTo \in Bounds

LEMMA ReadFactsIsExact ==
  ASSUME Looking, NEW g \in Graphs, ReadFacts(g)
  PROVE  LookupIsExact'
<1> DEFINE ids == found.ids
           upTo == found.upTo
           R == Rows(g)
<1>1. ids \in SUBSET Ids /\ upTo \in Bounds
  BY DEF ReadFacts, Looking
<1>2. PICK S \in SUBSET R :
        /\ IsCut(S, R)
        /\ read' = [tool |-> "lookup", upTo |-> upTo, ids |-> ids, graph |-> g, rows |-> S]
  BY DEF ReadFacts
<1>3. IsFiniteSet(R) /\ Cardinality(R) \in Nat
  <2>1. IsFiniteSet(ids \X g)
    BY <1>1, GraphsTyped, ReadBounds, FS_Subset, FS_Product
  <2>2. R \subseteq ids \X g
    BY DEF Rows
  <2> QED
    BY <2>1, <2>2, FS_Subset, FS_CardinalityType
<1>4. ASSUME NEW r \in S
      PROVE  /\ r[2].owner = Asker
             /\ upTo # Absent => BeginsBy(r[2], upTo)
  <2>1. r \in ids \X g /\ r[2] \in g /\ r[2].owner = Asker /\ Within(r[2], upTo)
    BY DEF Rows
  <2>2. ASSUME upTo # Absent
        PROVE  BeginsBy(r[2], upTo)
    <3>1. r[2] \in Facts /\ upTo \in Chapters
      BY <1>1, <2>1, <2>2, GraphsTyped DEF Bounds
    <3> QED
      BY <2>1, <3>1, BoundOnDates
  <2> QED
    BY <2>1, <2>2
<1>5. ASSUME Cardinality(S) < FactLimit, NEW e \in ids, NEW f \in g,
             e \in f.of, f.owner = Asker, upTo = Absent \/ SurelyBy(f, upTo)
      PROVE  <<e, f>> \in S
  <2>1. S = R
    <3>1. Cardinality(S) = Cardinality(R)
      BY <1>2, <1>3, <1>5, ReadBounds DEF IsCut
    <3> HIDE DEF R
    <3> QED
      BY <1>3, <3>1, FS_Subset
  <2>2. Within(f, upTo)
    <3>1. CASE upTo = Absent
      BY <3>1 DEF Within
    <3>2. CASE upTo # Absent
      <4>1. f \in Facts /\ upTo \in Chapters /\ SurelyBy(f, upTo)
        BY <1>1, <1>5, <3>2, GraphsTyped DEF Bounds
      <4> QED
        BY <4>1, BoundOnDates
    <3> QED
      BY <3>1, <3>2
  <2>3. <<e, f>> \in R
    BY <1>5, <2>2 DEF Rows
  <2> QED
    BY <2>1, <2>3
<1> HIDE DEF R
<1> QED
  BY <1>2, <1>4, <1>5 DEF LookupIsExact

ReadsInv == Looking /\ SearchShowsBestOwn /\ LookupIsExact

LEMMA ReadsInvInit == JointInit => ReadsInv
BY DEF JointInit, ReadsInit, ReadsInv, Looking, Nothing, SearchShowsBestOwn, LookupIsExact

LEMMA ReadsInvNext == ReadsInv /\ [JointNext]_allVars => ReadsInv'
<1> SUFFICES ASSUME ReadsInv, [JointNext]_allVars PROVE ReadsInv'
  OBVIOUS
<1>1. ASSUME UNCHANGED <<found, read>>
      PROVE  ReadsInv'
  BY <1>1 DEF ReadsInv, Looking, SearchShowsBestOwn, LookupIsExact
<1>2. ASSUME NEW k \in 1 .. MaxTopK, NEW hits \in Hits, Search(k, hits)
      PROVE  ReadsInv'
  <2>1. SearchShowsBestOwn'
    BY <1>2, SearchIsExact
  <2>2. Looking' /\ LookupIsExact'
    BY <1>2 DEF Search, ReadsInv, Looking, LookupIsExact
  <2> QED
    BY <2>1, <2>2 DEF ReadsInv
<1>3. ASSUME NEW upTo \in Bounds, FindNothing(upTo)
      PROVE  ReadsInv'
  BY <1>3 DEF FindNothing, ReadsInv, Looking, SearchShowsBestOwn, LookupIsExact
<1>4. ASSUME NEW ids \in SUBSET Ids, NEW upTo \in Bounds, FindEntities(ids, upTo)
      PROVE  ReadsInv'
  BY <1>4 DEF FindEntities, ReadsInv, Looking, SearchShowsBestOwn, LookupIsExact
<1>5. ASSUME NEW g \in Graphs, ReadFacts(g)
      PROVE  ReadsInv'
  <2>1. LookupIsExact'
    BY <1>5, ReadFactsIsExact DEF ReadsInv
  <2>2. Looking' /\ SearchShowsBestOwn'
    BY <1>5 DEF ReadFacts, Looking, SearchShowsBestOwn
  <2> QED
    BY <2>1, <2>2 DEF ReadsInv
<1>6. CASE ReadOriginal
  BY <1>6 DEF ReadOriginal, ReadsInv, Looking, SearchShowsBestOwn, LookupIsExact
<1>7. CASE ReadReturned \/ ReadFailed
  <2>1. SearchShowsBestOwn' /\ LookupIsExact'
    BY <1>7, NothingRead DEF ReadReturned, ReadFailed
  <2>2. Looking'
    BY <1>7 DEF ReadReturned, ReadFailed, ReadsInv, Looking
  <2> QED
    BY <2>1, <2>2 DEF ReadsInv
<1> QED
  BY <1>1, <1>2, <1>3, <1>4, <1>5, <1>6, <1>7
  DEF JointNext, Reads, ToolReturns, AgentGoesOn, allVars

LEMMA ReadsInvariant == JointSpec => []ReadsInv
BY ReadsInvInit, ReadsInvNext, PTL DEF JointSpec

\* A search shows the best of the asker's own hits and no one else's, and fewer
\* than there are only where foreign hits outnumber the oversampling, for every
\* number of novels and every ranking.
THEOREM SearchesShowBestOwn == JointSpec => []SearchShowsBestOwn
<1>1. ReadsInv => SearchShowsBestOwn
  BY DEF ReadsInv
<1> QED
  BY <1>1, ReadsInvariant, PTL

\* A lookup shows facts of the asker that begin by the bound, and unless they are
\* cut at the limit all that surely do, for every graph, whatever dates a fact has
\* and whatever becomes of the ids between the two queries.
THEOREM LookupsAreExact == JointSpec => []LookupIsExact
<1>1. ReadsInv => LookupIsExact
  BY DEF ReadsInv
<1> QED
  BY <1>1, ReadsInvariant, PTL

=============================================================================
