-------------------------- MODULE AgentGraph_proofs --------------------------
(***************************************************************************)
(* Proofs about the graphs of one question.  GraphInv says what is true at *)
(* each node: how many supersteps and executions it took to get there, and *)
(* which steps of the plan stand.  From it follow the bound on the longest *)
(* turn, the grounding on the whole plan, and that every superstep is a    *)
(* step of AgentTurn.                                                      *)
(***************************************************************************)
EXTENDS AgentGraph, SequenceTheorems, TLAPS

Steps == [id : StepIds, retries : Nat]
Executions == [id : StepIds, verdict : {"ok", "bad"}]

\* The nodes of the plan-and-execute loop, in which a step is in hand.
InHand == {"execute_step", "verify_step"}
Loop == {"budget_guard_step", "advance_step", "execute_step", "verify_step",
         "budget_guard_replan", "replan"}

TypeInv ==
    /\ graph \in Graphs
    /\ node \in Nodes \cup Final
    /\ supersteps \in Nat
    /\ plan \in Seq(StepIds) /\ shown \in Seq(StepIds)
    /\ current \in Steps \cup {NoStep}
    /\ past \in Seq(Executions)
    /\ revision \in {0, 1}
    /\ asking \in BOOLEAN
    /\ answer \in Turn!Answers \cup {"none", "empty"}
    /\ shipped \in Turn!Shipments

\* Which nodes a graph has, and what the loop keeps in hand.
PlaceInv ==
    /\ graph # "agentic" => node \notin Loop \cup {"planner", "synthesize_failure"}
    /\ graph = "agentic" => node \notin {"check_clarification", "query_analyzer", "source_router",
                                         "text_to_query", "retrieve_context", "reflector"}
    /\ node \in InHand \cup {"budget_guard_replan", "replan"} => current # NoStep
    /\ graph = "agentic" /\ node \in {"load_history", "guardrail_input", "planner"} =>
          current = NoStep

\* The longest way to a node of the agentic graph: the frame, four nodes per
\* execution, and two more for a revision.
Longest(n) ==
    CASE n = "load_history" -> 0
      [] n = "guardrail_input" -> 1
      [] n = "planner" -> 2
      [] n = "handle_clarification" -> 3
      [] n = "budget_guard_step" -> 3 + 4 * Len(past) + 2 * revision
      [] n = "advance_step" -> 4 + 4 * Len(past) + 2 * revision
      [] n = "execute_step" -> 5 + 4 * Len(past) + 2 * revision
      [] n = "verify_step" -> 2 + 4 * Len(past) + 2 * revision
      [] n = "budget_guard_replan" -> 3 + 4 * Len(past) + 2 * revision
      [] n = "replan" -> 4 + 4 * Len(past) + 2 * revision
      [] n = "synthesize_failure" -> 6 + 4 * Len(past)
      [] n = "generate_response" -> 7 + 4 * Len(past)
      [] n = "format_response" -> 8 + 4 * Len(past)
      [] n = "guardrail_output" -> 9 + 4 * Len(past)
      [] OTHER -> 10 + 4 * Len(past)

LengthInv ==
    /\ graph = "agentic" =>
         /\ supersteps <= Longest(node)
         /\ Len(past) <= MaxSteps
         /\ node \in {"advance_step", "execute_step"} => Len(past) < MaxSteps
         /\ node \in {"budget_guard_replan", "replan"} => revision = 0

\* Every id that was executed has a latest execution.
LatestInv ==
    \A i \in StepIds : Runs_of(i) # {} =>
        \E k \in Runs_of(i) : \A m \in Runs_of(i) : m <= k

Stands(i) == Runs_of(i) # {} /\ LastVerdict(i) = "ok"

\* The part of the plan that was dispatched, and the part that is left.
Dispatched == Len(shown) - Len(plan)
PlanInv ==
    /\ Len(plan) <= Len(shown)
    /\ \A j \in 1..Len(plan) : plan[j] = shown[Dispatched + j]
    /\ node \in Loop \ {"budget_guard_replan", "replan"} =>
          \A k \in 1..Dispatched : Stands(shown[k]) \/ (current # NoStep /\ shown[k] = current.id)
    /\ node \in {"budget_guard_step", "advance_step"} =>
          /\ PendingRetry \/ (plan # <<>> /\ (current = NoStep \/ Stands(current.id)))
    /\ node = "verify_step" =>
          /\ Runs_of(current.id) # {} /\ LastRun(current.id) = Len(past)
    /\ graph = "agentic" /\ node = "generate_response" =>
          failing \/ \A k \in 1..Len(shown) : Stands(shown[k])

GroundedInv == GroundedOnPlan

\* Nothing is shipped before the synthesis, and who asks back ships nothing.
TurnInv ==
    /\ node \in Nodes \ {"generate_response", "format_response", "guardrail_output", "reflector",
                         "query_analyzer", "source_router", "text_to_query", "retrieve_context"}
          => answer = "none" /\ shipped = "none"
    /\ asking => shipped = "none"
                 /\ node \in {"handle_clarification", "guardrail_output"} \cup Final
    /\ node \in {"format_response", "guardrail_output", "reflector"} => answer # "none"
    /\ node = "end" => answer \in Turn!Answers

GraphInv == TypeInv /\ PlaceInv /\ LengthInv /\ LatestInv /\ PlanInv /\ GroundedInv /\ TurnInv

-----------------------------------------------------------------------------
(* The executions of a step. *)

\* The latest execution of an id is one of its executions, and the last.
LEMMA LatestIsLast ==
    ASSUME LatestInv, NEW i \in StepIds, Runs_of(i) # {}
    PROVE  LastRun(i) \in Runs_of(i) /\ \A m \in Runs_of(i) : m <= LastRun(i)
  BY DEF LatestInv, LastRun

\* An execution that is appended is the latest of its id, and is nothing to
\* the other ids.
LEMMA Appended ==
    ASSUME LatestInv, past \in Seq(Executions), NEW e \in Executions, past' = Append(past, e)
    PROVE  /\ past' \in Seq(Executions) /\ Len(past') = Len(past) + 1
           /\ LatestInv'
           /\ Runs_of(e.id)' # {} /\ LastRun(e.id)' = Len(past')
           /\ \A i \in StepIds : i # e.id /\ Stands(i) => Stands(i)'
  <1>1. past' \in Seq(Executions) /\ Len(past') = Len(past) + 1 /\ Len(past) \in Nat
    OBVIOUS
  <1>2. /\ past'[Len(past) + 1] = e
        /\ \A k \in 1..Len(past) : past'[k] = past[k]
    OBVIOUS
  <1>3. \A i : Runs_of(i)' = IF i = e.id THEN Runs_of(i) \cup {Len(past) + 1} ELSE Runs_of(i)
    BY <1>1, <1>2 DEF Runs_of
  <1>4. \A i : \A m \in Runs_of(i) : m \in Nat /\ m <= Len(past)
    BY <1>1 DEF Runs_of
  <1>5. Len(past) + 1 \in Runs_of(e.id)' /\ \A m \in Runs_of(e.id)' : m <= Len(past) + 1
    BY <1>1, <1>3, <1>4
  <1>6. LatestInv'
    BY <1>3, <1>5 DEF LatestInv
  <1>7. LastRun(e.id)' = Len(past')
    <2>1. \A k \in Runs_of(e.id)' : (\A m \in Runs_of(e.id)' : m <= k) => k = Len(past) + 1
      BY <1>1, <1>3, <1>4, <1>5
    <2> QED
      BY <1>1, <1>5, <2>1 DEF LastRun
  <1>8. ASSUME NEW i \in StepIds, i # e.id, Stands(i)
        PROVE  Stands(i)'
    <2>1. Runs_of(i)' = Runs_of(i)
      BY <1>3, <1>8
    <2>2. LastRun(i)' = LastRun(i)
      BY <2>1 DEF LastRun
    <2>3. LastRun(i) \in 1..Len(past)
      BY <1>8, LatestIsLast DEF Stands, Runs_of
    <2> QED
      BY <1>2, <1>8, <2>1, <2>2, <2>3 DEF Stands, LastVerdict
  <1> QED
    BY <1>1, <1>5, <1>6, <1>7, <1>8

\* A grade goes to one execution, the latest of its id, and leaves the
\* standing of the other ids alone.
LEMMA Graded ==
    ASSUME LatestInv, past \in Seq(Executions), NEW i \in StepIds, Runs_of(i) # {},
           NEW v \in {"ok", "bad"}, past' = [past EXCEPT ![LastRun(i)].verdict = v]
    PROVE  /\ past' \in Seq(Executions) /\ Len(past') = Len(past)
           /\ LatestInv'
           /\ Runs_of(i)' # {} /\ LastVerdict(i)' = v
           /\ \A j \in StepIds : j # i /\ Stands(j) => Stands(j)'
  <1> DEFINE last == LastRun(i)
  <1>1. last \in 1..Len(past) /\ past[last].id = i
    BY LatestIsLast DEF Runs_of
  <1>2. /\ past' \in Seq(Executions) /\ Len(past') = Len(past)
        /\ past'[last] = [past[last] EXCEPT !.verdict = v]
        /\ \A k \in 1..Len(past) : k # last => past'[k] = past[k]
    <2> DEFINE graded == [past[last] EXCEPT !.verdict = v]
    <2>1. past' = [past EXCEPT ![last] = graded]
      OBVIOUS
    <2> HIDE DEF last
    <2>2. past[last] \in Executions
      BY <1>1
    <2>3. graded \in Executions
      BY <2>2 DEF Executions
    <2> HIDE DEF graded
    <2>4. /\ past' \in Seq(Executions) /\ Len(past') = Len(past)
          /\ \A k \in 1..Len(past) : past'[k] = IF k = last THEN graded ELSE past[k]
      <3>1. last \in 1..Len(past)
        BY <1>1
      <3>2. LET new == [past EXCEPT ![last] = graded] IN
            /\ new \in Seq(Executions) /\ Len(new) = Len(past)
            /\ \A k \in 1..Len(past) : new[k] = IF k = last THEN graded ELSE past[k]
        BY <2>3, <3>1, ExceptSeq
      <3> QED
        BY <2>1, <3>2
    <2> QED
      BY <1>1, <2>4 DEF graded
  <1>3. past'[last].id = i /\ past'[last].verdict = v
    BY <1>1, <1>2 DEF Executions
  <1>4. \A j : Runs_of(j)' = Runs_of(j)
    <2>1. \A k \in 1..Len(past) : past'[k].id = past[k].id
      BY <1>1, <1>2, <1>3
    <2> QED
      BY <1>2, <2>1 DEF Runs_of
  <1>5. \A j : LastRun(j)' = LastRun(j)
    BY <1>4 DEF LastRun
  <1>6. LatestInv'
    BY <1>4 DEF LatestInv
  <1>7. LastVerdict(i)' = v
    BY <1>3, <1>5 DEF LastVerdict
  <1>8. ASSUME NEW j \in StepIds, j # i, Stands(j)
        PROVE  Stands(j)'
    <2>1. LastRun(j) \in 1..Len(past) /\ past[LastRun(j)].id = j
      BY <1>8, LatestIsLast DEF Stands, Runs_of
    <2>2. past'[LastRun(j)] = past[LastRun(j)]
      BY <1>1, <1>2, <1>8, <2>1
    <2> QED
      BY <1>4, <1>5, <1>8, <2>2 DEF Stands, LastVerdict
  <1> QED
    BY <1>2, <1>4, <1>6, <1>7, <1>8

\* A step that changes no execution leaves the standing of every id alone.
LEMMA PastUnchanged ==
    ASSUME UNCHANGED past
    PROVE  /\ LatestInv => LatestInv'
           /\ \A i : Runs_of(i)' = Runs_of(i) /\ LastVerdict(i)' = LastVerdict(i)
                     /\ LastRun(i)' = LastRun(i) /\ Stands(i)' = Stands(i)
  BY DEF LatestInv, Runs_of, LastVerdict, LastRun, Stands

-----------------------------------------------------------------------------
(* The steps outside the loop of the agentic graph. *)

\* What a step outside the loop has in common with the others: the plan and
\* the executions stay, and a failing turn stays one.
Outside ==
    /\ UNCHANGED <<graph, plan, shown, current, past, revision, budgetHit>>
    /\ failing => failing'
    /\ node' \in (Nodes \cup Final) \ Loop
    /\ node' = "generate_response" /\ graph = "agentic" => failing'

\* Such a step keeps what is said about the plan.
LEMMA OutsideKeepsPlan ==
    ASSUME GraphInv, Outside
    PROVE  LatestInv' /\ PlanInv'
  <1>1. LatestInv'
    BY PastUnchanged DEF GraphInv, Outside
  <1>2. node' \notin Loop \cup InHand
    BY DEF Outside, Loop, InHand
  <1>3. PlanInv'
    <2>1. Len(plan') <= Len(shown') /\ \A j \in 1..Len(plan') : plan'[j] = shown'[Dispatched' + j]
      BY DEF GraphInv, PlanInv, Outside, Dispatched
    <2>2. graph' = "agentic" /\ node' = "generate_response" => failing'
      BY DEF Outside
    <2> QED
      BY <1>2, <2>1, <2>2 DEF PlanInv, Loop
  <1> QED
    BY <1>1, <1>3

\* It keeps the grounding when it writes no text and lets a text's error be.
LEMMA OutsideKeepsGrounded ==
    ASSUME GraphInv, Outside, answer' = "text" => UNCHANGED <<answer, error>>
    PROVE  GroundedInv'
  <1>1. \A k \in 1..Len(shown) : Runs_of(shown[k])' = Runs_of(shown[k])
                                 /\ LastVerdict(shown[k])' = LastVerdict(shown[k])
    BY DEF Outside, Runs_of, LastVerdict, LastRun
  <1> QED
    BY <1>1 DEF GraphInv, GroundedInv, GroundedOnPlan, Outside

\* The actions outside the loop.
OutsideStep ==
    \/ OutOfSteps \/ NodeRaises \/ GuardRaises
    \/ LoadHistory \/ GuardInput \/ CheckClarification \/ HandleClarification
    \/ FormatResponse \/ GuardOutput \/ Generate \/ GenerateFails
    \/ QueryAnalyzer \/ SourceRouter \/ TextToQuery \/ RetrieveContext \/ Reflect
    \/ SynthesizeFailure

LEMMA OutsideStepIsOutside ==
    ASSUME GraphInv, OutsideStep
    PROVE  Outside
  <1> USE DEF Runs, loopVars, Outside, Nodes, Final, Loop, GraphInv, TypeInv
  <1>1. CASE OutOfSteps \/ NodeRaises \/ GuardRaises
    BY <1>1 DEF OutOfSteps, NodeRaises, GuardRaises
  <1>2. CASE CheckClarification \/ HandleClarification \/ FormatResponse \/ GuardOutput
    BY <1>2 DEF CheckClarification, HandleClarification, FormatResponse, GuardOutput
  <1>3. CASE Generate \/ GenerateFails
    BY <1>3 DEF Generate, GenerateFails, AfterGenerate
  <1>4. CASE QueryAnalyzer \/ SourceRouter \/ TextToQuery \/ RetrieveContext \/ Reflect
    BY <1>4 DEF QueryAnalyzer, SourceRouter, TextToQuery, RetrieveContext, Reflect, PlaceInv
  <1>5. CASE SynthesizeFailure
    BY <1>5 DEF SynthesizeFailure
  <1>6. CASE LoadHistory \/ GuardInput
    BY <1>6, GraphAssumption
    DEF LoadHistory, GuardInput, AfterHistory, AfterGuard, answerVars, GraphAssumption
  <1> QED
    BY <1>1, <1>2, <1>3, <1>4, <1>5, <1>6 DEF OutsideStep

\* Where a step outside the loop leads to.
OutsideEdge ==
    /\ supersteps' \in Nat /\ supersteps' <= supersteps + 1
    /\ node \notin Final
    /\ graph = "agentic" =>
          \/ node' \in Final
          \/ node = "load_history" /\ node' = "guardrail_input"
          \/ node = "guardrail_input" /\ node' = "planner"
          \/ node = "handle_clarification" /\ node' = "guardrail_output"
          \/ node = "synthesize_failure" /\ node' = "generate_response"
          \/ node = "generate_response" /\ node' = "format_response"
          \/ node = "format_response" /\ node' = "guardrail_output"
    /\ graph # "agentic" => node' \notin {"planner", "synthesize_failure"}

LEMMA OutsideEdges ==
    ASSUME GraphInv, OutsideStep
    PROVE  OutsideEdge
  <1> USE DEF Runs, OutsideEdge, Final, GraphInv, TypeInv, PlaceInv
  <1>1. CASE OutOfSteps \/ NodeRaises \/ GuardRaises
    BY <1>1 DEF OutOfSteps, NodeRaises, GuardRaises, Raising
  <1>2. CASE LoadHistory \/ GuardInput
    BY <1>2, GraphAssumption DEF LoadHistory, GuardInput, AfterHistory, AfterGuard, GraphAssumption
  <1>3. CASE CheckClarification \/ HandleClarification \/ FormatResponse \/ GuardOutput
    BY <1>3 DEF CheckClarification, HandleClarification, FormatResponse, GuardOutput
  <1>4. CASE Generate \/ GenerateFails
    BY <1>4 DEF Generate, GenerateFails, AfterGenerate
  <1>5. CASE QueryAnalyzer \/ SourceRouter \/ TextToQuery \/ RetrieveContext \/ Reflect
    BY <1>5 DEF QueryAnalyzer, SourceRouter, TextToQuery, RetrieveContext, Reflect
  <1>6. CASE SynthesizeFailure
    BY <1>6 DEF SynthesizeFailure
  <1> QED
    BY <1>1, <1>2, <1>3, <1>4, <1>5, <1>6 DEF OutsideStep

\* An answer that is a text was one, with the same error, unless it has just
\* been written.
LEMMA TextStays ==
    ASSUME GraphInv, OutsideStep, ~Generate, answer' = "text"
    PROVE  UNCHANGED <<answer, error>> \/ graph # "agentic"
  <1> USE DEF Replace, answerVars, GraphInv, PlaceInv, Runs
  <1>1. CASE OutOfSteps \/ NodeRaises \/ GuardRaises
    BY <1>1 DEF OutOfSteps, NodeRaises, GuardRaises
  <1>2. CASE LoadHistory \/ GuardInput
    BY <1>2 DEF LoadHistory, GuardInput
  <1>3. CASE CheckClarification \/ HandleClarification \/ FormatResponse \/ GuardOutput
    BY <1>3 DEF CheckClarification, HandleClarification, FormatResponse, GuardOutput
  <1>4. CASE GenerateFails \/ SynthesizeFailure
    BY <1>4 DEF GenerateFails, SynthesizeFailure
  <1>5. CASE QueryAnalyzer \/ SourceRouter \/ TextToQuery \/ RetrieveContext \/ Reflect
    BY <1>5 DEF QueryAnalyzer, SourceRouter, TextToQuery, RetrieveContext, Reflect
  <1> QED
    BY <1>1, <1>2, <1>3, <1>4, <1>5 DEF OutsideStep

LEMMA OutsideKeepsTurn ==
    ASSUME GraphInv, OutsideStep
    PROVE  TurnInv'
  <1> USE DEF Replace, answerVars, GraphInv, TypeInv, PlaceInv, TurnInv, Runs, Nodes, Final,
              Turn!Answers, Turn!Shipments
  <1>1. CASE OutOfSteps
    BY <1>1 DEF OutOfSteps
  <1>2. CASE NodeRaises \/ GuardRaises
    BY <1>2 DEF NodeRaises, GuardRaises, Raising
  <1>3. CASE LoadHistory \/ GuardInput
    BY <1>3, GraphAssumption DEF LoadHistory, GuardInput, AfterHistory, AfterGuard, GraphAssumption
  <1>4. CASE CheckClarification \/ HandleClarification
    BY <1>4 DEF CheckClarification, HandleClarification
  <1>5. CASE FormatResponse \/ GuardOutput
    BY <1>5 DEF FormatResponse, GuardOutput
  <1>6. CASE Generate \/ GenerateFails
    BY <1>6 DEF Generate, GenerateFails, AfterGenerate
  <1>7. CASE QueryAnalyzer \/ SourceRouter \/ TextToQuery \/ RetrieveContext \/ Reflect
    BY <1>7 DEF QueryAnalyzer, SourceRouter, TextToQuery, RetrieveContext, Reflect
  <1>8. CASE SynthesizeFailure
    BY <1>8 DEF SynthesizeFailure
  <1> QED
    BY <1>1, <1>2, <1>3, <1>4, <1>5, <1>6, <1>7, <1>8 DEF OutsideStep

LEMMA OutsideStepKeeps ==
    ASSUME GraphInv, OutsideStep
    PROVE  GraphInv'
  <1>1. Outside
    BY OutsideStepIsOutside
  <1>2. LatestInv' /\ PlanInv'
    BY <1>1, OutsideKeepsPlan
  <1>3. TypeInv'
    <2> USE <1>1 DEF GraphInv, TypeInv, Outside
    <2>1. supersteps' \in Nat
      BY DEF OutsideStep, Runs, OutOfSteps, NodeRaises, GuardRaises, LoadHistory, GuardInput,
             CheckClarification, HandleClarification, FormatResponse, GuardOutput, Generate,
             GenerateFails, QueryAnalyzer, SourceRouter, TextToQuery, RetrieveContext, Reflect,
             SynthesizeFailure
    <2>2. asking' \in BOOLEAN
      BY DEF OutsideStep, OutOfSteps, NodeRaises, GuardRaises, LoadHistory, GuardInput,
             CheckClarification, HandleClarification, FormatResponse, GuardOutput, Generate,
             GenerateFails, QueryAnalyzer, SourceRouter, TextToQuery, RetrieveContext, Reflect,
             SynthesizeFailure
    <2>3. answer' \in Turn!Answers \cup {"none", "empty"} /\ shipped' \in Turn!Shipments
      BY DEF OutsideStep, OutOfSteps, NodeRaises, GuardRaises, LoadHistory, GuardInput,
             CheckClarification, HandleClarification, FormatResponse, GuardOutput, Generate,
             GenerateFails, QueryAnalyzer, SourceRouter, TextToQuery, RetrieveContext, Reflect,
             SynthesizeFailure, Replace, answerVars, Turn!Answers, Turn!Shipments
    <2> QED
      BY <2>1, <2>2, <2>3
  <1>4. OutsideEdge
    BY OutsideEdges
  <1>5. PlaceInv'
    BY <1>1, <1>4 DEF GraphInv, PlaceInv, TypeInv, Outside, OutsideEdge, Nodes, Final, Loop, InHand
  <1>6. LengthInv'
    <2> SUFFICES ASSUME graph = "agentic"
                 PROVE  LengthInv'
      BY <1>1 DEF Outside, LengthInv
    <2>1. Len(past) \in Nat /\ revision \in {0, 1} /\ supersteps \in Nat
      BY DEF GraphInv, TypeInv
    <2>2. supersteps <= Longest(node) /\ node \in Nodes /\ PlaceInv
      BY <1>4 DEF GraphInv, TypeInv, LengthInv, OutsideEdge
    <2>3. Len(past') = Len(past) /\ revision' = revision
      BY <1>1 DEF Outside
    <2>4. supersteps' <= Longest(node)'
      <3>1. CASE node' \in Final
        <4>1. Longest(node) \in Nat /\ Longest(node) <= 9 + 4 * Len(past)
          BY <2>1, <2>2 DEF Longest, Nodes, PlaceInv
        <4>2. Longest(node)' = 10 + 4 * Len(past)
          BY <2>3, <3>1 DEF Longest, Final
        <4> QED
          BY <1>4, <2>1, <2>2, <4>1, <4>2 DEF OutsideEdge
      <3>2. CASE node' \notin Final
        BY <1>4, <2>1, <2>2, <2>3, <3>2 DEF OutsideEdge, Longest
      <3> QED
        BY <3>1, <3>2
    <2> QED
      BY <1>1, <2>4 DEF GraphInv, LengthInv, Outside, Loop
  <1>7. GroundedInv'
    <2>1. CASE Generate
      <3>1. PlanInv /\ Outside
        BY <1>1 DEF GraphInv
      <3>2. graph = "agentic" => failing \/ \A k \in 1..Len(shown) : Stands(shown[k])
        BY <2>1, <3>1 DEF Generate, Runs, PlanInv
      <3>3. \A k : Stands(k)' = Stands(k)
        BY <3>1, PastUnchanged DEF Outside
      <3> QED
        BY <3>1, <3>2, <3>3 DEF GroundedInv, GroundedOnPlan, Outside, Stands
    <2>2. CASE ~Generate
      BY <1>1, <2>2, OutsideKeepsGrounded, TextStays DEF GroundedInv, GroundedOnPlan, Outside
    <2> QED
      BY <2>1, <2>2
  <1>8. TurnInv'
    BY OutsideKeepsTurn
  <1> QED
    BY <1>2, <1>3, <1>5, <1>6, <1>7, <1>8 DEF GraphInv

-----------------------------------------------------------------------------
(* The loop of the agentic graph. *)

\* A plan the planner or a revision makes is a sequence of ids, and not empty.
LEMMA PlansAreSequences ==
    ASSUME NEW p \in Plans
    PROVE  p \in Seq(StepIds) /\ Len(p) \in Nat \ {0}
  BY DEF Plans

\* What holds at every node of the loop, the planner and the failure node.
LEMMA InTheLoop ==
    ASSUME GraphInv, node \in Loop \cup {"planner"}
    PROVE  /\ graph = "agentic" /\ answer = "none" /\ shipped = "none" /\ asking = FALSE
           /\ supersteps \in Nat /\ Len(past) \in Nat /\ revision \in {0, 1}
           /\ Len(plan) \in Nat /\ Len(shown) \in Nat
  BY DEF GraphInv, TypeInv, PlaceInv, TurnInv, Nodes, Loop, Final

LEMMA PlannerKeeps ==
    ASSUME GraphInv, Planner
    PROVE  GraphInv'
  <1>1. /\ node = "planner" /\ supersteps' = supersteps + 1
        /\ UNCHANGED <<graph, current, past, revision, budgetHit, failing, answer, shipped>>
        /\ \/ node' = "handle_clarification" /\ asking' = TRUE /\ UNCHANGED <<plan, shown, error>>
           \/ node' = "synthesize_failure" /\ UNCHANGED <<plan, shown, asking>>
           \/ /\ node' = "budget_guard_step" /\ UNCHANGED <<asking, error>>
              /\ plan' = shown' /\ plan' \in Plans
    BY DEF Planner, Runs, reflectVars
  <1>2. /\ graph = "agentic" /\ answer = "none" /\ shipped = "none" /\ asking = FALSE
        /\ supersteps \in Nat /\ Len(past) \in Nat /\ revision \in {0, 1}
        /\ current = NoStep
    BY <1>1, InTheLoop DEF GraphInv, PlaceInv
  <1>3. plan' \in Seq(StepIds) /\ shown' \in Seq(StepIds)
    BY <1>1, PlansAreSequences DEF GraphInv, TypeInv
  <1>4. TypeInv'
    <2>1. node' \in Nodes /\ asking' \in BOOLEAN
      BY <1>1, <1>2 DEF Nodes
    <2>2. supersteps' \in Nat
      BY <1>1, <1>2
    <2> QED
      BY <1>1, <1>3, <2>1, <2>2 DEF GraphInv, TypeInv
  <1>5. PlaceInv'
    BY <1>1, <1>2 DEF PlaceInv, Loop, InHand
  <1>6. LengthInv'
    BY <1>1, <1>2 DEF GraphInv, LengthInv, Longest
  <1>7. LatestInv'
    BY <1>1, PastUnchanged DEF GraphInv
  <1>8. PlanInv'
    <2>1. CASE node' # "budget_guard_step"
      BY <1>1, <2>1 DEF GraphInv, PlanInv, Dispatched, Loop
    <2>2. CASE node' = "budget_guard_step"
      <3>1. plan' = shown' /\ plan' \in Seq(StepIds) /\ Len(plan') \in Nat \ {0}
        BY <1>1, <2>2, PlansAreSequences
      <3>2. Dispatched' = 0 /\ plan' # <<>>
        BY <3>1 DEF Dispatched
      <3> QED
        BY <1>1, <1>2, <2>2, <3>1, <3>2 DEF PlanInv
    <2> QED
      BY <2>1, <2>2
  <1>9. GroundedInv'
    BY <1>1, <1>2 DEF GroundedInv, GroundedOnPlan
  <1>10. TurnInv'
    BY <1>1, <1>2 DEF GraphInv, TurnInv, Nodes, Final
  <1> QED
    BY <1>4, <1>5, <1>6, <1>7, <1>8, <1>9, <1>10 DEF GraphInv

LEMMA BudgetGuardKeeps ==
    ASSUME GraphInv, BudgetGuardStep \/ BudgetGuardReplan
    PROVE  GraphInv'
  <1>1. /\ supersteps' = supersteps + 1
        /\ UNCHANGED <<graph, plan, shown, current, past, revision, failing, answer, error, shipped, asking>>
        /\ \/ node \in {"budget_guard_step", "budget_guard_replan"}
              /\ node' = "synthesize_failure" /\ budgetHit' = TRUE
           \/ ~OverCaps /\ budgetHit' = FALSE
              /\ \/ node = "budget_guard_step" /\ node' = "advance_step"
                 \/ node = "budget_guard_replan" /\ node' = "replan"
    BY DEF BudgetGuardStep, BudgetGuardReplan, BudgetGuard, Runs, answerVars
  <1>2. /\ graph = "agentic" /\ answer = "none" /\ shipped = "none" /\ asking = FALSE
        /\ supersteps \in Nat /\ Len(past) \in Nat /\ revision \in {0, 1}
    BY <1>1, InTheLoop DEF Loop
  <1>3. TypeInv'
    BY <1>1, <1>2 DEF GraphInv, TypeInv, Nodes, Final
  <1>4. PlaceInv'
    BY <1>1, <1>2 DEF GraphInv, PlaceInv, Loop, InHand
  <1>5. LengthInv'
    <2>1. ~OverCaps => Len(past) < MaxSteps
      BY <1>2, GraphAssumption DEF OverCaps, GraphAssumption
    <2> QED
      BY <1>1, <1>2, <2>1 DEF GraphInv, LengthInv, Longest
  <1>6. LatestInv'
    BY <1>1, PastUnchanged DEF GraphInv
  <1>7. PlanInv'
    <2>1. PlanInv /\ PendingRetry' = PendingRetry /\ Dispatched' = Dispatched
      BY <1>1, PastUnchanged DEF GraphInv, PendingRetry, Dispatched
    <2>2. \A i : Stands(i)' = Stands(i)
      BY <1>1, PastUnchanged
    <2> QED
      BY <1>1, <2>1, <2>2 DEF PlanInv, Loop
  <1>8. GroundedInv'
    BY <1>1, <1>2 DEF GroundedInv, GroundedOnPlan
  <1>9. TurnInv'
    BY <1>1, <1>2 DEF GraphInv, TurnInv, Nodes, Final
  <1> QED
    BY <1>3, <1>4, <1>5, <1>6, <1>7, <1>8, <1>9 DEF GraphInv

\* A pending retry stays in hand; else the first step of the plan comes next,
\* and the step before it stands.
LEMMA AdvanceKeeps ==
    ASSUME GraphInv, AdvanceStep
    PROVE  GraphInv'
  <1>1. /\ node = "advance_step" /\ node' = "execute_step" /\ supersteps' = supersteps + 1
        /\ UNCHANGED <<graph, shown, past, revision, budgetHit, failing, answer, error, shipped, asking>>
        /\ \/ PendingRetry /\ UNCHANGED <<plan, current>>
           \/ /\ ~PendingRetry /\ plan' = Tail(plan)
              /\ current' = [id |-> Head(plan), retries |-> 0]
    BY DEF AdvanceStep, Runs, answerVars
  <1>2. /\ graph = "agentic" /\ answer = "none" /\ shipped = "none" /\ asking = FALSE
        /\ supersteps \in Nat /\ Len(past) \in Nat /\ revision \in {0, 1}
    BY <1>1, InTheLoop DEF Loop
  <1>3. plan \in Seq(StepIds) /\ shown \in Seq(StepIds) /\ current \in Steps \cup {NoStep}
    BY DEF GraphInv, TypeInv
  <1>4. NoStep \notin Steps
    BY GraphAssumption DEF GraphAssumption, Steps
  <1>5. \A i : Stands(i)' = Stands(i)
    BY <1>1, PastUnchanged
  <1>6. PlanInv
    BY DEF GraphInv
  <1>7. /\ plan' \in Seq(StepIds) /\ current' \in Steps
        /\ Len(plan') <= Len(shown') /\ (\A j \in 1..Len(plan') : plan'[j] = shown'[Dispatched' + j])
        /\ \A k \in 1..Dispatched' : Stands(shown[k]) \/ shown[k] = current'.id
    <2>1. CASE PendingRetry
      <3>1. UNCHANGED <<plan, current>> /\ current # NoStep
        BY <1>1, <2>1 DEF PendingRetry
      <3> QED
        BY <1>1, <1>3, <1>6, <3>1 DEF PlanInv, Dispatched, Loop
    <2>2. CASE ~PendingRetry
      <3>1. plan # <<>> /\ (current = NoStep \/ Stands(current.id))
        BY <1>1, <1>6, <2>2 DEF PlanInv
      <3>2. /\ Head(plan) = plan[1] /\ Head(plan) \in StepIds /\ Tail(plan) \in Seq(StepIds)
            /\ Len(plan) \in Nat \ {0} /\ Len(Tail(plan)) = Len(plan) - 1 /\ Len(shown) \in Nat
            /\ \A j \in 1..Len(plan) - 1 : Tail(plan)[j] = plan[j + 1]
        BY <1>3, <3>1
      <3>3. Dispatched' = Dispatched + 1 /\ Dispatched \in Nat
        <4>1. plan' = Tail(plan) /\ shown' = shown /\ Len(plan) <= Len(shown)
          BY <1>1, <1>6, <2>2 DEF PlanInv
        <4> QED
          BY <3>2, <4>1 DEF Dispatched
      <3>4. current' \in Steps /\ current'.id = plan[1]
        BY <1>1, <2>2, <3>2 DEF Steps
      <3>5. \A j \in 1..Len(plan') : plan'[j] = shown'[Dispatched' + j]
        <4> SUFFICES ASSUME NEW j \in 1..Len(plan')
                     PROVE  plan'[j] = shown'[Dispatched' + j]
          OBVIOUS
        <4>1. j + 1 \in 1..Len(plan) /\ plan'[j] = plan[j + 1]
          BY <1>1, <2>2, <3>2
        <4>2. plan[j + 1] = shown[Dispatched + (j + 1)]
          BY <1>6, <4>1 DEF PlanInv
        <4>3. Dispatched + (j + 1) = Dispatched' + j
          BY <3>3
        <4> QED
          BY <1>1, <4>1, <4>2, <4>3
      <3>6. \A k \in 1..Dispatched : Stands(shown[k])
        BY <1>1, <1>6, <3>1 DEF PlanInv, Loop
      <3>7. shown[Dispatched + 1] = plan[1]
        BY <1>6, <3>2 DEF PlanInv
      <3>8. \A k \in 1..Dispatched' : k \in 1..Dispatched \/ k = Dispatched + 1
        BY <3>3
      <3>9. Len(plan') <= Len(shown')
        BY <1>1, <1>6, <2>2, <3>2 DEF PlanInv
      <3>10. plan' \in Seq(StepIds)
        BY <1>1, <2>2, <3>2
      <3> QED
        BY <3>4, <3>5, <3>6, <3>7, <3>8, <3>9, <3>10
    <2> QED
      BY <2>1, <2>2
  <1>8. TypeInv'
    BY <1>1, <1>2, <1>7 DEF GraphInv, TypeInv, Nodes, Final
  <1>9. PlaceInv'
    BY <1>1, <1>2, <1>4, <1>7 DEF GraphInv, PlaceInv, Loop, InHand
  <1>10. LengthInv'
    BY <1>1, <1>2 DEF GraphInv, LengthInv, Longest
  <1>11. LatestInv'
    BY <1>1, PastUnchanged DEF GraphInv
  <1>12. PlanInv'
    BY <1>1, <1>4, <1>5, <1>7 DEF PlanInv
  <1>13. GroundedInv'
    BY <1>1, <1>2 DEF GroundedInv, GroundedOnPlan
  <1>14. TurnInv'
    BY <1>1, <1>2 DEF GraphInv, TurnInv, Nodes, Final
  <1> QED
    BY <1>8, <1>9, <1>10, <1>11, <1>12, <1>13, <1>14 DEF GraphInv

\* The execution of the step in hand is the latest of its id.
LEMMA ExecuteKeeps ==
    ASSUME GraphInv, ExecuteStep
    PROVE  GraphInv'
  <1>1. /\ node = "execute_step" /\ node' = "verify_step" /\ supersteps' = supersteps + 1
        /\ UNCHANGED <<graph, plan, shown, current, revision, budgetHit, failing, answer, error, shipped, asking>>
    BY DEF ExecuteStep, Runs, answerVars
  <1>2. /\ graph = "agentic" /\ answer = "none" /\ shipped = "none" /\ asking = FALSE
        /\ supersteps \in Nat /\ Len(past) \in Nat /\ revision \in {0, 1}
    BY <1>1, InTheLoop DEF Loop
  <1>3. current \in Steps /\ current # NoStep
    BY <1>1 DEF GraphInv, TypeInv, PlaceInv, InHand
  <1>4. /\ past' \in Seq(Executions) /\ Len(past') = Len(past) + 1
        /\ LatestInv'
        /\ Runs_of(current.id)' # {} /\ LastRun(current.id)' = Len(past')
        /\ \A i \in StepIds : i # current.id /\ Stands(i) => Stands(i)'
    <2>1. PICK e \in Executions : past' = Append(past, e) /\ e.id = current.id
      BY <1>3 DEF ExecuteStep, Steps, Executions
    <2>2. LatestInv /\ past \in Seq(Executions)
      BY DEF GraphInv, TypeInv
    <2>3. /\ past' \in Seq(Executions) /\ Len(past') = Len(past) + 1
          /\ LatestInv'
          /\ Runs_of(e.id)' # {} /\ LastRun(e.id)' = Len(past')
          /\ \A i \in StepIds : i # e.id /\ Stands(i) => Stands(i)'
      BY <2>1, <2>2, Appended
    <2>4. current'.id = e.id
      BY <1>1, <2>1
    <2> QED
      BY <2>1, <2>3, <2>4
  <1>5. TypeInv'
    BY <1>1, <1>2, <1>4 DEF GraphInv, TypeInv, Nodes, Final
  <1>6. PlaceInv'
    BY <1>1, <1>2, <1>3 DEF GraphInv, PlaceInv, Loop, InHand
  <1>7. LengthInv'
    <2>1. Len(past) < MaxSteps /\ MaxSteps \in Nat
      BY <1>1, <1>2, GraphAssumption DEF GraphInv, LengthInv, GraphAssumption
    <2> QED
      BY <1>1, <1>2, <1>4, <2>1 DEF GraphInv, LengthInv, Longest
  <1>8. PlanInv'
    <2>1. \A k \in 1..Dispatched : Stands(shown[k])' \/ shown[k] = current.id
      <3>1. \A k \in 1..Dispatched : shown[k] \in StepIds
        BY DEF GraphInv, TypeInv, PlanInv, Dispatched
      <3> QED
        BY <1>1, <1>4, <3>1 DEF GraphInv, PlanInv, Loop
    <2>2. Dispatched' = Dispatched
      BY <1>1 DEF Dispatched
    <2> QED
      BY <1>1, <1>3, <1>4, <2>1, <2>2 DEF GraphInv, PlanInv
  <1>9. GroundedInv'
    BY <1>1, <1>2 DEF GroundedInv, GroundedOnPlan
  <1>10. TurnInv'
    BY <1>1, <1>2 DEF GraphInv, TurnInv, Nodes, Final
  <1> QED
    BY <1>4, <1>5, <1>6, <1>7, <1>8, <1>9, <1>10 DEF GraphInv

\* The verifier grades the step in hand: good, it stands; bad, a retry is
\* pending, or the plan is revised, or the turn says that it failed.
LEMMA VerifyKeeps ==
    ASSUME GraphInv, VerifyStep
    PROVE  GraphInv'
  <1> PICK v \in {"ok", "bad"} :
        /\ past' = [past EXCEPT ![LastRun(current.id)].verdict = v]
        /\ node' = AfterVerdict(v)
        /\ current' = IF v = "bad" /\ current.retries < 1
                      THEN [current EXCEPT !.retries = @ + 1] ELSE current
    BY DEF VerifyStep
  <1>1. /\ node = "verify_step" /\ supersteps' = supersteps + 1
        /\ UNCHANGED <<graph, plan, shown, revision, budgetHit, failing, answer, error, shipped, asking>>
    BY DEF VerifyStep, Runs, answerVars
  <1>2. /\ graph = "agentic" /\ answer = "none" /\ shipped = "none" /\ asking = FALSE
        /\ supersteps \in Nat /\ Len(past) \in Nat /\ revision \in {0, 1}
    BY <1>1, InTheLoop DEF Loop
  <1>3. current \in Steps /\ current # NoStep /\ current.id \in StepIds /\ current.retries \in Nat
    BY <1>1 DEF GraphInv, TypeInv, PlaceInv, InHand, Steps
  <1>4. /\ current' \in Steps /\ current' # NoStep /\ current'.id = current.id
        /\ current'.retries = IF v = "bad" /\ current.retries < 1 THEN current.retries + 1 ELSE current.retries
    BY <1>3, GraphAssumption DEF Steps, GraphAssumption
  <1>5. /\ past' \in Seq(Executions) /\ Len(past') = Len(past)
        /\ LatestInv'
        /\ Runs_of(current.id)' # {} /\ LastVerdict(current.id)' = v
        /\ \A i \in StepIds : i # current.id /\ Stands(i) => Stands(i)'
    <2>1. PICK i \in StepIds : i = current.id
      BY <1>3
    <2>2. LatestInv /\ past \in Seq(Executions) /\ Runs_of(i) # {}
      BY <1>1, <2>1 DEF GraphInv, TypeInv, PlanInv
    <2>3. past' = [past EXCEPT ![LastRun(i)].verdict = v]
      BY <2>1
    <2>4. /\ past' \in Seq(Executions) /\ Len(past') = Len(past)
          /\ LatestInv'
          /\ Runs_of(i)' # {} /\ LastVerdict(i)' = v
          /\ \A j \in StepIds : j # i /\ Stands(j) => Stands(j)'
      BY <2>2, <2>3, Graded
    <2>5. current'.id = i
      BY <1>4, <2>1
    <2> QED
      BY <2>1, <2>4, <2>5
  <1>6. \/ v = "ok" /\ plan # <<>> /\ node' = "budget_guard_step"
        \/ v = "ok" /\ plan = <<>> /\ node' = "generate_response"
        \/ v = "bad" /\ current'.retries = 1 /\ node' = "budget_guard_step"
        \/ revision = 0 /\ node' = "budget_guard_replan"
        \/ node' = "synthesize_failure"
    BY <1>2, <1>3, <1>4 DEF AfterVerdict
  <1>7. TypeInv'
    <2>1. node' \in Nodes /\ supersteps' \in Nat /\ current' \in Steps
      BY <1>1, <1>2, <1>4, <1>6 DEF Nodes
    <2> QED
      BY <1>1, <1>5, <2>1 DEF GraphInv, TypeInv
  <1>8. PlaceInv'
    BY <1>1, <1>2, <1>4, <1>6 DEF GraphInv, PlaceInv, Loop, InHand
  <1>9. LengthInv'
    BY <1>1, <1>2, <1>5, <1>6 DEF GraphInv, LengthInv, Longest
  <1>10. PlanInv'
    <2>1. \A k \in 1..Dispatched : Stands(shown[k])' \/ shown[k] = current'.id
      <3>1. \A k \in 1..Dispatched : shown[k] \in StepIds
        BY DEF GraphInv, TypeInv, PlanInv, Dispatched
      <3> QED
        BY <1>1, <1>4, <1>5, <3>1 DEF GraphInv, PlanInv, Loop
    <2>2. Dispatched' = Dispatched
      BY <1>1 DEF Dispatched
    <2>3. v = "ok" => Stands(current.id)'
      BY <1>5 DEF Stands
    <2>4. v = "bad" /\ current'.retries = 1 => PendingRetry'
      BY <1>4, <1>5 DEF PendingRetry
    <2>5. v = "ok" => \A k \in 1..Dispatched : Stands(shown[k])'
      BY <1>1, <1>4, <2>1, <2>3
    <2>6. plan = <<>> => Dispatched = Len(shown)
      BY DEF Dispatched, GraphInv, TypeInv
    <2> QED
      BY <1>1, <1>4, <1>6, <2>1, <2>2, <2>3, <2>4, <2>5, <2>6 DEF GraphInv, PlanInv
  <1>11. GroundedInv'
    BY <1>1, <1>2 DEF GroundedInv, GroundedOnPlan
  <1>12. TurnInv'
    BY <1>1, <1>2, <1>6 DEF GraphInv, TurnInv, Nodes, Final
  <1> QED
    BY <1>5, <1>7, <1>8, <1>9, <1>10, <1>11, <1>12 DEF GraphInv

\* A revision starts a plan over with nothing in hand.
LEMMA ReplanKeeps ==
    ASSUME GraphInv, Replan
    PROVE  GraphInv'
  <1>1. /\ node = "replan" /\ supersteps' = supersteps + 1 /\ revision' = 1
        /\ UNCHANGED <<graph, past, budgetHit, failing, asking, answer, shipped>>
        /\ \/ node' = "synthesize_failure" /\ UNCHANGED <<plan, shown, current>>
           \/ /\ node' = "budget_guard_step" /\ current' = NoStep
              /\ plan' = shown' /\ plan' \in Plans
    BY DEF Replan, Runs, reflectVars
  <1>2. /\ graph = "agentic" /\ answer = "none" /\ shipped = "none" /\ asking = FALSE
        /\ supersteps \in Nat /\ Len(past) \in Nat /\ revision \in {0, 1}
    BY <1>1, InTheLoop DEF Loop
  <1>3. plan' \in Seq(StepIds) /\ shown' \in Seq(StepIds) /\ current' \in Steps \cup {NoStep}
    BY <1>1, PlansAreSequences DEF GraphInv, TypeInv
  <1>4. TypeInv'
    <2>1. node' \in Nodes /\ supersteps' \in Nat
      BY <1>1, <1>2 DEF Nodes
    <2> QED
      BY <1>1, <1>3, <2>1 DEF GraphInv, TypeInv
  <1>5. PlaceInv'
    BY <1>1, <1>2 DEF PlaceInv, Loop, InHand
  <1>6. LengthInv'
    BY <1>1, <1>2 DEF GraphInv, LengthInv, Longest
  <1>7. LatestInv'
    BY <1>1, PastUnchanged DEF GraphInv
  <1>8. PlanInv'
    <2>1. CASE node' # "budget_guard_step"
      BY <1>1, <2>1 DEF GraphInv, PlanInv, Dispatched, Loop
    <2>2. CASE node' = "budget_guard_step"
      <3>1. plan' = shown' /\ plan' \in Seq(StepIds) /\ Len(plan') \in Nat \ {0}
        BY <1>1, <2>2, PlansAreSequences
      <3>2. Dispatched' = 0 /\ plan' # <<>>
        BY <3>1 DEF Dispatched
      <3> QED
        BY <1>1, <1>2, <2>2, <3>1, <3>2 DEF PlanInv
    <2> QED
      BY <2>1, <2>2
  <1>9. GroundedInv'
    BY <1>1, <1>2 DEF GroundedInv, GroundedOnPlan
  <1>10. TurnInv'
    BY <1>1, <1>2 DEF GraphInv, TurnInv, Nodes, Final
  <1> QED
    BY <1>4, <1>5, <1>6, <1>7, <1>8, <1>9, <1>10 DEF GraphInv

-----------------------------------------------------------------------------
(* The invariant and what follows from it. *)

LEMMA GraphInitially == GraphInit => GraphInv
  <1> SUFFICES ASSUME GraphInit
               PROVE  GraphInv
    OBVIOUS
  <1>1. TypeInv
    <2>1. /\ node \in Nodes /\ supersteps \in Nat /\ revision \in {0, 1} /\ asking \in BOOLEAN
          /\ answer \in Turn!Answers \cup {"none", "empty"} /\ shipped \in Turn!Shipments
      BY DEF GraphInit, Nodes, Turn!Answers, Turn!Shipments
    <2>2. plan \in Seq(StepIds) /\ shown \in Seq(StepIds) /\ past \in Seq(Executions)
      BY DEF GraphInit
    <2> QED
      BY <2>1, <2>2 DEF GraphInit, TypeInv
  <1>2. PlaceInv /\ TurnInv
    BY DEF GraphInit, PlaceInv, TurnInv, Nodes, Loop, InHand, Final
  <1>3. LengthInv
    BY GraphAssumption DEF GraphInit, LengthInv, Longest, GraphAssumption
  <1>4. LatestInv /\ GroundedInv
    BY DEF GraphInit, LatestInv, Runs_of, GroundedInv, GroundedOnPlan
  <1>5. PlanInv
    <2>1. plan = <<>> /\ shown = <<>> /\ node = "load_history"
      BY DEF GraphInit
    <2> QED
      BY <2>1 DEF PlanInv, Dispatched, Loop
  <1> QED
    BY <1>1, <1>2, <1>3, <1>4, <1>5 DEF GraphInv

LEMMA GraphStep == GraphInv /\ [GraphNext]_gvars => GraphInv'
  <1> SUFFICES ASSUME GraphInv, [GraphNext]_gvars
               PROVE  GraphInv'
    OBVIOUS
  <1>1. CASE OutsideStep
    BY <1>1, OutsideStepKeeps
  <1>2. CASE Planner
    BY <1>2, PlannerKeeps
  <1>3. CASE BudgetGuardStep \/ BudgetGuardReplan
    BY <1>3, BudgetGuardKeeps
  <1>4. CASE AdvanceStep
    BY <1>4, AdvanceKeeps
  <1>5. CASE ExecuteStep
    BY <1>5, ExecuteKeeps
  <1>6. CASE VerifyStep
    BY <1>6, VerifyKeeps
  <1>7. CASE Replan
    BY <1>7, ReplanKeeps
  <1>8. CASE UNCHANGED gvars
    <2> USE <1>8 DEF gvars, loopVars, answerVars, reflectVars, GraphInv
    <2>1. TypeInv' /\ PlaceInv' /\ TurnInv'
      BY DEF TypeInv, PlaceInv, TurnInv
    <2>2. LengthInv' /\ LatestInv'
      <3>1. Longest(node)' = Longest(node)
        BY DEF Longest
      <3> QED
        BY <3>1 DEF LengthInv, LatestInv, Runs_of
    <2>3. PlanInv'
      <3>1. PendingRetry' = PendingRetry /\ Dispatched' = Dispatched
        BY DEF PendingRetry, Dispatched, Runs_of, LastVerdict, LastRun
      <3>2. \A i : Stands(i)' = Stands(i) /\ Runs_of(i)' = Runs_of(i) /\ LastRun(i)' = LastRun(i)
        BY DEF Stands, Runs_of, LastVerdict, LastRun
      <3> QED
        BY <3>1, <3>2 DEF PlanInv
    <2>4. GroundedInv'
      BY DEF GroundedInv, GroundedOnPlan, Runs_of, LastVerdict, LastRun
    <2> QED
      BY <2>1, <2>2, <2>3, <2>4
  <1> QED
    BY <1>1, <1>2, <1>3, <1>4, <1>5, <1>6, <1>7, <1>8 DEF GraphNext, OutsideStep

\* The turn of every graph keeps GraphInv.
THEOREM GraphInvariant == GraphSpec => []GraphInv
  BY GraphInitially, GraphStep, PTL DEF GraphSpec

\* _build_agentic_pipeline ends by its own caps: never more executions than
\* AGENT_MAX_PLAN_STEPS, and never more supersteps than LongestTurn, which
\* is the number of nodes to allow the graph runtime.
THEOREM AgenticTurnsBounded == GraphSpec => []AgenticTurnBounded
  <1>1. GraphInv => AgenticTurnBounded
    <2> SUFFICES ASSUME GraphInv, graph = "agentic"
                 PROVE  Len(past) <= MaxSteps /\ supersteps <= LongestTurn
      BY DEF AgenticTurnBounded
    <2>1. /\ supersteps \in Nat /\ Len(past) \in Nat /\ revision \in {0, 1} /\ MaxSteps \in Nat
          /\ supersteps <= Longest(node) /\ Len(past) <= MaxSteps
          /\ node \in {"budget_guard_replan", "replan"} => revision = 0
      BY GraphAssumption DEF GraphInv, TypeInv, LengthInv, GraphAssumption
    <2>2. Longest(node) \in Nat /\ Longest(node) <= 10 + 4 * Len(past)
      BY <2>1 DEF Longest
    <2> QED
      BY <2>1, <2>2 DEF LongestTurn
  <1> QED
    BY <1>1, GraphInvariant, PTL

\* _is_pending_retry: whatever order verdicts come in, an answer written from
\* the grounded prompt stands on every step of the plan the client was shown.
THEOREM AnswersGrounded == GraphSpec => []GroundedOnPlan
  <1>1. GraphInv => GroundedOnPlan
    BY DEF GraphInv, GroundedInv
  <1> QED
    BY <1>1, GraphInvariant, PTL

-----------------------------------------------------------------------------
(* The graphs implement AgentTurn. *)

Phase == IF node = "end" THEN "ended" ELSE IF node \in Final THEN "raised" ELSE "working"

\* Tokens that were sent are not recalled.
LEMMA TokensStay ==
    ASSUME GraphInv, GraphNext, shipped # "none"
    PROVE  shipped' # "none"
  <1>1. CASE OutsideStep
    BY <1>1 DEF OutsideStep, OutOfSteps, NodeRaises, GuardRaises, LoadHistory, GuardInput,
             CheckClarification, HandleClarification, FormatResponse, GuardOutput, Generate,
             GenerateFails, QueryAnalyzer, SourceRouter, TextToQuery, RetrieveContext, Reflect,
             SynthesizeFailure, Replace, answerVars
  <1>2. CASE ~OutsideStep
    BY <1>2 DEF GraphNext, OutsideStep, Planner, BudgetGuardStep, BudgetGuardReplan, BudgetGuard,
             AdvanceStep, ExecuteStep, VerifyStep, Replan, answerVars
  <1> QED
    BY <1>1, <1>2

\* Only the guardrails end a turn; what raises writes no answer.
LEMMA EndsOfTurn ==
    ASSUME GraphInv, GraphNext, node' \in Final
    PROVE  \/ node' = "raised" /\ UNCHANGED <<answer, asking, shipped>>
           \/ node' = "out_of_steps" /\ OutOfSteps /\ UNCHANGED <<answer, asking, shipped>>
           \/ node' = "end" /\ (GuardInput \/ GuardOutput)
  <1> USE DEF Final
  <1>1. CASE OutOfSteps \/ NodeRaises \/ GuardRaises
    BY <1>1 DEF OutOfSteps, NodeRaises, GuardRaises, answerVars
  <1>2. CASE LoadHistory
    BY <1>2 DEF LoadHistory, AfterHistory
  <1>3. CASE GuardInput
    BY <1>3, GraphAssumption DEF GuardInput, AfterGuard, GraphInv, TypeInv, GraphAssumption
  <1>4. CASE CheckClarification \/ HandleClarification \/ FormatResponse \/ GuardOutput
    BY <1>4 DEF CheckClarification, HandleClarification, FormatResponse, GuardOutput
  <1>5. CASE Generate \/ GenerateFails
    BY <1>5 DEF Generate, GenerateFails, AfterGenerate
  <1>6. CASE QueryAnalyzer \/ SourceRouter \/ TextToQuery \/ RetrieveContext \/ Reflect
    BY <1>6 DEF QueryAnalyzer, SourceRouter, TextToQuery, RetrieveContext, Reflect
  <1>7. CASE Planner \/ Replan \/ SynthesizeFailure
    BY <1>7 DEF Planner, Replan, SynthesizeFailure
  <1>8. CASE BudgetGuardStep \/ BudgetGuardReplan \/ AdvanceStep \/ ExecuteStep
    BY <1>8 DEF BudgetGuardStep, BudgetGuardReplan, BudgetGuard, AdvanceStep, ExecuteStep
  <1>9. CASE VerifyStep
    <2>1. current \in Steps
      BY <1>9 DEF VerifyStep, Runs, GraphInv, PlaceInv, TypeInv, InHand
    <2>2. \A v \in {"ok", "bad"} : AfterVerdict(v) \notin Final
      BY <2>1 DEF AfterVerdict, Steps, GraphInv, TypeInv
    <2> QED
      BY <1>9, <2>2 DEF VerifyStep
  <1> QED
    BY <1>1, <1>2, <1>3, <1>4, <1>5, <1>6, <1>7, <1>8, <1>9 DEF GraphNext

\* Nothing runs behind the end.
LEMMA EndIsFinal ==
    ASSUME GraphNext
    PROVE  node \notin Final
  <1> USE DEF Final, Runs
  <1>1. CASE OutsideStep
    BY <1>1 DEF OutsideStep, OutOfSteps, NodeRaises, GuardRaises, Raising, LoadHistory, GuardInput,
             CheckClarification, HandleClarification, FormatResponse, GuardOutput, Generate,
             GenerateFails, QueryAnalyzer, SourceRouter, TextToQuery, RetrieveContext, Reflect,
             SynthesizeFailure
  <1>2. CASE ~OutsideStep
    BY <1>2 DEF GraphNext, OutsideStep, Planner, BudgetGuardStep, BudgetGuardReplan, BudgetGuard,
             AdvanceStep, ExecuteStep, VerifyStep, Replan
  <1> QED
    BY <1>1, <1>2

\* Every superstep is a step of AgentTurn.
LEMMA SuperstepIsTurnStep ==
    ASSUME GraphInv, GraphInv', [GraphNext]_gvars
    PROVE  [Turn!TurnNext]_(Turn!turnVars)
  <1>1. CASE UNCHANGED gvars
    BY <1>1 DEF gvars, answerVars, Turn!turnVars
  <1>2. CASE GraphNext
    <2>1. Phase = "working"
      BY <1>2, EndIsFinal DEF Phase, Final
    <2>2. CASE node' \notin Final
      <3>1. /\ answer' \in Turn!Answers \cup {"none", "empty"} /\ asking' \in BOOLEAN
            /\ shipped' \in Turn!Shipments /\ (asking' => shipped' = "none")
        BY DEF GraphInv, TypeInv, TurnInv
      <3>2. shipped # "none" => shipped' # "none"
        BY <1>2, TokensStay
      <3>3. Phase' = "working"
        BY <2>2 DEF Phase, Final
      <3>4. Turn!TurnWork
        BY <2>1, <3>1, <3>2, <3>3 DEF Turn!TurnWork, Phase
      <3> QED
        BY <3>4 DEF Turn!TurnNext
    <2>3. CASE node' \in Final /\ node' # "end"
      <3>1. Phase' = "raised" /\ UNCHANGED <<answer, asking, shipped>>
        BY <1>2, <2>3, EndsOfTurn DEF Phase
      <3>2. Turn!TurnRaise
        BY <2>1, <3>1 DEF Turn!TurnRaise, Phase
      <3> QED
        BY <3>2 DEF Turn!TurnNext
    <2>4. CASE node' = "end"
      <3>1. Phase' = "ended" /\ (GuardInput \/ GuardOutput)
        BY <1>2, <2>4, EndsOfTurn DEF Phase, Final
      <3>2. answer' \in Turn!Answers
        BY <2>4 DEF GraphInv, TurnInv
      <3>3. asking' = asking /\ (UNCHANGED <<answer, shipped>> \/ Replace(answer'))
        BY <2>4, <3>1, GraphAssumption
        DEF GuardInput, GuardOutput, AfterGuard, Replace, answerVars, GraphInv, TypeInv, GraphAssumption
      <3>4. /\ shipped' \in {shipped, "other"} /\ (shipped = "none" => shipped' = "none")
            /\ (shipped' = "answer" => answer' = answer)
        BY <3>3 DEF Replace
      <3>5. Turn!TurnEnd
        BY <2>1, <3>1, <3>2, <3>3, <3>4 DEF Turn!TurnEnd, Phase
      <3> QED
        BY <3>5 DEF Turn!TurnNext
    <2> QED
      BY <2>2, <2>3, <2>4
  <1> QED
    BY <1>1, <1>2

\* The recursion limit of the graph runtime, which the code leaves alone,
\* never cuts an agentic turn short if it is at least LongestTurn.
THEOREM NeverCutShort ==
    ASSUME LongestTurn <= StepLimit
    PROVE  GraphSpec => [](graph = "agentic" => node # "out_of_steps")
  <1> DEFINE Uncut == graph = "agentic" => node # "out_of_steps"
  <1>1. GraphInit => Uncut
    BY DEF GraphInit
  <1>2. GraphInv /\ Uncut /\ [GraphNext]_gvars => Uncut'
    <2> SUFFICES ASSUME GraphInv, Uncut, [GraphNext]_gvars, graph' = "agentic"
                 PROVE  node' # "out_of_steps"
      OBVIOUS
    <2>1. CASE UNCHANGED gvars
      BY <2>1 DEF gvars
    <2>2. CASE OutOfSteps
      <3>1. /\ graph = "agentic" /\ node \in Nodes /\ supersteps = StepLimit
        BY <2>2 DEF OutOfSteps, GraphInv, TypeInv
      <3>2. /\ Len(past) \in Nat /\ revision \in {0, 1} /\ MaxSteps \in Nat /\ StepLimit \in Nat
            /\ supersteps <= Longest(node) /\ Len(past) <= MaxSteps /\ PlaceInv
            /\ node \in {"budget_guard_replan", "replan"} => revision = 0
        BY <3>1, GraphAssumption DEF GraphInv, TypeInv, LengthInv, GraphAssumption
      <3>3. Longest(node) \in Nat /\ Longest(node) <= 9 + 4 * Len(past)
        BY <3>1, <3>2 DEF Longest, Nodes, PlaceInv
      <3> QED
        BY <3>1, <3>2, <3>3 DEF LongestTurn
    <2>3. CASE GraphNext /\ ~OutOfSteps
      BY <2>3, EndsOfTurn DEF Final
    <2> QED
      BY <2>1, <2>2, <2>3
  <1> QED
    BY <1>1, <1>2, GraphInvariant, PTL DEF GraphSpec

\* chat_stream_service is written against AgentTurn: every superstep of every
\* graph is one of its steps or changes nothing it sees.
THEOREM TurnsKept == GraphSpec => Turn!TurnInit /\ [][Turn!TurnNext]_(Turn!turnVars)
  <1>1. GraphInit => Turn!TurnInit
    BY DEF GraphInit, Turn!TurnInit, Final
  <1>2. GraphInv /\ GraphInv' /\ [GraphNext]_gvars => [Turn!TurnNext]_(Turn!turnVars)
    BY SuperstepIsTurnStep
  <1> QED
    BY <1>1, <1>2, GraphInvariant, PTL DEF GraphSpec

\* So the whole of KeepsTurn comes down to termination: a turn that comes to
\* one of its ends kept AgentTurn, liveness included.
THEOREM EndedTurnsKept == GraphSpec /\ <>(node \in Final) => KeepsTurn
  <1>1. node \in Final => Phase # "working"
    BY DEF Phase, Final
  <1> QED
    BY <1>1, TurnsKept, PTL DEF KeepsTurn, Turn!TurnSpec, Phase
=============================================================================
