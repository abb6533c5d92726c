----------------------------- MODULE AgentGraph -----------------------------
(***************************************************************************)
(* The three LangGraph graphs of agent/pipeline.py for one question: v1,   *)
(* v2 (the one chat uses) and the plan-and-execute graph of the sandbox.   *)
(* One action is one superstep: the node and the conditional edge behind   *)
(* it.  Container always passes a guardrail service, so the graphs are the *)
(* guarded ones.                                                           *)
(*                                                                         *)
(* Abstractions: what a model says is a nondeterministic choice; a verdict *)
(* is "ok" (acceptable, partial) or "bad"; token spend is a flag that      *)
(* rises at a call and never falls; the contents of queries, chunks and    *)
(* answers are left out.  The executor never sets generated_sql, so the    *)
(* verifier's SQL gate is not reached from the graph.                      *)
(***************************************************************************)
EXTENDS Naturals, Sequences, FiniteSets

CONSTANTS
    Graphs,          \* subset of {"v1", "v2", "agentic"}
    StepIds,         \* the ids a model may give to plan steps
    NoStep,          \* current_step = None
    MaxPlan,         \* _MAX_STEPS: the planner's cap
    MaxSteps,        \* AGENT_MAX_PLAN_STEPS
    MaxRetries,      \* AGENT_MAX_STEP_RETRIES
    MaxRevisions,    \* AGENT_MAX_PLAN_REVISIONS
    Clarifier,       \* PIPELINE_CLARIFY_ENABLED
    Reflector,       \* PIPELINE_REFLECTOR_ENABLED
    MaxReflections,  \* PIPELINE_REFLECTOR_MAX_RETRIES
    StepLimit        \* LangGraph's recursion limit, which the code leaves alone

ASSUME GraphAssumption ==
    /\ Graphs \subseteq {"v1", "v2", "agentic"}
    /\ NoStep \notin [id : StepIds, retries : Nat]
    /\ MaxPlan \in Nat /\ MaxSteps \in Nat /\ MaxRetries \in Nat
    /\ MaxRevisions \in Nat /\ MaxReflections \in Nat /\ StepLimit \in Nat
    /\ Clarifier \in BOOLEAN /\ Reflector \in BOOLEAN

VARIABLES
    graph,        \* the graph build_pipeline compiled
    node,         \* the node that runs next
    supersteps,   \* nodes run so far
    plan,         \* ids of the steps not yet dispatched
    shown,        \* ids of the last plan sent to the client
    current,      \* current_step
    past,         \* past_steps: id and verdict of every execution
    revision,     \* plan_revision
    over,         \* the token ceiling is exceeded
    budgetHit,    \* budget_hit
    failing,      \* _synthesize_failure
    asking,       \* requires_clarification
    answer,       \* final_answer
    error,        \* error
    shipped,      \* tokens streamed: "none", those of the answer, or others
    feedback,     \* reflector_feedback is set
    reflections,  \* reflector_retries
    analyses      \* times query_analyzer ran

loopVars == <<plan, shown, current, past, revision, budgetHit, failing>>
answerVars == <<answer, error, shipped>>
reflectVars == <<feedback, reflections, analyses>>
gvars == <<graph, node, supersteps, loopVars, over, asking, answerVars, reflectVars>>

Final == {"end", "raised", "out_of_steps"}
Nodes == {"load_history", "guardrail_input", "check_clarification",
          "handle_clarification", "query_analyzer", "source_router",
          "text_to_query", "retrieve_context", "reflector", "planner",
          "budget_guard_step", "advance_step", "execute_step", "verify_step",
          "budget_guard_replan", "replan", "synthesize_failure",
          "generate_response", "format_response", "guardrail_output"}

GraphInit ==
    /\ graph \in Graphs
    /\ node = "load_history" /\ supersteps = 0
    /\ plan = <<>> /\ shown = <<>> /\ current = NoStep /\ past = <<>>
    /\ revision = 0 /\ over = FALSE /\ budgetHit = FALSE /\ failing = FALSE
    /\ asking = FALSE
    /\ answer = "none" /\ error = "none" /\ shipped = "none"
    /\ feedback = FALSE /\ reflections = 0 /\ analyses = 0

-----------------------------------------------------------------------------
(* Supersteps. *)

\* Node n runs, unless the recursion limit is reached.
Runs(n) ==
    /\ node = n /\ supersteps < StepLimit
    /\ supersteps' = supersteps + 1
    /\ UNCHANGED graph

\* An LLM call adds its tokens to the spend of the turn.
Spends == over' \in {over, TRUE}

\* final_answer := a.  What was streamed before is another text now.
Replace(a) ==
    /\ answer' = a
    /\ shipped' = IF shipped = "none" THEN "none" ELSE "other"

\* The recursion limit of the graph runtime.
OutOfSteps ==
    /\ node \notin Final /\ supersteps = StepLimit
    /\ node' = "out_of_steps"
    /\ UNCHANGED <<graph, supersteps, loopVars, over, asking, answerVars, reflectVars>>

\* Nodes that let an exception out: a database error, or a resolver or model
\* error that the node does not catch.
Raising == {"load_history", "retrieve_context", "text_to_query",
            "verify_step", "generate_response"}

NodeRaises ==
    /\ node \in Raising /\ supersteps < StepLimit
    /\ node' = "raised"
    /\ UNCHANGED <<graph, supersteps, loopVars, over, asking, answerVars, reflectVars>>

\* A guardrail cannot read the policies, ask its model, or write the audit
\* row of what it decided: the decision is gone with the turn.
GuardRaises ==
    /\ node \in {"guardrail_input", "guardrail_output"} /\ supersteps < StepLimit
    /\ node = "guardrail_output" => answer # "empty"
    /\ node' = "raised"
    /\ UNCHANGED <<graph, supersteps, loopVars, over, asking, answerVars, reflectVars>>

-----------------------------------------------------------------------------
(* The frame all graphs share. *)

AfterHistory == IF graph = "v1" THEN "check_clarification" ELSE "guardrail_input"

LoadHistory ==
    /\ Runs("load_history")
    /\ node' = AfterHistory
    /\ UNCHANGED <<loopVars, over, asking, answerVars, reflectVars>>

\* The node behind a query the input guardrail lets through.
AfterGuard ==
    CASE graph = "v1" -> "retrieve_context"
      [] graph = "v2" -> IF Clarifier THEN "check_clarification" ELSE "query_analyzer"
      [] graph = "agentic" -> "planner"

\* _evaluate: one policy the text breaks is enough.
Decisions(broken) == IF broken = {} THEN "allowed" ELSE "blocked"
\* Which policies a text breaks is the model's to say.
Broken == {{}, {"a policy"}}

GuardInput ==
    /\ Runs("guardrail_input")
    /\ \E broken \in Broken :
         \/ Decisions(broken) = "allowed" /\ node' = AfterGuard /\ UNCHANGED answerVars
         \/ Decisions(broken) = "blocked" /\ node' = "end"
            /\ error' = "blocked_input" /\ Replace("blocked")
    /\ UNCHANGED <<loopVars, over, asking, reflectVars>>

CheckClarification ==
    /\ Runs("check_clarification")
    /\ \/ node' = "handle_clarification" /\ asking' = TRUE
       \/ /\ asking' = FALSE
          /\ node' = IF graph = "v1" THEN "guardrail_input" ELSE "query_analyzer"
    /\ Spends
    /\ UNCHANGED <<loopVars, answerVars, reflectVars>>

\* The question becomes the final answer.
HandleClarification ==
    /\ Runs("handle_clarification")
    /\ node' = "guardrail_output"
    /\ Replace("question")
    /\ UNCHANGED <<loopVars, over, asking, error, reflectVars>>

FormatResponse ==
    /\ Runs("format_response")
    /\ node' = "guardrail_output"
    /\ UNCHANGED <<loopVars, over, asking, answerVars, reflectVars>>

\* Mutant of GuardOutput: an empty answer is let through.
GuardOutputPlain ==
    /\ Runs("guardrail_output")
    /\ node' = "end"
    /\ \/ UNCHANGED answerVars
       \/ answer # "empty" /\ Replace("blocked") /\ error' = "blocked_output"
    /\ UNCHANGED <<loopVars, over, asking, reflectVars>>

\* An empty answer is replaced; another is passed, or blocked and replaced.
GuardOutput ==
    /\ Runs("guardrail_output")
    /\ node' = "end"
    /\ \/ answer = "empty" /\ Replace("fallback") /\ UNCHANGED error
       \/ answer # "empty" /\ \E broken \in Broken :
            \/ Decisions(broken) = "allowed" /\ UNCHANGED answerVars
            \/ Decisions(broken) = "blocked" /\ Replace("blocked") /\ error' = "blocked_output"
    /\ UNCHANGED <<loopVars, over, asking, reflectVars>>

-----------------------------------------------------------------------------
(* The synthesizer. *)

AfterGenerate == IF graph = "v2" /\ Reflector THEN "reflector" ELSE "format_response"

\* The call returns: a text, all of it streamed, or nothing.
Generate ==
    /\ Runs("generate_response")
    /\ node' = AfterGenerate
    /\ \/ answer' = "text" /\ shipped' = IF shipped = "none" THEN "answer" ELSE "other"
       \/ Replace("empty")
    /\ Spends
    /\ UNCHANGED <<loopVars, asking, error, reflectVars>>

\* The call fails for good: after three attempts that streamed nothing, or
\* after the first token, when a retry would repeat what was sent.
GenerateFails ==
    /\ Runs("generate_response")
    /\ node' = AfterGenerate
    /\ answer' = "fallback" /\ error' = "generation"
    /\ shipped' \in {IF shipped = "none" THEN "none" ELSE "other", "other"}
    /\ UNCHANGED <<loopVars, over, asking, reflectVars>>

-----------------------------------------------------------------------------
(* The nodes of v2. *)

QueryAnalyzer ==
    /\ Runs("query_analyzer")
    /\ node' = "source_router"
    /\ analyses' = analyses + 1
    /\ Spends
    /\ UNCHANGED <<loopVars, asking, answerVars, feedback, reflections>>

\* Some selected source is a database the model wants queried, or none.
SourceRouter ==
    /\ Runs("source_router")
    /\ node' \in {"text_to_query", "retrieve_context"}
    /\ Spends
    /\ UNCHANGED <<loopVars, asking, answerVars, reflectVars>>

TextToQuery ==
    /\ Runs("text_to_query")
    /\ node' = "retrieve_context"
    /\ Spends
    /\ UNCHANGED <<loopVars, asking, answerVars, reflectVars>>

\* Retrieval that fails leaves its mark in error, and the turn goes on.
RetrieveContext ==
    /\ Runs("retrieve_context")
    /\ node' = "generate_response"
    /\ error' \in {error, "retrieval"}
    /\ UNCHANGED <<loopVars, over, asking, answer, shipped, reflectVars>>

\* Asks for another pass while retries are left.  An empty answer returns
\* before anything is written, and the router then reads the old feedback.
Reflect ==
    /\ Runs("reflector")
    /\ \/ answer = "empty" /\ UNCHANGED <<feedback, reflections>>
       \/ answer # "empty" /\ feedback' = FALSE /\ UNCHANGED reflections
       \/ /\ answer # "empty" /\ reflections < MaxReflections
          /\ feedback' = TRUE /\ reflections' = reflections + 1
    /\ node' = IF feedback' THEN "query_analyzer" ELSE "format_response"
    /\ Spends
    /\ UNCHANGED <<loopVars, asking, answerVars, analyses>>

-----------------------------------------------------------------------------
(* The plan-and-execute loop. *)

\* _build_plan_steps keeps at most MaxPlan steps; ids are the model's own.
Plans == UNION {[1..n -> StepIds] : n \in 1..MaxPlan}

\* A question back, an unusable plan, or a plan.
Planner ==
    /\ Runs("planner")
    /\ \/ node' = "handle_clarification" /\ asking' = TRUE
          /\ UNCHANGED <<plan, shown, error>>
       \/ node' = "synthesize_failure" /\ error' = "planning"
          /\ UNCHANGED <<plan, shown, asking>>
       \/ /\ node' = "budget_guard_step"
          /\ \E p \in Plans : plan' = p /\ shown' = p
          /\ UNCHANGED <<asking, error>>
    /\ Spends
    /\ UNCHANGED <<current, past, revision, budgetHit, failing, answer, shipped,
                   reflectVars>>

\* budget_guard: the caps it can check without the clock.
Retries == IF current = NoStep THEN 0 ELSE current.retries

\* Mutant of OverCaps: the step cap is compared with > instead of >=.
OverCapsByOne ==
    Len(past) > MaxSteps \/ Retries > MaxRetries \/ revision > MaxRevisions \/ over

OverCaps ==
    Len(past) >= MaxSteps \/ Retries > MaxRetries \/ revision > MaxRevisions \/ over

\* The edge check before a dispatch and before a revision.  The deadline may
\* pass at any time.
BudgetGuard(n, next) ==
    /\ Runs(n)
    /\ \/ budgetHit' = TRUE /\ node' = "synthesize_failure"
       \/ ~OverCaps /\ budgetHit' = FALSE /\ node' = next
    /\ UNCHANGED <<plan, shown, current, past, revision, failing, over, asking,
                   answerVars, reflectVars>>

BudgetGuardStep == BudgetGuard("budget_guard_step", "advance_step")
BudgetGuardReplan == BudgetGuard("budget_guard_replan", "replan")

\* The executions recorded under an id, and the verdict of the latest.
Runs_of(i) == {k \in 1..Len(past) : past[k].id = i}
LastRun(i) == CHOOSE k \in Runs_of(i) : \A m \in Runs_of(i) : m <= k
LastVerdict(i) == past[LastRun(i)].verdict

\* _is_pending_retry: the verifier's retry of the current step has not run.
PendingRetry ==
    /\ current # NoStep /\ current.retries > 0
    /\ Runs_of(current.id) # {} => LastVerdict(current.id) # "ok"

\* Mutant of AdvanceStep: the pending retry is not recognised.
AdvanceStepDrops ==
    /\ Runs("advance_step")
    /\ node' = "execute_step"
    /\ \/ plan = <<>> /\ UNCHANGED <<plan, current>>
       \/ plan # <<>> /\ current' = [id |-> Head(plan), retries |-> 0]
          /\ plan' = Tail(plan)
    /\ UNCHANGED <<shown, past, revision, budgetHit, failing, over, asking,
                   answerVars, reflectVars>>

\* Keeps a pending retry, else promotes the first step of the plan.
AdvanceStep ==
    /\ Runs("advance_step")
    /\ node' = "execute_step"
    /\ \/ PendingRetry /\ UNCHANGED <<plan, current>>
       \/ ~PendingRetry /\ current' = [id |-> Head(plan), retries |-> 0]
          /\ plan' = Tail(plan)
    /\ UNCHANGED <<shown, past, revision, budgetHit, failing, over, asking,
                   answerVars, reflectVars>>

\* Appends a result: "ok" stands in until the verifier writes, "bad" when
\* the step failed.
ExecuteStep ==
    /\ Runs("execute_step")
    /\ node' = "verify_step"
    /\ \E v \in {"ok", "bad"} : past' = Append(past, [id |-> current.id, verdict |-> v])
    /\ UNCHANGED <<plan, shown, current, revision, budgetHit, failing, over, asking,
                   answerVars, reflectVars>>

\* The R4b route, computed before the retry count moves: the next step, the
\* synthesis, a retry, a revision, or the honest failure.
AfterVerdict(v) ==
    CASE v = "ok" /\ plan # <<>> -> "budget_guard_step"
      [] v = "ok" /\ plan = <<>> -> "generate_response"
      [] v = "bad" /\ current.retries < 1 -> "budget_guard_step"
      [] v = "bad" /\ current.retries >= 1 /\ revision < 1 -> "budget_guard_replan"
      [] v = "bad" /\ current.retries >= 1 /\ revision >= 1 -> "synthesize_failure"

\* Grades the latest result of the current step and issues at most one retry.
VerifyStep ==
    /\ Runs("verify_step")
    /\ \E v \in {"ok", "bad"} :
          /\ past' = [past EXCEPT ![LastRun(current.id)].verdict = v]
          /\ node' = AfterVerdict(v)
          /\ current' = IF v = "bad" /\ current.retries < 1
                        THEN [current EXCEPT !.retries = @ + 1] ELSE current
    /\ Spends
    /\ UNCHANGED <<plan, shown, revision, budgetHit, failing, asking, answerVars,
                   reflectVars>>

\* The one revision: a new plan and no current step, or an error.
Replan ==
    /\ Runs("replan")
    /\ revision' = 1
    /\ \/ node' = "synthesize_failure" /\ error' = "planning"
          /\ UNCHANGED <<plan, shown, current>>
       \/ /\ node' = "budget_guard_step"
          /\ \E p \in Plans : plan' = p /\ shown' = p
          /\ current' = NoStep
          /\ UNCHANGED error
    /\ Spends
    /\ UNCHANGED <<past, budgetHit, failing, asking, answer, shipped, reflectVars>>

SynthesizeFailure ==
    /\ Runs("synthesize_failure")
    /\ node' = "generate_response"
    /\ failing' = TRUE
    /\ UNCHANGED <<plan, shown, current, past, revision, budgetHit, over, asking,
                   answerVars, reflectVars>>

-----------------------------------------------------------------------------
GraphNext ==
    \/ OutOfSteps \/ NodeRaises \/ GuardRaises
    \/ LoadHistory \/ GuardInput \/ CheckClarification \/ HandleClarification
    \/ FormatResponse \/ GuardOutput \/ Generate \/ GenerateFails
    \/ QueryAnalyzer \/ SourceRouter \/ TextToQuery \/ RetrieveContext \/ Reflect
    \/ Planner \/ BudgetGuardStep \/ BudgetGuardReplan \/ AdvanceStep
    \/ ExecuteStep \/ VerifyStep \/ Replan \/ SynthesizeFailure

GraphSpec == GraphInit /\ [][GraphNext]_gvars

\* Every call a node makes has a timeout, so a turn goes on by itself.
GraphFairSpec == GraphSpec /\ WF_gvars(GraphNext)

-----------------------------------------------------------------------------
(* Properties. *)

\* The agentic graph ends by its own caps, which budget_guard checks at the
\* edges of the loop only: never more executions than the step cap, whatever
\* the retries and the revision add, and the longest turn of
\* _build_agentic_pipeline is the frame, four nodes per execution, one
\* revision and the wrap-up.
LongestTurn == 10 + 4 * MaxSteps
AgenticTurnBounded ==
    graph = "agentic" => Len(past) <= MaxSteps /\ supersteps <= LongestTurn

\* The dispatcher infers a pending retry from the last verdict
\* (_is_pending_retry).  Whatever order verdicts come in, an answer written
\* from the grounded prompt stands on the whole plan the client was shown:
\* no step dropped, and the last verdict of each one good.
GroundedOnPlan ==
    (/\ graph = "agentic" /\ answer = "text" /\ error # "planning"
     /\ ~failing /\ ~budgetHit)
        => \A k \in 1..Len(shown) : /\ Runs_of(shown[k]) # {}
                                    /\ LastVerdict(shown[k]) = "ok"

\* chat_stream_service is written against AgentTurn.
Turn == INSTANCE AgentTurn WITH
    phase <- IF node = "end" THEN "ended"
             ELSE IF node \in Final THEN "raised" ELSE "working"

\* Every step of a graph is a step of AgentTurn, and every turn is over in
\* the end: with a non-empty answer, or with an exception.
KeepsTurn == Turn!TurnSpec

\* reflector.py: the retry budget PIPELINE_REFLECTOR_MAX_RETRIES permits the
\* passes after the first.  (The code violates it: with an empty answer the
\* node returns before it clears its own feedback.)
ReflectionsCapped == analyses <= 1 + MaxReflections
=============================================================================
