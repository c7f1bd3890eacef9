---------------------------- MODULE AgentRuntime ----------------------------
(***************************************************************************)
(* The plan-and-execute loop of agent/runtime.py: a planner decides, a     *)
(* tool runs, five budgets and the clock end the run, and every way out    *)
(* leaves a trace.  One iteration of the loop is Decide, then SelectAction *)
(* and Execute, or one of the ways out.                                    *)
(***************************************************************************)
EXTENDS AgentReplay

(* The policies a comparison may be run under; those of the retrieval tasks *)
(* are fixed in agent/retrieval_runtime.py.                                 *)
CONSTANT ComparisonPolicies

RuntimePolicy ==
    [maxSteps : Nat \ {0}, maxToolCalls : Nat \ {0}, maxRunCreations : Nat \ {0},
     maxFailures : Nat \ {0}, maxSameAction : Nat \ {0},
     denied : SUBSET {a.tool : a \in Actions}]  \* tools whose capability is missing

RunFailures ==
    UnrecordedFailures \cup
    {"elapsed_budget_exhausted", "step_budget_exhausted", "planner_failed",
     "planner_invalid_audit", "planner_invalid_output", "policy_violation",
     "failure_budget_exhausted"}

TerminalResult ==
    [state : {"completed", "failed"}, outcome : Outcomes,
     reason : Reasons \cup RunFailures, refs : SUBSET References,
     report : Seq(Observation), steps : Nat, toolCalls : Nat]

ASSUME PolicyAssumption ==
    /\ ComparisonPolicies \subseteq RuntimePolicy
    /\ None \notin Actions \cup Finishes \cup Observation \cup AllValues
    /\ None \notin TerminalResult \cup ToolErrors \cup RunFailures

(* Deviation: one run less, which forgets the retry of a failed tool.       *)
PoliciesWithoutRetry(task) ==
    IF task = "compare" THEN ComparisonPolicies
    ELSE {[maxSteps |-> 8, maxToolCalls |-> 6, maxRunCreations |-> 4,
           maxFailures |-> 3, maxSameAction |-> 2, denied |-> {}]}

Policies(task) ==
    CASE task = "compare"  -> ComparisonPolicies
      [] task = "fixed"    -> {[maxSteps |-> 8, maxToolCalls |-> 6,
                                maxRunCreations |-> 5, maxFailures |-> 3,
                                maxSameAction |-> 2, denied |-> {}]}
      [] task = "adaptive" -> {[maxSteps |-> 6, maxToolCalls |-> 4,
                                maxRunCreations |-> 4, maxFailures |-> 1,
                                maxSameAction |-> 1, denied |-> {}]}

VARIABLES
    task, policy,  \* arguments of the run
    state,         \* AgentState
    observations, events,
    steps, toolCalls, runCreations, failures,
    attempts,      \* how often each action was selected
    decision,      \* the decision at hand, None at the head of the loop
    result,        \* TerminalResult, None while the run lasts
    trace          \* the stored trace, None before it is stored

config   == <<task, policy>>
counters == <<steps, toolCalls, runCreations, failures, attempts>>
vars     == <<config, state, observations, events, counters, decision,
              result, trace>>

TypeOK ==
    /\ task \in Tasks /\ policy \in Policies(task)
    /\ state \in AgentStates
    /\ observations \in Seq(Observation)
    /\ events \in Seq(TraceEvent)
    /\ steps \in 0 .. policy.maxSteps
    /\ toolCalls \in 0 .. steps
    /\ runCreations \in 0 .. toolCalls
    /\ failures \in 0 .. toolCalls
    /\ attempts \in [Actions -> Nat]
    /\ decision \in Actions \cup Finishes \cup {None}
    /\ result \in TerminalResult \cup {None}
    /\ result # None <=> state \in {"completed", "failed"}

Init ==
    /\ task \in Tasks /\ policy \in Policies(task)
    /\ state = "planning"
    /\ observations = <<>> /\ events = <<>>
    /\ steps = 0 /\ toolCalls = 0 /\ runCreations = 0 /\ failures = 0
    /\ attempts = [a \in Actions |-> 0]
    /\ decision = None /\ result = None /\ trace = None
-----------------------------------------------------------------------------
Running   == result = None
AtHead    == Running /\ decision = None
MayPlan   == AtHead /\ steps < policy.maxSteps

(* _fail, with the events and observations it finds.                        *)
FailRun(before, recorded, seen, reason) ==
    /\ state' = "failed"
    /\ events' = Append(recorded, Event(before, "run_failed", "failed", None, None))
    /\ observations' = seen
    /\ result' = [state |-> "failed", outcome |-> "inconclusive",
                  reason |-> reason, refs |-> Evidence(seen), report |-> seen,
                  steps |-> steps, toolCalls |-> toolCalls']
    /\ decision' = None

FailHere(reason) ==
    /\ UNCHANGED <<config, counters, trace>>
    /\ FailRun(state, events, observations, reason)

TimeRunsOut == MayPlan /\ FailHere("elapsed_budget_exhausted")

(* The planner raises, or returns what is no decision or has no valid audit. *)
PlannerFails ==
    /\ MayPlan
    /\ \E reason \in {"planner_failed", "planner_invalid_audit",
                      "planner_invalid_output"} : FailHere(reason)

(* Deviation: the loop does not count.                                      *)
DecideForever ==
    /\ AtHead
    /\ \E d \in Decisions(task, observations) : decision' = d
    /\ steps' = steps + 1
    /\ UNCHANGED <<config, state, observations, events, toolCalls, runCreations,
                   failures, attempts, result, trace>>

Decide ==
    /\ MayPlan
    /\ \E d \in Decisions(task, observations) : decision' = d
    /\ steps' = steps + 1
    /\ UNCHANGED <<config, state, observations, events, toolCalls, runCreations,
                   failures, attempts, result, trace>>

ExhaustSteps == AtHead /\ ~ MayPlan /\ FailHere("step_budget_exhausted")
-----------------------------------------------------------------------------
(* A finish decision.                                                      *)

Finishing == Running /\ decision \in Finishes

Complete ==
    /\ Finishing /\ Grounded(task, decision, observations)
    /\ state' = "completed"
    /\ events' = Append(events, Event(state, "run_completed", "completed",
                                      decision, None))
    /\ result' = [state |-> "completed", outcome |-> decision.outcome,
                  reason |-> decision.reason, refs |-> decision.refs,
                  report |-> observations, steps |-> steps,
                  toolCalls |-> toolCalls]
    /\ decision' = None
    /\ UNCHANGED <<config, counters, observations, trace>>

RejectFinish ==
    /\ Finishing /\ ~ Grounded(task, decision, observations)
    /\ FailHere("ungrounded_finish_rejected")
-----------------------------------------------------------------------------
(* A tool action.                                                          *)

(* Deviation: runs are not counted.                                         *)
RejectionWithoutRuns(action) ==
    IF toolCalls >= policy.maxToolCalls THEN "tool_call_budget_exhausted"
    ELSE IF attempts[action] >= policy.maxSameAction THEN "repeated_action_rejected"
    ELSE None

Rejection(action) ==
    IF toolCalls >= policy.maxToolCalls THEN "tool_call_budget_exhausted"
    ELSE IF CreatesRun(action) /\ runCreations >= policy.maxRunCreations
         THEN "run_creation_budget_exhausted"
    ELSE IF attempts[action] >= policy.maxSameAction THEN "repeated_action_rejected"
    ELSE None

Acting == Running /\ state # "acting" /\ decision \in Actions

(* Counters that the code advances before it rejects end with the run.      *)
RejectAction ==
    /\ Acting /\ Rejection(decision) # None
    /\ FailHere(Rejection(decision))

SelectAction ==
    /\ Acting /\ Rejection(decision) = None
    /\ state' = "acting"
    /\ events' = Append(events, Event(state, "action_selected", "acting",
                                      decision, None))
    /\ toolCalls' = toolCalls + 1
    /\ runCreations' = runCreations + IF CreatesRun(decision) THEN 1 ELSE 0
    /\ attempts' = [attempts EXCEPT ![decision] = @ + 1]
    /\ UNCHANGED <<config, observations, steps, failures, decision, result, trace>>

(* _execute_tool: scope, registry and capability come before the tool.      *)
Refusal(action) ==
    IF PolicyError(task, action, observations) # None
    THEN PolicyError(task, action, observations)
    ELSE IF action.tool \in policy.denied THEN "capability_not_allowed"
    ELSE None

Failure(action, error, retryable) ==
    [action |-> action, status |-> "failed", retryable |-> retryable,
     error |-> error, value |-> None]

ToolOutcomes(action) ==
    {[action |-> action, status |-> "succeeded", retryable |-> FALSE,
      error |-> None, value |-> v] : v \in Values(action)}
    \cup {Failure(action, "tool", retryable) : retryable \in BOOLEAN}

(* The observation is recorded and processed; a violation or the last       *)
(* permitted failure ends the run.                                          *)
Observe(o, violation) ==
    LET seen     == Append(observations, o)
        recorded == events \o <<Event("acting", "tool_observed", "observing", None, o),
                                Event("observing", "observation_processed",
                                      "deciding", None, None)>>
    IN /\ failures' = failures + IF o.status = "failed" THEN 1 ELSE 0
       /\ UNCHANGED <<config, steps, toolCalls, runCreations, attempts, trace>>
       /\ IF violation THEN FailRun("deciding", recorded, seen, "policy_violation")
          ELSE IF failures' >= policy.maxFailures
          THEN FailRun("deciding", recorded, seen, "failure_budget_exhausted")
          ELSE /\ state' = "deciding" /\ decision' = None
               /\ events' = recorded /\ observations' = seen
               /\ UNCHANGED result

Execute ==
    /\ Running /\ state = "acting"
    /\ IF Refusal(decision) # None
       THEN Observe(Failure(decision, Refusal(decision), FALSE), TRUE)
       ELSE \E o \in ToolOutcomes(decision) : Observe(o, FALSE)
-----------------------------------------------------------------------------
(* TraceStore.store.  When the disk or the size limit makes it raise, the   *)
(* run ends without this step.                                              *)
StoreTrace ==
    /\ ~ Running /\ trace = None
    /\ trace' = [task |-> task, policy |-> policy, events |-> events,
                 result |-> result]
    /\ UNCHANGED <<config, state, observations, events, counters, decision, result>>

Next ==
    \/ TimeRunsOut \/ PlannerFails \/ Decide \/ ExhaustSteps
    \/ Complete \/ RejectFinish
    \/ RejectAction \/ SelectAction \/ Execute
    \/ StoreTrace

Spec == Init /\ [][Next]_vars
-----------------------------------------------------------------------------
(* What must hold.                                                         *)

(* "stores an offline-replayable Trace": the replay, which counts and       *)
(* judges on its own, accepts every trace that a run leaves, whichever way  *)
(* out it took.                                                             *)
EveryTraceReplays == trace # None => Replays(trace)

(* The budgets fit.  No trace shows more than the policy allows: not more   *)
(* tools, not more runs, no action too often, and nothing but the end of    *)
(* the run behind a refused action or the last permitted failure.  And the  *)
(* budgets of a retrieval run suffice its planner to the step: the longest  *)
(* path of its policy, with its retry, ends in a decision of the planner.   *)
Chosen(action)  == {i \in DOMAIN events : events[i].decision = action}
FailedAt        == {i \in DOMAIN events :
                      /\ events[i].type = "tool_observed"
                      /\ events[i].observation.status = "failed"}
WithinPolicy ==
    /\ Cardinality(ActionsOf(events)) <= policy.maxToolCalls
    /\ Cardinality({i \in ActionsOf(events) : CreatesRun(events[i].decision)})
         <= policy.maxRunCreations
    /\ \A a \in Actions : Cardinality(Chosen(a)) <= policy.maxSameAction
    /\ Cardinality(FailedAt) <= policy.maxFailures
    /\ Cardinality(FailedAt) = policy.maxFailures => state = "failed"

BudgetsSuffice ==
    task # "compare" /\ result # None =>
        /\ result.reason \notin
             UnrecordedFailures \cup {"step_budget_exhausted", "policy_violation"}
        /\ task = "fixed" => result.reason # "failure_budget_exhausted"

BudgetsFit == WithinPolicy /\ BudgetsSuffice
=============================================================================
