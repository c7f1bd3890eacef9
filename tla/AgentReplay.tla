----------------------------- MODULE AgentReplay -----------------------------
(***************************************************************************)
(* Traces of the agent runtime (agent/trace.py) and the offline validation *)
(* of agent/replay.py, which rebuilds from the events alone what the       *)
(* runtime counted and observed, and refuses a trace that does not fit.    *)
(* Hashes are left out: nothing changes a trace that was stored.           *)
(***************************************************************************)
EXTENDS AgentPolicy

AgentStates == {"planning", "acting", "observing", "deciding",
                "completed", "failed"}
EventTypes  == {"action_selected", "tool_observed", "observation_processed",
                "run_completed", "run_failed"}

TraceEvent ==
    [before : AgentStates, type : EventTypes, after : AgentStates,
     decision : Actions \cup Finishes \cup {None},
     observation : Observation \cup {None}]

Event(before, type, after, decided, observed) ==
    [before |-> before, type |-> type, after |-> after,
     decision |-> decided, observation |-> observed]

AllowedTransitions ==
    {<<"planning", "action_selected", "acting">>,
     <<"deciding", "action_selected", "acting">>,
     <<"acting", "tool_observed", "observing">>,
     <<"observing", "observation_processed", "deciding">>}
    \cup {<<s, "run_completed", "completed">> : s \in {"planning", "deciding"}}
    \cup {<<s, "run_failed", "failed">> :
            s \in {"planning", "acting", "observing", "deciding"}}

Terminal(event) == event.type \in {"run_completed", "run_failed"}

(* What the first i events say was observed, for every i, and what had been *)
(* observed before the i-th event.                                          *)
Observed(events) ==
    LET seen[i \in 0 .. Len(events)] ==
          IF i = 0 THEN <<>>
          ELSE IF events[i].type = "tool_observed"
               THEN Append(seen[i - 1], events[i].observation)
               ELSE seen[i - 1]
    IN seen
SeenBefore(events, i) == Observed(events)[i - 1]

ActionsOf(events) == {i \in DOMAIN events : events[i].type = "action_selected"}

(* The error the runtime must have reported for an action, if any.          *)
PolicyError(task, action, seen) ==
    IF ~ InScope(task, action, seen) THEN "outside_scope"
    ELSE IF action.tool \notin ToolNames(task) THEN "tool_not_allowed"
    ELSE None

(* Deviation: the rejected repetition was forgotten.                        *)
UnrecordedFailuresShort == {"run_creation_budget_exhausted",
                            "tool_call_budget_exhausted",
                            "ungrounded_finish_rejected"}

(* Failures whose last decision is counted as a step and not recorded.      *)
UnrecordedFailures == {"repeated_action_rejected", "run_creation_budget_exhausted",
                       "tool_call_budget_exhausted", "ungrounded_finish_rejected"}
-----------------------------------------------------------------------------
(* An event follows the ones before it: states, transitions, an observation *)
(* for every action, and policy errors that were enforced.                  *)
EventReplays(task, events, i) ==
    LET e == events[i] IN
    /\ e.before = IF i = 1 THEN "planning" ELSE events[i - 1].after
    /\ <<e.before, e.type, e.after>> \in AllowedTransitions
    /\ Terminal(e) => e.before # "acting"
    /\ e.type = "action_selected" =>
         /\ e.decision \in Actions
         /\ task = "adaptive" => e.decision \in Options(SeenBefore(events, i))
    /\ e.type = "tool_observed" =>
         LET action   == events[i - 1].decision
             enforced == PolicyError(task, action, SeenBefore(events, i))
         IN /\ e.observation.action.tool = action.tool
            /\ enforced # None => /\ e.observation.status = "failed"
                                  /\ e.observation.error = enforced

(* Exactly the last event is a final one.                                   *)
EventsReplay(task, events) ==
    \A i \in DOMAIN events :
        EventReplays(task, events, i) /\ (Terminal(events[i]) <=> i = Len(events))

(* The terminal result follows from the events.                             *)
ResultReplays(task, events, result) ==
    LET final == Last(events)
        seen  == SeenBefore(events, Len(events))
    IN /\ final.after = result.state
       /\ final.type = "run_completed" =>
            /\ final.decision \in Finishes
            /\ final.decision.outcome = result.outcome
            /\ final.decision.reason = result.reason
            /\ final.decision.refs = result.refs
            /\ Grounded(task, final.decision, seen)
       /\ final.type = "run_failed" => /\ final.decision = None
                                       /\ result.outcome = "inconclusive"
       /\ result.refs \subseteq Evidence(seen)
       /\ result.report = seen

(* The counts of the result are those of the events, within the policy.     *)
CountsReplay(policy, events, result) ==
    LET actions == ActionsOf(events)
        unrecorded == \/ Last(events).type = "run_completed"
                      \/ result.reason \in UnrecordedFailures
    IN /\ result.toolCalls = Cardinality(actions)
       /\ result.steps = Cardinality(actions) + IF unrecorded THEN 1 ELSE 0
       /\ result.steps <= policy.maxSteps
       /\ result.toolCalls <= policy.maxToolCalls
       /\ Cardinality({i \in actions : CreatesRun(events[i].decision)})
            <= policy.maxRunCreations

Replays(t) ==
    /\ EventsReplay(t.task, t.events)
    /\ ResultReplays(t.task, t.events, t.result)
    /\ CountsReplay(t.policy, t.events, t.result)
=============================================================================
