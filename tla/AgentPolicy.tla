----------------------------- MODULE AgentPolicy -----------------------------
(***************************************************************************)
(* What an agent may do next, as a function of its task and of what it has *)
(* observed: agent/grounding.py, agent/retrieval_planner.py (the fixed     *)
(* sequence) and agent/retrieval_policy.py (the options of a language      *)
(* model).  Planner, runtime and replay all evaluate these functions.      *)
(*                                                                         *)
(* An action is a tool with its arguments.  Of a payload only what a       *)
(* decision depends on is kept: the direction of a comparison, whose run   *)
(* it is, and the rank of a candidate that passed its gates.               *)
(***************************************************************************)
EXTENDS FiniteSets, SequencesExt

CONSTANT None  \* an optional field without a value

Tasks    == {"compare", "fixed", "adaptive"}
Variants == {"uniform", "conservative", "aggressive"}

Act(tool, argument) == [tool |-> tool, argument |-> argument]

Diagnose     == Act("diagnose_baseline_retrieval", "smoke")
Candidate(v) == Act("run_retrieval_candidate", v)
Candidates   == {Candidate(v) : v \in Variants}
Compare      == Act("compare_runs", "task")

(* Run IDs of a comparison are those of the task, or others; the unknown    *)
(* tool is one that the registry does not have.                             *)
CompareActions ==
    {Act(tool, argument) : tool \in {"compare_runs", "evaluate_run"},
                           argument \in {"task", "other"}}
    \cup {Act("inspect_query", "task"), Act("run_ranker", "any"),
          Act("unknown", "any")}
Actions == CompareActions \cup Candidates \cup {Diagnose}

RunCreatingTools == {"run_ranker", "diagnose_baseline_retrieval",
                     "run_retrieval_candidate"}
CreatesRun(action) == action.tool \in RunCreatingTools

ToolNames(task) ==
    IF task = "compare"
    THEN {"compare_runs", "evaluate_run", "inspect_query", "run_ranker"}
    ELSE {"diagnose_baseline_retrieval", "run_retrieval_candidate"}

(* The numbers of a candidate's selection key, by rank.                     *)
Gain == [v \in {"small", "large"} |-> IF v = "small" THEN 1 ELSE 2]

Values(action) ==
    CASE action.tool = "compare_runs"            -> {"better", "mixed", "worse"}
      [] action.tool = "run_ranker"              -> {"task", "other"}
      [] action.tool = "run_retrieval_candidate" -> {"gates_failed"} \cup DOMAIN Gain
      [] OTHER                                   -> {"task"}

AllValues == UNION {Values(a) : a \in Actions}

ToolErrors == {"tool", "outside_scope", "tool_not_allowed",
               "capability_not_allowed"}

Observation ==
    [action : Actions, status : {"succeeded", "failed"}, retryable : BOOLEAN,
     error : ToolErrors \cup {None},
     value : AllValues \cup {None}]

Succeeded(seen) == {o \in ToSet(seen) : o.status = "succeeded"}
Failed(seen)    == {i \in DOMAIN seen : seen[i].status = "failed"}
Done(seen)      == {o.action : o \in Succeeded(seen)}

(* A run and a comparison are named by their content, so two observations   *)
(* can have one reference.                                                  *)
Ref(action, value) ==
    CASE action \in Candidates            -> <<"candidate", action.argument>>
      [] action.tool = "compare_runs"     -> <<"comparison", value>>
      [] action.tool = "inspect_query"    -> <<"query", value>>
      [] OTHER                            -> <<"run", value>>

References     == UNION {{Ref(a, v) : v \in Values(a)} : a \in Actions}
Evidence(seen) == {Ref(o.action, o.value) : o \in Succeeded(seen)}
-----------------------------------------------------------------------------
(* Finish decisions.                                                       *)

Outcomes == {"accept", "reject", "inconclusive", "proposal_ready",
             "no_safe_improvement"}
Reasons  == {"compared", "tool_failed", "no_safe_candidate"} \cup Variants
Finishes == [outcome : Outcomes, refs : SUBSET References, reason : Reasons]
Finish(outcome, seen, reason) ==
    [outcome |-> outcome, refs |-> Evidence(seen), reason |-> reason]

(* The candidate with the greatest selection key; its last component is the *)
(* name of the variant, so there are no ties.                               *)
Passing(seen) == {o \in Succeeded(seen) : o.action \in Candidates /\ o.value # "gates_failed"}
NameOrder     == [v \in Variants |-> CASE v = "uniform"      -> 1
                                     [] v = "aggressive"   -> 2
                                     [] v = "conservative" -> 3]
Outranks(o, p) ==
    \/ Gain[o.value] > Gain[p.value]
    \/ o.value = p.value /\ NameOrder[o.action.argument] >= NameOrder[p.action.argument]
Selected(seen) ==
    (CHOOSE o \in Passing(seen) : \A p \in Passing(seen) : Outranks(o, p))
        .action.argument

ProposalReady(seen) == Finish("proposal_ready", seen, Selected(seen))
NoSafe(seen)        == Finish("no_safe_improvement", seen, "no_safe_candidate")

(* The one decision of the fixed sequence.  The histories it is asked about *)
(* are those it led to: another action is a violation that ends the run.    *)
Expected(seen) ==
    LET Open(v)  == Candidate(v) \notin Done(seen)
        stopped  == /\ seen # <<>>
                    /\ Last(seen).status = "failed"
                    /\ Last(seen).retryable => Cardinality(Failed(seen)) > 1
        passed   == {o.action : o \in Passing(seen)}
    IN IF stopped                         THEN Finish("inconclusive", seen, "tool_failed")
       ELSE IF Diagnose \notin Done(seen)     THEN Diagnose
       ELSE IF Open("uniform")                    THEN Candidate("uniform")
       ELSE IF Candidate("uniform") \in passed    THEN ProposalReady(seen)
       ELSE IF Open("conservative")               THEN Candidate("conservative")
       ELSE IF Open("aggressive")                 THEN Candidate("aggressive")
       ELSE IF passed = {}                        THEN NoSafe(seen)
       ELSE ProposalReady(seen)

(* The decisions a language model chooses from.                             *)
Options(seen) ==
    IF Failed(seen) # {} THEN {}
    ELSE IF Diagnose \notin Done(seen) THEN {Diagnose}
    ELSE (Candidates \ Done(seen))
         \cup (IF Passing(seen) # {} THEN {ProposalReady(seen)}
               ELSE IF Candidates \subseteq Done(seen) THEN {NoSafe(seen)}
               ELSE {})
-----------------------------------------------------------------------------
(* validate_action_scope.                                                  *)
InScope(task, action, seen) ==
    CASE task = "fixed"    -> action = Expected(seen)
      [] task = "adaptive" -> action \in Options(seen)
      [] task = "compare"  ->
         action.tool \in {"compare_runs", "evaluate_run", "inspect_query"}
            => action.argument = "task"

(* validate_finish_grounding.  A reference that is listed twice is refused  *)
(* like an unknown one, and not modelled.                                   *)
Grounded(task, finish, seen) ==
    LET directions == {v \in Values(Compare) : <<"comparison", v>> \in finish.refs}
    IN CASE task = "fixed"    -> finish = Expected(seen)
         [] task = "adaptive" -> finish \in Options(seen)
         [] task = "compare"  ->
            /\ finish.refs \subseteq Evidence(seen)
            /\ finish.refs \cap {<<"run", "other">>, <<"query", "other">>} = {}
            /\ finish.outcome \in {"accept", "reject"} => directions # {}
            /\ finish.outcome = "accept" => directions \subseteq {"better"}
            /\ finish.outcome = "reject" => directions \subseteq {"worse"}

(* What a planner may return.  The planner of a comparison is an argument   *)
(* of the runtime and may return anything; those of the retrieval tasks     *)
(* follow their policy.                                                     *)
Decisions(task, seen) ==
    CASE task = "fixed"    -> {Expected(seen)}
      [] task = "adaptive" -> Options(seen)
      [] task = "compare"  ->
         CompareActions \cup
         [outcome : {"accept", "reject", "inconclusive"}, reason : {"compared"},
          refs : SUBSET {<<"comparison", "better">>, <<"comparison", "worse">>,
                         <<"run", "task">>, <<"run", "other">>}]
=============================================================================
