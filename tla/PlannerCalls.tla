----------------------------- MODULE PlannerCalls -----------------------------
(***************************************************************************)
(* A retrieval run whose decisions a language model takes, one call at a   *)
(* time: agent/llm_retrieval_planner.py asks, agent/llm_provider.py keeps  *)
(* a worker process for the call and agent/llm_worker.py is that process.  *)
(* The runtime around it (agent/runtime.py) is reduced to the adaptive     *)
(* policy of AgentPolicy.                                                  *)
(*                                                                         *)
(* Times are milliseconds since the run started.  A worker that is asked   *)
(* for an answer may give none, give noise, crash, hang or ignore SIGTERM. *)
(***************************************************************************)
EXTENDS AgentPolicy, Integers

CONSTANTS
    ProviderTimeout,  \* SEARCH_LLM_TIMEOUT_MS
    MaxModelCalls,
    Usages,           \* token usages that the provider may report
    Quantum           \* the clock advances by this much at most

ASSUME TimeoutAssumption == /\ ProviderTimeout \in Nat
                            /\ 100 <= ProviderTimeout /\ ProviderTimeout <= 60000
ASSUME ClockAssumption   == Quantum \in Nat \ {0}
ASSUME UsageAssumption   == /\ MaxModelCalls \in 1 .. 6
                            /\ Usages \subseteq [input : Nat, output : Nat]

RunBudget       == 120000  \* max_elapsed_ms of the runtime's policy
MaxSteps        == 6
LifecycleMargin == 10000
Grace           == 250     \* between SIGTERM, SIGKILL and giving up
BudgetMargin    == 50
MaxInputTokens  == 20000
MaxOutputTokens == 1024

Least(a, b) == IF a <= b THEN a ELSE b

(* load_retrieval_planner_configuration.                                    *)
WorkerTimeout == Least(120000, ProviderTimeout + LifecycleMargin)

(* An answer fills the pipe in two chunks; a third exceeds the 8 KiB that a *)
(* response may have.                                                       *)
Envelope    == <<"first", "second">>
MaxResponse == 2
Chunks      == {"first", "second", "noise"}

Failure == [option |-> None]
Answers == Candidates \cup {Diagnose} \cup Finishes

(* A response of the provider: the one thing that is wrong with it (a call  *)
(* that raised, its status, model, output, usage or identifier), the option *)
(* it names, the tokens it reports.                                         *)
Responses(options) ==
    [fault : {None, "raised", "shape"}, option : options \cup {Candidate("uniform")},
     usage : Usages]

ASSUME AnswerAssumption ==
    /\ None \notin Answers \cup {Failure}
    /\ None \notin [option : Answers, usage : Usages]

VARIABLES
    seen,      \* observations of the run
    audits,    \* audits of the decisions the runtime has taken, in order
    now,
    pc,        \* of the host: the runtime, its planner and its provider
    deadline,  \* of the call, or of the wait for a worker that was told to stop
    calls, spent,  \* of the planner: successful calls and their tokens
    audit,     \* _last_audit
    decision,  \* what the runtime executes
    worker,    \* the process of the last call
    exitCode, termed,
    stdin,     \* whether the request has been sent
    envelope,  \* what the worker has to say, None before it knows
    out, closed, got  \* its output, and how much of it the host has read

run     == <<seen, audits, decision>>
planner == <<calls, spent, audit>>
process == <<worker, exitCode, termed, stdin, envelope, out, closed>>
vars    == <<run, now, pc, deadline, planner, process, got>>

InCall == pc \in {"send", "read", "wait", "term", "kill"}

TypeOK ==
    /\ seen \in Seq(Observation)
    /\ now \in Nat /\ deadline \in Nat
    /\ pc \in {"plan", "spawn", "send", "read", "wait", "term", "kill", "audit",
               "act", "done"}
    /\ calls \in 0 .. MaxModelCalls
    /\ spent.input \in 0 .. MaxInputTokens /\ spent.output \in 0 .. MaxOutputTokens
    /\ audit # None <=> pc = "audit"
    /\ decision # None <=> pc \in {"audit", "act"}
    /\ worker \in {"none", "running", "killed", "exited"}
    /\ exitCode \in {0, 1} /\ termed \in BOOLEAN /\ stdin \in BOOLEAN
    /\ \/ envelope \in {None, Failure}
       \/ envelope.option \in Answers /\ envelope.usage \in Usages
    /\ out \in Seq(Chunks) /\ closed \in BOOLEAN
    /\ got \in 0 .. Len(out)

Init ==
    /\ seen = <<>> /\ audits = <<>> /\ decision = None
    /\ now = 0 /\ deadline = 0 /\ pc = "plan"
    /\ calls = 0 /\ spent = [input |-> 0, output |-> 0] /\ audit = None
    /\ worker = "none" /\ exitCode = 0 /\ termed = FALSE /\ stdin = FALSE
    /\ envelope = None /\ out = <<>> /\ closed = FALSE /\ got = 0
-----------------------------------------------------------------------------
(* The planner and the runtime.                                            *)

(* What LLMRetrievalPlanner.decide checks before it calls the provider.     *)
MayCall ==
    /\ audit = None
    /\ calls < MaxModelCalls
    /\ RunBudget - now > WorkerTimeout + BudgetMargin
    /\ Options(seen) # {}

StartDecision ==
    /\ pc = "plan" /\ Len(audits) < MaxSteps /\ now <= RunBudget
    /\ MayCall
    /\ pc' = "spawn"
    /\ UNCHANGED <<run, now, deadline, planner, process, got>>

(* The step, the time or the model-call budget is exhausted.                *)
RefuseDecision ==
    /\ pc = "plan" /\ (Len(audits) >= MaxSteps \/ now > RunBudget \/ ~ MayCall)
    /\ pc' = "done"
    /\ UNCHANGED <<run, now, deadline, planner, process, got>>

(* Any exception of the planner ends the run as planner_failed.             *)
FailCall == pc' = "done" /\ UNCHANGED <<run, now, deadline, planner, got>>

(* Deviation: the tokens of earlier calls are forgotten.                    *)
ProjectedAnew(usage) == usage

Projected(usage) == [input  |-> spent.input + usage.input,
                     output |-> spent.output + usage.output]

WithinTokens(usage) == /\ Projected(usage).input  <= MaxInputTokens
                       /\ Projected(usage).output <= MaxOutputTokens

(* The rest of decide, with the result of the provider.                     *)
Receive(result) ==
    /\ calls' = calls + 1
    /\ IF WithinTokens(result.usage)
       THEN /\ spent' = Projected(result.usage)
            /\ audit' = result /\ decision' = result.option
            /\ pc' = "audit"
       ELSE /\ pc' = "done"
            /\ UNCHANGED <<spent, audit, decision>>
    /\ UNCHANGED <<seen, audits, now, deadline, process, got>>

(* Deviation: the audit stays for the next decision.                        *)
TakeAuditAndKeepIt ==
    /\ pc = "audit" /\ audit.option = decision
    /\ audits' = Append(audits, audit)
    /\ pc' = "act"
    /\ UNCHANGED <<seen, decision, now, deadline, planner, process, got>>

(* _take_planner_audit and _validate_planner_audit_binding.                 *)
TakeAudit ==
    /\ pc = "audit" /\ audit.option = decision /\ decision \in Options(seen)
    /\ audits' = Append(audits, audit) /\ audit' = None
    /\ pc' = "act"
    /\ UNCHANGED <<seen, decision, now, deadline, calls, spent, process, got>>

(* One failure ends the run, a success goes on, a finish completes it.      *)
ExecuteDecision ==
    /\ pc = "act"
    /\ decision' = None
    /\ \/ /\ decision \in Finishes /\ pc' = "done" /\ UNCHANGED seen
       \/ /\ decision \in Actions
          /\ \/ pc' = "done" /\ UNCHANGED seen
             \/ \E v \in Values(decision) :
                   /\ seen' = Append(seen, [action |-> decision, status |-> "succeeded",
                                            retryable |-> FALSE, error |-> None,
                                            value |-> v])
                   /\ pc' = "plan"
    /\ UNCHANGED <<audits, now, deadline, planner, process, got>>
-----------------------------------------------------------------------------
(* The provider: _invoke_worker.                                           *)

(* Popen, or a key that is missing or a process that cannot be started.     *)
Spawn ==
    /\ pc = "spawn"
    /\ \/ /\ worker' = "running" /\ exitCode' = 0 /\ termed' = FALSE
          /\ stdin' = FALSE /\ envelope' = None /\ out' = <<>> /\ closed' = FALSE
          /\ got' = 0 /\ pc' = "send"
          /\ UNCHANGED <<run, now, deadline, planner>>
       \/ FailCall /\ UNCHANGED process

(* _stop_worker.                                                           *)
StopWorker ==
    IF worker = "exited" THEN FailCall /\ UNCHANGED process
    ELSE /\ termed' = TRUE
         /\ pc' = "term" /\ deadline' = now + Grace
         /\ UNCHANGED <<run, now, planner, worker, exitCode, stdin, envelope, out,
                        closed, got>>

Send ==
    /\ pc = "send"
    /\ \/ /\ stdin' = TRUE
          /\ deadline' = now + WorkerTimeout /\ pc' = "read"
          /\ UNCHANGED <<run, now, planner, worker, exitCode, termed, envelope, out,
                         closed, got>>
       \/ StopWorker  \* BrokenPipeError

AtEnd == got = Len(out) /\ (closed \/ worker = "exited")

(* Deviation: every chunk earns the worker another timeout.                 *)
ReadChunkAndRenew ==
    /\ pc = "read" /\ now < deadline /\ got < Len(out)
    /\ IF got + 1 > MaxResponse THEN StopWorker
       ELSE /\ got' = got + 1 /\ deadline' = now + WorkerTimeout
            /\ UNCHANGED <<run, now, pc, planner, process>>

ReadChunk ==
    /\ pc = "read" /\ now < deadline /\ got < Len(out)
    /\ IF got + 1 > MaxResponse THEN StopWorker
       ELSE /\ got' = got + 1
            /\ UNCHANGED <<run, now, pc, deadline, planner, process>>

ReadEnd ==
    /\ pc = "read" /\ now < deadline /\ AtEnd
    /\ pc' = "wait"
    /\ UNCHANGED <<run, now, deadline, planner, process, got>>

(* Deviation: a worker that has closed its output may take its time.        *)
TimeOutReader ==
    /\ pc = "read" /\ worker # "exited" /\ now >= deadline
    /\ StopWorker

TimeOut ==
    /\ \/ pc = "read"
       \/ pc = "wait" /\ worker # "exited"
    /\ now >= deadline
    /\ StopWorker

(* What _parse_worker_envelope and decide accept of the bytes that were     *)
(* read.                                                                    *)
Parsed ==
    /\ SubSeq(out, 1, got) = Envelope
    /\ envelope.option \in Options(seen)

Conclude ==
    /\ pc = "wait" /\ worker = "exited"
    /\ IF exitCode = 0 /\ Parsed THEN Receive(envelope)
       ELSE FailCall /\ UNCHANGED process

(* Deviation: SIGTERM is all a worker gets.                                 *)
EscalateNever ==
    /\ pc = "term" /\ worker # "exited" /\ now >= deadline
    /\ FailCall /\ UNCHANGED process

Escalate ==
    /\ pc = "term" /\ worker # "exited" /\ now >= deadline
    /\ worker' = "killed"
    /\ pc' = "kill" /\ deadline' = now + Grace
    /\ UNCHANGED <<run, now, planner, exitCode, termed, stdin, envelope, out, closed,
                   got>>

(* The worker has gone, or the host gives up waiting for it.                *)
Stopped ==
    /\ pc \in {"term", "kill"}
    /\ worker = "exited" \/ (pc = "kill" /\ now >= deadline)
    /\ FailCall /\ UNCHANGED process
-----------------------------------------------------------------------------
(* The worker.                                                             *)

(* execute_request: one call without retries; whatever is wrong with its    *)
(* response becomes a failure.                                              *)
WorkerEnvelope(response, options) ==
    IF response.fault = None /\ response.option \in options
    THEN [option |-> response.option, usage |-> response.usage]
    ELSE Failure

Ask ==
    /\ worker = "running" /\ stdin /\ envelope = None
    /\ \E r \in Responses(Options(seen)) : envelope' = WorkerEnvelope(r, Options(seen))
    /\ UNCHANGED <<run, now, pc, deadline, planner, worker, exitCode, termed, stdin,
                   out, closed, got>>

(* A chunk of the envelope, or noise of a library.                          *)
Write ==
    /\ worker = "running" /\ ~ closed /\ Len(out) <= MaxResponse
    /\ \/ /\ envelope # None /\ Len(out) < Len(Envelope)
          /\ out' = Append(out, Envelope[Len(out) + 1])
       \/ out' = Append(out, "noise")
    /\ UNCHANGED <<run, now, pc, deadline, planner, worker, exitCode, termed, stdin,
                   envelope, closed, got>>

Close ==
    /\ worker = "running" /\ ~ closed /\ closed' = TRUE
    /\ UNCHANGED <<run, now, pc, deadline, planner, worker, exitCode, termed, stdin,
                   envelope, out, got>>

(* It returns behind its answer, crashes at any time, dies of a signal.     *)
Exit ==
    /\ worker \in {"running", "killed"}
    /\ worker' = "exited" /\ closed' = TRUE
    /\ exitCode' \in IF worker = "running" /\ Len(out) >= Len(Envelope)
                     THEN {0, 1} ELSE {1}
    /\ UNCHANGED <<run, now, pc, deadline, planner, termed, stdin, envelope, out, got>>

(* The host is scheduled at its deadlines; between them and while a tool    *)
(* runs time passes.                                                        *)
Tick ==
    /\ \/ /\ pc \in {"read", "wait", "term", "kill"} /\ now < deadline
          /\ now' = Least(deadline, now + Quantum)
       \/ /\ pc = "act" /\ now <= RunBudget
          /\ now' = now + Quantum
    /\ UNCHANGED <<run, pc, deadline, planner, process, got>>

(* The summary of a run: _agent_run_summary pairs each observed action with *)
(* the audit of its decision, _llm_usage_summary adds the audits up.        *)
Totals(list) ==
    LET sum[i \in 0 .. Len(list)] ==
          IF i = 0 THEN [input |-> 0, output |-> 0]
          ELSE [input  |-> sum[i - 1].input + list[i].usage.input,
                output |-> sum[i - 1].output + list[i].usage.output]
    IN sum
RunSummary ==
    LET total == Totals(audits)[Len(audits)]
    IN [actions |-> [i \in DOMAIN seen |-> [action   |-> seen[i].action,
                                            selected |-> audits[i].option]],
        model_calls |-> Len(audits),
        input_tokens |-> total.input, output_tokens |-> total.output]

Host ==
    \/ StartDecision \/ RefuseDecision \/ TakeAudit
    \/ Spawn \/ Send \/ ReadChunk \/ ReadEnd \/ TimeOut \/ Conclude
    \/ Escalate \/ Stopped

Next == Host \/ ExecuteDecision \/ Ask \/ Write \/ Close \/ Exit \/ Tick

(* The host waits with timeouts only, and time passes.  Nothing is assumed  *)
(* of the worker.                                                           *)
Spec == Init /\ [][Next]_vars /\ WF_vars(Host) /\ WF_vars(Tick)
-----------------------------------------------------------------------------
(* What must hold.                                                         *)

(* A worker does not outlive the call it was started for: whichever way the *)
(* call ended, it has exited or SIGKILL has been sent to it.                *)
WorkersEndWithTheirCall == ~ InCall => worker # "running"

(* A call ends within the budget of the run that it was started in, or at  *)
(* most two grace periods behind it: decide asks whether the timeout of the *)
(* worker still fits, and stopping the worker comes on top.                 *)
CallsFitTheRun == InCall => now <= RunBudget - BudgetMargin + 2 * Grace

(* Every call ends, in that time, whatever the worker does.                 *)
EveryCallEnds == []CallsFitTheRun /\ (InCall ~> ~ InCall)

(* The summary of a run tells what happened: each observed action was       *)
(* selected by its own audit, from the options of its own step, at most one *)
(* more decision was taken, and calls and tokens are within the budget.     *)
AuditsCoverTheRun ==
    /\ RunSummary.model_calls - Len(seen) \in {0, 1}
    /\ \A i \in DOMAIN seen :
          RunSummary.actions[i].selected = RunSummary.actions[i].action
    /\ \A i \in DOMAIN audits :
          audits[i].option \in Options(SubSeq(seen, 1, i - 1))
    /\ RunSummary.model_calls <= MaxModelCalls
    /\ RunSummary.input_tokens <= MaxInputTokens
    /\ RunSummary.output_tokens <= MaxOutputTokens
=============================================================================
