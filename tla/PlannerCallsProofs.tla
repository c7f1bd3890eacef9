------------------------- MODULE PlannerCallsProofs -------------------------
(***************************************************************************)
(* For every timeout that the configuration admits, any token usages and   *)
(* any behaviour of the worker: no worker outlives its call, no call       *)
(* outlives its run by more than the time it takes to stop a worker, and   *)
(* the summary of a run tells which decisions were taken and what they     *)
(* cost.  The totals are a recursive function: what the summary adds up is *)
(* shown with the least number for which it would not.                     *)
(***************************************************************************)
EXTENDS PlannerCalls, SequenceTheorems, WellFoundedInduction, TLAPS

Phases == {"plan", "spawn", "send", "read", "wait", "term", "kill", "audit", "act",
           "done"}

(* SIGKILL comes before the last wait.                                     *)
KilledBeforeGivingUp == pc = "kill" => worker # "running"

(* How late it can be in each phase of a call.                             *)
TimesMatchPhase ==
    /\ pc \in {"spawn", "send"} => now + WorkerTimeout < RunBudget - BudgetMargin
    /\ pc \in {"read", "wait"}  => /\ now <= deadline
                                   /\ deadline < RunBudget - BudgetMargin
    /\ pc = "term" => /\ now <= deadline
                      /\ deadline <= RunBudget - BudgetMargin + Grace
    /\ pc = "kill" => /\ now <= deadline
                      /\ deadline <= RunBudget - BudgetMargin + 2 * Grace

CallInv ==
    /\ pc \in Phases
    /\ now \in Nat /\ deadline \in Nat
    /\ WorkersEndWithTheirCall
    /\ KilledBeforeGivingUp
    /\ TimesMatchPhase

(* A timeout that the configuration admits leaves the SDK in the worker     *)
(* time to give up on its own, and the first call of a run always fits.     *)
LEMMA TimeoutsFit ==
    /\ WorkerTimeout \in Nat
    /\ ProviderTimeout < WorkerTimeout
    /\ WorkerTimeout + BudgetMargin < RunBudget
<1>1. ProviderTimeout \in Int /\ 0 <= ProviderTimeout /\ ProviderTimeout <= 60000
  BY TimeoutAssumption DEF TimeoutAssumption
<1>2. WorkerTimeout = ProviderTimeout + 10000
  BY <1>1 DEF WorkerTimeout, Least, LifecycleMargin
<1>3. QED BY <1>1, <1>2 DEF BudgetMargin, RunBudget

USE DEF RunBudget, BudgetMargin, Grace, Phases

LEMMA CallInvInit == Init => CallInv
BY DEF Init, CallInv, InCall, WorkersEndWithTheirCall, KilledBeforeGivingUp,
   TimesMatchPhase

(* StopWorker, from a phase with time left for both grace periods.         *)
LEMMA StopKeeps ==
    ASSUME CallInv, pc \in {"send", "read", "wait"}, StopWorker
    PROVE  CallInv'
<1>1. CASE worker = "exited"
  <2>1. pc' = "done" /\ UNCHANGED <<now, deadline, worker>>
    BY <1>1 DEF StopWorker, FailCall, process
  <2>2. QED
    BY <1>1, <2>1 DEF CallInv, InCall, WorkersEndWithTheirCall, KilledBeforeGivingUp,
       TimesMatchPhase
<1>2. CASE worker # "exited"
  <2>1. pc' = "term" /\ deadline' = now + Grace /\ UNCHANGED <<now, worker>>
    BY <1>2 DEF StopWorker
  <2>2. now <= RunBudget - BudgetMargin
    BY TimeoutsFit DEF CallInv, TimesMatchPhase
  <2>3. QED
    BY <2>1, <2>2 DEF CallInv, InCall, WorkersEndWithTheirCall, KilledBeforeGivingUp,
       TimesMatchPhase
<1>3. QED BY <1>1, <1>2

(* Steps that end the call or leave it, when the worker cannot be running.  *)
LEMMA LeaveKeeps ==
    ASSUME CallInv, pc' \in {"plan", "audit", "act", "done"}, worker # "running",
           UNCHANGED <<deadline, worker>>, now' \in Nat
    PROVE  CallInv'
BY DEF CallInv, InCall, WorkersEndWithTheirCall, KilledBeforeGivingUp, TimesMatchPhase

(* Steps of the worker, which do not start it.                             *)
LEMMA WorkerKeeps ==
    ASSUME CallInv, UNCHANGED <<pc, now, deadline>>,
           worker' = worker \/ worker' = "exited"
    PROVE  CallInv'
BY DEF CallInv, InCall, WorkersEndWithTheirCall, KilledBeforeGivingUp, TimesMatchPhase

LEMMA CallInvHost == ASSUME CallInv, Host PROVE CallInv'
<1>1. CASE StartDecision
  <2>1. /\ pc = "plan" /\ pc' = "spawn" /\ UNCHANGED <<now, deadline, worker>>
        /\ RunBudget - now > WorkerTimeout + BudgetMargin
    BY <1>1 DEF StartDecision, MayCall, process
  <2>2. QED
    BY <2>1, TimeoutsFit DEF CallInv, InCall, WorkersEndWithTheirCall,
       KilledBeforeGivingUp, TimesMatchPhase
<1>2. CASE RefuseDecision
  <2>1. pc = "plan" /\ pc' = "done" /\ UNCHANGED <<now, deadline, worker>>
    BY <1>2 DEF RefuseDecision, process
  <2>2. worker # "running"
    BY <2>1 DEF CallInv, WorkersEndWithTheirCall, InCall
  <2>3. QED
    BY <2>1, <2>2, LeaveKeeps DEF CallInv
<1>3. CASE TakeAudit
  <2>1. pc = "audit" /\ pc' = "act" /\ UNCHANGED <<now, deadline, worker>>
    BY <1>3 DEF TakeAudit, process
  <2>2. worker # "running"
    BY <2>1 DEF CallInv, WorkersEndWithTheirCall, InCall
  <2>3. QED
    BY <2>1, <2>2, LeaveKeeps DEF CallInv
<1>4. CASE Spawn
  <2>1. /\ pc = "spawn" /\ UNCHANGED <<now, deadline>>
        /\ \/ pc' = "send"
           \/ pc' = "done" /\ UNCHANGED worker
    BY <1>4 DEF Spawn, FailCall, process
  <2>2. QED
    BY <2>1 DEF CallInv, InCall, WorkersEndWithTheirCall, KilledBeforeGivingUp,
       TimesMatchPhase
<1>5. CASE Send
  <2>1. CASE StopWorker
    BY <1>5, <2>1, StopKeeps DEF Send
  <2>2. CASE /\ pc' = "read" /\ deadline' = now + WorkerTimeout
             /\ UNCHANGED <<now, worker>>
    BY <1>5, <2>2, TimeoutsFit DEF Send, CallInv, InCall, WorkersEndWithTheirCall,
       KilledBeforeGivingUp, TimesMatchPhase
  <2>3. QED BY <1>5, <2>1, <2>2 DEF Send
<1>6. CASE ReadChunk
  <2>1. CASE StopWorker
    BY <1>6, <2>1, StopKeeps DEF ReadChunk
  <2>2. CASE UNCHANGED <<pc, now, deadline, worker>>
    BY <2>2, WorkerKeeps
  <2>3. QED BY <1>6, <2>1, <2>2 DEF ReadChunk, process
<1>7. CASE ReadEnd
  <2>1. pc = "read" /\ pc' = "wait" /\ UNCHANGED <<now, deadline, worker>>
    BY <1>7 DEF ReadEnd, process
  <2>2. QED
    BY <2>1 DEF CallInv, InCall, WorkersEndWithTheirCall, KilledBeforeGivingUp,
       TimesMatchPhase
<1>8. CASE TimeOut
  BY <1>8, StopKeeps DEF TimeOut
<1>9. CASE Conclude
  <2>1. worker = "exited" /\ pc' \in {"audit", "done"}
        /\ UNCHANGED <<now, deadline, worker>>
    BY <1>9 DEF Conclude, Receive, FailCall, process
  <2>2. QED
    BY <2>1, LeaveKeeps DEF CallInv
<1>10. CASE Escalate
  <2>1. /\ pc = "term" /\ pc' = "kill" /\ deadline' = now + Grace
        /\ worker' = "killed" /\ UNCHANGED now
    BY <1>10 DEF Escalate
  <2>2. QED
    BY <2>1 DEF CallInv, InCall, WorkersEndWithTheirCall, KilledBeforeGivingUp,
       TimesMatchPhase
<1>11. CASE Stopped
  <2>1. /\ worker = "exited" \/ pc = "kill"
        /\ pc' = "done" /\ UNCHANGED <<now, deadline, worker>>
    BY <1>11 DEF Stopped, FailCall, process
  <2>2. worker # "running"
    BY <2>1 DEF CallInv, KilledBeforeGivingUp
  <2>3. QED
    BY <2>1, <2>2, LeaveKeeps DEF CallInv
<1>12. QED
  BY <1>1, <1>2, <1>3, <1>4, <1>5, <1>6, <1>7, <1>8, <1>9, <1>10, <1>11 DEF Host

LEMMA CallInvTick == ASSUME CallInv, Tick PROVE CallInv'
<1>1. CASE pc = "act"
  <2>1. UNCHANGED <<pc, deadline, worker>> /\ now' \in Nat
    BY <1>1, ClockAssumption DEF Tick, process, CallInv, ClockAssumption
  <2>2. worker # "running"
    BY <1>1 DEF CallInv, WorkersEndWithTheirCall, InCall
  <2>3. QED
    BY <1>1, <2>1, <2>2, LeaveKeeps
<1>2. CASE pc # "act"
  <2>1. /\ UNCHANGED <<pc, deadline, worker>>
        /\ pc \in {"read", "wait", "term", "kill"}
        /\ now' = Least(deadline, now + Quantum)
    BY <1>2 DEF Tick, process
  <2>2. now' \in Nat /\ now' <= deadline
    BY <2>1, ClockAssumption DEF Least, CallInv, ClockAssumption
  <2>3. QED
    BY <2>1, <2>2 DEF CallInv, InCall, WorkersEndWithTheirCall, KilledBeforeGivingUp,
       TimesMatchPhase
<1>3. QED BY <1>1, <1>2

LEMMA CallInvNext == CallInv /\ [Next]_vars => CallInv'
<1>. SUFFICES ASSUME CallInv, [Next]_vars PROVE CallInv'
  OBVIOUS
<1>1. CASE Host
  BY <1>1, CallInvHost
<1>2. CASE ExecuteDecision
  <2>1. /\ pc = "act" /\ pc' \in {"plan", "done"}
        /\ UNCHANGED <<now, deadline, worker>>
    BY <1>2 DEF ExecuteDecision, process
  <2>2. worker # "running"
    BY <2>1 DEF CallInv, WorkersEndWithTheirCall, InCall
  <2>3. QED
    BY <2>1, <2>2, LeaveKeeps DEF CallInv
<1>3. CASE Ask \/ Write \/ Close \/ Exit
  <2>1. UNCHANGED <<pc, now, deadline>> /\ (worker' = worker \/ worker' = "exited")
    BY <1>3 DEF Ask, Write, Close, Exit
  <2>2. QED BY <2>1, WorkerKeeps
<1>4. CASE Tick
  BY <1>4, CallInvTick
<1>5. CASE UNCHANGED vars
  BY <1>5, WorkerKeeps DEF vars, process
<1>6. QED BY <1>1, <1>2, <1>3, <1>4, <1>5 DEF Next

(* The phases of a call, its worker and its times stay as described.       *)
THEOREM CallInvariant == Spec => []CallInv
BY CallInvInit, CallInvNext, PTL DEF Spec

(* Whichever way a call ended, its worker has exited or been sent SIGKILL   *)
(* (_stop_worker).                                                          *)
THEOREM NoWorkerOutlivesItsCall == Spec => []WorkersEndWithTheirCall
<1>1. CallInv => WorkersEndWithTheirCall
  BY DEF CallInv
<1>2. QED BY CallInvariant, <1>1, PTL

(* The hard ceiling that decide compares with the rest of the budget bounds *)
(* the call, up to the two grace periods in which a worker is stopped.      *)
THEOREM EveryCallFits == Spec => []CallsFitTheRun
<1>1. CallInv => CallsFitTheRun
  BY TimeoutsFit DEF CallInv, CallsFitTheRun, InCall, TimesMatchPhase
<1>2. QED BY CallInvariant, <1>1, PTL
-----------------------------------------------------------------------------
(* The options of a step are answers that a finish or an action can be.     *)

LEMMA LeastNumber ==
    ASSUME NEW T, T \subseteq Nat, T # {}
    PROVE  \E n \in T : \A m \in T : n <= m
<1>1. PICK R : R = OpToRel(<, Nat) /\ IsWellFoundedOn(R, Nat)
  BY NatLessThanWellFounded
<1>2. R = {ss \in Nat \X Nat : ss[1] < ss[2]}
  BY <1>1 DEF OpToRel
<1>3. PICK n \in T : \A m \in T : ~ (<<m, n>> \in R)
  BY <1>1, WFMin
<1>4. \A m \in T : ~ (m < n)
  BY <1>2, <1>3
<1> QED
  BY <1>4

Witnessed(obs) ==
    /\ obs \in Seq(Observation)
    /\ \A i \in DOMAIN obs :
         obs[i].status = "succeeded" => obs[i].value \in Values(obs[i].action)

LEMMA EvidenceExists ==
    ASSUME NEW obs, Witnessed(obs)
    PROVE  Evidence(obs) \subseteq References
<1> SUFFICES ASSUME NEW o \in Succeeded(obs)
             PROVE  Ref(o.action, o.value) \in References
  BY DEF Evidence
<1>1. PICK i \in DOMAIN obs : o = obs[i] /\ o.status = "succeeded"
  BY DEF Succeeded, ToSet
<1>2. o.action \in Actions /\ o.value \in Values(o.action)
  <2>1. obs[i] \in Observation
    BY <1>1 DEF Witnessed
  <2>2. o.action \in Actions
    BY <1>1, <2>1 DEF Observation
  <2> QED
    BY <1>1, <2>2 DEF Witnessed
<1>3. PICK a, v : a \in Actions /\ a = o.action /\ v \in Values(a) /\ v = o.value
  BY <1>2
<1>4. Ref(a, v) \in {Ref(a, w) : w \in Values(a)}
  BY <1>3
<1> QED
  BY <1>3, <1>4 DEF References

(* Among the candidates that passed there is one with the greatest key.     *)
KeyOf(o) == 3 * Gain[o.value] + NameOrder[o.action.argument]

LEMMA SelectedExists ==
    ASSUME NEW obs, Witnessed(obs), Passing(obs) # {}
    PROVE  Selected(obs) \in Variants
<1>1. ASSUME NEW o \in Passing(obs)
      PROVE  /\ o.value \in {"small", "large"}
             /\ o.action \in Candidates /\ o.action.argument \in Variants
  <2>1. PICK i \in DOMAIN obs : o = obs[i] /\ o.status = "succeeded"
    BY DEF Passing, Succeeded, ToSet
  <2>2. o.value \in Values(o.action) /\ o.action \in Candidates /\ o.value # "gates_failed"
    BY <2>1 DEF Witnessed, Passing
  <2>3. o.action.tool = "run_retrieval_candidate" /\ o.action.argument \in Variants
    BY <2>2 DEF Candidates, Candidate, Act
  <2>4. Values(o.action) = {"gates_failed"} \cup DOMAIN Gain
    BY <2>3 DEF Values
  <2>5. DOMAIN Gain = {"small", "large"}
    BY DEF Gain
  <2> QED
    BY <2>2, <2>3, <2>4, <2>5
<1>2. Gain["small"] = 1 /\ Gain["large"] = 2
  BY DEF Gain
<1>3. NameOrder["uniform"] = 1 /\ NameOrder["aggressive"] = 2 /\ NameOrder["conservative"] = 3
  BY DEF NameOrder, Variants
<1>4. \A o \in Passing(obs) : KeyOf(o) \in 4 .. 9
  BY <1>1, <1>2, <1>3 DEF KeyOf, Variants
<1>5. \A o, p \in Passing(obs) : KeyOf(o) >= KeyOf(p) => Outranks(o, p)
  BY <1>1, <1>2, <1>3 DEF KeyOf, Outranks, Variants
<1> DEFINE T == {n \in Nat : \E o \in Passing(obs) : n = 9 - KeyOf(o)}
<1>6. T # {}
  <2>1. PICK o \in Passing(obs) : TRUE
    OBVIOUS
  <2>2. 9 - KeyOf(o) \in Nat
    BY <1>4
  <2>3. 9 - KeyOf(o) \in T
    BY <2>2
  <2> QED
    BY <2>3
<1>7. PICK n \in T : \A m \in T : n <= m
  BY <1>6, LeastNumber
<1>8. PICK o \in Passing(obs) : n = 9 - KeyOf(o)
  BY <1>7
<1>9. ASSUME NEW p \in Passing(obs) PROVE Outranks(o, p)
  <2>1. 9 - KeyOf(p) \in T
    BY <1>4
  <2>2. 9 - KeyOf(o) <= 9 - KeyOf(p)
    BY <1>7, <1>8, <2>1
  <2> QED
    BY <1>4, <1>5, <2>2
<1> QED
  BY <1>1, <1>9 DEF Selected

LEMMA OptionsAreAnswers ==
    ASSUME NEW obs, Witnessed(obs)
    PROVE  Options(obs) \subseteq Answers
<1>1. Evidence(obs) \subseteq References
  BY EvidenceExists
<1>2. Passing(obs) # {} => Selected(obs) \in Variants
  BY SelectedExists
<1>3. /\ Passing(obs) # {} => ProposalReady(obs) \in Finishes
      /\ NoSafe(obs) \in Finishes
  BY <1>1, <1>2 DEF ProposalReady, NoSafe, Finish, Finishes, Outcomes, Reasons
<1> QED
  BY <1>3 DEF Options, Answers

-----------------------------------------------------------------------------
(* The tokens of the audits add up to what the planner has spent.           *)

Audits == [option : Answers, usage : Usages]
Tokens == [input : Nat, output : Nat]

Plus(total, usage) == [input  |-> total.input + usage.input,
                       output |-> total.output + usage.output]
AddsUp(f, list, n) ==
    f = [i \in 0 .. n |-> IF i = 0 THEN [input |-> 0, output |-> 0]
                          ELSE Plus(f[i - 1], list[i].usage)]

LEMMA AddsUpExists ==
    ASSUME NEW list, NEW n \in Nat
    PROVE  \E f : AddsUp(f, list, n)
<1> DEFINE T == {k \in Nat : ~ \E f : AddsUp(f, list, k)}
<1>1. SUFFICES T = {}
  OBVIOUS
<1>2. SUFFICES ASSUME NEW k \in T, \A m \in T : k <= m
               PROVE  FALSE
  BY LeastNumber
<1>3. CASE k = 0
  <2>1. AddsUp([i \in 0 .. 0 |-> [input |-> 0, output |-> 0]], list, 0)
    BY DEF AddsUp
  <2> QED
    BY <1>3, <2>1
<1>4. CASE k # 0
  <2>1. k - 1 \in Nat /\ k - 1 \notin T
    BY <1>2, <1>4
  <2>2. PICK f : AddsUp(f, list, k - 1)
    BY <2>1
  <2> DEFINE v == Plus(f[k - 1], list[k].usage)
             g == [i \in 0 .. k |-> IF i = k THEN v ELSE f[i]]
  <2>3. ASSUME NEW i \in 0 .. k
        PROVE  g[i] = IF i = 0 THEN [input |-> 0, output |-> 0]
                      ELSE Plus(g[i - 1], list[i].usage)
    <3>1. CASE i # k
      <4>0. i \in 0 .. k - 1
        BY <3>1
      <4>1. g[i] = f[i] /\ (i # 0 => g[i - 1] = f[i - 1])
        BY <3>1
      <4>2. f[i] = IF i = 0 THEN [input |-> 0, output |-> 0]
                   ELSE Plus(f[i - 1], list[i].usage)
        BY <2>2, <4>0 DEF AddsUp
      <4> QED
        BY <4>1, <4>2
    <3>2. CASE i = k
      BY <1>4, <3>2
    <3> QED
      BY <3>1, <3>2
  <2>4. AddsUp(g, list, k)
    BY <2>3 DEF AddsUp
  <2> QED
    BY <2>4
<1> QED
  BY <1>3, <1>4

LEMMA TotalsAddUp ==
    ASSUME NEW list, Len(list) \in Nat
    PROVE  AddsUp(Totals(list), list, Len(list))
<1>1. \E f : f = [i \in 0 .. Len(list) |->
                    IF i = 0 THEN [input |-> 0, output |-> 0]
                    ELSE [input  |-> f[i - 1].input + list[i].usage.input,
                          output |-> f[i - 1].output + list[i].usage.output]]
  <2>1. PICK f : AddsUp(f, list, Len(list))
    BY AddsUpExists
  <2> QED
    BY <2>1, Zenon DEF AddsUp, Plus
<1>2. Totals(list) = CHOOSE f : f = [i \in 0 .. Len(list) |->
                    IF i = 0 THEN [input |-> 0, output |-> 0]
                    ELSE [input  |-> f[i - 1].input + list[i].usage.input,
                          output |-> f[i - 1].output + list[i].usage.output]]
  BY DEF Totals
<1> QED
  BY <1>1, <1>2, Zenon DEF AddsUp, Plus

Continues(more, list, n) == \A i \in 1 .. n : more[i] = list[i]

LEMMA SumsStay ==
    ASSUME NEW list, NEW more, NEW n \in Nat, NEW m \in Nat, n <= m, NEW f, NEW g,
           AddsUp(f, list, n), AddsUp(g, more, m), Continues(more, list, n)
    PROVE  \A i \in 0 .. n : g[i] = f[i]
<1> DEFINE T == {i \in 0 .. n : g[i] # f[i]}
<1>1. SUFFICES T = {}
  OBVIOUS
<1>2. SUFFICES ASSUME NEW k \in T, \A i \in T : k <= i
               PROVE  FALSE
  <2>1. T \subseteq Nat
    OBVIOUS
  <2> QED
    BY <2>1, LeastNumber
<1>3. k \in 0 .. n /\ k \in 0 .. m
  OBVIOUS
<1>4. /\ f[k] = IF k = 0 THEN [input |-> 0, output |-> 0] ELSE Plus(f[k - 1], list[k].usage)
      /\ g[k] = IF k = 0 THEN [input |-> 0, output |-> 0] ELSE Plus(g[k - 1], more[k].usage)
  BY <1>3, Zenon DEF AddsUp
<1>5. k # 0
  BY <1>4
<1>6. k - 1 \in 0 .. n /\ k - 1 \notin T
  BY <1>2, <1>5
<1>7. g[k - 1] = f[k - 1] /\ more[k] = list[k]
  BY <1>5, <1>6 DEF Continues
<1> QED
  BY <1>2, <1>4, <1>5, <1>7

LEMMA TotalOfNone == Totals(<<>>)[0] = [input |-> 0, output |-> 0]
<1>1. AddsUp(Totals(<<>>), <<>>, 0)
  <2>1. Len(<<>>) = 0
    OBVIOUS
  <2> QED
    BY <2>1, TotalsAddUp
<1>2. 0 \in 0 .. 0
  OBVIOUS
<1> QED
  BY <1>1, <1>2, Zenon DEF AddsUp

LEMMA TotalOfOneMore ==
    ASSUME NEW list \in Seq(Audits), NEW a \in Audits
    PROVE  Totals(Append(list, a))[Len(list) + 1] = Plus(Totals(list)[Len(list)], a.usage)
<1>1. PICK more, n : more = Append(list, a) /\ n = Len(list)
  OBVIOUS
<1>2. /\ n \in Nat /\ n + 1 \in Nat /\ Len(more) = n + 1 /\ more[n + 1] = a
      /\ n <= n + 1 /\ n + 1 \in 0 .. n + 1 /\ n + 1 # 0 /\ n \in 0 .. n
      /\ (n + 1) - 1 = n
  BY <1>1
<1>3. Continues(more, list, n)
  BY <1>1 DEF Continues
<1>4. PICK f, g : f = Totals(list) /\ g = Totals(more)
  OBVIOUS
<1>5. AddsUp(f, list, n) /\ AddsUp(g, more, n + 1)
  BY <1>1, <1>2, <1>4, TotalsAddUp
<1>6. g[n] = f[n]
  BY <1>2, <1>3, <1>5, SumsStay
<1>7. g[n + 1] = Plus(g[n], more[n + 1].usage)
  <2>1. g[n + 1] = IF n + 1 = 0 THEN [input |-> 0, output |-> 0]
                   ELSE Plus(g[(n + 1) - 1], more[n + 1].usage)
    BY <1>2, <1>5, Zenon DEF AddsUp
  <2> QED
    BY <1>2, <2>1
<1> QED
  BY <1>1, <1>2, <1>4, <1>6, <1>7

-----------------------------------------------------------------------------
(* What the host has heard, what it has paid, and what it has decided.      *)

Calling == {"spawn", "send", "read", "wait", "term", "kill"}

(* The worker speaks its envelope only when it has one.                     *)
Heard ==
    /\ worker \in {"none", "running", "killed", "exited"}
    /\ exitCode \in {0, 1} /\ termed \in BOOLEAN /\ stdin \in BOOLEAN
    /\ envelope \in {None, Failure} \cup Audits
    /\ out \in Seq(Chunks) /\ closed \in BOOLEAN
    /\ got \in 0 .. Len(out)
    /\ \A i \in DOMAIN out : out[i] # "noise" => envelope # None

Typed ==
    /\ Witnessed(seen) /\ audits \in Seq(Audits)
    /\ audit \in Audits \cup {None} /\ decision \in Answers \cup {None}
    /\ audit # None <=> pc = "audit"
    /\ decision # None <=> pc \in {"audit", "act"}
    /\ pc = "audit" => audit.option = decision /\ decision \in Options(seen)

Paid ==
    /\ calls \in 0 .. MaxModelCalls
    /\ pc \in Calling => calls < MaxModelCalls
    /\ IF pc = "audit" THEN calls = Len(audits) + 1
       ELSE IF pc = "done" THEN Len(audits) <= calls ELSE calls = Len(audits)
    /\ spent \in Tokens
    /\ spent.input <= MaxInputTokens /\ spent.output <= MaxOutputTokens
    /\ Totals(audits)[Len(audits)] \in Tokens
    /\ spent = IF pc = "audit" THEN Plus(Totals(audits)[Len(audits)], audit.usage)
               ELSE Totals(audits)[Len(audits)]

Paired ==
    /\ IF pc = "act" THEN Len(audits) = Len(seen) + 1
       ELSE IF pc = "done" THEN Len(audits) \in {Len(seen), Len(seen) + 1}
       ELSE Len(audits) = Len(seen)
    /\ pc = "act" => audits[Len(audits)].option = decision
    /\ \A i \in DOMAIN seen : audits[i].option = seen[i].action
    /\ \A i \in DOMAIN audits : audits[i].option \in Options(SubSeq(seen, 1, i - 1))

RunInv == CallInv /\ Heard /\ Typed /\ Paid /\ Paired

USE DEF Calling

LEMMA NoOptionIsNone ==
    /\ None \notin Answers /\ None # Failure /\ None \notin Audits
    /\ Diagnose \in Actions /\ Candidates \subseteq Actions
  BY AnswerAssumption DEF Audits, Actions

LEMMA RunStarts == Init => RunInv
<1> SUFFICES ASSUME Init PROVE RunInv
  OBVIOUS
<1>1. CallInv
  BY CallInvInit
<1>2. Heard
  <2>1. out \in Seq(Chunks) /\ DOMAIN out = {} /\ Len(out) = 0
    BY DEF Init
  <2>2. /\ worker = "none" /\ exitCode = 0 /\ termed = FALSE /\ stdin = FALSE
        /\ envelope = None /\ closed = FALSE /\ got = 0 /\ 0 \in 0 .. 0
    BY DEF Init
  <2> QED
    BY <2>1, <2>2 DEF Heard
<1>3. Typed
  BY DEF Init, Typed, Witnessed
<1>4. Paid
  <2>1. Len(audits) = 0 /\ Totals(audits)[Len(audits)] = [input |-> 0, output |-> 0]
    BY TotalOfNone DEF Init
  <2> QED
    BY <2>1, UsageAssumption DEF Init, Paid, Tokens, MaxInputTokens, MaxOutputTokens
<1>5. Paired
  BY DEF Init, Paired
<1> QED
  BY <1>1, <1>2, <1>3, <1>4, <1>5 DEF RunInv

(* Before and within a call nothing is decided.                             *)
LEMMA CallingKeeps ==
    ASSUME RunInv, pc \in {"plan"} \cup Calling, pc' \in Calling \cup {"done"},
           pc' \in Calling => calls < MaxModelCalls,
           UNCHANGED <<run, planner>>
    PROVE  Typed' /\ Paid' /\ Paired'
<1>1. /\ seen' = seen /\ audits' = audits /\ decision' = decision
      /\ calls' = calls /\ spent' = spent /\ audit' = audit
  BY DEF run, planner
<1>2. Typed'
  BY <1>1 DEF RunInv, Typed
<1>3. Paid'
  <2>1. Len(audits) \in Nat
    BY DEF RunInv, Typed
  <2> QED
    BY <1>1, <2>1 DEF RunInv, Paid
<1>4. Paired'
  BY <1>1 DEF RunInv, Paired
<1> QED
  BY <1>2, <1>3, <1>4

(* While time passes or the worker is at work the host decides nothing.     *)
LEMMA WaitingKeeps ==
    ASSUME RunInv, UNCHANGED <<run, planner, pc>>
    PROVE  Typed' /\ Paid' /\ Paired'
  BY DEF RunInv, Typed, Paid, Paired, run, planner

LEMMA ReceiveKeeps ==
    ASSUME RunInv, pc = "wait", Parsed, Receive(envelope)
    PROVE  Typed' /\ Paid' /\ Paired'
<1>1. envelope \in Audits
  <2>1. out \in Seq(Chunks) /\ got \in 0 .. Len(out) /\ SubSeq(out, 1, got) = Envelope
    BY DEF RunInv, Heard, Parsed
  <2>2. /\ got \in Int /\ Len(SubSeq(out, 1, got)) = got
        /\ got >= 1 => SubSeq(out, 1, got)[1] = out[1]
    BY <2>1
  <2>3. Len(Envelope) = 2 /\ Envelope[1] = "first"
    BY DEF Envelope
  <2>4. got = 2 /\ out[1] = "first"
    <3>1. Len(Envelope) = got /\ (got >= 1 => Envelope[1] = out[1])
      BY <2>1, <2>2, Zenon
    <3> QED
      BY <2>3, <3>1
  <2>5. 1 \in DOMAIN out
    BY <2>1, <2>4
  <2>6. envelope # None
    BY <2>4, <2>5 DEF RunInv, Heard
  <2>7. envelope # Failure
    BY NoOptionIsNone, OptionsAreAnswers DEF Parsed, Failure, RunInv, Typed
  <2> QED
    BY <2>6, <2>7 DEF RunInv, Heard
<1>2. /\ envelope.option \in Options(seen) /\ envelope.option \in Answers
      /\ envelope.usage \in Usages /\ envelope.usage \in Tokens
      /\ envelope # None /\ envelope.option # None
  BY <1>1, UsageAssumption, NoOptionIsNone DEF Parsed, Audits, Tokens
<1>3. /\ calls' = calls + 1 /\ seen' = seen /\ audits' = audits
      /\ \/ /\ WithinTokens(envelope.usage) /\ spent' = Projected(envelope.usage)
            /\ audit' = envelope /\ decision' = envelope.option /\ pc' = "audit"
         \/ /\ pc' = "done" /\ spent' = spent /\ audit' = audit /\ decision' = decision
  BY DEF Receive
<1>4. /\ audit = None /\ decision = None /\ Len(audits) \in Nat
      /\ calls \in Nat /\ calls < MaxModelCalls /\ calls = Len(audits)
      /\ spent = Totals(audits)[Len(audits)] /\ Len(audits) = Len(seen)
      /\ MaxModelCalls \in Nat
  BY UsageAssumption DEF RunInv, Typed, Paid, Paired
<1>5. Typed'
  BY <1>2, <1>3, <1>4, <1>1 DEF RunInv, Typed
<1>6. Paid'
  <2>1. CASE pc' = "done"
    BY <1>3, <1>4, <2>1 DEF RunInv, Paid
  <2>2. CASE pc' = "audit"
    <3>1. Projected(envelope.usage) = Plus(spent, envelope.usage)
      BY DEF Projected, Plus
    <3>2. spent' \in Tokens /\ spent'.input <= MaxInputTokens
          /\ spent'.output <= MaxOutputTokens
      BY <1>2, <1>3, <2>2 DEF WithinTokens, Projected, Tokens, RunInv, Paid
    <3> QED
      BY <1>3, <1>4, <2>2, <3>1, <3>2 DEF RunInv, Paid
  <2> QED
    BY <1>3, <2>1, <2>2
<1>7. Paired'
  BY <1>3, <1>4 DEF RunInv, Paired
<1> QED
  BY <1>5, <1>6, <1>7

LEMMA TakeAuditKeeps ==
    ASSUME RunInv, TakeAudit
    PROVE  Typed' /\ Paid' /\ Paired'
<1>1. /\ pc = "audit" /\ pc' = "act" /\ audit.option = decision /\ decision \in Options(seen)
      /\ audits' = Append(audits, audit) /\ audit' = None
      /\ seen' = seen /\ decision' = decision /\ calls' = calls /\ spent' = spent
  BY DEF TakeAudit
<1>2. PICK n : n = Len(audits) + 1
  OBVIOUS
<1>3. /\ audits \in Seq(Audits) /\ audit \in Audits /\ Witnessed(seen)
      /\ seen \in Seq(Observation)
  BY <1>1 DEF RunInv, Typed, Witnessed
<1>4. /\ n \in Nat /\ Len(audits') = n /\ audits' \in Seq(Audits) /\ Len(audits) = n - 1
      /\ DOMAIN audits = 1 .. n - 1 /\ DOMAIN audits' = 1 .. n
      /\ audits'[n] = audit /\ \A i \in 1 .. n - 1 : audits'[i] = audits[i]
  BY <1>1, <1>2, <1>3
<1>5. Len(seen) = n - 1 /\ DOMAIN seen = 1 .. n - 1
  BY <1>1, <1>3, <1>4 DEF RunInv, Paired
<1>6. Typed'
  BY <1>1, <1>4 DEF RunInv, Typed
<1>7. Paid'
  <2>1. Totals(audits')[Len(audits')] = spent
    BY <1>1, <1>2, <1>3, <1>4, TotalOfOneMore DEF RunInv, Paid
  <2>2. calls = n
    BY <1>1, <1>2 DEF RunInv, Paid
  <2> QED
    BY <1>1, <1>4, <2>1, <2>2 DEF RunInv, Paid
<1>8. Paired'
  <2>1. SubSeq(seen, 1, n - 1) = seen
    BY <1>3, <1>5, SubSeqFull
  <2>2. ASSUME NEW i \in DOMAIN audits'
        PROVE  audits'[i].option \in Options(SubSeq(seen, 1, i - 1))
    <3>1. CASE i = n
      BY <1>1, <1>4, <2>1, <3>1
    <3>2. CASE i # n
      BY <1>4, <3>2 DEF RunInv, Paired
    <3> QED
      BY <3>1, <3>2
  <2>3. \A i \in DOMAIN seen : audits'[i].option = seen[i].action
    BY <1>4, <1>5 DEF RunInv, Paired
  <2>4. Len(audits') = Len(seen') + 1 /\ audits'[Len(audits')].option = decision'
    BY <1>1, <1>4, <1>5
  <2> QED
    BY <1>1, <2>2, <2>3, <2>4 DEF Paired
<1> QED
  BY <1>6, <1>7, <1>8

LEMMA ExecuteDecisionKeeps ==
    ASSUME RunInv, ExecuteDecision
    PROVE  Typed' /\ Paid' /\ Paired'
<1>1. /\ pc = "act" /\ decision' = None /\ audits' = audits /\ calls' = calls
      /\ spent' = spent /\ audit' = audit
      /\ \/ pc' = "done" /\ seen' = seen
         \/ /\ decision \in Actions
            /\ \E v \in Values(decision) :
                 seen' = Append(seen, [action |-> decision, status |-> "succeeded",
                                       retryable |-> FALSE, error |-> None, value |-> v])
            /\ pc' = "plan"
  BY DEF ExecuteDecision, planner
<1>2. /\ audits \in Seq(Audits) /\ Witnessed(seen) /\ seen \in Seq(Observation)
      /\ Len(audits) = Len(seen) + 1 /\ audits[Len(audits)].option = decision
      /\ audit = None /\ Len(audits) \in Nat /\ Len(seen) \in Nat
      /\ calls = Len(audits) /\ calls \in Nat
  BY <1>1, UsageAssumption DEF RunInv, Typed, Witnessed, Paired, Paid
<1>3. Paid'
  BY <1>1, <1>2 DEF RunInv, Paid
<1>4. CASE pc' = "done" /\ seen' = seen
  <2>1. Typed'
    BY <1>1, <1>4 DEF RunInv, Typed
  <2>2. Paired'
    BY <1>1, <1>2, <1>4 DEF RunInv, Paired
  <2> QED
    BY <1>3, <2>1, <2>2
<1>5. CASE decision \in Actions /\ pc' = "plan"
           /\ \E v \in Values(decision) :
                seen' = Append(seen, [action |-> decision, status |-> "succeeded",
                                      retryable |-> FALSE, error |-> None, value |-> v])
  <2>1. PICK v \in Values(decision) :
          seen' = Append(seen, [action |-> decision, status |-> "succeeded",
                                retryable |-> FALSE, error |-> None, value |-> v])
    BY <1>5
  <2>2. PICK o : o = [action |-> decision, status |-> "succeeded",
                      retryable |-> FALSE, error |-> None, value |-> v]
    OBVIOUS
  <2>3. o \in Observation /\ o.action = decision /\ o.value \in Values(o.action)
    BY <1>5, <2>1, <2>2 DEF Observation, AllValues
  <2>4. PICK n : n = Len(audits)
    OBVIOUS
  <2>5. /\ n \in Nat /\ DOMAIN audits = 1 .. n /\ DOMAIN seen = 1 .. n - 1 /\ n # 0
        /\ seen' \in Seq(Observation) /\ DOMAIN seen' = 1 .. n /\ Len(seen') = n
        /\ seen'[n] = o /\ \A i \in 1 .. n - 1 : seen'[i] = seen[i]
    BY <1>2, <2>1, <2>2, <2>3, <2>4
  <2>6. Witnessed(seen')
    BY <1>2, <2>3, <2>5 DEF Witnessed
  <2>7. Typed'
    BY <1>1, <1>2, <1>5, <2>6 DEF RunInv, Typed
  <2>8. \A i \in DOMAIN seen' : audits[i].option = seen'[i].action
    <3>1. audits[n].option = seen'[n].action
      BY <1>2, <2>3, <2>4, <2>5
    <3>2. \A i \in 1 .. n - 1 : audits[i].option = seen'[i].action
      BY <2>5 DEF RunInv, Paired
    <3> QED
      BY <2>5, <3>1, <3>2
  <2>9. ASSUME NEW i \in DOMAIN audits
        PROVE  audits[i].option \in Options(SubSeq(seen', 1, i - 1))
    <3>1. SubSeq(seen', 1, i - 1) = SubSeq(seen, 1, i - 1)
      <4>1. i - 1 \in Int /\ \A j \in 1 .. i - 1 :
              /\ seen'[j] \in Observation /\ seen[j] \in Observation /\ seen'[j] = seen[j]
        BY <1>2, <2>5
      <4>2. PICK a, b : a = SubSeq(seen', 1, i - 1) /\ b = SubSeq(seen, 1, i - 1)
        OBVIOUS
      <4>3. /\ a \in Seq(Observation) /\ b \in Seq(Observation) /\ Len(a) = Len(b)
            /\ Len(a) = IF 1 <= i - 1 THEN (i - 1) - 1 + 1 ELSE 0
            /\ \A j \in 1 .. (i - 1) - 1 + 1 : a[j] = seen'[1 + j - 1] /\ b[j] = seen[1 + j - 1]
        BY <4>1, <4>2, SubSeqProperties
      <4>4. \A j \in 1 .. Len(a) : a[j] = b[j]
        BY <2>5, <4>1, <4>3
      <4> QED
        BY <4>2, <4>3, <4>4, SeqEqual
    <3> QED
      BY <3>1 DEF RunInv, Paired
  <2>10. Paired'
    BY <1>1, <1>5, <2>4, <2>5, <2>8, <2>9 DEF Paired
  <2> QED
    BY <1>3, <2>7, <2>10
<1> QED
  BY <1>1, <1>4, <1>5

-----------------------------------------------------------------------------
(* Whatever the worker does, what it has said is its envelope or noise.     *)

LEMMA SilenceKeeps == Heard /\ UNCHANGED <<process, got>> => Heard'
  BY DEF Heard, process

LEMMA StopKeepsHeard ==
    ASSUME Heard, StopWorker
    PROVE  Heard'
<1>1. CASE UNCHANGED <<process, got>>
  BY <1>1, SilenceKeeps
<1>2. CASE /\ termed' = TRUE
           /\ UNCHANGED <<worker, exitCode, stdin, envelope, out, closed, got>>
  <2>1. termed' \in BOOLEAN
    BY <1>2
  <2> QED
    BY <1>2, <2>1 DEF Heard
<1> QED
  BY <1>1, <1>2 DEF StopWorker, FailCall

LEMMA WorkerIsHeard ==
    ASSUME RunInv, Ask \/ Write \/ Close \/ Exit
    PROVE  Heard'
<1>1. Heard
  BY DEF RunInv
<1>2. CASE Ask
  <2>1. PICK r \in Responses(Options(seen)) : envelope' = WorkerEnvelope(r, Options(seen))
    BY <1>2 DEF Ask
  <2>2. r.usage \in Usages /\ Options(seen) \subseteq Answers
    BY OptionsAreAnswers DEF Responses, RunInv, Typed
  <2>3. envelope' \in {Failure} \cup Audits
    BY <2>1, <2>2 DEF WorkerEnvelope, Audits
  <2>4. envelope' # None
    BY <2>3, NoOptionIsNone
  <2> QED
    BY <1>1, <1>2, <2>3, <2>4 DEF Heard, Ask
<1>3. CASE Write
  <2>1. /\ UNCHANGED <<worker, exitCode, termed, stdin, envelope, closed, got>>
        /\ \/ /\ envelope # None /\ Len(out) < Len(Envelope)
              /\ out' = Append(out, Envelope[Len(out) + 1])
           \/ out' = Append(out, "noise")
    BY <1>3 DEF Write
  <2>2. out \in Seq(Chunks) /\ Len(out) \in Nat /\ got \in 0 .. Len(out)
    BY <1>1 DEF Heard
  <2>3. Len(Envelope) = 2 /\ Envelope[1] = "first" /\ Envelope[2] = "second"
    BY DEF Envelope
  <2>4. PICK c \in Chunks : out' = Append(out, c) /\ (c # "noise" => envelope # None)
    <3>1. CASE envelope # None /\ Len(out) < Len(Envelope)
               /\ out' = Append(out, Envelope[Len(out) + 1])
      <4>1. Len(out) = 0 \/ Len(out) = 1
        <5>1. Len(out) < 2
          BY <2>3, <3>1, Zenon
        <5>2. \A k \in Nat : k < 2 => k = 0 \/ k = 1
          OBVIOUS
        <5> QED
          BY <2>2, <5>1, <5>2
      <4>2. Envelope[Len(out) + 1] \in Chunks
        <5>1. CASE Len(out) = 0
          <6>1. Len(out) + 1 = 1
            BY <5>1
          <6>2. Envelope[Len(out) + 1] = "first"
            BY <2>3, <6>1, Zenon
          <6> QED
            BY <6>2 DEF Chunks
        <5>2. CASE Len(out) = 1
          <6>1. Len(out) + 1 = 2
            BY <5>2
          <6>2. Envelope[Len(out) + 1] = "second"
            BY <2>3, <6>1, Zenon
          <6> QED
            BY <6>2 DEF Chunks
        <5> QED
          BY <4>1, <5>1, <5>2
      <4> QED
        BY <3>1, <4>2
    <3>2. CASE out' = Append(out, "noise")
      BY <3>2 DEF Chunks
    <3> QED
      BY <2>1, <3>1, <3>2
  <2>5. /\ out' \in Seq(Chunks) /\ got \in 0 .. Len(out')
        /\ \A i \in DOMAIN out' : out'[i] # "noise" => envelope # None
    BY <1>1, <2>2, <2>4 DEF Heard
  <2> QED
    BY <1>1, <2>1, <2>5 DEF Heard
<1>4. CASE Close \/ Exit
  BY <1>1, <1>4 DEF Heard, Close, Exit
<1> QED
  BY <1>2, <1>3, <1>4

LEMMA HostHears ==
    ASSUME RunInv, Host
    PROVE  Heard'
<1>1. Heard
  BY DEF RunInv
<1>2. CASE StartDecision \/ RefuseDecision \/ TakeAudit \/ ReadEnd \/ Conclude \/ Stopped
  <2>1. UNCHANGED <<process, got>>
    BY <1>2 DEF StartDecision, RefuseDecision, TakeAudit, ReadEnd, Conclude, Stopped,
                Receive, FailCall
  <2> QED
    BY <1>1, <2>1, SilenceKeeps
<1>3. CASE Spawn
  <2>1. CASE FailCall /\ UNCHANGED process
    BY <1>1, <2>1, SilenceKeeps DEF FailCall
  <2>2. CASE /\ worker' = "running" /\ exitCode' = 0 /\ termed' = FALSE
             /\ stdin' = FALSE /\ envelope' = None /\ out' = <<>> /\ closed' = FALSE
             /\ got' = 0
    <3>1. out' \in Seq(Chunks) /\ DOMAIN out' = {} /\ Len(out') = 0 /\ 0 \in 0 .. 0
      BY <2>2
    <3> QED
      BY <2>2, <3>1 DEF Heard
  <2> QED
    BY <1>3, <2>1, <2>2 DEF Spawn
<1>4. CASE Send
  BY <1>1, <1>4, StopKeepsHeard DEF Send, Heard
<1>5. CASE ReadChunk
  <2>1. CASE got' = got + 1 /\ got < Len(out) /\ UNCHANGED process
    BY <1>1, <2>1 DEF Heard, process
  <2> QED
    BY <1>1, <1>5, <2>1, StopKeepsHeard DEF ReadChunk
<1>6. CASE TimeOut
  BY <1>1, <1>6, StopKeepsHeard DEF TimeOut
<1>7. CASE Escalate
  BY <1>1, <1>7 DEF Heard, Escalate
<1> QED
  BY <1>2, <1>3, <1>4, <1>5, <1>6, <1>7 DEF Host

LEMMA HostDecides ==
    ASSUME RunInv, Host
    PROVE  Typed' /\ Paid' /\ Paired'
<1>0. /\ pc \in {"plan"} \cup Calling => calls \in Nat
      /\ pc \in Calling => calls < MaxModelCalls
  BY UsageAssumption DEF RunInv, Paid
<1>1. CASE StartDecision
  BY <1>1, CallingKeeps DEF StartDecision, MayCall
<1>2. CASE RefuseDecision
  BY <1>2, CallingKeeps DEF RefuseDecision
<1>3. CASE TakeAudit
  BY <1>3, TakeAuditKeeps
<1>4. CASE Conclude
  <2>1. CASE Parsed /\ Receive(envelope)
    BY <1>4, <2>1, ReceiveKeeps DEF Conclude
  <2>2. CASE FailCall
    BY <1>4, <2>2, CallingKeeps DEF Conclude, FailCall
  <2> QED
    BY <1>4, <2>1, <2>2 DEF Conclude
<1>5. CASE Spawn \/ Send \/ ReadChunk \/ ReadEnd \/ TimeOut \/ Escalate \/ Stopped
  <2>1. pc \in Calling /\ UNCHANGED <<run, planner>> /\ pc' \in Calling \cup {"done"}
    BY <1>5 DEF Spawn, Send, ReadChunk, ReadEnd, TimeOut, Escalate, Stopped, StopWorker,
                FailCall
  <2> QED
    BY <1>0, <2>1, CallingKeeps
<1> QED
  BY <1>1, <1>2, <1>3, <1>4, <1>5 DEF Host

LEMMA RunSteps == RunInv /\ [Next]_vars => RunInv'
<1> SUFFICES ASSUME RunInv, [Next]_vars PROVE RunInv'
  OBVIOUS
<1>1. CallInv'
  BY CallInvNext DEF RunInv
<1>2. CASE Host
  BY <1>1, <1>2, HostHears, HostDecides DEF RunInv
<1>3. CASE ExecuteDecision
  BY <1>1, <1>3, SilenceKeeps, ExecuteDecisionKeeps DEF RunInv, ExecuteDecision
<1>4. CASE Ask \/ Write \/ Close \/ Exit
  <2>1. UNCHANGED <<run, planner, pc>>
    BY <1>4 DEF Ask, Write, Close, Exit
  <2> QED
    BY <1>1, <1>4, <2>1, WorkerIsHeard, WaitingKeeps DEF RunInv
<1>5. CASE Tick \/ UNCHANGED vars
  <2>1. UNCHANGED <<run, planner, pc>> /\ UNCHANGED <<process, got>>
    BY <1>5 DEF Tick, vars
  <2> QED
    BY <1>1, <2>1, SilenceKeeps, WaitingKeeps DEF RunInv
<1> QED
  BY <1>2, <1>3, <1>4, <1>5 DEF Next

(* The host takes only what a worker said in full, counts every call, and   *)
(* pairs each observed action with the audit that selected it               *)
(* (LLMRetrievalPlanner.decide, AgentRuntime._take_planner_audit).          *)
THEOREM RunInvariant == Spec => []RunInv
  BY RunStarts, RunSteps, PTL DEF Spec

(* The variables of the planner, the provider and the worker keep their     *)
(* types; an audit waits exactly while its decision has not been taken.     *)
THEOREM PlannerTypes == Spec => []TypeOK
<1>1. RunInv => TypeOK
  <2> SUFFICES ASSUME RunInv PROVE TypeOK
    OBVIOUS
  <2>1. seen \in Seq(Observation)
    BY DEF RunInv, Typed, Witnessed
  <2>2. /\ now \in Nat /\ deadline \in Nat
        /\ pc \in {"plan", "spawn", "send", "read", "wait", "term", "kill", "audit",
                   "act", "done"}
    BY DEF RunInv, CallInv
  <2>3. /\ calls \in 0 .. MaxModelCalls
        /\ spent.input \in 0 .. MaxInputTokens /\ spent.output \in 0 .. MaxOutputTokens
    <3>1. /\ calls \in 0 .. MaxModelCalls
          /\ spent \in Tokens
          /\ spent.input <= MaxInputTokens /\ spent.output <= MaxOutputTokens
      BY DEF RunInv, Paid
    <3>2. spent.input \in Nat /\ spent.output \in Nat
      BY <3>1 DEF Tokens
    <3>3. MaxInputTokens \in Nat /\ MaxOutputTokens \in Nat
      BY DEF MaxInputTokens, MaxOutputTokens
    <3> QED
      BY <3>1, <3>2, <3>3
  <2>4. /\ audit # None <=> pc = "audit"
        /\ decision # None <=> pc \in {"audit", "act"}
    BY DEF RunInv, Typed
  <2>5. \/ envelope \in {None, Failure}
        \/ envelope.option \in Answers /\ envelope.usage \in Usages
    BY DEF RunInv, Heard, Audits
  <2>6. /\ worker \in {"none", "running", "killed", "exited"}
        /\ exitCode \in {0, 1} /\ termed \in BOOLEAN /\ stdin \in BOOLEAN
        /\ out \in Seq(Chunks) /\ closed \in BOOLEAN /\ got \in 0 .. Len(out)
    BY DEF RunInv, Heard
  <2> QED
    BY <2>1, <2>2, <2>3, <2>4, <2>5, <2>6 DEF TypeOK
<1> QED
  BY RunInvariant, <1>1, PTL

(* The summary of every run (_agent_run_summary, _llm_usage_summary) names  *)
(* for each action the audit that selected it, and stays in the budget.     *)
THEOREM SummariesTellTheRun == Spec => []AuditsCoverTheRun
<1>1. RunInv => AuditsCoverTheRun
  <2> SUFFICES ASSUME RunInv PROVE AuditsCoverTheRun
    OBVIOUS
  <2>1. Len(audits) \in Nat /\ Len(seen) \in Nat
    BY DEF RunInv, Typed, Witnessed
  <2>2. Len(audits) \in {Len(seen), Len(seen) + 1}
    BY DEF RunInv, Paired
  <2>3. Len(audits) <= MaxModelCalls
    BY <2>1, UsageAssumption DEF RunInv, Paid
  <2>4. /\ Totals(audits)[Len(audits)].input <= MaxInputTokens
        /\ Totals(audits)[Len(audits)].output <= MaxOutputTokens
    <3>1. CASE pc = "audit"
      <4>1. audit.usage \in Tokens
        BY <3>1, UsageAssumption DEF RunInv, Typed, Audits, Tokens
      <4> QED
        BY <3>1, <4>1 DEF RunInv, Paid, Plus, Tokens, MaxInputTokens, MaxOutputTokens
    <3>2. CASE pc # "audit"
      BY <3>2 DEF RunInv, Paid
    <3> QED
      BY <3>1, <3>2
  <2>5. /\ RunSummary.model_calls = Len(audits)
        /\ RunSummary.input_tokens = Totals(audits)[Len(audits)].input
        /\ RunSummary.output_tokens = Totals(audits)[Len(audits)].output
        /\ \A i \in DOMAIN seen : /\ RunSummary.actions[i].action = seen[i].action
                                  /\ RunSummary.actions[i].selected = audits[i].option
    BY DEF RunSummary
  <2>6. RunSummary.model_calls - Len(seen) \in {0, 1}
    BY <2>1, <2>2, <2>5
  <2>7. /\ \A i \in DOMAIN seen : audits[i].option = seen[i].action
        /\ \A i \in DOMAIN audits : audits[i].option \in Options(SubSeq(seen, 1, i - 1))
    BY DEF RunInv, Paired
  <2> QED
    BY <2>3, <2>4, <2>5, <2>6, <2>7 DEF AuditsCoverTheRun
<1> QED
  BY RunInvariant, <1>1, PTL
=============================================================================
