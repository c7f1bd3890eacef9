-------------------------- MODULE BadCaseSupervisor --------------------------
(***************************************************************************)
(* Supervised bad-case diagnostics: bad_cases/supervisor.py (the parent),   *)
(* bad_cases/worker.py and runner.py (the child) and the files both write   *)
(* below bad-case-diagnostics/.  The parent waits for its child, kills its  *)
(* process group at a deadline, and reports the run as completed only with  *)
(* a receipt of its own for a receipt of the child.                         *)
(*                                                                         *)
(* What races: the child publishes while the parent terminates it, a        *)
(* signalled child finishes the system call it is in, either process dies   *)
(* anywhere, a write reaches the disk and fails all the same, and the next  *)
(* run starts while the child of the last one is still there.               *)
(***************************************************************************)
CONSTANTS
    Executions,  \* execution IDs, one per call of supervise_bad_case_diagnostics
    Nobody       \* holder of a free lock

ASSUME SupervisorAssumption == Nobody \notin Executions

VARIABLES
    sup,       \* where the parent is
    reason,    \* why it stopped waiting
    unreaped,  \* the process group outlived SIGKILL and its grace period
    answer,    \* what the call returned or raised
    worker,    \* where the child is
    signal,    \* signals of the process group
    envelope,  \* the frame in the result pipe
    execution, attempt, receipt,  \* the files, by execution
    supLock, runLock                        \* .supervisor.lock, .run.lock

parent == <<sup, reason, unreaped, answer, supLock>>
child  == <<worker, envelope, runLock>>
files  == <<execution, attempt, receipt>>
supervisorVars == <<parent, child, signal, files>>

SupSteps == {"idle", "wait", "stop", "term", "kill", "settle", "report",
             "done", "gone"}
Reasons  == {"exit", "deadline", "interrupt", "oserror"}
(* "error" stands for every answer that leaves open what the child did.     *)
Answers  == {"none", "completed", "busy", "failed", "error"}
WorkerSteps == {"boot", "search", "publish", "sync",
                "release", "result", "attempt", "unlock", "fail", "busy", "exit"}
Attempts == {"none", "worker", "startup", "parent"}  \* who says that it failed

SupervisorTypeOK ==
    /\ sup \in [Executions -> SupSteps]
    /\ reason \in [Executions -> Reasons]
    /\ unreaped \in [Executions -> BOOLEAN]
    /\ answer \in [Executions -> Answers]
    /\ worker \in [Executions -> WorkerSteps \cup {"none", "exited", "killed"}]
    /\ signal \in [Executions -> {"none", "sent", "last"}]
    /\ envelope \in [Executions -> {"none", "completed", "failed", "in_progress"}]
    /\ execution \in [Executions -> BOOLEAN]
    /\ attempt \in [Executions -> Attempts]
    /\ receipt \in [Executions -> BOOLEAN]
    /\ supLock \in Executions \cup {Nobody}
    /\ runLock \in Executions \cup {Nobody}
    /\ runLock # Nobody => worker[runLock] \in
          {"search", "publish", "sync", "release", "attempt", "unlock"}

SupervisorInit ==
    /\ sup = [e \in Executions |-> "idle"]
    /\ reason = [e \in Executions |-> "exit"]
    /\ unreaped = [e \in Executions |-> FALSE]
    /\ answer = [e \in Executions |-> "none"]
    /\ worker = [e \in Executions |-> "none"]
    /\ signal = [e \in Executions |-> "none"]
    /\ envelope = [e \in Executions |-> "none"]
    /\ execution = [e \in Executions |-> FALSE]
    /\ attempt = [e \in Executions |-> "none"]
    /\ receipt = [e \in Executions |-> FALSE]
    /\ supLock = Nobody
    /\ runLock = Nobody
-----------------------------------------------------------------------------
(* The child.  It is a single process: it spawns nothing, so that its       *)
(* process group exists as long as it does.                                 *)

Alive(e) == worker[e] \in WorkerSteps

(* A signalled child only finishes the system call that it is in.           *)
Advance(e, from, to) ==
    /\ worker[e] = from
    /\ signal[e] # "last"
    /\ worker' = [worker EXCEPT ![e] = to]
    /\ signal' = IF signal[e] = "sent" THEN [signal EXCEPT ![e] = "last"]
                                       ELSE signal
    /\ UNCHANGED parent

(* Descriptors and request; a failure sends no frame.                       *)
BootFails(e) ==
    /\ Advance(e, "boot", "exit")
    /\ UNCHANGED <<envelope, runLock, files>>

(* bad_case_run_lock does not wait.                                         *)
TakeRunLock(e) ==
    /\ IF runLock = Nobody
       THEN Advance(e, "boot", "search") /\ runLock' = e
       ELSE Advance(e, "boot", "busy") /\ UNCHANGED runLock
    /\ UNCHANGED <<envelope, files>>

(* The searches, their validation and the evidence file; the capacity check, *)
(* which comes first, fails without a failed attempt.                       *)
Search(e) ==
    /\ \/ Advance(e, "search", "publish")
       \/ Advance(e, "search", "attempt")
       \/ Advance(e, "search", "unlock")
    /\ UNCHANGED <<envelope, runLock, files>>

(* write_immutable_json links the file, then syncs the directory.           *)
PublishExecution(e) ==
    /\ \/ /\ Advance(e, "publish", "sync")
          /\ execution' = [execution EXCEPT ![e] = TRUE]
       \/ Advance(e, "publish", "attempt") /\ UNCHANGED execution
    /\ UNCHANGED <<envelope, runLock, attempt, receipt>>

(* The latest pointer, which comes next, may fail without consequence.      *)
SyncExecution(e) ==
    /\ \/ Advance(e, "sync", "release")
       \/ Advance(e, "sync", "attempt")
    /\ UNCHANGED <<envelope, runLock, files>>

(* store_failed_attempt; when it fails, that is only logged.                *)
StoreFailedAttempt(e) ==
    /\ Advance(e, "attempt", "unlock")
    /\ \/ /\ attempt[e] = "none"
          /\ attempt' = [attempt EXCEPT ![e] = "worker"]
       \/ UNCHANGED attempt
    /\ UNCHANGED <<envelope, runLock, execution, receipt>>

ReleaseRunLock(e) ==
    /\ \/ Advance(e, "release", "result")
       \/ Advance(e, "unlock", "fail")
    /\ runLock' = Nobody
    /\ UNCHANGED <<envelope, files>>

(* The parent keeps its pipes open while it waits for the child.            *)
PipeClosed(e) == sup[e] \in {"settle", "report", "done", "gone"}

Send(e, frame) == ~ PipeClosed(e) /\ envelope' = [envelope EXCEPT ![e] = frame]

(* A frame that is too large or breaks off is none, and a failure envelope  *)
(* follows a completed one that could not be sent.                          *)
SendEnvelope(e) ==
    /\ \/ Advance(e, "result", "exit") /\ Send(e, "completed")
       \/ Advance(e, "result", "fail") /\ UNCHANGED envelope
       \/ Advance(e, "fail", "exit") /\ Send(e, "failed")
       \/ Advance(e, "fail", "exit") /\ UNCHANGED envelope
       \/ Advance(e, "busy", "exit") /\ Send(e, "in_progress")
       \/ PipeClosed(e) /\ Advance(e, "busy", "exit") /\ UNCHANGED envelope
    /\ UNCHANGED <<runLock, files>>

Exit(e) ==
    /\ Advance(e, "exit", "exited")
    /\ UNCHANGED <<envelope, runLock, files>>

Work(e) == \/ BootFails(e) \/ TakeRunLock(e) \/ Search(e)
           \/ PublishExecution(e) \/ SyncExecution(e) \/ StoreFailedAttempt(e)
           \/ ReleaseRunLock(e) \/ SendEnvelope(e) \/ Exit(e)

(* Deviation: the lock is a file that stays.                                *)
PerishKeepingLock(e) ==
    /\ Alive(e)
    /\ worker' = [worker EXCEPT ![e] = "killed"]
    /\ signal' = [signal EXCEPT ![e] = "none"]
    /\ UNCHANGED <<runLock, parent, envelope, files>>

(* The child is gone, and the system releases its lock.                     *)
Perish(e) ==
    /\ Alive(e)
    /\ worker' = [worker EXCEPT ![e] = "killed"]
    /\ signal' = [signal EXCEPT ![e] = "none"]
    /\ runLock' = IF runLock = e THEN Nobody ELSE runLock
    /\ UNCHANGED <<parent, envelope, files>>

Die(e) == signal[e] # "none" /\ Perish(e)

(* A native crash, or a signal of somebody else.                            *)
WorkerCrash(e) == Perish(e)

(* Deviation: the watchdog looks at the pipe once, before the work begins.  *)
WatchdogOnce(e) ==
    /\ PipeClosed(e)
    /\ worker[e] = "boot"
    /\ signal[e] = "none"
    /\ signal' = [signal EXCEPT ![e] = "sent"]
    /\ UNCHANGED <<parent, child, files>>

(* The watchdog thread, which the boot starts, kills the process group when *)
(* the pipe to the parent closes.                                           *)
Watchdog(e) ==
    /\ PipeClosed(e)
    /\ Alive(e)
    /\ signal[e] = "none"
    /\ signal' = [signal EXCEPT ![e] = "sent"]
    /\ UNCHANGED <<parent, child, files>>
-----------------------------------------------------------------------------
(* The parent.                                                             *)

SupGoto(e, step) == sup' = [sup EXCEPT ![e] = step]

(* The call ends, and with it its lock and what it has seen and received.   *)
Leave(e, step) ==
    /\ SupGoto(e, step)
    /\ reason' = [reason EXCEPT ![e] = "exit"]
    /\ unreaped' = [unreaped EXCEPT ![e] = FALSE]
    /\ envelope' = [envelope EXCEPT ![e] = "none"]
    /\ supLock' = IF supLock = e THEN Nobody ELSE supLock

Answer(e, a) == Leave(e, "done") /\ answer' = [answer EXCEPT ![e] = a]

Terminal(e) == execution[e] \/ attempt[e] # "none"

WriteAttempt(e, kind) == attempt' = [attempt EXCEPT ![e] = kind]

(* _store_supervisor_attempt_if_no_terminal: the store may be full, and the *)
(* write may fail before or after the file is there.                        *)
EndWithAttempt(e, a) ==
    \/ ~ Terminal(e) /\ WriteAttempt(e, "parent") /\ Answer(e, a)
    \/ UNCHANGED attempt /\ Answer(e, a)
    \/ /\ ~ Terminal(e)
       /\ \E k \in {"none", "parent"} : WriteAttempt(e, k)
       /\ Answer(e, "error")

(* _store_supervisor_attempt, for a child that "could not start".           *)
EndNotStarted(e) ==
    /\ UNCHANGED attempt \/ (~ Terminal(e) /\ WriteAttempt(e, "startup"))
    /\ Answer(e, "error")

(* bad_case_supervisor_lock does not wait either.                           *)
Dispatch(e) ==
    /\ sup[e] = "idle"
    /\ supLock = Nobody
    /\ supLock' = e
    /\ SupGoto(e, "wait")
    /\ worker' = [worker EXCEPT ![e] = "boot"]
    /\ UNCHANGED <<reason, unreaped, answer, signal, envelope, runLock, files>>

Refuse(e) ==
    /\ sup[e] = "idle"
    /\ \/ supLock # Nobody /\ Answer(e, "busy") /\ UNCHANGED attempt
       \/ supLock = Nobody /\ EndNotStarted(e)
    /\ UNCHANGED <<worker, runLock, signal, execution, receipt>>

Stop(e, why) == /\ SupGoto(e, "stop")
                /\ reason' = [reason EXCEPT ![e] = why]
                /\ UNCHANGED <<unreaped, answer, supLock, child, signal, files>>

(* The loop looks at the child first, and then at the clock.                *)
SeeExit(e) ==
    /\ sup[e] = "wait"
    /\ ~ Alive(e)
    /\ SupGoto(e, "settle")
    /\ UNCHANGED <<reason, unreaped, answer, supLock, child, signal, files>>

(* Deviations: the parent waits for a frame before it looks at the clock;   *)
(* it gives up without terminating the child.                               *)
TimeoutAfterFrame(e) ==
    /\ sup[e] = "wait" /\ Alive(e)
    /\ envelope[e] # "none"
    /\ Stop(e, "deadline")
TimeoutWithoutKill(e) ==
    /\ sup[e] = "wait" /\ Alive(e)
    /\ SupGoto(e, "settle")
    /\ reason' = [reason EXCEPT ![e] = "deadline"]
    /\ UNCHANGED <<unreaped, answer, supLock, child, signal, files>>

Timeout(e) == sup[e] = "wait" /\ Alive(e) /\ Stop(e, "deadline")

(* Waiting for the child or reading its pipe raises.                        *)
WaitFails(e) == sup[e] = "wait" /\ Stop(e, "oserror")

(* An interrupt while the handler of another exception terminates the child *)
(* ends the call like a crash.                                              *)
Interrupt(e) ==
    /\ sup[e] \in {"wait", "stop", "term", "kill"}
    /\ reason[e] \in {"exit", "deadline"}
    /\ Stop(e, "interrupt")
-----------------------------------------------------------------------------
(* _terminate_process_group.                                               *)

Signal(e) == signal' = IF signal[e] = "none" THEN [signal EXCEPT ![e] = "sent"]
                                             ELSE signal

(* Deviation: the signal is sent and nobody waits for its effect.           *)
TermAndSettle(e) ==
    /\ sup[e] = "stop"
    /\ SupGoto(e, "settle")
    /\ IF Alive(e) THEN Signal(e) ELSE UNCHANGED signal
    /\ UNCHANGED <<reason, unreaped, answer, supLock, child, files>>

Term(e) ==
    /\ sup[e] = "stop"
    /\ IF Alive(e) THEN SupGoto(e, "term") /\ Signal(e)
                   ELSE SupGoto(e, "settle") /\ UNCHANGED signal
    /\ UNCHANGED <<reason, unreaped, answer, supLock, child, files>>

TermGraceEnds(e) ==
    /\ sup[e] = "term"
    /\ SupGoto(e, IF Alive(e) THEN "kill" ELSE "settle")
    /\ UNCHANGED <<reason, unreaped, answer, supLock, child, signal, files>>

KillGraceEnds(e) ==
    /\ sup[e] = "kill"
    /\ SupGoto(e, "settle")
    /\ unreaped' = [unreaped EXCEPT ![e] = Alive(e)]
    /\ UNCHANGED <<reason, answer, supLock, child, signal, files>>
-----------------------------------------------------------------------------
(* What the parent makes of it: supervise_bad_case_diagnostics after        *)
(* _execute_worker_process.                                                 *)

Settling(e, whys) == sup[e] = "settle" /\ reason[e] \in whys

Settled == UNCHANGED <<worker, runLock, signal, execution>>

(* The child sent a frame, and its exit status agrees with it.              *)
Credible(e) == \/ envelope[e] = "completed" /\ worker[e] = "exited"
               \/ envelope[e] \in {"failed", "in_progress"}

NotStarted(e) ==
    /\ Settling(e, {"oserror"})
    /\ EndNotStarted(e)
    /\ UNCHANGED receipt /\ Settled

Cancelled(e) ==
    /\ Settling(e, {"interrupt"})
    /\ EndWithAttempt(e, "error")
    /\ UNCHANGED receipt /\ Settled

(* _recover_completed_run comes first.                                      *)
Conflict(e) ==
    /\ Settling(e, {"exit", "deadline"})
    /\ execution[e] /\ attempt[e] # "none"
    /\ Answer(e, "error")
    /\ UNCHANGED <<attempt, receipt>> /\ Settled

Unreaped(e) ==
    /\ Settling(e, {"exit", "deadline"})
    /\ ~ (execution[e] /\ attempt[e] # "none")
    /\ unreaped[e]
    /\ EndWithAttempt(e, "error")
    /\ UNCHANGED receipt /\ Settled

(* The child completed, whatever else it says: _complete_supervision, which *)
(* may find the store full or fail in its write.                            *)
Completed(e) ==
    /\ Settling(e, {"exit", "deadline"})
    /\ execution[e] /\ attempt[e] = "none"
    /\ ~ unreaped[e]
    /\ \/ /\ receipt' = [receipt EXCEPT ![e] = TRUE]
          /\ Leave(e, "report")
          /\ UNCHANGED answer
       \/ /\ \E stored \in BOOLEAN : receipt' = [receipt EXCEPT ![e] = stored]
          /\ Answer(e, "error")
    /\ UNCHANGED attempt /\ Settled

(* The deadline, no valid frame, or a failure.                              *)
Fail(e) ==
    /\ Settling(e, {"exit", "deadline"})
    /\ ~ execution[e]
    /\ ~ unreaped[e]
    /\ \/ reason[e] = "deadline"
       \/ ~ Credible(e)
       \/ envelope[e] = "failed"
    /\ EndWithAttempt(e, "failed")
    /\ UNCHANGED receipt /\ Settled

(* The child found the run lock taken.                                      *)
InProgress(e) ==
    /\ Settling(e, {"exit"})
    /\ ~ execution[e]
    /\ ~ unreaped[e]
    /\ envelope[e] = "in_progress"
    /\ Answer(e, "busy")
    /\ UNCHANGED <<attempt, receipt>> /\ Settled

Settle(e) == \/ NotStarted(e) \/ Cancelled(e) \/ Conflict(e) \/ Unreaped(e)
             \/ Completed(e) \/ Fail(e) \/ InProgress(e)

(* The route and the command load the receipt before they report the run.   *)
Report(e) ==
    /\ sup[e] = "report"
    /\ Answer(e, IF execution[e] /\ attempt[e] = "none" /\ receipt[e]
                 THEN "completed" ELSE "error")
    /\ UNCHANGED <<worker, runLock, signal, files>>

(* The process of the parent stops; the system closes its descriptors.      *)
Crash(e) ==
    /\ sup[e] \in {"wait", "stop", "term", "kill", "settle", "report"}
    /\ Leave(e, "gone")
    /\ UNCHANGED <<answer, worker, runLock, signal, files>>

ParentStep(e) == \/ SeeExit(e) \/ Timeout(e) \/ Term(e)
                 \/ TermGraceEnds(e) \/ KillGraceEnds(e) \/ Settle(e) \/ Report(e)

SupervisorNext ==
    \E e \in Executions :
        \/ Dispatch(e) \/ Refuse(e) \/ ParentStep(e)
        \/ WaitFails(e) \/ Interrupt(e) \/ Crash(e)
        \/ Work(e) \/ Die(e) \/ WorkerCrash(e) \/ Watchdog(e)

SupervisorSpec == SupervisorInit /\ [][SupervisorNext]_supervisorVars

(* The clock and the parent go on, closing the pipe wakes the watchdog, and *)
(* the system delivers SIGKILL in the end.  The child owes nothing.         *)
Fairness ==
    \A e \in Executions : /\ WF_supervisorVars(ParentStep(e))
                          /\ WF_supervisorVars(Watchdog(e))
                          /\ WF_supervisorVars(Die(e))

FairSpec == SupervisorSpec /\ Fairness
-----------------------------------------------------------------------------
(* What must hold.                                                         *)

(* "only that receipt can prove ...": a receipt of the parent stands beside *)
(* a receipt of the child, beside no failed attempt, and                    *)
(* beside no process that could still change that; a run is reported as     *)
(* completed only with such a receipt.                                      *)
ReceiptIsProof ==
    \A e \in Executions :
        /\ receipt[e] => /\ execution[e]
                         /\ attempt[e] = "none"
                         /\ ~ Alive(e)
        /\ answer[e] = "completed" => receipt[e]

(* A run that ended at its deadline, with a broken protocol, as failed or   *)
(* as busy is over: no receipt of its child appears behind the answer.      *)
FailureIsFinal ==
    \A e \in Executions :
        answer[e] \in {"failed", "busy"} => ~ execution[e] /\ ~ Alive(e)

(* "reaps the child before returning a terminal outcome": every call ends,  *)
(* whatever the child does.  "Parent disappearance is a cancellation        *)
(* boundary": a child whose parent is gone does not keep the run lock.      *)
EveryRunAnswered ==
    \A e \in Executions :
        /\ (sup[e] = "wait") ~> (sup[e] \in {"done", "gone"})
        /\ (sup[e] = "gone" /\ runLock = e) ~> (runLock # e)
=============================================================================
