----------------------- MODULE RetrievalReleaseProofs -----------------------
(***************************************************************************)
(* Proofs about RetrievalRelease, for any sets of proposals, client        *)
(* actions and request threads.  ReleaseInv is inductive: one lemma per    *)
(* action shows that the action preserves it, and a step that leaves the   *)
(* files and the pointer alone (QuietStep) can disturb only what relates a *)
(* thread to the lock and to its job.  The safety properties and the two   *)
(* action properties that the runs check follow from it.  StackInv adds    *)
(* that every release stands on a stack that ends at the baseline; with it *)
(* the control plane implements RevisionStack.                             *)
(***************************************************************************)
EXTENDS ReleaseRefinement, FiniteSetTheorems, WellFoundedInduction, TLAPS

(* The groups of variables are abbreviations only.                         *)
USE DEF storeVars, proposalVars, decisionVars, outcomeVars, rollbackVars

(* A step that changes no control-plane file and not the serving pointer   *)
(* leaves everything that ReleaseInv says of the files true.               *)
LEMMA QuietStep ==
    ASSUME ReleaseInv, UNCHANGED <<storeVars, pointer>>
    PROVE  /\ PublicationsResolve' /\ OneRecordPerProposal'
           /\ RecordsConsistent' /\ AnchorsResolve'
BY DEF ReleaseInv, PublicationsResolve, OneRecordPerProposal, RecordsConsistent,
       AnchorsResolve, Approved

(* A request whose decision conflicts or is stale leaves every file alone  *)
(* and only gives up its job.                                              *)
LEMMA RefuseDecisionInv ==
    ASSUME ReleaseInv, NEW h \in Handlers, RefuseDecision(h) PROVE ReleaseInv'
<1>1. TypeOK'
  BY DEF ReleaseInv, TypeOK, RefuseDecision, Return, Phases, Waiting, Locked,
     Serving
<1>2. LockMatchesPhase'
  BY NamesAssumption DEF ReleaseInv, TypeOK, LockMatchesPhase, RefuseDecision,
     Return, Phases, Waiting, Locked, Serving
<1>3. JobMatchesPhase'
  BY NamesAssumption DEF ReleaseInv, TypeOK, JobMatchesPhase, LockMatchesPhase,
     DecisionPhases, ApprovedPhases, RollbackPhases, Approved, RecordedActive,
     Locked, RefuseDecision, Return
<1> QED
  BY <1>1, <1>2, <1>3, QuietStep DEF ReleaseInv, RefuseDecision

(* Taking the control-plane lock for an approval: the holder enters a      *)
(* locked section, and no file moves.                                      *)
LEMMA StartApprovalInv ==
    ASSUME ReleaseInv, NEW h \in Handlers, StartApproval(h) PROVE ReleaseInv'
<1>1. TypeOK'
  BY DEF ReleaseInv, TypeOK, StartApproval, Acquire, Goto, Phases, Waiting,
     Locked, Serving
<1>2. LockMatchesPhase'
  BY NamesAssumption DEF ReleaseInv, TypeOK, LockMatchesPhase, StartApproval,
     Acquire, Goto, Phases, Waiting, Locked, Serving
<1>3. JobMatchesPhase'
  BY NamesAssumption DEF ReleaseInv, TypeOK, JobMatchesPhase, LockMatchesPhase,
     DecisionPhases, ApprovedPhases, RollbackPhases, Approved, RecordedActive,
     Locked, StartApproval, Acquire, Goto
<1> QED
  BY <1>1, <1>2, <1>3, QuietStep DEF ReleaseInv, StartApproval

(* Taking the lock for a rejection or for a publication that stopped half  *)
(* way.                                                                    *)
LEMMA StartPublicationInv ==
    ASSUME ReleaseInv, NEW h \in Handlers, StartPublication(h) PROVE ReleaseInv'
<1>1. TypeOK'
  BY DEF ReleaseInv, TypeOK, StartPublication, Acquire, Goto, Phases, Waiting,
     Locked, Serving
<1>2. LockMatchesPhase'
  BY NamesAssumption DEF ReleaseInv, TypeOK, LockMatchesPhase, StartPublication,
     Acquire, Goto, Phases, Waiting, Locked, Serving
<1>3. JobMatchesPhase'
  BY NamesAssumption DEF ReleaseInv, TypeOK, JobMatchesPhase, LockMatchesPhase,
     DecisionPhases, ApprovedPhases, RollbackPhases, Approved, RecordedActive,
     Locked, StartPublication, Acquire, Goto
<1> QED
  BY <1>1, <1>2, <1>3, QuietStep DEF ReleaseInv, StartPublication

(* The evidence check either goes on under the lock or fails and gives it  *)
(* back: holder and phase change together.                                 *)
LEMMA RevalidateEvidenceInv ==
    ASSUME ReleaseInv, NEW h \in Handlers, RevalidateEvidence(h) PROVE ReleaseInv'
<1>1. TypeOK'
  BY DEF ReleaseInv, TypeOK, RevalidateEvidence, Holding, Release, Return, Goto,
     Phases, Waiting, Locked, Serving
<1>2. LockMatchesPhase'
  BY NamesAssumption DEF ReleaseInv, TypeOK, LockMatchesPhase,
     RevalidateEvidence, Holding, Release, Return, Goto, Phases, Waiting,
     Locked, Serving
<1>3. JobMatchesPhase'
  BY NamesAssumption DEF ReleaseInv, TypeOK, JobMatchesPhase, LockMatchesPhase,
     DecisionPhases, ApprovedPhases, RollbackPhases, Approved, RecordedActive,
     Locked, RevalidateEvidence, Holding, Release, Return, Goto
<1> QED
  BY <1>1, <1>2, <1>3, QuietStep DEF ReleaseInv, RevalidateEvidence

(* A request that is past an approval may build an outcome of its proposal.*)
LEMMA WithOutcomeTypes ==
    ASSUME ReleaseInv, NEW h \in Handlers, NEW l \in OutcomeLifecycles,
           pc[h] \in ApprovedPhases, WithOutcome(h, l)
    PROVE  /\ pc' \in [Handlers -> Phases]
           /\ job' \in [Handlers -> Job \cup {Absent}]
<1>1. job[h] \in Job
  BY DEF ReleaseInv, JobMatchesPhase, ApprovedPhases
<1>2. PICK r \in Receipts :
        /\ pc' = [pc EXCEPT ![h] = "recordOutcome"]
        /\ job' = [job EXCEPT ![h].outcome =
                      [proposal |-> job[h].proposal, lifecycle |-> l,
                       receipt |-> r]]
  BY DEF WithOutcome
<1>3. [proposal |-> job[h].proposal, lifecycle |-> l, receipt |-> r] \in Outcome
  BY <1>1 DEF Job, Outcome
<1>4. [job[h] EXCEPT !.outcome = [proposal |-> job[h].proposal, lifecycle |-> l,
                                  receipt |-> r]] \in Job
  BY <1>1, <1>3 DEF Job
<1>5. job' \in [Handlers -> Job \cup {Absent}]
  BY <1>2, <1>4 DEF ReleaseInv, TypeOK
<1>6. pc' \in [Handlers -> Phases]
  BY <1>2 DEF ReleaseInv, TypeOK, Phases, Waiting
<1> QED
  BY <1>5, <1>6

(* Loading the activation envelope: whatever branch is taken, the request  *)
(* goes on for an approved proposal and an outcome it builds is one of that*)
(* proposal.                                                               *)
LEMMA LoadActivationEnvelopeInv ==
    ASSUME ReleaseInv, NEW h \in Handlers, LoadActivationEnvelope(h) PROVE ReleaseInv'
<1>1. TypeOK'
  BY DEF ReleaseInv, TypeOK, LoadActivationEnvelope, Goto, FailValidation,
     WithOutcome, JobMatchesPhase, ApprovedPhases, Job, Outcome,
     OutcomeLifecycles, Phases, Waiting, Locked, Serving
<1>2. LockMatchesPhase'
  BY NamesAssumption DEF ReleaseInv, TypeOK, LockMatchesPhase,
     LoadActivationEnvelope, Goto, FailValidation, WithOutcome, Phases, Waiting,
     Locked, Serving
<1>3. JobMatchesPhase'
  BY NamesAssumption DEF ReleaseInv, TypeOK, JobMatchesPhase, LockMatchesPhase,
     DecisionPhases, ApprovedPhases, RollbackPhases, Approved, RecordedActive,
     Locked, LoadActivationEnvelope, Goto, FailValidation, WithOutcome, Job,
     Outcome, OutcomeLifecycles
<1> QED
  BY <1>1, <1>2, <1>3, QuietStep DEF ReleaseInv, LoadActivationEnvelope

(* Comparing the parent with the pointer moves the request only.           *)
LEMMA CheckParentInv ==
    ASSUME ReleaseInv, NEW h \in Handlers, CheckParent(h) PROVE ReleaseInv'
<1>1. TypeOK'
  <2>1. CASE WithOutcome(h, "validation_failed")
    <3>1. /\ pc' \in [Handlers -> Phases]
          /\ job' \in [Handlers -> Job \cup {Absent}]
      BY <2>1, WithOutcomeTypes DEF CheckParent, ApprovedPhases, OutcomeLifecycles
    <3> QED
      BY <3>1 DEF ReleaseInv, TypeOK, CheckParent, storeVars
  <2>2. CASE Goto(h, "sentinel")
    <3>1. /\ pc' \in [Handlers -> Phases]
          /\ job' \in [Handlers -> Job \cup {Absent}]
      BY <2>2 DEF ReleaseInv, TypeOK, Goto, Phases, Waiting, Locked, Serving
    <3> QED
      BY <3>1 DEF ReleaseInv, TypeOK, CheckParent, storeVars
  <2> QED
    BY <2>1, <2>2 DEF CheckParent, FailValidation
<1>2. LockMatchesPhase'
  BY NamesAssumption DEF ReleaseInv, TypeOK, LockMatchesPhase, CheckParent,
     Goto, FailValidation, WithOutcome, Phases, Waiting, Locked, Serving
<1>3. JobMatchesPhase'
  BY NamesAssumption DEF ReleaseInv, TypeOK, JobMatchesPhase, LockMatchesPhase,
     DecisionPhases, ApprovedPhases, RollbackPhases, Approved, RecordedActive,
     Locked, CheckParent, Goto, FailValidation, WithOutcome, Job, Outcome,
     OutcomeLifecycles
<1> QED
  BY <1>1, <1>2, <1>3, QuietStep DEF ReleaseInv, CheckParent

(* The section that stores an outcome starts only when no outcome is stored*)
(* and no other outcome was announced.                                     *)
LEMMA StartOutcomeInv ==
    ASSUME ReleaseInv, NEW h \in Handlers, StartOutcome(h) PROVE ReleaseInv'
<1>1. TypeOK'
  BY DEF ReleaseInv, TypeOK, StartOutcome, Acquire, Goto, Phases, Waiting,
     Locked, Serving
<1>2. LockMatchesPhase'
  BY NamesAssumption DEF ReleaseInv, TypeOK, LockMatchesPhase, StartOutcome,
     Acquire, Goto, Phases, Waiting, Locked, Serving
<1>3. JobMatchesPhase'
  BY NamesAssumption DEF ReleaseInv, TypeOK, JobMatchesPhase, LockMatchesPhase,
     DecisionPhases, ApprovedPhases, RollbackPhases, Approved, RecordedActive,
     Locked, StartOutcome, Acquire, Goto, OutcomeAcceptable
<1> QED
  BY <1>1, <1>2, <1>3, QuietStep DEF ReleaseInv, StartOutcome

(* An outcome that is replayed or refused leaves every file alone.         *)
LEMMA SettleOutcomeInv ==
    ASSUME ReleaseInv, NEW h \in Handlers, SettleOutcome(h) PROVE ReleaseInv'
<1>1. TypeOK'
  BY DEF ReleaseInv, TypeOK, SettleOutcome, Return, Phases, Waiting, Locked,
     Serving
<1>2. LockMatchesPhase'
  BY NamesAssumption DEF ReleaseInv, TypeOK, LockMatchesPhase, SettleOutcome,
     Return, Phases, Waiting, Locked, Serving
<1>3. JobMatchesPhase'
  BY NamesAssumption DEF ReleaseInv, TypeOK, JobMatchesPhase, LockMatchesPhase,
     DecisionPhases, ApprovedPhases, RollbackPhases, Approved, RecordedActive,
     Locked, SettleOutcome, Return
<1> QED
  BY <1>1, <1>2, <1>3, QuietStep DEF ReleaseInv, SettleOutcome

(* A rollback goes on only for a release whose outcome is recorded as      *)
(* active.                                                                 *)
LEMMA LoadActiveReleaseInv ==
    ASSUME ReleaseInv, NEW h \in Handlers, LoadActiveRelease(h) PROVE ReleaseInv'
<1>1. TypeOK'
  BY DEF ReleaseInv, TypeOK, LoadActiveRelease, Goto, Return, Phases, Waiting,
     Locked, Serving
<1>2. LockMatchesPhase'
  BY NamesAssumption DEF ReleaseInv, TypeOK, LockMatchesPhase,
     LoadActiveRelease, Goto, Return, Phases, Waiting, Locked, Serving
<1>3. JobMatchesPhase'
  BY NamesAssumption DEF ReleaseInv, TypeOK, JobMatchesPhase, LockMatchesPhase,
     DecisionPhases, ApprovedPhases, RollbackPhases, Approved, RecordedActive,
     Locked, LoadActiveRelease, Goto, Return, ReleaseLifecycle
<1> QED
  BY <1>1, <1>2, <1>3, QuietStep DEF ReleaseInv, LoadActiveRelease

(* Taking the lock to record a rollback.                                   *)
LEMMA StartRollbackInv ==
    ASSUME ReleaseInv, NEW h \in Handlers, StartRollback(h) PROVE ReleaseInv'
<1>1. TypeOK'
  BY DEF ReleaseInv, TypeOK, StartRollback, Acquire, Goto, Phases, Waiting,
     Locked, Serving
<1>2. LockMatchesPhase'
  BY NamesAssumption DEF ReleaseInv, TypeOK, LockMatchesPhase, StartRollback,
     Acquire, Goto, Phases, Waiting, Locked, Serving
<1>3. JobMatchesPhase'
  BY NamesAssumption DEF ReleaseInv, TypeOK, JobMatchesPhase, LockMatchesPhase,
     DecisionPhases, ApprovedPhases, RollbackPhases, Approved, RecordedActive,
     Locked, StartRollback, Acquire, Goto
<1> QED
  BY <1>1, <1>2, <1>3, QuietStep DEF ReleaseInv, StartRollback

(* A rollback record that is replayed or refused leaves every file alone.  *)
LEMMA SettleRollbackInv ==
    ASSUME ReleaseInv, NEW h \in Handlers, SettleRollback(h) PROVE ReleaseInv'
<1>1. TypeOK'
  BY DEF ReleaseInv, TypeOK, SettleRollback, Return, Phases, Waiting, Locked,
     Serving
<1>2. LockMatchesPhase'
  BY NamesAssumption DEF ReleaseInv, TypeOK, LockMatchesPhase, SettleRollback,
     Return, Phases, Waiting, Locked, Serving
<1>3. JobMatchesPhase'
  BY NamesAssumption DEF ReleaseInv, TypeOK, JobMatchesPhase, LockMatchesPhase,
     DecisionPhases, ApprovedPhases, RollbackPhases, Approved, RecordedActive,
     Locked, SettleRollback, Return
<1> QED
  BY <1>1, <1>2, <1>3, QuietStep DEF ReleaseInv, SettleRollback

(* A request that gives up while it waits holds no lock and changes no     *)
(* file.                                                                   *)
LEMMA HandlerErrorInv ==
    ASSUME ReleaseInv, NEW h \in Handlers, HandlerError(h) PROVE ReleaseInv'
<1>1. TypeOK'
  BY DEF ReleaseInv, TypeOK, HandlerError, Return, Phases, Waiting, Locked,
     Serving
<1>2. LockMatchesPhase'
  BY NamesAssumption DEF ReleaseInv, TypeOK, LockMatchesPhase, HandlerError,
     Return, Phases, Waiting, Locked, Serving
<1>3. JobMatchesPhase'
  BY NamesAssumption DEF ReleaseInv, TypeOK, JobMatchesPhase, LockMatchesPhase,
     DecisionPhases, ApprovedPhases, RollbackPhases, Approved, RecordedActive,
     Locked, HandlerError, Return
<1> QED
  BY <1>1, <1>2, <1>3, QuietStep DEF ReleaseInv, HandlerError

(* An identical retry finds its decision recorded under the proposal and   *)
(* under the client action; when it is an approval the request goes on for *)
(* an approved proposal.                                                   *)
LEMMA ReplayDecisionInv ==
    ASSUME ReleaseInv, NEW h \in Handlers, ReplayDecision(h) PROVE ReleaseInv'
<1> DEFINE c == job[h].decision
<1>1. c \in Decision /\ c.proposal = job[h].proposal
  BY DEF ReleaseInv, JobMatchesPhase, DecisionPhases, ReplayDecision
<1>2. decisionIndex[c.proposal] = c
  BY DEF ReplayDecision, Existing
<1>3. c.verdict # "reject" => Approved(job[h].proposal)
  BY <1>1, <1>2, NamesAssumption DEF Approved, Decision, Verdicts
<1>4. TypeOK'
  BY DEF ReleaseInv, TypeOK, ReplayDecision, AfterDecision, Return, Goto,
     Phases, Waiting
<1>5. LockMatchesPhase'
  BY DEF ReleaseInv, TypeOK, LockMatchesPhase, ReplayDecision, AfterDecision,
     Return, Goto, Locked
<1>6. JobMatchesPhase'
  BY <1>3 DEF ReleaseInv, TypeOK, JobMatchesPhase, DecisionPhases,
     ApprovedPhases, RollbackPhases, Approved, RecordedActive, ReplayDecision,
     AfterDecision, Return, Goto
<1> QED BY <1>4, <1>5, <1>6, QuietStep DEF ReleaseInv, ReplayDecision

(* Writing any prefix of the four decision files.  The intent decides: a   *)
(* decision already indexed is the announced one, so writing it again      *)
(* changes nothing, and the index is never ahead of the record.            *)
LEMMA PublishDecisionInv ==
    ASSUME ReleaseInv, NEW h \in Handlers, PublishDecision(h) PROVE ReleaseInv'
<1> DEFINE c == job[h].decision
           p == c.proposal
<1>1. /\ c \in Decision /\ p = job[h].proposal /\ p \in Proposals
      /\ c.action \in Actions
  BY DEF ReleaseInv, JobMatchesPhase, DecisionPhases, PublishDecision, Decision
<1>2. PICK n \in 0 .. 4 :
        /\ n = 0 \/ decisionIntent[p] \in {Absent, c}
        /\ WriteDecision(c, n)
        /\ IF n = 4 THEN AfterDecision(h, c) ELSE Return(h)
  BY DEF PublishDecision
<1>3. \A q \in Proposals : decisionIndex[q] # Absent =>
        /\ decisionIndex[q] \in decisionRecords
        /\ decisionIndex[q].proposal = q
        /\ decisionIntent[q] = decisionIndex[q]
  BY DEF ReleaseInv, PublicationsResolve, OneRecordPerProposal
<1>4. \A q \in Proposals :
        decisionIndex[q] # Absent => decisionIndex'[q] = decisionIndex[q]
  BY <1>1, <1>2, <1>3, NamesAssumption DEF ReleaseInv, TypeOK, WriteDecision
<1>5. TypeOK'
  BY <1>1, <1>2 DEF ReleaseInv, TypeOK, PublishDecision, WriteDecision,
     AfterDecision, Return, Goto, Release, Phases, Waiting
<1>6. LockMatchesPhase'
  BY <1>2, NamesAssumption DEF ReleaseInv, TypeOK, LockMatchesPhase,
     PublishDecision, Holding, AfterDecision, Return, Goto, Release, Locked
<1>7. JobMatchesPhase'
  <2>1. n = 4 /\ c.verdict # "reject" =>
          decisionIndex'[p] # Absent /\ decisionIndex'[p].verdict = "approve"
    BY <1>1, <1>2, NamesAssumption DEF ReleaseInv, TypeOK, WriteDecision,
       Decision, Verdicts
  <2>2. \A q \in Proposals : Approved(q) => Approved(q)'
    BY <1>4 DEF Approved
  <2>3. \A g \in Handlers \ {h} : pc'[g] = pc[g] /\ job'[g] = job[g]
    BY <1>2 DEF ReleaseInv, TypeOK, AfterDecision, Return, Goto
  <2>4. \/ pc'[h] = "idle"
        \/ /\ pc'[h] = "envelope"
           /\ job'[h] = job[h]
           /\ Approved(job[h].proposal)'
    <3>1. CASE n = 4 /\ c.verdict # "reject"
      <4>1. pc'[h] = "envelope" /\ job' = job
        BY <3>1, <1>2 DEF ReleaseInv, TypeOK, AfterDecision, Goto
      <4> QED BY <4>1, <3>1, <2>1, <1>1 DEF Approved
    <3>2. CASE ~ (n = 4 /\ c.verdict # "reject")
      BY <3>2, <1>2 DEF ReleaseInv, TypeOK, AfterDecision, Return
    <3> QED BY <3>1, <3>2
  <2>5. JobMatchesPhase /\ job[h] \in Job
    BY DEF ReleaseInv, JobMatchesPhase, PublishDecision
  <2> QED
    BY <1>1, <2>2, <2>3, <2>4, <2>5 DEF JobMatchesPhase, DecisionPhases,
       ApprovedPhases, RollbackPhases, RecordedActive, Job, PublishDecision
<1>8. PublicationsResolve'
  <2>1. \A q \in Proposals : decisionIndex'[q] # Absent =>
          decisionIndex'[q] \in decisionRecords' /\ decisionIndex'[q].proposal = q
    BY <1>1, <1>2, <1>3 DEF ReleaseInv, TypeOK, WriteDecision
  <2>2. \A a \in Actions : actionIndex'[a] # Absent =>
          /\ actionIndex'[a].action = a
          /\ decisionIndex'[actionIndex'[a].proposal] = actionIndex'[a]
    <3> SUFFICES ASSUME NEW a \in Actions, actionIndex'[a] # Absent
                 PROVE  /\ actionIndex'[a].action = a
                        /\ decisionIndex'[actionIndex'[a].proposal] = actionIndex'[a]
      OBVIOUS
    <3>1. CASE n = 4 /\ c.action = a
      BY <3>1, <1>1, <1>2 DEF ReleaseInv, TypeOK, WriteDecision
    <3>2. CASE ~ (n = 4 /\ c.action = a)
      <4>1. actionIndex'[a] = actionIndex[a]
        BY <3>2, <1>1, <1>2 DEF ReleaseInv, TypeOK, WriteDecision
      <4>2. actionIndex[a] \in Decision /\ actionIndex[a].proposal \in Proposals
        BY <4>1 DEF ReleaseInv, TypeOK, Decision
      <4> QED
        BY <4>1, <4>2, <1>4, NamesAssumption DEF ReleaseInv, PublicationsResolve
    <3> QED BY <3>1, <3>2
  <2> QED
    BY <2>1, <2>2 DEF ReleaseInv, PublicationsResolve, PublishDecision
<1>9. OneRecordPerProposal'
  <2>1. \A d \in decisionRecords' : decisionIntent'[d.proposal] = d
    <3> SUFFICES ASSUME NEW d \in decisionRecords' PROVE decisionIntent'[d.proposal] = d
      OBVIOUS
    <3>1. CASE d \in decisionRecords
      <4>1. d \in Decision /\ d.proposal \in Proposals /\ decisionIntent[d.proposal] = d
        BY <3>1 DEF ReleaseInv, TypeOK, OneRecordPerProposal, Decision
      <4> QED
        BY <4>1, <1>1, <1>2, NamesAssumption DEF ReleaseInv, TypeOK,
           WriteDecision
    <3>2. CASE d \notin decisionRecords
      BY <3>2, <1>1, <1>2 DEF ReleaseInv, TypeOK, WriteDecision
    <3> QED BY <3>1, <3>2
  <2> QED
    BY <2>1 DEF ReleaseInv, OneRecordPerProposal, PublishDecision
<1>10. RecordsConsistent'
  BY <1>4 DEF ReleaseInv, RecordsConsistent, Approved, PublishDecision
<1>11. AnchorsResolve'
  BY DEF ReleaseInv, AnchorsResolve, PublishDecision
<1> QED BY <1>5, <1>6, <1>7, <1>8, <1>9, <1>10, <1>11 DEF ReleaseInv

(* The compare-and-swap on the pointer: the new pointer names an approved  *)
(* proposal whose parent is the old pointer, hence a known revision.       *)
LEMMA ValidateAndActivateInv ==
    ASSUME ReleaseInv, NEW h \in Handlers, ValidateAndActivate(h) PROVE ReleaseInv'
<1>1. job[h] \in Job /\ job[h].proposal \in Proposals
  BY DEF ReleaseInv, JobMatchesPhase, ValidateAndActivate, Job
<1>2. TypeOK'
  BY <1>1 DEF ReleaseInv, TypeOK, ValidateAndActivate, FailValidation,
     WithOutcome, Phases, Waiting, Pointers, Job, Outcome, OutcomeLifecycles
<1>3. LockMatchesPhase'
  BY DEF ReleaseInv, TypeOK, LockMatchesPhase, ValidateAndActivate,
     FailValidation, WithOutcome, Locked
<1>4. JobMatchesPhase'
  BY <1>1 DEF ReleaseInv, TypeOK, JobMatchesPhase, DecisionPhases,
     ApprovedPhases, RollbackPhases, Approved, RecordedActive,
     ValidateAndActivate, FailValidation, WithOutcome, Job, Outcome,
     OutcomeLifecycles
<1>5. PublicationsResolve' /\ OneRecordPerProposal' /\ RecordsConsistent'
  BY DEF ReleaseInv, PublicationsResolve, OneRecordPerProposal,
     RecordsConsistent, Approved, ValidateAndActivate
<1>6. AnchorsResolve'
  BY <1>1, NamesAssumption DEF ReleaseInv, TypeOK, AnchorsResolve, Pointers,
     ValidateAndActivate
<1> QED BY <1>2, <1>3, <1>4, <1>5, <1>6 DEF ReleaseInv

(* Writing any prefix of the three outcome files, for an approved proposal *)
(* without an outcome and without another announced outcome; the lock keeps*)
(* every other writer out.                                                 *)
LEMMA PublishOutcomeInv ==
    ASSUME ReleaseInv, NEW h \in Handlers, PublishOutcome(h) PROVE ReleaseInv'
<1> DEFINE o == job[h].outcome
           p == o.proposal
<1>1. /\ o \in Outcome /\ p = job[h].proposal /\ p \in Proposals /\ Approved(p)
      /\ outcomeIndex[p] = Absent
      /\ outcomeIntent[p] \in {Absent, o}
  BY DEF ReleaseInv, JobMatchesPhase, ApprovedPhases, PublishOutcome, Outcome
<1>2. PICK n \in 0 .. 3 :
         /\ outcomeIntent' = IF n >= 1 THEN [outcomeIntent EXCEPT ![p] = o]
                                       ELSE outcomeIntent
         /\ outcomeRecords' = IF n >= 2 THEN outcomeRecords \cup {o}
                                        ELSE outcomeRecords
         /\ outcomeIndex' = IF n >= 3 THEN [outcomeIndex EXCEPT ![p] = o]
                                      ELSE outcomeIndex
  BY DEF PublishOutcome
<1>3. TypeOK'
  BY <1>1, <1>2 DEF ReleaseInv, TypeOK, PublishOutcome, Return, Release, Phases
<1>4. LockMatchesPhase'
  BY NamesAssumption DEF ReleaseInv, TypeOK, LockMatchesPhase, PublishOutcome,
     Holding, Return, Release, Locked
<1>5. JobMatchesPhase'
  <2>1. \A g \in Handlers \ {h} : pc[g] # "publishOutcome"
    BY DEF ReleaseInv, LockMatchesPhase, PublishOutcome, Holding, Locked
  <2>2. \A q \in Proposals : RecordedActive(q) => RecordedActive(q)'
    BY <1>1, <1>2 DEF ReleaseInv, TypeOK, RecordedActive
  <2> QED
    BY <2>1, <2>2 DEF ReleaseInv, TypeOK, JobMatchesPhase, DecisionPhases,
       ApprovedPhases, RollbackPhases, Approved, Job, PublishOutcome, Return
<1>6. PublicationsResolve'
  BY <1>1, <1>2 DEF ReleaseInv, TypeOK, PublicationsResolve, PublishOutcome
<1>7. OneRecordPerProposal'
  <2>1. \A x \in outcomeRecords' : outcomeIntent'[x.proposal] = x
    <3> SUFFICES ASSUME NEW x \in outcomeRecords' PROVE outcomeIntent'[x.proposal] = x
      OBVIOUS
    <3>1. CASE x \in outcomeRecords
      <4>1. x \in Outcome /\ x.proposal \in Proposals /\ outcomeIntent[x.proposal] = x
        BY <3>1 DEF ReleaseInv, TypeOK, OneRecordPerProposal, Outcome
      <4> QED
        BY <4>1, <1>1, <1>2, NamesAssumption DEF ReleaseInv, TypeOK
    <3>2. CASE x \notin outcomeRecords
      BY <3>2, <1>1, <1>2 DEF ReleaseInv, TypeOK
    <3> QED BY <3>1, <3>2
  <2> QED
    BY <2>1 DEF ReleaseInv, OneRecordPerProposal, PublishOutcome
<1>8. RecordsConsistent'
  BY <1>1, <1>2 DEF ReleaseInv, TypeOK, RecordsConsistent, Approved,
     PublishOutcome
<1>9. AnchorsResolve'
  BY DEF ReleaseInv, AnchorsResolve, PublishOutcome
<1> QED BY <1>3, <1>4, <1>5, <1>6, <1>7, <1>8, <1>9 DEF ReleaseInv

(* A rollback moves the pointer to the recorded target, which is a known   *)
(* revision because every anchor has an anchor.                            *)
LEMMA RollbackStrategyInv ==
    ASSUME ReleaseInv, NEW h \in Handlers, RollbackStrategy(h) PROVE ReleaseInv'
<1>1. job[h].proposal \in Proposals
  BY DEF ReleaseInv, JobMatchesPhase, RollbackStrategy, Job
<1>2. pointer' = pointer \/ /\ pointer = job[h].proposal
                            /\ pointer' = RollbackTarget(pointer)
  BY DEF RollbackStrategy
<1>3. pointer' \in Pointers /\ (pointer' \in Proposals => parent[pointer'] # Absent)
  BY <1>1, <1>2, NamesAssumption DEF ReleaseInv, TypeOK, AnchorsResolve,
     RollbackTarget, Pointers
<1>4. TypeOK'
  BY <1>3 DEF ReleaseInv, TypeOK, RollbackStrategy, Return, Goto, Phases,
     Waiting
<1>5. LockMatchesPhase'
  BY DEF ReleaseInv, TypeOK, LockMatchesPhase, RollbackStrategy, Return, Goto,
     Locked
<1>6. JobMatchesPhase'
  BY DEF ReleaseInv, TypeOK, JobMatchesPhase, DecisionPhases, ApprovedPhases,
     RollbackPhases, Approved, RecordedActive, RollbackStrategy, Return, Goto
<1>7. PublicationsResolve' /\ OneRecordPerProposal' /\ RecordsConsistent'
  BY DEF ReleaseInv, PublicationsResolve, OneRecordPerProposal,
     RecordsConsistent, Approved, RollbackStrategy
<1>8. AnchorsResolve'
  BY <1>3 DEF ReleaseInv, AnchorsResolve, RollbackStrategy
<1> QED BY <1>4, <1>5, <1>6, <1>7, <1>8 DEF ReleaseInv

(* Writing any prefix of the three rollback files of a release recorded as *)
(* active.                                                                 *)
LEMMA PublishRollbackInv ==
    ASSUME ReleaseInv, NEW h \in Handlers, PublishRollback(h) PROVE ReleaseInv'
<1>1. job[h].proposal \in Proposals /\ RecordedActive(job[h].proposal)
  BY DEF ReleaseInv, JobMatchesPhase, RollbackPhases, PublishRollback, Job
<1>2. TypeOK'
  BY <1>1 DEF ReleaseInv, TypeOK, PublishRollback, Return, Release, Phases
<1>3. LockMatchesPhase'
  BY NamesAssumption DEF ReleaseInv, TypeOK, LockMatchesPhase, PublishRollback,
     Holding, Return, Release, Locked
<1>4. JobMatchesPhase'
  BY DEF ReleaseInv, TypeOK, JobMatchesPhase, DecisionPhases, ApprovedPhases,
     RollbackPhases, Approved, RecordedActive, PublishRollback, Return
<1>5. PublicationsResolve' /\ OneRecordPerProposal'
  BY DEF ReleaseInv, PublicationsResolve, OneRecordPerProposal, PublishRollback
<1>6. RecordsConsistent'
  BY <1>1 DEF ReleaseInv, RecordsConsistent, RecordedActive, Approved,
     PublishRollback
<1>7. AnchorsResolve'
  BY DEF ReleaseInv, AnchorsResolve, PublishRollback
<1> QED BY <1>2, <1>3, <1>4, <1>5, <1>6, <1>7 DEF ReleaseInv

(* A new proposal is anchored to the serving pointer, once.                *)
LEMMA CreateOrLoadProposalInv ==
    ASSUME ReleaseInv, NEW p \in Proposals, CreateOrLoadProposal(p) PROVE ReleaseInv'
<1>1. TypeOK'
  BY DEF ReleaseInv, TypeOK, Pointers, CreateOrLoadProposal
<1>2. LockMatchesPhase' /\ JobMatchesPhase'
  BY DEF ReleaseInv, LockMatchesPhase, JobMatchesPhase, Approved,
     RecordedActive, CreateOrLoadProposal
<1>3. PublicationsResolve' /\ OneRecordPerProposal' /\ RecordsConsistent'
  BY DEF ReleaseInv, PublicationsResolve, OneRecordPerProposal,
     RecordsConsistent, Approved, CreateOrLoadProposal
<1>4. AnchorsResolve'
  BY NamesAssumption DEF ReleaseInv, TypeOK, Pointers, AnchorsResolve,
     CreateOrLoadProposal
<1> QED BY <1>1, <1>2, <1>3, <1>4 DEF ReleaseInv

(* Issuing and losing session tokens touches nothing else.                 *)
LEMMA SessionInv ==
    ASSUME ReleaseInv, NEW p \in Proposals, NEW k \in {"decision", "rollback"},
           OpenSession(k, p) \/ LoseSession(k, p)
    PROVE  ReleaseInv'
<1>1. TypeOK'
  BY BoundAssumption DEF ReleaseInv, TypeOK, OpenSession, LoseSession
<1>2. LockMatchesPhase' /\ JobMatchesPhase'
  BY DEF ReleaseInv, LockMatchesPhase, JobMatchesPhase, Approved,
     RecordedActive, OpenSession, LoseSession
<1> QED BY <1>1, <1>2, QuietStep DEF ReleaseInv, OpenSession, LoseSession

(* A request starts by consuming a token and starts with a job of its own. *)
LEMMA BeginInv ==
    ASSUME ReleaseInv, NEW h \in Handlers,
           \/ \E c \in Decision : BeginDecision(h, c)
           \/ \E p \in Proposals : BeginRollback(h, p)
    PROVE  ReleaseInv'
<1>1. TypeOK'
  <2>1. ASSUME NEW c \in Decision, BeginDecision(h, c) PROVE TypeOK'
    BY <2>1, BoundAssumption DEF ReleaseInv, TypeOK, BeginDecision,
       ConsumeSession, Phases, Waiting, Job, Decision
  <2>2. ASSUME NEW p \in Proposals, BeginRollback(h, p) PROVE TypeOK'
    BY <2>2, BoundAssumption DEF ReleaseInv, TypeOK, BeginRollback,
       ConsumeSession, Phases, Waiting, Job
  <2> QED BY <2>1, <2>2
<1>2. LockMatchesPhase'
  BY DEF ReleaseInv, TypeOK, LockMatchesPhase, BeginDecision, BeginRollback,
     ConsumeSession, Locked
<1>3. JobMatchesPhase'
  BY DEF ReleaseInv, TypeOK, JobMatchesPhase, DecisionPhases, ApprovedPhases,
     RollbackPhases, Approved, RecordedActive, BeginDecision, BeginRollback,
     ConsumeSession, Job, Decision
<1> QED
  BY <1>1, <1>2, <1>3, QuietStep DEF ReleaseInv, BeginDecision, BeginRollback

(* A crash keeps the files and the pointer and forgets everything else.    *)
LEMMA CrashInv == ASSUME ReleaseInv, Crash PROVE ReleaseInv'
<1>1. TypeOK'
  BY BoundAssumption DEF ReleaseInv, TypeOK, Crash, Phases
<1>2. LockMatchesPhase' /\ JobMatchesPhase'
  BY NamesAssumption DEF LockMatchesPhase, JobMatchesPhase, DecisionPhases,
     ApprovedPhases, RollbackPhases, Locked, Crash
<1> QED BY <1>1, <1>2, QuietStep DEF ReleaseInv, Crash

(* An empty artifact directory satisfies the invariant.                    *)
LEMMA InitInv == Init => ReleaseInv
BY NamesAssumption, BoundAssumption DEF Init, ReleaseInv, TypeOK,
   LockMatchesPhase, JobMatchesPhase, PublicationsResolve, OneRecordPerProposal,
   RecordsConsistent, AnchorsResolve, Phases, Pointers, Locked, DecisionPhases,
   ApprovedPhases, RollbackPhases

(* Every step of the release preserves the invariant: one step per action. *)
LEMMA NextInv == ReleaseInv /\ [Next]_vars => ReleaseInv'
<1> SUFFICES ASSUME ReleaseInv, [Next]_vars PROVE ReleaseInv'
  OBVIOUS
<1>1. ASSUME NEW p \in Proposals,
             \/ CreateOrLoadProposal(p)
             \/ \E k \in {"decision", "rollback"} : OpenSession(k, p) \/ LoseSession(k, p)
      PROVE  ReleaseInv'
  BY <1>1, CreateOrLoadProposalInv, SessionInv
<1>2. ASSUME NEW h \in Handlers,
             \/ \E c \in Decision : BeginDecision(h, c)
             \/ \E p \in Proposals : BeginRollback(h, p)
      PROVE  ReleaseInv'
  BY <1>2, BeginInv
<1>3. ASSUME NEW h \in Handlers, Handle(h) PROVE ReleaseInv'
  BY <1>3, RefuseDecisionInv, ReplayDecisionInv, StartApprovalInv,
     StartPublicationInv, RevalidateEvidenceInv, PublishDecisionInv,
     LoadActivationEnvelopeInv, CheckParentInv, ValidateAndActivateInv,
     StartOutcomeInv, SettleOutcomeInv, PublishOutcomeInv, LoadActiveReleaseInv,
     RollbackStrategyInv, StartRollbackInv, SettleRollbackInv,
     PublishRollbackInv, HandlerErrorInv DEF Handle, Control
<1>4. CASE Crash
  BY <1>4, CrashInv
<1>5. CASE UNCHANGED vars
  <2>1. UNCHANGED <<storeVars, pointer>>
    BY <1>5 DEF vars
  <2>2. TypeOK' /\ LockMatchesPhase' /\ JobMatchesPhase'
    BY <1>5 DEF ReleaseInv, TypeOK, LockMatchesPhase, JobMatchesPhase, Approved,
       RecordedActive, vars
  <2> QED BY <2>1, <2>2, QuietStep DEF ReleaseInv
<1> QED BY <1>1, <1>2, <1>3, <1>4, <1>5 DEF Next

(* What every locked section of retrieval_release_control.py relies on     *)
(* holds in every reachable state.                                         *)
THEOREM ReleaseInvariant == Spec => []ReleaseInv
BY InitInv, NextInv, PTL DEF Spec

(* Type correctness of the release, for every value of the constants.      *)
THEOREM TypeCorrect == Spec => []TypeOK
<1>1. ReleaseInv => TypeOK
  BY DEF ReleaseInv
<1> QED BY <1>1, ReleaseInvariant, PTL

(* The pointer files of the control plane always resolve to stored records,*)
(* whatever write a crash or a full disk stopped at                        *)
(* (_load_existing_decision, _load_existing_outcome,                       *)
(* _load_existing_rollback never refuse what was written).                 *)
THEOREM PublicationsAlwaysResolve == Spec => []PublicationsResolve
<1>1. ReleaseInv => PublicationsResolve
  BY DEF ReleaseInv
<1> QED BY <1>1, ReleaseInvariant, PTL

(* A proposal never gets a second decision record or a second outcome      *)
(* record: apply_retrieval_release_decision and                            *)
(* record_retrieval_release_outcome record exactly one each over any       *)
(* interleaving of requests and crashes.                                   *)
THEOREM AtMostOneRecord == Spec => []OneRecordPerProposal
<1>1. ReleaseInv => OneRecordPerProposal
  BY DEF ReleaseInv
<1> QED BY <1>1, ReleaseInvariant, PTL

(* _release_lifecycle never meets an outcome without its approval or a     *)
(* rollback without an active outcome.                                     *)
THEOREM RecordsStayConsistent == Spec => []RecordsConsistent
<1>1. ReleaseInv => RecordsConsistent
  BY DEF ReleaseInv
<1> QED BY <1>1, ReleaseInvariant, PTL

(* The pointer moves by the compare-and-swap of an activation or by the    *)
(* compare-and-swap of a rollback, and both know why.                      *)
LEMMA PointerStep ==
    ASSUME ReleaseInv, Next, pointer' # pointer
    PROVE  ActivationMove \/ RollbackMove
<1>1. \E h \in Handlers : ValidateAndActivate(h) \/ RollbackStrategy(h)
  BY DEF Next, Handle, Control, Crash, CreateOrLoadProposal, OpenSession,
     LoseSession, BeginDecision, BeginRollback, RefuseDecision, ReplayDecision,
     StartApproval, StartPublication, RevalidateEvidence, PublishDecision,
     LoadActivationEnvelope, CheckParent, StartOutcome, SettleOutcome,
     PublishOutcome, LoadActiveRelease, StartRollback, SettleRollback,
     PublishRollback, HandlerError
<1>2. PICK h \in Handlers : ValidateAndActivate(h) \/ RollbackStrategy(h)
  BY <1>1
<1>3. CASE ValidateAndActivate(h)
  <2>1. job[h].proposal \in Proposals /\ Approved(job[h].proposal)
    BY <1>3 DEF ReleaseInv, JobMatchesPhase, ApprovedPhases, Job,
       ValidateAndActivate
  <2>2. pointer = parent[job[h].proposal] /\ pointer' = job[h].proposal
    BY <1>3 DEF ValidateAndActivate
  <2> QED BY <2>1, <2>2 DEF ActivationMove
<1>4. CASE RollbackStrategy(h)
  <2>1. job[h].proposal \in Proposals /\ RecordedActive(job[h].proposal)
    BY <1>4 DEF ReleaseInv, JobMatchesPhase, RollbackPhases, Job,
       RollbackStrategy
  <2>2. pointer = job[h].proposal /\ pointer' = RollbackTarget(pointer)
    BY <1>4 DEF RollbackStrategy
  <2> QED BY <2>1, <2>2 DEF RollbackMove, RecordedActive
<1> QED BY <1>2, <1>3, <1>4

(* active.json is replaced only by an approved activation over the revision*)
(* it was proposed against, or by a rollback of a recorded active release  *)
(* to its recorded target, for any number of racing requests.              *)
THEOREM PointerMovesOnlyByRelease == Spec => PointerMovesAreReleases
<1>1. ReleaseInv /\ [Next]_vars =>
        [pointer' # pointer => ActivationMove \/ RollbackMove]_vars
  BY PointerStep DEF vars
<1> QED BY <1>1, ReleaseInvariant, PTL DEF Spec, PointerMovesAreReleases

(* What one step may do to the files of a proposal.                        *)
FilesGrow(p) ==
    /\ decisionIndex[p] # Absent => decisionIndex'[p] = decisionIndex[p]
    /\ \/ outcomeIndex'[p] = outcomeIndex[p]
       \/ outcomeIndex[p] = Absent /\ Approved(p)
    /\ p \in rollbackIndex => p \in rollbackIndex'
    /\ p \in rollbackIndex' => p \in rollbackIndex \/ RecordedActive(p)

(* Decision and outcome files are final once indexed, an outcome is indexed*)
(* for an approved proposal only, a rollback for a recorded active one     *)
(* only.                                                                   *)
LEMMA StepGrowsFiles ==
    ASSUME ReleaseInv, Next, NEW p \in Proposals PROVE FilesGrow(p)
<1>1. ASSUME NEW h \in Handlers, PublishDecision(h) PROVE FilesGrow(p)
  <2>1. job[h].decision \in Decision
    BY <1>1 DEF ReleaseInv, JobMatchesPhase, DecisionPhases, PublishDecision
  <2>2. decisionIndex[p] # Absent => decisionIntent[p] = decisionIndex[p]
    BY DEF ReleaseInv, PublicationsResolve, OneRecordPerProposal
  <2>3. decisionIndex[p] # Absent => decisionIndex'[p] = decisionIndex[p]
    BY <1>1, <2>1, <2>2, NamesAssumption DEF ReleaseInv, TypeOK,
       PublishDecision, WriteDecision
  <2> QED BY <1>1, <2>3 DEF FilesGrow, PublishDecision, outcomeVars, rollbackVars
<1>2. ASSUME NEW h \in Handlers, PublishOutcome(h) PROVE FilesGrow(p)
  BY <1>2 DEF ReleaseInv, TypeOK, JobMatchesPhase, ApprovedPhases, FilesGrow,
     PublishOutcome
<1>3. ASSUME NEW h \in Handlers, PublishRollback(h) PROVE FilesGrow(p)
  BY <1>3 DEF ReleaseInv, JobMatchesPhase, RollbackPhases, FilesGrow,
     PublishRollback
<1>4. UNCHANGED <<decisionVars, outcomeVars, rollbackVars>> => FilesGrow(p)
  BY DEF FilesGrow
<1>5. \/ UNCHANGED <<decisionVars, outcomeVars, rollbackVars>>
      \/ \E h \in Handlers : PublishDecision(h) \/ PublishOutcome(h) \/ PublishRollback(h)
  <2>1. ASSUME NEW q \in Proposals,
               CreateOrLoadProposal(q)
                 \/ \E k \in {"decision", "rollback"} :
                        OpenSession(k, q) \/ LoseSession(k, q)
        PROVE  UNCHANGED <<decisionVars, outcomeVars, rollbackVars>>
    BY <2>1 DEF CreateOrLoadProposal, OpenSession, LoseSession, storeVars
  <2>2. ASSUME NEW h \in Handlers,
               \/ \E c \in Decision : BeginDecision(h, c)
               \/ \E q \in Proposals : BeginRollback(h, q)
        PROVE  UNCHANGED <<decisionVars, outcomeVars, rollbackVars>>
    BY <2>2 DEF BeginDecision, BeginRollback, storeVars
  <2>3. ASSUME NEW h \in Handlers,
               \/ RefuseDecision(h) \/ ReplayDecision(h) \/ StartApproval(h)
               \/ StartPublication(h) \/ RevalidateEvidence(h)
               \/ LoadActivationEnvelope(h) \/ StartOutcome(h) \/ SettleOutcome(h)
        PROVE  UNCHANGED <<decisionVars, outcomeVars, rollbackVars>>
    BY <2>3 DEF RefuseDecision, ReplayDecision, StartApproval, StartPublication,
       RevalidateEvidence, LoadActivationEnvelope, StartOutcome, SettleOutcome,
       storeVars
  <2>4. ASSUME NEW h \in Handlers,
               \/ LoadActiveRelease(h) \/ StartRollback(h) \/ SettleRollback(h)
               \/ HandlerError(h) \/ CheckParent(h) \/ ValidateAndActivate(h)
               \/ RollbackStrategy(h)
        PROVE  UNCHANGED <<decisionVars, outcomeVars, rollbackVars>>
    BY <2>4 DEF LoadActiveRelease, StartRollback, SettleRollback, HandlerError,
       CheckParent, ValidateAndActivate, RollbackStrategy, storeVars
  <2>5. ASSUME Crash PROVE UNCHANGED <<decisionVars, outcomeVars, rollbackVars>>
    BY <2>5 DEF Crash, storeVars
  <2> QED
    BY <2>1, <2>2, <2>3, <2>4, <2>5 DEF Next, Handle, Control
<1> QED BY <1>1, <1>2, <1>3, <1>4, <1>5

(* A step between two states of the invariant that grows the files moves   *)
(* the reported lifecycle along LifecycleEdges.                            *)
LEMMA LifecycleStep ==
    ASSUME ReleaseInv, ReleaseInv', NEW p \in Proposals, FilesGrow(p),
           ReleaseLifecycle(p) # ReleaseLifecycle(p)'
    PROVE  /\ <<ReleaseLifecycle(p), ReleaseLifecycle(p)'>> \in LifecycleEdges
           /\ p \notin rollbackIndex
<1>1. p \notin rollbackIndex
  BY DEF FilesGrow, ReleaseLifecycle
<1>2. CASE decisionIndex[p] = Absent
  <2>1. outcomeIndex[p] = Absent /\ outcomeIndex'[p] = Absent /\ p \notin rollbackIndex'
    BY <1>1, <1>2 DEF ReleaseInv, RecordsConsistent, Approved, RecordedActive,
       FilesGrow
  <2> QED BY <1>1, <1>2, <2>1 DEF ReleaseLifecycle, LifecycleEdges
<1>3. CASE decisionIndex[p] # Absent /\ outcomeIndex[p] = Absent
  <2>1. p \notin rollbackIndex' /\ decisionIndex'[p] = decisionIndex[p]
    BY <1>1, <1>3 DEF RecordedActive, FilesGrow
  <2>2. outcomeIndex'[p] # Absent => Approved(p)
    BY <1>3 DEF FilesGrow
  <2>3. outcomeIndex'[p] # Absent => outcomeIndex'[p].lifecycle \in OutcomeLifecycles
    BY DEF ReleaseInv, TypeOK, Outcome
  <2> QED
    BY <1>1, <1>3, <2>1, <2>2, <2>3 DEF ReleaseLifecycle, LifecycleEdges,
       Approved, OutcomeLifecycles
<1>4. CASE outcomeIndex[p] # Absent
  <2>1. outcomeIndex'[p] = outcomeIndex[p]
    BY <1>4 DEF FilesGrow
  <2>2. p \in rollbackIndex' => RecordedActive(p)
    BY <1>1 DEF FilesGrow
  <2>3. outcomeIndex[p].lifecycle \in OutcomeLifecycles
    BY <1>4 DEF ReleaseInv, TypeOK, Outcome
  <2> QED
    BY <1>1, <1>4, <2>1, <2>2, <2>3 DEF ReleaseLifecycle, LifecycleEdges,
       RecordedActive, OutcomeLifecycles
<1> QED BY <1>1, <1>2, <1>3, <1>4

(* The lifecycle the API reports follows LifecycleEdges, and never leaves  *)
(* `rolled_back' once the rollback is recorded.                            *)
THEOREM LifecycleFollowsEdges == Spec => LifecycleMoves
<1>1. ReleaseInv /\ ReleaseInv' /\ [Next]_vars =>
        [\A p \in Proposals :
           LET before == ReleaseLifecycle(p)
               after  == ReleaseLifecycle(p)' IN
           before # after => /\ <<before, after>> \in LifecycleEdges
                             /\ p \notin rollbackIndex]_vars
  BY StepGrowsFiles, LifecycleStep
<1> QED BY <1>1, ReleaseInvariant, PTL DEF Spec, LifecycleMoves
-----------------------------------------------------------------------------
(* What serves is a stack.                                                 *)

(* Every set of numbers that is not empty has a least one.                 *)
LEMMA LeastNumber ==
    ASSUME NEW T, T \subseteq Nat, T # {}
    PROVE  \E n \in T : \A m \in T : n <= m
<1>1. PICK R : R = OpToRel(<, Nat) /\ IsWellFoundedOn(R, Nat)
  BY NatLessThanWellFounded
<1>2. R = {ss \in Nat \X Nat : ss[1] < ss[2]}
  BY <1>1 DEF OpToRel
<1>3. PICK n \in T : \A m \in T : ~ (<<m, n>> \in R)
  BY <1>1, WFMin
<1>4. \A m \in T : ~ (m < n)
  BY <1>2, <1>3
<1> QED
  BY <1>4

(* Two stacks under the same release agree, counted from the top.          *)
LEMMA TopsAgree ==
    ASSUME NEW q \in Seq(Proposals), NEW r \in Seq(Proposals),
           Stacked(q), Stacked(r), Top(q) = Top(r)
    PROVE  \A k \in Nat : k < Len(q) /\ k < Len(r) => q[Len(q) - k] = r[Len(r) - k]
<1> DEFINE T == {k \in Nat : /\ k < Len(q) /\ k < Len(r)
                             /\ q[Len(q) - k] # r[Len(r) - k]}
<1>1. SUFFICES T = {}
  OBVIOUS
<1>2. SUFFICES ASSUME NEW k \in T, \A m \in T : k <= m
               PROVE  FALSE
  BY LeastNumber
<1>3. /\ k \in Nat /\ Len(q) \in Nat /\ Len(r) \in Nat
      /\ k < Len(q) /\ k < Len(r)
      /\ q[Len(q) - k] # r[Len(r) - k]
  OBVIOUS
<1>4. k # 0
  <2>1. q # <<>> /\ r # <<>>
    BY <1>3
  <2>2. q[Len(q)] = r[Len(r)]
    BY <2>1 DEF Top, Last
  <2> QED
    BY <1>3, <2>2
<1>5. k - 1 \in Nat /\ k - 1 < k
  BY <1>3, <1>4
<1>6. k - 1 \notin T
  BY <1>2, <1>3, <1>5
<1>7. q[Len(q) - (k - 1)] = r[Len(r) - (k - 1)]
  BY <1>3, <1>5, <1>6
<1> DEFINE i == Len(q) - (k - 1)
           j == Len(r) - (k - 1)
<1>8. /\ i \in DOMAIN q /\ i # 1 /\ i - 1 = Len(q) - k
      /\ j \in DOMAIN r /\ j # 1 /\ j - 1 = Len(r) - k
  BY <1>3, <1>4
<1>9. RollbackTarget(q[i]) = q[i - 1] /\ RollbackTarget(r[j]) = r[j - 1]
  BY <1>8 DEF Stacked
<1> QED
  BY <1>3, <1>7, <1>8, <1>9

(* The first release of a stack rolls back to the baseline, those above it *)
(* do not.                                                                 *)
LEMMA NotHigher ==
    ASSUME NEW q \in Seq(Proposals), NEW r \in Seq(Proposals),
           Stacked(q), Stacked(r), Top(q) = Top(r), Len(q) < Len(r)
    PROVE  FALSE
<1>1. Len(q) \in Nat /\ Len(r) \in Nat
  OBVIOUS
<1>2. Len(q) # 0
  <2>1. SUFFICES ASSUME Len(q) = 0 PROVE FALSE
    OBVIOUS
  <2>2. Top(q) = Baseline /\ Top(r) \in Proposals
    BY <1>1, <2>1 DEF Top, Last
  <2> QED
    BY <2>2, NamesAssumption
<1> DEFINE j == Len(r) - Len(q) + 1
<1>3. /\ Len(q) - 1 \in Nat /\ Len(q) - 1 < Len(q) /\ Len(q) - 1 < Len(r)
      /\ Len(q) - (Len(q) - 1) = 1 /\ Len(r) - (Len(q) - 1) = j
      /\ 1 \in DOMAIN q /\ j \in DOMAIN r /\ j # 1 /\ j - 1 \in DOMAIN r
  BY <1>1, <1>2
<1>4. q[1] = r[j]
  BY <1>3, TopsAgree
<1>5. RollbackTarget(q[1]) = Baseline /\ RollbackTarget(r[j]) = r[j - 1]
  BY <1>3 DEF Stacked
<1>6. r[j - 1] \in Proposals
  BY <1>3
<1> QED
  BY <1>4, <1>5, <1>6, NamesAssumption

(* So there is one stack under a release at most.                          *)
LEMMA OneStack ==
    ASSUME NEW q \in Seq(Proposals), NEW r \in Seq(Proposals),
           Stacked(q), Stacked(r), Top(q) = Top(r)
    PROVE  q = r
<1>1. Len(q) \in Nat /\ Len(r) \in Nat
  OBVIOUS
<1>2. ~ (Len(q) < Len(r)) /\ ~ (Len(r) < Len(q))
  BY NotHigher
<1>3. Len(q) = Len(r)
  BY <1>1, <1>2
<1>4. ASSUME NEW i \in 1 .. Len(q) PROVE q[i] = r[i]
  <2>1. /\ Len(q) - i \in Nat /\ Len(q) - i < Len(q)
        /\ Len(q) - (Len(q) - i) = i
    BY <1>1
  <2> QED
    BY <1>3, <2>1, TopsAgree
<1> QED
  BY <1>3, <1>4

-----------------------------------------------------------------------------
(* The releases below p, and p, each once.                                 *)
StackOf(p, releases) ==
    /\ releases \in Seq(Anchored)
    /\ Len(releases) <= Cardinality(Anchored)
    /\ Stacked(releases) /\ Top(releases) = p
    /\ \A i, j \in DOMAIN releases : releases[i] = releases[j] => i = j

(* Every anchored release stands on such a stack: the rollback targets form*)
(* no cycle, and the pointer can be taken down to the baseline.            *)
StackInv == /\ IsFiniteSet(Anchored)
            /\ \A p \in Anchored : \E releases : StackOf(p, releases)

(* Served is the stack under the pointer, whenever there is one.           *)
LEMMA OnlyServed ==
    StackInv => \A releases : StackOf(pointer, releases) => Served = releases
<1> SUFFICES ASSUME StackInv, NEW q, StackOf(pointer, q)
             PROVE  Served = q
  OBVIOUS
<1> DEFINE S == SeqOf(Anchored, Cardinality(Anchored))
<1>1. Anchored \subseteq Proposals /\ Cardinality(Anchored) \in Nat
  BY FS_CardinalityType DEF StackInv, Anchored
<1>2. q \in S
  <2>1. q \in Seq(Anchored) /\ Len(q) \in 0 .. Cardinality(Anchored)
    BY <1>1 DEF StackOf
  <2>2. q \in [1 .. Len(q) -> Anchored]
    BY <2>1
  <2> QED
    BY <2>1, <2>2 DEF SeqOf
<1>3. Stacked(q) /\ Top(q) = pointer
  BY DEF StackOf
<1>4. PICK r \in S : r = Served /\ Stacked(r) /\ Top(r) = pointer
  BY <1>2, <1>3 DEF Served
<1>5. r \in Seq(Proposals) /\ q \in Seq(Proposals)
  BY <1>1 DEF SeqOf, StackOf
<1> QED
  BY <1>3, <1>4, <1>5, OneStack

(* There is one as soon as something serves.                               *)
LEMMA ServedIsStack ==
    ReleaseInv /\ StackInv /\ pointer # NoRevision => StackOf(pointer, Served)
<1> SUFFICES ASSUME ReleaseInv, StackInv, pointer # NoRevision
             PROVE  StackOf(pointer, Served)
  OBVIOUS
<1>1. CASE pointer = Baseline
  <2>1. Cardinality(Anchored) \in Nat
    BY FS_CardinalityType DEF StackInv
  <2>2. StackOf(pointer, <<>>)
    BY <1>1, <2>1 DEF StackOf, Stacked, Top
  <2> QED
    BY <2>2, OnlyServed
<1>2. CASE pointer # Baseline
  <2>1. pointer \in Anchored
    BY <1>2 DEF ReleaseInv, TypeOK, Pointers, AnchorsResolve, Anchored
  <2> QED
    BY <2>1, OnlyServed DEF StackInv
<1> QED
  BY <1>1, <1>2

(* A proposal keeps the parent it was anchored to.                         *)
AnchorsStay == \A p \in Anchored : parent'[p] = parent[p]

(* While it does, a stack stays a stack.                                   *)
LEMMA StacksStay ==
    ASSUME AnchorsStay, IsFiniteSet(Anchored'), NEW p, NEW q, StackOf(p, q)
    PROVE  StackOf(p, q)'
<1>1. Anchored \subseteq Anchored'
  BY DEF AnchorsStay, Anchored
<1>2. /\ Cardinality(Anchored) <= Cardinality(Anchored')
      /\ Cardinality(Anchored) \in Nat /\ Cardinality(Anchored') \in Nat
  BY <1>1, FS_Subset, FS_CardinalityType
<1>3. q \in Seq(Anchored') /\ Len(q) \in Nat /\ \A i \in DOMAIN q : q[i] \in Anchored
  BY <1>1 DEF StackOf
<1>4. Len(q) <= Cardinality(Anchored')
  BY <1>2, <1>3 DEF StackOf
<1>5. Stacked(q)'
  BY <1>3 DEF StackOf, Stacked, RollbackTarget, AnchorsStay
<1> QED
  BY <1>3, <1>4, <1>5 DEF StackOf, Top

(* A new release is stacked on what serves as it is proposed.              *)
LEMMA AnchorStacks ==
    ASSUME ReleaseInv, StackInv, NEW p \in Proposals, CreateOrLoadProposal(p)
    PROVE  StackInv'
<1>1. CASE parent' = parent
  BY <1>1 DEF StackInv, StackOf, Stacked, Top, Anchored, RollbackTarget
<1>2. CASE parent[p] = Absent /\ parent' = [parent EXCEPT ![p] = pointer]
  <2>1. /\ parent'[p] = pointer /\ pointer # Absent
        /\ \A r \in Proposals \ {p} : parent'[r] = parent[r]
    BY <1>2, NamesAssumption DEF ReleaseInv, TypeOK
  <2>2. Anchored' = Anchored \cup {p} /\ p \notin Anchored
    BY <1>2, <2>1 DEF Anchored
  <2>3. /\ IsFiniteSet(Anchored') /\ Cardinality(Anchored) \in Nat
        /\ Cardinality(Anchored') = Cardinality(Anchored) + 1
    BY <2>2, FS_CardinalityType, FS_AddElement DEF StackInv
  <2>4. ASSUME NEW q \in Seq(Anchored), Stacked(q)
        PROVE  Stacked(q)'
    <3>1. \A i \in DOMAIN q : q[i] \in Proposals \ {p}
      BY <2>2 DEF Anchored
    <3> QED
      BY <2>1, <2>4, <3>1 DEF Stacked, RollbackTarget
  <2>5. ASSUME NEW r \in Anchored PROVE \E q : StackOf(r, q)'
    <3>1. PICK q : StackOf(r, q)
      BY DEF StackInv
    <3>2. AnchorsStay
      BY <2>1, <2>2 DEF AnchorsStay, Anchored
    <3> QED
      BY <2>3, <3>1, <3>2, StacksStay
  <2>6. PICK q \in Seq(Anchored) :
           /\ Len(q) <= Cardinality(Anchored) /\ Stacked(q)
           /\ Top(q) = RollbackTarget(p)'
           /\ \A i, j \in DOMAIN q : q[i] = q[j] => i = j
    <3>1. CASE pointer \in Proposals
      <4>1. pointer \in Anchored /\ RollbackTarget(p)' = pointer
        BY <2>1, <3>1, NamesAssumption DEF ReleaseInv, AnchorsResolve, Anchored, RollbackTarget
      <4> QED
        BY <4>1 DEF StackInv, StackOf
    <3>2. CASE pointer \notin Proposals
      <4>1. RollbackTarget(p)' = Baseline
        BY <2>1, <3>2 DEF ReleaseInv, TypeOK, Pointers, RollbackTarget
      <4>2. /\ <<>> \in Seq(Anchored) /\ Len(<<>>) <= Cardinality(Anchored)
            /\ Stacked(<<>>) /\ Top(<<>>) = Baseline /\ DOMAIN <<>> = {}
        BY <2>3 DEF Stacked, Top
      <4> QED
        BY <4>1, <4>2
    <3> QED
      BY <3>1, <3>2
  <2> DEFINE s == Append(q, p)
  <2>7. /\ s \in Seq(Anchored') /\ Len(s) = Len(q) + 1 /\ s # <<>> /\ s[Len(s)] = p
        /\ Len(q) \in Nat /\ \A i \in 1 .. Len(q) : s[i] = q[i] /\ q[i] # p
    BY <2>2
  <2>8. StackOf(p, s)'
    <3>1. Stacked(s)'
      <4> SUFFICES ASSUME NEW i \in DOMAIN s
                   PROVE  RollbackTarget(s[i])' = IF i = 1 THEN Baseline ELSE s[i - 1]
        BY DEF Stacked
      <4>1. CASE i \in 1 .. Len(q)
        <5>1. Stacked(q)'
          BY <2>4, <2>6
        <5>2. s[i] = q[i] /\ (i # 1 => s[i - 1] = q[i - 1])
          BY <2>7, <4>1
        <5> QED
          BY <4>1, <5>1, <5>2 DEF Stacked
      <4>2. CASE i = Len(q) + 1
        <5>1. RollbackTarget(s[i])' = RollbackTarget(p)'
          BY <2>7, <4>2
        <5>2. CASE q = <<>>
          BY <2>6, <4>2, <5>1, <5>2 DEF Top
        <5>3. CASE q # <<>>
          <6>1. i # 1 /\ s[i - 1] = q[Len(q)]
            BY <2>7, <4>2, <5>3
          <6> QED
            BY <2>6, <5>1, <5>3, <6>1 DEF Top, Last
        <5> QED
          BY <5>2, <5>3
      <4> QED
        BY <2>7, <4>1, <4>2
    <3>2. Top(s)' = p
      BY <2>7 DEF Top, Last
    <3>3. \A i, j \in DOMAIN s : s[i] = s[j] => i = j
      BY <2>6, <2>7
    <3>4. Len(s) <= Cardinality(Anchored')
      BY <2>3, <2>6, <2>7
    <3> QED
      BY <2>7, <3>1, <3>2, <3>3, <3>4 DEF StackOf
  <2> QED
    BY <2>2, <2>3, <2>5, <2>8 DEF StackInv
<1> QED
  BY <1>1, <1>2 DEF CreateOrLoadProposal

(* Only a new proposal changes what is anchored.                           *)
LEMMA ParentsStay ==
    ASSUME Next
    PROVE  parent' = parent \/ \E p \in Proposals : CreateOrLoadProposal(p)
<1>1. ASSUME NEW q \in Proposals, NEW k \in {"decision", "rollback"},
             OpenSession(k, q) \/ LoseSession(k, q)
      PROVE  parent' = parent
  BY <1>1 DEF OpenSession, LoseSession
<1>2. ASSUME NEW h \in Handlers,
             \/ \E c \in Decision : BeginDecision(h, c)
             \/ \E q \in Proposals : BeginRollback(h, q)
      PROVE  parent' = parent
  BY <1>2 DEF BeginDecision, BeginRollback
<1>3. ASSUME NEW h \in Handlers,
             \/ RefuseDecision(h) \/ ReplayDecision(h) \/ StartApproval(h)
             \/ StartPublication(h) \/ RevalidateEvidence(h) \/ PublishDecision(h)
             \/ LoadActivationEnvelope(h) \/ StartOutcome(h) \/ SettleOutcome(h)
      PROVE  parent' = parent
  BY <1>3 DEF RefuseDecision, ReplayDecision, StartApproval, StartPublication,
     RevalidateEvidence, PublishDecision, LoadActivationEnvelope, StartOutcome,
     SettleOutcome
<1>4. ASSUME NEW h \in Handlers,
             \/ PublishOutcome(h) \/ LoadActiveRelease(h) \/ StartRollback(h)
             \/ SettleRollback(h) \/ PublishRollback(h) \/ HandlerError(h)
             \/ CheckParent(h) \/ ValidateAndActivate(h) \/ RollbackStrategy(h)
      PROVE  parent' = parent
  BY <1>4 DEF PublishOutcome, LoadActiveRelease, StartRollback, SettleRollback,
     PublishRollback, HandlerError, CheckParent, ValidateAndActivate, RollbackStrategy
<1>5. ASSUME Crash PROVE parent' = parent
  BY <1>5 DEF Crash
<1> QED
  BY <1>1, <1>2, <1>3, <1>4, <1>5 DEF Next, Handle, Control

(* Nothing is anchored at first.                                           *)
LEMMA StackStarts == Init => StackInv
<1> SUFFICES ASSUME Init PROVE StackInv
  OBVIOUS
<1>1. Anchored = {}
  BY DEF Init, Anchored
<1> QED
  BY <1>1, FS_EmptySet DEF StackInv

(* Every step keeps a stack under every release.                           *)
LEMMA StackSteps == ReleaseInv /\ StackInv /\ [Next]_vars => StackInv'
<1> SUFFICES ASSUME ReleaseInv, StackInv, [Next]_vars PROVE StackInv'
  OBVIOUS
<1>1. CASE parent' = parent
  BY <1>1 DEF StackInv, StackOf, Stacked, Top, Anchored, RollbackTarget
<1>2. parent' = parent \/ \E p \in Proposals : CreateOrLoadProposal(p)
  <2>1. CASE Next
    BY <2>1, ParentsStay
  <2>2. CASE UNCHANGED vars
    BY <2>2 DEF vars
  <2> QED
    BY <2>1, <2>2
<1> QED
  BY <1>1, <1>2, AnchorStacks

-----------------------------------------------------------------------------
(* Every step is one of the stack, or none.                                *)

ApprovedReleases == {p \in Proposals : Approved(p)}

(* The lane is empty at first.                                             *)
LEMMA StackIsEmpty == Init => Stack!Init
<1> SUFFICES ASSUME Init PROVE Stack!Init
  OBVIOUS
<1>1. Lane = <<>>
  BY DEF Init, Lane
<1>2. {p \in Proposals : Approved(p)} = {}
  BY DEF Init, Approved
<1> QED
  BY <1>1, <1>2 DEF Stack!Init

(* The same of the pointer after a step.                                   *)
LEMMA NextServed ==
    StackInv' => \A releases : StackOf(pointer, releases)' => Served' = releases
<1>1. (StackInv => \A releases : StackOf(pointer, releases) => Served = releases)'
  BY OnlyServed, PTL
<1> QED
  BY <1>1

(* The stack under a release, without it, is the stack under its rollback  *)
(* target.                                                                 *)
LEMMA TopComesOff ==
    ASSUME IsFiniteSet(Anchored), NEW p \in Proposals, NEW s, StackOf(p, s)
    PROVE  \E below \in Seq(Proposals) :
               /\ s = Append(below, p)
               /\ StackOf(RollbackTarget(p), below)
               /\ \A i \in DOMAIN below : below[i] # p
<1>1. /\ s \in Seq(Anchored) /\ Len(s) <= Cardinality(Anchored)
      /\ Stacked(s) /\ Top(s) = p
      /\ \A i, j \in DOMAIN s : s[i] = s[j] => i = j
  BY DEF StackOf
<1>2. /\ Cardinality(Anchored) \in Nat /\ Len(s) \in Nat /\ DOMAIN s = 1 .. Len(s)
      /\ \A i \in 1 .. Len(s) : s[i] \in Anchored
  BY <1>1, FS_CardinalityType
<1>3. s # <<>> /\ s[Len(s)] = p
  BY <1>1, NamesAssumption DEF Top, Last
<1>4. Len(s) \in 1 .. Len(s)
  BY <1>1, <1>2, <1>3
<1> DEFINE n == Len(s) - 1
           below == [i \in 1 .. n |-> s[i]]
<1>5. n \in Nat /\ n + 1 = Len(s) /\ 1 .. n \subseteq 1 .. Len(s) /\ Len(s) \notin 1 .. n
  BY <1>2, <1>4
<1>6. below \in Seq(Anchored) /\ Len(below) = n /\ DOMAIN below = 1 .. n
  BY <1>2, <1>5
<1>7. \A i \in 1 .. n : below[i] = s[i]
  OBVIOUS
<1>8. below \in Seq(Proposals)
  BY <1>6 DEF Anchored
<1> HIDE DEF below, n
<1>9. \A i \in DOMAIN below : below[i] # p
  BY <1>1, <1>2, <1>3, <1>4, <1>5, <1>6, <1>7
<1>10. s = Append(below, p)
  <2>1. Append(below, p) \in Seq(Anchored) /\ Len(Append(below, p)) = Len(s)
    <3>1. p \in Anchored
      BY <1>2, <1>3, <1>4
    <3>2. Append(below, p) \in Seq(Anchored) /\ Len(Append(below, p)) = n + 1
      BY <1>6, <3>1
    <3> QED
      BY <1>5, <3>2
  <2>2. ASSUME NEW i \in 1 .. Len(s) PROVE Append(below, p)[i] = s[i]
    BY <1>2, <1>3, <1>5, <1>6, <1>7
  <2> QED
    BY <1>1, <2>1, <2>2
<1>11. Stacked(below)
  <2> SUFFICES ASSUME NEW i \in 1 .. n
               PROVE  RollbackTarget(below[i]) = IF i = 1 THEN Baseline ELSE below[i - 1]
    BY <1>6 DEF Stacked
  <2>1. RollbackTarget(s[i]) = IF i = 1 THEN Baseline ELSE s[i - 1]
    BY <1>1, <1>2, <1>5 DEF Stacked
  <2>2. i # 1 => i - 1 \in 1 .. n
    BY <1>5
  <2> QED
    BY <1>7, <2>1, <2>2
<1>12. Top(below) = RollbackTarget(p)
  <2>1. RollbackTarget(p) = IF Len(s) = 1 THEN Baseline ELSE s[Len(s) - 1]
    BY <1>1, <1>2, <1>3, <1>4 DEF Stacked
  <2>2. CASE n = 0
    <3>1. below = <<>>
      BY <1>6, <2>2
    <3> QED
      BY <1>5, <2>1, <2>2, <3>1 DEF Top
  <2>3. CASE n # 0
    <3>1. below # <<>> /\ n \in 1 .. n /\ Len(s) - 1 = n /\ Len(s) # 1
      BY <1>5, <1>6, <2>3
    <3> QED
      BY <1>6, <1>7, <2>1, <3>1 DEF Top, Last
  <2> QED
    BY <2>2, <2>3
<1>13. Len(below) <= Cardinality(Anchored)
  BY <1>1, <1>2, <1>5, <1>6
<1>14. \A i, j \in DOMAIN below : below[i] = below[j] => i = j
  BY <1>1, <1>2, <1>5, <1>6, <1>7
<1>15. StackOf(RollbackTarget(p), below)
  BY <1>6, <1>11, <1>12, <1>13, <1>14 DEF StackOf
<1> QED
  BY <1>8, <1>9, <1>10, <1>15

(* The baseline is below every stack and in none.                          *)
LEMMA BaselineBelow ==
    ASSUME NEW q \in Seq(Proposals), NEW p \in Proposals,
           \A i \in DOMAIN q : q[i] # p
    PROVE  /\ <<Baseline>> \o Append(q, p) = (<<Baseline>> \o q) \o <<p>>
           /\ Len((<<Baseline>> \o q) \o <<p>>) > 1
           /\ Front((<<Baseline>> \o q) \o <<p>>) = <<Baseline>> \o q
           /\ <<Baseline>> \o q # <<>>
           /\ p \notin ToSet(<<Baseline>> \o q)
           /\ <<Baseline>> \o <<>> = <<Baseline>>
<1> DEFINE T == Proposals \cup {Baseline}
           b == <<Baseline>> \o q
           t == b \o <<p>>
<1>1. /\ q \in Seq(T) /\ <<Baseline>> \in Seq(T) /\ <<p>> \in Seq(T) /\ Len(q) \in Nat
      /\ Len(<<Baseline>>) = 1 /\ Len(<<p>>) = 1 /\ DOMAIN q = 1 .. Len(q)
  OBVIOUS
<1>2. b \in Seq(T) /\ Len(b) = Len(q) + 1 /\ b[1] = Baseline
      /\ \A i \in 1 .. Len(q) : b[i + 1] = q[i]
  BY <1>1
<1>3. t \in Seq(T) /\ Len(t) = Len(q) + 2 /\ t[Len(q) + 2] = p
      /\ \A i \in 1 .. Len(q) + 1 : t[i] = b[i]
  BY <1>1, <1>2
<1>4. <<Baseline>> \o Append(q, p) = t
  OBVIOUS
<1> HIDE DEF b, t
<1>5. Front(t) = b
  <2>1. Len(t) - 1 = Len(q) + 1
    BY <1>1, <1>3
  <2>2. SubSeq(t, 1, Len(t) - 1) \in Seq(T) /\ Len(SubSeq(t, 1, Len(t) - 1)) = Len(q) + 1
    BY <1>1, <1>3, <2>1
  <2>3. \A i \in 1 .. Len(q) + 1 : SubSeq(t, 1, Len(t) - 1)[i] = t[i]
    BY <1>1, <1>3, <2>1
  <2> QED
    BY <1>1, <1>2, <1>3, <2>2, <2>3 DEF Front
<1>6. p \notin ToSet(b)
  <2> SUFFICES ASSUME NEW i \in DOMAIN b, b[i] = p PROVE FALSE
    BY DEF ToSet
  <2>1. i \in 1 .. Len(q) + 1
    BY <1>1, <1>2
  <2>2. i # 1
    BY <1>2, NamesAssumption
  <2>3. i - 1 \in 1 .. Len(q) /\ (i - 1) + 1 = i
    BY <1>1, <2>1, <2>2
  <2> QED
    BY <1>1, <1>2, <2>3
<1>7. b # <<>> /\ Len(t) > 1
  BY <1>1, <1>2, <1>3
<1>8. <<Baseline>> \o <<>> = <<Baseline>>
  OBVIOUS
<1> QED
  BY <1>4, <1>5, <1>6, <1>7, <1>8 DEF b, t

(* A release is stacked on what it was proposed against.                   *)
LEMMA ActivationStacks ==
    ASSUME ReleaseInv, StackInv, StackInv', AnchorsStay, NEW p \in Proposals,
           pointer' = p, pointer = parent[p]
    PROVE  /\ Lane' = (IF Lane = <<>> THEN <<Baseline>> ELSE Lane) \o <<p>>
           /\ p \notin ToSet(Lane)
<1>1. p \in Anchored /\ p # NoRevision /\ p # Baseline
  BY NamesAssumption DEF ReleaseInv, TypeOK, Anchored
<1>2. PICK s : StackOf(p, s)
  BY <1>1 DEF StackInv
<1>3. Lane' = <<Baseline>> \o s
  <2>1. StackOf(pointer, s)'
    BY <1>2, StacksStay DEF StackInv
  <2>2. Served' = s
    BY <2>1, NextServed
  <2> QED
    BY <1>1, <2>2 DEF Lane
<1>4. PICK below \in Seq(Proposals) :
          /\ s = Append(below, p) /\ StackOf(RollbackTarget(p), below)
          /\ \A i \in DOMAIN below : below[i] # p
  BY <1>2, TopComesOff DEF StackInv
<1>5. /\ <<Baseline>> \o s = (<<Baseline>> \o below) \o <<p>>
      /\ <<Baseline>> \o below # <<>> /\ p \notin ToSet(<<Baseline>> \o below)
  BY <1>4, BaselineBelow
<1>6. CASE pointer = NoRevision
  <2>1. RollbackTarget(p) = Baseline /\ Lane = <<>>
    BY <1>6 DEF RollbackTarget, Lane
  <2>2. below = <<>>
    <3>1. SUFFICES ASSUME below # <<>> PROVE FALSE
      OBVIOUS
    <3>2. Top(below) = below[Len(below)] /\ Len(below) \in DOMAIN below
      BY <3>1 DEF Top, Last
    <3>3. Top(below) \in Proposals
      BY <3>2
    <3> QED
      BY <1>4, <2>1, <3>3, NamesAssumption DEF StackOf
  <2>3. <<Baseline>> \o below = <<Baseline>> /\ ToSet(Lane) = {}
    BY <2>1, <2>2 DEF ToSet
  <2> QED
    BY <1>3, <1>5, <2>1, <2>3
<1>7. CASE pointer # NoRevision
  <2>1. RollbackTarget(p) = pointer
    BY <1>7 DEF RollbackTarget
  <2>2. Served = below
    BY <1>4, <2>1, OnlyServed
  <2>3. Lane = <<Baseline>> \o below
    BY <1>7, <2>2 DEF Lane
  <2> QED
    BY <1>3, <1>5, <2>3
<1> QED
  BY <1>6, <1>7

(* A rollback takes the top release off.                                   *)
LEMMA RollbackUnstacks ==
    ASSUME ReleaseInv, StackInv, StackInv', AnchorsStay,
           pointer \in Proposals, pointer' = RollbackTarget(pointer)
    PROVE  Len(Lane) > 1 /\ Lane' = Front(Lane)
<1>1. pointer # NoRevision /\ pointer # Baseline
  BY NamesAssumption
<1>2. StackOf(pointer, Served)
  BY <1>1, ServedIsStack
<1>3. PICK below \in Seq(Proposals) :
          /\ Served = Append(below, pointer) /\ StackOf(RollbackTarget(pointer), below)
          /\ \A i \in DOMAIN below : below[i] # pointer
  BY <1>2, TopComesOff DEF StackInv
<1>4. Lane = <<Baseline>> \o Served
  BY <1>1 DEF Lane
<1>5. Len(Lane) > 1 /\ Front(Lane) = <<Baseline>> \o below
  BY <1>3, <1>4, BaselineBelow
<1>6. RollbackTarget(pointer) # NoRevision
  BY NamesAssumption DEF RollbackTarget
<1>7. PICK r : r = RollbackTarget(pointer)
  OBVIOUS
<1>8. StackOf(r, below)' /\ pointer' = r
  BY <1>3, <1>7, StacksStay DEF StackInv
<1>9. Served' = below
  BY <1>8, NextServed DEF StackOf
<1>10. Lane' = <<Baseline>> \o below
  BY <1>6, <1>7, <1>8, <1>9 DEF Lane
<1> QED
  BY <1>5, <1>10

(* No step takes a proposal off the revision it was made against.          *)
LEMMA ParentsGrow == ASSUME ReleaseInv, Next PROVE AnchorsStay
<1>1. CASE parent' = parent
  BY <1>1 DEF AnchorsStay
<1>2. ASSUME NEW p \in Proposals, CreateOrLoadProposal(p) PROVE AnchorsStay
  BY <1>2 DEF CreateOrLoadProposal, ReleaseInv, TypeOK, AnchorsStay, Anchored
<1> QED
  BY <1>1, <1>2, ParentsStay

(* While the pointer stays, so does everything below it.                   *)
LEMMA LaneStays ==
    ASSUME ReleaseInv, StackInv, StackInv', AnchorsStay, pointer' = pointer
    PROVE  Lane' = Lane
<1>1. CASE pointer = NoRevision
  BY <1>1 DEF Lane
<1>2. CASE pointer # NoRevision
  <2>1. PICK s : s = Served /\ StackOf(pointer, s)
    BY <1>2, ServedIsStack
  <2>2. StackOf(pointer, s)'
    <3>1. PICK p : p = pointer
      OBVIOUS
    <3>2. StackOf(p, s)'
      BY <2>1, <3>1, StacksStay DEF StackInv
    <3> QED
      BY <3>1, <3>2
  <2>3. Served' = s
    BY <2>2, NextServed
  <2> QED
    BY <1>2, <2>1, <2>3 DEF Lane
<1> QED
  BY <1>1, <1>2

(* One decision at a time is added to those there are.                     *)
LEMMA ApprovalsGrow ==
    ASSUME ReleaseInv, Next
    PROVE  \/ ApprovedReleases' = ApprovedReleases
           \/ \E r \in Proposals \ ApprovedReleases :
                  ApprovedReleases' = ApprovedReleases \cup {r}
<1>1. CASE decisionIndex' = decisionIndex
  BY <1>1 DEF ApprovedReleases, Approved
<1>2. ASSUME NEW h \in Handlers, PublishDecision(h)
      PROVE  \/ ApprovedReleases' = ApprovedReleases
             \/ \E r \in Proposals \ ApprovedReleases :
                    ApprovedReleases' = ApprovedReleases \cup {r}
  <2> DEFINE r == job[h].decision.proposal
  <2>1. r \in Proposals
    BY <1>2 DEF ReleaseInv, JobMatchesPhase, DecisionPhases, PublishDecision, Decision
  <2>2. \A p \in Proposals \ {r} : decisionIndex'[p] = decisionIndex[p]
    BY <1>2 DEF ReleaseInv, TypeOK, PublishDecision, WriteDecision
  <2>3. decisionIndex[r] # Absent => decisionIndex'[r] = decisionIndex[r]
    BY <2>1, StepGrowsFiles DEF FilesGrow
  <2> HIDE DEF r
  <2>4. \A p \in Proposals \ {r} : p \in ApprovedReleases' <=> p \in ApprovedReleases
    BY <2>2 DEF ApprovedReleases, Approved
  <2>5. r \in ApprovedReleases => r \in ApprovedReleases'
    BY <2>1, <2>3 DEF ApprovedReleases, Approved
  <2>6. ApprovedReleases \subseteq Proposals /\ ApprovedReleases' \subseteq Proposals
    BY DEF ApprovedReleases
  <2> QED
    BY <2>1, <2>4, <2>5, <2>6
<1>3. decisionIndex' = decisionIndex \/ \E h \in Handlers : PublishDecision(h)
  BY DEF Next, Handle, Control, Crash, CreateOrLoadProposal, OpenSession,
     LoseSession, BeginDecision, BeginRollback, RefuseDecision, ReplayDecision,
     StartApproval, StartPublication, RevalidateEvidence,
     LoadActivationEnvelope, CheckParent, ValidateAndActivate, StartOutcome, SettleOutcome,
     PublishOutcome, LoadActiveRelease, RollbackStrategy, StartRollback, SettleRollback,
     PublishRollback, HandlerError
<1> QED
  BY <1>1, <1>2, <1>3

(* A step that moves the pointer decides nothing.                          *)
LEMMA MovesKeepApprovals ==
    ASSUME Next, pointer' # pointer
    PROVE  ApprovedReleases' = ApprovedReleases
<1>1. \E h \in Handlers : ValidateAndActivate(h) \/ RollbackStrategy(h)
  BY DEF Next, Handle, Control, Crash, CreateOrLoadProposal, OpenSession,
     LoseSession, BeginDecision, BeginRollback, RefuseDecision, ReplayDecision,
     StartApproval, StartPublication, RevalidateEvidence, PublishDecision,
     LoadActivationEnvelope, CheckParent, StartOutcome, SettleOutcome,
     PublishOutcome, LoadActiveRelease, StartRollback, SettleRollback,
     PublishRollback, HandlerError
<1>2. decisionIndex' = decisionIndex
  BY <1>1 DEF ValidateAndActivate, RollbackStrategy
<1> QED
  BY <1>2 DEF ApprovedReleases, Approved

(* Every step is one of the stack, or none.                                *)
LEMMA StepStacks ==
    ASSUME ReleaseInv, StackInv, StackInv', Next
    PROVE  Stack!Next \/ (Lane' = Lane /\ ApprovedReleases' = ApprovedReleases)
<1>1. AnchorsStay
  BY ParentsGrow
<1>2. CASE pointer' = pointer
  <2>1. Lane' = Lane
    BY <1>1, <1>2, LaneStays
  <2>2. ASSUME NEW r \in Proposals \ ApprovedReleases,
               ApprovedReleases' = ApprovedReleases \cup {r}
        PROVE  Stack!Next
    BY <2>1, <2>2 DEF Stack!Next, Stack!Approve, ApprovedReleases
  <2> QED
    BY <2>1, <2>2, ApprovalsGrow
<1>3. CASE pointer' # pointer
  <2>1. ApprovedReleases' = ApprovedReleases
    BY <1>3, MovesKeepApprovals
  <2>2. CASE ActivationMove
    <3>1. PICK p \in Proposals : pointer' = p /\ pointer = parent[p] /\ Approved(p)
      BY <2>2 DEF ActivationMove
    <3>2. /\ Lane' = (IF Lane = <<>> THEN <<Baseline>> ELSE Lane) \o <<p>>
          /\ p \notin ToSet(Lane)
      BY <1>1, <3>1, ActivationStacks
    <3>3. Stack!Activate(p)
      BY <2>1, <3>1, <3>2 DEF Stack!Activate, Stack!ToSet, ToSet, ApprovedReleases
    <3> QED
      BY <3>3 DEF Stack!Next
  <2>3. CASE RollbackMove
    <3>1. Len(Lane) > 1 /\ Lane' = Front(Lane)
      BY <1>1, <2>3, RollbackUnstacks DEF RollbackMove
    <3>2. Stack!Rollback
      BY <2>1, <3>1 DEF Stack!Rollback, Stack!Front, Front, ApprovedReleases
    <3> QED
      BY <3>2 DEF Stack!Next
  <2> QED
    BY <1>3, <2>2, <2>3, PointerStep
<1> QED
  BY <1>2, <1>3

(* What serves is a stack of approved releases on the baseline, for any    *)
(* number of proposals and of racing requests.                             *)
THEOREM ServesAStack == Spec => ImplementsRevisionStack
<1>1. ReleaseInv /\ StackInv /\ StackInv' /\ [Next]_vars =>
         [Stack!Next]_<<Lane, {p \in Proposals : Approved(p)}>>
  <2> SUFFICES ASSUME ReleaseInv, StackInv, StackInv', [Next]_vars
               PROVE  [Stack!Next]_<<Lane, {p \in Proposals : Approved(p)}>>
    OBVIOUS
  <2>1. CASE Next
    BY <2>1, StepStacks DEF ApprovedReleases
  <2>2. CASE UNCHANGED vars
    <3>1. AnchorsStay
      BY <2>2 DEF vars, AnchorsStay
    <3>2. Lane' = Lane
      BY <2>2, <3>1, LaneStays DEF vars
    <3>3. {p \in Proposals : Approved(p)}' = {p \in Proposals : Approved(p)}
      BY <2>2 DEF vars, Approved
    <3> QED
      BY <3>2, <3>3
  <2> QED
    BY <2>1, <2>2
<1>2. Spec => []StackInv
  BY StackStarts, StackSteps, ReleaseInvariant, PTL DEF Spec
<1> QED
  BY <1>1, <1>2, StackIsEmpty, ReleaseInvariant, PTL
     DEF Spec, ImplementsRevisionStack, Stack!Spec
=============================================================================
