-------------------------- MODULE RetrievalRelease --------------------------
(***************************************************************************)
(* The Owner's release of a retrieval strategy: the control plane of       *)
(* agent/retrieval_release_control.py (immutable proposal, decision,       *)
(* outcome and rollback files under one file lock), the serving pointer of *)
(* catalog/serving.py, and the three Owner routes of apps/api/main.py that *)
(* drive both.  The routes are plain `def' handlers, so several run at     *)
(* once in the server's thread pool.                                       *)
(*                                                                         *)
(* One step of a handler is one section of the code between two points     *)
(* where another handler, the other lock, or a crash can intervene.        *)
(* Writes made inside one section of the control-plane lock are one step   *)
(* that writes a PREFIX of the files, in the code's order: a full disk or  *)
(* a crash stops the section after any of them, and nobody else can look   *)
(* at the files in between.                                                *)
(*                                                                         *)
(* A serving revision is the hash of a content that includes the proposal  *)
(* and its parent, so the revision a proposal activates is named by the    *)
(* proposal.                                                               *)
(***************************************************************************)
EXTENDS Naturals, FiniteSets

CONSTANTS
    Proposals,   \* one proposal per analysed trace
    Actions,     \* client action IDs chosen by the browser
    Handlers,    \* worker threads of the API process
    Receipts,    \* distinguishable contents of a validation receipt
    MaxTokens,   \* bound on outstanding session tokens of one kind
    SyncMayFail, \* may syncing the directory fail after a pointer moved?
    Absent,      \* a file that does not exist
    Baseline,    \* the immutable baseline revision
    NoRevision,  \* no active.json: legacy baseline serving
    Free         \* nobody holds the control-plane lock

Verdicts == {"approve", "reject"}
OutcomeLifecycles == {"active", "validation_failed"}

(* What the code stores: RetrievalReleaseDecision, RetrievalReleaseOutcome. *)
Decision == [proposal : Proposals, verdict : Verdicts, action : Actions]
Outcome  == [proposal : Proposals, lifecycle : OutcomeLifecycles,
             receipt : Receipts]
Pointers == Proposals \cup {Baseline, NoRevision}

ASSUME NamesAssumption ==
    /\ Baseline \notin Proposals
    /\ NoRevision \notin Proposals
    /\ Baseline # NoRevision
    /\ Absent \notin Pointers
    /\ Absent \notin Decision
    /\ Absent \notin Outcome
    /\ Free \notin Handlers

ASSUME BoundAssumption == MaxTokens \in Nat /\ SyncMayFail \in BOOLEAN

VARIABLES
    parent,           \* proposal -> parent_active_revision of its intent file
    proposed,         \* proposals whose immutable file is stored
    decisionIntent,   \* intents/<proposal>.json
    decisionRecords,  \* <decision_id>.json files
    decisionIndex,    \* by-proposal/<proposal>.json
    actionIndex,      \* by-client-action/<action>.json
    outcomeIntent, outcomeRecords, outcomeIndex,
    rollbackIntent, rollbackRecords, rollbackIndex,
    pointer,          \* active.json of the serving plane
    releaseLock,      \* holder of .control-plane.lock
    tokens,           \* outstanding single-use session tokens
    pc, job           \* where each handler is, and what it is doing

proposalVars == <<parent, proposed>>
decisionVars == <<decisionIntent, decisionRecords, decisionIndex, actionIndex>>
outcomeVars  == <<outcomeIntent, outcomeRecords, outcomeIndex>>
rollbackVars == <<rollbackIntent, rollbackRecords, rollbackIndex>>
storeVars    == <<proposalVars, decisionVars, outcomeVars, rollbackVars>>
vars == <<storeVars, pointer, releaseLock, tokens, pc, job>>

Waiting == {"decide", "envelope", "recordOutcome", "loadActive",
            "recordRollback"}
Locked  == {"evidence", "publishDecision", "publishOutcome",
            "publishRollback"}
Serving == {"activate", "sentinel", "rollback"}
Phases  == {"idle"} \cup Waiting \cup Locked \cup Serving

Job == [proposal : Proposals, decision : Decision \cup {Absent},
        outcome : Outcome \cup {Absent}]

TypeOK ==
    /\ parent \in [Proposals -> Pointers \cup {Absent}]
    /\ proposed \subseteq Proposals
    /\ decisionIntent \in [Proposals -> Decision \cup {Absent}]
    /\ decisionRecords \subseteq Decision
    /\ decisionIndex \in [Proposals -> Decision \cup {Absent}]
    /\ actionIndex \in [Actions -> Decision \cup {Absent}]
    /\ outcomeIntent \in [Proposals -> Outcome \cup {Absent}]
    /\ outcomeRecords \subseteq Outcome
    /\ outcomeIndex \in [Proposals -> Outcome \cup {Absent}]
    /\ rollbackIntent \subseteq Proposals
    /\ rollbackRecords \subseteq Proposals
    /\ rollbackIndex \subseteq Proposals
    /\ pointer \in Pointers
    /\ releaseLock \in Handlers \cup {Free}
    /\ tokens \in [{"decision", "rollback"} -> [Proposals -> 0 .. MaxTokens]]
    /\ pc \in [Handlers -> Phases]
    /\ job \in [Handlers -> Job \cup {Absent}]

Init ==
    /\ parent = [p \in Proposals |-> Absent]
    /\ proposed = {}
    /\ decisionIntent = [p \in Proposals |-> Absent]
    /\ decisionRecords = {}
    /\ decisionIndex = [p \in Proposals |-> Absent]
    /\ actionIndex = [a \in Actions |-> Absent]
    /\ outcomeIntent = [p \in Proposals |-> Absent]
    /\ outcomeRecords = {}
    /\ outcomeIndex = [p \in Proposals |-> Absent]
    /\ rollbackIntent = {}
    /\ rollbackRecords = {}
    /\ rollbackIndex = {}
    /\ pointer = NoRevision
    /\ releaseLock = Free
    /\ tokens = [k \in {"decision", "rollback"} |-> [p \in Proposals |-> 0]]
    /\ pc = [h \in Handlers |-> "idle"]
    /\ job = [h \in Handlers |-> Absent]
-----------------------------------------------------------------------------
(* Derived values.                                                         *)

(* rollback_strategy_revision of the revision that p activates: the pointer *)
(* it was activated over, or the immutable baseline when there was none.    *)
RollbackToBaseline(p) == Baseline      \* deviation: one level of history
RollbackTarget(p) == IF parent[p] = NoRevision THEN Baseline ELSE parent[p]

Approved(p) == /\ decisionIndex[p] # Absent
               /\ decisionIndex[p].verdict = "approve"

(* _release_lifecycle: the serving pointer overrides a recorded outcome.    *)
ReleaseLifecycle(p) ==
    CASE p \in rollbackIndex -> "rolled_back"
      [] p \notin rollbackIndex /\ outcomeIndex[p] # Absent ->
           IF outcomeIndex[p].lifecycle = "active" /\ pointer # p
           THEN "rolled_back"
           ELSE outcomeIndex[p].lifecycle
      [] p \notin rollbackIndex /\ outcomeIndex[p] = Absent
            /\ decisionIndex[p] # Absent ->
           IF Approved(p) THEN "approved_for_validation" ELSE "rejected"
      [] OTHER -> "pending_owner_review"
-----------------------------------------------------------------------------
(* Moving a handler.                                                       *)

Goto(h, phase) == /\ pc' = [pc EXCEPT ![h] = phase]
                  /\ UNCHANGED job

Return(h) == /\ pc' = [pc EXCEPT ![h] = "idle"]
             /\ job' = [job EXCEPT ![h] = Absent]

(* A step of one section that keeps, takes or gives back the lock.          *)
Acquire(h) == releaseLock = Free /\ releaseLock' = h
Holding(h) == releaseLock = h
Release    == releaseLock' = Free
-----------------------------------------------------------------------------
(* Proposals: create_or_load_retrieval_proposal.  The first call anchors    *)
(* the trace to the pointer it read; a retry rebuilds the proposal from     *)
(* that intent even when serving has moved.                                 *)

CreateOrLoadProposal(p) ==
    /\ releaseLock = Free
    /\ p \notin proposed
    /\ parent' = IF parent[p] = Absent
                 THEN [parent EXCEPT ![p] = pointer]
                 ELSE parent
    /\ \/ proposed' = proposed \cup {p}
       \/ parent[p] = Absent /\ UNCHANGED proposed  \* stopped between the files
    /\ UNCHANGED <<decisionVars, outcomeVars, rollbackVars, pointer,
                   releaseLock, tokens, pc, job>>
-----------------------------------------------------------------------------
(* Session tokens: /agent/retrieval/release/session.                        *)

OpenSession(kind, p) ==
    /\ releaseLock = Free
    /\ p \in proposed
    /\ ReleaseLifecycle(p) = IF kind = "decision"
                             THEN "pending_owner_review"
                             ELSE "active"
    /\ tokens[kind][p] < MaxTokens
    /\ tokens' = [tokens EXCEPT ![kind][p] = @ + 1]
    /\ UNCHANGED <<storeVars, pointer, releaseLock, pc, job>>

(* Deviation: a token is dropped whether or not it is still there.          *)
LoseSessionTwice(kind, p) ==
    /\ tokens' = [tokens EXCEPT ![kind][p] = @ - 1]
    /\ UNCHANGED <<storeVars, pointer, releaseLock, pc, job>>

(* A token expires, is evicted by newer ones, or is spent on a request that *)
(* it does not match.                                                       *)
LoseSession(kind, p) ==
    /\ tokens[kind][p] > 0
    /\ tokens' = [tokens EXCEPT ![kind][p] = @ - 1]
    /\ UNCHANGED <<storeVars, pointer, releaseLock, pc, job>>

ConsumeSession(h, kind, p) ==
    /\ pc[h] = "idle"
    /\ tokens[kind][p] > 0
    /\ tokens' = [tokens EXCEPT ![kind][p] = @ - 1]
-----------------------------------------------------------------------------
(* Decision route, first part: apply_retrieval_release_decision.            *)

BeginDecision(h, c) ==
    /\ ConsumeSession(h, "decision", c.proposal)
    /\ pc' = [pc EXCEPT ![h] = "decide"]
    /\ job' = [job EXCEPT ![h] = [proposal |-> c.proposal, decision |-> c,
                                  outcome |-> Absent]]
    /\ UNCHANGED <<storeVars, pointer, releaseLock>>

AfterDecision(h, c) ==
    IF c.verdict = "reject" THEN Return(h) ELSE Goto(h, "envelope")

Existing(c) == {decisionIndex[c.proposal], actionIndex[c.action]}

(* The proposal or the client action already has a different decision, or   *)
(* a first approval finds that serving has moved past the proposal.         *)
RefuseDecision(h) ==
    LET c == job[h].decision IN
    /\ pc[h] = "decide"
    /\ releaseLock = Free
    /\ \/ ~ (Existing(c) \subseteq {Absent, c})
       \/ /\ Existing(c) = {Absent}
          /\ c.verdict = "approve"
          /\ pointer # parent[c.proposal]
    /\ Return(h)
    /\ UNCHANGED <<storeVars, pointer, releaseLock, tokens>>

ReplayDecision(h) ==
    LET c == job[h].decision IN
    /\ pc[h] = "decide"
    /\ releaseLock = Free
    /\ Existing(c) = {c}
    /\ AfterDecision(h, c)
    /\ UNCHANGED <<storeVars, pointer, releaseLock, tokens>>

(* _validate_approval, up to the first read of the pointer.                 *)
StartApproval(h) ==
    LET c == job[h].decision IN
    /\ pc[h] = "decide"
    /\ Acquire(h)
    /\ Existing(c) = {Absent}
    /\ c.verdict = "approve"
    /\ pointer = parent[c.proposal]
    /\ Goto(h, "evidence")
    /\ UNCHANGED <<storeVars, pointer, tokens>>

(* A rejection needs no validation; a decision whose publication stopped    *)
(* half way is completed.                                                   *)
StartPublication(h) ==
    LET c == job[h].decision IN
    /\ pc[h] = "decide"
    /\ Acquire(h)
    /\ \/ Existing(c) = {Absent} /\ c.verdict = "reject"
       \/ Existing(c) = {Absent, c}
    /\ Goto(h, "publishDecision")
    /\ UNCHANGED <<storeVars, pointer, tokens>>

(* Deviation: the error path keeps the lock.                                *)
RevalidateEvidenceKeepingLock(h) ==
    /\ pc[h] = "evidence"
    /\ Holding(h)
    /\ \/ Return(h)
       \/ /\ pointer = parent[job[h].proposal]
          /\ Goto(h, "publishDecision")
    /\ UNCHANGED <<storeVars, pointer, tokens, releaseLock>>

(* _validate_approval, the rest: deployment and evidence may fail to        *)
(* validate, and the pointer is read a second time.                         *)
RevalidateEvidence(h) ==
    /\ pc[h] = "evidence"
    /\ Holding(h)
    /\ \/ Return(h) /\ Release
       \/ /\ pointer = parent[job[h].proposal]
          /\ Goto(h, "publishDecision")
          /\ UNCHANGED releaseLock
    /\ UNCHANGED <<storeVars, pointer, tokens>>

(* _prepare_decision_intent and _complete_decision_publication: the first n *)
(* of the four files are written.  Deviation first: the index too early.    *)
WriteDecisionIndexFirst(c, n) ==
    /\ decisionIntent' = IF n >= 1 THEN [decisionIntent EXCEPT ![c.proposal] = c]
                                   ELSE decisionIntent
    /\ decisionIndex' = IF n >= 2 THEN [decisionIndex EXCEPT ![c.proposal] = c]
                                  ELSE decisionIndex
    /\ decisionRecords' = IF n >= 3 THEN decisionRecords \cup {c}
                                    ELSE decisionRecords
    /\ actionIndex' = IF n >= 4 THEN [actionIndex EXCEPT ![c.action] = c]
                                ELSE actionIndex

WriteDecision(c, n) ==
    /\ decisionIntent' = IF n >= 1 THEN [decisionIntent EXCEPT ![c.proposal] = c]
                                   ELSE decisionIntent
    /\ decisionRecords' = IF n >= 2 THEN decisionRecords \cup {c}
                                    ELSE decisionRecords
    /\ decisionIndex' = IF n >= 3 THEN [decisionIndex EXCEPT ![c.proposal] = c]
                                  ELSE decisionIndex
    /\ actionIndex' = IF n >= 4 THEN [actionIndex EXCEPT ![c.action] = c]
                                ELSE actionIndex

(* An intent that announces another decision refuses this one.              *)
PublishDecision(h) ==
    LET c == job[h].decision IN
    /\ pc[h] = "publishDecision"
    /\ Holding(h)
    /\ \E n \in IF decisionIntent[c.proposal] \in {Absent, c} THEN 0 .. 4 ELSE {0} :
         /\ WriteDecision(c, n)
         /\ IF n = 4 THEN AfterDecision(h, c) ELSE Return(h)
    /\ Release
    /\ UNCHANGED <<proposalVars, outcomeVars, rollbackVars, pointer, tokens>>
-----------------------------------------------------------------------------
(* Decision route, second part: load_retrieval_activation_envelope and      *)
(* validate_and_activate_retrieval_strategy.  Whatever they raise becomes a *)
(* `validation_failed' outcome.                                             *)

WithOutcome(h, lifecycle) ==
    \E r \in Receipts :
        /\ pc' = [pc EXCEPT ![h] = "recordOutcome"]
        /\ job' = [job EXCEPT ![h].outcome =
                      [proposal |-> job[h].proposal, lifecycle |-> lifecycle,
                       receipt |-> r]]

FailValidation(h) == WithOutcome(h, "validation_failed")

LoadActivationEnvelope(h) ==
    LET p == job[h].proposal IN
    /\ pc[h] = "envelope"
    /\ \/ releaseLock = Free /\ Approved(p) /\ outcomeIndex[p] = Absent
          /\ Goto(h, "activate")
       \/ FailValidation(h)      \* already finalized, or the lock timed out
    /\ UNCHANGED <<storeVars, pointer, releaseLock, tokens>>

(* Deviation: a moved pointer is not turned into a failure.                 *)
CheckParentOnly(h) ==
    /\ pc[h] = "activate"
    /\ pointer = parent[job[h].proposal]
    /\ Goto(h, "sentinel")
    /\ UNCHANGED <<storeVars, pointer, releaseLock, tokens>>

(* The parent is compared with the pointer, then the sentinel queries run   *)
(* without any lock.                                                        *)
CheckParent(h) ==
    /\ pc[h] = "activate"
    /\ \/ pointer = parent[job[h].proposal] /\ Goto(h, "sentinel")
       \/ FailValidation(h)
    /\ UNCHANGED <<storeVars, pointer, releaseLock, tokens>>

(* Deviation: the pointer is not compared again after the sentinel.         *)
ActivateWithoutCompare(h) ==
    LET p == job[h].proposal IN
    /\ pc[h] = "sentinel"
    /\ \/ FailValidation(h) /\ UNCHANGED pointer
       \/ pointer' = p /\ WithOutcome(h, "active")
    /\ UNCHANGED <<storeVars, releaseLock, tokens>>

(* Under the serving lock: the compare-and-swap on the pointer, whose       *)
(* replacement is the last write.  The directory is synced after it, and    *)
(* that may still fail.                                                     *)
ValidateAndActivate(h) ==
    LET p == job[h].proposal IN
    /\ pc[h] = "sentinel"
    /\ \/ FailValidation(h) /\ UNCHANGED pointer
       \/ /\ pointer = parent[p]
          /\ pointer' = p
          /\ \/ WithOutcome(h, "active")
             \/ SyncMayFail /\ FailValidation(h)
    /\ UNCHANGED <<storeVars, releaseLock, tokens>>
-----------------------------------------------------------------------------
(* record_retrieval_release_outcome.                                        *)

(* Deviations: an outcome that another intent announced is not refused; an  *)
(* outcome is stored unchecked.                                             *)
OutcomeAcceptableAnyIntent(o) ==
    /\ Approved(o.proposal)
    /\ o.lifecycle = "active" => pointer = o.proposal
    /\ outcomeIndex[o.proposal] = Absent
StartOutcomeUnchecked(h) ==
    /\ pc[h] = "recordOutcome"
    /\ Acquire(h)
    /\ Goto(h, "publishOutcome")
    /\ UNCHANGED <<storeVars, pointer, tokens>>

OutcomeAcceptable(o) ==
    /\ Approved(o.proposal)
    /\ o.lifecycle = "active" => pointer = o.proposal
    /\ outcomeIndex[o.proposal] = Absent
    /\ outcomeIntent[o.proposal] \in {Absent, o}

StartOutcome(h) ==
    /\ pc[h] = "recordOutcome"
    /\ Acquire(h)
    /\ OutcomeAcceptable(job[h].outcome)
    /\ Goto(h, "publishOutcome")
    /\ UNCHANGED <<storeVars, pointer, tokens>>

(* An exact retry is replayed, everything else is refused: no file changes. *)
SettleOutcome(h) ==
    /\ pc[h] = "recordOutcome"
    /\ releaseLock = Free
    /\ ~ OutcomeAcceptable(job[h].outcome)
    /\ Return(h)
    /\ UNCHANGED <<storeVars, pointer, releaseLock, tokens>>

PublishOutcome(h) ==
    LET o == job[h].outcome
        p == o.proposal IN
    /\ pc[h] = "publishOutcome"
    /\ Holding(h)
    /\ \E n \in 0 .. 3 :
         /\ outcomeIntent' = IF n >= 1 THEN [outcomeIntent EXCEPT ![p] = o]
                                       ELSE outcomeIntent
         /\ outcomeRecords' = IF n >= 2 THEN outcomeRecords \cup {o}
                                        ELSE outcomeRecords
         /\ outcomeIndex' = IF n >= 3 THEN [outcomeIndex EXCEPT ![p] = o]
                                      ELSE outcomeIndex
    /\ Return(h)
    /\ Release
    /\ UNCHANGED <<proposalVars, decisionVars, rollbackVars, pointer, tokens>>
-----------------------------------------------------------------------------
(* Rollback route: the release must be the active one, the serving pointer  *)
(* is moved to the recorded target, then the rollback is recorded.          *)

BeginRollback(h, p) ==
    /\ ConsumeSession(h, "rollback", p)
    /\ pc' = [pc EXCEPT ![h] = "loadActive"]
    /\ job' = [job EXCEPT ![h] = [proposal |-> p, decision |-> Absent,
                                  outcome |-> Absent]]
    /\ UNCHANGED <<storeVars, pointer, releaseLock>>

LoadActiveRelease(h) ==
    /\ pc[h] = "loadActive"
    /\ releaseLock = Free
    /\ IF ReleaseLifecycle(job[h].proposal) = "active"
       THEN Goto(h, "rollback")
       ELSE Return(h)
    /\ UNCHANGED <<storeVars, pointer, releaseLock, tokens>>

(* rollback_retrieval_strategy, under the serving lock.                     *)
RollbackStrategy(h) ==
    LET p == job[h].proposal IN
    /\ pc[h] = "rollback"
    /\ \/ Return(h) /\ UNCHANGED pointer
       \/ /\ pointer = p
          /\ pointer' = RollbackTarget(p)
          /\ \/ Goto(h, "recordRollback")
             \/ SyncMayFail /\ Return(h)
    /\ UNCHANGED <<storeVars, releaseLock, tokens>>

RollbackAcceptable(p) ==
    /\ Approved(p)
    /\ outcomeIndex[p] # Absent
    /\ outcomeIndex[p].lifecycle = "active"
    /\ p \notin rollbackIndex
    /\ pointer = RollbackTarget(p)

StartRollback(h) ==
    /\ pc[h] = "recordRollback"
    /\ Acquire(h)
    /\ RollbackAcceptable(job[h].proposal)
    /\ Goto(h, "publishRollback")
    /\ UNCHANGED <<storeVars, pointer, tokens>>

SettleRollback(h) ==
    /\ pc[h] = "recordRollback"
    /\ releaseLock = Free
    /\ ~ RollbackAcceptable(job[h].proposal)
    /\ Return(h)
    /\ UNCHANGED <<storeVars, pointer, releaseLock, tokens>>

PublishRollback(h) ==
    LET p == job[h].proposal IN
    /\ pc[h] = "publishRollback"
    /\ Holding(h)
    /\ \E n \in 0 .. 3 :
         /\ rollbackIntent' = IF n >= 1 THEN rollbackIntent \cup {p}
                                        ELSE rollbackIntent
         /\ rollbackRecords' = IF n >= 2 THEN rollbackRecords \cup {p}
                                         ELSE rollbackRecords
         /\ rollbackIndex' = IF n >= 3 THEN rollbackIndex \cup {p}
                                       ELSE rollbackIndex
    /\ Return(h)
    /\ Release
    /\ UNCHANGED <<proposalVars, decisionVars, outcomeVars, pointer, tokens>>
-----------------------------------------------------------------------------
(* A call that waits for the control-plane lock gives up after five         *)
(* seconds, and any file it reads may be unreadable: the request ends with  *)
(* an error.                                                                *)
HandlerError(h) ==
    /\ pc[h] \in Waiting
    /\ Return(h)
    /\ UNCHANGED <<storeVars, pointer, releaseLock, tokens>>

(* The API process stops: files and pointer stay, the lock is dropped by    *)
(* the kernel, sessions and handlers are gone.                              *)
Crash ==
    /\ \E h \in Handlers : pc[h] # "idle"
    /\ releaseLock' = Free
    /\ tokens' = [k \in {"decision", "rollback"} |-> [p \in Proposals |-> 0]]
    /\ pc' = [h \in Handlers |-> "idle"]
    /\ job' = [h \in Handlers |-> Absent]
    /\ UNCHANGED <<storeVars, pointer>>

Control(h) == \/ RefuseDecision(h) \/ ReplayDecision(h) \/ StartApproval(h)
              \/ StartPublication(h) \/ RevalidateEvidence(h)
              \/ PublishDecision(h) \/ LoadActivationEnvelope(h)
              \/ StartOutcome(h) \/ SettleOutcome(h) \/ PublishOutcome(h)
              \/ LoadActiveRelease(h) \/ StartRollback(h)
              \/ SettleRollback(h) \/ PublishRollback(h) \/ HandlerError(h)

Handle(h) == \/ Control(h)
             \/ CheckParent(h) \/ ValidateAndActivate(h) \/ RollbackStrategy(h)

Next ==
    \/ \E p \in Proposals :
          \/ CreateOrLoadProposal(p)
          \/ \E k \in {"decision", "rollback"} :
                 OpenSession(k, p) \/ LoseSession(k, p)
    \/ \E h \in Handlers :
          \/ \E c \in Decision : BeginDecision(h, c)
          \/ \E p \in Proposals : BeginRollback(h, p)
          \/ Handle(h)
    \/ Crash

Spec == Init /\ [][Next]_vars

(* Every wait of a handler is bounded: by the lock's deadline, by the       *)
(* deadline of a sentinel query, by the code being straight-line.           *)
Fairness == \A h \in Handlers : WF_vars(Handle(h))

FairSpec == Spec /\ Fairness
-----------------------------------------------------------------------------
(* What must hold.                                                         *)

(* Every pointer file names a record that is stored and an intent that      *)
(* agrees with it, whatever write a crash or a full disk stopped at: the    *)
(* loaders of the control plane, which check exactly this, never refuse a   *)
(* file the control plane wrote.                                            *)
PublicationsResolve ==
    /\ \A p \in Proposals :
         /\ decisionIndex[p] # Absent =>
              decisionIndex[p] \in decisionRecords /\ decisionIndex[p].proposal = p
         /\ outcomeIndex[p] # Absent =>
              outcomeIndex[p] \in outcomeRecords /\ outcomeIndex[p].proposal = p
    /\ \A a \in Actions : actionIndex[a] # Absent =>
         /\ actionIndex[a].action = a
         /\ decisionIndex[actionIndex[a].proposal] = actionIndex[a]
    /\ rollbackIndex \subseteq rollbackRecords

(* "Record exactly one idempotent Owner decision": over crashes, retries    *)
(* and concurrent requests, one proposal never gets two decision records or *)
(* two outcome records, and a record is the one its intent announced.       *)
OneRecordPerProposal ==
    /\ \A c \in decisionRecords : decisionIntent[c.proposal] = c
    /\ \A o \in outcomeRecords : outcomeIntent[o.proposal] = o

(* _release_lifecycle never meets a combination of files it would refuse:   *)
(* an outcome belongs to an approved proposal, a rollback to an active one. *)
RecordsConsistent ==
    \A p \in Proposals :
        /\ outcomeIndex[p] # Absent => Approved(p)
        /\ p \in rollbackIndex => /\ outcomeIndex[p] # Absent
                                  /\ outcomeIndex[p].lifecycle = "active"

(* The serving pointer moves in two ways only: a release approved by the    *)
(* Owner is activated over the very revision it was proposed against, or a  *)
(* release recorded as active gives way to its recorded rollback target.    *)
(* No activation or rollback decided on an older pointer ever lands.        *)
ActivationMove ==
    /\ pointer' \in Proposals
    /\ pointer = parent[pointer']
    /\ Approved(pointer')
RollbackMove ==
    /\ pointer \in Proposals
    /\ pointer' = RollbackTarget(pointer)
    /\ outcomeIndex[pointer] # Absent
    /\ outcomeIndex[pointer].lifecycle = "active"
PointerMovesAreReleases ==
    [][pointer' # pointer => ActivationMove \/ RollbackMove]_vars

(* The lifecycle the API reports follows these edges only.  `rolled_back'   *)
(* can give way to `active' again (a release above it was rolled back), but *)
(* never once its own rollback is recorded; the other final states stay.    *)
LifecycleEdges ==
    {<<"pending_owner_review", "approved_for_validation">>,
     <<"pending_owner_review", "rejected">>,
     <<"approved_for_validation", "active">>,
     <<"approved_for_validation", "validation_failed">>,
     <<"approved_for_validation", "rolled_back">>,
     <<"active", "rolled_back">>,
     <<"rolled_back", "active">>}
LifecycleMoves ==
    [][\A p \in Proposals :
         LET before == ReleaseLifecycle(p)
             after  == ReleaseLifecycle(p)' IN
         before # after => /\ <<before, after>> \in LifecycleEdges
                           /\ p \notin rollbackIndex]_vars

(* A release whose recorded outcome is `validation_failed' is not the one   *)
(* that serves: its receipt says `active: False'.                           *)
FailedReleaseNotServing ==
    \A p \in Proposals :
        outcomeIndex[p] # Absent /\ outcomeIndex[p].lifecycle = "validation_failed"
            => pointer # p

(* A release whose rollback is recorded no longer serves.                   *)
RolledBackNotServing == pointer \notin rollbackIndex

(* What each section relies on after the lock is given back between two of  *)
(* them.  The lock belongs to the handler that is in a locked section; a    *)
(* request past the decision works for an approved proposal; the outcome    *)
(* files of a proposal do not move under the section that writes them; and  *)
(* a rollback under way is one of a release recorded as active.             *)
LockMatchesPhase == \A h \in Handlers : releaseLock = h <=> pc[h] \in Locked

DecisionPhases == {"decide", "evidence", "publishDecision"}
ApprovedPhases == {"envelope", "activate", "sentinel", "recordOutcome",
                   "publishOutcome"}
RollbackPhases == {"rollback", "recordRollback", "publishRollback"}

RecordedActive(p) == /\ outcomeIndex[p] # Absent
                     /\ outcomeIndex[p].lifecycle = "active"

JobMatchesPhase ==
    \A h \in Handlers :
        /\ pc[h] # "idle" => job[h] \in Job
        /\ pc[h] \in DecisionPhases =>
             /\ job[h].decision \in Decision
             /\ job[h].decision.proposal = job[h].proposal
        /\ pc[h] \in ApprovedPhases => Approved(job[h].proposal)
        /\ pc[h] \in {"recordOutcome", "publishOutcome"} =>
             /\ job[h].outcome \in Outcome
             /\ job[h].outcome.proposal = job[h].proposal
        /\ pc[h] = "publishOutcome" => outcomeIndex[job[h].proposal] = Absent
        /\ pc[h] = "publishOutcome" =>
             outcomeIntent[job[h].proposal] \in {Absent, job[h].outcome}
        /\ pc[h] \in RollbackPhases => RecordedActive(job[h].proposal)

(* Every revision that serves, and every revision some proposal would roll  *)
(* back to, has itself a known rollback target.                             *)
AnchorsResolve ==
    /\ pointer \in Proposals => parent[pointer] # Absent
    /\ \A p \in Proposals :
         parent[p] \in Proposals => parent[parent[p]] # Absent

(* The inductive invariant of the safety properties above.                  *)
ReleaseInv ==
    /\ TypeOK
    /\ LockMatchesPhase
    /\ JobMatchesPhase
    /\ PublicationsResolve
    /\ OneRecordPerProposal
    /\ RecordsConsistent
    /\ AnchorsResolve

(* Under fairness every request is answered, and the control-plane lock is  *)
(* always given back, also on the error paths.                              *)
EveryRequestEnds ==
    /\ \A h \in Handlers : pc[h] # "idle" ~> pc[h] = "idle"
    /\ releaseLock # Free ~> releaseLock = Free
=============================================================================
