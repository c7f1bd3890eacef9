---------------------------- MODULE AnalysisFront ----------------------------
(***************************************************************************)
(* The retrieval routes of apps/api/main.py in one API process: the public *)
(* analysis with its cache and its single flight, the owner's analysis,    *)
(* the approval sessions, and the decisions and rollbacks that clear the   *)
(* cache.  Every handler is a thread, and its steps interleave with those  *)
(* of the others.                                                          *)
(*                                                                         *)
(* The control plane and the serving plane, which RetrievalRelease models, *)
(* are reduced to what these routes see of them: a proposal has a          *)
(* lifecycle and the revision that was active when it was made, and an     *)
(* operation happens at once, raises before it changes anything, or raises *)
(* when what it changed is already visible.                                *)
(***************************************************************************)
EXTENDS ApprovalSessions, Sequences

CONSTANTS
    Handlers,    \* request threads
    Revisions,   \* code revisions that the process can run under
    CacheLimit,  \* _RETRIEVAL_ANALYSIS_CACHE_LIMIT
    Baseline     \* the stored baseline revision of the serving plane

ASSUME FrontAssumption ==
    /\ CacheLimit \in Nat \ {0}
    /\ None \notin Handlers \cup Proposals
    /\ Baseline \notin Proposals \cup {None}

VARIABLES
    pc,            \* the next step of each handler
    job,           \* what a handler has read or was given
    analysisLock,  \* _RETRIEVAL_ANALYSIS_LOCK: its holder
    cache,         \* _RETRIEVAL_ANALYSIS_CACHE, the oldest entry first
    codeRevision,  \* _api_code_revision()
    release,       \* the proposals of the control plane, by name
    active,        \* the active revision: a release, Baseline, or None
    excused        \* history: proposals that the cache may wrongly call open

frontVars == <<pc, job, analysisLock, cache, codeRevision, release, active,
               excused>>
vars == <<clock, sessions, issued, spent, accepted, pc, job, analysisLock,
          cache, codeRevision, release, active, excused>>
noSessionChange == UNCHANGED sessionVars

Lifecycle == {"pending_owner_review", "rejected", "approved_for_validation",
              "validation_failed", "active", "rolled_back"}
Release   == [parent : Proposals \cup {Baseline, None}, lifecycle : Lifecycle]
Entry     == [key : Revisions, proposal : Proposals \cup {None}]

Changed     == {"validate", "outcome", "rollback", "clear"}
LockedSteps == {"compute", "formalize", "store", "formalizeOwner"}
Steps       == {"idle", "contend", "enter", "check", "apply", "pointer"}
               \cup Changed \cup LockedSteps

Idle == [action |-> "none"]

TypeOK ==
    /\ SessionsTypeOK
    /\ pc \in [Handlers -> Steps]
    /\ \A h \in Handlers : pc[h] = "idle" <=> job[h] = Idle
    /\ analysisLock \in Handlers \cup {None}
    /\ \A h \in Handlers : pc[h] \in LockedSteps <=> analysisLock = h
    /\ cache \in Seq(Entry) /\ Len(cache) <= CacheLimit
    /\ \A i, j \in DOMAIN cache : cache[i].key = cache[j].key => i = j
    /\ codeRevision \in Revisions
    /\ DOMAIN release \subseteq Proposals
    /\ \A p \in DOMAIN release : release[p] \in Release
    /\ active \in DOMAIN release \cup {Baseline, None}
    /\ excused \subseteq DOMAIN release

Init ==
    /\ SessionsInit
    /\ pc = [h \in Handlers |-> "idle"]
    /\ job = [h \in Handlers |-> Idle]
    /\ analysisLock = None
    /\ cache = <<>>
    /\ codeRevision \in Revisions
    /\ release = [p \in {} |-> None]
    /\ active = None
    /\ excused = {}

Goto(h, step, work) ==
    pc' = [pc EXCEPT ![h] = step] /\ job' = [job EXCEPT ![h] = work]
Return(h) == Goto(h, "idle", Idle)

Pending(p) == release[p].lifecycle = "pending_owner_review"
Open(p)    == Pending(p) /\ release[p].parent = active
Move(p, lifecycle) == release' = [release EXCEPT ![p].lifecycle = lifecycle]

(* rollback_strategy_revision: what p was activated over, or the baseline   *)
(* revision, which the first activation stores.                             *)
RollbackTarget(p) ==
    IF release[p].parent = None THEN Baseline ELSE release[p].parent
-----------------------------------------------------------------------------
(* POST /agent/retrieval/analyze: _cached_public_retrieval_analysis.        *)

Cached(key) == {i \in DOMAIN cache : cache[i].key = key}

(* The revision of the process is read; a hit of the cache is returned.     *)
AskPublic(h) ==
    /\ pc[h] = "idle"
    /\ Cached(codeRevision) = {}
    /\ Goto(h, "contend", [action |-> "analyze", key |-> codeRevision,
                           proposal |-> None])
    /\ UNCHANGED <<analysisLock, cache, codeRevision, release, active, excused>>
    /\ noSessionChange

(* Without the lock the request is answered 409.                            *)
Contend(h) ==
    /\ pc[h] = "contend"
    /\ IF analysisLock = None
       THEN analysisLock' = h /\ Goto(h, "compute", job[h])
       ELSE UNCHANGED analysisLock /\ Return(h)
    /\ UNCHANGED <<cache, codeRevision, release, active, excused>>
    /\ noSessionChange

ComputeAnyway(h) ==
    /\ pc[h] = "compute"
    /\ \/ Return(h) /\ analysisLock' = None
       \/ Goto(h, "formalize", job[h]) /\ UNCHANGED analysisLock
    /\ UNCHANGED <<cache, codeRevision, release, active, excused>>
    /\ noSessionChange

(* Under the lock the cache is looked up again.  Without a hit the analysis *)
(* runs, which shares nothing with other requests: it raises, passes its    *)
(* gates, or does not and then makes no proposal.                           *)
Compute(h) ==
    /\ pc[h] = "compute"
    /\ \/ Return(h) /\ analysisLock' = None
       \/ /\ Cached(job[h].key) = {}
          /\ \/ Goto(h, "formalize", job[h])
             \/ Goto(h, "store", [job[h] EXCEPT !.proposal = None])
          /\ UNCHANGED analysisLock
    /\ UNCHANGED <<cache, codeRevision, release, active, excused>>
    /\ noSessionChange

(* A trace is new in every analysis, and so is the proposal it makes, with  *)
(* the revision that is active now as its parent.  Then the owner's route   *)
(* is done, and the public one goes on, or raises in the projection or as   *)
(* the directory of the proposal is synced.                                 *)
Formalize(h) ==
    /\ pc[h] \in {"formalize", "formalizeOwner"}
    /\ \/ /\ Return(h)
          /\ analysisLock' = None
          /\ UNCHANGED release
       \/ \E p \in Proposals \ DOMAIN release :
            /\ release' = [q \in DOMAIN release \cup {p} |->
                 IF q = p THEN [parent |-> active,
                                lifecycle |-> "pending_owner_review"]
                 ELSE release[q]]
            /\ \/ /\ pc[h] = "formalize"
                  /\ Goto(h, "store", [job[h] EXCEPT !.proposal = p])
                  /\ UNCHANGED analysisLock
               \/ Return(h) /\ analysisLock' = None
    /\ UNCHANGED <<cache, codeRevision, active, excused>>
    /\ noSessionChange

(* The entries that stay: the oldest go while there are too many.           *)
NewestOrOneMore(entries) ==
    IF Len(entries) > CacheLimit + 1 THEN Tail(entries) ELSE entries
Newest(entries) ==
    IF Len(entries) > CacheLimit THEN Tail(entries) ELSE entries

(* The projection says `pending_owner_review' of every proposal it is given *)
(* and may be out of date when it is stored.                                *)
Store(h) ==
    /\ pc[h] = "store"
    /\ LET p    == job[h].proposal
           full == Append(cache, [key |-> job[h].key, proposal |-> p])
       IN  /\ cache' = Newest(full)
           /\ excused' = excused \cup
                (IF p # None /\ ~ Open(p) THEN {p} ELSE {})
    /\ analysisLock' = None
    /\ Return(h)
    /\ UNCHANGED <<codeRevision, release, active>>
    /\ noSessionChange

(* POST /agent/retrieval/analyze-owner: _owner_retrieval_analysis takes the *)
(* same lock, or is answered 409, and never touches the cache.              *)
AskOwner(h) ==
    /\ pc[h] = "idle"
    /\ analysisLock = None
    /\ analysisLock' = h
    /\ Goto(h, "formalizeOwner", [action |-> "analyzeOwner"])
    /\ UNCHANGED <<cache, codeRevision, release, active, excused>>
    /\ noSessionChange
-----------------------------------------------------------------------------
(* POST /agent/retrieval/release/session.                                   *)
OpenSession(h) ==
    /\ pc[h] = "idle"
    /\ Cardinality({g \in Handlers : pc[g] = "enter"})
         < Cardinality(Tokens \ issued)   \* bound of the model
    /\ \E p \in DOMAIN release, action \in Requests :
         /\ IF action = "decision" THEN Pending(p)
            ELSE release[p].lifecycle = "active" /\ active = p
         /\ Goto(h, "enter", [action |-> action, proposal |-> p, since |-> clock])
    /\ UNCHANGED <<analysisLock, cache, codeRevision, release, active, excused>>
    /\ noSessionChange

EnterSession(h) ==
    /\ pc[h] = "enter"
    /\ Enter(job[h].action, job[h].proposal, job[h].since)
    /\ Return(h)
    /\ UNCHANGED <<analysisLock, cache, codeRevision, release, active, excused>>

(* POST /agent/retrieval/release/decision and .../rollback, with any token  *)
(* of the registry; other tokens are refused and change nothing.            *)
UseSession(h) ==
    /\ pc[h] = "idle"
    /\ \E t \in DOMAIN sessions, action \in Requests :
       \E p \in (IF action = "decision" THEN DOMAIN release
                 ELSE {sessions[t].proposal}) :
         /\ Pop(t)
         /\ Goto(h, "check", [action |-> action, proposal |-> p, token |-> t,
                              session |-> sessions[t]])
    /\ UNCHANGED <<analysisLock, cache, codeRevision, release, active, excused>>

CheckSession(h) ==
    /\ pc[h] = "check"
    /\ IF Valid(job[h].session, job[h].action, job[h].proposal)
       THEN /\ Accept(job[h].token)
            /\ Goto(h, IF job[h].action = "decision" THEN "apply" ELSE "pointer",
                    [action |-> job[h].action, proposal |-> job[h].proposal])
       ELSE Return(h) /\ noSessionChange
    /\ UNCHANGED <<analysisLock, cache, codeRevision, release, active, excused>>

(* The cached proposals that can no longer be approved.                     *)
Stale == {p \in DOMAIN release :
             ~ Open(p) /\ \E i \in DOMAIN cache : cache[i].proposal = p}

(* A handler that raises leaves the cache as it is: what it changed before  *)
(* stays hidden behind an entry until the cache is cleared the next time.   *)
(* That may happen as late as in the step that made the change, when what   *)
(* it writes after the file that counts fails: the pointer by client action *)
(* of a decision, the sync of a directory.                                  *)
Raise(h) ==
    /\ pc[h] \in Changed \cup {"apply", "pointer"}
    /\ excused' = IF pc[h] \in Changed THEN excused \cup Stale ELSE excused
    /\ Return(h)
    /\ UNCHANGED <<analysisLock, cache, codeRevision, release, active>>
    /\ noSessionChange

(* apply_retrieval_release_decision repeats the decision that is stored,    *)
(* refuses another one, and an approval whose parent is no longer active.   *)
ApplyDecision(h) ==
    /\ pc[h] = "apply"
    /\ LET p == job[h].proposal
       IN  \/ Pending(p) /\ Move(p, "rejected") /\ Goto(h, "clear", job[h])
           \/ /\ Open(p)
              /\ Move(p, "approved_for_validation")
              /\ Goto(h, "validate", job[h])
           \/ /\ ~ Pending(p) /\ UNCHANGED release
              /\ Goto(h, IF release[p].lifecycle = "rejected" THEN "clear"
                         ELSE "validate", job[h])
    /\ UNCHANGED <<analysisLock, cache, codeRevision, active, excused>>
    /\ noSessionChange

(* The activation envelope of a release without an outcome, and             *)
(* validate_and_activate_retrieval_strategy, which moves the pointer; what  *)
(* either of them raises becomes a failed validation, the sync of the       *)
(* directory after the pointer was replaced included.                       *)
Validate(h) ==
    LET p == job[h].proposal
        To(outcome) == Goto(h, "outcome", [action |-> "decision", proposal |-> p,
                                           outcome |-> outcome])
    IN
    /\ pc[h] = "validate"
    /\ \/ /\ release[p].lifecycle = "approved_for_validation"
          /\ active = release[p].parent
          /\ active' = p
          /\ To("active") \/ To("validation_failed")
       \/ UNCHANGED active /\ To("validation_failed")
    /\ UNCHANGED <<analysisLock, cache, codeRevision, release, excused>>
    /\ noSessionChange

(* An outcome is recorded once, as active only while the release serves; a  *)
(* repeated one changes nothing, every other is refused (Raise).            *)
RecordOutcome(h) ==
    LET p == job[h].proposal
        outcome == job[h].outcome
    IN
    /\ pc[h] = "outcome"
    /\ \/ /\ release[p].lifecycle = "approved_for_validation"
          /\ outcome = "active" => active = p
          /\ Move(p, outcome)
       \/ release[p].lifecycle = outcome /\ UNCHANGED release
    /\ Goto(h, "clear", job[h])
    /\ UNCHANGED <<analysisLock, cache, codeRevision, active, excused>>
    /\ noSessionChange

(* rollback_retrieval_strategy moves the pointer from the active release to *)
(* its recorded target, and never back to none.                             *)
RollBack(h) ==
    /\ pc[h] = "pointer"
    /\ release[job[h].proposal].lifecycle = "active" /\ active = job[h].proposal
    /\ active' = RollbackTarget(active)
    /\ Goto(h, "rollback", job[h])
    /\ UNCHANGED <<analysisLock, cache, codeRevision, release, excused>>
    /\ noSessionChange

(* Refused (Raise) when the pointer has moved on from the target.           *)
RecordRollback(h) ==
    /\ pc[h] = "rollback"
    /\ active = RollbackTarget(job[h].proposal)
    /\ Move(job[h].proposal, "rolled_back")
    /\ Goto(h, "clear", job[h])
    /\ UNCHANGED <<analysisLock, cache, codeRevision, active, excused>>
    /\ noSessionChange

(* A finished decision or rollback starts the cache anew.                   *)
ClearAfterDecision(h) ==
    /\ pc[h] = "clear"
    /\ IF job[h].action = "rollback" THEN UNCHANGED <<cache, excused>>
       ELSE cache' = <<>> /\ excused' = {}
    /\ Return(h)
    /\ UNCHANGED <<analysisLock, codeRevision, release, active>>
    /\ noSessionChange
ClearCache(h) ==
    /\ pc[h] = "clear"
    /\ cache' = <<>> /\ excused' = {}
    /\ Return(h)
    /\ UNCHANGED <<analysisLock, codeRevision, release, active>>
    /\ noSessionChange

(* The clock, and the code revision, which changes under the process when   *)
(* SEARCH_CODE_REVISION is not set.                                         *)
Elapse ==
    Tick /\ UNCHANGED frontVars

Deploy ==
    /\ codeRevision' \in Revisions \ {codeRevision}
    /\ UNCHANGED <<pc, job, analysisLock, cache, release, active, excused>>
    /\ noSessionChange

Next ==
    \/ Elapse \/ Deploy
    \/ \E h \in Handlers :
         \/ AskPublic(h) \/ AskOwner(h) \/ Contend(h) \/ Compute(h)
         \/ Formalize(h) \/ Store(h)
         \/ OpenSession(h) \/ EnterSession(h) \/ UseSession(h) \/ CheckSession(h)
         \/ ApplyDecision(h) \/ Validate(h) \/ RecordOutcome(h)
         \/ RollBack(h) \/ RecordRollback(h) \/ ClearCache(h) \/ Raise(h)

Spec == Init /\ [][Next]_vars
-----------------------------------------------------------------------------
(* What the public page offers for review can be approved: a cached         *)
(* proposal is pending and its parent is still the active revision, save    *)
(* while a decision or rollback is between its change and the clearing of   *)
(* the cache, and save the entries that were out of date already when they  *)
(* were stored, or when a decision or rollback raised in between.           *)
CachedProposalsAreOpen ==
    \A i \in DOMAIN cache :
        LET p == cache[i].proposal
        IN  \/ p = None
            \/ Open(p)
            \/ p \in excused
            \/ \E h \in Handlers : pc[h] \in Changed

(* While one request computes the analysis of a revision, the cache of that *)
(* revision stays empty: nobody else fills it, and no analysis is repeated. *)
OneAnalysisAtATime ==
    \A h \in Handlers :
        pc[h] \in {"formalize", "store"} => Cached(job[h].key) = {}
=============================================================================
