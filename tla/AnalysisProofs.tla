--------------------------- MODULE AnalysisProofs ---------------------------
(***************************************************************************)
(* What is proved of the retrieval analysis, for any number of request     *)
(* threads, proposals, tokens and revisions, any judged pools and any      *)
(* limits.                                                                 *)
(*                                                                         *)
(* Of its routes in one API process: they never repeat an analysis that    *)
(* runs, offer only proposals that can be approved, let every token        *)
(* through once and forget none too early.                                 *)
(*                                                                         *)
(* Of the analysis itself: whatever fails, is retried or is lost from the  *)
(* store on the way, a verdict is always answered, with the verdict that   *)
(* the analysis without an agent comes to, and the answer shows a gain and *)
(* a loss when the tested candidates have both.                            *)
(* The evidence that it rests on passes every check it is put to, and the  *)
(* figures of an experiment that are counted apart agree.                  *)
(***************************************************************************)
EXTENDS AnalysisFront, StageAnalysis, RankingMetricsProofs, SequenceTheorems

(***************************************************************************)
(* The routes.                                                             *)
(***************************************************************************)

(* What a handler works on, at each of its steps.                           *)
Known == DOMAIN release
WorkFits(step, work) ==
    /\ step = "idle" <=> work = Idle
    /\ step \in {"contend", "compute", "formalize", "store"} =>
          work \in [action : {"analyze"}, key : Revisions, proposal : Known \cup {None}]
    /\ step = "formalizeOwner" => work \in [action : {"analyzeOwner"}]
    /\ step = "enter" => work \in [action : Requests, proposal : Proposals, since : Nat]
    /\ step = "check" =>
          /\ work \in [action : Requests, proposal : Proposals, token : Tokens,
                       session : Session]
          /\ work.action = "decision" => work.proposal \in Known
    /\ step \in {"apply", "validate"} =>
          work \in [action : {"decision"}, proposal : Known]
    /\ step = "outcome" =>
          work \in [action : {"decision"}, proposal : Known,
                    outcome : {"active", "validation_failed"}]
    /\ step \in {"pointer", "rollback"} =>
          work \in [action : {"rollback"}, proposal : Proposals]
    /\ step = "clear" => work.action \in Requests

JobsFit == /\ pc \in [Handlers -> Steps]
           /\ job = [h \in Handlers |-> job[h]]
           /\ \A h \in Handlers : WorkFits(pc[h], job[h])

(* The analysis lock is held by the handler that is between taking and      *)
(* leaving it.                                                              *)
LockFits == /\ analysisLock \in Handlers \cup {None}
            /\ \A h \in Handlers : pc[h] \in LockedSteps <=> analysisLock = h

ReleasesFit ==
    /\ Known \subseteq Proposals
    /\ release = [p \in Known |-> release[p]]
    /\ \A p \in Known : release[p] \in Release /\ release[p].parent \in Known \cup {Baseline, None}
    /\ active \in Known \cup {Baseline, None}
    /\ excused \subseteq Known
    /\ codeRevision \in Revisions

KnownEntry == [key : Revisions, proposal : Known \cup {None}]
CacheFits ==
    /\ cache \in Seq(KnownEntry) /\ Len(cache) <= CacheLimit
    /\ \A i, j \in DOMAIN cache : cache[i].key = cache[j].key => i = j

FrontInv == /\ SessionsTypeOK
            /\ JobsFit
            /\ LockFits
            /\ ReleasesFit
            /\ CacheFits
            /\ OneAnalysisAtATime
            /\ CachedProposalsAreOpen
-----------------------------------------------------------------------------
(* Proposals are never forgotten, and keep their parent.                    *)

LEMMA ReleasesStay ==
    ASSUME FrontInv, [Next]_vars
    PROVE  ReleasesFit' /\ Known \subseteq Known'
<1> USE DEF noSessionChange, frontVars
<1>1. ReleasesFit /\ JobsFit
  BY DEF FrontInv
<1>2. CASE /\ UNCHANGED <<release, active>> /\ codeRevision' \in Revisions
          /\ excused' \in {excused, {}}
  BY <1>1, <1>2 DEF ReleasesFit, Known
<1>3. ASSUME NEW h \in Handlers, Formalize(h)
      PROVE  ReleasesFit' /\ Known \subseteq Known'
  <2>1. CASE UNCHANGED release
    BY <1>1, <1>2, <1>3, <2>1 DEF Formalize, ReleasesFit
  <2>2. CASE ~ UNCHANGED release
    <3>1. PICK p \in Proposals \ DOMAIN release :
             release' = [q \in DOMAIN release \cup {p} |->
                 IF q = p THEN [parent |-> active,
                                lifecycle |-> "pending_owner_review"]
                 ELSE release[q]]
      BY <1>3, <2>2 DEF Formalize
    <3>2. Known' = Known \cup {p}
      BY <3>1 DEF Known
    <3>3. release' = [q \in Known' |-> release'[q]]
      BY <3>1, <3>2 DEF Known
    <3>4. release'[p] = [parent |-> active, lifecycle |-> "pending_owner_review"]
      BY <3>1
    <3>5. \A q \in Known : release'[q] = release[q]
      BY <3>1 DEF Known
    <3>6. active \in Known \cup {Baseline, None} /\ active \in Proposals \cup {Baseline, None}
      BY <1>1 DEF ReleasesFit
    <3>7. release'[p] \in Release /\ release'[p].parent \in Known \cup {Baseline, None}
      BY <3>4, <3>6 DEF Release, Lifecycle
    <3>8. UNCHANGED <<active, excused, codeRevision>>
      BY <1>3 DEF Formalize
    <3> QED
      BY <1>1, <3>2, <3>3, <3>5, <3>7, <3>8 DEF ReleasesFit
  <2> QED
    BY <2>1, <2>2
<1>4. ASSUME NEW p, NEW lifecycle \in Lifecycle, Move(p, lifecycle),
             UNCHANGED <<active, excused, codeRevision>>
      PROVE  ReleasesFit' /\ Known \subseteq Known'
  <2>1. /\ DOMAIN release' = DOMAIN release
        /\ release' = [q \in DOMAIN release |->
                         IF q = p THEN [release[q] EXCEPT !.lifecycle = lifecycle]
                         ELSE release[q]]
    BY <1>1, <1>4 DEF Move, ReleasesFit, Known
  <2>2. \A q \in DOMAIN release : /\ release'[q] \in Release
                                  /\ release'[q].parent = release[q].parent
    BY <1>1, <2>1 DEF ReleasesFit, Known, Release
  <2> QED
    BY <1>1, <1>4, <2>1, <2>2 DEF ReleasesFit, Known
<1>5. ASSUME NEW h \in Handlers, Store(h)
      PROVE  ReleasesFit' /\ Known \subseteq Known'
  <2>1. job[h].proposal \in Known \cup {None}
    BY <1>1, <1>5 DEF Store, JobsFit, WorkFits
  <2>2. excused' \subseteq Known
    BY <1>1, <1>5, <2>1 DEF Store, ReleasesFit
  <2> QED
    BY <1>1, <1>5, <2>2 DEF Store, ReleasesFit, Known
<1>6. ASSUME NEW h \in Handlers, ApplyDecision(h)
      PROVE  ReleasesFit' /\ Known \subseteq Known'
  BY <1>1, <1>2, <1>4, <1>6 DEF ApplyDecision, Lifecycle, ReleasesFit
<1>7. ASSUME NEW h \in Handlers, RecordOutcome(h)
      PROVE  ReleasesFit' /\ Known \subseteq Known'
  <2>1. job[h].outcome \in Lifecycle
    BY <1>1, <1>7 DEF RecordOutcome, JobsFit, WorkFits, Lifecycle
  <2> QED
    BY <1>1, <1>2, <1>4, <1>7, <2>1 DEF RecordOutcome, ReleasesFit
<1>8. ASSUME NEW h \in Handlers, Validate(h) \/ RollBack(h) \/ Raise(h)
      PROVE  ReleasesFit' /\ Known \subseteq Known'
  <2>1. pc[h] = "validate" => job[h].proposal \in Known
    BY <1>1 DEF JobsFit, WorkFits
  <2>2. /\ active' \in Known \cup {Baseline, None} /\ excused' \subseteq Known
        /\ UNCHANGED <<release, codeRevision>>
    <3>1. CASE Validate(h)
      BY <1>1, <2>1, <3>1 DEF Validate, ReleasesFit
    <3>2. CASE RollBack(h)
      <4>1. active \in Known
        BY <1>1, <3>2, FrontAssumption DEF RollBack, JobsFit, WorkFits, ReleasesFit
      <4> QED
        BY <1>1, <3>2, <4>1 DEF RollBack, RollbackTarget, ReleasesFit
    <3>3. CASE Raise(h)
      BY <1>1, <3>3 DEF Raise, Stale, ReleasesFit, Known
    <3> QED
      BY <1>8, <3>1, <3>2, <3>3
  <2> QED
    BY <1>1, <2>2 DEF ReleasesFit, Known
<1>9. ASSUME NEW h \in Handlers, RecordRollback(h)
      PROVE  ReleasesFit' /\ Known \subseteq Known'
  BY <1>4, <1>9 DEF RecordRollback, Lifecycle
<1>10. \/ /\ UNCHANGED <<release, active>> /\ codeRevision' \in Revisions
          /\ excused' \in {excused, {}}
       \/ \E h \in Handlers : \/ Formalize(h) \/ Store(h) \/ ApplyDecision(h)
                              \/ RecordOutcome(h) \/ Validate(h) \/ RollBack(h)
                              \/ Raise(h) \/ RecordRollback(h)
  BY <1>1 DEF Next, vars, Elapse, Deploy, AskPublic, AskOwner, Contend, Compute,
              OpenSession, EnterSession, UseSession, CheckSession, ClearCache, ReleasesFit
<1> QED
  BY <1>2, <1>3, <1>5, <1>6, <1>7, <1>8, <1>9, <1>10

-----------------------------------------------------------------------------
(* What handlers work on.                                                   *)

(* One handler moves, the others keep what they work on.                    *)
LEMMA OneMoves ==
    ASSUME JobsFit, Known \subseteq Known', NEW h \in Handlers, NEW step \in Steps, NEW work,
           Goto(h, step, work), WorkFits(step, work)'
    PROVE  JobsFit'
<1>1. ASSUME NEW g \in Handlers PROVE WorkFits(pc[g], job[g])'
  <2>1. CASE g = h
    <3>1. pc'[g] = step /\ job'[g] = work
      BY <2>1 DEF Goto, JobsFit
    <3> QED
      BY <3>1 DEF WorkFits
  <2>2. CASE g # h
    <3>1. pc'[g] = pc[g] /\ job'[g] = job[g]
      BY <2>2 DEF Goto, JobsFit
    <3>2. WorkFits(pc[g], job[g])
      BY DEF JobsFit
    <3>3. PICK s, w : s = pc[g] /\ w = job[g]
      OBVIOUS
    <3>4. WorkFits(s, w)
      BY <3>2, <3>3
    <3>5. WorkFits(s, w)'
      BY <3>4 DEF WorkFits
    <3>6. s = pc'[g] /\ w = job'[g]
      BY <3>1, <3>3
    <3> QED
      BY <3>5, <3>6
  <2> QED
    BY <2>1, <2>2
<1>2. pc' \in [Handlers -> Steps] /\ job' = [g \in Handlers |-> job'[g]]
  BY DEF Goto, JobsFit
<1> QED
  BY <1>1, <1>2 DEF JobsFit

LEMMA OneReturns ==
    ASSUME JobsFit, Known \subseteq Known', NEW h \in Handlers, Return(h)
    PROVE  JobsFit'
<1>1. PICK w : w = Idle
  OBVIOUS
<1>2. WorkFits("idle", w)'
  BY <1>1 DEF WorkFits
<1>3. Goto(h, "idle", w) /\ "idle" \in Steps
  BY <1>1 DEF Return, Steps
<1> QED
  BY <1>2, <1>3, OneMoves

LEMMA StepWorks ==
    ASSUME FrontInv, [Next]_vars
    PROVE  JobsFit'
<1>1. SessionsTypeOK /\ JobsFit /\ ReleasesFit /\ Known \subseteq Known'
  BY ReleasesStay DEF FrontInv
<1>2. CASE UNCHANGED <<pc, job>>
  <2>1. ASSUME NEW g \in Handlers PROVE WorkFits(pc[g], job[g])'
    <3>1. PICK s, w : s = pc[g] /\ w = job[g]
      OBVIOUS
    <3>2. WorkFits(s, w)
      BY <1>1, <3>1 DEF JobsFit
    <3>3. WorkFits(s, w)'
      BY <1>1, <3>2 DEF WorkFits
    <3>4. s = pc'[g] /\ w = job'[g]
      BY <1>2, <3>1
    <3> QED
      BY <3>3, <3>4
  <2> QED
    BY <1>1, <1>2, <2>1 DEF JobsFit
<1>3. ASSUME NEW h \in Handlers, Return(h)
      PROVE  JobsFit'
  BY <1>1, <1>3, OneReturns
<1>4. ASSUME NEW h \in Handlers, NEW w, w = job[h], Goto(h, "compute", w) \/ Goto(h, "formalize", w),
             pc[h] \in {"contend", "compute"}
      PROVE  JobsFit'
  <2>1. w \in [action : {"analyze"}, key : Revisions, proposal : Known \cup {None}]
    BY <1>1, <1>4 DEF JobsFit, WorkFits
  <2>2. WorkFits("compute", w)' /\ WorkFits("formalize", w)'
    BY <1>1, <2>1 DEF WorkFits, Idle
  <2> QED
    BY <1>1, <1>4, <2>2, OneMoves DEF Steps, LockedSteps
<1>5. ASSUME NEW h \in Handlers, NEW p \in Known' \cup {None}, pc[h] \in {"compute", "formalize"},
             Goto(h, "store", [job[h] EXCEPT !.proposal = p])
      PROVE  JobsFit'
  <2>1. PICK w : w = [job[h] EXCEPT !.proposal = p]
    OBVIOUS
  <2>2. job[h] \in [action : {"analyze"}, key : Revisions, proposal : Known \cup {None}]
    BY <1>1, <1>5 DEF JobsFit, WorkFits
  <2>3. w \in [action : {"analyze"}, key : Revisions, proposal : Known' \cup {None}]
    BY <2>1, <2>2
  <2>4. WorkFits("store", w)'
    BY <2>3 DEF WorkFits, Idle
  <2> QED
    BY <1>1, <1>5, <2>1, <2>4, OneMoves DEF Steps, LockedSteps
<1>6. ASSUME NEW h \in Handlers, AskPublic(h) \/ AskOwner(h) PROVE JobsFit'
  <2>1. PICK w : w = [action |-> "analyze", key |-> codeRevision, proposal |-> None]
    OBVIOUS
  <2>2. WorkFits("contend", w)'
    BY <1>1, <2>1 DEF WorkFits, Idle, ReleasesFit
  <2>3. PICK v : v = [action |-> "analyzeOwner"]
    OBVIOUS
  <2>4. WorkFits("formalizeOwner", v)'
    BY <2>3 DEF WorkFits, Idle
  <2> QED
    BY <1>1, <1>6, <2>1, <2>2, <2>3, <2>4, OneMoves DEF AskPublic, AskOwner, Steps, LockedSteps
<1>7. ASSUME NEW h \in Handlers, Formalize(h) PROVE JobsFit'
  BY <1>3, <1>5, <1>7 DEF Formalize, Known
<1>8. ASSUME NEW h \in Handlers, OpenSession(h) PROVE JobsFit'
  <2>1. PICK p \in Known, action \in Requests :
           Goto(h, "enter", [action |-> action, proposal |-> p, since |-> clock])
    BY <1>8 DEF OpenSession, Known
  <2>2. PICK w : w = [action |-> action, proposal |-> p, since |-> clock]
    OBVIOUS
  <2>3. WorkFits("enter", w)'
    BY <1>1, <2>2 DEF WorkFits, Idle, ReleasesFit, SessionsTypeOK, Requests
  <2> QED
    BY <1>1, <2>1, <2>2, <2>3, OneMoves DEF Steps
<1>9. ASSUME NEW h \in Handlers, UseSession(h) PROVE JobsFit'
  <2>1. PICK t, action, p :
           /\ t \in DOMAIN sessions /\ action \in Requests
           /\ p \in (IF action = "decision" THEN DOMAIN release ELSE {sessions[t].proposal})
           /\ Goto(h, "check", [action |-> action, proposal |-> p, token |-> t,
                                session |-> sessions[t]])
    BY <1>9 DEF UseSession
  <2>2. PICK w : w = [action |-> action, proposal |-> p, token |-> t,
                      session |-> sessions[t]]
    OBVIOUS
  <2>3. sessions[t] \in Session /\ t \in Tokens
    BY <1>1, <2>1 DEF SessionsTypeOK
  <2>4. p \in Proposals /\ (action = "decision" => p \in Known)
    BY <1>1, <2>1, <2>3 DEF ReleasesFit, Known, Session
  <2>5. WorkFits("check", w)'
    BY <1>1, <2>1, <2>2, <2>3, <2>4 DEF WorkFits, Idle, Requests
  <2> QED
    BY <1>1, <2>1, <2>2, <2>5, OneMoves DEF Steps
<1>10. ASSUME NEW h \in Handlers, CheckSession(h) PROVE JobsFit'
  <2>1. CASE Valid(job[h].session, job[h].action, job[h].proposal)
    <3>1. PICK w : w = [action |-> job[h].action, proposal |-> job[h].proposal]
      OBVIOUS
    <3>2. /\ job[h].action \in Requests /\ job[h].proposal \in Proposals
          /\ job[h].action = "decision" => job[h].proposal \in Known
      BY <1>1, <1>10 DEF CheckSession, JobsFit, WorkFits
    <3>3. PICK s : s = IF job[h].action = "decision" THEN "apply" ELSE "pointer"
      OBVIOUS
    <3>4. WorkFits(s, w)'
      BY <1>1, <3>1, <3>2, <3>3 DEF WorkFits, Idle, Requests
    <3>5. Goto(h, s, w) /\ s \in Steps
      BY <1>10, <2>1, <3>1, <3>3 DEF CheckSession, Steps
    <3> QED
      BY <1>1, <3>4, <3>5, OneMoves
  <2>2. CASE ~ Valid(job[h].session, job[h].action, job[h].proposal)
    BY <1>3, <1>10, <2>2 DEF CheckSession
  <2> QED
    BY <2>1, <2>2
<1>11. ASSUME NEW h \in Handlers, ApplyDecision(h) PROVE JobsFit'
  <2>1. PICK w : w = job[h]
    OBVIOUS
  <2>2. w \in [action : {"decision"}, proposal : Known]
    BY <1>1, <1>11, <2>1 DEF ApplyDecision, JobsFit, WorkFits
  <2>3. WorkFits("clear", w)' /\ WorkFits("validate", w)'
    BY <1>1, <2>2 DEF WorkFits, Idle, Requests
  <2>4. \E s \in {"clear", "validate"} : Goto(h, s, w)
    BY <1>11, <2>1 DEF ApplyDecision
  <2> QED
    BY <1>1, <2>3, <2>4, OneMoves DEF Steps, Changed
<1>12. ASSUME NEW h \in Handlers, Validate(h) PROVE JobsFit'
  <2>1. PICK outcome \in {"active", "validation_failed"} :
           Goto(h, "outcome", [action |-> "decision", proposal |-> job[h].proposal,
                               outcome |-> outcome])
    BY <1>12 DEF Validate
  <2>2. PICK w : w = [action |-> "decision", proposal |-> job[h].proposal,
                      outcome |-> outcome]
    OBVIOUS
  <2>3. job[h].proposal \in Known
    BY <1>1, <1>12 DEF Validate, JobsFit, WorkFits
  <2>4. WorkFits("outcome", w)'
    BY <1>1, <2>2, <2>3 DEF WorkFits, Idle
  <2> QED
    BY <1>1, <2>1, <2>2, <2>4, OneMoves DEF Steps, Changed
<1>13. ASSUME NEW h \in Handlers, RecordOutcome(h) \/ RecordRollback(h) \/ RollBack(h)
       PROVE  JobsFit'
  <2>1. PICK w : w = job[h]
    OBVIOUS
  <2>2. /\ pc[h] \in {"outcome", "rollback", "pointer"}
        /\ w.action \in Requests
        /\ pc[h] = "pointer" => w \in [action : {"rollback"}, proposal : Proposals]
    BY <1>1, <1>13, <2>1 DEF RecordOutcome, RecordRollback, RollBack, JobsFit, WorkFits, Requests
  <2>3. WorkFits("clear", w)'
    BY <2>2 DEF WorkFits, Idle, Requests
  <2>4. pc[h] = "pointer" => WorkFits("rollback", w)'
    BY <2>2 DEF WorkFits, Idle
  <2>5. \/ pc[h] = "pointer" /\ Goto(h, "rollback", w)
        \/ Goto(h, "clear", w)
    BY <1>13, <2>1 DEF RecordOutcome, RecordRollback, RollBack
  <2> QED
    BY <1>1, <2>3, <2>4, <2>5, OneMoves DEF Steps, Changed
<1>14. ASSUME NEW h \in Handlers, Contend(h) \/ Compute(h) PROVE JobsFit'
  BY <1>1, <1>3, <1>4, <1>5, <1>14 DEF Contend, Compute
<1>15. ASSUME NEW h \in Handlers, Store(h) \/ EnterSession(h) \/ ClearCache(h) \/ Raise(h)
       PROVE  JobsFit'
  BY <1>3, <1>15 DEF Store, EnterSession, ClearCache, Raise
<1>16. CASE Elapse \/ Deploy \/ UNCHANGED vars
  BY <1>2, <1>16 DEF Elapse, Deploy, frontVars, vars
<1> QED
  BY <1>6, <1>7, <1>8, <1>9, <1>10, <1>11, <1>12, <1>13, <1>14, <1>15, <1>16 DEF Next

-----------------------------------------------------------------------------
(* The analysis lock and the cache.                                         *)

LEMMA StepLocks ==
    ASSUME FrontInv, [Next]_vars
    PROVE  LockFits'
<1>1. JobsFit /\ LockFits
  BY DEF FrontInv
<1>2. CASE UNCHANGED <<pc, analysisLock>>
  BY <1>1, <1>2 DEF LockFits
<1>3. ASSUME NEW h \in Handlers, NEW step, NEW work, Goto(h, step, work), UNCHANGED analysisLock,
             step \in LockedSteps <=> pc[h] \in LockedSteps
      PROVE  LockFits'
  BY <1>1, <1>3 DEF LockFits, JobsFit, Goto
<1>4. ASSUME NEW h \in Handlers, NEW step \in LockedSteps, NEW work, Goto(h, step, work),
             analysisLock = None, analysisLock' = h
      PROVE  LockFits'
  BY <1>1, <1>4, FrontAssumption DEF LockFits, JobsFit, Goto
<1>5. ASSUME NEW h \in Handlers, Return(h), pc[h] \in LockedSteps, analysisLock' = None
      PROVE  LockFits'
  BY <1>1, <1>5, FrontAssumption DEF LockFits, JobsFit, Goto, Return, LockedSteps
<1>6. ASSUME NEW h \in Handlers, Return(h), pc[h] \notin LockedSteps, UNCHANGED analysisLock
      PROVE  LockFits'
  BY <1>3, <1>6 DEF Return, LockedSteps
<1>7. ASSUME NEW h \in Handlers, AskPublic(h) \/ AskOwner(h) \/ Contend(h) PROVE LockFits'
  BY <1>3, <1>4, <1>6, <1>7 DEF AskPublic, AskOwner, Contend, LockedSteps
<1>8. ASSUME NEW h \in Handlers, Compute(h) \/ Formalize(h) \/ Store(h) PROVE LockFits'
  BY <1>3, <1>5, <1>8 DEF Compute, Formalize, Store, LockedSteps
<1>9. ASSUME NEW h \in Handlers, OpenSession(h) \/ UseSession(h) PROVE LockFits'
  BY <1>3, <1>9 DEF OpenSession, UseSession, LockedSteps
<1>10. ASSUME NEW h \in Handlers, CheckSession(h) PROVE LockFits'
  BY <1>3, <1>6, <1>10 DEF CheckSession, LockedSteps
<1>11. ASSUME NEW h \in Handlers, ApplyDecision(h) PROVE LockFits'
  BY <1>3, <1>11 DEF ApplyDecision, LockedSteps
<1>12. ASSUME NEW h \in Handlers, Validate(h) \/ RecordOutcome(h) \/ RollBack(h) \/ RecordRollback(h)
       PROVE  LockFits'
  BY <1>3, <1>12 DEF Validate, RecordOutcome, RollBack, RecordRollback, LockedSteps
<1>13. ASSUME NEW h \in Handlers, EnterSession(h) \/ ClearCache(h) \/ Raise(h) PROVE LockFits'
  BY <1>6, <1>13 DEF EnterSession, ClearCache, Raise, LockedSteps, Changed
<1>14. CASE Elapse \/ Deploy \/ UNCHANGED vars
  BY <1>2, <1>14 DEF Elapse, Deploy, frontVars, vars
<1> QED
  BY <1>7, <1>8, <1>9, <1>10, <1>11, <1>12, <1>13, <1>14 DEF Next

(* Storing a result keeps the newest entries, the new one the last.         *)
LEMMA NewestEntries ==
    ASSUME NEW S, NEW entries \in Seq(S), NEW e \in S, Len(entries) <= CacheLimit
    PROVE  LET kept == Newest(Append(entries, e)) IN
           /\ kept \in Seq(S) /\ Len(kept) <= CacheLimit
           /\ \E from \in {0, 1} :
                /\ Len(kept) = Len(entries) + 1 - from
                /\ \A i \in DOMAIN kept :
                      \/ i + from = Len(entries) + 1 /\ kept[i] = e
                      \/ i + from \in DOMAIN entries /\ kept[i] = entries[i + from]
<1> DEFINE full == Append(entries, e)
<1>1. /\ full \in Seq(S) /\ Len(full) = Len(entries) + 1 /\ Len(entries) \in Nat
      /\ \A i \in 1 .. Len(entries) : full[i] = entries[i]
      /\ full[Len(entries) + 1] = e
  OBVIOUS
<1>2. CacheLimit \in Nat
  BY FrontAssumption
<1> HIDE DEF full
<1>3. CASE Len(full) > CacheLimit
  <2>1. Newest(full) = Tail(full)
    BY <1>3 DEF Newest
  <2>2. /\ Tail(full) \in Seq(S) /\ Len(Tail(full)) = Len(entries)
        /\ \A i \in 1 .. Len(entries) : Tail(full)[i] = full[i + 1]
    BY <1>1
  <2>3. \A i \in 1 .. Len(entries) :
           \/ i + 1 = Len(entries) + 1 /\ Tail(full)[i] = e
           \/ i + 1 \in DOMAIN entries /\ Tail(full)[i] = entries[i + 1]
    BY <1>1, <2>2
  <2>4. DOMAIN Tail(full) = 1 .. Len(entries)
    BY <2>2
  <2> QED
    BY <1>1, <2>1, <2>2, <2>3, <2>4 DEF full
<1>4. CASE ~ (Len(full) > CacheLimit)
  <2>1. Newest(full) = full
    BY <1>4 DEF Newest
  <2>2. \A i \in DOMAIN full : \/ i + 0 = Len(entries) + 1 /\ full[i] = e
                               \/ i + 0 \in DOMAIN entries /\ full[i] = entries[i + 0]
    BY <1>1
  <2> QED
    BY <1>1, <1>2, <1>4, <2>1, <2>2 DEF full
<1> QED
  BY <1>3, <1>4

LEMMA StepCaches ==
    ASSUME FrontInv, [Next]_vars
    PROVE  CacheFits'
<1>1. JobsFit /\ LockFits /\ CacheFits /\ OneAnalysisAtATime /\ Known \subseteq Known'
  BY ReleasesStay DEF FrontInv
<1>2. PICK S : S = KnownEntry'
  OBVIOUS
<1>3. KnownEntry \subseteq S
  BY <1>1, <1>2 DEF KnownEntry
<1>4. CASE UNCHANGED cache
  BY <1>1, <1>2, <1>3, <1>4 DEF CacheFits
<1>5. CASE cache' = <<>>
  <2>1. <<>> \in Seq(S) /\ Len(<<>>) = 0 /\ DOMAIN <<>> = {}
    OBVIOUS
  <2> QED
    BY <1>2, <1>5, <2>1, FrontAssumption DEF CacheFits
<1>6. ASSUME NEW h \in Handlers, Store(h) PROVE CacheFits'
  <2>1. PICK e : e = [key |-> job[h].key, proposal |-> job[h].proposal]
    OBVIOUS
  <2>2. e \in KnownEntry
    BY <1>1, <1>6, <2>1 DEF Store, JobsFit, WorkFits, KnownEntry
  <2>3. cache' = Newest(Append(cache, e))
    BY <1>6, <2>1 DEF Store
  <2>4. PICK from \in {0, 1} :
           /\ cache' \in Seq(KnownEntry) /\ Len(cache') <= CacheLimit
           /\ \A i \in DOMAIN cache' :
                 \/ i + from = Len(cache) + 1 /\ cache'[i] = e
                 \/ i + from \in DOMAIN cache /\ cache'[i] = cache[i + from]
    <3>1. cache \in Seq(KnownEntry) /\ Len(cache) <= CacheLimit
      BY <1>1 DEF CacheFits
    <3>2. LET kept == Newest(Append(cache, e)) IN
          /\ kept \in Seq(KnownEntry) /\ Len(kept) <= CacheLimit
          /\ \E from \in {0, 1} :
               /\ Len(kept) = Len(cache) + 1 - from
               /\ \A i \in DOMAIN kept :
                     \/ i + from = Len(cache) + 1 /\ kept[i] = e
                     \/ i + from \in DOMAIN cache /\ kept[i] = cache[i + from]
      BY <2>2, <3>1, NewestEntries
    <3> QED
      BY <2>3, <3>2
  <2>5. \A i \in DOMAIN cache : cache[i].key # e.key
    BY <1>1, <1>6, <2>1 DEF Store, OneAnalysisAtATime, Cached
  <2>6. ASSUME NEW i \in DOMAIN cache', NEW j \in DOMAIN cache', cache'[i].key = cache'[j].key
        PROVE  i = j
    <3>1. i \in Nat /\ j \in Nat /\ Len(cache) \in Nat
      BY <1>1, <2>4 DEF CacheFits
    <3>2. i + from = j + from
      BY <1>1, <2>4, <2>5, <2>6 DEF CacheFits
    <3> QED
      BY <3>1, <3>2
  <2>7. cache' \in Seq(S)
    BY <1>3, <2>4
  <2> QED
    BY <1>2, <2>4, <2>6, <2>7 DEF CacheFits
<1>7. UNCHANGED cache \/ cache' = <<>> \/ \E h \in Handlers : Store(h)
  BY DEF Next, vars, frontVars, Elapse, Deploy, AskPublic, AskOwner, Contend, Compute,
         Formalize, OpenSession, EnterSession, UseSession, CheckSession, ApplyDecision,
         Validate, RecordOutcome, RollBack, RecordRollback, ClearCache, Raise
<1> QED
  BY <1>4, <1>5, <1>6, <1>7

(* The handlers that compute or store an analysis after a step.             *)
LEMMA WhoAnalyses ==
    ASSUME JobsFit, [Next]_vars, NEW g \in Handlers, pc'[g] \in {"formalize", "store"}
    PROVE  \/ pc'[g] = pc[g] /\ job'[g] = job[g]
           \/ pc[g] = "compute" /\ Cached(job[g].key) = {} /\ job'[g].key = job[g].key
              /\ UNCHANGED cache
           \/ pc[g] = "formalize" /\ job'[g].key = job[g].key /\ UNCHANGED cache
<1> USE DEF JobsFit, Goto, Return
<1>2. ASSUME NEW h \in Handlers, Compute(h), h = g
      PROVE  pc[g] = "compute" /\ Cached(job[g].key) = {} /\ job'[g].key = job[g].key
             /\ UNCHANGED cache
  <2>1. job[g] \in [action : {"analyze"}, key : Revisions, proposal : Known \cup {None}]
    BY <1>2 DEF Compute, WorkFits
  <2> QED
    BY <1>2, <2>1 DEF Compute
<1>3. ASSUME NEW h \in Handlers, Formalize(h), h = g
      PROVE  pc[g] = "formalize" /\ job'[g].key = job[g].key /\ UNCHANGED cache
  <2>1. pc[g] = "formalize"
    BY <1>3 DEF Formalize
  <2>2. job[g] \in [action : {"analyze"}, key : Revisions, proposal : Known \cup {None}]
    BY <2>1 DEF WorkFits
  <2>3. UNCHANGED cache
    BY <1>3 DEF Formalize
  <2>4. \E p : job'[g] = [job[g] EXCEPT !.proposal = p]
    BY <1>3, <2>1 DEF Formalize
  <2> QED
    BY <2>1, <2>2, <2>3, <2>4
<1>4. ASSUME NEW h \in Handlers, Compute(h) \/ Formalize(h), h # g
      PROVE  pc'[g] = pc[g] /\ job'[g] = job[g]
  BY <1>4 DEF Compute, Formalize
<1>5. ASSUME NEW h \in Handlers,
             \/ AskPublic(h) \/ AskOwner(h) \/ Contend(h) \/ Store(h) \/ OpenSession(h)
             \/ EnterSession(h) \/ UseSession(h) \/ CheckSession(h)
      PROVE  pc'[g] = pc[g] /\ job'[g] = job[g]
  BY <1>5 DEF AskPublic, AskOwner, Contend, Store, OpenSession, EnterSession, UseSession,
              CheckSession
<1>6. ASSUME NEW h \in Handlers,
             \/ ApplyDecision(h) \/ Validate(h) \/ RecordOutcome(h) \/ RollBack(h)
             \/ RecordRollback(h) \/ ClearCache(h) \/ Raise(h)
      PROVE  pc'[g] = pc[g] /\ job'[g] = job[g]
  BY <1>6 DEF ApplyDecision, Validate, RecordOutcome, RollBack, RecordRollback, ClearCache,
              Raise
<1>7. CASE Elapse \/ Deploy \/ UNCHANGED vars
  BY <1>7 DEF Elapse, Deploy, vars, frontVars
<1> QED
  BY <1>2, <1>3, <1>4, <1>5, <1>6, <1>7 DEF Next

LEMMA StepAnalyses ==
    ASSUME FrontInv, [Next]_vars
    PROVE  OneAnalysisAtATime'
<1>1. JobsFit /\ LockFits /\ OneAnalysisAtATime
  BY DEF FrontInv
<1> SUFFICES ASSUME NEW g \in Handlers, pc'[g] \in {"formalize", "store"}
             PROVE  Cached(job[g].key)' = {}
  BY DEF OneAnalysisAtATime
<1>2. CASE UNCHANGED cache
  <2>1. Cached(job[g].key) = {} /\ job'[g].key = job[g].key
    BY <1>1, WhoAnalyses DEF OneAnalysisAtATime
  <2> QED
    BY <1>2, <2>1 DEF Cached
<1>3. CASE cache' = <<>>
  BY <1>3 DEF Cached
<1>4. ASSUME NEW h \in Handlers, Store(h) PROVE FALSE
  <2>1. pc'[h] = "idle" /\ pc[h] = "store" /\ analysisLock = h
    BY <1>1, <1>4 DEF Store, Return, Goto, JobsFit, LockFits, LockedSteps
  <2>2. pc'[g] = pc[g]
    BY <1>1, <1>4, <2>1 DEF Store, Return, Goto, JobsFit
  <2>3. analysisLock = g
    BY <1>1, <2>2 DEF LockFits, LockedSteps
  <2> QED
    BY <2>1, <2>3
<1>5. UNCHANGED cache \/ cache' = <<>> \/ \E h \in Handlers : Store(h)
  BY DEF Next, vars, frontVars, Elapse, Deploy, AskPublic, AskOwner, Contend, Compute,
         Formalize, OpenSession, EnterSession, UseSession, CheckSession, ApplyDecision,
         Validate, RecordOutcome, RollBack, RecordRollback, ClearCache, Raise
<1> QED
  BY <1>2, <1>3, <1>4, <1>5

-----------------------------------------------------------------------------
(* What is offered for review.                                              *)

Offers(p) == p = None \/ Open(p) \/ p \in excused
Changing == \E h \in Handlers : pc[h] \in Changed

LEMMA StepOpens ==
    ASSUME FrontInv, [Next]_vars
    PROVE  CachedProposalsAreOpen'
<1>1. /\ JobsFit /\ ReleasesFit /\ CacheFits
      /\ Changing \/ \A i \in DOMAIN cache : Offers(cache[i].proposal)
  BY DEF FrontInv, CachedProposalsAreOpen, Changing, Offers
<1>2. \A i \in DOMAIN cache : cache[i].proposal \in Known \cup {None}
  <2>1. \A i \in DOMAIN cache : cache[i] \in KnownEntry
    BY <1>1 DEF CacheFits
  <2> QED
    BY <2>1 DEF KnownEntry
<1>3. ASSUME Changing' \/ \A i \in DOMAIN cache' : Offers(cache[i].proposal)'
      PROVE  CachedProposalsAreOpen'
  BY <1>3 DEF CachedProposalsAreOpen, Changing, Offers
<1>4. ASSUME UNCHANGED <<active, cache>>, excused \subseteq excused', Changing => Changing',
             \A p \in Known : release'[p] = release[p]
      PROVE  CachedProposalsAreOpen'
  <2>1. ASSUME NEW p \in Known \cup {None}, Offers(p) PROVE Offers(p)'
    BY <1>4, <2>1 DEF Offers, Open, Pending
  <2>2. ASSUME NEW i \in DOMAIN cache, Offers(cache[i].proposal)
        PROVE  Offers(cache[i].proposal)'
    <3>1. PICK p \in Known \cup {None} : p = cache[i].proposal
      BY <1>2, <2>2
    <3>2. p = cache'[i].proposal
      BY <1>4, <3>1
    <3>3. Offers(p)'
      BY <2>1, <2>2, <3>1
    <3> QED
      BY <3>2, <3>3
  <2> QED
    BY <1>1, <1>3, <1>4, <2>2
<1>5. ASSUME NEW h \in Handlers, NEW step, NEW work, Goto(h, step, work)
      PROVE  /\ step \in Changed => Changing'
             /\ pc[h] \notin Changed => (Changing => Changing')
  BY <1>1, <1>5 DEF Goto, Changing, JobsFit
<1>6. ASSUME NEW h \in Handlers,
             AskPublic(h) \/ AskOwner(h) \/ Contend(h) \/ Compute(h)
      PROVE  CachedProposalsAreOpen'
  <2>1. UNCHANGED <<active, cache, excused, release>>
    BY <1>6 DEF AskPublic, AskOwner, Contend, Compute
  <2>2. pc[h] \notin Changed /\ \E step, work : Goto(h, step, work)
    BY <1>6 DEF AskPublic, AskOwner, Contend, Compute, Return, Changed
  <2> QED
    BY <1>4, <1>5, <2>1, <2>2
<1>7. ASSUME NEW h \in Handlers,
             OpenSession(h) \/ EnterSession(h) \/ UseSession(h) \/ CheckSession(h)
      PROVE  CachedProposalsAreOpen'
  <2>1. UNCHANGED <<active, cache, excused, release>>
    BY <1>7 DEF OpenSession, EnterSession, UseSession, CheckSession
  <2>2. pc[h] \notin Changed /\ \E step, work : Goto(h, step, work)
    BY <1>7 DEF OpenSession, EnterSession, UseSession, CheckSession, Return, Changed
  <2> QED
    BY <1>4, <1>5, <2>1, <2>2
<1>8. ASSUME NEW h \in Handlers, Formalize(h) PROVE CachedProposalsAreOpen'
  <2>1. UNCHANGED <<active, cache, excused>> /\ \A p \in Known : release'[p] = release[p]
    BY <1>8 DEF Formalize, Known
  <2>2. pc[h] \notin Changed /\ \E step, work : Goto(h, step, work)
    BY <1>8 DEF Formalize, Return, Changed
  <2> QED
    BY <1>4, <1>5, <2>1, <2>2
<1>9. ASSUME NEW h \in Handlers, Store(h) PROVE CachedProposalsAreOpen'
  <2>1. PICK p : p = job[h].proposal
    OBVIOUS
  <2>2. PICK e : e = [key |-> job[h].key, proposal |-> job[h].proposal]
    OBVIOUS
  <2>3. /\ cache' = Newest(Append(cache, e)) /\ e.proposal = p
        /\ excused \subseteq excused'
        /\ p # None /\ ~ Open(p) => p \in excused'
        /\ UNCHANGED <<active, release>>
    BY <1>9, <2>1, <2>2 DEF Store
  <2>4. pc[h] \notin Changed /\ Return(h)
    BY <1>9 DEF Store, Changed
  <2>5. Changing => Changing'
    BY <1>5, <2>4 DEF Return
  <2>6. e \in KnownEntry
    BY <1>1, <1>9, <2>2 DEF Store, JobsFit, WorkFits, KnownEntry
  <2>7. \A i \in DOMAIN cache' : cache'[i] = e \/ \E j \in DOMAIN cache : cache'[i] = cache[j]
    <3>1. cache \in Seq(KnownEntry) /\ Len(cache) <= CacheLimit
      BY <1>1 DEF CacheFits
    <3>2. LET kept == Newest(Append(cache, e)) IN
          /\ kept \in Seq(KnownEntry) /\ Len(kept) <= CacheLimit
          /\ \E from \in {0, 1} :
               /\ Len(kept) = Len(cache) + 1 - from
               /\ \A i \in DOMAIN kept :
                     \/ i + from = Len(cache) + 1 /\ kept[i] = e
                     \/ i + from \in DOMAIN cache /\ kept[i] = cache[i + from]
      BY <2>6, <3>1, NewestEntries
    <3> QED
      BY <2>3, <3>2
  <2>8. ASSUME NEW q, Offers(q) PROVE Offers(q)'
    BY <2>3, <2>8 DEF Offers, Open, Pending
  <2>9. Offers(p)'
    BY <2>3 DEF Offers, Open, Pending
  <2>10. ASSUME \A j \in DOMAIN cache : Offers(cache[j].proposal), NEW i \in DOMAIN cache'
         PROVE  Offers(cache[i].proposal)'
    <3>1. PICK q : q = cache'[i].proposal
      OBVIOUS
    <3>2. q = p \/ Offers(q)
      BY <2>3, <2>7, <2>10, <3>1
    <3>3. Offers(q)'
      BY <2>8, <2>9, <3>2
    <3> QED
      BY <3>1, <3>3
  <2> QED
    BY <1>1, <1>3, <2>5, <2>10
<1>10. ASSUME NEW h \in Handlers,
              \/ ApplyDecision(h) \/ Validate(h) \/ RecordOutcome(h) \/ RollBack(h)
              \/ RecordRollback(h)
       PROVE  CachedProposalsAreOpen'
  <2>1. \E step, work : step \in Changed /\ Goto(h, step, work)
    BY <1>10 DEF ApplyDecision, Validate, RecordOutcome, RollBack, RecordRollback, Changed
  <2> QED
    BY <1>3, <1>5, <2>1
<1>11. ASSUME NEW h \in Handlers, ClearCache(h) PROVE CachedProposalsAreOpen'
  BY <1>3, <1>11 DEF ClearCache
<1>12. ASSUME NEW h \in Handlers, Raise(h) PROVE CachedProposalsAreOpen'
  <2>1. CASE pc[h] \notin Changed
    <3>1. pc[h] \notin Changed /\ Return(h) /\ excused \subseteq excused'
          /\ UNCHANGED <<active, cache, release>>
      BY <1>12, <2>1 DEF Raise
    <3> QED
      BY <1>4, <1>5, <3>1 DEF Return
  <2>2. CASE pc[h] \in Changed
    <3>1. /\ excused' = excused \cup Stale
          /\ UNCHANGED <<active, cache, release>>
      BY <1>12, <2>2 DEF Raise
    <3>2. ASSUME NEW i \in DOMAIN cache' PROVE Offers(cache[i].proposal)'
      <4>1. PICK p : p = cache[i].proposal
        OBVIOUS
      <4>2. p \in Known \cup {None} /\ i \in DOMAIN cache
        BY <1>2, <3>1, <3>2, <4>1
      <4>3. p = None \/ Open(p) \/ p \in Stale
        BY <4>1, <4>2 DEF Stale, Known
      <4>4. p = None \/ Open(p)' \/ p \in excused'
        BY <3>1, <4>3 DEF Open, Pending
      <4>5. p = cache'[i].proposal
        BY <3>1, <4>1
      <4> QED
        BY <4>4, <4>5 DEF Offers
    <3> QED
      BY <1>3, <3>2
  <2> QED
    BY <2>1, <2>2
<1>13. CASE Elapse \/ Deploy \/ UNCHANGED vars
  <2>1. UNCHANGED <<pc, active, cache, excused, release>>
    BY <1>13 DEF Elapse, Deploy, frontVars, vars
  <2> QED
    BY <1>4, <2>1 DEF Changing
<1> QED
  BY <1>6, <1>7, <1>8, <1>9, <1>10, <1>11, <1>12, <1>13 DEF Next

-----------------------------------------------------------------------------
(* The registry of sessions.                                                *)

(* The steps that change the registry.                                      *)
LEMMA SessionSteps ==
    ASSUME [Next]_vars
    PROVE  \/ noSessionChange \/ Tick
           \/ \E h \in Handlers : EnterSession(h) \/ UseSession(h) \/ CheckSession(h)
<1> USE DEF noSessionChange, sessionVars
<1>1. CASE Elapse \/ Deploy \/ UNCHANGED vars
  BY <1>1 DEF Elapse, Deploy, vars
<1>2. ASSUME NEW h \in Handlers,
             \/ AskPublic(h) \/ AskOwner(h) \/ Contend(h) \/ Compute(h) \/ Formalize(h)
             \/ Store(h) \/ OpenSession(h)
      PROVE  noSessionChange
  BY <1>2 DEF AskPublic, AskOwner, Contend, Compute, Formalize, Store, OpenSession
<1>3. ASSUME NEW h \in Handlers,
             \/ ApplyDecision(h) \/ Validate(h) \/ RecordOutcome(h) \/ RollBack(h)
             \/ RecordRollback(h) \/ ClearCache(h) \/ Raise(h)
      PROVE  noSessionChange
  BY <1>3 DEF ApplyDecision, Validate, RecordOutcome, RollBack, RecordRollback, ClearCache,
              Raise
<1> QED
  BY <1>1, <1>2, <1>3 DEF Next

LEMMA StepSessions ==
    ASSUME FrontInv, [Next]_vars
    PROVE  SessionsTypeOK'
<1> USE DEF sessionVars
<1>1. SessionsTypeOK /\ JobsFit
  BY DEF FrontInv
<1>2. CASE noSessionChange
  BY <1>1, <1>2 DEF noSessionChange, SessionsTypeOK, Session
<1>3. CASE Tick
  BY <1>1, <1>3, SessionAssumption DEF Tick, SessionsTypeOK
<1>4. ASSUME NEW h \in Handlers, EnterSession(h) PROVE SessionsTypeOK'
  <2>1. job[h] \in [action : Requests, proposal : Proposals, since : Nat]
    BY <1>1, <1>4 DEF EnterSession, JobsFit, WorkFits
  <2>2. PICK new : new = [action |-> job[h].action, proposal |-> job[h].proposal,
                          expires |-> job[h].since + SessionTTL]
    OBVIOUS
  <2>3. new \in Session
    BY <2>1, <2>2, SessionAssumption DEF Session
  <2>4. PICK t \in Tokens \ issued, kept \in Kept :
           /\ sessions' = [u \in kept \cup {t} |-> IF u = t THEN new ELSE sessions[u]]
           /\ issued' = issued \cup {t}
           /\ UNCHANGED <<clock, spent, accepted>>
    BY <1>4, <2>2 DEF EnterSession, Enter
  <2>5. kept \subseteq DOMAIN sessions
    BY <2>4 DEF Kept
  <2>6. DOMAIN sessions' = kept \cup {t}
    BY <2>4
  <2>7. \A u \in DOMAIN sessions' : sessions'[u] \in Session
    BY <1>1, <2>3, <2>4, <2>5, <2>6 DEF SessionsTypeOK
  <2>8. DOMAIN sessions' \subseteq issued' /\ issued' \subseteq Tokens
        /\ spent' \subseteq issued' \ DOMAIN sessions'
    BY <1>1, <2>4, <2>5, <2>6 DEF SessionsTypeOK
  <2> QED
    BY <1>1, <2>4, <2>7, <2>8 DEF SessionsTypeOK
<1>5. ASSUME NEW h \in Handlers, UseSession(h) PROVE SessionsTypeOK'
  <2>1. PICK t \in DOMAIN sessions : Pop(t)
    BY <1>5 DEF UseSession
  <2> QED
    BY <1>1, <2>1 DEF Pop, SessionsTypeOK
<1>6. ASSUME NEW h \in Handlers, CheckSession(h) PROVE SessionsTypeOK'
  <2>1. job[h].token \in Tokens
    BY <1>1, <1>6 DEF CheckSession, JobsFit, WorkFits
  <2> QED
    BY <1>1, <1>2, <1>6, <2>1 DEF CheckSession, Accept, SessionsTypeOK
<1> QED
  BY <1>2, <1>3, <1>4, <1>5, <1>6, SessionSteps

-----------------------------------------------------------------------------
LEMMA InitFront == Init => FrontInv
<1> SUFFICES ASSUME Init PROVE FrontInv
  OBVIOUS
<1>1. SessionsTypeOK
  BY SessionAssumption DEF Init, SessionsInit, SessionsTypeOK
<1>2. ASSUME NEW h \in Handlers PROVE WorkFits(pc[h], job[h])
  <2>1. pc[h] = "idle" /\ job[h] = Idle
    BY DEF Init
  <2> QED
    BY <2>1 DEF WorkFits
<1>3. JobsFit
  BY <1>2 DEF Init, JobsFit, Steps
<1>4. LockFits
  BY FrontAssumption DEF Init, LockFits, LockedSteps
<1>5. ReleasesFit
  BY DEF Init, ReleasesFit, Known
<1>6. /\ cache = <<>> /\ Len(cache) = 0 /\ DOMAIN cache = {}
      /\ \A S : cache \in Seq(S)
  BY DEF Init
<1>7. CacheFits
  BY <1>6, FrontAssumption DEF CacheFits
<1>8. OneAnalysisAtATime /\ CachedProposalsAreOpen
  BY <1>6 DEF OneAnalysisAtATime, CachedProposalsAreOpen, Cached
<1> QED
  BY <1>1, <1>3, <1>4, <1>5, <1>7, <1>8 DEF FrontInv

(* The invariant that the theorems on these routes rest on, in any number   *)
(* of request threads: what each thread has read fits the step it is at.    *)
THEOREM FrontInvariant == Spec => []FrontInv
<1>1. Init => FrontInv
  BY InitFront
<1>2. FrontInv /\ [Next]_vars => FrontInv'
  BY StepSessions, StepWorks, StepLocks, ReleasesStay, StepCaches, StepAnalyses, StepOpens
     DEF FrontInv
<1> QED
  BY <1>1, <1>2, PTL DEF Spec

(* Type correctness: the single flight lock is held exactly while a request *)
(* analyses, the cache stays within its limit and has one entry for each    *)
(* code revision.                                                           *)
THEOREM FrontTypes == Spec => []TypeOK
<1>1. FrontInv => TypeOK
  <2> SUFFICES ASSUME FrontInv PROVE TypeOK
    OBVIOUS
  <2>1. KnownEntry \subseteq Entry
    BY DEF FrontInv, ReleasesFit, KnownEntry, Entry
  <2>2. cache \in Seq(Entry)
    BY <2>1 DEF FrontInv, CacheFits
  <2>3. \A h \in Handlers : pc[h] = "idle" <=> job[h] = Idle
    BY DEF FrontInv, JobsFit, WorkFits
  <2> QED
    BY <2>2, <2>3 DEF FrontInv, TypeOK, JobsFit, LockFits, CacheFits, ReleasesFit, Known
<1> QED
  BY <1>1, FrontInvariant, PTL

(* What the cached analysis offers for review can be approved, save between *)
(* a change and the clearing of the cache that follows it, and save the     *)
(* entries that were out of date when they were stored, or when a decision  *)
(* or rollback raised in between.                                           *)
THEOREM OffersAreOpen == Spec => []CachedProposalsAreOpen
<1>1. FrontInv => CachedProposalsAreOpen
  BY DEF FrontInv
<1> QED
  BY <1>1, FrontInvariant, PTL

(* _cached_public_retrieval_analysis is a single flight: while one request  *)
(* analyses a revision nobody else fills the cache of that revision.        *)
THEOREM OneAtATime == Spec => []OneAnalysisAtATime
<1>1. FrontInv => OneAnalysisAtATime
  BY DEF FrontInv
<1> QED
  BY <1>1, FrontInvariant, PTL

-----------------------------------------------------------------------------
(* A token is used once.                                                    *)

(* A token lets nobody through before it left the registry, and then only   *)
(* the handler that took it out.                                            *)
Checking == {h \in Handlers : pc[h] = "check"}
TokensFit ==
    /\ IsFiniteSet(issued)
    /\ \A t \in Tokens : accepted[t] = 0 \/ (accepted[t] = 1 /\ t \in spent)
    /\ \A h \in Checking : job[h].token \in spent /\ accepted[job[h].token] = 0
    /\ \A g, h \in Checking : job[g].token = job[h].token => g = h

(* Where a handler that checks a session comes from.                        *)
LEMMA WhoChecks ==
    ASSUME JobsFit, [Next]_vars, NEW g \in Checking'
    PROVE  \/ g \in Checking /\ job'[g] = job[g]
           \/ UseSession(g)
<1> USE DEF JobsFit, Goto, Return
<1>1. ASSUME NEW h \in Handlers, UseSession(h), h # g
      PROVE  g \in Checking /\ job'[g] = job[g]
  BY <1>1 DEF UseSession, Checking
<1>2. ASSUME NEW h \in Handlers,
             AskPublic(h) \/ AskOwner(h) \/ Contend(h) \/ Compute(h) \/ Formalize(h)
      PROVE  g \in Checking /\ job'[g] = job[g]
  BY <1>2 DEF AskPublic, AskOwner, Contend, Compute, Formalize, Checking
<1>3. ASSUME NEW h \in Handlers,
             Store(h) \/ OpenSession(h) \/ EnterSession(h) \/ CheckSession(h)
      PROVE  g \in Checking /\ job'[g] = job[g]
  BY <1>3 DEF Store, OpenSession, EnterSession, CheckSession, Checking
<1>4. ASSUME NEW h \in Handlers,
             \/ ApplyDecision(h) \/ Validate(h) \/ RecordOutcome(h) \/ RollBack(h)
             \/ RecordRollback(h) \/ ClearCache(h) \/ Raise(h)
      PROVE  g \in Checking /\ job'[g] = job[g]
  BY <1>4 DEF ApplyDecision, Validate, RecordOutcome, RollBack, RecordRollback, ClearCache,
              Raise, Checking
<1>5. CASE Elapse \/ Deploy \/ UNCHANGED vars
  BY <1>5 DEF Elapse, Deploy, vars, frontVars, Checking
<1> QED
  BY <1>1, <1>2, <1>3, <1>4, <1>5 DEF Next

LEMMA StepTokens ==
    ASSUME FrontInv, TokensFit, [Next]_vars
    PROVE  TokensFit'
<1> USE DEF sessionVars
<1>1. SessionsTypeOK /\ JobsFit
  BY DEF FrontInv
<1>2. ASSUME UNCHANGED <<spent, accepted>>, IsFiniteSet(issued'),
             ~ \E g \in Handlers : UseSession(g)
      PROVE  TokensFit'
  <2>1. \A g \in Checking' : g \in Checking /\ job'[g] = job[g]
    BY <1>1, <1>2, WhoChecks DEF Checking
  <2> QED
    BY <1>2, <2>1 DEF TokensFit
<1>3. ASSUME NEW h \in Handlers, UseSession(h) PROVE TokensFit'
  <2>1. PICK t \in DOMAIN sessions : Pop(t) /\ job'[h].token = t /\ pc[h] = "idle"
    <3>1. PICK t, action, p :
             /\ t \in DOMAIN sessions /\ Pop(t)
             /\ Goto(h, "check", [action |-> action, proposal |-> p, token |-> t,
                                  session |-> sessions[t]])
      BY <1>3 DEF UseSession
    <3> QED
      BY <1>1, <1>3, <3>1 DEF UseSession, Goto, JobsFit
  <2>2. t \in Tokens /\ t \notin spent /\ accepted[t] = 0 /\ spent' = spent \cup {t}
        /\ UNCHANGED <<issued, accepted>>
    BY <1>1, <2>1 DEF SessionsTypeOK, TokensFit, Pop
  <2>3. \A g \in Checking' : g # h => g \in Checking /\ job'[g] = job[g]
    BY <1>3 DEF UseSession, Goto, Checking
  <2> QED
    BY <2>1, <2>2, <2>3 DEF TokensFit
<1>4. ASSUME NEW h \in Handlers, CheckSession(h) PROVE TokensFit'
  <2>1. h \in Checking /\ job[h].token \in Tokens /\ \A g \in Checking' : g # h
    BY <1>1, <1>4 DEF CheckSession, Checking, JobsFit, WorkFits, Goto, Return
  <2>2. \A g \in Checking' : g \in Checking /\ job'[g] = job[g]
    <3>1. \A g \in Handlers : g # h => pc'[g] = pc[g] /\ job'[g] = job[g]
      BY <1>1, <1>4 DEF CheckSession, Goto, Return, JobsFit
    <3> QED
      BY <2>1, <3>1 DEF Checking
  <2>3. CASE noSessionChange
    BY <2>2, <2>3 DEF noSessionChange, TokensFit
  <2>4. CASE Accept(job[h].token)
    <3>1. /\ accepted' = [accepted EXCEPT ![job[h].token] = 1]
          /\ UNCHANGED <<issued, spent>>
      <4>1. accepted[job[h].token] = 0
        BY <2>1 DEF TokensFit
      <4> QED
        BY <2>4, <4>1 DEF Accept
    <3>2. \A g \in Checking' : job[g].token # job[h].token
      BY <2>1, <2>2 DEF TokensFit
    <3>3. \A g \in Checking' : job'[g].token \in spent /\ accepted'[job'[g].token] = 0
      BY <1>1, <2>2, <3>1, <3>2 DEF TokensFit, SessionsTypeOK
    <3>4. \A t \in Tokens : accepted'[t] = 0 \/ (accepted'[t] = 1 /\ t \in spent)
      BY <1>1, <2>1, <3>1 DEF TokensFit, SessionsTypeOK
    <3> QED
      BY <2>2, <3>1, <3>3, <3>4 DEF TokensFit
  <2> QED
    BY <1>4, <2>3, <2>4 DEF CheckSession
<1>5. ASSUME NEW h \in Handlers, EnterSession(h) PROVE TokensFit'
  <2>1. \E t : issued' = issued \cup {t}
    BY <1>5 DEF EnterSession, Enter
  <2>2. IsFiniteSet(issued')
    BY <2>1, FS_AddElement DEF TokensFit
  <2>3. UNCHANGED <<spent, accepted>>
    BY <1>5 DEF EnterSession, Enter
  <2>4. \A g \in Checking' : g \in Checking /\ job'[g] = job[g]
    BY <1>1, <1>5 DEF EnterSession, Checking, Goto, Return, JobsFit
  <2> QED
    BY <2>2, <2>3, <2>4 DEF TokensFit
<1>6. CASE noSessionChange \/ Tick
  <2>1. UNCHANGED <<issued, spent, accepted>>
    BY <1>6 DEF noSessionChange, Tick
  <2> QED
    BY <1>2, <1>3, <2>1 DEF TokensFit
<1> QED
  BY <1>3, <1>4, <1>5, <1>6, SessionSteps

(* Only Enter forgets a live session that was not used, and then at least   *)
(* SessionLimit others were issued.                                         *)
LEMMA EvictsWhenFull ==
    ASSUME SessionsTypeOK, IsFiniteSet(issued), NEW action, NEW proposal, NEW since,
           Enter(action, proposal, since),
           NEW t \in DOMAIN sessions \ DOMAIN sessions', Live(sessions[t])
    PROVE  Cardinality(issued' \ {t}) >= SessionLimit
<1> DEFINE live == {u \in DOMAIN sessions : Live(sessions[u])}
<1>1. PICK new \in Tokens \ issued, kept \in Kept :
         DOMAIN sessions' = kept \cup {new} /\ issued' = issued \cup {new}
  BY DEF Enter
<1>2. t \in live /\ t \notin kept /\ live \subseteq issued /\ t \in issued
  BY <1>1 DEF SessionsTypeOK
<1>3. PICK oldest \in live : ~ (Cardinality(live) < SessionLimit) /\ kept = live \ {oldest}
  BY <1>1, <1>2 DEF Kept
<1>4. t = oldest
  BY <1>2, <1>3
<1> HIDE DEF live
<1>5. IsFiniteSet(live) /\ Cardinality(live) \in Nat
  BY <1>2, FS_Subset, FS_CardinalityType
<1>6. IsFiniteSet(live \ {t}) /\ Cardinality(live \ {t}) = Cardinality(live) - 1
  BY <1>2, <1>5, FS_RemoveElement
<1>7. new \notin live \ {t}
  BY <1>2
<1>8. /\ IsFiniteSet((live \ {t}) \cup {new})
      /\ Cardinality((live \ {t}) \cup {new}) = Cardinality(live \ {t}) + 1
  BY <1>6, <1>7, FS_AddElement
<1>9. (live \ {t}) \cup {new} \subseteq issued' \ {t}
  BY <1>1, <1>2
<1>10. IsFiniteSet(issued' \ {t})
  <2>1. IsFiniteSet(issued \cup {new})
    BY FS_AddElement
  <2> QED
    BY <1>1, <2>1, FS_Subset
<1>11. /\ Cardinality((live \ {t}) \cup {new}) <= Cardinality(issued' \ {t})
       /\ Cardinality(issued' \ {t}) \in Nat
  BY <1>9, <1>10, FS_Subset, FS_CardinalityType
<1> QED
  BY <1>3, <1>5, <1>6, <1>8, <1>11, SessionAssumption

(* _consume_retrieval_release_session and its peers honour a token once,    *)
(* however many requests carry it, and _create_retrieval_release_session    *)
(* forgets a live one only when it created that many others.                *)
THEOREM SessionsHonoured == Spec => SessionsAreHonoured
<1>1. Init => TokensFit
  <2> SUFFICES ASSUME Init PROVE TokensFit
    OBVIOUS
  <2>1. IsFiniteSet(issued) /\ \A t \in Tokens : accepted[t] = 0
    BY FS_EmptySet DEF Init, SessionsInit
  <2>2. Checking = {}
    BY DEF Init, Checking
  <2> QED
    BY <2>1, <2>2 DEF TokensFit
<1>2. FrontInv /\ TokensFit /\ [Next]_vars => TokensFit'
  BY StepTokens
<1>3. FrontInv /\ FrontInv' /\ TokensFit /\ TokensFit' /\ [Next]_vars =>
        [/\ \A t \in Tokens : accepted'[t] <= 1
         /\ \A t \in DOMAIN sessions \ DOMAIN sessions' :
              \/ t \in spent'
              \/ ~ Live(sessions[t])
              \/ Cardinality(issued' \ {t}) >= SessionLimit]_sessionVars
  <2> SUFFICES ASSUME FrontInv, TokensFit, TokensFit', [Next]_vars
               PROVE  /\ \A t \in Tokens : accepted'[t] <= 1
                      /\ \A t \in DOMAIN sessions \ DOMAIN sessions' :
                           \/ t \in spent'
                           \/ ~ Live(sessions[t])
                           \/ Cardinality(issued' \ {t}) >= SessionLimit
    OBVIOUS
  <2>1. \A t \in Tokens : accepted'[t] <= 1
    BY DEF TokensFit
  <2>2. ASSUME NEW t \in DOMAIN sessions \ DOMAIN sessions', Live(sessions[t]), t \notin spent'
        PROVE  Cardinality(issued' \ {t}) >= SessionLimit
    <3>1. \E h \in Handlers : EnterSession(h) \/ UseSession(h)
      BY <2>2, SessionSteps DEF noSessionChange, sessionVars, Tick, CheckSession, Accept
    <3>2. ASSUME NEW h \in Handlers, UseSession(h) PROVE FALSE
      BY <2>2, <3>2 DEF UseSession, Pop
    <3>3. \E h \in Handlers : Enter(job[h].action, job[h].proposal, job[h].since)
      BY <3>1, <3>2 DEF EnterSession
    <3>4. SessionsTypeOK /\ IsFiniteSet(issued)
      BY DEF FrontInv, TokensFit
    <3> QED
      BY <2>2, <3>3, <3>4, EvictsWhenFull
  <2> QED
    BY <2>1, <2>2
<1>4. Spec => []TokensFit
  BY <1>1, <1>2, FrontInvariant, PTL DEF Spec
<1> QED
  BY <1>3, <1>4, FrontInvariant, PTL DEF Spec, SessionsAreHonoured

(***************************************************************************)
(* The analysis.  The evidence first: what a run over judged pools         *)
(* computes is of the types that the planners and the answers rely on.     *)
(***************************************************************************)

LEMMA CutIsPrefix ==
    ASSUME NEW n \in Nat, NEW X, NEW list \in [1 .. n -> X], NEW k \in Nat
    PROVE  LET m == IF k <= n THEN k ELSE n
           IN /\ m \in Nat /\ Cut(list, k) = [i \in 1 .. m |-> list[i]]
              /\ Cut(list, k) \in [1 .. m -> X]
<1>1. list \in Seq(X) /\ Len(list) = n
  OBVIOUS
<1> DEFINE pair == {k} \cup {n}
           m    == Min(pair)
<1>2. IsFiniteSet(pair)
  BY FS_Singleton, FS_Union
<1>3. k \in pair /\ n \in pair /\ pair \subseteq Int /\ \A y \in pair : y = k \/ y = n
  OBVIOUS
<1>4. pair = {k, n}
  OBVIOUS
<1> HIDE DEF pair
<1>5. m \in pair /\ m <= k /\ m <= n
  BY <1>2, <1>3, SmallestExists
<1>6. Cut(list, k) = SubSeq(list, 1, m)
  BY <1>1, <1>4 DEF Cut
<1> HIDE DEF m
<1>7. m \in Nat /\ m = IF k <= n THEN k ELSE n
  BY <1>3, <1>5
<1>8. Cut(list, k) = [i \in 1 .. m |-> list[i]]
  BY <1>1, <1>5, <1>6, <1>7
<1>9. \A i \in 1 .. m : list[i] \in X
  BY <1>5, <1>7
<1> QED
  BY <1>7, <1>8, <1>9

(* A list of some products of a pool, each of them once; and a ranking of   *)
(* some keys.                                                               *)
ListOf(pool, list) == \E m \in Nat : list \in [1 .. m -> DOMAIN pool] /\ Distinct(list, m)
RankingOf(keys, list, k) ==
    \E m \in Nat : m <= k /\ list \in [1 .. m -> keys] /\ Distinct(list, m)

LEMMA RankingsAreLists ==
    ASSUME NEW pool, NEW keys \in SUBSET (DOMAIN pool), NEW list, NEW k \in Nat,
           RankingOf(keys, list, k)
    PROVE  /\ ListOf(pool, list) /\ Range(list) \subseteq keys /\ IsInjective(list)
           /\ Len(list) <= k
<1>1. PICK m \in Nat : m <= k /\ list \in [1 .. m -> keys] /\ Distinct(list, m)
  BY DEF RankingOf
<1>2. list \in [1 .. m -> DOMAIN pool] /\ Len(list) = m
  BY <1>1
<1>3. Range(list) \subseteq keys
  BY <1>1 DEF Range
<1>4. IsInjective(list)
  BY <1>1 DEF IsInjective, Distinct
<1> QED
  BY <1>1, <1>2, <1>3, <1>4 DEF ListOf

LEMMA RankedIsList ==
    ASSUME NEW n \in Nat, NEW score \in [1 .. n -> Int], NEW keys \in SUBSET (1 .. n),
           NEW k \in Nat
    PROVE  RankingOf(keys, Cut(Ranked(keys, score), k), k)
<1> DEFINE n0 == Cardinality(keys)
           all == Ranked(keys, score)
<1>1. IsFiniteSet(keys)
  <2>1. IsFiniteSet(1 .. n)
    BY FS_Interval
  <2> QED
    BY <2>1, FS_Subset
<1>2. Linear(keys, ByValue(score))
  <2>1. keys \in SUBSET (DOMAIN score) /\ keys \subseteq Int
    OBVIOUS
  <2>2. \A x \in keys : score[x] \in Int
    OBVIOUS
  <2> QED
    BY <2>1, <2>2, ByValueIsLinear
<1>3. /\ n0 \in Nat /\ all \in [1 .. n0 -> keys]
      /\ \A r, t \in 1 .. n0 : r < t => all[r] # all[t]
  <2> DEFINE sorted == Listed(keys, ByValue(score))
  <2>1. /\ n0 \in Nat /\ sorted \in [1 .. n0 -> keys]
        /\ \A r, t \in 1 .. n0 :
              r < t => <<sorted[r], sorted[t]>> \in ByValue(score) /\ sorted[r] # sorted[t]
    BY <1>1, <1>2, ListedInOrder
  <2>2. all = sorted
    BY DEF Ranked
  <2> HIDE DEF all, sorted, n0
  <2> QED
    BY <2>1, <2>2
<1> DEFINE m == IF k <= n0 THEN k ELSE n0
           cut == Cut(all, k)
<1> HIDE DEF n0, all
<1>4. m \in Nat /\ m <= k /\ m <= n0
  BY <1>3
<1>5. cut = [i \in 1 .. m |-> all[i]] /\ cut \in [1 .. m -> keys]
  <2>1. /\ m \in Nat /\ Cut(all, k) = [i \in 1 .. m |-> all[i]]
        /\ Cut(all, k) \in [1 .. m -> keys]
    BY <1>3, CutIsPrefix
  <2> QED
    BY <2>1, Zenon
<1> HIDE DEF cut
<1>6. Distinct(cut, m)
  <2> SUFFICES ASSUME NEW i \in 1 .. m, NEW j \in 1 .. m, i # j PROVE cut[i] # cut[j]
    BY DEF Distinct
  <2>1. i \in 1 .. n0 /\ j \in 1 .. n0 /\ (i < j \/ j < i)
    BY <1>3, <1>4
  <2>2. cut[i] = all[i] /\ cut[j] = all[j]
    BY <1>5
  <2> QED
    BY <1>3, <2>1, <2>2
<1> HIDE DEF m
<1>7. RankingOf(keys, cut, k)
  BY <1>4, <1>5, <1>6 DEF RankingOf
<1> QED
  BY <1>7 DEF cut, all

LEMMA Channels ==
    ASSUME NEW v \in Variants
    PROVE  /\ ChannelsOf(v) \subseteq {"title", "exact", "fields"}
           /\ IsFiniteSet(ChannelsOf(v))
           /\ v \in Candidates => "fields" \in ChannelsOf(v)
<1>1. ChannelsOf(v) \subseteq {"title"} \cup {"exact"} \cup {"fields"}
  BY DEF ChannelsOf
<1>2. IsFiniteSet({"title"} \cup {"exact"} \cup {"fields"})
  BY FS_Singleton, FS_Union
<1>3. IsFiniteSet(ChannelsOf(v))
  BY <1>1, <1>2, FS_Subset
<1> QED
  BY <1>1, <1>3 DEF ChannelsOf

LEMMA PoolIsFinite ==
    ASSUME NEW pool, Evaluable(pool)
    PROVE  /\ Len(pool) \in Nat /\ DOMAIN pool = 1 .. Len(pool)
           /\ IsFiniteSet(DOMAIN pool)
           /\ \A k \in DOMAIN pool : pool[k] \in JudgedProduct
<1>1. pool \in Seq(JudgedProduct)
  BY DEF Evaluable
<1> HIDE DEF JudgedProduct
<1>2. Len(pool) \in Nat /\ DOMAIN pool = 1 .. Len(pool)
  BY <1>1
<1>3. \A k \in DOMAIN pool : pool[k] \in JudgedProduct
  BY <1>1
<1> QED
  BY <1>2, <1>3, FS_Interval

LEMMA SearchIsList ==
    ASSUME NEW pool, Evaluable(pool), NEW c \in {"title", "exact", "fields"}
    PROVE  /\ ListOf(pool, Search(pool, c)) /\ IsInjective(Search(pool, c))
           /\ Range(Search(pool, c)) \subseteq DOMAIN pool
           /\ Len(Search(pool, c)) <= ChannelTopK
<1> DEFINE score == [k \in DOMAIN pool |-> pool[k][c]]
           keys  == {k \in DOMAIN pool : score[k] > 0}
           n     == Len(pool)
<1>1. n \in Nat /\ DOMAIN pool = 1 .. n /\ \A k \in DOMAIN pool : pool[k] \in JudgedProduct
  BY PoolIsFinite
<1>2. \A k \in DOMAIN pool : pool[k][c] \in Int
  BY <1>1 DEF JudgedProduct
<1>3. score \in [1 .. n -> Int] /\ keys \in SUBSET (1 .. n)
  BY <1>1, <1>2
<1>4. ChannelTopK \in Nat
  BY HarnessAssumption
<1>5. Search(pool, c) = Cut(Ranked(keys, score), ChannelTopK)
  BY DEF Search
<1> HIDE DEF score, keys, n
<1>6. RankingOf(keys, Search(pool, c), ChannelTopK)
  BY <1>1, <1>3, <1>4, <1>5, RankedIsList
<1>7. keys \in SUBSET (DOMAIN pool)
  BY <1>1, <1>3
<1> QED
  BY <1>4, <1>6, <1>7, RankingsAreLists

LEMMA WeightIsNumber ==
    \A v, c : Weight(v, c) \in Nat
BY DEF Weight

(* What the channels returned, of an evaluable pool.                        *)
Retrieved(pool, v) == [c \in ChannelsOf(v) |-> Search(pool, c)]

LEMMA RetrievedLists ==
    ASSUME NEW pool, Evaluable(pool), NEW v \in Variants
    PROVE  /\ \A c \in ChannelsOf(v) : ListOf(pool, Retrieved(pool, v)[c])
           /\ Returned(Retrieved(pool, v)) \subseteq DOMAIN pool
<1>1. \A c \in ChannelsOf(v) : ListOf(pool, Retrieved(pool, v)[c])
  BY Channels, SearchIsList DEF Retrieved
<1>2. \A c \in ChannelsOf(v) : Range(Retrieved(pool, v)[c]) \subseteq DOMAIN pool
  BY <1>1 DEF ListOf, Range
<1>3. DOMAIN Retrieved(pool, v) = ChannelsOf(v)
  BY DEF Retrieved
<1> QED
  BY <1>1, <1>2, <1>3 DEF Returned

LEMMA FusionIsList ==
    ASSUME NEW pool, Evaluable(pool), NEW v \in Variants
    PROVE  LET fused == Fuse(pool, Retrieved(pool, v), v)
           IN /\ ListOf(pool, fused) /\ IsInjective(fused)
              /\ Range(fused) \subseteq Returned(Retrieved(pool, v))
<1> DEFINE hits         == Retrieved(pool, v)
           RankIn(c, k) == CHOOSE r \in DOMAIN hits[c] : hits[c][r] = k
           Share(c, k)  == Weight(v, c) * (RrfScale \div (RrfK + RankIn(c, k)))
           By(k)        == {c \in DOMAIN hits : k \in Range(hits[c])}
           shares(k)    == [c \in By(k) |-> Share(c, k)]
           score        == [k \in DOMAIN pool |-> SumFunction(shares(k))]
           keys         == Returned(hits)
           n            == Len(pool)
<1>1. n \in Nat /\ DOMAIN pool = 1 .. n
  BY PoolIsFinite
<1>2. DOMAIN hits = ChannelsOf(v)
  BY DEF Retrieved
<1>3. keys \in SUBSET (1 .. n)
  BY <1>1, RetrievedLists
<1>4. \A c \in ChannelsOf(v) : ListOf(pool, hits[c])
  BY RetrievedLists
<1>5. Fuse(pool, hits, v) = Cut(Ranked(keys, score), FusionTopK)
  BY DEF Fuse
<1> HIDE DEF hits
<1>6. ASSUME NEW k \in DOMAIN pool
      PROVE  SumFunction(shares(k)) \in Int
  <2>1. By(k) \subseteq ChannelsOf(v)
    BY <1>2
  <2>2. IsFiniteSet(By(k))
    BY <2>1, Channels, FS_Subset
  <2>3. ASSUME NEW c \in By(k) PROVE Share(c, k) \in Int
    <3>1. PICK m \in Nat : hits[c] \in [1 .. m -> DOMAIN pool]
      BY <1>4, <2>1, <2>3 DEF ListOf
    <3>2. k \in Range(hits[c])
      OBVIOUS
    <3>3. RankIn(c, k) \in DOMAIN hits[c]
      BY <3>2 DEF Range
    <3>4. RankIn(c, k) \in 1 .. m
      BY <3>1, <3>3
    <3> DEFINE rank == RankIn(c, k)
    <3> HIDE DEF RankIn, rank
    <3>5. rank \in 1 .. m
      BY <3>4 DEF rank
    <3>6. RrfK + rank \in Nat \ {0} /\ RrfScale \in Nat
      BY <3>5, HarnessAssumption
    <3>7. RrfScale \div (RrfK + rank) \in Nat
      BY <3>6, QuotientIsNumber
    <3>8. Weight(v, c) \in Nat
      BY WeightIsNumber
    <3>9. Weight(v, c) * (RrfScale \div (RrfK + rank)) \in Int
      BY <3>7, <3>8
    <3> QED
      BY <3>9 DEF rank
  <2> HIDE DEF Share, By
  <2>4. DOMAIN shares(k) = By(k) /\ \A c \in By(k) : shares(k)[c] \in Int
    BY <2>3
  <2> HIDE DEF shares
  <2> QED
    BY <2>2, <2>4, SumIsNumber
<1> HIDE DEF shares
<1>7. score \in [1 .. n -> Int]
  BY <1>1, <1>6
<1> HIDE DEF score, keys, n
<1>8. FusionTopK \in Nat
  BY HarnessAssumption
<1> DEFINE fused == Fuse(pool, hits, v)
<1>9. RankingOf(keys, fused, FusionTopK)
  BY <1>1, <1>3, <1>5, <1>7, <1>8, RankedIsList
<1>10. keys \in SUBSET (DOMAIN pool)
  BY <1>1, <1>3
<1> HIDE DEF fused
<1>11. ListOf(pool, fused) /\ IsInjective(fused) /\ Range(fused) \subseteq keys
  BY <1>8, <1>9, <1>10, RankingsAreLists
<1> QED
  BY <1>11 DEF fused, keys, hits

LEMMA CoarseIsList ==
    ASSUME NEW pool, Evaluable(pool), NEW fused, ListOf(pool, fused)
    PROVE  /\ ListOf(pool, CoarseRank(pool, fused)) /\ IsInjective(CoarseRank(pool, fused))
           /\ Range(CoarseRank(pool, fused)) \subseteq Range(fused)
<1> DEFINE mixed == \E k \in Range(fused) : pool[k].title = 0
           score == [k \in DOMAIN pool |-> IF mixed THEN pool[k].rescored ELSE pool[k].title]
           keys  == Range(fused)
           n     == Len(pool)
<1>1. n \in Nat /\ DOMAIN pool = 1 .. n /\ \A k \in DOMAIN pool : pool[k] \in JudgedProduct
  BY PoolIsFinite
<1>2. \A k \in DOMAIN pool : pool[k].rescored \in Int /\ pool[k].title \in Int
  BY <1>1 DEF JudgedProduct
<1>3. score \in [1 .. n -> Int]
  BY <1>1, <1>2
<1>4. keys \in SUBSET (1 .. n)
  BY <1>1 DEF ListOf, Range
<1>5. CoarseTopK \in Nat
  BY HarnessAssumption
<1>6. CoarseRank(pool, fused) = Cut(Ranked(keys, score), CoarseTopK)
  BY DEF CoarseRank
<1> HIDE DEF score, keys, n
<1>7. RankingOf(keys, CoarseRank(pool, fused), CoarseTopK)
  BY <1>1, <1>3, <1>4, <1>5, <1>6, RankedIsList
<1>8. keys \in SUBSET (DOMAIN pool)
  BY <1>1, <1>4
<1>9. /\ ListOf(pool, CoarseRank(pool, fused)) /\ IsInjective(CoarseRank(pool, fused))
      /\ Range(CoarseRank(pool, fused)) \subseteq keys
  BY <1>5, <1>7, <1>8, RankingsAreLists
<1> QED
  BY <1>9 DEF keys

LEMMA StageNdcgIsNumber ==
    ASSUME NEW pool, Evaluable(pool), NEW list, ListOf(pool, list)
    PROVE  StageMetrics(pool, list).ndcg \in Int
<1> DEFINE gains  == [r \in DOMAIN list |-> Gain[pool[list[r]].label]]
           judged == [k \in DOMAIN pool |-> Gain[pool[k].label]]
           n      == Len(pool)
<1>1. n \in Nat /\ DOMAIN pool = 1 .. n /\ \A k \in DOMAIN pool : pool[k] \in JudgedProduct
  BY PoolIsFinite
<1>2. \A k \in DOMAIN pool : Gain[pool[k].label] \in Nat
  BY <1>1 DEF JudgedProduct, Gain, Labels
<1>3. PICK m \in Nat : list \in [1 .. m -> DOMAIN pool]
  BY DEF ListOf
<1>4. gains \in [1 .. m -> Nat] /\ judged \in [1 .. n -> Nat]
  BY <1>1, <1>2, <1>3
<1>5. Cutoff \in 1 .. Len(Discounts)
  BY HarnessAssumption
<1>6. StageMetrics(pool, list).ndcg = Ndcg(gains, judged, Cutoff)
  BY DEF StageMetrics, Scored
<1> HIDE DEF gains, judged, n
<1>7. Ndcg(gains, judged, Cutoff) \in Nat
  BY <1>1, <1>3, <1>4, <1>5, NdcgIsNumber
<1> QED
  BY <1>6, <1>7

LEMMA QueryNdcgIsNumber ==
    ASSUME NEW pool, Evaluable(pool), NEW v \in Variants
    PROVE  /\ QueryEvidence(pool, v).fusion.ndcg \in Int
           /\ QueryEvidence(pool, v).ranking.ndcg \in Int
<1> DEFINE fused == Fuse(pool, Retrieved(pool, v), v)
<1>1. /\ QueryEvidence(pool, v).fusion = StageMetrics(pool, fused)
      /\ QueryEvidence(pool, v).ranking = StageMetrics(pool, CoarseRank(pool, fused))
  BY DEF QueryEvidence, Retrieve, Retrieved
<1>2. ListOf(pool, fused)
  BY FusionIsList
<1> HIDE DEF fused
<1>3. ListOf(pool, CoarseRank(pool, fused))
  BY <1>2, CoarseIsList
<1> QED
  BY <1>1, <1>2, <1>3, StageNdcgIsNumber

LEMMA RunFields ==
    ASSUME NEW pools, NEW v
    PROVE  LET run   == Run(pools, v)
               of(q) == QueryEvidence(pools[q], v)
           IN /\ run.variant = v
              /\ run.queries = [q \in DOMAIN pools |-> of(q)]
              /\ run.ranking = MetricSums([q \in DOMAIN pools |-> of(q).ranking])
BY DEF Run

LEMMA InputsAreJudged ==
    ASSUME NEW pools \in Inputs
    PROVE  /\ DOMAIN pools = 1 .. Len(pools) /\ Len(pools) \in Nat \ {0}
           /\ IsFiniteSet(DOMAIN pools) /\ DOMAIN pools # {}
           /\ \A q \in DOMAIN pools : Evaluable(pools[q])
<1>1. pools \in Seq(Range(pools)) /\ pools # <<>>
      /\ \A q \in DOMAIN pools : Evaluable(pools[q])
  BY AnalysisAssumption
<1>2. DOMAIN pools = 1 .. Len(pools) /\ Len(pools) \in Nat \ {0}
  BY <1>1
<1>3. 1 \in DOMAIN pools /\ IsFiniteSet(1 .. Len(pools))
  BY <1>2, FS_Interval
<1> QED
  BY <1>1, <1>2, <1>3

LEMMA RunFacts ==
    ASSUME NEW pools \in Inputs, NEW v \in Variants
    PROVE  LET run == Run(pools, v)
           IN /\ run.variant = v
              /\ DOMAIN run.queries = DOMAIN pools
              /\ \A q \in DOMAIN pools : /\ run.queries[q].fusion.ndcg \in Int
                                         /\ run.queries[q].ranking.ndcg \in Int
              /\ run.ranking.ndcg \in Int
<1> DEFINE run     == Run(pools, v)
           of(q)   == QueryEvidence(pools[q], v)
           ranking == [q \in DOMAIN pools |-> of(q).ranking]
           ndcgs   == [q \in DOMAIN pools |-> ranking[q].ndcg]
<1>1. /\ run.variant = v
      /\ run.queries = [q \in DOMAIN pools |-> of(q)]
      /\ run.ranking = MetricSums(ranking)
  BY RunFields
<1>2. \A q \in DOMAIN pools : of(q).fusion.ndcg \in Int /\ of(q).ranking.ndcg \in Int
  BY InputsAreJudged, QueryNdcgIsNumber
<1> HIDE DEF of, run
<1>3. DOMAIN ndcgs = DOMAIN pools /\ \A q \in DOMAIN pools : ndcgs[q] \in Int
  BY <1>2
<1>4. run.ranking.ndcg = SumFunction(ndcgs)
  BY <1>1 DEF MetricSums, MetricNames, SumOver
<1> HIDE DEF ndcgs
<1>5. run.ranking.ndcg \in Int
  <2>1. SumFunction(ndcgs) \in Int
    BY <1>3, InputsAreJudged, SumIsNumber
  <2> QED
    BY <1>4, <2>1
<1>6. DOMAIN run.queries = DOMAIN pools
  BY <1>1
<1>7. \A q \in DOMAIN pools : /\ run.queries[q].fusion.ndcg \in Int
                              /\ run.queries[q].ranking.ndcg \in Int
  BY <1>1, <1>2
<1> QED
  BY <1>1, <1>5, <1>6, <1>7 DEF run

(* What the planners and the answers read of an experiment.                 *)
NextSteps == {"request_owner_review", "run_recall_channel_and_rrf_ablation",
              "replace_recall_candidate"}
ExperimentFits(e, v) ==
    /\ e.summary.variant = v
    /\ e.summary.worst["fusion"] \in Int /\ e.summary.coarse_ndcg \in Int
    /\ e.summary.passed \in BOOLEAN /\ e.summary.next \in NextSteps
    /\ \E n \in Nat : e.changes \in [1 .. n -> Int]

LEMMA ExperimentsFit ==
    ASSUME NEW pools \in Inputs, NEW v \in Candidates
    PROVE  ExperimentFits(Evidence(Runs(pools))[v], v)
<1> DEFINE baseline  == Run(pools, "baseline")
           candidate == Run(pools, v)
           changes   == Changes(baseline, candidate)
           c         == Comparison(baseline, candidate)
           s         == Summary(candidate, c)
           D         == DOMAIN pools
<1>1. v \in Variants /\ "baseline" \in Variants /\ v # "baseline"
  BY DEF Variants, Candidates
<1>2. LET e == Evidence(Runs(pools))[v]
      IN /\ e.summary = s
         /\ e.changes = [q \in DOMAIN c.changes |-> c.changes[q].coarse]
  BY <1>1 DEF Evidence, Runs, CandidateEvidence
<1>3. /\ c.variant = candidate.variant
      /\ c.changes = changes
      /\ c.observed = [g \in GateNames |-> Observed(baseline, candidate, changes, g)]
      /\ c.passed \in BOOLEAN
      /\ c.next \in NextSteps
  BY DEF Comparison, NextAction, NextSteps
<1>4. /\ s.variant = c.variant
      /\ s.worst["fusion"] = Worst(c.changes, "fusion")
      /\ s.coarse_ndcg = c.observed["coarse_ndcg_floor"]
      /\ s.passed = c.passed /\ s.next = c.next
  BY DEF Summary
<1> HIDE DEF c, s
<1>5. candidate.variant = v
  BY <1>1, RunFacts
<1>6. /\ DOMAIN baseline.queries = D
      /\ \A q \in D : /\ baseline.queries[q].fusion.ndcg \in Int
                      /\ baseline.queries[q].ranking.ndcg \in Int
      /\ baseline.ranking.ndcg \in Int
  BY <1>1, RunFacts
<1>7. /\ DOMAIN candidate.queries = D
      /\ \A q \in D : /\ candidate.queries[q].fusion.ndcg \in Int
                      /\ candidate.queries[q].ranking.ndcg \in Int
      /\ candidate.ranking.ndcg \in Int
  BY <1>1, RunFacts
<1> HIDE DEF baseline, candidate
<1>8. /\ DOMAIN changes = D
      /\ \A q \in D : changes[q].coarse \in Int /\ changes[q].fusion \in Int
  BY <1>6, <1>7 DEF Changes, QueryChange
<1>9. c.observed["coarse_ndcg_floor"] \in Int
  <2>1. "coarse_ndcg_floor" \in GateNames
    BY DEF GateNames, Means
  <2>2. Observed(baseline, candidate, changes, "coarse_ndcg_floor")
           = candidate["ranking"]["ndcg"] - baseline["ranking"]["ndcg"]
    BY DEF Observed, Means
  <2> HIDE DEF changes
  <2> QED
    BY <1>3, <1>6, <1>7, <2>1, <2>2
<1> HIDE DEF changes
<1>10. Worst(changes, "fusion") \in Int
  <2> DEFINE f == [q \in D |-> changes[q]["fusion"]]
             V == {changes[q]["fusion"] : q \in D}
  <2>1. V = {f[q] : q \in D}
    OBVIOUS
  <2>2. IsFiniteSet(D) /\ D # {}
    BY InputsAreJudged
  <2> HIDE DEF f
  <2>3. IsFiniteSet({f[q] : q \in D})
    BY <2>2, ImageIsFinite
  <2>4. V # {} /\ V \subseteq Int
    BY <1>8, <2>2
  <2>5. Worst(changes, "fusion") = Min(V)
    BY <1>8 DEF Worst
  <2> HIDE DEF V
  <2> QED
    BY <2>1, <2>3, <2>4, <2>5, SmallestExists
<1>11. LET e == Evidence(Runs(pools))[v]
       IN \E n \in Nat : e.changes \in [1 .. n -> Int]
  <2>1. D = 1 .. Len(pools) /\ Len(pools) \in Nat
    BY InputsAreJudged
  <2> DEFINE e == Evidence(Runs(pools))[v]
  <2> HIDE DEF e, D
  <2>2. e.changes = [q \in D |-> changes[q].coarse]
    BY <1>2, <1>3, <1>8 DEF e
  <2>3. e.changes \in [1 .. Len(pools) -> Int]
    BY <1>8, <2>1, <2>2
  <2> QED
    BY <2>1, <2>3 DEF e
<1> DEFINE e == Evidence(Runs(pools))[v]
<1>12. e.summary = s
  BY <1>2
<1> HIDE DEF e
<1> QED
  BY <1>3, <1>4, <1>5, <1>9, <1>10, <1>11, <1>12 DEF ExperimentFits, e
-----------------------------------------------------------------------------
(* The evidence of a run passes every check that it is put to.              *)

(* What the harness shows of a query.                                       *)
Shows(e, result, pool, v) ==
    /\ e.judgments = pool /\ e.relevant = Cardinality(Relevant(pool))
    /\ e.hits = Retrieved(pool, v) /\ e.fused = Fuse(pool, e.hits, v)
    /\ e.coarse = CoarseRank(pool, e.fused)
    /\ e.channels = [c \in ChannelsOf(v) |-> StageMetrics(pool, e.hits[c])]
    /\ e.fusion = StageMetrics(pool, e.fused)
    /\ e.ranking = StageMetrics(pool, e.coarse)
    /\ e.coverage = (Unit * Cardinality(Returned(e.hits) \cap Relevant(pool)))
                        \div Cardinality(Relevant(pool))
    /\ e.lineage = [k \in Relevant(pool) |-> FirstLoss(result, k)]
    /\ result.hits = e.hits /\ result.union = Returned(e.hits)
    /\ result.fused = e.fused /\ result.coarse = e.coarse

LEMMA QueryFields ==
    ASSUME NEW pool, NEW v
    PROVE  Shows(QueryEvidence(pool, v), Retrieve(pool, v), pool, v)
<1> DEFINE e      == QueryEvidence(pool, v)
           result == Retrieve(pool, v)
           hits   == Retrieved(pool, v)
           fused  == Fuse(pool, hits, v)
<1>1. /\ result.hits = hits /\ result.union = Returned(hits)
      /\ result.fused = fused /\ result.coarse = CoarseRank(pool, fused)
  BY DEF Retrieve, Retrieved
<1> HIDE DEF result, hits, fused
<1>2. /\ e.judgments = pool /\ e.relevant = Cardinality(Relevant(pool))
      /\ e.hits = result.hits /\ e.fused = result.fused /\ e.coarse = result.coarse
      /\ e.channels = [c \in ChannelsOf(v) |-> StageMetrics(pool, result.hits[c])]
      /\ e.fusion = StageMetrics(pool, result.fused)
      /\ e.ranking = StageMetrics(pool, result.coarse)
      /\ e.coverage = (Unit * Cardinality(result.union \cap Relevant(pool)))
                          \div Cardinality(Relevant(pool))
      /\ e.lineage = [k \in Relevant(pool) |-> FirstLoss(result, k)]
  BY DEF QueryEvidence, result
<1> HIDE DEF e
<1>3. /\ e.hits = hits /\ e.fused = Fuse(pool, e.hits, v) /\ e.coarse = CoarseRank(pool, e.fused)
      /\ result.union = Returned(e.hits)
  BY <1>1, <1>2 DEF fused
<1>4. e.lineage = [k \in Relevant(pool) |-> FirstLoss(result, k)]
  BY <1>2
<1>5. Shows(e, result, pool, v)
  BY <1>1, <1>2, <1>3, <1>4 DEF Shows, hits
<1> QED
  BY <1>5 DEF e, result

(* The rankings of one query: what each stage returns is among what the     *)
(* stage before it returned, and no product is returned twice.              *)
LEMMA StagesNarrow ==
    ASSUME NEW pool, Evaluable(pool), NEW v \in Variants
    PROVE  LET e == QueryEvidence(pool, v)
           IN /\ DOMAIN e.hits = ChannelsOf(v)
              /\ \A c \in ChannelsOf(v) :
                    /\ e.hits[c] = Search(pool, c) /\ ListOf(pool, e.hits[c])
                    /\ IsInjective(e.hits[c]) /\ Len(e.hits[c]) <= ChannelTopK
                    /\ Range(e.hits[c]) \subseteq DOMAIN pool
              /\ ListOf(pool, e.fused) /\ IsInjective(e.fused)
              /\ ListOf(pool, e.coarse) /\ IsInjective(e.coarse)
              /\ Range(e.fused) \subseteq Returned(e.hits)
              /\ Range(e.coarse) \subseteq Range(e.fused)
              /\ Returned(e.hits) \subseteq DOMAIN pool
<1> DEFINE e     == QueryEvidence(pool, v)
           hits  == Retrieved(pool, v)
           fused == Fuse(pool, hits, v)
           coarse == CoarseRank(pool, fused)
<1>1. e.hits = hits /\ e.fused = fused /\ e.coarse = coarse
  <2>1. Shows(e, Retrieve(pool, v), pool, v)
    BY QueryFields
  <2> HIDE DEF e
  <2> QED
    BY <2>1 DEF Shows
<1>2. DOMAIN hits = ChannelsOf(v) /\ \A c \in ChannelsOf(v) : hits[c] = Search(pool, c)
  BY DEF Retrieved
<1>3. ASSUME NEW c \in ChannelsOf(v)
      PROVE  /\ ListOf(pool, Search(pool, c)) /\ IsInjective(Search(pool, c))
             /\ Range(Search(pool, c)) \subseteq DOMAIN pool
             /\ Len(Search(pool, c)) <= ChannelTopK
  <2>1. c \in {"title", "exact", "fields"}
    BY Channels
  <2> QED
    BY <2>1, SearchIsList
<1>4. ListOf(pool, fused) /\ IsInjective(fused) /\ Range(fused) \subseteq Returned(hits)
  BY FusionIsList
<1>5. Returned(hits) \subseteq DOMAIN pool
  BY RetrievedLists
<1> HIDE DEF e, hits, fused
<1>6. ListOf(pool, coarse) /\ IsInjective(coarse) /\ Range(coarse) \subseteq Range(fused)
  BY <1>4, CoarseIsList
<1> HIDE DEF coarse
<1> QED
  BY <1>1, <1>2, <1>3, <1>4, <1>5, <1>6 DEF e

LEMMA RelevantAreFinite ==
    ASSUME NEW pool, Evaluable(pool)
    PROVE  /\ Relevant(pool) \subseteq DOMAIN pool /\ IsFiniteSet(Relevant(pool))
           /\ Relevant(pool) # {} /\ Cardinality(Relevant(pool)) \in Nat \ {0}
<1>1. Relevant(pool) \subseteq DOMAIN pool
  BY DEF Relevant
<1>2. Relevant(pool) # {}
  BY DEF Evaluable
<1>3. IsFiniteSet(Relevant(pool))
  BY <1>1, PoolIsFinite, FS_Subset
<1> QED
  BY <1>1, <1>2, <1>3, FS_CardinalityType, FS_EmptySet

(* A product is lost where the validator, which looks at the rankings of    *)
(* the evidence, expects it to be lost.                                     *)
LEMMA LossesAsExpected ==
    ASSUME NEW pool, Evaluable(pool), NEW v \in Variants, NEW k
    PROVE  FirstLoss(Retrieve(pool, v), k) = ExpectedLoss(QueryEvidence(pool, v), k)
<1> DEFINE e      == QueryEvidence(pool, v)
           result == Retrieve(pool, v)
<1>1. /\ result.union = Returned(e.hits) /\ result.fused = e.fused
      /\ result.coarse = e.coarse
  <2>1. Shows(e, result, pool, v)
    BY QueryFields
  <2> HIDE DEF e, result
  <2> QED
    BY <2>1 DEF Shows
<1>2. /\ Range(e.fused) \subseteq Returned(e.hits)
      /\ Range(e.coarse) \subseteq Range(e.fused)
  BY StagesNarrow
<1>3. k \in Returned(e.hits) <=> \E c \in DOMAIN e.hits : k \in Range(e.hits[c])
  BY DEF Returned
<1> HIDE DEF e, result
<1>4. FirstLoss(result, k) = IF k \notin Returned(e.hits) THEN "recall"
                             ELSE IF k \notin Range(e.fused) THEN "fusion"
                             ELSE IF k \notin Range(e.coarse) THEN "coarse_rank"
                             ELSE "retained"
  BY <1>1 DEF FirstLoss
<1>5. CASE k \notin Returned(e.hits)
  BY <1>2, <1>3, <1>4, <1>5 DEF ExpectedLoss, e, result
<1>6. CASE k \in Returned(e.hits) /\ k \notin Range(e.fused)
  BY <1>2, <1>3, <1>4, <1>6 DEF ExpectedLoss, e, result
<1>7. CASE k \in Range(e.fused) /\ k \notin Range(e.coarse)
  BY <1>2, <1>3, <1>4, <1>7 DEF ExpectedLoss, e, result
<1>8. CASE k \in Range(e.coarse)
  BY <1>2, <1>3, <1>4, <1>8 DEF ExpectedLoss, e, result
<1> QED
  BY <1>2, <1>5, <1>6, <1>7, <1>8

LEMMA QueryIsValid ==
    ASSUME NEW pool, Evaluable(pool), NEW v \in Variants
    PROVE  /\ ValidQuery(QueryEvidence(pool, v), v)
           /\ ExpectedLineage(QueryEvidence(pool, v)) = QueryEvidence(pool, v).lineage
<1> DEFINE e     == QueryEvidence(pool, v)
           union == UNION {Range(e.hits[c]) : c \in DOMAIN e.hits}
           found == {k \in union : e.judgments[k].label \in RelevantLabels}
<1>1. /\ e.judgments = pool /\ e.relevant = Cardinality(Relevant(pool))
      /\ e.channels = [c \in ChannelsOf(v) |-> StageMetrics(pool, e.hits[c])]
      /\ e.fusion = StageMetrics(pool, e.fused)
      /\ e.ranking = StageMetrics(pool, e.coarse)
      /\ e.fused = Fuse(pool, e.hits, v) /\ e.coarse = CoarseRank(pool, e.fused)
      /\ e.coverage = (Unit * Cardinality(Returned(e.hits) \cap Relevant(pool)))
                          \div Cardinality(Relevant(pool))
      /\ e.lineage = [k \in Relevant(pool) |-> FirstLoss(Retrieve(pool, v), k)]
  <2>1. Shows(e, Retrieve(pool, v), pool, v)
    BY QueryFields
  <2> HIDE DEF e
  <2> QED
    BY <2>1 DEF Shows
<1>2. /\ DOMAIN e.hits = ChannelsOf(v)
      /\ \A c \in ChannelsOf(v) :
            /\ e.hits[c] = Search(pool, c)
            /\ IsInjective(e.hits[c]) /\ Len(e.hits[c]) <= ChannelTopK
            /\ Range(e.hits[c]) \subseteq DOMAIN pool
      /\ IsInjective(e.fused) /\ IsInjective(e.coarse)
      /\ Range(e.fused) \subseteq DOMAIN pool /\ Range(e.coarse) \subseteq DOMAIN pool
      /\ Returned(e.hits) \subseteq DOMAIN pool
  BY StagesNarrow
<1>3. \A k : FirstLoss(Retrieve(pool, v), k) = ExpectedLoss(e, k)
  BY LossesAsExpected
<1> HIDE DEF e
<1>4. Judged(e)
  <2>1. e.judgments # <<>>
    BY <1>1, RelevantAreFinite
  <2>2. Relevant(pool) = {k \in DOMAIN e.judgments : e.judgments[k].label \in RelevantLabels}
    BY <1>1 DEF Relevant
  <2> QED
    <3>1. e.relevant \in Nat /\ e.relevant > 0
      BY <1>1, RelevantAreFinite
    <3>2. e.relevant = Cardinality({k \in DOMAIN e.judgments :
                                       e.judgments[k].label \in RelevantLabels})
      BY <1>1, <2>2
    <3> QED
      BY <2>1, <3>1, <3>2 DEF Judged
<1>5. \A list : RecomputedMetrics(e, list) = StageMetrics(pool, list)
  BY <1>1 DEF RecomputedMetrics, StageMetrics
<1>6. ASSUME NEW c \in DOMAIN e.hits
      PROVE  /\ Len(e.hits[c]) <= ChannelTopK
             /\ RankedItems(e, e.hits[c])
             /\ e.hits[c] = Search(e.judgments, c)
             /\ e.channels[c] = RecomputedMetrics(e, e.hits[c])
  BY <1>1, <1>2, <1>5 DEF RankedItems
<1>7. /\ RankedItems(e, e.fused) /\ e.fused = Fuse(e.judgments, e.hits, v)
      /\ RankedItems(e, e.coarse) /\ e.coarse = CoarseRank(e.judgments, e.fused)
      /\ e.fusion = RecomputedMetrics(e, e.fused)
      /\ e.ranking = RecomputedMetrics(e, e.coarse)
  BY <1>1, <1>2, <1>5 DEF RankedItems
<1>8. e.coverage = (Unit * Cardinality(found)) \div e.relevant
  <2>1. union = Returned(e.hits)
    BY DEF Returned
  <2>2. found = Returned(e.hits) \cap Relevant(pool)
    BY <1>1, <1>2, <2>1 DEF Relevant
  <2> QED
    BY <1>1, <2>2
<1>9. e.lineage = ExpectedLineage(e)
  <2>1. Relevant(pool) = {j \in DOMAIN e.judgments : e.judgments[j].label \in RelevantLabels}
    BY <1>1 DEF Relevant
  <2> QED
    BY <1>1, <1>3, <2>1 DEF ExpectedLineage
<1>10. ValidQuery(e, v)
  <2> HIDE DEF found
  <2> QED
    BY <1>2, <1>4, <1>6, <1>7, <1>8, <1>9 DEF ValidQuery, found
<1> QED
  BY <1>9, <1>10 DEF e

(* A list of different products of a pool can be measured, and every metric *)
(* of it lies between 0 and 1.                                              *)
LEMMA ListsAreMeasured ==
    ASSUME NEW pool, Evaluable(pool), NEW list, ListOf(pool, list)
    PROVE  /\ Rankable(pool, list)
           /\ \A m \in MetricNames : StageMetrics(pool, list)[m] \in 0 .. Unit
<1> DEFINE judged   == [k \in DOMAIN pool |-> Gain[pool[k].label]]
           relevant == [r \in DOMAIN list |-> pool[list[r]].label \in RelevantLabels]
           gains    == [r \in DOMAIN list |-> Gain[pool[list[r]].label]]
           n        == Len(pool)
           R        == Relevant(pool)
<1>1. n \in Nat /\ DOMAIN pool = 1 .. n /\ \A k \in DOMAIN pool : pool[k] \in JudgedProduct
  BY PoolIsFinite
<1>2. \A k \in DOMAIN pool : Gain[pool[k].label] \in Nat
  BY <1>1 DEF JudgedProduct, Gain, Labels
<1>3. PICK l \in Nat : list \in [1 .. l -> DOMAIN pool] /\ Distinct(list, l)
  BY DEF ListOf
<1>4. /\ judged \in [1 .. n -> Nat] /\ relevant \in [1 .. l -> BOOLEAN]
      /\ list \in [1 .. l -> 1 .. n]
      /\ gains = [r \in 1 .. l |-> judged[list[r]]]
      /\ \A r \in 1 .. l : relevant[r] => list[r] \in R
  <2>1. DOMAIN list = 1 .. l /\ \A r \in 1 .. l : list[r] \in DOMAIN pool
    BY <1>3
  <2>2. judged \in [1 .. n -> Nat] /\ relevant \in [1 .. l -> BOOLEAN]
    BY <1>1, <1>2, <2>1
  <2>3. gains = [r \in 1 .. l |-> judged[list[r]]]
    BY <2>1
  <2>4. \A r \in 1 .. l : relevant[r] => list[r] \in R
    BY <2>1 DEF Relevant
  <2>5. list \in [1 .. l -> 1 .. n]
    BY <1>1, <1>3
  <2> QED
    BY <2>2, <2>3, <2>4, <2>5
<1>5. IsFiniteSet(R) /\ R # {}
  BY RelevantAreFinite
<1>6. Cutoff \in 1 .. Len(Discounts) /\ Cutoff \in Nat /\ ShortCutoff \in Nat
  BY HarnessAssumption
<1>7. /\ Rankable(pool, list) <=> Measurable(gains, judged, Cutoff)
      /\ LET s == StageMetrics(pool, list)
         IN /\ s["recall_short"] = Recall(relevant, Cardinality(R), ShortCutoff)
            /\ s["recall"] = Recall(relevant, Cardinality(R), Cutoff)
            /\ s["mrr"] = ReciprocalRank(relevant, Cutoff)
            /\ s["ndcg"] = Ndcg(gains, judged, Cutoff)
  BY DEF StageMetrics, Scored, Rankable
<1> HIDE DEF judged, relevant, gains, n, R
<1>8. Measurable(gains, judged, Cutoff)
  BY <1>1, <1>3, <1>4, <1>6, NothingBeatsTheIdeal
<1>9. Ndcg(gains, judged, Cutoff) \in 0 .. Unit
  <2>1. Ndcg([r \in 1 .. l |-> judged[list[r]]], judged, Cutoff) \in 0 .. Unit
    <3>1. /\ n \in Nat /\ judged \in [1 .. n -> Nat] /\ Distinct(list, l)
          /\ l \in Nat /\ list \in [1 .. l -> 1 .. n] /\ Cutoff \in 1 .. Len(Discounts)
      BY <1>1, <1>3, <1>4, <1>6
    <3> QED
      BY <3>1, NdcgIsBounded, Zenon
  <2> QED
    BY <1>4, <2>1
<1>10. ReciprocalRank(relevant, Cutoff) \in 0 .. Unit
  BY <1>3, <1>4, <1>6, ReciprocalRankIsBounded
<1>11. /\ Recall(relevant, Cardinality(R), Cutoff) \in 0 .. Unit
       /\ Recall(relevant, Cardinality(R), ShortCutoff) \in 0 .. Unit
  BY <1>3, <1>4, <1>5, <1>6, RecallIsBounded
<1> QED
  BY <1>7, <1>8, <1>9, <1>10, <1>11 DEF MetricNames

(* The evidence of a query is accepted, and its figures are fractions.      *)
Fractions(e) ==
    /\ e.accepted
    /\ e.coverage \in 0 .. Unit
    /\ \A m \in MetricNames : /\ e.fusion[m] \in 0 .. Unit /\ e.ranking[m] \in 0 .. Unit
                              /\ \A c \in DOMAIN e.hits : e.channels[c][m] \in 0 .. Unit

LEMMA AcceptedDef ==
    ASSUME NEW pool, NEW v
    PROVE  LET result == Retrieve(pool, v)
           IN QueryEvidence(pool, v).accepted =
                  /\ WithinContract(result)
                  /\ \A list \in Range(result.hits) \cup {result.fused, result.coarse} :
                         Rankable(pool, list)
BY DEF QueryEvidence

LEMMA QueriesAreAccepted ==
    ASSUME NEW pool, Evaluable(pool), NEW v \in Variants
    PROVE  Fractions(QueryEvidence(pool, v))
<1> DEFINE e      == QueryEvidence(pool, v)
           result == Retrieve(pool, v)
<1>1. /\ e.channels = [c \in ChannelsOf(v) |-> StageMetrics(pool, e.hits[c])]
      /\ e.fusion = StageMetrics(pool, e.fused)
      /\ e.ranking = StageMetrics(pool, e.coarse)
      /\ e.coverage = (Unit * Cardinality(Returned(e.hits) \cap Relevant(pool)))
                          \div Cardinality(Relevant(pool))
      /\ result.hits = e.hits /\ result.union = Returned(e.hits)
      /\ result.fused = e.fused /\ result.coarse = e.coarse
  <2>1. Shows(e, result, pool, v)
    BY QueryFields
  <2> HIDE DEF e, result
  <2> QED
    BY <2>1 DEF Shows
<1>2. /\ DOMAIN e.hits = ChannelsOf(v)
      /\ \A c \in ChannelsOf(v) : ListOf(pool, e.hits[c]) /\ IsInjective(e.hits[c])
      /\ ListOf(pool, e.fused) /\ IsInjective(e.fused)
      /\ ListOf(pool, e.coarse) /\ IsInjective(e.coarse)
      /\ Range(e.fused) \subseteq Returned(e.hits)
      /\ Range(e.coarse) \subseteq Range(e.fused)
  BY StagesNarrow
<1>3. e.accepted = (/\ WithinContract(result)
                    /\ \A list \in Range(result.hits) \cup {result.fused, result.coarse} :
                           Rankable(pool, list))
  BY AcceptedDef
<1> HIDE DEF e, result
<1>4. WithinContract(result)
  BY <1>1, <1>2 DEF WithinContract
<1>5. ASSUME NEW list \in Range(result.hits) \cup {result.fused, result.coarse}
      PROVE  Rankable(pool, list)
  <2>1. ListOf(pool, list)
    BY <1>1, <1>2 DEF Range
  <2> QED
    BY <2>1, ListsAreMeasured
<1>6. ASSUME NEW m \in MetricNames
      PROVE  /\ e.fusion[m] \in 0 .. Unit /\ e.ranking[m] \in 0 .. Unit
             /\ \A c \in DOMAIN e.hits : e.channels[c][m] \in 0 .. Unit
  BY <1>1, <1>2, ListsAreMeasured
<1>7. e.coverage \in 0 .. Unit
  <2> DEFINE R == Relevant(pool)
             F == Returned(e.hits) \cap R
  <2>1. IsFiniteSet(R) /\ Cardinality(R) \in Nat \ {0}
    BY RelevantAreFinite
  <2>2. F \subseteq R
    OBVIOUS
  <2>3. e.coverage = (Unit * Cardinality(F)) \div Cardinality(R)
    BY <1>1
  <2> HIDE DEF R, F
  <2>4. IsFiniteSet(F) /\ Cardinality(F) <= Cardinality(R) /\ Cardinality(F) \in Nat
    BY <2>1, <2>2, FS_Subset, FS_CardinalityType
  <2>5. (Unit * Cardinality(F)) \div Cardinality(R) \in 0 .. Unit
    BY <2>1, <2>4, QuotientIsBounded, MetricsAssumption
  <2> QED
    BY <2>3, <2>5
<1> QED
  BY <1>3, <1>4, <1>5, <1>6, <1>7 DEF Fractions, e

(* What a run shows: the evidence of its queries, and their sums.           *)
RunShows(run, es, v) ==
    LET D == DOMAIN es IN
    /\ run.variant = v /\ run.queries = es
    /\ run.channels = [c \in ChannelsOf(v) |-> MetricSums([q \in D |-> es[q].channels[c]])]
    /\ run.fusion = MetricSums([q \in D |-> es[q].fusion])
    /\ run.ranking = MetricSums([q \in D |-> es[q].ranking])
    /\ run.coverage = SumOver([q \in D |-> es[q].coverage])
    /\ run.losses = [s \in LossStages |-> SumOver([q \in D |->
           Cardinality({k \in DOMAIN es[q].lineage : es[q].lineage[k] = s})])]
    /\ run.unique = [c \in ChannelsOf(v) |-> SumOver([q \in D |->
           Cardinality(Unique(es[q].judgments, es[q].hits, c))])]
    /\ run.exact_unique = SumOver([q \in D |->
           Cardinality((Relevant(es[q].judgments) \cap Range(es[q].hits["exact"]))
                           \ Range(es[q].hits["title"]))])
    /\ run.zero_result = Cardinality({q \in D : es[q].fused = <<>>})
    /\ run.judged = SumOver([q \in D |-> Len(es[q].judgments)])

EvidenceOf(pools, v) == [q \in DOMAIN pools |-> QueryEvidence(pools[q], v)]

LEMMA RunIsShown ==
    ASSUME NEW pools, NEW v
    PROVE  RunShows(Run(pools, v), EvidenceOf(pools, v), v)
BY Zenon DEF RunShows, Run, EvidenceOf

(* What is known of the evidence of each query of a run.                    *)
QueryKnown(e, pool, v) ==
    /\ ValidQuery(e, v) /\ ExpectedLineage(e) = e.lineage /\ Fractions(e)
    /\ e.judgments = pool /\ e.relevant = Cardinality(Relevant(pool))
    /\ DOMAIN e.hits = ChannelsOf(v) /\ DOMAIN e.lineage = Relevant(pool)
    /\ \A k \in DOMAIN e.lineage :
           e.lineage[k] = ExpectedLoss(e, k) /\ e.lineage[k] \in LossStages

LEMMA QueriesAreKnown ==
    ASSUME NEW pool, Evaluable(pool), NEW v \in Variants
    PROVE  QueryKnown(QueryEvidence(pool, v), pool, v)
<1> DEFINE e == QueryEvidence(pool, v)
<1>1. ValidQuery(e, v) /\ ExpectedLineage(e) = e.lineage /\ Fractions(e)
  BY QueryIsValid, QueriesAreAccepted
<1>2. /\ e.judgments = pool /\ e.relevant = Cardinality(Relevant(pool))
      /\ e.lineage = [k \in Relevant(pool) |-> FirstLoss(Retrieve(pool, v), k)]
  <2>1. Shows(e, Retrieve(pool, v), pool, v)
    BY QueryFields
  <2> HIDE DEF e
  <2> QED
    BY <2>1 DEF Shows
<1>3. DOMAIN e.hits = ChannelsOf(v)
  BY StagesNarrow
<1>4. \A k : FirstLoss(Retrieve(pool, v), k) = ExpectedLoss(e, k)
  BY LossesAsExpected
<1>5. \A k : FirstLoss(Retrieve(pool, v), k) \in LossStages
  BY DEF FirstLoss, LossStages
<1> HIDE DEF e
<1>6. \A k \in DOMAIN e.lineage :
         e.lineage[k] = ExpectedLoss(e, k) /\ e.lineage[k] \in LossStages
  BY <1>2, <1>4, <1>5
<1> QED
  BY <1>1, <1>2, <1>3, <1>6 DEF QueryKnown, e

LEMMA EvidenceIsKnown ==
    ASSUME NEW pools \in Inputs, NEW v \in Variants
    PROVE  LET es == EvidenceOf(pools, v)
           IN /\ DOMAIN es = DOMAIN pools /\ es # <<>>
              /\ \A q \in DOMAIN pools : QueryKnown(es[q], pools[q], v)
<1> DEFINE es == EvidenceOf(pools, v)
<1>1. DOMAIN es = DOMAIN pools /\ \A q \in DOMAIN pools : es[q] = QueryEvidence(pools[q], v)
  BY DEF EvidenceOf
<1>2. DOMAIN pools # {} /\ \A q \in DOMAIN pools : Evaluable(pools[q])
  BY InputsAreJudged
<1> HIDE DEF es
<1>3. es # <<>>
  BY <1>1, <1>2
<1>4. \A q \in DOMAIN pools : QueryKnown(es[q], pools[q], v)
  BY <1>1, <1>2, QueriesAreKnown
<1> QED
  BY <1>1, <1>3, <1>4 DEF es

LEMMA RunIsValid ==
    ASSUME NEW pools \in Inputs, NEW v \in Variants
    PROVE  ValidRun(Run(pools, v))
<1> DEFINE run == Run(pools, v)
           es  == EvidenceOf(pools, v)
           D   == DOMAIN es
<1>1. RunShows(run, es, v)
  BY RunIsShown
<1>2. /\ D = DOMAIN pools /\ es # <<>>
      /\ \A q \in D : QueryKnown(es[q], pools[q], v)
  BY EvidenceIsKnown
<1> HIDE DEF run, es
<1>3. /\ run.variant = v /\ run.queries = es
      /\ run.channels = [c \in ChannelsOf(v) |-> MetricSums([q \in D |-> es[q].channels[c]])]
      /\ run.fusion = MetricSums([q \in D |-> es[q].fusion])
      /\ run.ranking = MetricSums([q \in D |-> es[q].ranking])
      /\ run.coverage = SumOver([q \in D |-> es[q].coverage])
      /\ run.zero_result = Cardinality({q \in D : es[q].fused = <<>>})
      /\ run.judged = SumOver([q \in D |-> Len(es[q].judgments)])
  BY <1>1 DEF RunShows
<1>4. \A metrics : StageTotals(metrics) = MetricSums(metrics)
  BY DEF StageTotals, MetricSums
<1>5. run.losses = [s \in LossStages |-> Losses(run, s)]
  <2>1. run.losses = [s \in LossStages |-> SumOver([q \in D |->
           Cardinality({k \in DOMAIN es[q].lineage : es[q].lineage[k] = s})])]
    BY <1>1 DEF RunShows
  <2>2. ASSUME NEW s \in LossStages
        PROVE  SumOver([q \in D |->
                   Cardinality({k \in DOMAIN es[q].lineage : es[q].lineage[k] = s})])
                 = Losses(run, s)
    <3>1. \A q \in D : {k \in DOMAIN es[q].lineage : es[q].lineage[k] = s}
                      = {k \in DOMAIN ExpectedLineage(es[q]) : ExpectedLoss(es[q], k) = s}
      BY <1>2 DEF QueryKnown
    <3>2. [q \in D |-> Cardinality({k \in DOMAIN es[q].lineage : es[q].lineage[k] = s})]
          = [q \in DOMAIN run.queries |->
                Cardinality({k \in DOMAIN ExpectedLineage(run.queries[q]) :
                                ExpectedLoss(run.queries[q], k) = s})]
      BY <1>3, <3>1
    <3> QED
      BY <3>2 DEF Losses
  <2> QED
    BY <2>1, <2>2
<1>6. run.exact_unique = Contribution(run, "exact", {"title"})
  <2>1. run.exact_unique = SumOver([q \in D |->
           Cardinality((Relevant(es[q].judgments) \cap Range(es[q].hits["exact"]))
                           \ Range(es[q].hits["title"]))])
    BY <1>1 DEF RunShows
  <2>2. \A q \in D : (Relevant(es[q].judgments) \cap Range(es[q].hits["exact"]))
                       \ Range(es[q].hits["title"]) = OnlyIn(es[q], "exact", {"title"})
    BY DEF OnlyIn, Relevant
  <2>3. [q \in D |-> Cardinality((Relevant(es[q].judgments) \cap Range(es[q].hits["exact"]))
                           \ Range(es[q].hits["title"]))]
        = [q \in DOMAIN run.queries |->
              Cardinality(OnlyIn(run.queries[q], "exact", {"title"}))]
    BY <1>3, <2>2
  <2> QED
    BY <2>1, <2>3 DEF Contribution
<1>7. ASSUME NEW c \in ChannelsOf(v)
      PROVE  run.unique[c] = Contribution(run, c, ChannelsOf(run.variant) \ {c})
  <2>1. run.unique[c] = SumOver([q \in D |->
           Cardinality(Unique(es[q].judgments, es[q].hits, c))])
    BY <1>1 DEF RunShows
  <2>2. ASSUME NEW q \in D
        PROVE  Unique(es[q].judgments, es[q].hits, c)
                  = OnlyIn(es[q], c, ChannelsOf(run.variant) \ {c})
    <3>1. DOMAIN es[q].hits = ChannelsOf(run.variant)
      BY <1>2, <1>3 DEF QueryKnown
    <3> QED
      BY <3>1 DEF OnlyIn, Unique, Relevant
  <2>3. [q \in D |-> Cardinality(Unique(es[q].judgments, es[q].hits, c))]
        = [q \in DOMAIN run.queries |->
              Cardinality(OnlyIn(run.queries[q], c, ChannelsOf(run.variant) \ {c}))]
    BY <1>3, <2>2
  <2> QED
    BY <2>1, <2>3 DEF Contribution
<1>8. DOMAIN run.channels = ChannelsOf(v) /\ DOMAIN run.unique = ChannelsOf(v)
  BY <1>1 DEF RunShows
<1>9. ValidAggregate(run)
  <2>1. \A c \in DOMAIN run.channels :
           run.channels[c] = StageTotals([q \in DOMAIN run.queries |-> run.queries[q].channels[c]])
    BY <1>3, <1>4, <1>8
  <2>2. /\ run.fusion = StageTotals([q \in DOMAIN run.queries |-> run.queries[q].fusion])
        /\ run.ranking = StageTotals([q \in DOMAIN run.queries |-> run.queries[q].ranking])
    BY <1>3, <1>4
  <2>3. /\ run.coverage = SumOver([q \in DOMAIN run.queries |-> run.queries[q].coverage])
        /\ run.judged = SumOver([q \in DOMAIN run.queries |-> Len(run.queries[q].judgments)])
        /\ run.zero_result
              = Cardinality({q \in DOMAIN run.queries : run.queries[q].fused = <<>>})
    BY <1>3
  <2> QED
    BY <1>5, <1>6, <1>7, <1>8, <2>1, <2>2, <2>3 DEF ValidAggregate
<1>10. \A q \in DOMAIN run.queries : ValidQuery(run.queries[q], run.variant)
  BY <1>2, <1>3 DEF QueryKnown
<1> QED
  BY <1>2, <1>3, <1>8, <1>9, <1>10 DEF ValidRun, run

LEMMA MeanIsInUnit ==
    ASSUME NEW n \in Nat, NEW f, DOMAIN f = 1 .. n, \A q \in 1 .. n : f[q] \in 0 .. Unit
    PROVE  SumOver(f) \in Int /\ 0 <= SumOver(f) /\ SumOver(f) <= Unit * n
<1>1. IsFiniteSet(1 .. n) /\ Cardinality(1 .. n) = n
  BY FS_Interval
<1>2. Unit \in Int /\ 0 \in Int
  BY MetricsAssumption
<1>3. /\ SumFunction(f) \in Int
      /\ n * 0 <= SumFunction(f) /\ SumFunction(f) <= n * Unit
  <2>1. IsFiniteSet(DOMAIN f) /\ \A x \in DOMAIN f : f[x] \in 0 .. Unit
    BY <1>1
  <2>2. /\ SumFunction(f) \in Int
        /\ Cardinality(DOMAIN f) * 0 <= SumFunction(f)
        /\ SumFunction(f) <= Cardinality(DOMAIN f) * Unit
    BY <1>2, <2>1, SumIsBounded
  <2> QED
    BY <1>1, <2>2
<1> QED
  BY <1>2, <1>3 DEF SumOver

(* The sums of a run: every metric's over the queries, what was lost, and   *)
(* what one channel alone found.                                            *)
RunKnown(run, pools, v) ==
    /\ RunShows(run, EvidenceOf(pools, v), v) /\ run.queries = EvidenceOf(pools, v)
    /\ ValidRun(run)
    /\ Queries(run) = Len(pools) /\ DOMAIN run.queries = DOMAIN pools
    /\ \A q \in DOMAIN pools : QueryKnown(run.queries[q], pools[q], v)

InBounds(run, v) ==
    /\ \A m \in MetricNames :
           /\ run.fusion[m] \in Int /\ MeanInUnit(run, run.fusion[m])
           /\ run.ranking[m] \in Int /\ MeanInUnit(run, run.ranking[m])
           /\ \A c \in ChannelsOf(v) :
                  run.channels[c][m] \in Int /\ MeanInUnit(run, run.channels[c][m])
    /\ DOMAIN run.channels = ChannelsOf(v)
    /\ run.coverage \in Int /\ MeanInUnit(run, run.coverage)
    /\ TotalRelevant(run) \in Nat \ {0}
    /\ \A s \in LossStages : run.losses[s] \in Nat /\ run.losses[s] <= TotalRelevant(run)

LEMMA RunIsKnown ==
    ASSUME NEW pools \in Inputs, NEW v \in Variants
    PROVE  RunKnown(Run(pools, v), pools, v)
<1> DEFINE run == Run(pools, v)
           es  == EvidenceOf(pools, v)
           n   == Len(pools)
<1>1. RunShows(run, es, v) /\ ValidRun(run)
  BY RunIsShown, RunIsValid
<1>2. /\ DOMAIN es = DOMAIN pools
      /\ \A q \in DOMAIN pools : QueryKnown(es[q], pools[q], v)
  BY EvidenceIsKnown
<1>3. DOMAIN pools = 1 .. n /\ n \in Nat
  BY InputsAreJudged
<1>4. Len(es) = n
  <2>1. es = [q \in 1 .. n |-> QueryEvidence(pools[q], v)]
    BY <1>3 DEF EvidenceOf
  <2> DEFINE S == {QueryEvidence(pools[q], v) : q \in 1 .. n}
  <2>2. \A q \in 1 .. n : QueryEvidence(pools[q], v) \in S
    OBVIOUS
  <2> HIDE DEF S, n, es
  <2>3. es \in [1 .. n -> S]
    BY <2>1, <2>2
  <2> QED
    BY <1>3, <2>3
<1> HIDE DEF run, es
<1>5. run.queries = es
  BY <1>1 DEF RunShows
<1> QED
  BY <1>1, <1>2, <1>4, <1>5 DEF RunKnown, Queries, run, es

LEMMA LossesAreCounted ==
    ASSUME NEW pools \in Inputs, NEW v \in Variants, NEW run, RunKnown(run, pools, v),
           NEW s \in LossStages
    PROVE  /\ TotalRelevant(run) \in Nat \ {0}
           /\ run.losses[s] \in Nat /\ run.losses[s] <= TotalRelevant(run)
<1> DEFINE D == DOMAIN pools
           Lost(q)  == {k \in DOMAIN run.queries[q].lineage : run.queries[q].lineage[k] = s}
           lost     == [q \in D |-> Cardinality(Lost(q))]
           relevant == [q \in D |-> run.queries[q].relevant]
           one      == [q \in D |-> 1]
<1>1. /\ IsFiniteSet(D) /\ Cardinality(D) \in Nat \ {0}
      /\ \A q \in D : Evaluable(pools[q])
  <2>1. IsFiniteSet(D) /\ D # {} /\ \A q \in D : Evaluable(pools[q])
    BY InputsAreJudged
  <2> QED
    BY <2>1, FS_CardinalityType, FS_EmptySet
<1>2. /\ DOMAIN run.queries = D /\ run.queries = EvidenceOf(pools, v)
      /\ \A q \in D : QueryKnown(run.queries[q], pools[q], v)
      /\ RunShows(run, EvidenceOf(pools, v), v)
  BY DEF RunKnown
<1>3. run.losses[s] = SumFunction(lost)
  <2>1. run.losses = [x \in LossStages |-> SumOver([q \in DOMAIN run.queries |->
           Cardinality({k \in DOMAIN run.queries[q].lineage : run.queries[q].lineage[k] = x})])]
    BY <1>2 DEF RunShows
  <2> QED
    BY <1>2, <2>1 DEF SumOver
<1>4. TotalRelevant(run) = SumFunction(relevant)
  BY <1>2 DEF TotalRelevant, SumOver
<1>5. ASSUME NEW q \in D
      PROVE  /\ Cardinality(Lost(q)) \in Nat /\ run.queries[q].relevant \in Nat \ {0}
             /\ Cardinality(Lost(q)) <= run.queries[q].relevant
  <2>1. /\ run.queries[q].relevant = Cardinality(Relevant(pools[q]))
        /\ DOMAIN run.queries[q].lineage = Relevant(pools[q])
    BY <1>2 DEF QueryKnown
  <2>2. /\ IsFiniteSet(Relevant(pools[q]))
        /\ Cardinality(Relevant(pools[q])) \in Nat \ {0}
    BY <1>1, RelevantAreFinite
  <2>3. Lost(q) \subseteq Relevant(pools[q])
    BY <2>1
  <2> HIDE DEF Lost
  <2>4. /\ IsFiniteSet(Lost(q))
        /\ Cardinality(Lost(q)) <= Cardinality(Relevant(pools[q]))
    BY <2>2, <2>3, FS_Subset
  <2> QED
    BY <2>1, <2>2, <2>4, FS_CardinalityType
<1>6. /\ DOMAIN lost = D /\ DOMAIN relevant = D /\ DOMAIN one = D
      /\ \A q \in D : /\ lost[q] \in Nat /\ relevant[q] \in Nat \ {0} /\ one[q] = 1
                      /\ lost[q] <= relevant[q]
  BY <1>5
<1>7. SumFunction(one) = Cardinality(D) * 1
  <2> DEFINE c == 1
  <2>1. c \in Int
    OBVIOUS
  <2> HIDE DEF c, D
  <2>2. SumFunction([q \in D |-> c]) = Cardinality(D) * c
    BY <1>1, <2>1, SumOfConstant
  <2> QED
    BY <2>2 DEF c
<1> HIDE DEF D, lost, relevant, one
<1>8. SumFunction(lost) <= SumFunction(relevant)
  BY <1>1, <1>6, SumsCompare
<1>9. SumFunction(lost) \in Nat
  BY <1>1, <1>6, SumIsNumber
<1>10. SumFunction(one) <= SumFunction(relevant) /\ SumFunction(relevant) \in Int
  <2>1. \A q \in D : one[q] \in Int /\ relevant[q] \in Int /\ one[q] <= relevant[q]
    BY <1>6
  <2> QED
    BY <1>1, <1>6, <2>1, SumsCompare
<1> QED
  BY <1>1, <1>3, <1>4, <1>7, <1>8, <1>9, <1>10

LEMMA RunIsInBounds ==
    ASSUME NEW pools \in Inputs, NEW v \in Variants, NEW run, RunKnown(run, pools, v)
    PROVE  InBounds(run, v)
<1> DEFINE es == run.queries
           n  == Len(pools)
<1>1. /\ DOMAIN es = 1 .. n /\ n \in Nat /\ Queries(run) = n
      /\ \A q \in 1 .. n : /\ Fractions(es[q]) /\ DOMAIN es[q].hits = ChannelsOf(v)
  BY InputsAreJudged DEF RunKnown, QueryKnown
<1>2. /\ run.channels
             = [c \in ChannelsOf(v) |-> MetricSums([q \in 1 .. n |-> es[q].channels[c]])]
      /\ run.fusion = MetricSums([q \in 1 .. n |-> es[q].fusion])
      /\ run.ranking = MetricSums([q \in 1 .. n |-> es[q].ranking])
      /\ run.coverage = SumOver([q \in 1 .. n |-> es[q].coverage])
  BY <1>1 DEF RunKnown, RunShows
<1> HIDE DEF es, n
<1>3. ASSUME NEW m \in MetricNames
      PROVE  /\ run.fusion[m] \in Int /\ MeanInUnit(run, run.fusion[m])
             /\ run.ranking[m] \in Int /\ MeanInUnit(run, run.ranking[m])
  <2> DEFINE f == [q \in 1 .. n |-> es[q].fusion[m]]
             g == [q \in 1 .. n |-> es[q].ranking[m]]
  <2>1. run.fusion[m] = SumOver(f) /\ run.ranking[m] = SumOver(g)
    <3>1. run.fusion[m] = SumOver(f)
      <4> DEFINE metrics == [q \in 1 .. n |-> es[q].fusion]
      <4>1. DOMAIN metrics = 1 .. n /\ \A q \in 1 .. n : metrics[q][m] = es[q].fusion[m]
        OBVIOUS
      <4>2. run.fusion = MetricSums(metrics)
        BY <1>2
      <4> HIDE DEF metrics
      <4>3. run.fusion[m] = SumOver([q \in DOMAIN metrics |-> metrics[q][m]])
        BY <4>2 DEF MetricSums
      <4>4. [q \in DOMAIN metrics |-> metrics[q][m]] = f
        BY <4>1
      <4> QED
        BY <4>3, <4>4
    <3>2. run.ranking[m] = SumOver(g)
      <4> DEFINE metrics == [q \in 1 .. n |-> es[q].ranking]
      <4>1. DOMAIN metrics = 1 .. n /\ \A q \in 1 .. n : metrics[q][m] = es[q].ranking[m]
        OBVIOUS
      <4>2. run.ranking = MetricSums(metrics)
        BY <1>2
      <4> HIDE DEF metrics
      <4>3. run.ranking[m] = SumOver([q \in DOMAIN metrics |-> metrics[q][m]])
        BY <4>2 DEF MetricSums
      <4>4. [q \in DOMAIN metrics |-> metrics[q][m]] = g
        BY <4>1
      <4> QED
        BY <4>3, <4>4
    <3> QED
      BY <3>1, <3>2
  <2>2. /\ DOMAIN f = 1 .. n /\ DOMAIN g = 1 .. n
        /\ \A q \in 1 .. n : f[q] \in 0 .. Unit /\ g[q] \in 0 .. Unit
    BY <1>1 DEF Fractions
  <2> HIDE DEF f, g
  <2>3. SumOver(f) \in Int /\ 0 <= SumOver(f) /\ SumOver(f) <= Unit * n
    BY <1>1, <2>2, MeanIsInUnit
  <2>4. SumOver(g) \in Int /\ 0 <= SumOver(g) /\ SumOver(g) <= Unit * n
    BY <1>1, <2>2, MeanIsInUnit
  <2> QED
    BY <1>1, <2>1, <2>3, <2>4 DEF MeanInUnit
<1>4. ASSUME NEW m \in MetricNames, NEW c \in ChannelsOf(v)
      PROVE  run.channels[c][m] \in Int /\ MeanInUnit(run, run.channels[c][m])
  <2> DEFINE f == [q \in 1 .. n |-> es[q].channels[c][m]]
  <2>1. run.channels[c][m] = SumOver(f)
    <3> DEFINE metrics == [q \in 1 .. n |-> es[q].channels[c]]
    <3>1. DOMAIN metrics = 1 .. n /\ \A q \in 1 .. n : metrics[q][m] = es[q].channels[c][m]
      OBVIOUS
    <3>2. run.channels[c] = MetricSums(metrics)
      BY <1>2
    <3> HIDE DEF metrics
    <3>3. run.channels[c][m] = SumOver([q \in DOMAIN metrics |-> metrics[q][m]])
      BY <3>2 DEF MetricSums
    <3>4. [q \in DOMAIN metrics |-> metrics[q][m]] = f
      BY <3>1
    <3> QED
      BY <3>3, <3>4
  <2>2. DOMAIN f = 1 .. n /\ \A q \in 1 .. n : f[q] \in 0 .. Unit
    BY <1>1 DEF Fractions
  <2> HIDE DEF f
  <2>3. SumOver(f) \in Int /\ 0 <= SumOver(f) /\ SumOver(f) <= Unit * n
    BY <1>1, <2>2, MeanIsInUnit
  <2> QED
    BY <1>1, <2>1, <2>3 DEF MeanInUnit
<1>5. run.coverage \in Int /\ MeanInUnit(run, run.coverage)
  <2> DEFINE f == [q \in 1 .. n |-> es[q].coverage]
  <2>1. run.coverage = SumOver(f)
    BY <1>2
  <2>2. DOMAIN f = 1 .. n /\ \A q \in 1 .. n : f[q] \in 0 .. Unit
    BY <1>1 DEF Fractions
  <2> HIDE DEF f
  <2>3. SumOver(f) \in Int /\ 0 <= SumOver(f) /\ SumOver(f) <= Unit * n
    BY <1>1, <2>2, MeanIsInUnit
  <2> QED
    BY <1>1, <2>1, <2>3 DEF MeanInUnit
<1>6. DOMAIN run.channels = ChannelsOf(v)
  BY <1>2
<1>7. \A s \in LossStages : run.losses[s] \in Nat /\ run.losses[s] <= TotalRelevant(run)
  BY LossesAreCounted
<1>8. TotalRelevant(run) \in Nat \ {0}
  <2>1. "recall" \in LossStages
    BY DEF LossStages
  <2> QED
    BY <2>1, LossesAreCounted
<1> QED
  BY <1>3, <1>4, <1>5, <1>6, <1>7, <1>8 DEF InBounds

LEMMA RunIsDiagnosable ==
    ASSUME NEW pools \in Inputs, NEW v \in Variants, NEW run, RunKnown(run, pools, v)
    PROVE  Diagnosable(run)
<1>1. InBounds(run, v)
  BY RunIsInBounds
<1>2. \A q \in DOMAIN run.queries :
         Cardinality(DOMAIN run.queries[q].lineage) = run.queries[q].relevant
  BY DEF RunKnown, QueryKnown
<1>3. ASSUME NEW sum \in {run.fusion.ndcg, run.ranking.ndcg}
                             \cup {run.channels[c].ndcg : c \in DOMAIN run.channels}
      PROVE  MeanInUnit(run, sum)
  <2>1. "ndcg" \in MetricNames
    BY DEF MetricNames
  <2> QED
    BY <1>1, <2>1 DEF InBounds
<1>4. ASSUME NEW s \in LossStages
      PROVE  LET Lost(e) == {k \in DOMAIN e.lineage : e.lineage[k] = s}
             IN run.losses[s] = SumOver([q \in DOMAIN run.queries |->
                                            Cardinality(Lost(run.queries[q]))])
  BY DEF RunKnown, RunShows
<1> QED
  BY <1>2, <1>3, <1>4 DEF Diagnosable

LEMMA MeanOfBounded ==
    ASSUME NEW n \in Nat \ {0}, NEW x \in Nat, x <= Unit * n
    PROVE  InUnit(x \div n)
<1>1. Unit \in Nat
  BY MetricsAssumption
<1> DEFINE q == x \div n
           y == Unit * n
<1>2. q \in Nat /\ q * n <= x /\ y \in Nat
  BY <1>1
<1> HIDE DEF q
<1>3. q <= Unit
  <2> SUFFICES ASSUME q > Unit PROVE FALSE
    BY <1>1, <1>2
  <2>1. q * n = y + (q - Unit) * n
    BY <1>1, <1>2
  <2>2. (q - Unit) * n > 0 /\ (q - Unit) * n \in Int /\ q * n \in Int
    BY <1>1, <1>2
  <2>3. x <= y
    OBVIOUS
  <2> HIDE DEF y
  <2> QED
    BY <1>2, <2>1, <2>2, <2>3
<1> QED
  BY <1>2, <1>3 DEF InUnit, q

(* The best channel's mean is a mean.                                       *)
LEMMA BestChannelIsMean ==
    ASSUME NEW v \in Variants, NEW run, InBounds(run, v)
    PROVE  BestChannel(run) \in Int /\ MeanInUnit(run, BestChannel(run))
<1> DEFINE C == ChannelsOf(v)
           f == [c \in C |-> run.channels[c].ndcg]
           S == {f[c] : c \in C}
<1>1. IsFiniteSet(C) /\ "title" \in C
  BY Channels DEF ChannelsOf
<1>2. \A c \in C : f[c] \in Int /\ MeanInUnit(run, f[c])
  <2>1. "ndcg" \in MetricNames
    BY DEF MetricNames
  <2> QED
    BY <2>1 DEF InBounds
<1>3. {run.channels[c].ndcg : c \in DOMAIN run.channels} = S
  BY DEF InBounds
<1> HIDE DEF f, C
<1>4. IsFiniteSet(S)
  BY <1>1, ImageIsFinite
<1>5. S # {} /\ S \subseteq Int /\ \A x \in S : MeanInUnit(run, x)
  BY <1>1, <1>2
<1> HIDE DEF S
<1>6. Max(S) \in S
  BY <1>4, <1>5, LargestExists
<1> QED
  BY <1>3, <1>5, <1>6 DEF BestChannel

LEMMA ImpactsAreFractions ==
    ASSUME NEW pools \in Inputs, NEW v \in Variants, NEW run, RunKnown(run, pools, v),
           NEW i \in DOMAIN Subtypes, Found(run, Subtypes[i])
    PROVE  /\ InUnit(FindingOf(run, Subtypes[i]).impact)
           /\ FindingOf(run, Subtypes[i]).subtype = Subtypes[i]
<1> DEFINE n == Queries(run)
           a == run.losses["recall"]
           b == TotalRelevant(run)
           x == BestChannel(run)
           y == run.fusion.ndcg
           z == run.ranking.ndcg
<1>1. n \in Nat \ {0}
  BY InputsAreJudged DEF RunKnown
<1>2. InBounds(run, v)
  BY RunIsInBounds
<1>3. /\ x \in Int /\ y \in Int /\ z \in Int
      /\ 0 <= x /\ 0 <= y /\ 0 <= z
      /\ x <= Unit * n /\ y <= Unit * n /\ z <= Unit * n
  <2>1. "ndcg" \in MetricNames
    BY DEF MetricNames
  <2> QED
    BY <1>2, <2>1, BestChannelIsMean DEF InBounds, MeanInUnit
<1>4. a \in Nat /\ b \in Nat \ {0} /\ a <= b
  <2>1. "recall" \in LossStages
    BY DEF LossStages
  <2> QED
    BY <1>2, <2>1 DEF InBounds
<1>5. i \in 1 .. 4
  BY DEF Subtypes
<1>6. CASE i = 1
  <2>1. Subtypes[1] = "missing_from_all_channels"
    BY DEF Subtypes
  <2>2. /\ FindingOf(run, "missing_from_all_channels").impact = (Unit * a) \div b
        /\ FindingOf(run, "missing_from_all_channels").subtype = "missing_from_all_channels"
    BY DEF FindingOf, Finding
  <2> HIDE DEF a, b
  <2>3. (Unit * a) \div b \in 0 .. Unit
    BY <1>4, QuotientIsBounded, MetricsAssumption
  <2> QED
    BY <1>6, <2>1, <2>2, <2>3 DEF InUnit
<1>7. CASE i = 2
  <2>1. Subtypes[2] = "no_unique_coverage"
    BY DEF Subtypes
  <2>2. /\ FindingOf(run, "no_unique_coverage").impact = 0
        /\ FindingOf(run, "no_unique_coverage").subtype = "no_unique_coverage"
    BY DEF FindingOf, Finding
  <2> QED
    BY <1>7, <2>1, <2>2, MetricsAssumption DEF InUnit
<1>8. CASE i = 3
  <2>1. Subtypes[3] = "fusion_regression"
    BY DEF Subtypes
  <2>2. /\ FindingOf(run, "fusion_regression").impact = (x - y) \div n
        /\ FindingOf(run, "fusion_regression").subtype = "fusion_regression"
    BY DEF FindingOf, Finding
  <2>3. y < x
    BY <1>8, <2>1 DEF Found
  <2> HIDE DEF x, y, n
  <2>4. x - y \in Nat /\ x - y <= Unit * n
    <3> DEFINE u == Unit * n
    <3>1. u \in Int
      BY <1>1, MetricsAssumption
    <3> HIDE DEF u
    <3>2. x <= u
      BY <1>3 DEF u
    <3>3. x - y \in Nat /\ x - y <= u
      BY <1>3, <2>3, <3>1, <3>2
    <3> QED
      BY <3>3 DEF u
  <2>5. InUnit((x - y) \div n)
    BY <1>1, <2>4, MeanOfBounded
  <2> QED
    BY <1>8, <2>1, <2>2, <2>5
<1>9. CASE i = 4
  <2>1. Subtypes[4] = "coarse_regression"
    BY DEF Subtypes
  <2>2. /\ FindingOf(run, "coarse_regression").impact = (y - z) \div n
        /\ FindingOf(run, "coarse_regression").subtype = "coarse_regression"
    BY DEF FindingOf, Finding
  <2>3. z < y
    BY <1>9, <2>1 DEF Found
  <2> HIDE DEF y, z, n
  <2>4. y - z \in Nat /\ y - z <= Unit * n
    <3> DEFINE u == Unit * n
    <3>1. u \in Int
      BY <1>1, MetricsAssumption
    <3> HIDE DEF u
    <3>2. y <= u
      BY <1>3 DEF u
    <3>3. y - z \in Nat /\ y - z <= u
      BY <1>3, <2>3, <3>1, <3>2
    <3> QED
      BY <3>3 DEF u
  <2>5. InUnit((y - z) \div n)
    BY <1>1, <2>4, MeanOfBounded
  <2> QED
    BY <1>9, <2>1, <2>2, <2>5
<1> QED
  BY <1>5, <1>6, <1>7, <1>8, <1>9

(* The findings: different ones, each with a fraction for its impact.       *)
LEMMA FindingsFit ==
    ASSUME NEW pools \in Inputs, NEW v \in Variants, NEW run, RunKnown(run, pools, v)
    PROVE  LET f == Findings(run)
           IN /\ \E n \in Nat : DOMAIN f = 1 .. n /\ f = [i \in 1 .. n |-> f[i]]
              /\ \A i, j \in DOMAIN f : i # j => f[i] # f[j]
              /\ \A i \in DOMAIN f : InUnit(f[i].impact)
<1> DEFINE D     == DOMAIN Subtypes
           S     == {i \in D : Found(run, Subtypes[i])}
           R     == {p \in D \X D : p[1] <= p[2]}
           found == Listed(S, R)
           f     == Findings(run)
           n     == Cardinality(S)
<1>1. D = 1 .. 4 /\ \A i, j \in D : Subtypes[i] = Subtypes[j] => i = j
  <2>1. D = 1 .. 4
    BY DEF Subtypes
  <2>2. /\ Subtypes[1] = "missing_from_all_channels" /\ Subtypes[2] = "no_unique_coverage"
        /\ Subtypes[3] = "fusion_regression" /\ Subtypes[4] = "coarse_regression"
    BY DEF Subtypes
  <2>3. \A i \in D : i = 1 \/ i = 2 \/ i = 3 \/ i = 4
    BY <2>1
  <2> QED
    BY <2>1, <2>2, <2>3
<1>2. f = [r \in DOMAIN found |-> FindingOf(run, Subtypes[found[r]])]
  BY DEF Findings
<1> HIDE DEF D, f
<1>3. IsFiniteSet(S)
  <2>1. S \subseteq D
    OBVIOUS
  <2>2. IsFiniteSet(D)
    <3>1. 1 \in Int /\ 4 \in Int
      OBVIOUS
    <3>2. IsFiniteSet(1 .. 4)
      BY <3>1, FS_Interval
    <3> QED
      BY <1>1, <3>2, Zenon
  <2> HIDE DEF S
  <2> QED
    BY <2>1, <2>2, FS_Subset
<1>4. Linear(S, R)
  <2>1. \A a, b \in S : <<a, b>> \in R <=> a <= b
    OBVIOUS
  <2>2. S \subseteq Int
    BY <1>1
  <2> HIDE DEF S, R
  <2> QED
    BY <2>1, <2>2 DEF Linear, Total
<1>5. \A i \in S : i \in D /\ Found(run, Subtypes[i])
  OBVIOUS
<1> HIDE DEF S, R
<1>6. /\ n \in Nat /\ found \in [1 .. n -> S]
      /\ \A r, t \in 1 .. n : r < t => <<found[r], found[t]>> \in R /\ found[r] # found[t]
  BY <1>3, <1>4, ListedInOrder
<1> HIDE DEF n, found
<1>7. DOMAIN f = 1 .. n /\ \A r \in 1 .. n : f[r] = FindingOf(run, Subtypes[found[r]])
  BY <1>2, <1>6
<1>8. ASSUME NEW r \in 1 .. n
      PROVE  InUnit(f[r].impact) /\ f[r].subtype = Subtypes[found[r]]
  <2>1. found[r] \in DOMAIN Subtypes /\ Found(run, Subtypes[found[r]])
    BY <1>5, <1>6 DEF D
  <2> QED
    BY <1>7, <2>1, ImpactsAreFractions
<1>9. ASSUME NEW r \in 1 .. n, NEW t \in 1 .. n, r # t
      PROVE  f[r] # f[t]
  <2>1. r < t \/ t < r
    <3>1. n \in Nat
      BY <1>6
    <3> QED
      BY <1>9, <3>1
  <2>2. found[r] # found[t]
    BY <1>6, <2>1
  <2>3. Subtypes[found[r]] # Subtypes[found[t]]
    BY <1>1, <1>5, <1>6, <2>2
  <2> QED
    BY <1>8, <2>3
<1>10. f = [i \in 1 .. n |-> f[i]]
  BY <1>2, <1>6, <1>7
<1> QED
  BY <1>6, <1>7, <1>8, <1>9, <1>10 DEF f

LEMMA DiagnosisFits ==
    ASSUME NEW pools \in Inputs, NEW v \in Variants, NEW run, RunKnown(run, pools, v)
    PROVE  FitsSchema(Diagnosis(run))
<1> DEFINE d == Diagnosis(run)
           f == Findings(run)
           o == Options(f)
           Q == DOMAIN run.queries
<1>1. /\ \E n \in Nat : DOMAIN f = 1 .. n /\ f = [i \in 1 .. n |-> f[i]]
      /\ \A i, j \in DOMAIN f : i # j => f[i] # f[j]
      /\ \A i \in DOMAIN f : InUnit(f[i].impact)
  BY FindingsFit
<1>2. o = {[stage |-> OptionStage[f[i].subtype], supports |-> f[i].subtype] : i \in DOMAIN f}
  BY DEF Options
<1>3. /\ d.findings = f /\ d.options = o
      /\ d.status = IF o # {} THEN "diagnosable" ELSE "no_failure"
      /\ d.primary = IF f = <<>> THEN "none" ELSE Head(f).category
      /\ d.queries = [q \in Q |-> [primary |-> QueryPrimary(run.queries[q]),
                                   fusion  |-> run.queries[q].fusion.ndcg,
                                   coarse  |-> run.queries[q].ranking.ndcg]]
  BY DEF Diagnosis
<1> HIDE DEF d, f, o
<1>4. \A x \in d.options : \E i \in DOMAIN f : f[i].subtype = x.supports
  BY <1>2, <1>3
<1>5. d.status = "no_failure" => d.primary = "none"
  <2> SUFFICES ASSUME o = {} PROVE f = <<>>
    BY <1>3
  <2>1. DOMAIN f = {}
    BY <1>2
  <2>2. PICK n \in Nat : DOMAIN f = 1 .. n /\ f = [i \in 1 .. n |-> f[i]]
    BY <1>1
  <2>3. n = 0
    BY <2>1, <2>2
  <2> QED
    BY <2>2, <2>3
<1>6. Q # {}
  BY InputsAreJudged DEF RunKnown
<1>7. \A q \in Q : run.queries[q].fusion.ndcg \in 0 .. Unit
                   /\ run.queries[q].ranking.ndcg \in 0 .. Unit
  <2>1. "ndcg" \in MetricNames
    BY DEF MetricNames
  <2>2. \A q \in Q : Fractions(run.queries[q])
    BY DEF RunKnown, QueryKnown
  <2> QED
    BY <2>1, <2>2 DEF Fractions
<1> HIDE DEF Q
<1>8. d.queries # <<>> /\ DOMAIN d.queries = Q
  BY <1>3, <1>6
<1>9. \A q \in Q : InUnit(d.queries[q].fusion) /\ InUnit(d.queries[q].coarse)
  BY <1>3, <1>7, MetricsAssumption DEF InUnit
<1> QED
  BY <1>1, <1>3, <1>4, <1>5, <1>8, <1>9 DEF FitsSchema, d

LEMMA RunIsAccepted ==
    ASSUME NEW pools \in Inputs, NEW v \in Variants, NEW run, RunKnown(run, pools, v)
    PROVE  Produced(run) /\ DiagnosisAccepted(run)
<1>1. Produced(run)
  BY DEF Produced, RunKnown, QueryKnown, Fractions
<1>2. ValidRun(run)
  BY DEF RunKnown
<1> QED
  BY <1>1, <1>2, RunIsDiagnosable, DiagnosisFits DEF DiagnosisAccepted

LEMMA RunsAreComparable ==
    ASSUME NEW pools \in Inputs, NEW v \in Candidates, NEW b, NEW c,
           RunKnown(b, pools, "baseline"), RunKnown(c, pools, v)
    PROVE  Comparable(b, c)
<1>1. v \in Variants /\ "baseline" \in Variants
  BY DEF Variants
<1>2. InBounds(b, "baseline") /\ InBounds(c, v)
  BY <1>1, RunIsInBounds
<1>3. /\ ValidRun(b) /\ ValidRun(c) /\ b.variant = "baseline" /\ c.variant \in Candidates
      /\ DOMAIN b.queries = DOMAIN c.queries
      /\ \A q \in DOMAIN b.queries :
             /\ b.queries[q].judgments = c.queries[q].judgments
             /\ b.queries[q].relevant = c.queries[q].relevant
  BY DEF RunKnown, QueryKnown, RunShows
<1>4. \A run \in {b, c} :
         MeanInUnit(run, run.coverage) /\ \A m \in MetricNames :
             MeanInUnit(run, run.fusion[m]) /\ MeanInUnit(run, run.ranking[m])
  BY <1>2 DEF InBounds
<1> QED
  BY <1>3, <1>4 DEF Comparable

LEMMA DifferencesAreBounded ==
    ASSUME NEW n \in Nat, NEW x \in Int, NEW y \in Int,
           0 <= x, x <= Unit * n, 0 <= y, y <= Unit * n
    PROVE  -Unit * n <= x - y /\ x - y <= Unit * n
<1> DEFINE u == Unit * n
           w == -Unit * n
<1>1. u \in Int /\ w \in Int /\ w = -u
  BY MetricsAssumption
<1>2. x <= u /\ y <= u
  OBVIOUS
<1> HIDE DEF u, w
<1>3. w <= x - y /\ x - y <= u
  BY <1>1, <1>2
<1> QED
  BY <1>3 DEF u, w

(* What changed in each query is at most a unit, and so is the worst change. *)
LEMMA ChangesAreBounded ==
    ASSUME NEW pools \in Inputs, NEW v \in Candidates, NEW b, NEW c,
           RunKnown(b, pools, "baseline"), RunKnown(c, pools, v)
    PROVE  LET changes == Changes(b, c)
           IN /\ DOMAIN changes = DOMAIN pools /\ Len(changes) = Len(pools)
              /\ \A s \in {"coarse", "fusion"} :
                    Worst(changes, s) \in Int /\ -Unit <= Worst(changes, s)
                        /\ Worst(changes, s) <= Unit
<1> DEFINE D       == DOMAIN pools
           changes == Changes(b, c)
           n       == Len(pools)
<1>1. DOMAIN changes = D
      /\ \A q \in D : /\ changes[q]["coarse"] = c.queries[q].ranking.ndcg - b.queries[q].ranking.ndcg
                      /\ changes[q]["fusion"] = c.queries[q].fusion.ndcg - b.queries[q].fusion.ndcg
  BY DEF RunKnown, Changes, QueryChange
<1>2. \A q \in D : \A run \in {b, c} :
         run.queries[q].ranking.ndcg \in 0 .. Unit /\ run.queries[q].fusion.ndcg \in 0 .. Unit
  <2>1. "ndcg" \in MetricNames
    BY DEF MetricNames
  <2> QED
    BY <2>1 DEF RunKnown, QueryKnown, Fractions
<1>3. IsFiniteSet(D) /\ D # {} /\ D = 1 .. n /\ n \in Nat
  BY InputsAreJudged
<1>4. changes = [q \in D |-> QueryChange(b.queries[q], c.queries[q])]
  BY DEF Changes, RunKnown
<1> HIDE DEF D, changes, n
<1>5. Len(changes) = n
  <2> DEFINE S == {QueryChange(b.queries[q], c.queries[q]) : q \in D}
  <2>1. changes \in [1 .. n -> S]
    BY <1>3, <1>4
  <2> HIDE DEF S
  <2> QED
    BY <1>3, <2>1
<1>6. ASSUME NEW s \in {"coarse", "fusion"}
      PROVE  /\ Worst(changes, s) \in Int /\ -Unit <= Worst(changes, s)
             /\ Worst(changes, s) <= Unit
  <2> DEFINE f == [q \in D |-> changes[q][s]]
             V == {f[q] : q \in D}
  <2>1. {changes[q][s] : q \in DOMAIN changes} = V
    BY <1>1
  <2>2. \A q \in D : f[q] \in Int /\ -Unit <= f[q] /\ f[q] <= Unit
    <3>1. ASSUME NEW q \in D, NEW x \in 0 .. Unit, NEW y \in 0 .. Unit
          PROVE  x - y \in Int /\ -Unit <= x - y /\ x - y <= Unit
      BY MetricsAssumption
    <3>2. \A q \in D : /\ changes[q]["coarse"] \in Int
                       /\ -Unit <= changes[q]["coarse"] /\ changes[q]["coarse"] <= Unit
                       /\ changes[q]["fusion"] \in Int
                       /\ -Unit <= changes[q]["fusion"] /\ changes[q]["fusion"] <= Unit
      BY <1>1, <1>2, <3>1
    <3> QED
      BY <3>2
  <2> HIDE DEF f
  <2>3. IsFiniteSet(V)
    BY <1>3, ImageIsFinite
  <2>4. V # {} /\ V \subseteq Int /\ \A x \in V : -Unit <= x /\ x <= Unit
    BY <1>3, <2>2
  <2> HIDE DEF V
  <2>5. Min(V) \in V
    BY <2>3, <2>4, SmallestExists
  <2>6. Worst(changes, s) = Min(V)
    BY <2>1 DEF Worst
  <2> QED
    BY <2>4, <2>5, <2>6
<1> QED
  BY <1>1, <1>5, <1>6 DEF changes, D, n

LEMMA ComparisonFields ==
    ASSUME NEW b, NEW c
    PROVE  LET changes == Changes(b, c)
               k       == Comparison(b, c)
           IN /\ k.variant = c.variant /\ k.changes = changes
              /\ k.observed = [g \in GateNames |-> Observed(b, c, changes, g)]
              /\ k.failed = {g \in GateNames : ~GatePassed(g, k.observed[g], Len(changes))}
              /\ k.passed = (k.failed = {})
              /\ k.next = NextAction(k.failed = {}, k.observed["union_coverage_improvement"])
BY DEF Comparison

LEMMA SummaryFields ==
    ASSUME NEW c, NEW k
    PROVE  LET s == Summary(c, k)
           IN /\ s.variant = k.variant /\ s.unique = c.unique["fields"]
              /\ \A x \in {"coarse", "fusion"} :
                     /\ s.worst[x] = Worst(k.changes, x)
                     /\ s.regressed[x] = Regressed(k.changes, x)
              /\ s.coarse_ndcg = k.observed["coarse_ndcg_floor"]
              /\ s.coverage = k.observed["union_coverage_improvement"]
              /\ s.failed = k.failed /\ s.passed = k.passed
              /\ s.recommendation = IF k.passed THEN "review_candidate" ELSE "reject_candidate"
              /\ s.next = k.next
BY DEF Summary

(* What the gates observe, apart from those of a mean.                      *)
LEMMA GatesObserve ==
    ASSUME NEW b, NEW c, NEW changes
    PROVE  LET o(g) == Observed(b, c, changes, g)
           IN /\ o("unique_relevant_contribution") = c.unique["fields"]
              /\ o("union_coverage_improvement") = c.coverage - b.coverage
              /\ o("worst_query_coarse_ndcg_delta_floor") = Worst(changes, "coarse")
              /\ o("worst_query_fusion_ndcg_delta_floor") = Worst(changes, "fusion")
              /\ o("regressed_query_rate_ceiling") = Regressed(changes, "coarse")
              /\ o("fusion_regressed_query_rate_ceiling") = Regressed(changes, "fusion")
<1>1. Observed(b, c, changes, "unique_relevant_contribution")
         = c.unique["fields"]
  BY DEF Observed, Means
<1>2. Observed(b, c, changes, "union_coverage_improvement")
         = c.coverage - b.coverage
  BY DEF Observed, Means
<1>3. Observed(b, c, changes, "worst_query_coarse_ndcg_delta_floor")
         = Worst(changes, "coarse")
  BY DEF Observed, Means
<1>4. Observed(b, c, changes, "worst_query_fusion_ndcg_delta_floor")
         = Worst(changes, "fusion")
  BY DEF Observed, Means
<1>5. Observed(b, c, changes, "regressed_query_rate_ceiling")
         = Regressed(changes, "coarse")
  BY DEF Observed, Means
<1>6. Observed(b, c, changes, "fusion_regressed_query_rate_ceiling")
         = Regressed(changes, "fusion")
  BY DEF Observed, Means
<1> QED
  BY <1>1, <1>2, <1>3, <1>4, <1>5, <1>6

LEMMA MeansObserve ==
    ASSUME NEW b, NEW c, NEW changes, NEW g \in DOMAIN Means
    PROVE  \E m \in MetricNames :
              \/ Observed(b, c, changes, g) = c.fusion[m] - b.fusion[m]
              \/ Observed(b, c, changes, g) = c.ranking[m] - b.ranking[m]
<1>1. g \in {"fusion_recall_floor", "fusion_ndcg_floor", "fusion_mrr_floor",
             "coarse_recall_floor", "coarse_ndcg_floor", "coarse_mrr_floor"}
  BY DEF Means
<1>2. CASE g = "fusion_recall_floor"
  BY <1>2 DEF Observed, Means, MetricNames
<1>3. CASE g = "fusion_ndcg_floor"
  BY <1>3 DEF Observed, Means, MetricNames
<1>4. CASE g = "fusion_mrr_floor"
  BY <1>4 DEF Observed, Means, MetricNames
<1>5. CASE g = "coarse_recall_floor"
  BY <1>5 DEF Observed, Means, MetricNames
<1>6. CASE g = "coarse_ndcg_floor"
  BY <1>6 DEF Observed, Means, MetricNames
<1>7. CASE g = "coarse_mrr_floor"
  BY <1>7 DEF Observed, Means, MetricNames
<1> QED
  BY <1>1, <1>2, <1>3, <1>4, <1>5, <1>6, <1>7

LEMMA GatesAreBounded ==
    ASSUME NEW pools \in Inputs, NEW v \in Candidates, NEW b, NEW c,
           RunKnown(b, pools, "baseline"), RunKnown(c, pools, v),
           NEW g \in GateNames \ Rates, g # "unique_relevant_contribution"
    PROVE  LET n == Len(pools)
               o == Observed(b, c, Changes(b, c), g)
           IN -Unit * n <= o /\ o <= Unit * n
<1> DEFINE changes == Changes(b, c)
           n == Len(pools)
           o == Observed(b, c, changes, g)
<1>1. n \in Nat \ {0} /\ Unit \in Nat \ {0}
  BY InputsAreJudged, MetricsAssumption
<1>2. InBounds(b, "baseline") /\ InBounds(c, v) /\ Queries(b) = n /\ Queries(c) = n
  <2>1. v \in Variants /\ "baseline" \in Variants
    BY DEF Variants
  <2> QED
    BY <2>1, RunIsInBounds DEF RunKnown
<1>3. \A s \in {"coarse", "fusion"} :
         Worst(changes, s) \in Int /\ -Unit <= Worst(changes, s) /\ Worst(changes, s) <= Unit
  BY ChangesAreBounded
<1> HIDE DEF changes, n
<1>4. CASE g = "union_coverage_improvement"
  <2>1. o = c.coverage - b.coverage
    BY <1>4, GatesObserve
  <2>2. /\ c.coverage \in Int /\ 0 <= c.coverage /\ c.coverage <= Unit * n
        /\ b.coverage \in Int /\ 0 <= b.coverage /\ b.coverage <= Unit * n
    BY <1>2 DEF InBounds, MeanInUnit
  <2> HIDE DEF o
  <2> QED
    BY <1>1, <2>1, <2>2, DifferencesAreBounded DEF o, changes, n
<1>5. CASE g \in DOMAIN Means
  <2>1. PICK m \in MetricNames : o = c.fusion[m] - b.fusion[m] \/ o = c.ranking[m] - b.ranking[m]
    BY <1>5, MeansObserve
  <2>2. \A run \in {b, c} :
           /\ run.fusion[m] \in Int /\ 0 <= run.fusion[m] /\ run.fusion[m] <= Unit * n
           /\ run.ranking[m] \in Int /\ 0 <= run.ranking[m] /\ run.ranking[m] <= Unit * n
    BY <1>2 DEF InBounds, MeanInUnit
  <2> HIDE DEF o
  <2>3. CASE o = c.fusion[m] - b.fusion[m]
    BY <1>1, <2>2, <2>3, DifferencesAreBounded DEF o, changes, n
  <2>4. CASE o = c.ranking[m] - b.ranking[m]
    BY <1>1, <2>2, <2>4, DifferencesAreBounded DEF o, changes, n
  <2> QED
    BY <2>1, <2>3, <2>4
<1>6. CASE g \in Floors
  <2>1. o \in Int /\ -Unit <= o /\ o <= Unit
    BY <1>3, <1>6, GatesObserve DEF Floors
  <2> DEFINE u == Unit * n
             w == -Unit * n
  <2>2. u \in Int /\ w \in Int /\ w = -u /\ Unit <= u
    <3>1. u = Unit + Unit * (n - 1) /\ Unit * (n - 1) >= 0 /\ Unit * (n - 1) \in Int
      BY <1>1
    <3>2. u \in Int /\ w \in Int /\ w = -u
      BY <1>1
    <3> HIDE DEF u, w
    <3> QED
      BY <1>1, <3>1, <3>2
  <2> HIDE DEF o, u, w
  <2>3. w <= o /\ o <= u
    BY <1>1, <2>1, <2>2
  <2> QED
    BY <2>3 DEF o, u, w, changes, n
<1> QED
  BY <1>4, <1>5, <1>6 DEF GateNames, Gains, changes, n

(* The relevant products of a query that only the field channel returned.   *)
OnlyFields(run, q) == Unique(run.queries[q].judgments, run.queries[q].hits, "fields")

LEMMA UniqueIsCounted ==
    ASSUME NEW pools \in Inputs, NEW v \in Candidates, NEW c, RunKnown(c, pools, v)
    PROVE  LET u == [q \in DOMAIN pools |-> Cardinality(OnlyFields(c, q))]
           IN /\ c.unique["fields"] = SumFunction(u)
              /\ c.unique["fields"] \in Nat
              /\ \A q \in DOMAIN pools : /\ IsFiniteSet(OnlyFields(c, q)) /\ u[q] \in Nat
                                         /\ OnlyFields(c, q) \subseteq Relevant(pools[q])
<1> DEFINE D == DOMAIN pools
           u == [q \in D |-> Cardinality(OnlyFields(c, q))]
<1>1. /\ c.unique = [x \in ChannelsOf(v) |-> SumOver([q \in DOMAIN c.queries |->
             Cardinality(Unique(c.queries[q].judgments, c.queries[q].hits, x))])]
      /\ DOMAIN c.queries = D
      /\ \A q \in D : c.queries[q].judgments = pools[q]
  BY DEF RunKnown, RunShows, QueryKnown
<1>2. "fields" \in ChannelsOf(v)
  BY Channels DEF Variants
<1>3. c.unique["fields"] = SumFunction(u)
  BY <1>1, <1>2 DEF SumOver, OnlyFields
<1>4. ASSUME NEW q \in D
      PROVE  /\ IsFiniteSet(OnlyFields(c, q)) /\ u[q] \in Nat
             /\ OnlyFields(c, q) \subseteq Relevant(pools[q])
  <2>1. OnlyFields(c, q) \subseteq Relevant(pools[q])
    BY <1>1 DEF OnlyFields, Unique
  <2>2. IsFiniteSet(Relevant(pools[q]))
    BY InputsAreJudged, RelevantAreFinite
  <2>3. IsFiniteSet(OnlyFields(c, q))
    BY <2>1, <2>2, FS_Subset
  <2> QED
    BY <2>1, <2>3, FS_CardinalityType
<1>5. IsFiniteSet(D) /\ DOMAIN u = D
  BY InputsAreJudged
<1> HIDE DEF u
<1>6. SumFunction(u) \in Nat
  BY <1>4, <1>5, SumIsNumber
<1> QED
  BY <1>3, <1>4, <1>6 DEF u

LEMMA SummaryIsAccepted ==
    ASSUME NEW pools \in Inputs, NEW v \in Candidates, NEW b, NEW c,
           RunKnown(b, pools, "baseline"), RunKnown(c, pools, v)
    PROVE  SummaryAccepted(Summary(c, Comparison(b, c)), Comparison(b, c))
<1> DEFINE k       == Comparison(b, c)
           s       == Summary(c, k)
           changes == Changes(b, c)
           o       == k.observed
           n       == Len(pools)
           bounded(delta) == -Unit * n <= delta /\ delta <= Unit * n
<1>1. /\ k.changes = changes
      /\ k.observed = [g \in GateNames |-> Observed(b, c, changes, g)]
      /\ k.failed = {g \in GateNames : ~GatePassed(g, k.observed[g], Len(changes))}
      /\ k.passed = (k.failed = {})
      /\ k.next = NextAction(k.failed = {}, k.observed["union_coverage_improvement"])
  BY ComparisonFields
<1>2. /\ s.unique = c.unique["fields"]
      /\ \A x \in {"coarse", "fusion"} : /\ s.worst[x] = Worst(k.changes, x)
                                         /\ s.regressed[x] = Regressed(k.changes, x)
      /\ s.coverage = k.observed["union_coverage_improvement"]
      /\ s.failed = k.failed /\ s.passed = k.passed
      /\ s.recommendation = IF k.passed THEN "review_candidate" ELSE "reject_candidate"
      /\ s.next = k.next
  BY SummaryFields
<1>3. /\ Len(changes) = n
      /\ \A x \in {"coarse", "fusion"} :
            Worst(changes, x) \in Int /\ -Unit <= Worst(changes, x) /\ Worst(changes, x) <= Unit
  BY ChangesAreBounded
<1>4. /\ o["unique_relevant_contribution"] = c.unique["fields"]
      /\ o["worst_query_coarse_ndcg_delta_floor"] = Worst(changes, "coarse")
      /\ o["worst_query_fusion_ndcg_delta_floor"] = Worst(changes, "fusion")
      /\ o["regressed_query_rate_ceiling"] = Regressed(changes, "coarse")
      /\ o["fusion_regressed_query_rate_ceiling"] = Regressed(changes, "fusion")
  <2>1. /\ "unique_relevant_contribution" \in GateNames
        /\ "worst_query_coarse_ndcg_delta_floor" \in GateNames
        /\ "worst_query_fusion_ndcg_delta_floor" \in GateNames
        /\ "regressed_query_rate_ceiling" \in GateNames
        /\ "fusion_regressed_query_rate_ceiling" \in GateNames
    BY DEF GateNames, Gains, Floors, Rates
  <2> HIDE DEF k, changes
  <2> QED
    BY <1>1, <2>1, GatesObserve
<1>5. \A g \in GateNames \ Rates : bounded(o[g]) \/ g = "unique_relevant_contribution"
  <2> SUFFICES ASSUME NEW g \in GateNames \ Rates, g # "unique_relevant_contribution"
               PROVE  bounded(o[g])
    OBVIOUS
  <2>1. bounded(Observed(b, c, changes, g))
    BY GatesAreBounded
  <2>2. o[g] = Observed(b, c, changes, g)
    BY <1>1
  <2> HIDE DEF k, changes, n
  <2> QED
    BY <2>1, <2>2
<1>6. c.unique["fields"] >= 0
  <2>1. c.unique["fields"] \in Nat
    BY UniqueIsCounted, Zenon
  <2> QED
    BY <2>1
<1>7. \A x \in {"coarse", "fusion"} : InUnit(-Worst(changes, x)) \/ InUnit(Worst(changes, x))
  <2> HIDE DEF changes
  <2> QED
    BY <1>3, MetricsAssumption DEF InUnit
<1>8. k.next = "request_owner_review" <=> k.passed
  <2> HIDE DEF k
  <2>1. CASE k.failed = {}
    BY <1>1, <2>1 DEF NextAction
  <2>2. CASE k.failed # {}
    BY <1>1, <2>2 DEF NextAction
  <2> QED
    BY <2>1, <2>2
<1> HIDE DEF changes, n, k, s
<1>9. \A g \in GateNames : g \in s.failed <=> ~GatePassed(g, o[g], Len(k.changes))
  BY <1>1, <1>2
<1>10. /\ s.passed <=> s.failed = {}
       /\ s.recommendation = "review_candidate" <=> s.passed
       /\ s.next = "request_owner_review" <=> s.passed
  BY <1>1, <1>2, <1>8
<1>11. /\ o["unique_relevant_contribution"] = s.unique /\ s.unique >= 0
       /\ o["union_coverage_improvement"] = s.coverage
       /\ o["worst_query_coarse_ndcg_delta_floor"] = s.worst["coarse"]
       /\ o["worst_query_fusion_ndcg_delta_floor"] = s.worst["fusion"]
       /\ o["regressed_query_rate_ceiling"] = s.regressed["coarse"]
       /\ o["fusion_regressed_query_rate_ceiling"] = s.regressed["fusion"]
  BY <1>1, <1>2, <1>4, <1>6
<1>12. \A x \in {"coarse", "fusion"} : InUnit(-s.worst[x]) \/ InUnit(s.worst[x])
  BY <1>1, <1>2, <1>7
<1>13. Len(k.changes) = n
  BY <1>1, <1>3
<1> QED
  BY <1>5, <1>9, <1>10, <1>11, <1>12, <1>13 DEF SummaryAccepted, s, k

(* A candidate has the baseline's channels and one more: what it covers     *)
(* beyond them is what that channel alone found, and what the baseline lost *)
(* at recall and the candidate did not.                                     *)
LEMMA QueryGains ==
    ASSUME NEW pool, Evaluable(pool), Cardinality(Relevant(pool)) <= Unit, NEW v \in Candidates
    PROVE  LET e == QueryEvidence(pool, "baseline")
               f == QueryEvidence(pool, v)
               u == Unique(f.judgments, f.hits, "fields")
           IN /\ Recovered(e, f) = u
              /\ IsFiniteSet(u) /\ Cardinality(u) \in Nat
              /\ e.coverage \in Int /\ f.coverage \in Int
              /\ e.coverage <= f.coverage
              /\ e.coverage = f.coverage <=> Cardinality(u) = 0
<1> DEFINE e == QueryEvidence(pool, "baseline")
           f == QueryEvidence(pool, v)
           u == Unique(f.judgments, f.hits, "fields")
           R == Relevant(pool)
           A == Returned(e.hits)
           B == Returned(f.hits)
<1>1. v \in Variants /\ "baseline" \in Variants /\ "baseline" \notin Candidates
  BY DEF Variants, Candidates
<1>2. /\ e.coverage = (Unit * Cardinality(A \cap R)) \div Cardinality(R)
      /\ e.lineage = [k \in R |-> FirstLoss(Retrieve(pool, "baseline"), k)]
      /\ Retrieve(pool, "baseline").union = A
  <2>1. Shows(e, Retrieve(pool, "baseline"), pool, "baseline")
    BY QueryFields
  <2> HIDE DEF e
  <2> QED
    BY <2>1 DEF Shows
<1>3. /\ f.coverage = (Unit * Cardinality(B \cap R)) \div Cardinality(R)
      /\ f.lineage = [k \in R |-> FirstLoss(Retrieve(pool, v), k)]
      /\ Retrieve(pool, v).union = B /\ f.judgments = pool
  <2>1. Shows(f, Retrieve(pool, v), pool, v)
    BY QueryFields
  <2> HIDE DEF f
  <2> QED
    BY <2>1 DEF Shows
<1>4. /\ DOMAIN e.hits = {"title", "exact"}
      /\ \A c \in {"title", "exact"} : e.hits[c] = Search(pool, c)
  <2>1. ChannelsOf("baseline") = {"title", "exact"}
    BY <1>1 DEF ChannelsOf
  <2> HIDE DEF e
  <2> QED
    BY <1>1, <2>1, StagesNarrow DEF e
<1>5. /\ DOMAIN f.hits = {"title", "exact", "fields"}
      /\ \A c \in {"title", "exact", "fields"} : f.hits[c] = Search(pool, c)
  <2>1. ChannelsOf(v) = {"title", "exact", "fields"}
    BY DEF ChannelsOf
  <2> HIDE DEF f
  <2> QED
    BY <1>1, <2>1, StagesNarrow DEF f
<1>6. IsFiniteSet(R) /\ Cardinality(R) \in Nat \ {0}
  BY RelevantAreFinite
<1> HIDE DEF e, f, R
<1>7. A = Range(Search(pool, "title")) \cup Range(Search(pool, "exact"))
  BY <1>4 DEF Returned
<1>8. B = A \cup Range(Search(pool, "fields"))
  BY <1>5, <1>7 DEF Returned
<1>9. u = (B \cap R) \ A
  <2>1. UNION {Range(f.hits[d]) : d \in DOMAIN f.hits \ {"fields"}} = A
    BY <1>5, <1>7
  <2>2. u = (R \cap Range(f.hits["fields"])) \ A
    BY <1>3, <2>1 DEF Unique, R
  <2> HIDE DEF A, B, u
  <2> QED
    BY <1>5, <1>8, <2>2
<1> HIDE DEF A, B, u
<1>10. Recovered(e, f) = u
  <2>1. \A k : /\ FirstLoss(Retrieve(pool, "baseline"), k) = "recall" <=> k \notin A
               /\ FirstLoss(Retrieve(pool, v), k) = "recall" <=> k \notin B
    BY <1>2, <1>3 DEF FirstLoss
  <2> QED
    BY <1>2, <1>3, <1>9, <2>1 DEF Recovered
<1> DEFINE a == Cardinality(A \cap R)
           b == Cardinality(B \cap R)
           r == Cardinality(R)
<1>11. IsFiniteSet(u) /\ Cardinality(u) \in Nat /\ a \in Nat /\ b \in Nat /\ b = a + Cardinality(u)
  <2> DEFINE X == A \cap R
             Y == B \cap R
  <2>1. X \subseteq R /\ Y \subseteq R /\ u \subseteq R
    BY <1>9
  <2>2. Y = X \cup u /\ X \cap u = {}
    BY <1>8, <1>9
  <2> HIDE DEF X, Y
  <2>3. IsFiniteSet(X) /\ IsFiniteSet(Y) /\ IsFiniteSet(u)
    BY <1>6, <2>1, FS_Subset
  <2>4. Cardinality(X \cup u) = Cardinality(X) + Cardinality(u) - Cardinality(X \cap u)
    BY <2>3, FS_Union
  <2>5. Cardinality(X \cap u) = 0
    BY <2>2, FS_EmptySet
  <2>6. Cardinality(X) \in Nat /\ Cardinality(Y) \in Nat /\ Cardinality(u) \in Nat
    BY <2>3, FS_CardinalityType
  <2>7. Cardinality(Y) = Cardinality(X) + Cardinality(u)
    BY <2>2, <2>4, <2>5, <2>6
  <2> QED
    BY <2>3, <2>6, <2>7 DEF X, Y
<1>12. /\ e.coverage = (Unit * a) \div r /\ f.coverage = (Unit * b) \div r
       /\ r \in Nat \ {0} /\ r <= Unit /\ Unit \in Nat
  BY <1>2, <1>3, <1>6, MetricsAssumption DEF R
<1> HIDE DEF a, b, r
<1>13. e.coverage \in Int /\ f.coverage \in Int
  <2>1. Unit * a \in Nat /\ Unit * b \in Nat
    BY <1>11, <1>12
  <2>2. (Unit * a) \div r \in Nat /\ (Unit * b) \div r \in Nat
    BY <1>12, <2>1, QuotientIsNumber
  <2> QED
    BY <1>12, <2>2
<1>14. CASE Cardinality(u) = 0
  <2>1. a = b
    BY <1>11, <1>14
  <2> QED
    BY <1>10, <1>11, <1>12, <1>13, <1>14, <2>1 DEF e, f, u
<1>15. CASE Cardinality(u) # 0
  <2>1. a < b
    BY <1>11, <1>15
  <2>2. (Unit * a) \div r < (Unit * b) \div r
    BY <1>11, <1>12, <2>1, FractionsGrow
  <2>3. e.coverage < f.coverage
    BY <1>12, <2>2
  <2>4. e.coverage <= f.coverage /\ e.coverage # f.coverage
    BY <1>13, <2>3
  <2> QED
    BY <1>10, <1>11, <1>13, <1>15, <2>4 DEF e, f, u
<1> QED
  BY <1>14, <1>15

(* Over the queries: the field channel alone found something exactly when   *)
(* the candidate covers more than the baseline, and what was recovered is   *)
(* what it alone found.                                                     *)
LEMMA CandidatesGain ==
    ASSUME NEW pools \in Inputs, NEW v \in Candidates, NEW b, NEW c,
           RunKnown(b, pools, "baseline"), RunKnown(c, pools, v)
    PROVE  LET changes == Changes(b, c)
           IN /\ c.unique["fields"] > 0 <=> c.coverage - b.coverage > 0
              /\ Cardinality(UNION {{<<q, k>> : k \in changes[q].recovered}
                                       : q \in DOMAIN changes})
                    = c.unique["fields"]
<1> DEFINE D     == DOMAIN pools
           found == [q \in D |-> OnlyFields(c, q)]
           u     == [q \in D |-> Cardinality(OnlyFields(c, q))]
           zero  == [q \in D |-> 0]
           f     == [q \in D |-> b.queries[q].coverage]
           g     == [q \in D |-> c.queries[q].coverage]
           changes == Changes(b, c)
<1>1. IsFiniteSet(D) /\ Cardinality(D) \in Nat
  BY InputsAreJudged, FS_CardinalityType
<1>2. c.unique["fields"] = SumFunction(u)
      /\ \A q \in D : IsFiniteSet(OnlyFields(c, q)) /\ u[q] \in Nat
  BY UniqueIsCounted
<1>3. b.coverage = SumFunction(f) /\ c.coverage = SumFunction(g)
  BY DEF RunKnown, RunShows, SumOver
<1>4. ASSUME NEW q \in D
      PROVE  /\ f[q] \in Int /\ g[q] \in Int /\ f[q] <= g[q]
             /\ f[q] = g[q] <=> u[q] = 0
             /\ Recovered(b.queries[q], c.queries[q]) = OnlyFields(c, q)
  <2>1. /\ b.queries[q] = QueryEvidence(pools[q], "baseline")
        /\ c.queries[q] = QueryEvidence(pools[q], v)
    BY DEF RunKnown, EvidenceOf
  <2>2. Evaluable(pools[q]) /\ Cardinality(Relevant(pools[q])) <= Unit
    BY AnalysisAssumption
  <2> DEFINE e  == QueryEvidence(pools[q], "baseline")
             e2 == QueryEvidence(pools[q], v)
             w  == Unique(e2.judgments, e2.hits, "fields")
  <2>3. /\ Recovered(e, e2) = w
        /\ e.coverage \in Int /\ e2.coverage \in Int
        /\ e.coverage <= e2.coverage
        /\ e.coverage = e2.coverage <=> Cardinality(w) = 0
    BY <2>2, QueryGains
  <2>4. OnlyFields(c, q) = w
    BY <2>1 DEF OnlyFields
  <2> HIDE DEF e, e2, w
  <2>5. b.queries[q] = e /\ c.queries[q] = e2
    BY <2>1 DEF e, e2
  <2> QED
    BY <2>3, <2>4, <2>5
<1>5. DOMAIN u = D /\ DOMAIN zero = D /\ DOMAIN f = D /\ DOMAIN g = D /\ \A q \in D : zero[q] = 0
  OBVIOUS
<1>6. SumFunction(zero) = 0
  <2> DEFINE z == 0
  <2>1. z \in Int /\ Cardinality(D) * z = 0
    BY <1>1
  <2> HIDE DEF z, D
  <2>2. SumFunction([q \in D |-> z]) = Cardinality(D) * z
    BY <1>1, <2>1, SumOfConstant
  <2> QED
    BY <2>1, <2>2 DEF z
<1>7. /\ SumFunction(zero) \in Int /\ SumFunction(u) \in Int
      /\ SumFunction(zero) <= SumFunction(u)
      /\ SumFunction(zero) = SumFunction(u) => \A q \in D : zero[q] = u[q]
  <2>1. \A q \in D : zero[q] \in Int /\ u[q] \in Int /\ zero[q] <= u[q]
    BY <1>2, <1>5
  <2> HIDE DEF zero, u, D
  <2> QED
    BY <1>1, <1>5, <2>1, SumsCompare
<1>8. /\ SumFunction(f) \in Int /\ SumFunction(g) \in Int
      /\ SumFunction(f) <= SumFunction(g)
      /\ SumFunction(f) = SumFunction(g) => \A q \in D : f[q] = g[q]
  <2> HIDE DEF f, g, u, D
  <2> QED
    BY <1>1, <1>4, <1>5, SumsCompare
<1>9. SumFunction(u) = 0 <=> SumFunction(f) = SumFunction(g)
  <2>1. ASSUME SumFunction(u) = 0 PROVE SumFunction(f) = SumFunction(g)
    <3>1. \A q \in D : u[q] = 0
      BY <1>5, <1>6, <1>7, <2>1
    <3>2. \A q \in D : f[q] = g[q]
      BY <1>4, <3>1
    <3>3. f = g
      BY <3>2
    <3> QED
      BY <3>3
  <2>2. ASSUME SumFunction(f) = SumFunction(g) PROVE SumFunction(u) = 0
    <3>1. \A q \in D : f[q] = g[q]
      BY <1>8, <2>2
    <3>2. \A q \in D : u[q] = 0
      BY <1>4, <3>1
    <3>3. u = zero
      BY <3>2
    <3> QED
      BY <1>6, <3>3
  <2> QED
    BY <2>1, <2>2
<1>10. c.unique["fields"] > 0 <=> c.coverage - b.coverage > 0
  <2> HIDE DEF u, f, g
  <2> QED
    BY <1>2, <1>3, <1>6, <1>7, <1>8, <1>9
<1>11. /\ DOMAIN changes = D
       /\ \A q \in D : changes[q].recovered = OnlyFields(c, q)
  BY <1>4 DEF Changes, QueryChange, RunKnown
<1>12. UNION {{<<q, k>> : k \in changes[q].recovered} : q \in DOMAIN changes} = Pairs(found, D)
  BY <1>11 DEF Pairs
<1>13. Cardinality(Pairs(found, D)) = SumFunction(u)
  <2>1. DOMAIN found = D /\ \A q \in D : IsFiniteSet(found[q])
    BY <1>2
  <2>2. [q \in D |-> Cardinality(found[q])] = u
    OBVIOUS
  <2> HIDE DEF found, u, D
  <2>3. Cardinality(Pairs(found, DOMAIN found))
           = SumFunction([q \in DOMAIN found |-> Cardinality(found[q])])
    BY <1>1, <2>1, PairsAreCounted
  <2> QED
    BY <2>1, <2>2, <2>3
<1> QED
  BY <1>2, <1>10, <1>12, <1>13 DEF changes

(* The evidence of an analysis over judged pools is accepted, and the three *)
(* figures of each experiment agree.                                        *)
FiguresAgree(e) ==
    /\ \A v \in Variants : e[v].accepted
    /\ \A v \in Candidates :
           /\ e[v].summary.unique > 0 <=> e[v].summary.coverage > 0
           /\ Cardinality(e[v].recovered) = e[v].summary.unique

LEMMA CandidateFields ==
    ASSUME NEW b, NEW c
    PROVE  LET k == Comparison(b, c)
               s == Summary(c, k)
               e == CandidateEvidence(b, c)
           IN /\ e.accepted = (/\ Produced(c) /\ DiagnosisAccepted(c)
                               /\ Comparable(b, c) /\ SummaryAccepted(s, k))
              /\ e.summary = s
              /\ e.recovered = UNION {{<<q, x>> : x \in k.changes[q].recovered}
                                         : q \in DOMAIN k.changes}
BY DEF CandidateEvidence

LEMMA EvidenceIsAccepted ==
    ASSUME NEW pools \in Inputs
    PROVE  FiguresAgree(Evidence(Runs(pools)))
<1> DEFINE e == Evidence(Runs(pools))
           b == Run(pools, "baseline")
<1>1. "baseline" \in Variants /\ "baseline" \notin Candidates
  BY DEF Variants, Candidates
<1>2. RunKnown(b, pools, "baseline")
  BY <1>1, RunIsKnown
<1>3. e["baseline"].accepted
  <2>1. e["baseline"].accepted = (Produced(b) /\ DiagnosisAccepted(b))
    BY <1>1 DEF Evidence, Runs, BaselineEvidence
  <2> HIDE DEF e, b
  <2> QED
    BY <1>1, <1>2, <2>1, RunIsAccepted
<1>4. ASSUME NEW v \in Candidates
      PROVE  /\ e[v].accepted
             /\ e[v].summary.unique > 0 <=> e[v].summary.coverage > 0
             /\ Cardinality(e[v].recovered) = e[v].summary.unique
  <2> DEFINE c == Run(pools, v)
             k == Comparison(b, c)
             s == Summary(c, k)
             changes == Changes(b, c)
  <2>1. v \in Variants /\ v # "baseline"
    BY <1>1 DEF Variants
  <2>2. /\ e[v].accepted = (/\ Produced(c) /\ DiagnosisAccepted(c)
                            /\ Comparable(b, c) /\ SummaryAccepted(s, k))
        /\ e[v].summary = s
        /\ e[v].recovered = UNION {{<<q, x>> : x \in k.changes[q].recovered} : q \in DOMAIN k.changes}
    <3>1. e[v] = CandidateEvidence(b, c)
      BY <1>1, <2>1 DEF Evidence, Runs
    <3> HIDE DEF e, b, c
    <3> QED
      BY <3>1, CandidateFields
  <2>3. RunKnown(c, pools, v)
    BY <2>1, RunIsKnown
  <2>4. k.changes = changes
        /\ k.observed = [g \in GateNames |-> Observed(b, c, changes, g)]
    BY ComparisonFields
  <2>5. s.unique = c.unique["fields"] /\ s.coverage = k.observed["union_coverage_improvement"]
    BY SummaryFields
  <2>6. k.observed["union_coverage_improvement"] = c.coverage - b.coverage
    <3>1. "union_coverage_improvement" \in GateNames
      BY DEF GateNames, Gains
    <3> HIDE DEF b, c, k, changes
    <3> QED
      BY <2>4, <3>1, GatesObserve
  <2> HIDE DEF e, b, c
  <2>7. e[v].accepted
    <3>1. SummaryAccepted(s, k)
      BY <1>2, <2>3, SummaryIsAccepted
    <3> HIDE DEF s, k
    <3> QED
      BY <1>2, <2>1, <2>2, <2>3, <3>1, RunIsAccepted, RunsAreComparable
  <2>8. /\ c.unique["fields"] > 0 <=> c.coverage - b.coverage > 0
        /\ Cardinality(UNION {{<<q, x>> : x \in changes[q].recovered} : q \in DOMAIN changes})
              = c.unique["fields"]
    BY <1>2, <2>3, CandidatesGain
  <2> HIDE DEF s, k, changes
  <2>9. e[v].recovered = UNION {{<<q, x>> : x \in changes[q].recovered} : q \in DOMAIN changes}
    <3> DEFINE All(ch) == UNION {{<<q, x>> : x \in ch[q].recovered} : q \in DOMAIN ch}
    <3>1. e[v].recovered = All(k.changes)
      BY <2>2
    <3> HIDE DEF All
    <3>2. e[v].recovered = All(changes)
      BY <2>4, <3>1
    <3> QED
      BY <3>2 DEF All
  <2>10. Cardinality(e[v].recovered) = e[v].summary.unique
    <3>1. Cardinality(e[v].recovered) = c.unique["fields"]
      BY <2>8, <2>9, Zenon
    <3> QED
      BY <2>2, <2>5, <3>1
  <2>11. e[v].summary.unique > 0 <=> e[v].summary.coverage > 0
    <3>1. e[v].summary.unique = c.unique["fields"] /\ e[v].summary.coverage = c.coverage - b.coverage
      BY <2>2, <2>5, <2>6
    <3>2. c.unique["fields"] > 0 <=> c.coverage - b.coverage > 0
      BY <2>8
    <3> QED
      BY <3>1, <3>2
  <2> QED
    BY <2>7, <2>10, <2>11
<1> HIDE DEF e
<1>5. \A v \in Variants : e[v].accepted
  BY <1>3, <1>4 DEF Variants
<1> QED
  BY <1>4, <1>5 DEF FiguresAgree, e
-----------------------------------------------------------------------------
(* The orders by which the best experiment and the examples are chosen.     *)

LEMMA KeysAreOrdered ==
    ASSUME NEW n \in Nat, NEW a \in [1 .. n -> Int], NEW b \in [1 .. n -> Int], a # b
    PROVE  Precedes(a, b) \/ Precedes(b, a)
<1> DEFINE T == {i \in 1 .. n : a[i] # b[i]}
<1>1. T # {} /\ T \subseteq Nat
  OBVIOUS
<1>2. PICK i \in T : \A j \in T : i <= j
  BY <1>1, LeastNumber
<1>3. i \in 1 .. n /\ a[i] \in Int /\ b[i] \in Int /\ a[i] # b[i]
  BY <1>2
<1>4. \A j \in 1 .. (i - 1) : a[j] = b[j]
  BY <1>2, <1>3
<1>5. a[i] < b[i] \/ b[i] < a[i]
  BY <1>3
<1> QED
  BY <1>3, <1>4, <1>5 DEF Precedes

LEMMA KeysAreStrict ==
    ASSUME NEW n \in Nat, NEW a \in [1 .. n -> Int], NEW b \in [1 .. n -> Int],
           Precedes(a, b), Precedes(b, a)
    PROVE  FALSE
<1>1. PICK i \in 1 .. n : a[i] < b[i] /\ \A k \in 1 .. (i - 1) : a[k] = b[k]
  BY DEF Precedes
<1>2. PICK j \in 1 .. n : b[j] < a[j] /\ \A k \in 1 .. (j - 1) : b[k] = a[k]
  BY DEF Precedes
<1>3. a[i] \in Int /\ b[i] \in Int /\ a[j] \in Int /\ b[j] \in Int
  OBVIOUS
<1>4. CASE i < j
  <2>1. i \in 1 .. (j - 1)
    BY <1>4
  <2> QED
    BY <1>1, <1>2, <1>3, <2>1
<1>5. CASE j < i
  <2>1. j \in 1 .. (i - 1)
    BY <1>5
  <2> QED
    BY <1>1, <1>2, <1>3, <2>1
<1>6. CASE i = j
  BY <1>1, <1>2, <1>3, <1>6
<1> QED
  BY <1>4, <1>5, <1>6

LEMMA KeysAreTransitive ==
    ASSUME NEW n \in Nat, NEW a \in [1 .. n -> Int], NEW b \in [1 .. n -> Int],
           NEW c \in [1 .. n -> Int], Precedes(a, b), Precedes(b, c)
    PROVE  Precedes(a, c)
<1>1. PICK i \in 1 .. n : a[i] < b[i] /\ \A k \in 1 .. (i - 1) : a[k] = b[k]
  BY DEF Precedes
<1>2. PICK j \in 1 .. n : b[j] < c[j] /\ \A k \in 1 .. (j - 1) : b[k] = c[k]
  BY DEF Precedes
<1>3. \A k \in 1 .. n : a[k] \in Int /\ b[k] \in Int /\ c[k] \in Int
  OBVIOUS
<1> DEFINE m == IF i <= j THEN i ELSE j
<1>4. m \in 1 .. n /\ m <= i /\ m <= j
  OBVIOUS
<1>5. a[m] < c[m]
  <2>1. CASE i < j
    <3>1. i \in 1 .. (j - 1) /\ m = i
      BY <2>1
    <3> QED
      BY <1>1, <1>2, <1>3, <3>1
  <2>2. CASE j < i
    <3>1. j \in 1 .. (i - 1) /\ m = j
      BY <2>2
    <3> QED
      BY <1>1, <1>2, <1>3, <3>1
  <2>3. CASE i = j
    BY <1>1, <1>2, <1>3, <2>3
  <2> QED
    BY <2>1, <2>2, <2>3
<1>6. \A k \in 1 .. (m - 1) : a[k] = c[k]
  BY <1>1, <1>2, <1>4
<1> QED
  BY <1>4, <1>5, <1>6 DEF Precedes

EvidenceFits == \A v \in Candidates : ExperimentFits(evidence[v], v)

LEMMA BestExists ==
    ASSUME EvidenceFits, NEW S, S \subseteq Summaries(Candidates), S # {}
    PROVE  Best(S) \in S
<1> DEFINE of == [v \in Candidates |-> evidence[v].summary]
           R  == {p \in S \X S : Precedes(SelectionKey(p[2]), SelectionKey(p[1]))}
<1>1. \A s \in S : \E v \in Candidates : s = evidence[v].summary
  BY DEF Summaries
<1>2. \A s \in S : s.variant \in Candidates /\ s = evidence[s.variant].summary
  BY <1>1 DEF EvidenceFits, ExperimentFits
<1>3. IsFiniteSet(S)
  <2>1. IsFiniteSet(Candidates)
    <3>1. Candidates = {"uniform"} \cup {"conservative"} \cup {"aggressive"}
      BY DEF Candidates
    <3> QED
      BY <3>1, FS_Singleton, FS_Union
  <2> HIDE DEF of
  <2>2. IsFiniteSet({of[v] : v \in Candidates})
    BY <2>1, ImageIsFinite
  <2>3. S \subseteq {of[v] : v \in Candidates}
    BY <1>1 DEF of
  <2> QED
    BY <2>2, <2>3, FS_Subset
<1>4. \A s \in S : SelectionKey(s) \in [1 .. 3 -> Int]
  <2> SUFFICES ASSUME NEW s \in S PROVE SelectionKey(s) \in [1 .. 3 -> Int]
    OBVIOUS
  <2>1. /\ s.worst["fusion"] \in Int /\ s.coarse_ndcg \in Int
        /\ NameOrder[s.variant] \in Int
    BY <1>2 DEF EvidenceFits, ExperimentFits, NameOrder, Candidates
  <2> QED
    BY <2>1 DEF SelectionKey
<1>5. \A s, t \in S : s # t => SelectionKey(s) # SelectionKey(t)
  <2> SUFFICES ASSUME NEW s \in S, NEW t \in S, SelectionKey(s) = SelectionKey(t)
               PROVE  s = t
    OBVIOUS
  <2>1. NameOrder[s.variant] = NameOrder[t.variant]
    BY DEF SelectionKey
  <2>2. s.variant = t.variant
    BY <1>2, <2>1 DEF NameOrder, Candidates
  <2> QED
    BY <1>2, <2>2
<1>6. \A a, b \in S : <<a, b>> \in R <=> Precedes(SelectionKey(b), SelectionKey(a))
  OBVIOUS
<1> HIDE DEF R
<1>7. Total(S, R)
  <2>1. \A a, b \in S : a # b => <<a, b>> \in R \/ <<b, a>> \in R
    BY <1>4, <1>5, <1>6, KeysAreOrdered
  <2>2. \A a, b, c \in S : <<a, b>> \in R /\ <<b, c>> \in R => <<a, c>> \in R
    BY <1>4, <1>6, KeysAreTransitive
  <2> QED
    BY <2>1, <2>2 DEF Total
<1>8. PICK a \in S : \A b \in S \ {a} : <<a, b>> \in R
  BY <1>3, <1>7, FirstExists DEF HasFirst
<1>9. \A b \in S : ~ Precedes(SelectionKey(a), SelectionKey(b))
  <2> SUFFICES ASSUME NEW b \in S, Precedes(SelectionKey(a), SelectionKey(b))
               PROVE  FALSE
    OBVIOUS
  <2>1. CASE b = a
    BY <1>4, <2>1, KeysAreStrict
  <2>2. CASE b # a
    BY <1>4, <1>6, <1>8, <2>2, KeysAreStrict
  <2> QED
    BY <2>1, <2>2
<1> QED
  BY <1>9 DEF Best
-----------------------------------------------------------------------------
(* The planners: which calls they make of the history they have.            *)

Successes == DOMAIN seen \ Failed

(* The fixed planner's call follows the successes before it.                *)
Before(i) == {j \in Successes : j < i}
CallsInOrder ==
    mode = "fixed" =>
        \A i \in DOMAIN seen : seen[i].call = FixedSequence[Cardinality(Before(i)) + 1]

History == /\ mode \in {"fixed", "adaptive"}
           /\ seen \in Seq(Observation) /\ Trusted
           /\ CallsInOrder

LEMMA SeenFacts ==
    ASSUME History
    PROVE  /\ Len(seen) \in Nat /\ DOMAIN seen = 1 .. Len(seen)
           /\ \A i \in DOMAIN seen : seen[i] \in Observation
           /\ IsFiniteSet(Successes) /\ Cardinality(Successes) \in Nat
           /\ \A i : IsFiniteSet(Before(i)) /\ Cardinality(Before(i)) \in Nat
           /\ Succeeded = {seen[i].call : i \in Successes}
           /\ Succeeded \subseteq Variants
<1>1. seen \in Seq(Observation)
  BY DEF History
<1>2. /\ Len(seen) \in Nat /\ DOMAIN seen = 1 .. Len(seen)
      /\ \A i \in DOMAIN seen : seen[i] \in Observation
  <2> HIDE DEF Observation
  <2> QED
    BY <1>1
<1>3. IsFiniteSet(DOMAIN seen)
  BY <1>2, FS_Interval
<1>4. IsFiniteSet(Successes)
  BY <1>3, FS_Subset DEF Successes
<1>5. \A i : Before(i) \in SUBSET Successes
  BY DEF Before
<1>6. \A i : IsFiniteSet(Before(i))
  BY <1>4, <1>5, FS_Subset
<1>7. Succeeded = {seen[i].call : i \in Successes}
  BY DEF Succeeded, Successes
<1>8. Succeeded \subseteq Variants
  BY <1>2, <1>7 DEF Successes, Observation
<1> QED
  BY <1>2, <1>4, <1>6, <1>7, <1>8, FS_CardinalityType

(* The successes are counted by the variants that succeeded.                *)
LEMMA SuccessesAreCounted ==
    ASSUME History
    PROVE  IsFiniteSet(Succeeded) /\ Cardinality(Succeeded) = Cardinality(Successes)
<1> DEFINE f == [i \in Successes |-> seen[i].call]
<1>1. \A i, j \in Successes : f[i] = f[j] => i = j
  BY DEF History, Trusted, Successes
<1>2. f \in [Successes -> Succeeded] /\ \A v \in Succeeded : \E i \in Successes : f[i] = v
  BY SeenFacts
<1> HIDE DEF f
<1>3. f \in Bijection(Successes, Succeeded)
  BY <1>1, <1>2 DEF Bijection, Injection, Surjection, IsInjective
<1> QED
  BY <1>3, SeenFacts, FS_Bijection DEF ExistsBijection

(* A call is of a variant that has not succeeded, and of the baseline as    *)
(* long as it has not; after a failure it is the one retry.                 *)
LEMMA CallsFit ==
    ASSUME History, NEW v \in NextCalls
    PROVE  /\ v \in Variants \ Succeeded
           /\ Succeeded = {} => v = "baseline"
           /\ mode = "fixed" => v = FixedSequence[Cardinality(Successes) + 1]
           /\ Failed # {} => mode = "fixed"
           /\ seen # <<>> /\ Last(seen).error # Null =>
                  Last(seen).retryable /\ Cardinality(Failed) <= 1
<1>1. CASE mode = "adaptive"
  <2>1. v \in AdaptiveCalls
    BY <1>1 DEF NextCalls
  <2>2. Failed = {} /\ v \in Variants \ Succeeded /\ (Succeeded = {} => v = "baseline")
    <3>1. Failed = {} /\ "baseline" \in Variants /\ Candidates \subseteq Variants
      BY <2>1 DEF AdaptiveCalls, Variants
    <3>2. CASE "baseline" \notin Succeeded
      BY <2>1, <3>1, <3>2 DEF AdaptiveCalls
    <3>3. CASE "baseline" \in Succeeded
      <4>1. v \in Candidates /\ v \notin Succeeded \ {"baseline"}
        BY <2>1, <3>1, <3>3 DEF AdaptiveCalls, Tested
      <4>2. v # "baseline"
        BY <4>1 DEF Candidates
      <4> QED
        BY <3>1, <3>3, <4>1, <4>2
    <3> QED
      BY <3>2, <3>3
  <2>3. seen # <<>> => Last(seen).error = Null
    <3>1. seen # <<>> => Len(seen) \in DOMAIN seen
      BY SeenFacts DEF History
    <3> QED
      BY <2>2, <3>1 DEF Failed, Last
  <2> QED
    BY <1>1, <2>2, <2>3
<1>2. CASE mode = "fixed"
  <2>1. v \in FixedCalls
    BY <1>2 DEF NextCalls
  <2>2. /\ ~ Stopped /\ Succeeded # Variants
        /\ v = FixedSequence[Cardinality(Succeeded) + 1]
    BY <2>1 DEF FixedCalls
  <2> DEFINE n == Cardinality(Succeeded)
  <2>3. n = Cardinality(Successes) /\ n \in Nat
    BY SuccessesAreCounted, SeenFacts
  <2>4. n <= 3
    <3>1. IsFiniteSet(Variants) /\ Cardinality(Variants) = 4
      <4>1. Variants = (({"baseline"} \cup {"uniform"}) \cup {"conservative"}) \cup {"aggressive"}
        BY DEF Variants, Candidates
      <4>2. IsFiniteSet({}) /\ Cardinality({}) = 0
        BY FS_EmptySet
      <4>3. /\ IsFiniteSet({"baseline"}) /\ Cardinality({"baseline"}) = 1
        BY FS_Singleton
      <4>4. LET S == {"baseline"} \cup {"uniform"}
            IN IsFiniteSet(S) /\ Cardinality(S) = 2
        BY <4>3, FS_AddElement
      <4>5. LET S == ({"baseline"} \cup {"uniform"}) \cup {"conservative"}
            IN IsFiniteSet(S) /\ Cardinality(S) = 3
        BY <4>4, FS_AddElement
      <4>6. LET S == (({"baseline"} \cup {"uniform"}) \cup {"conservative"}) \cup {"aggressive"}
            IN IsFiniteSet(S) /\ Cardinality(S) = 4
        BY <4>5, FS_AddElement
      <4> QED
        BY <4>1, <4>6
    <3>2. Succeeded \subseteq Variants
      BY SeenFacts
    <3>3. n <= 4 /\ n # 4
      BY <2>2, <3>1, <3>2, FS_Subset
    <3> QED
      BY <2>3, <3>3
  <2>5. \A i \in Successes : Cardinality(Before(i)) < n
    <3> SUFFICES ASSUME NEW i \in Successes PROVE Cardinality(Before(i)) < n
      OBVIOUS
    <3>1. Before(i) \subseteq Successes /\ i \notin Before(i)
      BY SeenFacts DEF Before, Successes
    <3>2. Before(i) # Successes
      BY <3>1
    <3>3. Cardinality(Before(i)) <= n /\ Cardinality(Before(i)) # n
      BY <2>3, <3>1, <3>2, SeenFacts, FS_Subset
    <3>4. Cardinality(Before(i)) \in Nat
      BY SeenFacts
    <3> QED
      BY <2>3, <3>3, <3>4
  <2>6. v \notin Succeeded
    <3> SUFFICES ASSUME NEW i \in Successes, v = seen[i].call PROVE FALSE
      BY SeenFacts
    <3> DEFINE m == Cardinality(Before(i))
    <3>1. m < n /\ m \in Nat
      BY <2>5, SeenFacts
    <3>2. FixedSequence[m + 1] = FixedSequence[n + 1]
      BY <1>2, <2>2 DEF History, CallsInOrder, Successes
    <3> HIDE DEF m, n
    <3>3. m + 1 \in 1 .. 4 /\ n + 1 \in 1 .. 4 /\ m + 1 # n + 1
      BY <2>3, <2>4, <3>1
    <3>4. \A a, b \in 1 .. 4 : FixedSequence[a] = FixedSequence[b] => a = b
      BY DEF FixedSequence
    <3> QED
      BY <3>2, <3>3, <3>4
  <2>7. v \in Variants
    <3>1. n + 1 \in 1 .. 4
      BY <2>3, <2>4
    <3>2. \A a \in 1 .. 4 : FixedSequence[a] \in Variants
      BY DEF FixedSequence, Variants, Candidates
    <3> QED
      BY <2>2, <3>1, <3>2
  <2>8. Succeeded = {} => v = "baseline"
    BY <2>2, FS_EmptySet DEF FixedSequence
  <2>9. seen # <<>> /\ Last(seen).error # Null => Last(seen).retryable /\ Cardinality(Failed) <= 1
    <3>1. IsFiniteSet(Failed) /\ Cardinality(Failed) \in Nat
      <4>1. IsFiniteSet(DOMAIN seen) /\ Failed \subseteq DOMAIN seen
        BY SeenFacts, FS_Interval DEF Failed
      <4> QED
        BY <4>1, FS_Subset, FS_CardinalityType
    <3> QED
      BY <2>2, <3>1 DEF Stopped
  <2> QED
    BY <1>2, <2>2, <2>3, <2>6, <2>7, <2>8, <2>9
<1> QED
  BY <1>1, <1>2 DEF History

(* One more observation.                                                    *)
LEMMA SeenGrows ==
    ASSUME History, NEW o \in Observation, seen' = Append(seen, o), mode' = mode
    PROVE  LET n == Len(seen)
           IN /\ n \in Nat /\ seen' \in Seq(Observation)
              /\ DOMAIN seen = 1 .. n /\ DOMAIN seen' = 1 .. (n + 1) /\ Len(seen') = n + 1
              /\ seen'[n + 1] = o /\ \A i \in 1 .. n : seen'[i] = seen[i]
              /\ Failed' = IF o.error = Null THEN Failed ELSE Failed \cup {n + 1}
              /\ Successes' = IF o.error = Null THEN Successes \cup {n + 1} ELSE Successes
              /\ Succeeded' = IF o.error = Null THEN Succeeded \cup {o.call} ELSE Succeeded
<1> DEFINE n == Len(seen)
<1>1. seen \in Seq(Observation) /\ n \in Nat /\ DOMAIN seen = 1 .. n
  BY SeenFacts DEF History
<1>2. /\ seen' \in Seq(Observation) /\ Len(seen') = n + 1 /\ DOMAIN seen' = 1 .. (n + 1)
      /\ seen'[n + 1] = o /\ \A i \in 1 .. n : seen'[i] = seen[i]
  <2> HIDE DEF Observation
  <2> QED
    BY <1>1
<1>3. 1 .. (n + 1) = (1 .. n) \cup {n + 1} /\ n + 1 \notin 1 .. n
  BY <1>1
<1> HIDE DEF n
<1>4. Failed' = IF o.error = Null THEN Failed ELSE Failed \cup {n + 1}
  BY <1>1, <1>2, <1>3 DEF Failed
<1>5. Failed \subseteq 1 .. n
  BY <1>1 DEF Failed
<1>6. Successes' = IF o.error = Null THEN Successes \cup {n + 1} ELSE Successes
  BY <1>1, <1>2, <1>3, <1>4, <1>5 DEF Successes
<1>7. Successes \subseteq 1 .. n
  BY <1>1 DEF Successes
<1>8. Succeeded' = {seen'[i].call : i \in Successes'}
  BY DEF Succeeded, Successes
<1>9. Succeeded = {seen[i].call : i \in Successes}
  BY DEF Succeeded, Successes
<1>10. Succeeded' = IF o.error = Null THEN Succeeded \cup {o.call} ELSE Succeeded
  <2> DEFINE Calls(s, I) == {s[i].call : i \in I}
  <2>1. Calls(seen', Successes) = Calls(seen, Successes)
    BY <1>2, <1>7
  <2>2. Calls(seen', Successes \cup {n + 1}) = Calls(seen', Successes) \cup {seen'[n + 1].call}
    OBVIOUS
  <2>3. Succeeded' = Calls(seen', Successes') /\ Succeeded = Calls(seen, Successes)
    BY <1>8, <1>9
  <2> HIDE DEF Calls
  <2> QED
    BY <1>2, <1>6, <2>1, <2>2, <2>3
<1> QED
  BY <1>1, <1>2, <1>4, <1>6, <1>10 DEF n

UpTo(i) == {j \in Successes : j <= i}

LEMMA TrustedParts ==
    Trusted <=>
        /\ \A i, j \in Successes : i # j => seen[i].call # seen[j].call
        /\ \A i \in Successes : Cardinality(UpTo(i)) = 1 => seen[i].call = "baseline"
        /\ mode = "fixed" =>
              \A i \in Successes : seen[i].call = FixedSequence[Cardinality(UpTo(i))]
        /\ \A i \in 1..(Len(seen) - 1) : i \in Failed =>
              /\ mode = "fixed" /\ seen[i].retryable /\ seen[i + 1].call = seen[i].call
              /\ Failed \cap 1..(i - 1) = {}
BY DEF Trusted, Successes, UpTo

LEMMA HistoryGrows ==
    ASSUME History, NEW v \in NextCalls, NEW o \in Observation, o.call = v,
           seen' = Append(seen, o), mode' = mode
    PROVE  History'
<1>0. PICK n : n = Len(seen)
  OBVIOUS
<1>1. /\ n \in Nat /\ seen' \in Seq(Observation)
      /\ DOMAIN seen = 1 .. n /\ DOMAIN seen' = 1 .. (n + 1) /\ Len(seen') = n + 1
      /\ seen'[n + 1] = o /\ \A i \in 1 .. n : seen'[i] = seen[i]
      /\ Failed' = IF o.error = Null THEN Failed ELSE Failed \cup {n + 1}
      /\ Successes' = IF o.error = Null THEN Successes \cup {n + 1} ELSE Successes
  BY <1>0, SeenGrows
<1>2. /\ v \in Variants \ Succeeded
      /\ Succeeded = {} => v = "baseline"
      /\ mode = "fixed" => v = FixedSequence[Cardinality(Successes) + 1]
      /\ Failed # {} => mode = "fixed"
      /\ seen # <<>> /\ Last(seen).error # Null =>
             Last(seen).retryable /\ Cardinality(Failed) <= 1
  BY CallsFit
<1>3. /\ Failed \subseteq 1 .. n /\ Successes \subseteq 1 .. n
      /\ Successes \cap Failed = {}
  BY <1>1 DEF Failed, Successes
<1>4. /\ \A i \in 1 .. n : Before(i)' = Before(i) /\ UpTo(i)' = UpTo(i)
      /\ Before(n + 1)' = Successes
      /\ o.error = Null => UpTo(n + 1)' = Successes \cup {n + 1}
  <2>1. \A i : /\ Before(i)' = {j \in Successes' : j < i}
               /\ UpTo(i)' = {j \in Successes' : j <= i}
    BY DEF Before, UpTo
  <2>2. \A j \in Successes : j \in Int /\ j <= n
    BY <1>1, <1>3
  <2>3. ASSUME NEW i \in 1 .. n PROVE Before(i)' = Before(i) /\ UpTo(i)' = UpTo(i)
    BY <1>1, <2>1 DEF Before, UpTo
  <2>4. Before(n + 1)' = Successes
    <3>1. Before(n + 1)' = {j \in Successes' : j < n + 1}
      BY <2>1
    <3>2. Successes' = Successes \/ Successes' = Successes \cup {n + 1}
      BY <1>1
    <3>3. \A j \in Successes : j < n + 1
      BY <1>1, <2>2
    <3>4. ~ (n + 1 < n + 1)
      BY <1>1
    <3> QED
      BY <3>1, <3>2, <3>3, <3>4
  <2>5. ASSUME o.error = Null PROVE UpTo(n + 1)' = Successes \cup {n + 1}
    <3>1. Successes' = Successes \cup {n + 1}
      BY <1>1, <2>5
    <3>2. \A j \in Successes \cup {n + 1} : j <= n + 1
      BY <1>1, <2>2
    <3>3. UpTo(n + 1)' = {j \in Successes' : j <= n + 1}
      BY <2>1
    <3> QED
      BY <3>1, <3>2, <3>3
  <2> QED
    BY <2>3, <2>4, <2>5
<1>5. /\ IsFiniteSet(Successes) /\ Cardinality(Successes) \in Nat
      /\ Succeeded = {seen[i].call : i \in Successes}
      /\ Cardinality(Successes \cup {n + 1}) = Cardinality(Successes) + 1
  <2>1. n + 1 \notin Successes
    BY <1>1, <1>3
  <2> QED
    BY <2>1, SeenFacts, FS_AddElement
<1>6. Trusted
  BY DEF History
<1>7. CallsInOrder'
  <2> SUFFICES ASSUME mode = "fixed", NEW i \in 1 .. (n + 1)
               PROVE  seen'[i].call = FixedSequence[Cardinality(Before(i)') + 1]
    <3>1. CallsInOrder' <=> (mode' = "fixed" => \A i \in DOMAIN seen' :
             seen'[i].call = FixedSequence[Cardinality(Before(i)') + 1])
      BY DEF CallsInOrder
    <3> QED
      BY <1>1, <3>1
  <2>1. CASE i \in 1 .. n
    BY <1>1, <1>4, <2>1 DEF History, CallsInOrder
  <2>2. CASE i = n + 1
    BY <1>1, <1>2, <1>4, <2>2
  <2> QED
    BY <1>1, <2>1, <2>2
<1>8. ASSUME NEW i \in Successes', NEW j \in Successes', i # j
      PROVE  seen'[i].call # seen'[j].call
  <2>1. \A k \in Successes : seen[k].call # v
    BY <1>2, <1>5
  <2>2. \A a, b \in Successes : a # b => seen[a].call # seen[b].call
    BY <1>6, TrustedParts
  <2>3. CASE i \in Successes /\ j \in Successes
    BY <1>1, <1>3, <1>8, <2>2, <2>3
  <2>4. CASE i = n + 1 /\ j \in Successes
    BY <1>1, <1>3, <2>1, <2>4
  <2>5. CASE i \in Successes /\ j = n + 1
    BY <1>1, <1>3, <2>1, <2>5
  <2> QED
    BY <1>1, <1>8, <2>3, <2>4, <2>5
<1>9. ASSUME NEW i \in Successes', Cardinality(UpTo(i)') = 1
      PROVE  seen'[i].call = "baseline"
  <2>1. CASE i \in Successes
    <3>1. i \in 1 .. n
      BY <1>3, <2>1
    <3>2. Cardinality(UpTo(i)) = 1 => seen[i].call = "baseline"
      BY <1>6, <2>1, TrustedParts
    <3> QED
      BY <1>1, <1>4, <1>9, <3>1, <3>2
  <2>2. CASE i = n + 1 /\ o.error = Null
    <3>1. Cardinality(Successes) = 0
      <4>1. UpTo(i)' = Successes \cup {n + 1}
        BY <1>4, <2>2
      <4> QED
        BY <1>5, <1>9, <4>1
    <3>2. Successes = {}
      BY <1>5, <3>1, FS_EmptySet
    <3> QED
      BY <1>1, <1>2, <1>5, <2>2, <3>2
  <2> QED
    BY <1>1, <2>1, <2>2
<1>10. ASSUME mode = "fixed", NEW i \in Successes'
       PROVE  seen'[i].call = FixedSequence[Cardinality(UpTo(i)')]
  <2>1. CASE i \in Successes
    <3>1. i \in 1 .. n
      BY <1>3, <2>1
    <3>2. seen[i].call = FixedSequence[Cardinality(UpTo(i))]
      BY <1>6, <1>10, <2>1, TrustedParts
    <3> QED
      BY <1>1, <1>4, <3>1, <3>2
  <2>2. CASE i = n + 1 /\ o.error = Null
    BY <1>1, <1>2, <1>4, <1>5, <1>10, <2>2
  <2> QED
    BY <1>1, <2>1, <2>2
<1>11. ASSUME NEW i \in 1 .. n, i \in Failed'
       PROVE  /\ mode = "fixed" /\ seen'[i].retryable /\ seen'[i + 1].call = seen'[i].call
              /\ Failed' \cap 1..(i - 1) = {}
  <2>1. i \in Failed
    BY <1>1, <1>11
  <2>2. Failed' \cap 1 .. (i - 1) = Failed \cap 1 .. (i - 1)
    BY <1>1
  <2>3. CASE i < n
    <3>1. i \in 1 .. (n - 1) /\ i + 1 \in 1 .. n
      BY <1>1, <2>3
    <3>2. /\ mode = "fixed" /\ seen[i].retryable /\ seen[i + 1].call = seen[i].call
          /\ Failed \cap 1 .. (i - 1) = {}
      BY <1>0, <1>6, <2>1, <3>1, TrustedParts
    <3> QED
      BY <1>1, <2>2, <3>1, <3>2
  <2>4. CASE i = n
    <3>1. seen # <<>> /\ Last(seen) = seen[n] /\ seen[n].error # Null
      <4>1. seen # <<>>
        BY <1>1
      <4>2. Last(seen) = seen[n]
        BY <1>0 DEF Last
      <4> QED
        BY <2>1, <2>4, <4>1, <4>2 DEF Failed
    <3>2. mode = "fixed" /\ seen[n].retryable /\ Cardinality(Failed) <= 1
      BY <1>2, <2>1, <3>1
    <3>3. Failed \cap 1 .. (n - 1) = {}
      <4> SUFFICES ASSUME NEW k \in Failed, k \in 1 .. (n - 1) PROVE FALSE
        OBVIOUS
      <4>1. IsFiniteSet(1 .. n)
        BY <1>1, FS_Interval
      <4>2. IsFiniteSet(Failed)
        BY <1>3, <4>1, FS_Subset
      <4> DEFINE one == {k}
                 two == one \cup {n}
      <4>3. two \in SUBSET Failed /\ n \notin one
        BY <1>1, <2>1, <2>4
      <4>4. IsFiniteSet(one) /\ Cardinality(one) = 1
        BY FS_Singleton
      <4> HIDE DEF one
      <4>5. Cardinality(two) = 2
        <5>1. Cardinality(two) = IF n \in one THEN Cardinality(one) ELSE Cardinality(one) + 1
          BY <4>4, FS_AddElement, Zenon
        <5> HIDE DEF two
        <5> QED
          BY <4>3, <4>4, <5>1
      <4> HIDE DEF two
      <4>6. Cardinality(two) <= Cardinality(Failed)
        BY <4>2, <4>3, FS_Subset
      <4>7. Cardinality(Failed) \in Nat
        BY <4>2, FS_CardinalityType
      <4> QED
        BY <3>2, <4>5, <4>6, <4>7
    <3>4. seen[n].call = v
      <4>1. Before(n) = Successes
        <5>1. \A j \in Successes : j \in 1 .. n /\ j # n
          BY <1>3, <2>1, <2>4
        <5>2. \A j \in Successes : j < n
          BY <5>1, <1>1
        <5> QED
          BY <5>2 DEF Before
      <4>2. seen[n].call = FixedSequence[Cardinality(Before(n)) + 1]
        BY <1>1, <2>4, <3>2 DEF History, CallsInOrder
      <4> QED
        BY <1>2, <3>2, <4>1, <4>2
    <3> QED
      BY <1>1, <2>2, <2>4, <3>2, <3>3, <3>4
  <2> QED
    BY <1>1, <2>3, <2>4
<1>12. Trusted'
  <2>1. Len(seen') - 1 = n
    BY <1>1
  <2>2. Trusted' <=>
        /\ \A i, j \in Successes' : i # j => seen'[i].call # seen'[j].call
        /\ \A i \in Successes' : Cardinality(UpTo(i)') = 1 => seen'[i].call = "baseline"
        /\ mode' = "fixed" =>
              \A i \in Successes' : seen'[i].call = FixedSequence[Cardinality(UpTo(i)')]
        /\ \A i \in 1..(Len(seen') - 1) : i \in Failed' =>
              /\ mode' = "fixed" /\ seen'[i].retryable /\ seen'[i + 1].call = seen'[i].call
              /\ Failed' \cap 1..(i - 1) = {}
    BY DEF Trusted, Successes, UpTo
  <2> QED
    BY <1>8, <1>9, <1>10, <1>11, <2>1, <2>2
<1> QED
  BY <1>1, <1>7, <1>12 DEF History

LEMMA HistoryStays ==
    ASSUME UNCHANGED <<mode, seen>>
    PROVE  /\ Failed' = Failed /\ Succeeded' = Succeeded /\ Tested' = Tested
           /\ History => History'
<1>1. /\ Failed' = Failed /\ Successes' = Successes /\ Succeeded' = Succeeded
  BY DEF Failed, Successes, Succeeded
<1>2. \A i : Before(i)' = Before(i)
  BY <1>1 DEF Before
<1>3. Trusted' <=> Trusted
  BY DEF Trusted, Failed
<1>4. CallsInOrder => CallsInOrder'
  BY <1>2 DEF CallsInOrder
<1> QED
  BY <1>1, <1>3, <1>4 DEF History, Tested
-----------------------------------------------------------------------------
(* The tools: what they keep is what their successful calls made.           *)

PlacesFit ==
    /\ head \in 1..LastRevision /\ dirty \in BOOLEAN
    /\ stored \subseteq Artifact /\ altered \subseteq Artifact /\ cached \subseteq Artifact
    /\ losses \in 0..MaxLosses

BaselineKept(r) == {Name("run", "baseline", r), Name("diagnosis", "baseline", r)} \subseteq cached
ExperimentKept(v, r) == \A k \in Kinds : Name(k, v, r) \in cached

ToolsFit ==
    /\ IF "baseline" \in Succeeded
       THEN \E r \in 1..LastRevision : pins = {r} /\ BaselineKept(r)
       ELSE pins = {} /\ Tested = {}
    /\ \A a \in cached : a.variant \in Candidates => a.revision \in pins
    /\ experiments \in Seq(Candidates) /\ IsInjective(experiments)
    /\ ToSet(experiments) = Tested
    /\ \A v \in Tested, r \in pins : ExperimentKept(v, r)

LEMMA ThreeFiles ==
    ASSUME NEW r, NEW d, NEW c
    PROVE  <<r, d>> \o <<c>> = <<r, d, c>>
<1> DEFINE X == {r, d, c}
           s == <<r, d>>
           t == <<c>>
           w == s \o t
<1>1. s \in Seq(X) /\ t \in Seq(X) /\ Len(s) = 2 /\ Len(t) = 1
  OBVIOUS
<1>2. s[1] = r /\ s[2] = d /\ t[1] = c
  OBVIOUS
<1> HIDE DEF s, t, X
<1>3. /\ w \in Seq(X) /\ Len(w) = 3
      /\ \A i \in 1 .. 3 : w[i] = IF i <= 2 THEN s[i] ELSE t[i - 2]
  <2>1. /\ w \in Seq(X) /\ Len(w) = Len(s) + Len(t)
        /\ \A i \in 1 .. Len(s) + Len(t) :
              w[i] = IF i <= Len(s) THEN s[i] ELSE t[i - Len(s)]
    BY <1>1, ConcatProperties, Zenon
  <2> HIDE DEF w
  <2> QED
    BY <1>1, <2>1
<1> HIDE DEF w
<1>4. w[1] = s[1] /\ w[2] = s[2] /\ w[3] = t[1]
  BY <1>3
<1>5. w = <<r, d, c>>
  BY <1>2, <1>3, <1>4
<1> QED
  BY <1>5 DEF w, s, t

LEMMA FilesFit ==
    ASSUME PlacesFit, NEW v \in Variants
    PROVE  /\ v \in Candidates => ToSet(Files(v)) = {Name(k, v, head) : k \in Kinds}
           /\ v = "baseline" => ToSet(Files(v)) =
                    {Name("run", v, head), Name("diagnosis", v, head)}
           /\ \A n \in DOMAIN Files(v) : /\ First(v, n) \subseteq ToSet(Files(v))
                                         /\ First(v, n - 1) \subseteq ToSet(Files(v))
           /\ First(v, 2) \subseteq ToSet(Files(v))
           /\ \A a \in ToSet(Files(v)) :
                    a \in Artifact /\ a.variant = v /\ a.revision = head
<1>1. CASE v \in Candidates
  <2> DEFINE r == Name("run", v, head)
             d == Name("diagnosis", v, head)
             c == Name("comparison", v, head)
  <2>1. Files(v) = <<r, d>> \o <<c>>
    BY <1>1 DEF Files
  <2> HIDE DEF r, d, c
  <2>2. Files(v) = <<r, d, c>>
    BY <2>1, ThreeFiles
  <2>3. ToSet(Files(v)) = {r, d, c} /\ DOMAIN Files(v) = 1 .. 3
    BY <2>2 DEF ToSet
  <2>4. /\ \A n \in DOMAIN Files(v) : /\ First(v, n) \subseteq ToSet(Files(v))
                                      /\ First(v, n - 1) \subseteq ToSet(Files(v))
        /\ First(v, 2) \subseteq ToSet(Files(v))
    BY <2>2, <2>3 DEF First
  <2>5. {r, d, c} = {Name(k, v, head) : k \in Kinds}
    BY DEF Kinds, r, d, c
  <2>6. \A a \in {r, d, c} : a \in Artifact /\ a.variant = v /\ a.revision = head
    BY DEF r, d, c, Name, Artifact, Kinds, PlacesFit
  <2>7. v # "baseline"
    BY <1>1 DEF Candidates
  <2> QED
    BY <2>3, <2>4, <2>5, <2>6, <2>7
<1>2. CASE v = "baseline"
  <2> DEFINE r == Name("run", v, head)
             d == Name("diagnosis", v, head)
  <2>1. v \notin Candidates
    BY <1>2 DEF Candidates
  <2>2. Files(v) = <<r, d>> \o <<>>
    BY <2>1 DEF Files
  <2> HIDE DEF r, d
  <2>3. Files(v) = <<r, d>>
    BY <2>2
  <2>4. ToSet(Files(v)) = {r, d} /\ DOMAIN Files(v) = 1 .. 2
    BY <2>3 DEF ToSet
  <2>5. /\ \A n \in DOMAIN Files(v) : /\ First(v, n) \subseteq ToSet(Files(v))
                                      /\ First(v, n - 1) \subseteq ToSet(Files(v))
        /\ First(v, 2) \subseteq ToSet(Files(v))
    BY <2>3, <2>4 DEF First
  <2>6. \A a \in {r, d} : a \in Artifact /\ a.variant = v /\ a.revision = head
    BY DEF r, d, Name, Artifact, Kinds, PlacesFit
  <2> QED
    BY <2>1, <2>4, <2>5, <2>6 DEF r, d
<1> QED
  BY <1>1, <1>2 DEF Variants

(* What a failed call leaves, and what a successful one does.               *)
CallFails(v) ==
    /\ \E o \in Observation : o.call = v /\ o.error # Null /\ seen' = Append(seen, o)
    /\ UNCHANGED <<altered, pins, experiments>>
    /\ \E new \in SUBSET ToSet(Files(v)) :
          /\ cached' = cached \cup new /\ stored' \subseteq stored \cup ToSet(Files(v))
          /\ new # {} => Ready(v)
CallSucceeds(v) ==
    /\ \E o \in Observation : o.call = v /\ o.error = Null /\ seen' = Append(seen, o)
    /\ Ready(v) /\ Admit(v)
    /\ cached' = cached \cup ToSet(Files(v)) /\ stored' = stored \cup ToSet(Files(v))
    /\ UNCHANGED altered

LEMMA CallsDo ==
    ASSUME PlacesFit, NEW v \in Variants, Call(v)
    PROVE  CallFails(v) \/ CallSucceeds(v)
<1>1. \A e \in Errors, b \in BOOLEAN :
         LET o == [call |-> v, error |-> e, retryable |-> b]
         IN o \in Observation /\ o.call = v /\ o.error # Null
  BY AnalysisAssumption DEF Observation
<1>2. ASSUME NEW e \in Errors, NEW b \in BOOLEAN, Observe(v, e, b)
      PROVE  \E o \in Observation : o.call = v /\ o.error # Null /\ seen' = Append(seen, o)
  BY <1>1, <1>2 DEF Observe
<1>3. \A e \in Errors, b \in BOOLEAN : Observe(v, e, b) /\ Nothing => CallFails(v)
  <2> SUFFICES ASSUME NEW e \in Errors, NEW b \in BOOLEAN, Observe(v, e, b), Nothing
               PROVE  CallFails(v)
    OBVIOUS
  <2>1. UNCHANGED <<stored, altered, cached, pins, experiments>>
    BY DEF Nothing, files, tools
  <2>2. cached' = cached \cup {} /\ {} \in SUBSET ToSet(Files(v))
    BY <2>1
  <2> QED
    BY <1>2, <2>1, <2>2 DEF CallFails
<1>4. CASE CallLosesBaseline(v)
  BY <1>3, <1>4 DEF CallLosesBaseline, Errors
<1>5. CASE CallFindsChanges(v)
  BY <1>3, <1>5 DEF CallFindsChanges, Errors
<1>6. CASE CallMissesInputs(v)
  BY <1>3, <1>6 DEF CallMissesInputs, Errors
<1>7. CASE CallCollides(v)
  <2>1. PICK n \in DOMAIN Files(v) : /\ cached' = cached \cup First(v, n - 1)
                                     /\ stored' = stored \cup First(v, n - 1)
    BY <1>7 DEF CallCollides
  <2>2. First(v, n - 1) \subseteq ToSet(Files(v))
    BY FilesFit
  <2>3. /\ \E o \in Observation : o.call = v /\ o.error # Null /\ seen' = Append(seen, o)
        /\ Ready(v) /\ UNCHANGED <<altered, pins, experiments>>
    BY <1>2, <1>7 DEF CallCollides, Errors
  <2> QED
    BY <2>1, <2>2, <2>3 DEF CallFails
<1>8. CASE CallCannotStore(v)
  <2>1. /\ \E o \in Observation : o.call = v /\ o.error # Null /\ seen' = Append(seen, o)
        /\ Ready(v) /\ UNCHANGED <<altered, pins, experiments>>
    BY <1>2, <1>8 DEF CallCannotStore, Errors
  <2>2. \E new \in SUBSET ToSet(Files(v)) :
           cached' = cached \cup new /\ stored' \subseteq stored \cup ToSet(Files(v))
    <3>1. ASSUME NEW n \in DOMAIN Files(v), NEW published \in BOOLEAN,
                 cached' = cached \cup First(v, n - 1),
                 stored' = stored \cup First(v, IF published THEN n ELSE n - 1)
          PROVE  \E new \in SUBSET ToSet(Files(v)) :
                    cached' = cached \cup new /\ stored' \subseteq stored \cup ToSet(Files(v))
      <4>1. First(v, n) \subseteq ToSet(Files(v)) /\ First(v, n - 1) \subseteq ToSet(Files(v))
        BY FilesFit
      <4>2. First(v, IF published THEN n ELSE n - 1) \subseteq ToSet(Files(v))
        BY <4>1
      <4> QED
        BY <3>1, <4>1, <4>2
    <3>2. ASSUME cached' = cached \cup First(v, 2), stored' = stored \cup First(v, 2)
          PROVE  \E new \in SUBSET ToSet(Files(v)) :
                    cached' = cached \cup new /\ stored' \subseteq stored \cup ToSet(Files(v))
      <4>1. First(v, 2) \subseteq ToSet(Files(v))
        BY FilesFit
      <4> QED
        BY <3>2, <4>1
    <3> QED
      BY <1>8, <3>1, <3>2 DEF CallCannotStore
  <2> QED
    BY <2>1, <2>2 DEF CallFails
<1>9. CASE CallCompletes(v)
  <2>1. CASE evidence[v].accepted
    <3>1. [call |-> v, error |-> Null, retryable |-> FALSE] \in Observation
      BY DEF Observation
    <3>2. \E o \in Observation : o.call = v /\ o.error = Null /\ seen' = Append(seen, o)
      BY <1>9, <2>1, <3>1 DEF CallCompletes, Observe
    <3> QED
      BY <1>9, <2>1, <3>2 DEF CallCompletes, CallSucceeds
  <2>2. CASE ~ evidence[v].accepted
    BY <1>3, <1>9, <2>2 DEF CallCompletes, Errors
  <2> QED
    BY <2>1, <2>2
<1> QED
  BY <1>4, <1>5, <1>6, <1>7, <1>8, <1>9 DEF Call

LEMMA ToolsFail ==
    ASSUME History, PlacesFit, ToolsFit, NEW v \in NextCalls, CallFails(v), UNCHANGED mode
    PROVE  ToolsFit'
<1>1. v \in Variants
  BY CallsFit
<1>2. Succeeded' = Succeeded /\ Tested' = Tested
  BY SeenGrows DEF CallFails, Tested
<1>3. UNCHANGED <<pins, experiments>>
  BY DEF CallFails
<1>4. PICK new \in SUBSET ToSet(Files(v)) : cached' = cached \cup new /\ (new # {} => Ready(v))
  BY DEF CallFails
<1>5. cached \subseteq cached'
  BY <1>4
<1>6. IF "baseline" \in Succeeded'
      THEN \E r \in 1..LastRevision : pins' = {r} /\ BaselineKept(r)'
      ELSE pins' = {} /\ Tested' = {}
  <2>1. \A r : BaselineKept(r) => BaselineKept(r)'
    BY <1>5 DEF BaselineKept
  <2> QED
    BY <1>2, <1>3, <2>1 DEF ToolsFit
<1>7. ASSUME NEW a \in cached', a.variant \in Candidates PROVE a.revision \in pins'
  <2>1. CASE a \in cached
    BY <1>3, <1>7, <2>1 DEF ToolsFit
  <2>2. CASE a \in new
    <3>1. a.variant = v /\ a.revision = head
      BY <1>1, <2>2, FilesFit
    <3>2. Ready(v)
      BY <1>4, <2>2
    <3> QED
      BY <1>3, <1>7, <3>1, <3>2 DEF Ready, SameRevision
  <2> QED
    BY <1>4, <1>7, <2>1, <2>2
<1>8. \A w \in Tested', r \in pins' : ExperimentKept(w, r)'
  <2>1. \A w, r : ExperimentKept(w, r) => ExperimentKept(w, r)'
    BY <1>5 DEF ExperimentKept
  <2> QED
    BY <1>2, <1>3, <2>1 DEF ToolsFit
<1>9. /\ experiments' \in Seq(Candidates) /\ IsInjective(experiments')
      /\ ToSet(experiments') = Tested'
  BY <1>2, <1>3 DEF ToolsFit
<1> QED
  BY <1>6, <1>7, <1>8, <1>9 DEF ToolsFit

LEMMA ToolsSucceed ==
    ASSUME History, PlacesFit, ToolsFit, NEW v \in NextCalls, CallSucceeds(v), UNCHANGED mode
    PROVE  ToolsFit'
<1>0. PICK now : now = head
  OBVIOUS
<1>1. v \in Variants \ Succeeded
  BY CallsFit
<1>2. Succeeded' = Succeeded \cup {v}
  BY SeenGrows DEF CallSucceeds
<1>3. Ready(v) /\ Admit(v) /\ cached' = cached \cup ToSet(Files(v))
  BY DEF CallSucceeds
<1>4. cached \subseteq cached' /\ ToSet(Files(v)) \subseteq cached'
  BY <1>3
<1>5. \A a \in ToSet(Files(v)) : a.variant = v /\ a.revision = head
  BY <1>1, FilesFit
<1>6. head \in 1 .. LastRevision
  BY DEF PlacesFit
<1>7. CASE v = "baseline"
  <2>1. "baseline" \notin Succeeded /\ pins = {} /\ Tested = {}
    BY <1>1, <1>7 DEF ToolsFit
  <2>2. Tested' = {} /\ "baseline" \in Succeeded'
    BY <1>2, <1>7, <2>1 DEF Tested
  <2>3. pins' = {head} /\ UNCHANGED experiments
    BY <1>3, <1>7, <2>1 DEF Admit
  <2>4. BaselineKept(now)'
    <3>1. ToSet(Files(v)) = {Name("run", v, head), Name("diagnosis", v, head)}
      BY <1>1, <1>7, FilesFit
    <3>2. {Name("run", "baseline", head), Name("diagnosis", "baseline", head)} \subseteq cached'
      BY <1>4, <1>7, <3>1
    <3> QED
      BY <1>0, <3>2 DEF BaselineKept
  <2>5. \A a \in cached' : a.variant \notin Candidates
    <3>1. \A a \in cached : a.variant \notin Candidates
      BY <2>1 DEF ToolsFit
    <3>2. v \notin Candidates
      BY <1>7 DEF Candidates
    <3> QED
      BY <1>3, <1>5, <3>1, <3>2
  <2>6. /\ experiments' \in Seq(Candidates) /\ IsInjective(experiments')
        /\ ToSet(experiments') = Tested'
    BY <2>1, <2>2, <2>3 DEF ToolsFit
  <2> QED
    BY <1>0, <1>6, <2>2, <2>3, <2>4, <2>5, <2>6 DEF ToolsFit
<1>8. CASE v \in Candidates
  <2>1. v # "baseline"
    BY <1>8 DEF Candidates
  <2>2. head \in pins
    BY <1>3, <1>8 DEF Ready, SameRevision
  <2>3. "baseline" \in Succeeded /\ pins = {head} /\ BaselineKept(head)
    BY <2>2 DEF ToolsFit
  <2>4. Tested' = Tested \cup {v} /\ v \notin Tested /\ "baseline" \in Succeeded'
    BY <1>1, <1>2, <2>1, <2>3 DEF Tested
  <2>5. pins' = pins /\ experiments' = Append(experiments, v)
    BY <1>3, <2>1, <2>4 DEF Admit, ToolsFit
  <2>6. BaselineKept(now)'
    <3>1. {Name("run", "baseline", head), Name("diagnosis", "baseline", head)} \subseteq cached'
      BY <1>4, <2>3 DEF BaselineKept
    <3> QED
      BY <1>0, <3>1 DEF BaselineKept
  <2>7. \A a \in cached' : a.variant \in Candidates => a.revision \in pins'
    BY <1>3, <1>5, <2>2, <2>5 DEF ToolsFit
  <2>8. /\ experiments' \in Seq(Candidates) /\ IsInjective(experiments')
        /\ ToSet(experiments') = Tested'
    <3> DEFINE n == Len(experiments)
    <3>1. /\ experiments \in Seq(Candidates) /\ IsInjective(experiments)
          /\ ToSet(experiments) = Tested
      BY DEF ToolsFit
    <3>2. /\ n \in Nat /\ DOMAIN experiments = 1 .. n
          /\ experiments' \in Seq(Candidates) /\ DOMAIN experiments' = 1 .. (n + 1)
          /\ experiments'[n + 1] = v
          /\ \A i \in 1 .. n : experiments'[i] = experiments[i]
      <4> HIDE DEF Candidates
      <4> QED
        BY <1>8, <2>5, <3>1
    <3> HIDE DEF n
    <3>3. \A i \in 1 .. n : experiments[i] \in Tested /\ experiments[i] # v
      BY <2>4, <3>1, <3>2 DEF ToSet
    <3>4. 1 .. (n + 1) = (1 .. n) \cup {n + 1}
      BY <3>2
    <3>5. \A i, j \in 1 .. n : experiments[i] = experiments[j] => i = j
      BY <3>1, <3>2 DEF IsInjective
    <3>6. \A i, j \in 1 .. (n + 1) : experiments'[i] = experiments'[j] => i = j
      BY <3>2, <3>3, <3>4, <3>5
    <3>7. IsInjective(experiments')
      BY <3>2, <3>6 DEF IsInjective
    <3>8. {experiments'[i] : i \in 1 .. (n + 1)} = {experiments[i] : i \in 1 .. n} \cup {v}
      BY <3>2, <3>4
    <3>9. ToSet(experiments') = ToSet(experiments) \cup {v}
      BY <3>2, <3>8 DEF ToSet
    <3> QED
      BY <2>4, <3>1, <3>2, <3>7, <3>9
  <2>9. ASSUME NEW w \in Tested', NEW r \in pins' PROVE ExperimentKept(w, r)'
    <3>1. r = head
      BY <2>3, <2>5
    <3>2. CASE w \in Tested
      <4>1. ExperimentKept(w, r)
        BY <2>5, <3>2 DEF ToolsFit
      <4> QED
        BY <1>4, <4>1 DEF ExperimentKept
    <3>3. CASE w = v
      <4>1. \A k \in Kinds : Name(k, v, head) \in cached'
        BY <1>1, <1>4, <1>8, FilesFit
      <4> QED
        BY <3>1, <3>3, <4>1 DEF ExperimentKept
    <3> QED
      BY <2>4, <3>2, <3>3
  <2> QED
    BY <1>0, <1>6, <2>3, <2>4, <2>5, <2>6, <2>7, <2>8, <2>9 DEF ToolsFit
<1> QED
  BY <1>1, <1>7, <1>8 DEF Variants

LEMMA ToolsStay ==
    ASSUME ToolsFit, UNCHANGED <<seen, tools>>
    PROVE  ToolsFit'
<1>1. UNCHANGED <<cached, pins, experiments>>
  BY DEF tools
<1>2. Succeeded' = Succeeded /\ Tested' = Tested
  BY DEF Succeeded, Failed, Tested
<1>3. \A r : BaselineKept(r)' = BaselineKept(r)
  BY <1>1 DEF BaselineKept
<1>4. \A v, r : ExperimentKept(v, r)' = ExperimentKept(v, r)
  BY <1>1 DEF ExperimentKept
<1> QED
  BY <1>1, <1>2, <1>3, <1>4 DEF ToolsFit
-----------------------------------------------------------------------------
(* The end of a run, and its answer: both are as the state then had it,     *)
(* and what they were made of does not change any more.                     *)

TerminalFits ==
    terminal # Null =>
        terminal \in Conclusions \cup {Finish("inconclusive", Null), Finish("failed", Null)}
ResponseFits == response # Null => terminal # Null /\ response = Response

StageInv == /\ History
            /\ EvidenceFits
            /\ PlacesFit
            /\ ToolsFit
            /\ TerminalFits
            /\ ResponseFits

LEMMA ConclusionsStay ==
    ASSUME UNCHANGED <<evidence, mode, seen>>
    PROVE  /\ Conclusions' = Conclusions
           /\ \A o, x : Finish(o, x)' = Finish(o, x)
<1>1. Succeeded' = Succeeded /\ Tested' = Tested
  BY HistoryStays
<1>2. \A o, x : Finish(o, x)' = Finish(o, x)
  BY <1>1 DEF Finish
<1>3. Passing(Tested)' = Passing(Tested)
  BY <1>1 DEF Passing, Summaries
<1> QED
  BY <1>1, <1>2, <1>3 DEF Conclusions

LEMMA ResponseStays ==
    ASSUME UNCHANGED <<evidence, terminal, tools>>
    PROVE  Response' = Response
<1>1. UNCHANGED <<cached, pins, experiments>>
  BY DEF tools
<1>2. \A T : Summaries(T)' = Summaries(T)
  BY DEF Summaries
<1>3. \A T : Passing(T)' = Passing(T)
  BY <1>2 DEF Passing
<1>4. \A v, q : ShownChange(v, q)' = ShownChange(v, q)
  BY DEF ShownChange
<1>5. \A T : ChangedQueries(T)' = ChangedQueries(T)
  BY <1>4 DEF ChangedQueries
<1>6. \A e, x : Preference(e, x)' = Preference(e, x)
  BY DEF Preference
<1>7. \A T, x : Preferred(T, x)' = Preferred(T, x)
  BY <1>5, <1>6 DEF Preferred
<1>8. \A T, x : Examples(T, x)' = Examples(T, x)
  BY <1>7 DEF Examples
<1>9. \A status, T, x : Answer(status, T, x)' = Answer(status, T, x)
  BY <1>8 DEF Answer
<1>10. SelectedVariant' = SelectedVariant
  BY <1>1, <1>2 DEF SelectedVariant
<1>11. TerminalConsistent' = TerminalConsistent
  BY <1>1, <1>3, <1>10 DEF TerminalConsistent
<1>12. EvidenceComplete' = EvidenceComplete
  <2>1. BaselineRuns' = BaselineRuns
    BY <1>1 DEF BaselineRuns
  <2>2. \A v : CachedRuns(v)' = CachedRuns(v)
    BY <1>1 DEF CachedRuns
  <2>3. \A k, run : Documented(k, run)' = Documented(k, run)
    BY <1>1 DEF Documented
  <2> QED
    BY <1>1, <2>1, <2>2, <2>3 DEF EvidenceComplete
<1> QED
  BY <1>1, <1>9, <1>10, <1>11, <1>12 DEF Response

LEMMA InitFits == StageInit => StageInv
<1> SUFFICES ASSUME StageInit PROVE StageInv
  OBVIOUS
<1>1. seen = <<>> /\ Failed = {} /\ Succeeded = {} /\ Tested = {}
  BY DEF StageInit, Failed, Succeeded, Tested
<1>2. History
  BY <1>1 DEF StageInit, History, Trusted, CallsInOrder, Observation
<1>3. EvidenceFits
  <2>1. PICK pools \in Inputs : evidence = Evidence(Runs(pools))
    BY DEF StageInit
  <2> QED
    BY <2>1, ExperimentsFit DEF EvidenceFits
<1>4. PlacesFit
  <2>1. LastRevision \in Nat \ {0} /\ MaxLosses \in Nat
    BY AnalysisAssumption
  <2>2. stored \subseteq Artifact
    BY DEF StageInit, Earlier
  <2> QED
    <3>1. 1 \in 1 .. LastRevision /\ 0 \in 0 .. MaxLosses /\ FALSE \in BOOLEAN
      BY <2>1
    <3>2. /\ head = 1 /\ dirty = FALSE /\ losses = 0
          /\ altered = {} /\ cached = {}
      BY DEF StageInit
    <3> QED
      BY <2>2, <3>1, <3>2 DEF PlacesFit
<1>5. ToolsFit
  BY <1>1 DEF StageInit, ToolsFit, ToSet, IsInjective
<1>6. TerminalFits /\ ResponseFits
  BY DEF StageInit, TerminalFits, ResponseFits
<1> QED
  BY <1>2, <1>3, <1>4, <1>5, <1>6 DEF StageInv

LEMMA CallKeeps ==
    ASSUME StageInv, CallTool
    PROVE  StageInv'
<1>1. PICK v \in NextCalls : Call(v)
  BY DEF CallTool
<1>2. /\ terminal = Null /\ UNCHANGED <<mode, evidence, head, dirty, terminal, response, losses>>
  BY <1>1 DEF CallTool, Call, worktree
<1>3. History /\ PlacesFit /\ ToolsFit
  BY DEF StageInv
<1>4. v \in Variants
  BY <1>3, CallsFit
<1>5. CallFails(v) \/ CallSucceeds(v)
  BY <1>1, <1>3, <1>4, CallsDo
<1>6. History'
  <2>1. PICK o \in Observation : o.call = v /\ seen' = Append(seen, o)
    BY <1>5 DEF CallFails, CallSucceeds
  <2> QED
    BY <1>2, <1>3, <2>1, HistoryGrows
<1>7. EvidenceFits'
  BY <1>2 DEF StageInv, EvidenceFits
<1>8. PlacesFit'
  <2>1. ToSet(Files(v)) \subseteq Artifact
    BY <1>3, <1>4, FilesFit
  <2>2. /\ stored' \subseteq stored \cup ToSet(Files(v)) /\ altered' = altered
        /\ cached' \subseteq cached \cup ToSet(Files(v))
    BY <1>5 DEF CallFails, CallSucceeds
  <2> QED
    BY <1>2, <1>3, <2>1, <2>2 DEF PlacesFit
<1>9. ToolsFit'
  BY <1>2, <1>3, <1>5, ToolsFail, ToolsSucceed
<1>10. TerminalFits' /\ ResponseFits'
  BY <1>2 DEF StageInv, TerminalFits, ResponseFits
<1> QED
  BY <1>6, <1>7, <1>8, <1>9, <1>10 DEF StageInv

LEMMA EndKeeps ==
    ASSUME StageInv, End
    PROVE  StageInv'
<1>1. UNCHANGED <<mode, evidence, worktree, files, tools, seen, response, losses>>
  BY DEF End
<1>2. History' /\ EvidenceFits'
  BY <1>1, HistoryStays DEF StageInv, EvidenceFits
<1>3. PlacesFit' /\ ToolsFit'
  BY <1>1, ToolsStay DEF StageInv, PlacesFit, worktree, files, tools
<1>4. Endings \subseteq Conclusions \cup {Finish("inconclusive", Null), Finish("failed", Null)}
  BY DEF Endings, FixedEnds, AdaptiveEnds
<1>5. /\ Conclusions' = Conclusions
      /\ \A o, x : Finish(o, x)' = Finish(o, x)
  BY <1>1, ConclusionsStay
<1>6. TerminalFits'
  BY <1>4, <1>5 DEF End, TerminalFits
<1>7. ResponseFits'
  BY DEF StageInv, End, ResponseFits
<1> QED
  BY <1>2, <1>3, <1>6, <1>7 DEF StageInv

LEMMA RespondKeeps ==
    ASSUME StageInv, Respond
    PROVE  StageInv'
<1>1. UNCHANGED <<mode, evidence, worktree, files, tools, seen, terminal, losses>>
  BY DEF Respond
<1>2. History' /\ EvidenceFits'
  BY <1>1, HistoryStays DEF StageInv, EvidenceFits
<1>3. PlacesFit' /\ ToolsFit'
  BY <1>1, ToolsStay DEF StageInv, PlacesFit, worktree, files, tools
<1>4. TerminalFits'
  <2>1. /\ Conclusions' = Conclusions
        /\ \A o, x : Finish(o, x)' = Finish(o, x)
    BY <1>1, ConclusionsStay
  <2> QED
    BY <1>1, <2>1 DEF StageInv, TerminalFits
<1>5. ResponseFits'
  <2>1. Response' = Response
    BY <1>1, ResponseStays
  <2> QED
    BY <2>1 DEF Respond, ResponseFits
<1> QED
  BY <1>2, <1>3, <1>4, <1>5 DEF StageInv

LEMMA SurroundingsKeep ==
    ASSUME StageInv, Surroundings
    PROVE  StageInv'
<1>1. terminal = Null /\ UNCHANGED <<mode, evidence, tools, seen, terminal, response>>
  BY DEF Surroundings
<1>2. History' /\ EvidenceFits' /\ ToolsFit'
  BY <1>1, HistoryStays, ToolsStay DEF StageInv, EvidenceFits
<1>3. PlacesFit'
  <2>1. PlacesFit /\ UNCHANGED cached
    BY <1>1 DEF StageInv, tools
  <2>2. CASE (Edit \/ Revert \/ Commit) /\ UNCHANGED <<files, losses>>
    <3>1. head' \in 1 .. LastRevision /\ dirty' \in BOOLEAN
      <4>1. LastRevision \in Nat \ {0} /\ head \in 1 .. LastRevision /\ dirty \in BOOLEAN
        BY <2>1, AnalysisAssumption DEF PlacesFit
      <4>2. CASE Edit \/ Revert
        BY <4>1, <4>2 DEF Edit, Revert
      <4>3. CASE Commit
        <5>1. head < LastRevision /\ head' = head + 1 /\ dirty' = FALSE
          BY <4>3 DEF Commit
        <5>2. head + 1 \in 1 .. LastRevision
          BY <4>1, <5>1
        <5> QED
          BY <5>1, <5>2
      <4> QED
        BY <2>2, <4>2, <4>3
    <3> QED
      BY <2>1, <2>2, <3>1 DEF PlacesFit, files
  <2>3. CASE losses < MaxLosses /\ losses' = losses + 1 /\ (Alter \/ Delete)
             /\ UNCHANGED worktree
    <3>1. losses' \in 0 .. MaxLosses
      BY <2>1, <2>3, AnalysisAssumption DEF PlacesFit
    <3>2. stored' \subseteq Artifact /\ altered' \subseteq Artifact
      BY <2>1, <2>3 DEF Alter, Delete, PlacesFit
    <3> QED
      BY <2>1, <2>3, <3>1, <3>2 DEF PlacesFit, worktree
  <2> QED
    BY <2>2, <2>3 DEF Surroundings
<1>4. TerminalFits' /\ ResponseFits'
  BY <1>1 DEF StageInv, TerminalFits, ResponseFits
<1> QED
  BY <1>2, <1>3, <1>4 DEF StageInv

LEMMA StageStep == StageInv /\ [StageNext]_stageVars => StageInv'
<1> SUFFICES ASSUME StageInv, [StageNext]_stageVars PROVE StageInv'
  OBVIOUS
<1>1. CASE UNCHANGED stageVars
  <2>1. UNCHANGED <<mode, evidence, worktree, files, tools, seen, terminal, response, losses>>
    BY <1>1 DEF stageVars
  <2>2. /\ Conclusions' = Conclusions
        /\ \A o, x : Finish(o, x)' = Finish(o, x)
        /\ Response' = Response
    BY <2>1, ConclusionsStay, ResponseStays
  <2>3. History' /\ EvidenceFits' /\ ToolsFit'
    BY <2>1, HistoryStays, ToolsStay DEF StageInv, EvidenceFits
  <2>4. PlacesFit'
    BY <2>1 DEF StageInv, PlacesFit, worktree, files, tools
  <2>5. TerminalFits' /\ ResponseFits'
    BY <2>1, <2>2 DEF StageInv, TerminalFits, ResponseFits
  <2> QED
    BY <2>3, <2>4, <2>5 DEF StageInv
<1> QED
  BY <1>1, CallKeeps, EndKeeps, RespondKeeps, SurroundingsKeep DEF StageNext

THEOREM StageInvariant == StageSpec => []StageInv
<1>1. StageInit => StageInv
  BY InitFits
<1>2. StageInv /\ [StageNext]_stageVars => StageInv'
  BY StageStep
<1> QED
  BY <1>1, <1>2, PTL DEF StageSpec
-----------------------------------------------------------------------------
(* The answers.                                                             *)

Verdicts == {"proposal_ready", "no_safe_improvement"}

LEMMA TestedFits ==
    ASSUME StageInv
    PROVE  /\ Tested \subseteq Candidates /\ Tested \subseteq Succeeded
           /\ ToSet(experiments) = Tested
           /\ Summaries(Tested) \subseteq Summaries(Candidates)
           /\ Passing(Tested) \subseteq Summaries(Tested)
           /\ \A s \in Summaries(Tested) :
                 s.variant \in Tested /\ evidence[s.variant].summary = s
<1>1. Tested \subseteq Candidates /\ Tested \subseteq Succeeded
  BY SeenFacts DEF StageInv, Tested, Variants
<1>2. \A s \in Summaries(Tested) : s.variant \in Tested /\ evidence[s.variant].summary = s
  BY <1>1 DEF StageInv, EvidenceFits, ExperimentFits, Summaries
<1> QED
  BY <1>1, <1>2 DEF Summaries, Passing, StageInv, ToolsFit

(* A verdict was reached as the planner reaches it.                         *)
LEMMA VerdictsFit ==
    ASSUME StageInv, terminal # Null, terminal.outcome \in Verdicts
    PROVE  \/ /\ Passing(Tested) # {}
              /\ terminal = Finish("proposal_ready", Best(Passing(Tested)).variant)
           \/ /\ Passing(Tested) = {} /\ Tested = Candidates
              /\ terminal = Finish("no_safe_improvement", Null)
<1>1. \A x : /\ Finish("inconclusive", x).outcome = "inconclusive"
             /\ Finish("failed", x).outcome = "failed"
  BY DEF Finish
<1>2. terminal \in Conclusions
  BY <1>1 DEF StageInv, TerminalFits, Verdicts
<1> QED
  BY <1>2 DEF Conclusions

LEMMA ExperimentsAreComplete ==
    ASSUME StageInv, Tested # {}
    PROVE  EvidenceComplete
<1>1. ToolsFit /\ PlacesFit
  BY DEF StageInv
<1>2. PICK r \in 1..LastRevision : pins = {r} /\ BaselineKept(r)
  BY <1>1 DEF ToolsFit
<1>3. Cardinality(pins) = 1
  BY <1>2, FS_Singleton
<1>4. experiments # <<>>
  BY <1>1 DEF ToolsFit, ToSet
<1>5. BaselineRuns = {Name("run", "baseline", r)}
  BY <1>2 DEF BaselineRuns
<1>6. \A k \in Kinds, v \in Variants : [Name("run", v, r) EXCEPT !.kind = k] = Name(k, v, r)
  BY DEF Name
<1>7. \A run \in BaselineRuns : run \in cached /\ Documented("diagnosis", run)
  <2>1. [Name("run", "baseline", r) EXCEPT !.kind = "diagnosis"]
           = Name("diagnosis", "baseline", r)
    BY <1>6 DEF Kinds, Variants
  <2> QED
    BY <1>2, <1>5, <2>1 DEF BaselineKept, Documented
<1>8. ASSUME NEW v \in ToSet(experiments)
      PROVE  /\ Cardinality(CachedRuns(v)) = 1
             /\ \A run \in CachedRuns(v) :
                    Documented("diagnosis", run) /\ Documented("comparison", run)
  <2>1. v \in Tested /\ v \in Candidates /\ v \in Variants
    BY TestedFits DEF Variants
  <2>2. ExperimentKept(v, r)
    BY <1>1, <1>2, <2>1 DEF ToolsFit
  <2>3. CachedRuns(v) = {Name("run", v, r)}
    <3>1. ASSUME NEW a \in CachedRuns(v) PROVE a = Name("run", v, r)
      <4>1. a \in cached /\ a \in Artifact /\ a.kind = "run" /\ a.variant = v
        BY <1>1 DEF CachedRuns, PlacesFit
      <4>2. a.revision = r
        BY <1>1, <1>2, <2>1, <4>1 DEF ToolsFit
      <4> QED
        BY <4>1, <4>2 DEF Artifact, Name
    <3>2. Name("run", v, r) \in CachedRuns(v)
      BY <2>2 DEF ExperimentKept, Kinds, CachedRuns, Name
    <3> QED
      BY <3>1, <3>2
  <2>4. Cardinality(CachedRuns(v)) = 1
    BY <2>3, FS_Singleton
  <2>5. /\ [Name("run", v, r) EXCEPT !.kind = "diagnosis"] = Name("diagnosis", v, r)
        /\ [Name("run", v, r) EXCEPT !.kind = "comparison"] = Name("comparison", v, r)
    BY <1>6, <2>1 DEF Kinds
  <2>6. Name("diagnosis", v, r) \in cached /\ Name("comparison", v, r) \in cached
    BY <2>2 DEF ExperimentKept, Kinds
  <2> QED
    BY <2>3, <2>4, <2>5, <2>6 DEF Documented
<1> QED
  BY <1>3, <1>4, <1>7, <1>8 DEF EvidenceComplete

(* So a verdict is answered, with the tested candidate it selects.          *)
LEMMA VerdictsAreAnswered ==
    ASSUME StageInv, terminal # Null, terminal.outcome \in Verdicts
    PROVE  /\ Response = Answer(terminal.outcome, Tested, SelectedVariant)
           /\ SelectedVariant \in Tested
<1>1. \/ /\ Passing(Tested) # {}
         /\ terminal = Finish("proposal_ready", Best(Passing(Tested)).variant)
      \/ /\ Passing(Tested) = {} /\ Tested = Candidates
         /\ terminal = Finish("no_safe_improvement", Null)
  BY VerdictsFit
<1>2. EvidenceFits /\ ToSet(experiments) = Tested
  BY TestedFits DEF StageInv
<1>3. Tested # {}
  BY <1>1, TestedFits DEF Candidates, Summaries
<1>4. EvidenceComplete
  BY <1>3, ExperimentsAreComplete
<1>5. TerminalConsistent /\ SelectedVariant \in Tested
  <2>1. CASE /\ Passing(Tested) # {}
             /\ terminal = Finish("proposal_ready", Best(Passing(Tested)).variant)
    <3> DEFINE b == Best(Passing(Tested))
    <3>1. b \in Passing(Tested)
      BY <1>2, <2>1, BestExists, TestedFits
    <3>2. terminal.outcome = "proposal_ready" /\ terminal.selected = b.variant
          /\ terminal.refs = Succeeded
      BY <2>1 DEF Finish
    <3> HIDE DEF b
    <3>3. b.variant \in Tested /\ evidence[b.variant].summary = b /\ b.passed
      BY <3>1, TestedFits DEF Passing
    <3>4. SelectedVariant = b.variant
      BY <3>2 DEF SelectedVariant
    <3> QED
      BY <1>2, <3>2, <3>3, <3>4, TestedFits DEF TerminalConsistent
  <2>2. CASE /\ Passing(Tested) = {}
             /\ terminal = Finish("no_safe_improvement", Null)
    <3>1. terminal.outcome = "no_safe_improvement"
      BY <2>2 DEF Finish
    <3>2. Summaries(Tested) # {}
      BY <1>3 DEF Summaries
    <3>3. Best(Summaries(Tested)) \in Summaries(Tested)
      BY <1>2, <3>2, BestExists, TestedFits
    <3>4. SelectedVariant = Best(Summaries(Tested)).variant
      BY <1>2, <3>1 DEF SelectedVariant
    <3> QED
      BY <1>2, <2>2, <3>1, <3>3, <3>4, TestedFits DEF TerminalConsistent
  <2> QED
    BY <1>1, <2>1, <2>2
<1> QED
  BY <1>2, <1>4, <1>5 DEF Response, Verdicts

LEMMA OthersAreNot ==
    ASSUME StageInv, terminal # Null, terminal.outcome \notin Verdicts
    PROVE  Response = NoAnswer("incomplete")
BY DEF Response, Verdicts

LEMMA Answers ==
    ASSUME StageInv
    PROVE  AnswersAgree
<1>1. ASSUME response # Null
      PROVE  /\ terminal # Null /\ response = Response
             /\ Answered <=> terminal.outcome \in Verdicts
  <2>1. terminal # Null /\ response = Response
    BY <1>1 DEF StageInv, ResponseFits
  <2>2. CASE terminal.outcome \in Verdicts
    <3>1. response.status = terminal.outcome
      BY <2>1, <2>2, VerdictsAreAnswered DEF Answer
    <3> QED
      BY <1>1, <2>1, <2>2, <3>1 DEF Answered, Verdicts
  <2>3. CASE terminal.outcome \notin Verdicts
    <3>1. response.status = "incomplete"
      BY <2>1, <2>3, OthersAreNot DEF NoAnswer
    <3> QED
      BY <2>1, <2>3, <3>1 DEF Answered
  <2> QED
    BY <2>2, <2>3, <2>1
<1>2. ASSUME Answered
      PROVE  /\ response.status = DirectAnswer.status
             /\ ToSet(experiments) = Candidates => response = DirectAnswer
  <2>1. response # Null
    BY <1>2 DEF Answered
  <2>2. terminal # Null /\ terminal.outcome \in Verdicts /\ response = Response
    BY <1>1, <1>2, <2>1
  <2>3. response = Answer(terminal.outcome, Tested, SelectedVariant)
    BY <2>2, VerdictsAreAnswered
  <2>4. response.status = terminal.outcome
    BY <2>3 DEF Answer
  <2>5. EvidenceFits /\ ToSet(experiments) = Tested
    BY TestedFits DEF StageInv
  <2> DEFINE pool == IF Passing(Candidates) # {} THEN Passing(Candidates)
                     ELSE Summaries(Candidates)
             best == Best(pool)
  <2>6. DirectAnswer = Answer(IF best.passed THEN "proposal_ready" ELSE "no_safe_improvement",
                              Candidates, best.variant)
    BY DEF DirectAnswer
  <2>7. best \in pool
    <3>1. pool \subseteq Summaries(Candidates) /\ pool # {}
      BY DEF Passing, Summaries, Candidates
    <3> HIDE DEF pool
    <3> QED
      BY <2>5, <3>1, BestExists
  <2>8. DirectAnswer.status = IF best.passed THEN "proposal_ready" ELSE "no_safe_improvement"
    BY <2>6 DEF Answer
  <2>9. CASE /\ Passing(Tested) # {}
             /\ terminal = Finish("proposal_ready", Best(Passing(Tested)).variant)
    <3>1. Passing(Candidates) # {}
      BY <2>9, TestedFits DEF Passing, Summaries
    <3>2. best.passed /\ best = Best(Passing(Candidates))
      BY <2>7, <3>1 DEF Passing
    <3>3. terminal.outcome = "proposal_ready"
          /\ SelectedVariant = Best(Passing(Tested)).variant
      BY <2>9 DEF Finish, SelectedVariant
    <3> HIDE DEF best
    <3> QED
      BY <2>3, <2>4, <2>5, <2>6, <2>8, <3>2, <3>3
  <2>10. CASE /\ Passing(Tested) = {} /\ Tested = Candidates
              /\ terminal = Finish("no_safe_improvement", Null)
    <3>1. pool = Summaries(Candidates)
      BY <2>10
    <3>2. ~ best.passed
      BY <2>7, <2>10, <3>1 DEF Passing
    <3>3. terminal.outcome = "no_safe_improvement"
          /\ SelectedVariant = Best(Summaries(Tested)).variant
      BY <2>5, <2>10 DEF Finish, SelectedVariant
    <3>4. best = Best(Summaries(Tested))
      BY <2>10, <3>1
    <3> HIDE DEF best
    <3> QED
      BY <2>3, <2>4, <2>5, <2>6, <2>8, <2>10, <3>2, <3>3, <3>4
  <2> QED
    BY <2>2, <2>9, <2>10, VerdictsFit
<1>3. CompletedAnalysesAnswer
  BY <1>1 DEF CompletedAnalysesAnswer, Verdicts
<1> QED
  BY <1>2, <1>3 DEF AnswersAgree
-----------------------------------------------------------------------------
(* The examples.                                                            *)

Example == [variant : Candidates, query : Nat, delta : Int]

LEMMA ChangedQueriesFit ==
    ASSUME EvidenceFits, NEW T \in SUBSET Candidates
    PROVE  /\ IsFiniteSet(ChangedQueries(T))
           /\ \A e \in ChangedQueries(T) :
                /\ e \in Example /\ e.variant \in T /\ e.delta # 0
                /\ e = ShownChange(e.variant, e.query)
<1> DEFINE of(v)     == [q \in DOMAIN evidence[v].changes |-> ShownChange(v, q)]
           shown(v)  == {of(v)[q] : q \in DOMAIN evidence[v].changes}
<1>1. ASSUME NEW v \in Candidates
      PROVE  \E n \in Nat : evidence[v].changes \in [1 .. n -> Int]
  BY DEF EvidenceFits, ExperimentFits
<1>2. \A v \in Candidates : IsFiniteSet(shown(v))
  <2> SUFFICES ASSUME NEW v \in Candidates PROVE IsFiniteSet(shown(v))
    OBVIOUS
  <2>1. IsFiniteSet(DOMAIN evidence[v].changes)
    <3>1. PICK n \in Nat : evidence[v].changes \in [1 .. n -> Int]
      BY <1>1
    <3> QED
      BY <3>1, FS_Interval
  <2> HIDE DEF of
  <2> QED
    BY <2>1, ImageIsFinite
<1>3. IsFiniteSet(ChangedQueries(T))
  <2> DEFINE all == (shown("uniform") \cup shown("conservative")) \cup shown("aggressive")
  <2>1. \A e \in ChangedQueries(T) : \E v \in T : \E q \in DOMAIN evidence[v].changes :
            e = ShownChange(v, q)
    BY DEF ChangedQueries
  <2>2. ChangedQueries(T) \subseteq all
    BY <2>1 DEF Candidates
  <2>3. IsFiniteSet(shown("uniform")) /\ IsFiniteSet(shown("conservative"))
        /\ IsFiniteSet(shown("aggressive"))
    BY <1>2 DEF Candidates
  <2> HIDE DEF shown
  <2>4. IsFiniteSet(all)
    BY <2>3, FS_Union
  <2> QED
    BY <2>2, <2>4, FS_Subset
<1>4. ASSUME NEW e \in ChangedQueries(T)
      PROVE  /\ e \in Example /\ e.variant \in T /\ e.delta # 0
             /\ e = ShownChange(e.variant, e.query)
  <2>1. PICK v \in T : \E q \in DOMAIN evidence[v].changes : e = ShownChange(v, q)
    BY DEF ChangedQueries
  <2>2. PICK q \in DOMAIN evidence[v].changes : e = ShownChange(v, q)
    BY <2>1
  <2>3. v \in Candidates /\ q \in Nat /\ evidence[v].changes[q] \in Int
    <3>1. PICK n \in Nat : evidence[v].changes \in [1 .. n -> Int]
      BY <1>1
    <3> QED
      BY <2>2, <3>1
  <2>4. e.variant = v /\ e.query = q /\ e.delta = evidence[v].changes[q]
    BY <2>2 DEF ShownChange
  <2>5. e \in Example
    BY <2>2, <2>3 DEF ShownChange, Example
  <2>6. e.delta # 0
    BY DEF ChangedQueries
  <2> QED
    BY <2>2, <2>4, <2>5, <2>6
<1> QED
  BY <1>3, <1>4

LEMMA PreferencesAreKeys ==
    ASSUME EvidenceFits, NEW e \in Example, NEW x
    PROVE  /\ Preference(e, x) \in [1 .. 4 -> Int]
           /\ Preference(e, x)[4] = NameOrder[e.variant]
           /\ Magnitude(e) \in Int
           /\ DisplayOrder(e) \in [1 .. 3 -> Int]
<1>1. e.variant \in Candidates /\ e.query \in Nat /\ e.delta \in Int
  BY DEF Example
<1>2. Magnitude(e) \in Int /\ -Magnitude(e) \in Int
  BY <1>1 DEF Magnitude
<1>3. NameOrder[e.variant] \in Int
  BY <1>1 DEF NameOrder, Candidates
<1>4. Preference(e, x) \in [1 .. 4 -> Int] /\ Preference(e, x)[4] = NameOrder[e.variant]
  BY <1>2, <1>3 DEF Preference
<1>5. DisplayOrder(e) \in [1 .. 3 -> Int]
  BY <1>1, <1>2 DEF DisplayOrder
<1> QED
  BY <1>2, <1>4, <1>5

(* Of every direction of a query one example is preferred, and only one.    *)
LEMMA OneIsPreferred ==
    ASSUME EvidenceFits, NEW T \in SUBSET Candidates, NEW x
    PROVE  /\ Preferred(T, x) \subseteq ChangedQueries(T)
           /\ \A e \in ChangedQueries(T) : \E p \in Preferred(T, x) : SameCase(p, e)
           /\ \A p, q \in Preferred(T, x) : SameCase(p, q) => p = q
<1> DEFINE C == ChangedQueries(T)
<1>1. /\ IsFiniteSet(C)
      /\ \A e \in C : /\ e \in Example /\ e.variant \in T /\ e.delta # 0
                      /\ e = ShownChange(e.variant, e.query)
  BY ChangedQueriesFit
<1>2. Preferred(T, x) = {e \in C : \A d \in C :
          SameCase(d, e) => ~ Precedes(Preference(d, x), Preference(e, x))}
  BY DEF Preferred
<1> HIDE DEF C
<1>3. \A e \in C : Preference(e, x) \in [1 .. 4 -> Int]
  BY <1>1, PreferencesAreKeys
<1>4. ASSUME NEW d \in C, NEW e \in C, SameCase(d, e), d # e
      PROVE  Preference(d, x) # Preference(e, x)
  <2>1. d.query = e.query
    BY <1>4 DEF SameCase
  <2>2. d.variant # e.variant
    BY <1>1, <1>4, <2>1
  <2>3. NameOrder[d.variant] # NameOrder[e.variant]
    <3>1. d.variant \in Candidates /\ e.variant \in Candidates
      BY <1>1
    <3> QED
      BY <2>2, <3>1 DEF NameOrder, Candidates
  <2> QED
    BY <1>1, <2>3, PreferencesAreKeys
<1>5. ASSUME NEW e \in C PROVE \E p \in Preferred(T, x) : SameCase(p, e)
  <2> DEFINE S == {d \in C : SameCase(d, e)}
             R == {p \in S \X S : Precedes(Preference(p[1], x), Preference(p[2], x))}
  <2>1. IsFiniteSet(S) /\ e \in S
    BY <1>1, FS_Subset DEF SameCase
  <2>2. \A a, b \in S : <<a, b>> \in R <=> Precedes(Preference(a, x), Preference(b, x))
    OBVIOUS
  <2>3. \A a, b \in C : SameCase(a, e) /\ SameCase(b, e) => SameCase(a, b)
    BY DEF SameCase
  <2>4. \A a, b, c \in C : SameCase(a, b) /\ SameCase(b, c) => SameCase(a, c)
    BY DEF SameCase
  <2>5. \A a \in S : a \in C /\ SameCase(a, e)
    OBVIOUS
  <2>6. \A a \in C : SameCase(a, e) => a \in S
    OBVIOUS
  <2> HIDE DEF R, S
  <2>7. Total(S, R)
    <3>1. \A a, b \in S : a # b => <<a, b>> \in R \/ <<b, a>> \in R
      BY <1>3, <1>4, <2>2, <2>3, <2>5, KeysAreOrdered
    <3>2. \A a, b, c \in S : <<a, b>> \in R /\ <<b, c>> \in R => <<a, c>> \in R
      BY <1>3, <2>2, <2>5, KeysAreTransitive
    <3> QED
      BY <3>1, <3>2 DEF Total
  <2>8. PICK p \in S : \A b \in S \ {p} : <<p, b>> \in R
    BY <2>1, <2>7, FirstExists DEF HasFirst
  <2>9. ASSUME NEW d \in C, SameCase(d, p), Precedes(Preference(d, x), Preference(p, x))
        PROVE  FALSE
    <3>1. d \in S
      BY <2>4, <2>5, <2>6, <2>9
    <3>2. CASE d = p
      BY <1>3, <2>9, <3>2, KeysAreStrict
    <3>3. CASE d # p
      <4>1. Precedes(Preference(p, x), Preference(d, x))
        BY <2>2, <2>8, <3>1, <3>3
      <4> QED
        BY <1>3, <2>5, <2>9, <4>1, KeysAreStrict
    <3> QED
      BY <3>2, <3>3
  <2> QED
    BY <1>2, <2>5, <2>9
<1>6. ASSUME NEW p \in Preferred(T, x), NEW q \in Preferred(T, x), SameCase(p, q), p # q
      PROVE  FALSE
  <2>1. p \in C /\ q \in C /\ SameCase(q, p)
    BY <1>2, <1>6 DEF SameCase
  <2>2. ~ Precedes(Preference(p, x), Preference(q, x))
        /\ ~ Precedes(Preference(q, x), Preference(p, x))
    BY <1>2, <1>6, <2>1
  <2> QED
    BY <1>3, <1>4, <1>6, <2>1, <2>2, KeysAreOrdered
<1> QED
  BY <1>2, <1>5, <1>6 DEF C

(* Some preferred examples, as they are shown: each once, in an order.      *)
LEMMA DisplayedFits ==
    ASSUME EvidenceFits, NEW T \in SUBSET Candidates, NEW x,
           NEW S \in SUBSET Preferred(T, x)
    PROVE  /\ IsFiniteSet(S) /\ Cardinality(S) \in Nat
           /\ Displayed(S) \in [1 .. Cardinality(S) -> S]
           /\ \A e \in S : \E i \in 1 .. Cardinality(S) : Displayed(S)[i] = e
           /\ \A i, j \in 1 .. Cardinality(S) : i # j =>
                 ~ SameCase(Displayed(S)[i], Displayed(S)[j])
<1> DEFINE R == {p \in S \X S : p[1] = p[2] \/ Precedes(DisplayOrder(p[1]), DisplayOrder(p[2]))}
           n == Cardinality(S)
           list == Displayed(S)
<1>1. S \subseteq ChangedQueries(T)
  BY OneIsPreferred
<1>2. IsFiniteSet(S) /\ n \in Nat
  BY <1>1, ChangedQueriesFit, FS_Subset, FS_CardinalityType
<1>3. \A e \in S : e \in Example /\ e.delta \in Int /\ e.delta # 0 /\ e.query \in Nat
  BY <1>1, ChangedQueriesFit DEF Example
<1>4. \A e \in S : DisplayOrder(e) \in [1 .. 3 -> Int]
  BY <1>3, PreferencesAreKeys
<1>5. \A d, e \in S : DisplayOrder(d) = DisplayOrder(e) => d = e
  <2> SUFFICES ASSUME NEW d \in S, NEW e \in S, DisplayOrder(d) = DisplayOrder(e)
               PROVE  SameCase(d, e)
    BY OneIsPreferred
  <2>1. /\ (IF d.delta > 0 THEN 0 ELSE 1) = (IF e.delta > 0 THEN 0 ELSE 1)
        /\ d.query = e.query
    BY DEF DisplayOrder
  <2> QED
    BY <2>1 DEF SameCase
<1>6. \A a, b \in S : <<a, b>> \in R <=> a = b \/ Precedes(DisplayOrder(a), DisplayOrder(b))
  OBVIOUS
<1>7. list = Listed(S, R)
  BY DEF Displayed
<1> HIDE DEF R
<1>8. Linear(S, R)
  <2>1. \A a, b \in S : a # b => <<a, b>> \in R \/ <<b, a>> \in R
    BY <1>4, <1>5, <1>6, KeysAreOrdered
  <2>2. \A a, b, c \in S : <<a, b>> \in R /\ <<b, c>> \in R => <<a, c>> \in R
    BY <1>4, <1>6, KeysAreTransitive
  <2>3. \A a \in S : <<a, a>> \in R
    BY <1>6
  <2>4. \A a, b \in S : <<a, b>> \in R /\ <<b, a>> \in R => a = b
    BY <1>4, <1>6, KeysAreStrict
  <2> QED
    BY <2>1, <2>2, <2>3, <2>4 DEF Linear, Total
<1>9. /\ list \in [1 .. n -> S]
      /\ \A e \in S : \E i \in 1 .. n : list[i] = e
      /\ \A i, j \in 1 .. n : i < j => list[i] # list[j]
  <2> DEFINE sorted == Listed(S, R)
  <2>1. /\ sorted \in [1 .. n -> S]
        /\ \A e \in S : \E i \in 1 .. n : sorted[i] = e
        /\ \A i, j \in 1 .. n : i < j => <<sorted[i], sorted[j]>> \in R /\ sorted[i] # sorted[j]
    BY <1>2, <1>8, ListedInOrder
  <2> HIDE DEF sorted, n, list
  <2> QED
    BY <1>7, <2>1 DEF sorted
<1> HIDE DEF n, list
<1>10. ASSUME NEW i \in 1 .. n, NEW j \in 1 .. n, i # j
       PROVE  ~ SameCase(list[i], list[j])
  <2>1. list[i] # list[j] /\ list[i] \in Preferred(T, x) /\ list[j] \in Preferred(T, x)
    <3>1. i < j \/ j < i
      BY <1>2, <1>10
    <3> QED
      BY <1>9, <3>1
  <2> QED
    BY <2>1, OneIsPreferred
<1> QED
  BY <1>2, <1>9, <1>10 DEF n, list

(* What is shown of the changed queries.                                    *)
Fair(shown, T) ==
    /\ shown \in Seq(Example)
    /\ \A e \in ChangedQueries(T) : \E d \in ToSet(shown) : d.delta > 0 <=> e.delta > 0
    /\ \A i, j \in DOMAIN shown : i # j => ~ SameCase(shown[i], shown[j])
    /\ Len(shown) <= ExampleLimit

LEMMA ExamplesAreFair ==
    ASSUME EvidenceFits, NEW T \in SUBSET Candidates, NEW x
    PROVE  Fair(Examples(T, x), T)
<1> DEFINE P       == Preferred(T, x)
           changed == Displayed(P)
           shown   == Cut(changed, ExampleLimit)
           n       == Cardinality(P)
           m       == IF ExampleLimit <= n THEN ExampleLimit ELSE n
           missing == {i \in DOMAIN changed :
                          \A d \in ToSet(shown) : (d.delta > 0) # (changed[i].delta > 0)}
<1>1. /\ P \in SUBSET P /\ n \in Nat /\ IsFiniteSet(P) /\ changed \in [1 .. n -> P]
      /\ \A e \in P : \E i \in 1 .. n : changed[i] = e
      /\ \A i, j \in 1 .. n : i # j => ~ SameCase(changed[i], changed[j])
  <2>1. P \in SUBSET Preferred(T, x)
    OBVIOUS
  <2> HIDE DEF P
  <2>2. /\ IsFiniteSet(P) /\ Cardinality(P) \in Nat
        /\ Displayed(P) \in [1 .. Cardinality(P) -> P]
        /\ \A e \in P : \E i \in 1 .. Cardinality(P) : Displayed(P)[i] = e
        /\ \A i, j \in 1 .. Cardinality(P) : i # j =>
              ~ SameCase(Displayed(P)[i], Displayed(P)[j])
    BY <2>1, DisplayedFits, Zenon
  <2>3. P \in SUBSET P
    OBVIOUS
  <2> QED
    BY <2>2, <2>3, Zenon
<1>2. \A e \in P : e \in ChangedQueries(T) /\ e \in Example
  BY OneIsPreferred, ChangedQueriesFit
<1>3. \A e \in ChangedQueries(T) : \E p \in P : SameCase(p, e)
  BY OneIsPreferred
<1>4. ExampleLimit \in Nat /\ ExampleLimit >= 2
  BY AnalysisAssumption
<1>5. Examples(T, x) = IF missing = {} THEN shown
                       ELSE Displayed(ToSet(Front(shown)) \cup {changed[Min(missing)]})
  BY DEF Examples
<1> HIDE DEF P, changed, n
<1>6. /\ m \in Nat /\ m <= n /\ m <= ExampleLimit
      /\ shown = [i \in 1 .. m |-> changed[i]] /\ shown \in [1 .. m -> P]
  <2>1. shown = [i \in 1 .. m |-> changed[i]] /\ shown \in [1 .. m -> P]
    <3>1. n \in Nat /\ changed \in [1 .. n -> P] /\ ExampleLimit \in Nat
      BY <1>1, <1>4
    <3>2. /\ m \in Nat /\ Cut(changed, ExampleLimit) = [i \in 1 .. m |-> changed[i]]
          /\ Cut(changed, ExampleLimit) \in [1 .. m -> P]
      BY <3>1, CutIsPrefix
    <3> QED
      BY <3>2, Zenon
  <2>2. m \in Nat /\ m <= n /\ m <= ExampleLimit
    BY <1>1, <1>4
  <2> QED
    BY <2>1, <2>2
<1>7. ToSet(shown) = {changed[i] : i \in 1 .. m} /\ Len(shown) = m /\ DOMAIN shown = 1 .. m
  <2>1. DOMAIN shown = 1 .. m /\ \A i \in 1 .. m : shown[i] = changed[i]
    BY <1>6
  <2>2. Len(shown) = m
    BY <1>6
  <2> HIDE DEF shown, m
  <2> QED
    BY <2>1, <2>2 DEF ToSet
<1> HIDE DEF shown
<1>8. CASE missing = {}
  <2>1. Examples(T, x) = shown
    BY <1>5, <1>8
  <2>2. shown \in Seq(Example)
    BY <1>2, <1>6
  <2>3. ASSUME NEW e \in ChangedQueries(T)
        PROVE  \E d \in ToSet(shown) : d.delta > 0 <=> e.delta > 0
    <3>1. PICK p \in P : SameCase(p, e)
      BY <1>3
    <3>2. PICK i \in 1 .. n : changed[i] = p
      BY <1>1
    <3>3. i \in DOMAIN changed /\ i \notin missing
      BY <1>1, <1>8
    <3>4. PICK d \in ToSet(shown) : ~ ((d.delta > 0) # (changed[i].delta > 0))
      BY <3>3
    <3> QED
      BY <3>1, <3>2, <3>4 DEF SameCase
  <2>4. \A i, j \in DOMAIN shown : i # j => ~ SameCase(shown[i], shown[j])
    BY <1>1, <1>6, <1>7
  <2> QED
    BY <1>6, <1>7, <2>1, <2>2, <2>3, <2>4 DEF Fair
<1>9. CASE missing # {}
  <2> DEFINE k     == Min(missing)
             y     == changed[k]
             front == ToSet(Front(shown))
             D     == front \cup {y}
  <2>1. k \in missing
    <3>1. missing \subseteq 1 .. n
      BY <1>1
    <3>2. IsFiniteSet(missing)
      BY <1>1, <3>1, FS_Interval, FS_Subset
    <3>3. missing \subseteq Int
      BY <3>1
    <3> HIDE DEF missing
    <3> QED
      BY <1>9, <3>2, <3>3, SmallestExists
  <2>2. k \in 1 .. n /\ \A d \in ToSet(shown) : (d.delta > 0) # (y.delta > 0)
    BY <1>1, <2>1
  <2> HIDE DEF missing, k
  <2>3. y \in P /\ y \notin ToSet(shown)
    BY <1>1, <2>2
  <2> HIDE DEF y
  <2>4. m = ExampleLimit
    <3> SUFFICES ASSUME m = n PROVE FALSE
      OBVIOUS
    <3>1. y \in ToSet(shown)
      BY <1>7, <2>2 DEF y
    <3> QED
      BY <2>3, <3>1
  <2> HIDE DEF m
  <2>5. m - 1 \in Nat /\ 1 \in 1 .. (m - 1) /\ 1 \in 1 .. m
    BY <1>4, <2>4
  <2>6. Front(shown) = [i \in 1 .. (m - 1) |-> shown[i]]
    <3>1. shown \in Seq(P)
      BY <1>6
    <3>2. Front(shown) = SubSeq(shown, 1, m - 1)
      BY <1>7 DEF Front
    <3> QED
      BY <1>7, <2>5, <3>1, <3>2
  <2>7. front = {shown[i] : i \in 1 .. (m - 1)}
    BY <2>6 DEF ToSet
  <2>8. front \subseteq ToSet(shown) /\ ToSet(shown) \subseteq P /\ shown[1] \in front
    <3>1. \A i \in 1 .. (m - 1) : i \in 1 .. m
      <4>1. m \in Nat
        BY <1>6
      <4> HIDE DEF shown, front
      <4> QED
        BY <4>1
    <3>2. ToSet(shown) = {shown[i] : i \in 1 .. m}
      BY <1>7 DEF ToSet
    <3>3. \A i \in 1 .. m : shown[i] \in P
      BY <1>6
    <3> HIDE DEF front
    <3> QED
      BY <2>5, <2>7, <3>1, <3>2, <3>3
  <2>9. IsFiniteSet(front) /\ Cardinality(front) \in Nat /\ Cardinality(front) <= m - 1
    <3>1. IsFiniteSet(1 .. (m - 1)) /\ Cardinality(1 .. (m - 1)) = m - 1
      BY <2>5, FS_Interval
    <3> DEFINE f == Front(shown)
    <3>2. f \in Surjection(1 .. (m - 1), front)
      <4>1. DOMAIN f = 1 .. (m - 1) /\ \A i \in 1 .. (m - 1) : f[i] = shown[i]
        BY <2>6
      <4>2. f = [i \in 1 .. (m - 1) |-> f[i]]
        BY <2>6
      <4> HIDE DEF f, front
      <4> QED
        BY <2>7, <4>1, <4>2 DEF Surjection
    <3> HIDE DEF f, front
    <3>3. IsFiniteSet(front) /\ Cardinality(front) <= m - 1
      BY <3>1, <3>2, FS_Surjection
    <3> QED
      BY <3>3, FS_CardinalityType
  <2>10. D \in SUBSET P /\ y \in D /\ front \subseteq D
    BY <2>3, <2>8
  <2>11. Cardinality(D) \in Nat /\ Cardinality(D) <= ExampleLimit
    <3>1. y \notin front
      BY <2>3, <2>8
    <3> HIDE DEF front
    <3>2. Cardinality(D) = Cardinality(front) + 1
      BY <2>9, <3>1, FS_AddElement
    <3> HIDE DEF D
    <3> QED
      BY <1>4, <2>4, <2>9, <3>2
  <2>12. Examples(T, x) = Displayed(D)
    BY <1>5, <1>9 DEF y, k
  <2> HIDE DEF D, front
  <2> DEFINE list == Displayed(D)
             c    == Cardinality(D)
  <2>13. /\ list \in [1 .. c -> D]
         /\ \A e \in D : \E i \in 1 .. c : list[i] = e
         /\ \A i, j \in 1 .. c : i # j => ~ SameCase(list[i], list[j])
    <3>1. D \in SUBSET Preferred(T, x)
      BY <2>10 DEF P
    <3> HIDE DEF P
    <3>2. /\ IsFiniteSet(D) /\ Cardinality(D) \in Nat
          /\ Displayed(D) \in [1 .. Cardinality(D) -> D]
          /\ \A e \in D : \E i \in 1 .. Cardinality(D) : Displayed(D)[i] = e
          /\ \A i, j \in 1 .. Cardinality(D) : i # j =>
                ~ SameCase(Displayed(D)[i], Displayed(D)[j])
      BY <3>1, DisplayedFits, Zenon
    <3> QED
      BY <3>2, Zenon DEF list, c
  <2> HIDE DEF list
  <2>14. list \in Seq(Example) /\ Len(list) = c /\ DOMAIN list = 1 .. c
    <3>1. \A i \in 1 .. c : list[i] \in Example
      BY <1>2, <2>10, <2>13
    <3> QED
      BY <2>11, <2>13, <3>1
  <2>15. D \subseteq ToSet(list)
    BY <2>13 DEF ToSet
  <2>16. ASSUME NEW e \in ChangedQueries(T)
         PROVE  \E d \in ToSet(list) : d.delta > 0 <=> e.delta > 0
    <3>1. (shown[1].delta > 0) # (y.delta > 0)
      BY <2>2, <2>8
    <3>2. (y.delta > 0 <=> e.delta > 0) \/ (shown[1].delta > 0 <=> e.delta > 0)
      BY <3>1
    <3> QED
      BY <2>8, <2>10, <2>15, <3>2
  <2> QED
    BY <2>11, <2>12, <2>13, <2>14, <2>16 DEF Fair, list
<1> QED
  BY <1>8, <1>9

LEMMA AnswersFit ==
    ASSUME StageInv, Answered
    PROVE  /\ terminal # Null /\ terminal.outcome \in Verdicts
           /\ response = Answer(terminal.outcome, Tested, SelectedVariant)
           /\ SelectedVariant \in Tested
<1>1. response # Null /\ AnswersAgree
  BY Answers DEF Answered
<1>2. terminal # Null /\ response = Response
  BY <1>1 DEF StageInv, ResponseFits
<1>3. terminal.outcome \in Verdicts
  BY <1>1 DEF AnswersAgree, CompletedAnalysesAnswer, Verdicts
<1> QED
  BY <1>2, <1>3, VerdictsAreAnswered

LEMMA AnswersAreFair ==
    ASSUME StageInv
    PROVE  ExamplesShowBothSides
<1> SUFFICES ASSUME Answered PROVE ExamplesShowBothSides
  BY DEF ExamplesShowBothSides
<1>1. response.examples = Examples(Tested, SelectedVariant)
  BY AnswersFit DEF Answer
<1>2. Tested \in SUBSET Candidates /\ ToSet(experiments) = Tested /\ EvidenceFits
  BY TestedFits DEF StageInv
<1>3. Fair(response.examples, Tested)
  BY <1>1, <1>2, ExamplesAreFair
<1> QED
  BY <1>2, <1>3 DEF Fair, ExamplesShowBothSides

(* What a run ends with, and what is answered, are of their types.          *)
LEMMA TerminalsFit ==
    ASSUME StageInv, terminal # Null
    PROVE  terminal \in Terminals
<1>1. Tested \subseteq Candidates /\ Succeeded \in SUBSET Variants /\ EvidenceFits
  BY TestedFits, SeenFacts DEF StageInv
<1>2. \/ terminal \in Conclusions
      \/ terminal = Finish("inconclusive", Null) \/ terminal = Finish("failed", Null)
  BY DEF StageInv, TerminalFits
<1>3. CASE terminal.outcome \in Verdicts
  <2>1. CASE /\ Passing(Tested) # {}
             /\ terminal = Finish("proposal_ready", Best(Passing(Tested)).variant)
    <3> DEFINE b == Best(Passing(Tested))
    <3>1. b \in Passing(Tested)
      BY <1>1, <2>1, BestExists, TestedFits
    <3>2. terminal = Finish("proposal_ready", b.variant)
      BY <2>1
    <3> HIDE DEF b
    <3>3. b.variant \in Candidates
      BY <1>1, <3>1, TestedFits
    <3> QED
      BY <1>1, <3>2, <3>3 DEF Finish, Terminals
  <2>2. CASE terminal = Finish("no_safe_improvement", Null)
    BY <1>1, <2>2 DEF Finish, Terminals
  <2> QED
    BY <1>3, <2>1, <2>2, VerdictsFit
<1>4. CASE terminal.outcome \notin Verdicts
  <2>1. terminal \notin Conclusions
    BY <1>4 DEF Conclusions, Finish, Verdicts
  <2> QED
    BY <1>1, <1>2, <2>1 DEF Finish, Terminals
<1> QED
  BY <1>3, <1>4

LEMMA ResponsesFit ==
    ASSUME StageInv, response # Null
    PROVE  response \in Responses
<1>1. terminal # Null /\ response = Response
  BY DEF StageInv, ResponseFits
<1>2. CASE terminal.outcome \in Verdicts
  <2> DEFINE x == SelectedVariant
             shown == Examples(Tested, x)
             s == evidence[x].summary
             decision == IF s.passed THEN "request_owner_review" ELSE "reject_candidate"
  <2>1. /\ response = Answer(terminal.outcome, Tested, x)
        /\ x \in Tested
    BY <1>1, <1>2, VerdictsAreAnswered
  <2>2. Tested \in SUBSET Candidates /\ EvidenceFits
    BY TestedFits DEF StageInv
  <2>3. Fair(shown, Tested)
    BY <2>2, ExamplesAreFair
  <2> HIDE DEF x
  <2>4. s.next \in NextSteps /\ x \in Candidates
    BY <2>1, <2>2 DEF EvidenceFits, ExperimentFits
  <2>5. response = [status |-> terminal.outcome, selected |-> x, decision |-> decision,
                    next |-> s.next, examples |-> shown]
    BY <2>1 DEF Answer
  <2>6. shown \in Seq([variant : Candidates, query : Nat, delta : Int])
    BY <2>3 DEF Fair, Example
  <2>7. decision \in {"request_owner_review", "reject_candidate"}
    OBVIOUS
  <2> HIDE DEF shown, s, decision
  <2> QED
    BY <1>2, <2>4, <2>5, <2>6, <2>7 DEF Verdicts, NextSteps, Responses
<1>3. CASE terminal.outcome \notin Verdicts
  <2>1. response = NoAnswer("incomplete")
    BY <1>1, <1>3, OthersAreNot
  <2>2. <<>> \in Seq([variant : Candidates, query : Nat, delta : Int])
    OBVIOUS
  <2> QED
    BY <2>1, <2>2 DEF NoAnswer, Responses
<1> QED
  BY <1>2, <1>3

(* The states of an analysis are of the types retrieval_tools.py and        *)
(* retrieval_planner.py give them, and the history of observations is one   *)
(* that _analyze_history accepts, from every set of judged pools.           *)
THEOREM StageTypes == StageSpec => []StageTypeOK
<1>1. StageInv => StageTypeOK
  <2> SUFFICES ASSUME StageInv PROVE StageTypeOK
    OBVIOUS
  <2>1. mode \in {"fixed", "adaptive"} /\ seen \in Seq(Observation) /\ Trusted
    BY DEF StageInv, History
  <2>2. /\ head \in 1..LastRevision /\ dirty \in BOOLEAN
        /\ stored \cup altered \cup cached \subseteq Artifact /\ losses \in 0..MaxLosses
    BY DEF StageInv, PlacesFit
  <2>3. ToSet(experiments) \subseteq Candidates /\ IsInjective(experiments)
    BY TestedFits DEF StageInv, ToolsFit
  <2>4. pins \subseteq 1..LastRevision
    BY DEF StageInv, ToolsFit
  <2>5. terminal \in Terminals \cup {Null} /\ (response # Null => response \in Responses)
    BY TerminalsFit, ResponsesFit
  <2> QED
    BY <2>1, <2>2, <2>3, <2>4, <2>5 DEF StageTypeOK
<1> QED
  BY <1>1, StageInvariant, PTL

(* A verdict is always answered (build_analysis_response never raises after *)
(* one), and with the verdict that retrieval_analysis.py gives without an   *)
(* agent: whatever failed and was retried, in whatever order the candidates *)
(* were tested, and whatever happened to the store meanwhile.               *)
THEOREM AnalysesAnswerAlike == StageSpec => []AnswersAgree
<1>1. StageInv => AnswersAgree
  BY Answers
<1> QED
  BY <1>1, StageInvariant, PTL

(* An answer shows a gain and a loss when there are both, each direction of *)
(* a query once, and no more than the limit: what                           *)
(* select_changed_query_examples is for, at every limit above one.          *)
THEOREM AnswersShowBothSides == StageSpec => []ExamplesShowBothSides
<1>1. StageInv => ExamplesShowBothSides
  BY AnswersAreFair
<1> QED
  BY <1>1, StageInvariant, PTL

(* Every run of an analysis has evidence that the harness's own checks      *)
(* accept, and whose counts agree (retrieval_validation.py,                 *)
(* stage_diagnosis.py, retrieval_comparison.py, retrieval_tools.py).        *)
THEOREM EvidenceIsConsistent == StageSpec => []EvidenceAgrees
<1> DEFINE Fits == FiguresAgree(evidence)
<1>1. StageInit => Fits
  <2> SUFFICES ASSUME StageInit PROVE Fits
    OBVIOUS
  <2>1. PICK pools \in Inputs : evidence = Evidence(Runs(pools))
    BY DEF StageInit
  <2> QED
    BY <2>1, EvidenceIsAccepted
<1>2. Fits /\ [StageNext]_stageVars => Fits'
  <2> SUFFICES ASSUME Fits, [StageNext]_stageVars PROVE Fits'
    OBVIOUS
  <2>1. evidence' = evidence
    BY DEF StageNext, CallTool, Call, End, Respond, Surroundings, stageVars
  <2> QED
    BY <2>1
<1>3. Fits => EvidenceAgrees
  BY DEF FiguresAgree, EvidenceAgrees
<1> QED
  BY <1>1, <1>2, <1>3, PTL DEF StageSpec
=============================================================================
