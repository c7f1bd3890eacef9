----------------------- MODULE RetrievalServingProofs -----------------------
(***************************************************************************)
(* That what serves and what a rollback follows is always stored, that no  *)
(* search mixes two releases, and that the pointer is replaced only over   *)
(* the revision its mover had seen: for any number of callers, searchers,  *)
(* proposals and index contents, wherever a write fails or the process     *)
(* stops.                                                                  *)
(***************************************************************************)
EXTENDS RetrievalServing, SequenceTheorems, TLAPS

ActivationWrites == { <<"baseline", "revision", "receipt", "pointer">>,
                      <<"revision", "receipt", "pointer">>,
                      <<"receipt", "pointer">>,
                      <<"pointer">> }
RollbackWrites   == { <<"receipt", "pointer">>, <<"pointer">> }

(* A call that has not ended has a job, and an activation's job is anchored *)
(* to what it has seen; past the load it knows its index.                   *)
JobFits(c) ==
    /\ pc[c] \notin Ended => job[c] \in Job
    /\ pc[c] \in {"load", "sentinel"} => job[c].kind = "activate"
    /\ pc[c] \notin Ended /\ job[c].kind = "activate" =>
          /\ job[c].proposal \in Proposals
          /\ job[c].seen = anchor[job[c].proposal]
          /\ pc[c] # "load" => job[c].index \in Indexes

(* How far an activation that writes has come.                              *)
ActivationWritten(c) ==
    /\ job[c].to = [proposal |-> job[c].proposal, index |-> job[c].index]
    /\ job[c].todo \in ActivationWrites
    /\ job[c].seen = NoRevision /\ Len(job[c].todo) < 4 => Baseline \in revisions
    /\ Len(job[c].todo) < 3 => job[c].to \in revisions

(* A rollback publishes the stored target of the release it takes back.     *)
RollbackWritten(c) ==
    /\ job[c].seen \in Releases
    /\ job[c].to = RollbackTarget(job[c].seen)
    /\ job[c].todo \in RollbackWrites

(* While a call writes, the pointer is still the one it has seen; before    *)
(* its last write, the receipt is stored.                                   *)
WritesInOrder(c) ==
    pc[c] = "write" =>
       /\ pointer = job[c].seen
       /\ job[c].kind = "activate" => ActivationWritten(c)
       /\ job[c].kind = "rollback" => RollbackWritten(c)
       /\ Len(job[c].todo) < 2 => job[c].to \in receipts

ServingInv ==
    /\ TypeOK
    /\ job \in [Callers -> Job \cup {Absent}]
    /\ \A c \in Callers : JobFits(c) /\ WritesInOrder(c)
    /\ ServingResolves
    /\ SearchNeverMixed
-----------------------------------------------------------------------------
(* Lemmas.                                                                  *)

(* What is left of a plan after its first write is again such a plan.       *)
LEMMA PlansShrink ==
    /\ \A t \in ActivationWrites :
          /\ t \in Seq(Writes) /\ Len(t) \in 1 .. 4
          /\ Len(t) = 4 => Head(t) = "baseline"
          /\ Len(t) = 3 => Head(t) = "revision"
          /\ Len(t) = 2 => Head(t) = "receipt"
          /\ Len(t) = 1 => Head(t) = "pointer"
          /\ Len(t) # 1 => Tail(t) \in ActivationWrites
    /\ \A t \in RollbackWrites :
          /\ t \in Seq(Writes) /\ Len(t) \in 1 .. 2
          /\ Len(t) = 2 => Head(t) = "receipt"
          /\ Len(t) = 1 => Head(t) = "pointer"
          /\ Len(t) # 1 => Tail(t) \in RollbackWrites
  BY DEF ActivationWrites, RollbackWrites, Writes

LEMMA PlansAreNotEmpty ==
    /\ \A t \in ActivationWrites : t \in Seq(Writes) /\ Len(t) > 0
    /\ \A t \in RollbackWrites : t \in Seq(Writes) /\ Len(t) > 0
  BY DEF ActivationWrites, RollbackWrites, Writes

(* Whatever is left of a plan, the pointer is its last write.               *)
LEMMA PlansEndWithPointer ==
    /\ \A t \in ActivationWrites : \E i \in 1 .. Len(t) : t[i] = "pointer"
    /\ \A t \in RollbackWrites : \E i \in 1 .. Len(t) : t[i] = "pointer"
<1> DEFINE Ends(t) == \E i \in 1 .. Len(t) : t[i] = "pointer"
<1>1. Ends(<<"baseline", "revision", "receipt", "pointer">>)
  <2> DEFINE t == <<"baseline", "revision", "receipt", "pointer">>
  <2>1. 4 \in 1 .. Len(t) /\ t[4] = "pointer"
    OBVIOUS
  <2> HIDE DEF t
  <2> QED
    BY <2>1
<1>2. Ends(<<"revision", "receipt", "pointer">>)
  <2> DEFINE t == <<"revision", "receipt", "pointer">>
  <2>1. 3 \in 1 .. Len(t) /\ t[3] = "pointer"
    OBVIOUS
  <2> HIDE DEF t
  <2> QED
    BY <2>1
<1>3. Ends(<<"receipt", "pointer">>)
  <2> DEFINE t == <<"receipt", "pointer">>
  <2>1. 2 \in 1 .. Len(t) /\ t[2] = "pointer"
    OBVIOUS
  <2> HIDE DEF t
  <2> QED
    BY <2>1
<1>4. Ends(<<"pointer">>)
  OBVIOUS
<1> HIDE DEF Ends
<1>5. (\A t \in ActivationWrites : Ends(t)) /\ (\A t \in RollbackWrites : Ends(t))
  BY <1>1, <1>2, <1>3, <1>4 DEF ActivationWrites, RollbackWrites
<1> QED
  BY <1>5 DEF Ends

LEMMA TailsShorter ==
    \A t \in Seq(Writes) : Len(t) > 0 => /\ Tail(t) \in Seq(Writes)
                                        /\ Len(Tail(t)) = Len(t) - 1
  OBVIOUS

(* The plan of an activation, with and without the baseline.                *)
LEMMA ActivationPlan ==
    /\ <<"baseline">> \o <<"revision", "receipt", "pointer">>
          = <<"baseline", "revision", "receipt", "pointer">>
    /\ << >> \o <<"revision", "receipt", "pointer">>
          = <<"revision", "receipt", "pointer">>
<1> DEFINE rest == <<"revision", "receipt", "pointer">>
           long == <<"baseline", "revision", "receipt", "pointer">>
<1>1. <<"baseline">> \o rest = long
  <2>1. rest \in Seq(Writes) /\ long \in Seq(Writes) /\ <<"baseline">> \in Seq(Writes)
    BY DEF Writes
  <2>2. Len(rest) = 3 /\ Len(long) = 4 /\ Len(<<"baseline">>) = 1
    OBVIOUS
  <2>3. /\ <<"baseline">> \o rest \in Seq(Writes)
        /\ Len(<<"baseline">> \o rest) = 4
    BY <2>1, <2>2, ConcatProperties
  <2>4. \A i \in 1 .. 4 : (<<"baseline">> \o rest)[i]
                               = IF i <= 1 THEN <<"baseline">>[i] ELSE rest[i - 1]
    BY <2>1, <2>2, ConcatProperties
  <2>5. \A i \in 1 .. 4 : (<<"baseline">> \o rest)[i] = long[i]
    BY <2>4
  <2> HIDE DEF rest, long
  <2> QED
    BY <2>1, <2>2, <2>3, <2>5, SeqEqual
<1>2. << >> \o rest = rest
  <2>1. rest \in Seq(Writes)
    BY DEF Writes
  <2> HIDE DEF rest
  <2> QED
    BY <2>1, ConcatEmptySeq
<1> QED
  BY <1>1, <1>2

(* In the critical section of .serving.lock there is one call.              *)
LEMMA OneWriter ==
    ASSUME TypeOK, NEW c \in Callers, NEW d \in Callers,
           pc[c] \in {"locked", "write", "sync"},
           pc[d] \in {"locked", "write", "sync"}
    PROVE  c = d
  BY DEF TypeOK

LEMMA InitHolds == Init => ServingInv
  BY ServingAssumption
  DEF Init, ServingInv, TypeOK, JobFits, WritesInOrder, ServingResolves,
      SearchNeverMixed, Ended, Steps, Pointers, Revisions, NoQuery

(* What a call has planned when its checks passed.                          *)
Planned(c, to, todo) ==
    /\ job' = [job EXCEPT ![c] = [job[c] EXCEPT !.to = to, !.todo = todo]]
    /\ pc' = [pc EXCEPT ![c] = "write"]
    /\ pointer = job[c].seen
    /\ job[c].kind = "activate" =>
          /\ to = [proposal |-> job[c].proposal, index |-> job[c].index]
          /\ todo \in ActivationWrites /\ ~ (Len(todo) < 3)
          /\ job[c].seen = NoRevision => ~ (Len(todo) < 4)
    /\ job[c].kind = "rollback" =>
          /\ job[c].seen \in Releases
          /\ to = RollbackTarget(job[c].seen)
          /\ todo \in RollbackWrites
    /\ ~ (Len(todo) < 2)

LEMMA Plans ==
    ASSUME ServingInv, NEW c \in Callers, pc[c] = "locked",
           \/ job[c].kind = "activate" /\ PlanActivation(c)
           \/ job[c].kind = "rollback" /\ PlanRollback(c)
    PROVE  \E to \in Revisions, todo \in Seq(Writes) :
              /\ Planned(c, to, todo)
              /\ job[c] \in Job
              /\ [job[c] EXCEPT !.to = to, !.todo = todo] \in Job
<1>1. job[c] \in Job
  BY DEF ServingInv, JobFits, Ended
<1>2. \A to \in Revisions, todo \in Seq(Writes) :
         [job[c] EXCEPT !.to = to, !.todo = todo] \in Job
  BY <1>1 DEF Job
<1> USE DEF ServingInv, TypeOK
<1>3. CASE job[c].kind = "activate" /\ PlanActivation(c)
  <2> DEFINE r == [proposal |-> job[c].proposal, index |-> job[c].index]
  <2>1. r \in Revisions
    BY <1>3 DEF JobFits, Ended, Revisions, Releases
  <2> DEFINE todo == (IF job[c].seen = NoRevision THEN <<"baseline">> ELSE <<>>)
                        \o <<"revision", "receipt", "pointer">>
  <2>2. /\ job' = [job EXCEPT ![c] = [job[c] EXCEPT !.to = r, !.todo = todo]]
        /\ pc' = [pc EXCEPT ![c] = "write"]
        /\ pointer = job[c].seen
    BY <1>3 DEF PlanActivation, Plan
  <2>3. /\ todo \in ActivationWrites /\ ~ (Len(todo) < 2) /\ ~ (Len(todo) < 3)
        /\ job[c].seen = NoRevision => ~ (Len(todo) < 4)
    <3>1. CASE job[c].seen = NoRevision
      <4>1. todo = <<"baseline", "revision", "receipt", "pointer">>
        BY <3>1, ActivationPlan
      <4> QED
        BY <4>1 DEF ActivationWrites
    <3>2. CASE job[c].seen # NoRevision
      <4>1. todo = <<"revision", "receipt", "pointer">>
        BY <3>2, ActivationPlan
      <4> QED
        BY <3>2, <4>1 DEF ActivationWrites
    <3> QED
      BY <3>1, <3>2
  <2> HIDE DEF todo
  <2>4. todo \in Seq(Writes)
    BY <2>3, PlansAreNotEmpty
  <2>5. Planned(c, r, todo)
    BY <1>3, <2>2, <2>3 DEF Planned
  <2> QED
    BY <1>1, <1>2, <2>1, <2>4, <2>5
<1>4. CASE job[c].kind = "rollback" /\ PlanRollback(c)
  <2> DEFINE to == RollbackTarget(pointer)
             todo == <<"receipt", "pointer">>
  <2>1. to \in Revisions
    BY <1>4 DEF PlanRollback
  <2>2. todo \in RollbackWrites /\ ~ (Len(todo) < 2)
    BY DEF RollbackWrites
  <2>3. /\ job' = [job EXCEPT ![c] = [job[c] EXCEPT !.to = to, !.todo = todo]]
        /\ pc' = [pc EXCEPT ![c] = "write"]
        /\ pointer = job[c].seen /\ pointer \in Releases
    BY <1>4 DEF PlanRollback, Plan
  <2> HIDE DEF todo
  <2>4. todo \in Seq(Writes)
    BY <2>2, PlansAreNotEmpty
  <2>5. Planned(c, to, todo)
    BY <1>4, <2>2, <2>3 DEF Planned
  <2> QED
    BY <1>1, <1>2, <2>1, <2>4, <2>5
<1> QED
  BY <1>3, <1>4

(* A write publishes a revision, and leaves a plan.                         *)
LEMMA WriteTypes ==
    ASSUME ServingInv, NEW c \in Callers, pc[c] = "write"
    PROVE  /\ job[c] \in Job /\ job[c].to \in Revisions
           /\ \/ job[c].kind = "activate" /\ ActivationWritten(c)
              \/ job[c].kind = "rollback" /\ RollbackWritten(c)
           /\ job[c].todo \in Seq(Writes)
           /\ Len(job[c].todo) > 0
           /\ [job[c] EXCEPT !.todo = Tail(job[c].todo)] \in Job
<1>1. job[c] \in Job /\ job[c].kind \in {"activate", "rollback"}
  BY DEF ServingInv, JobFits, Ended, Job
<1>2. \/ job[c].kind = "activate" /\ ActivationWritten(c)
      \/ job[c].kind = "rollback" /\ RollbackWritten(c)
  BY <1>1 DEF ServingInv, WritesInOrder
<1>3. job[c].to \in Revisions
  <2>1. CASE job[c].kind = "activate" /\ ActivationWritten(c)
    BY <2>1 DEF ServingInv, JobFits, ActivationWritten, Revisions, Releases, Ended
  <2>2. CASE job[c].kind = "rollback" /\ RollbackWritten(c)
    <3>1. job[c].seen \in revisions
      BY <2>2, ServingAssumption
      DEF ServingInv, WritesInOrder, RollbackWritten, ServingResolves, Revisions
    <3> QED
      BY <2>2, <3>1 DEF ServingInv, TypeOK, ServingResolves, RollbackWritten
  <2> QED
    BY <1>2, <2>1, <2>2
<1>4. job[c].todo \in Seq(Writes) /\ Len(job[c].todo) > 0
  <2>1. job[c].todo \in ActivationWrites \/ job[c].todo \in RollbackWrites
    BY <1>2 DEF ActivationWritten, RollbackWritten
  <2> QED
    BY <2>1, PlansAreNotEmpty
<1>5. Tail(job[c].todo) \in Seq(Writes)
  BY <1>4, TailsShorter
<1>6. [job[c] EXCEPT !.todo = Tail(job[c].todo)] \in Job
  BY <1>1, <1>5 DEF Job
<1> QED
  BY <1>1, <1>2, <1>3, <1>4, <1>6

Typed == TypeOK /\ job \in [Callers -> Job \cup {Absent}]

LEMMA StepTypes == ServingInv /\ [Next]_vars => Typed'
<1> SUFFICES ASSUME ServingInv, TypeOK, job \in [Callers -> Job \cup {Absent}],
                    [Next]_vars
             PROVE  Typed'
  BY DEF ServingInv
<1> USE ServingAssumption DEF TypeOK, Typed, Ended, Steps, files, calls, searches
<1>1. ASSUME NEW p \in Proposals, Propose(p) PROVE Typed'
  BY <1>1 DEF Propose
<1>2. ASSUME NEW i \in Indexes, PublishIndex(i) PROVE Typed'
  BY <1>2 DEF PublishIndex
<1>3. ASSUME NEW c \in Callers, NEW p \in Proposals, BeginActivation(c, p)
      PROVE  Typed'
  <2> DEFINE j == [kind |-> "activate", proposal |-> p, seen |-> pointer,
                   index |-> Absent, to |-> Absent, todo |-> <<>>]
  <2>1. j \in Job
    BY DEF Job
  <2>2. job' \in [Callers -> Job \cup {Absent}]
    BY <1>3, <2>1 DEF BeginActivation, Fail, End
  <2> QED
    BY <1>3, <2>2 DEF BeginActivation, Fail, End
<1>4. ASSUME NEW c \in Callers, LoadPipeline(c) PROVE Typed'
  <2>1. job[c] \in Job
    BY <1>4 DEF LoadPipeline, ServingInv, JobFits
  <2>2. [job[c] EXCEPT !.index = index] \in Job
    BY <2>1 DEF Job
  <2>3. job' \in [Callers -> Job \cup {Absent}]
    BY <1>4, <2>2 DEF LoadPipeline, Fail, End
  <2> QED
    BY <1>4, <2>3 DEF LoadPipeline, Fail, End
<1>5. ASSUME NEW c \in Callers, RunSentinel(c) PROVE Typed'
  BY <1>5 DEF RunSentinel, Goto, Fail, End
<1>6. ASSUME NEW c \in Callers, NEW r \in revisions, BeginRollback(c, r)
      PROVE  Typed'
  <2> DEFINE j == [kind |-> "rollback", proposal |-> Absent, seen |-> r,
                   index |-> Absent, to |-> Absent, todo |-> <<>>]
  <2>1. j \in Job
    BY DEF Job, Pointers
  <2>2. job' \in [Callers -> Job \cup {Absent}]
    BY <1>6, <2>1 DEF BeginRollback
  <2> QED
    BY <1>6, <2>2 DEF BeginRollback
<1>7. ASSUME NEW c \in Callers, TakeLock(c) PROVE Typed'
  BY <1>7 DEF TakeLock, Goto, Fail, End
<1>8. ASSUME NEW c \in Callers, CheckUnderLock(c) PROVE Typed'
  <2>1. CASE Fail(c) /\ Unlock
    BY <1>8, <2>1 DEF CheckUnderLock, Fail, End, Unlock
  <2>2. CASE ~ (Fail(c) /\ Unlock)
    <3>1. PICK to \in Revisions, todo \in Seq(Writes) :
             /\ Planned(c, to, todo)
             /\ [job[c] EXCEPT !.to = to, !.todo = todo] \in Job
      BY <1>8, <2>2, Plans DEF CheckUnderLock
    <3>2. /\ job' \in [Callers -> Job \cup {Absent}]
          /\ pc' = [pc EXCEPT ![c] = "write"]
      BY <3>1 DEF Planned
    <3> QED
      BY <1>8, <2>2, <3>2 DEF CheckUnderLock
  <2> QED
    BY <2>1, <2>2
<1>9. ASSUME NEW c \in Callers, WriteNext(c) PROVE Typed'
  <2>1. CASE Fail(c) /\ Unlock /\ UNCHANGED files
    BY <1>9, <2>1 DEF WriteNext, Fail, End, Unlock
  <2>2. CASE ~ (Fail(c) /\ Unlock /\ UNCHANGED files)
    <3>1. /\ job[c].to \in Revisions
          /\ [job[c] EXCEPT !.todo = Tail(job[c].todo)] \in Job
      BY <1>9, WriteTypes DEF WriteNext
    <3>2. job' \in [Callers -> Job \cup {Absent}]
      BY <1>9, <2>2, <3>1 DEF WriteNext
    <3>3. /\ revisions' \subseteq Revisions
          /\ receipts' \subseteq Revisions
          /\ pointer' \in Pointers
      BY <1>9, <2>2, <3>1 DEF WriteNext, Revisions, Pointers
    <3> QED
      BY <1>9, <2>2, <3>2, <3>3 DEF WriteNext
  <2> QED
    BY <2>1, <2>2
<1>10. ASSUME NEW c \in Callers, SyncDirectory(c) PROVE Typed'
  BY <1>10 DEF SyncDirectory, Fail, End, Unlock
<1>11. ASSUME NEW s \in Searchers, ReadPointer(s) PROVE Typed'
  BY <1>11 DEF ReadPointer, NoQuery
<1>12. ASSUME NEW s \in Searchers, ReadRevision(s) PROVE Typed'
  BY <1>12 DEF ReadRevision, Advance, NoQuery
<1>13. ASSUME NEW s \in Searchers, MatchIndex(s) PROVE Typed'
  BY <1>13 DEF MatchIndex, Advance, NoQuery
<1>14. ASSUME NEW s \in Searchers, OpenIndex(s) PROVE Typed'
  BY <1>14 DEF OpenIndex, Advance, NoQuery
<1>15. ASSUME NEW s \in Searchers, Execute(s) PROVE Typed'
  <2>1. CASE Bound(s, index)
    <3>1. query' = [query EXCEPT ![s] = [query[s] EXCEPT !.index = index]]
      BY <1>15, <2>1 DEF Execute
    <3>2. query' \in [Searchers -> [revision : Pointers \cup {Absent},
                                   index : Indexes \cup {Absent}]]
      BY <3>1
    <3> QED
      BY <1>15, <2>1, <3>2 DEF Execute
  <2>2. CASE ~ Bound(s, index)
    BY <1>15, <2>2 DEF Execute, Advance, NoQuery
  <2> QED
    BY <2>1, <2>2
<1>16. CASE Crash
  BY <1>16 DEF Crash, NoQuery
<1>17. CASE UNCHANGED vars
  BY <1>17 DEF vars
<1> QED
  BY <1>1, <1>2, <1>3, <1>4, <1>5, <1>6, <1>7, <1>8, <1>9, <1>10, <1>11, <1>12,
     <1>13, <1>14, <1>15, <1>16, <1>17
  DEF Next, Continue, Resolve

(* A call ends without a job.                                               *)
LEMMA EndsFit ==
    ASSUME ServingInv, NEW c \in Callers, NEW how \in Ended, End(c, how),
           UNCHANGED <<anchor, index>>, NEW d \in Callers
    PROVE  JobFits(d)'
  BY DEF ServingInv, TypeOK, JobFits, End, Ended

LEMMA StepFits ==
    ASSUME ServingInv, [Next]_vars, NEW d \in Callers
    PROVE  JobFits(d)'
<1> USE DEF Ended, files, calls, searches
<1>1. TypeOK /\ JobFits(d) /\ job \in [Callers -> Job \cup {Absent}]
  BY DEF ServingInv
<1> USE <1>1 DEF TypeOK
<1>2. ASSUME UNCHANGED <<anchor, calls>> PROVE JobFits(d)'
  BY <1>2 DEF JobFits
<1>3. ASSUME NEW p \in Proposals, Propose(p) PROVE JobFits(d)'
  <2>1. UNCHANGED calls /\ anchor[p] = Absent
    BY <1>3 DEF Propose
  <2>2. ASSUME pc[d] \notin Ended, job[d].kind = "activate"
        PROVE  anchor'[job[d].proposal] = anchor[job[d].proposal]
    <3>1. job[d].seen \in Pointers /\ job[d].seen # Absent
      BY <2>2, ServingAssumption DEF JobFits, Job
    <3>2. job[d].proposal # p
      BY <2>1, <2>2, <3>1 DEF JobFits
    <3> QED
      BY <1>3, <2>2, <3>2 DEF Propose, JobFits
  <2> QED
    BY <2>1, <2>2 DEF JobFits
<1>4. ASSUME NEW c \in Callers, NEW p \in Proposals, BeginActivation(c, p)
      PROVE  JobFits(d)'
  <2>1. CASE anchor[p] = pointer
    <3> DEFINE j == [kind |-> "activate", proposal |-> p, seen |-> pointer,
                     index |-> Absent, to |-> Absent, todo |-> <<>>]
    <3>1. j \in Job
      BY DEF Job
    <3>2. /\ job' = [job EXCEPT ![c] = j]
          /\ pc' = [pc EXCEPT ![c] = "load"]
          /\ UNCHANGED anchor
      BY <1>4, <2>1 DEF BeginActivation
    <3> QED
      BY <2>1, <3>1, <3>2 DEF JobFits
  <2>2. CASE anchor[p] # pointer
    BY <1>4, <2>2, EndsFit DEF BeginActivation, Fail
  <2> QED
    BY <2>1, <2>2
<1>5. ASSUME NEW c \in Callers, LoadPipeline(c) PROVE JobFits(d)'
  <2>1. CASE Fail(c)
    BY <1>5, <2>1, EndsFit DEF LoadPipeline, Fail
  <2>2. CASE ~ Fail(c)
    <3>1. /\ job' = [job EXCEPT ![c] = [job[c] EXCEPT !.index = index]]
          /\ pc' = [pc EXCEPT ![c] = "sentinel"]
          /\ UNCHANGED anchor
          /\ pc[c] = "load"
      BY <1>5, <2>2 DEF LoadPipeline
    <3>2. job[c] \in Job /\ job[c].kind = "activate"
      BY <3>1 DEF ServingInv, JobFits
    <3>3. LET j == [job[c] EXCEPT !.index = index] IN
             /\ j \in Job
             /\ j.proposal = job[c].proposal /\ j.seen = job[c].seen
             /\ j.index = index /\ j.kind = "activate"
      BY <3>2 DEF Job
    <3> QED
      BY <3>1, <3>2, <3>3 DEF ServingInv, JobFits
  <2> QED
    BY <2>1, <2>2
<1>6. ASSUME NEW c \in Callers, RunSentinel(c) \/ TakeLock(c) PROVE JobFits(d)'
  <2>1. CASE Fail(c)
    BY <1>6, <2>1, EndsFit DEF RunSentinel, TakeLock, Fail
  <2>2. CASE ~ Fail(c)
    BY <1>6, <2>2 DEF RunSentinel, TakeLock, Goto, JobFits
  <2> QED
    BY <2>1, <2>2
<1>7. ASSUME NEW c \in Callers, NEW r \in revisions, BeginRollback(c, r)
      PROVE  JobFits(d)'
  <2> DEFINE j == [kind |-> "rollback", proposal |-> Absent, seen |-> r,
                   index |-> Absent, to |-> Absent, todo |-> <<>>]
  <2>1. j \in Job
    BY DEF Job, Pointers
  <2> QED
    BY <1>7, <2>1 DEF BeginRollback, JobFits
<1>8. ASSUME NEW c \in Callers, CheckUnderLock(c) PROVE JobFits(d)'
  <2>1. CASE Fail(c)
    BY <1>8, <2>1, EndsFit DEF CheckUnderLock, Fail
  <2>2. CASE ~ Fail(c)
    <3>1. PICK to \in Revisions, todo \in Seq(Writes) :
             /\ Planned(c, to, todo)
             /\ [job[c] EXCEPT !.to = to, !.todo = todo] \in Job
      BY <1>8, <2>2, Plans DEF CheckUnderLock
    <3>2. pc[c] = "locked" /\ UNCHANGED anchor
      BY <1>8 DEF CheckUnderLock
    <3>3. CASE d # c
      BY <3>1, <3>2, <3>3 DEF JobFits, Planned
    <3>4. CASE d = c
      <4>1. /\ job'[d] = [job[d] EXCEPT !.to = to, !.todo = todo]
            /\ job'[d] \in Job /\ job[d] \in Job
        BY <3>1, <3>2, <3>4 DEF JobFits, Planned
      <4>2. /\ job'[d].kind = job[d].kind /\ job'[d].proposal = job[d].proposal
            /\ job'[d].seen = job[d].seen /\ job'[d].index = job[d].index
        BY <4>1 DEF Job
      <4> QED
        BY <3>1, <3>2, <3>4, <4>1, <4>2 DEF JobFits, Planned
    <3> QED
      BY <3>3, <3>4
  <2> QED
    BY <2>1, <2>2
<1>9. ASSUME NEW c \in Callers, WriteNext(c) PROVE JobFits(d)'
  <2>1. CASE Fail(c)
    BY <1>9, <2>1, EndsFit DEF WriteNext, Fail
  <2>2. CASE ~ Fail(c)
    <3> DEFINE todo == Tail(job[c].todo)
    <3>1. /\ job' = [job EXCEPT ![c] = [job[c] EXCEPT !.todo = todo]]
          /\ pc[c] = "write" /\ UNCHANGED anchor
          /\ pc' = [pc EXCEPT ![c] = IF Len(job[c].todo) = 1 THEN "sync" ELSE "write"]
      BY <1>9, <2>2 DEF WriteNext
    <3>2. job[c] \in Job /\ [job[c] EXCEPT !.todo = todo] \in Job
      BY <3>1, WriteTypes
    <3> HIDE DEF todo
    <3>3. CASE d # c
      BY <3>1, <3>3 DEF JobFits
    <3>4. CASE d = c
      <4>1. /\ job'[d] = [job[d] EXCEPT !.todo = todo]
            /\ job'[d] \in Job /\ job[d] \in Job
        BY <3>1, <3>2, <3>4
      <4>2. /\ job'[d].kind = job[d].kind /\ job'[d].proposal = job[d].proposal
            /\ job'[d].seen = job[d].seen /\ job'[d].index = job[d].index
        BY <4>1 DEF Job
      <4> QED
        BY <3>1, <3>4, <4>1, <4>2 DEF JobFits
    <3> QED
      BY <3>3, <3>4
  <2> QED
    BY <2>1, <2>2
<1>10. ASSUME NEW c \in Callers, SyncDirectory(c) PROVE JobFits(d)'
  BY <1>10, EndsFit DEF SyncDirectory, Fail
<1>11. ASSUME NEW s \in Searchers, ReadPointer(s) \/ Resolve(s) PROVE JobFits(d)'
  BY <1>2, <1>11 DEF ReadPointer, Resolve, ReadRevision, MatchIndex, OpenIndex, Execute
<1>12. CASE Crash
  BY <1>12 DEF Crash, JobFits
<1>13. CASE UNCHANGED vars
  BY <1>2, <1>13 DEF vars
<1>14. ASSUME NEW i \in Indexes, PublishIndex(i) PROVE JobFits(d)'
  BY <1>2, <1>14 DEF PublishIndex
<1> QED
  BY <1>3, <1>4, <1>5, <1>6, <1>7, <1>8, <1>9, <1>10, <1>11, <1>12, <1>13, <1>14
  DEF Next, Continue

(* A stored release keeps its rollback target: its proposal is anchored.    *)
LEMMA TargetsStay ==
    ASSUME ServingInv, [Next]_vars, NEW r \in revisions, r \in Releases
    PROVE  RollbackTarget(r)' = RollbackTarget(r)
<1> USE DEF files, calls, searches
<1>1. CASE UNCHANGED anchor
  BY <1>1 DEF RollbackTarget
<1>2. ASSUME NEW p \in Proposals, Propose(p)
      PROVE  RollbackTarget(r)' = RollbackTarget(r)
  <2>1. RollbackTarget(r) \in Revisions
    BY DEF ServingInv, ServingResolves, TypeOK
  <2>2. anchor[r.proposal] # Absent
    <3>1. Absent \notin Revisions
      BY ServingAssumption DEF Pointers
    <3>2. Absent # NoRevision
      BY ServingAssumption DEF Pointers
    <3> QED
      BY <2>1, <3>1, <3>2 DEF RollbackTarget
  <2>3. anchor'[r.proposal] = anchor[r.proposal]
    BY <1>2, <2>2 DEF Propose, ServingInv, TypeOK, Releases
  <2> QED
    BY <2>3 DEF RollbackTarget
<1>3. UNCHANGED anchor \/ \E p \in Proposals : Propose(p)
  BY DEF Next, vars, PublishIndex, BeginActivation, BeginRollback, Continue,
         LoadPipeline, RunSentinel, TakeLock, CheckUnderLock, WriteNext,
         SyncDirectory, ReadPointer, Resolve, ReadRevision, MatchIndex,
         OpenIndex, Execute, Crash
<1> QED
  BY <1>1, <1>2, <1>3

(* A call that writes is not disturbed by who leaves the pointer alone.     *)
LEMMA WritesStay ==
    ASSUME ServingInv, [Next]_vars, NEW d \in Callers,
           UNCHANGED <<pc[d], job[d], pointer>>,
           revisions \subseteq revisions', receipts \subseteq receipts'
    PROVE  WritesInOrder(d)'
<1> SUFFICES ASSUME pc[d] = "write"
             PROVE  WritesInOrder(d)'
  BY DEF WritesInOrder
<1>1. WritesInOrder(d)
  BY DEF ServingInv
<1>2. CASE job[d].kind = "activate"
  BY <1>1, <1>2 DEF WritesInOrder, ActivationWritten
<1>3. CASE job[d].kind = "rollback"
  <2>1. pointer = job[d].seen /\ RollbackWritten(d)
    BY <1>1, <1>3 DEF WritesInOrder
  <2>2. job[d].seen \in revisions /\ job[d].seen \in Releases
    BY <2>1, ServingAssumption
    DEF RollbackWritten, ServingInv, ServingResolves, Revisions
  <2>3. RollbackTarget(job[d].seen)' = RollbackTarget(job[d].seen)
    <3>1. RollbackTarget(job[d].seen)' = LET r == job[d].seen IN RollbackTarget(r)'
      BY DEF RollbackTarget
    <3> QED
      BY <2>2, <3>1, TargetsStay
  <2> QED
    BY <1>1, <1>3, <2>1, <2>3 DEF WritesInOrder, RollbackWritten
<1>4. CASE job[d].kind \notin {"activate", "rollback"}
  BY <1>1, <1>4 DEF WritesInOrder
<1> QED
  BY <1>2, <1>3, <1>4

(* What one write does to a plan.                                           *)
LEMMA WriteKeepsOrder ==
    ASSUME ServingInv, NEW c \in Callers, WriteNext(c), ~ Fail(c),
           Len(job[c].todo) # 1
    PROVE  WritesInOrder(c)'
<1> DEFINE todo == job[c].todo
           left == Tail(todo)
           new  == [job[c] EXCEPT !.todo = left]
<1> USE DEF files
<1>1. /\ pc[c] = "write" /\ WritesInOrder(c)
      /\ job[c] \in Job /\ todo \in Seq(Writes)
      /\ \/ job[c].kind = "activate" /\ ActivationWritten(c)
         \/ job[c].kind = "rollback" /\ RollbackWritten(c)
  BY WriteTypes DEF WriteNext, ServingInv
<1>2. /\ UNCHANGED anchor
      /\ job' = [job EXCEPT ![c] = new]
      /\ revisions' = revisions \cup CASE Head(todo) = "baseline" -> {Baseline}
                                      [] Head(todo) = "revision" -> {job[c].to}
                                      [] OTHER -> {}
      /\ receipts' = receipts \cup {r \in {job[c].to} : Head(todo) = "receipt"}
      /\ pointer' = IF Head(todo) = "pointer" THEN job[c].to ELSE pointer
  BY DEF WriteNext
<1>3. /\ job'[c] = new
      /\ new.kind = job[c].kind /\ new.proposal = job[c].proposal
      /\ new.seen = job[c].seen /\ new.index = job[c].index
      /\ new.to = job[c].to /\ new.todo = left
  BY <1>1, <1>2 DEF ServingInv, Job
<1>4. todo \in ActivationWrites \/ todo \in RollbackWrites
  BY <1>1 DEF ActivationWritten, RollbackWritten
<1>5. Len(left) = Len(todo) - 1 /\ Len(todo) \in Nat
  BY <1>1, <1>4, PlansAreNotEmpty, TailsShorter
<1>6. CASE job[c].kind = "activate"
  <2>1. todo \in ActivationWrites /\ ActivationWritten(c)
    BY <1>1, <1>6 DEF ActivationWritten
  <2>2. /\ Len(todo) \in 2 .. 4
        /\ left \in ActivationWrites
        /\ Len(todo) = 4 => Head(todo) = "baseline"
        /\ Len(todo) = 3 => Head(todo) = "revision"
        /\ Len(todo) = 2 => Head(todo) = "receipt"
    BY <2>1, PlansShrink
  <2> HIDE DEF todo, left, new
  <2>3. pointer' = pointer
    BY <1>2, <2>2
  <2>4. ActivationWritten(c)'
    <3>1. job'[c].to = [proposal |-> job'[c].proposal, index |-> job'[c].index]
      BY <1>3, <2>1 DEF ActivationWritten
    <3>2. job[c].seen = NoRevision => Baseline \in revisions'
      <4>1. CASE Len(todo) = 4
        BY <1>2, <2>2, <4>1
      <4>2. CASE Len(todo) # 4
        <5>1. Len(todo) < 4
          BY <2>2, <4>2
        <5>2. Len(job[c].todo) < 4
          BY <5>1 DEF todo
        <5> QED
          BY <1>2, <2>1, <5>2 DEF ActivationWritten
      <4> QED
        BY <4>1, <4>2
    <3>3. Len(left) < 3 => job[c].to \in revisions'
      <4>1. CASE Len(todo) = 3
        BY <1>2, <2>2, <4>1
      <4>2. CASE Len(todo) < 3
        BY <1>2, <2>1, <4>2 DEF ActivationWritten, todo
      <4>3. CASE Len(todo) = 4
        BY <1>5, <4>3
      <4> QED
        BY <2>2, <4>1, <4>2, <4>3
    <3> QED
      BY <1>3, <2>2, <3>1, <3>2, <3>3 DEF ActivationWritten
  <2>5. Len(left) < 2 => job[c].to \in receipts'
    BY <1>2, <1>5, <2>2
  <2> QED
    BY <1>1, <1>3, <1>6, <2>3, <2>4, <2>5 DEF WritesInOrder
<1>7. CASE job[c].kind = "rollback"
  <2>1. todo \in RollbackWrites /\ RollbackWritten(c)
    BY <1>1, <1>7 DEF RollbackWritten
  <2>2. /\ Len(todo) = 2
        /\ left \in RollbackWrites
        /\ Head(todo) = "receipt"
    BY <2>1, PlansShrink
  <2> HIDE DEF todo, left, new
  <2>3. pointer' = pointer
    BY <1>2, <2>2
  <2>4. RollbackWritten(c)'
    BY <1>2, <1>3, <2>1, <2>2 DEF RollbackWritten, RollbackTarget
  <2>5. job[c].to \in receipts'
    BY <1>2, <2>2
  <2> QED
    BY <1>1, <1>3, <1>7, <2>3, <2>4, <2>5 DEF WritesInOrder
<1> QED
  BY <1>1, <1>6, <1>7

LEMMA StepWrites ==
    ASSUME ServingInv, [Next]_vars, NEW d \in Callers
    PROVE  WritesInOrder(d)'
<1> USE DEF files, calls, searches
<1> USE ServingInv DEF ServingInv, TypeOK
<1>1. ASSUME UNCHANGED <<files, calls>> PROVE WritesInOrder(d)'
  BY <1>1, WritesStay
<1>2. ASSUME NEW c \in Callers, NEW how \in Ended, End(c, how), UNCHANGED files
      PROVE  WritesInOrder(d)'
  <2>1. CASE d = c
    BY <1>2, <2>1 DEF End, Ended, WritesInOrder
  <2>2. CASE d # c
    BY <1>2, <2>2, WritesStay DEF End
  <2> QED
    BY <2>1, <2>2
<1>3. ASSUME NEW c \in Callers, pc'[c] # "write", UNCHANGED files,
             \A e \in Callers \ {c} : UNCHANGED <<pc[e], job[e]>>
      PROVE  WritesInOrder(d)'
  <2>1. CASE d = c
    BY <1>3, <2>1 DEF WritesInOrder
  <2>2. CASE d # c
    BY <1>3, <2>2, WritesStay
  <2> QED
    BY <2>1, <2>2
<1>4. ASSUME NEW c \in Callers, NEW p \in Proposals, BeginActivation(c, p)
      PROVE  WritesInOrder(d)'
  BY <1>3, <1>4 DEF BeginActivation, Fail, End
<1>5. ASSUME NEW c \in Callers, LoadPipeline(c) PROVE WritesInOrder(d)'
  BY <1>3, <1>5 DEF LoadPipeline, Fail, End
<1>6. ASSUME NEW c \in Callers, RunSentinel(c) PROVE WritesInOrder(d)'
  BY <1>3, <1>6 DEF RunSentinel, Goto, Fail, End
<1>7. ASSUME NEW c \in Callers, NEW r \in revisions, BeginRollback(c, r)
      PROVE  WritesInOrder(d)'
  BY <1>3, <1>7 DEF BeginRollback
<1>8. ASSUME NEW c \in Callers, TakeLock(c) PROVE WritesInOrder(d)'
  BY <1>3, <1>8 DEF TakeLock, Goto, Fail, End
<1>9. ASSUME NEW c \in Callers, SyncDirectory(c) PROVE WritesInOrder(d)'
  BY <1>3, <1>9 DEF SyncDirectory, Fail, End
<1>10. ASSUME NEW c \in Callers, CheckUnderLock(c) PROVE WritesInOrder(d)'
  <2>1. CASE Fail(c)
    BY <1>2, <1>10, <2>1 DEF CheckUnderLock, Fail, Ended
  <2>2. CASE ~ Fail(c)
    <3>1. PICK to \in Revisions, todo \in Seq(Writes) :
             /\ Planned(c, to, todo)
             /\ job[c] \in Job
             /\ [job[c] EXCEPT !.to = to, !.todo = todo] \in Job
      BY <1>10, <2>2, Plans DEF CheckUnderLock
    <3>2. UNCHANGED <<files, anchor>>
      BY <1>10 DEF CheckUnderLock
    <3>3. CASE d # c
      BY <3>1, <3>2, <3>3, WritesStay DEF Planned
    <3>4. CASE d = c
      <4> DEFINE new == [job[d] EXCEPT !.to = to, !.todo = todo]
      <4>1. /\ job'[d] = new
            /\ new.kind = job[d].kind /\ new.proposal = job[d].proposal
            /\ new.seen = job[d].seen /\ new.index = job[d].index
            /\ new.to = to /\ new.todo = todo
        BY <3>1, <3>4 DEF Planned, Job
      <4> HIDE DEF new
      <4>2. todo \in Seq(Writes) /\ job[d].kind \in {"activate", "rollback"}
        BY <3>1, <3>4 DEF Job
      <4>3. job[d].kind = "activate" => ActivationWritten(d)'
        <5> HAVE job[d].kind = "activate"
        <5>1. /\ to = [proposal |-> job[d].proposal, index |-> job[d].index]
              /\ todo \in ActivationWrites /\ ~ (Len(todo) < 3)
              /\ job[d].seen = NoRevision => ~ (Len(todo) < 4)
          BY <3>1, <3>4 DEF Planned
        <5>2. job'[d].to = [proposal |-> job'[d].proposal, index |-> job'[d].index]
          BY <4>1, <5>1
        <5>3. job'[d].todo \in ActivationWrites
          BY <4>1, <5>1
        <5>4. /\ ~ (Len(job'[d].todo) < 3)
              /\ job'[d].seen = NoRevision => ~ (Len(job'[d].todo) < 4)
          BY <4>1, <5>1
        <5> QED
          BY <5>2, <5>3, <5>4 DEF ActivationWritten
      <4>4. job[d].kind = "rollback" => RollbackWritten(d)'
        BY <3>1, <3>2, <3>4, <4>1 DEF Planned, RollbackWritten, RollbackTarget
      <4>5. pointer' = job'[d].seen /\ job'[d].kind = job[d].kind
            /\ ~ (Len(job'[d].todo) < 2)
        BY <3>1, <3>2, <3>4, <4>1 DEF Planned
      <4> QED
        BY <4>2, <4>3, <4>4, <4>5 DEF WritesInOrder
    <3> QED
      BY <3>3, <3>4
  <2> QED
    BY <2>1, <2>2
<1>11. ASSUME NEW c \in Callers, WriteNext(c) PROVE WritesInOrder(d)'
  <2>1. CASE Fail(c)
    <3>1. UNCHANGED files
      BY <1>11, <2>1, WriteTypes DEF WriteNext, Fail, End, Job
    <3> QED
      BY <1>2, <2>1, <3>1 DEF Fail, Ended
  <2>2. CASE ~ Fail(c) /\ d = c
    <3>1. CASE Len(job[c].todo) = 1
      BY <1>11, <2>2, <3>1 DEF WriteNext, WritesInOrder
    <3>2. CASE Len(job[c].todo) # 1
      BY <1>11, <2>2, <3>2, WriteKeepsOrder
    <3> QED
      BY <3>1, <3>2
  <2>3. CASE ~ Fail(c) /\ d # c
    <3>1. pc[d] # "write"
      BY <1>11, <2>3, OneWriter DEF WriteNext
    <3> QED
      BY <1>11, <2>3, <3>1 DEF WriteNext, WritesInOrder
  <2> QED
    BY <2>1, <2>2, <2>3
<1>12. ASSUME NEW s \in Searchers, ReadPointer(s) \/ Resolve(s)
       PROVE  WritesInOrder(d)'
  BY <1>1, <1>12 DEF ReadPointer, Resolve, ReadRevision, MatchIndex, OpenIndex, Execute
<1>13. ASSUME NEW p \in Proposals, Propose(p) PROVE WritesInOrder(d)'
  BY <1>1, <1>13 DEF Propose
<1>14. ASSUME NEW i \in Indexes, PublishIndex(i) PROVE WritesInOrder(d)'
  BY <1>1, <1>14 DEF PublishIndex
<1>15. CASE Crash
  BY <1>15 DEF Crash, WritesInOrder
<1>16. CASE UNCHANGED vars
  BY <1>1, <1>16 DEF vars
<1> QED
  BY <1>4, <1>5, <1>6, <1>7, <1>8, <1>9, <1>10, <1>11, <1>12, <1>13, <1>14, <1>15,
     <1>16
  DEF Next, Continue

(* The pointer is written last, and what it then names is stored and proven. *)
LEMMA PointerWrite ==
    ASSUME ServingInv, NEW c \in Callers, WriteNext(c), pointer' # pointer
    PROVE  /\ lock = c
           /\ pointer = job[c].seen /\ pointer' = job[c].to
           /\ pointer' \in revisions \cap receipts
           /\ \/ pointer' \in Releases /\ pointer = anchor[pointer'.proposal]
              \/ pointer \in Releases /\ pointer' = RollbackTarget(pointer)
<1> DEFINE todo == job[c].todo
<1>1. pc[c] = "write" /\ Head(todo) = "pointer" /\ pointer' = job[c].to
  BY DEF WriteNext, files
<1>2. /\ WritesInOrder(c) /\ pointer = job[c].seen
      /\ lock = c
  BY <1>1 DEF ServingInv, WritesInOrder, TypeOK
<1>3. /\ job[c] \in Job
      /\ \/ job[c].kind = "activate" /\ ActivationWritten(c)
         \/ job[c].kind = "rollback" /\ RollbackWritten(c)
  BY <1>1, WriteTypes
<1>4. Len(todo) = 1
  <2>1. todo \in ActivationWrites \/ todo \in RollbackWrites
    BY <1>3 DEF ActivationWritten, RollbackWritten
  <2>2. CASE todo \in ActivationWrites
    <3>1. Len(todo) \in 1 .. 4 /\ Len(todo) \notin {2, 3, 4}
      BY <1>1, <2>2, PlansShrink
    <3> QED
      BY <3>1
  <2>3. CASE todo \in RollbackWrites
    <3>1. Len(todo) \in 1 .. 2 /\ Len(todo) # 2
      BY <1>1, <2>3, PlansShrink
    <3> QED
      BY <3>1
  <2> QED
    BY <2>1, <2>2, <2>3
<1>5. Len(todo) < 2 /\ Len(todo) < 3
  BY <1>4
<1>6. pointer' \in receipts
  BY <1>1, <1>2, <1>5 DEF WritesInOrder
<1>7. CASE job[c].kind = "activate" /\ ActivationWritten(c)
  <2>1. pointer' = [proposal |-> job[c].proposal, index |-> job[c].index]
    BY <1>1, <1>7 DEF ActivationWritten
  <2>2. /\ job[c].proposal \in Proposals /\ job[c].index \in Indexes
        /\ job[c].seen = anchor[job[c].proposal]
    BY <1>1, <1>7 DEF ServingInv, JobFits, Ended
  <2>3. pointer' \in revisions
    BY <1>1, <1>5, <1>7 DEF ActivationWritten
  <2> QED
    BY <1>1, <1>2, <1>6, <2>1, <2>2, <2>3 DEF Releases
<1>8. CASE job[c].kind = "rollback" /\ RollbackWritten(c)
  <2>1. pointer \in Releases /\ pointer' = RollbackTarget(pointer)
    BY <1>1, <1>2, <1>8 DEF RollbackWritten
  <2>2. pointer' \in revisions
    BY <2>1, ServingAssumption DEF ServingInv, ServingResolves, Revisions
  <2> QED
    BY <1>1, <1>2, <1>6, <2>1, <2>2
<1> QED
  BY <1>3, <1>7, <1>8

(* Files are added, never removed; only a write moves the pointer.          *)
LEMMA FilesGrow ==
    ASSUME [Next]_vars
    PROVE  /\ revisions \subseteq revisions' /\ receipts \subseteq receipts'
           /\ UNCHANGED files \/ \E c \in Callers : WriteNext(c)
<1>1. UNCHANGED files \/ \E c \in Callers : WriteNext(c)
  BY DEF Next, vars, files, Propose, PublishIndex, BeginActivation, BeginRollback,
         Continue, LoadPipeline, RunSentinel, TakeLock, CheckUnderLock,
         SyncDirectory, ReadPointer, Resolve, ReadRevision, MatchIndex,
         OpenIndex, Execute, Crash
<1>2. ASSUME NEW c \in Callers, WriteNext(c)
      PROVE  revisions \subseteq revisions' /\ receipts \subseteq receipts'
  BY <1>2 DEF WriteNext, files
<1> QED
  BY <1>1, <1>2 DEF files

(* A release is stored when the revision it replaces is.                    *)
LEMMA NewReleaseResolves ==
    ASSUME ServingInv, [Next]_vars, NEW r \in revisions', r \in Releases,
           r \notin revisions
    PROVE  RollbackTarget(r)' \in revisions
<1>1. PICK c \in Callers : WriteNext(c)
  BY FilesGrow DEF files
<1> DEFINE todo == job[c].todo
<1>2. /\ pc[c] = "write" /\ UNCHANGED anchor
      /\ revisions' = revisions \cup CASE Head(todo) = "baseline" -> {Baseline}
                                      [] Head(todo) = "revision" -> {job[c].to}
                                      [] OTHER -> {}
  BY <1>1 DEF WriteNext, files
<1>3. Head(todo) = "revision" /\ r = job[c].to
  BY <1>2, ServingAssumption
<1>4. /\ job[c] \in Job
      /\ \/ job[c].kind = "activate" /\ ActivationWritten(c)
         \/ job[c].kind = "rollback" /\ RollbackWritten(c)
  BY <1>2, WriteTypes
<1>5. job[c].kind = "activate" /\ ActivationWritten(c)
  <2>1. ASSUME RollbackWritten(c) PROVE FALSE
    <3>1. todo \in RollbackWrites
      BY <2>1 DEF RollbackWritten
    <3>2. Len(todo) \in 1 .. 2 /\ Len(todo) # 1 /\ Len(todo) # 2
      BY <1>3, <3>1, PlansShrink
    <3> QED
      BY <3>2
  <2> QED
    BY <1>4, <2>1
<1>6. /\ r = [proposal |-> job[c].proposal, index |-> job[c].index]
      /\ todo \in ActivationWrites
      /\ job[c].seen = NoRevision /\ Len(todo) < 4 => Baseline \in revisions
  BY <1>3, <1>5 DEF ActivationWritten
<1>7. anchor[r.proposal] = pointer /\ pointer = job[c].seen
  <2>1. job[c].seen = anchor[job[c].proposal] /\ pointer = job[c].seen
    BY <1>2, <1>5 DEF ServingInv, JobFits, Ended, WritesInOrder
  <2> QED
    BY <1>6, <2>1
<1>8. Len(todo) < 4
  <2>1. Len(todo) \in 1 .. 4 /\ Len(todo) # 4
    BY <1>3, <1>6, PlansShrink
  <2>2. \A n \in 1 .. 4 : n # 4 => n < 4
    OBVIOUS
  <2> HIDE DEF todo
  <2> QED
    BY <2>1, <2>2
<1>9. RollbackTarget(r) \in revisions
  <2>1. CASE pointer = NoRevision
    BY <1>6, <1>7, <1>8, <2>1 DEF RollbackTarget
  <2>2. CASE pointer # NoRevision
    BY <1>7, <2>2 DEF RollbackTarget, ServingInv, ServingResolves
  <2> QED
    BY <2>1, <2>2
<1> QED
  BY <1>2, <1>9 DEF RollbackTarget

LEMMA StepResolves ==
    ASSUME ServingInv, [Next]_vars
    PROVE  ServingResolves'
<1>1. revisions \subseteq revisions' /\ receipts \subseteq receipts'
  BY FilesGrow
<1>2. pointer' # NoRevision => pointer' \in revisions' \cap receipts'
  <2>1. CASE pointer' = pointer
    BY <1>1, <2>1 DEF ServingInv, ServingResolves
  <2>2. CASE pointer' # pointer
    BY <1>1, <2>2, FilesGrow, PointerWrite DEF files
  <2> QED
    BY <2>1, <2>2
<1>3. \A r \in revisions' \cap Releases : RollbackTarget(r)' \in revisions'
  <2> SUFFICES ASSUME NEW r \in revisions', r \in Releases
               PROVE  RollbackTarget(r)' \in revisions'
    OBVIOUS
  <2>1. CASE r \in revisions
    <3>1. RollbackTarget(r) \in revisions
      BY <2>1 DEF ServingInv, ServingResolves
    <3> QED
      BY <1>1, <2>1, <3>1, TargetsStay
  <2>2. CASE r \notin revisions
    BY <1>1, <2>2, NewReleaseResolves
  <2> QED
    BY <2>1, <2>2
<1>4. ASSUME NEW s \in Searchers, at'[s] = "revision"
      PROVE  query'[s].revision \in revisions'
  <2> USE <1>1, <1>4 DEF files, calls, searches, ServingInv, ServingResolves, TypeOK
  <2>1. CASE UNCHANGED searches
    BY <2>1
  <2>2. ASSUME NEW t \in Searchers, ReadPointer(t)
        PROVE  query'[s].revision \in revisions'
    BY <2>2 DEF ReadPointer, NoQuery
  <2>3. ASSUME NEW t \in Searchers, Resolve(t)
        PROVE  query'[s].revision \in revisions'
    BY <2>3 DEF Resolve, ReadRevision, MatchIndex, OpenIndex, Execute, Advance
  <2>4. ASSUME Crash PROVE FALSE
    BY <2>4 DEF Crash
  <2>5. \/ UNCHANGED searches \/ Crash
        \/ \E t \in Searchers : ReadPointer(t) \/ Resolve(t)
    BY DEF Next, vars, Propose, PublishIndex, BeginActivation, BeginRollback,
           Continue, LoadPipeline, RunSentinel, TakeLock, CheckUnderLock,
           WriteNext, SyncDirectory
  <2> QED
    BY <2>1, <2>2, <2>3, <2>4, <2>5
<1> QED
  BY <1>2, <1>3, <1>4 DEF ServingResolves

LEMMA StepNeverMixed ==
    ASSUME ServingInv, [Next]_vars
    PROVE  SearchNeverMixed'
<1> SUFFICES ASSUME NEW s \in Searchers, at'[s] = "done"
             PROVE  Bound(s, query[s].index)'
  BY DEF SearchNeverMixed, Bound
<1> USE DEF files, calls, searches, Bound
<1>1. TypeOK /\ SearchNeverMixed
  BY DEF ServingInv
<1> USE <1>1 DEF TypeOK, SearchNeverMixed
<1>2. CASE UNCHANGED searches
  BY <1>2
<1>3. ASSUME NEW t \in Searchers, ReadPointer(t) PROVE Bound(s, query[s].index)'
  BY <1>3 DEF ReadPointer
<1>4. ASSUME NEW t \in Searchers, ReadRevision(t) \/ MatchIndex(t) \/ OpenIndex(t)
      PROVE  Bound(s, query[s].index)'
  BY <1>4 DEF ReadRevision, MatchIndex, OpenIndex, Advance
<1>5. ASSUME NEW t \in Searchers, Execute(t) PROVE Bound(s, query[s].index)'
  <2>1. CASE Bound(t, index)
    <3>1. /\ query' = [query EXCEPT ![t] = [query[t] EXCEPT !.index = index]]
          /\ at' = [at EXCEPT ![t] = "done"]
      BY <1>5, <2>1 DEF Execute
    <3>2. CASE s = t
      BY <2>1, <3>1, <3>2
    <3>3. CASE s # t
      BY <3>1, <3>3
    <3> QED
      BY <3>2, <3>3
  <2>2. CASE ~ Bound(t, index)
    BY <1>5, <2>2 DEF Execute, Advance
  <2> QED
    BY <2>1, <2>2
<1>6. ASSUME Crash PROVE FALSE
  BY <1>6 DEF Crash
<1>7. \/ UNCHANGED searches \/ Crash
      \/ \E t \in Searchers : ReadPointer(t) \/ Resolve(t)
  BY DEF Next, vars, Propose, PublishIndex, BeginActivation, BeginRollback,
         Continue, LoadPipeline, RunSentinel, TakeLock, CheckUnderLock,
         WriteNext, SyncDirectory
<1> QED
  BY <1>2, <1>3, <1>4, <1>5, <1>6, <1>7 DEF Resolve

LEMMA StepHolds == ServingInv /\ [Next]_vars => ServingInv'
<1> SUFFICES ASSUME ServingInv, [Next]_vars PROVE ServingInv'
  OBVIOUS
<1>1. Typed'
  BY StepTypes
<1>2. \A c \in Callers : JobFits(c)' /\ WritesInOrder(c)'
  BY StepFits, StepWrites
<1> QED
  BY <1>1, <1>2, StepResolves, StepNeverMixed DEF ServingInv, Typed
-----------------------------------------------------------------------------
(* The invariant holds of every behaviour: a call fits the step it is at,   *)
(* and a call that writes has stored what the pointer is about to name.     *)
THEOREM ServingInvariant == Spec => []ServingInv
  BY InitHolds, StepHolds, PTL DEF Spec

(* The types of the serving plane, and that the lock lies with exactly the  *)
(* call that is between `with _serving_lock' and its end.                   *)
THEOREM ServingTypes == Spec => []TypeOK
<1>1. ServingInv => TypeOK
  BY DEF ServingInv
<1> QED
  BY <1>1, ServingInvariant, PTL

(* Nothing that a reader or a rollback follows ever dangles.                *)
THEOREM NothingDangles == Spec => []ServingResolves
<1>1. ServingInv => ServingResolves
  BY DEF ServingInv
<1> QED
  BY <1>1, ServingInvariant, PTL

(* No search that answers has mixed a revision with another one's index.    *)
THEOREM NeverMixed == Spec => []SearchNeverMixed
<1>1. ServingInv => SearchNeverMixed
  BY DEF ServingInv
<1> QED
  BY <1>1, ServingInvariant, PTL

(* The pointer moves only over the revision that its mover had seen, to a   *)
(* release proposed over it or to its rollback target; and a call that      *)
(* fails has not moved it, unless what fails is the directory sync.         *)
THEOREM MovesAreSeen == Spec => MovesFromWhatWasSeen
<1>1. ASSUME ServingInv, [Next]_vars, pointer' # pointer
      PROVE  \E c \in Callers :
                /\ lock = c
                /\ pointer = job[c].seen
                /\ \/ pointer' \in Releases /\ pointer = anchor[pointer'.proposal]
                   \/ pointer \in Releases /\ pointer' = RollbackTarget(pointer)
  <2>1. PICK c \in Callers : WriteNext(c)
    BY <1>1, FilesGrow DEF files
  <2> QED
    BY <1>1, <2>1, PointerWrite
<1>2. ASSUME ServingInv, NEW c \in Callers, pc[c] # "failed"
      PROVE  ~ HasMoved(c)
  <2> SUFFICES ASSUME pc[c] = "write"
               PROVE  \E i \in 1 .. Len(job[c].todo) : job[c].todo[i] = "pointer"
    BY DEF HasMoved
  <2>1. job[c].todo \in ActivationWrites \/ job[c].todo \in RollbackWrites
    BY <1>2, WriteTypes DEF ActivationWritten, RollbackWritten
  <2>2. /\ \A t \in ActivationWrites : \E i \in 1 .. Len(t) : t[i] = "pointer"
        /\ \A t \in RollbackWrites : \E i \in 1 .. Len(t) : t[i] = "pointer"
    BY PlansEndWithPointer
  <2> QED
    BY <2>1, <2>2
<1>3. ServingInv /\ [Next]_vars
        => [/\ pointer' # pointer =>
                 \E c \in Callers :
                    /\ lock = c
                    /\ pointer = job[c].seen
                    /\ \/ pointer' \in Releases /\ pointer = anchor[pointer'.proposal]
                       \/ pointer \in Releases /\ pointer' = RollbackTarget(pointer)
            /\ \A c \in Callers :
                 pc[c] # "failed" /\ pc'[c] = "failed" => ~ HasMoved(c)]_vars
  BY <1>1, <1>2
<1> QED
  BY <1>3, ServingInvariant, PTL DEF Spec, MovesFromWhatWasSeen
=============================================================================
