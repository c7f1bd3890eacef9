-------------------------- MODULE RetrievalServing --------------------------
(***************************************************************************)
(* The serving plane of catalog/serving.py in file detail: activations and *)
(* rollbacks write content-addressed revision and receipt files and then   *)
(* the pointer, under .serving.lock; searches and readiness probes read    *)
(* the pointer, the revision and the index without any lock; an index      *)
(* build replaces the catalog v2 index file at any time; the process may   *)
(* stop between any two of these steps.                                    *)
(*                                                                         *)
(* A revision file is named by the hash of its content, which includes the *)
(* proposal (and with it the parent) and the index, so a revision is the   *)
(* pair of the two.  The baseline index is not rebuilt here.               *)
(***************************************************************************)
EXTENDS Naturals, Sequences, FiniteSets

CONSTANTS
    Proposals,   \* approved proposals
    Indexes,     \* contents the catalog v2 index file can have
    Callers,     \* threads that activate or roll back
    Searchers,   \* threads that search the active lane
    SyncMayFail, \* may syncing the directory fail after a file was replaced?
    Baseline,    \* the immutable baseline revision
    NoRevision,  \* no active.json: legacy baseline serving
    Absent,      \* not set
    Free         \* nobody holds .serving.lock

Releases  == [proposal : Proposals, index : Indexes]
Revisions == Releases \cup {Baseline}
Pointers  == Revisions \cup {NoRevision}

ASSUME ServingAssumption ==
    /\ Baseline \notin Releases
    /\ NoRevision \notin Revisions
    /\ Absent \notin Pointers \cup Indexes
    /\ Free \notin Callers
    /\ SyncMayFail \in BOOLEAN

VARIABLES
    anchor,     \* proposal -> the parent_active_revision of its content
    revisions,  \* revisions/<id>.json files
    receipts,   \* revisions with a stored activation or rollback receipt
    pointer,    \* active.json
    index,      \* identity of the catalog v2 index file
    lock,       \* holder of .serving.lock
    pc, job,    \* callers: where they are, and what they work on
    at, query   \* searchers: where they are, and what they resolved

files    == <<revisions, receipts, pointer>>
calls    == <<pc, job>>
searches == <<at, query>>
vars     == <<anchor, files, index, lock, calls, searches>>

Writes  == {"baseline", "revision", "receipt", "pointer"}
Ended   == {"idle", "failed"}
Steps   == Ended \cup {"load", "sentinel", "lock", "locked", "write", "sync"}

(* `seen' is the revision an activation was validated against, and the one  *)
(* a rollback expects; `to' is the revision it is about to publish.         *)
Job == [kind : {"activate", "rollback"}, proposal : Proposals \cup {Absent},
        seen : Pointers, index : Indexes \cup {Absent},
        to : Revisions \cup {Absent}, todo : Seq(Writes)]

TypeOK ==
    /\ anchor \in [Proposals -> Pointers \cup {Absent}]
    /\ revisions \subseteq Revisions
    /\ receipts \subseteq Revisions
    /\ pointer \in Pointers
    /\ index \in Indexes
    /\ lock \in Callers \cup {Free}
    /\ pc \in [Callers -> Steps]
    /\ \A c \in Callers : job[c] = Absent \/ job[c] \in Job
    /\ at \in [Searchers -> {"idle", "revision", "match", "open", "execute",
                             "done", "failed"}]
    /\ query \in [Searchers -> [revision : Pointers \cup {Absent},
                                index : Indexes \cup {Absent}]]
    \* no check or write that raises keeps .serving.lock
    /\ \A c \in Callers : lock = c <=> pc[c] \in {"locked", "write", "sync"}

NoQuery == [revision |-> Absent, index |-> Absent]

Init ==
    /\ anchor = [p \in Proposals |-> Absent]
    /\ revisions = {}
    /\ receipts = {}
    /\ pointer = NoRevision
    /\ index \in Indexes
    /\ lock = Free
    /\ pc = [c \in Callers |-> "idle"]
    /\ job = [c \in Callers |-> Absent]
    /\ at = [s \in Searchers |-> "idle"]
    /\ query = [s \in Searchers |-> NoQuery]
-----------------------------------------------------------------------------
(* rollback_strategy_revision of a release: its parent, or the baseline     *)
(* revision that its activation stored.                                     *)
RollbackTarget(r) ==
    IF anchor[r.proposal] = NoRevision THEN Baseline ELSE anchor[r.proposal]

Goto(c, step) == /\ pc' = [pc EXCEPT ![c] = step]
                 /\ UNCHANGED job

(* A call ends with a receipt (`idle') or with an exception (`failed').     *)
End(c, how) == /\ pc' = [pc EXCEPT ![c] = how]
               /\ job' = [job EXCEPT ![c] = Absent]
Fail(c) == End(c, "failed")

(* Raising inside `with _serving_lock' gives the lock back.                 *)
Unlock == lock' = Free
-----------------------------------------------------------------------------
(* The surroundings: proposals are anchored to the pointer by the control   *)
(* plane, and build_catalog_index_v2 replaces the index file.               *)

Propose(p) ==
    /\ anchor[p] = Absent
    /\ anchor' = [anchor EXCEPT ![p] = pointer]
    /\ UNCHANGED <<files, index, lock, calls, searches>>

PublishIndex(i) ==
    /\ i # index
    /\ index' = i
    /\ UNCHANGED <<anchor, files, lock, calls, searches>>
-----------------------------------------------------------------------------
(* validate_and_activate_retrieval_strategy.                                *)

BeginActivation(c, p) ==
    /\ pc[c] \in Ended
    /\ anchor[p] # Absent
    /\ IF anchor[p] = pointer
       THEN /\ pc' = [pc EXCEPT ![c] = "load"]
            /\ job' = [job EXCEPT ![c] =
                          [kind |-> "activate", proposal |-> p, seen |-> pointer,
                           index |-> Absent, to |-> Absent, todo |-> <<>>]]
       ELSE Fail(c)
    /\ UNCHANGED <<anchor, files, index, lock, searches>>

(* Deviation: the identity of the loaded index is not kept.                 *)
LoadPipelineWithoutIdentity(c) ==
    /\ pc[c] = "load"
    /\ pc' = [pc EXCEPT ![c] = "lock"]
    /\ UNCHANGED <<anchor, files, index, lock, job, searches>>

LoadPipeline(c) ==
    /\ pc[c] = "load"
    /\ \/ /\ pc' = [pc EXCEPT ![c] = "sentinel"]
          /\ job' = [job EXCEPT ![c].index = index]
       \/ Fail(c)
    /\ UNCHANGED <<anchor, files, index, lock, searches>>

(* Every sentinel query opens the index again and compares its identity;    *)
(* the latency gate and the stage counts may fail too.                      *)
RunSentinel(c) ==
    /\ pc[c] = "sentinel"
    /\ \/ /\ index = job[c].index
          /\ Goto(c, "lock")
       \/ Fail(c)
    /\ UNCHANGED <<anchor, files, index, lock, searches>>

BeginRollback(c, expected) ==
    /\ pc[c] \in Ended
    /\ job' = [job EXCEPT ![c] =
                  [kind |-> "rollback", proposal |-> Absent, seen |-> expected,
                   index |-> Absent, to |-> Absent, todo |-> <<>>]]
    /\ pc' = [pc EXCEPT ![c] = "lock"]
    /\ UNCHANGED <<anchor, files, index, lock, searches>>

(* The lock is waited for, at most ten seconds.                             *)
TakeLock(c) ==
    /\ pc[c] = "lock"
    /\ \/ lock = Free /\ lock' = c /\ Goto(c, "locked")
       \/ Fail(c) /\ UNCHANGED lock
    /\ UNCHANGED <<anchor, files, index, searches>>

Plan(c, to, todo) ==
    /\ job' = [job EXCEPT ![c].to = to, ![c].todo = todo]
    /\ pc' = [pc EXCEPT ![c] = "write"]

(* Deviations: the pointer is not compared again under the lock; the        *)
(* pointer is written ahead of the receipt that proves it.                  *)
PlanActivationUnchecked(c) ==
    LET j == job[c]
        r == [proposal |-> j.proposal, index |-> j.index] IN
    Plan(c, r, (IF j.seen = NoRevision THEN <<"baseline">> ELSE <<>>)
                   \o <<"revision", "receipt", "pointer">>)
PlanActivationPointerFirst(c) ==
    LET j == job[c]
        r == [proposal |-> j.proposal, index |-> j.index] IN
    /\ pointer = j.seen
    /\ Plan(c, r, (IF j.seen = NoRevision THEN <<"baseline">> ELSE <<>>)
                      \o <<"revision", "pointer", "receipt">>)
(* The compare-and-swap, and the files in the order they are written.       *)
PlanActivation(c) ==
    LET j == job[c]
        r == [proposal |-> j.proposal, index |-> j.index] IN
    /\ pointer = j.seen
    /\ Plan(c, r, (IF j.seen = NoRevision THEN <<"baseline">> ELSE <<>>)
                      \o <<"revision", "receipt", "pointer">>)

(* The rollback checks: the pointer is the expected release, its target is  *)
(* stored, and the index the target was activated with is the one in place. *)
PlanRollback(c) ==
    /\ pointer = job[c].seen
    /\ pointer \in Releases
    /\ LET to == RollbackTarget(pointer) IN
         /\ to \in revisions
         /\ to \in Releases => to.index = index
         /\ Plan(c, to, <<"receipt", "pointer">>)

(* Deviation: a check that fails keeps the lock.                            *)
CheckKeepingLock(c) ==
    LET planned == \/ job[c].kind = "activate" /\ PlanActivation(c)
                   \/ job[c].kind = "rollback" /\ PlanRollback(c) IN
    /\ pc[c] = "locked"
    /\ planned \/ Fail(c)
    /\ UNCHANGED <<anchor, files, index, lock, searches>>

CheckUnderLock(c) ==
    LET planned == \/ job[c].kind = "activate" /\ PlanActivation(c)
                   \/ job[c].kind = "rollback" /\ PlanRollback(c) IN
    /\ pc[c] = "locked"
    /\ \/ planned /\ UNCHANGED lock
       \/ Fail(c) /\ Unlock
    /\ UNCHANGED <<anchor, files, index, searches>>

(* Deviation: the baseline revision is not stored.                          *)
WriteNextNoBaseline(c) ==
    LET j == job[c]
        w == Head(j.todo) IN
    /\ pc[c] = "write"
    /\ revisions' = IF w = "revision" THEN revisions \cup {j.to} ELSE revisions
    /\ receipts' = receipts \cup {r \in {j.to} : w = "receipt"}
    /\ pointer' = IF w = "pointer" THEN j.to ELSE pointer
    /\ job' = [job EXCEPT ![c].todo = Tail(j.todo)]
    /\ pc' = [pc EXCEPT ![c] = IF Len(j.todo) = 1 THEN "sync" ELSE "write"]
    /\ UNCHANGED <<anchor, index, lock, searches>>

(* One file at a time; a write that raises ends the call.                   *)
WriteNext(c) ==
    LET j == job[c]
        w == Head(j.todo) IN
    /\ pc[c] = "write"
    /\ \/ /\ revisions' = revisions \cup CASE w = "baseline" -> {Baseline}
                                        [] w = "revision" -> {j.to}
                                        [] OTHER -> {}
          /\ receipts' = receipts \cup {r \in {j.to} : w = "receipt"}
          /\ pointer' = IF w = "pointer" THEN j.to ELSE pointer
          /\ job' = [job EXCEPT ![c].todo = Tail(j.todo)]
          /\ pc' = [pc EXCEPT ![c] = IF Len(j.todo) = 1 THEN "sync" ELSE "write"]
          /\ UNCHANGED lock
       \/ Fail(c) /\ Unlock /\ UNCHANGED files
    /\ UNCHANGED <<anchor, index, searches>>

(* _fsync_directory, after the last file was replaced.                      *)
SyncDirectory(c) ==
    /\ pc[c] = "sync"
    /\ \/ End(c, "idle")
       \/ SyncMayFail /\ Fail(c)
    /\ Unlock
    /\ UNCHANGED <<anchor, files, index, searches>>
-----------------------------------------------------------------------------
(* ActiveCatalogSearchService.search.  The revision is one snapshot of the  *)
(* pointer; the index is opened three times: to resolve the state, to build *)
(* the service, and to run the query.                                       *)

Bound(s, i) == query[s].revision \in Releases => query[s].revision.index = i

Advance(s, place) ==
    /\ at' = [at EXCEPT ![s] = place]
    /\ query' = IF place = "failed" THEN [query EXCEPT ![s] = NoQuery] ELSE query

ReadPointer(s) ==
    /\ at[s] \in {"idle", "done", "failed"}
    /\ at' = [at EXCEPT ![s] = IF pointer = NoRevision THEN "open" ELSE "revision"]
    /\ query' = [query EXCEPT ![s] = [NoQuery EXCEPT !.revision = pointer]]
    /\ UNCHANGED <<anchor, files, index, lock, calls>>

ReadRevision(s) ==
    /\ at[s] = "revision"
    /\ Advance(s, IF query[s].revision \in revisions THEN "match" ELSE "failed")
    /\ UNCHANGED <<anchor, files, index, lock, calls>>

MatchIndex(s) ==
    /\ at[s] = "match"
    /\ Advance(s, IF Bound(s, index) THEN "open" ELSE "failed")
    /\ UNCHANGED <<anchor, files, index, lock, calls>>

OpenIndex(s) ==
    /\ at[s] = "open"
    /\ Advance(s, IF Bound(s, index) THEN "execute" ELSE "failed")
    /\ UNCHANGED <<anchor, files, index, lock, calls>>

(* Deviation: the connection that runs the query does not compare the       *)
(* identity of the file it opened.                                          *)
ExecuteUnchecked(s) ==
    /\ at[s] = "execute"
    /\ at' = [at EXCEPT ![s] = "done"]
    /\ query' = [query EXCEPT ![s].index = index]
    /\ UNCHANGED <<anchor, files, index, lock, calls>>

Execute(s) ==
    /\ at[s] = "execute"
    /\ IF Bound(s, index)
       THEN /\ at' = [at EXCEPT ![s] = "done"]
            /\ query' = [query EXCEPT ![s].index = index]
       ELSE Advance(s, "failed")
    /\ UNCHANGED <<anchor, files, index, lock, calls>>
-----------------------------------------------------------------------------
(* The process stops; the kernel drops the lock, the files stay.            *)
Crash ==
    /\ \E c \in Callers : pc[c] \notin Ended
    /\ lock' = Free
    /\ pc' = [c \in Callers |-> "idle"]
    /\ job' = [c \in Callers |-> Absent]
    /\ at' = [s \in Searchers |-> "idle"]
    /\ query' = [s \in Searchers |-> NoQuery]
    /\ UNCHANGED <<anchor, files, index>>

Continue(c) == \/ LoadPipeline(c) \/ RunSentinel(c) \/ TakeLock(c)
               \/ CheckUnderLock(c) \/ WriteNext(c) \/ SyncDirectory(c)

Resolve(s) == ReadRevision(s) \/ MatchIndex(s) \/ OpenIndex(s) \/ Execute(s)

Next ==
    \/ \E p \in Proposals : Propose(p)
    \/ \E i \in Indexes : PublishIndex(i)
    \/ \E c \in Callers :
          \/ \E p \in Proposals : BeginActivation(c, p)
          \/ \E r \in revisions : BeginRollback(c, r)
          \/ Continue(c)
    \/ \E s \in Searchers : ReadPointer(s) \/ Resolve(s)
    \/ Crash

Spec == Init /\ [][Next]_vars
-----------------------------------------------------------------------------
(* What must hold.                                                         *)

(* Whatever a reader or a rollback follows is there: the pointer, the       *)
(* target of every stored release that was ever activated, and a pointer    *)
(* that a search has read names a stored revision; and what serves has a    *)
(* receipt.  No order of writes, crashes and concurrent calls leaves a      *)
(* dangling reference.                                                      *)
ServingResolves ==
    /\ pointer # NoRevision => pointer \in revisions \cap receipts
    /\ \A r \in revisions \cap Releases : RollbackTarget(r) \in revisions
    /\ \A s \in Searchers : at[s] = "revision" => query[s].revision \in revisions

(* "A concurrent switch therefore yields either the complete old revision   *)
(* or the complete new revision, never a mixed configuration": the index a  *)
(* search ran on is the one its reported revision was activated with.       *)
SearchNeverMixed == \A s \in Searchers : at[s] = "done" => Bound(s, query[s].index)

(* The pointer is replaced over the revision the mover had seen: no         *)
(* activation lands on another parent than the one its sentinel validated,  *)
(* no rollback takes back a release it did not expect.  And "any failure    *)
(* raises a stable serving exception and leaves the active pointer          *)
(* unchanged": a call that fails has not replaced it, unless what fails is  *)
(* the directory sync that follows the replacement.                         *)
HasMoved(c) == /\ pc[c] = "write"
               /\ \A i \in 1 .. Len(job[c].todo) : job[c].todo[i] # "pointer"
MovesFromWhatWasSeen ==
    [][/\ pointer' # pointer =>
            \E c \in Callers :
               /\ lock = c
               /\ pointer = job[c].seen
               /\ \/ pointer' \in Releases /\ pointer = anchor[pointer'.proposal]
                  \/ pointer \in Releases /\ pointer' = RollbackTarget(pointer)
       /\ \A c \in Callers :
            pc[c] # "failed" /\ pc'[c] = "failed" => ~ HasMoved(c)]_vars
=============================================================================
