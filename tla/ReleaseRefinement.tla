-------------------------- MODULE ReleaseRefinement --------------------------
(***************************************************************************)
(* RetrievalRelease implements RevisionStack: the lane is read off the     *)
(* pointer by following the rollback targets recorded in the revisions.    *)
(***************************************************************************)
EXTENDS RetrievalRelease, SequencesExt

(* The proposals that have been given a rollback target.                    *)
Anchored == {p \in Proposals : parent[p] # Absent}

(* Every release rolls back to the one before it, the first one to the      *)
(* baseline.                                                                *)
Stacked(releases) ==
    \A i \in DOMAIN releases :
        RollbackTarget(releases[i]) = IF i = 1 THEN Baseline ELSE releases[i - 1]

(* What serves when these releases are stacked on the baseline.             *)
Top(releases) == IF releases = <<>> THEN Baseline ELSE Last(releases)

(* The releases that the pointer can be taken back through.                 *)
Served == CHOOSE releases \in SeqOf(Anchored, Cardinality(Anchored)) :
              Stacked(releases) /\ Top(releases) = pointer

Lane == IF pointer = NoRevision THEN <<>> ELSE <<Baseline>> \o Served

Stack == INSTANCE RevisionStack
           WITH Releases <- Proposals, lane <- Lane,
                approved <- {p \in Proposals : Approved(p)}

(* Over all interleavings of requests, crashes and failed writes, what      *)
(* serves is a stack of approved releases on the baseline: a release never  *)
(* ends up below itself, every rollback target is reachable, and a rollback *)
(* restores exactly what served before the release.                         *)
ImplementsRevisionStack == Stack!Spec
=============================================================================
