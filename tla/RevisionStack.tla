---------------------------- MODULE RevisionStack ----------------------------
(***************************************************************************)
(* What the release control plane and the serving pointer promise together *)
(* (docs/adr/011): the Owner approves releases; an approved release is put *)
(* on top of the revision that serves, the first one on the immutable      *)
(* baseline; and a rollback takes exactly the top one off again.  `lane'   *)
(* is the serving revision with everything it can be rolled back to, the   *)
(* oldest first.                                                           *)
(***************************************************************************)
EXTENDS Naturals, Sequences, SequencesExt

CONSTANTS Releases, Baseline

VARIABLES lane, approved

Init == lane = <<>> /\ approved = {}

Approve(r) == /\ r \in Releases \ approved
              /\ approved' = approved \cup {r}
              /\ UNCHANGED lane

Activate(r) == /\ r \in approved
               /\ r \notin ToSet(lane)
               /\ lane' = (IF lane = <<>> THEN <<Baseline>> ELSE lane) \o <<r>>
               /\ UNCHANGED approved

Rollback == /\ Len(lane) > 1
            /\ lane' = Front(lane)
            /\ UNCHANGED approved

Next == \/ \E r \in Releases : Approve(r) \/ Activate(r)
        \/ Rollback

Spec == Init /\ [][Next]_<<lane, approved>>
=============================================================================
