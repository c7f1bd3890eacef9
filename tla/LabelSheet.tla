----------------------------- MODULE LabelSheet -----------------------------
(***************************************************************************)
(* What the human oracle promises to whoever reads its labels              *)
(* (docs/HUMAN_DIAGNOSTIC_ORACLE.md, "State and integrity"): every batch   *)
(* is a sheet with one intent label per synthetic case and one behavior    *)
(* label per case.  A new intent label erases the behavior label of its    *)
(* case, a behavior label fits the intent label next to it, and a sheet is *)
(* frozen by a seal, which needs every label.                              *)
(***************************************************************************)
CONSTANTS Cases, Synthetic, BatchOf, Batches, IntentJudgments,
          BehaviorJudgments, Fits(_, _, _), None

VARIABLES intent, behavior, sealed

Init == /\ intent = [c \in Synthetic |-> None]
        /\ behavior = [c \in Cases |-> None]
        /\ sealed = {}

LabelIntent(c) ==
    /\ BatchOf[c] \notin sealed
    /\ UNCHANGED sealed
    /\ intent'[c] \in IntentJudgments
    /\ intent' = [intent EXCEPT ![c] = intent'[c]]
    /\ behavior' = [behavior EXCEPT ![c] = None]

LabelBehavior(c) ==
    /\ BatchOf[c] \notin sealed
    /\ UNCHANGED <<intent, sealed>>
    /\ behavior'[c] \in BehaviorJudgments
    /\ Fits(c, IF c \in Synthetic THEN intent[c] ELSE None, behavior'[c])
    /\ behavior' = [behavior EXCEPT ![c] = behavior'[c]]

Seal(b) ==
    /\ b \notin sealed
    /\ \A c \in Cases : BatchOf[c] = b =>
         /\ c \in Synthetic => intent[c] # None
         /\ behavior[c] # None
    /\ sealed' = sealed \cup {b}
    /\ UNCHANGED <<intent, behavior>>

Next == \/ \E c \in Synthetic : LabelIntent(c)
        \/ \E c \in Cases : LabelBehavior(c)
        \/ \E b \in Batches : Seal(b)

Spec == Init /\ [][Next]_<<intent, behavior, sealed>>
=============================================================================
