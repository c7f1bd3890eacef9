----------------------------- MODULE HumanOracle -----------------------------
(***************************************************************************)
(* The append-only store of the human diagnostic oracle:                   *)
(* human_oracle/storage.py.  Every operation runs under one process lock   *)
(* and one file lock and writes at most one immutable file, last, so an    *)
(* operation is one step.  What is hard is outside the lock: submissions   *)
(* are composed on an older view, arrive late, twice or in another order,  *)
(* with a client action that was used before, and by several tabs of the   *)
(* Owner.  Therefore an operation accepts any submission at any time: a    *)
(* retry is the same submission once more, and an operation that refuses   *)
(* its submission, or that finds it stored already, changes nothing.       *)
(*                                                                         *)
(* An annotation is named by its place in the log, which stands for the    *)
(* hash of its content and for nothing else.                               *)
(***************************************************************************)
EXTENDS Naturals, Sequences, FiniteSets

CONSTANTS
    Synthetic,       \* cases with a rewritten query: intent and behavior
    Identity,        \* cases with the source query: behavior only
    BatchOf,         \* case -> the batch it belongs to
    Actors,          \* pseudonymous owners
    MaxAnnotations,  \* bound on the annotations stored
    None             \* no previous annotation, no intent

Cases     == Synthetic \cup Identity
Batches   == {BatchOf[c] : c \in Cases}
Kinds     == {"intent", "behavior"}
IntentJudgments   == {"equivalent", "not_equivalent", "uncertain"}
BehaviorJudgments == {"confirmed_issue", "acceptable", "uncertain"}
Judgments == IntentJudgments \cup BehaviorJudgments

ASSUME OracleAssumption ==
    /\ Synthetic \cap Identity = {}
    /\ DOMAIN BatchOf = Synthetic \cup Identity
    /\ MaxAnnotations \in Nat
    /\ None \notin Nat \cup Judgments

VARIABLES
    log,   \* intent-annotations/ and behavior-annotations/
    seals  \* seals/

vars == <<log, seals>>

Ids == Nat \ {0}

Annotation ==
    [kind : Kinds, case : Cases, action : Nat, actor : Actors,
     judgment : Judgments, previous : Ids \cup {None}, intent : Ids \cup {None}]

Seal == [batch : Batches, action : Nat, actor : Actors,
         intents : [Synthetic -> Ids \cup {None}],
         behaviors : [Cases -> Ids \cup {None}]]

TypeOK ==
    /\ log \in Seq(Annotation)
    /\ \A s \in seals : s \in Seal
    /\ \A i \in DOMAIN log : log[i].kind = "intent" => log[i].case \in Synthetic

Init == log = <<>> /\ seals = {}
-----------------------------------------------------------------------------
(* What an operation reads.                                                *)

Of(kind, c) == {i \in DOMAIN log : log[i].kind = kind /\ log[i].case = c}

(* _latest_by_case: the annotation that no other one supersedes.            *)
Leaves(kind, c) == Of(kind, c) \ {log[i].previous : i \in Of(kind, c)}
Latest(kind, c) == IF Of(kind, c) = {} THEN None
                                       ELSE CHOOSE i \in Leaves(kind, c) : TRUE

(* Deviation: the intent a behavior was judged with is not looked at.       *)
ValidBehaviorOfAnyIntent(c) == Latest("behavior", c)

(* _valid_behaviors: a behavior counts only together with its intent.       *)
ValidBehavior(c) ==
    LET i == Latest("behavior", c) IN
    IF i # None /\ (c \in Synthetic => log[i].intent = Latest("intent", c))
    THEN i
    ELSE None

(* _behavior_matrix_error, for the judgments.                               *)
Fits(c, intent, behavior) ==
    \/ c \in Identity /\ intent = None /\ behavior \in BehaviorJudgments
    \/ c \in Synthetic /\ intent = "equivalent" /\ behavior \in BehaviorJudgments
    \/ c \in Synthetic /\ intent = "not_equivalent"
          /\ behavior \in {"acceptable", "uncertain"}
    \/ c \in Synthetic /\ intent = "uncertain" /\ behavior = "uncertain"

InBatch(b) == {i \in DOMAIN log : BatchOf[log[i].case] = b}

(* _owners_for_batch.                                                       *)
Owners(b) == {log[i].actor : i \in InBatch(b)}
                \cup {s.actor : s \in {t \in seals : t.batch = b}}

(* _find_client_action looks through all three directories.                 *)
UsedActions == {log[i].action : i \in DOMAIN log} \cup {s.action : s \in seals}

(* Client actions are UUIDs that are only ever compared: one that was used  *)
(* before, or a new one.                                                    *)
NewAction     == Cardinality(UsedActions) + 1
ClientActions == UsedActions \cup {NewAction}

Sealed(b) == \E s \in seals : s.batch = b

(* Deviations: a client action of another directory is not found; another   *)
(* owner may continue a batch.                                              *)
AcceptedIgnoringSeals(b, action, actor) ==
    /\ action \notin {log[i].action : i \in DOMAIN log}
    /\ Owners(b) \subseteq {actor}
    /\ ~ Sealed(b)
AcceptedFromAnyone(b, action, actor) ==
    /\ action \notin UsedActions
    /\ ~ Sealed(b)

(* What submit_intent, submit_behavior and seal begin with.  A client       *)
(* action that is known either replays its own submission or is refused.    *)
Accepted(b, action, actor) ==
    /\ action \notin UsedActions
    /\ Owners(b) \subseteq {actor}
    /\ ~ Sealed(b)
-----------------------------------------------------------------------------
(* A submission names the annotation it expects to supersede, and a         *)
(* behavior the intent it was judged with: any the client may have seen.    *)
Seen == DOMAIN log \cup {None}

StoreIntent(c, action, actor, judgment, expected) ==
    log' = Append(log, [kind |-> "intent", case |-> c, action |-> action,
                        actor |-> actor, judgment |-> judgment,
                        previous |-> expected, intent |-> None])

(* Deviations: the expected previous annotation is not compared; identity   *)
(* cases take intent labels.                                                *)
SubmitIntentUnchecked(c, action, actor) ==
    /\ Len(log) < MaxAnnotations
    /\ Accepted(BatchOf[c], action, actor)
    /\ c \notin Identity
    /\ \E expected \in Seen, judgment \in IntentJudgments :
          StoreIntent(c, action, actor, judgment, expected)
    /\ UNCHANGED seals
SubmitIntentOnIdentity(c, action, actor) ==
    /\ Len(log) < MaxAnnotations
    /\ Accepted(BatchOf[c], action, actor)
    /\ \E expected \in Seen, judgment \in IntentJudgments :
          /\ expected = Latest("intent", c)
          /\ StoreIntent(c, action, actor, judgment, expected)
    /\ UNCHANGED seals

SubmitIntent(c, action, actor) ==
    /\ Len(log) < MaxAnnotations
    /\ Accepted(BatchOf[c], action, actor)
    /\ c \notin Identity
    /\ \E expected \in Seen, judgment \in IntentJudgments :
          /\ expected = Latest("intent", c)
          /\ StoreIntent(c, action, actor, judgment, expected)
    /\ UNCHANGED seals

(* _validate_behavior_against_intent.                                       *)
FitsCurrentIntent(c, intent, judgment) ==
    /\ IF c \in Identity THEN intent = None
                         ELSE intent # None /\ intent = Latest("intent", c)
    /\ Fits(c, IF intent = None THEN None ELSE log[intent].judgment, judgment)

SubmitBehavior(c, action, actor) ==
    /\ Len(log) < MaxAnnotations
    /\ Accepted(BatchOf[c], action, actor)
    /\ \E expected, intent \in Seen, judgment \in BehaviorJudgments :
          /\ FitsCurrentIntent(c, intent, judgment)
          /\ expected = Latest("behavior", c)
          /\ log' = Append(log, [kind |-> "behavior", case |-> c,
                                 action |-> action, actor |-> actor,
                                 judgment |-> judgment,
                                 previous |-> expected, intent |-> intent])
    /\ UNCHANGED seals

(* The annotations that a seal of batch b lists.                            *)
SealedIntents(b) ==
    [c \in Synthetic |-> IF BatchOf[c] = b THEN Latest("intent", c) ELSE None]
SealedBehaviors(b) ==
    [c \in Cases |-> IF BatchOf[c] = b THEN ValidBehavior(c) ELSE None]

(* Deviation: an invalidated behavior counts as present.                    *)
CompleteWithStale(b) ==
    \A c \in Cases : BatchOf[c] = b =>
        /\ c \in Synthetic => Latest("intent", c) # None
        /\ Latest("behavior", c) # None

Complete(b) ==
    \A c \in Cases : BatchOf[c] = b =>
        /\ c \in Synthetic => Latest("intent", c) # None
        /\ ValidBehavior(c) # None

SealBatch(b, action, actor) ==
    /\ Accepted(b, action, actor)
    /\ Complete(b)
    /\ seals' = seals \cup {[batch |-> b, action |-> action, actor |-> actor,
                             intents |-> SealedIntents(b),
                             behaviors |-> SealedBehaviors(b)]}
    /\ UNCHANGED log

Next ==
    \E action \in ClientActions, actor \in Actors :
        \/ \E c \in Cases : SubmitIntent(c, action, actor)
        \/ \E c \in Cases : SubmitBehavior(c, action, actor)
        \/ \E b \in Batches : SealBatch(b, action, actor)

Spec == Init /\ [][Next]_vars
-----------------------------------------------------------------------------
(* What must hold.                                                         *)

(* "compare-and-swap rejects stale edits": the annotations of a case form   *)
(* one chain in the order they were stored, whatever view their authors     *)
(* had, so that _latest_by_case never finds a branch or a missing link; and *)
(* the annotations of a batch are by "the first pseudonymous owner who      *)
(* annotates it".  "client action ID appears more than once" is never       *)
(* raised, over annotations of all batches and seals.                       *)
ActionsAreUnique ==
    /\ \A i, j \in DOMAIN log : log[i].action = log[j].action => i = j
    /\ \A s, t \in seals : s.action = t.action => s = t
    /\ \A s \in seals : s.action \notin {log[i].action : i \in DOMAIN log}
OneOwnerPerBatch == \A b \in Batches : Cardinality(Owners(b)) <= 1
LinksAreComplete ==
    \A i \in DOMAIN log :
        LET earlier == {j \in Of(log[i].kind, log[i].case) : j < i} IN
        IF earlier = {} THEN log[i].previous = None
                        ELSE /\ log[i].previous \in earlier
                             /\ \A j \in earlier : j <= log[i].previous
HistoryIsChain == ActionsAreUnique /\ OneOwnerPerBatch /\ LinksAreComplete

(* _validate_seal_state holds of every stored seal for ever: the sealed     *)
(* annotations are the current ones, complete, and none is invalidated.     *)
SealsStayValid ==
    \A s \in seals :
        /\ s.intents = SealedIntents(s.batch)
        /\ s.behaviors = SealedBehaviors(s.batch)
        /\ \A c \in Cases : BatchOf[c] = s.batch => s.behaviors[c] # None
        /\ \A t \in seals : t.batch = s.batch => t = s

(* The store implements the sheet of labels, for every order, repetition    *)
(* and staleness of the submissions.                                        *)
JudgmentOf(i) == IF i = None THEN None ELSE log[i].judgment

Sheet == INSTANCE LabelSheet WITH
           intent   <- [c \in Synthetic |-> JudgmentOf(Latest("intent", c))],
           behavior <- [c \in Cases |-> JudgmentOf(ValidBehavior(c))],
           sealed   <- {b \in Batches : Sealed(b)}

ImplementsLabelSheet == Sheet!Spec
=============================================================================
