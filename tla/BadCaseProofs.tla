---------------------------- MODULE BadCaseProofs ----------------------------
(***************************************************************************)
(* What is proved of the diagnosis of bad cases.                           *)
(*                                                                         *)
(* Of the store of the human oracle: it keeps one chain of annotations per *)
(* case, its seals stay valid, and it implements the sheet of labels, for  *)
(* any number of cases, batches, owners and annotations.                   *)
(*                                                                         *)
(* Of the supervised runs: a receipt of the supervisor proves a completed  *)
(* run, and a run answered as failed or busy stays one, for any number of  *)
(* runs: whatever the child publishes while it is being terminated,        *)
(* whichever process dies and whichever write fails.                       *)
(***************************************************************************)
EXTENDS HumanOracle, BadCaseSupervisor, FiniteSetTheorems, TLAPS

(***************************************************************************)
(* The store of the human oracle.                                          *)
(***************************************************************************)

OneOwner == \A b \in Batches : \A x, y \in Owners(b) : x = y

(* _latest_by_case: exactly one annotation of a case is not superseded, and *)
(* it is the last one.                                                      *)
IsLast(i, kind, c) ==
    /\ i \in Of(kind, c)
    /\ Leaves(kind, c) = {i}
    /\ \A j \in Of(kind, c) : j <= i
OneLeaf == \A kind \in Kinds, c \in Cases :
               Of(kind, c) # {} => \E i \in Of(kind, c) : IsLast(i, kind, c)

(* A behavior refers to an intent that was there before it.                 *)
IntentsComeFirst ==
    \A i \in DOMAIN log : log[i].intent # None => log[i].intent < i

LogInv == /\ TypeOK
          /\ IsFiniteSet(seals)
          /\ ActionsAreUnique
          /\ OneOwner
          /\ LinksAreComplete
          /\ OneLeaf
          /\ IntentsComeFirst

OracleInv == LogInv /\ SealsStayValid
-----------------------------------------------------------------------------
(* What an operation reads.                                                *)

LEMMA LatestIsLast ==
    ASSUME OneLeaf, NEW kind \in Kinds, NEW c \in Cases
    PROVE  /\ Of(kind, c) = {} => Latest(kind, c) = None
           /\ Of(kind, c) # {} => IsLast(Latest(kind, c), kind, c)
<1>1. CASE Of(kind, c) = {}
  BY <1>1 DEF Latest
<1>2. CASE Of(kind, c) # {}
  <2>1. PICK i \in Of(kind, c) : IsLast(i, kind, c)
    BY <1>2 DEF OneLeaf
  <2>2. Latest(kind, c) = CHOOSE j \in {i} : TRUE
    BY <1>2, <2>1 DEF Latest, IsLast
  <2>3. Latest(kind, c) = i
    BY <2>2
  <2> QED
    BY <1>2, <2>1, <2>3
<1> QED
  BY <1>1, <1>2

LEMMA LatestTypes ==
    ASSUME TypeOK, OneLeaf, NEW kind \in Kinds, NEW c \in Cases
    PROVE  /\ Latest(kind, c) \in DOMAIN log \cup {None}
           /\ DOMAIN log \subseteq Ids
           /\ Latest(kind, c) # None => Latest(kind, c) \in Of(kind, c)
           /\ Of(kind, c) # {} => Latest(kind, c) # None
<1>1. DOMAIN log = 1 .. Len(log) /\ Len(log) \in Nat
  BY DEF TypeOK
<1>2. None \notin DOMAIN log
  BY <1>1, OracleAssumption
<1>3. Of(kind, c) \subseteq DOMAIN log
  BY DEF Of
<1>4. Of(kind, c) # {} => Latest(kind, c) \in Of(kind, c)
  BY LatestIsLast DEF IsLast
<1>5. Of(kind, c) = {} => Latest(kind, c) = None
  BY LatestIsLast
<1> QED
  BY <1>1, <1>2, <1>3, <1>4, <1>5 DEF Ids

(* Client actions are numbers.                                              *)
LEMMA ActionsAreNumbers ==
    ASSUME TypeOK, IsFiniteSet(seals)
    PROVE  ClientActions \subseteq Nat
<1>1. IsFiniteSet({log[i].action : i \in DOMAIN log})
  <2> DEFINE f == [i \in DOMAIN log |-> log[i].action]
  <2>1. DOMAIN log = 1 .. Len(log) /\ Len(log) \in Nat
    BY DEF TypeOK
  <2>2. IsFiniteSet(DOMAIN log)
    BY <2>1, FS_Interval
  <2>3. f \in Surjection(DOMAIN log, {log[i].action : i \in DOMAIN log})
    BY DEF Surjection
  <2> QED
    BY <2>2, <2>3, FS_Surjection
<1>2. IsFiniteSet({s.action : s \in seals})
  <2> DEFINE f == [s \in seals |-> s.action]
  <2>1. f \in Surjection(seals, {s.action : s \in seals})
    BY DEF Surjection
  <2> QED
    BY <2>1, FS_Surjection
<1>3. IsFiniteSet(UsedActions)
  BY <1>1, <1>2, FS_Union DEF UsedActions
<1>4. Cardinality(UsedActions) \in Nat
  BY <1>3, FS_CardinalityType
<1>5. UsedActions \subseteq Nat
  <2>1. ASSUME NEW i \in DOMAIN log PROVE log[i].action \in Nat
    <3>1. log[i] \in Annotation
      BY DEF TypeOK
    <3> QED
      BY <3>1 DEF Annotation
  <2>2. \A s \in seals : s.action \in Nat
    BY DEF TypeOK, Seal
  <2> QED
    BY <2>1, <2>2 DEF UsedActions
<1>6. NewAction \in Nat
  BY <1>4 DEF NewAction
<1> QED
  BY <1>5, <1>6 DEF ClientActions

-----------------------------------------------------------------------------
(* Storing an annotation.                                                   *)

LEMMA AppendedLog ==
    ASSUME TypeOK, NEW a \in Annotation, log' = Append(log, a)
    PROVE  /\ DOMAIN log = 1 .. Len(log) /\ Len(log) \in Nat
           /\ DOMAIN log' = DOMAIN log \cup {Len(log) + 1}
           /\ Len(log) + 1 \notin DOMAIN log
           /\ \A i \in DOMAIN log : log'[i] = log[i] /\ i < Len(log) + 1
           /\ log'[Len(log) + 1] = a
           /\ log' \in Seq(Annotation)
           /\ Len(log) + 1 \in Ids
  BY DEF TypeOK, Ids

LEMMA AppendedOf ==
    ASSUME TypeOK, NEW a \in Annotation, log' = Append(log, a),
           NEW kind \in Kinds, NEW c \in Cases
    PROVE  /\ kind = a.kind /\ c = a.case => Of(kind, c)' = Of(kind, c) \cup {Len(log) + 1}
           /\ ~ (kind = a.kind /\ c = a.case) => Of(kind, c)' = Of(kind, c)
  BY AppendedLog DEF Of

(* The annotations of another case or kind are what they were.              *)
LEMMA OthersStay ==
    ASSUME TypeOK, NEW a \in Annotation, log' = Append(log, a),
           NEW kind \in Kinds, NEW c \in Cases, ~ (kind = a.kind /\ c = a.case)
    PROVE  /\ Of(kind, c)' = Of(kind, c)
           /\ Leaves(kind, c)' = Leaves(kind, c)
           /\ Latest(kind, c)' = Latest(kind, c)
<1>1. Of(kind, c)' = Of(kind, c)
  BY AppendedOf
<1>2. \A i \in Of(kind, c) : log'[i] = log[i]
  BY AppendedLog DEF Of
<1>3. {log'[i].previous : i \in Of(kind, c)} = {log[i].previous : i \in Of(kind, c)}
  BY <1>2
<1>4. Leaves(kind, c)' = Leaves(kind, c)
  BY <1>1, <1>3 DEF Leaves
<1> QED
  BY <1>1, <1>4 DEF Latest

(* An annotation that supersedes the latest one is the latest one.          *)
LEMMA NewIsLast ==
    ASSUME LogInv, NEW a \in Annotation, log' = Append(log, a),
           NEW kind \in Kinds, NEW c \in Cases, kind = a.kind, c = a.case,
           a.previous = Latest(kind, c), NEW n \in Nat, n = Len(log) + 1
    PROVE  /\ IsLast(n, kind, c)'
           /\ Latest(kind, c)' = n
<1>1. /\ TypeOK /\ OneLeaf /\ LinksAreComplete
      /\ kind \in Kinds /\ c \in Cases
  BY DEF LogInv, Annotation
<1>2. /\ Of(kind, c)' = Of(kind, c) \cup {n}
      /\ n \notin DOMAIN log /\ n \in Nat
      /\ \A i \in DOMAIN log : log'[i] = log[i] /\ i < n
      /\ log'[n] = a
      /\ DOMAIN log = 1 .. Len(log)
  BY <1>1, AppendedOf, AppendedLog
<1>3. Of(kind, c) \subseteq DOMAIN log
  BY DEF Of
<1>4. \A i \in Of(kind, c) : log[i].previous # n
  <2> SUFFICES ASSUME NEW i \in Of(kind, c) PROVE log[i].previous # n
    OBVIOUS
  <2>1. i \in DOMAIN log
    BY <1>3
  <2>2. log[i].previous = None \/ log[i].previous \in Of(log[i].kind, log[i].case)
    BY <1>1, <2>1 DEF LinksAreComplete
  <2>3. None # n
    BY <1>2, OracleAssumption
  <2>4. n \notin Of(log[i].kind, log[i].case)
    BY <1>2 DEF Of
  <2> QED
    BY <2>2, <2>3, <2>4
<1>5. a.previous # n
  <2>1. Latest(kind, c) \in DOMAIN log \cup {None}
    BY <1>1, LatestTypes
  <2> QED
    BY <1>2, <2>1, OracleAssumption
<1>6. Leaves(kind, c) \subseteq {a.previous}
  <2>1. CASE Of(kind, c) = {}
    BY <2>1 DEF Leaves
  <2>2. CASE Of(kind, c) # {}
    BY <1>1, <2>2, LatestIsLast DEF IsLast
  <2> QED
    BY <2>1, <2>2
<1>7. Leaves(kind, c)' = {n}
  <2>1. Leaves(kind, c)' = (Of(kind, c) \cup {n})
                              \ {log'[i].previous : i \in Of(kind, c) \cup {n}}
    BY <1>2 DEF Leaves
  <2>2. \A i \in Of(kind, c) : log'[i].previous = log[i].previous
    BY <1>2, <1>3
  <2>3. {log'[i].previous : i \in Of(kind, c) \cup {n}}
           = {log[i].previous : i \in Of(kind, c)} \cup {a.previous}
    <3>1. PICK old : old = Of(kind, c)
      OBVIOUS
    <3>2. PICK p : p = a.previous
      OBVIOUS
    <3>3. log'[n].previous = p
      BY <1>2, <3>2
    <3>4. \A i \in old : log'[i].previous = log[i].previous
      BY <2>2, <3>1
    <3>5. {log'[i].previous : i \in old \cup {n}} = {log[i].previous : i \in old} \cup {p}
      BY <3>3, <3>4, Zenon
    <3> QED
      BY <3>1, <3>2, <3>5
  <2>4. Of(kind, c) \subseteq {log[i].previous : i \in Of(kind, c)} \cup {a.previous}
    BY <1>6 DEF Leaves
  <2> QED
    <3>1. PICK links : links = {log[i].previous : i \in Of(kind, c)}
      OBVIOUS
    <3>2. n \notin links
      BY <1>4, <3>1
    <3>3. Leaves(kind, c)' = (Of(kind, c) \cup {n}) \ (links \cup {a.previous})
      BY <2>1, <2>3, <3>1
    <3>4. Of(kind, c) \subseteq links \cup {a.previous}
      BY <2>4, <3>1
    <3> QED
      BY <1>5, <3>2, <3>3, <3>4
<1>8. IsLast(n, kind, c)'
  <2>1. \A j \in Of(kind, c) \cup {n} : j <= n
    BY <1>2, <1>3
  <2> QED
    BY <1>2, <1>7, <2>1 DEF IsLast
<1>9. Latest(kind, c)' = n
  <2>1. Of(kind, c)' # {}
    BY <1>2
  <2>2. Latest(kind, c)' = CHOOSE i \in {n} : TRUE
    BY <1>7, <2>1 DEF Latest
  <2> QED
    BY <2>2
<1> QED
  BY <1>8, <1>9

LEMMA StoreKeepsLinks ==
    ASSUME LogInv, NEW a \in Annotation, log' = Append(log, a),
           a.previous = Latest(a.kind, a.case)
    PROVE  LinksAreComplete'
<1>1. TypeOK /\ OneLeaf /\ LinksAreComplete
  BY DEF LogInv
<1>2. PICK n \in Nat : n = Len(log) + 1
  BY <1>1, AppendedLog
<1>3. /\ DOMAIN log' = DOMAIN log \cup {n}
      /\ n \notin DOMAIN log
      /\ \A i \in DOMAIN log : log'[i] = log[i] /\ i < n /\ i \in Nat /\ log[i] \in Annotation
      /\ log'[n] = a
  BY <1>1, <1>2, AppendedLog DEF TypeOK
<1>4. ASSUME NEW i \in DOMAIN log', NEW kind \in Kinds, NEW c \in Cases, NEW p,
             kind = log'[i].kind, c = log'[i].case, p = log'[i].previous
      PROVE  LET earlier == {j \in Of(kind, c)' : j < i} IN
             IF earlier = {} THEN p = None
                             ELSE p \in earlier /\ \A j \in earlier : j <= p
  <2>1. Of(kind, c)' \subseteq Of(kind, c) \cup {n} /\ Of(kind, c) \subseteq Of(kind, c)'
    BY <1>1, <1>2, AppendedOf
  <2>2. Of(kind, c) \subseteq DOMAIN log
    BY DEF Of
  <2>3. CASE i \in DOMAIN log
    <3>1. {j \in Of(kind, c)' : j < i} = {j \in Of(kind, c) : j < i}
      BY <1>2, <1>3, <2>1, <2>3
    <3>2. kind = log[i].kind /\ c = log[i].case /\ p = log[i].previous
      BY <1>3, <1>4, <2>3
    <3> QED
      BY <1>1, <2>3, <3>1, <3>2 DEF LinksAreComplete
  <2>4. CASE i = n
    <3>1. {j \in Of(kind, c)' : j < i} = Of(kind, c)
      BY <1>2, <1>3, <2>1, <2>2, <2>4
    <3>2. p = Latest(kind, c)
      BY <1>3, <1>4, <2>4
    <3> QED
      BY <1>1, <3>1, <3>2, LatestIsLast DEF IsLast
  <2> QED
    BY <1>3, <2>3, <2>4
<1>5. \A i \in DOMAIN log' : log'[i] \in Annotation
  BY <1>3
<1> QED
  BY <1>4, <1>5 DEF LinksAreComplete, Annotation

LEMMA StoreKeepsLeaf ==
    ASSUME LogInv, NEW a \in Annotation, log' = Append(log, a),
           a.previous = Latest(a.kind, a.case)
    PROVE  OneLeaf'
<1>1. TypeOK /\ OneLeaf
  BY DEF LogInv
<1>2. PICK n \in Nat : n = Len(log) + 1
  BY <1>1, AppendedLog
<1> SUFFICES ASSUME NEW kind \in Kinds, NEW c \in Cases, Of(kind, c)' # {}
             PROVE  \E i \in Of(kind, c)' : IsLast(i, kind, c)'
  BY DEF OneLeaf
<1>3. CASE kind = a.kind /\ c = a.case
  <2>1. IsLast(n, kind, c)'
    BY <1>2, <1>3, NewIsLast
  <2> QED
    BY <2>1 DEF IsLast
<1>4. CASE ~ (kind = a.kind /\ c = a.case)
  <2>1. Of(kind, c)' = Of(kind, c) /\ Leaves(kind, c)' = Leaves(kind, c)
    BY <1>1, <1>4, OthersStay
  <2>2. PICK i \in Of(kind, c) : IsLast(i, kind, c)
    BY <1>1, <2>1 DEF OneLeaf
  <2>3. IsLast(i, kind, c)'
    BY <2>1, <2>2 DEF IsLast
  <2> QED
    BY <2>1, <2>3
<1> QED
  BY <1>3, <1>4

LEMMA StoreKeepsOwners ==
    ASSUME LogInv, NEW a \in Annotation, log' = Append(log, a), UNCHANGED seals,
           Accepted(BatchOf[a.case], a.action, a.actor)
    PROVE  ActionsAreUnique' /\ OneOwner'
<1>1. TypeOK /\ ActionsAreUnique /\ OneOwner
  BY DEF LogInv
<1>2. PICK n \in Nat : n = Len(log) + 1
  BY <1>1, AppendedLog
<1>3. /\ DOMAIN log' = DOMAIN log \cup {n}
      /\ n \notin DOMAIN log
      /\ \A i \in DOMAIN log : log'[i] = log[i]
      /\ log'[n] = a
  BY <1>1, <1>2, AppendedLog
<1>4. ActionsAreUnique'
  <2>1. /\ \A i \in DOMAIN log : log[i].action # a.action
        /\ \A s \in seals : s.action # a.action
    BY DEF Accepted, UsedActions
  <2> QED
    BY <1>1, <1>3, <2>1 DEF ActionsAreUnique
<1>5. OneOwner'
  <2> SUFFICES ASSUME NEW b \in Batches, NEW x \in Owners(b)', NEW y \in Owners(b)'
               PROVE  x = y
    BY DEF OneOwner, Batches
  <2>1. CASE b = BatchOf[a.case]
    <3>1. \A z \in Owners(b)' : z \in Owners(b) \/ z = a.actor
      BY <1>3 DEF Owners, InBatch
    <3>2. Owners(b) \subseteq {a.actor}
      BY <2>1 DEF Accepted
    <3> QED
      BY <3>1, <3>2
  <2>2. CASE b # BatchOf[a.case]
    <3>1. \A z \in Owners(b)' : z \in Owners(b)
      BY <1>3, <2>2 DEF Owners, InBatch
    <3> QED
      BY <1>1, <3>1 DEF OneOwner
  <2> QED
    BY <2>1, <2>2
<1> QED
  BY <1>4, <1>5

LEMMA StoreKeepsLog ==
    ASSUME LogInv, NEW a \in Annotation, log' = Append(log, a), UNCHANGED seals,
           Accepted(BatchOf[a.case], a.action, a.actor),
           a.previous = Latest(a.kind, a.case),
           a.kind = "intent" => a.case \in Synthetic,
           a.intent \in DOMAIN log \cup {None}
    PROVE  LogInv'
<1>1. TypeOK /\ IntentsComeFirst /\ IsFiniteSet(seals)
  BY DEF LogInv
<1>2. PICK n \in Nat : n = Len(log) + 1
  BY <1>1, AppendedLog
<1>3. /\ DOMAIN log' = DOMAIN log \cup {n}
      /\ \A i \in DOMAIN log : log'[i] = log[i] /\ i < n
      /\ log'[n] = a
      /\ log' \in Seq(Annotation)
  BY <1>1, <1>2, AppendedLog
<1>4. TypeOK'
  BY <1>1, <1>3 DEF TypeOK
<1>5. IntentsComeFirst'
  BY <1>1, <1>3 DEF IntentsComeFirst
<1> QED
  BY <1>1, <1>4, <1>5, StoreKeepsLinks, StoreKeepsLeaf, StoreKeepsOwners DEF LogInv

(* The labels of the other cases are what they were.                        *)
LEMMA OtherCasesStay ==
    ASSUME LogInv, NEW a \in Annotation, log' = Append(log, a),
           NEW c \in Cases, c # a.case
    PROVE  /\ Latest("intent", c)' = Latest("intent", c)
           /\ ValidBehavior(c)' = ValidBehavior(c)
<1>1. TypeOK /\ OneLeaf
  BY DEF LogInv
<1>2. /\ Latest("intent", c)' = Latest("intent", c)
      /\ Latest("behavior", c)' = Latest("behavior", c)
  BY <1>1, OthersStay DEF Kinds
<1>3. PICK i : i = Latest("behavior", c)
  OBVIOUS
<1>4. i # None => i \in DOMAIN log
  BY <1>1, <1>3, LatestTypes DEF Kinds
<1>5. i # None => log'[i] = log[i]
  BY <1>1, <1>4, AppendedLog
<1> QED
  BY <1>2, <1>3, <1>5 DEF ValidBehavior

LEMMA StoreKeepsSeals ==
    ASSUME OracleInv, NEW a \in Annotation, log' = Append(log, a), UNCHANGED seals,
           ~ Sealed(BatchOf[a.case])
    PROVE  SealsStayValid'
<1>1. LogInv /\ SealsStayValid
  BY DEF OracleInv
<1>2. ASSUME NEW s \in seals
      PROVE  /\ SealedIntents(s.batch)' = SealedIntents(s.batch)
             /\ SealedBehaviors(s.batch)' = SealedBehaviors(s.batch)
  <2>1. s.batch # BatchOf[a.case]
    BY <1>2 DEF Sealed
  <2>2. ASSUME NEW c \in Cases, BatchOf[c] = s.batch
        PROVE  /\ Latest("intent", c)' = Latest("intent", c)
               /\ ValidBehavior(c)' = ValidBehavior(c)
    BY <1>1, <2>1, <2>2, OtherCasesStay
  <2> QED
    BY <2>2 DEF SealedIntents, SealedBehaviors, Cases
<1> QED
  BY <1>1, <1>2 DEF SealsStayValid

-----------------------------------------------------------------------------
(* The operations.                                                          *)

(* What both kinds of submission store.                                     *)
Stores(a) ==
    /\ a \in Annotation
    /\ log' = Append(log, a) /\ UNCHANGED seals
    /\ Accepted(BatchOf[a.case], a.action, a.actor)
    /\ a.previous = Latest(a.kind, a.case)
    /\ a.kind = "intent" => a.case \in Synthetic
    /\ a.intent \in DOMAIN log \cup {None}

IntentOf(c, action, actor, judgment) ==
    [kind |-> "intent", case |-> c, action |-> action, actor |-> actor,
     judgment |-> judgment, previous |-> Latest("intent", c), intent |-> None]
BehaviorOf(c, action, actor, judgment, intent) ==
    [kind |-> "behavior", case |-> c, action |-> action, actor |-> actor,
     judgment |-> judgment, previous |-> Latest("behavior", c), intent |-> intent]

LEMMA IntentStores ==
    ASSUME LogInv, NEW c \in Cases, NEW action \in ClientActions, NEW actor \in Actors,
           SubmitIntent(c, action, actor)
    PROVE  \E judgment \in IntentJudgments :
              /\ Stores(IntentOf(c, action, actor, judgment))
              /\ c \in Synthetic
<1>1. PICK judgment \in IntentJudgments :
         log' = Append(log, IntentOf(c, action, actor, judgment))
  BY DEF SubmitIntent, StoreIntent, IntentOf
<1>2. /\ Latest("intent", c) \in Ids \cup {None}
      /\ action \in Nat
  BY LatestTypes, ActionsAreNumbers DEF LogInv, Kinds
<1>3. IntentOf(c, action, actor, judgment) \in Annotation
  BY <1>2 DEF IntentOf, Annotation, Kinds, Judgments
<1>4. c \in Synthetic
  BY DEF SubmitIntent, Cases
<1> QED
  BY <1>1, <1>3, <1>4 DEF Stores, IntentOf, SubmitIntent

LEMMA BehaviorStores ==
    ASSUME LogInv, NEW c \in Cases, NEW action \in ClientActions, NEW actor \in Actors,
           SubmitBehavior(c, action, actor)
    PROVE  \E judgment \in BehaviorJudgments, intent \in DOMAIN log \cup {None} :
              /\ Stores(BehaviorOf(c, action, actor, judgment, intent))
              /\ FitsCurrentIntent(c, intent, judgment)
<1>1. PICK intent \in DOMAIN log \cup {None}, judgment \in BehaviorJudgments :
         /\ FitsCurrentIntent(c, intent, judgment)
         /\ log' = Append(log, BehaviorOf(c, action, actor, judgment, intent))
  BY DEF SubmitBehavior, BehaviorOf, Seen
<1>2. /\ Latest("behavior", c) \in Ids \cup {None}
      /\ DOMAIN log \subseteq Ids
      /\ action \in Nat
  BY LatestTypes, ActionsAreNumbers DEF LogInv, Kinds
<1>3. BehaviorOf(c, action, actor, judgment, intent) \in Annotation
  BY <1>2 DEF BehaviorOf, Annotation, Kinds, Judgments
<1> QED
  BY <1>1, <1>3 DEF Stores, BehaviorOf, SubmitBehavior

LEMMA StoreKeeps ==
    ASSUME OracleInv, NEW a, Stores(a)
    PROVE  OracleInv'
<1>1. LogInv'
  BY StoreKeepsLog DEF OracleInv, Stores
<1>2. SealsStayValid'
  BY StoreKeepsSeals DEF OracleInv, Stores, Accepted
<1> QED
  BY <1>1, <1>2 DEF OracleInv

LEMMA ValidBehaviorTypes ==
    ASSUME LogInv, NEW c \in Cases
    PROVE  /\ ValidBehavior(c) \in Ids \cup {None}
           /\ ValidBehavior(c) # None => /\ ValidBehavior(c) = Latest("behavior", c)
                                         /\ ValidBehavior(c) \in Of("behavior", c)
  BY LatestTypes DEF LogInv, Kinds, ValidBehavior

(* A batch is sealed once, with what is the latest then.                    *)
LEMMA SealKeeps ==
    ASSUME OracleInv, NEW b \in Batches, NEW action \in ClientActions, NEW actor \in Actors,
           SealBatch(b, action, actor)
    PROVE  OracleInv'
<1>1. LogInv /\ SealsStayValid
  BY DEF OracleInv
<1>2. PICK s : s = [batch |-> b, action |-> action, actor |-> actor,
                    intents |-> SealedIntents(b), behaviors |-> SealedBehaviors(b)]
  OBVIOUS
<1>3. /\ seals' = seals \cup {s} /\ UNCHANGED log
      /\ Accepted(b, action, actor) /\ Complete(b)
  BY <1>2 DEF SealBatch
<1>4. s \in Seal
  <2>1. SealedIntents(b) \in [Synthetic -> Ids \cup {None}]
    BY <1>1, LatestTypes DEF LogInv, Kinds, SealedIntents, Cases
  <2>2. SealedBehaviors(b) \in [Cases -> Ids \cup {None}]
    BY <1>1, ValidBehaviorTypes DEF SealedBehaviors
  <2>3. action \in Nat
    BY <1>1, ActionsAreNumbers DEF LogInv
  <2> QED
    BY <1>2, <2>1, <2>2, <2>3 DEF Seal
<1>5. TypeOK' /\ IsFiniteSet(seals')
  BY <1>1, <1>3, <1>4, FS_AddElement DEF LogInv, TypeOK
<1>6. ActionsAreUnique'
  BY <1>1, <1>2, <1>3 DEF LogInv, ActionsAreUnique, Accepted, UsedActions
<1>7. OneOwner'
  <2> SUFFICES ASSUME NEW d \in Batches, NEW x \in Owners(d)', NEW y \in Owners(d)'
               PROVE  x = y
    BY DEF OneOwner
  <2>1. CASE d = b
    <3>1. \A z \in Owners(d)' : z \in Owners(d) \/ z = actor
      BY <1>2, <1>3 DEF Owners, InBatch
    <3> QED
      BY <1>3, <2>1, <3>1 DEF Accepted
  <2>2. CASE d # b
    <3>1. \A z \in Owners(d)' : z \in Owners(d)
      BY <1>2, <1>3, <2>2 DEF Owners, InBatch
    <3> QED
      BY <1>1, <3>1 DEF LogInv, OneOwner
  <2> QED
    BY <2>1, <2>2
<1>8. LinksAreComplete' /\ OneLeaf' /\ IntentsComeFirst'
  BY <1>1, <1>3
  DEF LogInv, LinksAreComplete, OneLeaf, IntentsComeFirst, IsLast, Leaves, Of
<1>9. SealsStayValid'
  <2>1. /\ SealedIntents(b) = s.intents /\ SealedBehaviors(b) = s.behaviors /\ s.batch = b
    BY <1>2
  <2>2. \A d : SealedIntents(d)' = SealedIntents(d) /\ SealedBehaviors(d)' = SealedBehaviors(d)
    BY <1>3 DEF SealedIntents, SealedBehaviors, ValidBehavior, Latest, Leaves, Of
  <2>3. \A c \in Cases : BatchOf[c] = b => s.behaviors[c] # None
    BY <1>3, <2>1 DEF SealedBehaviors, Complete
  <2>4. \A t \in seals : t.batch # b
    BY <1>3 DEF Accepted, Sealed
  <2> QED
    BY <1>1, <1>3, <2>1, <2>2, <2>3, <2>4 DEF SealsStayValid
<1> QED
  BY <1>5, <1>6, <1>7, <1>8, <1>9 DEF OracleInv, LogInv

LEMMA StepKeeps == OracleInv /\ [Next]_vars => OracleInv'
<1> SUFFICES ASSUME OracleInv, [Next]_vars PROVE OracleInv'
  OBVIOUS
<1>1. ASSUME NEW action \in ClientActions, NEW actor \in Actors, NEW c \in Cases,
             SubmitIntent(c, action, actor)
      PROVE  OracleInv'
  BY <1>1, IntentStores, StoreKeeps DEF OracleInv
<1>2. ASSUME NEW action \in ClientActions, NEW actor \in Actors, NEW c \in Cases,
             SubmitBehavior(c, action, actor)
      PROVE  OracleInv'
  BY <1>2, BehaviorStores, StoreKeeps DEF OracleInv
<1>3. CASE UNCHANGED vars
  <2>1. log' = log /\ seals' = seals
    BY <1>3 DEF vars
  <2>2. \A kind, c : /\ Of(kind, c)' = Of(kind, c)
                    /\ Leaves(kind, c)' = Leaves(kind, c)
                    /\ Latest(kind, c)' = Latest(kind, c)
    BY <2>1 DEF Latest, Leaves, Of
  <2>3. OneLeaf' /\ LinksAreComplete'
    BY <2>1, <2>2 DEF OracleInv, LogInv, OneLeaf, LinksAreComplete, IsLast
  <2>4. TypeOK' /\ ActionsAreUnique' /\ IntentsComeFirst' /\ IsFiniteSet(seals')
    BY <2>1 DEF OracleInv, LogInv, TypeOK, ActionsAreUnique, IntentsComeFirst
  <2>5. OneOwner'
    BY <2>1 DEF OracleInv, LogInv, OneOwner, Owners, InBatch
  <2>6. \A c : ValidBehavior(c)' = ValidBehavior(c)
    BY <2>1, <2>2 DEF ValidBehavior
  <2>7. \A d : SealedIntents(d)' = SealedIntents(d) /\ SealedBehaviors(d)' = SealedBehaviors(d)
    BY <2>2, <2>6 DEF SealedIntents, SealedBehaviors
  <2>8. SealsStayValid'
    BY <2>1, <2>7 DEF OracleInv, SealsStayValid
  <2> QED
    BY <2>3, <2>4, <2>5, <2>8 DEF OracleInv, LogInv
<1> QED
  BY <1>1, <1>2, <1>3, SealKeeps DEF Next

LEMMA InitKeeps == Init => OracleInv
<1> SUFFICES ASSUME Init PROVE OracleInv
  OBVIOUS
<1>1. log = <<>> /\ DOMAIN log = {} /\ seals = {}
  BY DEF Init
<1>2. LogInv
  BY <1>1, FS_EmptySet
  DEF LogInv, TypeOK, ActionsAreUnique, OneOwner, Owners, InBatch, LinksAreComplete,
      OneLeaf, Of, IntentsComeFirst
<1>3. SealsStayValid
  BY <1>1 DEF SealsStayValid
<1> QED
  BY <1>2, <1>3 DEF OracleInv

(* Every order, repetition and staleness of the submissions.                *)
THEOREM OracleInvariant == Spec => []OracleInv
  BY InitKeeps, StepKeeps, PTL DEF Spec

THEOREM OracleTypes == Spec => []TypeOK
<1>1. OracleInv => TypeOK
  BY DEF OracleInv, LogInv
<1> QED
  BY <1>1, OracleInvariant, PTL

(* The annotations of a case form one chain in the order they were stored,  *)
(* those of a batch have one owner, and no client action is used twice.     *)
THEOREM OneChainPerCase == Spec => []HistoryIsChain
<1>1. OracleInv => HistoryIsChain
  <2> SUFFICES ASSUME OracleInv PROVE HistoryIsChain
    OBVIOUS
  <2>1. ASSUME NEW b \in Batches PROVE Cardinality(Owners(b)) <= 1
    <3>1. CASE Owners(b) = {}
      BY <3>1, FS_EmptySet
    <3>2. CASE Owners(b) # {}
      <4>1. PICK x : Owners(b) = {x}
        BY <3>2 DEF OracleInv, LogInv, OneOwner
      <4> QED
        BY <4>1, FS_Singleton
    <3> QED
      BY <3>1, <3>2
  <2> QED
    BY <2>1 DEF HistoryIsChain, OneOwnerPerBatch, OracleInv, LogInv
<1> QED
  BY <1>1, OracleInvariant, PTL

(* What a seal lists stays the latest there is, whatever arrives later.     *)
THEOREM SealsAreForEver == Spec => []SealsStayValid
<1>1. OracleInv => SealsStayValid
  BY DEF OracleInv
<1> QED
  BY <1>1, OracleInvariant, PTL

-----------------------------------------------------------------------------
(* The sheet of labels.                                                     *)

IntentLabels   == [c \in Synthetic |-> JudgmentOf(Latest("intent", c))]
BehaviorLabels == [c \in Cases |-> JudgmentOf(ValidBehavior(c))]
SealedBatches  == {b \in Batches : Sealed(b)}

LEMMA InitIsEmptySheet == Init => Sheet!Init
<1> SUFFICES ASSUME Init PROVE Sheet!Init
  OBVIOUS
<1>1. /\ log = <<>> /\ seals = {}
      /\ \A kind, c : Latest(kind, c) = None
  BY DEF Init, Latest, Of
<1>2. \A c : ValidBehavior(c) = None
  BY <1>1 DEF ValidBehavior
<1> QED
  BY <1>1, <1>2 DEF Sheet!Init, JudgmentOf, Sealed

LEMMA JudgmentsStay ==
    ASSUME TypeOK, NEW a \in Annotation, log' = Append(log, a),
           NEW i \in DOMAIN log \cup {None}
    PROVE  JudgmentOf(i)' = JudgmentOf(i)
  BY AppendedLog DEF JudgmentOf

(* A stored annotation leaves the intents alone, or those of other cases,   *)
(* and the behaviors of other cases.                                        *)
LEMMA LabelsStay ==
    ASSUME LogInv, NEW a \in Annotation, log' = Append(log, a), NEW c \in Cases
    PROVE  /\ ~ (a.kind = "intent" /\ c = a.case) =>
                 JudgmentOf(Latest("intent", c))' = JudgmentOf(Latest("intent", c))
           /\ c # a.case => JudgmentOf(ValidBehavior(c))' = JudgmentOf(ValidBehavior(c))
<1>1. TypeOK /\ OneLeaf
  BY DEF LogInv
<1>2. ASSUME ~ (a.kind = "intent" /\ c = a.case)
      PROVE  JudgmentOf(Latest("intent", c))' = JudgmentOf(Latest("intent", c))
  <2>1. PICK i \in DOMAIN log \cup {None} : i = Latest("intent", c)
    BY <1>1, LatestTypes DEF Kinds
  <2>2. i = Latest("intent", c)'
    BY <1>1, <1>2, <2>1, OthersStay DEF Kinds
  <2>3. JudgmentOf(i)' = JudgmentOf(i)
    BY <1>1, JudgmentsStay
  <2> QED
    BY <2>1, <2>2, <2>3
<1>3. ASSUME c # a.case
      PROVE  JudgmentOf(ValidBehavior(c))' = JudgmentOf(ValidBehavior(c))
  <2>1. PICK i \in DOMAIN log \cup {None} : i = ValidBehavior(c)
    BY <1>1, LatestTypes DEF Kinds, ValidBehavior
  <2>2. i = ValidBehavior(c)'
    BY <1>3, <2>1, OtherCasesStay
  <2>3. JudgmentOf(i)' = JudgmentOf(i)
    BY <1>1, JudgmentsStay
  <2> QED
    BY <2>1, <2>2, <2>3
<1> QED
  BY <1>2, <1>3

LEMMA IntentLabelsSheet ==
    ASSUME LogInv, NEW c \in Cases, NEW action \in ClientActions, NEW actor \in Actors,
           SubmitIntent(c, action, actor)
    PROVE  c \in Synthetic /\ Sheet!LabelIntent(c)
<1>1. TypeOK /\ OneLeaf /\ IntentsComeFirst
  BY DEF LogInv
<1>2. PICK judgment \in IntentJudgments :
         Stores(IntentOf(c, action, actor, judgment)) /\ c \in Synthetic
  BY IntentStores
<1>3. PICK a : a = IntentOf(c, action, actor, judgment)
  OBVIOUS
<1>4. /\ a.kind = "intent" /\ a.case = c /\ a.judgment = judgment
      /\ a.previous = Latest("intent", c)
      /\ a \in Annotation /\ log' = Append(log, a) /\ UNCHANGED seals
      /\ ~ Sealed(BatchOf[c])
  BY <1>2, <1>3 DEF IntentOf, Stores, Accepted
<1>5. PICK n \in Nat : n = Len(log) + 1
  BY <1>1, AppendedLog
<1>6. /\ n \notin DOMAIN log \cup {None} /\ log'[n] = a
      /\ \A i \in DOMAIN log : log'[i] = log[i] /\ i \in Nat /\ i < n
  BY <1>1, <1>4, <1>5, AppendedLog, OracleAssumption
<1>7. JudgmentOf(Latest("intent", c))' = judgment
  <2>1. Latest("intent", c)' = n
    BY <1>4, <1>5, NewIsLast DEF Kinds
  <2>2. JudgmentOf(n)' = judgment
    BY <1>4, <1>6 DEF JudgmentOf
  <2> QED
    BY <2>1, <2>2
<1>8. JudgmentOf(ValidBehavior(c))' = None
  <2>1. PICK i \in DOMAIN log \cup {None} : i = Latest("behavior", c)
    BY <1>1, LatestTypes DEF Kinds
  <2>2. i = Latest("behavior", c)'
    BY <1>1, <1>4, <2>1, OthersStay DEF Kinds
  <2>3. Latest("intent", c)' = n
    BY <1>4, <1>5, NewIsLast DEF Kinds
  <2>4. i # None => log'[i].intent # n
    <3>1. i # None => log[i].intent = None \/ log[i].intent < i
      BY <1>1 DEF IntentsComeFirst
    <3>2. i # None => ~ (n < i)
      BY <1>6
    <3>3. i # None => n # i
      BY <1>6
    <3> QED
      BY <1>6, <3>1, <3>2, <3>3
  <2>5. ValidBehavior(c)' = None
    BY <1>2, <2>2, <2>3, <2>4 DEF ValidBehavior
  <2> QED
    BY <2>5 DEF JudgmentOf
<1>9. /\ IntentLabels' = [IntentLabels EXCEPT ![c] = judgment]
      /\ BehaviorLabels' = [BehaviorLabels EXCEPT ![c] = None]
  BY <1>2, <1>4, <1>7, <1>8, LabelsStay DEF IntentLabels, BehaviorLabels, Cases
<1>10. IntentLabels'[c] = judgment
  BY <1>2, <1>9 DEF IntentLabels
<1>11. SealedBatches' = SealedBatches /\ BatchOf[c] \notin SealedBatches
  BY <1>4 DEF SealedBatches, Sealed
<1> QED
  BY <1>2, <1>9, <1>10, <1>11
  DEF Sheet!LabelIntent, IntentLabels, BehaviorLabels, SealedBatches

LEMMA BehaviorLabelsSheet ==
    ASSUME LogInv, NEW c \in Cases, NEW action \in ClientActions, NEW actor \in Actors,
           SubmitBehavior(c, action, actor)
    PROVE  Sheet!LabelBehavior(c)
<1>1. TypeOK /\ OneLeaf
  BY DEF LogInv
<1>2. PICK judgment \in BehaviorJudgments, intent \in DOMAIN log \cup {None} :
         /\ Stores(BehaviorOf(c, action, actor, judgment, intent))
         /\ FitsCurrentIntent(c, intent, judgment)
  BY BehaviorStores
<1>3. PICK a : a = BehaviorOf(c, action, actor, judgment, intent)
  OBVIOUS
<1>4. /\ a.kind = "behavior" /\ a.case = c /\ a.judgment = judgment /\ a.intent = intent
      /\ a.previous = Latest("behavior", c)
      /\ a \in Annotation /\ log' = Append(log, a) /\ UNCHANGED seals
      /\ ~ Sealed(BatchOf[c])
  BY <1>2, <1>3 DEF BehaviorOf, Stores, Accepted
<1>5. PICK n \in Nat : n = Len(log) + 1
  BY <1>1, AppendedLog
<1>6. n # None /\ log'[n] = a
  BY <1>1, <1>4, <1>5, AppendedLog, OracleAssumption
<1>7. Latest("intent", c)' = Latest("intent", c)
  BY <1>1, <1>4, OthersStay DEF Kinds
<1>8. c \in Synthetic => intent = Latest("intent", c) /\ intent # None
  BY <1>2, OracleAssumption DEF FitsCurrentIntent
<1>9. JudgmentOf(ValidBehavior(c))' = judgment
  <2>1. Latest("behavior", c)' = n
    BY <1>4, <1>5, NewIsLast DEF Kinds
  <2>2. ValidBehavior(c)' = n
    BY <1>4, <1>6, <1>7, <1>8, <2>1 DEF ValidBehavior
  <2>3. JudgmentOf(n)' = judgment
    BY <1>4, <1>6 DEF JudgmentOf
  <2> QED
    BY <2>2, <2>3
<1>10. Fits(c, IF c \in Synthetic THEN IntentLabels[c] ELSE None, judgment)
  <2>1. CASE c \in Synthetic
    BY <1>2, <1>8, <2>1 DEF FitsCurrentIntent, IntentLabels, JudgmentOf
  <2>2. CASE c \notin Synthetic
    BY <1>2, <2>2 DEF FitsCurrentIntent, Cases
  <2> QED
    BY <2>1, <2>2
<1>11. /\ IntentLabels' = IntentLabels
       /\ BehaviorLabels' = [BehaviorLabels EXCEPT ![c] = judgment]
  <2>1. \A d \in Synthetic : JudgmentOf(Latest("intent", d))' = JudgmentOf(Latest("intent", d))
    BY <1>4, LabelsStay DEF Cases
  <2>2. \A d \in Cases \ {c} : JudgmentOf(ValidBehavior(d))' = JudgmentOf(ValidBehavior(d))
    BY <1>4, LabelsStay
  <2> QED
    BY <1>9, <2>1, <2>2 DEF IntentLabels, BehaviorLabels
<1>12. BehaviorLabels'[c] = judgment
  BY <1>11 DEF BehaviorLabels
<1>13. SealedBatches' = SealedBatches /\ BatchOf[c] \notin SealedBatches
  BY <1>4 DEF SealedBatches, Sealed
<1> QED
  BY <1>10, <1>11, <1>12, <1>13
  DEF Sheet!LabelBehavior, IntentLabels, BehaviorLabels, SealedBatches

LEMMA SealFreezesSheet ==
    ASSUME LogInv, NEW b \in Batches, NEW action \in ClientActions, NEW actor \in Actors,
           SealBatch(b, action, actor)
    PROVE  Sheet!Seal(b)
<1>1. /\ Accepted(b, action, actor) /\ Complete(b) /\ UNCHANGED log
      /\ \E s : s.batch = b /\ seals' = seals \cup {s}
  BY DEF SealBatch
<1>2. b \notin SealedBatches /\ SealedBatches' = SealedBatches \cup {b}
  BY <1>1 DEF Accepted, Sealed, SealedBatches
<1>3. IntentLabels' = IntentLabels /\ BehaviorLabels' = BehaviorLabels
  BY <1>1 DEF IntentLabels, BehaviorLabels, JudgmentOf, ValidBehavior, Latest, Leaves, Of
<1>4. \A i \in DOMAIN log : JudgmentOf(i) # None
  <2> SUFFICES ASSUME NEW i \in DOMAIN log PROVE JudgmentOf(i) # None
    OBVIOUS
  <2>1. log[i] \in Annotation
    BY DEF LogInv, TypeOK
  <2>2. i # None
    BY OracleAssumption DEF LogInv, TypeOK
  <2> QED
    BY <2>1, <2>2, OracleAssumption DEF Annotation, JudgmentOf
<1>5. ASSUME NEW c \in Cases, BatchOf[c] = b
      PROVE  /\ c \in Synthetic => IntentLabels[c] # None
             /\ BehaviorLabels[c] # None
  <2>1. c \in Synthetic => Latest("intent", c) \in DOMAIN log
    BY <1>1, <1>5, LatestTypes DEF Complete, LogInv, Kinds
  <2>2. ValidBehavior(c) \in DOMAIN log
    BY <1>1, <1>5, ValidBehaviorTypes DEF Complete, Of
  <2> QED
    BY <1>4, <2>1, <2>2 DEF IntentLabels, BehaviorLabels
<1> QED
  BY <1>2, <1>3, <1>5 DEF Sheet!Seal, IntentLabels, BehaviorLabels, SealedBatches

LEMMA StepLabels ==
    ASSUME LogInv, [Next]_vars
    PROVE  Sheet!Next \/ UNCHANGED <<IntentLabels, BehaviorLabels, SealedBatches>>
<1>1. CASE Next
  BY <1>1, IntentLabelsSheet, BehaviorLabelsSheet, SealFreezesSheet DEF Next, Sheet!Next
<1>2. CASE UNCHANGED vars
  BY <1>2 DEF vars, IntentLabels, BehaviorLabels, SealedBatches, Sealed, JudgmentOf,
              ValidBehavior, Latest, Leaves, Of
<1> QED
  BY <1>1, <1>2

(* The store implements the sheet of labels: a new intent erases the        *)
(* behavior label of its case, a behavior fits the intent next to it, and a *)
(* sealed sheet is complete and stays what it is.                           *)
THEOREM StoreImplementsSheet == Spec => ImplementsLabelSheet
<1>1. OracleInv /\ [Next]_vars =>
         [Sheet!Next]_<<[c \in Synthetic |-> JudgmentOf(Latest("intent", c))],
                        [c \in Cases |-> JudgmentOf(ValidBehavior(c))],
                        {b \in Batches : Sealed(b)}>>
  BY StepLabels DEF OracleInv, IntentLabels, BehaviorLabels, SealedBatches
<1> QED
  BY <1>1, InitIsEmptySheet, OracleInvariant, PTL DEF Spec, ImplementsLabelSheet, Sheet!Spec

(***************************************************************************)
(* The supervised runs.                                                    *)
(***************************************************************************)

(* A run that was not dispatched has no child and no files of one.          *)
Untouched(e) ==
    sup[e] = "idle" => /\ worker[e] = "none"
                       /\ ~ execution[e]
                       /\ ~ receipt[e]
                       /\ answer[e] = "none"

(* A run without a child never gets a receipt of it.                        *)
NoChildNoReceipt(e) == worker[e] = "none" => ~ execution[e]

(* The parent settles a run when its child is gone, or knows that it is not. *)
SettledWithoutChild(e) ==
    sup[e] = "settle" /\ reason[e] \in {"exit", "deadline"}
        => unreaped[e] \/ ~ Alive(e)

ReceiptHolds(e) ==
    receipt[e] => /\ execution[e]
                  /\ attempt[e] = "none"
                  /\ ~ Alive(e)
                  /\ sup[e] \in {"report", "done", "gone"}

AnswerHolds(e) ==
    /\ answer[e] # "none" => sup[e] = "done"
    /\ answer[e] = "completed" => receipt[e]
    /\ answer[e] \in {"failed", "busy"} => ~ execution[e] /\ ~ Alive(e)

Sound(e) == /\ Untouched(e)
            /\ NoChildNoReceipt(e)
            /\ SettledWithoutChild(e)
            /\ ReceiptHolds(e)
            /\ AnswerHolds(e)

SupervisorInv == SupervisorTypeOK /\ \A e \in Executions : Sound(e)

LEMMA InitSound == SupervisorInit => SupervisorInv
  BY SupervisorAssumption
  DEF SupervisorInit, SupervisorInv, SupervisorTypeOK, Sound, Untouched, NoChildNoReceipt,
      SettledWithoutChild, ReceiptHolds, AnswerHolds, Alive, SupSteps, Reasons,
      Answers, WorkerSteps, Attempts

(* Whatever becomes of its failed attempt, an ending call keeps the types.  *)
LEMMA AttemptTypes ==
    ASSUME SupervisorTypeOK, NEW r \in Executions, NEW a \in Answers, EndWithAttempt(r, a)
    PROVE  /\ sup' \in [Executions -> SupSteps]
           /\ reason' \in [Executions -> Reasons]
           /\ unreaped' \in [Executions -> BOOLEAN]
           /\ answer' \in [Executions -> Answers]
           /\ envelope' \in [Executions ->
                                {"none", "completed", "failed", "in_progress"}]
           /\ attempt' \in [Executions -> Attempts]
           /\ supLock' \in Executions \cup {Nobody}
<1>1. \E b \in Answers : Answer(r, b)
  BY DEF EndWithAttempt, Answers
<1>2. attempt' = attempt \/ \E k \in Attempts : attempt' = [attempt EXCEPT ![r] = k]
  BY DEF EndWithAttempt, WriteAttempt, Attempts
<1>3. attempt' \in [Executions -> Attempts]
  BY <1>2 DEF SupervisorTypeOK
<1>4. PICK b \in Answers : Answer(r, b)
  BY <1>1
<1>5. /\ sup' \in [Executions -> SupSteps]
      /\ reason' \in [Executions -> Reasons]
      /\ answer' \in [Executions -> Answers]
  BY <1>4 DEF SupervisorTypeOK, Answer, Leave, SupGoto, SupSteps, Reasons
<1>6. /\ unreaped' \in [Executions -> BOOLEAN]
      /\ supLock' \in Executions \cup {Nobody}
  BY <1>4 DEF SupervisorTypeOK, Answer, Leave
<1>7. envelope' \in [Executions -> {"none", "completed", "failed", "in_progress"}]
  BY <1>4 DEF SupervisorTypeOK, Answer, Leave
<1> QED
  BY <1>3, <1>5, <1>6, <1>7

(* Every step keeps the types; that the run lock lies with a child inside    *)
(* its critical section is part of them.                                     *)
LEMMA StepTypes == SupervisorInv /\ [SupervisorNext]_supervisorVars => SupervisorTypeOK'
<1> SUFFICES ASSUME SupervisorInv, SupervisorTypeOK, [SupervisorNext]_supervisorVars PROVE SupervisorTypeOK'
  BY DEF SupervisorInv
<1> USE SupervisorAssumption
    DEF SupervisorTypeOK, SupSteps, Reasons, Answers, WorkerSteps, Attempts, parent, child,
        files, Alive
<1>1. ASSUME NEW r \in Executions, BootFails(r) PROVE SupervisorTypeOK'
  BY <1>1 DEF BootFails, Advance
<1>2. ASSUME NEW r \in Executions, TakeRunLock(r) PROVE SupervisorTypeOK'
  BY <1>2 DEF TakeRunLock, Advance
<1>3. ASSUME NEW r \in Executions, Search(r) PROVE SupervisorTypeOK'
  BY <1>3 DEF Search, Advance
<1>4. ASSUME NEW r \in Executions, PublishExecution(r) PROVE SupervisorTypeOK'
  <2>1. execution' = execution \/ execution' = [execution EXCEPT ![r] = TRUE]
    BY <1>4 DEF PublishExecution
  <2>2. execution' \in [Executions -> BOOLEAN]
    BY <2>1
  <2> QED
    BY <1>4, <2>2 DEF PublishExecution, Advance
<1>5. ASSUME NEW r \in Executions, SyncExecution(r) PROVE SupervisorTypeOK'
  BY <1>5 DEF SyncExecution, Advance
<1>6. ASSUME NEW r \in Executions, StoreFailedAttempt(r) PROVE SupervisorTypeOK'
  BY <1>6 DEF StoreFailedAttempt, Advance
<1>7. ASSUME NEW r \in Executions, ReleaseRunLock(r) PROVE SupervisorTypeOK'
  BY <1>7 DEF ReleaseRunLock, Advance
<1>8. ASSUME NEW r \in Executions, SendEnvelope(r) PROVE SupervisorTypeOK'
  BY <1>8 DEF SendEnvelope, Advance, Send, PipeClosed
<1>9. ASSUME NEW r \in Executions, Exit(r) PROVE SupervisorTypeOK'
  BY <1>9 DEF Exit, Advance
<1>10. ASSUME NEW r \in Executions, Die(r) PROVE SupervisorTypeOK'
  BY <1>10 DEF Die, Perish
<1>11. ASSUME NEW r \in Executions, WorkerCrash(r) PROVE SupervisorTypeOK'
  BY <1>11 DEF WorkerCrash, Perish
<1>12. ASSUME NEW r \in Executions, Watchdog(r) PROVE SupervisorTypeOK'
  BY <1>12 DEF Watchdog, PipeClosed
<1>13. ASSUME NEW r \in Executions, Dispatch(r) PROVE SupervisorTypeOK'
  <2>1. runLock # r
    BY <1>13 DEF Dispatch, SupervisorInv, Sound, Untouched
  <2> QED
    BY <1>13, <2>1 DEF Dispatch, SupGoto
<1>14. ASSUME NEW r \in Executions, Refuse(r) PROVE SupervisorTypeOK'
  <2>1. \E b \in Answers : Answer(r, b)
    BY <1>14 DEF Refuse, EndNotStarted
  <2>2. PICK b \in Answers : Answer(r, b)
    BY <2>1
  <2>3. \/ attempt' = attempt
        \/ attempt' = [attempt EXCEPT ![r] = "startup"]
    BY <1>14 DEF Refuse, EndNotStarted, WriteAttempt
  <2>4. attempt' \in [Executions -> Attempts]
    BY <2>3
  <2>5. /\ sup' \in [Executions -> SupSteps]
        /\ reason' \in [Executions -> Reasons]
        /\ answer' \in [Executions -> Answers]
    BY <2>2 DEF Answer, Leave, SupGoto
  <2>6. /\ unreaped' \in [Executions -> BOOLEAN]
        /\ supLock' \in Executions \cup {Nobody}
        /\ envelope' \in [Executions -> {"none", "completed", "failed", "in_progress"}]
    BY <2>2 DEF Answer, Leave
  <2>7. UNCHANGED <<worker, runLock, signal, execution, receipt>>
    BY <1>14 DEF Refuse
  <2> QED
    BY <2>4, <2>5, <2>6, <2>7
<1>15. ASSUME NEW r \in Executions, SeeExit(r) PROVE SupervisorTypeOK'
  BY <1>15 DEF SeeExit, SupGoto
<1>16. ASSUME NEW r \in Executions, Timeout(r) PROVE SupervisorTypeOK'
  BY <1>16 DEF Timeout, Stop, SupGoto
<1>17. ASSUME NEW r \in Executions, WaitFails(r) PROVE SupervisorTypeOK'
  BY <1>17 DEF WaitFails, Stop, SupGoto
<1>18. ASSUME NEW r \in Executions, Interrupt(r) PROVE SupervisorTypeOK'
  BY <1>18 DEF Interrupt, Stop, SupGoto
<1>19. ASSUME NEW r \in Executions, Term(r) PROVE SupervisorTypeOK'
  BY <1>19 DEF Term, SupGoto, Signal
<1>20. ASSUME NEW r \in Executions, TermGraceEnds(r) PROVE SupervisorTypeOK'
  BY <1>20 DEF TermGraceEnds, SupGoto
<1>21. ASSUME NEW r \in Executions, KillGraceEnds(r) PROVE SupervisorTypeOK'
  BY <1>21 DEF KillGraceEnds, SupGoto
<1>22. ASSUME NEW r \in Executions, NotStarted(r) PROVE SupervisorTypeOK'
  BY <1>22 DEF NotStarted, Settling, Settled, EndNotStarted, Terminal, WriteAttempt,
         Answer, Leave, SupGoto
<1>23. ASSUME NEW r \in Executions, Cancelled(r) PROVE SupervisorTypeOK'
  <2>1. \E a \in Answers : EndWithAttempt(r, a)
    BY <1>23 DEF Cancelled
  <2> QED
    BY <1>23, <2>1, AttemptTypes DEF Cancelled, Settled
<1>24. ASSUME NEW r \in Executions, Conflict(r) PROVE SupervisorTypeOK'
  BY <1>24 DEF Conflict, Settling, Settled, Answer, Leave, SupGoto
<1>25. ASSUME NEW r \in Executions, Unreaped(r) PROVE SupervisorTypeOK'
  <2>1. \E a \in Answers : EndWithAttempt(r, a)
    BY <1>25 DEF Unreaped
  <2> QED
    BY <1>25, <2>1, AttemptTypes DEF Unreaped, Settled
<1>26. ASSUME NEW r \in Executions, Completed(r) PROVE SupervisorTypeOK'
  <2>1. \E stored \in BOOLEAN : receipt' = [receipt EXCEPT ![r] = stored]
    BY <1>26 DEF Completed
  <2>2. receipt' \in [Executions -> BOOLEAN]
    BY <2>1
  <2>3. CASE Leave(r, "report") /\ UNCHANGED answer
    BY <1>26, <2>2, <2>3 DEF Completed, Settled, Leave, SupGoto
  <2>4. CASE Answer(r, "error")
    BY <1>26, <2>2, <2>4 DEF Completed, Settled, Answer, Leave, SupGoto
  <2> QED
    BY <1>26, <2>3, <2>4 DEF Completed
<1>27. ASSUME NEW r \in Executions, Fail(r) PROVE SupervisorTypeOK'
  <2>1. \E a \in Answers : EndWithAttempt(r, a)
    BY <1>27 DEF Fail
  <2> QED
    BY <1>27, <2>1, AttemptTypes DEF Fail, Settled
<1>28. ASSUME NEW r \in Executions, InProgress(r) PROVE SupervisorTypeOK'
  BY <1>28 DEF InProgress, Settling, Settled, Answer, Leave, SupGoto
<1>29. ASSUME NEW r \in Executions, Report(r) PROVE SupervisorTypeOK'
  BY <1>29 DEF Report, Answer, Leave, SupGoto
<1>30. ASSUME NEW r \in Executions, Crash(r) PROVE SupervisorTypeOK'
  BY <1>30 DEF Crash, Leave, SupGoto
<1>31. ASSUME UNCHANGED supervisorVars PROVE SupervisorTypeOK'
  BY <1>31 DEF supervisorVars
<1> QED
  BY <1>1, <1>2, <1>3, <1>4, <1>5, <1>6, <1>7, <1>8, <1>9, <1>10,
     <1>11, <1>12, <1>13, <1>14, <1>15, <1>16, <1>17, <1>18, <1>19,
     <1>20, <1>21, <1>22, <1>23, <1>24, <1>25, <1>26, <1>27, <1>28,
     <1>29, <1>30, <1>31
  DEF SupervisorNext, ParentStep, Work, Settle

(* Every step keeps what is known of every run: of the one that takes the   *)
(* step and, as no action touches another one, of the rest.                 *)
LEMMA StepSound == SupervisorInv /\ [SupervisorNext]_supervisorVars => SupervisorInv'
<1> SUFFICES ASSUME SupervisorInv, [SupervisorNext]_supervisorVars, SupervisorTypeOK', NEW e \in Executions
             PROVE Sound(e)'
  BY StepTypes DEF SupervisorInv
<1>0. SupervisorTypeOK /\ \A k \in Executions : Sound(k)
  BY DEF SupervisorInv
<1> USE SupervisorAssumption, <1>0
    DEF SupervisorTypeOK, Sound, Untouched, NoChildNoReceipt, SettledWithoutChild,
        ReceiptHolds, AnswerHolds, Alive, WorkerSteps, parent, child, files
<1>1. ASSUME NEW r \in Executions, BootFails(r) PROVE Sound(e)'
  BY <1>1 DEF BootFails, Advance
<1>2. ASSUME NEW r \in Executions, TakeRunLock(r) PROVE Sound(e)'
  BY <1>2 DEF TakeRunLock, Advance
<1>3. ASSUME NEW r \in Executions, Search(r) PROVE Sound(e)'
  BY <1>3 DEF Search, Advance
<1>4. ASSUME NEW r \in Executions, PublishExecution(r) PROVE Sound(e)'
  BY <1>4 DEF PublishExecution, Advance
<1>5. ASSUME NEW r \in Executions, SyncExecution(r) PROVE Sound(e)'
  BY <1>5 DEF SyncExecution, Advance
<1>6. ASSUME NEW r \in Executions, StoreFailedAttempt(r) PROVE Sound(e)'
  BY <1>6 DEF StoreFailedAttempt, Advance
<1>7. ASSUME NEW r \in Executions, ReleaseRunLock(r) PROVE Sound(e)'
  BY <1>7 DEF ReleaseRunLock, Advance
<1>8. ASSUME NEW r \in Executions, SendEnvelope(r) PROVE Sound(e)'
  BY <1>8 DEF SendEnvelope, Advance, Send, PipeClosed
<1>9. ASSUME NEW r \in Executions, Exit(r) PROVE Sound(e)'
  BY <1>9 DEF Exit, Advance
<1>10. ASSUME NEW r \in Executions, Die(r) PROVE Sound(e)'
  BY <1>10 DEF Die, Perish
<1>11. ASSUME NEW r \in Executions, WorkerCrash(r) PROVE Sound(e)'
  BY <1>11 DEF WorkerCrash, Perish
<1>12. ASSUME NEW r \in Executions, Watchdog(r) PROVE Sound(e)'
  BY <1>12 DEF Watchdog, PipeClosed
<1>13. ASSUME NEW r \in Executions, Dispatch(r) PROVE Sound(e)'
  BY <1>13 DEF Dispatch, SupGoto
<1>14. ASSUME NEW r \in Executions, Refuse(r) PROVE Sound(e)'
  BY <1>14 DEF Refuse, Answer, Leave, SupGoto, EndNotStarted, Terminal,
         WriteAttempt
<1>15. ASSUME NEW r \in Executions, SeeExit(r) PROVE Sound(e)'
  BY <1>15 DEF SeeExit, SupGoto
<1>16. ASSUME NEW r \in Executions, Timeout(r) PROVE Sound(e)'
  BY <1>16 DEF Timeout, Stop, SupGoto
<1>17. ASSUME NEW r \in Executions, WaitFails(r) PROVE Sound(e)'
  BY <1>17 DEF WaitFails, Stop, SupGoto
<1>18. ASSUME NEW r \in Executions, Interrupt(r) PROVE Sound(e)'
  BY <1>18 DEF Interrupt, Stop, SupGoto
<1>19. ASSUME NEW r \in Executions, Term(r) PROVE Sound(e)'
  BY <1>19 DEF Term, SupGoto, Signal
<1>20. ASSUME NEW r \in Executions, TermGraceEnds(r) PROVE Sound(e)'
  BY <1>20 DEF TermGraceEnds, SupGoto
<1>21. ASSUME NEW r \in Executions, KillGraceEnds(r) PROVE Sound(e)'
  <2>1. CASE e = r
    <3>1. sup'[e] = "settle" /\ unreaped'[e] = Alive(e) /\ sup[e] = "kill"
      BY <1>21, <2>1 DEF KillGraceEnds, SupGoto
    <3> QED
      BY <1>21, <3>1 DEF KillGraceEnds
  <2>2. CASE e # r
    <3>1. sup'[e] = sup[e] /\ unreaped'[e] = unreaped[e]
      BY <1>21, <2>2 DEF KillGraceEnds, SupGoto
    <3> QED
      BY <1>21, <3>1 DEF KillGraceEnds
  <2> QED
    BY <2>1, <2>2
<1>22. ASSUME NEW r \in Executions, NotStarted(r) PROVE Sound(e)'
  BY <1>22 DEF NotStarted, Settling, Settled, EndNotStarted, Terminal, WriteAttempt,
         Answer, Leave, SupGoto
<1>23. ASSUME NEW r \in Executions, Cancelled(r) PROVE Sound(e)'
  BY <1>23 DEF Cancelled, Settling, Settled, EndWithAttempt, Terminal, WriteAttempt,
         Answer, Leave, SupGoto
<1>24. ASSUME NEW r \in Executions, Conflict(r) PROVE Sound(e)'
  BY <1>24 DEF Conflict, Settling, Settled, Answer, Leave, SupGoto
<1>25. ASSUME NEW r \in Executions, Unreaped(r) PROVE Sound(e)'
  BY <1>25 DEF Unreaped, Settling, Settled, EndWithAttempt, Terminal, WriteAttempt,
         Answer, Leave, SupGoto
<1>26. ASSUME NEW r \in Executions, Completed(r) PROVE Sound(e)'
  BY <1>26 DEF Completed, Settling, Settled, Answer, Leave, SupGoto
<1>27. ASSUME NEW r \in Executions, Fail(r) PROVE Sound(e)'
  BY <1>27 DEF Fail, Settling, Settled, EndWithAttempt, Terminal, WriteAttempt,
         Answer, Leave, SupGoto
<1>28. ASSUME NEW r \in Executions, InProgress(r) PROVE Sound(e)'
  BY <1>28 DEF InProgress, Settling, Settled, Answer, Leave, SupGoto
<1>29. ASSUME NEW r \in Executions, Report(r) PROVE Sound(e)'
  BY <1>29 DEF Report, Answer, Leave, SupGoto
<1>30. ASSUME NEW r \in Executions, Crash(r) PROVE Sound(e)'
  BY <1>30 DEF Crash, Leave, SupGoto
<1>31. ASSUME UNCHANGED supervisorVars PROVE Sound(e)'
  BY <1>31 DEF supervisorVars
<1> QED
  BY <1>1, <1>2, <1>3, <1>4, <1>5, <1>6, <1>7, <1>8, <1>9, <1>10,
     <1>11, <1>12, <1>13, <1>14, <1>15, <1>16, <1>17, <1>18, <1>19,
     <1>20, <1>21, <1>22, <1>23, <1>24, <1>25, <1>26, <1>27, <1>28,
     <1>29, <1>30, <1>31
  DEF SupervisorNext, ParentStep, Work, Settle

(* Every reachable state satisfies the inductive invariant.                 *)
THEOREM SupervisorInvariant == SupervisorSpec => []SupervisorInv
  BY InitSound, StepSound, PTL DEF SupervisorSpec

(* The variables of supervisor and child keep their types.                  *)
THEOREM SupervisorTypes == SupervisorSpec => []SupervisorTypeOK
<1>1. SupervisorInv => SupervisorTypeOK
  BY DEF SupervisorInv
<1> QED
  BY <1>1, SupervisorInvariant, PTL

(* A receipt of the supervisor stands beside a receipt of the child, beside *)
(* no failed attempt and no living child, for ever.                         *)
THEOREM ReceiptAlwaysProves == SupervisorSpec => []ReceiptIsProof
<1>1. SupervisorInv => ReceiptIsProof
  BY DEF SupervisorInv, Sound, ReceiptHolds, AnswerHolds, ReceiptIsProof
<1> QED
  BY <1>1, SupervisorInvariant, PTL

(* Behind an answer "failed" or "busy" no receipt of the child appears.     *)
THEOREM FailuresAreFinal == SupervisorSpec => []FailureIsFinal
<1>1. SupervisorInv => FailureIsFinal
  BY DEF SupervisorInv, Sound, AnswerHolds, FailureIsFinal
<1> QED
  BY <1>1, SupervisorInvariant, PTL
=============================================================================
