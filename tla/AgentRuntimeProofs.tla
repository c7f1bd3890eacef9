------------------------- MODULE AgentRuntimeProofs -------------------------
(***************************************************************************)
(* That the offline replay accepts every trace a run of the agent runtime  *)
(* leaves, whichever way out it took, and that no trace shows more than    *)
(* the policy allows: for any comparison policies.                         *)
(*                                                                         *)
(* What the events say was observed is a recursive function, so that its   *)
(* facts need an induction; it is done with the least number of a set.     *)
(***************************************************************************)
EXTENDS AgentRuntime, Integers, FiniteSetTheorems, WellFoundedInduction, TLAPS

LEMMA LeastNumber ==
    ASSUME NEW T, T \subseteq Nat, T # {}
    PROVE  \E n \in T : \A m \in T : n <= m
<1>1. PICK R : R = OpToRel(<, Nat) /\ IsWellFoundedOn(R, Nat)
  BY NatLessThanWellFounded
<1>2. R = {ss \in Nat \X Nat : ss[1] < ss[2]}
  BY <1>1 DEF OpToRel
<1>3. PICK n \in T : \A m \in T : ~ (<<m, n>> \in R)
  BY <1>1, WFMin
<1>4. \A m \in T : ~ (m < n)
  BY <1>2, <1>3
<1> QED
  BY <1>4

(* f is what the first n events say, number by number.                      *)
ObservedIn(f, ev, n) ==
    f = [i \in 0 .. n |->
           IF i = 0 THEN <<>>
           ELSE IF ev[i].type = "tool_observed"
                THEN Append(f[i - 1], ev[i].observation)
                ELSE f[i - 1]]

LEMMA ObservedExists ==
    ASSUME NEW ev, NEW n \in Nat
    PROVE  \E f : ObservedIn(f, ev, n)
<1> DEFINE T == {k \in Nat : ~ \E f : ObservedIn(f, ev, k)}
<1>1. SUFFICES T = {}
  OBVIOUS
<1>2. SUFFICES ASSUME NEW k \in T, \A m \in T : k <= m
               PROVE  FALSE
  BY LeastNumber
<1>3. CASE k = 0
  <2>1. ObservedIn([i \in 0 .. 0 |-> <<>>], ev, 0)
    BY DEF ObservedIn
  <2> QED
    BY <1>3, <2>1
<1>4. CASE k # 0
  <2>1. k - 1 \in Nat /\ k - 1 \notin T
    BY <1>2, <1>4
  <2>2. PICK f : ObservedIn(f, ev, k - 1)
    BY <2>1
  <2> DEFINE v == IF ev[k].type = "tool_observed"
                  THEN Append(f[k - 1], ev[k].observation) ELSE f[k - 1]
             g == [i \in 0 .. k |-> IF i = k THEN v ELSE f[i]]
  <2>3. ASSUME NEW i \in 0 .. k
        PROVE  g[i] = IF i = 0 THEN <<>>
                      ELSE IF ev[i].type = "tool_observed"
                           THEN Append(g[i - 1], ev[i].observation) ELSE g[i - 1]
    <3>1. CASE i # k
      <4>0. i \in 0 .. k - 1
        BY <3>1
      <4>1. g[i] = f[i] /\ (i # 0 => g[i - 1] = f[i - 1])
        BY <3>1
      <4>2. f[i] = IF i = 0 THEN <<>>
                   ELSE IF ev[i].type = "tool_observed"
                        THEN Append(f[i - 1], ev[i].observation) ELSE f[i - 1]
        BY <2>2, <4>0 DEF ObservedIn
      <4> QED
        BY <4>1, <4>2
    <3>2. CASE i = k
      BY <1>4, <3>2
    <3> QED
      BY <3>1, <3>2
  <2>4. ObservedIn(g, ev, k)
    BY <2>3 DEF ObservedIn
  <2> QED
    BY <2>4
<1> QED
  BY <1>3, <1>4

LEMMA ObservedUnfolds ==
    ASSUME NEW ev, Len(ev) \in Nat
    PROVE  ObservedIn(Observed(ev), ev, Len(ev))
<1>1. \E f : f = [i \in 0 .. Len(ev) |->
                    IF i = 0 THEN <<>>
                    ELSE IF ev[i].type = "tool_observed"
                         THEN Append(f[i - 1], ev[i].observation)
                         ELSE f[i - 1]]
  <2>1. PICK f : ObservedIn(f, ev, Len(ev))
    BY ObservedExists
  <2> QED
    BY <2>1, Zenon DEF ObservedIn
<1>2. Observed(ev) = CHOOSE f : f = [i \in 0 .. Len(ev) |->
                    IF i = 0 THEN <<>>
                    ELSE IF ev[i].type = "tool_observed"
                         THEN Append(f[i - 1], ev[i].observation)
                         ELSE f[i - 1]]
  BY DEF Observed
<1> QED
  BY <1>1, <1>2, Zenon DEF ObservedIn

(* Events that are appended change nothing about what was observed before.  *)
Continues(more, ev, n) == \A i \in 1 .. n : more[i] = ev[i]

LEMMA ObservedStays ==
    ASSUME NEW ev, NEW more, NEW n \in Nat, NEW m \in Nat, n <= m, NEW f, NEW g,
           ObservedIn(f, ev, n), ObservedIn(g, more, m), Continues(more, ev, n)
    PROVE  \A i \in 0 .. n : g[i] = f[i]
<1> DEFINE T == {i \in 0 .. n : g[i] # f[i]}
<1>1. SUFFICES T = {}
  OBVIOUS
<1>2. SUFFICES ASSUME NEW k \in T, \A i \in T : k <= i
               PROVE  FALSE
  <2>1. T \subseteq Nat
    OBVIOUS
  <2> QED
    BY <2>1, LeastNumber
<1>3. k \in 0 .. n /\ k \in 0 .. m
  OBVIOUS
<1>4. /\ f[k] = IF k = 0 THEN <<>>
                ELSE IF ev[k].type = "tool_observed"
                     THEN Append(f[k - 1], ev[k].observation) ELSE f[k - 1]
      /\ g[k] = IF k = 0 THEN <<>>
                ELSE IF more[k].type = "tool_observed"
                     THEN Append(g[k - 1], more[k].observation) ELSE g[k - 1]
  BY <1>3, Zenon DEF ObservedIn
<1>5. k # 0
  BY <1>4
<1>6. k - 1 \in 0 .. n /\ k - 1 \notin T
  BY <1>2, <1>5
<1>7. g[k - 1] = f[k - 1] /\ more[k] = ev[k]
  BY <1>5, <1>6 DEF Continues
<1> QED
  BY <1>2, <1>4, <1>7

Appended(more, ev, e, n) ==
    /\ more \in Seq(TraceEvent) /\ Len(more) = n
    /\ n \in Nat \ {0} /\ DOMAIN ev = 1 .. n - 1 /\ DOMAIN more = 1 .. n
    /\ \A i \in 1 .. n - 1 : more[i] = ev[i]
    /\ more[n] = e
    /\ \A i \in 1 .. n : SeenBefore(more, i) = SeenBefore(ev, i)
    /\ SeenBefore(more, n + 1) = IF e.type = "tool_observed"
                                 THEN Append(SeenBefore(ev, n), e.observation)
                                 ELSE SeenBefore(ev, n)

LEMMA AppendOne ==
    ASSUME NEW ev \in Seq(TraceEvent), NEW e \in TraceEvent
    PROVE  Appended(Append(ev, e), ev, e, Len(ev) + 1)
<1> SUFFICES ASSUME NEW more, more = Append(ev, e), NEW n, n = Len(ev) + 1
             PROVE  Appended(more, ev, e, n)
  OBVIOUS
<1>1. /\ more \in Seq(TraceEvent) /\ Len(more) = n
      /\ n \in Nat \ {0} /\ DOMAIN ev = 1 .. n - 1 /\ DOMAIN more = 1 .. n
      /\ \A i \in 1 .. n - 1 : more[i] = ev[i]
      /\ more[n] = e
  OBVIOUS
<1>2. n - 1 \in Nat /\ Len(ev) = n - 1
  OBVIOUS
<1>3. ObservedIn(Observed(ev), ev, n - 1) /\ ObservedIn(Observed(more), more, n)
  BY <1>1, <1>2, ObservedUnfolds
<1>4. \A i \in 0 .. n - 1 : Observed(more)[i] = Observed(ev)[i]
  <2>1. PICK m \in Nat : m = n - 1
    BY <1>2
  <2>2. m <= n /\ n \in Nat /\ Continues(more, ev, m)
    BY <1>1, <2>1 DEF Continues
  <2>3. PICK f, g : f = Observed(ev) /\ g = Observed(more)
    OBVIOUS
  <2>4. ObservedIn(f, ev, m) /\ ObservedIn(g, more, n)
    BY <1>3, <2>1, <2>3
  <2>5. \A i \in 0 .. m : g[i] = f[i]
    BY <2>2, <2>4, ObservedStays
  <2> QED
    BY <2>1, <2>3, <2>5
<1>5. Observed(more)[n] = IF e.type = "tool_observed"
                          THEN Append(Observed(more)[n - 1], e.observation)
                          ELSE Observed(more)[n - 1]
  <2>1. n \in 0 .. n /\ n # 0
    BY <1>1
  <2>2. Observed(more)[n] = IF n = 0 THEN <<>>
                            ELSE IF more[n].type = "tool_observed"
                                 THEN Append(Observed(more)[n - 1], more[n].observation)
                                 ELSE Observed(more)[n - 1]
    BY <1>3, <2>1, Zenon DEF ObservedIn
  <2> QED
    BY <1>1, <2>1, <2>2
<1>6. \A i \in 1 .. n : SeenBefore(more, i) = SeenBefore(ev, i)
  BY <1>1, <1>4 DEF SeenBefore
<1>7. SeenBefore(more, n + 1) = Observed(more)[n] /\ SeenBefore(ev, n) = Observed(ev)[n - 1]
  BY <1>1 DEF SeenBefore
<1>8. Observed(more)[n - 1] = Observed(ev)[n - 1]
  BY <1>1, <1>4
<1> QED
  BY <1>1, <1>5, <1>6, <1>7, <1>8 DEF Appended

-----------------------------------------------------------------------------
(* What the events of a run say of it: they replay one after the other,     *)
(* lead to the state of the run, and contain what it has observed.          *)

Recorded(t, ev, seen, st) ==
    /\ ev \in Seq(TraceEvent)
    /\ \A i \in DOMAIN ev : EventReplays(t, ev, i)
    /\ SeenBefore(ev, Len(ev) + 1) = seen
    /\ st = IF ev = <<>> THEN "planning" ELSE ev[Len(ev)].after

LEMMA RecordNone ==
    ASSUME NEW t
    PROVE  Recorded(t, <<>>, <<>>, "planning")
<1>1. Len(<<>>) = 0 /\ DOMAIN <<>> = {} /\ <<>> \in Seq(TraceEvent)
  OBVIOUS
<1>2. ObservedIn(Observed(<<>>), <<>>, 0)
  BY <1>1, ObservedUnfolds
<1>3. Observed(<<>>)[0] = <<>>
  <2>1. 0 \in 0 .. 0
    OBVIOUS
  <2> QED
    BY <1>2, <2>1, Zenon DEF ObservedIn
<1> QED
  BY <1>1, <1>3 DEF Recorded, SeenBefore

LEMMA RecordOne ==
    ASSUME NEW t, NEW ev, NEW seen, NEW st, Recorded(t, ev, seen, st),
           NEW e \in TraceEvent, e.before = st,
           <<st, e.type, e.after>> \in AllowedTransitions,
           Terminal(e) => st # "acting",
           e.type = "action_selected" =>
             e.decision \in Actions /\ (t = "adaptive" => e.decision \in Options(seen)),
           e.type = "tool_observed" =>
             LET action   == ev[Len(ev)].decision
                 enforced == PolicyError(t, action, seen)
             IN /\ e.observation.action.tool = action.tool
                /\ enforced # None => /\ e.observation.status = "failed"
                                      /\ e.observation.error = enforced
    PROVE  Recorded(t, Append(ev, e),
                    IF e.type = "tool_observed" THEN Append(seen, e.observation) ELSE seen,
                    e.after)
<1>1. PICK more, n : more = Append(ev, e) /\ n = Len(ev) + 1
  OBVIOUS
<1>2. ev \in Seq(TraceEvent) /\ SeenBefore(ev, n) = seen
  BY <1>1 DEF Recorded
<1>3. /\ more \in Seq(TraceEvent) /\ Len(more) = n
      /\ n \in Nat \ {0} /\ DOMAIN ev = 1 .. n - 1 /\ DOMAIN more = 1 .. n
      /\ \A i \in 1 .. n - 1 : more[i] = ev[i]
      /\ more[n] = e
      /\ \A i \in 1 .. n : SeenBefore(more, i) = SeenBefore(ev, i)
      /\ SeenBefore(more, n + 1) = IF e.type = "tool_observed"
                                   THEN Append(seen, e.observation) ELSE seen
  <2>1. Appended(more, ev, e, n)
    BY <1>1, <1>2, AppendOne
  <2> QED
    BY <1>2, <2>1 DEF Appended
<1>4. ASSUME NEW i \in 1 .. n - 1 PROVE EventReplays(t, more, i)
  <2>1. EventReplays(t, ev, i)
    BY <1>3 DEF Recorded
  <2>2. more[i] = ev[i] /\ SeenBefore(more, i) = SeenBefore(ev, i)
    BY <1>3
  <2>3. CASE i = 1
    <3>1. ev[1].before = "planning" /\ ev[1].type # "tool_observed"
      BY <2>1, <2>3 DEF EventReplays, AllowedTransitions
    <3> QED
      BY <2>1, <2>2, <2>3, <3>1 DEF EventReplays
  <2>4. CASE i # 1
    <3>1. more[i - 1] = ev[i - 1]
      BY <1>3, <2>4
    <3> QED
      BY <2>1, <2>2, <2>4, <3>1 DEF EventReplays
  <2> QED
    BY <2>3, <2>4
<1>5. EventReplays(t, more, n)
  <2>1. SeenBefore(more, n) = seen
    BY <1>2, <1>3
  <2>0. n # 1 => more[n - 1] = ev[Len(ev)]
    <3>1. Len(ev) = n - 1 /\ Len(ev) \in Nat
      BY <1>1, <1>2
    <3>2. n # 1 => n - 1 \in 1 .. n - 1
      BY <1>3
    <3> QED
      BY <1>3, <3>1, <3>2
  <2>2. st = IF n = 1 THEN "planning" ELSE more[n - 1].after
    <3>1. ev = <<>> <=> n = 1
      BY <1>1, <1>2
    <3>2. n # 1 => more[n - 1] = ev[Len(ev)]
      BY <2>0
    <3> QED
      BY <3>1, <3>2 DEF Recorded
  <2>3. e.type = "tool_observed" => n # 1
    BY <2>2 DEF AllowedTransitions
  <2> QED
    BY <1>3, <2>0, <2>1, <2>2, <2>3 DEF EventReplays
<1>6. more # <<>> /\ more[Len(more)] = e
  BY <1>3
<1> QED
  BY <1>1, <1>3, <1>4, <1>5, <1>6 DEF Recorded

-----------------------------------------------------------------------------
(* What a planner returns is a decision, and its references exist.          *)

Witnessed(seen) ==
    /\ seen \in Seq(Observation)
    /\ \A i \in DOMAIN seen :
         seen[i].status = "succeeded" => seen[i].value \in Values(seen[i].action)

LEMMA ActionsAreNoFinishes ==
    /\ Actions \cap Finishes = {} /\ None \notin Actions /\ None \notin Finishes
    /\ Diagnose \in Actions /\ \A v \in Variants : Candidate(v) \in Actions
    /\ CompareActions \subseteq Actions
<1>1. ASSUME NEW a \in Actions PROVE a = [tool |-> a.tool, argument |-> a.argument]
  BY DEF Actions, CompareActions, Candidates, Candidate, Diagnose, Act
<1>2. ASSUME NEW a \in Actions, a \in Finishes PROVE FALSE
  <2>1. DOMAIN a = {"tool", "argument"}
    BY <1>1
  <2>2. DOMAIN a = {"outcome", "refs", "reason"}
    BY <1>2 DEF Finishes
  <2> QED
    BY <2>1, <2>2
<1>3. /\ Diagnose \in Actions /\ \A v \in Variants : Candidate(v) \in Actions
      /\ CompareActions \subseteq Actions
  BY DEF Actions, Candidates
<1> QED
  BY <1>2, <1>3, PolicyAssumption

LEMMA EvidenceExists ==
    ASSUME NEW seen, Witnessed(seen)
    PROVE  Evidence(seen) \subseteq References
<1> SUFFICES ASSUME NEW o \in Succeeded(seen)
             PROVE  Ref(o.action, o.value) \in References
  BY DEF Evidence
<1>1. PICK i \in DOMAIN seen : o = seen[i] /\ o.status = "succeeded"
  BY DEF Succeeded, ToSet
<1>2. o.action \in Actions /\ o.value \in Values(o.action)
  <2>1. seen[i] \in Observation
    BY <1>1 DEF Witnessed
  <2>2. o.action \in Actions
    BY <1>1, <2>1 DEF Observation
  <2> QED
    BY <1>1, <2>2 DEF Witnessed
<1>3. PICK a, v : a \in Actions /\ a = o.action /\ v \in Values(a) /\ v = o.value
  BY <1>2
<1>4. Ref(a, v) \in {Ref(a, w) : w \in Values(a)}
  BY <1>3
<1> QED
  BY <1>3, <1>4 DEF References

(* Among the candidates that passed there is one with the greatest key.     *)
KeyOf(o) == 3 * Gain[o.value] + NameOrder[o.action.argument]

LEMMA SelectedExists ==
    ASSUME NEW seen, Witnessed(seen), Passing(seen) # {}
    PROVE  Selected(seen) \in Variants
<1>1. ASSUME NEW o \in Passing(seen)
      PROVE  /\ o.value \in {"small", "large"}
             /\ o.action \in Candidates /\ o.action.argument \in Variants
  <2>1. PICK i \in DOMAIN seen : o = seen[i] /\ o.status = "succeeded"
    BY DEF Passing, Succeeded, ToSet
  <2>2. o.value \in Values(o.action) /\ o.action \in Candidates /\ o.value # "gates_failed"
    BY <2>1 DEF Witnessed, Passing
  <2>3. o.action.tool = "run_retrieval_candidate" /\ o.action.argument \in Variants
    BY <2>2 DEF Candidates, Candidate, Act
  <2>4. Values(o.action) = {"gates_failed"} \cup DOMAIN Gain
    BY <2>3 DEF Values
  <2>5. DOMAIN Gain = {"small", "large"}
    BY DEF Gain
  <2> QED
    BY <2>2, <2>3, <2>4, <2>5
<1>2. Gain["small"] = 1 /\ Gain["large"] = 2
  BY DEF Gain
<1>3. NameOrder["uniform"] = 1 /\ NameOrder["aggressive"] = 2 /\ NameOrder["conservative"] = 3
  BY DEF NameOrder, Variants
<1>4. \A o \in Passing(seen) : KeyOf(o) \in 4 .. 9
  BY <1>1, <1>2, <1>3 DEF KeyOf, Variants
<1>5. \A o, p \in Passing(seen) : KeyOf(o) >= KeyOf(p) => Outranks(o, p)
  BY <1>1, <1>2, <1>3 DEF KeyOf, Outranks, Variants
<1> DEFINE T == {n \in Nat : \E o \in Passing(seen) : n = 9 - KeyOf(o)}
<1>6. T # {}
  <2>1. PICK o \in Passing(seen) : TRUE
    OBVIOUS
  <2>2. 9 - KeyOf(o) \in Nat
    BY <1>4
  <2>3. 9 - KeyOf(o) \in T
    BY <2>2
  <2> QED
    BY <2>3
<1>7. PICK n \in T : \A m \in T : n <= m
  BY <1>6, LeastNumber
<1>8. PICK o \in Passing(seen) : n = 9 - KeyOf(o)
  BY <1>7
<1>9. ASSUME NEW p \in Passing(seen) PROVE Outranks(o, p)
  <2>1. 9 - KeyOf(p) \in T
    BY <1>4
  <2>2. 9 - KeyOf(o) <= 9 - KeyOf(p)
    BY <1>7, <1>8, <2>1
  <2> QED
    BY <1>4, <1>5, <2>2
<1> QED
  BY <1>1, <1>9 DEF Selected

LEMMA FinishesAreTyped ==
    ASSUME NEW seen, Witnessed(seen)
    PROVE  /\ Passing(seen) # {} => ProposalReady(seen) \in Finishes
           /\ NoSafe(seen) \in Finishes
           /\ Finish("inconclusive", seen, "tool_failed") \in Finishes
<1>1. Evidence(seen) \subseteq References
  BY EvidenceExists
<1>2. Passing(seen) # {} => Selected(seen) \in Variants
  BY SelectedExists
<1> QED
  BY <1>1, <1>2 DEF ProposalReady, NoSafe, Finish, Finishes, Outcomes, Reasons

LEMMA DecisionsAreTyped ==
    ASSUME NEW t \in Tasks, NEW seen, Witnessed(seen)
    PROVE  Decisions(t, seen) \subseteq Actions \cup Finishes
<1>1. Diagnose \in Actions /\ \A v \in Variants : Candidate(v) \in Actions
  BY ActionsAreNoFinishes
<1>2. CASE t = "fixed"
  <2>1. Candidate("uniform") \in Actions /\ Candidate("conservative") \in Actions
        /\ Candidate("aggressive") \in Actions
    BY <1>1 DEF Variants
  <2>2. Candidate("uniform") \in {o.action : o \in Passing(seen)} => Passing(seen) # {}
    OBVIOUS
  <2>3. {o.action : o \in Passing(seen)} # {} => Passing(seen) # {}
    OBVIOUS
  <2>4. Expected(seen) \in Actions \cup Finishes
    BY <1>1, <2>1, <2>2, <2>3, FinishesAreTyped DEF Expected
  <2> QED
    BY <1>2, <2>4 DEF Decisions
<1>3. CASE t = "adaptive"
  <2>1. Candidates \subseteq Actions
    BY DEF Actions
  <2>2. Options(seen) \subseteq Actions \cup Finishes
    BY <1>1, <2>1, FinishesAreTyped DEF Options
  <2> QED
    BY <1>3, <2>2 DEF Decisions
<1>4. CASE t = "compare"
  <2> DEFINE R == {<<"comparison", "better">>, <<"comparison", "worse">>,
                   <<"run", "task">>, <<"run", "other">>}
  <2>1. R \subseteq References
    <3>1. PICK c, r : c = Act("compare_runs", "task") /\ r = Act("run_ranker", "any")
      OBVIOUS
    <3>2. c \in Actions /\ r \in Actions
      BY <3>1 DEF Actions, CompareActions
    <3>3. c \notin Candidates /\ r \notin Candidates
      BY <3>1 DEF Candidates, Candidate, Act
    <3>4. Values(c) = {"better", "mixed", "worse"} /\ Values(r) = {"task", "other"}
      BY <3>1 DEF Values, Act
    <3>5. \A v : Ref(c, v) = <<"comparison", v>> /\ Ref(r, v) = <<"run", v>>
      BY <3>1, <3>3 DEF Ref, Act
    <3>6. Ref(c, "better") \in {Ref(c, v) : v \in Values(c)}
          /\ Ref(c, "worse") \in {Ref(c, v) : v \in Values(c)}
          /\ Ref(r, "task") \in {Ref(r, v) : v \in Values(r)}
          /\ Ref(r, "other") \in {Ref(r, v) : v \in Values(r)}
      BY <3>4
    <3>7. {Ref(c, v) : v \in Values(c)} \subseteq References
          /\ {Ref(r, v) : v \in Values(r)} \subseteq References
      BY <3>2 DEF References
    <3> QED
      BY <3>5, <3>6, <3>7
  <2>2. [outcome : {"accept", "reject", "inconclusive"}, reason : {"compared"},
         refs : SUBSET R] \subseteq Finishes
    <3>1. {"accept", "reject", "inconclusive"} \subseteq Outcomes /\ {"compared"} \subseteq Reasons
      BY DEF Outcomes, Reasons
    <3> QED
      BY <2>1, <3>1 DEF Finishes
  <2>3. Decisions(t, seen) = CompareActions \cup
          [outcome : {"accept", "reject", "inconclusive"}, reason : {"compared"},
           refs : SUBSET R]
    BY <1>4 DEF Decisions
  <2> QED
    BY <2>2, <2>3, ActionsAreNoFinishes
<1> QED
  BY <1>2, <1>3, <1>4 DEF Tasks

-----------------------------------------------------------------------------
(* The counters of the runtime are what the events show.                    *)

RunsOf(ev)       == {i \in ActionsOf(ev) : CreatesRun(ev[i].decision)}
FailedIn(ev)     == {i \in DOMAIN ev : /\ ev[i].type = "tool_observed"
                                       /\ ev[i].observation.status = "failed"}
ChosenIn(ev, a)  == {i \in DOMAIN ev : ev[i].decision = a}

Counted(ev, calls, runs, failed, tries) ==
    /\ ev \in Seq(TraceEvent)
    /\ Cardinality(ActionsOf(ev)) = calls
    /\ Cardinality(RunsOf(ev)) = runs
    /\ Cardinality(FailedIn(ev)) = failed
    /\ tries \in [Actions -> Nat]
    /\ \A a \in Actions : Cardinality(ChosenIn(ev, a)) = tries[a]

LEMMA OneMore ==
    ASSUME NEW n \in Nat \ {0}, NEW S, S \subseteq 1 .. n - 1, NEW T,
           T = S \/ T = S \cup {n}
    PROVE  /\ Cardinality(S) \in Nat
           /\ T = S \cup {n} => Cardinality(T) = Cardinality(S) + 1
<1>1. IsFiniteSet(1 .. n - 1)
  BY FS_Interval
<1>2. IsFiniteSet(S) /\ Cardinality(S) \in Nat
  BY <1>1, FS_Subset, FS_CardinalityType
<1>3. n \notin S
  OBVIOUS
<1> QED
  BY <1>2, <1>3, FS_AddElement

LEMMA CountNone ==
    ASSUME NEW zeros, zeros = [a \in Actions |-> 0]
    PROVE  Counted(<<>>, 0, 0, 0, zeros)
<1>1. DOMAIN <<>> = {} /\ <<>> \in Seq(TraceEvent)
  OBVIOUS
<1>2. ActionsOf(<<>>) = {} /\ RunsOf(<<>>) = {} /\ FailedIn(<<>>) = {}
  BY <1>1 DEF ActionsOf, RunsOf, FailedIn
<1>3. \A a \in Actions : ChosenIn(<<>>, a) = {}
  BY <1>1 DEF ChosenIn
<1>4. Cardinality({}) = 0
  BY FS_EmptySet
<1> QED
  BY <1>1, <1>2, <1>3, <1>4 DEF Counted

LEMMA CountOne ==
    ASSUME NEW ev, NEW calls, NEW runs, NEW failed, NEW tries,
           Counted(ev, calls, runs, failed, tries), NEW e \in TraceEvent,
           NEW calls2, NEW runs2, NEW failed2, NEW tries2,
           calls2 = calls + IF e.type = "action_selected" THEN 1 ELSE 0,
           runs2 = runs + IF e.type = "action_selected" /\ CreatesRun(e.decision)
                          THEN 1 ELSE 0,
           failed2 = failed + IF e.type = "tool_observed" /\ e.observation.status = "failed"
                              THEN 1 ELSE 0,
           tries2 \in [Actions -> Nat],
           \A a \in Actions : tries2[a] = tries[a] + IF e.decision = a THEN 1 ELSE 0
    PROVE  Counted(Append(ev, e), calls2, runs2, failed2, tries2)
<1>1. PICK more, n : more = Append(ev, e) /\ n = Len(ev) + 1
  OBVIOUS
<1>2. /\ more \in Seq(TraceEvent) /\ n \in Nat \ {0}
      /\ DOMAIN ev = 1 .. n - 1 /\ DOMAIN more = 1 .. n
      /\ \A i \in 1 .. n - 1 : more[i] = ev[i]
      /\ more[n] = e
  <2>1. Appended(more, ev, e, n)
    BY <1>1, AppendOne DEF Counted
  <2> QED
    BY <2>1 DEF Appended
<1>3. DOMAIN more = DOMAIN ev \cup {n} /\ n \notin DOMAIN ev
  BY <1>2
<1>4. Cardinality(ActionsOf(more)) = calls2
  <2>1. /\ e.type = "action_selected" => ActionsOf(more) = ActionsOf(ev) \cup {n}
        /\ e.type # "action_selected" => ActionsOf(more) = ActionsOf(ev)
    BY <1>2, <1>3 DEF ActionsOf
  <2>2. ActionsOf(ev) \subseteq 1 .. n - 1
    BY <1>2 DEF ActionsOf
  <2>3. Cardinality(ActionsOf(ev)) = calls /\ Cardinality(ActionsOf(ev)) \in Nat
    BY <1>2, <2>2, OneMore DEF Counted
  <2>4. e.type = "action_selected" => Cardinality(ActionsOf(more)) = calls + 1
    BY <1>2, <2>1, <2>2, <2>3, OneMore
  <2> QED
    BY <2>1, <2>3, <2>4
<1>5. Cardinality(RunsOf(more)) = runs2
  <2> DEFINE runs_e == e.type = "action_selected" /\ CreatesRun(e.decision)
  <2>1. /\ runs_e => RunsOf(more) = RunsOf(ev) \cup {n}
        /\ ~ runs_e => RunsOf(more) = RunsOf(ev)
    BY <1>2, <1>3 DEF RunsOf, ActionsOf
  <2>2. RunsOf(ev) \subseteq 1 .. n - 1
    BY <1>2 DEF RunsOf, ActionsOf
  <2>3. Cardinality(RunsOf(ev)) = runs /\ Cardinality(RunsOf(ev)) \in Nat
    BY <1>2, <2>2, OneMore DEF Counted
  <2>4. runs_e => Cardinality(RunsOf(more)) = runs + 1
    BY <1>2, <2>1, <2>2, <2>3, OneMore
  <2> QED
    BY <2>1, <2>3, <2>4
<1>6. Cardinality(FailedIn(more)) = failed2
  <2> DEFINE fails_e == e.type = "tool_observed" /\ e.observation.status = "failed"
  <2>1. /\ fails_e => FailedIn(more) = FailedIn(ev) \cup {n}
        /\ ~ fails_e => FailedIn(more) = FailedIn(ev)
    BY <1>2, <1>3 DEF FailedIn
  <2>2. FailedIn(ev) \subseteq 1 .. n - 1
    BY <1>2 DEF FailedIn
  <2>3. Cardinality(FailedIn(ev)) = failed /\ Cardinality(FailedIn(ev)) \in Nat
    BY <1>2, <2>2, OneMore DEF Counted
  <2>4. fails_e => Cardinality(FailedIn(more)) = failed + 1
    BY <1>2, <2>1, <2>2, <2>3, OneMore
  <2> QED
    BY <2>1, <2>3, <2>4
<1>7. ASSUME NEW a \in Actions
      PROVE  Cardinality(ChosenIn(more, a)) = tries2[a]
  <2>1. /\ e.decision = a => ChosenIn(more, a) = ChosenIn(ev, a) \cup {n}
        /\ e.decision # a => ChosenIn(more, a) = ChosenIn(ev, a)
    BY <1>2, <1>3 DEF ChosenIn
  <2>2. ChosenIn(ev, a) \subseteq 1 .. n - 1
    BY <1>2 DEF ChosenIn
  <2>3. tries[a] = Cardinality(ChosenIn(ev, a))
        /\ tries2[a] = tries[a] + IF e.decision = a THEN 1 ELSE 0
    BY DEF Counted
  <2>4. e.decision = a => Cardinality(ChosenIn(more, a)) = Cardinality(ChosenIn(ev, a)) + 1
    BY <1>2, <2>1, <2>2, OneMore
  <2>5. Cardinality(ChosenIn(ev, a)) \in Nat
    BY <1>2, <2>2, OneMore
  <2> QED
    BY <2>1, <2>3, <2>4, <2>5
<1> QED
  BY <1>1, <1>2, <1>4, <1>5, <1>6, <1>7 DEF Counted

(* An event that is neither a selection nor an observation counts nothing.  *)
LEMMA CountOther ==
    ASSUME NEW ev, NEW calls, NEW runs, NEW failed, NEW tries,
           Counted(ev, calls, runs, failed, tries), NEW e \in TraceEvent,
           e.type \notin {"action_selected", "tool_observed"},
           e.decision \notin Actions
    PROVE  Counted(Append(ev, e), calls, runs, failed, tries)
<1>1. tries \in [Actions -> Nat] /\ calls \in Nat /\ runs \in Nat /\ failed \in Nat
  <2>1. PICK n \in Nat \ {0} : DOMAIN ev = 1 .. n - 1
    <3>1. Len(ev) + 1 \in Nat \ {0} /\ DOMAIN ev = 1 .. (Len(ev) + 1) - 1
      BY DEF Counted
    <3> QED
      BY <3>1
  <2>2. ActionsOf(ev) \subseteq 1 .. n - 1 /\ RunsOf(ev) \subseteq 1 .. n - 1
        /\ FailedIn(ev) \subseteq 1 .. n - 1
    BY <2>1 DEF ActionsOf, RunsOf, FailedIn
  <2> QED
    BY <2>2, OneMore DEF Counted
<1>2. \A a \in Actions : tries[a] = tries[a] + IF e.decision = a THEN 1 ELSE 0
  BY <1>1
<1>3. /\ calls = calls + IF e.type = "action_selected" THEN 1 ELSE 0
      /\ runs = runs + IF e.type = "action_selected" /\ CreatesRun(e.decision) THEN 1 ELSE 0
      /\ failed = failed + IF e.type = "tool_observed" /\ e.observation.status = "failed"
                           THEN 1 ELSE 0
  BY <1>1
<1> QED
  BY <1>1, <1>2, <1>3, CountOne

-----------------------------------------------------------------------------
(* The end of a run.                                                        *)

LEMMA PoliciesAreTyped ==
    \A t \in Tasks : Policies(t) \subseteq RuntimePolicy
  BY PolicyAssumption DEF Policies, RuntimePolicy, Tasks

LEMMA GroundedInEvidence ==
    ASSUME NEW t \in Tasks, NEW seen, NEW d \in Finishes, Grounded(t, d, seen)
    PROVE  d.refs \subseteq Evidence(seen)
<1>1. Diagnose \notin Finishes /\ \A v \in Variants : Candidate(v) \notin Finishes
  BY ActionsAreNoFinishes
<1>2. /\ Finish("inconclusive", seen, "tool_failed").refs = Evidence(seen)
      /\ NoSafe(seen).refs = Evidence(seen)
      /\ ProposalReady(seen).refs = Evidence(seen)
  BY DEF Finish, NoSafe, ProposalReady
<1>3. CASE t = "fixed"
  <2>1. d = Expected(seen)
    BY <1>3 DEF Grounded
  <2>2. {"uniform", "conservative", "aggressive"} \subseteq Variants
    BY DEF Variants
  <2>3. \/ d = Finish("inconclusive", seen, "tool_failed")
        \/ d = NoSafe(seen) \/ d = ProposalReady(seen)
    BY <1>1, <2>1, <2>2 DEF Expected
  <2> QED
    BY <1>2, <2>3
<1>4. CASE t = "adaptive"
  <2>1. d \in Options(seen)
    BY <1>4 DEF Grounded
  <2>2. d \notin Candidates
    BY <1>1 DEF Candidates
  <2>3. d = NoSafe(seen) \/ d = ProposalReady(seen)
    BY <1>1, <2>1, <2>2 DEF Options
  <2> QED
    BY <1>2, <2>3
<1>5. CASE t = "compare"
  BY <1>5 DEF Grounded
<1> QED
  BY <1>3, <1>4, <1>5 DEF Tasks

Open(ev) == \A i \in DOMAIN ev : ~ Terminal(ev[i])

(* The events end with e, and everything before it was observed.            *)
Closes(t, ev, e, seen) ==
    /\ Recorded(t, ev, seen, e.after)
    /\ ev # <<>> /\ Last(ev) = e
    /\ SeenBefore(ev, Len(ev)) = seen
    /\ \A i \in DOMAIN ev : Terminal(ev[i]) <=> i = Len(ev)

LEMMA EndOne ==
    ASSUME NEW t, NEW ev, NEW seen, NEW st \in {"planning", "deciding"},
           Recorded(t, ev, seen, st), Open(ev),
           NEW e \in TraceEvent, e.before = st, Terminal(e),
           e.after = IF e.type = "run_completed" THEN "completed" ELSE "failed"
    PROVE  Closes(t, Append(ev, e), e, seen)
<1>1. PICK more, n : more = Append(ev, e) /\ n = Len(ev) + 1
  OBVIOUS
<1>2. /\ more \in Seq(TraceEvent) /\ Len(more) = n /\ n \in Nat \ {0}
      /\ DOMAIN ev = 1 .. n - 1 /\ DOMAIN more = 1 .. n
      /\ \A i \in 1 .. n - 1 : more[i] = ev[i]
      /\ more[n] = e
      /\ SeenBefore(more, n) = seen
  <2>1. Appended(more, ev, e, n) /\ SeenBefore(ev, n) = seen
    BY <1>1, AppendOne DEF Recorded
  <2>2. n \in 1 .. n
    BY <2>1 DEF Appended
  <2> QED
    BY <2>1, <2>2 DEF Appended
<1>3. <<st, e.type, e.after>> \in AllowedTransitions
      /\ e.type \notin {"action_selected", "tool_observed"}
  BY DEF Terminal, AllowedTransitions
<1>4. Recorded(t, more, seen, e.after)
  BY <1>1, <1>3, RecordOne
<1>5. \A i \in DOMAIN more : Terminal(more[i]) <=> i = Len(more)
  BY <1>2 DEF Open
<1> QED
  BY <1>1, <1>2, <1>4, <1>5 DEF Closes, Last

LEMMA GoOn ==
    ASSUME NEW ev \in Seq(TraceEvent), Open(ev), NEW e \in TraceEvent, ~ Terminal(e)
    PROVE  Open(Append(ev, e))
  BY DEF Open

Within(p, n, calls, runs, failed, tries) ==
    /\ n \in Nat /\ n <= p.maxSteps
    /\ calls \in Nat /\ calls <= n /\ calls <= p.maxToolCalls
    /\ runs \in Nat /\ runs <= calls /\ runs <= p.maxRunCreations
    /\ failed \in Nat /\ failed <= calls /\ failed <= p.maxFailures
    /\ \A a \in Actions : tries[a] <= p.maxSameAction

(* A result that the replay accepts.                                        *)
Ended(t, p, ev, r) ==
    /\ EventsReplay(t, ev)
    /\ ResultReplays(t, ev, r)
    /\ CountsReplay(p, ev, r)

LEMMA CountsEnd ==
    ASSUME NEW p, NEW ev, NEW r, NEW n, NEW calls, NEW runs, NEW failed, NEW tries,
           Within(p, n, calls, runs, failed, tries),
           Counted(ev, calls, runs, failed, tries), r.steps = n, r.toolCalls = calls,
           n = calls + IF \/ Last(ev).type = "run_completed"
                          \/ r.reason \in UnrecordedFailures THEN 1 ELSE 0
    PROVE  CountsReplay(p, ev, r)
  BY DEF CountsReplay, Within, Counted, RunsOf

ReadyToFail(t, p, st, ev, seen, reason, n, calls, runs, failed, tries) ==
    /\ st \in {"planning", "deciding"} /\ reason \in RunFailures
    /\ Recorded(t, ev, seen, st) /\ Open(ev) /\ Witnessed(seen)
    /\ Counted(ev, calls, runs, failed, tries)
    /\ Within(p, n, calls, runs, failed, tries)
    /\ n = calls + IF reason \in UnrecordedFailures THEN 1 ELSE 0

FailedEvents(st, ev) == Append(ev, Event(st, "run_failed", "failed", None, None))
FailedResult(reason, seen, n, calls) ==
    [state |-> "failed", outcome |-> "inconclusive", reason |-> reason,
     refs |-> Evidence(seen), report |-> seen, steps |-> n, toolCalls |-> calls]

LEMMA FailedRunEnds ==
    ASSUME NEW t, NEW p, NEW st, NEW ev, NEW seen, NEW reason,
           NEW n, NEW calls, NEW runs, NEW failed, NEW tries,
           ReadyToFail(t, p, st, ev, seen, reason, n, calls, runs, failed, tries)
    PROVE  /\ Recorded(t, FailedEvents(st, ev), seen, "failed")
           /\ Counted(FailedEvents(st, ev), calls, runs, failed, tries)
           /\ FailedResult(reason, seen, n, calls) \in TerminalResult
           /\ Ended(t, p, FailedEvents(st, ev), FailedResult(reason, seen, n, calls))
<1> PICK more, r : more = FailedEvents(st, ev) /\ r = FailedResult(reason, seen, n, calls)
  OBVIOUS
<1>0. /\ st \in {"planning", "deciding"} /\ reason \in RunFailures
      /\ Recorded(t, ev, seen, st) /\ Open(ev) /\ Witnessed(seen)
      /\ Counted(ev, calls, runs, failed, tries)
      /\ Within(p, n, calls, runs, failed, tries)
      /\ n = calls + IF reason \in UnrecordedFailures THEN 1 ELSE 0
      /\ more = Append(ev, Event(st, "run_failed", "failed", None, None))
      /\ r = [state |-> "failed", outcome |-> "inconclusive", reason |-> reason,
              refs |-> Evidence(seen), report |-> seen, steps |-> n, toolCalls |-> calls]
  BY DEF ReadyToFail, FailedEvents, FailedResult
<1> DEFINE e == Event(st, "run_failed", "failed", None, None)
<1>1. /\ e \in TraceEvent /\ e.before = st /\ Terminal(e) /\ e.type = "run_failed"
      /\ e.after = "failed" /\ e.decision = None
  BY <1>0 DEF Event, TraceEvent, AgentStates, EventTypes, Terminal
<1>2. Closes(t, more, e, seen)
  BY <1>0, <1>1, EndOne
<1>3. Counted(more, calls, runs, failed, tries)
  <2>1. e.decision \notin Actions
    BY <1>1, ActionsAreNoFinishes
  <2> QED
    BY <1>0, <1>1, <2>1, CountOther
<1>4. r \in TerminalResult
  <2>1. Evidence(seen) \subseteq References /\ seen \in Seq(Observation)
    BY <1>0, EvidenceExists DEF Witnessed
  <2>2. n \in Nat /\ calls \in Nat
    BY <1>0 DEF Within
  <2> QED
    BY <1>0, <2>1, <2>2 DEF TerminalResult, Outcomes
<1>5. EventsReplay(t, more)
  BY <1>2 DEF Closes, Recorded, EventsReplay
<1>6. ResultReplays(t, more, r)
  BY <1>0, <1>1, <1>2 DEF ResultReplays, Closes
<1>7. CountsReplay(p, more, r)
  <2>1. Last(more).type = "run_failed"
    BY <1>1, <1>2 DEF Closes
  <2>2. n = calls + IF \/ Last(more).type = "run_completed"
                       \/ r.reason \in UnrecordedFailures THEN 1 ELSE 0
    BY <1>0, <2>1
  <2>3. r.steps = n /\ r.toolCalls = calls
    BY <1>0
  <2> QED
    BY <1>0, <1>3, <2>2, <2>3, CountsEnd
<1> QED
  BY <1>1, <1>2, <1>3, <1>4, <1>5, <1>6, <1>7 DEF Closes, Ended

-----------------------------------------------------------------------------
(* The invariant of a run.                                                  *)

Configured == task \in Tasks /\ policy \in Policies(task)

Watched ==
    /\ Recorded(task, events, observations, state)
    /\ Witnessed(observations)
    /\ Counted(events, toolCalls, runCreations, failures, attempts)

Spent ==
    /\ Within(policy, steps, toolCalls, runCreations, failures, attempts)
    /\ Running => steps = toolCalls + IF decision # None /\ state # "acting" THEN 1 ELSE 0
    /\ state = "acting" => failures < toolCalls
    /\ failures = policy.maxFailures => state = "failed"

Selecting ==
    /\ decision \in Actions
    /\ events # <<>> /\ events[Len(events)].decision = decision

Phases ==
    /\ decision \in Decisions(task, observations) \cup {None}
    /\ result \in TerminalResult \cup {None}
    /\ Running => state \in {"planning", "acting", "deciding"} /\ Open(events)
    /\ ~ Running => state \in {"completed", "failed"} /\ decision = None
    /\ state = "acting" => Selecting

Left ==
    /\ ~ Running => Ended(task, policy, events, result)
    /\ trace # None => /\ ~ Running
                       /\ trace = [task |-> task, policy |-> policy,
                                   events |-> events, result |-> result]

AgentInv == Configured /\ Watched /\ Spent /\ Phases /\ Left

LEMMA AgentStarts == Init => AgentInv
<1> SUFFICES ASSUME Init PROVE AgentInv
  OBVIOUS
<1>1. Configured /\ policy \in RuntimePolicy
  BY PoliciesAreTyped DEF Init, Configured
<1>2. Watched
  <2>1. Recorded(task, events, observations, state)
    BY RecordNone DEF Init
  <2>2. Counted(events, toolCalls, runCreations, failures, attempts)
    BY CountNone DEF Init
  <2>3. Witnessed(observations)
    BY DEF Init, Witnessed
  <2> QED
    BY <2>1, <2>2, <2>3 DEF Watched
<1>3. Spent
  BY <1>1 DEF Init, Spent, Within, Running, RuntimePolicy
<1>4. Phases /\ Left
  BY DEF Init, Phases, Left, Running, Open
<1> QED
  BY <1>1, <1>2, <1>3, <1>4 DEF AgentInv

(* FailRun leaves the invariant, from whatever was recorded so far.         *)
Failing(before, recorded, seen, reason) ==
    /\ ReadyToFail(task, policy, before, recorded, seen, reason,
                   steps, toolCalls', runCreations', failures', attempts')
    /\ UNCHANGED <<config, steps, trace>>

LEMMA FailRunKeeps ==
    ASSUME Configured, trace = None, NEW before, NEW recorded, NEW seen, NEW reason,
           Failing(before, recorded, seen, reason),
           FailRun(before, recorded, seen, reason)
    PROVE  AgentInv'
<1>1. /\ events' = FailedEvents(before, recorded)
      /\ result' = FailedResult(reason, seen, steps, toolCalls')
      /\ state' = "failed" /\ observations' = seen /\ decision' = None
      /\ task' = task /\ policy' = policy /\ steps' = steps /\ trace' = None
  BY DEF FailRun, Failing, FailedEvents, FailedResult, config
<1>2. /\ Recorded(task, events', seen, "failed")
      /\ Counted(events', toolCalls', runCreations', failures', attempts')
      /\ result' \in TerminalResult
      /\ Ended(task, policy, events', result')
  BY <1>1, FailedRunEnds DEF Failing
<1>3. result' # None
  BY <1>2, PolicyAssumption
<1>4. Configured' /\ Watched'
  BY <1>1, <1>2 DEF Configured, Watched, Failing, ReadyToFail
<1>5. Spent'
  BY <1>1, <1>3 DEF Spent, Running, Failing, ReadyToFail
<1>6. Phases' /\ Left'
  BY <1>1, <1>2, <1>3 DEF Phases, Left, Running
<1> QED
  BY <1>4, <1>5, <1>6 DEF AgentInv

LEMMA FailHereKeeps ==
    ASSUME AgentInv, Running, state # "acting", NEW reason \in RunFailures, FailHere(reason),
           decision # None <=> reason \in UnrecordedFailures
    PROVE  AgentInv'
<1>1. trace = None /\ Configured
  BY DEF AgentInv, Left
<1>2. state \in {"planning", "deciding"} /\ Open(events)
  BY DEF AgentInv, Phases
<1>3. UNCHANGED <<config, counters, trace>>
  BY DEF FailHere
<1>4. /\ steps' = steps /\ toolCalls' = toolCalls /\ runCreations' = runCreations
      /\ failures' = failures /\ attempts' = attempts /\ config' = config /\ trace' = trace
  BY <1>3 DEF counters
<1>5. Failing(state, events, observations, reason)
  BY <1>2, <1>4 DEF AgentInv, Watched, Spent, Failing, ReadyToFail
<1>6. FailRun(state, events, observations, reason)
  BY DEF FailHere
<1> QED
  BY <1>1, <1>5, <1>6, FailRunKeeps

-----------------------------------------------------------------------------
(* Every action keeps it.                                                   *)

LEMMA AgentFacts ==
    ASSUME AgentInv
    PROVE  /\ task \in Tasks /\ policy \in RuntimePolicy
           /\ events \in Seq(TraceEvent) /\ Witnessed(observations)
           /\ decision \in Actions \cup Finishes \cup {None}
           /\ None \notin Actions /\ None \notin Finishes
           /\ Actions \cap Finishes = {}
           /\ AtHead => state # "acting"
           /\ Running => trace = None
<1>1. task \in Tasks /\ policy \in RuntimePolicy
  BY PoliciesAreTyped DEF AgentInv, Configured
<1>2. events \in Seq(TraceEvent) /\ Witnessed(observations)
  BY DEF AgentInv, Watched, Recorded
<1>3. decision \in Actions \cup Finishes \cup {None}
  BY <1>1, <1>2, DecisionsAreTyped DEF AgentInv, Phases
<1>4. None \notin Actions /\ None \notin Finishes /\ Actions \cap Finishes = {}
  BY ActionsAreNoFinishes
<1>5. AtHead => state # "acting"
  BY <1>4 DEF AtHead, AgentInv, Phases, Selecting
<1> QED
  BY <1>1, <1>2, <1>3, <1>4, <1>5 DEF AgentInv, Left

LEMMA DecideKeeps == AgentInv /\ Decide => AgentInv'
<1> SUFFICES ASSUME AgentInv, Decide PROVE AgentInv'
  OBVIOUS
<1>1. PICK d \in Decisions(task, observations) : decision' = d
  BY DEF Decide
<1>2. /\ steps' = steps + 1 /\ steps < policy.maxSteps /\ decision = None /\ Running
      /\ state # "acting"
  BY AgentFacts DEF Decide, MayPlan, AtHead
<1>3. /\ task' = task /\ policy' = policy /\ state' = state /\ events' = events
      /\ observations' = observations /\ toolCalls' = toolCalls
      /\ runCreations' = runCreations /\ failures' = failures /\ attempts' = attempts
      /\ result' = result /\ trace' = trace
  BY DEF Decide, config
<1>4. decision' # None
  BY <1>1, AgentFacts, DecisionsAreTyped
<1>5. Configured' /\ Watched'
  BY <1>3 DEF AgentInv, Configured, Watched
<1>6. Spent'
  <2>1. policy.maxSteps \in Nat
    BY AgentFacts DEF RuntimePolicy
  <2> QED
    BY <1>2, <1>3, <1>4, <2>1 DEF AgentInv, Spent, Within, Running
<1>7. Phases' /\ Left'
  BY <1>1, <1>2, <1>3 DEF AgentInv, Phases, Left, Running
<1> QED
  BY <1>5, <1>6, <1>7 DEF AgentInv

LEMMA CompleteKeeps == AgentInv /\ Complete => AgentInv'
<1> SUFFICES ASSUME AgentInv, Complete PROVE AgentInv'
  OBVIOUS
<1> DEFINE e == Event(state, "run_completed", "completed", decision, None)
<1>1. /\ Running /\ decision \in Finishes /\ Grounded(task, decision, observations)
      /\ state' = "completed" /\ events' = Append(events, e)
      /\ result' = [state |-> "completed", outcome |-> decision.outcome,
                    reason |-> decision.reason, refs |-> decision.refs,
                    report |-> observations, steps |-> steps, toolCalls |-> toolCalls]
      /\ decision' = None
  BY DEF Complete, Finishing
<1>2. /\ task' = task /\ policy' = policy /\ observations' = observations
      /\ steps' = steps /\ toolCalls' = toolCalls /\ runCreations' = runCreations
      /\ failures' = failures /\ attempts' = attempts /\ trace' = trace
  BY DEF Complete, config, counters
<1>3. state \in {"planning", "deciding"}
  BY <1>1, AgentFacts DEF AgentInv, Phases, Selecting
<1>4. /\ e \in TraceEvent /\ e.before = state /\ Terminal(e) /\ e.after = "completed"
      /\ e.type = "run_completed" /\ e.decision = decision
  BY <1>1, <1>3 DEF Event, TraceEvent, AgentStates, EventTypes, Terminal
<1>5. Closes(task, events', e, observations)
  BY <1>1, <1>3, <1>4, EndOne DEF AgentInv, Watched, Phases
<1>6. Counted(events', toolCalls, runCreations, failures, attempts)
  BY <1>1, <1>4, AgentFacts, CountOther DEF AgentInv, Watched
<1>7. decision.outcome \in Outcomes /\ decision.reason \in Reasons
      /\ decision.refs \in SUBSET References
  BY <1>1 DEF Finishes
<1>8. result' \in TerminalResult /\ result' # None
  <2>1. observations \in Seq(Observation)
    BY AgentFacts DEF Witnessed
  <2>2. steps \in Nat /\ toolCalls \in Nat
    BY DEF AgentInv, Spent, Within
  <2>3. result' \in TerminalResult
    BY <1>1, <1>7, <2>1, <2>2 DEF TerminalResult
  <2> QED
    BY <2>3, PolicyAssumption
<1>9. Ended(task, policy, events', result')
  <2>1. EventsReplay(task, events')
    BY <1>5 DEF Closes, Recorded, EventsReplay
  <2>2. ResultReplays(task, events', result')
    <3>1. decision.refs \subseteq Evidence(observations)
      BY <1>1, AgentFacts, GroundedInEvidence
    <3> QED
      BY <1>1, <1>4, <1>5, <3>1 DEF ResultReplays, Closes
  <2>3. CountsReplay(policy, events', result')
    <3>1. Last(events').type = "run_completed"
      BY <1>4, <1>5 DEF Closes
    <3>2. steps = toolCalls + 1
      BY <1>1, <1>3, AgentFacts DEF AgentInv, Spent
    <3> QED
      BY <1>1, <1>6, <3>1, <3>2, CountsEnd DEF AgentInv, Spent
  <2> QED
    BY <2>1, <2>2, <2>3 DEF Ended
<1>10. Configured' /\ Watched'
  BY <1>1, <1>2, <1>4, <1>5, <1>6 DEF AgentInv, Configured, Watched, Closes
<1>11. Spent'
  <2>1. failures # policy.maxFailures
    BY <1>3 DEF AgentInv, Spent
  <2> QED
    BY <1>1, <1>2, <1>8, <2>1 DEF AgentInv, Spent, Running
<1>12. Phases' /\ Left'
  BY <1>1, <1>2, <1>8, <1>9, AgentFacts DEF Phases, Left, Running
<1> QED
  BY <1>10, <1>11, <1>12 DEF AgentInv

LEMMA SelectActionKeeps == AgentInv /\ SelectAction => AgentInv'
<1> SUFFICES ASSUME AgentInv, SelectAction PROVE AgentInv'
  OBVIOUS
<1> DEFINE e == Event(state, "action_selected", "acting", decision, None)
<1>1. /\ Running /\ state # "acting" /\ decision \in Actions /\ Rejection(decision) = None
      /\ state' = "acting" /\ events' = Append(events, e)
      /\ toolCalls' = toolCalls + 1
      /\ runCreations' = runCreations + IF CreatesRun(decision) THEN 1 ELSE 0
      /\ attempts' = [attempts EXCEPT ![decision] = @ + 1]
  BY DEF SelectAction, Acting
<1>2. /\ task' = task /\ policy' = policy /\ observations' = observations
      /\ steps' = steps /\ failures' = failures /\ decision' = decision
      /\ result' = result /\ trace' = trace
  BY DEF SelectAction, config
<1>3. state \in {"planning", "deciding"} /\ Open(events)
  BY <1>1 DEF AgentInv, Phases
<1>4. /\ e \in TraceEvent /\ e.before = state /\ ~ Terminal(e) /\ e.after = "acting"
      /\ e.type = "action_selected" /\ e.decision = decision
  BY <1>1, <1>3 DEF Event, TraceEvent, AgentStates, EventTypes, Terminal
<1>5. Recorded(task, events', observations, "acting")
  <2>1. task = "adaptive" => decision \in Options(observations)
    BY <1>1, AgentFacts DEF AgentInv, Phases, Decisions
  <2>2. <<state, e.type, e.after>> \in AllowedTransitions
    BY <1>3, <1>4 DEF AllowedTransitions
  <2> QED
    BY <1>1, <1>4, <2>1, <2>2, RecordOne DEF AgentInv, Watched
<1>6. attempts' \in [Actions -> Nat]
      /\ \A a \in Actions : attempts'[a] = attempts[a] + IF e.decision = a THEN 1 ELSE 0
  BY <1>1, <1>4 DEF AgentInv, Watched, Counted
<1>7. Counted(events', toolCalls', runCreations', failures', attempts')
  <2>1. PICK calls, runs, failed, tries :
          /\ calls = toolCalls' /\ runs = runCreations'
          /\ failed = failures' /\ tries = attempts'
    OBVIOUS
  <2>2. Counted(Append(events, e), calls, runs, failed, tries)
    <3>1. failed = failures + 0 /\ failures + 0 = failures
      BY <1>2, <2>1 DEF AgentInv, Spent, Within
    <3>2. /\ Counted(events, toolCalls, runCreations, failures, attempts)
          /\ calls = toolCalls + IF e.type = "action_selected" THEN 1 ELSE 0
          /\ runs = runCreations + IF e.type = "action_selected" /\ CreatesRun(e.decision)
                                  THEN 1 ELSE 0
          /\ failed = failures + IF e.type = "tool_observed" /\ e.observation.status = "failed"
                                THEN 1 ELSE 0
          /\ tries \in [Actions -> Nat]
          /\ \A a \in Actions : tries[a] = attempts[a] + IF e.decision = a THEN 1 ELSE 0
      BY <1>1, <1>2, <1>4, <1>6, <2>1, <3>1 DEF AgentInv, Watched
    <3> HIDE DEF e
    <3> QED
      BY <1>4, <3>2, CountOne
  <2> QED
    BY <1>1, <2>1, <2>2
<1>8. Spent'
  <2>1. /\ toolCalls < policy.maxToolCalls
        /\ CreatesRun(decision) => runCreations < policy.maxRunCreations
        /\ attempts[decision] < policy.maxSameAction
    <3>1. "tool_call_budget_exhausted" # None /\ "run_creation_budget_exhausted" # None
          /\ "repeated_action_rejected" # None
      BY PolicyAssumption DEF RunFailures, UnrecordedFailures
    <3>2. /\ policy.maxToolCalls \in Nat /\ policy.maxRunCreations \in Nat
          /\ policy.maxSameAction \in Nat
          /\ toolCalls \in Nat /\ runCreations \in Nat /\ attempts[decision] \in Nat
      BY <1>1, AgentFacts DEF RuntimePolicy, AgentInv, Spent, Within, Watched, Counted
    <3> QED
      BY <1>1, <3>1, <3>2 DEF Rejection
  <2>2. /\ policy.maxToolCalls \in Nat /\ policy.maxRunCreations \in Nat
        /\ policy.maxSameAction \in Nat
    BY AgentFacts DEF RuntimePolicy
  <2>3. steps = toolCalls + 1
    BY <1>1, AgentFacts DEF AgentInv, Spent
  <2>4. \A a \in Actions : attempts'[a] <= policy.maxSameAction
    BY <1>1, <1>4, <1>6, <2>1, <2>2 DEF AgentInv, Spent, Within, Watched, Counted
  <2>5. Within(policy, steps, toolCalls', runCreations', failures, attempts')
    BY <1>1, <2>1, <2>2, <2>3, <2>4 DEF AgentInv, Spent, Within
  <2>6. failures # policy.maxFailures /\ failures < toolCalls'
    BY <1>1, <1>3 DEF AgentInv, Spent, Within
  <2> QED
    BY <1>1, <1>2, <2>3, <2>5, <2>6 DEF AgentInv, Spent, Within, Running
<1>9. Phases' /\ Left'
  <2>1. Open(events')
    BY <1>1, <1>3, <1>4, AgentFacts, GoOn
  <2>2. events' # <<>> /\ events'[Len(events')].decision = decision
    BY <1>1, <1>4, AgentFacts
  <2> QED
    BY <1>1, <1>2, <2>1, <2>2 DEF AgentInv, Phases, Selecting, Left, Running
<1>10. Configured' /\ Watched'
  BY <1>1, <1>2, <1>5, <1>7 DEF AgentInv, Configured, Watched
<1> QED
  BY <1>8, <1>9, <1>10 DEF AgentInv

(* What a tool answers, and what the gate in front of it answers.           *)
Answers(o) ==
    /\ o \in Observation /\ o.action = decision
    /\ o.status = "succeeded" => o.value \in Values(o.action)
    /\ PolicyError(task, decision, observations) # None =>
         /\ o.status = "failed"
         /\ o.error = PolicyError(task, decision, observations)

ObservedEvents(o) ==
    <<Event("acting", "tool_observed", "observing", None, o),
      Event("observing", "observation_processed", "deciding", None, None)>>

LEMMA AppendTwo ==
    ASSUME NEW ev \in Seq(TraceEvent), NEW a \in TraceEvent, NEW b \in TraceEvent
    PROVE  ev \o <<a, b>> = Append(Append(ev, a), b)
  OBVIOUS

LEMMA ObserveRecords ==
    ASSUME AgentInv, state = "acting", NEW o, Answers(o)
    PROVE  /\ Recorded(task, events \o ObservedEvents(o), Append(observations, o), "deciding")
           /\ Open(events \o ObservedEvents(o))
           /\ Witnessed(Append(observations, o))
           /\ Counted(events \o ObservedEvents(o), toolCalls, runCreations,
                      failures + (IF o.status = "failed" THEN 1 ELSE 0), attempts)
<1> DEFINE a == Event("acting", "tool_observed", "observing", None, o)
           b == Event("observing", "observation_processed", "deciding", None, None)
           one == Append(events, a)
           seen == Append(observations, o)
<1>1. /\ a \in TraceEvent /\ a.before = "acting" /\ ~ Terminal(a) /\ a.after = "observing"
      /\ a.type = "tool_observed" /\ a.decision = None /\ a.observation = o
  BY DEF Event, TraceEvent, AgentStates, EventTypes, Terminal, Answers
<1>2. /\ b \in TraceEvent /\ b.before = "observing" /\ ~ Terminal(b) /\ b.after = "deciding"
      /\ b.type = "observation_processed" /\ b.decision = None
  BY DEF Event, TraceEvent, AgentStates, EventTypes, Terminal
<1>3. events \in Seq(TraceEvent) /\ one \in Seq(TraceEvent)
  BY <1>1, AgentFacts
<1>4. events \o ObservedEvents(o) = Append(one, b)
  BY <1>1, <1>2, <1>3, AppendTwo DEF ObservedEvents
<1> HIDE DEF a, b, one
<1>5. /\ Running /\ Open(events) /\ events[Len(events)].decision = decision
      /\ Recorded(task, events, observations, "acting")
      /\ Witnessed(observations) /\ decision \in Actions
      /\ Counted(events, toolCalls, runCreations, failures, attempts)
  BY DEF AgentInv, Phases, Selecting, Watched
<1>6. Recorded(task, one, seen, "observing")
  <2>1. <<"acting", a.type, a.after>> \in AllowedTransitions
    BY <1>1 DEF AllowedTransitions
  <2>2. LET action   == events[Len(events)].decision
            enforced == PolicyError(task, action, observations)
        IN /\ a.observation.action.tool = action.tool
           /\ enforced # None => /\ a.observation.status = "failed"
                                 /\ a.observation.error = enforced
    BY <1>1, <1>5 DEF Answers
  <2> QED
    BY <1>1, <1>5, <2>1, <2>2, RecordOne DEF one
<1>7. Recorded(task, Append(one, b), seen, "deciding")
  <2>1. <<"observing", b.type, b.after>> \in AllowedTransitions
    BY <1>2 DEF AllowedTransitions
  <2> QED
    BY <1>2, <1>6, <2>1, RecordOne
<1>8. Open(Append(one, b))
  BY <1>1, <1>2, <1>3, <1>5, GoOn DEF one
<1>9. Witnessed(seen)
  BY <1>5 DEF Witnessed, Answers
<1>10. Counted(Append(one, b), toolCalls, runCreations,
               failures + (IF o.status = "failed" THEN 1 ELSE 0), attempts)
  <2> DEFINE failed == failures + (IF o.status = "failed" THEN 1 ELSE 0)
  <2>1. toolCalls \in Nat /\ runCreations \in Nat /\ failures \in Nat
        /\ attempts \in [Actions -> Nat]
    BY <1>5 DEF AgentInv, Spent, Within, Counted
  <2>2. None \notin Actions
    BY AgentFacts
  <2>3. /\ toolCalls = toolCalls + IF a.type = "action_selected" THEN 1 ELSE 0
        /\ runCreations = runCreations +
             IF a.type = "action_selected" /\ CreatesRun(a.decision) THEN 1 ELSE 0
        /\ failed = failures + IF a.type = "tool_observed" /\ a.observation.status = "failed"
                               THEN 1 ELSE 0
        /\ \A x \in Actions : attempts[x] = attempts[x] + IF a.decision = x THEN 1 ELSE 0
    BY <1>1, <2>1, <2>2
  <2> HIDE DEF failed
  <2>4. Counted(one, toolCalls, runCreations, failed, attempts)
    BY <1>1, <1>5, <2>1, <2>3, CountOne DEF one
  <2>5. Counted(Append(one, b), toolCalls, runCreations, failed, attempts)
    BY <1>2, <2>2, <2>4, CountOther
  <2> QED
    BY <2>5 DEF failed
<1> QED
  BY <1>4, <1>7, <1>8, <1>9, <1>10

LEMMA ObserveKeeps ==
    ASSUME AgentInv, Running, state = "acting", NEW o, Answers(o),
           NEW violation \in BOOLEAN, Observe(o, violation)
    PROVE  AgentInv'
<1> DEFINE seen     == Append(observations, o)
           recorded == events \o ObservedEvents(o)
<1>1. /\ Recorded(task, recorded, seen, "deciding") /\ Open(recorded) /\ Witnessed(seen)
      /\ Counted(recorded, toolCalls, runCreations,
                 failures + (IF o.status = "failed" THEN 1 ELSE 0), attempts)
  BY ObserveRecords
<1>2. /\ failures' = failures + (IF o.status = "failed" THEN 1 ELSE 0)
      /\ task' = task /\ policy' = policy /\ steps' = steps /\ toolCalls' = toolCalls
      /\ runCreations' = runCreations /\ attempts' = attempts /\ trace' = trace
      /\ config' = config
  BY DEF Observe, config
<1>3. \/ /\ FailRun("deciding", recorded, seen, "policy_violation")
      \/ /\ failures' >= policy.maxFailures
         /\ FailRun("deciding", recorded, seen, "failure_budget_exhausted")
      \/ /\ ~ (failures' >= policy.maxFailures)
         /\ state' = "deciding" /\ decision' = None /\ events' = recorded
         /\ observations' = seen /\ result' = result
  BY DEF Observe, ObservedEvents
<1> HIDE DEF seen, recorded
<1>4. policy.maxFailures \in Nat
  BY AgentFacts DEF RuntimePolicy
<1>5. /\ failures' \in Nat /\ failures' <= toolCalls /\ failures' <= policy.maxFailures
      /\ steps = toolCalls
  BY <1>2, <1>4 DEF AgentInv, Spent, Within
<1>6. /\ Within(policy, steps, toolCalls', runCreations', failures', attempts')
      /\ Counted(recorded, toolCalls', runCreations', failures', attempts')
  BY <1>1, <1>2, <1>5 DEF AgentInv, Spent, Within
<1>7. /\ Failing("deciding", recorded, seen, "policy_violation")
      /\ Failing("deciding", recorded, seen, "failure_budget_exhausted")
  <2>1. /\ {"policy_violation", "failure_budget_exhausted"} \subseteq RunFailures
        /\ "policy_violation" \notin UnrecordedFailures
        /\ "failure_budget_exhausted" \notin UnrecordedFailures
    BY DEF RunFailures, UnrecordedFailures
  <2>2. UNCHANGED <<config, steps, trace>>
    BY <1>2
  <2>3. steps = toolCalls' + 0
    BY <1>2, <1>5, <1>6 DEF Within
  <2>4. ASSUME NEW reason \in RunFailures, reason \notin UnrecordedFailures
        PROVE  Failing("deciding", recorded, seen, reason)
    <3>1. (IF reason \in UnrecordedFailures THEN 1 ELSE 0) = 0
      BY <2>4
    <3>2. steps = toolCalls' + IF reason \in UnrecordedFailures THEN 1 ELSE 0
      BY <2>3, <3>1
    <3> QED
      BY <1>1, <1>6, <2>2, <3>2 DEF Failing, ReadyToFail
  <2> QED
    BY <2>1, <2>4
<1>8. trace = None /\ Configured
  BY AgentFacts DEF AgentInv
<1>9. ASSUME ~ (failures' >= policy.maxFailures), state' = "deciding", decision' = None,
             events' = recorded, observations' = seen, result' = result
      PROVE  AgentInv'
  <2>1. Configured' /\ Watched'
    BY <1>1, <1>2, <1>6, <1>9 DEF AgentInv, Configured, Watched
  <2>2. Spent'
    BY <1>2, <1>4, <1>5, <1>6, <1>9 DEF AgentInv, Spent, Running
  <2>3. Phases' /\ Left'
    BY <1>1, <1>2, <1>8, <1>9 DEF AgentInv, Phases, Left, Running
  <2> QED
    BY <2>1, <2>2, <2>3 DEF AgentInv
<1> QED
  BY <1>3, <1>7, <1>8, <1>9, FailRunKeeps

LEMMA OutcomesAnswer ==
    ASSUME NEW o \in ToolOutcomes(decision), decision \in Actions, Refusal(decision) = None
    PROVE  Answers(o)
<1>1. PolicyError(task, decision, observations) = None
  BY DEF Refusal
<1>2. \A v \in Values(decision) : v \in AllValues
  BY DEF AllValues
<1>3. "tool" \in ToolErrors
  BY DEF ToolErrors
<1>4. /\ o.action = decision /\ o.status \in {"succeeded", "failed"}
      /\ o.status = "succeeded" => o.value \in Values(o.action)
      /\ o \in Observation
  <2>1. CASE \E v \in Values(decision) :
               o = [action |-> decision, status |-> "succeeded", retryable |-> FALSE,
                    error |-> None, value |-> v]
    BY <1>2, <2>1 DEF Observation
  <2>2. CASE \E retryable \in BOOLEAN : o = Failure(decision, "tool", retryable)
    BY <1>3, <2>2 DEF Failure, Observation
  <2> QED
    BY <2>1, <2>2 DEF ToolOutcomes
<1> QED
  BY <1>1, <1>4 DEF Answers

LEMMA ExecuteKeeps == AgentInv /\ Execute => AgentInv'
<1> SUFFICES ASSUME AgentInv, Execute PROVE AgentInv'
  OBVIOUS
<1>1. Running /\ state = "acting" /\ decision \in Actions
  BY DEF Execute, AgentInv, Phases, Selecting
<1>2. PolicyError(task, decision, observations) \in ToolErrors \cup {None}
  BY DEF PolicyError, ToolErrors
<1>3. CASE Refusal(decision) # None
  <2> DEFINE o == Failure(decision, Refusal(decision), FALSE)
  <2>1. Observe(o, TRUE)
    BY <1>3 DEF Execute
  <2>2. Refusal(decision) \in ToolErrors \cup {None}
    BY <1>2 DEF Refusal, ToolErrors
  <2>3. Answers(o)
    BY <1>1, <2>2 DEF Answers, Failure, Observation, Refusal
  <2> QED
    BY <1>1, <2>1, <2>3, ObserveKeeps
<1>4. CASE Refusal(decision) = None
  <2>1. PICK o \in ToolOutcomes(decision) : Observe(o, FALSE)
    BY <1>4 DEF Execute
  <2>2. Answers(o)
    BY <1>1, <1>4, <2>1, OutcomesAnswer
  <2> QED
    BY <1>1, <2>1, <2>2, ObserveKeeps
<1> QED
  BY <1>3, <1>4

LEMMA StoreTraceKeeps == AgentInv /\ StoreTrace => AgentInv'
  BY DEF AgentInv, StoreTrace, Configured, Watched, Spent, Phases, Left, Selecting,
         Running, config, counters

LEMMA FailuresKeep ==
    AgentInv /\ (TimeRunsOut \/ PlannerFails \/ ExhaustSteps \/ RejectFinish \/ RejectAction)
      => AgentInv'
<1> SUFFICES ASSUME AgentInv,
                    TimeRunsOut \/ PlannerFails \/ ExhaustSteps \/ RejectFinish \/ RejectAction
             PROVE  AgentInv'
  OBVIOUS
<1>1. CASE TimeRunsOut \/ PlannerFails \/ ExhaustSteps
  <2>1. Running /\ decision = None /\ state # "acting"
    BY <1>1, AgentFacts DEF TimeRunsOut, PlannerFails, ExhaustSteps, MayPlan, AtHead
  <2>2. PICK reason \in {"elapsed_budget_exhausted", "step_budget_exhausted",
                         "planner_failed", "planner_invalid_audit",
                         "planner_invalid_output"} : FailHere(reason)
    BY <1>1 DEF TimeRunsOut, PlannerFails, ExhaustSteps
  <2>3. reason \in RunFailures /\ reason \notin UnrecordedFailures
    BY DEF RunFailures, UnrecordedFailures
  <2> QED
    BY <2>1, <2>2, <2>3, FailHereKeeps
<1>2. CASE RejectFinish
  <2>1. Running /\ decision # None /\ state # "acting"
    BY <1>2, AgentFacts DEF RejectFinish, Finishing, AgentInv, Phases, Selecting
  <2>2. "ungrounded_finish_rejected" \in RunFailures \cap UnrecordedFailures
    BY DEF RunFailures, UnrecordedFailures
  <2> QED
    BY <1>2, <2>1, <2>2, FailHereKeeps DEF RejectFinish
<1>3. CASE RejectAction
  <2>1. Running /\ decision # None /\ state # "acting"
    BY <1>3, AgentFacts DEF RejectAction, Acting
  <2>2. Rejection(decision) \in UnrecordedFailures /\ FailHere(Rejection(decision))
    BY <1>3 DEF RejectAction, Rejection, UnrecordedFailures
  <2>3. Rejection(decision) \in RunFailures
    BY <2>2 DEF RunFailures
  <2> QED
    BY <2>1, <2>2, <2>3, FailHereKeeps
<1> QED
  BY <1>1, <1>2, <1>3

LEMMA AgentSteps == AgentInv /\ [Next]_vars => AgentInv'
<1> SUFFICES ASSUME AgentInv, [Next]_vars PROVE AgentInv'
  OBVIOUS
<1>1. CASE TimeRunsOut \/ PlannerFails \/ ExhaustSteps \/ RejectFinish \/ RejectAction
  BY <1>1, FailuresKeep
<1>2. CASE Decide
  BY <1>2, DecideKeeps
<1>3. CASE Complete
  BY <1>3, CompleteKeeps
<1>4. CASE SelectAction
  BY <1>4, SelectActionKeeps
<1>5. CASE Execute
  BY <1>5, ExecuteKeeps
<1>6. CASE StoreTrace
  BY <1>6, StoreTraceKeeps
<1>7. CASE UNCHANGED vars
  BY <1>7 DEF vars, config, counters, AgentInv, Configured, Watched, Spent, Phases, Left,
              Selecting, Running
<1> QED
  BY <1>1, <1>2, <1>3, <1>4, <1>5, <1>6, <1>7 DEF Next
-----------------------------------------------------------------------------

(* In every reachable state of a run the events say what happened, the      *)
(* counters are what the events show, and a run that ended left a result    *)
(* that follows from them (agent/runtime.py, AgentRuntime.run).             *)
THEOREM AgentInvariant == Spec => []AgentInv
<1>1. Init => AgentInv
  BY AgentStarts
<1>2. AgentInv /\ [Next]_vars => AgentInv'
  BY AgentSteps
<1> QED
  BY <1>1, <1>2, PTL DEF Spec

(* Every trace that AgentRuntime.run stores, whichever way out it took, is  *)
(* accepted by TraceReplayer.replay_trace.                                  *)
THEOREM TracesReplay == Spec => []EveryTraceReplays
<1>1. AgentInv => EveryTraceReplays
  <2> SUFFICES ASSUME AgentInv, trace # None PROVE Replays(trace)
    BY DEF EveryTraceReplays
  <2>1. Ended(task, policy, events, result)
    BY DEF AgentInv, Left
  <2>2. trace = [task |-> task, policy |-> policy, events |-> events, result |-> result]
    BY DEF AgentInv, Left
  <2> QED
    BY <2>1, <2>2 DEF Replays, Ended
<1> QED
  BY <1>1, AgentInvariant, PTL

(* The variables of AgentRuntime.run keep their types, and its counters the *)
(* order they are advanced in.                                              *)
THEOREM AgentTypes == Spec => []TypeOK
<1>1. AgentInv => TypeOK
  <2> SUFFICES ASSUME AgentInv PROVE TypeOK
    OBVIOUS
  <2>1. task \in Tasks /\ policy \in Policies(task) /\ policy.maxSteps \in Nat
    BY AgentFacts DEF AgentInv, Configured, RuntimePolicy
  <2>2. /\ steps \in 0 .. policy.maxSteps /\ toolCalls \in 0 .. steps
        /\ runCreations \in 0 .. toolCalls /\ failures \in 0 .. toolCalls
    BY <2>1 DEF AgentInv, Spent, Within
  <2>3. /\ events \in Seq(TraceEvent) /\ observations \in Seq(Observation)
        /\ decision \in Actions \cup Finishes \cup {None}
    BY AgentFacts DEF Witnessed
  <2>4. attempts \in [Actions -> Nat]
    BY DEF AgentInv, Watched, Counted
  <2>5. /\ result \in TerminalResult \cup {None}
        /\ result # None <=> state \in {"completed", "failed"}
        /\ state \in AgentStates
    BY DEF AgentInv, Phases, Running, AgentStates
  <2> QED
    BY <2>1, <2>2, <2>3, <2>4, <2>5 DEF TypeOK
<1> QED
  BY <1>1, AgentInvariant, PTL

-----------------------------------------------------------------------------
(* The budgets of a retrieval run.  Its planner asks for an action that has *)
(* not succeeded yet, of four, and after one failure at most: so the calls  *)
(* are the actions done and the failures, and both are bounded.             *)

RetrievalActions == {Diagnose} \cup Candidates
Stopped(seen) ==
    /\ seen # <<>>
    /\ Last(seen).status = "failed"
    /\ Last(seen).retryable => Cardinality(Failed(seen)) > 1

OnPath ==
    /\ Done(observations) \subseteq RetrievalActions
    /\ toolCalls = Cardinality(Done(observations)) + failures
                     + IF state = "acting" THEN 1 ELSE 0
    /\ failures = Cardinality(Failed(observations))
    /\ \A a \in Actions :
         attempts[a] <= failures + IF \/ a \in Done(observations)
                                      \/ (state = "acting" /\ decision = a)
                                   THEN 1 ELSE 0
    /\ failures <= 1 \/ (failures = 2 /\ Stopped(observations))
    /\ task = "adaptive" => failures = 0

PathInv == AgentInv /\ (task # "compare" /\ Running => OnPath) /\ BudgetsSuffice

LEMMA AddOne ==
    ASSUME NEW S, IsFiniteSet(S), NEW k \in Nat, Cardinality(S) <= k, NEW x
    PROVE  /\ IsFiniteSet(S \cup {x}) /\ Cardinality(S \cup {x}) <= k + 1
           /\ x \notin S => Cardinality(S \cup {x}) = Cardinality(S) + 1
<1>1. Cardinality(S) \in Nat
  BY FS_CardinalityType
<1>2. x \notin S => Cardinality(S \cup {x}) = Cardinality(S) + 1
  BY FS_AddElement
<1>3. x \in S => S \cup {x} = S
  OBVIOUS
<1>4. IsFiniteSet(S \cup {x})
  BY FS_AddElement
<1> QED
  BY <1>1, <1>2, <1>3, <1>4

LEMMA DoneBounded ==
    ASSUME NEW done, done \subseteq RetrievalActions
    PROVE  /\ Cardinality(done) \in Nat /\ Cardinality(done) <= 4
           /\ \A d \in RetrievalActions \ done :
                Cardinality(done) <= 3 /\ Cardinality(done \cup {d}) = Cardinality(done) + 1
<1>1. PICK a, b, c, d : /\ a = {Diagnose} /\ b = a \cup {Candidate("uniform")}
                        /\ c = b \cup {Candidate("conservative")}
                        /\ d = c \cup {Candidate("aggressive")}
  OBVIOUS
<1>2. RetrievalActions = d
  BY <1>1 DEF RetrievalActions, Candidates, Variants
<1>3. IsFiniteSet({}) /\ Cardinality({}) <= 0 /\ a = {} \cup {Diagnose}
  BY <1>1, FS_EmptySet
<1>4. IsFiniteSet(a) /\ Cardinality(a) <= 0 + 1
  BY <1>3, AddOne
<1>5. IsFiniteSet(b) /\ Cardinality(b) <= 1 + 1
  BY <1>1, <1>4, AddOne
<1>6. IsFiniteSet(c) /\ Cardinality(c) <= 2 + 1
  BY <1>1, <1>5, AddOne
<1>7. IsFiniteSet(d) /\ Cardinality(d) <= 3 + 1
  BY <1>1, <1>6, AddOne
<1>8. \A S : S \subseteq RetrievalActions =>
        IsFiniteSet(S) /\ Cardinality(S) \in Nat /\ Cardinality(S) <= 4
  <2>1. Cardinality(d) \in Nat /\ Cardinality(d) <= 4
    BY <1>7, FS_CardinalityType
  <2> QED
    BY <1>2, <1>7, <2>1, FS_Subset, FS_CardinalityType
<1>9. ASSUME NEW x \in RetrievalActions \ done
      PROVE  Cardinality(done) <= 3 /\ Cardinality(done \cup {x}) = Cardinality(done) + 1
  <2>1. done \cup {x} \subseteq RetrievalActions
    OBVIOUS
  <2>2. Cardinality(done \cup {x}) = Cardinality(done) + 1
    BY <1>8, FS_AddElement
  <2> QED
    BY <1>8, <2>1, <2>2
<1> QED
  BY <1>8, <1>9

LEMMA ObservationsGrow ==
    ASSUME NEW seen \in Seq(Observation), NEW o \in Observation
    PROVE  /\ Done(Append(seen, o)) = IF o.status = "succeeded"
                                      THEN Done(seen) \cup {o.action} ELSE Done(seen)
           /\ Cardinality(Failed(seen)) \in Nat
           /\ Cardinality(Failed(Append(seen, o))) =
                Cardinality(Failed(seen)) + IF o.status = "failed" THEN 1 ELSE 0
           /\ Append(seen, o) # <<>> /\ Last(Append(seen, o)) = o
<1>1. PICK more, n : more = Append(seen, o) /\ n = Len(seen) + 1
  OBVIOUS
<1>2. /\ n \in Nat \ {0} /\ DOMAIN seen = 1 .. n - 1 /\ DOMAIN more = 1 .. n
      /\ \A i \in 1 .. n - 1 : more[i] = seen[i]
      /\ more[n] = o /\ Len(more) = n /\ more # <<>>
  BY <1>1
<1>3. DOMAIN more = DOMAIN seen \cup {n} /\ n \notin DOMAIN seen
  BY <1>2
<1>4. /\ o.status = "failed" => Failed(more) = Failed(seen) \cup {n}
      /\ o.status # "failed" => Failed(more) = Failed(seen)
  BY <1>2, <1>3 DEF Failed
<1>5. Failed(seen) \subseteq 1 .. n - 1
  BY <1>2 DEF Failed
<1>6. /\ Cardinality(Failed(seen)) \in Nat
      /\ o.status = "failed" => Cardinality(Failed(more)) = Cardinality(Failed(seen)) + 1
  BY <1>2, <1>4, <1>5, OneMore
<1>7. ToSet(more) = ToSet(seen) \cup {o}
  BY <1>2, <1>3 DEF ToSet
<1>8. Succeeded(more) = IF o.status = "succeeded" THEN Succeeded(seen) \cup {o}
                        ELSE Succeeded(seen)
  BY <1>7 DEF Succeeded
<1>9. Done(more) = IF o.status = "succeeded" THEN Done(seen) \cup {o.action} ELSE Done(seen)
  BY <1>8 DEF Done
<1>10. Cardinality(Failed(more)) =
         Cardinality(Failed(seen)) + IF o.status = "failed" THEN 1 ELSE 0
  BY <1>4, <1>6
<1>11. more # <<>> /\ Last(more) = o
  BY <1>2 DEF Last
<1> QED
  BY <1>1, <1>6, <1>9, <1>10, <1>11

LEMMA PlannerOpens ==
    ASSUME NEW t \in {"fixed", "adaptive"}, NEW seen, NEW d \in Actions,
           d \in Decisions(t, seen), Witnessed(seen)
    PROVE  /\ d \in RetrievalActions \ Done(seen)
           /\ t = "fixed" => ~ Stopped(seen)
           /\ InScope(t, d, seen) /\ d.tool \in ToolNames(t)
<1>1. d \notin Finishes
  BY ActionsAreNoFinishes
<1>2. Finish("inconclusive", seen, "tool_failed") \in Finishes /\ NoSafe(seen) \in Finishes
      /\ (Passing(seen) # {} => ProposalReady(seen) \in Finishes)
  BY FinishesAreTyped
<1>3. d \in RetrievalActions => d.tool \in ToolNames(t)
  BY DEF RetrievalActions, Candidates, Candidate, Diagnose, Act, ToolNames
<1>4. InScope(t, d, seen)
  BY DEF InScope, Decisions
<1>5. CASE t = "fixed"
  <2>1. d = Expected(seen)
    BY <1>5 DEF Decisions
  <2>2. {Candidate("uniform"), Candidate("conservative"), Candidate("aggressive"), Diagnose}
          \subseteq RetrievalActions
    BY DEF RetrievalActions, Candidates, Variants
  <2>3. \/ d = Finish("inconclusive", seen, "tool_failed")
        \/ (~ Stopped(seen) /\ d \notin Done(seen) /\ d \in RetrievalActions)
        \/ d = NoSafe(seen)
        \/ (d = ProposalReady(seen) /\ Passing(seen) # {})
    <3>1. Candidate("uniform") \in {o.action : o \in Passing(seen)} => Passing(seen) # {}
      OBVIOUS
    <3>2. {o.action : o \in Passing(seen)} # {} => Passing(seen) # {}
      OBVIOUS
    <3> QED
      BY <2>1, <2>2, <3>1, <3>2 DEF Expected, Stopped
  <2> QED
    BY <1>1, <1>2, <1>3, <1>4, <2>2, <2>3
<1>6. CASE t = "adaptive"
  <2>1. d \in Options(seen)
    BY <1>6 DEF Decisions
  <2>2. Candidates \subseteq RetrievalActions /\ Diagnose \in RetrievalActions
    BY DEF RetrievalActions
  <2>3. d \in RetrievalActions /\ d \notin Done(seen)
    BY <1>1, <1>2, <2>1, <2>2 DEF Options
  <2> QED
    BY <1>3, <1>4, <1>6, <2>3
<1> QED
  BY <1>5, <1>6

(* What the planner asks for next is within every budget.                   *)
LEMMA PathBounds ==
    ASSUME PathInv, Running, task # "compare"
    PROVE  /\ OnPath /\ task \in {"fixed", "adaptive"} /\ failures \in 0 .. 2
           /\ steps < policy.maxSteps \/ decision # None
           /\ decision \in Finishes => Grounded(task, decision, observations)
           /\ decision \in Actions =>
                /\ decision \in RetrievalActions \ Done(observations) /\ failures <= 1
                /\ InScope(task, decision, observations)
                /\ decision.tool \in ToolNames(task)
                /\ state # "acting" => Rejection(decision) = None
           /\ policy.denied = {} /\ policy.maxFailures = IF task = "fixed" THEN 3 ELSE 1
<1>1. OnPath /\ AgentInv
  BY DEF PathInv
<1>2. task \in {"fixed", "adaptive"} /\ failures \in 0 .. 2
  BY <1>1, AgentFacts DEF Tasks, OnPath, AgentInv, Spent, Within
<1>3. policy \in Policies(task)
  BY <1>1 DEF AgentInv, Configured
<1>4. /\ task = "fixed" => policy = [maxSteps |-> 8, maxToolCalls |-> 6, maxRunCreations |-> 5,
                                    maxFailures |-> 3, maxSameAction |-> 2, denied |-> {}]
      /\ task = "adaptive" => policy = [maxSteps |-> 6, maxToolCalls |-> 4,
                                        maxRunCreations |-> 4, maxFailures |-> 1,
                                        maxSameAction |-> 1, denied |-> {}]
  BY <1>2, <1>3 DEF Policies
<1>5. /\ policy.denied = {}
      /\ policy.maxFailures = IF task = "fixed" THEN 3 ELSE 1
      /\ policy.maxSteps = IF task = "fixed" THEN 8 ELSE 6
      /\ policy.maxToolCalls = IF task = "fixed" THEN 6 ELSE 4
      /\ policy.maxRunCreations = IF task = "fixed" THEN 5 ELSE 4
      /\ policy.maxSameAction = IF task = "fixed" THEN 2 ELSE 1
  BY <1>2, <1>4
<1>6. /\ Cardinality(Done(observations)) \in Nat
      /\ Cardinality(Done(observations)) <= 4
      /\ \A d \in RetrievalActions \ Done(observations) : Cardinality(Done(observations)) <= 3
  BY <1>1, DoneBounded DEF OnPath
<1>7. steps < policy.maxSteps \/ decision # None
  <2> SUFFICES ASSUME decision = None PROVE steps < policy.maxSteps
    OBVIOUS
  <2>1. steps = toolCalls /\ state # "acting"
    BY <1>1, AgentFacts DEF AgentInv, Spent, Within, AtHead
  <2>2. task = "adaptive" => failures = 0
    BY <1>1 DEF OnPath
  <2>3. toolCalls = Cardinality(Done(observations)) + failures
    BY <1>1, <1>2, <1>6, <2>1 DEF OnPath
  <2> QED
    BY <1>2, <1>5, <1>6, <2>1, <2>2, <2>3
<1>8. ASSUME decision \in Finishes PROVE Grounded(task, decision, observations)
  <2>1. decision \in Decisions(task, observations)
    BY <1>1, <1>8, AgentFacts DEF AgentInv, Phases
  <2> QED
    BY <1>2, <2>1 DEF Decisions, Grounded
<1>9. ASSUME decision \in Actions
      PROVE  /\ decision \in RetrievalActions \ Done(observations) /\ failures <= 1
             /\ InScope(task, decision, observations)
             /\ decision.tool \in ToolNames(task)
             /\ state # "acting" => Rejection(decision) = None
  <2>1. decision \in Decisions(task, observations)
    BY <1>1, <1>9, AgentFacts DEF AgentInv, Phases
  <2>2. /\ decision \in RetrievalActions \ Done(observations)
        /\ task = "fixed" => ~ Stopped(observations)
        /\ InScope(task, decision, observations) /\ decision.tool \in ToolNames(task)
    BY <1>1, <1>2, <1>9, <2>1, AgentFacts, PlannerOpens
  <2>3. failures <= 1 /\ (task = "adaptive" => failures = 0)
    BY <1>1, <1>2, <2>2 DEF OnPath
  <2>4. Cardinality(Done(observations)) <= 3
    BY <1>6, <2>2
  <2>5. ASSUME state # "acting" PROVE Rejection(decision) = None
    <3>1. toolCalls = Cardinality(Done(observations)) + failures
      BY <1>1, <1>2, <1>6, <2>5 DEF OnPath
    <3>2. toolCalls \in Nat /\ runCreations \in Nat /\ runCreations <= toolCalls
          /\ attempts[decision] \in Nat
      BY <1>1, <1>9 DEF AgentInv, Spent, Within, Watched, Counted
    <3>3. attempts[decision] <= failures
      BY <1>1, <1>2, <1>9, <2>2, <2>5 DEF OnPath
    <3>4. toolCalls < policy.maxToolCalls /\ runCreations < policy.maxRunCreations
          /\ attempts[decision] < policy.maxSameAction
      BY <1>2, <1>5, <1>6, <2>3, <2>4, <3>1, <3>2, <3>3
    <3>5. policy.maxToolCalls \in Nat /\ policy.maxRunCreations \in Nat
          /\ policy.maxSameAction \in Nat
      BY <1>5
    <3> QED
      BY <3>2, <3>4, <3>5 DEF Rejection
  <2> QED
    BY <2>2, <2>3, <2>5
<1> QED
  BY <1>1, <1>2, <1>5, <1>7, <1>8, <1>9

LEMMA PathStarts == Init => PathInv
<1> SUFFICES ASSUME Init PROVE PathInv
  OBVIOUS
<1>1. AgentInv
  BY AgentStarts
<1>2. Done(observations) = {} /\ Failed(observations) = {}
  BY DEF Init, Done, Succeeded, ToSet, Failed
<1>3. Cardinality({}) = 0
  BY FS_EmptySet
<1>4. \A a \in Actions : attempts[a] = 0
  BY DEF Init
<1>5. OnPath
  <2>1. /\ state = "planning" /\ toolCalls = 0 /\ failures = 0 /\ "planning" # "acting"
    BY DEF Init
  <2>2. /\ toolCalls = Cardinality(Done(observations)) + failures
                          + IF state = "acting" THEN 1 ELSE 0
        /\ failures = Cardinality(Failed(observations))
    BY <1>2, <1>3, <2>1
  <2>3. \A a \in Actions :
          attempts[a] <= failures + IF \/ a \in Done(observations)
                                       \/ (state = "acting" /\ decision = a)
                                    THEN 1 ELSE 0
    BY <1>2, <1>4, <2>1
  <2> QED
    BY <1>2, <2>1, <2>2, <2>3 DEF OnPath
<1>6. BudgetsSuffice
  BY DEF Init, BudgetsSuffice
<1> QED
  BY <1>1, <1>5, <1>6 DEF PathInv

LEMMA PathSelects == PathInv /\ SelectAction /\ task # "compare" => OnPath'
<1> SUFFICES ASSUME PathInv, SelectAction, task # "compare" PROVE OnPath'
  OBVIOUS
<1>1. /\ Running /\ state # "acting" /\ decision \in Actions
      /\ state' = "acting" /\ toolCalls' = toolCalls + 1
      /\ attempts' = [attempts EXCEPT ![decision] = @ + 1]
      /\ task' = task /\ observations' = observations /\ failures' = failures
      /\ decision' = decision
  BY DEF SelectAction, Acting, config
<1>2. /\ OnPath /\ decision \notin Done(observations) /\ failures \in Nat
      /\ Cardinality(Done(observations)) \in Nat
      /\ attempts \in [Actions -> Nat]
  BY <1>1, PathBounds, DoneBounded DEF OnPath, PathInv, AgentInv, Watched, Counted
<1>3. ASSUME NEW a \in Actions
      PROVE  attempts'[a] <= failures' + IF \/ a \in Done(observations')
                                            \/ (state' = "acting" /\ decision' = a)
                                         THEN 1 ELSE 0
  BY <1>1, <1>2 DEF OnPath
<1>4. toolCalls' = Cardinality(Done(observations')) + failures' + 1
  BY <1>1, <1>2 DEF OnPath
<1> QED
  BY <1>1, <1>2, <1>3, <1>4 DEF OnPath

LEMMA PathExecutes ==
    PathInv /\ Execute /\ task # "compare" => BudgetsSuffice' /\ (Running' => OnPath')
<1> SUFFICES ASSUME PathInv, Execute, task # "compare"
             PROVE  BudgetsSuffice' /\ (Running' => OnPath')
  OBVIOUS
<1>1. /\ Running /\ state = "acting" /\ decision \in Actions /\ AgentInv
      /\ Witnessed(observations)
  BY AgentFacts DEF Execute, PathInv, AgentInv, Phases, Selecting
<1>2. /\ OnPath /\ task \in {"fixed", "adaptive"} /\ failures \in Nat /\ failures <= 1
      /\ decision \in RetrievalActions \ Done(observations)
      /\ policy.maxFailures = IF task = "fixed" THEN 3 ELSE 1
  BY <1>1, PathBounds
<1>3. Refusal(decision) = None
  <2>1. PolicyError(task, decision, observations) = None
    BY <1>1, PathBounds DEF PolicyError
  <2> QED
    BY <1>1, <2>1, PathBounds DEF Refusal
<1>4. PICK o \in ToolOutcomes(decision) : Observe(o, FALSE)
  BY <1>3 DEF Execute
<1>5. /\ o \in Observation /\ o.action = decision /\ o.status \in {"succeeded", "failed"}
  BY <1>1, <1>3, <1>4, OutcomesAnswer DEF Answers, Observation
<1> DEFINE seen == Append(observations, o)
<1>6. /\ Done(seen) = IF o.status = "succeeded"
                      THEN Done(observations) \cup {decision} ELSE Done(observations)
      /\ Cardinality(Failed(seen)) = failures + IF o.status = "failed" THEN 1 ELSE 0
      /\ seen # <<>> /\ Last(seen) = o
  BY <1>1, <1>2, <1>5, ObservationsGrow DEF OnPath, Witnessed
<1>7. /\ failures' = failures + (IF o.status = "failed" THEN 1 ELSE 0)
      /\ task' = task /\ toolCalls' = toolCalls /\ attempts' = attempts
  BY <1>4 DEF Observe, config
<1>8. \/ /\ failures' >= policy.maxFailures
         /\ result'.reason = "failure_budget_exhausted"
      \/ /\ ~ (failures' >= policy.maxFailures)
         /\ state' = "deciding" /\ decision' = None
         /\ observations' = seen /\ result' = result
  BY <1>4 DEF Observe, FailRun
<1> HIDE DEF seen
<1>9. CASE failures' >= policy.maxFailures
  <2>1. task = "adaptive"
    BY <1>2, <1>7, <1>9
  <2>2. result'.reason = "failure_budget_exhausted"
    BY <1>8, <1>9
  <2>3. BudgetsSuffice'
    BY <1>7, <2>1, <2>2 DEF BudgetsSuffice, UnrecordedFailures
  <2>4. ~ Running'
    <3>1. state' = "failed"
      BY <1>4, <1>9 DEF Observe, FailRun
    <3>2. AgentInv'
      BY <1>1, ExecuteKeeps
    <3> QED
      BY <3>1, <3>2 DEF AgentInv, Phases
  <2> QED
    BY <2>3, <2>4
<1>10. CASE ~ (failures' >= policy.maxFailures)
  <2>1. /\ state' = "deciding" /\ decision' = None
        /\ observations' = seen /\ result' = None
    BY <1>1, <1>8, <1>10 DEF Running
  <2>2. BudgetsSuffice'
    BY <2>1 DEF BudgetsSuffice
  <2>3. Done(seen) \subseteq RetrievalActions
    BY <1>2, <1>6 DEF OnPath
  <2>4. toolCalls = Cardinality(Done(seen)) + failures'
    <3>1. /\ Cardinality(Done(observations)) \in Nat
          /\ Cardinality(Done(observations) \cup {decision})
               = Cardinality(Done(observations)) + 1
      BY <1>2, DoneBounded DEF OnPath
    <3>2. toolCalls = Cardinality(Done(observations)) + failures + 1
      BY <1>1, <1>2 DEF OnPath
    <3>3. CASE o.status = "succeeded"
      BY <1>2, <1>6, <1>7, <3>1, <3>2, <3>3
    <3>4. CASE o.status = "failed"
      BY <1>2, <1>6, <1>7, <3>1, <3>2, <3>4
    <3> QED
      BY <1>5, <3>3, <3>4
  <2>5. ASSUME NEW a \in Actions
        PROVE  attempts[a] <= failures' + IF a \in Done(seen) THEN 1 ELSE 0
    <3>1. attempts[a] \in Nat
      BY <1>1 DEF AgentInv, Watched, Counted
    <3>2. attempts[a] <= failures + IF a \in Done(observations) \/ decision = a
                                    THEN 1 ELSE 0
      BY <1>1, <1>2 DEF OnPath
    <3> QED
      BY <1>2, <1>5, <1>6, <1>7, <3>1, <3>2
  <2>6. failures' <= 1 \/ (failures' = 2 /\ Stopped(seen))
    <3>1. CASE o.status = "failed"
      <4>1. failures' \in {1, 2}
        BY <1>2, <1>7, <3>1
      <4>2. failures' = 2 => Stopped(seen)
        BY <1>2, <1>6, <1>7, <3>1 DEF Stopped
      <4> QED
        BY <4>1, <4>2
    <3>2. CASE o.status # "failed"
      BY <1>2, <1>7, <3>2
    <3> QED
      BY <3>1, <3>2
  <2>7. task = "adaptive" => failures' = 0
    BY <1>2, <1>7, <1>10
  <2>8. OnPath'
    <3>1. state' # "acting" /\ Done(observations') = Done(seen)
          /\ failures' = Cardinality(Failed(observations'))
      BY <1>6, <1>7, <2>1
    <3>2. toolCalls' = Cardinality(Done(observations')) + failures'
                         + IF state' = "acting" THEN 1 ELSE 0
      <4>1. Cardinality(Done(seen)) \in Nat /\ failures' \in Nat
        BY <1>2, <1>7, <2>3, DoneBounded
      <4> QED
        BY <1>7, <2>4, <3>1, <4>1
    <3>3. \A a \in Actions :
            attempts'[a] <= failures' + IF \/ a \in Done(observations')
                                          \/ (state' = "acting" /\ decision' = a)
                                       THEN 1 ELSE 0
      BY <1>7, <2>5, <3>1
    <3>4. failures' <= 1 \/ (failures' = 2 /\ Stopped(observations'))
      BY <2>1, <2>6
    <3> QED
      BY <1>7, <2>3, <2>7, <3>1, <3>2, <3>3, <3>4 DEF OnPath
  <2> QED
    BY <2>2, <2>8
<1> QED
  BY <1>9, <1>10

LEMMA PathSteps == PathInv /\ [Next]_vars => PathInv'
<1> SUFFICES ASSUME PathInv, [Next]_vars PROVE PathInv'
  OBVIOUS
<1>1. AgentInv /\ AgentInv'
  BY AgentSteps DEF PathInv
<1>2. task' = task
  BY DEF Next, vars, config, TimeRunsOut, PlannerFails, Decide, ExhaustSteps, Complete,
         RejectFinish, RejectAction, SelectAction, Execute, StoreTrace, FailHere, Observe
<1>3. CASE task = "compare"
  BY <1>1, <1>2, <1>3 DEF PathInv, BudgetsSuffice
<1>4. CASE task # "compare" /\ UNCHANGED <<state, observations, toolCalls, failures,
                                           attempts, decision, result>>
  <2>1. OnPath => OnPath'
    BY <1>2, <1>4 DEF OnPath
  <2> QED
    BY <1>1, <1>2, <1>4, <2>1 DEF PathInv, BudgetsSuffice, Running
<1>5. CASE task # "compare" /\ Decide
  <2>1. /\ Running /\ decision = None /\ state # "acting" /\ OnPath
        /\ state' = state /\ observations' = observations /\ toolCalls' = toolCalls
        /\ failures' = failures /\ attempts' = attempts /\ result' = result
    BY <1>1, <1>5, AgentFacts DEF Decide, MayPlan, AtHead, PathInv
  <2>2. OnPath'
    BY <1>2, <2>1 DEF OnPath
  <2> QED
    BY <1>1, <1>2, <2>1, <2>2 DEF PathInv, BudgetsSuffice, Running
<1>6. CASE task # "compare" /\ SelectAction
  <2>1. OnPath' /\ result' = None
    BY <1>6, PathSelects DEF SelectAction, Acting, Running
  <2> QED
    BY <1>1, <2>1 DEF PathInv, BudgetsSuffice
<1>7. CASE task # "compare" /\ Execute
  BY <1>1, <1>7, PathExecutes DEF PathInv
<1>8. CASE task # "compare" /\ Complete
  <2>1. result'.reason \in Reasons
    BY <1>8 DEF Complete, Finishing, Finishes
  <2>2. BudgetsSuffice'
    BY <1>2, <2>1 DEF BudgetsSuffice, Reasons, Variants, UnrecordedFailures
  <2>3. ~ Running'
    BY <1>1, <1>8 DEF Complete, AgentInv, Phases
  <2> QED
    BY <1>1, <2>2, <2>3 DEF PathInv
<1>9. CASE task # "compare" /\ (TimeRunsOut \/ PlannerFails)
  <2>1. result'.reason \in {"elapsed_budget_exhausted", "planner_failed",
                            "planner_invalid_audit", "planner_invalid_output"}
        /\ state' = "failed"
    BY <1>9 DEF TimeRunsOut, PlannerFails, FailHere, FailRun
  <2>2. BudgetsSuffice'
    BY <1>2, <2>1 DEF BudgetsSuffice, UnrecordedFailures
  <2>3. ~ Running'
    BY <1>1, <2>1 DEF AgentInv, Phases
  <2> QED
    BY <1>1, <2>2, <2>3 DEF PathInv
<1>10. CASE task # "compare" /\ (ExhaustSteps \/ RejectFinish \/ RejectAction)
  <2>1. Running
    BY <1>10 DEF ExhaustSteps, AtHead, RejectFinish, Finishing, RejectAction, Acting
  <2>2. ~ ExhaustSteps
    BY <1>10, <2>1, PathBounds DEF ExhaustSteps, AtHead, MayPlan
  <2>3. ~ RejectFinish
    BY <1>10, <2>1, PathBounds DEF RejectFinish, Finishing
  <2>4. ~ RejectAction
    BY <1>10, <2>1, PathBounds DEF RejectAction, Acting
  <2> QED
    BY <1>10, <2>2, <2>3, <2>4
<1> QED
  <2>1. StoreTrace \/ UNCHANGED vars =>
          UNCHANGED <<state, observations, toolCalls, failures, attempts, decision, result>>
    BY DEF StoreTrace, vars, counters
  <2> QED
    BY <1>3, <1>4, <1>5, <1>6, <1>7, <1>8, <1>9, <1>10, <2>1 DEF Next

(* No run of the agent exceeds its RuntimePolicy, and those of the          *)
(* retrieval tasks (retrieval_runtime.py) end in a decision of the planner: *)
(* neither a budget nor a rejection cuts the path of expected_retrieval_    *)
(* decision or derive_adaptive_retrieval_options short.                     *)
THEOREM BudgetsAlwaysFit == Spec => []BudgetsFit
<1>1. Init => PathInv
  BY PathStarts
<1>2. PathInv /\ [Next]_vars => PathInv'
  BY PathSteps
<1>3. PathInv => BudgetsFit
  <2> SUFFICES ASSUME PathInv PROVE WithinPolicy
    BY DEF PathInv, BudgetsFit
  <2>1. Counted(events, toolCalls, runCreations, failures, attempts)
        /\ Within(policy, steps, toolCalls, runCreations, failures, attempts)
        /\ (failures = policy.maxFailures => state = "failed")
    BY DEF PathInv, AgentInv, Watched, Spent
  <2>2. RunsOf(events) = {i \in ActionsOf(events) : CreatesRun(events[i].decision)}
        /\ FailedIn(events) = FailedAt
        /\ \A a \in Actions : ChosenIn(events, a) = Chosen(a)
    BY DEF RunsOf, FailedIn, FailedAt, ChosenIn, Chosen
  <2> QED
    BY <2>1, <2>2 DEF Counted, Within, WithinPolicy
<1> QED
  BY <1>1, <1>2, <1>3, PTL DEF Spec
=============================================================================
