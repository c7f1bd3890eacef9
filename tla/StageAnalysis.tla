---------------------------- MODULE StageAnalysis ----------------------------
(***************************************************************************)
(* One stage-aware retrieval analysis: the two tools of                    *)
(* agent/retrieval_tools.py, the planners that call them                   *)
(* (agent/retrieval_planner.py and agent/retrieval_policy.py), and the     *)
(* response built from what the tools stored (agent/retrieval_runtime.py,  *)
(* agent/retrieval_examples.py).                                           *)
(*                                                                         *)
(* An analysis has its own tools and its own cache, so its calls are       *)
(* sequential; around them the worktree may change and files of the        *)
(* artifact store may be altered, deleted or fail to be written.  The      *)
(* evaluation inputs are pinned by their digests, so the evidence that a   *)
(* call computes is a function of them and is computed once, at the start. *)
(* Runs, diagnoses and comparisons are named by their content, which the   *)
(* variant and the code revision determine.                                *)
(***************************************************************************)
EXTENDS RetrievalComparison, SequencesExt

CONSTANTS Null,
          Inputs,         \* the judged pools an analysis may be run on
          ExampleLimit,   \* the examples a response shows: 10
          LastRevision,   \* bound on the commits made meanwhile
          MaxLosses       \* bound on the files altered or deleted

(* What a failed call is observed as, how a run ends, and what is answered. *)
Errors == {"worktree_dirty", "code_revision_changed",
           "evaluation_input_unavailable", "evaluation_input_invalid",
           "retrieval_artifact_integrity_failed", "artifact_collision",
           "artifact_store_unavailable", "retrieval_evidence_invalid"}
Terminals ==
    [outcome : {"proposal_ready", "no_safe_improvement", "inconclusive", "failed"},
     selected : Candidates \cup {Null}, refs : SUBSET Variants]
Responses ==
    [status : {"proposal_ready", "no_safe_improvement", "incomplete", "inconsistent"},
     selected : Candidates \cup {Null},
     decision : {"request_owner_review", "reject_candidate", Null},
     next : {"request_owner_review", "run_recall_channel_and_rrf_ablation",
             "replace_recall_candidate", Null},
     examples : Seq([variant : Candidates, query : Nat, delta : Int])]

ASSUME AnalysisAssumption ==
    /\ Null \notin Candidates \cup Errors \cup Terminals \cup Responses
    /\ \A pools \in Inputs :
         /\ pools \in Seq(Range(pools)) /\ pools # <<>>
         /\ \A q \in DOMAIN pools :
                Evaluable(pools[q]) /\ Cardinality(Relevant(pools[q])) <= Unit
    /\ ExampleLimit \in Nat \ {0, 1}
    /\ LastRevision \in Nat \ {0} /\ MaxLosses \in Nat

VARIABLES
    mode,         \* "fixed" or "adaptive": which planner decides
    evidence,     \* what the runs over the inputs show, by variant
    head, dirty,  \* the worktree: its revision, and whether it has changes
    stored,       \* artifact files with their content
    altered,      \* artifact files with another content
    cached,       \* the cache: the artifacts that these tools have stored
    pins,         \* the revisions of the admitted baseline runs
    experiments,  \* the variants with a complete experiment, in order
    seen,         \* the observations
    terminal,     \* how the run ended
    response,     \* the analysis that was answered, or why there is none
    losses        \* the files altered or deleted so far

worktree == <<head, dirty>>
files    == <<stored, altered>>
tools    == <<cached, pins, experiments>>
stageVars == <<mode, evidence, worktree, files, tools, seen, terminal, response, losses>>

Kinds     == {"run", "diagnosis", "comparison"}
Artifact  == [kind : Kinds, variant : Variants, revision : 1..LastRevision]
Name(kind, v, r) == [kind |-> kind, variant |-> v, revision |-> r]

(* The evidence of one variant, with the verdict of every validator that    *)
(* the tool passes it through before anything is stored.                    *)
BaselineEvidence(run) ==
    LET d == Diagnosis(run)
    IN [accepted |-> Produced(run) /\ DiagnosisAccepted(run),
        status   |-> d.status, primary |-> d.primary, next |-> d.next]

CandidateEvidence(baseline, run) ==
    LET c == Comparison(baseline, run)
        s == Summary(run, c)
    IN [accepted  |-> /\ Produced(run) /\ DiagnosisAccepted(run)
                      /\ Comparable(baseline, run)
                      /\ SummaryAccepted(s, c),
        summary   |-> s,
        changes   |-> [q \in DOMAIN c.changes |-> c.changes[q].coarse],
        recovered |-> UNION {{<<q, k>> : k \in c.changes[q].recovered} : q \in DOMAIN c.changes}]

Runs(pools)    == [v \in Variants |-> Run(pools, v)]
Evidence(runs) ==
    [v \in Variants |->
        IF v = "baseline" THEN BaselineEvidence(runs[v])
        ELSE CandidateEvidence(runs["baseline"], runs[v])]

Summaries(tested) == {evidence[v].summary : v \in tested}
Passing(tested)   == {s \in Summaries(tested) : s.passed}
-----------------------------------------------------------------------------
(* What the planners make of the observations.                              *)

Observation == [call : Variants, error : Errors \cup {Null}, retryable : BOOLEAN]

Failed    == {i \in DOMAIN seen : seen[i].error # Null}
Succeeded == {seen[i].call : i \in DOMAIN seen \ Failed}
Tested    == Succeeded \ {"baseline"}

(* A planner refuses any other history: the successes are of different      *)
(* calls, the baseline first and in the fixed order when it decides, and    *)
(* nothing follows a failure but the one retry a run has.                   *)
FixedSequence == <<"baseline", "uniform", "conservative", "aggressive">>
Trusted ==
    LET successes == DOMAIN seen \ Failed
        Nth(i)    == Cardinality({j \in successes : j <= i})
    IN /\ \A i, j \in successes : i # j => seen[i].call # seen[j].call
       /\ \A i \in successes : Nth(i) = 1 => seen[i].call = "baseline"
       /\ mode = "fixed" => \A i \in successes : seen[i].call = FixedSequence[Nth(i)]
       /\ \A i \in 1..(Len(seen) - 1) : i \in Failed =>
              /\ mode = "fixed" /\ seen[i].retryable /\ seen[i + 1].call = seen[i].call
              /\ Failed \cap 1..(i - 1) = {}

Finish(outcome, selected) ==
    [outcome |-> outcome, selected |-> selected, refs |-> Succeeded]

(* Deviation: one failed candidate is enough to give up.                   *)
ConclusionsAtOnce ==
    IF Passing(Tested) # {}
    THEN {Finish("proposal_ready", Best(Passing(Tested)).variant)}
    ELSE IF Tested # {} THEN {Finish("no_safe_improvement", Null)} ELSE {}

Conclusions ==
    IF Passing(Tested) # {}
    THEN {Finish("proposal_ready", Best(Passing(Tested)).variant)}
    ELSE IF Tested = Candidates THEN {Finish("no_safe_improvement", Null)} ELSE {}

(* Deviation: retries are not counted.                                     *)
StoppedByFatal == seen # <<>> /\ Last(seen).error # Null /\ ~Last(seen).retryable

(* The first retryable failure is retried, any other one ends the run.  A   *)
(* passing uniform candidate ends it too; a passing conservative one is     *)
(* still followed by the aggressive one.                                    *)
Stopped ==
    /\ seen # <<>> /\ Last(seen).error # Null
    /\ ~Last(seen).retryable \/ Cardinality(Failed) > 1

FixedCalls ==
    IF \/ Stopped \/ Succeeded = Variants
       \/ "uniform" \in Succeeded /\ evidence["uniform"].summary.passed
    THEN {}
    ELSE {FixedSequence[Cardinality(Succeeded) + 1]}
FixedEnds ==
    IF Stopped THEN {Finish("inconclusive", Null)}
    ELSE IF FixedCalls # {} THEN {} ELSE Conclusions

(* A language model chooses among the variants it has not tested, and the   *)
(* best candidate as soon as one has passed.  The policy of its runtime     *)
(* allows the run no failure at all.                                        *)
AdaptiveCalls ==
    IF Failed # {} THEN {}
    ELSE IF "baseline" \notin Succeeded THEN {"baseline"}
    ELSE Candidates \ Tested
AdaptiveEnds ==
    IF Failed # {} THEN {Finish("failed", Null)} ELSE Conclusions

NextCalls == IF mode = "fixed" THEN FixedCalls ELSE AdaptiveCalls
Endings   == IF mode = "fixed" THEN FixedEnds  ELSE AdaptiveEnds
-----------------------------------------------------------------------------
(* The two tools.  A call reads the worktree and the inputs, computes the   *)
(* evidence and writes its files in order; what fails on the way ends it    *)
(* with one observation and leaves what was done before.                    *)

Observe(v, error, retryable) ==
    seen' = Append(seen, [call |-> v, error |-> error, retryable |-> retryable])
Nothing == UNCHANGED <<files, tools>>

(* A candidate needs the baseline it was given: the file of that run must   *)
(* still be the one that was admitted.                                      *)
BaselineRuns == {Name("run", "baseline", r) : r \in pins}
BaselineIntact(v) == v \in Candidates => BaselineRuns \subseteq stored
SameRevision(v)   == v \in Candidates => head \in pins

CallLosesBaseline(v) ==
    /\ \/ /\ ~BaselineIntact(v)
          /\ Observe(v, "retrieval_artifact_integrity_failed", FALSE)
       \/ /\ v \in Candidates /\ BaselineIntact(v)
          /\ Observe(v, "artifact_store_unavailable", TRUE)
    /\ Nothing

CallFindsChanges(v) ==
    /\ BaselineIntact(v)
    /\ \/ dirty /\ Observe(v, "worktree_dirty", FALSE)
       \/ ~dirty /\ ~SameRevision(v) /\ Observe(v, "code_revision_changed", FALSE)
    /\ Nothing

Ready(v) == BaselineIntact(v) /\ ~dirty /\ SameRevision(v)

CallMissesInputs(v) ==
    /\ Ready(v)
    /\ \/ Observe(v, "evaluation_input_unavailable", TRUE)
       \/ Observe(v, "evaluation_input_invalid", FALSE)
    /\ Nothing

(* The files of a call, in the order they are written.                      *)
Files(v) ==
    <<Name("run", v, head), Name("diagnosis", v, head)>>
        \o IF v \in Candidates THEN <<Name("comparison", v, head)>> ELSE <<>>
First(v, n) == {Files(v)[i] : i \in 1..n}

(* A file that is there with another content is a collision.                *)
CallCollides(v) ==
    /\ Ready(v) /\ evidence[v].accepted
    /\ \E n \in DOMAIN Files(v) :
           /\ Files(v)[n] \in altered
           /\ First(v, n - 1) \cap altered = {}
           /\ cached' = cached \cup First(v, n - 1)
           /\ stored' = stored \cup First(v, n - 1)
    /\ Observe(v, "artifact_collision", FALSE)
    /\ UNCHANGED <<altered, pins, experiments>>

(* Deviation: the baseline is admitted before its file was read back.      *)
PinsBeforeReadBack(v) ==
    /\ Ready(v) /\ evidence[v].accepted
    /\ v = "baseline" /\ First(v, 2) \cap altered = {}
    /\ cached' = cached \cup First(v, 2)
    /\ stored' = stored \cup First(v, 2)
    /\ pins' = pins \cup {head}
    /\ Observe(v, "artifact_store_unavailable", TRUE)
    /\ UNCHANGED <<altered, experiments>>

(* A write that fails may have published its file, which is then not in the *)
(* cache; the baseline's file is read once more after the writes, and that  *)
(* may fail too.                                                            *)
CallCannotStore(v) ==
    /\ Ready(v) /\ evidence[v].accepted
    /\ \/ \E n \in DOMAIN Files(v), published \in BOOLEAN :
              /\ First(v, n) \cap altered = {}
              /\ cached' = cached \cup First(v, n - 1)
              /\ stored' = stored \cup First(v, IF published THEN n ELSE n - 1)
       \/ /\ v = "baseline" /\ First(v, 2) \cap altered = {}
          /\ cached' = cached \cup First(v, 2)
          /\ stored' = stored \cup First(v, 2)
    /\ Observe(v, "artifact_store_unavailable", TRUE)
    /\ UNCHANGED <<altered, pins, experiments>>

Admit(v) ==
    IF v = "baseline"
    THEN pins' = pins \cup {head} /\ UNCHANGED experiments
    ELSE /\ experiments' = IF v \in ToSet(experiments) THEN experiments
                           ELSE Append(experiments, v)
         /\ UNCHANGED pins

CallCompletes(v) ==
    /\ Ready(v) /\ ToSet(Files(v)) \cap altered = {}
    /\ IF evidence[v].accepted
       THEN /\ cached' = cached \cup ToSet(Files(v))
            /\ stored' = stored \cup ToSet(Files(v))
            /\ Admit(v)
            /\ Observe(v, Null, FALSE)
            /\ UNCHANGED altered
       ELSE Observe(v, "retrieval_evidence_invalid", FALSE) /\ Nothing

Call(v) ==
    /\ \/ CallLosesBaseline(v) \/ CallFindsChanges(v) \/ CallMissesInputs(v)
       \/ CallCollides(v) \/ CallCannotStore(v) \/ CallCompletes(v)
    /\ UNCHANGED <<mode, evidence, worktree, terminal, response, losses>>

(* The runtime calls what the planner chose, ends the run as it chose, or   *)
(* stops it on its own: out of time, or the trace cannot be written.        *)
CallTool == terminal = Null /\ \E v \in NextCalls : Call(v)

End ==
    /\ terminal = Null
    /\ terminal' \in Endings \cup {Finish("failed", Null)}
    /\ UNCHANGED <<mode, evidence, worktree, files, tools, seen, response, losses>>
-----------------------------------------------------------------------------
(* The examples of an answer: the queries whose coarse ranking changed, each *)
(* direction of a query once, from the experiment that is preferred for it, *)
(* the largest changes first.  When the limit leaves only one direction and *)
(* the other exists, its first example takes the last place.                *)

ShownChange(v, q) == [variant |-> v, query |-> q, delta |-> evidence[v].changes[q]]
ChangedQueries(tested) ==
    {e \in UNION {{ShownChange(v, q) : q \in DOMAIN evidence[v].changes} : v \in tested} :
        e.delta # 0}
SameCase(d, e) == d.query = e.query /\ (d.delta > 0 <=> e.delta > 0)

Magnitude(e) == IF e.delta > 0 THEN e.delta ELSE -e.delta
Preference(e, selected) ==
    <<IF e.variant = selected THEN 0 ELSE 1,
      IF evidence[e.variant].summary.passed THEN 0 ELSE 1,
      -Magnitude(e), NameOrder[e.variant]>>
DisplayOrder(e) == <<-Magnitude(e), IF e.delta > 0 THEN 0 ELSE 1, e.query>>
Displayed(examples) ==
    Listed(examples, {p \in examples \X examples :
        p[1] = p[2] \/ Precedes(DisplayOrder(p[1]), DisplayOrder(p[2]))})

Preferred(tested, selected) ==
    {e \in ChangedQueries(tested) :
        \A d \in ChangedQueries(tested) :
            SameCase(d, e) => ~Precedes(Preference(d, selected), Preference(e, selected))}

(* Deviation: the largest changes, whatever their direction.               *)
ExamplesCut(tested, selected) ==
    Cut(Displayed(Preferred(tested, selected)), ExampleLimit)

Examples(tested, selected) ==
    LET changed == Displayed(Preferred(tested, selected))
        shown   == Cut(changed, ExampleLimit)
        missing == {i \in DOMAIN changed :
                       \A d \in ToSet(shown) : (d.delta > 0) # (changed[i].delta > 0)}
    IN IF missing = {} THEN shown
       ELSE Displayed(ToSet(Front(shown)) \cup {changed[Min(missing)]})

(* The part of an answer that follows from the selected candidate.          *)
Answer(status, tested, selected) ==
    LET s == evidence[selected].summary
    IN [status   |-> status,
        selected |-> selected,
        decision |-> IF s.passed THEN "request_owner_review" ELSE "reject_candidate",
        next     |-> s.next,
        examples |-> Examples(tested, selected)]
NoAnswer(status) ==
    [status |-> status, selected |-> Null, decision |-> Null, next |-> Null, examples |-> <<>>]

(* agent/retrieval_analysis.py: the same analysis without an agent.  It     *)
(* tests all the candidates and decides by the best one alone.              *)
DirectAnswer ==
    LET pool == IF Passing(Candidates) # {} THEN Passing(Candidates) ELSE Summaries(Candidates)
        best == Best(pool)
    IN Answer(IF best.passed THEN "proposal_ready" ELSE "no_safe_improvement",
              Candidates, best.variant)

(* The tools answer from what they cached: the admitted baseline, and one   *)
(* complete experiment of each variant that has run.                        *)
CachedRuns(v) == {a \in cached : a.kind = "run" /\ a.variant = v}
Documented(kind, run) == \E a \in cached : a = [run EXCEPT !.kind = kind]
EvidenceComplete ==
    /\ Cardinality(pins) = 1 /\ experiments # <<>>
    /\ \A run \in BaselineRuns : run \in cached /\ Documented("diagnosis", run)
    /\ \A v \in ToSet(experiments) :
           /\ Cardinality(CachedRuns(v)) = 1
           /\ \A run \in CachedRuns(v) :
                  Documented("diagnosis", run) /\ Documented("comparison", run)

SelectedVariant ==
    IF terminal.outcome = "proposal_ready" THEN terminal.selected
    ELSE Best(Summaries(ToSet(experiments))).variant

TerminalConsistent ==
    IF terminal.outcome = "proposal_ready"
    THEN /\ SelectedVariant \in ToSet(experiments) \cap terminal.refs
         /\ evidence[SelectedVariant].summary.passed
    ELSE Passing(ToSet(experiments)) = {}

Response ==
    IF \/ terminal.outcome \notin {"proposal_ready", "no_safe_improvement"}
       \/ ~EvidenceComplete          THEN NoAnswer("incomplete")
    ELSE IF ~TerminalConsistent     THEN NoAnswer("inconsistent")
    ELSE Answer(terminal.outcome, ToSet(experiments), SelectedVariant)

Respond ==
    /\ terminal # Null /\ response = Null
    /\ response' = Response
    /\ UNCHANGED <<mode, evidence, worktree, files, tools, seen, terminal, losses>>
-----------------------------------------------------------------------------
(* Around the analysis: the worktree is edited, reverted and committed, and *)
(* files of the store are altered or deleted.                               *)

Edit   == ~dirty /\ dirty' = TRUE  /\ UNCHANGED head
Revert == dirty  /\ dirty' = FALSE /\ UNCHANGED head
Commit == head < LastRevision /\ head' = head + 1 /\ dirty' = FALSE

Alter  == \E a \in stored : altered' = altered \cup {a} /\ stored' = stored \ {a}
Delete == \E a \in stored : stored' = stored \ {a} /\ UNCHANGED altered

Surroundings ==
    /\ terminal = Null
    /\ \/ (Edit \/ Revert \/ Commit) /\ UNCHANGED <<files, losses>>
       \/ /\ losses < MaxLosses /\ losses' = losses + 1
          /\ Alter \/ Delete
          /\ UNCHANGED worktree
    /\ UNCHANGED <<mode, evidence, tools, seen, terminal, response>>

(* The store may hold the files of an earlier analysis that went no further *)
(* than the first candidate.                                                *)
Earlier == {a \in Artifact : /\ a.revision = 1
                             /\ \/ a.variant = "uniform"
                                \/ a.variant = "baseline" /\ a.kind # "comparison"}
StageInit ==
    /\ mode \in {"fixed", "adaptive"}
    /\ \E runs \in {Runs(pools) : pools \in Inputs} : evidence = Evidence(runs)
    /\ head = 1 /\ dirty = FALSE
    /\ stored \in {{}, Earlier}
    /\ altered = {} /\ cached = {} /\ pins = {} /\ experiments = <<>>
    /\ seen = <<>> /\ terminal = Null /\ response = Null /\ losses = 0

StageNext == CallTool \/ End \/ Respond \/ Surroundings
StageSpec == StageInit /\ [][StageNext]_stageVars
-----------------------------------------------------------------------------
(* Type invariant: what the tools, the planner and the answer are made of,  *)
(* and the histories the planners take (_analyze_history refuses others).   *)
StageTypeOK ==
    /\ mode \in {"fixed", "adaptive"}
    /\ head \in 1..LastRevision /\ dirty \in BOOLEAN
    /\ stored \cup altered \cup cached \subseteq Artifact
    /\ pins \subseteq 1..LastRevision
    /\ ToSet(experiments) \subseteq Candidates /\ IsInjective(experiments)
    /\ seen \in Seq(Observation) /\ Trusted
    /\ terminal \in Terminals \cup {Null}
    /\ response # Null => response \in Responses
    /\ losses \in 0..MaxLosses

(* The evidence that the harness computes passes every check it is put to:  *)
(* the validator, which recomputes it with code of its own, the schema of   *)
(* the diagnosis, the comparison and the summary's validators.  And three   *)
(* figures of an experiment that are counted apart say the same: products   *)
(* that the field channel alone found, coverage gained over the baseline,   *)
(* and products the baseline lost at recall and the candidate did not.      *)
EvidenceAgrees ==
    /\ \A v \in Variants : evidence[v].accepted
    /\ \A v \in Candidates :
           /\ evidence[v].summary.unique > 0 <=> evidence[v].summary.coverage > 0
           /\ Cardinality(evidence[v].recovered) = evidence[v].summary.unique

Answered == response # Null /\ response.status \in {"proposal_ready", "no_safe_improvement"}

(* A run that ended with a verdict can be answered: whatever was retried,   *)
(* partly stored or lost on the way, exactly one baseline and one complete  *)
(* experiment per tested variant are at hand, and they bear the verdict out *)
(* (build_analysis_response raises otherwise).  And the analysis without an *)
(* agent comes to the same verdict on the same inputs, whatever the planner *)
(* tested and in whatever order (retrieval_runtime.py, retrieval_analysis.  *)
(* py); when it tested all the candidates, the whole answer is the same, up *)
(* to the order in which it lists its experiments.                          *)
CompletedAnalysesAnswer ==
    response # Null =>
        (Answered <=> terminal.outcome \in {"proposal_ready", "no_safe_improvement"})
AnswersAgree ==
    /\ CompletedAnalysesAnswer
    /\ Answered => /\ response.status = DirectAnswer.status
                   /\ ToSet(experiments) = Candidates => response = DirectAnswer

(* The examples are fair: when the tested candidates improved some query    *)
(* and made another worse, an answer shows both, and no query twice in the  *)
(* same direction (select_changed_query_examples).                          *)
ExamplesShowBothSides ==
    Answered =>
        LET shown == response.examples
        IN /\ \A e \in ChangedQueries(ToSet(experiments)) :
                  \E d \in ToSet(shown) : d.delta > 0 <=> e.delta > 0
           /\ \A i, j \in DOMAIN shown : i # j => ~SameCase(shown[i], shown[j])
           /\ Len(shown) <= ExampleLimit
=============================================================================
