# A formal model of the Search Engine EVA Agent

TLA+ modules, TLC configurations and TLAPS proofs for the parts of the system
whose correctness depends on the order in which files are written, locks are
taken, processes die and requests overlap. Paths below are relative to the root
of the repository; `RRC` stands for
`src/search_quality/agent/retrieval_release_control.py` and `API` for
`apps/api/main.py`.

## The system

The program evaluates and improves a product search engine. An agent runs
evaluation tools under a budget and leaves a trace; from a trace it may propose a
retrieval strategy or an offline ranking strategy; the Owner approves or rejects
a proposal; an approved retrieval strategy is validated, activated in a serving
lane and can be rolled back. Bad-case diagnostics run in a supervised child
process, and people label their results in batches. Nothing uses a database:
the state of the system is a tree of JSON files, most of them immutable, a few
pointers that `os.replace` moves, and some file locks. The API is one process
whose plain `def` handlers run in a thread pool, so every handler can interleave
with every other; a crash can stop the process between any two system calls.

### Inventory

| Component | State | Operations | Talks to | What is hard | What makes it correct |
|---|---|---|---|---|---|
| Retrieval release control plane (`RRC`) | proposal, decision, outcome and rollback records; an intent and a pointer file per record; `.control-plane.lock` | create or load a proposal, decide, load the activation envelope, record an outcome, load the active release, record a rollback, list | serving pointer (reads), API (called by) | publications of three or four files that stop half way and are retried; lock given up between the halves of one request | one decision and one outcome per proposal; pointers resolve; lifecycle moves along its edges |
| Serving plane (`catalog/serving.py`) | `active.json`, revision and receipt files, `.serving.lock` | validate and activate, roll back, resolve, search, readiness | catalog index, pipelines | sentinel queries run without the lock; the index file is replaced under readers; four writes per move | the pointer moves only from what the mover has seen; searches never mix configurations |
| API release routes (`API`:3000-3290) | single-use session tokens (300 s, 256 at most) | open a session, decide, roll back | control and serving plane | two planes with two locks and no transaction over both | every request ends; the records say what serves |
| Atomic files (`evaluation/artifacts.py`) | none | write once by link, replace, sync of the directory | everybody | the sync can fail after the file is there | a name never shows half a file |
| Catalog index v2 (`catalog/index_v2.py`) | one SQLite file with an identity | build and replace, open | pipelines | replaced while it is searched | a reader knows which index it has |
| Search pipelines (`catalog/pipeline_v2.py`, `search.py`, `index.py`) | none | search | index | scoring in floating point | the identity is compared on every query |
| Offline optimizer (`agent/optimization.py`, `strategy_search.py`) | `active.json`, `catalog.json`, proposals, decision intents and records; a cache in the API process | propose, decide, migrate version 1 | evaluation harness, API | minutes between the snapshot and the proposal; five files per decision | what is active was approved for what it replaced |
| API sessions and analysis cache (`API`) | token registry, single-flight analysis cache | issue, consume, expire, evict; compute, invalidate | release and analysis routes | invalidation during a computation | no stale analysis after a decision |
| Human oracle (`human_oracle/`) | append-only annotation files, seals, owner of a batch | submit intent, submit behavior, seal, read | bad-case artifacts, API | stale, repeated and reordered submissions of several tabs | one chain per case; a new intent invalidates the behavior; seals stay valid |
| Bad-case supervisor and worker (`bad_cases/`) | run and supervisor locks, execution receipts, failed attempts, supervisor receipts | supervise, run, publish, terminate, recover | child process, signals, pipes | the child publishes while it is being killed; either process dies anywhere | a completed answer is proved by receipts; a failed one is final |
| Agent runtime (`agent/runtime.py`, `retrieval_runtime.py`) | loop state, counters, trace under construction | plan, execute a tool, finish, fail | planner, tools, trace store | six budgets compared at different points | every run ends and its trace can be replayed |
| Trace and replay (`agent/trace.py`, `replay.py`) | hash-chained trace files | append, store, replay | runtime | two programs that must agree on one format | what the runtime stores the replayer accepts |
| LLM provider and planner worker (`agent/llm_*.py`) | one child process per decision | decide with a deadline, give up | runtime | deadline against a late answer; a worker that hangs or ignores signals | a decision or a failure in bounded time, and no process left behind |
| Agent tools and analysis (`agent/tools.py`, `retrieval_tools.py`, ...) | the artifacts, pins and experiments of one analysis, and their files | diagnose the baseline, run a candidate, answer | evaluation harness, runtime | calls that fail half way and are retried over a changed worktree or store | conclusions follow from evidence and do not depend on the planner |
| Agent evaluation (`agent_eval/`) | report files | run scenarios with faults, judge | runtime | fault injection | verdict per scenario |
| Evaluation harness (`evaluation/`) | write-once runs and comparisons | run, validate, compare, gate | rankers | two implementations of the same evidence | the validator accepts every run of the harness |
| Query constructor (`query_constructor/`) | none | construct diagnostic queries | bad cases | determinism | same input, same queries |
| Diagnostic experiments (`diagnostic_experiments/`) | none | route, resolve | bad cases | ambiguous routes | one owner per finding |
| Ranking and retrieval algorithms (`ranking/`, `retrieval/`) | none | BM25, fusion, channels | pipelines | ties | deterministic order |
| Data preparation (`data/`) | files | download, split | evaluation | leakage between splits | splits are disjoint |
| Backends, observability, smoke run, command lines | none of their own | search, log, parse | - | - | - |

## Modules

| Module | Models | Kind |
|---|---|---|
| `RetrievalRelease` | control plane, serving pointer and the Owner routes of the API | state machine, several handlers |
| `RevisionStack` | what the two planes promise together: a stack of approved releases on a baseline (ADR 011) | abstract specification |
| `ReleaseRefinement` | the refinement mapping from `RetrievalRelease` to `RevisionStack` | refinement |
| `RetrievalReleaseProofs` | theorems about `RetrievalRelease`, and that it implements `RevisionStack` | proofs |
| `RetrievalServing` | the serving plane file by file, with searches and index builds | state machine |
| `RetrievalServingProofs` | theorems about `RetrievalServing` | proofs |
| `StrategyOptimizer` | the offline optimizer and its cached API entry | state machine |
| `StrategySearch` | the experiments, diagnosis, gates and winner of a proposal | pure functions |
| `StrategyOptimizerProofs` | theorems about `StrategyOptimizer` | proofs |
| `HumanOracle` | the annotation store | state machine |
| `LabelSheet` | what readers of the labels are promised | abstract specification |
| `BadCaseSupervisor` | supervisor and child process | state machine, two processes per run |
| `BadCaseProofs` | theorems about `BadCaseSupervisor` and `HumanOracle`, and that the latter implements `LabelSheet` | proofs |
| `AgentPolicy` | scope, grounding, and the fixed and the adaptive retrieval policy | pure functions |
| `AgentReplay` | trace events and the offline replay | pure functions |
| `AgentRuntime` | the budgeted loop of the agent | state machine |
| `AgentRuntimeProofs` | theorems about `AgentRuntime` | proofs |
| `ApprovalSessions` | the registry of single-use tokens of the API | state machine, part of the next |
| `AnalysisFront` | the analysis and release routes of the API, their cache and their single flight | state machine, several threads |
| `PlannerCalls` | the language-model planner, its provider and the worker process of a call | state machine, two processes |
| `PlannerCallsProofs` | theorems about `PlannerCalls` | proofs |
| `RankingMetrics` | rankings, gains, NDCG, reciprocal rank, recall | pure functions |
| `RankingMetricsProofs` | theorems about rankings and sums that the proofs of both users cite | proofs |
| `RetrievalHarness` | the search pipeline over judged pools and the evidence of a run | pure functions |
| `RetrievalValidation` | the validator that recomputes the evidence | pure functions |
| `StageDiagnosis` | what the evidence of a run says about its stages | pure functions |
| `RetrievalComparison` | candidate against baseline: the gates, the summary and its validators | pure functions |
| `StageAnalysis` | an analysis by the agent's tools, by either planner, and the one without an agent | state machine |
| `AnalysisProofs` | theorems about `StageAnalysis`, and about `AnalysisFront` with `ApprovalSessions` | proofs |
| `MC*` | symmetry sets and constants for TLC | model checking |

In each module the definitions marked as *deviations* (`CheckParentOnly`,
`TermAndSettle`, ...) are no part of the specification. They are the code with
one plausible mistake; putting one in the place of the real definition makes TLC
report the property it is meant for.

### RetrievalRelease

The files are variables: `parent` (the intent of a proposal, which anchors it to
a serving revision), `proposed`, and for decisions, outcomes and rollbacks the
intent, the records and the pointers by proposal (and by client action, for
decisions). `pointer` is `active.json` of the serving plane, `releaseLock` the
holder of `.control-plane.lock`, `tokens` the outstanding sessions, `pc` and
`job` the place of each handler and its request.

A decision request is `BeginDecision`, then `RefuseDecision`, `ReplayDecision`,
or `StartApproval` / `StartPublication`, `RevalidateEvidence`, `PublishDecision`;
an approval goes on with `LoadActivationEnvelope`, `CheckParent`,
`ValidateAndActivate`, `StartOutcome`, `SettleOutcome` and `PublishOutcome`. A
rollback request is `BeginRollback`, `LoadActiveRelease`, `RollbackStrategy`,
`StartRollback`, `SettleRollback`, `PublishRollback`. `HandlerError` is any of
these raising (lock timeout, full disk), and `Crash` stops the process. A
publication is one step that writes a prefix of its files in the order of the
code: it runs under the lock, so nobody sees the files in between, but a crash or
a failing write leaves them so.

### RetrievalServing

`revisions` and `receipts` are the content-addressed files, `pointer` is
`active.json`, `index` the identity of the index file in place, `lock` the
holder of `.serving.lock`. A mover loads its pipeline (`LoadPipeline`), runs the
sentinel queries without the lock (`RunSentinel`), takes the lock, plans its
writes, compares the pointer once more (`CheckUnderLock`) and writes one file per
step (`WriteNext`, then `SyncDirectory`, which may fail after the replacement). A
search reads the pointer, the revision and the index in three steps, without a
lock. `PublishIndex` replaces the index at any time.

### StrategyOptimizer

`body` and `latest` are the proposal files, `intent`, `records`, `decided` those
of decisions, `catalog`, `history` and `active` the two files of the active
strategy, `deployed` the code revision of the process. A request is `Begin`,
`Lookup` in the cache, `ReadActive`, `CheckParent`, `StoreProposal`,
`WriteLatest`, `CacheResult`; `Decide` writes a prefix of its five files under
the decision lock, and `ClearCache` follows it in the route as a step of its own.
`Deploy` restarts the process with other code, `MigrateLegacy` upgrades a version
1 active strategy.

What a proposal contains is computed: `Search` of `StrategySearch`, for the judged
queries of the deployed code (`world`) and the strategy that is active. `Metrics` is
one query of a run of the boosted ranker, `Causes` and `SelectedCandidates` the
diagnosis and the candidates it supports, `Deltas` and `Payload` a comparison and the
summary that the tools pass on, `SelectionScore` and `GatesPass` its judgement, and
`Selected` the best candidate that passes or else the best of all. BM25 scores are
given; the boosts are computed from the terms of query and title. `HistoryIsLineage`
asks of every adopted strategy that it improves the one it replaced, query by query
and not by the summary.

### HumanOracle and LabelSheet

`log` is the sequence of annotations, `seals` the seals. An operation runs under
one lock and writes at most one file, so it is one step; what is concurrent is
the authors. `SubmitIntent`, `SubmitBehavior` and `SealBatch` therefore accept
any submission that some view could have produced: any earlier annotation as the
one expected, any client action used before or a new one, any owner. `LabelSheet` says
what a reader sees: one label per case, a new intent label erases the behavior
label, a seal needs every label and freezes its sheet.

### BadCaseSupervisor

Each execution is one call of `supervise_bad_case_diagnostics` and its child.
`sup`, `reason`, `unreaped`, `answer` belong to the parent, `worker`, `envelope` to
the child, `signal` to the process group, `execution`, `attempt`, `receipt` are
the files of the run, `supLock` and `runLock` the two locks. The parent
dispatches, waits, sends SIGTERM and SIGKILL with their grace periods, and
settles: `NotStarted`, `Cancelled`, `Conflict`, `Unreaped`, `Completed`, `Fail` and
`InProgress` are the branches of the code after the child is gone. The child
takes the run lock, searches, publishes, syncs, releases and reports; it can die
at a signal in any of these steps (`Die`), but a signal does not undo the system
call that is under way. `Watchdog` is the thread of the child that notices that
the parent has gone.

### AgentRuntime, AgentReplay and AgentPolicy

`AgentRuntime` is `agent/runtime.py`: `Decide` is the planner, `SelectAction` and
`Execute` a tool call, `Complete` an accepted finish, and `TimeRunsOut`,
`PlannerFails`, `ExhaustSteps`, `RejectFinish`, `RejectAction` and the failing branches of
`Observe` are the other ways out, each with the reason it reports. The variables are
the locals of `run`. `AgentReplay` is `agent/replay.py`: `Replays` takes a stored
trace apart and counts again, with nothing but the events. `AgentPolicy` holds the
functions that both of them call. The planner of a comparison is an argument of the
runtime, so it may return any action or finish, also ones out of scope; the planners
of the retrieval tasks return what their policies allow.

### ApprovalSessions and AnalysisFront

`sessions` is the registry in the memory of the API process, `analysisLock` and
`cache` are the lock and the cache of the public analysis. Every route is a
thread of several steps, cut where the code gives up a lock or calls something
slow: `AskPublic`, `Contend`, `Compute`, `Formalize`, `Store` for the analysis,
`AskOwner` for the Owner's, `OpenSession` and `EnterSession`, `UseSession` and
`CheckSession`, then `ApplyDecision`, `Validate`, `RecordOutcome` or `RollBack`,
`RecordRollback`, and `ClearCache`. `Raise` is a handler that ends with an error
instead, before it changed anything or after its change became visible: a rejection
whose pointer by client action cannot be written (RRC:1546), a sync of a directory
that fails, a refused record. It leaves the cache as it is. The two planes, which
`RetrievalRelease` models in full, are reduced here to a lifecycle per proposal and
the active revision: a release, the stored baseline revision (`Baseline`), or none
before the first activation (`None`), to which no rollback returns (`RollbackTarget`).
`issued`, `spent`, `accepted` and `excused` are history variables; `excused` names
the cached proposals that were out of date when they were stored, or when a handler
raised after a change, and is emptied with the cache.

### PlannerCalls

The host is the runtime, its planner and its provider: `StartDecision` (or
`RefuseDecision`), `Spawn`, `Send`, `ReadChunk`, `ReadEnd`, `TimeOut`, `Conclude`,
`Escalate`, `Stopped`, `TakeAudit`, `ExecuteDecision`. The worker is a process of its
own that shares two pipes with it: `Ask`, `Write`, `Close`, `Exit`. It may answer
with anything, write noise, close its output and live on, crash, hang and ignore
SIGTERM. `now` is in milliseconds and never passes a deadline of the host without
stopping there; the constants of time are those of the code, and `Quantum` is the
step of the clock between two deadlines.

### The stage analysis

`RankingMetrics`, `RetrievalHarness`, `RetrievalValidation`, `StageDiagnosis` and
`RetrievalComparison` are the computations, as functions of a *pool*: the products
judged for a query, with the label and the score of each in each channel. They
stay two implementations where the code has two: the validator recounts the
metrics, the lineage and the aggregates in its own way, and the summary's
validators recompute the gates.

A product has one score in each channel, and two for the coarse ranker. The code
weighs the terms of the coarse ranker anew in every fused set (`ranking/bm25.py`:43-57,
`retrieval/pipeline.py`:157-168), so that more orders can arise there than in the
model; no property depends on which of them it is.

Reals are integers: `Unit` stands for 1.0 and is divisible by what the metrics
divide by in the instance, `Discounts` are the logarithmic discounts in
thousandths, and the shares of a fusion are multiples of `RrfScale`, a common
multiple of the ranks, so that comparisons and ties come out as they do in
fractions. Means over the queries are kept as sums, since runs that are compared
have the same queries. The tolerance of the code for rounding is left out with
the rounding.

`StageAnalysis` runs these functions as the tools do. `evidence` is what the runs
over one input show; a call of a tool is one step with one outcome
(`CallLosesBaseline`, `CallFindsChanges`, `CallMissesInputs`, `CallCollides`,
`CallCannotStore`, `CallCompletes`) and keeps the files and cache entries made
before it failed. `NextCalls` and `Endings` are the fixed and the adaptive planner,
with the retries their runtime policies allow; `End` is also the runtime stopping for
a reason of its own. `Response` is `build_analysis_response`, `DirectAnswer` the
analysis without an agent. Between the calls the worktree is edited, reverted and
committed, files of the store are altered or deleted, and the store may hold files of
an earlier analysis. A call itself is atomic towards these: the tool checks them in
one pass of straight-line code, and nothing else writes to its cache.

## Runs

All runs finish in less than five minutes with two workers.

| Run | Instance | Distinct states | Shows |
|---|---|---|---|
| `ReleaseConcurrent` | 2 proposals, 2 client actions, 2 handlers, 1 token of a kind per proposal | 536 thousand | files resolve, records are unique and consistent, the pointer moves only by approved activations and recorded rollbacks, the lifecycle follows its edges, `RevisionStack` is implemented |
| `ReleaseLiveness` | 1 proposal, 2 handlers | 7.7 thousand | every request ends and the lock is given back |
| `ReleaseFailedServes` | 1 proposal, 1 handler | violation | a release recorded as `validation_failed` serves |
| `ReleaseRolledBackServes` | 2 proposals, 2 handlers | violation | a release whose rollback is recorded serves again |
| `ServingConcurrent` | 2 proposals, 2 index contents, 2 movers, 1 searcher | 2.0 million | no dangling reference, evidence before serving, no mixed search, no move from an unseen pointer, failures before the replacement leave it alone, no lock leaked |
| `OptimizerConcurrent` | 2 proposals over 3 sets of judged queries, 2 code revisions, 2 requests, one of them cached | 455 thousand | only approved, fresh proposals become active; catalog and history agree with it, and each adoption improves the one before; half-done decisions can be repaired; the cache is fresh |
| `OracleSubmissions` | 2 batches with 3 cases, 2 owners, 5 annotations | 792 thousand | chains, unique client actions, one owner, valid seals, `LabelSheet` is implemented |
| `SupervisorRaces` | 2 executions | 330 thousand | receipts prove completion, failures are final, every call ends, an orphan gives the lock back |
| `AgentRuns` | comparisons under 2 small policies, the fixed and the adaptive retrieval task under their own policies | 58 thousand | every trace replays, no trace exceeds its policy, retrieval budgets never cut a legal path off |
| `AnalysisApi` | 2 handlers, 2 proposals, 3 tokens (2 kept), 2 code revisions, a cache of 1 | 1.4 million | a token lets one request through and is not forgotten early, cached proposals are open, one analysis at a time |
| `PlannerRuns` | 3 model calls at most, the longest timeout, a clock in steps of 40 s | 639 thousand | every call ends in the time of its run, its worker with it, and the audits account for every step and token |
| `StageAnalysis` | 12 inputs of 2 queries with up to 4 products, both planners, 2 revisions, 1 lost file | 2.8 million | harness and validators agree, all planners reach the verdict of the direct analysis and can be answered, the examples show both directions |

### Why these bounds

- *Proposals, handlers, movers, requests: two.* Each hazard is a race of two
  actors over one or two releases: the one that serves and the one that competes
  for its place. Two proposals also give a chain of two rollback targets above
  the baseline. The proofs remove the bounds on the sets of
  names, and on the inputs and limits of an analysis.
- *Client actions: two*, so that an action can be reused for another decision.
- *`MaxTokens` = 1.* Two handlers can hold requests of the same proposal already,
  since a token is spent when its request starts and a new session can be opened
  behind it.
- *Index contents: two*, so that the index in place can differ from the one a
  revision was activated with.
- *`MaxAnnotations` = 5.* Two intents and two behaviors of one case, with a fifth
  annotation in another case or batch, cover edit, invalidation, repetition and
  interference.
- *Comparison policies*: one in which each of the tool, run and failure budgets can
  be the first to be exceeded, and one in which the steps and the repetitions are. The
  policies of the retrieval tasks are those of `agent/retrieval_runtime.py`.
- *Sessions*: more tokens than the registry keeps, and two instants, so that
  eviction and expiry both occur; the cache holds one entry, so that a second code
  revision evicts the first.
- *Model calls: three*, so that a run can end by its time or its tokens between two
  calls as well as by their number; the two usages are one that leaves room for another
  call and one that soon does not. With a quantum of 40 s a worker can answer before a
  deadline of 60 s, at it, or never.
- *Judged queries of the optimizer*: one set over which two strategies are adopted in
  turn, one whose winner would not improve anything but the active strategy, and one
  with more regressions than a comparison names. The cut-offs (2 and 1), the number of
  regressions named (1) and the ceilings are scaled to two to four queries of two or
  three products; the boosts and the weights are the program's own. A third proposal
  takes longer than a run may: a chain of two adoptions is the longest that is checked.
- *Inputs of an analysis*: five small worlds (products that the title, an
  identifier or only the other fields find, products on which the channels disagree,
  and more products than the stages keep). The cut-offs (2 and 1 for 10 and 5), the
  sizes of the stages and the gates' ceiling on the share of worsened queries are scaled
  to two queries of three and four products. Between them every subset of the
  candidates is the set that passes the gates, and products are lost in every stage.
- *One altered or deleted file*: a second one meets a call that has already failed.
- *Executions: two*, since the locks are between one run and the next.

`CHECK_DEADLOCK FALSE` stands in the runs of the release control plane, the
oracle, the supervisor, the agent, the planner's runs and the stage analysis, which
end: when every proposal is decided and rolled back, every batch is sealed (or the
annotations are used up), every execution has been answered, or the run of the agent is
over, there is nothing left to do. The serving plane, the optimizer and the analysis
routes always have a next step and are checked for deadlock.

Symmetry is used over handlers, proposals, actions, movers, indexes, codes and
owners, and only where no liveness property is checked.

### Fairness

- `RetrievalRelease`: weak fairness of `Handle(h)`, any step of a request. Every
  wait in a handler has a deadline (five seconds for the lock, RRC:2246; the
  sentinel's own deadline) and the rest is straight-line code. No fairness is
  assumed of users, sessions or crashes.
- `BadCaseSupervisor`: weak fairness of the parent's steps (it waits with
  timeouts only), of the watchdog (closing the pipe wakes it) and of a signalled
  child dying (the kernel delivers SIGKILL). The child's own progress is *not*
  assumed: it may hang for ever.
- `PlannerCalls`: weak fairness of the host's steps and of time. The host waits with
  timeouts only and is scheduled at its deadlines. Nothing is assumed of the worker.

## Proofs

**Release control plane** (`RetrievalReleaseProofs`). For any sets of proposals,
client actions, handlers and receipts and any `MaxTokens`:
`TypeCorrect`, `PublicationsAlwaysResolve`, `AtMostOneRecord`,
`RecordsStayConsistent` (invariants), `PointerMovesOnlyByRelease` and
`LifecycleFollowsEdges` (action properties). They rest on `ReleaseInvariant`, the
inductive invariant `ReleaseInv`. The safety properties are not inductive alone
because requests give the lock up and take it again, so the invariant also says
what a request may rely on in between:

- `LockMatchesPhase`: the lock belongs to exactly the handler in a locked section;
- `JobMatchesPhase`: a handler past the decision works for an approved proposal,
  one that publishes an outcome finds no other outcome, one that rolls back does so
  for a release recorded as active;
- `AnchorsResolve`: whatever serves, or would be rolled back to, has a known
  rollback target itself.

There is one lemma per action; `NextInv` combines them. `PointerStep` and
`LifecycleStep` derive the two action properties from the invariant.

`ServesAStack` proves that the control plane implements `RevisionStack`. The mapping
`Lane` reads the stack off the pointer: `Served` is the sequence of releases, each
rolling back to the one before it and the first to the baseline, whose last one the
pointer names. `StackInv` says that every anchored release stands on such a sequence,
in which no release occurs twice; a new proposal keeps it true because it is anchored
to what serves (`AnchorStacks`) and no other step changes an anchor (`ParentsGrow`). Two
sequences with the same top are equal, by induction from the top down (`TopsAgree`,
`NotHigher`, `OneStack`), so that `Served` is that sequence. An activation then appends
one release that is not in the lane yet (`ActivationStacks`), a rollback takes the last
one off (`RollbackUnstacks`), and every other step leaves the lane alone (`LaneStays`).

**Supervisor** (`BadCaseProofs`). For any set of executions:
`SupervisorTypes`, `ReceiptAlwaysProves` and `FailuresAreFinal`, from the inductive
invariant `SupervisorInv`. It adds to the properties that a run without a child
never has a receipt of one (`NoChildNoReceipt`), that the parent settles only when
the child is gone or is known to be unreapable (`SettledWithoutChild`), and the
places of the parent at which a receipt or an answer can exist (`ReceiptHolds`,
`AnswerHolds`). The run lock does not occur in that argument: a receipt is
credible because of the order in which the parent reaps, looks and writes.

**Planner calls** (`PlannerCallsProofs`). For every timeout the configuration
admits, any number of model calls, any token usage and any step of the clock:
`NoWorkerOutlivesItsCall` and `EveryCallFits`, from the inductive invariant
`CallInv`. It relates the phase of the host to the clock and the deadline
(`TimesMatchPhase`), and says that a host that gives up a worker has sent it SIGKILL
(`KilledBeforeGivingUp`). `TimeoutsFit` is the arithmetic of the configuration: the
SDK in the worker gives up before the host does, and the first call of a run always
fits. `PlannerTypes` and `SummariesTellTheRun` need a second invariant, `RunInv`: what
the host can have heard (`Heard`: a chunk of an envelope means that there is one, so
that an envelope read in full is an answer), what it has paid (`Paid`: the running
sum of the planner is the sum over the audits the runtime has kept, and one more
while an audit waits) and which audit belongs to which action (`Paired`).

**Serving plane** (`RetrievalServingProofs`). For any callers, searchers, proposals
and index contents: `NothingDangles`, `NeverMixed` and the action property
`MovesAreSeen`, from `ServingInv`. A mover writes up to four files and can stop
behind each of them, so the invariant says what is left to write (`ActivationWrites`,
`RollbackWrites`) and what has therefore been written (`ActivationWritten`,
`RollbackWritten`), and that the pointer is the one the mover has seen as long as it
writes (`WritesInOrder`). The lock enters through `OneWriter`.

**Offline optimizer** (`StrategyOptimizerProofs`). For any proposals, requests, code
revisions and cached entries. `DecisionsAreFinal` and `ActivationsAreApproved` hold
whatever the search computes: their invariant `DecisionInv` adds to `OneDecision`
only that an approval is written for a proposal that passed its gate. `OptimizerTypes`
and `NothingStaleIsServed` rest on `ProposalInv` (what is stored, seen by a request,
cached and active fits together), `HistoryIsALineage` on `LineageInv`. Both need to know
what a search finds, which is proved from its definition, for any judged queries:

- `SearchAlwaysFits`: the search ends, its winner is a candidate, and not the strategy
  it is compared with. Every metric, total and score is a number
  (`MetricsAreNumbers`, `TotalsAreNumbers`, `WorstIsNumber`, `CandidatesAreEvaluated`),
  so the candidates, of which there are finitely many, have a best one
  (`WinnerExists`).
- `SearchAlwaysImproves`: a winner that passes the gates improves what it replaces,
  query by query. The gates see a summary in which only some regressions are named; the
  worst one is always among them (`WorstIsNamed`), so that the bound on it bounds all
  (`PassingImproves`).

**Human oracle** (`BadCaseProofs`). For any cases, batches, owners and
number of annotations: `OneChainPerCase`, `SealsAreForEver`, and `StoreImplementsSheet`: the
store implements `LabelSheet`. The chain has no fork (`OneLeaf`: exactly one
annotation of a case is not superseded, and it is the last), behaviors refer to
earlier intents (`IntentsComeFirst`); with these, a submission to another case changes
no label (`LabelsStay`), one to the same case changes its own label as the sheet says
(`IntentLabelsSheet`, `BehaviorLabelsSheet`), and a sealed batch takes none.

**Routes of the API** (`AnalysisProofs`, about `AnalysisFront` with
`ApprovalSessions`). For any threads, proposals, tokens, code revisions and limits:
`OffersAreOpen`, `OneAtATime` and the action property `SessionsHonoured`. `FrontInv`
says at each step of a route what the thread works on (`WorkFits`), that the analysis
lock lies with the thread between taking and leaving it (`LockFits`), and that the
cache has an entry per revision at most. A change lets a cached proposal go out of date
only while its handler is in `Changed`, and that handler leaves it by emptying the cache
or by excusing what is out of date then (`StepOpens`). That a token lets one request through needs
`TokensFit`: only the thread that took a token out of the registry can still be
checking it. That none is forgotten early is a counting argument (`EvictsWhenFull`).

**Stage analysis** (`AnalysisProofs`, about `StageAnalysis`). For any judged pools, cut-offs
and sizes of the stages, any limits of the gates, and any number of revisions and lost
files: `StageTypes`, `AnalysesAnswerAlike` and `AnswersShowBothSides`, from the inductive
invariant `StageInv`. Its parts follow the data from the runs to the answer:

- `EvidenceFits`: every experiment has a summary and a list of changes that the planners
  can compare (`ExperimentsFit`). It is proved through the whole computation, from the
  channels (`SearchIsList`) over the fusion (`FusionIsList`) and the coarse ranking
  (`CoarseIsList`) to the metrics (`StageNdcgIsNumber`), and holds whatever the evidence says.
- `History`: the successes of the observations are of different variants, the baseline
  first, in the fixed order when the fixed planner decides (`CallsInOrder`), and a failure
  is followed by the one retry or by nothing. `CallsFit` derives from it that a planner
  calls what has not succeeded, and `HistoryGrows` that one more observation keeps it.
- `ToolsFit`: the tools have admitted one baseline when the history has one, the
  experiments are those it tells of, and each has all its files in the cache. A call that
  fails may have stored some of its files (`ToolsFail`); its retry finds them and the same
  pin (`ToolsSucceed`), so that there is still one run per variant.
- `TerminalFits` and `ResponseFits`: a run ends with what its planner concludes or
  with a failure, and the answer is computed from what the tools had then.

That the evidence itself stands (`EvidenceIsConsistent`: `EvidenceAgrees` for every input)
is proved on the runs, since the evidence is a function of the judged pools:

- The validator: what each stage returns is among what the stage before it returned, and
  nothing twice (`StagesNarrow`); so a product is lost where the validator's own code
  expects it (`LossesAsExpected`), every query is valid (`QueryIsValid`), and the sums
  over the queries are the ones that it adds up again (`RunIsValid`).
- The metrics and the schema of the diagnosis: by `NothingBeatsTheIdeal` no ranking is
  refused and no NDCG exceeds 1 (`ListsAreMeasured`, `QueriesAreAccepted`); sums of
  fractions are at most the number of queries (`RunIsInBounds`), no more products are lost
  than are relevant (`LossesAreCounted`), and the impacts of the findings are fractions of
  different subtypes (`ImpactsAreFractions`, `FindingsFit`).
- The gates and the summary: every gate is reproduced from the summary, and what it
  observes is within bounds (`GatesAreBounded`, `SummaryIsAccepted`).
- The three figures: query by query, what the field channel alone found is what the
  candidate covers beyond the baseline and what it recovered (`QueryGains`); over the
  queries, sums whose terms are nowhere smaller are equal only when all the terms are
  (`CandidatesGain` by `SumsCompare`), and the recovered products, which are pairs of a
  query and a product, are as many as the sum says (`PairsAreCounted`).

With the invariant, `ExperimentsAreComplete` and `VerdictsAreAnswered` show that
`build_analysis_response` does not raise after a verdict, and `Answers` that the verdict is the one
of the direct analysis: a passing candidate exists among the tested ones or among none,
and the best of a finite set exists and is one of its members (`BestExists`).
`ExamplesAreFair` is about any set of tested candidates: one example is preferred for each
direction of a query (`OneIsPreferred`), the display lists each once (`DisplayedFits`), and
when the limit cuts one direction off entirely the exchanged last place brings it back.

**Rankings and sums** (`RankingMetricsProofs`). What both the optimizer and the stage analysis rest on:
`RankingsAreSorted`, the places of a list of scores are a permutation of its positions, by
counting (`PlacesAreTaken`); a finite set with a linear order is listed with each member
once (`ListedInOrder`) and has a first member (`FirstExists`); a sum over a finite set,
which is a fold whose recursion has to be shown to have a solution (`SumsExist`), is a
measure: whichever term is taken out, it is that term and the sum of the others
(`SumIsMeasured`), so that sums compare as their terms do (`SumsCompare`).
`NothingBeatsTheIdeal`: a list of different judged products has no more discounted gain,
up to any cut-off, than their best order, so that `dcg` over `ideal` never exceeds 1 and
the metrics refuse no ranking of the judged products. Its argument: of the sets of one size the
one that holds the largest values has the largest sum (`LargestSum`), so every running sum
of gains is at most that of the best order (`TheBestComeFirst`), and discounts that fall with
the rank keep it so (`DecreasingWeights`, a summation by parts). Metrics are then
fractions (`NdcgIsBounded`, `RecallIsBounded`, `ReciprocalRankIsBounded`).

**Agent runtime** (`AgentRuntimeProofs`, about `AgentRuntime`, `AgentReplay` and
`AgentPolicy`). For any comparison policies: `TracesReplay`, that the offline replay
accepts whatever a run leaves. `AgentInv` is the replay step by step: the events so
far replay one by one and say what was observed (`Recorded`), they count to the
counters of the loop (`Counted`), and a run that has ended has the result the replay
derives (`Ended`). There is one lemma per way out. `BudgetsAlwaysFit` is stronger for
the retrieval tasks: their budgets suffice for every path of their planners. Its
invariant `PathInv` counts the calls of a run as the actions done and the failures,
which the policies bound.

What the events say was observed, and what the audits of a run add up to, are
recursive functions (`Observed`, `Totals`). The induction that these need, and the
stacks of releases, is done by hand: `LeastNumber` (every set of numbers that is not
empty has a least one, from the well-foundedness of `<`) turns it into a step from the
least counterexample, and so do the sums of the metrics. `LeastNumber` and
the lemmas about the policy's choice (`EvidenceExists`, `SelectedExists`) stand in each
module that uses them.

Assumptions on constants: `NamesAssumption`, `BoundAssumption`, `ServingAssumption`,
`OptimizerAssumption`, `OracleAssumption`, `SessionAssumption`, `FrontAssumption`,
`SupervisorAssumption`, `PolicyAssumption` and `AnswerAssumption` say that the names
of what is missing (a file, a lock, a decision, a result) are different from those of
what is there, and that bounds are numbers; `TimeoutAssumption`, `ClockAssumption` and
`UsageAssumption` are what the configuration admits. `MetricsAssumption` and
`SearchAssumption` say that discounts fall with the rank, that there is one for every rank
up to the cut-offs, and that limits are numbers; `OptimizerAssumption` also that judged
queries have finitely many terms and a list of labelled products. `HarnessAssumption` and
`GatesAssumption` are the sizes of the stages and the limits of the gates, and
`AnalysisAssumption` says that the pools of an analysis have passed the checks at the head of
`run_query_scoped_retrieval`, that at least two examples are shown, and that a query has no
more relevant products than there are units in 1.0: the code divides floats, where one
product more is always a larger fraction, and the scaled integers must not round that
away. TLC evaluates all of them.

Model-checked only: liveness (`EveryRequestEnds`, `EveryRunAnswered`, the second half
of `EveryCallEnds`), since fairness and ENABLED are outside the prover. Every invariant
that a passing run checks is also a theorem.

## Where code and documents disagree

With a run that shows it (the details are in `PROJECT.json`, "findings"):

1. `ReleaseFailedServes`: an activation whose outcome could not be recorded is
   retried; the retry finds the pointer moved, by that activation, and records
   `validation_failed` for the release that serves (API:3153).
2. `ReleaseRolledBackServes`: a request that holds an old activation envelope
   activates a release again after it was rolled back (API:3147).

Met while modelling, without a run of its own:

- After an index build the previous revision is stored but cannot be served, so that
  its rollback is refused (`catalog/serving.py`:784); ADR 011 (line 120) says that it
  remains available for atomic rollback.
- An approval that stopped between `catalog.json` and `active.json` cannot be
  completed once a competing proposal is approved, and stays in the history of
  adoptions (`agent/optimization.py`:1322; `docs/AGENT_OPTIMIZATION_STRATEGY.md`:239-240
  says that retrying repairs the pair). `OneDecision` asks for the repair as long as
  the active strategy has not moved on.
- A failing directory sync leaves a completed receipt of the child beside a failed
  attempt (`bad_cases/artifacts.py`:105).
- An analysis that is out of date when it is stored, because its proposal was decided
  or its parent replaced meanwhile, stays in the public cache as pending (API:2585), and
  so does every entry that is out of date when a decision or rollback raises between its
  change and the clearing of the cache (API:3119, 3186, 3256).
  `CachedProposalsAreOpen` excuses exactly these, until the cache is cleared again.
- A call of a planner whose answer takes the tokens over the budget raises before its
  audit is made (`agent/llm_retrieval_planner.py`:217): what it spent is in no summary
  of the run. `AuditsCoverTheRun` bounds the tokens that were audited.
- Stopping a worker takes up to two grace periods behind the time of the run: the
  margin of 50 ms does not contain them (`agent/llm_retrieval_planner.py`:188).
  `CallsFitTheRun` states the bound that holds.
- `rolled_back` is not final: a release below the one rolled back is reported as
  active again (RRC:1888), while ADR 011 (line 68) lists it as an end state. The
  edge is in `LifecycleEdges`.
- After a crash between the two pointers of a decision, its client action can be used
  to decide another proposal (RRC:1546; ADR 011, lines 136-137).
- A release can serve without an outcome for ever when recording it failed and
  nobody retries (API:3071; `docs/CATALOG_V2_SERVING.md`:139).
- A directory sync that fails after `os.replace` reports a failure of a move that
  took place (`evaluation/artifacts.py`:57; `docs/CATALOG_V2_SERVING.md`:105-106).
  `MovesFromWhatWasSeen` excludes exactly this case.
- A child that publishes after its deadline and before it is killed still gets a
  supervisor receipt (`bad_cases/supervisor.py`:275; `docs/DEPLOYMENT.md`:598-600).
- A comparison whose planner passes a list as `run_id` makes the scope check raise
  TypeError; the runtime records `internal_error` (`agent/runtime.py`:464), the replay
  does not catch it (`agent/replay.py`:167), so that this trace does not replay
  (`README.md`:32). No planner of the repository returns such an action, and the model
  has none.
- With the default limits of `RuntimePolicy`, eight steps and six tool calls, the step
  budget is never the one that ends a run (`agent/runtime.py`:55).
- An OSError after the child was started is recorded as `worker_start_failed`, with
  exactly zero work done (`bad_cases/supervisor.py`:217).

## Abstractions

- A hash of a content is the content: a revision is named by its proposal (and
  index), an annotation by its place in the log. Collisions are not modelled.
- Evidence checks (hash chains of traces, configuration hashes) are steps that may
  refuse; what they compute is not modelled.
- Contents of receipts and judgments are small sets.
- Relevance scores (BM25, channels) are given; the boosts, fusions and metrics on top of
  them are computed, in integers that are scaled reals.
- Time is a step that may happen when the deadline could be over.
- Files are lost only before their write returns; a name that was synced
  survives a crash. Someone editing the files by hand is outside.

## Not modelled, and why

- BM25 itself, embeddings and SQL (`ranking/`, `catalog/search.py`, the content of the
  index): floating point and text; outside what TLC decides.
- `agent_eval/`: a test bench that runs scripted scenarios against the runtime.
- HTTP client of `backends/opensearch.py`, download and parsing in `data/`, logging,
  command lines: input and output without state of their own.
- The views of the human oracle and the creation of batches: reads and a census of an
  immutable artifact.
- The remaining components of the inventory are in the plan below.

## Plan

Done: the release control plane, the serving plane, the offline optimizer with its
search for a winner, the human oracle, the supervisor, the agent runtime with its
replay, the sessions and the cache of the API, the planner's worker, and the stage
analysis with the harness, its validator and its gates, each with proofs of all the
invariants that its runs check.

Next: further algorithms against reference definitions: the splits, the query constructor
and the router of the diagnostic experiments.
