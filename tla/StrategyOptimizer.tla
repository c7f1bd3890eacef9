-------------------------- MODULE StrategyOptimizer --------------------------
(***************************************************************************)
(* The offline strategy optimizer: agent/optimization.py and the cached    *)
(* entry of apps/api/main.py.  Proposals are generated against a snapshot  *)
(* of the active strategy, without the decision lock; a decision is one    *)
(* transaction of up to five files under the decision lock, which a crash  *)
(* or a failing write stops after any of them.                             *)
(*                                                                         *)
(* A decision runs under an exclusive file lock from its first read to its *)
(* last write, so it is one step; refusing it changes nothing.  The run    *)
(* and comparison files of a proposal are written before it and never      *)
(* change; they are part of the step that stores the proposal.             *)
(*                                                                         *)
(* What a proposal contains is computed by StrategySearch from the judged  *)
(* queries of the code that runs and from the active strategy.             *)
(***************************************************************************)
EXTENDS StrategySearch, SequencesExt

CONSTANTS
    Proposals,       \* proposal IDs, one per content
    Codes,           \* code revisions that get deployed
    Worlds,          \* judged queries that a code revision may come with
    Threads,         \* requests for a proposal
    Cached,          \* those of a process with a configured code revision
    NoActive,        \* no active.json
    Legacy,          \* a version 1 active.json without configuration hash
    Migrated,        \* the same with its hash added
    Absent,          \* not set
    Free             \* nobody holds the proposal lock of the process

Kinds    == {"ready", "gate_failed", "terminal"}
Verdicts == {"approve", "reject"}
Actives  == Proposals \cup {NoActive, Legacy, Migrated}
Body     == [parent : Actives \ {Legacy}, strategy : Strategies \cup {Engineering},
             code : Codes, kind : Kinds]
Baselines == Strategies \cup {Baseline, LegacyStrategy}

ASSUME OptimizerAssumption ==
    /\ {NoActive, Legacy, Migrated} \cap Proposals = {}
    /\ NoActive \notin {Legacy, Migrated} /\ Legacy # Migrated
    /\ \A w \in DOMAIN Worlds :
         /\ Worlds[w] \in Seq(Range(Worlds[w]))
         /\ \A i \in DOMAIN Worlds[w] : JudgedQuery(Worlds[w][i])
    /\ Cached \subseteq Threads
    /\ Absent \notin Actives \cup Verdicts \cup Body
    /\ Free \notin Threads

VARIABLES
    world,    \* the judged queries of each code revision (never changes)
    body,      \* strategy-proposals/<id>.json
    latest,    \* strategy-proposals/latest-smoke.txt
    intent,    \* strategy-decisions/intents/<proposal>.json
    records,   \* strategy-decisions/<decision>.json
    catalog,   \* catalog.json, "strategies": the proposal listed per strategy
    history,   \* catalog.json, "strategy_history"
    active,    \* active.json
    decided,   \* strategy-decisions/by-proposal/<proposal>.json
    deployed,  \* code revision of the running process
    cache,     \* proposals by the active strategy they were made for
    clearing,  \* a decision has yet to clear the cache
    lock,      \* holder of the proposal lock of the process
    at, call,  \* requests: where they are, and what they work on
    served     \* every strategy that was active so far (read by no action)

stored   == <<body, latest>>
decision == <<intent, records, catalog, history, active, decided, served>>
process  == <<deployed, cache, clearing, lock>>
calls    == <<at, call>>
vars     == <<world, stored, decision, process, calls>>

Steps == {"idle", "lookup", "read", "check", "store", "latest", "recheck"}

Call == [attempt : 1 .. 2, key : Actives, seen : Actives,
         result : Proposals \cup {Absent}]
NoCall == [attempt |-> 1, key |-> NoActive, seen |-> NoActive, result |-> Absent]

TypeOK ==
    /\ world \in [Codes -> DOMAIN Worlds]
    /\ body \in [Proposals -> Body \cup {Absent}]
    /\ latest \in Proposals \cup {Absent}
    /\ intent \in [Proposals -> Verdicts \cup {Absent}]
    /\ records \subseteq Proposals \X Verdicts
    /\ catalog \in [Strategies \cup {LegacyStrategy} -> Proposals \cup {Legacy, Absent}]
    /\ history \in Seq(Proposals \cup {Legacy})
    /\ active \in Actives
    /\ decided \in [Proposals -> Verdicts \cup {Absent}]
    /\ deployed \in Codes
    /\ cache \in [Actives -> Proposals \cup {Absent}]
    /\ clearing \in BOOLEAN
    /\ lock \in Cached \cup {Free}
    /\ at \in [Threads -> Steps]
    /\ call \in [Threads -> Call]
    /\ served \subseteq Actives

EmptyCache == [a \in Actives |-> Absent]

Init ==
    /\ world \in [Codes -> DOMAIN Worlds]
    /\ body = [p \in Proposals |-> Absent]
    /\ latest = Absent
    /\ intent = [p \in Proposals |-> Absent]
    /\ records = {}
    /\ active \in {NoActive, Legacy}
    /\ catalog = [s \in Strategies \cup {LegacyStrategy} |->
                     IF active = Legacy /\ s = LegacyStrategy THEN Legacy ELSE Absent]
    /\ history = <<>>
    /\ decided = [p \in Proposals |-> Absent]
    /\ deployed \in Codes
    /\ cache = EmptyCache
    /\ clearing = FALSE
    /\ lock = Free
    /\ at = [t \in Threads |-> "idle"]
    /\ call = [t \in Threads |-> NoCall]
    /\ served = {active}
-----------------------------------------------------------------------------
Stored(p) == body[p] # Absent

(* The strategy that is the baseline of a proposal made for `a', and the    *)
(* proposal that the experiments over the judged queries lead to.           *)
StrategyOf(a) == CASE a \in Proposals -> body[a].strategy
                   [] a \in {Legacy, Migrated} -> LegacyStrategy
                   [] a = NoActive -> Baseline

Searches == [w \in DOMAIN Worlds |-> [s \in Baselines |-> Search(Worlds[w], s)]]
Proposal(a, s, code) ==
    [parent |-> a, code |-> code, kind |-> Searches[world[code]][s].kind,
     strategy |-> Searches[world[code]][s].strategy]

Goto(t, step) == at' = [at EXCEPT ![t] = step]

Return(t, p) == /\ Goto(t, "idle")
                /\ call' = [call EXCEPT ![t] = [NoCall EXCEPT !.result = p]]

FreeLock(t) == lock' = IF lock = t THEN Free ELSE lock

(* Deviation: attempts are not counted.                                     *)
AgainForever(t) ==
    /\ Goto(t, IF t \in Cached THEN "lookup" ELSE "read")
    /\ call' = [call EXCEPT ![t] = [NoCall EXCEPT !.attempt = call[t].attempt + 1]]
    /\ FreeLock(t)

(* The active strategy changed: the request tries once more, then fails.    *)
Again(t) ==
    /\ IF call[t].attempt = 1
       THEN /\ Goto(t, IF t \in Cached THEN "lookup" ELSE "read")
            /\ call' = [call EXCEPT ![t] = [NoCall EXCEPT !.attempt = 2]]
       ELSE Return(t, Absent)
    /\ FreeLock(t)
-----------------------------------------------------------------------------
(* Any load of the catalog adds the missing hash to a version 1 active.json. *)
MigrateLegacy ==
    /\ active = Legacy
    /\ active' = Migrated
    /\ served' = served \cup {Migrated}
    /\ UNCHANGED <<world, stored, intent, records, catalog, history, decided,
                   process, calls>>

Begin(t) ==
    /\ at[t] = "idle"
    /\ Goto(t, IF t \in Cached THEN "lookup" ELSE "read")
    /\ call' = [call EXCEPT ![t] = NoCall]
    /\ UNCHANGED <<world, stored, decision, process>>

(* Under the proposal lock: the cache is keyed by the active strategy.      *)
Lookup(t) ==
    /\ at[t] = "lookup"
    /\ lock = Free
    /\ active # Legacy
    /\ IF cache[active] # Absent
       THEN Return(t, cache[active]) /\ UNCHANGED lock
       ELSE /\ lock' = t
            /\ Goto(t, "read")
            /\ call' = [call EXCEPT ![t].key = active]
    /\ UNCHANGED <<world, stored, decision, deployed, cache, clearing>>

(* generate_strategy_proposal: the snapshot the experiments run on.         *)
ReadActive(t) ==
    /\ at[t] = "read"
    /\ active # Legacy
    /\ call' = [call EXCEPT ![t].seen = active]
    /\ Goto(t, "check")
    /\ UNCHANGED <<world, stored, decision, process>>

(* _require_unchanged_active_parent, after the experiments.                 *)
CheckParent(t) ==
    /\ at[t] = "check"
    /\ IF active = call[t].seen
       THEN Goto(t, "store") /\ UNCHANGED <<call, lock>>
       ELSE Again(t)
    /\ UNCHANGED <<world, stored, decision, deployed, cache, clearing>>

(* Deviation: every experiment runs against plain title BM25.               *)
StoreAgainstTitle(t) ==
    /\ at[t] = "store"
    /\ \E p \in Proposals,
          b \in {Proposal(call[t].seen, Baseline, deployed)} :
         /\ \/ body[p] = b
            \/ body[p] = Absent /\ b \notin {body[q] : q \in Proposals}
         /\ body' = [body EXCEPT ![p] = b]
         /\ call' = [call EXCEPT ![t].result = p]
    /\ Goto(t, "latest")
    /\ UNCHANGED <<world, latest, decision, process>>

(* The proposal is named by its content.                                    *)
StoreProposal(t) ==
    /\ at[t] = "store"
    /\ \E p \in Proposals,
          b \in {Proposal(call[t].seen, StrategyOf(call[t].seen), deployed)} :
         /\ \/ body[p] = b
            \/ body[p] = Absent /\ b \notin {body[q] : q \in Proposals}
         /\ body' = [body EXCEPT ![p] = b]
         /\ call' = [call EXCEPT ![t].result = p]
    /\ Goto(t, "latest")
    /\ UNCHANGED <<world, latest, decision, process>>

WriteLatest(t) ==
    /\ at[t] = "latest"
    /\ latest' = call[t].result
    /\ IF t \in Cached
       THEN Goto(t, "recheck") /\ UNCHANGED call
       ELSE Return(t, call[t].result)
    /\ UNCHANGED <<world, body, decision, process>>

(* Deviation: the result is cached under the key that was looked up.        *)
CacheUnchecked(t) ==
    LET p == call[t].result IN
    /\ at[t] = "recheck"
    /\ cache' = [cache EXCEPT ![call[t].key] = p]
    /\ Return(t, p)
    /\ FreeLock(t)
    /\ UNCHANGED <<world, stored, decision, deployed, clearing>>

(* The result is cached and returned only if neither the lookup nor the     *)
(* catalog disagrees with the parent it was made for.                       *)
CacheResult(t) ==
    LET c == call[t] IN
    /\ at[t] = "recheck"
    /\ active # Legacy
    /\ IF body[c.result].parent = c.key /\ active = c.key
       THEN /\ cache' = [cache EXCEPT ![c.key] = c.result]
            /\ Return(t, c.result)
            /\ FreeLock(t)
       ELSE Again(t) /\ UNCHANGED cache
    /\ UNCHANGED <<world, stored, decision, deployed, clearing>>

(* An experiment, a read or a write raises.                                 *)
GenerationFails(t) ==
    /\ at[t] # "idle"
    /\ Return(t, Absent)
    /\ FreeLock(t)
    /\ UNCHANGED <<world, stored, decision, deployed, cache, clearing>>
-----------------------------------------------------------------------------
(* apply_strategy_decision.                                                 *)

(* Deviations: the parent is not compared; a half-done activation is not    *)
(* recognised.                                                              *)
DecidableAnyParent(p, v) ==
    /\ Stored(p) /\ body[p].kind # "terminal"
    /\ decided[p] = Absent
    /\ intent[p] \in {Absent, v}
    /\ v = "approve" => body[p].kind = "ready" /\ body[p].code = deployed
DecidableOnParentOnly(p, v) ==
    /\ Stored(p) /\ body[p].kind # "terminal"
    /\ decided[p] = Absent
    /\ intent[p] \in {Absent, v}
    /\ v = "approve" => /\ body[p].kind = "ready"
                        /\ body[p].code = deployed
                        /\ active = body[p].parent
(* Deviation: an intent for the other verdict is overwritten.               *)
DecidableAnyIntent(p, v) ==
    /\ Stored(p) /\ body[p].kind # "terminal"
    /\ decided[p] = Absent
    /\ v = "approve" => /\ body[p].kind = "ready"
                        /\ body[p].code = deployed
                        /\ active \in {p, body[p].parent}

Decidable(p, v) ==
    /\ Stored(p) /\ body[p].kind # "terminal"
    /\ decided[p] = Absent
    /\ intent[p] \in {Absent, v}
    /\ v = "approve" => /\ body[p].kind = "ready"
                        /\ body[p].code = deployed
                        /\ active \in {p, body[p].parent}

(* _write_strategy_catalog; a history that is empty starts with what the    *)
(* catalog lists, which then is at most the version 1 strategy.             *)
HistoryBase == IF history = <<>> /\ catalog[LegacyStrategy] = Legacy
               THEN <<Legacy>>
               ELSE history
(* Deviation: a retry appends its entry again.                              *)
ExtendHistoryAlways(p) == Append(HistoryBase, p)
ExtendHistory(p) ==
    IF p \in ToSet(HistoryBase) THEN HistoryBase ELSE Append(HistoryBase, p)

(* The first n of the five files are written.                               *)
WriteFiles(p, v, n) ==
    LET approved(k) == n >= k /\ v = "approve" IN
    /\ intent' = IF n >= 1 THEN [intent EXCEPT ![p] = v] ELSE intent
    /\ records' = IF n >= 2 THEN records \cup {<<p, v>>} ELSE records
    /\ catalog' = IF approved(3) THEN [catalog EXCEPT ![body[p].strategy] = p]
                                 ELSE catalog
    /\ history' = IF approved(3) THEN ExtendHistory(p) ELSE history
    /\ active' = IF approved(4) THEN p ELSE active
    /\ served' = served \cup {active'}
    /\ decided' = IF n >= 5 THEN [decided EXCEPT ![p] = v] ELSE decided

Decide(p, v) ==
    \/ /\ Decidable(p, v)
       /\ \E n \in 0 .. 5 : WriteFiles(p, v, n) /\ clearing' = (clearing \/ n = 5)
       /\ UNCHANGED <<world, stored, deployed, cache, lock, calls>>
    \/ /\ decided[p] = v                       \* an exact retry
       /\ clearing' = TRUE
       /\ UNCHANGED <<world, stored, decision, deployed, cache, lock, calls>>

ClearCache ==
    /\ clearing
    /\ lock = Free
    /\ cache' = EmptyCache
    /\ clearing' = FALSE
    /\ UNCHANGED <<world, stored, decision, deployed, lock, calls>>

(* The process is restarted, with this or another code revision.            *)
Deploy(code) ==
    /\ deployed' = code
    /\ cache' = EmptyCache
    /\ clearing' = FALSE
    /\ lock' = Free
    /\ at' = [t \in Threads |-> "idle"]
    /\ call' = [t \in Threads |-> NoCall]
    /\ UNCHANGED <<world, stored, decision>>

Generate(t) == \/ Begin(t) \/ Lookup(t) \/ ReadActive(t) \/ CheckParent(t)
               \/ StoreProposal(t) \/ WriteLatest(t) \/ CacheResult(t)
               \/ GenerationFails(t)

Next ==
    \/ \E t \in Threads : Generate(t)
    \/ \E p \in Proposals, v \in Verdicts : Decide(p, v)
    \/ MigrateLegacy
    \/ ClearCache
    \/ \E code \in Codes : Deploy(code)

Spec == Init /\ [][Next]_vars
-----------------------------------------------------------------------------
(* What must hold.                                                         *)

(* active.json is replaced only by a proposal that was generated for the    *)
(* strategy it replaces, passed its gate on the deployed code, and whose    *)
(* approval is on disk: a proposal that went stale while it was evaluated,  *)
(* cached or waiting for the Owner never becomes active.                    *)
ActiveMovesByApproval ==
    [][active' # active =>
         \/ active = Legacy /\ active' = Migrated
         \/ /\ active' \in Proposals
            /\ body[active'].parent = active
            /\ body[active'].kind = "ready"
            /\ body[active'].code = deployed
            /\ <<active', "approve">> \in records']_vars

(* "`active.json' is the activation authority" and catalog.json describes   *)
(* it, whatever crash or competing approval came between: the catalog lists *)
(* the active proposal for its strategy, and the history is a record of     *)
(* adoptions that has its own among them: no decision appears twice, each   *)
(* was approved, and a strategy comes after the one it was built on, which  *)
(* it improves.  What an improvement is, is said query by query here: the   *)
(* gates see a summary that names only the worst regressions.               *)
ActiveIsListed ==
    /\ active \in Proposals => /\ catalog[body[active].strategy] = active
                               /\ active \in ToSet(history)
    /\ active \in {Legacy, Migrated} => catalog[LegacyStrategy] = Legacy
Improves(queries, s0, s1) ==
    LET gain == [i \in DOMAIN queries |->
                    Metrics(queries[i], s1).ndcg - Metrics(queries[i], s0).ndcg]
        lost == {i \in DOMAIN gain : gain[i] < 0}
    IN /\ SumFunction(gain) > 0
       /\ 100 * Cardinality(lost) <= RateCeiling * Len(queries)
       /\ \A i \in lost : -gain[i] <= WorstLoss
Better(w, s0) == {s1 \in Strategies : Improves(Worlds[w], s0, s1)}
Improvements  == UNION {{<<x[1], x[2], s>> : s \in Better(x[1], x[2])} :
                           x \in (DOMAIN Worlds) \X Baselines}

(* What the catalog relies on of a search: it ends with a verdict on a      *)
(* strategy of the family, and one that is ready differs from the active    *)
(* one and is an improvement of it.                                         *)
SearchFits ==
    \A w \in DOMAIN Worlds, s \in Baselines :
        LET found == Searches[w][s] IN
        /\ found.kind \in Kinds
        /\ found.strategy \in Strategies \cup {Engineering}
        /\ found.kind = "ready" => found.strategy \in Strategies \ {s}
SearchImproves ==
    \A w \in DOMAIN Worlds, s \in Baselines :
        LET found == Searches[w][s] IN
        found.kind = "ready" => <<w, s, found.strategy>> \in Improvements

HistoryIsLineage ==
    /\ ActiveIsListed
    /\ \A i, j \in DOMAIN history : history[i] = history[j] => i = j
    /\ \A i \in DOMAIN history :
         LET p == history[i] IN
         p \in Proposals =>
            /\ <<p, "approve">> \in records
            /\ <<world[body[p].code], StrategyOf(body[p].parent), body[p].strategy>>
                  \in Improvements
            /\ body[p].parent \in Proposals =>
                 \E j \in 1 .. i - 1 : history[j] = body[p].parent

(* Crashes and retries never leave two decisions for one proposal, and a    *)
(* decision that is reported is one whose files are all there.  "Retrying   *)
(* the same serialized decision repairs the catalog/active pair": as long   *)
(* as neither the active strategy nor the deployment has moved on, an       *)
(* approval that stopped half way can be completed.                         *)
HalfDoneIsRepairable ==
    \A p \in Proposals :
        /\ intent[p] = "approve"
        /\ decided[p] = Absent
        /\ active \in {p, body[p].parent}
        /\ body[p].code = deployed
        => Decidable(p, "approve")
OneDecision ==
    /\ \A r \in records : intent[r[1]] = r[2]
    /\ \A p \in Proposals : decided[p] # Absent =>
         /\ <<p, decided[p]>> \in records
         /\ decided[p] = "approve" => p \in ToSet(history) /\ p \in served
    /\ HalfDoneIsRepairable

(* A cached proposal is one for the strategy it is looked up with, made by  *)
(* the code that runs.                                                      *)
CacheIsFresh ==
    \A a \in Actives : cache[a] # Absent =>
        body[cache[a]].parent = a /\ body[cache[a]].code = deployed
=============================================================================
