# Verification of motor-api

TLA+ models, TLC runs and TLAPS proofs about the fraud-detection engine in
`src/`: transactions come in over HTTP, a worker pool runs them in order per
customer, a processor evaluates configurable rules over the transaction, the
customer's recent window and risk profile, and publishes an alert when the score
reaches a threshold. Everything runs in one process, over in-memory stores.

`PROJECT.json` lists components, runs, findings, hazards, theorems, and for every
definition that models code the lines it stands for.

## 1. The system

| component | source | state | operations | talks to |
|---|---|---|---|---|
| dispatch pool | `internal/pipeline/dispatch/pool.go` | one bounded channel per worker | `NewPool`, `Submit`, worker loop, `Close` | runs the closures of HTTP handlers and demo |
| processor | `internal/pipeline/processor.go` | none of its own | `Process` | every store, evaluator, sink |
| evaluator | `internal/engine/evaluator.go` | program cache by `rule_id@version` | `Evaluate`, `programFor` | window store |
| score, severity | `internal/engine/score.go`, `internal/domain/severity.go` | - | `Score`, `MaxSeverity` | |
| window store | `internal/adapters/memory/window_store.go` | entries per customer, `down` | `Record` (evicts), three reads, `SetDown` | |
| idempotency store | `.../idempotency_store.go` | key -> expiry | `Seen`, `Mark` | |
| risk store | `.../risk_store.go` | profiles, `down` | `Get` | |
| alert sink | `.../alert_sink.go` | published alerts | `Publish` | |
| config provider | `.../config_provider.go` | active rule set, staged override | `Current`, `SetOverride`, `Reload` | reload handler, processor |
| config loading | `internal/config/bundle.go` | - | `Load` | |
| HTTP API, metrics | `internal/adapters/httpapi/` | counters, latencies | single, batch, admin endpoints | pool, processor, provider, window store |
| serve, demo, load test | `cmd/motor/`, `internal/loadgen/` | - | wiring, shutdown, clients | |

A transaction's path: handler -> `Pool.Submit` -> the customer's worker ->
`Process`: validate, `Seen`, `Record`, `Current`, risk `Get`, rule by rule (window
reads), then either `Mark`, or `Publish` and `Mark`. The stores lock for one call
at a time, so the admin endpoints (window down/up, reload), other customers and an
expiring key fall between any two of these calls.

What is hard here, and what makes each component correct:

- **Pool**: customers share workers, callers block, give up, or submit while
  `Close` runs, jobs panic. A customer's jobs run one at a time in acceptance
  order; `Submit`'s result is the truth; `Close` drains; nobody waits forever.
- **Processor**: `Seen` and `Mark` enclose a long section that may fail anywhere
  and must not swallow or repeat a transaction; its inputs change under it. One
  alert per transaction, verdicts as of a sequential run over one rule set,
  missing layers flagged.
- **Evaluator, score**: overall severity, score and alert_id bucket are computed
  apart, and the mean moves with every hit: a worse transaction must not be let pass
  where a lesser one alerts. The program cache is shared by rule sets of different
  age.
- **Window store**: eviction and reads both depend on time. No answer may depend
  on what was evicted.
- **HTTP API**: handlers, closures and clients that leave meet at a `select`, a
  `WaitGroup` and shared counters. Every handler returns, a summary counts each item
  once and only when none can change it, the counters show each verdict once (but
  miss singles whose client left, section 5).
- **Lifecycle**: `Shutdown` waits with a deadline, then `Close` takes the pool away.
  A stop always ends, and one that kept its deadline lost nothing.
- **Config**: stage and swap are separate calls of concurrent requests. Nothing
  invalid active, nothing accepted left behind.

## 2. Modules

| module | models | how state and actions correspond to the code |
|---|---|---|
| `CustomerLanes` | abstract: what the pool promises | one FIFO lane per customer: `Accept`, `Start`, `End` |
| `Pool` | `dispatch.Pool` | `queue` is `p.queues`, `caller` where a goroutine stands in `Submit`; the select's cases are `Enqueue`, `Drop`, `SendOnClosed`; the range loop is `Take`, `Finish` (return or recovered panic), `Exit`; `Close` is `BeginClose`, `CloseQueue`, `CloseReturns` |
| `Induction` | lemmas | induction and recursion over an interval of numbers, for the loops of the proofs |
| `PoolProofs` | theorems about `Pool` | |
| `Engine` | severity, score, threshold, alert_id | operators only |
| `EngineProofs` | theorems about the operators of `Engine` | |
| `Processor` | `Process` over the stores | one action per port call or rule; `SeenFails`, `RecordFails`, `PublishFails`, `MarkFails` and the failing rule of `EvaluateRule` are its error returns; `ToggleWindow`, `Reload`, `Lapse` happen around it |
| `Pipeline` | composition | calls of `Processor` run in the lanes of `CustomerLanes`, which `Pool` implements |
| `Detector` | abstract: what `Process` promises | one step per call: `Refuse`, `Discard`, `Decide` or `Fail`; `Forget` is the expiry of a key |
| `SequentialDetector` | abstract: the engine | the steps of `Detector` in the lanes of `CustomerLanes`; `Pipeline` and `HttpApi` implement it |
| `PipelineProofs`, `AlertProofs` | theorems about `Pipeline` | |
| `HttpApi` | `postTransaction`, `postTransactionBatch`, metrics, `runServe` | a handler is `Serve`, per item `Submit` and `Enqueued`, `Dropped` or `Panics`, then the cases of its select (`TakeOutcome`, `GiveUp`) or `Summarize` after `wg.Wait`; a closure is `Process`, `Record`, `Done`; `Leave` is the client; `runServe` is `Shutdown` or `ListenFails`, `Drained` or `DeadlinePasses`, `Close`, `ProcessExits` |
| `HttpApiProofs` | theorems about `HttpApi` | |
| `WindowStore` | the window in time | `Record` with eviction, `Tick`, `SetDown`, the three reads as operators |
| `WindowStoreProofs` | theorems about `WindowStore` | |
| `ConfigReload` | provider, reload handler, program cache | handler: `Receive`, `SetOverride`, `Reload`, `Reply`; evaluation: `Fetch`, `Lookup`, `Compile` |
| `ConfigReloadProofs` | theorems about `ConfigReload` | |

How they compose: `Pool` implements `CustomerLanes`; `Pipeline` runs `Processor` in
those lanes and implements `SequentialDetector`, whose step is `Detector`; `HttpApi`
puts the handlers over the full `Pool` and the one-step `Detector`, so that the
interleavings of select, channels and WaitGroups are explored without those of the
stores, which `Pipeline` explored. `HttpApi` implements `SequentialDetector` in its
turn: a lane holds the accepted calls of its customer that did not start, and an
invalid call is refused when its job starts (`Outcome`), which is when `Pipeline`
refuses it. So both halves, the stores behind the lanes and the handlers in front
of them, meet at one specification.

`MCPool`, `MCPipeline`, `MCHttpApi`, `MCWindowStore` and `MCConfigReload` give the
constants values for TLC. Definitions preceded by "Mutant:" are plausible bugs;
no specification uses them. They exist so that each property can be shown to fail
when the code is changed that way (`PROJECT.json`, "mutants").

Abstractions. Payloads are records of the fields the decisions read. A rule's
condition is one of four kinds: compares the amount with the risk limit, counts
the window, is always true, or fails at run time (a misspelt variable loads,
because `Load` allows undefined variables). SHA-256 and the idempotency key are
injective (identifiers are UUIDs in the documents). `Processor` sees a reload as
one switch; `ConfigReload` opens it up. `Processor` does not evict;
`WindowStore` does. History variables (`clock`, `pos`, `runs`, `recorded`,
`installed`, `since`, ...) are marked as such where they are declared.

## 3. Runs

Deadlock checking is off in all runs: clients may stop calling at any time, nobody
has to close, toggle or reload, and the bounded histories end.

| run | instance and why it is enough | shows |
|---|---|---|
| `pool` | 2 workers, capacity 1, 4 jobs of 3 customers: two customers share a worker, one has two jobs, two callers may give up. Callers really block, and each of the races of Submit, worker and Close happens. | FIFO per customer, `Submit` truthful, `Close` drains and returns, accepted jobs finish, callers return, refinement of `CustomerLanes` with its fairness |
| `pipeline` | 4 calls, one a repetition, 2 customers, one with a limit of its own; 2 rule sets with different thresholds and default limits, so that a limit or threshold of the wrong one shows, of which the second has a rule that fails at run time; hits of three severities; one window toggle | a verdict is that of one configuration, a worse hit is not let pass, refinement of `SequentialDetector` with its fairness |
| `pipeline_faults` | 3 calls of one customer, an invalid one of another; `Seen`, `Record`, the risk `Get`, `Publish` and `Mark` may fail at each call; one key may expire | duplicates and alerts, refinement of `SequentialDetector` |
| `http` | a single request and a batch of three over 2 workers with channels of 1: the batch repeats the single's transaction, holds an item that does not validate and two of one customer; the single may fail; both clients may leave; a signal, a listener failure and the deadline may come at any time. Submits really block, drop and panic. | summaries and counters are exact, array order, handlers return, what a stop guarantees, refinement of `SequentialDetector` (safety part) |
| `window_store` | 3 transactions of 2 customers, TTL 2, spans 1 and 2, time to 5, 4 records, 2 toggles: entries age past every span and past the TTL, with retries | eviction is invisible |
| `reload` | 4 requests (rules only, profile only, empty body, invalid), 2 evaluations | reloads and the program cache |
| `bucket_comment`, `uncounted`, `window_twice`, `window_ttl`, `reload_profile`, `stale_program` | expected violations, section 5 | |

`http` checks initial state and steps of the refinement only. Under its mapping the
fairness of the abstract specification asks TLC for an `ENABLED` it cannot evaluate;
that what a handler or a lane is owed arrives is `HandlerReturns` there and
`AcceptedJobFinishes` in `pool`.

The pool's capacity of 64 is 1 in the run: a smaller capacity blocks more, and the
proofs cover every capacity. Bounds that are not code: `MaxToggles`,
`MaxLapses`, `MaxTime`, `MaxRecords`, the numbers of calls and requests. Weights
and thresholds are exact fractions; the thresholds of the pipeline, 74/100 and
80/100, are no scores of the instance, so float64 decides as the fractions do.

With the in-memory store, `Record` has no error but that of a store that is down, and
`Seen`, `Publish` and `Mark` have none at all; the interfaces allow them and
`Process` handles them, so the run lets them happen.

**Fairness.** `Pool` assumes weak fairness of each caller's select, of each
worker, and of `Close` once begun: the Go scheduler runs every runnable goroutine.
It assumes that `Run` ends, the contract stated on `Job` (pool.go:16-20). Calling,
cancelling and beginning to close are not fair. `Pipeline` assumes weak fairness of
each customer's lane, which is what `Pool` provides by `ImplementsLanes`; the
lanes of `Pipeline` accept each call once, as `Jobs` are calls, and a retry is
another call with the same transaction. `HttpApi` assumes weak fairness of each
handler, of each worker with its closure, and of the shutdown once begun, whose
deadline is a timer; clients, signals and the listener are free. `WindowStore` and
`ConfigReload` are checked for safety only.

## 4. Proofs

TLAPS checks these for every value of the constants, from the assumptions the
modules name (`PoolAssumption`, `WindowAssumption`, `ProcessorAssumption`, `PipelineAssumption`, `DetectorAssumption`,
`HttpAssumption`, `DispatchAssumption`, `ReloadAssumption`). They type the
constants, the rules as `validateRule` leaves them, ask for a capacity, a TTL and a
list of rule sets of at least 1, and say that an item belongs to one place of one
request; TLC evaluates them in the runs. Every invariant of a passing run is
proved.

`Induction`: `IntervalInduction` and `IntervalRecursion`, that a recursive function
is given on an interval by its first value and its step, for sets as parameters
instead of predicates, from the fact that a non-empty set of numbers has a least
one (`LeastNat`). With them the loops of `Score` and the filters over
channels can be reasoned about.

`PoolProofs`: `TypeCorrect`, and `CustomerFifoHolds`, `ResultIsTruthHolds`,
`CloseDrainsHolds` from the invariant `Inv`. None of the three is inductive: when a
worker takes a job, that nothing accepted earlier for the customer is still open
follows only from knowing where every accepted job is. So `Inv` says: an accepted
job is over, in its worker, or in its channel (`Located`); a channel holds jobs of
its own that did not start, oldest first (`QueueOK`); a worker is in a job of its
own that is not over (`RunningOK`); positions are unique (`PosUnique`); result,
position and runs of a job agree (`JobOK`); a worker left its loop only when its
channel is closed and empty (`ExitOK`). `Exit` then gives `CloseDrains`, `Take` on
the head of an ordered channel gives `WorkerFifo`, of which `CustomerFifo` is the
part about one customer. One lemma per moving action (`EnqueueStep`, `TakeStep`,
`FinishStep`, `ExitStep`), one for all the others (`QuietStep`). `RunsInLanes` is
the safety part of `ImplementsLanes`. A lane is the part of a channel that belongs
to its customer; `PartsRun` says what that filter (`OfCustomer`) computes,
`LaneOfAppend` and `LaneOfTail` what a send and a receive do to each lane, and
`EnqueueRefines`, `TakeRefines`, `FinishRefines` map the three steps the lanes see.

`WindowStoreProofs`: `TypeCorrect`, and `AnswersAreExactHolds`: if every rule's span
is at most the TTL (`TtlCoversSpans`), all answers are exact. The strengthening is
`ForgottenIsOld`: what was recorded and is no longer held is at least a TTL old.
The hypothesis is needed: run `window_ttl` violates the property without it.

`EngineProofs`: `ScoreFollowsSeverity`, for any rules and any number and order of
hits. `SumRuns` and `MaxRuns` unfold the two loops of `Score` step by step. By
induction over them the highest weight is that of a worst hit (`WorstIsWorst`), and
every hit adds at least a quarter and at most as much as the worst to the total
(`TotalWeightBounds`), which puts the score into the band of the worst severity
(`ScoreBand`). `SeverityIsWorst` says of a result that its overall severity is that
of a hit no other outranks, and `HitKeepsWorst` that one more hit keeps it so.

`PipelineProofs`: `TypeCorrect`, `MarkedIsCommittedHolds`,
`DuplicateIsCommittedHolds` and `DecidesAtOnce`. `Inv` ties lanes, calls and stores
together: lanes hold calls that did not begin, each once, and a call inside
`Process` has its lane to itself (`LanesOK`); between `Seen` and `Mark` the call's
key is not stored (`CallsOK`), which holds because every other call with that key
is in the same lane; window entries and alerts come from calls past `Record` and
`Publish` (`TracesOK`); keys stored are keys of decided calls (`DecisionsOK`).
`DecidesAtOnce` is the safety part of `ImplementsDetector`, initial state and
steps: `ReturnRefines` maps the step in which a call returns to the abstract
decision, `StartRefines` an invalid call's start to its refusal,
`EnvironmentRefines` an expiry to `Forget`, and `QuietStep` shows that everything
else, the publication of an alert included, is not seen by the abstract
specification until the call returns.

`AlertProofs`: `OneAlertPerTransactionHolds`. The property counts, and its
strengthening `AlertsOK` counts sharper: the alerts of a key are at most its
expiries, plus its published calls whose `Mark` failed, plus one if the key is
stored or a call is about to store it (`Covered`). `PublishAlerts` needs `LanesOK`
and `CallsOK`: when a call publishes, nothing covers its key yet.

`AlertProofs` also has `VerdictIsSequentialHolds`: a verdict computed over many
steps, with reloads, outages and other calls between them, is that of one
configuration, with its rules, its limit and its threshold.
Nothing in the property is inductive, since it speaks of decided calls only.
`VerdictsOK` follows a call on its way: its entry is the last of its customer's
window from `Record` to its return (`RecordedOK`, which holds because the lane is
its own), its rule set is one that was active by then, its limit is one of that rule set and
its locals are untouched until they are due (`LocalsOK`), and of the rules it is past
it triggered those that are due by its window, rule set and limit, but for some that
need a window it found down, which alone can also spare it a failing rule, and then
the verdict is flagged (`HitsOK`). `RulePassed` is the step of the evaluator's
loop, `DueStays` says that what was due stays due, and `DecidedVerdict` gets the
property from `HitsOK` when the loop is over.

`AlertsFollowSeverityHolds` adds the score to that. `HitsOK` keeps
`SeverityIsWorst`, so a decided call's score is in the band of its overall severity
(`DecidedScore`), and bands do not overlap: whatever else triggered, a worse hit
reaches every threshold a lesser one reached (`WorseScoreReaches`).

`HttpApiProofs`: `SummaryIsExactHolds` and `WaitGroupBalances` from `Inv`, which says
what the WaitGroup counts (`OpenJobs`: past `wg.Add`, not dropped, not past
`wg.Done`) and what the totals count (`Totalled`); closures begin only for jobs
`Submit` accepted (`AcceptedOK`), and `Submit` has returned for every item the
handler is past (`SubmittedOK`). So when `wg.Wait` returns all verdicts are in the
totals, and since nothing reopens a job (`AnswersOK`) they stay as the client was
told. `CountOneMore` is the lemma about the four totals, `CallerCounts` the one
about the ways out of `Submit`.

The rest needs the pool, whose theorems are instantiated rather than proved again
(`PoolFacts`): each action of `HttpApi` is a step of `Pool` or leaves it alone, but
for `Leave`, which ends several contexts at once (`PoolStep`). `FlowInv` is the
pool's invariant, `Inv`, and `Flow`: items go to the pool in turn and get positions
in turn (`InTurnOK`), an outcome, a run and where a closure stands agree
(`ClosureOK`), a client was told nothing only if it left and an outcome only if
there was one (`ToldOK`), the pool does not close before the server is done and the
process does not end before the pool closed (`LifecycleOK`), and the counters are
those of the jobs whose closure or handler counted (`MetricsOK`). From it
`TypeCorrect`; `ArrayOrderHolds`, by `CustomerFifo` on the positions of `InTurnOK`;
`CountersAddUpHolds`, since with the workers at rest a batch item has a verdict
exactly when its closure counted it; `GracefulExitHolds`, by `CloseDrains` and the
handlers `LifecycleOK` says are back; and `ImplementsDetectorHolds`. For that one
`EnqueuedRefines`, `TakeRefines` and `FinishRefines` reuse what `PoolProofs` says of
the lanes, `ProcessRefines` maps the closure's call of `Process` to the answer of
the lane it runs in, the `Take` of an invalid job is its start and its refusal, and
every other action changes nothing the abstract specification sees (`LanesStay`).

`ConfigReloadProofs`: `TypeCorrect`, `RejectedNeverActiveHolds`,
`NothingLeftStagedHolds`, `AnswerIsNotStaleHolds` from `Inv`: everything active,
staged or about to be staged loads (`BundlesOK`); the request that staged last has
its `Reload` ahead (`StagingOK`); from its staging on, either the active version is
newer than what the request saw, or something is still staged (`AnswersOK`). A
single request's view is not inductive, since any request's `Reload` installs
whatever is staged. `EvaluatedAsConfiguredHolds` adds `CacheOK`, a cached program
is the condition of every rule with its key, and has the hypothesis
`VersionsNameConditions`: a rule_id and version name one condition in all rule sets
that may become active. Run `stale_program` violates the promise without it.

Only model-checked: what is temporal beyond invariance and steps, which the prover
does not do, that is the liveness properties (`AcceptedJobFinishes`,
`SubmitReturns`, `CloseTerminates`, `HandlerReturns`, `StopEndsProcess`) and the fairness part of `ImplementsLanes` and of the
`ImplementsDetector` of `Pipeline`. The six expected violations are
counterexamples.

## 5. Where code and documents disagree

Each of these is a run that TLC finds violated:

1. `bucket_comment`: the alert_id bucket is that of the worst triggered rule of any
   kind, the default one if that rule has no window (processor.go:203,236); the
   comment at processor.go:196-200 says the highest-severity triggered rule that
   declares a window.
2. `uncounted`: the verdict of a single request is counted by its handler, so when the
   client left first (handlers.go:97) the transaction is processed and committed and
   no counter shows it; docs/spec.md:189 has the counters updated.
3. `window_twice`: a transaction whose evaluation failed is in the window twice
   after its retry (processor.go:107); docs/spec.md:189 says exactly once.
4. `window_ttl`: `windowTTL` is 10 minutes (processor.go:25), a default rule looks
   back an hour (default_rules.json:32); the proposal, line 126, forbids that.
5. `reload_profile`: a rules-only reload can put an older profile back
   (handlers.go:256), the comment says it leaves the active one.
6. `stale_program`: a changed condition under the same rule version is accepted and
   never run (evaluator.go:130); docs/spec.md:197 asks for monotonic versions.

Others were met while reading and need no run of their own, because one line of code
against one line of text shows them:

- The comment on `Score` (score.go:19-22) lets several lower-severity hits push the
  score up. The mean does the reverse: `media` alone scores 0.5, `media` and `baixa`
  0.4625, so one more low hit can take a transaction below the threshold.
  `AlertsFollowSeverity` says how far that can go.
- docs/spec.md:170 and 182 ask for one atomic `SeenAndMark` before any layer is
  consulted; the code has `Seen` first and `Mark` last, and processor.go:134-136 says
  why. Definition `SeenAndMark`, the mutant of `CheckSeen`, is the documented order:
  with it a call that fails later turns its retry into a duplicate, which violates
  `DuplicateIsCommitted`.
- docs/spec.md:189 has no duplicate alert, where `OneAlertPerTransaction` allows one
  after a `Mark` that failed (processor.go:170). The in-memory `Mark` never fails. The
  property counts alerts; their ids may differ when a reload falls in between, and
  then the consumer cannot tell them apart.

## 6. What is not modelled

- Of the HTTP API: bodies that do not parse, the reading endpoints, the values of
  `by_category`, latencies and percentiles. Of `serve`: flags, the choice of mode, and
  a second signal, which kills the process with all its state.
- float64: `Score` of one `alta` hit is 0.7499999999999999 in the code, so a
  minimum of 0.75 suppresses an alert the formula asks for. TLC has no floats; the
  hazard is recorded.
- The expression language, the haversine formula, JSON, logging, load generator,
  demo script: libraries, arithmetic with unit tests, or clients of the engine.
- A process crash: all state is in memory and goes with it.
- 32-bit `int` (pool.go:96): the model takes 64 bits.

## 7. Plan

Done: all the modules of section 2, and the theorems of section 4. Left, in this
order:

1. Reads of the metrics: `Snapshot` beside the handlers, with `by_category`.
2. A `WindowStore` inside `Pipeline`: eviction while calls run.
3. Proofs: that under `TtlCoversSpans` a `Pipeline` that evicts implements the one
   that does not, from `AnswersAreExactHolds`.
