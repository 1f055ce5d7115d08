------------------------------- MODULE HttpApi -------------------------------
(***************************************************************************)
(* internal/adapters/httpapi: POST /transactions and POST                  *)
(* /transactions/batch over the one dispatch.Pool, the counters of         *)
(* /metrics, and the end of cmd/motor serve: server.Shutdown with its      *)
(* deadline, then pool.Close.                                              *)
(*                                                                         *)
(* Every request is served by a goroutine of its own, every item of it is  *)
(* a job of the pool.  Pool.tla gives Submit, the workers and Close step   *)
(* by step; Detector.tla gives Process as the one step Pipeline.tla        *)
(* refines.                                                                *)
(***************************************************************************)
EXTENDS Detector, Integers, Sequences, FiniteSets, SequencesExt

CONSTANTS
  Requests,          \* the requests clients send
  Batch,             \* those of them that go to /transactions/batch
  Items,             \* the transactions of a request, as jobs, in array order
  Impatient,         \* requests whose client may go away
  Customers, CustomerOf, Hash, RequestedWorkers, QueueCap, NoJob

JobsOf(r) == ToSet(Items[r])

ASSUME HttpAssumption ==
  /\ Batch \subseteq Requests
  /\ Impatient \subseteq Requests
  /\ Items \in [Requests -> Seq(Jobs)]
  /\ \A r \in Requests \ Batch : Len(Items[r]) = 1
  /\ Jobs = UNION {JobsOf(r) : r \in Requests}
  /\ \A r, q \in Requests : \A i \in DOMAIN Items[r], k \in DOMAIN Items[q] :
       Items[r][i] = Items[q][k] => r = q /\ i = k

\* As Pool.tla asks.
ASSUME DispatchAssumption ==
  /\ CustomerOf \in [Jobs -> Customers]
  /\ Hash \in [Customers -> Nat]
  /\ RequestedWorkers \in Int
  /\ QueueCap \in Nat \ {0}
  /\ NoJob \notin Jobs

InBatch(j) == \E r \in Batch : j \in JobsOf(r)

VARIABLES
  caller, ctxDone, queue, closed, running, exited, closing, clock, pos, runs,
  finished,   \* the pool
  at,         \* where each handler stands
  next,       \* index of the item a handler submits next
  wg,         \* the batch handler's WaitGroup
  closure,    \* where each job's Run closure stands
  summary,    \* the batch handler's total, dups, partials and alerts
  answer,     \* what the client was answered: a kind of outcome, or the summary
  metrics,    \* Metrics: processed, duplicates, partials and alerts
  server,     \* what became of the http.Server
  process     \* "up", or "gone" when main has returned

poolVars == <<caller, ctxDone, queue, closed, running, exited, closing, clock,
              pos, runs, finished>>
handlers == <<at, next, answer>>
lifecycle == <<server, process>>
vars == <<poolVars, decisions, handlers, wg, closure, summary, metrics, lifecycle>>

Dispatch == INSTANCE Pool WITH
  Impatient <- UNION {JobsOf(r) : r \in Impatient}

NoCounts == [total |-> 0, duplicates |-> 0, partials |-> 0, alerts |-> 0]
NoAnswer == "none"

Init ==
  /\ Dispatch!Init
  /\ DetectorInit
  /\ at = [r \in Requests |-> "idle"]
  /\ next = [r \in Requests |-> 1]
  /\ wg = [r \in Requests |-> 0]
  /\ closure = [j \in Jobs |-> "process"]
  /\ summary = [r \in Requests |-> NoCounts]
  /\ answer = [r \in Requests |-> NoAnswer]
  /\ metrics = NoCounts
  /\ server = "serving"
  /\ process = "up"

HasVerdict(o) == o.kind \in {"duplicate", "clean", "alert"}

\* RecordDuplicate and RecordProcessed, and the same count of a batch: the other
\* counters leave duplicates out.
WithVerdict(counts, o) ==
  [total      |-> counts.total + 1,
   duplicates |-> counts.duplicates + (IF o.kind = "duplicate" THEN 1 ELSE 0),
   partials   |-> counts.partials + (IF o.partial THEN 1 ELSE 0),
   alerts     |-> counts.alerts + (IF o.kind = "alert" THEN 1 ELSE 0)]

-----------------------------------------------------------------------------
(* The handlers: postTransaction with processOne, postTransactionBatch.    *)

Returns(r, reply) ==
  /\ at' = [at EXCEPT ![r] = "returned"]
  /\ answer' = [answer EXCEPT ![r] = reply]
  /\ UNCHANGED next

\* A request is read and decoded; others are answered 400 and change nothing.
Serve(r) ==
  /\ server = "serving"
  /\ at[r] = "idle"
  /\ at' = [at EXCEPT ![r] = "running"]
  /\ UNCHANGED <<poolVars, decisions, next, answer, wg, closure, summary, metrics,
                 lifecycle>>

Submitting(r) == at[r] = "running" /\ next[r] <= Len(Items[r])
Submitted(r) == at[r] = "running" /\ next[r] > Len(Items[r])
Item(r) == Items[r][next[r]]

\* wg.Add(1), and into Submit.
Submit(r) ==
  /\ Submitting(r)
  /\ Dispatch!Call(Item(r))
  /\ wg' = IF r \in Batch THEN [wg EXCEPT ![r] = @ + 1] ELSE wg
  /\ UNCHANGED <<decisions, handlers, closure, summary, metrics, lifecycle>>

\* Submit returns true.
Enqueued(r) ==
  /\ Submitting(r)
  /\ Dispatch!Enqueue(Item(r))
  /\ next' = [next EXCEPT ![r] = @ + 1]
  /\ UNCHANGED <<decisions, at, answer, wg, closure, summary, metrics, lifecycle>>

\* Mutant: the batch handler does not look at the result.
DroppedUnnoticed(r) ==
  /\ Submitting(r)
  /\ Dispatch!Drop(Item(r))
  /\ next' = [next EXCEPT ![r] = @ + 1]
  /\ UNCHANGED <<decisions, at, answer, wg, closure, summary, metrics, lifecycle>>

\* Submit returns false: the batch handler takes its wg.Add back, processOne
\* goes on to its select.
Dropped(r) ==
  /\ Submitting(r)
  /\ Dispatch!Drop(Item(r))
  /\ next' = [next EXCEPT ![r] = @ + 1]
  /\ wg' = IF r \in Batch THEN [wg EXCEPT ![r] = @ - 1] ELSE wg
  /\ UNCHANGED <<decisions, at, answer, closure, summary, metrics, lifecycle>>

\* Submit panics on a closed channel; net/http recovers and drops the connection.
Panics(r) ==
  /\ Submitting(r)
  /\ Dispatch!SendOnClosed(Item(r))
  /\ at' = [at EXCEPT ![r] = "panicked"]
  /\ UNCHANGED <<decisions, next, answer, wg, closure, summary, metrics, lifecycle>>

\* Mutant: the error of the outcome is not looked at.
TakeOutcomeOrError(r) ==
  /\ Submitted(r) /\ r \notin Batch
  /\ LET o == outcome[Items[r][1]]
     IN  /\ o # Undecided
         /\ Returns(r, o.kind)
         /\ metrics' = WithVerdict(metrics, o)
  /\ UNCHANGED <<poolVars, decisions, wg, closure, summary, lifecycle>>

\* The select of processOne takes what the closure sent on done.
TakeOutcome(r) ==
  /\ Submitted(r) /\ r \notin Batch
  /\ LET o == outcome[Items[r][1]]
     IN  /\ o # Undecided
         /\ Returns(r, o.kind)
         /\ metrics' = IF HasVerdict(o) THEN WithVerdict(metrics, o) ELSE metrics
  /\ UNCHANGED <<poolVars, decisions, wg, closure, summary, lifecycle>>

\* The select takes ctx.Done(): nothing is counted, nothing is written.
GiveUp(r) ==
  /\ Submitted(r) /\ r \notin Batch
  /\ Items[r][1] \in ctxDone
  /\ Returns(r, NoAnswer)
  /\ UNCHANGED <<poolVars, decisions, wg, closure, summary, metrics, lifecycle>>

\* Mutant: no wg.Wait before the summary.
SummarizeAtOnce(r) ==
  /\ Submitted(r) /\ r \in Batch
  /\ Returns(r, "summary")
  /\ UNCHANGED <<poolVars, decisions, wg, closure, summary, metrics, lifecycle>>

\* wg.Wait returns, the summary is written.
Summarize(r) ==
  /\ Submitted(r) /\ r \in Batch
  /\ wg[r] = 0
  /\ Returns(r, "summary")
  /\ UNCHANGED <<poolVars, decisions, wg, closure, summary, metrics, lifecycle>>

\* The client goes away: net/http ends the request's context.
Leave(r) ==
  /\ r \in Impatient
  /\ at[r] = "running"
  /\ ~(JobsOf(r) \subseteq ctxDone)
  /\ ctxDone' = ctxDone \cup JobsOf(r)
  /\ UNCHANGED <<caller, queue, closed, running, exited, closing, clock, pos,
                 runs, finished, decisions, handlers, wg, closure, summary,
                 metrics, lifecycle>>
-----------------------------------------------------------------------------
(* The Run closures, in the workers.                                       *)

\* Process returns or panics.  A single's closure then sends on done, a batch
\* item's goes on only with a verdict.
Process(w) ==
  /\ running[w] # NoJob
  /\ LET j == running[w]
     IN  /\ closure[j] = "process"
         /\ Detect(j)
         /\ closure' = [closure EXCEPT ![j] =
              IF ~InBatch(j) THEN "return"
              ELSE IF HasVerdict(outcome'[j]) THEN "record" ELSE "done"]
  /\ UNCHANGED <<poolVars, handlers, wg, summary, metrics, lifecycle>>

\* h.record of a batch item.
Record(w) ==
  /\ running[w] # NoJob
  /\ closure[running[w]] = "record"
  /\ closure' = [closure EXCEPT ![running[w]] = "done"]
  /\ metrics' = WithVerdict(metrics, outcome[running[w]])
  /\ UNCHANGED <<poolVars, decisions, handlers, wg, summary, lifecycle>>

\* Mutant: the error path calls wg.Done itself, on top of the deferred one.
DoneTwice(w) ==
  /\ running[w] # NoJob
  /\ LET j == running[w]
     IN  /\ closure[j] = "done"
         /\ closure' = [closure EXCEPT ![j] = "return"]
         /\ \E r \in Batch :
              /\ j \in JobsOf(r)
              /\ wg' = [wg EXCEPT ![r] = @ - (IF HasVerdict(outcome[j]) THEN 1 ELSE 2)]
              /\ summary' = IF HasVerdict(outcome[j])
                            THEN [summary EXCEPT ![r] = WithVerdict(@, outcome[j])]
                            ELSE summary
  /\ UNCHANGED <<poolVars, decisions, handlers, metrics, lifecycle>>

\* The totals under mu, and the deferred wg.Done.
Done(w) ==
  /\ running[w] # NoJob
  /\ LET j == running[w]
     IN  /\ closure[j] = "done"
         /\ closure' = [closure EXCEPT ![j] = "return"]
         /\ \E r \in Batch :
              /\ j \in JobsOf(r)
              /\ wg' = [wg EXCEPT ![r] = @ - 1]
              /\ summary' = IF HasVerdict(outcome[j])
                            THEN [summary EXCEPT ![r] = WithVerdict(@, outcome[j])]
                            ELSE summary
  /\ UNCHANGED <<poolVars, decisions, handlers, metrics, lifecycle>>

Take(w) ==
  /\ Dispatch!Take(w)
  /\ UNCHANGED <<decisions, handlers, wg, closure, summary, metrics, lifecycle>>

\* Mutant: the closure hands its work to a goroutine of its own and returns.
FinishAtOnce(w) ==
  /\ Dispatch!Finish(w)
  /\ UNCHANGED <<decisions, handlers, wg, closure, summary, metrics, lifecycle>>

Finish(w) ==
  /\ Dispatch!Finish(w)
  /\ closure[running[w]] = "return"
  /\ UNCHANGED <<decisions, handlers, wg, closure, summary, metrics, lifecycle>>

Exit(w) ==
  /\ Dispatch!Exit(w)
  /\ UNCHANGED <<decisions, handlers, wg, closure, summary, metrics, lifecycle>>

-----------------------------------------------------------------------------
(* runServe, from the signal on.                                           *)

api == <<decisions, handlers, wg, closure, summary, metrics>>

\* SIGINT or SIGTERM: server.Shutdown closes the listeners.
Shutdown ==
  /\ server = "serving"
  /\ server' = "draining"
  /\ UNCHANGED <<poolVars, api, process>>

\* ListenAndServe returns an error of its own.
ListenFails ==
  /\ server = "serving"
  /\ server' = "failed"
  /\ UNCHANGED <<poolVars, api, process>>

\* Shutdown returns nil: no handler is running.
Drained ==
  /\ server = "draining"
  /\ \A r \in Requests : at[r] # "running"
  /\ server' = "drained"
  /\ UNCHANGED <<poolVars, api, process>>

\* Shutdown returns because shutdownCtx is over.
DeadlinePasses ==
  /\ server = "draining"
  /\ server' = "overdue"
  /\ UNCHANGED <<poolVars, api, process>>

\* Mutant: the pool is closed while Shutdown still waits.
CloseWithoutDrain ==
  /\ server # "serving"
  /\ Dispatch!BeginClose
  /\ UNCHANGED <<api, lifecycle>>

\* The deferred pool.Close.
Close ==
  /\ server \in {"drained", "overdue", "failed"}
  /\ Dispatch!BeginClose
  /\ UNCHANGED <<api, lifecycle>>

CloseStep == Dispatch!CloseStep /\ UNCHANGED <<api, lifecycle>>

\* runServe and main return, whatever the handlers do.
ProcessExits ==
  /\ process = "up"
  /\ closing = Dispatch!Closed
  /\ process' = "gone"
  /\ at' = [r \in Requests |-> IF at[r] = "running" THEN "killed" ELSE at[r]]
  /\ UNCHANGED <<poolVars, decisions, next, answer, wg, closure, summary, metrics,
                 server>>

-----------------------------------------------------------------------------
HandlerStep(r) ==
  \/ Submit(r) \/ Enqueued(r) \/ Dropped(r) \/ Panics(r)
  \/ TakeOutcome(r) \/ GiveUp(r) \/ Summarize(r)
WorkerStep(w) ==
  Take(w) \/ Process(w) \/ Record(w) \/ Done(w) \/ Finish(w) \/ Exit(w)
ShutdownStep == Drained \/ DeadlinePasses \/ Close \/ CloseStep \/ ProcessExits

Next ==
  \/ \E r \in Requests : Serve(r) \/ Leave(r) \/ HandlerStep(r)
  \/ \E w \in Dispatch!Workers : WorkerStep(w)
  \/ Shutdown \/ ListenFails
  \/ ShutdownStep

\* Goroutines that can run do, and a Shutdown comes to its end or to its deadline.
\* Clients, signals and the listener are free.
Fairness ==
  /\ \A r \in Requests : WF_vars(HandlerStep(r))
  /\ \A w \in Dispatch!Workers : WF_vars(WorkerStep(w))
  /\ WF_vars(ShutdownStep)

Spec == Init /\ [][Next]_vars /\ Fairness

-----------------------------------------------------------------------------
(* What the API promises, without handlers, workers and channels: see      *)
(* SequentialDetector.tla.  An invalid call is refused there when it       *)
(* starts, here in its closure, which nobody can tell apart.               *)

Outcome == [j \in Jobs |-> IF j \notin Valid /\ runs[j] > 0 THEN Returned("invalid")
                          ELSE outcome[j]]

Abstract == INSTANCE SequentialDetector WITH
  line <- Dispatch!Line, busy <- Dispatch!Busy, accepted <- Dispatch!Accepted,
  over <- finished, outcome <- Outcome

\* Whatever handlers, clients, channels and the shutdown do to one another, each
\* call that Submit accepted is decided at one instant, in the order of its
\* customer's calls, and no other call is decided (FR-002, FR-010).
ImplementsDetector ==
  Abstract!Init /\ [][Abstract!Next]_(Abstract!detectorVars)

-----------------------------------------------------------------------------
(* The type invariant, and the properties.                                 *)

Count(js) ==
  [total      |-> Cardinality(js),
   duplicates |-> Cardinality({j \in js : outcome[j].kind = "duplicate"}),
   partials   |-> Cardinality({j \in js : outcome[j].partial}),
   alerts     |-> Cardinality({j \in js : outcome[j].kind = "alert"})]

\* Types; a WaitGroup that went negative would panic.
TypeOK ==
  /\ Dispatch!TypeOK
  /\ at \in [Requests -> {"idle", "running", "returned", "panicked", "killed"}]
  /\ \A r \in Requests : next[r] \in 1 .. Len(Items[r]) + 1
  /\ wg \in [Requests -> Nat]
  /\ closure \in [Jobs -> {"process", "record", "done", "return"}]
  /\ server \in {"serving", "draining", "drained", "overdue", "failed"}
  /\ process \in {"up", "gone"}

\* The summary of a batch is written when none of its jobs can still touch it,
\* and counts each item that came to a verdict, once (FR-011).
SummaryIsExact ==
  \A r \in Batch : answer[r] = "summary" =>
    /\ \A j \in JobsOf(r) : caller[j] = "false" \/ closure[j] = "return"
    /\ summary[r] = Count({j \in JobsOf(r) : HasVerdict(outcome[j])})

\* NFR-005, as far as the code keeps it: with the workers at rest, /metrics shows
\* every verdict of a batch item and every one a single was answered with, each
\* once.  ProcessedIsCounted, below, is what it misses.
CountersAddUp ==
  (\A w \in Dispatch!Workers : running[w] = NoJob) =>
    metrics = Count({j \in finished :
                /\ HasVerdict(outcome[j])
                /\ InBatch(j) \/ \E r \in Requests : j \in JobsOf(r) /\ answer[r] # NoAnswer})

\* FR-010, handlers.go:140-143: two items of a batch for one customer never race
\* and never swap, also when the client goes away half way.
ArrayOrder ==
  \A r \in Batch : \A i, k \in DOMAIN Items[r] :
    /\ i < k
    /\ CustomerOf[Items[r][i]] = CustomerOf[Items[r][k]]
    /\ runs[Items[r][k]] > 0
    => Items[r][i] \in finished \/ caller[Items[r][i]] = "false"

\* NFR-006: when Shutdown kept its deadline, the process ends with every request
\* it took answered, unless the client left, and with every job it accepted run
\* to its end, those of clients that left too.
GracefulExit ==
  process = "gone" /\ server = "drained" =>
    /\ \A r \in Requests :
         /\ at[r] \in {"idle", "returned"}
         /\ at[r] = "returned" /\ answer[r] = NoAnswer => JobsOf(r) \subseteq ctxDone
    /\ \A j \in Jobs : caller[j] = "true" => outcome[j] # Undecided /\ j \in finished

\* A handler returns, unless the process ends under it: no WaitGroup is left
\* unbalanced and no select waits for a job that was dropped.
HandlerReturns ==
  \A r \in Requests : at[r] = "running" ~> at[r] # "running"

\* Once told to stop, the process ends, whatever clients and jobs do.
StopEndsProcess == server # "serving" ~> process = "gone"

-----------------------------------------------------------------------------
(* A statement of the repository that the code does not meet.              *)

\* spec.md:189, for every transaction processed: "contadores de observabilidade
\* atualizados".  With all handlers and workers at rest, every verdict that was
\* reached has been counted.
ProcessedIsCounted ==
  /\ process = "up"
  /\ \A r \in Requests : at[r] # "running"
  /\ \A w \in Dispatch!Workers : running[w] = NoJob
  => metrics = Count({j \in finished : HasVerdict(outcome[j])})
=============================================================================
