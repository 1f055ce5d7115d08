-------------------------------- MODULE Pool --------------------------------
(***************************************************************************)
(* internal/pipeline/dispatch/pool.go: a fixed set of workers, one bounded *)
(* FIFO channel per worker, jobs routed by hash(customer_id) % N.          *)
(*                                                                         *)
(* A job is one call of Submit together with the Run closure it hands to   *)
(* the pool.  What Run does is left open here (Pipeline.tla runs           *)
(* Processor.Process in it): it returns or it panics.                      *)
(***************************************************************************)
EXTENDS Integers, Sequences

CONSTANTS
  Jobs,              \* every Submit call the callers may make
  Customers,         \* customer identifiers
  CustomerOf,        \* Job.CustomerID, a function of the job
  Hash,              \* fnv-1a of the customer identifier, a 32-bit natural
  RequestedWorkers,  \* the argument of NewPool
  Impatient,         \* jobs whose submitting context may end before they do
  QueueCap,          \* capacity of each channel (64 in the code)
  NoJob              \* "this worker is waiting on its channel"

ASSUME PoolAssumption ==
  /\ CustomerOf \in [Jobs -> Customers]
  /\ Hash \in [Customers -> Nat]
  /\ RequestedWorkers \in Int
  /\ Impatient \subseteq Jobs
  /\ QueueCap \in Nat \ {0}
  /\ NoJob \notin Jobs

\* NewPool runs at least one worker.
NumWorkers == IF RequestedWorkers < 1 THEN 1 ELSE RequestedWorkers
Workers == 0 .. NumWorkers - 1

\* workerIndex(job.CustomerID, len(p.queues)); int is 64 bits wide, so the
\* unsigned 32-bit sum converts to a natural.
WorkerIndex(c) == Hash[c] % NumWorkers

VARIABLES
  caller,     \* where each Submit call stands; "true"/"false" is its result
  ctxDone,    \* jobs whose submitting context is done
  queue,      \* p.queues: the buffered jobs of each worker
  closed,     \* workers whose channel has been closed
  running,    \* the job each worker is in, or NoJob
  exited,     \* workers that left their range loop (wg.Done)
  closing,    \* p.Close: NotClosing, the next channel to close, Waiting, Closed
  clock,      \* history: number of jobs sent so far, over all channels
  pos,        \* history: when a job was sent (1, 2, ...), 0 if it never was
  runs,       \* history: number of times a job's Run was entered
  finished    \* history: jobs whose Run returned or panicked

poolVars == <<caller, ctxDone, queue, closed, running, exited, closing,
              clock, pos, runs, finished>>

\* Mutant: jobs are dealt out in turn, not by customer.
RouteInTurn(j) == clock % NumWorkers

\* The worker a job goes to.
Route(j) == WorkerIndex(CustomerOf[j])

CallerState == {"idle", "sending", "true", "false", "panicked"}

NotClosing == -1
Waiting == NumWorkers
Closed == NumWorkers + 1

Init ==
  /\ caller = [j \in Jobs |-> "idle"]
  /\ ctxDone = {}
  /\ queue = [w \in Workers |-> <<>>]
  /\ closed = {}
  /\ running = [w \in Workers |-> NoJob]
  /\ exited = {}
  /\ closing = NotClosing
  /\ clock = 0
  /\ pos = [j \in Jobs |-> 0]
  /\ runs = [j \in Jobs |-> 0]
  /\ finished = {}

-----------------------------------------------------------------------------
(* Submit, as seen by its caller.                                          *)

\* A caller reaches the select of Submit.
Call(j) ==
  /\ caller[j] = "idle"
  /\ caller' = [caller EXCEPT ![j] = "sending"]
  /\ UNCHANGED <<ctxDone, queue, closed, running, exited, closing, clock, pos,
                 runs, finished>>

\* The caller's context ends (client gone, deadline): before, during or after
\* the call.
Cancel(j) ==
  /\ j \in Impatient \ ctxDone
  /\ ctxDone' = ctxDone \cup {j}
  /\ UNCHANGED <<caller, queue, closed, running, exited, closing, clock, pos,
                 runs, finished>>

\* Mutant: Submit looks at ctx after the send and reports a queued job dropped.
EnqueueThenAskContext(j) ==
  /\ caller[j] = "sending"
  /\ Route(j) \notin closed
  /\ Len(queue[Route(j)]) < QueueCap
  /\ queue' = [queue EXCEPT ![Route(j)] = Append(@, j)]
  /\ caller' = [caller EXCEPT ![j] = IF j \in ctxDone THEN "false" ELSE "true"]
  /\ clock' = clock + 1
  /\ pos' = [pos EXCEPT ![j] = clock + 1]
  /\ UNCHANGED <<ctxDone, closed, running, exited, closing, runs, finished>>

\* The send case of the select: there is room on the worker's channel.  A done
\* context does not disable it, the select then picks either ready case.
Enqueue(j) ==
  /\ caller[j] = "sending"
  /\ Route(j) \notin closed
  /\ Len(queue[Route(j)]) < QueueCap
  /\ queue' = [queue EXCEPT ![Route(j)] = Append(@, j)]
  /\ caller' = [caller EXCEPT ![j] = "true"]
  /\ clock' = clock + 1
  /\ pos' = [pos EXCEPT ![j] = clock + 1]
  /\ UNCHANGED <<ctxDone, closed, running, exited, closing, runs, finished>>

\* The ctx.Done() case of the select.
Drop(j) ==
  /\ caller[j] = "sending"
  /\ j \in ctxDone
  /\ caller' = [caller EXCEPT ![j] = "false"]
  /\ UNCHANGED <<ctxDone, queue, closed, running, exited, closing, clock, pos,
                 runs, finished>>

\* The send case on a closed channel panics in the caller's goroutine, also
\* when the caller was already blocked in the select.
SendOnClosed(j) ==
  /\ caller[j] = "sending"
  /\ Route(j) \in closed
  /\ caller' = [caller EXCEPT ![j] = "panicked"]
  /\ UNCHANGED <<ctxDone, queue, closed, running, exited, closing, clock, pos,
                 runs, finished>>

-----------------------------------------------------------------------------
(* runWorker and runJob.                                                   *)

\* Mutant: a bare receive instead of the range loop also yields the zero Job of
\* a closed, drained channel.
TakeZeroJob(w) ==
  /\ running[w] = NoJob
  /\ queue[w] = <<>>
  /\ w \in closed
  /\ running' = [running EXCEPT ![w] = "zero Job"]
  /\ UNCHANGED <<caller, ctxDone, queue, closed, exited, closing, clock, pos,
                 runs, finished>>

\* The range loop receives the next job and calls runJob, which calls Run.
Take(w) ==
  /\ w \notin exited
  /\ running[w] = NoJob
  /\ queue[w] # <<>>
  /\ running' = [running EXCEPT ![w] = Head(queue[w])]
  /\ queue' = [queue EXCEPT ![w] = Tail(@)]
  /\ runs' = [runs EXCEPT ![Head(queue[w])] = @ + 1]
  /\ UNCHANGED <<caller, ctxDone, closed, exited, closing, clock, pos, finished>>

\* Mutant: runJob does not recover, so a panic ends its worker's loop.
FinishOrDie(w) ==
  /\ running[w] # NoJob
  /\ running' = [running EXCEPT ![w] = NoJob]
  /\ finished' = finished \cup {running[w]}
  /\ exited' \in {exited, exited \cup {w}}
  /\ UNCHANGED <<caller, ctxDone, queue, closed, closing, clock, pos, runs>>

\* Run returns, or panics and runJob's deferred recover swallows the panic:
\* either way the worker goes back to its range loop.
Finish(w) ==
  /\ running[w] # NoJob
  /\ running' = [running EXCEPT ![w] = NoJob]
  /\ finished' = finished \cup {running[w]}
  /\ UNCHANGED <<caller, ctxDone, queue, closed, exited, closing, clock, pos,
                 runs>>

\* Mutant: the loop ends as soon as the channel is closed.
ExitUndrained(w) ==
  /\ w \notin exited
  /\ w \in closed
  /\ running[w] = NoJob
  /\ exited' = exited \cup {w}
  /\ UNCHANGED <<caller, ctxDone, queue, closed, running, closing, clock, pos,
                 runs, finished>>

\* The range loop ends once the channel is closed and drained.
Exit(w) ==
  /\ w \notin exited
  /\ w \in closed
  /\ running[w] = NoJob
  /\ queue[w] = <<>>
  /\ exited' = exited \cup {w}
  /\ UNCHANGED <<caller, ctxDone, queue, closed, running, closing, clock, pos,
                 runs, finished>>

-----------------------------------------------------------------------------
(* Close: close every channel in order, then wait for every worker.        *)

BeginClose ==
  /\ closing = NotClosing
  /\ closing' = 0
  /\ UNCHANGED <<caller, ctxDone, queue, closed, running, exited, clock, pos,
                 runs, finished>>

\* Mutant: the loop over the channels stops one short.
CloseAllButLast(w) ==
  /\ closing = w
  /\ closed' = IF w = NumWorkers - 1 THEN closed ELSE closed \cup {w}
  /\ closing' = w + 1
  /\ UNCHANGED <<caller, ctxDone, queue, running, exited, clock, pos, runs,
                 finished>>

\* close(q) of one channel.
CloseQueue(w) ==
  /\ closing = w
  /\ closed' = closed \cup {w}
  /\ closing' = w + 1
  /\ UNCHANGED <<caller, ctxDone, queue, running, exited, clock, pos, runs,
                 finished>>

\* p.wg.Wait() returns.
CloseReturns ==
  /\ closing = Waiting
  /\ exited = Workers
  /\ closing' = Closed
  /\ UNCHANGED <<caller, ctxDone, queue, closed, running, exited, clock, pos,
                 runs, finished>>

-----------------------------------------------------------------------------
SubmitStep(j) == Enqueue(j) \/ Drop(j) \/ SendOnClosed(j)
WorkerStep(w) == Take(w) \/ Finish(w) \/ Exit(w)
CloseStep == (\E w \in Workers : CloseQueue(w)) \/ CloseReturns

Next ==
  \/ \E j \in Jobs : Call(j) \/ Cancel(j) \/ SubmitStep(j)
  \/ \E w \in Workers : WorkerStep(w)
  \/ BeginClose
  \/ CloseStep

\* The Go scheduler runs every goroutine that can run; Run is assumed to end
\* (the contract on Job.Run).  Callers may never call, nor cancel, nor close.
Fairness ==
  /\ \A j \in Jobs : WF_poolVars(SubmitStep(j))
  /\ \A w \in Workers : WF_poolVars(WorkerStep(w))
  /\ WF_poolVars(CloseStep)

Spec == Init /\ [][Next]_poolVars /\ Fairness

-----------------------------------------------------------------------------
(* What the pool promises, without workers: see CustomerLanes.tla.         *)

\* The jobs of one customer in a channel, in its order.
OfCustomer(s, c) ==
  LET upTo[n \in 0 .. Len(s)] ==
        IF n = 0 THEN <<>>
        ELSE IF CustomerOf[s[n]] = c THEN Append(upTo[n - 1], s[n])
        ELSE upTo[n - 1]
  IN  upTo[Len(s)]

Line == [c \in Customers |-> OfCustomer(queue[WorkerIndex(c)], c)]
Busy == [c \in Customers |->
           LET j == running[WorkerIndex(c)]
           IN  IF j # NoJob /\ CustomerOf[j] = c THEN j ELSE NoJob]
Accepted == {j \in Jobs : pos[j] > 0}

Lanes == INSTANCE CustomerLanes WITH
  line <- Line, busy <- Busy, accepted <- Accepted, over <- finished

\* Whatever the hash and the number of workers, the pool behaves like one
\* private FIFO lane per customer, each of which keeps moving (pool.go:26-28).
ImplementsLanes == Lanes!Spec

-----------------------------------------------------------------------------
(* The type invariant, and the properties.                                 *)

\* Every channel holds jobs, every worker runs a job or nothing.
TypeOK ==
  /\ caller \in [Jobs -> CallerState]
  /\ ctxDone \subseteq Jobs
  /\ queue \in [Workers -> Seq(Jobs)]
  /\ closed \subseteq Workers
  /\ running \in [Workers -> Jobs \cup {NoJob}]
  /\ exited \subseteq Workers
  /\ closing \in NotClosing .. Closed
  /\ clock \in Nat
  /\ pos \in [Jobs -> Nat]
  /\ runs \in [Jobs -> Nat]
  /\ finished \subseteq Jobs

\* A job starts only when every job its customer got accepted before it is
\* over: one customer's jobs never overlap and never reorder, whatever the
\* number of workers, other customers and panics (pool.go:26-28, FR-010).
CustomerFifo ==
  \A i, j \in Jobs :
    /\ CustomerOf[i] = CustomerOf[j]
    /\ 0 < pos[i] /\ pos[i] < pos[j]
    /\ runs[j] > 0
    => i \in finished

\* What Submit returned is the truth about Run: a job runs at most once, and
\* never unless Submit returned true (pool.go:77-82).
ResultIsTruth ==
  \A j \in Jobs : runs[j] <= (IF caller[j] = "true" THEN 1 ELSE 0)

\* When Close returns, nothing that was accepted is left behind, even if
\* callers kept submitting while the channels were being closed.
CloseDrains ==
  closing = Closed =>
    \A j \in Jobs : caller[j] = "true" => j \in finished

\* An accepted job is eventually over, also behind jobs that panic.
AcceptedJobFinishes == \A j \in Jobs : caller[j] = "true" ~> j \in finished

\* Backpressure is temporary: no caller stays blocked in Submit.
SubmitReturns == \A j \in Jobs : caller[j] = "sending" ~> caller[j] # "sending"

\* Close comes back: no worker waits forever on its channel.
CloseTerminates == closing = 0 ~> closing = Closed
=============================================================================
