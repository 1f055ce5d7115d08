----------------------------- MODULE PoolProofs -----------------------------
(***************************************************************************)
(* Proofs about Pool, for any jobs, customers, hash, number of workers and *)
(* channel capacity: its safety properties, and that every step of it is   *)
(* one of CustomerLanes or does not show there.                            *)
(***************************************************************************)
EXTENDS Pool, SequenceTheorems, Induction, TLAPS

(* There is at least one worker, and every customer is routed to one.       *)
LEMMA RouteIsWorker ==
  /\ NumWorkers \in Nat \ {0}
  /\ \A j \in Jobs : Route(j) \in Workers
<1> USE PoolAssumption
<1>1. NumWorkers \in Nat \ {0}
  BY DEF NumWorkers
<1>2. ASSUME NEW j \in Jobs
      PROVE  Route(j) \in Workers
  <2>1. Hash[CustomerOf[j]] \in Nat
    OBVIOUS
  <2>2. Hash[CustomerOf[j]] % NumWorkers \in 0 .. NumWorkers - 1
    BY <1>1, <2>1
  <2> QED
    BY <2>2 DEF Route, WorkerIndex, Workers
<1> QED
  BY <1>1, <1>2

(* Every step of the pool keeps every variable in its type.                 *)
LEMMA TypeStep == TypeOK /\ [Next]_poolVars => TypeOK'
<1> SUFFICES ASSUME TypeOK, [Next]_poolVars
             PROVE  TypeOK'
  OBVIOUS
<1> USE PoolAssumption, RouteIsWorker DEF TypeOK
<1>1. CASE UNCHANGED poolVars
  BY <1>1 DEF poolVars
<1>2. ASSUME NEW j \in Jobs, Call(j)
      PROVE  TypeOK'
  BY <1>2 DEF Call, CallerState
<1>3. ASSUME NEW j \in Jobs, Cancel(j)
      PROVE  TypeOK'
  BY <1>3 DEF Cancel
<1>4. ASSUME NEW j \in Jobs, Enqueue(j)
      PROVE  TypeOK'
  BY <1>4 DEF Enqueue, CallerState
<1>5. ASSUME NEW j \in Jobs, Drop(j)
      PROVE  TypeOK'
  BY <1>5 DEF Drop, CallerState
<1>6. ASSUME NEW j \in Jobs, SendOnClosed(j)
      PROVE  TypeOK'
  BY <1>6 DEF SendOnClosed, CallerState
<1>7. ASSUME NEW w \in Workers, Take(w)
      PROVE  TypeOK'
  <2>1. Head(queue[w]) \in Jobs /\ Tail(queue[w]) \in Seq(Jobs)
    BY <1>7, HeadTailProperties DEF Take
  <2> QED
    BY <1>7, <2>1 DEF Take
<1>8. ASSUME NEW w \in Workers, Finish(w)
      PROVE  TypeOK'
  BY <1>8 DEF Finish
<1>9. ASSUME NEW w \in Workers, Exit(w)
      PROVE  TypeOK'
  BY <1>9 DEF Exit
<1>10. CASE BeginClose
  BY <1>10 DEF BeginClose, NotClosing, Closed
<1>11. ASSUME NEW w \in Workers, CloseQueue(w)
       PROVE  TypeOK'
  BY <1>11 DEF CloseQueue, Workers, NotClosing, Closed
<1>12. CASE CloseReturns
  BY <1>12 DEF CloseReturns, NotClosing, Closed
<1> QED
  BY <1>1, <1>2, <1>3, <1>4, <1>5, <1>6, <1>7, <1>8, <1>9, <1>10, <1>11, <1>12
     DEF Next, SubmitStep, WorkerStep, CloseStep

(* The pool is well typed in every reachable state.                         *)
THEOREM TypeCorrect == Spec => []TypeOK
<1>1. Init => TypeOK
  BY PoolAssumption, RouteIsWorker
     DEF Init, TypeOK, CallerState, NotClosing, Closed, Waiting
<1>2. TypeOK /\ [Next]_poolVars => TypeOK'
  BY TypeStep
<1> QED
  BY <1>1, <1>2, PTL DEF Spec

-----------------------------------------------------------------------------
(***************************************************************************)
(* The inductive invariant.  CustomerFifo alone is not inductive: a step   *)
(* that starts a job must know that nothing sent before it still waits or  *)
(* runs, which follows from where every accepted job is (Located), from    *)
(* the order of each channel (QueueOK) and from who may be in a worker     *)
(* (RunningOK).                                                            *)
(***************************************************************************)

\* What a job's result, its position and its runs say about one another.
JobOK ==
  \A j \in Jobs :
    /\ pos[j] > 0 <=> caller[j] = "true"
    /\ pos[j] <= clock
    /\ runs[j] \in {0, 1}
    /\ runs[j] = 1 => pos[j] > 0
    /\ j \in finished => runs[j] = 1

\* Two jobs are never sent at the same time.
PosUnique == \A i, j \in Jobs : pos[i] > 0 /\ pos[i] = pos[j] => i = j

\* A channel holds jobs of its own that did not start, oldest first.
QueueOK ==
  \A w \in Workers : \A a \in 1 .. Len(queue[w]) :
    /\ Route(queue[w][a]) = w
    /\ pos[queue[w][a]] > 0
    /\ runs[queue[w][a]] = 0
    /\ \A b \in 1 .. Len(queue[w]) : a < b => pos[queue[w][a]] < pos[queue[w][b]]

\* A worker is in a job of its own that is not over.
RunningOK ==
  \A w \in Workers : running[w] # NoJob =>
    /\ Route(running[w]) = w
    /\ runs[running[w]] = 1
    /\ running[w] \notin finished

\* An accepted job is over, being run, or waiting.
Located ==
  \A j \in Jobs : pos[j] > 0 =>
    \/ j \in finished
    \/ running[Route(j)] = j
    \/ \E a \in 1 .. Len(queue[Route(j)]) : queue[Route(j)][a] = j

\* CustomerFifo, for all the customers of one worker.
WorkerFifo ==
  \A i, j \in Jobs :
    /\ Route(i) = Route(j)
    /\ 0 < pos[i] /\ pos[i] < pos[j]
    /\ runs[j] = 1
    => i \in finished

\* A worker that left its loop left nothing behind, and Close returns only when
\* all of them did.
ExitOK ==
  /\ \A w \in exited : w \in closed /\ queue[w] = <<>> /\ running[w] = NoJob
  /\ closing = Closed => exited = Workers

Inv ==
  /\ TypeOK
  /\ JobOK
  /\ PosUnique
  /\ QueueOK
  /\ RunningOK
  /\ Located
  /\ WorkerFifo
  /\ ExitOK

(* The initial state satisfies the invariant.                               *)
LEMMA InitInv == Init => Inv
<1> SUFFICES ASSUME Init
             PROVE  Inv
  OBVIOUS
<1>1. TypeOK
  BY PoolAssumption, RouteIsWorker
     DEF Init, TypeOK, CallerState, NotClosing, Closed, Waiting
<1>2. JobOK /\ PosUnique /\ RunningOK /\ Located /\ WorkerFifo
  BY DEF Init, JobOK, PosUnique, RunningOK, Located, WorkerFifo
<1>3. QueueOK
  BY DEF Init, QueueOK
<1>4. ExitOK
  BY RouteIsWorker DEF Init, ExitOK, NotClosing, Closed
<1> QED
  BY <1>1, <1>2, <1>3, <1>4 DEF Inv

(* Whatever waits in a channel is a job.                                    *)
LEMMA QueuedIsJob ==
  ASSUME TypeOK
  PROVE  \A w \in Workers : \A a \in 1 .. Len(queue[w]) : queue[w][a] \in Jobs
<1> SUFFICES ASSUME NEW w \in Workers, NEW a \in 1 .. Len(queue[w])
             PROVE  queue[w][a] \in Jobs
  OBVIOUS
<1>1. queue[w] \in Seq(Jobs)
  BY DEF TypeOK
<1> QED
  BY <1>1, ElementOfSeq

(* The steps that move no job: a call, a cancelled context, a dropped or     *)
(* panicking Submit, and the steps of Close.                                *)
LEMMA QuietStep ==
  ASSUME Inv, TypeOK',
         \/ UNCHANGED poolVars
         \/ \E j \in Jobs : Call(j) \/ Cancel(j) \/ Drop(j) \/ SendOnClosed(j)
         \/ BeginClose \/ CloseReturns
         \/ \E w \in Workers : CloseQueue(w)
  PROVE  Inv'
<1> USE RouteIsWorker DEF Inv, TypeOK
<1>1. UNCHANGED <<queue, running, exited, clock, pos, runs, finished>>
  BY DEF poolVars, Call, Cancel, Drop, SendOnClosed, BeginClose, CloseReturns,
         CloseQueue
<1>2. \A j \in Jobs : caller'[j] = "true" <=> caller[j] = "true"
  BY DEF poolVars, Call, Cancel, Drop, SendOnClosed, BeginClose, CloseReturns,
         CloseQueue
<1>3. closed \subseteq closed' /\ (closing' = Closed => exited = Workers)
  BY DEF poolVars, Call, Cancel, Drop, SendOnClosed, BeginClose, CloseReturns,
         CloseQueue, ExitOK, Closed, Workers
<1>4. JobOK'
  BY <1>1, <1>2 DEF JobOK
<1>5. PosUnique' /\ RunningOK'
  BY <1>1 DEF PosUnique, RunningOK, Route
<1>6. QueueOK'
  BY <1>1 DEF QueueOK, Route
<1>7. Located' /\ WorkerFifo'
  BY <1>1 DEF Located, WorkerFifo, Route
<1>8. ExitOK'
  BY <1>1, <1>3 DEF ExitOK
<1> QED
  BY <1>4, <1>5, <1>6, <1>7, <1>8 DEF Inv

(* Submit's send: the new job goes behind everything sent before.           *)
LEMMA EnqueueStep ==
  ASSUME Inv, TypeOK', NEW j \in Jobs, Enqueue(j)
  PROVE  Inv'
<1> DEFINE r == Route(j)
           n == Len(queue[r])
<1>1. /\ r \in Workers \ closed
      /\ \A v \in Workers : queue[v] \in Seq(Jobs)
      /\ \A v \in Workers : \A a \in 1 .. Len(queue[v]) : queue[v][a] \in Jobs
      /\ \A i \in Jobs : pos[i] \in Nat
      /\ clock \in Nat /\ n \in Nat
  BY RouteIsWorker, QueuedIsJob DEF Inv, TypeOK, Enqueue
<1>2. pos[j] = 0 /\ runs[j] = 0 /\ j \notin finished
  BY DEF Enqueue, Inv, JobOK, TypeOK
<1>3. /\ pos'[j] = clock + 1 /\ caller'[j] = "true" /\ clock' = clock + 1
      /\ \A i \in Jobs \ {j} : pos'[i] = pos[i] /\ caller'[i] = caller[i]
  BY DEF Enqueue, Inv, TypeOK
<1>4. UNCHANGED <<closed, running, exited, closing, runs, finished>>
  BY DEF Enqueue
<1>5. queue'[r] = Append(queue[r], j) /\ \A v \in Workers \ {r} : queue'[v] = queue[v]
  BY <1>1 DEF Enqueue, Inv, TypeOK
<1>6. /\ Len(queue'[r]) = n + 1
      /\ queue'[r][n + 1] = j
      /\ \A a \in 1 .. n : queue'[r][a] = queue[r][a]
  BY <1>1, <1>5
<1>7. ASSUME NEW v \in Workers, NEW a \in 1 .. Len(queue'[v])
      PROVE  \/ a \in 1 .. Len(queue[v]) /\ queue'[v][a] = queue[v][a]
             \/ v = r /\ a = n + 1 /\ queue'[v][a] = j
  BY <1>1, <1>5, <1>6
<1>8. \A v \in Workers : \A a \in 1 .. Len(queue[v]) :
        /\ queue[v][a] \in Jobs \ {j}
        /\ pos'[queue[v][a]] = pos[queue[v][a]]
        /\ pos[queue[v][a]] < clock + 1
        /\ a \in 1 .. Len(queue'[v]) /\ queue'[v][a] = queue[v][a]
  <2> SUFFICES ASSUME NEW v \in Workers, NEW a \in 1 .. Len(queue[v])
               PROVE  /\ queue[v][a] \in Jobs \ {j}
                      /\ pos'[queue[v][a]] = pos[queue[v][a]]
                      /\ pos[queue[v][a]] < clock + 1
                      /\ a \in 1 .. Len(queue'[v]) /\ queue'[v][a] = queue[v][a]
    OBVIOUS
  <2>1. queue[v][a] \in Jobs \ {j}
    BY <1>1, <1>2 DEF Inv, QueueOK
  <2>2. pos[queue[v][a]] <= clock
    BY <2>1 DEF Inv, JobOK
  <2>3. a \in 1 .. Len(queue'[v]) /\ queue'[v][a] = queue[v][a]
    BY <1>1, <1>5, <1>6
  <2> QED
    BY <1>1, <1>3, <2>1, <2>2, <2>3
<1>9. JobOK'
  <2> SUFFICES ASSUME NEW i \in Jobs
               PROVE  /\ pos'[i] > 0 <=> caller'[i] = "true"
                      /\ pos'[i] <= clock'
                      /\ runs[i] \in {0, 1}
                      /\ runs[i] = 1 => pos'[i] > 0
                      /\ i \in finished => runs[i] = 1
    BY <1>4 DEF JobOK
  <2>1. CASE i = j
    BY <1>1, <1>2, <1>3, <2>1
  <2>2. CASE i # j
    <3>1. pos'[i] = pos[i] /\ caller'[i] = caller[i] /\ pos[i] <= clock
      BY <1>3, <2>2 DEF Inv, JobOK
    <3> QED
      BY <1>1, <1>3, <3>1 DEF Inv, JobOK
  <2> QED
    BY <2>1, <2>2
<1>10. PosUnique'
  <2> SUFFICES ASSUME NEW i \in Jobs, NEW k \in Jobs, pos'[i] > 0, pos'[i] = pos'[k]
               PROVE  i = k
    BY DEF PosUnique
  <2>1. pos[i] < clock + 1 /\ pos[k] < clock + 1
    BY <1>1 DEF Inv, JobOK
  <2>2. CASE i = j /\ k # j
    BY <1>1, <1>3, <2>1, <2>2
  <2>3. CASE i # j /\ k = j
    BY <1>1, <1>3, <2>1, <2>3
  <2>4. CASE i # j /\ k # j
    <3>1. pos[i] > 0 /\ pos[i] = pos[k]
      BY <1>3, <2>4
    <3> QED
      BY <3>1 DEF Inv, PosUnique
  <2> QED
    BY <2>2, <2>3, <2>4
<1>11. QueueOK'
  <2> SUFFICES ASSUME NEW v \in Workers, NEW a \in 1 .. Len(queue'[v])
               PROVE  /\ Route(queue'[v][a]) = v
                      /\ pos'[queue'[v][a]] > 0
                      /\ runs[queue'[v][a]] = 0
                      /\ \A b \in 1 .. Len(queue'[v]) :
                           a < b => pos'[queue'[v][a]] < pos'[queue'[v][b]]
    BY <1>4 DEF QueueOK
  <2>1. CASE a \in 1 .. Len(queue[v]) /\ queue'[v][a] = queue[v][a]
    <3>1. ASSUME NEW b \in 1 .. Len(queue'[v]), a < b
          PROVE  pos[queue[v][a]] < pos'[queue'[v][b]]
      <4>1. CASE b \in 1 .. Len(queue[v]) /\ queue'[v][b] = queue[v][b]
        BY <1>8, <2>1, <3>1, <4>1 DEF Inv, QueueOK
      <4>2. CASE queue'[v][b] = j
        BY <1>3, <1>8, <2>1, <4>2
      <4> QED
        BY <1>7, <4>1, <4>2
    <3> QED
      BY <1>8, <2>1, <3>1 DEF Inv, QueueOK
  <2>2. CASE v = r /\ a = n + 1 /\ queue'[v][a] = j
    BY <1>1, <1>2, <1>3, <1>6, <2>2
  <2> QED
    BY <1>7, <2>1, <2>2
<1>12. RunningOK'
  BY <1>4 DEF Inv, RunningOK
<1>13. Located'
  <2> SUFFICES ASSUME NEW i \in Jobs, pos'[i] > 0, i \notin finished,
                      running[Route(i)] # i
               PROVE  \E a \in 1 .. Len(queue'[Route(i)]) :
                        queue'[Route(i)][a] = i
    BY <1>4 DEF Located
  <2>1. CASE i = j
    BY <1>1, <1>6, <2>1
  <2>2. CASE i # j
    <3>1. PICK a \in 1 .. Len(queue[Route(i)]) : queue[Route(i)][a] = i
      BY <1>3, <2>2 DEF Inv, Located
    <3> QED
      BY <1>8, <3>1, RouteIsWorker
  <2> QED
    BY <2>1, <2>2
<1>14. WorkerFifo'
  <2> SUFFICES ASSUME NEW i \in Jobs, NEW k \in Jobs, Route(i) = Route(k),
                      0 < pos'[i], pos'[i] < pos'[k], runs[k] = 1
               PROVE  i \in finished
    BY <1>4 DEF WorkerFifo
  <2>1. k # j /\ pos[k] <= clock
    BY <1>2 DEF Inv, JobOK
  <2>2. i # j
    BY <1>1, <1>3, <2>1
  <2> QED
    BY <1>3, <2>1, <2>2 DEF Inv, WorkerFifo
<1>15. ExitOK'
  <2>1. r \notin exited
    BY <1>1 DEF Inv, ExitOK
  <2> QED
    BY <1>4, <1>5, <2>1 DEF Inv, ExitOK, TypeOK
<1> QED
  BY <1>9, <1>10, <1>11, <1>12, <1>13, <1>14, <1>15 DEF Inv

(* A worker receives the oldest job of its channel: everything it was sent   *)
(* before is over.                                                          *)
LEMMA TakeStep ==
  ASSUME Inv, TypeOK', NEW w \in Workers, Take(w)
  PROVE  Inv'
<1> DEFINE j == queue[w][1]
           n == Len(queue[w])
<1>1. /\ \A v \in Workers : queue[v] \in Seq(Jobs)
      /\ \A v \in Workers : \A a \in 1 .. Len(queue[v]) : queue[v][a] \in Jobs
      /\ \A i \in Jobs : pos[i] \in Nat
      /\ running[w] = NoJob /\ w \notin exited
  BY QueuedIsJob DEF Inv, TypeOK, Take
<1>2. queue[w] # <<>> /\ n \in Nat /\ 1 \in 1 .. n
  BY <1>1 DEF Take
<1>3. Head(queue[w]) = j
  BY <1>1, <1>2
<1>4. j \in Jobs /\ Route(j) = w /\ pos[j] > 0 /\ runs[j] = 0 /\ j \notin finished
  <2>1. j \in Jobs
    BY <1>1, <1>2
  <2>2. Route(j) = w /\ pos[j] > 0 /\ runs[j] = 0
    BY <1>2 DEF Inv, QueueOK
  <2> QED
    BY <2>1, <2>2 DEF Inv, JobOK
<1>5. UNCHANGED <<caller, closed, exited, closing, clock, pos, finished>>
  BY DEF Take
<1>6. runs'[j] = 1 /\ \A i \in Jobs \ {j} : runs'[i] = runs[i]
  BY <1>3, <1>4 DEF Take, Inv, TypeOK
<1>7. running'[w] = j /\ \A v \in Workers \ {w} : running'[v] = running[v]
  BY <1>3 DEF Take, Inv, TypeOK
<1>8. /\ queue'[w] = Tail(queue[w])
      /\ \A v \in Workers \ {w} : queue'[v] = queue[v]
  BY DEF Take, Inv, TypeOK
<1>9. /\ Len(queue'[w]) = n - 1
      /\ \A a \in 1 .. n - 1 : queue'[w][a] = queue[w][a + 1]
  BY <1>1, <1>2, <1>8
<1>10. \A a \in 1 .. n : 1 < a => pos[j] < pos[queue[w][a]]
  BY <1>2 DEF Inv, QueueOK
<1>11. JobOK'
  <2> SUFFICES ASSUME NEW i \in Jobs
               PROVE  /\ pos[i] > 0 <=> caller[i] = "true"
                      /\ pos[i] <= clock
                      /\ runs'[i] \in {0, 1}
                      /\ runs'[i] = 1 => pos[i] > 0
                      /\ i \in finished => runs'[i] = 1
    BY <1>5 DEF JobOK
  <2>1. CASE i = j
    BY <1>4, <1>6, <2>1 DEF Inv, JobOK
  <2>2. CASE i # j
    BY <1>6, <2>2 DEF Inv, JobOK
  <2> QED
    BY <2>1, <2>2
<1>12. PosUnique'
  BY <1>5 DEF Inv, PosUnique
<1>13. QueueOK'
  <2> SUFFICES ASSUME NEW v \in Workers, NEW a \in 1 .. Len(queue'[v])
               PROVE  /\ Route(queue'[v][a]) = v
                      /\ pos[queue'[v][a]] > 0
                      /\ runs'[queue'[v][a]] = 0
                      /\ \A b \in 1 .. Len(queue'[v]) :
                           a < b => pos[queue'[v][a]] < pos[queue'[v][b]]
    BY <1>5 DEF QueueOK
  <2>1. CASE v # w
    <3>1. queue'[v] = queue[v]
      BY <1>8, <2>1
    <3>2. queue[v][a] \in Jobs /\ Route(queue[v][a]) = v
      BY <1>1, <3>1 DEF Inv, QueueOK
    <3>3. queue[v][a] \in Jobs \ {j}
      BY <1>4, <2>1, <3>2
    <3> QED
      BY <1>6, <3>1, <3>3 DEF Inv, QueueOK
  <2>2. CASE v = w
    <3>1. a \in 1 .. n - 1 /\ a + 1 \in 1 .. n /\ queue'[v][a] = queue[w][a + 1]
      BY <1>2, <1>9, <2>2
    <3>2. queue[w][a + 1] \in Jobs
      BY <1>1, <3>1
    <3>3. pos[j] < pos[queue[w][a + 1]]
      BY <1>10, <3>1
    <3>4. queue[w][a + 1] # j
      BY <1>1, <1>4, <3>2, <3>3
    <3>5. ASSUME NEW b \in 1 .. Len(queue'[v]), a < b
          PROVE  pos[queue[w][a + 1]] < pos[queue'[v][b]]
      <4>1. b + 1 \in 1 .. n /\ a + 1 < b + 1 /\ queue'[v][b] = queue[w][b + 1]
        BY <1>2, <1>9, <2>2, <3>1, <3>5
      <4> QED
        BY <3>1, <4>1 DEF Inv, QueueOK
    <3>6. Route(queue[w][a + 1]) = w /\ pos[queue[w][a + 1]] > 0
          /\ runs[queue[w][a + 1]] = 0
      BY <3>1 DEF Inv, QueueOK
    <3> QED
      BY <1>6, <2>2, <3>1, <3>2, <3>4, <3>5, <3>6
  <2> QED
    BY <2>1, <2>2
<1>14. RunningOK'
  <2> SUFFICES ASSUME NEW v \in Workers, running'[v] # NoJob
               PROVE  /\ Route(running'[v]) = v
                      /\ runs'[running'[v]] = 1
                      /\ running'[v] \notin finished
    BY <1>5 DEF RunningOK
  <2>1. CASE v = w
    BY <1>4, <1>6, <1>7, <2>1
  <2>2. CASE v # w
    <3>1. running'[v] = running[v] /\ running[v] \in Jobs
      BY <1>7, <2>2 DEF Inv, TypeOK
    <3>2. Route(running[v]) = v /\ runs[running[v]] = 1 /\ running[v] \notin finished
      BY <3>1 DEF Inv, RunningOK
    <3> QED
      BY <1>4, <1>6, <3>1, <3>2
  <2> QED
    BY <2>1, <2>2
<1>15. Located'
  <2> SUFFICES ASSUME NEW i \in Jobs, pos[i] > 0, i \notin finished,
                      running'[Route(i)] # i
               PROVE  \E a \in 1 .. Len(queue'[Route(i)]) :
                        queue'[Route(i)][a] = i
    BY <1>5 DEF Located
  <2>1. PICK a \in 1 .. Len(queue[Route(i)]) : queue[Route(i)][a] = i
    <3>1. running[Route(i)] # i
      BY <1>1, <1>7, RouteIsWorker, PoolAssumption
    <3> QED
      BY <3>1 DEF Inv, Located
  <2>2. CASE Route(i) # w
    BY <1>8, <2>1, <2>2, RouteIsWorker
  <2>3. CASE Route(i) = w
    <3>1. a # 1
      BY <1>7, <2>1, <2>3
    <3>2. a - 1 \in 1 .. n - 1 /\ queue'[w][a - 1] = queue[w][a]
      BY <1>2, <1>9, <2>1, <2>3, <3>1
    <3> QED
      BY <1>9, <2>1, <2>3, <3>2
  <2> QED
    BY <2>2, <2>3
<1>16. WorkerFifo'
  <2> SUFFICES ASSUME NEW i \in Jobs, NEW k \in Jobs, Route(i) = Route(k),
                      0 < pos[i], pos[i] < pos[k], runs'[k] = 1
               PROVE  i \in finished
    BY <1>5 DEF WorkerFifo
  <2>1. CASE k # j
    BY <1>6, <2>1 DEF Inv, WorkerFifo
  <2>2. CASE k = j
    <3>1. ASSUME NEW a \in 1 .. n
          PROVE  queue[w][a] # i
      <4>1. a = 1 \/ 1 < a
        OBVIOUS
      <4>2. pos[i] < pos[j]
        BY <2>2
      <4>3. 1 < a => pos[j] < pos[queue[w][a]]
        BY <1>10
      <4> QED
        BY <1>1, <1>4, <4>1, <4>2, <4>3
    <3>2. Route(i) = w /\ running[w] # i
      BY <1>1, <1>4, <2>2, PoolAssumption
    <3> QED
      BY <3>1, <3>2 DEF Inv, Located
  <2> QED
    BY <2>1, <2>2
<1>17. ExitOK'
  BY <1>1, <1>5, <1>7, <1>8 DEF Inv, ExitOK, TypeOK
<1> QED
  BY <1>11, <1>12, <1>13, <1>14, <1>15, <1>16, <1>17 DEF Inv

(* A job ends, by returning or by panicking.                                *)
LEMMA FinishStep ==
  ASSUME Inv, TypeOK', NEW w \in Workers, Finish(w)
  PROVE  Inv'
<1> USE PoolAssumption, RouteIsWorker DEF Inv, TypeOK, Finish
<1>1. running[w] \in Jobs /\ Route(running[w]) = w /\ runs[running[w]] = 1
  BY DEF RunningOK
<1>2. JobOK' /\ PosUnique'
  BY <1>1 DEF JobOK, PosUnique
<1>3. QueueOK'
  BY DEF QueueOK, Route
<1>4. RunningOK'
  BY <1>1 DEF RunningOK, Route
<1>5. Located'
  BY <1>1 DEF Located, Route
<1>6. WorkerFifo'
  BY DEF WorkerFifo, Route
<1>7. ExitOK'
  BY DEF ExitOK
<1> QED
  BY <1>2, <1>3, <1>4, <1>5, <1>6, <1>7 DEF Inv

(* A worker whose channel is closed and drained leaves its loop.            *)
LEMMA ExitStep ==
  ASSUME Inv, TypeOK', NEW w \in Workers, Exit(w)
  PROVE  Inv'
<1> USE RouteIsWorker DEF Inv, TypeOK, Exit
<1>1. JobOK' /\ PosUnique'
  BY DEF JobOK, PosUnique
<1>2. QueueOK'
  BY DEF QueueOK, Route
<1>3. RunningOK' /\ Located' /\ WorkerFifo'
  BY DEF RunningOK, Located, WorkerFifo, Route
<1>4. ExitOK'
  BY DEF ExitOK
<1> QED
  BY <1>1, <1>2, <1>3, <1>4 DEF Inv

(* Every step of the pool keeps the invariant.                              *)
LEMMA StepInv == Inv /\ [Next]_poolVars => Inv'
<1> SUFFICES ASSUME Inv, [Next]_poolVars
             PROVE  Inv'
  OBVIOUS
<1>1. TypeOK'
  BY TypeStep DEF Inv
<1> QED
  BY <1>1, QuietStep, EnqueueStep, TakeStep, FinishStep, ExitStep
     DEF Next, SubmitStep, WorkerStep, CloseStep

(* Inv holds in every reachable state.                                      *)
THEOREM Invariance == Spec => []Inv
BY InitInv, StepInv, PTL DEF Spec

(* The three safety properties follow from the invariant.                   *)
LEMMA InvImpliesSafety == Inv => CustomerFifo /\ ResultIsTruth /\ CloseDrains
<1> SUFFICES ASSUME Inv
             PROVE  CustomerFifo /\ ResultIsTruth /\ CloseDrains
  OBVIOUS
<1> USE RouteIsWorker DEF Inv, TypeOK
<1>1. CustomerFifo
  BY DEF CustomerFifo, WorkerFifo, JobOK, Route
<1>2. ResultIsTruth
  <2> SUFFICES ASSUME NEW j \in Jobs
               PROVE  runs[j] <= (IF caller[j] = "true" THEN 1 ELSE 0)
    BY DEF ResultIsTruth
  <2>1. runs[j] \in {0, 1} /\ (runs[j] = 1 => caller[j] = "true")
    BY DEF JobOK
  <2> QED
    BY <2>1
<1>3. CloseDrains
  <2> SUFFICES ASSUME closing = Closed, NEW j \in Jobs, caller[j] = "true"
               PROVE  j \in finished
    BY DEF CloseDrains
  <2>1. queue[Route(j)] = <<>> /\ running[Route(j)] = NoJob
    BY DEF ExitOK
  <2>2. pos[j] > 0
    BY DEF JobOK
  <2>3. running[Route(j)] # j
    BY <2>1, PoolAssumption
  <2>4. \A a \in 1 .. Len(queue[Route(j)]) : queue[Route(j)][a] # j
    BY <2>1
  <2> QED
    BY <2>2, <2>3, <2>4 DEF Located
<1> QED
  BY <1>1, <1>2, <1>3

(* FR-010, pool.go:26-28: a job starts only when every job its customer got  *)
(* accepted before it is over.                                              *)
THEOREM CustomerFifoHolds == Spec => []CustomerFifo
  BY Invariance, InvImpliesSafety, PTL

(* pool.go:79-82: a job runs at most once, and only if Submit said so.       *)
THEOREM ResultIsTruthHolds == Spec => []ResultIsTruth
  BY Invariance, InvImpliesSafety, PTL

(* pool.go:99-100: Close returns after every accepted job is over.           *)
THEOREM CloseDrainsHolds == Spec => []CloseDrains
  BY Invariance, InvImpliesSafety, PTL
-----------------------------------------------------------------------------
(***************************************************************************)
(* The lanes.  A customer's lane is its part of the channel it shares, so  *)
(* what is to show is how that part changes when a job comes in at the end *)
(* of the channel, or goes out at its head.                                *)
(***************************************************************************)

\* The parts of s that a customer has in its prefixes.
Parts(f, s, c) ==
  /\ f \in [0 .. Len(s) -> Seq(Jobs)]
  /\ f[0] = <<>>
  /\ \A n \in 1 .. Len(s) :
       f[n] = IF CustomerOf[s[n]] = c THEN Append(f[n - 1], s[n]) ELSE f[n - 1]

(* The loop of OfCustomer goes through them.                                *)
LEMMA PartsRun ==
  ASSUME NEW s \in Seq(Jobs), NEW c
  PROVE  \E f : Parts(f, s, c) /\ OfCustomer(s, c) = f[Len(s)]
<1> DEFINE N == Len(s)
           step == [n \in 0 .. N |-> [q \in Seq(Jobs) |->
                      IF n # 0 /\ CustomerOf[s[n]] = c THEN Append(q, s[n]) ELSE q]]
           Body(f, n) == IF n = 0 THEN <<>>
                         ELSE IF CustomerOf[s[n]] = c THEN Append(f[n - 1], s[n])
                         ELSE f[n - 1]
           IsLoop(f) == f = [n \in 0 .. N |-> Body(f, n)]
<1>1. N \in Nat /\ 0 \in Nat /\ 0 <= N /\ <<>> \in Seq(Jobs)
  OBVIOUS
<1>2. step \in [0 .. N -> [Seq(Jobs) -> Seq(Jobs)]]
  <2> SUFFICES ASSUME NEW n \in 0 .. N, NEW q \in Seq(Jobs), n # 0
               PROVE  Append(q, s[n]) \in Seq(Jobs)
    OBVIOUS
  <2>1. s[n] \in Jobs
    BY ElementOfSeq
  <2> QED
    BY <2>1, AppendProperties
<1>3. HasRun(0, N, Seq(Jobs), <<>>, step)
  <2> HIDE DEF step, N
  <2> QED
    BY <1>1, <1>2, IntervalRecursion
<1>4. PICK run \in [0 .. N -> Seq(Jobs)] : IsRun(run, 0, N, <<>>, step)
  BY <1>3 DEF HasRun
<1>5. run[0] = <<>>
  BY <1>4 DEF IsRun
<1>6. ASSUME NEW n \in 1 .. N
      PROVE  run[n] = IF CustomerOf[s[n]] = c THEN Append(run[n - 1], s[n])
                      ELSE run[n - 1]
  <2>1. run[n] = step[n][run[n - 1]] /\ run[n - 1] \in Seq(Jobs)
    <3> HIDE DEF step, N
    <3> QED
      BY <1>1, <1>4 DEF IsRun
  <2> QED
    BY <2>1
<1>7. IsLoop(run)
  <2>1. ASSUME NEW n \in 0 .. N
        PROVE  run[n] = Body(run, n)
    <3>1. CASE n = 0
      BY <1>5, <3>1
    <3>2. CASE n # 0
      <4>1. n \in 1 .. N
        BY <1>1, <3>2
      <4> HIDE DEF N
      <4> QED
        BY <1>6, <3>2, <4>1, Zenon
    <3> QED
      BY <3>1, <3>2
  <2> HIDE DEF Body
  <2> QED
    BY <2>1
<1> DEFINE f == CHOOSE g : IsLoop(g)
<1>8. IsLoop(f)
  <2> HIDE DEF IsLoop
  <2> QED
    BY <1>7
<1>9. OfCustomer(s, c) = f[N]
  BY DEF OfCustomer
<1> HIDE DEF f
<1>10. /\ f[0] = <<>> /\ f = [n \in 0 .. N |-> f[n]]
       /\ \A n \in 1 .. N :
            f[n] = IF CustomerOf[s[n]] = c THEN Append(f[n - 1], s[n]) ELSE f[n - 1]
  <2>1. f = [n \in 0 .. N |-> f[n]] /\ \A n \in 0 .. N : f[n] = Body(f, n)
    <3> HIDE DEF Body
    <3> QED
      BY <1>8
  <2>2. 0 \in 0 .. N /\ \A n \in 1 .. N : n \in 0 .. N /\ n # 0
    BY <1>1
  <2> HIDE DEF N
  <2> QED
    BY <2>1, <2>2, Zenon
<1> DEFINE Typed == {n \in 0 .. N : f[n] \in Seq(Jobs)}
<1>11. 0 .. N \subseteq Typed
  <2>1. 0 \in Typed
    BY <1>1, <1>10
  <2>2. ASSUME NEW n \in 0 + 1 .. N, n - 1 \in Typed
        PROVE  n \in Typed
    <3>1. s[n] \in Jobs /\ n \in 1 .. N /\ f[n - 1] \in Seq(Jobs)
      BY <2>2, ElementOfSeq
    <3>2. Append(f[n - 1], s[n]) \in Seq(Jobs)
      BY <3>1, AppendProperties
    <3>3. f[n] \in Seq(Jobs)
      BY <1>10, <3>1, <3>2
    <3> QED
      BY <3>1, <3>3
  <2> HIDE DEF Typed, N
  <2> QED
    BY <1>1, <2>1, <2>2, IntervalInduction
<1>12. Parts(f, s, c)
  BY <1>10, <1>11 DEF Parts
<1> QED
  BY <1>9, <1>12

(* A lane holds jobs.                                                       *)
LEMMA LaneType ==
  ASSUME NEW s \in Seq(Jobs), NEW c
  PROVE  OfCustomer(s, c) \in Seq(Jobs)
<1>1. PICK f : Parts(f, s, c) /\ OfCustomer(s, c) = f[Len(s)]
  BY PartsRun
<1> QED
  BY <1>1 DEF Parts

LEMMA LaneOfNone == \A c : OfCustomer(<<>>, c) = <<>>
<1> TAKE c
<1>1. <<>> \in Seq(Jobs) /\ Len(<<>>) = 0
  BY EmptySeq
<1>2. PICK f : Parts(f, <<>>, c) /\ OfCustomer(<<>>, c) = f[Len(<<>>)]
  BY <1>1, PartsRun
<1> QED
  BY <1>1, <1>2 DEF Parts

(* A job that comes in goes to the end of its customer's lane.              *)
LEMMA LaneOfAppend ==
  ASSUME NEW s \in Seq(Jobs), NEW j \in Jobs, NEW c
  PROVE  OfCustomer(Append(s, j), c)
           = IF CustomerOf[j] = c THEN Append(OfCustomer(s, c), j)
             ELSE OfCustomer(s, c)
<1> DEFINE N == Len(s)
           t == Append(s, j)
<1>1. /\ t \in Seq(Jobs) /\ Len(t) = N + 1 /\ N \in Nat
      /\ t[N + 1] = j /\ \A n \in 1 .. N : t[n] = s[n]
  BY AppendProperties
<1>2. PICK f : Parts(f, s, c) /\ OfCustomer(s, c) = f[N]
  BY PartsRun
<1> HIDE DEF t
<1>3. PICK g : Parts(g, t, c) /\ OfCustomer(t, c) = g[N + 1]
  BY <1>1, PartsRun
<1> DEFINE Same == {n \in 0 .. N : f[n] = g[n]}
<1>4. 0 .. N \subseteq Same
  <2>1. 0 \in Same
    BY <1>1, <1>2, <1>3 DEF Parts
  <2>2. ASSUME NEW n \in 0 + 1 .. N, n - 1 \in Same
        PROVE  n \in Same
    <3>1. n \in 1 .. N /\ n \in 1 .. Len(t)
      BY <1>1
    <3> QED
      BY <1>1, <1>2, <1>3, <2>2, <3>1 DEF Parts
  <2> HIDE DEF Same, N
  <2> QED
    BY <1>1, <2>1, <2>2, IntervalInduction DEF N
<1>5. f[N] = g[N]
  BY <1>1, <1>4
<1>6. N + 1 \in 1 .. Len(t) /\ N + 1 - 1 = N
  BY <1>1
<1>7. g[N + 1] = IF CustomerOf[t[N + 1]] = c THEN Append(g[N], t[N + 1]) ELSE g[N]
  BY <1>3, <1>6 DEF Parts
<1> QED
  BY <1>1, <1>2, <1>3, <1>5, <1>7 DEF t

(* The job at the head of the channel is the head of its customer's lane,   *)
(* and in no other.                                                         *)
LEMMA LaneOfTail ==
  ASSUME NEW s \in Seq(Jobs), s # <<>>, NEW c
  PROVE  LET lane == OfCustomer(s, c)
             rest == OfCustomer(Tail(s), c)
         IN  IF CustomerOf[Head(s)] = c
             THEN lane # <<>> /\ Head(lane) = Head(s) /\ Tail(lane) = rest
             ELSE lane = rest
<1> DEFINE N == Len(s) - 1
           t == Tail(s)
           Behind(q, r) == IF CustomerOf[s[1]] = c
                           THEN q # <<>> /\ Head(q) = s[1] /\ Tail(q) = r
                           ELSE q = r
<1>1. /\ t \in Seq(Jobs) /\ Len(t) = N /\ N \in Nat /\ N + 1 = Len(s)
      /\ Head(s) = s[1] /\ s[1] \in Jobs
      /\ \A n \in 1 .. N : t[n] = s[n + 1] /\ t[n] \in Jobs
  BY HeadTailProperties, EmptySeq, ElementOfSeq
<1> HIDE DEF t, N
<1>2. PICK f : Parts(f, s, c) /\ OfCustomer(s, c) = f[N + 1]
  BY <1>1, PartsRun
<1>3. PICK g : Parts(g, t, c) /\ OfCustomer(t, c) = g[N]
  BY <1>1, PartsRun
<1> DEFINE Good == {n \in 0 .. N : Behind(f[n + 1], g[n])}
<1>4. 0 \in Good
  <2>1. 1 \in 1 .. Len(s) /\ f[0] = <<>> /\ g[0] = <<>> /\ 0 \in 0 .. N
    BY <1>1, <1>2, <1>3 DEF Parts
  <2>2. f[0 + 1] = IF CustomerOf[s[1]] = c THEN Append(<<>>, s[1]) ELSE <<>>
    <3>1. 1 - 1 = 0 /\ 0 + 1 = 1
      OBVIOUS
    <3>2. f[1] = IF CustomerOf[s[1]] = c THEN Append(f[1 - 1], s[1]) ELSE f[1 - 1]
      BY <1>2, <2>1 DEF Parts
    <3> QED
      BY <2>1, <3>1, <3>2
  <2>3. <<>> \in Seq(Jobs)
    BY EmptySeq
  <2>4. /\ Append(<<>>, s[1]) # <<>> /\ Head(Append(<<>>, s[1])) = s[1]
        /\ Tail(Append(<<>>, s[1])) = <<>>
    BY <1>1, <2>3, AppendProperties, HeadTailAppend
  <2> QED
    BY <2>1, <2>2, <2>4, Zenon
<1>5. ASSUME NEW n \in 0 + 1 .. N, n - 1 \in Good
      PROVE  n \in Good
  <2>1. n \in 1 .. Len(t) /\ n + 1 \in 1 .. Len(s) /\ n + 1 - 1 = n /\ n - 1 + 1 = n
        /\ n - 1 \in 0 .. Len(t) /\ n \in 0 .. Len(s) /\ t[n] = s[n + 1] /\ t[n] \in Jobs
    BY <1>1
  <2>2. f[n] \in Seq(Jobs) /\ g[n - 1] \in Seq(Jobs)
    BY <1>2, <1>3, <2>1 DEF Parts
  <2>3. f[n + 1] = IF CustomerOf[t[n]] = c THEN Append(f[n], t[n]) ELSE f[n]
    BY <1>2, <2>1 DEF Parts
  <2>4. g[n] = IF CustomerOf[t[n]] = c THEN Append(g[n - 1], t[n]) ELSE g[n - 1]
    BY <1>3, <2>1 DEF Parts
  <2>5. Behind(f[n], g[n - 1])
    BY <1>5, <2>1
  <2>6. /\ Append(f[n], t[n]) # <<>>
        /\ f[n] # <<>> => /\ Head(Append(f[n], t[n])) = Head(f[n])
                          /\ Tail(Append(f[n], t[n])) = Append(Tail(f[n]), t[n])
    <3>1. t[n] \in Jobs /\ f[n] \in Seq(Jobs)
      BY <2>1, <2>2
    <3>2. Append(f[n], t[n]) # <<>>
      BY <3>1, AppendProperties
    <3>3. /\ Head(Append(f[n], t[n])) = IF f[n] = <<>> THEN t[n] ELSE Head(f[n])
          /\ Tail(Append(f[n], t[n])) = IF f[n] = <<>> THEN <<>>
                                        ELSE Append(Tail(f[n]), t[n])
      BY <3>1, HeadTailAppend
    <3> QED
      BY <3>2, <3>3, Zenon
  <2>7. Behind(f[n + 1], g[n])
    BY <2>3, <2>4, <2>5, <2>6
  <2> QED
    BY <2>1, <2>7
<1>6. Behind(f[N + 1], g[N])
  <2>1. 0 .. N \subseteq Good
    <3> HIDE DEF Good
    <3> QED
      BY <1>1, <1>4, <1>5, IntervalInduction
  <2> QED
    BY <1>1, <2>1
<1> QED
  BY <1>1, <1>2, <1>3, <1>6 DEF t

(* A customer is routed as its jobs are.                                    *)
LEMMA CustomerRoute ==
  /\ \A c \in Customers : WorkerIndex(c) \in Workers
  /\ \A j \in Jobs : CustomerOf[j] \in Customers /\ Route(j) = WorkerIndex(CustomerOf[j])
<1> USE PoolAssumption
<1>1. ASSUME NEW c \in Customers
      PROVE  WorkerIndex(c) \in Workers
  <2>1. NumWorkers \in Nat \ {0} /\ Hash[c] \in Nat
    BY RouteIsWorker
  <2>2. Hash[c] % NumWorkers \in 0 .. NumWorkers - 1
    BY <2>1
  <2> QED
    BY <2>2 DEF WorkerIndex, Workers
<1> QED
  BY <1>1 DEF Route

(* A step that does not touch the channels shows nothing.                   *)
LEMMA UnseenStep ==
  ASSUME UNCHANGED <<queue, running, pos, finished>>
  PROVE  UNCHANGED Lanes!lanesVars
BY DEF Lanes!lanesVars, Line, Busy, Accepted

(* A send is the acceptance of the job.                                     *)
LEMMA EnqueueRefines ==
  ASSUME Inv, NEW j \in Jobs, Enqueue(j)
  PROVE  Lanes!Accept(j)
<1> DEFINE r == Route(j)
<1>1. /\ r \in Workers /\ queue[r] \in Seq(Jobs) /\ pos[j] = 0 /\ clock \in Nat
      /\ r = WorkerIndex(CustomerOf[j]) /\ CustomerOf[j] \in Customers
  BY RouteIsWorker, CustomerRoute DEF Inv, TypeOK, JobOK, Enqueue
<1>2. /\ pos'[j] = clock + 1 /\ \A i \in Jobs \ {j} : pos'[i] = pos[i]
      /\ queue'[r] = Append(queue[r], j)
      /\ \A w \in Workers \ {r} : queue'[w] = queue[w]
      /\ UNCHANGED <<running, finished>>
  BY <1>1 DEF Enqueue, Inv, TypeOK
<1>3. j \notin Accepted /\ Accepted' = Accepted \cup {j}
  BY <1>1, <1>2 DEF Accepted
<1>4. ASSUME NEW c \in Customers
      PROVE  Line'[c] = IF c = CustomerOf[j] THEN Append(Line[c], j) ELSE Line[c]
  <2>1. /\ Line[c] = OfCustomer(queue[WorkerIndex(c)], c)
        /\ Line'[c] = OfCustomer(queue'[WorkerIndex(c)], c)
        /\ WorkerIndex(c) \in Workers
    BY CustomerRoute DEF Line
  <2>2. CASE WorkerIndex(c) = r
    <3>1. OfCustomer(Append(queue[r], j), c)
            = IF CustomerOf[j] = c THEN Append(OfCustomer(queue[r], c), j)
              ELSE OfCustomer(queue[r], c)
      BY <1>1, LaneOfAppend
    <3>2. Line[c] = OfCustomer(queue[r], c) /\ Line'[c] = OfCustomer(Append(queue[r], j), c)
      BY <1>2, <2>1, <2>2
    <3> QED
      BY <3>1, <3>2, Zenon
  <2>3. CASE WorkerIndex(c) # r
    BY <1>1, <1>2, <2>1, <2>3
  <2> QED
    BY <2>2, <2>3
<1>5. Line' = [Line EXCEPT ![CustomerOf[j]] = Append(@, j)]
  BY <1>4 DEF Line
<1>6. Busy' = Busy
  BY <1>2 DEF Busy
<1> QED
  BY <1>2, <1>3, <1>5, <1>6 DEF Lanes!Accept

(* A receive starts the job in its customer's lane.                         *)
LEMMA TakeRefines ==
  ASSUME Inv, NEW w \in Workers, Take(w)
  PROVE  \E c \in Customers : Lanes!Start(c) /\ Head(Line[c]) = Head(queue[w])
<1>0. PICK j, d : j = Head(queue[w]) /\ d = CustomerOf[j]
  OBVIOUS
<1>1. queue[w] \in Seq(Jobs) /\ queue[w] # <<>> /\ running[w] = NoJob
  BY DEF Inv, TypeOK, Take
<1>2. j \in Jobs /\ Len(queue[w]) \in Nat /\ 1 \in 1 .. Len(queue[w]) /\ j = queue[w][1]
  BY <1>0, <1>1, EmptySeq, HeadTailProperties
<1>3. Route(j) = w /\ d \in Customers /\ WorkerIndex(d) = w /\ j # NoJob
  BY <1>0, <1>2, CustomerRoute, PoolAssumption DEF Inv, QueueOK
<1>4. /\ running'[w] = j /\ \A v \in Workers \ {w} : running'[v] = running[v]
      /\ queue'[w] = Tail(queue[w]) /\ \A v \in Workers \ {w} : queue'[v] = queue[v]
      /\ UNCHANGED <<pos, finished>>
  BY <1>0 DEF Take, Inv, TypeOK
<1>5. ASSUME NEW c \in Customers
      PROVE  /\ c = d => /\ Line[c] # <<>> /\ Head(Line[c]) = j
                         /\ Line'[c] = Tail(Line[c])
                         /\ Busy[c] = NoJob /\ Busy'[c] = j
             /\ c # d => Line'[c] = Line[c] /\ Busy'[c] = Busy[c]
  <2>1. /\ Line[c] = OfCustomer(queue[WorkerIndex(c)], c)
        /\ Line'[c] = OfCustomer(queue'[WorkerIndex(c)], c)
        /\ Busy[c] = LET i == running[WorkerIndex(c)]
                     IN  IF i # NoJob /\ CustomerOf[i] = c THEN i ELSE NoJob
        /\ Busy'[c] = LET i == running'[WorkerIndex(c)]
                      IN  IF i # NoJob /\ CustomerOf[i] = c THEN i ELSE NoJob
        /\ WorkerIndex(c) \in Workers
    BY CustomerRoute DEF Line, Busy
  <2>2. CASE WorkerIndex(c) = w
    <3>1. IF d = c
          THEN Line[c] # <<>> /\ Head(Line[c]) = j /\ Tail(Line[c]) = Line'[c]
          ELSE Line[c] = Line'[c]
      BY <1>0, <1>1, <1>4, <2>1, <2>2, LaneOfTail
    <3>2. Busy[c] = NoJob /\ Busy'[c] = IF d = c THEN j ELSE NoJob
      BY <1>0, <1>1, <1>3, <1>4, <2>1, <2>2
    <3> QED
      BY <3>1, <3>2
  <2>3. CASE WorkerIndex(c) # w
    BY <1>3, <1>4, <2>1, <2>3
  <2> QED
    BY <2>2, <2>3
<1>6. /\ Line' = [Line EXCEPT ![d] = Tail(@)]
      /\ Busy' = [Busy EXCEPT ![d] = Head(Line[d])]
  <2>1. DOMAIN Line = Customers /\ DOMAIN Busy = Customers
        /\ Line' = [c \in Customers |-> Line'[c]] /\ Busy' = [c \in Customers |-> Busy'[c]]
        /\ Line = [c \in Customers |-> Line[c]] /\ Busy = [c \in Customers |-> Busy[c]]
    BY DEF Line, Busy
  <2> QED
    BY <1>3, <1>5, <2>1
<1>7. Accepted' = Accepted
  BY <1>4 DEF Accepted
<1>8. Lanes!Start(d)
  BY <1>3, <1>4, <1>5, <1>6, <1>7 DEF Lanes!Start
<1> QED
  BY <1>0, <1>3, <1>5, <1>8

(* A running job is the one its customer is busy with.                      *)
LEMMA RunningIsBusy ==
  ASSUME Inv, NEW w \in Workers, running[w] # NoJob
  PROVE  LET j == running[w]
         IN  j \in Jobs /\ CustomerOf[j] \in Customers /\ Busy[CustomerOf[j]] = j
<1>1. running[w] \in Jobs /\ Route(running[w]) = w
  BY DEF Inv, TypeOK, RunningOK
<1> QED
  BY <1>1, CustomerRoute DEF Busy

(* The end of a run is that of the job in its customer's lane.              *)
LEMMA FinishRefines ==
  ASSUME Inv, NEW w \in Workers, Finish(w)
  PROVE  \E c \in Customers : Lanes!End(c) /\ Busy[c] = running[w]
<1>0. PICK j, d : j = running[w] /\ d = CustomerOf[j]
  OBVIOUS
<1>1. j \in Jobs /\ j # NoJob /\ Route(j) = w
  BY <1>0 DEF Finish, Inv, TypeOK, RunningOK
<1>2. d \in Customers /\ WorkerIndex(d) = w
  BY <1>0, <1>1, CustomerRoute
<1>3. /\ running'[w] = NoJob /\ \A v \in Workers \ {w} : running'[v] = running[v]
      /\ finished' = finished \cup {j} /\ UNCHANGED <<queue, pos>>
  BY <1>0 DEF Finish, Inv, TypeOK
<1>4. ASSUME NEW c \in Customers
      PROVE  /\ c = d => Busy[c] = j /\ Busy'[c] = NoJob
             /\ c # d => Busy'[c] = Busy[c]
  <2>1. /\ Busy[c] = LET i == running[WorkerIndex(c)]
                     IN  IF i # NoJob /\ CustomerOf[i] = c THEN i ELSE NoJob
        /\ Busy'[c] = LET i == running'[WorkerIndex(c)]
                      IN  IF i # NoJob /\ CustomerOf[i] = c THEN i ELSE NoJob
        /\ WorkerIndex(c) \in Workers
    BY CustomerRoute DEF Busy
  <2> QED
    BY <1>0, <1>1, <1>2, <1>3, <2>1
<1>5. Busy' = [Busy EXCEPT ![d] = NoJob]
  <2>1. /\ Busy' = [c \in Customers |-> Busy'[c]]
        /\ Busy = [c \in Customers |-> Busy[c]]
    BY DEF Busy
  <2> QED
    BY <1>2, <1>4, <2>1
<1>6. Line' = Line /\ Accepted' = Accepted
  BY <1>3 DEF Line, Accepted
<1>7. Lanes!End(d)
  BY <1>1, <1>2, <1>3, <1>4, <1>5, <1>6 DEF Lanes!End
<1> QED
  BY <1>0, <1>2, <1>4, <1>7

LEMMA InitRefines == Init => Lanes!LanesInit
<1> SUFFICES ASSUME Init
             PROVE  Lanes!LanesInit
  OBVIOUS
<1>1. \A w \in Workers : queue[w] = <<>> /\ running[w] = NoJob
  BY DEF Init
<1>2. \A c \in Customers : OfCustomer(queue[WorkerIndex(c)], c) = <<>>
  BY <1>1, CustomerRoute, LaneOfNone
<1> QED
  BY <1>1, <1>2, CustomerRoute DEF Init, Lanes!LanesInit, Line, Busy, Accepted

LEMMA StepRefines == Inv /\ [Next]_poolVars => [Lanes!LanesNext]_(Lanes!lanesVars)
<1> SUFFICES ASSUME Inv, [Next]_poolVars
             PROVE  [Lanes!LanesNext]_(Lanes!lanesVars)
  OBVIOUS
<1>1. ASSUME NEW j \in Jobs, Enqueue(j)
      PROVE  Lanes!LanesNext
  BY <1>1, EnqueueRefines DEF Lanes!LanesNext
<1>2. ASSUME NEW w \in Workers, Take(w)
      PROVE  Lanes!LanesNext
  BY <1>2, TakeRefines DEF Lanes!LanesNext
<1>3. ASSUME NEW w \in Workers, Finish(w)
      PROVE  Lanes!LanesNext
  BY <1>3, FinishRefines DEF Lanes!LanesNext
<1>4. CASE UNCHANGED <<queue, running, pos, finished>>
  BY <1>4, UnseenStep
<1> QED
  BY <1>1, <1>2, <1>3, <1>4
     DEF Next, SubmitStep, WorkerStep, CloseStep, Call, Cancel, Drop, SendOnClosed, Exit,
         BeginClose, CloseQueue, CloseReturns, poolVars

(* pool.go:1-4, 26-28: whatever the hash, the number of workers and the     *)
(* capacity, customers that share a channel do not notice one another:      *)
(* every behaviour of the pool is one of a private FIFO lane per customer   *)
(* (the safety part of ImplementsLanes).                                    *)
THEOREM RunsInLanes ==
  Spec => Lanes!LanesInit /\ [][Lanes!LanesNext]_(Lanes!lanesVars)
BY InitRefines, StepRefines, Invariance, PTL DEF Spec
=============================================================================
