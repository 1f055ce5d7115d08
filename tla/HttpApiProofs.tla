---------------------------- MODULE HttpApiProofs ----------------------------
(***************************************************************************)
(* Proofs about HttpApi, for any requests, items, hash, workers, outcomes  *)
(* and clients that leave: the WaitGroup of a batch counts its open jobs   *)
(* and its summary is exact; then, over what PoolProofs proves of the      *)
(* pool, that the items of a batch run in array order, that /metrics adds  *)
(* up, that a shutdown in time loses nothing, and that the whole behaves   *)
(* as SequentialDetector.                                                  *)
(***************************************************************************)
EXTENDS HttpApi, SequenceTheorems, FiniteSetTheorems, TLAPS

Workers == Dispatch!Workers
CallerState == {"idle", "sending", "true", "false", "panicked"}
ClosureState == {"process", "record", "done", "return"}

(* The types of what the handlers and the closures share.                   *)
Types ==
  /\ caller \in [Jobs -> CallerState]
  /\ queue \in [Workers -> Seq(Jobs)]
  /\ running \in [Workers -> Jobs \cup {NoJob}]
  /\ closure \in [Jobs -> ClosureState]
  /\ DOMAIN outcome = Jobs
  /\ next \in [Requests -> Nat \ {0}]
  /\ wg \in [Requests -> Int]
  /\ DOMAIN summary = Requests
  /\ DOMAIN answer = Requests

(* Only jobs that Submit accepted get to a worker, and only there does a    *)
(* closure begin.                                                           *)
AcceptedOK ==
  /\ \A w \in Workers : \A i \in 1 .. Len(queue[w]) : caller[queue[w][i]] = "true"
  /\ \A w \in Workers : running[w] # NoJob => caller[running[w]] = "true"
  /\ \A j \in Jobs : closure[j] # "process" => caller[j] = "true"
  /\ \A j \in Jobs : closure[j] = "process" <=> outcome[j] = Undecided

(* Submit returned for the items a handler is past.                         *)
SubmittedOK ==
  \A r \in Requests : \A i \in 1 .. Len(Items[r]) :
    i < next[r] => caller[Items[r][i]] \in {"true", "false"}

(* The jobs that a batch did wg.Add for and that did not call wg.Done: a    *)
(* Submit that panicked leaves its own behind, with the handler gone.       *)
OpenJobs(r) == {j \in JobsOf(r) : caller[j] \notin {"idle", "false"} /\ closure[j] # "return"}

(* The jobs of a batch whose closure added to the totals.                   *)
Totalled(r) == {j \in JobsOf(r) : closure[j] = "return" /\ HasVerdict(outcome[j])}

CountsOK ==
  \A r \in Batch : /\ wg[r] = Cardinality(OpenJobs(r))
                   /\ summary[r] = Count(Totalled(r))

AnswersOK ==
  \A r \in Batch : answer[r] = "summary" =>
    \A j \in JobsOf(r) : caller[j] = "false" \/ (caller[j] = "true" /\ closure[j] = "return")

Inv == Types /\ AcceptedOK /\ SubmittedOK /\ CountsOK /\ AnswersOK

-----------------------------------------------------------------------------
LEMMA ItemsTyped ==
  /\ \A r \in Requests : /\ Items[r] \in Seq(Jobs)
                         /\ Len(Items[r]) \in Nat
                         /\ DOMAIN Items[r] = 1 .. Len(Items[r])
                         /\ \A i \in 1 .. Len(Items[r]) : Items[r][i] \in JobsOf(r)
                         /\ \A j \in JobsOf(r) : \E i \in 1 .. Len(Items[r]) : Items[r][i] = j
                         /\ JobsOf(r) \subseteq Jobs
  /\ \A r, q \in Requests : JobsOf(r) \cap JobsOf(q) # {} => r = q
<1>1. ASSUME NEW r \in Requests
      PROVE  /\ Items[r] \in Seq(Jobs)
             /\ Len(Items[r]) \in Nat
             /\ DOMAIN Items[r] = 1 .. Len(Items[r])
             /\ \A i \in 1 .. Len(Items[r]) : Items[r][i] \in JobsOf(r)
             /\ \A j \in JobsOf(r) : \E i \in 1 .. Len(Items[r]) : Items[r][i] = j
             /\ JobsOf(r) \subseteq Jobs
  <2>1. Items[r] \in Seq(Jobs)
    BY HttpAssumption
  <2> QED
    BY <2>1, LenProperties, ElementOfSeq DEF JobsOf, ToSet
<1>2. ASSUME NEW r \in Requests, NEW q \in Requests, JobsOf(r) \cap JobsOf(q) # {}
      PROVE  r = q
  BY <1>2, HttpAssumption DEF JobsOf, ToSet
<1> QED
  BY <1>1, <1>2

LEMMA JobsFinite ==
  ASSUME NEW r \in Requests
  PROVE  IsFiniteSet(JobsOf(r))
<1>1. IsFiniteSet(1 .. Len(Items[r]))
  BY ItemsTyped, FS_Interval
<1>2. Items[r] \in Surjection(1 .. Len(Items[r]), JobsOf(r))
  BY ItemsTyped DEF Surjection, JobsOf, ToSet
<1> QED
  BY <1>1, <1>2, FS_Surjection

LEMMA BatchIsRequest == \A r \in Batch : r \in Requests /\ JobsOf(r) \subseteq Jobs
BY ItemsTyped, HttpAssumption

(* One more verdict in the totals.                                          *)
LEMMA CountOneMore ==
  ASSUME NEW js, IsFiniteSet(js), NEW j, j \notin js
  PROVE  Count(js \cup {j}) = WithVerdict(Count(js), outcome[j])
<1> DEFINE dups(S) == {i \in S : outcome[i].kind = "duplicate"}
           parts(S) == {i \in S : outcome[i].partial}
           alrts(S) == {i \in S : outcome[i].kind = "alert"}
<1>1. /\ Cardinality(js \cup {j}) = Cardinality(js) + 1
      /\ Cardinality(js) \in Nat
  BY FS_AddElement, FS_CardinalityType
<1>2. /\ IsFiniteSet(dups(js)) /\ IsFiniteSet(parts(js)) /\ IsFiniteSet(alrts(js))
  <2>1. dups(js) \in SUBSET js /\ parts(js) \in SUBSET js /\ alrts(js) \in SUBSET js
    OBVIOUS
  <2> HIDE DEF dups, parts, alrts
  <2> QED
    BY <2>1, FS_Subset
<1>3. /\ Cardinality(dups(js)) \in Nat /\ Cardinality(parts(js)) \in Nat
      /\ Cardinality(alrts(js)) \in Nat
  BY <1>2, FS_CardinalityType
<1>4. Cardinality(dups(js \cup {j})) =
        Cardinality(dups(js)) + (IF outcome[j].kind = "duplicate" THEN 1 ELSE 0)
  <2>1. CASE outcome[j].kind = "duplicate"
    <3>1. dups(js \cup {j}) = dups(js) \cup {j} /\ j \notin dups(js)
      BY <2>1
    <3> HIDE DEF dups
    <3> QED
      BY <1>2, <1>3, <2>1, <3>1, FS_AddElement
  <2>2. CASE outcome[j].kind # "duplicate"
    <3>1. dups(js \cup {j}) = dups(js)
      BY <2>2
    <3> HIDE DEF dups
    <3> QED
      BY <1>3, <2>2, <3>1
  <2> QED
    BY <2>1, <2>2
<1>5. Cardinality(parts(js \cup {j})) =
        Cardinality(parts(js)) + (IF outcome[j].partial THEN 1 ELSE 0)
  <2>1. CASE outcome[j].partial
    <3>1. parts(js \cup {j}) = parts(js) \cup {j} /\ j \notin parts(js)
      BY <2>1
    <3> HIDE DEF parts
    <3> QED
      BY <1>2, <1>3, <2>1, <3>1, FS_AddElement
  <2>2. CASE ~outcome[j].partial
    <3>1. parts(js \cup {j}) = parts(js)
      BY <2>2
    <3> HIDE DEF parts
    <3> QED
      BY <1>3, <2>2, <3>1
  <2> QED
    BY <2>1, <2>2
<1>6. Cardinality(alrts(js \cup {j})) =
        Cardinality(alrts(js)) + (IF outcome[j].kind = "alert" THEN 1 ELSE 0)
  <2>1. CASE outcome[j].kind = "alert"
    <3>1. alrts(js \cup {j}) = alrts(js) \cup {j} /\ j \notin alrts(js)
      BY <2>1
    <3> HIDE DEF alrts
    <3> QED
      BY <1>2, <1>3, <2>1, <3>1, FS_AddElement
  <2>2. CASE outcome[j].kind # "alert"
    <3>1. alrts(js \cup {j}) = alrts(js)
      BY <2>2
    <3> HIDE DEF alrts
    <3> QED
      BY <1>3, <2>2, <3>1
  <2> QED
    BY <2>1, <2>2
<1> QED
  BY <1>1, <1>4, <1>5, <1>6 DEF Count, WithVerdict

-----------------------------------------------------------------------------
LEMMA InitInv == Init => Inv
<1> SUFFICES ASSUME Init
             PROVE  Inv
  OBVIOUS
<1> USE DEF Init, Dispatch!Init, DetectorInit
<1>1. Types
  <2>1. \A w \in Workers : queue[w] = <<>> /\ queue[w] \in Seq(Jobs)
    BY EmptySeq DEF Workers
  <2> QED
    BY <2>1 DEF Types, Workers, CallerState, ClosureState
<1>2. AcceptedOK
  BY EmptySeq DEF AcceptedOK, Workers
<1>3. SubmittedOK
  BY ItemsTyped DEF SubmittedOK
<1>4. CountsOK
  <2> SUFFICES ASSUME NEW r \in Batch
               PROVE  wg[r] = Cardinality(OpenJobs(r)) /\ summary[r] = Count(Totalled(r))
    BY DEF CountsOK
  <2>1. r \in Requests /\ OpenJobs(r) = {} /\ Totalled(r) = {}
    BY BatchIsRequest DEF OpenJobs, Totalled
  <2>2. Count({}) = NoCounts
    BY FS_EmptySet DEF Count, NoCounts
  <2> QED
    BY <2>1, <2>2, FS_EmptySet
<1>5. AnswersOK
  BY BatchIsRequest DEF AnswersOK, NoAnswer
<1> QED
  BY <1>1, <1>2, <1>3, <1>4, <1>5 DEF Inv

(* The same jobs are open and totalled.                                     *)
LEMMA SameCounts ==
  ASSUME Inv, UNCHANGED <<outcome, wg, summary>>,
         \A r \in Batch : OpenJobs(r)' = OpenJobs(r) /\ Totalled(r)' = Totalled(r)
  PROVE  CountsOK'
BY DEF Inv, CountsOK, Count

(* Neither the jobs nor the counts move: a handler begins or returns, a     *)
(* client leaves, the process stops.                                        *)
LEMMA QuietInv ==
  ASSUME Inv, UNCHANGED <<caller, queue, running, closure, outcome, next, wg, summary>>,
         DOMAIN answer' = Requests,
         \A r \in Batch : answer'[r] = "summary" => answer[r] = "summary"
  PROVE  Inv'
<1>1. Types' /\ AcceptedOK' /\ SubmittedOK' /\ AnswersOK'
  BY DEF Inv, Types, AcceptedOK, SubmittedOK, AnswersOK
<1>2. CountsOK'
  BY SameCounts DEF OpenJobs, Totalled
<1> QED
  BY <1>1, <1>2 DEF Inv

(* wg.Wait returns when no job is open, and by then Submit returned for all *)
(* of them.                                                                 *)
LEMMA SummarizeInv ==
  ASSUME Inv, NEW r \in Requests, Summarize(r)
  PROVE  Inv'
<1>1. /\ r \in Batch /\ next[r] > Len(Items[r]) /\ wg[r] = 0
      /\ UNCHANGED <<caller, queue, running, closure, outcome, next, wg, summary>>
      /\ answer' = [answer EXCEPT ![r] = "summary"]
  BY DEF Summarize, Submitted, Returns, poolVars, decisions
<1>2. Types' /\ AcceptedOK' /\ SubmittedOK'
  BY <1>1 DEF Inv, Types, AcceptedOK, SubmittedOK
<1>3. CountsOK'
  BY <1>1, SameCounts DEF OpenJobs, Totalled
<1>4. OpenJobs(r) = {}
  <2>1. IsFiniteSet(OpenJobs(r))
    BY JobsFinite, FS_Subset DEF OpenJobs
  <2> QED
    BY <1>1, <2>1, FS_EmptySet DEF Inv, CountsOK
<1>5. ASSUME NEW j \in JobsOf(r)
      PROVE  caller[j] = "false" \/ (caller[j] = "true" /\ closure[j] = "return")
  <2>1. PICK i \in 1 .. Len(Items[r]) : Items[r][i] = j
    BY ItemsTyped
  <2>2. i < next[r]
    BY <1>1, <2>1, ItemsTyped DEF Inv, Types
  <2>3. caller[j] \in {"true", "false"}
    BY <2>1, <2>2 DEF Inv, SubmittedOK
  <2> QED
    BY <1>4, <2>3 DEF OpenJobs
<1>6. AnswersOK'
  BY <1>1, <1>5 DEF Inv, Types, AnswersOK
<1> QED
  BY <1>2, <1>3, <1>6 DEF Inv

(* One call of Submit moves on: wg counts it from wg.Add on, and until a    *)
(* dropped job takes that back.                                             *)
LEMMA CallerCounts ==
  ASSUME Inv, NEW r \in Requests, NEW j \in JobsOf(r), NEW s \in CallerState,
         caller' = [caller EXCEPT ![j] = s],
         UNCHANGED <<closure, outcome, summary, answer>>,
         \/ /\ caller[j] = "idle" /\ s = "sending"
            /\ wg' = IF r \in Batch THEN [wg EXCEPT ![r] = @ + 1] ELSE wg
         \/ /\ caller[j] = "sending" /\ s = "false"
            /\ wg' = IF r \in Batch THEN [wg EXCEPT ![r] = @ - 1] ELSE wg
         \/ /\ caller[j] = "sending" /\ s \in {"true", "panicked"}
            /\ wg' = wg
  PROVE  /\ caller' \in [Jobs -> CallerState]
         /\ wg' \in [Requests -> Int]
         /\ \A i \in Jobs : caller[i] \in {"true", "false"} => caller'[i] = caller[i]
         /\ CountsOK' /\ AnswersOK'
<1>1. /\ j \in Jobs /\ closure[j] = "process" /\ caller'[j] = s
      /\ \A i \in Jobs \ {j} : caller'[i] = caller[i]
  BY ItemsTyped DEF Inv, Types, AcceptedOK
<1>2. /\ caller' \in [Jobs -> CallerState] /\ wg' \in [Requests -> Int]
      /\ \A q \in Requests \ {r} : wg'[q] = wg[q]
  <2>1. wg \in [Requests -> Int] /\ caller \in [Jobs -> CallerState]
    BY DEF Inv, Types
  <2>2. caller' \in [Jobs -> CallerState]
    BY <2>1
  <2>3. CASE wg' = wg
    BY <2>1, <2>2, <2>3
  <2>4. CASE wg' = [wg EXCEPT ![r] = @ + 1]
    BY <2>1, <2>2, <2>4
  <2>5. CASE wg' = [wg EXCEPT ![r] = @ - 1]
    BY <2>1, <2>2, <2>5
  <2> QED
    BY <2>3, <2>4, <2>5
<1>3. \A i \in Jobs : caller[i] \in {"true", "false"} => caller'[i] = caller[i]
  BY <1>1
<1>4. AnswersOK'
  BY <1>3, BatchIsRequest DEF Inv, AnswersOK
<1>5. ASSUME NEW q \in Batch
      PROVE  wg'[q] = Cardinality(OpenJobs(q)') /\ summary'[q] = Count(Totalled(q))'
  <2>1. Totalled(q)' = Totalled(q)
    BY DEF Totalled
  <2>2. summary'[q] = Count(Totalled(q))'
    BY <2>1 DEF Inv, CountsOK, Count
  <2>3. /\ q \in Requests /\ JobsOf(q) \subseteq Jobs
        /\ q # r => j \notin JobsOf(q)
    BY BatchIsRequest, ItemsTyped
  <2>4. /\ IsFiniteSet(OpenJobs(q)) /\ Cardinality(OpenJobs(q)) \in Nat
        /\ wg[q] = Cardinality(OpenJobs(q))
    BY <2>3, JobsFinite, FS_Subset, FS_CardinalityType DEF OpenJobs, Inv, CountsOK
  <2>5. CASE q # r \/ (caller[j] = "sending" /\ s \in {"true", "panicked"})
    <3>1. OpenJobs(q)' = OpenJobs(q)
      BY <1>1, <2>3, <2>5 DEF OpenJobs
    <3>2. wg'[q] = wg[q]
      BY <1>2, <2>3, <2>5
    <3> QED
      BY <2>2, <2>4, <3>1, <3>2
  <2>6. CASE q = r /\ caller[j] = "idle" /\ s = "sending"
    <3>1. OpenJobs(q)' = OpenJobs(q) \cup {j} /\ j \notin OpenJobs(q)
      BY <1>1, <2>3, <2>6 DEF OpenJobs
    <3>2. wg'[q] = wg[q] + 1
      BY <2>3, <2>6 DEF Inv, Types
    <3> QED
      BY <2>2, <2>4, <3>1, <3>2, FS_AddElement
  <2>7. CASE q = r /\ caller[j] = "sending" /\ s = "false"
    <3>1. OpenJobs(q)' = OpenJobs(q) \ {j} /\ j \in OpenJobs(q)
      BY <1>1, <2>3, <2>7 DEF OpenJobs
    <3>2. wg'[q] = wg[q] - 1
      BY <2>3, <2>7 DEF Inv, Types
    <3> QED
      BY <2>2, <2>4, <3>1, <3>2, FS_RemoveElement
  <2> QED
    BY <2>5, <2>6, <2>7
<1> QED
  BY <1>2, <1>3, <1>4, <1>5 DEF CountsOK

(* The four outcomes of a handler's Submit.                                 *)
LEMMA SubmitInv ==
  ASSUME Inv, NEW r \in Requests,
         Submit(r) \/ Enqueued(r) \/ Dropped(r) \/ Panics(r)
  PROVE  Inv'
<1> DEFINE j == Item(r)
<1>1. /\ j \in JobsOf(r) /\ j \in Jobs /\ j = Items[r][next[r]]
      /\ next[r] \in 1 .. Len(Items[r])
  <2>1. next[r] \in 1 .. Len(Items[r])
    BY ItemsTyped DEF Submit, Enqueued, Dropped, Panics, Submitting, Inv, Types
  <2> QED
    BY <2>1, ItemsTyped DEF Item
<1>2. /\ UNCHANGED <<closure, outcome, summary, answer, running>>
      /\ queue' = queue \/ \E w : /\ queue' = [queue EXCEPT ![w] = Append(@, j)]
                                  /\ caller' = [caller EXCEPT ![j] = "true"]
      /\ \/ /\ caller[j] = "idle" /\ caller' = [caller EXCEPT ![j] = "sending"]
            /\ next' = next
            /\ wg' = IF r \in Batch THEN [wg EXCEPT ![r] = @ + 1] ELSE wg
         \/ /\ caller[j] = "sending" /\ caller' = [caller EXCEPT ![j] = "false"]
            /\ next' = [next EXCEPT ![r] = @ + 1]
            /\ wg' = IF r \in Batch THEN [wg EXCEPT ![r] = @ - 1] ELSE wg
         \/ /\ caller[j] = "sending" /\ caller' = [caller EXCEPT ![j] = "true"]
            /\ next' = [next EXCEPT ![r] = @ + 1]
            /\ wg' = wg
         \/ /\ caller[j] = "sending" /\ caller' = [caller EXCEPT ![j] = "panicked"]
            /\ next' = next
            /\ wg' = wg
  <2>1. CASE Submit(r)
    BY <2>1 DEF Submit, Dispatch!Call, decisions, handlers
  <2>2. CASE Enqueued(r)
    BY <2>2 DEF Enqueued, Dispatch!Enqueue, decisions
  <2>3. CASE Dropped(r)
    BY <2>3 DEF Dropped, Dispatch!Drop, decisions
  <2>4. CASE Panics(r)
    BY <2>4 DEF Panics, Dispatch!SendOnClosed, decisions
  <2> QED
    BY <2>1, <2>2, <2>3, <2>4
<1> HIDE DEF j
<1>3. /\ caller' \in [Jobs -> CallerState]
      /\ wg' \in [Requests -> Int]
      /\ \A i \in Jobs : caller[i] \in {"true", "false"} => caller'[i] = caller[i]
      /\ CountsOK' /\ AnswersOK'
  BY <1>1, <1>2, CallerCounts DEF CallerState
<1>4. /\ queue' \in [Workers -> Seq(Jobs)]
      /\ \A w \in Workers : \A i \in 1 .. Len(queue'[w]) : caller'[queue'[w][i]] = "true"
  <2>1. CASE queue' = queue
    <3>1. \A w \in Workers : \A i \in 1 .. Len(queue[w]) : queue[w][i] \in Jobs
      BY ElementOfSeq DEF Inv, Types
    <3> QED
      BY <1>3, <2>1, <3>1 DEF Inv, Types, AcceptedOK
  <2>2. ASSUME NEW v, queue' = [queue EXCEPT ![v] = Append(@, j)],
               caller' = [caller EXCEPT ![j] = "true"]
        PROVE  /\ queue' \in [Workers -> Seq(Jobs)]
               /\ \A w \in Workers : \A i \in 1 .. Len(queue'[w]) : caller'[queue'[w][i]] = "true"
    <3>1. queue \in [Workers -> Seq(Jobs)] /\ caller'[j] = "true"
      BY <1>1, <2>2 DEF Inv, Types
    <3>2. ASSUME NEW w \in Workers
          PROVE  /\ queue'[w] \in Seq(Jobs)
                 /\ \A i \in 1 .. Len(queue'[w]) :
                      queue'[w][i] = j \/ (\E k \in 1 .. Len(queue[w]) : queue'[w][i] = queue[w][k])
      <4>1. queue[w] \in Seq(Jobs)
        BY <3>1
      <4>2. CASE w = v
        <5>1. queue'[w] = Append(queue[w], j)
          BY <2>2, <3>1, <4>2
        <5> QED
          BY <1>1, <4>1, <5>1, AppendProperties, LenProperties
      <4>3. CASE w # v
        BY <2>2, <3>1, <4>3
      <4> QED
        BY <4>2, <4>3
    <3>3. \A w \in Workers : \A i \in 1 .. Len(queue[w]) : queue[w][i] \in Jobs
      BY <3>1, ElementOfSeq
    <3>4. queue' \in [Workers -> Seq(Jobs)]
      BY <2>2, <3>1, <3>2
    <3>5. \A w \in Workers : \A k \in 1 .. Len(queue[w]) : caller'[queue[w][k]] = "true"
      BY <1>3, <3>3 DEF Inv, AcceptedOK
    <3>6. \A w \in Workers : \A i \in 1 .. Len(queue'[w]) : caller'[queue'[w][i]] = "true"
      BY <3>1, <3>2, <3>5
    <3> QED
      BY <3>4, <3>6
  <2> QED
    BY <1>2, <2>1, <2>2
<1>5. AcceptedOK'
  BY <1>2, <1>3, <1>4 DEF Inv, Types, AcceptedOK
<1>6. next' \in [Requests -> Nat \ {0}]
  BY <1>2 DEF Inv, Types
<1>7. Types'
  BY <1>2, <1>3, <1>4, <1>6 DEF Inv, Types
<1>8. SubmittedOK'
  <2> SUFFICES ASSUME NEW q \in Requests, NEW i \in 1 .. Len(Items[q]), i < next'[q]
               PROVE  caller'[Items[q][i]] \in {"true", "false"}
    BY DEF SubmittedOK
  <2>1. Items[q][i] \in Jobs /\ i \in Nat
    BY ItemsTyped
  <2>2. CASE i < next[q]
    BY <1>3, <2>1, <2>2 DEF Inv, SubmittedOK
  <2>3. CASE ~(i < next[q])
    <3>1. q = r /\ i = next[r] /\ caller' \in {[caller EXCEPT ![j] = "true"], [caller EXCEPT ![j] = "false"]}
      BY <1>2, <2>1, <2>3 DEF Inv, Types
    <3> QED
      BY <1>1, <3>1 DEF Inv, Types
  <2> QED
    BY <2>2, <2>3
<1> QED
  BY <1>3, <1>5, <1>7, <1>8 DEF Inv

(* A worker takes a job or is done with one.                                *)
LEMMA WorkerInv ==
  ASSUME Inv, NEW w \in Workers, Take(w) \/ Finish(w)
  PROVE  Inv'
<1>1. /\ UNCHANGED <<caller, closure, outcome, next, wg, summary, answer>>
      /\ \/ /\ queue[w] # <<>>
            /\ running' = [running EXCEPT ![w] = Head(queue[w])]
            /\ queue' = [queue EXCEPT ![w] = Tail(@)]
         \/ /\ running' = [running EXCEPT ![w] = NoJob]
            /\ queue' = queue
  BY DEF Take, Finish, Dispatch!Take, Dispatch!Finish, decisions, handlers
<1>2. queue \in [Workers -> Seq(Jobs)] /\ running \in [Workers -> Jobs \cup {NoJob}]
  BY DEF Inv, Types
<1>3. SubmittedOK' /\ AnswersOK'
  BY <1>1 DEF Inv, SubmittedOK, AnswersOK
<1>4. CountsOK'
  BY <1>1, SameCounts DEF OpenJobs, Totalled
<1>5. Types' /\ AcceptedOK'
  <2>1. CASE queue' = queue /\ running' = [running EXCEPT ![w] = NoJob]
    BY <1>1, <1>2, <2>1 DEF Inv, Types, AcceptedOK
  <2>2. CASE /\ queue[w] # <<>>
             /\ running' = [running EXCEPT ![w] = Head(queue[w])]
             /\ queue' = [queue EXCEPT ![w] = Tail(@)]
    <3>1. /\ Head(queue[w]) \in Jobs /\ Tail(queue[w]) \in Seq(Jobs)
          /\ 1 \in 1 .. Len(queue[w]) /\ Head(queue[w]) = queue[w][1]
          /\ \A i \in 1 .. Len(Tail(queue[w])) :
               i + 1 \in 1 .. Len(queue[w]) /\ Tail(queue[w])[i] = queue[w][i + 1]
      BY <1>2, <2>2
    <3>2. Types'
      BY <1>1, <1>2, <2>2, <3>1 DEF Inv, Types
    <3>3. \A v \in Workers \ {w} : queue'[v] = queue[v] /\ running'[v] = running[v]
      BY <1>2, <2>2
    <3>4. queue'[w] = Tail(queue[w]) /\ running'[w] = Head(queue[w])
      BY <1>2, <2>2
    <3>5. \A v \in Workers : \A i \in 1 .. Len(queue'[v]) : caller[queue'[v][i]] = "true"
      <4>1. \A v \in Workers : \A i \in 1 .. Len(queue[v]) : caller[queue[v][i]] = "true"
        BY DEF Inv, AcceptedOK
      <4>2. \A i \in 1 .. Len(queue'[w]) : caller[queue'[w][i]] = "true"
        BY <3>1, <3>4, <4>1
      <4>3. \A v \in Workers \ {w} :
              \A i \in 1 .. Len(queue'[v]) : caller[queue'[v][i]] = "true"
        BY <3>3, <4>1
      <4> QED
        BY <4>2, <4>3
    <3>6. \A v \in Workers : running'[v] # NoJob => caller[running'[v]] = "true"
      BY <3>1, <3>3, <3>4 DEF Inv, AcceptedOK
    <3> QED
      BY <1>1, <3>2, <3>5, <3>6 DEF Inv, AcceptedOK
  <2> QED
    BY <1>1, <2>1, <2>2
<1> QED
  BY <1>3, <1>4, <1>5 DEF Inv

LEMMA BatchOfJob ==
  ASSUME NEW r \in Batch, NEW j \in JobsOf(r)
  PROVE  InBatch(j) /\ \A q \in Batch \ {r} : j \notin JobsOf(q)
BY BatchIsRequest, ItemsTyped DEF InBatch

(* Process decides: the job stays open and is not in the totals yet.        *)
LEMMA ProcessInv ==
  ASSUME Inv, NEW w \in Workers, Process(w)
  PROVE  Inv'
<1> DEFINE j == running[w]
<1>1. /\ j \in Jobs /\ caller[j] = "true" /\ closure[j] = "process" /\ Detect(j)
      /\ closure' = [closure EXCEPT ![j] = IF ~InBatch(j) THEN "return"
                       ELSE IF HasVerdict(outcome'[j]) THEN "record" ELSE "done"]
      /\ UNCHANGED <<caller, queue, running, next, wg, summary, answer>>
  BY DEF Process, poolVars, handlers, Inv, Types, AcceptedOK
<1> HIDE DEF j
<1>2. PICK o : outcome' = [outcome EXCEPT ![j] = o] /\ o # Undecided
  <2>1. ASSUME NEW kind \in {"invalid", "duplicate", "error"}
        PROVE  Returned(kind) # Undecided
    BY DEF Returned, Undecided
  <2>2. CASE Refuse(j) \/ Discard(j) \/ Fail(j)
    BY <2>1, <2>2 DEF Refuse, Discard, Fail
  <2>3. CASE Decide(j)
    <3>1. PICK verdict \in Verdicts[j] : outcome' = [outcome EXCEPT ![j] = verdict]
      BY <2>3 DEF Decide
    <3>2. verdict \in [kind : {"clean", "alert"}, partial : BOOLEAN]
      BY <1>1, <3>1, DetectorAssumption
    <3>3. verdict # Undecided
      BY <3>2 DEF Undecided
    <3> QED
      BY <3>1, <3>3
  <2> QED
    BY <1>1, <2>2, <2>3 DEF Detect
<1>3. /\ DOMAIN outcome' = Jobs /\ outcome'[j] = o
      /\ closure' \in [Jobs -> ClosureState] /\ closure'[j] # "process"
      /\ InBatch(j) => closure'[j] # "return"
      /\ \A i \in Jobs \ {j} : outcome'[i] = outcome[i] /\ closure'[i] = closure[i]
  BY <1>1, <1>2 DEF Inv, Types, ClosureState
<1>4. Types' /\ AcceptedOK' /\ SubmittedOK'
  BY <1>1, <1>2, <1>3 DEF Inv, Types, AcceptedOK, SubmittedOK
<1>5. ASSUME NEW r \in Batch
      PROVE  wg'[r] = Cardinality(OpenJobs(r)') /\ summary'[r] = Count(Totalled(r))'
  <2>1. JobsOf(r) \subseteq Jobs
    BY BatchIsRequest
  <2>2. j \in JobsOf(r) => closure'[j] # "return"
    BY <1>3, BatchOfJob
  <2>3. OpenJobs(r)' = OpenJobs(r)
    BY <1>1, <1>3, <2>1, <2>2 DEF OpenJobs
  <2>4. /\ Totalled(r)' = Totalled(r)
        /\ \A i \in Totalled(r) : outcome'[i] = outcome[i]
    BY <1>1, <1>3, <2>1, <2>2 DEF Totalled
  <2>5. Count(Totalled(r))' = Count(Totalled(r))
    <3>1. /\ {i \in Totalled(r) : outcome'[i].kind = "duplicate"}
               = {i \in Totalled(r) : outcome[i].kind = "duplicate"}
          /\ {i \in Totalled(r) : outcome'[i].partial} = {i \in Totalled(r) : outcome[i].partial}
          /\ {i \in Totalled(r) : outcome'[i].kind = "alert"}
               = {i \in Totalled(r) : outcome[i].kind = "alert"}
      BY <2>4
    <3> QED
      BY <2>4, <3>1 DEF Count
  <2> QED
    BY <1>1, <2>3, <2>5 DEF Inv, CountsOK
<1>6. AnswersOK'
  <2> SUFFICES ASSUME NEW r \in Batch, answer'[r] = "summary", NEW i \in JobsOf(r)
               PROVE  caller'[i] = "false" \/ (caller'[i] = "true" /\ closure'[i] = "return")
    BY DEF AnswersOK
  <2>1. caller[i] = "false" \/ (caller[i] = "true" /\ closure[i] = "return")
    BY <1>1 DEF Inv, AnswersOK
  <2>2. i # j /\ i \in Jobs
    BY <1>1, <2>1, BatchIsRequest
  <2> QED
    BY <1>1, <1>3, <2>1, <2>2
<1> QED
  BY <1>4, <1>5, <1>6 DEF Inv, CountsOK

(* h.record touches the metrics only.                                       *)
LEMMA RecordInv ==
  ASSUME Inv, NEW w \in Workers, Record(w)
  PROVE  Inv'
<1> DEFINE j == running[w]
<1>1. /\ j \in Jobs /\ closure[j] = "record"
      /\ closure' = [closure EXCEPT ![j] = "done"]
      /\ UNCHANGED <<caller, queue, running, outcome, next, wg, summary, answer>>
  BY DEF Record, poolVars, decisions, handlers, Inv, Types
<1> HIDE DEF j
<1>2. /\ closure' \in [Jobs -> ClosureState] /\ closure'[j] = "done"
      /\ \A i \in Jobs \ {j} : closure'[i] = closure[i]
  BY <1>1 DEF Inv, Types, ClosureState
<1>3. Types' /\ AcceptedOK' /\ SubmittedOK'
  <2>1. Types' /\ SubmittedOK'
    BY <1>1, <1>2 DEF Inv, Types, SubmittedOK
  <2>2. \A i \in Jobs : closure'[i] = "process" <=> closure[i] = "process"
    BY <1>1, <1>2
  <2>3. AcceptedOK'
    BY <1>1, <2>2 DEF Inv, AcceptedOK
  <2> QED
    BY <2>1, <2>3
<1>4. \A i \in Jobs : closure'[i] = "return" <=> closure[i] = "return"
  BY <1>1, <1>2
<1>5. AnswersOK'
  BY <1>1, <1>4, BatchIsRequest DEF Inv, AnswersOK
<1>6. \A r \in Batch : OpenJobs(r)' = OpenJobs(r) /\ Totalled(r)' = Totalled(r)
  BY <1>1, <1>4, BatchIsRequest DEF OpenJobs, Totalled
<1> QED
  BY <1>1, <1>3, <1>5, <1>6, SameCounts DEF Inv

(* The totals and wg.Done: the job is not open any more, and counted if it  *)
(* came to a verdict.                                                       *)
LEMMA DoneInv ==
  ASSUME Inv, NEW w \in Workers, Done(w)
  PROVE  Inv'
<1> DEFINE j == running[w]
<1>1. PICK r \in Batch :
        /\ j \in JobsOf(r) /\ closure[j] = "done"
        /\ closure' = [closure EXCEPT ![j] = "return"]
        /\ wg' = [wg EXCEPT ![r] = @ - 1]
        /\ summary' = IF HasVerdict(outcome[j])
                      THEN [summary EXCEPT ![r] = WithVerdict(@, outcome[j])]
                      ELSE summary
        /\ UNCHANGED <<caller, queue, running, outcome, next, answer>>
  BY DEF Done, poolVars, decisions, handlers
<1>2. j \in Jobs /\ caller[j] = "true" /\ r \in Requests
  BY <1>1, BatchIsRequest DEF Done, Inv, AcceptedOK
<1> HIDE DEF j
<1>3. /\ closure' \in [Jobs -> ClosureState] /\ closure'[j] = "return"
      /\ \A i \in Jobs \ {j} : closure'[i] = closure[i]
  BY <1>1, <1>2 DEF Inv, Types, ClosureState
<1>4. Types'
  BY <1>1, <1>2, <1>3 DEF Inv, Types
<1>5. AcceptedOK' /\ SubmittedOK'
  BY <1>1, <1>2, <1>3 DEF Inv, AcceptedOK, SubmittedOK
<1>6. AnswersOK'
  BY <1>1, <1>3, BatchIsRequest DEF Inv, AnswersOK
<1>7. ASSUME NEW q \in Batch
      PROVE  wg'[q] = Cardinality(OpenJobs(q)') /\ summary'[q] = Count(Totalled(q))'
  <2>1. /\ q \in Requests /\ JobsOf(q) \subseteq Jobs
        /\ q # r => j \notin JobsOf(q)
    BY <1>1, BatchIsRequest, BatchOfJob
  <2>2. /\ IsFiniteSet(OpenJobs(q)) /\ Cardinality(OpenJobs(q)) \in Nat
        /\ IsFiniteSet(Totalled(q))
        /\ wg[q] = Cardinality(OpenJobs(q)) /\ summary[q] = Count(Totalled(q))
    BY <2>1, JobsFinite, FS_Subset, FS_CardinalityType DEF OpenJobs, Totalled, Inv, CountsOK
  <2>3. Count(Totalled(q))' = Count(Totalled(q)')
    BY <1>1 DEF Count
  <2>4. CASE q # r
    <3>1. OpenJobs(q)' = OpenJobs(q) /\ Totalled(q)' = Totalled(q)
      BY <1>1, <1>3, <2>1, <2>4 DEF OpenJobs, Totalled
    <3>2. wg'[q] = wg[q] /\ summary'[q] = summary[q]
      BY <1>1, <2>1, <2>4 DEF Inv, Types
    <3> QED
      BY <2>2, <2>3, <3>1, <3>2
  <2>5. CASE q = r
    <3>1. OpenJobs(q)' = OpenJobs(q) \ {j} /\ j \in OpenJobs(q)
      BY <1>1, <1>2, <1>3, <2>1, <2>5 DEF OpenJobs
    <3>2. wg'[q] = wg[q] - 1
      BY <1>1, <2>1, <2>5 DEF Inv, Types
    <3>3. wg'[q] = Cardinality(OpenJobs(q)')
      BY <2>2, <3>1, <3>2, FS_RemoveElement
    <3>4. CASE HasVerdict(outcome[j])
      <4>1. Totalled(q)' = Totalled(q) \cup {j} /\ j \notin Totalled(q)
        BY <1>1, <1>2, <1>3, <2>1, <2>5, <3>4 DEF Totalled
      <4>2. summary'[q] = WithVerdict(summary[q], outcome[j])
        BY <1>1, <2>1, <2>5, <3>4 DEF Inv, Types
      <4>3. Count(Totalled(q) \cup {j}) = WithVerdict(Count(Totalled(q)), outcome[j])
        BY <2>2, <4>1, CountOneMore
      <4> QED
        BY <2>2, <2>3, <3>3, <4>1, <4>2, <4>3
    <3>5. CASE ~HasVerdict(outcome[j])
      <4>1. Totalled(q)' = Totalled(q)
        BY <1>1, <1>2, <1>3, <2>1, <2>5, <3>5 DEF Totalled
      <4>2. summary'[q] = summary[q]
        BY <1>1, <3>5
      <4> QED
        BY <2>2, <2>3, <3>3, <4>1, <4>2
    <3> QED
      BY <3>4, <3>5
  <2> QED
    BY <2>4, <2>5
<1> QED
  BY <1>4, <1>5, <1>6, <1>7 DEF Inv, CountsOK

-----------------------------------------------------------------------------
LEMMA StepInv == Inv /\ [Next]_vars => Inv'
<1> SUFFICES ASSUME Inv, [Next]_vars
             PROVE  Inv'
  OBVIOUS
<1>1. ASSUME NEW r \in Requests, Serve(r) \/ Leave(r)
      PROVE  Inv'
  BY <1>1, QuietInv DEF Serve, Leave, poolVars, decisions, handlers, Inv, Types
<1>2. ASSUME NEW r \in Requests, TakeOutcome(r) \/ GiveUp(r)
      PROVE  Inv'
  <2>1. /\ r \notin Batch /\ \E reply : answer' = [answer EXCEPT ![r] = reply]
        /\ UNCHANGED <<caller, queue, running, closure, outcome, next, wg, summary>>
    BY <1>2 DEF TakeOutcome, GiveUp, Returns, poolVars, decisions
  <2> QED
    BY <2>1, QuietInv DEF Inv, Types
<1>3. ASSUME NEW r \in Requests, HandlerStep(r)
      PROVE  Inv'
  BY <1>2, <1>3, SubmitInv, SummarizeInv DEF HandlerStep
<1>4. ASSUME NEW w \in Workers, WorkerStep(w)
      PROVE  Inv'
  <2>1. CASE Exit(w)
    BY <2>1, QuietInv DEF Exit, Dispatch!Exit, decisions, handlers, Inv, Types
  <2> QED
    BY <1>4, <2>1, WorkerInv, ProcessInv, RecordInv, DoneInv DEF WorkerStep
<1>5. CASE Shutdown \/ ListenFails \/ ShutdownStep
  <2>1. UNCHANGED <<caller, queue, running, closure, outcome, next, wg, summary, answer>>
    <3>1. CASE Close
      BY <3>1 DEF Close, Dispatch!BeginClose, api, decisions, handlers
    <3>2. CASE CloseStep
      BY <3>2 DEF CloseStep, Dispatch!CloseStep, Dispatch!CloseQueue, Dispatch!CloseReturns,
                  api, decisions, handlers
    <3> QED
      BY <1>5, <3>1, <3>2
         DEF Shutdown, ListenFails, ShutdownStep, Drained, DeadlinePasses, ProcessExits,
             poolVars, api, decisions, handlers
  <2> QED
    BY <2>1, QuietInv DEF Inv, Types
<1>6. CASE UNCHANGED vars
  BY <1>6, QuietInv DEF vars, poolVars, decisions, handlers, Inv, Types
<1> QED
  BY <1>1, <1>3, <1>4, <1>5, <1>6 DEF Next, Workers

(* Jobs, closures, WaitGroups and totals agree in every state: the          *)
(* inductive invariant behind the theorems below.                           *)
THEOREM Invariance == Spec => []Inv
BY InitInv, StepInv, PTL DEF Spec

(* FR-011, handlers.go:123-206: whatever else runs, panics, fails or leaves,*)
(* the summary of a batch is written when none of its jobs can touch it     *)
(* any more, and counts each item that came to a verdict, once.             *)
THEOREM SummaryIsExactHolds == Spec => []SummaryIsExact
<1>1. Inv => SummaryIsExact
  <2> SUFFICES ASSUME Inv, NEW r \in Batch, answer[r] = "summary"
               PROVE  /\ \A j \in JobsOf(r) : caller[j] = "false" \/ closure[j] = "return"
                      /\ summary[r] = Count({j \in JobsOf(r) : HasVerdict(outcome[j])})
    BY DEF SummaryIsExact
  <2>1. \A j \in JobsOf(r) : \/ caller[j] = "false"
                             \/ caller[j] = "true" /\ closure[j] = "return"
    BY DEF Inv, AnswersOK
  <2>2. ~HasVerdict(Undecided)
    BY DEF HasVerdict, Undecided
  <2>3. \A j \in JobsOf(r) : HasVerdict(outcome[j]) => closure[j] = "return"
    BY <2>1, <2>2, BatchIsRequest DEF Inv, AcceptedOK
  <2>4. Totalled(r) = {j \in JobsOf(r) : HasVerdict(outcome[j])}
    BY <2>3 DEF Totalled
  <2> QED
    BY <2>1, <2>4 DEF Inv, CountsOK
<1> QED
  BY <1>1, Invariance, PTL

(* wg.Add and wg.Done balance (handlers.go:145-191): the WaitGroup of a     *)
(* batch never goes negative, which would panic in a worker, and is zero    *)
(* only when each of its items is dropped, not submitted, or over.          *)
THEOREM WaitGroupBalances ==
  Spec => [](\A r \in Batch : /\ wg[r] \in Nat
                              /\ wg[r] = 0 => \A j \in JobsOf(r) :
                                   caller[j] \in {"idle", "false"} \/ closure[j] = "return")
<1>1. Inv => \A r \in Batch : /\ wg[r] \in Nat
                              /\ wg[r] = 0 => \A j \in JobsOf(r) :
                                   caller[j] \in {"idle", "false"} \/ closure[j] = "return"
  <2> SUFFICES ASSUME Inv, NEW r \in Batch
               PROVE  /\ wg[r] \in Nat
                      /\ wg[r] = 0 => \A j \in JobsOf(r) :
                           caller[j] \in {"idle", "false"} \/ closure[j] = "return"
    OBVIOUS
  <2>1. IsFiniteSet(OpenJobs(r)) /\ wg[r] = Cardinality(OpenJobs(r))
    BY BatchIsRequest, JobsFinite, FS_Subset DEF OpenJobs, Inv, CountsOK
  <2>2. wg[r] \in Nat /\ (wg[r] = 0 => OpenJobs(r) = {})
    BY <2>1, FS_CardinalityType, FS_EmptySet
  <2> QED
    BY <2>2 DEF OpenJobs
<1> QED
  BY <1>1, Invariance, PTL
-----------------------------------------------------------------------------
(***************************************************************************)
(* The pool under the handlers.  What PoolProofs knows of the pool holds   *)
(* here too: the API takes only the pool's own steps, but for a client     *)
(* that leaves, which ends the contexts of all its jobs at once.           *)
(***************************************************************************)
PoolFacts == INSTANCE PoolProofs WITH
  Impatient <- UNION {JobsOf(r) : r \in Impatient}

(* Where a handler may stand, and that only a batch has a WaitGroup.        *)
HandlerOK ==
  /\ at \in [Requests -> {"idle", "running", "returned", "panicked", "killed"}]
  /\ \A r \in Requests : next[r] <= Len(Items[r]) + 1
  /\ \A r \in Requests \ Batch : wg[r] = 0

(* Items go to the pool one after the other.                                *)
InTurnOK ==
  \A r \in Requests : \A k \in 1 .. Len(Items[r]) :
    /\ caller[Items[r][k]] # "idle" => k <= next[r]
    /\ pos[Items[r][k]] > 0 => \A i \in 1 .. k - 1 :
         pos[Items[r][i]] > 0 => pos[Items[r][i]] < pos[Items[r][k]]

(* An outcome is one of Process, a closure that counts has a verdict to     *)
(* count, and a closure runs only within a run of its job.                  *)
ClosureOK ==
  \A j \in Jobs :
    /\ outcome[j] = Undecided \/ outcome[j].kind # NoAnswer
    /\ closure[j] = "record" => InBatch(j) /\ HasVerdict(outcome[j])
    /\ closure[j] # "process" => runs[j] = 1
    /\ j \in finished => closure[j] = "return"

(* What a client was told: nothing before the handler returns, no outcome   *)
(* before there is one, and nothing at all only when the client left.       *)
ToldOK ==
  \A r \in Requests :
    /\ at[r] \in {"idle", "running"} => answer[r] = NoAnswer
    /\ at[r] = "returned" /\ answer[r] = NoAnswer => JobsOf(r) \subseteq ctxDone
    /\ r \notin Batch /\ answer[r] # NoAnswer => \A j \in JobsOf(r) : outcome[j] # Undecided

(* The pool is open until the server is done, and the process is gone only  *)
(* when the pool has closed.                                                *)
LifecycleOK ==
  /\ server \in {"serving", "draining", "drained", "overdue", "failed"}
  /\ process \in {"up", "gone"}
  /\ closing = Dispatch!NotClosing => closed = {}
  /\ server \in {"serving", "draining"} =>
       /\ closing = Dispatch!NotClosing
       /\ \A r \in Requests : at[r] \in {"idle", "running", "returned"}
  /\ server = "drained" => \A r \in Requests : at[r] \in {"idle", "returned"}
  /\ process = "gone" => closing = Dispatch!Closed

(* The jobs /metrics counted: batch items by their closures, single         *)
(* requests by their handlers.                                              *)
Counted == {j \in Jobs :
  /\ HasVerdict(outcome[j])
  /\ \/ InBatch(j) /\ closure[j] \in {"done", "return"}
     \/ \E r \in Requests \ Batch : j \in JobsOf(r) /\ answer[r] # NoAnswer}

MetricsOK == IsFiniteSet(Counted) /\ metrics = Count(Counted)

Flow ==
  /\ HandlerOK
  /\ InTurnOK
  /\ ClosureOK
  /\ ToldOK
  /\ LifecycleOK
  /\ MetricsOK

FlowInv == PoolFacts!Inv /\ Inv /\ Flow

LEMMA PoolAssumed == PoolFacts!PoolAssumption
BY HttpAssumption, DispatchAssumption DEF PoolFacts!PoolAssumption

LEMMA SamePool ==
  /\ Workers = PoolFacts!Workers
  /\ PoolFacts!NotClosing = Dispatch!NotClosing
  /\ PoolFacts!Waiting = Dispatch!Waiting
  /\ PoolFacts!Closed = Dispatch!Closed
  /\ \A j : Dispatch!Route(j) = PoolFacts!Route(j)
BY DEF Workers, Dispatch!Workers, PoolFacts!Workers, Dispatch!NumWorkers,
       PoolFacts!NumWorkers, Dispatch!NotClosing, PoolFacts!NotClosing, Dispatch!Waiting,
       PoolFacts!Waiting, Dispatch!Closed, PoolFacts!Closed, Dispatch!Route,
       PoolFacts!Route, Dispatch!WorkerIndex, PoolFacts!WorkerIndex

(* What the handlers and the closures rely on.                              *)
LEMMA PoolKnows ==
  ASSUME PoolFacts!Inv
  PROVE  /\ caller \in [Jobs -> CallerState] /\ running \in [Workers -> Jobs \cup {NoJob}]
         /\ pos \in [Jobs -> Nat] /\ runs \in [Jobs -> Nat] /\ clock \in Nat
         /\ finished \subseteq Jobs
         /\ \A j \in Jobs : /\ pos[j] > 0 <=> caller[j] = "true"
                            /\ pos[j] <= clock
                            /\ runs[j] \in {0, 1}
                            /\ runs[j] = 1 => pos[j] > 0
                            /\ j \in finished => runs[j] = 1
         /\ \A w \in Workers : running[w] # NoJob => /\ runs[running[w]] = 1
                                                     /\ running[w] \notin finished
BY SamePool
   DEF PoolFacts!Inv, PoolFacts!TypeOK, PoolFacts!JobOK, PoolFacts!RunningOK,
       PoolFacts!CallerState, CallerState

LEMMA PoolInit == Init => PoolFacts!Inv
<1>1. PoolFacts!Init => PoolFacts!Inv
  BY PoolAssumed, PoolFacts!InitInv
<1>2. Init => PoolFacts!Init
  BY SamePool DEF Init, Dispatch!Init, PoolFacts!Init, Workers
<1> QED
  BY <1>1, <1>2

LEMMA PoolStep ==
  ASSUME PoolFacts!Inv, Inv, [Next]_vars
  PROVE  PoolFacts!Inv'
<1>1. ASSUME [PoolFacts!Next]_(PoolFacts!poolVars)
      PROVE  PoolFacts!Inv'
  BY <1>1, PoolAssumed, PoolFacts!StepInv
<1>2. ASSUME UNCHANGED poolVars
      PROVE  PoolFacts!Inv'
  BY <1>1, <1>2 DEF poolVars, PoolFacts!poolVars
<1>3. ASSUME NEW r \in Requests, Submitting(r)
      PROVE  Item(r) \in Jobs
  BY <1>3, ItemsTyped DEF Submitting, Item, Inv, Types
<1>4. ASSUME NEW r \in Requests, Submit(r) \/ Enqueued(r) \/ Dropped(r) \/ Panics(r)
      PROVE  PoolFacts!Inv'
  <2>1. Item(r) \in Jobs
    BY <1>3, <1>4 DEF Submit, Enqueued, Dropped, Panics
  <2> DEFINE j == Item(r)
  <2>2. CASE Submit(r)
    <3>1. PoolFacts!Call(j)
      BY <2>2 DEF Submit, Dispatch!Call, PoolFacts!Call
    <3> QED
      BY <1>1, <2>1, <3>1 DEF PoolFacts!Next
  <2>3. CASE Enqueued(r)
    <3>1. PoolFacts!Enqueue(j)
      BY <2>3, SamePool DEF Enqueued, Dispatch!Enqueue, PoolFacts!Enqueue
    <3> QED
      BY <1>1, <2>1, <3>1 DEF PoolFacts!Next, PoolFacts!SubmitStep
  <2>4. CASE Dropped(r)
    <3>1. PoolFacts!Drop(j)
      BY <2>4 DEF Dropped, Dispatch!Drop, PoolFacts!Drop
    <3> QED
      BY <1>1, <2>1, <3>1 DEF PoolFacts!Next, PoolFacts!SubmitStep
  <2>5. CASE Panics(r)
    <3>1. PoolFacts!SendOnClosed(j)
      BY <2>5, SamePool DEF Panics, Dispatch!SendOnClosed, PoolFacts!SendOnClosed
    <3> QED
      BY <1>1, <2>1, <3>1 DEF PoolFacts!Next, PoolFacts!SubmitStep
  <2> QED
    BY <1>4, <2>2, <2>3, <2>4, <2>5
<1>5. ASSUME NEW r \in Requests, Leave(r)
      PROVE  PoolFacts!Inv'
  <2>1. /\ UNCHANGED <<caller, queue, closed, running, exited, closing, clock, pos, runs,
                       finished>>
        /\ ctxDone' \subseteq ctxDone \cup Jobs
    BY <1>5, ItemsTyped DEF Leave
  <2>2. PoolFacts!TypeOK'
    BY <2>1 DEF PoolFacts!Inv, PoolFacts!TypeOK
  <2> QED
    BY <2>1, <2>2
       DEF PoolFacts!Inv, PoolFacts!JobOK, PoolFacts!PosUnique, PoolFacts!QueueOK,
           PoolFacts!RunningOK, PoolFacts!Located, PoolFacts!WorkerFifo, PoolFacts!ExitOK
<1>6. ASSUME NEW w \in Workers, Take(w) \/ Finish(w) \/ Exit(w)
      PROVE  PoolFacts!Inv'
  <2>1. w \in PoolFacts!Workers
    BY SamePool
  <2>2. PoolFacts!WorkerStep(w)
    BY <1>6
       DEF Take, Finish, Exit, Dispatch!Take, Dispatch!Finish, Dispatch!Exit,
           PoolFacts!WorkerStep, PoolFacts!Take, PoolFacts!Finish, PoolFacts!Exit
  <2> QED
    BY <1>1, <2>1, <2>2 DEF PoolFacts!Next
<1>7. CASE Close
  <2>1. PoolFacts!BeginClose
    BY <1>7, SamePool DEF Close, Dispatch!BeginClose, PoolFacts!BeginClose
  <2> QED
    BY <1>1, <2>1 DEF PoolFacts!Next
<1>8. CASE CloseStep
  <2>1. PoolFacts!CloseStep
    BY <1>8, SamePool
       DEF CloseStep, Dispatch!CloseStep, Dispatch!CloseQueue, Dispatch!CloseReturns,
           PoolFacts!CloseStep, PoolFacts!CloseQueue, PoolFacts!CloseReturns, Workers,
           Dispatch!Waiting, PoolFacts!Waiting
  <2> QED
    BY <1>1, <2>1 DEF PoolFacts!Next
<1>9. ASSUME NEW r \in Requests, Serve(r) \/ TakeOutcome(r) \/ GiveUp(r) \/ Summarize(r)
      PROVE  PoolFacts!Inv'
  BY <1>2, <1>9 DEF Serve, TakeOutcome, GiveUp, Summarize
<1>10. ASSUME NEW w \in Workers, Process(w) \/ Record(w) \/ Done(w)
       PROVE  PoolFacts!Inv'
  BY <1>2, <1>10 DEF Process, Record, Done
<1>11. CASE Shutdown \/ ListenFails \/ Drained \/ DeadlinePasses \/ ProcessExits
  BY <1>2, <1>11 DEF Shutdown, ListenFails, Drained, DeadlinePasses, ProcessExits
<1>12. CASE UNCHANGED vars
  BY <1>2, <1>12 DEF vars
<1> QED
  BY <1>4, <1>5, <1>6, <1>7, <1>8, <1>9, <1>10, <1>11, <1>12
     DEF Next, HandlerStep, WorkerStep, ShutdownStep, Workers

-----------------------------------------------------------------------------
(* How the handlers, the counters and the shutdown go on over the pool.     *)

LEMMA FlowInit == Init => Flow
<1> SUFFICES ASSUME Init
             PROVE  Flow
  OBVIOUS
<1> USE DEF Init, Dispatch!Init, DetectorInit
<1>1. HandlerOK /\ InTurnOK
  BY ItemsTyped DEF HandlerOK, InTurnOK
<1>2. ClosureOK /\ ToldOK
  BY ItemsTyped DEF ClosureOK, ToldOK, NoAnswer
<1>3. LifecycleOK
  BY DEF LifecycleOK
<1>4. MetricsOK
  <2>1. Counted = {}
    BY DEF Counted, HasVerdict, Undecided
  <2>2. Count({}) = NoCounts
    BY FS_EmptySet DEF Count, NoCounts
  <2> QED
    BY <2>1, <2>2, FS_EmptySet DEF MetricsOK
<1> QED
  BY <1>1, <1>2, <1>3, <1>4 DEF Flow

(* The counters do not move with what does not show in them.                *)
LEMMA SameMetrics ==
  ASSUME FlowInv, metrics' = metrics, Counted' = Counted,
         \A j \in Counted : outcome'[j] = outcome[j]
  PROVE  MetricsOK'
<1>1. /\ {j \in Counted : outcome'[j].kind = "duplicate"}
           = {j \in Counted : outcome[j].kind = "duplicate"}
      /\ {j \in Counted : outcome'[j].partial} = {j \in Counted : outcome[j].partial}
      /\ {j \in Counted : outcome'[j].kind = "alert"}
           = {j \in Counted : outcome[j].kind = "alert"}
  OBVIOUS
<1>2. Count(Counted)' = Count(Counted)
  BY <1>1 DEF Count
<1> QED
  BY <1>2 DEF FlowInv, Flow, MetricsOK

(* One more verdict is counted.                                             *)
LEMMA MetricsGrow ==
  ASSUME FlowInv, NEW j, j \notin Counted, Counted' = Counted \cup {j},
         metrics' = WithVerdict(metrics, outcome[j]), outcome' = outcome
  PROVE  MetricsOK'
<1>1. IsFiniteSet(Counted) /\ metrics = Count(Counted)
  BY DEF FlowInv, Flow, MetricsOK
<1>2. Count(Counted \cup {j}) = WithVerdict(Count(Counted), outcome[j])
  BY <1>1, CountOneMore
<1>3. Count(Counted)' = Count(Counted \cup {j})
  BY DEF Count
<1>4. IsFiniteSet(Counted \cup {j})
  BY <1>1, FS_AddElement
<1> QED
  BY <1>1, <1>2, <1>3, <1>4 DEF MetricsOK

(* A handler starts on a request.                                           *)
LEMMA ServeFlow ==
  ASSUME FlowInv, NEW r \in Requests, Serve(r)
  PROVE  Flow'
<1> USE DEF FlowInv, Flow, Serve, poolVars, decisions, lifecycle
<1>1. HandlerOK' /\ InTurnOK' /\ ClosureOK'
  BY DEF HandlerOK, InTurnOK, ClosureOK
<1>2. ToldOK'
  BY DEF ToldOK, HandlerOK
<1>3. LifecycleOK'
  BY DEF LifecycleOK, HandlerOK
<1>4. MetricsOK'
  BY SameMetrics DEF Counted
<1> QED
  BY <1>1, <1>2, <1>3, <1>4

(* wg.Add and the entry into Submit.                                        *)
LEMMA SubmitFlow ==
  ASSUME FlowInv, NEW r \in Requests, Submit(r)
  PROVE  Flow'
<1> DEFINE j == Item(r)
<1>1. /\ UNCHANGED <<pos, outcome, closure, runs, finished, at, next, answer, ctxDone, server,
                     process, closing, closed, metrics>>
      /\ caller' = [caller EXCEPT ![j] = "sending"]
      /\ wg' = IF r \in Batch THEN [wg EXCEPT ![r] = @ + 1] ELSE wg
      /\ j = Items[r][next[r]] /\ next[r] \in 1 .. Len(Items[r])
  BY ItemsTyped
     DEF Submit, Submitting, Item, Dispatch!Call, decisions, handlers, lifecycle, FlowInv,
         Inv, Types
<1> HIDE DEF j
<1>2. HandlerOK'
  BY <1>1 DEF FlowInv, Flow, HandlerOK, Inv, Types
<1>3. InTurnOK'
  <2> SUFFICES ASSUME NEW q \in Requests, NEW k \in 1 .. Len(Items[q])
               PROVE  caller'[Items[q][k]] # "idle" => k <= next[q]
    BY <1>1 DEF FlowInv, Flow, InTurnOK
  <2>1. CASE Items[q][k] = j
    BY <1>1, <2>1, HttpAssumption, ItemsTyped
  <2>2. CASE Items[q][k] # j
    BY <1>1, <2>2, ItemsTyped, PoolKnows DEF FlowInv, Flow, InTurnOK
  <2> QED
    BY <2>1, <2>2
<1>4. ClosureOK' /\ ToldOK' /\ LifecycleOK'
  BY <1>1 DEF FlowInv, Flow, ClosureOK, ToldOK, LifecycleOK
<1>5. MetricsOK'
  BY <1>1, SameMetrics DEF Counted
<1> QED
  BY <1>2, <1>3, <1>4, <1>5 DEF Flow

(* Submit returned true: the item goes behind all those sent before it.     *)
LEMMA EnqueuedFlow ==
  ASSUME FlowInv, NEW r \in Requests, Enqueued(r)
  PROVE  Flow'
<1> DEFINE j == Item(r)
<1>1. /\ UNCHANGED <<outcome, closure, runs, finished, at, answer, ctxDone, server,
                     process, closing, closed, metrics, wg>>
      /\ caller' = [caller EXCEPT ![j] = "true"]
      /\ pos' = [pos EXCEPT ![j] = clock + 1]
      /\ next' = [next EXCEPT ![r] = @ + 1]
      /\ j = Items[r][next[r]] /\ next[r] \in 1 .. Len(Items[r])
  BY ItemsTyped
     DEF Enqueued, Submitting, Item, Dispatch!Enqueue, decisions, lifecycle, FlowInv,
         Inv, Types
<1> HIDE DEF j
<1>2. HandlerOK'
  BY <1>1, ItemsTyped DEF FlowInv, Flow, HandlerOK, Inv, Types
<1>3. InTurnOK'
  <2>1. /\ j \in JobsOf(r) /\ j \in Jobs
        /\ pos'[j] = clock + 1 /\ caller'[j] = "true"
        /\ \A i \in Jobs \ {j} : pos'[i] = pos[i] /\ caller'[i] = caller[i]
    BY <1>1, ItemsTyped, PoolKnows DEF FlowInv
  <2> SUFFICES ASSUME NEW q \in Requests, NEW k \in 1 .. Len(Items[q])
               PROVE  /\ caller'[Items[q][k]] # "idle" => k <= next'[q]
                      /\ pos'[Items[q][k]] > 0 => \A i \in 1 .. k - 1 :
                           pos'[Items[q][i]] > 0 => pos'[Items[q][i]] < pos'[Items[q][k]]
    BY DEF InTurnOK
  <2>2. /\ \A i \in 1 .. Len(Items[q]) : Items[q][i] \in Jobs
        /\ k \in Nat /\ Len(Items[q]) \in Nat /\ next[q] \in Nat
        /\ \A i \in 1 .. k - 1 : i \in 1 .. Len(Items[q])
    BY ItemsTyped DEF FlowInv, Inv, Types
  <2>3. \A i \in 1 .. Len(Items[q]) : Items[q][i] = j => q = r /\ i = next[r]
    BY <1>1, HttpAssumption, ItemsTyped
  <2>4. next'[q] = (IF q = r THEN next[q] + 1 ELSE next[q])
    BY <1>1 DEF FlowInv, Inv, Types
  <2>5. CASE Items[q][k] = j
    <3>1. ASSUME NEW i \in 1 .. k - 1
          PROVE  pos'[Items[q][i]] < pos'[j]
      <4>1. Items[q][i] \in Jobs \ {j}
        BY <2>2, <2>3, <2>5
      <4>2. pos'[Items[q][i]] = pos[Items[q][i]] /\ pos[Items[q][i]] <= clock
        BY <2>1, <4>1, PoolKnows DEF FlowInv
      <4> QED
        BY <2>1, <4>1, <4>2, PoolKnows DEF FlowInv
    <3> QED
      BY <2>2, <2>3, <2>4, <2>5, <3>1
  <2>6. CASE Items[q][k] # j
    <3>1. /\ Items[q][k] \in Jobs \ {j} /\ pos'[Items[q][k]] = pos[Items[q][k]]
          /\ caller'[Items[q][k]] = caller[Items[q][k]]
      BY <2>1, <2>2, <2>6
    <3>2. /\ caller[Items[q][k]] # "idle" => k <= next[q]
          /\ pos[Items[q][k]] > 0 => \A i \in 1 .. k - 1 :
               pos[Items[q][i]] > 0 => pos[Items[q][i]] < pos[Items[q][k]]
      BY DEF FlowInv, Flow, InTurnOK
    <3>3. pos[Items[q][k]] > 0 => \A i \in 1 .. k - 1 : Items[q][i] # j
      <4>1. pos[Items[q][k]] > 0 => k <= next[q]
        BY <3>1, <3>2, PoolKnows DEF FlowInv
      <4> QED
        BY <2>2, <2>3, <4>1
    <3> QED
      BY <2>1, <2>2, <2>4, <3>1, <3>2, <3>3
  <2> QED
    BY <2>5, <2>6
<1>4. ClosureOK' /\ ToldOK' /\ LifecycleOK'
  BY <1>1 DEF FlowInv, Flow, ClosureOK, ToldOK, LifecycleOK
<1>5. MetricsOK'
  BY <1>1, SameMetrics DEF Counted
<1> QED
  BY <1>2, <1>3, <1>4, <1>5 DEF Flow

(* Submit returned false, or panicked.                                      *)
LEMMA NotEnqueuedFlow ==
  ASSUME FlowInv, NEW r \in Requests, Dropped(r) \/ Panics(r)
  PROVE  Flow'
<1> DEFINE j == Item(r)
<1>1. /\ UNCHANGED <<pos, outcome, closure, runs, finished, answer, ctxDone, server,
                     process, closing, closed, metrics>>
      /\ caller[j] = "sending"
      /\ caller' \in {[caller EXCEPT ![j] = "false"], [caller EXCEPT ![j] = "panicked"]}
      /\ \/ next' = [next EXCEPT ![r] = @ + 1] /\ at' = at
            /\ wg' = IF r \in Batch THEN [wg EXCEPT ![r] = @ - 1] ELSE wg
         \/ /\ next' = next /\ at' = [at EXCEPT ![r] = "panicked"] /\ wg' = wg
            /\ closed # {}
      /\ at[r] = "running" /\ next[r] \in 1 .. Len(Items[r])
  <2>1. at[r] = "running" /\ next[r] \in 1 .. Len(Items[r])
    BY ItemsTyped DEF Dropped, Panics, Submitting, FlowInv, Inv, Types
  <2>2. CASE Dropped(r)
    BY <2>1, <2>2 DEF Dropped, Dispatch!Drop, decisions, lifecycle
  <2>3. CASE Panics(r)
    BY <2>1, <2>3 DEF Panics, Dispatch!SendOnClosed, decisions, lifecycle
  <2> QED
    BY <2>2, <2>3
<1> HIDE DEF j
<1>2. HandlerOK'
  <2>1. /\ at \in [Requests -> {"idle", "running", "returned", "panicked", "killed"}]
        /\ next \in [Requests -> Nat \ {0}] /\ wg \in [Requests -> Int]
    BY DEF FlowInv, Flow, HandlerOK, Inv, Types
  <2>2. at' \in [Requests -> {"idle", "running", "returned", "panicked", "killed"}]
    BY <1>1, <2>1
  <2>3. \A q \in Requests : next'[q] <= Len(Items[q]) + 1
    BY <1>1, <2>1, ItemsTyped DEF FlowInv, Flow, HandlerOK
  <2>4. \A q \in Requests \ Batch : wg'[q] = 0
    BY <1>1, <2>1 DEF FlowInv, Flow, HandlerOK
  <2> QED
    BY <2>2, <2>3, <2>4 DEF HandlerOK
<1>3. InTurnOK'
  <2> SUFFICES ASSUME NEW q \in Requests, NEW k \in 1 .. Len(Items[q]),
                      caller'[Items[q][k]] # "idle"
               PROVE  k <= next'[q]
    BY <1>1 DEF FlowInv, Flow, InTurnOK
  <2>1. caller[Items[q][k]] # "idle"
    <3>1. caller \in [Jobs -> CallerState] /\ Items[q][k] \in Jobs
      BY ItemsTyped, PoolKnows DEF FlowInv
    <3> QED
      BY <1>1, <3>1
  <2>2. k <= next[q] /\ k \in Nat
    BY <2>1 DEF FlowInv, Flow, InTurnOK
  <2>3. next \in [Requests -> Nat \ {0}]
    BY DEF FlowInv, Inv, Types
  <2>4. next'[q] \in Nat /\ next[q] <= next'[q]
    BY <1>1, <2>3
  <2> QED
    BY <2>2, <2>3, <2>4
<1>4. ClosureOK'
  BY <1>1 DEF FlowInv, Flow, ClosureOK
<1>5. ToldOK'
  BY <1>1 DEF FlowInv, Flow, ToldOK, HandlerOK
<1>6. LifecycleOK'
  BY <1>1 DEF FlowInv, Flow, LifecycleOK, HandlerOK
<1>7. MetricsOK'
  BY <1>1, SameMetrics DEF Counted
<1> QED
  BY <1>2, <1>3, <1>4, <1>5, <1>6, <1>7 DEF Flow

(* A single request has one job, in no batch.                               *)
LEMMA SingleJob ==
  ASSUME NEW r \in Requests \ Batch
  PROVE  /\ Items[r][1] \in JobsOf(r) /\ JobsOf(r) = {Items[r][1]}
         /\ Items[r][1] \in Jobs
         /\ ~InBatch(Items[r][1])
         /\ \A q \in Requests : Items[r][1] \in JobsOf(q) => q = r
<1>1. Len(Items[r]) = 1
  BY HttpAssumption
<1>2. Items[r][1] \in JobsOf(r) /\ JobsOf(r) = {Items[r][1]} /\ Items[r][1] \in Jobs
  BY <1>1, ItemsTyped
<1>3. \A q \in Requests : Items[r][1] \in JobsOf(q) => q = r
  BY <1>2, ItemsTyped
<1> QED
  BY <1>2, <1>3, BatchIsRequest DEF InBatch

(* The answer of a single request is the outcome of its job, and counted    *)
(* with it.                                                                 *)
LEMMA TakeOutcomeFlow ==
  ASSUME FlowInv, NEW r \in Requests, TakeOutcome(r)
  PROVE  Flow'
<1> DEFINE j == Items[r][1]
           o == outcome[j]
<1>1. /\ UNCHANGED <<caller, pos, outcome, closure, runs, finished, ctxDone, server,
                     process, closing, closed, wg, next>>
      /\ r \notin Batch /\ at[r] = "running" /\ o # Undecided
      /\ at' = [at EXCEPT ![r] = "returned"]
      /\ answer' = [answer EXCEPT ![r] = o.kind]
      /\ metrics' = IF HasVerdict(o) THEN WithVerdict(metrics, o) ELSE metrics
  BY DEF TakeOutcome, Submitted, Returns, poolVars, decisions, lifecycle
<1>2. /\ j \in JobsOf(r) /\ JobsOf(r) = {j} /\ j \in Jobs /\ ~InBatch(j)
      /\ \A q \in Requests : j \in JobsOf(q) => q = r
  BY <1>1, SingleJob
<1>3. o.kind # NoAnswer
  BY <1>1, <1>2 DEF FlowInv, Flow, ClosureOK
<1> HIDE DEF j
<1>4. HandlerOK'
  BY <1>1 DEF FlowInv, Flow, HandlerOK
<1>5. InTurnOK' /\ ClosureOK'
  BY <1>1 DEF FlowInv, Flow, InTurnOK, ClosureOK
<1>6. /\ answer'[r] = o.kind /\ \A q \in Requests \ {r} : answer'[q] = answer[q]
      /\ at'[r] = "returned" /\ \A q \in Requests \ {r} : at'[q] = at[q]
  BY <1>1 DEF FlowInv, Flow, HandlerOK, Inv, Types
<1>7. ToldOK'
  BY <1>1, <1>2, <1>3, <1>6 DEF FlowInv, Flow, ToldOK
<1>8. LifecycleOK'
  BY <1>1, <1>6 DEF FlowInv, Flow, LifecycleOK, HandlerOK
<1>9. MetricsOK'
  <2>1. j \notin Counted
    <3>1. answer[r] = NoAnswer
      BY <1>1 DEF FlowInv, Flow, ToldOK
    <3> QED
      BY <1>2, <3>1 DEF Counted
  <2>2. \A i \in Jobs \ {j} : i \in Counted' <=> i \in Counted
    BY <1>1, <1>2, <1>6 DEF Counted
  <2>3. CASE HasVerdict(o)
    <3>1. Counted' = Counted \cup {j}
      <4>1. j \in Counted'
        BY <1>1, <1>2, <1>3, <1>6, <2>3 DEF Counted
      <4>2. Counted \subseteq Jobs /\ Counted' \subseteq Jobs
        BY DEF Counted
      <4> QED
        BY <1>2, <2>2, <4>1, <4>2
    <3> QED
      BY <1>1, <2>1, <2>3, <3>1, MetricsGrow
  <2>4. CASE ~HasVerdict(o)
    <3>1. Counted' = Counted
      <4>1. j \notin Counted'
        BY <1>1, <2>4 DEF Counted
      <4>2. Counted \subseteq Jobs /\ Counted' \subseteq Jobs
        BY DEF Counted
      <4> QED
        BY <2>1, <2>2, <4>1, <4>2
    <3> QED
      BY <1>1, <2>4, <3>1, SameMetrics
  <2> QED
    BY <2>3, <2>4
<1> QED
  BY <1>4, <1>5, <1>7, <1>8, <1>9 DEF Flow

(* A single request gives up, a batch writes its summary.                   *)
LEMMA UncountedFlow ==
  ASSUME FlowInv, NEW r \in Requests, GiveUp(r) \/ Summarize(r)
  PROVE  Flow'
<1>1. /\ UNCHANGED <<caller, pos, outcome, closure, runs, finished, ctxDone, server,
                     process, closing, closed, wg, next, metrics>>
      /\ at[r] = "running" /\ at' = [at EXCEPT ![r] = "returned"]
      /\ \/ /\ r \notin Batch /\ JobsOf(r) \subseteq ctxDone
            /\ answer' = [answer EXCEPT ![r] = NoAnswer]
         \/ r \in Batch /\ answer' = [answer EXCEPT ![r] = "summary"]
  <2>1. CASE GiveUp(r)
    BY <2>1, SingleJob DEF GiveUp, Submitted, Returns, poolVars, decisions, lifecycle
  <2>2. CASE Summarize(r)
    BY <2>2 DEF Summarize, Submitted, Returns, poolVars, decisions, lifecycle
  <2> QED
    BY <2>1, <2>2
<1>2. HandlerOK'
  BY <1>1 DEF FlowInv, Flow, HandlerOK
<1>3. InTurnOK' /\ ClosureOK'
  BY <1>1 DEF FlowInv, Flow, InTurnOK, ClosureOK
<1>4. /\ \A q \in Requests \ {r} : answer'[q] = answer[q]
      /\ at'[r] = "returned" /\ \A q \in Requests \ {r} : at'[q] = at[q]
      /\ answer[r] = NoAnswer
      /\ \/ r \notin Batch /\ JobsOf(r) \subseteq ctxDone /\ answer'[r] = NoAnswer
         \/ r \in Batch /\ answer'[r] = "summary" /\ answer'[r] # NoAnswer
  BY <1>1 DEF FlowInv, Flow, HandlerOK, ToldOK, Inv, Types, NoAnswer
<1>5. ToldOK'
  BY <1>1, <1>4 DEF FlowInv, Flow, ToldOK
<1>6. LifecycleOK'
  BY <1>1, <1>4 DEF FlowInv, Flow, LifecycleOK, HandlerOK
<1>7. \A q \in Requests \ Batch : answer'[q] = answer[q]
  BY <1>4
<1>8. MetricsOK'
  BY <1>1, <1>7, SameMetrics DEF Counted
<1> QED
  BY <1>2, <1>3, <1>5, <1>6, <1>8 DEF Flow

(* A client leaves.                                                         *)
LEMMA LeaveFlow ==
  ASSUME FlowInv, NEW r \in Requests, Leave(r)
  PROVE  Flow'
<1>1. /\ UNCHANGED <<caller, pos, outcome, closure, runs, finished, server,
                     process, closing, closed, wg, next, metrics, at, answer>>
      /\ ctxDone \subseteq ctxDone'
  BY DEF Leave, decisions, handlers, lifecycle
<1>2. HandlerOK' /\ InTurnOK' /\ ClosureOK'
  BY <1>1 DEF FlowInv, Flow, HandlerOK, InTurnOK, ClosureOK
<1>3. ToldOK'
  BY <1>1 DEF FlowInv, Flow, ToldOK
<1>4. LifecycleOK'
  BY <1>1 DEF FlowInv, Flow, LifecycleOK
<1>5. MetricsOK'
  BY <1>1, SameMetrics DEF Counted
<1> QED
  BY <1>2, <1>3, <1>4, <1>5 DEF Flow

(* Outcomes that Process may come to.                                       *)
LEMMA DetectOutcome ==
  ASSUME NEW j \in Jobs, Detect(j)
  PROVE  \E o : /\ outcome' = [outcome EXCEPT ![j] = o]
                /\ outcome[j] = Undecided /\ o # Undecided /\ o.kind # NoAnswer
<1>1. outcome[j] = Undecided
  BY DEF Detect, Refuse, Discard, Decide, Fail, Open
<1>2. ASSUME NEW kind \in {"invalid", "duplicate", "error"}
      PROVE  Returned(kind) # Undecided /\ Returned(kind).kind # NoAnswer
  BY DEF Returned, Undecided, NoAnswer
<1>3. CASE Refuse(j) \/ Discard(j) \/ Fail(j)
  BY <1>1, <1>2, <1>3 DEF Refuse, Discard, Fail
<1>4. CASE Decide(j)
  <2>1. PICK verdict \in Verdicts[j] : outcome' = [outcome EXCEPT ![j] = verdict]
    BY <1>4 DEF Decide
  <2>2. verdict \in [kind : {"clean", "alert"}, partial : BOOLEAN]
    BY <2>1, DetectorAssumption
  <2>3. verdict # Undecided /\ verdict.kind # NoAnswer
    BY <2>2 DEF Undecided, NoAnswer
  <2> QED
    BY <1>1, <2>1, <2>3
<1> QED
  BY <1>3, <1>4 DEF Detect

(* Process decides within a run of its job; nobody counted the job before.  *)
LEMMA ProcessFlow ==
  ASSUME FlowInv, NEW w \in Workers, Process(w)
  PROVE  Flow'
<1> DEFINE j == running[w]
<1>1. /\ j \in Jobs /\ runs[j] = 1 /\ j \notin finished
      /\ closure[j] = "process" /\ Detect(j)
      /\ closure' = [closure EXCEPT ![j] = IF ~InBatch(j) THEN "return"
                       ELSE IF HasVerdict(outcome'[j]) THEN "record" ELSE "done"]
      /\ UNCHANGED <<caller, pos, runs, finished, server, process, closing, closed, wg,
                     next, metrics, at, answer, ctxDone>>
  BY PoolKnows DEF Process, poolVars, handlers, lifecycle, FlowInv
<1> HIDE DEF j
<1>2. PICK o : /\ outcome' = [outcome EXCEPT ![j] = o]
               /\ outcome[j] = Undecided /\ o # Undecided /\ o.kind # NoAnswer
  BY <1>1, DetectOutcome
<1>3. /\ outcome'[j] = o
      /\ closure'[j] = IF ~InBatch(j) THEN "return"
                       ELSE IF HasVerdict(o) THEN "record" ELSE "done"
      /\ \A i \in Jobs \ {j} : outcome'[i] = outcome[i] /\ closure'[i] = closure[i]
  BY <1>1, <1>2 DEF FlowInv, Inv, Types
<1>4. HandlerOK' /\ InTurnOK' /\ LifecycleOK'
  BY <1>1 DEF FlowInv, Flow, HandlerOK, InTurnOK, LifecycleOK
<1>5. ClosureOK'
  <2> SUFFICES ASSUME NEW i \in Jobs
               PROVE  /\ outcome'[i] = Undecided \/ outcome'[i].kind # NoAnswer
                      /\ closure'[i] = "record" => InBatch(i) /\ HasVerdict(outcome'[i])
                      /\ closure'[i] # "process" => runs[i] = 1
                      /\ i \in finished => closure'[i] = "return"
    BY <1>1 DEF ClosureOK
  <2>1. CASE i = j
    BY <1>1, <1>2, <1>3, <2>1
  <2>2. CASE i # j
    BY <1>3, <2>2 DEF FlowInv, Flow, ClosureOK
  <2> QED
    BY <2>1, <2>2
<1>6. ToldOK'
  <2>1. \A i \in Jobs : outcome[i] # Undecided => outcome'[i] # Undecided
    BY <1>2, <1>3
  <2> QED
    BY <1>1, <2>1, ItemsTyped DEF FlowInv, Flow, ToldOK
<1>7. MetricsOK'
  <2>1. j \notin Counted
    BY <1>2 DEF Counted, HasVerdict, Undecided
  <2>2. j \notin Counted'
    <3>1. \A r \in Requests \ Batch : j \in JobsOf(r) => answer'[r] = NoAnswer
      BY <1>1, <1>2 DEF FlowInv, Flow, ToldOK
    <3> QED
      BY <1>3, <3>1 DEF Counted
  <2>3. \A i \in Jobs \ {j} : i \in Counted' <=> i \in Counted
    BY <1>1, <1>3 DEF Counted
  <2>4. Counted' = Counted /\ \A i \in Counted : i \in Jobs \ {j}
    <3>1. Counted \subseteq Jobs /\ Counted' \subseteq Jobs
      BY DEF Counted
    <3> QED
      BY <2>1, <2>2, <2>3, <3>1
  <2> QED
    BY <1>1, <1>3, <2>4, SameMetrics
<1> QED
  BY <1>4, <1>5, <1>6, <1>7 DEF Flow

(* h.record counts the verdict of a batch item.                             *)
LEMMA RecordFlow ==
  ASSUME FlowInv, NEW w \in Workers, Record(w)
  PROVE  Flow'
<1> DEFINE j == running[w]
<1>1. /\ j \in Jobs /\ runs[j] = 1 /\ j \notin finished
      /\ closure[j] = "record"
      /\ closure' = [closure EXCEPT ![j] = "done"]
      /\ metrics' = WithVerdict(metrics, outcome[j])
      /\ UNCHANGED <<caller, pos, runs, finished, server, process, closing, closed, wg,
                     next, at, answer, ctxDone, outcome>>
  BY PoolKnows DEF Record, poolVars, handlers, lifecycle, decisions, FlowInv
<1> HIDE DEF j
<1>2. InBatch(j) /\ HasVerdict(outcome[j])
  BY <1>1 DEF FlowInv, Flow, ClosureOK
<1>3. closure'[j] = "done" /\ \A i \in Jobs \ {j} : closure'[i] = closure[i]
  BY <1>1 DEF FlowInv, Inv, Types
<1>4. HandlerOK' /\ InTurnOK' /\ LifecycleOK' /\ ToldOK'
  BY <1>1 DEF FlowInv, Flow, HandlerOK, InTurnOK, LifecycleOK, ToldOK
<1>5. ClosureOK'
  BY <1>1, <1>3 DEF FlowInv, Flow, ClosureOK
<1>6. MetricsOK'
  <2>1. j \notin Counted
    BY <1>1, <1>2, ItemsTyped, BatchIsRequest DEF Counted, InBatch
  <2>2. Counted' = Counted \cup {j}
    <3>1. j \in Counted'
      BY <1>1, <1>2, <1>3 DEF Counted
    <3>2. \A i \in Jobs \ {j} : i \in Counted' <=> i \in Counted
      BY <1>1, <1>3 DEF Counted
    <3>3. Counted \subseteq Jobs /\ Counted' \subseteq Jobs
      BY DEF Counted
    <3> QED
      BY <1>1, <3>1, <3>2, <3>3
  <2> QED
    BY <1>1, <2>1, <2>2, MetricsGrow
<1> QED
  BY <1>4, <1>5, <1>6 DEF Flow

(* The totals of the batch and wg.Done.                                     *)
LEMMA DoneFlow ==
  ASSUME FlowInv, NEW w \in Workers, Done(w)
  PROVE  Flow'
<1> DEFINE j == running[w]
<1>1. PICK r \in Batch :
        /\ j \in Jobs /\ runs[j] = 1 /\ closure[j] = "done"
        /\ closure' = [closure EXCEPT ![j] = "return"]
        /\ wg' = [wg EXCEPT ![r] = @ - 1]
        /\ UNCHANGED <<caller, pos, runs, finished, server, process, closing, closed,
                       next, at, answer, ctxDone, outcome, metrics>>
  BY PoolKnows DEF Done, poolVars, handlers, lifecycle, decisions, FlowInv
<1> HIDE DEF j
<1>2. closure'[j] = "return" /\ \A i \in Jobs \ {j} : closure'[i] = closure[i]
  BY <1>1 DEF FlowInv, Inv, Types
<1>3. HandlerOK' /\ InTurnOK' /\ LifecycleOK' /\ ToldOK'
  BY <1>1 DEF FlowInv, Flow, HandlerOK, InTurnOK, LifecycleOK, ToldOK
<1>4. ClosureOK'
  BY <1>1, <1>2 DEF FlowInv, Flow, ClosureOK
<1>5. Counted' = Counted
  BY <1>1, <1>2 DEF Counted
<1>6. MetricsOK'
  BY <1>1, <1>5, SameMetrics
<1> QED
  BY <1>3, <1>4, <1>6 DEF Flow

(* A worker takes a job, is done with one, or leaves.                       *)
LEMMA WorkerFlow ==
  ASSUME FlowInv, NEW w \in Workers, Take(w) \/ Finish(w) \/ Exit(w)
  PROVE  Flow'
<1>1. /\ UNCHANGED <<caller, pos, outcome, closure, server, process, closing, closed,
                     wg, next, metrics, at, answer, ctxDone>>
      /\ \/ runs' = runs /\ finished' = finished
         \/ /\ queue[w] # <<>> /\ finished' = finished
            /\ runs' = [runs EXCEPT ![Head(queue[w])] = @ + 1]
         \/ /\ runs' = runs /\ finished' = finished \cup {running[w]}
            /\ closure[running[w]] = "return"
  BY DEF Take, Finish, Exit, Dispatch!Take, Dispatch!Finish, Dispatch!Exit, decisions,
         handlers, lifecycle
<1>2. HandlerOK' /\ InTurnOK' /\ LifecycleOK' /\ ToldOK'
  BY <1>1 DEF FlowInv, Flow, HandlerOK, InTurnOK, LifecycleOK, ToldOK
<1>3. ClosureOK'
  <2>1. \A j \in Jobs : runs[j] = 1 => runs'[j] = 1
    <3>1. CASE runs' = runs
      BY <3>1
    <3>2. CASE /\ queue[w] # <<>>
               /\ runs' = [runs EXCEPT ![Head(queue[w])] = @ + 1]
      <4>1. queue[w] \in Seq(Jobs) /\ Head(queue[w]) = queue[w][1] /\ 1 \in 1 .. Len(queue[w])
        BY <3>2 DEF FlowInv, Inv, Types
      <4>2. runs[queue[w][1]] = 0
        BY <4>1, SamePool DEF FlowInv, PoolFacts!Inv, PoolFacts!QueueOK
      <4> QED
        BY <3>2, <4>1, <4>2, PoolKnows DEF FlowInv
    <3> QED
      BY <1>1, <3>1, <3>2
  <2>2. \A j \in finished' : closure'[j] = "return" \/ j \notin Jobs
    BY <1>1, PoolKnows DEF FlowInv, Flow, ClosureOK
  <2> QED
    BY <1>1, <2>1, <2>2 DEF FlowInv, Flow, ClosureOK
<1>4. MetricsOK'
  BY <1>1, SameMetrics DEF Counted
<1> QED
  BY <1>2, <1>3, <1>4 DEF Flow

(* From the signal on.                                                      *)
LEMMA LifecycleFlow ==
  ASSUME FlowInv, Shutdown \/ ListenFails \/ ShutdownStep
  PROVE  Flow'
<1>1. /\ UNCHANGED <<caller, pos, outcome, closure, runs, finished, wg, next, metrics,
                     answer, ctxDone>>
      /\ \/ /\ UNCHANGED <<closing, closed, at, process>>
            /\ \/ server = "serving" /\ server' \in {"draining", "failed"}
               \/ server = "draining" /\ server' = "overdue"
               \/ /\ server = "draining" /\ server' = "drained"
                  /\ \A r \in Requests : at[r] # "running"
         \/ /\ UNCHANGED <<server, at, process>>
            /\ \/ /\ server \in {"drained", "overdue", "failed"}
                  /\ closing = Dispatch!NotClosing /\ closing' = 0 /\ closed' = closed
               \/ \E w \in Workers : closing = w /\ closing' = w + 1
               \/ /\ closing = Dispatch!Waiting /\ closing' = Dispatch!Closed
                  /\ closed' = closed
         \/ /\ UNCHANGED <<server, closing, closed>>
            /\ process' = "gone" /\ closing = Dispatch!Closed
            /\ at' = [r \in Requests |-> IF at[r] = "running" THEN "killed" ELSE at[r]]
  <2>1. CASE Close
    BY <2>1 DEF Close, Dispatch!BeginClose, api, decisions, handlers, lifecycle
  <2>2. CASE CloseStep
    BY <2>2 DEF CloseStep, Dispatch!CloseStep, Dispatch!CloseQueue, Dispatch!CloseReturns,
                api, decisions, handlers, lifecycle, Workers
  <2>3. CASE ProcessExits
    BY <2>3 DEF ProcessExits, poolVars, decisions
  <2> QED
    BY <2>1, <2>2, <2>3
       DEF Shutdown, ListenFails, ShutdownStep, Drained, DeadlinePasses, poolVars, api,
           decisions, handlers
<1>2. /\ Dispatch!NumWorkers \in Nat \ {0}
      /\ Dispatch!NotClosing = -1 /\ Dispatch!Waiting = Dispatch!NumWorkers
      /\ Dispatch!Closed = Dispatch!NumWorkers + 1
      /\ Workers = 0 .. Dispatch!NumWorkers - 1
  BY DispatchAssumption
     DEF Dispatch!NumWorkers, Dispatch!NotClosing, Dispatch!Waiting, Dispatch!Closed,
         Workers, Dispatch!Workers
<1>3. HandlerOK'
  BY <1>1 DEF FlowInv, Flow, HandlerOK
<1>4. InTurnOK' /\ ClosureOK'
  BY <1>1 DEF FlowInv, Flow, InTurnOK, ClosureOK
<1>5. ToldOK'
  BY <1>1 DEF FlowInv, Flow, ToldOK, HandlerOK
<1>6. LifecycleOK'
  <2>1. CASE UNCHANGED <<closing, closed, at, process>>
    BY <1>1, <2>1 DEF FlowInv, Flow, LifecycleOK
  <2>2. CASE UNCHANGED <<server, at, process>> /\ closing' # closing
    BY <1>1, <1>2, <2>2 DEF FlowInv, Flow, LifecycleOK
  <2>3. CASE /\ UNCHANGED <<server, closing, closed>>
             /\ process' = "gone" /\ closing = Dispatch!Closed
             /\ at' = [r \in Requests |-> IF at[r] = "running" THEN "killed" ELSE at[r]]
    BY <1>2, <2>3 DEF FlowInv, Flow, LifecycleOK
  <2> QED
    BY <1>1, <1>2, <2>1, <2>2, <2>3
<1>7. MetricsOK'
  BY <1>1, SameMetrics DEF Counted
<1> QED
  BY <1>3, <1>4, <1>5, <1>6, <1>7 DEF Flow

LEMMA FlowStep == FlowInv /\ [Next]_vars => FlowInv'
<1> SUFFICES ASSUME FlowInv, [Next]_vars
             PROVE  FlowInv'
  OBVIOUS
<1>1. PoolFacts!Inv' /\ Inv'
  BY PoolStep, StepInv DEF FlowInv
<1>2. ASSUME NEW r \in Requests, HandlerStep(r)
      PROVE  Flow'
  BY <1>2, SubmitFlow, EnqueuedFlow, NotEnqueuedFlow, TakeOutcomeFlow, UncountedFlow
     DEF HandlerStep
<1>3. ASSUME NEW w \in Workers, WorkerStep(w)
      PROVE  Flow'
  BY <1>3, ProcessFlow, RecordFlow, DoneFlow, WorkerFlow DEF WorkerStep
<1>4. ASSUME UNCHANGED vars
      PROVE  Flow'
  <2>1. UNCHANGED <<caller, pos, outcome, closure, runs, finished, wg, next, metrics,
                    answer, ctxDone, closing, closed, at, process, server>>
    BY <1>4 DEF vars, poolVars, decisions, handlers, lifecycle
  <2>2. HandlerOK' /\ InTurnOK' /\ ClosureOK' /\ ToldOK' /\ LifecycleOK'
    BY <2>1 DEF FlowInv, Flow, HandlerOK, InTurnOK, ClosureOK, ToldOK, LifecycleOK
  <2>3. MetricsOK'
    BY <2>1, SameMetrics DEF Counted
  <2> QED
    BY <2>2, <2>3 DEF Flow
<1>5. Flow'
  BY <1>2, <1>3, <1>4, ServeFlow, LeaveFlow, LifecycleFlow DEF Next, Workers
<1> QED
  BY <1>1, <1>5 DEF FlowInv

(* The pool, the handlers, the counters and the shutdown agree in every     *)
(* state: the inductive invariant behind the theorems below.                *)
THEOREM FlowInvariance == Spec => []FlowInv
<1>1. Init => FlowInv
  BY PoolInit, InitInv, FlowInit DEF FlowInv
<1> QED
  BY <1>1, FlowStep, PTL DEF Spec

(* handlers.go:145-191: nothing is out of its range, and no WaitGroup goes  *)
(* negative, which would panic in a worker.                                 *)
THEOREM TypeCorrect == Spec => []TypeOK
<1>1. FlowInv => TypeOK
  <2> SUFFICES ASSUME FlowInv
               PROVE  TypeOK
    OBVIOUS
  <2>1. Dispatch!TypeOK
    BY SamePool
       DEF FlowInv, PoolFacts!Inv, PoolFacts!TypeOK, Dispatch!TypeOK, Workers,
           Dispatch!CallerState, PoolFacts!CallerState
  <2>2. \A r \in Requests : next[r] \in 1 .. Len(Items[r]) + 1
    BY ItemsTyped DEF FlowInv, Inv, Types, Flow, HandlerOK
  <2>3. wg \in [Requests -> Nat]
    <3>1. ASSUME NEW r \in Requests
          PROVE  wg[r] \in Nat
      <4>1. CASE r \in Batch
        <5>1. IsFiniteSet(OpenJobs(r)) /\ wg[r] = Cardinality(OpenJobs(r))
          BY <4>1, JobsFinite, FS_Subset DEF OpenJobs, FlowInv, Inv, CountsOK
        <5> QED
          BY <5>1, FS_CardinalityType
      <4>2. CASE r \notin Batch
        BY <4>2 DEF FlowInv, Flow, HandlerOK
      <4> QED
        BY <4>1, <4>2
    <3> QED
      BY <3>1 DEF FlowInv, Inv, Types
  <2> QED
    BY <2>1, <2>2, <2>3
       DEF TypeOK, FlowInv, Flow, HandlerOK, LifecycleOK, Inv, Types, ClosureState
<1> QED
  BY <1>1, FlowInvariance, PTL

(* FR-010, handlers.go:140-143: the items of a batch for one customer run   *)
(* one after the other in array order, also when the client goes away half  *)
(* way: what the pool's FIFO gives for the order in which they were sent.   *)
THEOREM ArrayOrderHolds == Spec => []ArrayOrder
<1>1. FlowInv => ArrayOrder
  <2> SUFFICES ASSUME FlowInv, NEW r \in Batch,
                      NEW i \in DOMAIN Items[r], NEW k \in DOMAIN Items[r],
                      i < k, CustomerOf[Items[r][i]] = CustomerOf[Items[r][k]],
                      runs[Items[r][k]] > 0, caller[Items[r][i]] # "false"
               PROVE  Items[r][i] \in finished
    BY DEF ArrayOrder
  <2> DEFINE a == Items[r][i]
             b == Items[r][k]
  <2>1. /\ r \in Requests /\ i \in 1 .. Len(Items[r]) /\ k \in 1 .. Len(Items[r])
        /\ Len(Items[r]) \in Nat /\ a \in Jobs /\ b \in Jobs
    BY BatchIsRequest, ItemsTyped
  <2>2. runs[b] = 1 /\ pos[b] > 0 /\ caller[b] = "true"
    BY <2>1, PoolKnows DEF FlowInv
  <2>3. k <= next[r] /\ next[r] \in Nat
    BY <2>1, <2>2 DEF FlowInv, Flow, InTurnOK, Inv, Types
  <2>4. pos[a] > 0
    <3>1. i < next[r]
      BY <2>1, <2>3
    <3>2. caller[a] = "true"
      BY <2>1, <3>1 DEF FlowInv, Inv, SubmittedOK
    <3> QED
      BY <2>1, <3>2, PoolKnows DEF FlowInv
  <2>5. pos[a] < pos[b]
    <3>1. i \in 1 .. k - 1
      BY <2>1
    <3> QED
      BY <2>1, <2>2, <2>4, <3>1 DEF FlowInv, Flow, InTurnOK
  <2>6. PoolFacts!Route(a) = PoolFacts!Route(b)
    BY DEF PoolFacts!Route
  <2> QED
    BY <2>1, <2>2, <2>4, <2>5, <2>6 DEF FlowInv, PoolFacts!Inv, PoolFacts!WorkerFifo
<1> QED
  BY <1>1, FlowInvariance, PTL

(* NFR-005, metrics.go:27-50: when no worker is in a job, /metrics shows    *)
(* every verdict once, but for those of single requests that were not       *)
(* answered: whatever panicked, failed, left or was cut off before.         *)
THEOREM CountersAddUpHolds == Spec => []CountersAddUp
<1>1. FlowInv => CountersAddUp
  <2> SUFFICES ASSUME FlowInv, \A w \in Dispatch!Workers : running[w] = NoJob
               PROVE  metrics = Count({j \in finished :
                        /\ HasVerdict(outcome[j])
                        /\ \/ InBatch(j)
                           \/ \E r \in Requests : j \in JobsOf(r) /\ answer[r] # NoAnswer})
    BY DEF CountersAddUp
  <2>1. ASSUME NEW j \in Jobs, HasVerdict(outcome[j])
        PROVE  j \in finished
    <3>1. closure[j] # "process"
      <4>1. outcome[j] # Undecided
        BY <2>1 DEF HasVerdict, Undecided
      <4> QED
        BY <4>1 DEF FlowInv, Inv, AcceptedOK
    <3>2. runs[j] = 1 /\ pos[j] > 0
      BY <3>1, PoolKnows DEF FlowInv, Flow, ClosureOK
    <3>3. PoolFacts!Route(j) \in Workers
      BY PoolAssumed, PoolFacts!RouteIsWorker, SamePool
    <3>4. running[PoolFacts!Route(j)] # j
      BY <3>3, DispatchAssumption DEF Workers
    <3>5. \A a \in 1 .. Len(queue[PoolFacts!Route(j)]) : queue[PoolFacts!Route(j)][a] # j
      BY <3>2, <3>3, SamePool DEF FlowInv, PoolFacts!Inv, PoolFacts!QueueOK
    <3> QED
      BY <3>2, <3>4, <3>5 DEF FlowInv, PoolFacts!Inv, PoolFacts!Located
  <2>2. \A j \in finished : j \in Jobs /\ closure[j] = "return"
    BY PoolKnows DEF FlowInv, Flow, ClosureOK
  <2>3. \A r \in Requests : \A j \in JobsOf(r) : r \in Batch => InBatch(j)
    BY DEF InBatch
  <2>4. Counted = {j \in finished :
           /\ HasVerdict(outcome[j])
           /\ \/ InBatch(j)
              \/ \E r \in Requests : j \in JobsOf(r) /\ answer[r] # NoAnswer}
    BY <2>1, <2>2, <2>3 DEF Counted
  <2> QED
    BY <2>4 DEF FlowInv, Flow, MetricsOK
<1> QED
  BY <1>1, FlowInvariance, PTL

(* NFR-006, main.go:91-111: a shutdown that keeps its deadline answers every *)
(* request it took, unless the client left, and loses no accepted job.      *)
THEOREM GracefulExitHolds == Spec => []GracefulExit
<1>1. FlowInv => GracefulExit
  <2> SUFFICES ASSUME FlowInv, process = "gone", server = "drained"
               PROVE  /\ \A r \in Requests :
                           /\ at[r] \in {"idle", "returned"}
                           /\ at[r] = "returned" /\ answer[r] = NoAnswer
                                => JobsOf(r) \subseteq ctxDone
                      /\ \A j \in Jobs : caller[j] = "true" =>
                           outcome[j] # Undecided /\ j \in finished
    BY DEF GracefulExit
  <2>1. closing = PoolFacts!Closed
    BY SamePool DEF FlowInv, Flow, LifecycleOK
  <2>2. PoolFacts!CloseDrains
    BY PoolAssumed, PoolFacts!InvImpliesSafety DEF FlowInv
  <2>3. ASSUME NEW j \in Jobs, caller[j] = "true"
        PROVE  outcome[j] # Undecided /\ j \in finished
    <3>1. j \in finished
      BY <2>1, <2>2, <2>3 DEF PoolFacts!CloseDrains
    <3>2. closure[j] = "return"
      BY <3>1 DEF FlowInv, Flow, ClosureOK
    <3> QED
      BY <3>1, <3>2 DEF FlowInv, Inv, AcceptedOK
  <2> QED
    BY <2>3 DEF FlowInv, Flow, LifecycleOK, ToldOK
<1> QED
  BY <1>1, FlowInvariance, PTL

-----------------------------------------------------------------------------
(***************************************************************************)
(* The handlers over the pool as SequentialDetector: what PoolProofs shows *)
(* of the lanes, and that a closure's Process is the abstract decision.    *)
(***************************************************************************)

LEMMA SameLanes ==
  /\ Dispatch!Line = PoolFacts!Line /\ Dispatch!Line' = PoolFacts!Line'
  /\ Dispatch!Busy = PoolFacts!Busy /\ Dispatch!Busy' = PoolFacts!Busy'
  /\ Dispatch!Accepted = PoolFacts!Accepted /\ Dispatch!Accepted' = PoolFacts!Accepted'
BY DEF Dispatch!Line, PoolFacts!Line, Dispatch!Busy, PoolFacts!Busy, Dispatch!Accepted,
       PoolFacts!Accepted, Dispatch!OfCustomer, PoolFacts!OfCustomer,
       Dispatch!WorkerIndex, PoolFacts!WorkerIndex, Dispatch!NumWorkers,
       PoolFacts!NumWorkers

(* Where no job moves, the lanes do not.                                    *)
LEMMA LanesStay ==
  ASSUME UNCHANGED <<queue, running, pos, finished>>
  PROVE  UNCHANGED Abstract!lanesVars
<1>1. UNCHANGED <<Dispatch!Line, Dispatch!Busy, Dispatch!Accepted>>
  BY DEF Dispatch!Line, Dispatch!Busy, Dispatch!Accepted, Dispatch!OfCustomer,
         Dispatch!WorkerIndex
<1> QED
  BY <1>1 DEF Abstract!lanesVars

LEMMA NothingDecided ==
  ASSUME UNCHANGED <<outcome, marked, alerted, runs>>
  PROVE  UNCHANGED Abstract!decisions
BY DEF Abstract!decisions, Outcome

LEMMA NothingSeen ==
  ASSUME UNCHANGED <<queue, running, pos, finished, outcome, marked, alerted, runs>>
  PROVE  UNCHANGED Abstract!detectorVars
BY LanesStay, NothingDecided DEF Abstract!detectorVars

(* Submit's send is the acceptance of the call.                             *)
LEMMA EnqueuedRefines ==
  ASSUME FlowInv, NEW r \in Requests, Enqueued(r)
  PROVE  \E j \in Jobs : Abstract!Accept(j)
<1> DEFINE j == Item(r)
<1>1. j \in Jobs
  BY ItemsTyped DEF Enqueued, Submitting, Item, FlowInv, Inv, Types
<1>2. PoolFacts!Enqueue(j)
  BY SamePool DEF Enqueued, Dispatch!Enqueue, PoolFacts!Enqueue
<1>3. PoolFacts!Lanes!Accept(j)
  BY <1>1, <1>2, PoolAssumed, PoolFacts!EnqueueRefines DEF FlowInv
<1>4. Abstract!Lanes!Accept(j)
  BY <1>3, SameLanes DEF PoolFacts!Lanes!Accept, Abstract!Lanes!Accept
<1>5. UNCHANGED Abstract!decisions
  BY NothingDecided DEF Enqueued, Dispatch!Enqueue, decisions
<1> QED
  BY <1>1, <1>4, <1>5 DEF Abstract!Accept

(* A worker's receive starts the call; one that does not validate counts as *)
(* refused from here on, although Process is still to say so.               *)
LEMMA TakeRefines ==
  ASSUME FlowInv, NEW w \in Workers, Take(w)
  PROVE  \E c \in Customers : Abstract!Start(c)
<1> DEFINE j == Head(queue[w])
<1>1. PoolFacts!Take(w) /\ w \in PoolFacts!Workers
  BY SamePool DEF Take, Dispatch!Take, PoolFacts!Take
<1>2. PICK c \in Customers : PoolFacts!Lanes!Start(c) /\ Head(PoolFacts!Line[c]) = j
  BY <1>1, PoolAssumed, PoolFacts!TakeRefines DEF FlowInv
<1>3. Abstract!Lanes!Start(c) /\ Head(Dispatch!Line[c]) = j
  BY <1>2, SameLanes DEF PoolFacts!Lanes!Start, Abstract!Lanes!Start
<1>4. /\ j \in Jobs /\ runs[j] = 0 /\ outcome[j] = Undecided
      /\ runs' = [runs EXCEPT ![j] = @ + 1] /\ runs'[j] = 1
      /\ \A i \in Jobs \ {j} : runs'[i] = runs[i]
      /\ UNCHANGED <<outcome, marked, alerted>>
  <2>1. queue[w] \in Seq(Jobs) /\ queue[w] # <<>>
    BY DEF Take, Dispatch!Take, FlowInv, Inv, Types
  <2>2. j \in Jobs /\ 1 \in 1 .. Len(queue[w]) /\ j = queue[w][1]
    BY <2>1
  <2>3. runs[j] = 0
    BY <2>2, SamePool DEF FlowInv, PoolFacts!Inv, PoolFacts!QueueOK
  <2>4. outcome[j] = Undecided
    BY <2>2, <2>3 DEF FlowInv, Flow, ClosureOK, Inv, AcceptedOK
  <2> QED
    BY <2>2, <2>3, <2>4, PoolKnows DEF Take, Dispatch!Take, decisions, FlowInv
<1> HIDE DEF j
<1>5. CASE j \in Valid
  <2>1. Outcome' = Outcome
    BY <1>4, <1>5 DEF Outcome
  <2> QED
    BY <1>3, <1>4, <1>5, <2>1 DEF Abstract!Start, Abstract!decisions
<1>6. CASE j \notin Valid
  <2>1. Outcome' = [Outcome EXCEPT ![j] = Returned("invalid")] /\ Outcome[j] = Undecided
    <3>1. Outcome'[j] = Returned("invalid") /\ Outcome[j] = Undecided
      BY <1>4, <1>6 DEF Outcome
    <3>2. \A i \in Jobs \ {j} : Outcome'[i] = Outcome[i]
      BY <1>4 DEF Outcome
    <3>3. /\ Outcome = [i \in Jobs |-> Outcome[i]]
          /\ Outcome' = [i \in Jobs |-> Outcome'[i]]
      BY DEF Outcome
    <3> QED
      BY <1>4, <3>1, <3>2, <3>3
  <2>2. Abstract!Refuse(j)
    BY <1>4, <1>6, <2>1
       DEF Abstract!Refuse, Abstract!Open, Abstract!Undecided, Undecided, Abstract!Returned,
           Returned
  <2> QED
    BY <1>3, <1>6, <2>2 DEF Abstract!Start
<1> QED
  BY <1>5, <1>6

(* Process decides: the abstract decision, or nothing that was not decided  *)
(* when the call started.                                                   *)
LEMMA ProcessRefines ==
  ASSUME FlowInv, NEW w \in Workers, Process(w)
  PROVE  \/ \E c \in Customers : Abstract!Answer(c)
         \/ UNCHANGED Abstract!detectorVars
<1> DEFINE j == running[w]
<1>1. /\ j # NoJob /\ Detect(j) /\ UNCHANGED <<queue, running, pos, finished, runs>>
  BY DEF Process, poolVars
<1>2. /\ j \in Jobs /\ CustomerOf[j] \in Customers
      /\ Dispatch!Busy[CustomerOf[j]] = j
  BY <1>1, PoolAssumed, SamePool, SameLanes, PoolFacts!RunningIsBusy DEF FlowInv
<1>3. runs[j] = 1 /\ DOMAIN outcome = Jobs
  BY <1>1, PoolKnows DEF FlowInv, Inv, Types
<1>4. UNCHANGED Abstract!lanesVars
  BY <1>1, LanesStay
<1> HIDE DEF j
<1>5. CASE j \notin Valid
  <2>1. Refuse(j)
    BY <1>1, <1>5 DEF Detect, Discard, Decide, Fail
  <2>2. outcome' = [outcome EXCEPT ![j] = Returned("invalid")] /\ UNCHANGED <<marked, alerted>>
    BY <2>1 DEF Refuse
  <2>3. Outcome' = Outcome
    BY <1>1, <1>2, <1>3, <1>5, <2>2 DEF Outcome
  <2> QED
    BY <1>4, <2>2, <2>3 DEF Abstract!detectorVars, Abstract!decisions
<1>6. CASE j \in Valid
  <2>1. /\ outcome[j] = Undecided => Outcome[j] = Undecided
        /\ \A o : outcome' = [outcome EXCEPT ![j] = o] => Outcome' = [Outcome EXCEPT ![j] = o]
    BY <1>1, <1>2, <1>3, <1>6 DEF Outcome
  <2> USE DEF Abstract!Open, Open, Abstract!Undecided, Undecided, Abstract!Returned, Returned
  <2>2. CASE Discard(j)
    <3>1. Abstract!Discard(j)
      BY <2>1, <2>2 DEF Discard, Abstract!Discard
    <3> QED
      BY <1>2, <1>4, <3>1, <1>1 DEF Abstract!Answer, Abstract!Detect
  <2>3. CASE Decide(j)
    <3>1. Abstract!Decide(j)
      BY <2>1, <2>3 DEF Decide, Abstract!Decide
    <3> QED
      BY <1>2, <1>4, <3>1, <1>1 DEF Abstract!Answer, Abstract!Detect
  <2>4. CASE Fail(j)
    <3>1. Abstract!Fail(j)
      BY <2>1, <2>4 DEF Fail, Abstract!Fail
    <3> QED
      BY <1>2, <1>4, <3>1, <1>1 DEF Abstract!Answer, Abstract!Detect
  <2> QED
    BY <1>1, <1>6, <2>2, <2>3, <2>4 DEF Detect, Refuse
<1> QED
  BY <1>5, <1>6

(* A job is over only when its closure is, with the call decided.           *)
LEMMA FinishRefines ==
  ASSUME FlowInv, NEW w \in Workers, Finish(w)
  PROVE  \E c \in Customers : Abstract!End(c)
<1> DEFINE j == running[w]
<1>1. PoolFacts!Finish(w) /\ w \in PoolFacts!Workers /\ j \in Jobs /\ closure[j] = "return"
  BY SamePool
     DEF Finish, Dispatch!Finish, PoolFacts!Finish, FlowInv, Inv, Types
<1>2. PICK c \in Customers : PoolFacts!Lanes!End(c) /\ PoolFacts!Busy[c] = j
  BY <1>1, PoolAssumed, PoolFacts!FinishRefines DEF FlowInv
<1>3. Abstract!Lanes!End(c) /\ Dispatch!Busy[c] = j
  BY <1>2, SameLanes DEF PoolFacts!Lanes!End, Abstract!Lanes!End
<1>4. outcome[j] # Undecided
  BY <1>1 DEF FlowInv, Inv, AcceptedOK
<1>5. Outcome[j] # Undecided
  BY <1>1, <1>4 DEF Outcome, Returned, Undecided
<1>6. UNCHANGED Abstract!decisions
  BY NothingDecided DEF Finish, Dispatch!Finish, decisions
<1> QED
  BY <1>3, <1>5, <1>6 DEF Abstract!End, Abstract!Open, Abstract!Undecided, Undecided

LEMMA StartsDetecting == Init => Abstract!Init
<1> SUFFICES ASSUME Init
             PROVE  Abstract!Init
  OBVIOUS
<1>1. PoolFacts!Init
  BY SamePool DEF Init, Dispatch!Init, PoolFacts!Init, Workers
<1>2. PoolFacts!Lanes!LanesInit
  BY <1>1, PoolAssumed, PoolFacts!InitRefines
<1>3. Abstract!Lanes!LanesInit
  BY <1>2, SameLanes DEF PoolFacts!Lanes!LanesInit, Abstract!Lanes!LanesInit
<1>4. Abstract!DetectorInit
  BY DEF Init, Dispatch!Init, DetectorInit, Abstract!DetectorInit, Outcome,
         Abstract!Undecided, Undecided
<1> QED
  BY <1>3, <1>4 DEF Abstract!Init

LEMMA StepDetects == FlowInv /\ [Next]_vars => [Abstract!Next]_(Abstract!detectorVars)
<1> SUFFICES ASSUME FlowInv, [Next]_vars
             PROVE  [Abstract!Next]_(Abstract!detectorVars)
  OBVIOUS
<1>1. ASSUME NEW r \in Requests, Enqueued(r)
      PROVE  Abstract!Next
  BY <1>1, EnqueuedRefines DEF Abstract!Next
<1>2. ASSUME NEW w \in Workers, Take(w) \/ Finish(w)
      PROVE  Abstract!Next
  BY <1>2, TakeRefines, FinishRefines DEF Abstract!Next, Abstract!LaneStep
<1>3. ASSUME NEW w \in Workers, Process(w)
      PROVE  [Abstract!Next]_(Abstract!detectorVars)
  BY <1>3, ProcessRefines DEF Abstract!Next, Abstract!LaneStep
<1>4. ASSUME UNCHANGED <<queue, running, pos, finished, outcome, marked, alerted, runs>>
      PROVE  [Abstract!Next]_(Abstract!detectorVars)
  BY <1>4, NothingSeen
<1>5. ASSUME NEW r \in Requests,
             Serve(r) \/ Leave(r) \/ Submit(r) \/ Dropped(r) \/ Panics(r)
               \/ TakeOutcome(r) \/ GiveUp(r) \/ Summarize(r)
      PROVE  [Abstract!Next]_(Abstract!detectorVars)
  BY <1>4, <1>5
     DEF Serve, Leave, Submit, Dropped, Panics, TakeOutcome, GiveUp, Summarize,
         Dispatch!Call, Dispatch!Drop, Dispatch!SendOnClosed, poolVars, decisions
<1>6. ASSUME NEW w \in Workers, Record(w) \/ Done(w) \/ Exit(w)
      PROVE  [Abstract!Next]_(Abstract!detectorVars)
  BY <1>4, <1>6 DEF Record, Done, Exit, Dispatch!Exit, poolVars, decisions
<1>7. CASE Shutdown \/ ListenFails \/ ShutdownStep
  BY <1>4, <1>7
     DEF Shutdown, ListenFails, ShutdownStep, Drained, DeadlinePasses, Close, CloseStep,
         ProcessExits, Dispatch!BeginClose, Dispatch!CloseStep, Dispatch!CloseQueue,
         Dispatch!CloseReturns, poolVars, api, decisions
<1>8. CASE UNCHANGED vars
  BY <1>4, <1>8 DEF vars, poolVars, decisions
<1> QED
  BY <1>1, <1>2, <1>3, <1>5, <1>6, <1>7, <1>8
     DEF Next, HandlerStep, WorkerStep, Workers

(* FR-002, FR-010, handlers.go:68-206: handlers, clients, channels, workers *)
(* and the shutdown show to the outside only as calls that are accepted,    *)
(* started, decided at one instant and over, in their customer's order:     *)
(* the same specification that Pipeline implements with Process taken apart.*)
THEOREM ImplementsDetectorHolds == Spec => ImplementsDetector
BY StartsDetecting, StepDetects, FlowInvariance, PTL DEF Spec, ImplementsDetector
=============================================================================
