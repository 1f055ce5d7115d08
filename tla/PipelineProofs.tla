--------------------------- MODULE PipelineProofs ---------------------------
(***************************************************************************)
(* Proofs about Pipeline, for any calls, customers, rule sets, faults and  *)
(* number of toggles and expiries: its types, what duplicates and marked   *)
(* keys mean, and that every step of it is one of SequentialDetector or    *)
(* does not show there.                                                    *)
(***************************************************************************)
EXTENDS Pipeline, SequenceTheorems, TLAPS

CallFields == {"recorded", "windowAvailable", "config", "limit", "next", "result"}
OutcomeKinds == {"none", "invalid", "duplicate", "error", "clean", "alert"}

(* A call that found its key unknown and has not returned yet.              *)
Deciding == {"record", "config", "risk", "evaluate", "mark"}
InProcess == Deciding \cup {"seen"}

(* The types, those of the records and of the lanes included.               *)
Types ==
  /\ TypeOK
  /\ outcome \in [Jobs -> [kind : OutcomeKinds, partial : BOOLEAN]]
  /\ DOMAIN call = Jobs
  /\ \A j \in Jobs : DOMAIN call[j] = CallFields
  /\ \E S : published \in Seq(S)
  /\ line \in [Customers -> Seq(Jobs)]
  /\ accepted \subseteq Jobs

(* A lane holds accepted calls of its customer that did not begin, each     *)
(* once; a call is inside Process only while its customer's lane is in it.  *)
LanesOK ==
  /\ \A c \in Customers : \A i \in 1 .. Len(line[c]) :
       /\ line[c][i] \in accepted
       /\ CustomerOf[line[c][i]] = c
       /\ pc[line[c][i]] = "idle"
  /\ \A c \in Customers : \A i, k \in 1 .. Len(line[c]) :
       line[c][i] = line[c][k] => i = k
  /\ \A j \in Jobs \ accepted : pc[j] = "idle"
  /\ \A c \in Customers : busy[c] # NoJob => pc[busy[c]] # "idle"
  /\ \A j \in Jobs : pc[j] \in InProcess => busy[CustomerOf[j]] = j

(* A call between Seen and Mark is valid, its key is not in the store, and  *)
(* it has no outcome yet.                                                   *)
CallsOK ==
  \A j \in Jobs :
    /\ pc[j] # "done" => outcome[j] = NoOutcome
    /\ pc[j] \in InProcess => j \in Valid
    /\ pc[j] \in Deciding => idempotency[Key(j)] # "live"

(* Where the traces of a call are: its window entry behind Record, its      *)
(* alert behind Publish.                                                    *)
TracesOK ==
  /\ \A c \in Customers : \A i \in 1 .. Len(window[c]) :
       /\ pc[window[c][i]] \in {"config", "risk", "evaluate", "mark", "done"}
       /\ outcome[window[c][i]].kind # "duplicate"
  /\ \A i \in 1 .. Len(published) :
       /\ pc[published[i].job] \in {"mark", "done"}
       /\ outcome[published[i].job].kind \notin {"invalid", "duplicate", "clean"}
  /\ \A j \in Jobs : pc[j] = "mark" => j \in PublishedJobs

(* A decided call has its alert out if the rules asked for one; only the    *)
(* keys of decided calls are stored.                                        *)
DecisionsOK ==
  /\ \A j \in Jobs : Committed(j) /\ Suspicious(j) => j \in PublishedJobs
  /\ MarkedIsCommitted
  /\ \A j \in Jobs : outcome[j].kind = "duplicate" =>
       \E i \in Jobs \ {j} : Key(i) = Key(j) /\ Committed(i)

Inv == Types /\ LanesOK /\ CallsOK /\ TracesOK /\ DecisionsOK

-----------------------------------------------------------------------------
LEMMA KeyInKeys == \A j \in Jobs : Key(j) \in Keys
BY DEF Keys, Key

LEMMA SameKeySameCustomer ==
  ASSUME NEW i, NEW j, Key(i) = Key(j)
  PROVE  CustomerOf[i] = CustomerOf[j]
BY DEF Key

LEMMA WaitingJobs ==
  ASSUME Types
  PROVE  \A c \in Customers : \A i \in 1 .. Len(line[c]) : line[c][i] \in Jobs
<1> TAKE c \in Customers
<1>1. line[c] \in Seq(Jobs)
  BY DEF Types
<1> QED
  BY <1>1, ElementOfSeq

LEMMA InitInv == Init => Inv
<1> SUFFICES ASSUME Init
             PROVE  Inv
  OBVIOUS
<1> USE ProcessorAssumption, PipelineAssumption DEF Init, ProcInit, Lanes!LanesInit
<1>1. \A j \in Jobs : pc[j] = "idle" /\ call[j] = NoCall /\ outcome[j] = NoOutcome
  OBVIOUS
<1>2. \A c \in Customers : line[c] = <<>> /\ window[c] = <<>> /\ busy[c] = NoJob
  OBVIOUS
<1>3. <<>> \in Seq(Jobs) /\ Len(<<>>) = 0
  BY EmptySeq
<1>4. TypeOK
  <2>1. pc \in [Jobs -> PCs]
    BY DEF PCs
  <2>2. \A j \in Jobs : call[j].config \in 0 .. Len(RuleSets)
    BY <1>1 DEF NoCall
  <2>3. \A j \in Jobs : /\ outcome[j].kind = "none"
                        /\ pc[j] = "idle"
    BY <1>1 DEF NoOutcome
  <2>4. idempotency \in [Keys -> {"absent", "live", "expired"}]
    OBVIOUS
  <2>5. window \in [Customers -> Seq(Jobs)]
    BY <1>3
  <2>6. active \in 1 .. Len(RuleSets)
    OBVIOUS
  <2>7. DOMAIN published = {}
    OBVIOUS
  <2>8. busy \in [Customers -> Jobs \cup {NoJob}]
    OBVIOUS
  <2> QED
    BY <2>1, <2>2, <2>3, <2>4, <2>5, <2>6, <2>7, <2>8, <1>2 DEF TypeOK
<1>5. Types
  <2>1. outcome \in [Jobs -> [kind : OutcomeKinds, partial : BOOLEAN]]
    BY DEF NoOutcome, OutcomeKinds
  <2>2. DOMAIN call = Jobs /\ \A j \in Jobs : DOMAIN call[j] = CallFields
    BY <1>1 DEF NoCall, CallFields
  <2>3. published \in Seq(Jobs)
    BY <1>3
  <2>4. line \in [Customers -> Seq(Jobs)] /\ accepted \subseteq Jobs
    BY <1>3
  <2> QED
    BY <1>4, <2>1, <2>2, <2>3, <2>4 DEF Types
<1>6. LanesOK
  BY <1>1, <1>2, <1>3 DEF LanesOK, InProcess, Deciding
<1>7. CallsOK
  BY <1>1 DEF CallsOK, InProcess, Deciding
<1>8. TracesOK
  BY <1>1, <1>2, <1>3 DEF TracesOK
<1>9. DecisionsOK
  <2>1. \A j \in Jobs : outcome[j].kind = "none"
    BY <1>1 DEF NoOutcome
  <2> QED
    BY <2>1 DEF DecisionsOK, Committed, MarkedIsCommitted
<1> QED
  BY <1>5, <1>6, <1>7, <1>8, <1>9 DEF Inv

-----------------------------------------------------------------------------
(* What a step of call j may do to the local variables of calls.            *)
CallChanges(j) ==
  /\ DOMAIN call' = Jobs
  /\ \A i \in Jobs \ {j} : call'[i] = call[i]
  /\ DOMAIN call'[j] = CallFields
  /\ call'[j].config \in 0 .. Len(RuleSets)

(* What the rules asked for depends on the variables of the call alone.     *)
LEMMA SuspicionStays ==
  ASSUME NEW i, call'[i] = call[i]
  PROVE  Suspicious(i)' <=> Suspicious(i)
BY DEF Suspicious

(* A step that neither returns nor publishes.                               *)
LEMMA AdvanceStep ==
  ASSUME Inv, NEW j \in Jobs, NEW to \in Deciding \ {"mark"},
         pc[j] \in InProcess \ {"mark"},
         pc' = [pc EXCEPT ![j] = to],
         to = "record" => pc[j] = "seen",
         CallChanges(j),
         idempotency[Key(j)] # "live",
         idempotency' = idempotency
           \/ idempotency' = [idempotency EXCEPT ![Key(j)] = "absent"],
         window' \in [Customers -> Seq(Jobs)],
         \A c \in Customers : \A i \in 1 .. Len(window'[c]) :
           \/ window'[c][i] = j /\ to = "config"
           \/ \E k \in 1 .. Len(window[c]) : window'[c][i] = window[c][k],
         UNCHANGED <<outcome, windowDown, active, published, lanesVars>>
  PROVE  Inv'
<1> USE DEF Inv, lanesVars
<1>1. /\ pc' \in [Jobs -> PCs] /\ pc'[j] = to
      /\ \A i \in Jobs \ {j} : pc'[i] = pc[i]
  BY DEF Types, TypeOK, PCs, Deciding
<1>2. \A i \in Jobs : pc'[i] = "done" <=> pc[i] = "done"
  BY <1>1 DEF InProcess, Deciding
<1>3. Types'
  <2>1. idempotency' \in [Keys -> {"absent", "live", "expired"}]
    BY DEF Types, TypeOK
  <2>2. \A i \in Jobs : /\ DOMAIN call'[i] = CallFields
                        /\ call'[i].config \in 0 .. Len(RuleSets)
    BY DEF CallChanges, Types, TypeOK
  <2>3. TypeOK'
    BY <1>1, <1>2, <2>1, <2>2 DEF Types, TypeOK
  <2> QED
    BY <2>2, <2>3 DEF Types, CallChanges
<1>4. LanesOK'
  <2>1. pc[j] # "idle" /\ pc'[j] \in InProcess /\ pc'[j] # "idle"
    BY <1>1 DEF InProcess, Deciding
  <2>2. j \in accepted /\ busy[CustomerOf[j]] = j
    BY <2>1 DEF LanesOK
  <2>3. \A c \in Customers : \A i \in 1 .. Len(line[c]) :
          line[c][i] \in Jobs /\ line[c][i] # j
    BY <2>1, WaitingJobs DEF LanesOK
  <2>4. \A c \in Customers : busy[c] # NoJob => busy[c] \in Jobs
    BY DEF Types, TypeOK
  <2> QED
    BY <1>1, <2>1, <2>2, <2>3, <2>4 DEF LanesOK
<1>5. CallsOK'
  <2>2. \A i \in Jobs : Key(i) \in Keys
    BY KeyInKeys
  <2>3. \A i \in Jobs : Key(i)' = Key(i)
    BY DEF Key
  <2>4. \A k \in Keys : idempotency'[k] = "live" => idempotency[k] = "live"
    BY <2>2 DEF Types, TypeOK
  <2> QED
    BY <1>1, <1>2, <2>2, <2>3, <2>4 DEF CallsOK, InProcess, Deciding
<1>6. TracesOK'
  <2>1. \A i \in 1 .. Len(published) : published[i].job \in Jobs
    BY LenProperties DEF Types, TypeOK
  <2>2. \A i \in 1 .. Len(published) : published[i].job # j
    BY DEF TracesOK, InProcess, Deciding
  <2>3. PublishedJobs' = PublishedJobs
    BY DEF PublishedJobs
  <2>4. \A c \in Customers : \A i \in 1 .. Len(window[c]) : window[c][i] \in Jobs
    BY ElementOfSeq DEF Types, TypeOK
  <2>5. outcome[j].kind # "duplicate"
    BY DEF CallsOK, InProcess, Deciding, NoOutcome
  <2>6. ASSUME NEW c \in Customers, NEW i \in 1 .. Len(window'[c])
        PROVE  /\ pc'[window'[c][i]] \in {"config", "risk", "evaluate", "mark", "done"}
               /\ outcome'[window'[c][i]].kind # "duplicate"
    <3>1. CASE window'[c][i] = j /\ to = "config"
      BY <3>1, <1>1, <2>5
    <3>2. ASSUME NEW k \in 1 .. Len(window[c]), window'[c][i] = window[c][k]
          PROVE  /\ pc'[window[c][k]] \in {"config", "risk", "evaluate", "mark", "done"}
                 /\ outcome[window[c][k]].kind # "duplicate"
      <4>1. CASE window[c][k] = j
        BY <4>1, <1>1 DEF TracesOK, Deciding
      <4>2. CASE window[c][k] # j
        BY <4>2, <1>1, <2>4 DEF TracesOK
      <4> QED
        BY <4>1, <4>2
    <3>3. \/ window'[c][i] = j /\ to = "config"
          \/ \E k \in 1 .. Len(window[c]) : window'[c][i] = window[c][k]
      OBVIOUS
    <3>4. outcome' = outcome
      OBVIOUS
    <3> QED
      BY <3>1, <3>2, <3>3, <3>4, Zenon
  <2> QED
    BY <1>1, <2>1, <2>2, <2>3, <2>6 DEF TracesOK
<1>7. DecisionsOK'
  <2>1. \A i \in Jobs : Committed(i) => i # j
    BY DEF Committed, CallsOK, InProcess, Deciding, NoOutcome
  <2>2. \A i \in Jobs : Committed(i) => (Suspicious(i)' <=> Suspicious(i))
    BY <2>1, SuspicionStays DEF CallChanges
  <2>3. /\ \A i \in Jobs : Committed(i)' <=> Committed(i)
        /\ PublishedJobs' = PublishedJobs
        /\ \A i \in Jobs : Key(i)' = Key(i)
    BY DEF Committed, PublishedJobs, Key
  <2>4. \A k \in Keys : idempotency'[k] # "absent" => idempotency[k] # "absent"
    BY KeyInKeys DEF Types, TypeOK
  <2>5. \A i \in Jobs : Committed(i)' /\ Suspicious(i)' => i \in PublishedJobs'
    BY <2>2, <2>3 DEF DecisionsOK
  <2>6. MarkedIsCommitted'
    BY <2>2, <2>3, <2>4 DEF DecisionsOK, MarkedIsCommitted
  <2> QED
    BY <2>3, <2>5, <2>6 DEF DecisionsOK
<1> QED
  BY <1>3, <1>4, <1>5, <1>6, <1>7

(* A step that returns: a duplicate, an error, or a verdict that it marks.  *)
Verdict(j, kind) ==
  /\ kind \in {"clean", "alert"}
  /\ pc[j] \in Deciding
  /\ kind = "clean" => pc[j] = "evaluate"
  /\ Suspicious(j) => pc[j] = "mark"
  /\ idempotency' = [idempotency EXCEPT ![Key(j)] = "live"]

LEMMA ReturnStep ==
  ASSUME Inv, NEW j \in Jobs, pc[j] \in InProcess,
         NEW kind \in {"duplicate", "error", "clean", "alert"},
         NEW partial \in BOOLEAN,
         Returns(j, kind, partial),
         \/ Verdict(j, kind)
         \/ kind = "error" /\ idempotency' = idempotency
         \/ /\ kind = "duplicate" /\ idempotency' = idempotency
            /\ pc[j] = "seen" /\ idempotency[Key(j)] = "live",
         UNCHANGED <<call, window, windowDown, active, published, lanesVars>>
  PROVE  Inv'
<1> USE DEF Inv, lanesVars
<1>1. /\ pc' \in [Jobs -> PCs] /\ pc'[j] = "done"
      /\ \A i \in Jobs \ {j} : pc'[i] = pc[i]
  BY DEF Types, TypeOK, PCs, Returns, Goto
<1>2. /\ outcome' \in [Jobs -> [kind : OutcomeKinds, partial : BOOLEAN]]
      /\ outcome'[j].kind = kind
      /\ \A i \in Jobs \ {j} : outcome'[i] = outcome[i]
  BY DEF Types, Returns, OutcomeKinds
<1>3. /\ \A i \in Jobs : Key(i) \in Keys /\ Key(i)' = Key(i)
      /\ PublishedJobs' = PublishedJobs
      /\ \A i \in Jobs : Suspicious(i)' <=> Suspicious(i)
  BY KeyInKeys, SuspicionStays DEF Key, PublishedJobs
<1>4. outcome[j] = NoOutcome /\ outcome[j].kind = "none"
  BY DEF CallsOK, InProcess, Deciding, NoOutcome
<1>5. Types'
  <2>1. idempotency' \in [Keys -> {"absent", "live", "expired"}]
    BY DEF Types, TypeOK, Verdict
  <2>2. \A i \in Jobs : outcome'[i] \in [kind : OutcomeKinds, partial : BOOLEAN]
    BY <1>2
  <2>3. \A i \in Jobs : outcome'[i].kind # "none" <=> pc'[i] = "done"
    BY <1>1, <1>2 DEF Types, TypeOK
  <2>4. TypeOK'
    BY <1>1, <2>1, <2>2, <2>3 DEF Types, TypeOK, OutcomeKinds
  <2> QED
    BY <1>2, <2>4 DEF Types
<1>6. LanesOK'
  <2>1. pc[j] # "idle"
    BY DEF InProcess, Deciding
  <2>2. j \in accepted
    BY <2>1 DEF LanesOK
  <2>3. \A c \in Customers : \A i \in 1 .. Len(line[c]) :
          line[c][i] \in Jobs /\ line[c][i] # j
    BY <2>1, WaitingJobs DEF LanesOK
  <2>4. \A c \in Customers : busy[c] # NoJob => busy[c] \in Jobs
    BY DEF Types, TypeOK
  <2> QED
    BY <1>1, <2>2, <2>3, <2>4 DEF LanesOK, InProcess, Deciding
<1>7. CallsOK'
  <2>1. \A i \in Jobs \ {j} : pc[i] \in Deciding => Key(i) # Key(j)
    BY SameKeySameCustomer DEF LanesOK, InProcess
  <2>2. \A k \in Keys : k # Key(j) => idempotency'[k] = idempotency[k]
    BY DEF Types, TypeOK, Verdict
  <2>3. \A i \in Jobs \ {j} : pc'[i] \in Deciding => idempotency'[Key(i)] # "live"
    BY <1>1, <1>3, <2>1, <2>2 DEF CallsOK
  <2> QED
    BY <1>1, <1>2, <1>3, <2>3 DEF CallsOK, InProcess, Deciding
<1>8. TracesOK'
  <2>1. \A i \in 1 .. Len(published) : published[i].job \in Jobs
    BY LenProperties DEF Types, TypeOK
  <2>2. \A c \in Customers : \A i \in 1 .. Len(window[c]) : window[c][i] \in Jobs
    BY ElementOfSeq DEF Types, TypeOK
  <2>3. ASSUME NEW c \in Customers, NEW i \in 1 .. Len(window[c])
        PROVE  /\ pc'[window[c][i]] \in {"config", "risk", "evaluate", "mark", "done"}
               /\ outcome'[window[c][i]].kind # "duplicate"
    BY <1>1, <1>2, <2>2 DEF TracesOK, Verdict
  <2>4. ASSUME NEW i \in 1 .. Len(published)
        PROVE  /\ pc'[published[i].job] \in {"mark", "done"}
               /\ outcome'[published[i].job].kind
                    \notin {"invalid", "duplicate", "clean"}
    BY <1>1, <1>2, <2>1 DEF TracesOK, Verdict
  <2> QED
    BY <1>1, <1>3, <2>3, <2>4 DEF TracesOK
<1>9. DecisionsOK'
  <2>1. \A i \in Jobs : Committed(i) => i # j /\ Committed(i)'
    BY <1>2, <1>4 DEF Committed
  <2>2. \A i \in Jobs \ {j} : Committed(i)' => Committed(i)
    BY <1>2 DEF Committed
  <2>3. Committed(j)' => Verdict(j, kind)
    BY <1>2 DEF Committed
  <2>4. Verdict(j, kind) => Committed(j)' /\ (Suspicious(j) => j \in PublishedJobs)
    BY <1>2 DEF Committed, Verdict, TracesOK
  <2>5. \A i \in Jobs : Committed(i)' /\ Suspicious(i)' => i \in PublishedJobs'
    BY <1>3, <2>2, <2>3, <2>4 DEF DecisionsOK
  <2>6. MarkedIsCommitted'
    <3> SUFFICES ASSUME NEW k \in Keys, idempotency'[k] # "absent"
                 PROVE  \E i \in Jobs : /\ Key(i)' = k
                                        /\ Committed(i)'
                                        /\ Suspicious(i)' => i \in PublishedJobs'
      BY DEF MarkedIsCommitted
    <3>1. CASE idempotency'[k] = idempotency[k]
      BY <3>1, <1>3, <2>1 DEF DecisionsOK, MarkedIsCommitted
    <3>2. CASE idempotency'[k] # idempotency[k]
      <4>1. Verdict(j, kind) /\ k = Key(j)
        BY <3>2 DEF Types, TypeOK, Verdict
      <4> QED
        BY <4>1, <1>3, <2>4
    <3> QED
      BY <3>1, <3>2
  <2>7. ASSUME NEW d \in Jobs, outcome'[d].kind = "duplicate"
        PROVE  \E i \in Jobs \ {d} : Key(i) = Key(d) /\ Committed(i)
    <3>1. CASE d # j
      BY <3>1, <1>2, <2>7 DEF DecisionsOK
    <3>2. CASE d = j
      <4>1. idempotency[Key(j)] = "live"
        BY <3>2, <1>2, <2>7 DEF Verdict
      <4> QED
        BY <4>1, <3>2, <1>3, <2>1 DEF DecisionsOK, MarkedIsCommitted
    <3> QED
      BY <3>1, <3>2
  <2> QED
    BY <1>3, <2>1, <2>5, <2>6, <2>7 DEF DecisionsOK
<1> QED
  BY <1>5, <1>6, <1>7, <1>8, <1>9

LEMMA CallUnchanged ==
  ASSUME Inv, NEW j \in Jobs, call' = call
  PROVE  CallChanges(j)
BY DEF Inv, Types, TypeOK, CallChanges

LEMMA WindowUnchanged ==
  ASSUME Inv, window' = window
  PROVE  /\ window' \in [Customers -> Seq(Jobs)]
         /\ \A c \in Customers : \A i \in 1 .. Len(window'[c]) :
              \E k \in 1 .. Len(window[c]) : window'[c][i] = window[c][k]
BY DEF Inv, Types, TypeOK

(* The steps of the evaluation and the two before it change one record.     *)
LEMMA CallFieldChanges ==
  ASSUME Inv, NEW j \in Jobs,
         \/ \E w : call' = [call EXCEPT ![j].windowAvailable = w, ![j].recorded = w]
         \/ call' = [call EXCEPT ![j].config = active]
         \/ \E limit : call' = [call EXCEPT ![j].limit = limit]
         \/ \E result : NextRule(j, result)
  PROVE  CallChanges(j)
<1> USE DEF Inv, Types, TypeOK
<1>1. active \in 0 .. Len(RuleSets)
  BY ProcessorAssumption
<1>2. ASSUME NEW w, call' = [call EXCEPT ![j].windowAvailable = w, ![j].recorded = w]
      PROVE  CallChanges(j)
  BY <1>2 DEF CallChanges, CallFields
<1>3. CASE call' = [call EXCEPT ![j].config = active]
  BY <1>1, <1>3 DEF CallChanges, CallFields
<1>4. ASSUME NEW limit, call' = [call EXCEPT ![j].limit = limit]
      PROVE  CallChanges(j)
  BY <1>4 DEF CallChanges, CallFields
<1>5. ASSUME NEW result, NextRule(j, result)
      PROVE  CallChanges(j)
  BY <1>5 DEF CallChanges, CallFields, NextRule
<1> QED
  BY <1>2, <1>3, <1>4, <1>5

LEMMA RecordInv ==
  ASSUME Inv, NEW j \in Jobs, RecordWindow(j), UNCHANGED lanesVars
  PROVE  Inv'
<1> USE DEF RecordWindow, Goto
<1>1. CallChanges(j)
  BY CallFieldChanges
<1>2. idempotency[Key(j)] # "live"
  BY DEF Inv, CallsOK, Deciding
<1>3. /\ window' \in [Customers -> Seq(Jobs)]
      /\ \A c \in Customers : \A i \in 1 .. Len(window'[c]) :
           \/ window'[c][i] = j
           \/ \E k \in 1 .. Len(window[c]) : window'[c][i] = window[c][k]
  <2>1. CASE windowDown
    BY <2>1, WindowUnchanged
  <2>2. CASE ~windowDown
    <3> DEFINE d == CustomerOf[j]
    <3>1. d \in Customers /\ window \in [Customers -> Seq(Jobs)] /\ window[d] \in Seq(Jobs)
      BY ProcessorAssumption DEF Inv, Types, TypeOK
    <3>2. window' = [window EXCEPT ![d] = Append(window[d], j)]
      BY <2>2
    <3>3. /\ Append(window[d], j) \in Seq(Jobs)
          /\ Len(Append(window[d], j)) = Len(window[d]) + 1
          /\ \A i \in 1 .. Len(window[d]) : Append(window[d], j)[i] = window[d][i]
          /\ Append(window[d], j)[Len(window[d]) + 1] = j
          /\ Len(window[d]) \in Nat
      BY <3>1, AppendProperties, LenProperties
    <3> HIDE DEF d
    <3>4. window' \in [Customers -> Seq(Jobs)]
      BY <3>1, <3>2, <3>3
    <3>5. ASSUME NEW c \in Customers, NEW i \in 1 .. Len(window'[c])
          PROVE  \/ window'[c][i] = j
                 \/ \E k \in 1 .. Len(window[c]) : window'[c][i] = window[c][k]
      <4>1. CASE c = d
        BY <3>1, <3>2, <3>3, <4>1
      <4>2. CASE c # d
        BY <3>1, <3>2, <4>2
      <4> QED
        BY <4>1, <4>2
    <3> QED
      BY <3>4, <3>5
  <2> QED
    BY <2>1, <2>2
<1>4. "config" \in Deciding \ {"mark"} /\ pc[j] \in InProcess \ {"mark"}
  BY DEF Deciding, InProcess
<1> QED
  BY <1>1, <1>2, <1>3, <1>4, AdvanceStep

LEMMA PublishInv ==
  ASSUME Inv, NEW j \in Jobs, Publish(j), UNCHANGED lanesVars
  PROVE  Inv'
<1> DEFINE alert == [job |-> j, id |-> AlertID(CustomerOf[j], TransactionOf[j],
                                              CapturedAt[j], call[j].result.hits)]
<1> USE DEF Inv, lanesVars
<1>1. /\ pc[j] = "evaluate" /\ pc'[j] = "mark" /\ pc' \in [Jobs -> PCs]
      /\ \A i \in Jobs \ {j} : pc'[i] = pc[i]
      /\ published' = Append(published, alert)
      /\ UNCHANGED <<call, outcome, idempotency, window, windowDown, active>>
  BY DEF Publish, Evaluated, Goto, Types, TypeOK, PCs
<1>2. alert.job = j
  OBVIOUS
<1> HIDE DEF alert
<1>3. /\ Len(published) \in Nat /\ Len(published') = Len(published) + 1
      /\ \A i \in 1 .. Len(published) : published'[i] = published[i]
      /\ published'[Len(published) + 1] = alert
      /\ DOMAIN published = 1 .. Len(published)
      /\ DOMAIN published' = 1 .. Len(published')
      /\ \E S : published' \in Seq(S)
  <2>1. PICK S : published \in Seq(S)
    BY DEF Types
  <2>2. published \in Seq(S \cup {alert})
    BY <2>1, SeqMonotonic
  <2>3. published' \in Seq(S \cup {alert})
    BY <1>1, <2>2, AppendProperties
  <2> QED
    BY <1>1, <2>2, <2>3, AppendProperties, LenProperties
<1>4. PublishedJobs' = PublishedJobs \cup {j}
  BY <1>2, <1>3 DEF PublishedJobs
<1>5. \A i \in Jobs : pc'[i] = "done" <=> pc[i] = "done"
  BY <1>1
<1>6. Types'
  <2>1. \A i \in DOMAIN published' : published'[i].job \in Jobs
    BY <1>2, <1>3 DEF Types, TypeOK
  <2>2. TypeOK'
    BY <1>1, <1>5, <2>1 DEF Types, TypeOK
  <2> QED
    BY <1>1, <1>3, <2>2 DEF Types
<1>7. LanesOK'
  <2>1. \A c \in Customers : \A i \in 1 .. Len(line[c]) :
          line[c][i] \in Jobs /\ line[c][i] # j
    BY <1>1, WaitingJobs DEF LanesOK
  <2>2. \A c \in Customers : busy[c] # NoJob => busy[c] \in Jobs
    BY DEF Types, TypeOK
  <2>3. j \in accepted /\ busy[CustomerOf[j]] = j
    BY <1>1 DEF LanesOK, InProcess, Deciding
  <2> QED
    BY <1>1, <2>1, <2>2, <2>3 DEF LanesOK, InProcess, Deciding
<1>8. CallsOK'
  BY <1>1 DEF CallsOK, InProcess, Deciding, Key
<1>9. TracesOK'
  <2>1. \A c \in Customers : \A i \in 1 .. Len(window[c]) : window[c][i] \in Jobs
    BY ElementOfSeq DEF Types, TypeOK
  <2>2. outcome[j].kind = "none"
    BY <1>1 DEF CallsOK, NoOutcome
  <2>3. ASSUME NEW i \in 1 .. Len(published')
        PROVE  /\ pc'[published'[i].job] \in {"mark", "done"}
               /\ outcome[published'[i].job].kind
                    \notin {"invalid", "duplicate", "clean"}
    <3>1. CASE i = Len(published) + 1
      BY <1>1, <1>2, <1>3, <2>2, <3>1
    <3>2. CASE i # Len(published) + 1
      <4>1. i \in 1 .. Len(published)
        BY <1>3, <3>2
      <4>2. published[i].job \in Jobs
        BY <1>3, <4>1 DEF Types, TypeOK
      <4> QED
        BY <1>1, <1>3, <4>1, <4>2 DEF TracesOK
    <3> QED
      BY <3>1, <3>2
  <2> QED
    BY <1>1, <1>4, <2>1, <2>3 DEF TracesOK
<1>10. DecisionsOK'
  <2>1. /\ \A i \in Jobs : Key(i)' = Key(i)
        /\ \A i \in Jobs : Committed(i)' <=> Committed(i)
        /\ \A i \in Jobs : Suspicious(i)' <=> Suspicious(i)
    BY <1>1, SuspicionStays DEF Key, Committed
  <2>2. MarkedIsCommitted'
    BY <1>1, <1>4, <2>1 DEF DecisionsOK, MarkedIsCommitted
  <2> QED
    BY <1>1, <1>4, <2>1, <2>2 DEF DecisionsOK
<1> QED
  BY <1>6, <1>7, <1>8, <1>9, <1>10

LEMMA ProcessInv ==
  ASSUME Inv, NEW j \in Jobs, ProcessStep(j), UNCHANGED lanesVars
  PROVE  Inv'
<1> USE DEF stores, Goto
<1>1. pc[j] \in InProcess => /\ outcome[j].kind = "none"
                             /\ pc[j] # "seen" => idempotency[Key(j)] # "live"
  BY DEF Inv, CallsOK, NoOutcome, InProcess, Deciding
<1>2. CASE CheckSeen(j)
  <2>1. CASE idempotency[Key(j)] = "live"
    BY <1>2, <2>1, ReturnStep DEF CheckSeen, InProcess
  <2>2. CASE idempotency[Key(j)] # "live"
    <3>1. /\ "record" \in Deciding \ {"mark"} /\ pc[j] \in InProcess \ {"mark"}
          /\ pc[j] = "seen" /\ pc' = [pc EXCEPT ![j] = "record"]
          /\ idempotency' = [idempotency EXCEPT ![Key(j)] = "absent"]
          /\ UNCHANGED <<outcome, call, window, windowDown, active, published>>
      BY <1>2, <2>2 DEF CheckSeen, Deciding, InProcess
    <3> QED
      BY <2>2, <3>1, CallUnchanged, WindowUnchanged, AdvanceStep
  <2> QED
    BY <2>1, <2>2
<1>3. CASE SeenFails(j)
  BY <1>3, ReturnStep DEF SeenFails, Fails, InProcess
<1>4. CASE RecordWindow(j)
  BY <1>4, RecordInv
<1>5. ASSUME NEW to \in {"risk", "evaluate"}, pc' = [pc EXCEPT ![j] = to],
             pc[j] \in {"config", "risk", "evaluate"}, CallChanges(j),
             UNCHANGED <<outcome, stores>>
      PROVE  Inv'
  <2>1. to \in Deciding \ {"mark"} /\ pc[j] \in InProcess \ {"mark"} /\ to # "record"
    BY <1>5 DEF Deciding, InProcess
  <2>2. idempotency[Key(j)] # "live"
    BY <1>1, <1>5, <2>1
  <2> QED
    BY <1>5, <2>1, <2>2, WindowUnchanged, AdvanceStep
<1>6. CASE ReadConfig(j)
  BY <1>5, <1>6, CallFieldChanges DEF ReadConfig
<1>7. CASE ResolveRisk(j)
  BY <1>5, <1>7, CallFieldChanges DEF ResolveRisk
<1>8. ASSUME pc[j] = "evaluate", pc' = pc, \E result : NextRule(j, result),
             UNCHANGED <<outcome, stores>>
      PROVE  Inv'
  <2>1. pc' = [pc EXCEPT ![j] = "evaluate"]
    BY <1>8 DEF Inv, Types, TypeOK
  <2> QED
    BY <1>5, <1>8, <2>1, CallFieldChanges
<1>9. CASE SkipRule(j)
  BY <1>8, <1>9 DEF SkipRule, AtRule
<1>10. ASSUME pc[j] = "evaluate", Fails(j), UNCHANGED <<call, stores>>
       PROVE  Inv'
  BY <1>10, ReturnStep DEF Fails, InProcess, Deciding
<1>11. CASE EvaluateRule(j)
  <2>1. pc[j] = "evaluate" /\ UNCHANGED stores
    BY <1>11 DEF EvaluateRule, AtRule
  <2>2. \/ (\E result : NextRule(j, result)) /\ UNCHANGED <<pc, outcome>>
        \/ Fails(j) /\ UNCHANGED call
    BY <1>11, Zenon DEF EvaluateRule
  <2> QED
    BY <1>8, <1>10, <2>1, <2>2
<1>12. CASE Publish(j)
  BY <1>12, PublishInv
<1>13. CASE PublishFails(j)
  BY <1>10, <1>13 DEF PublishFails, Evaluated
<1>14. CASE Mark(j)
  <2> DEFINE kind == IF pc[j] = "mark" THEN "alert" ELSE "clean"
  <2>1. Partial(j) \in BOOLEAN
    BY Zenon DEF Partial
  <2>2. pc[j] \in Deciding /\ Verdict(j, kind)
    BY <1>14 DEF Mark, AtMark, Evaluated, Verdict, Deciding
  <2>3. kind \in {"clean", "alert"} /\ Returns(j, kind, Partial(j))
    BY <1>14 DEF Mark
  <2>4. UNCHANGED <<call, window, windowDown, active, published>>
    BY <1>14 DEF Mark
  <2> QED
    BY <2>1, <2>2, <2>3, <2>4, ReturnStep DEF InProcess
<1>15. CASE MarkFails(j)
  BY <1>15, ReturnStep DEF MarkFails, AtMark, Evaluated, Fails, InProcess, Deciding
<1>16. CASE RecordFails(j)
  BY <1>16, ReturnStep DEF RecordFails, Fails, InProcess, Deciding
<1> QED
  BY <1>2, <1>3, <1>4, <1>6, <1>7, <1>9, <1>11, <1>12, <1>13, <1>14, <1>15, <1>16
     DEF ProcessStep

LEMMA EnvironmentInv ==
  ASSUME Inv, Environment, UNCHANGED lanesVars
  PROVE  Inv'
<1> USE DEF Inv, lanesVars
<1>1. UNCHANGED <<pc, call, outcome, window, published>>
  BY DEF Environment, ToggleWindow, Reload, Lapse
<1>2. /\ idempotency' \in [Keys -> {"absent", "live", "expired"}]
      /\ \A k \in Keys : /\ idempotency'[k] = "live" => idempotency[k] = "live"
                         /\ idempotency'[k] # "absent" => idempotency[k] # "absent"
  BY DEF Environment, ToggleWindow, Reload, Lapse, Types, TypeOK
<1>3. active' \in 1 .. Len(RuleSets)
  BY ProcessorAssumption DEF Environment, ToggleWindow, Reload, Lapse, Types, TypeOK
<1>4. windowDown' \in BOOLEAN
  <2>1. CASE ToggleWindow
    BY <2>1, Zenon DEF ToggleWindow
  <2>2. CASE Reload \/ \E k \in Keys : Lapse(k)
    BY <2>2 DEF Reload, Lapse, Types, TypeOK
  <2> QED
    BY <2>1, <2>2 DEF Environment
<1>5. /\ \A i \in Jobs : Key(i) \in Keys /\ Key(i)' = Key(i)
      /\ \A i \in Jobs : Committed(i)' <=> Committed(i)
      /\ \A i \in Jobs : Suspicious(i)' <=> Suspicious(i)
      /\ PublishedJobs' = PublishedJobs
  BY <1>1, KeyInKeys, SuspicionStays DEF Key, Committed, PublishedJobs
<1>6. Types'
  BY <1>1, <1>2, <1>3, <1>4 DEF Types, TypeOK
<1>7. LanesOK'
  BY <1>1 DEF LanesOK
<1>8. CallsOK'
  BY <1>1, <1>2, <1>5 DEF CallsOK
<1>9. TracesOK'
  BY <1>1, <1>5 DEF TracesOK
<1>10. MarkedIsCommitted'
  BY <1>1, <1>2, <1>5 DEF DecisionsOK, MarkedIsCommitted
<1>11. DecisionsOK'
  BY <1>1, <1>5, <1>10 DEF DecisionsOK
<1> QED
  BY <1>6, <1>7, <1>8, <1>9, <1>11

(* Steps of the lanes alone leave every call where it is.                   *)
LEMMA ProcUnchanged ==
  ASSUME Inv, UNCHANGED procVars
  PROVE  CallsOK' /\ TracesOK' /\ DecisionsOK'
<1> USE DEF Inv, procVars, stores
<1>1. /\ \A i \in Jobs : Key(i)' = Key(i)
      /\ \A i \in Jobs : Committed(i)' <=> Committed(i)
      /\ \A i \in Jobs : Suspicious(i)' <=> Suspicious(i)
      /\ PublishedJobs' = PublishedJobs
  BY SuspicionStays DEF Key, Committed, PublishedJobs
<1>2. CallsOK'
  BY <1>1 DEF CallsOK
<1>3. TracesOK'
  BY <1>1 DEF TracesOK
<1>4. MarkedIsCommitted'
  BY <1>1 DEF DecisionsOK, MarkedIsCommitted
<1> QED
  BY <1>1, <1>2, <1>3, <1>4 DEF DecisionsOK

LEMMA SubmitInv ==
  ASSUME Inv, NEW j \in Jobs, Submit(j)
  PROVE  Inv'
<1> DEFINE d == CustomerOf[j]
<1> USE DEF Inv
<1>1. d \in Customers /\ line[d] \in Seq(Jobs) /\ line \in [Customers -> Seq(Jobs)]
  BY ProcessorAssumption DEF Types
<1>2. /\ j \notin accepted /\ accepted' = accepted \cup {j}
      /\ line' = [line EXCEPT ![d] = Append(line[d], j)]
      /\ UNCHANGED <<busy, over, pc, call, outcome, window, idempotency, windowDown,
                     active, published>>
  BY DEF Submit, Lanes!Accept, procVars, stores
<1>3. d = CustomerOf[j]
  OBVIOUS
<1> HIDE DEF d
<1>4. /\ Append(line[d], j) \in Seq(Jobs)
      /\ Len(Append(line[d], j)) = Len(line[d]) + 1
      /\ \A i \in 1 .. Len(line[d]) : Append(line[d], j)[i] = line[d][i]
      /\ Append(line[d], j)[Len(line[d]) + 1] = j
      /\ Len(line[d]) \in Nat
  BY <1>1, AppendProperties, LenProperties
<1>5. Types'
  <2>1. line' \in [Customers -> Seq(Jobs)]
    BY <1>1, <1>2, <1>4
  <2>2. TypeOK'
    BY <1>2 DEF Types, TypeOK
  <2> QED
    BY <1>2, <2>1, <2>2 DEF Types
<1>6. LanesOK'
  <2>1. pc[j] = "idle"
    BY <1>2 DEF LanesOK
  <2>2. \A c \in Customers \ {d} : line'[c] = line[c]
    BY <1>1, <1>2
  <2>3. line'[d] = Append(line[d], j)
    BY <1>1, <1>2
  <2>4. \A i \in 1 .. Len(line[d]) : line[d][i] # j
    BY <1>1, <1>2 DEF LanesOK
  <2>5. ASSUME NEW c \in Customers, NEW i \in 1 .. Len(line'[c])
        PROVE  /\ line'[c][i] \in accepted'
               /\ CustomerOf[line'[c][i]] = c
               /\ pc[line'[c][i]] = "idle"
               /\ \A k \in 1 .. Len(line'[c]) : line'[c][i] = line'[c][k] => i = k
    <3>1. CASE c # d
      BY <1>2, <2>2, <3>1 DEF LanesOK
    <3>2. CASE c = d /\ i = Len(line[d]) + 1
      BY <1>2, <1>3, <1>4, <2>1, <2>3, <2>4, <3>2 DEF LanesOK
    <3>3. CASE c = d /\ i # Len(line[d]) + 1
      <4>1. i \in 1 .. Len(line[d]) /\ line'[d][i] = line[d][i]
        BY <1>4, <2>3, <3>3
      <4>2. /\ line[d][i] \in accepted /\ CustomerOf[line[d][i]] = d
            /\ pc[line[d][i]] = "idle"
            /\ \A k \in 1 .. Len(line[d]) : line[d][i] = line[d][k] => i = k
        BY <1>1, <4>1 DEF LanesOK
      <4>3. ASSUME NEW k \in 1 .. Len(line'[d]), line'[d][i] = line'[d][k]
            PROVE  i = k
        BY <1>4, <2>3, <2>4, <4>1, <4>2, <4>3
      <4> QED
        BY <1>2, <3>3, <4>1, <4>2, <4>3
    <3> QED
      BY <3>1, <3>2, <3>3
  <2> QED
    BY <1>2, <2>5 DEF LanesOK
<1>7. CallsOK' /\ TracesOK' /\ DecisionsOK'
  BY ProcUnchanged DEF Submit
<1> QED
  BY <1>5, <1>6, <1>7

(* The call at the head of a lane did not begin and left no trace.          *)
LEMMA HeadOfLine ==
  ASSUME Inv, NEW c \in Customers, line[c] # <<>>
  PROVE  /\ Head(line[c]) \in Jobs \cap accepted
         /\ CustomerOf[Head(line[c])] = c
         /\ pc[Head(line[c])] = "idle"
         /\ outcome[Head(line[c])] = NoOutcome
         /\ Head(line[c]) \notin PublishedJobs
         /\ Tail(line[c]) \in Seq(Jobs)
         /\ \A i \in 1 .. Len(Tail(line[c])) :
              /\ i + 1 \in 1 .. Len(line[c])
              /\ Tail(line[c])[i] = line[c][i + 1]
              /\ Tail(line[c])[i] # Head(line[c])
<1> USE DEF Inv
<1>1. line[c] \in Seq(Jobs)
  BY DEF Types
<1>2. /\ Head(line[c]) \in Jobs /\ Tail(line[c]) \in Seq(Jobs)
      /\ Len(Tail(line[c])) = Len(line[c]) - 1
      /\ \A i \in 1 .. Len(Tail(line[c])) : Tail(line[c])[i] = line[c][i + 1]
      /\ Len(line[c]) \in Nat \ {0} /\ Head(line[c]) = line[c][1]
  BY <1>1, HeadTailProperties, EmptySeq
<1>3. /\ Head(line[c]) \in accepted
      /\ CustomerOf[Head(line[c])] = c
      /\ pc[Head(line[c])] = "idle"
  BY <1>2 DEF LanesOK
<1>4. outcome[Head(line[c])] = NoOutcome
  BY <1>2, <1>3 DEF CallsOK
<1>5. Head(line[c]) \notin PublishedJobs
  <2>1. DOMAIN published = 1 .. Len(published)
    BY LenProperties DEF Types
  <2> QED
    BY <1>3, <2>1 DEF TracesOK, PublishedJobs
<1>6. ASSUME NEW i \in 1 .. Len(Tail(line[c]))
      PROVE  /\ i + 1 \in 1 .. Len(line[c])
             /\ Tail(line[c])[i] # Head(line[c])
  <2>1. i + 1 \in 1 .. Len(line[c]) /\ i + 1 # 1 /\ 1 \in 1 .. Len(line[c])
    BY <1>2
  <2> QED
    BY <1>2, <2>1 DEF LanesOK
<1> QED
  BY <1>2, <1>3, <1>4, <1>5, <1>6

LEMMA StartInv ==
  ASSUME Inv, NEW c \in Customers, StartJob(c)
  PROVE  Inv'
<1> DEFINE j == Head(line[c])
<1> USE DEF Inv
<1>1. /\ busy[c] = NoJob /\ line[c] # <<>>
      /\ busy' = [busy EXCEPT ![c] = j]
      /\ line' = [line EXCEPT ![c] = Tail(line[c])]
      /\ UNCHANGED <<accepted, over>>
  BY DEF StartJob, Lanes!Start
<1>2. /\ j \in Jobs \cap accepted /\ CustomerOf[j] = c /\ pc[j] = "idle"
      /\ outcome[j] = NoOutcome /\ j \notin PublishedJobs
      /\ Tail(line[c]) \in Seq(Jobs)
      /\ \A i \in 1 .. Len(Tail(line[c])) :
           /\ i + 1 \in 1 .. Len(line[c])
           /\ Tail(line[c])[i] = line[c][i + 1]
           /\ Tail(line[c])[i] # j
  BY <1>1, HeadOfLine
<1>3. Begin(j)
  BY DEF StartJob
<1> HIDE DEF j
<1>4. /\ UNCHANGED <<call, idempotency, window, windowDown, active, published>>
      /\ pc' \in [Jobs -> PCs] /\ pc'[j] \in {"seen", "done"}
      /\ pc'[j] = "seen" => j \in Valid
      /\ \A i \in Jobs \ {j} : pc'[i] = pc[i] /\ outcome'[i] = outcome[i]
      /\ outcome' \in [Jobs -> [kind : OutcomeKinds, partial : BOOLEAN]]
      /\ outcome'[j] = IF pc'[j] = "seen" THEN NoOutcome
                       ELSE [kind |-> "invalid", partial |-> FALSE]
  <2>1. CASE j \in Valid
    BY <1>2, <1>3, <2>1 DEF Begin, Goto, stores, Types, TypeOK, PCs
  <2>2. CASE j \notin Valid
    <3>1. /\ UNCHANGED <<call, idempotency, window, windowDown, active, published>>
          /\ pc' = [pc EXCEPT ![j] = "done"]
          /\ outcome' = [outcome EXCEPT ![j] = [kind |-> "invalid", partial |-> FALSE]]
      BY <1>3, <2>2 DEF Begin, Goto, Returns, stores
    <3>2. [kind |-> "invalid", partial |-> FALSE] \in [kind : OutcomeKinds, partial : BOOLEAN]
      BY DEF OutcomeKinds
    <3> QED
      BY <1>2, <3>1, <3>2 DEF Types, TypeOK, PCs
  <2> QED
    BY <2>1, <2>2
<1>5. outcome'[j].kind = IF pc'[j] = "seen" THEN "none" ELSE "invalid"
  BY <1>4 DEF NoOutcome
<1>6. Types'
  <2>1. line' \in [Customers -> Seq(Jobs)]
    BY <1>1, <1>2 DEF Types
  <2>2. \A i \in Jobs : outcome'[i].kind # "none" <=> pc'[i] = "done"
    BY <1>4, <1>5 DEF Types, TypeOK
  <2>3. \A i \in Jobs : outcome'[i].kind \in OutcomeKinds
    <3> TAKE i \in Jobs
    <3>1. outcome'[i] \in [kind : OutcomeKinds, partial : BOOLEAN]
      BY <1>4
    <3> QED
      BY <3>1
  <2>4. /\ busy' \in [Customers -> Jobs \cup {NoJob}]
        /\ \A d \in Customers : busy'[d] # NoJob => CustomerOf[busy'[d]] = d
    BY <1>1, <1>2 DEF Types, TypeOK
  <2>5. TypeOK'
    BY <1>4, <2>2, <2>3, <2>4 DEF Types, TypeOK, OutcomeKinds
  <2> QED
    BY <1>1, <1>4, <2>1, <2>5 DEF Types
<1>7. LanesOK'
  <2>1. ASSUME NEW d \in Customers, NEW i \in 1 .. Len(line'[d])
        PROVE  /\ line'[d][i] \in accepted'
               /\ CustomerOf[line'[d][i]] = d
               /\ pc'[line'[d][i]] = "idle"
               /\ \A k \in 1 .. Len(line'[d]) : line'[d][i] = line'[d][k] => i = k
    <3>1. CASE d # c
      <4>1. line'[d] = line[d]
        BY <1>1, <3>1 DEF Types
      <4>2. line[d][i] \in Jobs /\ CustomerOf[line[d][i]] = d
        BY <4>1, WaitingJobs DEF LanesOK
      <4> QED
        BY <1>1, <1>2, <1>4, <3>1, <4>1, <4>2 DEF LanesOK
    <3>2. CASE d = c
      <4>1. line'[c] = Tail(line[c])
        BY <1>1 DEF Types
      <4>2. /\ i \in Int
            /\ \A k \in 1 .. Len(line'[c]) : /\ k \in Int
                                            /\ k + 1 \in 1 .. Len(line[c])
                                            /\ line'[c][k] = line[c][k + 1]
                                            /\ line'[c][k] # j
        BY <1>2, <3>2, <4>1
      <4>3. line[c][i + 1] \in Jobs
        BY <3>2, <4>2, WaitingJobs
      <4>4. ASSUME NEW k \in 1 .. Len(line'[c]), line'[c][i] = line'[c][k]
            PROVE  i = k
        <5>1. i + 1 = k + 1
          BY <3>2, <4>2, <4>4 DEF LanesOK
        <5> QED
          BY <4>2, <5>1
      <4>5. /\ line[c][i + 1] \in accepted /\ CustomerOf[line[c][i + 1]] = c
            /\ pc[line[c][i + 1]] = "idle"
        BY <3>2, <4>2 DEF LanesOK
      <4>6. line'[c][i] = line[c][i + 1] /\ line'[c][i] # j
        BY <3>2, <4>2
      <4>7. accepted' = accepted /\ pc'[line[c][i + 1]] = pc[line[c][i + 1]]
        BY <1>1, <1>4, <4>3, <4>6
      <4> QED
        BY <3>2, <4>4, <4>5, <4>6, <4>7
    <3> QED
      BY <3>1, <3>2
  <2>2. \A d \in Customers : busy'[d] # NoJob => pc'[busy'[d]] # "idle"
    BY <1>1, <1>2, <1>4 DEF LanesOK, Types, TypeOK
  <2>3. ASSUME NEW i \in Jobs, pc'[i] \in InProcess
        PROVE  busy'[CustomerOf[i]] = i
    <3>1. CASE i = j
      BY <1>1, <1>2, <3>1 DEF Types, TypeOK
    <3>2. CASE i # j
      <4>1. busy[CustomerOf[i]] = i /\ CustomerOf[i] # c
        BY <1>1, <1>4, <2>3, <3>2, PipelineAssumption DEF LanesOK
      <4> QED
        BY <1>1, <4>1 DEF Types, TypeOK
    <3> QED
      BY <3>1, <3>2
  <2>4. \A i \in Jobs \ accepted : pc'[i] = "idle"
    BY <1>2, <1>4 DEF LanesOK
  <2>5. \A d \in Customers : \A i, k \in 1 .. Len(line'[d]) :
          line'[d][i] = line'[d][k] => i = k
    BY <2>1
  <2>6. \A d \in Customers : \A i \in 1 .. Len(line'[d]) :
          /\ line'[d][i] \in accepted'
          /\ CustomerOf[line'[d][i]] = d
          /\ pc'[line'[d][i]] = "idle"
    BY <2>1, Zenon
  <2>7. \A i \in Jobs \ accepted' : pc'[i] = "idle"
    BY <1>1, <2>4
  <2> QED
    BY <2>2, <2>3, <2>5, <2>6, <2>7, Zenon DEF LanesOK
<1>8. CallsOK'
  BY <1>4 DEF CallsOK, InProcess, Deciding, Key
<1>9. TracesOK'
  <2>1. \A d \in Customers : \A i \in 1 .. Len(window[d]) : window[d][i] \in Jobs
    BY ElementOfSeq DEF Types, TypeOK
  <2>2. \A d \in Customers : \A i \in 1 .. Len(window[d]) : window[d][i] # j
    BY <1>2 DEF TracesOK
  <2>3. \A i \in 1 .. Len(published) :
          published[i].job \in Jobs /\ published[i].job # j
    BY <1>2, LenProperties DEF Types, TypeOK, TracesOK
  <2>4. PublishedJobs' = PublishedJobs
    BY <1>4 DEF PublishedJobs
  <2> QED
    BY <1>4, <2>1, <2>2, <2>3, <2>4 DEF TracesOK
<1>10. DecisionsOK'
  <2>1. /\ \A i \in Jobs : Committed(i)' <=> Committed(i)
        /\ ~Committed(j)
    BY <1>2, <1>4, <1>5 DEF Committed, NoOutcome
  <2>2. /\ \A i \in Jobs : Key(i)' = Key(i)
        /\ PublishedJobs' = PublishedJobs
        /\ \A i \in Jobs : Suspicious(i)' <=> Suspicious(i)
    BY <1>4, SuspicionStays DEF Key, PublishedJobs
  <2>3. MarkedIsCommitted'
    BY <1>4, <2>1, <2>2 DEF DecisionsOK, MarkedIsCommitted
  <2>4. \A i \in Jobs : outcome'[i].kind = "duplicate" => outcome[i].kind = "duplicate"
    BY <1>4, <1>5
  <2> QED
    BY <2>1, <2>2, <2>3, <2>4 DEF DecisionsOK
<1> QED
  BY <1>6, <1>7, <1>8, <1>9, <1>10

LEMMA EndInv ==
  ASSUME Inv, NEW c \in Customers, EndJob(c)
  PROVE  Inv'
<1> USE DEF Inv
<1>1. /\ busy[c] # NoJob /\ pc[busy[c]] = "done"
      /\ busy' = [busy EXCEPT ![c] = NoJob]
      /\ UNCHANGED <<line, accepted, pc, call, outcome, window, idempotency,
                     windowDown, active, published>>
  BY DEF EndJob, Lanes!End, procVars, stores
<1>2. Types'
  BY <1>1 DEF Types, TypeOK
<1>3. LanesOK'
  <2>1. \A j \in Jobs : pc[j] \in InProcess => j # busy[c] /\ busy[CustomerOf[j]] = j
    BY <1>1 DEF LanesOK, InProcess, Deciding
  <2>2. \A j \in Jobs : pc[j] \in InProcess => CustomerOf[j] # c
    BY <2>1
  <2> QED
    BY <1>1, <2>1, <2>2 DEF LanesOK, Types, TypeOK
<1>4. CallsOK' /\ TracesOK' /\ DecisionsOK'
  BY ProcUnchanged DEF EndJob
<1> QED
  BY <1>2, <1>3, <1>4

-----------------------------------------------------------------------------
(* The invariant holds for ever.                                            *)
LEMMA StepInv == Inv /\ [Next]_vars => Inv'
<1> SUFFICES ASSUME Inv, [Next]_vars
             PROVE  Inv'
  OBVIOUS
<1>1. ASSUME NEW j \in Jobs, Submit(j)
      PROVE  Inv'
  BY <1>1, SubmitInv
<1>2. ASSUME NEW c \in Customers, LaneStep(c)
      PROVE  Inv'
  <2>1. CASE StartJob(c)
    BY <2>1, StartInv
  <2>2. CASE Step(c)
    <3>1. busy[c] \in Jobs
      BY <2>2 DEF Step, Inv, Types, TypeOK
    <3> QED
      BY <2>2, <3>1, ProcessInv DEF Step
  <2>3. CASE EndJob(c)
    BY <2>3, EndInv
  <2> QED
    BY <1>2, <2>1, <2>2, <2>3 DEF LaneStep
<1>3. CASE Environment /\ UNCHANGED lanesVars
  BY <1>3, EnvironmentInv
<1>4. CASE UNCHANGED vars
  <2>1. UNCHANGED procVars /\ UNCHANGED <<line, busy, accepted, over>>
    BY <1>4 DEF vars, lanesVars
  <2>2. Types' /\ LanesOK'
    BY <2>1 DEF Inv, Types, TypeOK, LanesOK, procVars, stores
  <2> QED
    BY <2>1, <2>2, ProcUnchanged DEF Inv
<1> QED
  BY <1>1, <1>2, <1>3, <1>4 DEF Next

(* The calls of Process, their lanes and the stores agree in every state:   *)
(* the inductive invariant behind the theorems below.                       *)
THEOREM Invariance == Spec => []Inv
BY InitInv, StepInv, PTL DEF Spec

(* The pipeline is well typed, a call has an outcome exactly when it        *)
(* returned, and a lane only runs calls of its own customer.                *)
THEOREM TypeCorrect == Spec => []TypeOK
<1>1. Inv => TypeOK
  BY DEF Inv, Types
<1> QED
  BY <1>1, Invariance, PTL

(* A key in the idempotency store belongs to a call that was decided, with  *)
(* its alert out if the rules asked for one: no failure of Process swallows *)
(* a retry (processor.go:134-136, 163-165).                                 *)
THEOREM MarkedIsCommittedHolds == Spec => []MarkedIsCommitted
<1>1. Inv => MarkedIsCommitted
  BY DEF Inv, DecisionsOK
<1> QED
  BY <1>1, Invariance, PTL

(* A duplicate leaves no trace, and only a transaction another call saw     *)
(* through to its end is called one (FR-002, processor.go:96-104).          *)
THEOREM DuplicateIsCommittedHolds == Spec => []DuplicateIsCommitted
<1>1. Inv => DuplicateIsCommitted
  <2> SUFFICES ASSUME Inv, NEW j \in Jobs, outcome[j].kind = "duplicate"
               PROVE  /\ j \notin Recorded(CustomerOf[j])
                      /\ j \notin PublishedJobs
                      /\ \E i \in Jobs \ {j} : Key(i) = Key(j) /\ Committed(i)
    BY DEF DuplicateIsCommitted
  <2>1. j \notin Recorded(CustomerOf[j])
    <3>1. CustomerOf[j] \in Customers /\ window[CustomerOf[j]] \in Seq(Jobs)
      BY ProcessorAssumption DEF Inv, Types, TypeOK
    <3> QED
      BY <3>1, LenProperties DEF Recorded, ToSet, Inv, TracesOK
  <2>2. j \notin PublishedJobs
    BY LenProperties DEF PublishedJobs, Inv, Types, TracesOK
  <2> QED
    BY <2>1, <2>2 DEF Inv, DecisionsOK
<1> QED
  BY <1>1, Invariance, PTL

-----------------------------------------------------------------------------
(* The refinement: what the stores hold, as SequentialDetector sees it.     *)
MarkedKeys == {k \in Keys : idempotency[k] = "live"}
AlertedJobs == {j \in PublishedJobs : pc[j] = "done"}

(* A step that SequentialDetector does not see.                             *)
LEMMA Unseen ==
  ASSUME UNCHANGED <<outcome, lanesVars>>, MarkedKeys' = MarkedKeys,
         AlertedJobs' = AlertedJobs
  PROVE  UNCHANGED Abstract!detectorVars
BY DEF MarkedKeys, AlertedJobs, lanesVars, Abstract!detectorVars, Abstract!lanesVars,
       Abstract!decisions

LEMMA PublishedTyped ==
  ASSUME Inv
  PROVE  /\ PublishedJobs \subseteq Jobs
         /\ \A j \in PublishedJobs : /\ pc[j] \in {"mark", "done"}
                                     /\ outcome[j].kind # "clean"
BY LenProperties DEF Inv, Types, TypeOK, TracesOK, PublishedJobs

(* The steps of one call that decide nothing.                               *)
LEMMA QuietStep ==
  ASSUME Inv, NEW j \in Jobs, UNCHANGED lanesVars,
         \/ CheckSeen(j) /\ idempotency[Key(j)] # "live"
         \/ RecordWindow(j) \/ ReadConfig(j) \/ ResolveRisk(j) \/ SkipRule(j)
         \/ EvaluateRule(j) /\ ~Fails(j)
         \/ Publish(j)
  PROVE  UNCHANGED Abstract!detectorVars
<1> DEFINE Evaluates == EvaluateRule(j) /\ ~Fails(j)
<1>0. Evaluates => /\ pc[j] = "evaluate"
                   /\ UNCHANGED <<pc, outcome, stores>>
  <2> SUFFICES ASSUME Evaluates
               PROVE  pc[j] = "evaluate" /\ UNCHANGED <<pc, outcome, stores>>
    OBVIOUS
  <2>1. pc[j] = "evaluate" /\ UNCHANGED stores
    BY DEF EvaluateRule, AtRule
  <2>2. UNCHANGED <<pc, outcome>> \/ Fails(j)
    BY Zenon DEF EvaluateRule
  <2> QED
    BY <2>1, <2>2
<1> HIDE DEF Evaluates
<1>1. outcome' = outcome
  <2>1. CASE Evaluates
    BY <1>0, <2>1
  <2>2. CASE Publish(j)
    BY <2>2 DEF Publish
  <2> QED
    BY <2>1, <2>2 DEF Evaluates, CheckSeen, RecordWindow, ReadConfig, ResolveRisk, SkipRule
<1>2. MarkedKeys' = MarkedKeys
  <2>1. CASE CheckSeen(j) /\ idempotency[Key(j)] # "live"
    BY <2>1, KeyInKeys DEF CheckSeen, MarkedKeys, Inv, Types, TypeOK
  <2>2. CASE idempotency' = idempotency
    BY <2>2 DEF MarkedKeys
  <2> QED
    BY <1>0, <2>1, <2>2
       DEF Evaluates, RecordWindow, ReadConfig, ResolveRisk, SkipRule, Publish, stores
<1>3. AlertedJobs' = AlertedJobs
  <2>1. /\ pc[j] # "done"
        /\ \E label \in PCs \ {"done"} : pc' = [pc EXCEPT ![j] = label]
    <3>1. CASE Evaluates \/ SkipRule(j)
      <4>1. pc[j] = "evaluate" /\ pc' = pc
        BY <1>0, <3>1 DEF SkipRule, AtRule
      <4>2. pc' = [pc EXCEPT ![j] = "evaluate"]
        BY <4>1 DEF Inv, Types, TypeOK
      <4> QED
        BY <4>1, <4>2 DEF PCs
    <3>2. CASE ~(Evaluates \/ SkipRule(j))
      BY <3>2 DEF Evaluates, CheckSeen, RecordWindow, ReadConfig, ResolveRisk, Publish, Evaluated,
                  Goto, PCs
    <3> QED
      BY <3>1, <3>2
  <2>2. \A i \in Jobs : pc'[i] = "done" <=> pc[i] = "done"
    BY <2>1 DEF Inv, Types, TypeOK
  <2>3. CASE published' = published
    <3>1. PublishedJobs' = PublishedJobs
      BY <2>3 DEF PublishedJobs
    <3> QED
      BY <2>2, <3>1, PublishedTyped DEF AlertedJobs
  <2>4. CASE Publish(j)
    <3> DEFINE alert == [job |-> j, id |-> AlertID(CustomerOf[j], TransactionOf[j],
                                                  CapturedAt[j], call[j].result.hits)]
    <3>1. published' = Append(published, alert) /\ alert.job = j
      BY <2>4 DEF Publish
    <3> HIDE DEF alert
    <3>2. PublishedJobs' = PublishedJobs \cup {j}
      <4>1. PICK S : published \in Seq(S)
        BY DEF Inv, Types
      <4>2. published \in Seq(S \cup {alert})
        BY <4>1, SeqMonotonic
      <4>3. /\ Len(published) \in Nat /\ Len(published') = Len(published) + 1
            /\ \A i \in 1 .. Len(published) : published'[i] = published[i]
            /\ published'[Len(published) + 1] = alert
            /\ DOMAIN published = 1 .. Len(published)
            /\ DOMAIN published' = 1 .. Len(published')
        BY <3>1, <4>2, AppendProperties, LenProperties
      <4> QED
        BY <3>1, <4>3 DEF PublishedJobs
    <3> QED
      BY <2>1, <2>2, <3>2, PublishedTyped DEF AlertedJobs
  <2> QED
    BY <1>0, <2>3, <2>4
       DEF Evaluates, CheckSeen, RecordWindow, ReadConfig, ResolveRisk, SkipRule, stores
<1>4. UNCHANGED <<outcome, lanesVars>>
  BY <1>1
<1> QED
  BY <1>2, <1>3, <1>4, Unseen

(* When a call returns, its alert counts if it was published.               *)
LEMMA AlertCounts ==
  ASSUME Inv, NEW j \in Jobs, pc[j] \in InProcess,
         pc' = [pc EXCEPT ![j] = "done"], published' = published
  PROVE  /\ pc[j] = "mark" => AlertedJobs' = AlertedJobs \cup {j}
         /\ pc[j] # "mark" => AlertedJobs' = AlertedJobs
<1>1. PublishedJobs' = PublishedJobs
  BY DEF PublishedJobs
<1>2. /\ pc'[j] = "done" /\ pc[j] # "done"
      /\ \A i \in Jobs \ {j} : pc'[i] = pc[i]
  BY DEF Inv, Types, TypeOK, InProcess, Deciding
<1>3. pc[j] = "mark" <=> j \in PublishedJobs
  BY <1>2, PublishedTyped DEF Inv, TracesOK
<1> QED
  BY <1>1, <1>2, <1>3, PublishedTyped DEF AlertedJobs

(* The steps of one call that return are the step that decides it.          *)
LEMMA ReturnRefines ==
  ASSUME Inv, NEW j \in Jobs, UNCHANGED lanesVars,
         \/ CheckSeen(j) /\ idempotency[Key(j)] = "live"
         \/ SeenFails(j) \/ RecordFails(j) \/ PublishFails(j) \/ Mark(j) \/ MarkFails(j)
         \/ EvaluateRule(j) /\ Fails(j)
  PROVE  Abstract!Detect(j)
<1>1. pc[j] \in InProcess /\ j \in Valid /\ outcome[j] = NoOutcome
  <2>1. pc[j] \in InProcess
    BY DEF CheckSeen, SeenFails, RecordFails, PublishFails, Mark, MarkFails, EvaluateRule, AtRule,
           AtMark, Evaluated, InProcess, Deciding
  <2> QED
    BY <2>1 DEF Inv, CallsOK, InProcess, Deciding
<1>2. Abstract!Open(j)
  BY <1>1 DEF Abstract!Open, Abstract!Undecided, NoOutcome
<1>3. [i \in Jobs |-> Key(i)][j] = Key(j) /\ Key(j) \in Keys
  BY KeyInKeys
<1>4. Key(j) \in MarkedKeys <=> idempotency[Key(j)] = "live"
  BY <1>3 DEF MarkedKeys
<1>5. CASE CheckSeen(j) /\ idempotency[Key(j)] = "live"
  <2>1. /\ pc[j] = "seen" /\ pc' = [pc EXCEPT ![j] = "done"] /\ published' = published
        /\ idempotency' = idempotency
        /\ outcome' = [outcome EXCEPT ![j] = [kind |-> "duplicate", partial |-> FALSE]]
    BY <1>5 DEF CheckSeen, Returns, Goto
  <2>2. AlertedJobs' = AlertedJobs /\ MarkedKeys' = MarkedKeys
    BY <1>1, <2>1, AlertCounts DEF MarkedKeys
  <2>3. Abstract!Discard(j)
    BY <1>1, <1>2, <1>3, <1>4, <1>5, <2>1, <2>2
       DEF Abstract!Discard, Abstract!Returned, MarkedKeys, AlertedJobs
  <2> QED
    BY <2>3 DEF Abstract!Detect
<1>6. CASE Fails(j) /\ UNCHANGED stores
  <2>1. /\ pc' = [pc EXCEPT ![j] = "done"] /\ published' = published
        /\ idempotency' = idempotency
        /\ outcome' = [outcome EXCEPT ![j] = [kind |-> "error", partial |-> FALSE]]
    BY <1>6 DEF Fails, Returns, Goto, stores
  <2>2. MarkedKeys' = MarkedKeys
    BY <2>1 DEF MarkedKeys
  <2>3. AlertedJobs' \in {AlertedJobs,
          AlertedJobs \cup (IF Key(j) \in MarkedKeys THEN {} ELSE {j})}
    <3>1. pc[j] = "mark" => Key(j) \notin MarkedKeys
      BY <1>4 DEF Inv, CallsOK, Deciding
    <3> QED
      BY <1>1, <2>1, <3>1, AlertCounts
  <2>4. Abstract!Fail(j)
    BY <1>1, <1>2, <1>3, <2>1, <2>2, <2>3
       DEF Abstract!Fail, Abstract!Returned, MarkedKeys, AlertedJobs
  <2> QED
    BY <2>4 DEF Abstract!Detect
<1>7. CASE Mark(j)
  <2> DEFINE kind == IF pc[j] = "mark" THEN "alert" ELSE "clean"
             verdict == [kind |-> kind, partial |-> Partial(j)]
  <2>1. /\ pc' = [pc EXCEPT ![j] = "done"] /\ published' = published
        /\ idempotency' = [idempotency EXCEPT ![Key(j)] = "live"]
        /\ outcome' = [outcome EXCEPT ![j] = verdict]
        /\ pc[j] \in Deciding
    BY <1>7 DEF Mark, Returns, Goto, AtMark, Evaluated, Deciding
  <2>2. Partial(j) \in BOOLEAN
    BY Zenon DEF Partial
  <2>3. verdict \in [kind : {"clean", "alert"}, partial : BOOLEAN]
    BY <2>2
  <2>4. verdict.kind = "alert" <=> pc[j] = "mark"
    OBVIOUS
  <2> HIDE DEF kind, verdict
  <2>5. MarkedKeys' = MarkedKeys \cup {Key(j)}
    BY <1>3, <2>1 DEF MarkedKeys, Inv, Types, TypeOK
  <2>6. Key(j) \notin MarkedKeys
    BY <1>4, <2>1 DEF Inv, CallsOK
  <2>7. AlertedJobs' = IF verdict.kind = "alert" THEN AlertedJobs \cup {j} ELSE AlertedJobs
    BY <1>1, <2>1, <2>4, AlertCounts
  <2>8. Abstract!Decide(j)
    BY <1>1, <1>2, <1>3, <2>1, <2>3, <2>5, <2>6, <2>7
       DEF Abstract!Decide, MarkedKeys, AlertedJobs
  <2> QED
    BY <2>8 DEF Abstract!Detect
<1> QED
  BY <1>5, <1>6, <1>7
     DEF CheckSeen, SeenFails, RecordFails, PublishFails, MarkFails, EvaluateRule, stores

LEMMA StartRefines ==
  ASSUME Inv, NEW c \in Customers, StartJob(c)
  PROVE  Abstract!Start(c)
<1> DEFINE j == Head(line[c])
<1>1. line[c] # <<>> /\ Begin(j) /\ Abstract!Lanes!Start(c)
  BY DEF StartJob, Lanes!Start, Abstract!Lanes!Start
<1>2. /\ j \in Jobs /\ pc[j] = "idle" /\ outcome[j] = NoOutcome /\ j \notin PublishedJobs
  BY <1>1, HeadOfLine
<1> HIDE DEF j
<1>3. MarkedKeys' = MarkedKeys /\ PublishedJobs' = PublishedJobs
  BY <1>1 DEF Begin, stores, MarkedKeys, PublishedJobs
<1>4. AlertedJobs' = AlertedJobs
  <2>1. \E label : pc' = [pc EXCEPT ![j] = label]
    BY <1>1 DEF Begin, Returns, Goto
  <2>2. \A i \in PublishedJobs : pc'[i] = pc[i]
    BY <1>2, <2>1, PublishedTyped DEF Inv, Types, TypeOK
  <2> QED
    BY <1>3, <2>2 DEF AlertedJobs
<1>5. CASE j \in Valid
  <2>1. UNCHANGED Abstract!decisions
    BY <1>1, <1>3, <1>4, <1>5 DEF Begin, Abstract!decisions, MarkedKeys, AlertedJobs
  <2> QED
    BY <1>1, <1>5, <2>1 DEF Abstract!Start, j
<1>6. CASE j \notin Valid
  <2>1. Abstract!Refuse(j)
    BY <1>1, <1>2, <1>3, <1>4, <1>6
       DEF Begin, Returns, Abstract!Refuse, Abstract!Open, Abstract!Undecided,
           Abstract!Returned, NoOutcome, MarkedKeys, AlertedJobs
  <2> QED
    BY <1>1, <1>6, <2>1 DEF Abstract!Start, j
<1> QED
  BY <1>5, <1>6

LEMMA EndRefines ==
  ASSUME Inv, NEW c \in Customers, EndJob(c)
  PROVE  Abstract!End(c)
<1>1. /\ busy[c] \in Jobs /\ pc[busy[c]] = "done"
      /\ Abstract!Lanes!End(c) /\ UNCHANGED procVars
  BY DEF EndJob, Lanes!End, Abstract!Lanes!End, Inv, Types, TypeOK
<1>2. ~Abstract!Open(busy[c])
  BY <1>1 DEF Abstract!Open, Abstract!Undecided, Inv, Types, TypeOK
<1>3. UNCHANGED Abstract!decisions
  BY <1>1 DEF Abstract!decisions, procVars, stores, PublishedJobs
<1> QED
  BY <1>1, <1>2, <1>3 DEF Abstract!End

LEMMA SubmitRefines ==
  ASSUME NEW j \in Jobs, Submit(j)
  PROVE  Abstract!Accept(j)
BY DEF Submit, Lanes!Accept, Abstract!Accept, Abstract!Lanes!Accept, Abstract!decisions,
       procVars, stores, PublishedJobs

LEMMA EnvironmentRefines ==
  ASSUME Inv, Environment, UNCHANGED lanesVars
  PROVE  [Abstract!Next]_(Abstract!detectorVars)
<1>1. /\ UNCHANGED <<pc, outcome, published>>
      /\ PublishedJobs' = PublishedJobs
      /\ AlertedJobs' = AlertedJobs
  BY DEF Environment, ToggleWindow, Reload, Lapse, PublishedJobs, AlertedJobs
<1>2. CASE ToggleWindow \/ Reload
  <2>1. MarkedKeys' = MarkedKeys
    BY <1>2 DEF ToggleWindow, Reload, MarkedKeys
  <2> QED
    BY <1>1, <2>1, Unseen
<1>3. ASSUME NEW k \in Keys, Lapse(k)
      PROVE  [Abstract!Next]_(Abstract!detectorVars)
  <2>1. k \in MarkedKeys /\ MarkedKeys' = MarkedKeys \ {k}
    BY <1>3 DEF Lapse, MarkedKeys, Inv, Types, TypeOK
  <2>2. Abstract!Forget(k) /\ UNCHANGED Abstract!lanesVars
    BY <1>1, <2>1
       DEF Abstract!Forget, Abstract!lanesVars, lanesVars, MarkedKeys, AlertedJobs
  <2> QED
    BY <2>1, <2>2 DEF Abstract!Next, MarkedKeys
<1> QED
  BY <1>2, <1>3 DEF Environment

LEMMA ProcessRefines ==
  ASSUME Inv, NEW j \in Jobs, ProcessStep(j), UNCHANGED lanesVars
  PROVE  Abstract!Detect(j) \/ UNCHANGED Abstract!detectorVars
<1>1. CASE \/ CheckSeen(j) /\ idempotency[Key(j)] = "live"
           \/ SeenFails(j) \/ RecordFails(j) \/ PublishFails(j) \/ Mark(j) \/ MarkFails(j)
           \/ EvaluateRule(j) /\ Fails(j)
  BY <1>1, ReturnRefines
<1>2. CASE \/ CheckSeen(j) /\ idempotency[Key(j)] # "live"
           \/ RecordWindow(j) \/ ReadConfig(j) \/ ResolveRisk(j) \/ SkipRule(j)
           \/ EvaluateRule(j) /\ ~Fails(j)
           \/ Publish(j)
  BY <1>2, QuietStep
<1> QED
  BY <1>1, <1>2 DEF ProcessStep

LEMMA StepRefinesAnswer ==
  ASSUME Inv, NEW c \in Customers, Step(c)
  PROVE  Abstract!Answer(c) \/ UNCHANGED Abstract!detectorVars
<1>1. PICK j \in Jobs : j = busy[c]
  BY DEF Step, Inv, Types, TypeOK
<1>2. ProcessStep(j) /\ UNCHANGED lanesVars /\ busy[c] # NoJob
  BY <1>1 DEF Step
<1>3. CASE Abstract!Detect(j)
  <2>1. Abstract!Detect(busy[c])
    BY <1>1, <1>3
       DEF Abstract!Detect, Abstract!Refuse, Abstract!Discard, Abstract!Decide,
           Abstract!Fail, Abstract!Open
  <2>2. UNCHANGED Abstract!lanesVars
    BY <1>2 DEF lanesVars, Abstract!lanesVars
  <2> QED
    BY <1>2, <2>1, <2>2 DEF Abstract!Answer
<1> QED
  BY <1>2, <1>3, ProcessRefines

LEMMA InitRefines == Init => Abstract!Init
<1> SUFFICES ASSUME Init
             PROVE  Abstract!Init
  OBVIOUS
<1>1. Abstract!Lanes!LanesInit
  BY DEF Init, Lanes!LanesInit, Abstract!Lanes!LanesInit
<1>2. MarkedKeys = {}
  BY DEF Init, ProcInit, MarkedKeys
<1>3. AlertedJobs = {}
  BY DEF Init, ProcInit, PublishedJobs, AlertedJobs
<1>4. outcome = [j \in Jobs |-> Abstract!Undecided]
  BY DEF Init, ProcInit, NoOutcome, Abstract!Undecided
<1> QED
  BY <1>1, <1>2, <1>3, <1>4
     DEF Abstract!Init, Abstract!DetectorInit, MarkedKeys, AlertedJobs

LEMMA StepRefines == Inv /\ [Next]_vars => [Abstract!Next]_(Abstract!detectorVars)
<1> SUFFICES ASSUME Inv, [Next]_vars
             PROVE  [Abstract!Next]_(Abstract!detectorVars)
  OBVIOUS
<1>1. ASSUME NEW j \in Jobs, Submit(j)
      PROVE  Abstract!Next
  BY <1>1, SubmitRefines DEF Abstract!Next
<1>2. ASSUME NEW c \in Customers, StartJob(c)
      PROVE  Abstract!Next
  BY <1>2, StartRefines DEF Abstract!Next, Abstract!LaneStep
<1>3. ASSUME NEW c \in Customers, EndJob(c)
      PROVE  Abstract!Next
  BY <1>3, EndRefines DEF Abstract!Next, Abstract!LaneStep
<1>4. ASSUME NEW c \in Customers, Step(c)
      PROVE  [Abstract!Next]_(Abstract!detectorVars)
  BY <1>4, StepRefinesAnswer DEF Abstract!Next, Abstract!LaneStep
<1>5. CASE Environment /\ UNCHANGED lanesVars
  BY <1>5, EnvironmentRefines
<1>6. CASE UNCHANGED vars
  <2>1. UNCHANGED <<outcome, lanesVars, pc, idempotency, published>>
    BY <1>6 DEF vars, procVars, stores
  <2>2. MarkedKeys' = MarkedKeys /\ AlertedJobs' = AlertedJobs
    BY <2>1 DEF MarkedKeys, AlertedJobs, PublishedJobs
  <2> QED
    BY <2>1, <2>2, Unseen
<1> QED
  BY <1>1, <1>2, <1>3, <1>4, <1>5, <1>6 DEF Next, LaneStep

(* Whatever falls between the port calls of Process, every behaviour of the *)
(* pipeline is one in which each call is decided at one instant, in the     *)
(* order the calls of its customer were accepted (FR-002, FR-010): the      *)
(* safety part of ImplementsDetector.                                       *)
THEOREM DecidesAtOnce ==
  Spec => Abstract!Init /\ [][Abstract!Next]_(Abstract!detectorVars)
BY InitRefines, StepRefines, Invariance, PTL DEF Spec
=============================================================================
