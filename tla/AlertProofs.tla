----------------------------- MODULE AlertProofs -----------------------------
(***************************************************************************)
(* Proofs about what Pipeline decides, for any calls, rules, faults and    *)
(* expiries.  Alerts: a transaction raises a second one only for a reason; *)
(* alerts, expiries and failed Marks are counted against each other, key   *)
(* by key.  Verdicts: that of a call is the one of a sequential run.       *)
(***************************************************************************)
EXTENDS PipelineProofs, EngineProofs, FiniteSetTheorems

AlertsOf(k) == {i \in DOMAIN published : Key(published[i].job) = k}
LapsesOf(k) == {i \in DOMAIN lapses : lapses[i] = k}
UnmarkedOf(k) == {j \in PublishedJobs : Key(j) = k /\ outcome[j].kind = "error"}

(* The one alert that needs no reason: its key is stored, or about to be.   *)
Covered(k) == idempotency[k] = "live" \/ \E j \in Jobs : pc[j] = "mark" /\ Key(j) = k

AlertsOK ==
  /\ lapses \in Seq(Keys)
  /\ IsFiniteSet(PublishedJobs)
  /\ \A k \in Keys :
       Cardinality(AlertsOf(k)) <= Cardinality(LapsesOf(k))
                                   + Cardinality(UnmarkedOf(k))
                                   + (IF Covered(k) THEN 1 ELSE 0)

(* All that is counted is finite.                                           *)
LEMMA Counts ==
  ASSUME Inv, AlertsOK, NEW k
  PROVE  /\ IsFiniteSet(AlertsOf(k)) /\ Cardinality(AlertsOf(k)) \in Nat
         /\ IsFiniteSet(LapsesOf(k)) /\ Cardinality(LapsesOf(k)) \in Nat
         /\ IsFiniteSet(UnmarkedOf(k)) /\ Cardinality(UnmarkedOf(k)) \in Nat
<1>1. /\ IsFiniteSet(DOMAIN published) /\ IsFiniteSet(DOMAIN lapses)
  <2>1. /\ Len(published) \in Nat /\ DOMAIN published = 1 .. Len(published)
        /\ Len(lapses) \in Nat /\ DOMAIN lapses = 1 .. Len(lapses)
    BY LenProperties DEF Inv, Types, AlertsOK
  <2> QED
    BY <2>1, FS_Interval
<1>2. /\ AlertsOf(k) \in SUBSET DOMAIN published
      /\ LapsesOf(k) \in SUBSET DOMAIN lapses
      /\ UnmarkedOf(k) \in SUBSET PublishedJobs
  BY DEF AlertsOf, LapsesOf, UnmarkedOf
<1>3. IsFiniteSet(AlertsOf(k)) /\ IsFiniteSet(LapsesOf(k)) /\ IsFiniteSet(UnmarkedOf(k))
  BY <1>1, <1>2, FS_Subset DEF AlertsOK
<1> QED
  BY <1>3, FS_CardinalityType

(* A step that publishes nothing and lets no key expire: a key stays        *)
(* covered, or the Mark that was to cover it fails.                         *)
LEMMA SameAlerts ==
  ASSUME Inv, AlertsOK, UNCHANGED <<published, lapses>>,
         \A j \in PublishedJobs : outcome[j].kind = "error" => outcome'[j].kind = "error",
         \A k \in Keys : Covered(k) =>
           \/ Covered(k)'
           \/ \E j \in PublishedJobs : /\ Key(j) = k
                                       /\ outcome[j].kind # "error"
                                       /\ outcome'[j].kind = "error"
  PROVE  AlertsOK'
<1>1. PublishedJobs' = PublishedJobs
  BY DEF PublishedJobs
<1>2. ASSUME NEW k \in Keys
      PROVE  Cardinality(AlertsOf(k)') <= Cardinality(LapsesOf(k)')
                                          + Cardinality(UnmarkedOf(k)')
                                          + (IF Covered(k)' THEN 1 ELSE 0)
  <2>1. AlertsOf(k)' = AlertsOf(k) /\ LapsesOf(k)' = LapsesOf(k)
    BY DEF AlertsOf, LapsesOf
  <2>2. UnmarkedOf(k) \in SUBSET UnmarkedOf(k)' /\ UnmarkedOf(k)' \in SUBSET PublishedJobs
    BY <1>1 DEF UnmarkedOf
  <2>3. IsFiniteSet(UnmarkedOf(k)') /\ Cardinality(UnmarkedOf(k)') \in Nat
    BY <2>2, FS_Subset, FS_CardinalityType DEF AlertsOK
  <2>4. Cardinality(UnmarkedOf(k)) <= Cardinality(UnmarkedOf(k)')
    BY <2>2, <2>3, FS_Subset
  <2>5. Covered(k) /\ ~Covered(k)' => Cardinality(UnmarkedOf(k)) # Cardinality(UnmarkedOf(k)')
    <3> SUFFICES ASSUME Covered(k), ~Covered(k)'
                 PROVE  UnmarkedOf(k) # UnmarkedOf(k)'
      BY <2>2, <2>3, FS_Subset
    <3>1. PICK j \in PublishedJobs : /\ Key(j) = k
                                     /\ outcome[j].kind # "error"
                                     /\ outcome'[j].kind = "error"
      OBVIOUS
    <3> QED
      BY <1>1, <3>1 DEF UnmarkedOf
  <2>6. Cardinality(AlertsOf(k)) <= Cardinality(LapsesOf(k))
                                    + Cardinality(UnmarkedOf(k))
                                    + (IF Covered(k) THEN 1 ELSE 0)
    BY DEF AlertsOK
  <2> HIDE DEF Covered
  <2> QED
    BY <2>1, <2>3, <2>4, <2>5, <2>6, Counts
<1> QED
  BY <1>1, <1>2 DEF AlertsOK

(* The invariant of the pipeline keeps other calls of the customer out, so  *)
(* nothing covers the key of a call that publishes; from here on its Mark   *)
(* is due.                                                                  *)
LEMMA PublishAlerts ==
  ASSUME Inv, AlertsOK, NEW j \in Jobs, Publish(j)
  PROVE  AlertsOK'
<1> DEFINE alert == [job |-> j, id |-> AlertID(CustomerOf[j], TransactionOf[j],
                                              CapturedAt[j], call[j].result.hits)]
<1>1. /\ pc[j] = "evaluate" /\ pc' = [pc EXCEPT ![j] = "mark"]
      /\ published' = Append(published, alert) /\ alert.job = j
      /\ UNCHANGED <<outcome, idempotency, lapses>>
  BY DEF Publish, Evaluated, Goto
<1> HIDE DEF alert
<1>2. /\ Len(published) \in Nat
      /\ DOMAIN published = 1 .. Len(published)
      /\ DOMAIN published' = 1 .. Len(published) + 1
      /\ \A i \in DOMAIN published : published'[i] = published[i]
      /\ published'[Len(published) + 1] = alert
  <2>1. PICK S : published \in Seq(S)
    BY DEF Inv, Types
  <2>2. published \in Seq(S \cup {alert})
    BY <2>1, SeqMonotonic
  <2> QED
    BY <1>1, <2>2, AppendProperties, LenProperties
<1>3. PublishedJobs' = PublishedJobs \cup {j}
  BY <1>1, <1>2 DEF PublishedJobs
<1>4. ~Covered(Key(j))
  <2>1. idempotency[Key(j)] # "live"
    BY <1>1 DEF Inv, CallsOK, Deciding
  <2>2. ASSUME NEW i \in Jobs, pc[i] = "mark", Key(i) = Key(j)
        PROVE  FALSE
    <3>1. busy[CustomerOf[i]] = i /\ busy[CustomerOf[j]] = j
      BY <1>1, <2>2 DEF Inv, LanesOK, InProcess, Deciding
    <3> QED
      BY <1>1, <2>2, <3>1, SameKeySameCustomer
  <2> QED
    BY <2>1, <2>2 DEF Covered
<1>5. /\ pc'[j] = "mark"
      /\ \A i \in Jobs \ {j} : pc'[i] = pc[i]
  BY <1>1 DEF Inv, Types, TypeOK
<1>6. /\ Covered(Key(j))'
      /\ \A k \in Keys : Covered(k) => Covered(k)'
  BY <1>1, <1>5 DEF Covered
<1>7. ASSUME NEW k \in Keys
      PROVE  Cardinality(AlertsOf(k)') <= Cardinality(LapsesOf(k)')
                                          + Cardinality(UnmarkedOf(k)')
                                          + (IF Covered(k)' THEN 1 ELSE 0)
  <2>1. LapsesOf(k)' = LapsesOf(k)
    BY <1>1 DEF LapsesOf
  <2>2. UnmarkedOf(k)' = UnmarkedOf(k)
    <3>1. outcome[j].kind # "error"
      BY <1>1 DEF Inv, CallsOK, NoOutcome
    <3> QED
      BY <1>1, <1>3, <3>1 DEF UnmarkedOf
  <2>3. Cardinality(AlertsOf(k)) <= Cardinality(LapsesOf(k))
                                    + Cardinality(UnmarkedOf(k))
                                    + (IF Covered(k) THEN 1 ELSE 0)
    BY DEF AlertsOK
  <2>4. CASE k = Key(j)
    <3>1. AlertsOf(k)' = AlertsOf(k) \cup {Len(published) + 1}
      BY <1>1, <1>2, <2>4 DEF AlertsOf
    <3>2. Cardinality(AlertsOf(k)') = Cardinality(AlertsOf(k)) + 1
      <4>1. Len(published) + 1 \notin AlertsOf(k)
        BY <1>2 DEF AlertsOf
      <4> QED
        BY <3>1, <4>1, Counts, FS_AddElement
    <3> HIDE DEF Covered
    <3> QED
      BY <1>4, <1>6, <2>1, <2>2, <2>3, <2>4, <3>2, Counts
  <2>5. CASE k # Key(j)
    <3>1. AlertsOf(k)' = AlertsOf(k)
      BY <1>1, <1>2, <2>5 DEF AlertsOf
    <3> QED
      BY <1>6, <2>1, <2>2, <2>3, <3>1, Counts
  <2> QED
    BY <2>4, <2>5
<1>8. IsFiniteSet(PublishedJobs')
  BY <1>3, FS_AddElement DEF AlertsOK
<1> QED
  BY <1>1, <1>7, <1>8 DEF AlertsOK

(* A key that expires is not covered any more, and is counted for that.     *)
LEMMA LapseAlerts ==
  ASSUME Inv, AlertsOK, NEW key \in Keys, Lapse(key)
  PROVE  AlertsOK'
<1>1. /\ idempotency[key] = "live" /\ lapses' = Append(lapses, key)
      /\ idempotency' = [idempotency EXCEPT ![key] = "expired"]
      /\ UNCHANGED <<pc, outcome, published>>
  BY DEF Lapse
<1>2. /\ lapses' \in Seq(Keys)
      /\ Len(lapses) \in Nat
      /\ DOMAIN lapses = 1 .. Len(lapses)
      /\ DOMAIN lapses' = 1 .. Len(lapses) + 1
      /\ \A i \in DOMAIN lapses : lapses'[i] = lapses[i]
      /\ lapses'[Len(lapses) + 1] = key
  BY <1>1, AppendProperties, LenProperties DEF AlertsOK
<1>3. PublishedJobs' = PublishedJobs
  BY <1>1 DEF PublishedJobs
<1>4. ASSUME NEW k \in Keys
      PROVE  Cardinality(AlertsOf(k)') <= Cardinality(LapsesOf(k)')
                                          + Cardinality(UnmarkedOf(k)')
                                          + (IF Covered(k)' THEN 1 ELSE 0)
  <2>1. AlertsOf(k)' = AlertsOf(k) /\ UnmarkedOf(k)' = UnmarkedOf(k)
    BY <1>1, <1>3 DEF AlertsOf, UnmarkedOf
  <2>2. Cardinality(AlertsOf(k)) <= Cardinality(LapsesOf(k))
                                    + Cardinality(UnmarkedOf(k))
                                    + (IF Covered(k) THEN 1 ELSE 0)
    BY DEF AlertsOK
  <2>3. CASE k = key
    <3>1. LapsesOf(k)' = LapsesOf(k) \cup {Len(lapses) + 1}
      BY <1>2, <2>3 DEF LapsesOf
    <3>2. Cardinality(LapsesOf(k)') = Cardinality(LapsesOf(k)) + 1
      <4>1. Len(lapses) + 1 \notin LapsesOf(k)
        BY <1>2 DEF LapsesOf
      <4> QED
        BY <3>1, <4>1, Counts, FS_AddElement
    <3> QED
      BY <2>1, <2>2, <3>2, Counts
  <2>4. CASE k # key
    <3>1. LapsesOf(k)' = LapsesOf(k)
      BY <1>2, <2>4 DEF LapsesOf
    <3>2. Covered(k) => Covered(k)'
      BY <1>1, <2>4 DEF Covered, Inv, Types, TypeOK
    <3> HIDE DEF Covered
    <3> QED
      BY <2>1, <2>2, <3>1, <3>2, Counts
  <2> QED
    BY <2>3, <2>4
<1> QED
  BY <1>2, <1>3, <1>4 DEF AlertsOK

(* A call that returns: if its alert is out, its key is stored or its error *)
(* is counted.                                                              *)
LEMMA ReturnAlerts ==
  ASSUME Inv, AlertsOK, NEW j \in Jobs,
         \/ CheckSeen(j) /\ idempotency[Key(j)] = "live"
         \/ SeenFails(j) \/ RecordFails(j) \/ PublishFails(j) \/ Mark(j) \/ MarkFails(j)
         \/ EvaluateRule(j) /\ Fails(j)
  PROVE  AlertsOK'
<1>1. /\ pc[j] \in InProcess /\ outcome[j] = NoOutcome
      /\ pc' = [pc EXCEPT ![j] = "done"]
      /\ \E o : outcome' = [outcome EXCEPT ![j] = o]
      /\ UNCHANGED <<published, lapses>>
  <2>1. pc[j] \in InProcess
    BY DEF CheckSeen, SeenFails, RecordFails, PublishFails, Mark, MarkFails, EvaluateRule,
           AtRule, AtMark, Evaluated, InProcess, Deciding
  <2>2. outcome[j] = NoOutcome
    BY <2>1 DEF Inv, CallsOK, InProcess, Deciding
  <2> QED
    BY <2>1, <2>2 DEF CheckSeen, SeenFails, RecordFails, PublishFails, Mark, MarkFails,
                      EvaluateRule, Fails, Returns, Goto, stores
<1>2. \A i \in Jobs \ {j} : pc'[i] = pc[i] /\ outcome'[i] = outcome[i]
  BY <1>1 DEF Inv, Types, TypeOK
<1>3. \A k \in Keys : idempotency[k] = "live" => idempotency'[k] = "live"
  BY KeyInKeys DEF CheckSeen, SeenFails, RecordFails, PublishFails, Mark, MarkFails,
                   EvaluateRule, stores, Inv, Types, TypeOK
<1>4. CASE Mark(j)
  <2>1. idempotency'[Key(j)] = "live"
    BY <1>4, KeyInKeys DEF Mark, Inv, Types, TypeOK
  <2> QED
    BY <1>1, <1>2, <1>3, <2>1, PublishedTyped, SameAlerts DEF Covered, NoOutcome
<1>5. CASE ~Mark(j)
  <2>1. pc[j] = "mark" => outcome'[j].kind = "error" /\ j \in PublishedJobs
    <3>1. pc[j] = "mark" => MarkFails(j)
      BY <1>5 DEF CheckSeen, SeenFails, RecordFails, PublishFails, EvaluateRule, AtRule, Evaluated
    <3>2. pc[j] = "mark" => outcome'[j].kind = "error"
      BY <3>1 DEF MarkFails, Fails, Returns, Inv, Types
    <3> QED
      BY <3>2 DEF Inv, TracesOK
  <2> QED
    BY <1>1, <1>2, <1>3, <2>1, PublishedTyped, SameAlerts DEF Covered, NoOutcome
<1> QED
  BY <1>4, <1>5

(* The other steps of a call do not touch what is counted.                  *)
LEMMA ProcessAlerts ==
  ASSUME Inv, AlertsOK, NEW j \in Jobs, ProcessStep(j)
  PROVE  AlertsOK'
<1>1. CASE \/ CheckSeen(j) /\ idempotency[Key(j)] = "live"
           \/ SeenFails(j) \/ RecordFails(j) \/ PublishFails(j) \/ Mark(j) \/ MarkFails(j)
           \/ EvaluateRule(j) /\ Fails(j)
  BY <1>1, ReturnAlerts
<1>2. CASE Publish(j)
  BY <1>2, PublishAlerts
<1>3. CASE \/ CheckSeen(j) /\ idempotency[Key(j)] # "live"
           \/ RecordWindow(j) \/ ReadConfig(j) \/ ResolveRisk(j) \/ SkipRule(j)
           \/ EvaluateRule(j) /\ ~Fails(j)
  <2>1. UNCHANGED <<outcome, published, lapses>>
    <3>1. EvaluateRule(j) /\ ~Fails(j) => UNCHANGED <<pc, outcome>> /\ UNCHANGED stores
      BY Zenon DEF EvaluateRule
    <3> QED
      BY <1>3, <3>1 DEF CheckSeen, RecordWindow, ReadConfig, ResolveRisk, SkipRule, stores
  <2>2. \A k \in Keys : idempotency[k] = "live" => idempotency'[k] = "live"
    BY <1>3, KeyInKeys DEF CheckSeen, RecordWindow, ReadConfig, ResolveRisk, SkipRule,
                           EvaluateRule, stores, Inv, Types, TypeOK
  <2>3. \A i \in Jobs : pc[i] = "mark" => pc'[i] = "mark"
    <3>1. EvaluateRule(j) /\ ~Fails(j) => UNCHANGED pc
      BY Zenon DEF EvaluateRule
    <3> QED
      BY <1>3, <3>1 DEF CheckSeen, RecordWindow, ReadConfig, ResolveRisk, SkipRule, Goto,
                        Inv, Types, TypeOK
  <2> QED
    BY <2>1, <2>2, <2>3, SameAlerts DEF Covered
<1> QED
  BY <1>1, <1>2, <1>3 DEF ProcessStep

LEMMA StepAlerts == Inv /\ AlertsOK /\ [Next]_vars => AlertsOK'
<1> SUFFICES ASSUME Inv, AlertsOK, [Next]_vars
             PROVE  AlertsOK'
  OBVIOUS
<1>1. CASE UNCHANGED <<pc, outcome, idempotency, published, lapses>>
  BY <1>1, SameAlerts DEF Covered
<1>2. ASSUME NEW c \in Customers, StartJob(c)
      PROVE  AlertsOK'
  <2> DEFINE j == Head(line[c])
  <2>1. line[c] # <<>> /\ Begin(j)
    BY <1>2 DEF StartJob, Lanes!Start
  <2>2. j \in Jobs /\ pc[j] = "idle" /\ outcome[j] = NoOutcome /\ j \notin PublishedJobs
    BY <2>1, HeadOfLine
  <2> HIDE DEF j
  <2>3. /\ UNCHANGED <<idempotency, published, lapses>>
        /\ \A i \in Jobs \ {j} : pc'[i] = pc[i] /\ outcome'[i] = outcome[i]
    BY <2>1, <2>2 DEF Begin, Returns, Goto, stores, Inv, Types, TypeOK
  <2> QED
    BY <2>2, <2>3, PublishedTyped, SameAlerts DEF Covered
<1>3. ASSUME NEW c \in Customers, Step(c)
      PROVE  AlertsOK'
  BY <1>3, ProcessAlerts DEF Step, Inv, Types, TypeOK
<1>4. ASSUME NEW key \in Keys, Lapse(key)
      PROVE  AlertsOK'
  BY <1>4, LapseAlerts
<1> QED
  BY <1>1, <1>2, <1>3, <1>4
     DEF Next, LaneStep, Submit, EndJob, Environment, ToggleWindow, Reload, vars, procVars,
         stores

-----------------------------------------------------------------------------
(* FR-002, spec.md:189, processor.go:96-104, 134-136, 163-165: however      *)
(* often a transaction is submitted and whatever fails on the way, each     *)
(* alert after its first has an expired key or a failed Mark of its own.    *)
THEOREM OneAlertPerTransactionHolds == Spec => []OneAlertPerTransaction
<1>1. Init => AlertsOK
  <2> SUFFICES ASSUME Init
               PROVE  AlertsOK
    OBVIOUS
  <2>1. published = <<>> /\ lapses = <<>>
    BY DEF Init, ProcInit
  <2>2. PublishedJobs = {} /\ \A k : AlertsOf(k) = {} /\ LapsesOf(k) = {} /\ UnmarkedOf(k) = {}
    BY <2>1 DEF PublishedJobs, AlertsOf, LapsesOf, UnmarkedOf
  <2>3. /\ lapses \in Seq(Keys) /\ IsFiniteSet(PublishedJobs)
        /\ \A k : /\ Cardinality(AlertsOf(k)) = 0 /\ Cardinality(LapsesOf(k)) = 0
                  /\ Cardinality(UnmarkedOf(k)) = 0
    BY <2>1, <2>2, FS_EmptySet, EmptySeq
  <2> HIDE DEF AlertsOf, LapsesOf, UnmarkedOf, Covered
  <2> QED
    BY <2>3 DEF AlertsOK
<1>2. Inv /\ AlertsOK => OneAlertPerTransaction
  <2> SUFFICES ASSUME Inv, AlertsOK, NEW k \in Keys
               PROVE  Cardinality(AlertsOf(k)) <= 1 + Cardinality(LapsesOf(k))
                                                    + Cardinality(UnmarkedOf(k))
    BY DEF OneAlertPerTransaction, AlertsOf, LapsesOf, UnmarkedOf
  <2>1. Cardinality(AlertsOf(k)) <= Cardinality(LapsesOf(k))
                                    + Cardinality(UnmarkedOf(k))
                                    + (IF Covered(k) THEN 1 ELSE 0)
    BY DEF AlertsOK
  <2> QED
    BY <2>1, Counts
<1> QED
  BY <1>1, <1>2, StepAlerts, InitInv, StepInv, PTL DEF Spec
-----------------------------------------------------------------------------
(* The verdict.  Three things make a call's evaluation, spread over many    *)
(* steps, worth that of one instant: the window of its customer ends with   *)
(* the call until it returns, its configuration and limit are its own, and  *)
(* what it has triggered is due by all of these.                            *)

(* A window holds calls of its customer, each once.                         *)
EntriesOK ==
  \A c \in Customers : \A i \in 1 .. Len(window[c]) :
    /\ window[c][i] \in Jobs
    /\ CustomerOf[window[c][i]] = c
    /\ \A k \in 1 .. Len(window[c]) : window[c][i] = window[c][k] => i = k

Recording == {"idle", "seen", "record"}
Evaluating == {"config", "risk", "evaluate", "mark"}
Judged(j) == pc[j] \in {"evaluate", "mark"} \/ Committed(j)

(* The variables of a call before it comes to its rules, and those that do  *)
(* not change once it has.                                                  *)
LocalsOK(j) ==
  /\ pc[j] \in Recording => call[j] = NoCall
  /\ pc[j] \in {"config", "risk"} => call[j].next = 1 /\ call[j].result = NoResult
  /\ Judged(j) \/ pc[j] = "risk" =>
       call[j].config \in 1 .. Len(RuleSets) /\ call[j].config <= active
  /\ Judged(j) => call[j].limit \in Limits(j, RuleSets[call[j].config])

(* A call that recorded itself is the last entry of its window, and still   *)
(* in it when it is decided.                                                *)
RecordedOK(j) ==
  LET entries == window[CustomerOf[j]]
  IN  call[j].windowAvailable =>
        /\ pc[j] \in Evaluating => entries # <<>> /\ entries[Len(entries)] = j
        /\ Committed(j) => \E i \in 1 .. Len(entries) : entries[i] = j

(* A rule that is neither disabled nor without its layer, and matches.      *)
Due(j, r) ==
  /\ r.enabled
  /\ r.condition # "broken"
  /\ r.needsWindow => call[j].windowAvailable
  /\ Matches(r, j, WindowUpTo(j), call[j].limit)

(* One that would make the evaluation fail.                                 *)
Failing(j, r) ==
  /\ r.enabled
  /\ r.condition = "broken"
  /\ r.needsWindow => call[j].windowAvailable

(* Of the rules a call has passed, it triggered those that are due, but for *)
(* some that need a window it found down; that also spared it the others.   *)
HitsOK(j) ==
  LET rules == RulesOf(j)
      next  == call[j].next
      hits  == call[j].result.hits
  IN  /\ next \in 1 .. Len(rules) + 1
      /\ pc[j] # "evaluate" => next = Len(rules) + 1
      /\ hits \in Seq(RuleDefs)
      /\ DOMAIN call[j].result = {"hits", "severity", "degraded"}
      /\ SeverityIsWorst(call[j].result)
      /\ \A n \in 1 .. next - 1 : Failing(j, rules[n]) =>
           rules[n].needsWindow /\ call[j].result.degraded
      /\ \A i \in 1 .. Len(hits) : \E n \in 1 .. next - 1 :
           hits[i] = rules[n] /\ Due(j, rules[n])
      /\ \A n \in 1 .. next - 1 : Due(j, rules[n]) =>
           \/ \E i \in 1 .. Len(hits) : hits[i] = rules[n]
           \/ rules[n].needsWindow /\ call[j].result.degraded

(* What a call returned is what its variables say.                          *)
AnswerOK(j) ==
  /\ pc[j] = "mark" => Suspicious(j)
  /\ Committed(j) => /\ outcome[j].partial = Partial(j)
                     /\ outcome[j].kind = "alert" <=> Suspicious(j)

CallOK(j) == LocalsOK(j) /\ RecordedOK(j) /\ AnswerOK(j) /\ (Judged(j) => HitsOK(j))

VerdictsOK == EntriesOK /\ \A j \in Jobs : CallOK(j)

(* A condition depends on the window through its length, and only if the    *)
(* rule needs the window.                                                   *)
LEMMA MatchesByLength ==
  ASSUME NEW r \in RuleDefs, NEW j, NEW a, NEW b, NEW limit,
         r.condition # "broken",
         r.needsWindow => Len(a) = Len(b)
  PROVE  Matches(r, j, a, limit) <=> Matches(r, j, b, limit)
BY DEF Matches, RuleDefs

(* The rules of a call are rules.                                           *)
LEMMA RulesTyped ==
  ASSUME NEW j \in Jobs, call[j].config \in 1 .. Len(RuleSets)
  PROVE  /\ RulesOf(j) \in Seq(RuleDefs) /\ Len(RulesOf(j)) \in Nat
         /\ DOMAIN RulesOf(j) = 1 .. Len(RulesOf(j))
         /\ \A n \in 1 .. Len(RulesOf(j)) : RulesOf(j)[n] \in RuleDefs
<1>1. RulesOf(j) \in Seq(RuleDefs)
  BY ProcessorAssumption DEF RulesOf
<1> QED
  BY <1>1, ElementOfSeq, LenProperties

(* The entries up to that of a call are as many as its place says.          *)
UpTo(entries, j) ==
  IF j \in ToSet(entries)
  THEN SubSeq(entries, 1, CHOOSE i \in DOMAIN entries : entries[i] = j)
  ELSE entries

LEMMA LengthUpTo ==
  ASSUME NEW entries \in Seq(Jobs), NEW j, NEW i \in 1 .. Len(entries), entries[i] = j,
         \A k \in 1 .. Len(entries) : entries[k] = entries[i] => k = i
  PROVE  Len(UpTo(entries, j)) = i
<1>1. DOMAIN entries = 1 .. Len(entries) /\ Len(entries) \in Nat
  BY LenProperties
<1>2. j \in ToSet(entries)
  BY <1>1 DEF ToSet
<1>3. (CHOOSE k \in DOMAIN entries : entries[k] = j) = i
  BY <1>1
<1>4. UpTo(entries, j) = SubSeq(entries, 1, i)
  BY <1>2, <1>3 DEF UpTo
<1> QED
  BY <1>1, <1>4, SubSeqProperties

(* What is due to a call does not change with what comes after it in the    *)
(* window, nor with how far it has got.                                     *)
LEMMA DueStays ==
  ASSUME NEW j \in Jobs, NEW r \in RuleDefs,
         call'[j].windowAvailable = call[j].windowAvailable,
         call'[j].limit = call[j].limit,
         call[j].windowAvailable => Len(WindowUpTo(j)') = Len(WindowUpTo(j))
  PROVE  Due(j, r)' <=> Due(j, r)
<1>1. CASE r.condition # "broken" /\ (r.needsWindow => call[j].windowAvailable)
  <2>1. \A limit : Matches(r, j, WindowUpTo(j)', limit) <=> Matches(r, j, WindowUpTo(j), limit)
    BY <1>1, MatchesByLength
  <2> QED
    BY <1>1, <2>1 DEF Due
<1>2. CASE ~(r.condition # "broken" /\ (r.needsWindow => call[j].windowAvailable))
  BY <1>2 DEF Due
<1> QED
  BY <1>1, <1>2

(* A step of another call: it may add itself to the window of this one,     *)
(* unless this one is still inside Process.                                 *)
LEMMA CallKept ==
  ASSUME Inv, Inv', EntriesOK, EntriesOK', NEW j \in Jobs, CallOK(j),
         pc'[j] = pc[j], call'[j] = call[j], outcome'[j] = outcome[j],
         active <= active',
         \/ window'[CustomerOf[j]] = window[CustomerOf[j]]
         \/ /\ pc[j] \notin Evaluating
            /\ \E k \in Jobs : window'[CustomerOf[j]] = Append(window[CustomerOf[j]], k)
  PROVE  CallOK(j)'
<1> DEFINE entries == window[CustomerOf[j]]
<1>1. CustomerOf[j] \in Customers
  BY ProcessorAssumption
<1>2. /\ entries \in Seq(Jobs) /\ Len(entries) \in Nat
      /\ entries' \in Seq(Jobs) /\ Len(entries') \in Nat
  BY <1>1, LenProperties DEF Inv, Types, TypeOK
<1>3. \A i \in 1 .. Len(entries) : i \in 1 .. Len(entries') /\ entries'[i] = entries[i]
  <2>1. CASE entries' = entries
    BY <2>1
  <2>2. ASSUME NEW k \in Jobs, entries' = Append(entries, k)
        PROVE  \A i \in 1 .. Len(entries) : i \in 1 .. Len(entries') /\ entries'[i] = entries[i]
    BY <1>2, <2>2, AppendProperties
  <2> QED
    BY <2>1, <2>2
<1>4. pc[j] \in Evaluating => entries' = entries
  OBVIOUS
<1>5. Judged(j)' <=> Judged(j)
  BY DEF Judged, Committed
<1>6. LocalsOK(j)'
  <2>1. active \in Nat /\ active' \in Nat /\ Len(RuleSets) \in Nat
    BY ProcessorAssumption DEF Inv, Types, TypeOK
  <2> QED
    BY <1>5, <2>1 DEF CallOK, LocalsOK
<1>7. RecordedOK(j)'
  BY <1>3, <1>4 DEF CallOK, RecordedOK, Committed
<1>8. AnswerOK(j)'
  BY SuspicionStays DEF CallOK, AnswerOK, Committed, Partial
<1>9. ASSUME Judged(j)
      PROVE  HitsOK(j)'
  <2>1. call[j].windowAvailable => Len(WindowUpTo(j)') = Len(WindowUpTo(j))
    <3>0. WindowUpTo(j) = UpTo(entries, j) /\ WindowUpTo(j)' = UpTo(entries', j)
      BY DEF UpTo, WindowUpTo
    <3>1. CASE pc[j] \in Evaluating
      BY <1>4, <3>0, <3>1
    <3>2. ASSUME call[j].windowAvailable, Committed(j)
          PROVE  Len(WindowUpTo(j)') = Len(WindowUpTo(j))
      <4>1. PICK i \in 1 .. Len(entries) : entries[i] = j
        BY <3>2 DEF CallOK, RecordedOK
      <4>2. i \in 1 .. Len(entries') /\ entries'[i] = j
        BY <1>3, <4>1
      <4>3. \A k \in 1 .. Len(entries) : entries[k] = entries[i] => k = i
        BY <1>1, <4>1 DEF EntriesOK
      <4>4. \A k \in 1 .. Len(entries') : entries'[k] = entries'[i] => k = i
        BY <1>1, <4>2 DEF EntriesOK
      <4> HIDE DEF entries
      <4>5. Len(UpTo(entries, j)) = i /\ Len(UpTo(entries', j)) = i
        BY <1>2, <4>1, <4>2, <4>3, <4>4, LengthUpTo
      <4> QED
        BY <3>0, <4>5 DEF entries
    <3> QED
      BY <1>9, <3>1, <3>2 DEF Judged, Evaluating
  <2>2. call[j].config \in 1 .. Len(RuleSets) /\ HitsOK(j)
    BY <1>9 DEF CallOK, LocalsOK
  <2>3. RulesOf(j)' = RulesOf(j)
    BY DEF RulesOf
  <2> DEFINE rules == RulesOf(j)
  <2> DEFINE next   == call[j].next
             result == call[j].result
             due(n) == Due(j, rules[n])
             failing(n) == Failing(j, rules[n])
  <2>4. ASSUME NEW n \in 1 .. next - 1
        PROVE  due(n)' <=> due(n)
    <3>1. n \in 1 .. Len(rules)
      BY <2>2, RulesTyped DEF HitsOK
    <3>2. rules' = rules /\ rules[n] \in RuleDefs
      BY <2>2, <2>3, <3>1, RulesTyped
    <3> HIDE DEF rules
    <3> QED
      BY <2>1, <3>2, DueStays
  <2>5. /\ next' = next /\ result' = result /\ pc'[j] = pc[j] /\ rules' = rules
        /\ \A n : failing(n)' <=> failing(n)
    BY <2>3 DEF Failing
  <2>6. /\ next \in 1 .. Len(rules) + 1
        /\ pc[j] # "evaluate" => next = Len(rules) + 1
        /\ result.hits \in Seq(RuleDefs)
        /\ DOMAIN result = {"hits", "severity", "degraded"}
        /\ SeverityIsWorst(result)
        /\ \A n \in 1 .. next - 1 : failing(n) => rules[n].needsWindow /\ result.degraded
        /\ \A i \in 1 .. Len(result.hits) : \E n \in 1 .. next - 1 :
             result.hits[i] = rules[n] /\ due(n)
        /\ \A n \in 1 .. next - 1 : due(n) =>
             \/ \E i \in 1 .. Len(result.hits) : result.hits[i] = rules[n]
             \/ rules[n].needsWindow /\ result.degraded
    BY <2>2 DEF HitsOK
  <2> SUFFICES
        /\ next' \in 1 .. Len(rules') + 1
        /\ pc'[j] # "evaluate" => next' = Len(rules') + 1
        /\ result'.hits \in Seq(RuleDefs)
        /\ DOMAIN result' = {"hits", "severity", "degraded"}
        /\ SeverityIsWorst(result)'
        /\ \A n \in 1 .. next' - 1 : failing(n)' => rules'[n].needsWindow /\ result'.degraded
        /\ \A i \in 1 .. Len(result'.hits) : \E n \in 1 .. next' - 1 :
             result'.hits[i] = rules'[n] /\ due(n)'
        /\ \A n \in 1 .. next' - 1 : due(n)' =>
             \/ \E i \in 1 .. Len(result'.hits) : result'.hits[i] = rules'[n]
             \/ rules'[n].needsWindow /\ result'.degraded
    BY DEF HitsOK
  <2>7. SeverityIsWorst(result)'
    BY <2>5, <2>6 DEF SeverityIsWorst
  <2> HIDE DEF rules, next, result, due, failing
  <2> QED
    BY <2>4, <2>5, <2>6, <2>7
<1> QED
  BY <1>5, <1>6, <1>7, <1>8, <1>9 DEF CallOK

(* A step of one call leaves those of the others as they should be.         *)
LEMMA OthersKept ==
  ASSUME Inv, Inv', VerdictsOK, EntriesOK', NEW j \in Jobs,
         \A i \in Jobs \ {j} :
           pc'[i] = pc[i] /\ call'[i] = call[i] /\ outcome'[i] = outcome[i],
         active <= active',
         \/ window' = window
         \/ /\ pc[j] = "record"
            /\ window' = [window EXCEPT ![CustomerOf[j]] = Append(@, j)],
         CallOK(j)'
  PROVE  VerdictsOK'
<1> SUFFICES ASSUME NEW i \in Jobs \ {j}
             PROVE  CallOK(i)'
  BY DEF VerdictsOK
<1>1. CallOK(i) /\ EntriesOK
  BY DEF VerdictsOK
<1>2. CASE window'[CustomerOf[i]] = window[CustomerOf[i]]
  BY <1>1, <1>2, CallKept
<1>3. CASE window'[CustomerOf[i]] # window[CustomerOf[i]]
  <2>1. /\ CustomerOf[i] = CustomerOf[j] /\ pc[j] = "record"
        /\ window'[CustomerOf[i]] = Append(window[CustomerOf[i]], j)
    <3>1. window' # window
      BY <1>3
    <3>2. /\ pc[j] = "record"
          /\ window' = [window EXCEPT ![CustomerOf[j]] = Append(window[CustomerOf[j]], j)]
      BY <3>1
    <3>3. window \in [Customers -> Seq(Jobs)] /\ CustomerOf[i] \in Customers
      BY ProcessorAssumption DEF Inv, Types, TypeOK
    <3>4. CustomerOf[i] = CustomerOf[j]
      BY <1>3, <3>2, <3>3
    <3> QED
      BY <3>2, <3>3, <3>4
  <2>2. pc[i] \notin Evaluating
    BY <2>1 DEF Inv, LanesOK, InProcess, Deciding, Evaluating
  <2> QED
    BY <1>1, <2>1, <2>2, CallKept
<1> QED
  BY <1>2, <1>3

(* Configurations only follow one another.                                  *)
LEMMA ActiveGrows ==
  ASSUME Inv, active' \in {active, active + 1}
  PROVE  active <= active'
BY ProcessorAssumption DEF Inv, Types, TypeOK

(* A call that returns without a verdict.                                   *)
LEMMA NoVerdict ==
  ASSUME NEW j \in Jobs, pc'[j] = "done", ~Committed(j)'
  PROVE  CallOK(j)'
BY DEF CallOK, LocalsOK, RecordedOK, AnswerOK, Judged, Recording, Evaluating

(* The loop passes a rule: it was not due and did not fail, or its window   *)
(* was down, or it triggered.                                               *)
LEMMA RulePassed ==
  ASSUME Inv, Inv', VerdictsOK, NEW j \in Jobs, AtRule(j), NEW result,
         NextRule(j, result), UNCHANGED <<pc, outcome, window, active>>,
         LET rule == RulesOf(j)[call[j].next]
             old  == call[j].result
         IN  \/ result = old /\ ~Due(j, rule) /\ ~Failing(j, rule)
             \/ result = [old EXCEPT !.degraded = TRUE] /\ rule.needsWindow
             \/ result = WithHit(old, rule) /\ Due(j, rule)
  PROVE  VerdictsOK'
<1> DEFINE rules == RulesOf(j)
           next  == call[j].next
           rule  == rules[next]
           old   == call[j].result
<1>1. /\ CallOK(j) /\ pc[j] = "evaluate" /\ Judged(j) /\ HitsOK(j) /\ LocalsOK(j)
      /\ call[j].config \in 1 .. Len(RuleSets)
  BY DEF VerdictsOK, CallOK, AtRule, Judged, LocalsOK
<1>2. /\ rules \in Seq(RuleDefs) /\ Len(rules) \in Nat
      /\ next \in 1 .. Len(rules)
      /\ \A n \in 1 .. Len(rules) : rules[n] \in RuleDefs
  BY <1>1, RulesTyped DEF HitsOK, AtRule
<1>3. /\ call'[j].next = next + 1 /\ call'[j].result = result
      /\ call'[j].windowAvailable = call[j].windowAvailable
      /\ call'[j].limit = call[j].limit /\ call'[j].config = call[j].config
      /\ \A i \in Jobs \ {j} : call'[i] = call[i]
  BY DEF NextRule, Inv, Types, CallFields
<1>4. ~Committed(j) /\ ~Committed(j)'
  BY <1>1 DEF Committed, Inv, CallsOK, NoOutcome
<1>5. \A n \in 1 .. Len(rules) : Due(j, rules[n])' <=> Due(j, rules[n])
  <2> SUFFICES ASSUME NEW n \in 1 .. Len(rules)
               PROVE  Due(j, rules[n])' <=> Due(j, rules[n])
    OBVIOUS
  <2>1. rules' = rules /\ rules[n] \in RuleDefs
    BY <1>2, <1>3 DEF RulesOf
  <2>2. WindowUpTo(j)' = WindowUpTo(j)
    BY DEF WindowUpTo
  <2> HIDE DEF rules
  <2> QED
    BY <1>3, <2>1, <2>2, DueStays
<1>6. HitsOK(j)'
  <2>1. rules' = rules /\ \A n : Failing(j, rules[n])' <=> Failing(j, rules[n])
    BY <1>3 DEF RulesOf, Failing
  <2>2. /\ old.hits \in Seq(RuleDefs) /\ Len(old.hits) \in Nat
        /\ DOMAIN old = {"hits", "severity", "degraded"}
        /\ SeverityIsWorst(old)
        /\ \A n \in 1 .. next - 1 : Failing(j, rules[n]) =>
             rules[n].needsWindow /\ old.degraded
        /\ \A i \in 1 .. Len(old.hits) : \E n \in 1 .. next - 1 :
             old.hits[i] = rules[n] /\ Due(j, rules[n])
        /\ \A n \in 1 .. next - 1 : Due(j, rules[n]) =>
             \/ \E i \in 1 .. Len(old.hits) : old.hits[i] = rules[n]
             \/ rules[n].needsWindow /\ old.degraded
    BY <1>1, LenProperties DEF HitsOK
  <2> DEFINE due(n) == Due(j, rules[n])
             failing(n) == Failing(j, rules[n])
  <2>6. SeverityIsWorst(result) <=> SeverityIsWorst(call[j].result)'
    BY <1>3 DEF SeverityIsWorst
  <2>7. /\ rules' = rules /\ call'[j].next = next + 1 /\ call'[j].result = result
        /\ call'[j].next - 1 = next /\ next + 1 \in 1 .. Len(rules) + 1 /\ pc'[j] = "evaluate"
        /\ 1 .. next \subseteq 1 .. Len(rules)
    BY <1>1, <1>2, <1>3, <2>1
  <2>8. \A n \in 1 .. next : (due(n)' <=> due(n)) /\ (failing(n)' <=> failing(n))
    BY <1>5, <2>1, <2>7
  <2> SUFFICES
        /\ call'[j].next \in 1 .. Len(rules') + 1
        /\ pc'[j] # "evaluate" => call'[j].next = Len(rules') + 1
        /\ call'[j].result.hits \in Seq(RuleDefs)
        /\ DOMAIN call'[j].result = {"hits", "severity", "degraded"}
        /\ SeverityIsWorst(call[j].result)'
        /\ \A n \in 1 .. call'[j].next - 1 : failing(n)' =>
             rules'[n].needsWindow /\ call'[j].result.degraded
        /\ \A i \in 1 .. Len(call'[j].result.hits) : \E n \in 1 .. call'[j].next - 1 :
             call'[j].result.hits[i] = rules'[n] /\ due(n)'
        /\ \A n \in 1 .. call'[j].next - 1 : due(n)' =>
             \/ \E i \in 1 .. Len(call'[j].result.hits) :
                  call'[j].result.hits[i] = rules'[n]
             \/ rules'[n].needsWindow /\ call'[j].result.degraded
    BY DEF HitsOK
  <2> HIDE DEF rules, next, old, due, failing
  <2> SUFFICES
        /\ result.hits \in Seq(RuleDefs)
        /\ DOMAIN result = {"hits", "severity", "degraded"}
        /\ SeverityIsWorst(result)
        /\ \A n \in 1 .. next : failing(n) => rules[n].needsWindow /\ result.degraded
        /\ \A i \in 1 .. Len(result.hits) : \E n \in 1 .. next :
             result.hits[i] = rules[n] /\ due(n)
        /\ \A n \in 1 .. next : due(n) =>
             \/ \E i \in 1 .. Len(result.hits) : result.hits[i] = rules[n]
             \/ rules[n].needsWindow /\ result.degraded
    BY <2>6, <2>7, <2>8
  <2> USE DEF due, failing
  <2>3. CASE result = old /\ ~Due(j, rule) /\ ~Failing(j, rule)
    BY <1>2, <2>2, <2>3
  <2>4. CASE result = [old EXCEPT !.degraded = TRUE] /\ rule.needsWindow
    <3>1. /\ result.hits = old.hits /\ result.degraded
          /\ DOMAIN result = {"hits", "severity", "degraded"}
          /\ SeverityIsWorst(result)
      BY <2>2, <2>4 DEF SeverityIsWorst
    <3> QED
      BY <1>2, <2>2, <2>4, <3>1
  <2>5. CASE result = WithHit(old, rule) /\ Due(j, rule)
    <3>1. /\ result.hits = Append(old.hits, rule)
          /\ result.degraded = old.degraded
          /\ DOMAIN result = {"hits", "severity", "degraded"}
          /\ ~Failing(j, rule)
      BY <2>2, <2>5 DEF WithHit, Failing, Due
    <3>2. /\ result.hits \in Seq(RuleDefs)
          /\ Len(result.hits) = Len(old.hits) + 1
          /\ \A i \in 1 .. Len(old.hits) : result.hits[i] = old.hits[i]
          /\ result.hits[Len(old.hits) + 1] = rule
      BY <1>2, <2>2, <3>1, AppendProperties
    <3>3. ASSUME NEW i \in 1 .. Len(result.hits)
          PROVE  \E n \in 1 .. next : result.hits[i] = rules[n] /\ Due(j, rules[n])
      <4>1. CASE i = Len(old.hits) + 1
        BY <1>2, <2>5, <3>2, <4>1
      <4>2. CASE i # Len(old.hits) + 1
        <5>1. i \in 1 .. Len(old.hits)
          BY <2>2, <3>2, <4>2
        <5> QED
          BY <1>2, <2>2, <3>2, <5>1
      <4> QED
        BY <4>1, <4>2
    <3>4. ASSUME NEW n \in 1 .. next, Due(j, rules[n])
          PROVE  \/ \E i \in 1 .. Len(result.hits) : result.hits[i] = rules[n]
                 \/ rules[n].needsWindow /\ result.degraded
      <4>1. CASE n = next
        <5>1. Len(old.hits) + 1 \in 1 .. Len(result.hits)
          BY <2>2, <3>2
        <5>2. result.hits[Len(old.hits) + 1] = rules[n]
          BY <3>2, <4>1
        <5> QED
          BY <5>1, <5>2
      <4>2. CASE n # next
        <5>1. n \in 1 .. next - 1
          BY <1>2, <4>2
        <5> QED
          BY <2>2, <3>1, <3>2, <3>4, <5>1
      <4> QED
        BY <4>1, <4>2
    <3>5. SeverityIsWorst(result)
      BY <1>2, <2>2, <2>5, HitKeepsWorst DEF ResultFields
    <3>6. ASSUME NEW n \in 1 .. next, Failing(j, rules[n])
          PROVE  rules[n].needsWindow /\ result.degraded
      <4>1. n # next
        BY <3>1, <3>6
      <4>2. n \in 1 .. next - 1
        BY <1>2, <4>1
      <4> QED
        BY <2>2, <3>1, <3>6, <4>2
    <3> QED
      BY <3>1, <3>2, <3>3, <3>4, <3>5, <3>6
  <2> QED
    BY <2>3, <2>4, <2>5 DEF rules, next, old
<1>7. CallOK(j)'
  <2>1. LocalsOK(j)'
    BY <1>1, <1>3, <1>4 DEF LocalsOK, Recording, Judged
  <2>2. RecordedOK(j)'
    BY <1>1, <1>3, <1>4 DEF CallOK, RecordedOK
  <2>3. AnswerOK(j)'
    BY <1>1, <1>4 DEF AnswerOK
  <2> QED
    BY <1>6, <2>1, <2>2, <2>3 DEF CallOK
<1> QED
  BY <1>3, <1>7, ActiveGrows, OthersKept DEF VerdictsOK, EntriesOK

(* A call that records itself was in no window before.                      *)
LEMMA RecordVerdicts ==
  ASSUME Inv, Inv', VerdictsOK, NEW j \in Jobs, RecordWindow(j)
  PROVE  VerdictsOK'
<1> DEFINE d == CustomerOf[j]
<1>1. /\ pc[j] = "record" /\ pc'[j] = "config"
      /\ \A i \in Jobs \ {j} : pc'[i] = pc[i] /\ call'[i] = call[i]
      /\ outcome' = outcome
  BY DEF RecordWindow, Goto, Inv, Types, TypeOK
<1>2. call[j] = NoCall /\ ~Committed(j) /\ ~Committed(j)'
  BY <1>1 DEF VerdictsOK, CallOK, LocalsOK, Recording, Committed, Inv, CallsOK, NoOutcome
<1>3. /\ call'[j].windowAvailable = ~windowDown
      /\ call'[j].next = 1 /\ call'[j].result = NoResult
  BY <1>2 DEF RecordWindow, NoCall, Inv, Types
<1>4. /\ d \in Customers /\ window \in [Customers -> Seq(Jobs)]
      /\ window[d] \in Seq(Jobs) /\ Len(window[d]) \in Nat
  BY ProcessorAssumption, LenProperties DEF Inv, Types, TypeOK
<1>5. CASE windowDown
  <2>1. window' = window /\ active <= active'
    BY <1>5, ActiveGrows DEF RecordWindow
  <2>2. EntriesOK'
    BY <2>1 DEF VerdictsOK, EntriesOK
  <2>3. CallOK(j)'
    BY <1>1, <1>2, <1>3, <1>5
       DEF CallOK, LocalsOK, RecordedOK, AnswerOK, Judged, Recording
  <2> QED
    BY <1>1, <2>1, <2>2, <2>3, OthersKept
<1>6. CASE ~windowDown
  <2>1. window' = [window EXCEPT ![d] = Append(window[d], j)]
    BY <1>6 DEF RecordWindow
  <2>2. /\ Len(Append(window[d], j)) = Len(window[d]) + 1
        /\ \A i \in 1 .. Len(window[d]) : Append(window[d], j)[i] = window[d][i]
        /\ Append(window[d], j)[Len(window[d]) + 1] = j
    BY <1>4, AppendProperties
  <2>3. \A i \in 1 .. Len(window[d]) : window[d][i] # j
    BY <1>1, <1>4 DEF Inv, TracesOK
  <2>4. EntriesOK'
    <3> SUFFICES ASSUME NEW c \in Customers, NEW i \in 1 .. Len(window'[c])
                 PROVE  /\ window'[c][i] \in Jobs
                        /\ CustomerOf[window'[c][i]] = c
                        /\ \A k \in 1 .. Len(window'[c]) :
                             window'[c][i] = window'[c][k] => i = k
      BY DEF EntriesOK
    <3>1. CASE c # d
      BY <1>4, <2>1, <3>1 DEF VerdictsOK, EntriesOK
    <3>2. CASE c = d
      <4>1. window'[c] = Append(window[d], j)
        BY <1>4, <2>1, <3>2
      <4>2. i \in 1 .. Len(window[d]) \/ i = Len(window[d]) + 1
        BY <1>4, <2>2, <4>1
      <4>3. /\ \A k \in 1 .. Len(window[d]) :
                 /\ window[d][k] \in Jobs /\ CustomerOf[window[d][k]] = d
                 /\ \A l \in 1 .. Len(window[d]) : window[d][k] = window[d][l] => k = l
        BY <1>4 DEF VerdictsOK, EntriesOK
      <4>4. window'[c][i] \in Jobs /\ CustomerOf[window'[c][i]] = c
        BY <2>2, <3>2, <4>1, <4>2, <4>3
      <4>5. ASSUME NEW k \in 1 .. Len(window'[c]), window'[c][i] = window'[c][k]
            PROVE  i = k
        <5>1. k \in 1 .. Len(window[d]) \/ k = Len(window[d]) + 1
          BY <1>4, <2>2, <4>1
        <5> QED
          BY <2>2, <2>3, <4>1, <4>2, <4>3, <4>5, <5>1
      <4> QED
        BY <4>4, <4>5
    <3> QED
      BY <3>1, <3>2
  <2>5. window'[d] # <<>> /\ window'[d][Len(window'[d])] = j
    BY <1>4, <2>1, <2>2
  <2>6. CallOK(j)'
    BY <1>1, <1>2, <1>3, <2>5
       DEF CallOK, LocalsOK, RecordedOK, AnswerOK, Judged, Recording
  <2> QED
    BY <1>1, <2>1, <2>4, <2>6, ActiveGrows, OthersKept DEF RecordWindow
<1> QED
  BY <1>5, <1>6

(* The rules of a call are evaluated against all of its customer's window,  *)
(* which is its own part of it.                                             *)
LEMMA DueNow ==
  ASSUME Inv, VerdictsOK, NEW j \in Jobs, AtRule(j)
  PROVE  LET rule == RulesOf(j)[call[j].next]
         IN  /\ rule \in RuleDefs
             /\ Due(j, rule) <=>
                  /\ rule.enabled
                  /\ rule.condition # "broken"
                  /\ rule.needsWindow => call[j].windowAvailable
                  /\ Matches(rule, j, window[CustomerOf[j]], call[j].limit)
<1> DEFINE rule == RulesOf(j)[call[j].next]
           entries == window[CustomerOf[j]]
<1>1. /\ pc[j] = "evaluate" /\ HitsOK(j) /\ RecordedOK(j)
      /\ call[j].config \in 1 .. Len(RuleSets)
  BY DEF VerdictsOK, CallOK, AtRule, Judged, LocalsOK
<1>2. rule \in RuleDefs
  BY <1>1, RulesTyped DEF HitsOK, AtRule
<1>3. entries \in Seq(Jobs) /\ Len(entries) \in Nat /\ CustomerOf[j] \in Customers
  BY ProcessorAssumption, LenProperties DEF Inv, Types, TypeOK
<1>4. call[j].windowAvailable => Len(WindowUpTo(j)) = Len(entries)
  <2> SUFFICES ASSUME call[j].windowAvailable
               PROVE  Len(WindowUpTo(j)) = Len(entries)
    OBVIOUS
  <2>1. entries # <<>> /\ entries[Len(entries)] = j
    BY <1>1 DEF RecordedOK, Evaluating
  <2>2. Len(entries) \in 1 .. Len(entries)
    BY <1>3, <2>1, EmptySeq, LenProperties
  <2>3. \A k \in 1 .. Len(entries) : entries[k] = entries[Len(entries)] => k = Len(entries)
    BY <1>3, <2>2 DEF VerdictsOK, EntriesOK
  <2>4. WindowUpTo(j) = UpTo(entries, j)
    BY DEF UpTo, WindowUpTo
  <2> HIDE DEF entries
  <2> QED
    BY <1>3, <2>1, <2>2, <2>3, <2>4, LengthUpTo
<1>5. rule.condition # "broken" /\ (rule.needsWindow => call[j].windowAvailable) =>
        (Matches(rule, j, WindowUpTo(j), call[j].limit)
           <=> Matches(rule, j, entries, call[j].limit))
  <2> HIDE DEF rule, entries
  <2> QED
    BY <1>2, <1>4, MatchesByLength
<1> QED
  BY <1>2, <1>5 DEF Due

LEMMA ProcessVerdicts ==
  ASSUME Inv, Inv', VerdictsOK, NEW j \in Jobs, ProcessStep(j)
  PROVE  VerdictsOK'
<1> USE DEF stores, Goto
<1>1. CallOK(j) /\ LocalsOK(j) /\ AnswerOK(j) /\ RecordedOK(j) /\ (Judged(j) => HitsOK(j))
  BY DEF VerdictsOK, CallOK
<1>2. ASSUME window' = window
      PROVE  EntriesOK'
  BY <1>2 DEF VerdictsOK, EntriesOK
<1>3. pc \in [Jobs -> PCs] /\ outcome \in [Jobs -> [kind : OutcomeKinds, partial : BOOLEAN]]
  BY DEF Inv, Types, TypeOK
<1>4. /\ DOMAIN call = Jobs /\ DOMAIN call[j] = CallFields
      /\ active \in 1 .. Len(RuleSets) /\ active' = active /\ active <= active
  <2>1. active' = active
    BY DEF ProcessStep, CheckSeen, SeenFails, RecordWindow, RecordFails, ReadConfig,
           ResolveRisk, SkipRule, EvaluateRule, Publish, PublishFails, Mark, MarkFails
  <2> QED
    BY <2>1, ActiveGrows DEF Inv, Types, TypeOK
<1>5. ASSUME NEW kind \in {"duplicate", "error"}, Returns(j, kind, FALSE),
             UNCHANGED <<call, window>>
      PROVE  VerdictsOK'
  <2>1. /\ pc'[j] = "done" /\ ~Committed(j)'
        /\ \A i \in Jobs \ {j} : pc'[i] = pc[i] /\ outcome'[i] = outcome[i]
    BY <1>3, <1>5 DEF Returns, Committed
  <2> QED
    BY <1>2, <1>4, <1>5, <2>1, NoVerdict, OthersKept
<1>6. ASSUME NEW to \in {"record", "risk", "evaluate"}, pc' = [pc EXCEPT ![j] = to],
             UNCHANGED <<outcome, window>>, \A i \in Jobs \ {j} : call'[i] = call[i],
             CallOK(j)'
      PROVE  VerdictsOK'
  <2>1. \A i \in Jobs \ {j} : pc'[i] = pc[i]
    BY <1>3, <1>6
  <2> QED
    BY <1>2, <1>4, <1>6, <2>1, OthersKept
<1>7. pc[j] \in InProcess => outcome[j] = NoOutcome
  BY DEF Inv, CallsOK, InProcess, Deciding
<1>8. CASE CheckSeen(j)
  <2>1. CASE idempotency[Key(j)] = "live"
    BY <1>5, <1>8, <2>1 DEF CheckSeen
  <2>2. CASE idempotency[Key(j)] # "live"
    <3>1. pc[j] = "seen" /\ pc' = [pc EXCEPT ![j] = "record"] /\ UNCHANGED <<outcome, call, window>>
      BY <1>8, <2>2 DEF CheckSeen
    <3>2. call'[j] = NoCall /\ pc'[j] = "record" /\ ~Committed(j)'
      BY <1>1, <1>3, <1>7, <3>1 DEF LocalsOK, Recording, Committed, InProcess, NoOutcome
    <3>3. CallOK(j)'
      BY <3>2 DEF CallOK, LocalsOK, RecordedOK, AnswerOK, Judged, Recording, Evaluating
    <3> QED
      BY <1>6, <3>1, <3>3
  <2> QED
    BY <2>1, <2>2
<1>9. CASE SeenFails(j) \/ RecordFails(j)
  BY <1>5, <1>9 DEF SeenFails, RecordFails, Fails
<1>10. CASE RecordWindow(j)
  BY <1>10, RecordVerdicts
<1>11. CASE ReadConfig(j)
  <2>1. /\ pc[j] = "config" /\ pc' = [pc EXCEPT ![j] = "risk"]
        /\ UNCHANGED <<outcome, window>> /\ \A i \in Jobs \ {j} : call'[i] = call[i]
        /\ call'[j] = [call[j] EXCEPT !.config = active]
    BY <1>4, <1>11 DEF ReadConfig
  <2>2. /\ pc'[j] = "risk" /\ ~Committed(j)' /\ ~Committed(j)
    BY <1>3, <1>7, <2>1 DEF Committed, InProcess, Deciding, NoOutcome
  <2>3. /\ call'[j].config = active /\ call'[j].next = call[j].next
        /\ call'[j].result = call[j].result
        /\ call'[j].windowAvailable = call[j].windowAvailable
    BY <1>4, <2>1 DEF CallFields
  <2>4. CallOK(j)'
    BY <1>1, <1>4, <2>1, <2>2, <2>3
       DEF CallOK, LocalsOK, RecordedOK, AnswerOK, Judged, Recording, Evaluating
  <2> QED
    BY <1>6, <2>1, <2>4
<1>12. CASE ResolveRisk(j)
  <2>1. /\ pc[j] = "risk" /\ pc' = [pc EXCEPT ![j] = "evaluate"]
        /\ UNCHANGED <<outcome, window>>
        /\ \E limit \in Limits(j, RuleSets[call[j].config]) :
             call' = [call EXCEPT ![j].limit = limit]
    BY <1>12 DEF ResolveRisk
  <2>2. /\ \A i \in Jobs \ {j} : call'[i] = call[i]
        /\ call'[j].config = call[j].config /\ call'[j].next = call[j].next
        /\ call'[j].result = call[j].result
        /\ call'[j].windowAvailable = call[j].windowAvailable
        /\ call'[j].limit \in Limits(j, RuleSets[call[j].config])
    BY <1>4, <2>1 DEF CallFields
  <2>3. /\ pc'[j] = "evaluate" /\ ~Committed(j)' /\ ~Committed(j)
    BY <1>3, <1>7, <2>1 DEF Committed, InProcess, Deciding, NoOutcome
  <2>4. /\ call[j].config \in 1 .. Len(RuleSets) /\ call[j].config <= active
        /\ call[j].next = 1 /\ call[j].result = NoResult
    BY <1>1, <2>1 DEF LocalsOK
  <2>5. HitsOK(j)'
    <3>1. Len(RulesOf(j)) \in Nat /\ RulesOf(j)' = RulesOf(j)
      BY <2>2, <2>4, RulesTyped DEF RulesOf
    <3>2. <<>> \in Seq(RuleDefs) /\ Len(<<>>) = 0
      BY EmptySeq
    <3>3. /\ call'[j].next = 1 /\ call'[j].result.hits = <<>>
          /\ DOMAIN call'[j].result = {"hits", "severity", "degraded"}
          /\ SeverityIsWorst(call[j].result)'
      BY <2>2, <2>4 DEF NoResult, SeverityIsWorst
    <3> QED
      BY <2>3, <3>1, <3>2, <3>3 DEF HitsOK
  <2>6. CallOK(j)'
    BY <1>1, <1>4, <2>1, <2>2, <2>3, <2>4, <2>5
       DEF CallOK, LocalsOK, RecordedOK, AnswerOK, Judged, Recording, Evaluating, Limits
  <2> QED
    BY <1>6, <2>1, <2>2, <2>6
<1>13. CASE SkipRule(j)
  <2> DEFINE rule == RulesOf(j)[call[j].next]
  <2>1. /\ AtRule(j) /\ NextRule(j, call[j].result) /\ UNCHANGED <<pc, outcome, window>>
        /\ ~rule.enabled \/ (rule.needsWindow /\ ~call[j].windowAvailable)
    BY <1>13 DEF SkipRule
  <2>2. ~Due(j, rule) /\ ~Failing(j, rule)
    BY <2>1 DEF Due, Failing
  <2> QED
    BY <1>4, <2>1, <2>2, RulePassed
<1>14. CASE EvaluateRule(j)
  <2> DEFINE rule == RulesOf(j)[call[j].next]
             result == call[j].result
             matches == Matches(rule, j, window[CustomerOf[j]], call[j].limit)
  <2>1. /\ AtRule(j) /\ rule.enabled /\ window' = window
        /\ rule.needsWindow => call[j].windowAvailable
    BY <1>14 DEF EvaluateRule
  <2>2. rule.condition # "broken" => (Due(j, rule) <=> matches) /\ ~Failing(j, rule)
    BY <2>1, DueNow DEF Failing
  <2>3. \/ /\ rule.needsWindow /\ NextRule(j, [result EXCEPT !.degraded = TRUE])
           /\ UNCHANGED <<pc, outcome>>
        \/ Fails(j) /\ UNCHANGED call
        \/ /\ rule.condition # "broken" /\ UNCHANGED <<pc, outcome>>
           /\ \/ matches /\ NextRule(j, WithHit(result, rule))
              \/ ~matches /\ NextRule(j, result)
    BY <1>14, Zenon DEF EvaluateRule
  <2> HIDE DEF matches
  <2>4. CASE /\ rule.needsWindow /\ NextRule(j, [result EXCEPT !.degraded = TRUE])
             /\ UNCHANGED <<pc, outcome>>
    BY <1>4, <2>1, <2>4, RulePassed
  <2>5. CASE Fails(j) /\ UNCHANGED call
    BY <1>5, <2>1, <2>5 DEF Fails
  <2>6. CASE rule.condition # "broken" /\ UNCHANGED <<pc, outcome>> /\ matches
             /\ NextRule(j, WithHit(result, rule))
    BY <1>4, <2>1, <2>2, <2>6, RulePassed
  <2>7. CASE rule.condition # "broken" /\ UNCHANGED <<pc, outcome>> /\ ~matches
             /\ NextRule(j, result)
    BY <1>4, <2>1, <2>2, <2>7, RulePassed
  <2> QED
    BY <2>3, <2>4, <2>5, <2>6, <2>7
<1>15. CASE PublishFails(j)
  BY <1>5, <1>15 DEF PublishFails, Fails
<1>16. CASE MarkFails(j)
  BY <1>5, <1>16 DEF MarkFails, Fails
<1>17. ASSUME UNCHANGED <<call, window>>,
              \A i \in Jobs \ {j} : pc'[i] = pc[i] /\ outcome'[i] = outcome[i],
              Judged(j), pc'[j] \in {"mark", "done"},
              pc[j] = "evaluate" => Evaluated(j),
              pc[j] \in Evaluating, AnswerOK(j)'
       PROVE  VerdictsOK'
  <2>1. call[j].next = Len(RulesOf(j)) + 1 /\ HitsOK(j)
    <3>1. Len(RulesOf(j)) \in Nat
      BY <1>1, <1>17, RulesTyped DEF LocalsOK
    <3>2. HitsOK(j) /\ call[j].next \in 1 .. Len(RulesOf(j)) + 1
      BY <1>1, <1>17 DEF HitsOK
    <3>3. CASE pc[j] = "evaluate"
      BY <1>17, <3>1, <3>2, <3>3 DEF Evaluated
    <3>4. CASE pc[j] # "evaluate"
      BY <3>2, <3>4 DEF HitsOK
    <3> QED
      BY <3>2, <3>3, <3>4
  <2>2. HitsOK(j)'
    <3>1. /\ RulesOf(j)' = RulesOf(j) /\ WindowUpTo(j)' = WindowUpTo(j)
          /\ call'[j] = call[j]
      BY <1>17 DEF RulesOf, WindowUpTo
    <3>2. /\ \A r : (Due(j, r)' <=> Due(j, r)) /\ (Failing(j, r)' <=> Failing(j, r))
          /\ SeverityIsWorst(call[j].result)' <=> SeverityIsWorst(call[j].result)
      BY <3>1 DEF Due, Failing, SeverityIsWorst
    <3> QED
      BY <1>17, <2>1, <3>1, <3>2 DEF HitsOK
  <2>3. LocalsOK(j)'
    BY <1>1, <1>4, <1>17 DEF LocalsOK, Recording
  <2>4. RecordedOK(j)'
    <3>1. CustomerOf[j] \in Customers /\ window[CustomerOf[j]] \in Seq(Jobs)
      BY ProcessorAssumption DEF Inv, Types, TypeOK
    <3>2. \A s \in Seq(Jobs) : s # <<>> => Len(s) \in 1 .. Len(s)
      BY EmptySeq, LenProperties
    <3> QED
      BY <1>1, <1>17, <3>1, <3>2 DEF RecordedOK
  <2>5. CallOK(j)'
    BY <1>17, <2>2, <2>3, <2>4 DEF CallOK
  <2> QED
    BY <1>2, <1>4, <1>17, <2>5, OthersKept
<1>18. CASE Publish(j)
  <2>1. /\ Evaluated(j) /\ pc[j] = "evaluate" /\ Suspicious(j)
        /\ pc' = [pc EXCEPT ![j] = "mark"] /\ UNCHANGED <<call, outcome, window>>
    BY <1>18 DEF Publish, Evaluated
  <2>2. pc'[j] = "mark" /\ (\A i \in Jobs \ {j} : pc'[i] = pc[i]) /\ ~Committed(j)'
    BY <1>3, <1>7, <2>1 DEF Committed, InProcess, Deciding, NoOutcome
  <2>3. AnswerOK(j)'
    BY <2>1, <2>2, SuspicionStays DEF AnswerOK
  <2> QED
    BY <1>17, <2>1, <2>2, <2>3 DEF Judged, Evaluating
<1>19. CASE Mark(j)
  <2> DEFINE kind == IF pc[j] = "mark" THEN "alert" ELSE "clean"
  <2>1. /\ pc[j] = "mark" \/ (Evaluated(j) /\ pc[j] = "evaluate" /\ ~Suspicious(j))
        /\ pc' = [pc EXCEPT ![j] = "done"]
        /\ outcome' = [outcome EXCEPT ![j] = [kind |-> kind, partial |-> Partial(j)]]
        /\ UNCHANGED <<call, window>>
    BY <1>19 DEF Mark, AtMark, Evaluated, Returns
  <2>2. /\ pc'[j] = "done" /\ outcome'[j].kind = kind /\ outcome'[j].partial = Partial(j)
        /\ \A i \in Jobs \ {j} : pc'[i] = pc[i] /\ outcome'[i] = outcome[i]
    BY <1>3, <2>1
  <2>3. pc[j] = "mark" <=> Suspicious(j)
    BY <1>1, <2>1 DEF AnswerOK
  <2>4. AnswerOK(j)'
    <3>1. (Suspicious(j)' <=> Suspicious(j)) /\ Partial(j)' = Partial(j)
      BY <2>1, SuspicionStays DEF Partial
    <3> QED
      BY <2>2, <2>3, <3>1 DEF AnswerOK
  <2> QED
    BY <1>17, <2>1, <2>2, <2>4 DEF Judged, Evaluating
<1> QED
  BY <1>8, <1>9, <1>10, <1>11, <1>12, <1>13, <1>14, <1>15, <1>16, <1>18, <1>19
     DEF ProcessStep

(* What happens outside Process changes no call: its entry only takes a     *)
(* call in or turns it down.                                                *)
LEMMA StepVerdicts == Inv /\ Inv' /\ VerdictsOK /\ [Next]_vars => VerdictsOK'
<1> SUFFICES ASSUME Inv, Inv', VerdictsOK, [Next]_vars
             PROVE  VerdictsOK'
  OBVIOUS
<1>1. ASSUME UNCHANGED <<pc, call, outcome, window>>, active' \in {active, active + 1}
      PROVE  VerdictsOK'
  <2>1. EntriesOK /\ EntriesOK'
    BY <1>1 DEF VerdictsOK, EntriesOK
  <2>2. ASSUME NEW j \in Jobs
        PROVE  CallOK(j)'
    BY <1>1, <2>1, ActiveGrows, CallKept DEF VerdictsOK
  <2> QED
    BY <2>1, <2>2 DEF VerdictsOK
<1>2. ASSUME NEW c \in Customers, StartJob(c)
      PROVE  VerdictsOK'
  <2>1. line[c] # <<>> /\ Begin(Head(line[c]))
    BY <1>2 DEF StartJob, Lanes!Start
  <2>2. PICK j \in Jobs : Begin(j) /\ pc[j] = "idle" /\ outcome[j] = NoOutcome
    BY <2>1, HeadOfLine
  <2>3. /\ UNCHANGED <<call, window, active>>
        /\ \A i \in Jobs \ {j} : pc'[i] = pc[i] /\ outcome'[i] = outcome[i]
        /\ \/ pc'[j] = "seen" /\ outcome'[j] = NoOutcome
           \/ pc'[j] = "done" /\ outcome'[j].kind = "invalid"
    BY <2>2 DEF Begin, Returns, Goto, stores, Inv, Types, TypeOK
  <2>4. EntriesOK'
    BY <2>3 DEF VerdictsOK, EntriesOK
  <2>5. call[j] = NoCall
    BY <2>2 DEF VerdictsOK, CallOK, LocalsOK, Recording
  <2>6. ~Committed(j)'
    BY <2>3 DEF Committed, NoOutcome
  <2>7. CASE pc'[j] = "seen"
    <3>1. CallOK(j)'
      BY <2>3, <2>5, <2>6, <2>7
         DEF CallOK, LocalsOK, RecordedOK, AnswerOK, Judged, Recording, Evaluating
    <3> QED
      BY <2>2, <2>3, <2>4, <3>1, ActiveGrows, OthersKept
  <2>8. CASE pc'[j] = "done"
    <3>1. CallOK(j)'
      BY <2>2, <2>6, <2>8, NoVerdict
    <3> QED
      BY <2>2, <2>3, <2>4, <3>1, ActiveGrows, OthersKept
  <2> QED
    BY <2>3, <2>7, <2>8
<1>3. ASSUME NEW c \in Customers, Step(c)
      PROVE  VerdictsOK'
  BY <1>3, ProcessVerdicts DEF Step, Inv, Types, TypeOK
<1> QED
  BY <1>1, <1>2, <1>3
     DEF Next, LaneStep, Submit, EndJob, Environment, ToggleWindow, Reload, Lapse, vars,
         procVars, stores

LEMMA InitVerdicts == Init => VerdictsOK
<1> SUFFICES ASSUME Init
             PROVE  VerdictsOK
  OBVIOUS
<1>1. \A c \in Customers : window[c] = <<>> /\ Len(window[c]) = 0
  BY EmptySeq DEF Init, ProcInit
<1>2. \A j \in Jobs : pc[j] = "idle" /\ call[j] = NoCall /\ outcome[j] = NoOutcome
  BY DEF Init, ProcInit
<1>3. ASSUME NEW j \in Jobs
      PROVE  CallOK(j)
  <2>1. ~Committed(j)
    BY <1>2 DEF Committed, NoOutcome
  <2> QED
    BY <1>2, <2>1
       DEF CallOK, LocalsOK, RecordedOK, AnswerOK, Judged, Recording, Evaluating
<1> QED
  BY <1>1, <1>3 DEF VerdictsOK, EntriesOK

(* What the rules that a decided call has passed come to: all of them, of   *)
(* the configuration it read and with the limit it found.                   *)
LEMMA DecidedVerdict ==
  ASSUME Inv, VerdictsOK, NEW j \in Jobs, Committed(j)
  PROVE  LET config == RuleSets[call[j].config]
             limit  == call[j].limit
             hits   == ToSet(call[j].result.hits)
             full   == ShouldTrigger(j, config, limit)
             failing == {r \in ToSet(config.rules) : r.enabled /\ r.condition = "broken"}
         IN  /\ call[j].config \in 1 .. active /\ limit \in Limits(j, config)
             /\ hits \subseteq full
             /\ \A r \in (full \ hits) \cup failing :
                  r.needsWindow /\ outcome[j].partial
             /\ outcome[j].kind = "alert" <=>
                  Alerts(call[j].result.hits, config.minimum)
             /\ outcome[j].kind = "alert" <=> j \in PublishedJobs
<1> DEFINE config == RuleSets[call[j].config]
           rules == config.rules
           list  == call[j].result.hits
           hits  == ToSet(list)
           full  == ShouldTrigger(j, config, call[j].limit)
           failing == {r \in ToSet(rules) : r.enabled /\ r.condition = "broken"}
<1>1. /\ HitsOK(j) /\ AnswerOK(j) /\ call[j].config \in 1 .. Len(RuleSets)
      /\ call[j].config \in 1 .. active /\ call[j].limit \in Limits(j, config)
      /\ pc[j] # "evaluate" /\ rules = RulesOf(j)
  <2>1. /\ HitsOK(j) /\ AnswerOK(j) /\ LocalsOK(j) /\ Judged(j) /\ pc[j] # "evaluate"
        /\ active \in 1 .. Len(RuleSets) /\ Len(RuleSets) \in Nat
    BY ProcessorAssumption
       DEF VerdictsOK, CallOK, Judged, Committed, Inv, CallsOK, NoOutcome, Types, TypeOK
  <2> QED
    BY <2>1 DEF LocalsOK, RulesOf
<1>2. /\ DOMAIN rules = 1 .. Len(rules) /\ Len(rules) \in Nat
      /\ call[j].next = Len(rules) + 1 /\ call[j].next - 1 = Len(rules)
  BY <1>1, RulesTyped DEF HitsOK
<1>3. DOMAIN list = 1 .. Len(list)
  BY <1>1, LenProperties DEF HitsOK
<1>4. /\ \A i \in 1 .. Len(list) : \E n \in 1 .. Len(rules) :
           list[i] = rules[n] /\ Due(j, rules[n])
      /\ \A n \in 1 .. Len(rules) : Due(j, rules[n]) =>
           \/ \E i \in 1 .. Len(list) : list[i] = rules[n]
           \/ rules[n].needsWindow /\ call[j].result.degraded
      /\ \A n \in 1 .. Len(rules) : Failing(j, rules[n]) =>
           rules[n].needsWindow /\ call[j].result.degraded
  BY <1>1, <1>2 DEF HitsOK
<1>5. hits \subseteq full
  <2> SUFFICES ASSUME NEW i \in 1 .. Len(list)
               PROVE  list[i] \in full
    BY <1>3 DEF ToSet
  <2>1. PICK n \in 1 .. Len(rules) : list[i] = rules[n] /\ Due(j, rules[n])
    BY <1>4
  <2>2. rules[n] \in ToSet(rules)
    BY <1>2 DEF ToSet
  <2> QED
    BY <2>1, <2>2 DEF ShouldTrigger, Due
<1>6. ASSUME NEW r \in full \ hits
      PROVE  r.needsWindow /\ outcome[j].partial
  <2>1. PICK n \in 1 .. Len(rules) : r = rules[n]
    BY <1>2 DEF ShouldTrigger, ToSet
  <2>2. ~\E i \in 1 .. Len(list) : list[i] = r
    BY <1>3 DEF ToSet
  <2>3. CASE Due(j, r)
    BY <1>1, <1>4, <2>1, <2>2, <2>3 DEF AnswerOK, Partial
  <2>4. CASE ~Due(j, r)
    BY <1>1, <2>4 DEF AnswerOK, Partial, Due, ShouldTrigger
  <2> QED
    BY <2>3, <2>4
<1>7. ASSUME NEW r \in failing
      PROVE  r.needsWindow /\ outcome[j].partial
  <2>1. PICK n \in 1 .. Len(rules) : r = rules[n]
    BY <1>2 DEF ToSet
  <2>2. CASE Failing(j, r)
    BY <1>1, <1>4, <2>1, <2>2 DEF AnswerOK, Partial
  <2>3. CASE ~Failing(j, r)
    BY <1>1, <2>3 DEF AnswerOK, Partial, Failing
  <2> QED
    BY <2>2, <2>3
<1>8. outcome[j].kind = "alert" <=> Alerts(list, config.minimum)
  BY <1>1 DEF AnswerOK, Suspicious
<1>9. outcome[j].kind = "alert" <=> j \in PublishedJobs
  <2>1. DOMAIN published = 1 .. Len(published)
    BY LenProperties DEF Inv, Types
  <2>2. j \in PublishedJobs => outcome[j].kind # "clean"
    BY <2>1 DEF PublishedJobs, Inv, TracesOK
  <2>3. Suspicious(j) <=> outcome[j].kind = "alert"
    BY <1>1 DEF AnswerOK
  <2> QED
    BY <2>2, <2>3 DEF Inv, DecisionsOK, Committed
<1> HIDE DEF hits, full, failing, list, rules
<1> QED
  BY <1>1, <1>5, <1>6, <1>7, <1>8, <1>9 DEF hits, full, failing, list, rules

(* FR-010, FR-008, processor.go:96-170, evaluator.go:61-103: whatever other *)
(* calls, reloads, outages and failures come in between, a verdict is that  *)
(* of one instant: what one rule set, with its own default limit, triggers  *)
(* on the window that ends with the call, less rules that need a window the *)
(* verdict admits to have missed; and its alert is out if and only if those *)
(* rules call for one by the threshold of that rule set.                    *)
THEOREM VerdictIsSequentialHolds == Spec => []VerdictIsSequential
<1>1. Inv /\ VerdictsOK => VerdictIsSequential
  BY DecidedVerdict DEF VerdictIsSequential
<1> QED
  BY <1>1, InitVerdicts, StepVerdicts, InitInv, StepInv, PTL DEF Spec

-----------------------------------------------------------------------------
(* The score against the threshold.                                         *)

(* A score that reaches the threshold, and the score of a worse hit.        *)
LEMMA WorseScoreReaches ==
  ASSUME NEW a, a.num \in Nat, a.den \in Nat \ {0},
         NEW b, b.num \in Nat, b.den \in Nat \ {0},
         NEW low \in 1 .. 4, NEW high \in 1 .. 4, low < high,
         NEW m \in 0 .. 100, NEW n \in 0 .. 100, n <= m,
         Leq(a, [num |-> low, den |-> 4]), Less([num |-> high - 1, den |-> 4], b),
         ~Less(a, [num |-> m, den |-> 100])
  PROVE  ~Less(b, [num |-> n, den |-> 100])
<1>1. /\ a.num * 4 <= low * a.den /\ m * a.den <= a.num * 100
      /\ (high - 1) * b.den < b.num * 4
  BY DEF Leq, Less
<1>2. m <= 25 * low
  <2> SUFFICES ASSUME 25 * low + 1 <= m
               PROVE  FALSE
    OBVIOUS
  <2>1. (25 * low + 1) * a.den <= m * a.den
    OBVIOUS
  <2>2. (25 * low + 1) * a.den = 25 * (low * a.den) + a.den
    OBVIOUS
  <2>3. low * a.den \in Nat /\ m * a.den \in Nat
    OBVIOUS
  <2> QED
    BY <1>1, <2>1, <2>2, <2>3
<1>3. n <= 25 * (high - 1)
  BY <1>2
<1>4. n * b.den <= 25 * ((high - 1) * b.den)
  <2>1. n * b.den <= (25 * (high - 1)) * b.den
    BY <1>3
  <2> QED
    BY <2>1
<1>5. n * b.den <= b.num * 100
  <2>1. (high - 1) * b.den \in Nat /\ n * b.den \in Nat
    OBVIOUS
  <2> QED
    BY <1>1, <1>4, <2>1
<1> QED
  BY <1>5 DEF Less

(* What is known of the score of a call that has passed all its rules.      *)
LEMMA DecidedScore ==
  ASSUME Inv, VerdictsOK, NEW j \in Jobs, Committed(j), WorstHit(j) > 0
  PROVE  LET score == Score(SeveritiesOf(call[j].result.hits))
         IN  /\ call[j].result.hits # <<>>
             /\ WorstHit(j) \in 1 .. 4 /\ Threshold(j) \in 0 .. 100
             /\ score.num \in Nat /\ score.den \in Nat \ {0}
             /\ Leq(score, [num |-> WorstHit(j), den |-> 4])
             /\ Less([num |-> WorstHit(j) - 1, den |-> 4], score)
<1> DEFINE result == call[j].result
<1>1. /\ HitsOK(j) /\ call[j].config \in 1 .. Len(RuleSets)
  BY DEF VerdictsOK, CallOK, Judged, LocalsOK
<1>2. result.hits \in Seq(RuleDefs) /\ SeverityIsWorst(result)
  BY <1>1 DEF HitsOK
<1>3. result.hits # <<>>
  BY <1>2, RankType DEF SeverityIsWorst, WorstHit
<1>4. \A rule \in RuleDefs : rule.severity \in Severities
  BY DEF RuleDefs
<1>5. Threshold(j) \in 0 .. 100
  BY <1>1, ProcessorAssumption DEF Threshold
<1> HIDE DEF result
<1>6. LET score == Score(SeveritiesOf(result.hits))
      IN  /\ score.num \in Nat /\ score.den \in Nat \ {0}
          /\ Rank(result.severity) \in 1 .. 4
          /\ Leq(score, [num |-> Rank(result.severity), den |-> 4])
          /\ Less([num |-> Rank(result.severity) - 1, den |-> 4], score)
  BY <1>2, <1>3, <1>4, ScoreFollowsSeverity
<1> QED
  BY <1>3, <1>5, <1>6 DEF result, WorstHit

(* FR-006, score.go:19-39, evaluator.go:105-112, processor.go:133:          *)
(* where a transaction raised an alert, none with a worse hit is let pass   *)
(* by the same or a lower threshold, whatever else either of them hit.      *)
THEOREM AlertsFollowSeverityHolds == Spec => []AlertsFollowSeverity
<1>1. Inv /\ VerdictsOK => AlertsFollowSeverity
  <2> SUFFICES ASSUME Inv, VerdictsOK, NEW i \in Jobs, NEW j \in Jobs,
                      outcome[i].kind = "alert", Committed(j),
                      WorstHit(j) > WorstHit(i), Threshold(j) <= Threshold(i)
               PROVE  outcome[j].kind = "alert"
    BY DEF AlertsFollowSeverity
  <2> DEFINE mine   == Score(SeveritiesOf(call[j].result.hits))
             theirs == Score(SeveritiesOf(call[i].result.hits))
  <2>1. Committed(i) /\ AnswerOK(i) /\ AnswerOK(j)
    BY DEF Committed, VerdictsOK, CallOK
  <2>2. Suspicious(i)
    BY <2>1 DEF AnswerOK
  <2>3. ~Less(theirs, [num |-> Threshold(i), den |-> 100]) /\ call[i].result.hits # <<>>
    BY <2>2 DEF Suspicious, Alerts, Threshold
  <2>4. WorstHit(i) > 0 /\ WorstHit(j) > 0
    <3>1. HitsOK(i)
      BY <2>1 DEF VerdictsOK, CallOK, Judged
    <3>2. call[i].result.hits \in Seq(RuleDefs) /\ SeverityIsWorst(call[i].result)
      BY <3>1 DEF HitsOK
    <3>3. \A rule \in RuleDefs : rule.severity \in Severities
      BY DEF RuleDefs
    <3>4. WorstHit(i) \in 1 .. 4
      BY <2>3, <3>2, <3>3, ScoreFollowsSeverity DEF WorstHit
    <3>5. WorstHit(j) \in 0 .. 4
      BY RankType DEF WorstHit
    <3> QED
      BY <3>4, <3>5
  <2>5. /\ WorstHit(i) \in 1 .. 4 /\ Threshold(i) \in 0 .. 100
        /\ theirs.num \in Nat /\ theirs.den \in Nat \ {0}
        /\ Leq(theirs, [num |-> WorstHit(i), den |-> 4])
    BY <2>1, <2>4, DecidedScore
  <2>6. /\ WorstHit(j) \in 1 .. 4 /\ Threshold(j) \in 0 .. 100
        /\ mine.num \in Nat /\ mine.den \in Nat \ {0}
        /\ Less([num |-> WorstHit(j) - 1, den |-> 4], mine)
        /\ call[j].result.hits # <<>>
    BY <2>4, DecidedScore
  <2> HIDE DEF mine, theirs
  <2>7. ~Less(mine, [num |-> Threshold(j), den |-> 100])
    BY <2>3, <2>5, <2>6, WorseScoreReaches
  <2>8. Suspicious(j)
    BY <2>6, <2>7 DEF Suspicious, Alerts, Threshold, mine
  <2> QED
    BY <2>1, <2>8 DEF AnswerOK
<1> QED
  BY <1>1, InitVerdicts, StepVerdicts, InitInv, StepInv, PTL DEF Spec
=============================================================================
