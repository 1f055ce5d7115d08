------------------------------ MODULE Detector ------------------------------
(***************************************************************************)
(* What Processor.Process promises about one call, in one step: the call   *)
(* is refused, discarded as a duplicate, decided, or failed.  Only a       *)
(* decision marks the transaction as seen, and an alert is out by then.    *)
(* Processor.tla takes the same call apart, port call by port call.        *)
(***************************************************************************)
CONSTANTS
  Jobs,      \* calls of Process
  KeyOf,     \* the idempotency key of a call
  Valid,     \* the calls whose transaction passes Validate
  Verdicts,  \* the verdicts the rules may come to for a call
  Fallible   \* calls that an error or a panic may end

ASSUME DetectorAssumption ==
  /\ DOMAIN KeyOf = Jobs
  /\ Valid \subseteq Jobs
  /\ Fallible \subseteq Jobs
  /\ Verdicts \in [Jobs -> SUBSET [kind : {"clean", "alert"}, partial : BOOLEAN]]

VARIABLES
  outcome,  \* what each call returned
  marked,   \* keys the idempotency store knows
  alerted   \* calls whose alert was published

decisions == <<outcome, marked, alerted>>

Undecided == [kind |-> "none", partial |-> FALSE]
Returned(kind) == [kind |-> kind, partial |-> FALSE]

DetectorInit ==
  /\ outcome = [j \in Jobs |-> Undecided]
  /\ marked = {}
  /\ alerted = {}

Open(j) == outcome[j] = Undecided

\* The transaction does not validate.
Refuse(j) ==
  /\ Open(j) /\ j \notin Valid
  /\ outcome' = [outcome EXCEPT ![j] = Returned("invalid")]
  /\ UNCHANGED <<marked, alerted>>

\* A call for the same transaction was decided before.
Discard(j) ==
  /\ Open(j) /\ j \in Valid
  /\ KeyOf[j] \in marked
  /\ outcome' = [outcome EXCEPT ![j] = Returned("duplicate")]
  /\ UNCHANGED <<marked, alerted>>

\* The call is decided, with its alert published and its key marked.
Decide(j) ==
  /\ Open(j) /\ j \in Valid
  /\ KeyOf[j] \notin marked
  /\ \E verdict \in Verdicts[j] :
       /\ outcome' = [outcome EXCEPT ![j] = verdict]
       /\ alerted' = IF verdict.kind = "alert" THEN alerted \cup {j} ELSE alerted
  /\ marked' = marked \cup {KeyOf[j]}

\* The call fails, before or after it published; its key stays unmarked.
Fail(j) ==
  /\ Open(j) /\ j \in Valid \cap Fallible
  /\ outcome' = [outcome EXCEPT ![j] = Returned("error")]
  /\ alerted' \in {alerted, alerted \cup (IF KeyOf[j] \in marked THEN {} ELSE {j})}
  /\ UNCHANGED marked

Detect(j) == Refuse(j) \/ Discard(j) \/ Decide(j) \/ Fail(j)

\* A key outlives its TTL.
Forget(k) ==
  /\ k \in marked
  /\ marked' = marked \ {k}
  /\ UNCHANGED <<outcome, alerted>>
=============================================================================
