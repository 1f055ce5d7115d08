------------------------------ MODULE Pipeline ------------------------------
(***************************************************************************)
(* The detection pipeline: calls of Process run in the lanes dispatch.Pool *)
(* provides.  The lanes are CustomerLanes.tla, which Pool.tla implements;  *)
(* POST /transactions, POST /transactions/batch and the demo all submit to *)
(* the one pool, so a lane mixes their calls and a client's retries.       *)
(***************************************************************************)
EXTENDS Processor

CONSTANT NoJob  \* "this lane is between two calls"

ASSUME PipelineAssumption == NoJob \notin Jobs

VARIABLES line, busy, accepted, over

Lanes == INSTANCE CustomerLanes

lanesVars == <<line, busy, accepted, over>>
vars == <<lanesVars, procVars>>

Init == Lanes!LanesInit /\ ProcInit

\* Submit returned true.
Submit(j) == Lanes!Accept(j) /\ UNCHANGED procVars

\* The customer's worker enters the job's Run, which calls Process.
StartJob(c) == Lanes!Start(c) /\ Begin(Head(line[c]))

\* Process goes on inside the lane.
Step(c) ==
  /\ busy[c] # NoJob
  /\ ProcessStep(busy[c])
  /\ UNCHANGED lanesVars

\* Run returns to the worker.
EndJob(c) ==
  /\ busy[c] # NoJob
  /\ pc[busy[c]] = "done"
  /\ Lanes!End(c)
  /\ UNCHANGED procVars

LaneStep(c) == StartJob(c) \/ Step(c) \/ EndJob(c)

Next ==
  \/ \E j \in Jobs : Submit(j)
  \/ \E c \in Customers : LaneStep(c)
  \/ Environment /\ UNCHANGED lanesVars

\* The pool keeps every lane moving (Pool!ImplementsLanes); nothing forces a
\* submission, a toggle, a reload or an expiry.
Fairness == \A c \in Customers : WF_vars(LaneStep(c))

Spec == Init /\ [][Next]_vars /\ Fairness

-----------------------------------------------------------------------------
(* What the clients see of it: see SequentialDetector.tla.                 *)

PublishedJobs == {published[i].job : i \in DOMAIN published}

Abstract == INSTANCE SequentialDetector WITH
  KeyOf <- [j \in Jobs |-> Key(j)],
  Verdicts <- [j \in Jobs |-> [kind : {"clean", "alert"}, partial : BOOLEAN]],
  Fallible <- Jobs,
  marked <- {k \in Keys : idempotency[k] = "live"},
  alerted <- {j \in PublishedJobs : pc[j] = "done"}

\* However the port calls of different customers, failures, outages, reloads and
\* expiring keys interleave, the pipeline behaves as if each call were decided
\* at one instant, in the order the customer's calls were accepted: a duplicate
\* is one at the instant it is called so, a failed call changes nothing but for
\* an alert that is already out, and every accepted call is decided (FR-002,
\* FR-010).
ImplementsDetector == Abstract!Spec

-----------------------------------------------------------------------------
(* The type invariant, and the properties.                                 *)

\* Types, and the lanes' link to Process: a call has an outcome once it returned,
\* and a lane only runs calls of its own customer.
TypeOK ==
  /\ pc \in [Jobs -> PCs]
  /\ \A j \in Jobs :
       /\ call[j].config \in 0 .. Len(RuleSets)
       /\ outcome[j].kind \in {"none", "invalid", "duplicate", "error", "clean",
                               "alert"}
       /\ outcome[j].kind # "none" <=> pc[j] = "done"
  /\ idempotency \in [Keys -> {"absent", "live", "expired"}]
  /\ window \in [Customers -> Seq(Jobs)]
  /\ windowDown \in BOOLEAN
  /\ active \in 1 .. Len(RuleSets)
  /\ \A i \in DOMAIN published : published[i].job \in Jobs
  /\ busy \in [Customers -> Jobs \cup {NoJob}]
  /\ \A c \in Customers : busy[c] # NoJob => CustomerOf[busy[c]] = c

Recorded(c) == ToSet(window[c])
Committed(j) == outcome[j].kind \in {"clean", "alert"}

\* FR-002, "no duplicate alert for the same transaction" (spec.md:189): however
\* often a transaction is submitted, a second alert needs a reason, either its
\* key outlived the TTL or the first alert's Mark failed.
OneAlertPerTransaction ==
  \A k \in Keys :
    Cardinality({i \in DOMAIN published : Key(published[i].job) = k})
      <= 1 + Cardinality({i \in DOMAIN lapses : lapses[i] = k})
           + Cardinality({j \in PublishedJobs :
                            Key(j) = k /\ outcome[j].kind = "error"})

\* FR-002: a duplicate leaves no trace, and only a transaction that an earlier
\* call saw through to its end, its alert published, is ever called one.
DuplicateIsCommitted ==
  \A j \in Jobs : outcome[j].kind = "duplicate" =>
    /\ j \notin Recorded(CustomerOf[j])
    /\ j \notin PublishedJobs
    /\ \E i \in Jobs \ {j} : Key(i) = Key(j) /\ Committed(i)

\* A crash or failure mid-way never swallows a retry (processor.go:134-136,
\* 163-165): a key the store holds belongs to a call that committed, with its
\* alert out if the rules asked for one.
MarkedIsCommitted ==
  \A k \in Keys : idempotency[k] # "absent" =>
    \E j \in Jobs :
      /\ Key(j) = k
      /\ Committed(j)
      /\ Suspicious(j) => j \in PublishedJobs

\* The customer's window as it stood when a call recorded itself.
WindowUpTo(j) ==
  LET entries == window[CustomerOf[j]]
  IN  IF j \in ToSet(entries)
      THEN SubSeq(entries, 1, CHOOSE i \in DOMAIN entries : entries[i] = j)
      ELSE entries

\* The rules a configuration and a limit call for, all layers being there.
ShouldTrigger(j, config, limit) ==
  {r \in ToSet(config.rules) :
     /\ r.enabled
     /\ r.condition # "broken"
     /\ Matches(r, j, WindowUpTo(j), limit)}

\* FR-010, FR-008: a verdict is the one a sequential run of the customer's calls
\* gives under one configuration that was active by then, through and through:
\* its rules, its default limit, its threshold.  A rule of it that should have
\* triggered, or failed, is missing only if it needs the window and the verdict
\* says partial; an alert is raised if and only if the triggered rules call for one.
VerdictIsSequential ==
  \A j \in Jobs : Committed(j) =>
    \E n \in 1 .. active : \E limit \in Limits(j, RuleSets[n]) :
      LET config == RuleSets[n]
          hits   == ToSet(call[j].result.hits)
          full   == ShouldTrigger(j, config, limit)
          failing == {r \in ToSet(config.rules) : r.enabled /\ r.condition = "broken"}
      IN  /\ hits \subseteq full
          /\ \A r \in (full \ hits) \cup failing :
               r.needsWindow /\ outcome[j].partial
          /\ outcome[j].kind = "alert" <=>
               Alerts(call[j].result.hits, config.minimum)
          /\ outcome[j].kind = "alert" <=> j \in PublishedJobs

Threshold(j) == RuleSets[call[j].config].minimum
WorstHit(j) == Rank(call[j].result.severity)

\* FR-006: the overall severity, folded hit by hit, and the score, which finds the
\* worst hit on its own and lets all others pull at the mean, decide alike.  Where
\* a transaction raised an alert, no other with a worse hit is let pass by the same
\* or a lower threshold, whatever else either of them triggered.
AlertsFollowSeverity ==
  \A i, j \in Jobs :
    /\ outcome[i].kind = "alert"
    /\ Committed(j)
    /\ WorstHit(j) > WorstHit(i)
    /\ Threshold(j) <= Threshold(i)
    => outcome[j].kind = "alert"

-----------------------------------------------------------------------------
(* Statements of the repository that the code does not meet.               *)

\* spec.md:189: "the window reflects the current transaction exactly once".
WindowOncePerTransaction ==
  \A c \in Customers : \A a, b \in DOMAIN window[c] :
    TransactionOf[window[c][a]] = TransactionOf[window[c][b]] => a = b

\* processor.go:196-200: "window_bucket is derived from the span of the highest-
\* severity triggered rule that declares a window; transactions with no windowed
\* trigger use a fixed default span".
BucketOfWindowedRule ==
  \A i \in DOMAIN published :
    LET j == published[i].job
        windowed == {r \in ToSet(call[j].result.hits) : r.span > 0}
        spans == IF windowed = {} THEN {DefaultBucketSpan}
                 ELSE {r.span : r \in {w \in windowed : \A v \in windowed :
                                         Rank(v.severity) <= Rank(w.severity)}}
    IN  \E span \in spans :
          published[i].id = <<CustomerOf[j], TransactionOf[j],
                              (CapturedAt[j] \div span) * span>>
=============================================================================
