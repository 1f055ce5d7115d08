------------------------- MODULE SequentialDetector -------------------------
(***************************************************************************)
(* The engine as its clients see it: the calls of one customer are decided *)
(* one after the other, in the order they were accepted, each in a single  *)
(* step.  Stores, rules, reloads and outages do not show, except in which  *)
(* verdict is reached.  Pipeline.tla implements it, and HttpApi.tla.       *)
(***************************************************************************)
EXTENDS Detector, Sequences

CONSTANTS Customers, CustomerOf, NoJob

VARIABLES line, busy, accepted, over

Lanes == INSTANCE CustomerLanes

lanesVars == <<line, busy, accepted, over>>
detectorVars == <<lanesVars, decisions>>

Init == Lanes!LanesInit /\ DetectorInit

Accept(j) == Lanes!Accept(j) /\ UNCHANGED decisions

\* The next call of a customer; one that does not validate is over at once.
Start(c) ==
  /\ Lanes!Start(c)
  /\ IF Head(line[c]) \in Valid THEN UNCHANGED decisions ELSE Refuse(Head(line[c]))

Answer(c) ==
  /\ busy[c] # NoJob
  /\ Detect(busy[c])
  /\ UNCHANGED lanesVars

End(c) ==
  /\ Lanes!End(c)
  /\ ~Open(busy[c])
  /\ UNCHANGED decisions

LaneStep(c) == Start(c) \/ Answer(c) \/ End(c)

Next ==
  \/ \E j \in Jobs : Accept(j)
  \/ \E c \in Customers : LaneStep(c)
  \/ \E k \in marked : Forget(k) /\ UNCHANGED lanesVars

Fairness == \A c \in Customers : WF_detectorVars(LaneStep(c))

Spec == Init /\ [][Next]_detectorVars /\ Fairness
=============================================================================
