--------------------------- MODULE CustomerLanes ---------------------------
(***************************************************************************)
(* What dispatch.Pool promises to the pipeline (pool.go:1-4, 26-28): every *)
(* customer has a lane of its own, its jobs run one at a time in the order *)
(* they were accepted, and different customers run independently.  Workers,*)
(* hashing and channel capacities are not part of the promise.             *)
(***************************************************************************)
EXTENDS Sequences

CONSTANTS Jobs, Customers, CustomerOf, NoJob

VARIABLES
  line,      \* the jobs each customer has waiting, oldest first
  busy,      \* the job each customer is in, or NoJob
  accepted,  \* every job accepted so far
  over       \* every job that ran to its end

lanesVars == <<line, busy, accepted, over>>

LanesInit ==
  /\ line = [c \in Customers |-> <<>>]
  /\ busy = [c \in Customers |-> NoJob]
  /\ accepted = {}
  /\ over = {}

Accept(j) ==
  /\ j \notin accepted
  /\ accepted' = accepted \cup {j}
  /\ line' = [line EXCEPT ![CustomerOf[j]] = Append(@, j)]
  /\ UNCHANGED <<busy, over>>

Start(c) ==
  /\ busy[c] = NoJob
  /\ line[c] # <<>>
  /\ busy' = [busy EXCEPT ![c] = Head(line[c])]
  /\ line' = [line EXCEPT ![c] = Tail(@)]
  /\ UNCHANGED <<accepted, over>>

End(c) ==
  /\ busy[c] # NoJob
  /\ busy' = [busy EXCEPT ![c] = NoJob]
  /\ over' = over \cup {busy[c]}
  /\ UNCHANGED <<line, accepted>>

LanesNext ==
  \/ \E j \in Jobs : Accept(j)
  \/ \E c \in Customers : Start(c) \/ End(c)

\* No lane stalls.
LanesFairness == \A c \in Customers : WF_lanesVars(Start(c) \/ End(c))

Spec == LanesInit /\ [][LanesNext]_lanesVars /\ LanesFairness
=============================================================================
