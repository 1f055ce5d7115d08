------------------------------- MODULE MCPool -------------------------------
(* An instance of Pool for TLC: customers c1 and c2 share a worker, c3 has  *)
(* the other; c1 submits two jobs.                                          *)
EXTENDS Pool, TLC

CONSTANTS j1, j2, j3, j4, c1, c2, c3

MCJobs == {j1, j2, j3, j4}
MCCustomers == {c1, c2, c3}
MCCustomerOf == j1 :> c1 @@ j2 :> c1 @@ j3 :> c2 @@ j4 :> c3
MCHash == c1 :> 3 @@ c2 :> 5 @@ c3 :> 4
MCImpatient == {j2, j3}
=============================================================================
