------------------------------ MODULE MCHttpApi ------------------------------
(* A single request, and a batch that repeats its transaction among two        *)
(* others, one of which does not validate; both clients may go away.          *)
EXTENDS HttpApi, TLC

CONSTANTS single, batch, s1, b1, b2, b3, c1, c2

MCJobs == {s1, b1, b2, b3}
MCItems == single :> <<s1>> @@ batch :> <<b1, b2, b3>>
MCCustomerOf == s1 :> c1 @@ b1 :> c1 @@ b2 :> c2 @@ b3 :> c1
MCKeyOf == s1 :> "t1" @@ b1 :> "t1" @@ b2 :> "t2" @@ b3 :> "t3"
MCHash == c1 :> 0 @@ c2 :> 1

Alert == [kind |-> "alert", partial |-> FALSE]
Clean == [kind |-> "clean", partial |-> TRUE]
MCVerdicts == s1 :> {Alert} @@ b1 :> {Alert} @@ b2 :> {Clean} @@ b3 :> {Clean}
=============================================================================
