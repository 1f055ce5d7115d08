------------------------------ MODULE Induction ------------------------------
(***************************************************************************)
(* Induction over the natural numbers and recursion over an interval, for  *)
(* loops modelled as recursive functions.  Both are stated with sets and   *)
(* functions, where the library's theorems take an operator: a property of *)
(* numbers is the set of those that have it, the body of a loop a function *)
(* of what the loop has so far and the place it is at.                     *)
(***************************************************************************)
EXTENDS Integers, FiniteSetTheorems, WellFoundedInduction, TLAPS

(* A set of natural numbers has a least element: the segments that end at   *)
(* one of its elements, up to some element, are finite sets, and inclusion  *)
(* is well-founded on those.                                                *)
LEMMA LeastNat ==
  ASSUME NEW T, T \subseteq Nat, T # {}
  PROVE  \E n \in T : \A m \in T : n <= m
<1>1. PICK top \in T : TRUE
  OBVIOUS
<1> DEFINE Segments == {0 .. m : m \in {k \in T : k <= top}}
<1>2. Segments \subseteq FiniteSubsetsOf(0 .. top)
  <2> SUFFICES ASSUME NEW m \in T, m <= top
               PROVE  0 .. m \in SUBSET (0 .. top) /\ IsFiniteSet(0 .. m)
    BY DEF FiniteSubsetsOf
  <2> QED
    BY FS_Interval
<1>3. 0 .. top \in Segments
  OBVIOUS
<1>4. PICK least \in Segments :
        \A other \in Segments : <<other, least>> \notin StrictSubsetOrdering(0 .. top)
  <2> HIDE DEF Segments
  <2> QED
    BY <1>2, <1>3, WFMin, FS_StrictSubsetOrderingWellFounded
<1>5. PICK n \in T : n <= top /\ least = 0 .. n
  OBVIOUS
<1>6. ASSUME NEW m \in T, m < n
      PROVE  FALSE
  <2>1. 0 .. m \in Segments
    BY <1>5, <1>6
  <2>2. n \in 0 .. n /\ n \notin 0 .. m
    BY <1>6
  <2>3. 0 .. m \subseteq 0 .. n /\ 0 .. m # 0 .. n /\ 0 .. n \subseteq 0 .. top
    BY <1>5, <1>6, <2>2
  <2> QED
    BY <1>4, <1>5, <2>1, <2>3 DEF StrictSubsetOrdering
<1> QED
  BY <1>6

(* What holds at lo and passes from each number to the next, up to hi,      *)
(* holds from lo to hi.                                                     *)
LEMMA IntervalInduction ==
  ASSUME NEW lo \in Nat, NEW hi \in Nat, NEW T, lo \in T,
         \A n \in lo + 1 .. hi : n - 1 \in T => n \in T
  PROVE  lo .. hi \subseteq T
<1> DEFINE Failing == {n \in lo .. hi : n \notin T}
<1> SUFFICES ASSUME Failing # {}
             PROVE  FALSE
  OBVIOUS
<1>1. PICK n \in Failing : \A m \in Failing : n <= m
  <2>1. Failing \subseteq Nat
    OBVIOUS
  <2> HIDE DEF Failing
  <2> QED
    BY <2>1, LeastNat
<1>2. n - 1 \in lo .. hi /\ n - 1 \in T /\ n \in lo + 1 .. hi
  BY <1>1
<1> QED
  BY <1>1, <1>2

(* The values of a loop at the places from lo to hi: base at the first one,  *)
(* then what step makes of the value before.                                *)
IsRun(f, lo, hi, base, step) ==
  /\ f[lo] = base
  /\ \A n \in lo .. hi : n # lo => f[n] = step[n][f[n - 1]]

HasRun(lo, hi, X, base, step) ==
  \E run \in [lo .. hi -> X] : IsRun(run, lo, hi, base, step)

(* A loop whose steps stay in a set has a run.                              *)
LEMMA IntervalRecursion ==
  ASSUME NEW lo \in Nat, NEW hi \in Nat, lo <= hi,
         NEW X, NEW base \in X, NEW step \in [lo .. hi -> [X -> X]]
  PROVE  HasRun(lo, hi, X, base, step)
<1> DEFINE Runs(f, k) == f \in [lo .. k -> X] /\ IsRun(f, lo, k, base, step)
           T == {k \in lo .. hi : \E f : Runs(f, k)}
<1>1. lo \in T
  <2> DEFINE f == [n \in lo .. lo |-> base]
  <2>1. Runs(f, lo)
    BY DEF IsRun
  <2> HIDE DEF Runs, f
  <2> QED
    BY <2>1
<1>2. ASSUME NEW k \in lo + 1 .. hi, k - 1 \in T
      PROVE  k \in T
  <2>1. PICK f : Runs(f, k - 1)
    BY <1>2
  <2> DEFINE g == [n \in lo .. k |-> IF n = k THEN step[k][f[k - 1]] ELSE f[n]]
  <2>2. step[k][f[k - 1]] \in X
    BY <2>1
  <2>3. g \in [lo .. k -> X] /\ g[lo] = base
    BY <2>1, <2>2 DEF IsRun
  <2>4. ASSUME NEW n \in lo .. k, n # lo
        PROVE  g[n] = step[n][g[n - 1]]
    <3>1. n - 1 \in lo .. k /\ n - 1 # k /\ g[n - 1] = f[n - 1]
      BY <2>4
    <3>2. CASE n = k
      BY <3>1, <3>2
    <3>3. CASE n # k
      BY <2>1, <2>4, <3>1, <3>3 DEF IsRun
    <3> QED
      BY <3>2, <3>3
  <2> HIDE DEF g
  <2>5. Runs(g, k)
    BY <2>3, <2>4 DEF IsRun
  <2> HIDE DEF Runs
  <2> QED
    BY <2>5
<1>3. PICK run : Runs(run, hi)
  <2>1. lo .. hi \subseteq T
    <3> HIDE DEF T
    <3> QED
      BY <1>1, <1>2, IntervalInduction
  <2> HIDE DEF Runs
  <2> QED
    BY <2>1
<1> QED
  BY <1>3 DEF HasRun
=============================================================================
