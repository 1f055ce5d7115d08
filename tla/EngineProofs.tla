---------------------------- MODULE EngineProofs ----------------------------
(***************************************************************************)
(* Proofs about Engine, for any rules and any number of hits: the severity *)
(* Evaluate builds up hit by hit is that of a worst hit, and the score     *)
(* lies in the band of that severity.                                      *)
(*                                                                         *)
(* What the loops of Score compute (the sum and the maximum) is shown for  *)
(* every sequence, by induction on the place the loop is at.               *)
(***************************************************************************)
EXTENDS Engine, Induction

(* The ranks tell the four severities apart, and an unknown one from them.  *)
LEMMA RankType ==
  /\ \A s : Rank(s) \in 0 .. 4
  /\ \A s \in Severities : Rank(s) \in 1 .. 4
  /\ \A s, t \in Severities : Rank(s) = Rank(t) => s = t
  /\ Rank(NoSeverity) = 0
<1>1. \A s : Rank(s) \in 0 .. 4
  BY DEF Rank
<1>2. \A s \in Severities : Rank(s) \in 1 .. 4
  BY DEF Rank, Severities
<1>3. ASSUME NEW s \in Severities, NEW t \in Severities, Rank(s) = Rank(t)
      PROVE  s = t
  BY <1>3 DEF Rank, Severities
<1>4. Rank(NoSeverity) = 0
  BY DEF Rank, NoSeverity
<1> QED
  BY <1>1, <1>2, <1>3, <1>4

(* The pairwise maximum is one of the two and outranked by neither, which   *)
(* is all that the loops need of it.                                        *)
LEMMA MaxSeverityOfTwo ==
  ASSUME NEW a, NEW b
  PROVE  /\ MaxSeverity(a, b) \in {a, b}
         /\ Rank(a) <= Rank(MaxSeverity(a, b))
         /\ Rank(b) <= Rank(MaxSeverity(a, b))
BY RankType DEF MaxSeverity

-----------------------------------------------------------------------------
(* The loops of Score (score.go:27-36).                                     *)

(* The running sum.                                                         *)
LEMMA SumRuns ==
  ASSUME NEW sevs \in Seq(Severities)
  PROVE  \E sum :
           /\ sum[0] = 0
           /\ \A n \in 1 .. Len(sevs) : sum[n] = sum[n - 1] + SeverityWeight(sevs[n])
           /\ TotalWeight(sevs) = sum[Len(sevs)]
<1> DEFINE N == Len(sevs)
           step == [n \in 0 .. N |-> [v \in Nat |-> v + SeverityWeight(sevs[n])]]
           IsLoop(f) == f = [n \in 0 .. N |-> IF n = 0 THEN 0
                                              ELSE f[n - 1] + SeverityWeight(sevs[n])]
<1>1. 0 \in Nat /\ N \in Nat /\ 0 <= N /\ 0 \in Nat
  OBVIOUS
<1>2. step \in [0 .. N -> [Nat -> Nat]]
  BY RankType DEF SeverityWeight
<1>3. HasRun(0, N, Nat, 0, step)
  <2> HIDE DEF step, N
  <2> QED
    BY <1>1, <1>2, IntervalRecursion
<1>4. PICK run \in [0 .. N -> Nat] : IsRun(run, 0, N, 0, step)
  BY <1>3 DEF HasRun
<1>5. run[0] = 0
  BY <1>4 DEF IsRun
<1>6. ASSUME NEW n \in 1 .. N
      PROVE  run[n] = run[n - 1] + SeverityWeight(sevs[n])
  <2>1. run[n] = step[n][run[n - 1]] /\ run[n - 1] \in Nat
    <3> HIDE DEF step, N
    <3> QED
      BY <1>1, <1>4 DEF IsRun
  <2> QED
    BY <2>1
<1>7. IsLoop(run)
  BY <1>5, <1>6
<1> DEFINE sum == CHOOSE f : IsLoop(f)
<1>8. IsLoop(sum)
  <2> HIDE DEF IsLoop
  <2> QED
    BY <1>7
<1>9. TotalWeight(sevs) = sum[N]
  BY DEF TotalWeight
<1> HIDE DEF sum
<1>10. sum[0] = 0 /\ \A n \in 1 .. N : sum[n] = sum[n - 1] + SeverityWeight(sevs[n])
  BY <1>1, <1>8
<1> QED
  BY <1>9, <1>10

(* The maximum so far.                                                      *)
LEMMA MaxRuns ==
  ASSUME NEW sevs \in Seq(Severities), sevs # <<>>
  PROVE  \E max :
           /\ max[1] = sevs[1]
           /\ \A n \in 2 .. Len(sevs) : max[n] = MaxSeverity(max[n - 1], sevs[n])
           /\ Worst(sevs) = max[Len(sevs)]
<1> DEFINE N == Len(sevs)
           step == [n \in 1 .. N |-> [v \in Severities |-> MaxSeverity(v, sevs[n])]]
           IsLoop(f) == f = [n \in 1 .. N |-> IF n = 1 THEN sevs[n]
                                              ELSE MaxSeverity(f[n - 1], sevs[n])]
<1>1. 1 \in Nat /\ N \in Nat /\ 1 <= N /\ sevs[1] \in Severities
  OBVIOUS
<1>2. step \in [1 .. N -> [Severities -> Severities]]
  BY MaxSeverityOfTwo
<1>3. HasRun(1, N, Severities, sevs[1], step)
  <2> HIDE DEF step, N
  <2> QED
    BY <1>1, <1>2, IntervalRecursion
<1>4. PICK run \in [1 .. N -> Severities] : IsRun(run, 1, N, sevs[1], step)
  BY <1>3 DEF HasRun
<1>5. run[1] = sevs[1]
  BY <1>4 DEF IsRun
<1>6. ASSUME NEW n \in 2 .. N
      PROVE  run[n] = MaxSeverity(run[n - 1], sevs[n])
  <2>1. run[n] = step[n][run[n - 1]] /\ run[n - 1] \in Severities
    <3> HIDE DEF step, N
    <3> QED
      BY <1>1, <1>4 DEF IsRun
  <2> QED
    BY <2>1
<1>7. IsLoop(run)
  BY <1>5, <1>6
<1> DEFINE max == CHOOSE f : IsLoop(f)
<1>8. IsLoop(max)
  <2> HIDE DEF IsLoop
  <2> QED
    BY <1>7
<1>9. Worst(sevs) = max[N]
  BY DEF Worst
<1> HIDE DEF max
<1>10. max[1] = sevs[1] /\ \A n \in 2 .. N : max[n] = MaxSeverity(max[n - 1], sevs[n])
  BY <1>1, <1>8
<1> QED
  BY <1>9, <1>10

-----------------------------------------------------------------------------
(* What the loops compute.                                                  *)

(* Worst is one of the severities, and none outranks it.                    *)
LEMMA WorstIsWorst ==
  ASSUME NEW sevs \in Seq(Severities), sevs # <<>>
  PROVE  /\ \E i \in 1 .. Len(sevs) : Worst(sevs) = sevs[i]
         /\ \A i \in 1 .. Len(sevs) : Rank(sevs[i]) <= Rank(Worst(sevs))
<1> DEFINE N == Len(sevs)
<1>1. 1 \in Nat /\ N \in Nat /\ 1 <= N
  OBVIOUS
<1>2. PICK max : /\ max[1] = sevs[1]
                 /\ \A n \in 2 .. N : max[n] = MaxSeverity(max[n - 1], sevs[n])
                 /\ Worst(sevs) = max[N]
  BY MaxRuns
<1> DEFINE Good == {n \in 1 .. N :
                      /\ \E i \in 1 .. n : max[n] = sevs[i]
                      /\ \A i \in 1 .. n : Rank(sevs[i]) <= Rank(max[n])}
<1> HIDE DEF N
<1>3. 1 \in Good
  BY <1>1, <1>2, RankType
<1>4. ASSUME NEW n \in 1 + 1 .. N, n - 1 \in Good
      PROVE  n \in Good
  <2>1. max[n] = MaxSeverity(max[n - 1], sevs[n]) /\ n \in 1 .. N
    BY <1>2
  <2>2. PICK i \in 1 .. n - 1 : max[n - 1] = sevs[i]
    BY <1>4
  <2>3. \E k \in 1 .. n : max[n] = sevs[k]
    BY <2>1, <2>2, MaxSeverityOfTwo
  <2>4. ASSUME NEW k \in 1 .. n
        PROVE  Rank(sevs[k]) <= Rank(max[n])
    <3>1. CASE k = n
      BY <2>1, <3>1, MaxSeverityOfTwo
    <3>2. CASE k # n
      <4>1. Rank(sevs[k]) <= Rank(max[n - 1])
        BY <1>4, <3>2
      <4>2. Rank(max[n - 1]) <= Rank(max[n])
        BY <2>1, MaxSeverityOfTwo
      <4> QED
        BY <4>1, <4>2, RankType
    <3> QED
      BY <3>1, <3>2
  <2> QED
    BY <2>1, <2>3, <2>4
<1>5. N \in Good
  <2> HIDE DEF Good
  <2>1. 1 .. N \subseteq Good
    BY <1>1, <1>3, <1>4, IntervalInduction
  <2> QED
    BY <1>1, <2>1
<1> QED
  BY <1>2, <1>5 DEF N

(* Every hit weighs at least one quarter, one of them what the worst weighs *)
(* and none more.                                                           *)
LEMMA TotalWeightBounds ==
  ASSUME NEW sevs \in Seq(Severities), sevs # <<>>
  PROVE  LET heaviest == SeverityWeight(Worst(sevs))
         IN  /\ heaviest \in 1 .. 4 /\ TotalWeight(sevs) \in Nat
             /\ Len(sevs) + heaviest - 1 <= TotalWeight(sevs)
             /\ TotalWeight(sevs) <= heaviest * Len(sevs)
<1> DEFINE N == Len(sevs)
           heaviest == SeverityWeight(Worst(sevs))
<1>1. 0 \in Nat /\ N \in Nat /\ 1 <= N
  OBVIOUS
<1>2. PICK worst \in 1 .. N : Worst(sevs) = sevs[worst]
  BY WorstIsWorst
<1>3. /\ \A i \in 1 .. N : /\ SeverityWeight(sevs[i]) \in 1 .. 4
                           /\ SeverityWeight(sevs[i]) <= heaviest
      /\ SeverityWeight(sevs[worst]) = heaviest
      /\ heaviest \in 1 .. 4
  BY <1>2, WorstIsWorst, RankType DEF SeverityWeight
<1>4. PICK sum : /\ sum[0] = 0
                 /\ \A n \in 1 .. N : sum[n] = sum[n - 1] + SeverityWeight(sevs[n])
                 /\ TotalWeight(sevs) = sum[N]
  BY SumRuns
<1> HIDE DEF N, heaviest
<1> DEFINE Good == {n \in 0 .. N :
                      /\ sum[n] \in Nat /\ n <= sum[n] /\ sum[n] <= heaviest * n
                      /\ worst <= n => n + heaviest - 1 <= sum[n]}
<1>5. 0 \in Good
  BY <1>1, <1>3, <1>4
<1>6. ASSUME NEW n \in 0 + 1 .. N, n - 1 \in Good
      PROVE  n \in Good
  <2> DEFINE w == SeverityWeight(sevs[n])
  <2>1. sum[n] = sum[n - 1] + w /\ w \in 1 .. 4 /\ w <= heaviest /\ n \in 1 .. N
    BY <1>3, <1>4
  <2>2. /\ sum[n - 1] \in Nat /\ n - 1 <= sum[n - 1]
        /\ sum[n - 1] <= heaviest * (n - 1)
        /\ worst <= n - 1 => n - 1 + heaviest - 1 <= sum[n - 1]
    BY <1>6
  <2>3. n = worst => w = heaviest
    BY <1>3
  <2> HIDE DEF w
  <2>4. sum[n] \in Nat /\ n <= sum[n]
    BY <2>1, <2>2
  <2>5. sum[n] <= heaviest * n
    <3>1. heaviest * (n - 1) = heaviest * n - heaviest
      BY <1>3
    <3>2. heaviest * n \in Int /\ heaviest \in Int
      BY <1>3
    <3> QED
      BY <2>1, <2>2, <3>1, <3>2
  <2>6. worst <= n => n + heaviest - 1 <= sum[n]
    BY <1>3, <2>1, <2>2, <2>3
  <2> QED
    BY <2>1, <2>4, <2>5, <2>6
<1>7. N \in Good
  <2> HIDE DEF Good
  <2>1. 0 .. N \subseteq Good
    BY <1>1, <1>5, <1>6, IntervalInduction
  <2> QED
    BY <1>1, <2>1
<1> QED
  BY <1>3, <1>4, <1>7 DEF N, heaviest

(* score.go:23-39: a score is above the weight of the severity below the    *)
(* worst one that triggered, and at most that of the worst.                 *)
LEMMA ScoreBand ==
  ASSUME NEW sevs \in Seq(Severities), sevs # <<>>
  PROVE  /\ Score(sevs) \in [num : Nat, den : Nat \ {0}]
         /\ Leq(Score(sevs), [num |-> Rank(Worst(sevs)), den |-> 4])
         /\ Less([num |-> Rank(Worst(sevs)) - 1, den |-> 4], Score(sevs))
<1> DEFINE N == Len(sevs)
           total == TotalWeight(sevs)
           rank == Rank(Worst(sevs))
<1>1. N \in Nat /\ 1 <= N
  OBVIOUS
<1>2. /\ rank \in 1 .. 4 /\ total \in Nat
      /\ N + rank - 1 <= total /\ total <= rank * N
  BY TotalWeightBounds DEF SeverityWeight
<1>3. Score(sevs) = [num |-> 7 * rank * N + 3 * total, den |-> 40 * N]
  BY DEF Score, SeverityWeight
<1> HIDE DEF N, total, rank
<1>4. (7 * rank * N + 3 * total) * 4 <= rank * (40 * N)
  BY <1>1, <1>2
<1>5. (rank - 1) * (40 * N) < (7 * rank * N + 3 * total) * 4
  BY <1>1, <1>2
<1>6. 7 * rank * N + 3 * total \in Nat /\ 40 * N \in Nat \ {0}
  BY <1>1, <1>2
<1> QED
  BY <1>3, <1>4, <1>5, <1>6 DEF Leq, Less, N, total, rank

-----------------------------------------------------------------------------
(* The accumulator (evaluator.go:105-112).                                  *)

ResultFields == {"hits", "severity", "degraded"}

(* The severity is not set before the first hit, and is the worst after it. *)
SeverityIsWorst(result) ==
  /\ result.hits = <<>> => result.severity = NoSeverity
  /\ result.hits # <<>> =>
       /\ \E i \in DOMAIN result.hits : result.hits[i].severity = result.severity
       /\ \A i \in DOMAIN result.hits :
            Rank(result.hits[i].severity) <= Rank(result.severity)

(* One more hit, whatever its severity.                                     *)
LEMMA HitKeepsWorst ==
  ASSUME NEW Rules, NEW rule \in Rules, NEW result,
         DOMAIN result = ResultFields, result.hits \in Seq(Rules),
         SeverityIsWorst(result)
  PROVE  SeverityIsWorst(WithHit(result, rule))
<1> DEFINE hits == result.hits
           new == WithHit(result, rule)
           now == new.severity
<1>1. /\ hits \in Seq(Rules) /\ Len(hits) \in Nat
      /\ new.hits = Append(hits, rule)
      /\ now = IF result.severity = NoSeverity THEN rule.severity
               ELSE MaxSeverity(result.severity, rule.severity)
  BY DEF ResultFields, WithHit
<1>2. /\ DOMAIN Append(hits, rule) = 1 .. Len(hits) + 1
      /\ DOMAIN hits = 1 .. Len(hits)
      /\ \A i \in DOMAIN hits : Append(hits, rule)[i] = hits[i]
      /\ Append(hits, rule)[Len(hits) + 1] = rule
      /\ Append(hits, rule) # <<>>
  BY <1>1
<1>3. \A i \in DOMAIN hits : /\ hits # <<>>
                             /\ Rank(hits[i].severity) <= Rank(result.severity)
  BY <1>1, <1>2 DEF SeverityIsWorst
<1>4. hits # <<>> => \E i \in DOMAIN hits : hits[i].severity = result.severity
  BY DEF SeverityIsWorst
<1>5. hits = <<>> => now = rule.severity
  BY <1>1 DEF SeverityIsWorst
<1> HIDE DEF hits, new
<1>6. /\ Rank(rule.severity) <= Rank(now)
      /\ Rank(result.severity) <= Rank(now)
  BY <1>1, RankType, MaxSeverityOfTwo
<1>7. hits # <<>> => now \in {result.severity, rule.severity}
  BY <1>1, MaxSeverityOfTwo
<1>8. \E i \in DOMAIN new.hits : new.hits[i].severity = now
  <2>1. CASE now = rule.severity
    BY <1>1, <1>2, <2>1
  <2>2. CASE hits # <<>> /\ now = result.severity
    BY <1>1, <1>2, <1>4, <2>2
  <2> QED
    BY <1>5, <1>7, <2>1, <2>2
<1>9. \A i \in DOMAIN new.hits : Rank(new.hits[i].severity) <= Rank(now)
  <2> TAKE i \in DOMAIN new.hits
  <2>1. CASE i \in DOMAIN hits
    BY <1>1, <1>2, <1>3, <1>6, <2>1, RankType
  <2>2. CASE i = Len(hits) + 1
    BY <1>1, <1>2, <1>6, <2>2
  <2> QED
    BY <1>1, <1>2, <2>1, <2>2
<1> QED
  BY <1>1, <1>2, <1>8, <1>9 DEF SeverityIsWorst, new

(* What Score is given: the severities of the hits, in their order.         *)
LEMMA HitSeverities ==
  ASSUME NEW Rules, \A rule \in Rules : rule.severity \in Severities,
         NEW hits \in Seq(Rules)
  PROVE  /\ SeveritiesOf(hits) \in Seq(Severities)
         /\ Len(SeveritiesOf(hits)) = Len(hits)
         /\ hits = <<>> <=> SeveritiesOf(hits) = <<>>
         /\ \A i \in 1 .. Len(hits) : SeveritiesOf(hits)[i] = hits[i].severity
<1> DEFINE N == Len(hits)
<1>1. N \in Nat /\ DOMAIN hits = 1 .. N
  OBVIOUS
<1>2. \A i \in 1 .. N : hits[i].severity \in Severities
  BY <1>1
<1>3. SeveritiesOf(hits) = [i \in 1 .. N |-> hits[i].severity]
  BY <1>1 DEF SeveritiesOf
<1>4. SeveritiesOf(hits) \in Seq(Severities) /\ Len(SeveritiesOf(hits)) = N
  <2> HIDE DEF N
  <2> QED
    BY <1>1, <1>2, <1>3
<1>5. hits = <<>> <=> SeveritiesOf(hits) = <<>>
  BY <1>1, <1>3, <1>4
<1> QED
  BY <1>1, <1>3, <1>4, <1>5

(* score.go:19-39: however many rules match, and whichever, the score stays *)
(* in the band of the severity Evaluate reports: a result with a worse hit  *)
(* scores more than any without one.                                        *)
THEOREM ScoreFollowsSeverity ==
  ASSUME NEW Rules, \A rule \in Rules : rule.severity \in Severities,
         NEW result, result.hits \in Seq(Rules), result.hits # <<>>,
         SeverityIsWorst(result)
  PROVE  LET score == Score(SeveritiesOf(result.hits))
         IN  /\ score.num \in Nat /\ score.den \in Nat \ {0}
             /\ Rank(result.severity) \in 1 .. 4
             /\ Leq(score, [num |-> Rank(result.severity), den |-> 4])
             /\ Less([num |-> Rank(result.severity) - 1, den |-> 4], score)
<1> DEFINE hits == result.hits
           sevs == SeveritiesOf(hits)
<1>1. /\ DOMAIN hits = 1 .. Len(hits) /\ Len(sevs) = Len(hits)
      /\ sevs \in Seq(Severities) /\ sevs # <<>>
      /\ \A i \in 1 .. Len(hits) : sevs[i] = hits[i].severity
  BY HitSeverities
<1>2. PICK i \in 1 .. Len(hits) : Worst(sevs) = hits[i].severity
  BY <1>1, WorstIsWorst
<1>3. PICK k \in 1 .. Len(hits) : hits[k].severity = result.severity
  BY <1>1 DEF SeverityIsWorst
<1>4. Rank(hits[i].severity) <= Rank(result.severity)
  BY <1>1 DEF SeverityIsWorst
<1>5. Rank(hits[k].severity) <= Rank(Worst(sevs))
  BY <1>1, <1>3, WorstIsWorst
<1>6. Rank(Worst(sevs)) = Rank(result.severity)
  BY <1>2, <1>3, <1>4, <1>5, RankType
<1>7. hits[k] \in Rules /\ Rank(result.severity) \in 1 .. 4
  BY <1>1, <1>3, RankType
<1> QED
  BY <1>1, <1>6, <1>7, ScoreBand
=============================================================================
