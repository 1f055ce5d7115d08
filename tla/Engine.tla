------------------------------- MODULE Engine -------------------------------
(***************************************************************************)
(* The pure algorithms of internal/engine and of the decision at the end   *)
(* of pipeline.Process: severity order, score, threshold, and the          *)
(* deterministic alert_id.  A rule is a record with, at least, a severity, *)
(* a category and a span: the seconds of its window, 0 if it has none.     *)
(*                                                                         *)
(* The code computes the score in float64.  Here it is the exact fraction  *)
(* num/den of the documented formula, so the instances keep thresholds off *)
(* the values where rounding decides (README, "What is not modelled").     *)
(***************************************************************************)
EXTENDS Integers, Sequences, SequencesExt

Severities == {"baixa", "media", "alta", "critica"}
NoSeverity == ""

\* severityRank; an unknown severity ranks as zero.
Rank(s) ==
  CASE s = "baixa" -> 1 [] s = "media" -> 2 [] s = "alta" -> 3
    [] s = "critica" -> 4 [] OTHER -> 0

MaxSeverity(a, b) == IF Rank(a) >= Rank(b) THEN a ELSE b

\* What Evaluate has gathered so far: the triggered rules (TriggeredRules, the
\* severities handed to Score and Categories are read off them), the overall
\* severity and WindowDegraded.
NoResult == [hits |-> <<>>, severity |-> NoSeverity, degraded |-> FALSE]

\* One more rule matched.
WithHit(result, rule) ==
  [result EXCEPT
     !.hits = Append(@, rule),
     !.severity = IF @ = NoSeverity THEN rule.severity
                  ELSE MaxSeverity(@, rule.severity)]

CategoriesOf(hits) == {hits[i].category : i \in DOMAIN hits}
SeveritiesOf(hits) == [i \in DOMAIN hits |-> hits[i].severity]

\* severityWeight is 0.25, 0.5, 0.75, 1.0: the rank, in quarters.
SeverityWeight(s) == Rank(s)
TotalWeight(sevs) ==
  LET sum[n \in 0 .. Len(sevs)] ==
        IF n = 0 THEN 0 ELSE sum[n - 1] + SeverityWeight(sevs[n])
  IN  sum[Len(sevs)]

\* The worst of a non-empty sequence, found from left to right.
Worst(sevs) ==
  LET max[n \in 1 .. Len(sevs)] ==
        IF n = 1 THEN sevs[n] ELSE MaxSeverity(max[n - 1], sevs[n])
  IN  max[Len(sevs)]

\* Mutant: 70% the mean and 30% the worst.
ScoreOfTheMean(sevs) ==
  IF sevs = <<>> THEN [num |-> 0, den |-> 1]
  ELSE [num |-> 3 * SeverityWeight(Worst(sevs)) * Len(sevs)
                  + 7 * TotalWeight(sevs),
        den |-> 40 * Len(sevs)]

\* weight(worst) * 0.7 + mean(weights) * 0.3, and 0 when nothing triggered.
Score(sevs) ==
  IF sevs = <<>> THEN [num |-> 0, den |-> 1]
  ELSE [num |-> 7 * SeverityWeight(Worst(sevs)) * Len(sevs)
                  + 3 * TotalWeight(sevs),
        den |-> 40 * Len(sevs)]

Leq(a, b) == a.num * b.den <= b.num * a.den
Less(a, b) == a.num * b.den < b.num * a.den

\* The branch of Process: an alert needs a trigger and a score that reaches
\* score_minimo_alerta, here in hundredths.
Alerts(hits, minimum) ==
  /\ ~Less(Score(SeveritiesOf(hits)), [num |-> minimum, den |-> 100])
  /\ hits # <<>>

DefaultBucketSpan == 60

\* ruleForHighestSeverity, over the triggered rules in rule-set order: a rule
\* replaces the best so far unless that one outranks it.
HigherOf(r, best) ==
  IF MaxSeverity(r.severity, best.severity) = r.severity THEN r ELSE best

RuleForHighestSeverity(hits) ==
  LET best[n \in 1 .. Len(hits)] ==
        IF n = 1 THEN hits[n] ELSE HigherOf(hits[n], best[n - 1])
  IN  best[Len(hits)]

\* The span of the alert_id's window_bucket.
BucketSpan(hits) ==
  IF hits # <<>> /\ RuleForHighestSeverity(hits).span > 0
  THEN RuleForHighestSeverity(hits).span
  ELSE DefaultBucketSpan

\* alertID: SHA-256 taken as injective, so the identifier is what is hashed.
\* capturedAt is a natural (seconds since the epoch).
AlertID(customer, transaction, capturedAt, hits) ==
  <<customer, transaction,
    (capturedAt \div BucketSpan(hits)) * BucketSpan(hits)>>
=============================================================================
