--------------------------- MODULE MCConfigReload ---------------------------
(* Four concurrent requests: a rule change, a profile change (whose body has  *)
(* no rules, and so removes them all), an empty body and a profile that       *)
(* config.Load rejects; two evaluations of the rules at any time in between.  *)
EXTENDS ConfigReload, TLC

CONSTANTS r1, r2, r3, r4, e1, e2

Rule(id, version, condition) ==
  [id |-> id, version |-> version, condition |-> condition, valid |-> TRUE]
Profile(name) == [name |-> name, valid |-> TRUE]

Velocity == Rule("velocidade-pix", 1, "more than three")
Value == Rule("valor-atipico", 1, "over the limit")
MCInitial == Bundle(<<Velocity, Value>>, Profile("p1"))

Body4(changed) ==
     r1 :> Bundle(<<changed, Value>>, NoProfile)
  @@ r2 :> Bundle(<<>>, Profile("p2"))
  @@ r3 :> NoBody
  @@ r4 :> Bundle(<<Velocity>>, [name |-> "p3", valid |-> FALSE])

\* The changed rule has a new version, as docs/spec.md:197 asks for.
MCBody == Body4(Rule("velocidade-pix", 2, "more than five"))
\* It has not: config.Load does not compare versions.
SameVersionBody == Body4(Rule("velocidade-pix", 1, "more than five"))
=============================================================================
