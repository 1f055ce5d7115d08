----------------------------- MODULE MCPipeline -----------------------------
(* Four calls: c1 sends t1, sends it again and sends t2; c2 sends t1.  The    *)
(* amount of t1 is over both default limits, that of t2 over the second only, *)
(* and none is over a limit of one's own.                                     *)
EXTENDS Pipeline

CONSTANTS j1, j2, j3, j4, c1, c2, t1, t2

MCJobs == {j1, j2, j3, j4}
MCCustomers == {c1, c2}
MCTransactions == {t1, t2}
MCCustomerOf == j1 :> c1 @@ j2 :> c1 @@ j3 :> c1 @@ j4 :> c2
MCTransactionOf == j1 :> t1 @@ j2 :> t1 @@ j3 :> t2 @@ j4 :> t1
MCAmount == j1 :> 6 @@ j2 :> 6 @@ j3 :> 4 @@ j4 :> 6
MCCapturedAt == j1 :> 100 @@ j2 :> 100 @@ j3 :> 130 @@ j4 :> 100

\* Two customers, the second with a risk profile of its own.
TwoCustomersLimit == c2 :> 50
\* One customer, with a risk profile; the call of c2 does not validate.
OneCustomerLimit == c1 :> 50
OneCustomerValid == {j1, j2, j3}

Value == [id |-> "valor-atipico", enabled |-> TRUE, needsWindow |-> FALSE,
          span |-> 0, condition |-> "over", bound |-> 0, severity |-> "alta",
          category |-> "valor"]
Burst == [id |-> "velocidade-pix", enabled |-> TRUE, needsWindow |-> TRUE,
          span |-> 300, condition |-> "burst", bound |-> 1, severity |-> "critica",
          category |-> "velocidade"]
Device == [Burst EXCEPT !.id = "device-multiplo", !.span = 600, !.severity = "baixa",
                        !.category = "dispositivo"]
Broken == [Burst EXCEPT !.condition = "broken"]

Config(rules, minimum, defaultLimit) ==
  [rules |-> rules, minimum |-> minimum, defaultLimit |-> defaultLimit]

\* A rule set, and one with another threshold and default limit and a rule that
\* fails at run time.
MCRuleSets == <<Config(<<Burst, Value, Device>>, 74, 5), Config(<<Value, Broken>>, 80, 3)>>
\* The broken rule set first, then its repair.
RepairedRuleSets == <<Config(<<Value, Broken>>, 74, 5), Config(<<Value, Burst>>, 74, 5)>>
\* A critical rule without a window, and a windowed one it outranks.
CriticalRuleSets ==
  <<Config(<<[Burst EXCEPT !.severity = "alta"], [Value EXCEPT !.severity = "critica"]>>, 74, 5)>>
=============================================================================
