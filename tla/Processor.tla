------------------------------ MODULE Processor ------------------------------
(***************************************************************************)
(* internal/pipeline/processor.go: Process, with the evaluation loop of    *)
(* internal/engine/evaluator.go, over the in-memory stores it is wired to. *)
(*                                                                         *)
(* Every call of a port is an action of its own: the stores lock for one   *)
(* call only, so other calls, the admin toggles, a reload or an expiry can *)
(* fall between any two of them.  Process itself does not serialize calls  *)
(* (processor.go:37-41): Pipeline.tla adds that.                           *)
(***************************************************************************)
EXTENDS Engine, FiniteSets

CONSTANTS
  Jobs,           \* calls of Process
  Customers,      \* customer identifiers
  Transactions,   \* transaction identifiers
  CustomerOf,     \* tx.CustomerID of a call
  TransactionOf,  \* tx.TransactionID of a call: a retry repeats it
  Valid,          \* the calls whose payload passes Transaction.Validate
  Amount,         \* tx.Amount of a call
  CapturedAt,     \* tx.CapturedAt of a call, in seconds
  CustomLimit,    \* seeded risk profiles: a function on some customers
  RuleSets,       \* the configurations, in the order they are reloaded
  PortFaults,     \* ports whose calls may fail: seen, record, risk, publish, mark
  MaxToggles,     \* bound: admin toggles of the window store
  MaxLapses       \* bound: idempotency entries that outlive their TTL

Keys == {<<CustomerOf[j], TransactionOf[j]>> : j \in Jobs}

\* A loaded rule (validateRule in config/bundle.go), with a kind of condition for
\* its expression: "over" compares the amount with the risk limit, "burst" counts
\* the customer's window, "always" needs no layer, and "broken" fails at run time
\* (AllowUndefinedVariables lets a rule that misnames a variable be loaded, or one
\* that names the window and does not require it).
RuleDefs ==
  {rule \in [id : STRING, enabled : BOOLEAN, needsWindow : BOOLEAN, span : Nat,
            condition : {"over", "burst", "always", "broken"}, bound : Int,
            severity : Severities, category : STRING] :
     rule.condition = "burst" => rule.needsWindow}

ASSUME ProcessorAssumption ==
  /\ CustomerOf \in [Jobs -> Customers]
  /\ TransactionOf \in [Jobs -> Transactions]
  /\ Valid \subseteq Jobs
  /\ Amount \in [Jobs -> Nat]
  /\ CapturedAt \in [Jobs -> Nat]
  /\ DOMAIN CustomLimit \subseteq Customers
  /\ Len(RuleSets) \in Nat \ {0}
  /\ \A n \in 1 .. Len(RuleSets) :
       /\ RuleSets[n].rules \in Seq(RuleDefs)
       /\ RuleSets[n].minimum \in 0 .. 100
       /\ RuleSets[n].defaultLimit \in Nat \ {0}
  /\ PortFaults \subseteq {"seen", "record", "risk", "publish", "mark"}
  /\ {MaxToggles, MaxLapses} \subseteq Nat

\* tx.IdempotencyKey: identifiers are UUIDs, so joining them with ":" is
\* injective.
Key(j) == <<CustomerOf[j], TransactionOf[j]>>

VARIABLES
  pc,          \* where each call of Process stands
  call,        \* its local variables
  outcome,     \* what it returned
  idempotency, \* keys the store holds, live or expired
  window,      \* s.byCust: the calls recorded for each customer, oldest first
  windowDown,  \* the window store's failure toggle
  active,      \* index in RuleSets of the active configuration
  published,   \* AlertSink.alerts: <<call, alert_id>> in publication order
  toggles,     \* bounded history: toggles of the window store so far
  lapses       \* bounded history: the keys that expired, one entry per expiry

stores == <<idempotency, window, windowDown, active, published,
            toggles, lapses>>
procVars == <<pc, call, outcome, stores>>

PCs == {"idle", "seen", "record", "config", "risk", "evaluate", "mark", "done"}

NoCall == [recorded |-> FALSE, windowAvailable |-> TRUE, config |-> 0,
           limit |-> 0, next |-> 1, result |-> NoResult]
NoOutcome == [kind |-> "none", partial |-> FALSE]

ProcInit ==
  /\ pc = [j \in Jobs |-> "idle"]
  /\ call = [j \in Jobs |-> NoCall]
  /\ outcome = [j \in Jobs |-> NoOutcome]
  /\ idempotency = [k \in Keys |-> "absent"]
  /\ window = [c \in Customers |-> <<>>]
  /\ windowDown = FALSE
  /\ active = 1
  /\ published = <<>>
  /\ toggles = 0
  /\ lapses = <<>>

Goto(j, label) == pc' = [pc EXCEPT ![j] = label]

\* return Verdict{...}, nil and return Verdict{}, err.
Returns(j, kind, partial) ==
  /\ Goto(j, "done")
  /\ outcome' = [outcome EXCEPT ![j] = [kind |-> kind, partial |-> partial]]
Fails(j) == Returns(j, "error", FALSE)

-----------------------------------------------------------------------------
(* Process, one action per port call.                                      *)

\* Entry and tx.Validate.
Begin(j) ==
  /\ pc[j] = "idle"
  /\ IF j \in Valid
     THEN Goto(j, "seen") /\ UNCHANGED outcome
     ELSE Returns(j, "invalid", FALSE)
  /\ UNCHANGED <<call, stores>>

\* Mutant: the atomic SeenAndMark of the specification's section 7.
SeenAndMark(j) ==
  /\ pc[j] = "seen"
  /\ IF idempotency[Key(j)] = "live"
     THEN Returns(j, "duplicate", FALSE) /\ UNCHANGED idempotency
     ELSE /\ Goto(j, "record")
          /\ idempotency' = [idempotency EXCEPT ![Key(j)] = "live"]
          /\ UNCHANGED outcome
  /\ UNCHANGED <<call, window, windowDown, active, published, toggles, lapses>>

\* p.idempotency.Seen: an expired entry is deleted and reads as not seen.
CheckSeen(j) ==
  /\ pc[j] = "seen"
  /\ IF idempotency[Key(j)] = "live"
     THEN Returns(j, "duplicate", FALSE) /\ UNCHANGED idempotency
     ELSE /\ Goto(j, "record")
          /\ idempotency' = [idempotency EXCEPT ![Key(j)] = "absent"]
          /\ UNCHANGED outcome
  /\ UNCHANGED <<call, window, windowDown, active, published, toggles,
                 lapses>>

SeenFails(j) ==
  /\ pc[j] = "seen"
  /\ "seen" \in PortFaults
  /\ Fails(j)
  /\ UNCHANGED <<call, stores>>

\* p.window.Record: a store that is down only clears windowAvailable.  Eviction
\* is WindowStore.tla's subject: here no entry is old enough.
RecordWindow(j) ==
  /\ pc[j] = "record"
  /\ Goto(j, "config")
  /\ call' = [call EXCEPT ![j].windowAvailable = ~windowDown,
                          ![j].recorded = ~windowDown]
  /\ window' = IF windowDown THEN window
               ELSE [window EXCEPT ![CustomerOf[j]] = Append(@, j)]
  /\ UNCHANGED <<outcome, idempotency, windowDown, active, published,
                 toggles, lapses>>

\* Any other error of Record is returned.
RecordFails(j) ==
  /\ pc[j] = "record"
  /\ "record" \in PortFaults
  /\ Fails(j)
  /\ UNCHANGED <<call, stores>>

\* ruleSet := p.cfg.Current(), used for the rest of the call.
ReadConfig(j) ==
  /\ pc[j] = "config"
  /\ Goto(j, "risk")
  /\ call' = [call EXCEPT ![j].config = active]
  /\ UNCHANGED <<outcome, stores>>

\* The limit of the customer's risk profile; a store that fails or has no profile
\* means the default of the configuration.
Limits(j, config) ==
  (IF CustomerOf[j] \in DOMAIN CustomLimit
   THEN {CustomLimit[CustomerOf[j]]} ELSE {})
  \cup
  (IF CustomerOf[j] \notin DOMAIN CustomLimit \/ "risk" \in PortFaults
   THEN {config.defaultLimit} ELSE {})

\* Mutant: the default comes from the configuration active by now.
ResolveRiskAnew(j) ==
  /\ pc[j] = "risk"
  /\ Goto(j, "evaluate")
  /\ \E limit \in Limits(j, RuleSets[active]) :
       call' = [call EXCEPT ![j].limit = limit]
  /\ UNCHANGED <<outcome, stores>>

\* resolveRisk, over the configuration the call already holds.
ResolveRisk(j) ==
  /\ pc[j] = "risk"
  /\ Goto(j, "evaluate")
  /\ \E limit \in Limits(j, RuleSets[call[j].config]) :
       call' = [call EXCEPT ![j].limit = limit]
  /\ UNCHANGED <<outcome, stores>>

RulesOf(j) == RuleSets[call[j].config].rules

\* The condition of a rule over the environment buildEnv makes for it.
Matches(rule, j, entries, limit) ==
  CASE rule.condition = "over" -> Amount[j] > limit
    [] rule.condition = "burst" -> Len(entries) > rule.bound
    [] rule.condition = "always" -> TRUE

NextRule(j, result) ==
  call' = [call EXCEPT ![j].next = @ + 1, ![j].result = result]

AtRule(j) == pc[j] = "evaluate" /\ call[j].next <= Len(RulesOf(j))

\* The rule is disabled, or needs the window layer that Record found down.
SkipRule(j) ==
  /\ AtRule(j)
  /\ LET rule == RulesOf(j)[call[j].next]
     IN  ~rule.enabled \/ (rule.needsWindow /\ ~call[j].windowAvailable)
  /\ NextRule(j, call[j].result)
  /\ UNCHANGED <<pc, outcome, stores>>

\* buildEnv, programFor, expr.Run and what the loop does with them.
EvaluateRule(j) ==
  /\ AtRule(j)
  /\ LET rule   == RulesOf(j)[call[j].next]
         result == call[j].result
     IN  /\ rule.enabled
         /\ rule.needsWindow => call[j].windowAvailable
         /\ IF rule.needsWindow /\ windowDown
            THEN /\ NextRule(j, [result EXCEPT !.degraded = TRUE])
                 /\ UNCHANGED <<pc, outcome>>
            ELSE IF rule.condition = "broken"
            THEN Fails(j) /\ UNCHANGED call
            ELSE /\ NextRule(j, IF Matches(rule, j, window[CustomerOf[j]],
                                           call[j].limit)
                                THEN WithHit(result, rule) ELSE result)
                 /\ UNCHANGED <<pc, outcome>>
  /\ UNCHANGED stores

Evaluated(j) == pc[j] = "evaluate" /\ call[j].next > Len(RulesOf(j))
Partial(j) == ~call[j].windowAvailable \/ call[j].result.degraded
Suspicious(j) ==
  Alerts(call[j].result.hits, RuleSets[call[j].config].minimum)

\* p.sink.Publish of the alert built from the result.
Publish(j) ==
  /\ Evaluated(j)
  /\ Suspicious(j)
  /\ Goto(j, "mark")
  /\ published' = Append(published,
       [job |-> j, id |-> AlertID(CustomerOf[j], TransactionOf[j], CapturedAt[j],
                                  call[j].result.hits)])
  /\ UNCHANGED <<call, outcome, idempotency, window, windowDown, active,
                 toggles, lapses>>

\* Mutant: the key is marked although the publication failed.
PublishFailsMarked(j) ==
  /\ Evaluated(j)
  /\ Suspicious(j)
  /\ "publish" \in PortFaults
  /\ Fails(j)
  /\ idempotency' = [idempotency EXCEPT ![Key(j)] = "live"]
  /\ UNCHANGED <<call, window, windowDown, active, published, toggles, lapses>>

\* The error return leaves the key unmarked, so that a retry publishes.
PublishFails(j) ==
  /\ Evaluated(j)
  /\ Suspicious(j)
  /\ "publish" \in PortFaults
  /\ Fails(j)
  /\ UNCHANGED <<call, stores>>

\* After the publication, or right after the evaluation when there is no alert.
AtMark(j) == pc[j] = "mark" \/ (Evaluated(j) /\ ~Suspicious(j))

\* Mutant: the alert path returns without its Mark.
MarkCleanOnly(j) ==
  /\ AtMark(j)
  /\ Returns(j, IF pc[j] = "mark" THEN "alert" ELSE "clean", Partial(j))
  /\ idempotency' = IF pc[j] = "mark" THEN idempotency
                    ELSE [idempotency EXCEPT ![Key(j)] = "live"]
  /\ UNCHANGED <<call, window, windowDown, active, published, toggles, lapses>>

\* Mutant: the call ends without a verdict.
MarkWithoutVerdict(j) ==
  /\ AtMark(j)
  /\ Goto(j, "done")
  /\ idempotency' = [idempotency EXCEPT ![Key(j)] = "live"]
  /\ UNCHANGED <<call, outcome, window, windowDown, active, published, toggles,
                 lapses>>

\* p.idempotency.Mark and the final return.
Mark(j) ==
  /\ AtMark(j)
  /\ Returns(j, IF pc[j] = "mark" THEN "alert" ELSE "clean", Partial(j))
  /\ idempotency' = [idempotency EXCEPT ![Key(j)] = "live"]
  /\ UNCHANGED <<call, window, windowDown, active, published, toggles,
                 lapses>>

MarkFails(j) ==
  /\ AtMark(j)
  /\ "mark" \in PortFaults
  /\ Fails(j)
  /\ UNCHANGED <<call, stores>>

-----------------------------------------------------------------------------
(* What happens around the calls.                                          *)

\* WindowStore.SetDown, from POST /admin/window/down and /up.
ToggleWindow ==
  /\ toggles < MaxToggles
  /\ windowDown' = ~windowDown
  /\ toggles' = toggles + 1
  /\ UNCHANGED <<pc, call, outcome, idempotency, window, active,
                 published, lapses>>

\* A successful ConfigProvider.Reload.
Reload ==
  /\ active < Len(RuleSets)
  /\ active' = active + 1
  /\ UNCHANGED <<pc, call, outcome, idempotency, window, windowDown,
                 published, toggles, lapses>>

\* idempotencyTTL passes after a Mark.
Lapse(k) ==
  /\ idempotency[k] = "live"
  /\ Len(lapses) < MaxLapses
  /\ idempotency' = [idempotency EXCEPT ![k] = "expired"]
  /\ lapses' = Append(lapses, k)
  /\ UNCHANGED <<pc, call, outcome, window, windowDown, active,
                 published, toggles>>

-----------------------------------------------------------------------------
ProcessStep(j) ==
  \/ CheckSeen(j) \/ SeenFails(j)
  \/ RecordWindow(j) \/ RecordFails(j)
  \/ ReadConfig(j) \/ ResolveRisk(j)
  \/ SkipRule(j) \/ EvaluateRule(j)
  \/ Publish(j) \/ PublishFails(j)
  \/ Mark(j) \/ MarkFails(j)

Environment ==
  ToggleWindow \/ Reload \/ (\E k \in Keys : Lapse(k))
=============================================================================
