---------------------------- MODULE ConfigReload ----------------------------
(***************************************************************************)
(* Hot reload: concurrent POST /admin/config/reload handlers               *)
(* (httpapi/handlers.go) over the ConfigProvider (memory), and evaluations *)
(* that hold one rule set while they run and share the evaluator's cache   *)
(* of compiled conditions (engine/evaluator.go).                           *)
(*                                                                         *)
(* A rule is [id, version, condition, valid]; a profile is [name, valid]:  *)
(* what config.Load checks of either is abstracted to `valid`.             *)
(***************************************************************************)
EXTENDS Integers, Sequences, SequencesExt

CONSTANTS
  Requests,       \* the reload requests clients send
  Body,           \* a request's body: NoBody, or [rules, profile]
  NoBody,         \* ContentLength is 0
  NoProfile,      \* the body has no "profile"
  Initial,        \* the bundle the engine starts with
  Evaluations,    \* evaluations of a transaction
  NoBundle        \* c.override == nil

Bundle(rules, profile) == [rules |-> rules, profile |-> profile]

\* Mutant: the rules are parsed, the profile is not looked at.
LoadRulesOnly(bundle) == \A i \in DOMAIN bundle.rules : bundle.rules[i].valid

\* config.Load: every rule valid, no rule_id twice, a valid profile.
Load(bundle) ==
  /\ bundle.profile.valid
  /\ \A i \in DOMAIN bundle.rules : bundle.rules[i].valid
  /\ \A i, k \in DOMAIN bundle.rules :
       bundle.rules[i].id = bundle.rules[k].id => i = k

NoRequest == "nobody"

WithBody == {r \in Requests : Body[r] # NoBody}
RuleLists == {Initial.rules} \cup {Body[r].rules : r \in WithBody}
Profiles == {Initial.profile} \cup {Body[r].profile : r \in WithBody}

ASSUME ReloadAssumption ==
  /\ Load(Initial)
  /\ \A r \in WithBody : DOMAIN Body[r] = {"rules", "profile"}
  /\ \A rules \in RuleLists : Len(rules) \in Nat /\ DOMAIN rules = 1 .. Len(rules)
  /\ \A rules \in RuleLists, profile \in Profiles : Bundle(rules, profile) # NoBundle
  /\ NoRequest \notin Requests

VARIABLES
  active,    \* c.active: version, rules and profile
  override,  \* c.override: the staged bundle
  handler,   \* where each request stands: [at, bundle, since, version]; `since`
             \* is history, the version in force when its bundle was staged
  programs,  \* e.programs: key -> condition it was compiled from
  eval,      \* where each evaluation stands: [at, rules, next]
  installed, \* history: the requests whose bundle became active, in order
  stagedBy,  \* history: the request that staged `override`
  ran        \* history: <<rule, condition run for it>> of each evaluation

provider == <<active, override, installed, stagedBy>>
vars == <<provider, handler, programs, eval, ran>>

Init ==
  /\ active = [version |-> 1, rules |-> Initial.rules, profile |-> Initial.profile]
  /\ override = NoBundle
  /\ handler = [r \in Requests |-> [at |-> "idle", bundle |-> NoBundle,
                                since |-> 0, version |-> 0]]
  /\ programs = <<>>
  /\ eval = [e \in Evaluations |-> [at |-> "idle", rules |-> <<>>, next |-> 1]]
  /\ installed = <<>>
  /\ stagedBy = NoRequest
  /\ ran = [e \in Evaluations |-> {}]

-----------------------------------------------------------------------------
(* postConfigReload.  Each method of the provider locks for itself only.   *)

\* A body without a profile takes the active one; config.Load accepts the bundle
\* or the answer is 400.
Receive(r) ==
  /\ handler[r].at = "idle"
  /\ Body[r] # NoBody
  /\ LET bundle == Bundle(Body[r].rules,
                          IF Body[r].profile = NoProfile THEN active.profile
                          ELSE Body[r].profile)
     IN  handler' = [handler EXCEPT
           ![r] = IF Load(bundle) THEN [@ EXCEPT !.at = "stage", !.bundle = bundle]
                  ELSE [@ EXCEPT !.at = "400"]]
  /\ UNCHANGED <<provider, programs, eval, ran>>

\* No body: reload whatever is staged.
ReceiveEmpty(r) ==
  /\ handler[r].at = "idle"
  /\ Body[r] = NoBody
  /\ handler' = [handler EXCEPT ![r].at = "reload"]
  /\ UNCHANGED <<provider, programs, eval, ran>>

\* h.cfg.SetOverride(bundle).
SetOverride(r) ==
  /\ handler[r].at = "stage"
  /\ override' = handler[r].bundle
  /\ stagedBy' = r
  /\ handler' = [handler EXCEPT ![r].at = "reload", ![r].since = active.version]
  /\ UNCHANGED <<active, installed, programs, eval, ran>>

\* Mutant: Reload forgets to clear what was staged.
ReloadKeepsOverride(r) ==
  /\ handler[r].at = "reload"
  /\ handler' = [handler EXCEPT ![r].at = "reply"]
  /\ IF override = NoBundle THEN UNCHANGED <<active, installed>>
     ELSE /\ active' = [version |-> active.version + 1, rules |-> override.rules,
                        profile |-> override.profile]
          /\ installed' = Append(installed, stagedBy)
  /\ UNCHANGED <<override, stagedBy, programs, eval, ran>>

\* Mutant: the swap keeps the version number.
ReloadUnversioned(r) ==
  /\ handler[r].at = "reload"
  /\ handler' = [handler EXCEPT ![r].at = "reply"]
  /\ IF override = NoBundle THEN UNCHANGED provider
     ELSE /\ active' = [active EXCEPT !.rules = override.rules,
                                     !.profile = override.profile]
          /\ override' = NoBundle
          /\ installed' = Append(installed, stagedBy)
          /\ stagedBy' = NoRequest
  /\ UNCHANGED <<programs, eval, ran>>

\* h.cfg.Reload: nothing staged keeps the current rule set; a staged bundle is
\* validated once more and swapped in under the next version.  The handlers stage
\* only what config.Load accepted, so this second look never says no here.
Reload(r) ==
  /\ handler[r].at = "reload"
  /\ IF override # NoBundle /\ ~Load(override)
     THEN /\ handler' = [handler EXCEPT ![r].at = "400"]
          /\ UNCHANGED provider
     ELSE /\ handler' = [handler EXCEPT ![r].at = "reply"]
          /\ IF override = NoBundle THEN UNCHANGED provider
             ELSE /\ active' = [version |-> active.version + 1,
                                rules |-> override.rules,
                                profile |-> override.profile]
                  /\ override' = NoBundle
                  /\ installed' = Append(installed, stagedBy)
                  /\ stagedBy' = NoRequest
  /\ UNCHANGED <<programs, eval, ran>>

\* The 200 answer carries h.cfg.Current().Version.
Reply(r) ==
  /\ handler[r].at = "reply"
  /\ handler' = [handler EXCEPT ![r].at = "200", ![r].version = active.version]
  /\ UNCHANGED <<provider, programs, eval, ran>>

-----------------------------------------------------------------------------
(* Evaluate, as far as it depends on the configuration.                    *)

\* ruleSet := p.cfg.Current() in Process; Evaluate ranges over its enabled rules.
Fetch(e) ==
  /\ eval[e].at = "idle"
  /\ eval' = [eval EXCEPT ![e].at = "lookup", ![e].rules = active.rules]
  /\ UNCHANGED <<provider, handler, programs, ran>>

\* Mutant: the rule identifier alone.
KeyOfId(rule) == <<rule.id, 0>>

\* fmt.Sprintf("%s@%d", rule.RuleID, rule.Version); the last "@" separates.
Key(rule) == <<rule.id, rule.version>>

\* expr.Run of a program, and on to the next rule.
Run(e, condition) ==
  LET rule == eval[e].rules[eval[e].next]
  IN  /\ ran' = [ran EXCEPT ![e] = @ \cup {<<rule, condition>>}]
      /\ eval' = [eval EXCEPT ![e].next = @ + 1,
                    ![e].at = IF eval[e].next = Len(eval[e].rules) THEN "done"
                              ELSE "lookup"]

\* programFor under the read lock: a hit runs the cached program.
Lookup(e) ==
  /\ eval[e].at = "lookup"
  /\ eval[e].next <= Len(eval[e].rules)
  /\ LET rule == eval[e].rules[eval[e].next]
     IN  IF Key(rule) \in DOMAIN programs
         THEN Run(e, programs[Key(rule)])
         ELSE /\ eval' = [eval EXCEPT ![e].at = "compile"]
              /\ UNCHANGED ran
  /\ UNCHANGED <<provider, handler, programs>>

\* A rule set without rules.
NothingToRun(e) ==
  /\ eval[e].at = "lookup"
  /\ eval[e].rules = <<>>
  /\ eval' = [eval EXCEPT ![e].at = "done"]
  /\ UNCHANGED <<provider, handler, programs, ran>>

\* The miss: compile without a lock, then store under the write lock, also over
\* an entry another evaluation stored meanwhile.
Compile(e) ==
  /\ eval[e].at = "compile"
  /\ LET rule == eval[e].rules[eval[e].next]
     IN  /\ programs' = [k \in DOMAIN programs \cup {Key(rule)} |->
                           IF k = Key(rule) THEN rule.condition ELSE programs[k]]
         /\ Run(e, rule.condition)
  /\ UNCHANGED <<provider, handler>>

-----------------------------------------------------------------------------
Next ==
  \/ \E r \in Requests :
       Receive(r) \/ ReceiveEmpty(r) \/ SetOverride(r) \/ Reload(r) \/ Reply(r)
  \/ \E e \in Evaluations : Fetch(e) \/ Lookup(e) \/ NothingToRun(e) \/ Compile(e)

Spec == Init /\ [][Next]_vars

-----------------------------------------------------------------------------
(* The type invariant, and the properties.                                 *)

\* Types of the provider's and the handlers' state; versions count installs.
TypeOK ==
  /\ active.version = 1 + Len(installed)
  /\ override = NoBundle <=> stagedBy = NoRequest
  /\ \A r \in Requests :
       /\ handler[r].at \in {"idle", "stage", "reload", "reply", "200", "400"}
       /\ handler[r].version \in 0 .. active.version
  /\ \A e \in Evaluations :
       /\ eval[e].at \in {"idle", "lookup", "compile", "done"}
       /\ eval[e].next \in 1 .. Len(eval[e].rules) + 1

\* FR-009: a request that was answered 400 leaves no trace, and what is active is
\* valid as a whole, also when its profile was borrowed from an active rule set
\* that other requests replaced meanwhile.
RejectedNeverActive ==
  /\ active.profile.valid
  /\ \A i \in DOMAIN active.rules : active.rules[i].valid
  /\ \A r \in Requests : handler[r].at = "400" => r \notin ToSet(installed)

\* FR-009: no accepted change is left behind staged.  However SetOverride and Reload
\* of several requests interleave, once every handler has answered nothing waits for
\* a Reload that nobody will make.
NothingLeftStaged ==
  (\A r \in Requests : handler[r].at \in {"idle", "200", "400"})
    => override = NoBundle

\* An answer names a version installed after the change was staged, also when
\* another request's Reload installed it or another change replaced it: no client
\* is told that the rule set it wanted to replace is in force.
AnswerIsNotStale ==
  \A r \in Requests :
    handler[r].at = "200" /\ Body[r] # NoBody => handler[r].version > handler[r].since

\* FR-009, "the next transaction is evaluated by it" (spec.md:70): every
\* condition an evaluation runs is the one its rule set states, whatever
\* evaluations of older and newer rule sets left in the cache.
EvaluatedAsConfigured ==
  \A e \in Evaluations : \A p \in ran[e] : p[2] = p[1].condition

-----------------------------------------------------------------------------
(* Statements of the repository that the code does not meet.               *)

\* handlers.go:235-237: a body without a profile "defaults to the currently
\* active one [...] so a caller can push just a rule change".  So installing a
\* rule change leaves the profile in force alone.
RuleChangeKeepsProfile ==
  [][(/\ installed' # installed
      /\ Body[Last(installed')].profile = NoProfile)
     => active'.profile = active.profile]_vars
=============================================================================
