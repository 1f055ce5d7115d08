------------------------- MODULE ConfigReloadProofs -------------------------
(***************************************************************************)
(* Proofs about ConfigReload, for any requests, bodies, evaluations and    *)
(* initial configuration.                                                  *)
(***************************************************************************)
EXTENDS ConfigReload, SequenceTheorems, TLAPS

HandlerFields == {"at", "bundle", "since", "version"}
EvalFields == {"at", "rules", "next"}

(* The types, those of the records included.                                *)
Types ==
  /\ active.version = 1 + Len(installed)
  /\ DOMAIN active = {"version", "rules", "profile"}
  /\ active.rules \in RuleLists /\ active.profile \in Profiles
  /\ installed \in Seq(Requests)
  /\ override = NoBundle <=> stagedBy = NoRequest
  /\ DOMAIN handler = Requests
  /\ \A r \in Requests :
       /\ DOMAIN handler[r] = HandlerFields
       /\ handler[r].at \in {"idle", "stage", "reload", "reply", "200", "400"}
       /\ handler[r].version \in 0 .. active.version
       /\ handler[r].since \in 0 .. active.version
  /\ DOMAIN eval = Evaluations
  /\ \A e \in Evaluations :
       /\ DOMAIN eval[e] = EvalFields
       /\ eval[e].at \in {"idle", "lookup", "compile", "done"}
       /\ Len(eval[e].rules) \in Nat
       /\ eval[e].next \in 1 .. Len(eval[e].rules) + 1
       /\ eval[e].at = "idle" => eval[e].next = 1
       /\ eval[e].at # "idle" => eval[e].rules \in RuleLists
       /\ eval[e].at = "compile" => eval[e].next <= Len(eval[e].rules)

(* What is on its way to become active is what config.Load accepted.        *)
Loaded(bundle) ==
  /\ Load(bundle)
  /\ bundle # NoBundle
  /\ bundle.rules \in RuleLists
  /\ bundle.profile \in Profiles

BundlesOK ==
  /\ Load(Bundle(active.rules, active.profile))
  /\ override # NoBundle => Loaded(override)
  /\ \A r \in Requests : handler[r].at = "stage" => Loaded(handler[r].bundle)

(* The request that staged last is still to reload; one whose change became *)
(* active is past the staging and was not rejected.                         *)
StagingOK ==
  /\ override # NoBundle => stagedBy \in Requests /\ handler[stagedBy].at = "reload"
  /\ \A i \in 1 .. Len(installed) :
       handler[installed[i]].at \in {"reload", "reply", "200"}

(* From its staging on, either something newer is active or still staged.   *)
AnswersOK ==
  \A r \in Requests :
    /\ handler[r].at = "idle" => handler[r].since = 0
    /\ handler[r].at = "reload" =>
         active.version > handler[r].since \/ override # NoBundle
    /\ handler[r].at = "reply" => active.version > handler[r].since
    /\ handler[r].at = "200" => handler[r].version > handler[r].since

Inv == Types /\ BundlesOK /\ StagingOK /\ AnswersOK

LEMMA InitInv == Init => Inv
<1> SUFFICES ASSUME Init
             PROVE  Inv
  OBVIOUS
<1> USE ReloadAssumption DEF Init
<1>1. \A r \in Requests : handler[r] = [at |-> "idle", bundle |-> NoBundle,
                                        since |-> 0, version |-> 0]
  OBVIOUS
<1>2. \A e \in Evaluations : eval[e] = [at |-> "idle", rules |-> <<>>, next |-> 1]
  OBVIOUS
<1>3. installed \in Seq(Requests) /\ Len(installed) = 0 /\ active.version = 1
  BY EmptySeq
<1>4. Types
  <2>1. active.rules \in RuleLists /\ active.profile \in Profiles
    BY DEF RuleLists, Profiles
  <2>2. \A e \in Evaluations :
       /\ DOMAIN eval[e] = EvalFields
       /\ eval[e].at = "idle"
       /\ Len(eval[e].rules) = 0
       /\ eval[e].next = 1
    BY <1>2, EmptySeq DEF EvalFields
  <2>3. \A r \in Requests :
       /\ DOMAIN handler[r] = HandlerFields
       /\ handler[r].at = "idle"
       /\ handler[r].version = 0
       /\ handler[r].since = 0
    BY <1>1 DEF HandlerFields
  <2> QED
    BY <1>3, <2>1, <2>2, <2>3 DEF Types
<1>5. BundlesOK
  <2>1. Load(Bundle(active.rules, active.profile))
    BY DEF Load, Bundle
  <2> QED
    BY <1>1, <2>1 DEF BundlesOK
<1>6. StagingOK /\ AnswersOK
  BY <1>1, <1>3 DEF StagingOK, AnswersOK
<1> QED
  BY <1>4, <1>5, <1>6 DEF Inv

(* One handler moves, the provider and the evaluations stand still.         *)
LEMMA HandlerStep ==
  ASSUME Inv, NEW r \in Requests,
         DOMAIN handler' = Requests,
         \A q \in Requests \ {r} : handler'[q] = handler[q],
         DOMAIN handler'[r] = HandlerFields,
         handler[r].at \in {"idle", "reply"},
         handler'[r].at \in {"stage", "reload", "200", "400"},
         handler'[r].at \in {"stage", "reload", "400"} => handler[r].at = "idle",
         handler'[r].at = "stage" => Loaded(handler'[r].bundle),
         handler'[r].at = "reload" => handler'[r].since < active.version,
         handler'[r].at = "200" => handler'[r].version > handler'[r].since,
         handler'[r].version \in 0 .. active.version,
         handler'[r].since \in 0 .. active.version,
         UNCHANGED <<provider, eval>>
  PROVE  Inv'
<1> USE DEF Inv, provider
<1>1. Types'
  BY DEF Types
<1>2. BundlesOK'
  <2>1. Load(Bundle(active.rules, active.profile))'
    BY DEF BundlesOK, Load, Bundle
  <2>2. \A bundle : Loaded(bundle)' <=> Loaded(bundle)
    BY DEF Loaded, Load
  <2> QED
    BY <2>1, <2>2 DEF BundlesOK, Loaded, Load
<1>3. StagingOK'
  <2>1. \A i \in 1 .. Len(installed) : installed[i] \in Requests
    BY ElementOfSeq DEF Types
  <2>2. stagedBy' = stagedBy /\ override' = override /\ installed' = installed
    OBVIOUS
  <2>3. \A i \in 1 .. Len(installed) :
          handler'[installed[i]].at \in {"reload", "reply", "200"}
    BY <2>1 DEF StagingOK
  <2> QED
    BY <2>2, <2>3 DEF StagingOK
<1>4. AnswersOK'
  BY DEF AnswersOK, Types
<1> QED
  BY <1>1, <1>2, <1>3, <1>4

(* One evaluation moves, the provider and the handlers stand still.         *)
LEMMA EvaluationStep ==
  ASSUME Inv, NEW e \in Evaluations,
         DOMAIN eval' = Evaluations,
         \A d \in Evaluations \ {e} : eval'[d] = eval[d],
         DOMAIN eval'[e] = EvalFields,
         eval'[e].at \in {"lookup", "compile", "done"},
         eval'[e].rules \in RuleLists,
         eval'[e].next \in 1 .. Len(eval'[e].rules) + 1,
         eval'[e].at = "compile" => eval'[e].next <= Len(eval'[e].rules),
         UNCHANGED <<provider, handler>>
  PROVE  Inv'
<1> USE DEF Inv, provider
<1>1. Len(eval'[e].rules) \in Nat
  BY ReloadAssumption
<1>2. Types'
  BY <1>1 DEF Types
<1>3. BundlesOK'
  BY DEF BundlesOK, Loaded, Load, Bundle
<1>4. StagingOK' /\ AnswersOK'
  BY DEF StagingOK, AnswersOK
<1> QED
  BY <1>2, <1>3, <1>4

LEMMA ReceiveInv ==
  ASSUME Inv, NEW r \in Requests, Receive(r)
  PROVE  Inv'
<1> DEFINE bundle == Bundle(Body[r].rules, IF Body[r].profile = NoProfile
                                          THEN active.profile ELSE Body[r].profile)
<1>1. /\ bundle.rules \in RuleLists /\ bundle.profile \in Profiles
      /\ bundle # NoBundle
  <2>1. r \in WithBody
    BY DEF Receive, WithBody
  <2>2. /\ Body[r].rules \in RuleLists
        /\ Body[r].profile \in Profiles /\ active.profile \in Profiles
    BY <2>1 DEF RuleLists, Profiles, Inv, Types
  <2>3. \E profile \in Profiles : bundle = Bundle(Body[r].rules, profile)
    BY <2>2
  <2> QED
    BY <2>2, <2>3, ReloadAssumption DEF Bundle
<1>2. /\ handler[r].at = "idle"
      /\ handler' = [handler EXCEPT
           ![r] = IF Load(bundle) THEN [handler[r] EXCEPT !.at = "stage", !.bundle = bundle]
                  ELSE [handler[r] EXCEPT !.at = "400"]]
      /\ UNCHANGED <<provider, eval>>
  BY DEF Receive
<1> HIDE DEF bundle
<1>3. /\ DOMAIN handler = Requests /\ DOMAIN handler[r] = HandlerFields
      /\ handler[r].version \in 0 .. active.version
      /\ handler[r].since \in 0 .. active.version
  BY DEF Inv, Types
<1>4. CASE Load(bundle)
  <2>1. handler' = [handler EXCEPT ![r] =
                     [handler[r] EXCEPT !.at = "stage", !.bundle = bundle]]
    BY <1>2, <1>4
  <2>2. /\ DOMAIN handler' = Requests
        /\ \A q \in Requests \ {r} : handler'[q] = handler[q]
        /\ DOMAIN handler'[r] = HandlerFields
        /\ handler'[r].at = "stage" /\ handler'[r].bundle = bundle
        /\ handler'[r].version = handler[r].version
        /\ handler'[r].since = handler[r].since
    BY <1>3, <2>1 DEF HandlerFields
  <2>3. Loaded(handler'[r].bundle)
    BY <1>1, <1>4, <2>2 DEF Loaded
  <2> QED
    BY <1>2, <1>3, <2>2, <2>3, HandlerStep
<1>5. CASE ~Load(bundle)
  <2>1. /\ DOMAIN handler' = Requests
        /\ \A q \in Requests \ {r} : handler'[q] = handler[q]
        /\ DOMAIN handler'[r] = HandlerFields
        /\ handler'[r].at = "400"
        /\ handler'[r].version = handler[r].version
        /\ handler'[r].since = handler[r].since
    BY <1>2, <1>3, <1>5 DEF HandlerFields
  <2> QED
    BY <1>2, <1>3, <2>1, HandlerStep
<1> QED
  BY <1>4, <1>5

LEMMA VersionPositive ==
  ASSUME Types
  PROVE  active.version \in Nat \ {0}
BY LenProperties DEF Types

LEMMA ReceiveEmptyInv ==
  ASSUME Inv, NEW r \in Requests, ReceiveEmpty(r)
  PROVE  Inv'
<1>1. /\ DOMAIN handler = Requests /\ DOMAIN handler[r] = HandlerFields
      /\ handler[r].since \in 0 .. active.version
      /\ handler[r].version \in 0 .. active.version
      /\ active.version \in Nat \ {0}
  BY VersionPositive DEF Inv, Types
<1>2. /\ handler[r].at = "idle" /\ UNCHANGED <<provider, eval>>
      /\ DOMAIN handler' = Requests
      /\ \A q \in Requests \ {r} : handler'[q] = handler[q]
      /\ DOMAIN handler'[r] = HandlerFields
      /\ handler'[r].at = "reload"
      /\ handler'[r].version = handler[r].version
      /\ handler'[r].since = handler[r].since
  BY <1>1 DEF ReceiveEmpty, HandlerFields
<1>3. handler'[r].since < active.version
  BY <1>1, <1>2 DEF Inv, AnswersOK
<1> QED
  BY <1>1, <1>2, <1>3, HandlerStep

LEMMA ReplyInv ==
  ASSUME Inv, NEW r \in Requests, Reply(r)
  PROVE  Inv'
<1>1. /\ DOMAIN handler = Requests /\ DOMAIN handler[r] = HandlerFields
      /\ handler[r].since \in 0 .. active.version
      /\ active.version \in Nat \ {0}
  BY VersionPositive DEF Inv, Types
<1>2. /\ handler[r].at = "reply" /\ UNCHANGED <<provider, eval>>
      /\ DOMAIN handler' = Requests
      /\ \A q \in Requests \ {r} : handler'[q] = handler[q]
      /\ DOMAIN handler'[r] = HandlerFields
      /\ handler'[r].at = "200" /\ handler'[r].version = active.version
      /\ handler'[r].since = handler[r].since
  BY <1>1 DEF Reply, HandlerFields
<1>3. handler'[r].version > handler'[r].since
  BY <1>2 DEF Inv, AnswersOK
<1> QED
  BY <1>1, <1>2, <1>3, HandlerStep

LEMMA SetOverrideInv ==
  ASSUME Inv, NEW r \in Requests, SetOverride(r)
  PROVE  Inv'
<1> USE DEF Inv
<1>1. /\ DOMAIN handler = Requests /\ DOMAIN handler[r] = HandlerFields
      /\ handler[r].version \in 0 .. active.version
      /\ active.version \in Nat \ {0}
  BY VersionPositive DEF Types
<1>2. /\ handler[r].at = "stage" /\ override' = handler[r].bundle /\ stagedBy' = r
      /\ UNCHANGED <<active, installed, eval>>
      /\ DOMAIN handler' = Requests
      /\ \A q \in Requests \ {r} : handler'[q] = handler[q]
      /\ DOMAIN handler'[r] = HandlerFields
      /\ handler'[r].at = "reload"
      /\ handler'[r].version = handler[r].version
      /\ handler'[r].since = active.version
  BY <1>1 DEF SetOverride, HandlerFields
<1>3. Loaded(override') /\ override' # NoBundle
  BY <1>2 DEF BundlesOK, Loaded
<1>4. Types'
  <2>1. r # NoRequest
    BY ReloadAssumption
  <2>2. override' # NoBundle /\ stagedBy' # NoRequest
    BY <1>2, <1>3, <2>1
  <2>3. \A q \in Requests :
          /\ DOMAIN handler'[q] = HandlerFields
          /\ handler'[q].at \in {"idle", "stage", "reload", "reply", "200", "400"}
          /\ handler'[q].version \in 0 .. active.version
          /\ handler'[q].since \in 0 .. active.version
    BY <1>1, <1>2 DEF Types
  <2> QED
    BY <1>2, <2>2, <2>3 DEF Types
<1>5. BundlesOK'
  BY <1>2, <1>3 DEF BundlesOK, Loaded, Load, Bundle
<1>6. StagingOK'
  <2>1. \A i \in 1 .. Len(installed) : installed[i] \in Requests
    BY ElementOfSeq DEF Types
  <2>2. \A i \in 1 .. Len(installed) :
          handler'[installed[i]].at \in {"reload", "reply", "200"}
    BY <1>2, <2>1 DEF StagingOK
  <2> QED
    BY <1>2, <2>2 DEF StagingOK
<1>7. AnswersOK'
  BY <1>2, <1>3 DEF AnswersOK
<1> QED
  BY <1>4, <1>5, <1>6, <1>7

(* Reload finds nothing staged, or installs what is staged: what is staged   *)
(* is valid, so the second validation never refuses it.                     *)
LEMMA ReloadInv ==
  ASSUME Inv, NEW r \in Requests, Reload(r)
  PROVE  Inv'
<1> USE DEF Inv
<1>1. /\ DOMAIN handler = Requests /\ DOMAIN handler[r] = HandlerFields
      /\ active.version \in Nat \ {0}
      /\ installed \in Seq(Requests)
      /\ active.version = 1 + Len(installed)
  BY VersionPositive DEF Types
<1>2. override # NoBundle => Load(override)
  BY DEF BundlesOK, Loaded
<1>3. /\ handler[r].at = "reload" /\ UNCHANGED eval
      /\ handler' = [handler EXCEPT ![r].at = "reply"]
      /\ IF override = NoBundle THEN UNCHANGED provider
         ELSE /\ active' = [version |-> active.version + 1,
                            rules |-> override.rules,
                            profile |-> override.profile]
              /\ override' = NoBundle
              /\ installed' = Append(installed, stagedBy)
              /\ stagedBy' = NoRequest
  BY <1>2 DEF Reload
<1>4. /\ DOMAIN handler' = Requests
      /\ \A q \in Requests \ {r} : handler'[q] = handler[q]
      /\ DOMAIN handler'[r] = HandlerFields
      /\ handler'[r].at = "reply"
      /\ handler'[r].version = handler[r].version
      /\ handler'[r].since = handler[r].since
  BY <1>1, <1>3 DEF HandlerFields
<1>5. \A i \in 1 .. Len(installed) :
        /\ installed[i] \in Requests
        /\ handler'[installed[i]].at \in {"reload", "reply", "200"}
  <2>1. \A i \in 1 .. Len(installed) : installed[i] \in Requests
    BY <1>1, ElementOfSeq
  <2> QED
    BY <1>3, <1>4, <2>1 DEF StagingOK
<1>6. CASE override = NoBundle
  <2>1. UNCHANGED <<active, override, installed, stagedBy>>
    BY <1>3, <1>6 DEF provider
  <2>2. Types'
    BY <1>3, <1>4, <2>1 DEF Types
  <2>3. BundlesOK'
    BY <1>3, <1>4, <1>6, <2>1 DEF BundlesOK, Load, Loaded, Bundle
  <2>4. StagingOK'
    BY <1>5, <1>6, <2>1 DEF StagingOK
  <2>5. AnswersOK'
    BY <1>3, <1>4, <1>6, <2>1 DEF AnswersOK
  <2> QED
    BY <2>2, <2>3, <2>4, <2>5
<1>7. CASE override # NoBundle
  <2>1. /\ active' = [version |-> active.version + 1,
                      rules |-> override.rules, profile |-> override.profile]
        /\ override' = NoBundle
        /\ installed' = Append(installed, stagedBy)
        /\ stagedBy' = NoRequest
    BY <1>3, <1>7
  <2>2. stagedBy \in Requests /\ handler[stagedBy].at = "reload" /\ Loaded(override)
    BY <1>7 DEF StagingOK, BundlesOK
  <2>3. /\ installed' \in Seq(Requests) /\ Len(installed') = Len(installed) + 1
        /\ Len(installed) \in Nat
        /\ \A i \in 1 .. Len(installed) : installed'[i] = installed[i]
        /\ installed'[Len(installed) + 1] = stagedBy
    BY <1>1, <2>1, <2>2, AppendProperties, LenProperties
  <2>4. /\ active'.version = active.version + 1 /\ active'.rules = override.rules
        /\ active'.profile = override.profile
        /\ DOMAIN active' = {"version", "rules", "profile"}
    BY <2>1
  <2>5. Types'
    <3>1. /\ active'.version = 1 + Len(installed')
          /\ active'.rules \in RuleLists /\ active'.profile \in Profiles
      BY <1>1, <2>2, <2>3, <2>4 DEF Loaded
    <3>2. \A q \in Requests :
            /\ DOMAIN handler'[q] = HandlerFields
            /\ handler'[q].at \in {"idle", "stage", "reload", "reply", "200", "400"}
            /\ handler'[q].version \in 0 .. active'.version
            /\ handler'[q].since \in 0 .. active'.version
      BY <1>1, <1>4, <2>4 DEF Types
    <3> QED
      BY <1>3, <1>4, <2>1, <2>3, <2>4, <3>1, <3>2 DEF Types
  <2>6. BundlesOK'
    <3>1. Load(Bundle(active'.rules, active'.profile))
      BY <2>2, <2>4 DEF Loaded, Load, Bundle
    <3>2. \A q \in Requests : handler'[q].at = "stage" => Loaded(handler'[q].bundle)
      BY <1>4 DEF BundlesOK
    <3> QED
      BY <2>1, <3>1, <3>2 DEF BundlesOK, Load, Bundle, Loaded
  <2>7. StagingOK'
    <3>1. \A i \in 1 .. Len(installed') :
            handler'[installed'[i]].at \in {"reload", "reply", "200"}
      BY <1>4, <1>5, <2>2, <2>3
    <3> QED
      BY <2>1, <3>1 DEF StagingOK
  <2>8. AnswersOK'
    <3>1. \A q \in Requests : handler[q].since \in 0 .. active.version
      BY DEF Types
    <3> QED
      BY <1>1, <1>4, <2>4, <3>1 DEF AnswersOK
  <2> QED
    BY <2>5, <2>6, <2>7, <2>8
<1> QED
  BY <1>6, <1>7

LEMMA FetchInv ==
  ASSUME Inv, NEW e \in Evaluations, Fetch(e)
  PROVE  Inv'
<1>1. /\ DOMAIN eval = Evaluations /\ DOMAIN eval[e] = EvalFields
      /\ eval[e].at = "idle" /\ eval[e].next = 1
      /\ active.rules \in RuleLists /\ Len(active.rules) \in Nat
  BY ReloadAssumption DEF Fetch, Inv, Types
<1>2. /\ DOMAIN eval' = Evaluations
      /\ \A d \in Evaluations \ {e} : eval'[d] = eval[d]
      /\ DOMAIN eval'[e] = EvalFields
      /\ eval'[e].at = "lookup" /\ eval'[e].rules = active.rules /\ eval'[e].next = 1
      /\ UNCHANGED <<provider, handler>>
  BY <1>1 DEF Fetch, EvalFields
<1> QED
  BY <1>1, <1>2, EvaluationStep

LEMMA RunInv ==
  ASSUME Inv, NEW e \in Evaluations, NEW condition, Run(e, condition),
         eval[e].at \in {"lookup", "compile"}, eval[e].next <= Len(eval[e].rules),
         UNCHANGED <<provider, handler>>
  PROVE  Inv'
<1>1. /\ DOMAIN eval = Evaluations /\ DOMAIN eval[e] = EvalFields
      /\ eval[e].rules \in RuleLists /\ Len(eval[e].rules) \in Nat
      /\ eval[e].next \in 1 .. Len(eval[e].rules) + 1
  BY DEF Inv, Types
<1>2. /\ DOMAIN eval' = Evaluations
      /\ \A d \in Evaluations \ {e} : eval'[d] = eval[d]
      /\ DOMAIN eval'[e] = EvalFields
      /\ eval'[e].at \in {"lookup", "done"}
      /\ eval'[e].rules = eval[e].rules /\ eval'[e].next = eval[e].next + 1
  BY <1>1 DEF Run, EvalFields
<1> QED
  BY <1>1, <1>2, EvaluationStep

LEMMA LookupInv ==
  ASSUME Inv, NEW e \in Evaluations, Lookup(e)
  PROVE  Inv'
<1> DEFINE rule == eval[e].rules[eval[e].next]
<1>1. /\ eval[e].at = "lookup" /\ eval[e].next <= Len(eval[e].rules)
      /\ UNCHANGED <<provider, handler>>
      /\ \/ Run(e, programs[Key(rule)])
         \/ eval' = [eval EXCEPT ![e].at = "compile"]
  BY DEF Lookup
<1>2. ASSUME NEW condition, Run(e, condition)
      PROVE  Inv'
  BY <1>1, <1>2, RunInv
<1>3. CASE eval' = [eval EXCEPT ![e].at = "compile"]
  <2>1. /\ DOMAIN eval = Evaluations /\ DOMAIN eval[e] = EvalFields
        /\ eval[e].rules \in RuleLists
        /\ eval[e].next \in 1 .. Len(eval[e].rules) + 1
    BY <1>1 DEF Inv, Types
  <2>2. /\ DOMAIN eval' = Evaluations
        /\ \A d \in Evaluations \ {e} : eval'[d] = eval[d]
        /\ DOMAIN eval'[e] = EvalFields
        /\ eval'[e].at = "compile"
        /\ eval'[e].rules = eval[e].rules /\ eval'[e].next = eval[e].next
    BY <1>3, <2>1 DEF EvalFields
  <2> QED
    BY <1>1, <2>1, <2>2, EvaluationStep
<1> QED
  BY <1>1, <1>2, <1>3

LEMMA CompileInv ==
  ASSUME Inv, NEW e \in Evaluations, Compile(e)
  PROVE  Inv'
<1>1. /\ eval[e].at = "compile" /\ UNCHANGED <<provider, handler>>
      /\ eval[e].next <= Len(eval[e].rules)
      /\ \E condition : Run(e, condition)
  BY DEF Compile, Inv, Types
<1> QED
  BY <1>1, RunInv

LEMMA NothingToRunInv ==
  ASSUME Inv, NEW e \in Evaluations, NothingToRun(e)
  PROVE  Inv'
<1>1. /\ DOMAIN eval = Evaluations /\ DOMAIN eval[e] = EvalFields
      /\ eval[e].rules \in RuleLists
      /\ eval[e].next \in 1 .. Len(eval[e].rules) + 1
  BY DEF NothingToRun, Inv, Types
<1>2. /\ DOMAIN eval' = Evaluations
      /\ \A d \in Evaluations \ {e} : eval'[d] = eval[d]
      /\ DOMAIN eval'[e] = EvalFields
      /\ eval'[e].at = "done"
      /\ eval'[e].rules = eval[e].rules /\ eval'[e].next = eval[e].next
      /\ UNCHANGED <<provider, handler>>
  BY <1>1 DEF NothingToRun, EvalFields
<1> QED
  BY <1>1, <1>2, EvaluationStep

LEMMA StepInv == Inv /\ [Next]_vars => Inv'
<1> SUFFICES ASSUME Inv, [Next]_vars
             PROVE  Inv'
  OBVIOUS
<1>1. ASSUME NEW r \in Requests,
             Receive(r) \/ ReceiveEmpty(r) \/ SetOverride(r) \/ Reload(r) \/ Reply(r)
      PROVE  Inv'
  BY <1>1, ReceiveInv, ReceiveEmptyInv, SetOverrideInv, ReloadInv, ReplyInv
<1>2. ASSUME NEW e \in Evaluations,
             Fetch(e) \/ Lookup(e) \/ NothingToRun(e) \/ Compile(e)
      PROVE  Inv'
  BY <1>2, FetchInv, LookupInv, NothingToRunInv, CompileInv
<1>3. CASE UNCHANGED vars
  BY <1>3 DEF vars, provider, Inv, Types, BundlesOK, Loaded, Load, Bundle, StagingOK,
              AnswersOK
<1> QED
  BY <1>1, <1>2, <1>3 DEF Next

(* Staging, swapping and answering agree in every state: the inductive      *)
(* invariant behind the theorems below.                                     *)
THEOREM Invariance == Spec => []Inv
BY InitInv, StepInv, PTL DEF Spec

(* The provider, the handlers and the evaluations are well typed, and the   *)
(* version in force counts the installs.                                    *)
THEOREM TypeCorrect == Spec => []TypeOK
<1>1. Inv => TypeOK
  BY DEF Inv, Types, TypeOK
<1> QED
  BY <1>1, Invariance, PTL

(* What is active is valid as a whole, and no request that was answered 400 *)
(* has any part in it (FR-009).                                             *)
THEOREM RejectedNeverActiveHolds == Spec => []RejectedNeverActive
<1>1. ASSUME Inv
      PROVE  RejectedNeverActive
  <2>1. active.profile.valid /\ \A i \in DOMAIN active.rules : active.rules[i].valid
    BY <1>1 DEF Inv, BundlesOK, Load, Bundle
  <2>2. \A r \in Requests : handler[r].at = "400" => r \notin ToSet(installed)
    BY <1>1, LenProperties DEF Inv, Types, StagingOK, ToSet
  <2> QED
    BY <2>1, <2>2 DEF RejectedNeverActive
<1>2. Inv => RejectedNeverActive
  BY <1>1
<1> QED
  BY <1>2, Invariance, PTL

(* Once every handler has answered, nothing is left staged (FR-009).        *)
THEOREM NothingLeftStagedHolds == Spec => []NothingLeftStaged
<1>1. Inv => NothingLeftStaged
  BY DEF Inv, StagingOK, NothingLeftStaged
<1> QED
  BY <1>1, Invariance, PTL

(* An answer names a version newer than the one its request set out to      *)
(* replace, whichever request's Reload installed it.                        *)
THEOREM AnswerIsNotStaleHolds == Spec => []AnswerIsNotStale
<1>1. Inv => AnswerIsNotStale
  BY DEF Inv, AnswersOK, AnswerIsNotStale
<1> QED
  BY <1>1, Invariance, PTL

-----------------------------------------------------------------------------
(* The program cache.  docs/spec.md:197 asks for monotonic versions; what   *)
(* the cache needs of them is that a key stands for one condition, among    *)
(* all the rule sets that may become active.                                *)
KnownRules == UNION {{rules[i] : i \in DOMAIN rules} : rules \in RuleLists}
VersionsNameConditions ==
  \A a, b \in KnownRules : Key(a) = Key(b) => a.condition = b.condition

CacheOK ==
  \A k \in DOMAIN programs : \A rule \in KnownRules :
    Key(rule) = k => programs[k] = rule.condition

CacheInv == Inv /\ CacheOK /\ DOMAIN ran = Evaluations /\ EvaluatedAsConfigured

(* The rule an evaluation stands at is one of a rule set.                   *)
LEMMA RuleIsKnown ==
  ASSUME Inv, NEW e \in Evaluations, eval[e].at \in {"lookup", "compile"},
         eval[e].next <= Len(eval[e].rules)
  PROVE  eval[e].rules[eval[e].next] \in KnownRules
<1>1. /\ eval[e].rules \in RuleLists
      /\ eval[e].next \in 1 .. Len(eval[e].rules)
  BY DEF Inv, Types
<1>2. DOMAIN eval[e].rules = 1 .. Len(eval[e].rules)
  BY <1>1, ReloadAssumption
<1> QED
  BY <1>1, <1>2 DEF KnownRules

LEMMA RunAsConfigured ==
  ASSUME CacheInv, NEW e \in Evaluations, NEW condition, Run(e, condition),
         condition = eval[e].rules[eval[e].next].condition
  PROVE  DOMAIN ran' = Evaluations /\ EvaluatedAsConfigured'
<1> DEFINE entry == <<eval[e].rules[eval[e].next], condition>>
<1>1. ran' = [ran EXCEPT ![e] = ran[e] \cup {entry}] /\ DOMAIN ran = Evaluations
  BY DEF Run, CacheInv
<1>2. entry[2] = entry[1].condition
  OBVIOUS
<1> HIDE DEF entry
<1>3. \A d \in Evaluations : \A p \in ran'[d] : p[2] = p[1].condition
  BY <1>1, <1>2 DEF CacheInv, EvaluatedAsConfigured
<1> QED
  BY <1>1, <1>3 DEF EvaluatedAsConfigured

LEMMA CacheStep ==
  ASSUME VersionsNameConditions, CacheInv, [Next]_vars
  PROVE  CacheInv'
<1>1. Inv'
  BY StepInv DEF CacheInv
<1>2. CASE UNCHANGED <<programs, ran>>
  BY <1>1, <1>2 DEF CacheInv, CacheOK, EvaluatedAsConfigured
<1>3. ASSUME NEW e \in Evaluations, Lookup(e)
      PROVE  CacheInv'
  <2> DEFINE rule == eval[e].rules[eval[e].next]
  <2>1. UNCHANGED programs /\ rule \in KnownRules
    BY <1>3, RuleIsKnown DEF Lookup, CacheInv
  <2>2. CASE Key(rule) \in DOMAIN programs
    <3>1. Run(e, programs[Key(rule)])
      BY <1>3, <2>2 DEF Lookup
    <3>2. programs[Key(rule)] = rule.condition
      BY <2>1, <2>2 DEF CacheInv, CacheOK
    <3>3. DOMAIN ran' = Evaluations /\ EvaluatedAsConfigured'
      BY <3>1, <3>2, RunAsConfigured
    <3> QED
      BY <1>1, <2>1, <3>3 DEF CacheInv, CacheOK
  <2>3. CASE Key(rule) \notin DOMAIN programs
    BY <1>2, <1>3, <2>1, <2>3 DEF Lookup
  <2> QED
    BY <2>2, <2>3
<1>4. ASSUME NEW e \in Evaluations, Compile(e)
      PROVE  CacheInv'
  <2> DEFINE rule == eval[e].rules[eval[e].next]
  <2>1. /\ programs' = [k \in DOMAIN programs \cup {Key(rule)} |->
                          IF k = Key(rule) THEN rule.condition ELSE programs[k]]
        /\ Run(e, rule.condition)
        /\ eval[e].at = "compile"
    BY <1>4 DEF Compile
  <2>2. rule \in KnownRules
    BY <2>1, RuleIsKnown DEF CacheInv, Inv, Types
  <2>3. DOMAIN ran' = Evaluations /\ EvaluatedAsConfigured'
    BY <2>1, RunAsConfigured
  <2>4. CacheOK'
    <3> HIDE DEF rule
    <3> SUFFICES ASSUME NEW k \in DOMAIN programs', NEW other \in KnownRules,
                        Key(other) = k
                 PROVE  programs'[k] = other.condition
      BY DEF CacheOK, Key
    <3>1. CASE k = Key(rule)
      BY <2>1, <2>2, <3>1 DEF VersionsNameConditions
    <3>2. CASE k # Key(rule)
      BY <2>1, <3>2 DEF CacheInv, CacheOK
    <3> QED
      BY <3>1, <3>2
  <2> QED
    BY <1>1, <2>3, <2>4 DEF CacheInv
<1> QED
  BY <1>2, <1>3, <1>4
     DEF Next, Receive, ReceiveEmpty, SetOverride, Reload, Reply, Fetch, NothingToRun, vars

(* If a rule_id and a version stand for one condition in all the rule sets  *)
(* that may become active, every evaluation runs what its rule set states,  *)
(* whatever older and newer evaluations left in the shared cache (FR-009).  *)
THEOREM EvaluatedAsConfiguredHolds ==
  VersionsNameConditions /\ Spec => []EvaluatedAsConfigured
<1>1. ASSUME Init
      PROVE  CacheInv
  <2>1. DOMAIN programs = {} /\ \A e \in Evaluations : ran[e] = {}
    BY <1>1 DEF Init
  <2> QED
    BY <1>1, <2>1, InitInv DEF Init, CacheInv, CacheOK, EvaluatedAsConfigured
<1>2. VersionsNameConditions => (CacheInv /\ [Next]_vars => CacheInv')
  BY CacheStep
<1>3. CacheInv => EvaluatedAsConfigured
  BY DEF CacheInv
<1> SUFFICES ASSUME VersionsNameConditions
             PROVE  Spec => []EvaluatedAsConfigured
  OBVIOUS
<1>4. CacheInv /\ [Next]_vars => CacheInv'
  BY <1>2
<1>5. Init => CacheInv
  BY <1>1
<1> QED
  BY <1>3, <1>4, <1>5, PTL DEF Spec
=============================================================================
