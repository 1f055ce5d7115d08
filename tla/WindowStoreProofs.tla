-------------------------- MODULE WindowStoreProofs --------------------------
(***************************************************************************)
(* Proofs about WindowStore, for any transactions, distances, spans and    *)
(* TTL, and without the bounds' help: eviction never changes an answer as  *)
(* long as no rule looks further back than the TTL.                        *)
(***************************************************************************)
EXTENDS WindowStore, TLAPS

\* What a configuration has to respect
\* (docs/proposta-motor-deteccao-transacoes.md:126).
TtlCoversSpans == \A span \in Spans : span <= Ttl

\* The strengthening: what the store no longer holds is older than the TTL.
ForgottenIsOld ==
  \A c \in Customers : \A e \in recorded[c] \ byCust[c] : e.recordedAt <= now - Ttl

Inv == TypeOK /\ ForgottenIsOld

(* Nothing is recorded at first.                                           *)
LEMMA InitInv == Init => Inv
<1> SUFFICES ASSUME Init
             PROVE  Inv
  OBVIOUS
<1>1. \A c \in Customers : byCust[c] = {} /\ recorded[c] = {}
  BY DEF Init
<1>2. byCust \in [Customers -> SUBSET Entries] /\ recorded \in [Customers -> SUBSET Entries]
  BY DEF Init
<1>3. {now, toggles, records} \subseteq Nat
  BY DEF Init
<1>4. down \in BOOLEAN
  BY Zenon DEF Init
<1>5. TypeOK
  BY <1>1, <1>2, <1>3, <1>4 DEF TypeOK
<1>6. ForgottenIsOld
  BY <1>1 DEF ForgottenIsOld
<1> QED
  BY <1>5, <1>6 DEF Inv

(* A Record evicts only what is at least a TTL old, and appends to both the *)
(* store and the history.                                                  *)
LEMMA RecordStep ==
  ASSUME Inv, NEW tx \in Transactions, Record(tx)
  PROVE  Inv'
<1> DEFINE c == CustomerOf[tx]
           e == Entry(tx, now, records)
<1> USE WindowAssumption
<1>1. /\ c \in Customers
      /\ now \in Nat /\ records \in Nat /\ toggles \in Nat /\ down \in BOOLEAN
      /\ UNCHANGED <<now, down, toggles>> /\ records' = records + 1
  BY DEF Record, Inv, TypeOK
<1>2. e \in Entries /\ e.recordedAt = now /\ e.tx = tx
  BY <1>1 DEF Entry, Entries
<1>3. /\ byCust' = [byCust EXCEPT ![c] = Evict(@) \cup {e}]
      /\ recorded' = [recorded EXCEPT ![c] = @ \cup {e}]
  BY DEF Record
<1>4. /\ byCust'[c] = Evict(byCust[c]) \cup {e}
      /\ recorded'[c] = recorded[c] \cup {e}
      /\ \A d \in Customers \ {c} :
           byCust'[d] = byCust[d] /\ recorded'[d] = recorded[d]
  BY <1>1, <1>3 DEF Inv, TypeOK
<1>5. /\ Evict(byCust[c]) \subseteq byCust[c]
      /\ \A f \in byCust[c] \ Evict(byCust[c]) : ~(f.recordedAt > now - Ttl)
  BY DEF Evict, After
<1>6. byCust[c] \subseteq recorded[c] /\ recorded[c] \subseteq Entries
  BY <1>1 DEF Inv, TypeOK
<1>7. \A f \in Entries : f.recordedAt \in Nat
  BY DEF Entries
<1>8. /\ byCust' \in [Customers -> SUBSET Entries]
      /\ recorded' \in [Customers -> SUBSET Entries]
  BY <1>1, <1>2, <1>3, <1>5, <1>6 DEF Inv, TypeOK
<1>9. TypeOK'
  <2> SUFFICES ASSUME NEW d \in Customers
               PROVE  /\ byCust'[d] \subseteq recorded'[d]
                      /\ \A f \in recorded'[d] :
                           f.recordedAt <= now' /\ CustomerOf[f.tx] = d
    BY <1>1, <1>8 DEF TypeOK
  <2>1. CASE d = c
    BY <1>1, <1>2, <1>4, <1>5, <1>6, <2>1 DEF Inv, TypeOK
  <2>2. CASE d # c
    BY <1>1, <1>4, <2>2 DEF Inv, TypeOK
  <2> QED
    BY <2>1, <2>2
<1>10. ForgottenIsOld'
  <2> SUFFICES ASSUME NEW d \in Customers, NEW f \in recorded'[d] \ byCust'[d]
               PROVE  f.recordedAt <= now - Ttl
    BY <1>1 DEF ForgottenIsOld
  <2>1. CASE d = c
    <3>1. f \in recorded[c] \ byCust[c] \/ f \in byCust[c] \ Evict(byCust[c])
      BY <1>4, <2>1
    <3>2. f \in Entries
      BY <1>4, <1>6, <2>1, <1>2
    <3> QED
      BY <1>1, <1>5, <1>7, <3>1, <3>2 DEF Inv, ForgottenIsOld
  <2>2. CASE d # c
    BY <1>4, <2>2 DEF Inv, ForgottenIsOld
  <2> QED
    BY <2>1, <2>2
<1> QED
  BY <1>9, <1>10 DEF Inv

(* Time only makes the forgotten older; a toggle leaves the entries alone.  *)
LEMMA OtherSteps ==
  ASSUME Inv, Tick \/ SetDown \/ UNCHANGED windowVars
  PROVE  Inv'
<1>1. UNCHANGED <<byCust, recorded>> /\ now' \in {now, now + 1} /\ now \in Nat
  BY DEF Tick, SetDown, windowVars, Inv, TypeOK
<1>2. \A c \in Customers : \A e \in recorded[c] : e.recordedAt \in Nat
  BY DEF Inv, TypeOK, Entries
<1>3. now' \in Nat /\ toggles' \in Nat /\ records' \in Nat /\ down' \in BOOLEAN
  <2>1. now \in Nat /\ toggles \in Nat /\ records \in Nat /\ down \in BOOLEAN
    BY DEF Inv, TypeOK
  <2>2. CASE Tick
    BY <2>1, <2>2 DEF Tick
  <2>3. CASE SetDown
    <3>1. down' \in BOOLEAN
      BY <2>3, Zenon DEF SetDown
    <3> QED
      BY <2>1, <2>3, <3>1 DEF SetDown
  <2>4. CASE UNCHANGED windowVars
    BY <2>1, <2>4 DEF windowVars
  <2> QED
    BY <2>2, <2>3, <2>4
<1>4. \A c \in Customers : \A e \in recorded[c] : e.recordedAt <= now'
  BY <1>1, <1>2 DEF Inv, TypeOK
<1>5. TypeOK'
  BY <1>1, <1>3, <1>4 DEF Inv, TypeOK
<1>6. ForgottenIsOld'
  BY <1>1, <1>2, WindowAssumption DEF Inv, ForgottenIsOld
<1> QED
  BY <1>5, <1>6 DEF Inv

(* Inv holds in every reachable state.                                      *)
THEOREM Invariance == Spec => []Inv
<1>1. Inv /\ [Next]_windowVars => Inv'
  BY RecordStep, OtherSteps DEF Next
<1> QED
  BY <1>1, InitInv, PTL DEF Spec

(* The store is well typed, and keeps nothing it was not given.             *)
THEOREM TypeCorrect == Spec => []TypeOK
<1>1. Inv => TypeOK
  BY DEF Inv
<1> QED
  BY <1>1, Invariance, PTL

(* Within a span the TTL covers, the store and the full history agree.      *)
LEMMA SameRecentEntries ==
  ASSUME Inv, NEW c \in Customers, NEW span \in Nat, span <= Ttl
  PROVE  After(byCust[c], span) = After(recorded[c], span)
<1>1. byCust[c] \subseteq recorded[c]
  BY DEF Inv, TypeOK
<1>2. \A e \in recorded[c] : e.recordedAt \in Nat
  BY DEF Inv, TypeOK, Entries
<1>3. ASSUME NEW e \in recorded[c], e.recordedAt > now - span
      PROVE  e \in byCust[c]
  BY <1>2, <1>3, WindowAssumption DEF Inv, TypeOK, ForgottenIsOld
<1> QED
  BY <1>1, <1>3 DEF After

(* A TTL that covers the spans of the rules makes every answer exact, for   *)
(* ever and whatever the clock and the traffic do                           *)
(* (docs/proposta-motor-deteccao-transacoes.md:126, ports/window.go:17-26). *)
THEOREM AnswersAreExactHolds == TtlCoversSpans /\ Spec => []AnswersAreExact
<1>1. ASSUME TtlCoversSpans, Inv
      PROVE  AnswersAreExact
  <2> SUFFICES ASSUME NEW c \in Customers, NEW span \in Spans
               PROVE  After(byCust[c], span) = After(recorded[c], span)
    BY DEF AnswersAreExact, CountByChannel, MaxDistanceKm, DistinctDeviceCount
  <2>1. span \in Nat /\ span <= Ttl
    BY <1>1, WindowAssumption DEF TtlCoversSpans
  <2> QED
    BY <1>1, <2>1, SameRecentEntries
<1>2. TtlCoversSpans => (Inv => AnswersAreExact)
  BY <1>1
<1> SUFFICES ASSUME TtlCoversSpans
             PROVE  Spec => []AnswersAreExact
  OBVIOUS
<1>3. Inv => AnswersAreExact
  BY <1>2
<1> QED
  BY <1>3, Invariance, PTL
=============================================================================
