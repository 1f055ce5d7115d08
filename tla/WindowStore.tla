----------------------------- MODULE WindowStore -----------------------------
(***************************************************************************)
(* internal/adapters/memory/window_store.go: the sliding window of each    *)
(* customer's recent transactions, in time.  Record evicts what is older   *)
(* than the TTL; the rules ask for aggregates over a span of their own.    *)
(*                                                                         *)
(* Every method holds s.mu from start to end, so each is one action or one *)
(* state function.  time.Now carries a monotonic reading, so `now` never   *)
(* goes back.                                                              *)
(***************************************************************************)
EXTENDS Integers, FiniteSets, FiniteSetsExt

CONSTANTS
  Customers,
  Transactions,
  Channels,
  CustomerOf,   \* tx.CustomerID
  ChannelOf,    \* tx.Channel
  DeviceOf,     \* tx.DeviceID, or NoDevice for ""
  NoDevice,
  Km,           \* haversineKm between two transactions, rounded
  Ttl,          \* the ttl every Record is called with (windowTTL)
  Spans,        \* the window spans of the rules
  MaxTime,      \* bound: the clock stops here
  MaxRecords,   \* bound: successful Records
  MaxToggles    \* bound: calls of SetDown that change something

ASSUME WindowAssumption ==
  /\ CustomerOf \in [Transactions -> Customers]
  /\ ChannelOf \in [Transactions -> Channels]
  /\ Km \in [Transactions -> [Transactions -> Nat]]
  /\ Ttl \in Nat \ {0}
  /\ Spans \subseteq Nat \ {0}
  /\ {MaxTime, MaxRecords, MaxToggles} \subseteq Nat

VARIABLES
  now,       \* s.now(), in units of the instance
  byCust,    \* s.byCust: the entries kept for each customer
  down,      \* s.down
  toggles,   \* bounded history: changes of `down` so far
  records,   \* bounded history: successful Records so far
  recorded   \* history: every entry a Record ever appended, by customer

windowVars == <<now, byCust, down, toggles, records, recorded>>

\* windowEntry.  `nth` tells the entries of a transaction recorded twice apart;
\* the order of the slice never shows in an answer, so entries form a set.
Entry(tx, at, nth) == [tx |-> tx, recordedAt |-> at, nth |-> nth]
Entries == [tx : Transactions, recordedAt : Nat, nth : Nat]

Init ==
  /\ now = 0
  /\ byCust = [c \in Customers |-> {}]
  /\ down = FALSE
  /\ toggles = 0
  /\ records = 0
  /\ recorded = [c \in Customers |-> {}]

Tick ==
  /\ now < MaxTime
  /\ now' = now + 1
  /\ UNCHANGED <<byCust, down, toggles, records, recorded>>

\* SetDown, with the other value: the admin endpoints and the demo.
SetDown ==
  /\ toggles < MaxToggles
  /\ down' = ~down
  /\ toggles' = toggles + 1
  /\ UNCHANGED <<now, byCust, records, recorded>>

\* The entries e with e.recordedAt.After(now - age).
After(entries, age) == {e \in entries : e.recordedAt > now - age}

\* Mutant: the slice is cleared as soon as one entry has expired.
EvictAll(entries) == IF After(entries, Ttl) = entries THEN entries ELSE {}

\* evictLocked, for one customer.
Evict(entries) == After(entries, Ttl)

\* Mutant: entries carry the time they expire at.
RecordExpiry(tx) ==
  LET c == CustomerOf[tx]
  IN  /\ ~down
      /\ records < MaxRecords
      /\ records' = records + 1
      /\ byCust' = [byCust EXCEPT ![c] = Evict(@) \cup {Entry(tx, now + Ttl, records)}]
      /\ recorded' = [recorded EXCEPT ![c] = @ \cup {Entry(tx, now, records)}]
      /\ UNCHANGED <<now, down, toggles>>

\* Record: evict, then append.  While the store is down it only fails.  A retry
\* records its transaction again.
Record(tx) ==
  LET c == CustomerOf[tx]
      e == Entry(tx, now, records)
  IN  /\ ~down
      /\ records < MaxRecords
      /\ records' = records + 1
      /\ byCust' = [byCust EXCEPT ![c] = Evict(@) \cup {e}]
      /\ recorded' = [recorded EXCEPT ![c] = @ \cup {e}]
      /\ UNCHANGED <<now, down, toggles>>

Next == Tick \/ SetDown \/ \E tx \in Transactions : Record(tx)

Spec == Init /\ [][Next]_windowVars

-----------------------------------------------------------------------------
(* The three reads, over the entries of a customer.                        *)

CountByChannel(entries, channel, span) ==
  Cardinality({e \in After(entries, span) : ChannelOf[e.tx] = channel})

MaxDistanceKm(entries, tx, span) ==
  Max({0} \cup {Km[tx][e.tx] : e \in {f \in After(entries, span) : f.tx # tx}})

DistinctDeviceCount(entries, span) ==
  Cardinality({DeviceOf[e.tx] : e \in After(entries, span)} \ {NoDevice})

-----------------------------------------------------------------------------
(* The type invariant, and the property.                                   *)

\* A kept entry was recorded, for its own customer and not in the future.
TypeOK ==
  /\ {now, toggles, records} \subseteq Nat
  /\ down \in BOOLEAN
  /\ byCust \in [Customers -> SUBSET Entries]
  /\ recorded \in [Customers -> SUBSET Entries]
  /\ \A c \in Customers :
       /\ byCust[c] \subseteq recorded[c]
       /\ \A e \in recorded[c] : e.recordedAt <= now /\ CustomerOf[e.tx] = c

\* Eviction is invisible: whatever was evicted and when, each answer is the one
\* a store that never forgets would give.  The documented invariant is that the
\* TTL of the window must be at least the largest window.span_seconds, or an
\* entry expires before the rule can look at it
\* (docs/proposta-motor-deteccao-transacoes.md:126); ports/window.go:17-26 says
\* "within the last span".
AnswersAreExact ==
  \A c \in Customers, span \in Spans :
    /\ \A channel \in Channels :
         CountByChannel(byCust[c], channel, span)
           = CountByChannel(recorded[c], channel, span)
    /\ \A tx \in Transactions :
         MaxDistanceKm(byCust[c], tx, span) = MaxDistanceKm(recorded[c], tx, span)
    /\ DistinctDeviceCount(byCust[c], span) = DistinctDeviceCount(recorded[c], span)
=============================================================================
