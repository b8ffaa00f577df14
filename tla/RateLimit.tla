----------------------------- MODULE RateLimit -----------------------------
(***************************************************************************)
(* FixedWindow (internal/api/ratelimit.go).  Allow reads the clock before  *)
(* it takes the mutex, so a handler may count with a time that is up to    *)
(* Lag old, after others counted with later times or evicted counters.     *)
(***************************************************************************)
EXTENDS Integers, FiniteSets

CONSTANTS Handlers,  \* goroutines of the HTTP server
          Keys,      \* identities (rateKey)
          Limit,     \* requests of a key in a window; not positive: no limit
          Window,    \* the length of a window
          Lag,       \* how long a handler waits between time.Now and the mutex
          EvictAt    \* 4096: more counters than this start an eviction

ASSUME RateConfig ==
  /\ Limit \in Int
  /\ Window \in Nat /\ Lag \in Nat /\ Lag < Window
  /\ EvictAt \in Nat
  /\ IsFiniteSet(Keys)

VARIABLES clock,     \* real time
          now,       \* what the handler read from the clock; -1 outside Allow
          key,       \* the identity the handler asks for
          counted,   \* the keys that have a counter in hits
          reset,     \* windowCounter.reset, also of a counter that was evicted
          count,     \* windowCounter.n
          opened,    \* history: the windows opened for a key
          admitted   \* history: the requests of a key that were let through

hits == <<counted, reset, count>>
rateVars == <<clock, now, key, hits, opened, admitted>>

RateInit ==
  /\ clock = 0
  /\ now = [h \in Handlers |-> -1]
  /\ key \in [Handlers -> Keys]
  /\ counted = {}
  /\ reset = [k \in Keys |-> 0]
  /\ count = [k \in Keys |-> 0]
  /\ opened = [k \in Keys |-> 0]
  /\ admitted = [k \in Keys |-> 0]

\* Time passes; no handler waits for the mutex longer than Lag.
Tick ==
  /\ \A h \in Handlers : now[h] >= 0 => clock - now[h] < Lag
  /\ clock' = clock + 1
  /\ UNCHANGED <<now, key, hits, opened, admitted>>

\* time.Now, before the mutex.
Enter(h) ==
  /\ now[h] = -1
  /\ now' = [now EXCEPT ![h] = clock]
  /\ \E k \in Keys : key' = [key EXCEPT ![h] = k]
  /\ UNCHANGED <<clock, hits, opened, admitted>>

\* [mutant] the boundary belongs to the old window.
ExpiredBoundary(k, t) == k \notin counted \/ t >= reset[k] - 1

\* c == nil || !now.Before(c.reset).
Expired(k, t) == k \notin counted \/ t >= reset[k]

\* [mutant] evictLocked drops every counter.
KeptNone(open, rst, t) == {}

\* evictLocked, when there are too many counters.
Kept(open, rst, t) ==
  IF Cardinality(open) > EvictAt THEN {k \in open : t < rst[k]} ELSE open

\* c.n >= r.Limit.
Full(c) == c >= Limit

\* Allow under the mutex.  A fresh counter stays in the map even when the
\* request is refused.
Allow(h) ==
  LET k == key[h]
      fresh == Expired(k, now[h])
      had == IF fresh THEN 0 ELSE count[k]
      rst == IF fresh THEN [reset EXCEPT ![k] = now[h] + Window] ELSE reset
  IN /\ now[h] >= 0
     /\ now' = [now EXCEPT ![h] = -1]
     /\ IF Limit <= 0
        THEN admitted' = [admitted EXCEPT ![k] = @ + 1] /\ UNCHANGED <<hits, opened>>
        ELSE /\ opened' = [opened EXCEPT ![k] = IF fresh THEN @ + 1 ELSE @]
             /\ reset' = rst
             /\ IF Full(had)
                THEN /\ count' = [count EXCEPT ![k] = had]
                     /\ counted' = counted \cup {k}
                     /\ UNCHANGED admitted
                ELSE /\ count' = [count EXCEPT ![k] = had + 1]
                     /\ counted' = Kept(counted \cup {k}, rst, now[h])
                     /\ admitted' = [admitted EXCEPT ![k] = @ + 1]
     /\ UNCHANGED <<clock, key>>

RateNext == Tick \/ \E h \in Handlers : Enter(h) \/ Allow(h)

RateSpec == RateInit /\ [][RateNext]_rateVars

-----------------------------------------------------------------------------
(* Properties, for a limiter that is on.                                   *)

\* Every variable has its type; a handler's time is at most Lag old and no counter
\* goes over Limit.
RateTypeOK ==
  /\ clock \in Nat
  /\ now \in [Handlers -> Nat \cup {-1}]
  /\ \A h \in Handlers : now[h] >= 0 => now[h] <= clock /\ clock <= now[h] + Lag
  /\ key \in [Handlers -> Keys]
  /\ counted \subseteq Keys
  /\ reset \in [Keys -> Nat]
  /\ count \in [Keys -> IF Limit > 0 THEN 0..Limit ELSE {0}]
  /\ opened \in [Keys -> Nat]
  /\ admitted \in [Keys -> Nat]

\* Neither a handler with an old time nor an eviction reopens a window early: a
\* key gets a fresh counter only when its last window is over by the real clock.
WindowsDisjoint ==
  [][\A k \in Keys : opened'[k] > opened[k] /\ opened[k] > 0 => clock >= reset[k]]_rateVars

\* "FixedWindow caps requests per identity per Window": in the time since the
\* start a key gets at most Limit requests per Window - Lag, plus one window,
\* whatever was evicted and however the handlers raced for the mutex.
RateBounded ==
  Limit > 0 =>
    \A k \in Keys : admitted[k] * (Window - Lag) <= Limit * (clock + Window - Lag)
=============================================================================
