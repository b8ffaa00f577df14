-------------------------- MODULE FrontPartsProofs --------------------------
(***************************************************************************)
(* Proofs about the parts of the HTTP front, each about its own            *)
(* specification: the two components that module Front composes, for every *)
(* set of requests and of keys, and the rate limiter behind them.          *)
(***************************************************************************)
EXTENDS RateLimit, Jwks, Audit, TLAPS

-----------------------------------------------------------------------------
(* RateLimit, for every number of handlers and keys, every limit, window,  *)
(* lag and eviction threshold.  The invariant counts the windows: each one *)
(* opens after the last is over, so the number opened is bounded by the    *)
(* clock, and the requests by the windows.                                 *)

\* The least distance between the openings of two windows of a key.
Pace == Window - Lag

\* A counter that is not in the map was evicted after its window.
EvictedAreOver == \A k \in Keys : k \notin counted => clock >= reset[k]

\* The windows opened lie behind each other on the clock, Pace apart.
WindowsPaced ==
  \A k \in Keys :
    /\ opened[k] * Pace <= reset[k]
    /\ opened[k] * Pace <= clock + Pace

\* The requests let through fill the windows before the last, and the last up to count.
WindowsFilled ==
  Limit > 0 => \A k \in Keys :
    /\ k \in counted => opened[k] > 0
    /\ opened[k] = 0 => admitted[k] = 0
    /\ opened[k] > 0 => admitted[k] <= Limit * (opened[k] - 1) + count[k]

RInv == RateTypeOK /\ EvictedAreOver /\ WindowsPaced /\ WindowsFilled

-----------------------------------------------------------------------------
\* A window is longer than the lag of a handler.
LEMMA PacePositive == Pace \in Nat \ {0}
  BY RateConfig DEF Pace

(* The facts about products the provers need.                              *)

\* One factor more by one.
LEMMA Succ == ASSUME NEW a \in Int, NEW c \in Int PROVE (a + 1) * c = a * c + c
  OBVIOUS

\* A product grows with its factor.
LEMMA ScaleMono ==
  ASSUME NEW a \in Int, NEW b \in Int, NEW c \in Nat, a <= b PROVE a * c <= b * c
  OBVIOUS

\* Windows and requests counted together or apart.
LEMMA Regroup ==
  ASSUME NEW a \in Int, NEW b \in Int, NEW c \in Int PROVE (a * b) * c = a * (b * c)
  OBVIOUS

\* Products of integers are integers.
LEMMA ProductInt == ASSUME NEW a \in Int, NEW b \in Int PROVE a * b \in Int
  OBVIOUS

-----------------------------------------------------------------------------
\* A limiter without counters has opened no window.
LEMMA InitRInv == RateInit => RInv
<1> SUFFICES ASSUME RateInit PROVE RInv
  OBVIOUS
<1>1. RateTypeOK
  BY RateConfig DEF RateInit, RateTypeOK
<1>2. EvictedAreOver /\ WindowsFilled
  BY DEF RateInit, EvictedAreOver, WindowsFilled
<1>3. WindowsPaced
  BY PacePositive DEF RateInit, WindowsPaced
<1> QED BY <1>1, <1>2, <1>3 DEF RInv

\* Time passes.
LEMMA TickStep == RInv /\ Tick => RInv'
<1> SUFFICES ASSUME RInv, Tick PROVE RInv'
  OBVIOUS
<1>1. RateTypeOK'
  BY RateConfig DEF RInv, RateTypeOK, Tick, hits
<1>2. EvictedAreOver'
  BY DEF RInv, RateTypeOK, EvictedAreOver, Tick, hits
<1>3. WindowsPaced'
  <2> SUFFICES ASSUME NEW k \in Keys
      PROVE opened[k] * Pace <= reset[k] /\ opened[k] * Pace <= clock + 1 + Pace
    BY DEF WindowsPaced, Tick, hits
  <2>1. opened[k] * Pace \in Int
    BY PacePositive, ProductInt DEF RInv, RateTypeOK
  <2> QED BY <2>1, PacePositive DEF RInv, RateTypeOK, WindowsPaced
<1>4. WindowsFilled'
  BY DEF RInv, WindowsFilled, Tick, hits
<1> QED BY <1>1, <1>2, <1>3, <1>4 DEF RInv

\* A handler reads the clock.
LEMMA EnterStep == ASSUME NEW h \in Handlers PROVE RInv /\ Enter(h) => RInv'
<1> SUFFICES ASSUME RInv, Enter(h) PROVE RInv'
  OBVIOUS
<1>1. RateTypeOK'
  BY RateConfig DEF RInv, RateTypeOK, Enter, hits
<1>2. EvictedAreOver' /\ WindowsPaced' /\ WindowsFilled'
  BY DEF RInv, EvictedAreOver, WindowsPaced, WindowsFilled, Enter, hits
<1> QED BY <1>1, <1>2 DEF RInv

\* A window that is found expired is over by the real clock.
LEMMA ExpiredIsOver ==
  ASSUME RInv, NEW h \in Handlers, now[h] >= 0, Expired(key[h], now[h])
  PROVE  clock >= reset[key[h]]
  BY DEF RInv, RateTypeOK, EvictedAreOver, Expired

\* What Allow does to the counter of its key k, and that it leaves the others.
LEMMA AllowEffect ==
  ASSUME RInv, Limit > 0, NEW h \in Handlers, Allow(h), NEW k \in Keys
  PROVE  LET anew == k = key[h] /\ Expired(k, now[h])
         IN /\ opened'[k] = IF anew THEN opened[k] + 1 ELSE opened[k]
            /\ reset'[k] = IF anew THEN now[h] + Window ELSE reset[k]
            /\ \/ count'[k] = (IF anew THEN 0 ELSE count[k]) /\ admitted'[k] = admitted[k]
               \/ /\ k = key[h] /\ ~Full(IF anew THEN 0 ELSE count[k])
                  /\ count'[k] = (IF anew THEN 0 ELSE count[k]) + 1
                  /\ admitted'[k] = admitted[k] + 1
  BY RateConfig DEF RInv, RateTypeOK, Allow, Full

\* Allow: a request in an open window, or the first of a new one.
LEMMA AllowStep == ASSUME NEW h \in Handlers PROVE RInv /\ Allow(h) => RInv'
<1> SUFFICES ASSUME RInv, Allow(h) PROVE RInv'
  OBVIOUS
<1>1. CASE Limit <= 0
  <2>1. RateTypeOK'
    BY <1>1, RateConfig DEF RInv, RateTypeOK, Allow, hits
  <2>2. EvictedAreOver' /\ WindowsPaced' /\ WindowsFilled'
    BY <1>1, RateConfig DEF RInv, EvictedAreOver, WindowsPaced, WindowsFilled, Allow, hits
  <2> QED BY <2>1, <2>2 DEF RInv
<1>2. CASE Limit > 0
  <2> DEFINE anew(k) == k = key[h] /\ Expired(k, now[h])
  <2>1. clock' = clock /\ key' = key /\ now[h] \in Nat /\ now' = [now EXCEPT ![h] = -1]
    BY DEF RInv, RateTypeOK, Allow
  <2>2. now[h] <= clock /\ clock <= now[h] + Lag
    BY <2>1 DEF RInv, RateTypeOK
  <2>3. counted' \subseteq Keys
    BY <1>2, RateConfig DEF RInv, RateTypeOK, Allow, Kept
  <2>4. \A k \in Keys : /\ opened'[k] \in Nat /\ reset'[k] \in Nat /\ admitted'[k] \in Nat
                        /\ count'[k] \in 0..Limit
    BY <1>2, <2>1, AllowEffect, RateConfig DEF RInv, RateTypeOK, Full
  <2>5. RateTypeOK'
    <3>1. /\ DOMAIN opened' = Keys /\ DOMAIN reset' = Keys
          /\ DOMAIN count' = Keys /\ DOMAIN admitted' = Keys
      BY <1>2, RateConfig DEF RInv, RateTypeOK, Allow
    <3>2. /\ opened' \in [Keys -> Nat] /\ reset' \in [Keys -> Nat]
          /\ count' \in [Keys -> 0..Limit] /\ admitted' \in [Keys -> Nat]
      BY <1>2, <2>4, <3>1, RateConfig DEF RInv, RateTypeOK, Allow
    <3> QED BY <1>2, <2>1, <2>3, <3>2 DEF RInv, RateTypeOK
  <2>6. EvictedAreOver'
    <3> SUFFICES ASSUME NEW k \in Keys, k \notin counted' PROVE clock >= reset'[k]
      BY <2>1 DEF EvictedAreOver
    <3>1. CASE k \notin counted /\ k # key[h]
      BY <1>2, <3>1, AllowEffect DEF RInv, EvictedAreOver
    <3>2. CASE k \in counted \/ k = key[h]
      <4>1. reset'[k] <= now[h]
        BY <1>2, <2>1, <2>4, <3>2, RateConfig DEF Allow, Kept, RInv, RateTypeOK
      <4> QED BY <2>1, <2>2, <2>4, <4>1 DEF RInv, RateTypeOK
    <3> QED BY <3>1, <3>2
  <2>7. WindowsPaced'
    <3> SUFFICES ASSUME NEW k \in Keys
        PROVE opened'[k] * Pace <= reset'[k] /\ opened'[k] * Pace <= clock + Pace
      BY <2>1 DEF WindowsPaced
    <3>1. CASE ~anew(k)
      BY <1>2, <3>1, AllowEffect DEF RInv, WindowsPaced
    <3>2. CASE anew(k)
      <4>1. clock >= reset[k]
        BY <2>1, <3>2, ExpiredIsOver
      <4>2. opened'[k] = opened[k] + 1 /\ reset'[k] = now[h] + Window
        BY <1>2, <3>2, AllowEffect
      <4>3. opened'[k] * Pace = opened[k] * Pace + Pace /\ opened[k] * Pace \in Int
        BY <4>2, Succ, ProductInt, PacePositive DEF RInv, RateTypeOK
      <4>4. opened[k] * Pace <= clock
        BY <4>1, <4>3 DEF RInv, RateTypeOK, WindowsPaced
      <4> QED BY <2>1, <2>2, <4>2, <4>3, <4>4, RateConfig DEF Pace, RInv, RateTypeOK
    <3> QED BY <3>1, <3>2
  <2>8. WindowsFilled'
    <3> SUFFICES ASSUME NEW k \in Keys
        PROVE /\ k \in counted' => opened'[k] > 0
              /\ opened'[k] = 0 => admitted'[k] = 0
              /\ opened'[k] > 0 => admitted'[k] <= Limit * (opened'[k] - 1) + count'[k]
      BY DEF WindowsFilled
    <3>1. k \in counted' => k \in counted \/ k = key[h]
      BY <1>2, RateConfig DEF Allow, Kept
    <3>2. k = key[h] /\ ~anew(k) => opened[k] > 0
      BY <1>2 DEF Expired, RInv, WindowsFilled
    <3>3. CASE ~anew(k)
      <4>1. opened'[k] = opened[k]
        BY <1>2, <3>3, AllowEffect
      <4>2. k \in counted' => opened[k] > 0
        BY <1>2, <3>1, <3>2, <3>3 DEF RInv, WindowsFilled
      <4>3. opened[k] = 0 => admitted'[k] = 0
        BY <1>2, <3>2, <3>3, AllowEffect DEF RInv, RateTypeOK, WindowsFilled
      <4>4. Limit * (opened[k] - 1) \in Int
        BY RateConfig, ProductInt DEF RInv, RateTypeOK
      <4>5. admitted'[k] - count'[k] = admitted[k] - count[k]
        BY <1>2, <3>3, AllowEffect, SMTT(20) DEF RInv, RateTypeOK
      <4> QED BY <1>2, <2>4, <4>1, <4>2, <4>3, <4>4, <4>5 DEF RInv, RateTypeOK, WindowsFilled
    <3>4. CASE anew(k)
      <4>1. opened'[k] = opened[k] + 1
        BY <1>2, <3>4, AllowEffect
      <4>2. admitted'[k] - count'[k] = admitted[k]
        BY <1>2, <3>4, AllowEffect DEF RInv, RateTypeOK
      <4>3. admitted[k] <= Limit * opened[k]
        <5>1. CASE opened[k] = 0
          BY <1>2, <5>1, RateConfig DEF RInv, WindowsFilled
        <5>2. CASE opened[k] > 0
          <6>1. Limit * opened[k] = Limit * (opened[k] - 1) + Limit /\ Limit * (opened[k] - 1) \in Int
            BY RateConfig, ProductInt DEF RInv, RateTypeOK
          <6> QED BY <1>2, <5>2, <6>1, RateConfig DEF RInv, RateTypeOK, WindowsFilled
        <5> QED BY <5>1, <5>2 DEF RInv, RateTypeOK
      <4>4. opened[k] \in Nat /\ admitted[k] \in Nat
        BY DEF RInv, RateTypeOK
      <4>5. Limit * opened[k] \in Int
        BY <4>4, RateConfig, ProductInt
      <4>6. opened'[k] > 0 /\ opened'[k] - 1 = opened[k]
        BY <4>1, <4>4
      <4>7. admitted'[k] <= Limit * opened[k] + count'[k]
        BY <2>4, <4>2, <4>3, <4>4, <4>5
      <4> QED BY <4>6, <4>7
    <3> QED BY <3>3, <3>4
  <2> QED BY <2>5, <2>6, <2>7, <2>8 DEF RInv
<1> QED BY <1>1, <1>2, RateConfig

-----------------------------------------------------------------------------
\* The invariant holds of every behaviour of the limiter.
THEOREM RateInvariance == RateSpec => []RInv
<1>1. RInv /\ [RateNext]_rateVars => RInv'
  <2> SUFFICES ASSUME RInv, [RateNext]_rateVars PROVE RInv'
    OBVIOUS
  <2>1. CASE UNCHANGED rateVars
    BY <2>1 DEF RInv, RateTypeOK, EvictedAreOver, WindowsPaced, WindowsFilled, rateVars, hits
  <2> QED BY <2>1, TickStep, EnterStep, AllowStep DEF RateNext
<1> QED BY InitRInv, <1>1, PTL DEF RateSpec

\* Every variable keeps its type and no counter goes over Limit.
THEOREM RateTypeCorrect == RateSpec => []RateTypeOK
  BY RateInvariance, PTL DEF RInv

\* A key gets at most Limit requests per Window - Lag, plus one window.
THEOREM RateIsBounded == RateSpec => []RateBounded
<1>1. RInv => RateBounded
  <2> SUFFICES ASSUME RInv, Limit > 0, NEW k \in Keys
      PROVE admitted[k] * Pace <= Limit * (clock + Pace)
    BY RateConfig DEF RateBounded, Pace, RInv, RateTypeOK
  <2>1. admitted[k] \in Nat /\ opened[k] \in Nat /\ clock \in Nat /\ Limit \in Nat /\ count[k] \in 0..Limit
    BY RateConfig DEF RInv, RateTypeOK
  <2>2. admitted[k] <= Limit * opened[k]
    <3>1. CASE opened[k] = 0
      BY <2>1, <3>1 DEF RInv, WindowsFilled
    <3>2. CASE opened[k] > 0
      <4>1. Limit * opened[k] = Limit * (opened[k] - 1) + Limit /\ Limit * (opened[k] - 1) \in Int
        BY <2>1, ProductInt
      <4> QED BY <2>1, <3>2, <4>1 DEF RInv, WindowsFilled
    <3> QED BY <2>1, <3>1, <3>2
  <2>3. admitted[k] * Pace <= Limit * (opened[k] * Pace)
    <3>1. admitted[k] * Pace <= (Limit * opened[k]) * Pace
      BY <2>1, <2>2, ScaleMono, ProductInt, PacePositive
    <3> QED BY <2>1, <3>1, Regroup, PacePositive
  <2>4. (opened[k] * Pace) * Limit <= (clock + Pace) * Limit
    <3>1. opened[k] * Pace \in Int /\ clock + Pace \in Int /\ opened[k] * Pace <= clock + Pace
      BY <2>1, ProductInt, PacePositive DEF RInv, WindowsPaced
    <3> QED BY <2>1, <3>1, ScaleMono
  <2>5. /\ (opened[k] * Pace) * Limit = Limit * (opened[k] * Pace)
        /\ (clock + Pace) * Limit = Limit * (clock + Pace)
    BY <2>1, ProductInt, PacePositive
  <2>6. /\ Limit * (opened[k] * Pace) \in Int /\ Limit * (clock + Pace) \in Int
        /\ admitted[k] * Pace \in Int
    BY <2>1, ProductInt, PacePositive
  <2> QED BY <2>3, <2>4, <2>5, <2>6
<1> QED BY RateInvariance, <1>1, PTL

\* A key gets a anew counter only when its last window is over by the clock.
THEOREM WindowsNeverOverlap == RateSpec => WindowsDisjoint
<1>1. RInv /\ [RateNext]_rateVars =>
        [\A k \in Keys : opened'[k] > opened[k] /\ opened[k] > 0 => clock >= reset[k]]_rateVars
  <2> SUFFICES ASSUME RInv, RateNext, NEW k \in Keys, opened'[k] > opened[k]
      PROVE clock >= reset[k]
    OBVIOUS
  <2>1. CASE Tick \/ \E h \in Handlers : Enter(h)
    BY <2>1 DEF Tick, Enter, RInv, RateTypeOK
  <2>2. ASSUME NEW h \in Handlers, Allow(h) PROVE clock >= reset[k]
    <3>1. Limit > 0
      BY <2>2, RateConfig DEF Allow, RInv, RateTypeOK
    <3>2. k = key[h] /\ Expired(k, now[h])
      BY <2>2, <3>1, AllowEffect DEF RInv, RateTypeOK
    <3>3. now[h] >= 0
      BY <2>2 DEF Allow
    <3> QED BY <3>2, <3>3, ExpiredIsOver
  <2> QED BY <2>1, <2>2 DEF RateNext
<1> QED BY RateInvariance, <1>1, PTL DEF RateSpec, WindowsDisjoint

-----------------------------------------------------------------------------
(* Jwks.  The history variables bound the published document from both     *)
(* sides: what a fetch brings contains the settled keys and none of the    *)
(* late ones, and while the cache is fresh so does the cache.              *)

\* A set of keys that is right at the end of a TTL.
Timely(ks) == settled \subseteq ks /\ late \cap ks = {}

\* The inductive invariant.
IInv ==
  /\ JwksTypeOK
  /\ FetchOnlyStale
  /\ keys = {} => ~fresh
  /\ Timely(published)
  /\ fresh => Timely(keys)
  /\ \A r \in Requests : vpc[r] = "install" => Timely(doc)

\* A fetch excludes every other one.
LEMMA OneFetch ==
  ASSUME JwksTypeOK, NEW r \in Requests, vpc[r] \in Fetching, NEW q \in Requests, q # r
  PROVE  vpc[q] \notin Fetching
BY DEF JwksTypeOK

\* Nobody fetches while the mutex is free.
LEMMA NoFetch ==
  ASSUME JwksTypeOK, mu = Nobody, NEW q \in Requests
  PROVE  vpc[q] \notin Fetching
BY HttpConfig DEF JwksTypeOK

\* The initial cache is empty and stale.
LEMMA InitIInv == JwksInit => IInv
<1> SUFFICES ASSUME JwksInit PROVE IInv
  OBVIOUS
<1>1. AnyTok \in Tokens
  <2>1. \E k \in Kids : [kid |-> k, signer |-> k] \in Tokens
    BY KidsFinite DEF Tokens
  <2>q. QED
    BY <2>1 DEF AnyTok
<1>2. JwksTypeOK
  BY <1>1 DEF JwksInit, JwksTypeOK, Fetching
<1>3. FetchOnlyStale /\ \A r \in Requests : vpc[r] # "install"
  BY DEF JwksInit, FetchOnlyStale, Fetching
<1>q. QED
  BY <1>2, <1>3 DEF JwksInit, IInv, Timely

\* What a conclusion does to the type invariant, whatever keys it uses.
LEMMA ConcludeType ==
  ASSUME IInv, NEW r \in Requests, NEW ks, Conclude(r, ks), UNCHANGED tok,
         {published', keys', doc', late', settled'} \subseteq SUBSET Kids, fresh' \in BOOLEAN,
         \A q \in Requests \ {r} : vpc[q] \notin Fetching
  PROVE  JwksTypeOK' /\ \A q \in Requests : vpc'[q] \notin Fetching
<1>1. vpc' = [vpc EXCEPT ![r] = "done"] /\ mu' = Nobody
  BY DEF Conclude, VGoto
<1>2. verdict' \in [Requests -> BOOLEAN]
  BY DEF Conclude, IInv, JwksTypeOK
<1>3. \A q \in Requests : vpc'[q] \notin Fetching
  BY <1>1 DEF IInv, JwksTypeOK, Fetching
<1>q. QED
  BY <1>1, <1>2, <1>3 DEF IInv, JwksTypeOK

\* Every step of the provider, the clock, a call or a restart preserves it.
LEMMA NextIInv == IInv /\ [JwksNext]_jwksVars => IInv'
<1> SUFFICES ASSUME IInv, [JwksNext]_jwksVars PROVE IInv'
  OBVIOUS
<1> USE DEF IInv
<1>1. CASE Rotate
  BY <1>1 DEF Rotate, JwksTypeOK, FetchOnlyStale, Timely, callVars, cacheVars
<1>2. CASE TtlPasses
  BY <1>2 DEF TtlPasses, JwksTypeOK, FetchOnlyStale, Timely, callVars, Fetching
<1>3. CASE JwksCrash
  <2>1. \A r \in Requests : vpc'[r] \in {"out", "done"}
    BY <1>3 DEF JwksCrash
  <2>2. JwksTypeOK'
    BY <1>3, <2>1 DEF JwksCrash, JwksTypeOK, Fetching
  <2>q. QED
    BY <1>3, <2>1, <2>2 DEF JwksCrash, FetchOnlyStale, Timely, Fetching, JwksTypeOK
<1>4. ASSUME NEW r \in Requests, NEW t \in Tokens, Verify(r, t) PROVE IInv'
  BY <1>4 DEF Verify, VGoto, JwksTypeOK, FetchOnlyStale, Timely, cacheVars, idpVars, Fetching
<1>5. ASSUME NEW r \in Requests, CheckClaims(r) PROVE IInv'
  BY <1>5 DEF CheckClaims, VGoto, JwksTypeOK, FetchOnlyStale, Timely, cacheVars, idpVars, Fetching
<1>6. ASSUME NEW r \in Requests, Lock(r) PROVE IInv'
  <2>1. \A q \in Requests : vpc[q] \notin Fetching
    BY <1>6, NoFetch DEF Lock
  <2>2. UNCHANGED <<tok, keys, fresh, doc, published, late, settled>>
    BY <1>6 DEF Lock, idpVars
  <2>3. CASE keys # {} /\ fresh
    <3>1. JwksTypeOK' /\ \A q \in Requests : vpc'[q] \notin Fetching
      BY <1>6, <2>1, <2>2, <2>3, ConcludeType DEF Lock, JwksTypeOK
    <3>q. QED
      BY <2>2, <3>1 DEF FetchOnlyStale, Timely, Fetching
  <2>4. CASE ~(keys # {} /\ fresh)
    <3>1. mu' = r /\ vpc' = [vpc EXCEPT ![r] = "get"] /\ UNCHANGED verdict
      BY <1>6, <2>4 DEF Lock, VGoto
    <3>2. JwksTypeOK'
      BY <2>1, <2>2, <3>1 DEF JwksTypeOK, Fetching
    <3>q. QED
      BY <2>1, <2>2, <2>4, <3>1, <3>2 DEF FetchOnlyStale, Timely, Fetching, JwksTypeOK
  <2>q. QED
    BY <2>3, <2>4
<1>7. ASSUME NEW r \in Requests, Serve(r) PROVE IInv'
  <2>1. vpc[r] \in Fetching /\ mu = r
    BY <1>7 DEF Serve, Fetching, JwksTypeOK
  <2>q. QED
    BY <1>7, <2>1 DEF Serve, VGoto, JwksTypeOK, FetchOnlyStale, Timely, idpVars, Fetching
<1>8. ASSUME NEW r \in Requests, GetFails(r) PROVE IInv'
  <2>1. UNCHANGED <<tok, keys, fresh, doc, published, late, settled>>
    BY <1>8 DEF GetFails, idpVars
  <2>2. JwksTypeOK' /\ \A q \in Requests : vpc'[q] \notin Fetching
    BY <1>8, <2>1, OneFetch, ConcludeType, SMTT(20) DEF GetFails, JwksTypeOK, Fetching
  <2>q. QED
    BY <2>1, <2>2 DEF FetchOnlyStale, Timely, Fetching
<1>9. ASSUME NEW r \in Requests, Install(r) PROVE IInv'
  <2>1. keys' = doc /\ doc # {} /\ UNCHANGED <<tok, doc, published, late, settled>> /\ fresh' = TRUE
    BY <1>9 DEF Install, idpVars
  <2>2. JwksTypeOK' /\ \A q \in Requests : vpc'[q] \notin Fetching
    <3>1. JwksTypeOK /\ vpc[r] \in Fetching /\ Conclude(r, doc)
      BY <1>9 DEF Install, Fetching
    <3>2. {published', keys', doc', late', settled'} \subseteq SUBSET Kids /\ fresh' \in BOOLEAN
      BY <2>1, <3>1 DEF JwksTypeOK
    <3>3. \A q \in Requests \ {r} : vpc[q] \notin Fetching
      BY <3>1, OneFetch
    <3>q. QED
      BY <2>1, <3>1, <3>2, <3>3, ConcludeType
  <2>3. Timely(doc)
    BY <1>9 DEF Install
  <2>q. QED
    BY <2>1, <2>2, <2>3 DEF FetchOnlyStale, Timely, Fetching
<1>10. CASE UNCHANGED jwksVars
  BY <1>10 DEF jwksVars, callVars, cacheVars, idpVars, JwksTypeOK, FetchOnlyStale, Timely
<1>q. QED
  BY <1>1, <1>2, <1>3, <1>4, <1>5, <1>6, <1>7, <1>8, <1>9, <1>10 DEF JwksNext, JwksStep

\* A call concludes with a cache that is timely, or leaves the cache stale.
LEMMA ConcludesTimely ==
  ASSUME IInv, [JwksNext]_jwksVars, NEW r \in Requests, Concludes(r), fresh'
  PROVE  \E ks : Timely(ks) /\ verdict'[r] = (tok[r].signer \in Selected(ks, tok[r].kid))
<1> USE DEF Concludes
<1>0. vpc[r] \in {"lock", "get", "install"} /\ vpc'[r] = "done" /\ vpc'[r] # vpc[r]
  BY DEF Fetching
<1>1. CASE Rotate \/ TtlPasses \/ JwksCrash \/ UNCHANGED jwksVars
  BY <1>0, <1>1 DEF Rotate, TtlPasses, JwksCrash, jwksVars, callVars
<1>2. ASSUME NEW q \in Requests, (\E t \in Tokens : Verify(q, t)) \/ CheckClaims(q) \/ Serve(q)
      PROVE  FALSE
  BY <1>0, <1>2 DEF Verify, CheckClaims, Serve, VGoto, IInv, JwksTypeOK
<1>3. ASSUME NEW q \in Requests, Lock(q) \/ GetFails(q) \/ Install(q) PROVE q = r
  BY <1>0, <1>3 DEF Lock, GetFails, Install, Conclude, VGoto, IInv, JwksTypeOK
<1>4. ASSUME NEW ks, Conclude(r, ks)
      PROVE  verdict'[r] = (tok[r].signer \in Selected(ks, tok[r].kid))
  BY <1>4 DEF Conclude, IInv, JwksTypeOK
<1>5. CASE Lock(r)
  <2>1. keys # {} /\ fresh
    BY <1>0, <1>5 DEF Lock, VGoto, IInv, JwksTypeOK
  <2>q. QED
    BY <1>4, <1>5, <2>1 DEF Lock, IInv
<1>6. CASE GetFails(r)
  BY <1>6 DEF GetFails, IInv, FetchOnlyStale, Fetching
<1>7. CASE Install(r)
  BY <1>4, <1>7 DEF Install, IInv
<1>q. QED
  BY <1>1, <1>2, <1>3, <1>5, <1>6, <1>7 DEF JwksNext, JwksStep

-----------------------------------------------------------------------------

\* The inductive invariant holds of every state of the cache.
THEOREM Invariance == JwksSpec => []IInv
BY InitIInv, NextIInv, PTL DEF JwksSpec

\* Type correctness and the discipline of the mutex (JWTVerifier.mu).
THEOREM TypeCorrect == JwksSpec => []JwksTypeOK
<1>1. IInv => JwksTypeOK
  BY DEF IInv
<1>q. QED
  BY <1>1, Invariance, PTL

\* Only a stale cache is fetched, whoever waited for whom (JWTVerifier.key).
THEOREM FetchesOnlyStale == JwksSpec => []FetchOnlyStale
<1>1. IInv => FetchOnlyStale
  BY DEF IInv
<1>q. QED
  BY <1>1, Invariance, PTL

\* A key withdrawn for a TTL is of no use to a token unless the refresh fails
\* (JWTVerifier.key, refreshLocked).
THEOREM RefusesRetiredKeys == JwksSpec => RetiredKeyRefused
<1>1. IInv /\ [JwksNext]_jwksVars
        => [\A r \in Requests :
              Concludes(r) /\ verdict'[r] /\ tok[r].signer \in late => ~fresh']_jwksVars
  <2> SUFFICES ASSUME IInv, [JwksNext]_jwksVars, NEW r \in Requests,
                      Concludes(r), verdict'[r], tok[r].signer \in late, fresh'
               PROVE  FALSE
    BY DEF IInv, JwksTypeOK
  <2>1. PICK ks : Timely(ks) /\ verdict'[r] = (tok[r].signer \in Selected(ks, tok[r].kid))
    BY ConcludesTimely
  <2>q. QED
    BY <2>1 DEF Timely, Selected
<1>q. QED
  BY <1>1, Invariance, PTL DEF JwksSpec, RetiredKeyRefused

\* A key published for a TTL verifies the tokens that name it unless the refresh
\* fails (JWTVerifier.key, refreshLocked).
THEOREM AcceptsPublishedKeys == JwksSpec => PublishedKeyAccepted
<1>1. IInv /\ [JwksNext]_jwksVars
        => [\A r \in Requests :
              Concludes(r) /\ ~verdict'[r] /\ tok[r].signer = tok[r].kid /\ tok[r].signer \in settled
                => ~fresh']_jwksVars
  <2> SUFFICES ASSUME IInv, [JwksNext]_jwksVars, NEW r \in Requests, Concludes(r),
                      ~verdict'[r], tok[r].signer = tok[r].kid, tok[r].signer \in settled, fresh'
               PROVE  FALSE
    BY DEF IInv, JwksTypeOK
  <2>1. PICK ks : Timely(ks) /\ verdict'[r] = (tok[r].signer \in Selected(ks, tok[r].kid))
    BY ConcludesTimely
  <2>q. QED
    BY <2>1 DEF Timely, Selected
<1>q. QED
  BY <1>1, Invariance, PTL DEF JwksSpec, PublishedKeyAccepted

\* The mutex of the cache is never leaked: every path out of a fetch unlocks it.
THEOREM KeysLockReturned == JwksSpec => []KeysLockHeld
<1>1. JwksInit => KeysLockHeld
  BY DEF JwksInit, KeysLockHeld
<1>2. IInv /\ KeysLockHeld /\ [JwksNext]_jwksVars => KeysLockHeld'
  <2> SUFFICES ASSUME IInv, KeysLockHeld, [JwksNext]_jwksVars PROVE KeysLockHeld'
    OBVIOUS
  <2> USE DEF KeysLockHeld
  <2>t. vpc \in [Requests -> {"out", "claims", "lock", "done", "get", "install"}]
    BY DEF IInv, JwksTypeOK, Fetching
  <2>m. mu \in Requests \cup {Nobody}
    BY DEF IInv, JwksTypeOK
  <2>1. CASE UNCHANGED <<mu, vpc>>
    BY <2>1
  <2>2. CASE mu' = Nobody
    BY <2>2
  <2>3. ASSUME NEW r \in Requests, vpc[r] \notin Fetching, mu' = mu, NEW l, VGoto(r, l)
        PROVE  KeysLockHeld'
    <3>1. mu # Nobody => mu \in Requests /\ mu # r
      BY <2>3, <2>m
    <3>q. QED
      BY <3>1, <2>3, <2>t DEF VGoto
  <2>4. ASSUME NEW r \in Requests, mu' = r, vpc' = [vpc EXCEPT ![r] = "get"]
        PROVE  KeysLockHeld'
    BY <2>4, <2>t DEF Fetching
  <2>5. ASSUME NEW r \in Requests, mu' = mu, vpc[r] = "get", vpc' = [vpc EXCEPT ![r] = "install"]
        PROVE  KeysLockHeld'
    BY <2>5, <2>t, <2>m DEF Fetching
  <2>6. ASSUME NEW r \in Requests, CheckClaims(r) PROVE KeysLockHeld'
    BY <2>6, <2>3 DEF CheckClaims, cacheVars, Fetching
  <2>7. ASSUME NEW r \in Requests, Lock(r) PROVE KeysLockHeld'
    BY <2>7, <2>2, <2>4 DEF Lock, Conclude, VGoto
  <2>8. ASSUME NEW r \in Requests, Serve(r) PROVE KeysLockHeld'
    BY <2>8, <2>5 DEF Serve, VGoto
  <2>9. ASSUME NEW r \in Requests, GetFails(r) \/ Install(r) PROVE KeysLockHeld'
    BY <2>9, <2>2 DEF GetFails, Install, Conclude
  <2>10. ASSUME NEW r \in Requests, NEW t \in Tokens, Verify(r, t) PROVE KeysLockHeld'
    BY <2>10, <2>3 DEF Verify, cacheVars, Fetching
  <2>11. CASE Rotate \/ TtlPasses
    BY <2>11, <2>1 DEF Rotate, TtlPasses, callVars, cacheVars
  <2>12. CASE JwksCrash
    BY <2>12, <2>2 DEF JwksCrash
  <2>13. CASE UNCHANGED jwksVars
    BY <2>13, <2>1 DEF jwksVars, callVars, cacheVars
  <2>q. QED
    BY <2>6, <2>7, <2>8, <2>9, <2>10, <2>11, <2>12, <2>13 DEF JwksNext, JwksStep
<1>q. QED
  BY <1>1, <1>2, Invariance, PTL DEF JwksSpec

-----------------------------------------------------------------------------
(* Audit.  The event of a request that has passed a sink is in that sink   *)
(* or its error is in failed; for the file, among the pieces that are      *)
(* synced, which no crash takes away.                                      *)

\* The line of r is among the first n pieces.
Among(r, n) == \E i \in 1 .. n : file[i] = Line(r)

PastFile == {"http", "sql", "insert", "end"}
PastHttp == {"sql", "insert", "end"}

\* The part of the inductive invariant that belongs to one request.
Passed(r) ==
  /\ apc[r] = "sync" => fmu = r /\ Among(r, Len(file))
  /\ apc[r] \in PastFile => r \in logged /\ ("file" \notin failed[r] => Among(r, synced))
  /\ apc[r] \in PastHttp /\ "http" \in sinks => r \in collected \/ "http" \in failed[r]
  /\ apc[r] = "end" /\ "sql" \in sinks => r \in rows \/ "sql" \in failed[r]

\* The inductive invariant.
AInv ==
  /\ AuditTypeOK
  /\ SchemaFirst
  /\ ensured => table
  /\ \A r \in Requests : Passed(r)

\* The sinks are empty when buildAudit returns.
LEMMA InitAInv == AuditStart => AInv
<1> SUFFICES ASSUME NEW s \in SUBSET {"http", "sql"}, NEW w \in SUBSET {"file", "http", "sql"},
                    AuditInit(s, w)
             PROVE  AInv
  BY DEF AuditStart
<1>1. file \in Seq(Pieces) /\ Len(file) = 0
  BY DEF AuditInit
<1>2. AuditTypeOK
  <2>1. ensured \in BOOLEAN /\ table \in BOOLEAN
    BY Zenon DEF AuditInit
  <2>2. synced \in 0 .. Len(file)
    BY <1>1 DEF AuditInit
  <2>3. sinks = s /\ weak = w /\ logged = {} /\ collected = {} /\ rows = {} /\ fmu = Nobody
    BY DEF AuditInit
  <2>4. /\ apc \in [Requests -> {"off", "file", "sync", "http", "sql", "insert", "end"}]
        /\ failed \in [Requests -> SUBSET weak]
    BY DEF AuditInit
  <2>q. QED
    BY <1>1, <2>1, <2>2, <2>3, <2>4 DEF AuditTypeOK
<1>q. QED
  BY <1>2 DEF AuditInit, AInv, SchemaFirst, Passed, PastFile, PastHttp

\* A crash keeps the pieces that are synced.
LEMMA CrashKeeps ==
  ASSUME AuditTypeOK, NEW f \in AfterCrash
  PROVE  f \in Seq(Pieces) /\ Len(f) >= synced /\ \A i \in 1 .. synced : f[i] = file[i]
<1>0. file \in Seq(Pieces) /\ synced \in 0 .. Len(file) /\ Len(file) \in Nat
  BY DEF AuditTypeOK
<1>1. PICK n \in synced .. Len(file) :
        f = SubSeq(file, 1, n) \/ (n > synced /\ f = Append(SubSeq(file, 1, n - 1), Torn(file[n].ev)))
  BY DEF AfterCrash
<1>2. ASSUME NEW k \in synced .. Len(file)
      PROVE  /\ SubSeq(file, 1, k) \in Seq(Pieces) /\ Len(SubSeq(file, 1, k)) = k
             /\ \A i \in 1 .. k : SubSeq(file, 1, k)[i] = file[i]
  BY <1>0
<1>3. CASE f = SubSeq(file, 1, n)
  BY <1>0, <1>2, <1>3
<1>4. CASE n > synced /\ f = Append(SubSeq(file, 1, n - 1), Torn(file[n].ev))
  <2>1. n - 1 \in synced .. Len(file) /\ n \in 1 .. Len(file)
    BY <1>0, <1>4
  <2>2. Torn(file[n].ev) \in Pieces
    <3>1. file[n] \in Pieces
      BY <1>0, <2>1
    <3>q. QED
      BY <3>1 DEF Torn, Pieces
  <2> DEFINE g == SubSeq(file, 1, n - 1)
  <2>3. g \in Seq(Pieces) /\ Len(g) = n - 1 /\ \A i \in 1 .. n - 1 : g[i] = file[i]
    BY <1>2, <2>1
  <2> HIDE DEF g
  <2>4. f = Append(g, Torn(file[n].ev))
    BY <1>4 DEF g
  <2>q. QED
    BY <1>0, <2>1, <2>2, <2>3, <2>4
<1>q. QED
  BY <1>1, <1>3, <1>4

\* Appending a piece keeps every line and adds its own.
LEMMA AppendKeeps ==
  ASSUME AuditTypeOK, NEW p \in Pieces, file' = Append(file, p)
  PROVE  /\ file' \in Seq(Pieces) /\ Len(file') = Len(file) + 1
         /\ \A i \in 1 .. Len(file) : file'[i] = file[i]
         /\ file'[Len(file')] = p
BY DEF AuditTypeOK

\* A step that only adds to the sinks: it keeps the lines of the file, what is synced,
\* and what the logger, the collector and the table have.
OnlyAdds ==
  /\ sinks' = sinks
  /\ Len(file) \in Nat /\ Len(file') \in Nat /\ Len(file') >= Len(file)
  /\ \A i \in 1 .. Len(file) : file'[i] = file[i]
  /\ synced \in Nat /\ synced' \in Nat /\ synced <= Len(file) /\ synced' >= synced
  /\ logged \subseteq logged' /\ collected \subseteq collected' /\ rows \subseteq rows'

\* Another request, when one request has made a step that only adds to the sinks.
LEMMA PassedFrame ==
  ASSUME AInv, OnlyAdds, NEW q \in Requests, apc'[q] = apc[q], failed'[q] = failed[q],
         apc[q] = "sync" => fmu' = fmu
  PROVE  Passed(q)'
<1>1. Passed(q)
  BY DEF AInv
<1>2. Among(q, Len(file)) => Among(q, Len(file))'
  BY DEF OnlyAdds, Among, Line
<1>3. Among(q, synced) => Among(q, synced)'
  BY DEF OnlyAdds, Among, Line
<1>4. /\ sinks' = sinks /\ logged \subseteq logged' /\ collected \subseteq collected'
      /\ rows \subseteq rows'
  BY DEF OnlyAdds
<1>q. QED
  BY <1>1, <1>2, <1>3, <1>4 DEF Passed

\* Every step of a request keeps the invariant.
LEMMA StepAInv ==
  ASSUME AInv, NEW r \in Requests, AuditStep(r)
  PROVE  AInv'
<1>0. /\ file \in Seq(Pieces) /\ Len(file) \in Nat /\ synced \in Nat /\ synced <= Len(file)
      /\ apc \in [Requests -> {"off", "file", "sync", "http", "sql", "insert", "end"}]
      /\ failed \in [Requests -> SUBSET weak] /\ Passed(r)
  BY DEF AInv, AuditTypeOK
<1>1. CASE FileWrite(r)
  <2>1. \A q \in Requests : apc[q] # "sync"
    BY <1>1, HttpConfig DEF FileWrite, AInv, Passed
  <2>2. Line(r) \in Pieces /\ Torn(r) \in Pieces
    BY DEF Line, Torn, Pieces
  <2>3. /\ file' \in Seq(Pieces) /\ Len(file') \in Nat /\ Len(file') >= Len(file)
        /\ \A i \in 1 .. Len(file) : file'[i] = file[i]
    <3>1. file' = file \/ \E p \in Pieces : file' = Append(file, p)
      BY <1>1, <2>2 DEF FileWrite
    <3>2. CASE file' = file
      BY <1>0, <3>2
    <3>3. ASSUME NEW p \in Pieces, file' = Append(file, p)
          PROVE  /\ file' \in Seq(Pieces) /\ Len(file') = Len(file) + 1
                 /\ \A i \in 1 .. Len(file) : file'[i] = file[i]
      BY <3>3, AppendKeeps DEF AInv
    <3>q. QED
      BY <1>0, <3>1, <3>2, <3>3
  <2>4. UNCHANGED <<sinks, weak, synced, collected, ensured, table, rows>>
    BY <1>1 DEF FileWrite
  <2>5. CASE file' = Append(file, Line(r)) /\ fmu' = r /\ AGoto(r, "sync") /\ Pass(r) /\ UNCHANGED logged
    <3>1. apc' = [apc EXCEPT ![r] = "sync"] /\ failed' = failed
      BY <2>5 DEF AGoto, Pass
    <3>2. Among(r, Len(file))'
      <4>1. Len(file') = Len(file) + 1 /\ file'[Len(file')] = Line(r)
        BY <2>2, <2>5, AppendKeeps DEF AInv
      <4>2. Len(file') \in 1 .. Len(file')
        BY <1>0, <4>1
      <4>q. QED
        BY <4>1, <4>2 DEF Among, Line
    <3>3. Passed(r)'
      <4>1. apc'[r] = "sync" /\ fmu' = r
        BY <1>0, <2>5, <3>1
      <4>q. QED
        BY <3>2, <4>1 DEF Passed, PastFile, PastHttp
    <3>4. \A q \in Requests : q # r => Passed(q)'
      <4>1. \A q \in Requests : q # r => apc'[q] = apc[q] /\ failed'[q] = failed[q]
        BY <1>0, <3>1
      <4>2. OnlyAdds
        <5>1. sinks' = sinks /\ synced' = synced /\ collected' = collected /\ rows' = rows
          BY <2>4
        <5>2. logged' = logged
          BY <2>5
        <5>3. synced' \in Nat /\ synced' >= synced
          BY <1>0, <5>1
        <5>q. QED
          BY <1>0, <2>3, <5>1, <5>2, <5>3 DEF OnlyAdds
      <4>3. \A q \in Requests : q # r => (apc[q] = "sync" => fmu' = fmu)
        BY <2>1
      <4>q. QED
        BY <4>1, <4>2, <4>3, PassedFrame
    <3>q. QED
      BY <1>0, <2>3, <2>4, <2>5, <3>1, <3>3, <3>4 DEF AInv, AuditTypeOK, SchemaFirst
  <2>6. CASE file' \in {file, Append(file, Torn(r))} /\ Fail(r, "file") /\ FileDone(r, FALSE)
    <3>1. /\ apc' = [apc EXCEPT ![r] = AfterFile] /\ AfterFile \in PastFile \ {"insert"}
          /\ failed' = [failed EXCEPT ![r] = @ \cup {"file"}] /\ "file" \in weak
          /\ fmu' = Nobody /\ logged' = logged \cup {r}
      BY <2>6 DEF Fail, FileDone, AGoto, AfterFile, AfterHttp, PastFile
    <3>2. Passed(r)'
      BY <1>0, <2>4, <3>1 DEF Passed, PastFile, PastHttp, AfterFile, AfterHttp
    <3>3. \A q \in Requests : q # r => Passed(q)'
      <4>1. \A q \in Requests : q # r => apc'[q] = apc[q] /\ failed'[q] = failed[q]
        BY <1>0, <3>1
      <4>2. OnlyAdds
        <5>1. sinks' = sinks /\ synced' = synced /\ collected' = collected /\ rows' = rows
          BY <2>4
        <5>2. logged \subseteq logged'
          BY <3>1
        <5>3. synced' \in Nat /\ synced' >= synced
          BY <1>0, <5>1
        <5>q. QED
          BY <1>0, <2>3, <5>1, <5>2, <5>3 DEF OnlyAdds
      <4>3. \A q \in Requests : q # r => (apc[q] = "sync" => fmu' = fmu)
        BY <2>1
      <4>q. QED
        BY <4>1, <4>2, <4>3, PassedFrame
    <3>4. AuditTypeOK'
      BY <1>0, <2>3, <2>4, <3>1 DEF AInv, AuditTypeOK, PastFile
    <3>q. QED
      BY <1>0, <2>4, <3>1, <3>2, <3>3, <3>4 DEF AInv, SchemaFirst, PastFile
  <2>q. QED
    BY <1>1, <2>5, <2>6 DEF FileWrite
<1>2. CASE FileSync(r)
  <2>1. \A q \in Requests : q # r => apc[q] # "sync"
    BY <1>2 DEF FileSync, AInv, Passed
  <2>2. UNCHANGED <<sinks, weak, file, collected, ensured, table, rows>> /\ apc[r] = "sync"
    BY <1>2 DEF FileSync
  <2>3. /\ apc' = [apc EXCEPT ![r] = AfterFile] /\ AfterFile \in PastFile \ {"insert"}
        /\ fmu' = Nobody /\ logged' = logged \cup {r}
    BY <1>2 DEF FileSync, FileDone, AGoto, AfterFile, AfterHttp, PastFile
  <2>4. \/ synced' = Len(file) /\ failed' = failed
        \/ synced' = synced /\ failed' = [failed EXCEPT ![r] = @ \cup {"file"}] /\ "file" \in weak
    BY <1>2 DEF FileSync, Pass, Fail
  <2>5. Among(r, Len(file))
    BY <1>0, <2>2 DEF Passed
  <2>6. "file" \notin failed'[r] => Among(r, synced)'
    BY <1>0, <2>2, <2>4, <2>5 DEF Among, Line
  <2>7. Passed(r)'
    BY <1>0, <2>2, <2>3, <2>4, <2>6 DEF Passed, PastFile, PastHttp, AfterFile, AfterHttp
  <2>8. \A q \in Requests : q # r => Passed(q)'
    <3>1. \A q \in Requests : q # r => apc'[q] = apc[q] /\ failed'[q] = failed[q]
      BY <1>0, <2>3, <2>4
    <3>2. OnlyAdds
      BY <1>0, <2>2, <2>3, <2>4 DEF OnlyAdds
    <3>3. \A q \in Requests : q # r => (apc[q] = "sync" => fmu' = fmu)
      BY <2>1
    <3>q. QED
      BY <3>1, <3>2, <3>3, PassedFrame
  <2>9. AuditTypeOK'
    <3>1. apc' \in [Requests -> {"off", "file", "sync", "http", "sql", "insert", "end"}]
      BY <1>0, <2>3 DEF PastFile
    <3>2. failed' \in [Requests -> SUBSET weak]
      BY <1>0, <2>4
    <3>3. synced' \in 0 .. Len(file)
      BY <1>0, <2>4
    <3>q. QED
      BY <2>2, <2>3, <3>1, <3>2, <3>3 DEF AInv, AuditTypeOK
  <2>q. QED
    BY <1>0, <2>2, <2>3, <2>7, <2>8, <2>9 DEF AInv, SchemaFirst, PastFile
<1>3. CASE HttpPost(r)
  <2>1. UNCHANGED <<sinks, weak, fmu, file, synced, logged, ensured, table, rows>> /\ apc[r] = "http"
    BY <1>3 DEF HttpPost
  <2>2. apc' = [apc EXCEPT ![r] = AfterHttp] /\ AfterHttp \in {"sql", "end"}
    BY <1>3 DEF HttpPost, AGoto, AfterHttp
  <2>3. /\ collected' \in {collected, collected \cup {r}}
        /\ \/ r \in collected' /\ failed' = failed
           \/ failed' = [failed EXCEPT ![r] = @ \cup {"http"}] /\ "http" \in weak
    BY <1>3 DEF HttpPost, Pass, Fail
  <2>4. Passed(r)'
    <3>1. "file" \notin failed'[r] => Among(r, synced)'
      BY <1>0, <2>1, <2>3 DEF Passed, PastFile, Among, Line
    <3>q. QED
      BY <1>0, <2>1, <2>2, <2>3, <3>1 DEF Passed, PastFile, PastHttp, AfterHttp
  <2>5. \A q \in Requests : q # r => Passed(q)'
    <3>1. \A q \in Requests : q # r => apc'[q] = apc[q] /\ failed'[q] = failed[q]
      BY <1>0, <2>2, <2>3
    <3>2. OnlyAdds
      BY <1>0, <2>1, <2>3 DEF OnlyAdds
    <3>3. \A q \in Requests : q # r => (apc[q] = "sync" => fmu' = fmu)
      BY <2>1
    <3>q. QED
      BY <3>1, <3>2, <3>3, PassedFrame
  <2>6. AuditTypeOK'
    BY <1>0, <2>1, <2>2, <2>3 DEF AInv, AuditTypeOK
  <2>q. QED
    BY <1>0, <2>1, <2>2, <2>4, <2>5, <2>6 DEF AInv, SchemaFirst
<1>4. CASE SqlSchema(r)
  <2>1. UNCHANGED <<sinks, weak, fmu, file, synced, logged, collected, rows>> /\ apc[r] = "sql"
    BY <1>4 DEF SqlSchema
  <2>2. /\ ensured' \in BOOLEAN /\ table' \in BOOLEAN /\ (table => table') /\ (ensured' => table')
        /\ \/ apc' = [apc EXCEPT ![r] = "insert"] /\ failed' = failed /\ table'
           \/ /\ apc' = [apc EXCEPT ![r] = "end"]
              /\ failed' = [failed EXCEPT ![r] = @ \cup {"sql"}] /\ "sql" \in weak
    <3>1. ensured \in BOOLEAN /\ table \in BOOLEAN /\ (ensured => table)
      BY DEF AInv, AuditTypeOK
    <3>2. CASE ensured /\ AGoto(r, "insert") /\ Pass(r) /\ UNCHANGED <<ensured, table>>
      BY <3>1, <3>2 DEF AGoto, Pass
    <3>3. CASE table' = TRUE /\ ensured' = TRUE /\ Pass(r) /\ AGoto(r, "insert")
      BY <3>3 DEF AGoto, Pass
    <3>4. CASE table' \in {table, TRUE} /\ Fail(r, "sql") /\ AGoto(r, "end") /\ UNCHANGED ensured
      <4>1. table' = table \/ table' = TRUE
        BY <3>4
      <4>2. table' \in BOOLEAN /\ (table => table') /\ (ensured' => table') /\ ensured' \in BOOLEAN
        <5>1. CASE table' = table
          BY <3>1, <3>4, <5>1
        <5>2. CASE table' = TRUE
          BY <3>1, <3>4, <5>2
        <5>q. QED
          BY <4>1, <5>1, <5>2
      <4>q. QED
        BY <3>4, <4>2 DEF AGoto, Fail
    <3>q. QED
      BY <1>4, <3>2, <3>3, <3>4 DEF SqlSchema
  <2>3. Passed(r)'
    <3>1. "file" \notin failed'[r] => Among(r, synced)'
      BY <1>0, <2>1, <2>2 DEF Passed, PastFile, Among, Line
    <3>q. QED
      BY <1>0, <2>1, <2>2, <3>1 DEF Passed, PastFile, PastHttp
  <2>4. \A q \in Requests : q # r => Passed(q)'
    <3>1. \A q \in Requests : q # r => apc'[q] = apc[q] /\ failed'[q] = failed[q]
      BY <1>0, <2>2
    <3>2. OnlyAdds
      BY <1>0, <2>1 DEF OnlyAdds
    <3>3. \A q \in Requests : q # r => (apc[q] = "sync" => fmu' = fmu)
      BY <2>1
    <3>q. QED
      BY <3>1, <3>2, <3>3, PassedFrame
  <2>5. AuditTypeOK'
    BY <1>0, <2>1, <2>2 DEF AInv, AuditTypeOK
  <2>q. QED
    BY <1>0, <2>1, <2>2, <2>3, <2>4, <2>5 DEF AInv, SchemaFirst
<1>5. CASE SqlInsert(r)
  <2>1. /\ UNCHANGED <<sinks, weak, fmu, file, synced, logged, collected, ensured, table>>
        /\ apc[r] = "insert" /\ apc' = [apc EXCEPT ![r] = "end"]
    BY <1>5 DEF SqlInsert, AGoto
  <2>2. /\ rows' \in {rows, rows \cup {r}}
        /\ \/ r \in rows' /\ failed' = failed
           \/ failed' = [failed EXCEPT ![r] = @ \cup {"sql"}] /\ "sql" \in weak
    BY <1>5 DEF SqlInsert, Pass, Fail
  <2>3. Passed(r)'
    <3>1. "file" \notin failed'[r] => Among(r, synced)'
      BY <1>0, <2>1, <2>2 DEF Passed, PastFile, Among, Line
    <3>q. QED
      BY <1>0, <2>1, <2>2, <3>1 DEF Passed, PastFile, PastHttp
  <2>4. \A q \in Requests : q # r => Passed(q)'
    <3>1. \A q \in Requests : q # r => apc'[q] = apc[q] /\ failed'[q] = failed[q]
      BY <1>0, <2>1, <2>2
    <3>2. OnlyAdds
      BY <1>0, <2>1, <2>2 DEF OnlyAdds
    <3>3. \A q \in Requests : q # r => (apc[q] = "sync" => fmu' = fmu)
      BY <2>1
    <3>q. QED
      BY <3>1, <3>2, <3>3, PassedFrame
  <2>5. AuditTypeOK'
    BY <1>0, <2>1, <2>2 DEF AInv, AuditTypeOK
  <2>q. QED
    BY <1>0, <2>1, <2>3, <2>4, <2>5 DEF AInv, SchemaFirst
<1>q. QED
  BY <1>1, <1>2, <1>3, <1>4, <1>5 DEF AuditStep

\* A crash of the process or of the machine keeps it.
LEMMA CrashAInv == AInv /\ AuditCrash => AInv'
<1> SUFFICES ASSUME AInv, AuditCrash PROVE AInv'
  OBVIOUS
<1>1. /\ UNCHANGED <<sinks, weak, failed, logged, collected, table, rows>>
      /\ apc' = [r \in Requests |-> IF Recorded(r) THEN "end" ELSE "off"]
      /\ fmu' = Nobody /\ ensured' = FALSE /\ synced' = Len(file')
  BY DEF AuditCrash
<1>2. /\ file' \in Seq(Pieces) /\ Len(file') >= synced /\ Len(file') \in Nat
      /\ \A i \in 1 .. synced : file'[i] = file[i]
  BY CrashKeeps DEF AuditCrash, AInv
<1>3. AuditTypeOK'
  <2>1. synced' \in 0 .. Len(file')
    BY <1>1, <1>2
  <2>2. apc' \in [Requests -> {"off", "file", "sync", "http", "sql", "insert", "end"}]
    BY <1>1
  <2>3. ensured' \in BOOLEAN /\ table' \in BOOLEAN
    BY <1>1 DEF AInv, AuditTypeOK
  <2>q. QED
    BY <1>1, <1>2, <2>1, <2>2, <2>3 DEF AInv, AuditTypeOK
<1>4. ASSUME NEW r \in Requests PROVE Passed(r)' /\ apc'[r] # "insert"
  <2>1. Among(r, synced) => Among(r, synced)'
    BY <1>1, <1>2 DEF Among, Line, AInv, AuditTypeOK
  <2>q. QED
    BY <1>1, <2>1 DEF AInv, Passed, PastFile, PastHttp, Recorded
<1>q. QED
  BY <1>1, <1>3, <1>4 DEF AInv, SchemaFirst

\* Every step of a Record, and a crash, keeps what is behind it.
LEMMA NextAInv == AInv /\ [AuditNext]_auditVars => AInv'
<1> SUFFICES ASSUME AInv, [AuditNext]_auditVars PROVE AInv'
  OBVIOUS
<1>1. ASSUME NEW r \in Requests, apc[r] = "off", RecordStarts(r),
             UNCHANGED <<sinks, weak, failed, sinkVars>>
      PROVE  AInv'
  <2>1. apc' = [apc EXCEPT ![r] = "file"]
    BY <1>1 DEF RecordStarts, AGoto
  <2>2. UNCHANGED <<fmu, file, synced, logged, collected, ensured, table, rows>>
    BY <1>1 DEF sinkVars
  <2>3. \A q \in Requests : Passed(q)'
    BY <1>1, <2>1, <2>2 DEF AInv, AuditTypeOK, Passed, PastFile, PastHttp, Among, Line
  <2>q. QED
    BY <1>1, <2>1, <2>2, <2>3 DEF AInv, AuditTypeOK, SchemaFirst
<1>2. CASE UNCHANGED auditVars
  BY <1>2 DEF auditVars, sinkVars, AInv, AuditTypeOK, SchemaFirst, Passed, Among, Line
<1>q. QED
  BY <1>1, <1>2, StepAInv, CrashAInv DEF AuditNext

-----------------------------------------------------------------------------

\* The inductive invariant holds of every state of the sinks.
THEOREM AuditInvariance == AuditSpec => []AInv
BY InitAInv, NextAInv, PTL DEF AuditSpec

\* A line that JSONLLogger.Record has acknowledged is in the file for good.
THEOREM AcksAreDurable == AuditSpec => []AckedIsDurable
<1>1. AInv => AckedIsDurable
  BY SMTT(20) DEF AInv, AuditTypeOK, AckedIsDurable, Recorded, Passed, PastFile, Among, Range
<1>q. QED
  BY <1>1, AuditInvariance, PTL

\* Fanout.Record has tried every configured sink, whatever failed.
THEOREM FanoutIsComplete == AuditSpec => []FanoutReachesAll
<1>1. AInv => FanoutReachesAll
  BY DEF AInv, FanoutReachesAll, Recorded, Passed, PastFile, PastHttp
<1>q. QED
  BY <1>1, AuditInvariance, PTL

\* No SQLSink inserts before the table exists, despite the race on ensured.
THEOREM SchemaComesFirst == AuditSpec => []SchemaFirst
<1>1. AInv => SchemaFirst
  BY DEF AInv
<1>q. QED
  BY <1>1, AuditInvariance, PTL

\* The mutex of the file is never leaked: every path out of Record unlocks it.
THEOREM FileLockReturned == AuditSpec => []FileLockHeld
<1>1. AuditStart => FileLockHeld
  BY DEF AuditStart, AuditInit, FileLockHeld
<1>2. AInv /\ FileLockHeld /\ [AuditNext]_auditVars => FileLockHeld'
  <2> SUFFICES ASSUME AInv, FileLockHeld, [AuditNext]_auditVars PROVE FileLockHeld'
    OBVIOUS
  <2> USE DEF FileLockHeld
  <2>t. apc \in [Requests -> {"off", "file", "sync", "http", "sql", "insert", "end"}]
    BY DEF AInv, AuditTypeOK
  <2>m. fmu \in Requests \cup {Nobody}
    BY DEF AInv, AuditTypeOK
  <2>1. CASE fmu' = Nobody
    BY <2>1
  <2>2. ASSUME NEW r \in Requests, apc[r] # "sync", fmu' = fmu, NEW l, AGoto(r, l)
        PROVE  FileLockHeld'
    <3>1. fmu # Nobody => fmu \in Requests /\ fmu # r
      BY <2>2, <2>m
    <3>q. QED
      BY <3>1, <2>2, <2>t DEF AGoto
  <2>3. ASSUME NEW r \in Requests, fmu' = r, AGoto(r, "sync") PROVE FileLockHeld'
    BY <2>3, <2>t DEF AGoto
  <2>4. ASSUME NEW r \in Requests, FileWrite(r) PROVE FileLockHeld'
    BY <2>4, <2>1, <2>3 DEF FileWrite, FileDone
  <2>5. ASSUME NEW r \in Requests, FileSync(r) PROVE FileLockHeld'
    BY <2>5, <2>1 DEF FileSync, FileDone
  <2>6. ASSUME NEW r \in Requests, HttpPost(r) PROVE FileLockHeld'
    BY <2>6, <2>2 DEF HttpPost
  <2>7. ASSUME NEW r \in Requests, SqlSchema(r) PROVE FileLockHeld'
    <3>1. apc[r] # "sync" /\ fmu' = fmu /\ (AGoto(r, "insert") \/ AGoto(r, "end"))
      BY <2>7 DEF SqlSchema
    <3>q. QED
      BY <3>1, <2>2
  <2>8. ASSUME NEW r \in Requests, SqlInsert(r) PROVE FileLockHeld'
    BY <2>8, <2>2 DEF SqlInsert
  <2>9. ASSUME NEW r \in Requests, apc[r] = "off", RecordStarts(r), UNCHANGED sinkVars
        PROVE  FileLockHeld'
    BY <2>9, <2>2 DEF RecordStarts, sinkVars
  <2>10. CASE AuditCrash
    BY <2>10, <2>1 DEF AuditCrash
  <2>11. CASE UNCHANGED auditVars
    BY <2>11 DEF auditVars, sinkVars
  <2>q. QED
    BY <2>4, <2>5, <2>6, <2>7, <2>8, <2>9, <2>10, <2>11 DEF AuditNext, AuditStep
<1>q. QED
  BY <1>1, <1>2, AuditInvariance, PTL DEF AuditSpec
=============================================================================
