------------------------------- MODULE Jwks -------------------------------
(***************************************************************************)
(* JWTVerifier (internal/api/jwt.go): the cache of the signing keys that   *)
(* an identity provider publishes as a JWKS document.  Every verification  *)
(* takes the mutex of the cache, and the one that finds it empty or older  *)
(* than the TTL fetches the document while it holds the mutex.  The        *)
(* provider rotates its keys at any time, also between serving a document  *)
(* and its arrival.  Time is the one event that matters: the TTL passes.   *)
(***************************************************************************)
EXTENDS HttpRequests

CONSTANTS Kids,  \* the kids of RSA signing keys; a key is known by its kid
          NoKid  \* the empty kid, which a key of the provider may have too

ASSUME KidsFinite == IsFiniteSet(Kids) /\ Kids # {}

VARIABLES published,  \* usable RSA keys in the provider's document
          keys,       \* v.keys, empty for nil
          fresh,      \* time.Since(v.fetched) <= ttl
          mu,         \* v.mu
          doc,        \* the document on its way to the holder of the mutex
          vpc,        \* where the verification of a request is
          tok,        \* the token: the kid of its header, the key that signed it
          verdict,    \* what Valid returned
          late,       \* history: keys withdrawn when the TTL last passed, and since
          settled     \* history: keys published when the TTL last passed, and since

callVars  == <<vpc, tok, verdict>>
cacheVars == <<keys, fresh, mu, doc>>
idpVars   == <<published, late, settled>>
jwksVars  == <<callVars, cacheVars, idpVars>>

Tokens == [kid : Kids \cup {NoKid}, signer : Kids]
AnyTok == CHOOSE t \in Tokens : TRUE

\* A nil cache counts as one whose TTL has just passed.
JwksInit ==
  /\ published \in SUBSET Kids
  /\ late = Kids \ published /\ settled = published
  /\ keys = {} /\ fresh = FALSE /\ mu = Nobody /\ doc = {}
  /\ vpc = [r \in Requests |-> "out"]
  /\ tok = [r \in Requests |-> AnyTok]
  /\ verdict = [r \in Requests |-> FALSE]

VGoto(r, label) == vpc' = [vpc EXCEPT ![r] = label]

-----------------------------------------------------------------------------
(* The provider and the clock.                                             *)

Rotate ==
  /\ published' \in SUBSET Kids \ {published}
  /\ late' = late \ published' /\ settled' = settled \cap published'
  /\ UNCHANGED <<callVars, cacheVars>>

TtlPasses ==
  /\ fresh
  /\ fresh' = FALSE
  /\ late' = Kids \ published /\ settled' = published
  /\ UNCHANGED <<callVars, keys, mu, doc, published>>

-----------------------------------------------------------------------------
(* Valid, key and refreshLocked.                                           *)

\* authorize calls Valid with the token of the request.
Verify(r, t) ==
  /\ vpc[r] = "out"
  /\ tok' = [tok EXCEPT ![r] = t]
  /\ VGoto(r, "claims")
  /\ UNCHANGED <<verdict, cacheVars, idpVars>>

\* Algorithm, exp, nbf, iss and aud: read before the key is known.
CheckClaims(r) ==
  /\ vpc[r] = "claims"
  /\ \/ VGoto(r, "lock")
     \/ VGoto(r, "done")
  /\ UNCHANGED <<tok, verdict, cacheVars, idpVars>>

\* The key that a header selects: without a kid, the only key there is.
Selected(ks, kid) == IF kid = NoKid /\ Cardinality(ks) = 1 THEN ks ELSE ks \cap {kid}

\* The lookup in ks, the deferred Unlock and the signature.
Conclude(r, ks) ==
  /\ verdict' = [verdict EXCEPT ![r] = tok[r].signer \in Selected(ks, tok[r].kid)]
  /\ mu' = Nobody
  /\ VGoto(r, "done")

\* [mutant] the age is looked at without the mutex.
LockFree(r) ==
  /\ vpc[r] = "lock"
  /\ IF keys # {} /\ fresh
     THEN Conclude(r, keys)
     ELSE mu' = r /\ VGoto(r, "get") /\ UNCHANGED verdict
  /\ UNCHANGED <<tok, keys, fresh, doc, idpVars>>

\* v.mu.Lock() and the test of the age.  A cache that is good is used at once.
Lock(r) ==
  /\ vpc[r] = "lock"
  /\ mu = Nobody
  /\ IF keys # {} /\ fresh
     THEN Conclude(r, keys)
     ELSE mu' = r /\ VGoto(r, "get") /\ UNCHANGED verdict
  /\ UNCHANGED <<tok, keys, fresh, doc, idpVars>>

\* The provider serves its document.
Serve(r) ==
  /\ vpc[r] = "get"
  /\ doc' = published
  /\ VGoto(r, "install")
  /\ UNCHANGED <<tok, verdict, keys, fresh, mu, idpVars>>

\* [mutant] a failed refresh counts as one, until the TTL passes again.
GetFailsQuietly(r) ==
  /\ vpc[r] \in {"get", "install"}
  /\ fresh' = (keys # {})
  /\ Conclude(r, keys)
  /\ UNCHANGED <<tok, keys, doc, idpVars>>

\* [mutant] the mutex stays locked when the fetch fails.
GetFailsLocked(r) ==
  /\ vpc[r] \in {"get", "install"}
  /\ VGoto(r, "done")
  /\ UNCHANGED <<tok, verdict, cacheVars, idpVars>>

\* No answer within five seconds, another status, bytes that do not decode, no RSA
\* key in the document: the old keys decide, if there are any.
GetFails(r) ==
  /\ vpc[r] \in {"get", "install"}
  /\ Conclude(r, keys)
  /\ UNCHANGED <<tok, keys, fresh, doc, idpVars>>

\* [mutant] new keys are added to the ones in the cache.
InstallMerges(r) ==
  /\ vpc[r] = "install"
  /\ doc # {}
  /\ keys' = keys \cup doc /\ fresh' = TRUE
  /\ Conclude(r, keys \cup doc)
  /\ UNCHANGED <<tok, doc, idpVars>>

\* The document arrived: its keys replace the cache.
Install(r) ==
  /\ vpc[r] = "install"
  /\ doc # {}
  /\ keys' = doc /\ fresh' = TRUE
  /\ Conclude(r, doc)
  /\ UNCHANGED <<tok, doc, idpVars>>

\* warden is started again: no cache, and the calls in flight are gone.
JwksCrash ==
  /\ keys' = {} /\ fresh' = FALSE /\ mu' = Nobody /\ doc' = {}
  /\ late' = Kids \ published /\ settled' = published
  /\ vpc' = [r \in Requests |-> IF vpc[r] = "done" THEN "done" ELSE "out"]
  /\ UNCHANGED <<published, tok, verdict>>

JwksStep(r) ==
  CheckClaims(r) \/ Lock(r) \/ Serve(r) \/ GetFails(r) \/ Install(r)

JwksNext ==
  \/ Rotate \/ TtlPasses \/ JwksCrash
  \/ \E r \in Requests : JwksStep(r) \/ \E t \in Tokens : Verify(r, t)

JwksSpec == JwksInit /\ [][JwksNext]_jwksVars

-----------------------------------------------------------------------------
(* Properties.                                                             *)

Fetching == {"get", "install"}

\* Every variable has its type; who fetches holds the mutex.
JwksTypeOK ==
  /\ {published, keys, doc, late, settled} \subseteq SUBSET Kids
  /\ fresh \in BOOLEAN
  /\ mu \in Requests \cup {Nobody}
  /\ vpc \in [Requests -> {"out", "claims", "lock", "done"} \cup Fetching]
  /\ tok \in [Requests -> Tokens]
  /\ verdict \in [Requests -> BOOLEAN]
  /\ \A r \in Requests : vpc[r] \in Fetching => mu = r

\* "v.keys == nil || time.Since(v.fetched) > ttl" (jwt.go) is tested under the
\* mutex: those who waited for a fetch use what it brought and do not fetch again.
FetchOnlyStale == \A r \in Requests : vpc[r] \in Fetching => ~fresh

\* The deferred Unlock (jwt.go): the mutex is held only by a verification that is
\* fetching, so those who wait for it wait for a call with a timeout.
KeysLockHeld == mu # Nobody => vpc[mu] \in Fetching

Concludes(r) == vpc[r] \in {"lock"} \cup Fetching /\ vpc'[r] = "done"

\* The cache is at most one TTL old unless the provider cannot be reached: a key
\* that was already withdrawn when the TTL passed verifies a token only if the
\* refresh in this very verification fails, and leaves the cache stale.
RetiredKeyRefused ==
  [][\A r \in Requests :
       Concludes(r) /\ verdict'[r] /\ tok[r].signer \in late => ~fresh']_jwksVars

\* The other direction of a rotation: a key that is published since the TTL last
\* passed verifies the tokens that name it, unless the refresh fails.  (Before
\* that a new key is unknown: key does not refresh for an unknown kid.)
PublishedKeyAccepted ==
  [][\A r \in Requests :
       Concludes(r) /\ ~verdict'[r] /\ tok[r].signer = tok[r].kid /\ tok[r].signer \in settled
         => ~fresh']_jwksVars
=============================================================================
