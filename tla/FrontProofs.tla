---------------------------- MODULE FrontProofs ----------------------------
(***************************************************************************)
(* Proofs about module Front, for every set of requests, keys and          *)
(* scenarios.  The front leaves the key cache and the sinks to their own   *)
(* steps, so what FrontPartsProofs shows of them holds in the              *)
(* composition; a request that gets a microVM was admitted under the       *)
(* configuration that CheckBindPolicy accepted; and an answer tells        *)
(* whether there is an event of the request.                               *)
(***************************************************************************)
EXTENDS Front, FrontPartsProofs

\* The configuration never changes.
CfgOK == cfg \in Scenarios /\ up = CheckBind(cfg)

\* No handler and no fault touches what main has read from the environment.
LEMMA CfgFixed == [Next]_vars => UNCHANGED <<cfg, up>>
BY DEF Next, vars, frontVars, Arrive, HandlerStep, Authorize, RunBoots, RunReturns, Panics,
       Respond, others, Component, Environment, Crash

\* What serves is a configuration that CheckBindPolicy accepts.
LEMMA CfgInvariant == Spec => []CfgOK
<1>1. FrontInit => CfgOK
  BY DEF FrontInit, CfgOK
<1>2. CfgOK /\ [Next]_vars => CfgOK'
  <2> SUFFICES ASSUME CfgOK, [Next]_vars PROVE CfgOK'
    OBVIOUS
  <2>1. cfg' = cfg /\ up' = up
    BY CfgFixed
  <2>q. QED
    BY <2>1 DEF CfgOK, CheckBind
<1>q. QED
  BY <1>1, <1>2, PTL DEF Spec

\* The token that tokenFromRequest takes out of a request.
LEMMA TokenType ==
  ASSUME NEW q \in Reqs
  PROVE  /\ TokenFrom(q) \in Creds
         /\ TokenFrom(q).form = "jwt" => TokenFrom(q).tok \in Tokens
                                         /\ TokenFrom(q) = [form |-> "jwt", tok |-> TokenFrom(q).tok]
         /\ TokenFrom(q).form = "apikey" => TokenFrom(q) = Opaque("apikey")
         /\ TokenFrom(q) \in {q.x, q.b}
<1>1. q.x \in Creds /\ q.b \in Creds
  BY DEF Reqs
<1>2. TokenFrom(q) \in {q.x, q.b}
  BY DEF TokenFrom
<1>3. \A c \in Creds : c.form = "jwt" => c.tok \in Tokens /\ c = [form |-> "jwt", tok |-> c.tok]
  BY DEF Creds, NoCred, Opaque
<1>4. \A c \in Creds : c.form = "apikey" => c = Opaque("apikey")
  BY DEF Creds, NoCred, Opaque
<1>q. QED
  BY <1>1, <1>2, <1>3, <1>4

\* Every step of the front is a step of the key cache or leaves it alone.
LEMMA NextJwks == CfgOK /\ [Next]_vars => [JwksNext]_jwksVars
<1> SUFFICES ASSUME CfgOK, [Next]_vars PROVE [JwksNext]_jwksVars
  OBVIOUS
<1>1. ASSUME NEW r \in Requests, NEW q \in cfg.reqs, Arrive(r, q) PROVE [JwksNext]_jwksVars
  <2>1. q \in Reqs
    BY ScenarioTypes DEF CfgOK
  <2>2. CASE UNCHANGED jwksVars
    BY <2>2
  <2>3. CASE TokenFrom(q).form = "jwt" /\ Verify(r, TokenFrom(q).tok)
    BY <2>1, <2>3, TokenType DEF JwksNext
  <2>q. QED
    BY <1>1, <2>2, <2>3 DEF Arrive
<1>2. ASSUME NEW r \in Requests, HandlerStep(r) PROVE UNCHANGED jwksVars
  BY <1>2 DEF HandlerStep, Authorize, RunBoots, RunReturns, Panics, Respond, others
<1>3. ASSUME NEW r \in Requests, Component(r) PROVE [JwksNext]_jwksVars
  BY <1>3 DEF Component, JwksNext
<1>4. CASE Environment \/ Crash
  BY <1>4 DEF Environment, Crash, JwksNext
<1>5. CASE UNCHANGED vars
  BY <1>5 DEF vars
<1>q. QED
  BY <1>1, <1>2, <1>3, <1>4, <1>5 DEF Next

\* The composition implements the key cache (middleware, authorize and restarts
\* never touch JWTVerifier's state).
THEOREM FrontImplementsJwks == Spec => JwksSpec
<1>1. FrontInit => JwksInit
  BY DEF FrontInit
<1>q. QED
  BY <1>1, NextJwks, CfgInvariant, PTL DEF Spec, JwksSpec

-----------------------------------------------------------------------------
(* Who gets a microVM.                                                     *)

\* What ties the handler of r to its verification: the verifier works only while
\* the handler waits in authorize, on the token of this request, and what admitted
\* r does not change afterwards.
Own(r) ==
  /\ fpc[r] = "idle" => vpc[r] = "out" /\ ~verdict[r]
  /\ fpc[r] # "idle" => up
  /\ fpc[r] \in {"idle", "auth"} => ~booted[r]
  /\ vpc[r] \notin {"out", "done"} => fpc[r] = "auth"
  /\ vpc[r] # "out" => cfg.jwt /\ TokenFrom(req[r]) = [form |-> "jwt", tok |-> tok[r]]
  /\ verdict[r] => vpc[r] = "done"
  /\ fpc[r] \in {"run", "vm"} \/ booted[r] => Admits(r)

FTypes ==
  /\ fpc \in [Requests -> FPCs]
  /\ req \in [Requests -> Reqs]
  /\ booted \in [Requests -> BOOLEAN]

FInv == CfgOK /\ FTypes /\ JwksTypeOK /\ \A r \in Requests : Own(r)

ofRequest(r) == <<fpc[r], req[r], booted[r], vpc[r], tok[r], verdict[r]>>

\* What a step leaves alone keeps its invariant.
LEMMA Frame ==
  ASSUME NEW r \in Requests, Own(r), UNCHANGED <<cfg, up>>, UNCHANGED ofRequest(r)
  PROVE  Own(r)'
BY DEF ofRequest, Own, Admits, keyOK, jwtOK, mtlsOK, TokenFrom

\* The step of one request leaves the others alone.
LEMMA OthersFramed ==
  ASSUME FInv, NEW r \in Requests, NEW q \in Requests, q # r,
         (\E p \in cfg.reqs : Arrive(r, p)) \/ HandlerStep(r) \/ Component(r)
  PROVE  UNCHANGED ofRequest(q)
<1> USE DEF FInv, FTypes, JwksTypeOK, ofRequest
<1>1. ASSUME NEW p \in cfg.reqs, Arrive(r, p) PROVE UNCHANGED ofRequest(q)
  <2>1. UNCHANGED <<fpc[q], req[q], booted[q]>>
    BY <1>1 DEF Arrive, Answers, FGoto
  <2>2. UNCHANGED <<vpc[q], tok[q], verdict[q]>>
    BY <1>1 DEF Arrive, Verify, VGoto, jwksVars, callVars
  <2>q. QED
    BY <2>1, <2>2
<1>2. CASE HandlerStep(r)
  <2>1. UNCHANGED <<req, vpc, tok, verdict>>
    BY <1>2 DEF HandlerStep, Authorize, RunBoots, RunReturns, Panics, Respond, others, jwksVars, callVars
  <2>2. UNCHANGED fpc[q]
    BY <1>2 DEF HandlerStep, Authorize, RunBoots, RunReturns, Panics, Respond, Handle, Answers, AuditsThen, FGoto
  <2>3. UNCHANGED booted[q]
    BY <1>2 DEF HandlerStep, Authorize, RunBoots, RunReturns, Panics, Respond
  <2>q. QED
    BY <2>1, <2>2, <2>3
<1>3. CASE Component(r)
  <2>1. UNCHANGED <<fpc, req, booted>>
    BY <1>3 DEF Component, frontVars
  <2>2. UNCHANGED <<vpc[q], tok[q], verdict[q]>>
    BY <1>3 DEF Component, JwksStep, CheckClaims, Lock, Serve, GetFails, Install, Conclude, VGoto,
                jwksVars, callVars
  <2>q. QED
    BY <2>1, <2>2
<1>q. QED
  BY <1>1, <1>2, <1>3

\* The step of a request keeps its own part.
LEMMA OwnStep ==
  ASSUME FInv, JwksTypeOK', UNCHANGED <<cfg, up>>, NEW r \in Requests,
         (\E p \in cfg.reqs : Arrive(r, p)) \/ HandlerStep(r) \/ Component(r)
  PROVE  Own(r)' /\ FTypes'
<1> USE DEF FInv, FTypes, JwksTypeOK
<1>1. ASSUME NEW p \in cfg.reqs, Arrive(r, p) PROVE Own(r)' /\ FTypes'
  <2>1. p \in Reqs
    BY ScenarioTypes DEF CfgOK
  <2>2. up /\ fpc[r] = "idle" /\ vpc[r] = "out" /\ ~verdict[r] /\ ~booted[r]
    BY <1>1 DEF Arrive, Own
  <2>3. req' = [req EXCEPT ![r] = p] /\ booted' = booted
    BY <1>1 DEF Arrive
  <2>4. /\ fpc'[r] \in {"done", "auth"} /\ FTypes'
        /\ fpc'[r] = "done" => UNCHANGED jwksVars
    <3>1. PICK l \in {"done", "auth"} :
            fpc' = [fpc EXCEPT ![r] = l] /\ (l = "done" => UNCHANGED jwksVars)
      BY <1>1 DEF Arrive, Answers, FGoto
    <3>2. l \in FPCs
      BY DEF FPCs
    <3>3. fpc' \in [Requests -> FPCs] /\ fpc'[r] = l
      BY <3>1, <3>2
    <3>4. req' \in [Requests -> Reqs] /\ booted' \in [Requests -> BOOLEAN]
      BY <2>1, <2>3
    <3>q. QED
      BY <3>1, <3>3, <3>4
  <2>5. CASE UNCHANGED jwksVars
    BY <2>2, <2>3, <2>4, <2>5 DEF Own, jwksVars, callVars
  <2>6. CASE cfg.jwt /\ TokenFrom(p).form = "jwt" /\ Verify(r, TokenFrom(p).tok) /\ FGoto(r, "auth")
    <3>1. vpc'[r] = "claims" /\ tok'[r] = TokenFrom(p).tok /\ ~verdict'[r] /\ fpc'[r] = "auth"
      <4>1. /\ vpc' = [vpc EXCEPT ![r] = "claims"] /\ tok' = [tok EXCEPT ![r] = TokenFrom(p).tok]
            /\ verdict' = verdict /\ fpc' = [fpc EXCEPT ![r] = "auth"]
        BY <2>6 DEF Verify, VGoto, FGoto
      <4>q. QED
        BY <2>2, <4>1, SMTT(20)
    <3>2. TokenFrom(req'[r]) = [form |-> "jwt", tok |-> tok'[r]]
      BY <2>1, <2>3, <2>6, <3>1, TokenType
    <3>q. QED
      BY <2>2, <2>3, <2>4, <2>6, <3>1, <3>2 DEF Own, TokenFrom
  <2>q. QED
    BY <1>1, <2>5, <2>6 DEF Arrive
<1>2. CASE HandlerStep(r)
  <2>1. UNCHANGED <<req, vpc, tok, verdict>>
    BY <1>2 DEF HandlerStep, Authorize, RunBoots, RunReturns, Panics, Respond, others, jwksVars, callVars
  <2>2. Admits(r)' <=> Admits(r)
    BY <2>1 DEF Admits, keyOK, jwtOK, mtlsOK, TokenFrom
  <2>3. CASE Authorize(r)
    <3>1. /\ fpc[r] = "auth" /\ vpc[r] \in {"out", "done"} /\ booted' = booted
          /\ fpc' \in [Requests -> FPCs] /\ fpc'[r] \in {"audit", "done", "run"}
          /\ fpc'[r] = "run" => Admits(r)
      <4>1. fpc[r] = "auth" /\ vpc[r] \in {"out", "done"} /\ booted' = booted
        BY <2>3 DEF Authorize
      <4>2. PICK l \in {"audit", "done", "run"} : fpc' = [fpc EXCEPT ![r] = l] /\ (l = "run" => Admits(r))
        BY <2>3 DEF Authorize, Handle, Answers, AuditsThen, FGoto
      <4>3. l \in FPCs
        BY DEF FPCs
      <4>q. QED
        BY <4>1, <4>2, <4>3
    <3>q. QED
      BY <2>1, <2>2, <3>1 DEF Own
  <2>4. CASE RunBoots(r)
    BY <2>1, <2>2, <2>4 DEF RunBoots, FGoto, FPCs, Own
  <2>5. CASE RunReturns(r) \/ Panics(r) \/ Respond(r)
    <3>1. /\ fpc[r] \in {"run", "vm", "audit"} /\ booted' = booted
          /\ fpc' \in [Requests -> FPCs] /\ fpc'[r] \in {"audit", "done"}
      BY <2>5 DEF RunReturns, Panics, Respond, Answers, AuditsThen, FGoto, FPCs
    <3>q. QED
      BY <2>1, <2>2, <3>1 DEF Own
  <2>q. QED
    BY <1>2, <2>3, <2>4, <2>5 DEF HandlerStep
<1>3. CASE Component(r)
  <2>1. UNCHANGED <<fpc, req, booted>>
    BY <1>3 DEF Component, frontVars
  <2>2. CASE UNCHANGED jwksVars
    BY <2>1, <2>2, Frame DEF ofRequest, jwksVars, callVars
  <2>3. CASE JwksStep(r)
    <3>1. vpc[r] \notin {"out", "done"} /\ fpc[r] = "auth" /\ UNCHANGED tok
      BY <2>3 DEF JwksStep, CheckClaims, Lock, Serve, GetFails, Install, Own
    <3>2. vpc'[r] # "out" /\ (vpc'[r] = "done" \/ verdict'[r] = verdict[r])
      BY <2>3 DEF JwksStep, CheckClaims, Lock, Serve, GetFails, Install, Conclude, VGoto
    <3>q. QED
      BY <2>1, <3>1, <3>2 DEF Own, TokenFrom
  <2>q. QED
    BY <1>3, <2>2, <2>3 DEF Component
<1>q. QED
  BY <1>1, <1>2, <1>3

\* Nothing is booted, and no verdict is in, when main starts to serve.
LEMMA InitFInv == FrontInit => FInv
<1> SUFFICES ASSUME FrontInit PROVE FInv
  OBVIOUS
<1>1. CfgOK /\ JwksTypeOK
  BY InitIInv DEF FrontInit, CfgOK, IInv
<1>2. NoReq \in Reqs
  BY DEF NoReq, Reqs, Creds, Bodies
<1>3. FTypes
  BY <1>2 DEF FrontInit, FTypes, FPCs
<1>4. \A r \in Requests : Own(r)
  BY DEF FrontInit, JwksInit, Own
<1>q. QED
  BY <1>1, <1>3, <1>4 DEF FInv

\* No step of a handler, of the cache, of a sink or of a crash lets an
\* unadmitted request through.
LEMMA NextFInv == FInv /\ [Next]_vars /\ JwksTypeOK' => FInv'
<1> SUFFICES ASSUME FInv, [Next]_vars, JwksTypeOK' PROVE FInv'
  OBVIOUS
<1>1. UNCHANGED <<cfg, up>> /\ CfgOK'
  BY CfgFixed DEF FInv, CfgOK, CheckBind
<1>2. ASSUME NEW r \in Requests,
             (\E p \in cfg.reqs : Arrive(r, p)) \/ HandlerStep(r) \/ Component(r)
      PROVE  FInv'
  <2>1. Own(r)' /\ FTypes'
    BY <1>1, <1>2, OwnStep
  <2>2. \A q \in Requests : q # r => Own(q)'
    BY <1>1, <1>2, OthersFramed, Frame DEF FInv
  <2>q. QED
    BY <1>1, <2>1, <2>2 DEF FInv
<1>3. CASE Environment
  <2>1. UNCHANGED <<fpc, req, booted, vpc, tok, verdict>>
    BY <1>3 DEF Environment, Rotate, TtlPasses, frontVars, callVars
  <2>q. QED
    BY <1>1, <2>1, Frame DEF FInv, FTypes, ofRequest
<1>4. CASE Crash
  <2>1. UNCHANGED <<req, booted, tok, verdict>>
    BY <1>4 DEF Crash, JwksCrash
  <2>2. /\ fpc' = [r \in Requests |-> IF fpc[r] \in {"idle", "done"} THEN fpc[r] ELSE "lost"]
        /\ vpc' = [r \in Requests |-> IF vpc[r] = "done" THEN "done" ELSE "out"]
    BY <1>4 DEF Crash, JwksCrash
  <2>3. ASSUME NEW r \in Requests PROVE Own(r)' /\ fpc'[r] \in FPCs
    <3>1. Admits(r)' <=> Admits(r)
      BY <1>1, <2>1 DEF Admits, keyOK, jwtOK, mtlsOK, TokenFrom
    <3>2. Own(r) /\ fpc[r] \in FPCs
      BY DEF FInv, FTypes
    <3>q. QED
      BY <1>1, <2>1, <2>2, <3>1, <3>2 DEF Own, TokenFrom, FPCs
  <2>q. QED
    BY <1>1, <2>1, <2>2, <2>3 DEF FInv, FTypes
<1>5. CASE UNCHANGED vars
  <2>1. UNCHANGED <<fpc, req, booted, vpc, tok, verdict>>
    BY <1>5 DEF vars, frontVars, jwksVars, callVars
  <2>q. QED
    BY <1>1, <2>1, Frame DEF FInv, FTypes, ofRequest
<1>q. QED
  BY <1>2, <1>3, <1>4, <1>5 DEF Next

\* The admission invariant, with the types of the key cache from FrontPartsProofs.
THEOREM Admission == Spec => []FInv
<1>1. Spec => []JwksTypeOK
  BY FrontImplementsJwks, TypeCorrect, PTL
<1>q. QED
  BY <1>1, InitFInv, NextFInv, PTL DEF Spec

\* No microVM without the configured credentials (main, CheckBindPolicy and
\* authorize), under every configuration.
THEOREM FailsClosed == Spec => []FailClosed
<1>1. FInv => FailClosed
  <2> SUFFICES ASSUME FInv, NEW r \in Requests, booted[r]
               PROVE  LET apikey == cfg.key /\ Presents(r, Opaque("apikey"))
                          jwt == cfg.jwt /\ verdict[r] /\ Presents(r, [form |-> "jwt", tok |-> tok[r]])
                      IN /\ apikey \/ jwt \/ cfg.mtls \/ (~cfg.key /\ ~cfg.jwt /\ (cfg.anon \/ ~cfg.public))
                         /\ cfg.all => (cfg.key => apikey) /\ (cfg.jwt => jwt)
    BY DEF FailClosed
  <2>1. Admits(r) /\ up /\ CheckBind(cfg)
    BY DEF FInv, Own, CfgOK
  <2>2. keyOK(r) => Presents(r, Opaque("apikey"))
    BY TokenType DEF keyOK, Presents, FInv, FTypes
  <2>3. jwtOK(r) => Presents(r, [form |-> "jwt", tok |-> tok[r]])
    BY TokenType DEF jwtOK, Presents, FInv, FTypes, Own
  <2>q. QED
    BY <2>1, <2>2, <2>3 DEF Admits, CheckBind, keyOK, jwtOK, mtlsOK
<1>q. QED
  BY <1>1, Admission, PTL

-----------------------------------------------------------------------------
(* What is recorded.                                                       *)

\* What ties the handler of r to its event.
OnRecord(r) ==
  /\ fpc[r] \in {"idle", "auth", "run", "vm"} => apc[r] = "off"
  /\ fpc[r] = "audit" => apc[r] # "off" /\ status[r] \in Audited \ {"auditfailed"}
  /\ fpc[r] = "done" => /\ apc[r] \in {"off", "end"}
                        /\ apc[r] = "end" <=> status[r] \in Audited
                        /\ cfg.strict /\ status[r] = "ok" => failed[r] = {}

KTypes ==
  /\ fpc \in [Requests -> FPCs]
  /\ req \in [Requests -> Reqs]
  /\ status \in [Requests -> Statuses]
  /\ apc \in [Requests -> {"off", "file", "sync", "http", "sql", "insert", "end"}]
  /\ failed \in [Requests -> SUBSET weak]

KInv == CfgOK /\ KTypes /\ \A r \in Requests : OnRecord(r)

eventOf(r) == <<fpc[r], status[r], apc[r], failed[r]>>

\* What a request keeps depends on its own four fields and the strict mode only.
LEMMA KeptFrame ==
  ASSUME NEW r \in Requests, OnRecord(r), UNCHANGED cfg, UNCHANGED eventOf(r)
  PROVE  OnRecord(r)'
BY DEF eventOf, OnRecord

\* No handler has an answer or an event when main starts to serve.
LEMMA InitKInv == FrontInit => KInv
<1> SUFFICES ASSUME FrontInit PROVE KInv
  OBVIOUS
<1>1. CfgOK
  BY DEF FrontInit, CfgOK
<1>2. NoReq \in Reqs
  BY DEF NoReq, Reqs, Creds, Bodies
<1>3. KTypes /\ \A r \in Requests : fpc[r] = "idle" /\ apc[r] = "off"
  BY <1>2 DEF FrontInit, AuditInit, KTypes, FPCs, Statuses
<1>q. QED
  BY <1>1, <1>3 DEF KInv, OnRecord

\* The two ways in which a handler goes on.
LEMMA AnswersKeeps ==
  ASSUME KInv, NEW r \in Requests, NEW s \in Statuses, Answers(r, s), UNCHANGED <<cfg, req, failed, weak>>,
         apc[r] \in {"off", "end"}, apc[r] = "end" <=> s \in Audited,
         cfg.strict /\ s = "ok" => failed[r] = {}
  PROVE  KTypes' /\ \A q \in Requests : OnRecord(q)'
<1>1. fpc' = [fpc EXCEPT ![r] = "done"] /\ status' = [status EXCEPT ![r] = s] /\ apc' = apc
  BY DEF Answers, Decides, FGoto
<1>2. KTypes'
  BY <1>1 DEF KInv, KTypes, FPCs
<1>3. \A q \in Requests : q # r => OnRecord(q)'
  BY <1>1, KeptFrame DEF KInv, KTypes, eventOf
<1>4. OnRecord(r)'
  BY <1>1 DEF KInv, KTypes, OnRecord
<1>q. QED
  BY <1>2, <1>3, <1>4

\* A handler that calls recordAudit has decided an answer of the kind that is
\* recorded.
LEMMA AuditsKeeps ==
  ASSUME KInv, NEW r \in Requests, NEW s \in Audited \ {"auditfailed"}, AuditsThen(r, s),
         UNCHANGED <<cfg, req, failed, weak>>
  PROVE  KTypes' /\ \A q \in Requests : OnRecord(q)'
<1>1. /\ fpc' = [fpc EXCEPT ![r] = "audit"] /\ status' = [status EXCEPT ![r] = s]
      /\ apc' = [apc EXCEPT ![r] = "file"]
  BY DEF AuditsThen, Decides, FGoto, RecordStarts, AGoto
<1>2. KTypes'
  BY <1>1 DEF KInv, KTypes, FPCs, Statuses
<1>3. \A q \in Requests : q # r => OnRecord(q)'
  BY <1>1, KeptFrame DEF KInv, KTypes, eventOf
<1>4. OnRecord(r)'
  BY <1>1 DEF KInv, KTypes, OnRecord
<1>q. QED
  BY <1>2, <1>3, <1>4

\* A handler that only moves on, without an answer or an event.
LEMMA MovesKeeps ==
  ASSUME KInv, NEW r \in Requests, NEW l \in {"auth", "run", "vm"}, FGoto(r, l), apc[r] = "off",
         req' \in [Requests -> Reqs], UNCHANGED <<cfg, status, apc, failed, weak>>
  PROVE  KTypes' /\ \A q \in Requests : OnRecord(q)'
<1>1. fpc' = [fpc EXCEPT ![r] = l]
  BY DEF FGoto
<1>2. KTypes'
  BY <1>1 DEF KInv, KTypes, FPCs
<1>3. \A q \in Requests : q # r => OnRecord(q)'
  BY <1>1, KeptFrame DEF KInv, KTypes, eventOf
<1>4. OnRecord(r)'
  BY <1>1 DEF KInv, KTypes, OnRecord
<1>q. QED
  BY <1>2, <1>3, <1>4

\* The steps of handleExecute, run and recordAudit, one by one.
LEMMA HandlerKeeps ==
  ASSUME KInv, NEW r \in Requests, HandlerStep(r), CfgOK'
  PROVE  KInv'
<1>1. UNCHANGED <<cfg, req, failed, weak>> /\ req' \in [Requests -> Reqs]
  BY DEF HandlerStep, Authorize, RunBoots, RunReturns, Panics, Respond, others, KInv, KTypes
<1>2. OnRecord(r) /\ status[r] \in Statuses
  BY DEF KInv, KTypes
<1>3. CASE Authorize(r)
  <2>0. apc[r] = "off"
    BY <1>2, <1>3 DEF Authorize, OnRecord
  <2>1. CASE AuditsThen(r, "unauthorized") \/ AuditsThen(r, "bad")
    BY <1>1, <2>1, AuditsKeeps DEF Audited, KInv
  <2>2. CASE \E s \in {"rate", "notfound", "notpost", "large"} : Answers(r, s)
    BY <1>1, <2>0, <2>2, AnswersKeeps DEF Audited, Statuses, KInv
  <2>3. CASE FGoto(r, "run") /\ UNCHANGED <<status, apc>>
    BY <1>1, <2>0, <2>3, MovesKeeps DEF KInv
  <2>q. QED
    BY <1>3, <2>1, <2>2, <2>3 DEF Authorize, Handle, KInv
<1>4. CASE RunBoots(r)
  BY <1>1, <1>2, <1>4, MovesKeeps DEF RunBoots, OnRecord, KInv
<1>5. CASE RunReturns(r)
  BY <1>1, <1>5, AuditsKeeps DEF RunReturns, Audited, KInv
<1>6. CASE Panics(r)
  <2>1. apc[r] = "off" /\ Answers(r, "panic")
    BY <1>2, <1>6 DEF Panics, OnRecord
  <2>q. QED
    BY <1>1, <2>1, AnswersKeeps DEF Audited, Statuses, KInv
<1>7. CASE Respond(r)
  <2>1. apc[r] = "end" /\ status[r] \in Audited
    BY <1>2, <1>7 DEF Respond, Recorded, OnRecord
  <2>2. CASE status[r] = "ok" /\ cfg.strict /\ failed[r] # {}
    BY <1>1, <1>7, <2>1, <2>2, AnswersKeeps DEF Respond, Audited, Statuses, KInv
  <2>3. CASE ~(status[r] = "ok" /\ cfg.strict /\ failed[r] # {})
    BY <1>1, <1>2, <1>7, <2>1, <2>3, AnswersKeeps DEF Respond, KInv
  <2>q. QED
    BY <2>2, <2>3
<1>q. QED
  BY <1>3, <1>4, <1>5, <1>6, <1>7 DEF HandlerStep

\* So does every step of the front.
LEMMA NextKInv == KInv /\ [Next]_vars /\ AuditTypeOK' => KInv'
<1> SUFFICES ASSUME KInv, [Next]_vars, AuditTypeOK' PROVE KInv'
  OBVIOUS
<1>1. UNCHANGED <<cfg, up>> /\ CfgOK'
  BY CfgFixed DEF KInv, CfgOK, CheckBind
<1>2. ASSUME NEW r \in Requests, NEW p \in cfg.reqs, Arrive(r, p) PROVE KInv'
  <2>1. p \in Reqs
    BY ScenarioTypes DEF KInv, CfgOK
  <2>2. apc[r] = "off" /\ fpc[r] = "idle"
    BY <1>2 DEF Arrive, KInv, OnRecord
  <2>3. req' \in [Requests -> Reqs] /\ UNCHANGED <<failed, weak>>
    BY <1>2, <2>1 DEF Arrive, KInv, KTypes
  <2>4. CASE Answers(r, "health")
    <3>1. fpc' = [fpc EXCEPT ![r] = "done"] /\ status' = [status EXCEPT ![r] = "health"] /\ apc' = apc
      BY <2>4 DEF Answers, Decides, FGoto
    <3>2. KTypes'
      BY <2>3, <3>1 DEF KInv, KTypes, FPCs, Statuses
    <3>3. \A q \in Requests : q # r => OnRecord(q)'
      BY <1>1, <2>3, <3>1, KeptFrame DEF KInv, KTypes, eventOf
    <3>4. OnRecord(r)'
      BY <2>2, <3>1 DEF KInv, KTypes, OnRecord, Audited
    <3>q. QED
      BY <1>1, <3>2, <3>3, <3>4 DEF KInv
  <2>5. CASE FGoto(r, "auth") /\ UNCHANGED <<status, apc>>
    BY <1>1, <2>2, <2>3, <2>5, MovesKeeps DEF KInv
  <2>q. QED
    BY <1>2, <2>4, <2>5 DEF Arrive
<1>3. ASSUME NEW r \in Requests, AuditStep(r), UNCHANGED <<frontVars, jwksVars>> PROVE KInv'
  <2>1. UNCHANGED <<fpc, req, status>>
    BY <1>3 DEF frontVars
  <2>2. apc[r] \notin {"off", "end"} /\ fpc[r] \notin {"idle", "auth", "run", "vm", "done"}
    BY <1>3 DEF AuditStep, FileWrite, FileSync, HttpPost, SqlSchema, SqlInsert, KInv, OnRecord
  <2>3. \A q \in Requests : q # r => UNCHANGED <<apc[q], failed[q]>>
    BY <1>3 DEF AuditStep, FileWrite, FileSync, HttpPost, SqlSchema, SqlInsert, FileDone, AGoto,
                Pass, Fail, KInv, KTypes
  <2>4. apc'[r] # "off"
    BY <1>3 DEF AuditStep, FileWrite, FileSync, HttpPost, SqlSchema, SqlInsert, FileDone, AGoto,
                AfterFile, AfterHttp, KInv, KTypes
  <2>5. \A q \in Requests : q # r => OnRecord(q)'
    BY <1>1, <2>1, <2>3, KeptFrame DEF KInv, eventOf
  <2>6. OnRecord(r)'
    BY <2>1, <2>2, <2>4 DEF KInv, OnRecord
  <2>q. QED
    BY <1>1, <2>1, <2>5, <2>6 DEF KInv, KTypes, AuditTypeOK
<1>4. CASE Crash
  <2>1. UNCHANGED <<req, status, failed, weak>>
    BY <1>4 DEF Crash, AuditCrash
  <2>2. /\ fpc' = [r \in Requests |-> IF fpc[r] \in {"idle", "done"} THEN fpc[r] ELSE "lost"]
        /\ apc' = [r \in Requests |-> IF Recorded(r) THEN "end" ELSE "off"]
    BY <1>4 DEF Crash, AuditCrash
  <2>3. KTypes'
    BY <2>1, <2>2 DEF KInv, KTypes, FPCs
  <2>4. ASSUME NEW r \in Requests PROVE OnRecord(r)'
    BY <1>1, <2>1, <2>2 DEF KInv, OnRecord, Recorded
  <2>q. QED
    BY <1>1, <2>3, <2>4 DEF KInv
<1>5. CASE UNCHANGED <<frontVars, auditVars>>
  <2>1. UNCHANGED <<fpc, req, status, apc, failed, weak>>
    BY <1>5 DEF frontVars, auditVars
  <2>q. QED
    BY <1>1, <2>1, KeptFrame DEF KInv, KTypes, eventOf
<1>q. QED
  BY <1>1, <1>2, <1>3, <1>4, <1>5, HandlerKeeps DEF Next, Component, Environment, vars

\* Every step of the front is a step of the sinks or leaves them alone.
LEMMA NextAudit == KInv /\ [Next]_vars => [AuditNext]_auditVars
<1> SUFFICES ASSUME KInv, [Next]_vars PROVE [AuditNext]_auditVars
  OBVIOUS
<1>1. ASSUME NEW r \in Requests, NEW p \in cfg.reqs, Arrive(r, p) PROVE UNCHANGED auditVars
  BY <1>1 DEF Arrive, Answers, auditVars
<1>2. ASSUME NEW r \in Requests, HandlerStep(r) PROVE [AuditNext]_auditVars
  <2>1. UNCHANGED <<sinks, weak, failed, sinkVars>>
    BY <1>2 DEF HandlerStep, Authorize, RunBoots, RunReturns, Panics, Respond, others
  <2>2. UNCHANGED apc \/ (RecordStarts(r) /\ fpc[r] \in {"auth", "run", "vm"})
    BY <1>2 DEF HandlerStep, Authorize, Handle, RunBoots, RunReturns, Panics, Respond, Answers, AuditsThen
  <2>3. fpc[r] \in {"auth", "run", "vm"} => apc[r] = "off"
    BY DEF KInv, OnRecord
  <2>q. QED
    BY <2>1, <2>2, <2>3 DEF AuditNext, auditVars
<1>3. ASSUME NEW r \in Requests, Component(r) PROVE [AuditNext]_auditVars
  BY <1>3 DEF Component, AuditNext
<1>4. CASE Environment \/ Crash \/ UNCHANGED vars
  BY <1>4 DEF Environment, Crash, AuditNext, vars
<1>q. QED
  BY <1>1, <1>2, <1>3, <1>4 DEF Next

\* buildAudit starts with empty sinks.
LEMMA InitAudit == FrontInit => AuditStart
BY ScenarioTypes DEF FrontInit, AuditStart

\* The invariants of the sinks and of the handlers, which need each other.
THEOREM Recording == Spec => [](KInv /\ AInv)
<1>1. FrontInit => KInv /\ AInv
  BY InitKInv, InitAudit, InitAInv
<1>2. KInv /\ AInv /\ [Next]_vars => (KInv /\ AInv)'
  <2> SUFFICES ASSUME KInv, AInv, [Next]_vars PROVE (KInv /\ AInv)'
    OBVIOUS
  <2>1. AInv'
    BY NextAudit, NextAInv
  <2>2. AuditTypeOK'
    BY <2>1 DEF AInv
  <2>q. QED
    BY <2>1, <2>2, NextKInv
<1>q. QED
  BY <1>1, <1>2, PTL DEF Spec

\* The composition implements the sinks: a handler records once, from the start.
THEOREM FrontImplementsAudit == Spec => AuditSpec
BY InitAudit, NextAudit, Recording, PTL DEF Spec, AuditSpec

\* Every variable keeps its type, those of the cache and of the sinks included.
THEOREM FrontTypes == Spec => []TypeOK
<1>1. FInv /\ KInv /\ AInv => TypeOK
  <2> SUFFICES ASSUME FInv, KInv, AInv PROVE TypeOK
    OBVIOUS
  <2>1. cfg \in Scenarios /\ up \in BOOLEAN
    BY DEF FInv, CfgOK, CheckBind
  <2>2. /\ fpc \in [Requests -> FPCs] /\ req \in [Requests -> Reqs]
        /\ booted \in [Requests -> BOOLEAN] /\ status \in [Requests -> Statuses]
    BY DEF FInv, FTypes, KInv, KTypes
  <2>3. JwksTypeOK /\ AuditTypeOK
    BY DEF FInv, AInv
  <2>q. QED
    BY <2>1, <2>2, <2>3 DEF TypeOK
<1>q. QED
  BY <1>1, Admission, Recording, PTL

\* Which answers have an event (handleExecute and middleware), under every
\* configuration.
THEOREM TrailIsExact == Spec => []Trail
<1>1. KInv => Trail
  BY DEF KInv, OnRecord, Trail, Recorded
<1>q. QED
  BY <1>1, Recording, PTL

\* A result under WARDEN_AUDIT_STRICT is recorded in every configured sink.
THEOREM StrictIsStrict == Spec => []StrictMeansEverywhere
<1>1. KInv /\ AInv => StrictMeansEverywhere
  <2> SUFFICES ASSUME KInv, AInv, NEW r \in Requests, cfg.strict, fpc[r] = "done", status[r] = "ok"
               PROVE  /\ Line(r) \in Range(file)
                      /\ "http" \in sinks => r \in collected
                      /\ "sql" \in sinks => r \in rows
    BY DEF StrictMeansEverywhere
  <2>1. apc[r] = "end" /\ failed[r] = {}
    BY DEF KInv, OnRecord, Audited
  <2>2. Among(r, synced) /\ ("http" \in sinks => r \in collected) /\ ("sql" \in sinks => r \in rows)
    BY <2>1 DEF AInv, Passed, PastFile, PastHttp
  <2>3. Line(r) \in Range(file)
    BY <2>2 DEF AInv, AuditTypeOK, Among, Range
  <2>q. QED
    BY <2>2, <2>3
<1>q. QED
  BY <1>1, Recording, PTL

\* Inside the running front the cache and the sinks keep their promises: Valid
\* fetches only when its keys are old and decides on keys no older than the last
\* TTL, Record loses no acknowledged event, skips no sink and inserts into a table
\* that exists.
THEOREM ComponentsKeepTheirWord ==
  Spec => /\ []FetchOnlyStale /\ RetiredKeyRefused /\ PublishedKeyAccepted
          /\ [](AckedIsDurable /\ FanoutReachesAll /\ SchemaFirst)
BY FrontImplementsJwks, FrontImplementsAudit, FetchesOnlyStale, RefusesRetiredKeys,
   AcceptsPublishedKeys, AcksAreDurable, FanoutIsComplete, SchemaComesFirst, PTL
\* Neither mutex is ever leaked, whatever a handler, a provider, a sink or a crash
\* does: who waits for one waits for a call that its timeout ends.
THEOREM NoLockLeaks == Spec => []LocksHeld
BY FrontImplementsJwks, FrontImplementsAudit, KeysLockReturned, FileLockReturned, PTL DEF LocksHeld

-----------------------------------------------------------------------------
(* Progress: every step of a request shortens what is ahead of it.         *)

Here(r)  == <<fpc[r], vpc[r], apc[r]>>
Places   == /\ fpc \in [Requests -> FPCs]
            /\ vpc \in [Requests -> {"out", "claims", "lock", "done", "get", "install"}]
            /\ apc \in [Requests -> {"off", "file", "sync", "http", "sql", "insert", "end"}]
Nearer(r) == Ahead(r)' < Ahead(r) \/ UNCHANGED Here(r)

\* The three counts and their bounds: a part of the handler outweighs its callees.
LEMMA AheadRange ==
  ASSUME NEW l
  PROVE  HandlerAhead(l) \in 0 .. 50 /\ VerifyAhead(l) \in 0 .. 4 /\ RecordAhead(l) \in 0 .. 5
BY DEF HandlerAhead, VerifyAhead, RecordAhead

\* The handler goes on to a later part.
LEMMA PartEnds ==
  ASSUME NEW r \in Requests, HandlerAhead(fpc'[r]) + 10 <= HandlerAhead(fpc[r])
  PROVE  Nearer(r)
<1>1. HandlerAhead(fpc'[r]) \in Int /\ HandlerAhead(fpc[r]) \in Int
  BY AheadRange
<1>2. VerifyAhead(vpc'[r]) \in 0 .. 4 /\ VerifyAhead(vpc[r]) \in 0 .. 4
  BY AheadRange
<1>3. RecordAhead(apc'[r]) \in 0 .. 5 /\ RecordAhead(apc[r]) \in 0 .. 5
  BY AheadRange
<1>q. QED
  BY <1>1, <1>2, <1>3 DEF Nearer, Ahead

\* The handler stays, the verification and the Record go on or stay.
LEMMA CalleeGoesOn ==
  ASSUME NEW r \in Requests, fpc'[r] = fpc[r],
         vpc'[r] = vpc[r] \/ VerifyAhead(vpc'[r]) < VerifyAhead(vpc[r]),
         apc'[r] = apc[r] \/ RecordAhead(apc'[r]) < RecordAhead(apc[r])
  PROVE  Nearer(r)
<1>1. HandlerAhead(fpc[r]) \in Int
  BY AheadRange, SMTT(20)
<1>2. VerifyAhead(vpc'[r]) \in Int /\ VerifyAhead(vpc[r]) \in Int
  BY AheadRange
<1>3. RecordAhead(apc'[r]) \in Int /\ RecordAhead(apc[r]) \in Int
  BY AheadRange
<1>q. QED
  BY <1>1, <1>2, <1>3 DEF Nearer, Ahead, Here

\* Only the request that steps moves, and it comes nearer to its answer.
LEMMA HandlerNearer ==
  ASSUME Places, NEW r \in Requests, NEW q, NEW p \in Requests, Arrive(r, q) \/ HandlerStep(r)
  PROVE  Nearer(p)
<1> USE DEF Places
<1>1. CASE p # r
  <2>1. /\ \/ UNCHANGED apc
           \/ apc' = [apc EXCEPT ![r] = "file"]
        /\ \/ UNCHANGED vpc
           \/ vpc' = [vpc EXCEPT ![r] = "claims"]
        /\ \E l \in FPCs : fpc' = [fpc EXCEPT ![r] = l]
    <3>1. CASE Arrive(r, q)
      BY <3>1 DEF Arrive, Answers, FGoto, Verify, VGoto, jwksVars, callVars, FPCs
    <3>2. CASE Authorize(r)
      BY <3>2 DEF Authorize, Handle, Answers, AuditsThen, RecordStarts, AGoto, FGoto, jwksVars,
                  callVars, FPCs
    <3>3. CASE RunBoots(r) \/ RunReturns(r)
      BY <3>3 DEF RunBoots, RunReturns, AuditsThen, RecordStarts, AGoto, FGoto, others, jwksVars,
                  callVars, FPCs
    <3>4. CASE Panics(r) \/ Respond(r)
      BY <3>4 DEF Panics, Respond, Answers, FGoto, others, jwksVars, callVars, FPCs
    <3>q. QED
      BY <3>1, <3>2, <3>3, <3>4 DEF HandlerStep
  <2>2. fpc'[p] = fpc[p] /\ vpc'[p] = vpc[p] /\ apc'[p] = apc[p]
    BY <1>1, <2>1
  <2>q. QED
    BY <2>2, CalleeGoesOn
<1>2. CASE p = r
  <2>1. HandlerAhead(fpc'[r]) + 10 <= HandlerAhead(fpc[r])
    <3>1. CASE Arrive(r, q)
      <4>1. fpc[r] = "idle" /\ fpc'[r] \in {"done", "auth"}
        BY <3>1 DEF Arrive, Answers, FGoto
      <4>q. QED
        BY <4>1 DEF HandlerAhead
    <3>2. CASE Authorize(r)
      <4>1. fpc[r] = "auth" /\ fpc'[r] \in {"done", "audit", "run"}
        BY <3>2 DEF Authorize, Handle, Answers, AuditsThen, FGoto
      <4>q. QED
        BY <4>1 DEF HandlerAhead
    <3>3. CASE RunBoots(r)
      <4>1. fpc[r] = "run" /\ fpc'[r] = "vm"
        BY <3>3 DEF RunBoots, FGoto
      <4>q. QED
        BY <4>1 DEF HandlerAhead
    <3>4. CASE RunReturns(r) \/ Panics(r)
      <4>1. fpc[r] \in {"run", "vm"} /\ fpc'[r] \in {"audit", "done"}
        BY <3>4 DEF RunReturns, Panics, AuditsThen, Answers, FGoto
      <4>q. QED
        BY <4>1 DEF HandlerAhead
    <3>5. CASE Respond(r)
      <4>1. fpc[r] = "audit" /\ fpc'[r] = "done"
        BY <3>5 DEF Respond, Answers, FGoto
      <4>q. QED
        BY <4>1 DEF HandlerAhead
    <3>q. QED
      BY <3>1, <3>2, <3>3, <3>4, <3>5 DEF HandlerStep
  <2>q. QED
    BY <1>2, <2>1, PartEnds
<1>q. QED
  BY <1>1, <1>2

\* A step of a verification or of a Record.
LEMMA CalleeNearer ==
  ASSUME Places, NEW r \in Requests, NEW p \in Requests, Component(r)
  PROVE  Nearer(p)
<1> USE DEF Places
<1>1. ASSUME NEW l, VGoto(r, l), VerifyAhead(l) < VerifyAhead(vpc[r]), UNCHANGED <<fpc, apc>>
      PROVE  Nearer(p)
  <2>1. vpc'[p] = vpc[p] \/ VerifyAhead(vpc'[p]) < VerifyAhead(vpc[p])
    BY <1>1 DEF VGoto
  <2>q. QED
    BY <2>1, <1>1, CalleeGoesOn
<1>2. ASSUME NEW l, AGoto(r, l), RecordAhead(l) < RecordAhead(apc[r]), UNCHANGED <<fpc, vpc>>
      PROVE  Nearer(p)
  <2>1. apc'[p] = apc[p] \/ RecordAhead(apc'[p]) < RecordAhead(apc[p])
    BY <1>2 DEF AGoto
  <2>q. QED
    BY <2>1, <1>2, CalleeGoesOn
<1>3. CASE JwksStep(r) /\ UNCHANGED <<frontVars, auditVars>>
  <2>u. UNCHANGED <<fpc, apc>>
    BY <1>3 DEF frontVars, auditVars
  <2>1. CASE CheckClaims(r)
    <3>1. vpc[r] = "claims" /\ (VGoto(r, "lock") \/ VGoto(r, "done"))
      BY <2>1 DEF CheckClaims
    <3>2. VerifyAhead("lock") < VerifyAhead(vpc[r]) /\ VerifyAhead("done") < VerifyAhead(vpc[r])
      BY <3>1 DEF VerifyAhead
    <3>q. QED
      BY <3>1, <3>2, <2>u, <1>1, Zenon
  <2>2. CASE Lock(r)
    <3>1. vpc[r] = "lock" /\ (VGoto(r, "get") \/ VGoto(r, "done"))
      BY <2>2 DEF Lock, Conclude
    <3>2. VerifyAhead("get") < VerifyAhead(vpc[r]) /\ VerifyAhead("done") < VerifyAhead(vpc[r])
      BY <3>1 DEF VerifyAhead
    <3>q. QED
      BY <3>1, <3>2, <2>u, <1>1, Zenon
  <2>3. CASE Serve(r)
    <3>1. vpc[r] = "get" /\ VGoto(r, "install")
      BY <2>3 DEF Serve
    <3>2. VerifyAhead("install") < VerifyAhead(vpc[r])
      BY <3>1 DEF VerifyAhead
    <3>q. QED
      BY <3>1, <3>2, <2>u, <1>1, Zenon
  <2>4. CASE GetFails(r) \/ Install(r)
    <3>1. vpc[r] \in {"get", "install"} /\ VGoto(r, "done")
      BY <2>4 DEF GetFails, Install, Conclude
    <3>2. VerifyAhead("done") < VerifyAhead(vpc[r])
      BY <3>1 DEF VerifyAhead
    <3>q. QED
      BY <3>1, <3>2, <2>u, <1>1, Zenon
  <2>q. QED
    BY <1>3, <2>1, <2>2, <2>3, <2>4 DEF JwksStep
<1>4. CASE AuditStep(r) /\ UNCHANGED <<frontVars, jwksVars>>
  <2>u. UNCHANGED <<fpc, vpc>>
    BY <1>4 DEF frontVars, jwksVars, callVars
  <2>f. AfterFile \in {"http", "sql", "end"} /\ AfterHttp \in {"sql", "end"}
    BY DEF AfterFile, AfterHttp
  <2>1. CASE FileWrite(r) \/ FileSync(r)
    <3>1. \/ apc[r] = "file" /\ AGoto(r, "sync")
          \/ apc[r] \in {"file", "sync"} /\ AGoto(r, AfterFile)
      BY <2>1 DEF FileWrite, FileSync, FileDone
    <3>2. apc[r] = "file" => RecordAhead("sync") < RecordAhead(apc[r])
      BY DEF RecordAhead
    <3>3. apc[r] \in {"file", "sync"} => RecordAhead(AfterFile) < RecordAhead(apc[r])
      BY <2>f DEF RecordAhead
    <3>q. QED
      BY <3>1, <3>2, <3>3, <2>u, <1>2, Zenon
  <2>2. CASE HttpPost(r)
    <3>1. apc[r] = "http" /\ AGoto(r, AfterHttp)
      BY <2>2 DEF HttpPost
    <3>2. RecordAhead(AfterHttp) < RecordAhead(apc[r])
      BY <3>1, <2>f DEF RecordAhead
    <3>q. QED
      BY <3>1, <3>2, <2>u, <1>2, Zenon
  <2>3. CASE SqlSchema(r)
    <3>1. apc[r] = "sql" /\ (AGoto(r, "insert") \/ AGoto(r, "end"))
      BY <2>3 DEF SqlSchema
    <3>2. RecordAhead("insert") < RecordAhead(apc[r]) /\ RecordAhead("end") < RecordAhead(apc[r])
      BY <3>1 DEF RecordAhead
    <3>q. QED
      BY <3>1, <3>2, <2>u, <1>2, Zenon
  <2>4. CASE SqlInsert(r)
    <3>1. apc[r] = "insert" /\ AGoto(r, "end")
      BY <2>4 DEF SqlInsert
    <3>2. RecordAhead("end") < RecordAhead(apc[r])
      BY <3>1 DEF RecordAhead
    <3>q. QED
      BY <3>1, <3>2, <2>u, <1>2, Zenon
  <2>q. QED
    BY <1>4, <2>1, <2>2, <2>3, <2>4 DEF AuditStep
<1>q. QED
  BY <1>3, <1>4 DEF Component

\* A crash ends the calls in flight and touches no other.
LEMMA CrashNearer == ASSUME Places, NEW p \in Requests, Crash PROVE Nearer(p)
<1> USE DEF Places
<1>f. fpc'[p] = IF fpc[p] \in {"idle", "done"} THEN fpc[p] ELSE "lost"
  BY DEF Crash
<1>v. vpc'[p] = vpc[p] \/ VerifyAhead(vpc'[p]) < VerifyAhead(vpc[p])
  <2>1. vpc'[p] = IF vpc[p] = "done" THEN "done" ELSE "out"
    BY DEF Crash, JwksCrash
  <2>2. vpc[p] \in {"out", "claims", "lock", "done", "get", "install"}
    OBVIOUS
  <2>q. QED
    BY <2>1, <2>2 DEF VerifyAhead
<1>a. apc'[p] = apc[p] \/ RecordAhead(apc'[p]) < RecordAhead(apc[p])
  <2>1. apc'[p] = IF apc[p] = "end" THEN "end" ELSE "off"
    BY DEF Crash, AuditCrash, Recorded
  <2>2. apc[p] \in {"off", "file", "sync", "http", "sql", "insert", "end"}
    OBVIOUS
  <2>q. QED
    BY <2>1, <2>2 DEF RecordAhead
<1>1. CASE fpc[p] \in {"idle", "done", "lost"}
  <2>1. fpc'[p] = fpc[p]
    BY <1>1, <1>f
  <2>q. QED
    BY <2>1, <1>v, <1>a, CalleeGoesOn
<1>2. CASE fpc[p] \in {"auth", "run", "vm", "audit"}
  <2>1. fpc'[p] = "lost"
    BY <1>2, <1>f
  <2>2. HandlerAhead(fpc'[p]) + 10 <= HandlerAhead(fpc[p])
    BY <2>1, <1>2 DEF HandlerAhead
  <2>q. QED
    BY <2>2, PartEnds
<1>3. fpc[p] \in FPCs
  OBVIOUS
<1>q. QED
  BY <1>1, <1>2, <1>3 DEF FPCs

\* Every step of a call brings its answer nearer: with the fairness of FairSpec,
\* which TLC checks, the half of EveryCallAnswered that a state can show.
THEOREM CallsEnd == Spec => CallsDescend
<1>1. TypeOK /\ [Next]_vars =>
        [\A r \in Requests : Ahead(r)' < Ahead(r) \/ UNCHANGED <<fpc[r], vpc[r], apc[r]>>]_vars
  <2> SUFFICES ASSUME TypeOK, [Next]_vars, NEW p \in Requests
               PROVE  Nearer(p)
    BY DEF Nearer, Here
  <2>p. Places
    BY DEF TypeOK, JwksTypeOK, AuditTypeOK, Fetching, Places
  <2>1. ASSUME NEW r \in Requests, NEW q \in cfg.reqs, Arrive(r, q) PROVE Nearer(p)
    BY <2>1, <2>p, HandlerNearer
  <2>2. ASSUME NEW r \in Requests, HandlerStep(r) PROVE Nearer(p)
    BY <2>2, <2>p, HandlerNearer
  <2>3. ASSUME NEW r \in Requests, Component(r) PROVE Nearer(p)
    BY <2>3, <2>p, CalleeNearer
  <2>4. CASE Environment
    <3>1. UNCHANGED <<fpc, vpc, apc>>
      BY <2>4 DEF Environment, Rotate, TtlPasses, callVars, frontVars, auditVars
    <3>q. QED
      BY <3>1 DEF Nearer, Here
  <2>5. CASE Crash
    BY <2>5, <2>p, CrashNearer
  <2>6. CASE UNCHANGED vars
    <3>1. UNCHANGED <<fpc, vpc, apc>>
      BY <2>6 DEF vars, frontVars, jwksVars, callVars, auditVars
    <3>q. QED
      BY <3>1 DEF Nearer, Here
  <2>q. QED
    BY <2>1, <2>2, <2>3, <2>4, <2>5, <2>6 DEF Next
<1>q. QED
  BY <1>1, FrontTypes, PTL DEF Spec, CallsDescend
=============================================================================
