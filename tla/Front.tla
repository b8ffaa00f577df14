------------------------------- MODULE Front -------------------------------
(***************************************************************************)
(* The HTTP front of warden (internal/api): middleware, authorize,         *)
(* handleExecute and recordAudit around the JWKS cache (module Jwks), the  *)
(* audit sinks (module Audit) and Server.run, of which only the boot and   *)
(* the end matter here (module Lifecycle has the rest).  The configuration *)
(* is fixed when the process starts, and main refuses some.                *)
(***************************************************************************)
EXTENDS Jwks, Audit

CONSTANTS Scenarios  \* configurations, with the requests and the faults to expect

VARIABLES cfg,     \* a member of Scenarios
          up,      \* main has passed CheckBindPolicy and serves
          fpc,     \* where the handler of a request is
          req,     \* path, headers and body of a request
          booted,  \* Boot has returned a microVM for the request
          status   \* the answer, decided when fpc is "audit", written when "done"

frontVars == <<cfg, up, fpc, req, booted, status>>
vars == <<frontVars, jwksVars, auditVars>>

\* What a header may carry: nothing, the configured key, something else, a JWT.
Opaque(f) == [form |-> f, tok |-> AnyTok]
NoCred    == Opaque("none")
Creds     == {NoCred, Opaque("apikey"), Opaque("other")} \cup [form : {"jwt"}, tok : Tokens]

\* bad: not JSON, bytes after the object, or refused by validateExecute.
Bodies   == {"ok", "notpost", "large", "bad"}
Reqs     == [path : {"/health", "/execute", "other"}, x : Creds, b : Creds, body : Bodies]
NoReq    == [path |-> "other", x |-> NoCred, b |-> NoCred, body |-> "bad"]

FPCs     == {"idle", "auth", "run", "vm", "audit", "done", "lost"}
Audited  == {"ok", "failed", "auditfailed", "bad", "unauthorized"}
Statuses == Audited \cup {"none", "health", "rate", "notfound", "notpost", "large", "panic"}

ASSUME ScenarioTypes ==
  \A c \in Scenarios :
    /\ {c.public, c.anon, c.key, c.jwt, c.mtls, c.all, c.rate, c.strict, c.crash, c.panic, c.rotate}
         \subseteq BOOLEAN
    /\ c.sinks \subseteq {"http", "sql"} /\ c.weak \subseteq {"file", "http", "sql"}
    /\ c.reqs \subseteq Reqs

\* CheckBindPolicy.
CheckBind(c) == c.anon \/ c.key \/ c.jwt \/ c.mtls \/ ~c.public

FrontInit ==
  /\ cfg \in Scenarios
  /\ up = CheckBind(cfg)
  /\ JwksInit /\ (~cfg.jwt => published = {})
  /\ AuditInit(cfg.sinks, cfg.weak)
  /\ fpc = [r \in Requests |-> "idle"]
  /\ req = [r \in Requests |-> NoReq]
  /\ booted = [r \in Requests |-> FALSE]
  /\ status = [r \in Requests |-> "none"]

FGoto(r, label)   == fpc' = [fpc EXCEPT ![r] = label]
Decides(r, s)     == status' = [status EXCEPT ![r] = s]
\* writeError without an audit event.
Answers(r, s)     == Decides(r, s) /\ FGoto(r, "done") /\ UNCHANGED apc
\* recordAudit, then the answer (Respond).
AuditsThen(r, s)  == Decides(r, s) /\ FGoto(r, "audit") /\ RecordStarts(r)

-----------------------------------------------------------------------------
(* middleware and authorize.                                               *)

\* tokenFromRequest: X-Api-Key, else the bearer token.
TokenFrom(q) == IF q.x # NoCred THEN q.x ELSE q.b

\* A request arrives.  /health needs no authentication; for the others authorize
\* has the token verified when it looks like a JWT.
Arrive(r, q) ==
  /\ up
  /\ fpc[r] = "idle"
  /\ req' = [req EXCEPT ![r] = q]
  /\ IF q.path = "/health"
     THEN Answers(r, "health") /\ UNCHANGED jwksVars
     ELSE /\ FGoto(r, "auth") /\ UNCHANGED <<status, apc>>
          /\ IF cfg.jwt /\ TokenFrom(q).form = "jwt"
             THEN Verify(r, TokenFrom(q).tok) ELSE UNCHANGED jwksVars
  /\ UNCHANGED <<cfg, up, booted, sinks, weak, failed, sinkVars>>

keyOK(r)  == cfg.key /\ TokenFrom(req[r]).form = "apikey"
jwtOK(r)  == cfg.jwt /\ verdict[r]
\* The handshake has verified a client certificate.
mtlsOK    == cfg.mtls

\* [mutant] RequireAll is satisfied by one of the methods.
AdmitsAny(r) == (~cfg.key /\ ~cfg.jwt) \/ keyOK(r) \/ jwtOK(r) \/ mtlsOK

\* authorize; main sets MTLSSuffices to ~RequireAll.
Admits(r) ==
  \/ ~cfg.key /\ ~cfg.jwt
  \/ cfg.all /\ (cfg.key => keyOK(r)) /\ (cfg.jwt => jwtOK(r)) /\ (cfg.mtls => mtlsOK)
  \/ ~cfg.all /\ (keyOK(r) \/ jwtOK(r) \/ mtlsOK)

\* [mutant] the events of refused bodies are forgotten.
HandleQuiet(r, q) ==
  \/ q.path # "/execute" /\ Answers(r, "notfound")
  \/ q.path = "/execute" /\ q.body # "ok" /\ Answers(r, q.body)
  \/ q.path = "/execute" /\ q.body = "ok" /\ FGoto(r, "run") /\ UNCHANGED <<status, apc>>

\* The mux and the head of handleExecute.
Handle(r, q) ==
  \/ q.path # "/execute" /\ Answers(r, "notfound")
  \/ q.path = "/execute" /\ q.body \in {"notpost", "large"} /\ Answers(r, q.body)
  \/ q.path = "/execute" /\ q.body = "bad" /\ AuditsThen(r, "bad")
  \/ q.path = "/execute" /\ q.body = "ok" /\ FGoto(r, "run") /\ UNCHANGED <<status, apc>>

\* authorize returns; then the rate limiter (module RateLimit) and the handler.
Authorize(r) ==
  /\ fpc[r] = "auth"
  /\ vpc[r] \in {"out", "done"}
  /\ \/ ~Admits(r) /\ AuditsThen(r, "unauthorized")
     \/ Admits(r) /\ cfg.rate /\ Answers(r, "rate")
     \/ Admits(r) /\ Handle(r, req[r])
  /\ UNCHANGED <<cfg, up, req, booted, jwksVars, sinks, weak, failed, sinkVars>>

-----------------------------------------------------------------------------
(* run, recordAudit and the answer.                                        *)

others == <<cfg, up, req, jwksVars, sinks, weak, failed, sinkVars>>

\* Boot returns a microVM.
RunBoots(r) ==
  /\ fpc[r] = "run"
  /\ booted' = [booted EXCEPT ![r] = TRUE]
  /\ FGoto(r, "vm")
  /\ UNCHANGED <<others, status, apc>>

\* Limiter.Apply, Boot or Execute fails, or Execute has a result.
RunReturns(r) ==
  /\ \/ fpc[r] \in {"run", "vm"} /\ AuditsThen(r, "failed")
     \/ fpc[r] = "vm" /\ AuditsThen(r, "ok")
  /\ UNCHANGED <<others, booted>>

\* A panic below run: the deferred Destroy, then recover in middleware.
Panics(r) ==
  /\ cfg.panic
  /\ fpc[r] \in {"run", "vm"}
  /\ Answers(r, "panic")
  /\ UNCHANGED <<others, booted>>

\* [mutant] strict mode looks at the file only.
RespondFileOnly(r) ==
  /\ fpc[r] = "audit"
  /\ Recorded(r)
  /\ Answers(r, IF status[r] = "ok" /\ cfg.strict /\ "file" \in failed[r]
                THEN "auditfailed" ELSE status[r])
  /\ UNCHANGED <<others, booted>>

\* recordAudit has returned.
Respond(r) ==
  /\ fpc[r] = "audit"
  /\ Recorded(r)
  /\ Answers(r, IF status[r] = "ok" /\ cfg.strict /\ failed[r] # {}
                THEN "auditfailed" ELSE status[r])
  /\ UNCHANGED <<others, booted>>

-----------------------------------------------------------------------------

\* warden or its machine dies and is started again.
Crash ==
  /\ cfg.crash /\ up
  /\ \E r \in Requests : fpc[r] \notin {"idle", "lost"}
  /\ fpc' = [r \in Requests |-> IF fpc[r] \in {"idle", "done"} THEN fpc[r] ELSE "lost"]
  /\ JwksCrash /\ AuditCrash
  /\ UNCHANGED <<cfg, up, req, booted, status>>

HandlerStep(r) ==
  Authorize(r) \/ RunBoots(r) \/ RunReturns(r) \/ Panics(r) \/ Respond(r)

Component(r) ==
  \/ JwksStep(r) /\ UNCHANGED <<frontVars, auditVars>>
  \/ AuditStep(r) /\ UNCHANGED <<frontVars, jwksVars>>

\* The provider and the clock, as long as a request can still tell.
Environment ==
  /\ cfg.rotate
  /\ \E r \in Requests : fpc[r] \in {"idle", "auth"}
  /\ Rotate \/ TtlPasses
  /\ UNCHANGED <<frontVars, auditVars>>

Next ==
  \/ \E r \in Requests : \/ \E q \in cfg.reqs : Arrive(r, q)
                         \/ HandlerStep(r)
                         \/ Component(r)
  \/ Environment
  \/ Crash

Spec == FrontInit /\ [][Next]_vars

\* Every wait of a handler ends: Boot and Execute by their timeouts (module
\* Lifecycle), the fetch of the keys, the collector and the database by theirs.
FairSpec == Spec /\ \A r \in Requests : WF_vars(HandlerStep(r) \/ Component(r))

-----------------------------------------------------------------------------
(* Properties.                                                             *)

\* Every variable has its type, those of the two components included.
TypeOK ==
  /\ cfg \in Scenarios /\ up \in BOOLEAN
  /\ fpc \in [Requests -> FPCs]
  /\ req \in [Requests -> Reqs]
  /\ booted \in [Requests -> BOOLEAN]
  /\ status \in [Requests -> Statuses]
  /\ JwksTypeOK /\ AuditTypeOK

Presents(r, c) == c \in {req[r].x, req[r].b}

\* "Sin credencial valida -> 401 y no se arranca VM" (README.md), through
\* main, CheckBindPolicy and authorize: a microVM is booted for a request only if
\* it shows one of the configured credentials, with RequireAll every one of them,
\* and if none is configured only on loopback or with WARDEN_ALLOW_ANON.
FailClosed ==
  \A r \in Requests : booted[r] =>
    LET key  == cfg.key /\ Presents(r, Opaque("apikey"))
        jwt  == cfg.jwt /\ verdict[r] /\ Presents(r, [form |-> "jwt", tok |-> tok[r]])
    IN /\ key \/ jwt \/ cfg.mtls \/ (~cfg.key /\ ~cfg.jwt /\ (cfg.anon \/ ~cfg.public))
       /\ cfg.all => (cfg.key => key) /\ (cfg.jwt => jwt)

\* "records every sandbox execution" (audit.go): who is answered after a microVM
\* was booted has been through Record, unless the handler panicked.  Refused
\* credentials and refused bodies are recorded too; 404, 405, 413, a rate limit
\* and a panic are not.
Trail ==
  \A r \in Requests : fpc[r] = "done" =>
    (Recorded(r) <=> status[r] \in Audited)

\* WARDEN_AUDIT_STRICT, "500 si un sink falla" (README.md): in strict mode a
\* client that got its result finds the event in every configured sink, also
\* after a crash.
StrictMeansEverywhere ==
  \A r \in Requests : cfg.strict /\ fpc[r] = "done" /\ status[r] = "ok" =>
    /\ Line(r) \in Range(file)
    /\ "http" \in sinks => r \in collected
    /\ "sql" \in sinks => r \in rows

\* No path leaks a mutex: not a failed fetch or write, not a crash, and not a
\* handler that goes on, is answered or panics.
LocksHeld == KeysLockHeld /\ FileLockHeld

\* What is ahead of a request, at most: a part of the handler (auth with its
\* verification, audit with its sinks) counts as ten steps.
HandlerAhead(l) ==
  CASE l = "idle" -> 50 [] l = "auth" -> 40 [] l = "run" -> 30 [] l = "vm" -> 20 [] l = "audit" -> 10
    [] OTHER -> 0
VerifyAhead(l) ==
  CASE l = "claims" -> 4 [] l = "lock" -> 3 [] l = "get" -> 2 [] l = "install" -> 1 [] OTHER -> 0
RecordAhead(l) ==
  CASE l = "file" -> 5 [] l = "sync" -> 4 [] l = "http" -> 3 [] l = "sql" -> 2 [] l = "insert" -> 1
    [] OTHER -> 0
Ahead(r) == HandlerAhead(fpc[r]) + VerifyAhead(vpc[r]) + RecordAhead(apc[r])

\* A handler never goes back, nor do the verification and the Record it calls: every
\* step of a request brings its answer nearer, a crash ends it, and no step of
\* another request, of the provider or of the clock puts it off.
CallsDescend ==
  [][\A r \in Requests : Ahead(r)' < Ahead(r) \/ UNCHANGED <<fpc[r], vpc[r], apc[r]>>]_vars

\* Nobody waits forever, behind the two mutexes and one another's fetches and
\* writes: every request that arrives is answered unless warden crashes.
EveryCallAnswered ==
  \A r \in Requests : fpc[r] = "auth" ~> fpc[r] \in {"done", "lost"}
=============================================================================
