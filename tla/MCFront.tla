------------------------------ MODULE MCFront ------------------------------
(* Front on small instances: the scenarios of the TLC run.                 *)
EXTENDS Front

Key   == Opaque("apikey")
Other == Opaque("other")
Jwts  == [form : {"jwt"}, tok : Tokens]
Jwt   == CHOOSE c \in Jwts : c.tok.kid = c.tok.signer

Execute(x, b) == [path |-> "/execute", x |-> x, b |-> b, body |-> "ok"]
ApiKeys       == {Execute(Key, NoCred), Execute(NoCred, Key), Execute(Other, Key)}
Malformed     == {[path |-> p, x |-> Key, b |-> NoCred, body |-> o] :
                    p \in {"/health", "/execute", "other"}, o \in Bodies}

Base == [public |-> TRUE, anon |-> FALSE, key |-> FALSE, jwt |-> FALSE, mtls |-> FALSE,
         all |-> FALSE, rate |-> FALSE, strict |-> FALSE, sinks |-> {}, weak |-> {},
         crash |-> FALSE, panic |-> FALSE, rotate |-> FALSE, reqs |-> ApiKeys]

\* Every combination of credentials on a public address, with requests that show
\* one or two of them or something else.
AuthScenarios ==
  {[Base EXCEPT !.key = k, !.jwt = j, !.mtls = m, !.all = a,
                !.reqs = {Execute(Other, Key), Execute(NoCred, Key)} \cup
                         (IF j THEN {Execute(NoCred, Jwt), Execute(Key, Jwt)} ELSE {})]
     : k, j, m, a \in BOOLEAN}
  \cup {[Base EXCEPT !.public = FALSE], [Base EXCEPT !.anon = TRUE]}

\* The rotation of keys, with tokens of one of them (the keys are interchangeable)
\* that name it or have no kid.
RotationScenarios ==
  {[Base EXCEPT !.jwt = TRUE, !.rotate = TRUE,
                !.reqs = {Execute(NoCred, Jwt), Execute(NoCred, [Jwt EXCEPT !.tok.kid = NoKid])}]}

\* Bodies, paths and the rate limiter.
RouteScenarios == {[Base EXCEPT !.key = TRUE, !.rate = TRUE, !.panic = TRUE, !.reqs = Malformed]}

\* The sinks, their failures and crashes.
AuditScenarios ==
  {[Base EXCEPT !.key = TRUE, !.strict = TRUE, !.sinks = s, !.weak = w, !.crash = TRUE,
                !.reqs = {Execute(Key, NoCred)}]
     : <<s, w>> \in {<<{"sql"}, {"file", "sql"}>>, <<{"http", "sql"}, {"http"}>>}}

MCScenarios == AuthScenarios \cup RotationScenarios \cup RouteScenarios \cup AuditScenarios
=============================================================================
