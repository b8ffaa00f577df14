--------------------------- MODULE HttpRequests ---------------------------
(* The requests of the HTTP server, as its components share them. *)
EXTENDS FiniteSets

CONSTANTS Requests,  \* one goroutine of net/http each
          Nobody     \* the holder of a free mutex

ASSUME HttpConfig == IsFiniteSet(Requests) /\ Nobody \notin Requests
=============================================================================
