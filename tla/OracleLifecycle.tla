--------------------------- MODULE OracleLifecycle ---------------------------
(***************************************************************************)
(* OracleRequests implements RequestLifecycle: the stage of a request, read *)
(* off the stores of the oracle module.                                     *)
(***************************************************************************)
EXTENDS OracleRequests

StageOf(id) ==
  IF id \notin DOMAIN requests THEN "none"
  ELSE IF HasFinalResult(id)   THEN "resolved"
  ELSE IF IsPending(id)        THEN "ready"
  ELSE IF HasResult(id)        THEN "expired"
  ELSE IF id <= lastExpired    THEN "unanswered"
  ELSE                              "open"

Stage == [id \in RequestIDs |-> StageOf(id)]

Lifecycle == INSTANCE RequestLifecycle WITH stage <- Stage

(* Every behaviour of the handlers and the end blocker, with block          *)
(* production as the only fairness, is one of the abstract lifecycle: each  *)
(* step moves at most one request by one stage, expirations are in order,   *)
(* nothing ready or open is left waiting.                                   *)
ImplementsLifecycle == Lifecycle!Spec
=============================================================================
