-------------------------- MODULE RequestLifecycle --------------------------
(***************************************************************************)
(* What the oracle module promises of its requests, one stage per request  *)
(* ID: requests are numbered in the order they are made; a request that    *)
(* has its reports ("ready") is executed once and for all ("resolved");    *)
(* one that is still open expires, in the order of the IDs, with a result  *)
(* ("expired") or without ("unanswered").  An expired request may still    *)
(* become ready, by late reports; a resolved or unanswered one never       *)
(* changes again.                                                          *)
(***************************************************************************)
EXTENDS Integers

CONSTANT MaxRequests   \* bound: requests ever made

VARIABLE stage         \* request ID -> stage

IDs    == 1 .. MaxRequests
Stages == {"none", "open", "ready", "resolved", "expired", "unanswered"}

Init == stage = [id \in IDs |-> "none"]

Moves(id, from, to) ==
  /\ stage[id] \in from
  /\ stage' = [stage EXCEPT ![id] = to]

Ask(id) ==
  /\ \A j \in IDs : j < id => stage[j] # "none"
  /\ Moves(id, {"none"}, "open")

Complete(id) == Moves(id, {"open", "expired"}, "ready")

Resolve(id) == Moves(id, {"ready"}, "resolved")

Expire(id) ==
  /\ \A j \in IDs : j < id => stage[j] # "open"
  /\ \E to \in {"expired", "unanswered"} : Moves(id, {"open"}, to)

Next == \E id \in IDs : Ask(id) \/ Complete(id) \/ Resolve(id) \/ Expire(id)

SafeSpec == Init /\ [][Next]_stage

(* Nothing waits forever: what is ready is executed, what is open expires. *)
Spec ==
  /\ SafeSpec
  /\ \A id \in IDs : WF_stage(Resolve(id)) /\ WF_stage(Expire(id))
=============================================================================
