------------------------- MODULE MCValidatorSampling -------------------------
(* Small instances of ValidatorSampling for TLC. *)
EXTENDS ValidatorSampling, TLC

(* Powers 1 and 3 for up to four validators, equal powers for up to seven,  *)
(* and two lists whose sum overflows.                                       *)
SomePowers ==
  UNION {[1 .. n -> {1, 3}] : n \in 0 .. 4}
    \cup {[i \in 1 .. n |-> 1] : n \in 5 .. 7}
    \cup {<<8, 9>>, <<9, 5, 3>>}
=============================================================================
