---------------------------- MODULE MCEvmBridge ----------------------------
(* A small instance of EvmBridge: three validators, of which the page holds *)
(* two, sets that grow, shrink and change power, and lists with duplicates. *)
EXTENDS EvmBridge

MCValidators == 1 .. 3
MCExecutions == {<< >>, <<2, 1>>}
MCValidatorSets == {<<1, 1, 0>>, <<0, 2, 1>>, <<2, 1, 1>>}

Entry(addr, power) == [addr |-> addr, power |-> power]
MCInitialLists ==
  {<<Entry(3, 0), Entry(3, 1), Entry(2, 2)>>, <<Entry(2, 1), Entry(2, 2)>>}
MCOwnerLists == {<<Entry(1, 0), Entry(3, 2), Entry(3, 1)>>}
=============================================================================
