-------------------------- MODULE MCOracleRequests --------------------------
(***************************************************************************)
(* Small instances of OracleRequests for TLC: the lists of external IDs a  *)
(* script asks for, and what the staking modules do meanwhile.             *)
(***************************************************************************)
EXTENDS OracleLifecycle, OracleGenesis, TLC

(* A list that a script may ask for; lists that exceed a MaxRawRequestCount *)
(* of two, repeat an external ID, or are empty.                             *)
OneSource   == {<<1>>}
SomeSources == {<<1, 2, 3>>, <<1, 1>>, << >>}

NoMoves  == {}
AllMoves ==
  {<<"bonded", "unbonded">>, <<"unbonded", "bonded">>, <<"bonded", "jailed">>,
   <<"jailed", "bonded">>, <<"jailed", "unbonded">>, <<"unbonded", "jailed">>,
   <<"unbonded", "absent">>, <<"absent", "unbonded">>, <<"jailed", "absent">>}

Symmetry == Permutations(Validators)
=============================================================================
