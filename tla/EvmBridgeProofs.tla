--------------------------- MODULE EvmBridgeProofs ---------------------------
(***************************************************************************)
(* Proofs about the bridge, for any validators, powers, updates, requests  *)
(* and blocks.                                                             *)
(***************************************************************************)
EXTENDS EvmBridge, SequenceTheorems, FiniteSetTheorems, TLAPS

Powers == [Validators -> Nat]
Entries == [addr : Validators, power : Nat]

-----------------------------------------------------------------------------
(* The folds that the contract and the chain are made of. *)

Pick(s) == CHOOSE x \in s : TRUE
Plus(a, b) == a + b
Largest(s) == Max(s)
AddEntry(entry, c) == AddInitial(c, entry)
SetEntry(entry, c) == SetPower(c, entry)

Adding   == INSTANCE FoldTheorems WITH op <- Plus, choose <- Pick
Building == INSTANCE FoldTheorems WITH op <- AddEntry, choose <- Largest
Updating == INSTANCE FoldTheorems WITH op <- SetEntry, choose <- Largest

LEMMA SameFinite ==
  \A S : IsFiniteSet(S) => /\ Adding!IsFiniteSet(S)
                           /\ Building!IsFiniteSet(S)
                           /\ Updating!IsFiniteSet(S)
BY DEF IsFiniteSet, Adding!IsFiniteSet, Building!IsFiniteSet, Updating!IsFiniteSet

LEMMA SumIsFold == \A f, S : SumFunctionOnSet(f, S) = Adding!Fold(f, 0, S)
BY DEF SumFunctionOnSet, FoldFunctionOnSet, MapThenFoldSet,
       Adding!Fold, Adding!MapThenFoldSet, Pick, Plus

LEMMA ConstructorIsFold ==
  \A list : Constructor(list) =
    Building!Fold(list, [ok |-> TRUE, powers |-> [v \in Validators |-> 0], total |-> 0],
                  DOMAIN list)
BY DEF Constructor, FoldLeft, MapThenFoldSet,
       Building!Fold, Building!MapThenFoldSet, Largest, AddEntry

LEMMA UpdateIsFold ==
  \A list, c : FoldLeft(SetPower, c, list) = Updating!Fold(list, c, DOMAIN list)
BY DEF FoldLeft, MapThenFoldSet, Updating!Fold, Updating!MapThenFoldSet, Largest, SetEntry

-----------------------------------------------------------------------------
(* Finite sets of numbers: the largest member, and the members in order. *)

LEMMA SmallestMember ==
  ASSUME NEW S, IsFiniteSet(S), NEW F, F \subseteq SUBSET S, F # {}
  PROVE  \E s \in F : \A t \in F : t \subseteq s => t = s
<1>1. Adding!IsFiniteSet(S)
  BY SameFinite
<1> QED
  BY <1>1, Adding!SmallestSet

LEMMA MaxProperty ==
  ASSUME NEW S, S \subseteq Nat, IsFiniteSet(S), S # {}
  PROVE  Max(S) \in S /\ \A y \in S : Max(S) >= y
<1>1. \E m \in S : \A y \in S : m >= y
  <2>1. Adding!IsFiniteSet(S)
    BY SameFinite
  <2> QED
    BY <2>1, Adding!LargestExists
<1> QED
  BY <1>1 DEF Max

LEMMA ListChooses ==
  ASSUME NEW C, NEW list \in Seq(C)
  PROVE  /\ IsFiniteSet(DOMAIN list)
         /\ Building!Chooses(DOMAIN list) /\ Updating!Chooses(DOMAIN list)
<1>1. DOMAIN list = 1 .. Len(list) /\ Len(list) \in Nat
  BY LenProperties
<1>2. IsFiniteSet(DOMAIN list) /\ DOMAIN list \subseteq Nat
  BY <1>1, FS_Interval
<1>3. \A s \in SUBSET DOMAIN list : s # {} => Largest(s) \in s
  BY <1>2, MaxProperty, FS_Subset DEF Largest
<1> QED
  BY <1>2, <1>3 DEF Building!Chooses, Updating!Chooses

(* A finite set of numbers has an ascending sequence, which Sorted takes.   *)
Sorts(s, S) == s \in [1 .. Cardinality(S) -> S] /\ Range(s) = S /\ Ascending(s)

LEMMA SortedExists ==
  ASSUME NEW S, \A x \in S : x \in Nat, IsFiniteSet(S)
  PROVE  \A T \in SUBSET S : \E s : Sorts(s, T)
<1> DEFINE F == {T \in SUBSET S : \A s : ~Sorts(s, T)}
<1> SUFFICES ASSUME F # {} PROVE FALSE
  OBVIOUS
<1>1. PICK T \in F : \A t \in F : t \subseteq T => t = T
  <2>1. F \subseteq SUBSET S
    OBVIOUS
  <2> HIDE DEF F
  <2> QED
    BY <2>1, SmallestMember
<1>2. T \in SUBSET S /\ \A s : ~Sorts(s, T)
  OBVIOUS
<1>3. IsFiniteSet(T) /\ \A x \in T : x \in Nat
  BY <1>2, FS_Subset
<1>4. T # {}
  <2>1. ASSUME T = {} PROVE Sorts(<< >>, T)
    <3>1. Cardinality(T) = 0
      BY <2>1, FS_EmptySet
    <3>2. << >> \in [1 .. Cardinality(T) -> T] /\ Range(<< >>) = T /\ Len(<< >>) = 0
      BY <2>1, <3>1, EmptySeq DEF Range
    <3> QED
      BY <3>2 DEF Sorts, Ascending
  <2> QED
    BY <1>2, <2>1
<1>5. PICK m \in T : \A y \in T : m >= y
  BY <1>3, <1>4, SameFinite, Adding!LargestExists
<1> DEFINE U == T \ {m}
<1>6. U \in SUBSET S /\ U \subseteq T /\ U # T /\ U \notin F
  BY <1>1, <1>2, <1>5
<1>7. PICK u : Sorts(u, U)
  BY <1>6
<1> DEFINE k == Cardinality(U)
           n == k + 1
           s == [i \in 1 .. n |-> IF i = n THEN m ELSE u[i]]
<1>8. k \in Nat /\ Cardinality(T) = n
  <2>1. IsFiniteSet(U) /\ m \notin U /\ T = U \cup {m}
    BY <1>3, <1>5, FS_Subset
  <2> HIDE DEF U
  <2>2. k \in Nat
    BY <2>1, FS_CardinalityType
  <2> QED
    BY <2>1, <2>2, FS_AddElement
<1>9. u \in [1 .. k -> U] /\ Range(u) = U /\ Len(u) = k
  <2>1. u \in [1 .. k -> U] /\ Range(u) = U
    BY <1>7 DEF Sorts
  <2> HIDE DEF k, U
  <2> QED
    BY <1>8, <2>1
<1> HIDE DEF k
<1>10. s \in [1 .. n -> T]
  BY <1>5, <1>8, <1>9
<1>11. s[n] = m /\ \A i \in 1 .. k : s[i] = u[i]
  BY <1>8
<1>12. 1 .. n = 1 .. k \cup {n}
  BY <1>8
<1>13. Range(s) = T
  <2>1. DOMAIN s = 1 .. n /\ DOMAIN u = 1 .. k
    BY <1>9
  <2> HIDE DEF s, n, U
  <2>2. Range(s) = Range(u) \cup {m}
    BY <1>11, <1>12, <2>1 DEF Range
  <2>3. T = U \cup {m}
    BY <1>5 DEF U
  <2> QED
    BY <1>9, <2>2, <2>3
<1>14. Ascending(s)
  <2>1. Len(s) = n
    BY <1>8, <1>10
  <2>2. ASSUME NEW i \in 1 .. Len(s) - 1 PROVE s[i] < s[i + 1]
    <3>1. i \in 1 .. k
      BY <1>8, <2>1
    <3>2. CASE i = k
      <4>1. u[i] \in U /\ u[i] \in Nat /\ m \in Nat
        BY <1>3, <1>5, <1>9, <3>1
      <4>2. s[i] = u[i] /\ s[i + 1] = m
        BY <1>11, <3>1, <3>2
      <4> QED
        BY <1>5, <4>1, <4>2
    <3>3. CASE i # k
      <4>1. i \in 1 .. Len(u) - 1 /\ i + 1 \in 1 .. k
        BY <1>8, <1>9, <3>1, <3>3
      <4>2. u[i] < u[i + 1]
        BY <1>7, <4>1 DEF Sorts, Ascending
      <4> QED
        BY <1>11, <3>1, <4>1, <4>2
    <3> QED
      BY <3>2, <3>3
  <2> QED
    BY <2>2 DEF Ascending
<1> QED
  BY <1>2, <1>8, <1>10, <1>13, <1>14 DEF Sorts

LEMMA SortedSorts ==
  ASSUME NEW S, \A x \in S : x \in Nat, IsFiniteSet(S)
  PROVE  /\ Sorted(S) \in [1 .. Cardinality(S) -> S]
         /\ Range(Sorted(S)) = S /\ Ascending(Sorted(S))
<1>1. \E s \in [1 .. Cardinality(S) -> S] : Range(s) = S /\ Ascending(s)
  BY SortedExists DEF Sorts
<1> QED
  BY <1>1 DEF Sorted

-----------------------------------------------------------------------------
(* The sum of the powers. *)

SumOf(f, S) == SumFunctionOnSet(f, S)

LEMMA PowersAdd ==
  ASSUME NEW f \in Powers
  PROVE  /\ Adding!IsFiniteSet(Validators) /\ Adding!Chooses(Validators)
         /\ Adding!Keeps(f, Validators, Nat) /\ Adding!Exchanges(f, Validators, Nat)
<1>1. Adding!IsFiniteSet(Validators)
  BY BridgeAssumption, SameFinite
<1>2. Adding!Chooses(Validators)
  BY DEF Adding!Chooses, Pick
<1>3. \A v \in Validators : f[v] \in Nat
  BY DEF Powers
<1> QED
  BY <1>1, <1>2, <1>3 DEF Adding!Keeps, Adding!Exchanges, Plus

LEMMA SumType ==
  ASSUME NEW f \in Powers, NEW S, S \subseteq Validators
  PROVE  SumOf(f, S) \in Nat
<1>1. 0 \in Nat /\ S \in SUBSET Validators
  OBVIOUS
<1>2. Adding!Fold(f, 0, S) \in Nat
  BY <1>1, PowersAdd, Adding!FoldType
<1> QED
  BY <1>2, SumIsFold DEF SumOf

LEMMA SumRemove ==
  ASSUME NEW f \in Powers, NEW a \in Validators
  PROVE  SumOf(f, Validators) = f[a] + SumOf(f, Validators \ {a})
<1>1. 0 \in Nat /\ Validators \in SUBSET Validators
  OBVIOUS
<1>2. Adding!Fold(f, 0, Validators) = Plus(f[a], Adding!Fold(f, 0, Validators \ {a}))
  BY <1>1, PowersAdd, Adding!FoldAnyFirst
<1> QED
  BY <1>2, SumIsFold DEF SumOf, Plus

(* Setting one power changes the sum by the difference.                     *)
LEMMA SumChanged ==
  ASSUME NEW f \in Powers, NEW a \in Validators, NEW x \in Nat
  PROVE  /\ [f EXCEPT ![a] = x] \in Powers
         /\ SumOf([f EXCEPT ![a] = x], Validators) = SumOf(f, Validators) - f[a] + x
<1> DEFINE g == [f EXCEPT ![a] = x]
           S == Validators \ {a}
<1>1. g \in Powers /\ g[a] = x /\ f[a] \in Nat /\ \A v \in S : f[v] = g[v]
  BY DEF Powers
<1>2. SumOf(f, S) = SumOf(g, S)
  <2>1. IsFiniteSet(S)
    BY BridgeAssumption, FS_Subset
  <2>2. Adding!IsFiniteSet(S) /\ Adding!Chooses(S)
    BY <2>1, SameFinite DEF Adding!Chooses, Pick
  <2>3. S \in SUBSET S
    OBVIOUS
  <2> HIDE DEF S, g
  <2>4. Adding!Fold(f, 0, S) = Adding!Fold(g, 0, S)
    BY <1>1, <2>2, <2>3, Adding!FoldSame
  <2> QED
    BY <2>4, SumIsFold DEF SumOf
<1>3. SumOf(f, S) \in Nat
  BY SumType
<1>4. /\ SumOf(f, Validators) = f[a] + SumOf(f, S)
      /\ SumOf(g, Validators) = x + SumOf(g, S)
  BY <1>1, SumRemove
<1> HIDE DEF g, S
<1>5. SumOf(g, Validators) = SumOf(f, Validators) - f[a] + x
  BY <1>1, <1>2, <1>3, <1>4
<1> QED
  BY <1>1, <1>5 DEF g

LEMMA SumZero == SumOf([v \in Validators |-> 0], Validators) = 0
<1> DEFINE f == [v \in Validators |-> 0]
<1>1. f \in Powers /\ \A v \in Validators : f[v] = 0
  BY DEF Powers
<1> HIDE DEF f
<1>2. 0 \in {0} /\ Validators \in SUBSET Validators /\ Adding!Keeps(f, Validators, {0})
  BY <1>1 DEF Adding!Keeps, Plus
<1>3. Adding!Fold(f, 0, Validators) \in {0}
  BY <1>1, <1>2, PowersAdd, Adding!FoldType
<1> QED
  BY <1>3, SumIsFold DEF SumOf, f

-----------------------------------------------------------------------------
(* Both loops of the contract keep the total equal to the sum. *)

Totals(c) == c.powers \in Powers /\ c.total = SumOf(c.powers, Validators)

LEMMA EntryOfList ==
  ASSUME NEW list \in Seq(Entries), NEW i \in DOMAIN list
  PROVE  list[i] \in Entries /\ list[i].addr \in Validators /\ list[i].power \in Nat
<1>1. list[i] \in Entries
  BY LenProperties
<1> QED
  BY <1>1 DEF Entries

LEMMA SetPowerEffect ==
  ASSUME NEW d \in [powers : Powers, total : Nat], NEW e \in Entries
  PROVE  SetPower(d, e) = [powers |-> [d.powers EXCEPT ![e.addr] = e.power],
                           total  |-> d.total - d.powers[e.addr] + e.power]
<1> DEFINE r == SetPower(d, e)
<1>1. DOMAIN r = {"powers", "total"}
  BY DEF SetPower
<1>2. r.powers = [d.powers EXCEPT ![e.addr] = e.power]
  BY DEF SetPower
<1>3. r.total = d.total - d.powers[e.addr] + e.power
  BY DEF SetPower
<1>4. r = [x \in {"powers", "total"} |-> r[x]]
  BY <1>1 DEF SetPower
<1> HIDE DEF r
<1> QED
  BY <1>1, <1>2, <1>3, <1>4 DEF r

LEMMA UpdateKeepsTotal ==
  ASSUME NEW c, c = [powers |-> c.powers, total |-> c.total], Totals(c),
         NEW list \in Seq(Entries)
  PROVE  Totals(FoldLeft(SetPower, c, list))
<1> DEFINE C == {d \in [powers : Powers, total : Nat] : Totals(d)}
           D == DOMAIN list
<1>1. c \in C
  BY SumType DEF Totals
<1>2. ASSUME NEW i \in D, NEW d \in C PROVE SetEntry(list[i], d) \in C
  <2>1. list[i].addr \in Validators /\ list[i].power \in Nat
    BY EntryOfList
  <2> DEFINE p == [d.powers EXCEPT ![list[i].addr] = list[i].power]
             t == d.total - d.powers[list[i].addr] + list[i].power
  <2>2. p \in Powers /\ SumOf(p, Validators) = t /\ t \in Nat
    BY <2>1, SumChanged, SumType DEF Totals
  <2>3. SetEntry(list[i], d) = [powers |-> p, total |-> t]
    BY EntryOfList, SetPowerEffect DEF SetEntry
  <2> QED
    BY <2>2, <2>3 DEF Totals
<1>3. Updating!IsFiniteSet(D) /\ Updating!Chooses(D) /\ D \in SUBSET D
  BY ListChooses, SameFinite
<1> HIDE DEF C, D
<1>4. Updating!Keeps(list, D, C)
  BY <1>2 DEF Updating!Keeps
<1>5. Updating!Fold(list, c, D) \in C
  BY <1>1, <1>3, <1>4, Updating!FoldType
<1> QED
  BY <1>5, UpdateIsFold DEF C, D

LEMMA ConstructorTotals ==
  ASSUME NEW list \in Seq(Entries)
  PROVE  Totals(Constructor(list))
<1> DEFINE C == {d \in [ok : BOOLEAN, powers : Powers, total : Nat] : Totals(d)}
           D == DOMAIN list
           c == [ok |-> TRUE, powers |-> [v \in Validators |-> 0], total |-> 0]
<1>1. c \in C
  BY SumZero DEF Totals, Powers
<1>2. ASSUME NEW i \in D, NEW d \in C PROVE AddEntry(list[i], d) \in C
  <2>1. list[i].addr \in Validators /\ list[i].power \in Nat
    BY EntryOfList
  <2> DEFINE p == [d.powers EXCEPT ![list[i].addr] = list[i].power]
             t == d.total + list[i].power
  <2>2. CASE d.ok /\ d.powers[list[i].addr] = 0
    <3>1. p \in Powers /\ SumOf(p, Validators) = t /\ t \in Nat
      BY <2>1, <2>2, SumChanged, SumType DEF Totals
    <3>2. AddEntry(list[i], d) = [ok |-> d.ok, powers |-> p, total |-> t]
      BY <2>1, <2>2 DEF AddEntry, AddInitial, Powers
    <3> QED
      BY <3>1, <3>2 DEF Totals
  <2>3. CASE ~(d.ok /\ d.powers[list[i].addr] = 0)
    BY <2>3 DEF AddEntry, AddInitial, Totals
  <2> QED
    BY <2>2, <2>3
<1>3. Building!IsFiniteSet(D) /\ Building!Chooses(D) /\ D \in SUBSET D
  BY ListChooses, SameFinite
<1> HIDE DEF C, D, c
<1>4. Building!Keeps(list, D, C)
  BY <1>2 DEF Building!Keeps
<1>5. Building!Fold(list, c, D) \in C
  BY <1>1, <1>3, <1>4, Building!FoldType
<1> QED
  BY <1>5, ConstructorIsFold DEF C, D, c

-----------------------------------------------------------------------------
(* The inductive invariant. *)

Blocks == [vals : ValidatorSets, executed : Seq(Requests)]

BridgeType ==
  /\ chain \in Seq(Blocks) /\ Len(chain) >= 1
  /\ powers \in Powers /\ total = SumOf(powers, Validators)
  /\ bot \in [step : {"idle", "nonce", "send", "stopped"}, list : Seq(Entries),
              nonceUsed : BOOLEAN]
  /\ pending \in Seq(Seq(Entries))

(* A proof is of a block of the chain: signed by enough of its validators,  *)
(* and with the state in its header.                                        *)
SignedProof ==
  proof.step \in {"commit", "ready"} =>
    /\ proof.id \in Requests
    /\ proof.height \in 2 .. Len(chain)
    /\ Ascending(proof.signatures)
    /\ Range(proof.signatures) \in Signers(proof.height)

StateProof ==
  proof.step = "ready" =>
    /\ proof.state = HeaderState(proof.height)
    /\ proof.version = proof.state[proof.id].version
    /\ proof.version # 0
    /\ proof.packets = PacketsOf(proof.version)

ProofFields == DOMAIN proof = DOMAIN NoProof

RelayedStates ==
  \A h \in DOMAIN oracleStates : h \in 1 .. Len(chain) /\ oracleStates[h] = HeaderState(h)

ProofInv == ProofFields /\ SignedProof /\ StateProof /\ RelayedStates

-----------------------------------------------------------------------------
(* What is saved in a block, and what a header holds, is there for good. *)

Saved(height, r) == {h \in 1 .. height : r \in Range(chain[h].executed)}

LEMMA LeafAt ==
  ASSUME NEW height \in Nat, NEW r \in Requests
  PROVE  \/ StateAt(height)[r] = NoLeaf /\ Saved(height, r) = {}
         \/ \E v \in 1 .. height : v = Max(Saved(height, r))
              /\ StateAt(height)[r] = [version |-> v, packets |-> <<r, v>>]
<1>1. StateAt(height)[r] =
        IF Saved(height, r) = {} THEN NoLeaf
        ELSE [version |-> Max(Saved(height, r)), packets |-> <<r, Max(Saved(height, r))>>]
  BY DEF StateAt, Saved
<1>2. ASSUME Saved(height, r) # {} PROVE Max(Saved(height, r)) \in 1 .. height
  <2>1. IsFiniteSet(1 .. height)
    BY FS_Interval
  <2>2. Saved(height, r) \subseteq 1 .. height
    BY DEF Saved
  <2>3. IsFiniteSet(Saved(height, r)) /\ Saved(height, r) \subseteq Nat
    BY <2>1, <2>2, FS_Subset
  <2> QED
    BY <1>2, <2>2, <2>3, MaxProperty
<1> QED
  BY <1>1, <1>2

LEMMA StateKept ==
  ASSUME BridgeType, NEW b \in Blocks, chain' = Append(chain, b)
  PROVE  /\ chain' \in Seq(Blocks) /\ Len(chain') = Len(chain) + 1
         /\ \A h \in 1 .. Len(chain) : chain'[h] = chain[h]
         /\ \A h \in 0 .. Len(chain) : StateAt(h)' = StateAt(h)
<1>1. /\ chain \in Seq(Blocks) /\ Len(chain) \in Nat /\ chain' \in Seq(Blocks)
      /\ Len(chain') = Len(chain) + 1
      /\ \A h \in 1 .. Len(chain) : chain'[h] = chain[h]
  BY AppendProperties, LenProperties DEF BridgeType
<1>2. ASSUME NEW h \in 0 .. Len(chain) PROVE StateAt(h)' = StateAt(h)
  <2>1. ASSUME NEW r \in Requests PROVE Saved(h, r)' = Saved(h, r)
    <3>1. \A k \in 1 .. h : chain'[k] = chain[k]
      BY <1>1
    <3> QED
      BY <3>1 DEF Saved
  <2>2. /\ StateAt(h) = [r \in Requests |-> IF Saved(h, r) = {} THEN NoLeaf
                          ELSE [version |-> Max(Saved(h, r)), packets |-> <<r, Max(Saved(h, r))>>]]
        /\ StateAt(h)' = [r \in Requests |-> IF Saved(h, r)' = {} THEN NoLeaf
                          ELSE [version |-> Max(Saved(h, r)'), packets |-> <<r, Max(Saved(h, r)')>>]]
    BY DEF StateAt, Saved, NoLeaf
  <2> QED
    BY <2>1, <2>2
<1> QED
  BY <1>1, <1>2

-----------------------------------------------------------------------------
(* Types, and the total. *)

LEMMA ValsArePowers == \A vals \in ValidatorSets : vals \in Powers
BY BridgeAssumption DEF Powers

LEMMA ActiveValidators ==
  ASSUME NEW S, S \subseteq Validators
  PROVE  (\A x \in S : x \in Nat) /\ IsFiniteSet(S)
BY BridgeAssumption, FS_Subset

LEMMA PageType ==
  ASSUME NEW vals \in ValidatorSets
  PROVE  ValidatorPage(vals) \in Seq(Entries)
<1> DEFINE S == {v \in Validators : vals[v] > 0}
           addrs == Sorted(S)
           n == Min({PageSize, Len(addrs)})
<1>1. addrs \in [1 .. Cardinality(S) -> S] /\ Cardinality(S) \in Nat
  <2>1. (\A x \in S : x \in Nat) /\ IsFiniteSet(S)
    BY ActiveValidators
  <2> QED
    BY <2>1, SortedSorts, FS_CardinalityType
<1>2. S \subseteq Validators /\ PageSize \in Nat /\ vals \in [Validators -> Nat]
  BY BridgeAssumption
<1> HIDE DEF S, addrs
<1>3. Len(addrs) = Cardinality(S)
  BY <1>1
<1>4. n \in Nat /\ n <= Cardinality(S)
  <2>1. \E x \in {PageSize, Len(addrs)} : \A y \in {PageSize, Len(addrs)} : x =< y
    BY <1>1, <1>2, <1>3
  <2>2. n \in {PageSize, Len(addrs)} /\ \A y \in {PageSize, Len(addrs)} : n =< y
    BY <2>1 DEF Min
  <2> HIDE DEF n
  <2> QED
    BY <1>1, <1>2, <1>3, <2>2
<1> HIDE DEF n
<1>5. \A i \in 1 .. n : [addr |-> addrs[i], power |-> vals[addrs[i]]] \in Entries
  BY <1>1, <1>2, <1>4 DEF Entries
<1>6. [i \in 1 .. n |-> [addr |-> addrs[i], power |-> vals[addrs[i]]]] \in Seq(Entries)
  BY <1>4, <1>5
<1> QED
  BY <1>6 DEF ValidatorPage, S, addrs, n

LEMMA UpdateTyped ==
  ASSUME BridgeType, NEW list \in Seq(Entries), UpdateValidatorPowers(list)
  PROVE  powers' \in Powers /\ total' = SumOf(powers', Validators)
<1> DEFINE c == [powers |-> powers, total |-> total]
           d == FoldLeft(SetPower, c, list)
<1>1. c = [powers |-> c.powers, total |-> c.total] /\ Totals(c)
  BY DEF BridgeType, Totals
<1>2. Totals(d)
  BY <1>1, UpdateKeepsTotal
<1>3. powers' = d.powers /\ total' = d.total
  BY DEF UpdateValidatorPowers
<1> HIDE DEF d
<1> QED
  BY <1>2, <1>3 DEF Totals

LEMMA TypeInit == Init => BridgeType
<1> SUFFICES ASSUME Init PROVE BridgeType
  OBVIOUS
<1>1. chain \in Seq(Blocks) /\ Len(chain) = 1
  <2>1. PICK vals \in ValidatorSets : chain = <<[vals |-> vals, executed |-> << >>]>>
    BY DEF Init
  <2>2. [vals |-> vals, executed |-> << >>] \in Blocks
    BY EmptySeq DEF Blocks
  <2> QED
    BY <2>1, <2>2
<1>2. powers \in Powers /\ total = SumOf(powers, Validators)
  <2>1. PICK list \in InitialLists : /\ powers = Constructor(list).powers
                                     /\ total = Constructor(list).total
    BY DEF Init
  <2>2. list \in Seq(Entries)
    BY BridgeAssumption DEF Entries
  <2> QED
    BY <2>1, <2>2, ConstructorTotals DEF Totals
<1>3. << >> \in Seq(Entries) /\ << >> \in Seq(Seq(Entries))
  BY EmptySeq
<1> QED
  BY <1>1, <1>2, <1>3 DEF Init, BridgeType

LEMMA TypeStep == BridgeType /\ [Next]_vars => BridgeType'
<1> SUFFICES ASSUME BridgeType, [Next]_vars PROVE BridgeType'
  OBVIOUS
<1>1. CASE NewBlock
  <2>1. PICK vals \in ValidatorSets, executed \in Executions :
               chain' = Append(chain, [vals |-> vals, executed |-> executed])
    BY <1>1 DEF NewBlock
  <2>2. [vals |-> vals, executed |-> executed] \in Blocks
    BY BridgeAssumption DEF Blocks
  <2>3. chain' \in Seq(Blocks) /\ Len(chain') = Len(chain) + 1 /\ Len(chain) \in Nat
    BY <2>1, <2>2, StateKept, LenProperties DEF BridgeType
  <2> QED
    BY <1>1, <2>3 DEF NewBlock, BridgeType, contract
<1>2. ASSUME UNCHANGED <<chain, powers, total, bot, pending>> PROVE BridgeType'
  BY <1>2 DEF BridgeType
<1>3. ASSUME NEW r \in Requests, GetCommit(r) PROVE BridgeType'
  BY <1>2, <1>3 DEF GetCommit, contract
<1>4. CASE GetData \/ RelayOracleState \/ RelayAndVerify
  BY <1>2, <1>4 DEF GetData, RelayOracleState, RelayAndVerify, contract
<1>5. CASE GetValidators
  <2>1. Last(chain).vals \in ValidatorSets
    <3>1. chain[Len(chain)] \in Blocks
      BY LenProperties DEF BridgeType
    <3> QED
      BY <3>1 DEF Last, Blocks
  <2>2. ValidatorPage(Last(chain).vals) \in Seq(Entries)
    BY <2>1, PageType
  <2> QED
    BY <1>5, <2>2 DEF GetValidators, BridgeType, contract
<1>6. CASE GetNonce
  BY <1>6 DEF GetNonce, BridgeType, contract
<1>7. CASE SendTransaction
  <2>1. bot.list \in Seq(Entries)
    BY DEF BridgeType
  <2>2. <<bot.list>> \in Seq(Seq(Entries))
    BY <2>1
  <2>3. pending' \in Seq(Seq(Entries))
    BY <1>7, <2>2 DEF SendTransaction, BridgeType
  <2> QED
    BY <1>7, <2>3 DEF SendTransaction, BridgeType, contract
<1>8. CASE CallFails \/ BotRestarts
  BY <1>8, EmptySeq DEF CallFails, BotRestarts, BridgeType, contract
<1>9. CASE Mine
  <2>1. pending # << >> /\ pending \in Seq(Seq(Entries))
    BY <1>9 DEF Mine, BridgeType
  <2>2. Head(pending) \in Seq(Entries) /\ Tail(pending) \in Seq(Seq(Entries))
    BY <2>1, HeadTailProperties
  <2>3. powers' \in Powers /\ total' = SumOf(powers', Validators)
    BY <1>9, <2>2, UpdateTyped DEF Mine
  <2> QED
    BY <1>9, <2>2, <2>3 DEF Mine, BridgeType
<1>10. CASE OwnerUpdates
  <2>1. PICK list \in OwnerLists : pending' = Append(pending, list)
    BY <1>10 DEF OwnerUpdates
  <2>2. list \in Seq(Entries) /\ pending \in Seq(Seq(Entries))
    BY BridgeAssumption DEF Entries, BridgeType
  <2>3. pending' \in Seq(Seq(Entries))
    BY <2>1, <2>2, AppendProperties
  <2> QED
    BY <1>10, <2>3 DEF OwnerUpdates, BridgeType, contract
<1>11. CASE UNCHANGED vars
  BY <1>2, <1>11 DEF vars, contract
<1> QED
  BY <1>1, <1>3, <1>4, <1>5, <1>6, <1>7, <1>8, <1>9, <1>10, <1>11 DEF Next, BotRound

-----------------------------------------------------------------------------
(* Proofs, and the states that are relayed with them. *)

(* The version of a proof is a block before the one it is of.               *)
LEMMA VersionInChain ==
  ASSUME ProofInv, proof.step = "ready", Len(chain) \in Nat
  PROVE  /\ proof.version \in 1 .. Len(chain)
         /\ proof.state[proof.id] = [version |-> proof.version,
                                     packets |-> <<proof.id, proof.version>>]
<1> DEFINE h == proof.height - 1
<1>1. proof.id \in Requests /\ h \in Nat /\ h <= Len(chain) /\ proof.state = StateAt(h)
  BY DEF ProofInv, SignedProof, StateProof, HeaderState
<1> HIDE DEF h
<1>2. proof.version = StateAt(h)[proof.id].version /\ proof.version # 0
  BY <1>1 DEF ProofInv, StateProof
<1>3. StateAt(h)[proof.id] # NoLeaf
  BY <1>2 DEF NoLeaf
<1>4. PICK v \in 1 .. h : StateAt(h)[proof.id] = [version |-> v, packets |-> <<proof.id, v>>]
  BY <1>1, <1>3, LeafAt
<1>5. proof.version = v
  BY <1>2, <1>4
<1> QED
  BY <1>1, <1>4, <1>5

LEMMA ProofInit == Init => ProofInv
BY DEF Init, NoProof, ProofInv, ProofFields, SignedProof, StateProof, RelayedStates

LEMMA ProofStep == BridgeType /\ ProofInv /\ [Next]_vars => ProofInv'
<1> SUFFICES ASSUME BridgeType, ProofInv, [Next]_vars PROVE ProofInv'
  OBVIOUS
<1>0. /\ ProofFields /\ SignedProof /\ StateProof /\ RelayedStates
      /\ Len(chain) \in Nat /\ Len(chain) >= 1
  BY LenProperties DEF ProofInv, BridgeType
<1>1. CASE NewBlock
  <2>1. PICK vals \in ValidatorSets, executed \in Executions :
               chain' = Append(chain, [vals |-> vals, executed |-> executed])
    BY <1>1 DEF NewBlock
  <2>2. [vals |-> vals, executed |-> executed] \in Blocks /\ UNCHANGED <<proof, oracleStates>>
    BY <1>1, BridgeAssumption DEF Blocks, NewBlock, contract
  <2>3. /\ Len(chain') = Len(chain) + 1
        /\ \A h \in 1 .. Len(chain) : chain'[h] = chain[h]
        /\ \A h \in 0 .. Len(chain) : StateAt(h)' = StateAt(h)
    BY <2>1, <2>2, StateKept
  <2>4. \A h \in 1 .. Len(chain) :
          /\ HeaderState(h)' = HeaderState(h)
          /\ Signers(h)' = Signers(h)
          /\ PacketsOf(h)' = PacketsOf(h)
    <3> SUFFICES ASSUME NEW h \in 1 .. Len(chain)
                 PROVE  /\ HeaderState(h)' = HeaderState(h)
                        /\ Signers(h)' = Signers(h)
                        /\ PacketsOf(h)' = PacketsOf(h)
      OBVIOUS
    <3>1. h - 1 \in 0 .. Len(chain) /\ chain'[h] = chain[h]
      BY <1>0, <2>3
    <3>2. StateAt(h - 1)' = StateAt(h - 1)
      BY <2>3, <3>1
    <3> QED
      BY <3>1, <3>2 DEF HeaderState, Signers, PacketsOf
  <2>5. SignedProof'
    BY <1>0, <2>2, <2>3, <2>4 DEF SignedProof
  <2>6. StateProof'
    <3> SUFFICES ASSUME proof.step = "ready"
                 PROVE  /\ proof.state = HeaderState(proof.height)'
                        /\ proof.version = proof.state[proof.id].version
                        /\ proof.version # 0
                        /\ proof.packets = PacketsOf(proof.version)'
      BY <2>2 DEF StateProof
    <3>1. proof.height \in 1 .. Len(chain) /\ proof.version \in 1 .. Len(chain)
      BY <1>0, VersionInChain DEF SignedProof
    <3>2. /\ HeaderState(proof.height)' = HeaderState(proof.height)
          /\ PacketsOf(proof.version)' = PacketsOf(proof.version)
      BY <2>2, <2>4, <3>1
    <3> QED
      BY <1>0, <3>2 DEF StateProof
  <2>7. RelayedStates'
    BY <1>0, <2>2, <2>3, <2>4 DEF RelayedStates
  <2> QED
    BY <1>0, <2>2, <2>5, <2>6, <2>7 DEF ProofInv, ProofFields
<1>2. ASSUME UNCHANGED <<chain, oracleStates>> PROVE RelayedStates'
  <2>1. \A h : HeaderState(h)' = HeaderState(h)
    BY <1>2 DEF HeaderState, StateAt
  <2> QED
    BY <1>0, <1>2, <2>1 DEF RelayedStates
<1>3. ASSUME NEW r \in Requests, GetCommit(r) PROVE ProofInv'
  <2>1. PICK S \in Signers(Len(chain)) :
               proof' = [NoProof EXCEPT !.step = "commit", !.id = r, !.height = Len(chain),
                                        !.signatures = Sorted(S)]
    BY <1>3 DEF GetCommit
  <2>2. Len(chain) >= 2 /\ UNCHANGED <<chain, oracleStates>>
    BY <1>3 DEF GetCommit, contract
  <2>3. S \subseteq Validators
    BY DEF Signers
  <2>4. Range(Sorted(S)) = S /\ Ascending(Sorted(S))
    BY <2>3, ActiveValidators, SortedSorts
  <2>5. /\ proof'.step = "commit" /\ proof'.id = r /\ proof'.height = Len(chain)
        /\ proof'.signatures = Sorted(S) /\ DOMAIN proof' = DOMAIN NoProof
    BY <2>1 DEF NoProof
  <2>6. SignedProof'
    BY <1>0, <2>2, <2>4, <2>5 DEF SignedProof, Signers
  <2> QED
    BY <1>2, <2>2, <2>5, <2>6 DEF ProofInv, ProofFields, StateProof
<1>4. CASE GetData
  <2> DEFINE state == StateAt(proof.height - 1)
             version == state[proof.id].version
  <2>1. proof.step = "commit" /\ proof' = WithData(state) /\ UNCHANGED <<chain, oracleStates>>
    BY <1>4 DEF GetData, contract
  <2>2. CASE version = 0
    <3>1. proof' = NoProof
      BY <2>1, <2>2 DEF WithData
    <3> QED
      BY <1>2, <2>1, <3>1 DEF ProofInv, ProofFields, SignedProof, StateProof, NoProof
  <2>3. CASE version # 0
    <3> HIDE DEF state
    <3>1. proof' = [proof EXCEPT !.step = "ready", !.state = state, !.version = version,
                                 !.packets = PacketsOf(version)]
      BY <2>1, <2>3 DEF WithData
    <3>2. /\ proof'.step = "ready" /\ proof'.state = state /\ proof'.version = version
          /\ proof'.packets = PacketsOf(version)
          /\ proof'.id = proof.id /\ proof'.height = proof.height
          /\ proof'.signatures = proof.signatures /\ DOMAIN proof' = DOMAIN NoProof
      BY <1>0, <3>1 DEF ProofFields, NoProof
    <3>3. SignedProof'
      BY <1>0, <2>1, <3>2 DEF SignedProof, Signers
    <3>4. StateProof'
      BY <2>1, <2>3, <3>2 DEF StateProof, HeaderState, StateAt, PacketsOf, state
    <3> QED
      BY <1>2, <2>1, <3>2, <3>3, <3>4 DEF ProofInv, ProofFields
  <2> QED
    BY <2>2, <2>3
<1>5. ASSUME UNCHANGED <<chain, proof>> PROVE ProofFields' /\ SignedProof' /\ StateProof'
  BY <1>0, <1>5
     DEF ProofFields, SignedProof, StateProof, Signers, HeaderState, StateAt, PacketsOf
<1>6. CASE RelayOracleState \/ RelayAndVerify
  <2>1. proof.step = "ready" /\ oracleStates' = Relayed(proof) /\ UNCHANGED <<chain, proof>>
    BY <1>6 DEF RelayOracleState, RelayAndVerify
  <2>2. proof.state = HeaderState(proof.height) /\ proof.height \in 1 .. Len(chain)
    BY <1>0, <2>1 DEF StateProof, SignedProof
  <2>3. \A h \in DOMAIN oracleStates' :
          h \in 1 .. Len(chain) /\ oracleStates'[h] = HeaderState(h)
    BY <1>0, <2>1, <2>2 DEF Relayed, RelayedStates
  <2>4. \A h : HeaderState(h)' = HeaderState(h)
    BY <2>1 DEF HeaderState, StateAt
  <2>5. RelayedStates'
    BY <2>1, <2>3, <2>4 DEF RelayedStates
  <2> QED
    BY <1>5, <2>1, <2>5 DEF ProofInv
<1>7. CASE UNCHANGED <<chain, proof, oracleStates>>
  BY <1>2, <1>5, <1>7 DEF ProofInv
<1> QED
  BY <1>1, <1>3, <1>4, <1>6, <1>7
     DEF Next, BotRound, GetValidators, GetNonce, SendTransaction, CallFails, BotRestarts,
         Mine, OwnerUpdates, UpdateValidatorPowers, contract, vars

(* The proof service and relayOracleState, for any validators and updates:  *)
(* only powers that differ from the signers' make the contract refuse.      *)
THEOREM PowersSuffice == Spec => []CurrentPowersSuffice
<1>1. BridgeType /\ ProofInv => CurrentPowersSuffice
  <2> SUFFICES ASSUME BridgeType, ProofInv, proof.step = "ready",
                      powers = chain[proof.height].vals
               PROVE  RelayAccepted(proof)
    BY DEF CurrentPowersSuffice
  <2> DEFINE S == Range(proof.signatures)
  <2>1. Ascending(proof.signatures) /\ S \in Signers(proof.height)
    BY DEF ProofInv, SignedProof
  <2>2. SumVotingPower(proof) = SumFunctionOnSet(powers, S)
    BY DEF ProofInv, StateProof, SumVotingPower
  <2>3. SumFunctionOnSet(powers, S) * 3 > SumFunction(powers) * 2
    BY <2>1 DEF Signers
  <2>4. total = SumFunction(powers)
    BY DEF BridgeType, SumFunction, SumOf, Powers
  <2> QED
    BY <2>1, <2>2, <2>3, <2>4 DEF RelayAccepted
<1> QED
  BY <1>1, TypeInit, TypeStep, ProofInit, ProofStep, PTL DEF Spec

(* The proof service and verifyOracleData, for any blocks: no packets but   *)
(* those of the result are accepted, and the last result of a block has a   *)
(* proof that is.                                                           *)
THEOREM LastProved == Spec => []LastOfBlockProved
<1>1. BridgeType /\ ProofInv => LastOfBlockProved
  <2> SUFFICES ASSUME BridgeType, ProofInv, proof.step = "ready",
                      proof.height \in DOMAIN oracleStates
               PROVE  LET version == HeaderState(proof.height)[proof.id].version
                          accepted == VerifyAccepted(proof, oracleStates)
                      IN  /\ accepted => proof.packets = <<proof.id, version>>
                          /\ version # 0 /\ proof.id = Last(chain[version].executed) => accepted
    BY DEF LastOfBlockProved
  <2> DEFINE leaf == [version |-> proof.version, packets |-> proof.packets]
             state == proof.state
  <2>1. /\ proof.id \in Requests
        /\ state = HeaderState(proof.height) /\ oracleStates[proof.height] = state
        /\ proof.version = state[proof.id].version
        /\ proof.packets = PacketsOf(proof.version)
    BY DEF ProofInv, SignedProof, StateProof, RelayedStates
  <2>2. state[proof.id] = [version |-> proof.version, packets |-> <<proof.id, proof.version>>]
    BY VersionInChain, LenProperties DEF BridgeType
  <2>3. state = [r \in Requests |-> state[r]]
    BY <2>1 DEF HeaderState, StateAt
  <2>4. VerifyAccepted(proof, oracleStates) <=> state[proof.id] = leaf
    <3>1. VerifyAccepted(proof, oracleStates) <=> [state EXCEPT ![proof.id] = leaf] = state
      BY <2>1 DEF VerifyAccepted, ComputedRoot
    <3> HIDE DEF state, leaf
    <3> QED
      BY <2>1, <2>3, <3>1
  <2>5. state[proof.id] = leaf <=> proof.packets = <<proof.id, proof.version>>
    BY <2>2
  <2>6. proof.packets = <<Last(chain[proof.version].executed), proof.version>>
    BY <2>1 DEF PacketsOf
  <2> QED
    BY <2>1, <2>4, <2>5, <2>6
<1> QED
  BY <1>1, TypeInit, TypeStep, ProofInit, ProofStep, PTL DEF Spec
=============================================================================
