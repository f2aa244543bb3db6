-------------------------- MODULE ValidatorSampling --------------------------
(***************************************************************************)
(* The choice of the validators of a request: ChooseK of                   *)
(* chain/pkg/bandrng, as GetRandomValidators calls it.  The numbers of the *)
(* generator (a chain of SHA-256 hashes of the block's seed) are any       *)
(* numbers here.  An index of weights is a validator, by decreasing power. *)
(***************************************************************************)
EXTENDS Integers, Sequences, FiniteSets, SequencesExt

CONSTANTS
  WeightSeqs,   \* lists of weights (bonded tokens) to choose from
  MaxUint64     \* the largest weight and sum of weights

ASSUME WeightsTyped ==
  MaxUint64 \in Nat /\ \A ws \in WeightSeqs : ws \in Seq(1 .. MaxUint64)

VARIABLES
  weights,        \* the power of each bonded validator
  k,              \* how many to choose
  weightIndexes,  \* validators not yet chosen, in the order of weights
  luckies,        \* validators chosen
  status          \* "running", "done" or "panic"

vars == <<weights, k, weightIndexes, luckies, status>>

totalCount == Len(weights)
round      == Len(luckies)

(* GetRandomValidators refuses more validators than there are. *)
Init ==
  /\ weights \in WeightSeqs
  /\ k \in 0 .. totalCount
  /\ weightIndexes = [i \in 1 .. totalCount |-> i]
  /\ luckies = << >>
  /\ status = "running"

-----------------------------------------------------------------------------
SumOf(ws) == FoldLeft(LAMBDA sum, w : sum + w, 0, ws)

(* Mutant: the lucky number may be the sum itself. *)
ChooseOneInclusive(ws, lucky) ==
  LET ends == {i \in 1 .. Len(ws) : SumOf(SubSeq(ws, 1, i)) > lucky % (SumOf(ws) + 1)}
  IN  {i \in ends : \A j \in ends : i <= j}

(* Mutant: the sum up to an index may be equal to the lucky number. *)
ChooseOneReached(ws, lucky) ==
  LET ends == {i \in 1 .. Len(ws) : SumOf(SubSeq(ws, 1, i)) >= lucky % SumOf(ws)}
  IN  {i \in ends : \A j \in ends : i <= j}

(* ChooseOne, as the set of its results: the first index at which the sum   *)
(* of the weights exceeds the lucky number; none is a panic.                *)
ChooseOne(ws, lucky) ==
  LET ends == {i \in 1 .. Len(ws) : SumOf(SubSeq(ws, 1, i)) > lucky % SumOf(ws)}
  IN  {i \in ends : \A j \in ends : i <= j}

(* A natural power of a natural number, as a product. *)
Pow(base, n) == FoldLeft(LAMBDA p, b : p * b, 1, [i \in 1 .. n |-> base])

(* int(math.Pow(base, p / q)) for p < q: the integer part of the real       *)
(* root, or, if the root is an integer, what rounding may make of it.       *)
IntPow(base, p, q) ==
  LET m == CHOOSE x \in 0 .. base :
             Pow(x, q) <= Pow(base, p) /\ Pow(x + 1, q) > Pow(base, p)
  IN  IF Pow(m, q) = Pow(base, p) /\ p > 0 /\ m > 1 THEN {m - 1, m} ELSE {m}

(* Mutant: without the case of the last validator. *)
GetCandidateSizeNoLast(currentRound, totalRound, count) ==
  IF currentRound = 0 THEN {count}
  ELSE {m + 1 : m \in IntPow(count - 1, totalRound - 1 - currentRound, totalRound - 1)}

(* GetCandidateSize, as the set of the results rounding allows. *)
GetCandidateSize(currentRound, totalRound, count) ==
  IF currentRound = 0 THEN {count}
  ELSE IF count = currentRound + 1 THEN {1}
  ELSE {m + 1 : m \in IntPow(count - 1, totalRound - 1 - currentRound, totalRound - 1)}

(* The weights of the first size validators that are left. *)
Candidates(size) == [i \in 1 .. size |-> weights[weightIndexes[i]]]

(* Mutant: the validator is put at the end and not removed. *)
ChooseNextKept(i) ==
  /\ luckies' = Append(luckies, weightIndexes[i])
  /\ weightIndexes' = RemoveAt(weightIndexes, i) \o <<weightIndexes[i]>>
  /\ UNCHANGED status

ChooseNext(i) ==
  /\ luckies' = Append(luckies, weightIndexes[i])
  /\ weightIndexes' = RemoveAt(weightIndexes, i)
  /\ UNCHANGED status

(* One round of ChooseK.  ChooseOne panics if the sum of the weights        *)
(* overflows, and if it finds no index.                                     *)
ChooseRound ==
  /\ status = "running"
  /\ round < k
  /\ \E size \in GetCandidateSize(round, k, totalCount), lucky \in 0 .. MaxUint64 :
       LET ws    == Candidates(size)
           found == IF SumOf(ws) > MaxUint64 THEN {} ELSE ChooseOne(ws, lucky)
       IN  \/ \E i \in found : ChooseNext(i)
           \/ /\ found = {}
              /\ status' = "panic"
              /\ UNCHANGED <<luckies, weightIndexes>>
  /\ UNCHANGED <<weights, k>>

Return ==
  /\ status = "running"
  /\ round = k
  /\ status' = "done"
  /\ UNCHANGED <<weights, k, weightIndexes, luckies>>

Next == ChooseRound \/ Return

Spec == Init /\ [][Next]_vars

-----------------------------------------------------------------------------
(* The chosen validators are distinct, and those not chosen are the others, *)
(* still by decreasing power; GetRandomValidators gets k of them.           *)
ChosenOnce ==
  /\ ToSet(luckies) \cup ToSet(weightIndexes) = 1 .. totalCount
  /\ IsInjective(luckies)
  /\ Len(luckies) + Len(weightIndexes) = totalCount
  /\ \A i, j \in 1 .. Len(weightIndexes) : i < j => weightIndexes[i] < weightIndexes[j]
  /\ status = "done" => Len(luckies) = k

(* The candidates of a round are among the validators that are left:        *)
(* weightValues[:candidateSize] beyond them would be within the slice's     *)
(* capacity, and read what earlier rounds moved there.                      *)
SliceInBounds ==
  status = "running" /\ round < k =>
    \A size \in GetCandidateSize(round, k, totalCount) :
       size \in 1 .. Len(weightIndexes)

(* The choice only panics on powers whose sum is no uint64: "Should never   *)
(* happen because the sum of weights is more than the lucky number".        *)
PanicsOnlyOnOverflow ==
  status = "panic" => SumOf(weights) > MaxUint64

(* Of the numbers the generator can give, each candidate of a round gets    *)
(* its weight's share, up to the rounding of the remainder.                 *)
ProportionalInRound ==
  status = "running" /\ round < k =>
    \A size \in GetCandidateSize(round, k, totalCount) :
      LET ws       == Candidates(size)
          sum      == SumOf(ws)
          share(i) == Cardinality({n \in 0 .. MaxUint64 : i \in ChooseOne(ws, n)})
      IN  sum <= MaxUint64 =>
            \A i \in 1 .. size :
              /\ share(i) >= ws[i] * ((MaxUint64 + 1) \div sum)
              /\ share(i) <= ws[i] * ((MaxUint64 + 1) \div sum + 1)
=============================================================================
