---------------------------- MODULE FoldTheorems ----------------------------
(***************************************************************************)
(* The folds of the community modules are recursive functions on the       *)
(* subsets of a set.  This module shows that they satisfy their equation,  *)
(* for every finite set, and that the order does not matter when the       *)
(* operator allows it.  Instances give the operator and the choice.        *)
(***************************************************************************)
EXTENDS Integers, FiniteSets, Folds, FiniteSetTheorems, TLAPS

CONSTANTS
  op(_, _),  \* the next element and the result so far
  choose(_)  \* the element of a set that is taken first

Fold(fun, base, S) == MapThenFoldSet(op, base, LAMBDA i : fun[i], choose, S)

Chooses(S) == \A s \in SUBSET S : s # {} => choose(s) \in s

(* The results stay in C, and two steps may be exchanged. *)
Keeps(fun, S, C) == \A i \in S, c \in C : op(fun[i], c) \in C
Exchanges(fun, S, C) ==
  \A i, j \in S, c \in C : op(fun[i], op(fun[j], c)) = op(fun[j], op(fun[i], c))

Rest(s) == s \ {choose(s)}

Value(fun, base, g, s) == IF s = {} THEN base ELSE op(fun[choose(s)], g[Rest(s)])

Defines(fun, base, g, S) == g = [s \in SUBSET S |-> Value(fun, base, g, s)]

-----------------------------------------------------------------------------
(* A set of finite sets that is not empty has a member without a smaller    *)
(* one: the form in which induction over finite sets is used here.          *)
LEMMA SmallestSet ==
  ASSUME NEW S, IsFiniteSet(S), NEW F, F \subseteq SUBSET S, F # {}
  PROVE  \E s \in F : \A t \in F : t \subseteq s => t = s
<1>1. IsWellFoundedOn(StrictSubsetOrdering(S), SUBSET S)
  BY FS_StrictSubsetOrderingWellFounded, FS_FiniteSubsetsOfFinite
<1>2. PICK s \in F : \A t \in F : ~(<<t, s>> \in StrictSubsetOrdering(S))
  BY <1>1, WFMin
<1>3. ASSUME NEW t \in F, t \subseteq s, t # s PROVE FALSE
  <2>1. <<t, s>> \in StrictSubsetOrdering(S)
    BY <1>3 DEF StrictSubsetOrdering
  <2> QED
    BY <1>2, <2>1
<1> QED
  BY <1>3

(* A finite set of numbers has a largest member. *)
LEMMA LargestExists ==
  ASSUME NEW S, \A x \in S : x \in Nat, IsFiniteSet(S)
  PROVE  \A T \in SUBSET S : T # {} => \E m \in T : \A y \in T : m >= y
<1> DEFINE F == {T \in SUBSET S : T # {} /\ \A m \in T : \E y \in T : ~(m >= y)}
<1> SUFFICES ASSUME F # {} PROVE FALSE
  OBVIOUS
<1>1. PICK T \in F : \A t \in F : t \subseteq T => t = T
  <2>1. F \subseteq SUBSET S
    OBVIOUS
  <2> HIDE DEF F
  <2> QED
    BY <2>1, SmallestSet
<1>2. T \in SUBSET S /\ T \subseteq Nat
  OBVIOUS
<1>3. PICK x \in T : TRUE
  OBVIOUS
<1> DEFINE U == T \ {x}
<1>4. U \in SUBSET S /\ U # T /\ U \subseteq T /\ U \notin F
  BY <1>1, <1>2, <1>3
<1>5. CASE U = {}
  <2>1. \A y \in T : y = x /\ x >= y
    BY <1>2, <1>5
  <2> QED
    BY <1>3, <2>1
<1>6. CASE U # {}
  <2>1. PICK m \in U : \A y \in U : m >= y
    BY <1>4, <1>6
  <2>2. m \in Nat /\ x \in Nat /\ m \in T
    BY <1>2, <1>3
  <2>3. CASE m >= x
    <3>1. \A y \in T : m >= y
      BY <2>1, <2>3
    <3> QED
      BY <2>2, <3>1
  <2>4. CASE ~(m >= x)
    <3>1. \A y \in T : x >= y
      BY <1>2, <2>1, <2>2, <2>4
    <3> QED
      BY <1>3, <3>1
  <2> QED
    BY <2>3, <2>4
<1> QED
  BY <1>5, <1>6

(* A set of natural numbers that is not empty has a least member: the form  *)
(* in which induction over the natural numbers is used.                     *)
LEMMA LeastExists ==
  ASSUME NEW S, \A x \in S : x \in Nat, S # {}
  PROVE  \E m \in S : \A y \in S : m <= y
<1>1. PICK x \in S : TRUE
  OBVIOUS
<1> DEFINE D == {d \in 0 .. x : x - d \in S}
<1>2. x \in Nat
  BY <1>1
<1>3. IsFiniteSet(D) /\ \A d \in D : d \in Nat
  <2>1. IsFiniteSet(0 .. x)
    BY <1>2, FS_Interval
  <2> QED
    BY <1>2, <2>1, FS_Subset
<1>4. 0 \in D
  BY <1>1, <1>2
<1>5. PICK d \in D : \A e \in D : d >= e
  <2> HIDE DEF D
  <2>1. D \in SUBSET D /\ D # {}
    BY <1>4
  <2> QED
    BY <1>3, <2>1, LargestExists
<1>6. d \in 0 .. x /\ x - d \in S
  BY <1>5
<1>7. ASSUME NEW y \in S PROVE x - d <= y
  <2>1. y \in Nat
    OBVIOUS
  <2>2. CASE y <= x
    <3>1. x - y \in 0 .. x /\ x - (x - y) = y
      BY <1>2, <2>1, <2>2
    <3>2. x - y \in D
      BY <3>1
    <3> QED
      BY <1>2, <1>5, <1>6, <2>1, <3>2
  <2>3. CASE y > x
    BY <1>2, <1>6, <2>1, <2>3
  <2> QED
    BY <1>2, <2>1, <2>2, <2>3
<1> QED
  BY <1>6, <1>7

LEMMA FoldIsChoice ==
  ASSUME NEW S, NEW fun, NEW base
  PROVE  Fold(fun, base, S) = (CHOOSE g : Defines(fun, base, g, S))[S]
BY DEF Fold, MapThenFoldSet, Defines, Value, Rest

LEMMA ValueAt ==
  ASSUME NEW S, NEW fun, NEW base, NEW g, Defines(fun, base, g, S), NEW s, s \subseteq S
  PROVE  g[s] = Value(fun, base, g, s)
BY DEF Defines

(* Two functions that satisfy the equation agree where both are defined.    *)
LEMMA Agree ==
  ASSUME NEW S, IsFiniteSet(S), Chooses(S), NEW fun, NEW base,
         NEW T, NEW U, T \subseteq S, NEW g, NEW h,
         Defines(fun, base, g, T), Defines(fun, base, h, U),
         NEW r, r \subseteq T, r \subseteq U
  PROVE  g[r] = h[r]
<1> DEFINE F == {s \in SUBSET (T \cap U) : g[s] # h[s]}
<1> SUFFICES ASSUME r \in F PROVE FALSE
  OBVIOUS
<1>1. PICK s \in F : \A t \in F : t \subseteq s => t = s
  <2>1. F \subseteq SUBSET S /\ F # {}
    OBVIOUS
  <2> HIDE DEF F
  <2> QED
    BY <2>1, SmallestSet
<1>2. s \in SUBSET T /\ s \in SUBSET U /\ g[s] # h[s] /\ s \in SUBSET S
  OBVIOUS
<1>3. g[s] = Value(fun, base, g, s) /\ h[s] = Value(fun, base, h, s)
  BY <1>2 DEF Defines
<1>4. s # {}
  BY <1>2, <1>3 DEF Value
<1>5. choose(s) \in s
  BY <1>2, <1>4 DEF Chooses
<1>6. Rest(s) \subseteq s /\ Rest(s) # s
  BY <1>5 DEF Rest
<1>7. g[Rest(s)] = h[Rest(s)]
  BY <1>1, <1>2, <1>6
<1> QED
  BY <1>2, <1>3, <1>4, <1>7 DEF Value

(* Such a function exists. *)
LEMMA Exists ==
  ASSUME NEW S, IsFiniteSet(S), Chooses(S), NEW fun, NEW base
  PROVE  \A T \in SUBSET S : \E g : Defines(fun, base, g, T)
<1> DEFINE F == {T \in SUBSET S : \A g : ~Defines(fun, base, g, T)}
<1> SUFFICES ASSUME F # {} PROVE FALSE
  OBVIOUS
<1>1. PICK T \in F : \A t \in F : t \subseteq T => t = T
  <2>1. F \subseteq SUBSET S
    OBVIOUS
  <2> HIDE DEF F
  <2> QED
    BY <2>1, SmallestSet
<1>2. T \in SUBSET S
  OBVIOUS
<1> DEFINE G(s) == CHOOSE g : Defines(fun, base, g, s)
<1>3. ASSUME NEW s \in SUBSET T, s # T PROVE Defines(fun, base, G(s), s)
  <2>1. s \notin F
    BY <1>1, <1>3
  <2>2. \E g : Defines(fun, base, g, s)
    BY <1>2, <2>1
  <2> QED
    BY <2>2
<1>4. ASSUME NEW s \in SUBSET T, s # {}
      PROVE  Rest(s) \in SUBSET s /\ Rest(s) \in SUBSET T /\ Rest(s) # T /\ Rest(s) # s
  BY <1>2, <1>4 DEF Rest, Chooses
<1> DEFINE val(s) == IF s = {} THEN base ELSE op(fun[choose(s)], G(Rest(s))[Rest(s)])
           h == [s \in SUBSET T |-> val(s)]
<1>5. ASSUME NEW s \in SUBSET T, s # T PROVE h[s] = G(s)[s]
  <2>1. G(s)[s] = Value(fun, base, G(s), s)
    <3>1. Defines(fun, base, G(s), s) /\ s \subseteq s
      BY <1>3, <1>5
    <3> HIDE DEF G
    <3> QED
      BY <3>1, ValueAt
  <2>2. CASE s = {}
    BY <2>1, <2>2 DEF Value
  <2>3. CASE s # {}
    <3>1. /\ Defines(fun, base, G(s), s) /\ Defines(fun, base, G(Rest(s)), Rest(s))
          /\ Rest(s) \subseteq s /\ s \subseteq S
      BY <1>2, <1>3, <1>4, <1>5, <2>3
    <3> HIDE DEF G
    <3>2. ASSUME NEW g, NEW k, Defines(fun, base, g, s), Defines(fun, base, k, Rest(s))
          PROVE  g[Rest(s)] = k[Rest(s)]
      <4> HIDE DEF F, h
      <4>1. Rest(s) \subseteq Rest(s)
        OBVIOUS
      <4> QED
        BY <3>1, <3>2, <4>1, Agree
    <3>3. G(s)[Rest(s)] = G(Rest(s))[Rest(s)]
      BY <3>1, <3>2
    <3> QED
      BY <2>1, <2>3, <3>3 DEF Value
  <2> QED
    BY <2>2, <2>3
<1> HIDE DEF G
<1>6. ASSUME NEW s \in SUBSET T PROVE val(s) = Value(fun, base, h, s)
  <2>1. CASE s = {}
    BY <2>1 DEF Value
  <2>2. CASE s # {}
    <3>1. h[Rest(s)] = G(Rest(s))[Rest(s)]
      BY <1>4, <1>5, <2>2
    <3> QED
      BY <2>2, <3>1 DEF Value
  <2> QED
    BY <2>1, <2>2
<1> HIDE DEF val
<1>7. Defines(fun, base, h, T)
  BY <1>6 DEF Defines
<1> QED
  BY <1>1, <1>7

-----------------------------------------------------------------------------
LEMMA SubsetChooses ==
  ASSUME NEW S, IsFiniteSet(S), Chooses(S), NEW T, T \subseteq S
  PROVE  IsFiniteSet(T) /\ Chooses(T)
BY FS_Subset DEF Chooses

(* A fold over a finite set takes one element and goes on with the rest.    *)
THEOREM FoldEquation ==
  ASSUME NEW S, IsFiniteSet(S), Chooses(S), NEW fun, NEW base
  PROVE  Fold(fun, base, S) =
           IF S = {} THEN base ELSE op(fun[choose(S)], Fold(fun, base, Rest(S)))
<1> DEFINE G(T) == CHOOSE g : Defines(fun, base, g, T)
<1>1. ASSUME NEW T \in SUBSET S PROVE Defines(fun, base, G(T), T) /\ Fold(fun, base, T) = G(T)[T]
  BY Exists, FoldIsChoice
<1>2. S \in SUBSET S /\ Rest(S) \in SUBSET S
  BY DEF Rest
<1>3. /\ Defines(fun, base, G(S), S) /\ Fold(fun, base, S) = G(S)[S]
      /\ Defines(fun, base, G(Rest(S)), Rest(S)) /\ Fold(fun, base, Rest(S)) = G(Rest(S))[Rest(S)]
  BY <1>1, <1>2
<1> HIDE DEF G
<1>4. G(S)[S] = Value(fun, base, G(S), S)
  BY <1>2, <1>3, ValueAt
<1>5. G(S)[Rest(S)] = G(Rest(S))[Rest(S)]
  <2>1. ASSUME NEW g, NEW k, Defines(fun, base, g, S), Defines(fun, base, k, Rest(S))
        PROVE  g[Rest(S)] = k[Rest(S)]
    <3>1. S \subseteq S /\ Rest(S) \subseteq S /\ Rest(S) \subseteq Rest(S)
      BY <1>2
    <3> QED
      BY <2>1, <3>1, Agree
  <2> QED
    BY <1>3, <2>1
<1> QED
  BY <1>3, <1>4, <1>5 DEF Value

(* What the start has and every step keeps, the result has.                 *)
THEOREM FoldType ==
  ASSUME NEW S, IsFiniteSet(S), Chooses(S), NEW fun, NEW C, NEW base \in C,
         Keeps(fun, S, C)
  PROVE  \A T \in SUBSET S : Fold(fun, base, T) \in C
<1> DEFINE F == {T \in SUBSET S : Fold(fun, base, T) \notin C}
<1> SUFFICES ASSUME F # {} PROVE FALSE
  OBVIOUS
<1>1. PICK T \in F : \A t \in F : t \subseteq T => t = T
  <2>1. F \subseteq SUBSET S
    OBVIOUS
  <2> HIDE DEF F
  <2> QED
    BY <2>1, SmallestSet
<1>2. T \in SUBSET S /\ Fold(fun, base, T) \notin C
  OBVIOUS
<1>3. Fold(fun, base, T) =
        IF T = {} THEN base ELSE op(fun[choose(T)], Fold(fun, base, Rest(T)))
  <2>1. IsFiniteSet(T) /\ Chooses(T)
    BY <1>2, SubsetChooses
  <2> QED
    BY <2>1, FoldEquation
<1>4. T # {}
  BY <1>2, <1>3
<1>5. choose(T) \in T
  BY <1>2, <1>4 DEF Chooses
<1>6. Rest(T) \in SUBSET S /\ Rest(T) \subseteq T /\ Rest(T) # T
  BY <1>2, <1>5 DEF Rest
<1>7. Fold(fun, base, Rest(T)) \in C
  BY <1>1, <1>6
<1> QED
  BY <1>2, <1>3, <1>4, <1>5, <1>7 DEF Keeps

(* If two steps may be exchanged, any element may be taken first.           *)
THEOREM FoldAnyFirst ==
  ASSUME NEW S, IsFiniteSet(S), Chooses(S), NEW fun, NEW C, NEW base \in C,
         Keeps(fun, S, C), Exchanges(fun, S, C)
  PROVE  \A T \in SUBSET S : \A x \in T :
           Fold(fun, base, T) = op(fun[x], Fold(fun, base, T \ {x}))
<1> DEFINE A(T, x) == Fold(fun, base, T) = op(fun[x], Fold(fun, base, T \ {x}))
           F == {T \in SUBSET S : \E x \in T : ~A(T, x)}
<1> SUFFICES ASSUME F # {} PROVE FALSE
  OBVIOUS
<1>1. PICK T \in F : \A t \in F : t \subseteq T => t = T
  <2>1. F \subseteq SUBSET S
    OBVIOUS
  <2> HIDE DEF F
  <2> QED
    BY <2>1, SmallestSet
<1>2. T \in SUBSET S
  OBVIOUS
<1>3. PICK x \in T : ~A(T, x)
  OBVIOUS
<1> DEFINE y == choose(T)
<1>4. y \in T
  BY <1>2, <1>3 DEF Chooses
<1>5. A(T, y)
  <2>1. IsFiniteSet(T) /\ Chooses(T)
    BY <1>2, SubsetChooses
  <2> QED
    BY <1>3, <2>1, FoldEquation DEF Rest
<1> HIDE DEF y
<1>6. x # y
  BY <1>3, <1>5
<1>7. ASSUME NEW t \in SUBSET T, t # T, NEW z \in t PROVE A(t, z)
  BY <1>1, <1>2, <1>7
<1> DEFINE U == T \ {x, y}
<1>8. /\ T \ {y} \in SUBSET T /\ T \ {y} # T /\ x \in T \ {y} /\ (T \ {y}) \ {x} = U
      /\ T \ {x} \in SUBSET T /\ T \ {x} # T /\ y \in T \ {x} /\ (T \ {x}) \ {y} = U
  BY <1>4, <1>6
<1>9. A(T \ {y}, x) /\ A(T \ {x}, y)
  BY <1>7, <1>8
<1>10. /\ Fold(fun, base, T) = op(fun[y], op(fun[x], Fold(fun, base, U)))
       /\ op(fun[x], Fold(fun, base, T \ {x})) = op(fun[x], op(fun[y], Fold(fun, base, U)))
  BY <1>5, <1>8, <1>9
<1>11. Fold(fun, base, U) \in C /\ x \in S /\ y \in S
  BY <1>2, <1>4, FoldType
<1> QED
  BY <1>3, <1>10, <1>11 DEF Exchanges

(* The result depends on the values at the elements of the set only.        *)
THEOREM FoldSame ==
  ASSUME NEW S, IsFiniteSet(S), Chooses(S), NEW f, NEW g, NEW base,
         \A i \in S : f[i] = g[i]
  PROVE  \A T \in SUBSET S : Fold(f, base, T) = Fold(g, base, T)
<1> DEFINE F == {T \in SUBSET S : Fold(f, base, T) # Fold(g, base, T)}
<1> SUFFICES ASSUME F # {} PROVE FALSE
  OBVIOUS
<1>1. PICK T \in F : \A t \in F : t \subseteq T => t = T
  <2>1. F \subseteq SUBSET S
    OBVIOUS
  <2> HIDE DEF F
  <2> QED
    BY <2>1, SmallestSet
<1>2. T \in SUBSET S /\ Fold(f, base, T) # Fold(g, base, T)
  OBVIOUS
<1>3. ASSUME NEW h
      PROVE  Fold(h, base, T) =
               IF T = {} THEN base ELSE op(h[choose(T)], Fold(h, base, Rest(T)))
  <2>1. IsFiniteSet(T) /\ Chooses(T)
    BY <1>2, SubsetChooses
  <2> QED
    BY <2>1, FoldEquation
<1>4. T # {}
  BY <1>2, <1>3
<1>5. choose(T) \in T
  BY <1>2, <1>4 DEF Chooses
<1>6. Rest(T) \in SUBSET S /\ Rest(T) \subseteq T /\ Rest(T) # T
  BY <1>2, <1>5 DEF Rest
<1>7. Fold(f, base, Rest(T)) = Fold(g, base, Rest(T))
  BY <1>1, <1>6
<1> QED
  BY <1>2, <1>3, <1>4, <1>5, <1>7
=============================================================================
