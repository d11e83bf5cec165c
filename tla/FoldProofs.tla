------------------------------ MODULE FoldProofs ------------------------------
(***************************************************************************)
(* What the folds of the community modules compute, for every input.       *)
(*                                                                         *)
(* Their definitions recurse over the subsets of a finite set, so that     *)
(* facts about them need an induction over data.  The library's induction  *)
(* theorems cannot be applied here (they take an operator as a parameter), *)
(* but a set of natural numbers has a least element, and that is enough:   *)
(* NatSetInduction proves Nat \subseteq S, and the statement to be proved  *)
(* by induction is S == {n \in Nat : ...}.                                 *)
(***************************************************************************)
EXTENDS Integers, FiniteSets, Functions, FiniteSetTheorems,
        WellFoundedInduction, TLAPS

(* A set of natural numbers has a least element. *)
LEMMA LeastElement ==
    ASSUME NEW T, T \subseteq Nat, T # {}
    PROVE  \E x \in T : \A y \in T : x <= y
<1> DEFINE R == {ss \in Nat \X Nat : ss[1] < ss[2]}
<1>1. IsWellFoundedOn(R, Nat)
  BY NatLessThanWellFounded, SMT DEF OpToRel
<1>2. PICK x \in T : \A y \in T : <<y, x>> \notin R
  BY <1>1, WFMin
<1>3. \A y \in T : ~(y < x)
  BY <1>2
<1> QED
  BY <1>3, SMT

(* Induction, with a set for the statement. *)
LEMMA NatSetInduction ==
    ASSUME NEW S, 0 \in S, \A n \in Nat : n \in S => n + 1 \in S
    PROVE  \A n \in Nat : n \in S
<1> SUFFICES ASSUME NEW n \in Nat, n \notin S PROVE FALSE
  OBVIOUS
<1> DEFINE T == {k \in Nat : k \notin S}
<1>1. PICK x \in T : \A y \in T : x <= y
  BY LeastElement
<1>2. x # 0 /\ x \in Nat
  BY <1>1
<1>3. x - 1 \in Nat /\ x - 1 \notin T
  BY <1>1, <1>2
<1>4. (x - 1) + 1 \in S
  BY <1>3
<1> QED
  BY <1>1, <1>2, <1>4
-----------------------------------------------------------------------------
(* The functions a fold is defined by. *)

(* Taking an element away makes a finite set smaller. *)
LEMMA Smaller ==
    ASSUME NEW s, IsFiniteSet(s), NEW x \in s
    PROVE  /\ IsFiniteSet(s \ {x})
           /\ Cardinality(s) \in Nat /\ Cardinality(s \ {x}) \in Nat
           /\ Cardinality(s) = Cardinality(s \ {x}) + 1
<1>1. IsFiniteSet(s \ {x}) /\ Cardinality(s \ {x}) = Cardinality(s) - 1
  BY FS_RemoveElement
<1>2. Cardinality(s) \in Nat /\ Cardinality(s \ {x}) \in Nat
  BY <1>1, FS_CardinalityType
<1> QED
  BY <1>1, <1>2

(* A function may be defined by recursion over the subsets of a finite     *)
(* set, one element taken away at a time: there is one.                    *)
Picks(pick, D) == \A s \in SUBSET D : s # {} => pick[s] \in s

Solves(it, D, base, pick, G) ==
    /\ it[{}] = base
    /\ \A s \in SUBSET D : s # {} => it[s] = G[<<pick[s], it[s \ {pick[s]}]>>]

LEMMA SetRecursion ==
    ASSUME NEW D, IsFiniteSet(D), NEW V, NEW base \in V,
           NEW pick, Picks(pick, D), NEW G \in [D \X V -> V]
    PROVE  \E it \in [SUBSET D -> V] : Solves(it, D, base, pick, G)
<1> DEFINE Small(n) == {s \in SUBSET D : Cardinality(s) <= n}
           Value(it, s) == IF s = {} THEN base ELSE G[<<pick[s], it[s \ {pick[s]}]>>]
           Exists(n) == \E it \in [Small(n) -> V] :
                            \A s \in Small(n) : it[s] = Value(it, s)
           S == {n \in Nat : Exists(n)}
<1>1. \A s \in SUBSET D : IsFiniteSet(s) /\ Cardinality(s) \in Nat
                            /\ Cardinality(s) <= Cardinality(D)
  BY FS_Subset, FS_CardinalityType
<1>2. 0 \in S
  <2> DEFINE it == [s \in Small(0) |-> base]
  <2>1. \A s \in Small(0) : s = {}
    BY <1>1, FS_EmptySet
  <2>2. it \in [Small(0) -> V] /\ \A s \in Small(0) : it[s] = Value(it, s)
    BY <2>1
  <2> QED
    BY <2>2
<1>3. ASSUME NEW n \in Nat, n \in S PROVE n + 1 \in S
  <2>1. PICK it \in [Small(n) -> V] : \A s \in Small(n) : it[s] = Value(it, s)
    BY <1>3
  <2> DEFINE next == [s \in Small(n + 1) |-> Value(it, s)]
  <2>2. ASSUME NEW s \in Small(n + 1), s # {}
        PROVE  pick[s] \in s /\ pick[s] \in D /\ s \ {pick[s]} \in Small(n)
    <3>1. pick[s] \in s
      BY <2>2 DEF Picks
    <3>2. Cardinality(s) = Cardinality(s \ {pick[s]}) + 1
      BY <1>1, <3>1, Smaller
    <3>3. s \ {pick[s]} \in SUBSET D /\ Cardinality(s \ {pick[s]}) \in Nat
      BY <1>1
    <3> QED
      BY <1>1, <3>1, <3>2, <3>3
  <2>3. ASSUME NEW s \in Small(n + 1) PROVE Value(it, s) \in V
    <3>1. CASE s = {}
      BY <3>1
    <3>2. CASE s # {}
      <4>1. it[s \ {pick[s]}] \in V
        BY <2>2, <3>2
      <4>2. <<pick[s], it[s \ {pick[s]}]>> \in D \X V
        BY <2>2, <3>2, <4>1
      <4> QED
        BY <3>2, <4>2
    <3> QED
      BY <3>1, <3>2
  <2>4. next \in [Small(n + 1) -> V]
    BY <2>3
  <2>5. \A s \in Small(n) : s \in Small(n + 1) /\ next[s] = it[s]
    BY <1>1, <2>1
  <2>6. ASSUME NEW s \in Small(n + 1) PROVE next[s] = Value(next, s)
    <3>1. CASE s = {}
      BY <3>1
    <3>2. CASE s # {}
      <4>1. next[s \ {pick[s]}] = it[s \ {pick[s]}]
        BY <2>2, <2>5, <3>2
      <4>2. next[s] = Value(it, s)
        OBVIOUS
      <4> QED
        BY <3>2, <4>1, <4>2
    <3> QED
      BY <3>1, <3>2
  <2>7. \A s \in Small(n + 1) : next[s] = Value(next, s)
    BY <2>6
  <2> HIDE DEF next
  <2>8. Exists(n + 1)
    <3> USE <2>4
    <3> WITNESS next \in [Small(n + 1) -> V]
    <3> QED
      BY <2>7
  <2> HIDE DEF Exists
  <2> QED
    BY <2>8
<1> HIDE DEF Exists
<1>4. \A n \in Nat : n \in S
  BY <1>2, <1>3, NatSetInduction
<1>5. Cardinality(D) \in Nat /\ Exists(Cardinality(D))
  BY <1>4, FS_CardinalityType
<1>6. Small(Cardinality(D)) = SUBSET D
  BY <1>1
<1>7. PICK it \in [SUBSET D -> V] : \A s \in SUBSET D : it[s] = Value(it, s)
  BY <1>5, <1>6 DEF Exists
<1>8. Solves(it, D, base, pick, G)
  BY <1>7 DEF Solves
<1> QED
  BY <1>8
(* Induction over the subsets of a finite set. *)
LEMMA SubsetInduction ==
    ASSUME NEW D, IsFiniteSet(D), NEW P, {} \in P,
           \A s \in SUBSET D : s # {} /\ (\A x \in s : s \ {x} \in P) => s \in P
    PROVE  \A s \in SUBSET D : s \in P
<1> DEFINE S == {n \in Nat : \A s \in SUBSET D : Cardinality(s) = n => s \in P}
<1>1. \A s \in SUBSET D : IsFiniteSet(s) /\ Cardinality(s) \in Nat
  BY FS_Subset, FS_CardinalityType
<1>2. 0 \in S
  BY <1>1, FS_EmptySet
<1>3. ASSUME NEW n \in Nat, n \in S PROVE n + 1 \in S
  <2> SUFFICES ASSUME NEW s \in SUBSET D, Cardinality(s) = n + 1 PROVE s \in P
    OBVIOUS
  <2>1. s # {}
    <3>1. s = {} => Cardinality(s) = 0
      BY FS_EmptySet, Zenon
    <3> QED
      BY <3>1
  <2>2. ASSUME NEW x \in s PROVE s \ {x} \in P
    <3>1. Cardinality(s) = Cardinality(s \ {x}) + 1
      BY <1>1, Smaller
    <3>2. s \ {x} \in SUBSET D /\ Cardinality(s \ {x}) = n
      BY <1>1, <3>1
    <3> QED
      BY <1>3, <3>2
  <2> QED
    BY <2>1, <2>2
<1> HIDE DEF S
<1>4. \A n \in Nat : n \in S
  BY <1>2, <1>3, NatSetInduction
<1> QED
  BY <1>1, <1>4 DEF S

-----------------------------------------------------------------------------
(* Sums. *)

First(s) == CHOOSE x \in s : TRUE

(* The function SumFunctionOnSet(f, D) is defined by. *)
Summing(f, D) ==
    CHOOSE iter : iter = [s \in SUBSET D |->
        IF s = {} THEN 0 ELSE f[First(s)] + iter[s \ {First(s)}]]

Recurs(iter, f, D) ==
    iter = [s \in SUBSET D |-> IF s = {} THEN 0 ELSE f[First(s)] + iter[s \ {First(s)}]]

LEMMA SumIsSumming ==
    ASSUME NEW f, NEW D
    PROVE  SumFunctionOnSet(f, D) = Summing(f, D)[D]
BY DEF SumFunctionOnSet, FoldFunctionOnSet, MapThenFoldSet, Summing, First

NatOn(f, D) == \A x \in D : f[x] \in Nat

LEMMA SummingExists ==
    ASSUME NEW D, IsFiniteSet(D), NEW f, NatOn(f, D)
    PROVE  Recurs(Summing(f, D), f, D)
<1> DEFINE pick == [s \in SUBSET D |-> First(s)]
           G == [p \in D \X Nat |-> f[p[1]] + p[2]]
<1>1. Picks(pick, D)
  BY DEF First, Picks
<1>2. G \in [D \X Nat -> Nat]
  BY DEF NatOn
<1> HIDE DEF G
<1>3. PICK it \in [SUBSET D -> Nat] : Solves(it, D, 0, pick, G)
  <2> HIDE DEF pick
  <2> QED
    BY <1>1, <1>2, SetRecursion
<1>4. ASSUME NEW s \in SUBSET D, s # {}
      PROVE  it[s] = f[First(s)] + it[s \ {First(s)}]
  <2>1. First(s) \in D /\ it[s \ {First(s)}] \in Nat /\ pick[s] = First(s)
    BY <1>1, <1>4 DEF Picks
  <2> QED
    BY <1>3, <1>4, <2>1 DEF G, Solves
<1>5. it = [s \in SUBSET D |-> IF s = {} THEN 0 ELSE f[First(s)] + it[s \ {First(s)}]]
  BY <1>3, <1>4 DEF Solves
<1> QED
  BY <1>5 DEF Summing, Recurs
LEMMA SummingUnfolds ==
    ASSUME NEW D, IsFiniteSet(D), NEW f, NatOn(f, D)
    PROVE  /\ Summing(f, D)[{}] = 0
           /\ \A s \in SUBSET D : s # {} =>
                 Summing(f, D)[s] = f[First(s)] + Summing(f, D)[s \ {First(s)}]
<1>1. PICK it : it = Summing(f, D)
  OBVIOUS
<1>2. Recurs(it, f, D)
  BY <1>1, SummingExists
<1>3. it[{}] = 0 /\ \A s \in SUBSET D : s # {} =>
          it[s] = f[First(s)] + it[s \ {First(s)}]
  BY <1>2 DEF Recurs
<1> QED
  BY <1>1, <1>3

LEMMA FirstIsIn == ASSUME NEW s, s # {} PROVE First(s) \in s
BY DEF First

(* The sum over a subset does not depend on the set it is part of, nor on  *)
(* values outside of it.                                                   *)
LEMMA SummingAgrees ==
    ASSUME NEW D, IsFiniteSet(D), NEW f, NatOn(f, D),
           NEW E, IsFiniteSet(E), NEW g, NatOn(g, E)
    PROVE  \A s \in SUBSET D : s \subseteq E /\ (\A x \in s : f[x] = g[x]) =>
               Summing(f, D)[s] \in Nat /\ Summing(f, D)[s] = Summing(g, E)[s]
<1> DEFINE P == {s \in SUBSET D : s \subseteq E /\ (\A x \in s : f[x] = g[x]) =>
                     Summing(f, D)[s] \in Nat /\ Summing(f, D)[s] = Summing(g, E)[s]}
<1>1. /\ Summing(f, D)[{}] = 0
      /\ Summing(g, E)[{}] = 0
      /\ \A s \in SUBSET D : s # {} =>
            Summing(f, D)[s] = f[First(s)] + Summing(f, D)[s \ {First(s)}]
      /\ \A s \in SUBSET E : s # {} =>
            Summing(g, E)[s] = g[First(s)] + Summing(g, E)[s \ {First(s)}]
  BY SummingUnfolds
<1>2. {} \in P
  BY <1>1
<1>3. ASSUME NEW s \in SUBSET D, s # {}, \A x \in s : s \ {x} \in P PROVE s \in P
  <2> SUFFICES ASSUME s \subseteq E, \A x \in s : f[x] = g[x]
               PROVE  Summing(f, D)[s] \in Nat /\ Summing(f, D)[s] = Summing(g, E)[s]
    OBVIOUS
  <2> DEFINE rest == s \ {First(s)}
  <2>1. First(s) \in s
    BY <1>3, FirstIsIn
  <2>2. rest \in P
    BY <1>3, <2>1
  <2>3. Summing(f, D)[rest] \in Nat /\ Summing(f, D)[rest] = Summing(g, E)[rest]
    BY <2>2
  <2>4. f[First(s)] \in Nat /\ f[First(s)] = g[First(s)]
    BY <2>1 DEF NatOn
  <2>5. /\ Summing(f, D)[s] = f[First(s)] + Summing(f, D)[rest]
        /\ Summing(g, E)[s] = g[First(s)] + Summing(g, E)[rest]
    BY <1>1, <1>3
  <2> HIDE DEF rest
  <2> QED
    BY <2>3, <2>4, <2>5
<1> HIDE DEF P
<1>4. \A s \in SUBSET D : s \in P
  BY <1>2, <1>3, SubsetInduction
<1> QED
  BY <1>4 DEF P

(* The sum of no values, and of values that are natural numbers. *)
LEMMA SumOfNone == ASSUME NEW f PROVE SumFunctionOnSet(f, {}) = 0
<1>1. IsFiniteSet({}) /\ NatOn(f, {})
  BY FS_EmptySet DEF NatOn
<1> QED
  BY <1>1, SummingUnfolds, SumIsSumming

LEMMA SumIsNat ==
    ASSUME NEW s, IsFiniteSet(s), NEW f, NatOn(f, s)
    PROVE  SumFunctionOnSet(f, s) \in Nat
<1>1. Summing(f, s)[s] \in Nat
  BY SummingAgrees
<1> QED
  BY <1>1, SumIsSumming

LEMMA SumAgrees ==
    ASSUME NEW s, IsFiniteSet(s), NEW f, NatOn(f, s), NEW g, \A x \in s : f[x] = g[x]
    PROVE  SumFunctionOnSet(f, s) = SumFunctionOnSet(g, s)
<1>1. NatOn(g, s)
  BY DEF NatOn
<1>2. Summing(f, s)[s] = Summing(g, s)[s]
  BY <1>1, SummingAgrees
<1> QED
  BY <1>2, SumIsSumming

(* Any value may be taken out of a sum, not only the one it starts with. *)
LEMMA SummingTakesOut ==
    ASSUME NEW D, IsFiniteSet(D), NEW f, NatOn(f, D)
    PROVE  \A s \in SUBSET D : \A x \in s :
               Summing(f, D)[s] = f[x] + Summing(f, D)[s \ {x}]
<1> DEFINE Sg == Summing(f, D)
           P == {s \in SUBSET D : \A x \in s : Sg[s] = f[x] + Sg[s \ {x}]}
<1>1. \A s \in SUBSET D : Sg[s] \in Nat
  BY SummingAgrees
<1>2. \A s \in SUBSET D : s # {} => Sg[s] = f[First(s)] + Sg[s \ {First(s)}]
  BY SummingUnfolds
<1>3. {} \in P
  OBVIOUS
<1> HIDE DEF Sg
<1>4. ASSUME NEW s \in SUBSET D, s # {}, \A x \in s : s \ {x} \in P PROVE s \in P
  <2> SUFFICES ASSUME NEW x \in s PROVE Sg[s] = f[x] + Sg[s \ {x}]
    OBVIOUS
  <2>1. PICK c : c = First(s)
    OBVIOUS
  <2>2. c \in s /\ f[c] \in Nat /\ f[x] \in Nat
    BY <1>4, <2>1, FirstIsIn DEF NatOn
  <2>3. Sg[s] = f[c] + Sg[s \ {c}]
    BY <1>2, <1>4, <2>1
  <2>4. CASE x = c
    BY <2>3, <2>4
  <2>5. CASE x # c
    <3>1. Sg[s \ {c}] = f[x] + Sg[(s \ {c}) \ {x}]
      BY <1>4, <2>2, <2>5
    <3>2. Sg[s \ {x}] = f[c] + Sg[(s \ {x}) \ {c}]
      BY <1>4, <2>2, <2>5
    <3>3. PICK t \in SUBSET D : t = (s \ {c}) \ {x} /\ t = (s \ {x}) \ {c}
      OBVIOUS
    <3>4. Sg[s \ {c}] = f[x] + Sg[t] /\ Sg[s \ {x}] = f[c] + Sg[t]
      BY <3>1, <3>2, <3>3
    <3>5. Sg[t] \in Nat
      BY <1>1
    <3> QED
      BY <2>2, <2>3, <3>4, <3>5
  <2> QED
    BY <2>4, <2>5
<1> HIDE DEF P
<1>5. \A s \in SUBSET D : s \in P
  BY <1>3, <1>4, SubsetInduction
<1> QED
  BY <1>5 DEF P, Sg

LEMMA SumTakesOut ==
    ASSUME NEW s, IsFiniteSet(s), NEW f, NatOn(f, s), NEW x \in s
    PROVE  SumFunctionOnSet(f, s) = f[x] + SumFunctionOnSet(f, s \ {x})
<1>1. IsFiniteSet(s \ {x}) /\ NatOn(f, s \ {x})
  BY Smaller DEF NatOn
<1>2. Summing(f, s)[s] = f[x] + Summing(f, s)[s \ {x}]
  BY SummingTakesOut
<1>3. Summing(f, s \ {x})[s \ {x}] = Summing(f, s)[s \ {x}]
  BY <1>1, SummingAgrees
<1> QED
  BY <1>2, <1>3, SumIsSumming

(* Two functions that differ in one place have sums that differ by as much. *)
LEMMA SumChangesOne ==
    ASSUME NEW s, IsFiniteSet(s), NEW f, NatOn(f, s), NEW g, NatOn(g, s),
           NEW x \in s, \A y \in s \ {x} : f[y] = g[y]
    PROVE  /\ SumFunctionOnSet(f, s) \in Nat /\ SumFunctionOnSet(g, s) \in Nat
           /\ SumFunctionOnSet(g, s) - SumFunctionOnSet(f, s) = g[x] - f[x]
<1>1. IsFiniteSet(s \ {x}) /\ NatOn(f, s \ {x})
  BY Smaller DEF NatOn
<1>2. /\ SumFunctionOnSet(f, s \ {x}) = SumFunctionOnSet(g, s \ {x})
      /\ SumFunctionOnSet(f, s \ {x}) \in Nat
  BY <1>1, SumAgrees, SumIsNat
<1>3. /\ SumFunctionOnSet(f, s) = f[x] + SumFunctionOnSet(f, s \ {x})
      /\ SumFunctionOnSet(g, s) = g[x] + SumFunctionOnSet(g, s \ {x})
  BY SumTakesOut
<1>4. f[x] \in Nat /\ g[x] \in Nat
  BY DEF NatOn
<1> QED
  BY <1>2, <1>3, <1>4
=============================================================================
