---------------------------- MODULE FoldProofs ----------------------------
(***************************************************************************)
(* Lemmas on what the models compute step by step: induction on the        *)
(* naturals said of sets, folds of a sequence, and lists of a finite set.  *)
(* No lemma has an operator for a parameter: a fold is given by the        *)
(* function of its values on sets of places.                               *)
(***************************************************************************)
EXTENDS Integers, Sequences, FiniteSets, SequencesExt, FiniteSetTheorems,
        WellFoundedInduction, TLAPS

-----------------------------------------------------------------------------
(* Induction and folds *)

(* Induction, said of sets: no operator is a parameter. *)
LEMMA NatSetInduction ==
    ASSUME NEW T, 0 \in T, \A k \in Nat : k \in T => k + 1 \in T
    PROVE  Nat \subseteq T
<1> SUFFICES ASSUME Nat \ T # {} PROVE FALSE OBVIOUS
<1>1. PICK m \in Nat \ T : \A y \in Nat \ T : ~(<<y, m>> \in OpToRel(<, Nat))
  BY NatLessThanWellFounded, WFMin
<1>2. m # 0 /\ m - 1 \in Nat /\ m - 1 + 1 = m OBVIOUS
<1>3. <<m - 1, m>> \in OpToRel(<, Nat) BY <1>2 DEF OpToRel
<1> QED BY <1>1, <1>2, <1>3

(* A set of places has a last one. *)
LEMMA LastPlace ==
    ASSUME NEW n \in Nat, NEW S \in SUBSET (1..n), S # {}
    PROVE  Max(S) \in S /\ \A i \in S : i <= Max(S)
<1> DEFINE T == {k \in Nat : \A R \in SUBSET (1..n) :
                   R # {} /\ (\A i \in R : i <= k) => \E m \in R : \A i \in R : i <= m}
<1>1. 0 \in T
  <2>1. ASSUME NEW R \in SUBSET (1..n), R # {}, \A i \in R : i <= 0 PROVE FALSE
    <3>1. PICK i \in R : TRUE BY <2>1
    <3>2. i \in 1..n /\ i <= 0 BY <2>1, <3>1
    <3> QED BY <3>2
  <2> QED BY <2>1
<1>2. ASSUME NEW k \in Nat, k \in T PROVE k + 1 \in T
  <2> SUFFICES ASSUME NEW R \in SUBSET (1..n), R # {}, \A i \in R : i <= k + 1
               PROVE  \E m \in R : \A i \in R : i <= m
    OBVIOUS
  <2>1. CASE k + 1 \in R BY <2>1
  <2>2. CASE k + 1 \notin R
    <3>1. \A i \in R : i <= k BY <2>2
    <3> QED BY <1>2, <3>1
  <2> QED BY <2>1, <2>2
<1> HIDE DEF T
<1>3. n \in T BY <1>1, <1>2, NatSetInduction
<1>4. \E m \in S : \A i \in S : i <= m BY <1>3 DEF T
<1> QED BY <1>4 DEF Max

(* The places but the last are fewer. *)
LEMMA OneFewer ==
    ASSUME NEW n \in Nat, NEW S \in SUBSET (1..n), S # {}
    PROVE  /\ IsFiniteSet(S) /\ Cardinality(S) \in Nat /\ Max(S) \in 1..n
           /\ S \ {Max(S)} \in SUBSET (1..n)
           /\ Cardinality(S \ {Max(S)}) = Cardinality(S) - 1
<1>1. IsFiniteSet(1..n) BY FS_Interval
<1>2. IsFiniteSet(S) BY <1>1, FS_Subset
<1>3. Max(S) \in S BY LastPlace
<1> QED BY <1>2, <1>3, FS_RemoveElement, FS_CardinalityType

(* What a fold is built of: a value for every set of places, for any step. *)
CanFold(n, Acc, base, Items, s, step) ==
    n \in Nat /\ base \in Acc /\ s \in [1..n -> Items] /\ step \in [Acc \X Items -> Acc]
FoldOf(it, n, Acc, base, s, step) ==
    /\ it \in [SUBSET (1..n) -> Acc]
    /\ \A S \in SUBSET (1..n) :
          it[S] = IF S = {} THEN base ELSE step[<<it[S \ {Max(S)}], s[Max(S)]>>]

LEMMA FoldExists ==
    ASSUME NEW n, NEW Acc, NEW base, NEW Items, NEW s, NEW step,
           CanFold(n, Acc, base, Items, s, step)
    PROVE  \E it : FoldOf(it, n, Acc, base, s, step)
<1> USE DEF CanFold
<1> DEFINE Places == SUBSET (1..n)
           After(it) == [S \in Places |-> IF S = {} THEN base
                                          ELSE step[<<it[S \ {Max(S)}], s[Max(S)]>>]]
           T == {k \in Nat : \E it \in [Places -> Acc] : \A S \in Places :
                   Cardinality(S) <= k => it[S] = After(it)[S]}
<1>1. ASSUME NEW it \in [Places -> Acc] PROVE After(it) \in [Places -> Acc]
  <2>1. ASSUME NEW S \in Places, S # {} PROVE step[<<it[S \ {Max(S)}], s[Max(S)]>>] \in Acc
    BY <2>1, OneFewer
  <2> QED BY <2>1
<1>2. \A S \in Places : IsFiniteSet(S) /\ Cardinality(S) \in Nat
  <2>1. IsFiniteSet(1..n) BY FS_Interval
  <2> QED BY <2>1, FS_Subset, FS_CardinalityType
<1>3. 0 \in T
  <2>1. \A S \in Places : Cardinality(S) <= 0 => S = {} BY <1>2, FS_EmptySet
  <2>2. [S \in Places |-> base] \in [Places -> Acc] OBVIOUS
  <2> QED BY <2>1, <2>2
<1>4. ASSUME NEW k \in Nat, k \in T PROVE k + 1 \in T
  <2>1. PICK it \in [Places -> Acc] : \A S \in Places : Cardinality(S) <= k => it[S] = After(it)[S]
    BY <1>4
  <2>2. PICK jt : jt = After(it) OBVIOUS
  <2>3. ASSUME NEW S \in Places, Cardinality(S) <= k + 1 PROVE jt[S] = After(jt)[S]
    <3>1. CASE S = {} BY <2>2, <3>1
    <3>2. CASE S # {}
      <4>1. PICK R, m : R = S \ {Max(S)} /\ m = Max(S) OBVIOUS
      <4>2. /\ R \in Places /\ Cardinality(S) \in Nat
            /\ Cardinality(R) = Cardinality(S) - 1
        BY <3>2, <4>1, OneFewer
      <4>3. Cardinality(R) <= k BY <2>3, <4>2
      <4>4. jt[R] = it[R] BY <2>1, <2>2, <4>2, <4>3
      <4>5. jt[S] = step[<<it[R], s[m]>>] BY <2>2, <3>2, <4>1
      <4>6. After(jt)[S] = step[<<jt[R], s[m]>>] BY <3>2, <4>1
      <4> QED BY <4>4, <4>5, <4>6
    <3> QED BY <3>1, <3>2
  <2>4. jt \in [Places -> Acc] BY <1>1, <2>2
  <2> HIDE DEF After
  <2>5. \E f \in [Places -> Acc] : \A S \in Places :
           Cardinality(S) <= k + 1 => f[S] = After(f)[S]
    BY <2>3, <2>4
  <2>6. k + 1 \in Nat OBVIOUS
  <2> QED BY <2>5, <2>6, Zenon
<1> HIDE DEF T
<1>5. n \in T BY <1>3, <1>4, NatSetInduction
<1>6. PICK it \in [Places -> Acc] : \A S \in Places : Cardinality(S) <= n => it[S] = After(it)[S]
  BY <1>5 DEF T
<1>7. \A S \in Places : Cardinality(S) <= n
  <2>1. IsFiniteSet(1..n) /\ Cardinality(1..n) = n BY FS_Interval
  <2>2. ASSUME NEW S \in Places PROVE Cardinality(S) <= Cardinality(1..n)
    BY <2>1, FS_Subset
  <2> QED BY <2>1, <2>2
<1> QED BY <1>6, <1>7 DEF FoldOf

(* What every step keeps, the whole fold has. *)
LEMMA FoldKeeps ==
    ASSUME NEW n \in Nat, NEW it, NEW Acc, it[{}] \in Acc,
           \A S \in SUBSET (1..n) : S # {} /\ it[S \ {Max(S)}] \in Acc => it[S] \in Acc
    PROVE  it[1..n] \in Acc
<1> DEFINE T == {k \in Nat : k <= n => it[1..k] \in Acc}
<1>1. 0 \in T
  <2>1. 1..0 = {} OBVIOUS
  <2> QED BY <2>1
<1>2. ASSUME NEW k \in Nat, k \in T PROVE k + 1 \in T
  <2> SUFFICES ASSUME k + 1 <= n PROVE it[1..(k + 1)] \in Acc OBVIOUS
  <2>1. PICK S : S = 1..(k + 1) OBVIOUS
  <2>2. S \in SUBSET (1..n) /\ S # {} /\ k + 1 \in S BY <2>1
  <2>3. Max(S) = k + 1
    <3>1. Max(S) \in S /\ \A i \in S : i <= Max(S) BY <2>2, LastPlace
    <3> QED BY <2>1, <2>2, <3>1
  <2>4. S \ {Max(S)} = 1..k BY <2>1, <2>3
  <2>5. it[1..k] \in Acc BY <1>2
  <2> QED BY <2>1, <2>2, <2>4, <2>5
<1> HIDE DEF T
<1>3. n \in T BY <1>1, <1>2, NatSetInduction
<1> QED BY <1>3 DEF T

-----------------------------------------------------------------------------
(* Lists of a finite set *)

(* A finite set has a list in any order that compares all its members. *)
LEMMA RankExists ==
    ASSUME NEW S, IsFiniteSet(S), NEW before \in SUBSET (S \X S),
           \A x, y \in S : x # y => <<x, y>> \in before \/ <<y, x>> \in before,
           \A x, y, z \in S : <<x, y>> \in before /\ <<y, z>> \in before => <<x, z>> \in before
    PROVE  \E s \in SetToSeqs(S) : \A i, j \in DOMAIN s : i < j => <<s[i], s[j]>> \in before
<1> DEFINE InOrder(s) == \A i, j \in DOMAIN s : i < j => <<s[i], s[j]>> \in before
           Latest(R) == R = {} \/ \E m \in R : \A x \in R \ {m} : <<x, m>> \in before
           Listed(R) == \E s \in SetToSeqs(R) : InOrder(s)
           T == {k \in Nat : \A R \in SUBSET S : Cardinality(R) = k => Latest(R) /\ Listed(R)}
<1>0. \A R \in SUBSET S : IsFiniteSet(R) BY FS_Subset
<1>1. 0 \in T
  <2>1. ASSUME NEW R \in SUBSET S, Cardinality(R) = 0
        PROVE  Latest(R) /\ Listed(R)
    <3>1. R = {} BY <1>0, <2>1, FS_EmptySet
    <3>2. PICK s : s = [i \in 1..0 |-> 0] OBVIOUS
    <3>3. 1..0 = {} OBVIOUS
    <3>4. s \in SetToSeqs(R) BY <2>1, <3>1, <3>2, <3>3 DEF SetToSeqs
    <3>5. InOrder(s) BY <3>2, <3>3
    <3> QED BY <3>1, <3>4, <3>5
  <2> QED BY <2>1
<1>2. ASSUME NEW k \in Nat, k \in T PROVE k + 1 \in T
  <2> SUFFICES ASSUME NEW R \in SUBSET S, Cardinality(R) = k + 1
               PROVE  Latest(R) /\ Listed(R)
    OBVIOUS
  <2>1. ASSUME NEW x \in R
        PROVE  R \ {x} \in SUBSET S /\ Cardinality(R \ {x}) = k
    <3>1. Cardinality(R \ {x}) = IF x \in R THEN Cardinality(R) - 1 ELSE Cardinality(R)
      BY <1>0, FS_RemoveElement
    <3>2. R \ {x} \in SUBSET S BY Zenon
    <3>3. Cardinality(R \ {x}) = k BY <3>1
    <3> QED BY <3>2, <3>3
  <2>2. ASSUME NEW x \in R PROVE Latest(R \ {x}) /\ Listed(R \ {x})
    BY <1>2, <2>1
  <2>3. Latest(R)
    <3> SUFFICES ASSUME NEW x \in R
                 PROVE  \E m \in R : \A y \in R \ {m} : <<y, m>> \in before
      OBVIOUS
    <3>1. CASE R \ {x} = {} BY <3>1
    <3>2. CASE R \ {x} # {}
      <4>1. PICK m \in R \ {x} : \A y \in (R \ {x}) \ {m} : <<y, m>> \in before BY <2>2, <3>2
      <4>2. x # m /\ x \in S /\ m \in S OBVIOUS
      <4>3. CASE <<x, m>> \in before
        <5>1. \A y \in R \ {m} : <<y, m>> \in before BY <4>1, <4>3
        <5> QED BY <5>1
      <4>4. CASE <<m, x>> \in before
        <5>1. \A y \in R \ {x} : <<y, x>> \in before BY <4>1, <4>4
        <5> QED BY <5>1
      <4> QED BY <4>2, <4>3, <4>4
    <3> QED BY <3>1, <3>2
  <2>4. Listed(R)
    <3>1. R # {} BY FS_EmptySet
    <3>2. PICK m \in R : \A y \in R \ {m} : <<y, m>> \in before BY <2>3, <3>1
    <3>3. PICK s \in SetToSeqs(R \ {m}) : InOrder(s) BY <2>2, <3>2
    <3>4. /\ s \in [1..k -> R \ {m}]
          /\ \A i, j \in 1..k : i # j => s[i] # s[j]
      BY <2>1, <3>3 DEF SetToSeqs
    <3>5. PICK u : u = [i \in 1..(k + 1) |-> IF i = k + 1 THEN m ELSE s[i]] OBVIOUS
    <3>6. u \in [1..(k + 1) -> R] /\ \A i, j \in 1..(k + 1) : i # j => u[i] # u[j]
      BY <3>4, <3>5
    <3>7. u \in SetToSeqs(R) BY <3>6 DEF SetToSeqs
    <3>8. InOrder(u)
      <4> SUFFICES ASSUME NEW i \in 1..(k + 1), NEW j \in 1..(k + 1), i < j
                   PROVE  <<u[i], u[j]>> \in before
        BY <3>6
      <4>1. i \in 1..k /\ u[i] = s[i] BY <3>5
      <4>2. CASE j = k + 1 BY <3>2, <3>4, <3>5, <4>1, <4>2
      <4>3. CASE j # k + 1
        <5>1. j \in 1..k /\ u[j] = s[j] BY <3>5, <4>3
        <5> QED BY <3>3, <3>4, <4>1, <5>1
      <4> QED BY <4>2, <4>3
    <3> QED BY <3>7, <3>8
  <2> QED BY <2>3, <2>4
<1> HIDE DEF T
<1>3. Cardinality(S) \in T BY <1>1, <1>2, NatSetInduction, FS_CardinalityType
<1> QED BY <1>3 DEF T

(* A list of a finite set tells all its members. *)
LEMMA ListsAreWhole ==
    ASSUME NEW S, IsFiniteSet(S), NEW s \in SetToSeqs(S)
    PROVE  /\ Cardinality(S) \in Nat /\ s \in [1..Cardinality(S) -> S]
           /\ \A i, j \in DOMAIN s : i # j => s[i] # s[j]
           /\ \A x \in S : \E i \in DOMAIN s : s[i] = x
<1>1. PICK n : n = Cardinality(S) OBVIOUS
<1>2. n \in Nat BY <1>1, FS_CardinalityType
<1>3. s \in [1..n -> S] /\ \A i, j \in 1..n : i # j => s[i] # s[j] BY <1>1 DEF SetToSeqs
<1>4. s \in Injection(1..n, S) BY <1>3 DEF Injection, IsInjective
<1>5. Cardinality(1..n) = n BY <1>2, FS_Interval
<1>6. s \in Surjection(1..n, S) BY <1>1, <1>4, <1>5, FS_Injection
<1>7. \A x \in S : \E i \in 1..n : s[i] = x BY <1>6 DEF Surjection
<1> QED BY <1>1, <1>2, <1>3, <1>7

(* A set of places has a first one. *)
LEMMA FirstPlace ==
    ASSUME NEW n \in Nat, NEW S \in SUBSET (1..n), S # {}
    PROVE  Min(S) \in S
<1> DEFINE T == {n + 1 - i : i \in S}
<1>1. T \in SUBSET (1..n) /\ T # {} OBVIOUS
<1>2. Max(T) \in T /\ \A i \in T : i <= Max(T) BY <1>1, LastPlace
<1>3. PICK m \in S : Max(T) = n + 1 - m BY <1>2
<1>4. \A i \in S : n + 1 - i <= n + 1 - m BY <1>2, <1>3
<1>5. \A i \in S : m <= i BY <1>4
<1>6. \E k \in S : \A i \in S : k <= i BY <1>5
<1> QED BY <1>6 DEF Min
=============================================================================
