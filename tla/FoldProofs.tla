----------------------------- MODULE FoldProofs -----------------------------
(***************************************************************************)
(* What FoldLeft computes, for sequences of any length: the loop over a    *)
(* WAL of load_all_tables and the max_by of get_value are folds.  The      *)
(* library defines FoldLeft by recursion over sets of indices.  A theorem  *)
(* that has the folded operator as a parameter could not be used, so the   *)
(* lemmas are about the graph `ap` of the operator, and every module that  *)
(* folds an operator relates the two.                                      *)
(***************************************************************************)
EXTENDS Naturals, SequencesExt, WellFoundedInduction, TLAPS

-----------------------------------------------------------------------------
(* Induction without a parameter.                                          *)

\* A set of numbers that is not empty has a smallest element.
LEMMA Least ==
    ASSUME NEW T, T \subseteq Nat, T # {}
    PROVE  \E x \in T : \A y \in T : x <= y
<1>. DEFINE R == OpToRel(<, Nat)
<1>1. IsWellFoundedOn(R, Nat)
  BY NatLessThanWellFounded
<1>2. \A x, y \in Nat : y < x => <<y, x>> \in R
  BY DEF OpToRel
<1>. HIDE DEF R
<1>3. PICK x \in T : \A y \in T : ~(<<y, x>> \in R)
  BY <1>1, WFMin
<1>4. \A y \in T : ~(y < x)
  BY <1>2, <1>3
<1>5. QED
  BY <1>4

\* Induction up to n, for a set of numbers in place of a predicate.
LEMMA InductionUpTo ==
    ASSUME NEW n \in Nat, NEW T, 0 \in T,
           \A i \in 1 .. n : i - 1 \in T => i \in T
    PROVE  \A i \in 0 .. n : i \in T
<1>. DEFINE Bad == (0 .. n) \ T
<1>1. SUFFICES ASSUME Bad # {} PROVE FALSE
  OBVIOUS
<1>2. PICK i \in Bad : \A j \in Bad : i <= j
  <2>1. Bad \subseteq Nat
    OBVIOUS
  <2>. HIDE DEF Bad
  <2>2. QED
    BY <1>1, <2>1, Least
<1>3. i \in 1 .. n
  BY <1>2
<1>4. i - 1 \in 0 .. n /\ ~(i <= i - 1)
  BY <1>3
<1>5. QED
  BY <1>2, <1>3, <1>4

-----------------------------------------------------------------------------
(* The largest element.                                                    *)

LEMMA MaxIs ==
    ASSUME NEW S, S \subseteq Nat, NEW m \in S, \A y \in S : y <= m
    PROVE  Max(S) = m
<1>1. \A x \in S : (\A y \in S : x >= y) => x = m
  OBVIOUS
<1>2. \A y \in S : m >= y
  OBVIOUS
<1>3. QED
  BY <1>1, <1>2 DEF Max

LEMMA MaxOfIndices ==
    ASSUME NEW n \in Nat, NEW S, S \subseteq 1 .. n, S # {}
    PROVE  Max(S) \in S /\ \A y \in S : y <= Max(S)
<1>. DEFINE T == {n - y : y \in S}
<1>1. T \subseteq Nat /\ T # {}
  <2>1. \A y \in S : y \in Nat /\ n - y \in Nat
    OBVIOUS
  <2>2. QED
    BY <2>1
<1>2. PICK z \in T : \A y \in T : z <= y
  <2>. HIDE DEF T
  <2>. QED
    BY <1>1, Least
<1>3. PICK m \in S : z = n - m
  BY <1>2
<1>4. \A y \in S : y <= m
  <2>1. TAKE y \in S
  <2>2. n - m <= n - y
    BY <1>2, <1>3
  <2>3. QED
    BY <2>2
<1>5. S \subseteq Nat
  OBVIOUS
<1>6. Max(S) = m
  BY <1>4, <1>5, MaxIs
<1>7. QED
  BY <1>4, <1>6

-----------------------------------------------------------------------------
(* Folds.                                                                  *)

\* `it` gives, for every set of indices, the fold over these indices.
FoldsSets(ap, base, s, n, it) ==
    \A x \in SUBSET (1 .. n) :
        it[x] = IF x = {} THEN base
                ELSE ap[<<it[x \ {Max(x)}], s[Max(x)]>>]

\* Such a function exists.
LEMMA FoldExists ==
    ASSUME NEW A, NEW E, NEW ap \in [A \X E -> A], NEW base \in A,
           NEW s \in Seq(E)
    PROVE  \E it \in [SUBSET (1 .. Len(s)) -> A] :
               FoldsSets(ap, base, s, Len(s), it)
<1>. DEFINE n == Len(s)
            Good == {i \in 0 .. n : \E it \in [SUBSET (1 .. i) -> A] :
                                        FoldsSets(ap, base, s, i, it)}
<1>0. n \in Nat
  OBVIOUS
<1>1. 0 \in Good
  <2>. DEFINE it == [x \in SUBSET (1 .. 0) |-> base]
  <2>1. 1 .. 0 = {}
    OBVIOUS
  <2>2. it \in [SUBSET (1 .. 0) -> A]
    OBVIOUS
  <2>3. FoldsSets(ap, base, s, 0, it)
    BY <2>1 DEF FoldsSets
  <2>4. QED
    BY <1>0, <2>2, <2>3
<1>2. ASSUME NEW i \in 1 .. n, i - 1 \in Good
      PROVE  i \in Good
  <2>1. PICK g \in [SUBSET (1 .. i - 1) -> A] :
            FoldsSets(ap, base, s, i - 1, g)
    BY <1>2
  <2>. DEFINE it == [x \in SUBSET (1 .. i) |->
                        IF i \in x THEN ap[<<g[x \ {i}], s[i]>>] ELSE g[x]]
  <2>2. \A x \in SUBSET (1 .. i) : x \ {i} \in SUBSET (1 .. i - 1)
    OBVIOUS
  <2>3. \A x \in SUBSET (1 .. i) : i \notin x => x \in SUBSET (1 .. i - 1)
    OBVIOUS
  <2>4. s[i] \in E
    OBVIOUS
  <2>5. it \in [SUBSET (1 .. i) -> A]
    BY <2>2, <2>3, <2>4
  <2>6. ASSUME NEW x \in SUBSET (1 .. i)
        PROVE  it[x] = IF x = {} THEN base
                       ELSE ap[<<it[x \ {Max(x)}], s[Max(x)]>>]
    <3>1. CASE i \in x
      <4>1. Max(x) = i
        <5>1. x \subseteq Nat /\ \A y \in x : y <= i
          OBVIOUS
        <5>2. QED
          BY <3>1, <5>1, MaxIs
      <4>2. it[x] = ap[<<g[x \ {i}], s[i]>>]
        BY <3>1
      <4>3. x \ {i} \in SUBSET (1 .. i) /\ i \notin x \ {i}
        OBVIOUS
      <4>4. it[x \ {i}] = g[x \ {i}]
        BY <4>3
      <4>. HIDE DEF it
      <4>5. QED
        BY <3>1, <4>1, <4>2, <4>4
    <3>2. CASE i \notin x
      <4>1. x \in SUBSET (1 .. i - 1) /\ it[x] = g[x]
        BY <2>3, <3>2
      <4>2. g[x] = IF x = {} THEN base
                   ELSE ap[<<g[x \ {Max(x)}], s[Max(x)]>>]
        BY <2>1, <4>1 DEF FoldsSets
      <4>3. x \ {Max(x)} \in SUBSET (1 .. i) /\ i \notin x \ {Max(x)}
        BY <3>2
      <4>4. it[x \ {Max(x)}] = g[x \ {Max(x)}]
        BY <4>3
      <4>. HIDE DEF it
      <4>5. QED
        BY <4>1, <4>2, <4>4
    <3>3. QED
      BY <3>1, <3>2
  <2>. HIDE DEF it
  <2>7. FoldsSets(ap, base, s, i, it)
    BY <2>6 DEF FoldsSets
  <2>8. QED
    BY <1>2, <2>5, <2>7
<1>3. n \in Good
  <2>. HIDE DEF Good
  <2>1. \A i \in 0 .. n : i \in Good
    BY <1>0, <1>1, <1>2, InductionUpTo
  <2>2. QED
    BY <1>0, <2>1
<1>4. QED
  BY <1>3

\* The fold over the first i indices comes from the fold over i - 1 of them.
LEMMA PrefixIndices ==
    ASSUME NEW n \in Nat
    PROVE  /\ 1 .. 0 = {} /\ {} \in SUBSET (1 .. n)
           /\ \A i \in 1 .. n : /\ 1 .. i \in SUBSET (1 .. n)
                                /\ 1 .. i # {}
                                /\ Max(1 .. i) = i
                                /\ (1 .. i) \ {Max(1 .. i)} = 1 .. i - 1
<1>1. 1 .. 0 = {} /\ {} \in SUBSET (1 .. n)
  OBVIOUS
<1>2. ASSUME NEW i \in 1 .. n
      PROVE  /\ 1 .. i \in SUBSET (1 .. n)
             /\ 1 .. i # {}
             /\ Max(1 .. i) = i
             /\ (1 .. i) \ {Max(1 .. i)} = 1 .. i - 1
  <2>1. 1 .. i \in SUBSET (1 .. n) /\ 1 .. i # {}
    OBVIOUS
  <2>2. 1 .. i \subseteq Nat /\ i \in 1 .. i /\ \A y \in 1 .. i : y <= i
    OBVIOUS
  <2>3. Max(1 .. i) = i
    BY <2>2, MaxIs
  <2>4. (1 .. i) \ {i} = 1 .. i - 1
    OBVIOUS
  <2>5. QED
    BY <2>1, <2>3, <2>4
<1>3. QED
  BY <1>1, <1>2

=============================================================================
