--------------------------- MODULE SequenceLemmas ---------------------------
(***************************************************************************)
(* Facts about numbers and sequences that the proofs of several components *)
(* need. The induction is over a set of numbers rather than over a         *)
(* predicate, and so needs no operator for a parameter: it is enough to    *)
(* prove what a recursive function of a model computes.                    *)
(***************************************************************************)
EXTENDS Integers, SequencesExt, FiniteSetsExt, SequenceTheorems,
        WellFoundedInduction, TLAPS

\* A nonempty set of numbers has a least one, which Min is.
LEMMA MinIn ==
    ASSUME NEW T \in SUBSET Nat, T # {}
    PROVE  Min(T) \in T /\ \A x \in T : Min(T) <= x
<1> DEFINE R == OpToRel(<, Nat)
<1>1. IsWellFoundedOn(R, Nat)
  BY NatLessThanWellFounded
<1>2. \A x, y \in Nat : <<y, x>> \in R <=> y < x
  BY DEF OpToRel
<1>. HIDE DEF R
<1>3. PICK x \in T : \A y \in T : ~(<<y, x>> \in R)
  BY <1>1, WFMin
<1>4. ASSUME NEW y \in T PROVE x =< y
  <2>1. x \in Nat /\ y \in Nat
    OBVIOUS
  <2>2. ~(y < x)
    BY <1>2, <1>3, <2>1
  <2>. QED BY <2>1, <2>2
<1>. QED BY <1>4 DEF Min

\* The lesser of two numbers.
LEMMA MinIs ==
    ASSUME NEW a \in Int, NEW b \in Int
    PROVE  /\ Min({a, b}) \in {a, b}
           /\ Min({a, b}) <= a /\ Min({a, b}) <= b
<1>1. \E x \in {a, b} : \A y \in {a, b} : x <= y
  <2>1. CASE a <= b
    BY <2>1
  <2>2. CASE ~(a <= b)
    BY <2>2
  <2>. QED BY <2>1, <2>2
<1>. QED BY <1>1 DEF Min

-----------------------------------------------------------------------------
\* Induction over the numbers, as a fact about a set of them.
LEMMA Induction ==
    ASSUME NEW T \in SUBSET Nat, 0 \in T, \A n \in T : n + 1 \in T
    PROVE  T = Nat
<1> DEFINE R == OpToRel(<, Nat)
           F == Nat \ T
<1>1. IsWellFoundedOn(R, Nat)
  BY NatLessThanWellFounded
<1>2. \A x, y \in Nat : <<y, x>> \in R <=> y < x
  BY DEF OpToRel
<1>. HIDE DEF R
<1>3. SUFFICES ASSUME F # {} PROVE FALSE
  OBVIOUS
<1>4. PICK x \in F : \A y \in F : ~(<<y, x>> \in R)
  BY <1>1, <1>3, WFMin
<1>5. x \in Nat /\ x # 0
  BY <1>4
<1>6. x - 1 \in Nat /\ x - 1 < x /\ (x - 1) + 1 = x
  BY <1>5
<1>7. x - 1 \in T
  BY <1>2, <1>4, <1>5, <1>6
<1>. QED BY <1>4, <1>6, <1>7

\* A function that is given at 0 and from each number to the next exists.
Recursive(S, n, base, step) ==
    \E f \in [0..n -> S] : f[0] = base /\ \A i \in 1..n : f[i] = step[i][f[i - 1]]

LEMMA Recursion ==
    ASSUME NEW S, NEW n \in Nat, NEW base \in S, NEW step \in [1..n -> [S -> S]]
    PROVE  Recursive(S, n, base, step)
<1> DEFINE Is(f, m) == f[0] = base /\ \A i \in 1..m : f[i] = step[i][f[i - 1]]
           T == {m \in Nat : m <= n => \E f \in [0..m -> S] : Is(f, m)}
<1>1. 0 \in T
  <2> DEFINE f == [i \in 0..0 |-> base]
  <2>1. f \in [0..0 -> S] /\ Is(f, 0)
    OBVIOUS
  <2>. QED BY <2>1
<1>. HIDE DEF Is
<1>2. ASSUME NEW m \in T PROVE m + 1 \in T
  <2>1. SUFFICES ASSUME m + 1 <= n
                 PROVE  \E f \in [0..(m + 1) -> S] : Is(f, m + 1)
    OBVIOUS
  <2>2. PICK f \in [0..m -> S] : Is(f, m)
    BY <1>2, <2>1
  <2> DEFINE x == step[m + 1][f[m]]
             g == [i \in 0..(m + 1) |-> IF i = m + 1 THEN x ELSE f[i]]
  <2>3. m \in Nat /\ m + 1 \in 1..n /\ m \in 0..m
    BY <2>1
  <2>4. f[m] \in S
    BY <2>2, <2>3
  <2>5. x \in S
    BY <2>3, <2>4
  <2>. HIDE DEF x
  <2>6. g \in [0..(m + 1) -> S] /\ g[0] = base
    BY <2>2, <2>3, <2>5 DEF Is
  <2>7. ASSUME NEW i \in 1..(m + 1)
        PROVE  g[i] = step[i][g[i - 1]]
    <3>1. CASE i = m + 1
      <4>1. i - 1 = m /\ m # m + 1 /\ m \in 0..(m + 1)
        BY <2>3, <3>1
      <4>2. g[i - 1] = f[m]
        BY <4>1
      <4>. QED BY <3>1, <4>1, <4>2 DEF x
    <3>2. CASE i # m + 1
      <4>1. i \in 1..m /\ i - 1 \in 0..m
        BY <2>3, <3>2
      <4>2. g[i] = f[i] /\ g[i - 1] = f[i - 1]
        BY <2>3, <3>2, <4>1
      <4>. QED BY <2>2, <4>1, <4>2 DEF Is
    <3>. QED BY <3>1, <3>2
  <2>8. Is(g, m + 1)
    BY <2>6, <2>7 DEF Is
  <2>. HIDE DEF g
  <2>. QED BY <2>6, <2>8
<1>3. T = Nat
  <2>. HIDE DEF T
  <2>1. T \in SUBSET Nat
    BY DEF T
  <2>. QED BY <1>1, <1>2, <2>1, Induction
<1>4. \E f \in [0..n -> S] : Is(f, n)
  BY <1>3
<1>. QED BY <1>4 DEF Is, Recursive

-----------------------------------------------------------------------------
\* The elements of two sequences, one after the other.
LEMMA ConcatIs ==
    ASSUME NEW S, NEW s \in Seq(S), NEW t \in Seq(S)
    PROVE  /\ s \o t \in Seq(S)
           /\ \A i \in DOMAIN s : i \in DOMAIN (s \o t) /\ (s \o t)[i] = s[i]
           /\ \A j \in DOMAIN t :
                Len(s) + j \in DOMAIN (s \o t) /\ (s \o t)[Len(s) + j] = t[j]
           /\ \A i \in DOMAIN (s \o t) :
                \/ i \in DOMAIN s
                \/ i - Len(s) \in DOMAIN t /\ i = Len(s) + (i - Len(s))
<1> DEFINE q == s \o t
<1>1. /\ q \in Seq(S) /\ Len(q) = Len(s) + Len(t)
      /\ \A k \in 1..(Len(s) + Len(t)) :
           q[k] = IF k <= Len(s) THEN s[k] ELSE t[k - Len(s)]
  BY ConcatProperties
<1>. HIDE DEF q
<1>2. Len(s) \in Nat /\ Len(t) \in Nat
  OBVIOUS
<1>3. \A i \in DOMAIN s : i \in DOMAIN q /\ q[i] = s[i]
  BY <1>1, <1>2
<1>4. ASSUME NEW j \in DOMAIN t PROVE Len(s) + j \in DOMAIN q /\ q[Len(s) + j] = t[j]
  <2>1. j \in 1..Len(t)
    OBVIOUS
  <2>2. Len(s) + j \in 1..(Len(s) + Len(t)) /\ ~(Len(s) + j <= Len(s))
        /\ (Len(s) + j) - Len(s) = j
    BY <1>2, <2>1
  <2>. QED BY <1>1, <1>2, <2>2
<1>5. \A i \in DOMAIN q : i \in DOMAIN s \/ (i - Len(s) \in DOMAIN t /\ i = Len(s) + (i - Len(s)))
  BY <1>1, <1>2
<1>. QED BY <1>1, <1>3, <1>4, <1>5 DEF q

\* An element is taken out and the others keep their order.
LEMMA RemoveAtIndex ==
    ASSUME NEW S, NEW q \in Seq(S), NEW i \in 1..Len(q)
    PROVE  /\ RemoveAt(q, i) \in Seq(S)
           /\ Len(RemoveAt(q, i)) = Len(q) - 1
           /\ \A k \in 1..(Len(q) - 1) :
                RemoveAt(q, i)[k] = q[IF k < i THEN k ELSE k + 1]
<1> DEFINE a == SubSeq(q, 1, i - 1)
           b == SubSeq(q, i + 1, Len(q))
           r == a \o b
<1>1. /\ Len(q) \in Nat /\ i - 1 \in Int /\ i + 1 \in Int
      /\ \A k \in 1..(i - 1) : q[k] \in S
      /\ \A k \in (i + 1)..Len(q) : q[k] \in S
  OBVIOUS
<1>2. /\ a \in Seq(S) /\ Len(a) = i - 1
      /\ \A k \in 1..(i - 1) : a[k] = q[k]
  <2>1. Len(a) = (IF 1 <= i - 1 THEN (i - 1) - 1 + 1 ELSE 0)
    BY <1>1, SubSeqProperties
  <2>. QED BY <1>1, <2>1, SubSeqProperties
<1>3. /\ b \in Seq(S) /\ Len(b) = Len(q) - i
      /\ \A k \in 1..(Len(q) - i) : b[k] = q[i + k]
  <2>1. /\ b \in Seq(S)
        /\ Len(b) = (IF i + 1 <= Len(q) THEN Len(q) - (i + 1) + 1 ELSE 0)
        /\ \A k \in 1..(Len(q) - (i + 1) + 1) : b[k] = q[(i + 1) + k - 1]
    BY <1>1, SubSeqProperties
  <2>. QED BY <1>1, <2>1
<1>. HIDE DEF a, b
<1>4. /\ r \in Seq(S) /\ Len(r) = Len(a) + Len(b)
      /\ \A k \in 1..(Len(a) + Len(b)) :
           r[k] = IF k <= Len(a) THEN a[k] ELSE b[k - Len(a)]
  BY <1>2, <1>3, ConcatProperties
<1>. HIDE DEF r
<1>5. Len(r) = Len(q) - 1
  BY <1>1, <1>2, <1>3, <1>4
<1>6. ASSUME NEW k \in 1..(Len(q) - 1)
      PROVE  r[k] = q[IF k < i THEN k ELSE k + 1]
  <2>1. CASE k < i
    <3>1. k \in 1..(i - 1) /\ k \in 1..(Len(a) + Len(b)) /\ k <= Len(a)
      BY <1>1, <1>2, <1>3, <2>1
    <3>2. r[k] = a[k] /\ a[k] = q[k]
      BY <1>2, <1>4, <3>1
    <3>. QED BY <2>1, <3>2
  <2>2. CASE k >= i
    <3>1. k - (i - 1) \in 1..(Len(q) - i)
      BY <1>1, <2>2
    <3>2. r[k] = b[k - (i - 1)]
      BY <1>1, <1>2, <1>3, <1>4, <2>2
    <3>3. b[k - (i - 1)] = q[i + (k - (i - 1))]
      BY <1>3, <3>1
    <3>4. i + (k - (i - 1)) = k + 1
      BY <1>1
    <3>. QED BY <1>1, <2>2, <3>2, <3>3, <3>4
  <2>. QED BY <1>1, <2>1, <2>2
<1>7. RemoveAt(q, i) = r
  BY DEF RemoveAt, r, a, b
<1>. QED BY <1>4, <1>5, <1>6, <1>7

=============================================================================
