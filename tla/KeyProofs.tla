------------------------------ MODULE KeyProofs ------------------------------
(***************************************************************************)
(* Lemmas about the byte keys of IndexKey, and their proofs, checked by    *)
(* TLAPS for every value of the constants: numbers are their digits, the   *)
(* order of keys is a strict order, in which the elements of a finite set  *)
(* have ranks, and a key decodes to the value it was made of.  Before      *)
(* them, induction over numbers and what a recursion gives, which rest on  *)
(* a set of numbers having a least element.                                *)
(***************************************************************************)
EXTENDS IndexKey, WellFoundedInduction, SequenceTheorems, FiniteSetTheorems, TLAPS

(* Induction over the numbers, for a set: a number that is not in it would *)
(* have a least one before it.                                             *)
LEMMA NatSetInduction ==
    ASSUME NEW S, 0 \in S, \A n \in Nat : n \in S => n + 1 \in S
    PROVE  \A n \in Nat : n \in S
<1> DEFINE T == Nat \ S
<1> SUFFICES ASSUME T # {} PROVE FALSE
  OBVIOUS
<1> DEFINE R == OpToRel(<, Nat)
<1>1. PICK x \in T : \A y \in T : <<y, x>> \notin R
  BY WFMin, NatLessThanWellFounded
<1>2. x \in Nat /\ \A y \in T : ~(y < x)
  BY <1>1 DEF OpToRel
<1>3. x # 0 /\ x - 1 \in Nat
  BY <1>2
<1>4. x - 1 \in S
  BY <1>2, <1>3
<1>5. (x - 1) + 1 \in S
  BY <1>3, <1>4
<1> QED  BY <1>2, <1>5

(* The same over the numbers up to n.                                      *)
LEMMA UpToInduction ==
    ASSUME NEW n \in Nat, NEW S, 0 \in S,
           \A k \in 1..n : k - 1 \in S => k \in S
    PROVE  0..n \subseteq S
<1> DEFINE T == S \cup {k \in Nat : k > n}
<1>1. \A k \in Nat : k \in T => k + 1 \in T
  <2> SUFFICES ASSUME NEW k \in Nat, k \in T, k + 1 <= n PROVE k + 1 \in S
    OBVIOUS
  <2>1. k \in S /\ k + 1 \in 1..n
    OBVIOUS
  <2>2. (k + 1) - 1 = k
    OBVIOUS
  <2> QED BY <2>1, <2>2
<1>2. 0 \in T
  OBVIOUS
<1> HIDE DEF T
<1>3. \A k \in Nat : k \in T
  BY <1>1, <1>2, NatSetInduction
<1> QED  BY <1>3 DEF T

(* A recursion over the numbers up to n defines a function.                *)
LEMMA Recursion ==
    ASSUME NEW n \in Nat, NEW X, NEW x \in X, NEW h \in [1..n -> [X -> X]]
    PROVE  \E f \in [0..n -> X] :
              f[0] = x /\ \A i \in 1..n : f[i] = h[i][f[i - 1]]
<1> DEFINE S == {m \in Nat : m <= n =>
                   \E f \in [0..m -> X] :
                      f[0] = x /\ \A i \in 1..m : f[i] = h[i][f[i - 1]]}
<1>1. 0 \in S
  <2> DEFINE f == [i \in 0..0 |-> x]
  <2>1. f \in [0..0 -> X] /\ f[0] = x
    OBVIOUS
  <2> HIDE DEF f
  <2>2. \A i \in 1..0 : f[i] = h[i][f[i - 1]]
    OBVIOUS
  <2>3. \E e \in [0..0 -> X] : e[0] = x /\ \A i \in 1..0 : e[i] = h[i][e[i - 1]]
    BY <2>1, <2>2, Zenon
  <2> QED  BY <2>3
<1>2. ASSUME NEW m \in Nat, m \in S PROVE m + 1 \in S
  <2> SUFFICES ASSUME m + 1 <= n
               PROVE  \E f \in [0..m+1 -> X] :
                        f[0] = x /\ \A i \in 1..m+1 : f[i] = h[i][f[i - 1]]
    OBVIOUS
  <2>1. PICK g \in [0..m -> X] : g[0] = x /\ \A i \in 1..m : g[i] = h[i][g[i - 1]]
    BY <1>2
  <2> DEFINE f == [i \in 0..m+1 |-> IF i <= m THEN g[i] ELSE h[m + 1][g[m]]]
  <2>2. m + 1 \in 1..n /\ g[m] \in X /\ h[m + 1] \in [X -> X]
    OBVIOUS
  <2>3. f \in [0..m+1 -> X]
    BY <2>2
  <2>4. ASSUME NEW i \in 1..m+1 PROVE f[i] = h[i][f[i - 1]]
    <3>1. i - 1 \in 0..m /\ f[i - 1] = g[i - 1]
      OBVIOUS
    <3>2. CASE i <= m
      BY <2>1, <3>1, <3>2
    <3>3. CASE i = m + 1
      BY <3>1, <3>3
    <3> QED  BY <3>2, <3>3
  <2>5. f[0] = x
    BY <2>1
  <2> HIDE DEF f
  <2> QED  BY <2>3, <2>4, <2>5, Zenon
<1>3. n \in S
  <2> HIDE DEF S
  <2> QED  BY <1>1, <1>2, NatSetInduction
<1> QED  BY <1>3

-----------------------------------------------------------------------------
(* The powers of Base up to the n-th exist as a function.                  *)
LEMMA PowerUpTo ==
    ASSUME NEW n \in Nat
    PROVE  \E f \in [0..n -> Nat] : f[0] = 1 /\ \A i \in 1..n : f[i] = Base * f[i - 1]
<1> DEFINE h == [i \in 1..n |-> [v \in Nat |-> Base * v]]
<1>1. h \in [1..n -> [Nat -> Nat]]
  BY KeyAssumption
<1>2. \A i \in 1..n, v \in Nat : h[i][v] = Base * v
  OBVIOUS
<1> HIDE DEF h
<1>3. PICK f \in [0..n -> Nat] : f[0] = 1 /\ \A i \in 1..n : f[i] = h[i][f[i - 1]]
  <2> DEFINE X == Nat
             x == 1
  <2>1. x \in X /\ h \in [1..n -> [X -> X]]
    BY <1>1
  <2> HIDE DEF x, X
  <2>2. \E f \in [0..n -> X] : f[0] = x /\ \A i \in 1..n : f[i] = h[i][f[i - 1]]
    BY ONLY <2>1, n \in Nat, Recursion, SMTT(60)
  <2> QED  BY <2>2 DEF x, X
<1>4. \A i \in 1..n : f[i - 1] \in Nat
  OBVIOUS
<1> QED  BY <1>2, <1>3, <1>4, ZenonT(60)

(* The same, for sets and functions that are not variables of the lemma.   *)
Turns(n, X, x, h) == n \in Nat /\ x \in X /\ h \in [1..n -> [X -> X]]

Taken(n, X, x, h, f) ==
    f \in [0..n -> X] /\ f[0] = x /\ \A i \in 1..n : f[i] = h[i][f[i - 1]]

(* Such a function exists for whatever the turns are.                      *)
LEMMA TurnsTaken ==
    ASSUME NEW n, NEW X, NEW x, NEW h, Turns(n, X, x, h)
    PROVE  \E f : Taken(n, X, x, h, f)
<1>1. n \in Nat /\ x \in X /\ h \in [1..n -> [X -> X]]
  BY DEF Turns
<1>2. \E f \in [0..n -> X] : f[0] = x /\ \A i \in 1..n : f[i] = h[i][f[i - 1]]
  BY ONLY <1>1, Recursion, SMTT(60)
<1> QED  BY <1>2, Zenon DEF Taken

(* Two such recursions agree as far as both go.                            *)
LEMMA PowersAgree ==
    ASSUME NEW n \in Nat, NEW f, f[0] = 1, \A i \in 1..n : f[i] = Base * f[i - 1],
           NEW g, g[0] = 1, \A i \in 1..n : g[i] = Base * g[i - 1]
    PROVE  \A i \in 0..n : f[i] = g[i]
<1> DEFINE S == {i \in 0..n : f[i] = g[i]}
<1>1. 0 \in S
  OBVIOUS
<1>2. \A k \in 1..n : k - 1 \in S => k \in S
  OBVIOUS
<1> HIDE DEF S
<1>3. 0..n \subseteq S
  BY <1>1, <1>2, UpToInduction
<1> QED  BY <1>3 DEF S

(* Power is what its recursive definition says.                            *)
LEMMA PowerValues ==
    /\ Power[0] = 1
    /\ \A n \in Nat : /\ Power[n + 1] = Base * Power[n]
                      /\ Power[n] \in Nat \ {0}
<1> DEFINE Up(n, f) == f[0] = 1 /\ \A i \in 1..n : f[i] = Base * f[i - 1]
           U == [n \in Nat |-> CHOOSE f \in [0..n -> Nat] : Up(n, f)]
           P == [n \in Nat |-> U[n][n]]
<1>1. ASSUME NEW n \in Nat PROVE U[n] \in [0..n -> Nat] /\ Up(n, U[n])
  BY PowerUpTo
<1> HIDE DEF U
<1>2. ASSUME NEW n \in Nat PROVE P[n + 1] = Base * P[n]
  <2>1. n \in 0..n /\ n + 1 \in 1..(n + 1) /\ n + 1 \in Nat /\ (n + 1) - 1 = n
    OBVIOUS
  <2>2. Up(n, U[n + 1]) /\ Up(n, U[n])
    BY <1>1, <2>1
  <2>3. U[n + 1][n] = U[n][n]
    <3> DEFINE f == U[n + 1]
               g == U[n]
    <3>1. /\ f[0] = 1 /\ \A i \in 1..n : f[i] = Base * f[i - 1]
          /\ g[0] = 1 /\ \A i \in 1..n : g[i] = Base * g[i - 1]
      BY <2>1, <2>2
    <3> HIDE DEF f, g
    <3>2. \A i \in 0..n : f[i] = g[i]
      BY ONLY <3>1, n \in Nat, PowersAgree
    <3> QED  BY <2>1, <3>2 DEF f, g
  <2>4. U[n + 1][n + 1] = Base * U[n + 1][n]
    BY <1>1, <2>1
  <2> QED  BY <2>1, <2>3, <2>4
<1>3. P[0] = 1
  BY <1>1
<1>4. P = [n \in Nat |-> IF n = 0 THEN 1 ELSE Base * P[n - 1]]
  <2>1. ASSUME NEW n \in Nat \ {0} PROVE P[n] = Base * P[n - 1]
    <3>1. n - 1 \in Nat /\ (n - 1) + 1 = n
      OBVIOUS
    <3> HIDE DEF P
    <3> QED  BY <1>2, <3>1
  <2>2. P = [n \in Nat |-> P[n]]
    OBVIOUS
  <2> HIDE DEF P
  <2> QED  BY <1>3, <2>1, <2>2
<1> HIDE DEF P
<1>5. Power = [n \in Nat |-> IF n = 0 THEN 1 ELSE Base * Power[n - 1]]
  <2>1. Power = CHOOSE p : p = [n \in Nat |-> IF n = 0 THEN 1 ELSE Base * p[n - 1]]
    BY DEF Power
  <2> QED  BY <1>4, <2>1
<1>6. Power[0] = 1 /\ \A n \in Nat : Power[n + 1] = Base * Power[n]
  BY <1>5
<1> DEFINE S == {n \in Nat : Power[n] \in Nat \ {0}}
<1>7. \A n \in Nat : n \in S => n + 1 \in S
  BY <1>6, KeyAssumption
<1>8. 0 \in S
  BY <1>6
<1> HIDE DEF S
<1>9. \A n \in Nat : n \in S
  BY <1>7, <1>8, NatSetInduction
<1> QED  BY <1>6, <1>9 DEF S

(* Division with remainder has one result.                                 *)
LEMMA DivisionUnique ==
    ASSUME NEW m \in Nat \ {0}, NEW q \in Nat, NEW r \in Nat, r < m
    PROVE  /\ (m * q + r) \div m = q
           /\ (m * q + r) % m = r
OBVIOUS

(* One more digit of a number.                                             *)
LEMMA NextDigit ==
    ASSUME NEW n \in Nat, NEW P \in Nat \ {0}
    PROVE  n % (Base * P) = (n % P) + ((n \div P) % Base) * P
<1> DEFINE q == n \div P
           r == n % P
           e == q \div Base
           d == q % Base
<1>1. q \in Nat /\ r \in 0..(P - 1) /\ n = P * q + r
  OBVIOUS
<1>2. e \in Nat /\ d \in 0..(Base - 1) /\ q = Base * e + d
  BY <1>1, KeyAssumption
<1> HIDE DEF q, r, e, d
<1>3. Base * P \in Nat \ {0}
  BY KeyAssumption
<1>4. P * d + r \in Nat /\ P * d + r < Base * P
  <2>1. P * (d + 1) <= P * Base
    BY <1>2, KeyAssumption
  <2>2. P * (d + 1) = P * d + P
    BY <1>2
  <2>3. P * d \in Nat
    BY <1>2
  <2> QED  BY <1>1, <2>1, <2>2, <2>3, KeyAssumption
<1>5. n = (Base * P) * e + (P * d + r)
  BY <1>1, <1>2, KeyAssumption
<1>6. n % (Base * P) = P * d + r
  BY <1>2, <1>3, <1>4, <1>5, DivisionUnique
<1> QED  BY <1>1, <1>2, <1>6 DEF q, r, d

(* The width of a signed number is twice its half, and a power of Base.    *)
LEMMA WidthIsEven ==
    /\ Half \in Nat \ {0}
    /\ Width = 2 * Half
    /\ Power[IntBytes] = Width
<1>1. IntBytes - 1 \in Nat /\ (IntBytes - 1) + 1 = IntBytes
  BY KeyAssumption
<1>2. Power[IntBytes - 1] \in Nat \ {0} /\ Power[IntBytes] = Base * Power[IntBytes - 1]
  BY <1>1, PowerValues
<1>3. PICK k \in Nat : Base = 2 * k /\ k # 0
  BY KeyAssumption
<1> DEFINE m == k * Power[IntBytes - 1]
<1>4. m \in Nat \ {0}
  BY <1>2, <1>3
<1>5. Width = 2 * m
  BY <1>2, <1>3 DEF Width
<1> HIDE DEF m
<1>6. Half = m
  BY <1>4, <1>5 DEF Half
<1> QED  BY <1>4, <1>5, <1>6 DEF Width

-----------------------------------------------------------------------------
(* The order of byte strings: a is less than b at the first place i where  *)
(* they differ, which may be the one behind the end of a.                  *)
LessAt(a, b, i) ==
    /\ i \in 1..Len(b)
    /\ \A j \in 1..(i - 1) : j <= Len(a) /\ a[j] = b[j]
    /\ i = Len(a) + 1 \/ (i <= Len(a) /\ a[i] < b[i])

(* KeyLess is the order of that place.                                     *)
LEMMA KeyLessAt ==
    ASSUME NEW a \in Seq(Bytes), NEW b \in Seq(Bytes)
    PROVE  KeyLess(a, b) <=> \E i \in Nat : LessAt(a, b, i)
<1>1. Len(a) \in Nat /\ Len(b) \in Nat /\ DOMAIN a = 1..Len(a) /\ DOMAIN b = 1..Len(b)
  OBVIOUS
<1>2. ASSUME IsStrictPrefix(a, b) PROVE LessAt(a, b, Len(a) + 1)
  <2>1. Len(a) <= Len(b) /\ SubSeq(a, 1, Len(a)) = SubSeq(b, 1, Len(a)) /\ a # b
    BY <1>2 DEF IsStrictPrefix, IsPrefix
  <2>2. ASSUME NEW j \in 1..Len(a) PROVE a[j] = b[j]
    <3>1. SubSeq(a, 1, Len(a))[j] = a[j] /\ SubSeq(b, 1, Len(a))[j] = b[j]
      BY <1>1, <2>1
    <3> QED  BY <2>1, <3>1
  <2>3. Len(a) # Len(b)
    BY <2>1, <2>2
  <2>4. Len(a) + 1 \in 1..Len(b)
    <3>1. Len(a) <= Len(b)
      BY <2>1
    <3>2. Len(a) \in Nat /\ Len(b) \in Nat
      OBVIOUS
    <3> QED  BY ONLY <2>3, <3>1, <3>2
  <2>5. (Len(a) + 1) - 1 = Len(a)
    BY <1>1
  <2> QED  BY <1>1, <2>2, <2>4, <2>5 DEF LessAt
<1>3. ASSUME NEW i \in DOMAIN a \cap DOMAIN b, a[i] < b[i], \A j \in 1..(i - 1) : a[j] = b[j]
      PROVE  LessAt(a, b, i)
  BY <1>1, <1>3 DEF LessAt
<1>4. ASSUME NEW i \in Nat, LessAt(a, b, i), i = Len(a) + 1 PROVE IsStrictPrefix(a, b)
  <2>1. Len(a) < Len(b) /\ \A j \in 1..Len(a) : a[j] = b[j]
    BY <1>1, <1>4 DEF LessAt
  <2>2. SubSeq(a, 1, Len(a)) = SubSeq(b, 1, Len(a))
    BY <1>1, <2>1
  <2> QED  BY <1>1, <2>1, <2>2 DEF IsStrictPrefix, IsPrefix
<1>5. ASSUME NEW i \in Nat, LessAt(a, b, i), i # Len(a) + 1 PROVE KeyLess(a, b)
  BY <1>1, <1>5 DEF LessAt, KeyLess
<1>6. ASSUME KeyLess(a, b) PROVE \E i \in Nat : LessAt(a, b, i)
  <2>1. CASE IsStrictPrefix(a, b)
    BY <1>1, <1>2, <2>1
  <2>2. CASE ~IsStrictPrefix(a, b)
    BY <1>1, <1>3, <1>6, <2>2 DEF KeyLess
  <2> QED  BY <2>1, <2>2
<1> QED  BY <1>4, <1>5, <1>6 DEF KeyLess

(* The order is transitive,                                                *)
LEMMA KeyLessTransitive ==
    ASSUME NEW a \in Seq(Bytes), NEW b \in Seq(Bytes), NEW c \in Seq(Bytes),
           KeyLess(a, b), KeyLess(b, c)
    PROVE  KeyLess(a, c)
<1>1. PICK i \in Nat : LessAt(a, b, i)
  BY KeyLessAt
<1>2. PICK k \in Nat : LessAt(b, c, k)
  BY KeyLessAt
<1>3. /\ Len(a) \in Nat /\ Len(b) \in Nat /\ Len(c) \in Nat
      /\ \A j \in 1..Len(a) : a[j] \in Int
      /\ \A j \in 1..Len(b) : b[j] \in Int
      /\ \A j \in 1..Len(c) : c[j] \in Int
  BY KeyAssumption DEF Bytes
<1>4. CASE i <= k
  <2>1. LessAt(a, c, i)
    BY <1>1, <1>2, <1>3, <1>4, SMTT(60) DEF LessAt
  <2> QED  BY <2>1, KeyLessAt
<1>5. CASE k < i
  <2>1. LessAt(a, c, k)
    BY <1>1, <1>2, <1>3, <1>5 DEF LessAt
  <2> QED  BY <2>1, KeyLessAt
<1> QED  BY <1>4, <1>5

(* irreflexive,                                                            *)
LEMMA KeyLessIrreflexive ==
    ASSUME NEW a \in Seq(Bytes) PROVE ~KeyLess(a, a)
<1> SUFFICES ASSUME NEW i \in Nat, LessAt(a, a, i) PROVE FALSE
  BY KeyLessAt
<1>1. Len(a) \in Nat /\ \A j \in 1..Len(a) : a[j] \in Int
  BY KeyAssumption DEF Bytes
<1> QED  BY <1>1 DEF LessAt

(* Some numbers that are not none have a least one.                        *)
LEMMA Least ==
    ASSUME NEW T, T \subseteq Nat, T # {}
    PROVE  \E x \in T : \A y \in T : x <= y
<1> DEFINE R == OpToRel(<, Nat)
<1>1. PICK x \in T : \A y \in T : <<y, x>> \notin R
  BY WFMin, NatLessThanWellFounded
<1>2. \A y \in T : ~(y < x) /\ y \in Nat /\ x \in Nat
  BY <1>1 DEF OpToRel
<1>3. \A y \in T : x <= y
  BY <1>2
<1> QED  BY <1>3

(* and total.                                                              *)
LEMMA KeyLessTotal ==
    ASSUME NEW a \in Seq(Bytes), NEW b \in Seq(Bytes), a # b
    PROVE  KeyLess(a, b) \/ KeyLess(b, a)
<1>1. /\ Len(a) \in Nat /\ Len(b) \in Nat
      /\ \A j \in 1..Len(a) : a[j] \in Int
      /\ \A j \in 1..Len(b) : b[j] \in Int
  BY KeyAssumption DEF Bytes
<1> DEFINE T == {j \in Nat : j # 0 /\ (j = Len(a) + 1 \/ j = Len(b) + 1
                                        \/ (j <= Len(a) /\ j <= Len(b) /\ a[j] # b[j]))}
<1>2. T \subseteq Nat /\ T # {}
  <2>1. CASE Len(a) <= Len(b)
    <3>1. Len(a) + 1 \in T
      BY <1>1
    <3> QED  BY <3>1
  <2>2. CASE Len(b) < Len(a)
    <3>1. Len(b) + 1 \in T
      BY <1>1
    <3> QED  BY <3>1
  <2> QED  BY <1>1, <2>1, <2>2
<1>3. PICK i \in T : \A j \in T : i <= j
  <2> HIDE DEF T
  <2> QED  BY <1>2, Least
<1>4. i \in Nat \ {0} /\ i <= Len(a) + 1 /\ i <= Len(b) + 1
  BY <1>1, <1>3
<1>5. \A j \in 1..(i - 1) : j <= Len(a) /\ j <= Len(b) /\ a[j] = b[j]
  BY <1>1, <1>3, <1>4
<1>6. CASE i = Len(a) + 1 /\ i = Len(b) + 1
  BY <1>1, <1>5, <1>6
<1>7. CASE i = Len(a) + 1 /\ i # Len(b) + 1
  <2>1. LessAt(a, b, i)
    BY <1>1, <1>4, <1>5, <1>7 DEF LessAt
  <2> QED  BY <1>4, <2>1, KeyLessAt
<1>8. CASE i # Len(a) + 1 /\ i = Len(b) + 1
  <2>1. LessAt(b, a, i)
    BY <1>1, <1>4, <1>5, <1>8 DEF LessAt
  <2> QED  BY <1>4, <2>1, KeyLessAt
<1>9. CASE i # Len(a) + 1 /\ i # Len(b) + 1
  <2>1. i <= Len(a) /\ i <= Len(b) /\ a[i] # b[i]
    BY <1>4, <1>9, <1>3
  <2>2. LessAt(a, b, i) \/ LessAt(b, a, i)
    BY <1>1, <1>4, <1>5, <2>1 DEF LessAt
  <2> QED  BY <1>4, <2>2, KeyLessAt
<1> QED  BY <1>6, <1>7, <1>8, <1>9

-----------------------------------------------------------------------------
(* The rank of an element of D: how many have a lesser key.                *)
KeyRank(D, key, x) == Cardinality({other \in D : KeyLess(key[other], key[x])})

Ranked(D, key) ==
    /\ IsFiniteSet(D) /\ key \in [D -> Seq(Bytes)]
    /\ \A x, y \in D : key[x] = key[y] => x = y

(* A greater key has a greater rank, less than the size of the set.        *)
LEMMA RankOrder ==
    ASSUME NEW D, NEW key, Ranked(D, key), NEW x \in D, NEW y \in D
    PROVE  /\ KeyRank(D, key, x) \in Nat /\ KeyRank(D, key, x) < Cardinality(D)
           /\ KeyLess(key[x], key[y]) => KeyRank(D, key, x) < KeyRank(D, key, y)
<1> DEFINE Less(z) == {other \in D : KeyLess(key[other], key[z])}
<1>0. IsFiniteSet(D) /\ \A z \in D : key[z] \in Seq(Bytes)
  BY DEF Ranked
<1>1. ASSUME NEW S, IsFiniteSet(S), NEW T \in SUBSET S, NEW z \in S, z \notin T
      PROVE  Cardinality(T) \in Nat /\ Cardinality(T) < Cardinality(S) /\ Cardinality(S) \in Nat
  <2>1. /\ IsFiniteSet(T) /\ Cardinality(T) <= Cardinality(S)
        /\ Cardinality(S) = Cardinality(T) => S = T
    BY <1>1, FS_Subset
  <2>2. Cardinality(T) \in Nat /\ Cardinality(S) \in Nat
    BY <1>1, <2>1, FS_CardinalityType
  <2> QED  BY <1>1, <2>1, <2>2
<1>2. ~KeyLess(key[x], key[x])
  BY <1>0, KeyLessIrreflexive
<1>3. Less(x) \in SUBSET D /\ x \notin Less(x)
  BY <1>2
<1>4. IsFiniteSet(Less(y))
  BY <1>0, FS_Subset
<1>5. ASSUME KeyLess(key[x], key[y]) PROVE Less(x) \in SUBSET Less(y) /\ x \in Less(y)
  <2>1. ASSUME NEW z \in D, KeyLess(key[z], key[x]) PROVE KeyLess(key[z], key[y])
    BY <1>0, <1>5, <2>1, KeyLessTransitive
  <2> QED  BY <1>5, <2>1
<1>6. KeyRank(D, key, x) = Cardinality(Less(x)) /\ KeyRank(D, key, y) = Cardinality(Less(y))
  BY DEF KeyRank
<1> HIDE DEF Less
<1>7. Cardinality(Less(x)) \in Nat /\ Cardinality(Less(x)) < Cardinality(D)
  BY <1>0, <1>1, <1>3
<1>8. ASSUME KeyLess(key[x], key[y]) PROVE Cardinality(Less(x)) < Cardinality(Less(y))
  BY <1>1, <1>3, <1>4, <1>5, <1>8
<1> QED  BY <1>6, <1>7, <1>8

(* Every number below the size of the set is the rank of one element.      *)
LEMMA EveryRank ==
    ASSUME NEW D, NEW key, Ranked(D, key)
    PROVE  /\ Cardinality(D) \in Nat
           /\ \A x \in D : KeyRank(D, key, x) \in 0..(Cardinality(D) - 1)
           /\ \A x, y \in D : KeyRank(D, key, x) = KeyRank(D, key, y) => x = y
           /\ \A i \in 0..(Cardinality(D) - 1) : \E x \in D : KeyRank(D, key, x) = i
<1>0. IsFiniteSet(D) /\ \A z \in D : key[z] \in Seq(Bytes)
  BY DEF Ranked
<1> PICK n \in Nat : n = Cardinality(D)
  BY <1>0, FS_CardinalityType
<1> DEFINE r == [x \in D |-> KeyRank(D, key, x)]
           T == 0..(n - 1)
<1>1. \A x \in D : r[x] = KeyRank(D, key, x) /\ KeyRank(D, key, x) \in T
  BY RankOrder
<1>2. \A x, y \in D : r[x] = r[y] => x = y
  <2> SUFFICES ASSUME NEW x \in D, NEW y \in D, x # y
               PROVE  KeyRank(D, key, x) # KeyRank(D, key, y)
    BY <1>1
  <2>1. key[x] # key[y]
    BY DEF Ranked
  <2>2. KeyLess(key[x], key[y]) \/ KeyLess(key[y], key[x])
    BY <1>0, <2>1, KeyLessTotal
  <2>3. KeyRank(D, key, x) \in Nat /\ KeyRank(D, key, y) \in Nat
    BY RankOrder
  <2>4. /\ KeyLess(key[x], key[y]) => KeyRank(D, key, x) < KeyRank(D, key, y)
        /\ KeyLess(key[y], key[x]) => KeyRank(D, key, y) < KeyRank(D, key, x)
    BY RankOrder
  <2> QED  BY <2>2, <2>3, <2>4
<1>3. IsFiniteSet(T) /\ Cardinality(T) = n
  <2>1. 0 \in Int /\ n - 1 \in Int
    OBVIOUS
  <2>2. IsFiniteSet(T) /\ Cardinality(T) = IF 0 > n - 1 THEN 0 ELSE (n - 1) - 0 + 1
    BY <2>1, FS_Interval
  <2> HIDE DEF T
  <2> QED  BY <2>2
<1>4. r \in [D -> T]
  BY <1>1
<1> HIDE DEF r, T
<1>5. r \in Injection(D, T)
  BY <1>2, <1>4 DEF Injection, IsInjective
<1>6. r \in Surjection(D, T)
  BY <1>0, <1>3, <1>5, FS_Injection
<1>7. \A i \in T : \E x \in D : r[x] = i
  BY <1>6 DEF Surjection
<1> QED  BY <1>1, <1>2, <1>7 DEF T

-----------------------------------------------------------------------------
(* What is left of a number without its last digit.                        *)
LEMMA NextQuotient ==
    ASSUME NEW n \in Nat, NEW P \in Nat \ {0}
    PROVE  /\ n \div P \in Nat /\ n \div (Base * P) \in Nat
           /\ n \div P = (n \div (Base * P)) * Base + ((n \div P) % Base)
<1> DEFINE q == n \div P
           r == n % P
           e == q \div Base
           d == q % Base
<1>1. q \in Nat /\ r \in 0..(P - 1) /\ n = P * q + r
  OBVIOUS
<1>2. e \in Nat /\ d \in 0..(Base - 1) /\ q = Base * e + d
  BY <1>1, KeyAssumption
<1> HIDE DEF q, r, e, d
<1>3. Base * P \in Nat \ {0}
  BY KeyAssumption
<1>4. P * d + r \in Nat /\ P * d + r < Base * P
  <2>1. P * (d + 1) <= P * Base
    BY <1>2, KeyAssumption
  <2>2. P * (d + 1) = P * d + P
    BY <1>2
  <2>3. P * d \in Nat
    BY <1>2
  <2> QED  BY <1>1, <2>1, <2>2, <2>3, KeyAssumption
<1>5. n = (Base * P) * e + (P * d + r)
  BY <1>1, <1>2, KeyAssumption
<1>6. n \div (Base * P) = e
  BY <1>2, <1>3, <1>4, <1>5, DivisionUnique
<1>7. e * Base = Base * e
  BY <1>2, KeyAssumption
<1>8. n \div P = q /\ (n \div P) % Base = d
  BY DEF q, d
<1>9. n \div P = (n \div (Base * P)) * Base + ((n \div P) % Base)
  <2>1. q = e * Base + d
    BY <1>2, <1>7
  <2> DEFINE x == n \div P
             y == n \div (Base * P)
             z == (n \div P) % Base
  <2>2. x = q /\ y = e /\ z = d
    BY <1>6, <1>8
  <2> HIDE DEF x, y, z
  <2>3. x = y * Base + z
    BY ONLY <2>1, <2>2
  <2> QED  BY <2>3 DEF x, y, z
<1> QED  BY <1>1, <1>2, <1>6, <1>8, <1>9, Zenon

(* Division keeps the order of numbers.                                    *)
LEMMA QuotientOrder ==
    ASSUME NEW u \in Nat, NEW w \in Nat, u <= w, NEW P \in Nat \ {0}
    PROVE  u \div P <= w \div P
<1> DEFINE a == u \div P
           b == w \div P
           r == u % P
           s == w % P
<1>1. /\ a \in Nat /\ r \in 0..(P - 1) /\ u = P * a + r
      /\ b \in Nat /\ s \in 0..(P - 1) /\ w = P * b + s
  OBVIOUS
<1> HIDE DEF a, b, r, s
<1>2. ASSUME a > b PROVE FALSE
  <2>1. PICK k \in Nat : a = b + 1 + k
    <3>1. a - (b + 1) \in Nat
      BY <1>1, <1>2
    <3> QED  BY <1>1, <3>1
  <2>2. P * a = P * b + P + P * k /\ P * k \in Nat /\ P * b \in Nat
    BY <1>1, <2>1
  <2> QED  BY <1>1, <2>2
<1> QED  BY <1>1, <1>2 DEF a, b

(* The number the first i digits of u are.                                 *)
Leading(u, i) == u \div Power[IntBytes - i]

(* The bytes of an integer are its digits, the most significant first.      *)
LEMMA BigEndianDigits ==
    ASSUME NEW u \in 0..(Width - 1)
    PROVE  /\ BigEndian(u) \in Seq(Bytes) /\ Len(BigEndian(u)) = IntBytes
           /\ \A i \in 1..IntBytes : BigEndian(u)[i] \in Bytes
           /\ Leading(u, 0) = 0 /\ Leading(u, IntBytes) = u
           /\ \A i \in 0..IntBytes : Leading(u, i) \in Nat
           /\ \A i \in 1..IntBytes :
                 Leading(u, i) = Leading(u, i - 1) * Base + BigEndian(u)[i]
<1>0. IntBytes \in Nat /\ u \in Nat /\ u < Width /\ Width = Power[IntBytes]
  BY WidthIsEven, KeyAssumption
<1>1. ASSUME NEW i \in 0..IntBytes PROVE Leading(u, i) \in Nat
  <2>1. Power[IntBytes - i] \in Nat \ {0}
    BY <1>0, PowerValues
  <2> QED  BY <1>0, <2>1 DEF Leading
<1>2. ASSUME NEW i \in 1..IntBytes
      PROVE  /\ BigEndian(u)[i] = Leading(u, i) % Base
             /\ BigEndian(u)[i] \in Bytes
             /\ Leading(u, i) = Leading(u, i - 1) * Base + BigEndian(u)[i]
  <2>1. IntBytes - i \in Nat /\ IntBytes - (i - 1) = (IntBytes - i) + 1 /\ i - 1 \in 0..IntBytes
    BY <1>0
  <2>2. /\ Power[IntBytes - i] \in Nat \ {0}
        /\ Power[IntBytes - (i - 1)] = Base * Power[IntBytes - i]
    BY <2>1, PowerValues
  <2>3. BigEndian(u)[i] = Leading(u, i) % Base
    BY DEF BigEndian, Leading
  <2>4. Leading(u, i) = Leading(u, i - 1) * Base + (Leading(u, i) % Base)
    BY <1>0, <2>2, NextQuotient DEF Leading
  <2>5. Leading(u, i) \in Nat
    BY <1>1
  <2>6. Leading(u, i) % Base \in Bytes
    BY <2>5, KeyAssumption DEF Bytes
  <2> DEFINE x == Leading(u, i)
             y == Leading(u, i - 1)
             z == Leading(u, i) % Base
             d == BigEndian(u)[i]
  <2>7. d = z /\ x = y * Base + z /\ z \in Bytes
    BY <2>3, <2>4, <2>6
  <2> HIDE DEF x, y, z, d
  <2>8. d = z /\ d \in Bytes /\ x = y * Base + d
    BY ONLY <2>7
  <2> QED  BY <2>8 DEF x, y, z, d
<1>3. BigEndian(u) \in [1..IntBytes -> Bytes]
  BY <1>2 DEF BigEndian
<1>4. BigEndian(u) \in Seq(Bytes) /\ Len(BigEndian(u)) = IntBytes
  BY <1>0, <1>3
<1>5. Leading(u, 0) = 0
  <2>1. IntBytes - 0 = IntBytes
    BY <1>0
  <2>2. Width * 0 + u = u /\ Width \in Nat \ {0}
    BY <1>0, WidthIsEven
  <2>3. u \div Width = 0
    BY <1>0, <2>2, DivisionUnique, Zenon
  <2> QED  BY <1>0, <2>1, <2>3 DEF Leading
<1>6. Leading(u, IntBytes) = u
  <2>1. IntBytes - IntBytes = 0 /\ Power[0] = 1
    BY <1>0, PowerValues
  <2> QED  BY <1>0, <2>1 DEF Leading
<1> QED  BY <1>1, <1>2, <1>4, <1>5, <1>6

(* from_be_bytes undoes to_be_bytes.                                       *)
LEMMA BigEndianReadBack ==
    ASSUME NEW u \in 0..(Width - 1)
    PROVE  FromBigEndian(BigEndian(u)) = u
<1> DEFINE b == BigEndian(u)
           Step(f) == [i \in 0..Len(b) |-> IF i = 0 THEN 0 ELSE f[i - 1] * Base + b[i]]
           f == CHOOSE g : g = Step(g)
           v == [i \in 0..IntBytes |-> Leading(u, i)]
<1>1. /\ Len(b) = IntBytes /\ IntBytes \in Nat
      /\ Leading(u, 0) = 0 /\ Leading(u, IntBytes) = u
      /\ \A i \in 1..IntBytes : Leading(u, i) = Leading(u, i - 1) * Base + b[i]
  BY BigEndianDigits, KeyAssumption
<1>2. FromBigEndian(b) = f[Len(b)]
  BY DEF FromBigEndian
<1> HIDE DEF b
<1>3. \A i \in 1..IntBytes : i - 1 \in 0..IntBytes /\ v[i] = v[i - 1] * Base + b[i]
  BY <1>1
<1>4. v[0] = 0 /\ v[IntBytes] = u /\ DOMAIN v = 0..IntBytes
  BY <1>1
<1>5. v = Step(v)
  <2>1. v = [i \in 0..Len(b) |-> v[i]]
    BY <1>1
  <2> HIDE DEF v
  <2>2. \A i \in 0..Len(b) : i # 0 => i \in 1..IntBytes
    BY <1>1
  <2> QED  BY <1>3, <1>4, <2>1, <2>2
<1>6. f = Step(f)
  BY <1>5
<1> HIDE DEF f, v
<1> DEFINE S == {i \in 0..IntBytes : f[i] = v[i]}
<1>7. 0 \in S
  BY <1>1, <1>4, <1>6
<1>8. \A i \in 1..IntBytes : i - 1 \in S => i \in S
  <2> SUFFICES ASSUME NEW i \in 1..IntBytes, i - 1 \in S PROVE f[i] = v[i]
    OBVIOUS
  <2>1. f[i] = f[i - 1] * Base + b[i]
    BY <1>1, <1>6
  <2> QED  BY <1>3, <2>1
<1> HIDE DEF S
<1>9. 0..IntBytes \subseteq S
  BY <1>1, <1>7, <1>8, UpToInduction
<1>10. f[IntBytes] = v[IntBytes]
  BY <1>1, <1>9 DEF S
<1> QED  BY <1>1, <1>2, <1>4, <1>10 DEF b

(* The bytes of numbers are in the order of the numbers.                   *)
LEMMA BigEndianOrder ==
    ASSUME NEW u \in 0..(Width - 1), NEW w \in 0..(Width - 1), u < w
    PROVE  \E i \in 1..IntBytes :
              /\ BigEndian(u)[i] < BigEndian(w)[i]
              /\ \A j \in 1..(i - 1) : BigEndian(u)[j] = BigEndian(w)[j]
<1> DEFINE a == BigEndian(u)
           b == BigEndian(w)
           T == {i \in Nat : i <= IntBytes /\ Leading(u, i) # Leading(w, i)}
<1>1. /\ IntBytes \in Nat /\ Base \in Nat
      /\ \A i \in 1..IntBytes : a[i] \in Nat /\ b[i] \in Nat
      /\ Leading(u, 0) = Leading(w, 0)
      /\ Leading(u, IntBytes) = u /\ Leading(w, IntBytes) = w
      /\ \A i \in 0..IntBytes : Leading(u, i) \in Nat /\ Leading(w, i) \in Nat
      /\ \A i \in 1..IntBytes :
            /\ Leading(u, i) = Leading(u, i - 1) * Base + a[i]
            /\ Leading(w, i) = Leading(w, i - 1) * Base + b[i]
  <2>1. IntBytes \in Nat /\ Base \in Nat /\ Bytes \subseteq Nat
    BY KeyAssumption DEF Bytes
  <2>2. /\ \A i \in 1..IntBytes : a[i] \in Bytes
        /\ Leading(u, 0) = 0 /\ Leading(u, IntBytes) = u
        /\ \A i \in 0..IntBytes : Leading(u, i) \in Nat
        /\ \A i \in 1..IntBytes : Leading(u, i) = Leading(u, i - 1) * Base + a[i]
    BY BigEndianDigits
  <2>3. /\ \A i \in 1..IntBytes : b[i] \in Bytes
        /\ Leading(w, 0) = 0 /\ Leading(w, IntBytes) = w
        /\ \A i \in 0..IntBytes : Leading(w, i) \in Nat
        /\ \A i \in 1..IntBytes : Leading(w, i) = Leading(w, i - 1) * Base + b[i]
    BY BigEndianDigits
  <2> HIDE DEF a, b
  <2> QED  BY <2>1, <2>2, <2>3
<1> HIDE DEF a, b
<1>2. IntBytes \in T
  BY <1>1
<1>3. PICK i \in T : \A j \in T : i <= j
  <2>1. T \subseteq Nat /\ T # {}
    BY <1>2
  <2> HIDE DEF T
  <2> QED  BY <2>1, Least
<1>4. i \in 1..IntBytes /\ i - 1 \in 0..IntBytes
  BY <1>1, <1>3
<1>5. \A j \in 0..(i - 1) : Leading(u, j) = Leading(w, j)
  BY <1>1, <1>3, <1>4
<1>6. Leading(u, i) <= Leading(w, i)
  <2>1. Power[IntBytes - i] \in Nat \ {0}
    BY <1>1, <1>4, PowerValues
  <2>2. u \in Nat /\ w \in Nat /\ u <= w
    OBVIOUS
  <2> QED  BY <2>1, <2>2, QuotientOrder DEF Leading
<1>7. a[i] < b[i]
  <2> DEFINE q == Leading(u, i - 1) * Base
  <2>1. Leading(u, i) = q + a[i] /\ Leading(w, i) = q + b[i]
    BY <1>1, <1>4, <1>5
  <2>2. q \in Nat
    BY <1>1, <1>4
  <2>3. Leading(u, i) # Leading(w, i) /\ Leading(u, i) \in Nat /\ Leading(w, i) \in Nat
    BY <1>1, <1>3, <1>4
  <2>4. a[i] \in Nat /\ b[i] \in Nat
    BY <1>1, <1>4
  <2> HIDE DEF q
  <2> QED  BY <1>6, <2>1, <2>2, <2>3, <2>4
<1>8. ASSUME NEW j \in 1..(i - 1) PROVE a[j] = b[j]
  <2>1. j \in 1..IntBytes /\ j \in 0..(i - 1) /\ j - 1 \in 0..(i - 1) /\ j - 1 \in 0..IntBytes
    BY <1>1, <1>4
  <2> DEFINE q == Leading(u, j - 1) * Base
  <2>2. Leading(u, j) = q + a[j] /\ Leading(w, j) = q + b[j] /\ Leading(u, j) = Leading(w, j)
    BY <1>1, <1>5, <2>1
  <2>3. q \in Nat /\ a[j] \in Nat /\ b[j] \in Nat
    BY <1>1, <2>1
  <2> HIDE DEF q
  <2> QED  BY <2>2, <2>3
<1> QED  BY <1>4, <1>7, <1>8 DEF a, b

(* The sign bit of a 64-bit integer is flipped: the number goes up by half *)
(* the width, and comes back.                                              *)
LEMMA SignFlipped ==
    ASSUME NEW n \in (-Half)..(Half - 1)
    PROVE  /\ FlipSign(n % Width) = n + Half
           /\ n + Half \in 0..(Width - 1)
           /\ AsSigned(FlipSign(n + Half)) = n
<1>1. Half \in Nat \ {0} /\ Width = 2 * Half
  BY WidthIsEven
<1>2. CASE n >= 0
  <2>1. n % Width = n
    BY <1>1, <1>2
  <2> QED  BY <1>1, <1>2, <2>1 DEF FlipSign, AsSigned
<1>3. CASE n < 0
  <2>1. n % Width = n + Width
    BY <1>1, <1>3
  <2> QED  BY <1>1, <1>3, <2>1 DEF FlipSign, AsSigned
<1> QED  BY <1>2, <1>3

(* The bytes of a value,                                                   *)
LEMMA EncodedBytes ==
    ASSUME NEW v, IsKeyValue(v)
    PROVE  encode_key(v) \in Seq(Bytes)
<1>1. 0 \in Bytes /\ 1 \in Bytes /\ 2 \in Bytes /\ 3 \in Bytes
  BY KeyAssumption DEF Bytes
<1>2. CASE v = NullValue
  <2>1. encode_key(v) = <<0>> \o <<>>
    BY <1>2 DEF encode_key, NullValue, Tag
  <2> QED  BY <1>1, <2>1
<1>3. CASE v.type = "int" /\ \E n \in (-Half)..(Half - 1) : v = IntValue(n)
  <2>1. PICK n \in (-Half)..(Half - 1) : v = IntValue(n)
    BY <1>3
  <2>2. encode_key(v) = <<1>> \o BigEndian(n + Half)
    BY <2>1, SignFlipped DEF encode_key, IntValue, Tag
  <2>3. BigEndian(n + Half) \in Seq(Bytes)
    BY SignFlipped, BigEndianDigits
  <2> QED  BY <1>1, <2>2, <2>3
<1>4. CASE v.type = "bool" /\ \E b \in {0, 1} : v = BoolValue(b)
  <2>1. PICK b \in {0, 1} : v = BoolValue(b)
    BY <1>4
  <2>2. encode_key(v) = <<3>> \o <<b>>
    BY <2>1 DEF encode_key, BoolValue, Tag
  <2> QED  BY <1>1, <2>2
<1>5. CASE v.type = "string" /\ v.payload \in Seq(Bytes) /\ v = StringValue(v.payload)
  <2>1. encode_key(v) = <<2>> \o v.payload
    BY <1>5 DEF encode_key, Tag
  <2> QED  BY <1>1, <1>5, <2>1
<1> QED  BY <1>2, <1>3, <1>4, <1>5 DEF IsKeyValue

(* A value is read back whole: decode_key gives the value of its key, for  *)
(* every width of bytes and integers.                                      *)
THEOREM KeyReadBack ==
    ASSUME NEW v, IsKeyValue(v)
    PROVE  decode_key(encode_key(v)) = v /\ v # Undecodable
<1>0. Tag.null = 0 /\ Tag.int = 1 /\ Tag.string = 2 /\ Tag.bool = 3
  BY DEF Tag
<1>1. CASE v = NullValue
  <2>1. encode_key(v) = <<0>>
    BY <1>1 DEF encode_key, NullValue, Tag
  <2>2. v # Undecodable
    BY <1>1 DEF NullValue, Undecodable
  <2> QED  BY <1>1, <2>1, <2>2 DEF decode_key, Tag
<1>2. CASE v.type = "int" /\ \E n \in (-Half)..(Half - 1) : v = IntValue(n)
  <2>1. PICK n \in (-Half)..(Half - 1) : v = IntValue(n)
    BY <1>2
  <2> DEFINE b == BigEndian(n + Half)
             k == <<1>> \o b
  <2>2. encode_key(v) = k
    BY <2>1, SignFlipped DEF encode_key, IntValue, Tag
  <2>3. /\ b \in Seq(Bytes) /\ Len(b) = IntBytes /\ IntBytes # 0 /\ IntBytes \in Nat
        /\ FromBigEndian(b) = n + Half
    BY SignFlipped, BigEndianDigits, BigEndianReadBack, KeyAssumption
  <2> HIDE DEF b
  <2>4. k # <<>> /\ k[1] = 1 /\ Tail(k) = b /\ k # <<0>>
    <3>1. Len(k) = IntBytes + 1 /\ k[1] = 1 /\ k \in Seq(Nat)
      BY <2>3, KeyAssumption DEF Bytes
    <3>2. Tail(k) = b
      BY <2>3
    <3> HIDE DEF k
    <3> QED  BY <2>3, <3>1, <3>2
  <2> HIDE DEF k
  <2>5. decode_key(k) = IntValue(AsSigned(FlipSign(FromBigEndian(b))))
    <3>1. k # <<Tag.null>> /\ k[1] = Tag.int /\ k[1] # Tag.string
      BY <1>0, <2>4
    <3>2. k \notin {<<Tag.bool, 0>>, <<Tag.bool, 1>>}
      BY <1>0, <2>4
    <3> QED  BY <2>3, <2>4, <3>1, <3>2, Zenon DEF decode_key
  <2>6. v # Undecodable
    BY <2>1 DEF IntValue, Undecodable
  <2> QED  BY <2>1, <2>2, <2>3, <2>5, <2>6, SignFlipped
<1>3. CASE v.type = "bool" /\ \E b \in {0, 1} : v = BoolValue(b)
  <2>1. PICK b \in {0, 1} : v = BoolValue(b)
    BY <1>3
  <2>2. encode_key(v) = <<3, b>> /\ Tail(<<3, b>>) = <<b>>
    <3>1. encode_key(v) = <<3>> \o <<b>>
      BY <2>1 DEF encode_key, BoolValue, Tag
    <3> DEFINE c == <<3>> \o <<b>>
               d == <<3, b>>
    <3>2. c \in Seq(Nat) /\ Len(c) = 2 /\ c[1] = 3 /\ c[2] = b
      OBVIOUS
    <3>3. d \in Seq(Nat) /\ Len(d) = 2 /\ d[1] = 3 /\ d[2] = b /\ Tail(d) = <<b>>
      OBVIOUS
    <3> HIDE DEF c, d
    <3>4. c = d
      BY <3>2, <3>3
    <3> QED  BY <3>1, <3>3, <3>4 DEF c, d
  <2>3. v # Undecodable
    BY <2>1 DEF BoolValue, Undecodable
  <2>4. decode_key(<<3, b>>) = BoolValue(b)
    BY <1>0, <2>2 DEF decode_key
  <2> QED  BY <2>1, <2>2, <2>3, <2>4
<1>4. CASE v.type = "string" /\ v.payload \in Seq(Bytes) /\ v = StringValue(v.payload)
  <2> DEFINE k == <<2>> \o v.payload
  <2>1. encode_key(v) = k
    BY <1>4 DEF encode_key, Tag
  <2>2. k # <<>> /\ k[1] = 2 /\ Tail(k) = v.payload /\ k # <<0>>
    <3>1. Len(k) = Len(v.payload) + 1 /\ k[1] = 2 /\ k \in Seq(Nat)
      BY <1>4, KeyAssumption DEF Bytes
    <3>2. Tail(k) = v.payload
      BY <1>4
    <3> HIDE DEF k
    <3> QED  BY <1>4, <3>1, <3>2
  <2> HIDE DEF k
  <2>3. decode_key(k) = StringValue(v.payload)
    <3>1. k # <<Tag.null>> /\ k[1] # Tag.int /\ k[1] = Tag.string
      BY <1>0, <2>2
    <3>2. k \notin {<<Tag.bool, 0>>, <<Tag.bool, 1>>}
      BY <1>0, <2>2
    <3> QED  BY <2>2, <3>1, <3>2, Zenon DEF decode_key
  <2>4. v # Undecodable
    BY <1>4 DEF StringValue, Undecodable
  <2> QED  BY <1>4, <2>1, <2>3, <2>4
<1> QED  BY <1>1, <1>2, <1>3, <1>4 DEF IsKeyValue

(* The byte order of keys is the order of the integers, negative ones      *)
(* included: that encode_key flips the sign bit is enough.                 *)
THEOREM IntegerOrder ==
    ASSUME NEW n \in (-Half)..(Half - 1), NEW m \in (-Half)..(Half - 1), n < m
    PROVE  KeyLess(encode_key(IntValue(n)), encode_key(IntValue(m)))
<1> DEFINE a == BigEndian(n + Half)
           b == BigEndian(m + Half)
           s == <<1>> \o a
           t == <<1>> \o b
<1>1. encode_key(IntValue(n)) = s /\ encode_key(IntValue(m)) = t
  BY SignFlipped DEF encode_key, IntValue, Tag
<1>2. n + Half < m + Half
  BY WidthIsEven
<1>3. /\ a \in Seq(Bytes) /\ Len(a) = IntBytes /\ b \in Seq(Bytes) /\ Len(b) = IntBytes
      /\ IntBytes \in Nat
  BY SignFlipped, BigEndianDigits, KeyAssumption
<1>4. PICK i \in 1..IntBytes : a[i] < b[i] /\ \A j \in 1..(i - 1) : a[j] = b[j]
  BY <1>2, SignFlipped, BigEndianOrder
<1> HIDE DEF a, b
<1>5. /\ s[1] = 1 /\ t[1] = 1
      /\ DOMAIN s = 1..(IntBytes + 1) /\ DOMAIN t = 1..(IntBytes + 1)
      /\ \A j \in 2..(IntBytes + 1) : s[j] = a[j - 1] /\ t[j] = b[j - 1]
  BY <1>3
<1> HIDE DEF s, t
<1>6. i + 1 \in DOMAIN s \cap DOMAIN t /\ s[i + 1] < t[i + 1]
  BY <1>3, <1>4, <1>5
<1>7. ASSUME NEW j \in 1..((i + 1) - 1) PROVE s[j] = t[j]
  <2>1. CASE j = 1
    BY <1>5, <2>1
  <2>2. CASE j # 1
    <3>1. j \in 2..(IntBytes + 1) /\ j - 1 \in 1..(i - 1)
      BY <1>3, <1>4, <2>2
    <3> QED  BY <1>4, <1>5, <3>1
  <2> QED  BY <2>1, <2>2
<1> QED  BY <1>1, <1>6, <1>7 DEF KeyLess

=============================================================================
