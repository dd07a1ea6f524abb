-------------------------- MODULE IndexFileProofs --------------------------
(***************************************************************************)
(* The properties of IndexFile and their proofs, checked by TLAPS for      *)
(* every value of the constants.  Every id of a page stands for a span of  *)
(* the sorted entries; FileInv says that a whole file holds such a tree,   *)
(* and the lemmas about reading, that what is found in it is what the span *)
(* of the root has.                                                        *)
(***************************************************************************)
EXTENDS IndexFile, KeyProofs

-----------------------------------------------------------------------------
(* Packing: the loop goes item by item.                                    *)
Lens(n) == [1..n -> Nat]

(* Starts is what the turns of the loop make, one item each.                *)
LEMMA PackingTurns ==
    ASSUME NEW n \in Nat, NEW firsts \in Lens(n), NEW costs \in Lens(n)
    PROVE  \E after \in [0..n -> Packings] :
              /\ after[0] = [starts |-> <<>>, used |-> PageHeader]
              /\ \A i \in 1..n : after[i] = Pack(i, firsts[i], costs[i])[after[i - 1]]
              /\ Starts(firsts, costs) = after[n].starts
<1> DEFINE h == [i \in 1..n |-> Pack(i, firsts[i], costs[i])]
           x == [starts |-> <<>>, used |-> PageHeader]
           Step(f) == [i \in 0..Len(costs) |->
                          IF i = 0 THEN [starts |-> <<>>, used |-> PageHeader]
                          ELSE Pack(i, firsts[i], costs[i])[f[i - 1]]]
           f == CHOOSE g : g = Step(g)
<1>1. costs \in Seq(Nat) /\ Len(costs) = n
  BY DEF Lens
<1>2. x \in Packings
  BY FileAssumption DEF Packings
<1>3. ASSUME NEW i \in 1..n PROVE Pack(i, firsts[i], costs[i]) \in [Packings -> Packings]
  <2>1. firsts[i] \in Nat /\ costs[i] \in Nat /\ PageHeader \in Nat /\ i \in Nat
    BY FileAssumption DEF Lens
  <2>2. ASSUME NEW p \in Packings
        PROVE  /\ [starts |-> Append(p.starts, i), used |-> PageHeader + firsts[i]] \in Packings
               /\ [starts |-> p.starts, used |-> p.used + costs[i]] \in Packings
    BY <2>1, SMTT(60) DEF Packings
  <2> QED  BY <2>2 DEF Pack
<1>4. Turns(n, Packings, x, h)
  BY <1>2, <1>3 DEF Turns
<1>5. PICK v : Taken(n, Packings, x, h, v)
  <2> HIDE DEF x, h
  <2> QED  BY <1>4, TurnsTaken
<1>6. /\ v \in [0..n -> Packings] /\ v[0] = x
      /\ \A i \in 1..n : v[i] = Pack(i, firsts[i], costs[i])[v[i - 1]]
  BY <1>5 DEF Taken
<1>7. v = Step(v)
  <2>1. v = [i \in 0..Len(costs) |-> v[i]]
    BY <1>1, <1>6
  <2>2. \A i \in 0..Len(costs) : i # 0 => i \in 1..n
    BY <1>1, SMTT(60)
  <2> QED  BY <1>6, <2>1, <2>2
<1>8. f = Step(f)
  BY <1>7, ZenonT(60)
<1>9. Starts(firsts, costs) = f[Len(costs)].starts
  BY DEF Starts
<1> HIDE DEF f
<1> DEFINE S == {i \in 0..n : f[i] = v[i]}
<1>10. 0 \in S
  BY <1>1, <1>6, <1>8
<1>11. \A i \in 1..n : i - 1 \in S => i \in S
  <2> SUFFICES ASSUME NEW i \in 1..n, i - 1 \in S PROVE f[i] = v[i]
    OBVIOUS
  <2>1. f[i] = Pack(i, firsts[i], costs[i])[f[i - 1]]
    BY <1>1, <1>8
  <2> QED  BY <1>6, <2>1
<1> HIDE DEF S
<1>12. 0..n \subseteq S
  BY <1>10, <1>11, UpToInduction
<1>13. f[n] = v[n]
  BY <1>12 DEF S
<1> QED  BY <1>1, <1>6, <1>9, <1>13

(* Sums of the costs.                                                      *)
Sums(n, costs, total) ==
    /\ total \in [0..n -> Nat] /\ total[0] = 0
    /\ \A i \in 1..n : total[i] = total[i - 1] + costs[i]

(* The items up to any one have a total length.                             *)
LEMMA SumsExist ==
    ASSUME NEW n \in Nat, NEW costs \in Lens(n)
    PROVE  \E total : Sums(n, costs, total)
<1> DEFINE h == [i \in 1..n |-> [v \in Nat |-> v + costs[i]]]
<1>1. Turns(n, Nat, 0, h)
  BY DEF Turns, Lens
<1>2. \A i \in 1..n, v \in Nat : h[i][v] = v + costs[i]
  OBVIOUS
<1> HIDE DEF h
<1>3. PICK total : Taken(n, Nat, 0, h, total)
  BY <1>1, TurnsTaken
<1>4. /\ total \in [0..n -> Nat] /\ total[0] = 0
      /\ \A i \in 1..n : total[i] = h[i][total[i - 1]]
  BY <1>3 DEF Taken
<1>5. \A i \in 1..n : total[i - 1] \in Nat
  BY <1>4
<1>6. ASSUME NEW i \in 1..n PROVE total[i] = total[i - 1] + costs[i]
  BY <1>2, <1>4, <1>5, Zenon
<1> QED  BY <1>4, <1>6 DEF Sums

(* Where groups of n items may start, and where group g then ends.         *)
Packed(n, starts) ==
    /\ starts \in Seq(1..n) /\ starts # <<>> /\ starts[1] = 1
    /\ \A g \in 1..(Len(starts) - 1) : starts[g] < starts[g + 1]

LastOf(n, starts, g) == IF g = Len(starts) THEN n ELSE starts[g + 1] - 1

(* What items lo to hi use of a page.                                      *)
Filled(firsts, total, lo, hi) == PageHeader + firsts[lo] + (total[hi] - total[lo])

(* What holds when item i is packed.                                       *)
PackInv(firsts, total, i, packing) ==
    /\ Packed(i, packing.starts)
    /\ packing.used = Filled(firsts, total, packing.starts[Len(packing.starts)], i)
    /\ \A g \in 1..Len(packing.starts) :
          Filled(firsts, total, packing.starts[g], LastOf(i, packing.starts, g)) <= PageSize

(* A turn keeps PackInv: no group is longer than a page.                    *)
LEMMA PackStep ==
    ASSUME NEW n \in Nat, NEW firsts \in Lens(n), NEW costs \in Lens(n),
           NEW total, Sums(n, costs, total), NEW i \in 1..n,
           PageHeader + firsts[i] <= PageSize,
           NEW p \in Packings,
           \/ i = 1 /\ p.starts = <<>>
           \/ i # 1 /\ PackInv(firsts, total, i - 1, p)
    PROVE  PackInv(firsts, total, i, Pack(i, firsts[i], costs[i])[p])
<1> DEFINE q == Pack(i, firsts[i], costs[i])[p]
           m == Len(p.starts)
<1>1. /\ PageHeader \in Nat /\ PageSize \in Nat
      /\ \A j \in 1..n : firsts[j] \in Nat /\ costs[j] \in Nat
      /\ \A j \in 0..n : total[j] \in Nat
      /\ total[i] = total[i - 1] + costs[i]
  <2>1. PageHeader \in Nat /\ PageSize \in Nat
    BY FileAssumption
  <2>2. \A j \in 1..n : firsts[j] \in Nat /\ costs[j] \in Nat
    BY DEF Lens
  <2>3. (\A j \in 0..n : total[j] \in Nat) /\ total[i] = total[i - 1] + costs[i]
    BY DEF Sums
  <2> QED  BY <2>1, <2>2, <2>3
<1>2. p.starts \in Seq(Nat) /\ p.used \in Nat /\ m \in Nat
  BY DEF Packings
<1>3. CASE p.starts = <<>> \/ NoRoom(p.used, costs[i])
  <2> DEFINE s == Append(p.starts, i)
  <2>1. q.starts = s /\ q.used = PageHeader + firsts[i]
    BY <1>3 DEF Pack
  <2>2. /\ s \in Seq(1..i) /\ Len(s) = m + 1 /\ s[m + 1] = i
        /\ \A g \in 1..m : s[g] = p.starts[g]
        /\ i # 1 => m > 0 /\ s[m] < i
        /\ i = 1 => m = 0
    <3>1. p.starts \in Seq(1..(i - 1))
      <4>1. CASE i = 1 /\ p.starts = <<>>
        BY <4>1
      <4>2. CASE i # 1 /\ PackInv(firsts, total, i - 1, p)
        BY <4>2 DEF PackInv, Packed
      <4> QED  BY <4>1, <4>2
    <3>2. /\ s \in Seq(1..i) /\ Len(s) = m + 1 /\ s[m + 1] = i
          /\ \A g \in 1..m : s[g] = p.starts[g]
      BY <3>1
    <3>3. i # 1 => m > 0 /\ s[m] < i
      BY <1>2, <3>1, <3>2 DEF PackInv, Packed
    <3> QED  BY <3>2, <3>3
  <2>3. Packed(i, s)
    <3>1. s[1] = 1
      BY <1>2, <2>2 DEF PackInv, Packed
    <3>2. ASSUME NEW g \in 1..(Len(s) - 1) PROVE s[g] < s[g + 1]
      <4>1. CASE g = m
        BY <1>2, <2>2, <4>1
      <4>2. CASE g # m
        <5>1. g \in 1..(m - 1) /\ i # 1
          BY <1>2, <2>2, <4>2
        <5>2. p.starts[g] < p.starts[g + 1]
          BY <5>1 DEF PackInv, Packed
        <5> QED  BY <1>2, <2>2, <5>1, <5>2, SMTT(60)
      <4> QED  BY <4>1, <4>2
    <3> HIDE DEF s
    <3>3. s # <<>> /\ s \in Seq(1..i)
      BY <1>2, <2>2
    <3> QED  BY <3>1, <3>2, <3>3 DEF Packed
  <2>4. Filled(firsts, total, i, i) = PageHeader + firsts[i]
    BY <1>1, SMTT(60) DEF Filled
  <2>5. ASSUME NEW g \in 1..Len(s)
        PROVE  Filled(firsts, total, s[g], LastOf(i, s, g)) <= PageSize
    <3>1. CASE g = m + 1
      BY <1>2, <2>2, <2>4, <3>1 DEF LastOf
    <3>2. CASE g # m + 1
      <4>1. g \in 1..m /\ s[g] = p.starts[g] /\ i # 1
        BY <1>2, <2>2, <3>2, SMTT(60)
      <4>2. LastOf(i, s, g) = LastOf(i - 1, p.starts, g)
        <5>1. CASE g = m
          BY <1>2, <2>2, <5>1 DEF LastOf
        <5>2. CASE g # m
          BY <1>2, <2>2, <4>1, <5>2, SMTT(60) DEF LastOf
        <5> QED  BY <5>1, <5>2
      <4>3. Filled(firsts, total, p.starts[g], LastOf(i - 1, p.starts, g)) <= PageSize
        BY <4>1 DEF PackInv
      <4> QED  BY <4>1, <4>2, <4>3
    <3> QED  BY <3>1, <3>2
  <2> HIDE DEF s, q
  <2> QED  BY <1>2, <2>1, <2>2, <2>3, <2>4, <2>5 DEF PackInv, q
<1>4. CASE ~(p.starts = <<>> \/ NoRoom(p.used, costs[i]))
  <2> DEFINE s == p.starts
  <2>1. q.starts = s /\ q.used = p.used + costs[i]
    BY <1>4 DEF Pack
  <2>2. i # 1 /\ PackInv(firsts, total, i - 1, p) /\ m > 0
    BY <1>2, <1>4
  <2>3. Packed(i, s)
    <3>1. Packed(i - 1, s)
      BY <2>2 DEF PackInv
    <3>2. s \in Seq(1..i)
      BY <3>1 DEF Packed
    <3> QED  BY <3>1, <3>2 DEF Packed
  <2>4. s[m] \in 1..(i - 1)
    BY <1>2, <2>2 DEF PackInv, Packed
  <2>5. Filled(firsts, total, s[m], i) = Filled(firsts, total, s[m], i - 1) + costs[i]
    <3> DEFINE lo == s[m]
    <3>0. lo \in 1..n /\ lo \in 0..n /\ i - 1 \in 0..n
      BY <2>4
    <3>1. /\ firsts[lo] \in Nat /\ total[lo] \in Nat
          /\ total[i - 1] \in Nat /\ costs[i] \in Nat
      BY <1>1, <3>0
    <3> HIDE DEF lo
    <3>2. Filled(firsts, total, lo, i) = Filled(firsts, total, lo, i - 1) + costs[i]
      BY <1>1, <3>1, SMTT(60) DEF Filled
    <3> QED  BY <3>2 DEF lo
  <2>6. p.used = Filled(firsts, total, s[m], i - 1) /\ ~(p.used + costs[i] > PageSize)
    BY <1>4, <2>2 DEF PackInv, NoRoom
  <2>7. ASSUME NEW g \in 1..Len(s)
        PROVE  Filled(firsts, total, s[g], LastOf(i, s, g)) <= PageSize
    <3>1. CASE g = m
      BY <1>1, <1>2, <2>5, <2>6, <3>1, SMTT(60) DEF LastOf
    <3>2. CASE g # m
      <4>1. Filled(firsts, total, s[g], LastOf(i - 1, s, g)) <= PageSize
        BY <2>2 DEF PackInv
      <4> QED  BY <3>2, <4>1 DEF LastOf
    <3> QED  BY <3>1, <3>2
  <2>8. q.used = Filled(firsts, total, s[m], i)
    BY <2>1, <2>5, <2>6
  <2>9. q.starts = p.starts
    BY <2>1
  <2> HIDE DEF q
  <2>10. PackInv(firsts, total, i, q)
    BY <2>3, <2>7, <2>8, <2>9, Zenon DEF PackInv
  <2> QED  BY <2>10 DEF q
<1> QED  BY <1>3, <1>4

(* No group fills more than a page.                                        *)
LEMMA PackingFits ==
    ASSUME NEW n \in Nat \ {0}, NEW firsts \in Lens(n), NEW costs \in Lens(n),
           NEW total, Sums(n, costs, total),
           \A i \in 1..n : PageHeader + firsts[i] <= PageSize
    PROVE  /\ Packed(n, Starts(firsts, costs))
           /\ \A g \in 1..Len(Starts(firsts, costs)) :
                 Filled(firsts, total, Starts(firsts, costs)[g],
                        LastOf(n, Starts(firsts, costs), g)) <= PageSize
<1>1. PICK after \in [0..n -> Packings] :
         /\ after[0] = [starts |-> <<>>, used |-> PageHeader]
         /\ \A i \in 1..n : after[i] = Pack(i, firsts[i], costs[i])[after[i - 1]]
         /\ Starts(firsts, costs) = after[n].starts
  BY PackingTurns
<1> DEFINE S == {i \in 0..n : i = 0 \/ PackInv(firsts, total, i, after[i])}
<1>2. 0 \in S
  OBVIOUS
<1>3. ASSUME NEW i \in 1..n, i - 1 \in S PROVE i \in S
  <2>1. i - 1 \in 0..n /\ after[i - 1] \in Packings
    OBVIOUS
  <2>2. \/ i = 1 /\ after[i - 1].starts = <<>>
        \/ i # 1 /\ PackInv(firsts, total, i - 1, after[i - 1])
    BY <1>1, <1>3
  <2>3. PackInv(firsts, total, i, Pack(i, firsts[i], costs[i])[after[i - 1]])
    BY <2>1, <2>2, PackStep
  <2> QED  BY <1>1, <2>3
<1> HIDE DEF S
<1>4. 0..n \subseteq S
  BY <1>2, <1>3, UpToInduction
<1>5. PackInv(firsts, total, n, after[n])
  BY <1>4 DEF S
<1> QED  BY <1>1, <1>5 DEF PackInv

(* When a first item costs nothing and any other fits next to it, a group  *)
(* but the last has two items, and there are fewer groups than items.      *)
LEMMA PackingShrinks ==
    ASSUME NEW n \in Nat, n > 1, NEW firsts \in Lens(n), NEW costs \in Lens(n),
           \A i \in 1..n : firsts[i] = 0,
           \A i \in 2..n : ~NoRoom(PageHeader, costs[i])
    PROVE  Len(Starts(firsts, costs)) < n
<1>1. PICK after \in [0..n -> Packings] :
         /\ after[0] = [starts |-> <<>>, used |-> PageHeader]
         /\ \A i \in 1..n : after[i] = Pack(i, firsts[i], costs[i])[after[i - 1]]
         /\ Starts(firsts, costs) = after[n].starts
  BY PackingTurns
<1>2. PICK total : Sums(n, costs, total)
  BY SumsExist
<1>3. \A i \in 1..n : PageHeader + firsts[i] <= PageSize
  BY FileAssumption
<1> DEFINE Wide(s) == 2 * Len(s) - 1 <= s[Len(s)]
           S == {i \in 0..n : i = 0 \/ (/\ PackInv(firsts, total, i, after[i])
                                        /\ Wide(after[i].starts))}
<1>4. 0 \in S
  OBVIOUS
<1>5. ASSUME NEW i \in 1..n, i - 1 \in S PROVE i \in S
  <2> DEFINE p == after[i - 1]
             q == after[i]
             m == Len(p.starts)
  <2>1. i - 1 \in 0..n /\ p \in Packings /\ p.starts \in Seq(Nat) /\ m \in Nat
    BY DEF Packings
  <2>2. \/ i = 1 /\ p.starts = <<>>
        \/ i # 1 /\ PackInv(firsts, total, i - 1, p) /\ Wide(p.starts)
    BY <1>1, <1>5
  <2>3. PackInv(firsts, total, i, Pack(i, firsts[i], costs[i])[p])
    BY <1>2, <1>3, <2>1, <2>2, PackStep
  <2>4. q = Pack(i, firsts[i], costs[i])[p]
    BY <1>1
  <2> HIDE DEF p, q
  <2>5. CASE p.starts = <<>>
    <3>1. q.starts = Append(p.starts, i)
      BY <2>1, <2>4, <2>5 DEF Pack
    <3>2. q.starts = <<i>>
      BY <2>5, <3>1
    <3>3. Wide(q.starts)
      BY <3>2
    <3> QED  BY <2>3, <2>4, <3>3, SMTT(60) DEF q
  <2>6. CASE p.starts # <<>> /\ NoRoom(p.used, costs[i])
    <3>1. q.starts = Append(p.starts, i)
      BY <2>1, <2>4, <2>6 DEF Pack
    <3>2. i # 1 /\ PackInv(firsts, total, i - 1, p) /\ Wide(p.starts) /\ m > 0
      BY <2>1, <2>2, <2>6
    <3>3. p.starts[m] \in 1..(i - 1)
      BY <2>1, <3>2 DEF PackInv, Packed
    <3>4. p.starts[m] # i - 1
      <4> SUFFICES ASSUME p.starts[m] = i - 1 PROVE FALSE
        OBVIOUS
      <4>1. p.used = PageHeader + firsts[i - 1] + (total[i - 1] - total[i - 1])
        BY <3>2 DEF PackInv, Filled
      <4>2. i - 1 \in 1..n /\ i - 1 \in 0..n /\ i \in 2..n
        BY <3>2
      <4>3. firsts[i - 1] = 0 /\ total[i - 1] \in Nat
        BY <1>2, <4>2 DEF Sums
      <4>4. p.used = PageHeader
        BY <4>1, <4>3, FileAssumption
      <4> QED  BY <2>6, <4>2, <4>4
    <3>5. Len(q.starts) = m + 1 /\ q.starts[m + 1] = i
      BY <2>1, <3>1
    <3>6. Wide(q.starts)
      <4>1. \A a, b, c \in Nat : 2 * a - 1 <= b /\ b < c - 1 => 2 * (a + 1) - 1 <= c
        OBVIOUS
      <4>2. p.starts[m] \in Nat /\ i \in Nat /\ p.starts[m] < i - 1 /\ 2 * m - 1 <= p.starts[m]
        BY <3>2, <3>3, <3>4
      <4>3. 2 * (m + 1) - 1 <= i
        BY <2>1, <4>1, <4>2
      <4> QED  BY <3>5, <4>3
    <3> QED  BY <2>3, <2>4, <3>6, SMTT(60) DEF q
  <2>7. CASE p.starts # <<>> /\ ~NoRoom(p.used, costs[i])
    <3>1. q.starts = p.starts
      BY <2>1, <2>4, <2>7 DEF Pack
    <3>2. Wide(q.starts)
      BY <2>2, <2>7, <3>1
    <3> QED  BY <2>3, <2>4, <3>2 DEF q
  <2> QED  BY <2>5, <2>6, <2>7
<1> HIDE DEF S
<1>6. 0..n \subseteq S
  BY <1>4, <1>5, UpToInduction
<1> DEFINE s == Starts(firsts, costs)
<1>7. PackInv(firsts, total, n, after[n]) /\ Wide(s)
  BY <1>1, <1>6 DEF S
<1>8. s \in Seq(1..n) /\ s # <<>>
  BY <1>1, <1>7 DEF PackInv, Packed
<1> HIDE DEF s
<1>9. s[Len(s)] \in 1..n /\ Len(s) \in Nat
  BY <1>8
<1> QED  BY <1>7, <1>9 DEF s

(* How much of a page is used, by whatever function counts it.             *)
Items(page) == IF page.kind = "leaf" THEN page.entries ELSE page.separators

(* Whatever counts the items of a page as UsedLen does gives UsedLen.       *)
LEMMA UsedLenIs ==
    ASSUME NEW page, NEW n \in Nat, Len(Items(page)) = n,
           NEW t \in [0..n -> Nat], t[0] = PageHeader,
           \A i \in 1..n : t[i] = t[i - 1] + EntryLen(Items(page)[i].key)
    PROVE  UsedLen(page) = t[n]
<1> DEFINE items == Items(page)
           Step(f) == [i \in 0..Len(items) |->
                          IF i = 0 THEN PageHeader ELSE f[i - 1] + EntryLen(items[i].key)]
           f == CHOOSE g : g = Step(g)
<1>1. UsedLen(page) = f[Len(items)]
  BY Zenon DEF UsedLen, Items
<1>2. t = Step(t)
  <2>1. t = [i \in 0..Len(items) |-> t[i]]
    OBVIOUS
  <2>2. \A i \in 0..Len(items) : i # 0 => i \in 1..n
    OBVIOUS
  <2> HIDE DEF items
  <2> QED  BY <2>1, <2>2 DEF items
<1>3. f = Step(f)
  BY <1>2
<1>4. Len(items) = n
  OBVIOUS
<1> HIDE DEF f
<1> DEFINE S == {i \in 0..n : f[i] = t[i]}
<1>5. 0 \in S
  BY <1>3
<1>6. \A i \in 1..n : i - 1 \in S => i \in S
  <2> SUFFICES ASSUME NEW i \in 1..n, i - 1 \in S PROVE f[i] = t[i]
    OBVIOUS
  <2>1. f[i] = f[i - 1] + EntryLen(items[i].key)
    BY <1>3
  <2> QED  BY <2>1
<1> HIDE DEF S
<1>7. 0..n \subseteq S
  BY <1>5, <1>6, UpToInduction
<1>8. f[n] = t[n]
  BY <1>7 DEF S
<1> QED  BY <1>1, <1>4, <1>8

-----------------------------------------------------------------------------
(* The entry of a pair, and a sequence that lists those of a map in the    *)
(* order of their keys.                                                    *)
EntryOf(p) == [key |-> encode_key(p[1]), row_id |-> p[2]]

Listed(S, map) ==
    /\ \A i \in DOMAIN S : \E p \in map : S[i] = EntryOf(p)
    /\ \A p \in map : \E i \in DOMAIN S : S[i] = EntryOf(p)

KeysRise(S) == \A i, j \in DOMAIN S : i < j => KeyLess(S[i].key, S[j].key)

(* The entries of a map have keys, and no two the same key.                 *)
LEMMA EntriesOfMap ==
    ASSUME NEW map \in Saves
    PROVE  /\ \A p \in map : p[1] \in Values /\ IsKeyValue(p[1]) /\ p[2] \in RowIds
           /\ \A p \in map : p = <<p[1], p[2]>> /\ EntryOf(p) \in EncodedEntry
           /\ \A p, q \in map : encode_key(p[1]) = encode_key(q[1]) => p = q
<1>1. map \subseteq Values \X RowIds /\ \A p, q \in map : p[1] = q[1] => p = q
  BY FileAssumption
<1>2. \A p \in map : p[1] \in Values /\ IsKeyValue(p[1]) /\ p[2] \in RowIds /\ p = <<p[1], p[2]>>
  BY <1>1, FileAssumption
<1>3. ASSUME NEW p \in map PROVE EntryOf(p) \in EncodedEntry
  <2>1. encode_key(p[1]) \in Seq(Bytes)
    BY <1>2, EncodedBytes
  <2> QED  BY <1>2, <2>1 DEF EntryOf, EncodedEntry
<1>4. ASSUME NEW p \in map, NEW q \in map, encode_key(p[1]) = encode_key(q[1]) PROVE p = q
  <2>1. p[1] = q[1]
    BY <1>2, <1>4, KeyReadBack
  <2> QED  BY <1>1, <2>1
<1> QED  BY <1>2, <1>3, <1>4

(* sorted_encoded_entries lists every entry once, in the order of the keys.*)
LEMMA SortedList ==
    ASSUME NEW map \in Saves
    PROVE  /\ ~DuplicateKeys(map)
           /\ SortedEntries(map) \in Seq(EncodedEntry)
           /\ Listed(SortedEntries(map), map)
           /\ KeysRise(SortedEntries(map))
<1> DEFINE E == Encoded(map)
           key == [e \in E |-> e.key]
           n == Cardinality(map)
           S == SortedEntries(map)
<1>1. /\ \A p \in map : EntryOf(p) \in EncodedEntry
      /\ \A p, q \in map : encode_key(p[1]) = encode_key(q[1]) => p = q
  BY EntriesOfMap
<1>2. ~DuplicateKeys(map)
  BY <1>1 DEF DuplicateKeys
<1>3. E = {EntryOf(p) : p \in map}
  BY DEF Encoded, EntryOf
<1> HIDE DEF E
<1>4. IsFiniteSet(E) /\ Cardinality(E) = n
  <2> DEFINE f == [p \in map |-> EntryOf(p)]
  <2>1. f \in Surjection(map, E)
    BY <1>3 DEF Surjection
  <2>2. \A p, q \in map : EntryOf(p) = EntryOf(q) => p = q
    BY <1>1 DEF EntryOf
  <2>3. f \in Injection(map, E)
    BY <2>1, <2>2 DEF Surjection, Injection, IsInjective
  <2>4. IsFiniteSet(map)
    BY FileAssumption
  <2> HIDE DEF f
  <2> QED  BY <2>1, <2>3, <2>4, FS_Surjection
<1>5. \A e \in E : key[e] = e.key /\ e.key \in Seq(Bytes) /\ e \in EncodedEntry
  BY <1>1, <1>3 DEF EncodedEntry
<1>6. Ranked(E, key)
  <2>1. \A d, e \in E : d.key = e.key => d = e
    BY <1>1, <1>3 DEF EntryOf
  <2> QED  BY <1>4, <1>5, <2>1 DEF Ranked
<1>7. ASSUME NEW e \in E PROVE Rank(e, E) = KeyRank(E, key, e)
  <2>1. {d \in E : KeyLess(d.key, e.key)} = {d \in E : KeyLess(key[d], key[e])}
    BY <1>5
  <2> QED  BY <2>1, Zenon DEF Rank, KeyRank
<1> HIDE DEF key
<1>8. /\ n \in Nat
      /\ \A e \in E : Rank(e, E) \in 0..(n - 1)
      /\ \A d, e \in E : Rank(d, E) = Rank(e, E) => d = e
      /\ \A i \in 0..(n - 1) : \E e \in E : Rank(e, E) = i
  BY <1>4, <1>6, <1>7, EveryRank
<1>9. \A d, e \in E : KeyLess(d.key, e.key) => Rank(d, E) < Rank(e, E)
  BY <1>5, <1>6, <1>7, RankOrder
<1>10. S = [i \in 1..n |-> CHOOSE e \in E : Rank(e, E) = i - 1]
  BY DEF SortedEntries, E
<1> HIDE DEF n, S
<1>11. ASSUME NEW i \in 1..n PROVE S[i] \in E /\ Rank(S[i], E) = i - 1
  <2>1. i - 1 \in 0..(n - 1)
    BY <1>8
  <2>2. \E e \in E : Rank(e, E) = i - 1
    BY <1>8, <2>1
  <2> QED  BY <1>10, <2>2
<1>12. S \in Seq(EncodedEntry) /\ DOMAIN S = 1..n
  <2>1. S \in [1..n -> EncodedEntry]
    BY <1>5, <1>10, <1>11
  <2> QED  BY <1>8, <2>1
<1>13. Listed(S, map)
  <2>1. ASSUME NEW i \in DOMAIN S PROVE \E p \in map : S[i] = EntryOf(p)
    BY <1>3, <1>11, <1>12
  <2>2. ASSUME NEW p \in map PROVE \E i \in DOMAIN S : S[i] = EntryOf(p)
    <3> DEFINE e == EntryOf(p)
               i == Rank(e, E) + 1
    <3>1. e \in E
      BY <1>3
    <3>2. i \in 1..n /\ i - 1 = Rank(e, E)
      BY <1>8, <3>1
    <3>3. S[i] \in E /\ Rank(S[i], E) = Rank(e, E)
      BY <1>11, <3>2
    <3>4. S[i] = e
      BY <1>8, <3>1, <3>3
    <3> QED  BY <1>12, <3>2, <3>4
  <2> QED  BY <2>1, <2>2 DEF Listed
<1>14. KeysRise(S)
  <2> SUFFICES ASSUME NEW i \in 1..n, NEW j \in 1..n, i < j
               PROVE  KeyLess(S[i].key, S[j].key)
    BY <1>12 DEF KeysRise
  <2>1. S[i] \in E /\ S[j] \in E /\ Rank(S[i], E) = i - 1 /\ Rank(S[j], E) = j - 1
    BY <1>11
  <2>2. S[i].key # S[j].key
    <3> SUFFICES ASSUME S[i].key = S[j].key PROVE FALSE
      OBVIOUS
    <3>1. S[i] = S[j]
      BY <1>1, <1>3, <2>1 DEF EntryOf
    <3> QED  BY <2>1, <3>1
  <2>3. KeyLess(S[i].key, S[j].key) \/ KeyLess(S[j].key, S[i].key)
    BY <1>5, <2>1, <2>2, KeyLessTotal
  <2>4. ~KeyLess(S[j].key, S[i].key)
    BY <1>9, <2>1
  <2> QED  BY <2>3, <2>4
<1> QED  BY <1>2, <1>12, <1>13, <1>14 DEF S

-----------------------------------------------------------------------------
(* A forest over the sorted entries S: page id, the B[id + 1] of a file,   *)
(* stands for the entries from lo[id] to hi[id].                           *)
PageRefs == [page_id : Nat, first_key : Seq(Bytes)]

AnyPage ==
    [kind : {"leaf"}, next : Int, entries : Seq(EncodedEntry)]
    \cup [kind : {"internal"}, first : Nat,
          separators : Seq([key : Seq(Bytes), child : Nat])]

Spans(S, n, lo, hi) ==
    /\ lo \in [0..(n - 1) -> Nat] /\ hi \in [0..(n - 1) -> Nat]
    /\ \A id \in 0..(n - 1) :
          /\ 1 <= lo[id] /\ lo[id] <= hi[id] + 1 /\ hi[id] <= Len(S)
          /\ S # <<>> => lo[id] <= hi[id]

(* The next leaf takes up where a leaf ends.                               *)
LeafAt(S, B, lo, hi, id) ==
    /\ B[id + 1] = LeafPage(SubSeq(S, lo[id], hi[id]),
                            IF hi[id] = Len(S) THEN NoPage ELSE id + 1)
    /\ hi[id] # Len(S) =>
          /\ id + 1 \in 0..(Len(B) - 1)
          /\ B[(id + 1) + 1].kind = "leaf" /\ lo[id + 1] = hi[id] + 1

(* Refs of pages below n, whose spans adjoin.                              *)
Row(S, lo, hi, n, refs) ==
    /\ refs \in Seq(PageRefs) /\ refs # <<>>
    /\ \A i \in 1..Len(refs) :
          /\ refs[i].page_id \in 0..(n - 1)
          /\ S # <<>> => refs[i].first_key = S[lo[refs[i].page_id]].key
    /\ \A i \in 1..(Len(refs) - 1) :
          lo[refs[i + 1].page_id] = hi[refs[i].page_id] + 1

Covers(lo, hi, refs, first, last) ==
    lo[refs[1].page_id] = first /\ hi[refs[Len(refs)].page_id] = last

InternalAt(S, B, lo, hi, id) ==
    /\ S # <<>>
    /\ \E refs \in Seq(PageRefs) :
          /\ Row(S, lo, hi, id, refs)
          /\ Covers(lo, hi, refs, lo[id], hi[id])
          /\ B[id + 1] = InternalPage(refs)

Forest(S, B, lo, hi) ==
    /\ S \in Seq(EncodedEntry) /\ KeysRise(S)
    /\ B \in Seq(AnyPage)
    /\ Spans(S, Len(B), lo, hi)
    /\ \A id \in 0..(Len(B) - 1) : LeafAt(S, B, lo, hi, id) \/ InternalAt(S, B, lo, hi, id)

(* The order of two entries is the order of their keys.                    *)
LEMMA OrderOfKeys ==
    ASSUME NEW S \in Seq(EncodedEntry), KeysRise(S), NEW i \in 1..Len(S), NEW j \in 1..Len(S)
    PROVE  KeyLess(S[i].key, S[j].key) <=> i < j
<1>1. S[i].key \in Seq(Bytes) /\ S[j].key \in Seq(Bytes) /\ DOMAIN S = 1..Len(S)
  <2>1. S[i] \in EncodedEntry /\ S[j] \in EncodedEntry /\ DOMAIN S = 1..Len(S)
    OBVIOUS
  <2> QED  BY <2>1 DEF EncodedEntry
<1>2. i < j => KeyLess(S[i].key, S[j].key)
  BY <1>1 DEF KeysRise
<1>3. j < i => KeyLess(S[j].key, S[i].key)
  BY <1>1 DEF KeysRise
<1>4. ~KeyLess(S[i].key, S[i].key)
  BY <1>1, KeyLessIrreflexive
<1>5. CASE i < j
  BY <1>2, <1>5
<1>6. CASE i = j
  BY <1>4, <1>6
<1>7. CASE j < i
  BY <1>1, <1>3, <1>4, <1>7, KeyLessTransitive
<1> QED  BY <1>5, <1>6, <1>7

(* The greatest of some numbers up to k.                                   *)
LEMMA GreatestUpTo ==
    ASSUME NEW k \in Nat, NEW T, T \subseteq 1..k, T # {}
    PROVE  Max(T) \in T /\ \A y \in T : y <= Max(T)
<1> DEFINE R == {k - y : y \in T}
<1>1. R \subseteq Nat /\ R # {}
  OBVIOUS
<1>2. PICK r \in R : \A s \in R : r <= s
  <2> HIDE DEF R
  <2> QED  BY <1>1, Least
<1>3. PICK x \in T : r = k - x
  OBVIOUS
<1>4. ASSUME NEW y \in T PROVE x >= y
  <2>1. k - y \in R /\ y \in 1..k /\ x \in 1..k
    OBVIOUS
  <2>2. r <= k - y
    BY <1>2, <2>1
  <2> QED  BY <1>3, <2>1, <2>2
<1>5. Max(T) \in T /\ \A y \in T : Max(T) >= y
  BY <1>4 DEF Max
<1>6. \A y \in T : y \in 1..k
  OBVIOUS
<1> QED  BY <1>5, <1>6

(* What a reader finds in a leaf,                                          *)
LEMMA LeafFound ==
    ASSUME NEW S, NEW B, NEW lo, NEW hi, Forest(S, B, lo, hi),
           NEW id \in 0..(Len(B) - 1), LeafAt(S, B, lo, hi, id)
    PROVE  /\ B[id + 1].kind = "leaf" /\ IsLeaf(B[id + 1]) /\ ~IsInternal(B[id + 1])
           /\ B[id + 1].entries = SubSeq(S, lo[id], hi[id])
           /\ B[id + 1].next = IF hi[id] = Len(S) THEN NoPage ELSE id + 1
<1>1. /\ B[id + 1].kind = "leaf"
      /\ B[id + 1].entries = SubSeq(S, lo[id], hi[id])
      /\ B[id + 1].next = IF hi[id] = Len(S) THEN NoPage ELSE id + 1
  <2> DEFINE e == SubSeq(S, lo[id], hi[id])
             next == IF hi[id] = Len(S) THEN NoPage ELSE id + 1
  <2>1. B[id + 1] = LeafPage(e, next)
    BY DEF LeafAt
  <2> HIDE DEF e, next
  <2>2. B[id + 1].kind = "leaf" /\ B[id + 1].entries = e /\ B[id + 1].next = next
    BY <2>1 DEF LeafPage
  <2> QED  BY <2>2 DEF e, next
<1>2. Rising(SubSeq(S, lo[id], hi[id]))
  <2> DEFINE s == SubSeq(S, lo[id], hi[id])
             a == lo[id]
             b == hi[id]
  <2>1. S \in Seq(EncodedEntry) /\ a \in Nat /\ b \in Nat /\ 1 <= a /\ b <= Len(S)
    BY DEF Forest, Spans
  <2>2. /\ Len(s) = IF a <= b THEN b - a + 1 ELSE 0
        /\ \A i \in 1..Len(s) : s[i] = S[a + i - 1]
    BY <2>1, SMTT(60)
  <2> HIDE DEF s, a, b
  <2>3. ASSUME NEW i \in 1..(Len(s) - 1) PROVE KeyLess(s[i].key, s[i + 1].key)
    <3>1. /\ i \in 1..Len(s) /\ i + 1 \in 1..Len(s)
          /\ a + i - 1 \in 1..Len(S) /\ a + (i + 1) - 1 \in 1..Len(S)
          /\ a + i - 1 < a + (i + 1) - 1
      BY <2>1, <2>2
    <3>2. KeyLess(S[a + i - 1].key, S[a + (i + 1) - 1].key)
      BY <2>1, <3>1, OrderOfKeys DEF Forest
    <3> QED  BY <2>2, <3>1, <3>2
  <2> QED  BY <2>3 DEF Rising, s
<1> QED  BY <1>1, <1>2 DEF IsLeaf, IsInternal

(* and in an internal page: the refs it was made of.                       *)
LEMMA InternalFound ==
    ASSUME NEW S, NEW B, NEW lo, NEW hi, Forest(S, B, lo, hi),
           NEW id \in 0..(Len(B) - 1), InternalAt(S, B, lo, hi, id)
    PROVE  \E refs \in Seq(PageRefs) :
              /\ Row(S, lo, hi, id, refs) /\ Len(refs) \in Nat \ {0}
              /\ Covers(lo, hi, refs, lo[id], hi[id])
              /\ B[id + 1].kind = "internal" /\ IsInternal(B[id + 1])
              /\ B[id + 1].first = refs[1].page_id
              /\ DOMAIN B[id + 1].separators = 1..(Len(refs) - 1)
              /\ \A i \in 1..(Len(refs) - 1) :
                    /\ lo[refs[i + 1].page_id] \in 1..Len(S)
                    /\ B[id + 1].separators[i].key = S[lo[refs[i + 1].page_id]].key
                    /\ B[id + 1].separators[i].child = refs[i + 1].page_id
<1>1. PICK refs \in Seq(PageRefs) :
         /\ Row(S, lo, hi, id, refs)
         /\ Covers(lo, hi, refs, lo[id], hi[id])
         /\ B[id + 1] = InternalPage(refs)
  BY DEF InternalAt
<1> DEFINE m == Len(refs)
           s == Separators(refs)
<1>2. S # <<>> /\ S \in Seq(EncodedEntry) /\ KeysRise(S) /\ m \in Nat \ {0} /\ id \in Nat
  BY <1>1 DEF InternalAt, Forest, Row
<1>3. /\ B[id + 1].kind = "internal" /\ B[id + 1].first = refs[1].page_id
      /\ B[id + 1].separators = s
  BY <1>1 DEF InternalPage
<1>4. ASSUME NEW i \in 1..m
      PROVE  /\ refs[i].page_id \in 0..(id - 1) /\ refs[i].page_id \in 0..(Len(B) - 1)
             /\ lo[refs[i].page_id] \in Nat /\ hi[refs[i].page_id] \in Nat
             /\ 1 <= lo[refs[i].page_id] /\ lo[refs[i].page_id] <= hi[refs[i].page_id]
             /\ hi[refs[i].page_id] <= Len(S)
             /\ refs[i].first_key = S[lo[refs[i].page_id]].key
  <2>1. refs[i].page_id \in 0..(id - 1) /\ refs[i].first_key = S[lo[refs[i].page_id]].key
    BY <1>1, <1>2 DEF Row
  <2>2. Len(B) \in Nat
    BY DEF Forest
  <2>3. refs[i].page_id \in 0..(Len(B) - 1)
    BY <2>1, <2>2
  <2> QED  BY <1>2, <2>1, <2>3 DEF Forest, Spans
<1>5. /\ DOMAIN s = 1..(m - 1)
      /\ \A i \in 1..(m - 1) : s[i].key = refs[i + 1].first_key /\ s[i].child = refs[i + 1].page_id
  BY DEF Separators
<1>6. ASSUME NEW i \in 1..(m - 1)
      PROVE  /\ lo[refs[i + 1].page_id] \in 1..Len(S)
             /\ s[i].key = S[lo[refs[i + 1].page_id]].key
             /\ s[i].child = refs[i + 1].page_id
  <2>1. i + 1 \in 1..m /\ Len(S) \in Nat
    BY <1>2
  <2>2. /\ lo[refs[i + 1].page_id] \in Nat /\ hi[refs[i + 1].page_id] \in Nat
        /\ 1 <= lo[refs[i + 1].page_id]
        /\ lo[refs[i + 1].page_id] <= hi[refs[i + 1].page_id]
        /\ hi[refs[i + 1].page_id] <= Len(S)
        /\ refs[i + 1].first_key = S[lo[refs[i + 1].page_id]].key
    BY <1>4, <2>1
  <2>3. s[i].key = refs[i + 1].first_key /\ s[i].child = refs[i + 1].page_id
    BY <1>5
  <2> HIDE DEF s
  <2> QED  BY <2>1, <2>2, <2>3
<1>7. Rising(s)
  <2>1. Len(s) = m - 1
    <3>1. m - 1 \in Nat
      BY <1>2
    <3> QED  BY <3>1 DEF Separators
  <2>2. ASSUME NEW i \in 1..(Len(s) - 1) PROVE KeyLess(s[i].key, s[i + 1].key)
    <3>1. /\ i \in 1..(m - 1) /\ i + 1 \in 1..(m - 1) /\ i + 1 \in 1..m /\ (i + 1) + 1 \in 1..m
      BY <1>2, <2>1
    <3>2. lo[refs[(i + 1) + 1].page_id] = hi[refs[i + 1].page_id] + 1
      BY <1>1, <3>1 DEF Row
    <3>3. lo[refs[i + 1].page_id] < lo[refs[(i + 1) + 1].page_id]
      BY <1>4, <3>1, <3>2, SMTT(60)
    <3>4. KeyLess(S[lo[refs[i + 1].page_id]].key, S[lo[refs[(i + 1) + 1].page_id]].key)
      BY <1>2, <1>6, <3>1, <3>3, OrderOfKeys
    <3> QED  BY <1>6, <3>1, <3>4
  <2> QED  BY <2>2 DEF Rising
<1> HIDE DEF s, m
<1>8. IsInternal(B[id + 1])
  BY <1>3, <1>7 DEF IsInternal
<1> QED  BY <1>1, <1>2, <1>3, <1>5, <1>6, <1>8 DEF m

-----------------------------------------------------------------------------
(* A whole file: a header, and a forest with a root that has all entries.  *)
Whole(P, S, B, lo, hi) ==
    /\ Forest(S, B, lo, hi)
    /\ P # <<>> /\ Len(B) \in Nat \ {0} /\ Len(P) = 1 + Len(B)
    /\ \A id \in 0..(Len(B) - 1) : P[id + 2] = B[id + 1]
    /\ P[1].page_count = Len(B) /\ P[1].entry_count = Len(S)
    /\ P[1].root \in 0..(Len(B) - 1)
    /\ lo[P[1].root] = 1 /\ hi[P[1].root] = Len(S)

(* read_page gives the pages of a whole file.                               *)
LEMMA PageRead ==
    ASSUME NEW P, NEW S, NEW B, NEW lo, NEW hi, Whole(P, S, B, lo, hi),
           NEW id \in 0..(Len(B) - 1)
    PROVE  ReadPage(P, id) = B[id + 1]
<1>1. id \in 0..(P[1].page_count - 1) /\ id + 2 <= Len(P) /\ P[id + 2] = B[id + 1]
  BY SMTT(60) DEF Whole
<1> QED  BY <1>1 DEF ReadPage

(* A whole file has a header that fits its length.                          *)
LEMMA WholeIsOk ==
    ASSUME NEW P, NEW S, NEW B, NEW lo, NEW hi, Whole(P, S, B, lo, hi)
    PROVE  HeaderOk(P, FALSE)
BY DEF Whole, HeaderOk

(* A descent ends in a leaf when the ids of the pages decrease on its way, *)
(* and has what every step of it keeps.                                    *)
LEMMA DescentReaches ==
    ASSUME NEW P, NEW n \in Nat \ {0}, P[1].page_count = n, NEW down,
           NEW Good \in SUBSET (0..(n - 1)), P[1].root \in Good,
           \A id \in Good : /\ down[id] \in Good
                            /\ ReadPage(P, id).kind = "leaf" => down[id] = id
                            /\ ReadPage(P, id).kind # "leaf" => down[id] < id
    PROVE  /\ Descent(P, down) \in Good
           /\ ReadPage(P, Descent(P, down)).kind = "leaf"
<1> DEFINE last == n - 1
           root == P[1].root
           h == [k \in 1..last |-> [id \in Good |-> down[id]]]
           Step(f) == [k \in 0..(P[1].page_count - 1) |->
                          IF k = 0 THEN P[1].root ELSE down[f[k - 1]]]
           f == CHOOSE g : g = Step(g)
<1>0. \A id \in Good : id \in 0..(n - 1) /\ id \in Int
  <2>1. \A id \in 0..(n - 1) : id \in Int
    OBVIOUS
  <2> QED  BY <2>1
<1>1. last \in Nat /\ P[1].page_count - 1 = last
  OBVIOUS
<1>2. Turns(last, Good, root, h)
  BY <1>1 DEF Turns
<1>3. \A k \in 1..last, id \in Good : h[k][id] = down[id]
  OBVIOUS
<1> HIDE DEF h
<1>4. PICK v : Taken(last, Good, root, h, v)
  BY <1>2, TurnsTaken
<1>5. /\ v \in [0..last -> Good] /\ v[0] = root
      /\ \A k \in 1..last : v[k] = down[v[k - 1]]
  <2>1. /\ v \in [0..last -> Good] /\ v[0] = root
        /\ \A k \in 1..last : v[k] = h[k][v[k - 1]]
    BY <1>4 DEF Taken
  <2>2. ASSUME NEW k \in 1..last PROVE v[k - 1] \in Good
    BY <2>1
  <2>3. ASSUME NEW k \in 1..last PROVE v[k] = down[v[k - 1]]
    BY <1>3, <2>1, <2>2, Zenon
  <2> QED  BY <2>1, <2>3
<1>6. v = Step(v)
  <2>1. v = [k \in 0..last |-> v[k]]
    BY <1>5
  <2>2. \A k \in 0..last : k # 0 => k \in 1..last
    BY SMTT(60)
  <2> QED  BY <1>1, <1>5, <2>1, <2>2
<1>7. f = Step(f)
  BY <1>6
<1>8. Descent(P, down) = IF ReadPage(P, f[P[1].page_count - 1]).kind = "leaf"
                         THEN f[P[1].page_count - 1] ELSE NoPage
  BY Zenon DEF Descent
<1> HIDE DEF f
<1>9. f[0] = root /\ \A k \in 1..last : f[k] = down[f[k - 1]]
  BY <1>1, <1>7
<1> DEFINE T == {k \in 0..last : /\ f[k] \in Good
                                 /\ ReadPage(P, f[k]).kind # "leaf" => f[k] + k <= root}
<1>10. 0 \in T
  <2>1. root \in Good /\ root \in Int
    BY <1>0
  <2> QED  BY <1>1, <1>9, <2>1
<1>11. ASSUME NEW k \in 1..last, k - 1 \in T PROVE k \in T
  <2> DEFINE id == f[k - 1]
  <2>1. id \in Good /\ f[k] = down[id] /\ (ReadPage(P, id).kind # "leaf" => id + (k - 1) <= root)
    BY <1>9, <1>11
  <2> HIDE DEF id
  <2>2. CASE ReadPage(P, id).kind = "leaf"
    BY <2>1, <2>2
  <2>3. CASE ReadPage(P, id).kind # "leaf"
    <3>1. down[id] < id /\ down[id] \in Good
      BY <2>1, <2>3
    <3>2. id \in Int /\ down[id] \in Int /\ root \in Int
      BY <1>0, <2>1, <3>1
    <3>3. down[id] + k <= root
      BY <2>1, <2>3, <3>1, <3>2
    <3> QED  BY <2>1, <3>1, <3>3
  <2> QED  BY <2>2, <2>3
<1> HIDE DEF T
<1>12. 0..last \subseteq T
  BY <1>1, <1>10, <1>11, UpToInduction
<1> DEFINE id == f[last]
<1>13. id \in Good /\ (ReadPage(P, id).kind # "leaf" => id + last <= root)
  BY <1>1, <1>12 DEF T
<1> HIDE DEF id
<1>14. ReadPage(P, id).kind = "leaf"
  <2> SUFFICES ASSUME ReadPage(P, id).kind # "leaf" PROVE FALSE
    OBVIOUS
  <2>1. down[id] \in Good /\ down[id] < id /\ id + last <= root
    BY <1>13
  <2>2. root \in 0..last /\ down[id] \in 0..last /\ id \in 0..last
    BY <1>13, <2>1
  <2> QED  BY <1>1, <2>1, <2>2
<1> QED  BY <1>1, <1>8, <1>13, <1>14 DEF id

(* The leftmost leaf has the first entry,                                  *)
LEMMA LeftmostLeaf ==
    ASSUME NEW P, NEW S, NEW B, NEW lo, NEW hi, Whole(P, S, B, lo, hi)
    PROVE  /\ Descent(P, Leftmost(P)) \in 0..(Len(B) - 1)
           /\ LeafAt(S, B, lo, hi, Descent(P, Leftmost(P)))
           /\ lo[Descent(P, Leftmost(P))] = 1
<1> DEFINE n == Len(B)
           down == Leftmost(P)
           Good == {id \in 0..(n - 1) : lo[id] = 1}
<1>1. Forest(S, B, lo, hi) /\ n \in Nat \ {0} /\ P[1].page_count = n /\ P[1].root \in Good
  BY DEF Whole
<1>2. ASSUME NEW id \in Good
      PROVE  /\ down[id] \in Good
             /\ ReadPage(P, id).kind = "leaf" => down[id] = id
             /\ ReadPage(P, id).kind # "leaf" => down[id] < id
  <2>1. id \in 0..(Len(B) - 1) /\ id \in Int /\ lo[id] = 1
    OBVIOUS
  <2>2. ReadPage(P, id) = B[id + 1]
    BY <2>1, PageRead
  <2>3. down[id] = IF IsInternal(ReadPage(P, id)) THEN ReadPage(P, id).first ELSE id
    BY <2>1 DEF Leftmost
  <2>4. CASE LeafAt(S, B, lo, hi, id)
    <3>1. B[id + 1].kind = "leaf" /\ ~IsInternal(B[id + 1])
      BY <1>1, <2>1, <2>4, LeafFound
    <3> QED  BY <2>2, <2>3, <3>1
  <2>5. CASE InternalAt(S, B, lo, hi, id)
    <3>1. PICK refs \in Seq(PageRefs) :
              /\ Row(S, lo, hi, id, refs) /\ Len(refs) \in Nat \ {0}
              /\ Covers(lo, hi, refs, lo[id], hi[id])
              /\ B[id + 1].kind = "internal" /\ IsInternal(B[id + 1])
              /\ B[id + 1].first = refs[1].page_id
      BY <1>1, <2>1, <2>5, InternalFound
    <3>2. down[id] = refs[1].page_id /\ ReadPage(P, id).kind = "internal"
      BY <2>2, <2>3, <3>1
    <3>3. refs[1].page_id \in 0..(id - 1) /\ lo[refs[1].page_id] = 1
      BY <2>1, <3>1 DEF Row, Covers
    <3>4. down[id] \in 0..(n - 1) /\ down[id] < id
      BY <1>1, <2>1, <3>2, <3>3
    <3> QED  BY <3>2, <3>3, <3>4
  <2> QED  BY <1>1, <2>1, <2>4, <2>5 DEF Forest
<1> HIDE DEF down
<1>3. Descent(P, down) \in Good /\ ReadPage(P, Descent(P, down)).kind = "leaf"
  <2>1. Good \in SUBSET (0..(n - 1))
    OBVIOUS
  <2> HIDE DEF Good, n
  <2> QED  BY <1>1, <1>2, <2>1, DescentReaches
<1> DEFINE id == Descent(P, down)
<1>4. id \in 0..(Len(B) - 1) /\ lo[id] = 1
  BY <1>3
<1>5. LeafAt(S, B, lo, hi, id)
  <2>1. ReadPage(P, id) = B[id + 1]
    BY <1>4, PageRead
  <2>2. ~InternalAt(S, B, lo, hi, id)
    <3> SUFFICES ASSUME InternalAt(S, B, lo, hi, id) PROVE FALSE
      OBVIOUS
    <3> HIDE DEF id
    <3>1. B[id + 1].kind = "internal"
      BY <1>1, <1>4, InternalFound
    <3> QED  BY <1>3, <2>1, <3>1 DEF id
  <2> HIDE DEF id
  <2> QED  BY <1>1, <1>4, <2>2 DEF Forest
<1> QED  BY <1>4, <1>5 DEF down

(* and child_for_key takes the child whose span has the key, if one does.  *)
Around(S, lo, hi, key, id) ==
    \A pos \in 1..Len(S) : S[pos].key = key => lo[id] <= pos /\ pos <= hi[id]

(* child_for_key keeps the entries of the key within the span.              *)
LEMMA ChildAround ==
    ASSUME NEW S, NEW B, NEW lo, NEW hi, Forest(S, B, lo, hi),
           NEW id \in 0..(Len(B) - 1), InternalAt(S, B, lo, hi, id), NEW key,
           Around(S, lo, hi, key, id)
    PROVE  /\ child_for_key(B[id + 1], key) \in 0..(id - 1)
           /\ Around(S, lo, hi, key, child_for_key(B[id + 1], key))
<1>1. PICK refs \in Seq(PageRefs) :
          /\ Row(S, lo, hi, id, refs) /\ Len(refs) \in Nat \ {0}
          /\ Covers(lo, hi, refs, lo[id], hi[id])
          /\ B[id + 1].first = refs[1].page_id
          /\ DOMAIN B[id + 1].separators = 1..(Len(refs) - 1)
          /\ \A i \in 1..(Len(refs) - 1) :
                /\ lo[refs[i + 1].page_id] \in 1..Len(S)
                /\ B[id + 1].separators[i].key = S[lo[refs[i + 1].page_id]].key
                /\ B[id + 1].separators[i].child = refs[i + 1].page_id
  BY InternalFound
<1> DEFINE m == Len(refs)
           page == B[id + 1]
           a(i) == lo[refs[i].page_id]
           b(i) == hi[refs[i].page_id]
           passed == {i \in DOMAIN page.separators : ~KeyLess(key, page.separators[i].key)}
           c == IF passed = {} THEN 1 ELSE Max(passed) + 1
<1>2. m \in Nat \ {0} /\ m - 1 \in Nat /\ S \in Seq(EncodedEntry) /\ KeysRise(S)
  BY <1>1 DEF Forest
<1>3. passed \subseteq 1..(m - 1)
  BY <1>1
<1>4. ASSUME passed # {}
      PROVE  /\ c = Max(passed) + 1 /\ Max(passed) \in passed /\ Max(passed) \in 1..(m - 1)
             /\ \A y \in passed : y <= Max(passed)
             /\ child_for_key(page, key) = page.separators[Max(passed)].child
  <2>1. c = Max(passed) + 1 /\ child_for_key(page, key) = page.separators[Max(passed)].child
    BY <1>4 DEF child_for_key
  <2>2. Max(passed) \in passed /\ \A y \in passed : y <= Max(passed)
    <3> HIDE DEF passed
    <3> QED  BY <1>2, <1>3, <1>4, GreatestUpTo
  <2> HIDE DEF passed, c
  <2> QED  BY <1>3, <2>1, <2>2
<1>5. ASSUME passed = {} PROVE c = 1 /\ child_for_key(page, key) = page.first
  BY <1>5 DEF child_for_key
<1> HIDE DEF c
<1>6. c \in 1..m /\ child_for_key(page, key) = refs[c].page_id
  <2> HIDE DEF passed
  <2>1. CASE passed = {}
    BY <1>1, <1>2, <1>5, <2>1
  <2>2. CASE passed # {}
    <3> DEFINE g == Max(passed)
    <3>1. c = g + 1 /\ g \in 1..(m - 1) /\ child_for_key(page, key) = page.separators[g].child
      BY <1>4, <2>2
    <3> HIDE DEF g
    <3>2. page.separators[g].child = refs[g + 1].page_id
      BY <1>1, <3>1
    <3>3. g + 1 \in 1..m
      BY <1>2, <3>1
    <3> QED  BY <3>1, <3>2, <3>3
  <2> QED  BY <2>1, <2>2
<1>7. ASSUME NEW i \in 1..m
      PROVE  /\ refs[i].page_id \in 0..(id - 1) /\ a(i) \in Nat /\ b(i) \in Nat
             /\ i < m => a(i + 1) = b(i) + 1
  <2>1. refs[i].page_id \in 0..(id - 1)
    BY <1>1 DEF Row
  <2>2. Len(B) \in Nat
    BY DEF Forest
  <2>3. refs[i].page_id \in 0..(Len(B) - 1)
    BY <2>1, <2>2
  <2>4. a(i) \in Nat /\ b(i) \in Nat
    BY <2>3 DEF Forest, Spans
  <2>5. ASSUME i < m PROVE a(i + 1) = b(i) + 1
    <3>1. i \in 1..(m - 1)
      BY <1>2, <2>5
    <3> QED  BY <1>1, <3>1 DEF Row
  <2> QED  BY <2>1, <2>4, <2>5
<1>8. ASSUME NEW pos \in 1..Len(S), S[pos].key = key PROVE a(c) <= pos /\ pos <= b(c)
  <2>1. ASSUME NEW i \in 1..(m - 1) PROVE i \in passed <=> a(i + 1) <= pos
    <3>1. a(i + 1) \in 1..Len(S) /\ page.separators[i].key = S[a(i + 1)].key
      BY <1>1
    <3>2. KeyLess(key, page.separators[i].key) <=> pos < a(i + 1)
      <4> DEFINE j == a(i + 1)
      <4>1. j \in 1..Len(S) /\ page.separators[i].key = S[j].key
        BY <3>1
      <4> HIDE DEF j
      <4>2. KeyLess(S[pos].key, S[j].key) <=> pos < j
        BY <1>2, <4>1, OrderOfKeys
      <4>3. KeyLess(key, page.separators[i].key) <=> pos < j
        BY <1>8, <4>1, <4>2
      <4> QED  BY <4>3 DEF j
    <3>3. i \in DOMAIN page.separators
      BY <1>1
    <3> QED  BY <3>1, <3>2, <3>3, SMTT(60)
  <2>2. a(1) <= pos /\ pos <= b(m)
    <3>1. lo[id] <= pos /\ pos <= hi[id]
      BY <1>8 DEF Around
    <3> QED  BY <1>1, <3>1 DEF Covers
  <2> HIDE DEF passed
  <2>3. a(c) <= pos
    <3>1. CASE passed = {}
      BY <1>5, <2>2, <3>1
    <3>2. CASE passed # {}
      <4>1. a(Max(passed) + 1) <= pos
        BY <1>4, <2>1, <3>2
      <4> QED  BY <1>4, <3>2, <4>1
    <3> QED  BY <3>1, <3>2
  <2>4. pos <= b(c)
    <3>1. CASE c = m
      BY <2>2, <3>1
    <3>2. CASE c # m
      <4>1. c \in 1..(m - 1) /\ c < m
        BY <1>2, <1>6, <3>2
      <4>2. c \notin passed
        <5> SUFFICES ASSUME c \in passed PROVE FALSE
          OBVIOUS
        <5>1. c = Max(passed) + 1 /\ Max(passed) \in 1..(m - 1) /\ c <= Max(passed)
          BY <1>4
        <5> QED  BY <5>1
      <4>3. ~(a(c + 1) <= pos)
        BY <2>1, <4>1, <4>2
      <4>4. a(c + 1) = b(c) + 1 /\ b(c) \in Nat
        BY <1>6, <1>7, <4>1
      <4>5. \A u, w \in Int : ~(w <= pos) /\ w = u + 1 => pos <= u
        OBVIOUS
      <4>6. a(c + 1) \in Int /\ b(c) \in Int
        BY <4>4
      <4> QED  BY <4>3, <4>4, <4>5, <4>6
    <3> QED  BY <3>1, <3>2
  <2> QED  BY <2>3, <2>4
<1>9. refs[c].page_id \in 0..(id - 1)
  BY <1>6, <1>7
<1> QED  BY <1>6, <1>8, <1>9 DEF Around

(* The descent of lookup_index ends in the leaf that has the key.           *)
LEMMA TowardLeaf ==
    ASSUME NEW P, NEW S, NEW B, NEW lo, NEW hi, Whole(P, S, B, lo, hi), NEW key
    PROVE  /\ Descent(P, Toward(P, key)) \in 0..(Len(B) - 1)
           /\ LeafAt(S, B, lo, hi, Descent(P, Toward(P, key)))
           /\ Around(S, lo, hi, key, Descent(P, Toward(P, key)))
<1> DEFINE n == Len(B)
           down == Toward(P, key)
           Good == {id \in 0..(n - 1) : Around(S, lo, hi, key, id)}
<1>1. Forest(S, B, lo, hi) /\ n \in Nat \ {0} /\ P[1].page_count = n /\ P[1].root \in Good
  <2>1. Around(S, lo, hi, key, P[1].root)
    BY DEF Around, Whole
  <2> QED  BY <2>1 DEF Whole
<1>2. ASSUME NEW id \in Good
      PROVE  /\ down[id] \in Good
             /\ ReadPage(P, id).kind = "leaf" => down[id] = id
             /\ ReadPage(P, id).kind # "leaf" => down[id] < id
  <2>1. id \in 0..(Len(B) - 1) /\ id \in Int /\ Around(S, lo, hi, key, id)
    OBVIOUS
  <2>2. ReadPage(P, id) = B[id + 1]
    BY <2>1, PageRead
  <2>3. down[id] = IF IsInternal(ReadPage(P, id))
                   THEN child_for_key(ReadPage(P, id), key) ELSE id
    BY <2>1 DEF Toward
  <2>4. CASE LeafAt(S, B, lo, hi, id)
    <3>1. B[id + 1].kind = "leaf" /\ ~IsInternal(B[id + 1])
      BY <1>1, <2>1, <2>4, LeafFound
    <3> QED  BY <2>2, <2>3, <3>1
  <2>5. CASE InternalAt(S, B, lo, hi, id)
    <3>1. B[id + 1].kind = "internal" /\ IsInternal(B[id + 1])
      BY <1>1, <2>1, <2>5, InternalFound
    <3>2. /\ down[id] = child_for_key(B[id + 1], key)
          /\ ReadPage(P, id).kind = "internal"
      BY <2>2, <2>3, <3>1
    <3>3. down[id] \in 0..(id - 1) /\ Around(S, lo, hi, key, down[id])
      BY <1>1, <2>1, <2>5, <3>2, ChildAround
    <3>4. down[id] \in 0..(n - 1) /\ down[id] < id
      BY <1>1, <2>1, <3>3
    <3> QED  BY <3>2, <3>3, <3>4
  <2> QED  BY <1>1, <2>1, <2>4, <2>5 DEF Forest
<1> HIDE DEF down
<1>3. Descent(P, down) \in Good /\ ReadPage(P, Descent(P, down)).kind = "leaf"
  <2>1. Good \in SUBSET (0..(n - 1))
    OBVIOUS
  <2> HIDE DEF Good, n
  <2> QED  BY <1>1, <1>2, <2>1, DescentReaches
<1> DEFINE id == Descent(P, down)
<1>4. id \in 0..(Len(B) - 1) /\ Around(S, lo, hi, key, id)
  BY <1>3
<1>5. LeafAt(S, B, lo, hi, id)
  <2>1. ReadPage(P, id) = B[id + 1]
    BY <1>4, PageRead
  <2>2. ~InternalAt(S, B, lo, hi, id)
    <3> SUFFICES ASSUME InternalAt(S, B, lo, hi, id) PROVE FALSE
      OBVIOUS
    <3> HIDE DEF id
    <3>1. B[id + 1].kind = "internal"
      BY <1>1, <1>4, InternalFound
    <3> QED  BY <1>3, <2>1, <3>1 DEF id
  <2> HIDE DEF id
  <2> QED  BY <1>1, <1>4, <2>2 DEF Forest
<1> QED  BY <1>4, <1>5 DEF down

(* The leaf chain has all entries.                                         *)
LEMMA ChainFound ==
    ASSUME NEW P, NEW S, NEW B, NEW lo, NEW hi, Whole(P, S, B, lo, hi)
    PROVE  LeafChain(P) = [at |-> NoPage, found |-> S]
<1> DEFINE n == Len(B)
           start == Descent(P, Leftmost(P))
           first == [at |-> start, found |-> <<>>]
           X == {c \in Chains :
                    \/ c.at = NoPage /\ c.found = S
                    \/ /\ c.at \in 0..(n - 1) /\ LeafAt(S, B, lo, hi, c.at)
                       /\ c.found = SubSeq(S, 1, lo[c.at] - 1)}
           h == [k \in 1..n |-> [c \in X |-> NextInChain(P)[c]]]
           Step(f) == [k \in 0..P[1].page_count |->
                          IF k = 0 THEN [at |-> start, found |-> <<>>]
                          ELSE NextInChain(P)[f[k - 1]]]
           f == CHOOSE g : g = Step(g)
<1>1. /\ Forest(S, B, lo, hi) /\ n \in Nat \ {0} /\ P[1].page_count = n
      /\ S \in Seq(EncodedEntry) /\ Len(S) \in Nat
  BY DEF Whole, Forest
<1>2. start \in 0..(n - 1) /\ LeafAt(S, B, lo, hi, start) /\ lo[start] = 1
  BY LeftmostLeaf
<1> HIDE DEF start
<1>3. first \in X /\ first.at = start
  <2>1. SubSeq(S, 1, lo[start] - 1) = <<>>
    BY <1>1, <1>2
  <2>2. start \in Int /\ <<>> \in Seq(EncodedEntry)
    BY <1>1, <1>2
  <2> QED  BY <1>2, <2>1, <2>2 DEF Chains
<1>4. ASSUME NEW c \in X
      PROVE  /\ NextInChain(P)[c] \in X
             /\ c.at = NoPage => NextInChain(P)[c] = c
             /\ c.at # NoPage =>
                   NextInChain(P)[c].at = NoPage \/ NextInChain(P)[c].at = c.at + 1
  <2> DEFINE d == NextInChain(P)[c]
  <2>1. c \in Chains
    OBVIOUS
  <2>2. d = IF IsLeaf(ReadPage(P, c.at))
            THEN [at |-> ReadPage(P, c.at).next,
                  found |-> c.found \o ReadPage(P, c.at).entries]
            ELSE c
    BY <2>1 DEF NextInChain
  <2> HIDE DEF d
  <2>3. CASE c.at = NoPage
    <3>1. ReadPage(P, c.at) = NotAPage
      BY <1>1, <2>3 DEF ReadPage, NoPage
    <3>2. ~IsLeaf(NotAPage)
      BY DEF IsLeaf, NotAPage
    <3> QED  BY <2>2, <2>3, <3>1, <3>2 DEF d
  <2>4. CASE c.at # NoPage
    <3> DEFINE id == c.at
               page == B[id + 1]
    <3>1. /\ id \in 0..(n - 1) /\ LeafAt(S, B, lo, hi, id)
          /\ c.found = SubSeq(S, 1, lo[id] - 1)
      BY <2>4
    <3>2. ReadPage(P, id) = page
      BY <3>1, PageRead
    <3>3. /\ IsLeaf(page) /\ page.entries = SubSeq(S, lo[id], hi[id])
          /\ page.next = IF hi[id] = Len(S) THEN NoPage ELSE id + 1
      BY <1>1, <3>1, LeafFound, SMTT(60)
    <3> HIDE DEF page
    <3>4. d = [at |-> page.next, found |-> c.found \o page.entries]
      BY <2>2, <3>2, <3>3
    <3>5. /\ lo[id] \in Nat /\ hi[id] \in Nat
          /\ 1 <= lo[id] /\ lo[id] <= hi[id] + 1 /\ hi[id] <= Len(S)
      BY <1>1, <3>1 DEF Forest, Spans
    <3>6. d.found = SubSeq(S, 1, hi[id]) /\ d.found \in Seq(EncodedEntry)
      <4> DEFINE u == lo[id]
                 w == hi[id]
      <4>1. u \in Nat /\ w \in Nat /\ 1 <= u /\ u <= w + 1 /\ w <= Len(S)
        BY <3>5
      <4>2. d.found = SubSeq(S, 1, u - 1) \o SubSeq(S, u, w)
        BY <3>1, <3>3, <3>4
      <4> HIDE DEF u, w
      <4>3. /\ SubSeq(S, 1, u - 1) \o SubSeq(S, u, w) = SubSeq(S, 1, w)
            /\ SubSeq(S, 1, w) \in Seq(EncodedEntry)
        <5> DEFINE left == SubSeq(S, 1, u - 1)
                   right == SubSeq(S, u, w)
                   all == SubSeq(S, 1, w)
        <5>2. /\ left \in Seq(EncodedEntry) /\ Len(left) = u - 1
              /\ \A i \in 1..(u - 1) : left[i] = S[i]
          BY <1>1, <4>1
        <5>3. /\ right \in Seq(EncodedEntry) /\ Len(right) = w - u + 1
              /\ \A i \in 1..(w - u + 1) : right[i] = S[u + i - 1]
          BY <1>1, <4>1
        <5>4. /\ all \in Seq(EncodedEntry) /\ Len(all) = w
              /\ \A i \in 1..w : all[i] = S[i]
          BY <1>1, <4>1
        <5> HIDE DEF left, right, all
        <5> DEFINE both == left \o right
        <5>5. /\ both \in Seq(EncodedEntry) /\ Len(both) = w
              /\ \A i \in 1..(u - 1) : both[i] = left[i]
              /\ \A i \in u..w : both[i] = right[i - (u - 1)]
          BY <4>1, <5>2, <5>3, SMTT(60)
        <5> HIDE DEF both
        <5>6. ASSUME NEW i \in 1..w PROVE both[i] = all[i]
          <6>1. CASE i < u
            <7>1. i \in 1..(u - 1)
              BY <4>1, <6>1
            <7> QED  BY <5>2, <5>4, <5>5, <7>1
          <6>2. CASE i >= u
            <7>1. i - (u - 1) \in 1..(w - u + 1) /\ u + (i - (u - 1)) - 1 = i /\ i \in u..w
              BY <4>1, <6>2
            <7>2. right[i - (u - 1)] = S[i]
              BY <5>3, <7>1
            <7> QED  BY <5>4, <5>5, <7>1, <7>2
          <6> QED  BY <4>1, <6>1, <6>2
        <5>7. both = all
          BY <5>4, <5>5, <5>6
        <5> QED  BY <5>4, <5>7 DEF both, left, right, all
      <4> QED  BY <4>2, <4>3 DEF w
    <3>7. CASE hi[id] = Len(S)
      <4>1. SubSeq(S, 1, Len(S)) = S
        BY <1>1
      <4>2. d.at = NoPage /\ d.found = S
        BY <3>3, <3>4, <3>6, <3>7, <4>1
      <4>3. d = [at |-> NoPage, found |-> S]
        BY <3>4, <4>2
      <4>4. d \in X
        BY <1>1, <4>3 DEF Chains, NoPage
      <4> QED  BY <2>4, <4>2, <4>4 DEF d
    <3>8. CASE hi[id] # Len(S)
      <4>1. d.at = id + 1
        BY <3>3, <3>4, <3>8
      <4>2. id + 1 \in 0..(n - 1) /\ B[(id + 1) + 1].kind = "leaf" /\ lo[id + 1] = hi[id] + 1
        BY <3>1, <3>8 DEF LeafAt
      <4>3. LeafAt(S, B, lo, hi, id + 1)
        <5> DEFINE j == id + 1
        <5>1. j \in 0..(Len(B) - 1) /\ B[j + 1].kind = "leaf"
          BY <4>2
        <5> HIDE DEF j, id
        <5>2. ~InternalAt(S, B, lo, hi, j)
          <6> SUFFICES ASSUME InternalAt(S, B, lo, hi, j) PROVE FALSE
            OBVIOUS
          <6>1. B[j + 1].kind = "internal"
            BY <1>1, <5>1, InternalFound
          <6> QED  BY <5>1, <6>1
        <5>3. LeafAt(S, B, lo, hi, j)
          BY <1>1, <5>1, <5>2 DEF Forest
        <5> QED  BY <5>3 DEF j
      <4>4. d.found = SubSeq(S, 1, lo[id + 1] - 1)
        <5>1. lo[id + 1] - 1 = hi[id]
          BY <3>5, <4>2
        <5> QED  BY <3>6, <5>1
      <4>5. d \in Chains
        <5>1. id + 1 \in Int
          BY <4>2
        <5>2. d = [at |-> id + 1, found |-> d.found]
          BY <3>4, <4>1
        <5>3. \A x \in Int, y \in Seq(EncodedEntry) : [at |-> x, found |-> y] \in Chains
          BY DEF Chains
        <5> QED  BY <3>6, <5>1, <5>2, <5>3, Zenon
      <4>6. d \in X
        BY <4>1, <4>2, <4>3, <4>4, <4>5
      <4> QED  BY <2>4, <4>1, <4>6 DEF d
    <3> QED  BY <3>7, <3>8
  <2> QED  BY <2>3, <2>4
<1> HIDE DEF X
<1>5. Turns(n, X, first, h)
  BY <1>1, <1>3, <1>4 DEF Turns
<1>6. PICK v : Taken(n, X, first, h, v)
  <2> HIDE DEF first, h
  <2> QED  BY <1>5, TurnsTaken
<1>7. /\ v \in [0..n -> X] /\ v[0] = first
      /\ \A k \in 1..n : v[k - 1] \in X /\ v[k] = NextInChain(P)[v[k - 1]]
  <2>1. v \in [0..n -> X] /\ v[0] = first /\ \A k \in 1..n : v[k] = h[k][v[k - 1]]
    BY <1>6 DEF Taken
  <2>2. ASSUME NEW k \in 1..n PROVE v[k - 1] \in X
    BY <1>1, <2>1
  <2>3. \A k \in 1..n, c \in X : h[k][c] = NextInChain(P)[c]
    OBVIOUS
  <2> HIDE DEF h
  <2>4. ASSUME NEW k \in 1..n PROVE v[k] = NextInChain(P)[v[k - 1]]
    BY <2>1, <2>2, <2>3, Zenon
  <2> QED  BY <2>1, <2>2, <2>4
<1>8. v = Step(v)
  <2>1. v = [k \in 0..n |-> v[k]]
    BY <1>7
  <2>2. \A k \in 0..n : k # 0 => k \in 1..n
    BY <1>1, SMTT(60)
  <2> QED  BY <1>1, <1>7, <2>1, <2>2
<1>9. f = Step(f)
  BY <1>8
<1>10. LeafChain(P) = f[P[1].page_count]
  BY Zenon DEF LeafChain, start
<1> HIDE DEF f
<1>11. f[0] = first /\ \A k \in 1..n : f[k] = NextInChain(P)[f[k - 1]]
  BY <1>1, <1>9, SMTT(60)
<1> HIDE DEF first
<1> DEFINE T == {k \in 0..n : f[k] \in X /\ (f[k].at = NoPage \/ f[k].at = start + k)}
<1>12. 0 \in T
  <2>1. f[0] \in X /\ f[0].at = start /\ start + 0 = start
    BY <1>2, <1>3, <1>11
  <2> QED  BY <1>1, <2>1
<1>13. ASSUME NEW k \in 1..n, k - 1 \in T PROVE k \in T
  <2> DEFINE c == f[k - 1]
  <2>1. c \in X /\ (c.at = NoPage \/ c.at = start + (k - 1)) /\ f[k] = NextInChain(P)[c]
    BY <1>11, <1>13
  <2> HIDE DEF c
  <2>2. f[k] \in X
    BY <1>4, <2>1
  <2>3. f[k].at = NoPage \/ f[k].at = start + k
    <3>1. CASE c.at = NoPage
      BY <1>4, <2>1, <3>1
    <3>2. CASE c.at # NoPage
      <4>1. c.at = start + (k - 1) /\ (start + (k - 1)) + 1 = start + k
        BY <1>2, <2>1, <3>2
      <4> QED  BY <1>4, <2>1, <3>2, <4>1
    <3> QED  BY <3>1, <3>2
  <2> QED  BY <2>2, <2>3
<1> HIDE DEF T
<1>14. 0..n \subseteq T
  BY <1>1, <1>12, <1>13, UpToInduction
<1> DEFINE c == f[n]
<1>15. c \in X /\ (c.at = NoPage \/ c.at = start + n)
  BY <1>1, <1>14 DEF T
<1> HIDE DEF c
<1>16. c.at = NoPage /\ c.found = S /\ c \in Chains
  <2>1. start + n \notin 0..(n - 1) /\ NoPage \notin 0..(n - 1)
    BY <1>1, <1>2 DEF NoPage
  <2>2. /\ c \in Chains
        /\ \/ c.at = NoPage /\ c.found = S
           \/ c.at \in 0..(n - 1)
    BY <1>15 DEF X
  <2> QED  BY <1>15, <2>1, <2>2
<1> QED  BY <1>1, <1>10, <1>16 DEF c, Chains

-----------------------------------------------------------------------------
(* What load_index and lookup_index make of a whole file of a map.         *)
WholeMap(P, map) ==
    \E S, B, lo, hi : Whole(P, S, B, lo, hi) /\ Listed(S, map)

(* Its entries are loaded in the order of their keys,                      *)
LEMMA WholeLoads ==
    ASSUME NEW map \in Saves, NEW P, NEW S, NEW B, NEW lo, NEW hi,
           Whole(P, S, B, lo, hi), Listed(S, map)
    PROVE  /\ DOMAIN LoadIndex(P, FALSE) = 1..Len(S)
           /\ LoadIndex(P, FALSE) \in Seq(map)
           /\ ToSet(LoadIndex(P, FALSE)) = map
           /\ LoadIndex(P, FALSE) # NoMap
           /\ \A i \in 1..Len(S) : S[i] = EntryOf(LoadIndex(P, FALSE)[i])
<1> DEFINE L == [i \in 1..Len(S) |-> <<decode_key(S[i].key), S[i].row_id>>]
<1>1. /\ S \in Seq(EncodedEntry) /\ KeysRise(S) /\ Len(S) \in Nat /\ DOMAIN S = 1..Len(S)
      /\ P[1].entry_count = Len(S)
  BY DEF Whole, Forest
<1>2. LeafChain(P) = [at |-> NoPage, found |-> S]
  BY ChainFound
<1>3. Descent(P, Leftmost(P)) # NoPage
  BY LeftmostLeaf DEF NoPage
<1>4. HeaderOk(P, FALSE)
  BY WholeIsOk
<1>5. ASSUME NEW p \in map
      PROVE  /\ decode_key(EntryOf(p).key) = p[1] /\ EntryOf(p).row_id = p[2]
             /\ EntryOf(p).key = encode_key(p[1])
             /\ p = <<p[1], p[2]>> /\ p[1] # Undecodable
  <2>1. EntryOf(p).key = encode_key(p[1]) /\ EntryOf(p).row_id = p[2]
    BY DEF EntryOf
  <2>2. IsKeyValue(p[1]) /\ p = <<p[1], p[2]>>
    BY EntriesOfMap
  <2> QED  BY <2>1, <2>2, KeyReadBack
<1>6. ASSUME NEW i \in 1..Len(S)
      PROVE  /\ L[i] \in map /\ S[i] = EntryOf(L[i]) /\ decode_key(S[i].key) # Undecodable
             /\ encode_key(L[i][1]) = S[i].key
  <2>1. PICK p \in map : S[i] = EntryOf(p)
    BY <1>1 DEF Listed
  <2>2. L[i] = <<p[1], p[2]>> /\ L[i] = p
    BY <1>5, <2>1
  <2> HIDE DEF L
  <2> QED  BY <1>5, <2>1, <2>2
<1>7. Rising(S)
  BY <1>1 DEF KeysRise, Rising
<1>8. Decoded(P)[S] = L
  <2>1. Decoded(P)[S] =
           IF /\ Rising(S) /\ Len(S) = P[1].entry_count
              /\ \A i \in DOMAIN S : decode_key(S[i].key) # Undecodable
           THEN [i \in DOMAIN S |-> <<decode_key(S[i].key), S[i].row_id>>]
           ELSE NoMap
    BY <1>1, Zenon DEF Decoded
  <2> QED  BY <1>1, <1>6, <1>7, <2>1
<1>9. LoadIndex(P, FALSE) = L
  <2>1. LeafChain(P).at = NoPage /\ LeafChain(P).found = S
    BY <1>2
  <2> QED  BY <1>3, <1>4, <1>8, <2>1 DEF LoadIndex
<1>10. L \in Seq(map)
  <2>1. L = [i \in 1..Len(S) |-> L[i]]
    OBVIOUS
  <2> HIDE DEF L
  <2>2. L \in [1..Len(S) -> map]
    BY <1>6, <2>1
  <2> QED  BY <1>1, <2>2
<1>11. ToSet(L) = map
  <2>1. DOMAIN L = 1..Len(S)
    OBVIOUS
  <2>2. ASSUME NEW p \in map PROVE \E i \in 1..Len(S) : L[i] = p
    <3>1. PICK i \in 1..Len(S) : S[i] = EntryOf(p)
      BY <1>1 DEF Listed
    <3>2. L[i] = <<p[1], p[2]>>
      BY <1>5, <3>1
    <3> QED  BY <1>5, <3>2
  <2> HIDE DEF L
  <2>3. ToSet(L) \subseteq map
    BY <1>6, <2>1 DEF ToSet
  <2>4. map \subseteq ToSet(L)
    BY <2>1, <2>2 DEF ToSet
  <2> QED  BY <2>3, <2>4
<1>12. L # NoMap
  <2>1. map \subseteq Values \X RowIds
    BY FileAssumption
  <2> HIDE DEF L
  <2>2. L \in Seq(Values \X RowIds)
    BY <1>10, <2>1
  <2> QED  BY <2>2, FileAssumption
<1>14. DOMAIN L = 1..Len(S)
  OBVIOUS
<1> HIDE DEF L
<1>13. \A i \in 1..Len(S) : S[i] = EntryOf(L[i])
  BY <1>6
<1> QED  BY <1>9, <1>10, <1>11, <1>12, <1>13, <1>14

(* and a value is found at the row it is there for, or not at all.         *)
LEMMA WholeFinds ==
    ASSUME NEW map \in Saves, NEW P, NEW S, NEW B, NEW lo, NEW hi,
           Whole(P, S, B, lo, hi), Listed(S, map), NEW v \in Values
    PROVE  /\ \A p \in map : p[1] = v => LookupIndex(P, FALSE, v) = p[2]
           /\ (\A p \in map : p[1] # v) => LookupIndex(P, FALSE, v) = NotFound
<1> DEFINE key == encode_key(v)
           id == Descent(P, Toward(P, key))
           leaf == SubSeq(S, lo[id], hi[id])
           hits == {i \in DOMAIN leaf : leaf[i].key = key}
<1>1. /\ S \in Seq(EncodedEntry) /\ KeysRise(S) /\ Len(S) \in Nat /\ DOMAIN S = 1..Len(S)
      /\ P[1].entry_count = Len(S) /\ Forest(S, B, lo, hi) /\ Len(B) \in Nat
  BY DEF Whole, Forest
<1>2. id \in 0..(Len(B) - 1) /\ LeafAt(S, B, lo, hi, id) /\ Around(S, lo, hi, key, id)
  BY TowardLeaf
<1> HIDE DEF id
<1>3. HeaderOk(P, FALSE)
  BY WholeIsOk
<1>4. ReadPage(P, id) = B[id + 1] /\ IsLeaf(B[id + 1]) /\ B[id + 1].entries = leaf
  BY <1>1, <1>2, PageRead, LeafFound
<1>5. LookupIndex(P, FALSE, v) =
         IF Len(S) = 0 THEN NotFound
         ELSE IF hits = {} THEN NotFound ELSE leaf[CHOOSE i \in hits : TRUE].row_id
  <2>1. id \in Int
    BY <1>2
  <2>2. FindInLeaf(P, key)[id] =
           IF IsLeaf(ReadPage(P, id))
           THEN IF {i \in DOMAIN ReadPage(P, id).entries : ReadPage(P, id).entries[i].key = key} = {}
                THEN NotFound
                ELSE ReadPage(P, id).entries[
                        CHOOSE i \in {i \in DOMAIN ReadPage(P, id).entries :
                                         ReadPage(P, id).entries[i].key = key} : TRUE].row_id
           ELSE NoMap
    BY <2>1, Zenon DEF FindInLeaf
  <2> HIDE DEF leaf
  <2>3. FindInLeaf(P, key)[id] =
           IF hits = {} THEN NotFound ELSE leaf[CHOOSE i \in hits : TRUE].row_id
    BY <1>4, <2>2, Zenon
  <2>4. LookupIndex(P, FALSE, v) = IF Len(S) = 0 THEN NotFound ELSE FindInLeaf(P, key)[id]
    BY <1>1, <1>3, Zenon DEF LookupIndex, id
  <2> QED  BY <2>3, <2>4, Zenon
<1>6. /\ lo[id] \in Nat /\ hi[id] \in Nat
      /\ 1 <= lo[id] /\ lo[id] <= hi[id] + 1 /\ hi[id] <= Len(S)
  BY <1>1, <1>2 DEF Forest, Spans
<1>7. /\ DOMAIN leaf = 1..(hi[id] - lo[id] + 1)
      /\ \A i \in 1..(hi[id] - lo[id] + 1) : leaf[i] = S[lo[id] + i - 1]
  <2> DEFINE a == lo[id]
             b == hi[id]
  <2>1. a \in Nat /\ b \in Nat /\ 1 <= a /\ a <= b + 1 /\ b <= Len(S)
    BY <1>6
  <2> HIDE DEF a, b
  <2>2. /\ DOMAIN SubSeq(S, a, b) = 1..(b - a + 1)
        /\ \A i \in 1..(b - a + 1) : SubSeq(S, a, b)[i] = S[a + i - 1]
    BY <1>1, <2>1
  <2> QED  BY <2>2 DEF a, b
<1> HIDE DEF leaf
<1>8. \A p \in map : IsKeyValue(p[1]) /\ IsKeyValue(v)
  BY EntriesOfMap, FileAssumption
<1>9. ASSUME NEW p \in map, p[1] = v PROVE LookupIndex(P, FALSE, v) = p[2]
  <2>1. PICK pos \in 1..Len(S) : S[pos] = EntryOf(p)
    BY <1>1 DEF Listed
  <2>2. S[pos].key = key /\ S[pos].row_id = p[2]
    BY <1>9, <2>1 DEF EntryOf
  <2>3. lo[id] <= pos /\ pos <= hi[id]
    BY <1>2, <2>2 DEF Around
  <2> DEFINE j == pos - lo[id] + 1
  <2>4. j \in 1..(hi[id] - lo[id] + 1) /\ lo[id] + j - 1 = pos
    BY <1>6, <2>3
  <2>5. leaf[j] = S[pos] /\ j \in DOMAIN leaf
    BY <1>7, <2>4
  <2>6. j \in hits
    BY <2>2, <2>5
  <2>7. ASSUME NEW i \in hits PROVE leaf[i].row_id = p[2]
    <3>1. i \in 1..(hi[id] - lo[id] + 1) /\ leaf[i].key = key
      BY <1>7
    <3> DEFINE w == lo[id] + i - 1
    <3>2. w \in 1..Len(S) /\ leaf[i] = S[w]
      <4> DEFINE a == lo[id]
                 b == hi[id]
      <4>1. a \in Nat /\ b \in Nat /\ 1 <= a /\ b <= Len(S) /\ Len(S) \in Nat
        BY <1>1, <1>6
      <4>2. i \in 1..(b - a + 1)
        BY <3>1
      <4>3. leaf[i] = S[w]
        BY <1>7, <3>1
      <4> HIDE DEF a, b
      <4>4. a + i - 1 \in 1..Len(S)
        BY <4>1, <4>2
      <4> QED  BY <4>3, <4>4 DEF a
    <3> HIDE DEF w
    <3>3. S[w].key = S[pos].key
      BY <2>2, <3>1, <3>2
    <3>4. ~(w < pos) /\ ~(pos < w)
      <4>1. S[w].key \in Seq(Bytes)
        <5>1. S[w] \in EncodedEntry
          BY <1>1, <3>2
        <5> QED  BY <5>1 DEF EncodedEntry
      <4>2. ~KeyLess(S[w].key, S[pos].key) /\ ~KeyLess(S[pos].key, S[w].key)
        BY <3>3, <4>1, KeyLessIrreflexive
      <4> QED  BY <1>1, <3>2, <4>2, OrderOfKeys
    <3>5. w = pos
      BY <3>2, <3>4
    <3> QED  BY <2>2, <3>2, <3>5
  <2> HIDE DEF hits
  <2>8. hits # {} /\ (CHOOSE i \in hits : TRUE) \in hits
    BY <2>6
  <2>9. Len(S) # 0
    BY <1>1
  <2> QED  BY <1>5, <2>7, <2>8, <2>9
<1>10. ASSUME \A p \in map : p[1] # v PROVE LookupIndex(P, FALSE, v) = NotFound
  <2>1. hits = {}
    <3> SUFFICES ASSUME NEW i \in hits PROVE FALSE
      OBVIOUS
    <3>1. i \in 1..(hi[id] - lo[id] + 1) /\ leaf[i].key = key
      BY <1>7
    <3> DEFINE w == lo[id] + i - 1
    <3>2. w \in 1..Len(S) /\ leaf[i] = S[w]
      <4> DEFINE a == lo[id]
                 b == hi[id]
      <4>1. a \in Nat /\ b \in Nat /\ 1 <= a /\ b <= Len(S) /\ Len(S) \in Nat
        BY <1>1, <1>6
      <4>2. i \in 1..(b - a + 1)
        BY <3>1
      <4>3. leaf[i] = S[w]
        BY <1>7, <3>1
      <4> HIDE DEF a, b
      <4>4. a + i - 1 \in 1..Len(S)
        BY <4>1, <4>2
      <4> QED  BY <4>3, <4>4 DEF a
    <3>3. PICK p \in map : S[w] = EntryOf(p)
      BY <1>1, <3>2 DEF Listed
    <3>4. encode_key(p[1]) = encode_key(v)
      BY <3>1, <3>2, <3>3 DEF EntryOf
    <3>5. p[1] = v
      BY <1>8, <3>4, KeyReadBack
    <3> QED  BY <1>10, <3>5
  <2> QED  BY <1>5, <2>1
<1> QED  BY <1>9, <1>10

-----------------------------------------------------------------------------
(* What rises from one number to the next rises.                           *)
LEMMA Rises ==
    ASSUME NEW n \in Nat, NEW f \in [1..n -> Int],
           \A i \in 1..(n - 1) : f[i] <= f[i + 1],
           NEW a \in 1..n, NEW b \in a..n
    PROVE  f[a] <= f[b]
<1> DEFINE T == {d \in 0..(n - a) : f[a] <= f[a + d]}
<1>1. 0 \in T
  BY DEF T
<1>2. ASSUME NEW d \in 1..(n - a), d - 1 \in T PROVE d \in T
  <2>1. f[a] <= f[a + (d - 1)]
    BY <1>2
  <2>2. a + (d - 1) \in 1..(n - 1) /\ (a + (d - 1)) + 1 = a + d /\ a + d \in 1..n
    OBVIOUS
  <2>3. f[a + (d - 1)] <= f[(a + (d - 1)) + 1]
    BY <2>2
  <2>4. f[a] \in Int /\ f[a + (d - 1)] \in Int /\ f[a + d] \in Int
    BY <2>2
  <2>5. f[a] <= f[a + d]
    BY <2>1, <2>2, <2>3, <2>4
  <2> QED  BY <2>5
<1>3. n - a \in Nat
  OBVIOUS
<1>4. 0..(n - a) \subseteq T
  <2> HIDE DEF T
  <2> QED  BY <1>1, <1>2, <1>3, UpToInduction
<1>5. b - a \in 0..(n - a) /\ a + (b - a) = b
  OBVIOUS
<1>6. b - a \in T
  <2> HIDE DEF T
  <2> QED  BY <1>4, <1>5
<1> QED  BY <1>5, <1>6

(* More items are no shorter.                                               *)
LEMMA SumsGrow ==
    ASSUME NEW n \in Nat, NEW costs \in Lens(n), NEW total, Sums(n, costs, total),
           NEW a \in 0..n, NEW b \in a..n
    PROVE  total[a] <= total[b]
<1> DEFINE f == [i \in 1..(n + 1) |-> total[i - 1]]
<1>1. total \in [0..n -> Nat] /\ \A i \in 1..n : total[i] = total[i - 1] + costs[i] /\ costs[i] \in Nat
  BY DEF Sums, Lens
<1>2. f \in [1..(n + 1) -> Int]
  BY <1>1
<1>3. ASSUME NEW i \in 1..((n + 1) - 1) PROVE f[i] <= f[i + 1]
  <2>1. i \in 1..n /\ i - 1 \in 0..n /\ i \in 1..(n + 1) /\ i + 1 \in 1..(n + 1) /\ (i + 1) - 1 = i
    OBVIOUS
  <2>2. total[i - 1] <= total[i]
    <3>1. total[i - 1] \in Nat /\ total[i] \in Nat /\ costs[i] \in Nat
      BY <1>1, <2>1
    <3>2. total[i] = total[i - 1] + costs[i]
      BY <1>1, <2>1
    <3> QED  BY <3>1, <3>2
  <2> QED  BY <2>1, <2>2
<1>4. n + 1 \in Nat /\ a + 1 \in 1..(n + 1) /\ b + 1 \in (a + 1)..(n + 1)
  OBVIOUS
<1>5. f[a + 1] <= f[b + 1]
  <2> HIDE DEF f
  <2> QED  BY <1>2, <1>3, <1>4, Rises
<1> QED  BY <1>4, <1>5

(* The length of a page that holds the items after a up to b.              *)
LEMMA PageLength ==
    ASSUME NEW n \in Nat, NEW costs \in Lens(n), NEW total, Sums(n, costs, total),
           NEW a \in 0..n, NEW b \in a..n, NEW page, Len(Items(page)) = b - a,
           \A k \in 1..(b - a) : EntryLen(Items(page)[k].key) = costs[a + k]
    PROVE  UsedLen(page) = PageHeader + (total[b] - total[a])
<1> DEFINE t == [k \in 0..(b - a) |-> PageHeader + (total[a + k] - total[a])]
<1>1. total \in [0..n -> Nat] /\ \A i \in 1..n : total[i] = total[i - 1] + costs[i] /\ costs[i] \in Nat
  BY DEF Sums, Lens
<1>2. PageHeader \in Nat /\ b - a \in Nat
  BY FileAssumption
<1>3. ASSUME NEW k \in 0..(b - a) PROVE t[k] \in Nat
  <2>1. a + k \in 0..n /\ a + k \in a..n
    OBVIOUS
  <2>2. total[a] <= total[a + k]
    BY <2>1, SumsGrow
  <2> QED  BY <1>1, <1>2, <2>1, <2>2, SMTT(60)
<1>4. t \in [0..(b - a) -> Nat]
  BY <1>3
<1>5. t[0] = PageHeader
  BY <1>1, <1>2
<1>6. ASSUME NEW k \in 1..(b - a) PROVE t[k] = t[k - 1] + EntryLen(Items(page)[k].key)
  <2>1. a + k \in 1..n /\ (a + k) - 1 = a + (k - 1) /\ a + (k - 1) \in 0..n /\ k \in 0..(b - a) /\ k - 1 \in 0..(b - a)
    OBVIOUS
  <2>2. total[a + k] = total[a + (k - 1)] + costs[a + k] /\ costs[a + k] \in Nat
    BY <1>1, <2>1
  <2>3. EntryLen(Items(page)[k].key) = costs[a + k]
    OBVIOUS
  <2>4. t[k] = PageHeader + (total[a + k] - total[a])
    BY <2>1
  <2>5. t[k - 1] = PageHeader + (total[a + (k - 1)] - total[a])
    BY <2>1
  <2>6. total[a] \in Nat /\ total[a + (k - 1)] \in Nat /\ total[a + k] \in Nat
    BY <1>1, <2>1, SMTT(60)
  <2>7. \A h, x, y, z, c \in Nat : z = y + c => h + (z - x) = (h + (y - x)) + c
    OBVIOUS
  <2>8. PageHeader + (total[a + k] - total[a])
           = (PageHeader + (total[a + (k - 1)] - total[a])) + costs[a + k]
    <3> DEFINE x == total[a]
               y == total[a + (k - 1)]
               z == total[a + k]
               c == costs[a + k]
    <3>1. x \in Nat /\ y \in Nat /\ z \in Nat /\ c \in Nat /\ z = y + c
      BY <2>2, <2>6
    <3> HIDE DEF x, y, z, c
    <3>2. PageHeader + (z - x) = (PageHeader + (y - x)) + c
      BY <1>2, <2>7, <3>1
    <3> QED  BY <3>2 DEF x, y, z, c
  <2> QED  BY <2>3, <2>4, <2>5, <2>8, Zenon
<1>7. t[b - a] = PageHeader + (total[b] - total[a])
  BY <1>2
<1> HIDE DEF t
<1> QED  BY <1>2, <1>4, <1>5, <1>6, <1>7, UsedLenIs

(* The groups of a packing follow one another and leave nothing out.       *)
LEMMA GroupsFollow ==
    ASSUME NEW items, NEW n \in Nat \ {0}, n = Len(items),
           NEW starts, Packed(n, starts)
    PROVE  /\ Len(starts) \in Nat \ {0} /\ Len(Groups(items, starts)) = Len(starts)
           /\ DOMAIN Groups(items, starts) = 1..Len(starts)
           /\ starts[1] = 1 /\ LastOf(n, starts, Len(starts)) = n
           /\ \A g \in 1..Len(starts) :
                 /\ starts[g] \in 1..n /\ LastOf(n, starts, g) \in starts[g]..n
                 /\ Groups(items, starts)[g] = SubSeq(items, starts[g], LastOf(n, starts, g))
                 /\ g # Len(starts) =>
                       /\ LastOf(n, starts, g) # n /\ g + 1 \in 1..Len(starts)
                       /\ starts[g + 1] = LastOf(n, starts, g) + 1
<1> DEFINE m == Len(starts)
<1>1. /\ starts \in Seq(1..n) /\ m \in Nat \ {0} /\ DOMAIN starts = 1..m /\ starts[1] = 1
      /\ \A g \in 1..(m - 1) : starts[g] < starts[g + 1]
  BY DEF Packed
<1>m. m = Len(starts)
  OBVIOUS
<1> HIDE DEF m
<1>2. ASSUME NEW g \in 1..m
      PROVE  /\ starts[g] \in 1..n /\ LastOf(n, starts, g) \in starts[g]..n
             /\ g # m => /\ LastOf(n, starts, g) # n /\ g + 1 \in 1..m
                         /\ starts[g + 1] = LastOf(n, starts, g) + 1
  <2>1. starts[g] \in 1..n
    BY <1>1
  <2>2. CASE g = m
    <3>1. LastOf(n, starts, g) = n
      BY <1>m, <2>2 DEF LastOf
    <3> QED  BY <2>1, <2>2, <3>1
  <2>3. CASE g # m
    <3>1. g \in 1..(m - 1) /\ g + 1 \in 1..m
      BY <1>1, <2>3
    <3>2. starts[g] < starts[g + 1] /\ starts[g + 1] \in 1..n
      BY <1>1, <3>1
    <3>3. LastOf(n, starts, g) = starts[g + 1] - 1
      BY <1>m, <2>3 DEF LastOf
    <3> QED  BY <2>1, <3>1, <3>2, <3>3
  <2> QED  BY <2>2, <2>3
<1>3. Groups(items, starts) = [g \in 1..m |-> SubSeq(items, starts[g], LastOf(n, starts, g))]
  BY <1>m, <1>1 DEF Groups, LastOf
<1>4. Len(Groups(items, starts)) = m
  BY <1>1, <1>3
<1>5. LastOf(n, starts, m) = n
  BY <1>m DEF LastOf
<1> QED  BY <1>m, <1>1, <1>2, <1>3, <1>4, <1>5

-----------------------------------------------------------------------------
(* What save_index has built: a forest whose trees, those of level, have   *)
(* all entries.                                                            *)
Grown(S, B, refs) ==
    /\ S \in Seq(EncodedEntry) /\ KeysRise(S)
    /\ B \in Seq(AnyPage) /\ B # <<>>
    /\ S = <<>> => Len(refs) = 1
    /\ \E lo, hi : /\ Forest(S, B, lo, hi) /\ Row(S, lo, hi, Len(B), refs)
                   /\ Covers(lo, hi, refs, 1, Len(S))

(* An index without entries is one leaf without entries.                    *)
LEMMA EmptyLeaf ==
    /\ LeafGroups(<<>>) = <<>>
    /\ Grown(<<>>, LeafPages(<<>>), LeafRefs(<<>>))
    /\ \A i \in DOMAIN LeafPages(<<>>) : ~TooLarge(LeafPages(<<>>)[i])
<1> DEFINE none == LeafPage(<<>>, NoPage)
           ref == PageRef(0, <<>>)
           lo == [id \in 0..0 |-> 1]
           hi == [id \in 0..0 |-> 0]
<1>1. LeafGroups(<<>>) = <<>>
  <2> DEFINE e == [i \in DOMAIN <<>> |-> EntryLen(<<>>[i].key)]
  <2>1. e \in Lens(0)
    BY DEF Lens
  <2> HIDE DEF e
  <2>2. PICK after \in [0..0 -> Packings] :
           /\ after[0] = [starts |-> <<>>, used |-> PageHeader]
           /\ Starts(e, e) = after[0].starts
    BY <2>1, PackingTurns
  <2>3. Starts(e, e) = <<>>
    BY <2>2
  <2>4. Groups(<<>>, <<>>) = <<>>
    BY DEF Groups
  <2>5. LeafGroups(<<>>) = Groups(<<>>, Starts(e, e))
    BY DEF LeafGroups, e
  <2> QED  BY <2>3, <2>4, <2>5
<1>2. LeafPages(<<>>) = <<none>> /\ LeafRefs(<<>>) = <<ref>>
  BY DEF LeafPages, LeafRefs
<1>3. none \in AnyPage /\ ref \in PageRefs /\ <<>> \in Seq(EncodedEntry)
  BY DEF LeafPage, AnyPage, NoPage, PageRef, PageRefs
<1>4. KeysRise(<<>>)
  BY DEF KeysRise
<1>5. Spans(<<>>, 1, lo, hi)
  BY DEF Spans
<1>6. LeafAt(<<>>, <<none>>, lo, hi, 0)
  <2>1. SubSeq(<<>>, lo[0], hi[0]) = <<>> /\ hi[0] = Len(<<>>) /\ 0 + 1 = 1
    OBVIOUS
  <2> DEFINE s == SubSeq(<<>>, lo[0], hi[0])
  <2>2. <<none>>[0 + 1] = LeafPage(s, NoPage)
    <3>1. s = <<>>
      BY <2>1
    <3> HIDE DEF s
    <3> QED  BY <2>1, <3>1
  <2> HIDE DEF lo, hi, none
  <2> QED  BY <2>1, <2>2 DEF LeafAt
<1> HIDE DEF none
<1>7. Forest(<<>>, <<none>>, lo, hi)
  <2>1. \A id \in 0..(Len(<<none>>) - 1) : id = 0
    OBVIOUS
  <2> HIDE DEF lo, hi
  <2>2. \A id \in 0..(Len(<<none>>) - 1) : LeafAt(<<>>, <<none>>, lo, hi, id)
    BY <1>6, <2>1
  <2>3. <<none>> \in Seq(AnyPage) /\ Len(<<none>>) = 1
    BY <1>3
  <2> QED  BY <1>3, <1>4, <1>5, <2>2, <2>3 DEF Forest
<1>8. Row(<<>>, lo, hi, 1, <<ref>>) /\ Covers(lo, hi, <<ref>>, 1, Len(<<>>))
  BY <1>3 DEF Row, Covers, PageRef
<1> HIDE DEF lo, hi, ref
<1>9. Len(<<none>>) = 1 /\ Len(<<ref>>) = 1 /\ <<none>> # <<>> /\ <<none>> \in Seq(AnyPage)
  BY <1>3
<1>10. Grown(<<>>, <<none>>, <<ref>>)
  BY <1>3, <1>4, <1>7, <1>8, <1>9 DEF Grown
<1>11. ~TooLarge(none)
  <2> DEFINE t == [k \in 0..0 |-> PageHeader]
  <2>1. PageHeader \in Nat /\ ~(PageHeader > PageSize)
    BY FileAssumption
  <2>2. Len(Items(none)) = 0
    BY DEF Items, none, LeafPage
  <2>3. t \in [0..0 -> Nat] /\ t[0] = PageHeader
    BY <2>1
  <2> HIDE DEF t
  <2>4. UsedLen(none) = PageHeader
    BY <2>2, <2>3, UsedLenIs
  <2> QED  BY <2>1, <2>4 DEF TooLarge
<1>12. \A i \in DOMAIN <<none>> : <<none>>[i] = none
  OBVIOUS
<1> QED  BY <1>1, <1>2, <1>10, <1>11, <1>12

(* build_index_pages packs entries that each fit a leaf into leaves, which *)
(* then have them all.                                                     *)
LEMMA LeafLevel ==
    ASSUME NEW S \in Seq(EncodedEntry), KeysRise(S),
           \A i \in DOMAIN S : ~NoRoom(PageHeader, EntryLen(S[i].key))
    PROVE  /\ Grown(S, LeafPages(LeafGroups(S)), LeafRefs(LeafGroups(S)))
           /\ \A i \in DOMAIN LeafPages(LeafGroups(S)) :
                 ~TooLarge(LeafPages(LeafGroups(S))[i])
<1>1. CASE S = <<>>
  BY <1>1, EmptyLeaf
<1>2. CASE S # <<>>
  <2> DEFINE n == Len(S)
             costs == [i \in DOMAIN S |-> EntryLen(S[i].key)]
             starts == Starts(costs, costs)
             m == Len(starts)
             a(g) == starts[g]
             b(g) == LastOf(n, starts, g)
             groups == Groups(S, starts)
             B == LeafPages(groups)
             refs == LeafRefs(groups)
             lo == [id \in 0..(m - 1) |-> a(id + 1)]
             hi == [id \in 0..(m - 1) |-> b(id + 1)]
  <2>1. n \in Nat \ {0} /\ DOMAIN S = 1..n
    BY <1>2
  <2>2. ASSUME NEW i \in 1..n
        PROVE  /\ S[i] \in EncodedEntry /\ S[i].key \in Seq(Bytes) /\ costs[i] \in Nat
               /\ costs[i] = EntryLen(S[i].key) /\ PageHeader + costs[i] <= PageSize
    <3>1. S[i] \in EncodedEntry /\ i \in DOMAIN S
      BY <2>1
    <3>2. S[i].key \in Seq(Bytes)
      BY <3>1 DEF EncodedEntry
    <3>3. costs[i] = EntryLen(S[i].key) /\ costs[i] \in Nat
      BY <3>1, <3>2 DEF EntryLen
    <3>4. ~(PageHeader + costs[i] > PageSize)
      BY <3>1, <3>3 DEF NoRoom
    <3> HIDE DEF costs
    <3> QED  BY <3>1, <3>2, <3>3, <3>4, FileAssumption
  <2>3. costs \in Lens(n)
    <3>1. costs = [i \in 1..n |-> costs[i]]
      BY <2>1
    <3> HIDE DEF costs
    <3> QED  BY <2>2, <3>1 DEF Lens
  <2>c. LeafGroups(S) = groups
    BY DEF LeafGroups
  <2> HIDE DEF costs
  <2>4. PICK total : Sums(n, costs, total)
    BY <2>1, <2>3, SumsExist
  <2>5. /\ Packed(n, starts)
        /\ \A g \in 1..m : Filled(costs, total, a(g), b(g)) <= PageSize
    <3> HIDE DEF n
    <3> QED  BY <2>1, <2>2, <2>3, <2>4, PackingFits
  <2> HIDE DEF starts
  <2>n. n = Len(S)
    OBVIOUS
  <2>6. /\ m \in Nat \ {0} /\ Len(groups) = m /\ DOMAIN groups = 1..m
        /\ a(1) = 1 /\ b(m) = n
        /\ \A g \in 1..m :
              /\ a(g) \in 1..n /\ b(g) \in a(g)..n
              /\ groups[g] = SubSeq(S, a(g), b(g))
              /\ g # m => b(g) # n /\ g + 1 \in 1..m /\ a(g + 1) = b(g) + 1
    <3> HIDE DEF n, m, a, b, groups
    <3>1. /\ Len(starts) \in Nat \ {0} /\ Len(Groups(S, starts)) = Len(starts)
          /\ DOMAIN Groups(S, starts) = 1..Len(starts)
          /\ starts[1] = 1 /\ LastOf(n, starts, Len(starts)) = n
          /\ \A g \in 1..Len(starts) :
                /\ starts[g] \in 1..n /\ LastOf(n, starts, g) \in starts[g]..n
                /\ Groups(S, starts)[g] = SubSeq(S, starts[g], LastOf(n, starts, g))
                /\ g # Len(starts) =>
                      /\ LastOf(n, starts, g) # n /\ g + 1 \in 1..Len(starts)
                      /\ starts[g + 1] = LastOf(n, starts, g) + 1
      <4>1. S \in Seq(EncodedEntry) /\ n \in Nat \ {0} /\ Packed(n, starts)
        BY <2>1, <2>5
      <4> QED  BY <2>n, <4>1, GroupsFollow
    <3> QED  BY <3>1, Zenon DEF m, a, b, groups
  <2> HIDE DEF groups, m, a, b, n
  <2>7. /\ B = [g \in 1..m |-> LeafPage(groups[g], NextLeaf(groups, g))]
        /\ refs = [g \in 1..m |-> PageRef(g - 1, groups[g][1].key)]
    <3>1. groups # <<>>
      BY <2>6
    <3> QED  BY <2>6, <3>1 DEF LeafPages, LeafRefs
  <2> HIDE DEF B, refs
  <2>8. ASSUME NEW g \in 1..m
        PROVE  /\ groups[g] \in Seq(EncodedEntry) /\ Len(groups[g]) = b(g) - a(g) + 1
               /\ groups[g][1] = S[a(g)]
               /\ \A k \in 1..(b(g) - a(g) + 1) : groups[g][k] = S[a(g) + k - 1]
    <3> DEFINE x == a(g)
               y == b(g)
    <3>1. x \in 1..n /\ y \in x..n /\ groups[g] = SubSeq(S, x, y)
      BY <2>6
    <3> HIDE DEF x, y
    <3>2. /\ SubSeq(S, x, y) \in Seq(EncodedEntry) /\ Len(SubSeq(S, x, y)) = y - x + 1
          /\ SubSeq(S, x, y)[1] = S[x]
          /\ \A k \in 1..(y - x + 1) : SubSeq(S, x, y)[k] = S[x + k - 1]
      BY <2>1, <3>1
    <3> QED  BY <3>1, <3>2 DEF x, y
  <2>9. ASSUME NEW g \in 1..m
        PROVE  /\ B[g] \in AnyPage
               /\ B[g] = LeafPage(SubSeq(S, a(g), b(g)), IF b(g) = n THEN NoPage ELSE g)
               /\ ~TooLarge(B[g])
    <3>1. NextLeaf(groups, g) = IF b(g) = n THEN NoPage ELSE g
      <4>1. b(g) = n <=> g = m
        BY <2>6
      <4>2. g < m <=> g # m
        <5>1. m \in Nat
          BY <2>6
        <5> QED  BY <5>1
      <4> QED  BY <2>6, <4>1, <4>2 DEF NextLeaf
    <3>2. B[g] = LeafPage(groups[g], IF b(g) = n THEN NoPage ELSE g)
      BY <2>7, <3>1
    <3>3. B[g] \in AnyPage
      BY <2>8, <3>2 DEF LeafPage, AnyPage, NoPage
    <3>4. Items(B[g]) = groups[g]
      BY <3>2 DEF Items, LeafPage
    <3> DEFINE x == a(g)
               y == b(g)
               page == B[g]
    <3>5. x \in 1..n /\ y \in x..n /\ x - 1 \in 0..n /\ y \in (x - 1)..n
      <4>1. x \in 1..n /\ y \in x..n
        BY <2>6
      <4> HIDE DEF x, y
      <4> QED  BY <2>1, <4>1
    <3>6. Len(Items(page)) = y - (x - 1)
      <4>1. Len(Items(page)) = y - x + 1
        BY <2>8, <3>4
      <4> HIDE DEF x, y, page
      <4> QED  BY <3>5, <4>1
    <3>7. ASSUME NEW k \in 1..(y - (x - 1))
          PROVE  EntryLen(Items(page)[k].key) = costs[(x - 1) + k]
      <4>1. k \in 1..(y - x + 1) /\ x + k - 1 = (x - 1) + k /\ (x - 1) + k \in 1..n
        <5> HIDE DEF x, y
        <5> QED  BY <2>1, <3>5
      <4>2. Items(page)[k] = S[x + k - 1]
        BY <2>8, <3>4, <4>1
      <4>3. costs[(x - 1) + k] = EntryLen(S[(x - 1) + k].key)
        <5> HIDE DEF x
        <5> QED  BY <2>2, <4>1
      <4> QED  BY <4>1, <4>2, <4>3
    <3>8. UsedLen(page) = PageHeader + (total[y] - total[x - 1])
      <4> HIDE DEF x, y, page
      <4> DEFINE u == x - 1
      <4>1. /\ n \in Nat /\ u \in 0..n /\ y \in u..n /\ Len(Items(page)) = y - u
            /\ \A k \in 1..(y - u) : EntryLen(Items(page)[k].key) = costs[u + k]
        BY <2>1, <3>5, <3>6, <3>7
      <4> HIDE DEF u
      <4>2. UsedLen(page) = PageHeader + (total[y] - total[u])
        BY <2>3, <2>4, <4>1, PageLength
      <4> QED  BY <4>2 DEF u
    <3>9. Filled(costs, total, x, y) <= PageSize
      BY <2>5
    <3>10. UsedLen(page) = Filled(costs, total, x, y)
      <4> HIDE DEF x, y, page
      <4>1. total[x] = total[x - 1] + costs[x] /\ total[x] \in Nat /\ total[x - 1] \in Nat
            /\ total[y] \in Nat /\ costs[x] \in Nat
        <5>1. total \in [0..n -> Nat] /\ total[x] = total[x - 1] + costs[x]
          BY <2>4, <3>5 DEF Sums
        <5>2. y \in 0..n /\ x \in 0..n
          BY <2>1, <3>5
        <5>3. costs[x] \in Nat
          BY <2>2, <3>5
        <5> QED  BY <3>5, <5>1, <5>2, <5>3
      <4>2. \A h, p, q, r, c \in Nat : q = p + c => h + (r - p) = h + c + (r - q)
        OBVIOUS
      <4>p. PageHeader \in Nat
        BY FileAssumption
      <4>3. PageHeader + (total[y] - total[x - 1])
               = PageHeader + costs[x] + (total[y] - total[x])
        <5> DEFINE p == total[x - 1]
                   q == total[x]
                   r == total[y]
        <5>1. q = p + costs[x] /\ p \in Nat /\ q \in Nat /\ r \in Nat /\ costs[x] \in Nat
          BY <4>1
        <5> HIDE DEF p, q, r
        <5>2. PageHeader + (r - p) = PageHeader + costs[x] + (r - q)
          BY <4>p, <4>2, <5>1, SMTT(60)
        <5> QED  BY <5>2 DEF p, q, r
      <4> QED  BY <3>8, <4>3, Zenon DEF Filled
    <3>11. ~TooLarge(B[g])
      <4>1. UsedLen(page) \in Int /\ UsedLen(page) <= PageSize /\ PageSize \in Int
        <5> HIDE DEF x, y, page
        <5>1. total[x - 1] \in Nat /\ total[y] \in Nat
          BY <2>4, <3>5 DEF Sums
        <5> QED  BY <3>8, <3>9, <3>10, <5>1, FileAssumption
      <4> HIDE DEF page
      <4>2. ~(UsedLen(page) > PageSize)
        BY <4>1
      <4> QED  BY <4>2 DEF TooLarge, page
    <3> QED  BY <2>6, <3>2, <3>3, <3>11
  <2>10. B \in Seq(AnyPage) /\ Len(B) = m /\ DOMAIN B = 1..m /\ B # <<>>
    <3>1. \A g \in 1..m : B[g] \in AnyPage
      BY <2>9
    <3>2. m \in Nat \ {0} /\ B = [g \in 1..m |-> B[g]]
      BY <2>6, <2>7
    <3> QED  BY <3>1, <3>2, SMTT(60)
  <2>11. ASSUME NEW id \in 0..(m - 1)
         PROVE  id + 1 \in 1..m /\ lo[id] = a(id + 1) /\ hi[id] = b(id + 1)
    BY <2>6
  <2>12. Spans(S, m, lo, hi)
    <3>1. ASSUME NEW id \in 0..(m - 1)
          PROVE  /\ lo[id] \in Nat /\ hi[id] \in Nat /\ 1 <= lo[id] /\ lo[id] <= hi[id] + 1
                 /\ hi[id] <= n /\ lo[id] <= hi[id]
      <4> DEFINE g == id + 1
      <4>1. g \in 1..m /\ lo[id] = a(g) /\ hi[id] = b(g)
        BY <2>11
      <4> HIDE DEF g, lo, hi
      <4>2. a(g) \in 1..n /\ b(g) \in a(g)..n /\ n \in Nat
        BY <2>1, <2>6, <4>1
      <4> QED  BY <4>1, <4>2
    <3>2. lo \in [0..(m - 1) -> Nat] /\ hi \in [0..(m - 1) -> Nat]
      BY <3>1
    <3> HIDE DEF lo, hi
    <3> QED  BY <2>n, <3>1, <3>2 DEF Spans
  <2>13. ASSUME NEW id \in 0..(m - 1) PROVE LeafAt(S, B, lo, hi, id)
    <3> DEFINE g == id + 1
    <3>1. g \in 1..m /\ lo[id] = a(g) /\ hi[id] = b(g)
      BY <2>11
    <3>2. B[g] = LeafPage(SubSeq(S, a(g), b(g)), IF b(g) = n THEN NoPage ELSE g)
      BY <2>9, <3>1
    <3>3. ASSUME b(g) # n
          PROVE  /\ g \in 0..(Len(B) - 1) /\ B[g + 1].kind = "leaf" /\ lo[g] = b(g) + 1
      <4>1. g # m /\ g + 1 \in 1..m /\ a(g + 1) = b(g) + 1
        BY <2>6, <3>1, <3>3
      <4>2. g \in 0..(m - 1)
        BY <2>6, <4>1
      <4>3. B[g + 1].kind = "leaf"
        BY <2>7, <4>1 DEF LeafPage
      <4> QED  BY <2>10, <2>11, <4>1, <4>2, <4>3
    <3> HIDE DEF lo, hi
    <3> QED  BY <2>n, <3>1, <3>2, <3>3 DEF LeafAt
  <2> HIDE DEF lo, hi
  <2>14. Forest(S, B, lo, hi)
    BY <2>10, <2>12, <2>13 DEF Forest
  <2>15. /\ refs \in Seq(PageRefs) /\ refs # <<>> /\ Len(refs) = m
         /\ \A i \in 1..m : refs[i].page_id = i - 1 /\ refs[i].first_key = S[a(i)].key
    <3>1. ASSUME NEW i \in 1..m
          PROVE  /\ refs[i].page_id = i - 1 /\ refs[i].first_key = S[a(i)].key
                 /\ refs[i] \in PageRefs
      <4>1. refs[i] = PageRef(i - 1, S[a(i)].key)
        BY <2>7, <2>8
      <4>2. S[a(i)].key \in Seq(Bytes) /\ i - 1 \in Nat
        <5>1. a(i) \in 1..n
          BY <2>6
        <5> QED  BY <2>2, <5>1
      <4> QED  BY <4>1, <4>2 DEF PageRef, PageRefs
    <3>2. m \in Nat \ {0} /\ refs = [i \in 1..m |-> refs[i]]
      BY <2>6, <2>7
    <3> QED  BY <3>1, <3>2
  <2>16. Row(S, lo, hi, Len(B), refs)
    <3>1. ASSUME NEW i \in 1..m
          PROVE  /\ refs[i].page_id \in 0..(m - 1) /\ lo[refs[i].page_id] = a(i)
                 /\ hi[refs[i].page_id] = b(i)
      <4>1. i - 1 \in 0..(m - 1) /\ (i - 1) + 1 = i
        BY <2>6
      <4> QED  BY <2>11, <2>15, <4>1
    <3>2. ASSUME NEW i \in 1..(m - 1)
          PROVE  lo[refs[i + 1].page_id] = hi[refs[i].page_id] + 1
      <4>1. i \in 1..m /\ i # m /\ i + 1 \in 1..m
        BY <2>6
      <4>2. a(i + 1) = b(i) + 1
        BY <2>6, <4>1
      <4> QED  BY <3>1, <4>1, <4>2
    <3> QED  BY <2>10, <2>15, <3>1, <3>2 DEF Row
  <2>17. Covers(lo, hi, refs, 1, n)
    <3>1. 1 \in 1..m /\ m \in 1..m /\ 1 - 1 \in 0..(m - 1) /\ m - 1 \in 0..(m - 1)
          /\ (1 - 1) + 1 = 1 /\ (m - 1) + 1 = m
      BY <2>6
    <3>2. lo[refs[1].page_id] = a(1) /\ hi[refs[m].page_id] = b(m)
      BY <2>11, <2>15, <3>1
    <3> QED  BY <2>6, <2>15, <3>2 DEF Covers
  <2>18. Grown(S, B, refs)
    BY <1>2, <2>n, <2>10, <2>14, <2>16, <2>17 DEF Grown
  <2> QED  BY <2>c, <2>9, <2>10, <2>18 DEF B, refs
<1> QED  BY <1>1, <1>2

-----------------------------------------------------------------------------
(* A row, part of it, and a forest with more trees.                        *)
LEMMA RowSpans ==
    ASSUME NEW S, NEW B, NEW lo, NEW hi, Forest(S, B, lo, hi), S # <<>>,
           NEW refs, Row(S, lo, hi, Len(B), refs)
    PROVE  /\ refs \in Seq(PageRefs) /\ Len(refs) \in Nat \ {0} /\ Len(B) \in Nat
           /\ \A i \in 1..Len(refs) :
                 /\ refs[i] \in PageRefs
                 /\ refs[i].page_id \in 0..(Len(B) - 1) /\ refs[i].page_id \in Nat
                 /\ refs[i].first_key = S[lo[refs[i].page_id]].key
                 /\ refs[i].first_key \in Seq(Bytes)
                 /\ lo[refs[i].page_id] \in Nat /\ hi[refs[i].page_id] \in Nat
                 /\ 1 <= lo[refs[i].page_id] /\ lo[refs[i].page_id] <= hi[refs[i].page_id]
                 /\ hi[refs[i].page_id] <= Len(S)
           /\ \A i \in 1..(Len(refs) - 1) :
                 lo[refs[i + 1].page_id] = hi[refs[i].page_id] + 1
<1>1. refs \in Seq(PageRefs) /\ Len(refs) \in Nat \ {0} /\ Len(B) \in Nat
  BY DEF Row, Forest
<1>2. ASSUME NEW i \in 1..Len(refs)
      PROVE  /\ refs[i] \in PageRefs
             /\ refs[i].page_id \in 0..(Len(B) - 1) /\ refs[i].page_id \in Nat
             /\ refs[i].first_key = S[lo[refs[i].page_id]].key
             /\ refs[i].first_key \in Seq(Bytes)
             /\ lo[refs[i].page_id] \in Nat /\ hi[refs[i].page_id] \in Nat
             /\ 1 <= lo[refs[i].page_id] /\ lo[refs[i].page_id] <= hi[refs[i].page_id]
             /\ hi[refs[i].page_id] <= Len(S)
  <2>1. refs[i] \in PageRefs
    BY <1>1
  <2>2. refs[i].page_id \in 0..(Len(B) - 1) /\ refs[i].first_key = S[lo[refs[i].page_id]].key
    BY DEF Row
  <2> DEFINE id == refs[i].page_id
  <2>3. id \in 0..(Len(B) - 1)
    BY <2>2
  <2> HIDE DEF id
  <2>4. lo[id] \in Nat /\ hi[id] \in Nat /\ 1 <= lo[id] /\ lo[id] <= hi[id] /\ hi[id] <= Len(S)
    BY <2>3 DEF Forest, Spans
  <2> QED  BY <2>1, <2>2, <2>4 DEF id, PageRefs
<1>3. \A i \in 1..(Len(refs) - 1) : lo[refs[i + 1].page_id] = hi[refs[i].page_id] + 1
  BY DEF Row
<1> QED  BY <1>1, <1>2, <1>3

(* The spans of a row rise from one page to the next.                       *)
LEMMA RowRises ==
    ASSUME NEW S, NEW B, NEW lo, NEW hi, Forest(S, B, lo, hi), S # <<>>,
           NEW refs, Row(S, lo, hi, Len(B), refs),
           NEW a \in 1..Len(refs), NEW b \in a..Len(refs)
    PROVE  lo[refs[a].page_id] <= hi[refs[b].page_id]
<1> DEFINE k == Len(refs)
           f == [i \in 1..k |-> lo[refs[i].page_id]]
<1>1. /\ k \in Nat \ {0}
      /\ \A i \in 1..k : /\ lo[refs[i].page_id] \in Nat /\ hi[refs[i].page_id] \in Nat
                         /\ lo[refs[i].page_id] <= hi[refs[i].page_id]
      /\ \A i \in 1..(k - 1) : lo[refs[i + 1].page_id] = hi[refs[i].page_id] + 1
  <2>1. k \in Nat \ {0}
    BY RowSpans
  <2>2. ASSUME NEW i \in 1..k
        PROVE  /\ lo[refs[i].page_id] \in Nat /\ hi[refs[i].page_id] \in Nat
               /\ lo[refs[i].page_id] <= hi[refs[i].page_id]
    BY RowSpans
  <2>3. ASSUME NEW i \in 1..(k - 1) PROVE lo[refs[i + 1].page_id] = hi[refs[i].page_id] + 1
    BY RowSpans, SMTT(60)
  <2> QED  BY <2>1, <2>2, <2>3
<1>2. a \in 1..k /\ b \in a..k
  OBVIOUS
<1> HIDE DEF k
<1>3. f \in [1..k -> Int] /\ \A i \in 1..k : f[i] = lo[refs[i].page_id]
  BY <1>1
<1> HIDE DEF f
<1>4. ASSUME NEW i \in 1..(k - 1) PROVE f[i] <= f[i + 1]
  <2>1. i \in 1..k /\ i + 1 \in 1..k
    BY <1>1
  <2>2. f[i] = lo[refs[i].page_id] /\ f[i + 1] = lo[refs[i + 1].page_id]
    BY <1>3, <2>1
  <2>3. lo[refs[i + 1].page_id] = hi[refs[i].page_id] + 1
    BY <1>1
  <2>4. /\ lo[refs[i].page_id] \in Nat /\ hi[refs[i].page_id] \in Nat
        /\ lo[refs[i].page_id] <= hi[refs[i].page_id]
    BY <1>1, <2>1
  <2> QED  BY <2>2, <2>3, <2>4
<1>5. f[a] <= f[b]
  BY <1>1, <1>2, <1>3, <1>4, Rises
<1>6. b \in 1..k
  BY <1>1, <1>2
<1>7. /\ f[a] = lo[refs[a].page_id] /\ f[b] = lo[refs[b].page_id]
      /\ lo[refs[a].page_id] \in Nat /\ lo[refs[b].page_id] \in Nat
      /\ hi[refs[b].page_id] \in Nat /\ lo[refs[b].page_id] <= hi[refs[b].page_id]
  BY <1>1, <1>2, <1>3, <1>6
<1> QED  BY <1>5, <1>7

(* A part of a row is a row.                                                *)
LEMMA RowPart ==
    ASSUME NEW S, NEW lo, NEW hi, NEW n, NEW refs, Row(S, lo, hi, n, refs),
           NEW a \in 1..Len(refs), NEW b \in a..Len(refs)
    PROVE  /\ Row(S, lo, hi, n, SubSeq(refs, a, b))
           /\ SubSeq(refs, a, b) \in Seq(PageRefs)
           /\ Len(SubSeq(refs, a, b)) = b - a + 1
           /\ \A i \in 1..(b - a + 1) : SubSeq(refs, a, b)[i] = refs[a + i - 1]
           /\ Covers(lo, hi, SubSeq(refs, a, b), lo[refs[a].page_id], hi[refs[b].page_id])
<1> DEFINE s == SubSeq(refs, a, b)
<1>1. refs \in Seq(PageRefs) /\ Len(refs) \in Nat
  BY DEF Row
<1>2. /\ s \in Seq(PageRefs) /\ Len(s) = b - a + 1 /\ s # <<>>
      /\ \A i \in 1..(b - a + 1) : s[i] = refs[a + i - 1]
  BY <1>1
<1> HIDE DEF s
<1>3. ASSUME NEW i \in 1..Len(s)
      PROVE  /\ s[i].page_id \in 0..(n - 1)
             /\ S # <<>> => s[i].first_key = S[lo[s[i].page_id]].key
  <2>1. a + i - 1 \in 1..Len(refs) /\ s[i] = refs[a + i - 1]
    BY <1>1, <1>2
  <2> QED  BY <2>1 DEF Row
<1>4. ASSUME NEW i \in 1..(Len(s) - 1)
      PROVE  lo[s[i + 1].page_id] = hi[s[i].page_id] + 1
  <2>1. /\ a + i - 1 \in 1..(Len(refs) - 1) /\ a + (i + 1) - 1 = (a + i - 1) + 1
        /\ i \in 1..(b - a + 1) /\ i + 1 \in 1..(b - a + 1)
    BY <1>1, <1>2
  <2>2. s[i] = refs[a + i - 1] /\ s[i + 1] = refs[(a + i - 1) + 1]
    BY <1>2, <2>1
  <2>3. lo[refs[(a + i - 1) + 1].page_id] = hi[refs[a + i - 1].page_id] + 1
    BY <2>1 DEF Row
  <2> QED  BY <2>2, <2>3
<1>5. s[1] = refs[a] /\ s[Len(s)] = refs[b]
  <2>1. /\ 1 \in 1..(b - a + 1) /\ b - a + 1 \in 1..(b - a + 1)
        /\ a + 1 - 1 = a /\ a + (b - a + 1) - 1 = b
    BY <1>1
  <2> QED  BY <1>2, <2>1
<1>6. Row(S, lo, hi, n, s)
  BY <1>2, <1>3, <1>4 DEF Row
<1>7. Covers(lo, hi, s, lo[refs[a].page_id], hi[refs[b].page_id])
  BY <1>5 DEF Covers
<1> QED  BY <1>2, <1>6, <1>7 DEF s

(* A row stays one when later pages get their spans.                        *)
LEMMA RowKept ==
    ASSUME NEW S, NEW lo, NEW hi, NEW lo2, NEW hi2, NEW n \in Nat, NEW refs,
           Row(S, lo, hi, n, refs),
           \A id \in 0..(n - 1) : lo2[id] = lo[id] /\ hi2[id] = hi[id],
           NEW first, NEW last
    PROVE  /\ Row(S, lo2, hi2, n, refs)
           /\ Covers(lo, hi, refs, first, last) => Covers(lo2, hi2, refs, first, last)
<1>1. refs \in Seq(PageRefs) /\ refs # <<>> /\ Len(refs) \in Nat \ {0}
  BY DEF Row
<1>2. ASSUME NEW i \in 1..Len(refs)
      PROVE  /\ refs[i].page_id \in 0..(n - 1)
             /\ lo2[refs[i].page_id] = lo[refs[i].page_id]
             /\ hi2[refs[i].page_id] = hi[refs[i].page_id]
             /\ S # <<>> => refs[i].first_key = S[lo[refs[i].page_id]].key
  BY DEF Row
<1>3. ASSUME NEW i \in 1..(Len(refs) - 1)
      PROVE  lo2[refs[i + 1].page_id] = hi2[refs[i].page_id] + 1
  <2>1. i \in 1..Len(refs) /\ i + 1 \in 1..Len(refs)
    BY <1>1
  <2>2. lo[refs[i + 1].page_id] = hi[refs[i].page_id] + 1
    BY DEF Row
  <2> QED  BY <1>2, <2>1, <2>2
<1>4. 1 \in 1..Len(refs) /\ Len(refs) \in 1..Len(refs)
  BY <1>1
<1> QED  BY <1>1, <1>2, <1>3, <1>4 DEF Row, Covers

(* Internal pages over pages of the forest keep it a forest.                *)
LEMMA ForestGrows ==
    ASSUME NEW S, NEW B, NEW lo, NEW hi, Forest(S, B, lo, hi), S # <<>>,
           NEW C \in Seq(AnyPage), NEW lo2, NEW hi2,
           Spans(S, Len(B) + Len(C), lo2, hi2),
           \A id \in 0..(Len(B) - 1) : lo2[id] = lo[id] /\ hi2[id] = hi[id],
           \A j \in 1..Len(C) : InternalAt(S, B \o C, lo2, hi2, Len(B) + j - 1)
    PROVE  Forest(S, B \o C, lo2, hi2)
<1> DEFINE n == Len(B)
           D == B \o C
<1>1. /\ S \in Seq(EncodedEntry) /\ KeysRise(S) /\ B \in Seq(AnyPage) /\ n \in Nat
      /\ Len(C) \in Nat
  BY DEF Forest
<1>2. /\ D \in Seq(AnyPage) /\ Len(D) = n + Len(C)
      /\ \A i \in 1..n : D[i] = B[i]
  BY <1>1
<1> HIDE DEF D
<1>3. ASSUME NEW id \in 0..(n - 1), LeafAt(S, B, lo, hi, id) PROVE LeafAt(S, D, lo2, hi2, id)
  <2>1. D[id + 1] = B[id + 1] /\ lo2[id] = lo[id] /\ hi2[id] = hi[id]
    <3>1. id + 1 \in 1..n
      BY <1>1
    <3> QED  BY <1>2, <3>1
  <2>2. /\ B[id + 1] = LeafPage(SubSeq(S, lo[id], hi[id]),
                                IF hi[id] = Len(S) THEN NoPage ELSE id + 1)
        /\ hi[id] # Len(S) =>
              id + 1 \in 0..(n - 1) /\ B[(id + 1) + 1].kind = "leaf" /\ lo[id + 1] = hi[id] + 1
    BY <1>3 DEF LeafAt
  <2>3. ASSUME hi[id] # Len(S)
        PROVE  /\ id + 1 \in 0..(Len(D) - 1)
               /\ D[(id + 1) + 1].kind = "leaf" /\ lo2[id + 1] = hi2[id] + 1
    <3>1. id + 1 \in 0..(n - 1) /\ (id + 1) + 1 \in 1..n /\ id + 1 \in 0..(Len(D) - 1)
      BY <1>1, <1>2, <2>2, <2>3
    <3>2. D[(id + 1) + 1] = B[(id + 1) + 1] /\ lo2[id + 1] = lo[id + 1]
      BY <1>2, <3>1
    <3> QED  BY <2>1, <2>2, <2>3, <3>1, <3>2
  <2> QED  BY <2>1, <2>2, <2>3 DEF LeafAt
<1>4. ASSUME NEW id \in 0..(n - 1), InternalAt(S, B, lo, hi, id)
      PROVE  InternalAt(S, D, lo2, hi2, id)
  <2>1. PICK refs \in Seq(PageRefs) :
           /\ Row(S, lo, hi, id, refs) /\ Covers(lo, hi, refs, lo[id], hi[id])
           /\ B[id + 1] = InternalPage(refs)
    BY <1>4 DEF InternalAt
  <2>2. D[id + 1] = B[id + 1] /\ lo2[id] = lo[id] /\ hi2[id] = hi[id]
    <3>1. id + 1 \in 1..n
      BY <1>1
    <3> QED  BY <1>2, <3>1
  <2>3. id \in Nat /\ \A j \in 0..(id - 1) : lo2[j] = lo[j] /\ hi2[j] = hi[j]
    BY <1>1
  <2>4. Row(S, lo2, hi2, id, refs) /\ Covers(lo2, hi2, refs, lo2[id], hi2[id])
    BY <2>1, <2>2, <2>3, RowKept
  <2> QED  BY <2>1, <2>2, <2>4 DEF InternalAt
<1>5. ASSUME NEW id \in 0..(Len(D) - 1)
      PROVE  LeafAt(S, D, lo2, hi2, id) \/ InternalAt(S, D, lo2, hi2, id)
  <2>1. CASE id < n
    <3>1. id \in 0..(n - 1)
      BY <1>1, <2>1
    <3>2. LeafAt(S, B, lo, hi, id) \/ InternalAt(S, B, lo, hi, id)
      BY <3>1 DEF Forest
    <3> QED  BY <1>3, <1>4, <3>1, <3>2
  <2>2. CASE ~(id < n)
    <3> DEFINE j == id - n + 1
    <3>1. j \in 1..Len(C) /\ n + j - 1 = id
      BY <1>1, <1>2, <2>2
    <3> HIDE DEF j
    <3>2. InternalAt(S, D, lo2, hi2, n + j - 1)
      BY <3>1 DEF D
    <3> QED  BY <3>1, <3>2
  <2> QED  BY <2>1, <2>2
<1>6. Spans(S, Len(D), lo2, hi2)
  BY <1>2
<1>7. Forest(S, D, lo2, hi2)
  BY <1>1, <1>2, <1>5, <1>6 DEF Forest
<1> QED  BY <1>7 DEF D

(* A turn of the loop of build_index_pages packs what is on top of a       *)
(* forest into fewer pages, which then are on top.                         *)
LEMMA InternalLevel ==
    ASSUME NEW S, S # <<>>, NEW B, NEW refs, Grown(S, B, refs), Len(refs) > 1,
           \A i \in 2..Len(refs) : ~NoRoom(PageHeader, EntryLen(refs[i].first_key))
    PROVE  /\ Grown(S, B \o InternalPages(InternalGroups(refs)),
                    InternalRefs(InternalGroups(refs), Len(B)))
           /\ Len(InternalRefs(InternalGroups(refs), Len(B))) < Len(refs)
           /\ InternalPages(InternalGroups(refs)) \in Seq(AnyPage)
           /\ \A i \in DOMAIN InternalPages(InternalGroups(refs)) :
                 ~TooLarge(InternalPages(InternalGroups(refs))[i])
<1>1. PICK lo, hi : /\ Forest(S, B, lo, hi) /\ Row(S, lo, hi, Len(B), refs)
                    /\ Covers(lo, hi, refs, 1, Len(S))
  BY DEF Grown
<1> DEFINE n == Len(B)
           k == Len(refs)
           zeros == [i \in DOMAIN refs |-> 0]
           costs == SeparatorLens(refs)
           starts == Starts(zeros, costs)
           m == Len(starts)
           a(g) == starts[g]
           b(g) == LastOf(k, starts, g)
           groups == Groups(refs, starts)
           C == InternalPages(groups)
           tops == InternalRefs(groups, n)
<1>2. /\ S \in Seq(EncodedEntry) /\ KeysRise(S) /\ B \in Seq(AnyPage) /\ B # <<>>
      /\ n \in Nat \ {0} /\ n = Len(B)
  BY DEF Grown
<1>3. /\ refs \in Seq(PageRefs) /\ k \in Nat \ {0} /\ k > 1 /\ DOMAIN refs = 1..k /\ k = Len(refs)
  <2>1. refs \in Seq(PageRefs)
    BY <1>1, RowSpans
  <2> QED  BY <2>1
<1>4. ASSUME NEW i \in 1..k
      PROVE  /\ refs[i] \in PageRefs /\ refs[i].page_id \in 0..(n - 1) /\ refs[i].page_id \in Nat
             /\ refs[i].first_key \in Seq(Bytes)
             /\ refs[i].first_key = S[lo[refs[i].page_id]].key
             /\ lo[refs[i].page_id] \in Nat /\ hi[refs[i].page_id] \in Nat
             /\ 1 <= lo[refs[i].page_id] /\ hi[refs[i].page_id] <= Len(S)
  BY <1>1, RowSpans
<1>5. ASSUME NEW i \in 1..(k - 1) PROVE lo[refs[i + 1].page_id] = hi[refs[i].page_id] + 1
  BY <1>1, RowSpans
<1> HIDE DEF n, k
<1>6. /\ zeros \in Lens(k) /\ costs \in Lens(k) /\ \A i \in 1..k : zeros[i] = 0
      /\ \A i \in 1..k : costs[i] = EntryLen(refs[i].first_key)
  <2>1. ASSUME NEW i \in 1..k
        PROVE  EntryLen(refs[i].first_key) \in Nat
    BY <1>4 DEF EntryLen
  <2>2. costs = [i \in 1..k |-> EntryLen(refs[i].first_key)] /\ zeros = [i \in 1..k |-> 0]
    BY <1>3 DEF SeparatorLens
  <2> HIDE DEF zeros, costs
  <2> QED  BY <2>1, <2>2 DEF Lens
<1>7. InternalGroups(refs) = groups
  BY DEF InternalGroups
<1> HIDE DEF zeros, costs
<1>8. PICK total : Sums(k, costs, total)
  BY <1>3, <1>6, SumsExist
<1>9. /\ Packed(k, starts)
      /\ \A g \in 1..m : Filled(zeros, total, a(g), b(g)) <= PageSize
  <2>1. ASSUME NEW i \in 1..k PROVE PageHeader + zeros[i] <= PageSize
    BY <1>6, FileAssumption
  <2> QED  BY <1>3, <1>6, <1>8, <2>1, PackingFits
<1>10. m < k
  <2>1. ASSUME NEW i \in 2..k PROVE ~NoRoom(PageHeader, costs[i])
    BY <1>3, <1>6
  <2> QED  BY <1>3, <1>6, <2>1, PackingShrinks
<1> HIDE DEF starts
<1>11. /\ m \in Nat \ {0} /\ Len(groups) = m /\ DOMAIN groups = 1..m
       /\ a(1) = 1 /\ b(m) = k
       /\ \A g \in 1..m :
             /\ a(g) \in 1..k /\ b(g) \in a(g)..k
             /\ groups[g] = SubSeq(refs, a(g), b(g))
             /\ g # m => g + 1 \in 1..m /\ a(g + 1) = b(g) + 1
  <2> HIDE DEF m, a, b, groups
  <2>1. /\ Len(starts) \in Nat \ {0} /\ Len(Groups(refs, starts)) = Len(starts)
        /\ DOMAIN Groups(refs, starts) = 1..Len(starts)
        /\ starts[1] = 1 /\ LastOf(k, starts, Len(starts)) = k
        /\ \A g \in 1..Len(starts) :
              /\ starts[g] \in 1..k /\ LastOf(k, starts, g) \in starts[g]..k
              /\ Groups(refs, starts)[g] = SubSeq(refs, starts[g], LastOf(k, starts, g))
              /\ g # Len(starts) =>
                    /\ g + 1 \in 1..Len(starts)
                    /\ starts[g + 1] = LastOf(k, starts, g) + 1
    <3>1. k \in Nat \ {0} /\ Packed(k, starts)
      BY <1>3, <1>9
    <3> QED  BY <1>3, <3>1, GroupsFollow
  <2> QED  BY <2>1, Zenon DEF m, a, b, groups
<1> HIDE DEF groups, m, a, b
<1>nm. n \in Nat \ {0} /\ m \in Nat \ {0}
  BY <1>2, <1>11
<1>12. /\ C = [g \in 1..m |-> InternalPage(groups[g])]
       /\ tops = [g \in 1..m |-> PageRef(n + g - 1, groups[g][1].first_key)]
  BY <1>11 DEF InternalPages, InternalRefs
<1> HIDE DEF C, tops
<1>13. ASSUME NEW g \in 1..m
       PROVE  /\ Row(S, lo, hi, n, groups[g]) /\ groups[g] \in Seq(PageRefs)
              /\ Len(groups[g]) = b(g) - a(g) + 1
              /\ \A i \in 1..(b(g) - a(g) + 1) : groups[g][i] = refs[a(g) + i - 1]
              /\ groups[g][1] = refs[a(g)]
              /\ Covers(lo, hi, groups[g], lo[refs[a(g)].page_id], hi[refs[b(g)].page_id])
  <2> DEFINE x == a(g)
             y == b(g)
  <2>1. x \in 1..k /\ y \in x..k /\ groups[g] = SubSeq(refs, x, y)
    BY <1>11
  <2>2. Row(S, lo, hi, n, refs)
    BY <1>1, <1>2
  <2> HIDE DEF x, y
  <2>3. x \in 1..Len(refs) /\ y \in x..Len(refs)
    BY <1>3, <2>1
  <2>4. /\ Row(S, lo, hi, n, SubSeq(refs, x, y))
        /\ SubSeq(refs, x, y) \in Seq(PageRefs)
        /\ Len(SubSeq(refs, x, y)) = y - x + 1
        /\ \A i \in 1..(y - x + 1) : SubSeq(refs, x, y)[i] = refs[x + i - 1]
        /\ Covers(lo, hi, SubSeq(refs, x, y), lo[refs[x].page_id], hi[refs[y].page_id])
    BY <2>2, <2>3, RowPart
  <2>5. 1 \in 1..(y - x + 1) /\ x + 1 - 1 = x
    BY <1>3, <2>1
  <2>6. SubSeq(refs, x, y)[1] = refs[x]
    BY <2>4, <2>5
  <2> QED  BY <2>1, <2>4, <2>6 DEF x, y
<1>14. ASSUME NEW g \in 1..m
       PROVE  C[g] = InternalPage(groups[g]) /\ C[g] \in AnyPage /\ ~TooLarge(C[g])
  <2> DEFINE s == groups[g]
             x == a(g)
             y == b(g)
             page == C[g]
  <2>1. page = InternalPage(s)
    BY <1>12
  <2>2. x \in 1..k /\ y \in x..k /\ x \in 0..k /\ y \in Nat /\ k \in Nat
    <3>1. x \in 1..k /\ y \in x..k
      BY <1>11
    <3> HIDE DEF x, y
    <3> QED  BY <1>3, <3>1
  <2>3. s \in Seq(PageRefs) /\ Len(s) = y - x + 1 /\ \A i \in 1..(y - x + 1) : s[i] = refs[x + i - 1]
    BY <1>13
  <2> HIDE DEF s, x, y, page
  <2>4. s[1] \in PageRefs /\ \A i \in 1..(y - x) : s[i + 1] = refs[x + i] /\ s[i + 1] \in PageRefs
    <3>1. 1 \in 1..Len(s)
      BY <2>2, <2>3
    <3>2. ASSUME NEW i \in 1..(y - x) PROVE s[i + 1] = refs[x + i] /\ s[i + 1] \in PageRefs
      <4>1. i + 1 \in 1..(y - x + 1) /\ x + (i + 1) - 1 = x + i /\ i + 1 \in 1..Len(s)
        BY <2>2, <2>3
      <4> QED  BY <2>3, <4>1
    <3> QED  BY <2>3, <3>1, <3>2
  <2>5. Separators(s) = [i \in 1..(y - x) |-> [key |-> s[i + 1].first_key, child |-> s[i + 1].page_id]]
    <3>1. Len(s) - 1 = y - x
      BY <2>2, <2>3
    <3> QED  BY <3>1 DEF Separators
  <2>6. /\ Separators(s) \in Seq([key : Seq(Bytes), child : Nat]) /\ Len(Separators(s)) = y - x
        /\ \A i \in 1..(y - x) : Separators(s)[i].key = refs[x + i].first_key
    <3>1. ASSUME NEW i \in 1..(y - x)
          PROVE  [key |-> s[i + 1].first_key, child |-> s[i + 1].page_id]
                    \in [key : Seq(Bytes), child : Nat]
      BY <2>4 DEF PageRefs
    <3>2. y - x \in Nat
      BY <2>2
    <3>3. ASSUME NEW i \in 1..(y - x) PROVE Separators(s)[i].key = refs[x + i].first_key
      BY <2>4, <2>5
    <3> HIDE DEF s
    <3>4. Separators(s) \in Seq([key : Seq(Bytes), child : Nat]) /\ Len(Separators(s)) = y - x
      <4> DEFINE e == [i \in 1..(y - x) |-> [key |-> s[i + 1].first_key, child |-> s[i + 1].page_id]]
      <4>1. \A i \in 1..(y - x) : e[i] \in [key : Seq(Bytes), child : Nat]
        BY <3>1
      <4>2. e = [i \in 1..(y - x) |-> e[i]] /\ Separators(s) = e
        BY <2>5
      <4> DEFINE T == [key : Seq(Bytes), child : Nat]
                 d == y - x
      <4>3. d \in Nat /\ e = [i \in 1..d |-> e[i]] /\ \A i \in 1..d : e[i] \in T
        BY <3>2, <4>1, <4>2
      <4> HIDE DEF e, T, d
      <4>4. e \in Seq(T) /\ Len(e) = d
        BY <4>3
      <4> QED  BY <4>2, <4>4 DEF T, d
    <3> QED  BY <3>3, <3>4
  <2>7. page \in AnyPage
    BY <2>1, <2>4, <2>6 DEF InternalPage, AnyPage, PageRefs
  <2>8. Items(page) = Separators(s)
    BY <2>1 DEF Items, InternalPage
  <2>9. ASSUME NEW i \in 1..(y - x) PROVE EntryLen(Items(page)[i].key) = costs[x + i]
    <3>1. x + i \in 1..k
      BY <2>2
    <3> QED  BY <1>6, <2>6, <2>8, <3>1
  <2>10. UsedLen(page) = PageHeader + (total[y] - total[x])
    <3>1. Len(Items(page)) = y - x
      BY <2>6, <2>8
    <3>2. costs \in Lens(k) /\ Sums(k, costs, total)
      BY <1>6, <1>8
    <3> QED  BY <2>2, <2>9, <3>1, <3>2, PageLength, ZenonT(60)
  <2>11. ~TooLarge(page)
    <3>1. Filled(zeros, total, x, y) <= PageSize
      BY <1>9 DEF x, y
    <3>2. total[x] \in Nat /\ total[y] \in Nat
      <4>1. y \in 0..k
        BY <2>2
      <4> QED  BY <1>8, <2>2, <4>1 DEF Sums
    <3>3. zeros[x] = 0
      BY <1>6, <2>2
    <3>4. PageHeader + 0 + (total[y] - total[x]) <= PageSize
      BY <3>1, <3>3 DEF Filled
    <3>5. UsedLen(page) \in Int /\ UsedLen(page) <= PageSize
      BY <2>10, <3>2, <3>4, FileAssumption
    <3> QED  BY <3>5, FileAssumption DEF TooLarge
  <2> QED  BY <2>1, <2>7, <2>11 DEF page, s
<1>15. C \in Seq(AnyPage) /\ Len(C) = m /\ DOMAIN C = 1..m
  <2>1. C = [g \in 1..m |-> C[g]] /\ \A g \in 1..m : C[g] \in AnyPage
    BY <1>12, <1>14
  <2>2. m \in Nat
    BY <1>11
  <2> QED  BY <2>1, <2>2
<1>16. ASSUME NEW g \in 1..m
       PROVE  /\ tops[g].page_id = n + g - 1 /\ tops[g].first_key = refs[a(g)].first_key
              /\ tops[g] \in PageRefs
  <2>1. tops[g] = PageRef(n + g - 1, refs[a(g)].first_key)
    BY <1>12, <1>13
  <2>2. n + g - 1 \in Nat
    BY <1>2, <1>11
  <2>3. refs[a(g)].first_key \in Seq(Bytes)
    <3>1. a(g) \in 1..k
      BY <1>11
    <3> QED  BY <1>4, <3>1
  <2> QED  BY <2>1, <2>2, <2>3 DEF PageRef, PageRefs
<1>17. tops \in Seq(PageRefs) /\ Len(tops) = m /\ tops # <<>>
  <2>1. tops = [g \in 1..m |-> tops[g]] /\ \A g \in 1..m : tops[g] \in PageRefs
    BY <1>12, <1>16
  <2>2. m \in Nat \ {0}
    BY <1>11
  <2> QED  BY <2>1, <2>2
<1> DEFINE lo2 == [id \in 0..((n + m) - 1) |->
                      IF id < n THEN lo[id] ELSE lo[refs[a(id - n + 1)].page_id]]
           hi2 == [id \in 0..((n + m) - 1) |->
                      IF id < n THEN hi[id] ELSE hi[refs[b(id - n + 1)].page_id]]
<1>18. ASSUME NEW id \in 0..(n - 1)
       PROVE  id \in 0..((n + m) - 1) /\ lo2[id] = lo[id] /\ hi2[id] = hi[id]
  <2>1. id \in 0..((n + m) - 1) /\ id < n
    BY <1>nm
  <2> QED  BY <2>1
<1>19. ASSUME NEW g \in 1..m
       PROVE  /\ n + g - 1 \in 0..((n + m) - 1)
              /\ lo2[n + g - 1] = lo[refs[a(g)].page_id]
              /\ hi2[n + g - 1] = hi[refs[b(g)].page_id]
  <2> DEFINE id == n + g - 1
  <2>1. id \in 0..((n + m) - 1) /\ ~(id < n) /\ id - n + 1 = g
    BY <1>nm
  <2> HIDE DEF id
  <2>2. lo2[id] = lo[refs[a(g)].page_id] /\ hi2[id] = hi[refs[b(g)].page_id]
    BY <2>1
  <2> QED  BY <2>1, <2>2 DEF id
<1>20. /\ lo2 = [id \in 0..((n + m) - 1) |-> lo2[id]] /\ hi2 = [id \in 0..((n + m) - 1) |-> hi2[id]]
  OBVIOUS
<1> HIDE DEF lo2, hi2
<1>21. Spans(S, n + m, lo2, hi2)
  <2>1. ASSUME NEW id \in 0..((n + m) - 1)
        PROVE  /\ lo2[id] \in Nat /\ hi2[id] \in Nat /\ 1 <= lo2[id] /\ lo2[id] <= hi2[id]
               /\ hi2[id] <= Len(S)
    <3>1. CASE id < n
      <4>1. id \in 0..(n - 1)
        BY <1>2, <3>1
      <4>2. lo[id] \in Nat /\ hi[id] \in Nat /\ 1 <= lo[id] /\ lo[id] <= hi[id] /\ hi[id] <= Len(S)
        BY <1>1, <1>2, <4>1 DEF Forest, Spans
      <4> QED  BY <1>18, <4>1, <4>2
    <3>2. CASE ~(id < n)
      <4> DEFINE g == id - n + 1
      <4>1. g \in 1..m /\ n + g - 1 = id
        BY <1>2, <1>11, <3>2
      <4> HIDE DEF g
      <4> DEFINE x == a(g)
                 y == b(g)
      <4>2. x \in 1..k /\ y \in x..k /\ y \in 1..k
        <5>1. x \in 1..k /\ y \in x..k
          BY <1>11, <4>1
        <5> HIDE DEF x, y
        <5> QED  BY <1>3, <5>1
      <4>3. lo2[id] = lo[refs[x].page_id] /\ hi2[id] = hi[refs[y].page_id]
        BY <1>19, <4>1
      <4> HIDE DEF x, y
      <4>4. lo[refs[x].page_id] <= hi[refs[y].page_id]
        <5>1. x \in 1..Len(refs) /\ y \in x..Len(refs)
          BY <1>3, <4>2
        <5> QED  BY <1>1, <5>1, RowRises
      <4> QED  BY <1>4, <4>2, <4>3, <4>4
    <3> QED  BY <3>1, <3>2
  <2>2. lo2 \in [0..((n + m) - 1) -> Nat] /\ hi2 \in [0..((n + m) - 1) -> Nat]
    BY <1>20, <2>1
  <2>3. \A u, v \in Nat : u <= v => u <= v + 1
    OBVIOUS
  <2>4. ASSUME NEW id \in 0..((n + m) - 1) PROVE lo2[id] <= hi2[id] + 1
    BY <2>1, <2>3
  <2>5. ASSUME NEW id \in 0..((n + m) - 1)
        PROVE  /\ 1 <= lo2[id] /\ lo2[id] <= hi2[id] + 1 /\ hi2[id] <= Len(S)
               /\ S # <<>> => lo2[id] <= hi2[id]
    BY <2>1, <2>4
  <2> QED  BY <2>2, <2>5 DEF Spans
<1>22. ASSUME NEW g \in 1..m PROVE InternalAt(S, B \o C, lo2, hi2, n + g - 1)
  <2> DEFINE id == n + g - 1
             s == groups[g]
  <2>1. Row(S, lo, hi, n, s) /\ Covers(lo, hi, s, lo2[id], hi2[id]) /\ s \in Seq(PageRefs)
    BY <1>13, <1>19
  <2>2. n \in Nat /\ n <= id /\ id + 1 = n + g /\ id \in Nat
    BY <1>2, <1>11
  <2>3. Row(S, lo2, hi2, n, s) /\ Covers(lo2, hi2, s, lo2[id], hi2[id])
    <3> HIDE DEF id, s
    <3>1. \A j \in 0..(n - 1) : lo2[j] = lo[j] /\ hi2[j] = hi[j]
      BY <1>18
    <3> QED  BY <2>1, <2>2, <3>1, RowKept
  <2>4. (B \o C)[id + 1] = InternalPage(s)
    <3>1. (B \o C)[n + g] = C[g]
      <4>1. g \in 1..Len(C) /\ n \in Nat /\ n = Len(B) /\ B \in Seq(AnyPage) /\ C \in Seq(AnyPage)
        BY <1>2, <1>15
      <4> QED  BY <4>1
    <3> QED  BY <1>14, <2>2, <3>1
  <2>5. Row(S, lo2, hi2, id, s)
    <3> HIDE DEF id, s
    <3>1. ASSUME NEW i \in 1..Len(s) PROVE s[i].page_id \in 0..(id - 1)
      <4>1. s[i].page_id \in 0..(n - 1)
        BY <2>3 DEF Row
      <4> QED  BY <2>2, <4>1
    <3> QED  BY <2>3, <3>1 DEF Row
  <2> HIDE DEF id, s
  <2>6. InternalAt(S, B \o C, lo2, hi2, id)
    BY <2>1, <2>3, <2>4, <2>5 DEF InternalAt
  <2> QED  BY <2>6 DEF id
<1>23. Forest(S, B \o C, lo2, hi2)
  <2>1. Spans(S, Len(B) + Len(C), lo2, hi2)
    BY <1>2, <1>15, <1>21
  <2>2. \A id \in 0..(Len(B) - 1) : lo2[id] = lo[id] /\ hi2[id] = hi[id]
    BY <1>2, <1>18
  <2>3. \A j \in 1..Len(C) : InternalAt(S, B \o C, lo2, hi2, Len(B) + j - 1)
    BY <1>2, <1>15, <1>22
  <2> QED  BY <1>1, <1>15, <2>1, <2>2, <2>3, ForestGrows, ZenonT(60)
<1>24. B \o C \in Seq(AnyPage) /\ Len(B \o C) = n + m /\ B \o C # <<>>
  <2>1. B \in Seq(AnyPage) /\ C \in Seq(AnyPage) /\ n = Len(B) /\ m = Len(C)
    BY <1>2, <1>15
  <2>2. B \o C \in Seq(AnyPage) /\ Len(B \o C) = n + m
    BY <2>1
  <2>3. n + m # 0
    BY <1>nm
  <2> QED  BY <2>2, <2>3
<1>25. Row(S, lo2, hi2, Len(B \o C), tops)
  <2>1. ASSUME NEW g \in 1..m
        PROVE  /\ tops[g].page_id \in 0..((n + m) - 1)
               /\ lo2[tops[g].page_id] = lo[refs[a(g)].page_id]
               /\ hi2[tops[g].page_id] = hi[refs[b(g)].page_id]
               /\ tops[g].first_key = S[lo2[tops[g].page_id]].key
    <3>1. a(g) \in 1..k
      BY <1>11
    <3>2. refs[a(g)].first_key = S[lo[refs[a(g)].page_id]].key
      BY <1>4, <3>1
    <3> QED  BY <1>16, <1>19, <3>2
  <2>2. ASSUME NEW g \in 1..(m - 1)
        PROVE  lo2[tops[g + 1].page_id] = hi2[tops[g].page_id] + 1
    <3>1. g \in 1..m /\ g + 1 \in 1..m /\ g # m
      BY <1>11
    <3>2. a(g + 1) = b(g) + 1 /\ b(g) \in a(g)..k /\ a(g) \in 1..k /\ a(g + 1) \in 1..k
      BY <1>11, <3>1
    <3> DEFINE y == b(g)
    <3>3. y \in 1..(k - 1) /\ a(g + 1) = y + 1
      <4> DEFINE x == a(g)
                 z == a(g + 1)
      <4>1. z = y + 1 /\ y \in x..k /\ x \in 1..k /\ z \in 1..k
        BY <3>2
      <4> HIDE DEF x, y, z
      <4>2. y \in 1..(k - 1) /\ z = y + 1
        BY <1>3, <4>1
      <4> QED  BY <4>2 DEF z
    <3> HIDE DEF y
    <3>4. lo[refs[y + 1].page_id] = hi[refs[y].page_id] + 1
      BY <1>5, <3>3
    <3>5. lo2[tops[g + 1].page_id] = lo[refs[y + 1].page_id]
      BY <2>1, <3>1, <3>3
    <3>6. hi2[tops[g].page_id] = hi[refs[y].page_id]
      BY <2>1, <3>1 DEF y
    <3> QED  BY <3>4, <3>5, <3>6
  <2>3. Len(B \o C) = n + m /\ Len(tops) = m
    BY <1>17, <1>24
  <2> DEFINE N == n + m
  <2>4. ASSUME NEW g \in 1..Len(tops)
        PROVE  /\ tops[g].page_id \in 0..(N - 1)
               /\ S # <<>> => tops[g].first_key = S[lo2[tops[g].page_id]].key
    BY <2>1, <2>3
  <2>5. ASSUME NEW g \in 1..(Len(tops) - 1)
        PROVE  lo2[tops[g + 1].page_id] = hi2[tops[g].page_id] + 1
    BY <2>2, <2>3
  <2>6. Len(B \o C) = N
    BY <2>3
  <2> HIDE DEF N
  <2>7. Row(S, lo2, hi2, N, tops)
    BY <1>17, <2>4, <2>5 DEF Row
  <2> QED  BY <2>6, <2>7
<1>26. Covers(lo2, hi2, tops, 1, Len(S))
  <2>1. 1 \in 1..m /\ m \in 1..m /\ a(1) = 1 /\ b(m) = k
    BY <1>11
  <2>2. tops[1].page_id = n + 1 - 1 /\ tops[m].page_id = n + m - 1
    BY <1>16, <2>1
  <2>3. lo2[tops[1].page_id] = lo[refs[1].page_id] /\ hi2[tops[m].page_id] = hi[refs[k].page_id]
    BY <1>19, <2>1, <2>2
  <2>4. lo[refs[1].page_id] = 1 /\ hi[refs[k].page_id] = Len(S)
    BY <1>1, <1>3 DEF Covers
  <2> QED  BY <1>17, <2>3, <2>4 DEF Covers
<1>27. Grown(S, B \o C, tops)
  BY <1>2, <1>23, <1>24, <1>25, <1>26 DEF Grown
<1>28. \A i \in DOMAIN C : ~TooLarge(C[i])
  BY <1>14, <1>15
<1> QED  BY <1>2, <1>3, <1>7, <1>10, <1>15, <1>17, <1>27, <1>28 DEF C, tops

-----------------------------------------------------------------------------
(***************************************************************************)
(* The invariant of save_index: what it has sorted, built and written is   *)
(* that of the map it was called with, and a file it left can be loaded    *)
(* only when it is whole.                                                  *)
(***************************************************************************)
FilePages ==
    AnyPage \cup [kind : {"header"}, root : Nat, page_count : Nat, entry_count : Nat]

Saving ==
    /\ pc \in {"idle", "sort", "leaves", "build", "write"}
    /\ outcome \in {"none", "ok", "refused", "interrupted"}
    /\ torn \in BOOLEAN
    /\ entries \in Saves \cup {NoMap}
    /\ (pc = "idle") = (entries = NoMap)

(* Every key fits a page.                                                  *)
Fit(S) == \A i \in DOMAIN S : ~NoRoom(PageHeader, EntryLen(S[i].key))

Building ==
    /\ pc \in {"idle", "sort"} => sorted = <<>>
    /\ pc \in {"idle", "sort", "leaves"} => built = <<>> /\ level = <<>>
    /\ pc \in {"leaves", "build", "write"} =>
          sorted \in Seq(EncodedEntry) /\ KeysRise(sorted) /\ Listed(sorted, entries)
    /\ pc \in {"build", "write"} =>
          /\ Grown(sorted, built, level) /\ Fit(sorted)
          /\ \A i \in DOMAIN built : ~TooLarge(built[i])

Written ==
    /\ pages \in Seq(FilePages)
    /\ \A i \in 2..Len(pages) : ~TooLarge(pages[i])
    /\ pc = "write" =>
          /\ Len(level) = 1 /\ HeaderLen <= PageSize /\ ~torn
          /\ Len(pages) <= Len(Image) /\ \A i \in 1..Len(pages) : pages[i] = Image[i]
    /\ pc # "write" =>
          \/ ~HeaderOk(pages, torn)
          \/ ~torn /\ \E map \in Saves : WholeMap(pages, map)

FileInv == Saving /\ Building /\ Written

(* The pages to be written.                                                *)
HeaderOf(S, B, refs) ==
    [kind |-> "header", root |-> refs[1].page_id,
     page_count |-> Len(B), entry_count |-> Len(S)]

ImageOf(S, B, refs) == <<HeaderOf(S, B, refs)>> \o B

(* The pages of the image: the header, then those built.                    *)
LEMMA ImagePages ==
    ASSUME NEW S, NEW B, NEW refs, Grown(S, B, refs), Len(refs) = 1
    PROVE  /\ Len(B) \in Nat \ {0} /\ Len(ImageOf(S, B, refs)) = 1 + Len(B)
           /\ ImageOf(S, B, refs)[1] = HeaderOf(S, B, refs)
           /\ \A i \in 2..Len(ImageOf(S, B, refs)) :
                 i - 1 \in 1..Len(B) /\ ImageOf(S, B, refs)[i] = B[i - 1]
           /\ ImageOf(S, B, refs) \in Seq(FilePages)
           /\ \E lo, hi : Whole(ImageOf(S, B, refs), S, B, lo, hi)
<1> DEFINE header == HeaderOf(S, B, refs)
           P == ImageOf(S, B, refs)
<1>1. PICK lo, hi : /\ Forest(S, B, lo, hi) /\ Row(S, lo, hi, Len(B), refs)
                    /\ Covers(lo, hi, refs, 1, Len(S))
  BY DEF Grown
<1>2. B \in Seq(AnyPage) /\ Len(B) \in Nat \ {0} /\ S \in Seq(EncodedEntry) /\ Len(S) \in Nat
  BY DEF Grown
<1>3. refs[1].page_id \in 0..(Len(B) - 1) /\ lo[refs[1].page_id] = 1 /\ hi[refs[1].page_id] = Len(S)
  BY <1>1 DEF Row, Covers
<1>4. refs[1].page_id \in Nat
  BY <1>2, <1>3
<1>5. header \in FilePages
  BY <1>2, <1>4 DEF FilePages, HeaderOf
<1>6. B \in Seq(FilePages) /\ <<header>> \in Seq(FilePages) /\ Len(<<header>>) = 1
  <2>1. AnyPage \subseteq FilePages
    BY DEF FilePages
  <2>2. \A i \in 1..Len(B) : B[i] \in FilePages
    <3> HIDE DEF FilePages
    <3> QED  BY <1>2, <2>1
  <2>3. B = [i \in 1..Len(B) |-> B[i]]
    BY <1>2
  <2> HIDE DEF FilePages
  <2>4. B \in Seq(FilePages)
    <3> DEFINE n == Len(B)
    <3>1. n \in Nat /\ B = [i \in 1..n |-> B[i]] /\ \A i \in 1..n : B[i] \in FilePages
      BY <1>2, <2>2, <2>3
    <3> HIDE DEF n
    <3>2. B \in [1..n -> FilePages]
      BY <3>1
    <3> QED  BY <3>1, <3>2
  <2>5. <<header>> \in Seq(FilePages) /\ Len(<<header>>) = 1
    BY <1>5
  <2> QED  BY <2>4, <2>5
<1>7. /\ P \in Seq(FilePages) /\ Len(P) = 1 + Len(B) /\ P[1] = header
      /\ \A i \in 1..Len(B) : P[i + 1] = B[i]
  <2>1. P = <<header>> \o B
    BY DEF ImageOf
  <2> HIDE DEF P, header
  <2> QED  BY <1>6, <2>1
<1> HIDE DEF P
<1>8. ASSUME NEW i \in 2..Len(P) PROVE i - 1 \in 1..Len(B) /\ P[i] = B[i - 1]
  <2>1. i - 1 \in 1..Len(B) /\ (i - 1) + 1 = i
    BY <1>2, <1>7
  <2> QED  BY <1>7, <2>1
<1>9. ASSUME NEW id \in 0..(Len(B) - 1) PROVE P[id + 2] = B[id + 1]
  <2>1. id + 1 \in 1..Len(B) /\ (id + 1) + 1 = id + 2
    BY <1>2
  <2> QED  BY <1>7, <2>1
<1>10. /\ header.root = refs[1].page_id /\ header.page_count = Len(B)
       /\ header.entry_count = Len(S)
  BY DEF HeaderOf
<1> HIDE DEF header
<1>11. P # <<>>
  BY <1>2, <1>7
<1>12. Whole(P, S, B, lo, hi)
  BY <1>1, <1>2, <1>3, <1>7, <1>9, <1>10, <1>11 DEF Whole
<1> QED  BY <1>2, <1>7, <1>8, <1>12 DEF header, P

(* A file that is being written does not load before its last page is.     *)
LEMMA PartlyWritten ==
    ASSUME NEW P \in Seq(FilePages), NEW I, NEW n \in Nat \ {0},
           Len(I) = 1 + n, I[1].page_count = n, Len(P) < Len(I),
           \A i \in 1..Len(P) : P[i] = I[i], NEW partial
    PROVE  ~HeaderOk(P, partial)
<1> SUFFICES ASSUME HeaderOk(P, partial) PROVE FALSE
  OBVIOUS
<1>1. P # <<>> /\ Len(P) = 1 + P[1].page_count
  BY DEF HeaderOk
<1>2. Len(P) \in Nat \ {0}
  BY <1>1
<1>3. P[1] = I[1]
  BY <1>2
<1> QED  BY <1>1, <1>3

(* In the state of a save that writes.                                     *)
LEMMA WritingState ==
    ASSUME FileInv, pc = "write"
    PROVE  /\ entries \in Saves /\ ~torn /\ Len(pages) \in Nat
           /\ Len(Image) \in Nat \ {0} /\ Image \in Seq(FilePages)
           /\ \A i \in 2..Len(Image) : ~TooLarge(Image[i])
           /\ Len(pages) < Len(Image) => \A partial : ~HeaderOk(pages, partial)
           /\ \A P \in Seq(FilePages) :
                 Len(P) = Len(Image) /\ (\A i \in 1..Len(P) : P[i] = Image[i])
                     => WholeMap(P, entries)
           /\ Len(pages) = Len(Image) => WholeMap(pages, entries)
<1>1. /\ Grown(sorted, built, level) /\ Len(level) = 1 /\ ~torn
      /\ \A i \in DOMAIN built : ~TooLarge(built[i])
      /\ Listed(sorted, entries) /\ entries \in Saves
      /\ pages \in Seq(FilePages) /\ Len(pages) \in Nat /\ Len(pages) <= Len(Image)
      /\ \A i \in 1..Len(pages) : pages[i] = Image[i]
  <2>1. entries \in Saves
    BY DEF FileInv, Saving
  <2>2. pages \in Seq(FilePages) /\ Len(pages) \in Nat
    BY DEF FileInv, Written
  <2> QED  BY <2>1, <2>2 DEF FileInv, Building, Written
<1>2. /\ Len(built) \in Nat \ {0} /\ Len(Image) = 1 + Len(built)
      /\ Image[1] = Header
      /\ \A i \in 2..Len(Image) : i - 1 \in 1..Len(built) /\ Image[i] = built[i - 1]
      /\ Image \in Seq(FilePages)
      /\ \E lo, hi : Whole(Image, sorted, built, lo, hi)
  <2>1. Grown(sorted, built, level) /\ Len(level) = 1
    BY <1>1
  <2>2. Header = HeaderOf(sorted, built, level) /\ Image = ImageOf(sorted, built, level)
    BY DEF Header, HeaderOf, Image, ImageOf
  <2> QED  BY <2>1, <2>2, ImagePages
<1>3. ASSUME NEW i \in 2..Len(Image) PROVE ~TooLarge(Image[i])
  <2>1. built \in Seq(AnyPage)
    BY <1>1 DEF Grown
  <2>2. i - 1 \in DOMAIN built /\ Image[i] = built[i - 1]
    BY <1>2, <2>1
  <2> QED  BY <1>1, <2>2
<1>4. ASSUME Len(pages) < Len(Image), NEW partial PROVE ~HeaderOk(pages, partial)
  <2>1. Image[1].page_count = Len(built)
    BY <1>2 DEF Header
  <2> QED  BY <1>1, <1>2, <1>4, <2>1, PartlyWritten
<1>5. ASSUME NEW P \in Seq(FilePages), Len(P) = Len(Image), \A i \in 1..Len(P) : P[i] = Image[i]
      PROVE  WholeMap(P, entries)
  <2>1. P = Image
    BY <1>2, <1>5
  <2> QED  BY <1>1, <1>2, <2>1 DEF WholeMap
<1>6. Len(Image) \in Nat \ {0}
  BY <1>2
<1> QED  BY <1>1, <1>2, <1>3, <1>4, <1>5, <1>6

(* The invariant holds when no file is there.                               *)
LEMMA InitInv == Init => FileInv
<1> SUFFICES ASSUME Init PROVE FileInv
  OBVIOUS
<1>1. Saving
  BY DEF Init, Saving
<1>2. Building
  BY DEF Init, Building
<1>3. Written
  <2>1. pages = <<>> /\ torn = FALSE /\ pc = "idle"
    BY DEF Init
  <2>2. ~HeaderOk(pages, torn)
    BY <2>1 DEF HeaderOk
  <2>3. \A i \in 2..Len(pages) : FALSE
    BY <2>1
  <2> QED  BY <2>1, <2>2, <2>3 DEF Written
<1> QED  BY <1>1, <1>2, <1>3 DEF FileInv

(* What a step that leaves the file alone keeps of it.                     *)
LEMMA ReturnKeeps ==
    ASSUME FileInv, NEW result \in {"ok", "refused", "interrupted"}, Return(result),
           pc # "idle", pages' = pages, torn' \in BOOLEAN,
           \/ ~HeaderOk(pages, torn')
           \/ ~torn' /\ \E map \in Saves : WholeMap(pages, map)
    PROVE  FileInv'
<1>1. Saving'
  BY DEF FileInv, Saving, Return
<1>2. Building'
  BY DEF Return, Building
<1>3. Written'
  <2>1. pc' = "idle"
    BY DEF Return
  <2> QED  BY <2>1 DEF FileInv, Written
<1> QED  BY <1>1, <1>2, <1>3 DEF FileInv

-----------------------------------------------------------------------------
(* Separators are keys of the entries, so they fit where those do.         *)
LEMMA TopsFit ==
    ASSUME NEW S, NEW B, NEW refs, Grown(S, B, refs), Fit(S)
    PROVE  /\ refs \in Seq(PageRefs) /\ refs # <<>> /\ Len(refs) \in Nat \ {0}
           /\ \A i \in DOMAIN refs : refs[i].page_id \in 0..(Len(B) - 1)
           /\ Len(refs) > 1 =>
                 /\ S # <<>>
                 /\ \A i \in 2..Len(refs) : ~NoRoom(PageHeader, EntryLen(refs[i].first_key))
<1>1. PICK lo, hi : Forest(S, B, lo, hi) /\ Row(S, lo, hi, Len(B), refs)
  BY DEF Grown
<1>2. refs \in Seq(PageRefs) /\ refs # <<>> /\ Len(refs) \in Nat \ {0} /\ DOMAIN refs = 1..Len(refs)
  BY <1>1 DEF Row
<1>3. \A i \in DOMAIN refs : refs[i].page_id \in 0..(Len(B) - 1)
  BY <1>1, <1>2 DEF Row
<1>4. ASSUME Len(refs) > 1 PROVE S # <<>>
  <2>1. Len(refs) # 1
    BY <1>2, <1>4, SMTT(60)
  <2> QED  BY <2>1 DEF Grown
<1>5. ASSUME S # <<>>, NEW i \in 1..Len(refs)
      PROVE  ~NoRoom(PageHeader, EntryLen(refs[i].first_key))
  <2> DEFINE x == lo[refs[i].page_id]
  <2>1. /\ refs[i].first_key = S[x].key /\ x \in Nat /\ 1 <= x
        /\ x <= hi[refs[i].page_id] /\ hi[refs[i].page_id] <= Len(S)
        /\ hi[refs[i].page_id] \in Nat
    BY <1>1, <1>5, RowSpans
  <2> HIDE DEF x
  <2>2. S \in Seq(EncodedEntry)
    BY DEF Grown
  <2>3. x \in DOMAIN S
    BY <2>1, <2>2
  <2> QED  BY <2>1, <2>3 DEF Fit
<1>6. \A i \in 2..Len(refs) : i \in 1..Len(refs)
  BY <1>2
<1> QED  BY <1>2, <1>3, <1>4, <1>5, <1>6

(* save_index is refused only for a key or names that are too long.        *)
LEMMA SaveStep ==
    ASSUME FileInv, NEW map \in Saves, SaveIndex(map)
    PROVE  FileInv'
<1>1. Saving'
  <2>1. map # NoMap
    BY FileAssumption
  <2> QED  BY <2>1 DEF FileInv, Saving, SaveIndex
<1>2. Building'
  BY DEF FileInv, Building, SaveIndex
<1>3. Written'
  <2>1. pc # "write" /\ pc' # "write" /\ pages' = pages /\ torn' = torn
    BY DEF SaveIndex
  <2> QED  BY <2>1 DEF FileInv, Written
<1> QED  BY <1>1, <1>2, <1>3 DEF FileInv

(* Sorting the entries keeps the invariant.                                 *)
LEMMA SortStep ==
    ASSUME FileInv, SortEntries
    PROVE  /\ FileInv' /\ UNCHANGED <<pages, torn, entries, outcome>> /\ pc' = "leaves"
<1>1. pc = "sort" /\ entries \in Saves /\ pages' = pages /\ torn' = torn
  BY DEF SortEntries, file, FileInv, Saving
<1>2. /\ sorted' = SortedEntries(entries) /\ pc' = "leaves"
      /\ UNCHANGED <<entries, built, level, outcome>>
  BY <1>1, SortedList DEF SortEntries
<1>3. sorted' \in Seq(EncodedEntry) /\ Listed(sorted', entries) /\ KeysRise(sorted')
  BY <1>1, <1>2, SortedList
<1>4. Saving'
  BY <1>1, <1>2 DEF FileInv, Saving
<1>5. Building'
  BY <1>1, <1>2, <1>3 DEF FileInv, Building
<1>6. Written'
  BY <1>1, <1>2 DEF FileInv, Written
<1> QED  BY <1>1, <1>2, <1>4, <1>5, <1>6 DEF FileInv

(* A key does not fit a page.                                              *)
LEMMA NotFit ==
    ASSUME NEW S, NEW map, Listed(S, map), ~Fit(S)
    PROVE  \E p \in map : PageHeader + EntryLen(encode_key(p[1])) > PageSize
<1>1. PICK i \in DOMAIN S : NoRoom(PageHeader, EntryLen(S[i].key))
  BY DEF Fit
<1>2. PICK p \in map : S[i] = EntryOf(p)
  BY <1>1 DEF Listed
<1>3. S[i].key = encode_key(p[1])
  BY <1>2 DEF EntryOf
<1> QED  BY <1>1, <1>3 DEF NoRoom

(* The leaf level is a forest of the entries, or one is too long.           *)
LEMMA LeafStep ==
    ASSUME FileInv, BuildLeafLevel
    PROVE  /\ FileInv' /\ UNCHANGED file
           /\ \/ Return("refused") /\ pc # "idle" /\ TooLong(entries)
              \/ UNCHANGED <<entries, outcome>> /\ pc' = "build"
<1> DEFINE groups == LeafGroups(sorted)
           leaves == LeafPages(groups)
<1>1. /\ pc = "leaves" /\ sorted \in Seq(EncodedEntry) /\ KeysRise(sorted)
      /\ Listed(sorted, entries) /\ pages' = pages /\ torn' = torn /\ torn \in BOOLEAN
  BY DEF BuildLeafLevel, FileInv, Building, Saving, file
<1>2. \/ ~Fit(sorted) /\ Return("refused")
      \/ (\E i \in DOMAIN leaves : TooLarge(leaves[i])) /\ Return("refused")
      \/ /\ Fit(sorted) /\ built' = leaves /\ level' = LeafRefs(groups) /\ pc' = "build"
         /\ UNCHANGED <<entries, sorted, outcome>>
  BY DEF BuildLeafLevel, Fit
<1>3. Fit(sorted) => /\ Grown(sorted, leaves, LeafRefs(groups))
                     /\ \A i \in DOMAIN leaves : ~TooLarge(leaves[i])
  BY <1>1, LeafLevel DEF Fit
<1> HIDE DEF leaves, groups
<1>4. CASE ~Fit(sorted) /\ Return("refused")
  <2>1. \/ ~HeaderOk(pages, torn')
        \/ ~torn' /\ \E map \in Saves : WholeMap(pages, map)
    BY <1>1 DEF FileInv, Written
  <2>2. FileInv'
    BY <1>1, <1>4, <2>1, ReturnKeeps
  <2>3. TooLong(entries)
    BY <1>1, <1>4, NotFit DEF TooLong
  <2> QED  BY <1>1, <1>4, <2>2, <2>3 DEF file
<1>5. CASE /\ Fit(sorted) /\ built' = leaves /\ level' = LeafRefs(groups) /\ pc' = "build"
           /\ UNCHANGED <<entries, sorted, outcome>>
  <2>1. Saving'
    BY <1>1, <1>5 DEF FileInv, Saving
  <2>2. Building'
    BY <1>1, <1>3, <1>5 DEF FileInv, Building
  <2>3. Written'
    BY <1>1, <1>5 DEF FileInv, Written
  <2> QED  BY <1>1, <1>5, <2>1, <2>2, <2>3 DEF FileInv, file
<1> QED  BY <1>2, <1>3, <1>4, <1>5

(* A level over a level keeps the forest and is shorter.                    *)
LEMMA LevelStep ==
    ASSUME FileInv, BuildLevel
    PROVE  /\ FileInv' /\ UNCHANGED <<pages, torn, pc, entries, outcome>>
           /\ Len(level') < Len(level)
<1> DEFINE groups == InternalGroups(level)
           internal == InternalPages(groups)
<1>1. /\ pc = "build" /\ Len(level) > 1 /\ pages' = pages /\ torn' = torn
      /\ Grown(sorted, built, level) /\ Fit(sorted)
      /\ \A i \in DOMAIN built : ~TooLarge(built[i])
      /\ sorted \in Seq(EncodedEntry) /\ KeysRise(sorted) /\ Listed(sorted, entries)
  BY DEF BuildLevel, FileInv, Building, file
<1>2. /\ sorted # <<>>
      /\ \A i \in 2..Len(level) : ~NoRoom(PageHeader, EntryLen(level[i].first_key))
  BY <1>1, TopsFit
<1>3. /\ Grown(sorted, built \o internal, InternalRefs(groups, Len(built)))
      /\ Len(InternalRefs(groups, Len(built))) < Len(level)
      /\ \A i \in DOMAIN internal : ~TooLarge(internal[i])
      /\ internal \in Seq(AnyPage)
  BY <1>1, <1>2, InternalLevel
<1>4. /\ built' = built \o internal /\ level' = InternalRefs(groups, Len(built))
      /\ UNCHANGED <<pc, entries, sorted, outcome>>
  BY <1>2, <1>3 DEF BuildLevel
<1> HIDE DEF groups, internal
<1>5. \A i \in DOMAIN built' : ~TooLarge(built'[i])
  <2>1. built \in Seq(AnyPage)
    BY <1>1 DEF Grown
  <2>2. ASSUME NEW i \in DOMAIN (built \o internal) PROVE ~TooLarge((built \o internal)[i])
    <3>1. CASE i \in DOMAIN built /\ (built \o internal)[i] = built[i]
      BY <1>1, <3>1
    <3>2. CASE /\ i - Len(built) \in DOMAIN internal
               /\ (built \o internal)[i] = internal[i - Len(built)]
      BY <1>3, <3>2
    <3> QED  BY <1>3, <2>1, <3>1, <3>2
  <2> QED  BY <1>4, <2>2
<1>6. Saving'
  BY <1>1, <1>4 DEF FileInv, Saving
<1>7. Building'
  BY <1>1, <1>3, <1>4, <1>5 DEF Building
<1>8. Written'
  BY <1>1, <1>4 DEF FileInv, Written
<1> QED  BY <1>1, <1>3, <1>4, <1>6, <1>7, <1>8 DEF FileInv

(* Creating the file leaves nothing that loads.                             *)
LEMMA CreateStep ==
    ASSUME FileInv, CreateFile
    PROVE  /\ FileInv'
           /\ \/ Return("refused") /\ pc # "idle" /\ TooLong(entries) /\ UNCHANGED file
              \/ pages' = <<>> /\ pc' = "write" /\ pc = "build" /\ UNCHANGED <<entries, outcome>>
<1>1. pc = "build" /\ Len(level) = 1 /\ HeaderLen \in Nat /\ PageSize \in Nat /\ torn \in BOOLEAN
  BY FileAssumption DEF CreateFile, FileInv, Saving
<1>2. CASE HeaderLen > PageSize
  <2>1. Return("refused") /\ pages' = pages /\ torn' = torn
    BY <1>2 DEF CreateFile, file
  <2>2. \/ ~HeaderOk(pages, torn')
        \/ ~torn' /\ \E map \in Saves : WholeMap(pages, map)
    BY <1>1, <2>1 DEF FileInv, Written
  <2>3. FileInv'
    BY <1>1, <2>1, <2>2, ReturnKeeps
  <2> QED  BY <1>1, <1>2, <2>1, <2>3 DEF TooLong, file
<1>3. CASE ~(HeaderLen > PageSize)
  <2>1. /\ pages' = <<>> /\ torn' = FALSE /\ pc' = "write"
        /\ UNCHANGED <<entries, sorted, built, level, outcome>>
    BY <1>3 DEF CreateFile
  <2>2. Saving'
    BY <1>1, <2>1 DEF FileInv, Saving
  <2>3. Building'
    BY <1>1, <2>1 DEF FileInv, Building
  <2>4. Len(Image') \in Nat
    <3>1. Grown(sorted, built, level)
      BY <1>1 DEF FileInv, Building
    <3>2. Len(ImageOf(sorted, built, level)) = 1 + Len(built) /\ Len(built) \in Nat
      BY <1>1, <3>1, ImagePages
    <3>3. Image' = ImageOf(sorted, built, level)
      BY <2>1 DEF Image, Header, ImageOf, HeaderOf
    <3> QED  BY <3>2, <3>3
  <2>5. Written'
    <3>1. /\ pages' \in Seq(FilePages) /\ Len(pages') = 0
          /\ Len(pages') <= Len(Image')
          /\ \A i \in 2..Len(pages') : FALSE /\ \A j \in 1..Len(pages') : FALSE
      BY <2>1, <2>4
    <3>2. HeaderLen <= PageSize
      BY <1>1, <1>3
    <3>3. Len(level') = 1
      BY <1>1, <2>1
    <3>4. \A i \in 1..Len(pages') : FALSE
      BY <2>1
    <3>5. \A i \in 2..Len(pages') : FALSE
      BY <2>1
    <3> QED  BY <2>1, <3>1, <3>2, <3>3, <3>4, <3>5 DEF Written
  <2> QED  BY <1>1, <2>1, <2>2, <2>3, <2>5 DEF FileInv
<1> QED  BY <1>2, <1>3

(* A file with pages missing does not load, with the last one it is whole.  *)
LEMMA WriteStep ==
    ASSUME FileInv, WritePage
    PROVE  /\ FileInv' /\ UNCHANGED <<torn, pc, entries, outcome>> /\ ~torn /\ entries \in Saves
           /\ ~HeaderOk(pages, torn)
           /\ ~HeaderOk(pages', torn') \/ WholeMap(pages', entries)
<1> DEFINE k == Len(pages)
           n == Len(Image)
<1>1. /\ pc = "write" /\ k < n /\ pages' = Append(pages, Image[k + 1])
      /\ UNCHANGED <<torn, pc, entries, sorted, built, level, outcome>>
  BY DEF WritePage
<1>2. /\ entries \in Saves /\ ~torn /\ k \in Nat /\ n \in Nat \ {0} /\ Image \in Seq(FilePages)
      /\ \A i \in 2..n : ~TooLarge(Image[i])
      /\ ~HeaderOk(pages, torn)
      /\ \A P \in Seq(FilePages) :
            Len(P) = n /\ (\A i \in 1..Len(P) : P[i] = Image[i]) => WholeMap(P, entries)
  BY <1>1, WritingState
<1>3. pages \in Seq(FilePages) /\ \A i \in 1..k : pages[i] = Image[i]
  BY <1>1 DEF FileInv, Written
<1>4. Image' = Image
  BY <1>1 DEF Image, Header
<1> HIDE DEF k, n
<1>5. /\ pages' \in Seq(FilePages) /\ Len(pages') = k + 1 /\ k + 1 <= n
      /\ \A i \in 1..(k + 1) : pages'[i] = Image[i]
  <2>1. k + 1 \in 1..n /\ Image[k + 1] \in FilePages
    BY <1>1, <1>2 DEF n
  <2>2. pages' \in Seq(FilePages) /\ Len(pages') = k + 1
    BY <1>1, <1>3, <2>1 DEF k
  <2>3. ASSUME NEW i \in 1..(k + 1) PROVE pages'[i] = Image[i]
    <3>1. CASE i = k + 1
      BY <1>1, <1>3, <3>1 DEF k
    <3>2. CASE i # k + 1
      <4>1. i \in 1..k
        BY <1>2, <3>2
      <4>2. pages'[i] = pages[i]
        BY <1>1, <1>3, <4>1 DEF k
      <4> QED  BY <1>3, <4>1, <4>2
    <3> QED  BY <3>1, <3>2
  <2> QED  BY <2>1, <2>2, <2>3
<1>6. Saving'
  BY <1>1 DEF FileInv, Saving
<1>7. Building'
  BY <1>1 DEF FileInv, Building
<1>8. Written'
  <2>1. \A i \in 2..(k + 1) : ~TooLarge(pages'[i])
    <3>1. \A i \in 2..(k + 1) : i \in 1..(k + 1) /\ i \in 2..n
      BY <1>2, <1>5
    <3> QED  BY <1>2, <1>5, <3>1
  <2>2. Len(level) = 1 /\ HeaderLen <= PageSize
    BY <1>1 DEF FileInv, Written
  <2>3. Len(Image') = n
    BY <1>4 DEF n
  <2> QED  BY <1>1, <1>2, <1>4, <1>5, <2>1, <2>2, <2>3 DEF Written
<1>9. FileInv'
  BY <1>6, <1>7, <1>8 DEF FileInv
<1>10. ~HeaderOk(pages', torn') \/ WholeMap(pages', entries)
  <2>1. CASE k + 1 = n
    BY <1>2, <1>5, <2>1
  <2>2. CASE k + 1 # n
    <3>1. Len(pages') < Len(Image')
      BY <1>2, <1>4, <1>5, <2>2 DEF n
    <3>2. pc' = "write"
      BY <1>1
    <3>3. Len(pages') < Len(Image') => \A partial : ~HeaderOk(pages', partial)
      <4>1. Grown(sorted', built', level') /\ Len(level') = 1
        BY <1>1, <1>9 DEF FileInv, Building, Written
      <4>2. Image' = ImageOf(sorted', built', level') /\ Header' = HeaderOf(sorted', built', level')
        BY DEF Image, Header, ImageOf, HeaderOf
      <4>3. /\ Len(built') \in Nat \ {0} /\ Len(Image') = 1 + Len(built')
            /\ Image'[1] = HeaderOf(sorted', built', level')
        BY <4>1, <4>2, ImagePages
      <4>4. Image'[1].page_count = Len(built')
        BY <4>3 DEF HeaderOf
      <4>5. \A i \in 1..Len(pages') : pages'[i] = Image'[i]
        BY <1>4, <1>5
      <4> QED  BY <1>5, <4>3, <4>4, <4>5, PartlyWritten
    <3> QED  BY <3>1, <3>3
  <2> QED  BY <2>1, <2>2
<1> QED  BY <1>1, <1>2, <1>9, <1>10

(* save_index returns Ok with all of the entries in the file.               *)
LEMMA FlushStep ==
    ASSUME FileInv, Flush
    PROVE  FileInv' /\ WholeMap(pages, entries) /\ ~torn /\ entries \in Saves
<1>1. pc = "write" /\ Len(pages) = Len(Image) /\ Return("ok") /\ pages' = pages /\ torn' = torn
  BY DEF Flush, file
<1>2. entries \in Saves /\ ~torn /\ WholeMap(pages, entries)
  BY <1>1, WritingState
<1>3. torn' \in BOOLEAN /\ ~torn' /\ \E map \in Saves : WholeMap(pages, map)
  <2>1. torn \in BOOLEAN
    BY DEF FileInv, Saving
  <2> QED  BY <1>1, <1>2, <2>1
<1>4. FileInv'
  BY <1>1, <1>3, ReturnKeeps
<1> QED  BY <1>2, <1>4

(* Stopping in save_index leaves what was there, or what does not load.     *)
LEMMA InterruptStep ==
    ASSUME FileInv, Interrupt
    PROVE  /\ FileInv' /\ pc # "idle" /\ Return("interrupted") /\ pages' = pages
           /\ torn' = torn \/ (~HeaderOk(pages, torn) /\ ~HeaderOk(pages', torn'))
<1>1. /\ pc # "idle" /\ Return("interrupted") /\ pages' = pages
      /\ torn' \in IF pc = "write" /\ Len(pages) < Len(Image) THEN BOOLEAN ELSE {torn}
  BY DEF Interrupt
<1>2. torn \in BOOLEAN /\ torn' \in BOOLEAN
  BY <1>1 DEF FileInv, Saving
<1>3. CASE pc = "write" /\ Len(pages) < Len(Image)
  <2>1. \A partial : ~HeaderOk(pages, partial)
    BY <1>3, WritingState
  <2>2. FileInv'
    BY <1>1, <1>2, <2>1, ReturnKeeps
  <2> QED  BY <1>1, <2>1, <2>2
<1>4. CASE pc = "write" /\ ~(Len(pages) < Len(Image))
  <2>1. torn' = torn
    BY <1>1, <1>4
  <2>2. /\ Len(pages) <= Len(Image) /\ Len(pages) \in Nat /\ Len(Image) \in Nat
        /\ ~torn /\ entries \in Saves
        /\ Len(pages) = Len(Image) => WholeMap(pages, entries)
    BY <1>4, WritingState DEF FileInv, Written
  <2>3. WholeMap(pages, entries)
    BY <1>4, <2>2
  <2>4. FileInv'
    BY <1>1, <1>2, <2>1, <2>2, <2>3, ReturnKeeps
  <2> QED  BY <1>1, <2>1, <2>4, Zenon
<1>5. CASE pc # "write"
  <2>1. torn' = torn
    BY <1>1, <1>5
  <2>2. \/ ~HeaderOk(pages, torn')
        \/ ~torn' /\ \E map \in Saves : WholeMap(pages, map)
    BY <1>5, <2>1 DEF FileInv, Written
  <2>3. FileInv'
    BY <1>1, <1>2, <2>2, ReturnKeeps
  <2> QED  BY <1>1, <2>1, <2>3, Zenon
<1> QED  BY <1>3, <1>4, <1>5

(* Every step keeps the invariant.                                          *)
LEMMA StepInv == FileInv /\ [Next]_vars => FileInv'
<1> SUFFICES ASSUME FileInv, [Next]_vars PROVE FileInv'
  OBVIOUS
<1>1. ASSUME NEW map \in Saves, SaveIndex(map) PROVE FileInv'
  BY <1>1, SaveStep
<1>2. CASE SortEntries
  BY <1>2, SortStep
<1>3. CASE BuildLeafLevel
  BY <1>3, LeafStep
<1>4. CASE BuildLevel
  BY <1>4, LevelStep
<1>5. CASE CreateFile
  BY <1>5, CreateStep
<1>6. CASE WritePage
  BY <1>6, WriteStep
<1>7. CASE Flush
  BY <1>7, FlushStep
<1>8. CASE Interrupt
  BY <1>8, InterruptStep
<1>9. CASE UNCHANGED vars
  <2>1. /\ UNCHANGED <<pages, torn, pc, entries, sorted, built, level, outcome>>
    BY <1>9 DEF vars
  <2>2. Image' = Image
    BY <2>1 DEF Image, Header
  <2>3. Saving' /\ Building'
    BY <2>1 DEF FileInv, Saving, Building
  <2>4. Written'
    BY <2>1, <2>2 DEF FileInv, Written
  <2> QED  BY <2>3, <2>4 DEF FileInv
<1> QED  BY <1>1, <1>2, <1>3, <1>4, <1>5, <1>6, <1>7, <1>8, <1>9 DEF Next

-----------------------------------------------------------------------------
(***************************************************************************)
(* The properties                                                          *)
(***************************************************************************)
LEMMA FileInvariant == Spec => []FileInv
BY InitInv, StepInv, PTL DEF Spec

(* What an engine gets from the file P, and some bytes more.               *)
MapIn(P, partial) ==
    IF LoadIndex(P, partial) = NoMap THEN NoMap ELSE ToSet(LoadIndex(P, partial))

(* Neither way to read gives entries of a file that is not whole.           *)
LEMMA NotLoaded ==
    ASSUME NEW P, NEW partial, ~HeaderOk(P, partial)
    PROVE  /\ LoadIndex(P, partial) = NoMap /\ MapIn(P, partial) = NoMap
           /\ \A v \in Values : LookupIndex(P, partial, v) = NoMap
BY DEF LoadIndex, MapIn, LookupIndex

(* A whole file loads as the map that was saved.                            *)
LEMMA WholeLoaded ==
    ASSUME NEW map \in Saves, NEW P, WholeMap(P, map)
    PROVE  LoadIndex(P, FALSE) # NoMap /\ MapIn(P, FALSE) = map
<1>1. PICK S, B, lo, hi : Whole(P, S, B, lo, hi) /\ Listed(S, map)
  BY DEF WholeMap
<1>2. LoadIndex(P, FALSE) # NoMap /\ ToSet(LoadIndex(P, FALSE)) = map
  BY <1>1, WholeLoads
<1> QED  BY <1>2 DEF MapIn

(* Between two steps the file of a save in progress does not load or is    *)
(* all of its map; at rest it may also be that of an earlier save.         *)
LEMMA OnDisk ==
    ASSUME FileInv
    PROVE  ~HeaderOk(pages, torn) \/ (torn = FALSE /\ \E map \in Saves : WholeMap(pages, map))
<1>1. torn \in BOOLEAN
  BY DEF FileInv, Saving
<1>2. CASE pc # "write"
  BY <1>1, <1>2 DEF FileInv, Written
<1>3. CASE pc = "write"
  <2>1. /\ entries \in Saves /\ ~torn /\ Len(pages) \in Nat /\ Len(Image) \in Nat
        /\ Len(pages) < Len(Image) => ~HeaderOk(pages, torn)
        /\ Len(pages) = Len(Image) => WholeMap(pages, entries)
    BY <1>3, WritingState
  <2>2. Len(pages) <= Len(Image)
    BY <1>3 DEF FileInv, Written
  <2>3. Len(pages) < Len(Image) \/ Len(pages) = Len(Image)
    BY <2>1, <2>2
  <2> QED  BY <1>1, <2>1, <2>3
<1> QED  BY <1>2, <1>3

(* No page save_index builds or leaves behind is longer than a page, the   *)
(* refs of a level name pages that were built, and what it works on is     *)
(* gone when it returns.                                                   *)
THEOREM IndexFileTypes == Spec => []TypeOK
<1>1. FileInv => TypeOK
  <2> SUFFICES ASSUME FileInv PROVE TypeOK
    OBVIOUS
  <2>1. /\ pc \in {"idle", "sort", "leaves", "build", "write"}
        /\ outcome \in {"none", "ok", "refused", "interrupted"}
        /\ torn \in BOOLEAN /\ entries \in Saves \cup {NoMap}
        /\ (pc = "idle") = (entries = NoMap)
    BY DEF FileInv, Saving
  <2>2. \A i \in 2..Len(pages) : ~TooLarge(pages[i])
    BY DEF FileInv, Written
  <2>3. CASE pc \in {"build", "write"}
    <3>1. /\ Grown(sorted, built, level) /\ Fit(sorted) /\ sorted \in Seq(EncodedEntry)
          /\ \A i \in DOMAIN built : ~TooLarge(built[i])
      BY <2>3 DEF FileInv, Building
    <3>2. /\ \A i \in DOMAIN level : level[i].page_id \in 0..(Len(built) - 1)
          /\ level # <<>>
      BY <3>1, TopsFit
    <3> QED  BY <2>1, <2>2, <2>3, <3>1, <3>2 DEF TypeOK
  <2>4. CASE pc \notin {"build", "write"}
    <3>1. built = <<>> /\ level = <<>>
      BY <2>1, <2>4 DEF FileInv, Building
    <3>2. sorted \in Seq(EncodedEntry)
      <4>1. sorted = <<>> \/ sorted \in Seq(EncodedEntry)
        BY <2>1, <2>4 DEF FileInv, Building
      <4>2. <<>> \in Seq(EncodedEntry)
        OBVIOUS
      <4> QED  BY <4>1, <4>2
    <3>3. /\ \A i \in DOMAIN built : ~TooLarge(built[i])
          /\ \A i \in DOMAIN level : level[i].page_id \in 0..(Len(built) - 1)
      BY <3>1
    <3> QED  BY <2>1, <2>2, <2>4, <3>1, <3>2, <3>3 DEF TypeOK
  <2> QED  BY <2>3, <2>4
<1> QED  BY <1>1, FileInvariant, PTL

(* Whatever save_index left, lookup_index, which descends from the root to *)
(* one leaf, and load_index, which follows the leaves, agree on every      *)
(* value.                                                                  *)
THEOREM LookupIsLoad == Spec => []LookupMatchesLoad
<1>1. FileInv => LookupMatchesLoad
  <2> SUFFICES ASSUME FileInv, NEW v \in Values
               PROVE  LET map == LoadedMap
                          hits == {p \in map : p[1] = v}
                          id == LookupIndex(pages, torn, v)
                      IN  IF map = NoMap THEN id = NoMap
                          ELSE IF hits = {} THEN id = NotFound
                          ELSE hits = {<<v, id>>}
    BY DEF LookupMatchesLoad
  <2> DEFINE id == LookupIndex(pages, torn, v)
  <2>1. LoadedMap = MapIn(pages, torn)
    BY DEF LoadedMap, MapIn
  <2>2. CASE ~HeaderOk(pages, torn)
    BY <2>1, <2>2, NotLoaded
  <2>3. CASE torn = FALSE /\ \E map \in Saves : WholeMap(pages, map)
    <3>1. PICK map \in Saves : WholeMap(pages, map)
      BY <2>3
    <3> DEFINE hits == {p \in map : p[1] = v}
    <3>2. PICK S, B, lo, hi : Whole(pages, S, B, lo, hi) /\ Listed(S, map)
      BY <3>1 DEF WholeMap
    <3>3. LoadedMap = map /\ map # NoMap
      BY <2>1, <2>3, <3>1, WholeLoaded, FileAssumption
    <3>4. /\ \A p \in map : p[1] = v => id = p[2]
          /\ (\A p \in map : p[1] # v) => id = NotFound
      BY <2>3, <3>2, WholeFinds, ZenonT(60)
    <3>5. \A p \in map : p = <<p[1], p[2]>>
      BY EntriesOfMap
    <3>6. \A p, q \in map : p[1] = q[1] => p = q
      BY FileAssumption
    <3> HIDE DEF id
    <3>7. CASE hits = {}
      BY <3>3, <3>4, <3>7 DEF id
    <3>8. CASE hits # {}
      <4>1. PICK p \in map : p[1] = v
        BY <3>8
      <4>2. hits = {p} /\ id = p[2] /\ p = <<v, id>>
        BY <3>4, <3>5, <3>6, <4>1
      <4>3. hits = {<<v, id>>} /\ hits # {}
        BY <4>2
      <4> QED  BY <3>3, <4>3 DEF id
    <3> QED  BY <3>7, <3>8
  <2> QED  BY <2>2, <2>3, OnDisk
<1> QED  BY <1>1, FileInvariant, PTL

(* Every turn of the loop of build_index_pages leaves fewer pages on top,  *)
(* so it ends, wherever the key lengths let the groups break.              *)
THEOREM LoopEnds == Spec => LevelsShrink
<1>1. FileInv /\ [Next]_vars => [pc = "build" /\ pc' = "build" => Len(level') < Len(level)]_vars
  <2> SUFFICES ASSUME FileInv, Next, pc = "build", pc' = "build"
               PROVE  Len(level') < Len(level)
    BY DEF LevelsShrink
  <2>1. \A map \in Saves : ~SaveIndex(map)
    BY DEF SaveIndex
  <2>2. ~SortEntries /\ ~BuildLeafLevel /\ ~WritePage /\ ~Flush
    BY DEF SortEntries, BuildLeafLevel, WritePage, Flush
  <2>3. ~Interrupt
    BY DEF Interrupt, Return
  <2>4. CASE BuildLevel
    BY <2>4, LevelStep
  <2>5. ~CreateFile
    BY DEF CreateFile, Return
  <2> QED  BY <2>1, <2>2, <2>3, <2>4, <2>5 DEF Next
<1> QED  BY <1>1, FileInvariant, PTL DEF Spec, LevelsShrink

(* The integers an index file gives back rise, for every width of the      *)
(* integers: encode_key makes the byte order of the keys their order.      *)
THEOREM LoadedInOrder == Spec => []IntegersInOrder
<1>1. FileInv => IntegersInOrder
  <2> SUFFICES ASSUME FileInv, LoadIndex(pages, torn) # NoMap,
                      NEW i \in DOMAIN LoadIndex(pages, torn),
                      NEW j \in DOMAIN LoadIndex(pages, torn), i < j,
                      LoadIndex(pages, torn)[i][1].type = "int",
                      LoadIndex(pages, torn)[j][1].type = "int"
               PROVE  LoadIndex(pages, torn)[i][1].payload[1]
                         < LoadIndex(pages, torn)[j][1].payload[1]
    BY DEF IntegersInOrder
  <2> DEFINE L == LoadIndex(pages, FALSE)
             v == L[i][1]
             w == L[j][1]
  <2>1. torn = FALSE /\ \E map \in Saves : WholeMap(pages, map)
    BY NotLoaded, OnDisk
  <2>2. PICK map \in Saves : WholeMap(pages, map)
    BY <2>1
  <2>3. PICK S, B, lo, hi : Whole(pages, S, B, lo, hi) /\ Listed(S, map)
    BY <2>2 DEF WholeMap
  <2>4. /\ DOMAIN L = 1..Len(S)
        /\ L \in Seq(map)
        /\ \A k \in 1..Len(S) : encode_key(L[k][1]) = S[k].key
    <3>1. DOMAIN L = 1..Len(S)
      BY <2>3, WholeLoads
    <3>2. L \in Seq(map)
      BY <2>3, WholeLoads
    <3>3. ASSUME NEW k \in 1..Len(S) PROVE encode_key(L[k][1]) = S[k].key
      <4>1. S[k] = EntryOf(L[k])
        BY <2>3, WholeLoads, ZenonT(60)
      <4> HIDE DEF L
      <4> QED  BY <4>1 DEF EntryOf
    <3> QED  BY <3>1, <3>2, <3>3
  <2>5. S \in Seq(EncodedEntry) /\ KeysRise(S)
    BY <2>3 DEF Whole, Forest
  <2>6. i \in 1..Len(S) /\ j \in 1..Len(S) /\ DOMAIN S = 1..Len(S)
    <3>2. i \in DOMAIN L /\ j \in DOMAIN L
      BY <2>1
    <3> HIDE DEF L
    <3> QED  BY <2>4, <2>5, <3>2
  <2>7. L[i] \in map /\ L[j] \in map
    <3>1. i \in DOMAIN L /\ j \in DOMAIN L
      BY <2>1
    <3> HIDE DEF L
    <3> QED  BY <2>4, <3>1
  <2>8. /\ IsKeyValue(v) /\ IsKeyValue(w) /\ v.type = "int" /\ w.type = "int"
        /\ KeyLess(encode_key(v), encode_key(w))
    <3>1. IsKeyValue(v) /\ IsKeyValue(w)
      BY <2>7, EntriesOfMap
    <3>2. KeyLess(S[i].key, S[j].key)
      BY <2>5, <2>6 DEF KeysRise
    <3>3. encode_key(v) = S[i].key /\ encode_key(w) = S[j].key
      BY <2>4, <2>6
    <3> QED  BY <2>1, <3>1, <3>2, <3>3
  <2> HIDE DEF v, w
  <2>9. PICK n \in (-Half)..(Half - 1) : v = IntValue(n)
    BY <2>8 DEF IsKeyValue, NullValue, BoolValue, StringValue
  <2>10. PICK m \in (-Half)..(Half - 1) : w = IntValue(m)
    BY <2>8 DEF IsKeyValue, NullValue, BoolValue, StringValue
  <2>11. encode_key(v) \in Seq(Bytes) /\ encode_key(w) \in Seq(Bytes)
    BY <2>8, EncodedBytes
  <2>12. n # m
    BY <2>8, <2>9, <2>10, <2>11, KeyLessIrreflexive
  <2>13. ~(m < n)
    <3> SUFFICES ASSUME m < n PROVE FALSE
      OBVIOUS
    <3>1. KeyLess(encode_key(w), encode_key(v))
      BY <2>9, <2>10, IntegerOrder
    <3> QED  BY <2>8, <2>11, <3>1, KeyLessTransitive, KeyLessIrreflexive
  <2>14. n < m
    <3>1. n \in Int /\ m \in Int
      BY WidthIsEven
    <3> QED  BY <2>12, <2>13, <3>1
  <2>15. v.payload[1] = n /\ w.payload[1] = m
    BY <2>9, <2>10 DEF IntValue
  <2>16. v = LoadIndex(pages, torn)[i][1] /\ w = LoadIndex(pages, torn)[j][1]
    BY <2>1 DEF v, w
  <2> QED  BY <2>14, <2>15, <2>16
<1> QED  BY <1>1, FileInvariant, PTL

(* A step of save_index is a step of the promise or leaves it alone.       *)
LEMMA StepsAreCellSteps ==
    FileInv /\ [Next]_vars => [Cell!Next]_(Cell!vars)
<1> SUFFICES ASSUME FileInv, [Next]_vars
             PROVE  [Cell!Next]_(Cell!vars)
  OBVIOUS
<1>1. LoadedMap = MapIn(pages, torn) /\ LoadedMap' = MapIn(pages', torn')
  BY DEF LoadedMap, MapIn
<1>2. pc # "idle" => entries \in Saves /\ entries # NoMap
  BY FileAssumption DEF FileInv, Saving
<1>3. ASSUME pages' = pages, torn' = torn PROVE LoadedMap' = LoadedMap
  BY <1>1, <1>3
<1>4. ASSUME UNCHANGED <<pages, torn, entries, outcome>>
      PROVE  UNCHANGED Cell!vars
  BY <1>3, <1>4 DEF Cell!vars
<1>5. ASSUME NEW map \in Saves, SaveIndex(map) PROVE Cell!Next
  <2>1. pc = "idle" /\ entries' = map /\ outcome' = "none" /\ pages' = pages /\ torn' = torn
    BY <1>5 DEF SaveIndex
  <2>2. entries = NoMap
    BY <2>1 DEF FileInv, Saving
  <2>3. Cell!Begin(map)
    BY <1>3, <2>1, <2>2 DEF Cell!Begin
  <2> QED  BY <2>3 DEF Cell!Next
<1>6. CASE SortEntries
  BY <1>4, <1>6, SortStep
<1>7. ASSUME Return("refused"), pc # "idle", TooLong(entries), UNCHANGED file
      PROVE  Cell!Next
  <2>1. entries' = NoMap /\ outcome' = "refused" /\ LoadedMap' = LoadedMap
    BY <1>3, <1>7 DEF Return, file
  <2>2. Cell!Refuse
    BY <1>2, <1>7, <2>1 DEF Cell!Refuse, Cell!End
  <2> QED  BY <2>2 DEF Cell!Next
<1>8. CASE BuildLeafLevel
  <2>1. CASE Return("refused") /\ pc # "idle" /\ TooLong(entries)
    BY <1>7, <1>8, <2>1, LeafStep
  <2>2. CASE UNCHANGED <<entries, outcome>>
    BY <1>4, <1>8, <2>2, LeafStep DEF file
  <2> QED  BY <1>8, <2>1, <2>2, LeafStep
<1>9. CASE BuildLevel
  BY <1>4, <1>9, LevelStep
<1>10. CASE CreateFile
  <2>1. CASE Return("refused") /\ pc # "idle" /\ TooLong(entries) /\ UNCHANGED file
    BY <1>7, <2>1
  <2>2. CASE pages' = <<>> /\ pc = "build" /\ UNCHANGED <<entries, outcome>>
    <3>1. ~HeaderOk(pages', torn')
      BY <2>2 DEF HeaderOk
    <3>2. LoadedMap' = NoMap
      BY <1>1, <3>1, NotLoaded
    <3>3. Cell!Clear
      BY <1>2, <2>2, <3>2 DEF Cell!Clear
    <3> QED  BY <3>3 DEF Cell!Next
  <2> QED  BY <1>10, <2>1, <2>2, CreateStep
<1>11. CASE WritePage
  <2>1. /\ UNCHANGED <<torn, pc, entries, outcome>> /\ entries \in Saves
        /\ ~torn /\ ~HeaderOk(pages, torn)
        /\ ~HeaderOk(pages', torn') \/ WholeMap(pages', entries)
    BY <1>11, WriteStep
  <2>2. LoadedMap = NoMap
    BY <1>1, <2>1, NotLoaded
  <2>3. CASE ~HeaderOk(pages', torn')
    <3>1. LoadedMap' = NoMap
      BY <1>1, <2>3, NotLoaded
    <3> QED  BY <2>1, <2>2, <3>1 DEF Cell!vars
  <2>4. CASE WholeMap(pages', entries)
    <3>1. MapIn(pages', FALSE) = entries
      BY <2>1, <2>4, WholeLoaded
    <3>2. torn' = FALSE
      <4>1. torn \in BOOLEAN
        BY DEF FileInv, Saving
      <4> QED  BY <2>1, <4>1
    <3>3. LoadedMap' = entries
      BY <1>1, <3>1, <3>2
    <3>4. entries # NoMap
      BY <2>1, FileAssumption
    <3>5. Cell!Commit
      BY <2>1, <2>2, <3>3, <3>4 DEF Cell!Commit
    <3> QED  BY <3>5 DEF Cell!Next
  <2> QED  BY <2>1, <2>3, <2>4
<1>12. CASE Flush
  <2>1. WholeMap(pages, entries) /\ ~torn /\ entries \in Saves
    BY <1>12, FlushStep
  <2>2. pc = "write" /\ Return("ok") /\ pages' = pages /\ torn' = torn
    BY <1>12 DEF Flush, file
  <2>3. torn = FALSE
    BY <2>1 DEF FileInv, Saving
  <2>4. MapIn(pages, FALSE) = entries
    BY <2>1, WholeLoaded
  <2>5. LoadedMap = entries /\ LoadedMap' = LoadedMap
    BY <1>1, <1>3, <2>2, <2>3, <2>4
  <2>6. Cell!ReturnOk
    BY <1>2, <2>2, <2>5 DEF Cell!ReturnOk, Cell!End, Return
  <2> QED  BY <2>6 DEF Cell!Next
<1>13. CASE Interrupt
  <2>1. /\ pc # "idle" /\ Return("interrupted") /\ pages' = pages
        /\ torn' = torn \/ (~HeaderOk(pages, torn) /\ ~HeaderOk(pages', torn'))
    BY <1>13, InterruptStep
  <2>2. LoadedMap' = LoadedMap
    <3>1. CASE torn' = torn
      BY <1>3, <2>1, <3>1
    <3>2. CASE ~HeaderOk(pages, torn) /\ ~HeaderOk(pages', torn')
      BY <1>1, <3>2, NotLoaded
    <3> QED  BY <2>1, <3>1, <3>2
  <2>3. Cell!Interrupt
    BY <1>2, <2>1, <2>2 DEF Cell!Interrupt, Cell!End, Return
  <2> QED  BY <2>3 DEF Cell!Next
<1>14. CASE UNCHANGED vars
  BY <1>4, <1>14 DEF vars
<1> QED  BY <1>5, <1>6, <1>8, <1>9, <1>10, <1>11, <1>12, <1>13, <1>14 DEF Next

(* The file keeps the promise of IndexCell: after any crash it loads as    *)
(* the map of the last save whose last page was written, or, once that of  *)
(* the next was created, not at all; save_index returns Ok only for a file *)
(* that loads, and is refused only for a key or names that are too long.   *)
THEOREM PagesImplementCell == Spec => ImplementsCell
<1>1. Init => Cell!Init
  <2> SUFFICES ASSUME Init PROVE Cell!Init
    OBVIOUS
  <2>1. pages = <<>> /\ entries = NoMap /\ outcome = "none"
    BY DEF Init
  <2>2. ~HeaderOk(pages, torn)
    BY <2>1 DEF HeaderOk
  <2>3. LoadedMap = NoMap
    BY <2>2, NotLoaded DEF LoadedMap
  <2> QED  BY <2>1, <2>3 DEF Cell!Init
<1> QED  BY <1>1, FileInvariant, StepsAreCellSteps, PTL
         DEF Spec, Cell!Spec, ImplementsCell
=============================================================================
