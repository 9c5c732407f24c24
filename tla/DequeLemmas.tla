----------------------------- MODULE DequeLemmas ----------------------------
(* What Without keeps and drops, for deques of any length.  The library's  *)
(* induction theorems quantify over predicates, so the induction is over   *)
(* the least counterexample instead: a set of naturals.                    *)
EXTENDS Deques, TLAPS, WellFoundedInduction

(* Every nonempty set of naturals has a least element.                     *)
LEMMA LeastNatural ==
  ASSUME NEW T \in SUBSET Nat, T # {}
  PROVE  \E m \in T : \A n \in T : m <= n
<1>1. IsWellFoundedOn(OpToRel(<, Nat), Nat)
  BY NatLessThanWellFounded
<1>2. PICK m \in T : \A n \in T : ~ (<<n, m>> \in OpToRel(<, Nat))
  BY <1>1, WFMin, Zenon
<1>3. \A n \in T : ~ (n < m)
  BY <1>2 DEF OpToRel
<1> QED
  BY <1>3

(* What the recursive function in Without says of its value at i.          *)
KeptAt(kept, i, deque, drop) ==
  IF i = 0 THEN <<>>
  ELSE IF deque[i] \in drop THEN kept[i - 1]
       ELSE Append(kept[i - 1], deque[i])

(* The recursion in Without has a solution on every prefix of the deque,   *)
(* so its function is what its equation says.                              *)
LEMMA KeptExists ==
  ASSUME NEW S, NEW deque \in Seq(S), NEW drop
  PROVE  \E kept : kept = [i \in 0 .. Len(deque) |-> KeptAt(kept, i, deque, drop)]
<1> DEFINE Solved(m) == \E kept : kept = [i \in 0 .. m |-> KeptAt(kept, i, deque, drop)]
           Bad == {m \in Nat : m <= Len(deque) /\ ~ Solved(m)}
<1>1. SUFFICES ASSUME Bad # {} PROVE FALSE
  OBVIOUS
<1>2. PICK m \in Bad : \A n \in Bad : m <= n
  BY <1>1, LeastNatural
<1>3. CASE m = 0
  <2>1. [i \in 0 .. 0 |-> <<>>]
          = [i \in 0 .. 0 |-> KeptAt([n \in 0 .. 0 |-> <<>>], i, deque, drop)]
    BY DEF KeptAt
  <2>2. Solved(0)
    BY <2>1
  <2> QED
    BY <1>2, <1>3, <2>2
<1>4. CASE m # 0
  <2>1. m - 1 \in Nat /\ m - 1 \notin Bad /\ m <= Len(deque)
    BY <1>2, <1>4
  <2>2. PICK kept : kept = [i \in 0 .. (m - 1) |-> KeptAt(kept, i, deque, drop)]
    BY <2>1
  <2> DEFINE longer == [i \in 0 .. m |-> KeptAt(kept, i, deque, drop)]
  <2>3. \A i \in 0 .. (m - 1) : longer[i] = kept[i]
    BY <2>1, <2>2
  <2>4. \A i \in 0 .. m : KeptAt(kept, i, deque, drop) = KeptAt(longer, i, deque, drop)
    <3>1. TAKE i \in 0 .. m
    <3>2. CASE i = 0
      BY <3>2 DEF KeptAt
    <3>3. CASE i # 0
      <4> HIDE DEF longer
      <4>1. i - 1 \in 0 .. (m - 1)
        BY <2>1, <3>3
      <4>2. longer[i - 1] = kept[i - 1]
        BY <2>3, <4>1
      <4> QED
        BY <4>2, <3>3 DEF KeptAt
    <3> QED
      BY <3>2, <3>3
  <2>5. longer = [i \in 0 .. m |-> KeptAt(longer, i, deque, drop)]
    BY <2>4
  <2> QED
    BY <2>5, <1>2
<1> QED
  BY <1>3, <1>4

(* Without drops what it should drop, and keeps nothing but items of the   *)
(* deque.                                                                  *)
LEMMA WithoutKeepsItems ==
  ASSUME NEW S, NEW deque \in Seq(S), NEW drop
  PROVE  /\ Without(deque, drop) \in Seq(S)
         /\ \A k \in 1 .. Len(Without(deque, drop)) :
              /\ Without(deque, drop)[k] \notin drop
              /\ \E i \in 1 .. Len(deque) : Without(deque, drop)[k] = deque[i]
<1> DEFINE kept == CHOOSE f : f = [i \in 0 .. Len(deque) |-> KeptAt(f, i, deque, drop)]
<1>1. kept = [i \in 0 .. Len(deque) |-> KeptAt(kept, i, deque, drop)]
  BY KeptExists
<1>2. Without(deque, drop) = kept[Len(deque)]
  BY Zenon DEF Without, KeptAt
<1> HIDE DEF kept
<1> DEFINE Good(s) == /\ s \in Seq(S)
                      /\ \A k \in 1 .. Len(s) :
                           /\ s[k] \notin drop
                           /\ \E i \in 1 .. Len(deque) : s[k] = deque[i]
           Bad == {m \in Nat : m <= Len(deque) /\ ~ Good(kept[m])}
<1>3. Bad = {}
  <2>1. SUFFICES ASSUME Bad # {} PROVE FALSE
    OBVIOUS
  <2>2. PICK m \in Bad : \A n \in Bad : m <= n
    BY <2>1, LeastNatural
  <2>3. m # 0
    BY <2>2, <1>1 DEF KeptAt
  <2>4. Good(kept[m - 1]) /\ m \in 1 .. Len(deque)
    BY <2>2, <2>3
  <2>5. kept[m] = KeptAt(kept, m, deque, drop)
    BY <1>1, <2>4
  <2>6. kept[m] = IF deque[m] \in drop THEN kept[m - 1]
                  ELSE Append(kept[m - 1], deque[m])
    BY <2>3, <2>5 DEF KeptAt
  <2>7. Good(kept[m])
    BY <2>4, <2>6
  <2> QED
    BY <2>2, <2>7
<1> QED
  BY <1>2, <1>3

(* The places that the first n items of a deque had, those of them that    *)
(* are not dropped.                                                        *)
Embeds(from, s, n, deque, drop) ==
  /\ from \in [1 .. Len(s) -> 1 .. n]
  /\ \A k \in 1 .. Len(s) : s[k] = deque[from[k]]
  /\ \A k, l \in 1 .. Len(s) : k < l => from[k] < from[l]
  /\ \A i \in 1 .. n : deque[i] \notin drop => \E k \in 1 .. Len(s) : from[k] = i

LEMMA EmbedsDropped ==
  ASSUME NEW S, NEW deque, NEW drop, NEW s \in Seq(S), NEW m \in Nat \ {0},
         NEW from, Embeds(from, s, m - 1, deque, drop), deque[m] \in drop
  PROVE  Embeds(from, s, m, deque, drop)
<1>1. from \in [1 .. Len(s) -> 1 .. m]
  BY DEF Embeds
<1>2. ASSUME NEW i \in 1 .. m, deque[i] \notin drop
      PROVE  \E k \in 1 .. Len(s) : from[k] = i
  <2>1. i \in 1 .. (m - 1)
    BY <1>2
  <2> QED BY <1>2, <2>1 DEF Embeds
<1> QED BY <1>1, <1>2 DEF Embeds

LEMMA EmbedsKept ==
  ASSUME NEW S, NEW deque, NEW drop, NEW s \in Seq(S), NEW m \in Nat \ {0},
         NEW from, Embeds(from, s, m - 1, deque, drop), deque[m] \in S
  PROVE  \E more : Embeds(more, Append(s, deque[m]), m, deque, drop)
<1>1. PICK longer : longer = Append(s, deque[m])
  OBVIOUS
<1>2. PICK n \in Nat : n = Len(s)
  OBVIOUS
<1>3. PICK more : more = [k \in 1 .. n + 1 |-> IF k <= n THEN from[k] ELSE m]
  OBVIOUS
<1>4. /\ Len(longer) = n + 1 /\ longer[n + 1] = deque[m]
      /\ \A k \in 1 .. n : longer[k] = s[k]
  BY <1>1, <1>2
<1>5. /\ from \in [1 .. n -> 1 .. (m - 1)]
      /\ \A k \in 1 .. n : s[k] = deque[from[k]]
      /\ \A k, l \in 1 .. n : k < l => from[k] < from[l]
      /\ \A i \in 1 .. (m - 1) : deque[i] \notin drop => \E k \in 1 .. n : from[k] = i
  BY <1>2 DEF Embeds
<1>6. \A k \in 1 .. n : more[k] = from[k] /\ more[k] \in 1 .. (m - 1)
  BY <1>3, <1>5
<1>7. more[n + 1] = m
  BY <1>3
<1>8. more \in [1 .. n + 1 -> 1 .. m]
  BY <1>3, <1>5
<1>9. \A k \in 1 .. n + 1 : longer[k] = deque[more[k]]
  <2>1. TAKE k \in 1 .. n + 1
  <2>2. CASE k = n + 1
    BY <2>2, <1>4, <1>7
  <2>3. CASE k # n + 1
    <3>1. k \in 1 .. n
      BY <2>3
    <3> QED BY <3>1, <1>4, <1>5, <1>6
  <2> QED BY <2>2, <2>3
<1>10. \A k, l \in 1 .. n + 1 : k < l => more[k] < more[l]
  <2>1. SUFFICES ASSUME NEW k \in 1 .. n + 1, NEW l \in 1 .. n + 1, k < l
                 PROVE  more[k] < more[l]
    OBVIOUS
  <2>2. k \in 1 .. n
    BY <2>1
  <2>3. CASE l = n + 1
    BY <2>2, <2>3, <1>6, <1>7
  <2>4. CASE l # n + 1
    <3>1. l \in 1 .. n
      BY <2>4
    <3> QED BY <2>1, <2>2, <3>1, <1>5, <1>6
  <2> QED BY <2>3, <2>4
<1>11. ASSUME NEW i \in 1 .. m, deque[i] \notin drop
       PROVE  \E k \in 1 .. n + 1 : more[k] = i
  <2>1. CASE i = m
    BY <2>1, <1>7
  <2>2. CASE i # m
    <3>1. i \in 1 .. (m - 1)
      BY <2>2
    <3>2. PICK k \in 1 .. n : from[k] = i
      BY <1>11, <3>1, <1>5
    <3> QED BY <3>2, <1>6
  <2> QED BY <2>1, <2>2
<1>12. Embeds(more, longer, m, deque, drop)
  BY <1>4, <1>8, <1>9, <1>10, <1>11 DEF Embeds
<1> QED BY <1>1, <1>12

(* Without keeps the other items, each once and in its order.              *)
LEMMA WithoutEmbeds ==
  ASSUME NEW S, NEW deque \in Seq(S), NEW drop
  PROVE  \E from : Embeds(from, Without(deque, drop), Len(deque), deque, drop)
<1> DEFINE kept == CHOOSE f : f = [i \in 0 .. Len(deque) |-> KeptAt(f, i, deque, drop)]
<1>1. kept = [i \in 0 .. Len(deque) |-> KeptAt(kept, i, deque, drop)]
  BY KeptExists
<1>2. Without(deque, drop) = kept[Len(deque)]
  BY Zenon DEF Without, KeptAt
<1> HIDE DEF kept
<1> DEFINE Good(m) == kept[m] \in Seq(S) /\ \E from : Embeds(from, kept[m], m, deque, drop)
           Bad == {m \in Nat : m <= Len(deque) /\ ~ Good(m)}
<1>3. Bad = {}
  <2>1. SUFFICES ASSUME Bad # {} PROVE FALSE
    OBVIOUS
  <2>2. PICK m \in Bad : \A n \in Bad : m <= n
    BY <2>1, LeastNatural
  <2>3. CASE m = 0
    <3>1. kept[0] = <<>>
      BY <1>1 DEF KeptAt
    <3>2. Embeds(<<>>, <<>>, 0, deque, drop)
      BY DEF Embeds
    <3>3. Good(0)
      BY <3>1, <3>2
    <3> QED BY <2>2, <2>3, <3>3
  <2>4. CASE m # 0
    <3>1. m \in Nat \ {0} /\ m \in 1 .. Len(deque)
      BY <2>2, <2>4
    <3>2. Good(m - 1)
      BY <2>2, <3>1
    <3>3. PICK from : Embeds(from, kept[m - 1], m - 1, deque, drop)
      BY <3>2
    <3>4. PICK s \in Seq(S) : s = kept[m - 1]
      BY <3>2
    <3>5. kept[m] = KeptAt(kept, m, deque, drop)
      <4>1. m \in 0 .. Len(deque)
        BY <3>1
      <4> QED BY <1>1, <4>1, Zenon
    <3>6. kept[m] = IF deque[m] \in drop THEN s ELSE Append(s, deque[m])
      BY <2>4, <3>4, <3>5 DEF KeptAt
    <3>7. deque[m] \in S
      BY <3>1
    <3>8. CASE deque[m] \in drop
      <4>1. Embeds(from, s, m, deque, drop)
        BY <3>1, <3>3, <3>4, <3>8, EmbedsDropped
      <4>2. Good(m)
        BY <3>4, <3>6, <3>8, <4>1
      <4> QED BY <2>2, <4>2
    <3>9. CASE deque[m] \notin drop
      <4>1. \E more : Embeds(more, Append(s, deque[m]), m, deque, drop)
        BY <3>1, <3>3, <3>4, <3>7, EmbedsKept
      <4>2. Append(s, deque[m]) \in Seq(S)
        BY <3>7
      <4>3. Good(m)
        BY <3>6, <3>9, <4>1, <4>2
      <4> QED BY <2>2, <4>3
    <3> QED BY <3>8, <3>9
  <2> QED BY <2>3, <2>4
<1>4. Len(deque) \in Nat
  OBVIOUS
<1>5. Good(Len(deque))
  BY <1>3, <1>4
<1> QED
  BY <1>2, <1>5

(* A deque of one item, and others behind it.                              *)
LEMMA FirstAndRest ==
  ASSUME NEW S, NEW e \in S, NEW s \in Seq(S)
  PROVE  /\ <<e>> \o s \in Seq(S) /\ <<e>> \o s # <<>> /\ <<>> \o s = s
         /\ Len(<<e>> \o s) = Len(s) + 1
         /\ (<<e>> \o s)[1] = e /\ \A i \in 1 .. Len(s) : (<<e>> \o s)[i + 1] = s[i]
         /\ Head(<<e>> \o s) = e /\ Tail(<<e>> \o s) = s
         /\ s # <<>> => <<Head(s)>> \o Tail(s) = s
OBVIOUS

LEMMA AppendBehind ==
  ASSUME NEW S, NEW e \in S, NEW s \in Seq(S), NEW x \in S
  PROVE  Append(<<e>> \o s, x) = <<e>> \o Append(s, x)
OBVIOUS

LEMMA WithoutUnfolds ==
  ASSUME NEW S, NEW deque \in Seq(S), NEW drop
  PROVE  \E kept : /\ kept = [i \in 0 .. Len(deque) |-> KeptAt(kept, i, deque, drop)]
                   /\ Without(deque, drop) = kept[Len(deque)]
<1> DEFINE kept == CHOOSE f : f = [i \in 0 .. Len(deque) |-> KeptAt(f, i, deque, drop)]
<1>1. kept = [i \in 0 .. Len(deque) |-> KeptAt(kept, i, deque, drop)]
  BY KeptExists
<1>2. Without(deque, drop) = kept[Len(deque)]
  BY Zenon DEF Without, KeptAt
<1> HIDE DEF kept
<1> QED BY <1>1, <1>2

InFront(e, s) == <<e>> \o s

(* An item in front that is not dropped stays in front.                    *)
LEMMA WithoutKeepsFirst ==
  ASSUME NEW S, NEW e \in S, NEW s \in Seq(S), NEW drop, e \notin drop
  PROVE  Without(InFront(e, s), drop) = InFront(e, Without(s, drop))
<1> USE DEF InFront
<1>0. \A t \in Seq(S), x \in S : Append(<<e>> \o t, x) = <<e>> \o Append(t, x)
  BY AppendBehind
<1>1. PICK more \in Seq(S) : more = <<e>> \o s
  BY FirstAndRest
<1>2. PICK n \in Nat : n = Len(s)
  OBVIOUS
<1>3. Len(more) = n + 1 /\ more[1] = e /\ \A i \in 1 .. n : more[i + 1] = s[i] /\ s[i] \in S
  BY <1>1, <1>2, FirstAndRest
<1>4. PICK kept : /\ kept = [i \in 0 .. n |-> KeptAt(kept, i, s, drop)]
                  /\ Without(s, drop) = kept[n]
  BY <1>2, WithoutUnfolds
<1>5. PICK all : /\ all = [i \in 0 .. (n + 1) |-> KeptAt(all, i, more, drop)]
                 /\ Without(more, drop) = all[n + 1]
  BY <1>3, WithoutUnfolds
<1> DEFINE Good(m) == kept[m] \in Seq(S) /\ all[m + 1] = <<e>> \o kept[m]
           Bad == {m \in Nat : m <= n /\ ~ Good(m)}
<1>6. Bad = {}
  <2>1. SUFFICES ASSUME Bad # {} PROVE FALSE
    OBVIOUS
  <2>2. PICK m \in Bad : \A k \in Bad : m <= k
    BY <2>1, LeastNatural
  <2>3. CASE m = 0
    <3>1. kept[0] = <<>> /\ all[0] = <<>>
      BY <1>4, <1>5 DEF KeptAt
    <3>2. all[1] = KeptAt(all, 1, more, drop)
      <4>1. 1 \in 0 .. (n + 1)
        OBVIOUS
      <4> QED BY <1>5, <4>1, Zenon
    <3>3. all[1] = Append(<<>>, e)
      <4>1. all[1] = IF more[1] \in drop THEN all[0] ELSE Append(all[0], more[1])
        <5>1. 1 # 0 /\ 1 - 1 = 0
          OBVIOUS
        <5> QED BY <3>2, <5>1 DEF KeptAt
      <4> QED BY <1>3, <3>1, <4>1
    <3>4. <<>> \in Seq(S) /\ Append(<<>>, e) = <<e>> \o <<>>
      OBVIOUS
    <3>5. Good(0)
      BY <3>1, <3>3, <3>4
    <3> QED BY <2>2, <2>3, <3>5
  <2>4. CASE m # 0
    <3>1. m \in Nat \ {0} /\ m <= n /\ m \in 0 .. n /\ m \in 1 .. n /\ m + 1 \in 0 .. (n + 1)
      BY <2>2, <2>4
    <3>2. Good(m - 1)
      <4>1. m - 1 \notin Bad /\ m - 1 \in Nat /\ m - 1 <= n
        BY <2>2, <3>1
      <4> HIDE DEF Good
      <4> QED BY <4>1
    <3>3. PICK t \in Seq(S) : t = kept[m - 1] /\ all[m] = <<e>> \o t
      <4>1. (m - 1) + 1 = m
        BY <3>1
      <4> QED BY <3>2, <4>1
    <3>4. kept[m] = IF s[m] \in drop THEN t ELSE Append(t, s[m])
      <4>1. kept[m] = KeptAt(kept, m, s, drop)
        BY <1>4, <3>1, Zenon
      <4> QED BY <3>1, <3>3, <4>1 DEF KeptAt
    <3>5. all[m + 1] = IF s[m] \in drop THEN all[m] ELSE Append(all[m], s[m])
      <4>1. all[m + 1] = KeptAt(all, m + 1, more, drop)
        BY <1>5, <3>1, Zenon
      <4>2. m + 1 # 0 /\ (m + 1) - 1 = m /\ more[m + 1] = s[m]
        BY <1>3, <3>1
      <4> QED BY <4>1, <4>2 DEF KeptAt
    <3>6. s[m] \in S
      BY <1>3, <3>1
    <3>7. Good(m)
      <4>1. CASE s[m] \in drop
        BY <3>3, <3>4, <3>5, <4>1
      <4>2. CASE s[m] \notin drop
        <5>1. Append(t, s[m]) \in Seq(S)
          BY <3>6
        <5>2. all[m + 1] = <<e>> \o Append(t, s[m])
          <6>1. PICK x \in S : x = s[m]
            BY <3>6
          <6>2. Append(<<e>> \o t, x) = <<e>> \o Append(t, x)
            BY <1>0
          <6> QED BY <3>3, <3>5, <4>2, <6>1, <6>2
        <5> QED BY <3>4, <4>2, <5>1, <5>2
      <4> QED BY <4>1, <4>2
    <3> QED BY <2>2, <3>7
  <2> QED BY <2>3, <2>4
<1>7. Good(n)
  <2> HIDE DEF Good
  <2> QED BY <1>6
<1> QED BY <1>1, <1>4, <1>5, <1>7

LEMMA WithoutNothing == ASSUME NEW drop PROVE Without(<<>>, drop) = <<>>
<1>1. <<>> \in Seq({}) /\ Len(<<>>) = 0
  OBVIOUS
<1>2. PICK kept : kept = [i \in 0 .. 0 |-> KeptAt(kept, i, <<>>, drop)] /\ Without(<<>>, drop) = kept[0]
  BY <1>1, WithoutUnfolds
<1> QED BY <1>2 DEF KeptAt

-----------------------------------------------------------------------------
(* A function that gives each number what comes of the value before it.    *)
Iterates(f, S, n, start, step) ==
  /\ f \in [0..n -> S]
  /\ f = [i \in 0..n |-> IF i = 0 THEN start ELSE step[i][f[i - 1]]]

(* There is such a function.                                               *)
LEMMA IterationExists ==
  ASSUME NEW S, NEW n \in Nat, NEW start \in S, NEW step \in [1..n -> [S -> S]]
  PROVE  \E f : Iterates(f, S, n, start, step)
<1> DEFINE Solves(f, m) == /\ f \in [0..m -> S]
                           /\ f[0] = start /\ \A i \in 1..m : f[i] = step[i][f[i - 1]]
           Unsolved == {m \in Nat : m <= n /\ ~\E f : Solves(f, m)}
<1>1. Unsolved = {}
  <2>1. SUFFICES ASSUME Unsolved # {} PROVE FALSE
    OBVIOUS
  <2>2. PICK m \in Unsolved : \A k \in Unsolved : m <= k
    BY <2>1, LeastNatural
  <2>3. CASE m = 0
    <3>1. Solves([i \in 0..0 |-> start], 0)
      OBVIOUS
    <3> QED BY <2>2, <2>3, <3>1
  <2>4. CASE m # 0
    <3>1. m - 1 \in Nat /\ m - 1 \notin Unsolved /\ m \in 1..n
      BY <2>2, <2>4
    <3>2. PICK f : Solves(f, m - 1)
      BY <3>1
    <3> DEFINE g == [i \in 0..m |-> IF i = m THEN step[m][f[m - 1]] ELSE f[i]]
    <3>3. m - 1 \in 0..(m - 1) /\ f[m - 1] \in S /\ step[m][f[m - 1]] \in S
      BY <3>1, <3>2
    <3>4. \A i \in 0..m : i # m => i \in 0..(m - 1) /\ f[i] \in S /\ g[i] = f[i]
      BY <3>1, <3>2
    <3>5. g \in [0..m -> S] /\ g[m] = step[m][f[m - 1]]
      BY <3>1, <3>3, <3>4
    <3>6. g[m - 1] = f[m - 1] /\ g[0] = f[0]
      BY <3>1, <3>4
    <3> HIDE DEF g
    <3>7. \A i \in 1..m : g[i] = step[i][g[i - 1]]
      <4>1. TAKE i \in 1..m
      <4>2. CASE i = m
        BY <3>5, <3>6, <4>2
      <4>3. CASE i # m
        <5>1. i \in 1..(m - 1) /\ i - 1 \in 0..m /\ i - 1 # m /\ i \in 0..m
          BY <3>1, <4>3
        <5> QED BY <3>2, <3>4, <4>3, <5>1
      <4> QED BY <4>2, <4>3
    <3>8. Solves(g, m)
      BY <3>2, <3>5, <3>6, <3>7
    <3> QED BY <2>2, <3>8
  <2> QED BY <2>3, <2>4
<1>2. PICK f : Solves(f, n)
  BY <1>1
<1>3. f = [i \in 0..n |-> f[i]] /\ \A i \in 0..n : i # 0 => i \in 1..n
  BY <1>2
<1>4. f = [i \in 0..n |-> IF i = 0 THEN start ELSE step[i][f[i - 1]]]
  BY <1>2, <1>3
<1> QED BY <1>2, <1>4 DEF Iterates
=============================================================================
