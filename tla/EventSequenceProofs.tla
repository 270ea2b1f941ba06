------------------------ MODULE EventSequenceProofs ------------------------
(***************************************************************************)
(* Theorems about EventSequence, for every number of items, policy of      *)
(* failure, number of decisions and number of faults.                      *)
(***************************************************************************)
EXTENDS EventSequence, SequenceTheorems, WellFoundedInduction, TLAPS

----------------------------------------------------------------------------
(* NUMBERS, RECURSION, SEQUENCES *)

Smaller == {p \in Nat \X Nat : p[1] < p[2]}
LEMMA SmallerWellFounded == IsWellFoundedOn(Smaller, Nat)
BY NatLessThanWellFounded DEF OpToRel, Smaller

(* A set of naturals has a least element.                                  *)
LEMMA MinOf ==
  ASSUME NEW S, S \subseteq Nat, S # {}
  PROVE  Min(S) \in S /\ \A y \in S : Min(S) <= y
<1>1. PICK x \in S : \A y \in S : ~(<<y, x>> \in Smaller)
  BY SmallerWellFounded, WFMin, Zenon
<1>2. ASSUME NEW y \in S PROVE x <= y
  <2>1. x \in Nat /\ y \in Nat /\ ~(<<y, x>> \in Smaller)
    BY <1>1
  <2>2. ~(y < x)
    BY <2>1 DEF Smaller
  <2> QED
    BY <2>1, <2>2
<1> QED
  BY <1>2 DEF Min

LEMMA Induction ==
  ASSUME NEW G, 0 \in G, \A n \in Nat : n \in G => n + 1 \in G
  PROVE  Nat \subseteq G
<1> SUFFICES ASSUME Nat \ G # {} PROVE FALSE
  OBVIOUS
<1> DEFINE x == Min(Nat \ G)
<1>1. x \in Nat \ G /\ \A y \in Nat \ G : x <= y
  BY MinOf
<1> HIDE DEF x
<1>2. x # 0 /\ x - 1 \in Nat /\ ~(x <= x - 1) /\ x - 1 + 1 = x
  BY <1>1
<1> QED
  BY <1>1, <1>2

(* A function on 0..k by its value at 0 and its step.                      *)
Follows(X, a, k, step, f) ==
  f \in [0..k -> X] /\ f[0] = a /\ \A n \in 1..k : f[n] = step[n][f[n - 1]]
LEMMA Recursion ==
  ASSUME NEW X, NEW a \in X, NEW k \in Nat, NEW step \in [1..k -> [X -> X]]
  PROVE  \E f : Follows(X, a, k, step, f)
<1> DEFINE P(m, f) == f \in [0..m -> X] /\ f[0] = a /\ \A n \in 1..m : f[n] = step[n][f[n - 1]]
           G == {m \in Nat : m <= k => \E f : P(m, f)}
<1>1. 0 \in G
  <2>1. P(0, [n \in 0..0 |-> a])
    OBVIOUS
  <2> QED
    BY <2>1
<1>2. ASSUME NEW m \in Nat, m \in G PROVE m + 1 \in G
  <2> SUFFICES ASSUME m + 1 <= k PROVE \E f : P(m + 1, f)
    BY <1>2
  <2>1. PICK f : P(m, f)
    BY <1>2
  <2> DEFINE y == step[m + 1][f[m]]
             g == [n \in 0..(m + 1) |-> IF n = m + 1 THEN y ELSE f[n]]
  <2>2. y \in X
    <3>1. m + 1 \in 1..k /\ f[m] \in X
      BY <2>1
    <3> QED
      BY <3>1
  <2> HIDE DEF y
  <2>3. g \in [0..(m + 1) -> X]
    BY <2>1, <2>2
  <2>4. g[m + 1] = y /\ \A n \in 0..m : g[n] = f[n]
    OBVIOUS
  <2> HIDE DEF g
  <2>5. ASSUME NEW n \in 1..(m + 1) PROVE g[n] = step[n][g[n - 1]]
    <3>1. n - 1 \in 0..m /\ (n = m + 1 \/ n \in 1..m) /\ (n = m + 1 => n - 1 = m)
      OBVIOUS
    <3> QED
      BY <2>1, <2>4, <3>1 DEF y
  <2>6. g[0] = a
    BY <2>1, <2>4
  <2> QED
    BY <2>3, <2>5, <2>6
<1> HIDE DEF G
<1>3. k \in G
  BY <1>1, <1>2, Induction
<1> QED
  BY <1>3 DEF G, Follows

(* What each step of the recursion keeps, its result keeps.                *)
LEMMA Stepwise ==
  ASSUME NEW X, NEW k \in Nat, NEW f \in [0..k -> X], NEW G,
         f[0] \in G[0], \A n \in 1..k : f[n - 1] \in G[n - 1] => f[n] \in G[n]
  PROVE  f[k] \in G[k]
<1> DEFINE N == {n \in Nat : n <= k => f[n] \in G[n]}
<1>1. 0 \in N
  OBVIOUS
<1>2. ASSUME NEW n \in Nat, n \in N PROVE n + 1 \in N
  <2>1. n + 1 <= k => n + 1 \in 1..k /\ n + 1 - 1 = n /\ n <= k
    OBVIOUS
  <2> QED
    BY <1>2, <2>1
<1> HIDE DEF N
<1>3. k \in N
  BY <1>1, <1>2, Induction
<1> QED
  BY <1>3 DEF N

(* R orders the elements of s. *)
Sorted(s, R) == \A i, j \in DOMAIN s : i < j => <<s[i], s[j]>> \in R

LEMMA HeadTail ==
  ASSUME NEW S, NEW s \in Seq(S), s # <<>>
  PROVE  /\ Head(s) \in S /\ Tail(s) \in Seq(S) /\ Elements(s) = {Head(s)} \cup Elements(Tail(s))
         /\ \A R : Sorted(s, R) => /\ Sorted(Tail(s), R)
                                  /\ \A e \in Elements(Tail(s)) : <<Head(s), e>> \in R
<1>1. Head(s) \in S /\ Tail(s) \in Seq(S)
  BY HeadTailProperties
<1>2. Len(s) \in Nat /\ Len(s) >= 1 /\ Head(s) = s[1] /\ DOMAIN s = 1..Len(s) /\ 1 \in DOMAIN s
  OBVIOUS
<1>3. Len(Tail(s)) = Len(s) - 1 /\ \A i \in 1..Len(Tail(s)) : Tail(s)[i] = s[i + 1]
  BY HeadTailProperties
<1>4. DOMAIN Tail(s) = 1..(Len(s) - 1)
  BY <1>1, <1>3
<1>5. \A i \in DOMAIN Tail(s) : i + 1 \in DOMAIN s /\ 1 < i + 1 /\ Tail(s)[i] = s[i + 1]
  BY <1>2, <1>3, <1>4
<1>6. \A i \in DOMAIN s : i = 1 \/ (i - 1 \in DOMAIN Tail(s) /\ s[i] = Tail(s)[i - 1])
  BY <1>2, <1>3, <1>4
<1>7. Elements(s) = {Head(s)} \cup Elements(Tail(s))
  <2>1. ASSUME NEW i \in DOMAIN s PROVE s[i] \in {Head(s)} \cup Elements(Tail(s))
    BY <1>2, <1>6 DEF Elements
  <2>2. Head(s) \in Elements(s)
    BY <1>2 DEF Elements
  <2>3. ASSUME NEW i \in DOMAIN Tail(s) PROVE Tail(s)[i] \in Elements(s)
    BY <1>5 DEF Elements
  <2>4. Elements(s) \subseteq {Head(s)} \cup Elements(Tail(s))
    BY <2>1, Zenon DEF Elements
  <2>5. Elements(Tail(s)) \subseteq Elements(s)
    BY <2>3, Zenon DEF Elements
  <2> QED
    BY <2>2, <2>4, <2>5
<1>8. ASSUME NEW R, Sorted(s, R) PROVE Sorted(Tail(s), R)
  <2>1. \A i, j \in DOMAIN Tail(s) : i < j => i + 1 < j + 1
    BY <1>4
  <2> QED
    BY <1>5, <1>8, <2>1 DEF Sorted
<1>9. ASSUME NEW R, Sorted(s, R) PROVE \A e \in Elements(Tail(s)) : <<Head(s), e>> \in R
  BY <1>2, <1>5, <1>9 DEF Sorted, Elements
<1> QED
  BY <1>1, <1>7, <1>8, <1>9

LEMMA Joined ==
  ASSUME NEW S, NEW s \in Seq(S), NEW t \in Seq(S)
  PROVE  /\ s \o t \in Seq(S) /\ Elements(s \o t) = Elements(s) \cup Elements(t)
         /\ \A R : Sorted(s, R) /\ Sorted(t, R) /\ (\A x \in Elements(s), y \in Elements(t) : <<x, y>> \in R)
                  => Sorted(s \o t, R)
<1> DEFINE u == s \o t
<1>1. /\ u \in Seq(S) /\ Len(u) = Len(s) + Len(t)
      /\ \A i \in 1..(Len(s) + Len(t)) : u[i] = IF i <= Len(s) THEN s[i] ELSE t[i - Len(s)]
  BY ConcatProperties
<1> HIDE DEF u
<1>2. Len(s) \in Nat /\ Len(t) \in Nat /\ DOMAIN s = 1..Len(s) /\ DOMAIN t = 1..Len(t)
      /\ DOMAIN u = 1..(Len(s) + Len(t))
  BY <1>1
<1>3. \A i \in DOMAIN u : \/ i \in DOMAIN s /\ i <= Len(s) /\ u[i] = s[i]
                          \/ i - Len(s) \in DOMAIN t /\ i > Len(s) /\ u[i] = t[i - Len(s)]
  BY <1>1, <1>2
<1>4. \A i \in DOMAIN s : i \in DOMAIN u /\ u[i] = s[i]
  BY <1>1, <1>2
<1>5. ASSUME NEW i \in DOMAIN t PROVE i + Len(s) \in DOMAIN u /\ u[i + Len(s)] = t[i]
  <2>1. i + Len(s) \in 1..(Len(s) + Len(t)) /\ ~(i + Len(s) <= Len(s)) /\ i + Len(s) - Len(s) = i
    BY <1>2
  <2> QED
    BY <1>1, <1>2, <2>1
<1>6. Elements(u) = Elements(s) \cup Elements(t)
  BY <1>3, <1>4, <1>5 DEF Elements
<1>7. ASSUME NEW R, Sorted(s, R), Sorted(t, R), \A x \in Elements(s), y \in Elements(t) : <<x, y>> \in R,
             NEW i \in DOMAIN u, NEW j \in DOMAIN u, i < j
      PROVE  <<u[i], u[j]>> \in R
  <2>1. CASE i > Len(s)
    <3>1. i - Len(s) \in DOMAIN t /\ j - Len(s) \in DOMAIN t /\ i - Len(s) < j - Len(s)
          /\ u[i] = t[i - Len(s)] /\ u[j] = t[j - Len(s)]
      BY <1>2, <1>3, <1>7, <2>1
    <3> QED
      BY <1>7, <3>1 DEF Sorted
  <2>2. CASE i <= Len(s) /\ j > Len(s)
    <3>1. i \in DOMAIN s /\ j - Len(s) \in DOMAIN t /\ u[i] = s[i] /\ u[j] = t[j - Len(s)]
      BY <1>2, <1>3, <2>2
    <3> QED
      BY <1>7, <3>1 DEF Elements
  <2>3. CASE j <= Len(s)
    <3>1. i \in DOMAIN s /\ j \in DOMAIN s /\ u[i] = s[i] /\ u[j] = s[j]
      BY <1>2, <1>3, <1>7, <2>3
    <3> QED
      BY <1>7, <3>1 DEF Sorted
  <2> QED
    BY <1>2, <2>1, <2>2, <2>3
<1> QED
  BY <1>1, <1>6, <1>7 DEF Sorted, u

LEMMA Alone ==
  ASSUME NEW S, NEW e \in S
  PROVE  <<e>> \in Seq(S) /\ Elements(<<e>>) = {e} /\ \A R : Sorted(<<e>>, R)
<1>1. <<e>> \in Seq(S) /\ DOMAIN <<e>> = 1..1 /\ <<e>>[1] = e
  OBVIOUS
<1>2. \A i \in 1..1 : i = 1
  OBVIOUS
<1>3. 1 \in 1..1 /\ ~(1 < 1)
  OBVIOUS
<1> QED
  BY <1>1, <1>2, <1>3 DEF Elements, Sorted

LEMMA Appended ==
  ASSUME NEW S, NEW s \in Seq(S), NEW e \in S
  PROVE  /\ Append(s, e) \in Seq(S) /\ Elements(Append(s, e)) = Elements(s) \cup {e}
         /\ \A R : Sorted(s, R) /\ (\A x \in Elements(s) : <<x, e>> \in R) => Sorted(Append(s, e), R)
<1> DEFINE t == <<e>>
<1>1. Append(s, e) = s \o t
  BY AppendIsConcat
<1>2. t \in Seq(S) /\ Elements(t) = {e} /\ \A R : Sorted(t, R)
  BY Alone
<1> HIDE DEF t
<1>3. s \o t \in Seq(S) /\ Elements(s \o t) = Elements(s) \cup {e}
  BY <1>2, Joined
<1>4. ASSUME NEW R, Sorted(s, R), \A x \in Elements(s) : <<x, e>> \in R PROVE Sorted(s \o t, R)
  <2>1. \A x \in Elements(s), y \in Elements(t) : <<x, y>> \in R
    BY <1>2, <1>4
  <2> QED
    BY <1>2, <1>4, <2>1, Joined
<1> QED
  BY <1>1, <1>3, <1>4

LEMMA EmptyHasNone == Elements(<<>>) = {} /\ \A R : Sorted(<<>>, R)
BY DEF Elements, Sorted

LEMMA NoneIsEmpty == ASSUME NEW S, NEW s \in Seq(S), Elements(s) = {} PROVE s = <<>>
<1>1. Len(s) \in Nat /\ DOMAIN s = 1..Len(s)
  OBVIOUS
<1>2. 1 \notin DOMAIN s
  BY DEF Elements
<1> QED
  BY <1>1, <1>2, EmptySeq

(* What Without keeps. *)
LEMMA WithoutKeeps ==
  ASSUME NEW S, NEW s \in Seq(S), NEW gone
  PROVE  /\ Without(s, gone) \in Seq(S) /\ Elements(Without(s, gone)) = Elements(s) \ gone
         /\ \A R : Sorted(s, R) => Sorted(Without(s, gone), R)
<1> DEFINE L == Len(s)
           X == Seq(S)
           step == [n \in 1..L |-> [x \in X |-> IF s[n] \in gone THEN x ELSE Append(x, s[n])]]
           Def(h) == h = [n \in 0..L |-> IF n = 0 THEN <<>>
                                        ELSE IF s[n] \in gone THEN h[n - 1] ELSE Append(h[n - 1], s[n])]
<1>1. L \in Nat /\ DOMAIN s = 1..L /\ \A n \in 1..L : s[n] \in S
  OBVIOUS
<1>2. <<>> \in X /\ step \in [1..L -> [X -> X]]
  <2>1. ASSUME NEW n \in 1..L, NEW x \in X PROVE Append(x, s[n]) \in X
    BY <1>1
  <2> QED
    BY <2>1
<1>3. PICK f : Follows(X, <<>>, L, step, f)
  <2> HIDE DEF L, X, step
  <2> QED
    BY <1>1, <1>2, Recursion
<1>4. ASSUME NEW n \in 1..L
      PROVE  n - 1 \in 0..L /\ n # 0 /\ f[n - 1] \in X
             /\ f[n] = IF s[n] \in gone THEN f[n - 1] ELSE Append(f[n - 1], s[n])
  <2>1. n - 1 \in 0..L /\ n # 0
    BY <1>1
  <2> QED
    BY <1>3, <2>1 DEF Follows
<1>5. Def(f)
  <2>1. \A n \in 0..L : n = 0 \/ n \in 1..L
    BY <1>1
  <2>2. f = [n \in 0..L |-> f[n]]
    BY <1>3 DEF Follows
  <2> HIDE DEF L, X
  <2>3. \A n \in 0..L : f[n] = IF n = 0 THEN <<>> ELSE IF s[n] \in gone THEN f[n - 1] ELSE Append(f[n - 1], s[n])
    BY <1>3, <1>4, <2>1 DEF Follows
  <2> QED
    BY <2>2, <2>3
<1> DEFINE h == CHOOSE h : Def(h)
<1>6. Def(h)
  <2> HIDE DEF Def
  <2> QED
    BY <1>5
<1>7. Without(s, gone) = h[L]
  BY DEF Without
<1> HIDE DEF h
<1>8. h \in [0..L -> X] /\ h[0] = <<>> /\ \A n \in 1..L : h[n] = IF s[n] \in gone THEN h[n - 1] ELSE Append(h[n - 1], s[n])
  <2>1. DOMAIN h = 0..L /\ h = [n \in 0..L |-> h[n]]
    BY <1>6
  <2>2. \A n \in 0..L : h[n] = IF n = 0 THEN <<>> ELSE IF s[n] \in gone THEN h[n - 1] ELSE Append(h[n - 1], s[n])
    BY <1>6
  <2>3. 0 \in 0..L /\ \A n \in 1..L : n \in 0..L /\ n # 0 /\ n - 1 \in 0..L /\ n - 1 + 1 = n
    BY <1>1
  <2>4. h[0] = <<>> /\ \A n \in 1..L : h[n] = IF s[n] \in gone THEN h[n - 1] ELSE Append(h[n - 1], s[n])
    BY <2>2, <2>3
  <2> DEFINE N == {n \in Nat : n <= L => h[n] \in X}
  <2>5. 0 \in N
    BY <1>2, <2>4
  <2>6. ASSUME NEW n \in Nat, n \in N PROVE n + 1 \in N
    <3>1. n + 1 <= L => n + 1 \in 1..L /\ n + 1 - 1 = n /\ n <= L /\ s[n + 1] \in S
      BY <1>1
    <3>2. ASSUME n + 1 <= L PROVE h[n + 1] \in X
      <4>1. h[n] \in X /\ s[n + 1] \in S
        BY <2>6, <3>1, <3>2
      <4>2. Append(h[n], s[n + 1]) \in X
        BY <4>1
      <4>3. h[n + 1] = IF s[n + 1] \in gone THEN h[n] ELSE Append(h[n], s[n + 1])
        BY <2>4, <3>1, <3>2
      <4> QED
        BY <4>1, <4>2, <4>3
    <3> QED
      BY <3>2
  <2> HIDE DEF N
  <2>7. Nat \subseteq N
    BY <2>5, <2>6, Induction
  <2>8. \A n \in 0..L : h[n] \in X
    BY <1>1, <2>7 DEF N
  <2> QED
    BY <2>1, <2>4, <2>8
<1> DEFINE Kept(n) == {x \in X : /\ Elements(x) = {s[i] : i \in 1..n} \ gone
                                 /\ \A R : Sorted(s, R) => Sorted(x, R)}
           G == [n \in 0..L |-> Kept(n)]
<1>9. h[0] \in G[0]
  <2>1. {s[i] : i \in 1..0} = {} /\ 0 \in 0..L
    BY <1>1
  <2> QED
    BY <1>2, <1>8, <2>1, EmptyHasNone
<1>10. ASSUME NEW n \in 1..L, h[n - 1] \in G[n - 1] PROVE h[n] \in G[n]
  <2>1. n \in 0..L /\ n - 1 \in 0..L /\ n \in DOMAIN s /\ s[n] \in S
    BY <1>1
  <2>2. {s[i] : i \in 1..n} = {s[i] : i \in 1..(n - 1)} \cup {s[n]}
    BY <1>1
  <2> DEFINE x == h[n - 1]
  <2>3. /\ x \in X /\ Elements(x) = {s[i] : i \in 1..(n - 1)} \ gone
        /\ \A R : Sorted(s, R) => Sorted(x, R)
    BY <1>10, <2>1
  <2>4. h[n] = IF s[n] \in gone THEN x ELSE Append(x, s[n])
    BY <1>8
  <2> HIDE DEF x
  <2>5. CASE s[n] \in gone
    BY <2>1, <2>2, <2>3, <2>4, <2>5
  <2>6. CASE s[n] \notin gone
    <3>1. h[n] \in X /\ Elements(h[n]) = Elements(x) \cup {s[n]}
      BY <2>1, <2>3, <2>4, <2>6, Appended
    <3>2. ASSUME NEW R, Sorted(s, R) PROVE Sorted(h[n], R)
      <4>1. \A i \in 1..(n - 1) : <<s[i], s[n]>> \in R
        <5>1. \A i \in 1..(n - 1) : i \in DOMAIN s /\ i < n
          BY <1>1
        <5> QED
          BY <2>1, <3>2, <5>1 DEF Sorted
      <4>2. \A y \in Elements(x) : <<y, s[n]>> \in R
        BY <2>3, <4>1
      <4> QED
        BY <2>1, <2>3, <2>4, <2>6, <3>2, <4>2, Appended
    <3> QED
      BY <2>1, <2>2, <2>3, <2>6, <3>1, <3>2
  <2> QED
    BY <2>5, <2>6
<1> HIDE DEF G, L, X
<1>11. h[L] \in G[L]
  BY <1>1, <1>8, <1>9, <1>10, Stepwise
<1>12. L \in 0..L /\ {s[i] : i \in 1..L} = Elements(s)
  BY <1>1 DEF Elements
<1> QED
  BY <1>7, <1>11, <1>12 DEF G, X

(* What every line of a page keeps, the page keeps.                        *)
LEMMA AppliedKeeps ==
  ASSUME NEW X, NEW r \in X, NEW S, NEW s \in Seq(S), NEW G, r \in G[0],
         \A n \in 1..Len(s) : \A x \in X : /\ Apply(x, s[n]) \in X
                                           /\ x \in G[n - 1] => Apply(x, s[n]) \in G[n]
  PROVE  Applied(r, s) \in X /\ Applied(r, s) \in G[Len(s)]
<1> DEFINE L == Len(s)
           step == [n \in 1..L |-> [x \in X |-> Apply(x, s[n])]]
           Def(h) == h = [n \in 0..L |-> IF n = 0 THEN r ELSE Apply(h[n - 1], s[n])]
<1>1. L \in Nat /\ step \in [1..L -> [X -> X]]
  OBVIOUS
<1>2. PICK f : Follows(X, r, L, step, f)
  <2> HIDE DEF L, step
  <2> QED
    BY <1>1, Recursion
<1>3. ASSUME NEW n \in 1..L
      PROVE  n - 1 \in 0..L /\ n # 0 /\ f[n - 1] \in X /\ f[n] = Apply(f[n - 1], s[n])
  <2>1. n - 1 \in 0..L /\ n # 0
    BY <1>1
  <2> QED
    BY <1>2, <2>1 DEF Follows
<1>4. Def(f)
  <2> HIDE DEF L
  <2>1. \A n \in 0..L : n = 0 \/ n \in 1..L
    BY <1>1
  <2>2. f = [n \in 0..L |-> f[n]] /\ f[0] = r
    BY <1>2 DEF Follows
  <2>3. \A n \in 0..L : f[n] = IF n = 0 THEN r ELSE Apply(f[n - 1], s[n])
    BY <1>3, <2>1, <2>2
  <2> QED
    BY <2>2, <2>3
<1> DEFINE h == CHOOSE h : Def(h)
<1>5. Def(h)
  <2> HIDE DEF Def
  <2> QED
    BY <1>4
<1>6. Applied(r, s) = h[L]
  BY DEF Applied
<1> HIDE DEF h
<1>7. h[0] = r /\ \A n \in 1..L : n \in 0..L /\ n - 1 \in 0..L /\ h[n] = Apply(h[n - 1], s[n])
  <2> HIDE DEF L
  <2>1. 0 \in 0..L /\ \A n \in 1..L : n \in 0..L /\ n # 0 /\ n - 1 \in 0..L
    BY <1>1
  <2>2. \A n \in 0..L : h[n] = IF n = 0 THEN r ELSE Apply(h[n - 1], s[n])
    BY <1>5
  <2> QED
    BY <2>1, <2>2
<1> DEFINE N == {n \in Nat : n <= L => h[n] \in X /\ h[n] \in G[n]}
<1>8. 0 \in N
  BY <1>7
<1>9. ASSUME NEW n \in Nat, n \in N PROVE n + 1 \in N
  <2>1. ASSUME n + 1 <= L PROVE h[n + 1] \in X /\ h[n + 1] \in G[n + 1]
    <3>1. n + 1 \in 1..L /\ n + 1 - 1 = n /\ n <= L
      BY <1>1, <2>1
    <3>2. h[n + 1] = Apply(h[n], s[n + 1]) /\ h[n] \in X /\ h[n] \in G[n]
      BY <1>7, <1>9, <3>1
    <3> QED
      BY <3>1, <3>2
  <2> QED
    BY <2>1
<1> HIDE DEF N
<1>10. L \in N
  BY <1>1, <1>8, <1>9, Induction
<1> QED
  BY <1>1, <1>6, <1>10 DEF N

----------------------------------------------------------------------------
(* ROWS *)

ExecStates == Active \cup Over
ItemStates == {"PENDING", "QUEUED", "STARTED"} \cup Finished
OccStates  == {"none", "READY", "QUEUED", "STARTED", "COMPLETED", "FAILED", "CANCELLED"}
Statuses   == {"none", "selected", "submitting", "queued", "started", "failed"}
JobStates  == {"none", "pending", "done"}
RowSet == [exec: ExecStates, item: [Item -> ItemStates], occ: OccStates, status: [Decision -> Statuses],
           bound: [Decision -> Nat], job: [Decision -> JobStates]]
LogLine == [kind: {"START", "END"}, dec: Decision]
Places  == {"collect", "inventory", "reconcile", "resolve", "sweep", "act", "push", "ack", "push one", "ack one"}

RowType ==
  /\ exec \in ExecStates /\ abort \in BOOLEAN /\ item \in [Item -> ItemStates]
  /\ try \in [Item -> 0..MaxTry] /\ timed \in BOOLEAN /\ linked \in BOOLEAN /\ occ \in OccStates
  /\ status \in [Decision -> Statuses] /\ bound \in [Decision -> Nat] /\ job \in [Decision -> JobStates]
EngineType ==
  /\ epoch \in Nat /\ queue \in Seq(Decision) /\ onair \in Decision \cup {Silence}
  /\ log \in Seq(LogLine) /\ aired \in Seq([item: Item, epoch: Nat])
WorkerType ==
  /\ pc \in Places /\ block \in BOOLEAN /\ seen \subseteq Decision /\ late \in [Decision -> 0..2]
  /\ missing \in [Decision -> {"no", "open", "closed"}] /\ batch \in Seq(Decision)
  /\ held \in BOOLEAN /\ faults \in 0..MaxFault

LEMMA TypeParts == TypeOK <=> RowType /\ EngineType /\ WorkerType /\ known \subseteq Decision
BY DEF TypeOK, RowType, EngineType, WorkerType, ExecStates, ItemStates, OccStates, Statuses, JobStates, LogLine, Places

LEMMA RowsTyped == RowType => /\ Rows \in RowSet
                              /\ Rows.exec = exec /\ Rows.item = item /\ Rows.occ = occ
                              /\ Rows.status = status /\ Rows.bound = bound /\ Rows.job = job
BY DEF RowType, Rows, RowSet

LEMMA Written ==
  ASSUME NEW r, Write(r)
  PROVE  exec' = r.exec /\ item' = r.item /\ occ' = r.occ /\ status' = r.status /\ bound' = r.bound /\ job' = r.job
BY DEF Write

LEMMA WrittenType ==
  ASSUME RowType, NEW r \in RowSet, Write(r), UNCHANGED <<abort, try, timed, linked>>
  PROVE  RowType'
BY Written DEF RowType, RowSet

(* An item's decision, and the item of a decision.                         *)
LEMMA Owned ==
  ASSUME RowType
  PROVE  /\ \A d \in Decision : /\ d.item \in Item /\ d.try \in 1..MaxTry
                                /\ Owns(d) <=> Has(d.item) /\ Dec(d.item) = d
         /\ \A p \in Item : /\ Has(p) => Dec(p) \in Decision /\ Owns(Dec(p))
                            /\ Dec(p).item = p /\ Dec(p).try = try[p] /\ try[p] \in 0..MaxTry
<1>1. ASSUME NEW d \in Decision PROVE d.item \in Item /\ d.try \in 1..MaxTry /\ d = [item |-> d.item, try |-> d.try] /\ d.try # 0
  BY DEF Decision
<1>2. ASSUME NEW d \in Decision PROVE Owns(d) <=> Has(d.item) /\ Dec(d.item) = d
  BY <1>1 DEF Owns, Has, Dec
<1>3. ASSUME NEW p \in Item PROVE Dec(p).item = p /\ Dec(p).try = try[p] /\ try[p] \in 0..MaxTry
  BY DEF RowType, Dec
<1>4. ASSUME NEW p \in Item, Has(p) PROVE Dec(p) \in Decision
  <2>1. try[p] \in 1..MaxTry
    BY <1>4 DEF RowType, Has
  <2> QED
    BY <2>1 DEF Dec, Decision
<1>5. ASSUME NEW p \in Item, Has(p) PROVE Owns(Dec(p))
  BY <1>3 DEF Owns
<1> QED
  BY <1>1, <1>2, <1>3, <1>4, <1>5

LEMMA ToldRow ==
  ASSUME NEW r \in RowSet, NEW st \in OccStates
  PROVE  /\ Tell(r, st) \in RowSet /\ Tell(r, st).exec = r.exec /\ Tell(r, st).item = r.item
         /\ Tell(r, st).status = r.status /\ Tell(r, st).bound = r.bound /\ Tell(r, st).job = r.job
BY DEF Tell, RowSet

LEMMA FinishedRow ==
  ASSUME NEW r \in RowSet
  PROVE  LET f == FinishExecution(r)
         IN  /\ f \in RowSet /\ f.item = r.item /\ f.status = r.status /\ f.bound = r.bound /\ f.job = r.job
             /\ f.exec = IF \E p \in Item : r.item[p] = "COMPLETED" THEN "COMPLETED" ELSE "FAILED"
<1> DEFINE played == \E p \in Item : r.item[p] = "COMPLETED"
           e == IF played THEN "COMPLETED" ELSE "FAILED"
           s == [r EXCEPT !.exec = e]
<1>1. e \in ExecStates /\ e \in OccStates
  BY DEF ExecStates, OccStates, Active, Over
<1>2. FinishExecution(r) = Tell(s, e)
  BY DEF FinishExecution
<1> HIDE DEF e
<1>3. s \in RowSet /\ s.item = r.item /\ s.status = r.status /\ s.bound = r.bound /\ s.job = r.job /\ s.exec = e
  BY <1>1 DEF RowSet
<1> HIDE DEF s
<1>4. Tell(s, e) \in RowSet /\ Tell(s, e).exec = e /\ Tell(s, e).item = r.item /\ Tell(s, e).status = r.status
      /\ Tell(s, e).bound = r.bound /\ Tell(s, e).job = r.job
  BY <1>1, <1>3, ToldRow
<1> QED
  BY <1>2, <1>4 DEF e

(* The rows of the items that are not over, and what happens to them.      *)
Future(r, d) == Owns(d) /\ r.item[d.item] \in {"PENDING", "QUEUED", "FAILED"}
LEMMA WithdrawnRow ==
  ASSUME RowType, NEW r \in RowSet
  PROVE  LET w == CancelFutureItems(r)
         IN  /\ w \in RowSet /\ w.exec = r.exec /\ w.occ = r.occ /\ w.bound = r.bound
             /\ \A p \in Item : w.item[p] = IF r.item[p] \in {"PENDING", "QUEUED"} THEN "SKIPPED" ELSE r.item[p]
             /\ \A d \in Decision :
                  /\ w.job[d] = IF Future(r, d) /\ r.status[d] \in {"queued", "submitting"} /\ r.job[d] = "none"
                                THEN "pending" ELSE r.job[d]
                  /\ w.status[d] = IF Future(r, d) /\ r.status[d] = "selected" THEN "failed" ELSE r.status[d]
<1> DEFINE future == {p \in Item : r.item[p] \in {"PENDING", "QUEUED", "FAILED"}}
           old == {Dec(p) : p \in {q \in future : Has(q)}}
           j == [d \in Decision |-> IF d \in old /\ r.status[d] \in {"queued", "submitting"} /\ r.job[d] = "none"
                                    THEN "pending" ELSE r.job[d]]
           s == [d \in Decision |-> IF d \in old /\ r.status[d] = "selected" THEN "failed" ELSE r.status[d]]
           i == [p \in Item |-> IF p \in future /\ r.item[p] # "FAILED" THEN "SKIPPED" ELSE r.item[p]]
<1>1. CancelFutureItems(r) = [r EXCEPT !.job = j, !.status = s, !.item = i]
  BY DEF CancelFutureItems, WithdrawItems
<1>2. j \in [Decision -> JobStates] /\ s \in [Decision -> Statuses] /\ i \in [Item -> ItemStates]
  BY DEF RowSet, JobStates, Statuses, ItemStates, Finished
<1>3. ASSUME NEW d \in Decision PROVE d \in old <=> Future(r, d)
  BY Owned DEF Future
<1>4. \A p \in Item : i[p] = IF r.item[p] \in {"PENDING", "QUEUED"} THEN "SKIPPED" ELSE r.item[p]
  OBVIOUS
<1>5. \A d \in Decision :
        /\ j[d] = IF Future(r, d) /\ r.status[d] \in {"queued", "submitting"} /\ r.job[d] = "none"
                  THEN "pending" ELSE r.job[d]
        /\ s[d] = IF Future(r, d) /\ r.status[d] = "selected" THEN "failed" ELSE r.status[d]
  <2> HIDE DEF old
  <2> QED
    BY <1>3
<1> HIDE DEF j, s, i
<1>6. LET w == [r EXCEPT !.job = j, !.status = s, !.item = i]
      IN w \in RowSet /\ w.exec = r.exec /\ w.occ = r.occ /\ w.bound = r.bound /\ w.item = i /\ w.job = j /\ w.status = s
  BY <1>2 DEF RowSet
<1> QED
  BY <1>1, <1>4, <1>5, <1>6

(* A START that is read, and an END.                                       *)
LEMMA ConfirmedRow ==
  ASSUME RowType, epoch \in Nat, NEW r \in RowSet, NEW d \in Decision
  PROVE  LET c == Confirm(r, d)
         IN  /\ c \in RowSet
             /\ r.status[d] \in {"none", "started"} => c = r
             /\ r.status[d] \notin {"none", "started"} =>
                  /\ c.job = r.job /\ c.status[d] = "started"
                  /\ \A e \in Decision : e # d => c.status[e] = r.status[e] /\ c.bound[e] = r.bound[e]
                  /\ ~Owns(d) => c.item = r.item /\ c.exec = r.exec
                  /\ Owns(d) => /\ c.exec = "STARTED" /\ c.item[d.item] = "STARTED"
                                /\ \A p \in Item : p # d.item => c.item[p] =
                                     IF p < d.item /\ r.item[p] = "STARTED" THEN "COMPLETED" ELSE r.item[p]
<1>1. r.status[d] \in Statuses
  BY DEF RowSet
<1>2. CASE r.status[d] \in {"none", "started"}
  BY <1>1, <1>2 DEF Confirm, Statuses
<1>3. CASE r.status[d] \notin {"none", "started"}
  <2> DEFINE b == IF r.status[d] = "submitting" /\ r.bound[d] = 0 THEN epoch ELSE r.bound[d]
             s == [r EXCEPT !.status[d] = "started", !.bound[d] = b]
             i == [p \in Item |-> IF p = d.item THEN "STARTED"
                                  ELSE IF p < d.item /\ r.item[p] = "STARTED"
                                  THEN "COMPLETED" ELSE r.item[p]]
             u == [s EXCEPT !.exec = "STARTED", !.item = i]
  <2>1. Confirm(r, d) = IF ~Owns(d) THEN s ELSE Tell(u, "STARTED")
    BY <1>1, <1>3 DEF Confirm, Statuses
  <2>2. b \in Nat
    BY DEF RowSet
  <2>3. i \in [Item -> ItemStates]
    BY DEF RowSet, ItemStates, Finished
  <2>4. i[d.item] = "STARTED" /\ \A p \in Item : p # d.item => i[p] =
          IF p < d.item /\ r.item[p] = "STARTED" THEN "COMPLETED" ELSE r.item[p]
    BY Owned
  <2> HIDE DEF b, i
  <2>5. /\ s \in RowSet /\ s.exec = r.exec /\ s.item = r.item /\ s.job = r.job
        /\ s.status[d] = "started" /\ \A e \in Decision : e # d => s.status[e] = r.status[e] /\ s.bound[e] = r.bound[e]
    BY <2>2 DEF RowSet, Statuses
  <2>6. "STARTED" \in ExecStates /\ "STARTED" \in OccStates
    BY DEF ExecStates, Active, OccStates
  <2> HIDE DEF s
  <2>7. /\ u \in RowSet /\ u.exec = "STARTED" /\ u.item = i /\ u.job = s.job /\ u.status = s.status
        /\ u.bound = s.bound
    BY <2>3, <2>5, <2>6 DEF RowSet
  <2> HIDE DEF u
  <2>8. LET t == Tell(u, "STARTED")
        IN t \in RowSet /\ t.exec = "STARTED" /\ t.item = i /\ t.job = s.job /\ t.status = s.status /\ t.bound = s.bound
    BY <2>6, <2>7, ToldRow
  <2>9. CASE ~Owns(d)
    BY <1>3, <2>1, <2>5, <2>9
  <2>10. CASE Owns(d)
    BY <1>3, <2>1, <2>4, <2>5, <2>8, <2>10
  <2> QED
    BY <2>9, <2>10
<1> QED
  BY <1>2, <1>3

LEMMA EndedRow ==
  ASSUME RowType, epoch \in Nat, NEW r \in RowSet, NEW d \in Decision
  PROVE  LET f == Finish(r, d)
         IN  /\ f \in RowSet /\ f.status = r.status /\ f.bound = r.bound /\ f.job = r.job
             /\ \/ f = r
                \/ /\ r.item[d.item] = "STARTED" /\ f.exec \in {r.exec, "COMPLETED"}
                   /\ f.item[d.item] = "COMPLETED" /\ \A p \in Item : p # d.item => f.item[p] = r.item[p]
<1> DEFINE s == [r EXCEPT !.item[d.item] = "COMPLETED"]
           all == s.exec \in Active \cup {"COMPLETED"} /\ \A p \in Item : s.item[p] \in Finished
<1>1. CASE r.status[d] # "started" \/ r.bound[d] # epoch \/ ~Owns(d) \/ r.item[d.item] # "STARTED"
  BY <1>1 DEF Finish
<1>2. CASE ~(r.status[d] # "started" \/ r.bound[d] # epoch \/ ~Owns(d) \/ r.item[d.item] # "STARTED")
  <2>1. Finish(r, d) = IF all THEN FinishExecution(s) ELSE s
    BY <1>2 DEF Finish
  <2>2. d.item \in Item
    BY Owned
  <2>3. /\ s \in RowSet /\ s.exec = r.exec /\ s.job = r.job /\ s.status = r.status /\ s.bound = r.bound
        /\ s.item[d.item] = "COMPLETED" /\ \A p \in Item : p # d.item => s.item[p] = r.item[p]
    BY <2>2 DEF RowSet, ItemStates, Finished
  <2> HIDE DEF s, all
  <2>4. LET f == FinishExecution(s)
        IN f \in RowSet /\ f.item = s.item /\ f.status = s.status /\ f.bound = s.bound /\ f.job = s.job
           /\ f.exec = "COMPLETED"
    BY <2>2, <2>3, FinishedRow
  <2> QED
    BY <1>2, <2>1, <2>3, <2>4
<1> QED
  BY <1>1, <1>2

LEMMA AppliedLine ==
  ASSUME RowType, epoch \in Nat, NEW r \in RowSet, NEW line \in LogLine
  PROVE  Apply(r, line) \in RowSet
<1>1. line.dec \in Decision
  BY DEF LogLine
<1> QED
  BY <1>1, ConfirmedRow, EndedRow DEF Apply

----------------------------------------------------------------------------
(* WHAT THE STEPS OF process_block WRITE *)

BatchItems == {d.item : d \in Elements(batch)}
EngineSame == UNCHANGED <<epoch, queue, onair, log, aired>>

LEMMA RestRow ==
  ASSUME RowType
  PROVE  /\ Rest \in RowSet /\ Rest.exec = exec /\ Rest.status = status /\ Rest.bound = bound /\ Rest.job = job
         /\ \A p \in Item : Rest.item[p] = IF p \in LostItems THEN "FAILED" ELSE item[p]
<1> DEFINE i == [p \in Item |-> IF p \in LostItems THEN "FAILED" ELSE item[p]]
<1>1. i \in [Item -> ItemStates]
  BY DEF RowType, ItemStates, Finished
<1>2. Rest = [Rows EXCEPT !.item = i]
  BY DEF Rest
<1> HIDE DEF i
<1>3. Rest \in RowSet /\ Rest.exec = exec /\ Rest.status = status /\ Rest.bound = bound /\ Rest.job = job /\ Rest.item = i
  BY <1>1, <1>2, RowsTyped DEF RowSet
<1> QED
  BY <1>3 DEF i

(* A pass that ends without handing anything over.                         *)
Settled ==
  /\ pc = "act" /\ pc' \in {"sweep", "collect"} /\ block' = (pc' = "sweep") /\ batch' = <<>>
  /\ UNCHANGED <<bound, try, timed, linked, abort, seen, missing, late, held>> /\ EngineSame
  /\ \A d \in Decision : /\ status'[d] = status[d] \/ (status[d] = "selected" /\ status'[d] = "failed")
                         /\ \/ job'[d] = job[d]
                            \/ job[d] = "none" /\ job'[d] = "pending" /\ Owns(d) /\ status[d] # "none"
  /\ \A p \in Item : \/ item'[p] = item[p]
                     \/ item[p] \in {"PENDING", "QUEUED", "STARTED"} /\ item'[p] \in {"FAILED", "SKIPPED"}
                     \/ item[p] = "STARTED" /\ item'[p] = "COMPLETED"
  /\ exec' = "COMPLETED" => exec = "COMPLETED" \/ \E p \in Item : item'[p] = "COMPLETED"
  /\ exec' = "PENDING" => exec = "PENDING" /\ ~Whole
  /\ exec' = "ABORTED" => exec = "ABORTED" \/ (abort /\ \A p \in Item : item'[p] \notin {"PENDING", "QUEUED"})
  /\ \/ /\ job' = job /\ Adopted = {}
        /\ \A p \in Item : item'[p] # item[p] => p \in LostItems \/ item[p] \in {"PENDING", "STARTED"}
     \/ /\ pc' = "sweep"
        /\ \A p \in Item : /\ item'[p] \notin {"PENDING", "QUEUED"}
                           /\ item[p] \in {"PENDING", "QUEUED"} /\ p \notin LostItems => item'[p] = "SKIPPED"
        /\ \A d \in Decision :
             Owns(d) /\ item[d.item] \in {"PENDING", "QUEUED"} /\ status[d] \in {"queued", "submitting"} /\ job[d] = "none"
             => job'[d] = "pending"

(* The row that ends an execution and withdraws what is left of it.        *)
LEMMA EndedAndWithdrawn ==
  ASSUME RowType, NEW b \in RowSet, b.status = status, b.job = job, b.bound = bound,
         NEW st \in OccStates, NEW e \in ExecStates
  PROVE  LET r == [Tell(CancelFutureItems(b), st) EXCEPT !.exec = e]
         IN  /\ r \in RowSet /\ r.exec = e /\ r.bound = bound
             /\ \A p \in Item : r.item[p] = IF b.item[p] \in {"PENDING", "QUEUED"} THEN "SKIPPED" ELSE b.item[p]
             /\ \A d \in Decision :
                  /\ r.job[d] = IF Future(b, d) /\ status[d] \in {"queued", "submitting"} /\ job[d] = "none"
                                THEN "pending" ELSE job[d]
                  /\ r.status[d] = IF Future(b, d) /\ status[d] = "selected" THEN "failed" ELSE status[d]
<1> DEFINE w == CancelFutureItems(b)
           t == Tell(w, st)
           r == [t EXCEPT !.exec = e]
<1>1. /\ w \in RowSet /\ w.bound = bound
      /\ \A p \in Item : w.item[p] = IF b.item[p] \in {"PENDING", "QUEUED"} THEN "SKIPPED" ELSE b.item[p]
      /\ \A d \in Decision :
                  /\ w.job[d] = IF Future(b, d) /\ status[d] \in {"queued", "submitting"} /\ job[d] = "none"
                                THEN "pending" ELSE job[d]
                  /\ w.status[d] = IF Future(b, d) /\ status[d] = "selected" THEN "failed" ELSE status[d]
  BY WithdrawnRow
<1> HIDE DEF w
<1>2. t \in RowSet /\ t.item = w.item /\ t.status = w.status /\ t.bound = w.bound /\ t.job = w.job
  BY <1>1, ToldRow
<1> HIDE DEF t
<1>3. r \in RowSet /\ r.item = t.item /\ r.status = t.status /\ r.bound = t.bound /\ r.job = t.job /\ r.exec = e
  BY <1>2 DEF RowSet
<1> QED
  BY <1>1, <1>2, <1>3 DEF t, w

LEMMA AbortSettles ==
  ASSUME RowType, Abort
  PROVE  RowType' /\ Settled
<1> DEFINE r == [Tell(CancelFutureItems(Rows), "CANCELLED") EXCEPT !.exec = "ABORTED"]
<1>1. "CANCELLED" \in OccStates /\ "ABORTED" \in ExecStates
  BY DEF OccStates, ExecStates, Over
<1>2. /\ r \in RowSet /\ r.exec = "ABORTED" /\ r.bound = bound
      /\ \A p \in Item : r.item[p] = IF item[p] \in {"PENDING", "QUEUED"} THEN "SKIPPED" ELSE item[p]
      /\ \A d \in Decision :
                  /\ r.job[d] = IF Future(Rows, d) /\ status[d] \in {"queued", "submitting"} /\ job[d] = "none"
                                THEN "pending" ELSE job[d]
                  /\ r.status[d] = IF Future(Rows, d) /\ status[d] = "selected" THEN "failed" ELSE status[d]
  BY <1>1, RowsTyped, EndedAndWithdrawn
<1>3. /\ Write(r) /\ pc = "act" /\ abort /\ pc' = "sweep" /\ block' = (pc' = "sweep") /\ batch' = <<>>
      /\ UNCHANGED <<try, timed, linked, abort, seen, missing, late, held>> /\ EngineSame
  BY DEF Abort, Done, resting, engineVars, EngineSame
<1> HIDE DEF r
<1>4. exec' = r.exec /\ item' = r.item /\ status' = r.status /\ bound' = r.bound /\ job' = r.job
  BY <1>3, Written
<1>5. RowType'
  BY <1>2, <1>3, WrittenType
<1>6. \A d \in Decision : Future(Rows, d) <=> Owns(d) /\ item[d.item] \in {"PENDING", "QUEUED", "FAILED"}
  BY RowsTyped DEF Future
<1> QED
  BY <1>2, <1>3, <1>4, <1>5, <1>6 DEF Settled

LEMMA FailureSettles ==
  ASSUME RowType, FailSequence
  PROVE  RowType' /\ Settled
<1> DEFINE r == [Tell(CancelFutureItems(Rest), "FAILED") EXCEPT !.exec = "FAILED"]
<1>1. "FAILED" \in OccStates /\ "FAILED" \in ExecStates
  BY DEF OccStates, ExecStates, Over
<1>2. /\ r \in RowSet /\ r.exec = "FAILED" /\ r.bound = bound
      /\ \A p \in Item : r.item[p] = IF Rest.item[p] \in {"PENDING", "QUEUED"} THEN "SKIPPED" ELSE Rest.item[p]
      /\ \A d \in Decision :
                  /\ r.job[d] = IF Future(Rest, d) /\ status[d] \in {"queued", "submitting"} /\ job[d] = "none"
                                THEN "pending" ELSE job[d]
                  /\ r.status[d] = IF Future(Rest, d) /\ status[d] = "selected" THEN "failed" ELSE status[d]
  BY <1>1, RestRow, EndedAndWithdrawn
<1>3. /\ Write(r) /\ pc = "act" /\ pc' = "sweep" /\ block' = (pc' = "sweep") /\ batch' = <<>>
      /\ UNCHANGED <<try, timed, linked, abort, seen, missing, late, held>> /\ EngineSame
  BY DEF FailSequence, Settles, Ready, Done, resting, engineVars, EngineSame
<1> HIDE DEF r
<1>4. exec' = r.exec /\ item' = r.item /\ status' = r.status /\ bound' = r.bound /\ job' = r.job
  BY <1>3, Written
<1>5. RowType'
  BY <1>2, <1>3, WrittenType
<1>6. /\ \A p \in Item : Rest.item[p] = IF p \in LostItems THEN "FAILED" ELSE item[p]
      /\ \A p \in LostItems : item[p] = "QUEUED"
  BY RestRow DEF LostItems, With
<1>7. \A d \in Decision : /\ d.item \in Item
                          /\ Future(Rest, d) => Owns(d)
                          /\ Owns(d) /\ item[d.item] \in {"PENDING", "QUEUED"} => Future(Rest, d)
  BY <1>6, Owned DEF Future
<1> QED
  BY <1>2, <1>3, <1>4, <1>5, <1>6, <1>7 DEF Settled

(* The exits that write items, and finish the execution or keep its state. *)
LEMMA RowSettles ==
  ASSUME RowType, NEW r \in RowSet, Settles, Write(r), pc' = "collect", block' = (pc' = "sweep"), batch' = <<>>,
         UNCHANGED <<try, timed, linked, abort, seen, missing, late, held>>, EngineSame,
         r.status = status, r.bound = bound, r.job = job,
         \A p \in Item : \/ r.item[p] = Rest.item[p]
                         \/ item[p] = "PENDING" /\ r.item[p] = "FAILED"
                         \/ item[p] = "STARTED" /\ r.item[p] \in {"FAILED", "COMPLETED"},
         \/ r.exec \in {exec, "FAILED"}
         \/ r.exec = "COMPLETED" /\ \E p \in Item : r.item[p] = "COMPLETED"
  PROVE  RowType' /\ Settled
<1>1. pc = "act" /\ Adopted = {} /\ ~Whole
  BY DEF Settles, Ready
<1>2. exec' = r.exec /\ item' = r.item /\ status' = r.status /\ bound' = r.bound /\ job' = r.job
  BY Written
<1>3. RowType'
  BY WrittenType
<1>4. /\ \A p \in Item : Rest.item[p] = IF p \in LostItems THEN "FAILED" ELSE item[p]
      /\ \A p \in LostItems : item[p] = "QUEUED"
  BY RestRow DEF LostItems, With
<1> QED
  BY <1>1, <1>2, <1>3, <1>4 DEF Settled

LEMMA FinishSettles ==
  ASSUME RowType, FinishSequence
  PROVE  RowType' /\ Settled
<1>1. /\ Settles /\ Write(FinishExecution(Rest)) /\ pc' = "collect" /\ block' = (pc' = "sweep") /\ batch' = <<>>
      /\ UNCHANGED <<try, timed, linked, abort, seen, missing, late, held>> /\ EngineSame
  BY DEF FinishSequence, Done, resting, engineVars, EngineSame
<1> DEFINE f == FinishExecution(Rest)
<1>2. /\ f \in RowSet /\ f.item = Rest.item /\ f.status = status /\ f.bound = bound /\ f.job = job
      /\ f.exec = IF \E p \in Item : Rest.item[p] = "COMPLETED" THEN "COMPLETED" ELSE "FAILED"
  BY RestRow, FinishedRow
<1> HIDE DEF f
<1> QED
  BY <1>1, <1>2, RowSettles DEF f

LEMMA WaitingSettles ==
  ASSUME RowType, KeepWaiting
  PROVE  RowType' /\ Settled
<1>1. /\ Settles /\ Write(Rest) /\ pc' = "collect" /\ block' = (pc' = "sweep") /\ batch' = <<>>
      /\ UNCHANGED <<try, timed, linked, abort, seen, missing, late, held>> /\ EngineSame
  BY DEF KeepWaiting, Done, resting, engineVars, EngineSame
<1> QED
  BY <1>1, RestRow, RowSettles

LEMMA UnendedSettles ==
  ASSUME RowType, EndUnconfirmed
  PROVE  RowType' /\ Settled
<1> DEFINE i == [p \in Item |-> IF p \in Unended THEN IF linked THEN "FAILED" ELSE "COMPLETED" ELSE Rest.item[p]]
           u == [Rest EXCEPT !.item = i]
           f == FinishExecution(u)
<1>1. /\ Settles /\ Write(f) /\ pc' = "collect" /\ block' = (pc' = "sweep") /\ batch' = <<>>
      /\ UNCHANGED <<try, timed, linked, abort, seen, missing, late, held>> /\ EngineSame
  BY DEF EndUnconfirmed, Done, resting, engineVars, EngineSame
<1>2. i \in [Item -> ItemStates]
  BY RestRow DEF RowSet, ItemStates, Finished
<1>3. \A p \in Unended : p \in Item /\ Rest.item[p] = "STARTED"
  BY DEF Unended, Final, Left
<1>4. \A p \in Item : i[p] = Rest.item[p] \/ (item[p] = "STARTED" /\ i[p] \in {"FAILED", "COMPLETED"})
  BY <1>3, RestRow
<1> HIDE DEF i
<1>5. u \in RowSet /\ u.item = i /\ u.status = status /\ u.bound = bound /\ u.job = job
  BY <1>2, RestRow DEF RowSet
<1> HIDE DEF u
<1>6. /\ f \in RowSet /\ f.item = i /\ f.status = status /\ f.bound = bound /\ f.job = job
      /\ f.exec = IF \E p \in Item : i[p] = "COMPLETED" THEN "COMPLETED" ELSE "FAILED"
  BY <1>5, FinishedRow
<1> HIDE DEF f
<1> QED
  BY <1>1, <1>4, <1>6, RowSettles

LEMMA NextPending ==
  ASSUME RowType, Left("PENDING") # {}
  PROVE  Next1 \in Item /\ item[Next1] = "PENDING" /\ \A p \in Item : item[p] = "PENDING" => Next1 <= p
<1>1. Left("PENDING") = {p \in Item : item[p] = "PENDING"}
  BY RestRow DEF Left, LostItems, With
<1>2. Left("PENDING") \subseteq Nat
  BY SequenceAssumption DEF Left, Item
<1> QED
  BY <1>1, <1>2, MinOf DEF Next1

LEMMA UnavailableSettles ==
  ASSUME RowType, NextUnavailable
  PROVE  RowType' /\ Settled
<1> DEFINE e == IF Next1 \in Aborting THEN "FAILED" ELSE exec
           u == [Rest EXCEPT !.item[Next1] = "FAILED", !.exec = e]
<1>1. /\ Settles /\ Write(u) /\ pc' = "collect" /\ block' = (pc' = "sweep") /\ batch' = <<>>
      /\ UNCHANGED <<try, timed, linked, abort, seen, missing, late, held>> /\ EngineSame
  BY DEF NextUnavailable, Advances, Done, engineVars, EngineSame
<1>2. Next1 \in Item /\ item[Next1] = "PENDING"
  BY NextPending DEF NextUnavailable, Advances
<1>3. e \in ExecStates
  BY DEF RowType, ExecStates, Over
<1>4. /\ u \in RowSet /\ u.exec = e /\ u.status = status /\ u.bound = bound /\ u.job = job
      /\ u.item[Next1] = "FAILED" /\ \A p \in Item : p # Next1 => u.item[p] = Rest.item[p]
  BY <1>2, <1>3, RestRow DEF RowSet, ItemStates, Finished
<1> HIDE DEF u
<1> QED
  BY <1>1, <1>2, <1>4, RowSettles

(* Requests that a restart has recovered.                                  *)
LEMMA AdoptEffect ==
  ASSUME RowType, Adopt
  PROVE  /\ RowType' /\ pc = "act" /\ ~abort /\ exec' = "QUEUED"
         /\ \A p \in Item : item'[p] = IF p \in Adopted THEN "QUEUED" ELSE item[p]
         /\ UNCHANGED <<status, bound, job, try, timed, linked, abort, seen, missing, late, held, pc, block, batch>>
         /\ EngineSame
<1> DEFINE i == [p \in Item |-> IF p \in Adopted THEN "QUEUED" ELSE item[p]]
           u == [Rows EXCEPT !.exec = "QUEUED", !.item = i]
           r == Tell(u, "QUEUED")
<1>1. /\ Write(r) /\ pc = "act" /\ ~abort
      /\ UNCHANGED <<try, timed, linked, abort, seen, missing, late, held, pc, block, batch>> /\ EngineSame
  BY DEF Adopt, resting, engineVars, EngineSame
<1>2. i \in [Item -> ItemStates] /\ "QUEUED" \in OccStates /\ "QUEUED" \in ExecStates
  BY DEF RowType, ItemStates, OccStates, ExecStates, Active
<1>3. \A p \in Item : i[p] = IF p \in Adopted THEN "QUEUED" ELSE item[p]
  OBVIOUS
<1> HIDE DEF i
<1>4. u \in RowSet /\ u.exec = "QUEUED" /\ u.item = i /\ u.status = status /\ u.bound = bound /\ u.job = job
  BY <1>2, RowsTyped DEF RowSet
<1> HIDE DEF u
<1>5. r \in RowSet /\ r.exec = "QUEUED" /\ r.item = i /\ r.status = status /\ r.bound = bound /\ r.job = job
  BY <1>2, <1>4, ToldRow
<1> HIDE DEF r
<1> QED
  BY <1>1, <1>3, <1>5, Written, WrittenType

(* The decisions that are made while a sequence is staged.                 *)
LEMMA FreshOf ==
  ASSUME RowType
  PROVE  \A p \in Item : /\ Fresh(p) \in Decision /\ Fresh(p).item = p
                         /\ Has(p) => Fresh(p) = Dec(p)
                         /\ Fresh(p).try >= try[p] /\ (Has(p) => Fresh(p).try = try[p])
                         /\ (~Has(p) => Fresh(p).try > try[p])
<1> SUFFICES ASSUME NEW p \in Item
             PROVE  /\ Fresh(p) \in Decision /\ Fresh(p).item = p
                    /\ Has(p) => Fresh(p) = Dec(p)
                    /\ Fresh(p).try >= try[p] /\ (Has(p) => Fresh(p).try = try[p])
                    /\ (~Has(p) => Fresh(p).try > try[p])
  OBVIOUS
<1>1. MaxTry \in Nat /\ MaxTry >= 1 /\ try[p] \in 0..MaxTry
  BY SequenceAssumption DEF RowType
<1>2. CASE Has(p)
  <2>1. Fresh(p) = Dec(p) /\ Fresh(p).try = try[p] /\ Fresh(p).item = p
    BY <1>2 DEF Fresh, Dec
  <2> QED
    BY <1>1, <1>2, <2>1, Owned
<1>3. CASE ~Has(p)
  <2>1. Fresh(p) = [item |-> p, try |-> 1] /\ try[p] = 0
    BY <1>3 DEF Fresh, Has
  <2>2. 1 \in 1..MaxTry
    BY <1>1
  <2>3. Fresh(p) \in Decision
    BY <2>1, <2>2 DEF Decision
  <2>4. Fresh(p).item = p /\ Fresh(p).try = 1
    BY <2>1
  <2> QED
    BY <1>3, <2>1, <2>3, <2>4
<1> QED
  BY <1>2, <1>3

Drawn(S) ==
  /\ S \subseteq With("PENDING")
  /\ try' = [p \in Item |-> IF p \in S THEN Fresh(p).try ELSE try[p]]
  /\ status' = [d \in Decision |-> IF d \in {Fresh(p) : p \in S} THEN "submitting" ELSE status[d]]
LEMMA DrawnType ==
  ASSUME RowType, NEW S, Drawn(S)
  PROVE  /\ try' \in [Item -> 0..MaxTry] /\ status' \in [Decision -> Statuses]
         /\ \A p \in Item : /\ p \in S => item[p] = "PENDING" /\ try'[p] = Fresh(p).try
                            /\ p \notin S => try'[p] = try[p]
         /\ \A d \in Decision : \/ d.item \in S /\ d = Fresh(d.item) /\ status'[d] = "submitting"
                                \/ ~(d.item \in S /\ d = Fresh(d.item)) /\ status'[d] = status[d]
<1>1. S \subseteq Item /\ \A p \in S : item[p] = "PENDING"
  BY DEF Drawn, With
<1>2. \A p \in Item : Fresh(p).try \in 0..MaxTry
  BY FreshOf DEF Decision
<1>3. \A d \in Decision : d \in {Fresh(p) : p \in S} <=> d.item \in S /\ d = Fresh(d.item)
  BY <1>1, FreshOf
<1>4. try' \in [Item -> 0..MaxTry]
  BY <1>2 DEF Drawn, RowType
<1>5. status' \in [Decision -> Statuses]
  BY DEF Drawn, RowType, Statuses
<1>6. \A p \in Item : (p \in S => try'[p] = Fresh(p).try) /\ (p \notin S => try'[p] = try[p])
  BY DEF Drawn
<1>7. \A d \in Decision : status'[d] = IF d \in {Fresh(p) : p \in S} THEN "submitting" ELSE status[d]
  BY DEF Drawn
<1> QED
  BY <1>1, <1>3, <1>4, <1>5, <1>6, <1>7

Before == {x \in Decision \X Decision : x[1].item < x[2].item}
Below  == {x \in Item \X Item : x[1] < x[2]}

LEMMA PlayableIs ==
  ASSUME NEW bad
  PROVE  /\ Playable(bad) \in Seq(Item) /\ Elements(Playable(bad)) = With("PENDING") \ bad
         /\ Sorted(Playable(bad), Below)
<1> DEFINE s == [p \in Item |-> p]
           S == With("PENDING") \ bad
<1>1. Count \in Nat /\ Item = 1..Count
  BY SequenceAssumption DEF Item
<1>2. s \in Seq(Item) /\ DOMAIN s = Item /\ \A p \in Item : s[p] = p
  BY <1>1
<1>3. Elements(s) = Item
  BY <1>2 DEF Elements
<1>4. Sorted(s, Below)
  BY <1>2 DEF Sorted, Below
<1> HIDE DEF s
<1>5. S \subseteq Item /\ Item \ (Item \ S) = S
  BY DEF With
<1>6. Playable(bad) = Without(s, Item \ S)
  BY DEF Playable, s
<1> HIDE DEF S
<1> QED
  BY <1>2, <1>3, <1>4, <1>5, <1>6, WithoutKeeps DEF S

LEMMA StageEffect ==
  ASSUME RowType, NEW bad, Stage(bad)
  PROVE  /\ RowType' /\ pc = "act" /\ ~abort /\ Adopted = {} /\ Whole /\ pc' = "push"
         /\ Drawn(With("PENDING") \ bad)
         /\ batch' \in Seq(Decision) /\ Sorted(batch', Before)
         /\ Elements(batch') = {Fresh(p) : p \in With("PENDING") \ bad}
         /\ \A p \in Item : item'[p] = IF p \in bad THEN "FAILED" ELSE item[p]
         /\ \A p \in bad : item[p] = "PENDING"
         /\ UNCHANGED <<exec, abort, timed, linked, occ, bound, job, block, seen, missing, late, held>> /\ EngineSame
<1> DEFINE S == With("PENDING") \ bad
           w == Playable(bad)
<1>1. /\ pc = "act" /\ ~abort /\ Adopted = {} /\ Whole /\ pc' = "push" /\ bad \subseteq With("PENDING")
      /\ batch' = [i \in DOMAIN w |-> Fresh(w[i])]
      /\ try' = [p \in Item |-> IF p \in S THEN Fresh(p).try ELSE try[p]]
      /\ status' = [d \in Decision |-> IF d \in Elements(batch') THEN "submitting" ELSE status[d]]
      /\ item' = [p \in Item |-> IF p \in bad THEN "FAILED" ELSE item[p]]
      /\ UNCHANGED <<exec, abort, timed, linked, occ, bound, job, block, seen, missing, late, held>> /\ EngineSame
  BY DEF Stage, Ready, engineVars, EngineSame
<1>2. w \in Seq(Item) /\ Elements(w) = S /\ Sorted(w, Below)
  BY PlayableIs
<1> HIDE DEF w
<1>3. Len(w) \in Nat /\ DOMAIN w = 1..Len(w) /\ \A i \in DOMAIN w : w[i] \in Item
  BY <1>2
<1>4. batch' \in Seq(Decision) /\ DOMAIN batch' = DOMAIN w /\ \A i \in DOMAIN w : batch'[i] = Fresh(w[i])
  <2>1. \A i \in 1..Len(w) : Fresh(w[i]) \in Decision
    BY <1>3, FreshOf
  <2>2. batch' = [i \in 1..Len(w) |-> Fresh(w[i])]
    BY <1>1, <1>3
  <2> QED
    BY <1>3, <2>1, <2>2
<1>5. Elements(batch') = {Fresh(p) : p \in S}
  BY <1>2, <1>4 DEF Elements
<1>6. Sorted(batch', Before)
  <2>1. ASSUME NEW i \in DOMAIN w, NEW j \in DOMAIN w, i < j PROVE <<Fresh(w[i]), Fresh(w[j])>> \in Before
    <3>1. <<w[i], w[j]>> \in Below
      BY <1>2, <2>1 DEF Sorted
    <3>2. w[i] < w[j] /\ w[i] \in Item /\ w[j] \in Item
      BY <1>3, <3>1 DEF Below
    <3> QED
      BY <3>2, FreshOf DEF Before
  <2> QED
    BY <1>4, <2>1 DEF Sorted
<1>7. Drawn(S)
  BY <1>1, <1>5 DEF Drawn
<1>8. item' \in [Item -> ItemStates] /\ \A p \in Item : item'[p] = IF p \in bad THEN "FAILED" ELSE item[p]
  BY <1>1 DEF RowType, ItemStates, Finished
<1>9. try' \in [Item -> 0..MaxTry] /\ status' \in [Decision -> Statuses]
  BY <1>7, DrawnType
<1>10. RowType'
  BY <1>1, <1>8, <1>9 DEF RowType
<1> QED
  BY <1>1, <1>4, <1>5, <1>6, <1>7, <1>8, <1>10 DEF With

LEMMA StageFailsEffect ==
  ASSUME RowType, NEW bad, StageFails(bad)
  PROVE  /\ RowType' /\ pc = "act" /\ ~abort /\ Adopted = {} /\ Whole /\ pc' = "collect" /\ ~block' /\ exec' = "FAILED"
         /\ \E S : Drawn(S) /\ S \cap bad = {}
         /\ \A p \in Item : item'[p] = IF p \in bad THEN "FAILED" ELSE item[p]
         /\ \A p \in bad : item[p] = "PENDING"
         /\ UNCHANGED <<abort, timed, linked, bound, job, seen, missing, late, batch, held>> /\ EngineSame
<1> DEFINE S == {p \in With("PENDING") \ bad : \E q \in bad : p < q}
<1>1. /\ pc = "act" /\ ~abort /\ Adopted = {} /\ Whole /\ pc' = "collect" /\ bad \subseteq With("PENDING") /\ ~block'
      /\ exec' = "FAILED" /\ occ' = IF linked THEN "FAILED" ELSE occ
      /\ try' = [p \in Item |-> IF p \in S THEN Fresh(p).try ELSE try[p]]
      /\ status' = [d \in Decision |-> IF d \in {Fresh(p) : p \in S} THEN "submitting" ELSE status[d]]
      /\ item' = [p \in Item |-> IF p \in bad THEN "FAILED" ELSE item[p]]
      /\ UNCHANGED <<abort, timed, linked, bound, job, seen, missing, late, batch, held>> /\ EngineSame
  BY DEF StageFails, Ready, engineVars, EngineSame
<1>2. Drawn(S) /\ S \cap bad = {}
  BY <1>1 DEF Drawn
<1> HIDE DEF S
<1>3. item' \in [Item -> ItemStates] /\ \A p \in Item : item'[p] = IF p \in bad THEN "FAILED" ELSE item[p]
  BY <1>1 DEF RowType, ItemStates, Finished
<1>4. try' \in [Item -> 0..MaxTry] /\ status' \in [Decision -> Statuses]
  BY <1>2, DrawnType
<1>5. RowType'
  BY <1>1, <1>3, <1>4 DEF RowType, ExecStates, Over, OccStates
<1> QED
  BY <1>1, <1>2, <1>3, <1>5 DEF With

LEMMA PrepareEffect ==
  ASSUME RowType, PrepareNext
  PROVE  /\ RowType' /\ pc = "act" /\ ~abort /\ Adopted = {} /\ ~Whole /\ pc' = "push one"
         /\ \A p \in Item : item[p] = "QUEUED" => p \in LostItems
         /\ \A p \in Item : item'[p] = IF p \in LostItems THEN "FAILED" ELSE item[p]
         /\ \E d \in Decision :
              /\ item[d.item] = "PENDING" /\ \A p \in Item : item[p] = "PENDING" => d.item <= p
              /\ batch' = <<d>> /\ status' = [status EXCEPT ![d] = "submitting"]
              /\ d.try > try[d.item] /\ try' = [try EXCEPT ![d.item] = d.try]
         /\ UNCHANGED <<exec, abort, timed, linked, occ, bound, job, block, seen, missing, late, held>> /\ EngineSame
<1> DEFINE d == [item |-> Next1, try |-> try[Next1] + 1]
<1>1. /\ pc = "act" /\ ~abort /\ Adopted = {} /\ ~Whole /\ pc' = "push one" /\ Left("QUEUED") = {}
      /\ try[Next1] < MaxTry /\ try' = [try EXCEPT ![Next1] = @ + 1] /\ batch' = <<d>> /\ item' = Rest.item
      /\ status' = [status EXCEPT ![batch'[1]] = "submitting"]
      /\ UNCHANGED <<exec, abort, timed, linked, occ, bound, job, block, seen, missing, late, held>> /\ EngineSame
  BY DEF PrepareNext, Advances, Settles, Ready, engineVars, EngineSame
<1>2. Next1 \in Item /\ item[Next1] = "PENDING" /\ \A p \in Item : item[p] = "PENDING" => Next1 <= p
  BY NextPending DEF PrepareNext, Advances
<1>3. MaxTry \in Nat /\ try[Next1] \in 0..MaxTry
  BY <1>2, SequenceAssumption DEF RowType
<1>4. try[Next1] + 1 \in 1..MaxTry
  <2>1. \A n \in 0..MaxTry : n < MaxTry => n + 1 \in 1..MaxTry
    BY <1>3
  <2>2. try[Next1] < MaxTry
    BY <1>1
  <2> QED
    BY <1>3, <2>1, <2>2
<1>5. d \in Decision /\ d.item = Next1 /\ d.try = try[Next1] + 1 /\ d.try > try[d.item]
  BY <1>2, <1>3, <1>4 DEF Decision
<1>6. batch'[1] = d
  BY <1>1
<1>7. try' = [try EXCEPT ![d.item] = d.try] /\ status' = [status EXCEPT ![d] = "submitting"]
  BY <1>1, <1>5, <1>6
<1> HIDE DEF d
<1>8. \A p \in Item : item'[p] = IF p \in LostItems THEN "FAILED" ELSE item[p]
  BY <1>1, RestRow
<1>9. \A p \in Item : item[p] = "QUEUED" => p \in LostItems
  BY <1>1, RestRow DEF Left
<1>10. try' \in [Item -> 0..MaxTry]
  <2>1. d.try \in 0..MaxTry
    BY <1>4, <1>5
  <2> QED
    BY <1>7, <2>1 DEF RowType
<1>11. status' \in [Decision -> Statuses] /\ item' \in [Item -> ItemStates]
  BY <1>1, <1>7, RestRow DEF RowType, RowSet, Statuses
<1>12. RowType'
  BY <1>1, <1>10, <1>11 DEF RowType
<1> QED
  BY <1>1, <1>2, <1>5, <1>7, <1>8, <1>9, <1>12

(* A command that is refused or not answered.                              *)
LEMMA PushedRow ==
  ASSUME NEW r \in RowSet, NEW st \in Statuses, NEW p \in ItemStates, NEW is \in ExecStates
  PROVE  LET u == Pushed(r, st, p, is)
         IN  /\ u \in RowSet /\ u.exec = is /\ u.bound = r.bound /\ u.job = r.job /\ u.occ = r.occ
             /\ \A d \in Decision : u.status[d] = IF d \in Elements(batch) THEN st ELSE r.status[d]
             /\ \A q \in Item : u.item[q] = IF q \in BatchItems THEN p ELSE r.item[q]
<1> DEFINE s == [d \in Decision |-> IF d \in Elements(batch) THEN st ELSE r.status[d]]
           i == [q \in Item |-> IF \E d \in Elements(batch) : d.item = q THEN p ELSE r.item[q]]
<1>1. s \in [Decision -> Statuses] /\ i \in [Item -> ItemStates]
  BY DEF RowSet
<1>2. Pushed(r, st, p, is) = [r EXCEPT !.status = s, !.item = i, !.exec = is]
  BY DEF Pushed
<1>3. \A q \in Item : i[q] = IF q \in BatchItems THEN p ELSE r.item[q]
  BY DEF BatchItems
<1>4. \A d \in Decision : s[d] = IF d \in Elements(batch) THEN st ELSE r.status[d]
  OBVIOUS
<1> HIDE DEF s, i
<1>5. LET u == [r EXCEPT !.status = s, !.item = i, !.exec = is]
      IN u \in RowSet /\ u.exec = is /\ u.bound = r.bound /\ u.job = r.job /\ u.occ = r.occ /\ u.status = s /\ u.item = i
  BY <1>1 DEF RowSet
<1> QED
  BY <1>2, <1>3, <1>4, <1>5

NotPushed ==
  /\ pc \in {"push", "push one"} /\ pc' = "collect" /\ ~block' /\ batch' = <<>> /\ Refused
  /\ UNCHANGED <<bound, abort, try, timed, linked, epoch, onair, log, aired, seen, missing, late, held>>
  /\ \A d \in Decision : /\ d \in Elements(batch) => status'[d] = "failed"
                         /\ d \notin Elements(batch) => \/ status'[d] = status[d]
                                                        \/ status[d] = "selected" /\ status'[d] = "failed"
                         /\ \/ job'[d] = job[d]
                            \/ job[d] = "none" /\ job'[d] = "pending" /\ Owns(d) /\ status[d] # "none"
  /\ \A p \in Item : /\ p \in BatchItems => item'[p] = "FAILED"
                     /\ p \notin BatchItems => \/ item'[p] = item[p]
                                               \/ item[p] \in {"PENDING", "QUEUED"} /\ item'[p] = "SKIPPED"
  /\ exec' \in {exec, "FAILED"} /\ (pc = "push" => exec' = "FAILED")
  /\ \/ \A p \in Item : item'[p] # "PENDING"
     \/ job' = job
LEMMA PushFailsEffect ==
  ASSUME RowType, PushFails
  PROVE  RowType' /\ NotPushed
<1> DEFINE w == CancelFutureItems(Rows)
           u == Pushed(w, "failed", "FAILED", "FAILED")
           r == Tell(u, "FAILED")
<1>1. /\ Write(r) /\ pc = "push" /\ pc' = "collect" /\ block' = ("collect" = "sweep") /\ batch' = <<>> /\ Refused
      /\ UNCHANGED <<abort, try, timed, linked, epoch, onair, log, aired, seen, missing, late, held>>
  BY DEF PushFails, Done, unsubmitted
<1>2. /\ w \in RowSet /\ w.bound = bound
      /\ \A p \in Item : w.item[p] = IF item[p] \in {"PENDING", "QUEUED"} THEN "SKIPPED" ELSE item[p]
      /\ \A d \in Decision :
           /\ w.job[d] = IF Future(Rows, d) /\ status[d] \in {"queued", "submitting"} /\ job[d] = "none"
                         THEN "pending" ELSE job[d]
           /\ w.status[d] = IF Future(Rows, d) /\ status[d] = "selected" THEN "failed" ELSE status[d]
  BY RowsTyped, WithdrawnRow
<1> HIDE DEF w
<1>3. "failed" \in Statuses /\ "FAILED" \in ItemStates /\ "FAILED" \in ExecStates /\ "FAILED" \in OccStates
  BY DEF Statuses, ItemStates, Finished, ExecStates, Over, OccStates
<1>4. /\ u \in RowSet /\ u.exec = "FAILED" /\ u.bound = bound /\ u.job = w.job
      /\ \A d \in Decision : u.status[d] = IF d \in Elements(batch) THEN "failed" ELSE w.status[d]
      /\ \A q \in Item : u.item[q] = IF q \in BatchItems THEN "FAILED" ELSE w.item[q]
  BY <1>2, <1>3, PushedRow
<1> HIDE DEF u
<1>5. r \in RowSet /\ r.exec = u.exec /\ r.item = u.item /\ r.status = u.status /\ r.bound = bound /\ r.job = w.job
  BY <1>3, <1>4, ToldRow
<1> HIDE DEF r
<1>6. exec' = r.exec /\ item' = r.item /\ status' = r.status /\ bound' = r.bound /\ job' = r.job /\ RowType'
  BY <1>1, <1>5, Written, WrittenType
<1>7. \A d \in Decision : Future(Rows, d) => Owns(d)
  BY DEF Future
<1> QED
  BY <1>1, <1>2, <1>4, <1>5, <1>6, <1>7 DEF NotPushed

LEMMA PushOneFailsEffect ==
  ASSUME RowType, PushOneFails
  PROVE  RowType' /\ NotPushed
<1> DEFINE e == IF batch[1].item \in Aborting THEN "FAILED" ELSE exec
           r == Pushed(Rows, "failed", "FAILED", e)
<1>1. /\ Write(r) /\ pc = "push one" /\ pc' = "collect" /\ block' = ("collect" = "sweep") /\ batch' = <<>> /\ Refused
      /\ UNCHANGED <<abort, try, timed, linked, epoch, onair, log, aired, seen, missing, late, held>>
  BY DEF PushOneFails, Done, unsubmitted
<1>2. "failed" \in Statuses /\ "FAILED" \in ItemStates /\ e \in ExecStates
  BY DEF RowType, Statuses, ItemStates, Finished, ExecStates, Over
<1>3. e \in {exec, "FAILED"}
  OBVIOUS
<1> HIDE DEF e
<1>4. /\ r \in RowSet /\ r.exec = e /\ r.bound = bound /\ r.job = job
      /\ \A d \in Decision : r.status[d] = IF d \in Elements(batch) THEN "failed" ELSE status[d]
      /\ \A q \in Item : r.item[q] = IF q \in BatchItems THEN "FAILED" ELSE item[q]
  BY <1>2, RowsTyped, PushedRow
<1> HIDE DEF r
<1>5. exec' = r.exec /\ item' = r.item /\ status' = r.status /\ bound' = r.bound /\ job' = r.job /\ RowType'
  BY <1>1, <1>4, Written, WrittenType
<1> QED
  BY <1>1, <1>3, <1>4, <1>5 DEF NotPushed

(* A command that is acknowledged.                                         *)
Acknowledged ==
  /\ pc \in {"ack", "ack one"} /\ pc' = "collect" /\ ~block' /\ batch' = <<>>
  /\ UNCHANGED <<job, abort, try, timed, linked, seen, missing, late>> /\ EngineSame
  /\ \A d \in Decision : /\ d \in Elements(batch) => status'[d] = "queued" /\ bound'[d] = epoch
                         /\ d \notin Elements(batch) => status'[d] = status[d] /\ bound'[d] = bound[d]
  /\ \A p \in Item : item'[p] = IF p \in BatchItems THEN "QUEUED" ELSE item[p]
  /\ exec' \in {exec, "QUEUED"} /\ exec' # "PENDING"

LEMMA BoundRow ==
  ASSUME RowType, epoch \in Nat, NEW r \in RowSet, r.bound = bound
  PROVE  LET u == Bound(r)
         IN  /\ u \in RowSet /\ u.exec = r.exec /\ u.item = r.item /\ u.job = r.job /\ u.status = r.status
             /\ \A d \in Decision : u.bound[d] = IF d \in Elements(batch) THEN epoch ELSE bound[d]
<1> DEFINE b == [d \in Decision |-> IF d \in Elements(batch) THEN epoch ELSE bound[d]]
<1>1. b \in [Decision -> Nat]
  BY DEF RowType
<1>2. Bound(r) = [r EXCEPT !.bound = b]
  BY DEF Bound
<1>3. \A d \in Decision : b[d] = IF d \in Elements(batch) THEN epoch ELSE bound[d]
  OBVIOUS
<1> HIDE DEF b
<1> QED
  BY <1>1, <1>2, <1>3 DEF RowSet

LEMMA AckRow ==
  ASSUME RowType, epoch \in Nat, NEW is \in ExecStates, NEW st \in OccStates,
         Write(Tell(Bound(Pushed(Rows, "queued", "QUEUED", is)), st)), UNCHANGED <<try, timed, linked, abort>>
  PROVE  /\ RowType' /\ exec' = is /\ job' = job
         /\ \A d \in Decision : /\ d \in Elements(batch) => status'[d] = "queued" /\ bound'[d] = epoch
                                /\ d \notin Elements(batch) => status'[d] = status[d] /\ bound'[d] = bound[d]
         /\ \A p \in Item : item'[p] = IF p \in BatchItems THEN "QUEUED" ELSE item[p]
<1> DEFINE u == Pushed(Rows, "queued", "QUEUED", is)
           b == Bound(u)
           r == Tell(b, st)
<1>1. "queued" \in Statuses /\ "QUEUED" \in ItemStates
  BY DEF Statuses, ItemStates
<1>2. /\ u \in RowSet /\ u.exec = is /\ u.bound = bound /\ u.job = job
      /\ \A d \in Decision : u.status[d] = IF d \in Elements(batch) THEN "queued" ELSE status[d]
      /\ \A q \in Item : u.item[q] = IF q \in BatchItems THEN "QUEUED" ELSE item[q]
  BY <1>1, RowsTyped, PushedRow
<1> HIDE DEF u
<1>3. /\ b \in RowSet /\ b.exec = is /\ b.item = u.item /\ b.job = job /\ b.status = u.status
      /\ \A d \in Decision : b.bound[d] = IF d \in Elements(batch) THEN epoch ELSE bound[d]
  BY <1>2, BoundRow
<1> HIDE DEF b
<1>4. r \in RowSet /\ r.exec = is /\ r.item = u.item /\ r.job = job /\ r.status = u.status /\ r.bound = b.bound
  BY <1>3, ToldRow
<1>5. Write(r)
  BY DEF r, b, u
<1> HIDE DEF r
<1> QED
  BY <1>2, <1>3, <1>4, <1>5, Written, WrittenType

LEMMA AckEffect ==
  ASSUME RowType, epoch \in Nat, Ack \/ AckOne
  PROVE  RowType' /\ Acknowledged
<1>1. CASE Ack
  <2>1. /\ pc = "ack" /\ pc' = "collect" /\ block' = ("collect" = "sweep") /\ batch' = <<>>
        /\ UNCHANGED <<abort, try, timed, linked, seen, missing, late>> /\ EngineSame
        /\ Write(Tell(Bound(Pushed(Rows, "queued", "QUEUED", "QUEUED")), "QUEUED"))
    BY <1>1 DEF Ack, Done, engineVars, EngineSame
  <2>2. "QUEUED" \in ExecStates /\ "QUEUED" \in OccStates
    BY DEF ExecStates, Active, OccStates
  <2> QED
    BY <2>1, <2>2, AckRow DEF Acknowledged
<1>2. CASE AckOne
  <2> DEFINE is == IF exec = "PENDING" THEN "QUEUED" ELSE exec
             st == IF occ = "READY" THEN "QUEUED" ELSE occ
  <2>1. /\ pc = "ack one" /\ pc' = "collect" /\ block' = ("collect" = "sweep") /\ batch' = <<>>
        /\ UNCHANGED <<abort, try, timed, linked, seen, missing, late>> /\ EngineSame
        /\ Write(Tell(Bound(Pushed(Rows, "queued", "QUEUED", is)), st))
    BY <1>2 DEF AckOne, Done, engineVars, EngineSame
  <2>2. is \in ExecStates /\ st \in OccStates /\ is \in {exec, "QUEUED"} /\ is # "PENDING"
    BY DEF RowType, ExecStates, Active, OccStates
  <2> HIDE DEF is, st
  <2> QED
    BY <2>1, <2>2, AckRow DEF Acknowledged
<1> QED
  BY <1>1, <1>2

----------------------------------------------------------------------------
(* WHAT THE EVENT FILE TELLS *)

(* The requests whose START is written and not yet read.                   *)
Begun == {d \in Decision : Line("START", d) \in Elements(log)}

(* An item that is called playing or played has a decision that started,   *)
(* and one that waits has not.                                             *)
Truthful == \A p \in Item :
  /\ item[p] \in {"STARTED", "COMPLETED"} => Has(p) /\ status[Dec(p)] = "started"
  /\ item[p] \in {"PENDING", "QUEUED"} /\ Has(p) => status[Dec(p)] # "started"
Completed == exec = "COMPLETED" => \E p \in Item : item[p] = "COMPLETED"

(* The rows after the lines have been read.                                *)
ReadRows(x) ==
  /\ x.job = job
  /\ \A d \in Decision :
       /\ x.status[d] = status[d] \/ (d \in Begun /\ x.status[d] = "started" /\ status[d] # "none")
       /\ d \notin Begun => x.bound[d] = bound[d]
  /\ \A p \in Item :
       /\ \/ x.item[p] = item[p]
          \/ item[p] = "STARTED" /\ x.item[p] = "COMPLETED"
          \/ /\ Has(p) /\ Dec(p) \in Begun /\ x.status[Dec(p)] = "started"
             /\ item[p] \notin {"STARTED", "COMPLETED"} /\ x.item[p] \in {"STARTED", "COMPLETED"}
       /\ Has(p) /\ x.status[Dec(p)] = "started" /\ status[Dec(p)] # "started" => x.item[p] \in {"STARTED", "COMPLETED"}
  /\ x.exec = "COMPLETED" => \E p \in Item : x.item[p] = "COMPLETED"
  /\ x.exec = "PENDING" => exec = "PENDING" /\ \A p \in Item : item[p] # "STARTED" => x.item[p] = item[p]
  /\ x.exec = "ABORTED" => exec = "ABORTED"

LEMMA ReadStart ==
  ASSUME RowType, epoch \in Nat, Truthful, NEW x \in RowSet, ReadRows(x), NEW d \in Begun
  PROVE  /\ Confirm(x, d) \in RowSet /\ ReadRows(Confirm(x, d))
         /\ Confirm(x, d).status[d] \in {"none", "started"}
         /\ \A e \in Decision : x.status[e] \in {"none", "started"} => Confirm(x, d).status[e] \in {"none", "started"}
<1> DEFINE c == Confirm(x, d)
<1>1. d \in Decision
  BY DEF Begun
<1>2. /\ c \in RowSet
      /\ x.status[d] \in {"none", "started"} => c = x
      /\ x.status[d] \notin {"none", "started"} =>
           /\ c.job = x.job /\ c.status[d] = "started"
           /\ \A e \in Decision : e # d => c.status[e] = x.status[e] /\ c.bound[e] = x.bound[e]
           /\ ~Owns(d) => c.item = x.item /\ c.exec = x.exec
           /\ Owns(d) => /\ c.exec = "STARTED" /\ c.item[d.item] = "STARTED"
                         /\ \A p \in Item : p # d.item => c.item[p] =
                              IF p < d.item /\ x.item[p] = "STARTED" THEN "COMPLETED" ELSE x.item[p]
  BY <1>1, ConfirmedRow
<1> HIDE DEF c
<1>3. CASE x.status[d] \in {"none", "started"}
  BY <1>2, <1>3 DEF c
<1>4. CASE x.status[d] \notin {"none", "started"}
  <2>1. x.status[d] = status[d] /\ status[d] # "started"
    BY <1>1, <1>4 DEF ReadRows
  <2>2. \A e \in Decision : /\ c.status[e] = status[e] \/ (e \in Begun /\ c.status[e] = "started" /\ status[e] # "none")
                            /\ e \notin Begun => c.bound[e] = bound[e]
                            /\ x.status[e] \in {"none", "started"} => c.status[e] \in {"none", "started"}
    BY <1>1, <1>2, <1>4, <2>1 DEF ReadRows
  <2>3. \A p \in Item : Has(p) /\ Dec(p) # d => c.status[Dec(p)] = x.status[Dec(p)]
    BY <1>2, <1>4, Owned
  <2>4. CASE ~Owns(d)
    <3>1. \A p \in Item : Has(p) => Dec(p) # d
      BY <2>4, Owned
    <3> QED
      BY <1>2, <1>4, <2>1, <2>2, <2>3, <2>4, <3>1 DEF ReadRows, c
  <2>5. CASE Owns(d)
    <3>1. d.item \in Item /\ Has(d.item) /\ Dec(d.item) = d /\ \A p \in Item : p # d.item => Dec(p) # d
      BY <1>1, <2>5, Owned
    <3>2. item[d.item] \notin {"STARTED", "COMPLETED"}
      BY <2>1, <3>1 DEF Truthful
    <3>3. ASSUME NEW p \in Item
          PROVE  /\ \/ c.item[p] = item[p]
                    \/ item[p] = "STARTED" /\ c.item[p] = "COMPLETED"
                    \/ /\ Has(p) /\ Dec(p) \in Begun /\ c.status[Dec(p)] = "started"
                       /\ item[p] \notin {"STARTED", "COMPLETED"} /\ c.item[p] \in {"STARTED", "COMPLETED"}
                 /\ Has(p) /\ c.status[Dec(p)] = "started" /\ status[Dec(p)] # "started"
                    => c.item[p] \in {"STARTED", "COMPLETED"}
      <4>1. CASE p = d.item
        BY <1>2, <1>4, <2>5, <3>1, <3>2, <4>1
      <4>2. CASE p # d.item
        <5>1. c.item[p] = IF p < d.item /\ x.item[p] = "STARTED" THEN "COMPLETED" ELSE x.item[p]
          BY <1>2, <1>4, <2>5, <4>2
        <5>2. Has(p) => c.status[Dec(p)] = x.status[Dec(p)]
          BY <2>3, <3>1, <4>2
        <5> QED
          BY <5>1, <5>2 DEF ReadRows
      <4> QED
        BY <4>1, <4>2
    <3>4. c.exec = "STARTED" /\ c.job = job
      BY <1>2, <1>4, <2>5 DEF ReadRows
    <3> QED
      BY <1>2, <1>4, <2>2, <3>3, <3>4 DEF ReadRows, c
  <2> QED
    BY <2>4, <2>5
<1> QED
  BY <1>3, <1>4

LEMMA ReadEnd ==
  ASSUME RowType, epoch \in Nat, NEW x \in RowSet, ReadRows(x), NEW d \in Decision
  PROVE  Finish(x, d) \in RowSet /\ ReadRows(Finish(x, d)) /\ Finish(x, d).status = x.status
<1> DEFINE f == Finish(x, d)
<1>1. /\ f \in RowSet /\ f.status = x.status /\ f.bound = x.bound /\ f.job = x.job
      /\ \/ f = x
         \/ /\ x.item[d.item] = "STARTED" /\ f.exec \in {x.exec, "COMPLETED"}
            /\ f.item[d.item] = "COMPLETED" /\ \A p \in Item : p # d.item => f.item[p] = x.item[p]
  BY EndedRow
<1> HIDE DEF f
<1>2. CASE f = x
  BY <1>1, <1>2 DEF f
<1>3. CASE f # x
  <2>1. d.item \in Item
    BY Owned
  <2>2. ASSUME NEW p \in Item
        PROVE  /\ \/ f.item[p] = item[p]
                  \/ item[p] = "STARTED" /\ f.item[p] = "COMPLETED"
                  \/ /\ Has(p) /\ Dec(p) \in Begun /\ f.status[Dec(p)] = "started"
                     /\ item[p] \notin {"STARTED", "COMPLETED"} /\ f.item[p] \in {"STARTED", "COMPLETED"}
               /\ Has(p) /\ f.status[Dec(p)] = "started" /\ status[Dec(p)] # "started"
                  => f.item[p] \in {"STARTED", "COMPLETED"}
    BY <1>1, <1>3, <2>1 DEF ReadRows
  <2>3. f.exec = "PENDING" => exec = "PENDING" /\ \A p \in Item : item[p] # "STARTED" => f.item[p] = item[p]
    BY <1>1, <1>3, <2>1 DEF ReadRows
  <2>4. f.exec = "ABORTED" => exec = "ABORTED"
    BY <1>1, <1>3 DEF ReadRows
  <2> QED
    BY <1>1, <1>3, <2>1, <2>2, <2>3, <2>4 DEF ReadRows, f
<1> QED
  BY <1>2, <1>3

LEMMA CollectEffect ==
  ASSUME TypeOK, Truthful, Completed, Collect
  PROVE  /\ RowType' /\ pc = "collect" /\ pc' = "inventory" /\ log' = <<>>
         /\ UNCHANGED <<abort, try, timed, linked, epoch, queue, onair, aired, block, seen, missing, late, batch, held>>
         /\ \E x \in RowSet :
              /\ ReadRows(x) /\ \A d \in Begun : x.status[d] \in {"none", "started"}
              /\ exec' = x.exec /\ item' = x.item /\ status' = x.status /\ bound' = x.bound /\ job' = x.job
<1> DEFINE G == [n \in 0..Len(log) |->
                   {x \in RowSet : ReadRows(x) /\ \A d \in Decision : \A i \in 1..n :
                                     log[i] = Line("START", d) => x.status[d] \in {"none", "started"}}]
           x == Applied(Rows, log)
<1>1. RowType /\ epoch \in Nat /\ log \in Seq(LogLine) /\ Len(log) \in Nat /\ DOMAIN log = 1..Len(log)
  BY TypeParts DEF EngineType
<1>2. Rows \in RowSet /\ Rows \in G[0]
  <2>1. ReadRows(Rows)
    BY <1>1, RowsTyped DEF ReadRows, Truthful, Completed
  <2>2. 0 \in 0..Len(log) /\ 1..0 = {}
    BY <1>1
  <2> QED
    BY <1>1, <2>1, <2>2, RowsTyped
<1>3. ASSUME NEW n \in 1..Len(log), NEW y \in RowSet
      PROVE  /\ Apply(y, log[n]) \in RowSet
             /\ y \in G[n - 1] => Apply(y, log[n]) \in G[n]
  <2>1. log[n] \in LogLine /\ log[n].dec \in Decision /\ log[n].kind \in {"START", "END"}
    <3>1. log[n] \in LogLine
      BY <1>1
    <3> QED
      BY <3>1 DEF LogLine
  <2>2. Apply(y, log[n]) \in RowSet
    BY <1>1, <2>1, AppliedLine
  <2>3. ASSUME y \in G[n - 1] PROVE Apply(y, log[n]) \in G[n]
    <3>1. n - 1 \in 0..Len(log) /\ n \in 0..Len(log) /\ \A i \in 1..n : i \in 1..(n - 1) \/ i = n
      BY <1>1
    <3>2. ReadRows(y) /\ \A d \in Decision : \A i \in 1..(n - 1) :
                           log[i] = Line("START", d) => y.status[d] \in {"none", "started"}
      BY <2>3, <3>1
    <3>3. CASE log[n].kind = "START"
      <4> DEFINE d == log[n].dec
                 c == Confirm(y, d)
      <4>1. Apply(y, log[n]) = c
        BY <3>3 DEF Apply
      <4>2. log[n] = Line("START", d)
        BY <2>1, <3>3 DEF LogLine, Line
      <4>3. d \in Begun
        BY <1>1, <2>1, <4>2 DEF Begun, Elements
      <4>4. \A e \in Decision : Line("START", e).dec = e
        BY DEF Line
      <4> HIDE DEF d
      <4>5. /\ c \in RowSet /\ ReadRows(c) /\ c.status[d] \in {"none", "started"}
            /\ \A e \in Decision : y.status[e] \in {"none", "started"} => c.status[e] \in {"none", "started"}
        BY <1>1, <3>2, <4>3, ReadStart
      <4> HIDE DEF c
      <4>6. ASSUME NEW e \in Decision, NEW i \in 1..n, log[i] = Line("START", e)
            PROVE  c.status[e] \in {"none", "started"}
        <5>1. i = n => e = d
          BY <4>2, <4>4, <4>6, <4>3 DEF Begun
        <5> QED
          BY <3>1, <3>2, <4>5, <4>6, <5>1
      <4> QED
        BY <3>1, <4>1, <4>5, <4>6
    <3>4. CASE log[n].kind # "START"
      <4> DEFINE d == log[n].dec
                 f == Finish(y, d)
      <4>1. Apply(y, log[n]) = f
        BY <3>4 DEF Apply
      <4>2. \A e \in Decision : log[n] # Line("START", e)
        BY <3>4 DEF Line
      <4>3. f \in RowSet /\ ReadRows(f) /\ f.status = y.status
        BY <1>1, <2>1, <3>2, ReadEnd
      <4> HIDE DEF f
      <4> QED
        BY <3>1, <3>2, <4>1, <4>2, <4>3
    <3> QED
      BY <3>3, <3>4
  <2> HIDE DEF G
  <2> QED
    BY <2>2, <2>3
<1> HIDE DEF G
<1>4. x \in RowSet /\ x \in G[Len(log)]
  BY <1>1, <1>2, <1>3, AppliedKeeps
<1> HIDE DEF x
<1>5. Len(log) \in 0..Len(log)
  BY <1>1
<1>6. ReadRows(x) /\ \A d \in Decision : \A i \in 1..Len(log) :
                       log[i] = Line("START", d) => x.status[d] \in {"none", "started"}
  BY <1>4, <1>5 DEF G
<1>7. \A d \in Begun : x.status[d] \in {"none", "started"}
  <2>1. ASSUME NEW d \in Begun PROVE \E i \in 1..Len(log) : log[i] = Line("START", d)
    BY <1>1 DEF Begun, Elements
  <2> QED
    BY <1>6, <2>1 DEF Begun
<1>8. /\ Write(x) /\ pc = "collect" /\ pc' = "inventory" /\ log' = <<>>
      /\ UNCHANGED <<abort, try, timed, linked, epoch, queue, onair, aired, block, seen, missing, late, batch, held>>
  BY DEF Collect, x
<1>9. RowType' /\ exec' = x.exec /\ item' = x.item /\ status' = x.status /\ bound' = x.bound /\ job' = x.job
  BY <1>1, <1>4, <1>8, Written, WrittenType
<1> QED
  BY <1>4, <1>6, <1>7, <1>8, <1>9

----------------------------------------------------------------------------
(* THE TYPE *)

LEMMA ElementsIn == ASSUME NEW S, NEW s \in Seq(S) PROVE Elements(s) \subseteq S
<1>1. DOMAIN s = 1..Len(s) /\ \A i \in 1..Len(s) : s[i] \in S
  OBVIOUS
<1> QED
  BY <1>1 DEF Elements
LEMMA LiveIn == EngineType => Live \subseteq Decision /\ Elements(queue) \subseteq Decision
BY ElementsIn DEF EngineType, Live

(* The steps that write no rows through Write. *)
LEMMA CancelEffect ==
  ASSUME RowType, CancelOccurrence
  PROVE  /\ RowType' /\ linked /\ ~held /\ linked' = FALSE /\ exec' = "CANCELLED" /\ EngineSame
         /\ UNCHANGED <<abort, item, try, timed, bound, memVars, faults>>
         /\ \A d \in Decision :
              /\ job'[d] = IF Owns(d) /\ status[d] \in {"queued", "submitting"} /\ job[d] = "none" THEN "pending" ELSE job[d]
              /\ status'[d] = IF Owns(d) /\ status[d] = "selected" THEN "failed" ELSE status[d]
<1> DEFINE old == {Dec(p) : p \in {q \in Item : Has(q)}}
<1>1. /\ linked /\ ~held /\ linked' = FALSE /\ exec' = "CANCELLED" /\ occ' = "CANCELLED"
      /\ UNCHANGED <<abort, item, try, timed, bound, memVars, faults>> /\ EngineSame
      /\ job' = [d \in Decision |-> IF d \in old /\ status[d] \in {"queued", "submitting"} /\ job[d] = "none"
                                    THEN "pending" ELSE job[d]]
      /\ status' = [d \in Decision |-> IF d \in old /\ status[d] = "selected" THEN "failed" ELSE status[d]]
  BY DEF CancelOccurrence, engineVars, EngineSame
<1>2. \A d \in Decision : d \in old <=> Owns(d)
  BY Owned
<1> HIDE DEF old
<1>3. job' \in [Decision -> JobStates] /\ status' \in [Decision -> Statuses]
  BY <1>1 DEF RowType, JobStates, Statuses
<1>4. RowType'
  BY <1>1, <1>3 DEF RowType, ExecStates, Over, OccStates
<1> QED
  BY <1>1, <1>2, <1>4

LEMMA ReconcileEffect ==
  ASSUME TypeOK, Reconcile
  PROVE  /\ RowType' /\ WorkerType' /\ pc = "reconcile" /\ EngineSame
         /\ pc' = IF block THEN "act" ELSE "resolve"
         /\ seen' = IF block THEN {} ELSE Live
         /\ UNCHANGED <<exec, abort, try, timed, linked, bound, job, block, late, batch, held, faults>>
         /\ \A p \in Item : item'[p] = item[p] \/ (item[p] = "STARTED" /\ item'[p] = "FAILED")
         /\ \A d \in Decision : /\ status'[d] = IF d \in Lost THEN "failed" ELSE status[d]
                                /\ missing'[d] # "no" => d \in Gone /\ d \notin Lost
<1>0. RowType /\ WorkerType /\ EngineType
  BY TypeParts
<1>1. /\ pc = "reconcile" /\ EngineSame /\ occ' = IF ~Relabelled THEN occ ELSE IF exec = "ABORTED" THEN "FAILED" ELSE exec
      /\ item' = [p \in Item |-> IF p \in Interrupted THEN "FAILED" ELSE item[p]]
      /\ status' = [d \in Decision |-> IF d \in Lost THEN "failed" ELSE status[d]]
      /\ missing' = [d \in Decision |-> IF d \notin Gone \ Lost THEN "no" ELSE IF missing[d] = "no" THEN "open" ELSE missing[d]]
      /\ pc' = IF block THEN "act" ELSE "resolve"
      /\ seen' = IF block THEN {} ELSE Live
      /\ UNCHANGED <<exec, abort, try, timed, linked, bound, job, block, late, batch, held, faults>>
  BY DEF Reconcile, engineVars, EngineSame
<1>2. occ' \in OccStates
  BY <1>0, <1>1 DEF RowType, Relabelled, Over, OccStates
<1>3. item' \in [Item -> ItemStates] /\ status' \in [Decision -> Statuses]
  BY <1>0, <1>1 DEF RowType, ItemStates, Finished, Statuses
<1>4. missing' \in [Decision -> {"no", "open", "closed"}]
  BY <1>0, <1>1 DEF WorkerType
<1>5. pc' \in Places /\ seen' \subseteq Decision
  BY <1>0, <1>1, LiveIn DEF Places
<1> QED
  BY <1>0, <1>1, <1>2, <1>3, <1>4, <1>5 DEF RowType, WorkerType, Interrupted, With

LEMMA ResolveEffect ==
  ASSUME TypeOK, Resolve
  PROVE  /\ RowType' /\ WorkerType' /\ pc = "resolve" /\ pc' = "sweep" /\ seen' = {} /\ EngineSame
         /\ UNCHANGED <<rowVars, job, block, missing, late, batch, held, faults>>
         /\ \A d \in Decision :
              /\ status'[d] = IF status[d] = "submitting" THEN IF d \in seen THEN "queued" ELSE "selected" ELSE status[d]
              /\ bound'[d] = IF status[d] = "submitting" /\ d \in seen THEN epoch ELSE bound[d]
<1> DEFINE open == {d \in Decision : status[d] = "submitting"}
<1>0. RowType /\ WorkerType /\ EngineType
  BY TypeParts
<1>1. /\ pc = "resolve" /\ pc' = "sweep" /\ seen' = {} /\ EngineSame
      /\ UNCHANGED <<rowVars, job, block, missing, late, batch, held, faults>>
      /\ status' = [d \in Decision |-> IF d \in open THEN IF d \in seen THEN "queued" ELSE "selected" ELSE status[d]]
      /\ bound' = [d \in Decision |-> IF d \in open \cap seen THEN epoch ELSE bound[d]]
  BY DEF Resolve, engineVars, EngineSame
<1>2. status' \in [Decision -> Statuses] /\ bound' \in [Decision -> Nat]
  BY <1>0, <1>1 DEF RowType, EngineType, Statuses
<1>3. RowType'
  BY <1>0, <1>1, <1>2 DEF RowType, rowVars
<1>4. WorkerType'
  BY <1>0, <1>1 DEF WorkerType, Places
<1> QED
  BY <1>1, <1>3, <1>4

LEMMA SweepEffect ==
  ASSUME TypeOK, Sweep
  PROVE  /\ RowType' /\ WorkerType' /\ pc = "sweep" /\ pc' = "collect" /\ block' = (~block /\ exec \in Active)
         /\ queue' \in Seq(Decision) /\ Elements(queue') = Elements(queue) \ Found
         /\ \A R : Sorted(queue, R) => Sorted(queue', R)
         /\ UNCHANGED <<rowVars, bound, epoch, onair, log, aired, seen, missing, late, batch, held, faults>>
         /\ \A d \in Decision :
              /\ status'[d] = IF d \in Jobs /\ status[d] # "started" THEN "failed" ELSE status[d]
              /\ job'[d] = IF d \in Jobs THEN "done" ELSE job[d]
<1>0. RowType /\ WorkerType /\ queue \in Seq(Decision)
  BY TypeParts DEF EngineType
<1>1. /\ pc = "sweep" /\ pc' = "collect" /\ block' = (~block /\ exec \in Active) /\ queue' = Without(queue, Found)
      /\ status' = [d \in Decision |-> IF d \in Jobs /\ status[d] # "started" THEN "failed" ELSE status[d]]
      /\ job' = [d \in Decision |-> IF d \in Jobs THEN "done" ELSE job[d]]
      /\ UNCHANGED <<rowVars, bound, epoch, onair, log, aired, seen, missing, late, batch, held, faults>>
  BY DEF Sweep
<1>2. status' \in [Decision -> Statuses] /\ job' \in [Decision -> JobStates]
  BY <1>0, <1>1 DEF RowType, Statuses, JobStates
<1>3. RowType'
  BY <1>0, <1>1, <1>2 DEF RowType, rowVars
<1>4. WorkerType'
  BY <1>0, <1>1 DEF WorkerType, Places
<1>5. /\ queue' \in Seq(Decision) /\ Elements(queue') = Elements(queue) \ Found
      /\ \A R : Sorted(queue, R) => Sorted(queue', R)
  BY <1>0, <1>1, WithoutKeeps
<1> QED
  BY <1>1, <1>3, <1>4, <1>5

(* The engine. *)
LEMMA StartsEffect ==
  ASSUME TypeOK, Starts
  PROVE  LET h == Head(queue)
         IN  /\ EngineType' /\ h \in Decision /\ onair' = h
             /\ Elements(queue) = {h} \cup Elements(queue')
             /\ \A R : Sorted(queue, R) => Sorted(queue', R) /\ \A e \in Elements(queue') : <<h, e>> \in R
             /\ Elements(log') = Elements(log) \cup {Line("START", h)}
             /\ Len(aired') = Len(aired) + 1 /\ aired'[Len(aired) + 1] = [item |-> h.item, epoch |-> epoch]
             /\ \A i \in 1..Len(aired) : aired'[i] = aired[i]
             /\ UNCHANGED <<rowVars, decVars, epoch, memVars, faults>>
<1> DEFINE h == Head(queue)
           a == [item |-> h.item, epoch |-> epoch]
<1>1. EngineType
  BY TypeParts
<1>2. /\ queue \in Seq(Decision) /\ queue # <<>> /\ log \in Seq(LogLine) /\ aired \in Seq([item: Item, epoch: Nat])
      /\ epoch \in Nat
  BY <1>1 DEF Starts, EngineType
<1>3. /\ h \in Decision /\ Tail(queue) \in Seq(Decision) /\ Elements(queue) = {h} \cup Elements(Tail(queue))
      /\ \A R : Sorted(queue, R) => Sorted(Tail(queue), R) /\ \A e \in Elements(Tail(queue)) : <<h, e>> \in R
  BY <1>2, HeadTail
<1>4. Line("START", h) \in LogLine /\ a \in [item: Item, epoch: Nat]
  BY <1>2, <1>3 DEF Line, LogLine, Decision
<1>5. /\ onair' = h /\ queue' = Tail(queue) /\ log' = Append(log, Line("START", h)) /\ aired' = Append(aired, a)
      /\ UNCHANGED <<rowVars, decVars, epoch, memVars, faults>>
  BY DEF Starts
<1> HIDE DEF a, h
<1>6. log' \in Seq(LogLine) /\ Elements(log') = Elements(log) \cup {Line("START", h)}
  BY <1>2, <1>4, <1>5, Appended
<1>7. /\ aired' \in Seq([item: Item, epoch: Nat]) /\ Len(aired') = Len(aired) + 1 /\ aired'[Len(aired) + 1] = a
      /\ \A i \in 1..Len(aired) : aired'[i] = aired[i]
  BY <1>2, <1>4, <1>5, AppendProperties
<1>8. EngineType'
  BY <1>2, <1>3, <1>5, <1>6, <1>7 DEF EngineType
<1> QED
  BY <1>3, <1>5, <1>6, <1>7, <1>8 DEF a, h

LEMMA EndsEffect ==
  ASSUME TypeOK, NEW written \in BOOLEAN, Ends(written)
  PROVE  /\ EngineType' /\ onair' = Silence
         /\ \A d : Line("START", d) \in Elements(log') <=> Line("START", d) \in Elements(log)
         /\ UNCHANGED <<rowVars, decVars, epoch, queue, aired, memVars, faults>>
<1>1. EngineType
  BY TypeParts
<1>2. /\ onair \in Decision /\ onair' = Silence /\ log' = IF written THEN Append(log, Line("END", onair)) ELSE log
      /\ UNCHANGED <<rowVars, decVars, epoch, queue, aired, memVars, faults>>
  BY <1>1 DEF Ends, EngineType
<1>3. Line("END", onair) \in LogLine /\ \A d : Line("START", d) # Line("END", onair)
  BY <1>2 DEF Line, LogLine
<1>4. log' \in Seq(LogLine) /\ (Elements(log') = Elements(log) \/ Elements(log') = Elements(log) \cup {Line("END", onair)})
  BY <1>1, <1>2, <1>3, Appended DEF EngineType
<1>5. EngineType'
  BY <1>1, <1>2, <1>4 DEF EngineType
<1> QED
  BY <1>2, <1>3, <1>4, <1>5

LEMMA RestartEffect ==
  ASSUME TypeOK, EngineRestart
  PROVE  /\ EngineType' /\ epoch' = epoch + 1 /\ queue' = <<>> /\ onair' = Silence /\ log' = <<>>
         /\ UNCHANGED <<rowVars, decVars, aired, memVars>> /\ faults' \in 0..MaxFault
<1>1. faults \in 0..MaxFault /\ faults < MaxFault /\ faults' = faults + 1 /\ EngineType
  BY TypeParts DEF EngineRestart, Fault, WorkerType
<1>2. faults' \in 0..MaxFault
  BY <1>1, SequenceAssumption
<1> QED
  BY <1>1, <1>2 DEF EngineRestart, EngineType


(* What a command adds to the queue.                                       *)
LEMMA AcceptEffect ==
  ASSUME queue \in Seq(Decision), batch \in Seq(Decision), Accept
  PROVE  queue' \in Seq(Decision) /\ Elements(queue') = Elements(queue) \cup Elements(batch)
<1>1. CASE queue' = batch \o queue
  <2>1. queue' = batch \o queue
    BY <1>1
  <2>2. batch \o queue \in Seq(Decision) /\ Elements(batch \o queue) = Elements(batch) \cup Elements(queue)
    BY Joined
  <2> QED
    BY <2>1, <2>2
<1>2. CASE queue' = queue \o batch
  <2>1. queue' = queue \o batch
    BY <1>2
  <2>2. queue \o batch \in Seq(Decision) /\ Elements(queue \o batch) = Elements(queue) \cup Elements(batch)
    BY Joined
  <2> QED
    BY <2>1, <2>2
<1> QED
  BY <1>1, <1>2 DEF Accept

(* In order, when it is put before nothing.                                *)
LEMMA AcceptInOrder ==
  ASSUME queue \in Seq(Decision), batch \in Seq(Decision), Accept,
         Sorted(queue, Before), Sorted(batch, Before),
         \A d \in Elements(queue), e \in Elements(batch) : <<d, e>> \in Before,
         linked \/ pc = "push" => queue = <<>>
  PROVE  Sorted(queue', Before)
<1>1. CASE queue = <<>>
  <2>1. queue' = <<>> \o batch \/ queue' = batch \o <<>>
    BY <1>1 DEF Accept
  <2>2. <<>> \o batch = batch /\ batch \o <<>> = batch
    BY ConcatEmptySeq
  <2> QED
    BY <2>1, <2>2
<1>2. CASE ~(linked \/ pc = "push")
  <2>1. queue' = queue \o batch
    BY <1>2 DEF Accept
  <2>2. Sorted(queue \o batch, Before)
    BY Joined
  <2> QED
    BY <2>1, <2>2
<1> QED
  BY <1>1, <1>2

LEMMA SubmitsEffect ==
  ASSUME TypeOK, Push \/ PushOne
  PROVE  /\ EngineType' /\ WorkerType' /\ pc' = IF pc = "push" THEN "ack" ELSE "ack one" 
         /\ pc \in {"push", "push one"} /\ Accept
         /\ UNCHANGED <<rowVars, decVars, epoch, onair, log, aired, block, seen, missing, late, batch, faults>>
<1>1. /\ pc \in {"push", "push one"} /\ pc' = (IF pc = "push" THEN "ack" ELSE "ack one") /\ Accept /\ held' = linked
      /\ UNCHANGED <<rowVars, decVars, epoch, onair, log, aired, block, seen, missing, late, batch, faults>>
  BY DEF Push, PushOne, Submits
<1>2. RowType /\ EngineType /\ WorkerType
  BY TypeParts
<1>3. queue' \in Seq(Decision)
  BY <1>1, <1>2, AcceptEffect DEF EngineType, WorkerType
<1>4. EngineType' /\ WorkerType'
  BY <1>1, <1>2, <1>3 DEF EngineType, WorkerType, RowType, Places
<1> QED
  BY <1>1, <1>4

LEMMA NotPushedType ==
  ASSUME TypeOK, NotPushed, faults' = faults \/ Fault("answer")
  PROVE  EngineType' /\ (queue' = queue \/ (Accept /\ Fault("answer"))) /\ Elements(queue') \subseteq Elements(queue) \cup Elements(batch)
<1>1. queue' = queue \/ (Accept /\ Fault("answer"))
  BY DEF NotPushed, Refused
<1>2. RowType /\ EngineType /\ WorkerType
  BY TypeParts
<1>3. queue' \in Seq(Decision) /\ Elements(queue') \subseteq Elements(queue) \cup Elements(batch)
  BY <1>1, <1>2, AcceptEffect DEF EngineType, WorkerType
<1> QED
  BY <1>1, <1>2, <1>3 DEF NotPushed, EngineType

(* The steps one by one.                                                   *)
Settles6 == \/ Abort \/ FailSequence \/ FinishSequence \/ NextUnavailable \/ EndUnconfirmed \/ KeepWaiting
LEMMA SettledEffect ==
  ASSUME RowType, Settles6
  PROVE  RowType' /\ Settled /\ (faults' = faults \/ Fault("content"))
<1>1. RowType' /\ Settled
  BY AbortSettles, FailureSettles, FinishSettles, UnavailableSettles, UnendedSettles, WaitingSettles DEF Settles6
<1>2. faults' = faults \/ Fault("content")
  BY DEF Settles6, Abort, FailSequence, FinishSequence, NextUnavailable, EndUnconfirmed, KeepWaiting, resting
<1> QED
  BY <1>1, <1>2

LEMMA FaultType == ASSUME WorkerType, NEW k, faults' = faults \/ Fault(k) PROVE faults' \in 0..MaxFault
<1>1. faults \in 0..MaxFault /\ MaxFault \in Nat
  BY SequenceAssumption DEF WorkerType
<1>2. ASSUME Fault(k) PROVE faults' \in 0..MaxFault
  <2>1. faults < MaxFault /\ faults' = faults + 1
    BY <1>2 DEF Fault
  <2>2. \A n \in 0..MaxFault : n < MaxFault => n + 1 \in 0..MaxFault
    BY <1>1
  <2> QED
    BY <1>1, <2>1, <2>2
<1> QED
  BY <1>1, <1>2

LEMMA TypeBegins == Init => TypeOK
<1> SUFFICES ASSUME Init PROVE TypeOK
  OBVIOUS
<1>1. <<>> \in Seq(Decision) /\ <<>> \in Seq(LogLine) /\ <<>> \in Seq([item: Item, epoch: Nat])
  OBVIOUS
<1>2. MaxFault \in Nat /\ MaxTry \in Nat /\ Staged \subseteq BOOLEAN
  BY SequenceAssumption
<1>3. 0 \in 0..MaxTry /\ 0 \in 0..MaxFault
  BY <1>2
<1>4. timed \in BOOLEAN /\ linked \in BOOLEAN /\ occ \in OccStates
  BY <1>2 DEF Init, OccStates
<1>5. RowType
  BY <1>3, <1>4 DEF Init, RowType, ExecStates, Active, ItemStates, Statuses, JobStates
<1>6. EngineType
  BY <1>1 DEF Init, EngineType
<1>7. WorkerType
  <2>1. pc \in Places /\ block \in BOOLEAN /\ held \in BOOLEAN
    BY DEF Init, Places
  <2>2. seen \subseteq Decision /\ batch \in Seq(Decision) /\ faults \in 0..MaxFault
    BY <1>1, <1>3 DEF Init
  <2>3. missing \in [Decision -> {"no", "open", "closed"}]
    BY DEF Init
  <2>4. late \in [Decision -> 0..2]
    BY DEF Init
  <2> QED
    BY <2>1, <2>2, <2>3, <2>4 DEF WorkerType
<1>8. known \subseteq Decision
  BY DEF Init
<1> QED
  BY <1>5, <1>6, <1>7, <1>8, TypeParts

LEMMA TypeParts1 == ASSUME RowType', EngineType', WorkerType', known' \subseteq Decision PROVE TypeOK'
BY DEF TypeOK, RowType, EngineType, WorkerType, ExecStates, ItemStates, OccStates, Statuses, JobStates, LogLine, Places

(* Request ids are recorded for what was handed over or found in the engine. *)
LEMMA KnownKept ==
  ASSUME TypeOK, [Next]_vars
  PROVE  known' \subseteq Decision
<1>0. known \subseteq Decision /\ batch \in Seq(Decision)
  BY TypeParts DEF WorkerType
<1>1. Elements(batch) \subseteq Decision
  BY <1>0, ElementsIn
<1>2. CASE UNCHANGED vars
  BY <1>0, <1>2 DEF vars, decVars
<1>3. CASE Web
  BY <1>0, <1>3 DEF Web, RequestAbort, CancelOccurrence, decVars
<1>4. CASE Engine \/ Passes \/ EngineRestart \/ WorkerCrash
  BY <1>0, <1>4 DEF Engine, Starts, Ends, Passes, WindowCloses, LengthPasses, EngineRestart, WorkerCrash, decVars
<1>5. CASE Worker
  <2>1. CASE Resolve
    BY <1>0, <2>1 DEF Resolve
  <2>2. CASE Ack \/ AckOne
    BY <1>0, <1>1, <2>2 DEF Ack, AckOne
  <2>3. CASE Collect \/ Inventory \/ Reconcile \/ Sweep
    BY <1>0, <2>3 DEF Collect, Inventory, Reconcile, Sweep, decVars
  <2>4. CASE Abort \/ Adopt \/ FailSequence \/ FinishSequence \/ EndUnconfirmed \/ KeepWaiting
    BY <1>0, <2>4 DEF Abort, Adopt, FailSequence, FinishSequence, EndUnconfirmed, KeepWaiting, resting
  <2>5. CASE PushFails \/ PushOneFails
    BY <1>0, <2>5 DEF PushFails, PushOneFails, unsubmitted
  <2>6. CASE Push \/ PushOne
    BY <1>0, <2>6 DEF Push, PushOne, Submits, decVars
  <2>7. CASE PrepareNext \/ NextUnavailable
    BY <1>0, <2>7 DEF PrepareNext, NextUnavailable
  <2>8. ASSUME NEW bad \in SUBSET Item, Stage(bad) \/ StageFails(bad) PROVE known' \subseteq Decision
    BY <1>0, <2>8 DEF Stage, StageFails
  <2> QED
    BY <1>5, <2>1, <2>2, <2>3, <2>4, <2>5, <2>6, <2>7, <2>8 DEF Worker
<1> QED
  BY <1>2, <1>3, <1>4, <1>5 DEF Next

LEMMA TypeStep ==
  ASSUME TypeOK, Truthful, Completed, [Next]_vars
  PROVE  TypeOK'
<1>0. RowType /\ EngineType /\ WorkerType
  BY TypeParts
<1> SUFFICES RowType' /\ EngineType' /\ WorkerType'
  BY KnownKept, TypeParts1
<1>1. CASE UNCHANGED vars
  BY <1>0, <1>1 DEF vars, rowVars, decVars, engineVars, memVars, RowType, EngineType, WorkerType
<1>2. CASE RequestAbort
  BY <1>0, <1>2 DEF RequestAbort, decVars, engineVars, memVars, RowType, EngineType, WorkerType
<1>3. CASE CancelOccurrence
  BY <1>0, <1>3, CancelEffect DEF EngineSame, memVars, EngineType, WorkerType
<1>4. CASE Starts
  BY <1>0, <1>4, StartsEffect DEF rowVars, decVars, memVars, RowType, WorkerType
<1>5. ASSUME NEW written \in BOOLEAN, Ends(written) PROVE RowType' /\ EngineType' /\ WorkerType'
  BY <1>0, <1>5, EndsEffect DEF rowVars, decVars, memVars, RowType, WorkerType
<1>6. CASE EngineRestart
  BY <1>0, <1>6, RestartEffect DEF rowVars, decVars, memVars, RowType, WorkerType
<1>7. ASSUME NEW d \in Decision, WindowCloses(d) PROVE RowType' /\ EngineType' /\ WorkerType'
  BY <1>0, <1>7 DEF WindowCloses, rowVars, decVars, engineVars, RowType, EngineType, WorkerType
<1>8. ASSUME NEW d \in Decision, LengthPasses(d) PROVE RowType' /\ EngineType' /\ WorkerType'
  <2>1. late[d] \in 0..2 /\ late[d] < 2 /\ late' = [late EXCEPT ![d] = late[d] + 1]
    BY <1>0, <1>8 DEF LengthPasses, WorkerType
  <2>2. late' \in [Decision -> 0..2]
    BY <1>0, <2>1 DEF WorkerType
  <2> QED
    BY <1>0, <1>8, <2>2 DEF LengthPasses, rowVars, decVars, engineVars, RowType, EngineType, WorkerType
<1>9. CASE Collect
  <2>1. <<>> \in Seq(LogLine)
    OBVIOUS
  <2>2. faults' = faults
    BY <1>9 DEF Collect
  <2> QED
    BY <1>0, <1>9, <2>1, <2>2, CollectEffect DEF EngineType, WorkerType, Places
<1>10. CASE Inventory
  BY <1>0, <1>10, LiveIn DEF Inventory, rowVars, decVars, engineVars, RowType, EngineType, WorkerType, Places
<1>11. CASE Reconcile
  BY <1>0, <1>11, ReconcileEffect DEF EngineSame, EngineType
<1>12. CASE Resolve
  BY <1>0, <1>12, ResolveEffect DEF EngineSame, EngineType
<1>13. CASE Sweep
  BY <1>0, <1>13, SweepEffect DEF EngineType
<1>14. CASE Settles6
  <2>1. RowType' /\ Settled /\ faults' \in 0..MaxFault
    BY <1>0, <1>14, SettledEffect, FaultType
  <2>2. <<>> \in Seq(Decision)
    OBVIOUS
  <2> QED
    BY <1>0, <2>1, <2>2 DEF Settled, EngineSame, EngineType, WorkerType, Places
<1>15. CASE Adopt
  <2>1. faults' = faults
    BY <1>15 DEF Adopt, resting
  <2> QED
    BY <1>0, <1>15, <2>1, AdoptEffect DEF EngineSame, EngineType, WorkerType
<1>16. ASSUME NEW bad \in SUBSET Item, Stage(bad) PROVE RowType' /\ EngineType' /\ WorkerType'
  <2>1. faults' \in 0..MaxFault
    BY <1>0, <1>16, FaultType DEF Stage
  <2> QED
    BY <1>0, <1>16, <2>1, StageEffect DEF EngineSame, EngineType, WorkerType, Places
<1>17. ASSUME NEW bad \in SUBSET Item, StageFails(bad) PROVE RowType' /\ EngineType' /\ WorkerType'
  <2>1. faults' \in 0..MaxFault
    BY <1>0, <1>17, FaultType DEF StageFails
  <2>2. block' \in BOOLEAN
    BY <1>17 DEF StageFails
  <2> QED
    BY <1>0, <1>17, <2>1, <2>2, StageFailsEffect DEF EngineSame, EngineType, WorkerType, Places
<1>18. CASE Push \/ PushOne
  BY <1>0, <1>18, SubmitsEffect DEF rowVars, decVars, RowType
<1>19. CASE PushFails \/ PushOneFails
  <2>1. RowType' /\ NotPushed /\ (faults' = faults \/ Fault("answer")) /\ block' \in BOOLEAN
    BY <1>0, <1>19, PushFailsEffect, PushOneFailsEffect DEF PushFails, PushOneFails, Refused, Done
  <2>2. EngineType' /\ faults' \in 0..MaxFault /\ <<>> \in Seq(Decision)
    BY <1>0, <2>1, NotPushedType, FaultType
  <2> QED
    BY <1>0, <2>1, <2>2 DEF NotPushed, WorkerType, Places
<1>20. CASE Ack \/ AckOne
  <2>1. RowType' /\ Acknowledged /\ faults' = faults /\ held' = FALSE /\ block' \in BOOLEAN
    BY <1>0, <1>20, AckEffect DEF EngineType, Ack, AckOne, Done
  <2>2. <<>> \in Seq(Decision)
    OBVIOUS
  <2> QED
    BY <1>0, <2>1, <2>2 DEF Acknowledged, EngineSame, EngineType, WorkerType, Places
<1>21. CASE PrepareNext
  <2>1. faults' = faults
    BY <1>21 DEF PrepareNext
  <2>2. batch' \in Seq(Decision)
    <3>1. PICK d \in Decision : batch' = <<d>>
      BY <1>0, <1>21, PrepareEffect
    <3> QED
      BY <3>1, Alone
  <2> QED
    BY <1>0, <1>21, <2>1, <2>2, PrepareEffect DEF EngineSame, EngineType, WorkerType, Places
<1>22. CASE WorkerCrash
  <2>1. /\ pc' = "collect" /\ block' = FALSE /\ seen' = {} /\ batch' = <<>> /\ held' = FALSE
        /\ missing' = [d \in Decision |-> "no"] /\ Fault("crash")
        /\ UNCHANGED <<rowVars, decVars, engineVars, late>>
    BY <1>22 DEF WorkerCrash
  <2>2. faults' \in 0..MaxFault /\ <<>> \in Seq(Decision)
    BY <1>0, <2>1, FaultType
  <2> QED
    BY <1>0, <2>1, <2>2 DEF rowVars, decVars, engineVars, RowType, EngineType, WorkerType, Places
<1> QED
  BY <1>1, <1>2, <1>3, <1>4, <1>5, <1>6, <1>7, <1>8, <1>9, <1>10, <1>11, <1>12, <1>13, <1>14, <1>15, <1>16, <1>17,
     <1>18, <1>19, <1>20, <1>21, <1>22 DEF Next, Web, Engine, Passes, Worker, Settles6
----------------------------------------------------------------------------
(* WHAT THE ROWS KEEP *)

Past   == {aired[i].item : i \in DOMAIN aired}
Heard  == {aired[i].item : i \in {j \in DOMAIN aired : aired[j].epoch = epoch}}
Queued == Elements(queue)
Batch  == Elements(batch)
Pending(p) == item[p] = "PENDING"
Pushing == {"push", "ack", "push one", "ack one"}

Recorded == \A d \in Decision : status[d] = "started" => d.item \in Past
LogNow   == \A d \in Begun : d.item \in Heard
Made     == \A d \in Decision : d.try > try[d.item] => status[d] = "none" /\ job[d] = "none"
BatchOK  == \A d \in Batch : pc \in Pushing /\ Owns(d) /\ Pending(d.item) /\ status[d] = "submitting"
Epochs   == \A i \in DOMAIN aired : aired[i].epoch <= epoch
RowsInv  == Recorded /\ Truthful /\ Completed /\ Made /\ BatchOK
StoryInv == TypeOK /\ LogNow /\ Epochs /\ RowsInv

(* The steps that tell no new story to the rows.                           *)
LEMMA RowsStay ==
  ASSUME RowsInv, UNCHANGED <<exec, item, try, status, job>>, Past \subseteq Past',
         batch' = <<>> \/ (batch' = batch /\ (pc' = pc \/ (pc \in Pushing <=> pc' \in Pushing)))
  PROVE  RowsInv'
<1>1. Recorded' /\ Completed' /\ Made'
  BY DEF RowsInv, Recorded, Completed, Made
<1>2. Truthful'
  BY DEF RowsInv, Truthful, Has, Dec
<1>3. BatchOK'
  <2>1. Batch' \subseteq Batch /\ (Batch' # {} => (pc' = pc \/ (pc \in Pushing <=> pc' \in Pushing)))
    BY EmptyHasNone DEF Batch, Elements
  <2> QED
    BY <2>1 DEF RowsInv, BatchOK, Owns, Pending
<1> QED
  BY <1>1, <1>2, <1>3 DEF RowsInv

LEMMA BatchEmpty ==
  ASSUME BatchOK, pc \notin Pushing PROVE Batch = {}
BY DEF BatchOK

LEMMA NoBatch == ASSUME batch' = <<>> PROVE BatchOK'
BY EmptyHasNone DEF BatchOK, Batch, Elements

LEMMA RowsCancel ==
  ASSUME TypeOK, RowsInv, CancelOccurrence
  PROVE  RowsInv'
<1>0. RowType
  BY TypeParts
<1> DEFINE fact == /\ exec' = "CANCELLED"
                   /\ UNCHANGED <<item, try, pc, batch, aired>>
                   /\ \A d \in Decision :
                        /\ job'[d] = IF Owns(d) /\ status[d] \in {"queued", "submitting"} /\ job[d] = "none"
                                     THEN "pending" ELSE job[d]
                        /\ status'[d] = IF Owns(d) /\ status[d] = "selected" THEN "failed" ELSE status[d]
<1>1. fact
  BY <1>0, CancelEffect DEF EngineSame, memVars
<1>2. Recorded'
  BY <1>1 DEF RowsInv, Recorded, Past
<1>3. Truthful'
  BY <1>0, <1>1, Owned DEF RowsInv, Truthful, Has, Dec
<1>4. Completed'
  BY <1>1 DEF Completed
<1>5. Made'
  BY <1>0, <1>1, Owned DEF RowsInv, Made, Owns
<1>6. BatchOK'
  <2>1. Batch' = Batch /\ Batch \subseteq Decision
    BY <1>1, TypeParts, ElementsIn DEF Batch, Elements, WorkerType
  <2> QED
    BY <1>1, <2>1 DEF RowsInv, BatchOK, Owns, Pending
<1> QED
  BY <1>2, <1>3, <1>4, <1>5, <1>6 DEF RowsInv

LEMMA RowsCollect ==
  ASSUME TypeOK, LogNow, RowsInv, Collect
  PROVE  RowsInv'
<1>0. RowType /\ EngineType
  BY TypeParts
<1>1. /\ pc = "collect" /\ UNCHANGED <<try, aired, epoch, batch>>
      /\ \E x \in RowSet :
              /\ ReadRows(x) /\ \A d \in Begun : x.status[d] \in {"none", "started"}
              /\ exec' = x.exec /\ item' = x.item /\ status' = x.status /\ bound' = x.bound /\ job' = x.job
  BY CollectEffect DEF RowsInv
<1>2. /\ job' = job
      /\ \A d \in Decision : status'[d] = status[d] \/ (d \in Begun /\ status'[d] = "started" /\ status[d] # "none")
      /\ \A p \in Item :
           /\ \/ item'[p] = item[p]
              \/ item[p] = "STARTED" /\ item'[p] = "COMPLETED"
              \/ Has(p) /\ status'[Dec(p)] = "started" /\ item'[p] \in {"STARTED", "COMPLETED"}
           /\ Has(p) /\ status'[Dec(p)] = "started" /\ status[Dec(p)] # "started" => item'[p] \in {"STARTED", "COMPLETED"}
      /\ exec' = "COMPLETED" => \E p \in Item : item'[p] = "COMPLETED"
  BY <1>1 DEF ReadRows
<1>3. Recorded'
  <2>1. Heard \subseteq Past
    BY DEF Heard, Past
  <2>2. Past' = Past
    BY <1>1 DEF Past
  <2> QED
    BY <1>2, <2>1, <2>2 DEF RowsInv, Recorded, LogNow
<1>4. Truthful'
  <2> SUFFICES ASSUME NEW p \in Item
               PROVE  /\ item'[p] \in {"STARTED", "COMPLETED"} => Has(p) /\ status'[Dec(p)] = "started"
                      /\ item'[p] \in {"PENDING", "QUEUED"} /\ Has(p) => status'[Dec(p)] # "started"
    BY <1>1 DEF Truthful, Has, Dec
  <2>1. /\ item[p] \in {"STARTED", "COMPLETED"} => Has(p) /\ status[Dec(p)] = "started"
        /\ item[p] \in {"PENDING", "QUEUED"} /\ Has(p) => status[Dec(p)] # "started"
        /\ Has(p) => Dec(p) \in Decision
    BY <1>0, Owned DEF RowsInv, Truthful
  <2> QED
    BY <1>2, <2>1
<1>5. Completed'
  BY <1>2 DEF Completed
<1>6. Made'
  BY <1>0, <1>1, <1>2, Owned DEF RowsInv, Made
<1>7. BatchOK'
  <2>1. Batch = {}
    BY <1>1, BatchEmpty DEF RowsInv, Pushing
  <2>2. Batch' = Batch
    BY <1>1 DEF Batch, Elements
  <2> QED
    BY <2>1, <2>2 DEF BatchOK
<1> QED
  BY <1>3, <1>4, <1>5, <1>6, <1>7 DEF RowsInv

(* Reconcile, resolve and sweep change the state of decisions that have    *)
(* not started, and items that nothing plays.                              *)
LEMMA RowsRequests ==
  ASSUME TypeOK, RowsInv, Reconcile \/ Resolve \/ Sweep
  PROVE  RowsInv'
<1>0. RowType
  BY TypeParts
<1>1. /\ pc \notin Pushing /\ UNCHANGED <<exec, try, aired, batch>>
      /\ \A d \in Decision : /\ \/ status'[d] = status[d]
                                \/ status[d] \in {"queued", "submitting"} /\ status'[d] \in {"failed", "queued", "selected"}
                                \/ job[d] = "pending" /\ status[d] # "started" /\ status'[d] = "failed"
                             /\ job'[d] = job[d] \/ job[d] = "pending"
      /\ \A p \in Item : item'[p] = item[p] \/ (item[p] = "STARTED" /\ item'[p] = "FAILED")
  <2>1. CASE Reconcile
    BY <2>1, ReconcileEffect DEF Pushing, EngineSame, Lost, Gone
  <2>2. CASE Resolve
    BY <2>2, ResolveEffect DEF Pushing, EngineSame, rowVars
  <2>3. CASE Sweep
    BY <2>3, SweepEffect DEF Pushing, rowVars, Jobs
  <2> QED
    BY <2>1, <2>2, <2>3
<1>2. Recorded'
  BY <1>1 DEF RowsInv, Recorded, Past
<1>3. Truthful'
  BY <1>0, <1>1, Owned DEF RowsInv, Truthful, Has, Dec
<1>4. Completed'
  BY <1>1 DEF RowsInv, Completed
<1>5. Made'
  BY <1>0, <1>1, Owned DEF RowsInv, Made
<1>6. BatchOK'
  <2>1. Batch = {} /\ Batch' = Batch
    BY <1>1, BatchEmpty DEF RowsInv, Batch, Elements
  <2> QED
    BY <2>1 DEF BatchOK
<1> QED
  BY <1>2, <1>3, <1>4, <1>5, <1>6 DEF RowsInv

LEMMA RowsSettled ==
  ASSUME TypeOK, RowsInv, Settled
  PROVE  RowsInv'
<1>0. RowType
  BY TypeParts
<1>1. /\ UNCHANGED <<try, aired>> /\ batch' = <<>>
      /\ \A d \in Decision : /\ status'[d] = status[d] \/ (status[d] = "selected" /\ status'[d] = "failed")
                             /\ job'[d] = job[d] \/ (job[d] = "none" /\ Owns(d) /\ status[d] # "none")
      /\ \A p \in Item : \/ item'[p] = item[p]
                         \/ item[p] \in {"PENDING", "QUEUED", "STARTED"} /\ item'[p] \in {"FAILED", "SKIPPED"}
                         \/ item[p] = "STARTED" /\ item'[p] = "COMPLETED"
      /\ exec' = "COMPLETED" => exec = "COMPLETED" \/ \E p \in Item : item'[p] = "COMPLETED"
  BY DEF Settled, EngineSame
<1>2. Recorded'
  BY <1>1 DEF RowsInv, Recorded, Past
<1>3. Truthful'
  BY <1>0, <1>1, Owned DEF RowsInv, Truthful, Has, Dec
<1>4. Completed'
  BY <1>1 DEF RowsInv, Completed
<1>5. Made'
  BY <1>0, <1>1, Owned DEF RowsInv, Made, Owns
<1>6. BatchOK'
  BY <1>1, NoBatch
<1> QED
  BY <1>2, <1>3, <1>4, <1>5, <1>6 DEF RowsInv

LEMMA RowsAdopt ==
  ASSUME TypeOK, RowsInv, Adopt
  PROVE  RowsInv'
<1>0. RowType
  BY TypeParts
<1>1. /\ pc = "act" /\ exec' = "QUEUED" /\ UNCHANGED <<status, job, try, batch, aired>>
      /\ \A p \in Item : item'[p] = IF p \in Adopted THEN "QUEUED" ELSE item[p]
      /\ \A p \in Adopted : item[p] = "PENDING"
  BY <1>0, AdoptEffect DEF EngineSame, Adopted, With
<1>2. Recorded' /\ Completed' /\ Made'
  BY <1>1 DEF RowsInv, Recorded, Completed, Made, Past
<1>3. Truthful'
  BY <1>0, <1>1, Owned DEF RowsInv, Truthful, Has, Dec
<1>4. BatchOK'
  <2>1. Batch = {} /\ Batch' = Batch
    BY <1>1, BatchEmpty DEF RowsInv, Batch, Elements, Pushing
  <2> QED
    BY <2>1 DEF BatchOK
<1> QED
  BY <1>2, <1>3, <1>4 DEF RowsInv

(* The decisions that are drawn for pending items.                         *)
LEMMA RowsDrawn ==
  ASSUME TypeOK, RowsInv, NEW S, Drawn(S), aired' = aired, job' = job,
         \A p \in Item : item'[p] = item[p] \/ (p \notin S /\ item[p] = "PENDING" /\ item'[p] = "FAILED")
  PROVE  Recorded' /\ Truthful' /\ Made'
<1>0. RowType
  BY TypeParts
<1>1. /\ \A p \in Item : /\ Fresh(p) \in Decision /\ Fresh(p).item = p
                         /\ Has(p) => Fresh(p) = Dec(p)
                         /\ Fresh(p).try >= try[p] /\ (Has(p) => Fresh(p).try = try[p])
                         /\ (~Has(p) => Fresh(p).try > try[p])
      /\ \A p \in Item : /\ p \in S => item[p] = "PENDING" /\ try'[p] = Fresh(p).try
                         /\ p \notin S => try'[p] = try[p]
      /\ \A d \in Decision : \/ d.item \in S /\ d = Fresh(d.item) /\ status'[d] = "submitting"
                             \/ ~(d.item \in S /\ d = Fresh(d.item)) /\ status'[d] = status[d]
  BY <1>0, FreshOf, DrawnType
<1>2. Recorded'
  BY <1>1 DEF RowsInv, Recorded, Past
<1>3. Truthful'
  <2> SUFFICES ASSUME NEW p \in Item
               PROVE  /\ item'[p] \in {"STARTED", "COMPLETED"} => Has(p)' /\ status'[Dec(p)'] = "started"
                      /\ item'[p] \in {"PENDING", "QUEUED"} /\ Has(p)' => status'[Dec(p)'] # "started"
    BY DEF Truthful
  <2>1. CASE p \in S
    <3>1. Fresh(p) = [item |-> p, try |-> Fresh(p).try]
      BY <1>1 DEF Fresh
    <3>2. Dec(p)' = Fresh(p)
      BY <1>1, <2>1, <3>1 DEF Dec
    <3>3. status'[Fresh(p)] = "submitting" /\ item'[p] = "PENDING"
      BY <1>1, <2>1
    <3> QED
      BY <3>2, <3>3
  <2>2. CASE p \notin S
    <3>1. Has(p)' = Has(p) /\ Dec(p)' = Dec(p)
      BY <1>1, <2>2 DEF Has, Dec
    <3>2. Has(p) => Dec(p) \in Decision /\ Dec(p).item = p
      BY <1>0, Owned
    <3>3. Has(p) => status'[Dec(p)] = status[Dec(p)]
      BY <1>1, <2>2, <3>2
    <3>4. item'[p] = item[p] \/ (item[p] = "PENDING" /\ item'[p] = "FAILED")
      OBVIOUS
    <3>5. /\ item[p] \in {"STARTED", "COMPLETED"} => Has(p) /\ status[Dec(p)] = "started"
          /\ item[p] \in {"PENDING", "QUEUED"} /\ Has(p) => status[Dec(p)] # "started"
      BY DEF RowsInv, Truthful
    <3> QED
      BY <3>1, <3>3, <3>4, <3>5
  <2> QED
    BY <2>1, <2>2
<1>4. Made'
  <2> SUFFICES ASSUME NEW d \in Decision, d.try > try'[d.item]
               PROVE  status'[d] = "none" /\ job'[d] = "none"
    BY DEF Made
  <2>1. d.item \in Item /\ d.try \in 1..MaxTry /\ try[d.item] \in 0..MaxTry
    BY <1>0, Owned
  <2>2. MaxTry \in Nat /\ Fresh(d.item).try \in 1..MaxTry
    BY <1>1, <2>1, SequenceAssumption DEF Decision
  <2>3. d.item \in S => d # Fresh(d.item)
    BY <1>1, <2>1, <2>2
  <2>4. d.try > try[d.item]
    <3>1. CASE d.item \in S
      BY <1>1, <2>1, <2>2, <3>1
    <3>2. CASE d.item \notin S
      BY <1>1, <2>1, <3>2
    <3> QED
      BY <3>1, <3>2
  <2> QED
    BY <1>1, <2>3, <2>4 DEF RowsInv, Made
<1> QED
  BY <1>2, <1>3, <1>4

LEMMA RowsStage ==
  ASSUME TypeOK, RowsInv, NEW bad, Stage(bad)
  PROVE  RowsInv'
<1>0. RowType
  BY TypeParts
<1> DEFINE S == With("PENDING") \ bad
<1>1. /\ pc' = "push" /\ Drawn(S)
      /\ Elements(batch') = {Fresh(p) : p \in S}
      /\ \A p \in Item : item'[p] = IF p \in bad THEN "FAILED" ELSE item[p]
      /\ \A p \in bad : item[p] = "PENDING"
      /\ UNCHANGED <<exec, job, aired>>
  BY <1>0, StageEffect DEF EngineSame
<1>2. /\ \A p \in S : p \notin bad /\ p \in Item /\ item[p] = "PENDING"
  BY DEF With
<1> HIDE DEF S
<1>3. Recorded' /\ Truthful' /\ Made'
  <2>1. \A p \in Item : item'[p] = item[p] \/ (p \notin S /\ item[p] = "PENDING" /\ item'[p] = "FAILED")
    BY <1>1, <1>2
  <2> QED
    BY <1>1, <2>1, RowsDrawn
<1>4. Completed'
  BY <1>1 DEF RowsInv, Completed
<1>5. BatchOK'
  <2>1. \A p \in S : /\ Fresh(p) \in Decision /\ Fresh(p).item = p /\ try'[p] = Fresh(p).try
                     /\ item'[p] = "PENDING" /\ status'[Fresh(p)] = "submitting"
    <3>1. \A p \in S : Fresh(p) \in Decision /\ Fresh(p).item = p
      BY <1>0, <1>2, FreshOf
    <3> QED
      BY <1>0, <1>1, <1>2, <3>1, DrawnType
  <2>2. Batch' = {Fresh(p) : p \in S}
    BY <1>1 DEF Batch, Elements
  <2> QED
    BY <1>1, <2>1, <2>2 DEF BatchOK, Owns, Pending, Pushing
<1> QED
  BY <1>3, <1>4, <1>5 DEF RowsInv

LEMMA RowsStageFails ==
  ASSUME TypeOK, RowsInv, NEW bad, StageFails(bad)
  PROVE  RowsInv'
<1>0. RowType
  BY TypeParts
<1>1. /\ pc = "act" /\ exec' = "FAILED" /\ UNCHANGED <<job, batch, aired>>
      /\ \A p \in Item : item'[p] = IF p \in bad THEN "FAILED" ELSE item[p]
      /\ \A p \in bad : item[p] = "PENDING"
  BY <1>0, StageFailsEffect DEF EngineSame
<1>2. PICK S : Drawn(S) /\ S \cap bad = {}
  BY <1>0, StageFailsEffect
<1>3. Recorded' /\ Truthful' /\ Made'
  <2>1. \A p \in Item : item'[p] = item[p] \/ (p \notin S /\ item[p] = "PENDING" /\ item'[p] = "FAILED")
    BY <1>1, <1>2
  <2> QED
    BY <1>1, <1>2, <2>1, RowsDrawn
<1>4. Completed'
  BY <1>1 DEF Completed
<1>5. BatchOK'
  <2>1. Batch = {} /\ Batch' = Batch
    BY <1>1, BatchEmpty DEF RowsInv, Batch, Elements, Pushing
  <2> QED
    BY <2>1 DEF BatchOK
<1> QED
  BY <1>3, <1>4, <1>5 DEF RowsInv

LEMMA RowsPrepare ==
  ASSUME TypeOK, RowsInv, PrepareNext
  PROVE  RowsInv'
<1>0. RowType
  BY TypeParts
<1>1. /\ pc' = "push one" /\ UNCHANGED <<exec, job, aired>>
      /\ \A p \in Item : item'[p] = IF p \in LostItems THEN "FAILED" ELSE item[p]
      /\ \A p \in LostItems : item[p] = "QUEUED"
  BY <1>0, PrepareEffect DEF EngineSame, LostItems, With
<1>2. PICK d \in Decision :
              /\ item[d.item] = "PENDING" /\ batch' = <<d>> /\ status' = [status EXCEPT ![d] = "submitting"]
              /\ d.try > try[d.item] /\ try' = [try EXCEPT ![d.item] = d.try]
  BY <1>0, PrepareEffect
<1>3. d.item \in Item /\ d.try \in 1..MaxTry /\ d = [item |-> d.item, try |-> d.try]
  BY <1>0, Owned DEF Decision
<1>4. /\ status'[d] = "submitting" /\ \A e \in Decision : e # d => status'[e] = status[e]
      /\ try'[d.item] = d.try /\ \A p \in Item : p # d.item => try'[p] = try[p]
  BY <1>0, <1>2, <1>3 DEF RowType
<1>5. Recorded'
  BY <1>1, <1>4 DEF RowsInv, Recorded, Past
<1>6. Truthful'
  <2> SUFFICES ASSUME NEW p \in Item
               PROVE  /\ item'[p] \in {"STARTED", "COMPLETED"} => Has(p)' /\ status'[Dec(p)'] = "started"
                      /\ item'[p] \in {"PENDING", "QUEUED"} /\ Has(p)' => status'[Dec(p)'] # "started"
    BY DEF Truthful
  <2>1. CASE p = d.item
    <3>1. Dec(p)' = d
      BY <1>3, <1>4, <2>1 DEF Dec
    <3> QED
      BY <1>1, <1>2, <1>4, <2>1, <3>1
  <2>2. CASE p # d.item
    <3>1. Has(p)' = Has(p) /\ Dec(p)' = Dec(p)
      BY <1>4, <2>2 DEF Has, Dec
    <3>2. Has(p) => Dec(p) \in Decision /\ Dec(p).item = p
      BY <1>0, Owned
    <3>3. Has(p) => status'[Dec(p)] = status[Dec(p)]
      BY <1>4, <2>2, <3>2
    <3> QED
      BY <1>1, <3>1, <3>3 DEF RowsInv, Truthful
  <2> QED
    BY <2>1, <2>2
<1>7. Completed'
  BY <1>1 DEF RowsInv, Completed
<1>8. Made'
  <2> SUFFICES ASSUME NEW e \in Decision, e.try > try'[e.item]
               PROVE  status'[e] = "none" /\ job'[e] = "none"
    BY DEF Made
  <2>1. e.item \in Item /\ e.try \in 1..MaxTry /\ try[e.item] \in 0..MaxTry /\ MaxTry \in Nat
    BY <1>0, Owned, SequenceAssumption
  <2>2. e # d /\ e.try > try[e.item]
    BY <1>2, <1>3, <1>4, <2>1
  <2> QED
    BY <1>1, <1>4, <2>2 DEF RowsInv, Made
<1>9. BatchOK'
  <2>1. Batch' = {d}
    <3>1. Elements(<<d>>) = {d}
      BY Alone
    <3> QED
      BY <1>2, <3>1 DEF Batch, Elements
  <2>2. item'[d.item] = "PENDING"
    BY <1>1, <1>2, <1>3
  <2> QED
    BY <1>1, <1>4, <2>1, <2>2 DEF BatchOK, Owns, Pending, Pushing
<1> QED
  BY <1>5, <1>6, <1>7, <1>8, <1>9 DEF RowsInv

(* The answer to a command.                                                *)
LEMMA RowsAnswered ==
  ASSUME TypeOK, RowsInv, NotPushed \/ Acknowledged
  PROVE  RowsInv'
<1>0. RowType
  BY TypeParts
<1>1. /\ batch' = <<>> /\ UNCHANGED <<try, aired>> /\ (exec' = "COMPLETED" => exec = "COMPLETED")
      /\ \A d \in Decision : /\ \/ d \in Batch /\ status'[d] \in {"failed", "queued"}
                                \/ status'[d] = status[d]
                                \/ status[d] = "selected" /\ status'[d] = "failed"
                             /\ job'[d] = job[d] \/ (job[d] = "none" /\ Owns(d))
      /\ \A p \in Item : \/ p \in BatchItems /\ item'[p] \in {"FAILED", "QUEUED"}
                         \/ p \notin BatchItems /\ item'[p] = item[p]
                         \/ item[p] \in {"PENDING", "QUEUED"} /\ item'[p] = "SKIPPED"
  <2>1. CASE NotPushed
    BY <2>1 DEF NotPushed, Batch
  <2>2. CASE Acknowledged
    BY <2>2 DEF Acknowledged, EngineSame, Batch
  <2> QED
    BY <2>1, <2>2
<1>2. /\ Batch \subseteq Decision /\ BatchItems = {d.item : d \in Batch}
      /\ \A d \in Batch : Owns(d) /\ item[d.item] = "PENDING" /\ status[d] = "submitting"
  BY TypeParts, ElementsIn DEF WorkerType, Batch, BatchItems, RowsInv, BatchOK, Pending
<1>3. Recorded'
  BY <1>1 DEF RowsInv, Recorded, Past
<1>4. Truthful'
  <2> SUFFICES ASSUME NEW p \in Item
               PROVE  /\ item'[p] \in {"STARTED", "COMPLETED"} => Has(p) /\ status'[Dec(p)] = "started"
                      /\ item'[p] \in {"PENDING", "QUEUED"} /\ Has(p) => status'[Dec(p)] # "started"
    BY <1>1 DEF Truthful, Has, Dec
  <2>1. Has(p) => Dec(p) \in Decision /\ Dec(p).item = p /\ Owns(Dec(p))
    BY <1>0, Owned
  <2>2. Has(p) /\ Dec(p) \notin Batch => p \notin BatchItems
    <3> SUFFICES ASSUME NEW d \in Batch, p = d.item PROVE Has(p) => Dec(p) = d
      BY <1>2
    <3> QED
      BY <1>0, <1>2, Owned
  <2>3. /\ item[p] \in {"STARTED", "COMPLETED"} => Has(p) /\ status[Dec(p)] = "started"
        /\ item[p] \in {"PENDING", "QUEUED"} /\ Has(p) => status[Dec(p)] # "started"
    BY DEF RowsInv, Truthful
  <2>4. p \in BatchItems => item[p] = "PENDING"
    BY <1>2
  <2>5. Has(p) /\ Dec(p) \in Batch => p \in BatchItems
    BY <1>2, <2>1
  <2> QED
    BY <1>1, <2>1, <2>2, <2>3, <2>4, <2>5
<1>5. Completed'
  BY <1>1, <1>2 DEF RowsInv, Completed
<1>6. Made'
  <2> SUFFICES ASSUME NEW d \in Decision, d.try > try[d.item]
               PROVE  status'[d] = "none" /\ job'[d] = "none"
    BY <1>1 DEF Made
  <2>1. ~Owns(d)
    <3>1. d.try \in 1..MaxTry /\ try[d.item] \in 0..MaxTry /\ MaxTry \in Nat
      BY <1>0, Owned, SequenceAssumption
    <3> QED
      BY <3>1 DEF Owns
  <2> QED
    BY <1>1, <1>2, <2>1 DEF RowsInv, Made
<1>7. BatchOK'
  BY <1>1, NoBatch
<1> QED
  BY <1>3, <1>4, <1>5, <1>6, <1>7 DEF RowsInv

(* What has been on air only grows.                                        *)
LEMMA AiredSame ==
  ASSUME aired' = aired
  PROVE  Past' = Past /\ (epoch' = epoch => Heard' = Heard)
BY DEF Past, Heard

LEMMA AiredGrows ==
  ASSUME TypeOK, Starts
  PROVE  /\ Past' = Past \cup {Head(queue).item} /\ Heard' = Heard \cup {Head(queue).item}
         /\ \A i \in DOMAIN aired' : aired'[i].epoch = epoch \/ (i \in DOMAIN aired /\ aired'[i] = aired[i])
<1> DEFINE n == Len(aired)
           h == Head(queue)
<1>1. /\ n \in Nat /\ DOMAIN aired = 1..n
  <2>1. \A S : \A s \in Seq(S) : Len(s) \in Nat /\ DOMAIN s = 1..Len(s)
    OBVIOUS
  <2>2. aired \in Seq([item: Item, epoch: Nat])
    BY DEF TypeOK
  <2> QED
    BY <2>1, <2>2
<1>2. /\ Len(aired') = n + 1 /\ aired'[n + 1] = [item |-> h.item, epoch |-> epoch]
      /\ \A i \in 1..n : aired'[i] = aired[i]
      /\ epoch' = epoch
  BY StartsEffect
<1>3. aired' \in Seq([item: Item, epoch: Nat])
  BY StartsEffect DEF EngineType
<1>4. DOMAIN aired' = 1..(n + 1)
  BY <1>2, <1>3
<1> HIDE DEF n, h
<1>5. 1..(n + 1) = (1..n) \cup {n + 1} /\ n + 1 \notin 1..n
  BY <1>1
<1>6. aired'[n + 1].item = h.item /\ aired'[n + 1].epoch = epoch
  BY <1>2
<1>7. Past' = Past \cup {h.item}
  BY <1>1, <1>2, <1>4, <1>5, <1>6 DEF Past
<1>8. Heard' = Heard \cup {h.item}
  <2>1. {j \in DOMAIN aired' : aired'[j].epoch = epoch'} = {j \in DOMAIN aired : aired[j].epoch = epoch} \cup {n + 1}
    BY <1>1, <1>2, <1>4, <1>5, <1>6
  <2> QED
    BY <1>1, <1>2, <1>6, <2>1 DEF Heard
<1> QED
  BY <1>1, <1>2, <1>4, <1>5, <1>6, <1>7, <1>8 DEF h

LEMMA BegunStays ==
  ASSUME UNCHANGED <<aired, epoch>>, \A d : Line("START", d) \in Elements(log') => Line("START", d) \in Elements(log),
         LogNow, Epochs
  PROVE  LogNow' /\ Epochs'
<1>1. Begun' \subseteq Begun
  BY DEF Begun, Elements
<1>2. Heard' = Heard
  BY AiredSame
<1> QED
  BY <1>1, <1>2 DEF LogNow, Epochs

LEMMA StoryStarts ==
  ASSUME StoryInv, Starts
  PROVE  LogNow' /\ Epochs' /\ RowsInv'
<1>0. TypeOK
  BY DEF StoryInv
<1> DEFINE h == Head(queue)
<1>1. /\ Elements(log') = Elements(log) \cup {Line("START", h)} /\ epoch' = epoch
      /\ UNCHANGED <<rowVars, decVars, epoch, memVars, faults>>
  BY <1>0, StartsEffect
<1>2. /\ Past' = Past \cup {h.item} /\ Heard' = Heard \cup {h.item}
      /\ \A i \in DOMAIN aired' : aired'[i].epoch = epoch \/ (i \in DOMAIN aired /\ aired'[i] = aired[i])
  BY <1>0, AiredGrows
<1> HIDE DEF h
<1>3. LogNow'
  <2>1. \A d : Line("START", d) = Line("START", h) => d = h
    BY DEF Line
  <2>2. \A d \in Begun' : d \in Begun \/ d = h
    BY <1>1, <2>1 DEF Begun, Elements
  <2> QED
    BY <1>2, <2>2 DEF StoryInv, LogNow
<1>4. Epochs'
  <2>1. epoch \in Nat
    BY <1>0 DEF TypeOK
  <2> QED
    BY <1>1, <1>2, <2>1 DEF StoryInv, Epochs
<1>5. RowsInv'
  BY <1>1, <1>2, RowsStay DEF StoryInv, rowVars, decVars, memVars
<1> QED
  BY <1>3, <1>4, <1>5

LEMMA StoryRestart ==
  ASSUME StoryInv, EngineRestart
  PROVE  LogNow' /\ Epochs' /\ RowsInv'
<1>0. TypeOK
  BY DEF StoryInv
<1>1. /\ epoch' = epoch + 1 /\ log' = <<>> /\ aired' = aired /\ UNCHANGED <<rowVars, decVars, memVars>>
  BY <1>0, RestartEffect
<1>2. LogNow'
  <2>1. Begun' = {}
    BY <1>1, EmptyHasNone DEF Begun, Elements
  <2> QED
    BY <2>1 DEF LogNow
<1>3. Epochs'
  <2>1. epoch \in Nat /\ aired \in Seq([item: Item, epoch: Nat])
    BY <1>0 DEF TypeOK
  <2>2. \A i \in DOMAIN aired : aired[i].epoch \in Nat
    <3>1. \A S : \A s \in Seq(S) : \A i \in DOMAIN s : s[i] \in S
      OBVIOUS
    <3>2. \A a \in [item: Item, epoch: Nat] : a.epoch \in Nat
      OBVIOUS
    <3> QED
      BY <2>1, <3>1, <3>2
  <2> QED
    BY <1>1, <2>1, <2>2 DEF StoryInv, Epochs
<1>4. RowsInv'
  BY <1>1, AiredSame, RowsStay DEF StoryInv, rowVars, decVars, memVars
<1> QED
  BY <1>2, <1>3, <1>4

LEMMA StoryBegins == Init => StoryInv
<1> SUFFICES ASSUME Init PROVE StoryInv
  OBVIOUS
<1>1. TypeOK
  BY TypeBegins
<1>2. log = <<>> /\ aired = <<>> /\ batch = <<>> /\ exec = "PENDING"
      /\ item = [p \in Item |-> "PENDING"] /\ try = [p \in Item |-> 0]
      /\ status = [d \in Decision |-> "none"] /\ job = [d \in Decision |-> "none"]
  BY DEF Init
<1>3. LogNow /\ Epochs /\ BatchOK
  BY <1>2, EmptyHasNone DEF LogNow, Epochs, BatchOK, Begun, Batch
<1>4. Recorded /\ Truthful /\ Completed /\ Made
  BY <1>2 DEF Recorded, Truthful, Completed, Made, Has
<1> QED
  BY <1>1, <1>3, <1>4 DEF StoryInv, RowsInv

LEMMA StoryStep == StoryInv /\ [Next]_vars => StoryInv'
<1> SUFFICES ASSUME StoryInv, [Next]_vars PROVE StoryInv'
  OBVIOUS
<1>0. TypeOK /\ LogNow /\ Epochs /\ RowsInv
  BY DEF StoryInv
<1>t. RowType /\ EngineType /\ WorkerType
  BY <1>0, TypeParts
<1>a. TypeOK'
  BY <1>0, TypeStep DEF RowsInv
<1> SUFFICES LogNow' /\ Epochs' /\ RowsInv'
  BY <1>a DEF StoryInv
<1> DEFINE Quiet == UNCHANGED <<aired, epoch, log>>
<1>q. Quiet => LogNow' /\ Epochs'
  BY <1>0, BegunStays DEF Elements
<1>1. CASE UNCHANGED vars
  BY <1>0, <1>1, <1>q, AiredSame, RowsStay DEF vars, rowVars, decVars, engineVars, memVars
<1>2. CASE RequestAbort
  BY <1>0, <1>2, <1>q, AiredSame, RowsStay DEF RequestAbort, decVars, engineVars, memVars
<1>3. CASE CancelOccurrence
  BY <1>0, <1>t, <1>3, <1>q, CancelEffect, RowsCancel DEF EngineSame
<1>4. CASE Starts
  BY <1>4, StoryStarts
<1>5. ASSUME NEW written \in BOOLEAN, Ends(written) PROVE LogNow' /\ Epochs' /\ RowsInv'
  <2>1. /\ \A d : Line("START", d) \in Elements(log') <=> Line("START", d) \in Elements(log)
        /\ UNCHANGED <<rowVars, decVars, epoch, aired, memVars>>
    BY <1>0, <1>5, EndsEffect
  <2>2. LogNow' /\ Epochs'
    BY <1>0, <2>1, BegunStays
  <2>3. RowsInv'
    BY <1>0, <2>1, AiredSame, RowsStay DEF rowVars, decVars, memVars
  <2> QED
    BY <2>2, <2>3
<1>6. CASE EngineRestart
  BY <1>6, StoryRestart
<1>7. ASSUME NEW d \in Decision, WindowCloses(d) \/ LengthPasses(d) PROVE LogNow' /\ Epochs' /\ RowsInv'
  BY <1>0, <1>7, <1>q, AiredSame, RowsStay DEF WindowCloses, LengthPasses, rowVars, decVars, engineVars
<1>8. CASE Collect
  <2>1. UNCHANGED <<aired, epoch>> /\ log' = <<>>
    BY <1>0, <1>8, CollectEffect DEF RowsInv
  <2>2. LogNow' /\ Epochs'
    BY <1>0, <2>1, EmptyHasNone, BegunStays
  <2> QED
    BY <1>0, <1>8, <2>2, RowsCollect
<1>9. CASE Inventory
  <2>1. pc \notin Pushing /\ pc' \notin Pushing /\ batch' = batch /\ UNCHANGED <<rowVars, decVars, engineVars>>
    BY <1>9 DEF Inventory, Pushing
  <2> QED
    BY <1>0, <1>q, <2>1, AiredSame, RowsStay DEF rowVars, decVars, engineVars
<1>10. CASE Reconcile \/ Resolve \/ Sweep
  <2>1. Quiet
    BY <1>0, <1>10, ReconcileEffect, ResolveEffect, SweepEffect DEF EngineSame
  <2> QED
    BY <1>0, <1>10, <1>q, <2>1, RowsRequests
<1>11. CASE Settles6
  BY <1>0, <1>t, <1>11, <1>q, SettledEffect, RowsSettled DEF Settled, EngineSame
<1>12. CASE Adopt
  BY <1>0, <1>t, <1>12, <1>q, AdoptEffect, RowsAdopt DEF EngineSame
<1>13. ASSUME NEW bad \in SUBSET Item, Stage(bad) PROVE LogNow' /\ Epochs' /\ RowsInv'
  BY <1>0, <1>t, <1>13, <1>q, StageEffect, RowsStage DEF EngineSame
<1>14. ASSUME NEW bad \in SUBSET Item, StageFails(bad) PROVE LogNow' /\ Epochs' /\ RowsInv'
  BY <1>0, <1>t, <1>14, <1>q, StageFailsEffect, RowsStageFails DEF EngineSame
<1>15. CASE Push \/ PushOne
  <2>1. /\ pc \in {"push", "push one"} /\ pc' = (IF pc = "push" THEN "ack" ELSE "ack one") /\ batch' = batch
        /\ UNCHANGED <<rowVars, decVars, epoch, log, aired>>
    BY <1>0, <1>15, SubmitsEffect
  <2>2. pc \in Pushing /\ pc' \in Pushing
    BY <2>1 DEF Pushing
  <2> QED
    BY <1>0, <1>q, <2>1, <2>2, AiredSame, RowsStay DEF rowVars, decVars
<1>16. CASE PushFails \/ PushOneFails
  BY <1>0, <1>t, <1>16, <1>q, PushFailsEffect, PushOneFailsEffect, RowsAnswered DEF NotPushed
<1>17. CASE Ack \/ AckOne
  BY <1>0, <1>t, <1>17, <1>q, AckEffect, RowsAnswered DEF Acknowledged, EngineSame, EngineType
<1>18. CASE PrepareNext
  BY <1>0, <1>t, <1>18, <1>q, PrepareEffect, RowsPrepare DEF EngineSame
<1>19. CASE WorkerCrash
  BY <1>0, <1>19, <1>q, AiredSame, RowsStay DEF WorkerCrash, rowVars, decVars, engineVars
<1> QED
  BY <1>1, <1>2, <1>3, <1>4, <1>5, <1>6, <1>7, <1>8, <1>9, <1>10, <1>11, <1>12, <1>13, <1>14, <1>15, <1>16, <1>17,
     <1>18, <1>19 DEF Next, Web, Engine, Passes, Worker, Settles6

(* Rows, engine, files and worker only ever hold what their types say, and *)
(* an execution is called COMPLETED only when one of its items was heard   *)
(* (FinishExecution, Confirm, Finish), whatever fails, is lost or restarts. *)
THEOREM TypeCorrect == Spec => []TypeOK
<1>1. Init => StoryInv
  BY StoryBegins
<1>2. StoryInv /\ [Next]_vars => StoryInv'
  BY StoryStep
<1>3. StoryInv => TypeOK
  BY DEF StoryInv
<1> QED
  BY <1>1, <1>2, <1>3, PTL DEF Spec

LEMMA CompletedIsPast == StoryInv => CompletedWasAired
<1> SUFFICES ASSUME StoryInv, exec = "COMPLETED"
             PROVE  \E p \in Item : item[p] = "COMPLETED" /\ \E a \in Elements(aired) : a.item = p
  BY DEF CompletedWasAired
<1>1. TypeOK /\ RowsInv
  BY DEF StoryInv
<1>2. RowType
  BY <1>1, TypeParts
<1>3. PICK p \in Item : item[p] = "COMPLETED"
  BY <1>1 DEF RowsInv, Completed
<1>4. status[Dec(p)] = "started" /\ Has(p)
  BY <1>1, <1>3 DEF RowsInv, Truthful
<1>5. p \in Past
  BY <1>1, <1>2, <1>4, Owned DEF RowsInv, Recorded
<1>6. \E a \in Elements(aired) : a.item = p
  BY <1>5 DEF Past, Elements
<1> QED
  BY <1>3, <1>6

(* finish_execution never calls an entirely failed run a success: what is  *)
(* called COMPLETED has been heard, whatever fails, is lost or restarts.   *)
THEOREM CompletedIsHeard == Spec => []CompletedWasAired
<1>1. Init => StoryInv
  BY StoryBegins
<1>2. StoryInv /\ [Next]_vars => StoryInv'
  BY StoryStep
<1>3. StoryInv => CompletedWasAired
  BY CompletedIsPast
<1> QED
  BY <1>1, <1>2, <1>3, PTL DEF Spec
----------------------------------------------------------------------------
(* THE ORDER *)

Ahead == Heard \cup {d.item : d \in Queued}          \* what has been handed over

InTurn  == \A p \in Heard, d \in Queued : p < d.item
Lined   == Sorted(queue, Before) /\ InTurn
(* What is about to be pushed comes after all that was handed over.        *)
AtPush  == pc \in {"push", "push one"} =>
  /\ Batch # {} /\ Sorted(batch, Before) /\ \A p \in Ahead, d \in Batch : p < d.item
  /\ pc = "push" \/ linked => queue = <<>>
BatchFirst == pc \in Pushing =>
  \A p \in Item : Pending(p) => p \in BatchItems \/ \A d \in Batch : d.item < p
(* A pending item that was handed over is one whose answer was lost; what  *)
(* is still to be handed over comes after all the others.                  *)
Onward  == \A p, q \in Item : Pending(p) /\ q \in Ahead /\ (~Pending(q) \/ p \notin Ahead) => q < p
Own     ==
  /\ \A d \in Queued : Pending(d.item) => Owns(d) /\ status[d] \in {"submitting", "queued"}
  /\ \A p \in Heard : Pending(p) => Has(p) /\ Dec(p) \in Begun /\ status[Dec(p)] # "none"
Bounded == \A d \in Queued \cup Begun : status[d] = "queued" => bound[d] = epoch
(* By the time process_block decides, what is in the engine is known to be. *)
Judged   == pc \in {"sweep", "act"} \/ (block /\ pc \in {"collect", "inventory", "reconcile"})
Adopting == pc = "act" \/ (block /\ pc \in {"inventory", "reconcile"})
Phase   == /\ Judged => \A d \in Queued : Pending(d.item) => status[d] = "queued"
           /\ Adopting => \A p \in Heard : Pending(p) => status[Dec(p)] = "queued"
Miss    == \A d \in Decision : missing[d] # "no" =>
  /\ d \notin Live
  /\ pc \in {"inventory", "reconcile"} => d \notin Begun
  /\ pc \in {"act"} \cup Pushing => status[d] = "queued"
Seen    == pc \in {"reconcile", "resolve"} => Live \subseteq seen
(* A command is withdrawn as a whole.                                      *)
Uniform == \A d, e \in Queued \cup Batch :
  Pending(d.item) /\ Pending(e.item) => job[d] = job[e] /\ job[d] # "done"
(* Of a timed execution. *)
Certain == linked => "answer" \notin Faulty
NoJob   == linked => \A p \in Item : Pending(p) /\ Has(p) => job[Dec(p)] = "none"
Unbegun == linked /\ exec = "PENDING" =>
  /\ pc \notin {"push one", "ack one"}
  /\ \A p \in Item : item[p] \in {"PENDING", "FAILED"} /\ (p \in Ahead => Pending(p))
Clean   == pc \in Pushing \cup {"act"} \/ (block /\ pc \in {"collect", "inventory", "reconcile"})
Waits(d) == /\ item[d.item] \in {"PENDING", "QUEUED"} /\ job[d] = "none"
            /\ item[d.item] = "QUEUED" => status[d] = "queued"
Condemned(d) == item[d.item] = "SKIPPED" /\ job[d] = "pending" /\ bound[d] = epoch /\ ~Clean
Accounted == linked => \A d \in Queued : Owns(d) /\ (Waits(d) \/ Condemned(d))
Aborted == exec = "ABORTED" => abort /\ pc \notin Pushing /\ \A p \in Item : item[p] \notin {"PENDING", "QUEUED"}

QueueInv  == InOrder /\ Lined /\ AtPush /\ BatchFirst /\ Onward
StateInv  == Own /\ Bounded /\ Phase /\ Miss /\ Seen /\ Uniform
LinkInv   == Certain /\ NoJob /\ Unbegun /\ Accounted /\ Aborted
OrderInv  == QueueInv /\ StateInv /\ LinkInv

LEMMA InSets ==
  ASSUME TypeOK
  PROVE  /\ Queued \subseteq Decision /\ Batch \subseteq Decision /\ Begun \subseteq Decision
         /\ Heard \subseteq Item /\ Ahead \subseteq Item /\ Live \subseteq Decision
         /\ \A d \in Decision : d.item \in Item /\ d.item \in Nat
         /\ Item \subseteq Nat /\ BatchItems = {d.item : d \in Batch}
<1>1. RowType /\ EngineType /\ WorkerType
  BY TypeParts
<1>2. Queued \subseteq Decision /\ Batch \subseteq Decision /\ Live \subseteq Decision
  BY <1>1, ElementsIn, LiveIn DEF EngineType, WorkerType, Queued, Batch
<1>3. Item \subseteq Nat
  BY SequenceAssumption DEF Item
<1>4. Heard \subseteq Item
  <2>1. aired \in Seq([item: Item, epoch: Nat])
    BY <1>1 DEF EngineType
  <2>2. \A i \in DOMAIN aired : aired[i] \in [item: Item, epoch: Nat]
    <3>1. \A S : \A s \in Seq(S) : \A i \in DOMAIN s : s[i] \in S
      OBVIOUS
    <3> QED
      BY <2>1, <3>1
  <2> QED
    BY <2>2 DEF Heard
<1>5. \A d \in Decision : d.item \in Item
  BY DEF Decision
<1> QED
  BY <1>2, <1>3, <1>4, <1>5 DEF Ahead, Begun, BatchItems, Batch

(* A waiting request has not begun.                                        *)
LEMMA QueuedNotBegun ==
  ASSUME StoryInv, OrderInv
  PROVE  \A d \in Queued : d \notin Begun
<1> SUFFICES ASSUME NEW d \in Queued, d \in Begun PROVE FALSE
  OBVIOUS
<1>1. d.item \in Heard /\ d.item \in Nat
  BY InSets DEF StoryInv, LogNow
<1>2. d.item < d.item
  BY <1>1 DEF OrderInv, QueueInv, Lined, InTurn
<1> QED
  BY <1>1, <1>2

(* When process_block acts and has nothing to adopt, nothing pending has   *)
(* been handed over.                                                       *)
LEMMA NothingAhead ==
  ASSUME StoryInv, OrderInv, pc = "act", Adopted = {}
  PROVE  \A p \in Ahead : ~Pending(p)
<1>0. RowType
  BY TypeParts DEF StoryInv
<1> SUFFICES ASSUME NEW p \in Item, Pending(p), Has(p), status[Dec(p)] = "queued" PROVE FALSE
  <2>1. \A d \in Queued : Pending(d.item) => Has(d.item) /\ status[Dec(d.item)] = "queued"
    <3>1. \A d \in Queued : Pending(d.item) => Owns(d) /\ status[d] = "queued" /\ d \in Decision
      BY InSets DEF OrderInv, StateInv, Own, Phase, Judged, StoryInv
    <3> QED
      BY <1>0, <3>1, Owned
  <2>2. \A p \in Heard : Pending(p) => Has(p) /\ status[Dec(p)] = "queued"
    BY DEF OrderInv, StateInv, Own, Phase, Adopting
  <2>3. Ahead \subseteq Item
    BY InSets DEF StoryInv
  <2> QED
    BY <2>1, <2>2, <2>3 DEF Ahead
<1>1. p \in Adopted
  BY DEF Adopted, With, StatusOf, Pending
<1> QED
  BY <1>1

(* After a step that leaves nothing pending that was handed over, nothing  *)
(* is known of such items.                                                 *)
LEMMA NothingLeft ==
  ASSUME \A p \in Ahead' : item'[p] # "PENDING", Batch' = {}
  PROVE  Own' /\ Phase' /\ Uniform'
BY DEF Own, Phase, Uniform, Pending, Ahead

LEMMA NotAtPush ==
  ASSUME pc' \notin Pushing
  PROVE  AtPush' /\ BatchFirst'
BY DEF AtPush, BatchFirst, Pushing

LEMMA EngineStays ==
  ASSUME EngineSame
  PROVE  /\ Queued' = Queued /\ Heard' = Heard /\ Begun' = Begun /\ Ahead' = Ahead /\ Live' = Live
         /\ (InOrder /\ Lined => InOrder' /\ Lined')
<1>1. Queued' = Queued /\ Heard' = Heard /\ Begun' = Begun /\ Live' = Live
  BY DEF EngineSame, Queued, Heard, Begun, Live, Elements
<1>2. Ahead' = Ahead
  BY <1>1 DEF Ahead
<1>3. InOrder => InOrder'
  BY DEF EngineSame, InOrder
<1>4. Lined => Lined'
  BY <1>1 DEF EngineSame, Lined, InTurn, Sorted
<1> QED
  BY <1>1, <1>2, <1>3, <1>4

LEMMA OrderBegins ==
  ASSUME Init, Staged \subseteq {FALSE} \/ "answer" \notin Faulty
  PROVE  OrderInv
<1>1. /\ queue = <<>> /\ onair = Silence /\ log = <<>> /\ aired = <<>> /\ batch = <<>> /\ exec = "PENDING" /\ pc = "collect"
      /\ item = [p \in Item |-> "PENDING"] /\ try = [p \in Item |-> 0] /\ block = FALSE
      /\ missing = [d \in Decision |-> "no"] /\ linked \in Staged
  BY DEF Init
<1>2. Queued = {} /\ Batch = {} /\ Begun = {}
  BY <1>1, EmptyHasNone DEF Queued, Batch, Begun
<1>3. Heard = {}
  BY <1>1 DEF Heard
<1>4. Ahead = {}
  BY <1>2, <1>3 DEF Ahead
<1>5. InOrder /\ Sorted(queue, Before)
  BY <1>1, EmptyHasNone DEF InOrder
<1>6. QueueInv
  BY <1>1, <1>2, <1>4, <1>5 DEF QueueInv, Lined, InTurn, AtPush, BatchFirst, Onward, Pushing
<1>7. StateInv
  BY <1>1, <1>2, <1>3 DEF StateInv, Own, Bounded, Phase, Miss, Seen, Uniform
<1>8. LinkInv
  BY <1>1, <1>2, <1>4 DEF LinkInv, Certain, NoJob, Unbegun, Accounted, Aborted, Has, Pending
<1> QED
  BY <1>6, <1>7, <1>8 DEF OrderInv

(* The steps that only move the worker, or take a request off the air.     *)
LEMMA OrderIdle ==
  ASSUME OrderInv, UNCHANGED <<exec, item, try, linked, status, bound, job, epoch, queue, aired>>,
         Begun' = Begun, Live' \subseteq Live, abort' = abort \/ abort',
         \A d \in Decision : missing'[d] # "no" => missing[d] # "no",
         \/ pc' = pc /\ block' = block /\ batch' = batch /\ seen' = seen
         \/ pc = "inventory" /\ pc' = "reconcile" /\ block' = block /\ batch' = batch /\ seen' = Live
         \/ pc' = "collect" /\ block' = FALSE /\ batch' = <<>>
  PROVE  OrderInv'
<1>1. /\ Queued' = Queued /\ Heard' = Heard /\ Batch' \subseteq Batch
      /\ BatchItems' \subseteq BatchItems /\ (batch' = batch => Batch' = Batch /\ BatchItems' = BatchItems)
  BY EmptyHasNone DEF Queued, Heard, Batch, BatchItems, Elements
<1>2. Ahead' = Ahead
  BY <1>1 DEF Ahead
<1>3. Live' = Live' /\ (pc' = pc => (pc' = "collect" \/ seen' = seen))
  OBVIOUS
<1>4. QueueInv'
  <2>1. InOrder' /\ Lined'
    BY <1>1 DEF OrderInv, QueueInv, InOrder, Lined, InTurn, Sorted
  <2>2. AtPush'
    BY <1>1, <1>2 DEF OrderInv, QueueInv, AtPush, Sorted
  <2>3. BatchFirst'
    BY <1>1 DEF OrderInv, QueueInv, BatchFirst, Pushing, Pending
  <2>4. Onward'
    BY <1>2 DEF OrderInv, QueueInv, Onward, Pending
  <2> QED
    BY <2>1, <2>2, <2>3, <2>4 DEF QueueInv
<1>5. StateInv'
  <2>1. Own' /\ Bounded'
    BY <1>1 DEF OrderInv, StateInv, Own, Bounded, Pending, Owns, Has, Dec
  <2>2. (Judged' => Judged) /\ (Adopting' => Adopting)
    BY DEF Judged, Adopting
  <2>3. Phase'
    BY <1>1, <2>2 DEF OrderInv, StateInv, Phase, Pending, Dec
  <2>4. Miss'
    BY DEF OrderInv, StateInv, Miss, Pushing
  <2>5. Seen'
    BY DEF OrderInv, StateInv, Seen
  <2>6. Uniform'
    BY <1>1 DEF OrderInv, StateInv, Uniform, Pending
  <2> QED
    BY <2>1, <2>3, <2>4, <2>5, <2>6 DEF StateInv
<1>6. LinkInv'
  <2>1. Certain' /\ NoJob'
    BY DEF OrderInv, LinkInv, Certain, NoJob, Pending, Has, Dec
  <2>2. Unbegun'
    BY <1>2 DEF OrderInv, LinkInv, Unbegun, Pending
  <2>3. Clean' => Clean
    BY DEF Clean, Pushing
  <2>4. Accounted'
    BY <1>1, <2>3 DEF OrderInv, LinkInv, Accounted, Waits, Condemned, Owns
  <2>5. Aborted'
    BY DEF OrderInv, LinkInv, Aborted, Pushing
  <2> QED
    BY <2>1, <2>2, <2>4, <2>5 DEF LinkInv
<1> QED
  BY <1>4, <1>5, <1>6 DEF OrderInv

LEMMA OrderStarts ==
  ASSUME StoryInv, OrderInv, Starts
  PROVE  OrderInv'
<1>0. TypeOK
  BY DEF StoryInv
<1> DEFINE h == Head(queue)
<1>1. /\ h \in Decision /\ onair' = h /\ onair = Silence /\ queue # <<>> /\ epoch' = epoch
      /\ Elements(queue) = {h} \cup Elements(queue')
      /\ \A R : Sorted(queue, R) => Sorted(queue', R) /\ \A e \in Elements(queue') : <<h, e>> \in R
      /\ Elements(log') = Elements(log) \cup {Line("START", h)}
      /\ UNCHANGED <<exec, abort, item, try, linked, status, bound, job, pc, block, seen, missing, batch>>
  BY <1>0, StartsEffect DEF Starts, rowVars, decVars, memVars
<1>2. /\ Heard' = Heard \cup {h.item}
      /\ \A i \in DOMAIN aired' : aired'[i].epoch = epoch \/ (i \in DOMAIN aired /\ aired'[i] = aired[i])
  BY <1>0, AiredGrows
<1>3. /\ Len(aired) \in Nat /\ DOMAIN aired = 1..Len(aired)
      /\ DOMAIN aired' = 1..(Len(aired) + 1) /\ aired'[Len(aired) + 1] = [item |-> h.item, epoch |-> epoch]
      /\ \A i \in 1..Len(aired) : aired'[i] = aired[i]
  <2>1. \A S : \A s \in Seq(S) : Len(s) \in Nat /\ DOMAIN s = 1..Len(s)
    OBVIOUS
  <2>2. aired \in Seq([item: Item, epoch: Nat]) /\ aired' \in Seq([item: Item, epoch: Nat])
    BY <1>0, TypeParts, StartsEffect DEF EngineType
  <2>3. /\ Len(aired') = Len(aired) + 1 /\ aired'[Len(aired) + 1] = [item |-> h.item, epoch |-> epoch]
        /\ \A i \in 1..Len(aired) : aired'[i] = aired[i]
    BY <1>0, StartsEffect
  <2> QED
    BY <2>1, <2>2, <2>3
<1> HIDE DEF h
<1>4. /\ Queued = {h} \cup Queued' /\ Queued' \subseteq Queued /\ h \in Queued
      /\ Batch' = Batch /\ BatchItems' = BatchItems
  BY <1>1 DEF Queued, Batch, BatchItems, Elements
<1>5. Begun' = Begun \cup {h}
  <2>1. \A d : Line("START", d) = Line("START", h) => d = h
    BY DEF Line
  <2> QED
    BY <1>1, <2>1 DEF Begun, Elements
<1>6. Ahead' = Ahead
  BY <1>2, <1>4 DEF Ahead
<1>7. Live' \subseteq Live /\ h \in Live
  BY <1>1 DEF Live, Elements
<1>8. /\ h.item \in Item /\ h.item \in Nat /\ Heard \subseteq Nat /\ Queued \subseteq Decision
      /\ \A d \in Decision : d.item \in Item
  BY <1>0, <1>1, InSets
<1>9. QueueInv'
  <2>1. InOrder'
    <3> DEFINE n == Len(aired)
    <3>1. \A i \in 1..n : aired[i].epoch = epoch => aired[i].item < h.item
      <4>1. \A i \in 1..n : aired[i].epoch = epoch => aired[i].item \in Heard
        BY <1>3 DEF Heard
      <4> QED
        BY <1>4, <4>1 DEF OrderInv, QueueInv, Lined, InTurn
    <3>2. \A i, j \in 1..n : i < j /\ aired[i].epoch = aired[j].epoch => aired[i].item < aired[j].item
      BY <1>3 DEF OrderInv, QueueInv, InOrder
    <3>3. aired'[n + 1].item = h.item /\ aired'[n + 1].epoch = epoch
      BY <1>3
    <3> HIDE DEF n
    <3>4. \A i \in 1..(n + 1) : i \in 1..n \/ i = n + 1
      BY <1>3 DEF n
    <3>5. \A i, j \in 1..(n + 1) : i < j => i \in 1..n
      BY <1>3 DEF n
    <3> SUFFICES ASSUME NEW i \in 1..(n + 1), NEW j \in 1..(n + 1), i < j, aired'[i].epoch = aired'[j].epoch
                 PROVE  aired'[i].item < aired'[j].item
      BY <1>3 DEF InOrder, n
    <3>6. i \in 1..n /\ aired'[i] = aired[i]
      BY <1>3, <3>5 DEF n
    <3>7. CASE j \in 1..n
      <4>1. aired'[j] = aired[j]
        BY <1>3, <3>7 DEF n
      <4> QED
        BY <3>2, <3>6, <3>7, <4>1
    <3>8. CASE j = n + 1
      BY <3>1, <3>3, <3>6, <3>8
    <3> QED
      BY <3>4, <3>7, <3>8
  <2>2. Lined'
    <3>1. Sorted(queue, Before)
      BY DEF OrderInv, QueueInv, Lined
    <3>2. Sorted(queue', Before) /\ \A e \in Queued' : <<h, e>> \in Before
      BY <1>1, <3>1 DEF Queued, Elements
    <3>3. \A e \in Queued' : h.item < e.item
      BY <3>2 DEF Before
    <3>4. InTurn'
      BY <1>2, <1>4, <3>3 DEF OrderInv, QueueInv, Lined, InTurn
    <3> QED
      BY <3>2, <3>4 DEF Lined, Sorted
  <2>3. AtPush'
    BY <1>1, <1>4, <1>6 DEF OrderInv, QueueInv, AtPush, Sorted
  <2>4. BatchFirst'
    BY <1>1, <1>4 DEF OrderInv, QueueInv, BatchFirst, Pushing, Pending
  <2>5. Onward'
    BY <1>1, <1>6 DEF OrderInv, QueueInv, Onward, Pending
  <2> QED
    BY <2>1, <2>2, <2>3, <2>4, <2>5 DEF QueueInv
<1>10. Pending(h.item) => Has(h.item) /\ Dec(h.item) = h /\ status[h] \in {"submitting", "queued"}
  <2>1. RowType
    BY <1>0, TypeParts
  <2> QED
    BY <1>1, <1>4, <2>1, Owned DEF OrderInv, StateInv, Own
<1>11. StateInv'
  <2>1. Own'
    <3>1. \A d \in Queued : Pending(d.item) => Owns(d) /\ status[d] \in {"submitting", "queued"}
      BY DEF OrderInv, StateInv, Own
    <3>2. \A p \in Heard' : Pending(p) => Has(p) /\ Dec(p) \in Begun' /\ status[Dec(p)] # "none"
      BY <1>2, <1>5, <1>10 DEF OrderInv, StateInv, Own
    <3> QED
      BY <1>1, <1>4, <3>1, <3>2 DEF Own, Pending, Owns, Has, Dec
  <2>2. Bounded'
    BY <1>1, <1>4, <1>5 DEF OrderInv, StateInv, Bounded
  <2>3. Phase'
    <3>1. Judged' = Judged /\ Adopting' = Adopting /\ (Adopting => Judged)
      BY <1>1 DEF Judged, Adopting
    <3>2. Judged => \A d \in Queued : Pending(d.item) => status[d] = "queued"
      BY DEF OrderInv, StateInv, Phase
    <3>3. Adopting => \A p \in Heard' : Pending(p) => status[Dec(p)] = "queued"
      BY <1>2, <1>4, <1>10, <3>1, <3>2 DEF OrderInv, StateInv, Phase
    <3> QED
      BY <1>1, <1>4, <3>1, <3>2, <3>3 DEF Phase, Pending, Dec
  <2>4. Miss'
    BY <1>1, <1>5, <1>7 DEF OrderInv, StateInv, Miss, Pushing
  <2>5. Seen'
    BY <1>1, <1>7 DEF OrderInv, StateInv, Seen
  <2>6. Uniform'
    BY <1>1, <1>4 DEF OrderInv, StateInv, Uniform, Pending
  <2> QED
    BY <2>1, <2>2, <2>3, <2>4, <2>5, <2>6 DEF StateInv
<1>12. LinkInv'
  <2>1. Certain' /\ NoJob'
    BY <1>1 DEF OrderInv, LinkInv, Certain, NoJob, Pending, Has, Dec
  <2>2. Unbegun'
    BY <1>1, <1>6 DEF OrderInv, LinkInv, Unbegun, Pending
  <2>3. Clean' = Clean
    BY <1>1 DEF Clean, Pushing
  <2>4. Accounted'
    BY <1>1, <1>4, <2>3 DEF OrderInv, LinkInv, Accounted, Waits, Condemned, Owns
  <2>5. Aborted'
    BY <1>1 DEF OrderInv, LinkInv, Aborted, Pushing
  <2> QED
    BY <2>1, <2>2, <2>4, <2>5 DEF LinkInv
<1> QED
  BY <1>9, <1>11, <1>12 DEF OrderInv

LEMMA OrderRestart ==
  ASSUME StoryInv, OrderInv, EngineRestart
  PROVE  OrderInv'
<1>0. TypeOK
  BY DEF StoryInv
<1>1. /\ epoch' = epoch + 1 /\ queue' = <<>> /\ onair' = Silence /\ log' = <<>> /\ aired' = aired
      /\ UNCHANGED <<exec, abort, item, try, linked, status, bound, job, pc, block, seen, missing, batch>>
  BY <1>0, RestartEffect DEF rowVars, decVars, memVars
<1>2. Queued' = {} /\ Begun' = {} /\ Batch' = Batch /\ BatchItems' = BatchItems
  BY <1>1, EmptyHasNone DEF Queued, Begun, Batch, BatchItems, Elements
<1>3. Heard' = {}
  <2>1. epoch \in Nat /\ aired \in Seq([item: Item, epoch: Nat])
    BY <1>0, TypeParts DEF EngineType
  <2>2. \A i \in DOMAIN aired : aired[i].epoch \in Nat /\ aired[i].epoch <= epoch
    <3>1. \A S : \A s \in Seq(S) : \A i \in DOMAIN s : s[i] \in S
      OBVIOUS
    <3>2. \A a \in [item: Item, epoch: Nat] : a.epoch \in Nat
      OBVIOUS
    <3> QED
      BY <2>1, <3>1, <3>2 DEF StoryInv, Epochs
  <2>3. \A i \in DOMAIN aired : aired[i].epoch # epoch + 1
    BY <2>1, <2>2
  <2> QED
    BY <1>1, <2>3 DEF Heard
<1>4. Ahead' = {}
  BY <1>2, <1>3 DEF Ahead
<1>5. Live' = {}
  <2>1. Silence \notin Decision
    BY SequenceAssumption DEF Silence, Decision, Item
  <2> QED
    BY <1>1, <2>1, EmptyHasNone DEF Live, Elements
<1>6. QueueInv'
  <2>1. InOrder' /\ Lined'
    BY <1>1, <1>2, EmptyHasNone DEF OrderInv, QueueInv, InOrder, Lined, InTurn
  <2>2. AtPush' /\ BatchFirst'
    BY <1>1, <1>2, <1>4 DEF OrderInv, QueueInv, AtPush, BatchFirst, Pushing, Pending, Sorted
  <2>3. Onward'
    BY <1>4 DEF Onward
  <2> QED
    BY <2>1, <2>2, <2>3 DEF QueueInv
<1>7. StateInv'
  <2>1. Own' /\ Bounded' /\ Phase' /\ Seen'
    BY <1>2, <1>3, <1>5 DEF Own, Bounded, Phase, Seen
  <2>2. Miss'
    BY <1>1, <1>2, <1>5 DEF OrderInv, StateInv, Miss, Pushing
  <2>3. Uniform'
    BY <1>1, <1>2 DEF OrderInv, StateInv, Uniform, Pending
  <2> QED
    BY <2>1, <2>2, <2>3 DEF StateInv
<1>8. LinkInv'
  <2>1. Certain' /\ NoJob' /\ Aborted'
    BY <1>1 DEF OrderInv, LinkInv, Certain, NoJob, Aborted, Pending, Has, Dec, Pushing
  <2>2. Unbegun' /\ Accounted'
    BY <1>1, <1>2, <1>4 DEF OrderInv, LinkInv, Unbegun, Accounted, Pending
  <2> QED
    BY <2>1, <2>2 DEF LinkInv
<1> QED
  BY <1>6, <1>7, <1>8 DEF OrderInv

LEMMA OrderCancel ==
  ASSUME StoryInv, OrderInv, CancelOccurrence
  PROVE  OrderInv'
<1>0. TypeOK /\ RowType
  BY TypeParts DEF StoryInv
<1>1. /\ EngineSame /\ linked' = FALSE /\ exec' = "CANCELLED"
      /\ UNCHANGED <<abort, item, try, bound, pc, block, seen, missing, batch>>
      /\ \A d \in Decision :
              /\ job'[d] = IF Owns(d) /\ status[d] \in {"queued", "submitting"} /\ job[d] = "none" THEN "pending" ELSE job[d]
              /\ status'[d] = IF Owns(d) /\ status[d] = "selected" THEN "failed" ELSE status[d]
  BY <1>0, CancelEffect DEF memVars
<1>2. /\ Queued' = Queued /\ Heard' = Heard /\ Begun' = Begun /\ Ahead' = Ahead /\ Live' = Live
      /\ InOrder' /\ Lined' /\ Batch' = Batch /\ BatchItems' = BatchItems
  BY <1>1, EngineStays DEF OrderInv, QueueInv, Batch, BatchItems, Elements
<1>3. /\ Queued \subseteq Decision /\ Batch \subseteq Decision /\ Begun \subseteq Decision /\ Heard \subseteq Item
      /\ \A p \in Item : Has(p) => Dec(p) \in Decision
  BY <1>0, InSets, Owned
<1>4. QueueInv'
  <2>1. AtPush' /\ BatchFirst'
    BY <1>1, <1>2 DEF OrderInv, QueueInv, AtPush, BatchFirst, Pushing, Pending, EngineSame, Sorted
  <2>2. Onward'
    BY <1>1, <1>2 DEF OrderInv, QueueInv, Onward, Pending
  <2> QED
    BY <1>2, <2>1, <2>2 DEF QueueInv
<1>5. StateInv'
  <2>1. \A d \in Decision : /\ status'[d] = "queued" <=> status[d] = "queued"
                            /\ status[d] \in {"submitting", "queued"} => status'[d] = status[d]
                            /\ status[d] # "none" => status'[d] # "none"
    BY <1>1
  <2>2. Own'
    <3>1. \A d \in Queued : Pending(d.item) => Owns(d) /\ status'[d] \in {"submitting", "queued"}
      BY <1>3, <2>1 DEF OrderInv, StateInv, Own
    <3>2. \A p \in Heard : Pending(p) => Has(p) /\ Dec(p) \in Begun /\ status'[Dec(p)] # "none"
      BY <1>3, <2>1 DEF OrderInv, StateInv, Own
    <3> QED
      BY <1>1, <1>2, <3>1, <3>2 DEF Own, Pending, Owns, Has, Dec
  <2>3. Bounded'
    BY <1>1, <1>2, <1>3, <2>1 DEF OrderInv, StateInv, Bounded, EngineSame
  <2>4. Phase'
    <3>1. Judged' = Judged /\ Adopting' = Adopting
      BY <1>1 DEF Judged, Adopting
    <3>2. Judged => \A d \in Queued : Pending(d.item) => status'[d] = "queued"
      BY <1>3, <2>1 DEF OrderInv, StateInv, Phase
    <3>3. Adopting => \A p \in Heard : Pending(p) => status'[Dec(p)] = "queued"
      BY <1>3, <2>1 DEF OrderInv, StateInv, Phase, Own
    <3> QED
      BY <1>1, <1>2, <3>1, <3>2, <3>3 DEF Phase, Pending, Dec
  <2>5. Miss' /\ Seen'
    BY <1>1, <1>2, <2>1 DEF OrderInv, StateInv, Miss, Seen, Pushing
  <2>6. Uniform'
    <3>1. \A d \in Queued \cup Batch : d \in Decision
                                       /\ (Pending(d.item) => Owns(d) /\ status[d] \in {"submitting", "queued"})
      BY <1>3 DEF OrderInv, StateInv, Own, StoryInv, RowsInv, BatchOK
    <3>2. \A d \in Queued \cup Batch : Pending(d.item) => job'[d] = IF job[d] = "none" THEN "pending" ELSE job[d]
      BY <1>1, <3>1
    <3>3. \A d, e \in Queued \cup Batch : Pending(d.item) /\ Pending(e.item) => job'[d] = job'[e] /\ job'[d] # "done"
      BY <3>2 DEF OrderInv, StateInv, Uniform
    <3> QED
      BY <1>1, <1>2, <3>3 DEF Uniform, Pending
  <2> QED
    BY <2>2, <2>3, <2>4, <2>5, <2>6 DEF StateInv
<1>6. LinkInv'
  BY <1>1 DEF LinkInv, Certain, NoJob, Unbegun, Accounted, Aborted
<1> QED
  BY <1>4, <1>5, <1>6 DEF OrderInv

(* Reading the file: what was heard and whose answer was lost is known to  *)
(* play or to have played, so nothing pending has been heard.              *)
LEMMA OrderCollect ==
  ASSUME StoryInv, OrderInv, Collect
  PROVE  OrderInv'
<1>0. TypeOK /\ RowType /\ RowsInv /\ LogNow
  BY TypeParts DEF StoryInv
<1>1. /\ pc = "collect" /\ pc' = "inventory" /\ log' = <<>>
      /\ UNCHANGED <<abort, try, linked, epoch, queue, onair, aired, block, seen, missing, batch>>
      /\ \E x \in RowSet :
              /\ ReadRows(x) /\ \A d \in Begun : x.status[d] \in {"none", "started"}
              /\ exec' = x.exec /\ item' = x.item /\ status' = x.status /\ bound' = x.bound /\ job' = x.job
  BY <1>0, CollectEffect DEF RowsInv
<1>2. /\ job' = job
      /\ \A d \in Begun : status'[d] \in {"none", "started"}
      /\ \A d \in Decision : /\ status'[d] = status[d] \/ (d \in Begun /\ status'[d] = "started" /\ status[d] # "none")
                             /\ d \notin Begun => bound'[d] = bound[d]
      /\ \A p \in Item :
           /\ \/ item'[p] = item[p]
              \/ item[p] = "STARTED" /\ item'[p] = "COMPLETED"
              \/ /\ Has(p) /\ Dec(p) \in Begun /\ status'[Dec(p)] = "started"
                 /\ item[p] \notin {"STARTED", "COMPLETED"} /\ item'[p] \in {"STARTED", "COMPLETED"}
           /\ Has(p) /\ status'[Dec(p)] = "started" /\ status[Dec(p)] # "started" => item'[p] \in {"STARTED", "COMPLETED"}
      /\ exec' = "PENDING" => exec = "PENDING" /\ \A p \in Item : item[p] # "STARTED" => item'[p] = item[p]
      /\ exec' = "ABORTED" => exec = "ABORTED"
  BY <1>1 DEF ReadRows
<1>3. /\ Queued' = Queued /\ Heard' = Heard /\ Ahead' = Ahead /\ Live' = Live /\ Begun' = {}
  <2>1. Queued' = Queued /\ Heard' = Heard /\ Live' = Live /\ Begun' = {}
    BY <1>1, EmptyHasNone DEF Queued, Heard, Live, Begun, Elements
  <2> QED
    BY <2>1 DEF Ahead
<1>4. /\ Queued \subseteq Decision /\ Begun \subseteq Decision /\ Heard \subseteq Item
      /\ \A d \in Decision : d.item \in Item
      /\ \A p \in Item : Has(p) => Dec(p) \in Decision /\ Dec(p).item = p
      /\ \A d \in Decision : Owns(d) => Has(d.item) /\ Dec(d.item) = d
  BY <1>0, InSets, Owned
<1>5. /\ \A d \in Queued : d \notin Begun /\ status'[d] = status[d] /\ bound'[d] = bound[d]
      /\ \A d \in Queued : Owns(d) => \/ item'[d.item] = item[d.item]
                                      \/ item[d.item] = "STARTED" /\ item'[d.item] = "COMPLETED"
  BY <1>2, <1>4, QueuedNotBegun
<1>6. \A p \in Item : item'[p] \in {"PENDING", "QUEUED"} => item'[p] = item[p]
  BY <1>2
<1>7. \A p \in Heard : item'[p] # "PENDING"
  <2> SUFFICES ASSUME NEW p \in Heard, item'[p] = "PENDING" PROVE FALSE
    OBVIOUS
  <2>1. item[p] = "PENDING" /\ p \in Item
    BY <1>4, <1>6
  <2>2. Has(p) /\ Dec(p) \in Begun /\ status[Dec(p)] # "none"
    BY <2>1 DEF OrderInv, StateInv, Own, Pending
  <2>3. status[Dec(p)] # "started"
    BY <1>0, <2>1, <2>2 DEF RowsInv, Truthful
  <2> QED
    BY <1>2, <1>4, <2>1, <2>2, <2>3
<1>8. QueueInv'
  <2>1. InOrder' /\ Lined'
    BY <1>1, <1>3 DEF OrderInv, QueueInv, InOrder, Lined, InTurn, Sorted
  <2>2. AtPush' /\ BatchFirst'
    BY <1>1, NotAtPush DEF Pushing
  <2>3. Onward'
    <3> SUFFICES ASSUME NEW p \in Item, NEW q \in Item, item'[p] = "PENDING", q \in Ahead,
                        item'[q] # "PENDING" \/ p \notin Ahead
                 PROVE  q < p
      BY <1>3 DEF Onward, Pending
    <3>1. item[p] = "PENDING" /\ p \notin Heard
      BY <1>6, <1>7
    <3>2. CASE item[q] # "PENDING" \/ p \notin Ahead
      BY <3>1, <3>2 DEF OrderInv, QueueInv, Onward, Pending
    <3>3. CASE item[q] = "PENDING" /\ p \in Ahead
      <4>1. Has(q) /\ Dec(q) \in Begun
        BY <1>2, <3>3
      <4>2. q \in Heard
        BY <1>0, <1>4, <4>1 DEF LogNow
      <4>3. PICK d \in Queued : p = d.item
        BY <3>1, <3>3 DEF Ahead
      <4> QED
        BY <4>2, <4>3 DEF OrderInv, QueueInv, Lined, InTurn
    <3> QED
      BY <3>2, <3>3
  <2> QED
    BY <2>1, <2>2, <2>3 DEF QueueInv
<1>9. StateInv'
  <2>1. \A d \in Queued : item'[d.item] = "PENDING" => item[d.item] = "PENDING" /\ Owns(d) /\ status[d] \in {"submitting", "queued"}
    BY <1>4, <1>6 DEF OrderInv, StateInv, Own, Pending
  <2>2. Own'
    BY <1>1, <1>3, <1>5, <1>7, <2>1 DEF Own, Pending, Owns
  <2>3. Bounded'
    BY <1>1, <1>3, <1>5 DEF OrderInv, StateInv, Bounded
  <2>4. Phase'
    <3>1. Judged' => Judged
      BY <1>1 DEF Judged
    <3> QED
      BY <1>3, <1>5, <1>7, <2>1, <3>1 DEF OrderInv, StateInv, Phase, Pending
  <2>5. Miss' /\ Seen'
    BY <1>1, <1>3 DEF OrderInv, StateInv, Miss, Seen, Pushing
  <2>6. Uniform'
    <3>1. Batch' = {}
      <4>1. Batch' = Batch
        BY <1>1 DEF Batch, Elements
      <4> QED
        BY <1>0, <1>1, <4>1, BatchEmpty DEF RowsInv, Pushing
    <3> QED
      BY <1>2, <1>3, <2>1, <3>1 DEF OrderInv, StateInv, Uniform, Pending
  <2> QED
    BY <2>2, <2>3, <2>4, <2>5, <2>6 DEF StateInv
<1>10. LinkInv'
  <2>1. Certain' /\ NoJob'
    BY <1>1, <1>2, <1>6 DEF OrderInv, LinkInv, Certain, NoJob, Pending, Has, Dec
  <2>2. Unbegun'
    <3> SUFFICES ASSUME linked, exec' = "PENDING"
                 PROVE  \A p \in Item : item'[p] \in {"PENDING", "FAILED"} /\ (p \in Ahead => item'[p] = "PENDING")
      BY <1>1, <1>3 DEF Unbegun, Pending
    <3>1. \A p \in Item : item[p] \in {"PENDING", "FAILED"} /\ (p \in Ahead => item[p] = "PENDING")
      BY <1>2 DEF OrderInv, LinkInv, Unbegun, Pending
    <3> QED
      BY <1>2, <3>1
  <2>3. Clean' => Clean
    BY <1>1 DEF Clean, Pushing
  <2>4. Accounted'
    <3> SUFFICES ASSUME linked, NEW d \in Queued
                 PROVE  Owns(d) /\ (Waits(d)' \/ Condemned(d)')
      BY <1>1, <1>3 DEF Accounted, Owns
    <3>1. Owns(d) /\ (Waits(d) \/ Condemned(d))
      BY DEF OrderInv, LinkInv, Accounted
    <3>2. item'[d.item] = item[d.item]
      BY <1>5, <3>1 DEF Waits, Condemned
    <3> QED
      BY <1>1, <1>2, <1>5, <2>3, <3>1, <3>2 DEF Waits, Condemned
  <2>5. Aborted'
    BY <1>1, <1>2, <1>6 DEF OrderInv, LinkInv, Aborted, Pushing
  <2> QED
    BY <2>1, <2>2, <2>4, <2>5 DEF LinkInv
<1> QED
  BY <1>8, <1>9, <1>10 DEF OrderInv

(* Nothing that waits in the engine, or began there, is taken for lost.    *)
LEMMA OrderReconcile ==
  ASSUME StoryInv, OrderInv, Reconcile
  PROVE  OrderInv'
<1>0. TypeOK /\ RowType
  BY TypeParts DEF StoryInv
<1>1. /\ pc = "reconcile" /\ EngineSame
      /\ pc' = (IF block THEN "act" ELSE "resolve") /\ seen' = (IF block THEN {} ELSE Live)
      /\ UNCHANGED <<exec, abort, try, linked, bound, job, block, batch>>
      /\ \A p \in Item : item'[p] = item[p] \/ (item[p] = "STARTED" /\ item'[p] = "FAILED")
      /\ \A d \in Decision : /\ status'[d] = IF d \in Lost THEN "failed" ELSE status[d]
                             /\ missing'[d] # "no" => d \in Gone /\ d \notin Lost
  BY <1>0, ReconcileEffect
<1>2. /\ Queued' = Queued /\ Heard' = Heard /\ Begun' = Begun /\ Ahead' = Ahead /\ Live' = Live
      /\ InOrder' /\ Lined' /\ Batch' = Batch /\ BatchItems' = BatchItems
  BY <1>1, EngineStays DEF OrderInv, QueueInv, Batch, BatchItems, Elements
<1>3. /\ Queued \subseteq Decision /\ Begun \subseteq Decision /\ Heard \subseteq Item /\ Queued \subseteq Live
      /\ \A p \in Item : Has(p) => Dec(p) \in Decision
      /\ \A d \in Decision : d.item \in Item
  BY <1>0, InSets, Owned DEF Live, Queued
<1>4. \A d \in Queued \cup Begun : d \notin Lost
  <2>1. \A d \in Queued \cup Begun : missing[d] = "no"
    BY <1>1, <1>3 DEF OrderInv, StateInv, Miss
  <2>2. \A d \in Queued \cup Begun : status[d] = "queued" => bound[d] = epoch
    BY DEF OrderInv, StateInv, Bounded
  <2> QED
    BY <2>1, <2>2 DEF Lost, Gone
<1>5. /\ \A d \in Queued \cup Begun : status'[d] = status[d]
      /\ \A d \in Decision : (status'[d] = "queued" => status[d] = "queued") /\ (status[d] # "none" => status'[d] # "none")
      /\ \A p \in Item : item[p] # "STARTED" => item'[p] = item[p]
      /\ \A p \in Item : item'[p] = "PENDING" <=> item[p] = "PENDING"
  BY <1>1, <1>3, <1>4
<1>6. pc' \notin Pushing /\ Batch = {}
  <2>1. BatchOK
    BY DEF StoryInv, RowsInv
  <2> QED
    BY <1>1, <2>1, BatchEmpty DEF Pushing
<1>7. QueueInv'
  <2>1. AtPush' /\ BatchFirst'
    BY <1>6, NotAtPush
  <2>2. Onward'
    BY <1>2, <1>5 DEF OrderInv, QueueInv, Onward, Pending
  <2> QED
    BY <1>2, <2>1, <2>2 DEF QueueInv
<1>8. StateInv'
  <2>2. Own'
    <3>1. \A d \in Queued : item'[d.item] = "PENDING" => Owns(d) /\ status'[d] \in {"submitting", "queued"}
      BY <1>3, <1>5 DEF OrderInv, StateInv, Own, Pending
    <3>2. \A p \in Heard : item'[p] = "PENDING" => Has(p) /\ Dec(p) \in Begun /\ status'[Dec(p)] # "none"
      BY <1>3, <1>5 DEF OrderInv, StateInv, Own, Pending
    <3> QED
      BY <1>1, <1>2, <3>1, <3>2 DEF Own, Pending, Owns, Has, Dec
  <2>3. Bounded'
    BY <1>1, <1>2, <1>3, <1>5 DEF OrderInv, StateInv, Bounded, EngineSame
  <2>4. Phase'
    <3>1. (Judged' => Judged) /\ (Adopting' => Adopting)
      BY <1>1 DEF Judged, Adopting
    <3>2. Judged => \A d \in Queued : item'[d.item] = "PENDING" => status'[d] = "queued"
      BY <1>3, <1>5 DEF OrderInv, StateInv, Phase, Pending
    <3>3. Adopting => \A p \in Heard : item'[p] = "PENDING" => status'[Dec(p)] = "queued"
      BY <1>3, <1>5 DEF OrderInv, StateInv, Phase, Own, Pending
    <3> QED
      BY <1>1, <1>2, <3>1, <3>2, <3>3 DEF Phase, Pending, Dec
  <2>5. Miss'
    <3>1. Live \subseteq seen
      BY <1>1 DEF OrderInv, StateInv, Seen
    <3>2. \A d \in Decision : missing'[d] # "no" => status'[d] = "queued" /\ d \notin Live
      BY <1>1, <3>1 DEF Gone, Lost
    <3> QED
      BY <1>1, <1>2, <3>2 DEF Miss
  <2>6. Seen'
    BY <1>1, <1>2 DEF Seen
  <2>7. Uniform'
    BY <1>1, <1>2, <1>3, <1>5, <1>6 DEF OrderInv, StateInv, Uniform, Pending
  <2> QED
    BY <2>2, <2>3, <2>4, <2>5, <2>6, <2>7 DEF StateInv
<1>9. LinkInv'
  <2>1. Certain' /\ NoJob'
    BY <1>1, <1>5 DEF OrderInv, LinkInv, Certain, NoJob, Pending, Has, Dec
  <2>2. Unbegun'
    BY <1>1, <1>2, <1>5 DEF OrderInv, LinkInv, Unbegun, Pending
  <2>3. Clean' => Clean
    BY <1>1 DEF Clean, Pushing
  <2>4. Accounted'
    <3> SUFFICES ASSUME linked, NEW d \in Queued
                 PROVE  Owns(d) /\ (Waits(d)' \/ Condemned(d)')
      BY <1>1, <1>2 DEF Accounted, Owns
    <3>1. Owns(d) /\ (Waits(d) \/ Condemned(d))
      BY DEF OrderInv, LinkInv, Accounted
    <3>2. item'[d.item] = item[d.item]
      BY <1>3, <1>5, <3>1 DEF Waits, Condemned
    <3> QED
      BY <1>1, <1>5, <2>3, <3>1, <3>2 DEF Waits, Condemned, EngineSame
  <2>5. Aborted'
    BY <1>1, <1>6 DEF OrderInv, LinkInv, Aborted
  <2> QED
    BY <2>1, <2>2, <2>4, <2>5 DEF LinkInv
<1> QED
  BY <1>7, <1>8, <1>9 DEF OrderInv

LEMMA OrderResolve ==
  ASSUME StoryInv, OrderInv, Resolve
  PROVE  OrderInv'
<1>0. TypeOK /\ RowType
  BY TypeParts DEF StoryInv
<1>1. /\ pc = "resolve" /\ pc' = "sweep" /\ seen' = {} /\ EngineSame
      /\ UNCHANGED <<exec, item, abort, try, linked, job, block, missing, batch>>
      /\ \A d \in Decision :
              /\ status'[d] = IF status[d] = "submitting" THEN IF d \in seen THEN "queued" ELSE "selected" ELSE status[d]
              /\ bound'[d] = IF status[d] = "submitting" /\ d \in seen THEN epoch ELSE bound[d]
  BY <1>0, ResolveEffect DEF rowVars
<1>2. /\ Queued' = Queued /\ Heard' = Heard /\ Begun' = Begun /\ Ahead' = Ahead /\ Live' = Live
      /\ InOrder' /\ Lined' /\ Batch' = Batch /\ BatchItems' = BatchItems
  BY <1>1, EngineStays DEF OrderInv, QueueInv, Batch, BatchItems, Elements
<1>3. /\ Queued \subseteq Decision /\ Begun \subseteq Decision /\ Heard \subseteq Item /\ Queued \subseteq seen
      /\ \A p \in Item : Has(p) => Dec(p) \in Decision
  <2>1. Queued \subseteq Live
    BY DEF Queued, Live
  <2> QED
    BY <1>0, <1>1, <2>1, InSets, Owned DEF OrderInv, StateInv, Seen
<1>4. pc' \notin Pushing /\ Batch = {}
  <2>1. BatchOK
    BY DEF StoryInv, RowsInv
  <2> QED
    BY <1>1, <2>1, BatchEmpty DEF Pushing
<1>5. QueueInv'
  <2>1. AtPush' /\ BatchFirst'
    BY <1>4, NotAtPush
  <2>2. Onward'
    BY <1>1, <1>2 DEF OrderInv, QueueInv, Onward, Pending
  <2> QED
    BY <1>2, <2>1, <2>2 DEF QueueInv
<1>6. StateInv'
  <2>1. \A d \in Queued : Pending(d.item) => Owns(d) /\ status'[d] = "queued"
    BY <1>1, <1>3 DEF OrderInv, StateInv, Own
  <2>2. Own'
    <3>1. \A p \in Heard : Pending(p) => Has(p) /\ Dec(p) \in Begun /\ status'[Dec(p)] # "none"
      BY <1>1, <1>3 DEF OrderInv, StateInv, Own
    <3> QED
      BY <1>1, <1>2, <2>1, <3>1 DEF Own, Pending, Owns, Has, Dec
  <2>3. Bounded'
    <3>1. \A d \in Queued \cup Begun : status'[d] = "queued" => bound'[d] = epoch
      BY <1>1, <1>3 DEF OrderInv, StateInv, Bounded
    <3> QED
      BY <1>1, <1>2, <3>1 DEF Bounded, EngineSame
  <2>4. Phase'
    <3>1. ~Adopting'
      BY <1>1 DEF Adopting
    <3> QED
      BY <1>1, <1>2, <2>1, <3>1 DEF Phase, Pending
  <2>5. Miss' /\ Seen'
    BY <1>1, <1>2 DEF OrderInv, StateInv, Miss, Seen, Pushing
  <2>6. Uniform'
    BY <1>1, <1>2 DEF OrderInv, StateInv, Uniform, Pending
  <2> QED
    BY <2>2, <2>3, <2>4, <2>5, <2>6 DEF StateInv
<1>7. LinkInv'
  <2>1. Certain' /\ NoJob' /\ Aborted'
    BY <1>1, <1>4 DEF OrderInv, LinkInv, Certain, NoJob, Aborted, Pending, Has, Dec
  <2>2. Unbegun'
    BY <1>1, <1>2 DEF OrderInv, LinkInv, Unbegun, Pending
  <2>3. ~Clean'
    BY <1>1 DEF Clean, Pushing
  <2>4. Accounted'
    <3> SUFFICES ASSUME linked, NEW d \in Queued
                 PROVE  Owns(d) /\ (Waits(d)' \/ Condemned(d)')
      BY <1>1, <1>2 DEF Accounted, Owns
    <3>1. Owns(d) /\ (Waits(d) \/ Condemned(d))
      BY DEF OrderInv, LinkInv, Accounted
    <3>2. d \in Decision /\ bound'[d] \in {bound[d], epoch} /\ (status[d] = "queued" => status'[d] = "queued")
      BY <1>1, <1>3
    <3> QED
      BY <1>1, <2>3, <3>1, <3>2 DEF Waits, Condemned, EngineSame
  <2> QED
    BY <2>1, <2>2, <2>4 DEF LinkInv
<1> QED
  BY <1>5, <1>6, <1>7 DEF OrderInv

(* Removing: of a command that is withdrawn, everything that still waits.  *)
LEMMA OrderSweep ==
  ASSUME StoryInv, OrderInv, Sweep
  PROVE  OrderInv'
<1>0. TypeOK /\ RowType
  BY TypeParts DEF StoryInv
<1>1. /\ pc = "sweep" /\ pc' = "collect" /\ block' = (~block /\ exec \in Active)
      /\ Elements(queue') = Elements(queue) \ Found
      /\ \A R : Sorted(queue, R) => Sorted(queue', R)
      /\ UNCHANGED <<exec, abort, item, try, linked, bound, epoch, onair, log, aired, missing, batch>>
      /\ \A d \in Decision :
              /\ status'[d] = IF d \in Jobs /\ status[d] # "started" THEN "failed" ELSE status[d]
              /\ job'[d] = IF d \in Jobs THEN "done" ELSE job[d]
  BY <1>0, SweepEffect DEF rowVars
<1>2. /\ Queued' = Queued \ Found /\ Heard' = Heard /\ Begun' = Begun /\ Live' \subseteq Live
      /\ Batch' = Batch
  BY <1>1 DEF Queued, Heard, Begun, Live, Batch, Elements
<1>3. /\ Queued \subseteq Decision /\ Begun \subseteq Decision /\ Heard \subseteq Item /\ Ahead \subseteq Item
      /\ \A p \in Item : Has(p) => Dec(p) \in Decision
  BY <1>0, InSets, Owned
<1>4. pc' \notin Pushing /\ Batch = {}
  <2>1. BatchOK
    BY DEF StoryInv, RowsInv
  <2> QED
    BY <1>1, <2>1, BatchEmpty DEF Pushing
<1>5. \A d \in Queued' : Pending(d.item) => d \notin Jobs /\ status'[d] = status[d] /\ job'[d] = job[d] /\ status[d] = "queued"
  <2>1. \A d \in Queued : Pending(d.item) => status[d] = "queued" /\ bound[d] = epoch
    BY <1>1 DEF OrderInv, StateInv, Phase, Judged, Bounded
  <2>2. \A d \in Queued' : Pending(d.item) => d \notin Jobs
    BY <1>2, <2>1 DEF Found
  <2> QED
    BY <1>1, <1>2, <1>3, <2>1, <2>2
<1>6. Ahead' \subseteq Ahead
  BY <1>2 DEF Ahead
<1>7. QueueInv'
  <2>1. AtPush' /\ BatchFirst'
    BY <1>4, NotAtPush
  <2>2. InOrder' /\ Lined'
    <3>1. Sorted(queue, Before) /\ InTurn /\ InOrder
      BY DEF OrderInv, QueueInv, Lined
    <3>2. Sorted(queue', Before)
      BY <1>1, <3>1
    <3>3. InTurn' /\ InOrder'
      BY <1>1, <1>2, <3>1 DEF InTurn, InOrder
    <3> QED
      BY <3>2, <3>3 DEF Lined, Sorted
  <2>3. Onward'
    <3> SUFFICES ASSUME NEW p \in Item, NEW q \in Item, Pending(p), q \in Ahead', ~Pending(q) \/ p \notin Ahead'
                 PROVE  q < p
      BY <1>1 DEF Onward, Pending
    <3>1. q \in Ahead
      BY <1>6
    <3>2. CASE ~Pending(q) \/ p \notin Ahead
      BY <3>1, <3>2 DEF OrderInv, QueueInv, Onward
    <3>3. CASE Pending(q) /\ p \in Ahead
      <4>1. p \notin Ahead'
        BY <3>3
      <4>2. PICK e \in Queued : e.item = p /\ e \in Found
        BY <1>2, <3>3, <4>1 DEF Ahead
      <4>3. CASE q \in Heard
        BY <4>2, <4>3 DEF OrderInv, QueueInv, Lined, InTurn
      <4>4. ASSUME NEW d \in Queued', d.item = q PROVE FALSE
        <5>1. d \in Queued /\ job[d] = job[e]
          BY <1>2, <3>3, <4>2, <4>4 DEF OrderInv, StateInv, Uniform
        <5>2. d \notin Jobs /\ e \in Jobs
          BY <1>5, <3>3, <4>2, <4>4 DEF Found
        <5> QED
          BY <1>3, <5>1, <5>2 DEF Jobs
      <4> QED
        BY <1>2, <4>3, <4>4 DEF Ahead
    <3> QED
      BY <3>2, <3>3
  <2> QED
    BY <2>1, <2>2, <2>3 DEF QueueInv
<1>8. StateInv'
  <2>2. Own'
    <3>1. \A d \in Queued' : Pending(d.item) => Owns(d) /\ status'[d] \in {"submitting", "queued"}
      BY <1>2, <1>5 DEF OrderInv, StateInv, Own
    <3>2. \A p \in Heard : Pending(p) => Has(p) /\ Dec(p) \in Begun /\ status'[Dec(p)] # "none"
      BY <1>1, <1>3 DEF OrderInv, StateInv, Own
    <3> QED
      BY <1>1, <1>2, <3>1, <3>2 DEF Own, Pending, Owns, Has, Dec
  <2>3. Bounded'
    <3>1. \A d \in Queued' \cup Begun : status'[d] = "queued" => bound[d] = epoch
      BY <1>1, <1>2, <1>3 DEF OrderInv, StateInv, Bounded
    <3> QED
      BY <1>1, <1>2, <3>1 DEF Bounded
  <2>4. Phase'
    <3>1. ~Adopting'
      BY <1>1 DEF Adopting
    <3> QED
      BY <1>1, <1>5, <3>1 DEF Phase, Pending
  <2>5. Miss' /\ Seen'
    BY <1>1, <1>2 DEF OrderInv, StateInv, Miss, Seen, Pushing
  <2>6. Uniform'
    <3>1. \A d, e \in Queued' : Pending(d.item) /\ Pending(e.item) => job'[d] = job'[e] /\ job'[d] # "done"
      BY <1>2, <1>5 DEF OrderInv, StateInv, Uniform
    <3> QED
      BY <1>1, <1>2, <1>4, <3>1 DEF Uniform, Pending
  <2> QED
    BY <2>2, <2>3, <2>4, <2>5, <2>6 DEF StateInv
<1>9. LinkInv'
  <2>1. Certain' /\ Aborted'
    BY <1>1, <1>4 DEF OrderInv, LinkInv, Certain, Aborted
  <2>2. NoJob'
    <3> SUFFICES ASSUME linked, NEW p \in Item, Pending(p), Has(p) PROVE job'[Dec(p)] = "none"
      BY <1>1 DEF NoJob, Pending, Has, Dec
    <3>1. job[Dec(p)] = "none"
      BY DEF OrderInv, LinkInv, NoJob
    <3> QED
      BY <1>1, <1>3, <3>1 DEF Jobs
  <2>3. Unbegun'
    BY <1>1, <1>6 DEF OrderInv, LinkInv, Unbegun, Pending
  <2>4. Accounted'
    <3> SUFFICES ASSUME linked, NEW d \in Queued'
                 PROVE  Owns(d) /\ Waits(d)'
      BY <1>1 DEF Accounted, Owns
    <3>1. d \in Queued /\ d \in Decision /\ d \notin Found
      BY <1>2, <1>3
    <3>2. Owns(d) /\ (Waits(d) \/ Condemned(d))
      BY <3>1 DEF OrderInv, LinkInv, Accounted
    <3>3. Waits(d)
      BY <3>1, <3>2 DEF Condemned, Found, Jobs
    <3>4. d \notin Jobs
      BY <3>3 DEF Jobs, Waits
    <3>5. status'[d] = status[d] /\ job'[d] = job[d]
      BY <1>1, <3>1, <3>4
    <3> QED
      BY <1>1, <3>2, <3>3, <3>5 DEF Waits
  <2> QED
    BY <2>1, <2>2, <2>3, <2>4 DEF LinkInv
<1> QED
  BY <1>7, <1>8, <1>9 DEF OrderInv

(* At act, everything timed that waits in the engine is known to be there. *)
LEMMA AllWaiting ==
  ASSUME StoryInv, OrderInv, pc = "act", linked
  PROVE  \A d \in Queued :
           /\ Owns(d) /\ d \in Decision /\ item[d.item] \in {"PENDING", "QUEUED"} /\ job[d] = "none" /\ status[d] = "queued"
           /\ bound[d] = epoch /\ d.item \in Item /\ d.item \notin LostItems /\ (Pending(d.item) => d.item \in Adopted)
<1> SUFFICES ASSUME NEW d \in Queued
             PROVE  /\ Owns(d) /\ d \in Decision /\ item[d.item] \in {"PENDING", "QUEUED"} /\ job[d] = "none" /\ status[d] = "queued"
                    /\ bound[d] = epoch /\ d.item \in Item /\ d.item \notin LostItems /\ (Pending(d.item) => d.item \in Adopted)
  OBVIOUS
<1>1. RowType /\ d \in Decision /\ d.item \in Item
  BY TypeParts, InSets DEF StoryInv
<1>2. Owns(d) /\ Waits(d)
  BY DEF OrderInv, LinkInv, Accounted, Condemned, Clean
<1>3. status[d] = "queued"
  BY <1>2 DEF Waits, OrderInv, StateInv, Phase, Judged, Pending
<1>4. bound[d] = epoch
  BY <1>3 DEF OrderInv, StateInv, Bounded
<1>5. StatusOf(d.item) = "queued"
  BY <1>1, <1>2, <1>3, Owned DEF StatusOf
<1> QED
  BY <1>1, <1>2, <1>3, <1>4, <1>5 DEF Waits, LostItems, Adopted, With, Pending

LEMMA OrderSettled ==
  ASSUME StoryInv, OrderInv, Settled
  PROVE  OrderInv'
<1>0. TypeOK /\ RowType
  BY TypeParts DEF StoryInv
<1>1. /\ pc = "act" /\ pc' \in {"sweep", "collect"} /\ block' = (pc' = "sweep") /\ batch' = <<>>
      /\ UNCHANGED <<bound, try, linked, abort, seen, missing>> /\ EngineSame
      /\ \A d \in Decision : /\ status'[d] = status[d] \/ (status[d] = "selected" /\ status'[d] = "failed")
      /\ \A p \in Item : \/ item'[p] = item[p]
                         \/ item[p] \in {"PENDING", "QUEUED", "STARTED"} /\ item'[p] \in {"FAILED", "SKIPPED"}
                         \/ item[p] = "STARTED" /\ item'[p] = "COMPLETED"
      /\ exec' = "PENDING" => exec = "PENDING" /\ ~Whole
      /\ exec' = "ABORTED" => exec = "ABORTED" \/ (abort /\ \A p \in Item : item'[p] \notin {"PENDING", "QUEUED"})
  BY DEF Settled
<1>2. \/ /\ job' = job /\ Adopted = {}
         /\ \A p \in Item : item'[p] # item[p] => p \in LostItems \/ item[p] \in {"PENDING", "STARTED"}
      \/ /\ pc' = "sweep"
         /\ \A p \in Item : /\ item'[p] \notin {"PENDING", "QUEUED"}
                            /\ item[p] \in {"PENDING", "QUEUED"} /\ p \notin LostItems => item'[p] = "SKIPPED"
         /\ \A d \in Decision :
             Owns(d) /\ item[d.item] \in {"PENDING", "QUEUED"} /\ status[d] \in {"queued", "submitting"} /\ job[d] = "none"
             => job'[d] = "pending"
  BY DEF Settled
<1>3. /\ Queued' = Queued /\ Heard' = Heard /\ Begun' = Begun /\ Ahead' = Ahead /\ Live' = Live
      /\ InOrder' /\ Lined' /\ Batch' = {}
  BY <1>1, EngineStays, EmptyHasNone DEF OrderInv, QueueInv, Batch, Elements
<1>4. /\ Queued \subseteq Decision /\ Begun \subseteq Decision /\ Ahead \subseteq Item
      /\ \A p \in Item : Has(p) => Dec(p) \in Decision
  BY <1>0, InSets, Owned
<1>5. pc' \notin Pushing
  BY <1>1 DEF Pushing
<1>6. \A p \in Item : item'[p] \in {"PENDING", "QUEUED"} => item'[p] = item[p]
  BY <1>1
<1>7. \A p \in Ahead : item'[p] # "PENDING"
  <2>1. CASE Adopted = {}
    BY <1>1, <1>4, <1>6, <2>1, NothingAhead DEF Pending
  <2>2. CASE Adopted # {}
    BY <1>2, <1>4, <2>2
  <2> QED
    BY <2>1, <2>2
<1>8. QueueInv'
  <2>1. AtPush' /\ BatchFirst'
    BY <1>5, NotAtPush
  <2>2. Onward'
    <3> SUFFICES ASSUME NEW p \in Item, NEW q \in Item, item'[p] = "PENDING", q \in Ahead
                 PROVE  q < p
      BY <1>3 DEF Onward, Pending
    <3>1. item[p] = "PENDING" /\ p \notin Ahead
      BY <1>6, <1>7
    <3> QED
      BY <3>1 DEF OrderInv, QueueInv, Onward, Pending
  <2> QED
    BY <1>3, <2>1, <2>2 DEF QueueInv
<1>9. StateInv'
  <2>1. Own' /\ Phase' /\ Uniform'
    BY <1>3, <1>7, NothingLeft
  <2>2. Bounded'
    <3>1. \A d \in Queued \cup Begun : status'[d] = "queued" => bound[d] = epoch
      BY <1>1, <1>4 DEF OrderInv, StateInv, Bounded
    <3> QED
      BY <1>1, <1>3, <3>1 DEF Bounded, EngineSame
  <2>3. Miss' /\ Seen'
    BY <1>1, <1>3 DEF OrderInv, StateInv, Miss, Seen, Pushing
  <2> QED
    BY <2>1, <2>2, <2>3 DEF StateInv
<1>10. LinkInv'
  <2>1. Certain'
    BY <1>1 DEF OrderInv, LinkInv, Certain
  <2>2. NoJob'
    <3> SUFFICES ASSUME linked, NEW p \in Item, item'[p] = "PENDING", Has(p) PROVE job'[Dec(p)] = "none"
      BY <1>1 DEF NoJob, Pending, Has, Dec
    <3>1. item[p] = "PENDING" /\ job' = job
      BY <1>2, <1>6
    <3> QED
      BY <3>1 DEF OrderInv, LinkInv, NoJob, Pending
  <2>3. Unbegun'
    <3> SUFFICES ASSUME linked, exec' = "PENDING" PROVE FALSE
      BY <1>1 DEF Unbegun
    <3>1. \A p \in Item : item[p] \in {"PENDING", "FAILED"}
      BY <1>1 DEF OrderInv, LinkInv, Unbegun
    <3> QED
      BY <1>1, <3>1 DEF Whole
  <2>4. Accounted'
    <3> SUFFICES ASSUME linked, NEW d \in Queued
                 PROVE  Owns(d) /\ (Waits(d)' \/ Condemned(d)')
      BY <1>1, <1>3 DEF Accounted, Owns
    <3>1. /\ Owns(d) /\ d \in Decision /\ item[d.item] \in {"PENDING", "QUEUED"} /\ job[d] = "none" /\ status[d] = "queued"
          /\ bound[d] = epoch /\ d.item \in Item /\ d.item \notin LostItems /\ (Pending(d.item) => d.item \in Adopted)
      BY <1>1, AllWaiting
    <3>2. status'[d] = "queued"
      BY <1>1, <3>1
    <3>3. CASE job' = job /\ Adopted = {} /\ \A p \in Item : item'[p] # item[p] => p \in LostItems \/ item[p] \in {"PENDING", "STARTED"}
      <4>1. item[d.item] = "QUEUED" /\ item'[d.item] = item[d.item]
        BY <3>1, <3>3 DEF Pending
      <4> QED
        BY <3>1, <3>2, <3>3, <4>1 DEF Waits
    <3>4. CASE /\ pc' = "sweep" /\ item'[d.item] = "SKIPPED" /\ job'[d] = "pending"
      <4>1. ~Clean'
        BY <1>1, <3>4 DEF Clean, Pushing
      <4> QED
        BY <1>1, <3>1, <3>4, <4>1 DEF Condemned, EngineSame
    <3> QED
      BY <1>2, <3>1, <3>3, <3>4
  <2>5. Aborted'
    <3> SUFFICES ASSUME exec' = "ABORTED"
                 PROVE  abort /\ \A p \in Item : item'[p] \notin {"PENDING", "QUEUED"}
      BY <1>1, <1>5 DEF Aborted
    <3>1. CASE exec = "ABORTED"
      BY <1>6, <3>1 DEF OrderInv, LinkInv, Aborted
    <3> QED
      BY <1>1, <3>1
  <2> QED
    BY <2>1, <2>2, <2>3, <2>4, <2>5 DEF LinkInv
<1> QED
  BY <1>8, <1>9, <1>10 DEF OrderInv

LEMMA OrderAdopt ==
  ASSUME StoryInv, OrderInv, Adopt
  PROVE  OrderInv'
<1>0. TypeOK /\ RowType
  BY TypeParts DEF StoryInv
<1>1. /\ pc = "act" /\ exec' = "QUEUED" /\ EngineSame
      /\ \A p \in Item : item'[p] = IF p \in Adopted THEN "QUEUED" ELSE item[p]
      /\ UNCHANGED <<status, bound, job, try, linked, abort, seen, missing, pc, block, batch>>
  BY <1>0, AdoptEffect
<1>2. /\ Queued' = Queued /\ Heard' = Heard /\ Begun' = Begun /\ Ahead' = Ahead /\ Live' = Live
      /\ InOrder' /\ Lined' /\ Batch' = Batch
  BY <1>1, EngineStays DEF OrderInv, QueueInv, Batch, Elements
<1>3. /\ Queued \subseteq Decision /\ Begun \subseteq Decision /\ Ahead \subseteq Item
      /\ \A p \in Item : Has(p) => Dec(p) \in Decision
  BY <1>0, InSets, Owned
<1>4. pc' \notin Pushing /\ Batch = {}
  <2>1. BatchOK
    BY DEF StoryInv, RowsInv
  <2> QED
    BY <1>1, <2>1, BatchEmpty DEF Pushing
<1>5. \A p \in Item : /\ item'[p] = "PENDING" => item[p] = "PENDING" /\ p \notin Adopted
                      /\ p \in Adopted => item[p] = "PENDING" /\ Has(p) /\ status[Dec(p)] = "queued"
  BY <1>1 DEF Adopted, With, StatusOf
<1>6. \A p \in Ahead : item'[p] # "PENDING"
  <2> SUFFICES ASSUME NEW p \in Ahead, item'[p] = "PENDING" PROVE FALSE
    OBVIOUS
  <2>1. p \in Item /\ Pending(p) /\ p \notin Adopted
    BY <1>3, <1>5 DEF Pending
  <2>2. CASE p \in Heard
    BY <1>1, <2>1, <2>2 DEF OrderInv, StateInv, Own, Phase, Adopting, Adopted, With, StatusOf, Pending
  <2>3. ASSUME NEW d \in Queued, d.item = p PROVE FALSE
    <3>1. Owns(d) /\ status[d] = "queued" /\ d \in Decision
      BY <1>1, <1>3, <2>1, <2>3 DEF OrderInv, StateInv, Own, Phase, Judged
    <3>2. Has(p) /\ Dec(p) = d
      BY <1>0, <2>3, <3>1, Owned
    <3> QED
      BY <2>1, <3>1, <3>2 DEF Adopted, With, StatusOf, Pending
  <2> QED
    BY <2>2, <2>3 DEF Ahead
<1>7. QueueInv'
  <2>1. AtPush' /\ BatchFirst'
    BY <1>4, NotAtPush
  <2>2. Onward'
    <3> SUFFICES ASSUME NEW p \in Item, NEW q \in Item, item'[p] = "PENDING", q \in Ahead
                 PROVE  q < p
      BY <1>2 DEF Onward, Pending
    <3>1. item[p] = "PENDING" /\ p \notin Ahead
      BY <1>5, <1>6
    <3> QED
      BY <3>1 DEF OrderInv, QueueInv, Onward, Pending
  <2> QED
    BY <1>2, <2>1, <2>2 DEF QueueInv
<1>8. StateInv'
  <2>1. Own' /\ Phase' /\ Uniform'
    BY <1>2, <1>4, <1>6, NothingLeft
  <2>2. Bounded'
    BY <1>1, <1>2 DEF OrderInv, StateInv, Bounded, EngineSame
  <2>3. Miss' /\ Seen'
    BY <1>1, <1>2 DEF OrderInv, StateInv, Miss, Seen, Pushing
  <2> QED
    BY <2>1, <2>2, <2>3 DEF StateInv
<1>9. LinkInv'
  <2>1. Certain' /\ NoJob'
    BY <1>1, <1>5 DEF OrderInv, LinkInv, Certain, NoJob, Pending, Has, Dec
  <2>2. Unbegun' /\ Aborted'
    BY <1>1 DEF Unbegun, Aborted
  <2>3. Accounted'
    <3> SUFFICES ASSUME linked, NEW d \in Queued
                 PROVE  Owns(d) /\ Waits(d)'
      BY <1>1, <1>2 DEF Accounted, Owns
    <3>1. /\ Owns(d) /\ d \in Decision /\ item[d.item] \in {"PENDING", "QUEUED"} /\ job[d] = "none" /\ status[d] = "queued"
          /\ d.item \in Item
      BY <1>1, AllWaiting
    <3> QED
      BY <1>1, <3>1 DEF Waits
  <2> QED
    BY <2>1, <2>2, <2>3 DEF LinkInv
<1> QED
  BY <1>7, <1>8, <1>9 DEF OrderInv

(* A sequence is staged into an empty queue, and nothing of it was heard.  *)
LEMMA WholeIsNew ==
  ASSUME StoryInv, OrderInv, pc = "act", Adopted = {}, Whole
  PROVE  /\ linked /\ exec = "PENDING" /\ Ahead = {} /\ Queued = {} /\ Heard = {} /\ Begun = {} /\ queue = <<>>
         /\ \A p \in Item : item[p] \in {"PENDING", "FAILED"}
<1>0. TypeOK
  BY DEF StoryInv
<1>1. linked /\ exec = "PENDING"
  BY DEF Whole
<1>2. \A p \in Item : item[p] \in {"PENDING", "FAILED"} /\ (p \in Ahead => Pending(p))
  BY <1>1 DEF OrderInv, LinkInv, Unbegun
<1>3. Ahead = {}
  BY <1>0, <1>2, NothingAhead, InSets
<1>4. Queued = {} /\ Heard = {} /\ Begun = {}
  BY <1>3 DEF Ahead, StoryInv, LogNow
<1>5. queue = <<>>
  BY <1>0, <1>4, TypeParts, NoneIsEmpty DEF EngineType, Queued
<1> QED
  BY <1>1, <1>2, <1>3, <1>4, <1>5

(* The decisions drawn for pending items have no job.                      *)
LEMMA DrawnHasNoJob ==
  ASSUME StoryInv, OrderInv, linked, NEW S, Drawn(S)
  PROVE  /\ \A p \in S : job[Fresh(p)] = "none"
         /\ \A p \in Item : Pending(p) /\ Has(p)' => job[Dec(p)'] = "none"
<1>0. TypeOK /\ RowType
  BY TypeParts DEF StoryInv
<1>1. \A p \in Item : /\ Fresh(p) \in Decision /\ Fresh(p).item = p
                      /\ Has(p) => Fresh(p) = Dec(p)
                      /\ (~Has(p) => Fresh(p).try > try[p])
                      /\ p \in S => item[p] = "PENDING" /\ try'[p] = Fresh(p).try
                      /\ p \notin S => try'[p] = try[p]
  BY <1>0, FreshOf, DrawnType
<1>2. \A p \in S : p \in Item
  BY DEF Drawn, With
<1>3. \A p \in S : job[Fresh(p)] = "none"
  <2> SUFFICES ASSUME NEW p \in S PROVE job[Fresh(p)] = "none"
    OBVIOUS
  <2>1. CASE Has(p)
    BY <1>1, <1>2, <2>1 DEF OrderInv, LinkInv, NoJob, Pending
  <2>2. CASE ~Has(p)
    BY <1>1, <1>2, <2>2 DEF StoryInv, RowsInv, Made
  <2> QED
    BY <2>1, <2>2
<1>4. \A p \in Item : Pending(p) /\ Has(p)' => job[Dec(p)'] = "none"
  <2> SUFFICES ASSUME NEW p \in Item, Pending(p), Has(p)' PROVE job[Dec(p)'] = "none"
    OBVIOUS
  <2>1. CASE p \in S
    <3>1. Fresh(p) = [item |-> p, try |-> Fresh(p).try]
      BY DEF Fresh
    <3>2. Dec(p)' = Fresh(p)
      BY <1>1, <2>1, <3>1 DEF Dec
    <3> QED
      BY <1>3, <2>1, <3>2
  <2>2. CASE p \notin S
    <3>1. Has(p)' = Has(p) /\ Dec(p)' = Dec(p)
      BY <1>1, <2>2 DEF Has, Dec
    <3> QED
      BY <3>1 DEF OrderInv, LinkInv, NoJob
  <2> QED
    BY <2>1, <2>2
<1> QED
  BY <1>3, <1>4

LEMMA OrderStage ==
  ASSUME StoryInv, OrderInv, NEW bad, Stage(bad)
  PROVE  OrderInv'
<1>0. TypeOK /\ RowType
  BY TypeParts DEF StoryInv
<1> DEFINE S == With("PENDING") \ bad
<1>1. /\ pc = "act" /\ ~abort /\ Adopted = {} /\ Whole /\ pc' = "push"
      /\ Drawn(S)
      /\ Sorted(batch', Before) /\ Elements(batch') = {Fresh(p) : p \in S}
      /\ \A p \in Item : item'[p] = IF p \in bad THEN "FAILED" ELSE item[p]
      /\ \A p \in bad : item[p] = "PENDING"
      /\ UNCHANGED <<exec, abort, linked, bound, job, block, seen, missing>> /\ EngineSame
  BY <1>0, StageEffect
<1>2. \A p \in Item : item[p] = "PENDING" /\ p \notin bad => p \in S
  BY DEF With
<1>3. S # {}
  <2>1. Playable(bad) \in Seq(Item) /\ Elements(Playable(bad)) = S
    BY PlayableIs
  <2>2. Playable(bad) # <<>>
    BY DEF Stage
  <2> QED
    BY <2>1, <2>2, NoneIsEmpty
<1>4. \A p \in S : p \in Item
  BY DEF With
<1> HIDE DEF S
<1>5. /\ linked /\ exec = "PENDING" /\ Ahead = {} /\ Queued = {} /\ Heard = {} /\ Begun = {} /\ queue = <<>>
      /\ \A p \in Item : item[p] \in {"PENDING", "FAILED"}
  BY <1>1, WholeIsNew
<1>6. /\ Queued' = {} /\ Heard' = {} /\ Begun' = {} /\ Ahead' = {} /\ Live' = Live
      /\ InOrder' /\ Lined'
  BY <1>1, <1>5, EngineStays DEF OrderInv, QueueInv
<1>7. Batch' = {Fresh(p) : p \in S}
  BY <1>1 DEF Batch, Elements
<1>8. \A p \in S : Fresh(p).item = p /\ Fresh(p) \in Decision
  BY <1>0, <1>4, FreshOf
<1>9. \A p \in S : p \in BatchItems'
  BY <1>1, <1>8 DEF BatchItems, Elements
<1>10. /\ \A p \in S : job[Fresh(p)] = "none"
       /\ \A p \in Item : Pending(p) /\ Has(p)' => job[Dec(p)'] = "none"
  BY <1>1, <1>5, DrawnHasNoJob
<1>11. QueueInv'
  <2>1. AtPush'
    <3>1. Batch' # {}
      BY <1>3, <1>7
    <3>2. queue' = <<>>
      BY <1>1, <1>5 DEF EngineSame
    <3> QED
      BY <1>1, <1>6, <3>1, <3>2 DEF AtPush, Sorted
  <2>2. BatchFirst'
    BY <1>1, <1>2, <1>9 DEF BatchFirst, Pending
  <2>3. Onward'
    BY <1>6 DEF Onward
  <2> QED
    BY <1>6, <2>1, <2>2, <2>3 DEF QueueInv
<1>12. StateInv'
  <2>1. Own' /\ Bounded' /\ Phase' /\ Seen'
    BY <1>1, <1>6 DEF Own, Bounded, Phase, Seen
  <2>2. Miss'
    <3>1. \A d \in Decision : status[d] = "queued" => status'[d] = "queued"
      <4> SUFFICES ASSUME NEW d \in Decision, status[d] = "queued", d.item \in S, d = Fresh(d.item) PROVE FALSE
        BY <1>0, <1>1, DrawnType
      <4>1. CASE Has(d.item)
        <5>1. Dec(d.item) = d /\ item[d.item] = "PENDING" /\ d.item \in Item
          BY <1>0, <1>1, <1>4, <4>1, FreshOf, DrawnType
        <5> QED
          BY <1>1, <4>1, <5>1 DEF Adopted, With, StatusOf
      <4>2. CASE ~Has(d.item)
        <5>1. d.try > try[d.item]
          BY <1>0, <1>4, <4>2, FreshOf
        <5> QED
          BY <5>1 DEF StoryInv, RowsInv, Made
      <4> QED
        BY <4>1, <4>2
    <3> QED
      BY <1>1, <1>6, <3>1 DEF OrderInv, StateInv, Miss
  <2>3. Uniform'
    <3>1. \A d \in Batch' : job'[d] = "none"
      BY <1>1, <1>7, <1>10
    <3> QED
      BY <1>6, <3>1 DEF Uniform
  <2> QED
    BY <2>1, <2>2, <2>3 DEF StateInv
<1>13. LinkInv'
  <2>1. Certain'
    BY <1>1 DEF OrderInv, LinkInv, Certain
  <2>2. NoJob'
    BY <1>1, <1>10 DEF NoJob, Pending
  <2>3. Unbegun'
    BY <1>1, <1>5, <1>6 DEF Unbegun
  <2>4. Accounted' /\ Aborted'
    BY <1>1, <1>5, <1>6 DEF Accounted, Aborted
  <2> QED
    BY <2>1, <2>2, <2>3, <2>4 DEF LinkInv
<1> QED
  BY <1>11, <1>12, <1>13 DEF OrderInv

LEMMA OrderStageFails ==
  ASSUME StoryInv, OrderInv, NEW bad, StageFails(bad)
  PROVE  OrderInv'
<1>0. TypeOK /\ RowType
  BY TypeParts DEF StoryInv
<1>1. /\ pc = "act" /\ Adopted = {} /\ Whole /\ pc' = "collect" /\ ~block' /\ exec' = "FAILED"
      /\ \A p \in Item : item'[p] = IF p \in bad THEN "FAILED" ELSE item[p]
      /\ UNCHANGED <<abort, linked, bound, job, seen, missing, batch>> /\ EngineSame
  BY <1>0, StageFailsEffect
<1>2. PICK S : Drawn(S) /\ S \cap bad = {}
  BY <1>0, StageFailsEffect
<1>3. linked /\ Queued = {} /\ Heard = {} /\ Begun = {} /\ Ahead = {}
  BY <1>1, WholeIsNew
<1>4. /\ Queued' = {} /\ Heard' = {} /\ Begun' = {} /\ Ahead' = {} /\ Live' = Live
      /\ InOrder' /\ Lined'
  BY <1>1, <1>3, EngineStays DEF OrderInv, QueueInv
<1>5. pc' \notin Pushing /\ Batch' = {}
  <2>1. BatchOK
    BY DEF StoryInv, RowsInv
  <2>2. Batch' = Batch
    BY <1>1 DEF Batch, Elements
  <2> QED
    BY <1>1, <2>1, <2>2, BatchEmpty DEF Pushing
<1>6. QueueInv'
  BY <1>4, <1>5, NotAtPush DEF QueueInv, Onward
<1>7. StateInv'
  <2>1. Own' /\ Bounded' /\ Phase' /\ Seen' /\ Uniform'
    BY <1>1, <1>4, <1>5 DEF Own, Bounded, Phase, Seen, Uniform
  <2>2. Miss'
    BY <1>1, <1>4, <1>5 DEF OrderInv, StateInv, Miss
  <2> QED
    BY <2>1, <2>2 DEF StateInv
<1>8. LinkInv'
  <2>1. Certain'
    BY <1>1 DEF OrderInv, LinkInv, Certain
  <2>2. NoJob'
    BY <1>1, <1>2, <1>3, DrawnHasNoJob DEF NoJob, Pending
  <2>3. Unbegun' /\ Accounted' /\ Aborted'
    BY <1>1, <1>4 DEF Unbegun, Accounted, Aborted
  <2> QED
    BY <2>1, <2>2, <2>3 DEF LinkInv
<1> QED
  BY <1>6, <1>7, <1>8 DEF OrderInv

(* The next item comes after all that was handed over, and of a timed      *)
(* execution nothing else waits.                                           *)
LEMMA OrderPrepare ==
  ASSUME StoryInv, OrderInv, PrepareNext
  PROVE  OrderInv'
<1>0. TypeOK /\ RowType
  BY TypeParts DEF StoryInv
<1>1. /\ pc = "act" /\ ~abort /\ Adopted = {} /\ ~Whole /\ pc' = "push one"
      /\ \A p \in Item : item[p] = "QUEUED" => p \in LostItems
      /\ \A p \in Item : item'[p] = IF p \in LostItems THEN "FAILED" ELSE item[p]
      /\ UNCHANGED <<exec, abort, linked, bound, job, block, seen, missing>> /\ EngineSame
  BY <1>0, PrepareEffect
<1>2. PICK d \in Decision :
              /\ item[d.item] = "PENDING" /\ \A p \in Item : item[p] = "PENDING" => d.item <= p
              /\ batch' = <<d>> /\ status' = [status EXCEPT ![d] = "submitting"]
              /\ d.try > try[d.item] /\ try' = [try EXCEPT ![d.item] = d.try]
  BY <1>0, PrepareEffect
<1>3. d.item \in Item /\ d.item \in Nat /\ Item \subseteq Nat /\ d = [item |-> d.item, try |-> d.try]
  BY <1>0, InSets DEF Decision
<1>4. /\ status'[d] = "submitting" /\ \A e \in Decision : e # d => status'[e] = status[e]
      /\ try'[d.item] = d.try /\ \A p \in Item : p # d.item => try'[p] = try[p]
      /\ status[d] = "none" /\ job[d] = "none"
  BY <1>0, <1>2, <1>3 DEF RowType, StoryInv, RowsInv, Made
<1>5. /\ Queued' = Queued /\ Heard' = Heard /\ Begun' = Begun /\ Ahead' = Ahead /\ Live' = Live
      /\ InOrder' /\ Lined'
  BY <1>1, EngineStays DEF OrderInv, QueueInv
<1>6. Batch' = {d} /\ BatchItems' = {d.item} /\ Sorted(batch', Before)
  <2>1. Elements(<<d>>) = {d} /\ Sorted(<<d>>, Before)
    BY Alone
  <2> QED
    BY <1>2, <2>1 DEF Batch, BatchItems, Elements, Sorted
<1>7. \A p \in Item : item'[p] = "PENDING" <=> item[p] = "PENDING"
  BY <1>1 DEF LostItems, With
<1>8. \A p \in Ahead : item[p] # "PENDING" /\ p \in Item
  BY <1>0, <1>1, NothingAhead, InSets DEF Pending
<1>9. linked => Queued = {} /\ queue = <<>>
  <2>1. ASSUME linked, NEW e \in Queued PROVE FALSE
    <3>1. item[e.item] \in {"PENDING", "QUEUED"} /\ e.item \notin LostItems /\ e.item \in Item
      BY <1>1, <2>1, AllWaiting
    <3>2. e.item \in Ahead
      BY <2>1 DEF Ahead
    <3> QED
      BY <1>1, <1>8, <3>1, <3>2
  <2>2. Queued = {} => queue = <<>>
    BY <1>0, TypeParts, NoneIsEmpty DEF EngineType, Queued
  <2> QED
    BY <2>1, <2>2
<1>10. QueueInv'
  <2>1. AtPush'
    <3>1. \A p \in Ahead : p < d.item
      BY <1>2, <1>3, <1>8 DEF OrderInv, QueueInv, Onward, Pending
    <3> QED
      BY <1>1, <1>5, <1>6, <1>9, <3>1 DEF AtPush, EngineSame, Sorted
  <2>2. BatchFirst'
    <3>1. \A p \in Item : item'[p] = "PENDING" => p = d.item \/ d.item < p
      BY <1>2, <1>3, <1>7
    <3> QED
      BY <1>6, <3>1 DEF BatchFirst, Pending
  <2>3. Onward'
    BY <1>5, <1>7, <1>8 DEF OrderInv, QueueInv, Onward, Pending
  <2> QED
    BY <1>5, <2>1, <2>2, <2>3 DEF QueueInv
<1>11. StateInv'
  <2>1. Own' /\ Phase'
    BY <1>1, <1>5, <1>7, <1>8 DEF Own, Phase, Pending, Ahead
  <2>2. Bounded'
    <3>1. \A e \in Queued \cup Begun : status'[e] = "queued" => bound[e] = epoch
      <4>1. Queued \subseteq Decision /\ Begun \subseteq Decision
        BY <1>0, InSets
      <4> QED
        BY <1>4, <4>1 DEF OrderInv, StateInv, Bounded
    <3> QED
      BY <1>1, <1>5, <3>1 DEF Bounded, EngineSame
  <2>3. Miss' /\ Seen'
    BY <1>1, <1>4, <1>5 DEF OrderInv, StateInv, Miss, Seen
  <2>4. Uniform'
    <3>1. \A e \in Queued : item'[e.item] # "PENDING"
      BY <1>7, <1>8 DEF Ahead
    <3>2. \A e \in Queued' \cup Batch' : item'[e.item] = "PENDING" => e = d
      BY <1>5, <1>6, <3>1
    <3>3. job'[d] = "none"
      BY <1>1, <1>4
    <3> QED
      BY <3>2, <3>3 DEF Uniform, Pending
  <2> QED
    BY <2>1, <2>2, <2>3, <2>4 DEF StateInv
<1>12. LinkInv'
  <2>1. Certain'
    BY <1>1 DEF OrderInv, LinkInv, Certain
  <2>2. NoJob'
    <3> SUFFICES ASSUME linked, NEW p \in Item, item[p] = "PENDING", Has(p)' PROVE job[Dec(p)'] = "none"
      BY <1>1, <1>7 DEF NoJob, Pending
    <3>1. CASE p = d.item
      <4>1. Dec(p)' = d
        BY <1>3, <1>4, <3>1 DEF Dec
      <4> QED
        BY <1>4, <4>1
    <3>2. CASE p # d.item
      <4>1. Has(p)' = Has(p) /\ Dec(p)' = Dec(p)
        BY <1>4, <3>2 DEF Has, Dec
      <4> QED
        BY <4>1 DEF OrderInv, LinkInv, NoJob, Pending
    <3> QED
      BY <3>1, <3>2
  <2>3. Unbegun'
    <3> SUFFICES ASSUME linked, exec = "PENDING" PROVE FALSE
      BY <1>1 DEF Unbegun
    <3>1. \A p \in Item : item[p] \in {"PENDING", "FAILED"}
      BY DEF OrderInv, LinkInv, Unbegun
    <3> QED
      BY <1>1, <3>1 DEF Whole
  <2>4. Accounted'
    BY <1>1, <1>5, <1>9 DEF Accounted
  <2>5. Aborted'
    BY <1>1 DEF OrderInv, LinkInv, Aborted
  <2> QED
    BY <2>1, <2>2, <2>3, <2>4, <2>5 DEF LinkInv
<1> QED
  BY <1>10, <1>11, <1>12 DEF OrderInv

(* A command joins the end of what was handed over, or an empty queue.     *)
LEMMA AcceptedInOrder ==
  ASSUME StoryInv, OrderInv, pc \in {"push", "push one"}, Accept, UNCHANGED <<aired, epoch>>
  PROVE  /\ Lined' /\ Queued' = Queued \cup Batch /\ Heard' = Heard /\ Ahead' = Ahead \cup BatchItems
<1>0. TypeOK /\ queue \in Seq(Decision) /\ batch \in Seq(Decision)
  BY DEF StoryInv, TypeOK
<1>1. /\ Sorted(batch, Before) /\ \A p \in Ahead, d \in Batch : p < d.item
      /\ pc = "push" \/ linked => queue = <<>>
  BY DEF OrderInv, QueueInv, AtPush
<1>2. Sorted(queue, Before) /\ InTurn
  BY DEF OrderInv, QueueInv, Lined
<1>3. \A d \in Queued, e \in Batch : <<d, e>> \in Before
  <2>1. Queued \subseteq Decision /\ Batch \subseteq Decision
    BY <1>0, InSets
  <2> QED
    BY <1>1, <2>1 DEF Ahead, Before
<1>4. Sorted(queue', Before)
  BY <1>0, <1>1, <1>2, <1>3, AcceptInOrder DEF Queued, Batch
<1>5. Queued' = Queued \cup Batch
  <2>1. Elements(queue') = Elements(queue) \cup Elements(batch)
    BY <1>0, AcceptEffect
  <2> QED
    BY <2>1 DEF Queued, Batch, Elements
<1>6. Heard' = Heard
  BY DEF Heard
<1>7. Ahead' = Ahead \cup BatchItems
  BY <1>0, <1>5, <1>6, InSets DEF Ahead
<1>8. InTurn'
  BY <1>1, <1>2, <1>5, <1>6 DEF InTurn, Ahead
<1> QED
  BY <1>4, <1>5, <1>6, <1>7, <1>8 DEF Lined, Sorted

(* What is pushed is pending, and nobody's request is missing.             *)
LEMMA PushedIs ==
  ASSUME StoryInv, OrderInv, pc \in {"push", "push one"}
  PROVE  /\ \A d \in Batch : /\ d \in Decision /\ Owns(d) /\ item[d.item] = "PENDING" /\ status[d] = "submitting"
                             /\ Has(d.item) /\ Dec(d.item) = d /\ missing[d] = "no"
         /\ BatchItems = {d.item : d \in Batch} /\ BatchItems \subseteq Item
<1>1. TypeOK /\ RowType
  BY TypeParts DEF StoryInv
<1>2. Batch \subseteq Decision /\ BatchItems = {d.item : d \in Batch} /\ \A d \in Decision : d.item \in Item
  BY <1>1, InSets
<1>3. \A d \in Batch : Owns(d) /\ item[d.item] = "PENDING" /\ status[d] = "submitting"
  BY DEF StoryInv, RowsInv, BatchOK, Pending
<1>4. \A d \in Batch : missing[d] = "no"
  BY <1>2, <1>3 DEF OrderInv, StateInv, Miss, Pushing
<1>5. \A d \in Batch : Has(d.item) /\ Dec(d.item) = d
  BY <1>1, <1>2, <1>3, Owned
<1>6. BatchItems \subseteq Item
  BY <1>2
<1> QED
  BY <1>2, <1>3, <1>4, <1>5, <1>6

LEMMA OrderSubmits ==
  ASSUME StoryInv, OrderInv, Push \/ PushOne
  PROVE  OrderInv'
<1>0. TypeOK /\ RowType
  BY TypeParts DEF StoryInv
<1>1. /\ pc' = (IF pc = "push" THEN "ack" ELSE "ack one") /\ pc \in {"push", "push one"} /\ Accept
      /\ UNCHANGED <<exec, abort, item, try, linked, status, bound, job, epoch, onair, log, aired, block, seen,
                     missing, batch>>
  BY <1>0, SubmitsEffect DEF rowVars, decVars
<1>2. Lined' /\ Queued' = Queued \cup Batch /\ Heard' = Heard /\ Ahead' = Ahead \cup BatchItems
  BY <1>1, AcceptedInOrder
<1>3. /\ \A d \in Batch : /\ d \in Decision /\ Owns(d) /\ item[d.item] = "PENDING" /\ status[d] = "submitting"
                          /\ Has(d.item) /\ Dec(d.item) = d /\ missing[d] = "no"
      /\ BatchItems = {d.item : d \in Batch} /\ BatchItems \subseteq Item
  BY <1>1, PushedIs
<1>4. Begun' = Begun /\ Batch' = Batch /\ BatchItems' = BatchItems /\ Live' = Live \cup Batch
  BY <1>1, <1>2 DEF Begun, Batch, BatchItems, Live, Elements, Queued
<1>5. pc' \in Pushing /\ pc \in Pushing
  BY <1>1 DEF Pushing
<1>6. QueueInv'
  <2>1. InOrder'
    BY <1>1 DEF OrderInv, QueueInv, InOrder
  <2>2. AtPush'
    BY <1>1 DEF AtPush
  <2>3. BatchFirst'
    BY <1>1, <1>4, <1>5 DEF OrderInv, QueueInv, BatchFirst, Pending
  <2>4. Onward'
    <3> SUFFICES ASSUME NEW p \in Item, NEW q \in Item, item[p] = "PENDING", q \in Ahead \/ q \in BatchItems,
                        item[q] # "PENDING" \/ (p \notin Ahead /\ p \notin BatchItems)
                 PROVE  q < p
      BY <1>1, <1>2 DEF Onward, Pending
    <3>1. CASE q \in Ahead
      BY <3>1 DEF OrderInv, QueueInv, Onward, Pending
    <3>2. CASE q \in BatchItems
      BY <1>3, <1>5, <3>2 DEF OrderInv, QueueInv, BatchFirst, Pending
    <3> QED
      BY <3>1, <3>2
  <2> QED
    BY <1>2, <2>1, <2>2, <2>3, <2>4 DEF QueueInv
<1>7. StateInv'
  <2>1. Own'
    <3>1. \A d \in Queued \cup Batch : Pending(d.item) => Owns(d) /\ status[d] \in {"submitting", "queued"}
      BY <1>3 DEF OrderInv, StateInv, Own
    <3>2. \A p \in Heard : Pending(p) => Has(p) /\ Dec(p) \in Begun /\ status[Dec(p)] # "none"
      BY DEF OrderInv, StateInv, Own
    <3> QED
      BY <1>1, <1>2, <1>4, <3>1, <3>2 DEF Own, Pending, Owns, Has, Dec
  <2>2. Bounded'
    BY <1>1, <1>2, <1>3, <1>4 DEF OrderInv, StateInv, Bounded
  <2>3. Phase' /\ Seen'
    BY <1>1 DEF Phase, Judged, Adopting, Seen
  <2>4. Miss'
    BY <1>1, <1>3, <1>4, <1>5 DEF OrderInv, StateInv, Miss
  <2>5. Uniform'
    <3>1. Queued' \cup Batch' = Queued \cup Batch
      BY <1>2, <1>4
    <3>2. \A d, e \in Queued \cup Batch : item[d.item] = "PENDING" /\ item[e.item] = "PENDING" => job[d] = job[e] /\ job[d] # "done"
      BY DEF OrderInv, StateInv, Uniform, Pending
    <3> QED
      BY <1>1, <3>1, <3>2 DEF Uniform, Pending
  <2> QED
    BY <2>1, <2>2, <2>3, <2>4, <2>5 DEF StateInv
<1>8. LinkInv'
  <2>1. Certain' /\ NoJob'
    BY <1>1 DEF OrderInv, LinkInv, Certain, NoJob, Pending, Has, Dec
  <2>2. Unbegun'
    <3> SUFFICES ASSUME linked, exec = "PENDING"
                 PROVE  /\ pc' \notin {"push one", "ack one"}
                        /\ \A p \in Item : item[p] \in {"PENDING", "FAILED"} /\ (p \in Ahead' => item[p] = "PENDING")
      BY <1>1 DEF Unbegun, Pending
    <3>1. /\ pc \notin {"push one", "ack one"}
          /\ \A p \in Item : item[p] \in {"PENDING", "FAILED"} /\ (p \in Ahead => item[p] = "PENDING")
      BY DEF OrderInv, LinkInv, Unbegun, Pending
    <3>2. pc' \notin {"push one", "ack one"}
      BY <1>1, <3>1
    <3>3. \A p \in BatchItems : item[p] = "PENDING"
      BY <1>3
    <3> QED
      BY <1>2, <3>1, <3>2, <3>3
  <2>3. Accounted'
    <3> SUFFICES ASSUME linked, NEW d \in Queued \cup Batch
                 PROVE  Owns(d) /\ (Waits(d)' \/ Condemned(d)')
      BY <1>1, <1>2 DEF Accounted, Owns
    <3>1. CASE d \in Batch
      <4>1. job[d] = "none"
        BY <1>3, <3>1 DEF OrderInv, LinkInv, NoJob, Pending
      <4> QED
        BY <1>1, <1>3, <3>1, <4>1 DEF Waits
    <3>2. CASE d \in Queued
      <4>1. Owns(d) /\ Waits(d)
        BY <1>5, <3>2 DEF OrderInv, LinkInv, Accounted, Condemned, Clean
      <4> QED
        BY <1>1, <4>1 DEF Waits
    <3> QED
      BY <3>1, <3>2
  <2>4. Aborted'
    BY <1>1, <1>5 DEF OrderInv, LinkInv, Aborted
  <2> QED
    BY <2>1, <2>2, <2>3, <2>4 DEF LinkInv
<1> QED
  BY <1>6, <1>7, <1>8 DEF OrderInv

(* A command that was refused, or was accepted and not answered: its items *)
(* are over, and what remains pending comes after them.                    *)
LEMMA OrderNotPushed ==
  ASSUME StoryInv, OrderInv, NotPushed
  PROVE  OrderInv'
<1>0. TypeOK /\ RowType
  BY TypeParts DEF StoryInv
<1>1. /\ pc \in {"push", "push one"} /\ pc' = "collect" /\ ~block' /\ batch' = <<>>
      /\ queue' = queue \/ (Accept /\ "answer" \in Faulty)
      /\ UNCHANGED <<bound, abort, try, linked, epoch, onair, log, aired, seen, missing>>
      /\ \A d \in Decision : /\ d \in Batch => status'[d] = "failed"
                             /\ d \notin Batch => \/ status'[d] = status[d]
                                                  \/ status[d] = "selected" /\ status'[d] = "failed"
      /\ \A p \in Item : /\ p \in BatchItems => item'[p] = "FAILED"
                         /\ p \notin BatchItems => \/ item'[p] = item[p]
                                                   \/ item[p] \in {"PENDING", "QUEUED"} /\ item'[p] = "SKIPPED"
      /\ exec' \in {exec, "FAILED"} /\ (pc = "push" => exec' = "FAILED")
      /\ \/ \A p \in Item : item'[p] # "PENDING"
         \/ job' = job
  BY DEF NotPushed, Refused, Fault, Batch
<1>2. /\ \A d \in Batch : /\ d \in Decision /\ Owns(d) /\ item[d.item] = "PENDING" /\ status[d] = "submitting"
                          /\ Has(d.item) /\ Dec(d.item) = d /\ missing[d] = "no"
      /\ BatchItems = {d.item : d \in Batch} /\ BatchItems \subseteq Item
  BY <1>1, PushedIs
<1>3. /\ Lined' /\ Heard' = Heard /\ Begun' = Begun /\ Queued' \subseteq Queued \cup Batch
      /\ Ahead' \subseteq Ahead \cup BatchItems /\ Live' \subseteq Live \cup Batch
  <2>1. CASE queue' = queue
    <3>1. Queued' = Queued /\ Heard' = Heard /\ Begun' = Begun /\ Live' = Live
      BY <1>1, <2>1 DEF Queued, Heard, Begun, Live, Elements
    <3>2. Ahead' = Ahead
      BY <3>1 DEF Ahead
    <3>3. Lined'
      BY <2>1, <3>1 DEF OrderInv, QueueInv, Lined, InTurn, Sorted
    <3> QED
      BY <3>1, <3>2, <3>3
  <2>2. CASE Accept
    <3>1. Lined' /\ Queued' = Queued \cup Batch /\ Heard' = Heard /\ Ahead' = Ahead \cup BatchItems
      BY <1>1, <2>2, AcceptedInOrder
    <3>2. Begun' = Begun /\ Live' \subseteq Live \cup Batch
      BY <1>1, <3>1 DEF Begun, Live, Queued, Elements
    <3> QED
      BY <3>1, <3>2
  <2> QED
    BY <1>1, <2>1, <2>2
<1>4. pc \in Pushing /\ pc' \notin Pushing /\ Batch' = {}
  BY <1>1, EmptyHasNone DEF Pushing, Batch, Elements
<1>5. /\ Batch # {} /\ \A p \in Ahead, d \in Batch : p < d.item
      /\ \A p \in Item : item[p] = "PENDING" => p \in BatchItems \/ \A d \in Batch : d.item < p
  BY <1>1, <1>4 DEF OrderInv, QueueInv, AtPush, BatchFirst, Pending
<1>6. Ahead \subseteq Nat /\ BatchItems \subseteq Nat /\ Item \subseteq Nat /\ Ahead \subseteq Item /\ Queued \subseteq Decision
      /\ Begun \subseteq Decision
  BY <1>0, <1>2, InSets
<1>7. \A p \in Item : item'[p] = "PENDING" =>
        item[p] = "PENDING" /\ p \notin BatchItems /\ \A q \in Ahead \cup BatchItems : q < p
  <2> SUFFICES ASSUME NEW p \in Item, item'[p] = "PENDING"
               PROVE  item[p] = "PENDING" /\ p \notin BatchItems /\ \A q \in Ahead \cup BatchItems : q < p
    OBVIOUS
  <2>1. item[p] = "PENDING" /\ p \notin BatchItems
    BY <1>1
  <2>2. \A d \in Batch : d.item < p
    BY <1>5, <2>1
  <2>3. PICK d \in Batch : TRUE
    BY <1>5
  <2>4. d.item \in Nat /\ d.item < p
    BY <1>2, <1>6, <2>2, <2>3
  <2>5. \A q \in Ahead : q < d.item
    BY <1>5, <2>3
  <2>6. \A q \in Ahead : q < p
    BY <1>6, <2>4, <2>5
  <2> QED
    BY <1>2, <2>1, <2>2, <2>6
<1>8. \A p \in Ahead' : item'[p] # "PENDING"
  <2> SUFFICES ASSUME NEW p \in Ahead', item'[p] = "PENDING" PROVE FALSE
    OBVIOUS
  <2>1. p \in Ahead \cup BatchItems /\ p \in Nat /\ p \in Item
    BY <1>2, <1>3, <1>6
  <2>2. p < p
    BY <1>7, <2>1
  <2> QED
    BY <2>1, <2>2
<1>9. QueueInv'
  <2>1. InOrder'
    BY <1>1 DEF OrderInv, QueueInv, InOrder
  <2>2. AtPush' /\ BatchFirst'
    BY <1>4, NotAtPush
  <2>3. Onward'
    BY <1>3, <1>7 DEF Onward, Pending
  <2> QED
    BY <1>3, <2>1, <2>2, <2>3 DEF QueueInv
<1>10. StateInv'
  <2>1. Own' /\ Phase' /\ Uniform'
    BY <1>4, <1>8, NothingLeft
  <2>2. Bounded'
    <3>1. \A d \in Queued' \cup Begun : status'[d] = "queued" => bound[d] = epoch
      <4> SUFFICES ASSUME NEW d \in Queued' \cup Begun, status'[d] = "queued" PROVE bound[d] = epoch
        OBVIOUS
      <4>1. d \in Decision
        BY <1>2, <1>3, <1>6
      <4>2. d \notin Batch /\ status[d] = "queued"
        BY <1>1, <4>1
      <4> QED
        BY <1>3, <4>2 DEF OrderInv, StateInv, Bounded
    <3> QED
      BY <1>1, <1>3, <3>1 DEF Bounded
  <2>3. Miss' /\ Seen'
    BY <1>1, <1>2, <1>3, <1>4 DEF OrderInv, StateInv, Miss, Seen
  <2> QED
    BY <2>1, <2>2, <2>3 DEF StateInv
<1>11. LinkInv'
  <2>1. Certain'
    BY <1>1 DEF OrderInv, LinkInv, Certain
  <2>2. NoJob'
    <3> SUFFICES ASSUME linked, NEW p \in Item, item'[p] = "PENDING", Has(p) PROVE job'[Dec(p)] = "none"
      BY <1>1 DEF NoJob, Pending, Has, Dec
    <3>1. item[p] = "PENDING" /\ job' = job
      BY <1>1, <1>7
    <3> QED
      BY <3>1 DEF OrderInv, LinkInv, NoJob, Pending
  <2>3. Unbegun'
    <3> SUFFICES ASSUME linked, exec' = "PENDING" PROVE FALSE
      BY <1>1 DEF Unbegun
    <3>1. exec = "PENDING" /\ pc = "push one"
      BY <1>1
    <3> QED
      BY <3>1 DEF OrderInv, LinkInv, Unbegun
  <2>4. Accounted'
    <3>1. linked => queue' = queue /\ queue = <<>>
      BY <1>1 DEF OrderInv, LinkInv, QueueInv, Certain, AtPush
    <3>2. linked => Queued' = {}
      BY <3>1, EmptyHasNone DEF Queued, Elements
    <3> QED
      BY <1>1, <3>2 DEF Accounted
  <2>5. Aborted'
    BY <1>1, <1>4 DEF OrderInv, LinkInv, Aborted
  <2> QED
    BY <2>1, <2>2, <2>3, <2>4, <2>5 DEF LinkInv
<1> QED
  BY <1>9, <1>10, <1>11 DEF OrderInv

LEMMA OrderAcknowledged ==
  ASSUME StoryInv, OrderInv, Acknowledged
  PROVE  OrderInv'
<1>0. TypeOK /\ RowType
  BY TypeParts DEF StoryInv
<1>1. /\ pc \in {"ack", "ack one"} /\ pc' = "collect" /\ ~block' /\ batch' = <<>>
      /\ UNCHANGED <<job, abort, try, linked, seen, missing>> /\ EngineSame
      /\ \A d \in Decision : /\ d \in Batch => status'[d] = "queued" /\ bound'[d] = epoch
                             /\ d \notin Batch => status'[d] = status[d] /\ bound'[d] = bound[d]
      /\ \A p \in Item : item'[p] = IF p \in BatchItems THEN "QUEUED" ELSE item[p]
      /\ exec' \in {exec, "QUEUED"} /\ exec' # "PENDING"
  BY DEF Acknowledged, Batch
<1>2. /\ Queued' = Queued /\ Heard' = Heard /\ Begun' = Begun /\ Ahead' = Ahead /\ Live' = Live
      /\ InOrder' /\ Lined' /\ Batch' = {}
  BY <1>1, EngineStays, EmptyHasNone DEF OrderInv, QueueInv, Batch, Elements
<1>3. pc \in Pushing /\ pc' \notin Pushing
  BY <1>1 DEF Pushing
<1>4. /\ Queued \subseteq Decision /\ Begun \subseteq Decision /\ Heard \subseteq Item /\ Batch \subseteq Decision
      /\ BatchItems = {d.item : d \in Batch} /\ \A d \in Decision : d.item \in Item
      /\ \A p \in Item : Has(p) => Dec(p) \in Decision
  BY <1>0, InSets, Owned
<1>5. \A p \in Item : item'[p] = "PENDING" => item[p] = "PENDING" /\ p \notin BatchItems /\ \A d \in Batch : d.item < p
  BY <1>1, <1>3 DEF OrderInv, QueueInv, BatchFirst, Pending
<1>6. QueueInv'
  <2>1. AtPush' /\ BatchFirst'
    BY <1>3, NotAtPush
  <2>2. Onward'
    <3> SUFFICES ASSUME NEW p \in Item, NEW q \in Item, item'[p] = "PENDING", q \in Ahead,
                        item'[q] # "PENDING" \/ p \notin Ahead
                 PROVE  q < p
      BY <1>2 DEF Onward, Pending
    <3>1. CASE item[q] # "PENDING" \/ p \notin Ahead
      BY <1>5, <3>1 DEF OrderInv, QueueInv, Onward, Pending
    <3>2. CASE item[q] = "PENDING" /\ item'[q] # "PENDING"
      <4>1. q \in BatchItems
        BY <1>1, <3>2
      <4> QED
        BY <1>4, <1>5, <4>1
    <3> QED
      BY <3>1, <3>2
  <2> QED
    BY <1>2, <2>1, <2>2 DEF QueueInv
<1>7. StateInv'
  <2>1. \A d \in Queued : item'[d.item] = "PENDING" => item[d.item] = "PENDING" /\ d \notin Batch
    BY <1>4, <1>5
  <2>2. Own'
    <3>1. \A d \in Queued : item'[d.item] = "PENDING" => Owns(d) /\ status'[d] \in {"submitting", "queued"}
      BY <1>1, <1>4, <2>1 DEF OrderInv, StateInv, Own, Pending
    <3>2. \A p \in Heard : item'[p] = "PENDING" => Has(p) /\ Dec(p) \in Begun /\ status'[Dec(p)] # "none"
      BY <1>1, <1>4, <1>5 DEF OrderInv, StateInv, Own, Pending
    <3> QED
      BY <1>1, <1>2, <3>1, <3>2 DEF Own, Pending, Owns, Has, Dec
  <2>3. Bounded'
    <3>1. \A d \in Queued \cup Begun : status'[d] = "queued" => bound'[d] = epoch
      BY <1>1, <1>4 DEF OrderInv, StateInv, Bounded
    <3> QED
      BY <1>1, <1>2, <3>1 DEF Bounded, EngineSame
  <2>4. Phase' /\ Seen'
    BY <1>1 DEF Phase, Judged, Adopting, Seen
  <2>5. Miss'
    BY <1>1, <1>2, <1>3 DEF OrderInv, StateInv, Miss
  <2>6. Uniform'
    <3>1. Queued' \cup Batch' = Queued
      BY <1>2
    <3>2. \A d, e \in Queued : item[d.item] = "PENDING" /\ item[e.item] = "PENDING" => job[d] = job[e] /\ job[d] # "done"
      BY DEF OrderInv, StateInv, Uniform, Pending
    <3>3. \A d, e \in Queued : item'[d.item] = "PENDING" /\ item'[e.item] = "PENDING" => job[d] = job[e] /\ job[d] # "done"
      BY <2>1, <3>2
    <3> QED
      BY <1>1, <3>1, <3>3 DEF Uniform, Pending
  <2> QED
    BY <2>2, <2>3, <2>4, <2>5, <2>6 DEF StateInv
<1>8. LinkInv'
  <2>1. Certain'
    BY <1>1 DEF OrderInv, LinkInv, Certain
  <2>2. NoJob'
    BY <1>1, <1>5 DEF OrderInv, LinkInv, NoJob, Pending, Has, Dec
  <2>3. Unbegun'
    BY <1>1 DEF Unbegun
  <2>4. Accounted'
    <3> SUFFICES ASSUME linked, NEW d \in Queued
                 PROVE  Owns(d) /\ Waits(d)'
      BY <1>1, <1>2 DEF Accounted, Owns
    <3>1. Owns(d) /\ Waits(d) /\ d \in Decision /\ d.item \in Item
      BY <1>3, <1>4 DEF OrderInv, LinkInv, Accounted, Condemned, Clean
    <3>2. d.item \in BatchItems => d \in Batch
      <4> SUFFICES ASSUME NEW b \in Batch, b.item = d.item PROVE b = d
        BY <1>4
      <4>1. Owns(b) /\ b \in Decision
        BY <1>4 DEF StoryInv, RowsInv, BatchOK
      <4> QED
        BY <1>0, <3>1, <4>1, Owned
    <3>3. d \in Batch => d.item \in BatchItems
      BY <1>4
    <3> QED
      BY <1>1, <3>1, <3>2, <3>3 DEF Waits
  <2>5. Aborted'
    BY <1>1, <1>3 DEF OrderInv, LinkInv, Aborted
  <2> QED
    BY <2>1, <2>2, <2>3, <2>4, <2>5 DEF LinkInv
<1> QED
  BY <1>6, <1>7, <1>8 DEF OrderInv

LEMMA OrderStep == StoryInv /\ OrderInv /\ [Next]_vars => OrderInv'
<1> SUFFICES ASSUME StoryInv, OrderInv, [Next]_vars PROVE OrderInv'
  OBVIOUS
<1>0. TypeOK /\ RowType /\ EngineType
  BY TypeParts DEF StoryInv
<1>1. CASE UNCHANGED vars
  <2>1. /\ UNCHANGED <<exec, abort, item, try, linked, status, bound, job, epoch, queue, onair, log, aired>>
        /\ UNCHANGED <<pc, block, seen, missing, batch>>
    BY <1>1 DEF vars, rowVars, decVars, engineVars, memVars
  <2>2. EngineSame
    BY <2>1 DEF EngineSame
  <2> QED
    BY <2>1, <2>2, EngineStays, OrderIdle
<1>2. CASE RequestAbort
  <2>1. /\ UNCHANGED <<exec, item, try, linked, status, bound, job, epoch, queue, onair, log, aired>>
        /\ UNCHANGED <<pc, block, seen, missing, batch>> /\ abort'
    BY <1>2 DEF RequestAbort, decVars, engineVars, memVars
  <2>2. EngineSame
    BY <2>1 DEF EngineSame
  <2> QED
    BY <2>1, <2>2, EngineStays, OrderIdle
<1>3. CASE CancelOccurrence
  BY <1>3, OrderCancel
<1>4. CASE Starts
  BY <1>4, OrderStarts
<1>5. ASSUME NEW written \in BOOLEAN, Ends(written) PROVE OrderInv'
  <2>1. /\ UNCHANGED <<exec, abort, item, try, linked, status, bound, job, epoch, queue, aired>>
        /\ UNCHANGED <<pc, block, seen, missing, batch>> /\ onair' = Silence
        /\ \A d : Line("START", d) \in Elements(log') <=> Line("START", d) \in Elements(log)
    BY <1>0, <1>5, EndsEffect DEF rowVars, decVars, memVars
  <2>2. Begun' = Begun
    BY <2>1 DEF Begun, Elements
  <2>3. Live' \subseteq Live
    <3>1. Silence \notin Decision
      BY SequenceAssumption DEF Silence, Decision, Item
    <3> QED
      BY <2>1, <3>1 DEF Live, Elements
  <2> QED
    BY <2>1, <2>2, <2>3, OrderIdle
<1>6. CASE EngineRestart
  BY <1>6, OrderRestart
<1>7. ASSUME NEW d \in Decision, WindowCloses(d) \/ LengthPasses(d) PROVE OrderInv'
  <2>1. /\ UNCHANGED <<exec, abort, item, try, linked, status, bound, job, epoch, queue, onair, log, aired>>
        /\ UNCHANGED <<pc, block, seen, batch>>
        /\ \A e \in Decision : missing'[e] # "no" => missing[e] # "no"
    BY <1>0, <1>7 DEF WindowCloses, LengthPasses, rowVars, decVars, engineVars, TypeOK
  <2>2. EngineSame
    BY <2>1 DEF EngineSame
  <2> QED
    BY <2>1, <2>2, EngineStays, OrderIdle
<1>8. CASE Collect
  BY <1>8, OrderCollect
<1>9. CASE Inventory
  <2>1. /\ UNCHANGED <<exec, abort, item, try, linked, status, bound, job, epoch, queue, onair, log, aired>>
        /\ UNCHANGED <<block, missing, batch>> /\ pc = "inventory" /\ pc' = "reconcile" /\ seen' = Live
    BY <1>9 DEF Inventory, rowVars, decVars, engineVars
  <2>2. EngineSame
    BY <2>1 DEF EngineSame
  <2> QED
    BY <2>1, <2>2, EngineStays, OrderIdle
<1>10. CASE Reconcile
  BY <1>10, OrderReconcile
<1>11. CASE Resolve
  BY <1>11, OrderResolve
<1>12. CASE Sweep
  BY <1>12, OrderSweep
<1>13. CASE Settles6
  BY <1>0, <1>13, SettledEffect, OrderSettled
<1>14. CASE Adopt
  BY <1>14, OrderAdopt
<1>15. ASSUME NEW bad \in SUBSET Item, Stage(bad) PROVE OrderInv'
  BY <1>15, OrderStage
<1>16. ASSUME NEW bad \in SUBSET Item, StageFails(bad) PROVE OrderInv'
  BY <1>16, OrderStageFails
<1>17. CASE Push \/ PushOne
  BY <1>17, OrderSubmits
<1>18. CASE PushFails \/ PushOneFails
  BY <1>0, <1>18, PushFailsEffect, PushOneFailsEffect, OrderNotPushed
<1>19. CASE Ack \/ AckOne
  BY <1>0, <1>19, AckEffect, OrderAcknowledged DEF EngineType
<1>20. CASE PrepareNext
  BY <1>20, OrderPrepare
<1>21. CASE WorkerCrash
  <2>1. /\ UNCHANGED <<exec, abort, item, try, linked, status, bound, job, epoch, queue, onair, log, aired>>
        /\ pc' = "collect" /\ block' = FALSE /\ batch' = <<>> /\ missing' = [d \in Decision |-> "no"]
    BY <1>21 DEF WorkerCrash, rowVars, decVars, engineVars
  <2>2. EngineSame
    BY <2>1 DEF EngineSame
  <2> QED
    BY <2>1, <2>2, EngineStays, OrderIdle
<1> QED
  BY <1>1, <1>2, <1>3, <1>4, <1>5, <1>6, <1>7, <1>8, <1>9, <1>10, <1>11, <1>12, <1>13, <1>14, <1>15, <1>16, <1>17,
     <1>18, <1>19, <1>20, <1>21 DEF Next, Web, Engine, Passes, Worker, Settles6

(* As long as the engine lives, the items of a sequence are heard once and *)
(* in the order of their positions, and what is called COMPLETED was heard, *)
(* whatever is aborted, cancelled, skipped, lost or restarted: of a        *)
(* sequence a clock starts, whose items are handed over one by one         *)
(* (prepare_next), with any fault; of a timed one, staged as a whole       *)
(* (submit_snapshot), as long as no answer to a command is lost.           *)
THEOREM HeardInOrder ==
  ASSUME Staged \subseteq {FALSE} \/ "answer" \notin Faulty
  PROVE  Spec => []AiredAsRecorded
<1>1. Init => StoryInv /\ OrderInv
  BY StoryBegins, OrderBegins
<1>2. StoryInv /\ OrderInv /\ [Next]_vars => StoryInv' /\ OrderInv'
  BY StoryStep, OrderStep
<1>3. StoryInv /\ OrderInv => AiredAsRecorded
  BY CompletedIsPast DEF AiredAsRecorded, OrderInv, QueueInv
<1> QED
  BY <1>1, <1>2, <1>3, PTL DEF Spec

(* request_abort of a timed execution: once the execution is ABORTED and   *)
(* its jobs are worked off (process_event_cancellations), nothing of it    *)
(* waits in the engine, as long as no answer to a command is lost.         *)
THEOREM AbortEmptiesQueue ==
  ASSUME "answer" \notin Faulty
  PROVE  Spec => []AbortRemoves
<1>1. Init => StoryInv /\ OrderInv
  BY StoryBegins, OrderBegins
<1>2. StoryInv /\ OrderInv /\ [Next]_vars => StoryInv' /\ OrderInv'
  BY StoryStep, OrderStep
<1>3. StoryInv /\ OrderInv => AbortRemoves
  <2> SUFFICES ASSUME StoryInv, OrderInv, linked, exec = "ABORTED", Jobs = {} PROVE queue = <<>>
    BY DEF AbortRemoves
  <2>1. TypeOK
    BY DEF StoryInv
  <2>2. ASSUME NEW d \in Queued PROVE FALSE
    <3>1. d \in Decision /\ d.item \in Item
      BY <2>1, InSets
    <3>2. Waits(d) \/ Condemned(d)
      BY DEF OrderInv, LinkInv, Accounted
    <3>3. item[d.item] \notin {"PENDING", "QUEUED"}
      BY <3>1 DEF OrderInv, LinkInv, Aborted
    <3>4. job[d] = "pending"
      BY <3>2, <3>3 DEF Waits, Condemned
    <3> QED
      BY <3>1, <3>4 DEF Jobs
  <2> QED
    BY <2>1, <2>2, TypeParts, NoneIsEmpty DEF EngineType, Queued
<1> QED
  BY <1>1, <1>2, <1>3, PTL DEF Spec
=============================================================================
