-------------------------- MODULE DrawEngines_proof --------------------------
(***************************************************************************)
(* What clipping, walks and layers of draws do, for every rectangle, every *)
(* surface and every number of draws.                                      *)
(***************************************************************************)
EXTENDS DrawEngines, WellFoundedInduction, TLAPS

LEMMA LeastNat ==
    ASSUME NEW T, T \subseteq Nat, T # {}
    PROVE  \E m \in T : \A n \in T : m <= n
<1> DEFINE R == OpToRel(<, Nat)
<1>1. IsWellFoundedOn(R, Nat)
  BY NatLessThanWellFounded
<1>2. PICK m \in T : \A n \in T : ~(<<n, m>> \in R)
  <2> HIDE DEF R
  <2> QED BY <1>1, WFMin
<1>3. ASSUME NEW n \in T PROVE m <= n
  <2>1. ~(n < m)
    BY <1>2, <1>3 DEF OpToRel
  <2> QED BY <2>1
<1> QED BY <1>3

\* A set of numbers that has 0 and the successor of each of its members below
\* bound has all numbers up to bound.
LEMMA UpTo ==
    ASSUME NEW bound \in Nat, NEW S, 0 \in S,
           \A n \in 0 .. bound - 1 : n \in S => n + 1 \in S
    PROVE  0 .. bound \subseteq S
<1> DEFINE T == {n \in 0 .. bound : n \notin S}
<1> SUFFICES ASSUME T # {} PROVE FALSE
  OBVIOUS
<1>0. T \subseteq Nat
  OBVIOUS
<1>1. PICK m \in T : \A n \in T : m <= n
  <2> HIDE DEF T
  <2> QED BY <1>0, LeastNat
<1>2. m # 0 /\ m - 1 \in 0 .. bound - 1 /\ m - 1 \notin T
  BY <1>1
<1>3. m - 1 \in S
  BY <1>2
<1> QED BY <1>1, <1>2, <1>3

-----------------------------------------------------------------------------
(* Recursive definitions.                                                  *)

\* The pictures of a stack are each painted on the one before.
LEMMA StackPictures ==
    ASSUME NEW picture, NEW layers, Len(layers) \in Nat
    PROVE  /\ Stack(picture, layers)[0] = picture
           /\ \A n \in 1 .. Len(layers) : Stack(picture, layers)[n] =
                Painted(Stack(picture, layers)[n - 1], layers[n])
<1> DEFINE N == Len(layers)
           Ends(g, m) == g = [n \in 0 .. m |-> IF n = 0 THEN picture
                                               ELSE Painted(g[n - 1], layers[n])]
           S == {m \in 0 .. N : \E g : Ends(g, m)}
<1>1. 0 \in S
  <2> DEFINE g == [n \in 0 .. 0 |-> picture]
  <2>1. Ends(g, 0)
    OBVIOUS
  <2> HIDE DEF g, Ends
  <2> QED BY <2>1
<1>2. ASSUME NEW m \in 0 .. N - 1, m \in S PROVE m + 1 \in S
  <2>1. PICK g : Ends(g, m)
    BY <1>2
  <2> DEFINE h == [n \in 0 .. m + 1 |-> IF n <= m THEN g[n]
                                        ELSE Painted(g[m], layers[m + 1])]
  <2>2. \A n \in 0 .. m + 1 : h[n] = IF n = 0 THEN picture ELSE Painted(h[n - 1], layers[n])
    <3> SUFFICES ASSUME NEW n \in 0 .. m + 1
                 PROVE  h[n] = IF n = 0 THEN picture ELSE Painted(h[n - 1], layers[n])
      OBVIOUS
    <3>1. CASE n <= m
      <4>1. n \in 0 .. m /\ h[n] = g[n] /\ (n # 0 => h[n - 1] = g[n - 1])
        BY <3>1
      <4>2. g[n] = IF n = 0 THEN picture ELSE Painted(g[n - 1], layers[n])
        BY <2>1, <4>1
      <4> QED BY <4>1, <4>2
    <3>2. CASE n = m + 1
      BY <3>2
    <3> QED BY <3>1, <3>2
  <2>3. Ends(h, m + 1)
    BY <2>2
  <2>4. m + 1 \in 0 .. N
    OBVIOUS
  <2> HIDE DEF h, Ends
  <2> QED BY <2>3, <2>4
<1>3. \E g : Ends(g, N)
  <2> HIDE DEF Ends
  <2>1. 0 .. N \subseteq S
    <3> HIDE DEF S, N
    <3> QED BY <1>1, <1>2, UpTo DEF N
  <2> QED BY <2>1
<1>4. Ends(Stack(picture, layers), N)
  BY <1>3 DEF Stack
<1> QED BY <1>4

\* Concatenation, and the length of a sequence, by their properties only.
Joined(s, t) == s \o t
Size(s) == Len(s)

LEMMA Joining ==
    ASSUME NEW T, NEW s \in Seq(T), NEW t \in Seq(T)
    PROVE  /\ Joined(s, t) \in Seq(T) /\ Size(s) \in Nat /\ Size(t) \in Nat
           /\ Size(Joined(s, t)) = Size(s) + Size(t)
           /\ \A k \in 1 .. Size(s) : Joined(s, t)[k] = s[k]
           /\ \A l \in 1 .. Size(t) : Joined(s, t)[Size(s) + l] = t[l]
           /\ Size(s) = 0 => Joined(s, t) = t
BY DEF Joined, Size

\* The running concatenations of N parts.
Ends(g, N, seqs) ==
    g = [i \in 1 .. N |-> IF i = 1 THEN seqs[i] ELSE Joined(g[i - 1], seqs[i])]
Running(N, seqs) == CHOOSE g : Ends(g, N, seqs)

LEMMA RunningEnds ==
    ASSUME NEW N \in Nat, NEW seqs
    PROVE  Ends(Running(N, seqs), N, seqs)
<1> DEFINE S == {m \in 0 .. N : \E g : Ends(g, m, seqs)}
<1>1. 0 \in S
  <2> DEFINE g == [i \in 1 .. 0 |-> 0]
  <2>1. Ends(g, 0, seqs)
    BY DEF Ends
  <2> HIDE DEF g
  <2> QED BY <2>1
<1>2. ASSUME NEW m \in 0 .. N - 1, m \in S PROVE m + 1 \in S
  <2>1. PICK g : Ends(g, m, seqs)
    BY <1>2
  <2> DEFINE h == [i \in 1 .. m + 1 |-> IF i <= m THEN g[i]
                     ELSE IF i = 1 THEN seqs[i] ELSE Joined(g[m], seqs[i])]
  <2>2. \A i \in 1 .. m + 1 : h[i] = IF i = 1 THEN seqs[i] ELSE Joined(h[i - 1], seqs[i])
    <3> SUFFICES ASSUME NEW i \in 1 .. m + 1
                 PROVE  h[i] = IF i = 1 THEN seqs[i] ELSE Joined(h[i - 1], seqs[i])
      OBVIOUS
    <3>1. CASE i <= m
      <4>1. i \in 1 .. m /\ h[i] = g[i] /\ (i # 1 => h[i - 1] = g[i - 1])
        BY <3>1
      <4>2. g[i] = IF i = 1 THEN seqs[i] ELSE Joined(g[i - 1], seqs[i])
        BY <2>1, <4>1 DEF Ends
      <4> QED BY <4>1, <4>2
    <3>2. CASE i = m + 1
      <4>1. i # 1 => h[i - 1] = g[m]
        BY <3>2
      <4>2. h[i] = IF i = 1 THEN seqs[i] ELSE Joined(g[m], seqs[i])
        BY <3>2
      <4> QED BY <4>1, <4>2
    <3> QED BY <3>1, <3>2
  <2>3. Ends(h, m + 1, seqs)
    BY <2>2 DEF Ends
  <2>4. m + 1 \in 0 .. N
    OBVIOUS
  <2> HIDE DEF h
  <2> QED BY <2>3, <2>4
<1>3. 0 .. N \subseteq S
  <2> HIDE DEF S
  <2> QED BY <1>1, <1>2, UpTo
<1>4. N \in S
  <2> HIDE DEF S
  <2> QED BY <1>3
<1> QED BY <1>4 DEF Running

\* Where the parts' elements are in the last one: off[i] are of the first i.
Placed(N, seqs, off, all) ==
    /\ off \in [0 .. N -> Nat] /\ off[0] = 0 /\ Size(all) = off[N]
    /\ \A i \in 1 .. N : off[i] = off[i - 1] + Size(seqs[i])
    /\ \A i \in 1 .. N : \A l \in 1 .. Size(seqs[i]) :
        off[i - 1] + l \in 1 .. off[N] /\ all[off[i - 1] + l] = seqs[i][l]
    /\ \A k \in 1 .. off[N] : \E i \in 1 .. N :
        \E l \in 1 .. Size(seqs[i]) : k = off[i - 1] + l

LEMMA RunningPlaced ==
    ASSUME NEW T, NEW N \in Nat, N > 0, NEW seqs, \A i \in 1 .. N : seqs[i] \in Seq(T)
    PROVE  /\ Running(N, seqs)[N] \in Seq(T)
           /\ \E off : Placed(N, seqs, off, Running(N, seqs)[N])
<1> DEFINE g == Running(N, seqs)
           off == [i \in 0 .. N |-> IF i = 0 THEN 0 ELSE Size(g[i])]
<1>1. \A i \in 1 .. N : g[i] = IF i = 1 THEN seqs[i] ELSE Joined(g[i - 1], seqs[i])
  BY RunningEnds DEF Ends
<1> HIDE DEF g
<1>2. off[0] = 0 /\ \A i \in 1 .. N : off[i] = Size(g[i])
  OBVIOUS
<1>3. off = [i \in 0 .. N |-> off[i]]
  OBVIOUS
<1> HIDE DEF off
<1> DEFINE Good(n) ==
             /\ g[n] \in Seq(T)
             /\ \A i \in 1 .. n : off[i] \in Nat /\ off[i] = off[i - 1] + Size(seqs[i])
             /\ \A i \in 1 .. n : \A l \in 1 .. Size(seqs[i]) :
                  off[i - 1] + l \in 1 .. off[n] /\ g[n][off[i - 1] + l] = seqs[i][l]
             /\ \A k \in 1 .. off[n] : \E i \in 1 .. n :
                  \E l \in 1 .. Size(seqs[i]) : k = off[i - 1] + l
           S == {n \in 0 .. N - 1 : Good(n + 1)}
<1>4. Good(1)
  <2>1. g[1] = seqs[1] /\ off[1] = Size(seqs[1]) /\ seqs[1] \in Seq(T)
    BY <1>1, <1>2
  <2>2. Size(seqs[1]) \in Nat
    BY <2>1, Joining
  <2> QED BY <1>2, <2>1, <2>2
<1>5. ASSUME NEW n \in 1 .. N - 1, Good(n) PROVE Good(n + 1)
  <2> DEFINE m == n + 1
  <2>1. /\ g[m] = Joined(g[n], seqs[m]) /\ off[m] = Size(g[m]) /\ off[n] = Size(g[n])
        /\ seqs[m] \in Seq(T) /\ g[n] \in Seq(T)
    BY <1>1, <1>2, <1>5
  <2>2. /\ g[m] \in Seq(T) /\ off[n] \in Nat /\ Size(seqs[m]) \in Nat
        /\ off[m] = off[n] + Size(seqs[m])
        /\ \A k \in 1 .. off[n] : g[m][k] = g[n][k]
        /\ \A l \in 1 .. Size(seqs[m]) : g[m][off[n] + l] = seqs[m][l]
    <3> DEFINE a == g[n]
               b == seqs[m]
    <3>1. /\ Joined(a, b) \in Seq(T) /\ Size(a) \in Nat /\ Size(b) \in Nat
          /\ Size(Joined(a, b)) = Size(a) + Size(b)
          /\ \A k \in 1 .. Size(a) : Joined(a, b)[k] = a[k]
          /\ \A l \in 1 .. Size(b) : Joined(a, b)[Size(a) + l] = b[l]
      <4>1. a \in Seq(T) /\ b \in Seq(T)
        BY <2>1
      <4> HIDE DEF a, b
      <4> QED BY <4>1, Joining
    <3>2. g[m] = Joined(a, b) /\ off[n] = Size(a) /\ off[m] = Size(Joined(a, b))
      BY <2>1
    <3>3. b = seqs[m]
      OBVIOUS
    <3>4. \A k \in 1 .. off[n] : g[m][k] = g[n][k]
      <4>1. a = g[n]
        OBVIOUS
      <4> HIDE DEF a, b
      <4> QED BY <3>1, <3>2, <4>1
    <3> HIDE DEF a, b
    <3> QED BY <3>1, <3>2, <3>3, <3>4
  <2>3. m - 1 = n /\ m \in 1 .. m /\ \A i \in 1 .. m : i # m => i \in 1 .. n
    OBVIOUS
  <2> HIDE DEF m
  <2>4. \A i \in 1 .. m : off[i] \in Nat /\ off[i] = off[i - 1] + Size(seqs[i])
    BY <1>5, <2>2, <2>3
  <2>5. ASSUME NEW i \in 1 .. m, NEW l \in 1 .. Size(seqs[i])
        PROVE  off[i - 1] + l \in 1 .. off[m] /\ g[m][off[i - 1] + l] = seqs[i][l]
    <3>1. CASE i = m
      BY <2>2, <2>3, <3>1
    <3>2. CASE i # m
      <4>1. off[i - 1] + l \in 1 .. off[n] /\ g[n][off[i - 1] + l] = seqs[i][l]
        BY <1>5, <2>3, <3>2
      <4> QED BY <2>2, <4>1
    <3> QED BY <3>1, <3>2
  <2>6. ASSUME NEW k \in 1 .. off[m]
        PROVE  \E i \in 1 .. m : \E l \in 1 .. Size(seqs[i]) : k = off[i - 1] + l
    <3>1. CASE k \in 1 .. off[n]
      <4>1. PICK i \in 1 .. n : \E l \in 1 .. Size(seqs[i]) : k = off[i - 1] + l
        BY <1>5, <3>1
      <4>2. i \in 1 .. m
        BY <2>3
      <4> QED BY <4>1, <4>2
    <3>2. CASE k > off[n]
      <4>1. k - off[n] \in 1 .. Size(seqs[m]) /\ k = off[n] + (k - off[n])
        BY <2>2, <3>2
      <4> QED BY <2>3, <4>1
    <3> QED BY <2>2, <3>1, <3>2
  <2> QED BY <2>2, <2>4, <2>5, <2>6 DEF m
<1> HIDE DEF Good
<1>6. 0 \in S
  BY <1>4
<1>7. ASSUME NEW n \in 0 .. (N - 1) - 1, n \in S PROVE n + 1 \in S
  <2>1. n + 1 \in 1 .. N - 1 /\ Good(n + 1) /\ n + 1 \in 0 .. N - 1
    BY <1>7
  <2> QED BY <1>5, <2>1
<1>8. N - 1 \in S
  <2>1. 0 .. N - 1 \subseteq S
    <3>1. N - 1 \in Nat
      OBVIOUS
    <3> HIDE DEF S
    <3> QED BY <1>6, <1>7, <3>1, UpTo
  <2> HIDE DEF S
  <2> QED BY <2>1
<1>9. Good(N)
  <2>1. (N - 1) + 1 = N
    OBVIOUS
  <2> QED BY <1>8, <2>1
<1>10. off \in [0 .. N -> Nat] /\ Size(g[N]) = off[N]
  <2>1. \A i \in 0 .. N : off[i] \in Nat
    BY <1>2, <1>9 DEF Good
  <2>2. Size(g[N]) = off[N]
    BY <1>2
  <2>3. off \in [0 .. N -> Nat]
    BY <1>3, <2>1
  <2> QED BY <2>2, <2>3
<1>11. Placed(N, seqs, off, g[N])
  BY <1>2, <1>9, <1>10 DEF Good, Placed
<1> QED BY <1>9, <1>11 DEF g, Good

LEMMA FlattenPlaced ==
    ASSUME NEW T, NEW seqs \in Seq(Seq(T)), NEW N \in Nat, N = Len(seqs), N > 0
    PROVE  /\ FlattenSeq(seqs) \in Seq(T)
           /\ \E off : Placed(N, seqs, off, FlattenSeq(seqs))
<1>1. FlattenSeq(seqs) = Running(N, seqs)[N]
  BY DEF FlattenSeq, Running, Ends, Joined
<1>2. \A i \in 1 .. N : seqs[i] \in Seq(T)
  OBVIOUS
<1> QED BY ONLY <1>1, <1>2, N \in Nat, N > 0, RunningPlaced

-----------------------------------------------------------------------------
(* Rows and columns.                                                       *)

LEMMA Product ==
    ASSUME NEW a \in Nat, NEW b \in Nat, NEW p \in Nat, a <= b
    PROVE  a * p \in Nat /\ b * p \in Nat /\ a * p <= b * p
<1>1. PICK c \in Nat : b = a + c
  <2>1. b - a \in Nat /\ b = a + (b - a)
    OBVIOUS
  <2> QED BY <2>1
<1>2. b * p = a * p + c * p /\ c * p \in Nat /\ a * p \in Nat
  BY <1>1
<1> QED BY <1>2

LEMMA Successor ==
    ASSUME NEW a \in Nat, NEW b \in Nat, NEW p \in Nat, a < b
    PROVE  a * p + p <= b * p
<1>1. a + 1 \in Nat /\ a + 1 <= b
  OBVIOUS
<1>2. (a + 1) * p <= b * p
  BY <1>1, Product
<1>3. (a + 1) * p = a * p + p
  OBVIOUS
<1> QED BY <1>2, <1>3

\* An address has one row and one column.
LEMMA OnePlace ==
    ASSUME NEW p \in Nat, NEW x \in 0 .. p - 1, NEW y \in Nat,
           NEW u \in 0 .. p - 1, NEW v \in Nat, y * p + x = v * p + u
    PROVE  x = u /\ y = v
<1>1. y * p \in Nat /\ v * p \in Nat
  BY Product
<1>2. ~(y < v)
  <2> SUFFICES ASSUME y < v PROVE FALSE
    OBVIOUS
  <2>1. y * p + p <= v * p
    BY Successor
  <2> QED BY <1>1, <2>1
<1>3. ~(v < y)
  <2> SUFFICES ASSUME v < y PROVE FALSE
    OBVIOUS
  <2>1. v * p + p <= y * p
    BY Successor
  <2> QED BY <1>1, <2>1
<1>4. y = v
  BY <1>2, <1>3
<1> QED BY <1>1, <1>4

LEMMA RowAndColumn ==
    ASSUME NEW p \in Nat, NEW x \in 0 .. p - 1, NEW y \in Nat
    PROVE  (y * p + x) % p = x /\ (y * p + x) \div p = y
<1> DEFINE n == y * p + x
           v == n \div p
           u == n % p
<1>1. n \in Nat /\ p > 0
  BY Product
<1>2. v \in Nat /\ u \in 0 .. p - 1 /\ n = v * p + u
  <2> HIDE DEF n
  <2>1. v \in Nat /\ u \in 0 .. p - 1 /\ n = p * v + u
    BY <1>1
  <2> QED BY <2>1
<1> HIDE DEF u, v
<1>3. x = u /\ y = v
  BY <1>2, OnePlace
<1> QED BY <1>3 DEF u, v

\* The rows of an area end with it.
LEMMA InRect ==
    ASSUME NEW p \in Nat, NEW w \in Nat, NEW h \in Nat, w <= p,
           NEW x \in 0 .. w - 1, NEW y \in 0 .. h - 1
    PROVE  /\ y * p + x \in Nat
           /\ y * p + x < (h - 1) * p + w
<1>1. y * p \in Nat /\ y * p <= (h - 1) * p /\ (h - 1) * p \in Nat
  <2>1. y \in Nat /\ h - 1 \in Nat /\ y <= h - 1
    OBVIOUS
  <2> QED BY <2>1, Product
<1> QED BY <1>1

-----------------------------------------------------------------------------
(* Walks.                                                                  *)

\* n units of one or two columns, with each column of a width in one place.
Spread(columns, n, width) ==
    /\ n \in Nat /\ DOMAIN columns = 1 .. n
    /\ \A i \in 1 .. n : DOMAIN columns[i] = {1} \/ DOMAIN columns[i] = {1, 2}
    /\ \A i \in 1 .. n : \A l \in DOMAIN columns[i] : columns[i][l] \in 0 .. width - 1
    /\ \A x \in 0 .. width - 1 : \E i \in 1 .. n : \E l \in DOMAIN columns[i] :
        columns[i][l] = x
    /\ \A i, k \in 1 .. n : \A l \in DOMAIN columns[i], m \in DOMAIN columns[k] :
        columns[i][l] = columns[k][m] => i = k /\ l = m

LEMMA SinglesSpread ==
    ASSUME NEW width \in Nat
    PROVE  Spread(Singles(width), width, width)
<1> DEFINE c == Singles(width)
<1>1. DOMAIN c = 1 .. width
      /\ \A i \in 1 .. width : DOMAIN c[i] = {1} /\ c[i][1] = i - 1
  BY DEF Singles
<1> HIDE DEF c
<1>2. ASSUME NEW x \in 0 .. width - 1
      PROVE  \E i \in 1 .. width : \E l \in DOMAIN c[i] : c[i][l] = x
  <2>1. x + 1 \in 1 .. width /\ (x + 1) - 1 = x
    OBVIOUS
  <2> QED BY <1>1, <2>1
<1>3. \A i \in 1 .. width : \A l \in DOMAIN c[i] : l = 1 /\ c[i][l] \in 0 .. width - 1
  BY <1>1
<1>4. \A i, k \in 1 .. width : \A l \in DOMAIN c[i], m \in DOMAIN c[k] :
        c[i][l] = c[k][m] => i = k /\ l = m
  BY <1>1, <1>3
<1>5. Spread(c, width, width)
  BY <1>1, <1>2, <1>3, <1>4 DEF Spread
<1> QED BY <1>5 DEF c

LEMMA PairsSpread ==
    ASSUME NEW width \in Nat, width % 2 = 0
    PROVE  Spread(Pairs(width), width \div 2, width)
<1> DEFINE c == Pairs(width)
           n == width \div 2
<1>0. n \in Nat /\ width = 2 * n
  OBVIOUS
<1>1. DOMAIN c = 1 .. n
      /\ \A i \in 1 .. n : DOMAIN c[i] = {1, 2} /\ c[i][1] = 2 * i - 2 /\ c[i][2] = 2 * i - 1
  BY DEF Pairs
<1> HIDE DEF c, n
<1>2. ASSUME NEW x \in 0 .. width - 1
      PROVE  \E i \in 1 .. n : \E l \in DOMAIN c[i] : c[i][l] = x
  <2>1. PICK q \in Nat : x = 2 * q \/ x = 2 * q + 1
    <3>1. x \div 2 \in Nat /\ (x = 2 * (x \div 2) \/ x = 2 * (x \div 2) + 1)
      OBVIOUS
    <3> QED BY <3>1
  <2>2. q + 1 \in 1 .. n
    BY <1>0, <2>1
  <2>3. c[q + 1][1] = 2 * q /\ c[q + 1][2] = 2 * q + 1 /\ DOMAIN c[q + 1] = {1, 2}
    BY <1>1, <2>2
  <2> QED BY <2>1, <2>2, <2>3
<1>3. \A i \in 1 .. n : \A l \in DOMAIN c[i] : c[i][l] \in 0 .. width - 1
  BY <1>0, <1>1
<1>4. \A i, k \in 1 .. n : \A l \in DOMAIN c[i], m \in DOMAIN c[k] :
        c[i][l] = c[k][m] => i = k /\ l = m
  <2> SUFFICES ASSUME NEW i \in 1 .. n, NEW k \in 1 .. n,
                      NEW l \in DOMAIN c[i], NEW m \in DOMAIN c[k], c[i][l] = c[k][m]
               PROVE  i = k /\ l = m
    OBVIOUS
  <2>1. (l = 1 /\ c[i][l] = 2 * i - 2) \/ (l = 2 /\ c[i][l] = 2 * i - 1)
    BY <1>1
  <2>2. (m = 1 /\ c[k][m] = 2 * k - 2) \/ (m = 2 /\ c[k][m] = 2 * k - 1)
    BY <1>1
  <2> QED BY <1>0, <2>1, <2>2
<1>5. Spread(c, n, width)
  BY <1>0, <1>1, <1>2, <1>3, <1>4 DEF Spread
<1> QED BY <1>5 DEF c, n

\* Words of two columns but for the ends; an even column is a word's first,
\* counted from lead.
LEMMA WordsSpread ==
    ASSUME NEW width \in Nat, width > 0, NEW lead \in {0, 1}
    PROVE  /\ Spread(Words(width, lead), (width + lead + 1) \div 2, width)
           /\ \A i \in 1 .. (width + lead + 1) \div 2 :
                LET c == Words(width, lead) IN
                \A l \in DOMAIN c[i] :
                    c[i][l] \in {2 * i - 2 - lead, 2 * i - 1 - lead}
<1> DEFINE c == Words(width, lead)
           n == (width + lead + 1) \div 2
           first(i) == 2 * i - 2 - lead
<1>0. n \in Nat /\ (width + lead + 1 = 2 * n \/ width + lead = 2 * n)
  OBVIOUS
<1>1. DOMAIN c = 1 .. n
  BY DEF Words
<1>2. ASSUME NEW i \in 1 .. n
      PROVE  /\ first(i) < 0 => DOMAIN c[i] = {1} /\ c[i][1] = first(i) + 1
             /\ first(i) >= 0 /\ first(i) + 1 = width => DOMAIN c[i] = {1} /\ c[i][1] = first(i)
             /\ first(i) >= 0 /\ first(i) + 1 # width =>
                    DOMAIN c[i] = {1, 2} /\ c[i][1] = first(i) /\ c[i][2] = first(i) + 1
  BY DEF Words
<1> HIDE DEF c, n
<1>3. ASSUME NEW x \in 0 .. width - 1
      PROVE  \E i \in 1 .. n : \E l \in DOMAIN c[i] : c[i][l] = x
  <2>1. PICK q \in Nat : x + lead = 2 * q \/ x + lead = 2 * q + 1
    <3> DEFINE v == x + lead
    <3>1. v \in Nat
      OBVIOUS
    <3>2. v \div 2 \in Nat /\ (v = 2 * (v \div 2) \/ v = 2 * (v \div 2) + 1)
      BY <3>1
    <3> QED BY <3>2
  <2>2. q + 1 \in 1 .. n
    BY <1>0, <2>1
  <2>3. first(q + 1) = 2 * q - lead
    OBVIOUS
  <2> HIDE DEF first
  <2>4. CASE x + lead = 2 * q
    <3>1. c[q + 1][1] = x /\ 1 \in DOMAIN c[q + 1]
      BY <1>2, <2>2, <2>3, <2>4
    <3> QED BY <2>2, <3>1
  <2>5. CASE x + lead = 2 * q + 1
    <3>1. CASE first(q + 1) < 0
      <4>1. c[q + 1][1] = x /\ 1 \in DOMAIN c[q + 1]
        BY <1>2, <2>2, <2>3, <2>5, <3>1
      <4> QED BY <2>2, <4>1
    <3>2. CASE first(q + 1) >= 0
      <4>1. c[q + 1][2] = x /\ 2 \in DOMAIN c[q + 1]
        BY <1>2, <2>2, <2>3, <2>5, <3>2
      <4> QED BY <2>2, <4>1
    <3> QED BY <2>3, <3>1, <3>2
  <2> QED BY <2>1, <2>4, <2>5
<1>4. ASSUME NEW i \in 1 .. n, NEW l \in DOMAIN c[i]
      PROVE  c[i][l] \in 0 .. width - 1
  <2>1. CASE first(i) < 0
    BY <1>0, <1>2, <2>1
  <2>2. CASE first(i) >= 0 /\ first(i) + 1 = width
    BY <1>0, <1>2, <2>2
  <2>3. CASE first(i) >= 0 /\ first(i) + 1 # width
    <3>1. first(i) + 1 < width
      BY <1>0, <2>3
    <3> QED BY <1>2, <2>3, <3>1
  <2> QED BY <2>1, <2>2, <2>3
<1>5. \A i \in 1 .. n : \A l \in DOMAIN c[i] : c[i][l] \in {2 * i - 2 - lead, 2 * i - 1 - lead}
  BY <1>2
<1>6. \A i \in 1 .. n : DOMAIN c[i] = {1} \/ DOMAIN c[i] = {1, 2}
  BY <1>2
<1>7. \A i, k \in 1 .. n : \A l \in DOMAIN c[i], m \in DOMAIN c[k] :
        c[i][l] = c[k][m] => i = k /\ l = m
  <2> SUFFICES ASSUME NEW i \in 1 .. n, NEW k \in 1 .. n,
                      NEW l \in DOMAIN c[i], NEW m \in DOMAIN c[k], c[i][l] = c[k][m]
               PROVE  i = k /\ l = m
    OBVIOUS
  <2>1. i = k
    BY <1>5
  <2>2. l = m
    BY <1>2, <2>1
  <2> QED BY <2>1, <2>2
<1>8. Spread(c, n, width)
  BY <1>0, <1>1, <1>3, <1>4, <1>6, <1>7 DEF Spread
<1> QED BY <1>5, <1>8 DEF c, n

IsJob(j) ==
    /\ j.dst \in Nat /\ j.dpitch \in Nat /\ j.src \in Nat /\ j.spitch \in Nat
    /\ j.width \in Nat /\ j.height \in Nat
    /\ j.width > 0 /\ j.height > 0 /\ j.width <= j.dpitch
    /\ j.kind \in {"fill", "copy", "copy64", "blend"}
    /\ j.mirror_x \in BOOLEAN /\ j.mirror_y \in BOOLEAN
    /\ j.kind = "copy64" => /\ j.width % 2 = 0 /\ j.src % 2 = 0 /\ j.spitch % 2 = 0
                            /\ ~j.mirror_x /\ ~j.mirror_y

\* The columns of every row, by the walk's kind.
LEMMA ColumnsSpread ==
    ASSUME NEW j, IsJob(j), NEW y \in 0 .. j.height - 1
    PROVE  \E n \in Nat :
             /\ Spread(Columns(j, y), n, j.width)
             /\ j.kind = "copy64" => n = j.width \div 2
             /\ j.kind = "blend" => \A i \in 1 .. n : \A l \in DOMAIN Columns(j, y)[i] :
                  LET odd == (j.dst + y * j.dpitch) % 2 IN
                  Columns(j, y)[i][l] \in {2 * i - 2 - odd, 2 * i - 1 - odd}
<1> DEFINE odd == (j.dst + y * j.dpitch) % 2
           width == j.width
<1>0. width \in Nat /\ width > 0 /\ odd \in {0, 1} /\ 0 \in {0, 1}
  <2>1. y \in Nat /\ j.dpitch \in Nat /\ y <= y /\ j.dst \in Nat
    BY DEF IsJob
  <2>2. y * j.dpitch \in Nat
    BY <2>1, Product
  <2> QED BY <2>1, <2>2 DEF IsJob
<1>1. CASE j.kind = "copy"
  <2>1. Columns(j, y) = Singles(width)
    BY <1>1 DEF Columns
  <2> HIDE DEF width
  <2>2. Spread(Columns(j, y), width, width)
    BY <1>0, <2>1, SinglesSpread
  <2> QED BY <1>0, <1>1, <2>2 DEF width
<1>2. CASE j.kind = "copy64"
  <2>1. Columns(j, y) = Pairs(width) /\ width % 2 = 0
    BY <1>2 DEF Columns, IsJob
  <2>2. Spread(Columns(j, y), width \div 2, width) /\ width \div 2 \in Nat
    <3> HIDE DEF width
    <3> QED BY <1>0, <2>1, PairsSpread
  <2> QED BY <1>2, <2>2
<1>3. CASE j.kind = "blend"
  <2>1. Columns(j, y) = Words(width, odd)
    BY <1>3 DEF Columns
  <2> DEFINE n == (width + odd + 1) \div 2
  <2>2. n \in Nat
    <3> HIDE DEF width, odd
    <3> QED BY <1>0
  <2>3. /\ Spread(Columns(j, y), n, width)
        /\ \A i \in 1 .. n : \A l \in DOMAIN Columns(j, y)[i] :
             Columns(j, y)[i][l] \in {2 * i - 2 - odd, 2 * i - 1 - odd}
    <3> HIDE DEF width, odd
    <3> QED BY <1>0, <2>1, WordsSpread
  <2> HIDE DEF n
  <2> QED BY <1>3, <2>2, <2>3
<1>4. CASE j.kind = "fill"
  <2>1. CASE odd = 1
    <3>1. Columns(j, y) = Singles(width)
      BY <1>4, <2>1 DEF Columns
    <3>2. Spread(Columns(j, y), width, width)
      <4> HIDE DEF width
      <4> QED BY <1>0, <3>1, SinglesSpread
    <3> QED BY <1>0, <1>4, <3>2
  <2>2. CASE odd # 1
    <3>1. Columns(j, y) = Words(width, 0)
      BY <1>4, <2>2 DEF Columns
    <3> DEFINE n == (width + 0 + 1) \div 2
    <3>2. Spread(Columns(j, y), n, width) /\ n \in Nat
      <4> HIDE DEF width
      <4> QED BY <1>0, <3>1, WordsSpread
    <3> HIDE DEF n
    <3> QED BY <1>4, <3>2
  <2> QED BY <2>1, <2>2
<1> QED BY <1>1, <1>2, <1>3, <1>4 DEF IsJob

\* A pair of words read from an even address is the two pixels there.
LEMMA PairsAreCells ==
    ASSUME NEW j, IsJob(j), j.kind = "copy64",
           NEW x \in 0 .. j.width - 1, NEW y \in 0 .. j.height - 1
    PROVE  WordCell(j, x, y) = Cell(j, x, y)
<1> DEFINE row == y * j.spitch
           address == j.src + row + x - (x % 2)
<1>1. /\ j.src \in Nat /\ j.src % 2 = 0 /\ j.spitch \in Nat /\ j.spitch % 2 = 0
      /\ ~j.mirror_x /\ ~j.mirror_y /\ x \in Nat /\ y \in Nat
  BY DEF IsJob
<1>2. PICK half \in Nat : j.spitch = 2 * half
  <2>1. j.spitch \div 2 \in Nat /\ j.spitch = 2 * (j.spitch \div 2)
    BY <1>1
  <2> QED BY <2>1
<1>3. row = 2 * (y * half) /\ y * half \in Nat
  <2>1. y * half \in Nat
    BY <1>1, Product
  <2> QED BY <1>1, <1>2, <2>1
<1>4. row \in Nat /\ row % 2 = 0
  <2> DEFINE k == y * half
  <2> HIDE DEF row, k
  <2>1. row = 2 * k /\ k \in Nat
    BY <1>3 DEF k
  <2> QED BY <2>1
<1>5. address - (address % 2) + (x % 2) = j.src + row + x
  <2> HIDE DEF row
  <2>1. address % 2 = 0
    BY <1>1, <1>4
  <2>2. address \in Int /\ x % 2 \in Int /\ address = j.src + row + x - (x % 2)
    BY <1>1, <1>4
  <2>3. j.src + row + x \in Int
    BY <1>1, <1>4
  <2> DEFINE e == x % 2
             b == j.src + row + x
  <2>4. b \in Int /\ e \in Int /\ address = b - e
    <3>1. b \in Int
      BY <2>3
    <3>2. e \in Int
      BY <2>2
    <3>3. address = b - e
      <4> DEFINE f == x % 2
      <4>1. x \in Int /\ f \in Int /\ j.src + row \in Int
        BY <1>1, <1>4, <2>2
      <4> HIDE DEF f
      <4>2. j.src + row + (x - f) = (j.src + row + x) - f
        BY <4>1
      <4> QED BY <4>2 DEF f
    <3> QED BY <3>1, <3>2, <3>3
  <2> HIDE DEF address, e, b
  <2>5. address - 0 + e = b
    BY <2>4
  <2> QED BY <2>1, <2>5 DEF e, b
<1>6. Cell(j, x, y) = [to |-> j.dst + y * j.dpitch + x, from |-> j.src + row + x]
  BY <1>1 DEF Cell, Mirror
<1>7. WordCell(j, x, y) = [to |-> j.dst + y * j.dpitch + x,
                           from |-> address - (address % 2) + (x % 2)]
  BY DEF WordCell
<1> HIDE DEF row, address
<1> QED BY <1>5, <1>6, <1>7

\* A row's units: its cells, each once, in one or two lanes; a blend's within
\* one word of DRAM.
IsRow(j, y, row, n) ==
    /\ n \in Nat /\ row = [i \in 1 .. n |-> row[i]]
    /\ \A i \in 1 .. n : /\ row[i] = [l \in DOMAIN row[i] |-> row[i][l]]
                         /\ DOMAIN row[i] = {1} \/ DOMAIN row[i] = {1, 2}
    /\ \A i \in 1 .. n : \A l \in DOMAIN row[i] : \E x \in 0 .. j.width - 1 :
        row[i][l] = Cell(j, x, y)
    /\ \A x \in 0 .. j.width - 1 : \E i \in 1 .. n : \E l \in DOMAIN row[i] :
        row[i][l] = Cell(j, x, y)
    /\ \A i, k \in 1 .. n : \A l \in DOMAIN row[i], m \in DOMAIN row[k] :
        row[i][l].to = row[k][m].to => i = k /\ l = m
    /\ j.kind = "blend" => \A i \in 1 .. n : \A l \in DOMAIN row[i] :
        LET low == row[i][1].to - (row[i][1].to % 2) IN row[i][l].to \in {low, low + 1}
    /\ j.kind = "copy64" => n = j.width \div 2

LEMMA RowIsRow ==
    ASSUME NEW j, IsJob(j), NEW y \in 0 .. j.height - 1
    PROVE  \E n \in Nat : IsRow(j, y, Row(j, y), n)
<1> DEFINE columns == Columns(j, y)
           row == Row(j, y)
           base == j.dst + y * j.dpitch
           odd == base % 2
<1>1. PICK n \in Nat :
             /\ Spread(columns, n, j.width)
             /\ j.kind = "copy64" => n = j.width \div 2
             /\ j.kind = "blend" => \A i \in 1 .. n : \A l \in DOMAIN columns[i] :
                  columns[i][l] \in {2 * i - 2 - odd, 2 * i - 1 - odd}
  BY ColumnsSpread
<1>2. base \in Nat /\ y \in Nat
  <2>1. y \in Nat /\ j.dpitch \in Nat /\ y <= y /\ j.dst \in Nat
    BY DEF IsJob
  <2> QED BY <2>1, Product
<1>3. /\ DOMAIN row = 1 .. n /\ row = [i \in 1 .. n |-> row[i]]
      /\ \A i \in 1 .. n : row[i] = [l \in DOMAIN columns[i] |-> row[i][l]]
      /\ \A i \in 1 .. n : DOMAIN row[i] = DOMAIN columns[i]
  BY <1>1 DEF Row, Spread
<1>4. ASSUME NEW i \in 1 .. n, NEW l \in DOMAIN columns[i]
      PROVE  columns[i][l] \in 0 .. j.width - 1 /\ row[i][l] = Cell(j, columns[i][l], y)
  <2>1. columns[i][l] \in 0 .. j.width - 1 /\ i \in DOMAIN columns
    BY <1>1 DEF Spread
  <2>2. row[i][l] = IF j.kind = "copy64" THEN WordCell(j, columns[i][l], y)
                    ELSE Cell(j, columns[i][l], y)
    BY <2>1 DEF Row
  <2> HIDE DEF row, columns
  <2> QED BY <2>1, <2>2, PairsAreCells
<1>5. \A x : Cell(j, x, y).to = base + x
  BY DEF Cell
<1> HIDE DEF row, columns, odd, base
<1>6. ASSUME NEW i \in 1 .. n, NEW l \in DOMAIN row[i]
      PROVE  row[i][l].to = base + columns[i][l] /\ columns[i][l] \in Nat
             /\ \E x \in 0 .. j.width - 1 : row[i][l] = Cell(j, x, y)
  <2>1. columns[i][l] \in 0 .. j.width - 1 /\ row[i][l] = Cell(j, columns[i][l], y)
    BY <1>3, <1>4
  <2> QED BY <1>5, <2>1
<1>7. ASSUME NEW x \in 0 .. j.width - 1
      PROVE  \E i \in 1 .. n : \E l \in DOMAIN row[i] : row[i][l] = Cell(j, x, y)
  <2>1. PICK i \in 1 .. n : \E l \in DOMAIN columns[i] : columns[i][l] = x
    BY <1>1 DEF Spread
  <2> QED BY <1>3, <1>4, <2>1
<1>8. ASSUME NEW i \in 1 .. n, NEW k \in 1 .. n, NEW l \in DOMAIN row[i],
             NEW m \in DOMAIN row[k], row[i][l].to = row[k][m].to
      PROVE  i = k /\ l = m
  <2>1. columns[i][l] = columns[k][m]
    BY <1>2, <1>6, <1>8
  <2> QED BY <1>1, <1>3, <2>1 DEF Spread
<1>9. ASSUME j.kind = "blend", NEW i \in 1 .. n, NEW l \in DOMAIN row[i]
      PROVE  LET low == row[i][1].to - (row[i][1].to % 2) IN row[i][l].to \in {low, low + 1}
  <2>1. 1 \in DOMAIN row[i]
    BY <1>1, <1>3 DEF Spread
  <2> DEFINE a == row[i][1].to
             b == row[i][l].to
             c == columns[i][1]
             d == columns[i][l]
  <2>2. a = base + c /\ b = base + d /\ c \in Nat /\ d \in Nat
    BY <1>6, <2>1
  <2>3. c \in {2 * i - 2 - odd, 2 * i - 1 - odd} /\ d \in {2 * i - 2 - odd, 2 * i - 1 - odd}
    BY <1>1, <1>3, <1>9, <2>1
  <2>4. b \in {a - (a % 2), a - (a % 2) + 1}
    <3> HIDE DEF a, b, c, d
    <3>1. PICK half \in Nat : base = 2 * half + odd /\ odd \in {0, 1}
      <4>1. base \div 2 \in Nat /\ base = 2 * (base \div 2) + odd /\ odd \in {0, 1}
        BY <1>2 DEF odd
      <4> QED BY <4>1
    <3>2. a = 2 * (half + i - 1) \/ a = 2 * (half + i - 1) + 1
      BY <2>2, <2>3, <3>1
    <3>3. b = 2 * (half + i - 1) \/ b = 2 * (half + i - 1) + 1
      BY <2>2, <2>3, <3>1
    <3> DEFINE e == half + i - 1
    <3>4. e \in Nat
      OBVIOUS
    <3> HIDE DEF e
    <3>5. a - (a % 2) = 2 * e
      BY <3>2, <3>4 DEF e
    <3>6. b = 2 * e \/ b = 2 * e + 1
      BY <3>3 DEF e
    <3> QED BY <3>4, <3>5, <3>6
  <2> QED BY <2>4
<1>10. IsRow(j, y, row, n)
  <2>1. \A i \in 1 .. n : /\ row[i] = [l \in DOMAIN row[i] |-> row[i][l]]
                          /\ DOMAIN row[i] = {1} \/ DOMAIN row[i] = {1, 2}
    BY <1>1, <1>3 DEF Spread
  <2>2. \A i, k \in 1 .. n : \A l \in DOMAIN row[i], m \in DOMAIN row[k] :
          row[i][l].to = row[k][m].to => i = k /\ l = m
    BY <1>8
  <2>3. \A i \in 1 .. n : \A l \in DOMAIN row[i] : \E x \in 0 .. j.width - 1 :
          row[i][l] = Cell(j, x, y)
    BY <1>6
  <2>4. j.kind = "blend" => \A i \in 1 .. n : \A l \in DOMAIN row[i] :
          LET low == row[i][1].to - (row[i][1].to % 2) IN row[i][l].to \in {low, low + 1}
    BY <1>9
  <2> QED BY <1>1, <1>3, <1>7, <2>1, <2>2, <2>3, <2>4 DEF IsRow
<1> QED BY <1>10 DEF row

\* The units of a walk: every cell of the job, each once.
IsWalk(j, walk, n) ==
    /\ n \in Nat /\ walk \in Seq({walk[i] : i \in 1 .. n}) /\ Len(walk) = n
    /\ \A i \in 1 .. n : /\ walk[i] = [l \in DOMAIN walk[i] |-> walk[i][l]]
                         /\ DOMAIN walk[i] = {1} \/ DOMAIN walk[i] = {1, 2}
    /\ \A i \in 1 .. n : \A l \in DOMAIN walk[i] :
        \E x \in 0 .. j.width - 1, y \in 0 .. j.height - 1 : walk[i][l] = Cell(j, x, y)
    /\ \A x \in 0 .. j.width - 1, y \in 0 .. j.height - 1 :
        \E i \in 1 .. n : \E l \in DOMAIN walk[i] : walk[i][l] = Cell(j, x, y)
    /\ \A i, k \in 1 .. n : \A l \in DOMAIN walk[i], m \in DOMAIN walk[k] :
        walk[i][l].to = walk[k][m].to => i = k /\ l = m
    /\ j.kind = "blend" => \A i \in 1 .. n : \A l \in DOMAIN walk[i] :
        LET low == walk[i][1].to - (walk[i][1].to % 2) IN walk[i][l].to \in {low, low + 1}
    /\ Total(j) = n

LEMMA RowSize ==
    ASSUME NEW row, NEW n \in Nat, row = [i \in 1 .. n |-> row[i]],
           NEW T, \A i \in 1 .. n : row[i] \in T
    PROVE  row \in Seq(T) /\ Size(row) = n
BY DEF Size

LEMMA EqualParts ==
    ASSUME NEW N \in Nat, NEW seqs, NEW off, NEW all, Placed(N, seqs, off, all),
           NEW part \in Nat, \A i \in 1 .. N : Size(seqs[i]) = part
    PROVE  off[N] = N * part
<1> DEFINE S == {i \in 0 .. N : off[i] = i * part}
<1>1. 0 \in S
  BY DEF Placed
<1>2. ASSUME NEW i \in 0 .. N - 1, i \in S PROVE i + 1 \in S
  <2>1. i + 1 \in 1 .. N /\ (i + 1) - 1 = i /\ off[i] = i * part
    BY <1>2
  <2>2. off[i + 1] = off[i] + part
    BY <2>1 DEF Placed
  <2>3. (i + 1) * part = i * part + part
    OBVIOUS
  <2> QED BY <2>1, <2>2, <2>3
<1>3. 0 .. N \subseteq S
  <2> HIDE DEF S
  <2> QED BY <1>1, <1>2, UpTo
<1> QED BY <1>3

LEMMA WorkIsWalk ==
    ASSUME NEW j, IsJob(j)
    PROVE  \E n \in Nat : IsWalk(j, Work(j), n) /\ n > 0
<1> DEFINE h == j.height
           seqs == [i \in 1 .. h |-> Row(j, i - 1)]
           count(y) == CHOOSE n \in Nat : IsRow(j, y, Row(j, y), n)
           T == {Row(j, y)[i] : y \in 0 .. h - 1, i \in Nat}
           walk == Work(j)
<1>0. h \in Nat /\ h > 0 /\ j.width \in Nat /\ j.width > 0 /\ j.dpitch \in Nat
      /\ j.dst \in Nat /\ j.width <= j.dpitch
  BY DEF IsJob
<1>1. ASSUME NEW y \in 0 .. h - 1
      PROVE  count(y) \in Nat /\ IsRow(j, y, Row(j, y), count(y))
  <2>1. \E n \in Nat : IsRow(j, y, Row(j, y), n)
    BY RowIsRow
  <2> QED BY <2>1
<1>2. ASSUME NEW i \in 1 .. h
      PROVE  /\ seqs[i] = Row(j, i - 1) /\ seqs[i] \in Seq(T)
             /\ Size(seqs[i]) = count(i - 1) /\ IsRow(j, i - 1, seqs[i], Size(seqs[i]))
             /\ Size(seqs[i]) \in Nat
  <2> DEFINE y == i - 1
             row == Row(j, y)
  <2>1. y \in 0 .. h - 1
    BY <1>0
  <2>2. seqs[i] = row
    OBVIOUS
  <2>3. count(y) \in Nat /\ row = [k \in 1 .. count(y) |-> row[k]]
        /\ IsRow(j, y, row, count(y))
    <3> HIDE DEF y, row, count
    <3> QED BY <1>1, <2>1 DEF IsRow, row
  <2>4. \A k \in 1 .. count(y) : row[k] \in T
    BY <2>1
  <2>5. row \in Seq(T) /\ Size(row) = count(y)
    <3> HIDE DEF y, row, count, T
    <3> QED BY <2>3, <2>4, RowSize
  <2> HIDE DEF row, count, seqs
  <2> QED BY <2>2, <2>3, <2>5 DEF row
<1> HIDE DEF T, count
<1>3. PICK off : Placed(h, seqs, off, walk) /\ walk \in Seq(T)
  <2>1. seqs \in Seq(Seq(T)) /\ h = Len(seqs)
    <3>1. \A i \in 1 .. h : seqs[i] \in Seq(T)
      BY <1>2
    <3>2. seqs = [i \in 1 .. h |-> seqs[i]]
      OBVIOUS
    <3> HIDE DEF seqs, h
    <3>3. seqs \in Seq(Seq(T)) /\ Size(seqs) = h
      BY <1>0, <3>1, <3>2, RowSize
    <3> QED BY <3>3 DEF Size
  <2>2. walk = FlattenSeq(seqs)
    BY DEF Work
  <2> HIDE DEF seqs, walk, h
  <2> QED BY <1>0, <2>1, <2>2, FlattenPlaced
<1> DEFINE n == off[h]
<1>4. n \in Nat /\ Len(walk) = n
  BY <1>0, <1>3 DEF Placed, Size
<1> HIDE DEF seqs, walk, h
<1>r. ASSUME NEW i \in 1 .. h, NEW l \in 1 .. Size(seqs[i])
      PROVE  /\ seqs[i][l] = [m \in DOMAIN seqs[i][l] |-> seqs[i][l][m]]
             /\ DOMAIN seqs[i][l] = {1} \/ DOMAIN seqs[i][l] = {1, 2}
             /\ \A m \in DOMAIN seqs[i][l] : \E x \in 0 .. j.width - 1 :
                    seqs[i][l][m] = Cell(j, x, i - 1)
             /\ j.kind = "blend" => \A m \in DOMAIN seqs[i][l] :
                    LET low == seqs[i][l][1].to - (seqs[i][l][1].to % 2) IN
                    seqs[i][l][m].to \in {low, low + 1}
  <2> DEFINE row == seqs[i]
             y == i - 1
             size == Size(seqs[i])
  <2>1. IsRow(j, y, row, size) /\ l \in 1 .. size
    BY <1>2
  <2> HIDE DEF row, y, size
  <2>2. /\ row[l] = [m \in DOMAIN row[l] |-> row[l][m]]
        /\ DOMAIN row[l] = {1} \/ DOMAIN row[l] = {1, 2}
    BY <2>1 DEF IsRow
  <2>3. \A m \in DOMAIN row[l] : \E x \in 0 .. j.width - 1 : row[l][m] = Cell(j, x, y)
    BY <2>1 DEF IsRow
  <2>4. j.kind = "blend" => \A m \in DOMAIN row[l] :
          LET low == row[l][1].to - (row[l][1].to % 2) IN row[l][m].to \in {low, low + 1}
    BY <2>1 DEF IsRow
  <2> QED BY <2>2, <2>3, <2>4 DEF row, y
<1>t. ASSUME NEW i \in 1 .. h, NEW l \in 1 .. Size(seqs[i]),
             NEW m \in DOMAIN seqs[i][l]
      PROVE  \E x \in 0 .. j.width - 1 : seqs[i][l][m] = Cell(j, x, i - 1)
  BY <1>r
<1>s. ASSUME NEW i \in 1 .. h
      PROVE  /\ \A x \in 0 .. j.width - 1 : \E l \in 1 .. Size(seqs[i]) :
                  \E m \in DOMAIN seqs[i][l] : seqs[i][l][m] = Cell(j, x, i - 1)
             /\ \A l, k \in 1 .. Size(seqs[i]) :
                  \A m \in DOMAIN seqs[i][l], mm \in DOMAIN seqs[i][k] :
                    seqs[i][l][m].to = seqs[i][k][mm].to => l = k /\ m = mm
             /\ j.kind = "copy64" => Size(seqs[i]) = j.width \div 2
  <2> DEFINE row == seqs[i]
             y == i - 1
             size == Size(seqs[i])
  <2>1. IsRow(j, y, row, size)
    BY <1>2
  <2> HIDE DEF row, y, size
  <2>2. \A x \in 0 .. j.width - 1 : \E l \in 1 .. size :
          \E m \in DOMAIN row[l] : row[l][m] = Cell(j, x, y)
    BY <2>1 DEF IsRow
  <2>3. \A l, k \in 1 .. size : \A m \in DOMAIN row[l], mm \in DOMAIN row[k] :
          row[l][m].to = row[k][mm].to => l = k /\ m = mm
    BY <2>1 DEF IsRow
  <2>4. j.kind = "copy64" => size = j.width \div 2
    BY <2>1 DEF IsRow
  <2> QED BY <2>2, <2>3, <2>4 DEF row, y, size
<1>5. ASSUME NEW k \in 1 .. n
      PROVE  \E i \in 1 .. h : \E l \in 1 .. Size(seqs[i]) :
                 k = off[i - 1] + l /\ walk[k] = seqs[i][l]
  <2>1. PICK i \in 1 .. h : \E l \in 1 .. Size(seqs[i]) : k = off[i - 1] + l
    BY <1>3 DEF Placed
  <2>2. PICK l \in 1 .. Size(seqs[i]) : k = off[i - 1] + l
    BY <2>1
  <2>3. walk[off[i - 1] + l] = seqs[i][l]
    BY <1>3 DEF Placed
  <2> QED BY <2>2, <2>3
<1>6. ASSUME NEW i \in 1 .. h, NEW l \in 1 .. Size(seqs[i])
      PROVE  off[i - 1] + l \in 1 .. n /\ walk[off[i - 1] + l] = seqs[i][l]
  BY <1>3 DEF Placed
<1> HIDE DEF n
<1>7. walk \in Seq({walk[i] : i \in 1 .. n})
  BY <1>3, <1>4
<1>8. ASSUME NEW k \in 1 .. n
      PROVE  /\ walk[k] = [l \in DOMAIN walk[k] |-> walk[k][l]]
             /\ DOMAIN walk[k] = {1} \/ DOMAIN walk[k] = {1, 2}
  BY <1>5, <1>r
<1>9. ASSUME NEW k \in 1 .. n, NEW m \in DOMAIN walk[k]
      PROVE  \E x \in 0 .. j.width - 1, y \in 0 .. j.height - 1 : walk[k][m] = Cell(j, x, y)
  <2>1. PICK i \in 1 .. h, l \in Nat : l \in 1 .. Size(seqs[i]) /\ walk[k] = seqs[i][l]
    BY <1>5
  <2>2. \E x \in 0 .. j.width - 1 : walk[k][m] = Cell(j, x, i - 1)
    BY <1>t, <2>1
  <2>3. i - 1 \in 0 .. j.height - 1
    BY <1>0 DEF h
  <2> QED BY <2>2, <2>3
<1>10. ASSUME NEW x \in 0 .. j.width - 1, NEW y \in 0 .. j.height - 1
       PROVE  \E k \in 1 .. n : \E l \in DOMAIN walk[k] : walk[k][l] = Cell(j, x, y)
  <2>1. y + 1 \in 1 .. h /\ (y + 1) - 1 = y
    BY <1>0 DEF h
  <2>2. PICK l \in 1 .. Size(seqs[y + 1]) :
             \E m \in DOMAIN seqs[y + 1][l] : seqs[y + 1][l][m] = Cell(j, x, y)
    BY <1>s, <2>1
  <2> QED BY <1>6, <2>1, <2>2
<1>11. ASSUME NEW k \in 1 .. n, NEW kk \in 1 .. n, NEW m \in DOMAIN walk[k],
              NEW mm \in DOMAIN walk[kk], walk[k][m].to = walk[kk][mm].to
       PROVE  k = kk /\ m = mm
  <2>1. PICK i \in 1 .. h, l \in Nat : l \in 1 .. Size(seqs[i]) /\
             k = off[i - 1] + l /\ walk[k] = seqs[i][l]
    BY <1>5
  <2>2. PICK ii \in 1 .. h, ll \in Nat : ll \in 1 .. Size(seqs[ii]) /\
             kk = off[ii - 1] + ll /\ walk[kk] = seqs[ii][ll]
    BY <1>5
  <2>3. PICK x \in 0 .. j.width - 1 : walk[k][m] = Cell(j, x, i - 1)
    BY <1>t, <2>1
  <2>4. PICK xx \in 0 .. j.width - 1 : walk[kk][mm] = Cell(j, xx, ii - 1)
    BY <1>t, <2>2
  <2>5. i = ii
    <3> DEFINE y == i - 1
               v == ii - 1
    <3>1. j.dst + y * j.dpitch + x = j.dst + v * j.dpitch + xx
      BY <1>11, <2>3, <2>4 DEF Cell
    <3>2. y \in Nat /\ v \in Nat /\ x \in 0 .. j.dpitch - 1 /\ xx \in 0 .. j.dpitch - 1
      BY <1>0
    <3> HIDE DEF y, v
    <3>3. y * j.dpitch \in Nat /\ v * j.dpitch \in Nat
      BY <1>0, <3>2, Product
    <3>4. y * j.dpitch + x = v * j.dpitch + xx
      BY <1>0, <3>1, <3>2, <3>3
    <3>5. y = v
      BY <1>0, <3>2, <3>4, OnePlace
    <3> QED BY <3>5 DEF y, v
  <2>6. l = ll /\ m = mm
    BY <1>s, <1>11, <2>1, <2>2, <2>5
  <2> QED BY <2>1, <2>2, <2>5, <2>6
<1>12. ASSUME j.kind = "blend", NEW k \in 1 .. n, NEW m \in DOMAIN walk[k]
       PROVE  LET low == walk[k][1].to - (walk[k][1].to % 2) IN walk[k][m].to \in {low, low + 1}
  <2>1. PICK i \in 1 .. h, l \in Nat : l \in 1 .. Size(seqs[i]) /\ walk[k] = seqs[i][l]
    BY <1>5
  <2> QED BY <1>r, <1>12, <2>1
<1>13. Total(j) = n
  <2>1. CASE j.kind = "copy64"
    <3> DEFINE part == j.width \div 2
    <3>1. part \in Nat /\ j.width = 2 * part
      BY <1>0, <2>1 DEF IsJob
    <3>2. \A i \in 1 .. h : Size(seqs[i]) = part
      BY <1>s, <2>1
    <3>3. Total(j) = (j.width * h) \div 2
      BY <2>1 DEF Total, h
    <3> HIDE DEF part
    <3>4. n = h * part
      BY <1>0, <1>3, <3>1, <3>2, EqualParts DEF n
    <3>5. j.width * h = 2 * n /\ n \in Nat
      BY <1>0, <1>4, <3>1, <3>4
    <3> DEFINE m == j.width * h
    <3> HIDE DEF m
    <3>6. m = 2 * n /\ Total(j) = m \div 2
      BY <3>3, <3>5 DEF m
    <3> QED BY <3>5, <3>6
  <2>2. CASE j.kind # "copy64"
    BY <1>4, <2>2 DEF Total, walk
  <2> QED BY <2>1, <2>2
<1>14. IsWalk(j, walk, n)
  <2>1. \A i \in 1 .. n : /\ walk[i] = [l \in DOMAIN walk[i] |-> walk[i][l]]
                          /\ DOMAIN walk[i] = {1} \/ DOMAIN walk[i] = {1, 2}
    BY <1>8
  <2>2. \A i \in 1 .. n : \A l \in DOMAIN walk[i] :
          \E x \in 0 .. j.width - 1, y \in 0 .. j.height - 1 : walk[i][l] = Cell(j, x, y)
    BY <1>9
  <2>3. \A i, k \in 1 .. n : \A l \in DOMAIN walk[i], m \in DOMAIN walk[k] :
          walk[i][l].to = walk[k][m].to => i = k /\ l = m
    BY <1>11
  <2>4. j.kind = "blend" => \A i \in 1 .. n : \A l \in DOMAIN walk[i] :
          LET low == walk[i][1].to - (walk[i][1].to % 2) IN walk[i][l].to \in {low, low + 1}
    BY <1>12
  <2> QED BY <1>4, <1>7, <1>10, <1>13, <2>1, <2>2, <2>3, <2>4 DEF IsWalk
<1>15. n > 0
  <2>1. 0 \in 0 .. j.width - 1 /\ 0 \in 0 .. j.height - 1
    BY <1>0 DEF h
  <2> QED BY <1>4, <1>10, <2>1
<1> QED BY <1>4, <1>14, <1>15 DEF walk

-----------------------------------------------------------------------------
(* Jobs.                                                                   *)

LEMMA JobIsJob ==
    ASSUME NEW op \in Opcodes, NEW d, IsDescriptor(d),
           d.width > 0, d.height > 0, d.width <= d.dpitch
    PROVE  IsJob(Job(op, d))
<1> DEFINE j == Job(op, d)
<1>1. /\ d.dst \in Nat /\ d.dpitch \in Nat /\ d.src \in Nat /\ d.spitch \in Nat
      /\ d.width \in Nat /\ d.height \in Nat
      /\ d.flags.mirror_x \in BOOLEAN /\ d.flags.mirror_y \in BOOLEAN
  BY DEF IsDescriptor, Flags
<1>2. /\ j.dst = d.dst /\ j.dpitch = d.dpitch /\ j.src = d.src /\ j.spitch = d.spitch
      /\ j.width = d.width /\ j.height = d.height /\ j.kind = KindOf(op, d)
      /\ j.mirror_x = JobOf(op, d).mirror_x /\ j.mirror_y = JobOf(op, d).mirror_y
  BY DEF Job
<1>3. JobOf(op, d).mirror_x \in BOOLEAN /\ JobOf(op, d).mirror_y \in BOOLEAN
  BY <1>1 DEF JobOf, SpriteJob, Store
<1>4. KindOf(op, d) \in {"fill", "copy", "copy64", "blend"}
  BY DEF KindOf
<1>5. ASSUME KindOf(op, d) = "copy64"
      PROVE  /\ d.width % 2 = 0 /\ d.src % 2 = 0 /\ d.spitch % 2 = 0
             /\ ~JobOf(op, d).mirror_x /\ ~JobOf(op, d).mirror_y
  <2>1. op = "SPRITE_BATCH" /\ ~Flagged(d)
    BY <1>5 DEF KindOf, Opcodes
  <2> QED BY <2>1 DEF JobOf, SpriteJob, Store, Flagged, Copy64Safe
<1> HIDE DEF j
<1> QED BY <1>1, <1>2, <1>3, <1>4, <1>5 DEF IsJob, j

\* What a job does with a pixel is what its draw is documented to do.
Alike(e, f) == /\ e.key = f.key /\ e.modulation = f.modulation /\ e.mode = f.mode
               /\ e.solid = f.solid /\ e.mirror_x = f.mirror_x /\ e.mirror_y = f.mirror_y

LEMMA JobEffect ==
    ASSUME NEW op \in Opcodes, NEW d, IsDescriptor(d),
           op = "SPRITE_BATCH" => (Drawn(d.flags) => ~d.flags.key)
    PROVE  Alike(Job(op, d), EffectOf(op, d))
<1> DEFINE e == JobOf(op, d)
           f == EffectOf(op, d)
<1>1. CASE op = "SPRITE_BATCH"
  <2>1. e = SpriteJob(d)
    BY <1>1 DEF JobOf
  <2>2. /\ f.key = d.flags.key /\ f.solid = FALSE /\ f.mode = ModeOf(d.flags)
        /\ f.modulation = IF Drawn(d.flags) THEN d.word.modulation ELSE "identity"
        /\ f.mirror_x = d.flags.mirror_x /\ f.mirror_y = d.flags.mirror_y
    BY <1>1 DEF EffectOf, Store
  <2>3. d.flags \in Flags
    BY DEF IsDescriptor
  <2>4. Flagged(d) => /\ e.key = (~Drawn(d.flags) /\ d.flags.key) /\ e.solid = FALSE
                      /\ e.mode = ModeOf(d.flags) /\ e.modulation = f.modulation
                      /\ e.mirror_x = d.flags.mirror_x /\ e.mirror_y = d.flags.mirror_y
    BY <2>1, <2>2 DEF SpriteJob, Store
  <2>5. ~Flagged(d) => /\ e.key = d.flags.key /\ e.solid = FALSE
                       /\ e.mode = "none" /\ e.modulation = "identity"
                       /\ e.mirror_x = FALSE /\ e.mirror_y = FALSE
    BY <2>1 DEF SpriteJob, Store
  <2>6. d.flags.key \in BOOLEAN
    BY <2>3 DEF Flags
  <2> SUFFICES Alike(e, f)
    BY DEF Job, Alike
  <2> HIDE DEF e, f
  <2>7. CASE Drawn(d.flags)
    <3>1. Flagged(d) /\ d.flags.key = FALSE
      BY <1>1, <2>6, <2>7 DEF Flagged
    <3>2. e.key = FALSE
      BY <2>4, <2>7, <3>1
    <3>3. e.mirror_x = f.mirror_x /\ e.mirror_y = f.mirror_y
      BY <2>2, <2>4, <3>1
    <3> QED BY <2>2, <2>4, <3>1, <3>2, <3>3 DEF Alike
  <2>8. CASE ~Drawn(d.flags)
    <3>1. /\ ModeOf(d.flags) = "none" /\ d.flags.mirror_x = FALSE
          /\ d.flags.mirror_y = FALSE
      BY <2>3, <2>8 DEF Drawn, Plain, ModeOf, Flags
    <3>2. e.key = d.flags.key
      BY <2>4, <2>5, <2>6, <2>8
    <3>3. e.mirror_x = FALSE /\ e.mirror_y = FALSE
      BY <2>4, <2>5, <3>1
    <3>4. e.mode = "none" /\ e.modulation = "identity" /\ f.modulation = "identity"
          /\ e.solid = FALSE
      BY <2>2, <2>4, <2>5, <2>8, <3>1
    <3> QED BY <2>2, <3>1, <3>2, <3>3, <3>4 DEF Alike
  <2>0. Drawn(d.flags) \in BOOLEAN
    BY DEF Drawn
  <2> QED BY <2>0, <2>7, <2>8
<1>2. CASE op \in {"SOLID_FILL", "FILL_BATCH"}
  BY <1>2 DEF Job, JobOf, EffectOf, Store, Alike
<1>3. CASE op = "BLIT_COPY"
  BY <1>3 DEF Job, JobOf, EffectOf, Store, Alike
<1>4. CASE op = "BLIT_COPY_KEY"
  BY <1>4 DEF Job, JobOf, EffectOf, Store, Alike
<1>5. CASE op = "BLIT_BLEND"
  BY <1>5 DEF Job, JobOf, EffectOf, Store, Alike
<1>6. CASE op = "BLEND_FILL"
  BY <1>6 DEF Job, JobOf, EffectOf, Store, Alike
<1> QED BY <1>1, <1>2, <1>3, <1>4, <1>5, <1>6 DEF Opcodes

-----------------------------------------------------------------------------
(* Areas and layers.                                                       *)

IsArea(area) ==
    /\ area.address \in Nat /\ area.pitch \in Nat
    /\ area.width \in Nat /\ area.height \in Nat
    /\ area.width > 0 /\ area.width <= area.pitch

LEMMA PixelInside ==
    ASSUME NEW area, IsArea(area),
           NEW x \in 0 .. area.width - 1, NEW y \in 0 .. area.height - 1, NEW a,
           a = area.address + y * area.pitch + x
    PROVE  /\ Inside(area, a) /\ a \in Nat
           /\ (a - area.address) % area.pitch = x
           /\ (a - area.address) \div area.pitch = y
<1>1. y \in Nat /\ x \in 0 .. area.pitch - 1 /\ y <= y /\ area.pitch \in Nat
  BY DEF IsArea
<1>2. y * area.pitch \in Nat
  BY <1>1, Product
<1>3. a - area.address = y * area.pitch + x /\ a \in Nat /\ a >= area.address
  BY <1>1, <1>2 DEF IsArea
<1>4. (y * area.pitch + x) % area.pitch = x /\ (y * area.pitch + x) \div area.pitch = y
  BY <1>1, RowAndColumn
<1> DEFINE n == a - area.address
           m == y * area.pitch + x
<1>5. n = m /\ m % area.pitch = x /\ m \div area.pitch = y
  BY <1>3, <1>4
<1> HIDE DEF n, m
<1>6. n % area.pitch = x /\ n \div area.pitch = y
  BY <1>5
<1> QED BY <1>3, <1>6 DEF Inside, n, IsArea

LEMMA InsidePixel ==
    ASSUME NEW area, IsArea(area), NEW a \in Int, Inside(area, a)
    PROVE  LET x == (a - area.address) % area.pitch
               y == (a - area.address) \div area.pitch
           IN  /\ x \in 0 .. area.width - 1 /\ y \in 0 .. area.height - 1
               /\ a = area.address + y * area.pitch + x
<1> DEFINE p == area.pitch
           n == a - area.address
           x == n % p
           y == n \div p
<1>1. n \in Nat /\ p \in Nat /\ p > 0
  BY DEF IsArea, Inside
<1>2. x \in Nat /\ y \in Nat /\ n = y * p + x
  <2> HIDE DEF n, p
  <2>1. x \in Nat /\ y \in Nat /\ n = p * y + x
    BY <1>1
  <2>2. p * y = y * p
    BY <1>1, <2>1
  <2> QED BY <2>1, <2>2
<1>3. x < area.width /\ y < area.height
  BY DEF Inside
<1>4. y * p \in Nat
  <2> HIDE DEF x, y, n, p
  <2> QED BY <1>1, <1>2, Product
<1> HIDE DEF x, y, p
<1> SUFFICES /\ x \in 0 .. area.width - 1 /\ y \in 0 .. area.height - 1
             /\ a = area.address + y * p + x
  BY DEF x, y, p
<1> QED BY <1>2, <1>3, <1>4 DEF IsArea

LEMMA InsideBounds ==
    ASSUME NEW area, IsArea(area), NEW a \in Int, Inside(area, a)
    PROVE  area.address <= a /\ a < RectEnd(area.address, area.pitch, area)
<1> DEFINE x == (a - area.address) % area.pitch
           y == (a - area.address) \div area.pitch
<1>1. /\ x \in 0 .. area.width - 1 /\ y \in 0 .. area.height - 1
      /\ a = area.address + y * area.pitch + x
  BY InsidePixel
<1> HIDE DEF x, y
<1> DEFINE p == area.pitch
           w == area.width
           h == area.height
<1>2. y * p + x \in Nat /\ y * p + x < (h - 1) * p + w
  <2>1. p \in Nat /\ w \in Nat /\ h \in Nat /\ w <= p /\ x \in 0 .. w - 1 /\ y \in 0 .. h - 1
    BY <1>1 DEF IsArea
  <2> HIDE DEF p, w, h
  <2> QED BY <2>1, InRect
<1>3. y * p \in Nat /\ (h - 1) * p \in Nat
  <2>1. y \in Nat /\ h - 1 \in Nat /\ p \in Nat /\ y <= h - 1
    BY <1>1 DEF IsArea
  <2> HIDE DEF p, w, h
  <2> QED BY <2>1, Product
<1> QED BY <1>1, <1>2, <1>3 DEF IsArea, RectEnd

\* Outside its area a layer changes nothing.
LEMMA PaintedOutside ==
    ASSUME NEW picture, NEW layer
    PROVE  /\ DOMAIN Painted(picture, layer) = DOMAIN picture
           /\ \A a \in DOMAIN picture : ~Inside(layer.area, a) =>
                Painted(picture, layer)[a] = picture[a]
BY DEF Painted

IsItem(op, d) ==
    /\ op \in Opcodes /\ IsDescriptor(d)
    /\ d.width > 0 /\ d.height > 0 /\ d.width <= d.dpitch
    /\ op = "SPRITE_BATCH" => (Drawn(d.flags) => ~d.flags.key)

Target(d) == Place(d.dst, d.dpitch, d)
Shown(d) == Place(d.src, d.spitch, d)

\* What a job makes of a pixel s at a pixel t.
Made(j, s, t) == IF Keyed(j, s) THEN t ELSE Combine(j, s, t)
Sourced(j, cell, picture) == IF j.solid THEN j.word.colour ELSE picture[cell.from]

\* A job's cells are the pixels of its descriptor's layer, made as it asks.
LEMMA PaintedCell ==
    ASSUME NEW op, NEW d, IsItem(op, d), NEW picture,
           NEW x \in 0 .. d.width - 1, NEW y \in 0 .. d.height - 1,
           Cell(Job(op, d), x, y).to \in DOMAIN picture
    PROVE  LET j == Job(op, d)
               cell == Cell(j, x, y)
           IN  /\ Painted(picture, ItemLayer(op, d))[cell.to] =
                    Made(j, Sourced(j, cell, picture), picture[cell.to])
               /\ Inside(Target(d), cell.to) /\ cell.to \in Nat
<1> DEFINE j == Job(op, d)
           cell == Cell(j, x, y)
           a == cell.to
           layer == ItemLayer(op, d)
           e == EffectOf(op, d)
           area == Target(d)
<1>1. Alike(j, e)
  BY JobEffect DEF IsItem
<1>2. /\ j.dst = d.dst /\ j.dpitch = d.dpitch /\ j.src = d.src /\ j.spitch = d.spitch
      /\ j.width = d.width /\ j.height = d.height /\ j.word = d.word
  BY DEF Job
<1>3. IsArea(area) /\ area.address = d.dst /\ area.pitch = d.dpitch
      /\ area.width = d.width /\ area.height = d.height
  BY DEF Target, Place, IsArea, IsItem, IsDescriptor
<1>4. a = area.address + y * area.pitch + x
  BY <1>2, <1>3 DEF Cell
<1>5. /\ Inside(area, a) /\ a \in Nat
      /\ (a - area.address) % area.pitch = x
      /\ (a - area.address) \div area.pitch = y
  <2> HIDE DEF area, a
  <2> QED BY <1>3, <1>4, PixelInside
<1>6. /\ layer.area = area /\ layer.effect = e
      /\ layer.draw.word = d.word /\ layer.draw.x = 0 /\ layer.draw.y = 0
      /\ layer.draw.rect.x = 0 /\ layer.draw.rect.y = 0
      /\ layer.draw.rect.width = d.width /\ layer.draw.rect.height = d.height
      /\ layer.from.address = d.src /\ layer.from.pitch = d.spitch
      /\ layer.from.width = d.width /\ layer.from.height = d.height
  BY DEF ItemLayer, Target, Place, Whole
<1> DEFINE p == Mirror(x, d.width, j.mirror_x)
           q == Mirror(y, d.height, j.mirror_y)
<1>7. cell.from = d.src + q * d.spitch + p
  BY <1>2 DEF Cell
<1>8. p \in 0 .. d.width - 1 /\ q \in 0 .. d.height - 1
  BY DEF Mirror, IsItem, IsDescriptor
<1>9. p = ShownAt(0, 0, d.width, e.mirror_x, x) /\ q = ShownAt(0, 0, d.height, e.mirror_y, y)
  BY <1>1 DEF Mirror, ShownAt, Alike, IsItem, IsDescriptor
<1> DEFINE s == Sourced(j, cell, picture)
<1>10. s = IF e.solid THEN d.word.colour ELSE picture[d.src + q * d.spitch + p]
  BY <1>1, <1>2, <1>7 DEF Alike, Sourced
<1>11. Painted(picture, layer)[a] = IF e.key /\ s = d.word.colour THEN picture[a]
                                    ELSE Combine(e, s, picture[a])
  <2>1. p \in 0 .. 0 + d.width - 1 /\ q \in 0 .. 0 + d.height - 1
    BY <1>8 DEF IsItem, IsDescriptor
  <2>2. a \in DOMAIN picture
    OBVIOUS
  <2> HIDE DEF a, area, layer, e, p, q, s, cell, j
  <2> QED BY <1>5, <1>6, <1>8, <1>9, <1>10, <2>1, <2>2 DEF Painted
<1>12. Combine(e, s, picture[a]) = Combine(j, s, picture[a])
  BY <1>1 DEF Combine, Alike
<1>13. Keyed(j, s) = (j.key /\ s = d.word.colour) /\ e.key = j.key
  BY <1>1, <1>2 DEF Keyed, Alike
<1> HIDE DEF a, s, e, j, layer, area
<1>14. Painted(picture, layer)[a] = Made(j, s, picture[a])
  BY <1>11, <1>12, <1>13 DEF Made
<1> QED BY <1>5, <1>14 DEF j, a, layer, area, s

-----------------------------------------------------------------------------
(* What clipping keeps of a draw.                                          *)

LEMMA SourceLowKeeps ==
    ASSUME NEW a \in Axis, NEW m \in BOOLEAN, NEW p \in Int, NEW q \in Int
    PROVE  /\ SourceLow(a, m) \in Axis /\ SourceLow(a, m).s >= 0
           /\ Shows(SourceLow(a, m), m, p, q) <=> (Shows(a, m, p, q) /\ p >= 0)
  BY DEF Axis, SourceLow, Shows

LEMMA SourceHighKeeps ==
    ASSUME NEW a \in Axis, NEW limit \in Nat, NEW m \in BOOLEAN,
           NEW p \in Int, NEW q \in Int
    PROVE  /\ SourceHigh(a, limit, m) \in Axis
           /\ SourceHigh(a, limit, m).s = a.s
           /\ SourceHigh(a, limit, m).s + SourceHigh(a, limit, m).length
                <= limit
           /\ Shows(SourceHigh(a, limit, m), m, p, q)
                <=> (Shows(a, m, p, q) /\ p < limit)
  BY DEF Axis, SourceHigh, Shows

LEMMA DestinationLowKeeps ==
    ASSUME NEW a \in Axis, NEW m \in BOOLEAN, NEW p \in Int, NEW q \in Int
    PROVE  /\ DestinationLow(a, m) \in Axis /\ DestinationLow(a, m).d >= 0
           /\ DestinationLow(a, m).s >= a.s
           /\ DestinationLow(a, m).s + DestinationLow(a, m).length
                <= a.s + a.length
           /\ Shows(DestinationLow(a, m), m, p, q)
                <=> (Shows(a, m, p, q) /\ q >= 0)
  BY DEF Axis, DestinationLow, Shows

LEMMA DestinationHighKeeps ==
    ASSUME NEW a \in Axis, NEW limit \in Nat, NEW m \in BOOLEAN,
           NEW p \in Int, NEW q \in Int
    PROVE  /\ DestinationHigh(a, limit, m) \in Axis
           /\ DestinationHigh(a, limit, m).d = a.d
           /\ DestinationHigh(a, limit, m).d + DestinationHigh(a, limit, m).length
                <= limit
           /\ DestinationHigh(a, limit, m).s >= a.s
           /\ DestinationHigh(a, limit, m).s + DestinationHigh(a, limit, m).length
                <= a.s + a.length
           /\ Shows(DestinationHigh(a, limit, m), m, p, q)
                <=> (Shows(a, m, p, q) /\ q < limit)
  BY DEF Axis, DestinationHigh, Shows

(* A clipped draw shows exactly the source pixels of the request that both *)
(* surfaces have, each at the destination pixel the request gives it,      *)
(* mirrored or not: whatever the sides that are cut (clip_axis,            *)
(* noodles_surface.c:405-431).                                             *)
THEOREM ClipKeepsVisiblePixels ==
    ASSUME NEW a \in Axis, NEW sl \in Nat, NEW dl \in Nat, NEW m \in BOOLEAN,
           NEW p \in Int, NEW q \in Int
    PROVE  Shows(ClipAxis(a, sl, dl, m), m, p, q)
             <=> (Shows(a, m, p, q) /\ p \in 0 .. sl - 1 /\ q \in 0 .. dl - 1)
  <1> DEFINE low == SourceLow(a, m)
             high == SourceHigh(low, sl, m)
             left == DestinationLow(high, m)
             right == DestinationHigh(left, dl, m)
  <1>1. low \in Axis /\ (Shows(low, m, p, q) <=> (Shows(a, m, p, q) /\ p >= 0))
    BY SourceLowKeeps
  <1>2. high \in Axis
        /\ (Shows(high, m, p, q) <=> (Shows(low, m, p, q) /\ p < sl))
    BY <1>1, SourceHighKeeps
  <1>3. left \in Axis
        /\ (Shows(left, m, p, q) <=> (Shows(high, m, p, q) /\ q >= 0))
    BY <1>2, DestinationLowKeeps
  <1>4. Shows(right, m, p, q) <=> (Shows(left, m, p, q) /\ q < dl)
    BY <1>3, DestinationHighKeeps
  <1>5. ClipAxis(a, sl, dl, m) = right
    BY DEF ClipAxis
  <1>6. /\ p \in 0 .. sl - 1 <=> (p >= 0 /\ p < sl)
        /\ q \in 0 .. dl - 1 <=> (q >= 0 /\ q < dl)
    OBVIOUS
  <1> HIDE DEF low, high, left, right
  <1> QED BY <1>1, <1>2, <1>3, <1>4, <1>5, <1>6

(* What is left of a draw lies inside both surfaces: the addresses that    *)
(* clipped_draw forms from it name pixels of the surfaces.                 *)
THEOREM ClippedDrawInside ==
    ASSUME NEW a \in Axis, NEW sl \in Nat, NEW dl \in Nat, NEW m \in BOOLEAN,
           ClipAxis(a, sl, dl, m).length > 0
    PROVE  LET c == ClipAxis(a, sl, dl, m) IN
           /\ 0 <= c.s /\ c.s + c.length <= sl
           /\ 0 <= c.d /\ c.d + c.length <= dl
  <1> DEFINE low == SourceLow(a, m)
             high == SourceHigh(low, sl, m)
             left == DestinationLow(high, m)
             right == DestinationHigh(left, dl, m)
  <1>1. low \in Axis /\ low.s >= 0
    BY SourceLowKeeps, 0 \in Int
  <1>2. high \in Axis /\ high.s >= 0 /\ high.s + high.length <= sl
    BY <1>1, SourceHighKeeps, 0 \in Int
  <1>3. left \in Axis /\ left.d >= 0 /\ left.s >= high.s
        /\ left.s + left.length <= high.s + high.length
    BY <1>2, DestinationLowKeeps, 0 \in Int
  <1>4. right \in Axis /\ right.d = left.d /\ right.d + right.length <= dl
        /\ right.s >= left.s /\ right.s + right.length <= left.s + left.length
    BY <1>3, DestinationHighKeeps, 0 \in Int
  <1>5. ClipAxis(a, sl, dl, m) = right
    BY DEF ClipAxis
  <1> HIDE DEF low, high, left, right
  <1> QED BY <1>1, <1>2, <1>3, <1>4, <1>5 DEF Axis

LEMMA ClippedAxis ==
    ASSUME NEW a \in Axis, NEW sl \in Nat, NEW dl \in Nat, NEW m \in BOOLEAN
    PROVE  ClipAxis(a, sl, dl, m) \in Axis
<1> DEFINE low == SourceLow(a, m)
           high == SourceHigh(low, sl, m)
           left == DestinationLow(high, m)
           right == DestinationHigh(left, dl, m)
<1>1. low \in Axis
  BY SourceLowKeeps, 0 \in Int
<1>2. high \in Axis
  BY <1>1, SourceHighKeeps, 0 \in Int
<1>3. left \in Axis
  BY <1>2, DestinationLowKeeps, 0 \in Int
<1>4. right \in Axis
  BY <1>3, DestinationHighKeeps, 0 \in Int
<1> QED BY <1>4 DEF ClipAxis

\* c is what a surface of a length, and a source if not solid, leave of an axis.
AxisLeft(s, d, length, m, solid, source, target, c) ==
    /\ c.d \in Int /\ c.length \in Int
    /\ ~solid => c.s \in Int
    /\ \A q \in Int :
        LET p == ShownAt(s, d, length, m, q) IN
        /\ q \in c.d .. c.d + c.length - 1 <=>
                /\ p \in s .. s + length - 1 /\ q \in 0 .. target - 1
                /\ solid \/ p \in 0 .. source - 1
        /\ q \in c.d .. c.d + c.length - 1 /\ ~solid =>
                p = c.s + ShownAt(0, 0, c.length, m, q - c.d)

LEMMA DrawLeft ==
    ASSUME NEW s \in Int, NEW d \in Int, NEW length \in Nat, NEW m \in BOOLEAN,
           NEW source \in Nat, NEW target \in Nat
    PROVE  AxisLeft(s, d, length, m, FALSE, source, target,
                    ClipAxis([s |-> s, d |-> d, length |-> length], source, target, m))
<1> DEFINE a == [s |-> s, d |-> d, length |-> length]
           c == ClipAxis(a, source, target, m)
<1>1. a \in Axis
  BY DEF Axis
<1>2. c \in Axis
  <2> HIDE DEF a
  <2> QED BY <1>1, ClippedAxis
<1>3. \A p, q \in Int : Shows(c, m, p, q) <=>
            (Shows(a, m, p, q) /\ p \in 0 .. source - 1 /\ q \in 0 .. target - 1)
  <2> HIDE DEF a
  <2> QED BY <1>1, ClipKeepsVisiblePixels
<1>4. a.s = s /\ a.d = d /\ a.length = length
  OBVIOUS
<1>5. c.s \in Int /\ c.d \in Int /\ c.length \in Int
  BY <1>2 DEF Axis
<1> HIDE DEF a, c
<1>6. ASSUME NEW q \in Int
      PROVE  LET p == ShownAt(s, d, length, m, q) IN
        /\ q \in c.d .. c.d + c.length - 1 <=>
                /\ p \in s .. s + length - 1 /\ q \in 0 .. target - 1
                /\ p \in 0 .. source - 1
        /\ q \in c.d .. c.d + c.length - 1 =>
                p = c.s + ShownAt(0, 0, c.length, m, q - c.d)
  <2> DEFINE p == ShownAt(s, d, length, m, q)
             r == c.s + ShownAt(0, 0, c.length, m, q - c.d)
  <2>1. p \in Int /\ r \in Int
    BY <1>5 DEF ShownAt
  <2>2. Shows(a, m, p, q) <=> p \in s .. s + length - 1
    BY <1>4 DEF Shows, ShownAt
  <2>3. Shows(c, m, r, q) <=> q \in c.d .. c.d + c.length - 1
    BY <1>5 DEF Shows, ShownAt
  <2>4. Shows(c, m, p, q) => q \in c.d .. c.d + c.length - 1
    <3>1. p \in Int
      BY <2>1
    <3> HIDE DEF p
    <3> QED BY <1>5, <3>1 DEF Shows
  <2>5. Shows(a, m, r, q) => r = p
    <3>1. r \in Int
      BY <2>1
    <3> HIDE DEF r
    <3> QED BY <1>4, <3>1 DEF Shows, ShownAt
  <2> HIDE DEF p, r
  <2> QED BY <1>3, <2>1, <2>2, <2>3, <2>4, <2>5 DEF p, r
<1>7. AxisLeft(s, d, length, m, FALSE, source, target, c)
  BY <1>5, <1>6 DEF AxisLeft
<1> QED BY <1>7 DEF c, a

LEMMA FillLeft ==
    ASSUME NEW s \in Int, NEW length \in Nat, NEW source, NEW target \in Nat
    PROVE  AxisLeft(s, s, length, FALSE, TRUE, source, target, ClipSpan(s, length, target))
<1> DEFINE c == ClipSpan(s, length, target)
<1>1. c.d \in Int /\ c.length \in Int
  BY DEF ClipSpan
<1>2. ASSUME NEW q \in Int
      PROVE  /\ ShownAt(s, s, length, FALSE, q) = q
             /\ q \in c.d .. c.d + c.length - 1 <=>
                    (q \in s .. s + length - 1 /\ q \in 0 .. target - 1)
  BY DEF ClipSpan, ShownAt
<1> HIDE DEF c
<1>3. AxisLeft(s, s, length, FALSE, TRUE, source, target, c)
  BY <1>1, <1>2 DEF AxisLeft
<1> QED BY <1>3 DEF c

-----------------------------------------------------------------------------
(* A clipped draw paints what the draw it was made of would.               *)

LEMMA AxisLeftInside ==
    ASSUME NEW s, NEW d, NEW length, NEW m, NEW solid, NEW source, NEW target \in Nat,
           NEW c, AxisLeft(s, d, length, m, solid, source, target, c), c.length > 0
    PROVE  0 <= c.d /\ c.d + c.length <= target
<1>1. /\ c.d \in Int /\ c.length \in Int
      /\ \A q \in Int : q \in c.d .. c.d + c.length - 1 => q \in 0 .. target - 1
  BY DEF AxisLeft
<1>2. c.d \in 0 .. target - 1
  BY <1>1
<1>3. c.d + c.length - 1 \in 0 .. target - 1
  BY <1>1
<1> QED BY <1>1, <1>2, <1>3

\* The rectangle of an area from column left and row top.
LEMMA Subarea ==
    ASSUME NEW area, IsArea(area), NEW sub, IsArea(sub), sub.pitch = area.pitch,
           NEW left \in Nat, NEW top \in Nat,
           left + sub.width <= area.width, top + sub.height <= area.height,
           sub.address = area.address + top * area.pitch + left, NEW a \in Int
    PROVE  LET x == (a - area.address) % area.pitch
               y == (a - area.address) \div area.pitch
           IN  /\ Inside(sub, a) <=> /\ Inside(area, a) /\ x \in left .. left + sub.width - 1
                                     /\ y \in top .. top + sub.height - 1
               /\ Inside(sub, a) => /\ (a - sub.address) % area.pitch = x - left
                                    /\ (a - sub.address) \div area.pitch = y - top
               /\ Inside(area, a) => x \in 0 .. area.width - 1 /\ y \in 0 .. area.height - 1
<1> DEFINE p == area.pitch
           x == (a - area.address) % p
           y == (a - area.address) \div p
           u == (a - sub.address) % p
           v == (a - sub.address) \div p
<1>1. p \in Nat /\ top * p \in Nat /\ area.address \in Nat /\ sub.address \in Nat
      /\ area.width \in Nat /\ area.height \in Nat /\ sub.width \in Nat /\ sub.height \in Nat
  <2>1. p \in Nat
    BY DEF IsArea
  <2> HIDE DEF p
  <2> QED BY <2>1, Product DEF IsArea
<1>2. ASSUME Inside(sub, a)
      PROVE  /\ Inside(area, a) /\ u = x - left /\ v = y - top
             /\ u \in 0 .. sub.width - 1 /\ v \in 0 .. sub.height - 1
  <2>1. u \in 0 .. sub.width - 1 /\ v \in 0 .. sub.height - 1 /\ a = sub.address + v * p + u
    BY <1>2, InsidePixel
  <2> DEFINE xx == left + u
             yy == top + v
  <2> HIDE DEF u, v
  <2>2. v * p \in Nat /\ yy * p = top * p + v * p
    <3> HIDE DEF p
    <3> QED BY <1>1, <2>1, Product
  <2>3. xx \in 0 .. area.width - 1 /\ yy \in 0 .. area.height - 1
    BY <1>1, <2>1
  <2>4. a = area.address + yy * p + xx
    <3> HIDE DEF p, yy
    <3> QED BY <1>1, <2>1, <2>2 DEF p
  <2>5. Inside(area, a) /\ x = xx /\ y = yy
    <3> HIDE DEF xx, yy
    <3> QED BY <2>3, <2>4, PixelInside
  <2> QED BY <1>1, <2>1, <2>5
<1>3. ASSUME Inside(area, a), x \in left .. left + sub.width - 1, y \in top .. top + sub.height - 1
      PROVE  Inside(sub, a)
  <2>1. a = area.address + y * p + x
    BY <1>3, InsidePixel
  <2> DEFINE xx == x - left
             yy == y - top
  <2>2. xx \in 0 .. sub.width - 1 /\ yy \in 0 .. sub.height - 1
    <3> HIDE DEF x, y
    <3> QED BY <1>1, <1>3
  <2> HIDE DEF x, y
  <2>3. yy \in Nat /\ yy * p \in Nat /\ y * p = top * p + yy * p
    <3>1. yy \in Nat /\ y = top + yy
      BY <1>1, <1>3, <2>2
    <3> HIDE DEF p, yy
    <3> QED BY <1>1, <3>1, Product
  <2>4. a = sub.address + yy * p + xx
    <3> HIDE DEF p, yy
    <3> QED BY <1>1, <1>3, <2>1, <2>3 DEF p
  <2> HIDE DEF xx, yy
  <2> QED BY <2>2, <2>4, PixelInside
<1>4. Inside(area, a) => x \in 0 .. area.width - 1 /\ y \in 0 .. area.height - 1
  BY InsidePixel
<1>5. ASSUME Inside(sub, a)
      PROVE  x \in left .. left + sub.width - 1 /\ y \in top .. top + sub.height - 1
  <2>1. x \in Int /\ y \in Int
    BY <1>2, <1>4, <1>5
  <2> HIDE DEF x, y, u, v
  <2> QED BY <1>1, <1>2, <1>5, <2>1
<1> QED BY <1>2, <1>3, <1>4, <1>5

WidthLeft(layer, c) ==
    AxisLeft(layer.draw.rect.x, layer.draw.x, layer.draw.rect.width, layer.effect.mirror_x,
             layer.effect.solid, layer.from.width, layer.area.width, c)
HeightLeft(layer, c) ==
    AxisLeft(layer.draw.rect.y, layer.draw.y, layer.draw.rect.height, layer.effect.mirror_y,
             layer.effect.solid, layer.from.height, layer.area.height, c)

\* The rectangle that is left of a layer, as a layer.
IsLeft(layer, h, v, left) ==
    /\ IsArea(left.area) /\ left.area.pitch = layer.area.pitch
    /\ left.area.width = h.length /\ left.area.height = v.length
    /\ left.area.address = layer.area.address + v.d * layer.area.pitch + h.d
    /\ left.effect = layer.effect /\ left.draw.word = layer.draw.word
    /\ left.draw.x = 0 /\ left.draw.y = 0
    /\ left.draw.rect = [x |-> 0, y |-> 0, width |-> h.length, height |-> v.length]
    /\ ~layer.effect.solid =>
        /\ left.from.address = layer.from.address + v.s * layer.from.pitch + h.s
        /\ left.from.pitch = layer.from.pitch
        /\ left.from.width = h.length /\ left.from.height = v.length

\* What a layer makes of a pixel.
Coloured(picture, layer, s, a) ==
    IF layer.effect.key /\ s = layer.draw.word.colour THEN picture[a]
    ELSE Combine(layer.effect, s, picture[a])
SourceColour(picture, layer, p, q) ==
    IF layer.effect.solid THEN layer.draw.word.colour
    ELSE picture[layer.from.address + q * layer.from.pitch + p]
Across(layer, x) == ShownAt(layer.draw.rect.x, layer.draw.x, layer.draw.rect.width,
                            layer.effect.mirror_x, x)
Down(layer, y) == ShownAt(layer.draw.rect.y, layer.draw.y, layer.draw.rect.height,
                          layer.effect.mirror_y, y)
ShownIn(layer, p, q) ==
    /\ p \in layer.draw.rect.x .. layer.draw.rect.x + layer.draw.rect.width - 1
    /\ q \in layer.draw.rect.y .. layer.draw.rect.y + layer.draw.rect.height - 1
    /\ layer.effect.solid \/ (p \in 0 .. layer.from.width - 1 /\ q \in 0 .. layer.from.height - 1)

LEMMA PaintedPixel ==
    ASSUME NEW picture, NEW layer, NEW a \in DOMAIN picture
    PROVE  LET x == (a - layer.area.address) % layer.area.pitch
               y == (a - layer.area.address) \div layer.area.pitch
               p == Across(layer, x)
               q == Down(layer, y)
           IN  Painted(picture, layer)[a] =
                IF ~Inside(layer.area, a) \/ ~ShownIn(layer, p, q) THEN picture[a]
                ELSE Coloured(picture, layer, SourceColour(picture, layer, p, q), a)
BY DEF Painted, Across, Down, ShownIn, Coloured, SourceColour

\* What of a layer shows is what the axes leave.
LEMMA ShownLeft ==
    ASSUME NEW layer, NEW h, NEW v, WidthLeft(layer, h), HeightLeft(layer, v),
           NEW x \in 0 .. layer.area.width - 1, NEW y \in 0 .. layer.area.height - 1
    PROVE  /\ ShownIn(layer, Across(layer, x), Down(layer, y)) <=>
                x \in h.d .. h.d + h.length - 1 /\ y \in v.d .. v.d + v.length - 1
           /\ x \in h.d .. h.d + h.length - 1 /\ ~layer.effect.solid =>
                Across(layer, x) = h.s + ShownAt(0, 0, h.length, layer.effect.mirror_x, x - h.d)
           /\ y \in v.d .. v.d + v.length - 1 /\ ~layer.effect.solid =>
                Down(layer, y) = v.s + ShownAt(0, 0, v.length, layer.effect.mirror_y, y - v.d)
<1> DEFINE p == Across(layer, x)
           q == Down(layer, y)
<1>1. /\ x \in h.d .. h.d + h.length - 1 <=>
            /\ p \in layer.draw.rect.x .. layer.draw.rect.x + layer.draw.rect.width - 1
            /\ x \in 0 .. layer.area.width - 1
            /\ layer.effect.solid \/ p \in 0 .. layer.from.width - 1
      /\ x \in h.d .. h.d + h.length - 1 /\ ~layer.effect.solid =>
            p = h.s + ShownAt(0, 0, h.length, layer.effect.mirror_x, x - h.d)
  BY DEF WidthLeft, AxisLeft, Across
<1>2. /\ y \in v.d .. v.d + v.length - 1 <=>
            /\ q \in layer.draw.rect.y .. layer.draw.rect.y + layer.draw.rect.height - 1
            /\ y \in 0 .. layer.area.height - 1
            /\ layer.effect.solid \/ q \in 0 .. layer.from.height - 1
      /\ y \in v.d .. v.d + v.length - 1 /\ ~layer.effect.solid =>
            q = v.s + ShownAt(0, 0, v.length, layer.effect.mirror_y, y - v.d)
  BY DEF HeightLeft, AxisLeft, Down
<1> HIDE DEF p, q
<1>3. ShownIn(layer, p, q) <=>
            x \in h.d .. h.d + h.length - 1 /\ y \in v.d .. v.d + v.length - 1
  BY <1>1, <1>2 DEF ShownIn
<1> QED BY <1>1, <1>2, <1>3 DEF p, q

LEMMA LeftNothing ==
    ASSUME NEW picture, NEW layer, NEW h, NEW v, IsArea(layer.area),
           WidthLeft(layer, h), HeightLeft(layer, v), h.length <= 0 \/ v.length <= 0,
           NEW a \in DOMAIN picture, a \in Int
    PROVE  Painted(picture, layer)[a] = picture[a]
<1> DEFINE x == (a - layer.area.address) % layer.area.pitch
           y == (a - layer.area.address) \div layer.area.pitch
           p == Across(layer, x)
           q == Down(layer, y)
<1>1. CASE ~Inside(layer.area, a)
  BY <1>1, PaintedOutside
<1>2. CASE Inside(layer.area, a)
  <2>1. x \in 0 .. layer.area.width - 1 /\ y \in 0 .. layer.area.height - 1
    BY <1>2, InsidePixel
  <2>2. ~ShownIn(layer, p, q)
    <3>1. h.length \in Int /\ v.length \in Int /\ h.d \in Int /\ v.d \in Int
      BY DEF WidthLeft, HeightLeft, AxisLeft
    <3>2. ~(x \in h.d .. h.d + h.length - 1 /\ y \in v.d .. v.d + v.length - 1)
      <4>1. x \in Int /\ y \in Int
        BY <2>1
      <4> HIDE DEF x, y
      <4> QED BY <3>1, <4>1
    <3> HIDE DEF x, y
    <3> QED BY <2>1, <3>2, ShownLeft
  <2>3. Painted(picture, layer)[a] =
                IF ~Inside(layer.area, a) \/ ~ShownIn(layer, p, q) THEN picture[a]
                ELSE Coloured(picture, layer, SourceColour(picture, layer, p, q), a)
    BY PaintedPixel
  <2> HIDE DEF p, q
  <2> QED BY <2>2, <2>3
<1> QED BY <1>1, <1>2

LEMMA LeftSame ==
    ASSUME NEW picture, NEW layer, NEW h, NEW v, NEW left, IsArea(layer.area),
           WidthLeft(layer, h), HeightLeft(layer, v), h.length > 0, v.length > 0,
           IsLeft(layer, h, v, left), layer.effect.mirror_x \in BOOLEAN,
           layer.effect.mirror_y \in BOOLEAN,
           layer.from.address \in Nat, layer.from.pitch \in Nat,
           NEW a \in DOMAIN picture, a \in Int
    PROVE  Painted(picture, layer)[a] = Painted(picture, left)[a]
<1> DEFINE area == layer.area
           sub == left.area
           x == (a - area.address) % area.pitch
           y == (a - area.address) \div area.pitch
           p == Across(layer, x)
           q == Down(layer, y)
           u == (a - sub.address) % sub.pitch
           w == (a - sub.address) \div sub.pitch
           pp == Across(left, u)
           qq == Down(left, w)
<1>1. Painted(picture, layer)[a] =
                IF ~Inside(area, a) \/ ~ShownIn(layer, p, q) THEN picture[a]
                ELSE Coloured(picture, layer, SourceColour(picture, layer, p, q), a)
  BY PaintedPixel
<1>2. Painted(picture, left)[a] =
                IF ~Inside(sub, a) \/ ~ShownIn(left, pp, qq) THEN picture[a]
                ELSE Coloured(picture, left, SourceColour(picture, left, pp, qq), a)
  BY PaintedPixel
<1>3. /\ h.d \in Int /\ v.d \in Int /\ h.length \in Int /\ v.length \in Int
      /\ ~layer.effect.solid => h.s \in Int /\ v.s \in Int
  BY DEF WidthLeft, HeightLeft, AxisLeft
<1>4. /\ 0 <= h.d /\ h.d + h.length <= area.width
      /\ 0 <= v.d /\ v.d + v.length <= area.height
  <2>1. area.width \in Nat /\ area.height \in Nat
    BY DEF IsArea
  <2> QED BY <2>1, AxisLeftInside DEF WidthLeft, HeightLeft
<1>5. /\ IsArea(sub) /\ sub.pitch = area.pitch /\ sub.width = h.length /\ sub.height = v.length
      /\ sub.address = area.address + v.d * area.pitch + h.d
  BY DEF IsLeft
<1>6. /\ Inside(sub, a) <=> /\ Inside(area, a) /\ x \in h.d .. h.d + h.length - 1
                            /\ y \in v.d .. v.d + v.length - 1
      /\ Inside(sub, a) => u = x - h.d /\ w = y - v.d
      /\ Inside(area, a) => x \in 0 .. area.width - 1 /\ y \in 0 .. area.height - 1
  <2>1. h.d \in Nat /\ v.d \in Nat
    BY <1>3, <1>4
  <2> HIDE DEF area, sub
  <2> QED BY <1>4, <1>5, <2>1, Subarea DEF area
<1>7. Inside(area, a) => (ShownIn(layer, p, q) <=>
          x \in h.d .. h.d + h.length - 1 /\ y \in v.d .. v.d + v.length - 1)
  <2> HIDE DEF x, y
  <2> QED BY <1>6, ShownLeft
<1>8. CASE ~Inside(sub, a)
  <2> HIDE DEF x, y, p, q, pp, qq, sub
  <2> QED BY <1>1, <1>2, <1>6, <1>7, <1>8
<1>9. CASE Inside(sub, a)
  <2>1. /\ Inside(area, a) /\ ShownIn(layer, p, q)
        /\ x \in h.d .. h.d + h.length - 1 /\ y \in v.d .. v.d + v.length - 1
        /\ u = x - h.d /\ w = y - v.d
        /\ x \in 0 .. area.width - 1 /\ y \in 0 .. area.height - 1
    <3> HIDE DEF x, y, p, q, u, w, sub, area
    <3> QED BY <1>6, <1>7, <1>9
  <2>2. u \in 0 .. h.length - 1 /\ w \in 0 .. v.length - 1
    <3> HIDE DEF x, y, u, w
    <3> QED BY <1>3, <2>1
  <2>3. pp = ShownAt(0, 0, h.length, layer.effect.mirror_x, u)
        /\ qq = ShownAt(0, 0, v.length, layer.effect.mirror_y, w)
    <3> HIDE DEF u, w
    <3> QED BY DEF IsLeft, Across, Down
  <2>4. pp \in 0 .. h.length - 1 /\ qq \in 0 .. v.length - 1
    <3> HIDE DEF u, w, pp, qq
    <3> QED BY <1>3, <2>2, <2>3 DEF ShownAt
  <2>5. ShownIn(left, pp, qq)
    <3> HIDE DEF pp, qq
    <3> QED BY <1>3, <2>4 DEF ShownIn, IsLeft
  <2>6. ~layer.effect.solid => p = h.s + pp /\ q = v.s + qq
    <3>1. ~layer.effect.solid =>
            /\ p = h.s + ShownAt(0, 0, h.length, layer.effect.mirror_x, x - h.d)
            /\ q = v.s + ShownAt(0, 0, v.length, layer.effect.mirror_y, y - v.d)
      <4> HIDE DEF x, y
      <4> QED BY <2>1, ShownLeft
    <3> HIDE DEF x, y, u, w, p, q, pp, qq
    <3> QED BY <2>1, <2>3, <3>1
  <2>7. SourceColour(picture, layer, p, q) = SourceColour(picture, left, pp, qq)
    <3>1. CASE layer.effect.solid
      BY <3>1 DEF SourceColour, IsLeft
    <3>2. CASE ~layer.effect.solid
      <4> DEFINE f == layer.from.address
                 n == layer.from.pitch
      <4>1. left.from.address = f + v.s * n + h.s /\ left.from.pitch = n
            /\ left.effect = layer.effect
        BY <3>2 DEF IsLeft
      <4>2. f + q * n + p = (f + v.s * n + h.s) + qq * n + pp
        <5>1. pp \in Int /\ qq \in Int
          BY <2>4
        <5> HIDE DEF pp, qq, p, q, f, n
        <5>2. q * n = v.s * n + qq * n
          BY <1>3, <2>6, <3>2, <5>1 DEF n
        <5>3. v.s * n \in Int /\ qq * n \in Int
          BY <1>3, <3>2, <5>1 DEF n
        <5> QED BY <1>3, <2>6, <3>2, <5>1, <5>2, <5>3 DEF f
      <4> HIDE DEF pp, qq, p, q
      <4> QED BY <3>2, <4>1, <4>2 DEF SourceColour
    <3> QED BY <3>1, <3>2
  <2>8. \A s : Coloured(picture, layer, s, a) = Coloured(picture, left, s, a)
    BY DEF Coloured, IsLeft
  <2> HIDE DEF pp, qq, p, q, sub, area
  <2> QED BY <1>1, <1>2, <1>9, <2>1, <2>5, <2>7, <2>8
<1> QED BY <1>8, <1>9

ClippedOf(r, draw) == IF r.call \in FillCalls THEN ClippedFill(Area(r.target), draw)
                      ELSE ClippedDraw(Area(r.target), draw)

LEMMA NoneOrOne ==
    /\ \A T : Size(<< >>) = 0 /\ << >> \in Seq(T)
    /\ \A d : Size(<<d>>) = 1 /\ <<d>>[1] = d
    /\ \A T : \A d \in T : <<d>> \in Seq(T)
BY DEF Size

LEMMA NamedArea ==
    ASSUME NEW name \in Names
    PROVE  IsArea(Area(name)) /\ Area(name).height > 0
BY DrawCallsAssumption DEF IsArea

LEMMA CallAreas ==
    ASSUME NEW r, IsCall(r), ~Refused(r), NEW i \in DOMAIN r.draws
    PROVE  /\ r.target \in Names
           /\ r.call \notin FillCalls => /\ r.draws[i].source \in Names
                                         /\ r.draws[i].source # r.target
BY DEF Refused, RefusedDraw, Live, Names

\* The effect of a call on its draws.
LEMMA CallEffect ==
    ASSUME NEW r, IsCall(r), NEW i \in DOMAIN r.draws
    PROVE  LET draw == r.draws[i]
               e == EffectOf(Opcode(r.call), draw)
           IN  /\ r.call \in FillCalls => /\ e.solid = TRUE /\ e.mirror_x = FALSE
                                          /\ e.mirror_y = FALSE
               /\ r.call \notin FillCalls => /\ e.solid = FALSE
                                             /\ e.mirror_x = draw.flags.mirror_x
                                             /\ e.mirror_y = draw.flags.mirror_y
               /\ draw.flags.mirror_x \in BOOLEAN /\ draw.flags.mirror_y \in BOOLEAN
               /\ \A d : d.word = draw.word /\ d.flags = draw.flags =>
                    EffectOf(Opcode(r.call), d) = e
               /\ Opcode(r.call) \in Opcodes
<1> DEFINE draw == r.draws[i]
           op == Opcode(r.call)
           e == EffectOf(op, draw)
<1>1. IsDraw(draw) /\ (r.call \in {"blit", "blend"} => draw.flags = Plain)
  BY DEF IsCall
<1>2. draw.flags.mirror_x \in BOOLEAN /\ draw.flags.mirror_y \in BOOLEAN
  BY <1>1 DEF IsDraw, Flags
<1>3. \A d : d.word = draw.word /\ d.flags = draw.flags => EffectOf(op, d) = e
  BY DEF EffectOf
<1>4. r.call \in FillCalls => e.solid = TRUE /\ e.mirror_x = FALSE /\ e.mirror_y = FALSE
  BY DEF FillCalls, Opcode, EffectOf, Store
<1>5. CASE r.call \in {"blit", "blend"}
  <2>1. op \in {"BLIT_COPY", "BLIT_BLEND"} /\ r.call \notin FillCalls
    BY <1>5 DEF Opcode, FillCalls
  <2>2. e.solid = FALSE /\ e.mirror_x = FALSE /\ e.mirror_y = FALSE
    BY <2>1 DEF EffectOf, Store
  <2>3. draw.flags.mirror_x = FALSE /\ draw.flags.mirror_y = FALSE
    BY <1>1, <1>5 DEF Plain
  <2> QED BY <1>2, <1>3, <2>1, <2>2, <2>3 DEF Opcodes
<1>6. CASE r.call \in {"batch_to_back_buffer", "draw_batch"}
  BY <1>2, <1>3, <1>4, <1>6 DEF FillCalls, Opcode, EffectOf, Store, Opcodes
<1>7. CASE r.call \in FillCalls
  BY <1>2, <1>3, <1>4, <1>7 DEF FillCalls, Opcode, Opcodes
<1> QED BY <1>5, <1>6, <1>7 DEF IsCall, FillCalls, BatchCalls

\* What is left of a call's draw.
LeftOf(r, draw, h, v) ==
    LET layer == DrawLayer(r, draw)
        c == ClippedOf(r, draw)
        d == c[1]
        left == ItemLayer(Opcode(r.call), d)
    IN  /\ WidthLeft(layer, h) /\ HeightLeft(layer, v)
        /\ h.length <= 0 \/ v.length <= 0 => c = << >>
        /\ h.length > 0 /\ v.length > 0 =>
            /\ c = <<d>> /\ IsDescriptor(d) /\ IsLeft(layer, h, v, left)
            /\ d.width > 0 /\ d.height > 0 /\ d.width <= d.dpitch
            /\ d.flags = draw.flags
            /\ r.call \notin FillCalls =>
                /\ 0 <= h.s /\ h.s + h.length <= layer.from.width
                /\ 0 <= v.s /\ v.s + v.length <= layer.from.height

LEMMA FillClipped ==
    ASSUME NEW r, IsCall(r), ~Refused(r), NEW i \in DOMAIN r.draws, r.call \in FillCalls
    PROVE  \E h, v : LeftOf(r, r.draws[i], h, v)
<1> DEFINE draw == r.draws[i]
           area == Area(r.target)
           layer == DrawLayer(r, draw)
           h == ClipSpan(draw.rect.x, draw.rect.width, area.width)
           v == ClipSpan(draw.rect.y, draw.rect.height, area.height)
           d == Descriptor(area, h, v, draw, 0, 0)
           c == ClippedOf(r, draw)
<1>1. /\ draw.rect.x \in Int /\ draw.rect.y \in Int
      /\ draw.rect.width \in Nat /\ draw.rect.height \in Nat /\ draw.flags \in Flags
  BY DEF IsCall, IsDraw
<1>2. IsArea(area)
  BY CallAreas, NamedArea
<1>3. /\ layer.area = area /\ layer.effect.solid = TRUE
      /\ layer.effect.mirror_x = FALSE /\ layer.effect.mirror_y = FALSE
      /\ layer.draw.rect = draw.rect /\ layer.draw.x = draw.rect.x
      /\ layer.draw.y = draw.rect.y /\ layer.draw.word = draw.word
      /\ layer.effect = EffectOf(Opcode(r.call), draw)
  <2>1. layer.draw = InPlace(draw) /\ layer.area = area
        /\ layer.effect = EffectOf(Opcode(r.call), draw)
    BY DEF DrawLayer
  <2>2. draw = [source |-> draw.source, x |-> draw.x, y |-> draw.y, flags |-> draw.flags,
                rect |-> draw.rect, word |-> draw.word]
    BY DEF IsCall, IsDraw
  <2>3. /\ InPlace(draw).rect = draw.rect /\ InPlace(draw).x = draw.rect.x
        /\ InPlace(draw).y = draw.rect.y /\ InPlace(draw).word = draw.word
    <3> HIDE DEF draw
    <3> QED BY <2>2 DEF InPlace
  <2>4. /\ layer.effect.solid = TRUE /\ layer.effect.mirror_x = FALSE
        /\ layer.effect.mirror_y = FALSE
    <3> DEFINE e == EffectOf(Opcode(r.call), draw)
    <3>1. e.solid = TRUE /\ e.mirror_x = FALSE /\ e.mirror_y = FALSE
      BY CallEffect
    <3> HIDE DEF e, layer
    <3> QED BY <2>1, <3>1 DEF e
  <2> HIDE DEF layer
  <2> QED BY <2>1, <2>3, <2>4
<1>4. WidthLeft(layer, h) /\ HeightLeft(layer, v)
  <2>1. area.width \in Nat /\ area.height \in Nat
    BY <1>2 DEF IsArea
  <2>2. /\ AxisLeft(draw.rect.x, draw.rect.x, draw.rect.width, FALSE, TRUE,
                    layer.from.width, area.width, h)
        /\ AxisLeft(draw.rect.y, draw.rect.y, draw.rect.height, FALSE, TRUE,
                    layer.from.height, area.height, v)
    <3> HIDE DEF layer, area, draw
    <3> QED BY <1>1, <2>1, FillLeft
  <2> HIDE DEF layer, area, h, v
  <2> QED BY <1>3, <2>2 DEF WidthLeft, HeightLeft
<1>5. c = IF h.length <= 0 \/ v.length <= 0 THEN << >> ELSE <<d>>
  BY DEF ClippedOf, ClippedFill
<1>6. ASSUME h.length > 0, v.length > 0
      PROVE  /\ c = <<d>> /\ IsDescriptor(d) /\ IsLeft(layer, h, v, ItemLayer(Opcode(r.call), d))
             /\ d.width > 0 /\ d.height > 0 /\ d.width <= d.dpitch /\ d.flags = draw.flags
  <2>1. c = <<d>>
    <3>1. h.length \in Int /\ v.length \in Int
      BY <1>4 DEF WidthLeft, HeightLeft, AxisLeft
    <3> HIDE DEF h, v, c, d
    <3> QED BY <1>5, <1>6, <3>1
  <2>2. /\ h.d \in Nat /\ v.d \in Nat /\ h.length \in Nat /\ v.length \in Nat
        /\ h.d + h.length <= area.width
    BY <1>1, <1>2, <1>6 DEF ClipSpan, IsArea
  <2>3. area.address \in Nat /\ area.pitch \in Nat /\ area.width \in Nat
        /\ area.width <= area.pitch
    BY <1>2 DEF IsArea
  <2>4. /\ d.dst = area.address + v.d * area.pitch + h.d /\ d.dpitch = area.pitch
        /\ d.width = h.length /\ d.height = v.length /\ d.word = draw.word
        /\ d.flags = draw.flags /\ d.src = 0 /\ d.spitch = 0
    BY DEF Descriptor
  <2>5. d = [dst |-> d.dst, dpitch |-> d.dpitch, width |-> d.width, height |-> d.height,
             word |-> d.word, flags |-> d.flags, src |-> d.src, spitch |-> d.spitch]
    BY DEF Descriptor
  <2> HIDE DEF d, h, v
  <2>6. d.dst \in Nat
    <3>1. v.d * area.pitch \in Nat
      BY <2>2, <2>3, Product
    <3> HIDE DEF area
    <3> QED BY <2>2, <2>3, <2>4, <3>1
  <2> HIDE DEF area
  <2>7. IsDescriptor(d)
    BY <1>1, <2>2, <2>3, <2>4, <2>5, <2>6 DEF IsDescriptor
  <2> DEFINE left == ItemLayer(Opcode(r.call), d)
  <2>8. /\ left.area.address = d.dst /\ left.area.pitch = d.dpitch
        /\ left.area.width = d.width /\ left.area.height = d.height
        /\ left.effect = EffectOf(Opcode(r.call), d)
        /\ left.draw.word = d.word /\ left.draw.x = 0 /\ left.draw.y = 0
        /\ left.draw.rect = [x |-> 0, y |-> 0, width |-> d.width, height |-> d.height]
    BY DEF ItemLayer, Place, Whole
  <2>9. left.effect = layer.effect
    <3>1. EffectOf(Opcode(r.call), d) = EffectOf(Opcode(r.call), draw)
      BY <2>4, CallEffect, ZenonT(60)
    <3> HIDE DEF left, layer
    <3> QED BY <1>3, <2>8, <3>1
  <2> HIDE DEF left, layer
  <2>10. IsLeft(layer, h, v, left)
    BY <1>3, <1>6, <2>2, <2>3, <2>4, <2>6, <2>8, <2>9 DEF IsLeft, IsArea
  <2> QED BY <1>6, <2>1, <2>2, <2>3, <2>4, <2>7, <2>10 DEF left
<1>7. h.length <= 0 \/ v.length <= 0 => c = << >>
  BY <1>5
<1>8. h.length > 0 /\ v.length > 0 => c[1] = d
  <2> HIDE DEF d, h, v, c
  <2> QED BY <1>6, NoneOrOne
<1> HIDE DEF h, v, d
<1>9. LeftOf(r, draw, h, v)
  BY <1>4, <1>6, <1>7, <1>8 DEF LeftOf
<1> QED BY <1>9

LEMMA DrawClipped ==
    ASSUME NEW r, IsCall(r), ~Refused(r), NEW i \in DOMAIN r.draws, r.call \notin FillCalls
    PROVE  \E h, v : LeftOf(r, r.draws[i], h, v)
<1> DEFINE draw == r.draws[i]
           area == Area(r.target)
           from == Area(draw.source)
           layer == DrawLayer(r, draw)
           across == [s |-> draw.rect.x, d |-> draw.x, length |-> draw.rect.width]
           down == [s |-> draw.rect.y, d |-> draw.y, length |-> draw.rect.height]
           h == ClipAxis(across, from.width, area.width, draw.flags.mirror_x)
           v == ClipAxis(down, from.height, area.height, draw.flags.mirror_y)
           d == Descriptor(area, h, v, draw, from.address + v.s * from.pitch + h.s,
                           from.pitch)
           c == ClippedOf(r, draw)
<1>1. /\ draw.rect.x \in Int /\ draw.rect.y \in Int /\ draw.x \in Int /\ draw.y \in Int
      /\ draw.rect.width \in Nat /\ draw.rect.height \in Nat /\ draw.flags \in Flags
      /\ draw.flags.mirror_x \in BOOLEAN /\ draw.flags.mirror_y \in BOOLEAN
  BY DEF IsCall, IsDraw, Flags
<1>2. IsArea(area) /\ IsArea(from)
  BY CallAreas, NamedArea
<1>3. /\ layer.area = area /\ layer.effect.solid = FALSE
      /\ layer.effect.mirror_x = draw.flags.mirror_x
      /\ layer.effect.mirror_y = draw.flags.mirror_y
      /\ layer.draw = draw /\ layer.from = from
      /\ layer.effect = EffectOf(Opcode(r.call), draw)
  <2>1. layer.draw = draw /\ layer.area = area /\ layer.from = from
        /\ layer.effect = EffectOf(Opcode(r.call), draw)
    BY DEF DrawLayer
  <2> DEFINE e == EffectOf(Opcode(r.call), draw)
  <2>2. e.solid = FALSE /\ e.mirror_x = draw.flags.mirror_x
        /\ e.mirror_y = draw.flags.mirror_y
    BY CallEffect
  <2> HIDE DEF e, layer
  <2> QED BY <2>1, <2>2 DEF e
<1>0. area.width \in Nat /\ area.height \in Nat /\ from.width \in Nat /\ from.height \in Nat
  BY <1>2 DEF IsArea
<1>4. WidthLeft(layer, h) /\ HeightLeft(layer, v)
  <2>2. /\ AxisLeft(draw.rect.x, draw.x, draw.rect.width, draw.flags.mirror_x, FALSE,
                    from.width, area.width, h)
        /\ AxisLeft(draw.rect.y, draw.y, draw.rect.height, draw.flags.mirror_y, FALSE,
                    from.height, area.height, v)
    <3>0. ASSUME NEW s \in Int, NEW dd \in Int, NEW length \in Nat, NEW m \in BOOLEAN,
                 NEW sl \in Nat, NEW dl \in Nat, NEW a, a = [s |-> s, d |-> dd, length |-> length]
          PROVE  AxisLeft(s, dd, length, m, FALSE, sl, dl, ClipAxis(a, sl, dl, m))
      BY ONLY <3>0, DrawLeft
    <3> HIDE DEF area, from, draw
    <3>1. AxisLeft(draw.rect.x, draw.x, draw.rect.width, draw.flags.mirror_x, FALSE,
                    from.width, area.width, h)
      BY ONLY <1>0, <1>1, <3>0, ZenonT(60)
    <3>2. AxisLeft(draw.rect.y, draw.y, draw.rect.height, draw.flags.mirror_y, FALSE,
                    from.height, area.height, v)
      BY ONLY <1>0, <1>1, <3>0, ZenonT(60)
    <3> QED BY <3>1, <3>2
  <2> HIDE DEF layer, area, h, v, from, draw
  <2> QED BY <1>3, <2>2 DEF WidthLeft, HeightLeft
<1>5. c = IF h.length <= 0 \/ v.length <= 0 THEN << >> ELSE <<d>>
  BY DEF ClippedOf, ClippedDraw
<1>t. /\ h.s \in Int /\ h.d \in Int /\ h.length \in Int
      /\ v.s \in Int /\ v.d \in Int /\ v.length \in Int
  <2> HIDE DEF layer, h, v
  <2> QED BY <1>3, <1>4 DEF WidthLeft, HeightLeft, AxisLeft
<1>b. ASSUME h.length > 0, v.length > 0
      PROVE  /\ 0 <= h.s /\ h.s + h.length <= from.width
             /\ 0 <= v.s /\ v.s + v.length <= from.height
             /\ 0 <= h.d /\ h.d + h.length <= area.width
             /\ 0 <= v.d /\ v.d + v.length <= area.height
  <2>1. across \in Axis /\ down \in Axis
    BY <1>1 DEF Axis
  <2> HIDE DEF across, down, area, from, draw
  <2> QED BY <1>0, <1>1, <1>b, <2>1, ClippedDrawInside
<1>6. ASSUME h.length > 0, v.length > 0
      PROVE  /\ c = <<d>> /\ IsDescriptor(d) /\ IsLeft(layer, h, v, ItemLayer(Opcode(r.call), d))
             /\ d.width > 0 /\ d.height > 0 /\ d.width <= d.dpitch /\ d.flags = draw.flags
  <2>1. c = <<d>>
    <3> HIDE DEF h, v, c, d
    <3> QED BY <1>5, <1>6, <1>t
  <2>2. /\ h.d \in Nat /\ v.d \in Nat /\ h.length \in Nat /\ v.length \in Nat
        /\ h.d + h.length <= area.width /\ h.s \in Nat /\ v.s \in Nat
        /\ h.s + h.length <= from.width
    <3> HIDE DEF h, v
    <3> QED BY <1>b, <1>t, <1>6
  <2>3. /\ area.address \in Nat /\ area.pitch \in Nat /\ area.width \in Nat
        /\ area.width <= area.pitch
        /\ from.address \in Nat /\ from.pitch \in Nat /\ from.width \in Nat
        /\ from.width <= from.pitch
    BY <1>2 DEF IsArea
  <2>4. /\ d.dst = area.address + v.d * area.pitch + h.d /\ d.dpitch = area.pitch
        /\ d.width = h.length /\ d.height = v.length /\ d.word = draw.word
        /\ d.flags = draw.flags /\ d.src = from.address + v.s * from.pitch + h.s
        /\ d.spitch = from.pitch
    <3> HIDE DEF h, v, area, from, draw
    <3> QED BY DEF Descriptor
  <2>5. d = [dst |-> d.dst, dpitch |-> d.dpitch, width |-> d.width, height |-> d.height,
             word |-> d.word, flags |-> d.flags, src |-> d.src, spitch |-> d.spitch]
    <3> HIDE DEF h, v, area, from, draw
    <3> QED BY DEF Descriptor
  <2> HIDE DEF d, h, v
  <2>6. d.dst \in Nat /\ d.src \in Nat
    <3>1. v.d * area.pitch \in Nat /\ v.s * from.pitch \in Nat
      BY <2>2, <2>3, Product
    <3> HIDE DEF area, from
    <3> QED BY <2>2, <2>3, <2>4, <3>1
  <2> HIDE DEF area, from
  <2>7. IsDescriptor(d)
    BY <1>1, <2>2, <2>3, <2>4, <2>5, <2>6 DEF IsDescriptor
  <2> DEFINE left == ItemLayer(Opcode(r.call), d)
  <2>8. /\ left.area.address = d.dst /\ left.area.pitch = d.dpitch
        /\ left.area.width = d.width /\ left.area.height = d.height
        /\ left.from.address = d.src /\ left.from.pitch = d.spitch
        /\ left.from.width = d.width /\ left.from.height = d.height
        /\ left.effect = EffectOf(Opcode(r.call), d)
        /\ left.draw.word = d.word /\ left.draw.x = 0 /\ left.draw.y = 0
        /\ left.draw.rect = [x |-> 0, y |-> 0, width |-> d.width, height |-> d.height]
    BY DEF ItemLayer, Place, Whole
  <2>9. left.effect = layer.effect
    <3>1. EffectOf(Opcode(r.call), d) = EffectOf(Opcode(r.call), draw)
      BY <2>4, CallEffect
    <3> HIDE DEF left, layer
    <3> QED BY <1>3, <2>8, <3>1
  <2> HIDE DEF left, layer
  <2>10. IsLeft(layer, h, v, left)
    BY <1>3, <1>6, <2>2, <2>3, <2>4, <2>6, <2>8, <2>9 DEF IsLeft, IsArea
  <2> QED BY <1>6, <2>1, <2>2, <2>3, <2>4, <2>7, <2>10 DEF left
<1>7. h.length <= 0 \/ v.length <= 0 => c = << >>
  BY <1>5
<1>8. h.length > 0 /\ v.length > 0 => c[1] = d
  <2> HIDE DEF d, h, v, c
  <2> QED BY <1>6, NoneOrOne
<1> HIDE DEF h, v, d
<1>9. LeftOf(r, draw, h, v)
  BY <1>3, <1>4, <1>6, <1>7, <1>8, <1>b DEF LeftOf
<1> QED BY <1>9

IsPicture(picture) ==
    DOMAIN picture \subseteq Int /\ picture = [a \in DOMAIN picture |-> picture[a]]

LEMMA PaintedPicture ==
    ASSUME NEW picture, IsPicture(picture), NEW layer
    PROVE  /\ IsPicture(Painted(picture, layer))
           /\ DOMAIN Painted(picture, layer) = DOMAIN picture
  BY DEF IsPicture, Painted

LEMMA PaintedEqual ==
    ASSUME NEW picture, IsPicture(picture), NEW layer, NEW other, IsPicture(other),
           DOMAIN other = DOMAIN picture,
           \A a \in DOMAIN picture : a \in Int => Painted(picture, layer)[a] = other[a]
    PROVE  Painted(picture, layer) = other
<1> DEFINE p == Painted(picture, layer)
<1>1. IsPicture(p) /\ DOMAIN p = DOMAIN picture
  BY PaintedPicture
<1> HIDE DEF p
<1>2. \A a \in DOMAIN picture : p[a] = other[a]
  BY DEF p, IsPicture
<1>3. p = [a \in DOMAIN picture |-> p[a]] /\ other = [a \in DOMAIN picture |-> other[a]]
  BY <1>1 DEF IsPicture
<1>4. p = other
  BY <1>2, <1>3
<1> QED BY <1>4 DEF p

\* What a call makes of a draw: nothing, where the draw shows nothing; or one
\* descriptor, that paints what the draw would and stays in its surfaces.
LEMMA CallClipped ==
    ASSUME NEW r, IsCall(r), ~Refused(r), NEW i \in DOMAIN r.draws
    PROVE  LET draw == r.draws[i]
               c == ClippedOf(r, draw)
               layer == DrawLayer(r, draw)
           IN  \/ /\ Size(c) = 0 /\ c = << >>
                  /\ \A picture : IsPicture(picture) => Painted(picture, layer) = picture
               \/ /\ Size(c) = 1 /\ c = <<c[1]>>
                  /\ IsDescriptor(c[1]) /\ c[1].width > 0 /\ c[1].height > 0
                  /\ c[1].width <= c[1].dpitch
                  /\ \A picture : IsPicture(picture) =>
                        Painted(picture, layer) =
                            Painted(picture, ItemLayer(Opcode(r.call), c[1]))
                  /\ \A a \in Int : Inside(Target(c[1]), a) => Inside(Area(r.target), a)
                  /\ r.call \notin FillCalls => \A a \in Int :
                        Inside(Shown(c[1]), a) => Inside(Area(draw.source), a)
<1> DEFINE draw == r.draws[i]
           c == ClippedOf(r, draw)
           layer == DrawLayer(r, draw)
           d == c[1]
           left == ItemLayer(Opcode(r.call), d)
<1>1. PICK h, v : LeftOf(r, draw, h, v)
  BY FillClipped, DrawClipped
<1>2. WidthLeft(layer, h) /\ HeightLeft(layer, v)
  BY <1>1 DEF LeftOf
<1>3. layer.area = Area(r.target) /\ IsArea(layer.area)
      /\ (r.call \notin FillCalls => layer.from = Area(draw.source) /\ IsArea(layer.from))
      /\ layer.from.address \in Nat /\ layer.from.pitch \in Nat
  <2>1. layer.area = Area(r.target) /\ IsArea(layer.area)
    BY CallAreas, NamedArea DEF DrawLayer
  <2>2. CASE r.call \in FillCalls
    <3>1. layer.from = Area("back") /\ "back" \in Names
      BY <2>2 DEF DrawLayer, Area, Names
    <3> HIDE DEF layer
    <3> QED BY <2>1, <2>2, <3>1, NamedArea DEF IsArea
  <2>3. CASE r.call \notin FillCalls
    <3>1. layer.from = Area(draw.source) /\ IsArea(layer.from)
      BY <2>3, CallAreas, NamedArea DEF DrawLayer
    <3> HIDE DEF layer
    <3> QED BY <2>1, <3>1 DEF IsArea
  <2> QED BY <2>2, <2>3
<1>4. layer.effect.mirror_x \in BOOLEAN /\ layer.effect.mirror_y \in BOOLEAN
      /\ (r.call \notin FillCalls => ~layer.effect.solid)
  <2> DEFINE e == EffectOf(Opcode(r.call), draw)
  <2>1. e.mirror_x \in BOOLEAN /\ e.mirror_y \in BOOLEAN
        /\ (r.call \notin FillCalls => ~e.solid)
    BY CallEffect
  <2>2. layer.effect = e
    BY DEF DrawLayer
  <2> HIDE DEF e, layer
  <2> QED BY <2>1, <2>2
<1>5. h.length \in Int /\ v.length \in Int /\ h.d \in Int /\ v.d \in Int
      /\ (~layer.effect.solid => h.s \in Int /\ v.s \in Int)
  BY <1>2 DEF WidthLeft, HeightLeft, AxisLeft
<1> DEFINE Nothing == /\ Size(c) = 0 /\ c = << >>
                      /\ \A picture : IsPicture(picture) => Painted(picture, layer) = picture
           One == /\ Size(c) = 1 /\ c = <<d>>
                  /\ IsDescriptor(d) /\ d.width > 0 /\ d.height > 0
                  /\ d.width <= d.dpitch
                  /\ \A picture : IsPicture(picture) =>
                        Painted(picture, layer) = Painted(picture, left)
                  /\ \A a \in Int : Inside(Target(d), a) => Inside(Area(r.target), a)
                  /\ r.call \notin FillCalls => \A a \in Int :
                        Inside(Shown(d), a) => Inside(Area(draw.source), a)
<1> SUFFICES Nothing \/ One
  OBVIOUS
<1>6. CASE h.length <= 0 \/ v.length <= 0
  <2>1. c = << >>
    BY <1>1, <1>6 DEF LeftOf
  <2>2. ASSUME NEW picture, IsPicture(picture) PROVE Painted(picture, layer) = picture
    <3> HIDE DEF layer
    <3>1. \A a \in DOMAIN picture : a \in Int => Painted(picture, layer)[a] = picture[a]
      BY <1>2, <1>3, <1>6, LeftNothing
    <3> QED BY <2>2, <3>1, PaintedEqual
  <2> HIDE DEF c, layer
  <2> QED BY <2>1, <2>2, NoneOrOne
<1>7. CASE h.length > 0 /\ v.length > 0
  <2>1. /\ c = <<d>> /\ IsDescriptor(d) /\ IsLeft(layer, h, v, left)
        /\ d.width > 0 /\ d.height > 0 /\ d.width <= d.dpitch
        /\ r.call \notin FillCalls =>
                /\ 0 <= h.s /\ h.s + h.length <= layer.from.width
                /\ 0 <= v.s /\ v.s + v.length <= layer.from.height
    BY <1>1, <1>7 DEF LeftOf
  <2>2. Size(c) = 1
    <3> HIDE DEF c
    <3> QED BY <2>1, NoneOrOne
  <2>3. left.area = Target(d) /\ left.from = Shown(d)
    BY DEF ItemLayer, Target, Shown
  <2> HIDE DEF c, d, layer, left
  <2>4. ASSUME NEW picture, IsPicture(picture)
        PROVE  Painted(picture, layer) = Painted(picture, left)
    <3>1. \A a \in DOMAIN picture : a \in Int =>
            Painted(picture, layer)[a] = Painted(picture, left)[a]
      BY <1>2, <1>3, <1>4, <1>7, <2>1, LeftSame
    <3>2. IsPicture(Painted(picture, left)) /\ DOMAIN Painted(picture, left) = DOMAIN picture
      BY <2>4, PaintedPicture
    <3> QED BY <2>4, <3>1, <3>2, PaintedEqual
  <2>5. h.d >= 0 /\ h.d + h.length <= layer.area.width
        /\ v.d >= 0 /\ v.d + v.length <= layer.area.height
    <3>1. layer.area.width \in Nat /\ layer.area.height \in Nat
      BY <1>3 DEF IsArea
    <3> QED BY <1>2, <1>7, <3>1, AxisLeftInside DEF WidthLeft, HeightLeft
  <2>6. ASSUME NEW a \in Int, Inside(Target(d), a) PROVE Inside(Area(r.target), a)
    <3> DEFINE sub == Target(d)
               area == layer.area
    <3>1. /\ IsArea(sub) /\ sub.pitch = area.pitch /\ sub.width = h.length
          /\ sub.height = v.length /\ sub.address = area.address + v.d * area.pitch + h.d
      BY <2>1, <2>3 DEF IsLeft
    <3>2. h.d \in Nat /\ v.d \in Nat /\ IsArea(area) /\ area = Area(r.target)
          /\ h.d + sub.width <= area.width /\ v.d + sub.height <= area.height
      BY <1>3, <1>5, <2>5, <3>1
    <3>3. Inside(sub, a)
      BY <2>6
    <3> HIDE DEF sub, area
    <3>4. Inside(area, a)
      BY <3>1, <3>2, <3>3, Subarea
    <3> QED BY <3>2, <3>4
  <2>7. ASSUME r.call \notin FillCalls, NEW a \in Int, Inside(Shown(d), a)
        PROVE  Inside(Area(draw.source), a)
    <3> DEFINE sub == Shown(d)
               area == layer.from
    <3>0. ~layer.effect.solid
      BY <1>4, <2>7
    <3>1. /\ sub.pitch = area.pitch /\ sub.width = h.length
          /\ sub.height = v.length /\ sub.address = area.address + v.s * area.pitch + h.s
      BY <2>1, <2>3, <3>0 DEF IsLeft
    <3>2. h.s \in Nat /\ v.s \in Nat /\ IsArea(area) /\ area = Area(draw.source)
          /\ h.s + sub.width <= area.width /\ v.s + sub.height <= area.height
      <4>1. IsArea(area) /\ area = Area(draw.source)
        BY <1>3, <2>7
      <4> QED BY <1>5, <2>1, <2>7, <3>0, <3>1, <4>1
    <3>3. Inside(sub, a) /\ IsArea(sub)
      <4>1. sub.address \in Nat
        BY <2>1 DEF Shown, Place, IsDescriptor
      <4> HIDE DEF sub
      <4>2. IsArea(sub)
        BY <1>5, <1>7, <3>1, <3>2, <4>1 DEF IsArea
      <4> QED BY <2>7, <4>2 DEF sub
    <3> HIDE DEF sub, area
    <3>4. Inside(area, a)
      BY <3>1, <3>2, <3>3, Subarea
    <3> QED BY <3>2, <3>4
  <2> QED BY <2>1, <2>2, <2>4, <2>6, <2>7
<1> QED BY <1>5, <1>6, <1>7

-----------------------------------------------------------------------------
(* Requests.                                                               *)

LEMMA StackPicture ==
    ASSUME NEW picture, IsPicture(picture), NEW layers, Len(layers) \in Nat
    PROVE  \A n \in 0 .. Len(layers) :
             /\ IsPicture(Stack(picture, layers)[n])
             /\ DOMAIN Stack(picture, layers)[n] = DOMAIN picture
<1> DEFINE N == Len(layers)
           after == Stack(picture, layers)
           S == {n \in 0 .. N : IsPicture(after[n]) /\ DOMAIN after[n] = DOMAIN picture}
<1>1. after[0] = picture /\ \A n \in 1 .. N : after[n] = Painted(after[n - 1], layers[n])
  BY StackPictures
<1> HIDE DEF after
<1>2. 0 \in S
  BY <1>1
<1>3. ASSUME NEW n \in 0 .. N - 1, n \in S PROVE n + 1 \in S
  <2>1. n + 1 \in 1 .. N /\ (n + 1) - 1 = n
    OBVIOUS
  <2>2. after[n + 1] = Painted(after[n], layers[n + 1])
    BY <1>1, <2>1
  <2> QED BY <1>3, <2>1, <2>2, PaintedPicture
<1>4. 0 .. N \subseteq S
  <2> HIDE DEF S, N
  <2> QED BY <1>2, <1>3, UpTo DEF N
<1> QED BY <1>4 DEF after

LEMMA CallDescriptors ==
    ASSUME NEW r, IsCall(r), ~Refused(r)
    PROVE  LET N == Len(r.draws)
               seqs == [i \in DOMAIN r.draws |-> ClippedOf(r, r.draws[i])]
           IN  /\ N \in Nat /\ N > 0 /\ DOMAIN r.draws = 1 .. N
               /\ \E T : Descriptors(r) \in Seq(T)
               /\ \E off : Placed(N, seqs, off, Descriptors(r))
<1> DEFINE N == Len(r.draws)
           seqs == [i \in DOMAIN r.draws |-> ClippedOf(r, r.draws[i])]
           T == {ClippedOf(r, r.draws[i])[1] : i \in DOMAIN r.draws}
           all == Descriptors(r)
<1>1. r.draws \in Seq(Range(r.draws)) /\ N \in 1 .. MaxDescriptors
  BY DEF IsCall, Refused
<1>2. N \in Nat /\ N > 0 /\ DOMAIN r.draws = 1 .. N
  BY <1>1, DrawCallsAssumption
<1>3. ASSUME NEW i \in 1 .. N PROVE seqs[i] \in Seq(T)
  <2>1. i \in DOMAIN r.draws
    BY <1>2
  <2> DEFINE c == ClippedOf(r, r.draws[i])
  <2>2. c = << >> \/ c = <<c[1]>>
    BY <2>1, CallClipped
  <2>3. c[1] \in T
    BY <2>1
  <2>4. seqs[i] = c
    BY <2>1
  <2> HIDE DEF c, T, seqs
  <2> QED BY <2>2, <2>3, <2>4, NoneOrOne
<1>4. seqs = [i \in 1 .. N |-> seqs[i]]
  BY <1>2
<1>5. all = FlattenSeq(seqs)
  BY DEF Descriptors, ClippedOf
<1> HIDE DEF seqs, T, N, all
<1>6. seqs \in Seq(Seq(T)) /\ Size(seqs) = N
  BY <1>2, <1>3, <1>4, RowSize
<1>7. all \in Seq(T) /\ \E off : Placed(N, seqs, off, all)
  <2>1. N = Len(seqs)
    BY <1>6 DEF Size
  <2> QED BY <1>2, <1>5, <1>6, <2>1, FlattenPlaced
<1> QED BY <1>2, <1>7 DEF N, seqs, all

LEMMA SizeSeq ==
    ASSUME NEW T, NEW s \in Seq(T)
    PROVE  /\ Size(s) \in Nat /\ DOMAIN s = 1 .. Size(s) /\ s \in Seq(Range(s))
           /\ s # << >> <=> Size(s) > 0
           /\ Len(s) = Size(s)
BY DEF Size, Range

\* What a call pushes has the form of a command, made of its draws in order.
LEMMA CallCommand ==
    ASSUME NEW r, IsCall(r), ~Refused(r), Descriptors(r) # << >>
    PROVE  IsCommand(CommandFor(r))
<1> DEFINE N == Len(r.draws)
           seqs == [i \in DOMAIN r.draws |-> ClippedOf(r, r.draws[i])]
           all == Descriptors(r)
           c == CommandFor(r)
<1>1. /\ N \in Nat /\ N > 0 /\ DOMAIN r.draws = 1 .. N
      /\ \E T : all \in Seq(T)
  BY CallDescriptors
<1>2. PICK off : Placed(N, seqs, off, all)
  BY CallDescriptors
<1>3. /\ Size(all) \in Nat /\ DOMAIN all = 1 .. Size(all) /\ all \in Seq(Range(all))
      /\ Size(all) > 0 /\ Len(all) = Size(all)
  <2> HIDE DEF all
  <2> QED BY <1>1, SizeSeq DEF all
<1>4. c = [op |-> Opcode(r.call), items |-> all]
  BY DEF CommandFor
<1>5. ASSUME NEW i \in 1 .. N
      PROVE  /\ Size(seqs[i]) \in {0, 1}
             /\ Size(seqs[i]) = 1 => IsDescriptor(seqs[i][1])
  BY <1>1, CallClipped
<1> HIDE DEF seqs, all, N, c
<1>6. ASSUME NEW k \in DOMAIN all PROVE IsDescriptor(all[k])
  <2>1. k \in 1 .. off[N]
    BY <1>2, <1>3 DEF Placed
  <2>2. PICK i \in 1 .. N, l \in Nat : l \in 1 .. Size(seqs[i]) /\ k = off[i - 1] + l
    <3>1. PICK i \in 1 .. N : \E l \in 1 .. Size(seqs[i]) : k = off[i - 1] + l
      BY <1>2, <2>1 DEF Placed
    <3>2. Size(seqs[i]) \in Nat
      BY <1>5
    <3> QED BY <3>1, <3>2
  <2>3. all[off[i - 1] + l] = seqs[i][l]
    BY <1>2, <2>2 DEF Placed
  <2>4. l = 1 /\ Size(seqs[i]) = 1
    BY <1>5, <2>2
  <2> QED BY <1>5, <2>2, <2>3, <2>4
<1>7. r.call \notin BatchCalls => Len(all) = 1
  <2>1. ASSUME r.call \notin BatchCalls PROVE Len(all) = 1
    <3>1. N = 1
      BY <2>1 DEF IsCall, N
    <3>2. off[0] = 0 /\ off[1] = off[0] + Size(seqs[1]) /\ Size(all) = off[1]
      BY <1>2, <3>1 DEF Placed
    <3> QED BY <1>3, <1>5, <3>1, <3>2
  <2> QED BY <2>1
<1>8. Opcode(r.call) \in Opcodes /\ (Opcode(r.call) \notin BatchOps => r.call \notin BatchCalls)
  BY DEF Opcode, Opcodes, BatchOps, BatchCalls
<1>9. c.op = Opcode(r.call) /\ c.items = all
  BY <1>4
<1>10. IsCommand(c)
  BY <1>3, <1>4, <1>6, <1>7, <1>8, <1>9 DEF IsCommand
<1> QED BY <1>10 DEF c

LEMMA ItemLayersOf ==
    ASSUME NEW c, NEW n \in Nat, DOMAIN c.items = 1 .. n
    PROVE  /\ Len(ItemLayers(c)) = n
           /\ \A i \in 1 .. n : ItemLayers(c)[i] = ItemLayer(c.op, c.items[i])
BY DEF ItemLayers

\* A call's command paints what its draws would, and nothing else.
LEMMA CallStack ==
    ASSUME NEW r, IsCall(r), ~Refused(r), NEW picture, IsPicture(picture)
    PROVE  LET c == CommandFor(r) IN
           /\ ~IsRaw(r) => Requested(picture, r) = Stack(picture, ItemLayers(c))[Len(c.items)]
           /\ Len(c.items) \in Nat /\ DOMAIN c.items = 1 .. Len(c.items)
<1> DEFINE N == Len(r.draws)
           seqs == [i \in DOMAIN r.draws |-> ClippedOf(r, r.draws[i])]
           all == Descriptors(r)
           c == CommandFor(r)
           drawn == [i \in DOMAIN r.draws |-> DrawLayer(r, r.draws[i])]
           made == ItemLayers(c)
           want == Stack(picture, drawn)
           got == Stack(picture, made)
           n == Size(all)
<1>1. /\ N \in Nat /\ N > 0 /\ DOMAIN r.draws = 1 .. N
      /\ \E T : all \in Seq(T)
  BY CallDescriptors
<1>2. PICK off : Placed(N, seqs, off, all)
  BY CallDescriptors
<1>3. n \in Nat /\ DOMAIN all = 1 .. n /\ Len(all) = n
  <2> HIDE DEF all
  <2> QED BY <1>1, SizeSeq
<1>4. c.op = Opcode(r.call) /\ c.items = all
  BY DEF CommandFor
<1>5. Len(drawn) = N /\ \A i \in 1 .. N : drawn[i] = DrawLayer(r, r.draws[i])
  <2> HIDE DEF N
  <2> QED BY <1>1
<1>6. Len(made) = n /\ \A k \in 1 .. n : made[k] = ItemLayer(Opcode(r.call), all[k])
  <2> HIDE DEF c, all, n
  <2> QED BY <1>3, <1>4, ItemLayersOf
<1>7. want[0] = picture /\ \A i \in 1 .. N : want[i] = Painted(want[i - 1], drawn[i])
  <2> HIDE DEF drawn, N
  <2> QED BY <1>1, <1>5, StackPictures
<1>8. got[0] = picture /\ \A k \in 1 .. n : got[k] = Painted(got[k - 1], made[k])
  <2> HIDE DEF made, n
  <2> QED BY <1>3, <1>6, StackPictures
<1>9. \A i \in 0 .. N : IsPicture(want[i])
  <2> HIDE DEF drawn, N
  <2> QED BY <1>1, <1>5, StackPicture
<1>10. ASSUME NEW i \in 1 .. N
       PROVE  \/ /\ Size(seqs[i]) = 0
                 /\ \A p : IsPicture(p) => Painted(p, drawn[i]) = p
              \/ /\ Size(seqs[i]) = 1
                 /\ \A p : IsPicture(p) =>
                        Painted(p, drawn[i]) = Painted(p, ItemLayer(Opcode(r.call), seqs[i][1]))
  <2>1. i \in DOMAIN r.draws /\ seqs[i] = ClippedOf(r, r.draws[i])
        /\ drawn[i] = DrawLayer(r, r.draws[i])
    BY <1>1
  <2> HIDE DEF seqs, drawn
  <2> QED BY <2>1, CallClipped
<1> HIDE DEF seqs, all, N, drawn, made, want, got, n
<1> DEFINE S == {i \in 0 .. N : want[i] = got[off[i]]}
<1>11. 0 \in S
  BY <1>1, <1>2, <1>7, <1>8 DEF Placed
<1>12. ASSUME NEW m \in 0 .. N - 1, m \in S PROVE m + 1 \in S
  <2> DEFINE i == m + 1
  <2>1. i \in 1 .. N /\ i - 1 = m /\ m \in 0 .. N /\ i \in 0 .. N
    BY <1>1
  <2> HIDE DEF i
  <2>2. want[i] = Painted(want[m], drawn[i]) /\ want[m] = got[off[m]] /\ IsPicture(want[m])
    BY <1>7, <1>9, <1>12, <2>1
  <2>3. off[i] = off[m] + Size(seqs[i]) /\ off[m] \in Nat /\ off[N] = n
    BY <1>2, <2>1 DEF Placed, n
  <2>4. CASE Size(seqs[i]) = 0
    <3>1. want[i] = want[m]
      BY <1>10, <2>1, <2>2, <2>4
    <3>2. off[i] = off[m]
      BY <2>3, <2>4
    <3> QED BY <2>1, <2>2, <3>1, <3>2 DEF i
  <2>5. CASE Size(seqs[i]) = 1
    <3> DEFINE k == off[m] + 1
    <3>1. 1 \in 1 .. Size(seqs[i])
      BY <2>5
    <3>2. k \in 1 .. n /\ all[k] = seqs[i][1]
      BY <1>2, <2>1, <2>3, <3>1 DEF Placed
    <3>3. off[i] = k /\ k - 1 = off[m]
      BY <2>3, <2>5
    <3> HIDE DEF k
    <3>4. got[k] = Painted(got[off[m]], ItemLayer(Opcode(r.call), seqs[i][1]))
      BY <1>6, <1>8, <3>2, <3>3
    <3>5. want[i] = Painted(want[m], ItemLayer(Opcode(r.call), seqs[i][1]))
      BY <1>10, <2>1, <2>2, <2>5
    <3>6. want[i] = got[off[i]]
      BY <2>2, <3>3, <3>4, <3>5
    <3> QED BY <2>1, <3>6 DEF i
  <2> QED BY <1>10, <2>1, <2>4, <2>5
<1>13. N \in S
  <2>1. 0 .. N \subseteq S
    <3> HIDE DEF S
    <3> QED BY <1>1, <1>11, <1>12, UpTo
  <2> HIDE DEF S
  <2> QED BY <1>1, <2>1
<1>14. want[N] = got[n]
  BY <1>2, <1>13 DEF Placed, n
<1>15. ~IsRaw(r) => Requested(picture, r) = want[N]
  BY <1>5 DEF Requested, Layers, want, drawn
<1> QED BY <1>3, <1>4, <1>14, <1>15 DEF got, made, c

FillOps == {"SOLID_FILL", "BLEND_FILL", "FILL_BATCH"}

IsGood(c) ==
    /\ c.op \in Opcodes /\ c.items \in Seq(Range(c.items))
    /\ Len(c.items) \in Nat /\ Len(c.items) > 0 /\ DOMAIN c.items = 1 .. Len(c.items)
    /\ c.op \notin BatchOps => Len(c.items) = 1
    /\ \A i \in 1 .. Len(c.items) :
        /\ IsItem(c.op, c.items[i])
        /\ Dram.first <= c.items[i].dst
        /\ RectEnd(c.items[i].dst, c.items[i].dpitch, c.items[i]) <= Dram.end
        /\ c.op \notin FillOps =>
            /\ c.items[i].width <= c.items[i].spitch /\ Dram.first <= c.items[i].src
            /\ RectEnd(c.items[i].src, c.items[i].spitch, c.items[i]) <= Dram.end

LEMMA ValidIsGood ==
    ASSUME NEW c, IsCommand(c), NEW managed, ValidCommand(c, managed)
    PROVE  IsGood(c)
<1> DEFINE n == Len(c.items)
<1>1. n \in Nat /\ n > 0 /\ DOMAIN c.items = 1 .. n /\ c.op \in Opcodes
      /\ c.items \in Seq(Range(c.items)) /\ (c.op \notin BatchOps => n = 1)
      /\ \A i \in 1 .. n : IsDescriptor(c.items[i])
  BY DEF IsCommand
<1>2. ASSUME NEW i \in 1 .. n PROVE ValidTarget(c.items[i], managed)
  <2>1. CASE c.op \notin BatchOps
    <3>1. i = 1
      BY <1>1, <2>1
    <3> QED BY <1>1, <2>1, <3>1 DEF ValidCommand, Opcodes, BatchOps
  <2>2. CASE c.op = "SPRITE_BATCH"
    BY <1>1, <2>2 DEF ValidCommand, ValidDescriptor
  <2>3. CASE c.op = "FILL_BATCH"
    BY <1>1, <2>3 DEF ValidCommand
  <2> QED BY <2>1, <2>2, <2>3 DEF BatchOps
<1>s. ASSUME NEW i \in 1 .. n, c.op \notin FillOps PROVE ValidSource(c.items[i], managed)
  <2>1. CASE c.op \notin BatchOps
    <3>1. i = 1
      BY <1>1, <2>1
    <3> QED BY <1>1, <1>s, <2>1, <3>1 DEF ValidCommand, Opcodes, BatchOps, FillOps
  <2>2. CASE c.op = "SPRITE_BATCH"
    BY <1>1, <2>2 DEF ValidCommand, ValidDescriptor
  <2> QED BY <1>s, <2>1, <2>2 DEF BatchOps, FillOps
<1>3. ASSUME c.op = "SPRITE_BATCH", NEW i \in 1 .. n
      PROVE  Drawn(c.items[i].flags) => ~c.items[i].flags.key
  BY <1>1, <1>3 DEF ValidCommand, ValidDescriptor
<1>4. ASSUME NEW i \in 1 .. n
      PROVE  /\ IsItem(c.op, c.items[i])
             /\ Dram.first <= c.items[i].dst
             /\ RectEnd(c.items[i].dst, c.items[i].dpitch, c.items[i]) <= Dram.end
             /\ c.op \notin FillOps =>
                 /\ c.items[i].width <= c.items[i].spitch /\ Dram.first <= c.items[i].src
                 /\ RectEnd(c.items[i].src, c.items[i].spitch, c.items[i]) <= Dram.end
  <2> DEFINE d == c.items[i]
  <2>1. IsDescriptor(d) /\ ValidTarget(d, managed)
    BY <1>1, <1>2
  <2>2. d.width \in Nat /\ d.dpitch \in Nat
    BY <2>1 DEF IsDescriptor
  <2> HIDE DEF d
  <2>3. d.width > 0 /\ d.height > 0 /\ d.width <= d.dpitch
        /\ Dram.first <= d.dst /\ RectEnd(d.dst, d.dpitch, d) <= Dram.end
    BY <2>1, <2>2 DEF ValidTarget, ValidRect, ValidSpan
  <2>4. c.op \notin FillOps => /\ d.width <= d.spitch /\ Dram.first <= d.src
                               /\ RectEnd(d.src, d.spitch, d) <= Dram.end
    <3>1. c.op \notin FillOps => ValidSource(d, managed)
      BY <1>s DEF d
    <3>2. d.spitch \in Nat
      BY <2>1 DEF IsDescriptor
    <3> QED BY <2>2, <3>1, <3>2 DEF ValidSource, ValidRect, ValidSpan
  <2> QED BY <1>1, <1>3, <2>1, <2>3, <2>4 DEF IsItem, d
<1> QED BY <1>1, <1>4 DEF IsGood

LEMMA PushedIsGood ==
    ASSUME NEW r, IsRequest(r), Pushes(r)
    PROVE  IsGood(Pushed(r))
<1>1. CASE IsRaw(r)
  BY <1>1, ValidIsGood DEF IsRequest, Pushes, Pushed
<1>2. CASE ~IsRaw(r)
  <2>1. IsCommand(CommandFor(r)) /\ ValidCommand(CommandFor(r), Managed(r))
    BY <1>2, CallCommand DEF IsRequest, Pushes
  <2> QED BY <1>2, <2>1, ValidIsGood DEF Pushed
<1> QED BY <1>1, <1>2

\* The picture a call asks for is the one the items of the command it submits
\* paint one after another, each within its own target: clipping, mirrored or
\* not, loses and adds no pixel and keeps the order of the draws
\* (lib/noodles_surface.c: clip_bounds, clip_axis, clipped_draw).
THEOREM PushedPicture ==
    ASSUME NEW r, IsRequest(r), Pushes(r), NEW picture, IsPicture(picture)
    PROVE  LET c == Pushed(r) IN
           Requested(picture, r) = Stack(picture, ItemLayers(c))[Len(c.items)]
<1>1. CASE IsRaw(r)
  <2> DEFINE c == r.command
  <2>1. IsGood(c)
    BY <1>1, PushedIsGood DEF Pushed
  <2>2. Len(ItemLayers(c)) = Len(c.items)
    <3> HIDE DEF c
    <3> QED BY <2>1, ItemLayersOf DEF IsGood
  <2> QED BY <1>1, <2>2 DEF Pushed, Requested, Layers
<1>2. CASE ~IsRaw(r)
  BY <1>2, CallStack DEF IsRequest, Pushes, Pushed
<1> QED BY <1>1, <1>2

LEMMA NothingPicture ==
    ASSUME NEW r, IsRequest(r), NothingToDraw(r), NEW picture, IsPicture(picture)
    PROVE  Requested(picture, r) = picture
<1> DEFINE c == CommandFor(r)
<1>1. /\ Requested(picture, r) = Stack(picture, ItemLayers(c))[Len(c.items)]
      /\ Len(c.items) \in Nat /\ DOMAIN c.items = 1 .. Len(c.items)
  BY CallStack DEF IsRequest, NothingToDraw
<1>2. Len(c.items) = 0
  BY DEF CommandFor, NothingToDraw
<1>3. Len(ItemLayers(c)) = 0
  <2> HIDE DEF c
  <2> QED BY <1>1, <1>2, ItemLayersOf
<1>4. Stack(picture, ItemLayers(c))[0] = picture
  <2> HIDE DEF c
  <2>1. Len(ItemLayers(c)) \in Nat
    BY <1>3
  <2> QED BY <2>1, StackPictures
<1> QED BY <1>1, <1>2, <1>4

\* No descriptor reads what it writes itself, or what the unflagged run of a
\* batch it is in wrote before it.
Apart(c) == c.op \notin FillOps => \A i \in 1 .. Len(c.items) : \A k \in 1 .. i :
    k = i \/ (c.op = "SPRITE_BATCH" /\ \A m \in k .. i : ~Flagged(c.items[m])) =>
        \A a \in Int : Inside(Shown(c.items[i]), a) => ~Inside(Target(c.items[k]), a)

LEMMA AreasApart ==
    ASSUME NEW m \in Names, NEW n \in Names, m # n,
           NEW a \in Int, Inside(Area(m), a)
    PROVE  ~Inside(Area(n), a)
<1> SUFFICES ASSUME Inside(Area(n), a) PROVE FALSE
  OBVIOUS
<1> DEFINE end(name) == RectEnd(Area(name).address, Area(name).pitch, Area(name))
<1>1. Area(m).address <= a /\ a < end(m) /\ Area(n).address <= a /\ a < end(n)
  BY NamedArea, InsideBounds
<1>2. end(m) <= Area(n).address \/ end(n) <= Area(m).address
  BY DrawCallsAssumption
<1>3. Area(m).address \in Int /\ Area(n).address \in Int
  BY NamedArea DEF IsArea
<1>4. end(m) \in Int /\ end(n) \in Int
  <2>1. \A name \in Names : end(name) \in Int
    BY DrawCallsAssumption DEF RectEnd
  <2> QED BY <2>1
<1> HIDE DEF end
<1> QED BY <1>1, <1>2, <1>3, <1>4

\* A call draws from other surfaces than its target: none of its descriptors
\* reads a pixel that one of them writes (lib/noodles_surface.c: the EINVAL of
\* a source that is the target).
THEOREM CallApart ==
    ASSUME NEW r, IsCall(r), ~Refused(r)
    PROVE  Apart(CommandFor(r))
<1> DEFINE N == Len(r.draws)
           seqs == [i \in DOMAIN r.draws |-> ClippedOf(r, r.draws[i])]
           all == Descriptors(r)
           n == Size(all)
<1>1. /\ N \in Nat /\ N > 0 /\ DOMAIN r.draws = 1 .. N
      /\ \E T : all \in Seq(T)
  BY CallDescriptors
<1>2. PICK off : Placed(N, seqs, off, all)
  BY CallDescriptors
<1>3. n \in Nat /\ Len(all) = n
  <2> HIDE DEF all
  <2> QED BY <1>1, SizeSeq
<1>4. ASSUME NEW i \in 1 .. N
      PROVE  \/ Size(seqs[i]) = 0
             \/ /\ Size(seqs[i]) = 1
                /\ \A a \in Int : Inside(Target(seqs[i][1]), a) => Inside(Area(r.target), a)
                /\ r.call \notin FillCalls => \A a \in Int :
                      Inside(Shown(seqs[i][1]), a) => Inside(Area(r.draws[i].source), a)
  <2>1. i \in DOMAIN r.draws /\ seqs[i] = ClippedOf(r, r.draws[i])
    BY <1>1
  <2> HIDE DEF seqs
  <2> QED BY <2>1, CallClipped
<1>5. r.target \in Names /\ \A i \in 1 .. N :
        r.call \notin FillCalls => r.draws[i].source \in Names /\ r.draws[i].source # r.target
  <2> HIDE DEF N
  <2>1. 1 \in DOMAIN r.draws
    BY <1>1
  <2> QED BY <1>1, <2>1, CallAreas
<1> HIDE DEF seqs, all, N, n
<1>6. ASSUME NEW k \in 1 .. n
      PROVE  \E i \in 1 .. N : Size(seqs[i]) = 1 /\ all[k] = seqs[i][1]
  <2>1. k \in 1 .. off[N]
    BY <1>2 DEF Placed, n
  <2>2. PICK i \in 1 .. N, l \in Nat : l \in 1 .. Size(seqs[i]) /\ k = off[i - 1] + l
    <3>1. PICK i \in 1 .. N : \E l \in 1 .. Size(seqs[i]) : k = off[i - 1] + l
      BY <1>2, <2>1 DEF Placed
    <3>2. Size(seqs[i]) \in Nat
      BY <1>4
    <3> QED BY <3>1, <3>2
  <2>3. all[off[i - 1] + l] = seqs[i][l]
    BY <1>2, <2>2 DEF Placed
  <2>4. l = 1 /\ Size(seqs[i]) = 1
    BY <1>4, <2>2
  <2> QED BY <2>2, <2>3, <2>4
<1>7. ASSUME r.call \notin FillCalls, NEW k \in 1 .. n, NEW l \in 1 .. n, NEW a \in Int,
             Inside(Shown(all[k]), a)
      PROVE  ~Inside(Target(all[l]), a)
  <2>1. PICK i \in 1 .. N : Size(seqs[i]) = 1 /\ all[k] = seqs[i][1]
    BY <1>6
  <2>2. PICK m \in 1 .. N : Size(seqs[m]) = 1 /\ all[l] = seqs[m][1]
    BY <1>6
  <2>3. Inside(Area(r.draws[i].source), a)
    BY <1>4, <1>7, <2>1
  <2>4. ~Inside(Area(r.target), a)
    BY <1>5, <1>7, <2>3, AreasApart
  <2> QED BY <1>4, <2>2, <2>4
<1>8. CommandFor(r).op = Opcode(r.call) /\ CommandFor(r).items = all
  BY DEF CommandFor, all
<1>9. Opcode(r.call) \notin FillOps => r.call \notin FillCalls
  BY DEF Opcode, FillOps, FillCalls
<1>10. \A i \in 1 .. n : \A k \in 1 .. i : k \in 1 .. n
  BY <1>3
<1> QED BY <1>3, <1>7, <1>8, <1>9, <1>10 DEF Apart

-----------------------------------------------------------------------------
(* What an engine has to do for an item of a command.                      *)

Addresses == Dram.first .. Dram.end - 1

\* The units of an item's walk, what it makes of their pixels, and that it
\* leaves the others.
IsTask(op, d, before, after, walk, n) ==
    LET j == Job(op, d) IN
    /\ IsWalk(j, walk, n) /\ n > 0
    /\ IsPicture(after) /\ DOMAIN after = Addresses
    /\ \A i \in 1 .. n : \A l \in DOMAIN walk[i] :
        LET cell == walk[i][l] IN
        /\ cell.to \in Addresses /\ Inside(Target(d), cell.to)
        /\ after[cell.to] = Made(j, Sourced(j, cell, before), before[cell.to])
        /\ ~j.solid => cell.from \in Addresses /\ Inside(Shown(d), cell.from)
    /\ \A a \in Addresses : (\A i \in 1 .. n : \A l \in DOMAIN walk[i] : walk[i][l].to # a)
                                => after[a] = before[a]

\* The walk of the engine that an item is handed to: each pixel of its
\* target once, from the source the item's layer shows there, all inside the
\* addresses the host has checked, and as many units as the engine counts
\* (rtl/blit.sv, blit_copy.sv, blit_copy64.sv, blit_blend.sv, blend_walk.sv).
THEOREM ItemTask ==
    ASSUME NEW c, IsGood(c), NEW k \in 1 .. Len(c.items),
           NEW before, IsPicture(before), DOMAIN before = Addresses
    PROVE  LET d == c.items[k] IN
           \E n \in Nat : IsTask(c.op, d, before, Painted(before, ItemLayer(c.op, d)),
                                 Work(Job(c.op, d)), n)
<1> DEFINE d == c.items[k]
           op == c.op
           j == Job(op, d)
           walk == Work(j)
           after == Painted(before, ItemLayer(op, d))
<1>1. /\ IsItem(op, d) /\ IsDescriptor(d) /\ op \in Opcodes
      /\ Dram.first <= d.dst /\ RectEnd(d.dst, d.dpitch, d) <= Dram.end
      /\ op \notin FillOps => /\ d.width <= d.spitch /\ Dram.first <= d.src
                              /\ RectEnd(d.src, d.spitch, d) <= Dram.end
  BY DEF IsGood, IsItem
<1>2. /\ d.dst \in Nat /\ d.dpitch \in Nat /\ d.src \in Nat /\ d.spitch \in Nat
      /\ d.width \in Nat /\ d.height \in Nat /\ d.width > 0 /\ d.height > 0
      /\ d.width <= d.dpitch
  BY <1>1 DEF IsItem, IsDescriptor
<1>3. /\ j.dst = d.dst /\ j.dpitch = d.dpitch /\ j.src = d.src /\ j.spitch = d.spitch
      /\ j.width = d.width /\ j.height = d.height
  BY DEF Job
<1>4. ~j.solid => op \notin FillOps
  BY DEF Job, JobOf, Store, FillOps
<1> HIDE DEF d, op
<1>5. IsJob(j)
  BY <1>1, <1>2, JobIsJob
<1> HIDE DEF j
<1>6. PICK n \in Nat : IsWalk(j, walk, n) /\ n > 0
  BY <1>5, WorkIsWalk
<1> HIDE DEF walk
<1>7. IsPicture(after) /\ DOMAIN after = Addresses
  BY PaintedPicture
<1>8. ItemLayer(op, d).area = Target(d) /\ IsArea(Target(d)) /\ IsPicture(before)
      /\ Target(d).address = d.dst /\ Target(d).pitch = d.dpitch
      /\ Target(d).width = d.width /\ Target(d).height = d.height
  BY <1>2 DEF ItemLayer, Target, Place, IsArea
<1> HIDE DEF after
<1>d. Dram.first \in Nat /\ Dram.end \in Nat
  BY DrawCallsAssumption
<1>9. ASSUME NEW x \in 0 .. d.width - 1, NEW y \in 0 .. d.height - 1
      PROVE  LET cell == Cell(j, x, y) IN
             /\ cell.to \in Addresses /\ Inside(Target(d), cell.to)
             /\ after[cell.to] = Made(j, Sourced(j, cell, before), before[cell.to])
             /\ ~j.solid => cell.from \in Addresses /\ Inside(Shown(d), cell.from)
  <2> DEFINE cell == Cell(j, x, y)
  <2>1. cell.to = Target(d).address + y * Target(d).pitch + x
    BY <1>3, <1>8 DEF Cell
  <2>2. Inside(Target(d), cell.to) /\ cell.to \in Nat
    <3> HIDE DEF cell
    <3> QED BY <1>8, <2>1, PixelInside
  <2>3. cell.to \in Addresses
    <3> HIDE DEF cell
    <3>1. Target(d).address <= cell.to
          /\ cell.to < RectEnd(Target(d).address, Target(d).pitch, Target(d))
      BY <1>8, <2>2, InsideBounds
    <3>2. RectEnd(Target(d).address, Target(d).pitch, Target(d)) = RectEnd(d.dst, d.dpitch, d)
      BY <1>8 DEF RectEnd
    <3>3. RectEnd(d.dst, d.dpitch, d) \in Int
      BY <1>2, SMTT(30) DEF RectEnd
    <3> DEFINE e == RectEnd(d.dst, d.dpitch, d)
               t == cell.to
               f == d.dst
    <3>4. f <= t /\ t < e /\ Dram.first <= f /\ e <= Dram.end
      BY <1>1, <1>8, <3>1, <3>2
    <3>5. f \in Int /\ t \in Int /\ e \in Int
      BY <1>2, <2>2, <3>3
    <3> SUFFICES t \in Addresses
      OBVIOUS
    <3> HIDE DEF e, t, f
    <3> QED BY <1>d, <3>4, <3>5 DEF Addresses
  <2>4. after[cell.to] = Made(j, Sourced(j, cell, before), before[cell.to])
    BY <1>1, <2>3, PaintedCell DEF after, j
  <2>5. ASSUME ~j.solid PROVE cell.from \in Addresses /\ Inside(Shown(d), cell.from)
    <3> DEFINE p == Mirror(x, d.width, j.mirror_x)
               q == Mirror(y, d.height, j.mirror_y)
               area == Shown(d)
    <3>1. p \in 0 .. d.width - 1 /\ q \in 0 .. d.height - 1
      BY <1>2, SMTT(30) DEF Mirror
    <3>2. IsArea(area) /\ area.address = d.src /\ area.pitch = d.spitch
          /\ area.width = d.width /\ area.height = d.height
      BY <1>1, <1>2, <1>4, <2>5 DEF Shown, Place, IsArea
    <3>3. cell.from = area.address + q * area.pitch + p
      BY <1>3, <3>2 DEF Cell
    <3> HIDE DEF p, q, area, cell
    <3>4. Inside(area, cell.from) /\ cell.from \in Nat
      BY <3>1, <3>2, <3>3, PixelInside
    <3>5. area.address <= cell.from /\ cell.from < RectEnd(area.address, area.pitch, area)
      BY <3>2, <3>4, InsideBounds
    <3>6. RectEnd(area.address, area.pitch, area) = RectEnd(d.src, d.spitch, d)
      BY <3>2 DEF RectEnd
    <3>7. RectEnd(d.src, d.spitch, d) \in Int
      BY <1>2, SMTT(30) DEF RectEnd
    <3>8. cell.from \in Addresses
      <4> DEFINE e == RectEnd(d.src, d.spitch, d)
                 t == cell.from
                 f == d.src
      <4>1. f <= t /\ t < e
        BY <3>2, <3>5, <3>6
      <4>2. Dram.first <= f /\ e <= Dram.end
        BY <1>1, <1>4, <2>5
      <4>3. f \in Int /\ t \in Int /\ e \in Int
        BY <1>2, <3>4, <3>7
      <4> SUFFICES t \in Addresses
        OBVIOUS
      <4> HIDE DEF e, t, f
      <4> QED BY <1>d, <4>1, <4>2, <4>3 DEF Addresses
    <3> QED BY <3>4, <3>8 DEF area
  <2> QED BY <2>2, <2>3, <2>4, <2>5
<1>10. ASSUME NEW i \in 1 .. n, NEW l \in DOMAIN walk[i]
       PROVE  \E x \in 0 .. d.width - 1, y \in 0 .. d.height - 1 : walk[i][l] = Cell(j, x, y)
  BY <1>3, <1>6 DEF IsWalk
<1>11. ASSUME NEW a \in Addresses,
              \A i \in 1 .. n : \A l \in DOMAIN walk[i] : walk[i][l].to # a
       PROVE  after[a] = before[a]
  <2>1. a \in Int
    BY <1>d DEF Addresses
  <2>2. ~Inside(Target(d), a)
    <3> SUFFICES ASSUME Inside(Target(d), a) PROVE FALSE
      OBVIOUS
    <3> DEFINE x == (a - Target(d).address) % Target(d).pitch
               y == (a - Target(d).address) \div Target(d).pitch
    <3>1. /\ x \in 0 .. d.width - 1 /\ y \in 0 .. d.height - 1
          /\ a = d.dst + y * d.dpitch + x
      BY <1>8, <2>1, InsidePixel
    <3> HIDE DEF x, y
    <3>2. a = Cell(j, x, y).to
      BY <1>3, <3>1 DEF Cell
    <3>3. \E i \in 1 .. n : \E l \in DOMAIN walk[i] : walk[i][l] = Cell(j, x, y)
      BY <1>3, <1>6, <3>1 DEF IsWalk
    <3> QED BY <1>11, <3>2, <3>3
  <2> QED BY <1>8, <2>2, PaintedOutside DEF after
<1>12. ASSUME NEW i \in 1 .. n, NEW l \in DOMAIN walk[i]
       PROVE  LET cell == walk[i][l] IN
              /\ cell.to \in Addresses /\ Inside(Target(d), cell.to)
              /\ after[cell.to] = Made(j, Sourced(j, cell, before), before[cell.to])
              /\ ~j.solid => cell.from \in Addresses /\ Inside(Shown(d), cell.from)
  BY <1>9, <1>10
<1>13. IsTask(op, d, before, after, walk, n)
  BY <1>6, <1>7, <1>11, <1>12 DEF IsTask, j
<1> QED BY <1>13 DEF after, walk, j, op, d
=============================================================================
