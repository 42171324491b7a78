--------------------------- MODULE LRUCacheProofs ---------------------------
(***************************************************************************)
(* The L1 cache for any keys, tags and capacity: tag invalidation, recency *)
(* of use, and the OrderedDict, which never lists more than the capacity.  *)
(***************************************************************************)
EXTENDS LRURecency, TLAPS, WellFoundedInduction, FiniteSetTheorems

(* What Without returns.  It recurses over the sequence: that its recursion  *)
(* has a solution, and what the solution is, is proved by induction, and     *)
(* induction by the minimum principle WFMin.                                 *)

LEMMA Induct ==
  ASSUME NEW T, 0 \in T, \A n \in Nat : n \in T => n + 1 \in T
  PROVE  Nat \subseteq T
<1> SUFFICES ASSUME Nat \ T # {}
             PROVE  FALSE
  OBVIOUS
<1>1. PICK m \in Nat \ T : \A n \in Nat \ T : ~ (<<n, m>> \in OpToRel(<, Nat))
  BY NatLessThanWellFounded, WFMin
<1>2. \A n \in Nat \ T : ~ n < m
  BY <1>1 DEF OpToRel
<1>3. m # 0 /\ m - 1 \in Nat
  OBVIOUS
<1>4. m - 1 \in T
  BY <1>2, <1>3
<1> QED
  BY <1>3, <1>4

\* The recursion of Without, up to the m-th element.
Recursion(g, s, S, m) ==
    g = [n \in 0 .. m |-> IF n = 0 THEN <<>>
                          ELSE IF s[n] \in S THEN g[n - 1] ELSE Append(g[n - 1], s[n])]

LEMMA RecursionSolved ==
  ASSUME NEW s, NEW S, NEW m \in Nat
  PROVE  \E g : Recursion(g, s, S, m)
<1> DEFINE T == {n \in Nat : \E g : Recursion(g, s, S, n)}
<1>1. 0 \in T
  <2>1. Recursion([n \in 0 .. 0 |-> <<>>], s, S, 0)
    BY DEF Recursion
  <2> QED
    BY <2>1
<1>2. ASSUME NEW n \in Nat, n \in T
      PROVE  n + 1 \in T
  <2>1. PICK g : Recursion(g, s, S, n)
    BY <1>2
  <2> DEFINE last == IF s[n + 1] \in S THEN g[n] ELSE Append(g[n], s[n + 1])
             h == [i \in 0 .. n + 1 |-> IF i = n + 1 THEN last ELSE g[i]]
  <2> HIDE DEF last
  <2>2. \A i \in 0 .. n : g[i] = IF i = 0 THEN <<>>
                   ELSE IF s[i] \in S THEN g[i - 1] ELSE Append(g[i - 1], s[i])
    BY <2>1 DEF Recursion
  <2>3. ASSUME NEW i \in 0 .. n + 1
        PROVE  h[i] = IF i = 0 THEN <<>>
                      ELSE IF s[i] \in S THEN h[i - 1] ELSE Append(h[i - 1], s[i])
    <3>1. CASE i = n + 1
      BY <3>1 DEF last
    <3>2. CASE i # n + 1
      BY <2>2, <3>2
    <3> QED
      BY <3>1, <3>2
  <2>4. Recursion(h, s, S, n + 1)
    BY <2>3 DEF Recursion
  <2> QED
    BY <2>4
<1> HIDE DEF T
<1>3. m \in T
  BY <1>1, <1>2, Induct
<1> QED
  BY <1>3 DEF T

\* What is left of the first n elements of s.
Kept(s, S) == CHOOSE g : Recursion(g, s, S, Len(s))

LEMMA KeptIs ==
  ASSUME NEW s, NEW S, Len(s) \in Nat
  PROVE  /\ Without(s, S) = Kept(s, S)[Len(s)]
         /\ Kept(s, S)[0] = <<>>
         /\ \A n \in 1 .. Len(s) :
               Kept(s, S)[n] = IF s[n] \in S THEN Kept(s, S)[n - 1]
                               ELSE Append(Kept(s, S)[n - 1], s[n])
<1>1. Without(s, S) = Kept(s, S)[Len(s)]
  BY DEF Without, Kept, Recursion
<1>2. Recursion(Kept(s, S), s, S, Len(s))
  BY RecursionSolved DEF Kept
<1>3. ASSUME NEW g, NEW m \in Nat, Recursion(g, s, S, m)
      PROVE  /\ g[0] = <<>>
             /\ \A n \in 1 .. m :
                   g[n] = IF s[n] \in S THEN g[n - 1] ELSE Append(g[n - 1], s[n])
  <2>1. \A n \in 0 .. m : g[n] = IF n = 0 THEN <<>>
                       ELSE IF s[n] \in S THEN g[n - 1] ELSE Append(g[n - 1], s[n])
    BY <1>3 DEF Recursion
  <2> QED
    BY <2>1
<1> QED
  BY <1>1, <1>2, <1>3

Elements(s) == {s[i] : i \in DOMAIN s}
Distinct(s) == \A i, j \in DOMAIN s : s[i] = s[j] => i = j

\* Of a sequence nothing is left but elements outside the set, all of them; they
\* stay distinct, and if one goes the sequence gets shorter.
LEMMA WithoutIs ==
  ASSUME NEW K, NEW s \in Seq(K), NEW S
  PROVE  /\ Without(s, S) \in Seq(K)
         /\ Elements(Without(s, S)) = Elements(s) \ S
         /\ Len(Without(s, S)) <= Len(s)
         /\ Elements(s) \cap S # {} => Len(Without(s, S)) < Len(s)
         /\ Distinct(s) => Distinct(Without(s, S))
<1> DEFINE g == Kept(s, S)
           L == Len(s)
           Like(n) == /\ g[n] \in Seq(K) /\ Len(g[n]) <= n
                      /\ \A i \in 1 .. Len(g[n]) :
                            \E j \in 1 .. n : s[j] = g[n][i] /\ s[j] \notin S
                      /\ \A j \in 1 .. n : s[j] \notin S =>
                            \E i \in 1 .. Len(g[n]) : s[j] = g[n][i]
                      /\ (\E j \in 1 .. n : s[j] \in S) => Len(g[n]) < n
                      /\ Distinct(s) => \A i, j \in 1 .. Len(g[n]) : g[n][i] = g[n][j] => i = j
           T == {n \in Nat : n <= L => Like(n)}
<1>0. L \in Nat /\ DOMAIN s = 1 .. L /\ \A n \in 1 .. L : s[n] \in K
  OBVIOUS
<1>1. /\ Without(s, S) = g[L]
      /\ g[0] = <<>>
      /\ \A n \in 1 .. L : g[n] = IF s[n] \in S THEN g[n - 1] ELSE Append(g[n - 1], s[n])
  BY <1>0, KeptIs
<1> HIDE DEF g, L
<1>2. 0 \in T
  <2>1. g[0] \in Seq(K) /\ Len(g[0]) = 0
    BY <1>1
  <2> QED
    BY <2>1
<1>3. ASSUME NEW n \in Nat, n \in T
      PROVE  n + 1 \in T
  <2> SUFFICES ASSUME n + 1 <= L
               PROVE  Like(n + 1)
    BY <1>0
  <2> DEFINE r == g[n]
             q == g[n + 1]
             x == s[n + 1]
  <2> HIDE DEF Like
  <2>1. Like(n)
    BY <1>0, <1>3
  <2> USE DEF Like
  <2>2. q = IF x \in S THEN r ELSE Append(r, x)
    BY <1>0, <1>1
  <2>3. x \in K
    BY <1>0
  <2>4. CASE x \in S
    <3>1. q = r
      BY <2>2, <2>4
    <3> HIDE DEF r, q
    <3> QED
      BY <2>1, <2>4, <3>1 DEF r, q
  <2>5. CASE x \notin S
    <3>1. q = Append(r, x) /\ r \in Seq(K)
      BY <2>1, <2>2, <2>5
    <3>2. /\ q \in Seq(K) /\ Len(q) = Len(r) + 1 /\ Len(r) \in Nat /\ q[Len(r) + 1] = x
          /\ \A i \in 1 .. Len(r) : q[i] = r[i]
      BY <2>3, <3>1
    <3>3. /\ Len(r) <= n
          /\ \A i \in 1 .. Len(r) : \E j \in 1 .. n : s[j] = r[i] /\ s[j] \notin S
          /\ \A j \in 1 .. n : s[j] \notin S => \E i \in 1 .. Len(r) : s[j] = r[i]
          /\ (\E j \in 1 .. n : s[j] \in S) => Len(r) < n
          /\ Distinct(s) => \A i, j \in 1 .. Len(r) : r[i] = r[j] => i = j
      BY <2>1
    <3> HIDE DEF r, q
    <3>4. \A i \in 1 .. Len(q) : \E j \in 1 .. n + 1 : s[j] = q[i] /\ s[j] \notin S
      <4> SUFFICES ASSUME NEW i \in 1 .. Len(q)
                   PROVE  \E j \in 1 .. n + 1 : s[j] = q[i] /\ s[j] \notin S
        OBVIOUS
      <4>1. CASE i = Len(r) + 1
        BY <2>5, <3>2, <4>1
      <4>2. CASE i \in 1 .. Len(r)
        <5>1. PICK j \in 1 .. n : s[j] = r[i] /\ s[j] \notin S
          BY <3>3, <4>2
        <5> QED
          BY <3>2, <4>2, <5>1
      <4> QED
        BY <3>2, <4>1, <4>2
    <3>5. \A j \in 1 .. n + 1 : s[j] \notin S => \E i \in 1 .. Len(q) : s[j] = q[i]
      <4> SUFFICES ASSUME NEW j \in 1 .. n + 1, s[j] \notin S
                   PROVE  \E i \in 1 .. Len(q) : s[j] = q[i]
        OBVIOUS
      <4>1. CASE j = n + 1
        BY <3>2, <4>1
      <4>2. CASE j \in 1 .. n
        <5>1. PICK i \in 1 .. Len(r) : s[j] = r[i]
          BY <3>3, <4>2
        <5> QED
          BY <3>2, <5>1
      <4> QED
        BY <4>1, <4>2
    <3>6. (\E j \in 1 .. n + 1 : s[j] \in S) => Len(q) < n + 1
      BY <2>5, <3>2, <3>3
    <3>7. ASSUME Distinct(s), NEW i \in 1 .. Len(q), NEW j \in 1 .. Len(q), q[i] = q[j]
          PROVE  i = j
      <4>1. \A k \in 1 .. Len(r) : r[k] # x
        <5> SUFFICES ASSUME NEW k \in 1 .. Len(r)
                     PROVE  r[k] # x
          OBVIOUS
        <5>1. PICK h \in 1 .. n : s[h] = r[k]
          BY <3>3
        <5> QED
          BY <1>0, <3>7, <5>1 DEF Distinct
      <4> HIDE DEF x
      <4>2. CASE i \in 1 .. Len(r) /\ j \in 1 .. Len(r)
        BY <3>2, <3>3, <3>7, <4>2
      <4>3. CASE i = Len(r) + 1
        BY <3>2, <3>7, <4>1, <4>3
      <4>4. CASE j = Len(r) + 1
        BY <3>2, <3>7, <4>1, <4>4
      <4> QED
        BY <3>2, <4>2, <4>3, <4>4
    <3>8. /\ q \in Seq(K) /\ Len(q) <= n + 1
          /\ Distinct(s) => \A i, j \in 1 .. Len(q) : q[i] = q[j] => i = j
      BY <3>2, <3>3, <3>7
    <3> QED
      BY <3>4, <3>5, <3>6, <3>8 DEF q
  <2> QED
    BY <2>4, <2>5
<1>4. Nat \subseteq T
  <2> HIDE DEF T
  <2> QED
    BY <1>2, <1>3, Induct
<1>5. Like(L)
  <2>1. L \in T
    BY <1>0, <1>4
  <2> HIDE DEF Like
  <2>2. L <= L => Like(L)
    BY <2>1
  <2> QED
    BY <1>0, <2>2
<1> DEFINE w == Without(s, S)
<1>6. /\ w \in Seq(K) /\ Len(w) <= L /\ DOMAIN w = 1 .. Len(w)
      /\ \A i \in 1 .. Len(w) : \E j \in 1 .. L : s[j] = w[i] /\ s[j] \notin S
      /\ \A j \in 1 .. L : s[j] \notin S => \E i \in 1 .. Len(w) : s[j] = w[i]
      /\ (\E j \in 1 .. L : s[j] \in S) => Len(w) < L
      /\ Distinct(s) => \A i, j \in 1 .. Len(w) : w[i] = w[j] => i = j
  <2>1. w = g[L]
    BY <1>1
  <2>2. w \in Seq(K) /\ Len(w) <= L
    BY <1>5, <2>1
  <2>3. DOMAIN w = 1 .. Len(w)
    BY <2>2
  <2> QED
    BY <1>5, <2>1, <2>2, <2>3
<1> HIDE DEF w
<1>7. Elements(w) = Elements(s) \ S
  <2>1. Elements(w) = {w[i] : i \in 1 .. Len(w)} /\ Elements(s) = {s[j] : j \in 1 .. L}
    BY <1>0, <1>6 DEF Elements
  <2>2. ASSUME NEW x \in Elements(w)
        PROVE  x \in Elements(s) \ S
    BY <1>6, <2>1, <2>2
  <2>3. ASSUME NEW x \in Elements(s) \ S
        PROVE  x \in Elements(w)
    BY <1>6, <2>1, <2>3
  <2> QED
    BY <2>2, <2>3
<1>8. Elements(s) \cap S # {} => Len(w) < L
  BY <1>0, <1>6 DEF Elements
<1>9. Distinct(s) => Distinct(w)
  BY <1>6 DEF Distinct
<1> QED
  BY <1>6, <1>7, <1>8, <1>9 DEF w, L

LEMMA AppendIs ==
  ASSUME NEW K, NEW s \in Seq(K), NEW x \in K
  PROVE  /\ Append(s, x) \in Seq(K) /\ Len(Append(s, x)) = Len(s) + 1
         /\ Elements(Append(s, x)) = Elements(s) \cup {x}
         /\ Distinct(s) /\ x \notin Elements(s) => Distinct(Append(s, x))
<1> DEFINE q == Append(s, x)
           L == Len(s)
<1>1. /\ L \in Nat /\ DOMAIN s = 1 .. L /\ DOMAIN q = 1 .. L + 1
      /\ q \in Seq(K) /\ Len(q) = L + 1 /\ q[L + 1] = x
      /\ \A i \in 1 .. L : q[i] = s[i]
  OBVIOUS
<1> HIDE DEF q, L
<1>2. Elements(q) = Elements(s) \cup {x}
  <2>1. Elements(q) = {q[i] : i \in 1 .. L + 1} /\ Elements(s) = {s[i] : i \in 1 .. L}
    BY <1>1 DEF Elements
  <2>2. ASSUME NEW y \in Elements(q)
        PROVE  y \in Elements(s) \cup {x}
    BY <1>1, <2>1, <2>2
  <2>3. ASSUME NEW y \in Elements(s) \cup {x}
        PROVE  y \in Elements(q)
    BY <1>1, <2>1, <2>3
  <2> QED
    BY <2>2, <2>3
<1>3. Distinct(s) /\ x \notin Elements(s) => Distinct(q)
  BY <1>1 DEF Distinct, Elements
<1> QED
  BY <1>1, <1>2, <1>3 DEF q, L

\* What is left of a longer sequence begins with what is left of its beginning.
LEMMA KeptPrefix ==
  ASSUME NEW K, NEW s \in Seq(K), NEW x \in K, NEW S
  PROVE  /\ \A n \in 0 .. Len(s) : Kept(s, S)[n] \in Seq(K)
         /\ \A n \in 0 .. Len(s) : Kept(Append(s, x), S)[n] = Kept(s, S)[n]
<1> DEFINE L == Len(s)
           q == Append(s, x)
           g == Kept(s, S)
           h == Kept(q, S)
           T == {n \in Nat : n <= L => g[n] \in Seq(K) /\ h[n] = g[n]}
<1>1. /\ L \in Nat /\ Len(q) = L + 1 /\ \A n \in 1 .. L : s[n] \in K /\ q[n] = s[n]
  OBVIOUS
<1>2. g[0] = <<>> /\ \A n \in 1 .. L : g[n] = IF s[n] \in S THEN g[n - 1] ELSE Append(g[n - 1], s[n])
  BY <1>1, KeptIs
<1> HIDE DEF L, q
<1>3. h[0] = <<>> /\ \A n \in 1 .. L + 1 : h[n] = IF q[n] \in S THEN h[n - 1] ELSE Append(h[n - 1], q[n])
  BY <1>1, KeptIs
<1> HIDE DEF g, h
<1>4. 0 \in T
  <2>1. g[0] = <<>> /\ h[0] = <<>>
    BY <1>2, <1>3
  <2>2. <<>> \in Seq(K)
    OBVIOUS
  <2> QED
    BY <2>1, <2>2
<1>5. ASSUME NEW n \in Nat, n \in T
      PROVE  n + 1 \in T
  <2> SUFFICES ASSUME n + 1 <= L
               PROVE  g[n + 1] \in Seq(K) /\ h[n + 1] = g[n + 1]
    BY <1>1
  <2>1. g[n] \in Seq(K) /\ h[n] = g[n]
    BY <1>1, <1>5
  <2>2. n + 1 \in 1 .. L /\ n + 1 \in 1 .. L + 1 /\ n + 1 - 1 = n
    BY <1>1
  <2>3. s[n + 1] \in K /\ q[n + 1] = s[n + 1]
    BY <1>1, <2>2
  <2>4. g[n + 1] = IF s[n + 1] \in S THEN g[n] ELSE Append(g[n], s[n + 1])
    BY <1>2, <2>2
  <2>5. h[n + 1] = IF q[n + 1] \in S THEN h[n] ELSE Append(h[n], q[n + 1])
    BY <1>3, <2>2
  <2> QED
    BY <2>1, <2>3, <2>4, <2>5
<1> HIDE DEF T
<1>6. Nat \subseteq T
  BY <1>4, <1>5, Induct
<1>7. \A n \in 0 .. L : g[n] \in Seq(K) /\ h[n] = g[n]
  BY <1>1, <1>6 DEF T
<1> QED
  BY <1>7 DEF L, q, g, h

LEMMA WithoutAppend ==
  ASSUME NEW K, NEW s \in Seq(K), NEW x \in K, NEW S
  PROVE  Without(Append(s, x), S) = IF x \in S THEN Without(s, S)
                                    ELSE Append(Without(s, S), x)
<1> DEFINE q == Append(s, x)
           L == Len(s)
<1>1. L \in Nat /\ Len(q) = L + 1 /\ q[L + 1] = x
  OBVIOUS
<1>2. Kept(q, S)[L] = Kept(s, S)[L]
  BY <1>1, KeptPrefix
<1>3. Without(s, S) = Kept(s, S)[L]
  BY <1>1, KeptIs
<1> HIDE DEF q, L
<1>4. Without(q, S) = Kept(q, S)[L + 1]
  BY <1>1, KeptIs
<1>5. \A n \in 1 .. L + 1 : Kept(q, S)[n] = IF q[n] \in S THEN Kept(q, S)[n - 1]
                                          ELSE Append(Kept(q, S)[n - 1], q[n])
  BY <1>1, KeptIs
<1>6. Kept(q, S)[L + 1] = IF q[L + 1] \in S THEN Kept(q, S)[L]
                          ELSE Append(Kept(q, S)[L], q[L + 1])
  BY <1>1, <1>5
<1> QED
  BY <1>1, <1>2, <1>3, <1>4, <1>6 DEF q

LEMMA WithoutEmpty ==
  ASSUME NEW S
  PROVE  Without(<<>>, S) = <<>>
<1> QED
  BY KeptIs

\* Dropping one set after the other drops their union.
LEMMA WithoutTwice ==
  ASSUME NEW K, NEW s \in Seq(K), NEW A, NEW B
  PROVE  Without(Without(s, A), B) = Without(s, A \cup B)
<1> DEFINE L == Len(s)
           g == Kept(s, A)
           h == Kept(s, A \cup B)
           T == {n \in Nat : n <= L => Without(g[n], B) = h[n]}
<1>1. /\ L \in Nat /\ \A n \in 1 .. L : s[n] \in K
  OBVIOUS
<1>2. /\ Without(s, A) = g[L] /\ g[0] = <<>>
      /\ \A n \in 1 .. L : g[n] = IF s[n] \in A THEN g[n - 1] ELSE Append(g[n - 1], s[n])
  BY <1>1, KeptIs
<1>3. /\ Without(s, A \cup B) = h[L] /\ h[0] = <<>>
      /\ \A n \in 1 .. L : h[n] = IF s[n] \in A \cup B THEN h[n - 1] ELSE Append(h[n - 1], s[n])
  BY <1>1, KeptIs
<1>4. ASSUME NEW n \in Nat, n + 1 <= L
      PROVE  g[n] \in Seq(K) /\ s[n + 1] \in K
  <2>1. \A x \in K : \A m \in 0 .. L : g[m] \in Seq(K)
    BY KeptPrefix
  <2>2. n \in 0 .. L /\ n + 1 \in 1 .. L
    BY <1>1, <1>4
  <2> QED
    BY <1>1, <2>1, <2>2
<1> HIDE DEF L, g, h
<1>5. 0 \in T
  BY <1>2, <1>3, WithoutEmpty
<1>6. ASSUME NEW n \in Nat, n \in T
      PROVE  n + 1 \in T
  <2> SUFFICES ASSUME n + 1 <= L
               PROVE  Without(g[n + 1], B) = h[n + 1]
    BY <1>1
  <2>1. n + 1 \in 1 .. L /\ n + 1 - 1 = n
    BY <1>1
  <2> DEFINE x == s[n + 1]
  <2>2. Without(g[n], B) = h[n]
    BY <1>1, <1>6
  <2>3. g[n] \in Seq(K) /\ x \in K
    BY <1>4
  <2>4. g[n + 1] = IF x \in A THEN g[n] ELSE Append(g[n], x)
    BY <1>2, <2>1
  <2>5. h[n + 1] = IF x \in A \cup B THEN h[n] ELSE Append(h[n], x)
    BY <1>3, <2>1
  <2> HIDE DEF x
  <2>6. Without(Append(g[n], x), B) = IF x \in B THEN Without(g[n], B)
                                      ELSE Append(Without(g[n], B), x)
    BY <2>3, WithoutAppend, ZenonT(30)
  <2> QED
    BY <2>2, <2>4, <2>5, <2>6
<1> HIDE DEF T
<1>7. L \in T
  BY <1>1, <1>5, <1>6, Induct
<1> QED
  BY <1>1, <1>2, <1>3, <1>7 DEF T

\* What is left has as many elements as places hold nothing of the set.
LEMMA WithoutCounts ==
  ASSUME NEW K, NEW s \in Seq(K), NEW S
  PROVE  Len(Without(s, S)) = Cardinality({i \in 1 .. Len(s) : s[i] \notin S})
<1> DEFINE L == Len(s)
           g == Kept(s, S)
           left(n) == {i \in 1 .. n : s[i] \notin S}
           T == {n \in Nat : n <= L => IsFiniteSet(left(n)) /\ Len(g[n]) = Cardinality(left(n))}
<1>1. /\ L \in Nat /\ \A n \in 1 .. L : s[n] \in K
  OBVIOUS
<1>2. /\ Without(s, S) = g[L] /\ g[0] = <<>>
      /\ \A n \in 1 .. L : g[n] = IF s[n] \in S THEN g[n - 1] ELSE Append(g[n - 1], s[n])
  BY <1>1, KeptIs
<1>3. ASSUME NEW n \in Nat, n + 1 <= L
      PROVE  g[n] \in Seq(K) /\ s[n + 1] \in K
  <2>1. \A x \in K : \A m \in 0 .. L : g[m] \in Seq(K)
    BY KeptPrefix
  <2>2. n \in 0 .. L /\ n + 1 \in 1 .. L
    BY <1>1, <1>3
  <2> QED
    BY <1>1, <2>1, <2>2
<1> HIDE DEF L, g
<1>4. 0 \in T
  <2>1. left(0) = {}
    OBVIOUS
  <2> QED
    BY <1>2, <2>1, FS_EmptySet
<1>5. ASSUME NEW n \in Nat, n \in T
      PROVE  n + 1 \in T
  <2> SUFFICES ASSUME n + 1 <= L
               PROVE  IsFiniteSet(left(n + 1)) /\ Len(g[n + 1]) = Cardinality(left(n + 1))
    BY <1>1
  <2>1. n + 1 \in 1 .. L /\ n + 1 - 1 = n
    BY <1>1
  <2>2. IsFiniteSet(left(n)) /\ Len(g[n]) = Cardinality(left(n))
    BY <1>1, <1>5
  <2>3. g[n] \in Seq(K) /\ s[n + 1] \in K
    BY <1>3
  <2>4. g[n + 1] = IF s[n + 1] \in S THEN g[n] ELSE Append(g[n], s[n + 1])
    BY <1>2, <2>1
  <2>5. CASE s[n + 1] \in S
    <3>1. left(n + 1) = left(n)
      BY <2>5
    <3> QED
      BY <2>2, <2>4, <2>5, <3>1
  <2>6. CASE s[n + 1] \notin S
    <3>1. left(n + 1) = left(n) \cup {n + 1} /\ n + 1 \notin left(n)
      BY <2>6
    <3> HIDE DEF left
    <3>2. IsFiniteSet(left(n + 1)) /\ Cardinality(left(n + 1)) = Cardinality(left(n)) + 1
      BY <2>2, <3>1, FS_AddElement
    <3>3. Len(g[n + 1]) = Len(g[n]) + 1
      BY <2>3, <2>4, <2>6
    <3> QED
      BY <2>2, <3>2, <3>3
  <2> QED
    BY <2>5, <2>6
<1> HIDE DEF T
<1>6. L \in T
  BY <1>1, <1>4, <1>5, Induct
<1> QED
  BY <1>1, <1>2, <1>6 DEF T, L

\* A set of numbers has a least one.
LEMMA LeastOf ==
  ASSUME NEW S, S \subseteq Nat, S # {}
  PROVE  \E n \in S : \A m \in S : n <= m
<1>1. PICK n \in S : \A m \in S : ~ (<<m, n>> \in OpToRel(<, Nat))
  BY NatLessThanWellFounded, WFMin
<1>2. \A m \in S : ~ m < n
  BY <1>1 DEF OpToRel
<1> QED
  BY <1>2

\* What a larger set leaves is no longer.
LEMMA WithoutMore ==
  ASSUME NEW K, NEW s \in Seq(K), NEW A, NEW B, A \subseteq B
  PROVE  Len(Without(s, B)) <= Len(Without(s, A))
<1>1. Without(s, A) \in Seq(K)
  BY WithoutIs
<1>2. Without(Without(s, A), B) = Without(s, A \cup B) /\ A \cup B = B
  BY WithoutTwice
<1> QED
  BY <1>1, <1>2, WithoutIs

\* The recursion of Running, up to the m-th element.
Summing(g, s, m) == g = [n \in 0 .. m |-> IF n = 0 THEN 0 ELSE g[n - 1] + s[n]]

LEMMA SummingSolved ==
  ASSUME NEW s, NEW m \in Nat
  PROVE  \E g : Summing(g, s, m)
<1> DEFINE T == {n \in Nat : \E g : Summing(g, s, n)}
<1>1. 0 \in T
  <2>1. Summing([n \in 0 .. 0 |-> 0], s, 0)
    BY DEF Summing
  <2> QED
    BY <2>1
<1>2. ASSUME NEW n \in Nat, n \in T
      PROVE  n + 1 \in T
  <2>1. PICK g : Summing(g, s, n)
    BY <1>2
  <2> DEFINE last == g[n] + s[n + 1]
             h == [i \in 0 .. n + 1 |-> IF i = n + 1 THEN last ELSE g[i]]
  <2> HIDE DEF last
  <2>2. \A i \in 0 .. n : g[i] = IF i = 0 THEN 0 ELSE g[i - 1] + s[i]
    BY <2>1 DEF Summing
  <2>3. ASSUME NEW i \in 0 .. n + 1
        PROVE  h[i] = IF i = 0 THEN 0 ELSE h[i - 1] + s[i]
    <3>1. CASE i = n + 1
      <4>1. i - 1 = n /\ i # 0 /\ n \in 0 .. n + 1 /\ n # n + 1
        BY <3>1
      <4>2. h[i] = last /\ h[i - 1] = g[n]
        BY <3>1, <4>1
      <4> HIDE DEF h
      <4> QED
        BY <3>1, <4>1, <4>2 DEF last
    <3>2. CASE i # n + 1
      <4>1. i \in 0 .. n /\ h[i] = g[i] /\ (i # 0 => i - 1 \in 0 .. n /\ h[i - 1] = g[i - 1])
        BY <3>2
      <4> HIDE DEF h
      <4> QED
        BY <2>2, <4>1
    <3> QED
      BY <3>1, <3>2
  <2>4. Summing(h, s, n + 1)
    BY <2>3 DEF Summing
  <2> QED
    BY <2>4
<1> HIDE DEF T
<1>3. m \in T
  BY <1>1, <1>2, Induct
<1> QED
  BY <1>3 DEF T

\* What running totals are.
LEMMA RunningIs ==
  ASSUME NEW s \in Seq(Nat)
  PROVE  /\ Running(s)[0] = 0
         /\ \A n \in Nat : n + 1 <= Len(s) => Running(s)[n + 1] = Running(s)[n] + s[n + 1]
         /\ \A n \in 0 .. Len(s) : Running(s)[n] \in Nat
<1> DEFINE L == Len(s)
           g == Running(s)
<1>1. L \in Nat /\ \A n \in 1 .. L : s[n] \in Nat
  OBVIOUS
<1>2. g = CHOOSE f : Summing(f, s, L)
  BY DEF Running, Summing
<1> HIDE DEF L, g
<1>3. Summing(g, s, L)
  BY <1>1, <1>2, SummingSolved
<1>4. \A n \in 0 .. L : g[n] = IF n = 0 THEN 0 ELSE g[n - 1] + s[n]
  BY <1>3 DEF Summing
<1>5. g[0] = 0
  <2>1. 0 \in 0 .. L
    BY <1>1
  <2> QED
    BY <1>4, <2>1
<1>6. ASSUME NEW n \in Nat, n + 1 <= L
      PROVE  g[n + 1] = g[n] + s[n + 1]
  <2>1. n + 1 \in 0 .. L /\ n + 1 # 0 /\ (n + 1) - 1 = n
    BY <1>1, <1>6
  <2>2. g[n + 1] = g[(n + 1) - 1] + s[n + 1]
    BY <1>4, <2>1
  <2> QED
    BY <2>1, <2>2
<1> DEFINE T == {n \in Nat : n <= L => g[n] \in Nat}
<1>7. 0 \in T
  BY <1>5
<1>8. ASSUME NEW n \in Nat, n \in T
      PROVE  n + 1 \in T
  <2> SUFFICES ASSUME n + 1 <= L
               PROVE  g[n + 1] \in Nat
    OBVIOUS
  <2>1. g[n] \in Nat /\ n + 1 \in 1 .. L
    BY <1>1, <1>8
  <2> QED
    BY <1>1, <1>6, <2>1
<1> HIDE DEF T
<1>9. Nat \subseteq T
  BY <1>7, <1>8, Induct
<1>10. \A n \in 0 .. L : g[n] \in Nat
  BY <1>1, <1>9 DEF T
<1> QED
  BY <1>5, <1>6, <1>10 DEF L, g

-----------------------------------------------------------------------------
(* The order of the OrderedDict.                                            *)

Ordered ==
    /\ order \in Seq(Keys) /\ Len(order) <= Capacity
    /\ Elements(order) = {k \in Keys : Cached(k)}
    /\ Distinct(order)

LEMMA DeleteKeysOrdered ==
  ASSUME EntriesTyped, Ordered, NEW S \in SUBSET Keys,
         order' = Without(order, S), entry' = EntriesWithout(S)
  PROVE  Ordered'
<1>1. {k \in Keys : Cached(k)}' = {k \in Keys : Cached(k)} \ S
  BY DEF EntriesWithout, EntriesTyped, Cached
<1>2. /\ order' \in Seq(Keys) /\ Len(order') <= Len(order)
      /\ Elements(order') = Elements(order) \ S /\ Distinct(order')
  BY WithoutIs DEF Ordered
<1>3. Len(order) \in Nat /\ Len(order') \in Nat
  BY <1>2 DEF Ordered
<1> QED
  BY <1>1, <1>2, <1>3, CapacityAssumption DEF Ordered

\* A hit takes its key out of the order and puts it at the end.
LEMMA GetHitOrdered ==
  ASSUME Ordered, NEW k \in Keys, GetHit(k)
  PROVE  Ordered'
<1> DEFINE kept == Without(order, {k})
<1>1. k \in Elements(order)
  BY DEF GetHit, Ordered
<1>2. /\ kept \in Seq(Keys) /\ Elements(kept) = Elements(order) \ {k}
      /\ Len(kept) < Len(order) /\ Distinct(kept)
  BY <1>1, WithoutIs DEF Ordered
<1>3. order' = Append(kept, k) /\ entry' = entry
  BY DEF GetHit
<1> HIDE DEF kept
<1>4. /\ order' \in Seq(Keys) /\ Len(order') = Len(kept) + 1
      /\ Elements(order') = Elements(kept) \cup {k} /\ Distinct(order')
  BY <1>2, <1>3, AppendIs
<1>5. Len(order) \in Nat /\ Len(kept) \in Nat /\ Len(order') <= Len(order)
  BY <1>2, <1>4 DEF Ordered
<1>6. Elements(order') = Elements(order)
  BY <1>1, <1>2, <1>4
<1>7. {j \in Keys : Cached(j)}' = {j \in Keys : Cached(j)}
  BY <1>3 DEF Cached
<1> QED
  BY <1>3, <1>4, <1>5, <1>6, <1>7, CapacityAssumption DEF Ordered

\* A set evicts before it appends: what is kept leaves room for one key more.
LEMMA SetOrdered ==
  ASSUME EntriesTyped, Ordered, NEW k \in Keys, NEW v \in Values,
         NEW exp \in BOOLEAN, NEW tags \in SUBSET Tags, Set(k, v, exp, tags)
  PROVE  Ordered'
<1> DEFINE kept == Without(order, {k})
           out == Victims(kept)
           rest == Without(kept, out)
           new == [val |-> v, expires |-> exp, overdue |-> FALSE, tags |-> tags]
<1>1. /\ order' = Append(rest, k)
      /\ entry' = [EntriesWithout(out) EXCEPT ![k] = new]
  BY DEF Set
<1>2. new # NoEntry
  <2>1. new \in Entries
    BY DEF Entries
  <2> QED
    BY <2>1, NoEntryAssumption
<1>3. /\ kept \in Seq(Keys) /\ Elements(kept) = Elements(order) \ {k}
      /\ Len(kept) <= Len(order) /\ Distinct(kept)
  BY WithoutIs DEF Ordered
<1>4. out = {kept[i] : i \in 1 .. (Len(kept) - Capacity + 1)}
  BY DEF Victims
<1> HIDE DEF kept, out
<1>5. /\ rest \in Seq(Keys) /\ Elements(rest) = Elements(kept) \ out
      /\ Len(rest) <= Len(kept) /\ Distinct(rest)
      /\ Elements(kept) \cap out # {} => Len(rest) < Len(kept)
  BY <1>3, WithoutIs
<1> HIDE DEF rest, new
<1>6. /\ Len(kept) \in Nat /\ Len(rest) \in Nat /\ Len(order) \in Nat
      /\ DOMAIN kept = 1 .. Len(kept) /\ Len(order) <= Capacity
  BY <1>3, <1>5 DEF Ordered
<1>7. Len(rest) < Capacity
  <2>1. Len(kept) < Capacity \/ Len(kept) = Capacity
    <3>1. Len(kept) <= Capacity
      BY <1>3, <1>6, CapacityAssumption
    <3>2. \A a, b \in Nat : a <= b => a < b \/ a = b
      OBVIOUS
    <3>3. Capacity \in Nat
      BY CapacityAssumption
    <3> QED
      BY <1>6, <3>1, <3>2, <3>3
  <2>2. CASE Len(kept) < Capacity
    BY <1>5, <1>6, <2>2, CapacityAssumption
  <2>3. CASE Len(kept) = Capacity
    <3>1. kept[1] \in Elements(kept) \cap out
      BY <1>4, <1>6, <2>3, CapacityAssumption DEF Elements
    <3> QED
      BY <1>5, <1>6, <2>3, <3>1
  <2> QED
    BY <2>1, <2>2, <2>3
<1>8. k \notin Elements(rest)
  BY <1>3, <1>5
<1>9. /\ order' \in Seq(Keys) /\ Len(order') = Len(rest) + 1
      /\ Elements(order') = Elements(rest) \cup {k} /\ Distinct(order')
  BY <1>1, <1>5, <1>8, AppendIs
<1>10. Len(order') <= Capacity
  BY <1>6, <1>7, <1>9, CapacityAssumption
<1>11. {j \in Keys : Cached(j)}' = ({j \in Keys : Cached(j)} \ out) \cup {k}
  BY <1>1, <1>2 DEF Cached, EntriesWithout
<1> QED
  BY <1>3, <1>5, <1>9, <1>10, <1>11 DEF Ordered

LEMMA LapseOrdered ==
  ASSUME EntriesTyped, Ordered, NEW k \in Keys, Lapse(k)
  PROVE  Ordered'
<1>1. [entry[k] EXCEPT !.overdue = TRUE] # NoEntry
  BY NoEntryAssumption DEF Lapse, Cached, EntriesTyped, Entries
<1>2. entry' = [entry EXCEPT ![k] = [entry[k] EXCEPT !.overdue = TRUE]] /\ order' = order
  BY DEF Lapse
<1>3. {j \in Keys : Cached(j)}' = {j \in Keys : Cached(j)}
  BY <1>1, <1>2 DEF Cached, EntriesTyped, Lapse
<1> QED
  BY <1>2, <1>3 DEF Ordered

LEMMA NextOrders == EntriesTyped /\ IndexTyped /\ Ordered /\ [Next]_lruVars => Ordered'
<1> SUFFICES ASSUME EntriesTyped, IndexTyped, Ordered, [Next]_lruVars
             PROVE  Ordered'
  OBVIOUS
<1>1. ASSUME NEW k \in Keys, GetExpired(k) \/ Delete(k)
      PROVE  Ordered'
  BY <1>1, DeleteKeysOrdered DEF GetExpired, Delete, DeleteKeys
<1>2. ASSUME NEW t \in Tags, DeleteByTag(t)
      PROVE  Ordered'
  <2>1. Listed(t) \in SUBSET Keys
    BY DEF Listed, IndexTyped
  <2> QED
    BY <1>2, <2>1, DeleteKeysOrdered DEF DeleteByTag
<1>3. CASE Clear
  <2>1. order' = <<>> /\ {k \in Keys : Cached(k)}' = {}
    BY <1>3 DEF Clear, Cached
  <2> QED
    BY <2>1, CapacityAssumption DEF Ordered, Elements, Distinct
<1>4. CASE UNCHANGED lruVars
  BY <1>4 DEF lruVars, Ordered, Cached
<1> QED
  BY <1>1, <1>2, <1>3, <1>4, GetHitOrdered, SetOrdered, LapseOrdered DEF Next
-----------------------------------------------------------------------------
(* Tag invalidation.                                                        *)

Inv == EntriesTyped /\ IndexTyped /\ IndexCoversTags

\* _delete_key_internal, applied to any set of keys, keeps the types and
\* never unlists an entry that stays.
LEMMA DeleteKeysKeeps ==
  ASSUME Inv, NEW S \in SUBSET Keys,
         entry' = EntriesWithout(S), tagIndex' = IndexWithout(S)
  PROVE  Inv'
<1>1. EntriesTyped'
  BY DEF Inv, EntriesTyped, EntriesWithout
<1>2. IndexTyped'
  BY DEF Inv, IndexTyped, IndexWithout
<1>3. IndexCoversTags'
  <2> SUFFICES ASSUME NEW k \in Keys, NEW t \in Tags, Carries(k, t)'
               PROVE  k \in tagIndex'[t]
    BY DEF IndexCoversTags
  <2>1. k \notin S /\ Carries(k, t)
    BY DEF Carries, Cached, EntriesWithout
  <2>2. k \in tagIndex[t]
    BY <2>1 DEF Inv, IndexCoversTags
  <2> QED
    BY <2>1, <2>2 DEF IndexWithout
<1> QED
  BY <1>1, <1>2, <1>3 DEF Inv

\* set keeps the invariant although eviction does not touch the index: a key
\* may stay listed without an entry, never the other way round.
LEMMA SetKeeps ==
  ASSUME Inv, NEW k \in Keys, NEW v \in Values, NEW exp \in BOOLEAN,
         NEW tags \in SUBSET Tags, Set(k, v, exp, tags)
  PROVE  Inv'
<1> DEFINE out == Victims(Without(order, {k}))
           new == [val |-> v, expires |-> exp, overdue |-> FALSE, tags |-> tags]
<1>1. entry' = [EntriesWithout(out) EXCEPT ![k] = new]
  BY DEF Set, IndexFor
<1>2. tagIndex' = [t \in Tags |-> IndexWithout({k})[t] \cup (IF t \in tags THEN {k} ELSE {})]
  BY DEF Set, IndexFor
<1> HIDE DEF out
<1>3. new \in Entries
  BY DEF Entries
<1>4. EntriesTyped'
  BY <1>1, <1>3 DEF Inv, EntriesTyped, EntriesWithout
<1>5. IndexTyped'
  BY <1>2 DEF Inv, IndexTyped, IndexWithout
<1>6. IndexCoversTags'
  <2> SUFFICES ASSUME NEW j \in Keys, NEW t \in Tags, Carries(j, t)'
               PROVE  j \in tagIndex'[t]
    BY DEF IndexCoversTags
  <2>1. CASE j = k
    <3>1. entry'[k] = new
      BY <1>1 DEF EntriesWithout
    <3>2. t \in tags
      BY <2>1, <3>1 DEF Carries
    <3> QED
      BY <1>2, <2>1, <3>2
  <2>2. CASE j # k
    <3>1. Carries(j, t)
      BY <1>1, <2>2 DEF Carries, Cached, EntriesWithout
    <3>2. j \in tagIndex[t]
      BY <3>1 DEF Inv, IndexCoversTags
    <3> QED
      BY <1>2, <2>2, <3>2 DEF IndexWithout
  <2> QED
    BY <2>1, <2>2
<1> QED
  BY <1>4, <1>5, <1>6 DEF Inv

\* delete_by_tag drops the tag's whole set, so every entry carrying the tag
\* has to be among the listed ones: the invariant says it is.
LEMMA DeleteByTagKeeps ==
  ASSUME Inv, NEW t \in Tags, DeleteByTag(t)
  PROVE  Inv' /\ \A k \in Keys : ~Carries(k, t)'
<1> DEFINE S == Listed(t)
<1>1. S \in SUBSET Keys
  BY DEF Listed, Inv, IndexTyped
<1>2. entry' = EntriesWithout(S) /\ tagIndex' = [IndexWithout(S) EXCEPT ![t] = {}]
  BY DEF DeleteByTag
<1>3. \A k \in Keys : Carries(k, t) => k \in S
  BY DEF Listed, Carries, Inv, IndexCoversTags
<1> HIDE DEF S
<1>4. \A k \in Keys : ~Carries(k, t)'
  BY <1>2, <1>3 DEF EntriesWithout, Carries, Cached
<1>5. EntriesTyped'
  BY <1>2 DEF Inv, EntriesTyped, EntriesWithout
<1>6. IndexTyped'
  BY <1>2 DEF Inv, IndexTyped, IndexWithout
<1>7. IndexCoversTags'
  <2> SUFFICES ASSUME NEW k \in Keys, NEW u \in Tags, Carries(k, u)'
               PROVE  k \in tagIndex'[u]
    BY DEF IndexCoversTags
  <2>1. u # t
    BY <1>4
  <2>2. k \notin S /\ Carries(k, u)
    BY <1>2 DEF Carries, Cached, EntriesWithout
  <2>3. k \in tagIndex[u]
    BY <2>2 DEF Inv, IndexCoversTags
  <2> QED
    BY <1>2, <2>1, <2>2, <2>3 DEF IndexWithout
<1> QED
  BY <1>4, <1>5, <1>6, <1>7 DEF Inv

LEMMA InitEstablishes == Init => Inv
  BY DEF Init, Inv, EntriesTyped, IndexTyped, IndexCoversTags, Carries, Cached

LEMMA NextKeeps == Inv /\ [Next]_lruVars => Inv'
<1> SUFFICES ASSUME Inv, [Next]_lruVars
             PROVE  Inv'
  OBVIOUS
<1>1. ASSUME NEW k \in Keys, GetHit(k)
      PROVE  Inv'
  BY <1>1 DEF GetHit, Inv, EntriesTyped, IndexTyped, IndexCoversTags, Carries, Cached
<1>2. ASSUME NEW k \in Keys, GetExpired(k) \/ Delete(k)
      PROVE  Inv'
  BY <1>2, DeleteKeysKeeps DEF GetExpired, Delete, DeleteKeys
<1>3. ASSUME NEW k \in Keys, Lapse(k)
      PROVE  Inv'
  <2>1. entry[k] \in Entries
    BY <1>3 DEF Lapse, Cached, Inv, EntriesTyped
  <2>2. /\ entry' = [entry EXCEPT ![k] = [entry[k] EXCEPT !.overdue = TRUE]]
        /\ tagIndex' = tagIndex
    BY <1>3 DEF Lapse
  <2>3. [entry[k] EXCEPT !.overdue = TRUE] \in Entries
    BY <2>1 DEF Entries
  <2>4. EntriesTyped'
    BY <2>2, <2>3 DEF Inv, EntriesTyped
  <2>5. \A j \in Keys, t \in Tags : Carries(j, t)' => Carries(j, t)
    BY <1>3, <2>1, <2>2 DEF Lapse, Inv, EntriesTyped, Carries, Cached, Entries
  <2> QED
    BY <2>2, <2>4, <2>5 DEF Inv, IndexTyped, IndexCoversTags
<1>4. ASSUME NEW k \in Keys, NEW v \in Values, NEW exp \in BOOLEAN,
             NEW tags \in SUBSET Tags, Set(k, v, exp, tags)
      PROVE  Inv'
  BY <1>4, SetKeeps
<1>5. ASSUME NEW t \in Tags, DeleteByTag(t)
      PROVE  Inv'
  BY <1>5, DeleteByTagKeeps
<1>6. CASE Clear
  BY <1>6 DEF Clear, Inv, EntriesTyped, IndexTyped, IndexCoversTags, Carries, Cached
<1>7. CASE UNCHANGED lruVars
  BY <1>7 DEF lruVars, Inv, EntriesTyped, IndexTyped, IndexCoversTags, Carries, Cached
<1> QED
  BY <1>1, <1>2, <1>3, <1>4, <1>5, <1>6, <1>7 DEF Next

LEMMA Invariance == Spec => []Inv
<1> QED
  BY InitEstablishes, NextKeeps, PTL DEF Spec

\* The cache never holds more entries than its capacity, and the order in which
\* it evicts them lists every entry and nothing else: no entry is overlooked by
\* eviction, and popitem is never called on an empty dict.
THEOREM TypeCorrect == Spec => []TypeOK
<1>1. Init => Ordered
  <2> SUFFICES ASSUME Init
               PROVE  Ordered
    OBVIOUS
  <2>1. order = <<>> /\ {k \in Keys : Cached(k)} = {}
    BY DEF Init, Cached
  <2> QED
    BY <2>1, CapacityAssumption DEF Ordered, Elements, Distinct
<1>2. Inv => EntriesTyped /\ IndexTyped
  BY DEF Inv
<1>3. Inv /\ Ordered => TypeOK
  BY DEF Inv, Ordered, TypeOK, Elements, Distinct
<1> QED
  BY <1>1, <1>2, <1>3, InitEstablishes, NextKeeps, NextOrders, PTL DEF Spec

\* Every tagged entry is reachable from its tag, in every reachable state.
THEOREM IndexCoverage == Spec => []IndexCoversTags
<1>1. Inv => IndexCoversTags
  BY DEF Inv
<1> QED
  BY <1>1, Invariance, PTL

\* delete_by_tag purges every entry that carries the tag.
THEOREM PurgeIsComplete == Spec => PurgeComplete
<1>1. Inv => [\A t \in Tags : DeleteByTag(t) => \A k \in Keys : ~Carries(k, t)']_lruVars
  BY DeleteByTagKeeps
<1> QED
  BY <1>1, Invariance, PTL DEF PurgeComplete
-----------------------------------------------------------------------------
(* Recency.  The order is what is left of the log of uses, each key at its   *)
(* last use, without the keys that are not cached.                           *)

Uncached == {k \in Keys : ~Cached(k)}
Remembers == log \in Seq(Keys) /\ order = Without(log, Uncached)

\* Using a key that is cached afterwards puts it at the end of both.
LEMMA UseRemembers ==
  ASSUME NEW k \in Keys, NEW S, log \in Seq(Keys), Use(k),
         order' = Append(Without(log, S \cup {k}), k),
         Uncached' = S \ {k}
  PROVE  Remembers'
<1> DEFINE kept == Without(log, {k})
<1>1. kept \in Seq(Keys) /\ log' = Append(kept, k)
  BY WithoutIs DEF Use
<1>2. log' \in Seq(Keys)
  BY <1>1, AppendIs
<1>3. Without(log', Uncached') = Append(Without(kept, Uncached'), k)
  <2>1. k \notin Uncached'
    OBVIOUS
  <2> HIDE DEF kept
  <2>2. ASSUME NEW U, k \notin U
        PROVE  Without(Append(kept, k), U) = Append(Without(kept, U), k)
    BY <1>1, <2>2, WithoutAppend
  <2> QED
    BY <1>1, <2>1, <2>2
<1>4. Without(kept, Uncached') = Without(log, {k} \cup Uncached')
  BY WithoutTwice
<1>5. {k} \cup Uncached' = S \cup {k}
  OBVIOUS
<1> QED
  BY <1>2, <1>3, <1>4, <1>5 DEF Remembers

LEMMA DeletionRemembers ==
  ASSUME Remembers, NEW S \in SUBSET Keys, UNCHANGED log,
         order' = Without(order, S), entry' = EntriesWithout(S)
  PROVE  Remembers'
<1>1. Uncached' = Uncached \cup S
  BY DEF Uncached, EntriesWithout, Cached
<1>2. Without(order, S) = Without(log, Uncached \cup S)
  BY WithoutTwice DEF Remembers
<1> QED
  BY <1>1, <1>2 DEF Remembers

LEMMA SetRemembers ==
  ASSUME EntriesTyped, Ordered, Remembers, NEW k \in Keys, NEW v \in Values,
         NEW exp \in BOOLEAN, NEW tags \in SUBSET Tags, Set(k, v, exp, tags), Use(k)
  PROVE  Remembers'
<1> DEFINE kept == Without(order, {k})
           out == Victims(kept)
           new == [val |-> v, expires |-> exp, overdue |-> FALSE, tags |-> tags]
<1>1. /\ order' = Append(Without(kept, out), k)
      /\ entry' = [EntriesWithout(out) EXCEPT ![k] = new]
  BY DEF Set
<1>2. new # NoEntry
  <2>1. new \in Entries
    BY DEF Entries
  <2> QED
    BY <2>1, NoEntryAssumption
<1>3. kept = Without(log, Uncached \cup {k})
  BY WithoutTwice DEF Remembers
<1>4. out \subseteq Keys
  <2>1. kept \in Seq(Keys)
    BY WithoutIs DEF Remembers, Ordered
  <2> HIDE DEF kept
  <2>2. \A i \in 1 .. (Len(kept) - Capacity + 1) : kept[i] \in Keys
    BY <2>1, CapacityAssumption
  <2> QED
    BY <2>2 DEF Victims
<1> HIDE DEF out, new, kept
<1>5. Uncached' = (Uncached \cup out) \ {k}
  BY <1>1, <1>2, <1>4 DEF Uncached, EntriesWithout, Cached
<1>6. Without(kept, out) = Without(log, (Uncached \cup {k}) \cup out)
  BY <1>3, WithoutTwice DEF Remembers
<1>7. (Uncached \cup {k}) \cup out = (Uncached \cup out) \cup {k}
  OBVIOUS
<1>8. log \in Seq(Keys)
  BY DEF Remembers
<1> QED
  BY <1>1, <1>5, <1>6, <1>7, <1>8, UseRemembers

LEMMA GetHitRemembers ==
  ASSUME Remembers, NEW k \in Keys, GetHit(k), Use(k)
  PROVE  Remembers'
<1>1. Uncached' = Uncached /\ k \notin Uncached
  BY DEF GetHit, Uncached, Cached
<1>2. order' = Append(Without(log, Uncached \cup {k}), k)
  BY WithoutTwice DEF GetHit, Remembers
<1>3. Uncached' = Uncached \ {k}
  BY <1>1
<1> QED
  BY <1>2, <1>3, UseRemembers DEF Remembers

LEMMA RecencyNextIsNext == RecencyNext => Next
  BY DEF RecencyNext, Next

LEMMA RecencyRemembers ==
  ASSUME EntriesTyped, IndexTyped, Ordered, Remembers, [RecencyNext]_recencyVars
  PROVE  Remembers'
<1>1. ASSUME NEW k \in Keys, GetHit(k), Use(k)
      PROVE  Remembers'
  BY <1>1, GetHitRemembers
<1>2. ASSUME NEW k \in Keys, NEW v \in Values, NEW exp \in BOOLEAN,
             NEW tags \in SUBSET Tags, Set(k, v, exp, tags), Use(k)
      PROVE  Remembers'
  BY <1>2, SetRemembers
<1>3. ASSUME NEW k \in Keys, GetExpired(k) \/ Delete(k), UNCHANGED log
      PROVE  Remembers'
  BY <1>3, DeletionRemembers DEF GetExpired, Delete, DeleteKeys
<1>4. ASSUME NEW t \in Tags, DeleteByTag(t), UNCHANGED log
      PROVE  Remembers'
  <2>1. Listed(t) \in SUBSET Keys
    BY DEF Listed, IndexTyped
  <2> QED
    BY <1>4, <2>1, DeletionRemembers DEF DeleteByTag
<1>5. ASSUME Clear, UNCHANGED log
      PROVE  Remembers'
  <2>1. order' = <<>> /\ Uncached' = Keys
    BY <1>5 DEF Clear, Uncached, Cached
  <2> DEFINE w == Without(log, Keys)
  <2>2. w \in Seq(Keys) /\ Elements(w) = Elements(log) \ Keys
    BY WithoutIs DEF Remembers
  <2>3. Elements(log) \subseteq Keys
    BY DEF Remembers, Elements
  <2> HIDE DEF w
  <2>4. w = <<>>
    BY <2>2, <2>3 DEF Elements
  <2> QED
    BY <1>5, <2>1, <2>4 DEF Remembers, w
<1>6. ASSUME NEW k \in Keys, Lapse(k), UNCHANGED log
      PROVE  Remembers'
  <2>1. [entry[k] EXCEPT !.overdue = TRUE] # NoEntry
    BY <1>6, NoEntryAssumption DEF Lapse, Cached, EntriesTyped, Entries
  <2>2. entry' = [entry EXCEPT ![k] = [entry[k] EXCEPT !.overdue = TRUE]] /\ order' = order
    BY <1>6 DEF Lapse
  <2>3. Uncached' = Uncached
    BY <1>6, <2>1, <2>2 DEF Cached, EntriesTyped, Lapse, Uncached
  <2> QED
    BY <1>6, <2>2, <2>3 DEF Remembers
<1>7. CASE UNCHANGED recencyVars
  BY <1>7 DEF recencyVars, Remembers, Uncached, Cached
<1> QED
  BY <1>1, <1>2, <1>3, <1>4, <1>5, <1>6, <1>7 DEF RecencyNext

\* The order lists every cached key once, so its length is their number.
LEMMA CachedCount ==
  ASSUME Ordered
  PROVE  Cardinality(CachedKeys) = Len(order)
<1> DEFINE D == 1 .. Len(order)
<1>1. Len(order) \in Nat /\ DOMAIN order = D /\ order \in [D -> Keys]
  BY DEF Ordered
<1>2. CachedKeys = Elements(order)
  BY DEF Ordered, CachedKeys
<1>3. order \in Bijection(D, CachedKeys)
  <2>1. order \in [D -> CachedKeys] /\ \A k \in CachedKeys : \E i \in D : order[i] = k
    BY <1>1, <1>2 DEF Elements
  <2>2. \A i, j \in D : order[i] = order[j] => i = j
    BY <1>1 DEF Ordered, Distinct
  <2> QED
    BY <2>1, <2>2 DEF Bijection, Injection, IsInjective, Surjection
<1>4. IsFiniteSet(D) /\ Cardinality(D) = Len(order)
  BY <1>1, FS_Interval
<1>5. ExistsBijection(D, CachedKeys)
  BY <1>3 DEF ExistsBijection
<1> QED
  BY <1>4, <1>5, FS_Bijection

\* Only a set adds a key, and what it drops is the head of a full order.
LEMMA SetEvicts ==
  ASSUME EntriesTyped, Ordered, Remembers, NEW k \in Keys, NEW v \in Values,
         NEW exp \in BOOLEAN, NEW tags \in SUBSET Tags, Set(k, v, exp, tags),
         NEW old \in Keys, ~Cached(k), Cached(old), ~Cached(old)'
  PROVE  /\ Cardinality(CachedKeys) = Capacity
         /\ CachedKeys' = (CachedKeys \ {old}) \cup {k}
         /\ old = Without(log, {j \in Keys : ~Cached(j)})[1]
<1> DEFINE kept == Without(order, {k})
           out == Victims(kept)
           new == [val |-> v, expires |-> exp, overdue |-> FALSE, tags |-> tags]
<1>1. entry' = [EntriesWithout(out) EXCEPT ![k] = new]
  BY DEF Set
<1>2. new # NoEntry
  <2>1. new \in Entries
    BY DEF Entries
  <2> QED
    BY <2>1, NoEntryAssumption
<1>3. kept = order
  <2>1. Uncached \cup {k} = Uncached
    BY DEF Uncached
  <2> QED
    BY <2>1, WithoutTwice DEF Remembers
<1>4. out = {order[i] : i \in 1 .. (Len(order) - Capacity + 1)}
  BY <1>3 DEF Victims
<1> HIDE DEF kept, out, new
<1>5. CachedKeys' = (CachedKeys \ out) \cup {k}
  BY <1>1, <1>2 DEF CachedKeys, EntriesWithout, Cached
<1>6. old \in out
  BY <1>5 DEF CachedKeys
<1>7. Len(order) \in Nat /\ Len(order) <= Capacity
  BY DEF Ordered
<1>8. PICK i \in 1 .. (Len(order) - Capacity + 1) : old = order[i]
  BY <1>4, <1>6
<1>9. Len(order) = Capacity /\ i = 1
  BY <1>7, <1>8, CapacityAssumption
<1>10. out = {old} /\ old = order[1]
  BY <1>4, <1>8, <1>9, CapacityAssumption
<1>11. Cardinality(CachedKeys) = Capacity
  BY <1>9, CachedCount
<1>12. order = Without(log, {j \in Keys : ~Cached(j)})
  BY DEF Remembers, Uncached
<1> QED
  BY <1>5, <1>10, <1>11, <1>12

\* No other step adds a key.
LEMMA OnlySetAdds ==
  ASSUME EntriesTyped, [RecencyNext]_recencyVars, NEW new \in Keys, ~Cached(new), Cached(new)'
  PROVE  \E v \in Values, exp \in BOOLEAN, tags \in SUBSET Tags : Set(new, v, exp, tags)
<1>1. ASSUME NEW k \in Keys, GetHit(k) \/ GetExpired(k) \/ Delete(k)
      PROVE  FALSE
  BY <1>1 DEF GetHit, GetExpired, Delete, DeleteKeys, EntriesWithout, Cached
<1>2. ASSUME NEW k \in Keys, Lapse(k)
      PROVE  FALSE
  <2>1. k # new /\ entry' = [entry EXCEPT ![k] = [entry[k] EXCEPT !.overdue = TRUE]]
    BY <1>2 DEF Lapse
  <2> QED
    BY <2>1 DEF Cached, EntriesTyped
<1>3. ASSUME NEW t \in Tags, DeleteByTag(t)
      PROVE  FALSE
  BY <1>3 DEF DeleteByTag, EntriesWithout, Cached
<1>4. ~Clear
  BY DEF Clear, Cached
<1>5. ASSUME NEW k \in Keys, NEW v \in Values, NEW exp \in BOOLEAN,
             NEW tags \in SUBSET Tags, Set(k, v, exp, tags)
      PROVE  k = new
  <2>1. \A j \in Keys : j # k => entry'[j] = NoEntry \/ entry'[j] = entry[j]
    BY <1>5 DEF Set, EntriesWithout
  <2> QED
    BY <2>1 DEF Cached
<1>6. ~UNCHANGED recencyVars
  BY DEF recencyVars, Cached
<1> QED
  BY <1>1, <1>2, <1>3, <1>4, <1>5, <1>6 DEF RecencyNext

\* For any keys and any capacity, a set of a new key evicts only in a full
\* cache, one entry only, and the one unused for longest.
THEOREM EvictsTheOldest == RecencySpec => EvictsLeastRecent
<1> DEFINE All == Inv /\ Ordered /\ Remembers
           Evicts == \A new, old \in Keys :
                        /\ ~Cached(new) /\ Cached(new)'
                        /\ Cached(old) /\ ~Cached(old)'
                        => /\ Cardinality(CachedKeys) = Capacity
                           /\ CachedKeys' = (CachedKeys \ {old}) \cup {new}
                           /\ old = Without(log, {k \in Keys : ~Cached(k)})[1]
<1>1. RecencyInit => All
  <2> SUFFICES ASSUME RecencyInit
               PROVE  All
    OBVIOUS
  <2>1. Inv /\ order = <<>> /\ log = <<>> /\ {k \in Keys : Cached(k)} = {}
    BY InitEstablishes DEF RecencyInit, Init, Cached
  <2>2. Ordered
    BY <2>1, CapacityAssumption DEF Ordered, Elements, Distinct
  <2> QED
    BY <2>1, <2>2, WithoutEmpty DEF Remembers
<1>2. ASSUME All, [RecencyNext]_recencyVars
      PROVE  All' /\ [Evicts]_recencyVars
  <2>1. [Next]_lruVars
    BY <1>2, RecencyNextIsNext DEF recencyVars, lruVars
  <2>2. EntriesTyped /\ IndexTyped
    BY <1>2 DEF Inv
  <2>3. All'
    BY <1>2, <2>1, <2>2, NextKeeps, NextOrders, RecencyRemembers
  <2>4. Evicts
    BY <1>2, <2>2, OnlySetAdds, SetEvicts
  <2> QED
    BY <2>3, <2>4
<1>3. EvictsLeastRecent <=> [][Evicts]_recencyVars
  BY DEF EvictsLeastRecent
<1> HIDE DEF All, Evicts
<1> QED
  BY <1>1, <1>2, <1>3, PTL DEF RecencySpec
=============================================================================
