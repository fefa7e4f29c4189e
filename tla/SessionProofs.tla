--------------------------- MODULE SessionProofs ---------------------------
(***************************************************************************)
(* Theorems of module Session: its types, the lengths of the cache and of  *)
(* fed_ids, what the rows of the cache were computed from, what a turn of  *)
(* the server answers, which logits choose a token, and what text a turn's *)
(* prompt spells.                                                          *)
(***************************************************************************)
EXTENDS Session, SequenceTheorems, WellFoundedInduction, TLAPS

(***************************************************************************)
(* Natural numbers.                                                        *)
(***************************************************************************)
LEMMA LessIsWellFounded == IsWellFoundedOn({p \in Nat \X Nat : p[1] < p[2]}, Nat)
  BY NatLessThanWellFounded DEF OpToRel

\* A set of natural numbers has a least element.
LEMMA Least ==
    ASSUME NEW S \in SUBSET Nat, S # {}
    PROVE  \E m \in S : \A s \in S : m <= s
  <1>. DEFINE R == {p \in Nat \X Nat : p[1] < p[2]}
  <1>1. PICK m \in S : \A s \in S : ~ (<<s, m>> \in R)
    BY LessIsWellFounded, WFMin
  <1>2. ASSUME NEW s \in S PROVE m <= s
    <2>1. s \in Nat /\ m \in Nat
      OBVIOUS
    <2>2. <<s, m>> \in R <=> s < m
      BY <2>1
    <2>. QED  BY <1>1, <2>1, <2>2
  <1>. QED  BY <1>2

\* A set of natural numbers with an upper bound has a greatest one.
LEMMA Greatest ==
    ASSUME NEW S \in SUBSET Nat, S # {}, NEW b \in Nat, \A s \in S : s <= b
    PROVE  \E m \in S : \A s \in S : s <= m
  <1>. DEFINE T == {u \in Nat : \A s \in S : s <= u}
  <1>1. T \in SUBSET Nat /\ T # {}
    OBVIOUS
  <1>2. PICK m \in T : \A u \in T : m <= u
    <2>. HIDE DEF T
    <2>. QED  BY <1>1, Least
  <1>3. m \in S
    <2>. SUFFICES ASSUME m \notin S PROVE FALSE
      OBVIOUS
    <2>1. \A s \in S : s < m /\ s \in Nat
      BY <1>2
    <2>2. m \in Nat /\ m > 0
      <3>1. PICK s \in S : TRUE
        OBVIOUS
      <3>2. m \in Nat
        BY <1>2
      <3>. QED  BY <2>1, <3>1, <3>2
    <2>3. m \in Nat /\ m - 1 \in Nat /\ \A s \in S : s <= m - 1
      BY <2>1, <2>2
    <2>4. m - 1 \in T
      BY <2>3
    <2>. QED  BY <1>2, <2>3, <2>4
  <1>. QED  BY <1>2, <1>3

LEMMA MaxOf ==
    ASSUME NEW S \in SUBSET Nat, S # {}, NEW b \in Nat, \A s \in S : s <= b
    PROVE  Max(S) \in S /\ \A s \in S : s <= Max(S)
  <1>1. PICK m \in S : \A s \in S : s <= m
    BY Greatest
  <1>2. m \in S /\ \A s \in S : m >= s
    BY <1>1
  <1>3. Max(S) \in S /\ \A s \in S : Max(S) >= s
    BY <1>2 DEF Max
  <1>. QED  BY <1>3

LEMMA MaxOfTwo ==
    ASSUME NEW a \in Int, NEW b \in Int
    PROVE  Max({a, b}) = IF a <= b THEN b ELSE a
  BY DEF Max

LEMMA MinOfTwo ==
    ASSUME NEW a \in Int, NEW b \in Int
    PROVE  Min({a, b}) = IF a <= b THEN a ELSE b
  BY DEF Min

(***************************************************************************)
(* Beginnings of sequences.                                                *)
(***************************************************************************)
LEMMA Beginning ==
    ASSUME NEW C, NEW s \in Seq(C), NEW n \in 0..Len(s)
    PROVE  /\ SubSeq(s, 1, n) \in Seq(C) /\ Len(SubSeq(s, 1, n)) = n
           /\ \A i \in 1..n : SubSeq(s, 1, n)[i] = s[i]
  <1>1. \A i \in 1..n : s[i] \in C
    OBVIOUS
  <1>2. n \in Nat /\ 1 \in Int /\ n - 1 + 1 = n
    OBVIOUS
  <1>3. /\ SubSeq(s, 1, n) \in Seq(C) /\ Len(SubSeq(s, 1, n)) = IF 1 <= n THEN n - 1 + 1 ELSE 0
        /\ \A i \in 1..n - 1 + 1 : SubSeq(s, 1, n)[i] = s[1 + i - 1]
    BY <1>1, <1>2, SubSeqProperties
  <1>. QED  BY <1>2, <1>3

LEMMA BeginningOfBeginning ==
    ASSUME NEW C, NEW s \in Seq(C), NEW n \in 0..Len(s), NEW k \in 0..n
    PROVE  SubSeq(SubSeq(s, 1, n), 1, k) = SubSeq(s, 1, k)
  <1>. DEFINE t == SubSeq(s, 1, n)
  <1>1. t \in Seq(C) /\ Len(t) = n /\ \A i \in 1..n : t[i] = s[i]
    BY Beginning
  <1>. HIDE DEF t
  <1>2. k \in 0..Len(t) /\ k \in 0..Len(s)
    BY <1>1
  <1>3. /\ SubSeq(t, 1, k) \in Seq(C) /\ Len(SubSeq(t, 1, k)) = k
        /\ \A i \in 1..k : SubSeq(t, 1, k)[i] = t[i]
    BY <1>1, <1>2, Beginning
  <1>4. /\ SubSeq(s, 1, k) \in Seq(C) /\ Len(SubSeq(s, 1, k)) = k
        /\ \A i \in 1..k : SubSeq(s, 1, k)[i] = s[i]
    BY <1>2, Beginning
  <1>5. \A i \in 1..k : SubSeq(t, 1, k)[i] = SubSeq(s, 1, k)[i]
    BY <1>1, <1>3, <1>4
  <1>. QED  BY <1>3, <1>4, <1>5, SeqEqual DEF t

LEMMA BeginningOfConcat ==
    ASSUME NEW C, NEW s \in Seq(C), NEW t \in Seq(C)
    PROVE  /\ \A i \in 0..Len(t) : SubSeq(s \o t, 1, Len(s) + i) = s \o SubSeq(t, 1, i)
           /\ \A k \in 0..Len(s) : SubSeq(s \o t, 1, k) = SubSeq(s, 1, k)
  <1>. DEFINE u == s \o t
  <1>1. u \in Seq(C) /\ Len(u) = Len(s) + Len(t)
        /\ \A i \in 1..Len(s) + Len(t) : u[i] = IF i <= Len(s) THEN s[i] ELSE t[i - Len(s)]
    BY ConcatProperties
  <1>. HIDE DEF u
  <1>2. ASSUME NEW i \in 0..Len(t) PROVE SubSeq(u, 1, Len(s) + i) = s \o SubSeq(t, 1, i)
    <2>1. Len(s) + i \in 0..Len(u)
      BY <1>1
    <2>2. /\ SubSeq(u, 1, Len(s) + i) \in Seq(C) /\ Len(SubSeq(u, 1, Len(s) + i)) = Len(s) + i
          /\ \A j \in 1..Len(s) + i : SubSeq(u, 1, Len(s) + i)[j] = u[j]
      BY <1>1, <2>1, Beginning
    <2>. DEFINE v == SubSeq(t, 1, i)
    <2>3. v \in Seq(C) /\ Len(v) = i /\ \A j \in 1..i : v[j] = t[j]
      BY Beginning
    <2>. HIDE DEF v
    <2>4. s \o v \in Seq(C) /\ Len(s \o v) = Len(s) + Len(v)
          /\ \A j \in 1..Len(s) + Len(v) : (s \o v)[j] = IF j <= Len(s) THEN s[j] ELSE v[j - Len(s)]
      BY <2>3, ConcatProperties
    <2>5. ASSUME NEW j \in 1..Len(s) + i PROVE SubSeq(u, 1, Len(s) + i)[j] = (s \o v)[j]
      <3>1. SubSeq(u, 1, Len(s) + i)[j] = u[j]
        BY <2>2
      <3>2. u[j] = IF j <= Len(s) THEN s[j] ELSE t[j - Len(s)]
        BY <1>1
      <3>3. (s \o v)[j] = IF j <= Len(s) THEN s[j] ELSE v[j - Len(s)]
        BY <2>3, <2>4
      <3>4. ~(j <= Len(s)) => v[j - Len(s)] = t[j - Len(s)]
        BY <2>3
      <3>. QED  BY <3>1, <3>2, <3>3, <3>4
    <2>6. Len(SubSeq(u, 1, Len(s) + i)) = Len(s \o v)
      BY <2>2, <2>3, <2>4
    <2>7. SubSeq(u, 1, Len(s) + i) = s \o v
      BY <2>2, <2>4, <2>5, <2>6, SeqEqual
    <2>. QED  BY <2>7 DEF v
  <1>3. ASSUME NEW k \in 0..Len(s) PROVE SubSeq(u, 1, k) = SubSeq(s, 1, k)
    <2>1. k \in 0..Len(u)
      BY <1>1
    <2>2. /\ SubSeq(u, 1, k) \in Seq(C) /\ Len(SubSeq(u, 1, k)) = k
          /\ \A j \in 1..k : SubSeq(u, 1, k)[j] = u[j]
      BY <1>1, <2>1, Beginning
    <2>3. /\ SubSeq(s, 1, k) \in Seq(C) /\ Len(SubSeq(s, 1, k)) = k
          /\ \A j \in 1..k : SubSeq(s, 1, k)[j] = s[j]
      BY Beginning
    <2>4. \A j \in 1..k : SubSeq(u, 1, k)[j] = SubSeq(s, 1, k)[j]
      BY <1>1, <2>2, <2>3
    <2>. QED  BY <2>2, <2>3, <2>4, SeqEqual
  <1>. QED  BY <1>2, <1>3 DEF u

LEMMA Splits ==
    ASSUME NEW C, NEW s \in Seq(C), NEW n \in 0..Len(s)
    PROVE  /\ SubSeq(s, n + 1, Len(s)) \in Seq(C) /\ Len(SubSeq(s, n + 1, Len(s))) = Len(s) - n
           /\ \A i \in 1..Len(s) - n : SubSeq(s, n + 1, Len(s))[i] = s[n + i]
           /\ SubSeq(s, 1, n) \o SubSeq(s, n + 1, Len(s)) = s
  <1>1. \A i \in n + 1..Len(s) : s[i] \in C
    OBVIOUS
  <1>2. n + 1 \in Int /\ Len(s) \in Int /\ Len(s) - (n + 1) + 1 = Len(s) - n
    OBVIOUS
  <1>3. /\ SubSeq(s, n + 1, Len(s)) \in Seq(C)
        /\ Len(SubSeq(s, n + 1, Len(s))) = IF n + 1 <= Len(s) THEN Len(s) - (n + 1) + 1 ELSE 0
        /\ \A i \in 1..Len(s) - (n + 1) + 1 : SubSeq(s, n + 1, Len(s))[i] = s[n + 1 + i - 1]
    BY <1>1, <1>2, SubSeqProperties
  <1>. DEFINE a == SubSeq(s, 1, n)
              b == SubSeq(s, n + 1, Len(s))
  <1>4. a \in Seq(C) /\ Len(a) = n /\ \A i \in 1..n : a[i] = s[i]
    BY Beginning
  <1>5. b \in Seq(C) /\ Len(b) = Len(s) - n /\ \A i \in 1..Len(s) - n : b[i] = s[n + i]
    <2>1. \A i \in 1..Len(s) - n : n + 1 + i - 1 = n + i
      OBVIOUS
    <2>2. (IF n + 1 <= Len(s) THEN Len(s) - (n + 1) + 1 ELSE 0) = Len(s) - n
      OBVIOUS
    <2>. QED  BY <1>2, <1>3, <2>1, <2>2
  <1>. HIDE DEF a, b
  <1>6. a \o b \in Seq(C) /\ Len(a \o b) = Len(a) + Len(b)
        /\ \A i \in 1..Len(a) + Len(b) : (a \o b)[i] = IF i <= Len(a) THEN a[i] ELSE b[i - Len(a)]
    BY <1>4, <1>5, ConcatProperties
  <1>7. ASSUME NEW i \in 1..Len(s) PROVE (a \o b)[i] = s[i]
    <2>1. CASE i <= n
      BY <1>4, <1>5, <1>6, <2>1
    <2>2. CASE ~(i <= n)
      <3>1. i - n \in 1..Len(s) - n /\ n + (i - n) = i
        BY <2>2
      <3>2. b[i - n] = s[i]
        BY <1>5, <3>1
      <3>. QED  BY <1>4, <1>5, <1>6, <2>2, <3>2
    <2>. QED  BY <2>1, <2>2
  <1>8. Len(a \o b) = Len(s)
    BY <1>4, <1>5, <1>6
  <1>9. a \o b = s
    BY <1>6, <1>7, <1>8, SeqEqual
  <1>. QED  BY <1>5, <1>9 DEF a, b

LEMMA BeginningGrows ==
    ASSUME NEW C, NEW s \in Seq(C), NEW k \in 1..Len(s)
    PROVE  /\ SubSeq(s, 1, k) = Append(SubSeq(s, 1, k - 1), s[k])
           /\ SubSeq(s, 1, k - 1) \in Seq(C) /\ s[k] \in C
  <1>1. k - 1 \in 0..Len(s) /\ k \in 0..Len(s) /\ s[k] \in C
    OBVIOUS
  <1>. DEFINE a == SubSeq(s, 1, k - 1)
              b == SubSeq(s, 1, k)
  <1>2. a \in Seq(C) /\ Len(a) = k - 1 /\ \A i \in 1..k - 1 : a[i] = s[i]
    BY <1>1, Beginning
  <1>3. b \in Seq(C) /\ Len(b) = k /\ \A i \in 1..k : b[i] = s[i]
    BY <1>1, Beginning
  <1>. HIDE DEF a, b
  <1>4. /\ Append(a, s[k]) \in Seq(C) /\ Len(Append(a, s[k])) = Len(a) + 1
        /\ \A i \in 1..Len(a) : Append(a, s[k])[i] = a[i]
        /\ Append(a, s[k])[Len(a) + 1] = s[k]
    BY <1>1, <1>2, AppendProperties
  <1>5. \A i \in 1..k : b[i] = Append(a, s[k])[i]
    BY <1>2, <1>3, <1>4
  <1>6. Len(b) = Len(Append(a, s[k]))
    BY <1>2, <1>3, <1>4
  <1>7. b = Append(a, s[k])
    BY <1>3, <1>4, <1>5, <1>6, SeqEqual
  <1>. QED  BY <1>1, <1>2, <1>7 DEF a, b

(***************************************************************************)
(* FlattenSeq is a recursive function: that it is defined, and what it     *)
(* returns, is shown by the least index at which it would go wrong.        *)
(***************************************************************************)
Flattens(s, g) ==
    \A i \in DOMAIN g : g[i] = IF i = 1 THEN s[i] ELSE g[i - 1] \o s[i]

Over(n, g, s) == n \in Nat /\ DOMAIN g = 1..n /\ Flattens(s, g)

Agree(n, s, t) == \A i \in 1..n : s[i] = t[i]

LEMMA FlattensUnique ==
    ASSUME NEW n, NEW m, NEW s, NEW t, NEW g, NEW h, Over(n, g, s), Over(m, h, t), n <= m,
           Agree(n, s, t)
    PROVE  Agree(n, g, h)
  <1>. USE DEF Over, Agree
  <1>. DEFINE Bad == {i \in 1..n : g[i] # h[i]}
  <1>. SUFFICES ASSUME Bad # {} PROVE FALSE
    OBVIOUS
  <1>1. PICK i \in Bad : \A j \in Bad : i <= j
    <2>. Bad \in SUBSET Nat
      OBVIOUS
    <2>. HIDE DEF Bad
    <2>. QED  BY Least
  <1>2. i \in 1..n /\ i \in 1..m /\ g[i] # h[i] /\ s[i] = t[i]
    BY <1>1
  <1>3. i = 1 \/ (i - 1 \in 1..n /\ g[i - 1] = h[i - 1])
    BY <1>1
  <1>4. /\ g[i] = IF i = 1 THEN s[i] ELSE g[i - 1] \o s[i]
        /\ h[i] = IF i = 1 THEN t[i] ELSE h[i - 1] \o t[i]
    BY <1>2 DEF Flattens
  <1>. HIDE DEF Bad
  <1>. QED  BY <1>2, <1>3, <1>4

LEMMA FlattensExists ==
    ASSUME NEW C, NEW s \in Seq(Seq(C)), NEW n \in 1..Len(s)
    PROVE  \E g \in [1..n -> Seq(C)] : Flattens(s, g)
  <1>. DEFINE Has(k) == \E g \in [1..k -> Seq(C)] : Flattens(s, g)
              Bad == {k \in 1..Len(s) : ~Has(k)}
  <1>. SUFFICES ASSUME Bad # {} PROVE FALSE
    OBVIOUS
  <1>1. PICK k \in Bad : \A j \in Bad : k <= j
    <2>. Bad \in SUBSET Nat
      OBVIOUS
    <2>. HIDE DEF Bad
    <2>. QED  BY Least
  <1>2. CASE k = 1
    <2>. DEFINE g == [i \in 1..1 |-> s[1]]
    <2>1. g \in [1..1 -> Seq(C)] /\ Flattens(s, g)
      BY <1>1 DEF Flattens
    <2>. QED  BY <1>1, <1>2, <2>1
  <1>3. CASE k # 1
    <2>1. k \in 1..Len(s) /\ k - 1 \in 1..Len(s) /\ k - 1 \notin Bad
      <3>. HIDE DEF Has
      <3>1. k \in 1..Len(s) /\ k - 1 \in 1..Len(s)
        BY <1>1, <1>3
      <3>2. ~ (k <= k - 1)
        BY <3>1
      <3>. QED  BY <1>1, <3>1, <3>2
    <2>2. PICK g \in [1..(k - 1) -> Seq(C)] : Flattens(s, g)
      BY <2>1
    <2>a. s[k] \in Seq(C) /\ g[k - 1] \in Seq(C) /\ g[k - 1] \o s[k] \in Seq(C)
      BY <2>1, <2>2
    <2>. DEFINE h == [i \in 1..k |-> IF i = k THEN g[k - 1] \o s[k] ELSE g[i]]
    <2>3. h \in [1..k -> Seq(C)]
      BY <2>1, <2>2, <2>a
    <2>4. ASSUME NEW i \in 1..k
          PROVE  h[i] = IF i = 1 THEN s[i] ELSE h[i - 1] \o s[i]
      <3>a. \A j \in 1..k : h[j] = IF j = k THEN g[k - 1] \o s[k] ELSE g[j]
        OBVIOUS
      <3>. HIDE DEF h
      <3>1. CASE i = k
        <4>1. k - 1 \in 1..k /\ k - 1 # k /\ k \in 1..k
          BY <2>1
        <4>2. h[k] = g[k - 1] \o s[k] /\ h[k - 1] = g[k - 1]
          BY <3>a, <4>1
        <4>. QED  BY <1>3, <3>1, <4>2
      <3>2. CASE i # k
        <4>1. i \in 1..(k - 1) /\ i \in DOMAIN g /\ (i # 1 => i - 1 \in 1..(k - 1))
          BY <2>1, <2>2, <3>2
        <4>2. g[i] = IF i = 1 THEN s[i] ELSE g[i - 1] \o s[i]
          BY <2>2, <4>1 DEF Flattens
        <4>3. h[i] = g[i] /\ (i # 1 => h[i - 1] = g[i - 1])
          <5>1. i # 1 => i - 1 \in 1..k /\ i - 1 # k
            BY <2>1, <4>1
          <5>. QED  BY <3>a, <3>2, <5>1
        <4>. QED  BY <4>2, <4>3
      <3>. QED  BY <3>1, <3>2
    <2>5. Flattens(s, h)
      BY <2>3, <2>4 DEF Flattens
    <2>. HIDE DEF h
    <2>6. Has(k)
      BY <2>3, <2>5
    <2>. QED  BY <1>1, <2>6
  <1>. QED  BY <1>2, <1>3

LEMMA FlattenIs ==
    ASSUME NEW C, NEW s \in Seq(Seq(C)), s # <<>>,
           NEW g \in [1..Len(s) -> Seq(C)], Flattens(s, g)
    PROVE  FlattenSeq(s) = g[Len(s)]
  <1>. DEFINE n == Len(s)
              Def(f) == f = [i \in 1..n |-> IF i = 1 THEN s[i] ELSE f[i - 1] \o s[i]]
              flat == CHOOSE f : Def(f)
  <1>1. n \in Nat \ {0}
    OBVIOUS
  <1>2. Def(g)
    BY DEF Flattens
  <1>3. Def(flat)
    BY <1>2
  <1>4. FlattenSeq(s) = flat[n]
    BY <1>1 DEF FlattenSeq
  <1>5. DOMAIN flat = 1..n /\ Flattens(s, flat)
    <2>. HIDE DEF flat
    <2>. QED  BY <1>3 DEF Flattens
  <1>6. g[n] = flat[n]
    <2>. HIDE DEF flat
    <2>1. Over(n, g, s) /\ Over(n, flat, s) /\ n <= n /\ Agree(n, s, s)
      BY <1>1, <1>5 DEF Over, Agree
    <2>2. Agree(n, g, flat)
      BY <2>1, FlattensUnique
    <2>. QED  BY <1>1, <2>2 DEF Agree
  <1>. QED  BY <1>4, <1>6

LEMMA FlattenType ==
    ASSUME NEW C, NEW s \in Seq(Seq(C))
    PROVE  FlattenSeq(s) \in Seq(C)
  <1>1. CASE s = <<>>
    BY <1>1 DEF FlattenSeq
  <1>2. CASE s # <<>>
    <2>1. Len(s) \in 1..Len(s)
      BY <1>2
    <2>2. PICK g \in [1..Len(s) -> Seq(C)] : Flattens(s, g)
      BY <2>1, FlattensExists
    <2>3. FlattenSeq(s) = g[Len(s)]
      BY <1>2, <2>2, FlattenIs
    <2>. QED  BY <2>1, <2>2, <2>3
  <1>. QED  BY <1>1, <1>2

LEMMA FlattenEmpty == FlattenSeq(<<>>) = <<>>
  BY DEF FlattenSeq

LEMMA FlattenAppend ==
    ASSUME NEW C, NEW s \in Seq(Seq(C)), NEW e \in Seq(C)
    PROVE  FlattenSeq(Append(s, e)) = FlattenSeq(s) \o e
  <1>. DEFINE t == Append(s, e)
  <1>1. t \in Seq(Seq(C)) /\ Len(t) = Len(s) + 1 /\ t[Len(t)] = e
        /\ (\A i \in 1..Len(s) : t[i] = s[i]) /\ Len(s) \in Nat /\ t # <<>>
    BY AppendProperties
  <1>. HIDE DEF t
  <1>2. PICK h \in [1..Len(t) -> Seq(C)] : Flattens(t, h)
    <2>. Len(t) \in 1..Len(t)
      BY <1>1
    <2>. QED  BY <1>1, FlattensExists
  <1>3. FlattenSeq(t) = h[Len(t)]
    BY <1>1, <1>2, FlattenIs
  <1>4. CASE s = <<>>
    <2>1. FlattenSeq(t) = e
      BY <1>1, <1>2, <1>3, <1>4 DEF Flattens
    <2>. QED  BY <1>4, <2>1, FlattenEmpty DEF t
  <1>5. CASE s # <<>>
    <2>1. Len(s) \in 1..Len(s)
      BY <1>5
    <2>2. PICK g \in [1..Len(s) -> Seq(C)] : Flattens(s, g)
      BY <2>1, FlattensExists
    <2>3. FlattenSeq(s) = g[Len(s)]
      BY <1>5, <2>2, FlattenIs
    <2>4. \A i \in 1..Len(s) : g[i] = h[i]
      <3>1. Over(Len(s), g, s) /\ Over(Len(t), h, t) /\ Len(s) <= Len(t)
        BY <1>1, <1>2, <2>2 DEF Over
      <3>2. Agree(Len(s), s, t)
        BY <1>1 DEF Agree
      <3>3. Agree(Len(s), g, h)
        BY <3>1, <3>2, FlattensUnique
      <3>. QED  BY <3>3 DEF Agree
    <2>5. h[Len(t)] = h[Len(s)] \o e
      <3>1. Len(t) \in DOMAIN h /\ Len(t) # 1 /\ Len(t) - 1 = Len(s)
        BY <1>1, <1>2, <2>1
      <3>2. h[Len(t)] = h[Len(t) - 1] \o t[Len(t)]
        BY <1>2, <3>1 DEF Flattens
      <3>. QED  BY <1>1, <3>1, <3>2
    <2>. QED  BY <1>3, <2>1, <2>3, <2>4, <2>5 DEF t
  <1>. QED  BY <1>4, <1>5

LEMMA ConcatOfAppend ==
    ASSUME NEW C, NEW s \in Seq(C), NEW t \in Seq(C), NEW e \in C
    PROVE  s \o Append(t, e) = Append(s \o t, e)
  <1>1. <<e>> \in Seq(C) /\ s \o t \in Seq(C)
    OBVIOUS
  <1>2. Append(s \o t, e) = (s \o t) \o <<e>>
    BY <1>1, AppendIsConcat
  <1>3. Append(t, e) = t \o <<e>>
    BY AppendIsConcat
  <1>4. (s \o t) \o <<e>> = s \o (t \o <<e>>)
    BY <1>1, ConcatAssociative
  <1>. QED  BY <1>2, <1>3, <1>4

LEMMA FlattenConcatStep ==
    ASSUME NEW C, NEW s \in Seq(Seq(C)), NEW t \in Seq(Seq(C)), NEW e \in Seq(C),
           FlattenSeq(s \o t) = FlattenSeq(s) \o FlattenSeq(t)
    PROVE  FlattenSeq(s \o Append(t, e)) = FlattenSeq(s) \o FlattenSeq(Append(t, e))
  <1>1. s \o Append(t, e) = Append(s \o t, e) /\ s \o t \in Seq(Seq(C))
    BY ConcatOfAppend, ConcatProperties
  <1>2. FlattenSeq(s \o Append(t, e)) = FlattenSeq(s \o t) \o e
    BY <1>1, FlattenAppend
  <1>3. FlattenSeq(Append(t, e)) = FlattenSeq(t) \o e
    BY FlattenAppend
  <1>. DEFINE a == FlattenSeq(s)
              b == FlattenSeq(t)
  <1>4. a \in Seq(C) /\ b \in Seq(C)
    BY FlattenType
  <1>5. FlattenSeq(s \o t) = a \o b
    OBVIOUS
  <1>. HIDE DEF a, b
  <1>6. (a \o b) \o e = a \o (b \o e)
    BY <1>4, ConcatAssociative
  <1>. QED  BY <1>2, <1>3, <1>5, <1>6 DEF a, b

LEMMA FlattenConcat ==
    ASSUME NEW C, NEW s \in Seq(Seq(C)), NEW t \in Seq(Seq(C))
    PROVE  FlattenSeq(s \o t) = FlattenSeq(s) \o FlattenSeq(t)
  <1>. DEFINE Good(u) == FlattenSeq(s \o u) = FlattenSeq(s) \o FlattenSeq(u)
              Bad == {k \in 0..Len(t) : ~Good(SubSeq(t, 1, k))}
  <1>1. Good(<<>>)
    <2>1. FlattenSeq(s) \in Seq(C)
      BY FlattenType
    <2>2. FlattenSeq(s) \o <<>> = FlattenSeq(s) /\ s \o <<>> = s
      BY <2>1, ConcatEmptySeq
    <2>. QED  BY <2>2, FlattenEmpty
  <1>2. Bad = {}
    <2>. SUFFICES ASSUME Bad # {} PROVE FALSE
      OBVIOUS
    <2>1. PICK k \in Bad : \A j \in Bad : k <= j
      <3>1. Bad \in SUBSET Nat
        OBVIOUS
      <3>. HIDE DEF Bad
      <3>. QED  BY <3>1, Least
    <2>2. k \in 0..Len(t) /\ ~Good(SubSeq(t, 1, k))
      BY <2>1
    <2>3. k # 0
      <3>1. SubSeq(t, 1, 0) = <<>>
        OBVIOUS
      <3>. QED  BY <1>1, <2>2, <3>1
    <2>4. k \in 1..Len(t) /\ k - 1 \in 0..Len(t) /\ ~ (k <= k - 1)
      <3>. HIDE DEF Good
      <3>. QED  BY <2>2, <2>3
    <2>5. k - 1 \notin Bad
      <3>. HIDE DEF Bad
      <3>. QED  BY <2>1, <2>4
    <2>6. Good(SubSeq(t, 1, k - 1))
      <3>. HIDE DEF Good
      <3>. QED  BY <2>4, <2>5
    <2>7. SubSeq(t, 1, k) = Append(SubSeq(t, 1, k - 1), t[k])
      BY <2>4, BeginningGrows
    <2>8. SubSeq(t, 1, k - 1) \in Seq(Seq(C)) /\ t[k] \in Seq(C)
      BY <2>4, BeginningGrows
    <2>9. Good(Append(SubSeq(t, 1, k - 1), t[k]))
      BY <2>6, <2>8, FlattenConcatStep
    <2>. HIDE DEF Good
    <2>. QED  BY <2>2, <2>7, <2>9
  <1>3. SubSeq(t, 1, Len(t)) = t /\ Len(t) \in 0..Len(t)
    OBVIOUS
  <1>. HIDE DEF Good
  <1>4. Good(SubSeq(t, 1, Len(t)))
    BY <1>2, <1>3
  <1>5. Good(t)
    BY <1>3, <1>4
  <1>. QED  BY <1>5 DEF Good

LEMMA FlattenOne ==
    ASSUME NEW C, NEW e \in Seq(C)
    PROVE  FlattenSeq(<<e>>) = e
  <1>1. <<>> \in Seq(Seq(C)) /\ Append(<<>>, e) = <<e>> /\ <<>> \o e = e
    OBVIOUS
  <1>. QED  BY <1>1, FlattenEmpty, FlattenAppend

LEMMA FlattenHead ==
    ASSUME NEW C, NEW s \in Seq(Seq(C)), s # <<>>
    PROVE  FlattenSeq(s) = s[1] \o FlattenSeq(Tail(s)) /\ FlattenSeq(Tail(s)) \in Seq(C)
  <1>1. s[1] \in Seq(C) /\ <<s[1]>> \in Seq(Seq(C)) /\ Tail(s) \in Seq(Seq(C)) /\ s = <<s[1]>> \o Tail(s)
    OBVIOUS
  <1>2. FlattenSeq(<<s[1]>> \o Tail(s)) = FlattenSeq(<<s[1]>>) \o FlattenSeq(Tail(s))
    BY <1>1, FlattenConcat
  <1>3. FlattenSeq(<<s[1]>>) = s[1]
    BY <1>1, FlattenOne
  <1>. QED  BY <1>1, <1>2, <1>3, FlattenType

(***************************************************************************)
(* Texts, tokens and messages.                                             *)
(***************************************************************************)
\* The marks are named because no prover here knows a literal to be a STRING.
Char == STRING \cup {"^", ".", "?", "!", "S", "U", "A"}
Text == Seq(Char)
Ids == Seq(Text)
Msg == [role : Char, text : Text]

LEMMA Marks == {"^", ".", "?", "!", "S", "U", "A"} \subseteq Char
  BY DEF Char

LEMMA OfOne == ASSUME NEW C, NEW c \in C PROVE <<c>> \in Seq(C)
  OBVIOUS

Merged(text, i) == i \in 1..Len(text) - 1 /\ SubSeq(text, i, i + 1) \in Merges
Cut(text) ==
    [i \in DOMAIN text |->
        IF Merged(text, i - 1) THEN <<>>
        ELSE IF Merged(text, i) THEN <<SubSeq(text, i, i + 1)>>
        ELSE <<<<text[i]>>>>]

LEMMA EncodeIsCut == \A text : Encode(text) = FlattenSeq(Cut(text))
  BY DEF Encode, Cut, Merged

LEMMA CutType ==
    ASSUME NEW text \in Text
    PROVE  /\ Cut(text) \in Seq(Ids) /\ Len(Cut(text)) = Len(text)
           /\ \A i \in 1..Len(text) : Cut(text)[i] =
                IF Merged(text, i - 1) THEN <<>>
                ELSE IF Merged(text, i) THEN <<SubSeq(text, i, i + 1)>>
                ELSE <<<<text[i]>>>>
  <1>. DEFINE e(i) == IF Merged(text, i - 1) THEN <<>>
                      ELSE IF Merged(text, i) THEN <<SubSeq(text, i, i + 1)>>
                      ELSE <<<<text[i]>>>>
  <1>1. DOMAIN text = 1..Len(text) /\ Len(text) \in Nat
    BY DEF Text
  <1>2. ASSUME NEW i \in 1..Len(text) PROVE e(i) \in Ids
    <2>1. Merged(text, i) => SubSeq(text, i, i + 1) \in Text
      BY <1>1 DEF Merged, Text
    <2>2. <<text[i]>> \in Text
      BY DEF Text
    <2>. QED  BY <2>1, <2>2 DEF Ids
  <1>3. Cut(text) = [i \in 1..Len(text) |-> e(i)]
    BY <1>1 DEF Cut
  <1>. HIDE DEF e
  <1>4. Cut(text) \in Seq(Ids) /\ Len(Cut(text)) = Len(text)
    BY <1>1, <1>2, <1>3
  <1>5. \A i \in 1..Len(text) : Cut(text)[i] = e(i)
    BY <1>3
  <1>. QED  BY <1>4, <1>5 DEF e

LEMMA EncodeType == \A text \in Text : Encode(text) \in Ids
  BY EncodeIsCut, CutType, FlattenType DEF Ids

LEMMA EncodeSome ==
    ASSUME NEW text \in Text, text # <<>>
    PROVE  Encode(text) # <<>>
  <1>1. Cut(text) \in Seq(Ids) /\ Cut(text) # <<>> /\ 1 \in 1..Len(text)
    BY CutType DEF Text
  <1>2. ~Merged(text, 0)
    BY DEF Merged
  <1>3. Cut(text)[1] \in Seq(Text) /\ Len(Cut(text)[1]) = 1
    <2>1. Cut(text)[1] = IF Merged(text, 1) THEN <<SubSeq(text, 1, 2)>> ELSE <<<<text[1]>>>>
      BY <1>1, <1>2, CutType
    <2>2. Cut(text)[1] \in Seq(Text)
      BY <1>1 DEF Ids
    <2>. QED  BY <2>1, <2>2
  <1>4. Encode(text) = Cut(text)[1] \o FlattenSeq(Tail(Cut(text)))
    BY <1>1, EncodeIsCut, FlattenHead DEF Ids
  <1>5. Cut(text)[1] \in Ids /\ FlattenSeq(Tail(Cut(text))) \in Ids
    BY <1>1, FlattenHead DEF Ids
  <1>. DEFINE a == Cut(text)[1]
              b == FlattenSeq(Tail(Cut(text)))
  <1>6. a \in Ids /\ b \in Ids /\ Len(a) = 1 /\ Encode(text) = a \o b
    BY <1>3, <1>4, <1>5
  <1>. HIDE DEF a, b
  <1>7. a \in Seq(Text) /\ b \in Seq(Text)
    BY <1>6 DEF Ids
  <1>8. Len(a \o b) = Len(a) + Len(b)
    BY <1>7, ConcatProperties
  <1>9. Len(b) \in Nat
    BY <1>7
  <1>. QED  BY <1>6, <1>8, <1>9

LEMMA SpellType == \A ids \in Ids : Spell(ids) \in Text
  BY FlattenType DEF Spell, Ids, Text

LEMMA SpellConcat == \A s, t \in Ids : Spell(s \o t) = Spell(s) \o Spell(t)
  BY FlattenConcat DEF Spell, Ids, Text

-----------------------------------------------------------------------------
(***************************************************************************)
(* Writing over a sequence.                                                *)
(***************************************************************************)
LEMMA Written ==
    ASSUME NEW C, NEW s \in Seq(C), NEW at \in 0..Len(s), NEW vals \in Seq(C)
    PROVE  /\ WriteAt(s, at, vals) \in Seq(C)
           /\ Len(WriteAt(s, at, vals)) = IF Len(s) <= at + Len(vals) THEN at + Len(vals) ELSE Len(s)
           /\ \A i \in 1..at : WriteAt(s, at, vals)[i] = s[i]
           /\ \A i \in 1..Len(vals) : WriteAt(s, at, vals)[at + i] = vals[i]
  <1>. DEFINE n == IF Len(s) <= at + Len(vals) THEN at + Len(vals) ELSE Len(s)
              w == [i \in 1..n |-> IF i > at /\ i <= at + Len(vals) THEN vals[i - at] ELSE s[i]]
  <1>1. n \in Nat /\ n >= at /\ n >= at + Len(vals) /\ at \in Nat
    OBVIOUS
  <1>2. Max({Len(s), at + Len(vals)}) = n
    BY MaxOfTwo
  <1>3. WriteAt(s, at, vals) = w
    BY <1>2 DEF WriteAt
  <1>4. \A i \in 1..n : (IF i > at /\ i <= at + Len(vals) THEN vals[i - at] ELSE s[i]) \in C
    OBVIOUS
  <1>. HIDE DEF n
  <1>5. w \in Seq(C) /\ Len(w) = n
    BY <1>1, <1>4
  <1>6. \A i \in 1..n : w[i] = IF i > at /\ i <= at + Len(vals) THEN vals[i - at] ELSE s[i]
    OBVIOUS
  <1>. HIDE DEF w
  <1>7. \A i \in 1..at : w[i] = s[i]
    BY <1>1, <1>6
  <1>8. \A i \in 1..Len(vals) : w[at + i] = vals[i]
    <2>. SUFFICES ASSUME NEW i \in 1..Len(vals) PROVE w[at + i] = vals[i]
      OBVIOUS
    <2>1. at + i \in 1..n /\ at + i > at /\ at + i <= at + Len(vals) /\ (at + i) - at = i
      BY <1>1
    <2>. QED  BY <1>6, <2>1
  <1>. QED  BY <1>3, <1>5, <1>7, <1>8 DEF n

LEMMA WrittenBeginning ==
    ASSUME NEW C, NEW s \in Seq(C), NEW at \in 0..Len(s), NEW vals \in Seq(C)
    PROVE  /\ \A i \in 0..Len(vals) :
                  SubSeq(WriteAt(s, at, vals), 1, at + i) = SubSeq(s, 1, at) \o SubSeq(vals, 1, i)
           /\ \A k \in 0..at : SubSeq(WriteAt(s, at, vals), 1, k) = SubSeq(s, 1, k)
  <1>. DEFINE w == WriteAt(s, at, vals)
  <1>1. /\ w \in Seq(C) /\ Len(w) >= at + Len(vals) /\ Len(w) \in Nat
        /\ \A i \in 1..at : w[i] = s[i]
        /\ \A i \in 1..Len(vals) : w[at + i] = vals[i]
    BY Written
  <1>. HIDE DEF w
  <1>2. ASSUME NEW i \in 0..Len(vals)
        PROVE  SubSeq(w, 1, at + i) = SubSeq(s, 1, at) \o SubSeq(vals, 1, i)
    <2>. DEFINE a == SubSeq(s, 1, at)
                v == SubSeq(vals, 1, i)
                b == SubSeq(w, 1, at + i)
    <2>1. a \in Seq(C) /\ Len(a) = at /\ \A j \in 1..at : a[j] = s[j]
      BY Beginning
    <2>2. v \in Seq(C) /\ Len(v) = i /\ \A j \in 1..i : v[j] = vals[j]
      BY Beginning
    <2>3. at + i \in 0..Len(w)
      BY <1>1
    <2>4. b \in Seq(C) /\ Len(b) = at + i /\ \A j \in 1..at + i : b[j] = w[j]
      BY <1>1, <2>3, Beginning
    <2>. HIDE DEF a, v, b
    <2>5. a \o v \in Seq(C) /\ Len(a \o v) = Len(a) + Len(v)
          /\ \A j \in 1..Len(a) + Len(v) : (a \o v)[j] = IF j <= Len(a) THEN a[j] ELSE v[j - Len(a)]
      BY <2>1, <2>2, ConcatProperties
    <2>6. ASSUME NEW j \in 1..at + i PROVE b[j] = (a \o v)[j]
      <3>1. CASE j <= at
        <4>1. j \in 1..at
          BY <3>1
        <4>. QED  BY <1>1, <2>1, <2>2, <2>4, <2>5, <3>1, <4>1
      <3>2. CASE ~(j <= at)
        <4>1. j - at \in 1..i /\ j - at \in 1..Len(vals) /\ at + (j - at) = j
          BY <3>2
        <4>2. w[j] = vals[j - at]
          BY <1>1, <4>1
        <4>. QED  BY <2>1, <2>2, <2>4, <2>5, <3>2, <4>1, <4>2
      <3>. QED  BY <3>1, <3>2
    <2>7. Len(b) = Len(a \o v)
      BY <2>1, <2>2, <2>4, <2>5
    <2>8. b = a \o v
      BY <2>4, <2>5, <2>6, <2>7, SeqEqual
    <2>. QED  BY <2>8 DEF a, v, b
  <1>3. ASSUME NEW k \in 0..at PROVE SubSeq(w, 1, k) = SubSeq(s, 1, k)
    <2>1. k \in 0..Len(w) /\ k \in 0..Len(s)
      BY <1>1
    <2>2. SubSeq(w, 1, k) \in Seq(C) /\ Len(SubSeq(w, 1, k)) = k
          /\ \A j \in 1..k : SubSeq(w, 1, k)[j] = w[j]
      BY <1>1, <2>1, Beginning
    <2>3. SubSeq(s, 1, k) \in Seq(C) /\ Len(SubSeq(s, 1, k)) = k
          /\ \A j \in 1..k : SubSeq(s, 1, k)[j] = s[j]
      BY <2>1, Beginning
    <2>4. \A j \in 1..k : SubSeq(w, 1, k)[j] = SubSeq(s, 1, k)[j]
      BY <1>1, <2>2, <2>3
    <2>. QED  BY <2>2, <2>3, <2>4, SeqEqual
  <1>. QED  BY <1>2, <1>3 DEF w
(***************************************************************************)
(* What is common to two sequences, and what is kept of a prompt.          *)
(***************************************************************************)
LEMMA CommonLenIs ==
    ASSUME NEW C, NEW s \in Seq(C), NEW t \in Seq(C)
    PROVE  /\ CommonLen(s, t) \in 0..Len(s) /\ CommonLen(s, t) <= Len(t)
           /\ SubSeq(s, 1, CommonLen(s, t)) = SubSeq(t, 1, CommonLen(s, t))
  <1>. DEFINE K == {k \in 0..Len(s) : IsPrefix(SubSeq(s, 1, k), t)}
              c == CommonLen(s, t)
  <1>1. 0 \in K
    <2>1. SubSeq(s, 1, 0) = <<>> /\ 0 \in 0..Len(s)
      OBVIOUS
    <2>2. Len(<<>>) = 0 /\ SubSeq(t, 1, 0) = <<>> /\ Len(t) >= 0
      OBVIOUS
    <2>. QED  BY <2>1, <2>2 DEF IsPrefix
  <1>2. K \in SUBSET Nat /\ K # {} /\ Len(s) \in Nat /\ \A k \in K : k <= Len(s)
    BY <1>1
  <1>3. c = Max(K)
    BY DEF CommonLen
  <1>. HIDE DEF K
  <1>4. Max(K) \in K
    BY <1>2, MaxOf
  <1>5. c \in K
    BY <1>3, <1>4
  <1>. HIDE DEF c
  <1>6. c \in 0..Len(s) /\ IsPrefix(SubSeq(s, 1, c), t)
    BY <1>5 DEF K
  <1>7. Len(SubSeq(s, 1, c)) = c
    BY <1>6, Beginning
  <1>8. c <= Len(t) /\ SubSeq(s, 1, c) = SubSeq(t, 1, c)
    BY <1>6, <1>7 DEF IsPrefix
  <1>. QED  BY <1>6, <1>8 DEF c

\* Fed: the tokens that count.
LEMMA FedSyncedIs ==
    ASSUME fedN \in Nat, nPos \in Nat
    PROVE  FedSynced = (IF fedN <= nPos THEN fedN ELSE nPos) /\ FedSynced \in Nat
  BY MinOfTwo DEF FedSynced

LEMMA ReuseIs ==
    ASSUME fedN \in Nat, nPos \in Nat, fed \in Ids, fedN <= Len(fed), NEW ids \in Ids
    PROVE  /\ Reuse(ids) \in 0..FedSynced /\ Reuse(ids) <= Len(ids)
           /\ SubSeq(fed, 1, Reuse(ids)) = SubSeq(ids, 1, Reuse(ids))
           /\ ids # <<>> /\ Reuse(ids) = Len(ids) => Reuse(ids) = FedSynced
  <1>. DEFINE n == FedSynced
              s == SubSeq(fed, 1, n)
              c == CommonLen(s, ids)
              r == Reuse(ids)
  <1>1. n \in Nat /\ n <= Len(fed)
    BY FedSyncedIs DEF Ids
  <1>2. s \in Seq(Text) /\ Len(s) = n
    BY <1>1, Beginning DEF Ids
  <1>3. r = IF ids # <<>> /\ c = Len(ids) /\ c < n THEN c - 1 ELSE c
    BY DEF Reuse
  <1>. HIDE DEF n
  <1>4. \A k \in 0..n : SubSeq(s, 1, k) = SubSeq(fed, 1, k)
    BY <1>1, BeginningOfBeginning DEF Ids
  <1>. HIDE DEF s
  <1>5. ids \in Seq(Text)
    BY DEF Ids
  <1>6. c \in 0..Len(s) /\ c <= Len(ids) /\ SubSeq(s, 1, c) = SubSeq(ids, 1, c)
    BY <1>2, <1>5, CommonLenIs
  <1>. HIDE DEF c, r
  <1>7. Len(ids) \in Nat /\ (ids # <<>> => Len(ids) > 0)
    BY <1>5
  <1>8. r \in 0..n /\ r <= Len(ids) /\ r \in 0..c /\ (ids # <<>> /\ r = Len(ids) => r = n)
    BY <1>1, <1>2, <1>3, <1>6, <1>7
  <1>9. SubSeq(SubSeq(s, 1, c), 1, r) = SubSeq(s, 1, r)
    BY <1>2, <1>6, <1>8, BeginningOfBeginning
  <1>10. SubSeq(SubSeq(ids, 1, c), 1, r) = SubSeq(ids, 1, r)
    <2>1. c \in 0..Len(ids)
      BY <1>6, <1>7
    <2>. QED  BY <1>5, <1>8, <2>1, BeginningOfBeginning
  <1>11. SubSeq(s, 1, r) = SubSeq(fed, 1, r)
    BY <1>4, <1>8
  <1>. QED  BY <1>6, <1>8, <1>9, <1>10, <1>11 DEF n, r

(***************************************************************************)
(* What the template renders.                                              *)
(***************************************************************************)
LEMMA ShownType == \A text \in Text : Shown(text) \in Text
  <1>. SUFFICES ASSUME NEW text \in Text PROVE Shown(text) \in Text
    OBVIOUS
  <1>. DEFINE e(i) == IF text[i] \in Dropped THEN <<>> ELSE <<text[i]>>
  <1>1. ASSUME NEW i \in 1..Len(text) PROVE e(i) \in Text
    <2>1. text[i] \in Char
      BY DEF Text
    <2>2. <<text[i]>> \in Seq(Char) /\ <<>> \in Seq(Char)
      BY <2>1
    <2>. QED  BY <2>2 DEF Text
  <1>2. DOMAIN text = 1..Len(text) /\ Len(text) \in Nat
    BY DEF Text
  <1>3. Shown(text) = FlattenSeq([i \in 1..Len(text) |-> e(i)])
    BY <1>2 DEF Shown
  <1>. HIDE DEF e
  <1>4. [i \in 1..Len(text) |-> e(i)] \in Seq(Seq(Char))
    BY <1>1, <1>2 DEF Text
  <1>. QED  BY <1>3, <1>4, FlattenType DEF Text

LEMMA RenderType ==
    ASSUME NEW ms \in Seq(Msg), NEW prompted \in BOOLEAN
    PROVE  Render(ms, prompted) \in Text /\ Render(ms, prompted) # <<>>
  <1>. DEFINE e(i) == <<ms[i].role>> \o Shown(ms[i].text)
              a == FlattenSeq([i \in DOMAIN ms |-> e(i)])
              z == IF prompted THEN <<"A">> ELSE <<>>
  <1>1. ASSUME NEW i \in 1..Len(ms) PROVE e(i) \in Text
    <2>1. ms[i] \in Msg
      OBVIOUS
    <2>2. ms[i].role \in Char /\ Shown(ms[i].text) \in Text
      BY <2>1, ShownType DEF Msg
    <2>3. <<ms[i].role>> \in Seq(Char) /\ Shown(ms[i].text) \in Seq(Char)
      BY <2>2 DEF Text
    <2>. QED  BY <2>3, ConcatProperties DEF Text
  <1>2. DOMAIN ms = 1..Len(ms) /\ Len(ms) \in Nat
    OBVIOUS
  <1>. HIDE DEF e
  <1>3. [i \in 1..Len(ms) |-> e(i)] \in Seq(Seq(Char))
    BY <1>1, <1>2 DEF Text
  <1>4. a \in Seq(Char)
    BY <1>2, <1>3, FlattenType
  <1>5. z \in Seq(Char) /\ <<"^">> \in Seq(Char)
    <2>1. <<"A">> \in Seq(Char) /\ <<"^">> \in Seq(Char) /\ <<>> \in Seq(Char)
      BY Marks, OfOne
    <2>. QED  BY <2>1
  <1>6. Render(ms, prompted) = <<"^">> \o a \o z
    BY DEF Render, e
  <1>. HIDE DEF a, z
  <1>. DEFINE h == <<"^">> \o a
  <1>7. h \in Seq(Char) /\ Len(h) = 1 + Len(a) /\ Len(a) \in Nat
    BY <1>4, <1>5, ConcatProperties
  <1>. HIDE DEF h
  <1>8. h \o z \in Seq(Char) /\ Len(h \o z) = Len(h) + Len(z) /\ Len(z) \in Nat
    <2>1. h \in Seq(Char) /\ z \in Seq(Char)
      BY <1>5, <1>7
    <2>. QED  BY ONLY <2>1, ConcatProperties
  <1>9. h \o z # <<>>
    BY <1>7, <1>8
  <1>. QED  BY <1>6, <1>8, <1>9 DEF Text, h

-----------------------------------------------------------------------------
(***************************************************************************)
(* The cache's rows.                                                       *)
(***************************************************************************)
LEMMA RowType ==
    ASSUME rows \in Seq(Ids), NEW at \in 0..Len(rows)
    PROVE  /\ Below(at) \in Ids
           /\ \A toks \in Ids : Row(at, toks) \in Ids
  <1>1. Below(at) \in Ids
    <2>1. CASE at = 0
      BY <2>1 DEF Below, Ids
    <2>2. CASE at # 0
      BY <2>2 DEF Below
    <2>. QED  BY <2>1, <2>2
  <1>2. ASSUME NEW toks \in Ids PROVE Row(at, toks) \in Ids
    BY <1>1, ConcatProperties DEF Row, Ids
  <1>. QED  BY <1>1, <1>2

LEMMA RowsOfIs ==
    ASSUME rows \in Seq(Ids), NEW at \in 0..Len(rows), NEW toks \in Ids
    PROVE  /\ RowsOf(at, toks) \in Seq(Ids) /\ Len(RowsOf(at, toks)) = Len(toks)
           /\ \A i \in 1..Len(toks) : RowsOf(at, toks)[i] = Row(at, SubSeq(toks, 1, i))
  <1>. DEFINE e(i) == Row(at, SubSeq(toks, 1, i))
              w == [i \in 1..Len(toks) |-> e(i)]
  <1>1. DOMAIN toks = 1..Len(toks) /\ Len(toks) \in Nat
    BY DEF Ids
  <1>2. ASSUME NEW i \in 1..Len(toks) PROVE e(i) \in Ids
    <2>1. SubSeq(toks, 1, i) \in Ids
      BY <1>1, Beginning DEF Ids
    <2>. QED  BY <2>1, RowType
  <1>3. RowsOf(at, toks) = w
    BY <1>1 DEF RowsOf
  <1>. HIDE DEF e
  <1>4. w \in Seq(Ids) /\ Len(w) = Len(toks) /\ \A i \in 1..Len(toks) : w[i] = e(i)
    BY <1>1, <1>2
  <1>. QED  BY <1>3, <1>4 DEF e

\* What a pass over some tokens leaves in the cache, whether or not it is sound.
Rewrites(at, n) ==
    /\ rows' \in Seq(Ids)
    /\ Len(rows') = IF Len(rows) <= at + n THEN at + n ELSE Len(rows)
    /\ \A i \in 1..at : rows'[i] = rows[i]

LEMMA Computed ==
    ASSUME rows \in Seq(Ids), NEW at \in 0..Len(rows), NEW toks \in Ids, Computes(at, toks)
    PROVE  /\ Rewrites(at, Len(toks))
           /\ \A i \in 1..Len(toks) : rows'[at + i] = Row(at, SubSeq(toks, 1, i))
  <1>1. rows' = WriteAt(rows, at, RowsOf(at, toks))
    BY DEF Computes
  <1>. DEFINE v == RowsOf(at, toks)
  <1>2. /\ v \in Seq(Ids) /\ Len(v) = Len(toks)
        /\ \A i \in 1..Len(toks) : v[i] = Row(at, SubSeq(toks, 1, i))
    BY RowsOfIs
  <1>3. rows' = WriteAt(rows, at, v)
    BY <1>1
  <1>. HIDE DEF v
  <1>4. /\ WriteAt(rows, at, v) \in Seq(Ids)
        /\ Len(WriteAt(rows, at, v)) = IF Len(rows) <= at + Len(v) THEN at + Len(v) ELSE Len(rows)
        /\ \A i \in 1..at : WriteAt(rows, at, v)[i] = rows[i]
        /\ \A i \in 1..Len(v) : WriteAt(rows, at, v)[at + i] = v[i]
    BY <1>2, Written
  <1>. QED  BY <1>2, <1>3, <1>4 DEF Rewrites

LEMMA TornIs ==
    ASSUME rows \in Seq(Ids), NEW at \in 0..Len(rows), NEW toks \in Ids, Tears(at, toks)
    PROVE  Rewrites(at, Len(toks))
  <1>. DEFINE v == [i \in 1..Len(toks) |-> <<Torn>>]
  <1>1. DOMAIN toks = 1..Len(toks) /\ Len(toks) \in Nat
    BY DEF Ids
  <1>2. rows' = WriteAt(rows, at, v)
    BY <1>1 DEF Tears
  <1>3. <<Torn>> \in Ids
    <2>1. Torn \in Text
      BY Marks, OfOne DEF Torn, Text
    <2>. QED  BY <2>1, OfOne DEF Ids
  <1>4. v \in Seq(Ids) /\ Len(v) = Len(toks)
    BY <1>1, <1>3
  <1>. HIDE DEF v
  <1>5. /\ WriteAt(rows, at, v) \in Seq(Ids)
        /\ Len(WriteAt(rows, at, v)) = IF Len(rows) <= at + Len(v) THEN at + Len(v) ELSE Len(rows)
        /\ \A i \in 1..at : WriteAt(rows, at, v)[i] = rows[i]
    BY <1>4, Written
  <1>. QED  BY <1>2, <1>4, <1>5 DEF Rewrites

(***************************************************************************)
(* Batches.                                                                *)
(***************************************************************************)
LEMMA Sizes == NCtx \in Nat /\ NCtx > 0 /\ Chunk \in Nat /\ Chunk > 0 /\ MaxTokens \in Nat
  BY SessionAssumption

LEMMA NextChunkIs ==
    ASSUME NEW b, b.toks \in Ids, b.off \in Nat, b.off < Len(b.toks)
    PROVE  /\ NextChunk(b) \in Ids
           /\ Len(NextChunk(b)) \in 1..Len(b.toks) - b.off
           /\ \A i \in 0..Len(NextChunk(b)) :
                  SubSeq(b.toks, 1, b.off) \o SubSeq(NextChunk(b), 1, i) = SubSeq(b.toks, 1, b.off + i)
  <1>. DEFINE s == b.toks
              o == b.off
              m == IF o + Chunk <= Len(s) THEN o + Chunk ELSE Len(s)
              w == SubSeq(s, o + 1, m)
  <1>1. s \in Seq(Text) /\ o \in 0..Len(s) /\ Len(s) \in Nat
    BY DEF Ids
  <1>2. m \in o + 1..Len(s) /\ m \in Nat
    BY <1>1, Sizes
  <1>3. NextChunk(b) = w
    <2>1. o + Chunk \in Int /\ Len(s) \in Int
      BY <1>1, Sizes
    <2>2. Min({o + Chunk, Len(s)}) = m
      BY <2>1, MinOfTwo
    <2>. QED  BY <2>2 DEF NextChunk
  <1>. HIDE DEF s, o, m
  <1>4. w \in Seq(Text) /\ Len(w) = m - o /\ \A i \in 1..m - o : w[i] = s[o + i]
    <2>1. \A i \in o + 1..m : s[i] \in Text
      BY <1>1, <1>2
    <2>2. o + 1 \in Int /\ m \in Int /\ m - (o + 1) + 1 = m - o /\ o + 1 <= m
      BY <1>1, <1>2
    <2>3. /\ SubSeq(s, o + 1, m) \in Seq(Text)
          /\ Len(SubSeq(s, o + 1, m)) = IF o + 1 <= m THEN m - (o + 1) + 1 ELSE 0
          /\ \A i \in 1..m - (o + 1) + 1 : SubSeq(s, o + 1, m)[i] = s[o + 1 + i - 1]
      BY <2>1, <2>2, SubSeqProperties
    <2>4. \A i \in 1..m - o : o + 1 + i - 1 = o + i
      BY <1>1, <1>2
    <2>. QED  BY <2>2, <2>3, <2>4
  <1>. HIDE DEF w
  <1>5. Len(w) \in 1..Len(s) - o
    BY <1>1, <1>2, <1>4
  <1>6. ASSUME NEW i \in 0..Len(w)
        PROVE  SubSeq(s, 1, o) \o SubSeq(w, 1, i) = SubSeq(s, 1, o + i)
    <2>. DEFINE a == SubSeq(s, 1, o)
                x == SubSeq(w, 1, i)
                c == SubSeq(s, 1, o + i)
    <2>1. a \in Seq(Text) /\ Len(a) = o /\ \A j \in 1..o : a[j] = s[j]
      BY <1>1, Beginning
    <2>2. x \in Seq(Text) /\ Len(x) = i /\ \A j \in 1..i : x[j] = w[j]
      BY <1>4, Beginning
    <2>3. o + i \in 0..Len(s)
      BY <1>1, <1>5
    <2>4. c \in Seq(Text) /\ Len(c) = o + i /\ \A j \in 1..o + i : c[j] = s[j]
      BY <1>1, <2>3, Beginning
    <2>. HIDE DEF a, x, c
    <2>5. a \o x \in Seq(Text) /\ Len(a \o x) = Len(a) + Len(x)
          /\ \A j \in 1..Len(a) + Len(x) : (a \o x)[j] = IF j <= Len(a) THEN a[j] ELSE x[j - Len(a)]
      BY <2>1, <2>2, ConcatProperties
    <2>6. ASSUME NEW j \in 1..o + i PROVE (a \o x)[j] = c[j]
      <3>1. CASE j <= o
        <4>1. j \in 1..o
          BY <1>1, <3>1
        <4>. QED  BY <2>1, <2>2, <2>4, <2>5, <3>1, <4>1
      <3>2. CASE ~(j <= o)
        <4>1. j - o \in 1..i /\ j - o \in 1..m - o /\ o + (j - o) = j
          BY <1>1, <1>2, <1>4, <3>2
        <4>2. w[j - o] = s[j]
          BY <1>4, <4>1
        <4>3. (a \o x)[j] = x[j - o]
          BY <2>1, <2>2, <2>5, <3>2
        <4>. QED  BY <2>2, <2>4, <4>1, <4>2, <4>3
      <3>. QED  BY <3>1, <3>2
    <2>7. Len(a \o x) = Len(c)
      BY <2>1, <2>2, <2>4, <2>5
    <2>8. a \o x = c
      BY <2>4, <2>5, <2>6, <2>7, SeqEqual
    <2>. QED  BY <2>8 DEF a, x, c
  <1>. QED  BY <1>3, <1>4, <1>5, <1>6 DEF s, o, Ids

\* fed_ids takes tokens after those that count.
LEMMA FedTakes ==
    ASSUME fedN \in Nat, nPos \in Nat, fed \in Ids, fedN <= Len(fed), fedN <= nPos, NEW toks \in Ids
    PROVE  LET w == WriteAt(fed, FedSynced, toks) IN
           /\ w \in Ids
           /\ Len(w) = IF Len(fed) <= fedN + Len(toks) THEN fedN + Len(toks) ELSE Len(fed)
           /\ \A i \in 0..Len(toks) : SubSeq(w, 1, fedN + i) = SubSeq(fed, 1, fedN) \o SubSeq(toks, 1, i)
           /\ \A k \in 0..fedN : SubSeq(w, 1, k) = SubSeq(fed, 1, k)
  <1>1. FedSynced = fedN
    BY FedSyncedIs
  <1>2. fed \in Seq(Text) /\ toks \in Seq(Text) /\ fedN \in 0..Len(fed)
    BY DEF Ids
  <1>. DEFINE w == WriteAt(fed, fedN, toks)
  <1>3. /\ w \in Seq(Text)
        /\ Len(w) = IF Len(fed) <= fedN + Len(toks) THEN fedN + Len(toks) ELSE Len(fed)
    BY <1>2, Written
  <1>4. /\ \A i \in 0..Len(toks) : SubSeq(w, 1, fedN + i) = SubSeq(fed, 1, fedN) \o SubSeq(toks, 1, i)
        /\ \A k \in 0..fedN : SubSeq(w, 1, k) = SubSeq(fed, 1, k)
    BY <1>2, WrittenBeginning
  <1>5. w \in Ids
    BY <1>3 DEF Ids
  <1>. HIDE DEF w
  <1>6. WriteAt(fed, FedSynced, toks) = w
    BY <1>1 DEF w
  <1>. QED  BY <1>3, <1>4, <1>5, <1>6

-----------------------------------------------------------------------------
(***************************************************************************)
(* The types of the session's state, the turn's and the idle prefill's     *)
(* locals in each place of the code.                                       *)
(***************************************************************************)
FeedTurn ==
    [kind : {"chat", "completion"}, toks : Ids, off : Nat, prev : Text, out : Text, cut : Nat,
     left : Int, gen : Nat, mode : {"host", "device", "pipelined"}, hasFed : BOOLEAN,
     unfed : BOOLEAN, tok : Text, from : Ids, rc : {Ok, Error}, req : Seq(Msg) \cup Text]
WarmTurn == [kind : {"warmup"}, toks : Ids, off : Nat]
TypedTurn == [kind : {"chat"}, msg : Msg]
AskedTurn == [kind : {"chat"}, msg : Msg, req : Seq(Msg)]
PromptTurn == [kind : {"completion"}, prompt : Text]
OverTurn == [kind : {"chat", "completion"}, rc : {Ok, Error}]
IdleRun == [toks : Ids, off : Nat, header : Text, nPos : Nat, fedN : Nat, render : Text, tok : Nat]

Decoding == {"sample", "redo", "resample", "feed", "spec"}
Generating == {"prefill"} \cup Decoding

CacheTyped == nPos \in Nat /\ fedN \in Nat /\ rows \in Seq(Ids) /\ fed \in Ids
ChatTyped ==
    /\ syncRender \in Text /\ syncTok \in Nat /\ syncTok <= NCtx
    /\ msgs \in Seq(Msg) /\ lastRender \in Text
FlagsTyped ==
    /\ poisoned \in BOOLEAN /\ interrupt \in BOOLEAN /\ adopted \in Seq(Msg)
    /\ hostLogits \in Ids /\ devLogits \in Ids /\ presampled \in {None} \cup (Text \X Ids)
PlacesTyped ==
    /\ pc \in Generating \cup {"reset", "warmup", "input", "join", "turn", "record", "after"}
    /\ idlePc \in {"off", "start", "feed", "done"}
    /\ idlePc # "off" => Driver = "interactive" /\ pc \in {"input", "join"}
    /\ pc = "join" => Driver = "interactive"
TurnTyped ==
    /\ pc \in Generating \cup {"record"} => turn \in FeedTurn
    /\ pc = "warmup" => turn \in WarmTurn
    /\ pc = "join" => turn \in TypedTurn \cup {[kind |-> "reset"]}
    /\ pc = "turn" /\ Driver = "server" => turn \in AskedTurn \cup PromptTurn
    /\ pc = "turn" /\ Driver # "server" => turn \in TypedTurn
    /\ pc = "after" => turn \in OverTurn
IdleTyped == idlePc = "feed" => idle \in IdleRun

CacheSized ==
    /\ nPos = fedN + (IF pc = "spec" THEN 1 ELSE 0)
    /\ fedN <= Len(fed) /\ Len(fed) <= NCtx
    /\ nPos <= Len(rows) /\ Len(rows) <= NCtx
TurnSized ==
    /\ pc \in {"warmup", "prefill"} =>
           /\ turn.off <= Len(turn.toks)
           /\ turn.off < Len(turn.toks) =>
                  nPos + Len(turn.toks) <= NCtx /\ nPos + turn.off <= Len(rows)
    /\ pc \in Generating /\ turn.hasFed => fedN > 0
IdleSized ==
    idlePc = "feed" =>
        /\ idle.off < Len(idle.toks) /\ nPos + idle.off <= Len(rows)
        /\ idle.nPos = idle.fedN /\ nPos <= idle.nPos
        /\ idle.nPos <= Len(rows) /\ idle.fedN <= Len(fed)
        /\ idle.tok <= NCtx /\ Len(Encode(idle.header)) <= NCtx

TypesInv ==
    /\ CacheTyped /\ ChatTyped /\ FlagsTyped /\ PlacesTyped /\ TurnTyped /\ IdleTyped
    /\ CacheSized /\ TurnSized /\ IdleSized

(***************************************************************************)
(* Characters, messages and edits of a turn.                               *)
(***************************************************************************)
LEMMA Words ==
    /\ UserTexts \subseteq Text /\ Pieces \subseteq Text /\ System \in Text
    /\ Eog \in Text /\ Bos \in Text /\ <<>> \in Text /\ <<>> \in Ids
  <1>1. Seq(STRING) \subseteq Text
    <2>1. STRING \subseteq Char
      BY DEF Char
    <2>. SUFFICES ASSUME NEW s \in Seq(STRING) PROVE s \in Text
      OBVIOUS
    <2>2. Len(s) \in Nat /\ s \in [1..Len(s) -> STRING]
      OBVIOUS
    <2>3. s \in [1..Len(s) -> Char]
      BY <2>1, <2>2
    <2>. QED  BY <2>2, <2>3 DEF Text
  <1>2. UserTexts \subseteq Seq(STRING) /\ Pieces \subseteq Seq(STRING) /\ System \in Seq(STRING)
    BY SessionAssumption
  <1>3. Eog \in Text /\ Bos \in Text
    BY Marks, OfOne DEF Eog, Bos, Text
  <1>4. <<>> \in Text /\ <<>> \in Ids
    BY DEF Text, Ids
  <1>. QED  BY <1>1, <1>2, <1>3, <1>4

LEMMA MessageType ==
    ASSUME NEW role \in {"S", "U", "A"}, NEW text \in Text
    PROVE  Message(role, text) \in Msg /\ Message(role, text).text = text
           /\ Message(role, text).role = role
  <1>1. role \in Char
    BY Marks
  <1>. QED  BY <1>1 DEF Message, Msg

LEMMA SetOff ==
    ASSUME NEW u \in FeedTurn, NEW n \in Nat
    PROVE  [u EXCEPT !.off = n] \in FeedTurn
  BY DEF FeedTurn

LEMMA SetRc ==
    ASSUME NEW u \in FeedTurn, NEW x \in {Ok, Error}
    PROVE  [u EXCEPT !.rc = x] \in FeedTurn
  BY DEF FeedTurn

LEMMA SetMode ==
    ASSUME NEW u \in FeedTurn, NEW m \in {"host", "device", "pipelined"}
    PROVE  [u EXCEPT !.mode = m] \in FeedTurn
  BY DEF FeedTurn

LEMMA SetFlags ==
    ASSUME NEW u \in FeedTurn
    PROVE  [u EXCEPT !.hasFed = TRUE] \in FeedTurn /\ [u EXCEPT !.unfed = TRUE] \in FeedTurn
  BY DEF FeedTurn

LEMMA SetToken ==
    ASSUME NEW u \in FeedTurn, NEW t \in Text, NEW f \in Ids
    PROVE  [u EXCEPT !.tok = t, !.from = f] \in FeedTurn
  BY DEF FeedTurn

LEMMA EmittedType ==
    ASSUME NEW u \in FeedTurn, NEW t \in Text
    PROVE  Emitted(u, t) \in FeedTurn
  <1>1. u.out \o t \in Text /\ Len(u.out) \in Nat
    BY ConcatProperties DEF FeedTurn, Text
  <1>2. u.gen + 1 \in Nat /\ u.left - 1 \in Int
    BY DEF FeedTurn
  <1>. QED  BY <1>1, <1>2 DEF FeedTurn, Emitted

-----------------------------------------------------------------------------
(***************************************************************************)
(* Every step keeps the types: those that leave the cache alone.           *)
(***************************************************************************)
LEMMA InitTypes == Init => TypesInv
  <1>. SUFFICES ASSUME Init PROVE TypesInv
    OBVIOUS
  <1>. USE Words, Sizes DEF Init
  <1>1. CacheTyped
    BY DEF CacheTyped, Ids
  <1>2. ChatTyped
    BY DEF ChatTyped
  <1>3. FlagsTyped
    <2>1. Unheard \in Ids
      BY Marks, OfOne DEF Unheard, Ids, Text
    <2>2. poisoned = FALSE /\ interrupt = FALSE /\ adopted = <<>> /\ presampled = None
          /\ hostLogits = Unheard /\ devLogits = Unheard
      BY DEF None
    <2>3. adopted \in Seq(Msg)
      BY ONLY <2>2
    <2>4. presampled \in {None} \cup (Text \X Ids)
      BY ONLY <2>2
    <2>. QED  BY ONLY <2>1, <2>2, <2>3, <2>4 DEF FlagsTyped
  <1>4. pc = "reset" /\ idlePc = "off"
    OBVIOUS
  <1>7. PlacesTyped
    BY ONLY <1>4 DEF PlacesTyped
  <1>8. TurnTyped /\ TurnSized
    BY ONLY <1>4 DEF TurnTyped, TurnSized, Generating, Decoding
  <1>5. IdleTyped /\ IdleSized
    BY DEF IdleTyped, IdleSized
  <1>6. CacheSized
    BY DEF CacheSized
  <1>. QED  BY <1>1, <1>2, <1>3, <1>4, <1>5, <1>6, <1>7, <1>8 DEF TypesInv

LEMMA StutterTypes == ASSUME TypesInv, UNCHANGED vars PROVE TypesInv'
  <1>1. UNCHANGED <<nPos, rows, fed, fedN, syncRender, syncTok, msgs, lastRender, poisoned, interrupt,
                    hostLogits, devLogits, presampled, pc, turn, idlePc, idle, adopted>>
    BY DEF vars, cache, chat, logits
  <1>2. CacheTyped' /\ ChatTyped' /\ FlagsTyped' /\ CacheSized'
    BY <1>1 DEF TypesInv, CacheTyped, ChatTyped, FlagsTyped, CacheSized
  <1>3. PlacesTyped' /\ TurnTyped' /\ TurnSized'
    BY <1>1 DEF TypesInv, PlacesTyped, TurnTyped, TurnSized
  <1>4. IdleTyped' /\ IdleSized'
    BY <1>1 DEF TypesInv, IdleTyped, IdleSized
  <1>. QED  BY <1>2, <1>3, <1>4 DEF TypesInv

\* Steps that touch neither the cache nor the chat nor the idle prefill.
Aside == UNCHANGED <<nPos, rows, fed, fedN, syncRender, syncTok, msgs, lastRender, idlePc, idle>>

LEMMA AsideTypes ==
    ASSUME TypesInv, Aside, FlagsTyped', PlacesTyped', TurnTyped', TurnSized', pc # "spec", pc' # "spec"
    PROVE  TypesInv'
  BY DEF TypesInv, Aside, CacheTyped, ChatTyped, IdleTyped, CacheSized, IdleSized

LEMMA SignalTypes == ASSUME TypesInv, Signal PROVE TypesInv'
  <1>1. UNCHANGED <<nPos, rows, fed, fedN, syncRender, syncTok, msgs, lastRender, poisoned,
                    hostLogits, devLogits, presampled, pc, turn, idlePc, idle, adopted>>
        /\ interrupt' \in BOOLEAN
    BY DEF Signal, cache, chat, logits
  <1>2. CacheTyped' /\ ChatTyped' /\ FlagsTyped' /\ CacheSized'
    BY <1>1 DEF TypesInv, CacheTyped, ChatTyped, FlagsTyped, CacheSized
  <1>3. PlacesTyped' /\ TurnTyped' /\ TurnSized'
    BY <1>1 DEF TypesInv, PlacesTyped, TurnTyped, TurnSized
  <1>4. IdleTyped' /\ IdleSized'
    BY <1>1 DEF TypesInv, IdleTyped, IdleSized
  <1>. QED  BY <1>2, <1>3, <1>4 DEF TypesInv

LEMMA TypeLineTypes == ASSUME TypesInv, TypeLine PROVE TypesInv'
  <1>1. Aside /\ UNCHANGED <<poisoned, interrupt, hostLogits, devLogits, presampled, adopted>>
        /\ pc = "input" /\ pc' = "join" /\ Driver = "interactive"
    BY DEF TypeLine, Aside, cache, chat, logits
  <1>2. turn' \in TypedTurn \cup {[kind |-> "reset"]}
    <2>1. ASSUME NEW text \in UserTexts, turn' = [kind |-> "chat", msg |-> Message("U", text)]
          PROVE  turn' \in TypedTurn
      BY <2>1, Words, MessageType DEF TypedTurn
    <2>. QED  BY <2>1 DEF TypeLine
  <1>3. FlagsTyped' /\ PlacesTyped' /\ TurnTyped' /\ TurnSized'
    BY <1>1, <1>2 DEF TypesInv, FlagsTyped, PlacesTyped, TurnTyped, TurnSized, Aside, Generating, Decoding
  <1>. QED  BY <1>1, <1>3, AsideTypes

LEMMA AfterTurnTypes == ASSUME TypesInv, AfterTurn PROVE TypesInv'
  <1>1. UNCHANGED <<nPos, rows, fed, fedN, syncRender, syncTok, msgs, lastRender, idle, poisoned,
                    hostLogits, devLogits, presampled, adopted>>
        /\ interrupt' = FALSE /\ pc = "after" /\ pc' \in {"reset", "input"} /\ Driver = "interactive"
        /\ idlePc' \in {idlePc, "off", "start"} /\ (pc' = "reset" => idlePc' = idlePc)
    BY DEF AfterTurn, cache, chat, logits, StartsIdle
  <1>2. idlePc = "off"
    BY <1>1 DEF TypesInv, PlacesTyped
  <1>3. CacheTyped' /\ ChatTyped' /\ FlagsTyped' /\ CacheSized'
    BY <1>1 DEF TypesInv, CacheTyped, ChatTyped, FlagsTyped, CacheSized
  <1>4. PlacesTyped' /\ TurnTyped' /\ TurnSized' /\ IdleTyped' /\ IdleSized'
    BY <1>1, <1>2 DEF TypesInv, PlacesTyped, TurnTyped, TurnSized, IdleTyped, IdleSized, Generating, Decoding
  <1>. QED  BY <1>3, <1>4 DEF TypesInv

LEMMA JoinIdleTypes == ASSUME TypesInv, JoinIdle PROVE TypesInv'
  <1>1. UNCHANGED <<nPos, rows, fed, fedN, syncRender, syncTok, msgs, lastRender, poisoned,
                    hostLogits, devLogits, presampled, adopted>>
        /\ interrupt' = FALSE /\ pc = "join" /\ idlePc' = "off"
        /\ pc' = (IF turn.kind = "reset" THEN "reset" ELSE "turn")
        /\ turn' = (IF turn.kind = "reset" THEN NoTurn ELSE turn)
    BY DEF JoinIdle, cache, chat, logits
  <1>2. Driver = "interactive" /\ turn \in TypedTurn \cup {[kind |-> "reset"]}
    BY <1>1 DEF TypesInv, PlacesTyped, TurnTyped
  <1>3. CacheTyped' /\ ChatTyped' /\ FlagsTyped' /\ CacheSized'
    BY <1>1 DEF TypesInv, CacheTyped, ChatTyped, FlagsTyped, CacheSized
  <1>4. pc' = "turn" => turn' \in TypedTurn
    BY <1>1, <1>2
  <1>5. PlacesTyped' /\ TurnTyped' /\ TurnSized' /\ IdleTyped' /\ IdleSized'
    BY <1>1, <1>2, <1>4 DEF PlacesTyped, TurnTyped, TurnSized, IdleTyped, IdleSized, Generating, Decoding
  <1>. QED  BY <1>3, <1>5 DEF TypesInv

LEMMA RequestEndsTypes == ASSUME TypesInv, RequestEnds PROVE TypesInv'
  <1>1. Aside /\ UNCHANGED <<poisoned, hostLogits, devLogits, presampled>>
        /\ interrupt' = FALSE /\ pc = "after" /\ pc' = "input"
        /\ adopted' \in {msgs, adopted}
    BY DEF RequestEnds, Aside, cache, chat, logits
  <1>2. FlagsTyped' /\ PlacesTyped' /\ TurnTyped' /\ TurnSized'
    BY <1>1 DEF TypesInv, ChatTyped, FlagsTyped, PlacesTyped, TurnTyped, TurnSized, Aside, Generating, Decoding
  <1>. QED  BY <1>1, <1>2, AsideTypes

LEMMA IdleGivesUpTypes == ASSUME TypesInv, IdleGivesUp PROVE TypesInv'
  <1>1. UNCHANGED <<nPos, rows, fed, fedN, syncRender, syncTok, msgs, lastRender, poisoned, interrupt,
                    hostLogits, devLogits, presampled, pc, turn, idle, adopted>>
        /\ idlePc = "start" /\ idlePc' = "done"
    BY DEF IdleGivesUp, cache, chat, logits
  <1>2. CacheTyped' /\ ChatTyped' /\ FlagsTyped' /\ CacheSized'
    BY <1>1 DEF TypesInv, CacheTyped, ChatTyped, FlagsTyped, CacheSized
  <1>3. PlacesTyped' /\ TurnTyped' /\ TurnSized'
    BY <1>1 DEF TypesInv, PlacesTyped, TurnTyped, TurnSized
  <1>4. IdleTyped' /\ IdleSized'
    BY <1>1 DEF TypesInv, IdleTyped, IdleSized
  <1>. QED  BY <1>2, <1>3, <1>4 DEF TypesInv

(***************************************************************************)
(* The decode loop's steps that leave the cache alone.                     *)
(***************************************************************************)
LEMMA PickedIs ==
    ASSUME NEW u \in FeedTurn, NEW t \in Text, NEW from \in Ids, Picked(u, t, from)
    PROVE  /\ turn' \in FeedTurn /\ turn'.hasFed = u.hasFed /\ turn'.kind = u.kind
           /\ turn'.req = u.req /\ turn'.mode = u.mode /\ turn'.tok = t /\ turn'.from = from
           /\ turn'.toks = u.toks /\ turn'.rc = u.rc
           /\ t = Eog => pc' = "record" /\ turn'.gen = u.gen
           /\ t # Eog => pc' = "feed" /\ turn'.gen = u.gen + 1
  <1>. DEFINE v == [u EXCEPT !.tok = t, !.from = from]
  <1>1. /\ v \in FeedTurn /\ v.hasFed = u.hasFed /\ v.kind = u.kind /\ v.req = u.req /\ v.mode = u.mode
        /\ v.tok = t /\ v.from = from /\ v.toks = u.toks /\ v.gen = u.gen /\ v.rc = u.rc
    BY SetToken DEF FeedTurn
  <1>2. turn' = (IF t = Eog THEN v ELSE Emitted(v, t)) /\ pc' = (IF t = Eog THEN "record" ELSE "feed")
    BY DEF Picked
  <1>. HIDE DEF v
  <1>3. CASE t = Eog
    BY <1>1, <1>2, <1>3
  <1>4. CASE t # Eog
    <2>. DEFINE w == Emitted(v, t)
    <2>1. w \in FeedTurn
      BY <1>1, EmittedType
    <2>2. /\ w.hasFed = v.hasFed /\ w.kind = v.kind /\ w.req = v.req /\ w.mode = v.mode
          /\ w.tok = v.tok /\ w.from = v.from /\ w.toks = v.toks /\ w.gen = v.gen + 1 /\ w.rc = v.rc
      BY <1>1 DEF Emitted, FeedTurn
    <2>3. turn' = w /\ pc' = "feed"
      BY <1>2, <1>4
    <2>. HIDE DEF w
    <2>. QED  BY <1>1, <1>4, <2>1, <2>2, <2>3
  <1>. QED  BY <1>3, <1>4

LEMMA DecodeTypes ==
    ASSUME TypesInv, Aside, FlagsTyped', pc \in Generating \ {"spec"},
           pc' \in (Decoding \ {"spec"}) \cup {"record"}, turn' \in FeedTurn, turn'.hasFed = turn.hasFed
    PROVE  TypesInv'
  <1>1. PlacesTyped' /\ pc # "spec" /\ pc' # "spec"
    BY DEF TypesInv, PlacesTyped, Aside, Generating, Decoding
  <1>2. TurnTyped' /\ TurnSized'
    BY DEF TypesInv, TurnTyped, TurnSized, Aside, Generating, Decoding
  <1>. QED  BY <1>1, <1>2, AsideTypes

LEMMA PrefillNothingTypes == ASSUME TypesInv, PrefillNothing PROVE TypesInv'
  <1>1. Aside /\ UNCHANGED <<poisoned, interrupt, hostLogits, devLogits, presampled, adopted, turn>>
        /\ pc = "prefill" /\ pc' = "sample"
    BY DEF PrefillNothing, Aside, cache, chat, logits
  <1>2. FlagsTyped' /\ turn \in FeedTurn
    BY <1>1 DEF TypesInv, FlagsTyped, TurnTyped, Generating
  <1>. QED  BY <1>1, <1>2, DecodeTypes DEF Generating, Decoding

LEMMA DecodeEndsTypes == ASSUME TypesInv, DecodeEnds PROVE TypesInv'
  <1>1. Aside /\ UNCHANGED <<poisoned, interrupt, hostLogits, devLogits, presampled, adopted, turn>>
        /\ pc = "sample" /\ pc' = "record"
    BY DEF DecodeEnds, Aside, cache, chat, logits
  <1>2. FlagsTyped' /\ turn \in FeedTurn
    BY <1>1 DEF TypesInv, FlagsTyped, TurnTyped, Generating, Decoding
  <1>. QED  BY <1>1, <1>2, DecodeTypes DEF Generating, Decoding

LEMMA PickFailsTypes == ASSUME TypesInv, PickFails PROVE TypesInv'
  <1>1. Aside /\ UNCHANGED <<poisoned, interrupt, hostLogits, devLogits, presampled, adopted, turn>>
        /\ pc = "sample" /\ pc' = "redo"
    BY DEF PickFails, Going, Aside, cache, chat, logits
  <1>2. FlagsTyped' /\ turn \in FeedTurn
    BY <1>1 DEF TypesInv, FlagsTyped, TurnTyped, Generating, Decoding
  <1>. QED  BY <1>1, <1>2, DecodeTypes DEF Generating, Decoding

LEMMA FeedLimitTypes == ASSUME TypesInv, FeedLimit PROVE TypesInv'
  <1>1. Aside /\ UNCHANGED <<poisoned, interrupt, hostLogits, devLogits, presampled, adopted>>
        /\ pc = "feed" /\ pc' = "record" /\ turn' = [turn EXCEPT !.unfed = TRUE]
    BY DEF FeedLimit, Aside, cache, chat, logits
  <1>2. FlagsTyped' /\ turn \in FeedTurn
    BY <1>1 DEF TypesInv, FlagsTyped, TurnTyped, Generating, Decoding
  <1>3. turn' \in FeedTurn /\ turn'.hasFed = turn.hasFed
    BY <1>1, <1>2, SetFlags DEF FeedTurn
  <1>. QED  BY <1>1, <1>2, <1>3, DecodeTypes DEF Generating, Decoding

LEMMA SampleNextTypes == ASSUME TypesInv, SampleNext PROVE TypesInv'
  <1>1. Aside /\ UNCHANGED <<poisoned, interrupt, hostLogits, devLogits, adopted>>
        /\ pc \in {"sample", "resample"} /\ presampled' \in {presampled, None}
    BY DEF SampleNext, Going, Aside, cache, chat
  <1>2. /\ FlagsTyped' /\ turn \in FeedTurn /\ hostLogits \in Ids /\ devLogits \in Ids
        /\ presampled \in {None} \cup (Text \X Ids)
    BY <1>1 DEF TypesInv, FlagsTyped, TurnTyped, Generating, Decoding
  <1>3. \E t \in Text, from \in Ids : Picked(turn, t, from)
    <2>1. CASE presampled # None /\ Picked(turn, presampled[1], presampled[2])
      <3>1. presampled[1] \in Text /\ presampled[2] \in Ids
        BY <1>2, <2>1
      <3>. QED  BY <2>1, <3>1
    <2>2. CASE \E t \in Pieces \cup {Eog},
                 from \in {hostLogits} \cup (IF Driver = "server" THEN {} ELSE {devLogits}) :
                    Picked(turn, t, from)
      <3>1. PICK t \in Pieces \cup {Eog},
                 from \in {hostLogits} \cup (IF Driver = "server" THEN {} ELSE {devLogits}) :
                    Picked(turn, t, from)
        BY <2>2
      <3>2. t \in Text /\ from \in Ids
        BY <1>2, <3>1, Words
      <3>. QED  BY <3>1, <3>2
    <2>. QED  BY <2>1, <2>2 DEF SampleNext
  <1>4. turn' \in FeedTurn /\ turn'.hasFed = turn.hasFed /\ pc' \in {"record", "feed"}
    BY <1>2, <1>3, PickedIs
  <1>. QED  BY <1>1, <1>2, <1>4, DecodeTypes DEF Generating, Decoding

LEMMA PickOnDeviceTypes == ASSUME TypesInv, PickOnDevice PROVE TypesInv'
  <1>1. Aside /\ UNCHANGED <<poisoned, interrupt, hostLogits, devLogits, presampled, adopted>>
        /\ pc = "sample"
    BY DEF PickOnDevice, Going, Aside, cache, chat, logits
  <1>2. FlagsTyped' /\ turn \in FeedTurn /\ devLogits \in Ids
    BY <1>1 DEF TypesInv, FlagsTyped, TurnTyped, Generating, Decoding
  <1>3. PICK t \in Pieces \cup {Eog} : Picked(turn, t, devLogits)
    BY DEF PickOnDevice
  <1>4. t \in Text
    BY <1>3, Words
  <1>5. turn' \in FeedTurn /\ turn'.hasFed = turn.hasFed /\ pc' \in {"record", "feed"}
    BY <1>2, <1>3, <1>4, PickedIs
  <1>. QED  BY <1>1, <1>2, <1>5, DecodeTypes DEF Generating, Decoding

LEMMA SpecUnsupportedTypes == ASSUME TypesInv, SpecUnsupported PROVE TypesInv'
  <1>1. Aside /\ UNCHANGED <<poisoned, interrupt, hostLogits, devLogits, presampled, adopted>>
        /\ pc = "sample"
    BY DEF SpecUnsupported, Piping, Going, Aside, cache, chat, logits
  <1>2. FlagsTyped' /\ turn \in FeedTurn /\ devLogits \in Ids
    BY <1>1 DEF TypesInv, FlagsTyped, TurnTyped, Generating, Decoding
  <1>. DEFINE u == [turn EXCEPT !.mode = "device"]
  <1>3. u \in FeedTurn /\ u.hasFed = turn.hasFed
    BY <1>2, SetMode DEF FeedTurn
  <1>4. PICK t \in Pieces \cup {Eog} : Picked(u, t, devLogits)
    BY DEF SpecUnsupported
  <1>. HIDE DEF u
  <1>5. t \in Text
    BY <1>4, Words
  <1>6. turn' \in FeedTurn /\ turn'.hasFed = u.hasFed /\ pc' \in {"record", "feed"}
    BY <1>2, <1>3, <1>4, <1>5, PickedIs
  <1>. QED  BY <1>1, <1>2, <1>3, <1>6, DecodeTypes DEF Generating, Decoding

-----------------------------------------------------------------------------
(***************************************************************************)
(* What the steps that feed tokens do to the cache and to fed_ids.         *)
(***************************************************************************)
Batch(b) ==
    /\ CacheTyped /\ nPos = fedN /\ fedN <= Len(fed)
    /\ b.toks \in Ids /\ b.off \in Nat /\ b.off <= Len(b.toks)
    /\ nPos + b.off <= Len(rows)

\* n tokens are in the cache and in fed_ids.
Takes(toks, n) ==
    /\ nPos' = fedN + n /\ fedN' = fedN + n /\ fed' \in Ids
    /\ Len(fed') = IF Len(fed) <= fedN + n THEN fedN + n ELSE Len(fed)
    /\ \A i \in 0..n : SubSeq(fed', 1, fedN + i) = SubSeq(fed, 1, fedN) \o SubSeq(toks, 1, i)
    /\ \A k \in 0..fedN : SubSeq(fed', 1, k) = SubSeq(fed, 1, k)

LEMMA CountedIs ==
    ASSUME NEW b, Batch(b), NEW n \in 0..Len(b.toks), Counted(b, n)
    PROVE  Takes(b.toks, n)
  <1>. DEFINE t == SubSeq(b.toks, 1, n)
  <1>1. fedN \in Nat /\ nPos \in Nat /\ fed \in Ids /\ fedN <= Len(fed) /\ fedN <= nPos /\ nPos = fedN
    BY DEF Batch, CacheTyped
  <1>2. b.toks \in Seq(Text) /\ fed \in Seq(Text)
    BY DEF Batch, CacheTyped, Ids
  <1>3. t \in Seq(Text) /\ Len(t) = n
    BY <1>2, Beginning
  <1>4. SubSeq(fed, 1, Len(fed)) = fed
    BY <1>2, SubSeqFull
  <1>5. FedSynced = fedN
    BY <1>1, FedSyncedIs
  <1>6. nPos' = nPos + n /\ fedN' = fedN + n /\ fed' = WriteAt(fed, FedSynced, t)
    BY <1>4, <1>5 DEF Counted
  <1>7. ASSUME NEW i \in 0..n PROVE SubSeq(t, 1, i) = SubSeq(b.toks, 1, i)
    BY <1>2, BeginningOfBeginning
  <1>8. t \in Ids
    BY <1>3 DEF Ids
  <1>. HIDE DEF t
  <1>. DEFINE w == WriteAt(fed, FedSynced, t)
  <1>9. /\ w \in Ids
        /\ Len(w) = IF Len(fed) <= fedN + Len(t) THEN fedN + Len(t) ELSE Len(fed)
        /\ \A i \in 0..Len(t) : SubSeq(w, 1, fedN + i) = SubSeq(fed, 1, fedN) \o SubSeq(t, 1, i)
        /\ \A k \in 0..fedN : SubSeq(w, 1, k) = SubSeq(fed, 1, k)
    BY <1>1, <1>8, FedTakes
  <1>10. fed' = w
    BY <1>6
  <1>. HIDE DEF w
  <1>11. \A i \in 0..n : SubSeq(w, 1, fedN + i) = SubSeq(fed, 1, fedN) \o SubSeq(b.toks, 1, i)
    BY <1>3, <1>7, <1>9
  <1>. QED  BY <1>1, <1>3, <1>6, <1>9, <1>10, <1>11 DEF Takes

\* A chunk is computed: its rows, and when it was the last the whole batch.
LEMMA ChunkIs ==
    ASSUME NEW b, Batch(b), FeedChunk(b)
    PROVE  /\ b.off < Len(b.toks) /\ Len(NextChunk(b)) \in 1..Len(b.toks) - b.off
           /\ LastChunk(b) <=> b.off + Len(NextChunk(b)) = Len(b.toks)
           /\ Rewrites(nPos + b.off, Len(NextChunk(b)))
           /\ \A i \in 1..Len(NextChunk(b)) :
                  rows'[nPos + b.off + i] = Row(nPos + b.off, SubSeq(NextChunk(b), 1, i))
           /\ ~LastChunk(b) => UNCHANGED <<nPos, fed, fedN, hostLogits, devLogits>>
           /\ LastChunk(b) => /\ Takes(b.toks, Len(b.toks))
                              /\ hostLogits' = Row(nPos + b.off, NextChunk(b))
                              /\ hostLogits' \in Ids /\ devLogits' = hostLogits'
  <1>. DEFINE c == NextChunk(b)
              at == nPos + b.off
  <1>1. /\ b.off < Len(b.toks) /\ b.toks \in Ids /\ b.off \in Nat /\ rows \in Seq(Ids) /\ Len(b.toks) \in Nat
        /\ at \in 0..Len(rows)
    BY DEF FeedChunk, Batch, CacheTyped, Ids
  <1>2. c \in Ids /\ Len(c) \in 1..Len(b.toks) - b.off
    BY <1>1, NextChunkIs
  <1>3. Computes(at, c)
    BY DEF FeedChunk
  <1>4. LastChunk(b) <=> b.off + Len(c) = Len(b.toks)
    BY DEF LastChunk
  <1>5. LastChunk(b) => Counted(b, Len(b.toks)) /\ hostLogits' = Row(at, c) /\ devLogits' = hostLogits'
    BY DEF FeedChunk
  <1>6. ~LastChunk(b) => UNCHANGED <<nPos, fed, fedN, hostLogits, devLogits>>
    BY DEF FeedChunk
  <1>. HIDE DEF c, at
  <1>7. Rewrites(at, Len(c)) /\ \A i \in 1..Len(c) : rows'[at + i] = Row(at, SubSeq(c, 1, i))
    BY <1>1, <1>2, <1>3, Computed
  <1>8. Row(at, c) \in Ids
    BY <1>1, <1>2, RowType
  <1>9. LastChunk(b) => Takes(b.toks, Len(b.toks))
    <2>1. Len(b.toks) \in 0..Len(b.toks)
      BY <1>1
    <2>. QED  BY <1>5, <2>1, CountedIs
  <1>. QED  BY <1>1, <1>2, <1>4, <1>5, <1>6, <1>7, <1>8, <1>9 DEF c, at

\* A chunk is not computed, or torn.
LEMMA TornChunkIs ==
    ASSUME NEW b, Batch(b), FeedInterrupted(b) \/ FeedFails(b)
    PROVE  /\ b.off < Len(b.toks)
           /\ \E m \in 0..Len(b.toks) - b.off : Rewrites(nPos + b.off, m)
  <1>. DEFINE c == NextChunk(b)
              at == nPos + b.off
  <1>1. /\ b.off < Len(b.toks) /\ b.toks \in Ids /\ b.off \in Nat /\ rows \in Seq(Ids) /\ Len(b.toks) \in Nat
        /\ at \in 0..Len(rows)
    BY DEF FeedInterrupted, FeedFails, Batch, CacheTyped, Ids
  <1>2. c \in Ids /\ Len(c) \in 1..Len(b.toks) - b.off
    BY <1>1, NextChunkIs
  <1>3. rows' = rows \/ Tears(at, c)
    BY DEF FeedInterrupted, FeedFails
  <1>. HIDE DEF c, at
  <1>4. CASE rows' = rows
    <2>1. Rewrites(at, 0)
      BY <1>1, <1>4 DEF Rewrites
    <2>2. 0 \in 0..Len(b.toks) - b.off
      BY <1>1
    <2>. QED  BY <1>1, <2>1, <2>2 DEF at
  <1>5. CASE Tears(at, c)
    <2>1. Rewrites(at, Len(c))
      BY <1>1, <1>2, <1>5, TornIs
    <2>2. Len(c) \in 0..Len(b.toks) - b.off
      BY <1>2
    <2>. QED  BY <1>1, <2>1, <2>2 DEF at
  <1>. QED  BY <1>3, <1>4, <1>5

\* One token is fed to the cache.
LEMMA FeedOneIs ==
    ASSUME rows \in Seq(Ids), NEW at \in 0..Len(rows), NEW t \in Text, Computes(at, <<t>>)
    PROVE  /\ Rewrites(at, 1) /\ rows'[at + 1] = Row(at, <<t>>) /\ Row(at, <<t>>) \in Ids
  <1>1. <<t>> \in Ids /\ Len(<<t>>) = 1 /\ SubSeq(<<t>>, 1, 1) = <<t>>
    BY OfOne, SubSeqFull DEF Ids
  <1>2. Rewrites(at, Len(<<t>>)) /\ \A i \in 1..Len(<<t>>) : rows'[at + i] = Row(at, SubSeq(<<t>>, 1, i))
    BY <1>1, Computed
  <1>3. Row(at, <<t>>) \in Ids
    BY <1>1, RowType
  <1>4. 1 \in 1..Len(<<t>>)
    BY <1>1
  <1>5. rows'[at + 1] = Row(at, <<t>>)
    BY <1>1, <1>2, <1>4
  <1>. QED  BY <1>1, <1>2, <1>3, <1>5

LEMMA TornOneIs ==
    ASSUME rows \in Seq(Ids), NEW at \in 0..Len(rows), NEW t \in Text, Tears(at, <<t>>)
    PROVE  Rewrites(at, 1)
  <1>1. <<t>> \in Ids /\ Len(<<t>>) = 1
    BY OfOne DEF Ids
  <1>. QED  BY <1>1, TornIs

\* ... and to fed_ids, over its length.
LEMMA TakesOne ==
    ASSUME CacheTyped, fedN <= Len(fed), NEW t \in Text,
           nPos' = fedN + 1, fedN' = fedN + 1, fed' = WriteAt(SubSeq(fed, 1, fedN), fedN, <<t>>)
    PROVE  /\ fed' \in Ids /\ Len(fed') = fedN + 1
           /\ SubSeq(fed', 1, fedN + 1) = Append(SubSeq(fed, 1, fedN), t)
           /\ \A k \in 0..fedN : SubSeq(fed', 1, k) = SubSeq(fed, 1, k)
  <1>. DEFINE s == SubSeq(fed, 1, fedN)
              v == <<t>>
              w == WriteAt(s, fedN, v)
  <1>1. fed \in Seq(Text) /\ fedN \in 0..Len(fed)
    BY DEF CacheTyped, Ids
  <1>2. s \in Seq(Text) /\ Len(s) = fedN /\ \A k \in 0..fedN : SubSeq(s, 1, k) = SubSeq(fed, 1, k)
    BY <1>1, Beginning, BeginningOfBeginning
  <1>3. v \in Seq(Text) /\ Len(v) = 1 /\ SubSeq(v, 1, 1) = v
    BY OfOne, SubSeqFull
  <1>4. fed' = w
    OBVIOUS
  <1>5. Append(s, t) = s \o v
    BY <1>2, AppendIsConcat
  <1>. HIDE DEF s, v
  <1>6. fedN \in 0..Len(s) /\ s \in Seq(Text) /\ v \in Seq(Text)
    BY <1>1, <1>2, <1>3
  <1>7. /\ w \in Seq(Text)
        /\ Len(w) = IF Len(s) <= fedN + Len(v) THEN fedN + Len(v) ELSE Len(s)
    BY ONLY <1>6, Written
  <1>8. /\ \A i \in 0..Len(v) : SubSeq(w, 1, fedN + i) = SubSeq(s, 1, fedN) \o SubSeq(v, 1, i)
        /\ \A k \in 0..fedN : SubSeq(w, 1, k) = SubSeq(s, 1, k)
    BY ONLY <1>6, WrittenBeginning
  <1>. HIDE DEF w
  <1>9. SubSeq(w, 1, fedN + 1) = SubSeq(s, 1, fedN) \o SubSeq(v, 1, 1)
    <2>1. 1 \in 0..Len(v)
      BY <1>3
    <2>. QED  BY ONLY <1>8, <2>1
  <1>10. SubSeq(s, 1, fedN) = s
    BY <1>2, SubSeqFull
  <1>11. Len(w) = fedN + 1
    BY <1>1, <1>2, <1>3, <1>7
  <1>. QED  BY <1>2, <1>3, <1>4, <1>5, <1>7, <1>8, <1>9, <1>10, <1>11 DEF s, Ids

-----------------------------------------------------------------------------
(***************************************************************************)
(* Requests, resets, and what is recorded of a turn.                       *)
(***************************************************************************)
LEMMA MainTypes ==
    ASSUME CacheTyped', ChatTyped', FlagsTyped', PlacesTyped', TurnTyped', CacheSized', TurnSized',
           idlePc' # "feed"
    PROVE  TypesInv'
  BY DEF TypesInv, IdleTyped, IdleSized

LEMMA Unsynced ==
    ASSUME msgs' \in Seq(Msg), lastRender' \in Text, syncRender' = <<>>, syncTok' = 0
    PROVE  ChatTyped'
  <1>1. syncRender' \in Text
    BY Words
  <1>2. syncTok' \in Nat /\ syncTok' <= NCtx
    BY Sizes
  <1>. QED  BY <1>1, <1>2 DEF ChatTyped

LEMMA Cleared ==
    ASSUME msgs' \in Seq(Msg), lastRender' = <<>>, syncRender' = <<>>, syncTok' = 0
    PROVE  ChatTyped'
  <1>1. lastRender' \in Text
    BY Words
  <1>. QED  BY <1>1, Unsynced

LEMMA ClearedOrKept ==
    ASSUME TypesInv, CacheCleared \/ UNCHANGED <<nPos, rows, fed, fedN, poisoned>>,
           pc # "spec", pc' # "spec"
    PROVE  CacheTyped' /\ CacheSized' /\ poisoned' \in BOOLEAN
  <1>1. CASE CacheCleared
    <2>1. nPos' = 0 /\ fedN' = 0 /\ rows' = <<>> /\ fed' = <<>> /\ poisoned' = FALSE
      BY <1>1 DEF CacheCleared
    <2>2. rows' \in Seq(Ids) /\ fed' \in Ids /\ Len(rows') = 0 /\ Len(fed') = 0
      BY <2>1, Words
    <2>3. 0 <= NCtx
      BY Sizes
    <2>4. CacheTyped'
      BY <2>1, <2>2 DEF CacheTyped
    <2>5. CacheSized'
      BY <2>1, <2>2, <2>3 DEF CacheSized
    <2>. QED  BY <2>1, <2>4, <2>5
  <1>2. CASE UNCHANGED <<nPos, rows, fed, fedN, poisoned>>
    BY <1>2 DEF TypesInv, CacheTyped, CacheSized, FlagsTyped
  <1>. QED  BY <1>1, <1>2

LEMMA ResetTypes == ASSUME TypesInv, Reset PROVE TypesInv'
  <1>1. pc = "reset" /\ pc' \in {"warmup", "input"} /\ CacheCleared /\ interrupt' = FALSE
        /\ UNCHANGED <<hostLogits, devLogits, presampled, idlePc, idle, adopted>>
        /\ syncRender' = <<>> /\ syncTok' = 0
    BY DEF Reset, logits
  <1>2. idlePc' = "off"
    BY <1>1 DEF TypesInv, PlacesTyped
  <1>3. CacheTyped' /\ CacheSized' /\ poisoned' \in BOOLEAN
    BY <1>1, ClearedOrKept
  <1>4. FlagsTyped'
    BY <1>1, <1>3 DEF TypesInv, FlagsTyped
  <1>5. PlacesTyped'
    BY <1>1, <1>2 DEF PlacesTyped
  <1>6. <<Message("S", System)>> \in Seq(Msg) /\ <<>> \in Seq(Msg)
    BY Words, MessageType, OfOne
  <1>7. CASE Warmup
    <2>1. msgs' = <<Message("S", System)>> /\ pc' = "warmup"
      BY <1>7 DEF Reset
    <2>. DEFINE r == Render(msgs', FALSE)
    <2>2. r \in Text
      BY <1>6, <2>1, RenderType
    <2>3. Encode(r) \in Ids
      BY <2>2, EncodeType
    <2>4. PICK n \in 0..Len(Encode(r)) :
              /\ n > 0 => Len(Encode(r)) <= NCtx
              /\ lastRender' = IF n > 0 THEN r ELSE <<>>
              /\ turn' = [kind |-> "warmup", toks |-> SubSeq(Encode(r), 1, n), off |-> 0]
      BY <1>7 DEF Reset
    <2>. HIDE DEF r
    <2>. DEFINE t == SubSeq(Encode(r), 1, n)
    <2>5. t \in Ids /\ Len(t) = n
      BY <2>3, <2>4, Beginning DEF Ids
    <2>6. n \in Nat /\ (n > 0 => n <= NCtx)
      <3>1. Len(Encode(r)) \in Nat
        BY <2>3 DEF Ids
      <3>. QED  BY <2>4, <3>1, Sizes
    <2>7. turn' = [kind |-> "warmup", toks |-> t, off |-> 0]
      BY <2>4
    <2>. HIDE DEF t
    <2>8. ChatTyped'
      <3>1. msgs' \in Seq(Msg)
        BY <1>6, <2>1
      <3>2. lastRender' \in Text
        BY <2>2, <2>4, Words
      <3>. QED  BY <1>1, <3>1, <3>2, Unsynced
    <2>9. turn' \in WarmTurn /\ turn'.off = 0 /\ turn'.toks = t
      BY <2>5, <2>7 DEF WarmTurn
    <2>10. TurnTyped'
      BY <2>1, <2>9 DEF TurnTyped, Generating, Decoding
    <2>11. nPos' = 0 /\ rows' = <<>>
      BY <1>1 DEF CacheCleared
    <2>12. TurnSized'
      BY <2>1, <2>5, <2>6, <2>9, <2>11 DEF TurnSized, Generating, Decoding
    <2>. QED  BY <1>2, <1>3, <1>4, <1>5, <2>8, <2>10, <2>12, MainTypes
  <1>8. CASE ~Warmup
    <2>1. msgs' \in {<<>>, <<Message("S", System)>>} /\ lastRender' = <<>> /\ pc' = "input"
      BY <1>8 DEF Reset
    <2>2. ChatTyped'
      BY <1>1, <1>6, <2>1, Cleared
    <2>3. TurnTyped' /\ TurnSized'
      BY <2>1 DEF TurnTyped, TurnSized, Generating, Decoding
    <2>. QED  BY <1>2, <1>3, <1>4, <1>5, <2>2, <2>3, MainTypes
  <1>. QED  BY <1>7, <1>8

LEMMA WarmupEndsTypes == ASSUME TypesInv, WarmupEnds PROVE TypesInv'
  <1>1. pc = "warmup" /\ pc' = "input" /\ UNCHANGED <<hostLogits, devLogits, presampled, idle, adopted>>
    BY DEF WarmupEnds, logits
  <1>2. idlePc = "off" /\ (Driver # "server" => Driver = "interactive")
    BY <1>1, SessionAssumption DEF TypesInv, PlacesTyped
  <1>3. idlePc' \in {"off", "start"} /\ (Driver = "server" => idlePc' = "off")
    BY <1>2 DEF WarmupEnds, StartsIdle
  <1>4. CacheTyped' /\ CacheSized' /\ poisoned' \in BOOLEAN
    <2>1. CacheCleared \/ UNCHANGED <<nPos, rows, fed, fedN, poisoned>>
      BY DEF WarmupEnds, cache
    <2>. QED  BY <1>1, <2>1, ClearedOrKept
  <1>5. ChatTyped' /\ interrupt' \in BOOLEAN
    <2>1. CASE SessionCleared
      <3>1. <<>> \in Seq(Msg)
        OBVIOUS
      <3>2. msgs' = <<>> /\ lastRender' = <<>> /\ syncRender' = <<>> /\ syncTok' = 0 /\ interrupt' = FALSE
        BY <2>1 DEF SessionCleared
      <3>. QED  BY <3>1, <3>2, Cleared
    <2>2. CASE UNCHANGED <<chat, interrupt>>
      BY <2>2 DEF chat, TypesInv, ChatTyped, FlagsTyped
    <2>. QED  BY <2>1, <2>2 DEF WarmupEnds
  <1>6. FlagsTyped'
    BY <1>1, <1>4, <1>5 DEF TypesInv, FlagsTyped
  <1>7. PlacesTyped' /\ TurnTyped' /\ TurnSized'
    BY <1>1, <1>2, <1>3 DEF PlacesTyped, TurnTyped, TurnSized, Generating, Decoding
  <1>. QED  BY <1>3, <1>4, <1>5, <1>6, <1>7, MainTypes

LEMMA RewriteAssistantTypes == ASSUME TypesInv, RewriteAssistant PROVE TypesInv'
  <1>1. pc = "after" /\ pc' = "after" /\ msgs # <<>>
        /\ msgs' = [msgs EXCEPT ![Len(msgs)].text = <<>>]
        /\ lastRender' = Render(msgs', FALSE) /\ syncRender' = <<>> /\ syncTok' = 0
        /\ UNCHANGED <<nPos, rows, fed, fedN, poisoned, interrupt, hostLogits, devLogits, presampled,
                       turn, idlePc, idle, adopted>>
    BY DEF RewriteAssistant, cache, logits
  <1>2. msgs' \in Seq(Msg)
    <2>1. msgs \in Seq(Msg) /\ Len(msgs) \in 1..Len(msgs) /\ msgs[Len(msgs)] \in Msg
      BY <1>1 DEF TypesInv, ChatTyped
    <2>2. [msgs[Len(msgs)] EXCEPT !.text = <<>>] \in Msg
      BY <2>1, Words DEF Msg
    <2>. DEFINE m == [msgs[Len(msgs)] EXCEPT !.text = <<>>]
    <2>3. msgs' = [msgs EXCEPT ![Len(msgs)] = m]
      BY <1>1
    <2>. HIDE DEF m
    <2>4. m \in Msg
      BY <2>2 DEF m
    <2>. QED  BY <2>1, <2>3, <2>4, ExceptSeq
  <1>3. lastRender' \in Text
    BY <1>1, <1>2, RenderType
  <1>4. ChatTyped'
    BY <1>1, <1>2, <1>3, Unsynced
  <1>5. CacheTyped' /\ CacheSized' /\ FlagsTyped'
    BY <1>1 DEF TypesInv, CacheTyped, CacheSized, FlagsTyped
  <1>6. PlacesTyped' /\ TurnTyped' /\ TurnSized' /\ idlePc' # "feed"
    BY <1>1 DEF TypesInv, PlacesTyped, TurnTyped, TurnSized, Generating, Decoding
  <1>. QED  BY <1>4, <1>5, <1>6, MainTypes

\* A server's request.
LEMMA RequestIs ==
    ASSUME adopted \in Seq(Msg), NEW req \in ChatRequests
    PROVE  req \in Seq(Msg) /\ req # <<>> /\ Last(req) \in Msg
  <1>1. req \in Seq(Msg) /\ req # <<>>
    <2>1. \A text \in UserTexts : Message("U", text) \in Msg
      BY Words, MessageType
    <2>2. ASSUME NEW text \in UserTexts, req = <<Message("U", text)>> PROVE req \in Seq(Msg) /\ req # <<>>
      BY <2>1, <2>2, OfOne
    <2>3. ASSUME NEW text \in UserTexts, req = Append(adopted, Message("U", text))
          PROVE  req \in Seq(Msg) /\ req # <<>>
      BY <2>1, <2>3, AppendProperties
    <2>4. ASSUME adopted # None, req = adopted PROVE req \in Seq(Msg) /\ req # <<>>
      BY <2>4 DEF None
    <2>. QED  BY <2>2, <2>3, <2>4 DEF ChatRequests
  <1>2. Len(req) \in 1..Len(req)
    BY <1>1
  <1>. QED  BY <1>1, <1>2 DEF Last

LEMMA BehindType ==
    ASSUME NEW ms \in Seq(Msg), NEW req \in Seq(Msg)
    PROVE  Behind(ms, req) \in Seq(Msg)
  <1>. DEFINE t == SubSeq(req, Len(ms) + 1, Len(req) - 1)
  <1>1. t \in Seq(Msg)
    <2>1. \A i \in Len(ms) + 1..Len(req) - 1 : req[i] \in Msg
      OBVIOUS
    <2>2. Len(ms) + 1 \in Int /\ Len(req) - 1 \in Int
      OBVIOUS
    <2>. QED  BY <2>1, <2>2, SubSeqProperties
  <1>2. Behind(ms, req) = ms \o t
    BY DEF Behind
  <1>. HIDE DEF t
  <1>. QED  BY <1>1, <1>2, ConcatProperties

LEMMA ChatRequestTypes == ASSUME TypesInv, NEW req \in ChatRequests, ChatRequest(req) PROVE TypesInv'
  <1>1. pc = "input" /\ pc' = "turn" /\ Driver = "server" /\ interrupt' = FALSE
        /\ UNCHANGED <<hostLogits, devLogits, presampled, idlePc, idle, adopted>>
        /\ turn' = [kind |-> "chat", msg |-> Last(req), req |-> req]
    BY DEF ChatRequest, logits
  <1>2. idlePc' = "off"
    BY <1>1 DEF TypesInv, PlacesTyped
  <1>3. req \in Seq(Msg) /\ Last(req) \in Msg
    BY RequestIs DEF TypesInv, FlagsTyped
  <1>4. CacheTyped' /\ CacheSized' /\ poisoned' \in BOOLEAN
    <2>1. CacheCleared \/ UNCHANGED <<nPos, rows, fed, fedN, poisoned>>
      BY DEF ChatRequest, cache
    <2>. QED  BY <1>1, <2>1, ClearedOrKept
  <1>5. ChatTyped'
    <2>1. <<>> \in Seq(Msg) /\ msgs \in Seq(Msg)
      BY DEF TypesInv, ChatTyped
    <2>2. msgs' \in {Behind(msgs, req), Behind(<<>>, req)}
      BY DEF ChatRequest
    <2>3. msgs' \in Seq(Msg)
      BY <1>3, <2>1, <2>2, BehindType
    <2>4. \/ UNCHANGED <<lastRender, syncRender, syncTok>>
          \/ lastRender' = <<>> /\ syncRender' = <<>> /\ syncTok' = 0
      BY DEF ChatRequest
    <2>5. CASE UNCHANGED <<lastRender, syncRender, syncTok>>
      BY <2>3, <2>5 DEF TypesInv, ChatTyped
    <2>6. CASE lastRender' = <<>> /\ syncRender' = <<>> /\ syncTok' = 0
      BY <2>3, <2>6, Cleared
    <2>. QED  BY <2>4, <2>5, <2>6
  <1>6. FlagsTyped'
    BY <1>1, <1>4 DEF TypesInv, FlagsTyped
  <1>7. turn' \in AskedTurn
    BY <1>1, <1>3 DEF AskedTurn
  <1>8. PlacesTyped' /\ TurnTyped' /\ TurnSized'
    BY <1>1, <1>2, <1>7 DEF PlacesTyped, TurnTyped, TurnSized, Generating, Decoding
  <1>. QED  BY <1>2, <1>4, <1>5, <1>6, <1>8, MainTypes

LEMMA PromptType ==
    ASSUME CacheTyped, fedN <= Len(fed), NEW prompt \in Prompts
    PROVE  prompt \in Text
  <1>1. CASE prompt \in UserTexts
    BY <1>1, Words
  <1>2. CASE prompt \notin UserTexts
    <2>1. prompt = Tail(Spell(Fed)) /\ fedN > 0 /\ fed[1] = Bos
      BY <1>2 DEF Prompts
    <2>2. Fed \in Seq(Text) /\ Len(Fed) = fedN /\ Fed[1] = fed[1]
      BY <2>1, Beginning DEF Fed, CacheTyped, Ids
    <2>3. Fed # <<>> /\ Fed \in Seq(Seq(Char))
      BY <2>1, <2>2 DEF Text
    <2>. DEFINE z == FlattenSeq(Tail(Fed))
    <2>4. Spell(Fed) = Bos \o z /\ z \in Seq(Char)
      BY <2>1, <2>2, <2>3, FlattenHead DEF Spell
    <2>5. Bos \in Seq(Char) /\ Len(Bos) = 1
      BY Words DEF Bos, Text
    <2>. HIDE DEF z
    <2>6. Bos \o z \in Seq(Char) /\ Len(Bos \o z) = Len(Bos) + Len(z) /\ Len(z) \in Nat
      BY <2>4, <2>5, ConcatProperties
    <2>7. Spell(Fed) \in Seq(Char) /\ Spell(Fed) # <<>>
      BY <2>4, <2>5, <2>6
    <2>. QED  BY <2>1, <2>7, HeadTailProperties DEF Text
  <1>. QED  BY <1>1, <1>2

LEMMA CompletionRequestTypes ==
    ASSUME TypesInv, NEW prompt \in Prompts, CompletionRequest(prompt) PROVE TypesInv'
  <1>1. pc = "input" /\ pc' = "turn" /\ Driver = "server" /\ Prepared(CommonLen(Fed, <<Bos>> \o Encode(prompt)) > 0)
        /\ UNCHANGED <<hostLogits, devLogits, presampled, idlePc, idle, adopted>>
        /\ turn' = [kind |-> "completion", prompt |-> prompt]
    BY DEF CompletionRequest, logits
  <1>2. idlePc' = "off"
    BY <1>1 DEF TypesInv, PlacesTyped
  <1>3. prompt \in Text
    BY PromptType DEF TypesInv, CacheSized
  <1>4. CacheTyped' /\ CacheSized' /\ poisoned' \in BOOLEAN
    <2>1. CacheCleared \/ UNCHANGED <<nPos, rows, fed, fedN, poisoned>>
      BY <1>1 DEF Prepared, cache
    <2>. QED  BY <1>1, <2>1, ClearedOrKept
  <1>5. ChatTyped' /\ interrupt' = FALSE
    <2>1. <<>> \in Seq(Msg)
      OBVIOUS
    <2>2. interrupt' = FALSE
          /\ \/ UNCHANGED <<msgs, lastRender, syncRender, syncTok>>
             \/ msgs' = <<>> /\ lastRender' = <<>> /\ syncRender' = <<>> /\ syncTok' = 0
      BY <1>1 DEF Prepared, SessionCleared
    <2>3. CASE UNCHANGED <<msgs, lastRender, syncRender, syncTok>>
      BY <2>2, <2>3 DEF TypesInv, ChatTyped
    <2>4. CASE msgs' = <<>> /\ lastRender' = <<>> /\ syncRender' = <<>> /\ syncTok' = 0
      BY <2>1, <2>2, <2>4, Cleared
    <2>. QED  BY <2>2, <2>3, <2>4
  <1>6. FlagsTyped'
    BY <1>1, <1>4, <1>5 DEF TypesInv, FlagsTyped
  <1>7. turn' \in PromptTurn
    BY <1>1, <1>3 DEF PromptTurn
  <1>8. PlacesTyped' /\ TurnTyped' /\ TurnSized'
    BY <1>1, <1>2, <1>7 DEF PlacesTyped, TurnTyped, TurnSized, Generating, Decoding
  <1>. QED  BY <1>2, <1>4, <1>5, <1>6, <1>8, MainTypes

LEMMA RecordTurnTypes == ASSUME TypesInv, RecordTurn PROVE TypesInv'
  <1>1. pc = "record" /\ pc' = "after" /\ Trimmed(nPos)
        /\ turn' = [kind |-> turn.kind, rc |-> turn.rc]
        /\ UNCHANGED <<nPos, fed, fedN, syncRender, syncTok, poisoned, interrupt, hostLogits, devLogits,
                       presampled, idlePc, idle, adopted>>
    BY DEF RecordTurn, logits
  <1>2. turn \in FeedTurn /\ idlePc = "off"
    BY <1>1 DEF TypesInv, TurnTyped, PlacesTyped, Generating, Decoding
  <1>3. CacheTyped' /\ CacheSized'
    <2>1. rows \in Seq(Ids) /\ nPos \in 0..Len(rows) /\ Len(rows) <= NCtx
      BY DEF TypesInv, CacheTyped, CacheSized
    <2>2. rows' \in Seq(Ids) /\ Len(rows') = nPos
      BY <1>1, <2>1, Beginning DEF Trimmed
    <2>3. nPos <= NCtx
      BY <2>1, Sizes
    <2>. QED  BY <1>1, <2>2, <2>3 DEF TypesInv, CacheTyped, CacheSized
  <1>4. ChatTyped'
    <2>. DEFINE text == IF turn.unfed /\ Len(turn.out) > turn.cut
                        THEN SubSeq(turn.out, 1, turn.cut) ELSE turn.out
                ms == Append(msgs, Message("A", Shown(text)))
    <2>1. turn.out \in Text /\ turn.cut \in Nat /\ turn.prev \in Text
      BY <1>2 DEF FeedTurn
    <2>2. text \in Text
      <3>1. CASE turn.unfed /\ Len(turn.out) > turn.cut
        <4>1. turn.cut \in 0..Len(turn.out)
          BY <2>1, <3>1
        <4>. QED  BY <2>1, <3>1, <4>1, Beginning DEF Text
      <3>2. CASE ~(turn.unfed /\ Len(turn.out) > turn.cut)
        BY <2>1, <3>2
      <3>. QED  BY <3>1, <3>2
    <2>3. \/ UNCHANGED <<msgs, lastRender>>
          \/ lastRender' = turn.prev /\ UNCHANGED msgs
          \/ msgs' = ms /\ lastRender' = Render(ms, FALSE)
      BY DEF RecordTurn
    <2>. HIDE DEF text
    <2>4. Message("A", Shown(text)) \in Msg
      BY <2>2, ShownType, MessageType
    <2>5. ms \in Seq(Msg)
      BY <2>4, AppendProperties DEF TypesInv, ChatTyped
    <2>. HIDE DEF ms
    <2>6. Render(ms, FALSE) \in Text
      BY <2>5, RenderType
    <2>. QED  BY <1>1, <2>1, <2>3, <2>5, <2>6 DEF TypesInv, ChatTyped
  <1>5. turn' \in OverTurn
    BY <1>1, <1>2 DEF OverTurn, FeedTurn
  <1>6. FlagsTyped' /\ PlacesTyped'
    BY <1>1, <1>2 DEF TypesInv, FlagsTyped, PlacesTyped
  <1>7. TurnTyped' /\ TurnSized' /\ idlePc' # "feed"
    BY <1>1, <1>2, <1>5 DEF TurnTyped, TurnSized, Generating, Decoding
  <1>. QED  BY <1>3, <1>4, <1>6, <1>7, MainTypes

-----------------------------------------------------------------------------
(***************************************************************************)
(* Prefills of warmups and turns.                                          *)
(***************************************************************************)
LEMMA ChunkSizes ==
    ASSUME TypesInv, NEW b, Batch(b), FeedChunk(b), nPos + Len(b.toks) <= NCtx,
           pc # "spec", pc' # "spec"
    PROVE  /\ CacheTyped' /\ CacheSized' /\ hostLogits' \in Ids /\ devLogits' \in Ids
           /\ b.off < Len(b.toks) /\ Len(NextChunk(b)) \in 1..Len(b.toks) - b.off
           /\ LastChunk(b) <=> b.off + Len(NextChunk(b)) = Len(b.toks)
           /\ ~LastChunk(b) => /\ UNCHANGED <<nPos, fed, fedN>> /\ Len(rows) <= Len(rows')
                               /\ nPos + (b.off + Len(NextChunk(b))) <= Len(rows')
  <1>. DEFINE n == Len(NextChunk(b))
  <1>1. /\ b.off \in Nat /\ Len(b.toks) \in Nat /\ nPos = fedN /\ fedN \in Nat /\ b.off <= Len(b.toks)
        /\ nPos + b.off <= Len(rows) /\ Len(rows) \in Nat /\ Len(fed) \in Nat
    BY DEF Batch, CacheTyped, Ids
  <1>2. /\ Len(rows) <= NCtx /\ Len(fed) <= NCtx /\ fedN <= Len(fed) /\ nPos <= Len(rows)
        /\ hostLogits \in Ids /\ devLogits \in Ids
        /\ fed \in Ids /\ nPos \in Nat
    BY DEF TypesInv, CacheSized, FlagsTyped, CacheTyped
  <1>3. /\ b.off < Len(b.toks) /\ n \in 1..Len(b.toks) - b.off
        /\ LastChunk(b) <=> b.off + n = Len(b.toks)
        /\ Rewrites(nPos + b.off, n)
        /\ ~LastChunk(b) => UNCHANGED <<nPos, fed, fedN, hostLogits, devLogits>>
        /\ LastChunk(b) => /\ Takes(b.toks, Len(b.toks))
                           /\ hostLogits' \in Ids /\ devLogits' = hostLogits'
    BY ChunkIs
  <1>. HIDE DEF n
  <1>4. /\ rows' \in Seq(Ids)
        /\ Len(rows') = IF Len(rows) <= nPos + b.off + n THEN nPos + b.off + n ELSE Len(rows)
    BY <1>3 DEF Rewrites
  <1>5. Len(rows') <= NCtx /\ Len(rows) <= Len(rows') /\ nPos + (b.off + n) <= Len(rows')
        /\ Len(rows') \in Nat
    <2>. DEFINE l == Len(rows)
                m == nPos + b.off + n
                k == Len(rows')
    <2>1. nPos \in Nat /\ b.off \in Nat /\ n \in Nat /\ NCtx \in Nat /\ Len(b.toks) \in Nat
          /\ n <= Len(b.toks) - b.off /\ nPos + Len(b.toks) <= NCtx
      BY <1>1, <1>2, <1>3, Sizes
    <2>2. m \in Nat /\ m <= NCtx /\ nPos + (b.off + n) = m
      BY ONLY <2>1
    <2>3. l \in Nat /\ l <= NCtx /\ k = IF l <= m THEN m ELSE l
      BY <1>1, <1>2, <1>4
    <2>. HIDE DEF l, m, k
    <2>4. k <= NCtx /\ l <= k /\ m <= k /\ k \in Nat
      BY ONLY <2>1, <2>2, <2>3
    <2>. QED  BY ONLY <2>2, <2>4 DEF l, k
  <1>6. CASE ~LastChunk(b)
    <2>1. UNCHANGED <<nPos, fed, fedN, hostLogits, devLogits>>
      BY <1>3, <1>6
    <2>2. CacheTyped'
      BY <1>1, <1>2, <1>4, <2>1 DEF CacheTyped
    <2>3. CacheSized'
      BY <1>1, <1>2, <1>5, <2>1 DEF CacheSized
    <2>. QED  BY <1>2, <1>3, <1>5, <2>1, <2>2, <2>3 DEF n
  <1>7. CASE LastChunk(b)
    <2>1. /\ nPos' = fedN + Len(b.toks) /\ fedN' = fedN + Len(b.toks) /\ fed' \in Ids
          /\ Len(fed') = IF Len(fed) <= fedN + Len(b.toks) THEN fedN + Len(b.toks) ELSE Len(fed)
      BY <1>3, <1>7 DEF Takes
    <2>2. CacheTyped'
      BY <1>1, <1>4, <2>1 DEF CacheTyped
    <2>3. fedN' <= Len(fed') /\ Len(fed') <= NCtx
      BY <1>1, <1>2, <2>1, Sizes
    <2>4. nPos' <= Len(rows')
      BY <1>1, <1>3, <1>5, <1>7, <2>1
    <2>5. CacheSized'
      BY <1>5, <2>1, <2>3, <2>4 DEF CacheSized
    <2>. QED  BY <1>3, <1>7, <2>2, <2>5 DEF n
  <1>. QED  BY <1>6, <1>7

LEMMA TornSizes ==
    ASSUME TypesInv, NEW b, Batch(b), FeedInterrupted(b) \/ FeedFails(b), Counted(b, b.off),
           nPos + Len(b.toks) <= NCtx, pc # "spec", pc' # "spec"
    PROVE  CacheTyped' /\ CacheSized' /\ b.off < Len(b.toks)
  <1>1. /\ b.off \in Nat /\ Len(b.toks) \in Nat /\ nPos = fedN /\ fedN \in Nat /\ b.off <= Len(b.toks)
        /\ nPos + b.off <= Len(rows) /\ Len(rows) \in Nat /\ Len(fed) \in Nat
    BY DEF Batch, CacheTyped, Ids
  <1>2. /\ Len(rows) <= NCtx /\ Len(fed) <= NCtx /\ fedN <= Len(fed) /\ nPos <= Len(rows)
        /\ fed \in Ids /\ nPos \in Nat
    BY DEF TypesInv, CacheSized, CacheTyped
  <1>3. PICK m \in 0..Len(b.toks) - b.off : b.off < Len(b.toks) /\ Rewrites(nPos + b.off, m)
    BY TornChunkIs
  <1>4. /\ rows' \in Seq(Ids)
        /\ Len(rows') = IF Len(rows) <= nPos + b.off + m THEN nPos + b.off + m ELSE Len(rows)
    BY <1>3 DEF Rewrites
  <1>5. Len(rows') <= NCtx /\ nPos + b.off <= Len(rows') /\ Len(rows') \in Nat
    BY <1>1, <1>2, <1>3, <1>4, Sizes
  <1>6. Takes(b.toks, b.off)
    <2>1. b.off \in 0..Len(b.toks)
      BY <1>1
    <2>. QED  BY <2>1, CountedIs
  <1>7. /\ nPos' = fedN + b.off /\ fedN' = fedN + b.off /\ fed' \in Ids
        /\ Len(fed') = IF Len(fed) <= fedN + b.off THEN fedN + b.off ELSE Len(fed)
    BY <1>6 DEF Takes
  <1>8. CacheTyped'
    BY <1>1, <1>4, <1>7 DEF CacheTyped
  <1>9. fedN' <= Len(fed') /\ Len(fed') <= NCtx /\ nPos' <= Len(rows')
    BY <1>1, <1>2, <1>5, <1>7, Sizes
  <1>10. CacheSized'
    BY <1>5, <1>7, <1>9 DEF CacheSized
  <1>. QED  BY <1>3, <1>8, <1>10

\* A prefill's locals are those of a batch.
LEMMA TurnBatch ==
    ASSUME TypesInv, pc \in {"warmup", "prefill"}, turn.off < Len(turn.toks)
    PROVE  Batch(turn) /\ nPos + Len(turn.toks) <= NCtx
  <1>1. turn \in WarmTurn \/ turn \in FeedTurn
    BY DEF TypesInv, TurnTyped, Generating
  <1>2. turn.toks \in Ids /\ turn.off \in Nat
    BY <1>1 DEF WarmTurn, FeedTurn
  <1>3. nPos + Len(turn.toks) <= NCtx /\ nPos + turn.off <= Len(rows) /\ turn.off <= Len(turn.toks)
    BY DEF TypesInv, TurnSized
  <1>4. CacheTyped /\ nPos = fedN /\ fedN <= Len(fed)
    BY DEF TypesInv, CacheSized, CacheTyped
  <1>. QED  BY <1>2, <1>3, <1>4 DEF Batch

LEMMA WarmupChunkTypes == ASSUME TypesInv, WarmupChunk PROVE TypesInv'
  <1>1. /\ pc = "warmup" /\ pc' = "warmup" /\ FeedChunk(turn) /\ turn.off < Len(turn.toks)
        /\ turn' = [turn EXCEPT !.off = @ + Len(NextChunk(turn))]
        /\ UNCHANGED <<syncRender, syncTok, msgs, lastRender, poisoned, interrupt, presampled, idlePc, idle, adopted>>
    BY DEF WarmupChunk, chat
  <1>2. Batch(turn) /\ nPos + Len(turn.toks) <= NCtx
    BY <1>1, TurnBatch
  <1>. DEFINE n == Len(NextChunk(turn))
  <1>3. /\ CacheTyped' /\ CacheSized' /\ hostLogits' \in Ids /\ devLogits' \in Ids
        /\ n \in 1..Len(turn.toks) - turn.off
        /\ LastChunk(turn) <=> turn.off + n = Len(turn.toks)
        /\ ~LastChunk(turn) => nPos' = nPos /\ nPos + (turn.off + n) <= Len(rows')
    BY <1>1, <1>2, ChunkSizes
  <1>4. turn \in WarmTurn /\ idlePc = "off"
    BY <1>1 DEF TypesInv, TurnTyped, PlacesTyped
  <1>. HIDE DEF n
  <1>5. turn' = [turn EXCEPT !.off = @ + n]
    BY <1>1 DEF n
  <1>6. turn.toks \in Ids /\ turn.off \in Nat /\ Len(turn.toks) \in Nat
    BY <1>4 DEF WarmTurn, Ids
  <1>7. turn' \in WarmTurn /\ turn'.off = turn.off + n /\ turn'.toks = turn.toks
    BY <1>3, <1>4, <1>5, <1>6 DEF WarmTurn
  <1>8. TurnTyped'
    BY <1>1, <1>7 DEF TurnTyped, Generating, Decoding
  <1>9. TurnSized'
    <2>1. turn'.off <= Len(turn'.toks)
      BY <1>3, <1>6, <1>7
    <2>2. turn'.off < Len(turn'.toks) => nPos' + Len(turn'.toks) <= NCtx /\ nPos' + turn'.off <= Len(rows')
      BY <1>2, <1>3, <1>6, <1>7
    <2>. QED  BY <1>1, <2>1, <2>2 DEF TurnSized, Generating, Decoding
  <1>10. ChatTyped' /\ FlagsTyped' /\ PlacesTyped'
    BY <1>1, <1>3 DEF TypesInv, ChatTyped, FlagsTyped, PlacesTyped
  <1>. QED  BY <1>1, <1>3, <1>4, <1>8, <1>9, <1>10, MainTypes

LEMMA WarmupFailsTypes == ASSUME TypesInv, WarmupFails PROVE TypesInv'
  <1>1. /\ pc = "warmup" /\ pc' = "warmup" /\ (FeedInterrupted(turn) \/ FeedFails(turn))
        /\ Counted(turn, turn.off) /\ poisoned' = TRUE
        /\ turn' = [turn EXCEPT !.off = Len(turn.toks)]
        /\ UNCHANGED <<syncRender, syncTok, msgs, lastRender, interrupt, hostLogits, devLogits, presampled,
                       idlePc, idle, adopted>>
    BY DEF WarmupFails, chat, logits
  <1>2. turn.off < Len(turn.toks)
    BY <1>1 DEF FeedInterrupted, FeedFails
  <1>3. Batch(turn) /\ nPos + Len(turn.toks) <= NCtx
    BY <1>1, <1>2, TurnBatch
  <1>4. CacheTyped' /\ CacheSized'
    BY <1>1, <1>3, TornSizes
  <1>5. turn \in WarmTurn /\ idlePc = "off"
    BY <1>1 DEF TypesInv, TurnTyped, PlacesTyped
  <1>6. Len(turn.toks) \in Nat
    BY <1>5 DEF WarmTurn, Ids
  <1>7. turn' \in WarmTurn /\ turn'.off = Len(turn'.toks)
    BY <1>1, <1>5, <1>6 DEF WarmTurn
  <1>8. TurnTyped' /\ TurnSized'
    BY <1>1, <1>6, <1>7 DEF TurnTyped, TurnSized, Generating, Decoding, WarmTurn, Ids
  <1>9. ChatTyped' /\ FlagsTyped' /\ PlacesTyped'
    BY <1>1 DEF TypesInv, ChatTyped, FlagsTyped, PlacesTyped
  <1>. QED  BY <1>1, <1>4, <1>5, <1>8, <1>9, MainTypes

LEMMA PrefillChunkTypes == ASSUME TypesInv, PrefillChunk PROVE TypesInv'
  <1>1. /\ pc = "prefill" /\ pc' = (IF LastChunk(turn) THEN "sample" ELSE "prefill")
        /\ FeedChunk(turn) /\ turn.off < Len(turn.toks)
        /\ turn' = [turn EXCEPT !.off = @ + Len(NextChunk(turn))]
        /\ UNCHANGED <<syncRender, syncTok, msgs, lastRender, poisoned, interrupt, presampled, idlePc, idle, adopted>>
    BY DEF PrefillChunk, FeedChunk, chat
  <1>2. Batch(turn) /\ nPos + Len(turn.toks) <= NCtx
    BY <1>1, TurnBatch
  <1>. DEFINE n == Len(NextChunk(turn))
  <1>3. /\ CacheTyped' /\ CacheSized' /\ hostLogits' \in Ids /\ devLogits' \in Ids
        /\ n \in 1..Len(turn.toks) - turn.off
        /\ LastChunk(turn) <=> turn.off + n = Len(turn.toks)
        /\ ~LastChunk(turn) => nPos' = nPos /\ fedN' = fedN /\ nPos + (turn.off + n) <= Len(rows')
    BY <1>1, <1>2, ChunkSizes
  <1>4. turn \in FeedTurn /\ idlePc = "off"
    BY <1>1 DEF TypesInv, TurnTyped, PlacesTyped, Generating
  <1>. HIDE DEF n
  <1>5. turn' = [turn EXCEPT !.off = turn.off + n]
    BY <1>1 DEF n
  <1>6. turn.toks \in Ids /\ turn.off \in Nat /\ Len(turn.toks) \in Nat /\ turn.off + n \in Nat
    BY <1>3, <1>4 DEF FeedTurn, Ids
  <1>7. turn' \in FeedTurn /\ turn'.off = turn.off + n /\ turn'.toks = turn.toks /\ turn'.hasFed = turn.hasFed
    BY <1>4, <1>5, <1>6, SetOff DEF FeedTurn
  <1>8. TurnTyped'
    BY <1>1, <1>7 DEF TurnTyped, Generating, Decoding
  <1>9. TurnSized'
    <2>1. turn'.off <= Len(turn'.toks)
      BY <1>3, <1>6, <1>7
    <2>2. pc' = "prefill" => nPos' + Len(turn'.toks) <= NCtx /\ nPos' + turn'.off <= Len(rows')
      BY <1>1, <1>2, <1>3, <1>6, <1>7
    <2>3. turn'.hasFed => fedN' > 0
      <3>1. turn.hasFed => fedN > 0
        BY <1>1 DEF TypesInv, TurnSized, Generating
      <3>2. fedN' >= fedN
        <4>1. LastChunk(turn) => fedN' = FedSynced + Len(turn.toks)
          BY <1>1 DEF FeedChunk, Counted
        <4>2. FedSynced = fedN /\ fedN \in Nat
          BY <1>2, FedSyncedIs DEF Batch, CacheTyped
        <4>. QED  BY <1>3, <1>6, <4>1, <4>2
      <3>. QED  BY <1>2, <1>3, <1>7, <3>1, <3>2 DEF Batch, CacheTyped
    <2>. QED  BY <1>1, <2>1, <2>2, <2>3 DEF TurnSized
  <1>10. ChatTyped' /\ FlagsTyped' /\ PlacesTyped'
    BY <1>1, <1>3, <1>4 DEF TypesInv, ChatTyped, FlagsTyped, PlacesTyped, Generating, Decoding
  <1>. QED  BY <1>1, <1>3, <1>4, <1>8, <1>9, <1>10, MainTypes

LEMMA PrefillStopsTypes == ASSUME TypesInv, PrefillStops PROVE TypesInv'
  <1>1. /\ pc = "prefill" /\ pc' = "record" /\ (FeedInterrupted(turn) \/ FeedFails(turn))
        /\ Counted(turn, turn.off) /\ poisoned' = TRUE
        /\ turn' \in {turn, [turn EXCEPT !.rc = Error]}
        /\ UNCHANGED <<syncRender, syncTok, msgs, lastRender, interrupt, hostLogits, devLogits, presampled,
                       idlePc, idle, adopted>>
    BY DEF PrefillStops, chat, logits
  <1>2. turn.off < Len(turn.toks)
    BY <1>1 DEF FeedInterrupted, FeedFails
  <1>3. Batch(turn) /\ nPos + Len(turn.toks) <= NCtx
    BY <1>1, <1>2, TurnBatch
  <1>4. CacheTyped' /\ CacheSized'
    BY <1>1, <1>3, TornSizes
  <1>5. turn \in FeedTurn /\ idlePc = "off"
    BY <1>1 DEF TypesInv, TurnTyped, PlacesTyped, Generating
  <1>6. turn' \in FeedTurn
    BY <1>1, <1>5, SetRc
  <1>7. TurnTyped' /\ TurnSized'
    BY <1>1, <1>6 DEF TurnTyped, TurnSized, Generating, Decoding
  <1>8. ChatTyped' /\ FlagsTyped' /\ PlacesTyped'
    BY <1>1, <1>5 DEF TypesInv, ChatTyped, FlagsTyped, PlacesTyped
  <1>. QED  BY <1>1, <1>4, <1>5, <1>7, <1>8, MainTypes

-----------------------------------------------------------------------------
(***************************************************************************)
(* A turn begins.                                                          *)
(***************************************************************************)
LEMMA SuffixType ==
    ASSUME NEW render \in Text, NEW k \in Nat
    PROVE  SubSeq(render, k + 1, Len(render)) \in Text
  <1>1. \A i \in k + 1..Len(render) : render[i] \in Char
    BY DEF Text
  <1>2. k + 1 \in Int /\ Len(render) \in Int
    BY DEF Text
  <1>. QED  BY <1>1, <1>2, SubSeqProperties DEF Text

LEMMA TailEncodeType ==
    ASSUME TypesInv, pc # "spec", NEW render \in Text
    PROVE  TailEncode(render) \in Ids
  <1>. DEFINE s == SubSeq(render, Len(syncRender) + 1, Len(render))
  <1>1. s \in Text
    <2>1. Len(syncRender) \in Nat
      BY DEF TypesInv, ChatTyped, Text
    <2>. QED  BY <2>1, SuffixType
  <1>2. TailEncode(render) = IF SyncOk(render) /\ CleanBoundary(s)
                             THEN SubSeq(fed, 1, syncTok) \o Encode(s) ELSE Encode(render)
    BY DEF TailEncode
  <1>. HIDE DEF s
  <1>3. Encode(s) \in Ids /\ Encode(render) \in Ids
    BY <1>1, EncodeType
  <1>4. ASSUME SyncOk(render) PROVE SubSeq(fed, 1, syncTok) \o Encode(s) \in Ids
    <2>1. /\ fedN \in Nat /\ nPos \in Nat /\ fedN <= nPos /\ fedN <= Len(fed) /\ fed \in Seq(Text)
          /\ syncTok \in Nat
      BY DEF TypesInv, CacheTyped, CacheSized, ChatTyped, Ids
    <2>2. syncTok <= FedSynced /\ FedSynced = fedN
      BY <1>4, <2>1, FedSyncedIs DEF SyncOk
    <2>3. syncTok \in 0..Len(fed)
      BY <2>1, <2>2
    <2>4. SubSeq(fed, 1, syncTok) \in Seq(Text)
      BY <2>1, <2>3, Beginning
    <2>5. Encode(s) \in Seq(Text)
      BY <1>3 DEF Ids
    <2>. QED  BY <2>4, <2>5, ConcatProperties DEF Ids
  <1>. QED  BY <1>2, <1>3, <1>4

LEMMA RewoundIs ==
    ASSUME TypesInv, pc # "spec", NEW ids \in Ids, Rewound(ids)
    PROVE  /\ Reuse(ids) \in 0..fedN /\ Reuse(ids) <= Len(ids) /\ nPos = fedN
           /\ SubSeq(fed, 1, Reuse(ids)) = SubSeq(ids, 1, Reuse(ids))
           /\ ids # <<>> /\ Reuse(ids) = Len(ids) => Reuse(ids) = fedN
           /\ nPos' = Reuse(ids) /\ fedN' = Reuse(ids)
           /\ rows' = SubSeq(rows, 1, Reuse(ids)) /\ rows' \in Seq(Ids) /\ Len(rows') = Reuse(ids)
           /\ fed' = SubSeq(fed, 1, Reuse(ids)) /\ fed' \in Ids /\ Len(fed') = Reuse(ids)
  <1>. DEFINE r == Reuse(ids)
  <1>1. /\ fedN \in Nat /\ nPos \in Nat /\ nPos = fedN /\ fedN <= Len(fed) /\ fed \in Ids
        /\ rows \in Seq(Ids) /\ nPos <= Len(rows)
    BY DEF TypesInv, CacheTyped, CacheSized
  <1>2. FedSynced = fedN
    BY <1>1, FedSyncedIs
  <1>3. /\ r \in 0..fedN /\ r <= Len(ids) /\ SubSeq(fed, 1, r) = SubSeq(ids, 1, r)
        /\ ids # <<>> /\ r = Len(ids) => r = fedN
    BY <1>1, <1>2, ReuseIs
  <1>. HIDE DEF r
  <1>4. Min({r, FedSynced}) = r
    BY <1>1, <1>2, <1>3, MinOfTwo
  <1>5. nPos' = r /\ fedN' = r /\ rows' = SubSeq(rows, 1, r) /\ fed' = SubSeq(fed, 1, r)
    BY <1>4 DEF Rewound, r
  <1>6. fed \in Seq(Text) /\ r \in 0..Len(fed) /\ r \in 0..Len(rows)
    BY <1>1, <1>3 DEF Ids
  <1>7. SubSeq(fed, 1, r) \in Seq(Text) /\ Len(SubSeq(fed, 1, r)) = r
    BY <1>6, Beginning
  <1>8. SubSeq(rows, 1, r) \in Seq(Ids) /\ Len(SubSeq(rows, 1, r)) = r
    BY <1>1, <1>6, Beginning
  <1>. QED  BY <1>1, <1>3, <1>5, <1>7, <1>8 DEF r, Ids

LEMMA FeedingIs ==
    ASSUME NEW ids \in Ids, NEW kind \in {"chat", "completion"}, NEW prev \in Text,
           NEW req \in Seq(Msg) \cup Text, Reuse(ids) \in Nat, Reuse(ids) <= Len(ids),
           Feeding(ids, kind, prev, req)
    PROVE  /\ pc' = "prefill" /\ turn' \in FeedTurn /\ turn'.kind = kind /\ turn'.off = 0
           /\ turn'.toks = SubSeq(ids, Reuse(ids) + 1, Len(ids)) /\ turn'.prev = prev
           /\ Len(turn'.toks) = Len(ids) - Reuse(ids) /\ turn'.mode \in Modes
           /\ turn'.hasFed = FALSE /\ turn'.gen = 0 /\ turn'.tok = None /\ turn'.req = req
  <1>. DEFINE t == SubSeq(ids, Reuse(ids) + 1, Len(ids))
  <1>1. t \in Ids /\ Len(t) = Len(ids) - Reuse(ids)
    <2>1. ids \in Seq(Text) /\ Reuse(ids) \in 0..Len(ids)
      BY DEF Ids
    <2>. QED  BY <2>1, Splits DEF Ids
  <1>2. PICK mode \in Modes :
            turn' = [kind |-> kind, toks |-> t, off |-> 0,
                     prev |-> prev, out |-> <<>>, cut |-> 0, left |-> MaxTokens, gen |-> 0,
                     mode |-> mode, hasFed |-> FALSE, unfed |-> FALSE, tok |-> None,
                     from |-> None, rc |-> Ok, req |-> req]
    BY DEF Feeding
  <1>3. pc' = "prefill"
    BY DEF Feeding
  <1>. HIDE DEF t
  <1>4. mode \in {"host", "device", "pipelined"}
    BY <1>2, SessionAssumption
  <1>5. None \in Text /\ None \in Ids /\ <<>> \in Text /\ MaxTokens \in Int
    BY Words, Sizes DEF None
  <1>6. turn' \in FeedTurn
    BY <1>1, <1>2, <1>4, <1>5 DEF FeedTurn
  <1>. QED  BY <1>1, <1>2, <1>3, <1>6 DEF t

LEMMA BegunTypes ==
    ASSUME TypesInv, pc = "turn", NEW ids \in Ids, Len(ids) <= NCtx,
           NEW kind \in {"chat", "completion"}, NEW prev \in Text, NEW req \in Seq(Msg) \cup Text,
           Rewound(ids), Feeding(ids, kind, prev, req), ChatTyped', FlagsTyped', idlePc' = idlePc
    PROVE  TypesInv'
  <1>1. /\ Reuse(ids) \in 0..fedN /\ Reuse(ids) <= Len(ids)
        /\ nPos' = Reuse(ids) /\ fedN' = Reuse(ids)
        /\ rows' \in Seq(Ids) /\ Len(rows') = Reuse(ids) /\ fed' \in Ids /\ Len(fed') = Reuse(ids)
    BY RewoundIs
  <1>2. Reuse(ids) \in Nat /\ Len(ids) \in Nat
    BY <1>1 DEF TypesInv, CacheTyped, Ids
  <1>3. /\ pc' = "prefill" /\ turn' \in FeedTurn /\ turn'.off = 0
        /\ Len(turn'.toks) = Len(ids) - Reuse(ids) /\ turn'.hasFed = FALSE
    BY <1>1, <1>2, FeedingIs
  <1>4. CacheTyped'
    BY <1>1, <1>2 DEF CacheTyped
  <1>5. Reuse(ids) <= NCtx
    BY <1>1, <1>2, Sizes
  <1>6. CacheSized'
    BY <1>1, <1>2, <1>3, <1>5 DEF CacheSized
  <1>7. TurnTyped'
    BY <1>3 DEF TurnTyped, Generating, Decoding
  <1>8. TurnSized'
    <2>1. turn'.off <= Len(turn'.toks)
      BY <1>1, <1>2, <1>3
    <2>2. nPos' + Len(turn'.toks) <= NCtx /\ nPos' + turn'.off <= Len(rows')
      BY <1>1, <1>2, <1>3
    <2>. QED  BY <1>3, <2>1, <2>2 DEF TurnSized
  <1>9. idlePc' = "off" /\ PlacesTyped'
    BY <1>3 DEF TypesInv, PlacesTyped, Generating
  <1>. QED  BY <1>4, <1>6, <1>7, <1>8, <1>9, MainTypes

LEMMA RefusedTypes ==
    ASSUME TypesInv, pc = "turn", NEW kind \in {"chat", "completion"}, Refused(kind),
           FlagsTyped', idlePc' = idlePc
    PROVE  TypesInv'
  <1>1. /\ turn' = [kind |-> kind, rc |-> Error] /\ pc' = "after"
        /\ UNCHANGED <<nPos, rows, fed, fedN, syncRender, syncTok, msgs, lastRender>>
    BY DEF Refused, cache, chat
  <1>2. turn' \in OverTurn
    BY <1>1 DEF OverTurn
  <1>3. CacheTyped' /\ CacheSized' /\ ChatTyped'
    BY <1>1 DEF TypesInv, CacheTyped, CacheSized, ChatTyped
  <1>4. idlePc' = "off" /\ PlacesTyped'
    BY <1>1 DEF TypesInv, PlacesTyped
  <1>5. TurnTyped' /\ TurnSized'
    BY <1>1, <1>2 DEF TurnTyped, TurnSized, Generating, Decoding
  <1>. QED  BY <1>3, <1>4, <1>5, MainTypes

LEMMA TurnMessage ==
    ASSUME TypesInv, pc = "turn", turn.kind = "chat"
    PROVE  turn.msg \in Msg /\ (Driver = "server" => turn.req \in Seq(Msg))
  <1>1. CASE Driver = "server"
    <2>1. turn \in AskedTurn \cup PromptTurn
      BY <1>1 DEF TypesInv, TurnTyped
    <2>2. turn \in AskedTurn
      BY <2>1 DEF PromptTurn
    <2>. QED  BY <2>2 DEF AskedTurn
  <1>2. CASE Driver # "server"
    BY <1>2 DEF TypesInv, TurnTyped, TypedTurn
  <1>. QED  BY <1>1, <1>2

LEMMA BeginTurnTypes == ASSUME TypesInv, BeginTurn PROVE TypesInv'
  <1>1. /\ pc = "turn" /\ turn.kind = "chat" /\ idlePc' = idlePc
        /\ UNCHANGED <<poisoned, interrupt, hostLogits, devLogits, presampled, idle, adopted>>
    BY DEF BeginTurn, logits
  <1>. DEFINE ms == Append(msgs, turn.msg)
              render == Render(ms, TRUE)
              ids == TailEncode(render)
              req == IF Driver = "server" THEN turn.req ELSE ms
  <1>2. ms \in Seq(Msg)
    BY <1>1, TurnMessage, AppendProperties DEF TypesInv, ChatTyped
  <1>3. render \in Text
    <2>. HIDE DEF ms
    <2>. QED  BY <1>2, RenderType
  <1>4. ids \in Ids
    <2>. HIDE DEF render
    <2>. QED  BY <1>1, <1>3, TailEncodeType
  <1>5. req \in Seq(Msg)
    <2>. HIDE DEF ms
    <2>. QED  BY <1>1, <1>2, TurnMessage
  <1>6. FlagsTyped' /\ lastRender \in Text
    BY <1>1 DEF TypesInv, FlagsTyped, ChatTyped
  <1>7. IF Refuses(ids)
        THEN Refused("chat")
        ELSE /\ Rewound(ids)
             /\ msgs' = ms /\ lastRender' = render
             /\ syncRender' = render /\ syncTok' = Len(ids)
             /\ Feeding(ids, "chat", lastRender, req)
    BY <1>1 DEF BeginTurn
  <1>. HIDE DEF ms, render, ids, req
  <1>8. CASE Refuses(ids)
    BY <1>1, <1>6, <1>7, <1>8, RefusedTypes
  <1>9. CASE ~Refuses(ids)
    <2>1. Len(ids) <= NCtx /\ Len(ids) \in Nat
      BY <1>4, <1>9, Sizes DEF Refuses, Ids
    <2>2. ChatTyped'
      BY <1>2, <1>3, <1>7, <1>9, <2>1 DEF ChatTyped
    <2>. QED  BY <1>1, <1>4, <1>5, <1>6, <1>7, <1>9, <2>1, <2>2, BegunTypes
  <1>. QED  BY <1>8, <1>9

LEMMA BeginCompletionTypes == ASSUME TypesInv, BeginCompletion PROVE TypesInv'
  <1>1. /\ pc = "turn" /\ turn.kind = "completion" /\ idlePc' = idlePc
        /\ UNCHANGED <<poisoned, interrupt, hostLogits, devLogits, presampled, idle, adopted>>
    BY DEF BeginCompletion, logits
  <1>. DEFINE ids == <<Bos>> \o Encode(turn.prompt)
  <1>2. turn.prompt \in Text
    <2>1. turn \in PromptTurn
      BY <1>1 DEF TypesInv, TurnTyped, AskedTurn, TypedTurn
    <2>. QED  BY <2>1 DEF PromptTurn
  <1>3. ids \in Ids
    <2>1. <<Bos>> \in Seq(Text) /\ Encode(turn.prompt) \in Seq(Text)
      BY <1>2, Words, OfOne, EncodeType DEF Ids
    <2>. QED  BY <2>1, ConcatProperties DEF Ids
  <1>4. FlagsTyped' /\ <<>> \in Text
    BY <1>1, Words DEF TypesInv, FlagsTyped
  <1>5. IF Len(ids) > NCtx
        THEN Refused("completion")
        ELSE /\ Rewound(ids)
             /\ Feeding(ids, "completion", <<>>, turn.prompt)
             /\ UNCHANGED <<syncRender, syncTok, msgs, lastRender>>
    BY DEF BeginCompletion, chat
  <1>. HIDE DEF ids
  <1>6. CASE Len(ids) > NCtx
    BY <1>1, <1>4, <1>5, <1>6, RefusedTypes
  <1>7. CASE ~(Len(ids) > NCtx)
    <2>1. Len(ids) <= NCtx
      BY <1>3, <1>7, Sizes DEF Ids
    <2>2. ChatTyped'
      BY <1>5, <1>7 DEF TypesInv, ChatTyped
    <2>. QED  BY <1>1, <1>2, <1>3, <1>4, <1>5, <1>7, <2>1, <2>2, BegunTypes
  <1>. QED  BY <1>6, <1>7

-----------------------------------------------------------------------------
(***************************************************************************)
(* Tokens fed one by one.                                                  *)
(***************************************************************************)
\* What every step of a decode loop may count on, before it feeds a token.
LEMMA DecodeState ==
    ASSUME TypesInv, pc \in Decoding
    PROVE  /\ nPos \in Nat /\ fedN \in Nat /\ rows \in Seq(Ids) /\ fed \in Ids
           /\ fedN <= Len(fed) /\ Len(fed) <= NCtx /\ nPos <= Len(rows) /\ Len(rows) <= NCtx
           /\ Len(fed) \in Nat /\ Len(rows) \in Nat
           /\ nPos = fedN + (IF pc = "spec" THEN 1 ELSE 0)
           /\ turn \in FeedTurn /\ (turn.hasFed => fedN > 0) /\ idlePc = "off"
           /\ hostLogits \in Ids /\ devLogits \in Ids
  <1>1. /\ nPos \in Nat /\ fedN \in Nat /\ rows \in Seq(Ids) /\ fed \in Ids
        /\ fedN <= Len(fed) /\ Len(fed) <= NCtx /\ nPos <= Len(rows) /\ Len(rows) <= NCtx
        /\ nPos = fedN + (IF pc = "spec" THEN 1 ELSE 0)
    BY DEF TypesInv, CacheTyped, CacheSized
  <1>2. Len(fed) \in Nat /\ Len(rows) \in Nat
    BY <1>1 DEF Ids
  <1>3. turn \in FeedTurn /\ (turn.hasFed => fedN > 0) /\ idlePc = "off"
    BY DEF TypesInv, TurnTyped, TurnSized, PlacesTyped, Generating, Decoding
  <1>4. hostLogits \in Ids /\ devLogits \in Ids
    BY DEF TypesInv, FlagsTyped
  <1>. QED  BY <1>1, <1>2, <1>3, <1>4

\* A step of the decode loop that moves the cache.
LEMMA FedTypes ==
    ASSUME TypesInv, pc \in Decoding, idlePc' = idlePc,
           UNCHANGED <<syncRender, syncTok, msgs, lastRender, adopted>>,
           poisoned' \in BOOLEAN, interrupt' \in BOOLEAN, hostLogits' \in Ids, devLogits' \in Ids,
           presampled' \in {None} \cup (Text \X Ids),
           pc' \in Decoding \cup {"record"}, CacheTyped', CacheSized', turn' \in FeedTurn,
           pc' # "record" /\ turn'.hasFed => fedN' > 0
    PROVE  TypesInv'
  <1>1. ChatTyped'
    BY DEF TypesInv, ChatTyped
  <1>2. FlagsTyped'
    BY DEF TypesInv, FlagsTyped
  <1>3. PlacesTyped' /\ idlePc' # "feed"
    BY DEF TypesInv, PlacesTyped, Generating, Decoding
  <1>4. TurnTyped'
    BY DEF TurnTyped, Generating, Decoding
  <1>5. TurnSized'
    BY DEF TurnSized, Generating, Decoding
  <1>. QED  BY <1>1, <1>2, <1>3, <1>4, <1>5, MainTypes

\* The cache's rows grow by at most one: a token of which nothing counts yet.
LEMMA RowMore ==
    ASSUME TypesInv, pc \in Decoding, pc # "spec", UNCHANGED <<nPos, fed, fedN>>, pc' # "spec",
           \/ rows' = rows
           \/ Rewrites(nPos, 1) /\ nPos < NCtx
           \/ nPos > 0 /\ Rewrites(nPos - 1, 1)
    PROVE  CacheTyped' /\ CacheSized'
  <1>1. /\ nPos \in Nat /\ fedN \in Nat /\ rows \in Seq(Ids) /\ fed \in Ids
        /\ fedN <= Len(fed) /\ Len(fed) <= NCtx /\ nPos <= Len(rows) /\ Len(rows) <= NCtx
        /\ Len(rows) \in Nat /\ nPos = fedN
    BY DecodeState
  <1>2. rows' \in Seq(Ids) /\ nPos <= Len(rows') /\ Len(rows') <= NCtx
    <2>1. CASE rows' = rows
      BY <1>1, <2>1
    <2>2. CASE Rewrites(nPos, 1) /\ nPos < NCtx
      BY <1>1, <2>2, Sizes DEF Rewrites
    <2>3. CASE nPos > 0 /\ Rewrites(nPos - 1, 1)
      BY <1>1, <2>3, Sizes DEF Rewrites
    <2>. QED  BY <2>1, <2>2, <2>3
  <1>3. CacheTyped'
    BY <1>1, <1>2 DEF CacheTyped
  <1>4. CacheSized'
    BY <1>1, <1>2 DEF CacheSized
  <1>. QED  BY <1>3, <1>4

\* The last token fed, which a fallback to the host feeds again.
LEMMA LastFed ==
    ASSUME TypesInv, pc \in Decoding, pc # "spec", turn.hasFed
    PROVE  /\ nPos = fedN /\ nPos > 0 /\ nPos - 1 \in 0..Len(rows) /\ fed[nPos] \in Text
           /\ nPos \in 1..Len(fed)
  <1>1. /\ nPos \in Nat /\ fed \in Ids /\ fedN <= Len(fed) /\ nPos <= Len(rows)
        /\ Len(fed) \in Nat /\ Len(rows) \in Nat /\ nPos = fedN /\ fedN > 0
    BY DecodeState
  <1>2. nPos \in 1..Len(fed) /\ nPos - 1 \in 0..Len(rows)
    BY <1>1
  <1>. QED  BY <1>1, <1>2 DEF Ids

LEMMA RedoTypes == ASSUME TypesInv, Redo PROVE TypesInv'
  <1>1. /\ pc = "redo" /\ pc' = "resample" /\ turn' = [turn EXCEPT !.mode = "host"]
        /\ UNCHANGED <<nPos, fed, fedN, syncRender, syncTok, msgs, lastRender, poisoned, interrupt,
                       presampled, idlePc, idle, adopted>>
    BY DEF Redo, chat
  <1>2. pc \in Decoding /\ pc # "spec" /\ pc' \in Decoding /\ pc' # "spec"
    BY <1>1 DEF Decoding
  <1>3. turn \in FeedTurn /\ hostLogits \in Ids /\ devLogits \in Ids /\ (turn.hasFed => fedN > 0)
        /\ rows \in Seq(Ids)
    BY <1>2, DecodeState
  <1>4. turn' \in FeedTurn /\ turn'.hasFed = turn.hasFed
    BY <1>1, <1>3, SetMode DEF FeedTurn
  <1>5. /\ hostLogits' \in Ids /\ devLogits' \in Ids
        /\ rows' = rows \/ (nPos > 0 /\ Rewrites(nPos - 1, 1))
    <2>1. CASE ~turn.hasFed
      <3>1. UNCHANGED <<rows, hostLogits, devLogits>>
        BY <2>1 DEF Redo
      <3>. QED  BY <1>3, <3>1
    <2>2. CASE turn.hasFed
      <3>1. Computes(nPos - 1, <<fed[nPos]>>) /\ hostLogits' = Row(nPos - 1, <<fed[nPos]>>)
            /\ devLogits' = hostLogits'
        BY <2>2 DEF Redo
      <3>2. nPos > 0 /\ nPos - 1 \in 0..Len(rows) /\ fed[nPos] \in Text
        BY <1>2, <2>2, LastFed
      <3>3. Rewrites(nPos - 1, 1) /\ Row(nPos - 1, <<fed[nPos]>>) \in Ids
        BY <1>3, <3>1, <3>2, FeedOneIs
      <3>. QED  BY <3>1, <3>2, <3>3
    <2>. QED  BY <2>1, <2>2
  <1>6. CacheTyped' /\ CacheSized'
    BY <1>1, <1>2, <1>5, RowMore
  <1>7. /\ poisoned' \in BOOLEAN /\ interrupt' \in BOOLEAN
        /\ presampled' \in {None} \cup (Text \X Ids)
    BY <1>1 DEF TypesInv, FlagsTyped
  <1>. QED  BY <1>1, <1>2, <1>3, <1>4, <1>5, <1>6, <1>7, FedTypes

LEMMA RedoFailsTypes == ASSUME TypesInv, RedoFails PROVE TypesInv'
  <1>1. /\ pc = "redo" /\ pc' = "record" /\ turn.hasFed /\ poisoned' = TRUE
        /\ Tears(nPos - 1, <<fed[nPos]>>) /\ nPos' = nPos - 1 /\ fedN' = nPos - 1
        /\ UNCHANGED <<fed, syncRender, syncTok, msgs, lastRender, interrupt, hostLogits, devLogits,
                       presampled, turn, idlePc, idle, adopted>>
    BY DEF RedoFails, chat, logits
  <1>2. pc \in Decoding /\ pc # "spec"
    BY <1>1 DEF Decoding
  <1>3. /\ turn \in FeedTurn /\ hostLogits \in Ids /\ devLogits \in Ids /\ rows \in Seq(Ids)
        /\ nPos \in Nat /\ nPos <= Len(rows) /\ Len(rows) <= NCtx /\ Len(rows) \in Nat
        /\ fed \in Ids /\ fedN <= Len(fed) /\ Len(fed) <= NCtx
    BY <1>2, DecodeState
  <1>4. nPos > 0 /\ nPos = fedN /\ nPos - 1 \in 0..Len(rows) /\ fed[nPos] \in Text
    BY <1>1, <1>2, LastFed
  <1>5. Rewrites(nPos - 1, 1)
    BY <1>1, <1>3, <1>4, TornOneIs
  <1>6. rows' \in Seq(Ids) /\ Len(rows') = Len(rows)
    BY <1>3, <1>4, <1>5 DEF Rewrites
  <1>7. CacheTyped'
    BY <1>1, <1>3, <1>4, <1>6 DEF CacheTyped
  <1>8. CacheSized'
    <2>1. fedN' <= Len(fed') /\ nPos' <= Len(rows')
      BY <1>1, <1>3, <1>4, <1>6, Sizes DEF Ids
    <2>. QED  BY <1>1, <1>3, <1>6, <2>1 DEF CacheSized
  <1>9. interrupt' \in BOOLEAN /\ presampled' \in {None} \cup (Text \X Ids)
    BY <1>1 DEF TypesInv, FlagsTyped
  <1>. QED  BY <1>1, <1>2, <1>3, <1>7, <1>8, <1>9, FedTypes

LEMMA FeedTokenTypes == ASSUME TypesInv, FeedToken PROVE TypesInv'
  <1>. DEFINE row == Row(nPos, <<turn.tok>>)
  <1>1. /\ pc = "feed" /\ pc' = "sample" /\ nPos < NCtx /\ turn' = [turn EXCEPT !.hasFed = TRUE]
        /\ Computes(nPos, <<turn.tok>>) /\ nPos' = nPos + 1 /\ fedN' = FedSynced + 1
        /\ fed' = WriteAt(SubSeq(fed, 1, FedSynced), FedSynced, <<turn.tok>>)
        /\ hostLogits' \in {row, hostLogits} /\ devLogits' \in {row, devLogits}
        /\ UNCHANGED <<syncRender, syncTok, msgs, lastRender, poisoned, interrupt, idlePc, idle, adopted>>
    BY DEF FeedToken, chat, Room
  <1>2. presampled' = presampled \/ \E t \in Pieces \cup {Eog} : presampled' = <<t, row>>
    BY DEF FeedToken
  <1>. HIDE DEF row
  <1>3. pc \in Decoding /\ pc # "spec" /\ pc' \in Decoding /\ pc' # "spec"
    BY <1>1 DEF Decoding
  <1>4. /\ turn \in FeedTurn /\ hostLogits \in Ids /\ devLogits \in Ids /\ rows \in Seq(Ids)
        /\ nPos \in Nat /\ nPos <= Len(rows) /\ Len(rows) <= NCtx /\ Len(rows) \in Nat
        /\ fed \in Ids /\ fedN <= Len(fed) /\ Len(fed) <= NCtx /\ nPos = fedN
    BY <1>3, DecodeState
  <1>5. turn.tok \in Text /\ turn' \in FeedTurn
    BY <1>1, <1>4, SetFlags DEF FeedTurn
  <1>6. nPos \in 0..Len(rows)
    BY <1>4
  <1>7. Rewrites(nPos, 1) /\ row \in Ids
    BY <1>1, <1>4, <1>5, <1>6, FeedOneIs DEF row
  <1>8. FedSynced = fedN
    BY <1>4, FedSyncedIs
  <1>9. fed' \in Ids /\ Len(fed') = fedN + 1
    <2>1. CacheTyped
      BY <1>4 DEF CacheTyped
    <2>2. nPos' = fedN + 1 /\ fedN' = fedN + 1 /\ fed' = WriteAt(SubSeq(fed, 1, fedN), fedN, <<turn.tok>>)
      BY <1>1, <1>4, <1>8
    <2>. QED  BY <1>4, <1>5, <2>1, <2>2, TakesOne
  <1>10. rows' \in Seq(Ids) /\ nPos + 1 <= Len(rows') /\ Len(rows') <= NCtx
    BY <1>1, <1>4, <1>7, Sizes DEF Rewrites
  <1>11. CacheTyped'
    BY <1>1, <1>4, <1>8, <1>9, <1>10 DEF CacheTyped
  <1>12. CacheSized'
    BY <1>1, <1>4, <1>8, <1>9, <1>10, Sizes DEF CacheSized
  <1>13. presampled' \in {None} \cup (Text \X Ids)
    <2>1. CASE presampled' = presampled
      BY <2>1 DEF TypesInv, FlagsTyped
    <2>2. CASE \E t \in Pieces \cup {Eog} : presampled' = <<t, row>>
      BY <1>7, <2>2, Words
    <2>. QED  BY <1>2, <2>1, <2>2
  <1>14. poisoned' \in BOOLEAN /\ interrupt' \in BOOLEAN
    BY <1>1 DEF TypesInv, FlagsTyped
  <1>15. hostLogits' \in Ids /\ devLogits' \in Ids /\ fedN' > 0
    BY <1>1, <1>4, <1>7, <1>8
  <1>. QED  BY <1>1, <1>3, <1>5, <1>11, <1>12, <1>13, <1>14, <1>15, FedTypes

LEMMA FeedStopsOrDiesTypes == ASSUME TypesInv, FeedStops \/ FeedDies PROVE TypesInv'
  <1>1. /\ pc = "feed" /\ pc' = "record" /\ nPos < NCtx /\ turn' = [turn EXCEPT !.unfed = TRUE]
        /\ rows' = rows \/ Tears(nPos, <<turn.tok>>)
        /\ poisoned' \in {poisoned, poisoned \/ Hybrid, TRUE}
        /\ UNCHANGED <<nPos, fed, fedN, syncRender, syncTok, msgs, lastRender, interrupt, hostLogits,
                       devLogits, presampled, idlePc, idle, adopted>>
    BY DEF FeedStops, FeedDies, chat, logits, Room
  <1>2. pc \in Decoding /\ pc # "spec" /\ pc' # "spec"
    BY <1>1 DEF Decoding
  <1>3. /\ turn \in FeedTurn /\ hostLogits \in Ids /\ devLogits \in Ids /\ rows \in Seq(Ids)
        /\ nPos \in Nat /\ nPos <= Len(rows) /\ Len(rows) \in Nat
    BY <1>2, DecodeState
  <1>4. turn.tok \in Text /\ turn' \in FeedTurn /\ nPos \in 0..Len(rows)
    <2>1. turn.tok \in Text
      BY <1>3 DEF FeedTurn
    <2>2. turn' \in FeedTurn
      BY <1>1, <1>3, SetFlags
    <2>. QED  BY <1>3, <2>1, <2>2
  <1>5. rows' = rows \/ Rewrites(nPos, 1)
    BY <1>1, <1>3, <1>4, TornOneIs
  <1>6. CacheTyped' /\ CacheSized'
    BY <1>1, <1>2, <1>5, RowMore
  <1>7. /\ poisoned' \in BOOLEAN /\ interrupt' \in BOOLEAN
        /\ presampled' \in {None} \cup (Text \X Ids)
    <2>1. (poisoned \/ Hybrid) \in BOOLEAN
      OBVIOUS
    <2>. QED  BY <1>1, <2>1 DEF TypesInv, FlagsTyped
  <1>. QED  BY <1>1, <1>2, <1>3, <1>4, <1>6, <1>7, FedTypes

-----------------------------------------------------------------------------
(***************************************************************************)
(* Tokens fed before they are read.                                        *)
(***************************************************************************)
LEMMA SpecFeedTypes == ASSUME TypesInv, SpecFeed PROVE TypesInv'
  <1>1. /\ pc = "sample" /\ pc' = "spec" /\ nPos < NCtx /\ nPos' = nPos + 1
        /\ UNCHANGED <<fed, fedN, syncRender, syncTok, msgs, lastRender, poisoned, interrupt,
                       hostLogits, presampled, idlePc, idle, adopted>>
    BY DEF SpecFeed, Piping, Going, chat, Room
  <1>2. PICK t \in Pieces \cup {Eog} :
            /\ turn' = [turn EXCEPT !.tok = t, !.from = devLogits]
            /\ Computes(nPos, <<t>>) /\ devLogits' = Row(nPos, <<t>>)
    BY DEF SpecFeed
  <1>3. pc \in Decoding /\ pc # "spec" /\ pc' \in Decoding /\ t \in Text
    BY <1>1, Words DEF Decoding
  <1>4. /\ turn \in FeedTurn /\ hostLogits \in Ids /\ devLogits \in Ids /\ rows \in Seq(Ids)
        /\ nPos \in Nat /\ nPos <= Len(rows) /\ Len(rows) <= NCtx /\ Len(rows) \in Nat
        /\ fed \in Ids /\ fedN <= Len(fed) /\ Len(fed) <= NCtx /\ nPos = fedN
        /\ turn.hasFed => fedN > 0
    BY <1>3, DecodeState
  <1>5. turn' \in FeedTurn /\ turn'.hasFed = turn.hasFed
    BY <1>2, <1>3, <1>4, SetToken DEF FeedTurn
  <1>6. nPos \in 0..Len(rows)
    BY <1>4
  <1>7. Rewrites(nPos, 1) /\ devLogits' \in Ids
    BY <1>2, <1>3, <1>4, <1>6, FeedOneIs
  <1>8. rows' \in Seq(Ids) /\ nPos + 1 <= Len(rows') /\ Len(rows') <= NCtx
    BY <1>1, <1>4, <1>7, Sizes DEF Rewrites
  <1>9. CacheTyped'
    BY <1>1, <1>4, <1>8 DEF CacheTyped
  <1>10. CacheSized'
    BY <1>1, <1>4, <1>8 DEF CacheSized
  <1>11. /\ poisoned' \in BOOLEAN /\ interrupt' \in BOOLEAN /\ hostLogits' \in Ids
         /\ presampled' \in {None} \cup (Text \X Ids)
    BY <1>1, <1>4 DEF TypesInv, FlagsTyped
  <1>. QED  BY <1>1, <1>3, <1>4, <1>5, <1>7, <1>9, <1>10, <1>11, FedTypes

LEMMA SpecReadTypes == ASSUME TypesInv, SpecRead PROVE TypesInv'
  <1>1. /\ pc = "spec"
        /\ UNCHANGED <<rows, syncRender, syncTok, msgs, lastRender, poisoned, interrupt,
                       hostLogits, devLogits, presampled, idlePc, idle, adopted>>
    BY DEF SpecRead, chat, logits
  <1>2. pc \in Decoding
    BY <1>1 DEF Decoding
  <1>3. /\ turn \in FeedTurn /\ hostLogits \in Ids /\ devLogits \in Ids /\ rows \in Seq(Ids)
        /\ nPos \in Nat /\ fedN \in Nat /\ nPos <= Len(rows) /\ Len(rows) <= NCtx /\ Len(rows) \in Nat
        /\ fed \in Ids /\ fedN <= Len(fed) /\ Len(fed) <= NCtx /\ nPos = fedN + 1
    BY <1>1, <1>2, DecodeState
  <1>4. /\ poisoned' \in BOOLEAN /\ interrupt' \in BOOLEAN /\ hostLogits' \in Ids /\ devLogits' \in Ids
        /\ presampled' \in {None} \cup (Text \X Ids)
    BY <1>1, <1>3 DEF TypesInv, FlagsTyped
  <1>5. CASE turn.tok = Eog
    <2>1. nPos' = nPos - 1 /\ pc' = "record" /\ UNCHANGED <<fed, fedN, turn>>
      BY <1>5 DEF SpecRead
    <2>2. CacheTyped'
      BY <1>1, <1>3, <2>1 DEF CacheTyped
    <2>3. CacheSized'
      BY <1>1, <1>3, <2>1 DEF CacheSized
    <2>. QED  BY <1>1, <1>2, <1>3, <1>4, <2>1, <2>2, <2>3, FedTypes
  <1>6. CASE turn.tok # Eog
    <2>1. /\ fed' = WriteAt(SubSeq(fed, 1, fedN), fedN, <<turn.tok>>) /\ fedN' = fedN + 1
          /\ turn' = [Emitted(turn, turn.tok) EXCEPT !.hasFed = TRUE]
          /\ pc' = "sample" /\ nPos' = nPos
      BY <1>6 DEF SpecRead
    <2>2. turn.tok \in Text
      BY <1>3 DEF FeedTurn
    <2>3. turn' \in FeedTurn
      BY <1>3, <2>1, <2>2, EmittedType, SetFlags
    <2>4. CacheTyped
      BY <1>3 DEF CacheTyped
    <2>5. fed' \in Ids /\ Len(fed') = fedN + 1
      BY <1>3, <2>1, <2>2, <2>4, TakesOne
    <2>6. CacheTyped'
      BY <1>1, <1>3, <2>1, <2>5 DEF CacheTyped
    <2>7. CacheSized'
      BY <1>1, <1>3, <2>1, <2>5, Sizes DEF CacheSized
    <2>8. fedN' > 0 /\ pc' \in Decoding
      BY <1>3, <2>1 DEF Decoding
    <2>. QED  BY <1>1, <1>2, <1>4, <2>3, <2>6, <2>7, <2>8, FedTypes
  <1>. QED  BY <1>5, <1>6

LEMMA SpecReadFailsTypes == ASSUME TypesInv, SpecReadFails PROVE TypesInv'
  <1>1. /\ pc = "spec" /\ pc' = "redo" /\ nPos' = nPos - 1
        /\ turn' = [turn EXCEPT !.tok = None, !.from = None]
        /\ UNCHANGED <<rows, fed, fedN, syncRender, syncTok, msgs, lastRender, poisoned, interrupt,
                       hostLogits, devLogits, presampled, idlePc, idle, adopted>>
    BY DEF SpecReadFails, chat, logits
  <1>2. pc \in Decoding /\ pc' \in Decoding
    BY <1>1 DEF Decoding
  <1>3. /\ turn \in FeedTurn /\ hostLogits \in Ids /\ devLogits \in Ids /\ rows \in Seq(Ids)
        /\ nPos \in Nat /\ fedN \in Nat /\ nPos <= Len(rows) /\ Len(rows) <= NCtx /\ Len(rows) \in Nat
        /\ fed \in Ids /\ fedN <= Len(fed) /\ Len(fed) <= NCtx /\ nPos = fedN + 1
        /\ turn.hasFed => fedN > 0
    BY <1>1, <1>2, DecodeState
  <1>4. None \in Text /\ None \in Ids
    BY Words DEF None
  <1>5. turn' \in FeedTurn /\ turn'.hasFed = turn.hasFed
    BY <1>1, <1>3, <1>4, SetToken DEF FeedTurn
  <1>6. CacheTyped'
    BY <1>1, <1>3 DEF CacheTyped
  <1>7. CacheSized'
    BY <1>1, <1>3 DEF CacheSized
  <1>8. /\ poisoned' \in BOOLEAN /\ interrupt' \in BOOLEAN /\ hostLogits' \in Ids /\ devLogits' \in Ids
        /\ presampled' \in {None} \cup (Text \X Ids)
    BY <1>1, <1>3 DEF TypesInv, FlagsTyped
  <1>. QED  BY <1>1, <1>2, <1>3, <1>5, <1>6, <1>7, <1>8, FedTypes

LEMMA SpecBlockedTypes == ASSUME TypesInv, SpecBlocked PROVE TypesInv'
  <1>1. /\ pc = "sample" /\ pc' = "record"
        /\ UNCHANGED <<nPos, fed, fedN, syncRender, syncTok, msgs, lastRender,
                       hostLogits, devLogits, presampled, idlePc, idle, adopted>>
    BY DEF SpecBlocked, Piping, Going, chat, logits
  <1>2. PICK t \in Pieces \cup {Eog} :
            /\ \/ UNCHANGED <<rows, poisoned, interrupt>>
               \/ /\ nPos < NCtx /\ Tears(nPos, <<t>>)
                  /\ interrupt' \in {interrupt, TRUE} /\ poisoned' \in {poisoned, t # Eog}
            /\ turn' \in {[turn EXCEPT !.tok = t, !.from = devLogits],
                          [Emitted(turn, t) EXCEPT !.unfed = TRUE]}
    BY DEF SpecBlocked, Room
  <1>3. pc \in Decoding /\ pc # "spec" /\ pc' # "spec" /\ t \in Text
    BY <1>1, Words DEF Decoding
  <1>4. /\ turn \in FeedTurn /\ hostLogits \in Ids /\ devLogits \in Ids /\ rows \in Seq(Ids)
        /\ nPos \in Nat /\ nPos <= Len(rows) /\ Len(rows) \in Nat
    BY <1>3, DecodeState
  <1>5. turn' \in FeedTurn
    <2>1. [turn EXCEPT !.tok = t, !.from = devLogits] \in FeedTurn
      BY <1>3, <1>4, SetToken
    <2>2. [Emitted(turn, t) EXCEPT !.unfed = TRUE] \in FeedTurn
      BY <1>3, <1>4, EmittedType, SetFlags
    <2>. QED  BY <1>2, <2>1, <2>2
  <1>6. rows' = rows \/ (Rewrites(nPos, 1) /\ nPos < NCtx)
    <2>1. nPos \in 0..Len(rows)
      BY <1>4
    <2>2. ASSUME Tears(nPos, <<t>>) PROVE Rewrites(nPos, 1)
      BY <1>3, <1>4, <2>1, <2>2, TornOneIs
    <2>. QED  BY <1>2, <2>2
  <1>7. CacheTyped' /\ CacheSized'
    BY <1>1, <1>3, <1>6, RowMore
  <1>8. /\ poisoned' \in BOOLEAN /\ interrupt' \in BOOLEAN
        /\ presampled' \in {None} \cup (Text \X Ids)
    <2>1. (t # Eog) \in BOOLEAN /\ poisoned \in BOOLEAN /\ interrupt \in BOOLEAN
          /\ presampled \in {None} \cup (Text \X Ids)
      BY DEF TypesInv, FlagsTyped
    <2>. QED  BY <1>1, <1>2, <2>1
  <1>. QED  BY <1>1, <1>3, <1>4, <1>5, <1>7, <1>8, FedTypes

(***************************************************************************)
(* The idle prefill.                                                       *)
(***************************************************************************)
LEMMA HeaderType == ASSUME TypesInv PROVE Header \in Text /\ Encode(Header) \in Ids
  <1>1. msgs \in Seq(Msg)
    BY DEF TypesInv, ChatTyped
  <1>2. Render(msgs, FALSE) \in Text
    BY <1>1, RenderType
  <1>3. "U" \in Char
    BY Marks
  <1>4. Header \in Text
    BY <1>2, <1>3, AppendProperties DEF Header, Text
  <1>. QED  BY <1>4, EncodeType

\* A step of the idle prefill leaves the turn's places alone.
LEMMA IdleTypes ==
    ASSUME TypesInv, idlePc # "off", UNCHANGED <<pc, turn>>, CacheTyped', ChatTyped', FlagsTyped',
           idlePc' \in {"start", "feed", "done"}, IdleTyped', CacheSized', IdleSized'
    PROVE  TypesInv'
  <1>1. pc \in {"input", "join"} /\ Driver = "interactive"
    BY DEF TypesInv, PlacesTyped
  <1>2. PlacesTyped'
    BY <1>1 DEF PlacesTyped
  <1>3. TurnTyped' /\ TurnSized'
    BY <1>1 DEF TypesInv, TurnTyped, TurnSized, Generating, Decoding
  <1>. QED  BY <1>2, <1>3 DEF TypesInv

LEMMA KeptIs ==
    ASSUME TypesInv, idlePc # "off", NEW ids \in Ids
    PROVE  /\ FedSynced = fedN /\ nPos = fedN /\ Kept(ids) \in 0..fedN /\ Kept(ids) <= Len(ids)
           /\ SubSeq(fed, 1, Kept(ids)) = SubSeq(ids, 1, Kept(ids))
  <1>1. /\ fedN \in Nat /\ nPos \in Nat /\ nPos = fedN /\ fed \in Seq(Text) /\ fedN <= Len(fed)
        /\ Len(fed) \in Nat
    BY DEF TypesInv, PlacesTyped, CacheTyped, CacheSized, Ids
  <1>2. FedSynced = fedN
    BY <1>1, FedSyncedIs
  <1>3. fedN \in 0..Len(fed)
    BY <1>1
  <1>. DEFINE s == SubSeq(fed, 1, fedN)
              c == CommonLen(s, ids)
  <1>4. s \in Seq(Text) /\ Len(s) = fedN
    BY <1>1, <1>3, Beginning
  <1>5. c = Kept(ids)
    BY <1>2 DEF Kept
  <1>. HIDE DEF s
  <1>6. c \in 0..fedN /\ c <= Len(ids) /\ SubSeq(s, 1, c) = SubSeq(ids, 1, c)
    <2>1. ids \in Seq(Text)
      BY DEF Ids
    <2>. QED  BY <1>4, <2>1, CommonLenIs
  <1>. HIDE DEF c
  <1>7. SubSeq(s, 1, c) = SubSeq(fed, 1, c)
    BY <1>1, <1>3, <1>6, BeginningOfBeginning DEF s
  <1>. QED  BY <1>1, <1>2, <1>5, <1>6, <1>7

\* What the idle prefill saves, and how far it goes back.
LEMMA IdleBeginsIs ==
    ASSUME TypesInv, IdleBegins
    PROVE  LET ids == Encode(Header) IN
           /\ idlePc = "start" /\ idlePc' = "feed" /\ ~interrupt /\ nPos = fedN /\ Len(ids) <= NCtx
           /\ Kept(ids) \in 0..fedN /\ Kept(ids) < Len(ids) /\ ids \in Ids
           /\ SubSeq(fed, 1, Kept(ids)) = SubSeq(ids, 1, Kept(ids))
           /\ idle' \in IdleRun /\ idle'.off = 0 /\ idle'.header = Header
           /\ idle'.toks = SubSeq(ids, Kept(ids) + 1, Len(ids)) /\ Len(idle'.toks) = Len(ids) - Kept(ids)
           /\ idle'.nPos = nPos /\ idle'.fedN = fedN /\ idle'.render = syncRender /\ idle'.tok = syncTok
           /\ nPos' = (IF Hybrid THEN fedN ELSE Kept(ids)) /\ fedN' = nPos'
           /\ syncRender' = <<>> /\ syncTok' = 0
           /\ UNCHANGED <<rows, fed, msgs, lastRender, poisoned, interrupt, hostLogits, devLogits,
                          presampled, pc, turn, adopted>>
  <1>. DEFINE ids == Encode(Header)
              kept == Kept(ids)
              toks == SubSeq(ids, kept + 1, Len(ids))
  <1>1. /\ idlePc = "start" /\ ~interrupt /\ syncRender' = <<>> /\ syncTok' = 0 /\ idlePc' = "feed"
        /\ UNCHANGED <<rows, fed, msgs, lastRender, poisoned, interrupt, hostLogits, devLogits,
                       presampled, pc, turn, adopted>>
    BY DEF IdleBegins, logits
  <1>2. /\ Len(ids) <= NCtx /\ kept < Len(ids)
        /\ idle' = [toks |-> toks, off |-> 0,
                    header |-> Header, nPos |-> nPos, fedN |-> FedSynced,
                    render |-> syncRender, tok |-> syncTok]
        /\ IF kept < FedSynced /\ ~Hybrid
           THEN nPos' = Min({kept, nPos}) /\ fedN' = nPos'
           ELSE fedN' = FedSynced /\ nPos' = nPos
    BY DEF IdleBegins, Fits
  <1>3. Header \in Text /\ ids \in Ids
    BY HeaderType
  <1>. HIDE DEF ids
  <1>4. /\ FedSynced = fedN /\ nPos = fedN /\ kept \in 0..fedN /\ kept <= Len(ids)
        /\ SubSeq(fed, 1, kept) = SubSeq(ids, 1, kept)
    BY <1>1, <1>3, KeptIs
  <1>5. fedN \in Nat /\ nPos \in Nat /\ syncRender \in Text /\ syncTok \in Nat
    BY DEF TypesInv, CacheTyped, ChatTyped
  <1>. HIDE DEF kept
  <1>6. toks \in Ids /\ Len(toks) = Len(ids) - kept
    <2>1. ids \in Seq(Text) /\ Len(ids) \in Nat
      BY <1>3 DEF Ids
    <2>2. kept \in 0..Len(ids)
      BY <1>4, <2>1
    <2>. QED  BY <2>1, <2>2, Splits DEF Ids
  <1>. HIDE DEF toks
  <1>7. /\ idle' \in IdleRun /\ idle'.off = 0 /\ idle'.header = Header /\ idle'.toks = toks
        /\ idle'.nPos = nPos /\ idle'.fedN = fedN /\ idle'.render = syncRender /\ idle'.tok = syncTok
    BY <1>2, <1>3, <1>4, <1>5, <1>6 DEF IdleRun
  <1>8. nPos' = (IF Hybrid THEN fedN ELSE kept) /\ fedN' = nPos'
    <2>1. kept < fedN => Min({kept, nPos}) = kept
      BY <1>4, <1>5, MinOfTwo
    <2>2. ~(kept < fedN) => kept = fedN
      BY <1>4, <1>5
    <2>. QED  BY <1>2, <1>4, <2>1, <2>2
  <1>. QED  BY <1>1, <1>2, <1>3, <1>4, <1>6, <1>7, <1>8 DEF ids, kept, toks

LEMMA IdleBeginsTypes == ASSUME TypesInv, IdleBegins PROVE TypesInv'
  <1>. DEFINE ids == Encode(Header)
              kept == Kept(ids)
  <1>1. /\ idlePc = "start" /\ idlePc' = "feed" /\ nPos = fedN /\ Len(ids) <= NCtx
        /\ kept \in 0..fedN /\ kept < Len(ids) /\ ids \in Ids
        /\ idle' \in IdleRun /\ idle'.off = 0 /\ idle'.header = Header
        /\ Len(idle'.toks) = Len(ids) - kept
        /\ idle'.nPos = nPos /\ idle'.fedN = fedN /\ idle'.tok = syncTok
        /\ nPos' = (IF Hybrid THEN fedN ELSE kept) /\ fedN' = nPos'
    BY IdleBeginsIs
  <1>2. /\ syncRender' = <<>> /\ syncTok' = 0
        /\ UNCHANGED <<rows, fed, msgs, lastRender, poisoned, interrupt, hostLogits, devLogits,
                       presampled, pc, turn, adopted>>
    BY IdleBeginsIs
  <1>3. Len(ids) = Len(Encode(Header))
    OBVIOUS
  <1>. HIDE DEF ids, kept
  <1>4. /\ fedN \in Nat /\ rows \in Seq(Ids) /\ fed \in Ids /\ fedN <= Len(fed) /\ Len(fed) <= NCtx
        /\ nPos <= Len(rows) /\ Len(rows) <= NCtx /\ syncTok <= NCtx
        /\ msgs \in Seq(Msg) /\ lastRender \in Text /\ pc # "spec"
    BY <1>1 DEF TypesInv, CacheTyped, CacheSized, ChatTyped, PlacesTyped
  <1>5. Len(rows) \in Nat /\ Len(fed) \in Nat /\ Len(ids) \in Nat /\ NCtx \in Nat
    BY <1>1, <1>4, Sizes DEF Ids
  <1>6. nPos' \in 0..fedN
    BY <1>1, <1>4
  <1>7. CacheTyped'
    BY <1>1, <1>2, <1>4, <1>6 DEF CacheTyped
  <1>8. CacheSized'
    BY <1>1, <1>2, <1>4, <1>5, <1>6 DEF CacheSized
  <1>9. ChatTyped'
    BY <1>2, <1>4, Unsynced
  <1>10. FlagsTyped' /\ IdleTyped'
    BY <1>1, <1>2 DEF TypesInv, FlagsTyped, IdleTyped
  <1>11. IdleSized'
    <2>1. idle'.off < Len(idle'.toks) /\ nPos' + idle'.off <= Len(rows')
      BY <1>1, <1>2, <1>4, <1>5, <1>6
    <2>2. idle'.nPos = idle'.fedN /\ nPos' <= idle'.nPos /\ idle'.nPos <= Len(rows')
          /\ idle'.fedN <= Len(fed') /\ idle'.tok <= NCtx
      BY <1>1, <1>2, <1>4, <1>5, <1>6
    <2>3. Len(Encode(idle'.header)) <= NCtx
      BY <1>1, <1>3
    <2>. QED  BY <2>1, <2>2, <2>3 DEF IdleSized
  <1>12. idlePc # "off" /\ UNCHANGED <<pc, turn>> /\ idlePc' \in {"start", "feed", "done"}
    BY <1>1, <1>2
  <1>. QED  BY <1>7, <1>8, <1>9, <1>10, <1>11, <1>12, IdleTypes

LEMMA IdleBatch ==
    ASSUME TypesInv, idlePc = "feed"
    PROVE  Batch(idle) /\ idle \in IdleRun /\ pc # "spec"
  <1>1. idle \in IdleRun /\ idle.off < Len(idle.toks) /\ nPos + idle.off <= Len(rows) /\ pc # "spec"
    BY DEF TypesInv, IdleTyped, IdleSized, PlacesTyped
  <1>2. idle.toks \in Ids /\ idle.off \in Nat
    BY <1>1 DEF IdleRun
  <1>3. CacheTyped /\ nPos = fedN /\ fedN <= Len(fed)
    BY <1>1 DEF TypesInv, CacheSized, CacheTyped
  <1>4. idle.off <= Len(idle.toks)
    BY <1>1, <1>2 DEF Ids
  <1>. QED  BY <1>1, <1>2, <1>3, <1>4 DEF Batch

LEMMA IdleChunkTypes == ASSUME TypesInv, IdleChunk PROVE TypesInv'
  <1>1. /\ idlePc = "feed" /\ nPos + Len(idle.toks) <= NCtx /\ FeedChunk(idle)
        /\ idle' = [idle EXCEPT !.off = @ + Len(NextChunk(idle))]
        /\ IF LastChunk(idle)
           THEN /\ syncRender' = idle.header
                /\ syncTok' = Len(Encode(idle.header))
                /\ idlePc' = "done"
           ELSE syncRender' = syncRender /\ syncTok' = syncTok /\ idlePc' = idlePc
        /\ UNCHANGED <<msgs, lastRender, poisoned, interrupt, presampled, pc, turn, adopted>>
    BY DEF IdleChunk, IdleFits
  <1>2. Batch(idle) /\ idle \in IdleRun /\ pc # "spec" /\ pc' # "spec"
    BY <1>1, IdleBatch
  <1>. DEFINE n == Len(NextChunk(idle))
  <1>3. /\ CacheTyped' /\ CacheSized' /\ hostLogits' \in Ids /\ devLogits' \in Ids
        /\ n \in 1..Len(idle.toks) - idle.off
        /\ LastChunk(idle) <=> idle.off + n = Len(idle.toks)
        /\ ~LastChunk(idle) => /\ UNCHANGED <<nPos, fed, fedN>> /\ Len(rows) <= Len(rows')
                               /\ nPos + (idle.off + n) <= Len(rows')
    BY <1>1, <1>2, ChunkSizes
  <1>. HIDE DEF n
  <1>4. idle' = [idle EXCEPT !.off = idle.off + n]
    BY <1>1 DEF n
  <1>5. /\ idle.toks \in Ids /\ idle.off \in Nat /\ Len(idle.toks) \in Nat /\ idle.off + n \in Nat
        /\ idle.nPos \in Nat /\ idle.header \in Text /\ Encode(idle.header) \in Ids
    <2>1. idle.toks \in Ids /\ idle.off \in Nat /\ idle.nPos \in Nat /\ idle.header \in Text
      BY <1>2 DEF IdleRun
    <2>2. Encode(idle.header) \in Ids
      BY <2>1, EncodeType
    <2>3. Len(idle.toks) \in Nat
      BY <2>1 DEF Ids
    <2>. QED  BY <1>3, <2>1, <2>2, <2>3
  <1>6. /\ idle' \in IdleRun /\ idle'.off = idle.off + n /\ idle'.toks = idle.toks
        /\ idle'.nPos = idle.nPos /\ idle'.fedN = idle.fedN /\ idle'.tok = idle.tok
        /\ idle'.header = idle.header
    BY <1>2, <1>4, <1>5 DEF IdleRun
  <1>7. /\ idle.nPos = idle.fedN /\ nPos <= idle.nPos
        /\ idle.nPos <= Len(rows) /\ idle.fedN <= Len(fed)
        /\ idle.tok <= NCtx /\ Len(Encode(idle.header)) <= NCtx
    BY <1>1 DEF TypesInv, IdleSized
  <1>8. ChatTyped'
    <2>1. Len(Encode(idle.header)) \in Nat
      BY <1>5 DEF Ids
    <2>. QED  BY <1>1, <1>5, <1>7, <2>1 DEF TypesInv, ChatTyped
  <1>9. FlagsTyped' /\ IdleTyped'
    BY <1>1, <1>3, <1>6 DEF TypesInv, FlagsTyped, IdleTyped
  <1>10. IdleSized'
    <2>1. CASE LastChunk(idle)
      BY <1>1, <2>1 DEF IdleSized
    <2>2. CASE ~LastChunk(idle)
      <3>1. idle'.off < Len(idle'.toks) /\ nPos' + idle'.off <= Len(rows')
        BY <1>3, <1>5, <1>6, <2>2
      <3>2. Len(rows) \in Nat /\ Len(rows') \in Nat
        BY <1>3 DEF TypesInv, CacheTyped
      <3>3. idle'.nPos <= Len(rows')
        BY <1>3, <1>5, <1>6, <1>7, <2>2, <3>2
      <3>4. idle'.nPos = idle'.fedN /\ nPos' <= idle'.nPos /\ idle'.fedN <= Len(fed') /\ idle'.tok <= NCtx
            /\ Len(Encode(idle'.header)) <= NCtx
        BY <1>3, <1>6, <1>7, <2>2
      <3>. QED  BY <3>1, <3>3, <3>4 DEF IdleSized
    <2>. QED  BY <2>1, <2>2
  <1>11. idlePc # "off" /\ UNCHANGED <<pc, turn>> /\ idlePc' \in {"start", "feed", "done"}
    BY <1>1
  <1>. QED  BY <1>3, <1>8, <1>9, <1>10, <1>11, IdleTypes

\* What an idle prefill that stops puts back, and what it leaves behind.
LEMMA RestoredIs ==
    ASSUME TypesInv, idlePc = "feed", NEW n \in 0..idle.off, Restored(n)
    PROVE  /\ nPos' = idle.nPos /\ fedN' = idle.fedN /\ fed' \in Ids
           /\ Len(fed') = IF Len(fed) <= fedN + n THEN fedN + n ELSE Len(fed)
           /\ \A i \in 0..n : SubSeq(fed', 1, fedN + i) = SubSeq(fed, 1, fedN) \o SubSeq(idle.toks, 1, i)
           /\ \A k \in 0..fedN : SubSeq(fed', 1, k) = SubSeq(fed, 1, k)
           /\ n = 0 => fed' = fed
           /\ syncRender' = idle.render /\ syncTok' = idle.tok /\ idlePc' = "done"
  <1>. DEFINE t == SubSeq(idle.toks, 1, n)
              w == WriteAt(fed, FedSynced, t)
  <1>1. Batch(idle) /\ idle \in IdleRun
    BY IdleBatch
  <1>2. /\ idle.toks \in Seq(Text) /\ idle.off \in Nat /\ Len(idle.toks) \in Nat
        /\ idle.off <= Len(idle.toks)
        /\ fedN \in Nat /\ nPos \in Nat /\ fed \in Ids /\ fedN <= Len(fed) /\ fedN <= nPos
        /\ nPos = fedN
    BY <1>1 DEF Batch, CacheTyped, Ids
  <1>3. n \in 0..Len(idle.toks)
    BY <1>2
  <1>4. t \in Seq(Text) /\ Len(t) = n /\ \A i \in 0..n : SubSeq(t, 1, i) = SubSeq(idle.toks, 1, i)
    BY <1>2, <1>3, Beginning, BeginningOfBeginning
  <1>5. /\ nPos' = idle.nPos /\ fedN' = idle.fedN /\ fed' = w
        /\ syncRender' = idle.render /\ syncTok' = idle.tok /\ idlePc' = "done"
    BY DEF Restored
  <1>6. t \in Ids
    BY <1>4 DEF Ids
  <1>. HIDE DEF t
  <1>7. /\ w \in Ids
        /\ Len(w) = IF Len(fed) <= fedN + Len(t) THEN fedN + Len(t) ELSE Len(fed)
        /\ \A i \in 0..Len(t) : SubSeq(w, 1, fedN + i) = SubSeq(fed, 1, fedN) \o SubSeq(t, 1, i)
        /\ \A k \in 0..fedN : SubSeq(w, 1, k) = SubSeq(fed, 1, k)
    BY <1>2, <1>6, FedTakes
  <1>8. n = 0 => w = fed
    <2>. SUFFICES ASSUME n = 0 PROVE w = fed
      OBVIOUS
    <2>1. FedSynced = fedN /\ fed \in Seq(Text) /\ t \in Seq(Text) /\ Len(t) = 0 /\ fedN \in 0..Len(fed)
      BY <1>2, <1>4, FedSyncedIs DEF Ids
    <2>. DEFINE v == WriteAt(fed, fedN, t)
    <2>2. v = w
      BY <2>1
    <2>3. /\ v \in Seq(Text) /\ Len(v) = Len(fed)
      <3>1. Len(v) = (IF Len(fed) <= fedN + Len(t) THEN fedN + Len(t) ELSE Len(fed)) /\ v \in Seq(Text)
        BY <2>1, Written
      <3>. QED  BY <2>1, <3>1
    <2>4. \A i \in 1..Len(fed) : v[i] = fed[i]
      <3>1. Max({Len(fed), fedN + Len(t)}) = Len(fed)
        BY <2>1, MaxOfTwo
      <3>2. v = [i \in 1..Len(fed) |-> IF i > fedN /\ i <= fedN + Len(t) THEN t[i - fedN] ELSE fed[i]]
        BY <3>1 DEF WriteAt
      <3>. HIDE DEF v
      <3>3. \A i \in 1..Len(fed) : ~(i > fedN /\ i <= fedN + Len(t))
        BY <2>1
      <3>. QED  BY <3>2, <3>3
    <2>. HIDE DEF v
    <2>5. v = fed
      BY <2>1, <2>3, <2>4, SeqEqual
    <2>. QED  BY <2>2, <2>5
  <1>. HIDE DEF w
  <1>. QED  BY <1>4, <1>5, <1>7, <1>8

\* The three ways to stop.
LEMMA IdleStopsIs ==
    ASSUME TypesInv, IdleStops
    PROVE  /\ idlePc = "feed" /\ idle \in IdleRun
           /\ UNCHANGED <<msgs, lastRender, interrupt, hostLogits, devLogits, presampled, pc, turn,
                          idle, adopted>>
           /\ poisoned' \in {poisoned, TRUE}
           /\ \E n \in 0..idle.off :
                  /\ Restored(n)
                  /\ \/ n = 0 /\ UNCHANGED <<rows, poisoned, sure>> /\ ~IdleFits
                     \/ /\ IdleFits /\ n = idle.off
                        /\ \E m \in 0..Len(idle.toks) - n : Rewrites(nPos + n, m)
                        /\ \/ poisoned' = TRUE /\ UNCHANGED sure
                           \/ poisoned' = poisoned /\ WroteOver
  <1>1. /\ idlePc = "feed"
        /\ UNCHANGED <<msgs, lastRender, interrupt, hostLogits, devLogits, presampled, pc, turn,
                       idle, adopted>>
    BY DEF IdleStops, logits
  <1>2. Batch(idle) /\ idle \in IdleRun
    BY <1>1, IdleBatch
  <1>3. idle.off \in Nat /\ 0 \in 0..idle.off /\ idle.off \in 0..idle.off
    BY <1>2 DEF IdleRun
  <1>4. CASE ~IdleFits /\ Restored(0) /\ UNCHANGED <<rows, rec, poisoned, sure>>
    BY <1>1, <1>2, <1>3, <1>4
  <1>5. CASE IdleFits /\ FeedInterrupted(idle) /\ Restored(idle.off) /\ WroteOver /\ UNCHANGED poisoned
    <2>1. \E m \in 0..Len(idle.toks) - idle.off : Rewrites(nPos + idle.off, m)
      BY <1>2, <1>5, TornChunkIs
    <2>. QED  BY <1>1, <1>2, <1>3, <1>5, <2>1
  <1>6. CASE IdleFits /\ FeedFails(idle) /\ Restored(idle.off) /\ poisoned' = TRUE /\ UNCHANGED sure
    <2>1. \E m \in 0..Len(idle.toks) - idle.off : Rewrites(nPos + idle.off, m)
      BY <1>2, <1>6, TornChunkIs
    <2>. QED  BY <1>1, <1>2, <1>3, <1>6, <2>1
  <1>. QED  BY <1>4, <1>5, <1>6 DEF IdleStops

-----------------------------------------------------------------------------
LEMMA IdleStopsTypes == ASSUME TypesInv, IdleStops PROVE TypesInv'
  <1>1. /\ idlePc = "feed" /\ idle \in IdleRun
        /\ UNCHANGED <<msgs, lastRender, interrupt, hostLogits, devLogits, presampled, pc, turn,
                       idle, adopted>>
        /\ poisoned' \in {poisoned, TRUE}
    BY IdleStopsIs
  <1>2. PICK n \in 0..idle.off :
            /\ Restored(n)
            /\ \/ n = 0 /\ rows' = rows
               \/ IdleFits /\ \E m \in 0..Len(idle.toks) - n : Rewrites(nPos + n, m)
    BY IdleStopsIs
  <1>3. /\ nPos' = idle.nPos /\ fedN' = idle.fedN /\ fed' \in Ids
        /\ Len(fed') = IF Len(fed) <= fedN + n THEN fedN + n ELSE Len(fed)
        /\ syncRender' = idle.render /\ syncTok' = idle.tok /\ idlePc' = "done"
    BY <1>1, <1>2, RestoredIs
  <1>4. /\ idle.off \in Nat /\ idle.nPos \in Nat /\ idle.fedN \in Nat /\ idle.render \in Text
        /\ idle.tok \in Nat /\ Len(idle.toks) \in Nat
    BY <1>1 DEF IdleRun, Ids
  <1>5. /\ idle.off < Len(idle.toks) /\ nPos + idle.off <= Len(rows)
        /\ idle.nPos = idle.fedN /\ nPos <= idle.nPos
        /\ idle.nPos <= Len(rows) /\ idle.fedN <= Len(fed) /\ idle.tok <= NCtx
    BY <1>1 DEF TypesInv, IdleSized
  <1>6. /\ pc # "spec" /\ nPos = fedN /\ nPos \in Nat /\ rows \in Seq(Ids) /\ fed \in Ids
        /\ Len(fed) <= NCtx /\ nPos <= Len(rows) /\ Len(rows) <= NCtx /\ fedN <= Len(fed)
    BY <1>1 DEF TypesInv, PlacesTyped, CacheTyped, CacheSized
  <1>7. Len(rows) \in Nat /\ Len(fed) \in Nat /\ NCtx \in Nat /\ n \in Nat
    BY <1>2, <1>4, <1>6, Sizes DEF Ids
  <1>8. rows' \in Seq(Ids) /\ Len(rows) <= Len(rows') /\ Len(rows') <= NCtx
    <2>1. CASE rows' = rows
      BY <1>6, <1>7, <2>1
    <2>2. CASE IdleFits /\ \E m \in 0..Len(idle.toks) - n : Rewrites(nPos + n, m)
      <3>1. PICK m \in 0..Len(idle.toks) - n : Rewrites(nPos + n, m)
        BY <2>2
      <3>2. nPos + Len(idle.toks) <= NCtx
        BY <2>2 DEF IdleFits
      <3>. QED  BY <1>2, <1>4, <1>5, <1>6, <1>7, <3>1, <3>2 DEF Rewrites
    <2>. QED  BY <1>2, <2>1, <2>2
  <1>9. Len(fed') <= NCtx /\ Len(fed) <= Len(fed') /\ Len(fed') \in Nat
    <2>1. CASE n = 0
      BY <1>3, <1>6, <1>7, <2>1
    <2>2. CASE IdleFits
      BY <1>2, <1>3, <1>4, <1>5, <1>6, <1>7, <2>2 DEF IdleFits
    <2>. QED  BY <1>2, <2>1, <2>2
  <1>10. CacheTyped'
    BY <1>3, <1>4, <1>8 DEF CacheTyped
  <1>11. CacheSized'
    <2>1. Len(rows') \in Nat
      BY <1>8
    <2>2. fedN' <= Len(fed') /\ nPos' <= Len(rows')
      BY <1>3, <1>4, <1>5, <1>7, <1>8, <1>9, <2>1
    <2>3. pc' # "spec" /\ nPos' = fedN'
      BY <1>1, <1>3, <1>5, <1>6
    <2>4. nPos' = fedN' + (IF pc' = "spec" THEN 1 ELSE 0)
      <3>1. PICK k \in Nat : fedN' = k /\ nPos' = k
        BY <1>3, <1>4, <2>3
      <3>. QED  BY ONLY <2>3, <3>1
    <2>. QED  BY ONLY <1>8, <1>9, <1>1, <2>2, <2>4 DEF CacheSized
  <1>12. ChatTyped'
    BY <1>1, <1>3, <1>4, <1>5 DEF TypesInv, ChatTyped
  <1>13. FlagsTyped'
    BY <1>1 DEF TypesInv, FlagsTyped
  <1>14. IdleTyped' /\ IdleSized'
    BY <1>3 DEF IdleTyped, IdleSized
  <1>15. idlePc # "off" /\ UNCHANGED <<pc, turn>> /\ idlePc' \in {"start", "feed", "done"}
    BY <1>1, <1>3
  <1>. QED  BY <1>10, <1>11, <1>12, <1>13, <1>14, <1>15, IdleTypes

LEMMA TypesStep == ASSUME TypesInv, [Next]_vars PROVE TypesInv'
  <1>1. ASSUME MainStep PROVE TypesInv'
    <2>1. ASSUME Reset \/ WarmupChunk \/ WarmupFails \/ WarmupEnds PROVE TypesInv'
      BY <2>1, ResetTypes, WarmupChunkTypes, WarmupFailsTypes, WarmupEndsTypes
    <2>2. ASSUME JoinIdle \/ AfterTurn \/ RewriteAssistant \/ RequestEnds PROVE TypesInv'
      BY <2>2, JoinIdleTypes, AfterTurnTypes, RewriteAssistantTypes, RequestEndsTypes
    <2>3. ASSUME BeginTurn \/ BeginCompletion \/ PrefillChunk \/ PrefillNothing \/ PrefillStops
          PROVE  TypesInv'
      BY <2>3, BeginTurnTypes, BeginCompletionTypes, PrefillChunkTypes, PrefillNothingTypes,
         PrefillStopsTypes
    <2>4. ASSUME DecodeEnds \/ SampleNext \/ PickOnDevice \/ PickFails \/ Redo \/ RedoFails PROVE TypesInv'
      BY <2>4, DecodeEndsTypes, SampleNextTypes, PickOnDeviceTypes, PickFailsTypes, RedoTypes, RedoFailsTypes
    <2>5. ASSUME FeedToken \/ FeedLimit \/ FeedStops \/ FeedDies PROVE TypesInv'
      BY <2>5, FeedTokenTypes, FeedLimitTypes, FeedStopsOrDiesTypes
    <2>6. ASSUME SpecFeed \/ SpecRead \/ SpecReadFails \/ SpecBlocked \/ SpecUnsupported PROVE TypesInv'
      BY <2>6, SpecFeedTypes, SpecReadTypes, SpecReadFailsTypes, SpecBlockedTypes, SpecUnsupportedTypes
    <2>7. ASSUME RecordTurn PROVE TypesInv'
      BY <2>7, RecordTurnTypes
    <2>. QED  BY <1>1, <2>1, <2>2, <2>3, <2>4, <2>5, <2>6, <2>7 DEF MainStep
  <1>2. ASSUME IdleStep PROVE TypesInv'
    BY <1>2, IdleGivesUpTypes, IdleBeginsTypes, IdleChunkTypes, IdleStopsTypes DEF IdleStep
  <1>3. ASSUME Asked PROVE TypesInv'
    BY <1>3, TypeLineTypes, ChatRequestTypes, CompletionRequestTypes DEF Asked
  <1>4. ASSUME Signal PROVE TypesInv'
    BY <1>4, SignalTypes
  <1>5. ASSUME UNCHANGED vars PROVE TypesInv'
    BY <1>5, StutterTypes
  <1>. QED  BY <1>1, <1>2, <1>3, <1>4, <1>5 DEF Next

LEMMA Typed == Spec => []TypesInv
  BY InitTypes, TypesStep, PTL DEF Spec

\* Between turns a token is counted both in the cache and in fed_ids or in
\* neither, for every way a turn can end (run_generation, context_host_redo,
\* the speculative feed taken back, an idle prefill put back).
THEOREM SessionLengthsAgree == Spec => []LengthsAgree
  <1>1. TypesInv => LengthsAgree
    BY DEF TypesInv, CacheTyped, CacheSized, LengthsAgree
  <1>. QED  BY <1>1, Typed, PTL

-----------------------------------------------------------------------------
(***************************************************************************)
(* A session that is poisoned neither generates nor prefills, and an idle  *)
(* prefill that has computed something fits.                               *)
(***************************************************************************)
Sound ==
    /\ pc \in Generating => ~poisoned
    /\ pc = "turn" /\ turn.kind = "completion" => ~poisoned
    /\ idlePc \in {"start", "feed"} => ~poisoned
    /\ idlePc = "feed" /\ idle.off > 0 => IdleFits

LEMMA QuietSound ==
    ASSUME idlePc' \in {"off", "start", "done"}, pc' # "turn",
           pc' \in Generating \/ idlePc' = "start" => ~poisoned'
    PROVE  Sound'
  BY DEF Sound

\* Steps of a turn that go on only when the session is not poisoned.
LEMMA TurnSound ==
    ASSUME TypesInv, Sound, pc \notin {"input", "join"}, idlePc' = idlePc,
           \/ pc' \notin Generating \cup {"turn"}
           \/ pc \in Generating /\ pc' \in Generating /\ poisoned' = poisoned
    PROVE  Sound'
  <1>1. idlePc = "off"
    BY DEF TypesInv, PlacesTyped
  <1>2. pc' # "turn" /\ (pc' \in Generating => ~poisoned')
    BY DEF Sound, Generating, Decoding
  <1>. QED  BY <1>1, <1>2, QuietSound

LEMMA ResetSound == ASSUME TypesInv, Sound, Reset \/ WarmupChunk \/ WarmupFails PROVE Sound'
  <1>1. pc \in {"reset", "warmup"} /\ pc' \in {"warmup", "input"} /\ idlePc' = idlePc
    BY DEF Reset, WarmupChunk, WarmupFails
  <1>. QED  BY <1>1, TurnSound DEF Generating, Decoding

LEMMA EndsSound ==
    ASSUME TypesInv, Sound, WarmupEnds \/ AfterTurn \/ RewriteAssistant \/ RequestEnds
    PROVE  Sound'
  <1>1. pc \in {"warmup", "after"} /\ pc' \in {"input", "reset", "after"}
    BY DEF WarmupEnds, AfterTurn, RewriteAssistant, RequestEnds
  <1>2. idlePc = "off"
    BY <1>1 DEF TypesInv, PlacesTyped
  <1>3. idlePc' \in {"off", "start"} /\ (idlePc' = "start" => ~poisoned')
    <2>1. CASE WarmupEnds
      <3>1. CASE Driver = "server"
        BY <1>2, <2>1, <3>1 DEF WarmupEnds
      <3>2. CASE Driver # "server"
        <4>1. idlePc' \in {"off"} \cup (IF ~poisoned THEN {"start"} ELSE {}) /\ poisoned' = poisoned
          BY <2>1, <3>2 DEF WarmupEnds, StartsIdle
        <4>. QED  BY <4>1
      <3>. QED  BY <3>1, <3>2
    <2>2. CASE AfterTurn
      <3>1. poisoned' = poisoned /\ (poisoned => idlePc' = idlePc) /\ idlePc' \in {idlePc, "off", "start"}
        BY <2>2 DEF AfterTurn, StartsIdle
      <3>. QED  BY <1>2, <3>1
    <2>3. CASE RewriteAssistant \/ RequestEnds
      BY <1>2, <2>3 DEF RewriteAssistant, RequestEnds
    <2>. QED  BY <2>1, <2>2, <2>3
  <1>. QED  BY <1>1, <1>3, QuietSound DEF Generating, Decoding

LEMMA JoinIdleSound == ASSUME TypesInv, Sound, JoinIdle PROVE Sound'
  <1>1. pc = "join" /\ idlePc' = "off" /\ pc' \in {"reset", "turn"}
        /\ (pc' = "turn" => turn' = turn /\ turn.kind # "reset")
    BY DEF JoinIdle
  <1>2. turn \in TypedTurn \cup {[kind |-> "reset"]}
    BY <1>1 DEF TypesInv, TurnTyped
  <1>3. pc' = "turn" => turn'.kind = "chat"
    BY <1>1, <1>2 DEF TypedTurn
  <1>. QED  BY <1>1, <1>3 DEF Sound, Generating, Decoding

LEMMA BeginTurnSound == ASSUME TypesInv, Sound, BeginTurn PROVE Sound'
  <1>1. pc = "turn" /\ UNCHANGED <<poisoned, idlePc>>
    BY DEF BeginTurn
  <1>2. PICK ids : IF Refuses(ids) THEN Refused("chat") ELSE pc' = "prefill"
    BY DEF BeginTurn, Feeding
  <1>3. pc' = "after" \/ (~poisoned /\ pc' = "prefill")
    BY <1>2 DEF Refused, Refuses
  <1>4. idlePc = "off"
    BY <1>1 DEF TypesInv, PlacesTyped
  <1>. QED  BY <1>1, <1>3, <1>4, QuietSound DEF Generating, Decoding

LEMMA BeginCompletionSound == ASSUME TypesInv, Sound, BeginCompletion PROVE Sound'
  <1>1. pc = "turn" /\ turn.kind = "completion" /\ UNCHANGED <<poisoned, idlePc>>
    BY DEF BeginCompletion
  <1>2. pc' \in {"after", "prefill"}
    BY DEF BeginCompletion, Feeding, Refused
  <1>3. idlePc = "off" /\ ~poisoned
    BY <1>1 DEF TypesInv, PlacesTyped, Sound
  <1>. QED  BY <1>1, <1>2, <1>3, QuietSound DEF Generating, Decoding

LEMMA PrefillSound ==
    ASSUME TypesInv, Sound, PrefillChunk \/ PrefillNothing \/ PrefillStops
    PROVE  Sound'
  <1>1. /\ pc = "prefill" /\ idlePc' = idlePc
        /\ \/ pc' = "record"
           \/ pc' \in {"prefill", "sample"} /\ poisoned' = poisoned
    BY DEF PrefillChunk, PrefillNothing, PrefillStops
  <1>. QED  BY <1>1, TurnSound DEF Generating, Decoding

LEMMA DecodeSound ==
    ASSUME TypesInv, Sound,
           \/ DecodeEnds \/ SampleNext \/ PickOnDevice \/ PickFails \/ Redo \/ RedoFails
           \/ FeedToken \/ FeedLimit \/ FeedStops \/ FeedDies
           \/ SpecFeed \/ SpecRead \/ SpecReadFails \/ SpecBlocked \/ SpecUnsupported
           \/ RecordTurn
    PROVE  Sound'
  <1>1. CASE DecodeEnds \/ SampleNext \/ PickOnDevice \/ PickFails \/ Redo \/ RedoFails
    <2>1. /\ pc \in Decoding /\ idlePc' = idlePc
          /\ \/ pc' = "record"
             \/ pc' \in Decoding /\ poisoned' = poisoned
      BY <1>1 DEF DecodeEnds, SampleNext, PickOnDevice, PickFails, Redo, RedoFails, Going, Picked, Decoding
    <2>. QED  BY <2>1, TurnSound DEF Generating, Decoding
  <1>2. CASE FeedToken \/ FeedLimit \/ FeedStops \/ FeedDies \/ RecordTurn
    <2>1. /\ pc \in Decoding \cup {"record"} /\ idlePc' = idlePc
          /\ \/ pc' \in {"record", "after"}
             \/ pc = "feed" /\ pc' \in Decoding /\ poisoned' = poisoned
      BY <1>2 DEF FeedToken, FeedLimit, FeedStops, FeedDies, RecordTurn, Decoding
    <2>. QED  BY <2>1, TurnSound DEF Generating, Decoding
  <1>3. CASE SpecFeed \/ SpecRead \/ SpecReadFails \/ SpecBlocked \/ SpecUnsupported
    <2>1. /\ pc \in Decoding /\ idlePc' = idlePc
          /\ \/ pc' = "record"
             \/ pc' \in Decoding /\ poisoned' = poisoned
      BY <1>3 DEF SpecFeed, SpecRead, SpecReadFails, SpecBlocked, SpecUnsupported, Piping, Going, Picked, Decoding
    <2>. QED  BY <2>1, TurnSound DEF Generating, Decoding
  <1>. QED  BY <1>1, <1>2, <1>3

LEMMA AskedSound == ASSUME TypesInv, Sound, Asked PROVE Sound'
  <1>1. ASSUME TypeLine PROVE Sound'
    <2>1. pc' = "join" /\ UNCHANGED <<poisoned, interrupt, idlePc, idle, nPos>>
      BY <1>1 DEF TypeLine, cache
    <2>2. IdleFits' <=> IdleFits
      BY <2>1 DEF IdleFits
    <2>. QED  BY <2>1, <2>2 DEF Sound, Generating, Decoding
  <1>2. ASSUME NEW req \in ChatRequests, ChatRequest(req) PROVE Sound'
    <2>1. pc' = "turn" /\ pc = "input" /\ Driver = "server" /\ idlePc' = idlePc
          /\ turn' = [kind |-> "chat", msg |-> Last(req), req |-> req]
      BY <1>2 DEF ChatRequest
    <2>2. idlePc = "off" /\ turn'.kind = "chat"
      BY <2>1 DEF TypesInv, PlacesTyped
    <2>. QED  BY <2>1, <2>2 DEF Sound, Generating, Decoding
  <1>3. ASSUME NEW prompt \in Prompts, CompletionRequest(prompt) PROVE Sound'
    <2>1. pc' = "turn" /\ pc = "input" /\ Driver = "server" /\ idlePc' = idlePc /\ ~poisoned'
      <3>1. pc' = "turn" /\ pc = "input" /\ Driver = "server" /\ idlePc' = idlePc
            /\ Prepared(CommonLen(Fed, <<Bos>> \o Encode(prompt)) > 0)
        BY <1>3 DEF CompletionRequest
      <3>2. ~poisoned'
        BY <3>1 DEF Prepared, CacheCleared
      <3>. QED  BY <3>1, <3>2
    <2>2. idlePc = "off"
      BY <2>1 DEF TypesInv, PlacesTyped
    <2>. QED  BY <2>1, <2>2 DEF Sound, Generating, Decoding
  <1>. QED  BY <1>1, <1>2, <1>3 DEF Asked

LEMMA SignalSound == ASSUME Sound, Signal PROVE Sound'
  <1>1. UNCHANGED <<nPos, poisoned, pc, turn, idlePc, idle>>
    BY DEF Signal, cache
  <1>2. IdleFits' <=> IdleFits
    BY <1>1 DEF IdleFits
  <1>. QED  BY <1>1, <1>2 DEF Sound

LEMMA IdleSound == ASSUME TypesInv, Sound, IdleStep PROVE Sound'
  <1>1. CASE IdleGivesUp
    <2>1. idlePc' = "done" /\ pc' = pc /\ idlePc = "start"
      BY <1>1 DEF IdleGivesUp
    <2>2. pc \in {"input", "join"}
      BY <2>1 DEF TypesInv, PlacesTyped
    <2>. QED  BY <2>1, <2>2, QuietSound DEF Generating, Decoding
  <1>2. CASE IdleBegins
    <2>1. idlePc = "start" /\ idlePc' = "feed" /\ pc' = pc /\ poisoned' = poisoned /\ idle'.off = 0
      BY <1>2, IdleBeginsIs
    <2>2. pc \in {"input", "join"}
      BY <2>1 DEF TypesInv, PlacesTyped
    <2>3. ~poisoned' /\ pc' \in {"input", "join"}
      BY <2>1, <2>2 DEF Sound
    <2>4. ~(idle'.off > 0)
      BY <2>1
    <2>. QED  BY ONLY <2>1, <2>3, <2>4 DEF Sound, Generating, Decoding
  <1>3. CASE IdleChunk
    <2>1. /\ idlePc = "feed" /\ idlePc' \in {"feed", "done"} /\ pc' = pc /\ poisoned' = poisoned
          /\ IdleFits /\ FeedChunk(idle)
          /\ idlePc' = "feed" => ~LastChunk(idle)
          /\ idle' = [idle EXCEPT !.off = @ + Len(NextChunk(idle))]
      BY <1>3 DEF IdleChunk, FeedChunk
    <2>2. pc \in {"input", "join"} /\ ~poisoned
      BY <2>1 DEF TypesInv, PlacesTyped, Sound
    <2>3. idlePc' = "feed" => nPos' = nPos
      BY <2>1 DEF FeedChunk
    <2>4. idle \in IdleRun
      BY <2>1, IdleBatch
    <2>5. idle'.toks = idle.toks
      BY <2>1, <2>4 DEF IdleRun
    <2>6. idlePc' = "feed" => IdleFits'
      BY <2>1, <2>3, <2>5 DEF IdleFits
    <2>. QED  BY <2>1, <2>2, <2>6 DEF Sound, Generating, Decoding
  <1>4. CASE IdleStops
    <2>1. idlePc = "feed" /\ pc' = pc
      BY <1>4, IdleStopsIs
    <2>2. idlePc' = "done"
      BY <1>4 DEF IdleStops, Restored
    <2>3. pc \in {"input", "join"}
      BY <2>1 DEF TypesInv, PlacesTyped
    <2>. QED  BY <2>1, <2>2, <2>3, QuietSound DEF Generating, Decoding
  <1>. QED  BY <1>1, <1>2, <1>3, <1>4 DEF IdleStep

LEMMA SoundStep == ASSUME TypesInv, Sound, [Next]_vars PROVE Sound'
  <1>1. ASSUME MainStep PROVE Sound'
    BY <1>1, ResetSound, EndsSound, JoinIdleSound, BeginTurnSound, BeginCompletionSound, PrefillSound,
       DecodeSound DEF MainStep
  <1>2. ASSUME UNCHANGED vars PROVE Sound'
    <2>1. UNCHANGED <<nPos, poisoned, interrupt, pc, turn, idlePc, idle>>
      BY <1>2 DEF vars, cache
    <2>. QED  BY <2>1 DEF Sound, IdleFits
  <1>. QED  BY <1>1, <1>2, IdleSound, AskedSound, SignalSound DEF Next

LEMMA InitSound == Init => Sound
  BY DEF Init, Sound, Generating, Decoding

-----------------------------------------------------------------------------
(***************************************************************************)
(* The history of what an interrupted idle prefill wrote over: it counts   *)
(* tokens, it is not whole in the terminal only, and while some tokens are *)
(* sure and some are not, the session rests until a turn begins or it is   *)
(* reset.                                                                  *)
(***************************************************************************)
SureTyped ==
    /\ sure \in [tokens : Nat, sync : Nat]
    /\ sure.sync <= sure.tokens /\ sure.tokens <= NCtx
SureRests ==
    sure # Whole /\ sure.tokens > 0 =>
        /\ idlePc \in {"off", "done"} /\ pc \in {"input", "join", "turn", "after", "reset"}
        /\ pc = "after" => turn.rc = Error
        /\ sure.tokens < fedN
Terminal ==
    /\ sure # Whole => Driver = "interactive"
    /\ Driver # "server" => presampled = None
SureInv == SureTyped /\ SureRests /\ Terminal

LEMMA WholeIs ==
    /\ Whole \in [tokens : Nat, sync : Nat] /\ Whole.tokens = NCtx /\ Whole.sync = NCtx
    /\ Lost \in [tokens : Nat, sync : Nat] /\ Lost.tokens = 0 /\ Lost.sync = 0 /\ Lost # Whole
  <1>1. /\ Whole \in [tokens : Nat, sync : Nat] /\ Whole.tokens = NCtx /\ Whole.sync = NCtx
        /\ Lost \in [tokens : Nat, sync : Nat] /\ Lost.tokens = 0 /\ Lost.sync = 0
    BY Sizes DEF Whole, Lost
  <1>. QED  BY <1>1, Sizes

\* The steps that change it.
LEMMA SureKept ==
    ASSUME [Next]_vars
    PROVE  \/ UNCHANGED sure
           \/ (CacheCleared /\ (Reset \/ Driver = "server"))
           \/ BeginTurn \/ BeginCompletion \/ IdleStops
  <1>1. ASSUME MainStep, ~BeginTurn, ~BeginCompletion
        PROVE  UNCHANGED sure \/ (CacheCleared /\ (Reset \/ Driver = "server"))
    <2>1. ASSUME Reset \/ WarmupChunk \/ WarmupFails \/ WarmupEnds
          PROVE  UNCHANGED sure \/ (CacheCleared /\ (Reset \/ Driver = "server"))
      BY <2>1 DEF Reset, WarmupChunk, WarmupFails, WarmupEnds, FeedChunk, cache
    <2>2. ASSUME JoinIdle \/ AfterTurn \/ RewriteAssistant \/ RequestEnds PROVE UNCHANGED sure
      BY <2>2 DEF JoinIdle, AfterTurn, RewriteAssistant, RequestEnds, cache
    <2>3. ASSUME PrefillChunk \/ PrefillNothing \/ PrefillStops PROVE UNCHANGED sure
      BY <2>3 DEF PrefillChunk, PrefillNothing, PrefillStops, FeedChunk, cache
    <2>4. ASSUME DecodeEnds \/ SampleNext \/ PickOnDevice \/ PickFails \/ Redo \/ RedoFails
          PROVE  UNCHANGED sure
      BY <2>4 DEF DecodeEnds, SampleNext, PickOnDevice, PickFails, Redo, RedoFails, cache
    <2>5. ASSUME FeedToken \/ FeedLimit \/ FeedStops \/ FeedDies \/ RecordTurn PROVE UNCHANGED sure
      BY <2>5 DEF FeedToken, FeedLimit, FeedStops, FeedDies, RecordTurn, cache
    <2>6. ASSUME SpecFeed \/ SpecRead \/ SpecReadFails \/ SpecBlocked \/ SpecUnsupported
          PROVE  UNCHANGED sure
      BY <2>6 DEF SpecFeed, SpecRead, SpecReadFails, SpecBlocked, SpecUnsupported, cache
    <2>. QED  BY <1>1, <2>1, <2>2, <2>3, <2>4, <2>5, <2>6 DEF MainStep
  <1>2. ASSUME IdleStep, ~IdleStops PROVE UNCHANGED sure
    BY <1>2 DEF IdleStep, IdleGivesUp, IdleBegins, IdleChunk, FeedChunk, cache
  <1>3. ASSUME Asked PROVE UNCHANGED sure \/ (CacheCleared /\ Driver = "server")
    BY <1>3 DEF Asked, TypeLine, ChatRequest, CompletionRequest, Prepared, cache
  <1>4. ASSUME Signal \/ UNCHANGED vars PROVE UNCHANGED sure
    BY <1>4 DEF Signal, vars, cache
  <1>. QED  BY <1>1, <1>2, <1>3, <1>4 DEF Next

\* A turn begins: what it reuses is sure.
LEMMA ReusesWhat ==
    ASSUME TypesInv, SureTyped, pc # "spec", NEW ids \in Ids, Rewound(ids)
    PROVE  /\ sure' \in {Whole, Lost} /\ (sure = Whole => sure' = Whole)
           /\ sure' = Whole => Reuse(ids) <= sure.tokens /\ syncTok <= sure.sync
  <1>. DEFINE s == SubSeq(fed, 1, FedSynced)
              c == CommonLen(s, ids)
  <1>1. /\ fedN \in Nat /\ nPos \in Nat /\ fedN <= nPos /\ fedN <= Len(fed) /\ fed \in Seq(Text)
        /\ Len(fed) \in Nat /\ Len(fed) <= NCtx /\ NCtx \in Nat /\ syncTok \in Nat /\ syncTok <= NCtx
    BY Sizes DEF TypesInv, CacheTyped, CacheSized, ChatTyped, Ids
  <1>2. FedSynced = fedN /\ fedN \in 0..Len(fed)
    BY <1>1, FedSyncedIs
  <1>3. s \in Seq(Text) /\ Len(s) = fedN
    BY <1>1, <1>2, Beginning
  <1>4. sure' = IF c <= sure.tokens /\ syncTok <= sure.sync THEN Whole ELSE Lost
    BY DEF Rewound, ReusesSure
  <1>5. Reuse(ids) = IF ids # <<>> /\ c = Len(ids) /\ c < FedSynced THEN c - 1 ELSE c
    BY DEF Reuse
  <1>. HIDE DEF s
  <1>6. c \in 0..fedN
    <2>1. ids \in Seq(Text)
      BY DEF Ids
    <2>. QED  BY <1>3, <2>1, CommonLenIs
  <1>. HIDE DEF c
  <1>7. sure.tokens \in Nat
    BY DEF SureTyped
  <1>8. sure = Whole => c <= sure.tokens /\ syncTok <= sure.sync
    BY <1>1, <1>6, WholeIs
  <1>. QED  BY <1>1, <1>4, <1>5, <1>6, <1>7, <1>8, WholeIs

\* What the restored lengths count that was written over.
LEMMA WroteOverIs ==
    ASSUME TypesInv, SureInv, idlePc = "feed", WroteOver
    PROVE  \/ sure' = sure /\ (sure = Whole => \/ idle.nPos = nPos
                                               \/ idle.off = 0 /\ rows' = rows)
           \/ sure' = Lost
           \/ /\ nPos < idle.nPos /\ sure' \in [tokens : Nat, sync : Nat] /\ sure'.sync = nPos
              /\ nPos <= sure'.tokens /\ sure'.tokens < idle.nPos /\ sure'.tokens <= nPos + idle.off
              /\ sure' # Whole /\ sure = Whole
  <1>1. /\ idle \in IdleRun /\ nPos \in Nat /\ nPos <= idle.nPos /\ idle.nPos <= Len(rows)
        /\ Len(rows) <= NCtx /\ NCtx \in Nat /\ Len(rows) \in Nat
    BY Sizes DEF TypesInv, IdleTyped, IdleSized, CacheTyped, CacheSized
  <1>2. idle.nPos \in Nat /\ idle.off \in Nat
    BY <1>1 DEF IdleRun
  <1>3. CASE idle.nPos <= nPos /\ ~Hybrid
    BY <1>1, <1>2, <1>3 DEF WroteOver
  <1>4. CASE idle.off = 0 /\ UNCHANGED <<rows, rec>>
    BY <1>4 DEF WroteOver
  <1>5. CASE ~(idle.nPos <= nPos /\ ~Hybrid) /\ ~(idle.off = 0 /\ UNCHANGED <<rows, rec>>)
    <2>1. CASE Hybrid \/ sure # Whole
      BY <1>5, <2>1 DEF WroteOver
    <2>2. CASE ~(Hybrid \/ sure # Whole)
      <3>. DEFINE t == Min({nPos + idle.off, idle.nPos - 1})
      <3>1. sure' = [tokens |-> t, sync |-> nPos]
        BY <1>5, <2>2 DEF WroteOver
      <3>2. nPos < idle.nPos
        BY <1>1, <1>2, <1>5, <2>2
      <3>3. t = IF nPos + idle.off <= idle.nPos - 1 THEN nPos + idle.off ELSE idle.nPos - 1
        BY <1>1, <1>2, MinOfTwo
      <3>. HIDE DEF t
      <3>4. t \in Nat /\ nPos <= t /\ t < idle.nPos /\ t <= nPos + idle.off
        BY <1>1, <1>2, <3>2, <3>3
      <3>5. sure' \in [tokens : Nat, sync : Nat] /\ sure'.sync = nPos /\ sure'.tokens = t
        BY <1>1, <3>1, <3>4
      <3>6. sure'.tokens # NCtx
        BY <1>1, <1>2, <3>4, <3>5
      <3>. QED  BY <2>2, <3>2, <3>4, <3>5, <3>6, WholeIs
    <2>. QED  BY <2>1, <2>2
  <1>. QED  BY <1>3, <1>4, <1>5

\* While only some tokens are sure, nothing is fed and nothing is taken back.
LEMMA RestsOn ==
    ASSUME TypesInv, SureInv, sure # Whole, sure.tokens > 0, [Next]_vars, ~Reset,
           BeginTurn \/ BeginCompletion => \E kind : Refused(kind)
    PROVE  /\ UNCHANGED <<nPos, rows, fed, fedN, syncTok, syncRender, sure>>
           /\ SureRests'
  <1>1. /\ idlePc \in {"off", "done"} /\ pc \in {"input", "join", "turn", "after", "reset"}
        /\ pc = "after" => turn.rc = Error
        /\ sure.tokens < fedN /\ Driver = "interactive"
    BY DEF SureInv, SureRests, Terminal
  <1>2. ASSUME MainStep, BeginTurn \/ BeginCompletion
        PROVE  /\ UNCHANGED <<nPos, rows, fed, fedN, syncTok, syncRender, sure, idlePc>>
               /\ pc' = "after" /\ turn'.rc = Error
    <2>1. PICK kind : Refused(kind)
      BY <1>2
    <2>2. turn'.rc = Error
      BY <2>1 DEF Refused
    <2>. QED  BY <1>2, <2>1, <2>2 DEF Refused, cache, chat, BeginTurn, BeginCompletion
  <1>3. ASSUME MainStep, ~(BeginTurn \/ BeginCompletion) PROVE JoinIdle \/ AfterTurn
    <2>1. ~(WarmupChunk \/ WarmupFails \/ WarmupEnds)
      BY <1>1 DEF WarmupChunk, WarmupFails, WarmupEnds
    <2>2. ~(RewriteAssistant \/ RequestEnds)
      BY <1>1 DEF RewriteAssistant, RequestEnds
    <2>3. ~(PrefillChunk \/ PrefillNothing \/ PrefillStops \/ DecodeEnds \/ SampleNext \/ PickOnDevice \/ PickFails)
      BY <1>1 DEF PrefillChunk, PrefillNothing, PrefillStops, DecodeEnds, SampleNext, PickOnDevice,
         PickFails, Going
    <2>4. ~(Redo \/ RedoFails \/ FeedToken \/ FeedLimit \/ FeedStops \/ FeedDies \/ RecordTurn)
      BY <1>1 DEF Redo, RedoFails, FeedToken, FeedLimit, FeedStops, FeedDies, RecordTurn
    <2>5. ~(SpecFeed \/ SpecRead \/ SpecReadFails \/ SpecBlocked \/ SpecUnsupported)
      BY <1>1 DEF SpecFeed, SpecRead, SpecReadFails, SpecBlocked, SpecUnsupported, Piping, Going
    <2>. QED  BY <1>3, <2>1, <2>2, <2>3, <2>4, <2>5 DEF MainStep
  <1>4. ASSUME JoinIdle \/ AfterTurn
        PROVE  /\ UNCHANGED <<nPos, rows, fed, fedN, syncTok, syncRender, sure>>
               /\ idlePc' \in {"off", "done"} /\ pc' \in {"turn", "reset"}
    <2>1. CASE JoinIdle
      BY <2>1 DEF JoinIdle, cache, chat
    <2>2. CASE AfterTurn
      <3>1. pc = "after" /\ turn.rc = Error
        BY <1>1, <2>2 DEF AfterTurn
      <3>. QED  BY <1>1, <2>2, <3>1 DEF AfterTurn, cache, chat
    <2>. QED  BY <1>4, <2>1, <2>2
  <1>5. ASSUME IdleStep PROVE FALSE
    BY <1>1, <1>5 DEF IdleStep, IdleGivesUp, IdleBegins, IdleChunk, IdleStops
  <1>6. ASSUME Asked
        PROVE  /\ UNCHANGED <<nPos, rows, fed, fedN, syncTok, syncRender, sure, idlePc>> /\ pc' = "join"
    BY <1>1, <1>6 DEF Asked, TypeLine, ChatRequest, CompletionRequest, cache, chat
  <1>7. ASSUME Signal \/ UNCHANGED vars
        PROVE  UNCHANGED <<nPos, rows, fed, fedN, syncTok, syncRender, sure, idlePc, pc, turn>>
    BY <1>7 DEF Signal, vars, cache, chat
  <1>. QED  BY <1>1, <1>2, <1>3, <1>4, <1>5, <1>6, <1>7 DEF Next, SureRests

\* What a turn starts with.
LEMMA FeedingStarts ==
    ASSUME NEW ids, NEW kind, NEW prev, NEW req, Feeding(ids, kind, prev, req)
    PROVE  pc' = "prefill" /\ turn'.off = 0
  <1>1. \E mode \in Modes : \E toks :
            turn' = [kind |-> kind, toks |-> toks, off |-> 0,
                     prev |-> prev, out |-> <<>>, cut |-> 0, left |-> MaxTokens, gen |-> 0,
                     mode |-> mode, hasFed |-> FALSE, unfed |-> FALSE, tok |-> None,
                     from |-> None, rc |-> Ok, req |-> req]
    BY DEF Feeding
  <1>. QED  BY <1>1 DEF Feeding

\* A turn that begins is refused, or takes back what its prompt does not share.
LEMMA BeginsWhat ==
    ASSUME TypesInv, BeginTurn \/ BeginCompletion
    PROVE  /\ pc = "turn" /\ idlePc = "off" /\ UNCHANGED <<poisoned, idlePc, presampled>>
           /\ BeginCompletion => Driver = "server"
           /\ \/ \E kind : Refused(kind)
              \/ \E ids \in Ids : Rewound(ids) /\ pc' = "prefill" /\ turn'.off = 0
  <1>1. /\ pc = "turn" /\ UNCHANGED <<poisoned, idlePc, presampled>>
        /\ BeginTurn => turn.kind = "chat"
        /\ BeginCompletion => turn.kind = "completion"
    BY DEF BeginTurn, BeginCompletion, logits
  <1>2. idlePc = "off"
    BY <1>1 DEF TypesInv, PlacesTyped
  <1>3. BeginCompletion => Driver = "server" /\ turn \in PromptTurn
    BY <1>1 DEF TypesInv, TurnTyped, TypedTurn, AskedTurn
  <1>4. CASE BeginTurn
    <2>. DEFINE ms == Append(msgs, turn.msg)
                render == Render(ms, TRUE)
                ids == TailEncode(render)
    <2>1. ids \in Ids
      <3>1. ms \in Seq(Msg)
        BY <1>1, <1>4, TurnMessage, AppendProperties DEF TypesInv, ChatTyped
      <3>. HIDE DEF ms
      <3>2. render \in Text
        BY <3>1, RenderType
      <3>. HIDE DEF render
      <3>. QED  BY <1>1, <3>2, TailEncodeType
    <2>2. IF Refuses(ids)
          THEN Refused("chat")
          ELSE Rewound(ids) /\ \E req : Feeding(ids, "chat", lastRender, req)
      BY <1>4 DEF BeginTurn
    <2>. HIDE DEF ids
    <2>3. ~Refuses(ids) => pc' = "prefill" /\ turn'.off = 0
      BY <2>2, FeedingStarts
    <2>. QED  BY <1>1, <1>2, <1>3, <2>1, <2>2, <2>3
  <1>5. CASE BeginCompletion
    <2>. DEFINE ids == <<Bos>> \o Encode(turn.prompt)
    <2>1. ids \in Ids
      <3>1. turn.prompt \in Text
        BY <1>3, <1>5 DEF PromptTurn
      <3>2. <<Bos>> \in Seq(Text) /\ Encode(turn.prompt) \in Seq(Text)
        BY <3>1, Words, OfOne, EncodeType DEF Ids
      <3>. QED  BY <3>2, ConcatProperties DEF Ids
    <2>2. IF Len(ids) > NCtx
          THEN Refused("completion")
          ELSE Rewound(ids) /\ Feeding(ids, "completion", <<>>, turn.prompt)
      BY <1>5 DEF BeginCompletion
    <2>. HIDE DEF ids
    <2>3. ~(Len(ids) > NCtx) => pc' = "prefill" /\ turn'.off = 0
      BY <2>2, FeedingStarts
    <2>. QED  BY <1>1, <1>2, <1>3, <2>1, <2>2, <2>3
  <1>. QED  BY <1>4, <1>5

\* Only the server samples ahead.
LEMMA PresampledNone ==
    ASSUME Driver # "server", presampled = None, [Next]_vars
    PROVE  presampled' = None
  <1>1. ASSUME Reset \/ WarmupChunk \/ WarmupFails \/ WarmupEnds \/ JoinIdle \/ AfterTurn \/ RewriteAssistant \/ RequestEnds
        PROVE  presampled' = None
    BY <1>1 DEF Reset, WarmupChunk, WarmupFails, WarmupEnds, JoinIdle, AfterTurn, RewriteAssistant, RequestEnds, logits
  <1>2. ASSUME BeginTurn \/ BeginCompletion \/ PrefillChunk \/ PrefillNothing \/ PrefillStops
        PROVE  presampled' = None
    BY <1>2 DEF BeginTurn, BeginCompletion, PrefillChunk, PrefillNothing, PrefillStops, logits
  <1>3. ASSUME DecodeEnds \/ SampleNext \/ PickOnDevice \/ PickFails \/ Redo \/ RedoFails
        PROVE  presampled' = None
    BY <1>3 DEF DecodeEnds, SampleNext, PickOnDevice, PickFails, Redo, RedoFails, logits
  <1>4. ASSUME FeedToken \/ FeedLimit \/ FeedStops \/ FeedDies \/ RecordTurn
        PROVE  presampled' = None
    BY <1>4 DEF FeedToken, FeedLimit, FeedStops, FeedDies, RecordTurn, logits
  <1>5. ASSUME SpecFeed \/ SpecRead \/ SpecReadFails \/ SpecBlocked \/ SpecUnsupported
        PROVE  presampled' = None
    BY <1>5 DEF SpecFeed, SpecRead, SpecReadFails, SpecBlocked, SpecUnsupported, logits
  <1>6. ASSUME IdleStep \/ Asked PROVE presampled' = None
    BY <1>6 DEF IdleStep, IdleGivesUp, IdleBegins, IdleChunk, IdleStops, Asked, TypeLine,
       ChatRequest, CompletionRequest, logits
  <1>7. ASSUME Signal \/ UNCHANGED vars PROVE presampled' = None
    BY <1>7 DEF Signal, vars, logits
  <1>. QED  BY <1>1, <1>2, <1>3, <1>4, <1>5, <1>6, <1>7 DEF Next, MainStep

LEMMA SureStep == ASSUME TypesInv, SureInv, [Next]_vars PROVE SureInv'
  <1>1. Driver # "server" => presampled' = None
    BY PresampledNone DEF SureInv, Terminal
  <1>. SUFFICES SureTyped' /\ SureRests' /\ (sure' # Whole => Driver = "interactive")
    BY <1>1 DEF SureInv, Terminal
  <1>2. ASSUME sure' \in {Whole, Lost}, sure = Whole => sure' = Whole
        PROVE  SureTyped' /\ SureRests' /\ (sure' # Whole => Driver = "interactive")
    <2>1. sure' # Whole => Driver = "interactive"
      BY <1>2 DEF SureInv, Terminal
    <2>2. SureTyped' /\ SureRests'
      BY <1>2, WholeIs, Sizes DEF SureTyped, SureRests
    <2>. QED  BY <2>1, <2>2
  <1>3. CASE CacheCleared
    BY <1>2, <1>3 DEF CacheCleared
  <1>4. ASSUME UNCHANGED sure, ~Reset, BeginTurn \/ BeginCompletion => \E kind : Refused(kind)
        PROVE  SureTyped' /\ SureRests' /\ (sure' # Whole => Driver = "interactive")
    <2>1. SureTyped' /\ (sure' # Whole => Driver = "interactive")
      BY <1>4 DEF SureInv, SureTyped, Terminal
    <2>2. CASE sure # Whole /\ sure.tokens > 0
      BY <1>4, <2>1, <2>2, RestsOn
    <2>3. CASE ~(sure # Whole /\ sure.tokens > 0)
      BY <1>4, <2>1, <2>3 DEF SureRests
    <2>. QED  BY <2>2, <2>3
  <1>5. CASE BeginTurn \/ BeginCompletion
    <2>1. pc = "turn"
      BY <1>5, BeginsWhat
    <2>2. CASE \E kind : Refused(kind)
      <3>1. UNCHANGED sure
        BY <2>2 DEF Refused, cache
      <3>2. ~Reset
        BY <2>1 DEF Reset
      <3>. QED  BY <1>4, <2>2, <3>1, <3>2
    <2>3. ASSUME NEW ids \in Ids, Rewound(ids)
          PROVE  SureTyped' /\ SureRests' /\ (sure' # Whole => Driver = "interactive")
      <3>1. SureTyped /\ pc # "spec"
        BY <2>1 DEF SureInv
      <3>2. sure' \in {Whole, Lost} /\ (sure = Whole => sure' = Whole)
        BY <2>3, <3>1, ReusesWhat
      <3>. QED  BY <1>2, <3>2
    <2>. QED  BY <1>5, <2>2, <2>3, BeginsWhat
  <1>6. CASE IdleStops
    <2>1. idlePc = "feed" /\ idle \in IdleRun /\ pc' = pc
      BY <1>6, IdleStopsIs
    <2>2. /\ pc \in {"input", "join"} /\ Driver = "interactive"
          /\ idle.nPos = idle.fedN /\ idle.nPos <= Len(rows) /\ Len(rows) <= NCtx /\ Len(rows) \in Nat
          /\ nPos \in Nat /\ NCtx \in Nat /\ idle.nPos \in Nat
      BY <2>1, Sizes DEF TypesInv, PlacesTyped, IdleSized, CacheSized, CacheTyped, IdleRun
    <2>3. idlePc' = "done" /\ fedN' = idle.fedN
      BY <1>6 DEF IdleStops, Restored
    <2>4. ~Reset /\ ~BeginTurn /\ ~BeginCompletion
      BY <2>2 DEF Reset, BeginTurn, BeginCompletion
    <2>5. CASE UNCHANGED sure
      BY <1>4, <2>4, <2>5
    <2>6. CASE ~UNCHANGED sure
      <3>1. WroteOver
        BY <1>6, <2>6 DEF IdleStops
      <3>2. CASE sure' = Lost
        BY <2>2, <3>2, WholeIs DEF SureTyped, SureRests
      <3>3. CASE sure' # Lost
        <4>1. /\ nPos < idle.nPos /\ sure' \in [tokens : Nat, sync : Nat] /\ sure'.sync = nPos
              /\ nPos <= sure'.tokens /\ sure'.tokens < idle.nPos
          BY <2>1, <2>6, <3>1, <3>3, WroteOverIs
        <4>2. SureTyped'
          BY <2>2, <4>1 DEF SureTyped
        <4>3. SureRests'
          BY <2>1, <2>2, <2>3, <4>1 DEF SureRests
        <4>. QED  BY <2>2, <4>2, <4>3
      <3>. QED  BY <3>2, <3>3
    <2>. QED  BY <2>5, <2>6
  <1>7. CASE UNCHANGED sure /\ ~CacheCleared /\ ~BeginTurn /\ ~BeginCompletion
    <2>1. ~Reset
      BY <1>7 DEF Reset
    <2>. QED  BY <1>4, <1>7, <2>1
  <1>. QED  BY <1>3, <1>5, <1>6, <1>7, SureKept

\* How it changes: it is whole or lost, stays, or an idle prefill stops.
LEMMA SureMoves ==
    ASSUME TypesInv, SureInv, [Next]_vars
    PROVE  \/ sure' \in {Whole, Lost}
           \/ UNCHANGED sure /\ ~(sure.tokens > 0)
           \/ UNCHANGED <<rows, fed, syncTok, syncRender, sure>>
           \/ IdleStops /\ sure = Whole
  <1>. DEFINE Moves == \/ sure' \in {Whole, Lost}
                       \/ UNCHANGED sure /\ ~(sure.tokens > 0)
                       \/ UNCHANGED <<rows, fed, syncTok, syncRender, sure>>
                       \/ IdleStops /\ sure = Whole
  <1>1. ASSUME UNCHANGED sure, ~Reset, BeginTurn \/ BeginCompletion => \E kind : Refused(kind)
        PROVE  Moves
    <2>1. CASE sure # Whole /\ sure.tokens > 0
      BY <1>1, <2>1, RestsOn
    <2>2. CASE sure = Whole \/ ~(sure.tokens > 0)
      BY <1>1, <2>2
    <2>. QED  BY <2>1, <2>2
  <1>2. CASE CacheCleared
    BY <1>2 DEF CacheCleared
  <1>3. CASE BeginTurn \/ BeginCompletion
    <2>1. pc = "turn" /\ pc # "spec" /\ SureTyped
      BY <1>3, BeginsWhat DEF SureInv
    <2>2. ~Reset
      BY <2>1 DEF Reset
    <2>3. (\E kind : Refused(kind)) => UNCHANGED sure
      BY DEF Refused, cache
    <2>4. ASSUME NEW ids \in Ids, Rewound(ids) PROVE Moves
      BY <2>1, <2>4, ReusesWhat
    <2>. QED  BY <1>1, <1>3, <2>2, <2>3, <2>4, BeginsWhat
  <1>4. CASE IdleStops /\ sure # Whole
    <2>1. idlePc = "feed" /\ (UNCHANGED sure \/ WroteOver)
      BY <1>4 DEF IdleStops
    <2>2. sure' = sure \/ sure' = Lost
      BY <1>4, <2>1, WroteOverIs
    <2>3. ~Reset /\ ~BeginTurn /\ ~BeginCompletion
      <3>1. pc \in {"input", "join"}
        BY <2>1 DEF TypesInv, PlacesTyped
      <3>. QED  BY <3>1 DEF Reset, BeginTurn, BeginCompletion
    <2>. QED  BY <1>1, <2>2, <2>3
  <1>5. CASE UNCHANGED sure /\ ~CacheCleared /\ ~BeginTurn /\ ~BeginCompletion
    <2>1. ~Reset
      BY <1>5 DEF Reset
    <2>. QED  BY <1>1, <1>5, <2>1
  <1>. QED  BY <1>2, <1>3, <1>4, <1>5, SureKept

LEMMA InitSure == Init => SureInv
  <1>. SUFFICES ASSUME Init PROVE SureInv
    OBVIOUS
  <1>1. sure = Whole /\ presampled = None
    BY DEF Init
  <1>. QED  BY <1>1, WholeIs, Sizes DEF SureInv, SureTyped, SureRests, Terminal

\* The lengths of the cache, of fed_ids and of their memories stay within
\* n_ctx and over what they count, and the two threads are in places of the
\* code, whatever is typed, asked, signalled or fails (context_feed_tokens_batch,
\* context_rewind, the idle prefill's restore).
THEOREM SessionTypes == Spec => []TypeOK
  <1>. DEFINE Inv == TypesInv /\ SureInv
  <1>1. Inv => TypeOK
    <2>. SUFFICES ASSUME TypesInv, SureInv PROVE TypeOK
      OBVIOUS
    <2>1. /\ nPos \in Nat /\ fedN \in Nat /\ rows \in Seq(Ids) /\ fed \in Ids
          /\ fedN <= Len(fed) /\ Len(fed) <= NCtx /\ nPos <= Len(rows) /\ Len(rows) <= NCtx
          /\ syncTok \in Nat /\ syncTok <= NCtx /\ poisoned \in BOOLEAN /\ interrupt \in BOOLEAN
      BY DEF TypesInv, CacheTyped, CacheSized, ChatTyped, FlagsTyped
    <2>2. Len(fed) \in Nat /\ Len(rows) \in Nat /\ NCtx \in Nat
      BY <2>1, Sizes DEF Ids
    <2>3. nPos \in 0..NCtx /\ fedN \in 0..NCtx /\ syncTok \in 0..NCtx
      BY <2>1, <2>2
    <2>4. /\ pc \in {"reset", "warmup", "input", "join", "turn", "prefill", "sample", "redo",
                     "resample", "feed", "spec", "record", "after"}
          /\ idlePc \in {"off", "start", "feed", "done"}
      BY DEF TypesInv, PlacesTyped, Generating, Decoding
    <2>5. sure.sync \in 0..NCtx /\ sure.tokens \in sure.sync..NCtx
      BY <2>2 DEF SureInv, SureTyped
    <2>. QED  BY <2>1, <2>3, <2>4, <2>5 DEF TypeOK
  <1>2. Init => Inv
    BY InitTypes, InitSure
  <1>3. Inv /\ [Next]_vars => Inv'
    BY TypesStep, SureStep
  <1>. QED  BY <1>1, <1>2, <1>3, PTL DEF Spec

-----------------------------------------------------------------------------
(***************************************************************************)
(* Each row of the cache was computed from the tokens of fed_ids up to its *)
(* own; the rows of a batch, from those and the batch's up to its own.     *)
(***************************************************************************)
RowsUpTo(n) == \A i \in 1..n : rows[i] = SubSeq(fed, 1, i)
BatchRows(b) == \A i \in 1..b.off : rows[nPos + i] = SubSeq(fed, 1, nPos) \o SubSeq(b.toks, 1, i)

RowsHoldFed ==
    ~poisoned =>
        /\ RowsUpTo(fedN)
        /\ pc = "spec" => rows[nPos] = Append(Fed, turn.tok)
        /\ pc \in {"warmup", "prefill"} /\ turn.off < Len(turn.toks) => BatchRows(turn)
        /\ idlePc = "feed" => BatchRows(idle) /\ (idle.off = 0 => RowsUpTo(idle.fedN))

\* Where some tokens are not sure any more, the others' rows are.
SureRows == sure # Whole => RowsUpTo(sure.tokens)

\* The row a batch's next chunk goes on from.
LEMMA BatchBelow ==
    ASSUME NEW b, Batch(b), RowsUpTo(fedN), BatchRows(b)
    PROVE  Below(nPos + b.off) = SubSeq(fed, 1, fedN) \o SubSeq(b.toks, 1, b.off)
  <1>1. /\ fed \in Seq(Text) /\ b.toks \in Seq(Text) /\ fedN \in 0..Len(fed) /\ b.off \in 0..Len(b.toks)
        /\ nPos = fedN /\ fedN \in Nat /\ b.off \in Nat
    BY DEF Batch, CacheTyped, Ids
  <1>2. CASE b.off > 0
    <2>1. b.off \in 1..b.off /\ nPos + b.off # 0
      BY <1>1, <1>2
    <2>. QED  BY <1>1, <2>1 DEF Below, BatchRows
  <1>3. CASE b.off = 0
    <2>. DEFINE s == SubSeq(fed, 1, fedN)
    <2>1. s \in Seq(Text) /\ (fedN = 0 => s = <<>>)
      BY <1>1, Beginning
    <2>2. SubSeq(b.toks, 1, 0) = <<>>
      BY <1>1, Beginning
    <2>3. Below(fedN) = s
      <3>1. CASE fedN = 0
        BY <2>1, <3>1 DEF Below
      <3>2. CASE fedN # 0
        <4>1. fedN \in 1..fedN
          BY <1>1, <3>2
        <4>. QED  BY <3>2, <4>1 DEF Below, RowsUpTo
      <3>. QED  BY <3>1, <3>2
    <2>. HIDE DEF s
    <2>4. s \o <<>> = s
      BY <2>1, ConcatEmptySeq
    <2>5. nPos + b.off = fedN
      BY <1>1, <1>3
    <2>6. Below(nPos + b.off) = s
      BY ONLY <2>3, <2>5
    <2>7. SubSeq(b.toks, 1, b.off) = <<>>
      BY ONLY <1>3, <2>2
    <2>8. s \o SubSeq(b.toks, 1, b.off) = s
      BY ONLY <2>4, <2>7
    <2>. QED  BY ONLY <2>6, <2>8 DEF s
  <1>4. b.off > 0 \/ b.off = 0
    BY <1>1
  <1>. QED  BY ONLY <1>2, <1>3, <1>4

\* A chunk computes its batch's next rows.
LEMMA ChunkRows ==
    ASSUME NEW b, Batch(b), FeedChunk(b), RowsUpTo(fedN), BatchRows(b)
    PROVE  /\ \A i \in 1..fedN : rows'[i] = SubSeq(fed, 1, i)
           /\ \A i \in 1..b.off + Len(NextChunk(b)) :
                  rows'[nPos + i] = SubSeq(fed, 1, fedN) \o SubSeq(b.toks, 1, i)
  <1>. DEFINE c == NextChunk(b)
              s == SubSeq(fed, 1, fedN)
              o == SubSeq(b.toks, 1, b.off)
              e(i) == SubSeq(c, 1, i)
  <1>1. /\ fed \in Seq(Text) /\ b.toks \in Seq(Text) /\ fedN \in 0..Len(fed) /\ b.off \in 0..Len(b.toks)
        /\ nPos = fedN /\ fedN \in Nat /\ b.off \in Nat /\ b.toks \in Ids
    BY DEF Batch, CacheTyped, Ids
  <1>2. /\ b.off < Len(b.toks) /\ Len(c) \in 1..Len(b.toks) - b.off
        /\ Rewrites(nPos + b.off, Len(c))
        /\ \A i \in 1..Len(c) : rows'[nPos + b.off + i] = Row(nPos + b.off, e(i))
    BY ChunkIs
  <1>3. /\ c \in Ids /\ \A i \in 0..Len(c) : o \o e(i) = SubSeq(b.toks, 1, b.off + i)
    BY <1>1, <1>2, NextChunkIs
  <1>4. Below(nPos + b.off) = s \o o
    BY BatchBelow
  <1>5. s \in Seq(Text) /\ o \in Seq(Text) /\ \A i \in 0..Len(c) : e(i) \in Seq(Text)
    <2>1. c \in Seq(Text)
      BY <1>3 DEF Ids
    <2>. HIDE DEF c
    <2>. QED  BY <1>1, <2>1, Beginning
  <1>6. \A i \in 1..nPos + b.off : rows'[i] = rows[i]
    BY <1>2 DEF Rewrites
  <1>. HIDE DEF c, s, o, e
  <1>7. ASSUME NEW i \in 1..fedN PROVE rows'[i] = SubSeq(fed, 1, i)
    <2>1. i \in 1..nPos + b.off
      BY <1>1
    <2>. QED  BY <1>6, <2>1 DEF RowsUpTo
  <1>8. ASSUME NEW i \in 1..b.off PROVE rows'[nPos + i] = s \o SubSeq(b.toks, 1, i)
    <2>1. nPos + i \in 1..nPos + b.off
      BY <1>1
    <2>. QED  BY <1>1, <1>6, <2>1 DEF BatchRows, s
  <1>9. ASSUME NEW i \in 1..Len(c) PROVE rows'[nPos + (b.off + i)] = s \o SubSeq(b.toks, 1, b.off + i)
    <2>1. i \in 0..Len(c) /\ nPos + b.off + i = nPos + (b.off + i)
      BY <1>1, <1>2
    <2>2. rows'[nPos + (b.off + i)] = (s \o o) \o e(i)
      BY <1>2, <1>4, <2>1 DEF Row
    <2>3. (s \o o) \o e(i) = s \o (o \o e(i))
      BY <1>5, <2>1, ConcatAssociative
    <2>. QED  BY <1>3, <2>1, <2>2, <2>3
  <1>10. ASSUME NEW i \in 1..b.off + Len(c) PROVE rows'[nPos + i] = s \o SubSeq(b.toks, 1, i)
    <2>1. CASE i <= b.off
      <3>1. i \in 1..b.off
        BY <1>1, <2>1
      <3>. QED  BY <1>8, <3>1
    <2>2. CASE ~(i <= b.off)
      <3>1. i - b.off \in 1..Len(c) /\ b.off + (i - b.off) = i
        BY <1>1, <1>2, <2>2
      <3>. QED  BY <1>9, <3>1
    <2>. QED  BY <2>1, <2>2
  <1>. QED  BY <1>7, <1>10 DEF c, s

\* The whole batch has become part of fed_ids, or the rest is as it was.
LEMMA ChunkHolds ==
    ASSUME NEW b, Batch(b), FeedChunk(b), RowsUpTo(fedN), BatchRows(b)
    PROVE  /\ RowsUpTo(fedN)'
           /\ ~LastChunk(b) =>
                  \A i \in 1..b.off + Len(NextChunk(b)) :
                      rows'[nPos' + i] = SubSeq(fed', 1, nPos') \o SubSeq(b.toks, 1, i)
  <1>1. /\ \A i \in 1..fedN : rows'[i] = SubSeq(fed, 1, i)
        /\ \A i \in 1..b.off + Len(NextChunk(b)) :
               rows'[nPos + i] = SubSeq(fed, 1, fedN) \o SubSeq(b.toks, 1, i)
    BY ChunkRows
  <1>2. fedN \in Nat /\ nPos = fedN /\ Len(b.toks) \in Nat
    BY DEF Batch, CacheTyped, Ids
  <1>3. CASE ~LastChunk(b)
    <2>1. UNCHANGED <<nPos, fed, fedN>>
      BY <1>3, ChunkIs
    <2>2. RowsUpTo(fedN)'
      BY <1>1, <2>1 DEF RowsUpTo
    <2>. QED  BY <1>1, <1>2, <2>1, <2>2
  <1>4. CASE LastChunk(b)
    <2>1. Takes(b.toks, Len(b.toks)) /\ b.off + Len(NextChunk(b)) = Len(b.toks)
      BY <1>4, ChunkIs
    <2>2. /\ fedN' = fedN + Len(b.toks)
          /\ \A i \in 0..Len(b.toks) : SubSeq(fed', 1, fedN + i) = SubSeq(fed, 1, fedN) \o SubSeq(b.toks, 1, i)
          /\ \A k \in 0..fedN : SubSeq(fed', 1, k) = SubSeq(fed, 1, k)
      BY <2>1 DEF Takes
    <2>3. \A i \in 1..Len(b.toks) : rows'[fedN + i] = SubSeq(fed, 1, fedN) \o SubSeq(b.toks, 1, i)
      BY <1>1, <1>2, <2>1
    <2>4. ASSUME NEW j \in 1..fedN + Len(b.toks) PROVE rows'[j] = SubSeq(fed', 1, j)
      <3>1. CASE j <= fedN
        <4>1. j \in 1..fedN /\ j \in 0..fedN
          BY <1>2, <3>1
        <4>. QED  BY <1>1, <2>2, <4>1
      <3>2. CASE ~(j <= fedN)
        <4>1. j - fedN \in 1..Len(b.toks) /\ j - fedN \in 0..Len(b.toks) /\ fedN + (j - fedN) = j
          BY <1>2, <3>2
        <4>2. SubSeq(fed', 1, fedN + (j - fedN)) = rows'[fedN + (j - fedN)]
          BY <2>2, <2>3, <4>1
        <4>. QED  BY <4>1, <4>2
      <3>. QED  BY <3>1, <3>2
    <2>. QED  BY <1>4, <2>2, <2>4 DEF RowsUpTo
  <1>. QED  BY <1>3, <1>4

\* Rows below the tokens that count are left alone.
LEMMA RowsStay ==
    ASSUME RowsUpTo(fedN), fedN \in Nat, fed' = fed, fedN' \in 0..fedN,
           \A i \in 1..fedN' : rows'[i] = rows[i]
    PROVE  RowsUpTo(fedN)'
  <1>1. \A i \in 1..fedN' : i \in 1..fedN
    OBVIOUS
  <1>. QED  BY <1>1 DEF RowsUpTo

\* A token is computed after those that count.
LEMMA OneMore ==
    ASSUME CacheTyped, fedN <= Len(fed), fedN <= Len(rows), RowsUpTo(fedN), NEW t \in Text,
           Computes(fedN, <<t>>)
    PROVE  /\ rows'[fedN + 1] = Append(Fed, t) /\ Row(fedN, <<t>>) = Append(Fed, t)
           /\ \A i \in 1..fedN : rows'[i] = rows[i]
  <1>1. /\ fed \in Seq(Text) /\ fedN \in 0..Len(fed) /\ rows \in Seq(Ids) /\ fedN \in 0..Len(rows)
        /\ fedN \in Nat
    BY DEF CacheTyped, Ids
  <1>2. Rewrites(fedN, 1) /\ rows'[fedN + 1] = Row(fedN, <<t>>)
    BY <1>1, FeedOneIs
  <1>3. Below(fedN) = Fed /\ Fed \in Seq(Text)
    <2>1. CASE fedN = 0
      BY <1>1, <2>1, Beginning DEF Below, Fed
    <2>2. CASE fedN # 0
      <3>1. fedN \in 1..fedN
        BY <1>1, <2>2
      <3>. QED  BY <1>1, <2>2, <3>1, Beginning DEF Below, Fed, RowsUpTo
    <2>. QED  BY <2>1, <2>2
  <1>4. Row(fedN, <<t>>) = Append(Fed, t)
    BY <1>3, AppendIsConcat DEF Row
  <1>. QED  BY <1>2, <1>4 DEF Rewrites

-----------------------------------------------------------------------------
(***************************************************************************)
(* Every step keeps the rows those of fed_ids, unless it poisons.          *)
(***************************************************************************)
\* The shape of most steps: no batch goes on after them.
LEMMA Holds ==
    ASSUME ~poisoned' => RowsUpTo(fedN)', pc' # "spec", idlePc' # "feed",
           pc' \in {"warmup", "prefill"} /\ turn'.off < Len(turn'.toks) => BatchRows(turn)'
    PROVE  RowsHoldFed'
  BY DEF RowsHoldFed

LEMMA AsideHolds ==
    ASSUME TypesInv, RowsHoldFed, UNCHANGED <<nPos, rows, fed, fedN>>, poisoned' = poisoned,
           pc' \notin {"warmup", "prefill", "spec"}, idlePc' # "feed"
    PROVE  RowsHoldFed'
  <1>1. ~poisoned' => RowsUpTo(fedN)'
    BY DEF RowsHoldFed, RowsUpTo
  <1>. QED  BY <1>1, Holds

LEMMA ClearedHolds ==
    ASSUME fedN' = 0, pc' \notin {"warmup", "prefill", "spec"}, idlePc' # "feed"
    PROVE  RowsHoldFed'
  <1>1. RowsUpTo(fedN)'
    BY DEF RowsUpTo
  <1>. QED  BY <1>1, Holds

LEMMA ResetHolds == ASSUME TypesInv, Reset PROVE RowsHoldFed'
  <1>1. fedN' = 0 /\ pc = "reset" /\ pc' \in {"warmup", "input"} /\ idlePc' = idlePc
        /\ (pc' = "warmup" => turn'.off = 0)
    <2>1. fedN' = 0 /\ pc = "reset" /\ idlePc' = idlePc
      BY DEF Reset, CacheCleared
    <2>2. CASE Warmup
      <3>1. pc' = "warmup"
            /\ \E t : turn' = [kind |-> "warmup", toks |-> t, off |-> 0]
        BY <2>2 DEF Reset
      <3>. QED  BY <2>1, <3>1
    <2>3. CASE ~Warmup
      BY <2>1, <2>3 DEF Reset
    <2>. QED  BY <2>2, <2>3
  <1>2. idlePc' = "off"
    BY <1>1 DEF TypesInv, PlacesTyped
  <1>3. RowsUpTo(fedN)'
    BY <1>1 DEF RowsUpTo
  <1>4. pc' \in {"warmup", "prefill"} => BatchRows(turn)'
    BY <1>1 DEF BatchRows
  <1>. QED  BY <1>1, <1>2, <1>3, <1>4, Holds

\* A request or the end of a warmup keeps the cache, or clears it.
LEMMA KeptOrCleared ==
    ASSUME TypesInv, RowsHoldFed, CacheCleared \/ UNCHANGED <<nPos, rows, fed, fedN, poisoned>>,
           pc' \notin {"warmup", "prefill", "spec"}, idlePc' # "feed"
    PROVE  RowsHoldFed'
  <1>1. CASE CacheCleared
    BY <1>1, ClearedHolds DEF CacheCleared
  <1>2. CASE UNCHANGED <<nPos, rows, fed, fedN, poisoned>>
    BY <1>2, AsideHolds
  <1>. QED  BY <1>1, <1>2

LEMMA EndsHolds ==
    ASSUME TypesInv, RowsHoldFed,
           WarmupEnds \/ AfterTurn \/ RewriteAssistant \/ RequestEnds \/ JoinIdle
    PROVE  RowsHoldFed'
  <1>1. pc \in {"warmup", "after", "join"} /\ pc' \in {"input", "reset", "after", "turn"}
    BY DEF WarmupEnds, AfterTurn, RewriteAssistant, RequestEnds, JoinIdle
  <1>2. CacheCleared \/ UNCHANGED <<nPos, rows, fed, fedN, poisoned>>
    BY DEF WarmupEnds, AfterTurn, RewriteAssistant, RequestEnds, JoinIdle, cache
  <1>3. idlePc' \in {idlePc, "off", "start"} /\ (JoinIdle => idlePc' = "off")
    <2>1. WarmupEnds => idlePc' \in {idlePc, "off", "start"}
      BY DEF WarmupEnds, StartsIdle
    <2>2. AfterTurn => idlePc' \in {idlePc, "off", "start"}
      BY DEF AfterTurn, StartsIdle
    <2>3. RewriteAssistant \/ RequestEnds => idlePc' = idlePc
      BY DEF RewriteAssistant, RequestEnds
    <2>4. JoinIdle => idlePc' = "off"
      BY DEF JoinIdle
    <2>. QED  BY <2>1, <2>2, <2>3, <2>4
  <1>4. idlePc' # "feed"
    <2>1. pc = "join" => JoinIdle
      BY DEF WarmupEnds, AfterTurn, RewriteAssistant, RequestEnds
    <2>2. pc # "join" => idlePc = "off"
      BY <1>1 DEF TypesInv, PlacesTyped
    <2>. QED  BY <1>3, <2>1, <2>2
  <1>. QED  BY <1>1, <1>2, <1>4, KeptOrCleared

LEMMA AskedHolds == ASSUME TypesInv, RowsHoldFed, Asked PROVE RowsHoldFed'
  <1>1. ASSUME TypeLine PROVE RowsHoldFed'
    <2>1. pc = "input" /\ pc' = "join" /\ UNCHANGED <<nPos, rows, fed, fedN, poisoned, idlePc, idle>>
      BY <1>1 DEF TypeLine, cache
    <2>2. ~poisoned' => RowsUpTo(fedN)' /\ (idlePc' = "feed" => BatchRows(idle)'
                        /\ (idle'.off = 0 => RowsUpTo(idle.fedN)'))
      BY <2>1 DEF RowsHoldFed, RowsUpTo, BatchRows
    <2>. QED  BY <2>1, <2>2 DEF RowsHoldFed
  <1>2. ASSUME NEW req \in ChatRequests, ChatRequest(req) PROVE RowsHoldFed'
    <2>1. pc' = "turn" /\ pc = "input" /\ Driver = "server" /\ idlePc' = idlePc
          /\ (CacheCleared \/ UNCHANGED <<nPos, rows, fed, fedN, poisoned>>)
      BY <1>2 DEF ChatRequest, cache
    <2>2. idlePc' # "feed"
      BY <2>1 DEF TypesInv, PlacesTyped
    <2>. QED  BY <2>1, <2>2, KeptOrCleared
  <1>3. ASSUME NEW prompt \in Prompts, CompletionRequest(prompt) PROVE RowsHoldFed'
    <2>1. pc' = "turn" /\ pc = "input" /\ Driver = "server" /\ idlePc' = idlePc
          /\ (CacheCleared \/ UNCHANGED <<nPos, rows, fed, fedN, poisoned>>)
      <3>1. pc' = "turn" /\ pc = "input" /\ Driver = "server" /\ idlePc' = idlePc
            /\ Prepared(CommonLen(Fed, <<Bos>> \o Encode(prompt)) > 0)
        BY <1>3 DEF CompletionRequest
      <3>. QED  BY <3>1 DEF Prepared, cache
    <2>2. idlePc' # "feed"
      BY <2>1 DEF TypesInv, PlacesTyped
    <2>. QED  BY <2>1, <2>2, KeptOrCleared
  <1>. QED  BY <1>1, <1>2, <1>3 DEF Asked

\* A prompt begins: what was fed of it already stays.
LEMMA BegunHolds ==
    ASSUME TypesInv, pc = "turn", NEW ids \in Ids, RowsUpTo(Reuse(ids)), Rewound(ids),
           pc' = "prefill", turn'.off = 0, idlePc' = idlePc
    PROVE  RowsHoldFed'
  <1>. DEFINE r == Reuse(ids)
  <1>1. r \in 0..fedN /\ fedN' = r /\ rows' = SubSeq(rows, 1, r) /\ fed' = SubSeq(fed, 1, r) /\ nPos = fedN
    BY RewoundIs
  <1>. HIDE DEF r
  <1>2. /\ rows \in Seq(Ids) /\ fed \in Seq(Text) /\ fedN \in Nat /\ fedN <= Len(fed) /\ fedN <= Len(rows)
        /\ idlePc = "off"
    BY <1>1 DEF TypesInv, CacheTyped, CacheSized, PlacesTyped, Ids
  <1>3. r \in 0..Len(fed) /\ r \in 0..Len(rows)
    BY <1>1, <1>2
  <1>4. ASSUME NEW i \in 1..r PROVE rows'[i] = SubSeq(fed', 1, i)
    <2>1. rows'[i] = rows[i]
      BY <1>1, <1>2, <1>3, Beginning
    <2>2. i \in 0..r /\ i \in 1..fedN
      BY <1>1, <1>2
    <2>3. SubSeq(fed', 1, i) = SubSeq(fed, 1, i)
      BY <1>1, <1>2, <1>3, <2>2, BeginningOfBeginning
    <2>4. rows[i] = SubSeq(fed, 1, i)
      BY DEF RowsUpTo, r
    <2>. QED  BY <2>1, <2>3, <2>4
  <1>5. RowsUpTo(fedN)'
    BY <1>1, <1>4 DEF RowsUpTo
  <1>6. BatchRows(turn)'
    BY DEF BatchRows
  <1>. QED  BY <1>2, <1>5, <1>6, Holds

\* A turn goes on from rows that are sure.
LEMMA BeginsHolds ==
    ASSUME TypesInv, SureInv, SureRows, sure = Whole => RowsHoldFed, BeginTurn \/ BeginCompletion,
           sure' = Whole
    PROVE  RowsHoldFed'
  <1>1. pc = "turn" /\ pc # "spec" /\ idlePc = "off" /\ UNCHANGED <<poisoned, idlePc>>
    BY BeginsWhat
  <1>2. ASSUME NEW kind, Refused(kind) PROVE RowsHoldFed'
    <2>1. pc' = "after" /\ UNCHANGED <<nPos, rows, fed, fedN, sure>>
      BY <1>2 DEF Refused, cache
    <2>. QED  BY <1>1, <2>1, AsideHolds
  <1>3. ASSUME NEW ids \in Ids, Rewound(ids), pc' = "prefill", turn'.off = 0, ~poisoned
        PROVE  RowsHoldFed'
    <2>1. Reuse(ids) \in 0..fedN /\ fedN \in Nat
      BY <1>1, <1>3, RewoundIs DEF TypesInv, CacheTyped
    <2>2. SureTyped /\ sure.tokens \in Nat
      BY DEF SureInv, SureTyped
    <2>3. Reuse(ids) <= sure.tokens
      BY <1>1, <1>3, <2>2, ReusesWhat
    <2>4. ASSUME NEW n \in Nat, Reuse(ids) <= n, RowsUpTo(n) PROVE RowsUpTo(Reuse(ids))
      <3>1. \A i \in 1..Reuse(ids) : i \in 1..n
        BY <2>1, <2>4
      <3>. QED  BY <2>4, <3>1 DEF RowsUpTo
    <2>5. IF sure = Whole THEN RowsUpTo(fedN) ELSE RowsUpTo(sure.tokens)
      BY <1>3 DEF RowsHoldFed, SureRows
    <2>6. RowsUpTo(Reuse(ids))
      BY <2>1, <2>2, <2>3, <2>4, <2>5
    <2>. QED  BY <1>1, <1>3, <2>6, BegunHolds
  <1>4. CASE poisoned
    BY <1>1, <1>4 DEF RowsHoldFed
  <1>. QED  BY <1>2, <1>3, <1>4, BeginsWhat

LEMMA ChunkStepHolds ==
    ASSUME TypesInv, RowsHoldFed, pc \in {"warmup", "prefill"}, FeedChunk(turn),
           turn' = [turn EXCEPT !.off = @ + Len(NextChunk(turn))],
           poisoned' = poisoned, idlePc' = idlePc, pc' # "spec",
           LastChunk(turn) \/ pc' = pc
    PROVE  RowsHoldFed'
  <1>1. turn.off < Len(turn.toks) /\ idlePc = "off"
    BY DEF FeedChunk, TypesInv, PlacesTyped
  <1>2. Batch(turn)
    BY <1>1, TurnBatch
  <1>3. turn \in FeedTurn \cup WarmTurn
    BY DEF TypesInv, TurnTyped, Generating
  <1>. DEFINE n == Len(NextChunk(turn))
  <1>4. n \in 1..Len(turn.toks) - turn.off /\ (LastChunk(turn) <=> turn.off + n = Len(turn.toks))
    BY <1>2, ChunkIs
  <1>5. ASSUME ~poisoned
        PROVE  /\ RowsUpTo(fedN)'
               /\ ~LastChunk(turn) =>
                      \A i \in 1..turn.off + n : rows'[nPos' + i] = SubSeq(fed', 1, nPos') \o SubSeq(turn.toks, 1, i)
    <2>1. RowsUpTo(fedN) /\ BatchRows(turn)
      BY <1>1, <1>5 DEF RowsHoldFed
    <2>. QED  BY <1>2, <2>1, ChunkHolds
  <1>. HIDE DEF n
  <1>6. turn' = [turn EXCEPT !.off = turn.off + n]
    BY DEF n
  <1>7. turn'.off = turn.off + n /\ turn'.toks = turn.toks
    BY <1>3, <1>6 DEF FeedTurn, WarmTurn
  <1>8. ASSUME ~poisoned', turn'.off < Len(turn'.toks) PROVE BatchRows(turn)'
    <2>1. ~LastChunk(turn)
      BY <1>4, <1>7, <1>8
    <2>2. \A i \in 1..turn.off + n : rows'[nPos' + i] = SubSeq(fed', 1, nPos') \o SubSeq(turn.toks, 1, i)
      BY <1>5, <1>8, <2>1
    <2>. QED  BY <1>7, <2>2 DEF BatchRows
  <1>. QED  BY <1>1, <1>5, <1>8 DEF RowsHoldFed

LEMMA PrefillHolds ==
    ASSUME TypesInv, RowsHoldFed,
           WarmupChunk \/ WarmupFails \/ PrefillChunk \/ PrefillNothing \/ PrefillStops
    PROVE  RowsHoldFed'
  <1>1. CASE WarmupChunk
    <2>1. /\ pc = "warmup" /\ pc' = "warmup" /\ FeedChunk(turn) /\ poisoned' = poisoned /\ idlePc' = idlePc
          /\ turn' = [turn EXCEPT !.off = @ + Len(NextChunk(turn))]
      BY <1>1 DEF WarmupChunk
    <2>. QED  BY <2>1, ChunkStepHolds
  <1>2. CASE PrefillChunk
    <2>1. /\ pc = "prefill" /\ FeedChunk(turn) /\ poisoned' = poisoned /\ idlePc' = idlePc
          /\ turn' = [turn EXCEPT !.off = @ + Len(NextChunk(turn))]
          /\ pc' = (IF LastChunk(turn) THEN "sample" ELSE "prefill")
      BY <1>2 DEF PrefillChunk
    <2>2. pc' # "spec" /\ (LastChunk(turn) \/ pc' = pc)
      BY <2>1
    <2>. QED  BY <2>1, <2>2, ChunkStepHolds
  <1>3. CASE PrefillNothing
    <2>1. /\ pc = "prefill" /\ pc' = "sample" /\ UNCHANGED <<nPos, rows, fed, fedN, poisoned, idlePc>>
      BY <1>3 DEF PrefillNothing, cache
    <2>2. idlePc' # "feed"
      BY <2>1 DEF TypesInv, PlacesTyped
    <2>. QED  BY <2>1, <2>2, AsideHolds
  <1>4. CASE WarmupFails \/ PrefillStops
    BY <1>4 DEF WarmupFails, PrefillStops, RowsHoldFed
  <1>. QED  BY <1>1, <1>2, <1>3, <1>4

-----------------------------------------------------------------------------
\* Steps of the decode loop that leave what counts alone.
LEMMA LoopHolds ==
    ASSUME TypesInv, RowsHoldFed, pc \in Decoding \cup {"record"}, idlePc' = idlePc,
           ~poisoned' => ~poisoned, UNCHANGED <<fed, fedN>>, pc' \notin {"warmup", "prefill", "spec"},
           \A i \in 1..fedN : rows'[i] = rows[i]
    PROVE  RowsHoldFed'
  <1>1. fedN \in Nat /\ idlePc = "off"
    BY DEF TypesInv, CacheTyped, PlacesTyped, Decoding
  <1>2. fedN' \in 0..fedN
    BY <1>1
  <1>3. ~poisoned' => RowsUpTo(fedN)'
    <2>1. ASSUME RowsUpTo(fedN) PROVE RowsUpTo(fedN)'
      BY <1>1, <1>2, <2>1, RowsStay
    <2>. QED  BY <2>1 DEF RowsHoldFed
  <1>. QED  BY <1>1, <1>3, Holds

\* A pass that was torn wrote no row that counts.
LEMMA TornAfter ==
    ASSUME TypesInv, pc \in Decoding, pc # "spec", NEW t \in Text,
           rows' = rows \/ Tears(nPos, <<t>>)
    PROVE  \A i \in 1..fedN : rows'[i] = rows[i]
  <1>1. rows \in Seq(Ids) /\ nPos \in 0..Len(rows) /\ nPos = fedN
    <2>1. /\ rows \in Seq(Ids) /\ nPos \in Nat /\ nPos <= Len(rows) /\ Len(rows) \in Nat
          /\ nPos = fedN
      BY DecodeState
    <2>. QED  BY <2>1
  <1>2. CASE Tears(nPos, <<t>>)
    <2>1. Rewrites(nPos, 1)
      BY <1>1, <1>2, TornOneIs
    <2>. QED  BY <1>1, <2>1 DEF Rewrites
  <1>. QED  BY <1>2

LEMMA DecodeHolds ==
    ASSUME TypesInv, Sound, RowsHoldFed,
           \/ DecodeEnds \/ SampleNext \/ PickOnDevice \/ PickFails \/ FeedLimit \/ SpecUnsupported
           \/ FeedStops \/ SpecBlocked
    PROVE  RowsHoldFed'
  <1>1. CASE DecodeEnds \/ SampleNext \/ PickOnDevice \/ PickFails \/ FeedLimit \/ SpecUnsupported
    <2>1. pc \in Decoding /\ UNCHANGED <<rows, fed, fedN, poisoned, idlePc>>
      BY <1>1 DEF DecodeEnds, SampleNext, PickOnDevice, PickFails, FeedLimit, SpecUnsupported, Piping, Going,
         Decoding, cache
    <2>2. pc' \in {"record", "feed", "redo"}
      BY <1>1 DEF DecodeEnds, SampleNext, PickOnDevice, PickFails, FeedLimit, SpecUnsupported, Picked
    <2>. QED  BY <2>1, <2>2, LoopHolds
  <1>2. CASE FeedStops
    <2>1. /\ pc = "feed" /\ pc' = "record" /\ UNCHANGED <<fed, fedN, idlePc>>
          /\ ~poisoned' => ~poisoned
          /\ rows' = rows \/ Tears(nPos, <<turn.tok>>)
      BY <1>2 DEF FeedStops
    <2>2. pc \in Decoding /\ pc # "spec"
      BY <2>1 DEF Decoding
    <2>3. turn.tok \in Text
      BY <2>2, DecodeState DEF FeedTurn
    <2>4. \A i \in 1..fedN : rows'[i] = rows[i]
      BY <2>1, <2>2, <2>3, TornAfter
    <2>. QED  BY <2>1, <2>2, <2>4, LoopHolds
  <1>3. CASE SpecBlocked
    <2>1. pc = "sample" /\ pc' = "record" /\ UNCHANGED <<fed, fedN, idlePc>>
      BY <1>3 DEF SpecBlocked, Piping, Going
    <2>2. PICK t \in Pieces \cup {Eog} : rows' = rows \/ Tears(nPos, <<t>>)
      BY <1>3 DEF SpecBlocked
    <2>3. pc \in Decoding /\ pc # "spec" /\ t \in Text
      BY <2>1, Words DEF Decoding
    <2>4. \A i \in 1..fedN : rows'[i] = rows[i]
      BY <2>2, <2>3, TornAfter
    <2>5. ~poisoned
      BY <2>3 DEF Sound, Generating
    <2>. QED  BY <2>1, <2>3, <2>4, <2>5, LoopHolds
  <1>. QED  BY <1>1, <1>2, <1>3

\* Steps that poison.
LEMMA PoisonHolds ==
    ASSUME RedoFails \/ FeedDies
    PROVE  RowsHoldFed'
  BY DEF RedoFails, FeedDies, RowsHoldFed

\* The last token is fed again, to the same row.
LEMMA RedoHolds == ASSUME TypesInv, RowsHoldFed, Redo PROVE RowsHoldFed'
  <1>1. pc = "redo" /\ pc' = "resample" /\ UNCHANGED <<nPos, fed, fedN, poisoned, idlePc>>
    BY DEF Redo
  <1>2. pc \in Decoding /\ pc # "spec"
    BY <1>1 DEF Decoding
  <1>3. rows \in Seq(Ids) /\ fed \in Seq(Text) /\ fedN \in Nat /\ idlePc = "off"
    BY <1>2, DecodeState DEF Ids
  <1>4. CASE ~turn.hasFed
    <2>1. rows' = rows
      BY <1>4 DEF Redo
    <2>. QED  BY <1>1, <1>2, <2>1, LoopHolds
  <1>5. CASE turn.hasFed
    <2>1. Computes(nPos - 1, <<fed[nPos]>>)
      BY <1>5 DEF Redo
    <2>2. nPos = fedN /\ nPos > 0 /\ nPos - 1 \in 0..Len(rows) /\ fed[nPos] \in Text /\ nPos \in 1..Len(fed)
      BY <1>2, <1>5, LastFed
    <2>3. Rewrites(nPos - 1, 1) /\ rows'[nPos - 1 + 1] = Row(nPos - 1, <<fed[nPos]>>)
      BY <1>3, <2>1, <2>2, FeedOneIs
    <2>4. nPos - 1 + 1 = nPos
      BY <1>3, <2>2
    <2>5. ASSUME ~poisoned PROVE rows'[nPos] = SubSeq(fed, 1, nPos)
      <3>1. RowsUpTo(fedN)
        BY <2>5 DEF RowsHoldFed
      <3>. DEFINE s == SubSeq(fed, 1, nPos - 1)
      <3>2. SubSeq(fed, 1, nPos) = Append(s, fed[nPos]) /\ s \in Seq(Text)
        BY <1>3, <2>2, BeginningGrows
      <3>3. Below(nPos - 1) = s
        <4>1. CASE nPos - 1 = 0
          <5>1. s = <<>>
            BY <1>3, <2>2, <4>1, Beginning
          <5>. QED  BY <4>1, <5>1 DEF Below
        <4>2. CASE nPos - 1 # 0
          <5>1. nPos - 1 \in 1..fedN
            BY <1>3, <2>2, <4>2
          <5>. QED  BY <3>1, <4>2, <5>1 DEF Below, RowsUpTo
        <4>. QED  BY <4>1, <4>2
      <3>. HIDE DEF s
      <3>4. s \o <<fed[nPos]>> = Append(s, fed[nPos])
        BY <2>2, <3>2, AppendIsConcat
      <3>. QED  BY <2>3, <2>4, <3>2, <3>3, <3>4 DEF Row
    <2>6. \A i \in 1..nPos - 1 : rows'[i] = rows[i]
      BY <2>3 DEF Rewrites
    <2>7. ASSUME ~poisoned PROVE RowsUpTo(fedN)'
      <3>. SUFFICES ASSUME NEW i \in 1..fedN PROVE rows'[i] = SubSeq(fed, 1, i)
        BY <1>1 DEF RowsUpTo
      <3>1. CASE i = nPos
        BY <2>5, <2>7, <3>1
      <3>2. CASE i # nPos
        <4>1. i \in 1..nPos - 1
          BY <1>3, <2>2, <3>2
        <4>2. rows[i] = SubSeq(fed, 1, i)
          BY <2>7 DEF RowsHoldFed, RowsUpTo
        <4>. QED  BY <2>6, <4>1, <4>2
      <3>. QED  BY <3>1, <3>2
    <2>. QED  BY <1>1, <1>3, <2>7, Holds
  <1>. QED  BY <1>4, <1>5

\* What a decode loop knows of the token it feeds.
LEMMA FeedsAfter ==
    ASSUME TypesInv, RowsHoldFed, pc \in Decoding, pc # "spec", ~poisoned, NEW t \in Text,
           Computes(nPos, <<t>>)
    PROVE  /\ rows'[fedN + 1] = Append(Fed, t) /\ Row(nPos, <<t>>) = Append(Fed, t)
           /\ \A i \in 1..fedN : rows'[i] = SubSeq(fed, 1, i)
  <1>1. /\ nPos \in Nat /\ fedN \in Nat /\ rows \in Seq(Ids) /\ fed \in Ids
        /\ fedN <= Len(fed) /\ nPos <= Len(rows) /\ nPos = fedN
    BY DecodeState
  <1>2. CacheTyped
    BY <1>1 DEF CacheTyped
  <1>3. RowsUpTo(fedN)
    BY DEF RowsHoldFed
  <1>4. Computes(fedN, <<t>>)
    BY <1>1
  <1>5. /\ rows'[fedN + 1] = Append(Fed, t) /\ Row(fedN, <<t>>) = Append(Fed, t)
        /\ \A i \in 1..fedN : rows'[i] = rows[i]
    BY <1>1, <1>2, <1>3, <1>4, OneMore
  <1>. QED  BY <1>1, <1>3, <1>5 DEF RowsUpTo

\* fed_ids takes the token whose row was computed.
LEMMA RowTaken ==
    ASSUME CacheTyped, fedN <= Len(fed), NEW t \in Text,
           nPos' = fedN + 1, fedN' = fedN + 1, fed' = WriteAt(SubSeq(fed, 1, fedN), fedN, <<t>>),
           rows'[fedN + 1] = Append(Fed, t), \A i \in 1..fedN : rows'[i] = SubSeq(fed, 1, i)
    PROVE  RowsUpTo(fedN)'
  <1>1. /\ SubSeq(fed', 1, fedN + 1) = Append(SubSeq(fed, 1, fedN), t)
        /\ \A k \in 0..fedN : SubSeq(fed', 1, k) = SubSeq(fed, 1, k)
    BY TakesOne
  <1>2. fedN \in Nat
    BY DEF CacheTyped
  <1>3. ASSUME NEW i \in 1..fedN + 1 PROVE rows'[i] = SubSeq(fed', 1, i)
    <2>1. CASE i = fedN + 1
      BY <1>1, <2>1 DEF Fed
    <2>2. CASE i # fedN + 1
      <3>1. i \in 1..fedN /\ i \in 0..fedN
        BY <1>2, <2>2
      <3>. QED  BY <1>1, <3>1
    <2>. QED  BY <2>1, <2>2
  <1>. QED  BY <1>3 DEF RowsUpTo

LEMMA FeedTokenHolds == ASSUME TypesInv, Sound, RowsHoldFed, FeedToken PROVE RowsHoldFed'
  <1>1. /\ pc = "feed" /\ pc' = "sample" /\ Computes(nPos, <<turn.tok>>) /\ nPos' = nPos + 1
        /\ fed' = WriteAt(SubSeq(fed, 1, FedSynced), FedSynced, <<turn.tok>>)
        /\ fedN' = FedSynced + 1 /\ UNCHANGED <<poisoned, idlePc>>
    BY DEF FeedToken
  <1>2. pc \in Decoding /\ pc # "spec" /\ ~poisoned
    BY <1>1 DEF Decoding, Generating, Sound
  <1>3. /\ nPos \in Nat /\ fedN \in Nat /\ rows \in Seq(Ids) /\ fed \in Ids
        /\ fedN <= Len(fed) /\ nPos = fedN /\ turn \in FeedTurn /\ idlePc = "off"
    BY <1>2, DecodeState
  <1>4. turn.tok \in Text /\ CacheTyped /\ FedSynced = fedN
    BY <1>3, FedSyncedIs DEF FeedTurn, CacheTyped
  <1>5. rows'[fedN + 1] = Append(Fed, turn.tok) /\ \A i \in 1..fedN : rows'[i] = SubSeq(fed, 1, i)
    BY <1>1, <1>2, <1>4, FeedsAfter
  <1>6. RowsUpTo(fedN)'
    <2>1. nPos' = fedN + 1 /\ fedN' = fedN + 1 /\ fed' = WriteAt(SubSeq(fed, 1, fedN), fedN, <<turn.tok>>)
      BY <1>1, <1>3, <1>4
    <2>. QED  BY <1>3, <1>4, <1>5, <2>1, RowTaken
  <1>. QED  BY <1>1, <1>3, <1>6, Holds

LEMMA SpecFeedHolds == ASSUME TypesInv, Sound, RowsHoldFed, SpecFeed PROVE RowsHoldFed'
  <1>1. pc = "sample" /\ pc' = "spec" /\ nPos' = nPos + 1 /\ UNCHANGED <<fed, fedN, poisoned, idlePc>>
    BY DEF SpecFeed, Piping, Going
  <1>2. PICK t \in Pieces \cup {Eog} :
            turn' = [turn EXCEPT !.tok = t, !.from = devLogits] /\ Computes(nPos, <<t>>)
    BY DEF SpecFeed
  <1>3. pc \in Decoding /\ pc # "spec" /\ ~poisoned /\ t \in Text
    BY <1>1, Words DEF Decoding, Generating, Sound
  <1>4. nPos = fedN /\ turn \in FeedTurn /\ idlePc = "off" /\ fedN \in Nat
    BY <1>3, DecodeState
  <1>5. rows'[fedN + 1] = Append(Fed, t) /\ \A i \in 1..fedN : rows'[i] = SubSeq(fed, 1, i)
    BY <1>2, <1>3, FeedsAfter
  <1>6. turn'.tok = t
    BY <1>2, <1>4 DEF FeedTurn
  <1>7. RowsUpTo(fedN)'
    BY <1>1, <1>5 DEF RowsUpTo
  <1>8. Fed' = Fed /\ nPos' = fedN + 1
    BY <1>1, <1>4 DEF Fed
  <1>9. rows'[nPos'] = Append(Fed', turn'.tok)
    BY <1>5, <1>6, <1>8
  <1>. QED  BY <1>1, <1>4, <1>7, <1>9 DEF RowsHoldFed

LEMMA SpecReadHolds == ASSUME TypesInv, Sound, RowsHoldFed, SpecRead \/ SpecReadFails PROVE RowsHoldFed'
  <1>1. pc = "spec" /\ UNCHANGED <<rows, poisoned, idlePc>>
    BY DEF SpecRead, SpecReadFails
  <1>2. pc \in Decoding
    BY <1>1 DEF Decoding
  <1>3. /\ nPos = fedN + 1 /\ fedN \in Nat /\ idlePc = "off" /\ turn \in FeedTurn /\ fed \in Ids
        /\ fedN <= Len(fed) /\ nPos \in Nat /\ rows \in Seq(Ids)
    BY <1>1, <1>2, DecodeState
  <1>4. ~poisoned /\ RowsUpTo(fedN) /\ rows[nPos] = Append(Fed, turn.tok)
    BY <1>1 DEF RowsHoldFed, Sound, Generating, Decoding
  <1>5. CASE UNCHANGED <<fed, fedN>> /\ pc' \in {"record", "redo"}
    BY <1>1, <1>2, <1>5, LoopHolds
  <1>6. CASE ~(UNCHANGED <<fed, fedN>> /\ pc' \in {"record", "redo"})
    <2>1. /\ fed' = WriteAt(SubSeq(fed, 1, fedN), fedN, <<turn.tok>>) /\ fedN' = fedN + 1
          /\ pc' = "sample" /\ nPos' = nPos
      BY <1>6 DEF SpecRead, SpecReadFails
    <2>2. turn.tok \in Text /\ CacheTyped
      BY <1>3 DEF FeedTurn, CacheTyped
    <2>3. rows'[fedN + 1] = Append(Fed, turn.tok) /\ \A i \in 1..fedN : rows'[i] = SubSeq(fed, 1, i)
      BY <1>1, <1>3, <1>4 DEF RowsUpTo
    <2>4. nPos' = fedN + 1
      BY <1>3, <2>1
    <2>5. RowsUpTo(fedN)'
      BY <1>3, <2>1, <2>2, <2>3, <2>4, RowTaken
    <2>. QED  BY <1>1, <1>3, <2>1, <2>5, Holds
  <1>. QED  BY <1>5, <1>6

LEMMA RecordHolds == ASSUME TypesInv, RowsHoldFed, RecordTurn PROVE RowsHoldFed'
  <1>1. pc = "record" /\ pc' = "after" /\ rows' = SubSeq(rows, 1, nPos)
        /\ UNCHANGED <<fed, fedN, poisoned, idlePc>>
    BY DEF RecordTurn, Trimmed
  <1>2. rows \in Seq(Ids) /\ nPos \in 0..Len(rows) /\ nPos = fedN
    BY <1>1 DEF TypesInv, CacheTyped, CacheSized
  <1>3. \A i \in 1..fedN : rows'[i] = rows[i]
    BY <1>1, <1>2, Beginning
  <1>. QED  BY <1>1, <1>3, LoopHolds

-----------------------------------------------------------------------------
\* What the idle prefill does between turns, and a signal.
LEMMA IdleBeginsHolds == ASSUME TypesInv, Sound, RowsHoldFed, IdleBegins PROVE RowsHoldFed'
  <1>1. /\ idlePc = "start" /\ idle'.off = 0 /\ idle'.fedN = fedN /\ UNCHANGED <<rows, fed, poisoned, pc>>
        /\ nPos' = (IF Hybrid THEN fedN ELSE Kept(Encode(Header))) /\ fedN' = nPos'
        /\ Kept(Encode(Header)) \in 0..fedN
    BY IdleBeginsIs
  <1>2. pc \in {"input", "join"} /\ ~poisoned /\ fedN \in Nat
    BY <1>1 DEF TypesInv, PlacesTyped, Sound, CacheTyped
  <1>3. RowsUpTo(fedN)
    BY <1>2 DEF RowsHoldFed
  <1>4. fedN' \in 0..fedN
    BY <1>1, <1>2
  <1>5. RowsUpTo(fedN)'
    BY <1>1, <1>2, <1>3, <1>4, RowsStay
  <1>6. BatchRows(idle)'
    BY <1>1 DEF BatchRows
  <1>7. RowsUpTo(idle.fedN)'
    BY <1>1, <1>3 DEF RowsUpTo
  <1>. QED  BY <1>1, <1>2, <1>5, <1>6, <1>7 DEF RowsHoldFed

LEMMA IdleChunkHolds == ASSUME TypesInv, Sound, RowsHoldFed, IdleChunk PROVE RowsHoldFed'
  <1>1. /\ idlePc = "feed" /\ FeedChunk(idle) /\ UNCHANGED <<poisoned, pc>>
        /\ idle' = [idle EXCEPT !.off = @ + Len(NextChunk(idle))]
        /\ idlePc' = (IF LastChunk(idle) THEN "done" ELSE "feed")
    BY DEF IdleChunk
  <1>2. pc \in {"input", "join"} /\ ~poisoned
    BY <1>1 DEF TypesInv, PlacesTyped, Sound
  <1>3. Batch(idle) /\ idle \in IdleRun
    BY <1>1, IdleBatch
  <1>4. RowsUpTo(fedN) /\ BatchRows(idle)
    BY <1>1, <1>2 DEF RowsHoldFed
  <1>5. /\ RowsUpTo(fedN)'
        /\ ~LastChunk(idle) =>
               \A i \in 1..idle.off + Len(NextChunk(idle)) :
                   rows'[nPos' + i] = SubSeq(fed', 1, nPos') \o SubSeq(idle.toks, 1, i)
    BY <1>1, <1>3, <1>4, ChunkHolds
  <1>6. CASE LastChunk(idle)
    BY <1>1, <1>2, <1>5, <1>6, Holds
  <1>7. CASE ~LastChunk(idle)
    <2>1. idle'.off = idle.off + Len(NextChunk(idle)) /\ idle'.toks = idle.toks
      BY <1>1, <1>3 DEF IdleRun
    <2>2. BatchRows(idle)'
      BY <1>5, <1>7, <2>1 DEF BatchRows
    <2>3. idle'.off > 0
      <3>1. Len(NextChunk(idle)) \in 1..Len(idle.toks) - idle.off /\ Len(idle.toks) \in Nat /\ idle.off \in Nat
        BY <1>1, <1>3, ChunkIs DEF Batch, Ids
      <3>. QED  BY <2>1, <3>1
    <2>4. idle'.off # 0
      BY <2>3
    <2>. QED  BY <1>1, <1>2, <1>5, <2>2, <2>4 DEF RowsHoldFed
  <1>. QED  BY <1>6, <1>7

LEMMA IdleStopsHolds ==
    ASSUME TypesInv, Sound, SureInv, RowsHoldFed, IdleStops, sure = Whole, sure' = Whole
    PROVE  RowsHoldFed'
  <1>1. idlePc = "feed" /\ idle \in IdleRun /\ pc' = pc /\ ~poisoned
    BY IdleStopsIs DEF Sound
  <1>2. PICK n \in 0..idle.off :
            /\ Restored(n)
            /\ \/ n = 0 /\ UNCHANGED <<rows, poisoned, sure>> /\ ~IdleFits
               \/ /\ IdleFits /\ n = idle.off
                  /\ \E m \in 0..Len(idle.toks) - n : Rewrites(nPos + n, m)
                  /\ \/ poisoned' = TRUE /\ UNCHANGED sure
                     \/ poisoned' = poisoned /\ WroteOver
    BY IdleStopsIs
  <1>3. /\ nPos' = idle.nPos /\ fedN' = idle.fedN /\ (n = 0 => fed' = fed) /\ idlePc' = "done"
        /\ \A k \in 0..fedN : SubSeq(fed', 1, k) = SubSeq(fed, 1, k)
    BY <1>1, <1>2, RestoredIs
  <1>4. pc \in {"input", "join"} /\ idle.off \in Nat
    BY <1>1 DEF TypesInv, PlacesTyped, IdleRun
  <1>5. /\ RowsUpTo(fedN) /\ (idle.off = 0 => RowsUpTo(idle.fedN))
        /\ nPos = fedN /\ idle.nPos = idle.fedN /\ fedN \in Nat
    BY <1>1, <1>4 DEF RowsHoldFed, TypesInv, CacheTyped, CacheSized, IdleSized
  <1>6. CASE idle.off = 0 /\ n = 0 /\ rows' = rows
    <2>1. RowsUpTo(fedN)'
      BY <1>3, <1>5, <1>6 DEF RowsUpTo
    <2>. QED  BY <1>1, <1>3, <1>4, <2>1, Holds
  <1>7. CASE idle.nPos = nPos /\ \E m \in 0..Len(idle.toks) - n : Rewrites(nPos + n, m)
    <2>1. \A i \in 1..nPos + n : rows'[i] = rows[i]
      BY <1>7 DEF Rewrites
    <2>2. ASSUME NEW i \in 1..fedN PROVE rows'[i] = SubSeq(fed', 1, i)
      <3>1. i \in 1..nPos + n /\ i \in 0..fedN
        BY <1>4, <1>5
      <3>. QED  BY <1>3, <1>5, <2>1, <3>1 DEF RowsUpTo
    <2>3. RowsUpTo(fedN)'
      BY <1>3, <1>5, <1>7, <2>2 DEF RowsUpTo
    <2>. QED  BY <1>1, <1>3, <1>4, <2>3, Holds
  <1>8. CASE n = 0 /\ UNCHANGED <<rows, poisoned, sure>> /\ ~IdleFits
    <2>1. idle.off = 0
      BY <1>1, <1>4, <1>8 DEF Sound
    <2>. QED  BY <1>6, <1>8, <2>1
  <1>9. CASE WroteOver /\ n = idle.off /\ \E m \in 0..Len(idle.toks) - n : Rewrites(nPos + n, m)
    <2>1. idle.nPos = nPos \/ (idle.off = 0 /\ rows' = rows)
      BY <1>1, <1>9, WroteOverIs, WholeIs
    <2>. QED  BY <1>6, <1>7, <1>9, <2>1
  <1>10. CASE poisoned'
    BY <1>10 DEF RowsHoldFed
  <1>. QED  BY <1>2, <1>8, <1>9, <1>10

\* What is put back over what was written: the rows before that, and those of
\* the tokens that were computed, are their tokens'.
LEMMA WroteOverRows ==
    ASSUME TypesInv, Sound, SureInv, RowsHoldFed, IdleStops, sure = Whole
    PROVE  SureRows'
  <1>1. idlePc = "feed" /\ idle \in IdleRun /\ pc' = pc /\ ~poisoned
    BY IdleStopsIs DEF Sound
  <1>2. PICK n \in 0..idle.off :
            /\ Restored(n)
            /\ \/ UNCHANGED sure
               \/ /\ n = idle.off /\ WroteOver
                  /\ \E m \in 0..Len(idle.toks) - n : Rewrites(nPos + n, m)
    BY IdleStopsIs
  <1>. SUFFICES ASSUME sure' # Whole PROVE RowsUpTo(sure.tokens)'
    BY DEF SureRows
  <1>3. n = idle.off /\ WroteOver /\ \E m \in 0..Len(idle.toks) - n : Rewrites(nPos + n, m)
    BY <1>2
  <1>4. CASE sure' = Lost
    BY <1>4, WholeIs DEF RowsUpTo
  <1>5. CASE sure' # Lost
    <2>1. sure'.tokens \in Nat /\ sure'.tokens <= nPos + idle.off
      BY <1>1, <1>3, <1>5, WroteOverIs
    <2>2. /\ \A i \in 0..n : SubSeq(fed', 1, fedN + i) = SubSeq(fed, 1, fedN) \o SubSeq(idle.toks, 1, i)
          /\ \A k \in 0..fedN : SubSeq(fed', 1, k) = SubSeq(fed, 1, k)
      BY <1>1, <1>2, RestoredIs
    <2>3. RowsUpTo(fedN) /\ BatchRows(idle) /\ nPos = fedN /\ fedN \in Nat /\ idle.off \in Nat
      <3>1. pc # "spec"
        BY <1>1 DEF TypesInv, PlacesTyped
      <3>. QED  BY <1>1, <3>1 DEF RowsHoldFed, TypesInv, CacheTyped, CacheSized, IdleRun
    <2>4. \A i \in 1..nPos + idle.off : rows'[i] = rows[i]
      BY <1>3 DEF Rewrites
    <2>5. ASSUME NEW i \in 1..nPos + idle.off PROVE rows'[i] = SubSeq(fed', 1, i)
      <3>1. CASE i <= fedN
        <4>1. i \in 0..fedN /\ i \in 1..fedN
          BY <2>3, <3>1
        <4>. QED  BY <2>2, <2>3, <2>4, <4>1 DEF RowsUpTo
      <3>2. CASE ~(i <= fedN)
        <4>1. i - fedN \in 0..n /\ i - fedN \in 1..idle.off /\ fedN + (i - fedN) = i
          BY <1>3, <2>3, <3>2
        <4>2. rows[nPos + (i - fedN)] = SubSeq(fed, 1, nPos) \o SubSeq(idle.toks, 1, i - fedN)
          BY <2>3, <4>1 DEF BatchRows
        <4>3. SubSeq(fed', 1, fedN + (i - fedN)) = SubSeq(fed, 1, fedN) \o SubSeq(idle.toks, 1, i - fedN)
          BY <2>2, <4>1
        <4>. QED  BY <2>3, <2>4, <4>1, <4>2, <4>3
      <3>. QED  BY <3>1, <3>2
    <2>6. \A i \in 1..sure'.tokens : i \in 1..nPos + idle.off
      BY <2>1, <2>3
    <2>. QED  BY <2>5, <2>6 DEF RowsUpTo
  <1>. QED  BY <1>4, <1>5

LEMMA SureRowsStep ==
    ASSUME TypesInv, Sound, SureInv, SureRows, sure = Whole => RowsHoldFed, [Next]_vars
    PROVE  SureRows'
  <1>1. CASE sure' \in {Whole, Lost}
    BY <1>1, WholeIs DEF SureRows, RowsUpTo
  <1>2. CASE UNCHANGED sure /\ ~(sure.tokens > 0)
    <2>1. sure'.tokens \in Nat /\ ~(sure'.tokens > 0)
      BY <1>2 DEF SureInv, SureTyped
    <2>. QED  BY <2>1 DEF SureRows, RowsUpTo
  <1>3. CASE UNCHANGED <<rows, fed, sure>>
    BY <1>3 DEF SureRows, RowsUpTo
  <1>4. CASE IdleStops /\ sure = Whole
    BY <1>4, WroteOverRows
  <1>. QED  BY <1>1, <1>2, <1>3, <1>4, SureMoves

LEMMA StillHolds ==
    ASSUME RowsHoldFed, UNCHANGED <<nPos, rows, fed, fedN, poisoned, pc, turn, idlePc, idle>>
    PROVE  RowsHoldFed'
  <1>1. RowsUpTo(fedN)' <=> RowsUpTo(fedN)
    BY DEF RowsUpTo
  <1>2. RowsUpTo(idle.fedN)' <=> RowsUpTo(idle.fedN)
    BY DEF RowsUpTo
  <1>3. (BatchRows(turn)' <=> BatchRows(turn)) /\ (BatchRows(idle)' <=> BatchRows(idle))
    BY DEF BatchRows
  <1>4. Fed' = Fed
    BY DEF Fed
  <1>. QED  BY <1>1, <1>2, <1>3, <1>4 DEF RowsHoldFed

LEMMA IdleHolds ==
    ASSUME TypesInv, Sound, SureInv, RowsHoldFed, IdleStep, sure = Whole, sure' = Whole
    PROVE  RowsHoldFed'
  <1>1. CASE IdleGivesUp
    <2>1. /\ idlePc = "start" /\ idlePc' = "done"
          /\ UNCHANGED <<nPos, rows, fed, fedN, poisoned, pc>>
      BY <1>1 DEF IdleGivesUp, cache
    <2>2. pc \in {"input", "join"}
      BY <2>1 DEF TypesInv, PlacesTyped
    <2>. QED  BY <2>1, <2>2, AsideHolds
  <1>. QED  BY <1>1, IdleBeginsHolds, IdleChunkHolds, IdleStopsHolds DEF IdleStep

-----------------------------------------------------------------------------
\* Nothing is sure again without a reset or a turn.
LEMMA SureAgain ==
    ASSUME TypesInv, SureInv, [Next]_vars, sure # Whole, sure' = Whole
    PROVE  Reset \/ BeginTurn
  <1>1. Driver # "server"
    BY DEF SureInv, Terminal
  <1>2. ~BeginCompletion
    BY <1>1, BeginsWhat
  <1>3. ~IdleStops
    <2>. SUFFICES ASSUME IdleStops PROVE FALSE
      OBVIOUS
    <2>1. idlePc = "feed" /\ (UNCHANGED sure \/ WroteOver)
      BY DEF IdleStops
    <2>. QED  BY <2>1, WroteOverIs, WholeIs
  <1>. QED  BY <1>1, <1>2, <1>3, SureKept

LEMMA RowsStep ==
    ASSUME TypesInv, Sound, SureInv, SureRows, sure = Whole => RowsHoldFed, [Next]_vars, sure' = Whole
    PROVE  RowsHoldFed'
  <1>1. CASE sure # Whole
    BY <1>1, SureAgain, ResetHolds, BeginsHolds
  <1>2. ASSUME RowsHoldFed, sure = Whole, MainStep PROVE RowsHoldFed'
    <2>1. ASSUME Reset \/ WarmupChunk \/ WarmupFails \/ PrefillChunk \/ PrefillNothing \/ PrefillStops
          PROVE  RowsHoldFed'
      BY <1>2, <2>1, ResetHolds, PrefillHolds
    <2>2. ASSUME WarmupEnds \/ JoinIdle \/ AfterTurn \/ RewriteAssistant \/ RequestEnds PROVE RowsHoldFed'
      BY <1>2, <2>2, EndsHolds
    <2>3. ASSUME BeginTurn \/ BeginCompletion \/ RecordTurn PROVE RowsHoldFed'
      BY <1>2, <2>3, BeginsHolds, RecordHolds
    <2>4. ASSUME \/ DecodeEnds \/ SampleNext \/ PickOnDevice \/ PickFails \/ FeedLimit
                 \/ SpecUnsupported \/ FeedStops \/ SpecBlocked
          PROVE  RowsHoldFed'
      BY <1>2, <2>4, DecodeHolds
    <2>5. ASSUME RedoFails \/ FeedDies \/ Redo \/ FeedToken \/ SpecFeed \/ SpecRead \/ SpecReadFails
          PROVE  RowsHoldFed'
      BY <1>2, <2>5, PoisonHolds, RedoHolds, FeedTokenHolds, SpecFeedHolds, SpecReadHolds
    <2>. QED  BY <1>2, <2>1, <2>2, <2>3, <2>4, <2>5 DEF MainStep
  <1>3. ASSUME RowsHoldFed, Signal \/ UNCHANGED vars PROVE RowsHoldFed'
    <2>1. UNCHANGED <<nPos, rows, fed, fedN, poisoned, pc, turn, idlePc, idle>>
      BY <1>3 DEF Signal, vars, cache
    <2>. QED  BY <1>3, <2>1, StillHolds
  <1>. QED  BY <1>1, <1>2, <1>3, IdleHolds, AskedHolds DEF Next

LEMMA InitRows == Init => RowsHoldFed /\ SureRows
  BY DEF Init, RowsHoldFed, SureRows, RowsUpTo

\* While a turn generates, the cache holds exactly the tokens fed_ids counts,
\* each computed from those before it, whatever was reused, rewound, torn by an
\* interrupt or a failed pass, or undone by an idle prefill that stopped: unless
\* the turn goes on from what an interrupted idle prefill wrote over.  Of a
\* model with recurrent layers it is not shown.
THEOREM SessionCacheHoldsFed == ASSUME ~Hybrid PROVE Spec => []CacheHoldsFed
  <1>. DEFINE Inv == TypesInv /\ Sound /\ SureInv /\ SureRows /\ (sure = Whole => RowsHoldFed)
  <1>1. Init => Inv
    BY InitTypes, InitSound, InitSure, InitRows
  <1>2. Inv /\ [Next]_vars => Inv'
    <2>. SUFFICES ASSUME Inv, [Next]_vars PROVE Inv'
      OBVIOUS
    <2>1. TypesInv' /\ Sound' /\ SureInv' /\ SureRows'
      BY TypesStep, SoundStep, SureStep, SureRowsStep
    <2>2. sure' = Whole => RowsHoldFed'
      BY RowsStep
    <2>. QED  BY <2>1, <2>2 DEF Whole
  <1>3. Inv => CacheHoldsFed
    <2>. SUFFICES ASSUME Inv, sure = Whole, pc \in {"sample", "resample", "feed"}
                  PROVE  nPos = fedN /\ \A i \in 1..nPos : rows[i] = SubSeq(fed, 1, i)
      BY DEF CacheHoldsFed
    <2>1. nPos = fedN
      BY DEF TypesInv, CacheTyped, CacheSized
    <2>2. ~poisoned
      BY DEF Sound, Generating, Decoding
    <2>. QED  BY <2>1, <2>2 DEF RowsHoldFed, RowsUpTo
  <1>. QED  BY <1>1, <1>2, <1>3, PTL DEF Spec

-----------------------------------------------------------------------------
(***************************************************************************)
(* What a server's slot knows of its request: between turns and while it   *)
(* serves a completion, the messages of the session are those its chain    *)
(* stands for, or none; a chat turn continues them to its request.         *)
(***************************************************************************)
Answers == msgs = turn.req \/ (turn.req = adopted /\ msgs = Append(adopted, Last(adopted)))
BetweenChats ==
    \/ pc = "input"
    \/ pc \in Generating \cup {"turn", "record", "after"} /\ turn.kind = "completion"
Adopted == adopted = None \/ msgs = adopted \/ msgs = <<>>

ServerChat ==
    Driver = "server" =>
        /\ pc \in {"reset", "warmup"} => adopted = None
        /\ BetweenChats => Adopted
        /\ pc = "turn" /\ turn.kind = "chat" =>
               \/ Append(msgs, turn.msg) = turn.req
               \/ turn.req = adopted /\ msgs = adopted /\ turn.msg = Last(adopted)
        /\ pc \in Generating \cup {"record"} /\ turn.kind = "chat" => Answers

\* Every step of a turn but its first and its last.
LEMMA TurnChat ==
    ASSUME ServerChat, pc \in Generating \cup {"record"}, pc' \in Generating \cup {"record"},
           UNCHANGED <<msgs, adopted>>, turn'.kind = turn.kind, turn'.req = turn.req
    PROVE  ServerChat'
  BY DEF ServerChat, BetweenChats, Adopted, Answers, Generating, Decoding

LEMMA PrefillChat ==
    ASSUME TypesInv, ServerChat, PrefillChunk \/ PrefillNothing \/ PrefillStops
    PROVE  ServerChat'
  <1>1. pc = "prefill" /\ pc' \in {"prefill", "sample", "record"} /\ UNCHANGED <<msgs, adopted>>
    BY DEF PrefillChunk, PrefillNothing, PrefillStops, chat
  <1>2. turn \in FeedTurn
    BY <1>1 DEF TypesInv, TurnTyped, Generating
  <1>3. \/ turn' = turn
        \/ turn' = [turn EXCEPT !.off = @ + Len(NextChunk(turn))]
        \/ turn' = [turn EXCEPT !.rc = Error]
    BY DEF PrefillChunk, PrefillNothing, PrefillStops
  <1>4. turn'.kind = turn.kind /\ turn'.req = turn.req
    BY <1>2, <1>3 DEF FeedTurn
  <1>. QED  BY <1>1, <1>4, TurnChat DEF Generating, Decoding

\* The edits of a turn while it decodes leave its kind and its request alone.
LEMMA EmittedIs ==
    ASSUME NEW u \in FeedTurn, NEW t
    PROVE  Emitted(u, t).kind = u.kind /\ Emitted(u, t).req = u.req
  BY DEF FeedTurn, Emitted

LEMMA PickedAbout ==
    ASSUME NEW u \in FeedTurn, NEW t, NEW from, Picked(u, t, from)
    PROVE  turn'.kind = u.kind /\ turn'.req = u.req /\ pc' \in {"record", "feed"}
  BY DEF FeedTurn, Emitted, Picked

LEMMA DecodeChat ==
    ASSUME TypesInv, ServerChat,
           \/ DecodeEnds \/ SampleNext \/ PickOnDevice \/ PickFails \/ Redo \/ RedoFails
           \/ FeedToken \/ FeedLimit \/ FeedStops \/ FeedDies
    PROVE  ServerChat'
  <1>1. pc \in Decoding /\ UNCHANGED <<msgs, adopted>>
    BY DEF DecodeEnds, SampleNext, PickOnDevice, PickFails, Redo, RedoFails, FeedToken, FeedLimit,
       FeedStops, FeedDies, Going, Decoding, chat
  <1>2. turn \in FeedTurn
    BY <1>1, DecodeState
  <1>3. CASE DecodeEnds \/ PickFails \/ RedoFails
    <2>1. turn' = turn /\ pc' \in {"record", "redo"}
      BY <1>3 DEF DecodeEnds, PickFails, RedoFails
    <2>. QED  BY <1>1, <2>1, TurnChat DEF Generating, Decoding
  <1>4. CASE SampleNext \/ PickOnDevice
    <2>1. \E t, from : Picked(turn, t, from)
      BY <1>4 DEF SampleNext, PickOnDevice
    <2>2. turn'.kind = turn.kind /\ turn'.req = turn.req /\ pc' \in {"record", "feed"}
      BY <1>2, <2>1, PickedAbout
    <2>. QED  BY <1>1, <2>2, TurnChat DEF Generating, Decoding
  <1>5. CASE Redo \/ FeedToken \/ FeedLimit \/ FeedStops \/ FeedDies
    <2>1. /\ pc' \in {"resample", "sample", "record"}
          /\ \/ turn' = [turn EXCEPT !.mode = "host"]
             \/ turn' = [turn EXCEPT !.hasFed = TRUE]
             \/ turn' = [turn EXCEPT !.unfed = TRUE]
      BY <1>5 DEF Redo, FeedToken, FeedLimit, FeedStops, FeedDies
    <2>2. turn'.kind = turn.kind /\ turn'.req = turn.req
      BY <1>2, <2>1 DEF FeedTurn
    <2>. QED  BY <1>1, <2>1, <2>2, TurnChat DEF Generating, Decoding
  <1>. QED  BY <1>3, <1>4, <1>5

LEMMA SpecChat ==
    ASSUME TypesInv, ServerChat, SpecFeed \/ SpecRead \/ SpecReadFails \/ SpecBlocked \/ SpecUnsupported
    PROVE  ServerChat'
  <1>1. pc \in Decoding /\ UNCHANGED <<msgs, adopted>>
    BY DEF SpecFeed, SpecRead, SpecReadFails, SpecBlocked, SpecUnsupported, Piping, Going, Decoding, chat
  <1>2. turn \in FeedTurn
    BY <1>1, DecodeState
  <1>3. CASE SpecFeed \/ SpecReadFails
    <2>1. /\ pc' \in {"spec", "redo"}
          /\ \E t, from : turn' = [turn EXCEPT !.tok = t, !.from = from]
      BY <1>3 DEF SpecFeed, SpecReadFails
    <2>2. turn'.kind = turn.kind /\ turn'.req = turn.req
      BY <1>2, <2>1 DEF FeedTurn
    <2>. QED  BY <1>1, <2>1, <2>2, TurnChat DEF Generating, Decoding
  <1>4. CASE SpecRead
    <2>1. /\ pc' \in {"record", "sample"}
          /\ turn' = turn \/ turn' = [Emitted(turn, turn.tok) EXCEPT !.hasFed = TRUE]
      BY <1>4 DEF SpecRead
    <2>2. turn'.kind = turn.kind /\ turn'.req = turn.req
      BY <1>2, <2>1 DEF FeedTurn, Emitted
    <2>. QED  BY <1>1, <2>1, <2>2, TurnChat DEF Generating, Decoding
  <1>5. CASE SpecBlocked
    <2>1. /\ pc' = "record"
          /\ \E t : \/ turn' = [turn EXCEPT !.tok = t, !.from = devLogits]
                    \/ turn' = [Emitted(turn, t) EXCEPT !.unfed = TRUE]
      BY <1>5 DEF SpecBlocked
    <2>2. turn'.kind = turn.kind /\ turn'.req = turn.req
      BY <1>2, <2>1 DEF FeedTurn, Emitted
    <2>. QED  BY <1>1, <2>1, <2>2, TurnChat DEF Generating, Decoding
  <1>6. CASE SpecUnsupported
    <2>. DEFINE u == [turn EXCEPT !.mode = "device"]
    <2>1. u \in FeedTurn /\ u.kind = turn.kind /\ u.req = turn.req
      BY <1>2 DEF FeedTurn
    <2>2. \E t : Picked(u, t, devLogits)
      BY <1>6 DEF SpecUnsupported
    <2>. HIDE DEF u
    <2>3. turn'.kind = turn.kind /\ turn'.req = turn.req /\ pc' \in {"record", "feed"}
      BY <2>1, <2>2, PickedAbout
    <2>. QED  BY <1>1, <2>3, TurnChat DEF Generating, Decoding
  <1>. QED  BY <1>3, <1>4, <1>5, <1>6

-----------------------------------------------------------------------------
\* A request is its messages before the last one, and the last one.
LEMMA AllButLast ==
    ASSUME NEW req \in Seq(Msg), req # <<>>, NEW ms \in Seq(Msg), Len(ms) < Len(req),
           SubSeq(req, 1, Len(ms)) = ms
    PROVE  Append(Behind(ms, req), Last(req)) = req
  <1>. DEFINE k == Len(ms)
              n == Len(req)
  <1>1. k \in Nat /\ n \in Nat /\ k <= n - 1 /\ n \in 1..n
    OBVIOUS
  <1>2. ms \o SubSeq(req, k + 1, n - 1) = SubSeq(req, 1, n - 1)
    <2>. DEFINE r == SubSeq(req, 1, n - 1)
    <2>1. r \in Seq(Msg) /\ Len(r) = n - 1 /\ \A i \in 1..n - 1 : r[i] = req[i]
      <3>1. n - 1 \in 0..Len(req)
        BY <1>1
      <3>. QED  BY ONLY req \in Seq(Msg), <3>1, Beginning
    <2>2. SubSeq(r, 1, k) = ms
      <3>1. n - 1 \in 0..Len(req) /\ k \in 0..n - 1
        BY <1>1
      <3>2. SubSeq(SubSeq(req, 1, n - 1), 1, k) = SubSeq(req, 1, k)
        BY ONLY req \in Seq(Msg), <3>1, BeginningOfBeginning
      <3>. QED  BY <3>2
    <2>3. SubSeq(r, k + 1, n - 1) = SubSeq(req, k + 1, n - 1)
      <3>1. \A i \in k + 1..n - 1 : r[i] = req[i]
        BY <1>1, <2>1
      <3>. HIDE DEF r
      <3>. QED  BY <1>1, <2>1, <3>1
    <2>4. SubSeq(r, 1, k) \o SubSeq(r, k + 1, Len(r)) = r
      <3>1. k \in 0..Len(r)
        BY <1>1, <2>1
      <3>. HIDE DEF r
      <3>. QED  BY <2>1, <3>1, Splits
    <2>. QED  BY <2>1, <2>2, <2>3, <2>4
  <1>3. Append(SubSeq(req, 1, n - 1), req[n]) = SubSeq(req, 1, n)
    BY <1>1, BeginningGrows
  <1>4. SubSeq(req, 1, n) = req
    OBVIOUS
  <1>. QED  BY <1>2, <1>3, <1>4 DEF Behind, Last

LEMMA RequestChat ==
    ASSUME TypesInv, ServerChat, NEW req \in ChatRequests, ChatRequest(req)
    PROVE  ServerChat'
  <1>1. /\ pc = "input" /\ pc' = "turn" /\ Driver = "server" /\ adopted' = adopted
        /\ turn' = [kind |-> "chat", msg |-> Last(req), req |-> req]
        /\ \/ Continues(req) /\ msgs' = Behind(msgs, req)
           \/ msgs' = Behind(<<>>, req)
    BY DEF ChatRequest
  <1>2. req \in Seq(Msg) /\ req # <<>> /\ adopted \in Seq(Msg) /\ msgs \in Seq(Msg)
    BY RequestIs DEF TypesInv, FlagsTyped, ChatTyped
  <1>3. Adopted
    BY <1>1 DEF ServerChat, BetweenChats
  <1>4. turn'.kind = "chat" /\ turn'.msg = Last(req) /\ turn'.req = req
    BY <1>1
  <1>5. ASSUME msgs' = Behind(<<>>, req) PROVE Append(msgs', Last(req)) = req
    <2>1. <<>> \in Seq(Msg) /\ Len(<<>>) = 0 /\ Len(req) > 0 /\ SubSeq(req, 1, 0) = <<>>
      BY <1>2
    <2>. QED  BY <1>2, <1>5, <2>1, AllButLast
  <1>6. ASSUME Continues(req), msgs' = Behind(msgs, req)
        PROVE  \/ Append(msgs', Last(req)) = req
               \/ req = adopted /\ msgs' = adopted
    <2>1. adopted # None /\ Len(adopted) <= Len(req) /\ SubSeq(req, 1, Len(adopted)) = adopted
      <3>1. adopted # None /\ Len(adopted) <= Len(req)
            /\ SubSeq(adopted, 1, Len(adopted)) = SubSeq(req, 1, Len(adopted))
        BY <1>6 DEF Continues, IsPrefix
      <3>2. SubSeq(adopted, 1, Len(adopted)) = adopted
        BY <1>2
      <3>. QED  BY <3>1, <3>2
    <2>2. CASE msgs = <<>>
      BY <1>5, <1>6, <2>2
    <2>3. CASE msgs = adopted /\ Len(adopted) < Len(req)
      BY <1>2, <1>6, <2>1, <2>3, AllButLast
    <2>4. CASE msgs = adopted /\ ~(Len(adopted) < Len(req))
      <3>1. Len(adopted) = Len(req) /\ Len(req) \in Nat
        BY <1>2, <2>1, <2>4
      <3>2. SubSeq(req, 1, Len(req)) = req
        BY <1>2
      <3>3. req = adopted
        BY <2>1, <3>1, <3>2
      <3>4. SubSeq(req, Len(msgs) + 1, Len(req) - 1) = <<>>
        BY <1>2, <2>4, <3>1
      <3>5. msgs' = msgs \o <<>>
        BY <1>6, <3>4 DEF Behind
      <3>6. msgs' = msgs
        BY <1>2, <3>5, ConcatEmptySeq
      <3>. QED  BY <2>4, <3>3, <3>6
    <2>. QED  BY <1>3, <2>1, <2>2, <2>3, <2>4 DEF Adopted
  <1>7. \/ Append(msgs', turn'.msg) = turn'.req
        \/ turn'.req = adopted' /\ msgs' = adopted' /\ turn'.msg = Last(adopted')
    BY <1>1, <1>4, <1>5, <1>6
  <1>. QED  BY <1>1, <1>4, <1>7 DEF ServerChat, BetweenChats, Generating, Decoding

LEMMA AskedChat == ASSUME TypesInv, ServerChat, Asked PROVE ServerChat'
  <1>1. ASSUME TypeLine PROVE ServerChat'
    BY <1>1 DEF TypeLine, ServerChat
  <1>2. ASSUME NEW prompt \in Prompts, CompletionRequest(prompt) PROVE ServerChat'
    <2>1. /\ pc = "input" /\ pc' = "turn" /\ Driver = "server" /\ adopted' = adopted
          /\ turn'.kind = "completion"
          /\ Prepared(CommonLen(Fed, <<Bos>> \o Encode(prompt)) > 0)
      BY <1>2 DEF CompletionRequest
    <2>2. msgs' = msgs \/ msgs' = <<>>
      BY <2>1 DEF Prepared, SessionCleared
    <2>3. Adopted'
      BY <2>1, <2>2 DEF ServerChat, BetweenChats, Adopted
    <2>. QED  BY <2>1, <2>3 DEF ServerChat, Generating, Decoding
  <1>. QED  BY <1>1, <1>2, RequestChat DEF Asked

LEMMA BeginTurnChat == ASSUME TypesInv, ServerChat, BeginTurn PROVE ServerChat'
  <1>1. pc = "turn" /\ turn.kind = "chat" /\ adopted' = adopted
    BY DEF BeginTurn
  <1>. DEFINE ms == Append(msgs, turn.msg)
              render == Render(ms, TRUE)
              ids == TailEncode(render)
  <1>2. IF Refuses(ids)
        THEN Refused("chat")
        ELSE msgs' = ms /\ Feeding(ids, "chat", lastRender, IF Driver = "server" THEN turn.req ELSE ms)
    BY DEF BeginTurn
  <1>. HIDE DEF ids, render
  <1>3. CASE Refuses(ids)
    <2>1. pc' = "after" /\ turn'.kind = "chat" /\ msgs' = msgs
      BY <1>2, <1>3 DEF Refused, chat
    <2>. QED  BY <1>1, <2>1 DEF ServerChat, BetweenChats, Generating, Decoding
  <1>4. CASE ~Refuses(ids) /\ Driver = "server"
    <2>1. pc' = "prefill" /\ turn'.kind = "chat" /\ turn'.req = turn.req /\ msgs' = ms
      BY <1>2, <1>4 DEF Feeding
    <2>2. \/ ms = turn.req
          \/ turn.req = adopted /\ ms = Append(adopted, Last(adopted))
      BY <1>1, <1>4 DEF ServerChat
    <2>3. Answers'
      BY <1>1, <2>1, <2>2 DEF Answers
    <2>. QED  BY <1>1, <2>1, <2>3 DEF ServerChat, BetweenChats, Generating, Decoding
  <1>5. CASE Driver # "server"
    BY <1>5 DEF ServerChat
  <1>. QED  BY <1>3, <1>4, <1>5

LEMMA BeginCompletionChat == ASSUME TypesInv, ServerChat, BeginCompletion PROVE ServerChat'
  <1>1. pc = "turn" /\ turn.kind = "completion" /\ adopted' = adopted
    BY DEF BeginCompletion
  <1>2. pc' \in {"after", "prefill"} /\ turn'.kind = "completion" /\ msgs' = msgs
    BY DEF BeginCompletion, Refused, Feeding, chat
  <1>. QED  BY <1>1, <1>2 DEF ServerChat, BetweenChats, Adopted, Generating, Decoding

LEMMA EndsChat ==
    ASSUME TypesInv, ServerChat,
           \/ Reset \/ WarmupChunk \/ WarmupFails \/ WarmupEnds
           \/ JoinIdle \/ AfterTurn \/ RewriteAssistant \/ RequestEnds \/ RecordTurn
    PROVE  ServerChat'
  <1>. SUFFICES ASSUME Driver = "server" PROVE ServerChat'
    BY DEF ServerChat
  <1>1. CASE Reset
    <2>1. adopted = None
      BY <1>1 DEF Reset, ServerChat
    <2>2. adopted' = adopted /\ pc' \in {"warmup", "input"}
      BY <1>1 DEF Reset
    <2>. QED  BY <2>1, <2>2 DEF ServerChat, BetweenChats, Adopted, Generating, Decoding
  <1>2. CASE WarmupChunk \/ WarmupFails \/ WarmupEnds
    <2>1. adopted = None
      BY <1>2 DEF WarmupChunk, WarmupFails, WarmupEnds, ServerChat
    <2>2. adopted' = adopted /\ pc' \in {"warmup", "input"}
      BY <1>2 DEF WarmupChunk, WarmupFails, WarmupEnds
    <2>. QED  BY <2>1, <2>2 DEF ServerChat, BetweenChats, Adopted, Generating, Decoding
  <1>3. CASE JoinIdle \/ AfterTurn
    <2>1. Driver = "interactive"
      BY <1>3 DEF JoinIdle, AfterTurn, TypesInv, PlacesTyped
    <2>. QED  BY <2>1
  <1>4. CASE RewriteAssistant
    <2>1. pc = "after" /\ turn.kind = "chat" /\ UNCHANGED <<pc, turn>>
      BY <1>4 DEF RewriteAssistant
    <2>. QED  BY <2>1 DEF ServerChat, BetweenChats, Generating, Decoding
  <1>5. CASE RequestEnds
    <2>1. pc = "after" /\ pc' = "input" /\ msgs' = msgs
          /\ adopted' = IF turn.kind = "chat" THEN msgs ELSE adopted
      BY <1>5 DEF RequestEnds, chat
    <2>2. turn.kind \in {"chat", "completion"}
      BY <2>1 DEF TypesInv, TurnTyped, OverTurn
    <2>3. Adopted'
      BY <2>1, <2>2 DEF ServerChat, BetweenChats, Adopted
    <2>. QED  BY <2>1, <2>3 DEF ServerChat, BetweenChats, Generating, Decoding
  <1>6. CASE RecordTurn
    <2>1. pc = "record" /\ pc' = "after" /\ turn'.kind = turn.kind /\ adopted' = adopted
          /\ (turn.kind = "completion" => msgs' = msgs)
      BY <1>6 DEF RecordTurn
    <2>. QED  BY <2>1 DEF ServerChat, BetweenChats, Adopted, Generating, Decoding
  <1>. QED  BY <1>1, <1>2, <1>3, <1>4, <1>5, <1>6

LEMMA StillChat == ASSUME ServerChat, UNCHANGED <<msgs, adopted, pc, turn>> PROVE ServerChat'
  BY DEF ServerChat, BetweenChats, Adopted, Answers

LEMMA ChatStep == ASSUME TypesInv, ServerChat, [Next]_vars PROVE ServerChat'
  <1>1. ASSUME MainStep PROVE ServerChat'
    BY <1>1, EndsChat, BeginTurnChat, BeginCompletionChat, PrefillChat, DecodeChat, SpecChat DEF MainStep
  <1>2. ASSUME IdleStep \/ Signal \/ UNCHANGED vars PROVE ServerChat'
    <2>1. UNCHANGED <<msgs, adopted, pc, turn>>
      BY <1>2 DEF IdleStep, IdleGivesUp, IdleBegins, IdleChunk, IdleStops, Signal, vars, chat
    <2>. QED  BY <2>1, StillChat
  <1>. QED  BY <1>1, <1>2, AskedChat DEF Next

LEMMA InitChat == Init => ServerChat
  BY DEF Init, ServerChat, BetweenChats, Generating, Decoding

\* A slot's turn generates from the messages of its request: those its chain
\* already stood for, those that came since, and no other, after any number of
\* completions, cleared sessions, tool calls and failures.  Only a request that
\* repeats the chain to its last message says that message twice.
THEOREM SessionAnswersTheRequest == Spec => []AnswersTheRequest
  <1>. DEFINE Inv == TypesInv /\ ServerChat
  <1>1. Init => Inv
    BY InitTypes, InitChat
  <1>2. Inv /\ [Next]_vars => Inv'
    BY TypesStep, ChatStep
  <1>3. Inv => AnswersTheRequest
    BY DEF ServerChat, Answers, AnswersTheRequest, Generating, Decoding
  <1>. QED  BY <1>1, <1>2, <1>3, PTL DEF Spec

-----------------------------------------------------------------------------
(***************************************************************************)
(* Sampling from the host's logits: they are those of the tokens fed,      *)
(* whenever a turn may sample or find its whole prompt fed, and an idle    *)
(* prefill that has not come to its end has left those of the tokens it    *)
(* puts back.                                                              *)
(***************************************************************************)
LogitsOf(ids) == hostLogits = ids /\ (Driver # "server" => devLogits = ids)

\* A turn samples from the host's logits: it is told to, or the server's
\* backend does not sample rows.
HostMode(u) == u.mode = "host" \/ (Driver = "server" /\ ~BatchSamples /\ u.mode # "pipelined")
HostSamples == Modes = {"host"} \/ (Driver = "server" /\ ~BatchSamples)

OnHost ==
    /\ presampled = None /\ pc \notin {"redo", "resample", "spec"}
    /\ pc \in Generating \cup {"record"} => HostMode(turn)
Heard ==
    /\ \/ pc \in Decoding
       \/ pc = "prefill" /\ turn.toks = <<>>
       \/ ~poisoned /\ fedN > 0 /\ pc # "prefill" /\ idlePc # "feed"
       => LogitsOf(Fed)
    /\ idlePc = "feed" /\ idle.fedN > 0 => LogitsOf(SubSeq(fed, 1, idle.fedN))
Chosen ==
    /\ pc = "feed" => turn.from = Fed
    /\ pc \in Generating => turn.tok # Eog
    /\ pc = "record" /\ turn.tok = Eog => turn.from = Fed

HostFresh == OnHost /\ Heard /\ Chosen

Quiet == {"reset", "warmup", "input", "join", "turn", "after"}

\* Where no turn runs and no idle prefill does, only the logits count.
LEMMA QuietFresh ==
    ASSUME presampled' = None, pc' \in Quiet, idlePc' # "feed", ~poisoned' /\ fedN' > 0 => LogitsOf(Fed)'
    PROVE  HostFresh'
  BY DEF HostFresh, OnHost, Heard, Chosen, Quiet, Generating, Decoding

LEMMA AsideFresh ==
    ASSUME HostFresh, UNCHANGED <<hostLogits, devLogits, presampled>>, idlePc # "feed", pc # "prefill",
           (UNCHANGED <<fed, fedN>> /\ (~poisoned' => ~poisoned)) \/ fedN' = 0,
           pc' \in Quiet, idlePc' # "feed"
    PROVE  HostFresh'
  <1>1. presampled' = None
    BY DEF HostFresh, OnHost
  <1>2. ASSUME ~poisoned', fedN' > 0 PROVE LogitsOf(Fed)'
    <2>1. UNCHANGED <<fed, fedN>> /\ ~poisoned /\ fedN > 0
      BY <1>2
    <2>2. LogitsOf(Fed)
      BY <2>1 DEF HostFresh, Heard
    <2>3. Fed' = Fed
      BY <2>1 DEF Fed
    <2>. QED  BY <2>2, <2>3 DEF LogitsOf
  <1>. QED  BY <1>1, <1>2, QuietFresh

LEMMA StillFresh ==
    ASSUME HostFresh, UNCHANGED <<hostLogits, devLogits, presampled, fed, fedN, poisoned, idlePc, idle>>,
           UNCHANGED <<pc, turn>> \/ (pc \in Quiet /\ pc' \in Quiet)
    PROVE  HostFresh'
  <1>1. Fed' = Fed /\ (LogitsOf(Fed)' <=> LogitsOf(Fed))
        /\ (LogitsOf(SubSeq(fed, 1, idle.fedN))' <=> LogitsOf(SubSeq(fed, 1, idle.fedN)))
    BY DEF Fed, LogitsOf
  <1>2. CASE UNCHANGED <<pc, turn>>
    BY <1>1, <1>2 DEF HostFresh, OnHost, Heard, Chosen
  <1>3. CASE pc \in Quiet /\ pc' \in Quiet
    BY <1>1, <1>3 DEF HostFresh, OnHost, Heard, Chosen, Quiet, Generating, Decoding
  <1>. QED  BY <1>2, <1>3

LEMMA ResetFresh == ASSUME TypesInv, presampled = None, Reset PROVE HostFresh'
  <1>1. pc = "reset" /\ pc' \in Quiet /\ fedN' = 0 /\ presampled' = None /\ idlePc' = idlePc
    BY DEF Reset, CacheCleared, logits, Quiet
  <1>2. idlePc = "off"
    BY <1>1 DEF TypesInv, PlacesTyped
  <1>. QED  BY <1>1, <1>2, QuietFresh

LEMMA EndsFresh ==
    ASSUME TypesInv, HostFresh,
           Reset \/ WarmupEnds \/ JoinIdle \/ AfterTurn \/ RewriteAssistant \/ RequestEnds
    PROVE  HostFresh'
  <1>1. pc \in {"reset", "warmup", "after", "join"} /\ pc' \in Quiet
        /\ UNCHANGED <<hostLogits, devLogits, presampled>>
    BY DEF Reset, WarmupEnds, AfterTurn, RewriteAssistant, RequestEnds, JoinIdle, logits, Quiet
  <1>2. UNCHANGED <<fed, fedN, poisoned>> \/ fedN' = 0
    BY DEF Reset, WarmupEnds, AfterTurn, RewriteAssistant, RequestEnds, JoinIdle, cache, CacheCleared
  <1>3. idlePc # "feed" /\ idlePc' # "feed"
    <2>1. CASE JoinIdle
      BY <2>1 DEF JoinIdle
    <2>2. CASE ~JoinIdle
      <3>1. idlePc = "off" /\ pc # "join"
        <4>1. pc # "join"
          BY <2>2 DEF Reset, WarmupEnds, AfterTurn, RewriteAssistant, RequestEnds
        <4>. QED  BY <1>1, <4>1 DEF TypesInv, PlacesTyped
      <3>2. idlePc' \in {idlePc, "off", "start"}
        <4>1. WarmupEnds => idlePc' \in {idlePc, "off", "start"}
          BY DEF WarmupEnds, StartsIdle
        <4>2. AfterTurn => idlePc' \in {idlePc, "off", "start"}
          BY DEF AfterTurn, StartsIdle
        <4>3. Reset \/ RewriteAssistant \/ RequestEnds => idlePc' = idlePc
          BY DEF Reset, RewriteAssistant, RequestEnds
        <4>. QED  BY <2>2, <4>1, <4>2, <4>3
      <3>. QED  BY <3>1, <3>2
    <2>. QED  BY <2>1, <2>2
  <1>. QED  BY <1>1, <1>2, <1>3, AsideFresh

LEMMA AskedFresh == ASSUME TypesInv, HostFresh, Asked PROVE HostFresh'
  <1>1. ASSUME TypeLine PROVE HostFresh'
    <2>1. pc \in Quiet /\ pc' \in Quiet
          /\ UNCHANGED <<hostLogits, devLogits, presampled, fed, fedN, poisoned, idlePc, idle>>
      BY <1>1 DEF TypeLine, cache, logits, Quiet
    <2>. QED  BY <2>1, StillFresh
  <1>2. ASSUME NEW req \in ChatRequests, ChatRequest(req) PROVE HostFresh'
    <2>1. pc = "input" /\ Driver = "server" /\ pc' \in Quiet /\ UNCHANGED <<hostLogits, devLogits, presampled, idlePc>>
          /\ (fedN' = 0 \/ UNCHANGED <<fed, fedN, poisoned>>)
      BY <1>2 DEF ChatRequest, cache, logits, CacheCleared, Quiet
    <2>2. idlePc # "feed"
      BY <2>1 DEF TypesInv, PlacesTyped
    <2>. QED  BY <2>1, <2>2, AsideFresh
  <1>3. ASSUME NEW prompt \in Prompts, CompletionRequest(prompt) PROVE HostFresh'
    <2>1. pc = "input" /\ Driver = "server" /\ pc' \in Quiet /\ UNCHANGED <<hostLogits, devLogits, presampled, idlePc>>
          /\ Prepared(CommonLen(Fed, <<Bos>> \o Encode(prompt)) > 0)
      BY <1>3 DEF CompletionRequest, logits, Quiet
    <2>2. fedN' = 0 \/ UNCHANGED <<fed, fedN, poisoned>>
      BY <2>1 DEF Prepared, CacheCleared, cache
    <2>3. idlePc # "feed"
      BY <2>1 DEF TypesInv, PlacesTyped
    <2>. QED  BY <2>1, <2>2, <2>3, AsideFresh
  <1>. QED  BY <1>1, <1>2, <1>3 DEF Asked

\* The logits of a batch's last chunk are those of all that is fed then.
LEMMA ChunkFresh ==
    ASSUME NEW b, Batch(b), FeedChunk(b), RowsUpTo(fedN), BatchRows(b), LastChunk(b)
    PROVE  LogitsOf(Fed)'
  <1>. DEFINE c == NextChunk(b)
  <1>1. /\ b.off \in Nat /\ Len(b.toks) \in Nat /\ nPos = fedN /\ fedN \in Nat /\ b.toks \in Ids
    BY DEF Batch, CacheTyped, Ids
  <1>2. /\ b.off < Len(b.toks) /\ Len(c) \in 1..Len(b.toks) - b.off /\ b.off + Len(c) = Len(b.toks)
        /\ \A i \in 1..Len(c) : rows'[nPos + b.off + i] = Row(nPos + b.off, SubSeq(c, 1, i))
        /\ hostLogits' = Row(nPos + b.off, c) /\ devLogits' = hostLogits' /\ Takes(b.toks, Len(b.toks))
    BY ChunkIs
  <1>3. c \in Seq(Text)
    BY <1>1, <1>2, NextChunkIs DEF Ids
  <1>. HIDE DEF c
  <1>4. SubSeq(c, 1, Len(c)) = c /\ Len(c) \in 1..Len(c)
    BY <1>1, <1>2, <1>3
  <1>5. fedN' = fedN + Len(b.toks)
    BY <1>2 DEF Takes
  <1>6. rows'[nPos + b.off + Len(c)] = hostLogits'
    BY <1>2, <1>4
  <1>7. nPos + b.off + Len(c) = fedN' /\ fedN' \in 1..fedN'
    BY <1>1, <1>2, <1>5
  <1>8. RowsUpTo(fedN)'
    BY ChunkHolds
  <1>9. rows'[fedN'] = Fed'
    BY <1>7, <1>8 DEF RowsUpTo, Fed
  <1>. QED  BY <1>2, <1>6, <1>7, <1>9 DEF LogitsOf

LEMMA WarmupFresh ==
    ASSUME TypesInv, RowsHoldFed, HostFresh, WarmupChunk \/ WarmupFails
    PROVE  HostFresh'
  <1>1. pc = "warmup" /\ pc' = "warmup" /\ presampled' = presampled /\ idlePc' = idlePc
    BY DEF WarmupChunk, WarmupFails, logits
  <1>2. presampled' = None /\ pc' \in Quiet /\ idlePc' # "feed"
    BY <1>1 DEF HostFresh, OnHost, Quiet, TypesInv, PlacesTyped
  <1>3. CASE WarmupFails
    <2>1. poisoned'
      BY <1>3 DEF WarmupFails
    <2>. QED  BY <1>2, <2>1, QuietFresh
  <1>4. CASE WarmupChunk
    <2>1. FeedChunk(turn) /\ turn.off < Len(turn.toks) /\ poisoned' = poisoned
      BY <1>4 DEF WarmupChunk
    <2>2. Batch(turn)
      BY <1>1, <2>1, TurnBatch
    <2>3. ASSUME ~poisoned', fedN' > 0 PROVE LogitsOf(Fed)'
      <3>1. RowsUpTo(fedN) /\ BatchRows(turn)
        BY <1>1, <2>1, <2>3 DEF RowsHoldFed
      <3>2. CASE LastChunk(turn)
        BY <2>1, <2>2, <3>1, <3>2, ChunkFresh
      <3>3. CASE ~LastChunk(turn)
        <4>1. UNCHANGED <<fed, fedN, hostLogits, devLogits>>
          BY <2>1, <2>2, <3>3, ChunkIs
        <4>2. LogitsOf(Fed)
          <5>1. idlePc # "feed" /\ pc # "prefill" /\ ~poisoned /\ fedN > 0
            BY <1>1, <1>2, <2>1, <2>3, <4>1
          <5>. QED  BY <5>1 DEF HostFresh, Heard
        <4>. QED  BY <4>1, <4>2 DEF LogitsOf, Fed
      <3>. QED  BY <3>2, <3>3
    <2>. QED  BY <1>2, <2>3, QuietFresh
  <1>. QED  BY <1>3, <1>4

-----------------------------------------------------------------------------
LEMMA PrefillFresh ==
    ASSUME TypesInv, Sound, RowsHoldFed, HostFresh, PrefillChunk \/ PrefillNothing \/ PrefillStops
    PROVE  HostFresh'
  <1>1. pc = "prefill" /\ idlePc = "off" /\ idlePc' = "off" /\ presampled' = None /\ turn \in FeedTurn
        /\ HostMode(turn) /\ turn.tok # Eog /\ ~poisoned
    <2>1. pc = "prefill" /\ idlePc' = idlePc /\ presampled' = presampled
      BY DEF PrefillChunk, PrefillNothing, PrefillStops, logits
    <2>. QED  BY <2>1 DEF TypesInv, PlacesTyped, TurnTyped, HostFresh, OnHost, Chosen, Sound, Generating
  <1>2. \/ turn' = turn
        \/ turn' = [turn EXCEPT !.off = @ + Len(NextChunk(turn))]
        \/ turn' = [turn EXCEPT !.rc = Error]
    BY DEF PrefillChunk, PrefillNothing, PrefillStops
  <1>3. HostMode(turn') /\ turn'.tok = turn.tok /\ turn'.toks = turn.toks
    <2>1. turn'.mode = turn.mode /\ turn'.tok = turn.tok /\ turn'.toks = turn.toks
      BY <1>1, <1>2 DEF FeedTurn
    <2>. QED  BY <1>1, <2>1 DEF HostMode
  <1>4. CASE PrefillStops
    <2>1. pc' = "record" /\ poisoned'
      BY <1>4 DEF PrefillStops
    <2>. QED  BY <1>1, <1>3, <2>1 DEF HostFresh, OnHost, Heard, Chosen, Generating, Decoding
  <1>5. CASE PrefillNothing
    <2>1. pc' = "sample" /\ turn.toks = <<>> /\ UNCHANGED <<fed, fedN, hostLogits, devLogits>>
      BY <1>5 DEF PrefillNothing, cache, logits
    <2>2. LogitsOf(Fed)
      BY <1>1, <2>1 DEF HostFresh, Heard
    <2>3. LogitsOf(Fed)'
      BY <2>1, <2>2 DEF LogitsOf, Fed
    <2>. QED  BY <1>1, <1>3, <2>1, <2>3 DEF HostFresh, OnHost, Heard, Chosen, Generating, Decoding
  <1>6. CASE PrefillChunk
    <2>1. FeedChunk(turn) /\ pc' = IF LastChunk(turn) THEN "sample" ELSE "prefill"
      BY <1>6 DEF PrefillChunk
    <2>2. turn.off < Len(turn.toks)
      BY <2>1 DEF FeedChunk
    <2>3. Batch(turn) /\ RowsUpTo(fedN) /\ BatchRows(turn)
      BY <1>1, <2>2, TurnBatch DEF RowsHoldFed
    <2>4. CASE LastChunk(turn)
      <3>1. LogitsOf(Fed)'
        BY <2>1, <2>3, <2>4, ChunkFresh
      <3>2. pc' = "sample"
        BY <2>1, <2>4
      <3>. QED  BY <1>1, <1>3, <3>1, <3>2 DEF HostFresh, OnHost, Heard, Chosen, Generating, Decoding
    <2>5. CASE ~LastChunk(turn)
      <3>1. turn'.toks # <<>>
        <4>1. turn.off \in Nat /\ (turn.toks = <<>> => Len(turn.toks) = 0)
          BY <1>1 DEF FeedTurn
        <4>. QED  BY <1>3, <2>2, <4>1
      <3>2. pc' = "prefill"
        BY <2>1, <2>5
      <3>. QED  BY <1>1, <1>3, <3>1, <3>2 DEF HostFresh, OnHost, Heard, Chosen, Generating, Decoding
    <2>. QED  BY <2>4, <2>5
  <1>. QED  BY <1>4, <1>5, <1>6

\* A prompt that was fed already, to its last token, is all that was fed.
LEMMA BegunFresh ==
    ASSUME TypesInv, HostSamples, pc = "turn", NEW ids \in Ids, ids # <<>>,
           presampled = None, fedN > 0 /\ Reuse(ids) = fedN => LogitsOf(Fed),
           Rewound(ids), NEW kind \in {"chat", "completion"}, NEW prev \in Text,
           NEW req \in Seq(Msg) \cup Text, Feeding(ids, kind, prev, req),
           UNCHANGED <<hostLogits, devLogits, presampled, idlePc>>
    PROVE  HostFresh'
  <1>1. /\ Reuse(ids) \in 0..fedN /\ Reuse(ids) <= Len(ids)
        /\ ids # <<>> /\ Reuse(ids) = Len(ids) => Reuse(ids) = fedN
        /\ fedN' = Reuse(ids) /\ fed' = SubSeq(fed, 1, Reuse(ids))
    BY RewoundIs
  <1>2. fedN \in Nat /\ fed \in Seq(Text) /\ fedN <= Len(fed) /\ Len(ids) \in Nat /\ Len(ids) > 0
        /\ idlePc = "off"
    <2>1. Len(ids) \in Nat /\ Len(ids) > 0
      BY DEF Ids
    <2>. QED  BY <2>1 DEF TypesInv, CacheTyped, CacheSized, PlacesTyped, Ids
  <1>3. /\ pc' = "prefill" /\ Len(turn'.toks) = Len(ids) - Reuse(ids) /\ HostMode(turn')
        /\ turn'.tok = None
    <2>1. Reuse(ids) \in Nat
      BY <1>1, <1>2
    <2>2. /\ pc' = "prefill" /\ Len(turn'.toks) = Len(ids) - Reuse(ids) /\ turn'.mode \in Modes
          /\ turn'.tok = None
      BY <1>1, <2>1, FeedingIs
    <2>3. HostMode(turn')
      BY <2>2, SessionAssumption DEF HostSamples, HostMode
    <2>. QED  BY <2>2, <2>3
  <1>4. ASSUME turn'.toks = <<>> PROVE LogitsOf(Fed)'
    <2>1. Len(turn'.toks) = 0
      BY <1>4
    <2>2. Reuse(ids) = Len(ids)
      BY <1>1, <1>2, <1>3, <2>1
    <2>3. Reuse(ids) = fedN /\ fedN > 0
      BY <1>1, <1>2, <2>2
    <2>4. LogitsOf(Fed)
      BY <2>3
    <2>5. Fed' = Fed
      <3>1. fedN \in 0..Len(fed) /\ fedN \in 0..fedN
        BY <1>2
      <3>2. SubSeq(SubSeq(fed, 1, fedN), 1, fedN) = SubSeq(fed, 1, fedN)
        BY <1>2, <3>1, BeginningOfBeginning
      <3>. QED  BY <1>1, <2>3, <3>2 DEF Fed
    <2>. QED  BY <2>4, <2>5 DEF LogitsOf
  <1>5. presampled' = None /\ idlePc' = "off" /\ None # Eog
    BY <1>2 DEF None, Eog
  <1>. QED  BY <1>3, <1>4, <1>5 DEF HostFresh, OnHost, Heard, Chosen, Generating, Decoding

\* Where not all is sure, a prompt is not fed already.
LEMMA ReusesHeard ==
    ASSUME TypesInv, SureInv, sure = Whole => HostFresh, pc = "turn", ~poisoned,
           NEW ids \in Ids, Rewound(ids), sure' = Whole
    PROVE  presampled = None /\ (fedN > 0 /\ Reuse(ids) = fedN => LogitsOf(Fed))
  <1>1. idlePc = "off" /\ pc # "spec" /\ pc # "prefill" /\ SureTyped /\ fedN \in Nat
    BY DEF TypesInv, PlacesTyped, CacheTyped, SureInv
  <1>2. CASE sure = Whole
    BY <1>1, <1>2 DEF HostFresh, OnHost, Heard
  <1>3. CASE sure # Whole
    <2>1. presampled = None
      BY <1>3 DEF SureInv, Terminal
    <2>2. Reuse(ids) <= sure.tokens /\ sure.tokens \in Nat /\ Reuse(ids) \in 0..fedN
      BY <1>1, ReusesWhat, RewoundIs DEF SureTyped
    <2>3. sure.tokens > 0 => sure.tokens < fedN
      BY <1>3 DEF SureInv, SureRests
    <2>. QED  BY <1>1, <2>1, <2>2, <2>3
  <1>. QED  BY <1>2, <1>3

LEMMA RefusedFresh ==
    ASSUME TypesInv, HostFresh, pc = "turn", NEW kind, Refused(kind),
           UNCHANGED <<hostLogits, devLogits, presampled, idlePc, poisoned>>
    PROVE  HostFresh'
  <1>1. pc' \in Quiet /\ UNCHANGED <<fed, fedN>>
    BY DEF Refused, Quiet, cache
  <1>2. idlePc = "off"
    BY DEF TypesInv, PlacesTyped
  <1>. QED  BY <1>1, <1>2, AsideFresh

\* A prompt has tokens.
LEMMA TailSome ==
    ASSUME TypesInv, pc # "spec", NEW render \in Text, render # <<>>
    PROVE  TailEncode(render) # <<>>
  <1>1. /\ fedN \in Nat /\ nPos \in Nat /\ nPos = fedN /\ fed \in Seq(Text) /\ fedN <= Len(fed)
        /\ Len(fed) \in Nat /\ syncTok \in Nat /\ FedSynced = fedN
    <2>1. fedN \in Nat /\ nPos \in Nat /\ nPos = fedN /\ fed \in Seq(Text) /\ fedN <= Len(fed) /\ syncTok \in Nat
      BY DEF TypesInv, CacheTyped, CacheSized, ChatTyped, Ids
    <2>. QED  BY <2>1, FedSyncedIs
  <1>. DEFINE suffix == SubSeq(render, Len(syncRender) + 1, Len(render))
  <1>2. CASE SyncOk(render) /\ CleanBoundary(suffix)
    <2>1. syncTok \in 1..Len(fed)
      BY <1>1, <1>2 DEF SyncOk
    <2>2. SubSeq(fed, 1, syncTok) \in Seq(Text) /\ Len(SubSeq(fed, 1, syncTok)) = syncTok
      BY <1>1, <2>1, Beginning
    <2>3. suffix \in Text
      <3>1. Len(syncRender) \in Nat
        BY DEF TypesInv, ChatTyped, Text
      <3>. QED  BY <3>1, SuffixType
    <2>. HIDE DEF suffix
    <2>4. Encode(suffix) \in Seq(Text)
      BY <2>3, EncodeType DEF Ids
    <2>. DEFINE s == SubSeq(fed, 1, syncTok)
                t == Encode(suffix)
    <2>5. TailEncode(render) = s \o t
      BY <1>2 DEF TailEncode, suffix
    <2>. HIDE DEF s, t
    <2>6. s \in Seq(Text) /\ t \in Seq(Text) /\ Len(s) > 0
      BY <2>1, <2>2, <2>4 DEF s, t
    <2>7. Len(s \o t) = Len(s) + Len(t) /\ Len(s) \in Nat /\ Len(t) \in Nat
      BY <2>6, ConcatProperties
    <2>8. Len(s \o t) > 0
      BY <2>6, <2>7
    <2>9. s \o t # <<>>
      BY <2>6, <2>8
    <2>. QED  BY <2>5, <2>9
  <1>3. CASE ~(SyncOk(render) /\ CleanBoundary(suffix))
    <2>1. TailEncode(render) = Encode(render)
      BY <1>3 DEF TailEncode
    <2>. QED  BY <2>1, EncodeSome
  <1>. QED  BY <1>2, <1>3

LEMMA BeginTurnFresh ==
    ASSUME TypesInv, SureInv, sure = Whole => HostFresh, HostSamples, BeginTurn, sure' = Whole
    PROVE  HostFresh'
  <1>1. pc = "turn" /\ turn.kind = "chat"
        /\ UNCHANGED <<idlePc, poisoned, hostLogits, devLogits, presampled>>
    BY DEF BeginTurn, logits
  <1>. DEFINE ms == Append(msgs, turn.msg)
              render == Render(ms, TRUE)
              ids == TailEncode(render)
              req == IF Driver = "server" THEN turn.req ELSE ms
  <1>2. ms \in Seq(Msg) /\ lastRender \in Text /\ req \in Seq(Msg) \cup Text
    BY <1>1, TurnMessage, AppendProperties DEF TypesInv, ChatTyped
  <1>3. IF Refuses(ids)
        THEN Refused("chat")
        ELSE Rewound(ids) /\ Feeding(ids, "chat", lastRender, req)
    BY DEF BeginTurn
  <1>. HIDE DEF ms, req
  <1>4. render \in Text /\ render # <<>>
    BY <1>2, RenderType
  <1>. HIDE DEF render
  <1>5. ids \in Ids /\ ids # <<>>
    BY <1>1, <1>4, TailEncodeType, TailSome
  <1>. HIDE DEF ids
  <1>6. CASE Refuses(ids)
    <2>1. Refused("chat") /\ sure' = sure
      BY <1>3, <1>6 DEF Refused, cache
    <2>. QED  BY <1>1, <2>1, RefusedFresh
  <1>7. CASE ~Refuses(ids)
    <2>1. ~poisoned
      BY <1>7 DEF Refuses
    <2>2. presampled = None /\ (fedN > 0 /\ Reuse(ids) = fedN => LogitsOf(Fed))
      BY <1>1, <1>3, <1>5, <1>7, <2>1, ReusesHeard
    <2>. QED  BY <1>1, <1>2, <1>3, <1>5, <1>7, <2>2, BegunFresh
  <1>. QED  BY <1>6, <1>7

LEMMA BeginCompletionFresh ==
    ASSUME TypesInv, Sound, SureInv, sure = Whole => HostFresh, HostSamples, BeginCompletion, sure' = Whole
    PROVE  HostFresh'
  <1>1. pc = "turn" /\ turn.kind = "completion"
        /\ UNCHANGED <<idlePc, poisoned, hostLogits, devLogits, presampled>>
    BY DEF BeginCompletion, logits
  <1>. DEFINE ids == <<Bos>> \o Encode(turn.prompt)
  <1>2. turn.prompt \in Text
    <2>1. turn \in PromptTurn
      BY <1>1 DEF TypesInv, TurnTyped, AskedTurn, TypedTurn
    <2>. QED  BY <2>1 DEF PromptTurn
  <1>3. ids \in Ids /\ ids # <<>>
    <2>. DEFINE e == Encode(turn.prompt)
    <2>1. <<Bos>> \in Seq(Text) /\ e \in Seq(Text) /\ Len(<<Bos>>) = 1
      BY <1>2, Words, OfOne, EncodeType DEF Ids
    <2>. HIDE DEF e
    <2>2. <<Bos>> \o e \in Seq(Text) /\ Len(<<Bos>> \o e) = 1 + Len(e) /\ Len(e) \in Nat
      BY <2>1, ConcatProperties
    <2>3. <<Bos>> \o e # <<>>
      BY <2>2
    <2>. QED  BY <2>2, <2>3 DEF Ids, e
  <1>4. IF Len(ids) > NCtx
        THEN Refused("completion")
        ELSE Rewound(ids) /\ Feeding(ids, "completion", <<>>, turn.prompt)
    BY DEF BeginCompletion
  <1>. HIDE DEF ids
  <1>5. ~poisoned /\ <<>> \in Text
    BY <1>1, Words DEF Sound
  <1>6. CASE Len(ids) > NCtx
    <2>1. Refused("completion") /\ sure' = sure
      BY <1>4, <1>6 DEF Refused, cache
    <2>. QED  BY <1>1, <2>1, RefusedFresh
  <1>7. CASE ~(Len(ids) > NCtx)
    <2>1. presampled = None /\ (fedN > 0 /\ Reuse(ids) = fedN => LogitsOf(Fed))
      BY <1>1, <1>3, <1>4, <1>5, <1>7, ReusesHeard
    <2>. QED  BY <1>1, <1>2, <1>3, <1>4, <1>5, <1>7, <2>1, BegunFresh
  <1>. QED  BY <1>6, <1>7

-----------------------------------------------------------------------------
\* A turn that stops leaves the logits to the next one.
LEMMA StopsFresh ==
    ASSUME HostFresh, pc \in Decoding, pc' = "record", turn'.mode = turn.mode, turn'.tok = turn.tok,
           UNCHANGED <<hostLogits, devLogits, presampled, fed, fedN>>, idlePc' = "off",
           turn.tok # Eog
    PROVE  HostFresh'
  <1>1. LogitsOf(Fed)
    BY DEF HostFresh, Heard
  <1>2. LogitsOf(Fed)'
    BY <1>1 DEF LogitsOf, Fed
  <1>3. HostMode(turn') /\ presampled' = None
    BY DEF HostFresh, OnHost, HostMode, Generating
  <1>. QED  BY <1>2, <1>3 DEF HostFresh, OnHost, Heard, Chosen, Generating, Decoding

LEMMA DecodeEndsFresh ==
    ASSUME TypesInv, HostFresh, DecodeEnds \/ FeedLimit \/ FeedStops \/ FeedDies
    PROVE  HostFresh'
  <1>1. /\ pc \in {"sample", "feed"} /\ pc' = "record" /\ idlePc' = idlePc
        /\ UNCHANGED <<hostLogits, devLogits, presampled, fed, fedN>>
    BY DEF DecodeEnds, FeedLimit, FeedStops, FeedDies, cache, logits
  <1>2. pc \in Decoding /\ turn.tok # Eog
    BY <1>1 DEF HostFresh, Chosen, Generating, Decoding
  <1>3. turn \in FeedTurn /\ idlePc = "off"
    BY <1>2, DecodeState
  <1>4. turn' = turn \/ turn' = [turn EXCEPT !.unfed = TRUE]
    BY DEF DecodeEnds, FeedLimit, FeedStops, FeedDies
  <1>5. turn'.mode = turn.mode /\ turn'.tok = turn.tok
    BY <1>3, <1>4 DEF FeedTurn
  <1>. QED  BY <1>1, <1>2, <1>3, <1>5, StopsFresh

LEMMA SampleFresh == ASSUME TypesInv, HostFresh, SampleNext PROVE HostFresh'
  <1>1. pc = "sample" /\ presampled = None /\ HostMode(turn)
    BY DEF SampleNext, Going, HostFresh, OnHost, Generating, Decoding
  <1>2. pc \in Decoding
    BY <1>1 DEF Decoding
  <1>3. turn \in FeedTurn /\ idlePc = "off" /\ hostLogits \in Ids /\ devLogits \in Ids
    BY <1>2, DecodeState
  <1>4. LogitsOf(Fed)
    BY <1>2 DEF HostFresh, Heard
  <1>5. PICK t \in Pieces \cup {Eog},
             from \in {hostLogits} \cup (IF Driver = "server" THEN {} ELSE {devLogits}) :
                 Picked(turn, t, from)
    BY <1>1 DEF SampleNext
  <1>6. from = Fed /\ from \in Ids /\ t \in Text
    <2>1. from = Fed
      BY <1>4, <1>5 DEF LogitsOf
    <2>2. from \in Ids
      BY <1>3, <1>5
    <2>. QED  BY <1>5, <2>1, <2>2, Words
  <1>7. /\ turn'.mode = turn.mode /\ turn'.tok = t /\ turn'.from = from
        /\ t = Eog => pc' = "record"
        /\ t # Eog => pc' = "feed"
    BY <1>3, <1>5, <1>6, PickedIs
  <1>8. /\ UNCHANGED <<fed, fedN, hostLogits, devLogits, idlePc>> /\ presampled' = None
    BY <1>1 DEF SampleNext, cache
  <1>9. LogitsOf(Fed)' /\ Fed' = Fed
    BY <1>4, <1>8 DEF LogitsOf, Fed
  <1>10. HostMode(turn')
    BY <1>1, <1>7 DEF HostMode
  <1>11. CASE t = Eog
    BY <1>3, <1>10, <1>6, <1>7, <1>8, <1>9, <1>11 DEF HostFresh, OnHost, Heard, Chosen, Generating, Decoding
  <1>12. CASE t # Eog
    BY <1>3, <1>10, <1>6, <1>7, <1>8, <1>9, <1>12 DEF HostFresh, OnHost, Heard, Chosen, Generating, Decoding
  <1>. QED  BY <1>11, <1>12

\* The steps of other ways to sample.
LEMMA OtherModes ==
    ASSUME HostFresh
    PROVE  ~(\/ PickOnDevice \/ PickFails \/ Redo \/ RedoFails \/ SpecFeed \/ SpecRead \/ SpecReadFails
             \/ SpecBlocked \/ SpecUnsupported)
  <1>1. pc \notin {"redo", "resample", "spec"} /\ (pc = "sample" => HostMode(turn))
    BY DEF HostFresh, OnHost, Generating, Decoding
  <1>2. ~(PickOnDevice \/ PickFails \/ Redo \/ RedoFails)
    BY <1>1 DEF PickOnDevice, PickFails, Redo, RedoFails, Going, HostMode
  <1>3. ~(SpecFeed \/ SpecRead \/ SpecReadFails \/ SpecBlocked \/ SpecUnsupported)
    BY <1>1 DEF SpecFeed, SpecRead, SpecReadFails, SpecBlocked, SpecUnsupported, Piping, Going, HostMode
  <1>. QED  BY <1>2, <1>3

LEMMA FeedTokenFresh == ASSUME TypesInv, Sound, RowsHoldFed, HostFresh, FeedToken PROVE HostFresh'
  <1>1. /\ pc = "feed" /\ pc' = "sample" /\ Computes(nPos, <<turn.tok>>) /\ nPos' = nPos + 1
        /\ fed' = WriteAt(SubSeq(fed, 1, FedSynced), FedSynced, <<turn.tok>>)
        /\ fedN' = FedSynced + 1 /\ idlePc' = idlePc /\ turn' = [turn EXCEPT !.hasFed = TRUE]
    BY DEF FeedToken
  <1>2. pc \in Decoding /\ pc # "spec" /\ ~poisoned /\ HostMode(turn) /\ presampled = None
        /\ turn.tok # Eog
    BY <1>1 DEF Decoding, Generating, Sound, HostFresh, OnHost, Chosen
  <1>3. /\ nPos \in Nat /\ fedN \in Nat /\ rows \in Seq(Ids) /\ fed \in Ids
        /\ fedN <= Len(fed) /\ nPos = fedN /\ turn \in FeedTurn /\ idlePc = "off"
    BY <1>2, DecodeState
  <1>4. turn.tok \in Text /\ CacheTyped /\ FedSynced = fedN
    BY <1>3, FedSyncedIs DEF FeedTurn, CacheTyped
  <1>5. Row(nPos, <<turn.tok>>) = Append(Fed, turn.tok)
    BY <1>1, <1>2, <1>4, FeedsAfter
  <1>6. Fed' = Append(Fed, turn.tok)
    <2>1. nPos' = fedN + 1 /\ fedN' = fedN + 1 /\ fed' = WriteAt(SubSeq(fed, 1, fedN), fedN, <<turn.tok>>)
      BY <1>1, <1>3, <1>4
    <2>2. SubSeq(fed', 1, fedN + 1) = Append(SubSeq(fed, 1, fedN), turn.tok)
      BY <1>3, <1>4, <2>1, TakesOne
    <2>. QED  BY <2>1, <2>2 DEF Fed
  <1>7. /\ hostLogits' = Row(nPos, <<turn.tok>>)
        /\ Driver # "server" => devLogits' = Row(nPos, <<turn.tok>>)
        /\ presampled' = presampled
    BY <1>2 DEF FeedToken, HostMode
  <1>8. LogitsOf(Fed)'
    BY <1>5, <1>6, <1>7 DEF LogitsOf
  <1>9. HostMode(turn') /\ turn'.tok = turn.tok
    <2>1. turn'.mode = turn.mode /\ turn'.tok = turn.tok
      BY <1>1, <1>3 DEF FeedTurn
    <2>. QED  BY <1>2, <2>1 DEF HostMode
  <1>. QED  BY <1>1, <1>2, <1>3, <1>7, <1>8, <1>9 DEF HostFresh, OnHost, Heard, Chosen, Generating, Decoding

LEMMA RecordFresh == ASSUME TypesInv, HostFresh, RecordTurn PROVE HostFresh'
  <1>1. pc = "record" /\ pc' \in Quiet /\ UNCHANGED <<hostLogits, devLogits, presampled, fed, fedN, poisoned, idlePc>>
    BY DEF RecordTurn, logits, Quiet
  <1>2. idlePc = "off"
    BY <1>1 DEF TypesInv, PlacesTyped
  <1>. QED  BY <1>1, <1>2, AsideFresh

\* The idle prefill.
LEMMA IdleBeginsFresh == ASSUME TypesInv, Sound, HostFresh, IdleBegins PROVE HostFresh'
  <1>1. /\ idlePc = "start" /\ idlePc' = "feed" /\ idle'.fedN = fedN
        /\ UNCHANGED <<fed, poisoned, pc, hostLogits, devLogits, presampled>>
    BY IdleBeginsIs
  <1>2. pc \in {"input", "join"} /\ ~poisoned
    BY <1>1 DEF TypesInv, PlacesTyped, Sound
  <1>3. fedN > 0 => LogitsOf(SubSeq(fed, 1, fedN))
    BY <1>1, <1>2 DEF HostFresh, Heard, Fed
  <1>4. idle'.fedN > 0 => LogitsOf(SubSeq(fed, 1, idle.fedN))'
    BY <1>1, <1>3 DEF LogitsOf
  <1>5. presampled' = None
    BY <1>1 DEF HostFresh, OnHost
  <1>. QED  BY <1>1, <1>2, <1>4, <1>5 DEF HostFresh, OnHost, Heard, Chosen, Generating, Decoding

LEMMA IdleChunkFresh == ASSUME TypesInv, Sound, RowsHoldFed, HostFresh, IdleChunk PROVE HostFresh'
  <1>1. /\ idlePc = "feed" /\ FeedChunk(idle) /\ UNCHANGED <<poisoned, pc, presampled>>
        /\ idle' = [idle EXCEPT !.off = @ + Len(NextChunk(idle))]
        /\ idlePc' = (IF LastChunk(idle) THEN "done" ELSE "feed")
    BY DEF IdleChunk
  <1>2. pc \in {"input", "join"} /\ ~poisoned /\ pc' \in Quiet /\ presampled' = None
    BY <1>1 DEF TypesInv, PlacesTyped, Sound, HostFresh, OnHost, Quiet
  <1>3. Batch(idle) /\ idle \in IdleRun
    BY <1>1, IdleBatch
  <1>4. RowsUpTo(fedN) /\ BatchRows(idle)
    BY <1>1, <1>2 DEF RowsHoldFed
  <1>5. CASE LastChunk(idle)
    <2>1. LogitsOf(Fed)'
      BY <1>1, <1>3, <1>4, <1>5, ChunkFresh
    <2>. QED  BY <1>1, <1>2, <1>5, <2>1, QuietFresh
  <1>6. CASE ~LastChunk(idle)
    <2>1. idle'.fedN = idle.fedN
      BY <1>1, <1>3 DEF IdleRun
    <2>2. UNCHANGED <<fed, hostLogits, devLogits>>
      BY <1>1, <1>3, <1>6, ChunkIs
    <2>3. idle'.fedN > 0 => LogitsOf(SubSeq(fed, 1, idle.fedN))'
      BY <1>1, <2>1, <2>2 DEF HostFresh, Heard, LogitsOf
    <2>4. idlePc' = "feed"
      BY <1>1, <1>6
    <2>. QED  BY <1>2, <2>3, <2>4 DEF HostFresh, OnHost, Heard, Chosen, Quiet, Generating, Decoding
  <1>. QED  BY <1>5, <1>6

LEMMA IdleStopsFresh ==
    ASSUME TypesInv, Sound, SureInv, HostFresh, IdleStops, sure = Whole, sure' = Whole
    PROVE  HostFresh'
  <1>1. /\ idlePc = "feed" /\ idle \in IdleRun /\ ~poisoned
        /\ UNCHANGED <<pc, hostLogits, devLogits, presampled>>
    BY IdleStopsIs DEF Sound
  <1>2. PICK n \in 0..idle.off :
            /\ Restored(n)
            /\ \/ n = 0 /\ ~IdleFits
               \/ n = idle.off /\ (~poisoned' => WroteOver)
    BY IdleStopsIs
  <1>3. /\ fedN' = idle.fedN /\ (n = 0 => fed' = fed) /\ idlePc' = "done"
        /\ \A k \in 0..fedN : SubSeq(fed', 1, k) = SubSeq(fed, 1, k)
    BY <1>1, <1>2, RestoredIs
  <1>4. pc \in {"input", "join"} /\ idle.off \in Nat /\ pc' \in Quiet /\ presampled' = None
    BY <1>1 DEF TypesInv, PlacesTyped, IdleRun, Quiet, HostFresh, OnHost
  <1>5. ~poisoned' => n = 0 \/ idle.nPos = nPos
    BY <1>1, <1>2, WroteOverIs, WholeIs
  <1>6. idle.nPos = idle.fedN /\ nPos = fedN /\ fedN \in Nat
    BY <1>1, <1>4 DEF TypesInv, CacheTyped, CacheSized, IdleSized
  <1>7. ASSUME ~poisoned', fedN' > 0 PROVE LogitsOf(Fed)'
    <2>1. LogitsOf(SubSeq(fed, 1, idle.fedN))
      BY <1>1, <1>3, <1>7 DEF HostFresh, Heard
    <2>2. Fed' = SubSeq(fed, 1, idle.fedN)
      <3>1. CASE n = 0
        BY <1>3, <3>1 DEF Fed
      <3>2. CASE idle.nPos = nPos
        <4>1. idle.fedN \in 0..fedN
          BY <1>6, <3>2
        <4>. QED  BY <1>3, <4>1 DEF Fed
      <3>. QED  BY <1>5, <1>7, <3>1, <3>2
    <2>. QED  BY <1>1, <2>1, <2>2 DEF LogitsOf
  <1>. QED  BY <1>3, <1>4, <1>7, QuietFresh

LEMMA IdleFresh ==
    ASSUME TypesInv, Sound, SureInv, RowsHoldFed, HostFresh, IdleStep, sure = Whole, sure' = Whole
    PROVE  HostFresh'
  <1>1. CASE IdleGivesUp
    <2>1. /\ idlePc = "start" /\ idlePc' = "done" /\ pc' = pc
          /\ UNCHANGED <<hostLogits, devLogits, presampled, fed, fedN, poisoned>>
      BY <1>1 DEF IdleGivesUp, cache, logits
    <2>2. pc \in {"input", "join"} /\ pc' \in Quiet
      BY <2>1 DEF TypesInv, PlacesTyped, Quiet
    <2>. QED  BY <2>1, <2>2, AsideFresh
  <1>. QED  BY <1>1, IdleBeginsFresh, IdleChunkFresh, IdleStopsFresh DEF IdleStep

LEMMA FreshStep ==
    ASSUME TypesInv, Sound, SureInv, sure = Whole => RowsHoldFed /\ HostFresh, [Next]_vars, HostSamples,
           sure' = Whole
    PROVE  HostFresh'
  <1>0. CASE sure # Whole
    <2>1. presampled = None
      BY <1>0 DEF SureInv, Terminal
    <2>. QED  BY <1>0, <2>1, SureAgain, ResetFresh, BeginTurnFresh
  <1>1. ASSUME RowsHoldFed, HostFresh, MainStep PROVE HostFresh'
    <2>1. ASSUME \/ Reset \/ WarmupChunk \/ WarmupFails \/ WarmupEnds
                 \/ JoinIdle \/ AfterTurn \/ RewriteAssistant \/ RequestEnds
          PROVE  HostFresh'
      BY <1>1, <2>1, EndsFresh, WarmupFresh
    <2>2. ASSUME \/ BeginTurn \/ BeginCompletion
                 \/ PrefillChunk \/ PrefillNothing \/ PrefillStops
          PROVE  HostFresh'
      BY <1>1, <2>2, BeginTurnFresh, BeginCompletionFresh, PrefillFresh
    <2>3. ASSUME \/ DecodeEnds \/ SampleNext \/ FeedToken \/ FeedLimit \/ FeedStops \/ FeedDies
                 \/ RecordTurn
          PROVE  HostFresh'
      BY <1>1, <2>3, DecodeEndsFresh, SampleFresh, FeedTokenFresh, RecordFresh
    <2>. QED  BY <1>1, <2>1, <2>2, <2>3, OtherModes DEF MainStep
  <1>2. ASSUME HostFresh, Signal \/ UNCHANGED vars PROVE HostFresh'
    <2>1. UNCHANGED <<hostLogits, devLogits, presampled, fed, fedN, poisoned, idlePc, idle, pc, turn>>
      BY <1>2 DEF Signal, vars, cache, logits
    <2>. QED  BY <1>2, <2>1, StillFresh
  <1>. QED  BY <1>0, <1>1, <1>2, AskedFresh, IdleFresh DEF Next

LEMMA InitFresh == Init => HostFresh
  BY DEF Init, HostFresh, OnHost, Heard, Chosen, Generating, Decoding

\* Where the host's logits are sampled (a session in host mode, or a server whose
\* backend samples no rows), every token is chosen by the logits of exactly the
\* tokens fed, also the first token of a prompt that was fed already (where
\* nothing is computed), and after an idle prefill that gave up: their logits
\* are those of the lengths that were put back.  Not shown of a turn that goes
\* on from what an interrupted idle prefill wrote over.
THEOREM SessionLogitsFresh == ASSUME HostSamples PROVE Spec => []LogitsFresh
  <1>. DEFINE Inv == /\ TypesInv /\ Sound /\ SureInv /\ SureRows
                     /\ (sure = Whole => RowsHoldFed /\ HostFresh)
  <1>1. Init => Inv
    BY InitTypes, InitSound, InitSure, InitRows, InitFresh
  <1>2. Inv /\ [Next]_vars => Inv'
    <2>. SUFFICES ASSUME Inv, [Next]_vars PROVE Inv'
      OBVIOUS
    <2>1. TypesInv' /\ Sound' /\ SureInv' /\ SureRows'
      BY TypesStep, SoundStep, SureStep, SureRowsStep
    <2>2. sure' = Whole => RowsHoldFed' /\ HostFresh'
      BY RowsStep, FreshStep
    <2>. QED  BY <2>1, <2>2 DEF Whole
  <1>3. Inv => LogitsFresh
    BY DEF HostFresh, OnHost, Chosen, LogitsFresh
  <1>. QED  BY <1>1, <1>2, <1>3, PTL DEF Spec

-----------------------------------------------------------------------------
(***************************************************************************)
(* However a text is cut into tokens, they spell it.                       *)
(***************************************************************************)
\* The text of the first i characters, and of the next one if it is merged
\* with the last of them.
Covered(text, i) == IF Merged(text, i) THEN SubSeq(text, 1, i + 1) ELSE SubSeq(text, 1, i)

LEMMA NeverTwice == ASSUME NEW text \in Text, NEW i, Merged(text, i - 1), i \in Nat PROVE ~Merged(text, i)
  <1>. SUFFICES ASSUME Merged(text, i) PROVE FALSE
    OBVIOUS
  <1>1. i - 1 \in 1..Len(text) - 1 /\ i \in 1..Len(text) - 1 /\ Len(text) \in Nat /\ (i - 1) + 1 = i
    BY DEF Merged, Text
  <1>2. SubSeq(text, i - 1, i) \in Merges /\ SubSeq(text, i, i + 1) \in Merges
    BY <1>1 DEF Merged
  <1>3. SubSeq(text, i - 1, i)[2] = text[i] /\ SubSeq(text, i, i + 1)[1] = text[i]
    BY <1>1 DEF Text
  <1>. QED  BY <1>2, <1>3, SessionAssumption

LEMMA SpellOne == ASSUME NEW t \in Text PROVE Spell(<<t>>) = t
  BY FlattenOne DEF Spell, Text

\* What the i-th step of the cut adds.
LEMMA CutSpells ==
    ASSUME NEW text \in Text, NEW i \in 1..Len(text)
    PROVE  Covered(text, i - 1) \o Spell(Cut(text)[i]) = Covered(text, i)
  <1>. DEFINE e == Cut(text)[i]
              b == SubSeq(text, 1, i - 1)
  <1>1. e = IF Merged(text, i - 1) THEN <<>>
            ELSE IF Merged(text, i) THEN <<SubSeq(text, i, i + 1)>>
            ELSE <<<<text[i]>>>>
    BY CutType
  <1>2. Len(text) \in Nat /\ i \in Nat /\ i - 1 \in 0..Len(text) /\ (i - 1) + 1 = i /\ text \in Seq(Char)
    BY DEF Text
  <1>3. b \in Seq(Char) /\ SubSeq(text, 1, i) = Append(b, text[i]) /\ text[i] \in Char
    <2>1. i \in 1..Len(text)
      OBVIOUS
    <2>. QED  BY ONLY <1>2, <2>1, BeginningGrows
  <1>. HIDE DEF e
  <1>4. CASE Merged(text, i - 1)
    <2>1. ~Merged(text, i)
      BY <1>2, <1>4, NeverTwice
    <2>2. Spell(e) = <<>>
      BY <1>1, <1>4, FlattenEmpty DEF Spell
    <2>3. Covered(text, i - 1) = SubSeq(text, 1, i) /\ Covered(text, i) = SubSeq(text, 1, i)
      BY <1>2, <1>4, <2>1 DEF Covered
    <2>4. i \in 0..Len(text)
      BY <1>2
    <2>5. SubSeq(text, 1, i) \in Seq(Char)
      BY <1>2, <2>4, Beginning
    <2>6. SubSeq(text, 1, i) \o <<>> = SubSeq(text, 1, i)
      BY <2>5, ConcatEmptySeq
    <2>. QED  BY <2>2, <2>3, <2>6 DEF e
  <1>5. CASE ~Merged(text, i - 1) /\ Merged(text, i)
    <2>. DEFINE p == SubSeq(text, i, i + 1)
    <2>1. i + 1 \in 1..Len(text)
      BY <1>2, <1>5 DEF Merged
    <2>2. p \in Text
      BY <1>2, <2>1 DEF Text
    <2>3. Spell(e) = p
      BY <1>1, <1>5, <2>2, SpellOne
    <2>4. Covered(text, i - 1) = b /\ Covered(text, i) = SubSeq(text, 1, i + 1)
      BY <1>5 DEF Covered
    <2>5. b \o p = SubSeq(text, 1, i + 1)
      <3>. DEFINE r == SubSeq(text, 1, i + 1)
      <3>1. i + 1 \in 0..Len(text) /\ i - 1 \in 0..i + 1
        BY <1>2, <2>1
      <3>2. r \in Seq(Char) /\ Len(r) = i + 1 /\ \A j \in 1..i + 1 : r[j] = text[j]
        BY ONLY <1>2, <3>1, Beginning
      <3>3. SubSeq(r, 1, i - 1) = b
        BY ONLY <1>2, <3>1, BeginningOfBeginning
      <3>4. SubSeq(r, i, i + 1) = p
        <4>1. r[i] = text[i] /\ r[i + 1] = text[i + 1]
          BY <1>2, <3>2
        <4>. HIDE DEF r
        <4>. QED  BY <1>2, <2>1, <3>2, <4>1
      <3>. HIDE DEF r
      <3>5. SubSeq(r, 1, i - 1) \o SubSeq(r, i - 1 + 1, Len(r)) = r
        <4>1. i - 1 \in 0..Len(r)
          BY <3>1, <3>2
        <4>. QED  BY ONLY <3>2, <4>1, Splits
      <3>6. i - 1 + 1 = i
        BY <1>2
      <3>. QED  BY <3>2, <3>3, <3>4, <3>5, <3>6 DEF r
    <2>. QED  BY <2>3, <2>4, <2>5 DEF e
  <1>6. CASE ~Merged(text, i - 1) /\ ~Merged(text, i)
    <2>1. <<text[i]>> \in Text
      BY <1>3, OfOne DEF Text
    <2>2. Spell(e) = <<text[i]>>
      BY <1>1, <1>6, <2>1, SpellOne
    <2>3. Covered(text, i - 1) = b /\ Covered(text, i) = SubSeq(text, 1, i)
      BY <1>6 DEF Covered
    <2>. HIDE DEF b
    <2>4. b \o <<text[i]>> = Append(b, text[i])
      BY <1>3, AppendIsConcat
    <2>. QED  BY <1>3, <2>2, <2>3, <2>4 DEF e
  <1>. QED  BY <1>4, <1>5, <1>6

LEMMA EncodeSpells == ASSUME NEW text \in Text PROVE Spell(Encode(text)) = text
  <1>. DEFINE c == Cut(text)
              n == Len(text)
              F(k) == FlattenSeq(SubSeq(c, 1, k))
              Good(k) == Spell(F(k)) = Covered(text, k)
              Bad == {k \in 0..n : ~Good(k)}
  <1>1. c \in Seq(Ids) /\ Len(c) = n /\ n \in Nat /\ c \in Seq(Seq(Text))
    BY CutType DEF Text, Ids
  <1>. HIDE DEF c
  <1>2. Good(0)
    <2>1. SubSeq(c, 1, 0) = <<>> /\ SubSeq(text, 1, 0) = <<>>
      BY <1>1 DEF Text
    <2>2. ~Merged(text, 0)
      BY DEF Merged
    <2>3. F(0) = <<>> /\ Spell(<<>>) = <<>>
      BY <2>1, FlattenEmpty DEF Spell
    <2>. QED  BY <2>1, <2>2, <2>3 DEF Covered
  <1>3. ASSUME NEW k \in 1..n, Good(k - 1) PROVE Good(k)
    <2>. DEFINE s == SubSeq(c, 1, k - 1)
    <2>1. SubSeq(c, 1, k) = Append(s, c[k]) /\ s \in Seq(Seq(Text)) /\ c[k] \in Seq(Text)
      <3>1. k \in 1..Len(c)
        BY <1>1
      <3>. QED  BY ONLY <1>1, <3>1, BeginningGrows
    <2>2. F(k) = F(k - 1) \o c[k]
      <3>. HIDE DEF s
      <3>1. FlattenSeq(Append(s, c[k])) = FlattenSeq(s) \o c[k]
        BY ONLY <2>1, FlattenAppend
      <3>. QED  BY <2>1, <3>1 DEF s
    <2>3. F(k - 1) \in Ids
      <3>. HIDE DEF s
      <3>1. FlattenSeq(s) \in Seq(Text)
        BY ONLY <2>1, FlattenType
      <3>. QED  BY <3>1 DEF s, Ids
    <2>4. c[k] \in Ids
      BY <2>1 DEF Ids
    <2>. HIDE DEF F
    <2>5. Spell(F(k)) = Spell(F(k - 1)) \o Spell(c[k])
      BY <2>2, <2>3, <2>4, SpellConcat
    <2>6. Covered(text, k - 1) \o Spell(c[k]) = Covered(text, k)
      BY CutSpells DEF c
    <2>. QED  BY <1>3, <2>5, <2>6
  <1>. HIDE DEF Good
  <1>4. Bad = {}
    <2>. SUFFICES ASSUME Bad # {} PROVE FALSE
      OBVIOUS
    <2>1. PICK k \in Bad : \A j \in Bad : k <= j
      <3>1. Bad \in SUBSET Nat
        OBVIOUS
      <3>. HIDE DEF Bad
      <3>. QED  BY <3>1, Least
    <2>2. k \in 0..n /\ ~Good(k)
      BY <2>1
    <2>3. k # 0
      BY <1>2, <2>2
    <2>4. k \in 1..n /\ k - 1 \in 0..n /\ ~ (k <= k - 1)
      BY <1>1, <2>2, <2>3
    <2>5. k - 1 \notin Bad
      <3>. HIDE DEF Bad
      <3>. QED  BY <2>1, <2>4
    <2>. QED  BY <1>3, <2>2, <2>4, <2>5
  <1>5. Good(n)
    BY <1>1, <1>4
  <1>6. SubSeq(c, 1, n) = c /\ SubSeq(text, 1, n) = text
    BY <1>1 DEF Text
  <1>7. F(n) = Encode(text)
    BY <1>6, EncodeIsCut DEF c
  <1>8. Covered(text, n) = text
    <2>1. ~Merged(text, n)
      BY <1>1 DEF Merged
    <2>. QED  BY <1>6, <2>1 DEF Covered
  <1>. QED  BY <1>5, <1>7, <1>8 DEF Good

-----------------------------------------------------------------------------
(***************************************************************************)
(* The sync point: the first syncTok tokens of fed_ids spell syncRender,   *)
(* wherever so many are fed; a turn's prompt, fed and not yet fed, spells  *)
(* the render, and the idle prefill's the header.                          *)
(***************************************************************************)
SpelledTo(n, tok, text) == tok \in 1..n => Spell(SubSeq(fed, 1, tok)) = text

ChatOnly == pc \in Generating \cup {"turn", "record", "after"} => turn.kind = "chat"
SyncSpelled ==
    /\ ~poisoned /\ pc # "prefill" => SpelledTo(fedN, syncTok, syncRender)
    /\ pc \in Decoding => syncTok <= fedN
    /\ pc = "warmup" => syncTok = 0
PromptFed ==
    /\ pc = "prefill" =>
           /\ Spell(Fed \o turn.toks) = lastRender
           /\ syncRender = lastRender /\ syncTok = fedN + Len(turn.toks)
    /\ pc = "sample" /\ turn.gen = 0 => Spell(Fed) = lastRender
    /\ pc = "feed" => turn.gen > 0
HeaderFed ==
    idlePc = "feed" =>
        /\ syncTok = 0 /\ Fed \o idle.toks = Encode(idle.header)
        /\ SpelledTo(idle.fedN, idle.tok, idle.render)

\* Where some tokens are not sure any more, those the sync point may count are.
SureSpelled == sure # Whole => SpelledTo(sure.sync, syncTok, syncRender)

PromptInv == ChatOnly /\ SyncSpelled /\ PromptFed /\ HeaderFed

\* The server serves no completions, the terminal's model has no recurrent
\* layers.
PlainChat == IF Driver = "server" THEN ~Completions ELSE ~Hybrid

\* Where no turn runs and no idle prefill does, only the sync point counts.
LEMMA QuietPrompt ==
    ASSUME pc' \in Quiet, idlePc' # "feed", pc' \in {"turn", "after"} => turn'.kind = "chat",
           pc' = "warmup" => syncTok' = 0,
           ~poisoned' => SpelledTo(fedN, syncTok, syncRender)'
    PROVE  PromptInv'
  BY DEF PromptInv, ChatOnly, SyncSpelled, PromptFed, HeaderFed, Quiet, Generating, Decoding

LEMMA ResetPrompt == ASSUME TypesInv, Reset PROVE PromptInv'
  <1>1. pc = "reset" /\ pc' \in {"warmup", "input"} /\ syncTok' = 0 /\ idlePc' = idlePc
    BY DEF Reset
  <1>2. idlePc = "off"
    BY <1>1 DEF TypesInv, PlacesTyped
  <1>3. SpelledTo(fedN, syncTok, syncRender)'
    BY <1>1 DEF SpelledTo
  <1>. QED  BY <1>1, <1>2, <1>3, QuietPrompt DEF Quiet

LEMMA SpelledStays ==
    ASSUME UNCHANGED <<fed, fedN, syncTok, syncRender>>, SpelledTo(fedN, syncTok, syncRender)
    PROVE  SpelledTo(fedN, syncTok, syncRender)'
  BY DEF SpelledTo

LEMMA AsidePrompt ==
    ASSUME PromptInv, pc # "prefill", idlePc' # "feed", pc' \in Quiet,
           pc' \in {"turn", "after"} => turn'.kind = "chat", pc' = "warmup" => syncTok' = 0,
           \/ UNCHANGED <<fed, fedN, syncTok, syncRender>> /\ (~poisoned' => ~poisoned)
           \/ syncTok' = 0
    PROVE  PromptInv'
  <1>1. ASSUME ~poisoned' PROVE SpelledTo(fedN, syncTok, syncRender)'
    <2>1. CASE syncTok' = 0
      BY <2>1 DEF SpelledTo
    <2>2. CASE syncTok' # 0
      <3>1. UNCHANGED <<fed, fedN, syncTok, syncRender>> /\ ~poisoned
        BY <1>1, <2>2
      <3>2. SpelledTo(fedN, syncTok, syncRender)
        BY <3>1 DEF PromptInv, SyncSpelled
      <3>. QED  BY <3>1, <3>2, SpelledStays
    <2>. QED  BY <2>1, <2>2
  <1>. QED  BY <1>1, QuietPrompt

LEMMA StillPrompt ==
    ASSUME PromptInv,
           UNCHANGED <<fed, fedN, syncTok, syncRender, lastRender, poisoned, pc, turn, idlePc, idle>>
    PROVE  PromptInv'
  <1>1. /\ Fed' = Fed /\ (SpelledTo(fedN, syncTok, syncRender)' <=> SpelledTo(fedN, syncTok, syncRender))
        /\ SpelledTo(idle.fedN, idle.tok, idle.render)' <=> SpelledTo(idle.fedN, idle.tok, idle.render)
    BY DEF Fed, SpelledTo
  <1>. QED  BY <1>1 DEF PromptInv, ChatOnly, SyncSpelled, PromptFed, HeaderFed

LEMMA EndsPrompt ==
    ASSUME TypesInv, PromptInv,
           Reset \/ WarmupEnds \/ JoinIdle \/ AfterTurn \/ RewriteAssistant \/ RequestEnds
    PROVE  PromptInv'
  <1>1. pc \in {"reset", "warmup", "after", "join"} /\ pc' \in Quiet
    BY DEF Reset, WarmupEnds, AfterTurn, RewriteAssistant, RequestEnds, JoinIdle, Quiet
  <1>2. UNCHANGED <<fed, fedN, syncTok, syncRender, poisoned>> \/ syncTok' = 0
    BY DEF Reset, WarmupEnds, AfterTurn, RewriteAssistant, RequestEnds, JoinIdle, cache, chat,
           SessionCleared
  <1>3. pc' \in {"turn", "after"} => turn'.kind = "chat"
    <2>1. CASE JoinIdle
      <3>1. turn \in TypedTurn \cup {[kind |-> "reset"]} /\ (pc' # "reset" => turn' = turn /\ turn.kind # "reset")
            /\ pc' \in {"reset", "turn"}
        BY <2>1 DEF JoinIdle, TypesInv, TurnTyped
      <3>. QED  BY <3>1 DEF TypedTurn
    <2>2. CASE RewriteAssistant
      BY <2>2 DEF RewriteAssistant
    <2>3. CASE Reset \/ WarmupEnds \/ AfterTurn \/ RequestEnds
      BY <2>3 DEF Reset, WarmupEnds, AfterTurn, RequestEnds
    <2>. QED  BY <2>1, <2>2, <2>3
  <1>4. pc' = "warmup" => syncTok' = 0
    BY <1>1 DEF Reset, WarmupEnds, AfterTurn, RewriteAssistant, RequestEnds, JoinIdle
  <1>5. idlePc' # "feed"
    <2>1. CASE JoinIdle
      BY <2>1 DEF JoinIdle
    <2>2. CASE ~JoinIdle
      <3>1. idlePc = "off"
        <4>1. pc # "join"
          BY <2>2 DEF Reset, WarmupEnds, AfterTurn, RewriteAssistant, RequestEnds
        <4>. QED  BY <1>1, <4>1 DEF TypesInv, PlacesTyped
      <3>2. WarmupEnds => idlePc' \in {idlePc, "off", "start"}
        BY DEF WarmupEnds, StartsIdle
      <3>3. AfterTurn => idlePc' \in {idlePc, "off", "start"}
        BY DEF AfterTurn, StartsIdle
      <3>4. Reset \/ RewriteAssistant \/ RequestEnds => idlePc' = idlePc
        BY DEF Reset, RewriteAssistant, RequestEnds
      <3>. QED  BY <2>2, <3>1, <3>2, <3>3, <3>4
    <2>. QED  BY <2>1, <2>2
  <1>6. pc # "prefill"
    BY <1>1
  <1>. QED  BY <1>1, <1>2, <1>3, <1>4, <1>5, <1>6, AsidePrompt

LEMMA AskedPrompt == ASSUME TypesInv, PromptInv, PlainChat, Asked PROVE PromptInv'
  <1>1. ASSUME TypeLine PROVE PromptInv'
    <2>1. pc = "input" /\ pc' = "join"
          /\ UNCHANGED <<fed, fedN, syncTok, syncRender, poisoned, idlePc, idle, lastRender>>
      BY <1>1 DEF TypeLine, cache, chat
    <2>2. CASE idlePc' # "feed"
      BY <2>1, <2>2, AsidePrompt DEF Quiet
    <2>3. CASE idlePc' = "feed"
      <3>1. SpelledTo(fedN, syncTok, syncRender)' <=> SpelledTo(fedN, syncTok, syncRender)
        BY <2>1 DEF SpelledTo
      <3>2. SpelledTo(idle.fedN, idle.tok, idle.render)' <=> SpelledTo(idle.fedN, idle.tok, idle.render)
        BY <2>1 DEF SpelledTo
      <3>3. Fed' = Fed
        BY <2>1 DEF Fed
      <3>. QED  BY <2>1, <3>1, <3>2, <3>3
                DEF PromptInv, ChatOnly, SyncSpelled, PromptFed, HeaderFed, Generating, Decoding
    <2>. QED  BY <2>2, <2>3
  <1>2. ASSUME NEW req \in ChatRequests, ChatRequest(req) PROVE PromptInv'
    <2>1. pc = "input" /\ Driver = "server" /\ pc' = "turn" /\ turn'.kind = "chat" /\ idlePc' = idlePc
          /\ (syncTok' = 0 \/ UNCHANGED <<fed, fedN, syncTok, syncRender, poisoned>>)
      BY <1>2 DEF ChatRequest, cache, Quiet
    <2>2. idlePc # "feed"
      BY <2>1 DEF TypesInv, PlacesTyped
    <2>. QED  BY <2>1, <2>2, AsidePrompt DEF Quiet
  <1>3. ASSUME NEW prompt \in Prompts, CompletionRequest(prompt) PROVE PromptInv'
    BY <1>3 DEF CompletionRequest, PlainChat
  <1>. QED  BY <1>1, <1>2, <1>3 DEF Asked

LEMMA WarmupPrompt == ASSUME TypesInv, PromptInv, WarmupChunk \/ WarmupFails PROVE PromptInv'
  <1>1. pc = "warmup" /\ pc' = "warmup" /\ idlePc' = idlePc /\ syncTok' = syncTok
    BY DEF WarmupChunk, WarmupFails, chat
  <1>2. syncTok' = 0 /\ idlePc' # "feed"
    BY <1>1 DEF PromptInv, SyncSpelled, TypesInv, PlacesTyped
  <1>. QED  BY <1>1, <1>2, AsidePrompt DEF Quiet

\* What is fed is a beginning of fed_ids: it spells what it did.
LEMMA FedGrows ==
    ASSUME \A k \in 0..fedN : SubSeq(fed', 1, k) = SubSeq(fed, 1, k),
           UNCHANGED <<syncTok, syncRender>>, syncTok <= fedN, fedN \in Nat, fedN' \in Nat,
           syncTok \in Nat, SpelledTo(fedN, syncTok, syncRender)
    PROVE  SpelledTo(fedN, syncTok, syncRender)'
  <1>. SUFFICES ASSUME syncTok \in 1..fedN' PROVE Spell(SubSeq(fed', 1, syncTok)) = syncRender
    BY DEF SpelledTo
  <1>1. syncTok \in 1..fedN /\ syncTok \in 0..fedN
    OBVIOUS
  <1>2. Spell(SubSeq(fed, 1, syncTok)) = syncRender
    BY <1>1 DEF SpelledTo
  <1>. QED  BY <1>1, <1>2

-----------------------------------------------------------------------------
\* Up to the sync point or from the start, the prompt spells the render.
LEMMA TailSpells ==
    ASSUME TypesInv, pc = "turn", SpelledTo(fedN, syncTok, syncRender), NEW render \in Text
    PROVE  Spell(TailEncode(render)) = render
  <1>. DEFINE suffix == SubSeq(render, Len(syncRender) + 1, Len(render))
  <1>1. /\ fedN \in Nat /\ nPos = fedN /\ fed \in Seq(Text) /\ fedN <= Len(fed) /\ Len(fed) \in Nat
        /\ syncTok \in Nat /\ syncRender \in Seq(Char) /\ render \in Seq(Char)
    BY DEF TypesInv, CacheTyped, CacheSized, ChatTyped, Ids, Text
  <1>2. CASE SyncOk(render) /\ CleanBoundary(suffix)
    <2>1. FedSynced = fedN
      BY <1>1, FedSyncedIs
    <2>2. syncTok \in 1..fedN /\ syncTok \in 0..Len(fed) /\ IsPrefix(syncRender, render)
      BY <1>1, <1>2, <2>1 DEF SyncOk
    <2>. DEFINE s == SubSeq(fed, 1, syncTok)
    <2>3. Spell(s) = syncRender
      BY <2>2 DEF SpelledTo
    <2>4. s \in Ids
      BY <1>1, <2>2, Beginning DEF Ids
    <2>. HIDE DEF s
    <2>5. Len(syncRender) \in 0..Len(render) /\ Len(syncRender) \in Nat
      BY <1>1, <2>2 DEF IsPrefix
    <2>6. SubSeq(render, 1, Len(syncRender)) = syncRender
      BY <1>1, <2>2, SubSeqFull DEF IsPrefix
    <2>7. suffix \in Text
      BY <2>5, SuffixType
    <2>8. SubSeq(render, 1, Len(syncRender)) \o suffix = render
      BY <1>1, <2>5, Splits
    <2>. HIDE DEF suffix
    <2>9. Encode(suffix) \in Ids /\ Spell(Encode(suffix)) = suffix
      BY <2>7, EncodeType, EncodeSpells
    <2>10. TailEncode(render) = s \o Encode(suffix)
      BY <1>2 DEF TailEncode, s, suffix
    <2>11. Spell(s \o Encode(suffix)) = Spell(s) \o Spell(Encode(suffix))
      BY <2>4, <2>9, SpellConcat
    <2>. QED  BY <2>3, <2>6, <2>8, <2>9, <2>10, <2>11
  <1>3. CASE ~(SyncOk(render) /\ CleanBoundary(suffix))
    <2>1. TailEncode(render) = Encode(render)
      BY <1>3 DEF TailEncode
    <2>. QED  BY <2>1, EncodeSpells
  <1>. QED  BY <1>2, <1>3

\* What is kept of fed_ids and what is still to feed make up the prompt.
LEMMA BegunPrompt ==
    ASSUME TypesInv, pc = "turn", NEW ids \in Ids, Rewound(ids), NEW prev \in Text,
           NEW req \in Seq(Msg) \cup Text, Feeding(ids, "chat", prev, req), idlePc' = idlePc,
           syncTok' = Len(ids), syncRender' = lastRender', Spell(ids) = lastRender'
    PROVE  PromptInv'
  <1>. DEFINE r == Reuse(ids)
  <1>1. r \in 0..fedN /\ r <= Len(ids) /\ SubSeq(fed, 1, r) = SubSeq(ids, 1, r)
        /\ fedN' = r /\ fed' = SubSeq(fed, 1, r) /\ fedN \in Nat /\ fed \in Seq(Text) /\ fedN <= Len(fed)
    BY RewoundIs DEF TypesInv, CacheTyped, CacheSized, Ids
  <1>2. Len(ids) \in Nat /\ ids \in Seq(Text) /\ Len(fed) \in Nat
    BY <1>1 DEF Ids
  <1>3. r \in Nat /\ r \in 0..Len(ids) /\ r \in 0..Len(fed) /\ r \in 0..r
    BY <1>1, <1>2
  <1>4. /\ pc' = "prefill" /\ turn'.kind = "chat" /\ turn'.toks = SubSeq(ids, r + 1, Len(ids))
        /\ Len(turn'.toks) = Len(ids) - r
    BY <1>1, <1>3, FeedingIs
  <1>. HIDE DEF r
  <1>5. Fed' = SubSeq(ids, 1, r)
    <2>1. SubSeq(SubSeq(fed, 1, r), 1, r) = SubSeq(fed, 1, r)
      BY <1>1, <1>3, BeginningOfBeginning
    <2>. QED  BY <1>1, <2>1 DEF Fed
  <1>6. SubSeq(ids, 1, r) \o SubSeq(ids, r + 1, Len(ids)) = ids
    BY <1>2, <1>3, Splits
  <1>7. Spell(Fed' \o turn'.toks) = lastRender'
    BY <1>4, <1>5, <1>6
  <1>8. syncTok' = fedN' + Len(turn'.toks)
    BY <1>1, <1>2, <1>3, <1>4
  <1>9. idlePc' = "off"
    BY DEF TypesInv, PlacesTyped
  <1>. QED  BY <1>4, <1>7, <1>8, <1>9
            DEF PromptInv, ChatOnly, SyncSpelled, PromptFed, HeaderFed, Decoding

\* The sync point a turn relies on is sure.
LEMMA ReusesSpelled ==
    ASSUME TypesInv, SureInv, SureSpelled, sure = Whole => PromptInv, pc = "turn", ~poisoned,
           NEW ids \in Ids, Rewound(ids), sure' = Whole
    PROVE  SpelledTo(fedN, syncTok, syncRender)
  <1>1. CASE sure = Whole
    BY <1>1 DEF PromptInv, SyncSpelled
  <1>2. CASE sure # Whole
    <2>1. syncTok <= sure.sync /\ sure.sync \in Nat
      BY ReusesWhat DEF SureInv, SureTyped
    <2>. QED  BY <1>2, <2>1 DEF SureSpelled, SpelledTo
  <1>. QED  BY <1>1, <1>2

LEMMA BeginTurnPrompt ==
    ASSUME TypesInv, SureInv, SureSpelled, sure = Whole => PromptInv, BeginTurn, sure' = Whole
    PROVE  PromptInv'
  <1>1. pc = "turn" /\ turn.kind = "chat" /\ UNCHANGED <<idlePc, poisoned>>
    BY DEF BeginTurn
  <1>. DEFINE ms == Append(msgs, turn.msg)
              render == Render(ms, TRUE)
              ids == TailEncode(render)
              req == IF Driver = "server" THEN turn.req ELSE ms
  <1>2. ms \in Seq(Msg) /\ lastRender \in Text /\ req \in Seq(Msg) \cup Text
    BY <1>1, TurnMessage, AppendProperties DEF TypesInv, ChatTyped
  <1>3. IF Refuses(ids)
        THEN Refused("chat")
        ELSE /\ Rewound(ids) /\ Feeding(ids, "chat", lastRender, req)
             /\ lastRender' = render /\ syncRender' = render /\ syncTok' = Len(ids)
    BY DEF BeginTurn
  <1>. HIDE DEF ms, req
  <1>4. render \in Text
    BY <1>2, RenderType
  <1>. HIDE DEF render
  <1>5. ids \in Ids /\ (SpelledTo(fedN, syncTok, syncRender) => Spell(ids) = render)
    BY <1>1, <1>4, TailEncodeType, TailSpells
  <1>. HIDE DEF ids
  <1>6. CASE Refuses(ids)
    <2>1. pc' = "after" /\ turn'.kind = "chat" /\ UNCHANGED <<fed, fedN, syncTok, syncRender, sure>>
      BY <1>3, <1>6 DEF Refused, cache, chat
    <2>2. idlePc' # "feed"
      BY <1>1 DEF TypesInv, PlacesTyped
    <2>. QED  BY <1>1, <2>1, <2>2, AsidePrompt DEF Quiet
  <1>7. CASE ~Refuses(ids)
    <2>1. ~poisoned
      BY <1>7 DEF Refuses
    <2>2. syncRender' = lastRender' /\ Spell(ids) = lastRender'
      <3>1. SpelledTo(fedN, syncTok, syncRender)
        BY <1>1, <1>3, <1>5, <1>7, <2>1, ReusesSpelled
      <3>. QED  BY <1>3, <1>5, <1>7, <3>1
    <2>. QED  BY <1>1, <1>2, <1>3, <1>5, <1>7, <2>2, BegunPrompt
  <1>. QED  BY <1>6, <1>7

\* The prompt is fed: what is fed spells the render, to the sync point.
LEMMA PromptEnds ==
    ASSUME pc' = "sample", turn'.kind = "chat", idlePc' = "off", syncRender' = lastRender', syncTok' = fedN',
           Spell(Fed') = lastRender', fedN' \in Nat
    PROVE  PromptInv'
  <1>1. SpelledTo(fedN, syncTok, syncRender)'
    BY DEF SpelledTo, Fed
  <1>2. syncTok' <= fedN'
    OBVIOUS
  <1>. QED  BY <1>1, <1>2 DEF PromptInv, ChatOnly, SyncSpelled, PromptFed, HeaderFed, Decoding

LEMMA PrefillPrompt ==
    ASSUME TypesInv, Sound, PromptInv, PrefillChunk \/ PrefillNothing \/ PrefillStops
    PROVE  PromptInv'
  <1>1. /\ pc = "prefill" /\ idlePc' = "off" /\ turn \in FeedTurn /\ turn.kind = "chat"
        /\ UNCHANGED <<syncRender, syncTok, lastRender>>
    <2>1. pc = "prefill" /\ idlePc' = idlePc /\ UNCHANGED <<syncRender, syncTok, lastRender>>
      BY DEF PrefillChunk, PrefillNothing, PrefillStops, chat
    <2>. QED  BY <2>1 DEF TypesInv, PlacesTyped, TurnTyped, PromptInv, ChatOnly, Generating
  <1>2. \/ turn' = turn
        \/ turn' = [turn EXCEPT !.off = @ + Len(NextChunk(turn))]
        \/ turn' = [turn EXCEPT !.rc = Error]
    BY DEF PrefillChunk, PrefillNothing, PrefillStops
  <1>3. turn'.kind = "chat" /\ turn'.toks = turn.toks
    BY <1>1, <1>2 DEF FeedTurn
  <1>4. Spell(Fed \o turn.toks) = lastRender /\ syncRender = lastRender /\ syncTok = fedN + Len(turn.toks)
    BY <1>1 DEF PromptInv, PromptFed
  <1>5. turn.toks \in Seq(Text) /\ Len(turn.toks) \in Nat /\ fedN \in Nat /\ fed \in Seq(Text) /\ fedN \in 0..Len(fed)
    <2>1. turn.toks \in Seq(Text) /\ fedN \in Nat /\ fed \in Seq(Text) /\ fedN <= Len(fed)
      BY <1>1 DEF FeedTurn, TypesInv, CacheTyped, CacheSized, Ids
    <2>. QED  BY <2>1
  <1>6. Fed \in Seq(Text)
    BY <1>5, Beginning DEF Fed
  <1>7. CASE PrefillStops
    <2>1. pc' = "record" /\ poisoned'
      BY <1>7 DEF PrefillStops
    <2>. QED  BY <1>1, <1>3, <2>1 DEF PromptInv, ChatOnly, SyncSpelled, PromptFed, HeaderFed, Decoding
  <1>8. CASE PrefillNothing
    <2>1. pc' = "sample" /\ turn.toks = <<>> /\ UNCHANGED <<fed, fedN>>
      BY <1>8 DEF PrefillNothing, cache
    <2>2. Fed \o turn.toks = Fed /\ Len(turn.toks) = 0
      BY <1>6, <2>1, ConcatEmptySeq
    <2>3. Fed' = Fed /\ fedN' \in Nat /\ syncTok' = fedN'
      BY <1>1, <1>4, <1>5, <2>1, <2>2 DEF Fed
    <2>4. syncRender' = lastRender' /\ Spell(Fed') = lastRender'
      BY <1>1, <1>4, <2>2, <2>3
    <2>. QED  BY <1>1, <1>3, <2>1, <2>3, <2>4, PromptEnds
  <1>9. CASE PrefillChunk
    <2>1. FeedChunk(turn) /\ pc' = IF LastChunk(turn) THEN "sample" ELSE "prefill"
      BY <1>9 DEF PrefillChunk
    <2>2. Batch(turn)
      <3>1. turn.off < Len(turn.toks)
        BY <2>1 DEF FeedChunk
      <3>. QED  BY <1>1, <3>1, TurnBatch
    <2>3. CASE LastChunk(turn)
      <3>1. Takes(turn.toks, Len(turn.toks))
        BY <2>1, <2>2, <2>3, ChunkIs
      <3>2. fedN' = fedN + Len(turn.toks) /\ Fed' = Fed \o turn.toks
        <4>1. Len(turn.toks) \in 0..Len(turn.toks) /\ SubSeq(turn.toks, 1, Len(turn.toks)) = turn.toks
          BY <1>5, SubSeqFull
        <4>. QED  BY <3>1, <4>1 DEF Takes, Fed
      <3>3. fedN' \in Nat /\ syncTok' = fedN' /\ syncRender' = lastRender' /\ Spell(Fed') = lastRender'
        BY <1>1, <1>4, <1>5, <3>2
      <3>. QED  BY <1>1, <1>3, <2>1, <2>3, <3>3, PromptEnds
    <2>4. CASE ~LastChunk(turn)
      <3>1. UNCHANGED <<fed, fedN>> /\ pc' = "prefill"
        BY <2>1, <2>2, <2>4, ChunkIs
      <3>2. Fed' = Fed
        BY <3>1 DEF Fed
      <3>3. Spell(Fed' \o turn'.toks) = lastRender' /\ syncRender' = lastRender'
            /\ syncTok' = fedN' + Len(turn'.toks)
        BY <1>1, <1>3, <1>4, <3>1, <3>2
      <3>. QED  BY <1>1, <1>3, <3>1, <3>3
                DEF PromptInv, ChatOnly, SyncSpelled, PromptFed, HeaderFed, Decoding
    <2>. QED  BY <2>3, <2>4
  <1>. QED  BY <1>7, <1>8, <1>9

-----------------------------------------------------------------------------
\* The loop feeds after the sync point, or leaves fed_ids alone.
LEMMA LoopPrompt ==
    ASSUME TypesInv, PromptInv, pc \in Decoding, UNCHANGED <<syncRender, syncTok, lastRender, idlePc>>,
           turn'.kind = turn.kind, pc' \in Decoding \cup {"record"}, ~poisoned' => ~poisoned,
           pc' \in {"sample", "feed"} => turn'.gen > 0,
           \/ UNCHANGED <<fed, fedN>>
           \/ fedN' = fedN + 1 /\ \A k \in 0..fedN : SubSeq(fed', 1, k) = SubSeq(fed, 1, k)
    PROVE  PromptInv'
  <1>1. fedN \in Nat /\ syncTok \in Nat /\ syncTok <= fedN /\ pc # "prefill" /\ turn.kind = "chat"
        /\ idlePc = "off"
    BY DecodeState DEF TypesInv, ChatTyped, PromptInv, SyncSpelled, ChatOnly, Generating, Decoding
  <1>2. fedN' \in Nat /\ syncTok' <= fedN'
    BY <1>1
  <1>3. ASSUME ~poisoned' PROVE SpelledTo(fedN, syncTok, syncRender)'
    <2>1. SpelledTo(fedN, syncTok, syncRender)
      BY <1>1, <1>3 DEF PromptInv, SyncSpelled
    <2>. QED  BY <1>1, <1>2, <2>1, SpelledStays, FedGrows
  <1>4. pc' = "sample" => turn'.gen # 0
    OBVIOUS
  <1>. QED  BY <1>1, <1>2, <1>3, <1>4
            DEF PromptInv, ChatOnly, SyncSpelled, PromptFed, HeaderFed, Generating, Decoding

LEMMA PickedMore ==
    ASSUME NEW u \in FeedTurn, NEW t, NEW from, Picked(u, t, from)
    PROVE  pc' = "feed" => turn'.gen > 0
  <1>1. u.gen \in Nat
    BY DEF FeedTurn
  <1>2. pc' = "feed" => turn'.gen = u.gen + 1
    BY DEF Picked, Emitted, FeedTurn, Eog
  <1>. QED  BY <1>1, <1>2

LEMMA DecodePrompt ==
    ASSUME TypesInv, Sound, PromptInv,
           \/ DecodeEnds \/ SampleNext \/ PickOnDevice \/ PickFails \/ Redo
           \/ FeedLimit \/ FeedStops \/ FeedDies
    PROVE  PromptInv'
  <1>1. /\ pc \in Decoding /\ UNCHANGED <<syncRender, syncTok, lastRender, idlePc, fed, fedN>>
        /\ ~poisoned' => ~poisoned
    <2>1. pc \in Decoding /\ UNCHANGED <<syncRender, syncTok, lastRender, idlePc>>
      BY DEF DecodeEnds, SampleNext, PickOnDevice, PickFails, Redo, FeedLimit, FeedStops, FeedDies,
         Going, Decoding, chat
    <2>2. UNCHANGED <<fed, fedN>>
      BY DEF DecodeEnds, SampleNext, PickOnDevice, PickFails, Redo, FeedLimit, FeedStops, FeedDies, cache
    <2>3. ~poisoned
      BY <2>1 DEF Sound, Generating
    <2>. QED  BY <2>1, <2>2, <2>3
  <1>2. turn \in FeedTurn
    BY <1>1, DecodeState
  <1>3. CASE DecodeEnds \/ PickFails
    <2>1. turn' = turn /\ pc' \in {"record", "redo"}
      BY <1>3 DEF DecodeEnds, PickFails
    <2>. QED  BY <1>1, <2>1, LoopPrompt DEF Decoding
  <1>4. CASE SampleNext \/ PickOnDevice
    <2>1. \E t, from : Picked(turn, t, from)
      BY <1>4 DEF SampleNext, PickOnDevice
    <2>2. turn'.kind = turn.kind /\ pc' \in {"record", "feed"} /\ (pc' = "feed" => turn'.gen > 0)
      BY <1>2, <2>1, PickedAbout, PickedMore
    <2>3. pc' # "sample" /\ pc' \in Decoding \cup {"record"}
      BY <2>2 DEF Decoding
    <2>. QED  BY <1>1, <2>2, <2>3, LoopPrompt
  <1>5. CASE Redo \/ FeedLimit \/ FeedStops \/ FeedDies
    <2>1. /\ pc' \in {"resample", "record"}
          /\ \/ turn' = [turn EXCEPT !.mode = "host"]
             \/ turn' = [turn EXCEPT !.unfed = TRUE]
      BY <1>5 DEF Redo, FeedLimit, FeedStops, FeedDies
    <2>2. turn'.kind = turn.kind
      BY <1>2, <2>1 DEF FeedTurn
    <2>. QED  BY <1>1, <2>1, <2>2, LoopPrompt DEF Decoding
  <1>. QED  BY <1>3, <1>4, <1>5

LEMMA RedoFailsPrompt == ASSUME TypesInv, PromptInv, RedoFails PROVE PromptInv'
  <1>1. pc = "redo" /\ pc' = "record" /\ poisoned' /\ turn' = turn /\ idlePc' = idlePc
    BY DEF RedoFails
  <1>2. turn'.kind = "chat" /\ idlePc' = "off"
    BY <1>1 DEF PromptInv, ChatOnly, Generating, Decoding, TypesInv, PlacesTyped
  <1>. QED  BY <1>1, <1>2 DEF PromptInv, ChatOnly, SyncSpelled, PromptFed, HeaderFed, Decoding

LEMMA FeedTokenPrompt == ASSUME TypesInv, PromptInv, FeedToken PROVE PromptInv'
  <1>1. /\ pc = "feed" /\ pc' = "sample" /\ nPos' = nPos + 1
        /\ fed' = WriteAt(SubSeq(fed, 1, FedSynced), FedSynced, <<turn.tok>>)
        /\ fedN' = FedSynced + 1 /\ turn' = [turn EXCEPT !.hasFed = TRUE]
        /\ UNCHANGED <<syncRender, syncTok, lastRender, idlePc, poisoned>>
    BY DEF FeedToken, chat
  <1>2. pc \in Decoding /\ turn.gen > 0
    BY <1>1 DEF Decoding, PromptInv, PromptFed
  <1>3. CacheTyped /\ nPos = fedN /\ fedN <= Len(fed) /\ turn \in FeedTurn /\ fedN \in Nat /\ nPos \in Nat
    BY <1>1, <1>2, DecodeState DEF CacheTyped
  <1>4. FedSynced = fedN /\ turn.tok \in Text
    BY <1>3, FedSyncedIs DEF FeedTurn
  <1>5. nPos' = fedN + 1 /\ fedN' = fedN + 1 /\ fed' = WriteAt(SubSeq(fed, 1, fedN), fedN, <<turn.tok>>)
    BY <1>1, <1>3, <1>4
  <1>6. \A k \in 0..fedN : SubSeq(fed', 1, k) = SubSeq(fed, 1, k)
    BY <1>3, <1>4, <1>5, TakesOne
  <1>7. turn'.kind = turn.kind /\ turn'.gen > 0
    BY <1>1, <1>2, <1>3 DEF FeedTurn
  <1>8. pc' \in Decoding
    BY <1>1 DEF Decoding
  <1>. QED  BY <1>1, <1>2, <1>5, <1>6, <1>7, <1>8, LoopPrompt

LEMMA SpecPrompt ==
    ASSUME TypesInv, Sound, PromptInv, SpecFeed \/ SpecReadFails \/ SpecBlocked \/ SpecUnsupported
    PROVE  PromptInv'
  <1>1. /\ pc \in Decoding /\ UNCHANGED <<syncRender, syncTok, lastRender, idlePc, fed, fedN>>
        /\ ~poisoned' => ~poisoned
    <2>1. pc \in Decoding /\ UNCHANGED <<syncRender, syncTok, lastRender, idlePc, fed, fedN>>
      BY DEF SpecFeed, SpecReadFails, SpecBlocked, SpecUnsupported, Piping, Going, Decoding, chat, cache
    <2>2. ~poisoned
      BY <2>1 DEF Sound, Generating
    <2>. QED  BY <2>1, <2>2
  <1>2. turn \in FeedTurn
    BY <1>1, DecodeState
  <1>3. CASE SpecFeed \/ SpecReadFails
    <2>1. /\ pc' \in {"spec", "redo"}
          /\ \E t, from : turn' = [turn EXCEPT !.tok = t, !.from = from]
      BY <1>3 DEF SpecFeed, SpecReadFails
    <2>2. turn'.kind = turn.kind
      BY <1>2, <2>1 DEF FeedTurn
    <2>. QED  BY <1>1, <2>1, <2>2, LoopPrompt DEF Decoding
  <1>4. CASE SpecBlocked
    <2>1. /\ pc' = "record"
          /\ \E t : \/ turn' = [turn EXCEPT !.tok = t, !.from = devLogits]
                    \/ turn' = [Emitted(turn, t) EXCEPT !.unfed = TRUE]
      BY <1>4 DEF SpecBlocked
    <2>2. turn'.kind = turn.kind
      BY <1>2, <2>1 DEF FeedTurn, Emitted
    <2>. QED  BY <1>1, <2>1, <2>2, LoopPrompt
  <1>5. CASE SpecUnsupported
    <2>. DEFINE u == [turn EXCEPT !.mode = "device"]
    <2>1. u \in FeedTurn /\ u.kind = turn.kind
      BY <1>2 DEF FeedTurn
    <2>2. \E t : Picked(u, t, devLogits)
      BY <1>5 DEF SpecUnsupported
    <2>. HIDE DEF u
    <2>3. turn'.kind = turn.kind /\ pc' \in {"record", "feed"} /\ (pc' = "feed" => turn'.gen > 0)
      BY <2>1, <2>2, PickedAbout, PickedMore
    <2>4. pc' # "sample" /\ pc' \in Decoding \cup {"record"}
      BY <2>3 DEF Decoding
    <2>. QED  BY <1>1, <2>3, <2>4, LoopPrompt
  <1>. QED  BY <1>3, <1>4, <1>5

LEMMA SpecReadPrompt == ASSUME TypesInv, PromptInv, SpecRead PROVE PromptInv'
  <1>1. pc = "spec" /\ UNCHANGED <<syncRender, syncTok, lastRender, idlePc, poisoned>>
    BY DEF SpecRead, chat
  <1>2. pc \in Decoding
    BY <1>1 DEF Decoding
  <1>3. /\ turn \in FeedTurn /\ turn.tok \in Text /\ turn.gen \in Nat
        /\ CacheTyped /\ fedN <= Len(fed) /\ nPos = fedN + 1 /\ fedN \in Nat
    BY <1>1, <1>2, DecodeState DEF CacheTyped, FeedTurn
  <1>4. CASE turn.tok = Eog
    <2>1. pc' = "record" /\ UNCHANGED <<fed, fedN, turn>>
      BY <1>4 DEF SpecRead
    <2>. QED  BY <1>1, <1>2, <2>1, LoopPrompt
  <1>5. CASE turn.tok # Eog
    <2>1. /\ fed' = WriteAt(SubSeq(fed, 1, fedN), fedN, <<turn.tok>>) /\ fedN' = fedN + 1
          /\ turn' = [Emitted(turn, turn.tok) EXCEPT !.hasFed = TRUE]
          /\ pc' = "sample" /\ nPos' = nPos
      BY <1>5 DEF SpecRead
    <2>2. \A k \in 0..fedN : SubSeq(fed', 1, k) = SubSeq(fed, 1, k)
      BY <1>3, <2>1, TakesOne
    <2>3. turn'.kind = turn.kind /\ turn'.gen = turn.gen + 1
      BY <1>3, <2>1 DEF FeedTurn, Emitted
    <2>4. turn'.gen > 0 /\ pc' \in Decoding
      BY <1>3, <2>1, <2>3 DEF Decoding
    <2>. QED  BY <1>1, <1>2, <2>1, <2>2, <2>3, <2>4, LoopPrompt
  <1>. QED  BY <1>4, <1>5

LEMMA RecordPrompt == ASSUME TypesInv, PromptInv, RecordTurn PROVE PromptInv'
  <1>1. pc = "record" /\ pc' = "after" /\ UNCHANGED <<fed, fedN, syncTok, syncRender, poisoned, idlePc>>
        /\ turn'.kind = turn.kind
    BY DEF RecordTurn
  <1>2. turn'.kind = "chat" /\ idlePc' # "feed"
    BY <1>1 DEF PromptInv, ChatOnly, TypesInv, PlacesTyped
  <1>. QED  BY <1>1, <1>2, AsidePrompt DEF Quiet

-----------------------------------------------------------------------------
\* The idle prefill keeps the sync point aside and feeds the header.
LEMMA IdleBeginsPrompt ==
    ASSUME TypesInv, Sound, PromptInv, IdleBegins, Driver # "server" => ~Hybrid
    PROVE  PromptInv'
  <1>. DEFINE ids == Encode(Header)
              k == Kept(ids)
  <1>1. /\ idlePc = "start" /\ idlePc' = "feed" /\ k \in 0..fedN /\ k < Len(ids) /\ ids \in Ids
        /\ SubSeq(fed, 1, k) = SubSeq(ids, 1, k)
        /\ idle'.off = 0 /\ idle'.header = Header /\ idle'.toks = SubSeq(ids, k + 1, Len(ids))
        /\ idle'.fedN = fedN /\ idle'.render = syncRender /\ idle'.tok = syncTok
        /\ nPos' = (IF Hybrid THEN fedN ELSE k) /\ fedN' = nPos' /\ syncTok' = 0
        /\ UNCHANGED <<fed, poisoned, pc, turn>>
    BY IdleBeginsIs
  <1>2. ids = Encode(Header)
    OBVIOUS
  <1>. HIDE DEF k, ids
  <1>3. pc \in {"input", "join"} /\ ~poisoned /\ Driver # "server"
    BY <1>1 DEF TypesInv, PlacesTyped, Sound
  <1>4. fedN' = k
    BY <1>1, <1>3
  <1>5. SpelledTo(fedN, syncTok, syncRender)
    BY <1>3 DEF PromptInv, SyncSpelled
  <1>6. SpelledTo(idle.fedN, idle.tok, idle.render)'
    BY <1>1, <1>5 DEF SpelledTo
  <1>7. Fed' \o idle'.toks = Encode(idle'.header)
    <2>1. ids \in Seq(Text) /\ k \in 0..Len(ids)
      <3>1. fedN \in Nat /\ Len(ids) \in Nat /\ ids \in Seq(Text)
        BY <1>1 DEF TypesInv, CacheTyped, Ids
      <3>. QED  BY <1>1, <3>1
    <2>2. SubSeq(ids, 1, k) \o SubSeq(ids, k + 1, Len(ids)) = ids
      BY <2>1, Splits
    <2>3. Fed' = SubSeq(ids, 1, k)
      BY <1>1, <1>4 DEF Fed
    <2>. QED  BY <1>1, <1>2, <2>2, <2>3
  <1>8. SpelledTo(fedN, syncTok, syncRender)'
    BY <1>1 DEF SpelledTo
  <1>. QED  BY <1>1, <1>3, <1>6, <1>7, <1>8
            DEF PromptInv, ChatOnly, SyncSpelled, PromptFed, HeaderFed, Generating, Decoding

LEMMA IdleChunkPrompt == ASSUME TypesInv, PromptInv, IdleChunk PROVE PromptInv'
  <1>1. /\ idlePc = "feed" /\ FeedChunk(idle) /\ UNCHANGED <<poisoned, pc, turn>>
        /\ idle' = [idle EXCEPT !.off = @ + Len(NextChunk(idle))]
        /\ IF LastChunk(idle)
           THEN syncRender' = idle.header /\ syncTok' = Len(Encode(idle.header)) /\ idlePc' = "done"
           ELSE UNCHANGED <<syncRender, syncTok, idlePc>>
    BY DEF IdleChunk
  <1>2. pc \in {"input", "join"} /\ Batch(idle) /\ idle \in IdleRun /\ idle.toks \in Seq(Text)
        /\ idle.header \in Text
    BY <1>1, IdleBatch DEF TypesInv, PlacesTyped, IdleRun, Ids
  <1>3. syncTok = 0 /\ Fed \o idle.toks = Encode(idle.header)
    BY <1>1 DEF PromptInv, HeaderFed
  <1>4. CASE LastChunk(idle)
    <2>1. Takes(idle.toks, Len(idle.toks))
      BY <1>1, <1>2, <1>4, ChunkIs
    <2>2. Fed' = Encode(idle.header) /\ fedN' \in Nat /\ Len(Fed') = fedN'
      <3>1. Len(idle.toks) \in 0..Len(idle.toks) /\ SubSeq(idle.toks, 1, Len(idle.toks)) = idle.toks
            /\ Len(idle.toks) \in Nat /\ fedN \in Nat
        BY <1>2, SubSeqFull DEF Batch, CacheTyped
      <3>2. Fed' = Fed \o idle.toks /\ fedN' = fedN + Len(idle.toks)
        BY <2>1, <3>1 DEF Takes, Fed
      <3>3. Fed \in Seq(Text) /\ Len(Fed) = fedN
        <4>1. fed \in Seq(Text) /\ fedN \in 0..Len(fed)
          BY <1>2 DEF Batch, CacheTyped, Ids
        <4>. QED  BY <4>1, Beginning DEF Fed
      <3>4. Len(Fed \o idle.toks) = fedN + Len(idle.toks)
        BY <1>2, <3>3, ConcatProperties
      <3>. QED  BY <1>3, <3>1, <3>2, <3>4
    <2>3. syncTok' = fedN' /\ syncRender' = idle.header /\ idlePc' = "done"
      BY <1>1, <1>4, <2>2
    <2>4. Spell(Fed') = syncRender'
      BY <1>2, <2>2, <2>3, EncodeSpells
    <2>5. SpelledTo(fedN, syncTok, syncRender)'
      BY <2>3, <2>4 DEF SpelledTo, Fed
    <2>6. idlePc' # "feed" /\ pc' \in Quiet /\ pc' \notin {"turn", "after", "warmup"}
      BY <1>1, <1>2, <2>3 DEF Quiet
    <2>. QED  BY <2>5, <2>6, QuietPrompt
  <1>5. CASE ~LastChunk(idle)
    <2>1. UNCHANGED <<fed, fedN>>
      BY <1>1, <1>2, <1>5, ChunkIs
    <2>2. idle'.off = idle.off + Len(NextChunk(idle)) /\ idle'.toks = idle.toks /\ idle'.header = idle.header
      BY <1>1, <1>2 DEF IdleRun
    <2>3. SpelledTo(idle.fedN, idle.tok, idle.render)'
      <3>1. idle'.fedN = idle.fedN /\ idle'.tok = idle.tok /\ idle'.render = idle.render
        BY <1>1, <1>2 DEF IdleRun
      <3>. QED  BY <1>1, <2>1, <3>1 DEF PromptInv, HeaderFed, SpelledTo
    <2>4. Fed' \o idle'.toks = Encode(idle'.header) /\ syncTok' = 0 /\ idlePc' = "feed"
      BY <1>1, <1>3, <1>5, <2>1, <2>2 DEF Fed
    <2>5. SpelledTo(fedN, syncTok, syncRender)'
      BY <2>4 DEF SpelledTo
    <2>. QED  BY <1>1, <1>2, <2>3, <2>4, <2>5
              DEF PromptInv, ChatOnly, SyncSpelled, PromptFed, HeaderFed, Generating, Decoding
  <1>. QED  BY <1>4, <1>5

LEMMA IdleStopsPrompt ==
    ASSUME TypesInv, Sound, SureInv, PromptInv, IdleStops, sure = Whole, sure' = Whole
    PROVE  PromptInv'
  <1>1. /\ idlePc = "feed" /\ idle \in IdleRun /\ ~poisoned /\ UNCHANGED <<pc, turn>>
    BY IdleStopsIs DEF Sound
  <1>2. PICK n \in 0..idle.off :
            /\ Restored(n)
            /\ \/ n = 0 /\ ~IdleFits
               \/ n = idle.off /\ (~poisoned' => WroteOver)
    BY IdleStopsIs
  <1>3. /\ fedN' = idle.fedN /\ (n = 0 => fed' = fed) /\ idlePc' = "done"
        /\ syncRender' = idle.render /\ syncTok' = idle.tok
        /\ \A k \in 0..fedN : SubSeq(fed', 1, k) = SubSeq(fed, 1, k)
    BY <1>1, <1>2, RestoredIs
  <1>4. pc \in {"input", "join"} /\ idle.off \in Nat /\ pc' \in Quiet /\ pc' \notin {"turn", "after", "warmup"}
    BY <1>1 DEF TypesInv, PlacesTyped, IdleRun, Quiet
  <1>5. ~poisoned' => n = 0 \/ idle.nPos = nPos
    BY <1>1, <1>2, WroteOverIs, WholeIs
  <1>6. idle.nPos = idle.fedN /\ nPos = fedN /\ fedN \in Nat /\ idle.tok \in Nat
    BY <1>1, <1>4 DEF TypesInv, CacheTyped, CacheSized, IdleSized, IdleRun
  <1>7. ASSUME ~poisoned' PROVE SpelledTo(fedN, syncTok, syncRender)'
    <2>1. SpelledTo(idle.fedN, idle.tok, idle.render)
      BY <1>1 DEF PromptInv, HeaderFed
    <2>2. CASE n = 0
      BY <1>3, <2>1, <2>2 DEF SpelledTo
    <2>3. CASE idle.nPos = nPos
      <3>1. \A k \in 1..idle.fedN : k \in 0..fedN
        BY <1>6, <2>3
      <3>. QED  BY <1>3, <2>1, <3>1 DEF SpelledTo
    <2>. QED  BY <1>5, <1>7, <2>2, <2>3
  <1>. QED  BY <1>3, <1>4, <1>7, QuietPrompt

\* What is put back over what was written: the tokens before that are as they
\* were.
LEMMA WroteOverSpelled ==
    ASSUME TypesInv, Sound, SureInv, PromptInv, IdleStops, sure = Whole
    PROVE  SureSpelled'
  <1>1. idlePc = "feed" /\ idle \in IdleRun /\ pc' = pc
    BY IdleStopsIs
  <1>2. PICK n \in 0..idle.off :
            /\ Restored(n)
            /\ \/ UNCHANGED sure
               \/ WroteOver
    BY IdleStopsIs
  <1>. SUFFICES ASSUME sure' # Whole PROVE SpelledTo(sure.sync, syncTok, syncRender)'
    BY DEF SureSpelled
  <1>3. CASE sure' = Lost
    BY <1>3, WholeIs DEF SpelledTo
  <1>4. CASE sure' # Lost
    <2>1. sure'.sync = nPos /\ nPos < idle.nPos
      BY <1>1, <1>2, <1>4, WroteOverIs
    <2>2. syncTok' = idle.tok /\ syncRender' = idle.render
          /\ \A k \in 0..fedN : SubSeq(fed', 1, k) = SubSeq(fed, 1, k)
      BY <1>1, <1>2, RestoredIs
    <2>3. nPos = fedN /\ fedN \in Nat /\ idle.nPos = idle.fedN /\ idle.nPos \in Nat
      <3>1. pc # "spec"
        BY <1>1 DEF TypesInv, PlacesTyped
      <3>. QED  BY <1>1, <3>1 DEF TypesInv, CacheTyped, CacheSized, IdleSized, IdleRun
    <2>4. \A k \in 1..nPos : k \in 0..fedN /\ k \in 1..idle.fedN
      BY <2>1, <2>3
    <2>5. SpelledTo(idle.fedN, idle.tok, idle.render)
      BY <1>1 DEF PromptInv, HeaderFed
    <2>. QED  BY <2>1, <2>2, <2>4, <2>5 DEF SpelledTo
  <1>. QED  BY <1>3, <1>4

LEMMA SureSpelledStep ==
    ASSUME TypesInv, Sound, SureInv, SureSpelled, sure = Whole => PromptInv, [Next]_vars
    PROVE  SureSpelled'
  <1>1. CASE sure' \in {Whole, Lost}
    BY <1>1, WholeIs DEF SureSpelled, SpelledTo
  <1>2. CASE UNCHANGED sure /\ ~(sure.tokens > 0)
    <2>1. sure'.sync \in Nat /\ ~(sure'.sync > 0)
      BY <1>2 DEF SureInv, SureTyped
    <2>. QED  BY <2>1 DEF SureSpelled, SpelledTo
  <1>3. CASE UNCHANGED <<fed, syncTok, syncRender, sure>>
    BY <1>3 DEF SureSpelled, SpelledTo
  <1>4. CASE IdleStops /\ sure = Whole
    BY <1>4, WroteOverSpelled
  <1>. QED  BY <1>1, <1>2, <1>3, <1>4, SureMoves

LEMMA IdlePrompt ==
    ASSUME TypesInv, Sound, SureInv, PromptInv, IdleStep, PlainChat, sure = Whole, sure' = Whole
    PROVE  PromptInv'
  <1>1. CASE IdleGivesUp
    <2>1. /\ idlePc = "start" /\ idlePc' = "done" /\ pc' = pc
          /\ UNCHANGED <<fed, fedN, syncTok, syncRender, poisoned>>
      BY <1>1 DEF IdleGivesUp, cache, chat
    <2>2. pc \in {"input", "join"} /\ pc' \in Quiet
      BY <2>1 DEF TypesInv, PlacesTyped, Quiet
    <2>. QED  BY <2>1, <2>2, AsidePrompt
  <1>2. Driver # "server" => ~Hybrid
    BY DEF PlainChat
  <1>. QED  BY <1>1, <1>2, IdleBeginsPrompt, IdleChunkPrompt, IdleStopsPrompt DEF IdleStep

LEMMA PromptStep ==
    ASSUME TypesInv, Sound, SureInv, SureSpelled, sure = Whole => PromptInv, [Next]_vars, PlainChat,
           sure' = Whole
    PROVE  PromptInv'
  <1>0. CASE sure # Whole
    BY <1>0, SureAgain, ResetPrompt, BeginTurnPrompt
  <1>1. ASSUME PromptInv, MainStep PROVE PromptInv'
    <2>1. ASSUME \/ Reset \/ WarmupChunk \/ WarmupFails \/ WarmupEnds
                 \/ JoinIdle \/ AfterTurn \/ RewriteAssistant \/ RequestEnds
          PROVE  PromptInv'
      BY <1>1, <2>1, EndsPrompt, WarmupPrompt
    <2>2. ASSUME BeginCompletion PROVE FALSE
      BY <1>1, <2>2 DEF BeginCompletion, PromptInv, ChatOnly
    <2>3. ASSUME BeginTurn \/ PrefillChunk \/ PrefillNothing \/ PrefillStops PROVE PromptInv'
      BY <1>1, <2>3, BeginTurnPrompt, PrefillPrompt
    <2>4. ASSUME \/ DecodeEnds \/ SampleNext \/ PickOnDevice \/ PickFails \/ Redo \/ RedoFails
                 \/ FeedToken \/ FeedLimit \/ FeedStops \/ FeedDies
          PROVE  PromptInv'
      BY <1>1, <2>4, DecodePrompt, RedoFailsPrompt, FeedTokenPrompt
    <2>5. ASSUME SpecFeed \/ SpecRead \/ SpecReadFails \/ SpecBlocked \/ SpecUnsupported \/ RecordTurn
          PROVE  PromptInv'
      BY <1>1, <2>5, SpecPrompt, SpecReadPrompt, RecordPrompt
    <2>. QED  BY <1>1, <2>1, <2>2, <2>3, <2>4, <2>5 DEF MainStep
  <1>2. ASSUME PromptInv, Signal \/ UNCHANGED vars PROVE PromptInv'
    <2>1. UNCHANGED <<fed, fedN, syncTok, syncRender, lastRender, poisoned, pc, turn, idlePc, idle>>
      BY <1>2 DEF Signal, vars, cache, chat
    <2>. QED  BY <1>2, <2>1, StillPrompt
  <1>. QED  BY <1>0, <1>1, <1>2, AskedPrompt, IdlePrompt DEF Next

LEMMA InitPrompt == Init => PromptInv /\ SureSpelled
  BY DEF Init, PromptInv, SureSpelled, ChatOnly, SyncSpelled, PromptFed, HeaderFed, SpelledTo, Generating, Decoding

\* However the tokens of earlier turns were cut, a chat turn starts to
\* generate after exactly the text the template rendered: what is reused up
\* to the sync point, what is encoded after it, and the header that an idle
\* prefill fed, or gave up and took back: unless the turn relies on a sync
\* point over tokens that an interrupted idle prefill wrote over.  (A completion
\* of the server and an idle prefill of a recurrent model leave other tokens
\* below the sync point.)
THEOREM SessionPromptSpelled == ASSUME PlainChat PROVE Spec => []PromptSpelled
  <1>. DEFINE Inv == TypesInv /\ Sound /\ SureInv /\ SureSpelled /\ (sure = Whole => PromptInv)
  <1>1. Init => Inv
    BY InitTypes, InitSound, InitSure, InitPrompt
  <1>2. Inv /\ [Next]_vars => Inv'
    <2>. SUFFICES ASSUME Inv, [Next]_vars PROVE Inv'
      OBVIOUS
    <2>1. TypesInv' /\ Sound' /\ SureInv' /\ SureSpelled'
      BY TypesStep, SoundStep, SureStep, SureSpelledStep
    <2>2. sure' = Whole => PromptInv'
      BY PromptStep
    <2>. QED  BY <2>1, <2>2 DEF Whole
  <1>3. Inv => PromptSpelled
    BY DEF PromptInv, PromptFed, PromptSpelled
  <1>. QED  BY <1>1, <1>2, <1>3, PTL DEF Spec
=============================================================================
