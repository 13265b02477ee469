------------------------ MODULE TemplateText_proofs ------------------------
(***************************************************************************)
(* What the recursive functions of the template engine compute, for every  *)
(* text.  Induction is by the least element of a set of naturals.          *)
(***************************************************************************)
EXTENDS TemplateText, FiniteSetTheorems, SequenceTheorems, TLAPS

\* A set of naturals that is not empty has a least element.
LEMMA Least ==
  ASSUME NEW T \in SUBSET Nat, T # {}
  PROVE  \E m \in T : \A k \in T : m <= k
<1> DEFINE R == OpToRel(<, Nat)
<1>1. IsWellFoundedOn(R, Nat)
  BY NatLessThanWellFounded
<1>2. \A x, y \in Nat : x < y => <<x, y>> \in R
  BY DEF OpToRel
<1> HIDE DEF R
<1>3. PICK m \in T : \A k \in T : ~(<<k, m>> \in R)
  BY <1>1, WFMin
<1>4. ASSUME NEW k \in T PROVE m <= k
  <2>1. ~(k < m)
    BY <1>2, <1>3, Zenon
  <2>2. QED
    BY <2>1
<1>5. QED
  BY <1>4

LEMMA Induct ==
  ASSUME NEW S, 0 \in S, \A n \in Nat : n \in S => n + 1 \in S
  PROVE  Nat \subseteq S
<1> SUFFICES ASSUME Nat \ S # {} PROVE FALSE
  OBVIOUS
<1>1. PICK m \in Nat \ S : \A k \in Nat \ S : m <= k
  BY Least
<1>2. m # 0 /\ m - 1 \in Nat /\ m - 1 \in S
  BY <1>1
<1>3. QED
  BY <1>1, <1>2

\* Strong induction, and induction from the end of a text.
LEMMA Strong ==
  ASSUME NEW S, \A n \in Nat : (\A m \in 0 .. n - 1 : m \in S) => n \in S
  PROVE  Nat \subseteq S
<1> SUFFICES ASSUME Nat \ S # {} PROVE FALSE
  OBVIOUS
<1>1. PICK n \in Nat \ S : \A k \in Nat \ S : n <= k
  BY Least
<1>2. \A m \in 0 .. n - 1 : m \in S
  BY <1>1
<1>3. QED
  BY <1>1, <1>2

LEMMA Down ==
  ASSUME NEW S, NEW L \in Nat, \A p \in 1 .. L : (\A q \in p + 1 .. L : q \in S) => p \in S
  PROVE  1 .. L \subseteq S
<1> DEFINE T == {k \in Nat : k < L => L - k \in S}
<1>1. ASSUME NEW n \in Nat, \A m \in 0 .. n - 1 : m \in T PROVE n \in T
  <2> SUFFICES ASSUME n < L PROVE L - n \in S
    OBVIOUS
  <2>1. ASSUME NEW q \in L - n + 1 .. L PROVE q \in S
    <3>1. L - q \in 0 .. n - 1 /\ L - q < L /\ L - (L - q) = q
      OBVIOUS
    <3>2. L - q \in T
      BY <1>1, <3>1
    <3>3. QED
      BY <3>1, <3>2
  <2>2. L - n \in 1 .. L
    OBVIOUS
  <2>3. QED
    BY <2>1, <2>2
<1>2. Nat \subseteq T
  <2> HIDE DEF T
  <2>1. QED
    BY <1>1, Strong
<1>3. ASSUME NEW p \in 1 .. L PROVE p \in S
  <2>1. L - p \in Nat /\ L - p < L /\ L - (L - p) = p
    OBVIOUS
  <2>2. L - p \in T
    BY <1>2, <2>1
  <2>3. QED
    BY <2>1, <2>2
<1>4. QED
  BY <1>3

\* The smallest of a set of naturals, as the modules write it.
LEMMA MinIsLeast ==
  ASSUME NEW T \in SUBSET Nat, T # {}
  PROVE  Min(T) \in T /\ \A k \in T : Min(T) <= k
BY Least DEF Min

-----------------------------------------------------------------------------
(* The balance of "for" and "end".                                         *)

Places(c, k, i, j) == {n \in i .. j : n \in DOMAIN c /\ c[n] = k}

LEMMA CountIs ==
  ASSUME NEW c, NEW k, NEW i \in Int, NEW j \in Int
  PROVE  /\ Count(c, k, i, j) = Cardinality(Places(c, k, i, j))
         /\ IsFiniteSet(Places(c, k, i, j))
         /\ Count(c, k, i, j) \in Nat
<1>1. IsFiniteSet(i .. j) /\ Places(c, k, i, j) \subseteq i .. j
  BY FS_Interval DEF Places
<1>2. IsFiniteSet(Places(c, k, i, j))
  BY <1>1, FS_Subset
<1>3. Count(c, k, i, j) = Cardinality(Places(c, k, i, j))
  BY DEF Count, Places
<1>4. QED
  BY <1>2, <1>3, FS_CardinalityType

LEMMA CountSplit ==
  ASSUME NEW c, NEW k, NEW i \in Int, NEW m \in Int, NEW j \in Int,
         i <= m + 1, m <= j
  PROVE  Count(c, k, i, j) = Count(c, k, i, m) + Count(c, k, m + 1, j)
<1>1. Places(c, k, i, j) = Places(c, k, i, m) \cup Places(c, k, m + 1, j)
  BY DEF Places
<1>2. Places(c, k, i, m) \cap Places(c, k, m + 1, j) = {}
  BY DEF Places
<1>3. Cardinality(Places(c, k, i, m) \cap Places(c, k, m + 1, j)) = 0
  BY <1>2, FS_EmptySet
<1>4. m + 1 \in Int
  OBVIOUS
<1>5. /\ Count(c, k, i, m) = Cardinality(Places(c, k, i, m))
      /\ IsFiniteSet(Places(c, k, i, m)) /\ Count(c, k, i, m) \in Nat
  BY CountIs
<1>6. /\ Count(c, k, m + 1, j) = Cardinality(Places(c, k, m + 1, j))
      /\ IsFiniteSet(Places(c, k, m + 1, j)) /\ Count(c, k, m + 1, j) \in Nat
  BY <1>4, CountIs
<1> DEFINE A == Places(c, k, i, m)
           B == Places(c, k, m + 1, j)
<1> HIDE DEF A, B
<1>7. Cardinality(A \cup B) = Cardinality(A) + Cardinality(B) - Cardinality(A \cap B)
  <2>1. IsFiniteSet(A) /\ IsFiniteSet(B)
    BY <1>5, <1>6 DEF A, B
  <2>2. QED
    BY <2>1, FS_Union
<1>8. Count(c, k, i, j) = Cardinality(A \cup B)
  BY <1>1, CountIs DEF A, B
<1>9. QED
  BY <1>3, <1>5, <1>6, <1>7, <1>8 DEF A, B

LEMMA DepthSplit ==
  ASSUME NEW c, NEW i \in Int, NEW m \in Int, NEW j \in Int, i <= m + 1, m <= j
  PROVE  Depth(c, i, j) = Depth(c, i, m) + Depth(c, m + 1, j)
<1>1. m + 1 \in Int
  OBVIOUS
<1>2. \A k : Count(c, k, i, j) = Count(c, k, i, m) + Count(c, k, m + 1, j)
  BY CountSplit
<1>3. \A k : Count(c, k, i, m) \in Nat /\ Count(c, k, m + 1, j) \in Nat
  BY <1>1, CountIs
<1>4. QED
  BY <1>2, <1>3 DEF Depth

LEMMA DepthInt ==
  ASSUME NEW c, NEW i \in Int, NEW j \in Int
  PROVE  Depth(c, i, j) \in Int /\ (j < i => Depth(c, i, j) = 0)
<1>1. \A k : Count(c, k, i, j) = Cardinality(Places(c, k, i, j)) /\ Count(c, k, i, j) \in Nat
  BY CountIs
<1>2. ASSUME j < i PROVE \A k : Places(c, k, i, j) = {}
  BY <1>2 DEF Places
<1>3. ASSUME j < i PROVE \A k : Count(c, k, i, j) = 0
  BY <1>1, <1>2, <1>3, FS_EmptySet
<1>4. QED
  BY <1>1, <1>3 DEF Depth

\* One token, counted alone.
LEMMA DepthOne ==
  ASSUME NEW c \in Texts, NEW n \in DOMAIN c
  PROVE  Depth(c, n, n) = Deeper(0, c[n])
<1>1. n \in Int
  BY DEF Texts
<1>2. ASSUME NEW k PROVE Count(c, k, n, n) = IF c[n] = k THEN 1 ELSE 0
  <2>1. Count(c, k, n, n) = Cardinality(Places(c, k, n, n))
    BY <1>1, CountIs
  <2>2. CASE c[n] = k
    <3>1. Places(c, k, n, n) = {n}
      BY <1>1, <2>2 DEF Places
    <3>2. QED
      BY <2>1, <2>2, <3>1, FS_Singleton
  <2>3. CASE c[n] # k
    <3>1. Places(c, k, n, n) = {}
      BY <1>1, <2>3 DEF Places
    <3>2. QED
      BY <2>1, <2>3, <3>1, FS_EmptySet
  <2>4. QED
    BY <2>2, <2>3
<1>3. QED
  BY <1>2 DEF Depth, Deeper

LEMMA DepthStep ==
  ASSUME NEW c \in Texts, NEW i \in Int, NEW n \in DOMAIN c, i <= n
  PROVE  Depth(c, i, n) = Deeper(Depth(c, i, n - 1), c[n])
<1>1. n \in Nat /\ n - 1 \in Int
  BY DEF Texts
<1>2. Depth(c, i, n) = Depth(c, i, n - 1) + Depth(c, n, n)
  <2>1. i <= n - 1 + 1 /\ n - 1 <= n /\ n - 1 + 1 = n
    BY <1>1
  <2>2. Depth(c, i, n) = Depth(c, i, n - 1) + Depth(c, n - 1 + 1, n)
    BY <1>1, <2>1, DepthSplit
  <2>3. QED
    BY <2>1, <2>2
<1>3. Depth(c, i, n - 1) \in Int
  BY <1>1, DepthInt
<1>4. QED
  BY <1>2, <1>3, DepthOne DEF Deeper

\* The balance falls by steps of one: from above 0 it cannot get below without 0.
LEMMA Descends ==
  ASSUME NEW c \in Texts, NEW r \in DOMAIN c, NEW e \in DOMAIN c,
         c[r] = "for", r <= e, Depth(c, r, e) <= 0
  PROVE  \E x \in Closings(c, r) : x <= e
<1> DEFINE T == {x \in r .. e : Depth(c, r, x) <= 0}
<1>1. r \in Nat /\ e \in Nat /\ e <= Len(c) /\ DOMAIN c = 1 .. Len(c)
  BY DEF Texts
<1>2. e \in T /\ T \subseteq Nat
  BY <1>1
<1>3. PICK m \in T : \A x \in T : m <= x
  BY <1>2, Least
<1>4. m \in DOMAIN c /\ m \in Nat /\ r <= m /\ m <= e
  BY <1>1, <1>3
<1>5. m # r
  BY <1>3, DepthOne DEF Deeper
<1>6. m - 1 \in Int /\ Depth(c, r, m - 1) \in Int /\ Depth(c, r, m) \in Int
  BY <1>1, <1>4, DepthInt
<1>7. Depth(c, r, m - 1) > 0
  BY <1>1, <1>3, <1>4, <1>5, <1>6
<1>8. Depth(c, r, m) = Deeper(Depth(c, r, m - 1), c[m])
  BY <1>1, <1>4, DepthStep
<1>9. Depth(c, r, m) = 0
  BY <1>3, <1>6, <1>7, <1>8 DEF Deeper
<1>10. QED
  BY <1>1, <1>4, <1>9 DEF Closings

\* The first closing of a loop is an "end", and all before it is inside.
LEMMA FirstClosing ==
  ASSUME NEW c \in Texts, NEW s \in DOMAIN c, c[s] = "for", Closings(c, s) # {}
  PROVE  LET e == Min(Closings(c, s)) IN
         /\ e \in Closings(c, s) /\ \A x \in Closings(c, s) : e <= x
         /\ e \in DOMAIN c /\ s < e /\ c[e] = "end"
         /\ \A x \in s .. e - 1 : Depth(c, s, x) > 0
<1> DEFINE e == Min(Closings(c, s))
<1>1. s \in Nat /\ DOMAIN c = 1 .. Len(c) /\ Len(c) \in Nat
  BY DEF Texts
<1>2. Closings(c, s) \subseteq Nat
  BY <1>1 DEF Closings
<1>3. e \in Closings(c, s) /\ \A x \in Closings(c, s) : e <= x
  BY <1>2, MinIsLeast
<1> HIDE DEF e
<1>4. e \in DOMAIN c /\ s <= e /\ Depth(c, s, e) = 0 /\ e \in Nat
  BY <1>1, <1>3 DEF Closings
<1>5. s # e
  BY <1>4, DepthOne DEF Deeper
<1>6. ASSUME NEW x \in s .. e - 1 PROVE Depth(c, s, x) > 0
  <2>1. x \in DOMAIN c /\ x \in Int /\ x < e /\ s <= x
    BY <1>1, <1>4
  <2>2. Depth(c, s, x) \in Int
    BY <1>1, <2>1, DepthInt
  <2>3. CASE Depth(c, s, x) <= 0
    <3>1. PICK y \in Closings(c, s) : y <= x
      BY <2>1, <2>3, Descends
    <3>2. e <= y /\ y \in Nat
      BY <1>2, <1>3
    <3>3. QED
      BY <1>4, <2>1, <3>1, <3>2
  <2>4. QED
    BY <2>2, <2>3
<1>7. c[e] = "end"
  <2>1. e - 1 \in s .. e - 1 /\ e - 1 \in Int
    BY <1>1, <1>4, <1>5
  <2>2. Depth(c, s, e - 1) > 0 /\ Depth(c, s, e - 1) \in Int
    BY <1>1, <1>6, <2>1, DepthInt
  <2>3. Depth(c, s, e) = Deeper(Depth(c, s, e - 1), c[e])
    BY <1>1, <1>4, DepthStep
  <2>4. QED
    BY <1>4, <2>2, <2>3 DEF Deeper
<1>8. QED
  BY <1>1, <1>3, <1>4, <1>5, <1>6, <1>7 DEF e

-----------------------------------------------------------------------------
(* The recursive functions exist: each is built place by place.            *)

CounterTo(f, c, n, m) ==
  f = [p \in n - 1 .. m |-> IF p < n THEN 1 ELSE Deeper(f[p - 1], c[p])]

LEMMA CounterExists ==
  ASSUME NEW c, NEW n \in Nat \ {0}, NEW m \in Nat, n - 1 <= m
  PROVE  \E f : CounterTo(f, c, n, m)
<1> DEFINE S == {k \in Nat : \E f : CounterTo(f, c, n, n - 1 + k)}
<1>1. 0 \in S
  <2> DEFINE f0 == [p \in n - 1 .. n - 1 + 0 |-> 1]
  <2>1. f0 = [p \in n - 1 .. n - 1 + 0 |-> IF p < n THEN 1 ELSE Deeper(f0[p - 1], c[p])]
    OBVIOUS
  <2>2. QED
    BY <2>1 DEF CounterTo
<1>2. ASSUME NEW k \in Nat, k \in S PROVE k + 1 \in S
  <2>1. PICK f : CounterTo(f, c, n, n - 1 + k)
    BY <1>2
  <2> DEFINE D == n - 1 .. n - 1 + (k + 1)
             g == [p \in D |-> IF p < n THEN 1 ELSE Deeper(f[p - 1], c[p])]
  <2>2. ASSUME NEW p \in D, ~(p < n) PROVE g[p - 1] = f[p - 1]
    <3>1. p - 1 \in D /\ p - 1 \in n - 1 .. n - 1 + k
      BY <2>2
    <3>2. g[p - 1] = IF p - 1 < n THEN 1 ELSE Deeper(f[p - 1 - 1], c[p - 1])
      BY <3>1
    <3>3. f[p - 1] = IF p - 1 < n THEN 1 ELSE Deeper(f[p - 1 - 1], c[p - 1])
      BY <2>1, <3>1 DEF CounterTo
    <3>4. QED
      BY <3>2, <3>3
  <2> HIDE DEF D
  <2>3. g = [p \in D |-> IF p < n THEN 1 ELSE Deeper(g[p - 1], c[p])]
    <3>1. ASSUME NEW p \in D
          PROVE  g[p] = IF p < n THEN 1 ELSE Deeper(g[p - 1], c[p])
      <4>1. g[p] = IF p < n THEN 1 ELSE Deeper(f[p - 1], c[p])
        OBVIOUS
      <4> HIDE DEF g
      <4>2. QED
        BY <2>2, <4>1
    <3>2. g = [p \in D |-> g[p]]
      OBVIOUS
    <3> HIDE DEF g
    <3>3. QED
      BY <3>1, <3>2
  <2> HIDE DEF g
  <2>4. CounterTo(g, c, n, n - 1 + (k + 1))
    BY <2>3 DEF CounterTo, D
  <2>5. QED
    BY <2>4
<1>3. m - (n - 1) \in S
  <2> HIDE DEF S
  <2>1. QED
    BY <1>1, <1>2, Induct
<1>4. n - 1 + (m - (n - 1)) = m
  OBVIOUS
<1>5. QED
  BY <1>3, <1>4

LEMMA DeeperOver ==
  \A d \in Int : \A token : Deeper(1 + d, token) = 1 + Deeper(d, token)
BY DEF Deeper

\* It counts the open loops.
LEMMA CounterIsDepth ==
  ASSUME NEW c \in Texts, NEW n \in 1 .. Len(c) + 1, NEW f, CounterTo(f, c, n, Len(c)),
         NEW p \in n - 1 .. Len(c)
  PROVE  f[p] = 1 + Depth(c, n, p)
<1> DEFINE S == {k \in Nat : n - 1 + k <= Len(c) => f[n - 1 + k] = 1 + Depth(c, n, n - 1 + k)}
<1>1. Len(c) \in Nat /\ DOMAIN c = 1 .. Len(c) /\ n \in Nat \ {0}
  BY DEF Texts
<1>2. 0 \in S
  <2>1. n - 1 \in n - 1 .. Len(c) /\ n - 1 < n /\ n - 1 + 0 = n - 1
    BY <1>1
  <2>2. f[n - 1] = 1
    BY <2>1 DEF CounterTo
  <2>3. Depth(c, n, n - 1) = 0
    BY <1>1, DepthInt
  <2>4. QED
    BY <2>1, <2>2, <2>3
<1>3. ASSUME NEW k \in Nat, k \in S PROVE k + 1 \in S
  <2> SUFFICES ASSUME n - 1 + (k + 1) <= Len(c)
               PROVE  f[n - 1 + (k + 1)] = 1 + Depth(c, n, n - 1 + (k + 1))
    OBVIOUS
  <2> DEFINE q == n - 1 + (k + 1)
  <2>1. /\ q \in n - 1 .. Len(c) /\ ~(q < n) /\ q - 1 = n - 1 + k
        /\ q \in DOMAIN c /\ n <= q /\ q - 1 \in Int /\ n \in Int
    BY <1>1
  <2>2. f[q - 1] = 1 + Depth(c, n, q - 1)
    BY <1>3, <2>1
  <2> HIDE DEF q
  <2>3. f[q] = Deeper(f[q - 1], c[q])
    BY <2>1 DEF CounterTo
  <2>4. Depth(c, n, q) = Deeper(Depth(c, n, q - 1), c[q])
    BY <2>1, DepthStep
  <2>5. Depth(c, n, q - 1) \in Int
    BY <2>1, DepthInt
  <2>6. f[q] = 1 + Depth(c, n, q)
    BY <2>2, <2>3, <2>4, <2>5, DeeperOver
  <2>7. QED
    BY <2>6 DEF q
<1>4. p - (n - 1) \in S
  <2>1. p - (n - 1) \in Nat
    BY <1>1
  <2> HIDE DEF S
  <2>2. QED
    BY <1>2, <1>3, <2>1, Induct
<1>5. n - 1 + (p - (n - 1)) = p
  BY <1>1
<1>6. QED
  BY <1>1, <1>4, <1>5

\* LoopEnd finds the first place that closes one loop more than it opens.
Closes(c, n) == {p \in n .. Len(c) : 1 + Depth(c, n, p) = 0}

LEMMA LoopEndIs ==
  ASSUME NEW c \in Texts, NEW n \in 1 .. Len(c) + 1
  PROVE  LoopEnd(c, n) = IF Closes(c, n) = {} THEN 0 ELSE Min(Closes(c, n))
<1> DEFINE f == CHOOSE f : f = [p \in n - 1 .. Len(c) |->
                                  IF p < n THEN 1 ELSE Deeper(f[p - 1], c[p])]
<1>1. n \in Nat \ {0} /\ Len(c) \in Nat /\ n - 1 <= Len(c)
  BY DEF Texts
<1>2. CounterTo(f, c, n, Len(c))
  <2>1. \E g : CounterTo(g, c, n, Len(c))
    BY <1>1, CounterExists
  <2>2. QED
    BY <2>1 DEF CounterTo
<1>3. LoopEnd(c, n) = LET closing == {p \in n .. Len(c) : f[p] = 0}
                      IN  IF closing = {} THEN 0 ELSE Min(closing)
  BY DEF LoopEnd
<1> HIDE DEF f
<1>4. {p \in n .. Len(c) : f[p] = 0} = Closes(c, n)
  <2>1. \A p \in n .. Len(c) : f[p] = 1 + Depth(c, n, p)
    BY <1>1, <1>2, CounterIsDepth
  <2>2. QED
    BY <2>1 DEF Closes
<1>5. QED
  BY <1>3, <1>4

-----------------------------------------------------------------------------
(* Where a loop with a name ends.                                          *)

LEMMA NamedLoopEnd ==
  ASSUME NEW c \in Texts, NEW s \in DOMAIN c, c[s] = "for", s < Len(c),
         c[s + 1] \in {"items", "subs"}
  PROVE  LoopEnd(c, s + 2) = IF Closings(c, s) = {} THEN 0 ELSE Min(Closings(c, s))
<1>1. s \in Nat /\ Len(c) \in Nat /\ DOMAIN c = 1 .. Len(c) /\ s + 1 \in DOMAIN c
  BY DEF Texts
<1>2. Depth(c, s, s) = 1 /\ Depth(c, s + 1, s + 1) = 0
  BY <1>1, DepthOne DEF Deeper
<1>3. Depth(c, s, s + 1) = 1
  <2>1. Depth(c, s, s + 1) = Depth(c, s, s) + Depth(c, s + 1, s + 1)
    BY <1>1, DepthSplit
  <2>2. QED
    BY <1>2, <2>1
<1>4. ASSUME NEW p \in Nat, s + 2 <= p
      PROVE  Depth(c, s, p) = 1 + Depth(c, s + 2, p)
  <2>1. Depth(c, s, p) = Depth(c, s, s + 1) + Depth(c, s + 1 + 1, p)
    <3>1. s \in Int /\ s + 1 \in Int /\ p \in Int /\ s <= s + 1 + 1 /\ s + 1 <= p
      BY <1>1, <1>4
    <3>2. QED
      BY <3>1, DepthSplit
  <2>2. s + 1 + 1 = s + 2
    BY <1>1
  <2>3. QED
    BY <1>3, <2>1, <2>2
<1>5. Closings(c, s) = Closes(c, s + 2)
  <2>1. ASSUME NEW p \in Closings(c, s) PROVE p \in Closes(c, s + 2)
    <3>1. p \in Nat /\ s <= p /\ p <= Len(c) /\ Depth(c, s, p) = 0
      BY <1>1 DEF Closings
    <3>2. p # s /\ p # s + 1
      BY <1>2, <1>3, <3>1
    <3>3. s + 2 <= p
      BY <1>1, <3>1, <3>2
    <3>4. 1 + Depth(c, s + 2, p) = 0
      BY <1>4, <3>1, <3>3
    <3>5. QED
      BY <1>1, <3>1, <3>3, <3>4 DEF Closes
  <2>2. ASSUME NEW p \in Closes(c, s + 2) PROVE p \in Closings(c, s)
    <3>1. p \in Nat /\ s + 2 <= p /\ p <= Len(c) /\ 1 + Depth(c, s + 2, p) = 0
      BY <1>1 DEF Closes
    <3>2. Depth(c, s, p) = 0
      BY <1>4, <3>1
    <3>3. QED
      BY <1>1, <3>1, <3>2 DEF Closings
  <2>3. QED
    BY <2>1, <2>2
<1>6. s + 2 \in 1 .. Len(c) + 1
  BY <1>1
<1>7. QED
  BY <1>5, <1>6, LoopEndIs

\* Whatever follows a "for", the scan ends behind it, or nowhere.
LEMMA LoopEndLater ==
  ASSUME NEW c \in Texts, NEW n \in 1 .. Len(c) + 1
  PROVE  LoopEnd(c, n) = 0 \/ LoopEnd(c, n) \in n .. Len(c)
<1>1. Closes(c, n) \subseteq n .. Len(c) /\ n .. Len(c) \subseteq Nat
  BY DEF Closes, Texts
<1>2. Closes(c, n) # {} => Min(Closes(c, n)) \in Closes(c, n)
  BY <1>1, MinIsLeast
<1>3. QED
  BY <1>1, <1>2, LoopEndIs

-----------------------------------------------------------------------------
(* The loops from a place on.                                              *)

\* They depend on the loops from later places on, and on nothing else.
LEMMA LoopsFromLater ==
  ASSUME NEW c \in Texts, NEW f, NEW g, NEW p \in 1 .. Len(c) + 1,
         \A q \in p + 1 .. Len(c) + 1 : f[q] = g[q]
  PROVE  LoopsFrom(f, c, p) = LoopsFrom(g, c, p)
<1> DEFINE opens == {j \in p .. Len(c) : c[j] = "for"}
           s == Min(opens)
           e == LoopEnd(c, s + 2)
<1>1. Len(c) \in Nat /\ p \in Nat
  BY DEF Texts
<1>2. CASE opens = {}
  BY <1>2 DEF LoopsFrom
<1>3. CASE opens # {} /\ s < Len(c)
  <2>1. s \in opens
    BY <1>1, <1>3, MinIsLeast
  <2>2. s \in Nat /\ p <= s /\ s + 2 \in 1 .. Len(c) + 1
    BY <1>1, <1>3, <2>1
  <2>3. e = 0 \/ e \in s + 2 .. Len(c)
    BY <2>2, LoopEndLater
  <2> HIDE DEF s, e
  <2>4. e = 0 \/ e + 1 \in p + 1 .. Len(c) + 1
    BY <1>1, <2>2, <2>3
  <2>5. e = 0 \/ f[e + 1] = g[e + 1]
    BY <2>4
  <2>6. QED
    BY <2>5 DEF LoopsFrom, s, e
<1>4. CASE opens # {} /\ ~(s < Len(c))
  <2>1. s \in opens
    BY <1>1, <1>4, MinIsLeast
  <2> HIDE DEF s
  <2>2. s = Len(c)
    BY <1>1, <1>4, <2>1
  <2>3. QED
    BY <1>4, <2>2 DEF LoopsFrom, s
<1>5. QED
  BY <1>2, <1>3, <1>4

LoopsOf(f, c, p) == f = [q \in p .. Len(c) + 1 |-> LoopsFrom(f, c, q)]

LEMMA LoopsExist ==
  ASSUME NEW c \in Texts
  PROVE  \E f : LoopsOf(f, c, 1)
<1> DEFINE S == {k \in Nat : k <= Len(c) => \E f : LoopsOf(f, c, Len(c) + 1 - k)}
<1>1. Len(c) \in Nat
  BY DEF Texts
<1>2. 0 \in S
  <2> DEFINE L == Len(c) + 1
             f0 == [q \in {L} |-> LoopsFrom(<<>>, c, L)]
  <2>1. LoopsFrom(f0, c, L) = LoopsFrom(<<>>, c, L)
    <3>1. L \in 1 .. Len(c) + 1 /\ L + 1 .. Len(c) + 1 = {}
      BY <1>1
    <3> HIDE DEF f0, L
    <3>2. QED
      BY <3>1, LoopsFromLater
  <2>2. f0 = [q \in {L} |-> LoopsFrom(f0, c, q)]
    <3>1. \A q \in {L} : f0[q] = LoopsFrom(f0, c, q)
      BY <2>1
    <3>2. f0 = [q \in {L} |-> f0[q]]
      OBVIOUS
    <3> HIDE DEF f0
    <3>3. QED
      BY <3>1, <3>2
  <2>3. {L} = L .. Len(c) + 1 /\ Len(c) + 1 - 0 = L
    BY <1>1
  <2> HIDE DEF f0, L
  <2>4. QED
    BY <2>2, <2>3 DEF LoopsOf
<1>3. ASSUME NEW k \in Nat, k \in S PROVE k + 1 \in S
  <2> SUFFICES ASSUME k + 1 <= Len(c)
               PROVE  \E f : LoopsOf(f, c, Len(c) + 1 - (k + 1))
    OBVIOUS
  <2> DEFINE p == Len(c) + 1 - (k + 1)
             D == p .. Len(c) + 1
  <2>1. PICK f : LoopsOf(f, c, Len(c) + 1 - k)
    BY <1>1, <1>3
  <2>2. /\ p \in 1 .. Len(c) + 1 /\ Len(c) + 1 - k = p + 1
        /\ D = {p} \cup (p + 1 .. Len(c) + 1) /\ p \notin p + 1 .. Len(c) + 1
        /\ D \subseteq 1 .. Len(c) + 1
        /\ \A q \in D : q + 1 .. Len(c) + 1 \subseteq p + 1 .. Len(c) + 1
    BY <1>1
  <2> HIDE DEF p
  <2>3. \A q \in p + 1 .. Len(c) + 1 : f[q] = LoopsFrom(f, c, q)
    BY <2>1, <2>2 DEF LoopsOf
  <2> HIDE DEF D
  <2> DEFINE g == [q \in D |-> LoopsFrom(f, c, q)]
  <2>4. \A q \in p + 1 .. Len(c) + 1 : f[q] = g[q]
    BY <2>2, <2>3
  <2>5. \A q \in D : g[q] = LoopsFrom(f, c, q)
    OBVIOUS
  <2>6. g = [q \in D |-> g[q]]
    OBVIOUS
  <2> HIDE DEF g
  <2>7. ASSUME NEW q \in D PROVE g[q] = LoopsFrom(g, c, q)
    <3>1. q \in 1 .. Len(c) + 1 /\ \A r \in q + 1 .. Len(c) + 1 : f[r] = g[r]
      BY <2>2, <2>4
    <3>2. LoopsFrom(f, c, q) = LoopsFrom(g, c, q)
      BY <3>1, LoopsFromLater
    <3>3. QED
      BY <2>5, <3>2
  <2>8. g = [q \in D |-> LoopsFrom(g, c, q)]
    BY <2>6, <2>7
  <2>9. LoopsOf(g, c, p)
    BY <2>8 DEF LoopsOf, D
  <2>10. QED
    BY <2>9 DEF p
<1>4. Len(c) \in S
  <2> HIDE DEF S
  <2>1. QED
    BY <1>1, <1>2, <1>3, Induct
<1>5. Len(c) + 1 - Len(c) = 1
  BY <1>1
<1>6. QED
  BY <1>1, <1>4, <1>5

\* Found(c)[p]: what findTopLevelLoops would find from place p on.
Found(c) == CHOOSE f : f = [q \in 1 .. Len(c) + 1 |-> LoopsFrom(f, c, q)]

LEMMA FoundIs ==
  ASSUME NEW c \in Texts
  PROVE  /\ FindTopLevelLoops(c) = Found(c)[1]
         /\ \A p \in 1 .. Len(c) + 1 : Found(c)[p] = LoopsFrom(Found(c), c, p)
<1>1. LoopsOf(Found(c), c, 1)
  BY LoopsExist DEF LoopsOf, Found
<1>2. FindTopLevelLoops(c) = Found(c)[1]
  BY DEF FindTopLevelLoops, Found
<1>3. QED
  BY <1>1, <1>2 DEF LoopsOf

-----------------------------------------------------------------------------
(* What it finds are the loops of the outermost level.                     *)

\* The outermost loops from place p on, and that all before p are closed there.
OpenFrom(c, p) == {s \in Outermost(c) : p <= s}

Clear(c, p) == \A r \in DOMAIN c : r < p /\ c[r] = "for" => \E x \in Closings(c, r) : x < p

Right(c, p, found) ==
  IF \E s \in OpenFrom(c, p) : Closings(c, s) = {} THEN found = Failed
  ELSE /\ found \in Seq(LoopBlock)
       /\ Len(found) = Cardinality(OpenFrom(c, p))
       /\ \A n \in DOMAIN found :
            /\ found[n].start \in OpenFrom(c, p)
            /\ found[n].end = Min(Closings(c, found[n].start))
            /\ n > 1 => found[n - 1].end < found[n].start

\* s is the first "for" from place p on.
FirstFor(c, p, s) ==
  /\ s \in DOMAIN c /\ p <= s /\ c[s] = "for"
  /\ \A j \in DOMAIN c : p <= j /\ c[j] = "for" => s <= j

LEMMA FirstIsOutermost ==
  ASSUME NEW c \in Texts, NEW p \in 1 .. Len(c) + 1, Clear(c, p), NEW s, FirstFor(c, p, s)
  PROVE  s \in OpenFrom(c, p)
<1>1. DOMAIN c = 1 .. Len(c) /\ Len(c) \in Nat /\ s \in DOMAIN c /\ p <= s /\ c[s] = "for"
  BY DEF Texts, FirstFor
<1>2. ASSUME NEW r \in Around(c, s) PROVE FALSE
  <2>1. r \in DOMAIN c /\ r < s /\ c[r] = "for" /\ \A e \in Closings(c, r) : s < e
    BY <1>1 DEF Around
  <2>2. r < p
    BY <1>1, <2>1 DEF FirstFor
  <2>3. PICK x \in Closings(c, r) : x < p
    BY <2>1, <2>2 DEF Clear
  <2>4. s < x /\ x \in Int
    BY <1>1, <2>1, <2>3 DEF Closings
  <2>5. QED
    BY <1>1, <2>3, <2>4
<1>3. QED
  BY <1>1, <1>2 DEF OpenFrom, Outermost

\* Behind its end all loops are closed again.
LEMMA ClearAfter ==
  ASSUME NEW c \in Texts, NEW p \in 1 .. Len(c) + 1, Clear(c, p), NEW s, FirstFor(c, p, s),
         Closings(c, s) # {}
  PROVE  LET e == Min(Closings(c, s)) IN
         /\ e + 1 \in p + 1 .. Len(c) + 1
         /\ Clear(c, e + 1)
         /\ OpenFrom(c, p) = {s} \cup OpenFrom(c, e + 1)
         /\ s \notin OpenFrom(c, e + 1)
<1> DEFINE e == Min(Closings(c, s))
<1>1. /\ DOMAIN c = 1 .. Len(c) /\ Len(c) \in Nat /\ s \in DOMAIN c /\ p <= s
      /\ c[s] = "for"
  BY DEF Texts, FirstFor
<1>2. /\ e \in Closings(c, s) /\ \A x \in Closings(c, s) : e <= x
      /\ e \in DOMAIN c /\ s < e /\ c[e] = "end"
      /\ \A x \in s .. e - 1 : Depth(c, s, x) > 0
  BY <1>1, FirstClosing
<1> HIDE DEF e
<1>3. e \in Nat /\ e + 1 \in p + 1 .. Len(c) + 1 /\ Depth(c, s, e) = 0
  BY <1>1, <1>2 DEF Closings
<1>4. ASSUME NEW r \in DOMAIN c, r < e + 1, c[r] = "for"
      PROVE  \E x \in Closings(c, r) : x < e + 1
  <2>1. CASE r < p
    <3>1. PICK x \in Closings(c, r) : x < p
      BY <1>4, <2>1 DEF Clear
    <3>2. x \in Int
      BY <1>1, <3>1 DEF Closings
    <3>3. QED
      BY <1>1, <1>3, <3>1, <3>2
  <2>2. CASE r = s
    BY <1>2, <1>3, <2>2
  <2>3. CASE p <= r /\ r # s
    <3>1. s < r
      BY <1>1, <1>4, <2>3 DEF FirstFor
    <3>2. r < e /\ r \in Int /\ r - 1 \in s .. e - 1 /\ r - 1 \in Int /\ r - 1 + 1 = r
      BY <1>1, <1>2, <1>3, <1>4, <3>1
    <3>3. Depth(c, s, r - 1) > 0 /\ Depth(c, s, r - 1) \in Int /\ Depth(c, r, e) \in Int
      BY <1>1, <1>2, <1>3, <3>2, DepthInt
    <3>4. Depth(c, s, e) = Depth(c, s, r - 1) + Depth(c, r - 1 + 1, e)
      BY <1>1, <1>3, <3>2, DepthSplit
    <3>5. Depth(c, r, e) <= 0
      BY <1>3, <3>2, <3>3, <3>4
    <3>6. PICK x \in Closings(c, r) : x <= e
      BY <1>2, <1>3, <1>4, <3>2, <3>5, Descends
    <3>7. x \in Int
      BY <1>1, <3>6 DEF Closings
    <3>8. QED
      BY <1>3, <3>6, <3>7
  <2>4. QED
    BY <1>1, <2>1, <2>2, <2>3
<1>5. OpenFrom(c, p) = {s} \cup OpenFrom(c, e + 1)
  <2>1. s \in OpenFrom(c, p)
    BY FirstIsOutermost
  <2>2. OpenFrom(c, e + 1) \subseteq OpenFrom(c, p)
    BY <1>1, <1>3 DEF OpenFrom, Outermost
  <2>3. ASSUME NEW t \in OpenFrom(c, p), t # s PROVE t \in OpenFrom(c, e + 1)
    <3>1. t \in Outermost(c) /\ t \in DOMAIN c /\ c[t] = "for" /\ p <= t /\ Around(c, t) = {}
      BY DEF OpenFrom, Outermost
    <3>2. s < t /\ t \in Nat
      BY <1>1, <2>3, <3>1 DEF FirstFor
    <3>3. ASSUME t < e + 1 PROVE FALSE
      <4>1. t < e
        BY <1>2, <1>3, <3>1, <3>2, <3>3
      <4>2. \A x \in Closings(c, s) : t < x
        BY <1>1, <1>2, <1>3, <3>2, <4>1 DEF Closings
      <4>3. s \in Around(c, t)
        BY <1>1, <3>2, <4>2 DEF Around
      <4>4. QED
        BY <3>1, <4>3
    <3>4. QED
      BY <1>3, <3>1, <3>2, <3>3 DEF OpenFrom
  <2>4. QED
    BY <2>1, <2>2, <2>3
<1>6. s \notin OpenFrom(c, e + 1)
  BY <1>1, <1>2, <1>3 DEF OpenFrom
<1>7. QED
  BY <1>3, <1>4, <1>5, <1>6 DEF Clear, e

LEMMA FirstForIs ==
  ASSUME NEW c \in Texts, NEW p \in 1 .. Len(c) + 1
  PROVE  LET opens == {j \in p .. Len(c) : c[j] = "for"} IN
         /\ opens # {} => FirstFor(c, p, Min(opens))
         /\ opens = {} => OpenFrom(c, p) = {}
<1> DEFINE opens == {j \in p .. Len(c) : c[j] = "for"}
<1>1. DOMAIN c = 1 .. Len(c) /\ Len(c) \in Nat /\ opens \subseteq Nat /\ p \in Nat \ {0}
  BY DEF Texts
<1>2. ASSUME opens # {} PROVE FirstFor(c, p, Min(opens))
  <2>1. Min(opens) \in opens /\ \A j \in opens : Min(opens) <= j
    BY <1>1, <1>2, MinIsLeast
  <2>2. \A j \in DOMAIN c : p <= j /\ c[j] = "for" => j \in opens
    BY <1>1
  <2>3. \A j \in opens : j \in DOMAIN c /\ p <= j /\ c[j] = "for"
    BY <1>1
  <2> HIDE DEF opens
  <2>4. QED
    BY <2>1, <2>2, <2>3 DEF FirstFor
<1>3. ASSUME opens = {} PROVE OpenFrom(c, p) = {}
  BY <1>1, <1>3 DEF OpenFrom, Outermost
<1>4. QED
  BY <1>2, <1>3

\* One loop, put before the loops of the rest.
LEMMA OneMore ==
  ASSUME NEW c \in Texts, NEW p \in 1 .. Len(c) + 1, Clear(c, p), NEW s, FirstFor(c, p, s),
         Named(c), Closings(c, s) # {}, NEW rest,
         Right(c, Min(Closings(c, s)) + 1, rest)
  PROVE  Right(c, p, IF rest = Failed THEN Failed
                     ELSE <<[tag |-> c[s + 1], start |-> s,
                             end |-> Min(Closings(c, s))]>> \o rest)
<1> DEFINE e == Min(Closings(c, s))
           l == [tag |-> c[s + 1], start |-> s, end |-> e]
<1>1. /\ e + 1 \in p + 1 .. Len(c) + 1
      /\ OpenFrom(c, p) = {s} \cup OpenFrom(c, e + 1)
      /\ s \notin OpenFrom(c, e + 1)
  BY ClearAfter
<1>2. /\ s \in DOMAIN c /\ DOMAIN c = 1 .. Len(c) /\ Len(c) \in Nat
      /\ s + 1 \in DOMAIN c /\ c[s + 1] \in Tokens /\ s \in Nat
  BY DEF FirstFor, Named, Texts
<1>3. e \in Closings(c, s) /\ e \in Nat
  BY <1>2, FirstClosing DEF FirstFor
<1> HIDE DEF e
<1>4. Right(c, e + 1, rest)
  BY DEF e
<1>5. CASE \E t \in OpenFrom(c, e + 1) : Closings(c, t) = {}
  <2>1. rest = Failed
    BY <1>4, <1>5 DEF Right
  <2>2. \E t \in OpenFrom(c, p) : Closings(c, t) = {}
    BY <1>1, <1>5
  <2>3. QED
    BY <2>1, <2>2 DEF Right
<1>6. CASE ~\E t \in OpenFrom(c, e + 1) : Closings(c, t) = {}
  <2>1. /\ rest \in Seq(LoopBlock) /\ Len(rest) = Cardinality(OpenFrom(c, e + 1))
        /\ \A n \in DOMAIN rest :
             /\ rest[n].start \in OpenFrom(c, e + 1)
             /\ rest[n].end = Min(Closings(c, rest[n].start))
             /\ n > 1 => rest[n - 1].end < rest[n].start
    BY <1>4, <1>6 DEF Right
  <2>2. rest # Failed
    BY <2>1, FailedAssumption
  <2>3. l \in LoopBlock
    BY <1>2, <1>3 DEF LoopBlock
  <2>4. l.start = s /\ l.end = e
    OBVIOUS
  <2> HIDE DEF l
  <2> DEFINE found == <<l>> \o rest
  <2>5. /\ found \in Seq(LoopBlock) /\ Len(found) = 1 + Len(rest) /\ found[1] = l
        /\ \A n \in DOMAIN found : n # 1 => n - 1 \in DOMAIN rest /\ found[n] = rest[n - 1]
        /\ Len(rest) \in Nat /\ DOMAIN found \subseteq Nat \ {0}
        /\ DOMAIN rest = 1 .. Len(rest)
    BY <2>1, <2>3
  <2> HIDE DEF found
  <2>6. Cardinality(OpenFrom(c, p)) = 1 + Cardinality(OpenFrom(c, e + 1))
    <3>1. IsFiniteSet(1 .. Len(c))
      BY <1>2, FS_Interval
    <3>2. OpenFrom(c, e + 1) \subseteq 1 .. Len(c)
      BY <1>2 DEF OpenFrom, Outermost
    <3>3. IsFiniteSet(OpenFrom(c, e + 1))
      BY <3>1, <3>2, FS_Subset
    <3>4. Cardinality(OpenFrom(c, e + 1) \cup {s}) = Cardinality(OpenFrom(c, e + 1)) + 1
      BY <1>1, <3>3, FS_AddElement
    <3>5. Cardinality(OpenFrom(c, e + 1)) \in Nat
      BY <3>3, FS_CardinalityType
    <3>6. OpenFrom(c, p) = OpenFrom(c, e + 1) \cup {s}
      BY <1>1
    <3>7. QED
      BY <3>4, <3>5, <3>6
  <2>7. ASSUME NEW n \in DOMAIN found
        PROVE  /\ found[n].start \in OpenFrom(c, p)
               /\ found[n].end = Min(Closings(c, found[n].start))
               /\ n > 1 => found[n - 1].end < found[n].start
    <3>1. CASE n = 1
      <4>1. found[n].start = s /\ found[n].end = e
        BY <2>4, <2>5, <3>1
      <4>2. QED
        BY <1>1, <3>1, <4>1 DEF e
    <3>2. CASE n = 2
      <4>1. 1 \in DOMAIN rest /\ found[n] = rest[1]
        BY <2>5, <3>2
      <4>2. /\ rest[1].start \in OpenFrom(c, e + 1)
            /\ rest[1].end = Min(Closings(c, rest[1].start))
        BY <2>1, <4>1
      <4>3. rest[1].start \in Nat /\ e < rest[1].start
        BY <1>2, <1>3, <4>2 DEF OpenFrom, Outermost
      <4>4. found[n - 1].end = e
        BY <2>4, <2>5, <3>2
      <4>5. QED
        BY <1>1, <4>1, <4>2, <4>3, <4>4
    <3>3. CASE n # 1 /\ n # 2
      <4>1. /\ n - 1 \in DOMAIN rest /\ found[n] = rest[n - 1] /\ n - 1 > 1
            /\ n - 1 \in DOMAIN found /\ n - 1 # 1
        BY <2>5, <3>3
      <4>2. found[n - 1] = rest[n - 1 - 1]
        BY <2>5, <4>1
      <4>3. QED
        BY <1>1, <2>1, <4>1, <4>2
    <3>4. QED
      BY <3>1, <3>2, <3>3
  <2>8. ~\E t \in OpenFrom(c, p) : Closings(c, t) = {}
    BY <1>1, <1>3, <1>6
  <2>9. Right(c, p, found)
    BY <2>1, <2>5, <2>6, <2>7, <2>8 DEF Right
  <2>10. QED
    BY <2>2, <2>9 DEF found, l, e
<1>7. QED
  BY <1>5, <1>6

LEMMA StepRight ==
  ASSUME NEW c \in Texts, Named(c), NEW from, NEW p \in 1 .. Len(c) + 1, Clear(c, p),
         \A q \in p + 1 .. Len(c) + 1 : Clear(c, q) => Right(c, q, from[q])
  PROVE  Right(c, p, LoopsFrom(from, c, p))
<1> DEFINE opens == {j \in p .. Len(c) : c[j] = "for"}
           s == Min(opens)
<1>1. CASE opens = {}
  <2>1. LoopsFrom(from, c, p) = <<>>
    BY <1>1 DEF LoopsFrom
  <2>2. OpenFrom(c, p) = {}
    BY <1>1, FirstForIs
  <2>3. Cardinality({}) = 0 /\ <<>> \in Seq(LoopBlock) /\ Len(<<>>) = 0 /\ DOMAIN <<>> = {}
    BY FS_EmptySet
  <2>4. QED
    BY <2>1, <2>2, <2>3 DEF Right
<1>2. CASE opens # {}
  <2>1. FirstFor(c, p, s)
    BY <1>2, FirstForIs
  <2>2. LoopsFrom(from, c, p) =
          IF s = Len(c) \/ c[s + 1] = "text" THEN Failed
          ELSE LET e == LoopEnd(c, s + 2) IN
               IF e = 0 \/ from[e + 1] = Failed THEN Failed
               ELSE <<[tag |-> c[s + 1], start |-> s, end |-> e]>> \o from[e + 1]
    BY <1>2 DEF LoopsFrom
  <2> HIDE DEF opens, s
  <2>3. /\ s \in DOMAIN c /\ c[s] = "for" /\ s < Len(c) /\ c[s + 1] \in {"items", "subs"}
        /\ s \in Nat /\ Len(c) \in Nat
    BY <2>1 DEF FirstFor, Named, Texts
  <2>4. LoopEnd(c, s + 2) = IF Closings(c, s) = {} THEN 0 ELSE Min(Closings(c, s))
    BY <2>3, NamedLoopEnd
  <2>5. CASE Closings(c, s) = {}
    <3>1. LoopsFrom(from, c, p) = Failed
      BY <2>2, <2>4, <2>5
    <3>2. s \in OpenFrom(c, p)
      BY <2>1, FirstIsOutermost
    <3>3. QED
      BY <2>5, <3>1, <3>2 DEF Right
  <2>6. CASE Closings(c, s) # {}
    <3> DEFINE e == Min(Closings(c, s))
    <3>1. e + 1 \in p + 1 .. Len(c) + 1 /\ Clear(c, e + 1)
      BY <2>1, <2>6, ClearAfter
    <3>2. Right(c, e + 1, from[e + 1])
      BY <3>1
    <3>3. e # 0
      BY <2>3, <2>6, FirstClosing
    <3>4. LoopsFrom(from, c, p) =
            IF from[e + 1] = Failed THEN Failed
            ELSE <<[tag |-> c[s + 1], start |-> s, end |-> e]>> \o from[e + 1]
      <4>1. LoopEnd(c, s + 2) = e
        BY <2>4, <2>6
      <4>2. ~(s = Len(c) \/ c[s + 1] = "text")
        BY <2>3
      <4> HIDE DEF e
      <4>3. QED
        BY <2>2, <3>3, <4>1, <4>2
    <3>5. QED
      BY <2>1, <2>6, <3>2, <3>4, OneMore
  <2>7. QED
    BY <2>5, <2>6
<1>3. QED
  BY <1>1, <1>2

\* findTopLevelLoops finds the loops of the outermost level of any text, each with
\* the end that closes it, and fails only if one of them has none
\* (smart_nested_process.go:141).
THEOREM LoopsFound == \A c \in Texts : Matches(c)
<1> SUFFICES ASSUME NEW c \in Texts, Named(c) PROVE Matches(c)
  BY DEF Matches
<1> DEFINE L == Len(c) + 1
           from == Found(c)
           S == {p \in 1 .. L : Clear(c, p) => Right(c, p, from[p])}
<1>1. L \in Nat /\ 1 \in 1 .. L /\ \A p \in 1 .. L : from[p] = LoopsFrom(from, c, p)
  BY FoundIs DEF Texts
<1>2. ASSUME NEW p \in 1 .. L, \A q \in p + 1 .. L : q \in S PROVE p \in S
  <2> SUFFICES ASSUME Clear(c, p) PROVE Right(c, p, from[p])
    OBVIOUS
  <2> HIDE DEF from
  <2>1. \A q \in p + 1 .. L : Clear(c, q) => Right(c, q, from[q])
    BY <1>2
  <2>2. Right(c, p, LoopsFrom(from, c, p))
    BY <2>1, StepRight
  <2>3. QED
    BY <1>1, <2>2
<1>3. 1 .. L \subseteq S
  <2> HIDE DEF S, L
  <2>1. QED
    BY <1>1, <1>2, Down
<1>4. Clear(c, 1) /\ OpenFrom(c, 1) = Outermost(c)
  BY DEF Clear, OpenFrom, Outermost, Texts
<1> HIDE DEF from
<1>5. Right(c, 1, from[1])
  BY <1>1, <1>3, <1>4
<1>6. FindTopLevelLoops(c) = from[1]
  BY FoundIs DEF from
<1>7. QED
  BY <1>4, <1>5, <1>6, FailedAssumption DEF Right, Matches

-----------------------------------------------------------------------------
\* What findTopLevelLoops returns, whatever the text: loops that have a name and an
\* end, of which the first is that of the first "for".
Scan(c, p, found) ==
  /\ found \in Seq(LoopBlock) \cup {Failed}
  /\ found = <<>> => \A j \in DOMAIN c : p <= j => c[j] # "for"
  /\ found \notin {Failed, <<>>} =>
       /\ FirstFor(c, p, found[1].start)
       /\ found[1].end \in found[1].start + 2 .. Len(c)
       /\ found[1].tag = c[found[1].start + 1]

LEMMA StepScan ==
  ASSUME NEW c \in Texts, NEW from, NEW p \in 1 .. Len(c) + 1,
         \A q \in p + 1 .. Len(c) + 1 : Scan(c, q, from[q])
  PROVE  Scan(c, p, LoopsFrom(from, c, p))
<1> DEFINE opens == {j \in p .. Len(c) : c[j] = "for"}
           s == Min(opens)
           e == LoopEnd(c, s + 2)
<1>1. DOMAIN c = 1 .. Len(c) /\ Len(c) \in Nat /\ p \in Nat \ {0}
  BY DEF Texts
<1>2. CASE opens = {}
  <2>1. LoopsFrom(from, c, p) = <<>>
    BY <1>2 DEF LoopsFrom
  <2>2. \A j \in DOMAIN c : p <= j => c[j] # "for"
    BY <1>1, <1>2
  <2>3. <<>> \in Seq(LoopBlock)
    OBVIOUS
  <2>4. QED
    BY <2>1, <2>2, <2>3 DEF Scan
<1>3. CASE opens # {}
  <2>1. FirstFor(c, p, s)
    BY <1>3, FirstForIs
  <2>2. LoopsFrom(from, c, p) =
          IF s = Len(c) \/ c[s + 1] = "text" THEN Failed
          ELSE IF e = 0 \/ from[e + 1] = Failed THEN Failed
               ELSE <<[tag |-> c[s + 1], start |-> s, end |-> e]>> \o from[e + 1]
    BY <1>3 DEF LoopsFrom
  <2> HIDE DEF opens, s
  <2>3. s \in 1 .. Len(c) /\ p <= s
    BY <1>1, <2>1 DEF FirstFor
  <2>4. CASE s = Len(c) \/ c[s + 1] = "text" \/ e = 0 \/ from[e + 1] = Failed
    <3>1. LoopsFrom(from, c, p) = Failed
      BY <2>2, <2>4
    <3>2. Failed # <<>>
      <4>1. <<>> \in Seq(LoopBlock)
        OBVIOUS
      <4>2. QED
        BY <4>1, FailedAssumption
    <3>3. QED
      BY <3>1, <3>2 DEF Scan
  <2>5. CASE ~(s = Len(c) \/ c[s + 1] = "text" \/ e = 0 \/ from[e + 1] = Failed)
    <3>1. s + 2 \in 1 .. Len(c) + 1 /\ s + 1 \in DOMAIN c
      <4>1. s # Len(c)
        BY <2>5
      <4> HIDE DEF e
      <4> DEFINE L == Len(c)
      <4>2. L \in Nat /\ s \in 1 .. L /\ s # L
        BY <1>1, <2>3, <4>1
      <4> HIDE DEF L
      <4>3. s \in Nat /\ s >= 1 /\ s < L
        BY <4>2
      <4>4. QED
        BY <1>1, <4>3 DEF L
    <3>2. e \in s + 2 .. Len(c)
      BY <2>5, <3>1, LoopEndLater
    <3> HIDE DEF e
    <3>3. e + 1 \in p + 1 .. Len(c) + 1 /\ e \in Nat /\ s \in Nat
      BY <1>1, <2>3, <3>2
    <3>4. from[e + 1] \in Seq(LoopBlock)
      BY <2>5, <3>3 DEF Scan
    <3> DEFINE l == [tag |-> c[s + 1], start |-> s, end |-> e]
    <3>5. l \in LoopBlock /\ l.start = s /\ l.end = e /\ l.tag = c[s + 1]
      <4>1. c[s + 1] \in Tokens
        BY <3>1 DEF Texts
      <4>2. QED
        BY <3>3, <4>1 DEF LoopBlock
    <3>6. LoopsFrom(from, c, p) = <<l>> \o from[e + 1]
      BY <2>2, <2>5
    <3> HIDE DEF l
    <3>7. /\ LoopsFrom(from, c, p) \in Seq(LoopBlock)
          /\ LoopsFrom(from, c, p) # <<>> /\ LoopsFrom(from, c, p)[1] = l
      BY <3>4, <3>5, <3>6
    <3>8. QED
      BY <2>1, <3>2, <3>5, <3>7 DEF Scan
  <2>6. QED
    BY <2>4, <2>5
<1>4. QED
  BY <1>2, <1>3

LEMMA Scanned ==
  ASSUME NEW c \in Texts
  PROVE  Scan(c, 1, FindTopLevelLoops(c))
<1> DEFINE L == Len(c) + 1
           S == {p \in 1 .. L : Scan(c, p, Found(c)[p])}
<1>1. L \in Nat /\ 1 \in 1 .. L
  BY DEF Texts
<1>2. ASSUME NEW p \in 1 .. L, \A q \in p + 1 .. L : q \in S PROVE p \in S
  <2>1. \A q \in p + 1 .. L : Scan(c, q, Found(c)[q])
    BY <1>2
  <2>2. Scan(c, p, LoopsFrom(Found(c), c, p))
    BY <2>1, StepScan
  <2>3. QED
    BY <2>2, FoundIs
<1>3. 1 .. L \subseteq S
  <2> HIDE DEF S, L
  <2>1. QED
    BY <1>1, <1>2, Down
<1>4. QED
  BY <1>1, <1>3, FoundIs

\* Its body and what follows it are texts, and shorter.
LEMMA Shorter ==
  ASSUME NEW c \in Texts, FindTopLevelLoops(c) \notin {Failed, <<>>}
  PROVE  LET l == FindTopLevelLoops(c)[1] IN
         /\ l \in LoopBlock
         /\ l.start \in DOMAIN c /\ l.end \in l.start + 2 .. Len(c)
         /\ \A T : c \in Seq(T) => /\ Body(c, l) \in Seq(T) /\ After(c, l) \in Seq(T)
                                   /\ SubSeq(c, 1, l.start - 1) \in Seq(T)
         /\ Len(Body(c, l)) < Len(c) /\ Len(After(c, l)) < Len(c)
<1> DEFINE l == FindTopLevelLoops(c)[1]
<1>1. /\ FindTopLevelLoops(c) \in Seq(LoopBlock)
      /\ l.start \in DOMAIN c /\ l.end \in l.start + 2 .. Len(c)
  BY Scanned DEF Scan, FirstFor
<1>2. l \in LoopBlock
  BY <1>1
<1> HIDE DEF l
<1>3. Len(c) \in Nat /\ DOMAIN c = 1 .. Len(c) /\ l.start \in Nat /\ l.end \in Nat
  BY <1>1, <1>2 DEF Texts, LoopBlock
<1>4. /\ l.start + 2 \in 1 .. Len(c) + 1 /\ l.end - 1 \in Nat /\ l.end - 1 < Len(c)
      /\ l.start + 2 <= l.end /\ l.end <= Len(c) /\ l.end > 0 /\ l.start >= 1
  BY <1>1, <1>3
<1>5. ASSUME NEW T, c \in Seq(T), NEW i \in 1 .. Len(c) + 1, NEW j \in Nat, j <= Len(c)
      PROVE  SubSeq(c, i, j) \in Seq(T)
             /\ Len(SubSeq(c, i, j)) = IF i <= j THEN j - i + 1 ELSE 0
  BY <1>3, <1>5
<1>6. c \in Seq(Tokens)
  BY DEF Texts
<1>7. \A T : c \in Seq(T) => /\ Body(c, l) \in Seq(T) /\ After(c, l) \in Seq(T)
                             /\ SubSeq(c, 1, l.start - 1) \in Seq(T)
  <2> TAKE T
  <2> HAVE c \in Seq(T)
  <2>1. /\ l.end + 1 \in 1 .. Len(c) + 1 /\ 1 \in 1 .. Len(c) + 1 /\ l.start - 1 \in Nat
        /\ l.start - 1 <= Len(c) /\ l.end - 1 <= Len(c) /\ Len(c) <= Len(c)
    BY <1>3, <1>4
  <2>2. QED
    BY <1>3, <1>4, <1>5, <2>1 DEF Body, After
<1>8. Len(Body(c, l)) < Len(c) /\ Len(After(c, l)) < Len(c)
  <2>1. Len(SubSeq(c, l.start + 2, l.end - 1)) =
          IF l.start + 2 <= l.end - 1 THEN l.end - 1 - (l.start + 2) + 1 ELSE 0
    BY <1>3, <1>4, <1>5, <1>6
  <2>2. Len(SubSeq(c, l.end + 1, Len(c))) =
          IF l.end + 1 <= Len(c) THEN Len(c) - (l.end + 1) + 1 ELSE 0
    BY <1>3, <1>4, <1>5, <1>6
  <2>3. \A L, s, e \in Nat : 1 <= s /\ s + 2 <= e /\ e <= L =>
          /\ (IF s + 2 <= e - 1 THEN e - 1 - (s + 2) + 1 ELSE 0) < L
          /\ (IF e + 1 <= L THEN L - (e + 1) + 1 ELSE 0) < L
    OBVIOUS
  <2>4. 1 <= l.start
    BY <1>3, <1>4
  <2>5. /\ Len(SubSeq(c, l.start + 2, l.end - 1)) < Len(c)
        /\ Len(SubSeq(c, l.end + 1, Len(c))) < Len(c)
    BY <1>3, <1>4, <2>1, <2>2, <2>3, <2>4, Zenon
  <2>6. QED
    BY <2>5 DEF Body, After
<1>9. QED
  BY <1>1, <1>2, <1>7, <1>8 DEF l

-----------------------------------------------------------------------------
(* The expansion of a text is that of shorter texts.                       *)

Pairs == Texts \X Containers

LEMMA PairIs ==
  /\ \A c \in Texts, k \in Containers : <<c, k>> \in Pairs
  /\ \A t \in Pairs : t = <<t[1], t[2]>> /\ t[1] \in Texts /\ t[2] \in Containers
BY DEF Pairs

\* The containers the engine goes on with.
LEMMA ContainersOf ==
  /\ \A x \in Items : Item(x) \in Containers
  /\ \A list \in Seq(Items) \cup {NoList} : Root(list) \in Containers
  /\ \A k \in Containers : \A tag : Resolve(k, tag) \in Seq(Items) \cup {NoList}
<1>1. \A x \in Items : Item(x) \in Containers
  BY DEF Item, Containers
<1>2. \A list \in Seq(Items) \cup {NoList} : Root(list) \in Containers
  BY DEF Root, Containers
<1>3. ASSUME NEW k \in Containers, NEW tag
      PROVE  Resolve(k, tag) \in Seq(Items) \cup {NoList}
  <2>1. CASE k \in [list : Seq(Items) \cup {NoList}, root : {TRUE}]
    <3>1. k.root /\ k.list \in Seq(Items) \cup {NoList}
      BY <2>1
    <3>2. QED
      BY <3>1 DEF Resolve
  <2>2. CASE k \in [item : Items, root : {FALSE}]
    <3>1. ~k.root /\ k.item \in Items
      BY <2>2
    <3>2. k.item \in Objects => SubLists[k.item] \in Seq(Items) \cup {NoList}
      BY ItemsAssumption
    <3>3. QED
      BY <3>1, <3>2 DEF Resolve
  <2>3. QED
    BY <2>1, <2>2 DEF Containers
<1>4. QED
  BY <1>1, <1>2, <1>3

LEMMA LoopLater ==
  ASSUME NEW body, NEW list \in Seq(Items) \cup {NoList}, NEW f, NEW g,
         \A x \in Items : f[<<body, Item(x)>>] = g[<<body, Item(x)>>]
  PROVE  Loop(f, body, list) = Loop(g, body, list)
<1>1. CASE list = NoList
  BY <1>1 DEF Loop
<1>2. CASE list # NoList
  <2>1. \A i \in DOMAIN list : list[i] \in Items
    BY <1>2
  <2>2. \A i \in DOMAIN list : BlockBody(f, body, list[i], i) = BlockBody(g, body, list[i], i)
    BY <2>1 DEF BlockBody
  <2> DEFINE kept == {i \in DOMAIN list : list[i] # Null}
             e(h) == [i \in DOMAIN list |->
                        IF i \in kept THEN BlockBody(h, body, list[i], i) ELSE <<>>]
  <2>3. e(f) = e(g)
    BY <2>2
  <2>4. \A h : Loop(h, body, list) =
                 IF FindTopLevelLoops(body) = Failed THEN Failed
                 ELSE IF \E i \in kept : e(h)[i] = Failed THEN Failed ELSE FlattenSeq(e(h))
    BY <1>2 DEF Loop
  <2> HIDE DEF e, kept
  <2>5. QED
    BY <2>3, <2>4
<1>3. QED
  BY <1>1, <1>2

LEMMA ExpansionLater ==
  ASSUME NEW c \in Texts, NEW k \in Containers, NEW f, NEW g,
         \A t \in Pairs : Len(t[1]) < Len(c) => f[t] = g[t]
  PROVE  Expansion(f, c, k) = Expansion(g, c, k)
<1> DEFINE loops == FindTopLevelLoops(c)
           l == loops[1]
<1>1. CASE loops = Failed \/ loops = <<>>
  BY <1>1 DEF Expansion
<1>2. CASE loops \notin {Failed, <<>>}
  <2>1. /\ Body(c, l) \in Texts /\ Len(Body(c, l)) < Len(c)
        /\ After(c, l) \in Texts /\ Len(After(c, l)) < Len(c)
    BY <1>2, Shorter DEF Texts
  <2>2. Resolve(k, l.tag) \in Seq(Items) \cup {NoList}
    BY ContainersOf
  <2> HIDE DEF l
  <2>3. ASSUME NEW d \in Texts, Len(d) < Len(c), NEW k2 \in Containers
        PROVE  f[<<d, k2>>] = g[<<d, k2>>]
    <3>1. <<d, k2>> \in Pairs /\ <<d, k2>>[1] = d
      BY PairIs
    <3>2. QED
      BY <2>3, <3>1
  <2>4. \A x \in Items : f[<<Body(c, l), Item(x)>>] = g[<<Body(c, l), Item(x)>>]
    BY <2>1, <2>3, ContainersOf
  <2>5. Loop(f, Body(c, l), Resolve(k, l.tag)) = Loop(g, Body(c, l), Resolve(k, l.tag))
    BY <2>2, <2>4, LoopLater
  <2>6. f[<<After(c, l), k>>] = g[<<After(c, l), k>>]
    BY <2>1, <2>3
  <2>7. \A h : Expansion(h, c, k) =
                 IF Loop(h, Body(c, l), Resolve(k, l.tag)) = Failed
                    \/ h[<<After(c, l), k>>] = Failed
                 THEN Failed
                 ELSE Literal(SubSeq(c, 1, l.start - 1))
                        \o Loop(h, Body(c, l), Resolve(k, l.tag)) \o h[<<After(c, l), k>>]
    BY <1>2 DEF Expansion, l
  <2>8. QED
    BY <2>5, <2>6, <2>7
<1>3. QED
  BY <1>1, <1>2

LEMMA PairLater ==
  ASSUME NEW t \in Pairs, NEW f, NEW g,
         \A u \in Pairs : Len(u[1]) < Len(t[1]) => f[u] = g[u]
  PROVE  Expansion(f, t[1], t[2]) = Expansion(g, t[1], t[2])
<1> DEFINE c == t[1]
           k == t[2]
<1>1. c \in Texts /\ k \in Containers
  BY PairIs
<1>2. \A u \in Pairs : Len(u[1]) < Len(c) => f[u] = g[u]
  OBVIOUS
<1> HIDE DEF c, k
<1>3. Expansion(f, c, k) = Expansion(g, c, k)
  BY <1>1, <1>2, ExpansionLater
<1>4. QED
  BY <1>3 DEF c, k

-----------------------------------------------------------------------------
(* The expansion exists: it is built by the length of the text.            *)

UpTo(n) == {t \in Pairs : Len(t[1]) <= n}

ExpandsTo(f, n) == f = [t \in UpTo(n) |-> Expansion(f, t[1], t[2])]

LEMMA StageExists ==
  \A n \in Nat : \E f : ExpandsTo(f, n)
<1> DEFINE S == {n \in Nat : \E f : ExpandsTo(f, n)}
<1>0. \A t \in Pairs : Len(t[1]) \in Nat /\ t[1] \in Texts /\ t[2] \in Containers
  BY PairIs DEF Texts
<1>1. 0 \in S
  <2> DEFINE g == [t \in UpTo(0) |-> Expansion(<<>>, t[1], t[2])]
  <2>1. g = [t \in UpTo(0) |-> g[t]] /\ \A t \in UpTo(0) : g[t] = Expansion(<<>>, t[1], t[2])
    OBVIOUS
  <2> HIDE DEF g
  <2>2. ASSUME NEW t \in UpTo(0) PROVE g[t] = Expansion(g, t[1], t[2])
    <3>1. t \in Pairs /\ Len(t[1]) = 0
      BY <1>0 DEF UpTo
    <3>2. \A u \in Pairs : ~(Len(u[1]) < Len(t[1]))
      BY <1>0, <3>1
    <3>3. Expansion(<<>>, t[1], t[2]) = Expansion(g, t[1], t[2])
      BY <3>1, <3>2, PairLater
    <3>4. QED
      BY <2>1, <3>3
  <2>3. g = [t \in UpTo(0) |-> Expansion(g, t[1], t[2])]
    BY <2>1, <2>2
  <2>4. QED
    BY <2>3 DEF ExpandsTo
<1>2. ASSUME NEW n \in Nat, n \in S PROVE n + 1 \in S
  <2>1. PICK f : ExpandsTo(f, n)
    BY <1>2
  <2> DEFINE g == [t \in UpTo(n + 1) |-> Expansion(f, t[1], t[2])]
  <2>2. /\ g = [t \in UpTo(n + 1) |-> g[t]]
        /\ \A t \in UpTo(n + 1) : g[t] = Expansion(f, t[1], t[2])
    OBVIOUS
  <2> HIDE DEF g
  <2>3. \A t \in UpTo(n) : g[t] = f[t]
    <3>1. UpTo(n) \subseteq UpTo(n + 1)
      BY <1>0 DEF UpTo
    <3>2. \A t \in UpTo(n) : f[t] = Expansion(f, t[1], t[2])
      BY <2>1 DEF ExpandsTo
    <3>3. QED
      BY <2>2, <3>1, <3>2
  <2>4. ASSUME NEW t \in UpTo(n + 1) PROVE g[t] = Expansion(g, t[1], t[2])
    <3>1. t \in Pairs /\ Len(t[1]) <= n + 1
      BY DEF UpTo
    <3>2. \A u \in Pairs : Len(u[1]) < Len(t[1]) => u \in UpTo(n)
      BY <1>0, <3>1 DEF UpTo
    <3>3. \A u \in Pairs : Len(u[1]) < Len(t[1]) => f[u] = g[u]
      BY <2>3, <3>2
    <3>4. Expansion(f, t[1], t[2]) = Expansion(g, t[1], t[2])
      BY <3>1, <3>3, PairLater
    <3>5. QED
      BY <2>2, <3>4
  <2>5. g = [t \in UpTo(n + 1) |-> Expansion(g, t[1], t[2])]
    BY <2>2, <2>4
  <2>6. QED
    BY <2>5 DEF ExpandsTo
<1>3. Nat \subseteq S
  <2> HIDE DEF S
  <2>1. QED
    BY <1>1, <1>2, Induct
<1>4. QED
  BY <1>3

LEMMA StagesAgree ==
  ASSUME NEW n \in Nat, NEW m \in Nat, NEW f, NEW g, ExpandsTo(f, n), ExpandsTo(g, m),
         NEW t \in Pairs, Len(t[1]) <= n, Len(t[1]) <= m
  PROVE  f[t] = g[t]
<1> DEFINE S == {j \in Nat : j <= n /\ j <= m =>
                   \A u \in Pairs : Len(u[1]) = j => f[u] = g[u]}
<1>0. \A u \in Pairs : Len(u[1]) \in Nat /\ u[1] \in Texts /\ u[2] \in Containers
  BY PairIs DEF Texts
<1>1. ASSUME NEW j \in Nat, \A i \in 0 .. j - 1 : i \in S PROVE j \in S
  <2> SUFFICES ASSUME j <= n, j <= m, NEW u \in Pairs, Len(u[1]) = j PROVE f[u] = g[u]
    OBVIOUS
  <2>1. u \in UpTo(n) /\ u \in UpTo(m)
    BY DEF UpTo
  <2>2. f[u] = Expansion(f, u[1], u[2]) /\ g[u] = Expansion(g, u[1], u[2])
    BY <2>1 DEF ExpandsTo
  <2>3. ASSUME NEW v \in Pairs, Len(v[1]) < Len(u[1]) PROVE f[v] = g[v]
    <3>1. Len(v[1]) \in 0 .. j - 1 /\ Len(v[1]) <= n /\ Len(v[1]) <= m
      BY <1>0, <2>3
    <3>2. Len(v[1]) \in S
      BY <1>1, <3>1
    <3>3. QED
      BY <3>1, <3>2
  <2>4. Expansion(f, u[1], u[2]) = Expansion(g, u[1], u[2])
    BY <2>3, PairLater
  <2>5. QED
    BY <2>2, <2>4
<1>2. Nat \subseteq S
  <2> HIDE DEF S
  <2>1. QED
    BY <1>1, Strong
<1>3. Len(t[1]) \in S
  BY <1>0, <1>2
<1>4. QED
  BY <1>3

\* The expansion of a text is what its loops and the expansion of their bodies make it.
LEMMA ExpandIs ==
  ASSUME NEW c \in Texts, NEW k \in Containers
  PROVE  Expand[<<c, k>>] = Expansion(Expand, c, k)
<1> DEFINE Stage(n) == CHOOSE f : ExpandsTo(f, n)
           G == [t \in Pairs |-> Stage(Len(t[1]))[t]]
<1>0. \A t \in Pairs : Len(t[1]) \in Nat /\ t[1] \in Texts /\ t[2] \in Containers
  BY PairIs DEF Texts
<1>1. \A n \in Nat : ExpandsTo(Stage(n), n)
  BY StageExists
<1> HIDE DEF Stage
<1>2. G = [t \in Pairs |-> G[t]] /\ \A t \in Pairs : G[t] = Stage(Len(t[1]))[t]
  OBVIOUS
<1> HIDE DEF G
<1>3. ASSUME NEW t \in Pairs PROVE G[t] = Expansion(G, t[1], t[2])
  <2> DEFINE n == Len(t[1])
  <2>1. n \in Nat /\ t \in UpTo(n)
    BY <1>0 DEF UpTo
  <2>2. Stage(n)[t] = Expansion(Stage(n), t[1], t[2])
    BY <1>1, <2>1 DEF ExpandsTo
  <2>3. ASSUME NEW u \in Pairs, Len(u[1]) < Len(t[1]) PROVE Stage(n)[u] = G[u]
    <3>1. Len(u[1]) \in Nat /\ Len(u[1]) <= Len(u[1]) /\ Len(u[1]) <= n
      BY <1>0, <2>3
    <3>2. ExpandsTo(Stage(n), n) /\ ExpandsTo(Stage(Len(u[1])), Len(u[1]))
      BY <1>1, <2>1, <3>1
    <3>3. Stage(n)[u] = Stage(Len(u[1]))[u]
      BY <2>1, <3>1, <3>2, StagesAgree
    <3>4. QED
      BY <1>2, <3>3
  <2>4. Expansion(Stage(n), t[1], t[2]) = Expansion(G, t[1], t[2])
    BY <2>3, PairLater
  <2>5. QED
    BY <1>2, <2>2, <2>4
<1>4. G = [t \in Pairs |-> Expansion(G, t[1], t[2])]
  BY <1>2, <1>3
<1>5. Expand = [t \in Pairs |-> Expansion(Expand, t[1], t[2])]
  <2>1. \E f : f = [t \in Texts \X Containers |-> Expansion(f, t[1], t[2])]
    BY <1>4 DEF Pairs
  <2>2. Expand = CHOOSE f : f = [t \in Texts \X Containers |-> Expansion(f, t[1], t[2])]
    BY DEF Expand
  <2>3. QED
    BY <2>1, <2>2 DEF Pairs
<1>6. <<c, k>> \in Pairs /\ <<c, k>>[1] = c /\ <<c, k>>[2] = k
  BY PairIs
<1> HIDE DEF Pairs
<1>7. QED
  BY <1>5, <1>6

-----------------------------------------------------------------------------
(* What the expansion writes.                                              *)

FlattensTo(f, s, n) == f = [i \in 1 .. n |-> IF i = 1 THEN s[i] ELSE f[i - 1] \o s[i]]

LEMMA FlattenExists ==
  ASSUME NEW s, NEW n \in Nat
  PROVE  \E f : FlattensTo(f, s, n)
<1> DEFINE S == {m \in Nat : \E f : FlattensTo(f, s, m)}
<1>1. 0 \in S
  <2> DEFINE f0 == [i \in 1 .. 0 |-> s[i]]
  <2>1. FlattensTo(f0, s, 0)
    BY DEF FlattensTo
  <2>2. QED
    BY <2>1
<1>2. ASSUME NEW m \in Nat, m \in S PROVE m + 1 \in S
  <2>1. PICK f : FlattensTo(f, s, m)
    BY <1>2
  <2> DEFINE D == 1 .. m + 1
             g == [i \in D |-> IF i = 1 THEN s[i] ELSE f[i - 1] \o s[i]]
  <2>2. g = [i \in D |-> g[i]]
        /\ \A i \in D : g[i] = IF i = 1 THEN s[i] ELSE f[i - 1] \o s[i]
    OBVIOUS
  <2>3. ASSUME NEW i \in 1 .. m PROVE g[i] = f[i]
    <3>1. f[i] = IF i = 1 THEN s[i] ELSE f[i - 1] \o s[i]
      BY <2>1 DEF FlattensTo
    <3>2. i \in D
      OBVIOUS
    <3>3. QED
      BY <2>2, <3>1, <3>2
  <2> HIDE DEF g
  <2>4. ASSUME NEW i \in D PROVE g[i] = IF i = 1 THEN s[i] ELSE g[i - 1] \o s[i]
    <3>1. i # 1 => i - 1 \in 1 .. m
      OBVIOUS
    <3>2. QED
      BY <2>2, <2>3, <3>1
  <2>5. g = [i \in D |-> IF i = 1 THEN s[i] ELSE g[i - 1] \o s[i]]
    BY <2>2, <2>4
  <2>6. FlattensTo(g, s, m + 1)
    BY <2>5 DEF FlattensTo
  <2>7. QED
    BY <2>6
<1>3. n \in S
  <2> HIDE DEF S
  <2>1. QED
    BY <1>1, <1>2, Induct
<1>4. QED
  BY <1>3

\* The parts of a file, put together, are made of what the parts are made of.
LEMMA FlattenOf ==
  ASSUME NEW T, NEW s \in Seq(Seq(T))
  PROVE  FlattenSeq(s) \in Seq(T)
<1> DEFINE f == CHOOSE f : f = [i \in 1 .. Len(s) |->
                                  IF i = 1 THEN s[i] ELSE f[i - 1] \o s[i]]
<1>1. Len(s) \in Nat /\ \A i \in 1 .. Len(s) : s[i] \in Seq(T)
  OBVIOUS
<1>2. f = [i \in 1 .. Len(s) |-> IF i = 1 THEN s[i] ELSE f[i - 1] \o s[i]]
  BY <1>1, FlattenExists DEF FlattensTo
<1>3. FlattenSeq(s) = IF Len(s) = 0 THEN s ELSE f[Len(s)]
  BY DEF FlattenSeq
<1> HIDE DEF f
<1> DEFINE S == {m \in Nat : m + 1 <= Len(s) => f[m + 1] \in Seq(T)}
<1>4. 0 \in S
  BY <1>1, <1>2
<1>5. ASSUME NEW m \in Nat, m \in S PROVE m + 1 \in S
  <2> SUFFICES ASSUME m + 1 + 1 <= Len(s) PROVE f[m + 1 + 1] \in Seq(T)
    OBVIOUS
  <2> DEFINE i == m + 1 + 1
  <2>1. i \in 1 .. Len(s) /\ i # 1 /\ i - 1 = m + 1 /\ m + 1 <= Len(s)
    BY <1>1
  <2>2. f[i - 1] \in Seq(T) /\ s[i] \in Seq(T)
    BY <1>1, <1>5, <2>1
  <2> HIDE DEF i
  <2>3. f[i] = f[i - 1] \o s[i]
    BY <1>2, <2>1
  <2>4. f[i] \in Seq(T)
    BY <2>2, <2>3
  <2>5. QED
    BY <2>4 DEF i
<1>6. CASE Len(s) = 0
  BY <1>3, <1>6
<1>7. CASE Len(s) # 0
  <2>1. Nat \subseteq S
    <3> HIDE DEF S
    <3>1. QED
      BY <1>4, <1>5, Induct
  <2>2. Len(s) - 1 \in Nat /\ Len(s) - 1 + 1 = Len(s)
    BY <1>1, <1>7
  <2>3. f[Len(s)] \in Seq(T)
    BY <2>1, <2>2
  <2>4. QED
    BY <1>3, <1>7, <2>3
<1>8. QED
  BY <1>6, <1>7

\* Written tokens of some kinds, or the items that stand for placeholders.
Kinds(T) == {w \in Written : w.kind \in T \cup {"value"}}

LEMMA KindsLiteral ==
  ASSUME NEW T \in SUBSET Tokens, NEW c \in Seq(T)
  PROVE  Literal(c) \in Seq(Kinds(T))
<1>1. ASSUME NEW k \in T PROVE Token(k) \in Kinds(T)
  <2>1. <<>> \in Seq(Nat)
    OBVIOUS
  <2>2. QED
    BY <2>1 DEF Token, Kinds, Written
<1>2. \A n \in 1 .. Len(c) : Token(c[n]) \in Kinds(T)
  BY <1>1
<1>3. QED
  BY <1>2 DEF Literal

LEMMA KindsSubstitute ==
  ASSUME NEW T \in SUBSET Tokens, NEW out \in Seq(Kinds(T)), NEW x \in Items, NEW i \in Nat
  PROVE  Substitute(out, x, i) \in Seq(Kinds(T))
<1> DEFINE sub == Substitute(out, x, i)
<1>1. ASSUME NEW w \in Kinds(T)
      PROVE  /\ [kind |-> "value", value |-> x, suffix |-> <<>>] \in Kinds(T)
             /\ [w EXCEPT !.suffix = Append(w.suffix, i)] \in Kinds(T)
  <2>1. w.kind \in Tokens \cup {"value"} /\ w.kind \in T \cup {"value"}
        /\ w.value \in Items \cup {NoFile} /\ w.suffix \in Seq(Nat)
        /\ w = [kind |-> w.kind, value |-> w.value, suffix |-> w.suffix]
    BY DEF Kinds, Written
  <2>2. Append(w.suffix, i) \in Seq(Nat) /\ <<>> \in Seq(Nat)
    BY <2>1
  <2>3. [w EXCEPT !.suffix = Append(w.suffix, i)]
          = [kind |-> w.kind, value |-> w.value, suffix |-> Append(w.suffix, i)]
    <3>1. PICK a, b, s : w = [kind |-> a, value |-> b, suffix |-> s]
      BY <2>1
    <3>2. w.kind = a /\ w.value = b
      BY <3>1
    <3>3. \A t : [w EXCEPT !.suffix = t] = [kind |-> a, value |-> b, suffix |-> t]
      BY <3>1
    <3>4. QED
      BY <3>2, <3>3
  <2>4. QED
    BY <2>1, <2>2, <2>3 DEF Kinds, Written
<1>2. \A n \in DOMAIN out : out[n] \in Kinds(T)
  OBVIOUS
<1>3. ASSUME NEW n \in DOMAIN out PROVE sub[n] \in Kinds(T)
  BY <1>1, <1>2 DEF Substitute
<1>4. DOMAIN sub = 1 .. Len(out) /\ Len(out) \in Nat /\ sub = [n \in DOMAIN out |-> sub[n]]
  BY DEF Substitute
<1> HIDE DEF sub
<1>5. sub \in Seq(Kinds(T))
  BY <1>3, <1>4
<1>6. QED
  BY <1>5 DEF sub

LEMMA KindsBlock ==
  ASSUME NEW T \in SUBSET Tokens, NEW expand, NEW body, NEW x \in Items, NEW i \in Nat,
         expand[<<body, Item(x)>>] \in Seq(Kinds(T)) \cup {Failed}
  PROVE  BlockBody(expand, body, x, i) \in Seq(Kinds(T)) \cup {Failed}
BY KindsSubstitute DEF BlockBody

LEMMA KindsLoop ==
  ASSUME NEW T \in SUBSET Tokens, NEW expand, NEW body,
         NEW list \in Seq(Items) \cup {NoList},
         \A x \in Items : expand[<<body, Item(x)>>] \in Seq(Kinds(T)) \cup {Failed}
  PROVE  Loop(expand, body, list) \in Seq(Kinds(T)) \cup {Failed}
<1>1. CASE list = NoList \/ FindTopLevelLoops(body) = Failed
  BY <1>1 DEF Loop
<1>2. CASE ~(list = NoList \/ FindTopLevelLoops(body) = Failed)
  <2> DEFINE kept == {i \in DOMAIN list : list[i] # Null}
             each == [i \in DOMAIN list |->
                        IF i \in kept THEN BlockBody(expand, body, list[i], i) ELSE <<>>]
  <2>1. Loop(expand, body, list) =
          IF \E i \in kept : each[i] = Failed THEN Failed ELSE FlattenSeq(each)
    BY <1>2 DEF Loop
  <2>2. list \in Seq(Items) /\ DOMAIN list = 1 .. Len(list) /\ Len(list) \in Nat
        /\ \A i \in DOMAIN list : list[i] \in Items /\ i \in Nat
    BY <1>2
  <2>3. \A i \in DOMAIN list :
          BlockBody(expand, body, list[i], i) \in Seq(Kinds(T)) \cup {Failed}
    BY <2>2, KindsBlock
  <2>4. \A i \in DOMAIN list :
          each[i] \in Seq(Kinds(T)) \/ (i \in kept /\ each[i] = Failed)
    <3>1. <<>> \in Seq(Kinds(T))
      OBVIOUS
    <3>2. QED
      BY <2>3, <3>1
  <2>5. DOMAIN each = 1 .. Len(list)
    BY <2>2
  <2>6. each = [i \in 1 .. Len(list) |-> each[i]]
    BY <2>2
  <2> HIDE DEF each, kept
  <2>7. CASE \E i \in kept : each[i] = Failed
    BY <2>1, <2>7
  <2>8. CASE ~\E i \in kept : each[i] = Failed
    <3>1. each \in Seq(Seq(Kinds(T)))
      BY <2>2, <2>4, <2>6, <2>8
    <3>2. FlattenSeq(each) \in Seq(Kinds(T))
      BY <3>1, FlattenOf
    <3>3. QED
      BY <2>1, <2>8, <3>2
  <2>9. QED
    BY <2>7, <2>8
<1>3. QED
  BY <1>1, <1>2

\* One step of the expansion, by its parts.
LEMMA Parts ==
  ASSUME NEW c \in Texts, NEW k \in Containers, NEW W \in SUBSET Written,
         FindTopLevelLoops(c) = <<>> => Literal(c) \in Seq(W),
         FindTopLevelLoops(c) \notin {Failed, <<>>} =>
           LET l == FindTopLevelLoops(c)[1] IN
           /\ Literal(SubSeq(c, 1, l.start - 1)) \in Seq(W)
           /\ Loop(Expand, Body(c, l), Resolve(k, l.tag)) \in Seq(W) \cup {Failed}
           /\ Expand[<<After(c, l), k>>] \in Seq(W) \cup {Failed}
  PROVE  Expand[<<c, k>>] \in Seq(W) \cup {Failed}
<1> DEFINE loops == FindTopLevelLoops(c)
           l == loops[1]
           head == Literal(SubSeq(c, 1, l.start - 1))
           mid == Loop(Expand, Body(c, l), Resolve(k, l.tag))
           rest == Expand[<<After(c, l), k>>]
<1>1. Expand[<<c, k>>] = Expansion(Expand, c, k)
  BY ExpandIs
<1>2. Expansion(Expand, c, k) =
        IF loops = Failed THEN Failed
        ELSE IF loops = <<>> THEN Literal(c)
        ELSE IF mid = Failed \/ rest = Failed THEN Failed ELSE head \o mid \o rest
  BY DEF Expansion
<1>3. loops \notin {Failed, <<>>} => /\ head \in Seq(W)
                                     /\ mid \in Seq(W) \cup {Failed}
                                     /\ rest \in Seq(W) \cup {Failed}
  OBVIOUS
<1>4. loops = <<>> => Literal(c) \in Seq(W)
  OBVIOUS
<1> HIDE DEF loops, l, head, mid, rest
<1>5. QED
  BY <1>1, <1>2, <1>3, <1>4

\* The expansion writes only the kinds of tokens that the template holds, and items.
THEOREM ExpandKinds ==
  ASSUME NEW T \in SUBSET Tokens, NEW c \in Seq(T), NEW k \in Containers
  PROVE  Expand[<<c, k>>] \in Seq(Kinds(T)) \cup {Failed}
<1> DEFINE S == {n \in Nat : \A d \in Seq(T), j \in Containers :
                   Len(d) = n => Expand[<<d, j>>] \in Seq(Kinds(T)) \cup {Failed}}
<1>1. ASSUME NEW n \in Nat, \A m \in 0 .. n - 1 : m \in S PROVE n \in S
  <2> SUFFICES ASSUME NEW d \in Seq(T), NEW j \in Containers, Len(d) = n
               PROVE  Expand[<<d, j>>] \in Seq(Kinds(T)) \cup {Failed}
    OBVIOUS
  <2> DEFINE l == FindTopLevelLoops(d)[1]
  <2>1. d \in Texts /\ Kinds(T) \subseteq Written
    BY DEF Texts, Kinds
  <2>2. ASSUME NEW e \in Seq(T), Len(e) < n, NEW i \in Containers
        PROVE  Expand[<<e, i>>] \in Seq(Kinds(T)) \cup {Failed}
    <3>1. Len(e) \in 0 .. n - 1
      BY <2>2
    <3>2. Len(e) \in S
      BY <1>1, <3>1
    <3>3. QED
      BY <3>2
  <2> HIDE DEF S
  <2>3. ASSUME FindTopLevelLoops(d) \notin {Failed, <<>>}
        PROVE  /\ Literal(SubSeq(d, 1, l.start - 1)) \in Seq(Kinds(T))
               /\ Loop(Expand, Body(d, l), Resolve(j, l.tag)) \in Seq(Kinds(T)) \cup {Failed}
               /\ Expand[<<After(d, l), j>>] \in Seq(Kinds(T)) \cup {Failed}
    <3>1. /\ Body(d, l) \in Seq(T) /\ Len(Body(d, l)) < n
          /\ After(d, l) \in Seq(T) /\ Len(After(d, l)) < n
          /\ SubSeq(d, 1, l.start - 1) \in Seq(T)
      BY <2>1, <2>3, Shorter
    <3>2. Resolve(j, l.tag) \in Seq(Items) \cup {NoList}
      BY ContainersOf
    <3> HIDE DEF l
    <3>3. \A x \in Items : Expand[<<Body(d, l), Item(x)>>] \in Seq(Kinds(T)) \cup {Failed}
      BY <2>2, <3>1, ContainersOf
    <3>4. QED
      BY <2>2, <3>1, <3>2, <3>3, KindsLiteral, KindsLoop
  <2>4. Literal(d) \in Seq(Kinds(T))
    BY KindsLiteral
  <2>5. QED
    BY <2>1, <2>3, <2>4, Parts
<1>2. Nat \subseteq S
  <2> HIDE DEF S
  <2>1. QED
    BY <1>1, Strong
<1>3. Len(c) \in S
  BY <1>2
<1>4. QED
  BY <1>3

-----------------------------------------------------------------------------
(* A part of a text has the loops the text has there.                      *)

\* The part of c behind place a, up to b.
Window(c, a, b) == SubSeq(c, a + 1, b)

LEMMA WindowIs ==
  ASSUME NEW c \in Texts, NEW a \in Nat, NEW b \in Nat, a <= b, b <= Len(c)
  PROVE  /\ Window(c, a, b) \in Texts /\ Len(Window(c, a, b)) = b - a
         /\ DOMAIN Window(c, a, b) = 1 .. b - a
         /\ \A m \in 1 .. b - a : Window(c, a, b)[m] = c[m + a] /\ m + a \in DOMAIN c
<1>1. c \in Seq(Tokens) /\ Len(c) \in Nat /\ DOMAIN c = 1 .. Len(c)
  BY DEF Texts
<1>2. Window(c, a, b) = [m \in 1 .. b - a |-> c[m + a]]
  <2>1. b - (a + 1) + 1 = b - a /\ \A m \in Int : m + (a + 1) - 1 = m + a
    OBVIOUS
  <2>2. QED
    BY <1>1, <2>1 DEF Window
<1>3. \A m \in 1 .. b - a : m + a \in DOMAIN c
  BY <1>1
<1>4. QED
  BY <1>1, <1>2, <1>3 DEF Texts

\* The same, for a proof that names only the part.
WindowSays(c, a, b) ==
  /\ Window(c, a, b) \in Texts /\ DOMAIN Window(c, a, b) = 1 .. b - a
  /\ \A m \in 1 .. b - a : Window(c, a, b)[m] = c[m + a] /\ m + a \in DOMAIN c

LEMMA WindowHolds ==
  ASSUME NEW c \in Texts, NEW a \in Nat, NEW b \in Nat, a <= b, b <= Len(c)
  PROVE  WindowSays(c, a, b)
BY WindowIs DEF WindowSays

LEMMA WindowDepth ==
  ASSUME NEW c \in Texts, NEW a \in Nat, NEW b \in Nat, a <= b, b <= Len(c),
         NEW i \in 1 .. b - a, NEW j \in i - 1 .. b - a
  PROVE  Depth(Window(c, a, b), i, j) = Depth(c, i + a, j + a)
<1> DEFINE d == Window(c, a, b)
           S == {n \in Nat : i - 1 + n <= b - a =>
                   Depth(d, i, i - 1 + n) = Depth(c, i + a, i - 1 + n + a)}
<1>1. /\ d \in Texts /\ DOMAIN d = 1 .. b - a
      /\ \A m \in 1 .. b - a : d[m] = c[m + a] /\ m + a \in DOMAIN c
  BY WindowIs
<1> HIDE DEF d
<1>2. 0 \in S
  <2>1. Depth(d, i, i - 1) = 0 /\ Depth(c, i + a, i - 1 + a) = 0
    BY DepthInt
  <2>2. i - 1 + 0 = i - 1 /\ i - 1 + 0 + a = i - 1 + a
    OBVIOUS
  <2>3. QED
    BY <2>1, <2>2
<1>3. ASSUME NEW n \in Nat, n \in S PROVE n + 1 \in S
  <2> SUFFICES ASSUME i - 1 + (n + 1) <= b - a
               PROVE  Depth(d, i, i - 1 + (n + 1)) = Depth(c, i + a, i - 1 + (n + 1) + a)
    OBVIOUS
  <2> DEFINE m == i - 1 + (n + 1)
             p == i + a
             q == i - 1 + (n + 1) + a
  <2>1. /\ m \in 1 .. b - a /\ i <= m /\ p <= q /\ i \in Int /\ p \in Int
        /\ m - 1 = i - 1 + n /\ q - 1 = i - 1 + n + a /\ i - 1 + n <= b - a
        /\ q = m + a
    OBVIOUS
  <2>2. Depth(d, i, m - 1) = Depth(c, p, q - 1)
    BY <1>3, <2>1
  <2> HIDE DEF m, p, q
  <2>3. Depth(d, i, m) = Deeper(Depth(d, i, m - 1), d[m])
    BY <1>1, <2>1, DepthStep
  <2>4. Depth(c, p, q) = Deeper(Depth(c, p, q - 1), c[q])
    <3>1. q \in DOMAIN c
      BY <1>1, <2>1
    <3>2. QED
      BY <2>1, <3>1, DepthStep
  <2>5. d[m] = c[q]
    BY <1>1, <2>1
  <2>6. Depth(d, i, m) = Depth(c, p, q)
    BY <2>2, <2>3, <2>4, <2>5
  <2>7. QED
    BY <2>6 DEF m, p, q
<1>4. Nat \subseteq S
  <2> HIDE DEF S
  <2>1. QED
    BY <1>2, <1>3, Induct
<1>5. j - (i - 1) \in Nat /\ i - 1 + (j - (i - 1)) = j
  OBVIOUS
<1>6. j - (i - 1) \in S
  BY <1>4, <1>5
<1>7. QED
  BY <1>5, <1>6 DEF d

\* What a place of the part stands in, it stands in as a place of the text.
LEMMA WindowAround ==
  ASSUME NEW c \in Texts, NEW a \in Nat, NEW b \in Nat, a <= b, b <= Len(c),
         NEW m \in 1 .. b - a, NEW r \in Around(Window(c, a, b), m)
  PROVE  r + a \in Around(c, m + a) /\ r \in Nat \ {0}
<1> DEFINE d == Window(c, a, b)
<1>1. /\ d \in Texts /\ DOMAIN d = 1 .. b - a /\ Len(d) = b - a
      /\ \A n \in 1 .. b - a : d[n] = c[n + a] /\ n + a \in DOMAIN c
  BY WindowIs
<1>2. r \in 1 .. m - 1 /\ d[r] = "for" /\ \A e \in Closings(d, r) : m < e
  BY DEF Around
<1>3. ASSUME NEW y \in Closings(c, r + a) PROVE m + a < y
  <2>1. y \in r + a .. Len(c) /\ Depth(c, r + a, y) = 0 /\ y \in Int
    BY DEF Closings, Texts
  <2>2. CASE y <= b
    <3>1. y - a \in r - 1 .. b - a /\ y - a \in r .. b - a /\ r \in 1 .. b - a /\ y - a + a = y
      BY <1>2, <2>1, <2>2
    <3>2. Depth(d, r, y - a) = Depth(c, r + a, y - a + a)
      BY <3>1, WindowDepth
    <3>3. y - a \in Closings(d, r)
      BY <1>1, <2>1, <3>1, <3>2 DEF Closings
    <3>4. m < y - a
      BY <1>2, <3>3
    <3>5. QED
      BY <2>1, <3>4
  <2>3. CASE ~(y <= b)
    BY <2>1, <2>3
  <2>4. QED
    BY <2>2, <2>3
<1>4. r + a \in 1 .. m + a - 1 /\ c[r + a] = "for" /\ r \in Nat \ {0}
  BY <1>1, <1>2
<1>5. QED
  BY <1>3, <1>4 DEF Around

LEMMA WindowNamed ==
  ASSUME NEW c \in Texts, Named(c), NEW a \in Nat, NEW b \in Nat, a <= b, b <= Len(c),
         b = Len(c) \/ c[b + 1] = "end"
  PROVE  Named(Window(c, a, b))
<1> DEFINE d == Window(c, a, b)
<1>1. /\ d \in Texts /\ DOMAIN d = 1 .. b - a /\ Len(d) = b - a
      /\ \A n \in 1 .. b - a : d[n] = c[n + a] /\ n + a \in DOMAIN c
  BY WindowIs
<1> HIDE DEF d
<1>2. ASSUME NEW n \in DOMAIN d, d[n] = "for"
      PROVE  n < Len(d) /\ d[n + 1] \in {"items", "subs"}
  <2>1. n \in 1 .. b - a /\ c[n + a] = "for" /\ n + a \in DOMAIN c
    BY <1>1, <1>2
  <2>2. n + a < Len(c) /\ c[n + a + 1] \in {"items", "subs"}
    BY <2>1 DEF Named
  <2>3. n # b - a
    <3>1. CASE n = b - a
      <4>1. n + a = b
        BY <2>1, <3>1
      <4>2. c[b + 1] = "end"
        BY <2>2, <4>1
      <4>3. QED
        BY <2>2, <4>1, <4>2
    <3>2. QED
      BY <3>1
  <2>4. n + 1 \in 1 .. b - a /\ n + 1 + a = n + a + 1
    BY <2>1, <2>3
  <2>5. d[n + 1] = c[n + a + 1]
    BY <1>1, <2>4
  <2>6. QED
    BY <1>1, <2>2, <2>4, <2>5
<1>3. QED
  BY <1>2 DEF Named, d

-----------------------------------------------------------------------------
(* Where the tags of the text come to stand.                               *)

\* All tags of the text stand outside its loops.
Outside(c) == \A n \in DOMAIN c : c[n] = "tag" => Around(c, n) = {}

\* Tags carry this suffix and no other.
Tagged(suffix) == {w \in Written : w.kind = "tag" => w.suffix = suffix}

Tagless == Tokens \ {"tag"}

LEMMA TaglessIs ==
  /\ Tagless \in SUBSET Tokens
  /\ \A suffix : Kinds(Tagless) \subseteq Tagged(suffix)
  /\ \A c \in Texts : (\A n \in DOMAIN c : c[n] # "tag") => c \in Seq(Tagless)
<1>1. Tagless \in SUBSET Tokens
  BY DEF Tagless
<1>2. \A suffix : Kinds(Tagless) \subseteq Tagged(suffix)
  BY DEF Kinds, Tagless, Tagged
<1>3. ASSUME NEW c \in Texts, \A n \in DOMAIN c : c[n] # "tag" PROVE c \in Seq(Tagless)
  <2>1. c = [n \in 1 .. Len(c) |-> c[n]] /\ Len(c) \in Nat /\ DOMAIN c = 1 .. Len(c)
        /\ \A n \in 1 .. Len(c) : c[n] \in Tokens
    BY DEF Texts
  <2>2. \A n \in 1 .. Len(c) : c[n] \in Tagless
    BY <1>3, <2>1 DEF Tagless
  <2>3. QED
    BY <2>1, <2>2
<1>4. QED
  BY <1>1, <1>2, <1>3

\* A sequence over a set is one over any larger set.
LEMMA SeqOver ==
  ASSUME NEW A, NEW B, A \subseteq B, NEW s \in Seq(A)
  PROVE  s \in Seq(B)
OBVIOUS

LEMMA LiteralTagged ==
  ASSUME NEW c \in Texts
  PROVE  Literal(c) \in Seq(Tagged(<<>>))
<1>1. \A n \in 1 .. Len(c) : Token(c[n]) \in Tagged(<<>>)
  <2>1. <<>> \in Seq(Nat)
    OBVIOUS
  <2>2. QED
    BY <2>1 DEF Token, Tagged, Written, Texts
<1>2. Len(c) \in Nat
  BY DEF Texts
<1>3. QED
  BY <1>1, <1>2 DEF Literal

\* The first loop of a text whose loops have names: it is one of the outermost level,
\* with its own end, and its body and what follows are parts of the text.
LEMMA FirstLoop ==
  ASSUME NEW c \in Texts, Named(c), FindTopLevelLoops(c) \notin {Failed, <<>>}
  PROVE  LET l == FindTopLevelLoops(c)[1] IN
         /\ l.start \in DOMAIN c /\ c[l.start] = "for"
         /\ l.end \in l.start + 2 .. Len(c) /\ c[l.end] = "end"
         /\ l.end \in Closings(c, l.start) /\ \A x \in Closings(c, l.start) : l.end <= x
         /\ Body(c, l) = Window(c, l.start + 1, l.end - 1)
         /\ After(c, l) = Window(c, l.end, Len(c))
         /\ Named(Body(c, l)) /\ Named(After(c, l))
<1> DEFINE loops == FindTopLevelLoops(c)
           l == loops[1]
<1>1. /\ loops \in Seq(LoopBlock) /\ loops # <<>>
      /\ FirstFor(c, 1, l.start) /\ l.end \in l.start + 2 .. Len(c)
  BY Scanned DEF Scan
<1>2. 1 \in DOMAIN loops
  BY <1>1
<1>3. /\ l.end = Min(Closings(c, l.start)) /\ l.start \in Outermost(c)
      /\ Closings(c, l.start) # {}
  <2>1. Matches(c)
    BY LoopsFound
  <2>2. loops # Failed
    OBVIOUS
  <2> HIDE DEF loops, l
  <2>3. /\ ~\E s \in Outermost(c) : Closings(c, s) = {}
        /\ \A n \in DOMAIN loops : /\ loops[n].start \in Outermost(c)
                                   /\ loops[n].end = Min(Closings(c, loops[n].start))
    BY <2>1, <2>2 DEF Matches, loops
  <2>4. QED
    BY <1>2, <2>3 DEF l
<1> HIDE DEF loops, l
<1>4. Len(c) \in Nat /\ DOMAIN c = 1 .. Len(c) /\ l.start \in 1 .. Len(c) /\ c[l.start] = "for"
  BY <1>1 DEF FirstFor, Texts
<1>5. /\ l.end \in Closings(c, l.start) /\ \A x \in Closings(c, l.start) : l.end <= x
      /\ c[l.end] = "end"
  BY <1>3, <1>4, FirstClosing
<1>6. /\ l.start + 1 + 1 = l.start + 2 /\ l.start + 1 <= l.end - 1
      /\ l.start + 1 \in Nat /\ l.end - 1 \in Nat /\ l.end - 1 <= Len(c)
      /\ l.end \in Nat /\ l.end <= Len(c) /\ l.end - 1 + 1 = l.end
  <2>1. \A L \in Nat : \A s \in 1 .. L : \A e \in s + 2 .. L :
          /\ s + 1 + 1 = s + 2 /\ s + 1 <= e - 1 /\ s + 1 \in Nat /\ e - 1 \in Nat
          /\ e - 1 <= L /\ e \in Nat /\ e <= L /\ e - 1 + 1 = e
    OBVIOUS
  <2>2. QED
    BY <1>1, <1>4, <2>1, Zenon
<1>7. Body(c, l) = Window(c, l.start + 1, l.end - 1)
  BY <1>6 DEF Body, Window
<1>8. After(c, l) = Window(c, l.end, Len(c))
  BY DEF After, Window
<1>9. Named(Window(c, l.start + 1, l.end - 1))
  <2>1. c[l.end - 1 + 1] = "end"
    BY <1>5, <1>6
  <2>2. QED
    BY <1>6, <2>1, WindowNamed
<1>10. Named(Window(c, l.end, Len(c)))
  BY <1>4, <1>6, WindowNamed
<1>11. QED
  BY <1>1, <1>4, <1>5, <1>7, <1>8, <1>9, <1>10 DEF l, loops

LEMMA BodyTagless ==
  ASSUME NEW c \in Texts, Named(c), FindTopLevelLoops(c) \notin {Failed, <<>>}, Outside(c)
  PROVE  Body(c, FindTopLevelLoops(c)[1]) \in Seq(Tagless)
<1> DEFINE l == FindTopLevelLoops(c)[1]
           d == Body(c, l)
<1>1. /\ l.start \in DOMAIN c /\ c[l.start] = "for"
      /\ l.end \in l.start + 2 .. Len(c)
      /\ \A x \in Closings(c, l.start) : l.end <= x
      /\ d = Window(c, l.start + 1, l.end - 1)
  BY FirstLoop
<1> HIDE DEF l, d
<1> DEFINE a == l.start + 1
           b == l.end - 1
<1>2. /\ Len(c) \in Nat /\ DOMAIN c = 1 .. Len(c) /\ l.start \in Nat \ {0}
      /\ a \in Nat /\ b \in Nat /\ a <= b /\ b <= Len(c)
      /\ l.start < a /\ b < l.end /\ l.end \in Nat
  BY <1>1 DEF Texts
<1>3. d = Window(c, a, b)
  BY <1>1
<1> HIDE DEF a, b
<1>4. /\ d \in Texts /\ DOMAIN d = 1 .. b - a
      /\ \A m \in 1 .. b - a : d[m] = c[m + a] /\ m + a \in DOMAIN c
  <2>1. /\ Window(c, a, b) \in Texts /\ DOMAIN Window(c, a, b) = 1 .. b - a
        /\ \A m \in 1 .. b - a : Window(c, a, b)[m] = c[m + a] /\ m + a \in DOMAIN c
    BY <1>2, WindowIs
  <2>2. QED
    BY <1>3, <2>1
<1>5. ASSUME NEW m \in DOMAIN d, d[m] = "tag" PROVE FALSE
  <2> DEFINE n == m + a
  <2>1. n \in DOMAIN c /\ c[n] = "tag" /\ l.start \in 1 .. n - 1 /\ n < l.end
    BY <1>2, <1>4, <1>5
  <2> HIDE DEF n
  <2>2. \A x \in Closings(c, l.start) : n < x
    <3> TAKE x \in Closings(c, l.start)
    <3>1. x \in Int /\ l.end <= x
      BY <1>1, <1>2 DEF Closings
    <3>2. QED
      BY <1>1, <1>2, <2>1, <3>1
  <2>3. l.start \in Around(c, n)
    BY <1>1, <2>1, <2>2 DEF Around
  <2>4. QED
    BY <2>1, <2>3 DEF Outside
<1>6. QED
  BY <1>4, <1>5, TaglessIs DEF d, l

LEMMA AfterOutside ==
  ASSUME NEW c \in Texts, Named(c), FindTopLevelLoops(c) \notin {Failed, <<>>}, Outside(c)
  PROVE  Outside(After(c, FindTopLevelLoops(c)[1]))
<1> DEFINE l == FindTopLevelLoops(c)[1]
           d == After(c, l)
<1>1. /\ l.start \in DOMAIN c /\ l.end \in l.start + 2 .. Len(c)
      /\ d = Window(c, l.end, Len(c))
  BY FirstLoop
<1> HIDE DEF l, d
<1>2. Len(c) \in Nat /\ l.end \in Nat /\ l.end <= Len(c) /\ Len(c) <= Len(c)
  BY <1>1 DEF Texts
<1>3. /\ DOMAIN d = 1 .. Len(c) - l.end
      /\ \A m \in 1 .. Len(c) - l.end : d[m] = c[m + l.end] /\ m + l.end \in DOMAIN c
  <2>1. WindowSays(c, l.end, Len(c))
    BY <1>2, WindowHolds
  <2>2. QED
    BY <1>1, <2>1 DEF WindowSays
<1>4. ASSUME NEW m \in DOMAIN d, d[m] = "tag", NEW r \in Around(d, m) PROVE FALSE
  <2>1. r + l.end \in Around(c, m + l.end)
    BY <1>1, <1>2, <1>3, <1>4, WindowAround
  <2>2. m + l.end \in DOMAIN c /\ c[m + l.end] = "tag"
    BY <1>3, <1>4
  <2>3. QED
    BY <2>1, <2>2 DEF Outside
<1>5. QED
  BY <1>4 DEF Outside, d, l

\* A tag that stands outside all loops keeps its name; no other comes up.
THEOREM OuterTags ==
  ASSUME NEW c \in Texts, Named(c), Outside(c), NEW k \in Containers
  PROVE  Expand[<<c, k>>] \in Seq(Tagged(<<>>)) \cup {Failed}
<1> DEFINE S == {n \in Nat : \A d \in Texts, j \in Containers :
                   Len(d) = n /\ Named(d) /\ Outside(d)
                     => Expand[<<d, j>>] \in Seq(Tagged(<<>>)) \cup {Failed}}
<1>1. ASSUME NEW n \in Nat, \A m \in 0 .. n - 1 : m \in S PROVE n \in S
  <2> SUFFICES ASSUME NEW d \in Texts, NEW j \in Containers, Len(d) = n, Named(d), Outside(d)
               PROVE  Expand[<<d, j>>] \in Seq(Tagged(<<>>)) \cup {Failed}
    OBVIOUS
  <2> DEFINE l == FindTopLevelLoops(d)[1]
  <2>1. ASSUME NEW e \in Texts, Len(e) < n, Named(e), Outside(e), NEW i \in Containers
        PROVE  Expand[<<e, i>>] \in Seq(Tagged(<<>>)) \cup {Failed}
    <3>1. Len(e) \in 0 .. n - 1
      BY <2>1 DEF Texts
    <3>2. Len(e) \in S
      BY <1>1, <3>1
    <3>3. QED
      BY <2>1, <3>2
  <2> HIDE DEF S
  <2>2. Literal(d) \in Seq(Tagged(<<>>)) /\ Tagged(<<>>) \in SUBSET Written
    BY LiteralTagged DEF Tagged
  <2>3. ASSUME FindTopLevelLoops(d) \notin {Failed, <<>>}
        PROVE  /\ Literal(SubSeq(d, 1, l.start - 1)) \in Seq(Tagged(<<>>))
               /\ Loop(Expand, Body(d, l), Resolve(j, l.tag))
                    \in Seq(Tagged(<<>>)) \cup {Failed}
               /\ Expand[<<After(d, l), j>>] \in Seq(Tagged(<<>>)) \cup {Failed}
    <3>1. SubSeq(d, 1, l.start - 1) \in Texts /\ After(d, l) \in Texts /\ Len(After(d, l)) < n
      BY <2>3, Shorter DEF Texts
    <3>2. Body(d, l) \in Seq(Tagless)
      BY <2>3, BodyTagless
    <3>3. Named(After(d, l)) /\ Outside(After(d, l))
      BY <2>3, FirstLoop, AfterOutside
    <3>4. Resolve(j, l.tag) \in Seq(Items) \cup {NoList}
      BY ContainersOf
    <3> HIDE DEF l
    <3>5. \A x \in Items :
            Expand[<<Body(d, l), Item(x)>>] \in Seq(Kinds(Tagless)) \cup {Failed}
      BY <3>2, ContainersOf, TaglessIs, ExpandKinds
    <3>6. Loop(Expand, Body(d, l), Resolve(j, l.tag)) \in Seq(Kinds(Tagless)) \cup {Failed}
      BY <3>4, <3>5, TaglessIs, KindsLoop
    <3>7. \A s \in Seq(Kinds(Tagless)) : s \in Seq(Tagged(<<>>))
      BY TaglessIs, SeqOver
    <3>8. Loop(Expand, Body(d, l), Resolve(j, l.tag)) \in Seq(Tagged(<<>>)) \cup {Failed}
      BY <3>6, <3>7
    <3>9. Literal(SubSeq(d, 1, l.start - 1)) \in Seq(Tagged(<<>>))
      BY <3>1, LiteralTagged
    <3>10. Expand[<<After(d, l), j>>] \in Seq(Tagged(<<>>)) \cup {Failed}
      BY <2>1, <3>1, <3>3
    <3>11. QED
      BY <3>8, <3>9, <3>10
  <2>4. QED
    BY <2>2, <2>3, Parts
<1>2. Nat \subseteq S
  <2> HIDE DEF S
  <2>1. QED
    BY <1>1, Strong
<1>3. Len(c) \in S
  BY <1>2 DEF Texts
<1>4. QED
  BY <1>3

\* The first "for" is the first loop, if the text can be read at all.
LEMMA OpensWithLoop ==
  ASSUME NEW c \in Texts, c # <<>>, c[1] = "for", FindTopLevelLoops(c) # Failed
  PROVE  FindTopLevelLoops(c) # <<>> /\ FindTopLevelLoops(c)[1].start = 1 /\ Splits(c)
<1>1. 1 \in DOMAIN c /\ DOMAIN c = 1 .. Len(c) /\ Len(c) \in Nat
  BY DEF Texts
<1>2. FindTopLevelLoops(c) # <<>>
  BY <1>1, Scanned DEF Scan
<1>3. FirstFor(c, 1, FindTopLevelLoops(c)[1].start)
  BY <1>2, Scanned DEF Scan
<1>4. FindTopLevelLoops(c)[1].start = 1
  BY <1>1, <1>3 DEF FirstFor
<1>5. QED
  BY <1>2, <1>4 DEF Splits

\* The tags of the loop that opens a text, outside the loops it holds, carry the index
\* of the item when the text is split; there are no others.
THEOREM PieceTags ==
  ASSUME NEW c \in Texts, Named(c), Splits(c),
         \A n \in DOMAIN c : c[n] = "tag" => Around(c, n) = {1},
         NEW list \in Seq(Items), NEW i \in DOMAIN list
  PROVE  Piece(c, list, i) \in Seq(Tagged(<<i>>)) \cup {Failed}
<1> DEFINE l == FindTopLevelLoops(c)[1]
           body == Body(c, l)
           tail == After(c, l)
           out == Expand[<<body, Item(list[i])>>]
           main == BlockBody(Expand, body, list[i], i)
           rest == Expand[<<tail, Root(list)>>]
<1>1. FindTopLevelLoops(c) \notin {Failed, <<>>} /\ l.start = 1
  BY DEF Splits
<1>2. /\ l.end \in l.start + 2 .. Len(c) /\ c[1] = "for"
      /\ l.end \in Closings(c, 1)
      /\ body = Window(c, l.start + 1, l.end - 1) /\ tail = Window(c, l.end, Len(c))
      /\ Named(body)
  BY <1>1, FirstLoop
<1>3. Piece(c, list, i) = IF main = Failed \/ rest = Failed THEN Failed ELSE main \o rest
  BY DEF Piece, RenderBody
<1>4. main = IF out = Failed THEN Failed ELSE Substitute(out, list[i], i)
  BY DEF BlockBody
<1>5. i \in Nat /\ list[i] \in Items
  OBVIOUS
<1>6. rest = Expand[<<tail, Root(list)>>] /\ out = Expand[<<body, Item(list[i])>>]
  OBVIOUS
<1> HIDE DEF l, body, tail, out, main, rest
<1>7. /\ Len(c) \in Nat /\ DOMAIN c = 1 .. Len(c) /\ l.end \in Nat /\ l.end <= Len(c)
      /\ l.end >= 3 /\ body = Window(c, 2, l.end - 1) /\ l.end - 1 \in Nat /\ 2 <= l.end - 1
      /\ l.end - 1 <= Len(c) /\ Len(c) <= Len(c)
  BY <1>1, <1>2 DEF Texts
<1>8. body \in Texts /\ Outside(body)
  <2>1. /\ body \in Texts /\ DOMAIN body = 1 .. l.end - 1 - 2
        /\ \A m \in 1 .. l.end - 1 - 2 : body[m] = c[m + 2] /\ m + 2 \in DOMAIN c
    <3>1. 2 \in Nat
      OBVIOUS
    <3>2. WindowSays(c, 2, l.end - 1)
      BY <1>7, <3>1, WindowHolds
    <3>3. QED
      BY <1>7, <3>2 DEF WindowSays
  <2>2. ASSUME NEW m \in DOMAIN body, body[m] = "tag", NEW r \in Around(body, m) PROVE FALSE
    <3>1. r + 2 \in Around(c, m + 2) /\ r \in Nat \ {0}
      BY <1>7, <2>1, <2>2, WindowAround
    <3>2. Around(c, m + 2) = {1}
      BY <2>1, <2>2
    <3>3. QED
      BY <3>1, <3>2
  <2>3. QED
    BY <2>1, <2>2 DEF Outside
<1>9. tail \in Seq(Tagless)
  <2>1. /\ tail \in Texts /\ DOMAIN tail = 1 .. Len(c) - l.end
        /\ \A m \in 1 .. Len(c) - l.end : tail[m] = c[m + l.end] /\ m + l.end \in DOMAIN c
    BY <1>2, <1>7, WindowIs
  <2>2. ASSUME NEW m \in DOMAIN tail, tail[m] = "tag" PROVE FALSE
    <3>1. c[m + l.end] = "tag" /\ m + l.end \in DOMAIN c /\ l.end < m + l.end
      BY <1>7, <2>1, <2>2
    <3>2. 1 \in Around(c, m + l.end)
      BY <3>1
    <3>3. m + l.end < l.end
      BY <1>2, <3>2 DEF Around
    <3>4. m + l.end \in Int
      BY <1>7, <2>1
    <3>5. QED
      BY <1>7, <3>1, <3>3, <3>4
  <2>3. QED
    BY <2>1, <2>2, TaglessIs
<1>10. rest \in Seq(Tagged(<<i>>)) \cup {Failed}
  <2>1. rest \in Seq(Kinds(Tagless)) \cup {Failed}
    BY <1>6, <1>9, TaglessIs, ContainersOf, ExpandKinds
  <2>2. \A s \in Seq(Kinds(Tagless)) : s \in Seq(Tagged(<<i>>))
    BY TaglessIs, SeqOver
  <2>3. QED
    BY <2>1, <2>2
<1>11. out \in Seq(Tagged(<<>>)) \cup {Failed}
  BY <1>2, <1>5, <1>6, <1>8, ContainersOf, OuterTags
<1>12. ASSUME out \in Seq(Tagged(<<>>))
       PROVE  Substitute(out, list[i], i) \in Seq(Tagged(<<i>>))
  <2> DEFINE sub == Substitute(out, list[i], i)
  <2>1. Tokens \in SUBSET Tokens /\ body \in Seq(Tokens)
    BY <1>8 DEF Texts
  <2>2. out \in Seq(Kinds(Tokens)) \cup {Failed}
    BY <1>5, <1>6, <2>1, ContainersOf, ExpandKinds
  <2>3. out # Failed
    <3>1. Tagged(<<>>) \subseteq Written
      BY DEF Tagged
    <3>2. out \in Seq(Written)
      BY <1>12, <3>1, SeqOver
    <3>3. QED
      BY <3>2, FailedAssumption
  <2>4. QED
    <3>1. sub \in Seq(Kinds(Tokens))
      BY <1>5, <2>1, <2>2, <2>3, KindsSubstitute
    <3>2. DOMAIN sub = DOMAIN out /\ DOMAIN out = 1 .. Len(out) /\ Len(out) \in Nat
          /\ sub = [n \in 1 .. Len(out) |-> sub[n]]
      BY <1>12 DEF Substitute
    <3>3. ASSUME NEW n \in DOMAIN out, sub[n].kind = "tag" PROVE sub[n].suffix = <<i>>
      <4>1. out[n] \in Tagged(<<>>) /\ out[n] \in Written
        BY <1>12 DEF Tagged
      <4>2. \/ out[n].kind \in Fixed /\ sub[n] = out[n]
            \/ sub[n] = [kind |-> "value", value |-> list[i], suffix |-> <<>>]
            \/ /\ out[n].kind \notin Fixed
               /\ sub[n] = [out[n] EXCEPT !.suffix = Append(out[n].suffix, i)]
        BY DEF Substitute
      <4>3. sub[n] = [out[n] EXCEPT !.suffix = Append(out[n].suffix, i)]
        BY <3>3, <4>2 DEF Fixed
      <4>4. PICK a, b, s : out[n] = [kind |-> a, value |-> b, suffix |-> s]
        BY <4>1 DEF Written
      <4>5. /\ sub[n].kind = a /\ sub[n].suffix = Append(s, i)
            /\ out[n].kind = a /\ out[n].suffix = s
        BY <4>3, <4>4
      <4>6. s = <<>>
        BY <3>3, <4>1, <4>5 DEF Tagged
      <4>7. QED
        BY <4>5, <4>6
    <3> HIDE DEF sub
    <3>4. \A n \in 1 .. Len(out) : sub[n] \in Tagged(<<i>>)
      BY <3>1, <3>2, <3>3 DEF Tagged, Kinds
    <3>5. sub \in Seq(Tagged(<<i>>))
      BY <3>2, <3>4
    <3>6. QED
      BY <3>5 DEF sub
<1>13. QED
  BY <1>3, <1>4, <1>10, <1>11, <1>12

-----------------------------------------------------------------------------
(* Templates that are not refused.                                         *)

LoopNames == {"items", "subs"}

\* The loops of a well-formed text have names and ends, so it can be read.
LEMMA WholeLoops ==
  ASSUME NEW c \in Texts, NEW top \in LoopNames, NEW d \in Nat, WellFormed(c, top, d)
  PROVE  Named(c) /\ FindTopLevelLoops(c) # Failed
<1>1. DOMAIN c = 1 .. Len(c) /\ Len(c) \in Nat
  BY DEF Texts
<1>2. Named(c)
  BY DEF WellFormed, Named, LoopNames
<1>3. ASSUME NEW s \in DOMAIN c, c[s] = "for" PROVE Closings(c, s) # {}
  <2>1. s \in Nat /\ s - 1 \in 0 .. Len(c) /\ s <= Len(c) /\ Len(c) \in DOMAIN c /\ s - 1 \in Int
        /\ 1 <= s - 1 + 1 /\ s - 1 <= Len(c) /\ s - 1 + 1 = s
    BY <1>1
  <2>2. Depth(c, 1, Len(c)) = Depth(c, 1, s - 1) + Depth(c, s - 1 + 1, Len(c))
    BY <1>1, <2>1, DepthSplit
  <2>3. Depth(c, 1, s - 1) \in Nat /\ Depth(c, 1, Len(c)) = 0
    BY <2>1 DEF WellFormed
  <2>4. Depth(c, s, Len(c)) \in Int
    BY <1>1, <2>1, DepthInt
  <2>5. Depth(c, s, Len(c)) <= 0
    BY <2>1, <2>2, <2>3, <2>4
  <2>6. QED
    BY <1>3, <2>1, <2>5, Descends
<1>4. ~\E s \in Outermost(c) : Closings(c, s) = {}
  BY <1>3 DEF Outermost
<1>5. QED
  BY <1>2, <1>4, LoopsFound DEF Matches

\* The balance in a part of a text is what the text adds to it there.
LEMMA WindowAdds ==
  ASSUME NEW c \in Texts, NEW a \in Nat, NEW b \in Nat, a <= b, b <= Len(c),
         NEW n \in 0 .. b - a
  PROVE  Depth(Window(c, a, b), 1, n) = Depth(c, 1, n + a) - Depth(c, 1, a)
<1>1. /\ n \in Nat /\ 1 + a = a + 1 /\ a <= n + a /\ 1 <= a + 1
      /\ a \in Int /\ n + a \in Int /\ 1 \in Int
  OBVIOUS
<1>2. Depth(c, 1, n + a) = Depth(c, 1, a) + Depth(c, a + 1, n + a)
  BY <1>1, DepthSplit
<1>3. /\ Depth(c, 1, a) \in Int /\ Depth(c, a + 1, n + a) \in Int
      /\ n = 0 => Depth(c, a + 1, n + a) = 0 /\ Depth(Window(c, a, b), 1, n) = 0
  BY <1>1, DepthInt
<1>4. CASE n = 0
  BY <1>2, <1>3, <1>4
<1>5. CASE n # 0
  <2>1. 1 \in 1 .. b - a /\ n \in 1 - 1 .. b - a
    BY <1>5
  <2>2. Depth(Window(c, a, b), 1, n) = Depth(c, 1 + a, n + a)
    BY <2>1, WindowDepth
  <2>3. QED
    BY <1>1, <1>2, <1>3, <2>2
<1>6. QED
  BY <1>4, <1>5
\* Between the loop that opens first and its end, the loops are one level less deep;
\* what follows it is again well-formed.
LEMMA WholeParts ==
  ASSUME NEW c \in Texts, NEW top \in LoopNames, NEW d \in Nat, WellFormed(c, top, d),
         FindTopLevelLoops(c) # <<>>
  PROVE  LET l == FindTopLevelLoops(c)[1] IN
         /\ l.tag = top /\ d > 0
         /\ WellFormed(Body(c, l), "subs", d - 1)
         /\ WellFormed(After(c, l), top, d)
<1> DEFINE l == FindTopLevelLoops(c)[1]
<1>1. Named(c) /\ FindTopLevelLoops(c) # Failed
  BY WholeLoops
<1>2. /\ l.start \in DOMAIN c /\ c[l.start] = "for"
      /\ l.end \in l.start + 2 .. Len(c) /\ c[l.end] = "end"
      /\ l.end \in Closings(c, l.start) /\ \A x \in Closings(c, l.start) : l.end <= x
      /\ Body(c, l) = Window(c, l.start + 1, l.end - 1)
      /\ After(c, l) = Window(c, l.end, Len(c))
  BY <1>1, FirstLoop
<1>3. FirstFor(c, 1, l.start) /\ l.tag = c[l.start + 1]
  BY <1>1, Scanned DEF Scan
<1> HIDE DEF l
<1> DEFINE s == l.start
           e == l.end
           D(x) == Depth(c, 1, x)
<1>4. /\ DOMAIN c = 1 .. Len(c) /\ Len(c) \in Nat /\ s \in 1 .. Len(c) /\ e \in s + 2 .. Len(c)
      /\ s \in Nat /\ e \in Nat
  BY <1>2 DEF Texts
<1>5. \A x \in 0 .. Len(c) : D(x) \in Nat /\ D(x) <= d
  BY <1>4 DEF WellFormed
<1>6. \A x \in DOMAIN c : D(x) = Deeper(D(x - 1), c[x])
  BY <1>4, DepthStep
<1>7. D(s - 1) = 0
  <2>1. Places(c, "for", 1, s - 1) = {}
    BY <1>3, <1>4 DEF Places, FirstFor
  <2>2. Count(c, "for", 1, s - 1) = 0 /\ Count(c, "end", 1, s - 1) \in Nat
    <3>1. s - 1 \in Int /\ 1 \in Int
      BY <1>4
    <3>2. QED
      BY <2>1, <3>1, CountIs, FS_EmptySet
  <2>3. s - 1 \in 0 .. Len(c)
    BY <1>4
  <2>4. QED
    BY <1>5, <2>2, <2>3 DEF Depth
<1>8. D(s) = 1 /\ c[s] = "for"
  BY <1>2, <1>4, <1>6, <1>7 DEF Deeper
<1>9. c[s + 1] = top /\ l.tag = top /\ d > 0
  <2>1. s < Len(c) /\ c[s + 1] = IF D(s) = 1 THEN top ELSE "subs"
    BY <1>2 DEF WellFormed
  <2>2. D(s) <= d
    BY <1>4, <1>5
  <2>3. QED
    BY <1>3, <1>8, <2>1, <2>2
<1>10. D(s + 1) = 1
  <2>1. s + 1 \in DOMAIN c /\ s + 1 - 1 = s
    BY <1>4
  <2>2. D(s + 1) = Deeper(D(s), c[s + 1])
    <3>1. D(s + 1) = Deeper(D(s + 1 - 1), c[s + 1])
      BY <1>4, <2>1, DepthStep
    <3>2. QED
      BY <2>1, <3>1
  <2>3. QED
    BY <1>8, <1>9, <2>2 DEF Deeper, LoopNames
<1>11. ASSUME NEW x \in s .. Len(c) PROVE D(x) = Depth(c, s, x)
  <2>1. /\ s - 1 \in Int /\ x \in Int /\ 1 \in Int /\ 1 <= s - 1 + 1 /\ s - 1 <= x
        /\ s - 1 + 1 = s
    BY <1>4
  <2>2. D(x) = D(s - 1) + Depth(c, s - 1 + 1, x)
    BY <2>1, DepthSplit
  <2>3. Depth(c, s, x) \in Int
    BY <1>4, <2>1, DepthInt
  <2>4. QED
    BY <1>7, <2>1, <2>2, <2>3
<1>12. D(e) = 0 /\ \A x \in s .. e - 1 : D(x) > 0
  <2>1. Closings(c, s) # {} /\ \A x \in Closings(c, s) : x \in Nat
    BY <1>2, <1>4 DEF Closings
  <2> DEFINE m == Min(Closings(c, s))
  <2>2. m \in Closings(c, s) /\ (\A x \in Closings(c, s) : m <= x)
        /\ \A x \in s .. m - 1 : Depth(c, s, x) > 0
    BY <1>2, <1>4, <2>1, FirstClosing
  <2> HIDE DEF m
  <2>3. m = e
    BY <1>2, <2>1, <2>2
  <2>4. Depth(c, s, e) = 0 /\ e \in s .. Len(c)
    BY <1>2 DEF Closings
  <2>5. \A x \in s .. e - 1 : x \in s .. Len(c)
    BY <1>4
  <2>6. QED
    BY <1>11, <2>2, <2>3, <2>4, <2>5
<1> HIDE DEF s, e
<1>13. WellFormed(Window(c, s + 1, e - 1), "subs", d - 1)
  <2> DEFINE w == Window(c, s + 1, e - 1)
  <2>1. /\ s + 1 \in Nat /\ e - 1 \in Nat /\ s + 1 <= e - 1 /\ e - 1 <= Len(c)
        /\ e - 1 - (s + 1) \in Nat
    BY <1>4
  <2> DEFINE z == e - 1 - (s + 1)
             a == s + 1
  <2>2. /\ w \in Texts /\ DOMAIN w = 1 .. z /\ Len(w) = z
        /\ \A n \in 1 .. z : w[n] = c[n + a] /\ n + a \in DOMAIN c
    BY <2>1, WindowIs
  <2>3. \A n \in 0 .. z : Depth(w, 1, n) = D(n + a) - D(a)
    BY <2>1, WindowAdds
  <2>4. a \in Nat /\ z \in Nat /\ z + a = e - 1 /\ a = s + 1
    BY <1>4
  <2> HIDE DEF w, z, a
  <2>5. \A n \in 0 .. z : Depth(w, 1, n) = D(n + a) - 1 /\ D(n + a) \in Nat /\ D(n + a) > 0
                          /\ D(n + a) <= d
    <3>1. \A n \in 0 .. z : n + a \in s .. e - 1 /\ n + a \in 0 .. Len(c)
      BY <1>4, <2>4
    <3>2. D(a) = 1
      BY <1>10, <2>4
    <3> HIDE DEF D
    <3>3. QED
      BY <1>5, <1>12, <2>3, <3>1, <3>2
  <2>6. \A n \in 0 .. Len(w) : Depth(w, 1, n) \in 0 .. d - 1
    <3> HIDE DEF D
    <3>1. QED
      BY <2>2, <2>5
  <2>7. Depth(w, 1, Len(w)) = 0
    <3>1. D(e) = Deeper(D(e - 1), c[e]) /\ c[e] = "end"
      BY <1>2, <1>4, <1>6 DEF e
    <3>2. D(e - 1) \in Nat
      BY <1>4, <1>5
    <3>3. D(e - 1) = 1
      BY <1>12, <3>1, <3>2 DEF Deeper
    <3>4. z \in 0 .. z
      BY <2>4
    <3>5. Depth(w, 1, z) = D(z + a) - 1
      BY <2>5, <3>4
    <3>6. QED
      BY <2>2, <2>4, <3>3, <3>5
  <2>8. ASSUME NEW n \in DOMAIN w, w[n] = "for"
        PROVE  n < Len(w) /\ w[n + 1] = IF Depth(w, 1, n) = 1 THEN "subs" ELSE "subs"
    <3> DEFINE m == n + a
    <3>1. /\ n \in 1 .. z /\ m \in DOMAIN c /\ c[m] = "for" /\ m \in Nat
          /\ n - 1 \in 0 .. z /\ n - 1 + a = m - 1
      BY <1>4, <2>2, <2>4, <2>8
    <3>2. D(m - 1) > 0 /\ D(m - 1) \in Nat
      BY <2>5, <3>1
    <3>3. n + 1 + a = m + 1 /\ (n = z => m + 1 = e)
      <4>1. n \in Int /\ a \in Int /\ z \in Int /\ e \in Int /\ z + a = e - 1
        BY <1>4, <2>4, <3>1
      <4>2. QED
        BY <4>1
    <3>4. n + 1 \in 1 .. z /\ n < z => w[n + 1] = c[n + 1 + a]
      BY <2>2
    <3> HIDE DEF m
    <3>5. m < Len(c) /\ c[m + 1] = IF D(m) = 1 THEN top ELSE "subs"
      BY <3>1 DEF WellFormed
    <3>6. n # z
      <4>1. c[e] = "end"
        BY <1>2 DEF e
      <4>2. QED
        BY <3>3, <3>5, <4>1 DEF LoopNames
    <3>7. n + 1 \in 1 .. z /\ n < z
      BY <2>4, <3>1, <3>6
    <3>8. D(m) = Deeper(D(m - 1), c[m])
      BY <1>6, <3>1
    <3>9. D(m) # 1
      BY <3>1, <3>2, <3>8 DEF Deeper
    <3>10. QED
      BY <2>2, <3>3, <3>4, <3>5, <3>7, <3>9
  <2>9. WellFormed(w, "subs", d - 1)
    BY <2>6, <2>7, <2>8 DEF WellFormed
  <2>10. QED
    BY <2>9 DEF w
<1>14. WellFormed(Window(c, e, Len(c)), top, d)
  <2> DEFINE w == Window(c, e, Len(c))
             z == Len(c) - e
  <2>1. e \in Nat /\ Len(c) \in Nat /\ e <= Len(c) /\ Len(c) <= Len(c) /\ z \in Nat
        /\ z + e = Len(c) /\ \A n \in 0 .. z : n + e \in 0 .. Len(c)
    BY <1>4
  <2>2. /\ w \in Texts /\ DOMAIN w = 1 .. z /\ Len(w) = z
        /\ \A n \in 1 .. z : w[n] = c[n + e] /\ n + e \in DOMAIN c
    BY <2>1, WindowIs
  <2>3. \A n \in 0 .. z : Depth(w, 1, n) = D(n + e) - D(e)
    BY <2>1, WindowAdds
  <2> HIDE DEF w, z
  <2>4. \A n \in 0 .. z : Depth(w, 1, n) = D(n + e) /\ D(n + e) \in Nat /\ D(n + e) <= d
    <3> HIDE DEF D
    <3>1. QED
      BY <1>5, <1>12, <2>1, <2>3
  <2>5. \A n \in 0 .. Len(w) : Depth(w, 1, n) \in 0 .. d
    <3> HIDE DEF D
    <3>1. QED
      BY <2>2, <2>4
  <2>6. Depth(w, 1, Len(w)) = 0
    <3>1. D(Len(c)) = 0
      BY DEF WellFormed
    <3>2. z \in 0 .. z
      BY <2>1
    <3>3. QED
      BY <2>1, <2>2, <2>4, <3>1, <3>2
  <2>7. ASSUME NEW n \in DOMAIN w, w[n] = "for"
        PROVE  n < Len(w) /\ w[n + 1] = IF Depth(w, 1, n) = 1 THEN top ELSE "subs"
    <3>1. n \in 1 .. z /\ n + e \in DOMAIN c /\ c[n + e] = "for"
      BY <2>2, <2>7
    <3>2. n + e < Len(c) /\ c[n + e + 1] = IF D(n + e) = 1 THEN top ELSE "subs"
      BY <3>1 DEF WellFormed
    <3>3. n + 1 \in 1 .. z /\ n + 1 + e = n + e + 1 /\ n < z /\ n \in 0 .. z
      BY <2>1, <3>1, <3>2
    <3>4. w[n + 1] = c[n + e + 1] /\ Depth(w, 1, n) = D(n + e)
      BY <2>2, <2>4, <3>3
    <3>5. QED
      BY <2>2, <3>2, <3>3, <3>4
  <2>8. WellFormed(w, top, d)
    BY <2>5, <2>6, <2>7 DEF WellFormed
  <2>9. QED
    BY <2>8 DEF w
<1>15. QED
  BY <1>2, <1>9, <1>13, <1>14 DEF s, e, l

\* An expansion is no error.
LEMMA WrittenIs ==
  /\ Tokens \in SUBSET Tokens
  /\ \A s \in Seq(Kinds(Tokens)) : s \in Seq(Written)
  /\ Failed \notin Seq(Kinds(Tokens)) /\ Failed \notin Seq(Written)
BY SeqOver, FailedAssumption DEF Kinds

\* A body that is expanded for every item but null makes a loop of it.
LEMMA LoopOver ==
  ASSUME NEW body, FindTopLevelLoops(body) # Failed,
         NEW list \in Seq(Items), list # NoList,
         \A i \in DOMAIN list : list[i] # Null =>
           Expand[<<body, Item(list[i])>>] \in Seq(Kinds(Tokens))
  PROVE  Loop(Expand, body, list) \in Seq(Kinds(Tokens))
<1> DEFINE kept == {i \in DOMAIN list : list[i] # Null}
           each == [i \in DOMAIN list |->
                      IF i \in kept THEN BlockBody(Expand, body, list[i], i) ELSE <<>>]
<1>1. Loop(Expand, body, list) =
        IF \E i \in kept : each[i] = Failed THEN Failed ELSE FlattenSeq(each)
  BY DEF Loop
<1>2. DOMAIN list = 1 .. Len(list) /\ Len(list) \in Nat
      /\ \A i \in DOMAIN list : list[i] \in Items /\ i \in Nat
  OBVIOUS
<1>3. Failed \notin Seq(Kinds(Tokens))
  BY WrittenIs
<1>4. ASSUME NEW i \in kept
      PROVE  BlockBody(Expand, body, list[i], i) \in Seq(Kinds(Tokens))
  <2> DEFINE out == Expand[<<body, Item(list[i])>>]
  <2>1. out \in Seq(Kinds(Tokens)) /\ Tokens \in SUBSET Tokens /\ list[i] \in Items /\ i \in Nat
    BY <1>2
  <2>2. BlockBody(Expand, body, list[i], i) =
          IF out = Failed THEN Failed ELSE Substitute(out, list[i], i)
    BY DEF BlockBody
  <2> HIDE DEF out
  <2>3. QED
    BY <1>3, <2>1, <2>2, KindsSubstitute
<1>5. DOMAIN each = 1 .. Len(list) /\ each = [i \in 1 .. Len(list) |-> each[i]]
  BY <1>2
<1>6. \A i \in 1 .. Len(list) : each[i] \in Seq(Kinds(Tokens))
  <2>1. <<>> \in Seq(Kinds(Tokens))
    OBVIOUS
  <2>2. QED
    BY <1>2, <1>4, <2>1
<1>7. kept \subseteq 1 .. Len(list)
  BY <1>2
<1> HIDE DEF kept, each
<1>8. each \in Seq(Seq(Kinds(Tokens)))
  BY <1>2, <1>5, <1>6
<1>9. FlattenSeq(each) \in Seq(Kinds(Tokens))
  BY <1>8, FlattenOf
<1>10. QED
  BY <1>1, <1>3, <1>6, <1>7, <1>9

\* Sets of items by how many levels of lists are in them.
Levels(deep) ==
  /\ deep \in [Nat -> SUBSET Items]
  /\ \A d \in Nat : \A x \in deep[d + 1] :
       x \in Objects /\ SubLists[x] # NoList /\ SubLists[x] \in Seq(deep[d] \cup {Null})

\* The container has a list for a loop of that name with d levels of loops.
Gives(deep, k, tag, d) ==
  d > 0 => /\ Resolve(k, tag) # NoList
           /\ Resolve(k, tag) \in Seq(deep[d - 1] \cup {Null})

\* What a list gives, its items give to the loops one level further in.
LEMMA GivesOn ==
  ASSUME NEW deep, Levels(deep), NEW d \in Nat, NEW x \in deep[d]
  PROVE  Gives(deep, Item(x), "subs", d)
<1>1. CASE d > 0
  <2>1. d - 1 \in Nat /\ d - 1 + 1 = d
    BY <1>1
  <2>2. x \in Objects /\ SubLists[x] # NoList /\ SubLists[x] \in Seq(deep[d - 1] \cup {Null})
    BY <2>1 DEF Levels
  <2>3. Resolve(Item(x), "subs") = SubLists[x]
    BY <2>2 DEF Resolve, Item
  <2>4. QED
    BY <2>2, <2>3 DEF Gives
<1>2. CASE ~(d > 0)
  BY <1>2 DEF Gives
<1>3. QED
  BY <1>1, <1>2

\* A well-formed text is expanded, if each loop has a list to go over.
THEOREM Accepted ==
  ASSUME NEW deep, Levels(deep),
         NEW c \in Texts, NEW top \in LoopNames, NEW d \in Nat, WellFormed(c, top, d),
         NEW k \in Containers, Gives(deep, k, top, d)
  PROVE  Expand[<<c, k>>] \in Seq(Kinds(Tokens))
<1> DEFINE S == {n \in Nat : \A e \in Texts, t \in LoopNames, m \in Nat, j \in Containers :
                   Len(e) = n /\ WellFormed(e, t, m) /\ Gives(deep, j, t, m)
                     => Expand[<<e, j>>] \in Seq(Kinds(Tokens))}
<1>1. ASSUME NEW n \in Nat, \A m \in 0 .. n - 1 : m \in S PROVE n \in S
  <2> SUFFICES ASSUME NEW e \in Texts, NEW t \in LoopNames, NEW m \in Nat, NEW j \in Containers,
                      Len(e) = n, WellFormed(e, t, m), Gives(deep, j, t, m)
               PROVE  Expand[<<e, j>>] \in Seq(Kinds(Tokens))
    OBVIOUS
  <2>1. ASSUME NEW f \in Texts, NEW u \in LoopNames, NEW p \in Nat, NEW i \in Containers,
               Len(f) < n, WellFormed(f, u, p), Gives(deep, i, u, p)
        PROVE  Expand[<<f, i>>] \in Seq(Kinds(Tokens))
    <3>1. Len(f) \in 0 .. n - 1
      BY <2>1 DEF Texts
    <3>2. Len(f) \in S
      BY <1>1, <3>1
    <3>3. QED
      BY <2>1, <3>2
  <2> HIDE DEF S
  <2> DEFINE loops == FindTopLevelLoops(e)
             l == loops[1]
             list == Resolve(j, l.tag)
             mid == Loop(Expand, Body(e, l), list)
             rest == Expand[<<After(e, l), j>>]
             head == Literal(SubSeq(e, 1, l.start - 1))
  <2>2. loops # Failed
    BY WholeLoops
  <2>3. Expand[<<e, j>>] = IF loops = <<>> THEN Literal(e)
                           ELSE IF mid = Failed \/ rest = Failed THEN Failed
                           ELSE head \o mid \o rest
    <3>1. Expand[<<e, j>>] = Expansion(Expand, e, j)
      BY ExpandIs
    <3>2. QED
      BY <2>2, <3>1 DEF Expansion
  <2>4. Tokens \in SUBSET Tokens /\ e \in Seq(Tokens) /\ Texts = Seq(Tokens)
    BY DEF Texts
  <2>5. Literal(e) \in Seq(Kinds(Tokens))
    BY <2>4, KindsLiteral
  <2>6. ASSUME loops # <<>>
        PROVE  head \in Seq(Kinds(Tokens)) /\ mid \in Seq(Kinds(Tokens))
               /\ rest \in Seq(Kinds(Tokens))
    <3>1. /\ l.tag = t /\ m > 0
          /\ WellFormed(Body(e, l), "subs", m - 1) /\ WellFormed(After(e, l), t, m)
      BY <2>6, WholeParts
    <3>2. /\ Body(e, l) \in Texts /\ After(e, l) \in Texts
          /\ SubSeq(e, 1, l.start - 1) \in Seq(Tokens)
          /\ Len(Body(e, l)) < n /\ Len(After(e, l)) < n
      BY <2>2, <2>4, <2>6, Shorter
    <3>3. head \in Seq(Kinds(Tokens))
      BY <2>4, <3>2, KindsLiteral
    <3>4. rest \in Seq(Kinds(Tokens))
      BY <2>1, <3>1, <3>2
    <3>5. /\ list # NoList /\ list \in Seq(deep[m - 1] \cup {Null})
          /\ list \in Seq(Items) \cup {NoList}
      BY <3>1, ContainersOf DEF Gives
    <3> DEFINE body == Body(e, l)
    <3>6. m - 1 \in Nat /\ "subs" \in LoopNames
      BY <3>1 DEF LoopNames
    <3>7. FindTopLevelLoops(body) # Failed
      BY <3>1, <3>2, <3>6, WholeLoops
    <3> HIDE DEF loops, l, list
    <3>8. ASSUME NEW i \in DOMAIN list, list[i] # Null
          PROVE  Expand[<<body, Item(list[i])>>] \in Seq(Kinds(Tokens))
      <4> DEFINE x == list[i]
      <4>1. x \in deep[m - 1] /\ x \in Items
        BY <3>5, <3>8
      <4> HIDE DEF x
      <4>2. Gives(deep, Item(x), "subs", m - 1)
        BY <3>6, <4>1, GivesOn
      <4>3. Item(x) \in Containers
        BY <4>1, ContainersOf
      <4>4. QED
        BY <2>1, <3>1, <3>2, <3>6, <4>2, <4>3 DEF x
    <3> HIDE DEF body
    <3>9. Loop(Expand, body, list) \in Seq(Kinds(Tokens))
      BY <3>5, <3>7, <3>8, LoopOver
    <3>10. QED
      BY <3>3, <3>4, <3>9 DEF body
  <2> HIDE DEF loops, l, list, mid, rest, head
  <2>7. QED
    BY <2>3, <2>5, <2>6, WrittenIs
<1>2. Nat \subseteq S
  <2> HIDE DEF S
  <2>1. QED
    BY <1>1, Strong
<1>3. Len(c) \in S
  BY <1>2 DEF Texts
<1>4. QED
  BY <1>3

\* Items by the levels of lists in them, for templates with loops in loops.
TwoLevels ==
  [d \in Nat |-> IF d = 0 THEN Items
                 ELSE IF d = 1 THEN {x \in Objects : SubLists[x] # NoList} ELSE {}]

\* A list that serves a template does so for each of its loops.
LEMMA ServedIs ==
  ASSUME NEW c \in Texts, NEW list \in Seq(Items), Served(c, list)
  PROVE  /\ Levels(TwoLevels)
         /\ \E d \in Nat \ {0} : /\ WellFormed(c, "items", d)
                                 /\ list \in Seq(TwoLevels[d - 1] \cup {Null})
                                 /\ Gives(TwoLevels, Root(list), "items", d)
<1>1. /\ TwoLevels[0] = Items /\ TwoLevels[1] = {x \in Objects : SubLists[x] # NoList}
      /\ TwoLevels \in [Nat -> SUBSET Items]
      /\ \A d \in Nat \ {0} : TwoLevels[d + 1] = {}
  BY ItemsAssumption DEF TwoLevels
<1>2. ASSUME NEW x \in TwoLevels[1]
      PROVE  x \in Objects /\ SubLists[x] # NoList /\ SubLists[x] \in Seq(Items \cup {Null})
  <2>1. x \in Objects /\ SubLists[x] # NoList /\ SubLists[x] \in Seq(Items)
    BY <1>1, ItemsAssumption
  <2>2. QED
    BY <2>1, SeqOver
<1>3. Levels(TwoLevels)
  <2>1. ASSUME NEW d \in Nat, NEW x \in TwoLevels[d + 1]
        PROVE  /\ x \in Objects /\ SubLists[x] # NoList
               /\ SubLists[x] \in Seq(TwoLevels[d] \cup {Null})
    <3>1. d = 0
      BY <1>1, <2>1
    <3>2. QED
      BY <1>1, <1>2, <2>1, <3>1
  <2>2. QED
    BY <1>1, <2>1 DEF Levels
<1>4. Resolve(Root(list), "items") = list /\ list # NoList
  BY DEF Resolve, Root, Served
<1>5. ASSUME NEW d \in Nat \ {0}, list \in Seq(TwoLevels[d - 1] \cup {Null})
      PROVE  Gives(TwoLevels, Root(list), "items", d)
  BY <1>4, <1>5 DEF Gives
<1>6. CASE WellFormed(c, "items", 1)
  <2>1. list \in Seq(TwoLevels[1 - 1] \cup {Null})
    BY <1>1, SeqOver
  <2>2. 1 \in Nat \ {0}
    OBVIOUS
  <2>3. QED
    BY <1>3, <1>5, <1>6, <2>1, <2>2
<1>7. CASE /\ WellFormed(c, "items", 2)
           /\ \A i \in DOMAIN list :
                list[i] = Null \/ (list[i] \in Objects /\ SubLists[list[i]] # NoList)
  <2>1. \A i \in DOMAIN list : list[i] \in TwoLevels[1] \cup {Null}
    BY <1>1, <1>7
  <2>2. list \in Seq(TwoLevels[2 - 1] \cup {Null})
    <3>1. 2 - 1 = 1
      OBVIOUS
    <3>2. DOMAIN list = 1 .. Len(list) /\ Len(list) \in Nat
          /\ list = [i \in 1 .. Len(list) |-> list[i]]
      OBVIOUS
    <3> DEFINE T == TwoLevels[1] \cup {Null}
    <3> HIDE DEF T
    <3>3. list \in Seq(T)
      BY <2>1, <3>2 DEF T
    <3>4. QED
      BY <3>1, <3>3 DEF T
  <2>3. 2 \in Nat \ {0}
    OBVIOUS
  <2>4. QED
    BY <1>3, <1>5, <1>7, <2>2, <2>3
<1>8. QED
  BY <1>6, <1>7 DEF Served

\* A template that its list serves is never refused: the search for its loops finds
\* them, and the whole, or where it is split the file of any item but null, is a text.
THEOREM ServedAccepted ==
  ASSUME NEW c \in Texts, NEW list \in Seq(Items), Served(c, list)
  PROVE  /\ Expand[<<c, Root(list)>>] \in Seq(Written)
         /\ Splits(c) =>
              LET l == FindTopLevelLoops(c)[1] IN
              /\ Resolve(Root(list), l.tag) # NoList
              /\ FindTopLevelLoops(Body(c, l)) # Failed
              /\ \A i \in DOMAIN list : list[i] # Null => Piece(c, list, i) \in Seq(Written)
<1>1. Levels(TwoLevels) /\ "items" \in LoopNames /\ "subs" \in LoopNames
  BY ServedIs DEF LoopNames
<1>2. PICK d \in Nat \ {0} : /\ WellFormed(c, "items", d)
                             /\ list \in Seq(TwoLevels[d - 1] \cup {Null})
                             /\ Gives(TwoLevels, Root(list), "items", d)
  BY ServedIs
<1>3. Root(list) \in Containers /\ d \in Nat /\ d - 1 \in Nat
  BY ContainersOf
<1>4. Expand[<<c, Root(list)>>] \in Seq(Written)
  BY <1>1, <1>2, <1>3, Accepted, WrittenIs
<1> DEFINE l == FindTopLevelLoops(c)[1]
           body == Body(c, l)
           tail == After(c, l)
<1>5. ASSUME Splits(c)
      PROVE  /\ Resolve(Root(list), l.tag) # NoList
             /\ FindTopLevelLoops(body) # Failed
             /\ \A i \in DOMAIN list : list[i] # Null => Piece(c, list, i) \in Seq(Written)
  <2>1. FindTopLevelLoops(c) # <<>> /\ FindTopLevelLoops(c) # Failed
    BY <1>5 DEF Splits
  <2>2. /\ l.tag = "items" /\ WellFormed(body, "subs", d - 1) /\ WellFormed(tail, "items", d)
    BY <1>1, <1>2, <1>3, <2>1, WholeParts
  <2>3. body \in Texts /\ tail \in Texts
    BY <2>1, Shorter DEF Texts
  <2>4. \A i : Piece(c, list, i) =
          IF BlockBody(Expand, body, list[i], i) = Failed \/ Expand[<<tail, Root(list)>>] = Failed
          THEN Failed ELSE BlockBody(Expand, body, list[i], i) \o Expand[<<tail, Root(list)>>]
    BY DEF Piece, RenderBody
  <2> HIDE DEF l, body, tail
  <2>5. Resolve(Root(list), l.tag) # NoList
    BY <1>2, <1>3, <2>2 DEF Gives
  <2>6. FindTopLevelLoops(body) # Failed
    BY <1>1, <1>3, <2>2, <2>3, WholeLoops
  <2>7. Expand[<<tail, Root(list)>>] \in Seq(Kinds(Tokens))
    BY <1>1, <1>2, <1>3, <2>2, <2>3, Accepted
  <2>8. ASSUME NEW i \in DOMAIN list, list[i] # Null PROVE Piece(c, list, i) \in Seq(Written)
    <3> DEFINE x == list[i]
               out == Expand[<<body, Item(x)>>]
    <3>1. x \in TwoLevels[d - 1] /\ x \in Items /\ i \in Nat
      BY <1>2, <2>8
    <3> HIDE DEF x
    <3>2. Gives(TwoLevels, Item(x), "subs", d - 1)
      BY <1>1, <1>3, <3>1, GivesOn
    <3>3. Item(x) \in Containers
      BY <3>1, ContainersOf
    <3>4. out \in Seq(Kinds(Tokens))
      BY <1>1, <1>3, <2>2, <2>3, <3>2, <3>3, Accepted
    <3>5. BlockBody(Expand, body, x, i) = IF out = Failed THEN Failed ELSE Substitute(out, x, i)
      BY DEF BlockBody
    <3> HIDE DEF out
    <3>6. BlockBody(Expand, body, x, i) \in Seq(Kinds(Tokens))
      BY <3>1, <3>4, <3>5, WrittenIs, KindsSubstitute
    <3> DEFINE main == BlockBody(Expand, body, x, i)
               rest == Expand[<<tail, Root(list)>>]
    <3>7. Piece(c, list, i) = IF main = Failed \/ rest = Failed THEN Failed ELSE main \o rest
      BY <2>4 DEF x
    <3>8. main \in Seq(Kinds(Tokens)) /\ rest \in Seq(Kinds(Tokens))
      BY <2>7, <3>6
    <3> HIDE DEF main, rest
    <3>9. Piece(c, list, i) \in Seq(Kinds(Tokens))
      BY <3>7, <3>8, WrittenIs
    <3>10. QED
      BY <3>9, WrittenIs
  <2>9. QED
    BY <2>5, <2>6, <2>8
<1>6. QED
  BY <1>4, <1>5

=============================================================================
