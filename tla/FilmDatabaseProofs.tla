--------------------------- MODULE FilmDatabaseProofs ---------------------------
(***************************************************************************)
(* Theorems about the hash table and the film database.                    *)
(***************************************************************************)
EXTENDS FilmDatabase, FiniteSetTheorems, WellFoundedInduction, SequenceTheorems, TLAPS

-------------------------------------------------------------------------------
(* Numbers and finite sets *)

\* Every set of naturals that is not empty has a smallest element.
LEMMA Smallest ==
    ASSUME NEW S, S \subseteq Nat, S # {} PROVE \E m \in S : \A n \in S : m =< n
<1> DEFINE Less == OpToRel(<, Nat)
<1>1. IsWellFoundedOn(Less, Nat)
  BY NatLessThanWellFounded
<1>2. \A x, y \in Nat : <<x, y>> \in Less <=> x < y
  BY DEF OpToRel
<1> HIDE DEF Less
<1>3. PICK m \in S : \A y \in S : ~ (<<y, m>> \in Less)
  BY <1>1, WFMin
<1>4. ASSUME NEW n \in S PROVE m =< n
  <2>1. m \in Nat /\ n \in Nat
    OBVIOUS
  <2>2. ~ (n < m)
    BY <1>2, <1>3, <2>1
  <2> QED  BY <2>1, <2>2
<1> QED  BY <1>4

\* The remainder of a division is the only one there is.
LEMMA Remainder ==
    ASSUME NEW n \in Nat \ {0}, NEW q \in Nat, NEW r \in 0 .. n - 1
    PROVE  (n * q + r) % n = r
<1> DEFINE a == n * q + r
           d == a \div n
           m == a % n
<1>1. a \in Nat
  OBVIOUS
<1>2. d \in Int /\ m \in 0 .. n - 1 /\ a = n * d + m
  BY <1>1
<1>3. n * q + r = n * d + m
  BY <1>2
<1> HIDE DEF a, d, m
<1>4. \A x \in Int : x >= 1 => n * x >= n
  OBVIOUS
<1>5. n * (q - d) = m - r /\ n * (d - q) = r - m
  BY <1>2, <1>3
<1>6. ~ (q - d >= 1) /\ ~ (d - q >= 1)
  BY <1>2, <1>4, <1>5
<1>7. d = q
  BY <1>2, <1>6
<1>8. m = r
  BY <1>2, <1>3, <1>7
<1> QED  BY <1>8 DEF m, a

\* A number's remainder can be read off its remainder by twice as much.
LEMMA HalfRemainder ==
    ASSUME NEW n \in Nat \ {0}, NEW a \in Nat PROVE (a % (2 * n)) % n = a % n
<1> DEFINE d == a \div (2 * n)
           r == a % (2 * n)
<1>1. 2 * n \in Nat \ {0} /\ 2 * n = n + n
  OBVIOUS
<1>2. d \in Nat /\ r \in 0 .. n + n - 1 /\ a = (2 * n) * d + r
  <2> DEFINE k == 2 * n
  <2>1. k \in Nat \ {0} /\ k = n + n
    BY <1>1
  <2> HIDE DEF k
  <2>2. a \div k \in Nat /\ a % k \in 0 .. k - 1 /\ a = k * (a \div k) + (a % k)
    BY <2>1
  <2> QED  BY <2>1, <2>2 DEF k
<1> HIDE DEF d, r
<1>3. r \in Nat
  BY <1>2
<1>4. CASE r < n
  <2>1. a = n * (2 * d) + r /\ 2 * d \in Nat /\ r \in 0 .. n - 1
    BY <1>2, <1>4
  <2>2. a % n = r
    BY <2>1, Remainder
  <2>3. r % n = r
    <3>1. r = n * 0 + r /\ 0 \in Nat
      BY <1>3
    <3> QED  BY <2>1, <3>1, Remainder
  <2> QED  BY <2>2, <2>3 DEF r
<1>5. CASE ~ (r < n)
  <2> DEFINE x == r - n
  <2>1. /\ a = n * (2 * d + 1) + x /\ 2 * d + 1 \in Nat
        /\ x \in 0 .. n - 1
        /\ r = n * 1 + x /\ 1 \in Nat
    BY <1>2, <1>3, <1>5
  <2> HIDE DEF x
  <2>2. a % n = x /\ r % n = x
    BY <2>1, Remainder
  <2> QED  BY <2>2 DEF r
<1> QED  BY <1>4, <1>5

\* How many elements a set has after one was added or taken out.
LEMMA Counting ==
    /\ IsFiniteSet({}) /\ Cardinality({}) = 0
    /\ \A S, x : IsFiniteSet(S) =>
          /\ Cardinality(S) \in Nat
          /\ IsFiniteSet(S \cup {x}) /\ IsFiniteSet(S \ {x})
          /\ x \notin S => Cardinality(S \cup {x}) = Cardinality(S) + 1
          /\ x \in S => Cardinality(S \ {x}) = Cardinality(S) - 1
<1>1. IsFiniteSet({}) /\ Cardinality({}) = 0
  BY FS_EmptySet
<1>2. ASSUME NEW S, NEW x, IsFiniteSet(S)
      PROVE  /\ Cardinality(S) \in Nat
             /\ IsFiniteSet(S \cup {x}) /\ IsFiniteSet(S \ {x})
             /\ x \notin S => Cardinality(S \cup {x}) = Cardinality(S) + 1
             /\ x \in S => Cardinality(S \ {x}) = Cardinality(S) - 1
  BY <1>2, FS_CardinalityType, FS_AddElement, FS_RemoveElement
<1> QED  BY <1>1, <1>2

\* Of more blocks than pointers, one has no pointer at it: the pointers of an array of
\* n, and three of each member of W.
PointedAt(b, W, n, a, f, g, h) ==
    (\E i \in 0 .. n - 1 : a[i] = b) \/ (\E w \in W : f[w] = b \/ g[w] = b \/ h[w] = b)

LEMMA FreeBlock ==
    ASSUME NEW B, IsFiniteSet(B), NEW W, IsFiniteSet(W), NEW n \in Nat,
           Cardinality(B) > n + 3 * Cardinality(W),
           NEW a, NEW f, NEW g, NEW h
    PROVE  \E b \in B : ~ PointedAt(b, W, n, a, f, g, h)
<1> DEFINE A == {a[i] : i \in 0 .. n - 1}
           F == {f[w] : w \in W}
           G == {g[w] : w \in W}
           H == {h[w] : w \in W}
           U == A \cup (F \cup (G \cup H))
<1>1. Cardinality(W) \in Nat /\ Cardinality(B) \in Nat
  BY FS_CardinalityType
<1>2. IsFiniteSet(A) /\ Cardinality(A) =< n
  <2>1. IsFiniteSet(0 .. n - 1) /\ Cardinality(0 .. n - 1) = n
    <3>1. n - 1 \in Int /\ 0 \in Int
      OBVIOUS
    <3> DEFINE m == n - 1
    <3>2. IsFiniteSet(0 .. m) /\ Cardinality(0 .. m) = IF 0 > m THEN 0 ELSE m - 0 + 1
      BY <3>1, FS_Interval
    <3> QED  BY <3>2
  <2> DEFINE x == [i \in 0 .. n - 1 |-> a[i]]
  <2>2. x \in Surjection(0 .. n - 1, A)
    BY DEF Surjection
  <2> QED  BY <2>1, <2>2, FS_Surjection DEF ExistsSurjection
<1>3. \A k : LET K == {k[w] : w \in W} IN IsFiniteSet(K) /\ Cardinality(K) =< Cardinality(W)
  <2> TAKE k
  <2> DEFINE K == {k[w] : w \in W}
             x == [w \in W |-> k[w]]
  <2>1. x \in Surjection(W, K)
    BY DEF Surjection
  <2> QED  BY <2>1, FS_Surjection DEF ExistsSurjection
<1>4. /\ IsFiniteSet(F) /\ Cardinality(F) =< Cardinality(W)
      /\ IsFiniteSet(G) /\ Cardinality(G) =< Cardinality(W)
      /\ IsFiniteSet(H) /\ Cardinality(H) =< Cardinality(W)
  BY <1>3
<1>5. \A S, T : IsFiniteSet(S) /\ IsFiniteSet(T) =>
          IsFiniteSet(S \cup T) /\ Cardinality(S \cup T) =< Cardinality(S) + Cardinality(T)
  <2> TAKE S, T
  <2> HAVE IsFiniteSet(S) /\ IsFiniteSet(T)
  <2>1. /\ IsFiniteSet(S \cup T)
        /\ Cardinality(S \cup T) = Cardinality(S) + Cardinality(T) - Cardinality(S \cap T)
    BY FS_Union
  <2>2. Cardinality(S \cap T) \in Nat /\ Cardinality(S) \in Nat /\ Cardinality(T) \in Nat
    BY FS_Intersection, FS_CardinalityType
  <2> QED  BY <2>1, <2>2
<1> HIDE DEF A, F, G, H
<1>6. IsFiniteSet(U) /\ Cardinality(U) =< n + 3 * Cardinality(W)
  <2>1. /\ IsFiniteSet(G \cup H)
        /\ Cardinality(G \cup H) =< Cardinality(G) + Cardinality(H)
    BY <1>4, <1>5
  <2>2. /\ IsFiniteSet(F \cup (G \cup H))
        /\ Cardinality(F \cup (G \cup H)) =< Cardinality(F) + Cardinality(G \cup H)
    BY <1>4, <1>5, <2>1
  <2>3. /\ IsFiniteSet(U)
        /\ Cardinality(U) =< Cardinality(A) + Cardinality(F \cup (G \cup H))
    BY <1>2, <1>5, <2>2
  <2>4. \A S : IsFiniteSet(S) => Cardinality(S) \in Nat
    BY FS_CardinalityType
  <2>5. /\ Cardinality(U) \in Nat /\ Cardinality(F \cup (G \cup H)) \in Nat
        /\ Cardinality(G \cup H) \in Nat /\ Cardinality(A) \in Nat /\ Cardinality(F) \in Nat
        /\ Cardinality(G) \in Nat /\ Cardinality(H) \in Nat
    BY <1>2, <1>4, <2>1, <2>2, <2>3, <2>4
  <2> QED  BY <1>1, <1>2, <1>4, <2>1, <2>2, <2>3, <2>5
<1>7. ~ (B \subseteq U)
  <2> SUFFICES ASSUME B \subseteq U PROVE FALSE
    OBVIOUS
  <2>1. Cardinality(B) =< Cardinality(U)
    BY <1>6, FS_Subset
  <2> QED  BY <1>1, <1>6, <2>1, FS_CardinalityType
<1>8. PICK b \in B : b \notin U
  BY <1>7
<1> QED  BY <1>8 DEF A, F, G, H, PointedAt

-------------------------------------------------------------------------------
(* Lists of elements *)

Element == [key : Key, value : Nat]

\* The places at which a list has a key.
PlacesIn(list, key) == {p \in 1 .. Len(list) : list[p].key = key}

\* A list's first place of a key is one of them.
LEMMA FirstPlace ==
    ASSUME NEW tbl, NEW key, ListOf(tbl, key) \in Seq(Element)
    PROVE  /\ PlacesIn(ListOf(tbl, key), key) = {} <=> PlaceOf(tbl, key) = 0
           /\ PlaceOf(tbl, key) # 0 => PlaceOf(tbl, key) \in PlacesIn(ListOf(tbl, key), key)
<1> DEFINE list == ListOf(tbl, key)
           I == PlacesIn(list, key)
           p == PlaceOf(tbl, key)
<1>1. p = IF I # {} THEN Min(I) ELSE 0
  BY DEF PlaceOf, SelectInSeq, PlacesIn
<1>2. ASSUME I # {} PROVE p \in I /\ p # 0
  <2>1. I \subseteq Nat \ {0} /\ I \subseteq Nat
    BY DEF PlacesIn
  <2> HIDE DEF I
  <2>2. PICK m \in I : \A n \in I : m =< n
    BY <1>2, <2>1, Smallest
  <2>3. Min(I) \in I
    BY <2>2 DEF Min
  <2> QED  BY <1>1, <1>2, <2>1, <2>3
<1> QED  BY <1>1, <1>2

\* What is pushed from a list, head first, onto an empty one, after each of its elements.
PushedUpTo(list, size, i, f, N) ==
    f = [n \in 0 .. N |-> IF n = 0 THEN <<>>
                          ELSE IF Hash[list[n].key] % size = i THEN <<list[n]>> \o f[n - 1]
                          ELSE f[n - 1]]

LEMMA PushedExists ==
    ASSUME NEW list, NEW size, NEW i, NEW N \in Nat
    PROVE  \E f : PushedUpTo(list, size, i, f, N)
<1> DEFINE Bad == {n \in Nat : ~ \E f : PushedUpTo(list, size, i, f, n)}
<1> SUFFICES ASSUME Bad # {} PROVE FALSE
  OBVIOUS
<1>1. PICK m \in Bad : \A n \in Bad : m =< n
  BY Smallest
<1>2. CASE m = 0
  <2> DEFINE f == [n \in 0 .. 0 |-> <<>>]
  <2>1. PushedUpTo(list, size, i, f, 0)
    BY DEF PushedUpTo
  <2> QED  BY <1>1, <1>2, <2>1
<1>3. CASE m # 0
  <2>1. m \in Nat /\ m - 1 \in Nat /\ m - 1 \notin Bad
    BY <1>1, <1>3
  <2>2. PICK f : PushedUpTo(list, size, i, f, m - 1)
    BY <2>1
  <2> DEFINE last == IF Hash[list[m].key] % size = i THEN <<list[m]>> \o f[m - 1] ELSE f[m - 1]
             g == [n \in 0 .. m |-> IF n = m THEN last ELSE f[n]]
  <2>3. \A n \in 0 .. m - 1 :
            f[n] = IF n = 0 THEN <<>>
                   ELSE IF Hash[list[n].key] % size = i THEN <<list[n]>> \o f[n - 1]
                   ELSE f[n - 1]
    BY <2>2 DEF PushedUpTo
  <2>4. ASSUME NEW n \in 0 .. m
        PROVE  g[n] = IF n = 0 THEN <<>>
                      ELSE IF Hash[list[n].key] % size = i THEN <<list[n]>> \o g[n - 1]
                      ELSE g[n - 1]
    <3> HIDE DEF last
    <3>1. CASE n = m
      <4>1. g[n] = last /\ g[n - 1] = f[m - 1] /\ n # 0
        BY <2>1, <3>1, <1>3
      <4> QED  BY <3>1, <4>1 DEF last
    <3>2. CASE n # m
      <4>1. n \in 0 .. m - 1 /\ g[n] = f[n] /\ (n # 0 => g[n - 1] = f[n - 1])
        BY <2>1, <3>2
      <4> QED  BY <2>3, <4>1
    <3> QED  BY <3>1, <3>2
  <2>5. PushedUpTo(list, size, i, g, m)
    BY <2>4, Zenon DEF PushedUpTo
  <2> QED  BY <1>1, <2>5
<1> QED  BY <1>2, <1>3

\* Distributing a list keeps the elements that belong to a bucket, and no others.
LEMMA PushedFacts ==
    ASSUME NEW list \in Seq(Element), NEW size, NEW i
    PROVE  /\ Pushed(list, size, i) \in Seq(Element)
           /\ ToSet(Pushed(list, size, i)) = {e \in ToSet(list) : Hash[e.key] % size = i}
           /\ KeysOnce(list) => KeysOnce(Pushed(list, size, i))
<1> DEFINE N == Len(list)
           f == CHOOSE g : PushedUpTo(list, size, i, g, N)
           Chosen(n) == {list[k] : k \in {j \in 1 .. n : Hash[list[j].key] % size = i}}
           Good(n) == /\ f[n] \in Seq(Element)
                      /\ ToSet(f[n]) = Chosen(n)
                      /\ KeysOnce(list) => KeysOnce(f[n])
<1>1. N \in Nat /\ DOMAIN list = 1 .. N /\ \A n \in 1 .. N : list[n] \in Element
  OBVIOUS
<1>2. PushedUpTo(list, size, i, f, N)
  BY <1>1, PushedExists
<1>3. Pushed(list, size, i) = f[N]
  BY DEF Pushed, PushedUpTo
<1> HIDE DEF f
<1>4. \A n \in 0 .. N : f[n] = IF n = 0 THEN <<>>
                               ELSE IF Hash[list[n].key] % size = i THEN <<list[n]>> \o f[n - 1]
                               ELSE f[n - 1]
  BY <1>2 DEF PushedUpTo
<1>5. Good(0)
  <2>1. f[0] = <<>> /\ <<>> \in Seq(Element)
    <3>1. 0 \in 0 .. N
      BY <1>1
    <3>2. f[0] = <<>>
      BY <1>4, <3>1
    <3> QED  BY <3>2
  <2>3. Chosen(0) = {}
    OBVIOUS
  <2>2. ToSet(<<>>) = {} /\ KeysOnce(<<>>)
    BY DEF ToSet, KeysOnce
  <2> HIDE DEF Chosen
  <2> QED  BY <2>1, <2>2, <2>3
<1>6. ASSUME NEW n \in 1 .. N, Good(n - 1) PROVE Good(n)
  <2> DEFINE s == f[n - 1]
             x == list[n]
  <2>1. /\ s \in Seq(Element) /\ ToSet(s) = Chosen(n - 1) /\ (KeysOnce(list) => KeysOnce(s))
        /\ x \in Element /\ n \in Nat
    BY <1>1, <1>6
  <2>2. f[n] = IF Hash[x.key] % size = i THEN <<x>> \o s ELSE s
    BY <1>1, <1>4
  <2>3. Chosen(n) = IF Hash[x.key] % size = i THEN Chosen(n - 1) \cup {x} ELSE Chosen(n - 1)
    <3>1. 1 .. n = (1 .. n - 1) \cup {n} /\ n \notin 1 .. n - 1
      OBVIOUS
    <3> QED  BY <3>1
  <2>4. KeysOnce(list) => \A e \in Chosen(n - 1) : e.key # x.key
    <3>1. SUFFICES ASSUME KeysOnce(list), NEW j \in 1 .. n - 1
                   PROVE  list[j].key # list[n].key
      OBVIOUS
    <3>2. j \in 1 .. N /\ j # n
      BY <1>1
    <3> QED  BY <3>1, <3>2 DEF KeysOnce
  <2> HIDE DEF Chosen, s, x
  <2>5. CASE Hash[x.key] % size = i
    <3> DEFINE t == <<x>> \o s
    <3>1. /\ t \in Seq(Element) /\ Len(t) = Len(s) + 1 /\ t[1] = x
          /\ \A k \in 2 .. Len(t) : t[k] = s[k - 1] /\ k - 1 \in 1 .. Len(s)
          /\ \A k \in 1 .. Len(s) : s[k] = t[k + 1] /\ k + 1 \in 1 .. Len(t)
          /\ Len(s) \in Nat
      BY <2>1
    <3>2. f[n] = t
      BY <2>2, <2>5
    <3> HIDE DEF t
    <3>3. ToSet(t) = ToSet(s) \cup {x}
      <4>1. ASSUME NEW e \in ToSet(t) PROVE e \in ToSet(s) \cup {x}
        <5>1. PICK k \in 1 .. Len(t) : e = t[k]
          BY <3>1 DEF ToSet
        <5> QED  BY <2>1, <3>1, <5>1 DEF ToSet
      <4>2. ASSUME NEW e \in ToSet(s) PROVE e \in ToSet(t)
        <5>1. PICK k \in 1 .. Len(s) : e = s[k]
          BY <2>1 DEF ToSet
        <5> QED  BY <3>1, <5>1 DEF ToSet
      <4>3. x \in ToSet(t)
        BY <3>1 DEF ToSet
      <4> QED  BY <4>1, <4>2, <4>3
    <3>4. ASSUME KeysOnce(list) PROVE KeysOnce(t)
      <4>1. KeysOnce(s) /\ \A e \in ToSet(s) : e.key # x.key
        BY <2>1, <2>4, <3>4
      <4>2. \A k \in 2 .. Len(t) : t[k] \in ToSet(s)
        BY <2>1, <3>1 DEF ToSet
      <4>3. ASSUME NEW p \in 1 .. Len(t), NEW q \in 1 .. Len(t), t[p].key = t[q].key
            PROVE  p = q
        <5>1. CASE p = 1 \/ q = 1
          <6>1. \A k \in 1 .. Len(t) : k # 1 => k \in 2 .. Len(t)
            BY <3>1
          <6> QED  BY <3>1, <4>1, <4>2, <4>3, <5>1, <6>1
        <5>2. CASE p # 1 /\ q # 1
          <6>1. p \in 2 .. Len(t) /\ q \in 2 .. Len(t)
            BY <3>1, <5>2
          <6>2. /\ t[p] = s[p - 1] /\ p - 1 \in 1 .. Len(s)
                /\ t[q] = s[q - 1] /\ q - 1 \in 1 .. Len(s)
            BY <3>1, <6>1
          <6>3. s[p - 1].key = s[q - 1].key
            BY <4>3, <6>2
          <6>4. p - 1 = q - 1
            BY <4>1, <6>2, <6>3 DEF KeysOnce
          <6> QED  BY <6>1, <6>4
        <5> QED  BY <5>1, <5>2
      <4> QED  BY <4>3 DEF KeysOnce
    <3> QED  BY <2>1, <2>3, <2>5, <3>1, <3>2, <3>3, <3>4
  <2>6. CASE Hash[x.key] % size # i
    BY <2>1, <2>2, <2>3, <2>6 DEF s
  <2> QED  BY <2>5, <2>6
<1> HIDE DEF Good
<1>7. \A n \in 0 .. N : Good(n)
  <2> DEFINE Bad == {n \in 0 .. N : ~ Good(n)}
  <2> SUFFICES ASSUME Bad # {} PROVE FALSE
    OBVIOUS
  <2>1. Bad \subseteq Nat
    BY <1>1
  <2>2. PICK m \in Bad : \A n \in Bad : m =< n
    BY <2>1, Smallest
  <2>3. m # 0 /\ m \in 0 .. N
    BY <1>5, <2>2
  <2>4. m - 1 \in 0 .. N /\ m - 1 \notin Bad /\ m \in 1 .. N
    BY <1>1, <2>2, <2>3
  <2> QED  BY <1>6, <2>2, <2>4
<1>8. Good(N)
  BY <1>1, <1>7
<1>9. Chosen(N) = {e \in ToSet(list) : Hash[e.key] % size = i}
  BY <1>1 DEF ToSet
<1> QED  BY <1>3, <1>8, <1>9 DEF Good

\* A list's elements after a value was replaced, a new head was put before it, or an
\* element was taken out.
LEMMA ReplaceInList ==
    ASSUME NEW list \in Seq(Element), KeysOnce(list), NEW p \in 1 .. Len(list), NEW v \in Nat
    PROVE  LET new == [list EXCEPT ![p].value = v]
           IN  /\ new \in Seq(Element) /\ KeysOnce(new)
               /\ ToSet(new) = {e \in ToSet(list) : e.key # list[p].key}
                                \cup {[key |-> list[p].key, value |-> v]}
<1> DEFINE new == [list EXCEPT ![p].value = v]
           x == [key |-> list[p].key, value |-> v]
<1>1. /\ DOMAIN list = 1 .. Len(list) /\ Len(list) \in Nat
      /\ \A q \in 1 .. Len(list) : list[q] \in Element
  OBVIOUS
<1>2. x \in Element /\ list[p] = [key |-> list[p].key, value |-> list[p].value]
  BY <1>1 DEF Element
<1>3. [list[p] EXCEPT !.value = v] = x
  BY <1>2
<1>4. new = [q \in 1 .. Len(list) |-> IF q = p THEN x ELSE list[q]]
  <2>1. new = [list EXCEPT ![p] = [list[p] EXCEPT !.value = v]]
    OBVIOUS
  <2> QED  BY <1>1, <1>3, <2>1
<1> HIDE DEF new, x
<1>5. new \in Seq(Element) /\ Len(new) = Len(list)
  BY <1>1, <1>2, <1>4
<1>6. KeysOnce(new)
  <2>1. \A q \in 1 .. Len(list) : new[q].key = list[q].key
    BY <1>4 DEF x
  <2> QED  BY <1>5, <2>1 DEF KeysOnce
<1>7. ToSet(new) = {e \in ToSet(list) : e.key # list[p].key} \cup {x}
  <2>1. ASSUME NEW e \in ToSet(new)
        PROVE  e = x \/ (e \in ToSet(list) /\ e.key # list[p].key)
    <3>1. PICK q \in 1 .. Len(list) : e = new[q]
      BY <1>4 DEF ToSet
    <3>2. CASE q = p
      BY <1>4, <3>1, <3>2
    <3>3. CASE q # p
      BY <1>1, <1>4, <3>1, <3>3 DEF KeysOnce, ToSet
    <3> QED  BY <3>2, <3>3
  <2>2. ASSUME NEW e \in ToSet(list), e.key # list[p].key PROVE e \in ToSet(new)
    <3>1. PICK q \in 1 .. Len(list) : e = list[q] /\ q # p
      BY <1>1, <2>2 DEF ToSet
    <3> QED  BY <1>4, <3>1 DEF ToSet
  <2>3. x \in ToSet(new)
    <3>1. new[p] = x /\ p \in DOMAIN new
      BY <1>4
    <3> QED  BY <3>1 DEF ToSet
  <2> QED  BY <2>1, <2>2, <2>3
<1> QED  BY <1>5, <1>6, <1>7 DEF new, x

LEMMA NewHead ==
    ASSUME NEW list \in Seq(Element), KeysOnce(list), NEW x \in Element,
           \A p \in 1 .. Len(list) : list[p].key # x.key
    PROVE  LET new == <<x>> \o list
           IN  new \in Seq(Element) /\ KeysOnce(new) /\ ToSet(new) = ToSet(list) \cup {x}
<1> DEFINE t == <<x>> \o list
<1>1. /\ t \in Seq(Element) /\ Len(t) = Len(list) + 1 /\ t[1] = x
      /\ \A k \in 2 .. Len(t) : t[k] = list[k - 1] /\ k - 1 \in 1 .. Len(list)
      /\ \A k \in 1 .. Len(list) : list[k] = t[k + 1] /\ k + 1 \in 1 .. Len(t)
      /\ Len(list) \in Nat
  OBVIOUS
<1> HIDE DEF t
<1>2. /\ DOMAIN t = 1 .. Len(t) /\ DOMAIN list = 1 .. Len(list)
      /\ \A k \in 1 .. Len(t) : k # 1 => k \in 2 .. Len(t)
  BY <1>1
<1>3. ToSet(t) = ToSet(list) \cup {x}
  <2>1. ASSUME NEW e \in ToSet(t) PROVE e \in ToSet(list) \cup {x}
    <3>1. PICK k \in 1 .. Len(t) : e = t[k]
      BY <1>2 DEF ToSet
    <3> QED  BY <1>1, <1>2, <3>1 DEF ToSet
  <2>2. ASSUME NEW e \in ToSet(list) PROVE e \in ToSet(t)
    <3>1. PICK k \in 1 .. Len(list) : e = list[k]
      BY <1>2 DEF ToSet
    <3> QED  BY <1>1, <1>2, <3>1 DEF ToSet
  <2>3. x \in ToSet(t)
    BY <1>1, <1>2 DEF ToSet
  <2> QED  BY <2>1, <2>2, <2>3
<1>4. ASSUME NEW p \in 1 .. Len(t), NEW q \in 1 .. Len(t), t[p].key = t[q].key PROVE p = q
  <2>1. CASE p = 1 \/ q = 1
    BY <1>1, <1>2, <1>4, <2>1
  <2>2. CASE p # 1 /\ q # 1
    <3>1. /\ p \in 2 .. Len(t) /\ q \in 2 .. Len(t)
          /\ t[p] = list[p - 1] /\ p - 1 \in 1 .. Len(list)
          /\ t[q] = list[q - 1] /\ q - 1 \in 1 .. Len(list)
      BY <1>1, <1>2, <2>2
    <3>2. list[p - 1].key = list[q - 1].key
      BY <1>4, <3>1
    <3>3. p - 1 = q - 1
      BY <3>1, <3>2 DEF KeysOnce
    <3> QED  BY <3>1, <3>3
  <2> QED  BY <2>1, <2>2
<1> QED  BY <1>1, <1>3, <1>4 DEF KeysOnce, t

LEMMA RemoveFromList ==
    ASSUME NEW list \in Seq(Element), KeysOnce(list), NEW p \in 1 .. Len(list)
    PROVE  LET new == RemoveAt(list, p)
           IN  /\ new \in Seq(Element) /\ KeysOnce(new)
               /\ ToSet(new) = {e \in ToSet(list) : e.key # list[p].key}
<1> DEFINE new == RemoveAt(list, p)
           n == Len(list)
           Old(q) == IF q < p THEN q ELSE q + 1
<1>1. n \in Nat /\ DOMAIN list = 1 .. n /\ p \in 1 .. n /\ \A q \in 1 .. n : list[q] \in Element
  OBVIOUS
<1>2. /\ new \in Seq(Element) /\ Len(new) = n - 1
      /\ \A q \in 1 .. n - 1 : new[q] = list[Old(q)]
  <2> DEFINE a == SubSeq(list, 1, p - 1)
             b == SubSeq(list, p + 1, n)
  <2>1. /\ a \in Seq(Element) /\ Len(a) = p - 1 /\ \A q \in 1 .. p - 1 : a[q] = list[q]
    BY <1>1
  <2>2. /\ b \in Seq(Element) /\ Len(b) = n - p /\ \A q \in 1 .. n - p : b[q] = list[p + q]
    <3> DEFINE m == p + 1
    <3> HIDE DEF n
    <3>3. m \in Int /\ n \in Int /\ n - m + 1 = n - p /\ p \in Int /\ m = p + 1
      BY <1>1
    <3>4. (IF m <= n THEN n - m + 1 ELSE 0) = n - p
      BY <1>1
    <3> HIDE DEF m
    <3>1. /\ \A q \in m .. n : list[q] \in Element
          /\ \A q \in 1 .. n - p : m + q - 1 = p + q
      BY <1>1, <3>3
    <3>2. /\ SubSeq(list, m, n) \in Seq(Element)
          /\ Len(SubSeq(list, m, n)) = IF m <= n THEN n - m + 1 ELSE 0
          /\ \A q \in 1 .. n - m + 1 : SubSeq(list, m, n)[q] = list[m + q - 1]
      BY <3>1, <3>3, SubSeqProperties
    <3> QED  BY <3>1, <3>2, <3>3, <3>4
  <2>3. new = a \o b
    BY DEF RemoveAt
  <2> HIDE DEF a, b, new, n
  <2>4. /\ a \o b \in Seq(Element) /\ Len(a \o b) = n - 1
        /\ \A q \in 1 .. n - 1 : (a \o b)[q] = IF q =< p - 1 THEN a[q] ELSE b[q - (p - 1)]
    BY <1>1, <2>1, <2>2
  <2>5. ASSUME NEW q \in 1 .. n - 1 PROVE new[q] = list[Old(q)]
    <3>1. CASE q < p
      BY <1>1, <2>1, <2>3, <2>4, <3>1
    <3>2. CASE ~ (q < p)
      <4>1. q - (p - 1) \in 1 .. n - p /\ p + (q - (p - 1)) = q + 1
        BY <1>1, <3>2
      <4> QED  BY <1>1, <2>2, <2>3, <2>4, <3>2, <4>1
    <3> QED  BY <3>1, <3>2
  <2> QED  BY <2>3, <2>4, <2>5
<1> HIDE DEF new
<1>3. /\ \A q \in 1 .. n - 1 : Old(q) \in 1 .. n /\ Old(q) # p
      /\ \A q, r \in 1 .. n - 1 : Old(q) = Old(r) => q = r
      /\ \A q \in 1 .. n : q # p => \E r \in 1 .. n - 1 : q = Old(r)
  <2>1. /\ \A q \in 1 .. n - 1 : Old(q) \in 1 .. n /\ Old(q) # p
        /\ \A q, r \in 1 .. n - 1 : Old(q) = Old(r) => q = r
    BY <1>1
  <2>2. ASSUME NEW q \in 1 .. n, q # p PROVE \E r \in 1 .. n - 1 : q = Old(r)
    <3>1. CASE q < p
      <4>1. q \in 1 .. n - 1 /\ q = Old(q)
        BY <1>1, <3>1
      <4> QED  BY <4>1
    <3>2. CASE ~ (q < p)
      <4>1. q - 1 \in 1 .. n - 1 /\ q = Old(q - 1)
        BY <1>1, <2>2, <3>2
      <4> QED  BY <4>1
    <3> QED  BY <3>1, <3>2
  <2> QED  BY <2>1, <2>2
<1> HIDE DEF Old
<1>4. KeysOnce(new)
  <2> SUFFICES ASSUME NEW q \in 1 .. n - 1, NEW r \in 1 .. n - 1, new[q].key = new[r].key
               PROVE  q = r
    BY <1>2 DEF KeysOnce
  <2>1. Old(q) = Old(r)
    BY <1>2, <1>3 DEF KeysOnce
  <2> QED  BY <1>3, <2>1
<1>5. ToSet(new) = {e \in ToSet(list) : e.key # list[p].key}
  <2>1. DOMAIN new = 1 .. n - 1
    BY <1>1, <1>2
  <2>2. ASSUME NEW q \in 1 .. n - 1 PROVE new[q] \in ToSet(list) /\ new[q].key # list[p].key
    BY <1>1, <1>2, <1>3 DEF ToSet, KeysOnce
  <2>3. ASSUME NEW e \in ToSet(list), e.key # list[p].key PROVE e \in ToSet(new)
    <3>1. PICK q \in 1 .. n : e = list[q] /\ q # p
      BY <1>1, <2>3 DEF ToSet
    <3>2. PICK r \in 1 .. n - 1 : q = Old(r)
      BY <1>3, <3>1
    <3> QED  BY <1>2, <2>1, <3>1, <3>2 DEF ToSet
  <2> HIDE DEF n
  <2> QED  BY <2>1, <2>2, <2>3 DEF ToSet
<1> QED  BY <1>2, <1>4, <1>5 DEF new

-------------------------------------------------------------------------------
(* Tables *)

IsTable(tbl) ==
    /\ tbl = [size |-> tbl.size, n_elems |-> tbl.n_elems, elems |-> tbl.elems]
    /\ tbl.size \in Nat \ {0} /\ tbl.n_elems \in Nat
    /\ tbl.elems \in [Buckets(tbl) -> Seq(Element)]

\* A table that the operations expect and leave.
Good(tbl) == IsTable(tbl) /\ TableConsistent(tbl) /\ IsFiniteSet(Elements(tbl))

\* A key belongs to one bucket of the table.
LEMMA HashInTable ==
    ASSUME NEW tbl, IsTable(tbl), NEW key \in Key
    PROVE  get_hash(tbl, key) \in Buckets(tbl) /\ ListOf(tbl, key) \in Seq(Element)
<1> DEFINE h == Hash[key]
           n == tbl.size
<1>1. h \in Nat /\ n \in Nat \ {0}
  BY HashTableAssumption DEF IsTable
<1>2. h % n \in 0 .. n - 1
  <2> HIDE DEF h, n
  <2> QED  BY <1>1
<1> QED  BY <1>2 DEF IsTable, ListOf, get_hash, Buckets

\* An element of the table is in the list that its key belongs to.
LEMMA ElementInList ==
    ASSUME NEW tbl, IsTable(tbl), InPlace(tbl), NEW e
    PROVE  /\ e \in Elements(tbl) =>
                 /\ e \in Element /\ e.key \in Key /\ e.value \in Nat
                 /\ \E p \in 1 .. Len(ListOf(tbl, e.key)) : ListOf(tbl, e.key)[p] = e
           /\ \A i \in Buckets(tbl) : \A p \in 1 .. Len(tbl.elems[i]) :
                 tbl.elems[i][p] \in Elements(tbl)
<1>1. ASSUME e \in Elements(tbl)
      PROVE  /\ e \in Element /\ e.key \in Key /\ e.value \in Nat
             /\ \E p \in 1 .. Len(ListOf(tbl, e.key)) : ListOf(tbl, e.key)[p] = e
  <2>1. PICK i \in Buckets(tbl) : e \in ToSet(tbl.elems[i])
    BY <1>1 DEF Elements
  <2>2. tbl.elems[i] \in Seq(Element)
    BY DEF IsTable
  <2>3. PICK p \in 1 .. Len(tbl.elems[i]) : tbl.elems[i][p] = e
    BY <2>1, <2>2 DEF ToSet
  <2>4. e \in Element
    BY <2>2, <2>3
  <2>5. get_hash(tbl, e.key) = i
    BY <2>3 DEF InPlace
  <2> QED  BY <2>3, <2>4, <2>5 DEF ListOf, Element
<1>2. ASSUME NEW i \in Buckets(tbl), NEW p \in 1 .. Len(tbl.elems[i])
      PROVE  tbl.elems[i][p] \in Elements(tbl)
  <2>1. tbl.elems[i] \in Seq(Element)
    BY DEF IsTable
  <2>2. tbl.elems[i][p] \in ToSet(tbl.elems[i])
    BY <2>1 DEF ToSet
  <2> QED  BY <2>2 DEF Elements
<1> QED  BY <1>1, <1>2

\* A search finds the element with the key, if the table has one.
LEMMA Search ==
    ASSUME NEW tbl, IsTable(tbl), InPlace(tbl),
           \A i \in Buckets(tbl) : KeysOnce(tbl.elems[i]), NEW key \in Key
    PROVE  LET p == PlaceOf(tbl, key)
           IN  /\ p # 0 => /\ p \in 1 .. Len(ListOf(tbl, key))
                           /\ ListOf(tbl, key)[p] \in Elements(tbl)
                           /\ ListOf(tbl, key)[p].key = key
               /\ p = 0 => \A e \in Elements(tbl) : e.key # key
               /\ \A e \in Elements(tbl) : e.key = key =>
                     p # 0 /\ e = ListOf(tbl, key)[p]
<1> DEFINE p == PlaceOf(tbl, key)
           list == ListOf(tbl, key)
<1>1. list \in Seq(Element) /\ get_hash(tbl, key) \in Buckets(tbl)
  BY HashInTable
<1>3. /\ PlacesIn(list, key) = {} <=> p = 0
      /\ p # 0 => p \in PlacesIn(list, key)
  BY <1>1, FirstPlace
<1>4. list = tbl.elems[get_hash(tbl, key)]
  BY DEF ListOf
<1>5. KeysOnce(list)
  BY <1>1, <1>4
<1> HIDE DEF list, p
<1>6. ASSUME p # 0 PROVE p \in 1 .. Len(list) /\ list[p] \in Elements(tbl) /\ list[p].key = key
  <2>1. p \in 1 .. Len(list) /\ list[p].key = key
    BY <1>3, <1>6 DEF PlacesIn
  <2> QED  BY <1>1, <1>4, <2>1, ElementInList
<1>7. ASSUME NEW e \in Elements(tbl), e.key = key PROVE p # 0 /\ e = list[p]
  <2>1. PICK q \in 1 .. Len(list) : list[q] = e
    BY <1>7, ElementInList DEF list
  <2>2. q \in PlacesIn(list, key)
    BY <1>7, <2>1 DEF PlacesIn
  <2>3. p # 0
    BY <1>3, <2>2
  <2>4. p = q
    BY <1>5, <1>6, <1>7, <2>1, <2>3 DEF KeysOnce
  <2> QED  BY <2>1, <2>3, <2>4
<1> QED  BY <1>6, <1>7 DEF p, list

LEMMA CreateFacts == Good(ht_create) /\ Elements(ht_create) = {}
<1> DEFINE t == ht_create
<1>1. /\ t.size = INITIAL_SIZE /\ t.n_elems = 0
      /\ t.elems = [i \in Buckets(t) |-> <<>>]
      /\ t = [size |-> t.size, n_elems |-> t.n_elems, elems |-> t.elems]
  BY DEF ht_create, Buckets
<1> HIDE DEF t
<1>2. \A i \in Buckets(t) : t.elems[i] = <<>>
  BY <1>1
<1>3. IsTable(t)
  BY <1>1, HashTableAssumption DEF IsTable
<1>4. Elements(t) = {}
  BY <1>2 DEF Elements, ToSet
<1>5. InPlace(t) /\ \A i \in Buckets(t) : KeysOnce(t.elems[i])
  BY <1>2 DEF InPlace, KeysOnce
<1>6. Cardinality(Elements(t)) = 0 /\ IsFiniteSet(Elements(t))
  BY <1>4, Counting
<1>7. 4 * (t.n_elems - 1) <= 3 * t.size
  BY <1>1, HashTableAssumption
<1> QED  BY <1>1, <1>3, <1>4, <1>5, <1>6, <1>7 DEF Good, TableConsistent, t

\* resize keeps the elements, and each is found in its new place.
LEMMA ResizeFacts ==
    ASSUME NEW tbl, Good(tbl)
    PROVE  /\ IsTable(resize(tbl)) /\ InPlace(resize(tbl))
           /\ \A i \in Buckets(resize(tbl)) : KeysOnce(resize(tbl).elems[i])
           /\ Elements(resize(tbl)) = Elements(tbl)
           /\ resize(tbl).n_elems = tbl.n_elems /\ resize(tbl).size = 2 * tbl.size
<1> DEFINE t == resize(tbl)
           n == tbl.size
           m == 2 * n
<1>1. n \in Nat \ {0} /\ m \in Nat \ {0} /\ tbl.elems \in [0 .. n - 1 -> Seq(Element)]
  BY DEF Good, IsTable, Buckets
<1>2. /\ t.size = m /\ t.n_elems = tbl.n_elems
      /\ t.elems = [i \in 0 .. m - 1 |-> Pushed(tbl.elems[i % n], m, i)]
      /\ t = [size |-> t.size, n_elems |-> t.n_elems, elems |-> t.elems]
      /\ t.n_elems \in Nat
  <2> DEFINE lists == [i \in 0 .. m - 1 |-> Pushed(tbl.elems[i % n], m, i)]
  <2>1. t = [tbl EXCEPT !.size = m, !.elems = lists]
    BY DEF resize
  <2>2. tbl = [size |-> n, n_elems |-> tbl.n_elems, elems |-> tbl.elems] /\ tbl.n_elems \in Nat
    BY DEF Good, IsTable
  <2> HIDE DEF lists, t, m, n
  <2>3. t = [size |-> m, n_elems |-> tbl.n_elems, elems |-> lists]
    BY <2>1, <2>2
  <2> QED  BY <2>2, <2>3 DEF lists
<1>3. /\ InPlace(tbl) /\ (\A i \in Buckets(tbl) : KeysOnce(tbl.elems[i]))
      /\ IsTable(tbl)
  BY DEF Good, TableConsistent
<1>4. \A i \in 0 .. m - 1 : i % n \in 0 .. n - 1
  <2> HIDE DEF n, m
  <2> QED  BY <1>1
<1>5. \A k \in Key : /\ Hash[k] \in Nat /\ Hash[k] % m \in 0 .. m - 1
                     /\ (Hash[k] % m) % n = Hash[k] % n
  <2> TAKE k \in Key
  <2> DEFINE h == Hash[k]
  <2>1. h \in Nat
    BY HashTableAssumption
  <2>2. (h % m) % n = h % n
    BY <1>1, <2>1, HalfRemainder
  <2>3. h % m \in 0 .. m - 1
    <3> HIDE DEF h, m
    <3> QED  BY <1>1, <2>1
  <2> QED  BY <2>1, <2>2, <2>3
<1> DEFINE From(i) == tbl.elems[i % n]
<1>6. ASSUME NEW i \in 0 .. m - 1
      PROVE  /\ t.elems[i] \in Seq(Element)
             /\ KeysOnce(t.elems[i])
             /\ ToSet(t.elems[i]) = {e \in Elements(tbl) : Hash[e.key] % m = i}
  <2>1. /\ t.elems[i] = Pushed(From(i), m, i) /\ i % n \in Buckets(tbl)
        /\ From(i) \in Seq(Element) /\ KeysOnce(From(i))
    BY <1>1, <1>2, <1>3, <1>4 DEF Buckets
  <2>2. ToSet(From(i)) \subseteq Elements(tbl)
    BY <2>1 DEF Elements
  <2>3. ASSUME NEW e \in Elements(tbl), Hash[e.key] % m = i PROVE e \in ToSet(From(i))
    <3>1. /\ e.key \in Key
          /\ \E p \in 1 .. Len(ListOf(tbl, e.key)) : ListOf(tbl, e.key)[p] = e
      BY <1>3, ElementInList
    <3>2. ListOf(tbl, e.key) = From(i)
      BY <1>5, <2>3, <3>1 DEF ListOf, get_hash
    <3> HIDE DEF From
    <3> QED  BY <2>1, <3>1, <3>2 DEF ToSet
  <2> HIDE DEF From, t, m
  <2>4. /\ Pushed(From(i), m, i) \in Seq(Element)
        /\ ToSet(Pushed(From(i), m, i)) = {e \in ToSet(From(i)) : Hash[e.key] % m = i}
        /\ KeysOnce(Pushed(From(i), m, i))
    BY <2>1, PushedFacts
  <2> QED  BY <2>1, <2>2, <2>3, <2>4
<1> HIDE DEF t, m, n
<1>7. IsTable(t)
  BY <1>1, <1>2, <1>6 DEF IsTable, Buckets
<1>8. Elements(t) = Elements(tbl)
  <2>1. ASSUME NEW e \in Elements(tbl) PROVE e \in Elements(t)
    <3>1. e.key \in Key
      BY <1>3, ElementInList
    <3>2. e \in ToSet(t.elems[Hash[e.key] % m])
      BY <1>5, <1>6, <3>1
    <3> QED  BY <1>2, <1>5, <3>1, <3>2 DEF Elements, Buckets
  <2>2. Elements(t) \subseteq Elements(tbl)
    BY <1>2, <1>6 DEF Elements, Buckets
  <2> QED  BY <2>1, <2>2
<1>9. InPlace(t)
  <2> SUFFICES ASSUME NEW i \in 0 .. m - 1, NEW p \in 1 .. Len(t.elems[i])
               PROVE  Hash[t.elems[i][p].key] % m = i
    BY <1>2 DEF InPlace, get_hash, Buckets
  <2>1. t.elems[i][p] \in ToSet(t.elems[i])
    BY <1>6 DEF ToSet
  <2> QED  BY <1>6, <2>1
<1> QED  BY <1>2, <1>6, <1>7, <1>8, <1>9 DEF Buckets, t, m, n

\* Tables whose elements are where they belong, counted or not.
Sound(tbl) ==
    /\ IsTable(tbl) /\ InPlace(tbl)
    /\ \A i \in Buckets(tbl) : KeysOnce(tbl.elems[i])

\* The keys of a bucket are those of its list.
LEMMA BucketFacts ==
    ASSUME NEW tbl, Sound(tbl), NEW i \in Buckets(tbl)
    PROVE  ToSet(tbl.elems[i]) = {e \in Elements(tbl) : get_hash(tbl, e.key) = i}
<1>1. ASSUME NEW e \in ToSet(tbl.elems[i]) PROVE e \in Elements(tbl) /\ get_hash(tbl, e.key) = i
  <2>1. tbl.elems[i] \in Seq(Element)
    BY DEF Sound, IsTable
  <2>2. PICK p \in 1 .. Len(tbl.elems[i]) : e = tbl.elems[i][p]
    BY <1>1, <2>1 DEF ToSet
  <2> QED  BY <1>1, <2>2 DEF Elements, Sound, InPlace
<1>2. ASSUME NEW e \in Elements(tbl), get_hash(tbl, e.key) = i PROVE e \in ToSet(tbl.elems[i])
  <2>1. PICK j \in Buckets(tbl) : e \in ToSet(tbl.elems[j])
    BY <1>2 DEF Elements
  <2>2. tbl.elems[j] \in Seq(Element)
    BY DEF Sound, IsTable
  <2>3. PICK p \in 1 .. Len(tbl.elems[j]) : e = tbl.elems[j][p]
    BY <2>1, <2>2 DEF ToSet
  <2>4. j = i
    BY <1>2, <2>3 DEF Sound, InPlace
  <2> QED  BY <2>1, <2>4
<1> QED  BY <1>1, <1>2

\* A list is replaced by one whose keys belong to the same bucket.
LEMMA ReplaceList ==
    ASSUME NEW tbl, Sound(tbl), NEW i \in Buckets(tbl), NEW list \in Seq(Element),
           KeysOnce(list), \A e \in ToSet(list) : get_hash(tbl, e.key) = i, NEW n \in Nat,
           NEW new, new = [size |-> tbl.size, n_elems |-> n,
                           elems |-> [tbl.elems EXCEPT ![i] = list]]
    PROVE  /\ Sound(new)
           /\ Elements(new) = {e \in Elements(tbl) : get_hash(tbl, e.key) # i} \cup ToSet(list)
<1>1. /\ new.size = tbl.size /\ new.n_elems = n /\ Buckets(new) = Buckets(tbl)
      /\ new.elems = [tbl.elems EXCEPT ![i] = list]
      /\ new = [size |-> new.size, n_elems |-> new.n_elems, elems |-> new.elems]
      /\ tbl.elems \in [Buckets(tbl) -> Seq(Element)]
      /\ tbl.size \in Nat \ {0}
  BY DEF Sound, IsTable, Buckets
<1>2. \A k : get_hash(new, k) = get_hash(tbl, k)
  BY <1>1 DEF get_hash
<1>3. /\ new.elems[i] = list
      /\ \A j \in Buckets(tbl) : j # i => new.elems[j] = tbl.elems[j]
  BY <1>1
<1>4. IsTable(new)
  BY <1>1 DEF IsTable
<1>5. \A j \in Buckets(new) : KeysOnce(new.elems[j])
  BY <1>1, <1>3 DEF Sound
<1>6. InPlace(new)
  <2> SUFFICES ASSUME NEW j \in Buckets(new), NEW p \in 1 .. Len(new.elems[j])
               PROVE  get_hash(new, new.elems[j][p].key) = j
    BY DEF InPlace
  <2> SUFFICES get_hash(tbl, new.elems[j][p].key) = j
    BY <1>2
  <2>1. CASE j = i
    <3>1. list[p] \in ToSet(list)
      BY <1>3, <2>1 DEF ToSet
    <3> QED  BY <1>3, <2>1, <3>1
  <2>2. CASE j # i
    BY <1>1, <1>3, <2>2 DEF Sound, InPlace
  <2> QED  BY <2>1, <2>2
<1>7. Elements(new) = {e \in Elements(tbl) : get_hash(tbl, e.key) # i} \cup ToSet(list)
  <2>1. \A j \in Buckets(tbl) :
            ToSet(tbl.elems[j]) = {e \in Elements(tbl) : get_hash(tbl, e.key) = j}
    BY BucketFacts
  <2>2. ASSUME NEW e \in Elements(new)
        PROVE  e \in ToSet(list) \/ (e \in Elements(tbl) /\ get_hash(tbl, e.key) # i)
    <3>1. PICK j \in Buckets(tbl) : e \in ToSet(new.elems[j])
      BY <1>1, <2>2 DEF Elements
    <3> QED  BY <1>3, <2>1, <3>1
  <2>3. ASSUME NEW e \in Elements(tbl), get_hash(tbl, e.key) # i PROVE e \in Elements(new)
    <3>1. PICK j \in Buckets(tbl) : e \in ToSet(tbl.elems[j])
      BY <2>3 DEF Elements
    <3>2. j # i
      BY <2>1, <2>3, <3>1
    <3> QED  BY <1>1, <1>3, <3>1, <3>2 DEF Elements
  <2>4. ToSet(list) \subseteq Elements(new)
    BY <1>1, <1>3 DEF Elements
  <2> QED  BY <2>2, <2>3, <2>4
<1> QED  BY <1>4, <1>5, <1>6, <1>7 DEF Sound

\* Setting a value: the key has this value and no other, the other keys keep theirs.
LEMMA SetFacts ==
    ASSUME NEW tbl, Good(tbl), NEW key \in Key, NEW value \in Nat
    PROVE  /\ Good(ht_set_value(tbl, key, value))
           /\ Elements(ht_set_value(tbl, key, value)) =
                 {e \in Elements(tbl) : e.key # key} \cup {[key |-> key, value |-> value]}
<1> DEFINE t == IF MustGrow(tbl) THEN resize(tbl) ELSE tbl
           i == get_hash(t, key)
           p == PlaceOf(t, key)
           x == [key |-> key, value |-> value]
           new == ht_set_value(tbl, key, value)
           list == t.elems[i]
<1>1. /\ Sound(t) /\ Elements(t) = Elements(tbl) /\ t.n_elems = tbl.n_elems
      /\ 4 * t.n_elems <= 3 * t.size
      /\ t.n_elems = Cardinality(Elements(t)) /\ IsFiniteSet(Elements(t))
  <2>1. /\ tbl.n_elems \in Nat /\ tbl.size \in Nat \ {0}
        /\ tbl.n_elems = Cardinality(Elements(tbl)) /\ 4 * (tbl.n_elems - 1) <= 3 * tbl.size
        /\ Sound(tbl) /\ IsFiniteSet(Elements(tbl))
    BY DEF Good, IsTable, TableConsistent, Sound
  <2>2. CASE MustGrow(tbl)
    <3>1. /\ Sound(resize(tbl)) /\ Elements(resize(tbl)) = Elements(tbl)
          /\ resize(tbl).n_elems = tbl.n_elems /\ resize(tbl).size = 2 * tbl.size
      BY ResizeFacts DEF Sound
    <3>2. 4 * tbl.n_elems <= 3 * (2 * tbl.size)
      BY <2>1
    <3> QED  BY <2>1, <2>2, <3>1, <3>2
  <2>3. CASE ~ MustGrow(tbl)
    BY <2>1, <2>3 DEF MustGrow
  <2> QED  BY <2>2, <2>3
<1>2. new = IF p # 0 THEN [t EXCEPT !.elems[i][p].value = value]
            ELSE [t EXCEPT !.elems[i] = <<x>> \o @, !.n_elems = @ + 1]
  BY DEF ht_set_value
<1> HIDE DEF t, new
<1>3. /\ i \in Buckets(t) /\ list \in Seq(Element) /\ list = ListOf(t, key)
      /\ KeysOnce(list) /\ x \in Element /\ IsTable(t)
  BY <1>1, HashInTable DEF Sound, ListOf, Element
<1>4. ToSet(list) = {e \in Elements(t) : get_hash(t, e.key) = i}
  BY <1>1, <1>3, BucketFacts
<1>5. /\ p # 0 => /\ p \in 1 .. Len(list) /\ list[p] \in Elements(t) /\ list[p].key = key
      /\ p = 0 => \A e \in Elements(t) : e.key # key
      /\ \A e \in Elements(t) : e.key = key => p # 0 /\ e = list[p]
  BY <1>1, <1>3, Search DEF Sound
<1>6. /\ t = [size |-> t.size, n_elems |-> t.n_elems, elems |-> t.elems] /\ t.n_elems \in Nat
      /\ t.elems \in [Buckets(t) -> Seq(Element)] /\ t.size \in Nat \ {0}
  BY <1>3 DEF IsTable
<1>7. \A e \in Elements(t) : e.key = key => get_hash(t, e.key) = i
  OBVIOUS
<1>8. CASE p # 0
  <2> DEFINE l == [list EXCEPT ![p].value = value]
  <2>1. new = [size |-> t.size, n_elems |-> t.n_elems, elems |-> [t.elems EXCEPT ![i] = l]]
    <3>1. new = [t EXCEPT !.elems = [t.elems EXCEPT ![i] = l]]
      BY <1>2, <1>8
    <3> HIDE DEF l, i
    <3> QED  BY <1>6, <3>1
  <2>2. /\ l \in Seq(Element) /\ KeysOnce(l)
        /\ ToSet(l) = {e \in ToSet(list) : e.key # key} \cup {x}
    <3> HIDE DEF list
    <3>1. p \in 1 .. Len(list) /\ list[p].key = key
      BY <1>5, <1>8
    <3>2. KeysOnce(list) /\ list \in Seq(Element)
      BY <1>3
    <3> HIDE DEF p
    <3>3. /\ l \in Seq(Element) /\ KeysOnce(l)
          /\ ToSet(l) = {e \in ToSet(list) : e.key # list[p].key}
                        \cup {[key |-> list[p].key, value |-> value]}
      BY <3>1, <3>2, ReplaceInList
    <3> HIDE DEF l
    <3> QED  BY <3>1, <3>3
  <2> HIDE DEF l
  <2>3. \A e \in ToSet(l) : get_hash(t, e.key) = i
    BY <1>4, <2>2
  <2>4. /\ Sound(new)
        /\ Elements(new) = {e \in Elements(t) : get_hash(t, e.key) # i} \cup ToSet(l)
    <3> DEFINE m == t.n_elems
    <3>1. m \in Nat
      BY <1>6
    <3>2. new = [size |-> t.size, n_elems |-> m, elems |-> [t.elems EXCEPT ![i] = l]]
      BY <2>1
    <3>3. Sound(t) /\ i \in Buckets(t) /\ l \in Seq(Element) /\ KeysOnce(l)
      BY <1>1, <1>3, <2>2
    <3> HIDE DEF i, m
    <3> QED  BY <2>3, <3>1, <3>2, <3>3, ReplaceList
  <2>5. Elements(new) = {e \in Elements(t) : e.key # key} \cup {x}
    BY <1>4, <1>7, <2>2, <2>4
  <2>6. IsFiniteSet(Elements(new)) /\ Cardinality(Elements(new)) = Cardinality(Elements(t))
    <3> DEFINE S == Elements(t)
               y == list[p]
    <3>1. y \in S /\ {e \in S : e.key # key} = S \ {y}
      BY <1>5, <1>8
    <3>2. x \notin S \ {y}
      BY <1>5
    <3> HIDE DEF S, y, x
    <3>3. Elements(new) = (S \ {y}) \cup {x}
      BY <2>5, <3>1 DEF S
    <3>4. IsFiniteSet(S)
      BY <1>1 DEF S
    <3>5. /\ IsFiniteSet(S \ {y}) /\ Cardinality(S \ {y}) = Cardinality(S) - 1
          /\ Cardinality(S) \in Nat
      BY <3>1, <3>4, Counting
    <3>6. /\ IsFiniteSet((S \ {y}) \cup {x})
          /\ Cardinality((S \ {y}) \cup {x}) = Cardinality(S \ {y}) + 1
      BY <3>2, <3>5, Counting
    <3> QED  BY <3>3, <3>5, <3>6 DEF S
  <2>7. new.n_elems = t.n_elems /\ new.size = t.size
    BY <2>1
  <2>8. 4 * (new.n_elems - 1) <= 3 * new.size
    BY <1>1, <1>6, <2>7
  <2> QED  BY <1>1, <2>4, <2>5, <2>6, <2>7, <2>8 DEF Good, Sound, TableConsistent, new
<1>9. CASE p = 0
  <2> DEFINE l == <<x>> \o list
  <2>1. new = [size |-> t.size, n_elems |-> t.n_elems + 1, elems |-> [t.elems EXCEPT ![i] = l]]
    <3>1. new = [t EXCEPT !.elems = [t.elems EXCEPT ![i] = l], !.n_elems = t.n_elems + 1]
      BY <1>2, <1>9
    <3> HIDE DEF l, i
    <3> QED  BY <1>6, <3>1
  <2>2. l \in Seq(Element) /\ KeysOnce(l) /\ ToSet(l) = ToSet(list) \cup {x}
    <3>1. \A q \in 1 .. Len(list) : list[q].key # x.key
      <4> TAKE q \in 1 .. Len(list)
      <4>1. list[q] \in ToSet(list)
        BY <1>3 DEF ToSet
      <4> QED  BY <1>4, <1>5, <1>9, <4>1
    <3> HIDE DEF list, x
    <3> QED  BY <1>3, <3>1, NewHead
  <2> HIDE DEF l
  <2>3. \A e \in ToSet(l) : get_hash(t, e.key) = i
    BY <1>4, <2>2
  <2>4. /\ Sound(new)
        /\ Elements(new) = {e \in Elements(t) : get_hash(t, e.key) # i} \cup ToSet(l)
    <3> DEFINE m == t.n_elems + 1
    <3>1. m \in Nat
      BY <1>6
    <3>2. new = [size |-> t.size, n_elems |-> m, elems |-> [t.elems EXCEPT ![i] = l]]
      BY <2>1
    <3> HIDE DEF i, m
    <3> QED  BY <1>1, <1>3, <2>2, <2>3, <3>1, <3>2, ReplaceList
  <2>5. Elements(new) = Elements(t) \cup {x} /\ \A e \in Elements(t) : e.key # key
    BY <1>4, <1>5, <1>9, <2>2, <2>4
  <2>6. IsFiniteSet(Elements(new)) /\ Cardinality(Elements(new)) = Cardinality(Elements(t)) + 1
    <3>1. x \notin Elements(t)
      BY <2>5
    <3> HIDE DEF x
    <3> QED  BY <1>1, <2>5, <3>1, Counting
  <2>7. new.n_elems = t.n_elems + 1 /\ new.size = t.size
    BY <2>1
  <2>8. 4 * (new.n_elems - 1) <= 3 * new.size
    BY <1>1, <1>6, <2>7
  <2>9. {e \in Elements(t) : e.key # key} = Elements(t)
    BY <2>5
  <2> QED  BY <1>1, <2>4, <2>5, <2>6, <2>7, <2>8, <2>9 DEF Good, Sound, TableConsistent, new
<1> QED  BY <1>8, <1>9

\* Deleting a key: it is gone, the others keep their values.
LEMMA DeleteFacts ==
    ASSUME NEW tbl, Good(tbl), NEW key \in Key
    PROVE  /\ Good(ht_delete_key(tbl, key))
           /\ Elements(ht_delete_key(tbl, key)) = {e \in Elements(tbl) : e.key # key}
<1> DEFINE i == get_hash(tbl, key)
           p == PlaceOf(tbl, key)
           new == ht_delete_key(tbl, key)
           list == tbl.elems[i]
<1>1. /\ Sound(tbl) /\ tbl.n_elems = Cardinality(Elements(tbl)) /\ IsFiniteSet(Elements(tbl))
      /\ 4 * (tbl.n_elems - 1) <= 3 * tbl.size
  BY DEF Good, TableConsistent, Sound
<1>2. /\ i \in Buckets(tbl) /\ list \in Seq(Element) /\ list = ListOf(tbl, key)
      /\ KeysOnce(list) /\ IsTable(tbl)
  BY <1>1, HashInTable DEF Sound, ListOf
<1>3. ToSet(list) = {e \in Elements(tbl) : get_hash(tbl, e.key) = i}
  BY <1>1, <1>2, BucketFacts
<1>4. /\ p # 0 => /\ p \in 1 .. Len(list) /\ list[p] \in Elements(tbl) /\ list[p].key = key
      /\ p = 0 => \A e \in Elements(tbl) : e.key # key
      /\ \A e \in Elements(tbl) : e.key = key => p # 0 /\ e = list[p]
  BY <1>1, <1>2, Search DEF Sound
<1>5. /\ tbl = [size |-> tbl.size, n_elems |-> tbl.n_elems, elems |-> tbl.elems]
      /\ tbl.elems \in [Buckets(tbl) -> Seq(Element)] /\ tbl.size \in Nat \ {0}
      /\ tbl.n_elems \in Nat
  BY <1>2 DEF IsTable
<1>6. CASE p = 0
  <2>1. new = tbl /\ {e \in Elements(tbl) : e.key # key} = Elements(tbl)
    BY <1>4, <1>6 DEF ht_delete_key
  <2> QED  BY <2>1
<1>7. CASE p # 0
  <2> DEFINE l == RemoveAt(list, p)
             m == tbl.n_elems - 1
             S == Elements(tbl)
             y == list[p]
  <2>1. new = [size |-> tbl.size, n_elems |-> m, elems |-> [tbl.elems EXCEPT ![i] = l]]
    <3>1. new = [tbl EXCEPT !.elems = [tbl.elems EXCEPT ![i] = l], !.n_elems = m]
      BY <1>7 DEF ht_delete_key
    <3> HIDE DEF l, i, m
    <3> QED  BY <1>5, <3>1
  <2>2. /\ l \in Seq(Element) /\ KeysOnce(l)
        /\ ToSet(l) = {e \in ToSet(list) : e.key # key}
    <3> HIDE DEF list
    <3>1. p \in 1 .. Len(list) /\ list[p].key = key
      BY <1>4, <1>7
    <3> HIDE DEF p
    <3> QED  BY <1>2, <3>1, RemoveFromList
  <2> HIDE DEF l
  <2>3. \A e \in ToSet(l) : get_hash(tbl, e.key) = i
    BY <1>3, <2>2
  <2>4. y \in S /\ {e \in S : e.key # key} = S \ {y}
    BY <1>4, <1>7
  <2>5. /\ IsFiniteSet(S \ {y}) /\ Cardinality(S \ {y}) = m /\ m \in Nat
    <3>1. IsFiniteSet(S) /\ tbl.n_elems = Cardinality(S)
      BY <1>1
    <3> HIDE DEF S, y
    <3>2. /\ IsFiniteSet(S \ {y}) /\ Cardinality(S \ {y}) = Cardinality(S) - 1
          /\ Cardinality(S \ {y}) \in Nat
      BY <2>4, <3>1, Counting
    <3> QED  BY <3>1, <3>2
  <2>6. /\ Sound(new)
        /\ Elements(new) = {e \in Elements(tbl) : get_hash(tbl, e.key) # i} \cup ToSet(l)
    <3> HIDE DEF i, m, new
    <3> QED  BY <1>1, <1>2, <2>1, <2>2, <2>3, <2>5, ReplaceList
  <2>7. Elements(new) = {e \in S : e.key # key}
    BY <1>3, <2>2, <2>6
  <2>8. new.n_elems = m /\ new.size = tbl.size
    BY <2>1
  <2>9. 4 * (new.n_elems - 1) <= 3 * new.size
    BY <1>1, <1>5, <2>8
  <2> HIDE DEF new, m
  <2> QED  BY <2>4, <2>5, <2>6, <2>7, <2>8, <2>9 DEF Good, Sound, TableConsistent, new
<1> QED  BY <1>6, <1>7

\* What a table answers is its element with the key, or that there is none.
LEMMA TableAnswers ==
    ASSUME NEW tbl, Good(tbl), NEW key \in Key
    PROVE  /\ (\A e \in Elements(tbl) : e.key # key) => ht_get_value(tbl, key) = NoValue
           /\ \A e \in Elements(tbl) : e.key = key => ht_get_value(tbl, key) = e.value
           /\ ht_get_value(tbl, key) # NoValue =>
                 \E e \in Elements(tbl) : e.key = key /\ ht_get_value(tbl, key) = e.value
<1> DEFINE p == PlaceOf(tbl, key)
           list == ListOf(tbl, key)
<1>1. /\ p # 0 => list[p] \in Elements(tbl) /\ list[p].key = key
      /\ \A e \in Elements(tbl) : e.key = key => p # 0 /\ e = list[p]
  BY Search DEF Good, TableConsistent
<1>2. ht_get_value(tbl, key) = IF p = 0 THEN NoValue ELSE list[p].value
  BY DEF ht_get_value
<1> HIDE DEF p, list
<1> QED  BY <1>1, <1>2

\* The table is a map (hash_table.c): it starts with no key, a key has the value that was
\* set last until it is deleted, and no other key is touched - also when the table grows
\* and when keys share a list.  Every operation leaves a consistent table.
THEOREM TableIsMap ==
    /\ Good(ht_create)
    /\ \A k \in Key : ht_get_value(ht_create, k) = NoValue
    /\ \A tbl : Good(tbl) =>
         \A key \in Key, value \in Nat :
            /\ Good(ht_set_value(tbl, key, value))
            /\ \A k \in Key : ht_get_value(ht_set_value(tbl, key, value), k) =
                              IF k = key THEN value ELSE ht_get_value(tbl, k)
            /\ Good(ht_delete_key(tbl, key))
            /\ \A k \in Key : ht_get_value(ht_delete_key(tbl, key), k) =
                              IF k = key THEN NoValue ELSE ht_get_value(tbl, k)
<1>1. Good(ht_create) /\ \A k \in Key : ht_get_value(ht_create, k) = NoValue
  BY CreateFacts, TableAnswers
<1>2. ASSUME NEW tbl, Good(tbl), NEW key \in Key, NEW value \in Nat
      PROVE  /\ Good(ht_set_value(tbl, key, value))
             /\ \A k \in Key : ht_get_value(ht_set_value(tbl, key, value), k) =
                               IF k = key THEN value ELSE ht_get_value(tbl, k)
  <2> DEFINE new == ht_set_value(tbl, key, value)
             x == [key |-> key, value |-> value]
  <2>1. Good(new) /\ Elements(new) = {e \in Elements(tbl) : e.key # key} \cup {x}
    BY <1>2, SetFacts
  <2> HIDE DEF new
  <2>2. ASSUME NEW k \in Key
        PROVE  ht_get_value(new, k) = IF k = key THEN value ELSE ht_get_value(tbl, k)
    <3>1. /\ (\A e \in Elements(new) : e.key # k) => ht_get_value(new, k) = NoValue
          /\ \A e \in Elements(new) : e.key = k => ht_get_value(new, k) = e.value
          /\ (\A e \in Elements(tbl) : e.key # k) => ht_get_value(tbl, k) = NoValue
          /\ \A e \in Elements(tbl) : e.key = k => ht_get_value(tbl, k) = e.value
      BY <1>2, <2>1, TableAnswers
    <3>2. CASE k = key
      <4>1. x \in Elements(new) /\ x.key = k /\ x.value = value
        BY <2>1, <3>2
      <4> QED  BY <3>1, <3>2, <4>1
    <3>3. CASE k # key
      <4>1. \A e : (e \in Elements(new) /\ e.key = k) <=> (e \in Elements(tbl) /\ e.key = k)
        BY <2>1, <3>3
      <4> QED  BY <3>1, <3>3, <4>1
    <3> QED  BY <3>2, <3>3
  <2> QED  BY <2>1, <2>2 DEF new
<1>3. ASSUME NEW tbl, Good(tbl), NEW key \in Key
      PROVE  /\ Good(ht_delete_key(tbl, key))
             /\ \A k \in Key : ht_get_value(ht_delete_key(tbl, key), k) =
                               IF k = key THEN NoValue ELSE ht_get_value(tbl, k)
  <2> DEFINE new == ht_delete_key(tbl, key)
  <2>1. Good(new) /\ Elements(new) = {e \in Elements(tbl) : e.key # key}
    BY <1>3, DeleteFacts
  <2> HIDE DEF new
  <2>2. ASSUME NEW k \in Key
        PROVE  ht_get_value(new, k) = IF k = key THEN NoValue ELSE ht_get_value(tbl, k)
    <3>1. /\ (\A e \in Elements(new) : e.key # k) => ht_get_value(new, k) = NoValue
          /\ \A e \in Elements(new) : e.key = k => ht_get_value(new, k) = e.value
          /\ (\A e \in Elements(tbl) : e.key # k) => ht_get_value(tbl, k) = NoValue
          /\ \A e \in Elements(tbl) : e.key = k => ht_get_value(tbl, k) = e.value
      BY <1>3, <2>1, TableAnswers
    <3>2. CASE k = key
      BY <2>1, <3>1, <3>2
    <3>3. CASE k # key
      <4>1. \A e : (e \in Elements(new) /\ e.key = k) <=> (e \in Elements(tbl) /\ e.key = k)
        BY <2>1, <3>3
      <4> QED  BY <3>1, <3>3, <4>1
    <3> QED  BY <3>2, <3>3
  <2> QED  BY <2>1, <2>2 DEF new
<1> QED  BY <1>1, <1>2, <1>3

-------------------------------------------------------------------------------
(* The invariant of careful clients *)

IdOf(t)   == ht_get_value(id_map, t)
Stored(i) == films[i] # NoFilm
Busy(w)   == req[w] # Idle
Pc(w)     == th[w].pc

\* The thread has a film that the array does not have yet.
Entering(w) == Pc(w) \in {"map", "store", "putmap", "putfree", "putstore"}

\* Each access is of one method.
MethodOK(w) ==
    /\ Pc(w) = "idle" <=> req[w] = Idle
    /\ Pc(w) \in {"list", "view"} => req[w].method = "list"
    /\ Pc(w) \in {"contains", "map", "store", "load", "count", "location"}
          => req[w].method = "post"
    /\ Pc(w) \in {"destroy", "create"} => req[w].method = "reset"
    /\ Pc(w) = "lookup" => req[w].method \in {"get", "put", "delete"}
    /\ Pc(w) = "get" => req[w].method = "get"
    /\ Pc(w) \in {"put", "putmap", "putfree", "putstore"} => req[w].method = "put"
    /\ Pc(w) \in {"delete", "unmap"} => req[w].method = "delete"

\* Who changes the database is alone with it, or adds a film while others read.
Alone ==
    \A v, w \in Worker : v # w /\ Busy(v) /\ Busy(w) =>
        /\ {req[v].method, req[w].method} \subseteq {"list", "get", "post"}
        /\ Reading(req[v]) \/ Reading(req[w])

\* The films of the array, but for one that is about to be overwritten, and those that
\* are on their way into it or out of it, are allocated, each in a block of its own, and
\* nothing else is allocated.
MemoryOK ==
    /\ \A i \in DOMAIN films : Stored(i) =>
          (films[i].block \in allocated
              <=> \A w \in Worker : Pc(w) = "putstore" => th[w].id # i)
    /\ \A i, j \in DOMAIN films :
          Stored(i) /\ Stored(j) /\ films[i].block = films[j].block => i = j
    /\ \A w \in Worker : Entering(w) =>
          /\ th[w].new # NoFilm /\ th[w].new.block \in allocated
          /\ \A i \in DOMAIN films : Stored(i) => films[i].block # th[w].new.block
    /\ \A w \in Worker : Pc(w) = "unmap" =>
          /\ th[w].f # NoFilm /\ th[w].f.block \in allocated
          /\ \A i \in DOMAIN films : Stored(i) => films[i].block # th[w].f.block
    /\ \A b \in allocated :
          \/ \E i \in DOMAIN films : Stored(i) /\ films[i].block = b
          \/ \E w \in Worker : Entering(w) /\ th[w].new.block = b
          \/ \E w \in Worker : Pc(w) = "unmap" /\ th[w].f.block = b

\* A film is counted, or about to be.
CountOK ==
    \A i \in DOMAIN films : Stored(i) =>
        i < cur_films \/ (i = cur_films /\ \E w \in Worker : Pc(w) \in {"load", "count"})

\* The film under the number has the title; so it does, for the table, before it is
\* stored and after it was taken out.
Titled(i, t) ==
    \/ Stored(i) /\ films[i].title = t
    \/ \E w \in Worker : Pc(w) = "store" /\ th[w].new.title = t /\ i = cur_films
    \/ \E w \in Worker : Pc(w) = "unmap" /\ th[w].f.title = t /\ i = req[w].id

IndexOK ==
    \A t \in Key : /\ IdOf(t) \in {NoValue} \cup DOMAIN films
                   /\ \A i \in DOMAIN films : IdOf(t) = i <=> Titled(i, t)

DbOK == db = "live" \/ \E w \in Worker : Pc(w) = "create"

\* The film is counted under this number.
Under(i, film) == i \in DOMAIN films /\ i < cur_films /\ film # NoFilm /\ films[i] = film

\* What a thread knows of the database.
LocalOK(w) ==
    /\ Pc(w) = "view" => Under(th[w].id, th[w].f)
    /\ Pc(w) \in {"get", "put", "delete"} => Under(req[w].id, th[w].f)
    /\ /\ Pc(w) = "lookup" /\ req[w].method = "put" /\ db_get(req[w].id) # NoFilm
       /\ req[w].film # NoData
       => req[w].film # NoFilm /\ req[w].film.title = films[req[w].id].title
    /\ Pc(w) = "put" /\ req[w].film # NoData =>
          req[w].film # NoFilm /\ req[w].film.title = th[w].f.title
    /\ Pc(w) \in {"putmap", "putfree", "putstore"} =>
          /\ Under(th[w].id, th[w].prev) /\ th[w].f = th[w].prev /\ th[w].id = req[w].id
          /\ Data(th[w].new) = req[w].film /\ th[w].new.title = th[w].f.title
          /\ req[w].film # NoData
    /\ Pc(w) \in {"contains", "map", "store", "load", "count"} => cur_films < MAX_FILMS
    /\ Pc(w) \in {"map", "store", "load", "count", "location"} =>
          th[w].new # NoFilm /\ Data(th[w].new) = req[w].film
    /\ Pc(w) = "map" => IdOf(th[w].new.title) = NoValue
    /\ Pc(w) = "store" => ~ Stored(cur_films)
    /\ Pc(w) \in {"load", "count"} => films[cur_films] = th[w].new
    /\ Pc(w) = "count" => th[w].id = cur_films
    /\ Pc(w) = "location" => Under(th[w].id, th[w].new)
    /\ Pc(w) = "unmap" => /\ req[w].id < cur_films /\ req[w].id \in DOMAIN films
                          /\ ~ Stored(req[w].id)

\* What list_films has collected: all titles up to its place.
ListOK(w) ==
    /\ Pc(w) \in {"list", "view"} =>
          /\ th[w].id <= cur_films
          /\ th[w].items = {<<i, films[i].title>> :
                               i \in {j \in DOMAIN films : j < th[w].id /\ Stored(j)}}
    /\ Pc(w) = "idle" => th[w] = Resting

AnswerOK(w) == answer[w] = NoAnswer <=> Pc(w) # "reply"

Inv ==
    /\ TypeOK /\ ~ undefined /\ Good(id_map)
    /\ \A w \in Worker : MethodOK(w)
    /\ Alone /\ MemoryOK /\ CountOK /\ IndexOK /\ DbOK
    /\ \A w \in Worker : LocalOK(w)
    /\ \A w \in Worker : ListOK(w)

\* The numbers and fields that a thread and a request can have.
LEMMA Shapes ==
    ASSUME TypeOK, NEW w \in Worker
    PROVE  /\ th[w] = [pc |-> th[w].pc, f |-> th[w].f, prev |-> th[w].prev,
                       new |-> th[w].new, id |-> th[w].id, items |-> th[w].items]
           /\ th[w].f \in Film \cup {NoFilm} /\ th[w].prev \in Film \cup {NoFilm}
           /\ th[w].new \in Film \cup {NoFilm} /\ th[w].id \in Number /\ th[w].id \in Nat
           /\ th[w].items \in SUBSET (Number \X Key)
           /\ cur_films \in Number /\ cur_films \in Nat
           /\ DOMAIN films = 0 .. MAX_FILMS - 1 /\ DOMAIN films \subseteq Nat
           /\ \A i \in DOMAIN films : films[i] \in Film \cup {NoFilm}
           /\ req[w] \in Request \cup {Idle}
           /\ MAX_FILMS \in Nat \ {0}
<1>1. th[w] \in Thread /\ req[w] \in Request \cup {Idle}
  BY DEF TypeOK
<1>2. MAX_FILMS \in Nat \ {0}
  BY FilmDatabaseAssumption
<1>3. /\ cur_films \in Number /\ DOMAIN films = 0 .. MAX_FILMS - 1
      /\ \A i \in DOMAIN films : films[i] \in Film \cup {NoFilm}
  BY DEF TypeOK
<1>4. Number \subseteq Nat /\ 0 .. MAX_FILMS - 1 \subseteq Nat
  BY <1>2 DEF Number
<1>5. /\ th[w] = [pc |-> th[w].pc, f |-> th[w].f, prev |-> th[w].prev,
                  new |-> th[w].new, id |-> th[w].id, items |-> th[w].items]
      /\ th[w].f \in Film \cup {NoFilm} /\ th[w].prev \in Film \cup {NoFilm}
      /\ th[w].new \in Film \cup {NoFilm} /\ th[w].id \in Number
      /\ th[w].items \in SUBSET (Number \X Key)
  BY <1>1 DEF Thread
<1> QED  BY <1>1, <1>2, <1>3, <1>4, <1>5

LEMMA RequestShapes ==
    ASSUME NEW r \in Request
    PROVE  /\ r.method \in {"list", "reset", "post", "get", "delete", "put"}
           /\ r.method \in {"get", "put", "delete"} => r.id \in Nat
           /\ r.method = "post" => r.film \in FilmData \cup {NoFilm}
           /\ r.method = "put" => r.film \in FilmData \cup {NoFilm, NoData}
           /\ r # Idle
<1>1. CASE r \in [method : {"list", "reset"}]
  BY <1>1, DistinctAssumption
<1>2. CASE r \in [method : {"post"}, film : FilmData \cup {NoFilm}]
  BY <1>2, DistinctAssumption
<1>3. CASE r \in [method : {"get", "delete"}, id : Nat]
  BY <1>3, DistinctAssumption
<1>4. CASE r \in [method : {"put"}, id : Nat, film : FilmData \cup {NoFilm, NoData}]
  BY <1>4, DistinctAssumption
<1> QED  BY <1>1, <1>2, <1>3, <1>4, RequestAssumption

\* A film is no NoFilm, and neither is its data.
LEMMA FilmShapes ==
    /\ \A f \in Film : /\ f # NoFilm /\ f.block \in Block /\ f.title \in Key
                       /\ Data(f) = [title |-> f.title, body |-> f.body]
                       /\ Data(f) \in FilmData /\ Data(f) # NoFilm /\ Data(f).title = f.title
    /\ \A d \in FilmData : d # NoFilm /\ d.title \in Key
    /\ Data(NoFilm) = NoFilm
<1>1. \A f \in Film : f # NoFilm /\ f.block \in Block /\ f.title \in Key /\ f.body \in Body
  BY DistinctAssumption DEF Film
<1>2. \A d \in FilmData : d # NoFilm /\ d.title \in Key
  BY DistinctAssumption DEF FilmData
<1>3. ASSUME NEW f \in Film
      PROVE  /\ Data(f) = [title |-> f.title, body |-> f.body]
             /\ Data(f) \in FilmData
  BY <1>1 DEF Data, FilmData
<1> QED  BY <1>1, <1>2, <1>3 DEF Data

\* While a thread changes the database, the others read a film or wait; a thread that
\* frees something is alone.
LEMMA Others ==
    ASSUME Inv, NEW w \in Worker, NEW v \in Worker, v # w
    PROVE  /\ Pc(w) \in {"contains", "map", "store", "load", "count", "location"} =>
                 /\ Pc(v) \in {"idle", "reply", "list", "view", "lookup", "get"}
                 /\ Pc(v) = "lookup" => req[v].method = "get"
           /\ Pc(w) \in {"destroy", "create", "put", "putmap", "putfree", "putstore",
                         "delete", "unmap"} => Pc(v) = "idle"
           /\ Pc(w) = "lookup" /\ req[w].method # "get" => Pc(v) = "idle"
<1>1. /\ MethodOK(w) /\ MethodOK(v) /\ th[v] \in Thread /\ th[w] \in Thread
      /\ (Busy(v) /\ Busy(w) =>
            /\ {req[v].method, req[w].method} \subseteq {"list", "get", "post"}
            /\ Reading(req[v]) \/ Reading(req[w]))
  BY DEF Inv, TypeOK, Alone
<1>2. Pc(v) \in {"idle", "reply", "list", "view", "contains", "map", "store", "load", "count",
                 "location", "destroy", "create", "lookup", "get", "put", "putmap",
                 "putfree", "putstore", "delete", "unmap"}
  BY <1>1 DEF Thread, Pc
<1> QED  BY <1>1, <1>2 DEF MethodOK, Busy, Reading

\* malloc finds a block that nothing points at.
LEMMA ParseFacts ==
    ASSUME Inv, NEW w \in Worker, req[w].film \in FilmData
    PROVE  LET new == parse_film(w)
           IN  /\ new \in Film /\ new # NoFilm /\ new.block \notin allocated
               /\ Data(new) = req[w].film /\ new.title = req[w].film.title
               /\ \A i \in DOMAIN films : Stored(i) => films[i].block # new.block
<1> DEFINE a == [i \in 0 .. MAX_FILMS - 1 |-> films[i].block]
           f == [v \in Worker |-> th[v].f.block]
           g == [v \in Worker |-> th[v].prev.block]
           h == [v \in Worker |-> th[v].new.block]
           Free(b) == /\ b \in Block \ allocated
                      /\ \A p \in Pointers \ {NoFilm} : p.block # b
           b0 == CHOOSE b \in Block \ allocated : \A p \in Pointers \ {NoFilm} : p.block # b
           new == parse_film(w)
<1>1. /\ IsFiniteSet(Worker) /\ IsFiniteSet(Block) /\ MAX_FILMS \in Nat
      /\ Cardinality(Block) > MAX_FILMS + 3 * Cardinality(Worker)
  BY FilmDatabaseAssumption
<1>2. PICK b \in Block : /\ \A i \in 0 .. MAX_FILMS - 1 : a[i] # b
                         /\ \A v \in Worker : f[v] # b /\ g[v] # b /\ h[v] # b
  <2> HIDE DEF a, f, g, h
  <2>1. \E b \in Block : ~ PointedAt(b, Worker, MAX_FILMS, a, f, g, h)
    BY <1>1, FreeBlock
  <2> QED  BY <2>1 DEF PointedAt
<1>3. DOMAIN films = 0 .. MAX_FILMS - 1
  BY DEF Inv, TypeOK
<1>4. b \notin allocated
  BY <1>2, <1>3 DEF Inv, MemoryOK
<1>5. ASSUME NEW p \in Pointers \ {NoFilm} PROVE p.block # b
  <2>1. \/ \E i \in DOMAIN films : p = films[i]
        \/ \E v \in Worker : p = th[v].f \/ p = th[v].prev \/ p = th[v].new
    BY DEF Pointers
  <2> QED  BY <1>2, <1>3, <2>1
<1>6. Free(b0)
  BY <1>4, <1>5
<1>7. new = [block |-> b0, title |-> req[w].film.title, body |-> req[w].film.body]
  BY FilmShapes DEF parse_film
<1> HIDE DEF b0
<1>8. /\ req[w].film = [title |-> req[w].film.title, body |-> req[w].film.body]
      /\ req[w].film.title \in Key /\ req[w].film.body \in Body
  BY DEF FilmData
<1>9. new \in Film /\ new.block = b0 /\ new.title = req[w].film.title
      /\ new.body = req[w].film.body
  BY <1>6, <1>7, <1>8 DEF Film
<1>10. Data(new) = req[w].film /\ new # NoFilm
  BY <1>8, <1>9, FilmShapes
<1>11. \A i \in DOMAIN films : Stored(i) => films[i].block # b0
  BY <1>6 DEF Pointers, Stored
<1> QED  BY <1>6, <1>9, <1>10, <1>11

\* A thread changes nothing but its own variables.
LEMMA QuietStep ==
    ASSUME Inv, NEW w \in Worker, NEW x \in Thread, th' = [th EXCEPT ![w] = x],
           UNCHANGED <<shared, undefined>>,
           req' \in [Worker -> Request \cup {Idle}],
           \A v \in Worker : v # w => req'[v] = req[v],
           ~ {Pc(w), x.pc} \cap {"map", "store", "load", "count", "putmap", "putfree",
                                "putstore", "unmap", "create"} # {},
           MethodOK(w)', Alone', LocalOK(w)', ListOK(w)'
    PROVE  Inv'
<1>1. TypeOK /\ th \in [Worker -> Thread]
  BY DEF Inv, TypeOK
<1>2. /\ th'[w] = x /\ (\A v \in Worker : v # w => th'[v] = th[v])
      /\ films' = films /\ id_map' = id_map /\ cur_films' = cur_films /\ db' = db
      /\ allocated' = allocated /\ undefined' = undefined
  BY <1>1 DEF shared
<1>3. TypeOK'
  BY <1>1, <1>2 DEF TypeOK
<1>4. \A v \in Worker, l \in {"map", "store", "load", "count", "putmap", "putfree",
                              "putstore", "unmap", "create"} :
          /\ Pc(v)' = l <=> Pc(v) = l
          /\ Pc(v) = l => th'[v] = th[v] /\ req'[v] = req[v]
  BY <1>2 DEF Pc
<1>5. /\ \A v \in Worker : Entering(v)' <=> Entering(v)
      /\ \A v \in Worker : Entering(v) \/ Pc(v) = "unmap" => th'[v] = th[v] /\ req'[v] = req[v]
  BY <1>4 DEF Entering
<1>6. MemoryOK'
  BY <1>2, <1>4, <1>5 DEF Inv, MemoryOK, Stored
<1>7. CountOK'
  BY <1>2, <1>4 DEF Inv, CountOK, Stored
<1>8. IndexOK'
  <2>1. \A i, t : Titled(i, t)' <=> Titled(i, t)
    BY <1>2, <1>4 DEF Titled, Stored
  <2>2. \A t : IdOf(t)' = IdOf(t)
    BY <1>2 DEF IdOf
  <2> QED  BY <1>2, <2>1, <2>2 DEF Inv, IndexOK
<1>9. DbOK'
  BY <1>2, <1>4 DEF Inv, DbOK
<1>10. ASSUME NEW v \in Worker PROVE MethodOK(v)' /\ LocalOK(v)' /\ ListOK(v)'
  <2>1. CASE v = w
    BY <2>1
  <2>2. CASE v # w
    <3>1. th'[v] = th[v] /\ req'[v] = req[v]
      BY <1>2, <2>2
    <3>2. MethodOK(v)'
      BY <3>1 DEF Inv, MethodOK, Pc
    <3>3. LocalOK(v)'
      BY <1>2, <3>1 DEF Inv, LocalOK, Pc, Under, IdOf, Stored, db_get
    <3>4. ListOK(v)'
      BY <1>2, <3>1 DEF Inv, ListOK, Pc, Stored
    <3> QED  BY <3>2, <3>3, <3>4
  <2> QED  BY <2>1, <2>2
<1>11. ~ undefined' /\ Good(id_map)'
  BY <1>2 DEF Inv
<1> QED  BY <1>3, <1>6, <1>7, <1>8, <1>9, <1>10, <1>11 DEF Inv

LEMMA RestingFacts ==
    /\ Resting \in Thread
    /\ \A l \in {"idle", "reply", "list", "contains", "destroy", "lookup"} :
          /\ [Resting EXCEPT !.pc = l] \in Thread
          /\ [Resting EXCEPT !.pc = l] = [pc |-> l, f |-> NoFilm, prev |-> NoFilm,
                                          new |-> NoFilm, id |-> 0, items |-> {}]
<1>1. 0 \in Number
  BY FilmDatabaseAssumption DEF Number
<1> DEFINE S == SUBSET (Number \X Key)
<1>2. {} \in S
  OBVIOUS
<1> HIDE DEF S
<1>3. ASSUME NEW l \in {"idle", "reply", "list", "contains", "destroy", "lookup"}
      PROVE  /\ [Resting EXCEPT !.pc = l] = [pc |-> l, f |-> NoFilm, prev |-> NoFilm,
                                            new |-> NoFilm, id |-> 0, items |-> {}]
             /\ [pc |-> l, f |-> NoFilm, prev |-> NoFilm, new |-> NoFilm, id |-> 0,
                 items |-> {}] \in Thread
  BY <1>1, <1>2 DEF Resting, Thread, S
<1> QED  BY <1>3 DEF Resting

LEMMA AcceptStep ==
    ASSUME Inv, NEW w \in Worker, NEW r \in Request, Careful(r), Accept(w, r)
    PROVE  Inv'
<1> DEFINE l == Entry(r.method)
           x == [Resting EXCEPT !.pc = l]
<1>1. /\ TypeOK /\ MethodOK(w) /\ ListOK(w) /\ Alone
      /\ th \in [Worker -> Thread] /\ req \in [Worker -> Request \cup {Idle}]
  BY DEF Inv, TypeOK
<1>2. Pc(w) = "idle" /\ req[w] = Idle /\ th[w] = Resting
  BY <1>1 DEF Accept, At, MethodOK, ListOK, Pc
<1>3. /\ l \in {"list", "contains", "destroy", "lookup"}
      /\ l = "list" => r.method = "list"
      /\ l = "contains" => r.method = "post"
      /\ l = "destroy" => r.method = "reset"
      /\ l = "lookup" => r.method \in {"get", "put", "delete"}
      /\ r # Idle
  BY RequestShapes DEF Entry
<1>4. /\ req' = [req EXCEPT ![w] = r] /\ th' = [th EXCEPT ![w] = x]
      /\ UNCHANGED <<shared, undefined>>
  BY <1>2 DEF Accept
<1> HIDE DEF l
<1>5. /\ x \in Thread
      /\ x = [pc |-> l, f |-> NoFilm, prev |-> NoFilm, new |-> NoFilm, id |-> 0, items |-> {}]
  BY <1>3, RestingFacts
<1> HIDE DEF x
<1>6. /\ th'[w] = x /\ req'[w] = r /\ Pc(w)' = l
      /\ films' = films /\ cur_films' = cur_films
  BY <1>1, <1>4, <1>5 DEF Pc, shared
<1>7. MethodOK(w)'
  BY <1>3, <1>6 DEF MethodOK
<1>8. /\ req' \in [Worker -> Request \cup {Idle}]
      /\ \A v \in Worker : v # w => req'[v] = req[v]
  BY <1>1, <1>4
<1>9. Alone'
  BY <1>1, <1>2, <1>6, <1>8 DEF Alone, Busy, Careful, Reading
<1>10. LocalOK(w)'
  <2>1. l = "contains" => cur_films < MAX_FILMS
    BY <1>3 DEF Careful
  <2>2. l = "lookup" /\ r.method = "put" /\ db_get(r.id) # NoFilm /\ r.film # NoData =>
            r.film # NoFilm /\ r.film.title = films[r.id].title
    BY DEF Careful
  <2>3. \A i : db_get(i)' = db_get(i)
    BY <1>6 DEF db_get
  <2> QED  BY <1>3, <1>6, <2>1, <2>2, <2>3 DEF LocalOK
<1>11. ListOK(w)'
  <2>1. cur_films \in Nat /\ DOMAIN films \subseteq Nat
    BY <1>1, Shapes
  <2>2. {j \in DOMAIN films : j < 0 /\ Stored(j)} = {}
    BY <2>1
  <2> QED  BY <1>3, <1>5, <1>6, <2>1, <2>2 DEF ListOK, Stored
<1>12. ~ {Pc(w), x.pc} \cap {"map", "store", "load", "count", "putmap", "putfree",
                              "putstore", "unmap", "create"} # {}
  BY <1>2, <1>3, <1>5
<1> QED
  BY <1>4, <1>5, <1>7, <1>8, <1>9, <1>10, <1>11, <1>12, QuietStep

\* A thread that ends its request without another change.
LEMMA AnswerStep ==
    ASSUME Inv, NEW w \in Worker, NEW a, Answer(w, a), UNCHANGED <<shared, undefined>>,
           Pc(w) \notin {"idle", "map", "store", "load", "count", "putmap", "putfree",
                         "putstore", "unmap", "create"}
    PROVE  Inv'
<1> DEFINE x == [Resting EXCEPT !.pc = "reply"]
<1>1. th \in [Worker -> Thread] /\ req \in [Worker -> Request \cup {Idle}] /\ MethodOK(w) /\ Alone
  BY DEF Inv, TypeOK
<1>2. /\ x \in Thread
      /\ x = [pc |-> "reply", f |-> NoFilm, prev |-> NoFilm, new |-> NoFilm, id |-> 0,
              items |-> {}]
  BY RestingFacts
<1>3. th' = [th EXCEPT ![w] = x] /\ req' = req
  BY DEF Answer
<1> HIDE DEF x
<1>4. th'[w] = x /\ Pc(w)' = "reply"
  BY <1>1, <1>2, <1>3 DEF Pc
<1>5. MethodOK(w)' /\ LocalOK(w)' /\ ListOK(w)'
  BY <1>1, <1>3, <1>4 DEF MethodOK, LocalOK, ListOK
<1>6. Alone'
  BY <1>1, <1>3 DEF Alone, Busy
<1> QED  BY <1>1, <1>2, <1>3, <1>5, <1>6, QuietStep

LEMMA ReplyStep ==
    ASSUME Inv, NEW w \in Worker, Reply(w) PROVE Inv'
<1>1. /\ th \in [Worker -> Thread] /\ req \in [Worker -> Request \cup {Idle}]
      /\ MethodOK(w) /\ Alone
  BY DEF Inv, TypeOK
<1>2. /\ Pc(w) = "reply" /\ Resting \in Thread /\ Resting.pc = "idle"
      /\ th' = [th EXCEPT ![w] = Resting] /\ req' = [req EXCEPT ![w] = Idle]
      /\ UNCHANGED <<shared, undefined>>
  BY RestingFacts DEF Reply, At, Pc, Resting
<1>3. th'[w] = Resting /\ Pc(w)' = "idle" /\ req'[w] = Idle
  BY <1>1, <1>2 DEF Pc
<1>4. MethodOK(w)' /\ LocalOK(w)' /\ ListOK(w)'
  BY <1>3 DEF MethodOK, LocalOK, ListOK, Resting
<1>5. /\ req' \in [Worker -> Request \cup {Idle}]
      /\ \A v \in Worker : v # w => req'[v] = req[v]
  BY <1>1, <1>2
<1>6. Alone'
  BY <1>1, <1>3, <1>5 DEF Alone, Busy, Reading
<1> QED  BY <1>2, <1>4, <1>5, <1>6, QuietStep

\* A thread of careful clients finds the database, and the numbers it looks at in the
\* array.
LEMMA Present ==
    ASSUME Inv, NEW w \in Worker
    PROVE  /\ Pc(w) \notin {"idle", "create"} => Live
           /\ \A i \in Nat : InArray(i)
<1>1. DbOK /\ MethodOK(w) /\ TypeOK
  BY DEF Inv
<1>2. ASSUME Pc(w) \notin {"idle", "create"} PROVE Live
  <2> SUFFICES ASSUME NEW v \in Worker, Pc(v) = "create" PROVE FALSE
    BY <1>1 DEF DbOK, Live
  <2>1. v # w
    BY <1>2
  <2> QED  BY <1>2, <2>1, Others
<1>3. \A i \in Nat : InArray(i)
  <2>1. cur_films \in 0 .. MAX_FILMS /\ DOMAIN films = 0 .. MAX_FILMS - 1 /\ MAX_FILMS \in Nat
    BY <1>1, FilmDatabaseAssumption DEF TypeOK, Number
  <2> QED  BY <2>1 DEF InArray
<1> QED  BY <1>2, <1>3

\* A film of the array that no thread is about to replace is held.
LEMMA StoredIsHeld ==
    ASSUME Inv, NEW i \in DOMAIN films, Stored(i),
           \A v \in Worker : Pc(v) # "putstore"
    PROVE  Held(films[i])
  BY DEF Inv, MemoryOK, Held, Stored

LEMMA ListNextStep ==
    ASSUME Inv, NEW w \in Worker, ListNext(w) PROVE Inv'
<1> DEFINE i == th[w].id
<1>1. /\ TypeOK /\ MethodOK(w) /\ ListOK(w) /\ LocalOK(w) /\ Alone
      /\ th \in [Worker -> Thread] /\ req \in [Worker -> Request \cup {Idle}]
      /\ th[w] \in Thread
  BY DEF Inv, TypeOK
<1>2. /\ Pc(w) = "list" /\ i \in Nat /\ i \in Number /\ cur_films \in Number
      /\ DOMAIN films = 0 .. MAX_FILMS - 1 /\ cur_films \in Nat /\ MAX_FILMS \in Nat
  BY <1>1, Shapes DEF ListNext, At, Pc
<1>3. Live /\ (i < cur_films => i \in DOMAIN films)
  BY <1>2, Present DEF InArray
<1>4. /\ UNCHANGED <<shared, undefined>>
      /\ IF i >= cur_films THEN Answer(w, [code |-> 200, items |-> th[w].items])
         ELSE IF films[i] = NoFilm THEN Goto(w, [th[w] EXCEPT !.id = i + 1])
         ELSE Goto(w, [th[w] EXCEPT !.pc = "view", !.f = films[i]])
  BY <1>3 DEF ListNext, Using, shared
<1>5. CASE i >= cur_films
  BY <1>2, <1>4, <1>5, AnswerStep
<1>6. CASE i < cur_films /\ films[i] = NoFilm
  <2> DEFINE x == [th[w] EXCEPT !.id = i + 1]
  <2>1. i + 1 \in Number /\ i + 1 <= cur_films
    BY <1>2, <1>6 DEF Number
  <2>2. x \in Thread /\ x.pc = "list" /\ x.id = i + 1 /\ x.items = th[w].items
    BY <1>1, <1>2, <2>1 DEF Thread, Pc
  <2>3. th' = [th EXCEPT ![w] = x] /\ req' = req
    BY <1>2, <1>4, <1>6 DEF Goto
  <2> HIDE DEF x
  <2>4. th'[w] = x /\ Pc(w)' = "list" /\ films' = films /\ cur_films' = cur_films
    BY <1>1, <1>4, <2>2, <2>3 DEF Pc, shared
  <2>5. MethodOK(w)' /\ LocalOK(w)'
    BY <1>1, <1>2, <2>3, <2>4 DEF MethodOK, LocalOK
  <2>6. ListOK(w)'
    <3>1. {j \in DOMAIN films : j < i + 1 /\ Stored(j)} = {j \in DOMAIN films : j < i /\ Stored(j)}
      BY <1>2, <1>6 DEF Stored
    <3>2. th[w].items = {<<j, films[j].title>> :
                             j \in {k \in DOMAIN films : k < i /\ Stored(k)}}
      BY <1>1, <1>2 DEF ListOK
    <3>3. th[w].items = {<<j, films[j].title>> :
                             j \in {k \in DOMAIN films : k < i + 1 /\ Stored(k)}}
      BY <3>1, <3>2
    <3> QED  BY <2>1, <2>2, <2>4, <3>3 DEF ListOK, Stored
  <2>7. Alone'
    BY <1>1, <2>3 DEF Alone, Busy
  <2> QED  BY <1>1, <1>2, <1>4, <2>2, <2>3, <2>5, <2>6, <2>7, QuietStep
<1>7. CASE i < cur_films /\ films[i] # NoFilm
  <2> DEFINE x == [th[w] EXCEPT !.pc = "view", !.f = films[i]]
  <2>1. films[i] \in Film \cup {NoFilm} /\ i \in DOMAIN films
    BY <1>1, <1>3, <1>7, Shapes
  <2>2. /\ x \in Thread /\ x.pc = "view" /\ x.id = i /\ x.items = th[w].items
        /\ x.f = films[i]
    BY <1>1, <1>2, <2>1 DEF Thread, Pc
  <2>3. th' = [th EXCEPT ![w] = x] /\ req' = req
    BY <1>2, <1>4, <1>7 DEF Goto
  <2> HIDE DEF x
  <2>4. th'[w] = x /\ Pc(w)' = "view" /\ films' = films /\ cur_films' = cur_films
    BY <1>1, <1>4, <2>2, <2>3 DEF Pc, shared
  <2>5. MethodOK(w)'
    BY <1>1, <1>2, <2>3, <2>4 DEF MethodOK
  <2>6. LocalOK(w)'
    BY <1>7, <2>1, <2>2, <2>4 DEF LocalOK, Under
  <2>7. ListOK(w)'
    BY <1>1, <1>2, <2>2, <2>4 DEF ListOK, Stored
  <2>8. Alone'
    BY <1>1, <2>3 DEF Alone, Busy
  <2> QED  BY <1>1, <1>2, <1>4, <2>2, <2>3, <2>5, <2>6, <2>7, <2>8, QuietStep
<1> QED  BY <1>2, <1>5, <1>6, <1>7

LEMMA ListViewStep ==
    ASSUME Inv, NEW w \in Worker, ListView(w) PROVE Inv'
<1> DEFINE i == th[w].id
           t == th[w].f.title
           x == [th[w] EXCEPT !.pc = "list", !.id = i + 1, !.items = @ \cup {<<i, t>>}]
<1>1. /\ TypeOK /\ MethodOK(w) /\ ListOK(w) /\ LocalOK(w) /\ Alone
      /\ th \in [Worker -> Thread] /\ req \in [Worker -> Request \cup {Idle}]
      /\ th[w] \in Thread
  BY DEF Inv, TypeOK
<1>2. /\ Pc(w) = "view" /\ i \in Nat /\ i \in Number /\ cur_films \in Number
      /\ DOMAIN films = 0 .. MAX_FILMS - 1 /\ cur_films \in Nat /\ MAX_FILMS \in Nat
      /\ th[w].items \in SUBSET (Number \X Key)
  BY <1>1, Shapes DEF ListView, At, Pc
<1>3. Under(i, th[w].f)
  BY <1>1, <1>2 DEF LocalOK
<1>4. Held(th[w].f)
  <2>1. \A v \in Worker : Pc(v) # "putstore"
    BY <1>2, Others
  <2> QED  BY <1>3, <2>1, StoredIsHeld DEF Under, Stored
<1>5. th' = [th EXCEPT ![w] = x] /\ req' = req /\ UNCHANGED <<shared, undefined>>
  BY <1>4 DEF ListView, Using, Goto, shared
<1>6. th[w].f \in Film /\ t \in Key /\ films[i] = th[w].f /\ Stored(i) /\ i \in DOMAIN films
  <2>1. th[w].f \in Film
    BY <1>1, <1>3, Shapes DEF Under
  <2> QED  BY <1>3, <2>1, FilmShapes DEF Under, Stored
<1>7. i + 1 \in Number /\ i + 1 <= cur_films
  BY <1>2, <1>3 DEF Number, Under
<1>8. x \in Thread /\ x.pc = "list" /\ x.id = i + 1 /\ x.items = th[w].items \cup {<<i, t>>}
  <2> DEFINE S == SUBSET (Number \X Key)
             s == th[w].items \cup {<<i, t>>}
  <2>1. s \in S
    BY <1>2, <1>6
  <2>2. x = [th[w] EXCEPT !.pc = "list", !.id = i + 1, !.items = s]
    BY <1>1 DEF Thread
  <2> HIDE DEF S, s, x
  <2>3. x \in Thread /\ x.pc = "list" /\ x.id = i + 1 /\ x.items = s
    BY <1>1, <1>7, <2>1, <2>2 DEF Thread, S
  <2> QED  BY <2>3 DEF s
<1> HIDE DEF x
<1>9. th'[w] = x /\ Pc(w)' = "list" /\ films' = films /\ cur_films' = cur_films
  BY <1>1, <1>5, <1>8 DEF Pc, shared
<1>10. MethodOK(w)' /\ LocalOK(w)'
  BY <1>1, <1>2, <1>5, <1>9 DEF MethodOK, LocalOK
<1>11. ListOK(w)'
  <2>1. {j \in DOMAIN films : j < i + 1 /\ Stored(j)}
            = {j \in DOMAIN films : j < i /\ Stored(j)} \cup {i}
    BY <1>2, <1>6
  <2>2. th[w].items = {<<j, films[j].title>> :
                           j \in {k \in DOMAIN films : k < i /\ Stored(k)}}
    BY <1>1, <1>2 DEF ListOK
  <2> DEFINE Pair(j) == <<j, films[j].title>>
             K == {k \in DOMAIN films : k < i /\ Stored(k)}
  <2>3. Pair(i) = <<i, t>>
    BY <1>6
  <2>4. {Pair(j) : j \in K \cup {i}} = {Pair(j) : j \in K} \cup {Pair(i)}
    <3> HIDE DEF Pair, K
    <3> QED  OBVIOUS
  <2>5. x.items = {<<j, films[j].title>> :
                       j \in {k \in DOMAIN films : k < i + 1 /\ Stored(k)}}
    BY <1>8, <2>1, <2>2, <2>3, <2>4
  <2> QED  BY <1>7, <1>8, <1>9, <2>5 DEF ListOK, Stored
<1>12. Alone'
  BY <1>1, <1>5 DEF Alone, Busy
<1> QED  BY <1>1, <1>2, <1>5, <1>8, <1>10, <1>11, <1>12, QuietStep

LEMMA LookupStep ==
    ASSUME Inv, NEW w \in Worker, Lookup(w) PROVE Inv'
<1> DEFINE i == req[w].id
           m == req[w].method
           film == db_get(i)
           x == [th[w] EXCEPT !.pc = m, !.f = film]
<1>1. /\ TypeOK /\ MethodOK(w) /\ LocalOK(w) /\ Alone
      /\ th \in [Worker -> Thread] /\ req \in [Worker -> Request \cup {Idle}]
      /\ th[w] \in Thread
  BY DEF Inv, TypeOK
<1>2. Pc(w) = "lookup" /\ m \in {"get", "put", "delete"}
  BY <1>1 DEF Lookup, At, Pc, MethodOK
<1>3. i \in Nat /\ req[w] \in Request
  <2>1. req[w] \in Request
    BY <1>1, <1>2 DEF MethodOK
  <2> QED  BY <1>2, <2>1, RequestShapes
<1>4. Live /\ InArray(i)
  BY <1>2, <1>3, Present
<1>5. /\ UNCHANGED <<shared, undefined>>
      /\ IF film = NoFilm THEN Answer(w, [code |-> 404]) ELSE Goto(w, x)
  BY <1>4 DEF Lookup, Using, shared
<1>6. CASE film = NoFilm
  BY <1>2, <1>5, <1>6, AnswerStep
<1>7. CASE film # NoFilm
  <2>1. Under(i, film) /\ film \in Film \cup {NoFilm}
    <3>1. i < cur_films /\ film = films[i] /\ i \in DOMAIN films
      BY <1>4, <1>7 DEF db_get, InArray
    <3> QED  BY <1>1, <1>7, <3>1, Shapes DEF Under
  <2>2. x \in Thread /\ x.pc = m /\ x.f = film
    <3> HIDE DEF film
    <3> QED  BY <1>1, <1>2, <2>1 DEF Thread
  <2>3. th' = [th EXCEPT ![w] = x] /\ req' = req
    BY <1>5, <1>7 DEF Goto
  <2> HIDE DEF x
  <2>4. /\ th'[w] = x /\ Pc(w)' = m /\ films' = films /\ cur_films' = cur_films
        /\ req'[w] = req[w]
    BY <1>1, <1>5, <2>2, <2>3 DEF Pc, shared
  <2>5. MethodOK(w)' /\ ListOK(w)'
    BY <1>1, <1>2, <2>4 DEF MethodOK, ListOK
  <2>6. LocalOK(w)'
    <3>1. Under(i, film)' <=> Under(i, film)
      BY <2>4 DEF Under, db_get
    <3>2. m = "put" /\ req[w].film # NoData =>
              req[w].film # NoFilm /\ req[w].film.title = film.title
      <4>1. film = films[i]
        BY <2>1 DEF Under
      <4> QED  BY <1>1, <1>2, <1>7, <4>1 DEF LocalOK
    <3> HIDE DEF m
    <3>3. Under(req[w].id, th[w].f)'
      BY <2>1, <2>2, <2>4 DEF Under
    <3> QED  BY <1>2, <2>2, <2>4, <3>2, <3>3 DEF LocalOK
  <2>7. Alone'
    BY <1>1, <2>3 DEF Alone, Busy
  <2> HIDE DEF m
  <2> QED  BY <1>1, <1>2, <1>5, <2>2, <2>3, <2>5, <2>6, <2>7, QuietStep
<1> QED  BY <1>6, <1>7

LEMMA GetStep ==
    ASSUME Inv, NEW w \in Worker, Get(w) PROVE Inv'
<1>1. Pc(w) = "get" /\ Under(req[w].id, th[w].f)
  BY DEF Inv, Get, At, Pc, LocalOK
<1>2. Held(th[w].f)
  <2>1. \A v \in Worker : Pc(v) # "putstore"
    BY <1>1, Others
  <2> QED  BY <1>1, <2>1, StoredIsHeld DEF Under, Stored
<1>3. UNCHANGED <<shared, undefined>> /\ Answer(w, [code |-> 200, film |-> Data(th[w].f)])
  BY <1>2 DEF Get, Using, shared
<1> QED  BY <1>1, <1>3, AnswerStep

LEMMA AddLocationStep ==
    ASSUME Inv, NEW w \in Worker, AddLocation(w) PROVE Inv'
<1>1. Pc(w) = "location" /\ Under(th[w].id, th[w].new)
  BY DEF Inv, AddLocation, At, Pc, LocalOK
<1>2. Held(th[w].new) /\ Live
  <2>1. \A v \in Worker : Pc(v) # "putstore"
    BY <1>1, Others
  <2> QED  BY <1>1, <2>1, Present, StoredIsHeld DEF Under, Stored
<1>3. /\ UNCHANGED <<shared, undefined>>
      /\ Answer(w, [code |-> 201, id |-> IdOf(th[w].new.title)])
  BY <1>2 DEF AddLocation, Using, shared, IdOf
<1> QED  BY <1>1, <1>3, AnswerStep

\* What a thread that adds a film leaves to the others, as long as it leaves them the
\* films that are counted.
LEMMA PostFrame ==
    ASSUME Inv, NEW w \in Worker, NEW x \in Thread,
           Pc(w) \in {"contains", "map", "store", "load", "count"},
           th' = [th EXCEPT ![w] = x], req' = req, x.pc # "idle",
           cur_films' \in Nat, cur_films <= cur_films', DOMAIN films' = DOMAIN films,
           \A i \in DOMAIN films : i < cur_films => films'[i] = films[i]
    PROVE  /\ Alone' /\ th'[w] = x /\ Pc(w)' = x.pc /\ th' \in [Worker -> Thread]
           /\ \A v \in Worker : v # w =>
                 /\ th'[v] = th[v]
                 /\ Pc(v) \in {"idle", "reply", "list", "view", "lookup", "get"}
                 /\ Pc(v)' \in {"idle", "reply", "list", "view", "lookup", "get"}
                 /\ MethodOK(v)' /\ LocalOK(v)' /\ ListOK(v)'
<1>1. /\ TypeOK /\ Alone /\ th \in [Worker -> Thread]
  BY DEF Inv, TypeOK
<1>2. th'[w] = x /\ Pc(w)' = x.pc /\ th' \in [Worker -> Thread]
  BY <1>1 DEF Pc
<1>3. Alone'
  BY <1>1 DEF Alone, Busy
<1>4. ASSUME NEW v \in Worker, v # w
      PROVE  /\ th'[v] = th[v]
             /\ Pc(v) \in {"idle", "reply", "list", "view", "lookup", "get"}
             /\ Pc(v)' \in {"idle", "reply", "list", "view", "lookup", "get"}
             /\ MethodOK(v)' /\ LocalOK(v)' /\ ListOK(v)'
  <2>1. th'[v] = th[v] /\ Pc(v)' = Pc(v) /\ req'[v] = req[v]
    BY <1>1, <1>4 DEF Pc
  <2>2. /\ Pc(v) \in {"idle", "reply", "list", "view", "lookup", "get"}
        /\ Pc(v) = "lookup" => req[v].method = "get"
    BY <1>4, Others
  <2>3. MethodOK(v) /\ LocalOK(v) /\ ListOK(v)
    BY DEF Inv
  <2>4. /\ cur_films \in Nat /\ th[v].id \in Nat /\ DOMAIN films \subseteq Nat
    BY <1>1, Shapes
  <2>5. MethodOK(v)'
    BY <2>1, <2>3 DEF MethodOK
  <2>6. \A i, f : Under(i, f) => Under(i, f)'
    BY <2>4 DEF Under
  <2>7. LocalOK(v)'
    <3>1. Pc(v) = "view" => Under(th[v].id, th[v].f)'
      BY <2>1, <2>3, <2>4 DEF LocalOK, Under
    <3>2. Pc(v) = "get" => Under(req[v].id, th[v].f)'
      BY <2>1, <2>3, <2>4 DEF LocalOK, Under
    <3> QED  BY <2>1, <2>2, <3>1, <3>2 DEF LocalOK
  <2>8. ListOK(v)'
    <3>1. CASE Pc(v) \in {"list", "view"}
      <4> DEFINE n == th[v].id
      <4>1. n <= cur_films /\ n \in Nat
        BY <2>3, <2>4, <3>1 DEF ListOK
      <4>2. \A j \in DOMAIN films : j < n => films'[j] = films[j]
        BY <2>4, <4>1
      <4>3. {j \in DOMAIN films : j < n /\ Stored(j)} = {j \in DOMAIN films' : j < n /\ Stored(j)'}
        BY <4>2 DEF Stored
      <4>4. th[v].items = {<<i, films[i].title>> :
                               i \in {j \in DOMAIN films : j < n /\ Stored(j)}}
        BY <2>3, <3>1 DEF ListOK
      <4>5. th[v].items = {<<i, films'[i].title>> :
                               i \in {j \in DOMAIN films' : j < n /\ Stored(j)'}}
        BY <4>2, <4>3, <4>4
      <4>6. n <= cur_films'
        BY <2>4, <4>1
      <4> QED  BY <2>1, <3>1, <4>5, <4>6 DEF ListOK
    <3>2. CASE Pc(v) \notin {"list", "view"}
      BY <2>1, <2>3, <3>2 DEF ListOK
    <3> QED  BY <3>1, <3>2
  <2> QED  BY <2>1, <2>2, <2>5, <2>7, <2>8
<1> QED  BY <1>2, <1>3, <1>4

\* What a thread that takes a film out leaves to the others: they wait.
LEMMA SoleFrame ==
    ASSUME Inv, NEW w \in Worker, NEW x \in Thread,
           Pc(w) \in {"destroy", "create", "put", "putmap", "putfree", "putstore",
                      "delete", "unmap"},
           th' = [th EXCEPT ![w] = x], req' = req
    PROVE  /\ Alone' /\ th'[w] = x /\ Pc(w)' = x.pc /\ th' \in [Worker -> Thread]
           /\ \A v \in Worker : v # w =>
                 /\ th'[v] = th[v] /\ Pc(v) = "idle" /\ Pc(v)' = "idle"
                 /\ MethodOK(v)' /\ LocalOK(v)' /\ ListOK(v)'
<1>1. /\ TypeOK /\ Alone /\ th \in [Worker -> Thread]
  BY DEF Inv, TypeOK
<1>2. th'[w] = x /\ Pc(w)' = x.pc /\ th' \in [Worker -> Thread]
  BY <1>1 DEF Pc
<1>3. Alone'
  BY <1>1 DEF Alone, Busy
<1>4. ASSUME NEW v \in Worker, v # w
      PROVE  /\ th'[v] = th[v] /\ Pc(v) = "idle" /\ Pc(v)' = "idle"
             /\ MethodOK(v)' /\ LocalOK(v)' /\ ListOK(v)'
  <2>1. th'[v] = th[v] /\ Pc(v)' = Pc(v) /\ req'[v] = req[v]
    BY <1>1, <1>4 DEF Pc
  <2>2. Pc(v) = "idle"
    BY <1>4, Others
  <2>3. MethodOK(v) /\ ListOK(v)
    BY DEF Inv
  <2> QED  BY <2>1, <2>2, <2>3 DEF MethodOK, LocalOK, ListOK
<1> QED  BY <1>2, <1>3, <1>4

LEMMA AddCheckStep ==
    ASSUME Inv, NEW w \in Worker, AddCheck(w) PROVE Inv'
<1> DEFINE new == parse_film(w)
           x == [th[w] EXCEPT !.pc = "map", !.new = new]
<1>1. /\ TypeOK /\ MethodOK(w) /\ LocalOK(w) /\ th[w] \in Thread
      /\ th \in [Worker -> Thread] /\ MemoryOK /\ CountOK /\ IndexOK /\ DbOK
      /\ ~ undefined /\ Good(id_map)
  BY DEF Inv, TypeOK
<1>2. Pc(w) = "contains" /\ req[w].method = "post" /\ Live
  <2>1. Pc(w) = "contains"
    BY DEF AddCheck, At, Pc
  <2> QED  BY <1>1, <2>1, Present DEF MethodOK
<1>3. req[w] \in Request /\ req[w].film \in FilmData \cup {NoFilm}
  <2>1. req[w] \in Request
    BY <1>1, <1>2 DEF MethodOK, TypeOK
  <2> QED  BY <1>2, <2>1, RequestShapes
<1>4. /\ UNCHANGED <<films, id_map, cur_films, db, undefined>>
      /\ IF req[w].film = NoFilm \/ IdOf(req[w].film.title) # NoValue
         THEN Answer(w, [code |-> 404]) /\ UNCHANGED allocated
         ELSE Goto(w, x) /\ Allocating(new)
  BY <1>2 DEF AddCheck, Using, IdOf
<1>5. CASE req[w].film = NoFilm \/ IdOf(req[w].film.title) # NoValue
  <2>1. Answer(w, [code |-> 404]) /\ UNCHANGED <<shared, undefined>>
    BY <1>4, <1>5 DEF shared
  <2> QED  BY <1>2, <2>1, AnswerStep
<1>6. CASE ~ (req[w].film = NoFilm \/ IdOf(req[w].film.title) # NoValue)
  <2>1. /\ new \in Film /\ new # NoFilm /\ new.block \notin allocated
        /\ Data(new) = req[w].film /\ new.title = req[w].film.title
        /\ \A i \in DOMAIN films : Stored(i) => films[i].block # new.block
    BY <1>3, <1>6, ParseFacts
  <2>2. /\ th' = [th EXCEPT ![w] = x] /\ req' = req
        /\ allocated' = allocated \cup {new.block}
        /\ films' = films /\ id_map' = id_map /\ cur_films' = cur_films /\ db' = db
        /\ undefined' = undefined
    BY <1>4, <1>6, <2>1 DEF Goto, Allocating
  <2> HIDE DEF new
  <2>3. x \in Thread /\ x.pc = "map" /\ x.new = new
    BY <1>1, <2>1 DEF Thread
  <2> HIDE DEF x
  <2>4. /\ Alone' /\ th'[w] = x /\ Pc(w)' = "map" /\ th' \in [Worker -> Thread]
        /\ \A v \in Worker : v # w =>
              /\ th'[v] = th[v]
              /\ Pc(v) \in {"idle", "reply", "list", "view", "lookup", "get"}
              /\ Pc(v)' \in {"idle", "reply", "list", "view", "lookup", "get"}
              /\ MethodOK(v)' /\ LocalOK(v)' /\ ListOK(v)'
    <3>1. cur_films' \in Nat /\ cur_films <= cur_films'
      BY <1>1, <2>2, Shapes
    <3> QED  BY <1>2, <2>2, <2>3, <3>1, PostFrame
  <2>5. TypeOK'
    BY <1>1, <2>1, <2>2, <2>4, FilmShapes DEF TypeOK
  <2>6. MethodOK(w)' /\ ListOK(w)'
    BY <1>1, <1>2, <2>2, <2>4 DEF MethodOK, ListOK
  <2>7. LocalOK(w)'
    BY <1>1, <1>2, <1>6, <2>1, <2>2, <2>3, <2>4 DEF LocalOK, IdOf
  <2>8. MemoryOK'
    BY <1>1, <1>2, <2>1, <2>2, <2>3, <2>4 DEF MemoryOK, Entering, Stored
  <2>9. CountOK'
    BY <1>1, <1>2, <2>2, <2>4 DEF CountOK, Stored
  <2>10. IndexOK'
    <3>1. \A i, t : Titled(i, t)' <=> Titled(i, t)
      BY <1>2, <2>2, <2>4 DEF Titled, Stored
    <3> QED  BY <1>1, <2>2, <3>1 DEF IndexOK, IdOf
  <2>11. DbOK'
    BY <1>2, <2>2 DEF DbOK, Live
  <2> QED
    BY <1>1, <2>2, <2>4, <2>5, <2>6, <2>7, <2>8, <2>9, <2>10, <2>11 DEF Inv
<1> QED  BY <1>5, <1>6

LEMMA AddMapStep ==
    ASSUME Inv, NEW w \in Worker, AddMap(w) PROVE Inv'
<1> DEFINE new == th[w].new
           x == [th[w] EXCEPT !.pc = "store"]
<1>1. /\ TypeOK /\ MethodOK(w) /\ LocalOK(w) /\ th[w] \in Thread
      /\ th \in [Worker -> Thread] /\ MemoryOK /\ CountOK /\ IndexOK /\ DbOK
      /\ ~ undefined /\ Good(id_map)
  BY DEF Inv, TypeOK
<1>2. Pc(w) = "map" /\ Live
  <2>1. Pc(w) = "map"
    BY DEF AddMap, At, Pc
  <2> QED  BY <2>1, Present
<1>3. /\ th' = [th EXCEPT ![w] = x] /\ req' = req
      /\ id_map' = ht_set_value(id_map, new.title, cur_films)
      /\ films' = films /\ allocated' = allocated /\ cur_films' = cur_films /\ db' = db
      /\ undefined' = undefined
  BY <1>2 DEF AddMap, Using, Goto
<1>4. x \in Thread /\ x.pc = "store" /\ x.new = new
  BY <1>1 DEF Thread
<1>5. /\ cur_films < MAX_FILMS /\ new # NoFilm /\ Data(new) = req[w].film
      /\ IdOf(new.title) = NoValue
  BY <1>1, <1>2 DEF LocalOK
<1>6. /\ cur_films \in Nat /\ DOMAIN films = 0 .. MAX_FILMS - 1 /\ MAX_FILMS \in Nat
      /\ cur_films \in DOMAIN films /\ new \in Film /\ new.title \in Key
  <2>1. new \in Film
    BY <1>1, <1>5, Shapes
  <2> QED  BY <1>1, <1>5, <2>1, Shapes, FilmShapes
<1> HIDE DEF new, x
<1>7. /\ Alone' /\ th'[w] = x /\ Pc(w)' = "store" /\ th' \in [Worker -> Thread]
      /\ \A v \in Worker : v # w =>
            /\ th'[v] = th[v]
            /\ Pc(v) \in {"idle", "reply", "list", "view", "lookup", "get"}
            /\ Pc(v)' \in {"idle", "reply", "list", "view", "lookup", "get"}
            /\ MethodOK(v)' /\ LocalOK(v)' /\ ListOK(v)'
  <2>1. /\ cur_films' \in Nat /\ cur_films <= cur_films' /\ DOMAIN films' = DOMAIN films
        /\ \A i \in DOMAIN films : i < cur_films => films'[i] = films[i]
    BY <1>3, <1>6
  <2> QED  BY <1>2, <1>3, <1>4, <2>1, PostFrame
<1>8. /\ Good(id_map')
      /\ \A k \in Key : IdOf(k)' = IF k = new.title THEN cur_films ELSE IdOf(k)
  BY <1>1, <1>3, <1>6, TableIsMap DEF IdOf
<1>9. TypeOK'
  BY <1>1, <1>3, <1>7 DEF TypeOK
<1>10. MethodOK(w)' /\ ListOK(w)'
  BY <1>1, <1>2, <1>3, <1>7 DEF MethodOK, ListOK
<1>11. ~ Stored(cur_films)
  BY <1>1, <1>2, <1>6, <1>7 DEF CountOK
<1>12. LocalOK(w)'
  BY <1>3, <1>4, <1>5, <1>7, <1>11 DEF LocalOK, Stored
<1>13. MemoryOK'
  <2>1. \A v \in Worker : (Entering(v)' <=> Entering(v)) /\ th'[v].new = th[v].new
    BY <1>2, <1>4, <1>7 DEF Entering, Pc, new
  <2>2. \A v \in Worker : Pc(v)' # "unmap" /\ Pc(v) # "unmap" /\ Pc(v)' # "putstore" /\ Pc(v) # "putstore"
    BY <1>2, <1>7
  <2> QED  BY <1>1, <1>3, <2>1, <2>2 DEF MemoryOK, Stored
<1>14. CountOK'
  BY <1>1, <1>2, <1>3, <1>7 DEF CountOK, Stored
<1>15. IndexOK'
  <2>1. \A i, t : Titled(i, t) <=> Stored(i) /\ films[i].title = t
    BY <1>2, <1>7 DEF Titled
  <2>2. \A i, t : Titled(i, t)' <=> \/ Stored(i) /\ films[i].title = t
                                    \/ new.title = t /\ i = cur_films
    BY <1>3, <1>4, <1>7 DEF Titled, Stored
  <2>3. ASSUME NEW t \in Key
        PROVE  /\ IdOf(t)' \in {NoValue} \cup DOMAIN films
               /\ \A i \in DOMAIN films : IdOf(t)' = i <=> Titled(i, t)'
    <3>1. CASE t = new.title
      <4>1. \A i \in DOMAIN films : ~ Titled(i, t)
        BY <1>1, <1>5, <1>6, <3>1, DistinctAssumption DEF IndexOK
      <4> QED  BY <1>6, <1>8, <2>1, <2>2, <3>1, <4>1
    <3>2. CASE t # new.title
      BY <1>1, <1>8, <2>1, <2>2, <3>2 DEF IndexOK
    <3> QED  BY <3>1, <3>2
  <2> QED  BY <1>3, <2>3 DEF IndexOK
<1>16. DbOK'
  BY <1>2, <1>3 DEF DbOK, Live
<1> QED
  BY <1>1, <1>3, <1>7, <1>8, <1>9, <1>10, <1>12, <1>13, <1>14, <1>15, <1>16 DEF Inv

LEMMA AddStoreStep ==
    ASSUME Inv, NEW w \in Worker, AddStore(w) PROVE Inv'
<1> DEFINE new == th[w].new
           x == [th[w] EXCEPT !.pc = "load"]
<1>1. /\ TypeOK /\ MethodOK(w) /\ LocalOK(w) /\ th[w] \in Thread
      /\ th \in [Worker -> Thread] /\ MemoryOK /\ CountOK /\ IndexOK /\ DbOK
      /\ ~ undefined /\ Good(id_map)
  BY DEF Inv, TypeOK
<1>2. Pc(w) = "store" /\ Live
  <2>1. Pc(w) = "store"
    BY DEF AddStore, At, Pc
  <2> QED  BY <2>1, Present
<1>3. /\ cur_films < MAX_FILMS /\ new # NoFilm /\ Data(new) = req[w].film /\ ~ Stored(cur_films)
  BY <1>1, <1>2 DEF LocalOK
<1>4. /\ th' = [th EXCEPT ![w] = x] /\ req' = req
      /\ films' = [films EXCEPT ![cur_films] = new]
      /\ id_map' = id_map /\ allocated' = allocated /\ cur_films' = cur_films /\ db' = db
      /\ undefined' = undefined
  BY <1>2, <1>3 DEF AddStore, Using, Goto
<1>5. x \in Thread /\ x.pc = "load" /\ x.new = new
  BY <1>1 DEF Thread
<1>6. /\ cur_films \in Nat /\ DOMAIN films = 0 .. MAX_FILMS - 1 /\ MAX_FILMS \in Nat
      /\ cur_films \in DOMAIN films /\ new \in Film /\ new.title \in Key
      /\ DOMAIN films \subseteq Nat
  <2>1. new \in Film
    BY <1>1, <1>3, Shapes
  <2> QED  BY <1>1, <1>3, <2>1, Shapes, FilmShapes
<1> HIDE DEF new, x
<1>7. /\ DOMAIN films' = DOMAIN films /\ films'[cur_films] = new
      /\ \A i \in DOMAIN films : i # cur_films => films'[i] = films[i]
  BY <1>4, <1>6
<1>8. /\ Alone' /\ th'[w] = x /\ Pc(w)' = "load" /\ th' \in [Worker -> Thread]
      /\ \A v \in Worker : v # w =>
            /\ th'[v] = th[v]
            /\ Pc(v) \in {"idle", "reply", "list", "view", "lookup", "get"}
            /\ Pc(v)' \in {"idle", "reply", "list", "view", "lookup", "get"}
            /\ MethodOK(v)' /\ LocalOK(v)' /\ ListOK(v)'
  <2>1. /\ cur_films' \in Nat /\ cur_films <= cur_films'
        /\ \A i \in DOMAIN films : i < cur_films => films'[i] = films[i]
    BY <1>4, <1>6, <1>7
  <2> QED  BY <1>2, <1>4, <1>5, <1>7, <2>1, PostFrame
<1>9. TypeOK'
  BY <1>1, <1>4, <1>6, <1>8 DEF TypeOK
<1>10. MethodOK(w)' /\ ListOK(w)'
  BY <1>1, <1>2, <1>4, <1>8 DEF MethodOK, ListOK
<1>11. LocalOK(w)'
  BY <1>3, <1>4, <1>5, <1>7, <1>8 DEF LocalOK
<1>12. MemoryOK'
  <2>1. /\ new.block \in allocated
        /\ \A i \in DOMAIN films : Stored(i) => films[i].block # new.block
    BY <1>1, <1>2 DEF MemoryOK, Entering, new
  <2>2. \A v \in Worker : /\ ~ Entering(v)' /\ Pc(v)' \notin {"unmap", "putstore"}
                          /\ Pc(v) \notin {"unmap", "putstore"}
                          /\ v # w => ~ Entering(v)
    BY <1>2, <1>8 DEF Entering
  <2>3. \A i \in DOMAIN films : Stored(i)' <=> Stored(i) \/ i = cur_films
    BY <1>3, <1>7 DEF Stored
  <2>4. \A i \in DOMAIN films : Stored(i) => i # cur_films /\ films[i].block \in allocated
    BY <1>1, <1>3, <2>2 DEF MemoryOK
  <2>5. \A b \in allocated : \E i \in DOMAIN films' : Stored(i)' /\ films'[i].block = b
    <3> TAKE b \in allocated
    <3>1. (\E i \in DOMAIN films : Stored(i) /\ films[i].block = b) \/ new.block = b
      BY <1>1, <2>2 DEF MemoryOK, new
    <3>2. CASE new.block = b
      BY <1>6, <1>7, <2>3, <3>2
    <3>3. CASE \E i \in DOMAIN films : Stored(i) /\ films[i].block = b
      BY <1>7, <2>3, <2>4, <3>3
    <3> QED  BY <3>1, <3>2, <3>3
  <2>6. \A i, j \in DOMAIN films' :
            Stored(i)' /\ Stored(j)' /\ films'[i].block = films'[j].block => i = j
    <3>1. \A i, j \in DOMAIN films :
              Stored(i) /\ Stored(j) /\ films[i].block = films[j].block => i = j
      BY <1>1 DEF MemoryOK
    <3> QED  BY <1>7, <2>1, <2>3, <2>4, <3>1
  <2>7. \A i \in DOMAIN films' : Stored(i)' => films'[i].block \in allocated'
    BY <1>4, <1>7, <2>1, <2>3, <2>4
  <2> QED  BY <1>4, <2>2, <2>5, <2>6, <2>7 DEF MemoryOK
<1>13. CountOK'
  <2>1. \A i \in DOMAIN films : Stored(i) => i < cur_films
    BY <1>1, <1>2, <1>8 DEF CountOK
  <2>2. \A i \in DOMAIN films' : Stored(i)' => i < cur_films \/ i = cur_films
    BY <1>7, <2>1 DEF Stored
  <2> QED  BY <1>4, <1>8, <2>2 DEF CountOK
<1>14. IndexOK'
  <2>1. \A i, t : Titled(i, t) <=> \/ Stored(i) /\ films[i].title = t
                                   \/ new.title = t /\ i = cur_films
    BY <1>2, <1>8 DEF Titled, new
  <2>2. \A i, t : Titled(i, t)' <=> Stored(i)' /\ films'[i].title = t
    BY <1>8 DEF Titled
  <2>3. \A i \in DOMAIN films : \A t : Titled(i, t)' <=> Titled(i, t)
    BY <1>3, <1>7, <2>1, <2>2 DEF Stored
  <2>4. \A t : IdOf(t)' = IdOf(t)
    BY <1>4 DEF IdOf
  <2> QED  BY <1>1, <1>7, <2>3, <2>4 DEF IndexOK
<1>15. DbOK'
  BY <1>2, <1>4 DEF DbOK, Live
<1> QED
  BY <1>1, <1>4, <1>8, <1>9, <1>10, <1>11, <1>12, <1>13, <1>14, <1>15 DEF Inv

LEMMA AddLoadStep ==
    ASSUME Inv, NEW w \in Worker, AddLoad(w) PROVE Inv'
<1> DEFINE x == [th[w] EXCEPT !.pc = "count", !.id = cur_films]
<1>1. /\ TypeOK /\ MethodOK(w) /\ LocalOK(w) /\ th[w] \in Thread
      /\ th \in [Worker -> Thread] /\ MemoryOK /\ CountOK /\ IndexOK /\ DbOK
      /\ ~ undefined /\ Good(id_map)
  BY DEF Inv, TypeOK
<1>2. Pc(w) = "load" /\ Live
  <2>1. Pc(w) = "load"
    BY DEF AddLoad, At, Pc
  <2> QED  BY <2>1, Present
<1>3. /\ th' = [th EXCEPT ![w] = x] /\ req' = req /\ films' = films /\ id_map' = id_map
      /\ allocated' = allocated /\ cur_films' = cur_films /\ db' = db
      /\ undefined' = undefined
  BY <1>2 DEF AddLoad, Using, Goto, shared
<1>4. cur_films \in Nat /\ cur_films \in Number
  BY <1>1, Shapes
<1>5. x \in Thread /\ x.pc = "count" /\ x.id = cur_films /\ x.new = th[w].new
  BY <1>1, <1>4 DEF Thread
<1> HIDE DEF x
<1>6. /\ Alone' /\ th'[w] = x /\ Pc(w)' = "count" /\ th' \in [Worker -> Thread]
      /\ \A v \in Worker : v # w =>
            /\ th'[v] = th[v]
            /\ Pc(v) \in {"idle", "reply", "list", "view", "lookup", "get"}
            /\ Pc(v)' \in {"idle", "reply", "list", "view", "lookup", "get"}
            /\ MethodOK(v)' /\ LocalOK(v)' /\ ListOK(v)'
  <2>1. /\ cur_films' \in Nat /\ cur_films <= cur_films' /\ DOMAIN films' = DOMAIN films
        /\ \A i \in DOMAIN films : i < cur_films => films'[i] = films[i]
    BY <1>3, <1>4
  <2> QED  BY <1>2, <1>3, <1>5, <2>1, PostFrame
<1>7. TypeOK'
  BY <1>1, <1>3, <1>6 DEF TypeOK
<1>8. MethodOK(w)' /\ ListOK(w)' /\ LocalOK(w)'
  BY <1>1, <1>2, <1>3, <1>5, <1>6 DEF MethodOK, ListOK, LocalOK
<1>9. \A v \in Worker :
          /\ ~ Entering(v) /\ ~ Entering(v)' /\ Pc(v) # "putstore" /\ Pc(v)' # "putstore"
          /\ Pc(v) # "unmap" /\ Pc(v)' # "unmap" /\ Pc(v) # "store" /\ Pc(v)' # "store"
  BY <1>2, <1>6 DEF Entering
<1>10. MemoryOK'
  BY <1>1, <1>3, <1>9 DEF MemoryOK, Stored
<1>11. CountOK'
  BY <1>1, <1>3, <1>6 DEF CountOK, Stored
<1>12. IndexOK'
  <2>1. \A i, t : Titled(i, t)' <=> Titled(i, t)
    BY <1>3, <1>9 DEF Titled, Stored
  <2>2. \A t : IdOf(t)' = IdOf(t)
    BY <1>3 DEF IdOf
  <2> QED  BY <1>1, <1>3, <2>1, <2>2 DEF IndexOK
<1>13. DbOK'
  BY <1>2, <1>3 DEF DbOK, Live
<1> QED  BY <1>1, <1>3, <1>6, <1>7, <1>8, <1>10, <1>11, <1>12, <1>13 DEF Inv

LEMMA AddCountStep ==
    ASSUME Inv, NEW w \in Worker, AddCount(w) PROVE Inv'
<1> DEFINE x == [th[w] EXCEPT !.pc = "location"]
           n == th[w].id
<1>1. /\ TypeOK /\ MethodOK(w) /\ LocalOK(w) /\ th[w] \in Thread
      /\ th \in [Worker -> Thread] /\ MemoryOK /\ CountOK /\ IndexOK /\ DbOK
      /\ ~ undefined /\ Good(id_map)
  BY DEF Inv, TypeOK
<1>2. Pc(w) = "count" /\ Live
  <2>1. Pc(w) = "count"
    BY DEF AddCount, At, Pc
  <2> QED  BY <2>1, Present
<1>3. /\ th' = [th EXCEPT ![w] = x] /\ req' = req /\ films' = films /\ id_map' = id_map
      /\ allocated' = allocated /\ cur_films' = n + 1 /\ db' = db
      /\ undefined' = undefined
  BY <1>2 DEF AddCount, Using, Goto
<1>4. /\ n = cur_films /\ cur_films < MAX_FILMS /\ films[cur_films] = th[w].new
      /\ th[w].new # NoFilm /\ Data(th[w].new) = req[w].film
  BY <1>1, <1>2 DEF LocalOK
<1>5. /\ cur_films \in Nat /\ DOMAIN films = 0 .. MAX_FILMS - 1 /\ MAX_FILMS \in Nat
      /\ cur_films' = cur_films + 1 /\ cur_films' \in Number /\ cur_films \in DOMAIN films
  <2>1. cur_films \in Nat /\ DOMAIN films = 0 .. MAX_FILMS - 1 /\ MAX_FILMS \in Nat
    BY <1>1, Shapes
  <2> QED  BY <1>3, <1>4, <2>1 DEF Number
<1>6. x \in Thread /\ x.pc = "location" /\ x.id = cur_films /\ x.new = th[w].new
  BY <1>1, <1>4 DEF Thread
<1> HIDE DEF x, n
<1>7. /\ Alone' /\ th'[w] = x /\ Pc(w)' = "location" /\ th' \in [Worker -> Thread]
      /\ \A v \in Worker : v # w =>
            /\ th'[v] = th[v]
            /\ Pc(v) \in {"idle", "reply", "list", "view", "lookup", "get"}
            /\ Pc(v)' \in {"idle", "reply", "list", "view", "lookup", "get"}
            /\ MethodOK(v)' /\ LocalOK(v)' /\ ListOK(v)'
  <2>1. /\ cur_films' \in Nat /\ cur_films <= cur_films' /\ DOMAIN films' = DOMAIN films
        /\ \A i \in DOMAIN films : i < cur_films => films'[i] = films[i]
    BY <1>3, <1>5
  <2> QED  BY <1>2, <1>3, <1>6, <2>1, PostFrame
<1>8. TypeOK'
  BY <1>1, <1>3, <1>5, <1>7 DEF TypeOK
<1>9. MethodOK(w)' /\ ListOK(w)'
  BY <1>1, <1>2, <1>3, <1>7 DEF MethodOK, ListOK
<1>10. LocalOK(w)'
  BY <1>3, <1>4, <1>5, <1>6, <1>7 DEF LocalOK, Under
<1>11. \A v \in Worker :
          /\ ~ Entering(v) /\ ~ Entering(v)' /\ Pc(v) # "putstore" /\ Pc(v)' # "putstore"
          /\ Pc(v) # "unmap" /\ Pc(v)' # "unmap" /\ Pc(v) # "store" /\ Pc(v)' # "store"
  BY <1>2, <1>7 DEF Entering
<1>12. MemoryOK'
  BY <1>1, <1>3, <1>11 DEF MemoryOK, Stored
<1>13. CountOK'
  BY <1>1, <1>3, <1>5 DEF CountOK, Stored
<1>14. IndexOK'
  <2>1. \A i, t : Titled(i, t)' <=> Titled(i, t)
    BY <1>3, <1>11 DEF Titled, Stored
  <2>2. \A t : IdOf(t)' = IdOf(t)
    BY <1>3 DEF IdOf
  <2> QED  BY <1>1, <1>3, <2>1, <2>2 DEF IndexOK
<1>15. DbOK'
  BY <1>2, <1>3 DEF DbOK, Live
<1> QED  BY <1>1, <1>3, <1>7, <1>8, <1>9, <1>10, <1>12, <1>13, <1>14, <1>15 DEF Inv

LEMMA DestroyStep ==
    ASSUME Inv, NEW w \in Worker, Destroy(w) PROVE Inv'
<1> DEFINE x == [th[w] EXCEPT !.pc = "create"]
           stored == {films[i] : i \in {j \in DOMAIN films : j < cur_films}} \ {NoFilm}
<1>1. /\ TypeOK /\ MethodOK(w) /\ th[w] \in Thread
      /\ th \in [Worker -> Thread] /\ MemoryOK /\ CountOK
      /\ ~ undefined /\ Good(id_map)
  BY DEF Inv, TypeOK
<1>2. Pc(w) = "destroy" /\ Live
  <2>1. Pc(w) = "destroy"
    BY DEF Destroy, At, Pc
  <2> QED  BY <2>1, Present
<1>3. \A v \in Worker : Pc(v) # "putstore" /\ ~ Entering(v) /\ Pc(v) # "unmap"
                        /\ Pc(v) \notin {"load", "count"}
  BY <1>2, Others DEF Entering
<1>4. \A film \in stored : Held(film)
  BY <1>3, StoredIsHeld DEF Stored
<1>5. /\ th' = [th EXCEPT ![w] = x] /\ req' = req /\ db' = "freed"
      /\ films' = [i \in 0 .. MAX_FILMS - 1 |-> NoFilm] /\ id_map' = ht_create
      /\ cur_films' = 0 /\ undefined' = undefined
      /\ allocated' = allocated \ {film.block : film \in stored}
  BY <1>2, <1>4 DEF Destroy, Using, Goto
<1>6. allocated' = {}
  <2> SUFFICES ASSUME NEW b \in allocated PROVE b \in {film.block : film \in stored}
    BY <1>5
  <2>1. PICK i \in DOMAIN films : Stored(i) /\ films[i].block = b
    BY <1>1, <1>3 DEF MemoryOK
  <2>2. i < cur_films
    BY <1>1, <1>3, <2>1 DEF CountOK
  <2>3. films[i] \in stored
    BY <2>1, <2>2 DEF Stored
  <2> QED  BY <2>1, <2>3
<1>7. x \in Thread /\ x.pc = "create"
  BY <1>1 DEF Thread
<1> HIDE DEF x, stored
<1>8. /\ Alone' /\ th'[w] = x /\ Pc(w)' = "create" /\ th' \in [Worker -> Thread]
      /\ \A v \in Worker : v # w =>
            /\ th'[v] = th[v] /\ Pc(v) = "idle" /\ Pc(v)' = "idle"
            /\ MethodOK(v)' /\ LocalOK(v)' /\ ListOK(v)'
  BY <1>2, <1>5, <1>7, SoleFrame
<1>9. /\ DOMAIN films' = 0 .. MAX_FILMS - 1 /\ (\A i \in DOMAIN films' : films'[i] = NoFilm)
      /\ \A i \in DOMAIN films' : ~ Stored(i)'
  BY <1>5 DEF Stored
<1>10. TypeOK'
  <2>1. 0 \in Number
    BY FilmDatabaseAssumption DEF Number
  <2> QED  BY <1>1, <1>5, <1>6, <1>8, <2>1 DEF TypeOK
<1>11. MethodOK(w)' /\ ListOK(w)' /\ LocalOK(w)'
  BY <1>1, <1>2, <1>5, <1>8 DEF MethodOK, ListOK, LocalOK
<1>12. \A v \in Worker : ~ Entering(v)' /\ Pc(v)' # "unmap" /\ Pc(v)' # "store"
  BY <1>8 DEF Entering
<1>13. MemoryOK' /\ CountOK'
  BY <1>6, <1>9, <1>12 DEF MemoryOK, CountOK
<1>14. IndexOK'
  <2>1. \A t \in Key : IdOf(t)' = NoValue
    BY <1>5, TableIsMap DEF IdOf
  <2>2. \A i \in DOMAIN films' : i # NoValue /\ \A t : ~ Titled(i, t)'
    <3>1. DOMAIN films' \subseteq Nat
      BY <1>9, FilmDatabaseAssumption
    <3> QED  BY <1>9, <1>12, <3>1, DistinctAssumption DEF Titled
  <2> QED  BY <2>1, <2>2 DEF IndexOK
<1>15. DbOK'
  BY <1>8 DEF DbOK
<1>16. Good(id_map')
  BY <1>5, TableIsMap
<1> QED  BY <1>1, <1>5, <1>8, <1>10, <1>11, <1>13, <1>14, <1>15, <1>16 DEF Inv

LEMMA CreateStep ==
    ASSUME Inv, NEW w \in Worker, Create(w) PROVE Inv'
<1> DEFINE x == [Resting EXCEPT !.pc = "reply"]
<1>1. /\ TypeOK /\ MethodOK(w) /\ th \in [Worker -> Thread] /\ MemoryOK /\ CountOK /\ IndexOK
      /\ ~ undefined /\ Good(id_map)
  BY DEF Inv, TypeOK
<1>2. Pc(w) = "create"
  BY DEF Create, At, Pc
<1>3. /\ th' = [th EXCEPT ![w] = x] /\ req' = req /\ db' = "live" /\ films' = films
      /\ id_map' = id_map /\ cur_films' = cur_films /\ allocated' = allocated
      /\ undefined' = undefined
  BY DEF Create, Answer
<1>4. x \in Thread /\ x.pc = "reply"
  BY RestingFacts
<1> HIDE DEF x
<1>5. /\ Alone' /\ th'[w] = x /\ Pc(w)' = "reply" /\ th' \in [Worker -> Thread]
      /\ \A v \in Worker : v # w =>
            /\ th'[v] = th[v] /\ Pc(v) = "idle" /\ Pc(v)' = "idle"
            /\ MethodOK(v)' /\ LocalOK(v)' /\ ListOK(v)'
  BY <1>2, <1>3, <1>4, SoleFrame
<1>6. TypeOK'
  BY <1>1, <1>3, <1>5 DEF TypeOK
<1>7. MethodOK(w)' /\ ListOK(w)' /\ LocalOK(w)'
  BY <1>1, <1>2, <1>3, <1>5 DEF MethodOK, ListOK, LocalOK
<1>8. \A v \in Worker :
          /\ ~ Entering(v) /\ ~ Entering(v)' /\ Pc(v) # "putstore" /\ Pc(v)' # "putstore"
          /\ Pc(v) # "unmap" /\ Pc(v)' # "unmap" /\ Pc(v) # "store" /\ Pc(v)' # "store"
          /\ Pc(v) \notin {"load", "count"}
  BY <1>2, <1>5 DEF Entering
<1>9. MemoryOK' /\ CountOK'
  BY <1>1, <1>3, <1>8 DEF MemoryOK, CountOK, Stored
<1>10. IndexOK'
  <2>1. \A i, t : Titled(i, t)' <=> Titled(i, t)
    BY <1>3, <1>8 DEF Titled, Stored
  <2>2. \A t : IdOf(t)' = IdOf(t)
    BY <1>3 DEF IdOf
  <2> QED  BY <1>1, <1>3, <2>1, <2>2 DEF IndexOK
<1>11. DbOK'
  BY <1>3 DEF DbOK
<1> QED  BY <1>1, <1>3, <1>5, <1>6, <1>7, <1>9, <1>10, <1>11 DEF Inv

LEMMA PutNothingStep ==
    ASSUME Inv, NEW w \in Worker, PutNothing(w) PROVE Inv'
<1>1. Pc(w) = "put"
  BY DEF PutNothing, At, Pc
<1>2. UNCHANGED <<shared, undefined>> /\ Answer(w, [code |-> 404])
  BY DEF PutNothing
<1> QED  BY <1>1, <1>2, AnswerStep

LEMMA PutStep ==
    ASSUME Inv, NEW w \in Worker, Put(w) PROVE Inv'
<1> DEFINE f == th[w].f
           i == ht_get_value(id_map, th[w].f.title)
           new == parse_film(w)
           x == [th[w] EXCEPT !.pc = "putmap", !.id = i, !.prev = films[i], !.new = new]
<1>1. /\ TypeOK /\ MethodOK(w) /\ LocalOK(w) /\ th[w] \in Thread
      /\ th \in [Worker -> Thread] /\ MemoryOK /\ CountOK /\ IndexOK /\ DbOK
      /\ ~ undefined /\ Good(id_map)
  BY DEF Inv, TypeOK
<1>2. Pc(w) = "put" /\ Live /\ req[w].method = "put" /\ req[w].film # NoData
  <2>1. Pc(w) = "put" /\ req[w].film # NoData
    BY DEF Put, At, Pc
  <2> QED  BY <1>1, <2>1, Present DEF MethodOK
<1>3. Under(req[w].id, f) /\ req[w].film # NoFilm /\ req[w].film.title = f.title
  BY <1>1, <1>2 DEF LocalOK
<1>4. f \in Film /\ f.title \in Key /\ f # NoFilm
  <2>1. f \in Film \cup {NoFilm}
    BY <1>1, Shapes
  <2> QED  BY <1>3, <2>1, FilmShapes DEF Under
<1>5. i = req[w].id
  <2>1. Titled(req[w].id, f.title) /\ req[w].id \in DOMAIN films
    BY <1>3 DEF Under, Titled, Stored
  <2> QED  BY <1>1, <1>4, <2>1 DEF IndexOK, IdOf
<1>6. req[w].film \in FilmData
  <2>1. req[w] \in Request
    BY <1>1, <1>2 DEF MethodOK, TypeOK
  <2> QED  BY <1>2, <1>3, <2>1, RequestShapes
<1>7. Held(f) /\ i \in DOMAIN films /\ Held(films[i]) /\ films[i] = f
  <2>1. \A v \in Worker : Pc(v) # "putstore"
    BY <1>2, Others
  <2> QED  BY <1>3, <1>5, <2>1, StoredIsHeld DEF Under, Stored
<1>8. /\ new \in Film /\ new # NoFilm /\ new.block \notin allocated
      /\ Data(new) = req[w].film /\ new.title = req[w].film.title
      /\ \A j \in DOMAIN films : Stored(j) => films[j].block # new.block
  BY <1>6, ParseFacts
<1>9. /\ th' = [th EXCEPT ![w] = x] /\ req' = req
      /\ allocated' = allocated \cup {new.block}
      /\ films' = films /\ id_map' = id_map /\ cur_films' = cur_films /\ db' = db
      /\ undefined' = undefined
  BY <1>2, <1>7, <1>8 DEF Put, Using, Goto, Allocating
<1> HIDE DEF new
<1>10. /\ x \in Thread /\ x.pc = "putmap" /\ x.new = new /\ x.id = i /\ x.prev = f /\ x.f = f
  <2>1. i \in Number
    <3>1. i \in 0 .. MAX_FILMS - 1 /\ MAX_FILMS \in Nat
      BY <1>1, <1>7, Shapes
    <3> QED  BY <3>1 DEF Number
  <2> HIDE DEF i
  <2> QED  BY <1>1, <1>4, <1>7, <1>8, <2>1 DEF Thread
<1> HIDE DEF x, i, f
<1>11. /\ Alone' /\ th'[w] = x /\ Pc(w)' = "putmap" /\ th' \in [Worker -> Thread]
       /\ \A v \in Worker : v # w =>
             /\ th'[v] = th[v] /\ Pc(v) = "idle" /\ Pc(v)' = "idle"
             /\ MethodOK(v)' /\ LocalOK(v)' /\ ListOK(v)'
  BY <1>2, <1>9, <1>10, SoleFrame
<1>12. TypeOK'
  BY <1>1, <1>8, <1>9, <1>11, FilmShapes DEF TypeOK
<1>13. MethodOK(w)' /\ ListOK(w)'
  BY <1>1, <1>2, <1>9, <1>11 DEF MethodOK, ListOK
<1>14. LocalOK(w)'
  BY <1>2, <1>3, <1>5, <1>8, <1>9, <1>10, <1>11 DEF LocalOK, Under
<1>15. MemoryOK'
  BY <1>1, <1>2, <1>8, <1>9, <1>10, <1>11 DEF MemoryOK, Entering, Stored
<1>16. CountOK'
  BY <1>1, <1>2, <1>9, <1>11 DEF CountOK, Stored
<1>17. IndexOK'
  <2>1. \A j, t : Titled(j, t)' <=> Titled(j, t)
    BY <1>2, <1>9, <1>11 DEF Titled, Stored
  <2> QED  BY <1>1, <1>9, <2>1 DEF IndexOK, IdOf
<1>18. DbOK'
  BY <1>2, <1>9 DEF DbOK, Live
<1> QED
  BY <1>1, <1>9, <1>11, <1>12, <1>13, <1>14, <1>15, <1>16, <1>17, <1>18 DEF Inv

LEMMA PutMapStep ==
    ASSUME Inv, NEW w \in Worker, PutMap(w) PROVE Inv'
<1> DEFINE f == th[w].f
           x == [th[w] EXCEPT !.pc = "putfree"]
           gone == ht_delete_key(id_map, f.title)
<1>1. /\ TypeOK /\ MethodOK(w) /\ LocalOK(w) /\ th[w] \in Thread
      /\ th \in [Worker -> Thread] /\ MemoryOK /\ CountOK /\ IndexOK /\ DbOK
      /\ ~ undefined /\ Good(id_map)
  BY DEF Inv, TypeOK
<1>2. Pc(w) = "putmap" /\ Live
  <2>1. Pc(w) = "putmap"
    BY DEF PutMap, At, Pc
  <2> QED  BY <2>1, Present
<1>3. /\ Under(th[w].id, f) /\ th[w].prev = f
  BY <1>1, <1>2 DEF LocalOK
<1>4. f \in Film /\ f.title \in Key /\ f # NoFilm /\ th[w].id \in Nat
  <2>1. f \in Film \cup {NoFilm} /\ th[w].id \in Nat
    BY <1>1, Shapes
  <2> QED  BY <1>3, <2>1, FilmShapes DEF Under
<1>5. Held(f)
  <2>1. \A v \in Worker : Pc(v) # "putstore"
    BY <1>2, Others
  <2> QED  BY <1>3, <2>1, StoredIsHeld DEF Under, Stored
<1>6. /\ th' = [th EXCEPT ![w] = x] /\ req' = req
      /\ id_map' = ht_set_value(gone, f.title, th[w].id)
      /\ films' = films /\ allocated' = allocated /\ cur_films' = cur_films /\ db' = db
      /\ undefined' = undefined
  BY <1>2, <1>3, <1>5 DEF PutMap, Using, Goto
<1>7. x \in Thread /\ x = [th[w] EXCEPT !.pc = "putfree"] /\ x.pc = "putfree" /\ x.f = th[w].f
      /\ x.prev = th[w].prev /\ x.new = th[w].new /\ x.id = th[w].id
  BY <1>1 DEF Thread
<1> HIDE DEF x
<1>8. /\ Alone' /\ th'[w] = x /\ Pc(w)' = "putfree" /\ th' \in [Worker -> Thread]
      /\ \A v \in Worker : v # w =>
            /\ th'[v] = th[v] /\ Pc(v) = "idle" /\ Pc(v)' = "idle"
            /\ MethodOK(v)' /\ LocalOK(v)' /\ ListOK(v)'
  BY <1>2, <1>6, <1>7, SoleFrame
<1>9. Good(id_map') /\ \A k \in Key : IdOf(k)' = IdOf(k)
  <2>1. /\ Good(gone)
        /\ \A k \in Key : ht_get_value(gone, k) = IF k = f.title THEN NoValue ELSE IdOf(k)
    BY <1>1, <1>4, TableIsMap DEF IdOf
  <2> HIDE DEF gone
  <2>2. /\ Good(id_map')
        /\ \A k \in Key : IdOf(k)' = IF k = f.title THEN th[w].id ELSE ht_get_value(gone, k)
    BY <1>4, <1>6, <2>1, TableIsMap DEF IdOf
  <2>3. IdOf(f.title) = th[w].id
    <3>1. Titled(th[w].id, f.title) /\ th[w].id \in DOMAIN films
      BY <1>3 DEF Under, Titled, Stored
    <3> QED  BY <1>1, <1>4, <3>1 DEF IndexOK
  <2> QED  BY <2>1, <2>2, <2>3
<1>10. TypeOK'
  BY <1>1, <1>6, <1>8 DEF TypeOK
<1>11. MethodOK(w)' /\ ListOK(w)'
  BY <1>1, <1>2, <1>6, <1>8 DEF MethodOK, ListOK
<1>12. LocalOK(w)'
  BY <1>1, <1>2, <1>6, <1>7, <1>8 DEF LocalOK, Under
<1>13. /\ \A v \in Worker : (Entering(v)' <=> Entering(v)) /\ th'[v].new = th[v].new
       /\ \A v \in Worker : Pc(v) \notin {"putstore", "unmap", "store", "load", "count"}
       /\ \A v \in Worker : Pc(v)' \notin {"putstore", "unmap", "store", "load", "count"}
  BY <1>2, <1>7, <1>8 DEF Entering
<1>14. MemoryOK'
  BY <1>1, <1>6, <1>13 DEF MemoryOK, Stored
<1>15. CountOK'
  BY <1>1, <1>6, <1>13 DEF CountOK, Stored
<1>16. IndexOK'
  <2>1. \A j, t : Titled(j, t)' <=> Titled(j, t)
    BY <1>6, <1>13 DEF Titled, Stored
  <2> QED  BY <1>1, <1>6, <1>9, <2>1 DEF IndexOK
<1>17. DbOK'
  BY <1>2, <1>6 DEF DbOK, Live
<1> QED
  BY <1>1, <1>6, <1>8, <1>9, <1>10, <1>11, <1>12, <1>14, <1>15, <1>16, <1>17 DEF Inv

LEMMA PutFreeStep ==
    ASSUME Inv, NEW w \in Worker, PutFree(w) PROVE Inv'
<1> DEFINE prev == th[w].prev
           i == th[w].id
           x == [th[w] EXCEPT !.pc = "putstore"]
<1>1. /\ TypeOK /\ MethodOK(w) /\ LocalOK(w) /\ th[w] \in Thread
      /\ th \in [Worker -> Thread] /\ MemoryOK /\ CountOK /\ IndexOK /\ DbOK
      /\ ~ undefined /\ Good(id_map)
  BY DEF Inv, TypeOK
<1>2. Pc(w) = "putfree" /\ Live
  <2>1. Pc(w) = "putfree"
    BY DEF PutFree, At, Pc
  <2> QED  BY <2>1, Present
<1>3. Under(i, prev)
  BY <1>1, <1>2 DEF LocalOK
<1>4. Held(prev)
  <2>1. \A v \in Worker : Pc(v) # "putstore"
    BY <1>2, Others
  <2> QED  BY <1>3, <2>1, StoredIsHeld DEF Under, Stored
<1>5. /\ th' = [th EXCEPT ![w] = x] /\ req' = req
      /\ allocated' = allocated \ {prev.block}
      /\ films' = films /\ id_map' = id_map /\ cur_films' = cur_films /\ db' = db
      /\ undefined' = undefined
  BY <1>2, <1>4 DEF PutFree, Using, Goto
<1>6. x \in Thread /\ x.pc = "putstore" /\ x.f = th[w].f
      /\ x.prev = prev /\ x.new = th[w].new /\ x.id = i
  BY <1>1 DEF Thread
<1> HIDE DEF x
<1>7. /\ Alone' /\ th'[w] = x /\ Pc(w)' = "putstore" /\ th' \in [Worker -> Thread]
      /\ \A v \in Worker : v # w =>
            /\ th'[v] = th[v] /\ Pc(v) = "idle" /\ Pc(v)' = "idle"
            /\ MethodOK(v)' /\ LocalOK(v)' /\ ListOK(v)'
  BY <1>2, <1>5, <1>6, SoleFrame
<1>8. TypeOK'
  BY <1>1, <1>5, <1>7 DEF TypeOK
<1>9. MethodOK(w)' /\ ListOK(w)'
  BY <1>1, <1>2, <1>5, <1>7 DEF MethodOK, ListOK
<1>10. LocalOK(w)'
  BY <1>1, <1>2, <1>5, <1>6, <1>7 DEF LocalOK, Under
<1>11. /\ \A v \in Worker : (Entering(v)' <=> Entering(v)) /\ th'[v].new = th[v].new
       /\ \A v \in Worker : Pc(v) \notin {"putstore", "unmap", "store", "load", "count"}
       /\ \A v \in Worker : Pc(v)' \notin {"unmap", "store", "load", "count"}
       /\ \A v \in Worker : Pc(v)' = "putstore" <=> v = w
       /\ \A v \in Worker : Entering(v) <=> v = w
  BY <1>2, <1>6, <1>7 DEF Entering
<1>12. MemoryOK'
  <2>1. \A j \in DOMAIN films : Stored(j) =>
            /\ films[j].block \in allocated /\ films[j].block # th[w].new.block
            /\ (films[j].block = prev.block <=> j = i)
    BY <1>1, <1>3, <1>11 DEF MemoryOK, Under, Stored
  <2>2. th[w].new # NoFilm /\ th[w].new.block \in allocated /\ th[w].new.block # prev.block
    BY <1>1, <1>3, <1>11, <2>1 DEF MemoryOK, Under, Stored
  <2>3. \A j \in DOMAIN films' : Stored(j)' =>
            (films'[j].block \in allocated'
                <=> \A v \in Worker : Pc(v)' = "putstore" => th'[v].id # j)
    BY <1>5, <1>6, <1>7, <1>11, <2>1 DEF Stored
  <2>4. \A b \in allocated' : \/ \E j \in DOMAIN films' : Stored(j)' /\ films'[j].block = b
                              \/ \E v \in Worker : Entering(v)' /\ th'[v].new.block = b
    BY <1>1, <1>5, <1>11 DEF MemoryOK, Stored
  <2>5. \A j, k \in DOMAIN films' :
            Stored(j)' /\ Stored(k)' /\ films'[j].block = films'[k].block => j = k
    BY <1>1, <1>5 DEF MemoryOK, Stored
  <2>6. \A v \in Worker : Entering(v)' =>
            /\ th'[v].new # NoFilm /\ th'[v].new.block \in allocated'
            /\ \A j \in DOMAIN films' : Stored(j)' => films'[j].block # th'[v].new.block
    BY <1>5, <1>11, <2>1, <2>2 DEF Stored
  <2> QED  BY <1>11, <2>3, <2>4, <2>5, <2>6 DEF MemoryOK
<1>13. CountOK'
  BY <1>1, <1>5, <1>11 DEF CountOK, Stored
<1>14. IndexOK'
  <2>1. \A j, t : Titled(j, t)' <=> Titled(j, t)
    BY <1>5, <1>11 DEF Titled, Stored
  <2> QED  BY <1>1, <1>5, <2>1 DEF IndexOK, IdOf
<1>15. DbOK'
  BY <1>2, <1>5 DEF DbOK, Live
<1> QED
  BY <1>1, <1>5, <1>7, <1>8, <1>9, <1>10, <1>12, <1>13, <1>14, <1>15 DEF Inv

LEMMA PutStoreStep ==
    ASSUME Inv, NEW w \in Worker, PutStore(w) PROVE Inv'
<1> DEFINE prev == th[w].prev
           new == th[w].new
           i == th[w].id
           x == [Resting EXCEPT !.pc = "reply"]
<1>1. /\ TypeOK /\ MethodOK(w) /\ LocalOK(w) /\ th[w] \in Thread
      /\ th \in [Worker -> Thread] /\ MemoryOK /\ CountOK /\ IndexOK /\ DbOK
      /\ ~ undefined /\ Good(id_map)
  BY DEF Inv, TypeOK
<1>2. Pc(w) = "putstore" /\ Live
  <2>1. Pc(w) = "putstore"
    BY DEF PutStore, At, Pc
  <2> QED  BY <2>1, Present
<1>3. Under(i, prev) /\ new.title = prev.title
  BY <1>1, <1>2 DEF LocalOK
<1>4. /\ new \in Film /\ new # NoFilm /\ new.block \in allocated
      /\ \A j \in DOMAIN films : Stored(j) => films[j].block # new.block
  <2>1. /\ new # NoFilm /\ new.block \in allocated
        /\ \A j \in DOMAIN films : Stored(j) => films[j].block # new.block
    BY <1>1, <1>2 DEF MemoryOK, Entering
  <2> QED  BY <1>1, <2>1, Shapes
<1>5. /\ th' = [th EXCEPT ![w] = x] /\ req' = req /\ films' = [films EXCEPT ![i] = new]
      /\ allocated' = allocated /\ id_map' = id_map /\ cur_films' = cur_films /\ db' = db
      /\ undefined' = undefined
  BY <1>2 DEF PutStore, Using, Answer
<1>6. x \in Thread /\ x.pc = "reply"
  BY RestingFacts
<1>7. /\ DOMAIN films' = DOMAIN films /\ i \in DOMAIN films /\ Stored(i) /\ films[i] = prev
      /\ films'[i] = new /\ \A j \in DOMAIN films : j # i => films'[j] = films[j]
      /\ \A j \in DOMAIN films : Stored(j)' <=> Stored(j)
  BY <1>3, <1>4, <1>5 DEF Under, Stored
<1>8. films' \in [0 .. MAX_FILMS - 1 -> Film \cup {NoFilm}]
  BY <1>1, <1>4, <1>5 DEF TypeOK
<1> HIDE DEF x
<1>9. /\ Alone' /\ th'[w] = x /\ Pc(w)' = "reply" /\ th' \in [Worker -> Thread]
      /\ \A v \in Worker : v # w =>
            /\ th'[v] = th[v] /\ Pc(v) = "idle" /\ Pc(v)' = "idle"
            /\ MethodOK(v)' /\ LocalOK(v)' /\ ListOK(v)'
  BY <1>2, <1>5, <1>6, SoleFrame
<1> HIDE DEF i, new, prev
<1>10. TypeOK'
  BY <1>1, <1>5, <1>8, <1>9 DEF TypeOK
<1>11. MethodOK(w)' /\ ListOK(w)' /\ LocalOK(w)'
  BY <1>1, <1>2, <1>5, <1>9 DEF MethodOK, ListOK, LocalOK
<1>12. /\ \A v \in Worker : Pc(v)' \in {"reply", "idle"} /\ ~ Entering(v)'
       /\ \A v \in Worker : v # w => Pc(v) = "idle" /\ ~ Entering(v)
  BY <1>9 DEF Entering
<1>13. MemoryOK'
  <2>1. \A j \in DOMAIN films : Stored(j) => (films[j].block \in allocated <=> j # i)
    BY <1>1, <1>2, <1>12 DEF MemoryOK, i
  <2>2. \A j, k \in DOMAIN films :
            Stored(j) /\ Stored(k) /\ films[j].block = films[k].block => j = k
    BY <1>1 DEF MemoryOK
  <2>3. \A b \in allocated : \E j \in DOMAIN films' : Stored(j)' /\ films'[j].block = b
    <3> TAKE b \in allocated
    <3>1. (\E j \in DOMAIN films : Stored(j) /\ films[j].block = b) \/ new.block = b
      BY <1>1, <1>2, <1>12 DEF MemoryOK, new
    <3> QED  BY <1>7, <2>1, <3>1
  <2>4. \A j \in DOMAIN films' : Stored(j)' => films'[j].block \in allocated'
    BY <1>4, <1>5, <1>7, <2>1
  <2>5. \A j, k \in DOMAIN films' :
            Stored(j)' /\ Stored(k)' /\ films'[j].block = films'[k].block => j = k
    BY <1>4, <1>7, <2>2
  <2> QED  BY <1>5, <1>12, <2>3, <2>4, <2>5 DEF MemoryOK
<1>14. CountOK'
  BY <1>1, <1>2, <1>5, <1>7, <1>12 DEF CountOK
<1>15. IndexOK'
  <2>1. \A j \in DOMAIN films : \A t : Titled(j, t) <=> Stored(j) /\ films[j].title = t
    BY <1>2, <1>12 DEF Titled
  <2>2. \A j \in DOMAIN films : \A t : Titled(j, t)' <=> Stored(j)' /\ films'[j].title = t
    BY <1>12 DEF Titled
  <2>3. \A j \in DOMAIN films : \A t : Titled(j, t)' <=> Titled(j, t)
    <3>1. films'[i].title = films[i].title
      BY <1>3, <1>7 DEF new, prev
    <3> QED  BY <1>7, <2>1, <2>2, <3>1
  <2>4. \A t : IdOf(t)' = IdOf(t)
    BY <1>5 DEF IdOf
  <2> QED  BY <1>1, <1>7, <2>3, <2>4 DEF IndexOK
<1>16. DbOK'
  BY <1>2, <1>5 DEF DbOK, Live
<1> QED
  BY <1>1, <1>5, <1>9, <1>10, <1>11, <1>13, <1>14, <1>15, <1>16 DEF Inv

LEMMA DeleteStep ==
    ASSUME Inv, NEW w \in Worker, Delete(w) PROVE Inv'
<1> DEFINE i == req[w].id
           film == films[i]
           x == [th[w] EXCEPT !.pc = "unmap", !.f = film]
<1>1. /\ TypeOK /\ MethodOK(w) /\ LocalOK(w) /\ th[w] \in Thread
      /\ th \in [Worker -> Thread] /\ MemoryOK /\ CountOK /\ IndexOK /\ DbOK
      /\ ~ undefined /\ Good(id_map)
  BY DEF Inv, TypeOK
<1>2. Pc(w) = "delete" /\ Live /\ req[w].method = "delete"
  <2>1. Pc(w) = "delete"
    BY DEF Delete, At, Pc
  <2> QED  BY <1>1, <2>1, Present DEF MethodOK
<1>3. /\ i \in DOMAIN films /\ i < cur_films /\ film # NoFilm /\ db_get(i) = film
  BY <1>1, <1>2 DEF LocalOK, Under, db_get
<1>4. film \in Film
  BY <1>1, <1>3, Shapes
<1>5. /\ th' = [th EXCEPT ![w] = x] /\ req' = req /\ films' = [films EXCEPT ![i] = NoFilm]
      /\ allocated' = allocated /\ id_map' = id_map /\ cur_films' = cur_films /\ db' = db
      /\ undefined' = undefined
  BY <1>2, <1>3 DEF Delete, Using, Goto, InArray
<1>6. x \in Thread /\ x.pc = "unmap" /\ x.f = film
  BY <1>1, <1>4 DEF Thread
<1>7. /\ DOMAIN films' = DOMAIN films /\ films'[i] = NoFilm
      /\ \A j \in DOMAIN films : j # i => films'[j] = films[j]
      /\ \A j \in DOMAIN films : Stored(j)' <=> Stored(j) /\ j # i
  BY <1>3, <1>5 DEF Stored
<1>8. films' \in [0 .. MAX_FILMS - 1 -> Film \cup {NoFilm}]
  BY <1>1, <1>5 DEF TypeOK
<1> HIDE DEF x
<1>9. /\ Alone' /\ th'[w] = x /\ Pc(w)' = "unmap" /\ th' \in [Worker -> Thread]
      /\ \A v \in Worker : v # w =>
            /\ th'[v] = th[v] /\ Pc(v) = "idle" /\ Pc(v)' = "idle"
            /\ MethodOK(v)' /\ LocalOK(v)' /\ ListOK(v)'
  BY <1>2, <1>5, <1>6, SoleFrame
<1>10. i' = i /\ Stored(i)
  BY <1>3, <1>5 DEF Stored
<1> HIDE DEF i, film
<1>11. TypeOK'
  BY <1>1, <1>5, <1>8, <1>9 DEF TypeOK
<1>12. MethodOK(w)' /\ ListOK(w)'
  BY <1>1, <1>2, <1>5, <1>9 DEF MethodOK, ListOK
<1>13. LocalOK(w)'
  <2>1. req'[w].id = i
    BY <1>5 DEF i
  <2> QED  BY <1>3, <1>5, <1>7, <1>9, <2>1 DEF LocalOK
<1>14. /\ \A v \in Worker : Pc(v) \in {"delete", "idle"} /\ ~ Entering(v)
       /\ \A v \in Worker : Pc(v)' \in {"unmap", "idle"} /\ ~ Entering(v)'
       /\ \A v \in Worker : Pc(v)' = "unmap" <=> v = w
  BY <1>2, <1>9 DEF Entering
<1>15. MemoryOK'
  <2>1. \A j \in DOMAIN films : Stored(j) => films[j].block \in allocated
    BY <1>1, <1>14 DEF MemoryOK
  <2>2. \A j, k \in DOMAIN films :
            Stored(j) /\ Stored(k) /\ films[j].block = films[k].block => j = k
    BY <1>1 DEF MemoryOK
  <2>3. \A b \in allocated : \/ \E j \in DOMAIN films' : Stored(j)' /\ films'[j].block = b
                             \/ film.block = b
    <3> TAKE b \in allocated
    <3>1. \E j \in DOMAIN films : Stored(j) /\ films[j].block = b
      BY <1>1, <1>14 DEF MemoryOK
    <3> QED  BY <1>7, <3>1 DEF film
  <2>4. \A j \in DOMAIN films' : Stored(j)' => films'[j].block \in allocated'
    BY <1>5, <1>7, <2>1
  <2>5. \A j, k \in DOMAIN films' :
            Stored(j)' /\ Stored(k)' /\ films'[j].block = films'[k].block => j = k
    BY <1>7, <2>2
  <2>6. /\ film # NoFilm /\ film.block \in allocated
        /\ \A j \in DOMAIN films' : Stored(j)' => films'[j].block # film.block
    BY <1>3, <1>7, <1>10, <2>1, <2>2 DEF film
  <2>7. th'[w].f = film
    BY <1>6, <1>9
  <2>8. \A v \in Worker : Pc(v)' # "putstore"
    BY <1>14
  <2> QED  BY <1>5, <1>9, <1>14, <2>3, <2>4, <2>5, <2>6, <2>7, <2>8 DEF MemoryOK
<1>16. CountOK'
  BY <1>1, <1>5, <1>7, <1>14 DEF CountOK
<1>17. IndexOK'
  <2>1. \A j \in DOMAIN films : \A t : Titled(j, t) <=> Stored(j) /\ films[j].title = t
    BY <1>14 DEF Titled
  <2>2. \A j \in DOMAIN films : \A t :
            Titled(j, t)' <=> \/ Stored(j)' /\ films'[j].title = t
                              \/ film.title = t /\ j = i
    <3>1. th'[w].f = film /\ req'[w].id = i
      BY <1>5, <1>6, <1>9 DEF i
    <3> QED  BY <1>14, <3>1 DEF Titled
  <2>3. \A j \in DOMAIN films : \A t : Titled(j, t)' <=> Titled(j, t)
    BY <1>7, <1>10, <2>1, <2>2 DEF film
  <2>4. \A t : IdOf(t)' = IdOf(t)
    BY <1>5 DEF IdOf
  <2> QED  BY <1>1, <1>7, <2>3, <2>4 DEF IndexOK
<1>18. DbOK'
  BY <1>2, <1>5 DEF DbOK, Live
<1> QED
  BY <1>1, <1>5, <1>9, <1>11, <1>12, <1>13, <1>15, <1>16, <1>17, <1>18 DEF Inv

LEMMA DeleteUnmapStep ==
    ASSUME Inv, NEW w \in Worker, DeleteUnmap(w) PROVE Inv'
<1> DEFINE f == th[w].f
           i == req[w].id
           x == [Resting EXCEPT !.pc = "reply"]
<1>1. /\ TypeOK /\ MethodOK(w) /\ LocalOK(w) /\ th[w] \in Thread
      /\ th \in [Worker -> Thread] /\ MemoryOK /\ CountOK /\ IndexOK /\ DbOK
      /\ ~ undefined /\ Good(id_map)
  BY DEF Inv, TypeOK
<1>2. Pc(w) = "unmap" /\ Live
  <2>1. Pc(w) = "unmap"
    BY DEF DeleteUnmap, At, Pc
  <2> QED  BY <2>1, Present
<1>3. i < cur_films /\ i \in DOMAIN films /\ ~ Stored(i)
  BY <1>1, <1>2 DEF LocalOK
<1>4. /\ f \in Film /\ f # NoFilm /\ f.title \in Key /\ f.block \in allocated /\ Held(f)
      /\ \A j \in DOMAIN films : Stored(j) => films[j].block # f.block
  <2>1. /\ f # NoFilm /\ f.block \in allocated
        /\ \A j \in DOMAIN films : Stored(j) => films[j].block # f.block
    BY <1>1, <1>2 DEF MemoryOK
  <2>2. f \in Film
    BY <1>1, <2>1, Shapes
  <2> QED  BY <2>1, <2>2, FilmShapes DEF Held
<1>5. /\ th' = [th EXCEPT ![w] = x] /\ req' = req /\ films' = films
      /\ allocated' = allocated \ {f.block} /\ id_map' = ht_delete_key(id_map, f.title)
      /\ cur_films' = cur_films /\ db' = db /\ undefined' = undefined
  BY <1>2, <1>4 DEF DeleteUnmap, Using, Answer
<1>6. x \in Thread /\ x.pc = "reply"
  BY RestingFacts
<1> HIDE DEF x
<1>7. /\ Alone' /\ th'[w] = x /\ Pc(w)' = "reply" /\ th' \in [Worker -> Thread]
      /\ \A v \in Worker : v # w =>
            /\ th'[v] = th[v] /\ Pc(v) = "idle" /\ Pc(v)' = "idle"
            /\ MethodOK(v)' /\ LocalOK(v)' /\ ListOK(v)'
  BY <1>2, <1>5, <1>6, SoleFrame
<1> HIDE DEF i, f
<1>8. TypeOK'
  BY <1>1, <1>5, <1>7 DEF TypeOK
<1>9. MethodOK(w)' /\ ListOK(w)' /\ LocalOK(w)'
  BY <1>1, <1>2, <1>5, <1>7 DEF MethodOK, ListOK, LocalOK
<1>10. /\ \A v \in Worker : Pc(v) \in {"unmap", "idle"} /\ ~ Entering(v)
       /\ \A v \in Worker : Pc(v) = "unmap" <=> v = w
       /\ \A v \in Worker : Pc(v)' \in {"reply", "idle"} /\ ~ Entering(v)'
  BY <1>2, <1>7 DEF Entering
<1>11. MemoryOK'
  <2>1. \A j \in DOMAIN films : Stored(j) =>
            films[j].block \in allocated /\ films[j].block # f.block
    BY <1>1, <1>4, <1>10 DEF MemoryOK
  <2>2. \A b \in allocated : \/ \E j \in DOMAIN films : Stored(j) /\ films[j].block = b
                             \/ f.block = b
    BY <1>1, <1>10 DEF MemoryOK, f
  <2>3. \A j, k \in DOMAIN films :
            Stored(j) /\ Stored(k) /\ films[j].block = films[k].block => j = k
    BY <1>1 DEF MemoryOK
  <2>4. \A j : Stored(j)' <=> Stored(j)
    BY <1>5 DEF Stored
  <2> QED  BY <1>5, <1>10, <2>1, <2>2, <2>3, <2>4 DEF MemoryOK
<1>12. CountOK'
  BY <1>1, <1>5, <1>10 DEF CountOK, Stored
<1>13. /\ Good(id_map')
       /\ \A t \in Key : IdOf(t)' = IF t = f.title THEN NoValue ELSE IdOf(t)
  BY <1>1, <1>4, <1>5, TableIsMap DEF IdOf
<1>14. IndexOK'
  <2>1. \A j, t : Titled(j, t) <=> (Stored(j) /\ films[j].title = t) \/ (f.title = t /\ j = i)
    BY <1>2, <1>10 DEF Titled, f, i
  <2>2. \A j, t : Titled(j, t)' <=> Stored(j) /\ films[j].title = t
    BY <1>5, <1>10 DEF Titled, Stored
  <2>3. IdOf(f.title) = i
    BY <1>1, <1>3, <1>4, <2>1 DEF IndexOK
  <2>4. \A j \in DOMAIN films : j # NoValue
    BY <1>1, <1>2, Shapes, DistinctAssumption
  <2>5. ASSUME NEW t \in Key
        PROVE  /\ IdOf(t)' \in {NoValue} \cup DOMAIN films
               /\ \A j \in DOMAIN films : IdOf(t)' = j <=> Titled(j, t)'
    <3>1. CASE t = f.title
      <4>1. \A j \in DOMAIN films : Titled(j, t) => j = i
        BY <1>1, <2>3, <3>1 DEF IndexOK
      <4>2. ASSUME NEW j \in DOMAIN films PROVE ~ Titled(j, t)'
        BY <1>3, <2>1, <2>2, <4>1
      <4> QED  BY <1>13, <2>4, <3>1, <4>2
    <3>2. CASE t # f.title
      BY <1>1, <1>13, <2>1, <2>2, <3>2 DEF IndexOK
    <3> QED  BY <3>1, <3>2
  <2> QED  BY <1>5, <2>5 DEF IndexOK
<1>15. DbOK'
  BY <1>2, <1>5 DEF DbOK, Live
<1> QED
  BY <1>1, <1>5, <1>7, <1>8, <1>9, <1>11, <1>12, <1>13, <1>14, <1>15 DEF Inv

LEMMA InitInv == Init => Inv
<1> SUFFICES ASSUME Init PROVE Inv
  OBVIOUS
<1>1. MAX_FILMS \in Nat \ {0} /\ 0 \in Number
  BY FilmDatabaseAssumption DEF Number
<1>2. /\ films = [i \in 0 .. MAX_FILMS - 1 |-> NoFilm] /\ id_map = ht_create /\ cur_films = 0
      /\ db = "live" /\ allocated = {} /\ req = [w \in Worker |-> Idle]
      /\ th = [w \in Worker |-> Resting] /\ undefined = FALSE
  BY DEF Init
<1>3. /\ DOMAIN films = 0 .. MAX_FILMS - 1 /\ \A i \in DOMAIN films : ~ Stored(i)
      /\ \A w \in Worker : th[w] = Resting /\ Pc(w) = "idle" /\ req[w] = Idle
  BY <1>2 DEF Stored, Pc, Resting
<1>4. TypeOK
  BY <1>1, <1>2, RestingFacts DEF TypeOK
<1>5. \A w \in Worker : MethodOK(w) /\ LocalOK(w) /\ ListOK(w) /\ ~ Entering(w)
  BY <1>3 DEF MethodOK, LocalOK, ListOK, Entering
<1>6. Alone /\ CountOK /\ DbOK
  BY <1>2, <1>3 DEF Alone, Busy, CountOK, DbOK
<1>7. MemoryOK
  BY <1>2, <1>3, <1>5 DEF MemoryOK
<1>8. IndexOK
  <2>1. \A t \in Key : IdOf(t) = NoValue
    BY <1>2, TableIsMap DEF IdOf
  <2>2. \A i \in DOMAIN films : i # NoValue /\ \A t : ~ Titled(i, t)
    BY <1>1, <1>3, DistinctAssumption DEF Titled
  <2> QED  BY <2>1, <2>2 DEF IndexOK
<1> QED  BY <1>2, <1>4, <1>5, <1>6, <1>7, <1>8, TableIsMap DEF Inv

LEMMA StutterInv == Inv /\ UNCHANGED vars => Inv'
<1> SUFFICES ASSUME Inv, UNCHANGED vars PROVE Inv'
  OBVIOUS
<1>1. /\ films' = films /\ id_map' = id_map /\ cur_films' = cur_films /\ db' = db
      /\ allocated' = allocated /\ req' = req /\ th' = th /\ undefined' = undefined
  BY DEF vars, shared
<1>2. /\ TypeOK' = TypeOK /\ Alone' = Alone /\ MemoryOK' = MemoryOK /\ CountOK' = CountOK
      /\ DbOK' = DbOK
  BY <1>1 DEF TypeOK, Alone, Busy, MemoryOK, Stored, Entering, Pc, CountOK, DbOK
<1>3. IndexOK' = IndexOK
  BY <1>1 DEF IndexOK, IdOf, Titled, Stored, Pc
<1>4. \A w \in Worker : /\ MethodOK(w)' = MethodOK(w) /\ LocalOK(w)' = LocalOK(w)
                        /\ ListOK(w)' = ListOK(w)
  BY <1>1 DEF MethodOK, LocalOK, ListOK, Pc, Under, Stored, IdOf, db_get
<1> QED  BY <1>1, <1>2, <1>3, <1>4 DEF Inv

LEMMA NextInv == Inv /\ [CarefulNext]_vars => Inv'
<1> SUFFICES ASSUME Inv, CarefulNext PROVE Inv'
  BY StutterInv
<1>1. PICK w \in Worker : Step(w) \/ \E r \in Request : Careful(r) /\ Accept(w, r)
  BY DEF CarefulNext
<1>2. CASE \E r \in Request : Careful(r) /\ Accept(w, r)
  BY <1>2, AcceptStep
<1>3. CASE Step(w)
  BY <1>3, ListNextStep, ListViewStep, AddCheckStep, AddMapStep, AddStoreStep, AddLoadStep,
     AddCountStep, AddLocationStep, DestroyStep, CreateStep, LookupStep, GetStep,
     PutNothingStep, PutStep,
     PutMapStep, PutFreeStep, PutStoreStep, DeleteStep, DeleteUnmapStep, ReplyStep DEF Step
<1> QED  BY <1>1, <1>2, <1>3

LEMMA AlwaysInv == CarefulSpec => []Inv
  BY InitInv, NextInv, PTL DEF CarefulSpec

\* The variables of the film database (block5.c, database.c) keep their types.
THEOREM FilmTypeCorrect == CarefulSpec => []TypeOK
  BY AlwaysInv, PTL DEF Inv

\* No thread of careful clients uses a film or a database that is freed, or a place
\* outside of the array (db_add, db_update, db_delete and reset_db of database.c).
THEOREM AllDefined == CarefulSpec => []NothingUndefined
  BY AlwaysInv, PTL DEF Inv, NothingUndefined

\* The table of titles is consistent at every moment: every title in its list, none
\* twice, all counted, and grown in time (hash_table.c).
THEOREM TableConsistentAlways == CarefulSpec => []TableStaysConsistent
  BY AlwaysInv, PTL DEF Inv, Good, TableStaysConsistent

\* When nobody changes the database its table finds the film that has a title, and it is
\* the only one (db_contains, database.c:21).
THEOREM TitlesFound == CarefulSpec => []TitlesIndexed
<1>1. Inv => TitlesIndexed
  <2> SUFFICES ASSUME Inv,
                      \A w \in Worker : th[w].pc = "reply" \/ req[w] = Idle \/ Reading(req[w]),
                      NEW t \in Key
               PROVE  {i \in DOMAIN films : films[i] # NoFilm /\ films[i].title = t}
                          = IF IdOf(t) = NoValue THEN {} ELSE {IdOf(t)}
    BY DEF TitlesIndexed, IdOf
  <2>1. \A w \in Worker : Pc(w) # "store" /\ Pc(w) # "unmap"
    <3> SUFFICES ASSUME NEW w \in Worker, Pc(w) \in {"store", "unmap"} PROVE FALSE
      OBVIOUS
    <3>1. MethodOK(w)
      BY DEF Inv
    <3> QED  BY <3>1 DEF MethodOK, Pc, Reading
  <2>2. \A i \in DOMAIN films : IdOf(t) = i <=> (films[i] # NoFilm /\ films[i].title = t)
    BY <2>1 DEF Inv, IndexOK, Titled, Stored
  <2>3. IdOf(t) \in {NoValue} \cup DOMAIN films
    BY DEF Inv, IndexOK
  <2>4. NoValue \notin DOMAIN films
    <3>1. DOMAIN films = 0 .. MAX_FILMS - 1
      BY DEF Inv, TypeOK
    <3> QED  BY <3>1, FilmDatabaseAssumption, DistinctAssumption
  <2> QED  BY <2>2, <2>3, <2>4
<1> QED  BY <1>1, AlwaysInv, PTL

-------------------------------------------------------------------------------
(* The database implements the catalogue: what a client can tell of it *)

Cat == [i \in 0 .. MAX_FILMS - 1 |-> IF i < cur_films THEN Data(films[i]) ELSE NoFilm]
Ans == [w \in Worker |-> Applied(w)]

\* A thread has an answer while it replies.
Answers ==
    /\ answer = [w \in Worker |-> answer[w]]
    /\ \A w \in Worker : answer[w] = NoAnswer <=> Pc(w) # "reply"

\* What the catalogue's definitions say of the database.
LEMMA CatFacts ==
    ASSUME Inv
    PROVE  /\ DOMAIN Cat = DOMAIN films /\ DOMAIN films = 0 .. MAX_FILMS - 1
           /\ cur_films \in Nat /\ MAX_FILMS \in Nat /\ cur_films <= MAX_FILMS
           /\ \A i \in DOMAIN films :
                 /\ Cat[i] = IF i < cur_films THEN Data(films[i]) ELSE NoFilm
                 /\ Cat[i] # NoFilm <=> i < cur_films /\ Stored(i)
                 /\ i < cur_films /\ Stored(i) => Cat[i].title = films[i].title
           /\ \A i \in Nat : i \in DOMAIN films /\ i < cur_films <=> i < cur_films
<1>1. TypeOK /\ MAX_FILMS \in Nat \ {0}
  BY FilmDatabaseAssumption DEF Inv
<1>2. /\ DOMAIN films = 0 .. MAX_FILMS - 1 /\ cur_films \in 0 .. MAX_FILMS
      /\ \A i \in DOMAIN films : films[i] \in Film \cup {NoFilm}
  BY <1>1 DEF TypeOK, Number
<1>3. DOMAIN Cat = DOMAIN films
  BY <1>2 DEF Cat
<1>4. \A i \in DOMAIN films : Cat[i] = IF i < cur_films THEN Data(films[i]) ELSE NoFilm
  BY <1>2 DEF Cat
<1>5. ASSUME NEW i \in DOMAIN films
      PROVE  /\ Cat[i] # NoFilm <=> i < cur_films /\ Stored(i)
             /\ i < cur_films /\ Stored(i) => Cat[i].title = films[i].title
  BY <1>2, <1>4, <1>5, FilmShapes DEF Stored
<1> QED  BY <1>1, <1>2, <1>3, <1>4, <1>5

LEMMA FilmAtIs ==
    ASSUME Inv, NEW i \in Nat
    PROVE  Catalogue!FilmAt(i) = Data(db_get(i))
<1>1. Catalogue!FilmAt(i) = IF i \in DOMAIN Cat THEN Cat[i] ELSE NoFilm
  BY DEF Catalogue!FilmAt, Cat
<1>2. CASE i < cur_films
  BY <1>1, <1>2, CatFacts DEF db_get
<1>3. CASE ~ (i < cur_films)
  <2>1. db_get(i) = NoFilm
    BY <1>3 DEF db_get
  <2>2. i \in DOMAIN Cat => Cat[i] = NoFilm
    BY <1>3, CatFacts
  <2> QED  BY <1>1, <2>1, <2>2, FilmShapes
<1> QED  BY <1>2, <1>3

LEMMA TitlesAre ==
    ASSUME Inv, NEW t
    PROVE  t \in Catalogue!Titles <=>
              \E i \in DOMAIN films : i < cur_films /\ Stored(i) /\ films[i].title = t
<1>1. Catalogue!Titles = {Cat[i].title : i \in {j \in DOMAIN Cat : Cat[j] # NoFilm}}
  BY DEF Catalogue!Titles, Cat
<1> QED  BY <1>1, CatFacts

\* A step that a client cannot tell.
LEMMA Unseen ==
    ASSUME Cat' = Cat, cur_films' = cur_films, req' = req,
           \A v \in Worker : Applied(v)' = Applied(v)
    PROVE  UNCHANGED Catalogue!catVars
<1>1. Ans' = Ans
  BY DEF Ans
<1> QED  BY <1>1 DEF Catalogue!catVars, Cat, Ans

\* A thread goes on, and a client cannot tell: the collection stays.
LEMMA Walks ==
    ASSUME Inv, NEW w \in Worker, NEW x, Goto(w, x), Cat' = Cat, cur_films' = cur_films,
           Pc(w) \notin {"location", "create", "unmap"},
           x.pc \notin {"location", "create", "unmap"}
    PROVE  UNCHANGED Catalogue!catVars
<1>1. /\ th \in [Worker -> Thread] /\ th' = [th EXCEPT ![w] = x] /\ req' = req
      /\ answer' = answer
  BY DEF Inv, TypeOK, Goto
<1>2. th'[w] = x /\ \A v \in Worker : v # w => th'[v] = th[v]
  BY <1>1
<1>3. \A v \in Worker : Applied(v)' = Applied(v)
  BY <1>1, <1>2 DEF Applied, Pc
<1> QED  BY <1>1, <1>3, Unseen

\* The answer of a thread is determined.
LEMMA Applies ==
    ASSUME Inv, Answers, NEW w \in Worker, NEW x, NEW a,
           Pc(w) \notin {"idle", "reply", "location", "create", "unmap"},
           th' = [th EXCEPT ![w] = x], req' = req,
           \A v \in Worker : v # w => answer'[v] = answer[v],
           Applied(w)' = a,
           Catalogue!Outcome(req[w], a, Cat', cur_films')
    PROVE  Catalogue!CatNext
<1>1. MethodOK(w) /\ th \in [Worker -> Thread]
  BY DEF Inv, TypeOK
<1>2. req[w] # Idle /\ Applied(w) = NoAnswer
  BY <1>1 DEF MethodOK, Applied, Answers, Pc
<1>3. \A v \in Worker : v # w => th'[v] = th[v] /\ Applied(v)' = Applied(v)
  BY <1>1 DEF Applied
<1>4. /\ Ans[w] = NoAnswer /\ Ans'[w] = a
      /\ \A v \in Worker \ {w} : Ans'[v] = Ans[v]
  BY <1>2, <1>3 DEF Ans
<1>5. Catalogue!Apply(w)
  BY <1>2, <1>4 DEF Catalogue!Apply, Ans, Cat
<1> QED  BY <1>5 DEF Catalogue!CatNext

\* ... and given at once.
LEMMA AppliesAnswer ==
    ASSUME Inv, Answers, NEW w \in Worker, NEW a, Answer(w, a),
           Pc(w) \notin {"idle", "reply", "location", "create", "unmap"},
           Catalogue!Outcome(req[w], a, Cat', cur_films')
    PROVE  Catalogue!CatNext
<1> DEFINE x == [Resting EXCEPT !.pc = "reply"]
<1>1. /\ th' = [th EXCEPT ![w] = x] /\ req' = req /\ answer' = [answer EXCEPT ![w] = a]
      /\ th \in [Worker -> Thread] /\ x.pc = "reply"
  BY RestingFacts DEF Answer, Inv, TypeOK
<1> HIDE DEF x
<1>2. /\ th'[w] = x /\ answer'[w] = a
      /\ \A v \in Worker : v # w => answer'[v] = answer[v]
  BY <1>1 DEF Answers
<1>3. Applied(w)' = a
  BY <1>1, <1>2 DEF Applied
<1> QED  BY <1>1, <1>2, <1>3, Applies

LEMMA AcceptMaps ==
    ASSUME Inv, Answers, NEW w \in Worker, NEW r \in Request, Accept(w, r)
    PROVE  Catalogue!CatNext
<1> DEFINE l == Entry(r.method)
<1>1. /\ Pc(w) = "idle" /\ req[w] = Idle /\ th \in [Worker -> Thread]
      /\ req \in [Worker -> Request \cup {Idle}]
  <2>1. MethodOK(w) /\ TypeOK /\ Pc(w) = "idle"
    BY DEF Inv, Accept, At, Pc
  <2> QED  BY <2>1 DEF MethodOK, TypeOK
<1>2. l \in {"list", "contains", "destroy", "lookup"}
  BY DEF Entry
<1>3. /\ req' = [req EXCEPT ![w] = r] /\ th' = [th EXCEPT ![w].pc = l] /\ answer' = answer
      /\ films' = films /\ cur_films' = cur_films
  BY DEF Accept, shared
<1> HIDE DEF l
<1>4. /\ th'[w].pc = l /\ \A v \in Worker : v # w => th'[v] = th[v]
  BY <1>1, <1>3 DEF Thread
<1>5. \A v \in Worker : Applied(v)' = Applied(v)
  BY <1>1, <1>2, <1>3, <1>4 DEF Applied, Pc
<1>6. Cat' = Cat /\ Ans' = Ans
  BY <1>3, <1>5 DEF Cat, Ans
<1>7. Catalogue!Arrive(w, r)
  BY <1>1, <1>3, <1>6 DEF Catalogue!Arrive, Cat, Ans
<1> QED  BY <1>7 DEF Catalogue!CatNext

LEMMA ReplyMaps ==
    ASSUME Inv, Answers, NEW w \in Worker, Reply(w)
    PROVE  Catalogue!CatNext
<1>1. /\ Pc(w) = "reply" /\ th \in [Worker -> Thread] /\ Resting.pc = "idle"
      /\ req' = [req EXCEPT ![w] = Idle] /\ th' = [th EXCEPT ![w] = Resting]
      /\ answer' = [answer EXCEPT ![w] = NoAnswer]
      /\ films' = films /\ cur_films' = cur_films
  BY DEF Inv, TypeOK, Reply, At, Pc, Resting, shared
<1>2. /\ th'[w] = Resting /\ answer'[w] = NoAnswer
      /\ \A v \in Worker : v # w => th'[v] = th[v] /\ answer'[v] = answer[v]
  BY <1>1 DEF Answers
<1>3. /\ Applied(w) # NoAnswer /\ Applied(w)' = NoAnswer
      /\ \A v \in Worker : v # w => Applied(v)' = Applied(v)
  BY <1>1, <1>2 DEF Applied, Answers, Pc
<1>4. Cat' = Cat /\ Ans' = [Ans EXCEPT ![w] = NoAnswer] /\ Ans[w] # NoAnswer
  BY <1>1, <1>3 DEF Cat, Ans
<1>5. Catalogue!Reply(w)
  BY <1>1, <1>4 DEF Catalogue!Reply, Cat, Ans
<1> QED  BY <1>5 DEF Catalogue!CatNext

LEMMA ListNextMaps ==
    ASSUME Inv, Answers, NEW w \in Worker, ListNext(w)
    PROVE  Catalogue!CatNext \/ UNCHANGED Catalogue!catVars
<1> DEFINE i == th[w].id
           a == [code |-> 200, items |-> th[w].items]
<1>1. /\ Pc(w) = "list" /\ Live /\ MethodOK(w) /\ ListOK(w) /\ th[w] \in Thread
      /\ req[w].method = "list" /\ i \in Nat /\ (i < cur_films => i \in DOMAIN films)
  <2>1. Pc(w) = "list" /\ MethodOK(w) /\ TypeOK /\ ListOK(w)
    BY DEF Inv, ListNext, At, Pc
  <2>2. i \in Nat
    BY <2>1, Shapes
  <2> QED  BY <2>1, <2>2, Present DEF MethodOK, InArray, TypeOK
<1>2. films' = films /\ cur_films' = cur_films /\ Cat' = Cat
  BY DEF ListNext, shared, Cat
<1>3. CASE i >= cur_films
  <2>1. Answer(w, a)
    BY <1>1, <1>3 DEF ListNext, Using
  <2>2. i = cur_films
    BY <1>1, <1>3, CatFacts DEF ListOK
  <2>3. th[w].items = {<<j, films[j].title>> : j \in {k \in DOMAIN films : k < cur_films /\ Stored(k)}}
    BY <1>1, <2>2 DEF ListOK
  <2>4. th[w].items = {<<j, Cat[j].title>> : j \in {k \in DOMAIN Cat : Cat[k] # NoFilm}}
    <3>1. {k \in DOMAIN films : k < cur_films /\ Stored(k)} = {k \in DOMAIN Cat : Cat[k] # NoFilm}
      BY CatFacts
    <3>2. \A j \in {k \in DOMAIN films : k < cur_films /\ Stored(k)} : films[j].title = Cat[j].title
      BY CatFacts
    <3> QED  BY <2>3, <3>1, <3>2
  <2>5. Catalogue!Outcome(req[w], a, Cat', cur_films')
    BY <1>1, <1>2, <2>4 DEF Catalogue!Outcome, Cat
  <2> QED  BY <1>1, <2>1, <2>5, AppliesAnswer
<1>4. CASE ~ (i >= cur_films) /\ films[i] = NoFilm
  <2> DEFINE x == [th[w] EXCEPT !.id = i + 1]
  <2>1. Goto(w, x) /\ x.pc = "list"
    BY <1>1, <1>4 DEF ListNext, Using, Thread, Pc
  <2> HIDE DEF x
  <2> QED  BY <1>1, <1>2, <2>1, Walks
<1>5. CASE ~ (i >= cur_films) /\ films[i] # NoFilm
  <2> DEFINE x == [th[w] EXCEPT !.pc = "view", !.f = films[i]]
  <2>1. Goto(w, x) /\ x.pc = "view"
    BY <1>1, <1>5 DEF ListNext, Using, Thread
  <2> HIDE DEF x
  <2> QED  BY <1>1, <1>2, <2>1, Walks
<1> QED  BY <1>3, <1>4, <1>5

LEMMA ListViewMaps ==
    ASSUME Inv, NEW w \in Worker, ListView(w)
    PROVE  UNCHANGED Catalogue!catVars
<1> DEFINE x == [th[w] EXCEPT !.pc = "list", !.id = th[w].id + 1,
                              !.items = @ \cup {<<th[w].id, th[w].f.title>>}]
<1>1. Pc(w) = "view" /\ Under(th[w].id, th[w].f) /\ th[w] \in Thread
  BY DEF Inv, LocalOK, TypeOK, ListView, At, Pc
<1>2. Held(th[w].f)
  <2>1. \A v \in Worker : Pc(v) # "putstore"
    <3> SUFFICES ASSUME NEW v \in Worker, Pc(v) = "putstore" PROVE FALSE
      OBVIOUS
    <3>1. v # w
      BY <1>1
    <3> QED  BY <1>1, <3>1, Others
  <2> QED  BY <1>1, <2>1, StoredIsHeld DEF Under, Stored
<1>3. Goto(w, x) /\ x.pc = "list"
  BY <1>1, <1>2 DEF ListView, Using, Thread
<1>4. cur_films' = cur_films /\ Cat' = Cat
  BY DEF ListView, shared, Cat
<1> HIDE DEF x
<1> QED  BY <1>1, <1>3, <1>4, Walks

LEMMA AddCheckMaps ==
    ASSUME Inv, Answers, NEW w \in Worker, AddCheck(w)
    PROVE  Catalogue!CatNext \/ UNCHANGED Catalogue!catVars
<1> DEFINE new == parse_film(w)
           x == [th[w] EXCEPT !.pc = "map", !.new = new]
           t == req[w].film.title
           a == [code |-> 404]
<1>1. /\ MethodOK(w) /\ th[w] \in Thread /\ CountOK /\ IndexOK /\ TypeOK
      /\ Pc(w) = "contains" /\ req[w].method = "post" /\ Live
  <2>1. MethodOK(w) /\ TypeOK /\ Pc(w) = "contains"
    BY DEF Inv, AddCheck, At, Pc
  <2> QED  BY <2>1, Present DEF MethodOK, TypeOK, Inv
<1>2. req[w].film \in FilmData \cup {NoFilm}
  <2>1. req[w] \in Request
    BY <1>1 DEF MethodOK, TypeOK
  <2> QED  BY <1>1, <2>1, RequestShapes
<1>3. /\ cur_films' = cur_films /\ Cat' = Cat
      /\ IF req[w].film = NoFilm \/ IdOf(t) # NoValue THEN Answer(w, a) ELSE Goto(w, x)
  BY <1>1 DEF AddCheck, Using, IdOf, Cat
<1>4. CASE req[w].film = NoFilm \/ IdOf(t) # NoValue
  <2>1. ~ Catalogue!New(req[w])
    <3>1. CASE req[w].film = NoFilm
      BY <3>1 DEF Catalogue!New
    <3>2. CASE req[w].film # NoFilm /\ IdOf(t) # NoValue
      <4>1. t \in Key
        BY <1>2, <3>2, FilmShapes
      <4>2. PICK i \in DOMAIN films : Titled(i, t)
        BY <1>1, <3>2, <4>1 DEF IndexOK
      <4>3. \A v \in Worker : Pc(v) \notin {"store", "unmap", "load", "count"}
        BY <1>1, Others
      <4>4. i < cur_films /\ Stored(i) /\ films[i].title = t
        BY <1>1, <4>2, <4>3 DEF Titled, CountOK
      <4>5. t \in Catalogue!Titles
        BY <4>4, TitlesAre
      <4> QED  BY <4>5 DEF Catalogue!New
    <3> QED  BY <1>4, <3>1, <3>2
  <2>2. Catalogue!Outcome(req[w], a, Cat', cur_films')
    BY <1>1, <1>3, <2>1 DEF Catalogue!Outcome, Cat
  <2> QED  BY <1>1, <1>3, <1>4, <2>2, AppliesAnswer
<1>5. CASE ~ (req[w].film = NoFilm \/ IdOf(t) # NoValue)
  <2>1. Goto(w, x) /\ x.pc = "map"
    BY <1>1, <1>3, <1>5 DEF Thread
  <2> HIDE DEF x
  <2> QED  BY <1>1, <1>3, <2>1, Walks
<1> QED  BY <1>4, <1>5

LEMMA AddWalksMap ==
    ASSUME Inv, NEW w \in Worker, AddMap(w) \/ AddStore(w) \/ AddLoad(w)
    PROVE  UNCHANGED Catalogue!catVars
<1>1. LocalOK(w) /\ th[w] \in Thread /\ Pc(w) \in {"map", "store", "load"}
  BY DEF Inv, TypeOK, AddMap, AddStore, AddLoad, At, Pc
<1>2. Live /\ cur_films < MAX_FILMS
  BY <1>1, Present DEF LocalOK
<1>3. cur_films' = cur_films
  BY DEF AddMap, AddStore, AddLoad, shared
<1>4. Cat' = Cat
  <2>1. CASE films' = films
    BY <1>3, <2>1 DEF Cat
  <2>2. CASE films' = [films EXCEPT ![cur_films] = th[w].new]
    <3>1. \A i \in 0 .. MAX_FILMS - 1 : i < cur_films => films'[i] = films[i]
      BY <2>2, CatFacts
    <3> QED  BY <1>3, <3>1 DEF Cat
  <2> QED  BY <1>2, <2>1, <2>2 DEF AddMap, AddStore, AddLoad, Using, shared
<1>5. \E x : Goto(w, x) /\ x.pc \in {"store", "load", "count"}
  <2>1. CASE AddMap(w)
    <3>1. Goto(w, [th[w] EXCEPT !.pc = "store"])
      BY <1>2, <2>1 DEF AddMap, Using
    <3> QED  BY <1>1, <3>1 DEF Thread
  <2>2. CASE AddStore(w)
    <3>1. Goto(w, [th[w] EXCEPT !.pc = "load"])
      BY <1>2, <2>2 DEF AddStore, Using
    <3> QED  BY <1>1, <3>1 DEF Thread
  <2>3. CASE AddLoad(w)
    <3> DEFINE x == [th[w] EXCEPT !.pc = "count", !.id = cur_films]
    <3>1. Goto(w, x) /\ x.pc = "count"
      BY <1>1, <1>2, <2>3 DEF AddLoad, Using, Thread
    <3> HIDE DEF x
    <3> QED  BY <3>1
  <2> QED  BY <2>1, <2>2, <2>3
<1>6. PICK x : Goto(w, x) /\ x.pc \in {"store", "load", "count"}
  BY <1>5
<1> QED  BY <1>1, <1>3, <1>4, <1>6, Walks

LEMMA AddCountMaps ==
    ASSUME Inv, Answers, NEW w \in Worker, AddCount(w)
    PROVE  Catalogue!CatNext
<1> DEFINE x == [th[w] EXCEPT !.pc = "location"]
           n == th[w].id
           a == [code |-> 201, id |-> cur_films]
           t == req[w].film.title
<1>1. /\ MethodOK(w) /\ LocalOK(w) /\ th[w] \in Thread /\ th \in [Worker -> Thread]
      /\ IndexOK /\ TypeOK /\ Pc(w) = "count" /\ req[w].method = "post" /\ Live
  <2>1. MethodOK(w) /\ TypeOK /\ Pc(w) = "count"
    BY DEF Inv, AddCount, At, Pc
  <2> QED  BY <2>1, Present DEF MethodOK, TypeOK, Inv
<1>2. /\ n = cur_films /\ films[cur_films] = th[w].new /\ cur_films < MAX_FILMS
      /\ th[w].new # NoFilm /\ Data(th[w].new) = req[w].film
  BY <1>1 DEF LocalOK
<1>3. /\ th' = [th EXCEPT ![w] = x] /\ req' = req /\ films' = films /\ answer' = answer
      /\ cur_films' = n + 1
  BY <1>1 DEF AddCount, Using, Goto
<1>4. /\ DOMAIN films = 0 .. MAX_FILMS - 1 /\ cur_films \in DOMAIN films
      /\ MAX_FILMS \in Nat /\ cur_films \in Nat
  BY <1>2, CatFacts
<1>5. th[w].new \in Film /\ req[w].film # NoFilm /\ t = th[w].new.title /\ t \in Key
  <2>1. th[w].new \in Film
    BY <1>1, <1>2, Shapes
  <2>2. Data(th[w].new).title = th[w].new.title /\ th[w].new.title \in Key
        /\ Data(th[w].new) # NoFilm
    BY <2>1, FilmShapes
  <2> QED  BY <1>2, <2>1, <2>2
<1>6. Catalogue!New(req[w])
  <2> SUFFICES ASSUME t \in Catalogue!Titles PROVE FALSE
    BY <1>1, <1>5 DEF Catalogue!New
  <2>1. PICK i \in DOMAIN films : i < cur_films /\ Stored(i) /\ films[i].title = t
    BY TitlesAre
  <2>2. Titled(i, t) /\ Titled(cur_films, t)
    BY <1>2, <1>5, <2>1 DEF Titled, Stored
  <2>3. IdOf(t) = i /\ IdOf(t) = cur_films
    BY <1>1, <1>4, <1>5, <2>2 DEF IndexOK
  <2> QED  BY <1>4, <2>1, <2>3
<1>7. Cat' = [Cat EXCEPT ![cur_films] = req[w].film]
  <2>1. Cat' = [i \in 0 .. MAX_FILMS - 1 |->
                   IF i < cur_films + 1 THEN Data(films[i]) ELSE NoFilm]
    BY <1>2, <1>3 DEF Cat
  <2>2. \A i \in 0 .. MAX_FILMS - 1 : i < cur_films + 1 <=> i < cur_films \/ i = cur_films
    BY <1>4
  <2>3. Data(films[cur_films]) = req[w].film
    BY <1>2
  <2> HIDE DEF n
  <2>4. [Cat EXCEPT ![cur_films] = req[w].film] =
          [i \in 0 .. MAX_FILMS - 1 |-> IF i = cur_films THEN req[w].film ELSE
                                        IF i < cur_films THEN Data(films[i]) ELSE NoFilm]
    BY <1>4 DEF Cat
  <2> QED  BY <2>1, <2>2, <2>3, <2>4
<1>8. x.pc = "location" /\ x.id = cur_films /\ th'[w] = x
  BY <1>1, <1>2, <1>3 DEF Thread
<1> HIDE DEF x
<1>9. Applied(w)' = a
  BY <1>8 DEF Applied
<1>10. Catalogue!Outcome(req[w], a, Cat', cur_films')
  BY <1>1, <1>2, <1>3, <1>6, <1>7 DEF Catalogue!Outcome, Cat
<1> HIDE DEF a
<1>11. Pc(w) \notin {"idle", "reply", "location", "create", "unmap"}
  BY <1>1
<1> QED  BY <1>3, <1>9, <1>10, <1>11, Applies

LEMMA AddLocationMaps ==
    ASSUME Inv, Answers, NEW w \in Worker, AddLocation(w)
    PROVE  UNCHANGED Catalogue!catVars
<1> DEFINE x == [Resting EXCEPT !.pc = "reply"]
           t == th[w].new.title
           a == [code |-> 201, id |-> IdOf(t)]
<1>1. Pc(w) = "location" /\ Under(th[w].id, th[w].new) /\ TypeOK /\ IndexOK
  BY DEF Inv, AddLocation, At, Pc, LocalOK
<1>2. Held(th[w].new) /\ Live
  <2>1. \A v \in Worker : Pc(v) # "putstore"
    BY <1>1, Others
  <2> QED  BY <1>1, <2>1, Present, StoredIsHeld DEF Under, Stored
<1>3. IdOf(t) = th[w].id
  <2>1. t \in Key
    BY <1>1, Shapes, FilmShapes DEF Under
  <2>2. Titled(th[w].id, t) /\ th[w].id \in DOMAIN films
    BY <1>1 DEF Under, Titled, Stored
  <2> QED  BY <1>1, <2>1, <2>2 DEF IndexOK
<1>4. /\ films' = films /\ cur_films' = cur_films /\ req' = req
      /\ th' = [th EXCEPT ![w] = x] /\ answer' = [answer EXCEPT ![w] = a]
  BY <1>2 DEF AddLocation, Using, shared, IdOf, Answer
<1>5. x.pc = "reply" /\ th \in [Worker -> Thread]
  BY <1>1, RestingFacts DEF TypeOK
<1> HIDE DEF x
<1>6. /\ th'[w] = x /\ answer'[w] = a
      /\ \A v \in Worker : v # w => th'[v] = th[v] /\ answer'[v] = answer[v]
  BY <1>4, <1>5 DEF Answers
<1>7. \A v \in Worker : Applied(v)' = Applied(v)
  BY <1>1, <1>3, <1>5, <1>6 DEF Applied, Pc
<1>8. Cat' = Cat
  BY <1>4 DEF Cat
<1> QED  BY <1>4, <1>7, <1>8, Unseen

LEMMA DestroyMaps ==
    ASSUME Inv, Answers, NEW w \in Worker, Destroy(w)
    PROVE  Catalogue!CatNext
<1> DEFINE x == [th[w] EXCEPT !.pc = "create"]
           stored == {films[i] : i \in {j \in DOMAIN films : j < cur_films}} \ {NoFilm}
           a == [code |-> 200]
<1>1. /\ MethodOK(w) /\ th[w] \in Thread /\ th \in [Worker -> Thread]
      /\ Pc(w) = "destroy" /\ req[w].method = "reset" /\ Live
  <2>1. MethodOK(w) /\ Pc(w) = "destroy"
    BY DEF Inv, Destroy, At, Pc
  <2> QED  BY <2>1, Present DEF MethodOK, TypeOK, Inv
<1>2. \A film \in stored : Held(film)
  <2>1. \A v \in Worker : Pc(v) # "putstore"
    BY <1>1, Others
  <2> QED  BY <2>1, StoredIsHeld DEF Stored
<1>3. /\ th' = [th EXCEPT ![w] = x] /\ req' = req /\ answer' = answer /\ cur_films' = 0
      /\ films' = [i \in 0 .. MAX_FILMS - 1 |-> NoFilm]
  BY <1>1, <1>2 DEF Destroy, Using, Goto
<1>4. Cat' = [i \in 0 .. MAX_FILMS - 1 |-> NoFilm]
  BY <1>3, FilmShapes DEF Cat
<1>5. x.pc = "create" /\ th'[w] = x
  BY <1>1, <1>3 DEF Thread
<1> HIDE DEF x, stored
<1>6. Applied(w)' = a
  BY <1>5 DEF Applied
<1>7. Catalogue!Outcome(req[w], a, Cat', cur_films')
  BY <1>1, <1>3, <1>4 DEF Catalogue!Outcome, Catalogue!NoFilms
<1> HIDE DEF a
<1>8. Pc(w) \notin {"idle", "reply", "location", "create", "unmap"}
  BY <1>1
<1> QED  BY <1>3, <1>6, <1>7, <1>8, Applies

\* A thread whose request was applied gets to its answer.
LEMMA GivesAnswer ==
    ASSUME Inv, Answers, NEW w \in Worker, Answer(w, [code |-> 200]),
           Pc(w) \in {"create", "unmap"}, films' = films, cur_films' = cur_films
    PROVE  UNCHANGED Catalogue!catVars
<1> DEFINE x == [Resting EXCEPT !.pc = "reply"]
           a == [code |-> 200]
<1>1. /\ req' = req /\ th' = [th EXCEPT ![w] = x] /\ answer' = [answer EXCEPT ![w] = a]
      /\ x.pc = "reply" /\ th \in [Worker -> Thread]
  BY RestingFacts DEF Answer, Inv, TypeOK
<1> HIDE DEF x
<1>2. /\ th'[w] = x /\ answer'[w] = a
      /\ \A v \in Worker : v # w => th'[v] = th[v] /\ answer'[v] = answer[v]
  BY <1>1 DEF Answers
<1>3. \A v \in Worker : Applied(v)' = Applied(v)
  BY <1>1, <1>2 DEF Applied, Pc
<1>4. Cat' = Cat
  BY DEF Cat
<1> QED  BY <1>1, <1>3, <1>4, Unseen

LEMMA LookupMaps ==
    ASSUME Inv, Answers, NEW w \in Worker, Lookup(w)
    PROVE  Catalogue!CatNext \/ UNCHANGED Catalogue!catVars
<1> DEFINE i == req[w].id
           film == db_get(i)
           x == [th[w] EXCEPT !.pc = req[w].method, !.f = film]
           a == [code |-> 404]
<1>1. /\ Pc(w) = "lookup" /\ req[w].method \in {"get", "put", "delete"} /\ th[w] \in Thread
      /\ i \in Nat
  <2>1. Pc(w) = "lookup" /\ MethodOK(w) /\ TypeOK
    BY DEF Inv, Lookup, At, Pc
  <2>2. req[w] \in Request
    BY <2>1 DEF MethodOK, TypeOK
  <2> QED  BY <2>1, <2>2, RequestShapes DEF MethodOK, TypeOK
<1>2. Live /\ InArray(i)
  BY <1>1, Present
<1>3. /\ films' = films /\ cur_films' = cur_films
      /\ IF film = NoFilm THEN Answer(w, a) ELSE Goto(w, x)
  BY <1>2 DEF Lookup, Using, shared
<1>4. Cat' = Cat
  BY <1>3 DEF Cat
<1>5. CASE film = NoFilm
  <2>1. Catalogue!FilmAt(i) = NoFilm
    BY <1>1, <1>5, FilmAtIs, FilmShapes
  <2>2. Catalogue!Outcome(req[w], a, Cat', cur_films')
    BY <1>1, <1>3, <1>4, <2>1 DEF Catalogue!Outcome, Cat
  <2> HIDE DEF a
  <2> QED  BY <1>1, <1>3, <1>5, <2>2, AppliesAnswer
<1>6. CASE film # NoFilm
  <2>1. Goto(w, x) /\ x.pc \in {"get", "put", "delete"}
    BY <1>1, <1>3, <1>6 DEF Thread
  <2> HIDE DEF x
  <2> QED  BY <1>1, <1>3, <1>4, <2>1, Walks
<1> QED  BY <1>5, <1>6

\* The film that a thread looked up is the one under the number of its request.
LEMMA FoundIs ==
    ASSUME Inv, NEW w \in Worker, Under(req[w].id, th[w].f), req[w].id \in Nat
    PROVE  /\ Catalogue!FilmAt(req[w].id) = Data(th[w].f)
           /\ Catalogue!FilmAt(req[w].id) # NoFilm
<1>1. th[w].f \in Film /\ db_get(req[w].id) = th[w].f
  BY Shapes DEF Under, db_get, Inv
<1> QED  BY <1>1, FilmAtIs, FilmShapes

LEMMA GetMaps ==
    ASSUME Inv, Answers, NEW w \in Worker, Get(w)
    PROVE  Catalogue!CatNext
<1> DEFINE a == [code |-> 200, film |-> Data(th[w].f)]
<1>1. /\ Pc(w) = "get" /\ Under(req[w].id, th[w].f) /\ req[w].method = "get"
      /\ req[w].id \in Nat
  <2>1. Pc(w) = "get" /\ LocalOK(w) /\ MethodOK(w) /\ TypeOK
    BY DEF Inv, Get, At, Pc
  <2>2. req[w] \in Request
    BY <2>1 DEF MethodOK, TypeOK
  <2> QED  BY <2>1, <2>2, RequestShapes DEF MethodOK, LocalOK
<1>2. Held(th[w].f)
  <2>1. \A v \in Worker : Pc(v) # "putstore"
    <3> SUFFICES ASSUME NEW v \in Worker, Pc(v) = "putstore" PROVE FALSE
      OBVIOUS
    <3>1. v # w
      BY <1>1
    <3> QED  BY <1>1, <3>1, Others
  <2> QED  BY <1>1, <2>1, StoredIsHeld DEF Under, Stored
<1>3. films' = films /\ cur_films' = cur_films /\ Answer(w, a)
  BY <1>2 DEF Get, Using, shared
<1>4. Cat' = Cat
  BY <1>3 DEF Cat
<1>5. Catalogue!Outcome(req[w], a, Cat', cur_films')
  <2>1. Catalogue!FilmAt(req[w].id) = Data(th[w].f) /\ Catalogue!FilmAt(req[w].id) # NoFilm
    BY <1>1, FoundIs
  <2> QED  BY <1>1, <1>3, <1>4, <2>1 DEF Catalogue!Outcome, Cat
<1> HIDE DEF a
<1> QED  BY <1>1, <1>3, <1>5, AppliesAnswer

LEMMA PutNothingMaps ==
    ASSUME Inv, Answers, NEW w \in Worker, PutNothing(w)
    PROVE  Catalogue!CatNext
<1> DEFINE a == [code |-> 404]
<1>1. /\ Pc(w) = "put" /\ req[w].method = "put" /\ req[w].film = NoData
      /\ films' = films /\ cur_films' = cur_films /\ Answer(w, a)
  BY DEF Inv, PutNothing, At, Pc, MethodOK, shared
<1>2. Cat' = Cat
  BY <1>1 DEF Cat
<1>3. Catalogue!Outcome(req[w], a, Cat', cur_films')
  BY <1>1, <1>2 DEF Catalogue!Outcome, Cat
<1> HIDE DEF a
<1> QED  BY <1>1, <1>3, AppliesAnswer

\* The steps of a PUT up to the last: the new film is on its way.
LEMMA PutWalksMap ==
    ASSUME Inv, NEW w \in Worker, NEW x, Goto(w, x), films' = films, cur_films' = cur_films,
           Pc(w) \in {"put", "putmap", "putfree"}, x.pc \in {"putmap", "putfree", "putstore"}
    PROVE  UNCHANGED Catalogue!catVars
<1>1. Cat' = Cat
  BY DEF Cat
<1> QED  BY <1>1, Walks

LEMMA PutMaps ==
    ASSUME Inv, ~ undefined', NEW w \in Worker, Put(w) \/ PutMap(w) \/ PutFree(w)
    PROVE  UNCHANGED Catalogue!catVars
<1>1. th[w] \in Thread /\ Pc(w) \in {"put", "putmap", "putfree"}
  BY DEF Inv, TypeOK, Put, PutMap, PutFree, At, Pc
<1>2. films' = films /\ cur_films' = cur_films
  BY DEF Put, PutMap, PutFree
<1>3. CASE Put(w)
  <2> DEFINE i == ht_get_value(id_map, th[w].f.title)
             new == parse_film(w)
             x == [th[w] EXCEPT !.pc = "putmap", !.id = i, !.prev = films[i], !.new = new]
  <2>1. Goto(w, x)
    BY <1>3 DEF Put, Using
  <2> HIDE DEF i, new
  <2>2. x.pc = "putmap"
    BY <1>1 DEF Thread
  <2> HIDE DEF x
  <2> QED  BY <1>1, <1>2, <2>1, <2>2, PutWalksMap
<1>4. CASE PutMap(w)
  <2> DEFINE x == [th[w] EXCEPT !.pc = "putfree"]
  <2>1. Goto(w, x) /\ x.pc = "putfree"
    BY <1>1, <1>4 DEF PutMap, Using, Thread
  <2> HIDE DEF x
  <2> QED  BY <1>1, <1>2, <2>1, PutWalksMap
<1>5. CASE PutFree(w)
  <2> DEFINE x == [th[w] EXCEPT !.pc = "putstore"]
  <2>1. Goto(w, x) /\ x.pc = "putstore"
    BY <1>1, <1>5 DEF PutFree, Using, Thread
  <2> HIDE DEF x
  <2> QED  BY <1>1, <1>2, <2>1, PutWalksMap
<1> QED  BY <1>3, <1>4, <1>5

LEMMA PutStoreMaps ==
    ASSUME Inv, Answers, ~ undefined', NEW w \in Worker, PutStore(w)
    PROVE  Catalogue!CatNext
<1> DEFINE i == req[w].id
           new == th[w].new
           a == [code |-> 200]
<1>1. /\ Pc(w) = "putstore" /\ req[w].method = "put" /\ i \in Nat
      /\ Under(i, th[w].f) /\ th[w].id = i /\ Data(new) = req[w].film
      /\ req[w].film # NoData
  <2>1. Pc(w) = "putstore" /\ LocalOK(w) /\ MethodOK(w) /\ TypeOK
    BY DEF Inv, PutStore, At, Pc
  <2>2. req[w] \in Request
    BY <2>1 DEF MethodOK, TypeOK
  <2> QED  BY <2>1, <2>2, RequestShapes DEF MethodOK, LocalOK
<1>2. films' = [films EXCEPT ![i] = new] /\ cur_films' = cur_films /\ Answer(w, a)
  BY <1>1 DEF PutStore, Using
<1>3. /\ DOMAIN films = 0 .. MAX_FILMS - 1 /\ i \in DOMAIN films /\ i < cur_films
  BY <1>1, CatFacts DEF Under
<1>4. Cat' = [Cat EXCEPT ![i] = req[w].film]
  <2> HIDE DEF i, new
  <2>1. \A j \in 0 .. MAX_FILMS - 1 : films'[j] = IF j = i THEN new ELSE films[j]
    BY <1>2, <1>3
  <2>2. Cat' = [j \in 0 .. MAX_FILMS - 1 |->
                   IF j < cur_films THEN Data(IF j = i THEN new ELSE films[j]) ELSE NoFilm]
    BY <1>2, <2>1 DEF Cat
  <2>3. Data(new) = req[w].film
    BY <1>1 DEF new
  <2> QED  BY <1>3, <2>2, <2>3 DEF Cat
<1>5. Catalogue!Outcome(req[w], a, Cat', cur_films')
  <2>1. Catalogue!FilmAt(i) # NoFilm
    BY <1>1, FoundIs
  <2> QED  BY <1>1, <1>2, <1>4, <2>1 DEF Catalogue!Outcome, Cat
<1> HIDE DEF a
<1> QED  BY <1>1, <1>2, <1>5, AppliesAnswer

LEMMA DeleteMaps ==
    ASSUME Inv, Answers, ~ undefined', NEW w \in Worker, Delete(w)
    PROVE  Catalogue!CatNext
<1> DEFINE i == req[w].id
           film == films[i]
           x == [th[w] EXCEPT !.pc = "unmap", !.f = film]
           a == [code |-> 200]
<1>1. /\ Pc(w) = "delete" /\ req[w].method = "delete" /\ i \in Nat
      /\ Under(i, th[w].f) /\ th[w] \in Thread /\ th \in [Worker -> Thread]
  <2>1. Pc(w) = "delete" /\ LocalOK(w) /\ MethodOK(w) /\ TypeOK
    BY DEF Inv, Delete, At, Pc
  <2>2. req[w] \in Request
    BY <2>1 DEF MethodOK, TypeOK
  <2> QED  BY <2>1, <2>2, RequestShapes DEF MethodOK, LocalOK, TypeOK
<1>2. DOMAIN films = 0 .. MAX_FILMS - 1 /\ i \in DOMAIN films /\ i < cur_films
  BY <1>1, CatFacts DEF Under
<1>3. film # NoFilm /\ db_get(i) = film
  BY <1>1 DEF Under, db_get
<1>4. /\ films' = [films EXCEPT ![i] = NoFilm] /\ cur_films' = cur_films
      /\ th' = [th EXCEPT ![w] = x] /\ req' = req /\ answer' = answer
  BY <1>1, <1>3 DEF Delete, Using, Goto
<1>5. Cat' = [Cat EXCEPT ![i] = NoFilm]
  <2> HIDE DEF i
  <2>1. \A j \in 0 .. MAX_FILMS - 1 : films'[j] = IF j = i THEN NoFilm ELSE films[j]
    BY <1>2, <1>4
  <2>2. Cat' = [j \in 0 .. MAX_FILMS - 1 |->
                   IF j < cur_films THEN Data(IF j = i THEN NoFilm ELSE films[j]) ELSE NoFilm]
    BY <1>4, <2>1 DEF Cat
  <2> QED  BY <1>2, <2>2, FilmShapes DEF Cat
<1>6. x.pc = "unmap" /\ th'[w] = x
  BY <1>1, <1>4 DEF Thread
<1> HIDE DEF x
<1>7. Applied(w)' = a
  BY <1>6 DEF Applied
<1>8. Catalogue!Outcome(req[w], a, Cat', cur_films')
  <2>1. Catalogue!FilmAt(i) # NoFilm
    BY <1>1, FoundIs
  <2> QED  BY <1>1, <1>4, <1>5, <2>1 DEF Catalogue!Outcome, Cat
<1> HIDE DEF a
<1>9. Pc(w) \notin {"idle", "reply", "location", "create", "unmap"}
  BY <1>1
<1> QED  BY <1>4, <1>7, <1>8, <1>9, Applies

\* Both end after the request was applied.
LEMMA EndMaps ==
    ASSUME Inv, Answers, ~ undefined', NEW w \in Worker, Create(w) \/ DeleteUnmap(w)
    PROVE  UNCHANGED Catalogue!catVars
<1>1. Pc(w) \in {"create", "unmap"} /\ films' = films /\ cur_films' = cur_films
  BY DEF Create, DeleteUnmap, At, Pc
<1>2. Answer(w, [code |-> 200])
  BY DEF Create, DeleteUnmap, Using
<1> QED  BY <1>1, <1>2, GivesAnswer

\* An answer is no NoAnswer.
LEMMA AnswerShapes ==
    ASSUME NEW n \in Nat
    PROVE  /\ [code |-> n] # NoAnswer
           /\ \A i \in Nat : [code |-> n, id |-> i] # NoAnswer
           /\ \A d \in FilmData : [code |-> n, film |-> d] # NoAnswer
           /\ \A s \in SUBSET (Number \X Key) : [code |-> n, items |-> s] # NoAnswer
<1>1. Number \subseteq Nat
  BY FilmDatabaseAssumption DEF Number
<1> DEFINE S == SUBSET (Nat \X Key)
<1>2. SUBSET (Number \X Key) \subseteq S
  BY <1>1
<1>3. NoAnswer \notin [code : Nat, items : S]
  BY DistinctAssumption
<1> HIDE DEF S
<1>4. \A s \in S : [code |-> n, items |-> s] # NoAnswer
  BY <1>3
<1> QED  BY <1>2, <1>4, DistinctAssumption

\* A step of a thread gives an answer or goes on.
LEMMA GivesOrGoesOn ==
    ASSUME Inv, ~ undefined', NEW w \in Worker, Step(w), ~ Reply(w)
    PROVE  \/ \E a : Answer(w, a) /\ a # NoAnswer
           \/ \E x : Goto(w, x) /\ x.pc # "reply"
<1>1. /\ th[w] \in Thread /\ TypeOK /\ MethodOK(w) /\ LocalOK(w)
  BY DEF Inv, TypeOK
<1>2. CASE ListNext(w)
  <2> DEFINE i == th[w].id
             a == [code |-> 200, items |-> th[w].items]
             x == [th[w] EXCEPT !.id = i + 1]
             y == [th[w] EXCEPT !.pc = "view", !.f = films[i]]
  <2>1. (Answer(w, a) \/ Goto(w, x) \/ Goto(w, y)) /\ Pc(w) = "list"
    BY <1>2 DEF ListNext, Using, At, Pc
  <2>2. a # NoAnswer /\ x.pc = th[w].pc /\ y.pc = "view"
    <3>1. th[w].items \in SUBSET (Number \X Key)
      BY <1>1, Shapes
    <3> QED  BY <1>1, <3>1, AnswerShapes DEF Thread
  <2> HIDE DEF a, x, y
  <2> QED  BY <2>1, <2>2 DEF Pc
<1>3. CASE ListView(w)
  <2> DEFINE x == [th[w] EXCEPT !.pc = "list", !.id = th[w].id + 1,
                                !.items = @ \cup {<<th[w].id, th[w].f.title>>}]
  <2>1. Goto(w, x) /\ x.pc = "list"
    BY <1>1, <1>3 DEF ListView, Using, Thread
  <2> HIDE DEF x
  <2> QED  BY <2>1
<1>4. CASE AddCheck(w)
  <2> DEFINE new == parse_film(w)
             x == [th[w] EXCEPT !.pc = "map", !.new = new]
             a == [code |-> 404]
  <2>1. Answer(w, a) \/ Goto(w, x)
    BY <1>4 DEF AddCheck, Using
  <2> HIDE DEF new
  <2>2. a # NoAnswer /\ x.pc = "map"
    BY <1>1, AnswerShapes DEF Thread
  <2> HIDE DEF a, x
  <2> QED  BY <2>1, <2>2
<1>5. CASE AddMap(w) \/ AddStore(w) \/ AddCount(w) \/ PutMap(w) \/ PutFree(w)
  <2>1. PICK l \in {"store", "load", "location", "putfree", "putstore"} :
             Goto(w, [th[w] EXCEPT !.pc = l])
    BY <1>5 DEF AddMap, AddStore, AddCount, PutMap, PutFree, Using
  <2> DEFINE x == [th[w] EXCEPT !.pc = l]
  <2>2. Goto(w, x) /\ x.pc = l
    BY <1>1, <2>1 DEF Thread
  <2> HIDE DEF x
  <2> QED  BY <2>2
<1>6. CASE AddLoad(w)
  <2> DEFINE x == [th[w] EXCEPT !.pc = "count", !.id = cur_films]
  <2>1. Goto(w, x) /\ x.pc = "count"
    BY <1>1, <1>6 DEF AddLoad, Using, Thread
  <2> HIDE DEF x
  <2> QED  BY <2>1
<1>7. CASE AddLocation(w)
  <2> DEFINE t == th[w].new.title
             a == [code |-> 201, id |-> IdOf(t)]
  <2>1. Answer(w, a) /\ Under(th[w].id, th[w].new) /\ IndexOK
    BY <1>1, <1>7 DEF AddLocation, Using, IdOf, LocalOK, At, Pc, Inv
  <2>2. IdOf(t) = th[w].id
    <3>1. t \in Key
      BY <1>1, <2>1, Shapes, FilmShapes DEF Under
    <3>2. Titled(th[w].id, t) /\ th[w].id \in DOMAIN films
      BY <2>1 DEF Under, Titled, Stored
    <3> QED  BY <2>1, <3>1, <3>2 DEF IndexOK
  <2>3. a # NoAnswer
    <3>1. th[w].id \in Nat
      BY <1>1, Shapes
    <3> QED  BY <2>2, <3>1, AnswerShapes
  <2> HIDE DEF a
  <2> QED  BY <2>1, <2>3
<1>8. CASE Destroy(w)
  <2> DEFINE x == [th[w] EXCEPT !.pc = "create"]
  <2>1. Goto(w, x) /\ x.pc = "create"
    BY <1>1, <1>8 DEF Destroy, Using, Thread
  <2> HIDE DEF x
  <2> QED  BY <2>1
<1>9. CASE Create(w) \/ PutStore(w) \/ DeleteUnmap(w)
  <2> DEFINE a == [code |-> 200]
  <2>1. Answer(w, a) /\ a # NoAnswer
    BY <1>9, AnswerShapes DEF Create, PutStore, DeleteUnmap, Using
  <2> HIDE DEF a
  <2> QED  BY <2>1
<1>10. CASE Lookup(w)
  <2> DEFINE m == req[w].method
             film == db_get(req[w].id)
             x == [th[w] EXCEPT !.pc = m, !.f = film]
             a == [code |-> 404]
  <2>1. (Answer(w, a) \/ Goto(w, x)) /\ m \in {"get", "put", "delete"}
    BY <1>1, <1>10 DEF Lookup, Using, MethodOK, At, Pc
  <2> HIDE DEF film
  <2>2. a # NoAnswer /\ x.pc = m
    BY <1>1, AnswerShapes DEF Thread
  <2> HIDE DEF a, x
  <2> QED  BY <2>1, <2>2
<1>11. CASE Get(w)
  <2> DEFINE a == [code |-> 200, film |-> Data(th[w].f)]
  <2>1. Answer(w, a) /\ th[w].f \in Film
    BY <1>1, <1>11, Shapes DEF Get, Using, LocalOK, Under, At, Pc
  <2>2. a # NoAnswer
    <3>1. Data(th[w].f) \in FilmData
      BY <2>1, FilmShapes
    <3> QED  BY <3>1, AnswerShapes
  <2> HIDE DEF a
  <2> QED  BY <2>1, <2>2
<1>12. CASE PutNothing(w)
  <2> DEFINE a == [code |-> 404]
  <2>1. Answer(w, a) /\ a # NoAnswer
    BY <1>12, AnswerShapes DEF PutNothing
  <2> HIDE DEF a
  <2> QED  BY <2>1
<1>13. CASE Put(w)
  <2> DEFINE i == ht_get_value(id_map, th[w].f.title)
             new == parse_film(w)
             x == [th[w] EXCEPT !.pc = "putmap", !.id = i, !.prev = films[i], !.new = new]
  <2>1. Goto(w, x)
    BY <1>13 DEF Put, Using
  <2> HIDE DEF i, new
  <2>2. x.pc = "putmap"
    BY <1>1 DEF Thread
  <2> HIDE DEF x
  <2> QED  BY <2>1, <2>2
<1>14. CASE Delete(w)
  <2> DEFINE film == db_get(req[w].id)
             x == [th[w] EXCEPT !.pc = "unmap", !.f = film]
             a == [code |-> 200]
  <2>1. Answer(w, a) \/ Goto(w, x)
    BY <1>14 DEF Delete, Using
  <2> HIDE DEF film
  <2>2. a # NoAnswer /\ x.pc = "unmap"
    BY <1>1, AnswerShapes DEF Thread
  <2> HIDE DEF a, x
  <2> QED  BY <2>1, <2>2
<1> QED  BY <1>2, <1>3, <1>4, <1>5, <1>6, <1>7, <1>8, <1>9, <1>10, <1>11, <1>12, <1>13, <1>14 DEF Step

\* A thread has an answer from Answer to Reply.
LEMMA AnswersStep ==
    ASSUME Inv, Answers, ~ undefined', CarefulNext
    PROVE  Answers'
<1>1. th \in [Worker -> Thread] /\ \A w \in Worker : MethodOK(w) /\ th[w] \in Thread
  BY DEF Inv, TypeOK
<1>2. PICK w \in Worker : Step(w) \/ \E r \in Request : Careful(r) /\ Accept(w, r)
  BY DEF CarefulNext
<1>3. ASSUME NEW x, NEW a, th' = [th EXCEPT ![w] = x], answer' = [answer EXCEPT ![w] = a],
             a = NoAnswer <=> x.pc # "reply"
      PROVE  Answers'
  <2>1. /\ th'[w] = x /\ answer'[w] = a /\ answer' = [v \in Worker |-> answer'[v]]
        /\ \A v \in Worker : v # w => th'[v] = th[v] /\ answer'[v] = answer[v]
    BY <1>1, <1>3 DEF Answers
  <2> QED  BY <1>3, <2>1 DEF Answers, Pc
<1>4. ASSUME NEW x, Goto(w, x), x.pc # "reply", Pc(w) # "reply" PROVE Answers'
  <2>1. answer[w] = NoAnswer /\ answer' = [answer EXCEPT ![w] = answer[w]]
    BY <1>4 DEF Answers, Goto
  <2> QED  BY <1>3, <1>4, <2>1 DEF Goto
<1>5. ASSUME NEW a, Answer(w, a), a # NoAnswer PROVE Answers'
  <2> DEFINE x == [Resting EXCEPT !.pc = "reply"]
  <2>1. th' = [th EXCEPT ![w] = x] /\ answer' = [answer EXCEPT ![w] = a] /\ x.pc = "reply"
    BY <1>5, RestingFacts DEF Answer
  <2> HIDE DEF x
  <2> QED  BY <1>3, <1>5, <2>1
<1>6. CASE \E r \in Request : Careful(r) /\ Accept(w, r)
  <2>1. PICK r \in Request : Accept(w, r)
    BY <1>6
  <2> DEFINE x == [th[w] EXCEPT !.pc = Entry(r.method)]
  <2>2. Entry(r.method) \in {"list", "contains", "destroy", "lookup"}
    BY DEF Entry
  <2>3. /\ th' = [th EXCEPT ![w] = x] /\ answer' = answer /\ Pc(w) = "idle"
        /\ x.pc = Entry(r.method)
    BY <1>1, <2>1 DEF Accept, At, Pc, Thread
  <2>4. answer[w] = NoAnswer /\ answer' = [answer EXCEPT ![w] = answer[w]]
    BY <2>3 DEF Answers
  <2> HIDE DEF x
  <2> QED  BY <1>3, <2>2, <2>3, <2>4
<1>7. CASE Reply(w)
  BY <1>3, <1>7 DEF Reply, Resting
<1>8. CASE Step(w) /\ ~ Reply(w)
  <2>1. Pc(w) # "reply"
    BY <1>8 DEF Step, ListNext, ListView, AddCheck, AddMap, AddStore, AddLoad, AddCount,
       AddLocation, Destroy, Create, Lookup, Get, PutNothing, Put, PutMap, PutFree,
       PutStore, Delete, DeleteUnmap, At, Pc
  <2>2. \/ \E a : Answer(w, a) /\ a # NoAnswer
        \/ \E x : Goto(w, x) /\ x.pc # "reply"
    BY <1>8, GivesOrGoesOn
  <2> QED  BY <1>4, <1>5, <2>1, <2>2
<1> QED  BY <1>2, <1>6, <1>7, <1>8

LEMMA StepMaps ==
    ASSUME Inv, Answers, ~ undefined', CarefulNext
    PROVE  Catalogue!CatNext \/ UNCHANGED Catalogue!catVars
<1>1. PICK w \in Worker : Step(w) \/ \E r \in Request : Careful(r) /\ Accept(w, r)
  BY DEF CarefulNext
<1>2. CASE \E r \in Request : Careful(r) /\ Accept(w, r)
  BY <1>2, AcceptMaps
<1>3. CASE Step(w)
  BY <1>3, ReplyMaps, ListNextMaps, ListViewMaps, AddCheckMaps, AddWalksMap, AddCountMaps,
     AddLocationMaps, DestroyMaps, LookupMaps, GetMaps, PutNothingMaps, PutMaps, PutStoreMaps,
     DeleteMaps, EndMaps DEF Step
<1> QED  BY <1>1, <1>2, <1>3

\* The database of careful clients implements the catalogue (block5.c, database.c): every
\* request is applied at one moment between its arrival and its answer, and the answer -
\* also a list that was collected while a film was added - is true of that moment.
THEOREM DatabaseIsCatalogue == CarefulSpec => IsCatalogue
<1>1. Init => Answers
  <2> SUFFICES ASSUME Init PROVE Answers
    OBVIOUS
  <2>1. answer = [w \in Worker |-> NoAnswer] /\ \A w \in Worker : Pc(w) = "idle"
    BY DEF Init, Pc, Resting
  <2> QED  BY <2>1 DEF Answers
<1>2. Inv /\ Inv' /\ Answers /\ [CarefulNext]_vars => Answers'
  <2> SUFFICES ASSUME Inv, Inv', Answers, [CarefulNext]_vars PROVE Answers'
    OBVIOUS
  <2>1. CASE CarefulNext
    BY <2>1, AnswersStep DEF Inv
  <2>2. CASE UNCHANGED vars
    BY <2>2 DEF Answers, vars, Pc
  <2> QED  BY <2>1, <2>2
<1>3. Inv /\ Inv' /\ Answers /\ [CarefulNext]_vars => [Catalogue!CatNext]_Catalogue!catVars
  <2> SUFFICES ASSUME Inv, Inv', Answers, [CarefulNext]_vars
               PROVE  Catalogue!CatNext \/ UNCHANGED Catalogue!catVars
    OBVIOUS
  <2>1. CASE CarefulNext
    BY <2>1, StepMaps DEF Inv
  <2>2. CASE UNCHANGED vars
    <3>1. \A v \in Worker : Applied(v)' = Applied(v)
      BY <2>2 DEF vars, Applied
    <3>2. Cat' = Cat /\ cur_films' = cur_films /\ req' = req
      BY <2>2 DEF vars, shared, Cat
    <3> QED  BY <3>1, <3>2, Unseen
  <2> QED  BY <2>1, <2>2
<1>4. Init => Catalogue!CatInit
  <2> SUFFICES ASSUME Init PROVE Catalogue!CatInit
    OBVIOUS
  <2>1. /\ films = [i \in 0 .. MAX_FILMS - 1 |-> NoFilm] /\ cur_films = 0
        /\ req = [w \in Worker |-> Idle] /\ answer = [w \in Worker |-> NoAnswer]
        /\ \A w \in Worker : th[w].pc = "idle"
    BY DEF Init, Resting
  <2>2. Cat = [i \in 0 .. MAX_FILMS - 1 |-> NoFilm]
    BY <2>1, FilmShapes DEF Cat
  <2>3. Ans = [w \in Worker |-> NoAnswer]
    BY <2>1 DEF Ans, Applied
  <2> QED  BY <2>1, <2>2, <2>3 DEF Catalogue!CatInit, Catalogue!NoFilms, Cat, Ans
<1>5. CarefulSpec => []Inv
  BY AlwaysInv
<1> QED
  BY <1>1, <1>2, <1>3, <1>4, <1>5, PTL DEF CarefulSpec, IsCatalogue, Catalogue!CatSpec
===============================================================================
