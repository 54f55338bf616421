------------------------- MODULE ProfileStore_proofs -------------------------
(***************************************************************************)
(* What the profile store promises for profiles, histories and selections  *)
(* of any size: undo and redo are those of EditHistory, moves keep the     *)
(* order, and no rule is in the profile twice.                             *)
(***************************************************************************)
EXTENDS ProfileStore, FiniteSetTheorems, FunctionTheorems, TLAPS

(* A set of numbers has a least one: what stands for induction below.        *)
Smaller == {p \in Nat \X Nat : p[1] < p[2]}
LEMMA Least ==
  ASSUME NEW T \in SUBSET Nat, T # {}
  PROVE  \E m \in T : \A n \in T : m <= n
<1>1. IsWellFoundedOn(Smaller, Nat)
  <2>1. Smaller = OpToRel(<, Nat)
    BY DEF OpToRel, Smaller
  <2>2. QED
    BY <2>1, NatLessThanWellFounded
<1>2. PICK m \in T : \A n \in T : ~(<<n, m>> \in Smaller)
  BY <1>1, WFMin
<1>3. \A n \in T : ~(n < m)
  BY <1>2 DEF Smaller
<1>4. QED
  BY <1>3

-----------------------------------------------------------------------------
(* f lists the members of I in increasing order.                             *)
Lists(f, n, I) ==
  /\ f \in [1 .. n -> I]
  /\ \A j, k \in 1 .. n : j < k => f[j] < f[k]
  /\ \A i \in I : \E k \in 1 .. n : f[k] = i

LEMMA ListsSize ==
  ASSUME NEW I \in SUBSET Nat, NEW n \in Nat, NEW f, Lists(f, n, I)
  PROVE  IsFiniteSet(I) /\ Cardinality(I) = n /\ f \in Bijection(1 .. n, I)
<1>1. \A j, k \in 1 .. n : f[j] = f[k] => j = k
  <2>1. \A k \in 1 .. n : f[k] \in Nat
    BY DEF Lists
  <2>2. \A j, k \in 1 .. n : j < k => f[j] < f[k]
    BY DEF Lists
  <2>3. QED
    BY <2>1, <2>2
<1>2. f \in Bijection(1 .. n, I)
  BY <1>1 DEF Lists, Bijection, Injection, Surjection, IsInjective
<1>3. ExistsBijection(1 .. n, I)
  BY <1>2 DEF ExistsBijection
<1>4. IsFiniteSet(1 .. n) /\ Cardinality(1 .. n) = n
  BY FS_Interval
<1>5. QED
  BY <1>2, <1>3, <1>4, FS_Bijection

(* There is one such list of a set.                                          *)
LEMMA OneList ==
  ASSUME NEW I \in SUBSET Nat, NEW n \in Nat, NEW f, NEW g, Lists(f, n, I), Lists(g, n, I)
  PROVE  f = g
<1> DEFINE Wrong == {k \in 1 .. n : f[k] # g[k]}
<1>1. Wrong = {}
  <2>1. SUFFICES ASSUME Wrong # {} PROVE FALSE
    OBVIOUS
  <2>2. Wrong \in SUBSET Nat
    OBVIOUS
  <2>3. PICK k \in Wrong : \A j \in Wrong : k <= j
    BY <2>1, <2>2, Least
  <2>4. k \in 1 .. n /\ f[k] # g[k] /\ \A j \in 1 .. n : j < k => f[j] = g[j]
    BY <2>3
  <2>5. ASSUME NEW p, NEW q, Lists(p, n, I), Lists(q, n, I), p[k] < q[k],
               \A j \in 1 .. n : j < k => p[j] = q[j]
        PROVE  FALSE
    <3>1. p[k] \in I /\ q[k] \in I /\ p[k] \in Nat /\ q[k] \in Nat
      BY <2>4, <2>5 DEF Lists
    <3>2. PICK j \in 1 .. n : q[j] = p[k]
      BY <2>5, <3>1 DEF Lists
    <3>3. q[j] \in Nat
      BY <3>1, <3>2
    <3>4. CASE j < k
      <4>1. p[j] = p[k] /\ p[j] < p[k]
        BY <2>4, <2>5, <3>2, <3>4 DEF Lists
      <4>2. QED
        BY <3>1, <4>1
    <3>5. CASE j = k
      BY <2>5, <3>1, <3>2, <3>5
    <3>6. CASE k < j
      <4>1. q[k] < q[j]
        BY <2>4, <2>5, <3>6 DEF Lists
      <4>2. QED
        BY <2>5, <3>1, <3>2, <3>3, <4>1
    <3>7. QED
      BY <2>4, <3>4, <3>5, <3>6
  <2>6. f[k] \in Nat /\ g[k] \in Nat
    BY <2>4 DEF Lists
  <2>7. f[k] < g[k] \/ g[k] < f[k]
    BY <2>4, <2>6
  <2>8. QED
    BY <2>4, <2>5, <2>7
<1>2. f = [k \in 1 .. n |-> f[k]] /\ g = [k \in 1 .. n |-> g[k]]
  BY DEF Lists
<1>3. QED
  BY <1>1, <1>2

(* Every finite set of numbers has one.                                      *)
Listable(n) ==
  \A I \in SUBSET Nat : IsFiniteSet(I) /\ Cardinality(I) = n => \E f : Lists(f, n, I)

LEMMA ListableGrows ==
  ASSUME NEW n \in Nat \ {0}, Listable(n - 1)
  PROVE  Listable(n)
<1> SUFFICES ASSUME NEW I \in SUBSET Nat, IsFiniteSet(I), Cardinality(I) = n
             PROVE  \E f : Lists(f, n, I)
  BY DEF Listable
<1>1. I # {}
  BY FS_EmptySet
<1>2. PICK m \in I : \A i \in I : m <= i
  BY <1>1, Least
<1>3. IsFiniteSet(I \ {m}) /\ Cardinality(I \ {m}) = n - 1
  BY FS_RemoveElement
<1>4. PICK g : Lists(g, n - 1, I \ {m})
  BY <1>3 DEF Listable
<1> DEFINE f == [k \in 1 .. n |-> IF k = 1 THEN m ELSE g[k - 1]]
<1>5. \A k \in 1 .. (n - 1) : g[k] \in I /\ g[k] # m /\ m < g[k]
  <2>1. m \in Nat /\ \A k \in 1 .. (n - 1) : g[k] \in I \ {m}
    BY <1>4 DEF Lists
  <2>2. \A k \in 1 .. (n - 1) : g[k] \in Nat /\ m <= g[k]
    BY <1>2, <2>1
  <2>3. QED
    BY <2>1, <2>2
<1>6. f \in [1 .. n -> I]
  BY <1>5
<1>7. ASSUME NEW j \in 1 .. n, NEW k \in 1 .. n, j < k PROVE f[j] < f[k]
  <2>1. k # 1 /\ k - 1 \in 1 .. (n - 1) /\ f[k] = g[k - 1]
    BY <1>7
  <2>2. CASE j = 1
    BY <1>5, <2>1, <2>2
  <2>3. CASE j # 1
    <3>1. j - 1 \in 1 .. (n - 1) /\ j - 1 < k - 1 /\ f[j] = g[j - 1]
      BY <1>7, <2>3
    <3>2. QED
      BY <1>4, <2>1, <3>1 DEF Lists
  <2>4. QED
    BY <2>2, <2>3
<1>8. ASSUME NEW i \in I PROVE \E k \in 1 .. n : f[k] = i
  <2>1. CASE i = m
    <3>1. 1 \in 1 .. n /\ f[1] = m
      OBVIOUS
    <3>2. QED
      BY <2>1, <3>1
  <2>2. CASE i # m
    <3>1. PICK k \in 1 .. (n - 1) : g[k] = i
      BY <1>4, <2>2 DEF Lists
    <3>2. k + 1 \in 1 .. n /\ f[k + 1] = g[k]
      OBVIOUS
    <3>3. QED
      BY <3>1, <3>2
  <2>3. QED
    BY <2>1, <2>2
<1> HIDE DEF f
<1>9. QED
  BY <1>6, <1>7, <1>8 DEF Lists

LEMMA OrderedLists ==
  ASSUME NEW I \in SUBSET Nat, IsFiniteSet(I)
  PROVE  Cardinality(I) \in Nat /\ Lists(Ordered(I), Cardinality(I), I)
<1> DEFINE Wrong == {n \in Nat : ~Listable(n)}
           n == Cardinality(I)
<1>1. Listable(0)
  <2> DEFINE f == [k \in 1 .. 0 |-> 0]
  <2>1. \A J \in SUBSET Nat : IsFiniteSet(J) /\ Cardinality(J) = 0 => J = {}
    BY FS_EmptySet
  <2>2. Lists(f, 0, {})
    BY DEF Lists
  <2> HIDE DEF f
  <2>3. QED
    BY <2>1, <2>2 DEF Listable
<1>2. Wrong = {}
  <2>1. SUFFICES ASSUME Wrong # {} PROVE FALSE
    OBVIOUS
  <2>2. PICK m \in Wrong : \A k \in Wrong : m <= k
    BY <2>1, Least
  <2>3. m \in Nat /\ ~Listable(m) /\ m # 0
    BY <1>1, <2>2
  <2>4. m - 1 \in Nat /\ ~(m <= m - 1)
    BY <2>3
  <2>5. Listable(m - 1)
    BY <2>2, <2>4
  <2>6. QED
    BY <2>3, <2>5, ListableGrows
<1>3. n \in Nat
  BY FS_CardinalityType
<1>4. PICK f : Lists(f, n, I)
  BY <1>2, <1>3 DEF Listable
<1> HIDE DEF n
<1>5. \E row \in Bijection(1 .. n, I) : \A j, k \in DOMAIN row : j < k => row[j] < row[k]
  <2>1. f \in Bijection(1 .. n, I) /\ DOMAIN f = 1 .. n
    BY <1>3, <1>4, ListsSize DEF Lists
  <2>2. QED
    BY <1>4, <2>1 DEF Lists
<1>6. /\ Ordered(I) \in Bijection(1 .. n, I)
      /\ \A j, k \in DOMAIN Ordered(I) : j < k => Ordered(I)[j] < Ordered(I)[k]
  BY <1>5 DEF Ordered, n
<1>7. Lists(Ordered(I), n, I)
  BY <1>6 DEF Lists, Bijection, Injection, Surjection
<1>8. QED
  BY <1>3, <1>7 DEF n

-----------------------------------------------------------------------------
(* The rows I of an array. *)
LEMMA AtIs ==
  ASSUME NEW I \in SUBSET Nat, IsFiniteSet(I), NEW S, NEW s \in Seq(S)
  PROVE  /\ Cardinality(I) \in Nat
         /\ At(s, I) \in [1 .. Cardinality(I) -> S \cup {Undefined}]
         /\ At(s, I) \in Seq(S \cup {Undefined}) /\ Len(At(s, I)) = Cardinality(I)
         /\ \A k \in 1 .. Cardinality(I) :
              At(s, I)[k] = IF Ordered(I)[k] \in DOMAIN s THEN s[Ordered(I)[k]] ELSE Undefined
<1> DEFINE n == Cardinality(I)
           row == Ordered(I)
           t == [k \in 1 .. n |-> IF row[k] \in DOMAIN s THEN s[row[k]] ELSE Undefined]
<1>1. n \in Nat
  BY OrderedLists
<1>2. At(s, I) = t
  BY DEF At
<1> HIDE DEF n, row
<1>3. t \in [1 .. n -> S \cup {Undefined}]
  OBVIOUS
<1>4. t \in Seq(S \cup {Undefined}) /\ Len(t) = n
  BY <1>1, <1>3
<1>5. \A k \in 1 .. n : t[k] = IF row[k] \in DOMAIN s THEN s[row[k]] ELSE Undefined
  OBVIOUS
<1> HIDE DEF t
<1>6. QED
  BY <1>1, <1>2, <1>3, <1>4, <1>5 DEF n, row

(* Two parts of a set, one below the other, are listed one after the other.  *)
LEMMA SplitList ==
  ASSUME NEW A \in SUBSET Nat, NEW B \in SUBSET Nat, IsFiniteSet(A), IsFiniteSet(B),
         \A a \in A, b \in B : a < b
  PROVE  LET m == Cardinality(A)
             n == Cardinality(B)
         IN  /\ m \in Nat /\ n \in Nat
             /\ IsFiniteSet(A \cup B) /\ Cardinality(A \cup B) = m + n
             /\ \A k \in 1 .. m : Ordered(A \cup B)[k] = Ordered(A)[k]
             /\ \A k \in 1 .. n : Ordered(A \cup B)[m + k] = Ordered(B)[k]
<1> DEFINE m == Cardinality(A)
           n == Cardinality(B)
           f == Ordered(A)
           g == Ordered(B)
           h == [k \in 1 .. (m + n) |-> IF k <= m THEN f[k] ELSE g[k - m]]
<1>1. m \in Nat /\ n \in Nat /\ Lists(f, m, A) /\ Lists(g, n, B)
  BY OrderedLists
<1> HIDE DEF m, n, f, g
<1>2. /\ \A k \in 1 .. m : f[k] \in A /\ f[k] \in Nat
      /\ \A k \in 1 .. n : g[k] \in B /\ g[k] \in Nat
  BY <1>1 DEF Lists
<1>3. /\ \A k \in 1 .. m : k \in 1 .. (m + n) /\ h[k] = f[k]
      /\ \A k \in 1 .. n : m + k \in 1 .. (m + n) /\ h[m + k] = g[k]
      /\ \A k \in 1 .. (m + n) : ~(k <= m) => k - m \in 1 .. n /\ h[k] = g[k - m]
  BY <1>1
<1>4. h \in [1 .. (m + n) -> A \cup B]
  BY <1>1, <1>2
<1>5. ASSUME NEW j \in 1 .. (m + n), NEW k \in 1 .. (m + n), j < k PROVE h[j] < h[k]
  <2>1. CASE k <= m
    <3>1. j \in 1 .. m /\ k \in 1 .. m
      BY <1>1, <1>5, <2>1
    <3>2. QED
      BY <1>1, <1>3, <1>5, <3>1 DEF Lists
  <2>2. CASE ~(k <= m) /\ j <= m
    <3>1. j \in 1 .. m /\ k - m \in 1 .. n
      BY <1>1, <1>5, <2>2
    <3>2. QED
      BY <1>2, <1>3, <2>2, <3>1
  <2>3. CASE ~(j <= m)
    <3>1. ~(k <= m) /\ j - m \in 1 .. n /\ k - m \in 1 .. n /\ j - m < k - m
      BY <1>1, <1>5, <2>3
    <3>2. QED
      BY <1>1, <1>3, <2>3, <3>1 DEF Lists
  <2>4. QED
    BY <2>1, <2>2, <2>3
<1>6. ASSUME NEW i \in A \cup B PROVE \E k \in 1 .. (m + n) : h[k] = i
  <2>1. CASE i \in A
    BY <1>1, <1>3, <2>1 DEF Lists
  <2>2. CASE i \in B
    <3>1. PICK k \in 1 .. n : g[k] = i
      BY <1>1, <2>2 DEF Lists
    <3>2. m + k \in 1 .. (m + n) /\ h[m + k] = i
      BY <1>3, <3>1
    <3>3. QED
      BY <3>2
  <2>3. QED
    BY <2>1, <2>2
<1> HIDE DEF h
<1>7. Lists(h, m + n, A \cup B)
  BY <1>4, <1>5, <1>6 DEF Lists
<1>8. (A \cup B) \in SUBSET Nat /\ m + n \in Nat
  BY <1>1
<1>9. IsFiniteSet(A \cup B) /\ Cardinality(A \cup B) = m + n
  BY <1>7, <1>8, ListsSize
<1>10. Ordered(A \cup B) = h
  BY <1>7, <1>8, <1>9, OrderedLists, OneList
<1>11. QED
  BY <1>1, <1>3, <1>9, <1>10 DEF m, n, f, g

LEMMA SameItems ==
  ASSUME NEW V, NEW x \in Seq(V), NEW y \in Seq(V),
         Len(x) = Len(y), \A k \in 1 .. Len(x) : x[k] = y[k]
  PROVE  x = y
OBVIOUS

(* The rows of both parts are those of the one, then those of the other.     *)
LEMMA SplitRows ==
  ASSUME NEW A \in SUBSET Nat, NEW B \in SUBSET Nat, IsFiniteSet(A), IsFiniteSet(B),
         \A a \in A, b \in B : a < b, NEW S, NEW s \in Seq(S)
  PROVE  At(s, A \cup B) = At(s, A) \o At(s, B)
<1> DEFINE m == Cardinality(A)
           n == Cardinality(B)
           a == At(s, A)
           b == At(s, B)
           c == At(s, A \cup B)
           V == S \cup {Undefined}
<1>1. /\ m \in Nat /\ n \in Nat /\ Cardinality(A \cup B) = m + n
      /\ IsFiniteSet(A \cup B) /\ (A \cup B) \in SUBSET Nat
      /\ \A k \in 1 .. m : Ordered(A \cup B)[k] = Ordered(A)[k]
      /\ \A k \in 1 .. n : Ordered(A \cup B)[m + k] = Ordered(B)[k]
  BY SplitList
<1>2. /\ a \in Seq(V) /\ Len(a) = m /\ b \in Seq(V) /\ Len(b) = n
      /\ c \in Seq(V) /\ Len(c) = m + n
  BY <1>1, AtIs
<1>3. /\ \A k \in 1 .. m :
           a[k] = IF Ordered(A)[k] \in DOMAIN s THEN s[Ordered(A)[k]] ELSE Undefined
      /\ \A k \in 1 .. n :
           b[k] = IF Ordered(B)[k] \in DOMAIN s THEN s[Ordered(B)[k]] ELSE Undefined
      /\ \A k \in 1 .. (m + n) :
           c[k] = IF Ordered(A \cup B)[k] \in DOMAIN s THEN s[Ordered(A \cup B)[k]]
                  ELSE Undefined
  <2>1. \A k \in 1 .. m :
          a[k] = IF Ordered(A)[k] \in DOMAIN s THEN s[Ordered(A)[k]] ELSE Undefined
    BY AtIs
  <2>2. \A k \in 1 .. n :
          b[k] = IF Ordered(B)[k] \in DOMAIN s THEN s[Ordered(B)[k]] ELSE Undefined
    BY AtIs
  <2>3. \A k \in 1 .. Cardinality(A \cup B) :
          c[k] = IF Ordered(A \cup B)[k] \in DOMAIN s THEN s[Ordered(A \cup B)[k]]
                 ELSE Undefined
    <3> DEFINE I == A \cup B
    <3>1. I \in SUBSET Nat /\ IsFiniteSet(I)
      BY <1>1
    <3> HIDE DEF I
    <3>2. \A k \in 1 .. Cardinality(I) :
            At(s, I)[k] = IF Ordered(I)[k] \in DOMAIN s THEN s[Ordered(I)[k]] ELSE Undefined
      BY <3>1, AtIs
    <3>3. QED
      BY <3>2 DEF I
  <2> HIDE DEF m, n, a, b, c, V
  <2>4. QED
    BY <1>1, <2>1, <2>2, <2>3
<1> HIDE DEF m, n, a, b, c, V
<1>4. /\ \A k \in 1 .. m : c[k] = a[k]
      /\ \A k \in 1 .. n : c[m + k] = b[k]
  <2>1. \A k \in 1 .. m : k \in 1 .. (m + n)
    BY <1>1
  <2>2. \A k \in 1 .. n : m + k \in 1 .. (m + n)
    BY <1>1
  <2>3. QED
    BY <1>1, <1>3, <2>1, <2>2
<1>5. a \o b \in Seq(V) /\ Len(a \o b) = m + n
  <2>1. a \in Seq(V) /\ b \in Seq(V)
    BY <1>2
  <2>2. a \o b \in Seq(V) /\ Len(a \o b) = Len(a) + Len(b)
    BY <2>1
  <2>3. QED
    BY <1>2, <2>2
<1>6. \A k \in 1 .. (m + n) : c[k] = (a \o b)[k]
  <2> TAKE k \in 1 .. (m + n)
  <2>1. CASE k <= m
    BY <1>1, <1>2, <1>4, <2>1
  <2>2. CASE ~(k <= m)
    <3>1. k - m \in 1 .. n /\ m + (k - m) = k
      BY <1>1, <2>2
    <3>2. c[k] = b[k - m]
      BY <1>4, <3>1
    <3>3. QED
      BY <1>1, <1>2, <2>2, <3>1, <3>2
  <2>3. QED
    BY <2>1, <2>2
<1>7. c = a \o b
  <2> DEFINE d == a \o b
  <2>1. c \in Seq(V) /\ d \in Seq(V) /\ Len(c) = Len(d) /\ \A k \in 1 .. Len(c) : c[k] = d[k]
    BY <1>2, <1>5, <1>6
  <2> HIDE DEF d
  <2>2. c = d
    BY <2>1, SameItems
  <2>3. QED
    BY <2>2 DEF d
<1>8. QED
  BY <1>7 DEF a, b, c

(* Sets of rows are finite. *)
LEMMA RowSets ==
  ASSUME NEW n \in Nat, NEW I \in SUBSET (1 .. n)
  PROVE  I \in SUBSET Nat /\ IsFiniteSet(I) /\ Cardinality(I) \in Nat /\ Cardinality(I) <= n
<1>1. IsFiniteSet(1 .. n) /\ Cardinality(1 .. n) = n
  BY FS_Interval
<1>2. IsFiniteSet(I) /\ Cardinality(I) <= n
  BY <1>1, FS_Subset
<1>3. QED
  BY <1>2, FS_CardinalityType

LEMMA CutConcat ==
  ASSUME NEW V, NEW a \in Seq(V), NEW b \in Seq(V)
  PROVE  /\ SubSeq(a \o b, 1, Len(a)) = a
         /\ SubSeq(a \o b, Len(a) + 1, Len(a \o b)) = b
<1>1. /\ a \o b \in Seq(V) /\ Len(a \o b) = Len(a) + Len(b)
      /\ Len(a) \in Nat /\ Len(b) \in Nat
  OBVIOUS
<1> DEFINE x == SubSeq(a \o b, 1, Len(a))
           y == SubSeq(a \o b, Len(a) + 1, Len(a \o b))
<1>2. x \in Seq(V) /\ Len(x) = Len(a) /\ \A k \in 1 .. Len(a) : x[k] = a[k]
  BY <1>1
<1>3. y \in Seq(V) /\ Len(y) = Len(b) /\ \A k \in 1 .. Len(b) : y[k] = b[k]
  BY <1>1
<1> HIDE DEF x, y
<1>4. x = a
  BY <1>2
<1>5. y = b
  BY <1>3
<1>6. QED
  BY <1>4, <1>5 DEF x, y

(* Where `target` stands among the rows that stay. *)
LEMMA TargetPlace ==
  ASSUME NEW n \in Nat, NEW I \in SUBSET (1 .. n), NEW target \in Nat
  PROVE  Cardinality((1 .. target) \ I) = target - Cardinality({i \in I : i <= target})
<1>1. IsFiniteSet(1 .. target) /\ Cardinality(1 .. target) = target
  BY FS_Interval
<1>2. (1 .. target) \cap I = {i \in I : i <= target}
  <2>1. \A i \in I : i \in Nat /\ 1 <= i
    OBVIOUS
  <2>2. \A i \in I : i \in 1 .. target <=> i <= target
    BY <2>1
  <2>3. QED
    BY <2>2
<1> DEFINE all == 1 .. target
           taken == {i \in I : i <= target}
<1>3. IsFiniteSet(all) /\ Cardinality(all) = target /\ all \cap I = taken
  BY <1>1, <1>2
<1> HIDE DEF all, taken
<1>4. Cardinality(all \ I) = Cardinality(all) - Cardinality(all \cap I)
  BY <1>3, FS_Difference
<1>5. Cardinality(all \ I) = target - Cardinality(taken)
  BY <1>3, <1>4
<1>6. QED
  BY <1>5 DEF all, taken

(* reorderRules puts the rows where its comment says. *)
LEMMA ReorderMoves ==
  ASSUME NEW S, NEW s \in Seq(S), NEW I \in SUBSET (1 .. Len(s)), I # {},
         NEW target \in 0 .. Len(s)
  PROVE  Reorder(s, I, target) = Moved(s, I, target)
<1> DEFINE n == Len(s)
           low == (1 .. target) \ I
           high == ((target + 1) .. n) \ I
           V == S \cup {Undefined}
           a == At(s, low)
           b == At(s, high)
           remaining == At(s, DOMAIN s \ I)
           adjusted == target - Cardinality({i \in I : i <= target})
           place == IF adjusted > Len(remaining) THEN Len(remaining) ELSE adjusted
<1>1. /\ n \in Nat /\ target \in Nat /\ target <= n /\ DOMAIN s = 1 .. n
      /\ low \in SUBSET (1 .. n) /\ high \in SUBSET (1 .. n)
      /\ I \in SUBSET (1 .. n)
  OBVIOUS
<1>2. low \cup high = DOMAIN s \ I
  BY <1>1
<1>3. \A i \in low, j \in high : i < j
  BY <1>1
<1> HIDE DEF n, low, high
<1>4. /\ low \in SUBSET Nat /\ IsFiniteSet(low) /\ Cardinality(low) \in Nat
      /\ high \in SUBSET Nat /\ IsFiniteSet(high)
  BY <1>1, RowSets
<1>5. remaining = a \o b
  <2>1. At(s, low \cup high) = a \o b
    BY <1>3, <1>4, SplitRows
  <2>2. QED
    BY <1>2, <2>1
<1>6. /\ a \in Seq(V) /\ Len(a) = Cardinality(low) /\ b \in Seq(V)
      /\ Len(a) \in Nat /\ Len(b) \in Nat
  BY <1>4, AtIs
<1>7. adjusted = Cardinality(low)
  BY <1>1, TargetPlace DEF low
<1> HIDE DEF a, b, remaining, V, adjusted
<1>8. Len(remaining) = Len(a) + Len(b)
  <2>1. a \in Seq(V) /\ b \in Seq(V)
    BY <1>6
  <2>2. Len(a \o b) = Len(a) + Len(b)
    BY <2>1
  <2>3. QED
    BY <1>5, <2>2
<1>9. place = Len(a)
  BY <1>6, <1>7, <1>8
<1> HIDE DEF place
<1>10. /\ SubSeq(remaining, 1, place) = a
       /\ SubSeq(remaining, place + 1, Len(remaining)) = b
  BY <1>5, <1>6, <1>9, CutConcat
<1>11. Reorder(s, I, target) = SubSeq(remaining, 1, place) \o At(s, I)
                                 \o SubSeq(remaining, place + 1, Len(remaining))
  BY DEF Reorder, remaining, place, adjusted
<1>12. QED
  BY <1>10, <1>11 DEF Moved, a, b, low, high, n

-----------------------------------------------------------------------------
(* What a mutation makes of the rules. The rows of t are drawn from s if     *)
(* each of them is a row of s, or none that is there, and no row is drawn    *)
(* twice.                                                                    *)
Entry == Rule \cup {Undefined}
Distinct(s) ==
  \A i, j \in DOMAIN s :
    i # j /\ s[i] # Undefined /\ s[j] # Undefined => s[i].id # s[j].id
UpTo(s, n) == \A i \in DOMAIN s : s[i] # Undefined => s[i].id <= n

DrawnBy(g, t, s) ==
  /\ \A j, k \in DOMAIN t : g[j] = g[k] => j = k
  /\ \A k \in DOMAIN t : t[k] = IF g[k] \in DOMAIN s THEN s[g[k]] ELSE Undefined
Drawn(t, s) == \E g : DrawnBy(g, t, s)

LEMMA DrawnKeeps ==
  ASSUME NEW s, NEW t, Drawn(t, s)
  PROVE  /\ Distinct(s) => Distinct(t)
         /\ \A n : UpTo(s, n) => UpTo(t, n)
<1>1. PICK g : DrawnBy(g, t, s)
  BY DEF Drawn
<1>2. ASSUME Distinct(s) PROVE Distinct(t)
  BY <1>1, <1>2 DEF DrawnBy, Distinct
<1>3. ASSUME NEW n, UpTo(s, n) PROVE UpTo(t, n)
  BY <1>1, <1>3 DEF DrawnBy, UpTo
<1>4. QED
  BY <1>2, <1>3

LEMMA AtDoc ==
  ASSUME NEW s \in Documents, NEW I \in SUBSET Nat, IsFiniteSet(I)
  PROVE  /\ At(s, I) \in Documents /\ Len(At(s, I)) = Cardinality(I)
         /\ Cardinality(I) \in Nat /\ DOMAIN At(s, I) = 1 .. Cardinality(I)
         /\ DrawnBy(Ordered(I), At(s, I), s)
<1>1. s \in Seq(Entry) /\ Entry \cup {Undefined} = Entry
  BY DEF Documents, Entry
<1>2. /\ Cardinality(I) \in Nat /\ At(s, I) \in Seq(Entry \cup {Undefined})
      /\ Len(At(s, I)) = Cardinality(I)
      /\ \A k \in 1 .. Cardinality(I) :
           At(s, I)[k] = IF Ordered(I)[k] \in DOMAIN s THEN s[Ordered(I)[k]] ELSE Undefined
  BY <1>1, AtIs
<1>3. At(s, I) \in Documents /\ DOMAIN At(s, I) = 1 .. Cardinality(I)
  BY <1>1, <1>2 DEF Documents, Entry
<1>4. \A j, k \in 1 .. Cardinality(I) : Ordered(I)[j] = Ordered(I)[k] => j = k
  <2>1. Lists(Ordered(I), Cardinality(I), I)
    BY OrderedLists
  <2>2. Ordered(I) \in Bijection(1 .. Cardinality(I), I)
    BY <1>2, <2>1, ListsSize
  <2>3. QED
    BY <2>2 DEF Bijection, Injection, IsInjective
<1>5. QED
  BY <1>2, <1>3, <1>4 DEF DrawnBy

LEMMA ConcatIs ==
  ASSUME NEW V, NEW a \in Seq(V), NEW b \in Seq(V)
  PROVE  /\ a \o b \in Seq(V) /\ Len(a \o b) = Len(a) + Len(b)
         /\ \A k \in 1 .. (Len(a) + Len(b)) :
              (a \o b)[k] = IF k <= Len(a) THEN a[k] ELSE b[k - Len(a)]
OBVIOUS

(* b put into a after its first p elements. *)
LEMMA Splice ==
  ASSUME NEW V, NEW a \in Seq(V), NEW b \in Seq(V), NEW p \in 0 .. Len(a)
  PROVE  LET t == SubSeq(a, 1, p) \o b \o SubSeq(a, p + 1, Len(a))
             m == Len(a)
             n == Len(b)
         IN  /\ t \in Seq(V) /\ Len(t) = m + n
             /\ \A k \in 1 .. (m + n) :
                  t[k] = IF k <= p THEN a[k] ELSE IF k <= p + n THEN b[k - p] ELSE a[k - n]
<1> DEFINE m == Len(a)
           n == Len(b)
           t == SubSeq(a, 1, p) \o b \o SubSeq(a, p + 1, Len(a))
<1>1. /\ a \in Seq(V) /\ Len(a) = m /\ m \in Nat /\ b \in Seq(V) /\ Len(b) = n /\ n \in Nat
      /\ p \in Nat /\ p <= m
  OBVIOUS
<1> HIDE DEF m, n
<1> DEFINE x == SubSeq(a, 1, p)
           y == SubSeq(a, p + 1, Len(a))
<1>2. /\ x \in Seq(V) /\ Len(x) = p /\ \A k \in 1 .. p : x[k] = a[k]
      /\ y \in Seq(V) /\ Len(y) = m - p /\ \A k \in 1 .. (m - p) : y[k] = a[p + k]
  BY <1>1
<1> HIDE DEF x, y
<1>3. /\ x \o b \in Seq(V) /\ Len(x \o b) = p + n
      /\ \A k \in 1 .. (p + n) : (x \o b)[k] = IF k <= p THEN x[k] ELSE b[k - p]
  <2>1. /\ x \o b \in Seq(V) /\ Len(x \o b) = Len(x) + Len(b)
        /\ \A k \in 1 .. (Len(x) + Len(b)) :
             (x \o b)[k] = IF k <= Len(x) THEN x[k] ELSE b[k - Len(x)]
    BY <1>1, <1>2, ConcatIs
  <2>2. QED
    BY <1>1, <1>2, <2>1
<1> DEFINE xb == x \o b
<1> HIDE DEF xb
<1>4. /\ xb \in Seq(V) /\ Len(xb) = p + n
      /\ \A k \in 1 .. (p + n) : xb[k] = IF k <= p THEN x[k] ELSE b[k - p]
  BY <1>3 DEF xb
<1>5. /\ xb \o y \in Seq(V) /\ Len(xb \o y) = m + n
      /\ \A k \in 1 .. (m + n) : (xb \o y)[k] = IF k <= p + n THEN xb[k] ELSE y[k - (p + n)]
  <2>1. p + n \in Nat /\ (p + n) + (m - p) = m + n
    BY <1>1
  <2>2. /\ xb \o y \in Seq(V) /\ Len(xb \o y) = Len(xb) + Len(y)
        /\ \A k \in 1 .. (Len(xb) + Len(y)) :
             (xb \o y)[k] = IF k <= Len(xb) THEN xb[k] ELSE y[k - Len(xb)]
    BY <1>2, <1>4, ConcatIs
  <2>3. QED
    BY <1>2, <1>4, <2>1, <2>2
<1>6. t = xb \o y
  BY DEF xb, x, y
<1> HIDE DEF t
<1>7. ASSUME NEW k \in 1 .. (m + n)
      PROVE  t[k] = IF k <= p THEN a[k] ELSE IF k <= p + n THEN b[k - p] ELSE a[k - n]
  <2>1. CASE k <= p
    BY <1>1, <1>2, <1>4, <1>5, <1>6, <2>1
  <2>2. CASE ~(k <= p) /\ k <= p + n
    BY <1>1, <1>2, <1>4, <1>5, <1>6, <2>2
  <2>3. CASE ~(k <= p + n)
    <3>1. k - (p + n) \in 1 .. (m - p) /\ p + (k - (p + n)) = k - n /\ ~(k <= p)
      BY <1>1, <2>3
    <3>2. t[k] = y[k - (p + n)]
      BY <1>5, <1>6, <2>3
    <3>3. QED
      BY <1>2, <2>3, <3>1, <3>2
  <2>4. QED
    BY <2>1, <2>2, <2>3
<1>8. QED
  BY <1>5, <1>6, <1>7 DEF m, n, t

(* Two selections that do not meet, the second put in at some place.         *)
LEMMA PutIn ==
  ASSUME NEW s \in Documents, NEW A \in SUBSET Nat, NEW B \in SUBSET Nat,
         IsFiniteSet(A), IsFiniteSet(B), A \cap B = {},
         NEW p \in 0 .. Cardinality(A)
  PROVE  LET a == At(s, A)
             t == SubSeq(a, 1, p) \o At(s, B) \o SubSeq(a, p + 1, Len(a))
         IN  t \in Documents /\ Len(t) = Cardinality(A) + Cardinality(B) /\ Drawn(t, s)
<1> DEFINE a == At(s, A)
           b == At(s, B)
           m == Cardinality(A)
           n == Cardinality(B)
           f == Ordered(A)
           g == Ordered(B)
           t == SubSeq(a, 1, p) \o b \o SubSeq(a, p + 1, Len(a))
           h == [k \in 1 .. (m + n) |->
                   IF k <= p THEN f[k] ELSE IF k <= p + n THEN g[k - p] ELSE f[k - n]]
<1>1. /\ a \in Seq(Entry) /\ Len(a) = m /\ m \in Nat /\ DOMAIN a = 1 .. m
      /\ b \in Seq(Entry) /\ Len(b) = n /\ n \in Nat /\ DOMAIN b = 1 .. n
  BY AtDoc DEF Documents, Entry
<1>2. DrawnBy(f, a, s) /\ DrawnBy(g, b, s)
  BY AtDoc
<1>3. /\ \A k \in 1 .. m : f[k] \in A
      /\ \A k \in 1 .. n : g[k] \in B
  BY OrderedLists DEF Lists
<1> HIDE DEF a, b, m, n, f, g
<1>4. /\ p \in Nat /\ p <= m
  BY <1>1 DEF m
<1>5. /\ t \in Seq(Entry) /\ Len(t) = m + n
      /\ \A k \in 1 .. (m + n) :
           t[k] = IF k <= p THEN a[k] ELSE IF k <= p + n THEN b[k - p] ELSE a[k - n]
  <2>1. a \in Seq(Entry) /\ b \in Seq(Entry) /\ p \in 0 .. Len(a)
    BY <1>1, <1>4
  <2>2. /\ t \in Seq(Entry) /\ Len(t) = Len(a) + Len(b)
        /\ \A k \in 1 .. (Len(a) + Len(b)) :
             t[k] = IF k <= p THEN a[k]
                    ELSE IF k <= p + Len(b) THEN b[k - p] ELSE a[k - Len(b)]
    BY <2>1, Splice, ZenonT(30)
  <2> HIDE DEF t
  <2>3. QED
    BY <1>1, <2>2
<1> HIDE DEF t
<1>6. /\ \A j, k \in 1 .. m : f[j] = f[k] => j = k
      /\ \A j, k \in 1 .. n : g[j] = g[k] => j = k
      /\ \A j \in 1 .. m, k \in 1 .. n : f[j] # g[k]
  BY <1>1, <1>2, <1>3 DEF DrawnBy
<1>7. /\ \A k \in 1 .. (m + n) : k <= p => k \in 1 .. m /\ h[k] = f[k]
      /\ \A k \in 1 .. (m + n) : ~(k <= p) /\ k <= p + n => k - p \in 1 .. n /\ h[k] = g[k - p]
      /\ \A k \in 1 .. (m + n) : ~(k <= p + n) => k - n \in 1 .. m /\ h[k] = f[k - n]
                                                   /\ k - n > p
  BY <1>1, <1>4
<1> HIDE DEF h
<1>8. ASSUME NEW j \in 1 .. (m + n), NEW k \in 1 .. (m + n), h[j] = h[k] PROVE j = k
  <2>1. CASE j <= p
    BY <1>1, <1>4, <1>6, <1>7, <1>8, <2>1
  <2>2. CASE ~(j <= p) /\ j <= p + n
    BY <1>1, <1>4, <1>6, <1>7, <1>8, <2>2
  <2>3. CASE ~(j <= p + n)
    BY <1>1, <1>4, <1>6, <1>7, <1>8, <2>3
  <2>4. QED
    BY <2>1, <2>2, <2>3
<1>9. ASSUME NEW k \in 1 .. (m + n)
      PROVE  t[k] = IF h[k] \in DOMAIN s THEN s[h[k]] ELSE Undefined
  <2>1. CASE k <= p
    BY <1>1, <1>2, <1>5, <1>7, <2>1 DEF DrawnBy
  <2>2. CASE ~(k <= p) /\ k <= p + n
    <3>1. k - p \in 1 .. n /\ h[k] = g[k - p] /\ t[k] = b[k - p]
      BY <1>5, <1>7, <2>2
    <3>2. QED
      BY <1>1, <1>2, <3>1 DEF DrawnBy
  <2>3. CASE ~(k <= p + n)
    <3>1. k - n \in 1 .. m /\ h[k] = f[k - n] /\ t[k] = a[k - n]
      BY <1>1, <1>4, <1>5, <1>7, <2>3
    <3>2. QED
      BY <1>1, <1>2, <3>1 DEF DrawnBy
  <2>4. QED
    BY <2>1, <2>2, <2>3
<1>10. DOMAIN t = 1 .. (m + n)
  BY <1>1, <1>5
<1>11. DrawnBy(h, t, s)
  BY <1>8, <1>9, <1>10 DEF DrawnBy
<1>12. t \in Documents /\ Len(t) = m + n /\ Drawn(t, s)
  BY <1>5, <1>11 DEF Documents, Entry, Drawn
<1>13. QED
  BY <1>12 DEF t, a, b, m, n

(* A document that no rule is in twice, with the rules made so far.          *)
Good(s, n) == s \in Documents /\ Len(s) <= MaxRows /\ Distinct(s) /\ UpTo(s, n)

LEMMA DocFacts ==
  ASSUME NEW s \in Documents
  PROVE  /\ s \in Seq(Entry) /\ Len(s) \in Nat /\ DOMAIN s = 1 .. Len(s)
         /\ \A i \in DOMAIN s : s[i] # Undefined => s[i] \in Rule /\ s[i].id \in Nat
<1>1. \A r \in Rule : r.id \in RuleIds
  BY DEF Rule
<1>2. RuleIds \subseteq Nat
  BY StoreAssumption DEF RuleIds
<1>3. s \in Seq(Entry)
  BY DEF Documents, Entry
<1>4. Len(s) \in Nat /\ DOMAIN s = 1 .. Len(s) /\ \A i \in DOMAIN s : s[i] \in Entry
  BY <1>3
<1>5. ASSUME NEW i \in DOMAIN s, s[i] # Undefined PROVE s[i] \in Rule /\ s[i].id \in Nat
  <2>1. s[i] \in Rule
    BY <1>4, <1>5 DEF Entry
  <2>2. QED
    BY <1>1, <1>2, <2>1
<1>6. QED
  BY <1>3, <1>4, <1>5

LEMMA UpToMore ==
  ASSUME NEW s \in Documents, NEW n \in Nat, NEW m \in Nat, n <= m, UpTo(s, n)
  PROVE  UpTo(s, m)
BY DocFacts DEF UpTo

LEMMA GoodAt ==
  ASSUME NEW n \in Nat, NEW s, Good(s, n), NEW I \in SUBSET (DOMAIN s)
  PROVE  Good(At(s, I), n)
<1>1. s \in Documents /\ DOMAIN s = 1 .. Len(s) /\ Len(s) \in Nat /\ Len(s) <= MaxRows
  BY DocFacts DEF Good
<1>2. I \in SUBSET Nat /\ IsFiniteSet(I) /\ Cardinality(I) \in Nat /\ Cardinality(I) <= Len(s)
  BY <1>1, RowSets
<1>3. At(s, I) \in Documents /\ Len(At(s, I)) = Cardinality(I) /\ Drawn(At(s, I), s)
  BY <1>1, <1>2, AtDoc DEF Drawn
<1>4. QED
  BY <1>1, <1>2, <1>3, DrawnKeeps, StoreAssumption DEF Good

LEMMA GoodReorder ==
  ASSUME NEW n \in Nat, NEW s, Good(s, n), NEW I \in SUBSET Rows, I # {}, NEW target \in Nat,
         Len(s) + Cardinality(I \ DOMAIN s) <= MaxRows
  PROVE  Good(Reorder(s, I, target), n)
<1> DEFINE stay == DOMAIN s \ I
           remaining == At(s, stay)
           taken == {i \in I : i <= target}
           adjusted == target - Cardinality(taken)
           place == IF adjusted > Len(remaining) THEN Len(remaining) ELSE adjusted
           t == SubSeq(remaining, 1, place) \o At(s, I)
                  \o SubSeq(remaining, place + 1, Len(remaining))
<1>1. s \in Documents /\ DOMAIN s = 1 .. Len(s) /\ Len(s) \in Nat
  BY DocFacts DEF Good
<1>2. /\ stay \in SUBSET Nat /\ IsFiniteSet(stay) /\ Cardinality(stay) \in Nat
      /\ I \in SUBSET Nat /\ IsFiniteSet(I) /\ Cardinality(I) \in Nat
      /\ stay \cap I = {}
  <2>1. stay \in SUBSET (1 .. Len(s)) /\ I \in SUBSET (1 .. MaxRows) /\ MaxRows \in Nat
    BY <1>1, StoreAssumption DEF Rows
  <2>2. QED
    BY <1>1, <2>1, RowSets
<1>3. Cardinality(stay) + Cardinality(I) = Len(s) + Cardinality(I \ DOMAIN s)
  <2>1. IsFiniteSet(DOMAIN s) /\ Cardinality(DOMAIN s) = Len(s)
    <3>1. \A m \in Nat : IsFiniteSet(1 .. m) /\ Cardinality(1 .. m) = m
      BY FS_Interval
    <3>2. QED
      BY <1>1, <3>1
  <2>2. Cardinality(DOMAIN s \ I) = Cardinality(DOMAIN s) - Cardinality(DOMAIN s \cap I)
    BY <2>1, FS_Difference
  <2>3. Cardinality(I \ DOMAIN s) = Cardinality(I) - Cardinality(I \cap DOMAIN s)
    BY <1>2, FS_Difference
  <2>4. I \cap DOMAIN s = DOMAIN s \cap I
    OBVIOUS
  <2>5. Cardinality(DOMAIN s \cap I) \in Nat
    BY <2>1, FS_Intersection, FS_CardinalityType
  <2>6. Cardinality(stay) = Cardinality(DOMAIN s) - Cardinality(DOMAIN s \cap I)
    BY <2>2
  <2>7. Cardinality(I \ DOMAIN s) = Cardinality(I) - Cardinality(DOMAIN s \cap I)
    BY <2>3, <2>4
  <2> HIDE DEF stay
  <2>8. QED
    BY <1>1, <1>2, <2>1, <2>5, <2>6, <2>7
<1>4. adjusted \in Nat
  <2>1. taken \in SUBSET (1 .. target)
    <3>1. \A i \in I : i \in Nat /\ i >= 1
      BY StoreAssumption DEF Rows
    <3>2. QED
      BY <3>1
  <2>2. Cardinality(taken) \in Nat /\ Cardinality(taken) <= target
    BY <2>1, RowSets
  <2> HIDE DEF taken
  <2>3. QED
    BY <2>2
<1>5. Len(remaining) = Cardinality(stay)
  BY <1>1, <1>2, AtDoc
<1> HIDE DEF adjusted, taken, stay, remaining
<1>6. place \in 0 .. Cardinality(stay)
  BY <1>2, <1>4, <1>5
<1> HIDE DEF place
<1>7. t \in Documents /\ Len(t) = Cardinality(stay) + Cardinality(I) /\ Drawn(t, s)
  <2>1. \A p \in 0 .. Cardinality(stay) :
          LET a == At(s, stay)
              u == SubSeq(a, 1, p) \o At(s, I) \o SubSeq(a, p + 1, Len(a))
          IN  u \in Documents /\ Len(u) = Cardinality(stay) + Cardinality(I) /\ Drawn(u, s)
    BY <1>1, <1>2, PutIn
  <2>2. QED
    BY <1>6, <2>1 DEF remaining
<1>8. Reorder(s, I, target) = t
  BY DEF Reorder, t, place, adjusted, taken, remaining, stay
<1> HIDE DEF t
<1>9. Good(t, n)
  BY <1>3, <1>7, DrawnKeeps DEF Good
<1>10. QED
  BY <1>8, <1>9

(* A field of some rows changes: they stay the rules they are. *)
SameRules(t, s) ==
  /\ t \in Documents /\ Len(t) = Len(s)
  /\ \A i \in DOMAIN s : t[i] # Undefined => s[i] # Undefined /\ t[i].id = s[i].id

LEMMA GoodSame ==
  ASSUME NEW n \in Nat, NEW s, Good(s, n), NEW t, SameRules(t, s)
  PROVE  Good(t, n)
<1>1. DOMAIN t = DOMAIN s
  BY DocFacts DEF Good, SameRules
<1>2. QED
  BY <1>1 DEF Good, SameRules, Distinct, UpTo

LEMMA EnabledSame ==
  ASSUME NEW s \in Documents, NEW I, NEW b \in BOOLEAN
  PROVE  SameRules(Enabled(s, I, b), s)
<1> DEFINE t == Enabled(s, I, b)
<1>1. s \in Seq(Entry) /\ DOMAIN s = 1 .. Len(s) /\ Len(s) \in Nat
  BY DocFacts
<1>2. t = [i \in 1 .. Len(s) |->
             IF i \in I /\ s[i] # Undefined THEN [s[i] EXCEPT !.on = b] ELSE s[i]]
  BY <1>1 DEF Enabled
<1> HIDE DEF t
<1>3. ASSUME NEW i \in 1 .. Len(s)
      PROVE  t[i] \in Entry /\ (t[i] # Undefined => s[i] # Undefined /\ t[i].id = s[i].id)
  <2>1. CASE i \in I /\ s[i] # Undefined
    <3>1. s[i] \in Rule /\ t[i] = [s[i] EXCEPT !.on = b]
      BY <1>1, <1>2, <2>1, DocFacts
    <3>2. QED
      BY <2>1, <3>1 DEF Rule, Entry
  <2>2. CASE ~(i \in I /\ s[i] # Undefined)
    BY <1>1, <1>2, <2>2
  <2>3. QED
    BY <2>1, <2>2
<1>4. t \in Seq(Entry) /\ Len(t) = Len(s)
  BY <1>1, <1>2, <1>3
<1>5. QED
  BY <1>1, <1>3, <1>4 DEF SameRules, t, Documents, Entry

LEMMA ToggleSame ==
  ASSUME NEW s \in Documents, NEW i \in DOMAIN s, s[i] # Undefined
  PROVE  SameRules([s EXCEPT ![i].on = ~@], s)
<1> DEFINE r == [s[i] EXCEPT !.on = ~@]
           t == [s EXCEPT ![i] = r]
<1>1. s \in Seq(Entry) /\ DOMAIN s = 1 .. Len(s) /\ Len(s) \in Nat /\ s[i] \in Rule
  BY DocFacts
<1>2. r \in Rule /\ r.id = s[i].id
  BY <1>1 DEF Rule
<1>3. [s EXCEPT ![i].on = ~@] = t
  OBVIOUS
<1> HIDE DEF r
<1>4. t \in Seq(Entry) /\ Len(t) = Len(s) /\ t[i] = r /\ \A j \in DOMAIN s \ {i} : t[j] = s[j]
  BY <1>1, <1>2 DEF Entry
<1> HIDE DEF t
<1>5. SameRules(t, s)
  BY <1>1, <1>2, <1>4 DEF SameRules, Documents, Entry
<1>6. QED
  BY <1>3, <1>5

(* A rule that was not there before. *)
LEMMA GoodInsert ==
  ASSUME NEW n \in Nat, NEW s, Good(s, n), Len(s) < MaxRows,
         NEW r \in Rule, r.id = n + 1, NEW p \in 0 .. Len(s)
  PROVE  Good(InsertAt(s, p + 1, r), n + 1)
<1> DEFINE m == Len(s)
           one == <<r>>
           t == SubSeq(s, 1, p) \o one \o SubSeq(s, p + 1, m)
<1>1. /\ s \in Documents /\ s \in Seq(Entry) /\ m \in Nat /\ DOMAIN s = 1 .. m
      /\ one \in Seq(Entry) /\ Len(one) = 1 /\ one[1] = r /\ p \in Nat /\ p <= m
      /\ \A i \in 1 .. m : s[i] # Undefined => s[i].id \in Nat /\ s[i].id <= n
  BY DocFacts DEF Good, Entry, UpTo
<1>2. InsertAt(s, p + 1, r) = t
  <2>1. (p + 1) - 1 = p
    BY <1>1
  <2>2. QED
    BY <2>1 DEF InsertAt
<1>3. /\ t \in Seq(Entry) /\ Len(t) = m + Len(one)
      /\ \A k \in 1 .. (m + Len(one)) :
           t[k] = IF k <= p THEN s[k] ELSE IF k <= p + Len(one) THEN one[k - p]
                  ELSE s[k - Len(one)]
  <2> HIDE DEF one
  <2>1. s \in Seq(Entry) /\ one \in Seq(Entry) /\ p \in 0 .. Len(s)
    BY <1>1
  <2>2. QED
    BY <2>1, Splice, Zenon
<1> HIDE DEF t, one, m
<1>4. /\ DOMAIN t = 1 .. (m + 1)
      /\ \A k \in 1 .. (m + 1) :
           \/ k <= p /\ k \in 1 .. m /\ t[k] = s[k]
           \/ k = p + 1 /\ t[k] = r
           \/ k > p + 1 /\ k - 1 \in 1 .. m /\ t[k] = s[k - 1]
  <2>1. DOMAIN t = 1 .. (m + 1)
    BY <1>1, <1>3
  <2>2. ASSUME NEW k \in 1 .. (m + 1)
        PROVE  \/ k <= p /\ k \in 1 .. m /\ t[k] = s[k]
               \/ k = p + 1 /\ t[k] = r
               \/ k > p + 1 /\ k - 1 \in 1 .. m /\ t[k] = s[k - 1]
    <3>1. t[k] = IF k <= p THEN s[k] ELSE IF k <= p + 1 THEN one[k - p] ELSE s[k - 1]
      BY <1>1, <1>3
    <3>2. CASE k <= p
      BY <1>1, <3>1, <3>2
    <3>3. CASE k = p + 1
      <4>1. k - p = 1 /\ ~(k <= p)
        BY <1>1, <3>3
      <4>2. QED
        BY <1>1, <3>1, <3>3, <4>1
    <3>4. CASE k > p + 1
      BY <1>1, <3>1, <3>4
    <3>5. QED
      BY <1>1, <3>2, <3>3, <3>4
  <2>3. QED
    BY <2>1, <2>2
<1>5. Distinct(t)
  <2>1. SUFFICES ASSUME NEW j \in 1 .. (m + 1), NEW k \in 1 .. (m + 1), j < k,
                        t[j] # Undefined, t[k] # Undefined
                 PROVE  t[j].id # t[k].id
    BY <1>1, <1>4 DEF Distinct
  <2>2. \A x, y \in 1 .. m : x # y /\ s[x] # Undefined /\ s[y] # Undefined => s[x].id # s[y].id
    BY <1>1 DEF Good, Distinct
  <2>3. CASE k <= p
    BY <1>1, <1>4, <2>1, <2>2, <2>3
  <2>4. CASE k = p + 1
    <3>1. j \in 1 .. m /\ t[j] = s[j] /\ t[k] = r
      BY <1>1, <1>4, <2>1, <2>4
    <3>2. QED
      BY <1>1, <2>1, <3>1
  <2>5. CASE k > p + 1
    <3>1. k - 1 \in 1 .. m /\ t[k] = s[k - 1]
      BY <1>1, <1>4, <2>5
    <3>2. CASE j <= p
      <4>1. j \in 1 .. m /\ t[j] = s[j] /\ j # k - 1
        BY <1>1, <1>4, <2>5, <3>2
      <4>2. QED
        BY <2>1, <2>2, <3>1, <4>1
    <3>3. CASE j = p + 1
      <4>1. t[j] = r
        BY <1>1, <1>4, <3>3
      <4>2. QED
        BY <1>1, <2>1, <3>1, <4>1
    <3>4. CASE j > p + 1
      <4>1. j - 1 \in 1 .. m /\ t[j] = s[j - 1] /\ j - 1 # k - 1
        BY <1>1, <1>4, <2>1, <3>4
      <4>2. QED
        BY <2>1, <2>2, <3>1, <4>1
    <3>5. QED
      BY <1>1, <3>2, <3>3, <3>4
  <2>6. QED
    BY <1>1, <2>3, <2>4, <2>5
<1>6. UpTo(t, n + 1)
  <2>1. ASSUME NEW k \in 1 .. (m + 1), t[k] # Undefined PROVE t[k].id <= n + 1
    BY <1>1, <1>4, <2>1
  <2>2. QED
    BY <1>4, <2>1 DEF UpTo
<1>7. t \in Documents /\ Len(t) <= MaxRows
  BY <1>1, <1>3, StoreAssumption DEF Documents, Entry, m
<1>8. QED
  BY <1>2, <1>5, <1>6, <1>7 DEF Good

-----------------------------------------------------------------------------
(* The copies that Duplicate makes are numbered by their place among the     *)
(* rows copied.                                                              *)
Nth(I, i) == Cardinality({j \in I : j <= i})

LEMMA NthGrows ==
  ASSUME NEW m \in Nat, NEW I \in SUBSET (1 .. m)
  PROVE  /\ \A i \in I : Nth(I, i) \in 1 .. Cardinality(I)
         /\ \A i, j \in I : i # j => Nth(I, i) # Nth(I, j)
<1>1. IsFiniteSet(I) /\ Cardinality(I) \in Nat /\ \A i \in I : i \in Nat
  BY RowSets
<1>2. ASSUME NEW i \in I
      PROVE  /\ IsFiniteSet({j \in I : j <= i}) /\ Nth(I, i) \in Nat
             /\ Nth(I, i) <= Cardinality(I) /\ Nth(I, i) # 0
  <2> DEFINE T == {j \in I : j <= i}
  <2>1. T \in SUBSET I /\ i \in T
    BY <1>1
  <2> HIDE DEF T
  <2>2. IsFiniteSet(T) /\ Cardinality(T) <= Cardinality(I)
    BY <1>1, <2>1, FS_Subset
  <2>3. Cardinality(T) \in Nat /\ Cardinality(T) # 0
    BY <2>1, <2>2, FS_CardinalityType, FS_EmptySet
  <2>4. QED
    BY <2>2, <2>3 DEF Nth, T
<1>3. ASSUME NEW i \in I, NEW j \in I, i < j PROVE Nth(I, i) # Nth(I, j)
  <2> DEFINE T == {x \in I : x <= i}
             U == {x \in I : x <= j}
  <2>1. T \in SUBSET U /\ j \in U /\ j \notin T
    <3>1. i \in Nat /\ j \in Nat /\ i < j
      BY <1>1, <1>3
    <3>2. \A x \in I : x <= i => x <= j
      BY <1>1, <3>1
    <3>3. T \in SUBSET U
      BY <3>2
    <3>4. j \in U
      BY <3>1
    <3>5. ~(j <= i)
      BY <3>1
    <3>6. QED
      BY <3>3, <3>4, <3>5
  <2>2. IsFiniteSet(U)
    BY <1>2
  <2> HIDE DEF T, U
  <2>3. Cardinality(U) = Cardinality(T) => U = T
    BY <2>1, <2>2, FS_Subset
  <2>4. Cardinality(U) # Cardinality(T)
    BY <2>1, <2>3
  <2>5. QED
    BY <2>4 DEF Nth, T, U
<1>4. ASSUME NEW i \in I PROVE Nth(I, i) \in 1 .. Cardinality(I)
  <2>1. Nth(I, i) \in Nat /\ Nth(I, i) <= Cardinality(I) /\ Nth(I, i) # 0
    BY <1>2
  <2>2. QED
    BY <1>1, <2>1
<1>5. ASSUME NEW i \in I, NEW j \in I, i # j PROVE Nth(I, i) # Nth(I, j)
  <2>1. i < j \/ j < i
    BY <1>1, <1>5
  <2>2. QED
    BY <1>3, <2>1
<1>6. QED
  BY <1>4, <1>5

LEMMA EvenOdd ==
  ASSUME NEW m \in Nat, NEW k \in 1 .. (2 * m)
  PROVE  \/ k % 2 = 1 /\ (k + 1) \div 2 \in 1 .. m /\ k = 2 * ((k + 1) \div 2) - 1
         \/ k % 2 = 0 /\ k \div 2 \in 1 .. m /\ k = 2 * (k \div 2)
OBVIOUS

LEMMA ImageSize ==
  ASSUME NEW I \in SUBSET Nat, IsFiniteSet(I), NEW d \in {0, 1}
  PROVE  /\ IsFiniteSet({2 * i - d : i \in I})
         /\ Cardinality({2 * i - d : i \in I}) = Cardinality(I)
<1> DEFINE T == {2 * i - d : i \in I}
           f == [i \in I |-> 2 * i - d]
<1>1. \A i \in I : i \in Nat
  OBVIOUS
<1>2. f \in [I -> T] /\ \A t \in T : \E i \in I : f[i] = t
  OBVIOUS
<1>3. \A i, j \in I : f[i] = f[j] => i = j
  BY <1>1
<1> HIDE DEF f, T
<1>4. f \in Bijection(I, T)
  BY <1>2, <1>3 DEF Bijection, Injection, Surjection, IsInjective
<1>5. ExistsBijection(I, T)
  BY <1>4 DEF ExistsBijection
<1>6. IsFiniteSet(T) /\ Cardinality(T) = Cardinality(I)
  BY <1>5, FS_Bijection
<1>7. QED
  BY <1>6 DEF T

LEMMA TwiceRows ==
  ASSUME NEW m \in Nat, NEW I \in SUBSET (1 .. m)
  PROVE  LET K == {2 * i - 1 : i \in 1 .. m} \cup {2 * i : i \in I}
         IN  K \in SUBSET (1 .. (2 * m)) /\ Cardinality(K) = m + Cardinality(I)
<1> DEFINE A == {2 * i - 1 : i \in 1 .. m}
           B == {2 * i : i \in I}
<1>1. /\ (1 .. m) \in SUBSET Nat /\ IsFiniteSet(1 .. m) /\ Cardinality(1 .. m) = m
      /\ I \in SUBSET Nat /\ IsFiniteSet(I) /\ Cardinality(I) \in Nat
  <2>1. \A n \in Nat : IsFiniteSet(1 .. n) /\ Cardinality(1 .. n) = n
    BY FS_Interval
  <2>2. QED
    BY <2>1, RowSets
<1>2. IsFiniteSet(A) /\ Cardinality(A) = m
  <2>1. IsFiniteSet({2 * i - 1 : i \in 1 .. m}) /\ Cardinality({2 * i - 1 : i \in 1 .. m}) = Cardinality(1 .. m)
    BY <1>1, ImageSize
  <2>2. QED
    BY <1>1, <2>1
<1>3. IsFiniteSet(B) /\ Cardinality(B) = Cardinality(I)
  <2>1. IsFiniteSet({2 * i - 0 : i \in I}) /\ Cardinality({2 * i - 0 : i \in I}) = Cardinality(I)
    BY <1>1, ImageSize
  <2>2. {2 * i - 0 : i \in I} = B
    BY <1>1
  <2>3. QED
    BY <2>1, <2>2
<1>4. A \in SUBSET (1 .. (2 * m)) /\ B \in SUBSET (1 .. (2 * m)) /\ A \cap B = {}
  <2>1. \A i \in 1 .. m : 2 * i - 1 \in 1 .. (2 * m) /\ 2 * i \in 1 .. (2 * m)
    OBVIOUS
  <2>2. \A i, j \in 1 .. m : 2 * i - 1 # 2 * j
    OBVIOUS
  <2>3. QED
    BY <2>1, <2>2
<1> HIDE DEF A, B
<1>5. Cardinality(A \cup B) = Cardinality(A) + Cardinality(B) - Cardinality(A \cap B)
  BY <1>2, <1>3, FS_Union
<1>6. Cardinality(A \cup B) = m + Cardinality(I)
  <2>1. Cardinality(A \cap B) = 0
    BY <1>4, FS_EmptySet
  <2>2. QED
    BY <1>1, <1>2, <1>3, <1>5, <2>1
<1>7. A \cup B \in SUBSET (1 .. (2 * m))
  BY <1>4
<1>8. QED
  BY <1>6, <1>7 DEF A, B

LEMMA GoodTwice ==
  ASSUME fresh \in Nat, NEW s, Good(s, fresh), NEW I, I = Copied(s, I),
         Len(s) + Cardinality(I) <= MaxRows, fresh + Cardinality(I) \in RuleIds
  PROVE  Good(Twice(s, I), fresh + Cardinality(I))
<1> DEFINE m == Len(s)
           c == Cardinality(I)
           copy(i) == [s[i] EXCEPT !.id = fresh + Nth(I, i)]
           pairs == [k \in 1 .. (2 * m) |->
                       IF k % 2 = 1 THEN s[(k + 1) \div 2]
                       ELSE IF k \div 2 \in I THEN copy(k \div 2) ELSE Undefined]
           K == {2 * i - 1 : i \in 1 .. m} \cup {2 * i : i \in I}
<1>1. /\ s \in Seq(Entry) /\ m \in Nat /\ DOMAIN s = 1 .. m
      /\ \A i \in 1 .. m : s[i] # Undefined => s[i] \in Rule /\ s[i].id \in Nat /\ s[i].id <= fresh
      /\ \A i, j \in 1 .. m :
           i # j /\ s[i] # Undefined /\ s[j] # Undefined => s[i].id # s[j].id
  BY DocFacts DEF Good, UpTo, Distinct
<1>2. I \in SUBSET (1 .. m) /\ \A i \in I : s[i] \in Rule
  BY <1>1 DEF Copied
<1>3. Twice(s, I) = At(pairs, K)
  BY <1>1 DEF Twice, Nth
<1>4. c \in Nat /\ m + c <= MaxRows /\ fresh + c \in RuleIds
  BY <1>1, <1>2, RowSets
<1>5. /\ \A i \in I : Nth(I, i) \in 1 .. c
      /\ \A i, j \in I : i # j => Nth(I, i) # Nth(I, j)
  BY <1>1, <1>2, NthGrows
<1>6. K \in SUBSET (1 .. (2 * m)) /\ Cardinality(K) = m + c
  BY <1>1, <1>2, TwiceRows
<1>7. \A i \in I : copy(i) \in Rule /\ copy(i).id = fresh + Nth(I, i)
  <2>1. \A i \in I : fresh + Nth(I, i) \in RuleIds
    BY <1>4, <1>5, StoreAssumption DEF RuleIds
  <2>2. QED
    BY <1>2, <2>1 DEF Rule
<1> HIDE DEF m, c, K, copy
<1>8. ASSUME NEW k \in 1 .. (2 * m)
      PROVE  \/ /\ (k + 1) \div 2 \in 1 .. m /\ k = 2 * ((k + 1) \div 2) - 1
                /\ pairs[k] = s[(k + 1) \div 2]
             \/ k \div 2 \in I /\ k = 2 * (k \div 2) /\ pairs[k] = copy(k \div 2)
             \/ pairs[k] = Undefined
  <2>1. CASE k % 2 = 1
    BY <1>1, <2>1, EvenOdd
  <2>2. CASE k % 2 = 0 /\ k \div 2 \in I
    BY <1>1, <2>2, EvenOdd
  <2>3. CASE k % 2 = 0 /\ k \div 2 \notin I
    BY <1>1, <2>3
  <2>4. QED
    BY <1>1, <2>1, <2>2, <2>3, EvenOdd
<1>9. Len(pairs) = 2 * m /\ DOMAIN pairs = 1 .. (2 * m) /\ pairs \in Seq(Entry)
  <2>1. \A k \in 1 .. (2 * m) : pairs[k] \in Entry
    <3> HIDE DEF pairs
    <3>1. \A i \in 1 .. m : s[i] \in Entry
      BY <1>1
    <3>2. \A i \in I : copy(i) \in Entry
      BY <1>7 DEF Entry
    <3>3. Undefined \in Entry
      BY DEF Entry
    <3>4. QED
      BY <1>8, <3>1, <3>2, <3>3
  <2>2. 2 * m \in Nat
    BY <1>1
  <2>3. QED
    BY <2>1, <2>2
<1> HIDE DEF pairs
<1> DEFINE Old(k, i) == i \in 1 .. m /\ k = 2 * i - 1 /\ pairs[k] = s[i]
           New(k, i) == i \in I /\ k = 2 * i /\ pairs[k] = copy(i)
<1>10. \A k \in 1 .. (2 * m) : pairs[k] # Undefined => \E i \in 1 .. m : Old(k, i) \/ New(k, i)
  BY <1>2, <1>8
<1>11. /\ \A k, i : Old(k, i) /\ pairs[k] # Undefined => pairs[k].id \in Nat /\ pairs[k].id <= fresh
       /\ \A k, i : New(k, i) => /\ pairs[k].id = fresh + Nth(I, i)
                                 /\ pairs[k].id \in Nat
                                 /\ pairs[k].id <= fresh + c /\ pairs[k].id > fresh
  BY <1>1, <1>4, <1>5, <1>7
<1>12. UpTo(pairs, fresh + c)
  <2> HIDE DEF Old, New
  <2>1. QED
    BY <1>4, <1>9, <1>10, <1>11 DEF UpTo
<1>13. Distinct(pairs)
  <2>1. SUFFICES ASSUME NEW j \in 1 .. (2 * m), NEW k \in 1 .. (2 * m), j # k,
                        pairs[j] # Undefined, pairs[k] # Undefined,
                        pairs[j].id = pairs[k].id
                 PROVE  FALSE
    BY <1>9 DEF Distinct
  <2>2. PICK x \in 1 .. m : Old(j, x) \/ New(j, x)
    BY <1>10, <2>1
  <2>3. PICK y \in 1 .. m : Old(k, y) \/ New(k, y)
    BY <1>10, <2>1
  <2>4. CASE Old(j, x) /\ Old(k, y)
    <3>1. x # y
      BY <2>1, <2>4
    <3>2. QED
      BY <1>1, <2>1, <2>4, <3>1
  <2>5. CASE New(j, x) /\ New(k, y)
    <3>1. x # y /\ x \in I /\ y \in I
      BY <2>1, <2>5
    <3>2. fresh + Nth(I, x) = fresh + Nth(I, y)
      <4> HIDE DEF New
      <4>1. QED
        BY <1>11, <2>1, <2>5
    <3>3. QED
      BY <1>5, <3>1, <3>2
  <2> HIDE DEF Old, New
  <2>6. CASE Old(j, x) /\ New(k, y)
    BY <1>11, <2>1, <2>6
  <2>7. CASE New(j, x) /\ Old(k, y)
    BY <1>11, <2>1, <2>7
  <2>8. QED
    BY <2>2, <2>3, <2>4, <2>5, <2>6, <2>7
<1>14. /\ At(pairs, K) \in Documents /\ Len(At(pairs, K)) = m + c
       /\ Drawn(At(pairs, K), pairs)
  <2>1. K \in SUBSET Nat /\ IsFiniteSet(K)
    <3>1. 2 * m \in Nat
      BY <1>1
    <3>2. QED
      BY <1>6, <3>1, RowSets
  <2>2. pairs \in Documents
    BY <1>9 DEF Documents, Entry
  <2>3. QED
    BY <1>6, <2>1, <2>2, AtDoc DEF Drawn
<1>15. Good(At(pairs, K), fresh + c)
  BY <1>4, <1>12, <1>13, <1>14, DrawnKeeps DEF Good
<1>16. QED
  BY <1>3, <1>15 DEF c

-----------------------------------------------------------------------------
(* The inductive invariant: every document that can come back is as good as  *)
(* the one that is open.                                                     *)
Stack(u, n) == u \in Seq(Documents) /\ \A i \in DOMAIN u : Good(u[i], n)

DocsInv ==
  /\ fresh \in NRules .. (NRules + MaxChanges)
  /\ revision \in 0 .. MaxChanges
  /\ dirty \in BOOLEAN
  /\ Stack(undo, fresh) /\ Stack(redo, fresh)
  /\ \/ rules = NoProfile /\ undo = <<>> /\ redo = <<>> /\ dirty = FALSE
     \/ Good(rules, fresh)

RowsInv ==
  /\ sel \subseteq Rows /\ asking \subseteq Rows
  /\ anchor \in Rows \cup {NoRow}
  /\ detail \in 1 .. (MaxRows + 1 + revision) \cup {NoRow}
  /\ shown \in Filters

LEMMA Numbers ==
  /\ MaxRows \in Nat /\ NRules \in Nat /\ NRules <= MaxRows /\ MaxChanges \in Nat
  /\ RuleIds \in SUBSET Nat /\ \A n \in RuleIds : n <= NRules + MaxChanges
  /\ Rows \in SUBSET Nat /\ \A i \in Rows : i >= 1 /\ i <= MaxRows
  /\ NoRow \notin Nat
BY StoreAssumption DEF RuleIds, Rows

LEMMA GoodMore ==
  ASSUME NEW n \in Nat, NEW m \in Nat, n <= m, NEW s, Good(s, n)
  PROVE  Good(s, m)
BY UpToMore DEF Good

LEMMA GoodFresh == Good(Fresh, NRules) /\ Fresh # NoProfile
<1>1. NRules \in Nat /\ NRules <= MaxRows
  BY Numbers
<1>2. \A i \in 1 .. NRules : [id |-> i, on |-> TRUE] \in Rule
  BY StoreAssumption DEF Rule, RuleIds
<1>3. /\ Fresh \in Documents /\ Len(Fresh) = NRules /\ DOMAIN Fresh = 1 .. NRules
      /\ \A i \in 1 .. NRules : Fresh[i].id = i
  BY <1>1, <1>2 DEF Fresh, Documents
<1>4. Distinct(Fresh) /\ UpTo(Fresh, NRules)
  BY <1>1, <1>3 DEF Distinct, UpTo
<1>5. QED
  BY <1>1, <1>3, <1>4, StoreAssumption DEF Good

LEMMA StackMore ==
  ASSUME NEW n \in Nat, NEW m \in Nat, n <= m, NEW u, Stack(u, n)
  PROVE  Stack(u, m)
BY GoodMore DEF Stack

LEMMA StackEmpty ==
  ASSUME NEW n PROVE Stack(<<>>, n)
BY DEF Stack

LEMMA StackAppend ==
  ASSUME NEW n, NEW u, Stack(u, n), NEW s, Good(s, n)
  PROVE  Stack(Append(u, s), n)
<1>1. u \in Seq(Documents) /\ s \in Documents /\ Len(u) \in Nat /\ DOMAIN u = 1 .. Len(u)
  BY DEF Stack, Good
<1>2. Append(u, s) \in Seq(Documents) /\ DOMAIN Append(u, s) = 1 .. (Len(u) + 1)
  BY <1>1
<1>3. ASSUME NEW i \in 1 .. (Len(u) + 1) PROVE Good(Append(u, s)[i], n)
  <2>1. CASE i <= Len(u)
    BY <1>1, <2>1 DEF Stack
  <2>2. CASE i = Len(u) + 1
    BY <1>1, <2>2
  <2>3. QED
    BY <1>1, <2>1, <2>2
<1>4. QED
  BY <1>2, <1>3 DEF Stack

LEMMA StackTake ==
  ASSUME NEW n, NEW u, Stack(u, n), u # <<>>
  PROVE  /\ Stack(Front(u), n) /\ Good(Last(u), n) /\ Stack(Tail(u), n)
<1>1. /\ u \in Seq(Documents) /\ Len(u) \in Nat /\ Len(u) > 0 /\ DOMAIN u = 1 .. Len(u)
      /\ \A i \in 1 .. Len(u) : Good(u[i], n)
  BY DEF Stack
<1>2. /\ Front(u) \in Seq(Documents) /\ DOMAIN Front(u) = 1 .. (Len(u) - 1)
      /\ \A i \in 1 .. (Len(u) - 1) : Front(u)[i] = u[i]
  BY <1>1 DEF Front
<1>3. /\ Tail(u) \in Seq(Documents) /\ DOMAIN Tail(u) = 1 .. (Len(u) - 1)
      /\ \A i \in 1 .. (Len(u) - 1) : Tail(u)[i] = u[i + 1]
  BY <1>1
<1>4. Good(Last(u), n)
  BY <1>1 DEF Last
<1>5. \A i \in 1 .. (Len(u) - 1) : i \in 1 .. Len(u) /\ i + 1 \in 1 .. Len(u)
  BY <1>1
<1>6. Stack(Front(u), n)
  BY <1>1, <1>2, <1>5 DEF Stack
<1>7. Stack(Tail(u), n)
  BY <1>1, <1>3, <1>5 DEF Stack
<1>8. QED
  BY <1>4, <1>6, <1>7

LEMMA CommitKeeps ==
  ASSUME DocsInv, Loaded, NEW next, Commit(next), fresh' \in Nat, fresh <= fresh',
         fresh' <= NRules + MaxChanges, Good(next, fresh')
  PROVE  DocsInv' /\ Loaded'
<1>1. fresh \in Nat /\ fresh >= NRules /\ NRules \in Nat
  BY Numbers DEF DocsInv
<1>2. Good(rules, fresh) /\ Stack(undo, fresh)
  BY DEF DocsInv, Loaded
<1>3. Stack(Append(undo, rules), fresh) /\ Append(undo, rules) # <<>>
  BY <1>2, StackAppend DEF Stack, Good
<1>4. Stack(undo', fresh)
  BY <1>3, StackTake DEF Commit
<1>5. Stack(undo', fresh') /\ Stack(redo', fresh')
  BY <1>1, <1>4, StackMore, StackEmpty DEF Commit
<1>6. revision' \in 0 .. MaxChanges /\ dirty' \in BOOLEAN /\ rules' = next
  BY Numbers DEF Commit, DocsInv
<1>7. rules' # NoProfile
  BY <1>6, StoreAssumption DEF Good
<1>8. fresh' \in NRules .. (NRules + MaxChanges)
  BY <1>1, Numbers
<1>9. Loaded'
  BY <1>7 DEF Loaded
<1>10. DocsInv'
  BY <1>5, <1>6, <1>8 DEF DocsInv
<1>11. QED
  BY <1>9, <1>10

LEMMA DocsStep ==
  ASSUME DocsInv, RowsInv, [Next]_vars
  PROVE  DocsInv'
<1> USE DEF vars, view
<1>1. fresh \in Nat /\ fresh <= NRules + MaxChanges /\ sel \in SUBSET Rows /\ asking \in SUBSET Rows
  BY Numbers DEF DocsInv, RowsInv
<1>2. Loaded => Good(rules, fresh) /\ DOMAIN rules = 1 .. Len(rules) /\ Len(rules) \in Nat
                /\ rules \in Documents /\ Len(rules) <= MaxRows
  BY DocFacts DEF DocsInv, Loaded, Good
<1>3. ASSUME NEW next, Loaded, Commit(next), UNCHANGED fresh, Good(next, fresh) PROVE DocsInv'
  BY <1>1, <1>3, CommitKeeps
<1>4. CASE SetLoaded
  <2>1. Good(rules', fresh')
    <3>1. fresh' = fresh /\ rules' = Fresh
      BY <1>4 DEF SetLoaded
    <3>2. NRules \in Nat /\ NRules <= fresh
      BY <1>1, Numbers DEF DocsInv
    <3>3. QED
      BY <1>1, <3>1, <3>2, GoodFresh, GoodMore
  <2>2. revision' \in 0 .. MaxChanges /\ dirty' \in BOOLEAN /\ fresh' = fresh
        /\ undo' = <<>> /\ redo' = <<>>
    <3>1. /\ revision < MaxChanges /\ revision' = revision + 1 /\ dirty' = FALSE
          /\ fresh' = fresh /\ undo' = <<>> /\ redo' = <<>>
      BY <1>4 DEF SetLoaded
    <3>2. revision \in 0 .. MaxChanges /\ MaxChanges \in Nat
      BY Numbers DEF DocsInv
    <3>3. revision' \in 0 .. MaxChanges
      BY <3>1, <3>2
    <3>4. QED
      BY <3>1, <3>3
  <2>3. Stack(<<>>, fresh')
    BY StackEmpty
  <2>4. fresh' \in NRules .. (NRules + MaxChanges)
    BY <2>2 DEF DocsInv
  <2>5. QED
    BY <2>1, <2>2, <2>3, <2>4 DEF DocsInv
<1>5. CASE MarkSaved
  BY <1>5 DEF MarkSaved, DocsInv
<1>6. CASE Clear
  <2>1. /\ revision' \in 0 .. MaxChanges /\ dirty' = FALSE /\ fresh' = fresh
        /\ undo' = <<>> /\ redo' = <<>> /\ rules' = NoProfile
    BY <1>6, Numbers DEF Clear, DocsInv
  <2>2. Stack(<<>>, fresh')
    BY StackEmpty
  <2>3. fresh' \in NRules .. (NRules + MaxChanges)
    BY <2>1 DEF DocsInv
  <2>4. QED
    BY <2>1, <2>2, <2>3 DEF DocsInv
<1>7. CASE Undo
  <2>1. Good(rules, fresh) /\ Stack(undo, fresh) /\ undo # <<>> /\ Stack(redo, fresh)
    BY <1>2, <1>7 DEF Undo, DocsInv
  <2>2. Stack(Front(undo), fresh) /\ Good(Last(undo), fresh) /\ Stack(Append(redo, rules), fresh)
    BY <2>1, StackTake, StackAppend
  <2>3. QED
    BY <1>7, <2>2, Numbers DEF Undo, DocsInv
<1>8. CASE Redo
  <2>1. Good(rules, fresh) /\ Stack(redo, fresh) /\ redo # <<>> /\ Stack(undo, fresh)
    BY <1>2, <1>8 DEF Redo, DocsInv
  <2>2. Stack(Front(redo), fresh) /\ Good(Last(redo), fresh) /\ Stack(Append(undo, rules), fresh)
    BY <2>1, StackTake, StackAppend
  <2>3. QED
    BY <1>8, <2>2, Numbers DEF Redo, DocsInv
<1>9. ASSUME NEW i \in Rows, ToggleRule(i) PROVE DocsInv'
  <2>1. /\ Loaded /\ i \in DOMAIN rules /\ rules[i] # Undefined
        /\ Commit([rules EXCEPT ![i].on = ~@]) /\ UNCHANGED fresh
    BY <1>9 DEF ToggleRule
  <2>2. Good([rules EXCEPT ![i].on = ~@], fresh)
    BY <1>1, <1>2, <2>1, ToggleSame, GoodSame
  <2>3. QED
    BY <1>3, <2>1, <2>2
<1>10. ASSUME NEW b \in BOOLEAN, SetEnabledMany(b) PROVE DocsInv'
  <2>1. Loaded /\ Commit(Enabled(rules, sel, b)) /\ UNCHANGED fresh
    BY <1>10 DEF SetEnabledMany
  <2>2. Good(Enabled(rules, sel, b), fresh)
    BY <1>1, <1>2, <2>1, EnabledSame, GoodSame
  <2>3. QED
    BY <1>3, <2>1, <2>2
<1>11. ASSUME NEW I, DeleteRows(I), UNCHANGED fresh PROVE DocsInv'
  <2>1. Loaded /\ Commit(At(rules, DOMAIN rules \ I))
    BY <1>11 DEF DeleteRows
  <2>2. Good(At(rules, DOMAIN rules \ I), fresh)
    <3>1. DOMAIN rules \ I \in SUBSET DOMAIN rules
      OBVIOUS
    <3>2. QED
      BY <1>1, <1>2, <2>1, <3>1, GoodAt
  <2>3. QED
    BY <1>3, <1>11, <2>1, <2>2
<1>12. CASE DeleteKey
  BY <1>11, <1>12 DEF DeleteKey
<1>13. CASE ConfirmDelete
  BY <1>11, <1>13 DEF ConfirmDelete
<1>14. CASE Duplicate
  <2> DEFINE I == Copied(rules, sel)
  <2>1. /\ Loaded /\ Len(rules) + Cardinality(I) <= MaxRows
        /\ fresh + Cardinality(I) \in RuleIds
        /\ Commit(Twice(rules, I)) /\ fresh' = fresh + Cardinality(I)
    BY <1>14 DEF Duplicate
  <2>2. I = Copied(rules, I) /\ I \in SUBSET (1 .. Len(rules))
    BY <1>2, <2>1 DEF Copied
  <2> HIDE DEF I
  <2>3. Cardinality(I) \in Nat
    BY <1>2, <2>1, <2>2, RowSets
  <2>4. Good(Twice(rules, I), fresh + Cardinality(I))
    BY <1>1, <1>2, <2>1, <2>2, GoodTwice
  <2>5. fresh' \in Nat /\ fresh <= fresh' /\ fresh' <= NRules + MaxChanges
    BY <1>1, <2>1, <2>3, Numbers
  <2>6. Good(Twice(rules, I), fresh')
    BY <2>1, <2>4
  <2>7. QED
    BY <2>1, <2>5, <2>6, CommitKeeps
<1>15. ASSUME NEW I \in SUBSET Rows, NEW target \in Nat, MoveTo(I, target) PROVE DocsInv'
  <2>1. /\ Loaded /\ I # {} /\ Len(rules) + Cardinality(I \ DOMAIN rules) <= MaxRows
        /\ Commit(Reorder(rules, I, target)) /\ UNCHANGED fresh
    BY <1>15 DEF MoveTo
  <2>2. Good(Reorder(rules, I, target), fresh)
    BY <1>1, <1>2, <2>1, GoodReorder
  <2>3. QED
    BY <1>3, <2>1, <2>2
<1>16. CASE MoveToTop
  BY <1>1, <1>15, <1>16 DEF MoveToTop
<1>17. CASE MoveToBottom
  BY <1>1, <1>2, <1>15, <1>17 DEF MoveToBottom
<1>18. ASSUME NEW i \in Rows, NEW j \in Rows, Drag(i, j) PROVE DocsInv'
  <2>1. (IF i < j THEN j ELSE j - 1) \in Nat /\ {i} \in SUBSET Rows
    BY Numbers
  <2>2. QED
    BY <1>15, <1>18, <2>1 DEF Drag
<1>19. CASE AddRule
  <2> DEFINE p == IF detail = NoRow \/ detail > Len(rules) THEN Len(rules) ELSE detail
             r == [id |-> fresh + 1, on |-> TRUE]
  <2>1. /\ Loaded /\ Len(rules) < MaxRows /\ fresh + 1 \in RuleIds /\ fresh' = fresh + 1
        /\ Commit(InsertAt(rules, p + 1, r))
    BY <1>19 DEF AddRule
  <2>2. r \in Rule /\ r.id = fresh + 1
    BY <2>1 DEF Rule
  <2>3. p \in 0 .. Len(rules)
    BY <1>2, <2>1, Numbers DEF RowsInv, DocsInv
  <2> HIDE DEF p, r
  <2>4. Good(InsertAt(rules, p + 1, r), fresh + 1)
    BY <1>1, <1>2, <2>1, <2>2, <2>3, GoodInsert
  <2>5. fresh' \in Nat /\ fresh <= fresh' /\ fresh' <= NRules + MaxChanges
    BY <1>1, <2>1, Numbers
  <2>6. Good(InsertAt(rules, p + 1, r), fresh')
    BY <2>1, <2>4
  <2>7. QED
    BY <2>1, <2>5, <2>6, CommitKeeps
<1>20. ASSUME UNCHANGED <<rules, dirty, revision, undo, redo, fresh>> PROVE DocsInv'
  BY <1>20 DEF DocsInv
<1>21. CASE \/ ClearSelection \/ OpenDetail(NoRow) \/ AskDelete \/ CancelDelete \/ UNCHANGED vars
  BY <1>20, <1>21 DEF ClearSelection, OpenDetail, AskDelete, CancelDelete
<1>22. ASSUME NEW i \in Rows, ToggleSelection(i) \/ OpenDetail(i) PROVE DocsInv'
  BY <1>20, <1>22 DEF ToggleSelection, OpenDetail
<1>23. ASSUME NEW f \in Filters, Search(f) PROVE DocsInv'
  BY <1>20, <1>23 DEF Search
<1>24. QED
  BY <1>4, <1>5, <1>6, <1>7, <1>8, <1>9, <1>10, <1>12, <1>13, <1>14, <1>16, <1>17, <1>18,
     <1>19, <1>21, <1>22, <1>23 DEF Next

LEMMA RowsStep ==
  ASSUME DocsInv, RowsInv, [Next]_vars
  PROVE  RowsInv'
<1> USE DEF vars, view
<1>1. /\ MaxRows \in Nat /\ NoRow \notin Nat /\ revision \in Nat
      /\ \A i : i \in Rows <=> i \in Nat /\ i >= 1 /\ i <= MaxRows
  BY Numbers DEF DocsInv, Rows
<1>2. Loaded => /\ DOMAIN rules = 1 .. Len(rules) /\ Len(rules) \in Nat /\ Len(rules) <= MaxRows
  BY DocFacts DEF DocsInv, Loaded, Good
<1>3. ASSUME UNCHANGED <<sel, asking, anchor, detail, shown>>,
             revision' = revision \/ revision' = revision + 1
      PROVE  RowsInv'
  BY <1>1, <1>3 DEF RowsInv
<1>4. CASE \/ MarkSaved \/ Undo \/ Redo \/ Duplicate \/ MoveToTop \/ MoveToBottom
           \/ UNCHANGED vars
  BY <1>3, <1>4 DEF MarkSaved, Undo, Redo, Duplicate, MoveToTop, MoveToBottom, MoveTo, Commit
<1>5. ASSUME NEW i \in Rows, ToggleRule(i) PROVE RowsInv'
  BY <1>3, <1>5 DEF ToggleRule, Commit
<1>6. ASSUME NEW b \in BOOLEAN, SetEnabledMany(b) PROVE RowsInv'
  BY <1>3, <1>6 DEF SetEnabledMany, Commit
<1>7. ASSUME NEW i \in Rows, NEW j \in Rows, Drag(i, j) PROVE RowsInv'
  BY <1>3, <1>7 DEF Drag, MoveTo, Commit
<1>8. ASSUME sel' = {}, asking' = asking \/ asking' = {}, UNCHANGED <<anchor, shown>>,
             detail' = detail \/ detail' = NoRow,
             revision' = revision \/ revision' = revision + 1
      PROVE  RowsInv'
  BY <1>1, <1>8 DEF RowsInv
<1>9. CASE SetLoaded \/ Clear \/ DeleteKey \/ ConfirmDelete \/ ClearSelection
  BY <1>8, <1>9 DEF SetLoaded, Clear, DeleteKey, ConfirmDelete, DeleteRows, ClearSelection, Commit
<1>10. CASE AskDelete \/ CancelDelete
  BY <1>10 DEF AskDelete, CancelDelete, RowsInv
<1>11. ASSUME NEW i \in Rows, ToggleSelection(i) PROVE RowsInv'
  <2>1. UNCHANGED <<revision, detail, asking, shown>>
    BY <1>11 DEF ToggleSelection
  <2>2. sel' \subseteq Rows /\ anchor' \in Rows \cup {NoRow}
    <3>1. CASE SelectSingle(i)
      BY <3>1 DEF SelectSingle
    <3>2. CASE SelectToggle(i)
      BY <3>2 DEF SelectToggle, RowsInv
    <3>3. CASE SelectRange(i)
      <4>1. CASE anchor = NoRow
        BY <3>3, <4>1 DEF SelectRange, RowsInv
      <4>2. CASE anchor # NoRow
        <5>1. anchor \in Rows
          BY <4>2 DEF RowsInv
        <5>2. (i .. anchor) \subseteq Rows /\ (anchor .. i) \subseteq Rows
          BY <1>1, <5>1
        <5>3. QED
          BY <3>3, <4>2, <5>2 DEF SelectRange, RowsInv
      <4>3. QED
        BY <4>1, <4>2
    <3>4. QED
      BY <1>11, <3>1, <3>2, <3>3 DEF ToggleSelection
  <2>3. QED
    BY <2>1, <2>2 DEF RowsInv
<1>12. CASE OpenDetail(NoRow)
  BY <1>12 DEF OpenDetail, RowsInv
<1>13. ASSUME NEW i \in Rows, OpenDetail(i) PROVE RowsInv'
  <2>1. i \in 1 .. (MaxRows + 1 + revision)
    BY <1>1
  <2>2. QED
    BY <1>13, <2>1 DEF OpenDetail, RowsInv
<1>14. ASSUME NEW f \in Filters, Search(f) PROVE RowsInv'
  BY <1>14 DEF Search, RowsInv
<1>15. CASE AddRule
  <2>1. /\ Loaded /\ Len(rules) < MaxRows /\ revision' = revision + 1
        /\ UNCHANGED <<sel, anchor, asking, shown>>
        /\ detail' = IF detail = NoRow THEN Len(rules) + 1 ELSE detail + 1
    BY <1>15 DEF AddRule, Commit
  <2>2. detail' \in 1 .. (MaxRows + 1 + revision')
    <3>1. CASE detail = NoRow
      BY <1>1, <1>2, <2>1, <3>1
    <3>2. CASE detail # NoRow
      <4>1. detail \in 1 .. (MaxRows + 1 + revision)
        BY <3>2 DEF RowsInv
      <4>2. QED
        BY <1>1, <2>1, <3>2, <4>1
    <3>3. QED
      BY <3>1, <3>2
  <2>3. QED
    BY <2>1, <2>2 DEF RowsInv
<1>16. QED
  BY <1>4, <1>5, <1>6, <1>7, <1>9, <1>10, <1>11, <1>12, <1>13, <1>14, <1>15 DEF Next

LEMMA StoreInvariant == Spec => [](DocsInv /\ RowsInv)
<1>1. Init => DocsInv /\ RowsInv
  <2>1. Stack(<<>>, NRules)
    BY StackEmpty
  <2>2. NRules \in NRules .. (NRules + MaxChanges) /\ 0 \in 0 .. MaxChanges
    BY Numbers
  <2>3. Init => DocsInv
    BY <2>1, <2>2 DEF Init, DocsInv
  <2>4. Init => RowsInv
    BY DEF Init, RowsInv
  <2>5. QED
    BY <2>3, <2>4
<1>2. DocsInv /\ RowsInv /\ [Next]_vars => (DocsInv /\ RowsInv)'
  BY DocsStep, RowsStep
<1>3. QED
  BY <1>1, <1>2, PTL DEF Spec

-----------------------------------------------------------------------------
(* Every variable of the store is what the code declares it to be, in any    *)
(* order of edits, selections, undos and dialogs.                            *)
THEOREM StoreTypeCorrect == Spec => []TypeOK
<1>1. DocsInv /\ RowsInv => TypeOK
  <2>1. SUFFICES ASSUME DocsInv, RowsInv PROVE TypeOK
    OBVIOUS
  <2>2. ASSUME NEW s, NEW n, Good(s, n) PROVE IsDocument(s) /\ s # NoProfile
    <3>1. s \in Seq(Entry) /\ Len(s) <= MaxRows /\ s \in Documents
      BY <2>2, DocFacts DEF Good
    <3>2. IsDocument(s)
      BY <3>1 DEF IsDocument, Entry
    <3>3. QED
      BY <3>1, <3>2, StoreAssumption
  <2>3. rules = NoProfile \/ IsDocument(rules)
    BY <2>1, <2>2 DEF DocsInv
  <2>4. \A i \in DOMAIN undo : IsDocument(undo[i])
    BY <2>1, <2>2 DEF DocsInv, Stack
  <2>5. \A i \in DOMAIN redo : IsDocument(redo[i])
    BY <2>1, <2>2 DEF DocsInv, Stack
  <2>6. rules = NoProfile => undo = <<>> /\ redo = <<>> /\ ~dirty
    BY <2>1, <2>2 DEF DocsInv
  <2>7. detail \in 1 .. (MaxRows + 1 + MaxChanges) \cup {NoRow}
    <3>1. CASE detail = NoRow
      BY <3>1
    <3>2. CASE detail # NoRow
      <4>1. detail \in 1 .. (MaxRows + 1 + revision) /\ revision \in 0 .. MaxChanges
        BY <2>1, <3>2 DEF RowsInv, DocsInv
      <4>2. QED
        BY <4>1, Numbers
    <3>3. QED
      BY <3>1, <3>2
  <2>8. fresh \in 0 .. (NRules + MaxChanges)
    BY <2>1, Numbers DEF DocsInv
  <2>9. QED
    BY <2>1, <2>3, <2>4, <2>5, <2>6, <2>7, <2>8 DEF TypeOK, DocsInv, RowsInv
<1>2. QED
  BY <1>1, StoreInvariant, PTL

(* No sequence of moves, copies, undos and deletes by index makes two rows   *)
(* of one rule, or of a rule and its copy.                                   *)
THEOREM NoRuleTwice == Spec => []RulesDistinct
<1>1. DocsInv => RulesDistinct
  BY DEF DocsInv, RulesDistinct, Loaded, Good, Distinct
<1>2. QED
  BY <1>1, StoreInvariant, PTL

(* A drag or a move of the selection puts the rows taken before the row that *)
(* was at the target and leaves the others in the order they had, for        *)
(* profiles of any length (the comment of reorderRules).                     *)
THEOREM MovesAreMoves == Spec => MovesKeepOrder
<1> DEFINE Keeps ==
      /\ \A i, j \in Rows : Drag(i, j) =>
            rules' = Moved(rules, {i}, IF i < j THEN j ELSE j - 1)
      /\ Loaded /\ sel \subseteq DOMAIN rules =>
            /\ MoveToTop => rules' = Moved(rules, sel, 0)
            /\ MoveToBottom => rules' = Moved(rules, sel, Len(rules))
<1>1. DocsInv /\ RowsInv => Keeps
  <2>1. SUFFICES ASSUME DocsInv, RowsInv PROVE Keeps
    OBVIOUS
  <2>2. Loaded => rules \in Seq(Entry) /\ DOMAIN rules = 1 .. Len(rules) /\ Len(rules) \in Nat
    BY <2>1, DocFacts DEF DocsInv, Loaded, Good
  <2>3. ASSUME NEW I, NEW target, MoveTo(I, target), I \subseteq DOMAIN rules, target \in 0 .. Len(rules)
        PROVE  rules' = Moved(rules, I, target)
    <3>1. Loaded /\ I # {} /\ rules' = Reorder(rules, I, target)
      BY <2>3 DEF MoveTo, Commit
    <3>2. I \in SUBSET (1 .. Len(rules)) /\ rules \in Seq(Entry)
      BY <2>2, <2>3, <3>1
    <3>3. Reorder(rules, I, target) = Moved(rules, I, target)
      BY <2>3, <3>1, <3>2, ReorderMoves
    <3>4. QED
      BY <3>1, <3>3
  <2>4. ASSUME NEW i \in Rows, NEW j \in Rows, Drag(i, j)
        PROVE  rules' = Moved(rules, {i}, IF i < j THEN j ELSE j - 1)
    <3> DEFINE target == IF i < j THEN j ELSE j - 1
    <3>1. MoveTo({i}, target) /\ Loaded /\ i \in DOMAIN rules /\ j \in DOMAIN rules
      BY <2>4 DEF Drag, Visible
    <3>2. target \in 0 .. Len(rules) /\ {i} \subseteq DOMAIN rules
      BY <2>2, <3>1
    <3> HIDE DEF target
    <3>3. rules' = Moved(rules, {i}, target)
      BY <2>3, <3>1, <3>2
    <3>4. QED
      BY <3>3 DEF target
  <2>5. ASSUME Loaded, sel \subseteq DOMAIN rules, MoveToTop PROVE rules' = Moved(rules, sel, 0)
    BY <2>2, <2>3, <2>5 DEF MoveToTop
  <2>6. ASSUME Loaded, sel \subseteq DOMAIN rules, MoveToBottom
        PROVE  rules' = Moved(rules, sel, Len(rules))
    BY <2>2, <2>3, <2>6 DEF MoveToBottom
  <2>7. QED
    BY <2>4, <2>5, <2>6
<1>2. DocsInv /\ RowsInv => [Keeps]_vars
  BY <1>1
<1> HIDE DEF Keeps
<1>3. Spec => [][Keeps]_vars
  BY <1>2, StoreInvariant, PTL
<1>4. QED
  BY <1>3 DEF MovesKeepOrder, Keeps

-----------------------------------------------------------------------------
(* The line of EditHistory that the two stacks stand for.                    *)
Line(u, r, d) == Append(u, r) \o Reverse(d)

LEMMA LineIs ==
  ASSUME NEW V, NEW u \in Seq(V), NEW r \in V, NEW d \in Seq(V)
  PROVE  Line(u, r, d) = [k \in 1 .. (Len(u) + 1 + Len(d)) |->
                            IF k <= Len(u) THEN u[k]
                            ELSE IF k = Len(u) + 1 THEN r
                            ELSE d[Len(u) + Len(d) + 2 - k]]
<1> DEFINE m == Len(u)
           n == Len(d)
           a == Append(u, r)
           b == Reverse(d)
<1>1. m \in Nat /\ n \in Nat
  OBVIOUS
<1>2. /\ a \in Seq(V) /\ Len(a) = m + 1
      /\ \A k \in 1 .. (m + 1) : a[k] = IF k <= m THEN u[k] ELSE r
  OBVIOUS
<1>3. /\ b \in Seq(V) /\ Len(b) = n
      /\ \A k \in 1 .. n : b[k] = d[n - k + 1]
  <2>1. b = [k \in 1 .. n |-> d[(n - k) + 1]]
    BY DEF Reverse
  <2>2. \A k \in 1 .. n : d[(n - k) + 1] \in V
    BY <1>1
  <2>3. QED
    BY <1>1, <2>1, <2>2
<1> HIDE DEF a, b
<1>4. /\ a \o b \in Seq(V) /\ Len(a \o b) = m + 1 + n
      /\ \A k \in 1 .. (m + 1 + n) : (a \o b)[k] = IF k <= m + 1 THEN a[k] ELSE b[k - (m + 1)]
  <2>1. /\ a \o b \in Seq(V) /\ Len(a \o b) = Len(a) + Len(b)
        /\ \A k \in 1 .. (Len(a) + Len(b)) :
             (a \o b)[k] = IF k <= Len(a) THEN a[k] ELSE b[k - Len(a)]
    <3>1. a \in Seq(V) /\ b \in Seq(V)
      BY <1>2, <1>3
    <3>2. QED
      BY <3>1, ConcatIs, Zenon
  <2> HIDE DEF m, n
  <2>2. QED
    BY <1>1, <1>2, <1>3, <2>1
<1> DEFINE f == [k \in 1 .. (m + 1 + n) |->
                   IF k <= m THEN u[k] ELSE IF k = m + 1 THEN r ELSE d[m + n + 2 - k]]
<1> HIDE DEF m, n
<1>5. ASSUME NEW k \in 1 .. (m + 1 + n) PROVE (a \o b)[k] = f[k]
  <2>1. CASE k <= m + 1
    BY <1>1, <1>2, <1>4, <2>1
  <2>2. CASE ~(k <= m + 1)
    <3>1. /\ k - (m + 1) \in 1 .. n /\ ~(k <= m) /\ k # m + 1
          /\ n - (k - (m + 1)) + 1 = m + n + 2 - k
      BY <1>1, <2>2
    <3>2. (a \o b)[k] = b[k - (m + 1)]
      BY <1>4, <2>2
    <3>3. b[k - (m + 1)] = d[m + n + 2 - k]
      BY <1>3, <3>1
    <3>4. QED
      BY <3>1, <3>2, <3>3
  <2>3. QED
    BY <2>1, <2>2
<1>6. a \o b = f
  <2>1. \A s \in Seq(V) : s = [k \in 1 .. Len(s) |-> s[k]]
    OBVIOUS
  <2>2. a \o b = [k \in 1 .. (m + 1 + n) |-> (a \o b)[k]]
    BY <1>4, <2>1
  <2>3. f = [k \in 1 .. (m + 1 + n) |-> f[k]]
    BY DEF f
  <2> HIDE DEF f
  <2>4. QED
    BY <1>5, <2>2, <2>3
<1>7. QED
  BY <1>6 DEF Line, a, b, m, n, f

LEMMA FrontIs ==
  ASSUME NEW V, NEW u \in Seq(V), u # <<>>
  PROVE  /\ Front(u) \in Seq(V) /\ Len(Front(u)) = Len(u) - 1
         /\ \A k \in 1 .. (Len(u) - 1) : Front(u)[k] = u[k]
<1>1. Len(u) \in Nat /\ Len(u) > 0 /\ DOMAIN u = 1 .. Len(u) /\ \A i \in 1 .. Len(u) : u[i] \in V
  OBVIOUS
<1>2. QED
  BY <1>1 DEF Front

(* What Redo does to the stacks leaves the line as it is; so does Undo, from *)
(* where Redo goes.                                                          *)
LEMMA LineWalks ==
  ASSUME NEW V, NEW u \in Seq(V), NEW r \in V, NEW d \in Seq(V), d # <<>>
  PROVE  /\ Line(Append(u, r), Last(d), Front(d)) = Line(u, r, d)
         /\ Len(Line(u, r, d)) = Len(u) + 1 + Len(d) /\ Len(d) > 0
         /\ Len(Append(u, r)) = Len(u) + 1
<1> DEFINE m == Len(u)
           n == Len(d)
           x == Append(u, r)
           y == Front(d)
           z == Last(d)
<1>1. m \in Nat /\ n \in Nat /\ n > 0
  OBVIOUS
<1>2. /\ x \in Seq(V) /\ Len(x) = m + 1
      /\ \A k \in 1 .. (m + 1) : x[k] = IF k <= m THEN u[k] ELSE r
  OBVIOUS
<1>3. /\ y \in Seq(V) /\ Len(y) = n - 1 /\ \A k \in 1 .. (n - 1) : y[k] = d[k]
      /\ z \in V /\ z = d[n]
  <2>1. n \in 1 .. n /\ n - 1 \in Nat
    BY <1>1
  <2>2. z \in V /\ z = d[n]
    BY <2>1 DEF Last
  <2>3. QED
    BY <2>2, FrontIs
<1>4. Line(u, r, d) = [k \in 1 .. (m + 1 + n) |->
                         IF k <= m THEN u[k] ELSE IF k = m + 1 THEN r ELSE d[m + n + 2 - k]]
  BY LineIs
<1> HIDE DEF m, n, x, y, z
<1>5. Line(x, z, y) = [k \in 1 .. (Len(x) + 1 + Len(y)) |->
                         IF k <= Len(x) THEN x[k] ELSE IF k = Len(x) + 1 THEN z
                         ELSE y[Len(x) + Len(y) + 2 - k]]
  <2>1. x \in Seq(V) /\ y \in Seq(V) /\ z \in V
    BY <1>2, <1>3
  <2>2. \A a \in Seq(V), q \in V, b \in Seq(V) :
          Line(a, q, b) = [k \in 1 .. (Len(a) + 1 + Len(b)) |->
                             IF k <= Len(a) THEN a[k] ELSE IF k = Len(a) + 1 THEN q
                             ELSE b[Len(a) + Len(b) + 2 - k]]
    BY LineIs
  <2>3. QED
    BY <2>1, <2>2
<1>6. Len(x) + 1 + Len(y) = m + 1 + n /\ Len(x) + Len(y) + 2 = m + n + 2
  BY <1>1, <1>2, <1>3
<1>7. ASSUME NEW k \in 1 .. (m + 1 + n)
      PROVE  (IF k <= Len(x) THEN x[k] ELSE IF k = Len(x) + 1 THEN z
              ELSE y[Len(x) + Len(y) + 2 - k])
             = IF k <= m THEN u[k] ELSE IF k = m + 1 THEN r ELSE d[m + n + 2 - k]
  <2>1. CASE k <= m + 1
    BY <1>1, <1>2, <2>1
  <2>2. CASE k = m + 2
    <3>1. m + n + 2 - k = n /\ ~(k <= m + 1)
      BY <1>1, <2>2
    <3>2. QED
      BY <1>1, <1>2, <1>3, <2>2, <3>1
  <2>3. CASE k > m + 2
    <3>1. m + n + 2 - k \in 1 .. (n - 1) /\ ~(k <= m + 1) /\ k # m + 2
      BY <1>1, <2>3
    <3>2. QED
      BY <1>1, <1>2, <1>3, <1>6, <3>1
  <2>4. QED
    BY <1>1, <2>1, <2>2, <2>3
<1>8. Line(x, z, y) = Line(u, r, d)
  BY <1>4, <1>5, <1>6, <1>7
<1>9. Len(Line(u, r, d)) = m + 1 + n
  BY <1>1, <1>4
<1>10. QED
  BY <1>1, <1>2, <1>8, <1>9 DEF m, n, x, y, z

LEMMA BackAndForth ==
  ASSUME NEW V, NEW u \in Seq(V), u # <<>>, NEW r \in V, NEW d \in Seq(V)
  PROVE  /\ Line(Front(u), Last(u), Append(d, r)) = Line(u, r, d)
         /\ Len(Front(u)) + 1 = Len(u) /\ Len(u) > 0
<1> DEFINE x == Front(u)
           z == Last(u)
           y == Append(d, r)
<1>1. Len(u) \in Nat /\ Len(u) > 0
  OBVIOUS
<1>2. x \in Seq(V) /\ Len(x) = Len(u) - 1 /\ z \in V
  <2>1. Len(u) \in 1 .. Len(u) /\ Len(u) - 1 \in Nat
    BY <1>1
  <2>2. z \in V
    BY <2>1 DEF Last
  <2>3. x \in Seq(V) /\ Len(x) = Len(u) - 1
    BY FrontIs
  <2>4. QED
    BY <2>2, <2>3
<1>3. Append(x, z) = u
  BY <1>1 DEF Front, Last
<1>4. y \in Seq(V) /\ y # <<>> /\ Front(y) = d /\ Last(y) = r
  BY DEF Front, Last
<1> HIDE DEF x, y, z
<1>5. Line(Append(x, z), Last(y), Front(y)) = Line(x, z, y)
  BY <1>2, <1>4, LineWalks
<1>6. QED
  BY <1>1, <1>2, <1>3, <1>4, <1>5 DEF x, y, z

(* An edit drops what was ahead, and at most the oldest state behind.        *)
LEMMA LineEdited ==
  ASSUME NEW V, NEW u \in Seq(V), NEW r \in V, NEW d \in Seq(V), NEW next \in V,
         NEW w, w \in {Append(u, r), Tail(Append(u, r))}
  PROVE  /\ Len(Line(w, next, <<>>)) = Len(w) + 1 /\ Len(w) \in Nat
         /\ SubSeq(Line(w, next, <<>>), 1, Len(w))
              \in {SubSeq(Line(u, r, d), 1, Len(u) + 1), SubSeq(Line(u, r, d), 2, Len(u) + 1)}
<1> DEFINE m == Len(u)
           x == Append(u, r)
           e == Line(w, next, <<>>)
           c == Line(u, r, d)
<1>1. m \in Nat /\ Len(d) \in Nat
  OBVIOUS
<1>2. /\ x \in Seq(V) /\ Len(x) = m + 1
      /\ \A k \in 1 .. (m + 1) : x[k] = IF k <= m THEN u[k] ELSE r
  OBVIOUS
<1>3. c = [k \in 1 .. (m + 1 + Len(d)) |->
             IF k <= m THEN u[k] ELSE IF k = m + 1 THEN r ELSE d[m + Len(d) + 2 - k]]
  BY LineIs
<1> HIDE DEF m, c, x
<1>4. SubSeq(c, 1, m + 1) = x /\ SubSeq(c, 2, m + 1) = Tail(x)
  <2>1. SubSeq(c, 1, m + 1) = x
    BY <1>1, <1>2, <1>3
  <2>2. SubSeq(c, 2, m + 1) = Tail(x)
    BY <1>1, <1>2, <1>3
  <2>3. QED
    BY <2>1, <2>2
<1>5. w \in {x, Tail(x)}
  BY DEF x
<1>6. w \in Seq(V) /\ Len(w) \in Nat
  <2>1. Tail(x) \in Seq(V) /\ x \in Seq(V)
    BY <1>1, <1>2
  <2>2. w \in Seq(V)
    BY <1>5, <2>1
  <2>3. QED
    BY <2>2
<1>7. e = [k \in 1 .. (Len(w) + 1) |-> IF k <= Len(w) THEN w[k] ELSE next]
  <2>1. e = [k \in 1 .. (Len(w) + 1 + Len(<<>>)) |->
               IF k <= Len(w) THEN w[k] ELSE IF k = Len(w) + 1 THEN next
               ELSE <<>>[Len(w) + Len(<<>>) + 2 - k]]
    <3>1. w \in Seq(V) /\ <<>> \in Seq(V) /\ next \in V
      BY <1>6
    <3>2. \A a \in Seq(V), q \in V, b \in Seq(V) :
            Line(a, q, b) = [k \in 1 .. (Len(a) + 1 + Len(b)) |->
                               IF k <= Len(a) THEN a[k] ELSE IF k = Len(a) + 1 THEN q
                               ELSE b[Len(a) + Len(b) + 2 - k]]
      BY LineIs
    <3>3. QED
      BY <3>1, <3>2, ZenonT(30) DEF e
  <2>2. Len(<<>>) = 0 /\ Len(w) + 1 + 0 = Len(w) + 1
    BY <1>6
  <2>3. QED
    BY <1>6, <2>1, <2>2
<1> HIDE DEF e
<1>8. Len(e) = Len(w) + 1 /\ SubSeq(e, 1, Len(w)) = w
  BY <1>6, <1>7
<1>9. QED
  BY <1>4, <1>5, <1>6, <1>8 DEF e, c, m

LEMMA InitHistory == Init => History!Init
BY DEF Init, History!Init, Loaded

LEMMA EditStep ==
  ASSUME DocsInv, Loaded, NEW next, Commit(next), Loaded', next \in Documents
  PROVE  History!Edit
<1>1. undo \in Seq(Documents) /\ rules \in Documents /\ redo \in Seq(Documents)
  BY DEF DocsInv, Loaded, Stack, Good
<1>2. rules' = next /\ redo' = <<>> /\ undo' \in {Append(undo, rules), Tail(Append(undo, rules))}
  BY DEF Commit
<1>3. /\ Len(Line(undo', next, <<>>)) = Len(undo') + 1 /\ Len(undo') \in Nat
      /\ SubSeq(Line(undo', next, <<>>), 1, Len(undo'))
           \in {SubSeq(Line(undo, rules, redo), 1, Len(undo) + 1),
                SubSeq(Line(undo, rules, redo), 2, Len(undo) + 1)}
  <2>1. \A w : w \in {Append(undo, rules), Tail(Append(undo, rules))} =>
          /\ Len(Line(w, next, <<>>)) = Len(w) + 1 /\ Len(w) \in Nat
          /\ SubSeq(Line(w, next, <<>>), 1, Len(w))
               \in {SubSeq(Line(undo, rules, redo), 1, Len(undo) + 1),
                    SubSeq(Line(undo, rules, redo), 2, Len(undo) + 1)}
    BY <1>1, LineEdited
  <2>2. QED
    BY <1>2, <2>1
<1>4. Len(undo) + 1 > 0 /\ Len(undo') + 1 > 0 /\ (Len(undo') + 1) - 1 = Len(undo')
  BY <1>1, <1>3
<1>5. QED
  BY <1>2, <1>3, <1>4 DEF History!Edit, Line

LEMMA HistoryStep ==
  ASSUME DocsInv, RowsInv, [Next]_vars
  PROVE  [History!Next]_(History!vars)
<1> USE DEF vars, view
<1>1. DocsInv' /\ (Loaded => Good(rules, fresh) /\ rules \in Documents)
  BY DocsStep DEF DocsInv, Loaded, Good
<1>2. undo \in Seq(Documents) /\ redo \in Seq(Documents)
  BY DEF DocsInv, Stack
<1>3. ASSUME NEW next, Loaded, Commit(next), next # NoProfile PROVE History!Edit
  <2>1. Loaded' /\ rules' = next
    BY <1>3 DEF Commit, Loaded
  <2>2. next \in Documents
    BY <1>1, <2>1 DEF DocsInv, Loaded, Good
  <2>3. QED
    BY <1>3, <2>1, <2>2, EditStep
<1>4. CASE SetLoaded
  <2>1. rules' = Fresh /\ undo' = <<>> /\ redo' = <<>> /\ Loaded'
    BY <1>4, GoodFresh DEF SetLoaded, Loaded
  <2>2. Append(<<>>, Fresh) \o Reverse(<<>>) = <<Fresh>>
    BY DEF Reverse
  <2>3. History!Load
    BY <2>1, <2>2 DEF History!Load
  <2>4. QED
    BY <2>3 DEF History!Next
<1>5. CASE Clear
  <2>1. ~Loaded'
    BY <1>5 DEF Clear, Loaded
  <2>2. History!Close
    BY <2>1 DEF History!Close
  <2>3. QED
    BY <2>2 DEF History!Next
<1>6. CASE Undo
  <2>1. /\ Loaded /\ undo # <<>> /\ rules' = Last(undo) /\ undo' = Front(undo)
        /\ redo' = Append(redo, rules)
    BY <1>6 DEF Undo
  <2>2. Loaded'
    <3>1. Good(Last(undo), fresh)
      BY <2>1, StackTake DEF DocsInv
    <3>2. QED
      BY <2>1, <3>1, StoreAssumption DEF Loaded, Good
  <2>3. /\ Line(undo', rules', redo') = Line(undo, rules, redo)
        /\ Len(undo') + 1 = Len(undo) /\ Len(undo) > 0 /\ Len(undo) \in Nat
    BY <1>1, <1>2, <2>1, BackAndForth
  <2>4. Len(undo') + 1 = (Len(undo) + 1) - 1 /\ Len(undo) + 1 > 1
    BY <2>3
  <2>5. History!Undo
    BY <2>1, <2>2, <2>3, <2>4 DEF History!Undo, Line
  <2>6. QED
    BY <2>5 DEF History!Next
<1>7. CASE Redo
  <2>1. /\ Loaded /\ redo # <<>> /\ rules' = Last(redo) /\ redo' = Front(redo)
        /\ undo' = Append(undo, rules)
    BY <1>7 DEF Redo
  <2>2. Loaded'
    <3>1. Good(Last(redo), fresh)
      BY <2>1, StackTake DEF DocsInv
    <3>2. QED
      BY <2>1, <3>1, StoreAssumption DEF Loaded, Good
  <2>3. /\ Line(undo', rules', redo') = Line(undo, rules, redo)
        /\ Len(Line(undo, rules, redo)) = Len(undo) + 1 + Len(redo) /\ Len(redo) > 0
        /\ Len(undo') = Len(undo) + 1 /\ Len(undo) \in Nat /\ Len(redo) \in Nat
    BY <1>1, <1>2, <2>1, LineWalks
  <2>4. Len(undo') + 1 = (Len(undo) + 1) + 1 /\ Len(undo) + 1 < Len(Line(undo, rules, redo))
    BY <2>3
  <2>5. History!Redo
    BY <2>1, <2>2, <2>3, <2>4 DEF History!Redo, Line
  <2>6. QED
    BY <2>5 DEF History!Next
<1>8. ASSUME NEW next, Loaded, Commit(next), next # NoProfile PROVE History!Next
  BY <1>3, <1>8 DEF History!Next
<1>9. ASSUME NEW next, Loaded, Commit(next) PROVE [History!Next]_(History!vars)
  <2>1. CASE next # NoProfile
    BY <1>8, <1>9, <2>1
  <2>2. CASE next = NoProfile
    <3>1. rules' = NoProfile /\ dirty' = TRUE
      BY <1>9, <2>2 DEF Commit
    <3>2. ~Good(rules', fresh')
      BY <3>1, StoreAssumption DEF Good
    <3>3. QED
      BY <1>1, <3>1, <3>2 DEF DocsInv
  <2>3. QED
    BY <2>1, <2>2
<1>10. ASSUME UNCHANGED <<rules, undo, redo>> PROVE [History!Next]_(History!vars)
  BY <1>10 DEF History!vars, Loaded
<1>11. CASE \/ MarkSaved \/ ClearSelection \/ OpenDetail(NoRow) \/ AskDelete \/ CancelDelete
            \/ UNCHANGED vars
  BY <1>10, <1>11 DEF MarkSaved, ClearSelection, OpenDetail, AskDelete, CancelDelete
<1>12. ASSUME NEW i \in Rows, ToggleSelection(i) \/ OpenDetail(i)
       PROVE  [History!Next]_(History!vars)
  BY <1>10, <1>12 DEF ToggleSelection, OpenDetail
<1>13. ASSUME NEW i \in Rows, ToggleRule(i) PROVE [History!Next]_(History!vars)
  BY <1>9, <1>13 DEF ToggleRule
<1>14. ASSUME NEW f \in Filters, Search(f) PROVE [History!Next]_(History!vars)
  BY <1>10, <1>14 DEF Search
<1>15. ASSUME NEW b \in BOOLEAN, SetEnabledMany(b) PROVE [History!Next]_(History!vars)
  BY <1>9, <1>15 DEF SetEnabledMany
<1>16. CASE DeleteKey \/ ConfirmDelete
  BY <1>9, <1>16 DEF DeleteKey, ConfirmDelete, DeleteRows
<1>17. CASE Duplicate
  BY <1>9, <1>17 DEF Duplicate
<1>18. CASE MoveToTop \/ MoveToBottom
  BY <1>9, <1>18 DEF MoveToTop, MoveToBottom, MoveTo
<1>19. ASSUME NEW i \in Rows, NEW j \in Rows, Drag(i, j) PROVE [History!Next]_(History!vars)
  BY <1>9, <1>19 DEF Drag, MoveTo
<1>20. CASE AddRule
  BY <1>9, <1>20 DEF AddRule
<1>21. QED
  BY <1>4, <1>5, <1>6, <1>7, <1>11, <1>12, <1>13, <1>14, <1>15, <1>16, <1>17, <1>18,
     <1>19, <1>20 DEF Next

(* The store implements a linear edit history, whatever MAX_HISTORY is: undo *)
(* and redo walk along the states there were since the profile was loaded,   *)
(* an edit replaces what lay ahead, and only an edit may forget the oldest.  *)
THEOREM StoreKeepsHistory == Spec => HistorySpec
BY InitHistory, HistoryStep, StoreInvariant, PTL DEF Spec, HistorySpec, History!Spec
=============================================================================
