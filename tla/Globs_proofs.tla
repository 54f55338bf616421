---------------------------- MODULE Globs_proofs -----------------------------
(***************************************************************************)
(* Lemmas about what a glob matches, for every pattern and every text, and *)
(* that the two definitions of it in Globs agree.                          *)
(***************************************************************************)
EXTENDS Globs, SequenceTheorems, FiniteSetTheorems, WellFoundedInduction, TLAPS

-----------------------------------------------------------------------------
(* How a match from a position continues, by the character there.          *)

LEMMA FromEnd ==
  ASSUME NEW S, NEW R, NEW q \in Seq(S), NEW u \in Seq(R), NEW j \in 1 .. (Len(u) + 1)
  PROVE  MatchesFrom(q, u, Len(q) + 1, j) <=> j = Len(u) + 1
<1> /\ Len(q) \in Nat /\ Len(u) \in Nat
  OBVIOUS
<1>1. MatchesFrom(q, u, Len(q) + 1, j) => j = Len(u) + 1
  BY DEF MatchesFrom
<1>2. ASSUME j = Len(u) + 1
      PROVE  MatchesFrom(q, u, Len(q) + 1, j)
  <2> DEFINE cut == [k \in 1 .. (Len(q) + 1) |-> Len(u) + 1]
  <2>1. cut \in Cuts(q, u)
    BY DEF Cuts
  <2>2. cut[Len(q) + 1] = j /\ Fits(q, u, Len(q) + 1, cut)
    BY <1>2 DEF Fits
  <2>3. QED
    BY <2>1, <2>2, <1>2 DEF MatchesFrom
<1>3. QED
  BY <1>1, <1>2

LEMMA FromPiece ==
  ASSUME NEW S, NEW R, NEW q \in Seq(S), NEW u \in Seq(R),
         NEW i \in 1 .. Len(q), NEW j \in 1 .. (Len(u) + 1), q[i] # Star
  PROVE  MatchesFrom(q, u, i, j) <=>
           j <= Len(u) /\ Accepts(q[i], u[j]) /\ MatchesFrom(q, u, i + 1, j + 1)
<1> /\ Len(q) \in Nat /\ Len(u) \in Nat
    /\ i \in Nat /\ i + 1 \in 1 .. (Len(q) + 1)
  OBVIOUS
<1>1. ASSUME MatchesFrom(q, u, i, j)
      PROVE  j <= Len(u) /\ Accepts(q[i], u[j]) /\ MatchesFrom(q, u, i + 1, j + 1)
  <2>1. PICK cut \in Cuts(q, u) :
          cut[i] = j /\ cut[Len(q) + 1] = Len(u) + 1 /\ Fits(q, u, i, cut)
    BY <1>1 DEF MatchesFrom
  <2>2. cut[i + 1] = j + 1 /\ Accepts(q[i], u[j])
    BY <2>1 DEF Fits
  <2>3. cut[i + 1] \in 1 .. (Len(u) + 1)
    BY <2>1 DEF Cuts
  <2>4. Fits(q, u, i + 1, cut)
    BY <2>1 DEF Fits
  <2>5. QED
    BY <2>1, <2>2, <2>3, <2>4 DEF MatchesFrom
<1>2. ASSUME j <= Len(u), Accepts(q[i], u[j]), MatchesFrom(q, u, i + 1, j + 1)
      PROVE  MatchesFrom(q, u, i, j)
  <2>1. PICK cut \in Cuts(q, u) :
          cut[i + 1] = j + 1 /\ cut[Len(q) + 1] = Len(u) + 1 /\ Fits(q, u, i + 1, cut)
    BY <1>2 DEF MatchesFrom
  <2> DEFINE new == [cut EXCEPT ![i] = j]
  <2>2. new \in Cuts(q, u)
    BY <2>1 DEF Cuts
  <2>3. /\ new[i] = j
        /\ \A k \in (i + 1) .. (Len(q) + 1) : new[k] = cut[k]
    BY <2>1 DEF Cuts
  <2>4. Fits(q, u, i, new)
    <3> SUFFICES ASSUME NEW k \in i .. Len(q)
                 PROVE  IF q[k] = Star THEN new[k] <= new[k + 1]
                        ELSE new[k + 1] = new[k] + 1 /\ Accepts(q[k], u[new[k]])
      BY DEF Fits
    <3>1. CASE k = i
      BY <3>1, <1>2, <2>1, <2>3
    <3>2. CASE k # i
      <4>1. k \in (i + 1) .. Len(q) /\ new[k] = cut[k] /\ new[k + 1] = cut[k + 1]
        BY <3>2, <2>3
      <4>2. QED
        BY <4>1, <2>1 DEF Fits
    <3>3. QED
      BY <3>1, <3>2
  <2>5. new[Len(q) + 1] = Len(u) + 1
    BY <2>1, <2>3
  <2> HIDE DEF new
  <2>6. QED
    BY <2>2, <2>3, <2>4, <2>5 DEF MatchesFrom
<1>3. QED
  BY <1>1, <1>2

LEMMA FromStar ==
  ASSUME NEW S, NEW R, NEW q \in Seq(S), NEW u \in Seq(R),
         NEW i \in 1 .. Len(q), NEW j \in 1 .. (Len(u) + 1), q[i] = Star
  PROVE  MatchesFrom(q, u, i, j) <=>
           \E k \in j .. (Len(u) + 1) : MatchesFrom(q, u, i + 1, k)
<1> /\ Len(q) \in Nat /\ Len(u) \in Nat
    /\ i \in Nat /\ i + 1 \in 1 .. (Len(q) + 1)
  OBVIOUS
<1>1. ASSUME MatchesFrom(q, u, i, j)
      PROVE  \E k \in j .. (Len(u) + 1) : MatchesFrom(q, u, i + 1, k)
  <2>1. PICK cut \in Cuts(q, u) :
          cut[i] = j /\ cut[Len(q) + 1] = Len(u) + 1 /\ Fits(q, u, i, cut)
    BY <1>1 DEF MatchesFrom
  <2>2. cut[i + 1] \in 1 .. (Len(u) + 1)
    BY <2>1 DEF Cuts
  <2>3. j <= cut[i + 1]
    BY <2>1 DEF Fits
  <2>4. Fits(q, u, i + 1, cut)
    BY <2>1 DEF Fits
  <2>5. MatchesFrom(q, u, i + 1, cut[i + 1])
    BY <2>1, <2>2, <2>4 DEF MatchesFrom
  <2>6. QED
    BY <2>2, <2>3, <2>5
<1>2. ASSUME NEW l \in j .. (Len(u) + 1), MatchesFrom(q, u, i + 1, l)
      PROVE  MatchesFrom(q, u, i, j)
  <2>1. PICK cut \in Cuts(q, u) :
          cut[i + 1] = l /\ cut[Len(q) + 1] = Len(u) + 1 /\ Fits(q, u, i + 1, cut)
    BY <1>2 DEF MatchesFrom
  <2> DEFINE new == [cut EXCEPT ![i] = j]
  <2>2. new \in Cuts(q, u)
    BY <2>1 DEF Cuts
  <2>3. /\ new[i] = j
        /\ \A k \in (i + 1) .. (Len(q) + 1) : new[k] = cut[k]
    BY <2>1 DEF Cuts
  <2>4. Fits(q, u, i, new)
    <3> SUFFICES ASSUME NEW k \in i .. Len(q)
                 PROVE  IF q[k] = Star THEN new[k] <= new[k + 1]
                        ELSE new[k + 1] = new[k] + 1 /\ Accepts(q[k], u[new[k]])
      BY DEF Fits
    <3>1. CASE k = i
      BY <3>1, <2>1, <2>3
    <3>2. CASE k # i
      <4>1. k \in (i + 1) .. Len(q) /\ new[k] = cut[k] /\ new[k + 1] = cut[k + 1]
        BY <3>2, <2>3
      <4>2. QED
        BY <4>1, <2>1 DEF Fits
    <3>3. QED
      BY <3>1, <3>2
  <2>5. new[Len(q) + 1] = Len(u) + 1
    BY <2>1, <2>3
  <2> HIDE DEF new
  <2>6. QED
    BY <2>2, <2>3, <2>4, <2>5 DEF MatchesFrom
<1>3. QED
  BY <1>1, <1>2

-----------------------------------------------------------------------------
(* Covering of globs. *)

(* A set of numbers has a least one: what stands for induction below.       *)
Smaller == {n \in Nat \X Nat : n[1] < n[2]}
LEMMA Least ==
  ASSUME NEW T \in SUBSET Nat, T # {}
  PROVE  \E m \in T : \A n \in T : m <= n
<1>1. IsWellFoundedOn(Smaller, Nat)
  <2>1. Smaller = OpToRel(<, Nat)
    BY DEF OpToRel, Smaller
  <2>2. QED
    BY <2>1, NatLessThanWellFounded
<1>2. PICK m \in T : \A n \in T : ~(<<n, m>> \in Smaller)
  BY <1>1, WFMin
<1>3. \A n \in T : ~(n < m)
  BY <1>2 DEF Smaller
<1>4. QED
  BY <1>3

(* f and l are the first and the last star of q.                            *)
FirstStar(q, f) == f \in 1 .. Len(q) /\ q[f] = Star /\ \A k \in 1 .. (f - 1) : q[k] # Star
FinalStar(q, l) == l \in 1 .. Len(q) /\ q[l] = Star /\ \A k \in (l + 1) .. Len(q) : q[k] # Star

LEMMA EndsOf ==
  ASSUME NEW S, NEW q \in Seq(S), NEW i \in 1 .. Len(q), q[i] = Star
  PROVE  \E f, l : /\ FirstStar(q, f) /\ FinalStar(q, l) /\ f <= l
                   /\ LiteralHead(q) = SubSeq(q, 1, f - 1)
                   /\ LiteralTail(q) = SubSeq(q, l + 1, Len(q))
<1> DEFINE I == {k \in 1 .. Len(q) : q[k] = Star}
           M == {Len(q) - k : k \in I}
<1>1. Len(q) \in Nat /\ I \in SUBSET Nat /\ I # {} /\ M \in SUBSET Nat /\ M # {}
  OBVIOUS
<1>2. \E f \in I : \A k \in I : f <= k
  BY <1>1, Least
<1>3. \E l \in I : \A k \in I : l >= k
  <2>1. PICK d \in M : \A e \in M : d <= e
    BY <1>1, Least
  <2>2. PICK l \in I : d = Len(q) - l
    BY <2>1
  <2>3. \A k \in I : Len(q) - l <= Len(q) - k
    BY <2>1, <2>2
  <2>4. ASSUME NEW k \in I PROVE l >= k
    <3>1. Len(q) - l <= Len(q) - k /\ k \in Nat /\ l \in Nat
      BY <1>1, <2>3
    <3>2. QED
      BY <1>1, <3>1
  <2>5. QED
    BY <2>4
<1> DEFINE f == Min(I)
           l == Max(I)
<1>4. f \in I /\ \A k \in I : f <= k
  BY <1>2 DEF Min
<1>5. l \in I /\ \A k \in I : l >= k
  BY <1>3 DEF Max
<1>6. SelectInSeq(q, LAMBDA c : c = Star) = f
  BY <1>1 DEF SelectInSeq
<1>7. SelectLastInSeq(q, LAMBDA c : c = Star) = l
  BY <1>1 DEF SelectLastInSeq
<1>8. LiteralHead(q) = SubSeq(q, 1, f - 1) /\ LiteralTail(q) = SubSeq(q, l + 1, Len(q))
  BY <1>6, <1>7 DEF LiteralHead, LiteralTail
<1> HIDE DEF f, l
<1>9. FirstStar(q, f) /\ FinalStar(q, l) /\ f <= l
  BY <1>1, <1>4, <1>5 DEF FirstStar, FinalStar
<1>10. QED
  BY <1>8, <1>9

(* What the two comparisons of glob_covers_glob say, character by character. *)
LEMMA HeadsAgree ==
  ASSUME NEW S, NEW a \in Seq(S), NEW b \in Seq(S),
         NEW f \in 1 .. Len(a), NEW g \in 1 .. Len(b),
         IsPrefix(SubSeq(a, 1, f - 1), SubSeq(b, 1, g - 1))
  PROVE  f <= g /\ \A k \in 1 .. (f - 1) : a[k] = b[k]
<1> DEFINE x == SubSeq(a, 1, f - 1)
           y == SubSeq(b, 1, g - 1)
<1>1. /\ Len(a) \in Nat /\ Len(b) \in Nat /\ f - 1 \in Nat /\ g - 1 \in Nat
      /\ f - 1 <= Len(a) /\ g - 1 <= Len(b)
  OBVIOUS
<1>2. /\ x \in Seq(S) /\ Len(x) = f - 1 /\ \A k \in 1 .. (f - 1) : x[k] = a[k]
      /\ y \in Seq(S) /\ Len(y) = g - 1 /\ \A k \in 1 .. (g - 1) : y[k] = b[k]
  BY <1>1
<1> HIDE DEF x, y
<1>3. Len(x) <= Len(y) /\ SubSeq(x, 1, Len(x)) = SubSeq(y, 1, Len(x))
  BY DEF IsPrefix, x, y
<1>4. \A k \in 1 .. (f - 1) : SubSeq(x, 1, f - 1)[k] = x[k] /\ SubSeq(y, 1, f - 1)[k] = y[k]
  BY <1>1, <1>2, <1>3
<1>5. QED
  BY <1>1, <1>2, <1>3, <1>4

LEMMA TailsAgree ==
  ASSUME NEW S, NEW a \in Seq(S), NEW b \in Seq(S),
         NEW l \in 1 .. Len(a), NEW m \in 1 .. Len(b),
         IsSuffix(SubSeq(a, l + 1, Len(a)), SubSeq(b, m + 1, Len(b)))
  PROVE  /\ Len(a) - l <= Len(b) - m
         /\ \A e \in 1 .. (Len(a) - l) : a[Len(a) + 1 - e] = b[Len(b) + 1 - e]
<1> DEFINE x == SubSeq(a, l + 1, Len(a))
           y == SubSeq(b, m + 1, Len(b))
           n == Len(a) - l
           o == Len(b) - m
           rx == Reverse(x)
           ry == Reverse(y)
<1>1. Len(a) \in Nat /\ Len(b) \in Nat /\ n \in Nat /\ o \in Nat
  OBVIOUS
<1>2. /\ x \in Seq(S) /\ Len(x) = n /\ \A k \in 1 .. n : x[k] = a[l + k]
      /\ y \in Seq(S) /\ Len(y) = o /\ \A k \in 1 .. o : y[k] = b[m + k]
  BY <1>1
<1> HIDE DEF x, y
<1>3. ASSUME NEW e \in 1 .. n PROVE x[n - e + 1] = a[Len(a) + 1 - e]
  <2>1. n - e + 1 \in 1 .. n /\ l + (n - e + 1) = Len(a) + 1 - e
    BY <1>1
  <2>2. x[n - e + 1] = a[l + (n - e + 1)]
    BY <1>2, <2>1
  <2>3. QED
    BY <2>1, <2>2
<1>4. ASSUME NEW e \in 1 .. o PROVE y[o - e + 1] = b[Len(b) + 1 - e]
  <2>1. o - e + 1 \in 1 .. o /\ m + (o - e + 1) = Len(b) + 1 - e
    BY <1>1
  <2>2. y[o - e + 1] = b[m + (o - e + 1)]
    BY <1>2, <2>1
  <2>3. QED
    BY <2>1, <2>2
<1> HIDE DEF n, o
<1>5. /\ rx \in Seq(S) /\ Len(rx) = n /\ \A e \in 1 .. n : rx[e] = x[n - e + 1]
  <2>1. rx = [e \in 1 .. n |-> x[(n - e) + 1]]
    BY <1>2 DEF Reverse
  <2>2. \A e \in 1 .. n : x[(n - e) + 1] \in S
    BY <1>1, <1>2
  <2>3. QED
    BY <1>1, <2>1, <2>2
<1>6. /\ ry \in Seq(S) /\ Len(ry) = o /\ \A e \in 1 .. o : ry[e] = y[o - e + 1]
  <2>1. ry = [e \in 1 .. o |-> y[(o - e) + 1]]
    BY <1>2 DEF Reverse
  <2>2. \A e \in 1 .. o : y[(o - e) + 1] \in S
    BY <1>1, <1>2
  <2>3. QED
    BY <1>1, <2>1, <2>2
<1> HIDE DEF rx, ry
<1>7. Len(rx) <= Len(ry) /\ SubSeq(rx, 1, Len(rx)) = SubSeq(ry, 1, Len(rx))
  BY DEF IsSuffix, IsPrefix, rx, ry, x, y
<1>8. \A e \in 1 .. n : SubSeq(rx, 1, n)[e] = rx[e] /\ SubSeq(ry, 1, n)[e] = ry[e]
  BY <1>1, <1>5, <1>6, <1>7
<1>9. \A e \in 1 .. n : rx[e] = ry[e] /\ e \in 1 .. o
  BY <1>1, <1>5, <1>6, <1>7, <1>8
<1>10. ASSUME NEW e \in 1 .. n PROVE a[Len(a) + 1 - e] = b[Len(b) + 1 - e]
  <2>1. rx[e] = ry[e] /\ e \in 1 .. o
    BY <1>9
  <2>2. rx[e] = a[Len(a) + 1 - e]
    BY <1>3, <1>5
  <2>3. ry[e] = b[Len(b) + 1 - e]
    BY <1>4, <1>6, <2>1
  <2>4. QED
    BY <2>1, <2>2, <2>3
<1>11. n <= o
  BY <1>5, <1>6, <1>7
<1>12. QED
  BY <1>10, <1>11 DEF n, o

(* What stands before f and after l in b are the ends of u.                 *)
EndsAgree(b, u, f, l) ==
  /\ (f - 1) + (Len(b) - l) <= Len(u)
  /\ \A k \in 1 .. (f - 1) : b[k] = u[k]
  /\ \A e \in 1 .. (Len(b) - l) : b[Len(b) + 1 - e] = u[Len(u) + 1 - e]

(* Where the literal ends of a glob lie in a text it matches.               *)
LEMMA EndsMatched ==
  ASSUME NEW S, NEW R, NEW b \in Seq(S), NEW u \in Seq(R), Query \notin ToSet(b), Matches(b, u),
         NEW f, NEW l, FirstStar(b, f), FinalStar(b, l), f <= l
  PROVE  EndsAgree(b, u, f, l)
<1> DEFINE n == Len(b)
           z == Len(u) + 1
<1>1. /\ n \in Nat /\ Len(u) \in Nat /\ z \in Nat /\ DOMAIN b = 1 .. n
      /\ f \in 1 .. n /\ l \in 1 .. n /\ f <= l
      /\ \A k \in 1 .. (f - 1) : b[k] # Star
      /\ \A k \in (l + 1) .. n : b[k] # Star
  BY DEF FirstStar, FinalStar
<1>2. PICK cut \in Cuts(b, u) : cut[1] = 1 /\ cut[n + 1] = z /\ Fits(b, u, 1, cut)
  BY DEF Matches, MatchesFrom
<1>3. \A k \in 1 .. (n + 1) : cut[k] \in Nat /\ cut[k] >= 1
  BY <1>1, <1>2 DEF Cuts
<1>4. /\ \A k \in 1 .. n : b[k] = Star => cut[k] <= cut[k + 1]
      /\ \A k \in 1 .. n : b[k] # Star => cut[k + 1] = cut[k] + 1 /\ b[k] = u[cut[k]]
  <2>1. \A k \in 1 .. n : b[k] # Query
    BY <1>1 DEF ToSet
  <2>2. QED
    BY <1>2, <2>1 DEF Fits, Accepts
<1>5. \A k \in 1 .. f : cut[k] = k
  <2> DEFINE W == {k \in 1 .. f : cut[k] # k}
  <2>1. W \in SUBSET Nat
    BY <1>1
  <2>2. SUFFICES ASSUME W # {} PROVE FALSE
    OBVIOUS
  <2>3. PICK k \in W : \A j \in W : k <= j
    BY <2>1, <2>2, Least
  <2>4. k \in 1 .. f /\ cut[k] # k /\ k # 1 /\ k \in Nat
    BY <1>1, <1>2, <2>3
  <2>5. k - 1 \in 1 .. (f - 1) /\ k - 1 \notin W
    BY <1>1, <2>3, <2>4
  <2>6. cut[k - 1] = k - 1
    BY <1>1, <2>5
  <2>7. cut[(k - 1) + 1] = cut[k - 1] + 1
    BY <1>1, <1>4, <2>5
  <2>8. QED
    BY <2>4, <2>6, <2>7
<1>6. \A d \in 0 .. (n - l) : cut[n + 1 - d] = z - d
  <2> DEFINE W == {d \in 0 .. (n - l) : cut[n + 1 - d] # z - d}
  <2>1. W \in SUBSET Nat
    BY <1>1
  <2>2. SUFFICES ASSUME W # {} PROVE FALSE
    OBVIOUS
  <2>3. PICK d \in W : \A j \in W : d <= j
    BY <2>1, <2>2, Least
  <2>4. d \in 0 .. (n - l) /\ cut[n + 1 - d] # z - d /\ d # 0 /\ d \in Nat
    BY <1>1, <1>2, <2>3
  <2>5. d - 1 \in 0 .. (n - l) /\ ~(d <= d - 1)
    BY <1>1, <2>4
  <2>6. cut[n + 1 - (d - 1)] = z - (d - 1)
    <3>1. d - 1 \notin W
      BY <2>3, <2>5
    <3>2. QED
      BY <2>5, <3>1
  <2>7. n + 1 - d \in (l + 1) .. n /\ n + 1 - d \in 1 .. n
        /\ (n + 1 - d) + 1 = n + 1 - (d - 1)
    BY <1>1, <2>4
  <2>8. cut[n + 1 - (d - 1)] = cut[n + 1 - d] + 1 /\ cut[n + 1 - d] \in Nat
    BY <1>1, <1>3, <1>4, <2>7
  <2>9. QED
    BY <1>1, <2>4, <2>6, <2>8
<1>7. \A k \in f .. (n + 1) : cut[f] <= cut[k]
  <2> DEFINE W == {k \in f .. (n + 1) : ~(cut[f] <= cut[k])}
  <2>1. W \in SUBSET Nat
    BY <1>1
  <2>2. SUFFICES ASSUME W # {} PROVE FALSE
    OBVIOUS
  <2>3. PICK k \in W : \A j \in W : k <= j
    BY <2>1, <2>2, Least
  <2>4. k \in f .. (n + 1) /\ ~(cut[f] <= cut[k]) /\ k # f /\ k \in Nat
    BY <1>1, <1>3, <2>3
  <2>5. k - 1 \in f .. n /\ k - 1 \in 1 .. n /\ k - 1 \notin W /\ (k - 1) + 1 = k
    BY <1>1, <2>3, <2>4
  <2>6. cut[f] <= cut[k - 1]
    BY <1>1, <2>5
  <2>7. cut[k - 1] <= cut[k]
    BY <1>3, <1>4, <2>5
  <2>8. cut[f] \in Nat /\ cut[k - 1] \in Nat /\ cut[k] \in Nat
    BY <1>1, <1>3, <2>4, <2>5
  <2>9. QED
    BY <2>4, <2>6, <2>7, <2>8
<1>8. (f - 1) + (n - l) <= Len(u)
  <2>1. l + 1 \in f .. (n + 1) /\ n - l \in 0 .. (n - l) /\ n + 1 - (n - l) = l + 1
    BY <1>1
  <2>2. cut[f] = f /\ cut[l + 1] = z - (n - l) /\ cut[f] <= cut[l + 1]
    <3>1. cut[n + 1 - (n - l)] = z - (n - l)
      BY <1>6, <2>1
    <3>2. cut[f] = f
      BY <1>1, <1>5
    <3>3. QED
      BY <1>7, <2>1, <3>1, <3>2
  <2>3. QED
    BY <1>1, <2>2
<1>9. \A k \in 1 .. (f - 1) : b[k] = u[k]
  BY <1>1, <1>4, <1>5
<1>10. ASSUME NEW e \in 1 .. (n - l) PROVE b[n + 1 - e] = u[z - e]
  <2>1. n + 1 - e \in (l + 1) .. n /\ n + 1 - e \in 1 .. n /\ e \in 0 .. (n - l)
    BY <1>1
  <2>2. cut[n + 1 - e] = z - e /\ b[n + 1 - e] # Star
    BY <1>1, <1>6, <2>1
  <2>3. QED
    BY <1>4, <2>1, <2>2
<1>11. QED
  BY <1>8, <1>9, <1>10 DEF EndsAgree

(* A glob with one star matches a text that begins and ends like it.        *)
LEMMA OneStarMatches ==
  ASSUME NEW S, NEW R, NEW a \in Seq(S), NEW u \in Seq(R),
         NEW f \in 1 .. Len(a), a[f] = Star, \A k \in 1 .. Len(a) : k # f => a[k] # Star,
         Len(a) - 1 <= Len(u),
         \A k \in 1 .. (f - 1) : a[k] = u[k],
         \A e \in 1 .. (Len(a) - f) : a[Len(a) + 1 - e] = u[Len(u) + 1 - e]
  PROVE  Matches(a, u)
<1> DEFINE n == Len(a)
           z == Len(u) + 1
           cut == [k \in 1 .. (n + 1) |-> IF k <= f THEN k ELSE z - (n + 1 - k)]
<1>1. n \in Nat /\ Len(u) \in Nat /\ z \in Nat /\ f \in Nat /\ f >= 1 /\ f <= n /\ n - 1 <= z - 1
  OBVIOUS
<1>2. cut \in Cuts(a, u)
  <2>1. ASSUME NEW k \in 1 .. (n + 1)
        PROVE  (IF k <= f THEN k ELSE z - (n + 1 - k)) \in 1 .. (Len(u) + 1)
    <3>1. CASE k <= f
      BY <1>1, <3>1
    <3>2. CASE ~(k <= f)
      BY <1>1, <3>2
    <3>3. QED
      BY <3>1, <3>2
  <2>2. QED
    BY <2>1 DEF Cuts
<1>3. cut[1] = 1 /\ cut[n + 1] = z
  BY <1>1
<1>4. ASSUME NEW k \in 1 .. n
      PROVE  IF a[k] = Star THEN cut[k] <= cut[k + 1]
             ELSE cut[k + 1] = cut[k] + 1 /\ Accepts(a[k], u[cut[k]])
  <2>1. CASE k < f
    BY <1>1, <2>1 DEF Accepts
  <2>2. CASE k = f
    BY <1>1, <2>2
  <2>3. CASE k > f
    <3>1. /\ n + 1 - k \in 1 .. (n - f) /\ n + 1 - (n + 1 - k) = k
          /\ cut[k] = z - (n + 1 - k) /\ cut[k + 1] = cut[k] + 1
      BY <1>1, <2>3
    <3>2. a[k] = u[cut[k]]
      <4>1. \A e \in 1 .. (n - f) : a[n + 1 - e] = u[z - e]
        OBVIOUS
      <4>2. a[n + 1 - (n + 1 - k)] = u[z - (n + 1 - k)]
        BY <3>1, <4>1
      <4>3. QED
        BY <3>1, <4>2
    <3>3. QED
      BY <1>1, <2>3, <3>1, <3>2 DEF Accepts
  <2>4. QED
    BY <1>1, <2>1, <2>2, <2>3
<1>5. Fits(a, u, 1, cut)
  BY <1>4 DEF Fits
<1> HIDE DEF cut
<1>6. QED
  BY <1>2, <1>3, <1>5 DEF Matches, MatchesFrom

(* A lone star matches every text. *)
LEMMA StarMatches ==
  ASSUME NEW R, NEW u \in Seq(R) PROVE Matches(<<Star>>, u)
<1> DEFINE a == <<Star>>
<1>1. /\ a \in Seq({Star}) /\ Len(a) = 1 /\ a[1] = Star /\ 1 \in 1 .. Len(a)
      /\ Len(u) \in Nat
  OBVIOUS
<1>2. /\ \A k \in 1 .. Len(a) : k # 1 => a[k] # Star
      /\ Len(a) - 1 <= Len(u)
      /\ \A k \in 1 .. (1 - 1) : a[k] = u[k]
      /\ \A e \in 1 .. (Len(a) - 1) : a[Len(a) + 1 - e] = u[Len(u) + 1 - e]
  BY <1>1
<1> HIDE DEF a
<1>3. Matches(a, u)
  BY <1>1, <1>2, OneStarMatches
<1>4. QED
  BY <1>3 DEF a

LEMMA CoverMatches ==
  ASSUME NEW S, NEW R, NEW a \in Seq(S), NEW b \in Seq(S), NEW u \in Seq(R),
         IsGlob(a), IsGlob(b), GlobCovers(a, b), Matches(b, u)
  PROVE  Matches(a, u)
<1>1. CASE a = b \/ a = <<Star>>
  BY <1>1, StarMatches
<1>2. CASE ~(a = b \/ a = <<Star>>)
  <2>1. /\ Query \notin ToSet(a) /\ Query \notin ToSet(b)
        /\ IsPrefix(LiteralHead(a), LiteralHead(b))
        /\ IsSuffix(LiteralTail(a), LiteralTail(b))
        /\ Cardinality(Stars(a)) = 1
    BY <1>2 DEF GlobCovers
  <2>2. /\ Len(a) \in Nat /\ DOMAIN a = 1 .. Len(a) /\ Len(b) \in Nat /\ DOMAIN b = 1 .. Len(b)
    OBVIOUS
  <2>3. \E i \in 1 .. Len(a) : a[i] = Star
    BY <2>1, <2>2 DEF IsGlob, ToSet
  <2>4. \E i \in 1 .. Len(b) : b[i] = Star
    BY <2>1, <2>2 DEF IsGlob, ToSet
  <2>5. PICK f, f2 : /\ FirstStar(a, f) /\ FinalStar(a, f2)
                     /\ LiteralHead(a) = SubSeq(a, 1, f - 1)
                     /\ LiteralTail(a) = SubSeq(a, f2 + 1, Len(a))
    BY <2>3, EndsOf
  <2>6. PICK g, l : /\ FirstStar(b, g) /\ FinalStar(b, l) /\ g <= l
                    /\ LiteralHead(b) = SubSeq(b, 1, g - 1)
                    /\ LiteralTail(b) = SubSeq(b, l + 1, Len(b))
    BY <2>4, EndsOf
  <2>7. f \in 1 .. Len(a) /\ a[f] = Star /\ f2 = f /\ \A k \in 1 .. Len(a) : k # f => a[k] # Star
    <3>1. f \in Stars(a) /\ f2 \in Stars(a)
      BY <2>2, <2>5 DEF FirstStar, FinalStar, Stars
    <3>2. IsFiniteSet(Stars(a))
      <4>1. IsFiniteSet(1 .. Len(a)) /\ Stars(a) \in SUBSET (1 .. Len(a))
        BY <2>2, FS_Interval DEF Stars
      <4>2. QED
        BY <4>1, FS_Subset
    <3>3. \E x : Stars(a) = {x}
      BY <2>1, <3>2, FS_Singleton
    <3>4. \A k \in 1 .. Len(a) : a[k] = Star => k = f
      BY <2>2, <3>1, <3>3 DEF Stars
    <3>5. QED
      BY <2>5, <3>1, <3>3, <3>4 DEF FirstStar
  <2>8. g \in 1 .. Len(b) /\ l \in 1 .. Len(b)
    BY <2>6 DEF FirstStar, FinalStar
  <2>9. f <= g /\ \A k \in 1 .. (f - 1) : a[k] = b[k]
    <3>1. IsPrefix(SubSeq(a, 1, f - 1), SubSeq(b, 1, g - 1))
      BY <2>1, <2>5, <2>6
    <3>2. QED
      BY <2>7, <2>8, <3>1, HeadsAgree
  <2>10. /\ Len(a) - f <= Len(b) - l
         /\ \A e \in 1 .. (Len(a) - f) : a[Len(a) + 1 - e] = b[Len(b) + 1 - e]
    <3>1. IsSuffix(SubSeq(a, f + 1, Len(a)), SubSeq(b, l + 1, Len(b)))
      BY <2>1, <2>5, <2>6, <2>7
    <3>2. QED
      BY <2>7, <2>8, <3>1, TailsAgree
  <2>11. /\ (g - 1) + (Len(b) - l) <= Len(u)
         /\ \A k \in 1 .. (g - 1) : b[k] = u[k]
         /\ \A e \in 1 .. (Len(b) - l) : b[Len(b) + 1 - e] = u[Len(u) + 1 - e]
    <3>1. EndsAgree(b, u, g, l)
      BY <2>1, <2>6, EndsMatched
    <3>2. QED
      BY <3>1 DEF EndsAgree
  <2>12. Len(u) \in Nat
    OBVIOUS
  <2>13. Len(a) - 1 <= Len(u)
    BY <2>2, <2>7, <2>8, <2>9, <2>10, <2>11, <2>12
  <2>14. \A k \in 1 .. (f - 1) : a[k] = u[k]
    BY <2>2, <2>7, <2>8, <2>9, <2>11
  <2>15. \A e \in 1 .. (Len(a) - f) : a[Len(a) + 1 - e] = u[Len(u) + 1 - e]
    BY <2>2, <2>7, <2>8, <2>10, <2>11
  <2>16. QED
    BY <2>7, <2>13, <2>14, <2>15, OneStarMatches
<1>3. QED
  BY <1>1, <1>2

-----------------------------------------------------------------------------
(* A match, one piece of the pattern at a time.  q is a pattern and u a    *)
(* text.                                                                   *)

(* Where piece i of q may begin in u, if the next piece may begin at rest. *)
Begins(q, u, i, rest) ==
  IF q[i] = Star THEN {j \in 1 .. (Len(u) + 1) : \E k \in rest : j <= k}
  ELSE {j \in 1 .. Len(u) : Accepts(q[i], u[j]) /\ j + 1 \in rest}

(* f gives for each piece the positions at which it may begin. *)
Unfolding(q, u, f) ==
  f = [i \in 1 .. (Len(q) + 1) |->
         IF i > Len(q) THEN {Len(u) + 1} ELSE Begins(q, u, i, f[i + 1])]

(* The definition with cuts gives positions like this, too. *)
CutBegins(q, u) ==
  [i \in 1 .. (Len(q) + 1) |-> {j \in 1 .. (Len(u) + 1) : MatchesFrom(q, u, i, j)}]

LEMMA CutsUnfold ==
  ASSUME NEW S, NEW R, NEW q \in Seq(S), NEW u \in Seq(R)
  PROVE  Unfolding(q, u, CutBegins(q, u))
<1> DEFINE f == CutBegins(q, u)
           ends == 1 .. (Len(u) + 1)
<1> /\ Len(q) \in Nat /\ Len(u) \in Nat
  OBVIOUS
<1>1. ASSUME NEW i \in 1 .. (Len(q) + 1)
      PROVE  f[i] = {j \in ends : MatchesFrom(q, u, i, j)}
  BY DEF CutBegins
<1> HIDE DEF f
<1>2. ASSUME NEW i \in 1 .. (Len(q) + 1), i > Len(q)
      PROVE  f[i] = {Len(u) + 1}
  <2>1. i = Len(q) + 1
    BY <1>2
  <2>2. \A j \in ends : MatchesFrom(q, u, i, j) <=> j = Len(u) + 1
    BY <2>1, FromEnd
  <2>3. QED
    BY <1>1, <2>2
<1>3. ASSUME NEW i \in 1 .. (Len(q) + 1), ~ (i > Len(q))
      PROVE  f[i] = Begins(q, u, i, f[i + 1])
  <2>1. i \in 1 .. Len(q) /\ i + 1 \in 1 .. (Len(q) + 1)
    BY <1>3
  <2>2. f[i + 1] = {j \in ends : MatchesFrom(q, u, i + 1, j)}
    BY <1>1, <2>1
  <2>3. CASE q[i] = Star
    <3>1. \A j \in ends : MatchesFrom(q, u, i, j) <=>
                            \E k \in j .. (Len(u) + 1) : MatchesFrom(q, u, i + 1, k)
      BY <2>1, <2>3, FromStar
    <3>2. \A j \in ends : MatchesFrom(q, u, i, j) <=> \E k \in f[i + 1] : j <= k
      BY <3>1, <2>2
    <3>3. QED
      BY <1>1, <2>3, <3>2 DEF Begins
  <2>4. CASE q[i] # Star
    <3>1. \A j \in ends :
            MatchesFrom(q, u, i, j) <=>
              j <= Len(u) /\ Accepts(q[i], u[j]) /\ MatchesFrom(q, u, i + 1, j + 1)
      BY <2>1, <2>4, FromPiece
    <3>2. \A j \in ends : j <= Len(u) => j + 1 \in ends
      OBVIOUS
    <3>3. \A j \in ends :
            MatchesFrom(q, u, i, j) <=>
              j \in 1 .. Len(u) /\ Accepts(q[i], u[j]) /\ j + 1 \in f[i + 1]
      BY <3>1, <3>2, <2>2
    <3>4. 1 .. Len(u) \subseteq ends
      OBVIOUS
    <3>5. QED
      BY <1>1, <2>4, <3>3, <3>4 DEF Begins
  <2>5. QED
    BY <2>3, <2>4
<1>4. f = [i \in 1 .. (Len(q) + 1) |-> f[i]]
  BY DEF f, CutBegins
<1> DEFINE step(i) == IF i > Len(q) THEN {Len(u) + 1} ELSE Begins(q, u, i, f[i + 1])
<1>5. \A i \in 1 .. (Len(q) + 1) : f[i] = step(i)
  BY <1>2, <1>3
<1> HIDE DEF step
<1>6. f = [i \in 1 .. (Len(q) + 1) |-> step(i)]
  BY <1>4, <1>5
<1>7. QED
  BY <1>6 DEF Unfolding, step, f

(* And nothing else does: where two functions that do differ, they differ  *)
(* at the next piece, but there is a last one.                             *)
LEMMA OneUnfolding ==
  ASSUME NEW S, NEW R, NEW q \in Seq(S), NEW u \in Seq(R),
         NEW f, NEW g, Unfolding(q, u, f), Unfolding(q, u, g),
         NEW i \in 1 .. (Len(q) + 1)
  PROVE  f[i] = g[i]
<1> Len(q) \in Nat
  OBVIOUS
<1> DEFINE apart == {n \in 0 .. Len(q) : f[Len(q) + 1 - n] # g[Len(q) + 1 - n]}
<1>1. ASSUME NEW h, Unfolding(q, u, h), NEW k \in 1 .. (Len(q) + 1)
      PROVE  h[k] = IF k > Len(q) THEN {Len(u) + 1} ELSE Begins(q, u, k, h[k + 1])
  BY <1>1 DEF Unfolding
<1>2. SUFFICES ASSUME f[i] # g[i] PROVE FALSE
  OBVIOUS
<1>3. apart \subseteq Nat /\ apart # {}
  <2>1. Len(q) + 1 - i \in 0 .. Len(q) /\ Len(q) + 1 - (Len(q) + 1 - i) = i
    OBVIOUS
  <2>2. Len(q) + 1 - i \in apart
    BY <1>2, <2>1
  <2>3. apart \subseteq Nat
    <3>1. 0 .. Len(q) \subseteq Nat
      OBVIOUS
    <3>2. apart \subseteq 0 .. Len(q)
      OBVIOUS
    <3> HIDE DEF apart
    <3>3. QED
      BY <3>1, <3>2
  <2>4. QED
    BY <2>2, <2>3
<1>4. PICK m \in apart : \A n \in apart : m <= n
  BY <1>3, Least
<1> DEFINE k == Len(q) + 1 - m
<1>5. m \in 0 .. Len(q) /\ k \in 1 .. (Len(q) + 1) /\ f[k] # g[k]
  BY <1>4
<1>6. k \in 1 .. Len(q) /\ f[k + 1] # g[k + 1]
  BY <1>1, <1>5
<1>7. m - 1 \in 0 .. Len(q) /\ Len(q) + 1 - (m - 1) = k + 1
  BY <1>5, <1>6
<1>8. m - 1 \in apart
  BY <1>6, <1>7
<1>9. QED
  BY <1>4, <1>5, <1>8

(* For every pattern and text, the definition that reads the pattern piece  *)
(* by piece, with which Matcher and Exposure decide what an entry of a rule *)
(* covers, says what Matches says, the meaning for which the loop of        *)
(* glob_match_inner is proved to answer.                                    *)
THEOREM GlobMatchesMeansMatches ==
  ASSUME NEW S, NEW R, NEW q \in Seq(S), NEW u \in Seq(R)
  PROVE  GlobMatches(q, u) <=> Matches(q, u)
<1> DEFINE from == CHOOSE f : Unfolding(q, u, f)
<1> /\ Len(q) \in Nat /\ Len(u) \in Nat
  OBVIOUS
<1>1. Unfolding(q, u, CutBegins(q, u))
  BY CutsUnfold
<1>2. Unfolding(q, u, from)
  BY <1>1
<1>3. GlobMatches(q, u) <=> 1 \in from[1]
  BY DEF GlobMatches, Unfolding, Begins
<1> HIDE DEF from
<1>4. 1 \in 1 .. (Len(q) + 1) /\ 1 \in 1 .. (Len(u) + 1)
  OBVIOUS
<1>5. from[1] = CutBegins(q, u)[1]
  BY <1>1, <1>2, <1>4, OneUnfolding
<1>6. 1 \in CutBegins(q, u)[1] <=> MatchesFrom(q, u, 1, 1)
  BY <1>4 DEF CutBegins
<1>7. QED
  BY <1>3, <1>5, <1>6 DEF Matches
=============================================================================
