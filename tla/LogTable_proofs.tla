--------------------------- MODULE LogTable_proofs ---------------------------
(***************************************************************************)
(* Theorems about LogTable, for any logs, filters, options and page size:  *)
(* its variables keep their types, what the events table shows are the     *)
(* newest rows of the open log that pass the filter (RowsAgree), a legible *)
(* log comes back from its lines as it was logged (LinesReadBack), and the *)
(* targets suggested for a process are exact and no wider than they have   *)
(* to be (SuggestionsExact).                                               *)
(***************************************************************************)
EXTENDS LogTable, Globs_proofs, SequenceTheorems, FiniteSetTheorems, FunctionTheorems, TLAPS

-----------------------------------------------------------------------------
(* Texts: their tokens, and what the cuts of the parser find in them.  The   *)
(* provers do not know of a string literal that it is in STRING.             *)

Token ==
  STRING \cup Marks \cup
    {":", "DNS", "ttl=", "9", "direct", "connection", "blocked", "proxy", "main", "SOCKS5", "close"}
Words == Seq(Token)

LEMMA Singleton == ASSUME NEW S, NEW c \in S
                   PROVE  <<c>> \in Seq(S) /\ ToSet(<<c>>) = {c} /\ Len(<<c>>) = 1 /\ <<c>>[1] = c
<1>1. <<c>> \in Seq(S) /\ Len(<<c>>) = 1 /\ <<c>>[1] = c /\ DOMAIN <<c>> = {1}
  OBVIOUS
<1>2. ToSet(<<c>>) = {c}
  BY <1>1 DEF ToSet
<1>3. QED
  BY <1>1, <1>2

LEMMA OneWord == ASSUME NEW c \in Token
                 PROVE  <<c>> \in Words /\ ToSet(<<c>>) = {c} /\ Len(<<c>>) = 1 /\ <<c>>[1] = c
BY Singleton DEF Words

LEMMA WordsAre ==
  /\ <<>> \in Words /\ ToSet(<<>>) = {} /\ Len(<<>>) = 0
  /\ \A s \in Words : /\ Len(s) \in Nat /\ DOMAIN s = 1 .. Len(s) /\ (Len(s) = 0 => s = <<>>)
                      /\ \A i \in 1 .. Len(s) : s[i] \in Token /\ s[i] \in ToSet(s)
<1>1. <<>> \in Words /\ ToSet(<<>>) = {} /\ Len(<<>>) = 0
  BY EmptySeq DEF Words, ToSet
<1>2. ASSUME NEW s \in Words
      PROVE  /\ Len(s) \in Nat /\ DOMAIN s = 1 .. Len(s) /\ (Len(s) = 0 => s = <<>>)
             /\ \A i \in 1 .. Len(s) : s[i] \in Token /\ s[i] \in ToSet(s)
  <2>1. s \in Seq(Token)
    BY DEF Words
  <2>2. Len(s) \in Nat /\ DOMAIN s = 1 .. Len(s) /\ (Len(s) = 0 => s = <<>>)
    BY <2>1, LenProperties, EmptySeq
  <2>3. \A i \in 1 .. Len(s) : s[i] \in Token
    BY <2>1, ElementOfSeq
  <2>4. QED
    BY <2>2, <2>3 DEF ToSet
<1>3. QED
  BY <1>1, <1>2

IsJoin(s, a, b) == s = a \o b

LEMMA JoinIs ==
  ASSUME NEW a \in Words, NEW b \in Words, NEW s, IsJoin(s, a, b),
         NEW m \in Nat, m = Len(a), NEW n \in Nat, n = Len(b)
  PROVE  /\ s \in Words /\ Len(s) = m + n /\ DOMAIN s = 1 .. m + n
         /\ \A i \in 1 .. m : s[i] = a[i]
         /\ \A i \in 1 .. n : s[m + i] = b[i]
         /\ ToSet(s) = ToSet(a) \cup ToSet(b)
<1>1. /\ s \in Words /\ Len(s) = Len(a) + Len(b)
      /\ \A i \in 1 .. Len(a) + Len(b) : s[i] = IF i <= Len(a) THEN a[i] ELSE b[i - Len(a)]
  BY ConcatProperties DEF Words, IsJoin
<1>2. \A i \in 1 .. m : s[i] = a[i]
  BY <1>1
<1>3. ASSUME NEW i \in 1 .. n PROVE s[m + i] = b[i]
  <2>1. m + i \in 1 .. m + n /\ ~ (m + i <= m) /\ (m + i) - m = i
    OBVIOUS
  <2>2. QED
    BY <1>1, <2>1
<1>4. DOMAIN s = 1 .. m + n /\ DOMAIN a = 1 .. m /\ DOMAIN b = 1 .. n
  BY <1>1, WordsAre
<1>5. ASSUME NEW i \in 1 .. m + n PROVE s[i] \in ToSet(a) \cup ToSet(b)
  <2>1. CASE i <= m
    BY <2>1, <1>2, <1>4 DEF ToSet
  <2>2. CASE ~ (i <= m)
    <3>1. i - m \in 1 .. n /\ m + (i - m) = i
      BY <2>2
    <3>2. s[i] = b[i - m]
      BY <3>1, <1>3
    <3>3. QED
      BY <3>1, <3>2, <1>4 DEF ToSet
  <2>3. QED
    BY <2>1, <2>2
<1>6. ASSUME NEW i \in 1 .. m PROVE a[i] \in ToSet(s)
  BY <1>2, <1>4 DEF ToSet
<1>7. ASSUME NEW i \in 1 .. n PROVE b[i] \in ToSet(s)
  <2>1. m + i \in DOMAIN s
    BY <1>4
  <2>2. QED
    BY <2>1, <1>3 DEF ToSet
<1>8. ToSet(s) = ToSet(a) \cup ToSet(b)
  BY <1>4, <1>5, <1>6, <1>7 DEF ToSet
<1>9. QED
  BY <1>1, <1>2, <1>3, <1>4, <1>8

LEMMA JoinPlaces ==
  ASSUME NEW a \in Words, NEW b \in Words, NEW s, IsJoin(s, a, b)
  PROVE  /\ s \in Words /\ Len(s) = Len(a) + Len(b)
         /\ \A i \in 1 .. Len(a) : s[i] = a[i]
         /\ \A i \in 1 .. Len(b) : s[Len(a) + i] = b[i]
<1>1. Len(a) \in Nat /\ Len(b) \in Nat
  BY WordsAre
<1>2. QED
  BY <1>1, JoinIs

LEMMA JoinOne ==
  ASSUME NEW a \in Words, NEW u \in Words, Len(u) = 1, NEW s, IsJoin(s, a, u)
  PROVE  /\ s \in Words /\ Len(s) = Len(a) + 1 /\ s[Len(a) + 1] = u[1]
         /\ \A i \in 1 .. Len(a) : s[i] = a[i]
<1>1. Len(a) \in Nat
  BY WordsAre
<1>2. /\ s \in Words /\ Len(s) = Len(a) + Len(u)
      /\ \A i \in 1 .. Len(a) : s[i] = a[i]
      /\ \A i \in 1 .. Len(u) : s[Len(a) + i] = u[i]
  BY ZenonT(40), JoinPlaces
<1>3. 1 \in 1 .. Len(u)
  OBVIOUS
<1>4. s[Len(a) + 1] = u[1]
  BY <1>2, <1>3
<1>5. QED
  BY <1>1, <1>2, <1>4

LEMMA Join ==
  ASSUME NEW a \in Words, NEW b \in Words
  PROVE  a \o b \in Words /\ ToSet(a \o b) = ToSet(a) \cup ToSet(b)
<1> DEFINE s == a \o b
<1>1. IsJoin(s, a, b)
  BY DEF IsJoin
<1> HIDE DEF s
<1>2. Len(a) \in Nat /\ Len(b) \in Nat
  BY WordsAre
<1>3. s \in Words /\ ToSet(s) = ToSet(a) \cup ToSet(b)
  BY <1>1, <1>2, JoinIs
<1>4. QED
  BY <1>3 DEF s

LEMMA Grouped == ASSUME NEW a \in Words, NEW b \in Words, NEW c \in Words
                 PROVE  (a \o b) \o c = a \o (b \o c)
BY ConcatAssociative DEF Words

LEMMA Joined == ASSUME NEW a \in Words, NEW b \in Words, NEW c \in Words
                PROVE  (a \o b) \o c = a \o (b \o c) /\ a \o <<>> = a /\ <<>> \o a = a
BY ConcatAssociative, ConcatEmptySeq DEF Words

(* The places of the tokens of a \o <<t>> \o b.                              *)
Between(s, a, t, b) == s = a \o <<t>> \o b

LEMMA Places ==
  ASSUME NEW a \in Words, NEW t \in Token, NEW b \in Words, NEW s, Between(s, a, t, b),
         NEW m \in Nat, m = Len(a), NEW n \in Nat, n = Len(b)
  PROVE  /\ s \in Words /\ Len(s) = m + 1 + n /\ s[m + 1] = t
         /\ \A i \in 1 .. m : s[i] = a[i] /\ s[i] \in ToSet(a)
         /\ \A i \in 1 .. n : s[m + 1 + i] = b[i] /\ s[m + 1 + i] \in ToSet(b)
         /\ SubSeq(s, 1, m) = a /\ SubSeq(s, m + 2, Len(s)) = b
<1> DEFINE unit == <<t>>
           at == a \o unit
<1>2. unit \in Words /\ Len(unit) = 1 /\ unit[1] = t
  BY OneWord
<1> HIDE DEF unit
<1>1. IsJoin(at, a, unit) /\ IsJoin(s, at, b)
  BY DEF IsJoin, Between, unit
<1> HIDE DEF at
<1>3. at \in Words /\ Len(at) = m + 1 /\ at[m + 1] = t /\ \A i \in 1 .. m : at[i] = a[i]
  BY <1>1, <1>2, JoinOne
<1>4. m + 1 \in Nat /\ m + 1 \in 1 .. m + 1
  OBVIOUS
<1>5. /\ s \in Words /\ Len(s) = m + 1 + n
      /\ \A i \in 1 .. m + 1 : s[i] = at[i]
      /\ \A i \in 1 .. n : s[m + 1 + i] = b[i]
  BY <1>1, <1>3, <1>4, JoinIs
<1>6. \A i \in 1 .. m : s[i] = a[i] /\ a[i] \in ToSet(a)
  BY <1>3, <1>5, WordsAre
<1>7. \A i \in 1 .. n : s[m + 1 + i] = b[i] /\ b[i] \in ToSet(b)
  BY <1>5, WordsAre
<1>8. SubSeq(s, 1, m) = a
  <2>1. \A i \in 1 .. m : s[i] \in Token
    BY <1>6, WordsAre
  <2>2. SubSeq(s, 1, m) \in Seq(Token) /\ Len(SubSeq(s, 1, m)) = m
        /\ \A i \in 1 .. m - 1 + 1 : SubSeq(s, 1, m)[i] = s[1 + i - 1]
    BY <2>1, SubSeqProperties
  <2>3. \A i \in 1 .. m : SubSeq(s, 1, m)[i] = a[i]
    BY <2>2, <1>6
  <2>4. QED
    BY <2>2, <2>3, SeqEqual DEF Words
<1>9. SubSeq(s, m + 2, m + 1 + n) = b
  <2> DEFINE r == SubSeq(s, m + 2, m + 1 + n)
  <2>1. ASSUME NEW i \in m + 2 .. m + 1 + n PROVE s[i] \in Token
    <3>1. i \in 1 .. Len(s)
      BY <1>5
    <3>2. QED
      BY <3>1, <1>5, WordsAre
  <2>2. /\ r \in Seq(Token) /\ Len(r) = n
        /\ \A i \in 1 .. n : r[i] = s[m + 2 + i - 1]
    BY <2>1, SubSeqProperties
  <2> HIDE DEF r
  <2>3. \A i \in 1 .. n : r[i] = b[i]
    <3>1. \A i \in 1 .. n : m + 2 + i - 1 = m + 1 + i
      OBVIOUS
    <3>2. QED
      BY <2>2, <1>7, <3>1
  <2>4. r = b
    BY <2>2, <2>3, SeqEqual DEF Words
  <2>5. QED
    BY <2>4 DEF r
<1>10. QED
  BY <1>3, <1>4, <1>5, <1>6, <1>7, <1>8, <1>9

LEMMA PlacesIn ==
  ASSUME NEW a \in Words, NEW t \in Token, NEW b \in Words, NEW s, Between(s, a, t, b)
  PROVE  /\ s \in Words /\ Len(s) = Len(a) + 1 + Len(b) /\ s[Len(a) + 1] = t
         /\ \A i \in 1 .. Len(a) : s[i] = a[i] /\ s[i] \in ToSet(a)
         /\ \A i \in 1 .. Len(b) : s[Len(a) + 1 + i] = b[i] /\ s[Len(a) + 1 + i] \in ToSet(b)
         /\ SubSeq(s, 1, Len(a)) = a /\ SubSeq(s, Len(a) + 2, Len(s)) = b
<1>1. Len(a) \in Nat /\ Len(b) \in Nat
  BY WordsAre
<1>2. QED
  BY <1>1, Places

LEMMA Cut ==
  ASSUME NEW a \in Words, NEW t \in Token, NEW b \in Words, NEW s, Between(s, a, t, b)
  PROVE  /\ t \notin ToSet(a) => Split(s, t) = {<<a, b>>}
         /\ t \notin ToSet(b) => SplitLast(s, t) = {<<a, b>>}
         /\ Has(s, t)
<1>1. PICK m \in Nat, n \in Nat : m = Len(a) /\ n = Len(b)
  BY WordsAre
<1>2. /\ s \in Words /\ Len(s) = m + 1 + n /\ s[m + 1] = t
      /\ \A i \in 1 .. m : s[i] \in ToSet(a)
      /\ \A i \in 1 .. n : s[m + 1 + i] \in ToSet(b)
      /\ SubSeq(s, 1, m) = a /\ SubSeq(s, m + 2, Len(s)) = b
  <2>1. /\ s \in Words /\ Len(s) = Len(a) + 1 + Len(b) /\ s[Len(a) + 1] = t
        /\ \A i \in 1 .. Len(a) : s[i] \in ToSet(a)
        /\ \A i \in 1 .. Len(b) : s[Len(a) + 1 + i] \in ToSet(b)
        /\ SubSeq(s, 1, Len(a)) = a /\ SubSeq(s, Len(a) + 2, Len(s)) = b
    BY PlacesIn
  <2>2. QED
    BY <1>1, <2>1
<1>8. Len(s) \in Nat /\ DOMAIN s = 1 .. Len(s)
  BY <1>2, WordsAre
<1> DEFINE I == {i \in 1 .. Len(s) : s[i] = t}
<1>3. m + 1 \in I /\ \A i \in I : i \in Nat /\ i <= m + 1 + n
  BY <1>2
<1>4. Around(s, m + 1) = {<<a, b>>}
  <2>1. m + 1 # 0 /\ m + 1 - 1 = m /\ m + 1 + 1 = m + 2
    OBVIOUS
  <2>2. Around(s, m + 1) = {<<SubSeq(s, 1, m), SubSeq(s, m + 2, Len(s))>>}
    BY <2>1 DEF Around
  <2>3. QED
    BY <1>2, <2>2
<1>5. ASSUME t \notin ToSet(a) PROVE Split(s, t) = {<<a, b>>}
  <2>1. ASSUME NEW i \in I PROVE m + 1 <= i
    BY <1>2, <1>5
  <2>2. Min(I) = m + 1
    BY <2>1, <1>3 DEF Min
  <2>3. SelectInSeq(s, LAMBDA c : c = t) = m + 1
    BY <2>2, <1>3 DEF SelectInSeq
  <2>4. QED
    BY <1>4, <2>3 DEF Split
<1>6. ASSUME t \notin ToSet(b) PROVE SplitLast(s, t) = {<<a, b>>}
  <2>1. ASSUME NEW i \in I PROVE m + 1 >= i
    <3>1. SUFFICES ASSUME ~ (m + 1 >= i) PROVE FALSE
      OBVIOUS
    <3>2. i - (m + 1) \in 1 .. n /\ m + 1 + (i - (m + 1)) = i
      BY <1>3, <3>1
    <3>3. s[i] \in ToSet(b)
      BY <1>2, <3>2
    <3>4. QED
      BY <3>3, <1>6
  <2>2. Max(I) = m + 1
    BY <2>1, <1>3 DEF Max
  <2>3. SelectLastInSeq(s, LAMBDA c : c = t) = m + 1
    BY <2>2, <1>3 DEF SelectLastInSeq
  <2>4. QED
    BY <1>4, <2>3 DEF SplitLast
<1>7. Has(s, t)
  BY <1>2, <1>3, <1>8 DEF Has, ToSet
<1>9. QED
  BY <1>5, <1>6, <1>7

LEMMA CutFirst ==
  ASSUME NEW a \in Words, NEW t \in Token, NEW b \in Words, NEW s, Between(s, a, t, b), t \notin ToSet(a)
  PROVE  Split(s, t) = {<<a, b>>}
BY Cut

LEMMA Uncut ==
  ASSUME NEW s \in Words, NEW t, t \notin ToSet(s)
  PROVE  Split(s, t) = {} /\ SplitLast(s, t) = {} /\ ~ Has(s, t)
<1>1. {i \in 1 .. Len(s) : s[i] = t} = {}
  BY WordsAre
<1>2. SelectInSeq(s, LAMBDA c : c = t) = 0
  BY <1>1 DEF SelectInSeq
<1>3. SelectLastInSeq(s, LAMBDA c : c = t) = 0
  BY <1>1 DEF SelectLastInSeq
<1>4. QED
  BY <1>2, <1>3 DEF Split, SplitLast, Around, Has

(* extract_kv finds what was written after a key.                            *)
LEMMA First ==
  ASSUME NEW a \in Words, NEW t \in Token, NEW b \in Words, NEW s, Between(s, a, t, b), t \notin ToSet(a)
  PROVE  SelectInSeq(s, LAMBDA c : c = t) = Len(a) + 1
<1>1. /\ s \in Words /\ Len(s) = Len(a) + 1 + Len(b) /\ s[Len(a) + 1] = t
      /\ \A i \in 1 .. Len(a) : s[i] \in ToSet(a)
  BY PlacesIn
<1>2. Len(a) \in Nat /\ Len(b) \in Nat
  BY WordsAre
<1> DEFINE I == {i \in 1 .. Len(s) : s[i] = t}
<1>3. Len(a) + 1 \in I /\ \A i \in I : i \in Nat
  BY <1>1, <1>2
<1>4. ASSUME NEW i \in I PROVE Len(a) + 1 <= i
  BY <1>1, <1>2
<1>5. Min(I) = Len(a) + 1
  BY <1>2, <1>3, <1>4 DEF Min
<1>6. QED
  BY <1>5, <1>3 DEF SelectInSeq

Comma(c) == c = ","
EndsAt(z, c) == Len(z) = 0 \/ z[1] = c

LEMMA ValueIs ==
  ASSUME NEW a \in Words, NEW key \in Token, NEW b \in Words, NEW s, Between(s, a, key, b),
         NEW v \in Words, NEW z \in Words, IsJoin(b, v, z),
         key \notin ToSet(a), NEW comma, Comma(comma), comma \notin ToSet(v), EndsAt(z, comma)
  PROVE  Value(s, key) = {v}
<1> DEFINE k == Len(a) + 1
           ends == {i \in k + 1 .. Len(s) : s[i] = comma}
           end == IF ends = {} THEN Len(s) + 1 ELSE Min(ends)
<1>1. Len(a) \in Nat /\ Len(v) \in Nat /\ Len(z) \in Nat /\ k \in Nat /\ k # 0
  BY WordsAre
<1>2. SelectInSeq(s, LAMBDA c : c = key) = k
  BY First
<1>3. Value(s, key) = {SubSeq(s, k + 1, end - 1)}
  <2> HIDE DEF k
  <2>1. QED
    BY <1>1, <1>2 DEF Value, Comma
<1>4. /\ Len(b) = Len(v) + Len(z)
      /\ \A i \in 1 .. Len(v) : b[i] = v[i]
      /\ \A i \in 1 .. Len(z) : b[Len(v) + i] = z[i]
  BY JoinPlaces
<1>5. /\ s \in Words /\ Len(s) = k + Len(b)
      /\ \A i \in 1 .. Len(b) : s[k + i] = b[i]
  BY PlacesIn
<1> HIDE DEF k
<1>6. Len(s) = k + Len(v) + Len(z) /\ Len(s) \in Nat
  BY <1>1, <1>4, <1>5
<1>7. \A i \in 1 .. Len(v) : s[k + i] = v[i] /\ s[k + i] # comma
  <2>1. ASSUME NEW i \in 1 .. Len(v) PROVE s[k + i] = v[i] /\ v[i] \in ToSet(v)
    <3>1. i \in 1 .. Len(b)
      BY <1>1, <1>4
    <3>2. QED
      BY <3>1, <1>4, <1>5, WordsAre
  <2>2. QED
    BY <2>1
<1>8. end = k + Len(v) + 1
  <2>1. ASSUME NEW i \in ends PROVE k + Len(v) + 1 <= i
    <3>1. i \in Nat /\ i > k /\ s[i] = comma
      BY <1>1, <1>6
    <3>2. SUFFICES ASSUME i <= k + Len(v) PROVE FALSE
      BY <3>1, <1>1
    <3>3. i - k \in 1 .. Len(v) /\ k + (i - k) = i
      BY <3>1, <3>2, <1>1
    <3>4. QED
      BY <3>1, <3>3, <1>7
  <2>2. CASE Len(z) = 0
    <3>1. ends = {}
      <4>1. SUFFICES ASSUME NEW i \in ends PROVE FALSE
        OBVIOUS
      <4>2. i \in Nat /\ i <= Len(s)
        BY <1>1, <1>6
      <4>3. QED
        BY <2>1, <2>2, <4>2, <1>1, <1>6
    <3>2. QED
      BY <3>1, <2>2, <1>1, <1>6
  <2>3. CASE Len(z) # 0
    <3>1. z[1] = comma /\ 1 \in 1 .. Len(z)
      BY <2>3, <1>1 DEF EndsAt
    <3>2. b[Len(v) + 1] = comma /\ Len(v) + 1 \in 1 .. Len(b)
      BY <3>1, <1>1, <1>4
    <3>3. s[k + (Len(v) + 1)] = comma
      BY <3>2, <1>5
    <3>4. k + (Len(v) + 1) = k + Len(v) + 1 /\ k + Len(v) + 1 \in k + 1 .. Len(s)
      BY <1>1, <1>6, <3>1
    <3>5. k + Len(v) + 1 \in ends
      BY <3>3, <3>4
    <3>6. \A i \in ends : i \in Nat
      BY <1>1
    <3>7. Min(ends) = k + Len(v) + 1
      BY <2>1, <3>5, <3>6, <1>1 DEF Min
    <3>8. QED
      BY <3>5, <3>7
  <2>4. QED
    BY <2>2, <2>3
<1>9. end - 1 = k + Len(v)
  BY <1>1, <1>8
<1>10. SubSeq(s, k + 1, k + Len(v)) = v
  <2> DEFINE r == SubSeq(s, k + 1, k + Len(v))
  <2>1. ASSUME NEW i \in k + 1 .. k + Len(v) PROVE s[i] \in Token
    <3>1. i \in 1 .. Len(s)
      BY <1>1, <1>6
    <3>2. QED
      BY <3>1, <1>5, WordsAre
  <2>2. /\ r \in Seq(Token) /\ Len(r) = Len(v)
        /\ \A i \in 1 .. Len(v) : r[i] = s[k + 1 + i - 1]
    <3> DEFINE m == k + 1
               n == k + Len(v)
    <3>1. m \in Int /\ n \in Int /\ n - m + 1 = Len(v) /\ (m <= n \/ Len(v) = 0)
      BY <1>1
    <3>2. r = SubSeq(s, m, n) /\ \A j \in m .. n : s[j] \in Token
      BY <2>1
    <3> HIDE DEF m, n, r
    <3>3. /\ r \in Seq(Token) /\ Len(r) = IF m <= n THEN n - m + 1 ELSE 0
          /\ \A j \in 1 .. n - m + 1 : r[j] = s[m + j - 1]
      BY <3>1, <3>2, SubSeqProperties
    <3>4. QED
      BY <3>1, <3>3 DEF m
  <2>3. \A i \in 1 .. Len(v) : k + 1 + i - 1 = k + i
    BY <1>1
  <2> HIDE DEF r
  <2>4. \A i \in 1 .. Len(v) : r[i] = v[i]
    BY <1>7, <2>2, <2>3
  <2>5. r = v
    BY <2>2, <2>4, SeqEqual DEF Words
  <2>6. QED
    BY <2>5 DEF r
<1>11. QED
  BY <1>3, <1>9, <1>10

LEMMA NoValue ==
  ASSUME NEW s \in Words, NEW key, key \notin ToSet(s)
  PROVE  Value(s, key) = {}
<1>1. {i \in 1 .. Len(s) : s[i] = key} = {}
  BY WordsAre
<1>2. SelectInSeq(s, LAMBDA c : c = key) = 0
  BY <1>1 DEF SelectInSeq
<1>3. QED
  BY <1>2 DEF Value

(* The pieces of a process and of its line.                                  *)
LEMMA MarksAre == Marks \subseteq Token /\ ":" \in Token /\ ":" \notin Marks /\ STRING \subseteq Token
BY DEF Token, Marks, Keywords, Annotation

LEMMA NumeralIs ==
  ASSUME NEW n \in Ports
  PROVE  /\ Numeral[n] \in Token /\ Numeral[n] \notin Marks /\ Numeral[n] # ":"
         /\ Number(<<Numeral[n]>>) = {n}
<1>1. Numeral[n] \in STRING /\ Numeral[n] \notin Marks /\ Numeral[n] # ":"
  BY LogLinesAssumption
<1>2. \A m \in Ports : <<Numeral[n]>> = <<Numeral[m]>> <=> n = m
  BY LogLinesAssumption
<1>3. Number(<<Numeral[n]>>) = {n}
  BY <1>2 DEF Number
<1>4. QED
  BY <1>1, <1>3, MarksAre

LEMMA NoNumber == Number(<<>>) = {}
BY DEF Number

LEMMA Nothing == /\ OrNothing({}) = <<>> 
                 /\ \A x : OrNothing({x}) = x
<1>1. ASSUME NEW x PROVE OrNothing({x}) = x
  BY DEF OrNothing
<1>2. QED
  BY <1>1 DEF OrNothing

LEMMA One == ASSUME NEW S, AtMostOne(S) PROVE S = {} \/ \E x \in S : S = {x}
BY DEF AtMostOne

LEMMA Prefix ==
  ASSUME NEW a \in Words, NEW b \in Words, NEW s, IsJoin(s, a, b)
  PROVE  SubSeq(s, 1, Len(a)) = a
<1>1. Len(a) \in Nat /\ \A i \in 1 .. Len(a) : a[i] \in Token
  BY WordsAre
<1>2. \A i \in 1 .. Len(a) : s[i] = a[i]
  BY JoinPlaces
<1>3. /\ SubSeq(s, 1, Len(a)) \in Seq(Token) /\ Len(SubSeq(s, 1, Len(a))) = Len(a)
      /\ \A i \in 1 .. Len(a) - 1 + 1 : SubSeq(s, 1, Len(a))[i] = s[1 + i - 1]
  BY <1>1, <1>2, SubSeqProperties
<1>4. \A i \in 1 .. Len(a) : SubSeq(s, 1, Len(a))[i] = a[i]
  BY <1>1, <1>2, <1>3
<1>5. QED
  BY <1>3, <1>4, SeqEqual DEF Words

LEMMA Closed ==
  ASSUME NEW a \in Words, NEW t \in Token, NEW s, IsJoin(s, a, <<t>>)
  PROVE  s \in Words /\ s # <<>> /\ Last(s) = t /\ Front(s) = a
<1> DEFINE u == <<t>>
<1>1. u \in Words /\ Len(u) = 1 /\ u[1] = t
  BY OneWord
<1> HIDE DEF u
<1>2. IsJoin(s, a, u)
  BY DEF u
<1>3. s \in Words /\ Len(s) = Len(a) + 1 /\ s[Len(a) + 1] = u[1]
  BY <1>1, <1>2, JoinOne
<1>4. SubSeq(s, 1, Len(a)) = a /\ Len(a) \in Nat
  BY <1>1, <1>2, Prefix, WordsAre
<1>5. s # <<>> 
  BY <1>3, <1>4
<1>6. Last(s) = t
  BY <1>1, <1>3 DEF Last
<1>7. Len(s) - 1 = Len(a)
  BY <1>3, <1>4
<1>8. Front(s) = a
  BY <1>4, <1>7 DEF Front
<1>9. QED
  BY <1>3, <1>5, <1>6, <1>8

Pairs(x, Q) == {<<x, q>> : q \in Q}
Second(T)   == {t[2] : t \in T}
LEMMA Seconds == ASSUME NEW x, NEW Q PROVE Second(Pairs(x, Q)) = Q
<1> DEFINE T == {<<x, q>> : q \in Q}
<1>1. ASSUME NEW t \in T PROVE t[2] \in Q
  <2>1. PICK q \in Q : t = <<x, q>>
    OBVIOUS
  <2>2. QED
    BY <2>1
<1>2. ASSUME NEW q \in Q PROVE \E t \in T : t[2] = q
  <2>1. <<x, q>> \in T /\ <<x, q>>[2] = q
    OBVIOUS
  <2>2. QED
    BY <2>1
<1> HIDE DEF T
<1>3. {t[2] : t \in T} = Q
  BY <1>1, <1>2
<1>4. QED
  BY <1>3 DEF T, Pairs, Second

(* What parse_process makes of a name and of what the bracket holds.         *)
Bracketed(name, in) ==
  LET two == Split(in, ", ")
  IN [name   |-> name,
      pid    |-> (UNION {Number(t[1]) : t \in two}) \cup (IF two = {} THEN Number(in) ELSE {}),
      parent |-> {t[2] : t \in two}]

LEMMA ProcessReadBack ==
  ASSUME NEW p \in Process, LegibleProcess(p), p.name \in Words, p.parent \in SUBSET Words
  PROVE  /\ ParseProcess(WriteProcess(p)) = p
         /\ WriteProcess(p) \in Words /\ " - " \notin ToSet(WriteProcess(p))
<1> DEFINE pids    == OrNothing({<<Numeral[n]>> : n \in p.pid})
           parents == OrNothing({<<", ">> \o q : q \in p.parent})
           in      == pids \o parents
           close   == in \o <<")">>
           w       == p.name \o <<" (">> \o close
<1>1. /\ pids \in Words /\ Number(pids) = p.pid /\ ToSet(pids) \cap Marks = {}
  <2>1. CASE p.pid = {}
    <3>1. {<<Numeral[n]>> : n \in p.pid} = {}
      BY <2>1
    <3>2. pids = <<>>
      BY <3>1, Nothing
    <3>3. QED
      BY <3>2, <2>1, NoNumber, WordsAre
  <2>2. ASSUME NEW n \in p.pid, p.pid = {n}
        PROVE  /\ pids \in Words /\ Number(pids) = p.pid /\ ToSet(pids) \cap Marks = {}
    <3>1. {<<Numeral[m]>> : m \in p.pid} = {<<Numeral[n]>>}
      BY <2>2
    <3>2. pids = <<Numeral[n]>>
      BY <3>1, Nothing
    <3>3. n \in Ports
      BY DEF Process
    <3>4. QED
      BY <3>2, <3>3, <2>2, NumeralIs, OneWord
  <2>3. AtMostOne(p.pid)
    BY DEF LegibleProcess
  <2>4. QED
    BY <2>1, <2>2, <2>3, One
<1>2. /\ parents \in Words /\ " (" \notin ToSet(parents) /\ " - " \notin ToSet(parents)
      /\ \/ p.parent = {} /\ parents = <<>>
         \/ \E q \in Words : p.parent = {q} /\ parents = <<", ">> \o q
  <2>1. CASE p.parent = {}
    <3>1. {<<", ">> \o q : q \in p.parent} = {}
      BY <2>1
    <3>2. parents = <<>>
      BY <3>1, Nothing
    <3>3. QED
      BY <3>2, <2>1, WordsAre
  <2>2. ASSUME NEW q \in p.parent, p.parent = {q}
        PROVE  /\ parents \in Words /\ " (" \notin ToSet(parents) /\ " - " \notin ToSet(parents)
               /\ q \in Words /\ parents = <<", ">> \o q
    <3>1. {<<", ">> \o r : r \in p.parent} = {<<", ">> \o q}
      BY <2>2
    <3>2. parents = <<", ">> \o q
      BY <3>1, Nothing
    <3>3. q \in Words /\ " (" \notin ToSet(q) /\ " - " \notin ToSet(q)
      BY DEF LegibleProcess, Free
    <3>4. <<", ">> \in Words /\ ToSet(<<", ">>) = {", "}
      BY MarksAre, OneWord DEF Marks
    <3>5. parents \in Words /\ ToSet(parents) = {", "} \cup ToSet(q)
      BY <3>2, <3>3, <3>4, Join
    <3>6. QED
      BY <3>2, <3>3, <3>5
  <2>3. AtMostOne(p.parent)
    BY DEF LegibleProcess
  <2>4. QED
    BY <2>1, <2>2, <2>3, One
<1>3. in \in Words /\ " (" \notin ToSet(in) /\ " - " \notin ToSet(in)
  <2>1. in \in Words /\ ToSet(in) = ToSet(pids) \cup ToSet(parents)
    BY <1>1, <1>2, Join
  <2>2. " (" \in Marks /\ " - " \in Marks
    BY DEF Marks
  <2> HIDE DEF pids, parents, in
  <2>3. QED
    BY <1>1, <1>2, <2>1, <2>2
<1>4. /\ <<")">> \in Words /\ ToSet(<<")">>) = {")"} /\ ")" \in Token
      /\ <<" (">> \in Words /\ ToSet(<<" (">>) = {" ("} /\ " (" \in Token
  BY MarksAre, OneWord DEF Marks
<1>5. WriteProcess(p) = w
  <2>1. WriteProcess(p) = (p.name \o <<" (">> \o pids \o parents) \o <<")">>
    BY DEF WriteProcess
  <2> HIDE DEF pids, parents
  <2> DEFINE open == p.name \o <<" (">>
  <2>2. open \in Words
    BY <1>4, Join
  <2> HIDE DEF open
  <2>3. (open \o pids) \o parents = open \o in
    BY ZenonT(40), <1>1, <1>2, <2>2, Joined
  <2>4. (open \o in) \o <<")">> = open \o close
    BY ZenonT(40), <1>3, <1>4, <2>2, Joined
  <2>5. QED
    BY <2>1, <2>3, <2>4 DEF open
<1> HIDE DEF in
<1>6. /\ close \in Words /\ close # <<>> /\ Last(close) = ")" /\ Front(close) = in
      /\ ToSet(close) = ToSet(in) \cup {")"}
  <2>1. IsJoin(close, in, <<")">>)
    BY DEF IsJoin
  <2>2. ToSet(close) = ToSet(in) \cup {")"}
    BY ZenonT(40), <1>3, <1>4, Join
  <2> HIDE DEF close
  <2>3. QED
    BY <1>3, <1>4, <2>1, <2>2, Closed
<1> HIDE DEF close
<1>7. SplitLast(w, " (") = {<<p.name, close>>}
  <2>1. Between(w, p.name, " (", close)
    BY DEF Between
  <2>2. " (" \notin ToSet(close)
    BY <1>3, <1>6
  <2> DEFINE name == p.name
             open == " ("
  <2>3. open \in Token /\ name \in Words /\ close \in Words /\ open \notin ToSet(close) /\ Between(w, name, open, close)
    BY <1>4, <1>6, <2>1, <2>2
  <2> HIDE DEF w, name, open
  <2>4. SplitLast(w, open) = {<<name, close>>}
    BY <2>3, Cut
  <2>5. QED
    BY <2>4 DEF name, open
<1>8. w \in Words /\ " - " \notin ToSet(w)
  <2> DEFINE open == p.name \o <<" (">>
  <2>1. open \in Words /\ ToSet(open) = ToSet(p.name) \cup {" ("}
    BY <1>4, Join
  <2> HIDE DEF open
  <2>2. open \o close \in Words /\ ToSet(open \o close) = ToSet(open) \cup ToSet(close)
    BY <1>6, <2>1, Join
  <2>3. w = open \o close
    BY DEF open
  <2>4. " - " \notin ToSet(p.name)
    BY DEF LegibleProcess, Free
  <2> HIDE DEF w
  <2>5. QED
    BY <2>1, <2>2, <2>3, <2>4, <1>3, <1>6
<1>9. /\ Split(in, ", ") = {<<pids, q>> : q \in p.parent}
  <2>1. CASE p.parent = {} /\ parents = <<>>
    <3>1. in = pids
      BY <2>1, <1>1, Joined DEF in
    <3>2. ", " \notin ToSet(pids)
      BY <1>1 DEF Marks
    <3>3. Split(in, ", ") = {}
      BY <3>1, <3>2, <1>1, Uncut
    <3>4. QED
      BY <2>1, <3>3
  <2>2. ASSUME NEW q \in Words, p.parent = {q}, parents = <<", ">> \o q
        PROVE  Split(in, ", ") = {<<pids, r>> : r \in p.parent}
    <3>1. ", " \in Token /\ <<", ">> \in Words
      BY MarksAre, OneWord DEF Marks
    <3>2. in = pids \o <<", ">> \o q
      <4> DEFINE comma == <<", ">>
      <4>1. comma \in Words /\ in = pids \o (comma \o q)
        BY <3>1, <2>2 DEF in
      <4> HIDE DEF comma, pids
      <4>2. in = (pids \o comma) \o q
        BY <4>1, <1>1, Joined
      <4>3. QED
        BY <4>2 DEF comma
    <3>3. Between(in, pids, ", ", q)
      BY <3>2 DEF Between
    <3>4. ", " \notin ToSet(pids)
      BY <1>1 DEF Marks
    <3>5. Split(in, ", ") = {<<pids, q>>}
      BY <1>1, <3>1, <3>3, <3>4, Cut
    <3> HIDE DEF in, pids
    <3>6. {<<pids, r>> : r \in p.parent} = {<<pids, q>>}
      BY <2>2
    <3>7. QED
      BY <3>5, <3>6
  <2>3. CASE ~ (p.parent = {} /\ parents = <<>>)
    <3> HIDE DEF in, pids, parents
    <3>1. PICK q \in Words : p.parent = {q} /\ parents = <<", ">> \o q
      BY <1>2, <2>3
    <3>2. QED
      BY <2>2, <3>1
  <2>4. QED
    BY <2>1, <2>3
<1>10. ParseProcess(w) = p
  <2> HIDE DEF w, pids, parents
  <2> DEFINE two == Split(in, ", ")
             numbers == UNION {Number(t[1]) : t \in two}
             rest == IF two = {} THEN Number(in) ELSE {}
             after == {t[2] : t \in two}
  <2>1. (CHOOSE c \in SplitLast(w, " (") : TRUE) = <<p.name, close>>
    BY <1>7
  <2>2. ParseProcess(w) = [name |-> p.name, pid |-> numbers \cup rest, parent |-> after]
    <3> DEFINE cut == CHOOSE c \in SplitLast(w, " (") : TRUE
               inside(c) == IF c[2] # <<>> /\ Last(c[2]) = ")" THEN Front(c[2]) ELSE c[2]
    <3>1. cut[1] = p.name /\ inside(cut) = in /\ SplitLast(w, " (") # {}
      <4>1. cut = <<p.name, close>> /\ SplitLast(w, " (") # {}
        BY <2>1, <1>7
      <4> HIDE DEF cut
      <4>2. cut[1] = p.name /\ cut[2] = close
        BY <4>1
      <4>3. QED
        BY <4>1, <4>2, <1>6
    <3>2. ParseProcess(w) = IF SplitLast(w, " (") = {} THEN [name |-> w, pid |-> {}, parent |-> {}]
                            ELSE Bracketed(cut[1], inside(cut))
      BY DEF ParseProcess, Bracketed
    <3> HIDE DEF cut, inside
    <3>3. ParseProcess(w) = Bracketed(p.name, in)
      BY <3>1, <3>2
    <3>4. QED
      BY <3>3 DEF Bracketed
  <2>3. numbers \cup rest = p.pid
    <3>1. CASE p.parent = {}
      <4>1. two = {} /\ in = pids
        BY <3>1, <1>1, <1>2, <1>9, Joined DEF in
      <4> HIDE DEF two
      <4>2. numbers = {} /\ rest = Number(in)
        BY <4>1
      <4> HIDE DEF numbers, rest
      <4>3. QED
        BY <4>1, <4>2, <1>1
    <3>2. CASE p.parent # {}
      <4>1. PICK q : two = {<<pids, q>>}
        <5>1. PICK q : p.parent = {q}
          BY <3>2, <1>2
        <5>2. QED
          BY ZenonT(40), <5>1, <1>9
      <4> HIDE DEF two
      <4>2. numbers = Number(pids) /\ rest = {}
        BY <4>1
      <4> HIDE DEF numbers, rest
      <4>3. QED
        BY <4>2, <1>1
    <3>3. QED
      BY <3>1, <3>2
  <2>4. after = p.parent
    <3> DEFINE Q == p.parent
    <3>1. two = Pairs(pids, Q) /\ after = Second(two)
      BY <1>9 DEF Pairs, Second
    <3> HIDE DEF two, Q, after
    <3>3. after = Q
      BY <3>1, Seconds
    <3>4. QED
      BY <3>3 DEF Q
  <2>5. p = [name |-> p.name, pid |-> p.pid, parent |-> p.parent]
    BY DEF Process
  <2> HIDE DEF numbers, rest, after
  <2>6. QED
    BY <2>2, <2>3, <2>4, <2>5
<1>11. QED
  BY <1>5, <1>8, <1>10

(* Targets.                                                                  *)
LEMMA Middle ==
  ASSUME NEW u \in Words, NEW v \in Words, NEW x \in Words, NEW w, IsJoin(w, v, x), NEW s, IsJoin(s, u, w)
  PROVE  SubSeq(s, Len(u) + 1, Len(u) + Len(v)) = v
<1> DEFINE r == SubSeq(s, Len(u) + 1, Len(u) + Len(v))
<1>1. Len(u) \in Nat /\ Len(v) \in Nat /\ Len(x) \in Nat /\ \A i \in 1 .. Len(v) : v[i] \in Token
  BY WordsAre
<1>2. w \in Words /\ Len(w) = Len(v) + Len(x) /\ \A i \in 1 .. Len(v) : w[i] = v[i]
  BY JoinPlaces
<1>3. \A i \in 1 .. Len(w) : s[Len(u) + i] = w[i]
  BY SMTT(30), <1>2, JoinPlaces
<1>4. ASSUME NEW i \in 1 .. Len(v) PROVE s[Len(u) + i] = v[i]
  <2>1. i \in 1 .. Len(w)
    BY <1>1, <1>2
  <2>2. QED
    BY <2>1, <1>2, <1>3
<1>5. ASSUME NEW i \in Len(u) + 1 .. Len(u) + Len(v) PROVE s[i] \in Token
  <2>1. i - Len(u) \in 1 .. Len(v) /\ Len(u) + (i - Len(u)) = i
    BY <1>1
  <2>2. s[i] = v[i - Len(u)]
    BY <2>1, <1>4
  <2>3. QED
    BY <2>1, <2>2, <1>1
<1>6. /\ r \in Seq(Token) /\ Len(r) = Len(v)
      /\ \A i \in 1 .. Len(v) : r[i] = s[Len(u) + 1 + i - 1]
  BY <1>1, <1>5, SubSeqProperties
<1> HIDE DEF r
<1>7. \A i \in 1 .. Len(v) : Len(u) + 1 + i - 1 = Len(u) + i
  BY <1>1
<1>8. \A i \in 1 .. Len(v) : r[i] = v[i]
  BY <1>4, <1>6, <1>7
<1>9. r = v
  BY <1>6, <1>8, SeqEqual DEF Words
<1>10. QED
  BY <1>9 DEF r

(* parse_target on what stands before the annotations.                       *)
Decoded(t, notes) ==
  IF Literals(t) # {}
    THEN LET close == Min(Literals(t))
         IN {Target({}, {SubSeq(t, 2, close - 1)}, n, notes, TRUE) :
               n \in Number(SubSeq(t, close + 2, Len(t)))}
  ELSE UNION {{Target(HostAndIp(cut[1])[1], HostAndIp(cut[1])[2], n, notes, FALSE) :
                 n \in Number(cut[2])} : cut \in SplitLast(t, ":")}

Notes(s) == {Annotation[c] : c \in ToSet(s)}
Solid(raw) == SelectLastInSeq(raw, LAMBDA c : c \notin DOMAIN Annotation)

LEMMA Annotated ==
  ASSUME NEW a \in Words, NEW n \in Token, n \notin DOMAIN Annotation,
         NEW b \in Words, ToSet(b) \subseteq DOMAIN Annotation, NEW s, IsJoin(s, a, <<n>>), NEW raw, IsJoin(raw, s, b)
  PROVE  ParseTarget(raw) = Decoded(s, Notes(b))
<1> DEFINE solid == Len(a) + 1
           I == {i \in 1 .. Len(raw) : raw[i] \notin DOMAIN Annotation}
<1>1. /\ raw \in Words /\ Len(raw) = Len(a) + 1 + Len(b) /\ raw[Len(a) + 1] = n
      /\ \A i \in 1 .. Len(b) : raw[Len(a) + 1 + i] = b[i] /\ raw[Len(a) + 1 + i] \in ToSet(b)
  <2>1. Between(raw, a, n, b)
    BY DEF IsJoin, Between
  <2>2. QED
    BY <2>1, PlacesIn
<1>2. Len(a) \in Nat /\ Len(b) \in Nat /\ DOMAIN b = 1 .. Len(b)
  BY WordsAre
<1>3. solid \in I /\ \A i \in I : i \in Nat
  BY <1>1, <1>2
<1>4. ASSUME NEW i \in I PROVE solid >= i
  <2>1. SUFFICES ASSUME ~ (solid >= i) PROVE FALSE
    OBVIOUS
  <2>2. i - solid \in 1 .. Len(b) /\ Len(a) + 1 + (i - solid) = i
    BY <1>1, <1>2, <2>1
  <2>3. QED
    BY <1>1, <2>2
<1>5. Solid(raw) = solid
  <2>1. Max(I) = solid
    BY <1>2, <1>3, <1>4 DEF Max
  <2>2. Solid(raw) = IF I # {} THEN Max(I) ELSE 0
    BY DEF Solid, SelectLastInSeq
  <2>3. QED
    BY <2>1, <2>2, <1>3
<1>6. SubSeq(raw, 1, solid) = s
  <2> DEFINE u == <<n>>
  <2>1. u \in Words /\ Len(u) = 1
    BY OneWord
  <2>2. s \in Words /\ Len(s) = Len(a) + 1
    <3> HIDE DEF u
    <3>1. IsJoin(s, a, u)
      BY DEF u
    <3>2. QED
      BY <2>1, <3>1, JoinOne
  <2>3. QED
    BY <2>2, Prefix
<1>7. {Annotation[raw[k]] : k \in solid + 1 .. Len(raw)} = Notes(b)
  <2>1. ASSUME NEW k \in solid + 1 .. Len(raw) PROVE raw[k] \in ToSet(b)
    <3>1. k - solid \in 1 .. Len(b) /\ Len(a) + 1 + (k - solid) = k
      BY <1>1, <1>2
    <3>2. QED
      BY <1>1, <3>1
  <2>2. ASSUME NEW c \in ToSet(b) PROVE \E k \in solid + 1 .. Len(raw) : raw[k] = c
    <3>1. PICK i \in 1 .. Len(b) : c = b[i]
      BY <1>2 DEF ToSet
    <3>2. Len(a) + 1 + i \in solid + 1 .. Len(raw) /\ raw[Len(a) + 1 + i] = c
      BY <1>1, <1>2, <3>1
    <3>3. QED
      BY <3>2
  <2> HIDE DEF solid
  <2>3. QED
    BY <2>1, <2>2 DEF Notes
<1> HIDE DEF solid
<1>8. ParseTarget(raw) = Decoded(SubSeq(raw, 1, Solid(raw)), {Annotation[raw[k]] : k \in Solid(raw) + 1 .. Len(raw)})
  BY DEF ParseTarget, Decoded, Solid
<1>9. QED
  BY <1>5, <1>6, <1>7, <1>8

Bracket(t, open, close, colon) ==
  IF t = NoText \/ t[1] # open THEN {}
  ELSE {k \in DOMAIN t : t[k] = close /\ k < Len(t) /\ t[k + 1] = colon}

Literal(s, open, ip, close, colon, n) == s = (((<<open>> \o ip) \o <<close>>) \o <<colon>>) \o <<n>>

LEMMA InBrackets ==
  ASSUME NEW open \in Token, NEW close \in Token, NEW colon \in Token, NEW n \in Token, NEW ip \in Words,
         close # open, close # colon, close # n, close \notin ToSet(ip),
         NEW s, Literal(s, open, ip, close, colon, n)
  PROVE  LET I == Bracket(s, open, close, colon)
         IN /\ I # {} /\ SubSeq(s, 2, Min(I) - 1) = ip
            /\ SubSeq(s, Min(I) + 2, Len(s)) = <<n>>
<1> DEFINE uo == <<open>>
           uc == <<close>>
           ul == <<colon>>
           un == <<n>>
           a  == uo \o ip
           b  == ul \o un
           tail == uc \o b
           ac == a \o uc
<1>1. /\ uo \in Words /\ Len(uo) = 1 /\ uo[1] = open /\ ToSet(uo) = {open}
      /\ uc \in Words /\ ul \in Words
      /\ un \in Words /\ Len(un) = 1 /\ un[1] = n
      /\ Len(uc) = 1 /\ Len(ul) = 1 /\ ul[1] = colon
  BY OneWord
<1>0. s = (((uo \o ip) \o uc) \o ul) \o un
  BY DEF Literal
<1>13. IsJoin(a, uo, ip) /\ IsJoin(b, ul, un) /\ IsJoin(ac, a, uc)
  BY DEF IsJoin
<1> HIDE DEF uo, ul, un
<1>2. /\ a \in Words /\ Len(a) = 1 + Len(ip) /\ ToSet(a) = {open} \cup ToSet(ip) /\ a[1] = open
      /\ b \in Words /\ Len(b) = 2 /\ b[1] = colon /\ b[2] = n
      /\ ac \in Words /\ Len(ac) = Len(a) + 1
  <2>2. ToSet(a) = {open} \cup ToSet(ip)
    BY <1>1, Join
  <2> HIDE DEF a
  <2>1. a \in Words /\ Len(a) = Len(uo) + Len(ip) /\ \A i \in 1 .. Len(uo) : a[i] = uo[i]
    <3>1. uo \in Words /\ IsJoin(a, uo, ip)
      BY <1>1, <1>13
    <3>2. QED
      BY <3>1, JoinPlaces
  <2>3. b \in Words /\ Len(b) = Len(ul) + 1 /\ b[Len(ul) + 1] = un[1] /\ \A i \in 1 .. Len(ul) : b[i] = ul[i]
    BY <1>1, <1>13, JoinOne
  <2> HIDE DEF a, b, ac, uc
  <2>4. ac \in Words /\ Len(ac) = Len(a) + 1
    BY <1>1, <1>13, <2>1, JoinOne
  <2>5. 1 \in 1 .. 1
    OBVIOUS
  <2>6. QED
    BY <1>1, <2>1, <2>2, <2>3, <2>4, <2>5
<1>3. Between(s, a, close, b) /\ Between(s, ac, colon, un) /\ IsJoin(tail, uc, b)
  <2>1. (a \o uc) \in Words
    BY <1>2
  <2>2. ((a \o uc) \o ul) \o un = (a \o uc) \o b
    BY <1>1, <2>1, Joined
  <2>3. QED
    BY <1>0, <2>2 DEF Between, ul, IsJoin
<1> HIDE DEF a, b, uc, ac
<1>4. /\ s \in Words /\ Len(s) = Len(a) + 1 + Len(b) /\ s[Len(a) + 1] = close
      /\ \A i \in 1 .. Len(a) : s[i] = a[i] /\ s[i] \in ToSet(a)
      /\ \A i \in 1 .. Len(b) : s[Len(a) + 1 + i] = b[i]
  <2>1. a \in Words /\ b \in Words /\ Between(s, a, close, b)
    BY <1>2, <1>3
  <2>2. QED
    BY <2>1, PlacesIn
<1>5. SubSeq(s, Len(ac) + 2, Len(s)) = un
  BY <1>1, <1>2, <1>3, PlacesIn
<1>6. Len(ip) \in Nat /\ DOMAIN s = 1 .. Len(s)
  BY <1>4, WordsAre
<1> DEFINE k == Len(ip) + 2
           I == {i \in DOMAIN s : s[i] = close /\ i < Len(s) /\ s[i + 1] = colon}
<1>7. Len(s) = Len(ip) + 4 /\ s[k] = close /\ s[k + 1] = colon /\ s[k + 2] = n /\ s[1] = open
      /\ \A i \in 1 .. Len(ip) + 1 : s[i] # close
  <2>1. Len(a) + 1 = k /\ Len(s) = Len(ip) + 4
    BY <1>2, <1>4, <1>6
  <2>2. s[Len(a) + 1 + 1] = colon /\ s[Len(a) + 1 + 2] = n
    <3>1. 1 \in 1 .. Len(b) /\ 2 \in 1 .. Len(b)
      BY <1>2
    <3>2. QED
      BY <3>1, <1>2, <1>4
  <2>3. s[1] = open
    <3>1. 1 \in 1 .. Len(a)
      BY <1>2, <1>6
    <3>2. QED
      BY <3>1, <1>2, <1>4
  <2>4. \A i \in 1 .. Len(a) : s[i] # close
    BY <1>2, <1>4
  <2>5. Len(a) = Len(ip) + 1
    BY <1>2, <1>6
  <2>6. QED
    BY <2>1, <2>2, <2>3, <2>4, <2>5, <1>4
<1>8. I = {k}
  <2>1. k \in I
    <3>1. k \in 1 .. Len(s) /\ k < Len(s)
      BY <1>6, <1>7
    <3> HIDE DEF k
    <3>2. QED
      BY <3>1, <1>6, <1>7
  <2>2. ASSUME NEW i \in I PROVE i = k
    <3>1. i \in 1 .. Len(ip) + 4 /\ s[i] = close
      BY <1>6, <1>7
    <3>2. i # k + 1 /\ i # k + 2 /\ ~ (i \in 1 .. Len(ip) + 1)
      BY <3>1, <1>7
    <3>3. QED
      BY <3>1, <3>2, <1>6
  <2>3. QED
    BY <2>1, <2>2
<1>9. Bracket(s, open, close, colon) = I
  <2>1. s # <<>>
    BY <1>6, <1>7, WordsAre
  <2>2. QED
    BY <2>1, <1>7 DEF Bracket, NoText
<1>10. Min(I) = k
  <2> HIDE DEF I
  <2>1. k \in Nat
    BY <1>6
  <2>2. QED
    BY <2>1, <1>8 DEF Min
<1>11. SubSeq(s, 2, k - 1) = ip
  <2> DEFINE w == ip \o tail
  <2>1. tail \in Words /\ IsJoin(w, ip, tail)
    BY <1>1, <1>2, Join DEF IsJoin
  <2>2. a \o tail = uo \o w
    BY SMTT(40), <2>1, <1>1, Grouped DEF a
  <2>3. s = a \o tail
    <3>1. s = (a \o uc) \o b
      BY <1>3 DEF Between, uc
    <3>2. a \in Words /\ b \in Words /\ uc \in Words
      BY <1>1, <1>2
    <3>3. (a \o uc) \o b = a \o (uc \o b)
      BY SMTT(40), <3>2, Grouped
    <3>4. QED
      BY <3>1, <3>3
  <2>4. IsJoin(s, uo, w)
    BY <2>2, <2>3 DEF IsJoin
  <2> HIDE DEF w, tail
  <2>5. SubSeq(s, Len(uo) + 1, Len(uo) + Len(ip)) = ip
    BY <1>1, <2>1, <2>4, Middle
  <2>6. Len(uo) + 1 = 2 /\ Len(uo) + Len(ip) = k - 1
    BY <1>1, <1>6
  <2>7. QED
    BY <2>5, <2>6
<1>12. Len(ac) + 2 = k + 2
  BY <1>2, <1>6
<1>14. QED
  BY <1>5, <1>8, <1>9, <1>10, <1>11, <1>12 DEF un

LEMMA TextIsWords == Text \subseteq Words
BY MarksAre, SeqMonotonic DEF Text, Words

LEMMA PairIs ==
  ASSUME NEW S, NEW c \in S, NEW d \in S
  PROVE  <<c, d>> \in Seq(S) /\ Len(<<c, d>>) = 2 /\ <<c, d>>[1] = c /\ <<c, d>>[2] = d
OBVIOUS

LEMMA Two ==
  ASSUME NEW c \in Token, NEW d \in Token
  PROVE  /\ <<c, d>> = <<c>> \o <<d>> /\ <<c, d>> \in Words /\ ToSet(<<c, d>>) = {c, d}
<1>1. <<c, d>> = <<c>> \o <<d>>
  <2> DEFINE u == <<c>>
             v == <<d>>
             s == u \o v
             r == <<c, d>>
  <2>1. u \in Words /\ v \in Words /\ Len(v) = 1 /\ v[1] = d
    BY OneWord
  <2>2. Len(u) = 1 /\ u[1] = c
    BY OneWord
  <2>3. IsJoin(s, u, v)
    BY DEF IsJoin
  <2>4. r \in Words /\ Len(r) = 2 /\ r[1] = c /\ r[2] = d
    BY PairIs DEF Words
  <2> HIDE DEF u, v, s, r
  <2>5. s \in Words /\ Len(s) = Len(u) + 1 /\ s[Len(u) + 1] = v[1] /\ \A i \in 1 .. Len(u) : s[i] = u[i]
    BY <2>1, <2>3, JoinOne
  <2>6. Len(s) = 2 /\ s[1] = c /\ s[2] = d
    BY <2>1, <2>2, <2>5
  <2>7. \A i \in 1 .. 2 : s[i] = r[i]
    BY <2>4, <2>6
  <2>8. r = s
    BY <2>4, <2>5, <2>6, <2>7, SeqEqual DEF Words
  <2>9. QED
    BY <2>8 DEF r, s, u, v
<1>2. <<c>> \in Words /\ ToSet(<<c>>) = {c} /\ <<d>> \in Words /\ ToSet(<<d>>) = {d}
  BY OneWord
<1>3. <<c>> \o <<d>> \in Words /\ ToSet(<<c>> \o <<d>>) = {c} \cup {d}
  BY <1>2, Join
<1>4. QED
  BY <1>1, <1>3

LEMMA HostAndAddress ==
  ASSUME NEW h \in Words, NEW ip \in Words, h # NoText, "(" \notin ToSet(ip)
  PROVE  LET m == ((h \o <<"(">>) \o ip) \o <<")">> IN HostAndIp(m) = <<{h}, {ip}>>
<1> DEFINE open  == "("
           close == ")"
           uo == <<open>>
           uc == <<close>>
           ho == h \o uo
           m == (ho \o ip) \o uc
           tail == ip \o uc
           cut == SplitLast(m, open)
<1>1. open \in Token /\ close \in Token /\ open # close /\ open \notin ToSet(ip)
  BY MarksAre DEF Marks
<1>0. HostAndIp(m) =
        IF cut # {} /\ Last(m) = close
          THEN LET c == CHOOSE x \in cut : TRUE IN <<NonEmpty(c[1]), {Front(c[2])}>>
        ELSE IF ParseIpv4(m) # {} THEN <<{}, {m}>> ELSE <<{m}, {}>>
  BY DEF HostAndIp
<1> HIDE DEF open, close
<1>2. uo \in Words /\ uc \in Words /\ ToSet(uc) = {close}
  BY <1>1, OneWord
<1>3. ho \in Words /\ ho \o ip \in Words /\ tail \in Words /\ ToSet(tail) = ToSet(ip) \cup {close}
  <2> HIDE DEF uo, uc
  <2>1. ho \in Words
    BY <1>2, Join
  <2> HIDE DEF ho
  <2>2. QED
    BY <1>2, <2>1, Join
<1>4. m = ho \o tail
  <2> HIDE DEF uo, uc, ho
  <2>1. QED
    BY SMTT(40), <1>2, <1>3, Grouped
<1>5. IsJoin(m, ho \o ip, <<close>>) /\ IsJoin(tail, ip, <<close>>) /\ Between(m, h, open, tail)
  <2>1. IsJoin(m, ho \o ip, <<close>>) /\ IsJoin(tail, ip, <<close>>)
    BY DEF IsJoin
  <2>2. m = (h \o <<open>>) \o tail
    BY <1>4
  <2> HIDE DEF m, tail, ho
  <2>3. QED
    BY <2>1, <2>2 DEF Between
<1> HIDE DEF ho, m, tail
<1>6. Last(m) = close /\ Front(tail) = ip
  BY <1>1, <1>3, <1>5, Closed
<1>7. cut = {<<h, tail>>}
  <2>1. open \notin ToSet(tail)
    BY <1>1, <1>3
  <2>2. QED
    BY <2>1, <1>1, <1>3, <1>5, Cut
<1> HIDE DEF cut
<1>8. HostAndIp(m) = <<NonEmpty(h), {Front(tail)}>>
  <2> DEFINE c == CHOOSE x \in cut : TRUE
  <2>1. c = <<h, tail>> /\ cut # {}
    BY <1>7
  <2>2. HostAndIp(m) = <<NonEmpty(c[1]), {Front(c[2])}>>
    BY <1>0, <1>6, <2>1
  <2> HIDE DEF c
  <2>3. c[1] = h /\ c[2] = tail
    BY <2>1
  <2>4. QED
    BY <2>2, <2>3
<1>9. NonEmpty(h) = {h}
  BY DEF NonEmpty
<1>10. QED
  BY <1>6, <1>8, <1>9 DEF m, ho, open, close

LEMMA HostOrAddress ==
  ASSUME NEW m \in Words, "(" \notin ToSet(m)
  PROVE  HostAndIp(m) = IF ParseIpv4(m) # {} THEN <<{}, {m}>> ELSE <<{m}, {}>>
<1>1. SplitLast(m, "(") = {}
  BY Uncut
<1>2. QED
  BY <1>1 DEF HostAndIp

(* The parts of what Proxifier writes of a target.                           *)
MainOf(t) ==
  IF t.host # {} /\ t.ip # {}
    THEN (CHOOSE h \in t.host : TRUE) \o <<"(">> \o (CHOOSE i \in t.ip : TRUE) \o <<")">>
  ELSE IF t.host # {} THEN CHOOSE h \in t.host : TRUE
  ELSE LET ip == CHOOSE i \in t.ip : TRUE
       IN IF t.ipv6 THEN <<"[">> \o ip \o <<"]">> ELSE ip
ProtoOf(t) == IF t.proto = "UDP" THEN <<" (UDP)">> ELSE IF t.proto = "ICMP" THEN <<" (ICMP)">> ELSE <<>>
SixOf(t)   == IF t.ipv6 THEN <<" (IPv6)">> ELSE <<>>

TargetType == [host : SUBSET Text, ip : SUBSET Text, port : Ports, ipv6 : BOOLEAN, proto : {"TCP", "UDP", "ICMP"}]

LEMMA NotesAre ==
  ASSUME NEW t \in TargetType, NEW notes, notes = Notes(ProtoOf(t) \o SixOf(t))
  PROVE  /\ ProtoOf(t) \in Words /\ SixOf(t) \in Words
         /\ ToSet(ProtoOf(t) \o SixOf(t)) \subseteq DOMAIN Annotation
         /\ "IPv6" \in notes <=> t.ipv6
         /\ t.proto = IF "UDP" \in notes THEN "UDP" ELSE IF "ICMP" \in notes THEN "ICMP" ELSE "TCP"
<1>1. /\ {" (UDP)", " (ICMP)", " (IPv6)"} = DOMAIN Annotation /\ DOMAIN Annotation \subseteq Token
      /\ Annotation[" (UDP)"] = "UDP" /\ Annotation[" (ICMP)"] = "ICMP" /\ Annotation[" (IPv6)"] = "IPv6"
  BY MarksAre DEF Annotation, Marks
<1>2. t.ipv6 \in BOOLEAN /\ t.proto \in {"TCP", "UDP", "ICMP"}
  BY DEF TargetType
<1>3. /\ ProtoOf(t) \in Words
      /\ ToSet(ProtoOf(t)) = IF t.proto = "UDP" THEN {" (UDP)"} ELSE IF t.proto = "ICMP" THEN {" (ICMP)"} ELSE {}
  BY <1>1, OneWord, WordsAre DEF ProtoOf
<1>4. SixOf(t) \in Words /\ ToSet(SixOf(t)) = IF t.ipv6 THEN {" (IPv6)"} ELSE {}
  BY <1>1, OneWord, WordsAre DEF SixOf
<1>5. ToSet(ProtoOf(t) \o SixOf(t)) = ToSet(ProtoOf(t)) \cup ToSet(SixOf(t))
  BY <1>3, <1>4, Join
<1>6. ToSet(ProtoOf(t) \o SixOf(t)) \subseteq DOMAIN Annotation
  BY <1>1, <1>3, <1>4, <1>5
<1>7. notes = (IF t.proto = "UDP" THEN {"UDP"} ELSE IF t.proto = "ICMP" THEN {"ICMP"} ELSE {})
                 \cup (IF t.ipv6 THEN {"IPv6"} ELSE {})
  <2> DEFINE all == ToSet(ProtoOf(t) \o SixOf(t))
  <2>1. notes = {Annotation[c] : c \in all}
    BY DEF Notes
  <2>2. all = (IF t.proto = "UDP" THEN {" (UDP)"} ELSE IF t.proto = "ICMP" THEN {" (ICMP)"} ELSE {})
                 \cup (IF t.ipv6 THEN {" (IPv6)"} ELSE {})
    BY <1>3, <1>4, <1>5
  <2> HIDE DEF all
  <2>3. QED
    BY <1>1, <2>1, <2>2
<1>8. "IPv6" \in notes <=> t.ipv6
  BY <1>2, <1>7
<1>9. t.proto = IF "UDP" \in notes THEN "UDP" ELSE IF "ICMP" \in notes THEN "ICMP" ELSE "TCP"
  BY <1>2, <1>7
<1>10. QED
  BY <1>3, <1>4, <1>6, <1>8, <1>9

(* What the parser reads of a target is what was written.                    *)
LEMMA OnlyOne == ASSUME NEW S, AtMostOne(S), S # {} PROVE (CHOOSE x \in S : TRUE) \in S /\ S = {CHOOSE x \in S : TRUE}
BY DEF AtMostOne

LEMMA MainIs ==
  ASSUME NEW t \in TargetType, LegibleTarget(t)
  PROVE  /\ MainOf(t) \in Words /\ MainOf(t) # <<>>
         /\ ToSet(MainOf(t)) \cap (Keywords \cup DOMAIN Annotation) = {}
<1> DEFINE h == CHOOSE x \in t.host : TRUE
           ip == CHOOSE x \in t.ip : TRUE
<1>1. /\ t.host # {} => h \in Words /\ h # <<>> /\ ToSet(h) \cap Marks = {}
      /\ t.ip # {} => ip \in Words /\ ip # <<>> /\ ToSet(ip) \cap Marks = {}
  <2>1. t.host # {} => h \in t.host
    OBVIOUS
  <2>2. t.ip # {} => ip \in t.ip
    OBVIOUS
  <2> HIDE DEF h, ip
  <2>3. \A x \in t.host \cup t.ip : x \in Words /\ x # <<>> /\ ToSet(x) \cap Marks = {}
    BY TextIsWords DEF LegibleTarget, Free, NoText, TargetType
  <2>4. QED
    BY <2>1, <2>2, <2>3
<1> DEFINE bad == Keywords \cup DOMAIN Annotation
<1>2. /\ bad \subseteq Marks /\ "(" \notin bad /\ ")" \notin bad /\ "[" \notin bad /\ "]" \notin bad
      /\ "(" \in Token /\ ")" \in Token /\ "[" \in Token /\ "]" \in Token
  BY MarksAre DEF Marks, Keywords, Annotation
<1>3. t.host # {} \/ t.ip # {}
  BY DEF LegibleTarget
<1> HIDE DEF bad, h, ip
<1>4. ASSUME NEW o \in Token, NEW c \in Token, o \notin bad, c \notin bad, NEW x \in Words, NEW y \in Words,
             ToSet(x) \cap bad = {}, ToSet(y) \cap bad = {}
      PROVE  LET m == ((x \o <<o>>) \o y) \o <<c>>
             IN m \in Words /\ m # <<>> /\ ToSet(m) \cap bad = {}
  <2> DEFINE uo == <<o>>
             uc == <<c>>
             l  == x \o uo
             ly == l \o y
             m  == ly \o uc
  <2>1. uo \in Words /\ uc \in Words /\ ToSet(uo) = {o} /\ ToSet(uc) = {c}
    BY OneWord
  <2>2. IsJoin(m, ly, <<c>>)
    BY DEF IsJoin
  <2> HIDE DEF uo, uc
  <2>3. l \in Words /\ ToSet(l) = ToSet(x) \cup {o}
    BY <2>1, Join
  <2> HIDE DEF l
  <2>4. ly \in Words /\ ToSet(ly) = ToSet(l) \cup ToSet(y)
    BY <2>3, Join
  <2> HIDE DEF ly
  <2>5. m \in Words /\ ToSet(m) = ToSet(ly) \cup {c}
    BY <2>1, <2>4, Join
  <2> HIDE DEF m
  <2>6. m # <<>>
    BY <2>2, <2>4, Closed
  <2>7. m \in Words /\ m # <<>> /\ ToSet(m) \cap bad = {}
    BY <1>4, <2>3, <2>4, <2>5, <2>6
  <2>8. QED
    BY <2>7 DEF m, ly, l, uo, uc
<1>5. CASE t.host # {} /\ t.ip # {}
  <2>1. MainOf(t) = ((h \o <<"(">>) \o ip) \o <<")">>
    BY <1>5 DEF MainOf, h, ip
  <2>2. QED
    BY ZenonT(40), <1>1, <1>2, <1>4, <1>5, <2>1 DEF bad
<1>6. CASE t.host # {} /\ t.ip = {}
  <2>1. MainOf(t) = h
    BY <1>6 DEF MainOf, h, ip
  <2>2. QED
    BY <1>1, <1>2, <1>6, <2>1 DEF bad
<1>7. CASE t.host = {} /\ t.ip # {} /\ t.ipv6
  <2>1. MainOf(t) = (<<"[">> \o ip) \o <<"]">>
    BY <1>7 DEF MainOf, h, ip
  <2>2. <<"[">> \in Words
    BY <1>2, OneWord
  <2>3. MainOf(t) = ((<<>> \o <<"[">>) \o ip) \o <<"]">>
    BY <2>1, <2>2, Joined
  <2>4. <<>> \in Words /\ ToSet(<<>>) \cap bad = {}
    BY WordsAre
  <2>5. ip \in Words /\ ToSet(ip) \cap bad = {}
    BY <1>1, <1>2, <1>7
  <2> DEFINE none == <<>>
             m == ((none \o <<"[">>) \o ip) \o <<"]">>
  <2>6. none \in Words /\ ToSet(none) \cap bad = {} /\ MainOf(t) = m
    BY <2>3, <2>4
  <2> HIDE DEF none
  <2>7. m \in Words /\ m # <<>> /\ ToSet(m) \cap bad = {}
    BY <1>2, <1>4, <2>5, <2>6
  <2> HIDE DEF m
  <2>8. QED
    BY <2>6, <2>7 DEF bad
<1>8. CASE t.host = {} /\ t.ip # {} /\ ~ t.ipv6
  <2>1. MainOf(t) = ip
    BY <1>8 DEF MainOf, h, ip
  <2>2. QED
    BY <1>1, <1>2, <1>8, <2>1 DEF bad
<1>9. QED
  BY <1>3, <1>5, <1>6, <1>7, <1>8

LEMMA FirstIn == ASSUME NEW s \in Words, s # <<>> PROVE s[1] \in ToSet(s) /\ 1 \in 1 .. Len(s)
<1>1. 1 \in 1 .. Len(s)
  BY WordsAre
<1>2. QED
  BY <1>1, WordsAre

LEMMA FirstOfJoin ==
  ASSUME NEW a \in Words, NEW b \in Words, a # <<>>
  PROVE  (a \o b)[1] = a[1] /\ a \o b # <<>>
<1> DEFINE s == a \o b
<1>1. IsJoin(s, a, b)
  BY DEF IsJoin
<1> HIDE DEF s
<1>2. s[1] = a[1] /\ Len(s) = Len(a) + Len(b)
  BY <1>1, FirstIn, JoinPlaces
<1>3. Len(a) \in Nat /\ Len(a) # 0 /\ Len(b) \in Nat
  BY WordsAre
<1>4. s # <<>>
  BY <1>2, <1>3, WordsAre
<1>5. QED
  BY <1>2, <1>4 DEF s

LEMMA DecodedMain ==
  ASSUME NEW t \in TargetType, LegibleTarget(t), NEW notes, notes = Notes(ProtoOf(t) \o SixOf(t))
  PROVE  Decoded((MainOf(t) \o <<":">>) \o <<Numeral[t.port]>>, notes) = {t}
<1> DEFINE h == CHOOSE x \in t.host : TRUE
           ip == CHOOSE x \in t.ip : TRUE
           colon == ":"
           num == Numeral[t.port]
           un == <<num>>
           s == (MainOf(t) \o <<colon>>) \o un
<1>1. /\ t.host # {} => h \in Words /\ h # <<>> /\ ToSet(h) \cap Marks = {} /\ t.host = {h}
      /\ t.ip # {} => ip \in Words /\ ip # <<>> /\ ToSet(ip) \cap Marks = {} /\ t.ip = {ip}
  <2>1. /\ t.host # {} => h \in t.host /\ t.host = {h}
        /\ t.ip # {} => ip \in t.ip /\ t.ip = {ip}
    <3>1. AtMostOne(t.host) /\ AtMostOne(t.ip)
      BY DEF LegibleTarget
    <3>2. t.host # {} => h \in t.host /\ t.host = {h}
      BY <3>1, OnlyOne
    <3>3. t.ip # {} => ip \in t.ip /\ t.ip = {ip}
      BY <3>1, OnlyOne
    <3>4. QED
      BY <3>2, <3>3
  <2> HIDE DEF h, ip
  <2>2. \A x \in t.host \cup t.ip : x \in Words /\ x # <<>> /\ ToSet(x) \cap Marks = {}
    BY TextIsWords DEF LegibleTarget, Free, NoText, TargetType
  <2>3. QED
    BY <2>1, <2>2
<1>2. t.port \in Ports /\ t.ipv6 \in BOOLEAN /\ t = [host |-> t.host, ip |-> t.ip, port |-> t.port, ipv6 |-> t.ipv6, proto |-> t.proto]
  BY DEF TargetType
<1>3. num \in Token /\ num \notin Marks /\ num # colon /\ Number(un) = {t.port} /\ un \in Words /\ ToSet(un) = {num}
  BY <1>2, NumeralIs, OneWord
<1>4. /\ "[" \in Token /\ "]" \in Token /\ colon \in Token
      /\ "[" \in Marks /\ "]" \in Marks /\ "(" \in Marks /\ colon \notin Marks /\ "]" # "[" /\ "]" # ":"
  BY MarksAre DEF Marks
<1>5. MainOf(t) \in Words /\ MainOf(t) # <<>>
  BY MainIs
<1>6. \A six \in BOOLEAN : six \/ "IPv6" \in notes <=> six \/ t.ipv6
  BY NotesAre
<1>7. ASSUME NEW six \in BOOLEAN, six \/ t.ipv6 <=> t.ipv6
      PROVE  Target(t.host, t.ip, t.port, notes, six) = t
  <2>1. t.proto = IF "UDP" \in notes THEN "UDP" ELSE IF "ICMP" \in notes THEN "ICMP" ELSE "TCP"
    BY NotesAre
  <2>2. (six \/ "IPv6" \in notes) = t.ipv6
    BY <1>2, <1>6, <1>7
  <2>3. Target(t.host, t.ip, t.port, notes, six)
          = [host |-> t.host, ip |-> t.ip, port |-> t.port, ipv6 |-> t.ipv6, proto |-> t.proto]
    BY <2>1, <2>2 DEF Target
  <2>4. QED
    BY <1>2, <2>3
<1> HIDE DEF h, ip, num
<1>8. CASE t.host = {} /\ t.ipv6
  <2>1. t.ip # {}
    BY <1>8 DEF LegibleTarget
  <2>2. MainOf(t) = (<<"[">> \o ip) \o <<"]">>
    BY <1>8, <2>1 DEF MainOf, ip
  <2> DEFINE open == "["
             close == "]"
             I == Bracket(s, open, close, colon)
  <2>3. Literal(s, open, ip, close, colon, num)
    BY <2>2 DEF Literal
  <2>4. /\ open \in Token /\ close \in Token /\ close # open /\ close # colon /\ close # num /\ close \notin ToSet(ip)
    BY <1>1, <1>3, <1>4, <2>1
  <2>5. Literals(s) = I
    BY DEF Literals, Bracket
  <2> HIDE DEF s, open, close, colon
  <2>6. I # {} /\ SubSeq(s, 2, Min(I) - 1) = ip /\ SubSeq(s, Min(I) + 2, Len(s)) = un
    BY <1>1, <1>3, <1>4, <2>1, <2>3, <2>4, InBrackets
  <2> HIDE DEF I, un
  <2>7. Decoded(s, notes) = {Target({}, {ip}, n, notes, TRUE) : n \in Number(un)}
    BY <2>5, <2>6 DEF Decoded
  <2>8. Decoded(s, notes) = {Target({}, {ip}, t.port, notes, TRUE)}
    BY <1>3, <2>7
  <2>9. Target(t.host, t.ip, t.port, notes, TRUE) = t
    BY <1>7, <1>8
  <2>10. QED
    BY <1>1, <1>8, <2>1, <2>8, <2>9 DEF s, un, num, colon
<1>9. CASE ~ (t.host = {} /\ t.ipv6)
  <2>1. HostAndIp(MainOf(t)) = <<t.host, t.ip>>
    <3>1. CASE t.host # {} /\ t.ip # {}
      <4>1. MainOf(t) = ((h \o <<"(">>) \o ip) \o <<")">>
        BY <3>1 DEF MainOf, h, ip
      <4>2. "(" \notin ToSet(ip)
        BY <1>1, <1>4, <3>1
      <4>3. QED
        BY <1>1, <3>1, <4>1, <4>2, HostAndAddress DEF NoText
    <3>2. CASE t.host # {} /\ t.ip = {}
      <4>1. MainOf(t) = h
        BY <3>2 DEF MainOf, h
      <4>2. "(" \notin ToSet(h) /\ h \in t.host
        BY <1>1, <1>4, <3>2
      <4>3. ParseIpv4(h) = {}
        BY <3>2, <4>2 DEF LegibleTarget
      <4>4. QED
        BY <1>1, <3>2, <4>1, <4>2, <4>3, HostOrAddress
    <3>3. CASE t.host = {} /\ t.ip # {}
      <4>1. MainOf(t) = ip
        BY <1>9, <3>3 DEF MainOf, ip
      <4>2. "(" \notin ToSet(ip) /\ ip \in t.ip
        BY <1>1, <1>4, <3>3
      <4>3. ParseIpv4(ip) # {}
        BY <1>9, <3>3, <4>2 DEF LegibleTarget
      <4>4. QED
        BY <1>1, <3>3, <4>1, <4>2, <4>3, HostOrAddress
    <3>4. t.host # {} \/ t.ip # {}
      BY DEF LegibleTarget
    <3>5. QED
      BY <3>1, <3>2, <3>3, <3>4
  <2>2. MainOf(t)[1] # "["
    <3>1. CASE t.host = {}
      <4>1. MainOf(t) = ip /\ t.ip # {}
        BY <1>9, <3>1 DEF MainOf, ip, LegibleTarget
      <4>2. ip[1] \in ToSet(ip)
        BY <1>1, <4>1, FirstIn
      <4>3. QED
        BY <1>1, <1>4, <4>1, <4>2
    <3>2. CASE t.host # {}
      <4>1. h[1] \in ToSet(h)
        BY <1>1, <3>2, FirstIn
      <4>2. MainOf(t)[1] = h[1]
        <5>1. CASE t.ip = {}
          BY <3>2, <5>1 DEF MainOf, h
        <5>2. CASE t.ip # {}
          <6>1. MainOf(t) = ((h \o <<"(">>) \o ip) \o <<")">>
            BY <3>2, <5>2 DEF MainOf, h, ip
          <6>2. <<"(">> \in Words /\ <<")">> \in Words /\ h \o <<"(">> \in Words /\ (h \o <<"(">>) \o ip \in Words
            BY <1>1, <3>2, <5>2, MarksAre, OneWord, Join DEF Marks
          <6>3. QED
            BY <1>1, <3>2, <6>1, <6>2, FirstOfJoin
        <5>3. QED
          BY <5>1, <5>2
      <4>3. QED
        BY <1>1, <1>4, <3>2, <4>1, <4>2
    <3>3. QED
      BY <3>1, <3>2
  <2>3. Between(s, MainOf(t), colon, un)
    BY DEF Between
  <2>4. s[1] = MainOf(t)[1] /\ s # <<>>
    <3>1. <<colon>> \in Words /\ MainOf(t) \o <<colon>> \in Words
      BY <1>4, <1>5, OneWord, Join
    <3> HIDE DEF un, colon
    <3>2. (MainOf(t) \o <<colon>>)[1] = MainOf(t)[1] /\ MainOf(t) \o <<colon>> # <<>>
      BY <1>5, <3>1, FirstOfJoin
    <3>3. QED
      BY <1>3, <3>1, <3>2, FirstOfJoin
  <2> HIDE DEF s
  <2>5. Literals(s) = {}
    BY <2>2, <2>4 DEF Literals
  <2>6. SplitLast(s, colon) = {<<MainOf(t), un>>}
    <3>1. colon \notin ToSet(un)
      BY <1>3
    <3> HIDE DEF un, colon
    <3>2. QED
      BY <1>3, <1>4, <1>5, <2>3, <3>1, Cut
  <2> DEFINE At(cut) == {Target(HostAndIp(cut[1])[1], HostAndIp(cut[1])[2], n, notes, FALSE) : n \in Number(cut[2])}
  <2>7. Decoded(s, notes) = UNION {At(cut) : cut \in SplitLast(s, colon)}
    BY <2>5 DEF Decoded
  <2> HIDE DEF un, colon, At
  <2>13. Decoded(s, notes) = At(<<MainOf(t), un>>)
    BY <2>6, <2>7
  <2>8. Decoded(s, notes) = {Target(HostAndIp(MainOf(t))[1], HostAndIp(MainOf(t))[2], n, notes, FALSE) : n \in Number(un)}
    BY <2>13 DEF At
  <2>9. Decoded(s, notes) = {Target(t.host, t.ip, n, notes, FALSE) : n \in Number(un)}
    BY <2>1, <2>8
  <2>10. Decoded(s, notes) = {Target(t.host, t.ip, t.port, notes, FALSE)}
    BY <1>3, <2>9
  <2>11. Target(t.host, t.ip, t.port, notes, FALSE) = t
    BY <1>7
  <2>12. QED
    BY <2>10, <2>11 DEF s, un, num, colon
<1>10. QED
  BY <1>2, <1>8, <1>9

LEMMA TargetReadBack ==
  ASSUME NEW t \in TargetType, LegibleTarget(t)
  PROVE  /\ ParseTarget(WriteTarget(t)) = {t}
         /\ WriteTarget(t) \in Words /\ ToSet(WriteTarget(t)) \cap Keywords = {}
<1> DEFINE main  == MainOf(t)
           colon == <<":">>
           num   == Numeral[t.port]
           mc    == main \o colon
           s     == mc \o <<num>>
           b     == ProtoOf(t) \o SixOf(t)
           raw   == s \o b
<1>1. num \in Token /\ num \notin Marks /\ <<num>> \in Words /\ ToSet(<<num>>) = {num}
  BY NumeralIs, OneWord DEF TargetType
<1>2. main \in Words /\ ToSet(main) \cap (Keywords \cup DOMAIN Annotation) = {}
  BY MainIs
<1>3. /\ ProtoOf(t) \in Words /\ SixOf(t) \in Words /\ b \in Words /\ ToSet(b) \subseteq DOMAIN Annotation
  BY NotesAre, Join
<1>4. colon \in Words /\ ToSet(colon) = {":"}
  BY MarksAre, OneWord
<1>5. ":" \notin Keywords /\ Keywords \subseteq Marks /\ DOMAIN Annotation \subseteq Marks /\ DOMAIN Annotation \cap Keywords = {}
  BY DEF Keywords, Marks, Annotation
<1> HIDE DEF main, colon, num
<1>6. mc \in Words /\ ToSet(mc) = ToSet(main) \cup {":"}
  BY <1>2, <1>4, Join
<1>7. s \in Words /\ ToSet(s) = ToSet(mc) \cup {num}
  <2> HIDE DEF mc
  <2>1. QED
    BY <1>1, <1>6, Join
<1>8. raw \in Words /\ ToSet(raw) = ToSet(s) \cup ToSet(b)
  <2> HIDE DEF s, b
  <2>1. QED
    BY <1>3, <1>7, Join
<1>9. WriteTarget(t) = raw
  <2>1. WriteTarget(t) = ((main \o <<":", num>>) \o ProtoOf(t)) \o SixOf(t)
    BY DEF WriteTarget, MainOf, ProtoOf, SixOf, main, num
  <2>2. <<":", num>> = colon \o <<num>>
    BY <1>1, MarksAre, Two DEF colon
  <2>3. main \o (colon \o <<num>>) = s
    BY <1>1, <1>2, <1>4, Joined
  <2> HIDE DEF s
  <2>4. (s \o ProtoOf(t)) \o SixOf(t) = raw
    BY <1>3, <1>7, Joined
  <2>5. QED
    BY <2>1, <2>2, <2>3, <2>4
<1>10. ParseTarget(raw) = Decoded(s, Notes(b))
  <2>1. IsJoin(s, mc, <<num>>) /\ IsJoin(raw, s, b)
    BY DEF IsJoin
  <2>2. num \notin DOMAIN Annotation
    BY <1>1, <1>5
  <2> HIDE DEF s, mc, raw, b
  <2>3. QED
    BY <1>1, <1>3, <1>6, <2>1, <2>2, Annotated
<1>11. Decoded(s, Notes(b)) = {t}
  BY DecodedMain DEF main, colon, num
<1>12. ToSet(raw) \cap Keywords = {}
  <2> HIDE DEF raw, s, mc, b
  <2>1. num \notin Keywords
    BY <1>1, <1>5
  <2>2. QED
    BY <1>2, <1>3, <1>5, <1>6, <1>7, <1>8, <2>1
<1> HIDE DEF raw
<1>13. QED
  BY <1>8, <1>9, <1>10, <1>11, <1>12

(* The rest of a connection's line.                                          *)
LEMMA TripleIs ==
  ASSUME NEW S, NEW c \in S, NEW d \in S, NEW e \in S
  PROVE  /\ <<c, d, e>> \in Seq(S) /\ Len(<<c, d, e>>) = 3
         /\ <<c, d, e>>[1] = c /\ <<c, d, e>>[2] = d /\ <<c, d, e>>[3] = e
OBVIOUS

LEMMA Three ==
  ASSUME NEW c \in Token, NEW d \in Token, NEW e \in Token
  PROVE  /\ <<c, d, e>> = <<c, d>> \o <<e>> /\ <<c, d, e>> \in Words /\ ToSet(<<c, d, e>>) = {c, d, e}
<1> DEFINE u == <<c, d>>
           v == <<e>>
           s == u \o v
           r == <<c, d, e>>
<1>1. u \in Words /\ ToSet(u) = {c, d} /\ Len(u) = 2 /\ u[1] = c /\ u[2] = d
  BY Two, PairIs
<1>2. v \in Words /\ Len(v) = 1 /\ v[1] = e /\ ToSet(v) = {e}
  BY OneWord
<1>3. r \in Words /\ Len(r) = 3 /\ r[1] = c /\ r[2] = d /\ r[3] = e
  BY TripleIs DEF Words
<1>4. IsJoin(s, u, v)
  BY DEF IsJoin
<1>5. ToSet(s) = {c, d} \cup {e}
  <2> HIDE DEF u, v
  <2>1. QED
    BY <1>1, <1>2, Join
<1> HIDE DEF u, v, s, r
<1>6. s \in Words /\ Len(s) = Len(u) + 1 /\ s[Len(u) + 1] = v[1] /\ \A i \in 1 .. Len(u) : s[i] = u[i]
  <2>1. u \in Words /\ v \in Words /\ Len(v) = 1
    BY <1>1, <1>2
  <2>2. QED
    BY <2>1, <1>4, JoinOne
<1>7. Len(s) = 3 /\ s[1] = c /\ s[2] = d /\ s[3] = e
  BY <1>1, <1>2, <1>6
<1>8. \A i \in 1 .. 3 : s[i] = r[i]
  BY <1>3, <1>7
<1>9. r = s
  BY <1>3, <1>6, <1>7, <1>8, SeqEqual DEF Words
<1>10. r \in Words /\ ToSet(r) = {c, d, e}
  BY <1>3, <1>5, <1>9
<1>11. QED
  BY <1>9, <1>10 DEF r, s, u, v

LEMMA PhraseReadBack ==
  ASSUME NEW a \in DOMAIN Phrases
  PROVE  ParseAction(Phrases[a]) = a /\ Phrases[a] \in Words /\ ToSet(Phrases[a]) \cap Keywords = {}
<1>1. DOMAIN Phrases = {"Direct", "Block", "Proxy", "Other"}
  BY DEF Phrases
<1>9. /\ "direct" \in Token /\ "connection" \in Token /\ "blocked" \in Token /\ "proxy" \in Token
      /\ "main" \in Token /\ "SOCKS5" \in Token /\ "close" \in Token
  BY DEF Token
<1>3. /\ Phrases["Direct"] = <<"direct", "connection">> /\ Phrases["Block"] = <<"connection", "blocked">>
      /\ Phrases["Proxy"] = <<"proxy", "main", "SOCKS5">> /\ Phrases["Other"] = <<"close">>
  BY DEF Phrases
<1>4. ASSUME NEW s, ToSet(s) = {"direct", "connection"}
      PROVE  ParseAction(s) = "Direct" /\ ToSet(s) \cap Keywords = {}
  BY <1>4 DEF ParseAction, Blocking, Proxying, Directing, Keywords
<1>5. ASSUME NEW s, ToSet(s) = {"connection", "blocked"}
      PROVE  ParseAction(s) = "Block" /\ ToSet(s) \cap Keywords = {}
  BY <1>5 DEF ParseAction, Blocking, Proxying, Directing, Keywords
<1>6. ASSUME NEW s, ToSet(s) = {"proxy", "main", "SOCKS5"}
      PROVE  ParseAction(s) = "Proxy" /\ ToSet(s) \cap Keywords = {}
  BY <1>6 DEF ParseAction, Blocking, Proxying, Directing, Keywords
<1>7. ASSUME NEW s, ToSet(s) = {"close"}
      PROVE  ParseAction(s) = "Other" /\ ToSet(s) \cap Keywords = {}
  BY <1>7 DEF ParseAction, Blocking, Proxying, Directing, Keywords
<1>8. CASE a = "Direct"
  <2>1. Phrases[a] \in Words /\ ToSet(Phrases[a]) = {"direct", "connection"}
    <3> DEFINE c == "direct"
               d == "connection"
    <3>1. c \in Token /\ d \in Token /\ Phrases[a] = <<c, d>>
      BY <1>3, <1>8, <1>9
    <3> HIDE DEF c, d
    <3>2. Phrases[a] \in Words /\ ToSet(Phrases[a]) = {c, d}
      BY <3>1, Two
    <3>3. QED
      BY <3>2 DEF c, d
  <2>2. QED
    BY <1>8, <1>4, <2>1
<1>10. CASE a = "Block"
  <2>1. Phrases[a] \in Words /\ ToSet(Phrases[a]) = {"connection", "blocked"}
    <3> DEFINE c == "connection"
               d == "blocked"
    <3>1. c \in Token /\ d \in Token /\ Phrases[a] = <<c, d>>
      BY <1>3, <1>10, <1>9
    <3> HIDE DEF c, d
    <3>2. Phrases[a] \in Words /\ ToSet(Phrases[a]) = {c, d}
      BY <3>1, Two
    <3>3. QED
      BY <3>2 DEF c, d
  <2>2. QED
    BY <1>10, <1>5, <2>1
<1>11. CASE a = "Proxy"
  <2>1. Phrases[a] \in Words /\ ToSet(Phrases[a]) = {"proxy", "main", "SOCKS5"}
    <3> DEFINE c == "proxy"
               d == "main"
               e == "SOCKS5"
    <3>1. c \in Token /\ d \in Token /\ e \in Token /\ Phrases[a] = <<c, d, e>>
      BY <1>3, <1>11, <1>9
    <3> HIDE DEF c, d, e
    <3>2. Phrases[a] \in Words /\ ToSet(Phrases[a]) = {c, d, e}
      BY <3>1, Three
    <3>3. QED
      BY <3>2 DEF c, d, e
  <2>2. QED
    BY <1>11, <1>6, <2>1
<1>12. CASE a = "Other"
  <2>1. Phrases[a] \in Words /\ ToSet(Phrases[a]) = {"close"}
    BY <1>3, <1>12, <1>9, OneWord
  <2>2. QED
    BY <1>12, <1>7, <2>1
<1>13. QED
  BY <1>1, <1>8, <1>10, <1>11, <1>12

(* A line with a timestamp.                                                  *)
LineText(rest, w, body) == rest = (w \o <<" - ">>) \o body

NoDash(w) == " - " \notin ToSet(w)

LEMMA LineParsed ==
  ASSUME NEW ts, NEW w \in Words, NEW body \in Words, NoDash(w), NEW i,
         NEW line, line.ts = {ts}, LineText(line.rest, w, body)
  PROVE  ParseLine(line, i) = ParseBody(ts, ParseProcess(w), body, i)
<1> DEFINE dash == " - "
           Of(x, cut) == ParseBody(x, ParseProcess(cut[1]), cut[2], i)
           At(x) == UNION {Of(x, cut) : cut \in Split(line.rest, dash)}
<1>1. dash \in Token /\ dash \notin ToSet(w) /\ Between(line.rest, w, dash, body)
  BY MarksAre DEF Marks, Between, LineText, NoDash
<1>2. ParseLine(line, i) = UNION {At(x) : x \in line.ts}
  BY DEF ParseLine
<1> HIDE DEF dash
<1>3. Split(line.rest, dash) = {<<w, body>>}
  <2> DEFINE rest == line.rest
  <2>1. w \in Words /\ body \in Words /\ dash \in Token /\ dash \notin ToSet(w) /\ Between(rest, w, dash, body)
    BY <1>1
  <2> HIDE DEF rest
  <2>2. Split(rest, dash) = {<<w, body>>}
    BY <2>1, CutFirst
  <2>3. QED
    BY <2>2 DEF rest
<1> HIDE DEF At
<1>4. ParseLine(line, i) = At(ts)
  BY <1>2
<1> HIDE DEF Of
<1>5. At(ts) = Of(ts, <<w, body>>)
  BY <1>3 DEF At
<1>6. QED
  BY <1>4, <1>5 DEF Of

MatchText(body, target, rule, phrase) ==
  body = (((target \o <<" matching ">>) \o rule) \o <<" rule : ">>) \o phrase

Clear(target, rule) == " matching " \notin ToSet(target) /\ " rule : " \notin ToSet(rule)

LEMMA MatchParsed ==
  ASSUME NEW target \in Words, NEW rule \in Words, NEW phrase \in Words, NEW t, ParseTarget(target) = {t},
         Clear(target, rule), NEW ts, NEW process, NEW i,
         NEW body, MatchText(body, target, rule, phrase)
  PROVE  ParseMatch(ts, process, body, i) = {Connection(ts, process, t, rule, ParseAction(phrase), i)}
<1> DEFINE match == " matching "
           name  == " rule : "
           right == (rule \o <<name>>) \o phrase
           At(side, cut) == {<<x, cut[1], ParseAction(cut[2])>> : x \in ParseTarget(side[1])}
           On(side) == UNION {At(side, cut) : cut \in Split(side[2], name)}
           all == UNION {On(side) : side \in Split(body, match)}
<1>1. match \in Token /\ name \in Token /\ match \notin ToSet(target) /\ name \notin ToSet(rule)
  BY MarksAre DEF Marks, Keywords, Clear
<1>2. ParseMatch(ts, process, body, i) = {Connection(ts, process, m[1], m[2], m[3], i) : m \in all}
  BY DEF ParseMatch
<1>3. body = (((target \o <<match>>) \o rule) \o <<name>>) \o phrase
  BY DEF MatchText
<1> HIDE DEF match, name
<1>4. body = (target \o <<match>>) \o right /\ right \in Words
  <2> DEFINE tm == target \o <<match>>
             un == <<name>>
             rn == rule \o un
  <2>1. tm \in Words /\ un \in Words
    BY <1>1, OneWord, Join
  <2>2. rn \in Words
    BY <2>1, Join
  <2> HIDE DEF tm, un
  <2>3. ((tm \o rule) \o un) \o phrase = (tm \o rn) \o phrase
    BY SMTT(40), <2>1, Grouped
  <2>4. (tm \o rn) \o phrase = tm \o (rn \o phrase)
    <3> HIDE DEF rn
    <3>1. QED
      BY SMTT(40), <2>1, <2>2, Grouped
  <2>5. rn \o phrase \in Words
    BY <2>2, Join
  <2>6. QED
    BY <1>3, <2>3, <2>4, <2>5 DEF tm, un
<1>5. Between(body, target, match, right) /\ Between(right, rule, name, phrase)
  BY <1>4 DEF Between
<1> HIDE DEF right
<1>6. Split(body, match) = {<<target, right>>} /\ Split(right, name) = {<<rule, phrase>>}
  <2>1. /\ target \in Words /\ right \in Words /\ match \in Token
        /\ match \notin ToSet(target) /\ Between(body, target, match, right)
    BY <1>1, <1>4, <1>5
  <2>2. /\ rule \in Words /\ phrase \in Words /\ name \in Token
        /\ name \notin ToSet(rule) /\ Between(right, rule, name, phrase)
    BY <1>1, <1>5
  <2>3. Split(body, match) = {<<target, right>>}
    BY <2>1, CutFirst
  <2>4. Split(right, name) = {<<rule, phrase>>}
    BY <2>2, CutFirst
  <2>5. QED
    BY <2>3, <2>4
<1> HIDE DEF On
<1>7. all = On(<<target, right>>)
  BY <1>6
<1> HIDE DEF At, all
<1>8. On(<<target, right>>) = At(<<target, right>>, <<rule, phrase>>)
  BY <1>6 DEF On
<1>9. At(<<target, right>>, <<rule, phrase>>) = {<<t, rule, ParseAction(phrase)>>}
  BY DEF At
<1>10. all = {<<t, rule, ParseAction(phrase)>>}
  BY <1>7, <1>8, <1>9
<1> DEFINE m0 == <<t, rule, ParseAction(phrase)>>
<1>11. m0[1] = t /\ m0[2] = rule /\ m0[3] = ParseAction(phrase)
  OBVIOUS
<1> HIDE DEF m0
<1>12. QED
  BY <1>2, <1>10, <1>11 DEF m0

(* The rest of the line of a name resolution.                                *)
FiveIn(s, x, t, n, q, a)      == s = (((x \o t) \o n) \o q) \o a
FirstOfFive(s, x, t, n, q, a) == s = x \o ((t \o n) \o (q \o a))

LEMMA FiveGrouped ==
  ASSUME NEW x \in Words, NEW t \in Words, NEW n \in Words, NEW q \in Words, NEW a \in Words,
         NEW s, FiveIn(s, x, t, n, q, a)
  PROVE  FirstOfFive(s, x, t, n, q, a)
<1> DEFINE xt  == x \o t
           tn  == t \o n
           xtn == x \o tn
           qa  == q \o a
<1>1. tn \in Words /\ qa \in Words
  BY Join
<1>2. xt \o n = xtn
  BY SMTT(40), Grouped
<1> HIDE DEF tn
<1>3. xtn \in Words
  BY <1>1, Join
<1> HIDE DEF xtn
<1>4. (xtn \o q) \o a = xtn \o qa
  BY SMTT(40), <1>3, Grouped
<1> HIDE DEF qa
<1>5. xtn \o qa = x \o (tn \o qa)
  <2>1. (x \o tn) \o qa = x \o (tn \o qa)
    BY SMTT(40), <1>1, Grouped
  <2>2. QED
    BY <2>1 DEF xtn
<1> HIDE DEF xt
<1>6. ((xt \o n) \o q) \o a = x \o (tn \o qa)
  BY <1>2, <1>4, <1>5
<1>7. s = ((xt \o n) \o q) \o a
  BY DEF FiveIn, xt
<1>8. QED
  BY <1>6, <1>7 DEF FirstOfFive, tn, qa

(* What follows the name of a response.                                      *)
Answered(ip) == (<<",", "IP=">> \o ip) \o <<",", "ttl=", "9">>
TypeText(n)  == <<"Type=", Numeral[n], ",">>

LEMMA AnswerIs ==
  ASSUME NEW ip \in Words
  PROVE  /\ Answered(ip) \in Words /\ ToSet(Answered(ip)) = {",", "IP=", "ttl=", "9"} \cup ToSet(ip)
         /\ Answered(ip)[1] = ","
         /\ Between(Answered(ip), <<",">>, "IP=", ip \o <<",", "ttl=", "9">>)
<1> DEFINE comma == ","
           key   == "IP="
           uc == <<comma>>
           uk == <<key>>
           z  == <<comma, "ttl=", "9">>
           ck == <<comma, key>>
           cki == ck \o ip
           all == cki \o z
<1>1. comma \in Token /\ key \in Token /\ "ttl=" \in Token /\ "9" \in Token
  BY MarksAre DEF Token, Marks
<1>2. z \in Words /\ ToSet(z) = {comma, "ttl=", "9"}
  BY <1>1, Three
<1>3. uc \in Words /\ uk \in Words /\ uc[1] = comma /\ uc # <<>>
  BY <1>1, OneWord
<1> HIDE DEF z
<1>4. ck = uc \o uk /\ ck \in Words /\ ToSet(ck) = {comma, key}
  BY <1>1, Two
<1>5. Answered(ip) = all
  BY DEF Answered, z
<1> HIDE DEF ck, comma, key, uc, uk
<1>6. cki \in Words /\ ToSet(cki) = ToSet(ck) \cup ToSet(ip)
  BY <1>4, Join
<1> HIDE DEF cki
<1>7. all \in Words /\ ToSet(all) = ToSet(cki) \cup ToSet(z)
  BY <1>2, <1>6, Join
<1>8. all = ck \o (ip \o z)
  BY <1>2, <1>4, Grouped DEF cki
<1>9. (uc \o uk) \o (ip \o z) = uc \o (uk \o (ip \o z)) /\ uk \o (ip \o z) \in Words
  <2>1. ip \o z \in Words
    BY <1>2, Join
  <2>2. uk \o (ip \o z) \in Words
    BY <1>3, <2>1, Join
  <2>3. QED
    BY SMTT(40), <1>3, <2>1, <2>2, Grouped
<1>10. all[1] = comma
  <2> DEFINE r == uk \o (ip \o z)
  <2>1. r \in Words /\ all = uc \o r
    BY <1>4, <1>8, <1>9
  <2> HIDE DEF r, all
  <2>2. (uc \o r)[1] = uc[1]
    BY <1>3, <2>1, FirstOfJoin
  <2>3. QED
    BY <1>3, <2>1, <2>2
<1>11. Between(all, uc, key, ip \o z)
  BY <1>4, <1>8 DEF Between, uk
<1> HIDE DEF all
<1>12. QED
  BY <1>2, <1>4, <1>5, <1>6, <1>7, <1>10, <1>11 DEF uc, comma, key, z

LEMMA TypeIs ==
  ASSUME NEW n \in Ports
  PROVE  /\ TypeText(n) \in Words /\ ToSet(TypeText(n)) = {"Type=", Numeral[n], ","}
         /\ TypeText(n) = (<<"Type=">> \o <<Numeral[n]>>) \o <<",">>
<1>1. "Type=" \in Token /\ "," \in Token /\ Numeral[n] \in Token
  BY NumeralIs, MarksAre DEF Marks
<1> DEFINE key == "Type="
           comma == ","
           num == Numeral[n]
<1>2. TypeText(n) = <<key, num, comma>> /\ key \in Token /\ comma \in Token /\ num \in Token
  BY <1>1 DEF TypeText
<1> HIDE DEF key, comma, num
<1>3. <<key, num, comma>> \in Words /\ ToSet(<<key, num, comma>>) = {key, num, comma}
      /\ <<key, num, comma>> = <<key, num>> \o <<comma>>
  BY <1>2, Three
<1>4. <<key, num>> = <<key>> \o <<num>>
  BY <1>2, Two
<1>5. QED
  BY <1>2, <1>3, <1>4 DEF key, comma, num

(* What follows the phrase of a request or a response.                       *)
RestText(rest, type, qname, ans) == rest = (type \o <<"Name=">>) \o (qname \o ans)

LEMMA RestIs ==
  ASSUME NEW type \in Words, NEW qname \in Words, NEW ans \in Words, NEW rest, RestText(rest, type, qname, ans)
  PROVE  /\ rest \in Words /\ ToSet(rest) = ToSet(type) \cup {"Name="} \cup ToSet(qname) \cup ToSet(ans)
         /\ Between(rest, type, "Name=", qname \o ans) /\ qname \o ans \in Words
<1> DEFINE key == "Name="
           uk  == <<key>>
           tk  == type \o uk
           qa  == qname \o ans
<1>1. key \in Token
  BY MarksAre DEF Marks
<1>2. Between(rest, type, key, qa)
  BY DEF Between, RestText
<1>3. rest = tk \o qa
  BY DEF RestText
<1> HIDE DEF key
<1>4. uk \in Words /\ ToSet(uk) = {key}
  BY <1>1, OneWord
<1> HIDE DEF uk
<1>5. tk \in Words /\ ToSet(tk) = ToSet(type) \cup {key}
  BY <1>4, Join
<1>6. qa \in Words /\ ToSet(qa) = ToSet(qname) \cup ToSet(ans)
  BY Join
<1> HIDE DEF tk, qa
<1>7. tk \o qa \in Words /\ ToSet(tk \o qa) = ToSet(tk) \cup ToSet(qa)
  BY <1>5, <1>6, Join
<1>8. rest \in Words /\ ToSet(rest) = ToSet(type) \cup {key} \cup ToSet(qname) \cup ToSet(ans)
  BY <1>3, <1>5, <1>6, <1>7
<1>9. QED
  BY <1>2, <1>6, <1>8 DEF key, qa

LEMMA CommaIs == Comma(",") /\ "," \in Token
BY MarksAre DEF Comma, Marks

LEMMA NameValue ==
  ASSUME NEW type \in Words, NEW qname \in Words, NEW ans \in Words, NEW rest, RestText(rest, type, qname, ans),
         "Name=" \notin ToSet(type), "," \notin ToSet(qname), ans = <<>> \/ ans[1] = ","
  PROVE  Value(rest, "Name=") = {qname}
<1> DEFINE key == "Name="
           comma == ","
           qa == qname \o ans
<1>1. key \in Token /\ Comma(comma) /\ comma \notin ToSet(qname) /\ key \notin ToSet(type)
  BY MarksAre, CommaIs DEF Marks
<1>2. Between(rest, type, key, qa) /\ IsJoin(qa, qname, ans) /\ qa \in Words
  BY RestIs DEF IsJoin
<1>3. EndsAt(ans, comma)
  BY WordsAre DEF EndsAt
<1>6. /\ key \in Token /\ Comma(comma) /\ comma \notin ToSet(qname) /\ key \notin ToSet(type)
      /\ Between(rest, type, key, qa) /\ IsJoin(qa, qname, ans) /\ qa \in Words /\ EndsAt(ans, comma)
  BY <1>1, <1>2, <1>3
<1> HIDE DEF key, comma, qa
<1>4. Value(rest, key) = {qname}
  BY <1>6, ValueIs
<1>5. QED
  BY <1>4 DEF key

LEMMA TypeValue ==
  ASSUME NEW n \in Ports, NEW qname \in Words, NEW ans \in Words, NEW rest, RestText(rest, TypeText(n), qname, ans)
  PROVE  NumberOf(rest, "Type=") = {n}
<1> DEFINE key   == "Type="
           comma == ","
           name  == <<"Name=">>
           un == <<Numeral[n]>>
           uk == <<key>>
           uc == <<comma>>
           qa == qname \o ans
           nqa == name \o qa
           z  == uc \o nqa
           b  == un \o z
           none == <<>>
<1>1. key \in Token /\ comma \in Token /\ Comma(comma) /\ name \in Words
  BY MarksAre, CommaIs, OneWord DEF Marks
<1>2. Numeral[n] \in Token /\ Numeral[n] \notin Marks /\ Number(un) = {n}
  BY NumeralIs
<1>3. comma \in Marks
  BY DEF Marks
<1>4. rest = (TypeText(n) \o name) \o qa /\ TypeText(n) = (uk \o un) \o uc
  BY TypeIs DEF RestText
<1> HIDE DEF key, comma, name
<1>5. un \in Words /\ ToSet(un) = {Numeral[n]} /\ uk \in Words /\ uc \in Words /\ uc[1] = comma /\ uc # <<>>
  BY <1>1, <1>2, OneWord
<1>6. none \in Words /\ ToSet(none) = {}
  BY WordsAre
<1> HIDE DEF un, uc, none, uk
<1>7. qa \in Words
  BY Join
<1> HIDE DEF qa
<1>8. nqa \in Words /\ (TypeText(n) \o name) \o qa = TypeText(n) \o nqa
  <2>1. name \in Words /\ TypeText(n) \in Words
    BY <1>1, TypeIs
  <2>2. nqa \in Words
    BY <2>1, <1>7, Join
  <2>3. QED
    BY SMTT(40), <2>1, <2>2, <1>7, Grouped
<1> HIDE DEF nqa
<1>9. z \in Words /\ EndsAt(z, comma)
  BY <1>5, <1>8, Join, FirstOfJoin DEF EndsAt
<1>10. ((uk \o un) \o uc) \o nqa = (uk \o un) \o z
  <2> DEFINE l == uk \o un
  <2>1. l \in Words /\ uc \in Words /\ nqa \in Words
    BY <1>5, <1>8, Join
  <2> HIDE DEF l
  <2>2. (l \o uc) \o nqa = l \o (uc \o nqa)
    BY <2>1, Joined
  <2>3. QED
    BY <2>2 DEF l
<1> HIDE DEF z
<1>11. (uk \o un) \o z = uk \o b /\ b \in Words /\ IsJoin(b, un, z)
  BY <1>5, <1>9, Join, Joined DEF IsJoin
<1> HIDE DEF b
<1>12. rest = uk \o b
  BY <1>4, <1>8, <1>10, <1>11
<1>13. Between(rest, none, key, b)
  <2>1. none \o uk = uk
    BY <1>5, Joined DEF none
  <2>2. QED
    BY <1>12, <2>1 DEF Between, uk
<1>14. key \notin ToSet(none) /\ comma \notin ToSet(un)
  BY <1>2, <1>3, <1>5, <1>6
<1>18. /\ key \in Token /\ Comma(comma) /\ comma \notin ToSet(un) /\ key \notin ToSet(none)
       /\ none \in Words /\ b \in Words /\ un \in Words /\ z \in Words
       /\ Between(rest, none, key, b) /\ IsJoin(b, un, z) /\ EndsAt(z, comma)
  BY <1>1, <1>5, <1>6, <1>9, <1>11, <1>13, <1>14
<1>15. Value(rest, key) = {un}
  BY <1>18, ValueIs
<1>16. NumberOf(rest, key) = Number(un)
  BY <1>15 DEF NumberOf
<1>17. QED
  BY <1>2, <1>16 DEF key

Separate(type, qname, ip) == "IP=" \notin ToSet(type) /\ "IP=" \notin ToSet(qname) /\ "," \notin ToSet(ip)

LEMMA AnswerValue ==
  ASSUME NEW type \in Words, NEW qname \in Words, NEW ip \in Words, NEW rest, RestText(rest, type, qname, Answered(ip)),
         Separate(type, qname, ip)
  PROVE  Value(rest, "IP=") = {ip}
<1> DEFINE key   == "IP="
           comma == ","
           name == <<"Name=">>
           z    == <<comma, "ttl=", "9">>
           w    == ip \o z
           ans  == Answered(ip)
           uc   == <<comma>>
           uk   == <<key>>
           tn   == type \o name
           tnq  == tn \o qname
           a    == tnq \o uc
<1>1. key \in Token /\ Comma(comma) /\ comma \in Token /\ name \in Words /\ ToSet(name) = {"Name="}
  BY MarksAre, CommaIs, OneWord DEF Marks
<1>2. /\ "ttl=" \in Token /\ "9" \in Token /\ comma # key /\ key \notin ToSet(type) /\ key \notin ToSet(name)
      /\ key \notin ToSet(qname) /\ comma \notin ToSet(ip)
  BY <1>1 DEF Token, Separate
<1>3. ans \in Words /\ Between(ans, uc, key, w)
  BY AnswerIs
<1>4. rest = tn \o (qname \o ans)
  BY DEF RestText
<1> HIDE DEF key, comma, name, ans
<1>5. z \in Words /\ EndsAt(z, comma)
  <2> DEFINE d == "ttl="
             e == "9"
  <2>1. d \in Token /\ e \in Token /\ z = <<comma, d, e>>
    BY <1>2
  <2> HIDE DEF d, e, z
  <2>2. QED
    BY <1>1, <2>1, Three, TripleIs DEF EndsAt
<1>6. uc \in Words /\ ToSet(uc) = {comma} /\ uk \in Words
  BY <1>1, OneWord
<1> HIDE DEF z
<1>7. w \in Words /\ IsJoin(w, ip, z)
  BY <1>5, Join DEF IsJoin
<1>8. ans = (uc \o uk) \o w
  BY <1>3 DEF Between
<1> HIDE DEF uc, uk, w
<1>9. tn \in Words /\ ToSet(tn) = ToSet(type) \cup ToSet(name)
  BY <1>1, Join
<1> HIDE DEF tn
<1>10. tnq \in Words /\ ToSet(tnq) = ToSet(tn) \cup ToSet(qname) /\ tn \o (qname \o ans) = tnq \o ans
  BY <1>3, <1>9, Join, Joined
<1> HIDE DEF tnq
<1>11. a \in Words /\ ToSet(a) = ToSet(tnq) \cup ToSet(uc)
  BY <1>6, <1>10, Join
<1>12. tnq \o ((uc \o uk) \o w) = (a \o uk) \o w
  <2> DEFINE ckw == uk \o w
  <2>5. uc \in Words /\ uk \in Words /\ w \in Words /\ tnq \in Words
    BY <1>6, <1>7, <1>10
  <2>6. ckw \in Words
    BY <2>5, Join
  <2>1. (uc \o uk) \o w = uc \o ckw
    BY SMTT(40), <2>5, Grouped
  <2>2. tnq \o (uc \o ckw) = a \o ckw
    <3> HIDE DEF ckw
    <3>1. tnq \in Words /\ uc \in Words /\ ckw \in Words
      BY <2>5, <2>6
    <3>2. QED
      BY SMTT(40), <3>1, Grouped
  <2>3. a \o ckw = (a \o uk) \o w
    <3> HIDE DEF a
    <3>1. QED
      BY SMTT(40), <1>6, <1>7, <1>11, Grouped
  <2> HIDE DEF ckw, a
  <2>4. QED
    BY <2>1, <2>2, <2>3
<1> HIDE DEF a
<1>13. Between(rest, a, key, w)
  <2>1. rest = (a \o uk) \o w
    BY <1>4, <1>8, <1>10, <1>12
  <2>2. QED
    BY <2>1 DEF Between, uk
<1>14. key \notin ToSet(a)
  BY <1>2, <1>6, <1>9, <1>10, <1>11
<1>17. /\ key \in Token /\ Comma(comma) /\ comma \notin ToSet(ip) /\ key \notin ToSet(a)
       /\ a \in Words /\ w \in Words /\ z \in Words
       /\ Between(rest, a, key, w) /\ IsJoin(w, ip, z) /\ EndsAt(z, comma)
  BY <1>1, <1>2, <1>5, <1>7, <1>11, <1>13, <1>14
<1>15. Value(rest, key) = {ip}
  BY <1>17, ValueIs
<1>16. QED
  BY <1>15 DEF key

NameType ==
  [kind : NameKinds, ts : Nat, process : Process, server : SUBSET Text, qname : Text,
   qtype : SUBSET Ports, answer_ip : SUBSET Text]
TypeOf(e)   == OrNothing({TypeText(n) : n \in e.qtype})
AnswerOf(e) == OrNothing({Answered(ip) : ip \in e.answer_ip})
ServerOf(e) == CHOOSE s \in e.server : TRUE

(* The words that stand for none of a resolution's parts.                    *)
Labels == Keywords \cup {"Name=", "Type=", "IP="}

LEMMA NameParts ==
  ASSUME NEW e \in NameType, LegibleName(e)
  PROVE  /\ ServerOf(e) \in Words /\ e.server = {ServerOf(e)} /\ ToSet(ServerOf(e)) \cap Marks = {}
         /\ e.qname \in Words /\ ToSet(e.qname) \cap Marks = {}
         /\ \A ip \in e.answer_ip : ip \in Words /\ ToSet(ip) \cap Marks = {}
         /\ e.process \in Process /\ [e.process EXCEPT !.parent = {}] = e.process
<1>1. ServerOf(e) \in e.server /\ e.server = {ServerOf(e)}
  <2>1. AtMostOne(e.server) /\ e.server # {}
    BY DEF LegibleName
  <2>2. QED
    BY <2>1, OnlyOne DEF ServerOf
<1>2. \A s \in e.server \cup {e.qname} \cup e.answer_ip : s \in Words /\ ToSet(s) \cap Marks = {}
  BY TextIsWords DEF LegibleName, Free, NameType
<1>3. e.process \in Process /\ e.process.parent = {}
  BY DEF LegibleName, NameType
<1>4. [e.process EXCEPT !.parent = {}] = e.process
  BY <1>3 DEF Process
<1>5. QED
  BY <1>1, <1>2, <1>3, <1>4

LEMMA TypePart ==
  ASSUME NEW e \in NameType, LegibleName(e)
  PROVE  /\ TypeOf(e) \in Words /\ ToSet(TypeOf(e)) \cap (Labels \ {"Type="}) = {}
         /\ \/ e.qtype = {} /\ TypeOf(e) = <<>>
            \/ \E n \in Ports : e.qtype = {n} /\ TypeOf(e) = TypeText(n)
<1>1. AtMostOne(e.qtype) /\ e.qtype \subseteq Ports
  BY DEF LegibleName, NameType
<1>2. CASE e.qtype = {}
  <2>1. {TypeText(n) : n \in e.qtype} = {}
    BY <1>2
  <2>2. TypeOf(e) = <<>>
    BY <2>1, Nothing DEF TypeOf
  <2>3. QED
    BY <1>2, <2>2, WordsAre
<1>3. ASSUME NEW n \in e.qtype, e.qtype = {n}
      PROVE  /\ TypeOf(e) \in Words /\ ToSet(TypeOf(e)) \cap (Labels \ {"Type="}) = {}
             /\ n \in Ports /\ TypeOf(e) = TypeText(n)
  <2>1. {TypeText(m) : m \in e.qtype} = {TypeText(n)}
    BY <1>3
  <2>2. TypeOf(e) = TypeText(n)
    BY <2>1, Nothing DEF TypeOf
  <2>3. n \in Ports
    BY <1>1
  <2>4. TypeText(n) \in Words /\ ToSet(TypeText(n)) = {"Type=", Numeral[n], ","} /\ Numeral[n] \notin Marks
    BY <2>3, TypeIs, NumeralIs
  <2>5. "," \notin Labels /\ Labels \subseteq Marks
    BY DEF Labels, Keywords, Marks
  <2>6. QED
    BY <2>2, <2>3, <2>4, <2>5
<1>4. QED
  BY <1>1, <1>2, <1>3, One

LEMMA AnswerPart ==
  ASSUME NEW e \in NameType, LegibleName(e)
  PROVE  /\ AnswerOf(e) \in Words /\ ToSet(AnswerOf(e)) \cap (Labels \ {"IP="}) = {}
         /\ AnswerOf(e) = <<>> \/ AnswerOf(e)[1] = ","
         /\ \/ e.answer_ip = {} /\ AnswerOf(e) = <<>>
            \/ \E ip \in e.answer_ip : e.answer_ip = {ip} /\ AnswerOf(e) = Answered(ip)
<1>1. AtMostOne(e.answer_ip)
  BY DEF LegibleName
<1>2. CASE e.answer_ip = {}
  <2>1. {Answered(ip) : ip \in e.answer_ip} = {}
    BY <1>2
  <2>2. AnswerOf(e) = <<>>
    BY <2>1, Nothing DEF AnswerOf
  <2>3. QED
    BY <1>2, <2>2, WordsAre
<1>3. ASSUME NEW ip \in e.answer_ip, e.answer_ip = {ip}
      PROVE  /\ AnswerOf(e) \in Words /\ ToSet(AnswerOf(e)) \cap (Labels \ {"IP="}) = {}
             /\ AnswerOf(e)[1] = "," /\ AnswerOf(e) = Answered(ip)
  <2>1. {Answered(x) : x \in e.answer_ip} = {Answered(ip)}
    BY <1>3
  <2>2. AnswerOf(e) = Answered(ip)
    BY <2>1, Nothing DEF AnswerOf
  <2>3. ip \in Words /\ ToSet(ip) \cap Marks = {}
    BY NameParts
  <2>4. Answered(ip) \in Words /\ ToSet(Answered(ip)) = {",", "IP=", "ttl=", "9"} \cup ToSet(ip) /\ Answered(ip)[1] = ","
    BY <2>3, AnswerIs
  <2>5. {",", "ttl=", "9"} \cap Labels = {} /\ Labels \subseteq Marks
    BY DEF Labels, Keywords, Marks
  <2>6. QED
    BY <2>2, <2>3, <2>4, <2>5
<1>4. QED
  BY <1>1, <1>2, <1>3, One

RestOf(e) == (TypeOf(e) \o <<"Name=">>) \o (e.qname \o AnswerOf(e))

LEMMA RestValues ==
  ASSUME NEW e \in NameType, LegibleName(e)
  PROVE  /\ RestOf(e) \in Words /\ ToSet(RestOf(e)) \cap Keywords = {}
         /\ Value(RestOf(e), "Name=") = {e.qname}
         /\ NumberOf(RestOf(e), "Type=") = e.qtype
         /\ Value(RestOf(e), "IP=") = e.answer_ip
<1> DEFINE rest == RestOf(e)
<1>1. e.qname \in Words /\ ToSet(e.qname) \cap Marks = {}
  BY NameParts
<1>2. TypeOf(e) \in Words /\ ToSet(TypeOf(e)) \cap (Labels \ {"Type="}) = {}
  BY TypePart
<1>3. AnswerOf(e) \in Words /\ ToSet(AnswerOf(e)) \cap (Labels \ {"IP="}) = {}
  BY AnswerPart
<1>4. RestText(rest, TypeOf(e), e.qname, AnswerOf(e))
  BY DEF RestText, RestOf
<1> HIDE DEF rest
<1>5. rest \in Words /\ ToSet(rest) = ToSet(TypeOf(e)) \cup {"Name="} \cup ToSet(e.qname) \cup ToSet(AnswerOf(e))
  BY <1>1, <1>2, <1>3, <1>4, RestIs
<1>6. /\ Labels \subseteq Marks /\ Keywords \cap {"Name=", "Type=", "IP="} = {} /\ Keywords \subseteq Labels
      /\ "Name=" \in Labels \ {"Type=", "IP="} /\ "Type=" \in Labels \ {"IP=", "Name="} /\ "IP=" \in Labels \ {"Type=", "Name="}
      /\ "," \in Marks
  BY DEF Labels, Keywords, Marks
<1>7. ToSet(rest) \cap Keywords = {}
  BY <1>1, <1>2, <1>3, <1>5, <1>6
<1>8. Value(rest, "Name=") = {e.qname}
  <2>1. "Name=" \notin ToSet(TypeOf(e)) /\ "," \notin ToSet(e.qname)
    BY <1>1, <1>2, <1>6
  <2>2. AnswerOf(e) = <<>> \/ AnswerOf(e)[1] = ","
    BY AnswerPart
  <2>3. QED
    BY <1>1, <1>2, <1>3, <1>4, <2>1, <2>2, NameValue
<1>9. NumberOf(rest, "Type=") = e.qtype
  <2>1. CASE e.qtype = {} /\ TypeOf(e) = <<>>
    <3>1. "Type=" \notin ToSet(rest)
      BY <2>1, <1>1, <1>3, <1>5, <1>6, WordsAre
    <3>2. Value(rest, "Type=") = {}
      BY <1>5, <3>1, NoValue
    <3>3. QED
      BY <2>1, <3>2 DEF NumberOf
  <2>2. CASE ~ (e.qtype = {} /\ TypeOf(e) = <<>>)
    <3>1. PICK n \in Ports : e.qtype = {n} /\ TypeOf(e) = TypeText(n)
      BY <2>2, TypePart
    <3>2. RestText(rest, TypeText(n), e.qname, AnswerOf(e))
      BY <1>4, <3>1
    <3>3. QED
      BY <1>1, <1>3, <3>1, <3>2, TypeValue
  <2>3. QED
    BY <2>1, <2>2
<1>10. Value(rest, "IP=") = e.answer_ip
  <2>1. CASE e.answer_ip = {} /\ AnswerOf(e) = <<>>
    <3>1. "IP=" \notin ToSet(rest)
      BY <2>1, <1>1, <1>2, <1>5, <1>6, WordsAre
    <3>2. QED
      BY <2>1, <1>5, <3>1, NoValue
  <2>2. CASE ~ (e.answer_ip = {} /\ AnswerOf(e) = <<>>)
    <3>1. PICK ip \in e.answer_ip : e.answer_ip = {ip} /\ AnswerOf(e) = Answered(ip)
      BY <2>2, AnswerPart
    <3>2. RestText(rest, TypeOf(e), e.qname, Answered(ip))
      BY <1>4, <3>1
    <3>3. ip \in Words /\ ToSet(ip) \cap Marks = {}
      BY NameParts
    <3>4. Separate(TypeOf(e), e.qname, ip)
      BY <1>1, <1>2, <1>6, <3>3 DEF Separate
    <3>5. QED
      BY <1>1, <1>2, <3>1, <3>2, <3>3, <3>4, AnswerValue
  <2>3. QED
    BY <2>1, <2>2
<1>11. QED
  BY <1>5, <1>7, <1>8, <1>9, <1>10 DEF rest

(* The line of a request or a response.                                      *)
ServerKinds == {"Request", "Response", "EmptyResponse"}
PhraseWord(c) == c \in {" DNS-UDP request:", " DNS-UDP response:", " DNS-UDP empty response:"}

LEMMA PhraseIs ==
  ASSUME NEW kind \in ServerKinds
  PROVE  PhraseWord(Phrase[kind]) /\ Phrase[kind] \in Token /\ Phrase[kind] \in Keywords
<1>1. /\ Phrase["Request"] = " DNS-UDP request:" /\ Phrase["Response"] = " DNS-UDP response:"
      /\ Phrase["EmptyResponse"] = " DNS-UDP empty response:"
  BY DEF Phrase
<1>2. PhraseWord(Phrase[kind])
  BY <1>1 DEF ServerKinds, PhraseWord
<1>3. QED
  BY <1>2, MarksAre DEF PhraseWord, Keywords, Marks

LEMMA BodyIs ==
  ASSUME NEW e \in NameType, LegibleName(e), e.kind # "Resolve"
  PROVE  Between(WriteDns(e), ServerOf(e), Phrase[e.kind], RestOf(e))
<1> DEFINE s == ServerOf(e)
           p == <<Phrase[e.kind]>>
           t == TypeOf(e)
           n == <<"Name=">>
           q == e.qname
           a == AnswerOf(e)
           sp == s \o p
<1>1. e.kind \in ServerKinds
  BY DEF NameType, NameKinds, ServerKinds
<1>2. s \in Words /\ q \in Words /\ t \in Words /\ a \in Words
  BY NameParts, TypePart, AnswerPart
<1>3. p \in Words /\ n \in Words
  BY <1>1, PhraseIs, MarksAre, OneWord DEF Marks
<1>4. WriteDns(e) = (((sp \o t) \o n) \o q) \o a
  BY DEF WriteDns, ServerOf, TypeOf, AnswerOf, TypeText, Answered
<1>5. RestOf(e) = (t \o n) \o (q \o a)
  BY DEF RestOf
<1> HIDE DEF s, p, t, n, q, a
<1>6. sp \in Words
  BY <1>2, <1>3, Join
<1> HIDE DEF sp
<1>9. FiveIn(WriteDns(e), sp, t, n, q, a)
  BY <1>4 DEF FiveIn
<1>10. sp \in Words /\ t \in Words /\ n \in Words /\ q \in Words /\ a \in Words
  BY <1>2, <1>3, <1>6
<1>11. FirstOfFive(WriteDns(e), sp, t, n, q, a)
  BY <1>9, <1>10, FiveGrouped
<1>7. WriteDns(e) = sp \o RestOf(e)
  BY <1>5, <1>11 DEF FirstOfFive
<1>8. QED
  BY <1>7 DEF Between, sp, s, p

Asked(e, ts, process, i) ==
  Dns(e.kind, ts, process, e.server, e.qname, e.qtype, e.answer_ip, i)

LEMMA InBetween ==
  ASSUME NEW a \in Words, NEW t \in Token, NEW b \in Words, NEW s, Between(s, a, t, b)
  PROVE  s \in Words /\ ToSet(s) = ToSet(a) \cup {t} \cup ToSet(b)
<1> DEFINE u == <<t>>
           au == a \o u
<1>1. u \in Words /\ ToSet(u) = {t}
  BY OneWord
<1>2. s = au \o b
  BY DEF Between
<1> HIDE DEF u
<1>3. au \in Words /\ ToSet(au) = ToSet(a) \cup ToSet(u)
  BY <1>1, Join
<1> HIDE DEF au
<1>4. QED
  BY <1>1, <1>2, <1>3, Join

LEMMA ServerParsed ==
  ASSUME NEW e \in NameType, LegibleName(e), e.kind # "Resolve", NEW ts, NEW process, NEW i
  PROVE  /\ ParseDns(e.kind, ts, process, WriteDns(e), i) = {Asked(e, ts, process, i)}
         /\ WriteDns(e) \in Words /\ ToSet(WriteDns(e)) \cap Keywords = {Phrase[e.kind]}
<1> DEFINE body == WriteDns(e)
           server == ServerOf(e)
           rest == RestOf(e)
           phrase == Phrase[e.kind]
<1>1. e.kind \in ServerKinds
  BY DEF NameType, NameKinds, ServerKinds
<1>2. phrase \in Token /\ phrase \in Keywords
  BY <1>1, PhraseIs
<1>3. server \in Words /\ ToSet(server) \cap Marks = {} /\ e.server = {server}
  BY NameParts
<1>4. /\ rest \in Words /\ ToSet(rest) \cap Keywords = {} /\ Value(rest, "Name=") = {e.qname}
      /\ NumberOf(rest, "Type=") = e.qtype /\ Value(rest, "IP=") = e.answer_ip
  BY RestValues
<1>5. Keywords \subseteq Marks
  BY DEF Marks
<1>6. Between(body, server, phrase, rest)
  BY BodyIs
<1>7. (IF e.kind = "Response" THEN Value(rest, "IP=") ELSE {}) = e.answer_ip
  BY <1>4 DEF LegibleName
<1> DEFINE ip(r) == IF e.kind = "Response" THEN Value(r, "IP=") ELSE {}
           Of(cut, qname) == Dns(e.kind, ts, process, {cut[1]}, qname, NumberOf(cut[2], "Type="), ip(cut[2]), i)
           At(cut) == {Of(cut, qname) : qname \in Value(cut[2], "Name=")}
<1>8. ParseDns(e.kind, ts, process, body, i) = UNION {At(cut) : cut \in Split(body, phrase)}
  BY DEF ParseDns
<1> HIDE DEF body, server, rest, phrase
<1>9. body \in Words /\ ToSet(body) = ToSet(server) \cup {phrase} \cup ToSet(rest)
  BY <1>2, <1>3, <1>4, <1>6, InBetween
<1>10. phrase \notin ToSet(server)
  BY <1>2, <1>3, <1>5
<1>11. Split(body, phrase) = {<<server, rest>>}
  BY <1>2, <1>3, <1>4, <1>6, <1>10, CutFirst
<1> HIDE DEF At
<1>12. ParseDns(e.kind, ts, process, body, i) = At(<<server, rest>>)
  BY <1>8, <1>11
<1>13. At(<<server, rest>>) = {Of(<<server, rest>>, e.qname)}
  BY <1>4 DEF At
<1> HIDE DEF ip
<1>14. Of(<<server, rest>>, e.qname) = Dns(e.kind, ts, process, {server}, e.qname, NumberOf(rest, "Type="), ip(rest), i)
  OBVIOUS
<1>15. ip(rest) = e.answer_ip
  BY <1>7 DEF ip
<1> HIDE DEF Of
<1>16. ParseDns(e.kind, ts, process, body, i) = {Asked(e, ts, process, i)}
  BY <1>3, <1>4, <1>12, <1>13, <1>14, <1>15 DEF Asked
<1>17. ToSet(body) \cap Keywords = {phrase}
  BY <1>2, <1>3, <1>4, <1>5, <1>9
<1>18. QED
  BY <1>9, <1>16, <1>17 DEF body, phrase

LEMMA ServerBody ==
  ASSUME NEW e \in NameType, LegibleName(e), e.kind # "Resolve", NEW ts, NEW process, NEW i
  PROVE  ParseBody(ts, process, WriteDns(e), i) = {Asked(e, ts, process, i)}
<1> DEFINE body == WriteDns(e)
           All(kind) == ParseDns(kind, ts, process, body, i)
<1>1. All(e.kind) = {Asked(e, ts, process, i)} /\ ToSet(body) \cap Keywords = {Phrase[e.kind]}
  BY SMTT(30), ServerParsed
<1>2. \A c \in Keywords : Has(body, c) <=> c = Phrase[e.kind]
  BY <1>1 DEF Has
<1>3. /\ Phrase.Request \in Keywords /\ Phrase.Response \in Keywords /\ Phrase.EmptyResponse \in Keywords
      /\ Phrase.Request # Phrase.Response /\ Phrase.Request # Phrase.EmptyResponse
      /\ Phrase.Response # Phrase.EmptyResponse
  BY DEF Phrase, Keywords
<1>4. e.kind \in ServerKinds
  BY DEF NameType, NameKinds, ServerKinds
<1> HIDE DEF All
<1>5. CASE e.kind = "Request"
  <2>1. Has(body, Phrase.Request)
    BY <1>2, <1>3, <1>5
  <2>2. QED
    BY <2>1, <1>1, <1>5 DEF ParseBody, All
<1>6. CASE e.kind = "Response"
  <2>1. ~ Has(body, Phrase.Request) /\ Has(body, Phrase.Response)
    BY <1>2, <1>3, <1>6
  <2>2. QED
    BY <2>1, <1>1, <1>6 DEF ParseBody, All
<1>7. CASE e.kind = "EmptyResponse"
  <2>1. ~ Has(body, Phrase.Request) /\ ~ Has(body, Phrase.Response) /\ Has(body, Phrase.EmptyResponse)
    BY <1>2, <1>3, <1>7
  <2>2. QED
    BY <2>1, <1>1, <1>7 DEF ParseBody, All
<1>8. QED
  BY <1>4, <1>5, <1>6, <1>7 DEF ServerKinds

(* The line of a resolution.                                                 *)
ServerText(s) == IF Has(s, " :") THEN (CHOOSE c \in Split(s, " :") : TRUE)[1] ELSE s
Ended(s, a) == s = a \o <<" :", "DNS">>

LEMMA UptoIs ==
  ASSUME NEW a \in Words, " :" \notin ToSet(a), NEW s, Ended(s, a)
  PROVE  ServerText(s) = a /\ s \in Words /\ ToSet(s) = ToSet(a) \cup {" :", "DNS"}
<1> DEFINE mark == " :"
           name == "DNS"
           um == <<mark>>
           un == <<name>>
           two == <<mark, name>>
<1>1. mark \in Token /\ name \in Token /\ mark \notin ToSet(a)
  BY MarksAre DEF Marks, Token
<1>2. s = a \o two
  BY DEF Ended
<1>3. ServerText(s) = IF Has(s, mark) THEN (CHOOSE c \in Split(s, mark) : TRUE)[1] ELSE s
  BY DEF ServerText
<1> HIDE DEF mark, name
<1>4. two = um \o un /\ two \in Words /\ ToSet(two) = {mark, name}
  BY <1>1, Two
<1>5. um \in Words /\ un \in Words
  BY <1>1, OneWord
<1>6. s \in Words /\ ToSet(s) = ToSet(a) \cup {mark, name}
  <2> HIDE DEF two
  <2>1. QED
    BY <1>2, <1>4, Join
<1> HIDE DEF two
<1>7. Between(s, a, mark, un)
  <2>1. s = a \o (um \o un)
    BY <1>2, <1>4
  <2> HIDE DEF um, un
  <2>2. a \o (um \o un) = (a \o um) \o un
    BY <1>5, Joined
  <2>3. s = (a \o um) \o un
    BY <2>1, <2>2
  <2>4. QED
    BY <2>3 DEF Between, um
<1> HIDE DEF um, un
<1>8. Split(s, mark) = {<<a, un>>} /\ Has(s, mark)
  <2>1. a \in Words /\ un \in Words /\ mark \in Token /\ mark \notin ToSet(a) /\ Between(s, a, mark, un)
    BY <1>1, <1>5, <1>7
  <2>2. Split(s, mark) = {<<a, un>>}
    BY <2>1, CutFirst
  <2>3. Has(s, mark)
    BY <2>1, Cut
  <2>4. QED
    BY <2>2, <2>3
<1>9. (CHOOSE c \in Split(s, mark) : TRUE) = <<a, un>>
  BY <1>8
<1>12. ServerText(s) = <<a, un>>[1]
  BY <1>3, <1>8, <1>9
<1>10. ServerText(s) = a
  BY <1>12
<1>11. QED
  BY <1>6, <1>10 DEF mark, name

Plain(body, q, server, z) == body = ((q \o <<" resolve via ">>) \o server) \o z
Typed(body, q, n, server, z) == body = ((q \o <<" DNS request type=", Numeral[n], " via ">>) \o server) \o z

LEMMA PlainIs ==
  ASSUME NEW q \in Words, NEW server \in Words, NEW z \in Words, NEW body, Plain(body, q, server, z)
  PROVE  Between(body, q, " resolve via ", server \o z)
<1> DEFINE u == <<" resolve via ">>
           qu == q \o u
<1>1. u \in Words
  BY MarksAre, OneWord DEF Marks, Keywords
<1>2. body = (qu \o server) \o z
  BY DEF Plain
<1> HIDE DEF u
<1>3. qu \in Words
  BY <1>1, Join
<1> HIDE DEF qu
<1>4. (qu \o server) \o z = qu \o (server \o z)
  BY SMTT(40), <1>3, Grouped
<1>5. body = qu \o (server \o z)
  BY <1>2, <1>4
<1>6. QED
  BY <1>5 DEF Between, qu, u

LEMMA TypedIs ==
  ASSUME NEW q \in Words, NEW n \in Ports, NEW server \in Words, NEW z \in Words,
         NEW body, Typed(body, q, n, server, z)
  PROVE  /\ Between(body, q, " DNS request type=", (<<Numeral[n], " via ">> \o server) \o z)
         /\ Between(<<Numeral[n], " via ">> \o server, <<Numeral[n]>>, " via ", server)
<1> DEFINE key == " DNS request type="
           num == Numeral[n]
           via == " via "
           uk == <<key>>
           un == <<num>>
           uv == <<via>>
           y  == <<num, via>>
           three == <<key, num, via>>
           kn == <<key, num>>
           qk == q \o uk
           ys == y \o server
<1>1. key \in Token /\ num \in Token /\ via \in Token
  BY MarksAre, NumeralIs DEF Marks, Keywords
<1>2. body = ((q \o three) \o server) \o z
  BY DEF Typed
<1> HIDE DEF key, num, via
<1>3. y = un \o uv /\ y \in Words /\ kn = uk \o un /\ three = kn \o uv
  BY <1>1, Two, Three
<1>4. uk \in Words /\ un \in Words /\ uv \in Words
  BY <1>1, OneWord
<1> HIDE DEF three, kn, y, un, uv, uk
<1>5. (uk \o un) \o uv = uk \o (un \o uv)
  BY SMTT(40), <1>4, Grouped
<1>6. three = uk \o y
  BY <1>3, <1>5
<1>7. q \o (uk \o y) = qk \o y
  <2>1. q \in Words /\ uk \in Words /\ y \in Words
    BY <1>3, <1>4
  <2>2. (q \o uk) \o y = q \o (uk \o y)
    BY SMTT(40), <2>1, Grouped
  <2>3. QED
    BY <2>2
<1>8. qk \in Words
  BY <1>4, Join
<1> HIDE DEF qk
<1>9. (qk \o y) \o server = qk \o ys /\ ys \in Words
  BY SMTT(30), <1>3, <1>8, Join, Joined
<1> HIDE DEF ys
<1>10. (qk \o ys) \o z = qk \o (ys \o z)
  BY SMTT(40), <1>8, <1>9, Grouped
<1>11. body = qk \o (ys \o z)
  BY <1>2, <1>6, <1>7, <1>9, <1>10
<1>12. Between(body, q, key, ys \o z)
  BY <1>11 DEF Between, qk, uk
<1>13. ys = (un \o uv) \o server
  BY <1>3 DEF ys
<1>14. Between(ys, un, via, server)
  BY <1>13 DEF Between, uv
<1>15. QED
  BY <1>12, <1>14 DEF ys, y, un, key, num, via

ResolvedFrom(ts, process, cut, i) ==
  LET typed == Split(ServerText(cut[2]), " via ")
  IN Dns("Resolve", ts, process, IF typed = {} THEN {ServerText(cut[2])} ELSE {t[2] : t \in typed},
         cut[1], UNION {Number(t[1]) : t \in typed}, {}, i)

LEMMA ResolveCut ==
  ASSUME NEW ts, NEW process, NEW body, NEW i
  PROVE  ParseResolve(ts, process, body, i) =
           {ResolvedFrom(ts, process, cut, i) : cut \in
              IF Has(body, " DNS request type=") THEN Split(body, " DNS request type=")
              ELSE Split(body, " resolve via ")}
BY DEF ParseResolve, ResolvedFrom, ServerText

Via(body, q, z)       == Between(body, q, " resolve via ", z)
WithType(body, q, z)  == Between(body, q, " DNS request type=", z)
ViaServer(y, n, s)    == Between(y, <<Numeral[n]>>, " via ", s)
Asking(y, n, s)       == ToSet(y) = {Numeral[n], " via "} \cup ToSet(s)

Solved(ts, process, server, q, types, i) == Dns("Resolve", ts, process, {server}, q, types, {}, i)

OnlyVia(body)  == ToSet(body) \cap Keywords = {" resolve via "}
OnlyType(body) == ToSet(body) \cap Keywords = {" DNS request type="}

LEMMA PlainResolved ==
  ASSUME NEW q \in Words, NEW server \in Words, NEW z, Ended(z, server), NEW body,
         Via(body, q, z),
         ToSet(q) \cap Marks = {}, ToSet(server) \cap Marks = {}, NEW ts, NEW process, NEW i
  PROVE  /\ ParseResolve(ts, process, body, i) = {Solved(ts, process, server, q, {}, i)}
         /\ body \in Words /\ OnlyVia(body)
<1> DEFINE key == " resolve via "
           typed == " DNS request type="
           via == " via "
           Of(cut) == ResolvedFrom(ts, process, cut, i)
<1>1. /\ key \in Token /\ key \in Keywords /\ typed \in Keywords /\ typed # key /\ Keywords \subseteq Marks
      /\ via \in Marks /\ " :" \in Marks /\ " :" \notin Keywords /\ "DNS" \notin Keywords
  BY MarksAre DEF Marks, Keywords
<1>2. ServerText(z) = server /\ z \in Words /\ ToSet(z) = ToSet(server) \cup {" :", "DNS"}
  BY <1>1, UptoIs
<1>3. ParseResolve(ts, process, body, i) =
        {Of(cut) : cut \in IF Has(body, typed) THEN Split(body, typed) ELSE Split(body, key)}
  BY ResolveCut
<1>4. Between(body, q, key, z)
  BY DEF Via
<1>5. /\ Of(<<q, z>>) = Dns("Resolve", ts, process,
                            IF Split(ServerText(z), via) = {} THEN {ServerText(z)} ELSE {t[2] : t \in Split(ServerText(z), via)},
                            q, UNION {Number(t[1]) : t \in Split(ServerText(z), via)}, {}, i)
  BY DEF ResolvedFrom
<1> HIDE DEF key, typed, via, Of
<1>6. body \in Words /\ ToSet(body) = ToSet(q) \cup {key} \cup ToSet(z)
  <2>1. q \in Words /\ key \in Token /\ z \in Words /\ Between(body, q, key, z)
    BY <1>1, <1>2, <1>4
  <2>2. QED
    BY <2>1, InBetween
<1>7. ToSet(body) \cap Keywords = {key}
  BY <1>1, <1>2, <1>6
<1>8. ~ Has(body, typed)
  BY <1>1, <1>7 DEF Has
<1>9. key \notin ToSet(q)
  BY <1>1
<1>10. Split(body, key) = {<<q, z>>}
  BY <1>1, <1>2, <1>4, <1>9, CutFirst
<1>11. via \notin ToSet(server)
  BY <1>1
<1>12. Split(server, via) = {}
  BY <1>11, Uncut
<1>13. Split(ServerText(z), via) = {}
  BY <1>2, <1>12
<1>14. UNION {Number(t[1]) : t \in Split(ServerText(z), via)} = {}
  BY <1>13
<1>15. Of(<<q, z>>) = Dns("Resolve", ts, process, {server}, q, {}, {}, i)
  BY <1>2, <1>5, <1>13, <1>14
<1>16. ParseResolve(ts, process, body, i) = {Of(<<q, z>>)}
  BY <1>3, <1>8, <1>10
<1>17. QED
  BY <1>6, <1>7, <1>15, <1>16 DEF key, Solved, OnlyVia

LEMMA TypedResolved ==
  ASSUME NEW q \in Words, NEW n \in Ports, NEW server \in Words, NEW y \in Words,
         Asking(y, n, server), NEW z, Ended(z, y), NEW body,
         WithType(body, q, z), ViaServer(y, n, server),
         ToSet(q) \cap Marks = {}, ToSet(server) \cap Marks = {}, NEW ts, NEW process, NEW i
  PROVE  /\ ParseResolve(ts, process, body, i) = {Solved(ts, process, server, q, {n}, i)}
         /\ body \in Words /\ OnlyType(body)
<1> DEFINE key == " resolve via "
           typed == " DNS request type="
           via == " via "
           num == Numeral[n]
           un == <<num>>
           Of(cut) == ResolvedFrom(ts, process, cut, i)
<1>1. /\ typed \in Token /\ typed \in Keywords /\ Keywords \subseteq Marks
      /\ via \in Marks /\ via \in Token /\ via \notin Keywords /\ " :" # via
      /\ " :" \in Marks /\ " :" \notin Keywords /\ "DNS" \notin Keywords
  BY MarksAre DEF Marks, Keywords
<1>2. num \in Token /\ num \notin Marks /\ Number(un) = {n}
  BY NumeralIs
<1>3. " :" \notin ToSet(y)
  BY <1>1, <1>2 DEF Asking
<1>4. ServerText(z) = y /\ z \in Words /\ ToSet(z) = ToSet(y) \cup {" :", "DNS"}
  BY <1>3, UptoIs
<1>5. ParseResolve(ts, process, body, i) =
        {Of(cut) : cut \in IF Has(body, typed) THEN Split(body, typed) ELSE Split(body, key)}
  BY ResolveCut
<1>6. Between(body, q, typed, z) /\ Between(y, un, via, server)
  BY DEF WithType, ViaServer
<1>7. /\ Of(<<q, z>>) = Dns("Resolve", ts, process,
                            IF Split(ServerText(z), via) = {} THEN {ServerText(z)} ELSE {t[2] : t \in Split(ServerText(z), via)},
                            q, UNION {Number(t[1]) : t \in Split(ServerText(z), via)}, {}, i)
  BY DEF ResolvedFrom
<1>8. ToSet(z) \cap Keywords = {}
  BY <1>1, <1>2, <1>4 DEF Asking
<1> HIDE DEF key, typed, via, Of, num, un
<1>9. body \in Words /\ ToSet(body) = ToSet(q) \cup {typed} \cup ToSet(z)
  <2>1. q \in Words /\ typed \in Token /\ z \in Words /\ Between(body, q, typed, z)
    BY <1>1, <1>4, <1>6
  <2>2. QED
    BY <2>1, InBetween
<1>10. ToSet(body) \cap Keywords = {typed}
  BY <1>1, <1>8, <1>9
<1>11. Has(body, typed)
  BY <1>1, <1>10 DEF Has
<1>12. typed \notin ToSet(q)
  BY <1>1
<1>13. Split(body, typed) = {<<q, z>>}
  BY <1>1, <1>4, <1>6, <1>12, CutFirst
<1>14. un \in Words /\ ToSet(un) = {num}
  BY <1>2, OneWord DEF un
<1>15. via \notin ToSet(un)
  BY <1>1, <1>2, <1>14
<1>16. Split(y, via) = {<<un, server>>}
  BY <1>1, <1>6, <1>14, <1>15, CutFirst
<1>17. Split(ServerText(z), via) = {<<un, server>>}
  BY <1>4, <1>16
<1> DEFINE pair == <<un, server>>
<1>23. pair[1] = un /\ pair[2] = server
  OBVIOUS
<1>24. Split(ServerText(z), via) = {pair}
  BY <1>17
<1> HIDE DEF pair
<1>18. UNION {Number(t[1]) : t \in Split(ServerText(z), via)} = {n}
  <2>1. {Number(t[1]) : t \in Split(ServerText(z), via)} = {Number(un)}
    BY <1>23, <1>24
  <2>2. QED
    BY <1>2, <2>1
<1>19. {t[2] : t \in Split(ServerText(z), via)} = {server}
  BY <1>23, <1>24
<1>20. Of(<<q, z>>) = Dns("Resolve", ts, process, {server}, q, {n}, {}, i)
  BY <1>7, <1>17, <1>18, <1>19
<1>21. ParseResolve(ts, process, body, i) = {Of(<<q, z>>)}
  BY <1>5, <1>11, <1>13
<1>22. QED
  BY <1>9, <1>10, <1>20, <1>21 DEF typed, Solved, OnlyType

EndMark == <<" :", "DNS">>
IsResolve(e) == e.kind = "Resolve"

LEMMA ResolveParsed ==
  ASSUME NEW e \in NameType, LegibleName(e), IsResolve(e), NEW ts, NEW process, NEW i
  PROVE  /\ ParseResolve(ts, process, WriteDns(e), i) = {Asked(e, ts, process, i)}
         /\ WriteDns(e) \in Words
         /\ OnlyVia(WriteDns(e)) \/ OnlyType(WriteDns(e))
<1> DEFINE body == WriteDns(e)
           server == ServerOf(e)
           q == e.qname
           z == server \o EndMark
<1>1. /\ server \in Words /\ ToSet(server) \cap Marks = {} /\ e.server = {server}
      /\ q \in Words /\ ToSet(q) \cap Marks = {}
  BY NameParts
<1>2. e.answer_ip = {} /\ e.kind = "Resolve"
  BY DEF LegibleName, IsResolve
<1>3. \A t : Solved(ts, process, server, q, t, i) = Asked(e, ts, process, i) \/ t # e.qtype
  BY <1>1, <1>2 DEF Asked, Solved
<1>4. EndMark \in Words
  <2>1. " :" \in Token /\ "DNS" \in Token
    BY MarksAre DEF Marks, Token
  <2>2. QED
    BY <2>1, Two DEF EndMark
<1>5. " :" \in Marks
  BY DEF Marks
<1>6. CASE e.qtype = {}
  <2>1. Plain(body, q, server, EndMark)
    BY <1>2, <1>6 DEF WriteDns, Plain, EndMark, ServerOf
  <2>2. Via(body, q, z)
    BY <1>1, <1>4, <2>1, PlainIs DEF Via
  <2>3. Ended(z, server)
    BY DEF Ended, EndMark
  <2>4. ParseResolve(ts, process, body, i) = {Solved(ts, process, server, q, {}, i)}
        /\ body \in Words /\ OnlyVia(body)
    <3> HIDE DEF body, server, q, z
    <3>1. /\ q \in Words /\ server \in Words /\ Ended(z, server) /\ Via(body, q, z)
          /\ ToSet(q) \cap Marks = {} /\ ToSet(server) \cap Marks = {}
      BY <1>1, <2>2, <2>3
    <3>2. ParseResolve(ts, process, body, i) = {Solved(ts, process, server, q, {}, i)}
      BY <3>1, PlainResolved
    <3>3. body \in Words /\ OnlyVia(body)
      BY <3>1, PlainResolved
    <3>4. QED
      BY <3>2, <3>3
  <2>5. QED
    BY <1>3, <1>6, <2>4
<1>7. ASSUME NEW n \in Ports, e.qtype = {n}
      PROVE  /\ ParseResolve(ts, process, body, i) = {Solved(ts, process, server, q, {n}, i)}
             /\ body \in Words /\ OnlyType(body)
  <2> DEFINE y == <<Numeral[n], " via ">> \o server
             w == y \o EndMark
  <2>1. (CHOOSE x \in e.qtype : TRUE) = n /\ e.qtype # {}
    BY <1>7
  <2>2. Typed(body, q, n, server, EndMark)
    BY <1>2, <2>1 DEF WriteDns, Typed, EndMark, ServerOf
  <2>3. WithType(body, q, w) /\ ViaServer(y, n, server)
    BY <1>1, <1>4, <2>2, TypedIs DEF WithType, ViaServer
  <2>4. Ended(w, y)
    BY DEF Ended, EndMark
  <2>5. y \in Words /\ Asking(y, n, server)
    <3> DEFINE num == Numeral[n]
               via == " via "
               two == <<num, via>>
    <3>1. num \in Token /\ via \in Token
      BY NumeralIs, MarksAre DEF Marks
    <3> HIDE DEF num, via
    <3>2. two \in Words /\ ToSet(two) = {num, via}
      BY <3>1, Two
    <3> HIDE DEF two
    <3>3. two \o server \in Words /\ ToSet(two \o server) = {num, via} \cup ToSet(server)
      BY <1>1, <3>2, Join
    <3>4. QED
      BY <3>3 DEF Asking, two, num, via
  <2> HIDE DEF body, server, q, y, w
  <2>6. /\ q \in Words /\ server \in Words /\ y \in Words /\ Asking(y, n, server) /\ Ended(w, y)
        /\ WithType(body, q, w) /\ ViaServer(y, n, server)
        /\ ToSet(q) \cap Marks = {} /\ ToSet(server) \cap Marks = {}
    BY <1>1, <2>3, <2>4, <2>5
  <2>7. ParseResolve(ts, process, body, i) = {Solved(ts, process, server, q, {n}, i)}
    BY <2>6, TypedResolved
  <2>8. body \in Words /\ OnlyType(body)
    BY <2>6, TypedResolved
  <2>9. QED
    BY <2>7, <2>8
<1>8. CASE e.qtype # {}
  <2>1. PICK n \in Ports : e.qtype = {n}
    BY <1>8, TypePart
  <2>2. QED
    BY <1>3, <1>7, <2>1
<1>9. QED
  BY <1>6, <1>8

LEMMA ResolveBody ==
  ASSUME NEW e \in NameType, LegibleName(e), IsResolve(e), NEW ts, NEW process, NEW i
  PROVE  ParseBody(ts, process, WriteDns(e), i) = {Asked(e, ts, process, i)}
<1> DEFINE body == WriteDns(e)
           all == ParseResolve(ts, process, body, i)
<1>1. /\ all = {Asked(e, ts, process, i)}
      /\ OnlyVia(body) \/ OnlyType(body)
  BY ResolveParsed
<1>2. /\ ~ Has(body, Phrase.Request) /\ ~ Has(body, Phrase.Response) /\ ~ Has(body, Phrase.EmptyResponse)
      /\ Has(body, " resolve via ") \/ Has(body, " DNS request type=")
  <2>1. /\ Phrase.Request \in Keywords /\ Phrase.Response \in Keywords /\ Phrase.EmptyResponse \in Keywords
        /\ {Phrase.Request, Phrase.Response, Phrase.EmptyResponse} \cap {" resolve via ", " DNS request type="} = {}
        /\ " resolve via " \in Keywords /\ " DNS request type=" \in Keywords
    BY DEF Phrase, Keywords
  <2>2. QED
    BY <1>1, <2>1 DEF Has, OnlyVia, OnlyType
<1> HIDE DEF all
<1>3. QED
  BY <1>1, <1>2 DEF ParseBody, all

(* The line of a connection.                                                 *)
ConnectionType ==
  [kind : {"connection"}, ts : Nat, process : Process, target : TargetType, rule : Text, action : DOMAIN Phrases]
OnlyMatch(body) == ToSet(body) \cap Keywords = {" matching ", " rule : "}

LEMMA MatchIs ==
  ASSUME NEW target \in Words, NEW rule \in Words, NEW phrase \in Words,
         ToSet(target) \cap Keywords = {}, ToSet(rule) \cap Keywords = {}, ToSet(phrase) \cap Keywords = {},
         NEW body, MatchText(body, target, rule, phrase)
  PROVE  body \in Words /\ OnlyMatch(body)
<1> DEFINE match == " matching "
           name == " rule : "
           um == <<match>>
           x == (target \o um) \o rule
<1>1. match \in Token /\ name \in Token /\ match \in Keywords /\ name \in Keywords
  BY MarksAre DEF Marks, Keywords
<1>2. Between(x, target, match, rule) /\ Between(body, x, name, phrase)
  BY DEF Between, MatchText
<1> HIDE DEF match, name, x
<1>3. x \in Words /\ ToSet(x) = ToSet(target) \cup {match} \cup ToSet(rule)
  BY <1>1, <1>2, InBetween
<1>4. body \in Words /\ ToSet(body) = ToSet(x) \cup {name} \cup ToSet(phrase)
  BY <1>1, <1>2, <1>3, InBetween
<1>5. ToSet(body) \cap Keywords = {match, name}
  BY <1>1, <1>3, <1>4
<1>6. QED
  BY <1>4, <1>5 DEF OnlyMatch, match, name

LEMMA MatchBody ==
  ASSUME NEW body, OnlyMatch(body), NEW ts, NEW process, NEW i
  PROVE  ParseBody(ts, process, body, i) = ParseMatch(ts, process, body, i)
<1>1. /\ ~ Has(body, Phrase.Request) /\ ~ Has(body, Phrase.Response) /\ ~ Has(body, Phrase.EmptyResponse)
      /\ ~ Has(body, " resolve via ") /\ ~ Has(body, " DNS request type=")
      /\ Has(body, " matching ") /\ Has(body, " rule : ")
  <2>1. /\ Phrase.Request \in Keywords /\ Phrase.Response \in Keywords /\ Phrase.EmptyResponse \in Keywords
        /\ {Phrase.Request, Phrase.Response, Phrase.EmptyResponse} \cap {" matching ", " rule : "} = {}
        /\ " resolve via " \in Keywords /\ " DNS request type=" \in Keywords
        /\ " matching " \in Keywords /\ " rule : " \in Keywords
    BY DEF Phrase, Keywords
  <2>2. \A c \in Keywords : Has(body, c) <=> c \in {" matching ", " rule : "}
    BY DEF Has, OnlyMatch
  <2>3. " resolve via " \notin {" matching ", " rule : "} /\ " DNS request type=" \notin {" matching ", " rule : "}
    OBVIOUS
  <2>4. QED
    BY <2>1, <2>2, <2>3
<1>2. QED
  BY <1>1 DEF ParseBody

LEMMA ConnectionParsed ==
  ASSUME NEW e \in ConnectionType, LegibleTarget(e.target), Free(e.rule, Keywords),
         NEW body, MatchText(body, WriteTarget(e.target), e.rule, Phrases[e.action]),
         NEW ts, NEW process, NEW i
  PROVE  /\ ParseBody(ts, process, body, i) = {Connection(ts, process, e.target, e.rule, e.action, i)}
         /\ body \in Words
<1> DEFINE target == WriteTarget(e.target)
           phrase == Phrases[e.action]
           rule == e.rule
<1>1. e.target \in TargetType /\ e.action \in DOMAIN Phrases /\ rule \in Words
  BY TextIsWords DEF ConnectionType
<1>2. target \in Words /\ ToSet(target) \cap Keywords = {} /\ ParseTarget(target) = {e.target}
  BY <1>1, TargetReadBack
<1>3. phrase \in Words /\ ToSet(phrase) \cap Keywords = {} /\ ParseAction(phrase) = e.action
  BY <1>1, PhraseReadBack
<1>4. ToSet(rule) \cap Keywords = {}
  BY DEF Free
<1>5. Clear(target, rule)
  BY <1>2, <1>4 DEF Keywords, Clear
<1>6. MatchText(body, target, rule, phrase)
  OBVIOUS
<1> HIDE DEF target, phrase, rule
<1>7. body \in Words /\ OnlyMatch(body)
  BY <1>1, <1>2, <1>3, <1>4, <1>6, MatchIs
<1>8. ParseBody(ts, process, body, i) = ParseMatch(ts, process, body, i)
  BY <1>7, MatchBody
<1>9. ParseMatch(ts, process, body, i) = {Connection(ts, process, e.target, rule, ParseAction(phrase), i)}
  BY <1>1, <1>2, <1>3, <1>5, <1>6, MatchParsed
<1>10. QED
  BY <1>3, <1>7, <1>8, <1>9 DEF rule

(* Any line of an event.                                                     *)
BodyOf(e) ==
  IF e.kind # "connection" THEN WriteDns(e)
  ELSE WriteTarget(e.target) \o <<" matching ">> \o e.rule \o <<" rule : ">> \o Phrases[e.action]

LEMMA WrittenIs ==
  ASSUME NEW e, e.kind # "other", e.ts # 0
  PROVE  Written(e).ts = {e.ts} /\ LineText(Written(e).rest, WriteProcess(e.process), BodyOf(e))
<1>1. Written(e).ts = {e.ts} \ {0}
  BY DEF Written
<1>2. Written(e).rest = WriteProcess(e.process) \o <<" - ">> \o BodyOf(e)
  BY DEF Written, BodyOf
<1>3. QED
  BY <1>1, <1>2 DEF LineText

Stamped(e, i) == Extended([raw_offset |-> i], e)

LEMMA ConnectionStamped ==
  ASSUME NEW e \in ConnectionType, NEW i
  PROVE  Connection(e.ts, e.process, e.target, e.rule, e.action, i) = Stamped(e, i)
<1> DEFINE D == {"kind", "ts", "process", "target", "rule", "action", "raw_offset"}
           c == Connection(e.ts, e.process, e.target, e.rule, e.action, i)
           s == Stamped(e, i)
           f == [raw_offset |-> i]
<1>1. DOMAIN f = {"raw_offset"} /\ f["raw_offset"] = i
  OBVIOUS
<1>2. DOMAIN e = {"kind", "ts", "process", "target", "rule", "action"} /\ e.kind = "connection"
  BY DEF ConnectionType
<1>3. s = [x \in DOMAIN f \cup DOMAIN e |-> IF x \in DOMAIN f THEN f[x] ELSE e[x]]
  BY DEF Stamped, Extended
<1> HIDE DEF f
<1>4. s = [x \in D |-> IF x = "raw_offset" THEN i ELSE e[x]]
  BY <1>1, <1>2, <1>3
<1>5. c = [x \in D |-> c[x]]
  BY DEF Connection
<1>6. \A x \in D : c[x] = IF x = "raw_offset" THEN i ELSE e[x]
  BY <1>2 DEF Connection
<1>7. QED
  BY <1>4, <1>5, <1>6

Orphan(process) == [process EXCEPT !.parent = {}] = process

LEMMA AskedStamped ==
  ASSUME NEW e \in NameType, NEW i, Orphan(e.process)
  PROVE  Asked(e, e.ts, e.process, i) = Stamped(e, i)
<1> DEFINE D == {"kind", "ts", "process", "server", "qname", "qtype", "answer_ip", "raw_offset"}
           c == Asked(e, e.ts, e.process, i)
           s == Stamped(e, i)
           f == [raw_offset |-> i]
<1>1. DOMAIN f = {"raw_offset"} /\ f["raw_offset"] = i
  OBVIOUS
<1>2. DOMAIN e = {"kind", "ts", "process", "server", "qname", "qtype", "answer_ip"}
  BY DEF NameType
<1>3. s = [x \in DOMAIN f \cup DOMAIN e |-> IF x \in DOMAIN f THEN f[x] ELSE e[x]]
  BY DEF Stamped, Extended
<1> HIDE DEF f
<1>4. s = [x \in D |-> IF x = "raw_offset" THEN i ELSE e[x]]
  BY <1>1, <1>2, <1>3
<1>5. c = [kind |-> e.kind, ts |-> e.ts, process |-> e.process, server |-> e.server,
           qname |-> e.qname, qtype |-> e.qtype, answer_ip |-> e.answer_ip, raw_offset |-> i]
  BY DEF Asked, Dns, Orphan
<1> HIDE DEF c
<1>6. c = [x \in D |-> c[x]]
  BY <1>5
<1>7. \A x \in D : c[x] = IF x = "raw_offset" THEN i ELSE e[x]
  BY <1>2, <1>5
<1>9. [x \in D |-> c[x]] = [x \in D |-> IF x = "raw_offset" THEN i ELSE e[x]]
  BY <1>7
<1>10. c = s
  BY <1>4, <1>6, <1>9
<1>8. QED
  BY <1>10 DEF c

(* The rest after a cut holds tokens of the whole.                           *)
LEMMA CutTokens ==
  ASSUME NEW s \in Words, NEW t, NEW cut \in Split(s, t)
  PROVE  ToSet(cut[2]) \subseteq ToSet(s)
<1> DEFINE I == {i \in 1 .. Len(s) : s[i] = t}
           k == IF I # {} THEN Min(I) ELSE 0
           right == SubSeq(s, k + 1, Len(s))
<1>1. Len(s) \in Nat /\ DOMAIN s = 1 .. Len(s) /\ s \in Seq(Token) /\ \A i \in 1 .. Len(s) : s[i] \in ToSet(s) /\ s[i] \in Token
  BY WordsAre DEF Words
<1>2. Split(s, t) = Around(s, k)
  BY DEF Split, SelectInSeq
<1>3. k # 0 /\ cut[2] = right
  BY SMTT(30), <1>2 DEF Around
<1>4. k \in I
  <2>1. I \in SUBSET Nat /\ I # {}
    BY <1>1, <1>3
  <2>2. PICK m \in I : \A n \in I : m <= n
    BY <2>1, Least
  <2>3. Min(I) \in I
    BY <2>1, <2>2 DEF Min
  <2>4. QED
    BY <2>1, <2>3
<1> HIDE DEF I, k
<1>5. k \in Nat /\ k <= Len(s)
  BY <1>1, <1>4 DEF I
<1>6. right \in Seq(Token) /\ Len(right) = Len(s) - k /\ \A i \in 1 .. Len(s) - k : right[i] = s[k + i]
  <2> DEFINE m == k + 1
             n == Len(s)
  <2>7. k \in Nat /\ n \in Nat /\ k <= n
    BY <1>1, <1>5
  <2>1. m \in Int /\ n \in Int /\ n - m + 1 = n - k /\ (m <= n \/ n - k = 0)
    <3> HIDE DEF n
    <3>1. QED
      BY <2>7
  <2>6. \A j \in m .. n : s[j] \in Token
    BY <1>1, <1>5
  <2>2. \A j \in 1 .. n - k : m + j - 1 = k + j
    BY <1>1, <1>5
  <2>3. right = SubSeq(s, m, n)
    OBVIOUS
  <2> HIDE DEF m, right
  <2>4. /\ right \in Seq(Token) /\ Len(right) = IF m <= n THEN n - m + 1 ELSE 0
        /\ \A j \in 1 .. n - m + 1 : right[j] = s[m + j - 1]
    BY <2>1, <2>3, <2>6, SubSeqProperties
  <2>5. QED
    BY <2>1, <2>2, <2>4
<1>7. ASSUME NEW c \in ToSet(right) PROVE c \in ToSet(s)
  <2>1. PICK i \in 1 .. Len(s) - k : right[i] = c
    BY <1>6, WordsAre DEF ToSet, Words
  <2>2. k + i \in 1 .. Len(s)
    BY <1>1, <1>5, <2>1
  <2>3. QED
    BY <1>1, <1>6, <2>1, <2>2
<1>8. QED
  BY <1>3, <1>7

(* A line that is none of them gives no row.                                 *)
OtherType == [kind : {"other"}, ts : Nat, rest : Text]
IsOther(v) == v.kind = "other"

LEMMA OtherBody ==
  ASSUME NEW body, ToSet(body) \cap Keywords = {}, NEW ts, NEW process, NEW i
  PROVE  ParseBody(ts, process, body, i) = {Unknown(ts, i)}
<1>1. \A c \in Keywords : ~ Has(body, c)
  BY DEF Has
<1>2. /\ Phrase.Request \in Keywords /\ Phrase.Response \in Keywords /\ Phrase.EmptyResponse \in Keywords
      /\ " resolve via " \in Keywords /\ " DNS request type=" \in Keywords
      /\ " matching " \in Keywords /\ " rule : " \in Keywords
  BY DEF Phrase, Keywords
<1>3. QED
  BY <1>1, <1>2 DEF ParseBody

LEMMA OtherRead ==
  ASSUME NEW e \in OtherType, Free(e.rest, Keywords), NEW i, NEW v \in ParseLine(Written(e), i)
  PROVE  IsOther(v)
<1> DEFINE dash == " - "
           rest == Written(e).rest
           Of(ts, cut) == ParseBody(ts, ParseProcess(cut[1]), cut[2], i)
<1>1. rest = e.rest
  BY DEF Written, OtherType
<1>2. rest \in Words /\ ToSet(rest) \cap Keywords = {}
  BY <1>1, TextIsWords DEF OtherType, Free
<1> DEFINE At(ts) == UNION {Of(ts, cut) : cut \in Split(rest, dash)}
<1>7. ParseLine(Written(e), i) = UNION {At(ts) : ts \in Written(e).ts}
  BY DEF ParseLine
<1> HIDE DEF At
<1>8. PICK ts \in Written(e).ts : v \in At(ts)
  BY <1>7
<1> HIDE DEF rest, dash, Of
<1>3. PICK cut \in Split(rest, dash) : v \in Of(ts, cut)
  BY <1>8 DEF At
<1>4. ToSet(cut[2]) \cap Keywords = {}
  BY <1>2, CutTokens
<1>5. v \in {Unknown(ts, i)}
  BY <1>3, <1>4, OtherBody DEF Of
<1>6. QED
  BY <1>5 DEF Unknown, IsOther

(* An event is read as it was logged.                                        *)
EntryIs(e) == e \in ConnectionType \/ e \in NameType

LEMMA BodyReadBack ==
  ASSUME NEW e, EntryIs(e), Legible(e), NEW i
  PROVE  BodyOf(e) \in Words /\ ParseBody(e.ts, e.process, BodyOf(e), i) = {Stamped(e, i)}
<1>1. CASE e \in ConnectionType
  <2>1. e.kind = "connection"
    BY <1>1 DEF ConnectionType
  <2>2. LegibleTarget(e.target) /\ Free(e.rule, Keywords)
    BY <2>1 DEF Legible
  <2>3. MatchText(BodyOf(e), WriteTarget(e.target), e.rule, Phrases[e.action])
    BY <2>1 DEF BodyOf, MatchText
  <2>4. /\ ParseBody(e.ts, e.process, BodyOf(e), i) = {Connection(e.ts, e.process, e.target, e.rule, e.action, i)}
        /\ BodyOf(e) \in Words
    BY <1>1, <2>2, <2>3, ConnectionParsed
  <2>5. Connection(e.ts, e.process, e.target, e.rule, e.action, i) = Stamped(e, i)
    BY <1>1, ConnectionStamped
  <2>6. QED
    BY <2>4, <2>5
<1>2. CASE e \in NameType
  <2>1. e.kind # "connection" /\ e.kind # "other"
    BY <1>2 DEF NameType, NameKinds
  <2>2. LegibleName(e) /\ BodyOf(e) = WriteDns(e)
    BY <2>1 DEF Legible, BodyOf
  <2>3. Asked(e, e.ts, e.process, i) = Stamped(e, i)
    BY <1>2, <2>2, NameParts, AskedStamped DEF Orphan
  <2>4. CASE IsResolve(e)
    <3>1. ParseBody(e.ts, e.process, WriteDns(e), i) = {Asked(e, e.ts, e.process, i)}
      BY <1>2, <2>2, <2>4, ResolveBody
    <3>2. WriteDns(e) \in Words
      BY <1>2, <2>2, <2>4, ResolveParsed
    <3>3. QED
      BY <2>2, <2>3, <3>1, <3>2
  <2>5. CASE ~ IsResolve(e)
    <3>1. e.kind # "Resolve"
      BY <2>5 DEF IsResolve
    <3>2. ParseBody(e.ts, e.process, WriteDns(e), i) = {Asked(e, e.ts, e.process, i)}
      BY <1>2, <2>2, <3>1, ServerBody
    <3>3. WriteDns(e) \in Words
      BY <1>2, <2>2, <3>1, ServerParsed
    <3>4. QED
      BY <2>2, <2>3, <3>2, <3>3
  <2>6. QED
    BY <2>4, <2>5
<1>3. QED
  BY <1>1, <1>2 DEF EntryIs

LEMMA EventRead ==
  ASSUME NEW e, EntryIs(e), Legible(e), NEW i
  PROVE  ParseLine(Written(e), i) = {Stamped(e, i)}
<1> DEFINE p == e.process
           w == WriteProcess(p)
           line == Written(e)
<1>1. e.kind # "other" /\ p \in Process
  BY DEF EntryIs, ConnectionType, NameType, NameKinds
<1>2. e.ts # 0 /\ LegibleProcess(p)
  BY <1>1 DEF Legible
<1>3. p.name \in Words /\ p.parent \in SUBSET Words
  BY <1>1, TextIsWords DEF Process
<1>4. ParseProcess(w) = p /\ w \in Words /\ NoDash(w)
  BY <1>1, <1>2, <1>3, ProcessReadBack DEF NoDash
<1>5. line.ts = {e.ts} /\ LineText(line.rest, w, BodyOf(e))
  BY <1>1, <1>2, WrittenIs
<1>6. BodyOf(e) \in Words /\ ParseBody(e.ts, p, BodyOf(e), i) = {Stamped(e, i)}
  BY BodyReadBack
<1> HIDE DEF p, w, line
<1>7. ParseLine(line, i) = ParseBody(e.ts, ParseProcess(w), BodyOf(e), i)
  BY <1>4, <1>5, <1>6, LineParsed
<1>8. QED
  BY <1>4, <1>6, <1>7 DEF line

EventKinds == {"connection"} \cup NameKinds

LEMMA EntryIsOne ==
  ASSUME NEW e \in Entry
  PROVE  /\ EntryIs(e) \/ e \in OtherType
         /\ EntryIs(e) => e.kind \in EventKinds /\ \A i : Stamped(e, i).kind = e.kind
         /\ e \in OtherType => e.kind = "other"
<1>1. EntryIs(e) \/ e \in OtherType
  BY DEF Entry, EntryIs, ConnectionType, TargetType, NameType, OtherType
<1>2. ASSUME EntryIs(e) PROVE e.kind \in EventKinds /\ "kind" \in DOMAIN e
  BY <1>2 DEF EntryIs, ConnectionType, NameType, EventKinds
<1>3. ASSUME EntryIs(e), NEW i PROVE Stamped(e, i).kind = e.kind
  <2> DEFINE f == [raw_offset |-> i]
  <2>1. DOMAIN f = {"raw_offset"}
    OBVIOUS
  <2>2. Stamped(e, i) = [x \in DOMAIN f \cup DOMAIN e |-> IF x \in DOMAIN f THEN f[x] ELSE e[x]]
    BY DEF Stamped, Extended
  <2> HIDE DEF f
  <2>3. QED
    BY <1>2, <1>3, <2>1, <2>2
<1>4. QED
  BY <1>1, <1>2, <1>3 DEF OtherType

LEMMA LoadsIs ==
  ASSUME NEW e \in Entry, Legible(e), NEW i, NEW kinds \in SUBSET EventKinds
  PROVE  Loads(Written(e), i, kinds) = IF e.kind \in kinds THEN {Stamped(e, i)} ELSE {}
<1>1. "other" \notin EventKinds
  BY DEF EventKinds, NameKinds
<1>2. CASE EntryIs(e)
  <2>1. ParseLine(Written(e), i) = {Stamped(e, i)}
    BY <1>2, EventRead
  <2>2. Stamped(e, i).kind = e.kind
    BY <1>2, EntryIsOne
  <2>3. QED
    BY <2>1, <2>2 DEF Loads
<1>3. CASE e \in OtherType
  <2>1. Free(e.rest, Keywords) /\ e.kind \notin kinds
    BY <1>1, <1>3, EntryIsOne DEF Legible, OtherType
  <2>2. \A v \in ParseLine(Written(e), i) : v.kind \notin kinds
    BY <1>1, <1>3, <2>1, OtherRead DEF IsOther
  <2>3. QED
    BY <2>1, <2>2 DEF Loads
<1>4. QED
  BY <1>2, <1>3, EntryIsOne

LEMMA StampedTwice ==
  ASSUME NEW e, NEW i, NEW r
  PROVE  Extended([id |-> r], Stamped(e, i)) = Extended([id |-> r, raw_offset |-> i], e)
<1> DEFINE f == [raw_offset |-> i]
           g == [id |-> r]
           h == [id |-> r, raw_offset |-> i]
           s == Stamped(e, i)
           D == DOMAIN e
<1>1. /\ DOMAIN f = {"raw_offset"} /\ f["raw_offset"] = i /\ DOMAIN g = {"id"} /\ g["id"] = r
      /\ DOMAIN h = {"id", "raw_offset"} /\ h["id"] = r /\ h["raw_offset"] = i
  OBVIOUS
<1>2. s = [x \in DOMAIN f \cup D |-> IF x \in DOMAIN f THEN f[x] ELSE e[x]]
  BY DEF Stamped, Extended
<1>3. /\ Extended(g, s) = [x \in DOMAIN g \cup DOMAIN s |-> IF x \in DOMAIN g THEN g[x] ELSE s[x]]
      /\ Extended(h, e) = [x \in DOMAIN h \cup D |-> IF x \in DOMAIN h THEN h[x] ELSE e[x]]
  BY DEF Extended
<1> HIDE DEF f, g, h, s, D
<1>4. DOMAIN s = {"raw_offset"} \cup D /\ \A x \in DOMAIN s : s[x] = IF x = "raw_offset" THEN i ELSE e[x]
  BY <1>1, <1>2
<1>5. DOMAIN g \cup DOMAIN s = DOMAIN h \cup D
  BY <1>1, <1>4
<1>6. \A x \in DOMAIN h \cup D :
        (IF x \in DOMAIN g THEN g[x] ELSE s[x]) = (IF x \in DOMAIN h THEN h[x] ELSE e[x])
  BY <1>1, <1>4
<1>7. Extended(g, s) = Extended(h, e)
  BY <1>3, <1>5, <1>6
<1>8. QED
  BY <1>7 DEF g, h, s

LEMMA RowsAreSaid ==
  ASSUME NEW l \in Seq(Entry), \A i \in DOMAIN l : Legible(l[i]), NEW kinds \in SUBSET EventKinds
  PROVE  RowsOf(Lines(l), kinds) = Said(l, kinds)
<1> DEFINE lines == Lines(l)
           at == {i \in DOMAIN l : l[i].kind \in kinds}
           Row(i) == Extended([id |-> Rank(at, i)], CHOOSE e \in Loads(lines[i], i, kinds) : TRUE)
<1>1. DOMAIN lines = DOMAIN l /\ \A i \in DOMAIN l : lines[i] = Written(l[i])
  BY DEF Lines
<1>2. \A i \in DOMAIN l : l[i] \in Entry
  OBVIOUS
<1>3. \A i \in DOMAIN l : Loads(lines[i], i, kinds) = IF l[i].kind \in kinds THEN {Stamped(l[i], i)} ELSE {}
  BY <1>1, <1>2, LoadsIs
<1>4. {i \in DOMAIN lines : Loads(lines[i], i, kinds) # {}} = at
  BY <1>1, <1>3
<1>5. RowsOf(lines, kinds) = {Row(i) : i \in at}
  BY <1>4 DEF RowsOf
<1>6. ASSUME NEW i \in at PROVE Row(i) = Extended([id |-> Rank(at, i), raw_offset |-> i], l[i])
  <2>1. (CHOOSE e \in Loads(lines[i], i, kinds) : TRUE) = Stamped(l[i], i)
    BY <1>3, <1>6
  <2> HIDE DEF at
  <2>2. Row(i) = Extended([id |-> Rank(at, i)], Stamped(l[i], i))
    BY <2>1
  <2>3. QED
    BY <2>2, StampedTwice
<1>7. Said(l, kinds) = {Extended([id |-> Rank(at, i), raw_offset |-> i], l[i]) : i \in at}
  BY DEF Said
<1> HIDE DEF Row
<1>8. QED
  BY <1>5, <1>6, <1>7

-----------------------------------------------------------------------------
(* g[i] is the concatenation of the first i of the sequences ss, up to n.    *)
Concatenates(g, ss, n) ==
  \A i \in 1 .. n : g[i] = IF i = 1 THEN ss[i] ELSE g[i - 1] \o ss[i]

LEMMA PartialUnique ==
  ASSUME NEW n \in Nat, NEW ss, NEW g, NEW h, Concatenates(g, ss, n), Concatenates(h, ss, n)
  PROVE  \A i \in 1 .. n : g[i] = h[i]
<1> DEFINE T == {i \in 1 .. n : g[i] # h[i]}
<1>1. SUFFICES ASSUME T # {} PROVE FALSE
  OBVIOUS
<1>2. T \in SUBSET Nat
  OBVIOUS
<1>3. PICK m \in T : \A i \in T : m <= i
  BY <1>1, <1>2, Least
<1>4. m \in 1 .. n /\ g[m] # h[m]
  OBVIOUS
<1>5. m # 1
  BY <1>4 DEF Concatenates
<1>6. m - 1 \in 1 .. n /\ ~ (m <= m - 1)
  BY <1>4, <1>5
<1>7. g[m - 1] = h[m - 1]
  BY <1>3, <1>6
<1>8. QED
  BY <1>4, <1>5, <1>6, <1>7 DEF Concatenates

LEMMA PartialExists ==
  ASSUME NEW S, NEW ss \in Seq(Seq(S))
  PROVE  \E g \in [1 .. Len(ss) -> Seq(S)] :
           g = [i \in 1 .. Len(ss) |-> IF i = 1 THEN ss[i] ELSE g[i - 1] \o ss[i]]
<1> DEFINE Runs(n) == {g \in [1 .. n -> Seq(S)] :
                         \A i \in 1 .. n : g[i] = IF i = 1 THEN ss[i] ELSE g[i - 1] \o ss[i]}
           T == {n \in 0 .. Len(ss) : Runs(n) = {}}
<1>0. Len(ss) \in Nat /\ \A i \in 1 .. Len(ss) : ss[i] \in Seq(S)
  OBVIOUS
<1>1. T = {}
  <2>1. SUFFICES ASSUME T # {} PROVE FALSE
    OBVIOUS
  <2>2. T \in SUBSET Nat
    BY <1>0
  <2>3. PICK m \in T : \A n \in T : m <= n
    BY <2>1, <2>2, Least
  <2>4. m \in 0 .. Len(ss) /\ Runs(m) = {}
    OBVIOUS
  <2>5. m # 0
    <3>1. [i \in 1 .. 0 |-> <<>>] \in Runs(0)
      OBVIOUS
    <3>2. QED
      BY <2>4, <3>1
  <2>6. m \in Nat /\ m - 1 \in 0 .. Len(ss) /\ ~ (m <= m - 1)
    BY <1>0, <2>4, <2>5
  <2>7. PICK g \in Runs(m - 1) : TRUE
    BY <2>3, <2>6
  <2> DEFINE top == IF m = 1 THEN ss[m] ELSE g[m - 1] \o ss[m]
             h == [i \in 1 .. m |-> IF i = m THEN top ELSE g[i]]
  <2>8. \A i \in 1 .. (m - 1) : g[i] \in Seq(S)
    OBVIOUS
  <2>9. top \in Seq(S)
    BY <1>0, <2>4, <2>6, <2>5, <2>8
  <2>10. h \in [1 .. m -> Seq(S)]
    BY <2>6, <2>8, <2>9
  <2>11. ASSUME NEW i \in 1 .. m PROVE h[i] = IF i = 1 THEN ss[i] ELSE h[i - 1] \o ss[i]
    <3>1. CASE i = m
      BY <2>6, <3>1
    <3>2. CASE i # m
      <4>1. i \in 1 .. (m - 1) /\ (i # 1 => i - 1 \in 1 .. m /\ i - 1 # m)
        BY <2>6, <3>2
      <4>2. g[i] = IF i = 1 THEN ss[i] ELSE g[i - 1] \o ss[i]
        BY <4>1
      <4>3. QED
        BY <3>2, <4>1, <4>2
    <3>3. QED
      BY <3>1, <3>2
  <2>12. QED
    BY <2>4, <2>10, <2>11
<1>2. Len(ss) \in 0 .. Len(ss)
  BY <1>0
<1>3. Runs(Len(ss)) # {}
  <2> HIDE DEF Runs
  <2>1. QED
    BY <1>1, <1>2
<1>6. PICK g \in Runs(Len(ss)) : TRUE
  BY <1>3
<1>4. g = [i \in 1 .. Len(ss) |-> IF i = 1 THEN ss[i] ELSE g[i - 1] \o ss[i]]
  OBVIOUS
<1>5. QED
  BY <1>4

(* The concatenations that FlattenSeq chooses.                               *)
LEMMA FlattenIs ==
  ASSUME NEW S, NEW ss \in Seq(Seq(S)), Len(ss) # 0
  PROVE  \E g \in [1 .. Len(ss) -> Seq(S)] :
           /\ Concatenates(g, ss, Len(ss))
           /\ FlattenSeq(ss) = g[Len(ss)]
<1> DEFINE Is(g) == g = [i \in 1 .. Len(ss) |-> IF i = 1 THEN ss[i] ELSE g[i - 1] \o ss[i]]
           c == CHOOSE g : Is(g)
<1>1. PICK g \in [1 .. Len(ss) -> Seq(S)] : Is(g)
  BY PartialExists
<1>2. Is(c)
  BY <1>1
<1>3. FlattenSeq(ss) = c[Len(ss)]
  BY DEF FlattenSeq
<1> HIDE DEF c
<1>4. Concatenates(c, ss, Len(ss))
  BY <1>2 DEF Concatenates
<1>5. Concatenates(g, ss, Len(ss))
  BY <1>1 DEF Concatenates
<1>6. \A i \in 1 .. Len(ss) : c[i] = g[i]
  <2>1. Len(ss) \in Nat
    OBVIOUS
  <2>2. QED
    BY <1>4, <1>5, <2>1, PartialUnique
<1>7. Len(ss) \in 1 .. Len(ss)
  OBVIOUS
<1>8. FlattenSeq(ss) = g[Len(ss)]
  BY <1>3, <1>6, <1>7
<1>9. QED
  BY <1>5, <1>8

(* Rows of no pages, and of one page more.                                   *)
LEMMA FlattenNone == FlattenSeq(<<>>) = <<>>
BY DEF FlattenSeq

LEMMA FlattenType ==
  ASSUME NEW S, NEW ss \in Seq(Seq(S))
  PROVE  FlattenSeq(ss) \in Seq(S)
<1>1. CASE Len(ss) = 0
  <2>1. ss = <<>> /\ <<>> \in Seq(S)
    BY <1>1
  <2>2. QED
    BY <2>1, FlattenNone
<1>2. CASE Len(ss) # 0
  <2>1. PICK g \in [1 .. Len(ss) -> Seq(S)] : FlattenSeq(ss) = g[Len(ss)]
    BY <1>2, FlattenIs
  <2>2. Len(ss) \in 1 .. Len(ss)
    BY <1>2
  <2>3. QED
    BY <2>1, <2>2
<1>3. QED
  BY <1>1, <1>2

LEMMA FlattenAppend ==
  ASSUME NEW S, NEW ss \in Seq(Seq(S)), NEW s \in Seq(S)
  PROVE  FlattenSeq(Append(ss, s)) = FlattenSeq(ss) \o s
<1> DEFINE n == Len(ss)
           tt == Append(ss, s)
<1>1. tt \in Seq(Seq(S)) /\ Len(tt) = n + 1 /\ n \in Nat /\ tt[n + 1] = s
  OBVIOUS
<1>2. \A i \in 1 .. n : tt[i] = ss[i]
  OBVIOUS
<1> HIDE DEF tt
<1>3. PICK h \in [1 .. n + 1 -> Seq(S)] :
        /\ Concatenates(h, tt, n + 1)
        /\ FlattenSeq(tt) = h[n + 1]
  BY SMTT(30), <1>1, FlattenIs
<1>4. CASE n = 0
  <2>1. ss = <<>>
    BY <1>4
  <2>2. h[1] = s
    BY <1>1, <1>3, <1>4 DEF Concatenates
  <2>3. QED
    BY <1>3, <1>4, <2>1, <2>2, FlattenNone DEF tt
<1>5. CASE n # 0
  <2>1. PICK g \in [1 .. n -> Seq(S)] :
          /\ Concatenates(g, ss, n)
          /\ FlattenSeq(ss) = g[n]
    BY <1>5, FlattenIs
  <2>2. Concatenates(h, ss, n)
    <3>1. \A i \in 1 .. n : i \in 1 .. n + 1
      BY <1>1
    <3>2. QED
      BY <1>2, <1>3, <3>1 DEF Concatenates
  <2>3. \A i \in 1 .. n : g[i] = h[i]
    <3>1. Concatenates(g, ss, n)
      BY <2>1
    <3>2. n \in Nat
      BY <1>1
    <3>3. ASSUME NEW a, NEW b, Concatenates(a, ss, n), Concatenates(b, ss, n)
          PROVE  \A i \in 1 .. n : a[i] = b[i]
      BY <3>2, <3>3, PartialUnique
    <3> HIDE DEF n
    <3>4. QED
      BY <2>2, <3>1, <3>3
  <2>4. n \in 1 .. n /\ n + 1 \in 1 .. n + 1 /\ n + 1 # 1 /\ (n + 1) - 1 = n
    BY <1>1, <1>5
  <2>5. h[n + 1] = h[n] \o s
    BY <1>1, <1>3, <2>4 DEF Concatenates
  <2>6. QED
    BY <1>3, <2>1, <2>3, <2>4, <2>5 DEF tt
<1>6. QED
  BY <1>4, <1>5

-----------------------------------------------------------------------------
(* The rows of a table in the order of a page.                               *)

(* A finite set of rows that their ids tell apart.                           *)
Listable(M) ==
  /\ IsFiniteSet(M)
  /\ \A r \in M : r.id \in Nat /\ r.ts \in Nat
  /\ \A r, q \in M : r.id = q.id => r = q

LEMMA SubsetListable ==
  ASSUME NEW M, Listable(M), NEW T \in SUBSET M
  PROVE  Listable(T)
<1>1. IsFiniteSet(T)
  BY FS_Subset DEF Listable
<1>2. QED
  BY <1>1 DEF Listable

(* Of two rows one comes first, and the order is transitive.                 *)
LEMMA Order ==
  ASSUME NEW M, Listable(M), NEW a \in M, NEW b \in M
  PROVE  /\ a = b \/ Precedes(a, b) \/ Precedes(b, a)
         /\ ~ Precedes(a, a)
         /\ \A c \in M : Precedes(c, a) /\ Precedes(a, b) => Precedes(c, b)
<1>1. a.id \in Nat /\ a.ts \in Nat /\ b.id \in Nat /\ b.ts \in Nat /\ (a.id = b.id => a = b)
  BY DEF Listable
<1>2. a = b \/ Precedes(a, b) \/ Precedes(b, a)
  BY <1>1 DEF Precedes
<1>3. ~ Precedes(a, a)
  BY <1>1 DEF Precedes
<1>4. ASSUME NEW c \in M, Precedes(c, a), Precedes(a, b) PROVE Precedes(c, b)
  <2>1. c.id \in Nat /\ c.ts \in Nat
    BY DEF Listable
  <2>2. QED
    BY <1>1, <1>4, <2>1 DEF Precedes
<1>5. QED
  BY <1>2, <1>3, <1>4

LEMMA PlaceGrows ==
  ASSUME NEW M, Listable(M)
  PROVE  /\ Count(M) \in Nat
         /\ \A a \in M : Place(M, a) \in 1 .. Count(M)
         /\ \A a, b \in M : Precedes(a, b) => Place(M, a) < Place(M, b)
<1> DEFINE Upto(a) == {r \in M : r = a \/ Precedes(r, a)}
<1>1. IsFiniteSet(M) /\ Count(M) \in Nat
  BY FS_CardinalityType DEF Listable, Count
<1>2. ASSUME NEW a \in M
      PROVE  /\ IsFiniteSet(Upto(a)) /\ Place(M, a) = Cardinality(Upto(a))
             /\ Place(M, a) \in Nat /\ Place(M, a) # 0 /\ Place(M, a) <= Count(M)
  <2>1. Upto(a) \in SUBSET M /\ a \in Upto(a) /\ Place(M, a) = Cardinality(Upto(a))
    BY DEF Place, Count
  <2> HIDE DEF Upto
  <2>2. IsFiniteSet(Upto(a)) /\ Cardinality(Upto(a)) <= Cardinality(M)
    BY <1>1, <2>1, FS_Subset
  <2>3. Cardinality(Upto(a)) \in Nat /\ Cardinality(Upto(a)) # 0
    BY <2>1, <2>2, FS_CardinalityType, FS_EmptySet
  <2>4. QED
    BY <2>1, <2>2, <2>3 DEF Count
<1>3. ASSUME NEW a \in M, NEW b \in M, Precedes(a, b) PROVE Place(M, a) < Place(M, b)
  <2>1. ~ Precedes(b, b) /\ ~ (b = a)
    BY <1>3, Order
  <2>2. ~ Precedes(b, a)
    <3>1. Precedes(b, a) /\ Precedes(a, b) => Precedes(b, b)
      BY Order
    <3>2. QED
      BY <1>3, <2>1, <3>1
  <2>3. \A r \in M : Precedes(r, a) => Precedes(r, b)
    BY <1>3, Order
  <2>4. Upto(a) \in SUBSET Upto(b) /\ b \in Upto(b) /\ b \notin Upto(a)
    BY <1>3, <2>1, <2>2, <2>3
  <2> HIDE DEF Upto
  <2>5. IsFiniteSet(Upto(b))
    BY <1>2
  <2>6. Cardinality(Upto(a)) <= Cardinality(Upto(b)) /\ Cardinality(Upto(b)) # Cardinality(Upto(a))
    BY <2>4, <2>5, FS_Subset
  <2>7. Place(M, a) = Cardinality(Upto(a)) /\ Place(M, a) \in Nat
        /\ Place(M, b) = Cardinality(Upto(b)) /\ Place(M, b) \in Nat
    BY <1>2
  <2>8. QED
    BY <2>6, <2>7
<1> HIDE DEF Upto
<1>4. ASSUME NEW a \in M PROVE Place(M, a) \in 1 .. Count(M)
  BY <1>1, <1>2
<1>5. QED
  BY <1>1, <1>3, <1>4

(* Every place is taken.                                                     *)
LEMMA PlaceReaches ==
  ASSUME NEW M, Listable(M), NEW k \in 1 .. Count(M)
  PROVE  \E a \in M : Place(M, a) = k
<1> DEFINE m == Count(M)
           f == [a \in M |-> Place(M, a)]
<1>1. IsFiniteSet(M) /\ m \in Nat /\ m = Cardinality(M)
  BY FS_CardinalityType DEF Listable, Count
<1>2. \A a \in M : f[a] \in 1 .. m /\ f[a] = Place(M, a)
  BY PlaceGrows
<1>3. \A a, b \in M : f[a] = f[b] => a = b
  <2>1. SUFFICES ASSUME NEW a \in M, NEW b \in M, f[a] = f[b], a # b PROVE FALSE
    OBVIOUS
  <2>2. Precedes(a, b) \/ Precedes(b, a)
    BY <2>1, Order
  <2>3. f[a] < f[b] \/ f[b] < f[a]
    BY <2>2, PlaceGrows
  <2>4. f[a] \in Nat /\ f[b] \in Nat
    BY <1>1, <1>2
  <2>5. QED
    BY <2>1, <2>3, <2>4
<1>4. f \in [M -> 1 .. m]
  BY <1>2
<1> HIDE DEF f, m
<1>5. f \in Injection(M, 1 .. m)
  BY <1>3, <1>4 DEF Injection, IsInjective
<1>6. IsFiniteSet(1 .. m) /\ Cardinality(1 .. m) = m
  <2>1. \A l \in Nat : IsFiniteSet(1 .. l) /\ Cardinality(1 .. l) = l
    BY FS_Interval
  <2>2. QED
    BY <1>1, <2>1
<1>7. f \in Surjection(M, 1 .. m)
  BY <1>1, <1>5, <1>6, FS_Injection
<1>8. \E a \in M : f[a] = k
  BY <1>7 DEF Surjection, m
<1>9. QED
  BY <1>2, <1>8

(* ORDER BY: the listing holds every row of the table once, in order.        *)
LEMMA ListingIs ==
  ASSUME NEW M, Listable(M)
  PROVE  /\ Listing(M) \in Seq(M) /\ Len(Listing(M)) = Count(M)
         /\ InOrder(Listing(M)) /\ ToSet(Listing(M)) = M
<1> DEFINE all == Listing(M)
<1>1. Count(M) \in Nat
  BY PlaceGrows
<1>2. ASSUME NEW k \in 1 .. Count(M) PROVE all[k] \in M /\ Place(M, all[k]) = k
  BY PlaceReaches DEF Listing
<1>3. DOMAIN all = 1 .. Count(M)
  BY DEF Listing
<1>4. all \in Seq(M) /\ Len(all) = Count(M)
  <2>1. all \in [1 .. Count(M) -> M]
    BY <1>2 DEF Listing
  <2>2. QED
    BY <1>1, <2>1
<1> HIDE DEF all
<1>5. InOrder(all)
  <2>1. SUFFICES ASSUME NEW i \in 1 .. Count(M), NEW k \in 1 .. Count(M), i < k
                 PROVE  Precedes(all[i], all[k])
    BY <1>3 DEF InOrder
  <2>2. all[i] # all[k] /\ all[i] \in M /\ all[k] \in M
    BY <1>1, <1>2, <2>1
  <2>3. ~ Precedes(all[k], all[i])
    <3>1. Precedes(all[k], all[i]) => Place(M, all[k]) < Place(M, all[i])
      BY <2>2, PlaceGrows
    <3>2. ~ (k < i)
      BY <1>1, <2>1
    <3>3. QED
      BY <1>2, <3>1, <3>2
  <2>4. QED
    BY <2>2, <2>3, Order
<1>6. ToSet(all) = M
  <2>1. ASSUME NEW a \in M PROVE \E k \in 1 .. Count(M) : all[k] = a
    <3>1. Place(M, a) \in 1 .. Count(M)
      BY PlaceGrows
    <3> DEFINE k == Place(M, a)
    <3>2. all[k] \in M /\ Place(M, all[k]) = k
      BY <1>2, <3>1
    <3>3. all[k] = a
      <4>1. SUFFICES ASSUME all[k] # a PROVE FALSE
        OBVIOUS
      <4>2. Precedes(all[k], a) \/ Precedes(a, all[k])
        BY <3>2, <4>1, Order
      <4>3. k < k
        BY <3>2, <4>2, PlaceGrows
      <4>4. QED
        BY <1>1, <3>1, <4>3
    <3>4. QED
      BY <3>1, <3>3
  <2>2. QED
    BY <1>2, <1>3, <2>1 DEF ToSet
<1>7. QED
  BY <1>4, <1>5, <1>6 DEF all

-----------------------------------------------------------------------------
(* The rows of a log.                                                        *)

LEMMA SetOfRows ==
  ASSUME NEW n \in Nat, NEW I \in SUBSET (1 .. n)
  PROVE  /\ IsFiniteSet(I) /\ Cardinality(I) \in Nat /\ \A i \in I : i \in Nat
<1>1. IsFiniteSet(1 .. n)
  BY FS_Interval
<1>2. IsFiniteSet(I)
  BY <1>1, FS_Subset
<1>3. QED
  BY <1>2, FS_CardinalityType

LEMMA RankGrows ==
  ASSUME NEW n \in Nat, NEW I \in SUBSET (1 .. n)
  PROVE  /\ \A i \in I : Rank(I, i) \in Nat
         /\ \A i, j \in I : i < j => Rank(I, i) < Rank(I, j)
<1>1. IsFiniteSet(I) /\ Cardinality(I) \in Nat /\ \A i \in I : i \in Nat
  BY SetOfRows
<1>2. ASSUME NEW i \in I
      PROVE  IsFiniteSet({j \in I : j <= i}) /\ Rank(I, i) \in Nat
  <2> DEFINE T == {j \in I : j <= i}
  <2>1. T \in SUBSET I
    OBVIOUS
  <2> HIDE DEF T
  <2>2. IsFiniteSet(T)
    BY <1>1, <2>1, FS_Subset
  <2>3. QED
    BY <2>2, FS_CardinalityType DEF Rank, T
<1>3. ASSUME NEW i \in I, NEW j \in I, i < j PROVE Rank(I, i) < Rank(I, j)
  <2> DEFINE T == {x \in I : x <= i}
             U == {x \in I : x <= j}
  <2>1. i \in Nat /\ j \in Nat /\ ~ (j <= i)
    BY <1>1, <1>3
  <2>2. \A x \in I : x <= i => x <= j
    BY <1>1, <1>3, <2>1
  <2>3. T \in SUBSET U /\ j \notin T
    BY <2>1, <2>2
  <2>8. j \in U
    BY <2>1
  <2>4. IsFiniteSet(U)
    BY <1>2
  <2> HIDE DEF T, U
  <2>5. Cardinality(T) <= Cardinality(U) /\ Cardinality(U) # Cardinality(T)
    BY <2>3, <2>4, <2>8, FS_Subset
  <2>6. Cardinality(T) \in Nat /\ Cardinality(U) \in Nat
    BY <1>2 DEF Rank, T, U
  <2>7. QED
    BY <2>5, <2>6 DEF Rank, T, U
<1>4. QED
  BY <1>2, <1>3

(* An event is of the time its line is of.                                   *)
LEMMA EventTimes ==
  ASSUME NEW line, NEW offset, NEW e \in ParseLine(line, offset)
  PROVE  "ts" \in DOMAIN e /\ e.ts \in line.ts
<1> DEFINE Of(ts, cut) == ParseBody(ts, ParseProcess(cut[1]), cut[2], offset)
           At(ts) == UNION {Of(ts, cut) : cut \in Split(line.rest, " - ")}
<1>1. ParseLine(line, offset) = UNION {At(ts) : ts \in line.ts}
  BY DEF ParseLine
<1> HIDE DEF At
<1>8. PICK ts \in line.ts : e \in At(ts)
  BY <1>1
<1>9. PICK cut \in Split(line.rest, " - ") : e \in Of(ts, cut)
  <2> HIDE DEF Of
  <2>1. QED
    BY <1>8 DEF At
<1>7. PICK process, body : e \in ParseBody(ts, process, body, offset)
  BY <1>9
<1>2. ASSUME NEW kind, e \in ParseDns(kind, ts, process, body, offset)
      PROVE  "ts" \in DOMAIN e /\ e.ts = ts
  <2>1. PICK server, qname, qtype, answer :
          e = Dns(kind, ts, process, server, qname, qtype, answer, offset)
    BY <1>2 DEF ParseDns
  <2>2. QED
    BY <2>1 DEF Dns
<1>3. ASSUME e \in ParseResolve(ts, process, body, offset)
      PROVE  "ts" \in DOMAIN e /\ e.ts = ts
  <2>1. PICK server, qname, qtype :
          e = Dns("Resolve", ts, process, server, qname, qtype, {}, offset)
    BY <1>3 DEF ParseResolve
  <2>2. QED
    BY <2>1 DEF Dns
<1>4. ASSUME e \in ParseMatch(ts, process, body, offset)
      PROVE  "ts" \in DOMAIN e /\ e.ts = ts
  <2>1. PICK m : e = Connection(ts, process, m[1], m[2], m[3], offset)
    BY <1>4 DEF ParseMatch
  <2>2. QED
    BY <2>1 DEF Connection
<1>5. ASSUME e \in {Unknown(ts, offset)}
      PROVE  "ts" \in DOMAIN e /\ e.ts = ts
  <2>1. e = [kind |-> "other", ts |-> ts, raw_offset |-> offset]
    BY <1>5 DEF Unknown
  <2>2. QED
    BY <2>1
<1>6. QED
  BY <1>7, <1>2, <1>3, <1>4, <1>5 DEF ParseBody

LEMMA Numbered ==
  ASSUME NEW n, NEW e, "ts" \in DOMAIN e
  PROVE  Extended([id |-> n], e).id = n /\ Extended([id |-> n], e).ts = e.ts
BY DEF Extended

LEMMA LineTimes == ASSUME NEW l \in Logs, NEW i \in DOMAIN l PROVE Lines(l)[i].ts \subseteq Nat
<1>1. l[i] \in Entry
  BY LogTableAssumption
<1>2. l[i].ts \in Nat
  BY <1>1 DEF Entry
<1>3. QED
  BY <1>2 DEF Lines, Written

LEMMA RowsListable ==
  ASSUME NEW l \in Logs, NEW kinds
  PROVE  Listable(RowsOf(Lines(l), kinds))
<1> DEFINE lines == Lines(l)
           at == {i \in DOMAIN lines : Loads(lines[i], i, kinds) # {}}
           event(i) == CHOOSE e \in Loads(lines[i], i, kinds) : TRUE
           row(i) == Extended([id |-> Rank(at, i)], event(i))
<1>1. Len(l) \in Nat /\ DOMAIN lines = 1 .. Len(l)
  BY LogTableAssumption DEF Lines
<1>2. RowsOf(lines, kinds) = {row(i) : i \in at}
  BY DEF RowsOf
<1>3. at \in SUBSET (1 .. Len(l))
  BY <1>1
<1>4. ASSUME NEW i \in at PROVE row(i).id = Rank(at, i) /\ row(i).ts \in Nat
  <2>1. event(i) \in ParseLine(lines[i], i)
    BY DEF Loads
  <2>2. "ts" \in DOMAIN event(i) /\ event(i).ts \in lines[i].ts
    BY <2>1, EventTimes
  <2>3. lines[i].ts \subseteq Nat
    BY <1>1, LineTimes DEF Lines
  <2> HIDE DEF at, event
  <2>4. row(i).id = Rank(at, i) /\ row(i).ts = event(i).ts
    BY <2>2, Numbered
  <2>5. QED
    BY <2>2, <2>3, <2>4
<1> HIDE DEF at, row
<1>5. \A i \in at : Rank(at, i) \in Nat
  BY <1>1, <1>3, RankGrows
<1>6. \A i, j \in at : row(i).id = row(j).id => i = j
  <2>1. SUFFICES ASSUME NEW i \in at, NEW j \in at, Rank(at, i) = Rank(at, j), i # j PROVE FALSE
    BY <1>4
  <2>2. i \in Nat /\ j \in Nat
    BY <1>3
  <2>3. \A x, y \in at : x < y => Rank(at, x) < Rank(at, y)
    BY <1>1, <1>3, RankGrows
  <2>5. i < j \/ j < i
    BY <2>1, <2>2
  <2>4. QED
    BY <1>5, <2>1, <2>3, <2>5
<1>7. IsFiniteSet({row(i) : i \in at})
  <2>1. IsFiniteSet(at)
    BY <1>1, <1>3, SetOfRows
  <2> DEFINE f == [i \in at |-> row(i)]
  <2>2. f \in Surjection(at, {row(i) : i \in at})
    BY DEF Surjection
  <2>3. QED
    BY <2>1, <2>2, FS_Surjection
<1>8. QED
  BY <1>2, <1>4, <1>5, <1>6, <1>7 DEF Listable

-----------------------------------------------------------------------------
(* The types of the variables.                                               *)

Row   == UNION {EventRows(Lines(l)) : l \in Logs}
Pages == Seq(Seq(Row))
Fetch == [kind : {"none", "refetch", "more"}, got : Pages, want : Nat, answer : SUBSET Seq(Row)]
CacheEntry == [pages : Pages, data : BOOLEAN, invalid : BOOLEAN, fetch : Fetch]

TypeOK ==
  /\ log \in Logs /\ store = EventRows(Lines(log))
  /\ ingest \in {<<>>, <<"answered">>} \cup ({"running"} \X Opens)
  /\ filter \in Filters
  /\ cache \in [Filters -> CacheEntry]
  /\ \A f \in Filters : cache[f].fetch.kind = "none" => cache[f].fetch = NoFetch
  /\ overtaken \subseteq Filters

(* What an entry holds, or a request has so far, are the first rows of the   *)
(* table in the order of the page; without a further page, all of them.      *)
Held(table, f, pages) ==
  LET all == Listing(Matching(table, f))
  IN /\ Len(Rows(pages)) <= Len(all)
     /\ Rows(pages) = SubSeq(all, 1, Len(Rows(pages)))
     /\ HasNext(pages) \/ Rows(pages) = all

Fresh(table, f, e) ==
  /\ e.data /\ ~ e.invalid => Held(table, f, e.pages)
  /\ e.fetch.kind # "none" =>
       /\ Held(table, f, e.fetch.got)
       /\ \A page \in e.fetch.answer : Held(table, f, Append(e.fetch.got, page))

(* The inductive invariant: between the answers of two ingests every entry   *)
(* that was not overtaken is of the published table.                         *)
CacheFresh == ingest # <<"answered">> => \A f \in Filters \ overtaken : Fresh(store, f, cache[f])

IInv == TypeOK /\ CacheFresh

-----------------------------------------------------------------------------
(* Pages.                                                                    *)

LEMMA StoreListable ==
  ASSUME TypeOK, NEW f
  PROVE  Listable(store) /\ Listable(Matching(store, f)) /\ Matching(store, f) \subseteq store
         /\ store \subseteq Row
<1>1. Listable(store) /\ store \subseteq Row
  BY RowsListable DEF TypeOK, EventRows, Row
<1>2. Matching(store, f) \in SUBSET store
  BY DEF Matching
<1>3. QED
  BY <1>1, <1>2, SubsetListable

LEMMA MaxOfTwo == ASSUME NEW m \in Nat, NEW n \in Nat PROVE Max({m, n}) \in Nat
<1>1. CASE m <= n
  BY <1>1 DEF Max
<1>2. CASE n <= m
  BY <1>2 DEF Max
<1>3. QED
  BY <1>1, <1>2

LEMMA MinOfTwo ==
  ASSUME NEW m \in Nat, NEW n \in Nat
  PROVE  Min({m, n}) = IF m <= n THEN m ELSE n
BY DEF Min

LEMMA NoPages ==
  ASSUME TypeOK, NEW f
  PROVE  <<>> \in Pages /\ Held(store, f, <<>>)
<1> DEFINE all == Listing(Matching(store, f))
<1>1. all \in Seq(Matching(store, f))
  BY StoreListable, ListingIs
<1>2. Rows(<<>>) = <<>>
  BY FlattenNone DEF Rows
<1> HIDE DEF all
<1>3. SubSeq(all, 1, 0) = <<>> /\ Len(all) \in Nat
  BY <1>1
<1>4. <<>> \in Pages
  BY DEF Pages
<1>5. Len(Rows(<<>>)) = 0 /\ HasNext(<<>>)
  BY <1>2 DEF HasNext
<1>6. Held(store, f, <<>>)
  <2>1. Len(Rows(<<>>)) <= Len(all)
    BY <1>3, <1>5
  <2>2. SubSeq(all, 1, Len(Rows(<<>>))) = Rows(<<>>)
    BY <1>2, <1>3, <1>5
  <2>3. QED
    BY <1>5, <2>1, <2>2 DEF Held, all
<1>7. QED
  BY <1>4, <1>6

(* One page more.                                                            *)
LEMMA PageTyped ==
  ASSUME TypeOK, NEW f, NEW got \in Pages
  PROVE  QueryEvents(store, f, PageSize, NextOffset(got)) \in Seq(Row)
<1> DEFINE all == Listing(Matching(store, f))
           off == Len(Rows(got))
           hi == Min({off + PageSize, Len(all)})
<1>1. all \in Seq(Row) /\ Len(all) \in Nat
  <2>1. all \in Seq(Matching(store, f)) /\ Matching(store, f) \subseteq Row
    BY StoreListable, ListingIs
  <2>2. QED
    BY <2>1
<1>2. off \in Nat /\ PageSize \in Nat
  BY FlattenType, LogTableAssumption DEF Rows, Pages
<1>3. hi \in Nat /\ hi <= Len(all)
  BY <1>1, <1>2, MinOfTwo
<1> HIDE DEF all, off, hi
<1>4. SubSeq(all, off + 1, hi) \in Seq(Row)
  BY <1>1, <1>2, <1>3
<1>5. QED
  BY <1>4 DEF QueryEvents, NextOffset, all, off, hi

LEMMA PageHeld ==
  ASSUME TypeOK, NEW f, NEW got \in Pages, Held(store, f, got),
         NEW page, page = QueryEvents(store, f, PageSize, NextOffset(got))
  PROVE  Held(store, f, Append(got, page))
<1> DEFINE all == Listing(Matching(store, f))
           rows == Rows(got)
           off == Len(rows)
           hi == IF off + PageSize <= Len(all) THEN off + PageSize ELSE Len(all)
<1>1. all \in Seq(Row) /\ Len(all) \in Nat
  <2>1. all \in Seq(Matching(store, f)) /\ Matching(store, f) \subseteq Row
    BY StoreListable, ListingIs
  <2>2. QED
    BY <2>1
<1>2. rows \in Seq(Row) /\ off \in Nat
  BY FlattenType DEF Rows, Pages
<1>3. PageSize \in Nat /\ PageSize # 0
  BY LogTableAssumption
<1>4. off <= Len(all) /\ rows = SubSeq(all, 1, off) /\ (HasNext(got) \/ rows = all)
  BY DEF Held
<1>5. page = SubSeq(all, off + 1, hi)
  <2>1. Min({off + PageSize, Len(all)}) = hi
    BY <1>1, <1>2, <1>3, MinOfTwo
  <2>2. QED
    BY <2>1 DEF QueryEvents, NextOffset
<1> HIDE DEF all, rows
<1>6. page \in Seq(Row) /\ Len(page) = hi - off /\ off <= hi /\ hi <= Len(all) /\ hi \in Nat
  BY <1>1, <1>2, <1>3, <1>4, <1>5
<1>7. Rows(Append(got, page)) = rows \o page
  BY <1>6, FlattenAppend DEF Rows, Pages, rows
<1>8. rows \o page = SubSeq(all, 1, hi) /\ Len(rows \o page) = hi
  BY <1>1, <1>2, <1>4, <1>5, <1>6
<1>9. HasNext(Append(got, page)) \/ rows \o page = all
  <2>1. Last(Append(got, page)) = page
    BY <1>6 DEF Pages, Last
  <2>2. CASE Len(page) = PageSize
    BY <2>1, <2>2 DEF HasNext
  <2>3. CASE Len(page) # PageSize
    <3>1. hi = Len(all)
      BY <1>1, <1>2, <1>3, <1>6, <2>3
    <3>2. SubSeq(all, 1, Len(all)) = all
      BY <1>1
    <3>3. QED
      BY <1>8, <3>1, <3>2
  <2>4. QED
    BY <2>2, <2>3
<1>10. QED
  BY <1>6, <1>7, <1>8, <1>9 DEF Held, all

(* A request that begins anew.                                               *)
LEMMA RefetchIs ==
  ASSUME NEW e \in CacheEntry
  PROVE  /\ Refetching(e) \in CacheEntry
         /\ Refetching(e).pages = e.pages /\ Refetching(e).data = e.data
         /\ Refetching(e).invalid = e.invalid
         /\ Refetching(e).fetch.kind = "refetch" /\ Refetching(e).fetch.got = <<>>
         /\ Refetching(e).fetch.answer = {}
<1>1. Max({1, Len(e.pages)}) \in Nat
  BY MaxOfTwo DEF CacheEntry, Pages
<1>2. <<>> \in Pages
  BY DEF Pages
<1>3. QED
  BY <1>1, <1>2 DEF Refetching, Fetching, CacheEntry, Fetch

LEMMA RefetchFresh ==
  ASSUME TypeOK, NEW f, NEW e \in CacheEntry, e.data => e.invalid
  PROVE  Fresh(store, f, Refetching(e))
BY NoPages, RefetchIs DEF Fresh

-----------------------------------------------------------------------------
(* The steps. *)

LEMMA Observing ==
  ASSUME TypeOK, NEW f \in Filters, NEW e \in CacheEntry,
         e.fetch.kind = "none" => e.fetch = NoFetch
  PROVE  /\ Observed(e) \in CacheEntry
         /\ Observed(e).fetch.kind = "none" => Observed(e).fetch = NoFetch
         /\ Observed(e) # e => Fresh(store, f, Observed(e))
<1>1. CASE Observed(e) = e
  BY <1>1
<1>2. CASE Observed(e) = Refetching(e) /\ (e.data => e.invalid)
  BY <1>2, RefetchIs, RefetchFresh
<1>3. e.data \in BOOLEAN /\ e.invalid \in BOOLEAN
  BY DEF CacheEntry
<1>4. QED
  BY <1>1, <1>2, <1>3 DEF Observed

LEMMA NewIsEntry == NewEntry \in CacheEntry /\ NewEntry.fetch = NoFetch /\ ~ NewEntry.data /\ NoFetch \in Fetch
BY DEF NewEntry, NoFetch, CacheEntry, Fetch, Pages

LEMMA InitIInv == Init => IInv
<1> SUFFICES ASSUME Init PROVE IInv
  OBVIOUS
<1> DEFINE e == Observed(NewEntry)
<1>1. NewEntry \in CacheEntry /\ NewEntry.fetch = NoFetch /\ NewEntry.fetch.kind = "none"
      /\ ~ NewEntry.data
  BY NewIsEntry DEF NoFetch
<1>2. e = Refetching(NewEntry)
  BY <1>1 DEF Observed
<1>3. e \in CacheEntry /\ e.fetch.kind = "refetch"
  BY <1>1, <1>2, RefetchIs
<1> HIDE DEF e
<1>4. TypeOK
  BY <1>1, <1>3, LogTableAssumption DEF Init, TypeOK, e
<1>5. Fresh(store, AnyFilter, e)
  BY <1>1, <1>2, <1>4, RefetchFresh
<1>6. \A f \in Filters : Fresh(store, f, NewEntry)
  BY <1>1 DEF Fresh
<1>7. \A f \in Filters : Fresh(store, f, cache[f])
  BY <1>5, <1>6 DEF Init, e
<1>8. QED
  BY <1>4, <1>7 DEF IInv, CacheFresh

(* Only one entry changes, and it is fresh if it is to be.                   *)
LEMMA OneEntry ==
  ASSUME IInv, NEW f \in Filters, NEW e \in CacheEntry, e.fetch.kind = "none" => e.fetch = NoFetch,
         cache' = [cache EXCEPT ![f] = e], filter' \in Filters, UNCHANGED <<log, store, ingest>>,
         overtaken' \subseteq Filters, overtaken \ {f} \subseteq overtaken',
         ingest # <<"answered">> /\ f \notin overtaken' => Fresh(store, f, e)
  PROVE  IInv'
<1>1. TypeOK'
  BY DEF IInv, TypeOK
<1>2. ASSUME ingest # <<"answered">>, NEW g \in Filters, g \notin overtaken'
      PROVE  Fresh(store, g, cache'[g])
  <2>1. CASE g = f
    BY <1>2, <2>1 DEF IInv, TypeOK
  <2>2. CASE g # f
    BY <1>2, <2>2 DEF IInv, TypeOK, CacheFresh
  <2>3. QED
    BY <2>1, <2>2
<1>3. CacheFresh'
  BY <1>2 DEF CacheFresh
<1>4. QED
  BY <1>1, <1>3 DEF IInv

LEMMA SetFilterIInv == ASSUME IInv, NEW f \in Filters, SetFilter(f) PROVE IInv'
<1> DEFINE e == Observed(cache[f])
<1>1. /\ cache[f] \in CacheEntry /\ (cache[f].fetch.kind = "none" => cache[f].fetch = NoFetch)
      /\ cache' = [cache EXCEPT ![f] = e] /\ filter' \in Filters /\ UNCHANGED <<log, store, ingest>>
      /\ cache'[f] = e
  BY DEF SetFilter, IInv, TypeOK
<1>2. /\ e \in CacheEntry /\ (e.fetch.kind = "none" => e.fetch = NoFetch)
      /\ (e # cache[f] => Fresh(store, f, e))
  BY <1>1, Observing DEF IInv
<1> HIDE DEF e
<1>3. overtaken' = IF e # cache[f] THEN overtaken \ {f} ELSE overtaken
  BY <1>1 DEF SetFilter
<1>4. overtaken' \subseteq Filters /\ overtaken \ {f} \subseteq overtaken'
  BY <1>3 DEF IInv, TypeOK
<1>5. ingest # <<"answered">> /\ f \notin overtaken' => Fresh(store, f, e)
  BY <1>2, <1>3 DEF IInv, CacheFresh
<1>6. QED
  BY <1>1, <1>2, <1>4, <1>5, OneEntry

LEMMA FetchNextPageIInv == ASSUME IInv, FetchNextPage PROVE IInv'
<1> DEFINE e == cache[filter]
           n == [e EXCEPT !.fetch = Fetching("more", e.pages, Len(e.pages) + 1)]
<1>1. e \in CacheEntry /\ filter \in Filters
  BY DEF IInv, TypeOK
<1>2. /\ e.data /\ UNCHANGED <<log, store, ingest, filter>>
      /\ cache' = [cache EXCEPT ![filter] = n]
      /\ overtaken' = IF e.invalid THEN overtaken \cup {filter} ELSE overtaken
  BY DEF FetchNextPage
<1>3. /\ n \in CacheEntry /\ n.pages = e.pages /\ n.data = e.data /\ n.invalid = e.invalid
      /\ n.fetch.kind = "more" /\ n.fetch.got = e.pages /\ n.fetch.answer = {}
  <2> DEFINE fetch == Fetching("more", e.pages, Len(e.pages) + 1)
  <2>1. e.pages \in Pages /\ Len(e.pages) + 1 \in Nat
    BY <1>1 DEF CacheEntry, Pages
  <2>2. /\ fetch \in Fetch /\ fetch.kind = "more" /\ fetch.got = e.pages /\ fetch.answer = {}
    BY <2>1 DEF Fetching, Fetch
  <2> HIDE DEF fetch
  <2>3. n = [e EXCEPT !.fetch = fetch]
    BY DEF fetch
  <2>4. QED
    BY <1>1, <2>2, <2>3 DEF CacheEntry
<1> HIDE DEF n
<1>4. ASSUME ingest # <<"answered">>, filter \notin overtaken' PROVE Fresh(store, filter, n)
  <2>1. ~ e.invalid /\ filter \notin overtaken
    BY <1>2, <1>4
  <2>2. Held(store, filter, e.pages)
    BY <1>1, <1>2, <1>4, <2>1 DEF IInv, CacheFresh, Fresh
  <2>3. QED
    BY <1>3, <2>2 DEF Fresh
<1>5. overtaken' \subseteq Filters /\ overtaken \ {filter} \subseteq overtaken'
  BY <1>1, <1>2 DEF IInv, TypeOK
<1>6. QED
  BY <1>1, <1>2, <1>3, <1>4, <1>5, OneEntry

LEMMA ReadPageIInv == ASSUME IInv, NEW f \in Filters, ReadPage(f) PROVE IInv'
<1> DEFINE e == cache[f]
           page == QueryEvents(store, f, PageSize, NextOffset(e.fetch.got))
           n == [e EXCEPT !.fetch.answer = {page}]
<1>1. e \in CacheEntry /\ e.fetch.got \in Pages
  BY DEF IInv, TypeOK, CacheEntry, Fetch
<1>2. /\ e.fetch.kind # "none" /\ UNCHANGED <<log, store, ingest, filter, overtaken>>
      /\ cache' = [cache EXCEPT ![f] = n]
  BY DEF ReadPage
<1>3. page \in Seq(Row) /\ (Held(store, f, e.fetch.got) => Held(store, f, Append(e.fetch.got, page)))
  <2> HIDE DEF page
  <2>1. page = QueryEvents(store, f, PageSize, NextOffset(e.fetch.got))
    BY DEF page
  <2>2. Held(store, f, e.fetch.got) => Held(store, f, Append(e.fetch.got, page))
    BY <1>1, <2>1, PageHeld DEF IInv
  <2>3. page \in Seq(Row)
    BY <1>1, <2>1, PageTyped DEF IInv
  <2>4. QED
    BY <2>2, <2>3
<1> HIDE DEF page
<1>4. /\ n \in CacheEntry /\ n.pages = e.pages /\ n.data = e.data /\ n.invalid = e.invalid
      /\ n.fetch.kind = e.fetch.kind /\ n.fetch.got = e.fetch.got /\ n.fetch.answer = {page}
  BY <1>1, <1>3 DEF CacheEntry, Fetch
<1> HIDE DEF n
<1>5. ASSUME ingest # <<"answered">>, f \notin overtaken' PROVE Fresh(store, f, n)
  <2>1. Fresh(store, f, e)
    BY <1>2, <1>5 DEF IInv, CacheFresh
  <2>2. QED
    BY <1>2, <1>3, <1>4, <2>1 DEF Fresh
<1>6. filter' \in Filters /\ overtaken' \subseteq Filters /\ overtaken \ {f} \subseteq overtaken'
  BY <1>2 DEF IInv, TypeOK
<1>7. QED
  BY <1>2, <1>4, <1>5, <1>6, OneEntry

LEMMA ReceivePageIInv == ASSUME IInv, NEW f \in Filters, ReceivePage(f) PROVE IInv'
<1> DEFINE e == cache[f]
<1>1. e \in CacheEntry /\ e.fetch \in Fetch /\ (e.fetch.kind = "none" => e.fetch = NoFetch)
  BY DEF IInv, TypeOK, CacheEntry
<1>2. PICK page \in e.fetch.answer :
        LET got == Append(e.fetch.got, page)
        IN cache' = [cache EXCEPT ![f] =
             IF Len(got) < e.fetch.want /\ HasNext(got)
             THEN [@ EXCEPT !.fetch = Fetching(e.fetch.kind, got, e.fetch.want)]
             ELSE [pages |-> got, data |-> TRUE, invalid |-> FALSE, fetch |-> NoFetch]]
  BY DEF ReceivePage
<1> DEFINE got == Append(e.fetch.got, page)
           more == [e EXCEPT !.fetch = Fetching(e.fetch.kind, got, e.fetch.want)]
           done == [pages |-> got, data |-> TRUE, invalid |-> FALSE, fetch |-> NoFetch]
<1>3. UNCHANGED <<log, store, ingest, filter, overtaken>>
  BY DEF ReceivePage
<1>4. e.fetch.kind # "none"
  BY <1>1, <1>2 DEF NoFetch
<1>5. got \in Pages
  BY <1>1, <1>2 DEF Fetch, Pages
<1>6. ASSUME ingest # <<"answered">>, f \notin overtaken'
      PROVE  Fresh(store, f, e) /\ Held(store, f, got)
  BY <1>2, <1>3, <1>4, <1>6 DEF IInv, CacheFresh, Fresh
<1> HIDE DEF got
<1>7. /\ more \in CacheEntry /\ more.pages = e.pages /\ more.data = e.data /\ more.invalid = e.invalid
      /\ more.fetch.kind = e.fetch.kind /\ more.fetch.got = got /\ more.fetch.answer = {}
  BY <1>1, <1>5 DEF CacheEntry, Fetch, Fetching
<1>8. /\ done \in CacheEntry /\ done.pages = got /\ done.fetch = NoFetch /\ done.fetch.kind = "none"
  BY <1>5, NewIsEntry DEF CacheEntry, NoFetch
<1>9. PICK n \in {more, done} : cache' = [cache EXCEPT ![f] = n]
  BY <1>2 DEF got
<1> HIDE DEF more, done
<1>10. n \in CacheEntry /\ (n.fetch.kind = "none" => n.fetch = NoFetch)
  BY <1>4, <1>7, <1>8, <1>9
<1>11. ASSUME ingest # <<"answered">>, f \notin overtaken' PROVE Fresh(store, f, n)
  <2>1. Fresh(store, f, more)
    BY <1>4, <1>6, <1>7, <1>11 DEF Fresh
  <2>2. Fresh(store, f, done)
    BY <1>6, <1>8, <1>11 DEF Fresh
  <2>3. QED
    BY <1>9, <2>1, <2>2
<1>12. filter' \in Filters /\ overtaken' \subseteq Filters /\ overtaken \ {f} \subseteq overtaken'
  BY <1>3 DEF IInv, TypeOK
<1>13. QED
  BY <1>3, <1>9, <1>10, <1>11, <1>12, OneEntry

LEMMA FetchFailsIInv == ASSUME IInv, NEW f \in Filters, FetchFails(f) PROVE IInv'
<1> DEFINE e == cache[f]
           n == [e EXCEPT !.fetch = NoFetch]
<1>1. e \in CacheEntry
  BY DEF IInv, TypeOK
<1>2. cache' = [cache EXCEPT ![f] = n] /\ UNCHANGED <<log, store, ingest, filter, overtaken>>
  BY DEF FetchFails
<1>3. /\ n \in CacheEntry /\ n.pages = e.pages /\ n.data = e.data /\ n.invalid = e.invalid
      /\ n.fetch = NoFetch /\ n.fetch.kind = "none"
  BY <1>1, NewIsEntry DEF CacheEntry, NoFetch
<1> HIDE DEF n
<1>4. ASSUME ingest # <<"answered">>, f \notin overtaken' PROVE Fresh(store, f, n)
  BY <1>2, <1>3, <1>4 DEF IInv, CacheFresh, Fresh
<1>5. filter' \in Filters /\ overtaken' \subseteq Filters /\ overtaken \ {f} \subseteq overtaken'
  BY <1>2 DEF IInv, TypeOK
<1>6. QED
  BY <1>2, <1>3, <1>4, <1>5, OneEntry

(* Before its answer an ingest leaves the cache alone; from the moment the   *)
(* new store is published until the answer nothing is said of the entries.   *)
LEMMA IngestIInv ==
  ASSUME IInv, (\E l \in Opens : StartIngest(l)) \/ PublishStore \/ IngestFails
  PROVE  IInv'
<1>1. CASE \E l \in Opens : StartIngest(l)
  <2>1. ingest = <<>> /\ ingest' \in {"running"} \X Opens
    BY <1>1 DEF StartIngest
  <2>2. UNCHANGED <<log, store, filter, cache, overtaken>>
    BY <1>1 DEF StartIngest
  <2>3. QED
    BY <2>1, <2>2 DEF IInv, TypeOK, CacheFresh
<1>2. CASE IngestFails
  <2>1. Len(ingest) = 2 /\ ingest' = <<>> /\ UNCHANGED <<log, store, filter, cache, overtaken>>
    BY <1>2 DEF IngestFails
  <2>2. ingest # <<"answered">>
    BY <2>1
  <2>3. QED
    BY <2>1, <2>2 DEF IInv, TypeOK, CacheFresh
<1>3. CASE PublishStore
  <2>1. /\ Len(ingest) = 2 /\ ingest' = <<"answered">> /\ log' = ingest[2]
        /\ store' = EventRows(Lines(log')) /\ UNCHANGED <<filter, cache, overtaken>>
    BY <1>3 DEF PublishStore
  <2>2. ingest \in {"running"} \X Opens
    BY <2>1 DEF IInv, TypeOK
  <2>3. log' \in Logs
    BY <2>1, <2>2, LogTableAssumption
  <2>4. QED
    BY <2>1, <2>3 DEF IInv, TypeOK, CacheFresh
<1>4. QED
  BY <1>1, <1>2, <1>3

(* The answer marks every entry; a request that is not begun anew goes on    *)
(* as an overtaken one.                                                      *)
LEMMA Marking ==
  ASSUME NEW e \in CacheEntry, e.fetch.kind = "none" => e.fetch = NoFetch, NEW active \in BOOLEAN
  PROVE  LET m == Invalidated(e, active)
         IN /\ m \in CacheEntry /\ m.invalid
            /\ m.fetch.kind = "none" => m.fetch = NoFetch
            /\ m.fetch = e.fetch \/ (m.fetch.got = <<>> /\ m.fetch.answer = {})
<1> DEFINE marked == [e EXCEPT !.invalid = TRUE]
<1>1. marked \in CacheEntry /\ marked.invalid /\ marked.fetch = e.fetch
  BY DEF CacheEntry
<1>2. Invalidated(e, active) \in {marked, Refetching(marked)}
  BY DEF Invalidated
<1> HIDE DEF marked
<1>3. QED
  BY <1>1, <1>2, RefetchIs

LEMMA LoadedIInv == ASSUME IInv, Loaded PROVE IInv'
<1> DEFINE marked == [f \in Filters |-> Invalidated(cache[f], f = filter)]
           first == Observed(marked[AnyFilter])
<1>1. /\ ingest' = <<>> /\ filter' = AnyFilter /\ UNCHANGED <<log, store>>
      /\ cache' = [marked EXCEPT ![AnyFilter] = first]
      /\ overtaken' = {f \in Filters : cache[f].fetch.kind # "none" /\ cache'[f].fetch = cache[f].fetch}
  BY DEF Loaded
<1>2. ASSUME NEW f \in Filters
      PROVE  /\ marked[f] \in CacheEntry /\ marked[f].invalid
             /\ marked[f].fetch.kind = "none" => marked[f].fetch = NoFetch
             /\ marked[f].fetch = cache[f].fetch \/ (marked[f].fetch.got = <<>> /\ marked[f].fetch.answer = {})
  <2>1. cache[f] \in CacheEntry /\ (cache[f].fetch.kind = "none" => cache[f].fetch = NoFetch)
    BY DEF IInv, TypeOK
  <2>2. QED
    BY <2>1, Marking
<1>3. AnyFilter \in Filters /\ DOMAIN marked = Filters
  BY LogTableAssumption
<1> HIDE DEF marked
<1>4. /\ first \in CacheEntry /\ first.invalid
      /\ first.fetch.kind = "none" => first.fetch = NoFetch
      /\ \/ first.fetch = cache[AnyFilter].fetch
         \/ first.fetch.got = <<>> /\ first.fetch.answer = {}
  <2>1. first \in {marked[AnyFilter], Refetching(marked[AnyFilter])}
    BY DEF Observed
  <2> HIDE DEF first
  <2>2. QED
    BY <1>2, <1>3, <2>1, RefetchIs
<1> HIDE DEF first
<1>5. ASSUME NEW f \in Filters
      PROVE  /\ cache'[f] \in CacheEntry /\ cache'[f].invalid
             /\ cache'[f].fetch.kind = "none" => cache'[f].fetch = NoFetch
             /\ cache'[f].fetch = cache[f].fetch \/ (cache'[f].fetch.got = <<>> /\ cache'[f].fetch.answer = {})
  <2>1. CASE f = AnyFilter
    BY <1>1, <1>3, <1>4, <2>1
  <2>2. CASE f # AnyFilter
    BY <1>1, <1>2, <1>3, <2>2
  <2>3. QED
    BY <2>1, <2>2
<1>6. TypeOK'
  BY <1>1, <1>3, <1>5 DEF IInv, TypeOK
<1>7. ASSUME NEW f \in Filters, f \notin overtaken' PROVE Fresh(store', f, cache'[f])
  <2>1. cache'[f].fetch.kind # "none" => cache'[f].fetch.got = <<>> /\ cache'[f].fetch.answer = {}
    BY <1>1, <1>5, <1>7
  <2>2. Held(store, f, <<>>)
    BY NoPages DEF IInv
  <2>3. QED
    BY <1>1, <1>5, <2>1, <2>2 DEF Fresh
<1>8. QED
  BY <1>6, <1>7 DEF IInv, CacheFresh

LEMMA NextIInv == IInv /\ [Next]_vars => IInv'
<1> SUFFICES ASSUME IInv, [Next]_vars PROVE IInv'
  OBVIOUS
<1>1. ASSUME NEW f \in Filters, SetFilter(f) \/ ReadPage(f) \/ ReceivePage(f) \/ FetchFails(f)
      PROVE  IInv'
  BY <1>1, SetFilterIInv, ReadPageIInv, ReceivePageIInv, FetchFailsIInv
<1>2. CASE FetchNextPage
  BY <1>2, FetchNextPageIInv
<1>3. CASE (\E l \in Opens : StartIngest(l)) \/ PublishStore \/ IngestFails
  BY <1>3, IngestIInv
<1>4. CASE Loaded
  BY <1>4, LoadedIInv
<1>5. CASE UNCHANGED vars
  BY <1>5 DEF vars, IInv, TypeOK, CacheFresh
<1>6. QED
  BY <1>1, <1>2, <1>3, <1>4, <1>5 DEF Next

LEMMA Invariance == Spec => []IInv
BY InitIInv, NextIInv, PTL DEF Spec

(* Every variable of the events table keeps its type: above all, a page      *)
(* holds rows of a log, and a request that is over leaves nothing behind.    *)
THEOREM TableTypeCorrect == Spec => []TypeOK
<1>1. IInv => TypeOK
  BY DEF IInv
<1>2. QED
  BY <1>1, Invariance, PTL

(* All rows pass the filter that asks for nothing.                           *)
LEMMA AnyPasses == ASSUME NEW T PROVE Matching(T, AnyFilter) = T
BY DEF Matching, Where, AnyFilter, OneOf

(* What an entry that is held shows.                                         *)
LEMMA HeldShows ==
  ASSUME TypeOK, NEW f, NEW pages \in Pages, Held(store, f, pages)
  PROVE  LET rows == Rows(pages)
         IN /\ InOrder(rows)
            /\ ToSet(rows) \subseteq Matching(store, f)
            /\ \A row \in Matching(store, f) \ ToSet(rows), shown \in ToSet(rows) : Precedes(shown, row)
            /\ HasNext(pages) \/ Dashboard(store, f) = Dashboard(ToSet(rows), AnyFilter)
<1> DEFINE M == Matching(store, f)
           all == Listing(M)
           rows == Rows(pages)
           n == Len(rows)
<1>1. all \in Seq(M) /\ InOrder(all) /\ ToSet(all) = M /\ Len(all) \in Nat
  BY StoreListable, ListingIs
<1>2. n <= Len(all) /\ rows = SubSeq(all, 1, n) /\ (HasNext(pages) \/ rows = all)
  BY DEF Held
<1>3. rows \in Seq(Row) /\ n \in Nat
  BY FlattenType DEF Rows, Pages
<1> HIDE DEF M, all, rows
<1>4. DOMAIN rows = 1 .. n /\ DOMAIN all = 1 .. Len(all) /\ \A i \in 1 .. n : i \in 1 .. Len(all) /\ rows[i] = all[i]
  BY <1>1, <1>2, <1>3
<1>5. InOrder(rows)
  BY <1>1, <1>4 DEF InOrder
<1>6. ToSet(rows) \subseteq M
  BY <1>1, <1>4 DEF ToSet
<1>7. ASSUME NEW row \in M \ ToSet(rows), NEW shown \in ToSet(rows) PROVE Precedes(shown, row)
  <2>1. PICK i \in 1 .. n : shown = all[i]
    BY <1>4 DEF ToSet
  <2>2. PICK k \in 1 .. Len(all) : row = all[k]
    BY <1>1, <1>4 DEF ToSet
  <2>3. k \notin 1 .. n
    BY <1>4, <2>2 DEF ToSet
  <2>4. i < k /\ i \in 1 .. Len(all)
    BY <1>1, <1>3, <1>4, <2>3
  <2>5. QED
    BY <1>1, <1>4, <2>1, <2>2, <2>4 DEF InOrder
<1>8. ASSUME ~ HasNext(pages) PROVE Dashboard(store, f) = Dashboard(ToSet(rows), AnyFilter)
  <2>1. ToSet(rows) = M
    BY <1>1, <1>2, <1>8
  <2>2. Matching(ToSet(rows), AnyFilter) = M
    BY <2>1, AnyPasses
  <2>3. QED
    BY <2>2 DEF Dashboard, M
<1>9. QED
  BY <1>5, <1>6, <1>7, <1>8 DEF M, rows

(* What the events table shows, once nothing is being fetched, are the       *)
(* newest rows of the open log that pass the filter, in order, without a     *)
(* gap or a repetition, and without a further page all that the panels       *)
(* count.                                                                    *)
THEOREM TableShowsTheLog == Spec => []RowsAgree
<1>1. IInv => RowsAgree
  <2> SUFFICES ASSUME IInv, ingest = <<>>, cache[filter].data, ~ cache[filter].invalid,
                      cache[filter].fetch.kind = "none", filter \notin overtaken
               PROVE  LET rows == Rows(cache[filter].pages)
                      IN /\ InOrder(rows)
                         /\ ToSet(rows) \subseteq Matching(store, filter)
                         /\ \A row \in Matching(store, filter) \ ToSet(rows), shown \in ToSet(rows) :
                              Precedes(shown, row)
                         /\ \/ HasNext(cache[filter].pages)
                            \/ Dashboard(store, filter) = Dashboard(ToSet(rows), AnyFilter)
    BY DEF RowsAgree
  <2>1. filter \in Filters /\ cache[filter] \in CacheEntry
    BY DEF IInv, TypeOK
  <2>2. cache[filter].pages \in Pages
    BY <2>1 DEF CacheEntry
  <2>3. ingest # <<"answered">>
    OBVIOUS
  <2>4. Held(store, filter, cache[filter].pages)
    BY <2>1, <2>3 DEF IInv, CacheFresh, Fresh
  <2>5. QED
    BY <2>2, <2>4, HeldShows DEF IInv
<1>2. QED
  BY <1>1, Invariance, PTL

(* Every log whose parts do not hold what the parser takes for the end of    *)
(* the part comes back as it was logged (LinesReadBack).                     *)
THEOREM LogsReadBack == ASSUME LogsLegible PROVE Spec => []LinesReadBack
<1>1. TypeOK => LinesReadBack
  <2>1. SUFFICES ASSUME TypeOK PROVE LinesReadBack
    OBVIOUS
  <2>2. log \in Seq(Entry) /\ \A i \in DOMAIN log : Legible(log[i])
    BY <2>1, LogTableAssumption DEF TypeOK, LogsLegible
  <2>3. {"connection"} \in SUBSET EventKinds /\ NameKinds \in SUBSET EventKinds
    BY DEF EventKinds
  <2>4. RowsOf(Lines(log), {"connection"}) = Said(log, {"connection"})
    BY <2>2, <2>3, RowsAreSaid
  <2>5. RowsOf(Lines(log), NameKinds) = Said(log, NameKinds)
    BY <2>2, <2>3, RowsAreSaid
  <2>6. QED
    BY <2>4, <2>5 DEF LinesReadBack, EventRows, DnsRows
<1>2. QED
  BY <1>1, TableTypeCorrect, PTL

-----------------------------------------------------------------------------
(* Induction over a finite set, folds and sums.                              *)

(* What holds of the empty set and of each subset of P that holds of one    *)
(* element less holds of all: Good are the sets it holds of.                *)
LEMMA SetInduction ==
  ASSUME NEW P, IsFiniteSet(P), NEW Good, {} \in Good,
         \A s \in SUBSET P : s # {} => \E x \in s : s \ {x} \in Good => s \in Good
  PROVE  \A s \in SUBSET P : s \in Good
<1> DEFINE Bad == {s \in SUBSET P : s \notin Good}
           sizes == {Cardinality(s) : s \in Bad}
<1>1. \A s \in SUBSET P : IsFiniteSet(s) /\ Cardinality(s) \in Nat
  BY FS_Subset, FS_CardinalityType
<1>2. SUFFICES ASSUME Bad # {} PROVE FALSE
  OBVIOUS
<1>3. sizes \in SUBSET Nat /\ sizes # {}
  BY <1>1, <1>2
<1>4. PICK m \in sizes : \A n \in sizes : m <= n
  <2> HIDE DEF sizes
  <2>1. QED
    BY <1>3, Least
<1>5. PICK s \in Bad : m = Cardinality(s)
  BY <1>4
<1>6. s \in SUBSET P /\ s # {} /\ s \notin Good
  OBVIOUS
<1>7. PICK x \in s : s \ {x} \in Good => s \in Good
  BY <1>6
<1>8. s \ {x} \in SUBSET P /\ s \ {x} \in Bad
  BY <1>6, <1>7
<1>9. Cardinality(s \ {x}) = Cardinality(s) - 1
  BY <1>1, <1>6, FS_RemoveElement
<1>10. Cardinality(s \ {x}) \in sizes
  BY <1>8
<1> HIDE DEF sizes
<1>11. QED
  BY <1>1, <1>4, <1>5, <1>6, <1>9, <1>10

(* f folds step over the subsets of P, the element pick takes last.         *)
FoldsUp(f, P, base, pick, step) ==
  f = [s \in SUBSET P |-> IF s = {} THEN base ELSE step[<<pick[s], f[s \ {pick[s]}]>>]]

LEMMA FoldExists ==
  ASSUME NEW P, IsFiniteSet(P), NEW V, NEW base \in V,
         NEW pick, \A s \in SUBSET P : s # {} => pick[s] \in s,
         NEW step \in [P \X V -> V]
  PROVE  \E f \in [SUBSET P -> V] : FoldsUp(f, P, base, pick, step)
<1> DEFINE Small(n) == {s \in SUBSET P : Cardinality(s) <= n}
           Turn(f, s) == IF s = {} THEN base ELSE step[<<pick[s], f[s \ {pick[s]}]>>]
           Upto(n) == {f \in [Small(n) -> V] : \A s \in Small(n) : f[s] = Turn(f, s)}
           T == {n \in Nat : Upto(n) = {}}
<1>1. \A s \in SUBSET P : IsFiniteSet(s) /\ Cardinality(s) \in Nat
  BY FS_Subset, FS_CardinalityType
<1>2. {} \in SUBSET P /\ Cardinality({}) = 0 /\ \A s \in SUBSET P : Cardinality(s) = 0 <=> s = {}
  BY <1>1, FS_EmptySet
<1>3. \A s \in SUBSET P : s # {} => s \ {pick[s]} \in SUBSET P /\ Cardinality(s \ {pick[s]}) = Cardinality(s) - 1
  BY <1>1, FS_RemoveElement
<1>4. T = {}
  <2>1. SUFFICES ASSUME T # {} PROVE FALSE
    OBVIOUS
  <2>2. T \in SUBSET Nat
    OBVIOUS
  <2>3. PICK n \in T : \A k \in T : n <= k
    <3> HIDE DEF T
    <3>1. QED
      BY <2>1, <2>2, Least
  <2>4. n \in Nat /\ Upto(n) = {}
    OBVIOUS
  <2>5. CASE n = 0
    <3> DEFINE f == [s \in Small(0) |-> base]
    <3>1. \A s \in Small(0) : s = {}
      BY <1>1, <1>2
    <3>2. f \in Upto(0)
      BY <3>1
    <3>3. QED
      BY <2>4, <2>5, <3>2
  <2>6. CASE n # 0
    <3>1. n - 1 \in Nat /\ n - 1 \notin T
      <4>1. n - 1 \in Nat /\ ~ (n <= n - 1)
        BY <2>4, <2>6
      <4> HIDE DEF T
      <4>2. QED
        BY <2>3, <4>1
    <3>2. PICK g \in Upto(n - 1) : TRUE
      BY <3>1
    <3>3. /\ g \in [Small(n - 1) -> V]
          /\ \A s \in Small(n - 1) : g[s] = Turn(g, s)
      OBVIOUS
    <3>4. \A s \in Small(n) : s # {} => s \ {pick[s]} \in Small(n - 1)
      BY <1>1, <1>3, <2>4
    <3>5. \A s \in Small(n) : Turn(g, s) \in V
      BY <3>3, <3>4
    <3> DEFINE f == [s \in Small(n) |-> Turn(g, s)]
    <3>6. f \in [Small(n) -> V] /\ \A s \in Small(n) : f[s] = Turn(g, s)
      <4> HIDE DEF Small, Turn
      <4>1. QED
        BY <3>5
    <3>7. \A s \in Small(n - 1) : s \in Small(n) /\ f[s] = g[s]
      <4>1. \A s \in Small(n - 1) : s \in Small(n)
        BY <1>1, <2>4
      <4>2. QED
        BY <3>3, <3>6, <4>1
    <3>8. ASSUME NEW s \in Small(n) PROVE f[s] = Turn(f, s)
      <4>1. CASE s = {}
        BY <3>6, <4>1
      <4>2. CASE s # {}
        <5>1. f[s \ {pick[s]}] = g[s \ {pick[s]}]
          BY <3>4, <3>7, <4>2
        <5>2. Turn(f, s) = Turn(g, s)
          BY <4>2, <5>1
        <5>3. QED
          BY <3>6, <5>2
      <4>3. QED
        BY <4>1, <4>2
    <3>9. f \in Upto(n)
      <4> HIDE DEF Small, Turn, f
      <4>1. QED
        BY <3>6, <3>8
    <3>10. QED
      BY <2>4, <3>9
  <2>7. QED
    BY <2>5, <2>6
<1>5. Cardinality(P) \in Nat /\ Small(Cardinality(P)) = SUBSET P
  <2>1. Cardinality(P) \in Nat /\ \A s \in SUBSET P : Cardinality(s) <= Cardinality(P)
    BY FS_CardinalityType, FS_Subset
  <2>2. QED
    BY <2>1
<1>6. PICK f \in Upto(Cardinality(P)) : TRUE
  <2> HIDE DEF Upto
  <2>1. QED
    BY <1>4, <1>5
<1>7. f \in [SUBSET P -> V] /\ \A s \in SUBSET P : f[s] = Turn(f, s)
  <2> HIDE DEF Turn
  <2>1. QED
    BY <1>5, <1>6
<1>8. f = [s \in SUBSET P |-> Turn(f, s)]
  <2> HIDE DEF Turn
  <2>1. QED
    BY <1>7
<1>9. QED
  BY <1>7, <1>8 DEF FoldsUp

(* The sum of the sizes of disjoint sets is the size of their union.        *)
LEMMA SumIsCount ==
  ASSUME NEW D, IsFiniteSet(D), NEW A,
         \A d \in D : IsFiniteSet(A[d]),
         \A d, e \in D : d # e => A[d] \cap A[e] = {},
         NEW f, f = [d \in D |-> Cardinality(A[d])]
  PROVE  SumOf(f) = Cardinality(UNION {A[d] : d \in D})
<1> DEFINE some(s) == CHOOSE x \in s : TRUE
           Is(g) == g = [s \in SUBSET D |-> IF s = {} THEN 0 ELSE f[some(s)] + g[s \ {some(s)}]]
           sum == CHOOSE g : Is(g)
           pick == [s \in SUBSET D |-> some(s)]
           step == [w \in D \X Nat |-> f[w[1]] + w[2]]
<1>1. \A d \in D : f[d] \in Nat /\ f[d] = Cardinality(A[d])
  BY FS_CardinalityType
<1>2. \A s \in SUBSET D : s # {} => pick[s] = some(s) /\ some(s) \in s
  OBVIOUS
<1>3. step \in [D \X Nat -> Nat]
  BY <1>1
<1>4. PICK g \in [SUBSET D -> Nat] : FoldsUp(g, D, 0, pick, step)
  <2> HIDE DEF pick, step, some
  <2>1. \A s \in SUBSET D : s # {} => pick[s] \in s
    BY <1>2
  <2>2. QED
    BY <1>3, <2>1, FoldExists
<1>5. Is(g)
  <2> DEFINE turn(s) == IF s = {} THEN 0 ELSE f[some(s)] + g[s \ {some(s)}]
  <2>1. \A s \in SUBSET D : g[s] = turn(s)
    <3>1. SUFFICES ASSUME NEW s \in SUBSET D, s # {} PROVE g[s] = f[some(s)] + g[s \ {some(s)}]
      BY <1>4 DEF FoldsUp
    <3>2. g[s] = step[<<pick[s], g[s \ {pick[s]}]>>]
      BY <1>4, <3>1 DEF FoldsUp
    <3>3. some(s) \in D /\ pick[s] = some(s) /\ s \ {some(s)} \in SUBSET D
      BY <1>2, <3>1
    <3> HIDE DEF some, pick
    <3>4. <<some(s), g[s \ {some(s)}]>> \in D \X Nat
      BY <3>3
    <3>5. QED
      BY <3>2, <3>3, <3>4
  <2> HIDE DEF turn
  <2>2. g = [s \in SUBSET D |-> turn(s)]
    BY <2>1
  <2>3. QED
    BY <2>2 DEF turn
<1>6. Is(sum)
  <2> HIDE DEF Is
  <2>1. QED
    BY <1>5
<1>7. SumOf(f) = sum[D]
  <2>1. DOMAIN f = D
    OBVIOUS
  <2>2. SumOf(f) = (CHOOSE h : h = [s \in SUBSET DOMAIN f |->
                       IF s = {} THEN 0 ELSE f[some(s)] + h[s \ {some(s)}]])[DOMAIN f]
    BY DEF SumOf, FoldFunction, FoldFunctionOnSet, MapThenFoldSet
  <2>3. QED
    BY <2>1, <2>2
<1> HIDE DEF sum, pick, step
<1> DEFINE Good == {s \in SUBSET D : /\ IsFiniteSet(UNION {A[d] : d \in s})
                                     /\ sum[s] = Cardinality(UNION {A[d] : d \in s})}
<1>8. {} \in Good
  <2>1. sum[{}] = 0
    BY <1>6
  <2>2. UNION {A[d] : d \in {}} = {}
    OBVIOUS
  <2>3. QED
    BY <2>1, <2>2, FS_EmptySet
<1>9. ASSUME NEW s \in SUBSET D, s # {}
      PROVE  \E x \in s : s \ {x} \in Good => s \in Good
  <2> DEFINE x == some(s)
             rest == UNION {A[d] : d \in s \ {x}}
  <2>1. x \in s /\ x \in D
    BY <1>9
  <2>2. sum[s] = f[x] + sum[s \ {x}]
    BY <1>6, <1>9
  <2> HIDE DEF x
  <2>3. ASSUME s \ {x} \in Good PROVE s \in Good
    <3>1. IsFiniteSet(rest) /\ sum[s \ {x}] = Cardinality(rest)
      BY <2>3
    <3>2. UNION {A[d] : d \in s} = A[x] \cup rest /\ A[x] \cap rest = {}
      BY <2>1
    <3> HIDE DEF rest
    <3>3. Cardinality(A[x] \cup rest) = Cardinality(A[x]) + Cardinality(rest) /\ IsFiniteSet(A[x] \cup rest)
      <4>1. /\ IsFiniteSet(A[x] \cup rest)
            /\ Cardinality(A[x] \cup rest) = Cardinality(A[x]) + Cardinality(rest) - Cardinality(A[x] \cap rest)
        BY <2>1, <3>1, FS_Union
      <4>2. Cardinality(A[x] \cap rest) = 0
        BY <3>2, FS_EmptySet
      <4>3. Cardinality(A[x]) \in Nat /\ Cardinality(rest) \in Nat
        BY <2>1, <3>1, FS_CardinalityType
      <4>4. QED
        BY <4>1, <4>2, <4>3
    <3>4. QED
      BY <1>1, <2>1, <2>2, <3>1, <3>2, <3>3
  <2>4. QED
    BY <2>1, <2>3
<1>10. D \in Good
  <2> HIDE DEF Good
  <2>1. QED
    BY <1>8, <1>9, SetInduction
<1>11. QED
  BY <1>7, <1>10

-----------------------------------------------------------------------------
(* Domains.  p is below a dot of d when it is what stands after it.         *)
Dot == "."
After(d, k) == SubSeq(d, k + 1, Len(d))
Under(p, d) == \E k \in Dots(d) : p = After(d, k)

LEMMA DotsAre ==
  ASSUME NEW d \in Text
  PROVE  /\ Len(d) \in Nat /\ DOMAIN d = 1 .. Len(d)
         /\ Dots(d) = {k \in 1 .. Len(d) : d[k] = Dot}
         /\ IsFiniteSet(Dots(d)) /\ Cardinality(Dots(d)) \in Nat
<1>1. Len(d) \in Nat /\ DOMAIN d = 1 .. Len(d)
  BY DEF Text
<1>2. Dots(d) = {k \in 1 .. Len(d) : d[k] = Dot}
  BY <1>1 DEF Dots, Dot
<1>3. IsFiniteSet(1 .. Len(d)) /\ Dots(d) \in SUBSET (1 .. Len(d))
  BY <1>1, <1>2, FS_Interval
<1>4. IsFiniteSet(Dots(d))
  BY <1>3, FS_Subset
<1>5. QED
  BY <1>1, <1>2, <1>4, FS_CardinalityType

LEMMA AfterIs ==
  ASSUME NEW d \in Text, NEW k \in 0 .. Len(d)
  PROVE  /\ After(d, k) \in Text /\ Len(After(d, k)) = Len(d) - k
         /\ \A i \in 1 .. (Len(d) - k) : After(d, k)[i] = d[k + i]
<1>1. d \in Seq(STRING) /\ Len(d) \in Nat /\ k \in Nat /\ k <= Len(d)
  BY DEF Text
<1>2. k + 1 \in 1 .. Len(d) + 1 /\ Len(d) \in k .. Len(d)
  BY <1>1
<1> DEFINE s == SubSeq(d, k + 1, Len(d))
<1>3. s \in Seq(STRING) /\ Len(s) = Len(d) - k /\ \A i \in 1 .. (Len(d) - k) : s[i] = d[k + i]
  BY <1>1
<1>4. QED
  BY <1>3 DEF After, Text

(* A text is what its length and its places say. *)
LEMMA SameText ==
  ASSUME NEW a \in Text, NEW b \in Text, Len(a) = Len(b), \A i \in 1 .. Len(a) : a[i] = b[i]
  PROVE  a = b
BY SeqEqual DEF Text

LEMMA UnderIs ==
  ASSUME NEW p, NEW d \in Text
  PROVE  Under(p, d) <=>
           /\ p \in Text /\ Len(p) < Len(d) /\ d[Len(d) - Len(p)] = Dot
           /\ \A i \in 1 .. Len(p) : p[i] = d[(Len(d) - Len(p)) + i]
<1>1. Len(d) \in Nat /\ Dots(d) = {k \in 1 .. Len(d) : d[k] = Dot}
  BY DotsAre
<1>2. ASSUME Under(p, d)
      PROVE  /\ p \in Text /\ Len(p) < Len(d) /\ d[Len(d) - Len(p)] = Dot
             /\ \A i \in 1 .. Len(p) : p[i] = d[(Len(d) - Len(p)) + i]
  <2>1. PICK k \in 1 .. Len(d) : d[k] = Dot /\ p = After(d, k)
    BY <1>1, <1>2 DEF Under
  <2>2. k \in 0 .. Len(d) /\ k \in Nat
    BY <1>1
  <2>3. p \in Text /\ Len(p) = Len(d) - k /\ \A i \in 1 .. (Len(d) - k) : p[i] = d[k + i]
    BY <2>1, <2>2, AfterIs
  <2>4. Len(d) - Len(p) = k /\ Len(p) < Len(d)
    BY <1>1, <2>1, <2>2, <2>3
  <2>5. QED
    BY <2>1, <2>3, <2>4
<1>3. ASSUME p \in Text, Len(p) < Len(d), d[Len(d) - Len(p)] = Dot,
             \A i \in 1 .. Len(p) : p[i] = d[(Len(d) - Len(p)) + i]
      PROVE  Under(p, d)
  <2> DEFINE k == Len(d) - Len(p)
  <2>1. Len(p) \in Nat
    BY <1>3, DotsAre
  <2>2. k \in 1 .. Len(d) /\ k \in 0 .. Len(d) /\ Len(d) - k = Len(p)
    BY <1>1, <1>3, <2>1
  <2>3. k \in Dots(d)
    BY <1>1, <1>3, <2>2
  <2>4. \A i \in 1 .. Len(p) : p[i] = d[k + i]
    BY <1>3
  <2> HIDE DEF k
  <2>5. /\ After(d, k) \in Text /\ Len(After(d, k)) = Len(p)
        /\ \A i \in 1 .. Len(p) : After(d, k)[i] = d[k + i]
    BY <2>2, AfterIs
  <2>6. p = After(d, k)
    BY <1>3, <2>4, <2>5, SameText
  <2>7. QED
    BY <2>3, <2>6 DEF Under
<1>4. QED
  BY <1>2, <1>3

(* Of two domains above a name, one is above the other or they are equal.   *)
LEMMA Nested ==
  ASSUME NEW d \in Text, NEW p, NEW q, Under(p, d), Under(q, d)
  PROVE  /\ Len(q) < Len(p) => Under(q, p)
         /\ Len(q) = Len(p) => q = p
<1>1. Len(d) \in Nat
  BY DotsAre
<1>2. /\ p \in Text /\ Len(p) \in Nat /\ Len(p) < Len(d)
      /\ \A i \in 1 .. Len(p) : p[i] = d[(Len(d) - Len(p)) + i]
  BY UnderIs, DotsAre
<1>3. /\ q \in Text /\ Len(q) \in Nat /\ Len(q) < Len(d) /\ d[Len(d) - Len(q)] = Dot
      /\ \A i \in 1 .. Len(q) : q[i] = d[(Len(d) - Len(q)) + i]
  BY UnderIs, DotsAre
<1>4. ASSUME Len(q) < Len(p) PROVE Under(q, p)
  <2> DEFINE m == Len(p) - Len(q)
  <2>1. m \in 1 .. Len(p) /\ (Len(d) - Len(p)) + m = Len(d) - Len(q)
    BY <1>1, <1>2, <1>3, <1>4
  <2>2. p[m] = Dot
    BY <1>2, <1>3, <2>1
  <2>3. ASSUME NEW i \in 1 .. Len(q) PROVE q[i] = p[m + i]
    <3>1. m + i \in 1 .. Len(p) /\ (Len(d) - Len(p)) + (m + i) = (Len(d) - Len(q)) + i
      BY <1>1, <1>2, <1>3, <1>4
    <3>2. p[m + i] = d[(Len(d) - Len(p)) + (m + i)]
      BY <1>2, <3>1
    <3>3. QED
      BY <1>3, <3>1, <3>2
  <2>4. QED
    BY <1>2, <1>3, <1>4, <2>2, <2>3, UnderIs
<1>5. ASSUME Len(q) = Len(p) PROVE q = p
  BY <1>2, <1>3, <1>5, SameText
<1>6. QED
  BY <1>4, <1>5

(* What is above a domain above a name is above the name.                    *)
LEMMA UnderTwice ==
  ASSUME NEW d \in Text, NEW p, NEW q, Under(p, d), Under(q, p)
  PROVE  Under(q, d) /\ Len(q) < Len(p)
<1>1. Len(d) \in Nat
  BY DotsAre
<1>2. /\ p \in Text /\ Len(p) \in Nat /\ Len(p) < Len(d)
      /\ \A i \in 1 .. Len(p) : p[i] = d[(Len(d) - Len(p)) + i]
  BY UnderIs, DotsAre
<1>3. /\ q \in Text /\ Len(q) \in Nat /\ Len(q) < Len(p) /\ p[Len(p) - Len(q)] = Dot
      /\ \A i \in 1 .. Len(q) : q[i] = p[(Len(p) - Len(q)) + i]
  BY <1>2, UnderIs, DotsAre
<1>4. d[Len(d) - Len(q)] = Dot
  <2>1. Len(p) - Len(q) \in 1 .. Len(p) /\ (Len(d) - Len(p)) + (Len(p) - Len(q)) = Len(d) - Len(q)
    BY <1>1, <1>2, <1>3
  <2>2. p[Len(p) - Len(q)] = d[(Len(d) - Len(p)) + (Len(p) - Len(q))]
    BY <1>2, <2>1
  <2>3. QED
    BY <1>3, <2>1, <2>2
<1>5. ASSUME NEW i \in 1 .. Len(q) PROVE q[i] = d[(Len(d) - Len(q)) + i]
  <2>1. /\ (Len(p) - Len(q)) + i \in 1 .. Len(p)
        /\ (Len(d) - Len(p)) + ((Len(p) - Len(q)) + i) = (Len(d) - Len(q)) + i
    BY <1>1, <1>2, <1>3
  <2>2. p[(Len(p) - Len(q)) + i] = d[(Len(d) - Len(p)) + ((Len(p) - Len(q)) + i)]
    BY <1>2, <2>1
  <2>3. QED
    BY <1>3, <2>1, <2>2
<1>6. QED
  BY <1>1, <1>2, <1>3, <1>4, <1>5, UnderIs

(* A domain has fewer dots than what is below it.                            *)
LEMMA FewerDots ==
  ASSUME NEW p \in Text, NEW q, Under(q, p)
  PROVE  Cardinality(Dots(q)) < Cardinality(Dots(p))
<1> DEFINE m == Len(p) - Len(q)
           D == Dots(p) \ {m}
           shift == [k \in Dots(q) |-> m + k]
<1>1. /\ q \in Text /\ Len(q) \in Nat /\ Len(p) \in Nat /\ Len(q) < Len(p) /\ p[m] = Dot
      /\ \A i \in 1 .. Len(q) : q[i] = p[m + i]
  BY UnderIs, DotsAre
<1>2. /\ Dots(q) = {k \in 1 .. Len(q) : q[k] = Dot}
      /\ Dots(p) = {k \in 1 .. Len(p) : p[k] = Dot}
      /\ IsFiniteSet(Dots(p)) /\ Cardinality(Dots(p)) \in Nat
      /\ IsFiniteSet(Dots(q)) /\ Cardinality(Dots(q)) \in Nat
  BY <1>1, DotsAre
<1>3. m \in Nat /\ m # 0 /\ m \in 1 .. Len(p) /\ m + Len(q) = Len(p)
  BY <1>1
<1> HIDE DEF m
<1>4. m \in Dots(p)
  BY <1>1, <1>2, <1>3
<1>5. IsFiniteSet(D) /\ Cardinality(D) = Cardinality(Dots(p)) - 1
  BY <1>2, <1>4, FS_RemoveElement
<1>6. ASSUME NEW k \in Dots(q) PROVE m + k \in D
  <2>1. k \in 1 .. Len(q) /\ q[k] = Dot
    BY <1>2
  <2>2. m + k \in 1 .. Len(p) /\ m + k # m /\ p[m + k] = Dot
    BY <1>1, <1>3, <2>1
  <2>3. QED
    BY <1>2, <2>2
<1>7. \A j, k \in Dots(q) : m + j = m + k => j = k
  BY <1>2, <1>3
<1>8. shift \in Injection(Dots(q), D)
  <2> HIDE DEF D
  <2>1. QED
    BY <1>6, <1>7 DEF Injection, IsInjective
<1>9. Cardinality(Dots(q)) <= Cardinality(D)
  BY <1>5, <1>8, FS_Injection
<1>10. QED
  BY <1>2, <1>5, <1>9

(* The domains above a name that does not end with a dot.                   *)
Firm(d) == d \in Text /\ Len(d) # 0 /\ d[Len(d)] # Dot

LEMMA AboveAre ==
  ASSUME NEW d, Firm(d), NEW p
  PROVE  p \in Above(d) <=> Under(p, d) /\ Dots(p) # {}
<1> DEFINE trimmed == SubSeq(d, 1, SelectLastInSeq(d, LAMBDA c : c # "."))
           I == {i \in 1 .. Len(d) : d[i] # "."}
<1>1. d \in Text /\ Len(d) \in Nat /\ Len(d) \in 1 .. Len(d) /\ d[Len(d)] # "."
  BY DotsAre DEF Firm, Dot
<1>2. Len(d) \in I /\ \A i \in I : i <= Len(d)
  BY <1>1
<1>3. Max(I) = Len(d)
  BY <1>1, <1>2 DEF Max
<1>4. SelectLastInSeq(d, LAMBDA c : c # ".") = Len(d)
  BY <1>2, <1>3 DEF SelectLastInSeq
<1>5. SubSeq(d, 1, Len(d)) = d
  BY <1>1 DEF Text
<1>6. trimmed = d
  BY <1>4, <1>5
<1>7. Above(d) = {x \in {SubSeq(trimmed, k + 1, Len(trimmed)) : k \in Dots(trimmed)} : Dots(x) # {}}
  BY DEF Above
<1> HIDE DEF trimmed
<1>8. Above(d) = {x \in {SubSeq(d, k + 1, Len(d)) : k \in Dots(d)} : Dots(x) # {}}
  BY <1>6, <1>7
<1>9. QED
  BY <1>8 DEF Under, After

LEMMA FirmAbove ==
  ASSUME NEW d, Firm(d), NEW p, Under(p, d), Dots(p) # {}
  PROVE  Firm(p)
<1>1. /\ p \in Text /\ Len(p) \in Nat /\ Len(d) \in Nat
      /\ \A i \in 1 .. Len(p) : p[i] = d[(Len(d) - Len(p)) + i]
  BY UnderIs, DotsAre DEF Firm
<1>2. Len(p) \in 1 .. Len(p)
  BY <1>1, DotsAre
<1>3. p[Len(p)] = d[Len(d)]
  BY <1>1, <1>2
<1>4. QED
  BY <1>1, <1>2, <1>3 DEF Firm

(* The wildcard for a domain matches the names below it. *)
Chars == STRING \cup {Star, "."}
Wildcard(p) == <<Star, ".">> \o p
Unglobbed(d) == d \in Text /\ Free(d, {Star, Query})

LEMMA WildcardIs ==
  ASSUME NEW p \in Text
  PROVE  /\ Wildcard(p) \in Seq(Chars) /\ Len(Wildcard(p)) = Len(p) + 2
         /\ Wildcard(p)[1] = Star /\ Wildcard(p)[2] = Dot
         /\ \A i \in 1 .. Len(p) : Wildcard(p)[i + 2] = p[i]
<1> DEFINE a == <<Star, ".">>
<1>1. a \in Seq(Chars) /\ Len(a) = 2 /\ a[1] = Star /\ a[2] = Dot
  BY DEF Chars, Dot
<1> HIDE DEF a
<1>2. Len(p) \in Nat /\ p \in Seq(Chars)
  <2>1. p \in Seq(STRING) /\ STRING \subseteq Chars
    BY DEF Text, Chars
  <2>2. Seq(STRING) \subseteq Seq(Chars)
    BY <2>1, SeqMonotonic
  <2>4. QED
    BY <2>1, <2>2
<1>3. /\ a \o p \in Seq(Chars) /\ Len(a \o p) = 2 + Len(p)
      /\ \A i \in 1 .. 2 + Len(p) : (a \o p)[i] = IF i <= 2 THEN a[i] ELSE p[i - 2]
  <2>1. /\ a \o p \in Seq(Chars) /\ Len(a \o p) = Len(a) + Len(p)
        /\ \A i \in 1 .. Len(a) + Len(p) : (a \o p)[i] = IF i <= Len(a) THEN a[i] ELSE p[i - Len(a)]
    BY <1>1, <1>2, ConcatProperties
  <2>2. QED
    BY <1>1, <2>1
<1>4. Wildcard(p) = a \o p
  BY DEF Wildcard, a
<1>5. ASSUME NEW i \in 1 .. Len(p) PROVE (a \o p)[i + 2] = p[i]
  <2>1. i + 2 \in 1 .. 2 + Len(p) /\ ~ (i + 2 <= 2) /\ (i + 2) - 2 = i
    BY <1>2
  <2>2. QED
    BY <1>3, <2>1
<1>6. (a \o p)[1] = Star /\ (a \o p)[2] = Dot
  <2>1. 1 \in 1 .. 2 + Len(p) /\ 2 \in 1 .. 2 + Len(p) /\ 1 <= 2 /\ 2 <= 2
    BY <1>2
  <2>2. (a \o p)[1] = a[1] /\ (a \o p)[2] = a[2]
    BY <1>3, <2>1
  <2>3. QED
    BY <1>1, <2>2
<1>7. QED
  BY <1>2, <1>3, <1>4, <1>5, <1>6

(* Without a `*` or a `?` a text is no pattern.                              *)
LEMMA NotGlob ==
  ASSUME NEW d, Unglobbed(d)
  PROVE  /\ ~ IsGlob(d) /\ \A i \in 1 .. Len(d) : d[i] # Star /\ d[i] # Query
<1>1. d \in Text /\ DOMAIN d = 1 .. Len(d)
  BY DotsAre DEF Unglobbed
<1>2. \A i \in 1 .. Len(d) : d[i] \in ToSet(d)
  BY <1>1 DEF ToSet
<1>3. \A i \in 1 .. Len(d) : d[i] \notin {Star, Query}
  BY <1>2 DEF Unglobbed, Free
<1>4. QED
  BY <1>1, <1>3 DEF IsGlob

LEMMA EndMatched ==
  ASSUME NEW S, NEW R, NEW w \in Seq(S), NEW d \in Seq(R), Query \notin ToSet(w), Matches(w, d),
         FirstStar(w, 1), FinalStar(w, 1)
  PROVE  /\ Len(w) - 1 <= Len(d)
         /\ \A e \in 1 .. (Len(w) - 1) : w[Len(w) + 1 - e] = d[Len(d) + 1 - e]
<1>1. 1 <= 1
  OBVIOUS
<1>2. EndsAgree(w, d, 1, 1)
  BY <1>1, EndsMatched
<1>3. (1 - 1) + (Len(w) - 1) <= Len(d)
  BY <1>2 DEF EndsAgree
<1>4. \A e \in 1 .. (Len(w) - 1) : w[Len(w) + 1 - e] = d[Len(d) + 1 - e]
  BY <1>2 DEF EndsAgree
<1>5. QED
  BY <1>3, <1>4

(* In the matcher, the wildcard for p matches just the names below p.        *)
LEMMA WildcardMatches ==
  ASSUME NEW p, Unglobbed(p), ParseCidr(Wildcard(p)) = {}, NEW d \in Text
  PROVE  TargetMatches(Wildcard(p), d) <=> Under(p, d)
<1> DEFINE w == Wildcard(p)
<1>1. p \in Text /\ Len(p) \in Nat /\ Len(d) \in Nat
  BY DotsAre DEF Unglobbed
<1>2. /\ w \in Seq(Chars) /\ Len(w) = Len(p) + 2 /\ w[1] = Star /\ w[2] = Dot
      /\ \A i \in 1 .. Len(p) : w[i + 2] = p[i]
  BY <1>1, WildcardIs
<1>3. ASSUME NEW i \in 1 .. Len(w), i # 1 PROVE w[i] # Star /\ w[i] # Query
  <2>1. CASE i = 2
    BY <1>2, <2>1 DEF Dot, Star, Query
  <2>2. CASE i # 2
    <3>1. i - 2 \in 1 .. Len(p) /\ (i - 2) + 2 = i
      BY <1>1, <1>2, <1>3, <2>2
    <3>2. w[i] = p[i - 2]
      BY <1>2, <3>1
    <3>3. QED
      BY <3>1, <3>2, NotGlob
  <2>3. QED
    BY <2>1, <2>2
<1>4. DOMAIN w = 1 .. Len(w) /\ 1 \in 1 .. Len(w)
  BY <1>1, <1>2
<1>5. IsGlob(w)
  BY <1>2, <1>4 DEF IsGlob
<1> HIDE DEF w
<1>6. TargetMatches(w, d) <=> w = d \/ GlobMatches(w, d)
  BY <1>5 DEF TargetMatches, w
<1>7. GlobMatches(w, d) <=> Matches(w, d)
  BY <1>2, GlobMatchesMeansMatches DEF Text
<1>8. ASSUME w = d PROVE Under(p, d)
  <2>1. Len(d) - Len(p) = 2 /\ Len(p) < Len(d)
    BY <1>1, <1>2, <1>8
  <2>2. \A i \in 1 .. Len(p) : p[i] = d[2 + i]
    BY <1>1, <1>2, <1>8
  <2>3. QED
    BY <1>1, <1>2, <1>8, <2>1, <2>2, UnderIs
<1>9. ASSUME Matches(w, d) PROVE Under(p, d)
  <2>1. FirstStar(w, 1) /\ FinalStar(w, 1)
    BY <1>2, <1>3, <1>4 DEF FirstStar, FinalStar
  <2>2. Query \notin ToSet(w)
    <3>1. \A i \in 1 .. Len(w) : w[i] # Query
      BY <1>2, <1>3 DEF Star, Query
    <3>2. QED
      BY <1>4, <3>1 DEF ToSet
  <2>3. w \in Seq(Chars) /\ d \in Seq(STRING)
    BY <1>2 DEF Text
  <2>4. /\ Len(w) - 1 <= Len(d)
        /\ \A e \in 1 .. (Len(w) - 1) : w[Len(w) + 1 - e] = d[Len(d) + 1 - e]
    BY <1>9, <2>1, <2>2, <2>3, EndMatched
  <2>5. Len(p) < Len(d)
    BY <1>1, <1>2, <2>4
  <2>6. d[Len(d) - Len(p)] = Dot
    <3>1. /\ Len(p) + 1 \in 1 .. (Len(w) - 1) /\ Len(w) + 1 - (Len(p) + 1) = 2
          /\ Len(d) + 1 - (Len(p) + 1) = Len(d) - Len(p)
      BY <1>1, <1>2
    <3>2. w[Len(w) + 1 - (Len(p) + 1)] = d[Len(d) + 1 - (Len(p) + 1)]
      BY <2>4, <3>1
    <3>3. QED
      BY <1>2, <3>1, <3>2
  <2>7. ASSUME NEW i \in 1 .. Len(p) PROVE p[i] = d[(Len(d) - Len(p)) + i]
    <3> DEFINE e == Len(p) + 1 - i
    <3>1. /\ e \in 1 .. (Len(w) - 1) /\ Len(w) + 1 - e = i + 2
          /\ Len(d) + 1 - e = (Len(d) - Len(p)) + i
      BY <1>1, <1>2
    <3> HIDE DEF e
    <3>2. w[Len(w) + 1 - e] = d[Len(d) + 1 - e]
      BY <2>4, <3>1
    <3>3. w[i + 2] = d[(Len(d) - Len(p)) + i]
      BY <3>1, <3>2
    <3>4. QED
      BY <1>2, <3>3
  <2>8. QED
    BY <1>1, <2>5, <2>6, <2>7, UnderIs
<1>10. ASSUME Under(p, d) PROVE Matches(w, d)
  <2>1. /\ Len(p) < Len(d) /\ d[Len(d) - Len(p)] = Dot
        /\ \A i \in 1 .. Len(p) : p[i] = d[(Len(d) - Len(p)) + i]
    BY <1>10, UnderIs
  <2>2. ASSUME NEW e \in 1 .. (Len(w) - 1) PROVE w[Len(w) + 1 - e] = d[Len(d) + 1 - e]
    <3>1. CASE e = Len(p) + 1
      <4>1. Len(w) + 1 - e = 2 /\ Len(d) + 1 - e = Len(d) - Len(p)
        BY <1>1, <1>2, <3>1
      <4>2. QED
        BY <1>2, <2>1, <4>1
    <3>2. CASE e # Len(p) + 1
      <4> DEFINE i == Len(p) + 1 - e
      <4>1. /\ i \in 1 .. Len(p) /\ Len(w) + 1 - e = i + 2
            /\ Len(d) + 1 - e = (Len(d) - Len(p)) + i
        BY <1>1, <1>2, <3>2
      <4> HIDE DEF i
      <4>2. w[i + 2] = p[i] /\ p[i] = d[(Len(d) - Len(p)) + i]
        BY <1>2, <2>1, <4>1
      <4>3. QED
        BY <4>1, <4>2
    <3>3. QED
      BY <3>1, <3>2
  <2>3. Len(w) - 1 <= Len(d)
    BY <1>1, <1>2, <2>1
  <2>4. \A k \in 1 .. Len(w) : k # 1 => w[k] # Star
    BY <1>3
  <2>5. \A k \in 1 .. (1 - 1) : w[k] = d[k]
    OBVIOUS
  <2>6. w \in Seq(Chars) /\ d \in Seq(STRING)
    BY <1>2 DEF Text
  <2>7. QED
    BY <1>2, <1>4, <2>2, <2>3, <2>4, <2>5, <2>6, OneStarMatches
<1>11. QED
  BY <1>6, <1>7, <1>8, <1>9, <1>10 DEF w

(* A domain above such a name has none of these either.                      *)
LEMMA PartUnglobbed ==
  ASSUME NEW d, Unglobbed(d), NEW p, Under(p, d)
  PROVE  Unglobbed(p)
<1>1. /\ p \in Text /\ DOMAIN p = 1 .. Len(p) /\ Len(p) \in Nat /\ d \in Text /\ Len(d) \in Nat
      /\ Len(p) < Len(d) /\ \A i \in 1 .. Len(p) : p[i] = d[(Len(d) - Len(p)) + i]
  BY UnderIs, DotsAre DEF Unglobbed
<1>2. \A i \in 1 .. Len(p) : (Len(d) - Len(p)) + i \in 1 .. Len(d)
  BY <1>1
<1>3. \A i \in 1 .. Len(p) : p[i] # Star /\ p[i] # Query
  BY <1>1, <1>2, NotGlob
<1>4. ToSet(p) = {p[i] : i \in 1 .. Len(p)}
  BY <1>1 DEF ToSet
<1>5. QED
  BY <1>1, <1>3, <1>4 DEF Unglobbed, Free

-----------------------------------------------------------------------------
(* The domains at or above a name under which a site can be registered.     *)
Sites(d) == {x \in Above(d) \cup {d} : ~ IsRegistry(x)}
Shortest(x, T) == x \in T /\ \A e \in T : Len(x) <= Len(e)

(* The shortest of them is the site, and there is one only.                  *)
LEMMA SiteIs ==
  ASSUME NEW d, Firm(d), Sites(d) # {}
  PROVE  Shortest(SiteOf(d), Sites(d)) /\ \A x : Shortest(x, Sites(d)) => x = SiteOf(d)
<1>1. ASSUME NEW x \in Sites(d) PROVE (Under(x, d) \/ x = d) /\ x \in Text /\ Len(x) \in Nat
  <2>1. Under(x, d) \/ x = d
    BY AboveAre DEF Sites
  <2>2. QED
    BY <2>1, UnderIs, DotsAre DEF Firm
<1> DEFINE lengths == {Len(x) : x \in Sites(d)}
<1>2. lengths \in SUBSET Nat /\ lengths # {}
  BY <1>1
<1>3. \E m \in lengths : \A n \in lengths : m <= n
  <2> HIDE DEF lengths
  <2>1. QED
    BY <1>2, Least
<1>4. \E x : Shortest(x, Sites(d))
  BY <1>3 DEF Shortest
<1>5. SiteOf(d) = CHOOSE x \in Sites(d) : \A e \in Sites(d) : Len(x) <= Len(e)
  BY DEF SiteOf, Sites
<1>6. Shortest(SiteOf(d), Sites(d))
  <2> HIDE DEF lengths
  <2>1. QED
    BY <1>4, <1>5 DEF Shortest
<1>7. ASSUME NEW x, Shortest(x, Sites(d)) PROVE x = SiteOf(d)
  <2> DEFINE y == SiteOf(d)
  <2>1. x \in Sites(d) /\ y \in Sites(d) /\ Len(x) <= Len(y) /\ Len(y) <= Len(x)
    BY <1>6, <1>7 DEF Shortest
  <2> HIDE DEF y
  <2>2. /\ Under(x, d) \/ x = d
        /\ Under(y, d) \/ y = d
        /\ Len(x) = Len(y)
    BY <1>1, <2>1
  <2>3. d \in Text /\ \A z : Under(z, d) => Len(z) # Len(d)
    <3>1. d \in Text
      BY DEF Firm
    <3>2. ASSUME NEW z, Under(z, d) PROVE Len(z) # Len(d)
      BY <3>1, <3>2, UnderIs, DotsAre
    <3>3. QED
      BY <3>1, <3>2
  <2>4. Under(x, d) /\ Under(y, d) => x = y
    BY <2>2, <2>3, Nested
  <2>5. QED
    BY <2>2, <2>3, <2>4 DEF y
<1>8. QED
  BY <1>6, <1>7

(* A name has the site of any domain above it that can be registered.      *)
LEMMA SameSite ==
  ASSUME NEW d, Firm(d), NEW p, Under(p, d), Dots(p) # {}, ~ IsRegistry(p)
  PROVE  SiteOf(d) = SiteOf(p)
<1>1. Firm(p) /\ p \in Text /\ d \in Text /\ Len(p) < Len(d) /\ Len(p) \in Nat /\ Len(d) \in Nat
  BY FirmAbove, UnderIs, DotsAre DEF Firm
<1>2. p \in Sites(d) /\ p \in Sites(p)
  BY AboveAre DEF Sites
<1>3. ASSUME NEW x \in Sites(p) PROVE x \in Sites(d) /\ Len(x) \in Nat /\ Len(x) <= Len(p)
  <2>1. CASE x = p
    BY <1>1, <1>2, <2>1
  <2>2. CASE x # p
    <3>1. Under(x, p) /\ Dots(x) # {} /\ ~ IsRegistry(x)
      BY <1>1, <1>3, <2>2, AboveAre DEF Sites
    <3>2. Under(x, d) /\ Len(x) < Len(p) /\ x \in Text /\ Len(x) \in Nat
      BY <1>1, <3>1, UnderTwice, UnderIs, DotsAre
    <3>3. QED
      BY <1>1, <3>1, <3>2, AboveAre DEF Sites
  <2>3. QED
    BY <2>1, <2>2
<1>4. ASSUME NEW x \in Sites(d), Len(x) <= Len(p) PROVE x \in Sites(p)
  <2>1. x # d
    BY <1>1, <1>4
  <2>2. Under(x, d) /\ Dots(x) # {} /\ ~ IsRegistry(x)
    BY <2>1, AboveAre DEF Sites
  <2>3. x \in Text /\ Len(x) \in Nat
    BY <1>1, <2>2, UnderIs, DotsAre
  <2>4. Under(x, p) \/ x = p
    BY <1>1, <1>4, <2>2, <2>3, Nested
  <2>5. QED
    BY <1>1, <1>2, <2>2, <2>4, AboveAre DEF Sites
<1> DEFINE y == SiteOf(p)
<1>5. Shortest(y, Sites(p))
  BY <1>1, <1>2, SiteIs
<1> HIDE DEF y
<1>6. ASSUME NEW e \in Sites(d) PROVE Len(y) <= Len(e)
  <2>1. y \in Sites(p) /\ Len(y) <= Len(p) /\ Len(y) \in Nat
    BY <1>3, <1>5 DEF Shortest
  <2>2. e \in Text /\ Len(e) \in Nat
    <3>1. Under(e, d) \/ e = d
      BY AboveAre DEF Sites
    <3>2. QED
      BY <1>1, <3>1, UnderIs, DotsAre
  <2>3. CASE Len(e) <= Len(p)
    BY <1>4, <1>5, <2>3 DEF Shortest
  <2>4. CASE ~ (Len(e) <= Len(p))
    BY <1>1, <2>1, <2>2, <2>4
  <2>5. QED
    BY <2>3, <2>4
<1>7. Shortest(y, Sites(d))
  BY <1>3, <1>5, <1>6 DEF Shortest
<1>8. Sites(d) # {}
  BY <1>2
<1>9. y = SiteOf(d)
  BY <1>7, <1>8, SiteIs
<1>10. QED
  BY <1>9 DEF y

-----------------------------------------------------------------------------
(* The fold over the domains.                                               *)

Depth(p) == Cardinality(Dots(p))
Offered(H) == UNION {WildcardParents(h) : h \in H}
Below(H, p) == {h \in H : p \in WildcardParents(h)}
Made(events, p, C) == Suggestion(Wildcard(p), "Wildcard", SumOf([m \in C |-> events[m]]), C)

(* What is true when the domains s have had their turn: what is consumed is *)
(* what the wildcards cover, no two of them the same; a wildcard leaves no  *)
(* host below its domain, and of what it covers each deeper domain has too  *)
(* few; and so has each of s of what is left.                               *)
WildcardsPartition(done, H) ==
  /\ done.consumed \in SUBSET H /\ IsFiniteSet(done.out)
  /\ \A h \in done.consumed : \E w \in done.out : h \in w.covered_hosts
  /\ \A v, w \in done.out : v # w => v.covered_hosts \cap w.covered_hosts = {}

GoodWildcard(w, events, min, s, consumed) ==
  \E p \in s, C \in SUBSET consumed :
    /\ w = Made(events, p, C) /\ C # {} /\ C \subseteq Below(DOMAIN events, p)
    /\ Below(DOMAIN events, p) \subseteq consumed
    /\ \A q \in Offered(DOMAIN events) :
         Depth(p) < Depth(q) => Cardinality(C \cap Below(DOMAIN events, q)) < min

RollInv(events, min, s, done) ==
  /\ WildcardsPartition(done, DOMAIN events)
  /\ \A w \in done.out : GoodWildcard(w, events, min, s, done.consumed)
  /\ \A p \in s : Cardinality(Below(DOMAIN events, p) \ done.consumed) < min

LEMMA MadeCovers == ASSUME NEW events, NEW p, NEW C PROVE Made(events, p, C).covered_hosts = C
BY DEF Made, Suggestion

LEMMA MadeValue == ASSUME NEW events, NEW p, NEW C PROVE Made(events, p, C).value = Wildcard(p)
BY DEF Made, Suggestion

LEMMA MadeCounts ==
  ASSUME NEW events, NEW p, NEW C
  PROVE  Made(events, p, C).events = SumOf([m \in C |-> events[m]])
BY DEF Made, Suggestion

(* One turn, in the terms of the invariant.                                  *)
LEMMA RollUpIs ==
  ASSUME NEW events, NEW min, NEW x, NEW done,
         NEW members, members = Below(DOMAIN events, x) \ done.consumed
  PROVE  RollUp(events, min, done, x) =
           IF Cardinality(members) < min THEN done
           ELSE [consumed |-> done.consumed \cup members,
                 out |-> done.out \cup {Made(events, x, members)}]
<1> DEFINE taken == {h \in DOMAIN events \ done.consumed : x \in WildcardParents(h)}
<1>1. RollUp(events, min, done, x) =
        IF Cardinality(taken) < min THEN done
        ELSE [consumed |-> done.consumed \cup taken,
              out |-> done.out \cup {Made(events, x, taken)}]
  BY DEF RollUp, Made, Wildcard, Count
<1>2. taken = members
  BY DEF Below
<1> HIDE DEF taken
<1>3. QED
  BY <1>1, <1>2

(* One turn of the loop keeps that, if every deeper domain had its turn.     *)
LEMMA TurnKeeps ==
  ASSUME NEW events, IsFiniteSet(DOMAIN events), NEW min \in Nat \ {0}, NEW s, NEW x, NEW done,
         RollInv(events, min, s, done),
         \A q \in Offered(DOMAIN events) : Depth(x) < Depth(q) => q \in s
  PROVE  RollInv(events, min, s \cup {x}, RollUp(events, min, done, x))
<1> DEFINE H == DOMAIN events
           members == Below(H, x) \ done.consumed
           next == RollUp(events, min, done, x)
<1>1. ASSUME NEW T, T \in SUBSET H PROVE IsFiniteSet(T) /\ Cardinality(T) \in Nat
  BY <1>1, FS_Subset, FS_CardinalityType
<1>2. ASSUME NEW T, NEW U, U \in SUBSET H, T \in SUBSET U, Cardinality(U) < min
      PROVE  Cardinality(T) < min
  <2>1. Cardinality(T) <= Cardinality(U)
    BY <1>1, <1>2, FS_Subset
  <2>2. Cardinality(T) \in Nat /\ Cardinality(U) \in Nat
    BY <1>1, <1>2
  <2>3. QED
    BY <1>2, <2>1, <2>2
<1>3. next = IF Cardinality(members) < min THEN done
             ELSE [consumed |-> done.consumed \cup members,
                   out |-> done.out \cup {Made(events, x, members)}]
  <2>1. members = Below(DOMAIN events, x) \ done.consumed
    OBVIOUS
  <2> HIDE DEF members
  <2>2. QED
    BY <2>1, RollUpIs
<1>4. \A q : Below(H, q) \in SUBSET H
  BY DEF Below
<1> DEFINE Few(p, gone) == Cardinality(Below(H, p) \ gone) < min
           Fine(w, t, gone) == GoodWildcard(w, events, min, t, gone)
<1>5. /\ WildcardsPartition(done, H)
      /\ \A w \in done.out : Fine(w, s, done.consumed)
      /\ \A p \in s : Few(p, done.consumed)
  BY DEF RollInv
<1> HIDE DEF H, next, members, Few, Fine
<1>6. CASE Cardinality(members) < min
  <2>1. next = done
    BY <1>3, <1>6
  <2>2. \A w \in done.out : Fine(w, s \cup {x}, done.consumed)
    BY <1>5 DEF Fine, GoodWildcard
  <2>3. Few(x, done.consumed)
    BY <1>6 DEF Few, members
  <2>4. \A p \in s \cup {x} : Few(p, done.consumed)
    BY <1>5, <2>3
  <2>5. QED
    BY <1>5, <2>1, <2>2, <2>4 DEF RollInv, next, H, Few, Fine
<1>7. CASE ~ (Cardinality(members) < min)
  <2> DEFINE gone == done.consumed \cup members
             new == Made(events, x, members)
  <2>1. next.consumed = gone /\ next.out = done.out \cup {new}
    BY <1>3, <1>7
  <2>2. members \in SUBSET H /\ members # {} /\ members \cap done.consumed = {} /\ members \subseteq Below(H, x)
    <3>1. members # {}
      <4>1. Cardinality({}) = 0
        BY FS_EmptySet
      <4>2. QED
        BY <1>7, <4>1
    <3>2. QED
      BY <1>4, <3>1 DEF members
  <2>3. new.covered_hosts = members
    <3> HIDE DEF members
    <3>1. QED
      BY MadeCovers
  <2> HIDE DEF new, gone
  <2>4. done.consumed \subseteq gone /\ gone \in SUBSET H
    BY <1>5, <2>2 DEF gone, WildcardsPartition
  <2>5. ASSUME NEW w \in done.out
        PROVE  Fine(w, s \cup {x}, gone) /\ w.covered_hosts \subseteq done.consumed
    <3>1. PICK p \in s, C \in SUBSET done.consumed :
            /\ w = Made(events, p, C) /\ C # {} /\ C \subseteq Below(H, p)
            /\ Below(H, p) \subseteq done.consumed
            /\ \A q \in Offered(H) : Depth(p) < Depth(q) => Cardinality(C \cap Below(H, q)) < min
      BY <1>5 DEF Fine, GoodWildcard, H
    <3>2. w.covered_hosts = C
      BY <3>1, MadeCovers
    <3>3. p \in s \cup {x} /\ C \in SUBSET gone /\ Below(H, p) \subseteq gone
      BY <2>4, <3>1
    <3>4. Fine(w, s \cup {x}, gone)
      BY <3>1, <3>3 DEF Fine, GoodWildcard, H
    <3>5. QED
      BY <3>2, <3>4
  <2>6. Fine(new, s \cup {x}, gone)
    <3>1. Below(H, x) \subseteq gone /\ members \in SUBSET gone
      BY DEF gone, members
    <3>2. ASSUME NEW q \in Offered(H), Depth(x) < Depth(q)
          PROVE  Cardinality(members \cap Below(H, q)) < min
      <4>1. q \in s
        BY <3>2 DEF H
      <4>2. Cardinality(Below(H, q) \ done.consumed) < min
        BY <1>5, <4>1 DEF Few
      <4>3. members \cap Below(H, q) \in SUBSET (Below(H, q) \ done.consumed)
        BY <2>2
      <4>4. Below(H, q) \ done.consumed \in SUBSET H
        BY <1>4
      <4>5. QED
        BY <1>2, <4>2, <4>3, <4>4
    <3>3. x \in s \cup {x}
      OBVIOUS
    <3>4. QED
      BY <2>2, <3>1, <3>2, <3>3 DEF Fine, GoodWildcard, new, H
  <2>7. WildcardsPartition(next, H)
    <3>1. IsFiniteSet(next.out)
      BY <1>5, <2>1, FS_AddElement DEF WildcardsPartition
    <3>2. \A h \in gone : \E w \in next.out : h \in w.covered_hosts
      <4>1. \A h \in done.consumed : \E w \in done.out : h \in w.covered_hosts
        BY <1>5 DEF WildcardsPartition
      <4>2. QED
        BY <2>1, <2>3, <4>1 DEF gone
    <3>3. \A v, w \in next.out : v # w => v.covered_hosts \cap w.covered_hosts = {}
      <4>1. \A v, w \in done.out : v # w => v.covered_hosts \cap w.covered_hosts = {}
        BY <1>5 DEF WildcardsPartition
      <4>2. \A v \in done.out : v.covered_hosts \cap new.covered_hosts = {}
        BY <2>2, <2>3, <2>5
      <4>3. QED
        BY <2>1, <4>1, <4>2
    <3>4. QED
      BY <2>1, <2>4, <3>1, <3>2, <3>3 DEF WildcardsPartition
  <2>8. \A w \in next.out : Fine(w, s \cup {x}, gone)
    BY <2>1, <2>5, <2>6
  <2>9. ASSUME NEW p \in s \cup {x} PROVE Few(p, gone)
    <3>1. CASE p = x
      <4>1. Below(H, p) \ gone = {}
        BY <3>1 DEF gone, members
      <4>2. Cardinality({}) = 0 /\ min > 0
        BY FS_EmptySet
      <4>3. QED
        BY <4>1, <4>2 DEF Few
    <3>2. CASE p # x
      <4>1. Cardinality(Below(H, p) \ done.consumed) < min
        BY <1>5, <3>2 DEF Few
      <4>2. Below(H, p) \ gone \in SUBSET (Below(H, p) \ done.consumed)
        BY <2>4
      <4>3. Below(H, p) \ done.consumed \in SUBSET H
        BY <1>4
      <4>4. QED
        BY <1>2, <4>1, <4>2, <4>3 DEF Few
    <3>3. QED
      BY <3>1, <3>2
  <2>10. QED
    BY <2>1, <2>7, <2>8, <2>9 DEF RollInv, next, H, Few, Fine
<1>8. QED
  BY <1>6, <1>7

(* The domains that wildcard_parents offers for a host.                      *)
LEMMA ParentsAre ==
  ASSUME NEW h, Firm(h), NEW p
  PROVE  p \in WildcardParents(h) <=> /\ ParseIpv4(h) = {} /\ Under(p, h)
                                      /\ Dots(p) # {} /\ ~ IsRegistry(p)
BY AboveAre DEF WildcardParents

(* There are finitely many of them, none ending with a dot.                  *)
LEMMA OfferedAre ==
  ASSUME NEW H, IsFiniteSet(H), \A h \in H : Firm(h)
  PROVE  /\ IsFiniteSet(Offered(H))
         /\ \A p \in Offered(H) : Firm(p) /\ Depth(p) \in Nat
<1>1. ASSUME NEW h \in H PROVE IsFiniteSet(WildcardParents(h))
  <2> DEFINE T == {After(h, k) : k \in Dots(h)}
             cut == [k \in Dots(h) |-> After(h, k)]
  <2>1. IsFiniteSet(Dots(h))
    BY DotsAre DEF Firm
  <2>2. cut \in Surjection(Dots(h), T)
    BY DEF Surjection
  <2>3. IsFiniteSet(T)
    <3> HIDE DEF T, cut
    <3>1. QED
      BY <2>1, <2>2, FS_Surjection
  <2>4. WildcardParents(h) \in SUBSET T
    BY ParentsAre DEF Under
  <2>5. QED
    <3> HIDE DEF T
    <3>1. QED
      BY <2>3, <2>4, FS_Subset
<1> DEFINE families == {WildcardParents(h) : h \in H}
           family == [h \in H |-> WildcardParents(h)]
<1>2. IsFiniteSet(families) /\ \A T \in families : IsFiniteSet(T)
  <2>1. family \in Surjection(H, families)
    BY DEF Surjection
  <2>2. \A T \in families : IsFiniteSet(T)
    BY <1>1
  <2> HIDE DEF families, family
  <2>3. QED
    BY <2>1, <2>2, FS_Surjection
<1>3. IsFiniteSet(UNION families)
  <2> HIDE DEF families
  <2>1. QED
    BY <1>2, FS_UNION
<1>4. ASSUME NEW p \in Offered(H) PROVE Firm(p) /\ Depth(p) \in Nat
  <2>1. PICK h \in H : p \in WildcardParents(h)
    BY DEF Offered
  <2>2. Under(p, h) /\ Dots(p) # {}
    BY <2>1, ParentsAre
  <2>3. Firm(p)
    BY <2>2, FirmAbove
  <2>4. QED
    BY <2>3, DotsAre DEF Firm, Depth
<1>5. QED
  BY <1>3, <1>4 DEF Offered

ShallowestOf(ps) == CHOOSE p \in ps : \A q \in ps : Cardinality(Dots(p)) <= Cardinality(Dots(q))

(* The fold takes its last turn with a domain that has fewest labels.        *)
LEMMA ShallowestIs ==
  ASSUME NEW ps, ps # {}, \A p \in ps : Depth(p) \in Nat
  PROVE  ShallowestOf(ps) \in ps /\ \A q \in ps : Depth(ShallowestOf(ps)) <= Depth(q)
<1> DEFINE depths == {Depth(p) : p \in ps}
<1>1. depths \in SUBSET Nat /\ depths # {}
  OBVIOUS
<1>2. \E m \in depths : \A n \in depths : m <= n
  <2> HIDE DEF depths
  <2>1. QED
    BY <1>1, Least
<1>3. \E p \in ps : \A q \in ps : Cardinality(Dots(p)) <= Cardinality(Dots(q))
  BY <1>2 DEF Depth
<1>4. QED
  BY <1>3 DEF ShallowestOf, Depth

NothingYet == [consumed |-> {}, out |-> {}]
RolledOf(events, min) ==
  MapThenFoldSet(LAMBDA parent, done : RollUp(events, min, done, parent), NothingYet,
                 LAMBDA p : p, ShallowestOf, Offered(DOMAIN events))

LEMMA NothingRolled ==
  ASSUME NEW events, NEW min
  PROVE  RollInv(events, min, {}, NothingYet)
<1>1. NothingYet.consumed = {} /\ NothingYet.out = {}
  BY DEF NothingYet
<1>2. IsFiniteSet({})
  BY FS_EmptySet
<1>3. QED
  BY <1>1, <1>2 DEF RollInv, WildcardsPartition

(* After the last turn the invariant holds of all domains.                   *)
LEMMA Rolled ==
  ASSUME NEW events, IsFiniteSet(DOMAIN events), \A h \in DOMAIN events : Firm(h),
         NEW min \in Nat \ {0}
  PROVE  RollInv(events, min, Offered(DOMAIN events), RolledOf(events, min))
<1> DEFINE P == Offered(DOMAIN events)
           Is(g) == g = [s \in SUBSET P |->
                           IF s = {} THEN NothingYet
                           ELSE RollUp(events, min, g[s \ {ShallowestOf(s)}], ShallowestOf(s))]
           roll == CHOOSE g : Is(g)
           V == [consumed : SUBSET DOMAIN events,
                 out : SUBSET {Made(events, p, C) : p \in P, C \in SUBSET DOMAIN events}]
           pick == [s \in SUBSET P |-> ShallowestOf(s)]
           step == [w \in P \X V |-> RollUp(events, min, w[2], w[1])]
<1>1. IsFiniteSet(P) /\ \A p \in P : Depth(p) \in Nat
  BY OfferedAre
<1> HIDE DEF P
<1>2. ASSUME NEW s \in SUBSET P, s # {}
      PROVE  /\ pick[s] = ShallowestOf(s) /\ ShallowestOf(s) \in s /\ ShallowestOf(s) \in P
             /\ s \ {ShallowestOf(s)} \in SUBSET P
             /\ \A q \in s : Depth(ShallowestOf(s)) <= Depth(q)
  <2>1. \A p \in s : Depth(p) \in Nat
    BY <1>1
  <2>2. ShallowestOf(s) \in s /\ \A q \in s : Depth(ShallowestOf(s)) <= Depth(q)
    BY <1>2, <2>1, ShallowestIs
  <2>3. QED
    BY <2>2
<1>3. ASSUME NEW done \in V, NEW p \in P PROVE RollUp(events, min, done, p) \in V
  <2> DEFINE members == Below(DOMAIN events, p) \ done.consumed
             W == {Made(events, q, C) : q \in P, C \in SUBSET DOMAIN events}
  <2>1. RollUp(events, min, done, p) =
          IF Cardinality(members) < min THEN done
          ELSE [consumed |-> done.consumed \cup members, out |-> done.out \cup {Made(events, p, members)}]
    <3>1. members = Below(DOMAIN events, p) \ done.consumed
      OBVIOUS
    <3> HIDE DEF members
    <3>2. QED
      BY <3>1, RollUpIs
  <2>2. members \in SUBSET DOMAIN events
    BY DEF Below
  <2> HIDE DEF members
  <2>3. Made(events, p, members) \in W
    BY <2>2
  <2>4. done.consumed \in SUBSET DOMAIN events /\ done.out \in SUBSET W
    OBVIOUS
  <2> HIDE DEF W
  <2>5. [consumed |-> done.consumed \cup members, out |-> done.out \cup {Made(events, p, members)}]
          \in [consumed : SUBSET DOMAIN events, out : SUBSET W]
    BY <2>2, <2>3, <2>4
  <2>6. QED
    BY <2>1, <2>5 DEF W
<1>4. NothingYet \in V
  BY DEF NothingYet
<1> HIDE DEF V
<1>5. step \in [P \X V -> V]
  BY <1>3
<1>6. PICK g \in [SUBSET P -> V] : FoldsUp(g, P, NothingYet, pick, step)
  <2>1. \A s \in SUBSET P : s # {} => pick[s] \in s
    <3> HIDE DEF pick
    <3>1. QED
      BY <1>2
  <2> HIDE DEF pick, step
  <2>2. QED
    BY <1>1, <1>4, <1>5, <2>1, FoldExists
<1>7. Is(g)
  <2> DEFINE turn(s) == IF s = {} THEN NothingYet
                        ELSE RollUp(events, min, g[s \ {ShallowestOf(s)}], ShallowestOf(s))
  <2>1. \A s \in SUBSET P : g[s] = turn(s)
    <3>1. g[{}] = NothingYet
      BY <1>6 DEF FoldsUp
    <3>2. ASSUME NEW s \in SUBSET P, s # {}
          PROVE  g[s] = RollUp(events, min, g[s \ {ShallowestOf(s)}], ShallowestOf(s))
      <4> DEFINE x == ShallowestOf(s)
                 before == g[s \ {x}]
      <4>1. pick[s] = x /\ x \in P /\ s \ {x} \in SUBSET P
        BY <1>2, <3>2
      <4>2. g[s] = step[<<pick[s], g[s \ {pick[s]}]>>]
        <5> HIDE DEF pick, step
        <5>1. QED
          BY <1>6, <3>2 DEF FoldsUp
      <4>3. before \in V
        BY <4>1
      <4> HIDE DEF x, before, pick
      <4>4. step[<<x, before>>] = RollUp(events, min, before, x)
        BY <4>1, <4>3
      <4> HIDE DEF step
      <4>5. g[s] = RollUp(events, min, before, x)
        BY <4>1, <4>2, <4>4 DEF before
      <4>6. QED
        BY <4>5 DEF before, x
    <3>3. QED
      BY <3>1, <3>2
  <2> HIDE DEF turn
  <2>2. g = [s \in SUBSET P |-> turn(s)]
    BY <2>1
  <2>3. QED
    BY <2>2 DEF turn
<1>8. Is(roll)
  <2> HIDE DEF Is
  <2>1. QED
    BY <1>7
<1>9. RolledOf(events, min) = roll[P]
  BY DEF RolledOf, MapThenFoldSet, P
<1> HIDE DEF roll
<1>10. /\ roll[{}] = NothingYet
       /\ \A s \in SUBSET P : s # {} =>
            roll[s] = RollUp(events, min, roll[s \ {ShallowestOf(s)}], ShallowestOf(s))
  BY <1>8
<1> HIDE DEF Is
<1> DEFINE Upward(s) == \A p \in s, q \in P : Depth(p) < Depth(q) => q \in s
           Good == {s \in SUBSET P : Upward(s) => RollInv(events, min, s, roll[s])}
<1>11. {} \in Good
  BY <1>10, NothingRolled
<1>12. ASSUME NEW s \in SUBSET P, s # {}
       PROVE  \E x \in s : s \ {x} \in Good => s \in Good
  <2> DEFINE x == ShallowestOf(s)
             t == s \ {x}
  <2>1. x \in s /\ t \in SUBSET P /\ (\A q \in s : Depth(x) <= Depth(q)) /\ t \cup {x} = s
    BY <1>2, <1>12
  <2>2. roll[s] = RollUp(events, min, roll[t], x)
    BY <1>10, <1>12
  <2> HIDE DEF x
  <2>3. ASSUME t \in Good, Upward(s) PROVE RollInv(events, min, s, roll[s])
    <3>1. \A q \in P : Depth(x) < Depth(q) => q \in t
      <4>1. \A q \in P : Depth(x) < Depth(q) => q \in s /\ q # x
        BY <1>1, <2>1, <2>3
      <4>2. QED
        BY <4>1
    <3>2. Upward(t)
      <4>1. ASSUME NEW p \in t, NEW q \in P, Depth(p) < Depth(q) PROVE q \in t
        <5>1. q \in s
          BY <2>3, <4>1
        <5>2. Depth(x) <= Depth(p) /\ Depth(x) \in Nat /\ Depth(p) \in Nat /\ Depth(q) \in Nat
          BY <1>1, <2>1, <4>1
        <5>3. q # x
          BY <4>1, <5>2
        <5>4. QED
          BY <5>1, <5>3
      <4>2. QED
        BY <4>1
    <3>3. RollInv(events, min, t, roll[t])
      BY <2>3, <3>2
    <3> HIDE DEF t
    <3>4. RollInv(events, min, t \cup {x}, RollUp(events, min, roll[t], x))
      <4>1. \A q \in Offered(DOMAIN events) : Depth(x) < Depth(q) => q \in t
        BY <3>1 DEF P
      <4>2. QED
        BY <3>3, <4>1, TurnKeeps
    <3>5. QED
      BY <2>1, <2>2, <3>4
  <2>4. QED
    BY <2>1, <2>3
<1>13. P \in Good
  <2> HIDE DEF Good
  <2>1. QED
    BY <1>1, <1>11, <1>12, SetInduction
<1>14. QED
  BY <1>9, <1>13 DEF P

-----------------------------------------------------------------------------
(* What the suggestions match, of the hosts H and the addresses I of a      *)
(* process.                                                                 *)

Tame(H, I) ==
  /\ H \cap I = {}
  /\ \A d \in H \cup I : Unglobbed(d) /\ ParseCidr(d) = {}
  /\ \A h \in H : Firm(h)
  /\ \A p \in Offered(H) :
       /\ ParseCidr(Wildcard(p)) = {}
       /\ \A d \in I \cup {h \in H : ParseIpv4(h) # {}} : ~ TargetMatches(Wildcard(p), d)

(* A destination that is suggested as it is matches itself only.             *)
LEMMA SingleMatches ==
  ASSUME NEW e, Unglobbed(e), ParseCidr(e) = {}, NEW d
  PROVE  TargetMatches(e, d) <=> e = d
BY NotGlob DEF TargetMatches

(* What is offered for such hosts is such a name.                            *)
LEMMA OfferedIs ==
  ASSUME NEW H, NEW I, Tame(H, I), NEW p \in Offered(H)
  PROVE  Unglobbed(p) /\ Firm(p) /\ Dots(p) # {} /\ ~ IsRegistry(p) /\ ParseCidr(Wildcard(p)) = {}
<1>1. PICK h \in H : p \in WildcardParents(h)
  BY DEF Offered
<1>2. Firm(h) /\ Unglobbed(h)
  BY DEF Tame
<1>3. Under(p, h) /\ Dots(p) # {} /\ ~ IsRegistry(p)
  BY <1>1, <1>2, ParentsAre
<1>4. QED
  BY <1>2, <1>3, PartUnglobbed, FirmAbove DEF Tame

(* The wildcard for p matches, of H and I, the hosts it was offered for.     *)
LEMMA WildcardTakes ==
  ASSUME NEW H, NEW I, Tame(H, I), NEW p \in Offered(H), NEW d \in H \cup I
  PROVE  TargetMatches(Wildcard(p), d) <=> d \in Below(H, p)
<1>1. Unglobbed(p) /\ Dots(p) # {} /\ ~ IsRegistry(p) /\ ParseCidr(Wildcard(p)) = {}
  BY OfferedIs
<1>2. d \in Text
  BY DEF Tame, Unglobbed
<1>3. TargetMatches(Wildcard(p), d) <=> Under(p, d)
  BY <1>1, <1>2, WildcardMatches
<1>4. ASSUME TargetMatches(Wildcard(p), d) PROVE d \in Below(H, p)
  <2>1. d \in H /\ ParseIpv4(d) = {} /\ Firm(d)
    BY <1>4 DEF Tame
  <2>2. p \in WildcardParents(d)
    BY <1>1, <1>3, <1>4, <2>1, ParentsAre
  <2>3. QED
    BY <2>1, <2>2 DEF Below
<1>5. ASSUME d \in Below(H, p) PROVE Under(p, d)
  <2>1. Firm(d) /\ p \in WildcardParents(d)
    BY <1>5 DEF Below, Tame
  <2>2. QED
    BY <2>1, ParentsAre
<1>6. QED
  BY <1>3, <1>4, <1>5

(* What Build makes of the counts.                                          *)
HostItem(hosts, d) == Suggestion(d, "Host", hosts[d], {})
IpItem(ips, d) == Suggestion(d, "Ip", ips[d], {})

HostItems(hosts, done, opts) ==
  {HostItem(hosts, d) : d \in {x \in DOMAIN hosts \ done.consumed : hosts[x] >= opts.min_events}}
IpItems(ips, opts) ==
  IF opts.include_ips THEN {IpItem(ips, d) : d \in {x \in DOMAIN ips : ips[x] >= opts.min_events}} ELSE {}

Result(hosts, ips, opts, done) == done.out \cup HostItems(hosts, done, opts) \cup IpItems(ips, opts)

LEMMA BuildIs ==
  ASSUME NEW hosts, NEW ips, NEW opts
  PROVE  Build(hosts, ips, opts) = Result(hosts, ips, opts, RolledOf(hosts, opts.min_hosts))
<1> DEFINE done == RolledOf(hosts, opts.min_hosts)
           singles(counts, but, kind) ==
             {Suggestion(d, kind, counts[d], {}) :
                d \in {x \in DOMAIN counts \ but : counts[x] >= opts.min_events}}
<1>1. Build(hosts, ips, opts) =
        done.out \cup singles(hosts, done.consumed, "Host")
          \cup (IF opts.include_ips THEN singles(ips, {}, "Ip") ELSE {})
  BY DEF Build, RolledOf, NothingYet, Offered, ShallowestOf
<1>2. singles(hosts, done.consumed, "Host") = HostItems(hosts, done, opts)
  BY DEF HostItems, HostItem
<1>3. opts.include_ips => singles(ips, {}, "Ip") = IpItems(ips, opts)
  BY DEF IpItems, IpItem
<1>4. ~ opts.include_ips => IpItems(ips, opts) = {}
  BY DEF IpItems
<1> HIDE DEF done, singles
<1>5. QED
  BY <1>1, <1>2, <1>3, <1>4 DEF Result, done

LEMMA ItemIs ==
  ASSUME NEW f, NEW d
  PROVE  /\ HostItem(f, d).value = d /\ HostItem(f, d).covered_hosts = {}
         /\ HostItem(f, d).events = f[d] /\ HostItem(f, d).kind # "Wildcard"
         /\ IpItem(f, d).value = d /\ IpItem(f, d).covered_hosts = {}
         /\ IpItem(f, d).events = f[d] /\ IpItem(f, d).kind # "Wildcard"
BY DEF HostItem, IpItem, Suggestion

(* The destinations a suggestion counts.                                    *)
Takes(s) == IF s.covered_hosts = {} THEN {s.value} ELSE s.covered_hosts

LEMMA ItemTakes ==
  ASSUME NEW f, NEW d
  PROVE  /\ HostItem(f, d).value = d /\ Takes(HostItem(f, d)) = {d}
         /\ IpItem(f, d).value = d /\ Takes(IpItem(f, d)) = {d}
BY DEF Takes, HostItem, IpItem, Suggestion

(* What a wildcard of the result is.                                         *)
LEMMA WildcardItem ==
  ASSUME NEW events, NEW min, NEW s, NEW done, RollInv(events, min, s, done), NEW w \in done.out
  PROVE  \E p \in s : /\ w.value = Wildcard(p) /\ Takes(w) = w.covered_hosts /\ w.covered_hosts # {}
                      /\ w.covered_hosts \subseteq done.consumed
                      /\ w.covered_hosts \subseteq Below(DOMAIN events, p)
                      /\ Below(DOMAIN events, p) \subseteq done.consumed
<1>1. PICK p \in s, C \in SUBSET done.consumed :
        /\ w = Made(events, p, C) /\ C # {} /\ C \subseteq Below(DOMAIN events, p)
        /\ Below(DOMAIN events, p) \subseteq done.consumed
  BY DEF RollInv, GoodWildcard
<1>2. w.covered_hosts = C /\ w.value = Wildcard(p)
  BY <1>1, MadeCovers, MadeValue
<1>3. QED
  BY <1>1, <1>2 DEF Takes

Finished(hosts, ips, opts, done) ==
  /\ Tame(DOMAIN hosts, DOMAIN ips)
  /\ RollInv(hosts, opts.min_hosts, Offered(DOMAIN hosts), done)

(* A destination is matched by a suggestion just if one of them counts it.   *)
LEMMA CoversIs ==
  ASSUME NEW hosts, NEW ips, NEW opts, NEW done, Finished(hosts, ips, opts, done),
         NEW d \in DOMAIN hosts \cup DOMAIN ips
  PROVE  Covers(Result(hosts, ips, opts, done), d) <=>
           \E s \in Result(hosts, ips, opts, done) : d \in Takes(s)
<1> DEFINE S == Result(hosts, ips, opts, done)
           H == DOMAIN hosts
           I == DOMAIN ips
<1>1. Tame(H, I) /\ RollInv(hosts, opts.min_hosts, Offered(H), done)
  BY DEF Finished
<1>2. ASSUME NEW e \in H \cup I PROVE TargetMatches(e, d) <=> e = d
  <2>1. Unglobbed(e) /\ ParseCidr(e) = {}
    BY <1>1 DEF Tame
  <2>2. QED
    BY <2>1, SingleMatches
<1> HIDE DEF S
<1>3. ASSUME NEW s \in HostItems(hosts, done, opts) \cup IpItems(ips, opts)
      PROVE  TargetMatches(s.value, d) <=> d \in Takes(s)
  <2>1. PICK e \in H \cup I : s.value = e /\ Takes(s) = {e}
    BY <1>3, ItemTakes DEF HostItems, IpItems
  <2>2. QED
    BY <1>2, <2>1
<1>4. ASSUME NEW s \in done.out
      PROVE  /\ d \in Takes(s) => TargetMatches(s.value, d)
             /\ TargetMatches(s.value, d) => \E w \in done.out : d \in Takes(w)
  <2>1. PICK p \in Offered(H) :
          /\ s.value = Wildcard(p) /\ Takes(s) \subseteq Below(H, p)
          /\ Below(H, p) \subseteq done.consumed
    BY <1>1, WildcardItem
  <2>2. TargetMatches(Wildcard(p), d) <=> d \in Below(H, p)
    BY <1>1, WildcardTakes
  <2>3. ASSUME d \in done.consumed PROVE \E w \in done.out : d \in Takes(w)
    <3>1. PICK w \in done.out : d \in w.covered_hosts
      BY <1>1, <2>3 DEF RollInv, WildcardsPartition
    <3>2. QED
      BY <3>1 DEF Takes
  <2>4. QED
    BY <2>1, <2>2, <2>3
<1>5. S = done.out \cup (HostItems(hosts, done, opts) \cup IpItems(ips, opts))
  BY DEF S, Result
<1>6. Covers(S, d) <=> \E s \in S : TargetMatches(s.value, d)
  BY DEF Covers
<1>7. QED
  BY <1>3, <1>4, <1>5, <1>6 DEF S

(* No destination is counted by two suggestions.                             *)
LEMMA TakesDisjoint ==
  ASSUME NEW hosts, NEW ips, NEW opts, NEW done, Finished(hosts, ips, opts, done)
  PROVE  /\ \A s \in Result(hosts, ips, opts, done) : Takes(s) \subseteq DOMAIN hosts \cup DOMAIN ips
         /\ \A s, t \in Result(hosts, ips, opts, done) : s # t => Takes(s) \cap Takes(t) = {}
<1> DEFINE S == Result(hosts, ips, opts, done)
           H == DOMAIN hosts
           I == DOMAIN ips
           X == HostItems(hosts, done, opts)
           Y == IpItems(ips, opts)
<1>1. /\ H \cap I = {} /\ done.consumed \in SUBSET H
      /\ RollInv(hosts, opts.min_hosts, Offered(H), done)
  BY DEF Finished, Tame, RollInv, WildcardsPartition
<1>2. ASSUME NEW s \in X PROVE \E d \in H \ done.consumed : s = HostItem(hosts, d) /\ Takes(s) = {d}
  BY <1>2, ItemTakes DEF HostItems
<1>3. ASSUME NEW s \in Y PROVE \E d \in I : s = IpItem(ips, d) /\ Takes(s) = {d}
  BY <1>3, ItemTakes DEF IpItems
<1>4. ASSUME NEW s \in done.out PROVE Takes(s) = s.covered_hosts /\ Takes(s) \subseteq done.consumed
  BY <1>1, <1>4, WildcardItem
<1>5. \A s, t \in done.out : s # t => s.covered_hosts \cap t.covered_hosts = {}
  BY <1>1 DEF RollInv, WildcardsPartition
<1>6. S = done.out \cup X \cup Y
  BY DEF Result
<1> HIDE DEF S, H, I, X, Y
<1>7. \A s \in S : Takes(s) \subseteq H \cup I
  BY <1>1, <1>2, <1>3, <1>4, <1>6
<1>8. ASSUME NEW s \in S, NEW t \in S, s # t PROVE Takes(s) \cap Takes(t) = {}
  <2>1. CASE s \in done.out /\ t \in done.out
    BY <1>4, <1>5, <1>8, <2>1
  <2>2. CASE s \in X /\ t \in X
    BY <1>2, <1>8, <2>2
  <2>3. CASE s \in Y /\ t \in Y
    BY <1>3, <1>8, <2>3
  <2>4. \A x \in X, y \in Y : Takes(x) \cap Takes(y) = {}
    BY <1>1, <1>2, <1>3
  <2>5. \A w \in done.out, x \in X : Takes(w) \cap Takes(x) = {}
    BY <1>2, <1>4
  <2>6. \A w \in done.out, y \in Y : Takes(w) \cap Takes(y) = {}
    BY <1>1, <1>3, <1>4
  <2>7. QED
    BY <1>6, <1>8, <2>1, <2>2, <2>3, <2>4, <2>5, <2>6
<1>9. QED
  BY <1>7, <1>8 DEF S, H, I

-----------------------------------------------------------------------------
(* The counts.  The rows of R with a destination in D.                      *)
SeenIn(R, D) == {r \in R : Destination(r) \cap D # {}}

Traffic(R, hosts, ips) ==
  /\ IsFiniteSet(R) /\ IsFiniteSet(DOMAIN hosts) /\ IsFiniteSet(DOMAIN ips)
  /\ \A r \in R : /\ AtMostOne(Destination(r)) /\ Destination(r) \subseteq DOMAIN hosts \cup DOMAIN ips
                  /\ r.target.host \subseteq DOMAIN hosts
  /\ \A d \in DOMAIN hosts : hosts[d] = Cardinality(SeenIn(R, {d}))
  /\ \A d \in DOMAIN ips : ips[d] = Cardinality(SeenIn(R, {d}))

LEMMA SeenFinite ==
  ASSUME NEW R, IsFiniteSet(R), NEW D
  PROVE  IsFiniteSet(SeenIn(R, D))
<1>1. SeenIn(R, D) \in SUBSET R
  BY DEF SeenIn
<1>2. QED
  BY <1>1, FS_Subset

(* Destinations apart are in rows apart: a row has one at most.              *)
LEMMA SeenDisjoint ==
  ASSUME NEW R, \A r \in R : AtMostOne(Destination(r)), NEW D, NEW E, D \cap E = {}
  PROVE  SeenIn(R, D) \cap SeenIn(R, E) = {}
<1>1. ASSUME NEW r \in SeenIn(R, D), r \in SeenIn(R, E) PROVE FALSE
  <2>1. PICK d \in D : d \in Destination(r)
    BY DEF SeenIn
  <2>2. PICK e \in E : e \in Destination(r)
    BY <1>1 DEF SeenIn
  <2>3. r \in R
    BY DEF SeenIn
  <2>4. d = e
    BY <2>1, <2>2, <2>3 DEF AtMostOne
  <2>5. QED
    BY <2>4
<1>2. QED
  BY <1>1

(* A suggestion counts the rows it takes.                                   *)
LEMMA EventsAre ==
  ASSUME NEW R, NEW hosts, NEW ips, NEW opts, NEW done,
         Traffic(R, hosts, ips), Finished(hosts, ips, opts, done),
         NEW s \in Result(hosts, ips, opts, done)
  PROVE  s.events = Cardinality(SeenIn(R, Takes(s)))
<1>1. /\ IsFiniteSet(R) /\ IsFiniteSet(DOMAIN hosts)
      /\ \A r \in R : AtMostOne(Destination(r))
      /\ \A d \in DOMAIN hosts : hosts[d] = Cardinality(SeenIn(R, {d}))
      /\ \A d \in DOMAIN ips : ips[d] = Cardinality(SeenIn(R, {d}))
  BY DEF Traffic
<1>2. CASE s \in HostItems(hosts, done, opts)
  <2>1. PICK d \in DOMAIN hosts : s = HostItem(hosts, d)
    BY <1>2 DEF HostItems
  <2>2. s.events = hosts[d]
    BY <2>1, ItemIs
  <2>3. Takes(s) = {d}
    BY <2>1, ItemTakes
  <2>4. QED
    BY <1>1, <2>2, <2>3
<1>3. CASE s \in IpItems(ips, opts)
  <2>1. PICK d \in DOMAIN ips : s = IpItem(ips, d)
    BY <1>3 DEF IpItems
  <2>2. s.events = ips[d]
    BY <2>1, ItemIs
  <2>3. Takes(s) = {d}
    BY <2>1, ItemTakes
  <2>4. QED
    BY <1>1, <2>2, <2>3
<1>4. CASE s \in done.out
  <2>1. PICK p \in Offered(DOMAIN hosts), C \in SUBSET DOMAIN hosts : s = Made(hosts, p, C) /\ C # {}
    <3>1. RollInv(hosts, opts.min_hosts, Offered(DOMAIN hosts), done)
      BY DEF Finished
    <3>2. done.consumed \in SUBSET DOMAIN hosts
      BY <3>1 DEF RollInv, WildcardsPartition
    <3>3. GoodWildcard(s, hosts, opts.min_hosts, Offered(DOMAIN hosts), done.consumed)
      BY <1>4, <3>1 DEF RollInv
    <3>4. PICK p \in Offered(DOMAIN hosts), C \in SUBSET done.consumed : s = Made(hosts, p, C) /\ C # {}
      BY <3>3 DEF GoodWildcard
    <3>5. C \in SUBSET DOMAIN hosts
      BY <3>2
    <3>6. QED
      BY <3>4, <3>5
  <2> DEFINE A == [m \in C |-> SeenIn(R, {m})]
             f == [m \in C |-> hosts[m]]
  <2>2. Takes(s) = C
    <3>1. s.covered_hosts = C
      BY <2>1, MadeCovers
    <3>2. QED
      BY <2>1, <3>1 DEF Takes
  <2>3. s.events = SumOf(f)
    BY <2>1, MadeCounts
  <2>4. f = [m \in C |-> Cardinality(A[m])]
    <3>1. \A m \in C : hosts[m] = Cardinality(A[m])
      BY <1>1
    <3> HIDE DEF A
    <3>2. QED
      BY <3>1
  <2>5. \A m \in C : A[m] = SeenIn(R, {m})
    OBVIOUS
  <2> HIDE DEF A, f
  <2>6. IsFiniteSet(C)
    BY <1>1, FS_Subset
  <2>7. ASSUME NEW m \in C PROVE IsFiniteSet(A[m])
    <3>1. IsFiniteSet(SeenIn(R, {m}))
      BY <1>1, SeenFinite
    <3>2. QED
      BY <2>5, <3>1
  <2>8. \A m, n \in C : m # n => A[m] \cap A[n] = {}
    <3>1. ASSUME NEW m \in C, NEW n \in C, m # n PROVE SeenIn(R, {m}) \cap SeenIn(R, {n}) = {}
      <4>1. {m} \cap {n} = {}
        BY <3>1
      <4>2. QED
        BY <1>1, <4>1, SeenDisjoint
    <3>2. QED
      BY <2>5, <3>1
  <2>9. SumOf(f) = Cardinality(UNION {A[m] : m \in C})
    BY <2>4, <2>6, <2>7, <2>8, SumIsCount
  <2>10. UNION {A[m] : m \in C} = SeenIn(R, C)
    <3>1. \A m \in C : A[m] = {r \in R : Destination(r) \cap {m} # {}}
      BY <2>5 DEF SeenIn
    <3>2. QED
      BY <3>1 DEF SeenIn
  <2>11. QED
    BY <2>2, <2>3, <2>9, <2>10
<1>5. QED
  BY <1>2, <1>3, <1>4 DEF Result

LEMMA ResultFinite ==
  ASSUME NEW R, NEW hosts, NEW ips, NEW opts, NEW done,
         Traffic(R, hosts, ips), Finished(hosts, ips, opts, done)
  PROVE  IsFiniteSet(Result(hosts, ips, opts, done))
<1>1. IsFiniteSet(done.out)
  BY DEF Finished, RollInv, WildcardsPartition
<1>2. IsFiniteSet(HostItems(hosts, done, opts))
  <2> DEFINE D == {x \in DOMAIN hosts \ done.consumed : hosts[x] >= opts.min_events}
             item == [d \in D |-> HostItem(hosts, d)]
             T == {HostItem(hosts, d) : d \in D}
  <2>1. item \in Surjection(D, T)
    BY DEF Surjection
  <2>2. D \in SUBSET DOMAIN hosts /\ IsFiniteSet(DOMAIN hosts)
    BY DEF Traffic
  <2>3. T = HostItems(hosts, done, opts)
    BY DEF HostItems
  <2> HIDE DEF D, item, T
  <2>4. IsFiniteSet(D)
    BY <2>2, FS_Subset
  <2>5. QED
    BY <2>1, <2>3, <2>4, FS_Surjection
<1>3. IsFiniteSet(IpItems(ips, opts))
  <2> DEFINE D == {x \in DOMAIN ips : ips[x] >= opts.min_events}
             item == [d \in D |-> IpItem(ips, d)]
             T == {IpItem(ips, d) : d \in D}
  <2>1. item \in Surjection(D, T)
    BY DEF Surjection
  <2>2. D \in SUBSET DOMAIN ips /\ IsFiniteSet(DOMAIN ips)
    BY DEF Traffic
  <2>3. T = IpItems(ips, opts) \/ IpItems(ips, opts) = {}
    BY DEF IpItems
  <2> HIDE DEF D, item, T
  <2>4. IsFiniteSet(D)
    BY <2>2, FS_Subset
  <2>5. IsFiniteSet(T)
    BY <2>1, <2>4, FS_Surjection
  <2>6. QED
    BY <2>3, <2>5, FS_EmptySet
<1>4. QED
  BY <1>1, <1>2, <1>3, FS_Union DEF Result

(* The first half of SuggestionsExact, for such counts.                      *)
LEMMA ExactHolds ==
  ASSUME NEW R, NEW hosts, NEW ips, NEW opts, NEW done,
         Traffic(R, hosts, ips), Finished(hosts, ips, opts, done)
  PROVE  Exact(Result(hosts, ips, opts, done), R, opts)
<1> DEFINE S == Result(hosts, ips, opts, done)
           H == DOMAIN hosts
           I == DOMAIN ips
<1>1. /\ H \cap I = {} /\ IsFiniteSet(R)
      /\ \A r \in R : AtMostOne(Destination(r)) /\ Destination(r) \subseteq H \cup I /\ r.target.host \subseteq H
      /\ \A d \in H : hosts[d] = Cardinality(SeenIn(R, {d}))
      /\ \A d \in I : ips[d] = Cardinality(SeenIn(R, {d}))
      /\ \A h \in done.consumed : \E w \in done.out : h \in w.covered_hosts
  BY DEF Traffic, Finished, Tame, RollInv, WildcardsPartition
<1>2. S = done.out \cup HostItems(hosts, done, opts) \cup IpItems(ips, opts)
  BY DEF Result
<1>3. \A d \in H \cup I : Covers(S, d) <=> \E s \in S : d \in Takes(s)
  BY CoversIs
<1>4. \A s, t \in S : s # t => Takes(s) \cap Takes(t) = {}
  BY TakesDisjoint
<1>5. \A s \in S : s.events = Cardinality(SeenIn(R, Takes(s)))
  BY EventsAre
<1>6. IsFiniteSet(S)
  BY ResultFinite
<1> HIDE DEF S
<1>7. ASSUME NEW d \in UNION {Destination(r) : r \in R},
             Count({r \in R : d \in Destination(r)}) >= opts.min_events,
             d \in UNION {r.target.host : r \in R} \/ opts.include_ips
      PROVE  Covers(S, d)
  <2>1. d \in H \cup I
    BY <1>1
  <2>2. {r \in R : d \in Destination(r)} = SeenIn(R, {d})
    BY DEF SeenIn
  <2>3. Cardinality(SeenIn(R, {d})) >= opts.min_events
    BY <1>7, <2>2 DEF Count
  <2>4. CASE d \in done.consumed
    <3>1. PICK w \in done.out : d \in w.covered_hosts
      BY <1>1, <2>4
    <3>2. w \in S /\ d \in Takes(w)
      BY <1>2, <3>1 DEF Takes
    <3>3. QED
      BY <1>3, <2>1, <3>2
  <2>5. CASE d \in H \ done.consumed
    <3>1. HostItem(hosts, d) \in HostItems(hosts, done, opts)
      BY <1>1, <2>3, <2>5 DEF HostItems
    <3>2. Takes(HostItem(hosts, d)) = {d}
      BY ItemTakes
    <3>3. QED
      BY <1>2, <1>3, <2>1, <3>1, <3>2
  <2>6. CASE d \notin H
    <3>1. d \in I /\ opts.include_ips
      BY <1>1, <1>7, <2>1, <2>6
    <3>2. ips[d] >= opts.min_events
      BY <1>1, <2>3, <3>1
    <3>3. IpItem(ips, d) \in IpItems(ips, opts)
      BY <3>1, <3>2 DEF IpItems
    <3>4. Takes(IpItem(ips, d)) = {d}
      BY ItemTakes
    <3>5. QED
      BY <1>2, <1>3, <2>1, <3>3, <3>4
  <2>7. QED
    BY <2>4, <2>5, <2>6
<1>8. SumOf([s \in S |-> s.events]) = Count({r \in R : \E d \in Destination(r) : Covers(S, d)})
  <2> DEFINE A == [s \in S |-> SeenIn(R, Takes(s))]
             f == [s \in S |-> s.events]
  <2>1. \A s \in S : A[s] = SeenIn(R, Takes(s))
    OBVIOUS
  <2>2. f = [s \in S |-> Cardinality(A[s])]
    <3> HIDE DEF A
    <3>1. \A s \in S : s.events = Cardinality(A[s])
      BY <1>5, <2>1
    <3>2. QED
      BY <3>1
  <2> HIDE DEF A, f
  <2>3. \A s \in S : IsFiniteSet(A[s])
    BY <1>1, <2>1, SeenFinite
  <2>4. \A s, t \in S : s # t => A[s] \cap A[t] = {}
    <3>1. ASSUME NEW s \in S, NEW t \in S, s # t PROVE SeenIn(R, Takes(s)) \cap SeenIn(R, Takes(t)) = {}
      <4>1. Takes(s) \cap Takes(t) = {}
        BY <1>4, <3>1
      <4>2. QED
        BY <1>1, <4>1, SeenDisjoint
    <3>2. QED
      BY <2>1, <3>1
  <2>5. SumOf(f) = Cardinality(UNION {A[s] : s \in S})
    BY <1>6, <2>2, <2>3, <2>4, SumIsCount
  <2>6. UNION {A[s] : s \in S} = {r \in R : \E d \in Destination(r) : Covers(S, d)}
    <3>1. ASSUME NEW s \in S, NEW r \in A[s] PROVE r \in R /\ \E d \in Destination(r) : Covers(S, d)
      <4>1. r \in R /\ Destination(r) \cap Takes(s) # {}
        BY <2>1, <3>1 DEF SeenIn
      <4>2. PICK d \in Destination(r) : d \in Takes(s)
        BY <4>1
      <4>3. d \in H \cup I
        BY <1>1, <4>1
      <4>4. QED
        BY <1>3, <4>1, <4>2, <4>3
    <3>2. ASSUME NEW r \in R, NEW d \in Destination(r), Covers(S, d)
          PROVE  \E s \in S : r \in A[s]
      <4>1. d \in H \cup I
        BY <1>1
      <4>2. PICK s \in S : d \in Takes(s)
        BY <1>3, <3>2, <4>1
      <4>3. r \in SeenIn(R, Takes(s))
        BY <4>2 DEF SeenIn
      <4>4. QED
        BY <2>1, <4>3
    <3>3. QED
      BY <3>1, <3>2
  <2>7. QED
    BY <2>5, <2>6 DEF f, Count
<1>9. QED
  BY <1>7, <1>8 DEF Exact, S

(* A name below a domain ends as the domain does.                            *)
LEMMA FirmBelow ==
  ASSUME NEW d \in Text, NEW p, Firm(p), Under(p, d)
  PROVE  Firm(d)
<1>1. /\ p \in Text /\ Len(p) \in Nat /\ Len(d) \in Nat /\ Len(p) < Len(d)
      /\ \A i \in 1 .. Len(p) : p[i] = d[(Len(d) - Len(p)) + i]
  BY UnderIs, DotsAre
<1>2. Len(p) # 0 /\ p[Len(p)] # Dot
  BY DEF Firm
<1>3. Len(p) \in 1 .. Len(p) /\ (Len(d) - Len(p)) + Len(p) = Len(d) /\ Len(d) # 0
  BY <1>1, <1>2
<1>4. d[Len(d)] # Dot
  BY <1>1, <1>2, <1>3
<1>5. QED
  BY <1>3, <1>4 DEF Firm

LEMMA MadeKind == ASSUME NEW events, NEW p, NEW C PROVE Made(events, p, C).kind = "Wildcard"
BY DEF Made, Suggestion

(* No wildcard is wider than it has to be.                                  *)
LEMMA NarrowHolds ==
  ASSUME NEW hosts, NEW ips, NEW opts, NEW done, Finished(hosts, ips, opts, done),
         Hosts \subseteq Text, NEW given, opts.min_hosts = Max({2, given.min_hosts})
  PROVE  Narrow(Result(hosts, ips, opts, done), given)
<1> DEFINE S == Result(hosts, ips, opts, done)
           H == DOMAIN hosts
           min == opts.min_hosts
<1>1. /\ Tame(H, DOMAIN ips) /\ RollInv(hosts, min, Offered(H), done)
      /\ \A h \in H : Firm(h) /\ h \in Text
  BY DEF Finished, Tame, Firm
<1>2. ASSUME NEW s \in S, s.kind = "Wildcard"
      PROVE  GoodWildcard(s, hosts, min, Offered(H), done.consumed)
  <2>1. s \notin HostItems(hosts, done, opts)
    BY <1>2, ItemIs DEF HostItems
  <2>2. s \notin IpItems(ips, opts)
    BY <1>2, ItemIs DEF IpItems
  <2>3. s \in done.out
    BY <2>1, <2>2 DEF Result
  <2>4. QED
    BY <1>1, <2>3 DEF RollInv
<1> HIDE DEF S
<1>3. ASSUME NEW s \in S, s.kind = "Wildcard"
      PROVE  /\ \A h \in Hosts, c \in s.covered_hosts : TargetMatches(s.value, h) => SiteOf(h) = SiteOf(c)
             /\ \A parent \in UNION {WildcardParents(h) : h \in s.covered_hosts} :
                  <<Star, ".">> \o parent # s.value =>
                    LET under == {h \in s.covered_hosts : parent \in WildcardParents(h)}
                    IN under = s.covered_hosts \/ Count(under) < Max({2, given.min_hosts})
  <2>1. GoodWildcard(s, hosts, min, Offered(H), done.consumed)
    BY <1>2, <1>3
  <2>2. PICK p \in Offered(H), C \in SUBSET done.consumed :
          /\ s = Made(hosts, p, C) /\ C \subseteq Below(H, p)
          /\ \A q \in Offered(H) : Depth(p) < Depth(q) => Cardinality(C \cap Below(H, q)) < min
    BY <2>1 DEF GoodWildcard
  <2>3. s.covered_hosts = C /\ s.value = Wildcard(p)
    BY <2>2, MadeCovers, MadeValue
  <2>4. Unglobbed(p) /\ Firm(p) /\ Dots(p) # {} /\ ~ IsRegistry(p) /\ ParseCidr(Wildcard(p)) = {}
    BY <1>1, OfferedIs
  <2>5. ASSUME NEW c \in C
        PROVE  /\ c \in H /\ Firm(c) /\ c \in Text /\ ParseIpv4(c) = {} /\ Under(p, c)
               /\ SiteOf(c) = SiteOf(p)
    <3>1. c \in H /\ p \in WildcardParents(c)
      BY <2>2 DEF Below
    <3>2. Firm(c) /\ c \in Text
      BY <1>1, <3>1
    <3>3. ParseIpv4(c) = {} /\ Under(p, c)
      BY <3>1, <3>2, ParentsAre
    <3>4. SiteOf(c) = SiteOf(p)
      BY <2>4, <3>2, <3>3, SameSite
    <3>5. QED
      BY <3>1, <3>2, <3>3, <3>4
  <2>6. ASSUME NEW h \in Hosts, NEW c \in C, TargetMatches(Wildcard(p), h)
        PROVE  SiteOf(h) = SiteOf(c)
    <3>1. h \in Text
      OBVIOUS
    <3>2. Under(p, h)
      BY <2>4, <2>6, <3>1, WildcardMatches
    <3>3. Firm(h)
      BY <2>4, <3>1, <3>2, FirmBelow
    <3>4. SiteOf(h) = SiteOf(p)
      BY <2>4, <3>2, <3>3, SameSite
    <3>5. QED
      BY <2>5, <3>4
  <2>7. ASSUME NEW parent \in UNION {WildcardParents(h) : h \in C}, Wildcard(parent) # Wildcard(p)
        PROVE  LET under == {h \in C : parent \in WildcardParents(h)}
               IN under = C \/ Cardinality(under) < min
    <3> DEFINE under == {h \in C : parent \in WildcardParents(h)}
    <3>1. PICK h \in C : parent \in WildcardParents(h)
      OBVIOUS
    <3>2. Firm(h) /\ h \in Text /\ Under(p, h) /\ h \in H
      BY <2>5
    <3>3. Under(parent, h) /\ Dots(parent) # {} /\ ~ IsRegistry(parent)
      BY <3>1, <3>2, ParentsAre
    <3>4. p \in Text /\ parent \in Text /\ Len(p) \in Nat /\ Len(parent) \in Nat
      BY <3>2, <3>3, UnderIs, DotsAre
    <3>5. CASE Len(parent) < Len(p)
      <4>1. Under(parent, p)
        BY <3>2, <3>3, <3>5, Nested
      <4>2. ASSUME NEW c \in C PROVE parent \in WildcardParents(c)
        <5>1. Firm(c) /\ c \in Text /\ ParseIpv4(c) = {} /\ Under(p, c)
          BY <2>5
        <5>2. Under(parent, c)
          BY <4>1, <5>1, UnderTwice
        <5>3. QED
          BY <3>3, <5>1, <5>2, ParentsAre
      <4>3. QED
        BY <4>2
    <3>6. CASE Len(parent) = Len(p)
      <4>1. parent = p
        BY <3>2, <3>3, <3>6, Nested
      <4>2. QED
        BY <2>7, <4>1
    <3>7. CASE Len(p) < Len(parent)
      <4>1. Under(p, parent)
        BY <3>2, <3>3, <3>7, Nested
      <4>2. Depth(p) < Depth(parent)
        BY <3>4, <4>1, FewerDots DEF Depth
      <4>3. parent \in Offered(H)
        BY <3>1, <3>2 DEF Offered
      <4>4. Cardinality(C \cap Below(H, parent)) < min
        BY <2>2, <4>2, <4>3
      <4>5. C \cap Below(H, parent) = under
        BY <2>5 DEF Below
      <4>6. QED
        BY <4>4, <4>5
    <3>8. QED
      BY <3>4, <3>5, <3>6, <3>7
  <2>8. \A h \in Hosts, c \in s.covered_hosts : TargetMatches(s.value, h) => SiteOf(h) = SiteOf(c)
    BY <2>3, <2>6
  <2>9. ASSUME NEW parent \in UNION {WildcardParents(h) : h \in s.covered_hosts},
               <<Star, ".">> \o parent # s.value
        PROVE  LET under == {h \in s.covered_hosts : parent \in WildcardParents(h)}
               IN under = s.covered_hosts \/ Count(under) < Max({2, given.min_hosts})
    <3>1. Wildcard(parent) # Wildcard(p)
      BY <2>3, <2>9 DEF Wildcard
    <3>2. parent \in UNION {WildcardParents(h) : h \in C}
      BY <2>3
    <3>3. QED
      BY <2>3, <2>7, <3>1, <3>2 DEF Count
  <2>10. QED
    BY <2>8, <2>9
<1>4. QED
  BY <1>3 DEF Narrow, S

-----------------------------------------------------------------------------
(* The rows of a process, and the two counts of SuggestTargets.             *)

DestinationOf(some) == [r \in some |-> CHOOSE d \in Destination(r) : TRUE]
Named(some) == UNION {Destination(r) : r \in some}

(* Grouping rows by their destination counts the rows of each.               *)
LEMMA CountsAre ==
  ASSUME NEW some, IsFiniteSet(some),
         \A r \in some : AtMostOne(Destination(r)) /\ Destination(r) # {}
  PROVE  LET G == GroupBy(some, DestinationOf(some))
         IN /\ DOMAIN G = Named(some) /\ IsFiniteSet(DOMAIN G)
            /\ \A d \in DOMAIN G : G[d] = Cardinality(SeenIn(some, {d}))
<1> DEFINE column == DestinationOf(some)
           G == GroupBy(some, column)
           T == {column[r] : r \in some}
<1>1. ASSUME NEW r \in some PROVE column[r] \in Destination(r) /\ Destination(r) = {column[r]}
  <2>1. AtMostOne(Destination(r)) /\ Destination(r) # {}
    OBVIOUS
  <2>2. column[r] = CHOOSE d \in Destination(r) : TRUE
    BY DEF DestinationOf
  <2>3. QED
    BY <2>1, <2>2, OnlyOne
<1>2. column \in Surjection(some, T)
  BY DEF Surjection, DestinationOf
<1>3. G = [v \in T |-> Count({r \in some : column[r] = v})]
  BY DEF GroupBy
<1> HIDE DEF column
<1>4. DOMAIN G = T
  BY <1>3
<1>5. T = Named(some)
  BY <1>1 DEF Named
<1>6. ASSUME NEW d \in T PROVE G[d] = Cardinality(SeenIn(some, {d}))
  <2>1. G[d] = Count({r \in some : column[r] = d})
    BY <1>3
  <2>2. {r \in some : column[r] = d} = SeenIn(some, {d})
    BY <1>1 DEF SeenIn
  <2>3. QED
    BY <2>1, <2>2 DEF Count
<1> HIDE DEF G, T
<1>7. IsFiniteSet(T)
  BY <1>2, FS_Surjection
<1>8. QED
  BY <1>4, <1>5, <1>6, <1>7 DEF G, column

(* The rows R of a process, those with a host and those with an address.    *)
Telling(R, named) == {r \in {q \in R : Destination(q) # {}} : (r.target.host # {}) = named}
CountOf(R, named) == GroupBy(Telling(R, named), DestinationOf(Telling(R, named)))

RowsPlain(R, H, I) ==
  /\ IsFiniteSet(R) /\ H \cap I = {}
  /\ \A r \in R : /\ AtMostOne(Destination(r))
                  /\ r.target.host # {} => Destination(r) = r.target.host /\ Destination(r) \subseteq H
                  /\ r.target.host = {} => Destination(r) \subseteq I

(* Such a count has, for each destination, the rows it is in.                *)
LEMMA CountOfIs ==
  ASSUME NEW R, NEW H, NEW I, RowsPlain(R, H, I), NEW named \in BOOLEAN
  PROVE  LET G == CountOf(R, named)
         IN /\ DOMAIN G = Named(Telling(R, named)) /\ IsFiniteSet(DOMAIN G)
            /\ DOMAIN G \subseteq (IF named THEN H ELSE I)
            /\ \A d \in DOMAIN G : G[d] = Cardinality(SeenIn(R, {d}))
<1> DEFINE some == Telling(R, named)
           G == CountOf(R, named)
           K == IF named THEN H ELSE I
<1>1. /\ IsFiniteSet(R) /\ H \cap I = {}
      /\ \A r \in R : /\ AtMostOne(Destination(r))
                      /\ r.target.host # {} => Destination(r) \subseteq H
                      /\ r.target.host = {} => Destination(r) \subseteq I
  BY DEF RowsPlain
<1>2. some \in SUBSET R /\ \A r \in R : r \in some <=> Destination(r) # {} /\ (r.target.host # {} <=> named)
  BY DEF Telling
<1>3. G = GroupBy(some, DestinationOf(some))
  BY DEF CountOf
<1> HIDE DEF some, G
<1>4. IsFiniteSet(some) /\ \A r \in some : AtMostOne(Destination(r)) /\ Destination(r) # {}
  BY <1>1, <1>2, FS_Subset
<1>5. /\ DOMAIN G = Named(some) /\ IsFiniteSet(DOMAIN G)
      /\ \A d \in DOMAIN G : G[d] = Cardinality(SeenIn(some, {d}))
  BY <1>3, <1>4, CountsAre
<1>6. ASSUME NEW r \in some PROVE r \in R /\ Destination(r) \subseteq K
  BY <1>1, <1>2
<1>7. DOMAIN G \subseteq K
  <2> HIDE DEF K
  <2>1. QED
    BY <1>5, <1>6 DEF Named
<1>8. ASSUME NEW d \in DOMAIN G PROVE SeenIn(some, {d}) = SeenIn(R, {d})
  <2>1. ASSUME NEW r \in R, d \in Destination(r) PROVE r \in some
    <3>1. d \in K /\ Destination(r) # {}
      BY <1>7, <2>1
    <3>2. r.target.host # {} <=> named
      BY <1>1, <2>1, <3>1
    <3>3. QED
      BY <1>2, <3>1, <3>2
  <2>2. QED
    BY <1>2, <2>1 DEF SeenIn
<1>9. QED
  BY <1>5, <1>7, <1>8 DEF some, G

LEMMA CountsTraffic ==
  ASSUME NEW R, NEW H, NEW I, RowsPlain(R, H, I)
  PROVE  Traffic(R, CountOf(R, TRUE), CountOf(R, FALSE))
<1> DEFINE hosts == CountOf(R, TRUE)
           ips == CountOf(R, FALSE)
<1>1. /\ IsFiniteSet(R)
      /\ \A r \in R : AtMostOne(Destination(r)) /\ (r.target.host # {} => Destination(r) = r.target.host)
  BY DEF RowsPlain
<1>2. /\ DOMAIN hosts = Named(Telling(R, TRUE)) /\ IsFiniteSet(DOMAIN hosts)
      /\ \A d \in DOMAIN hosts : hosts[d] = Cardinality(SeenIn(R, {d}))
  BY CountOfIs
<1>3. /\ DOMAIN ips = Named(Telling(R, FALSE)) /\ IsFiniteSet(DOMAIN ips)
      /\ \A d \in DOMAIN ips : ips[d] = Cardinality(SeenIn(R, {d}))
  BY CountOfIs
<1> HIDE DEF hosts, ips
<1>4. ASSUME NEW r \in R
      PROVE  Destination(r) \subseteq DOMAIN hosts \cup DOMAIN ips /\ r.target.host \subseteq DOMAIN hosts
  <2>1. CASE Destination(r) = {}
    BY <1>1, <2>1
  <2>2. CASE Destination(r) # {} /\ r.target.host # {}
    <3>1. r \in Telling(R, TRUE)
      BY <2>2 DEF Telling
    <3>2. QED
      BY <1>1, <1>2, <2>2, <3>1 DEF Named
  <2>3. CASE Destination(r) # {} /\ r.target.host = {}
    <3>1. r \in Telling(R, FALSE)
      BY <2>3 DEF Telling
    <3>2. QED
      BY <1>3, <2>3, <3>1 DEF Named
  <2>4. QED
    BY <2>1, <2>2, <2>3
<1>5. QED
  BY <1>1, <1>2, <1>3, <1>4 DEF Traffic, hosts, ips

-----------------------------------------------------------------------------
(* What a plain log tells.                                                  *)

ConnectionsOf(l) == {e \in ToSet(l) : e.kind = "connection"}
HostsOf(l)       == UNION {e.target.host : e \in ConnectionsOf(l)}
AddressesOf(l)   == UNION {Destination(e) : e \in {c \in ConnectionsOf(l) : c.target.host = {}}}

(* A connection of a legible log.                                            *)
LEMMA ConnectionIs ==
  ASSUME LogsLegible, NEW l \in Logs, NEW e \in ConnectionsOf(l)
  PROVE  /\ e \in ConnectionType /\ LegibleTarget(e.target)
         /\ e.target.host \subseteq Text /\ e.target.ip \subseteq Text /\ "target" \in DOMAIN e
<1>1. PICK i \in DOMAIN l : e = l[i]
  BY DEF ConnectionsOf, ToSet
<1>2. l \in Seq(Entry) /\ Legible(l[i])
  BY LogTableAssumption DEF LogsLegible
<1>3. e \in Entry /\ e.kind = "connection"
  BY <1>1, <1>2 DEF ConnectionsOf
<1>4. e \in ConnectionType
  <2>1. e \notin OtherType /\ e \notin NameType
    BY <1>3 DEF OtherType, NameType, NameKinds
  <2>2. QED
    BY <1>3, <2>1, EntryIsOne DEF EntryIs
<1>5. LegibleTarget(e.target)
  BY <1>1, <1>2, <1>3 DEF Legible
<1>6. e.target \in TargetType /\ "target" \in DOMAIN e
  BY <1>4 DEF ConnectionType
<1>7. QED
  BY <1>4, <1>5, <1>6 DEF TargetType

LEMMA HostIs ==
  ASSUME LogsLegible, NEW l \in Logs, NEW h \in HostsOf(l)
  PROVE  h \in Text /\ h # NoText
<1>1. PICK e \in ConnectionsOf(l) : h \in e.target.host
  BY DEF HostsOf
<1>2. e.target.host \subseteq Text /\ LegibleTarget(e.target)
  BY ConnectionIs
<1>3. QED
  BY <1>1, <1>2 DEF LegibleTarget

LEMMA AddressIs ==
  ASSUME LogsLegible, NEW l \in Logs, NEW d \in AddressesOf(l)
  PROVE  d \in Text
<1>1. PICK e \in ConnectionsOf(l) : d \in Destination(e) /\ e.target.host = {}
  BY DEF AddressesOf
<1>2. e.target.ip \subseteq Text
  BY ConnectionIs
<1>3. QED
  BY <1>1, <1>2 DEF Destination

(* The hosts and the addresses of some of its rows are then Tame.           *)
LEMMA PlainIsTame ==
  ASSUME LogsLegible, DestinationsPlain, NEW l \in Logs,
         NEW H \in SUBSET HostsOf(l), NEW I \in SUBSET AddressesOf(l)
  PROVE  Tame(H, I)
<1>1. /\ HostsOf(l) \cap AddressesOf(l) = {}
      /\ \A d \in HostsOf(l) \cup AddressesOf(l) : Free(d, {Star, Query}) /\ ParseCidr(d) = {}
      /\ \A h \in HostsOf(l) : Last(h) # "."
      /\ \A p \in Offered(HostsOf(l)) :
           /\ ParseCidr(Wildcard(p)) = {}
           /\ \A d \in AddressesOf(l) \cup {h \in HostsOf(l) : ParseIpv4(h) # {}} : ~ TargetMatches(Wildcard(p), d)
  BY DEF DestinationsPlain, HostsOf, AddressesOf, ConnectionsOf, Offered, Wildcard
<1>2. ASSUME NEW d \in H \cup I PROVE Unglobbed(d) /\ ParseCidr(d) = {}
  <2>1. d \in HostsOf(l) \cup AddressesOf(l)
    OBVIOUS
  <2>2. d \in Text
    BY <2>1, HostIs, AddressIs
  <2>3. QED
    BY <1>1, <2>1, <2>2 DEF Unglobbed
<1>3. ASSUME NEW h \in H PROVE Firm(h)
  <2>1. h \in HostsOf(l)
    OBVIOUS
  <2>2. h \in Text /\ h # NoText /\ Last(h) # "."
    BY <1>1, <2>1, HostIs
  <2>3. Len(h) # 0
    BY <2>2, EmptySeq DEF Text, NoText
  <2>4. QED
    BY <2>2, <2>3 DEF Firm, Last, Dot
<1>4. Offered(H) \subseteq Offered(HostsOf(l))
  BY DEF Offered
<1>5. QED
  BY <1>1, <1>2, <1>3, <1>4 DEF Tame

(* A row has the target of a connection of the log.                          *)
LEMMA RowIs ==
  ASSUME LogsLegible, TypeOK, NEW r \in store
  PROVE  \E e \in ConnectionsOf(log) : r.target = e.target
<1>1. log \in Logs /\ log \in Seq(Entry) /\ \A i \in DOMAIN log : Legible(log[i])
  BY LogTableAssumption DEF TypeOK, LogsLegible
<1>2. {"connection"} \in SUBSET EventKinds
  BY DEF EventKinds
<1>3. RowsOf(Lines(log), {"connection"}) = Said(log, {"connection"})
  BY <1>1, <1>2, RowsAreSaid
<1>4. r \in Said(log, {"connection"})
  BY <1>3 DEF TypeOK, EventRows
<1> DEFINE at == {i \in DOMAIN log : log[i].kind \in {"connection"}}
           f(i) == [id |-> Rank(at, i), raw_offset |-> i]
<1>5. PICK i \in at : r = Extended(f(i), log[i])
  BY <1>4 DEF Said
<1>6. log[i] \in ConnectionsOf(log)
  BY <1>5 DEF ConnectionsOf, ToSet
<1>7. "target" \in DOMAIN log[i]
  BY <1>1, <1>6, ConnectionIs
<1>8. DOMAIN f(i) = {"id", "raw_offset"}
  OBVIOUS
<1> HIDE DEF f
<1>9. r = [x \in DOMAIN f(i) \cup DOMAIN log[i] |-> IF x \in DOMAIN f(i) THEN f(i)[x] ELSE log[i][x]]
  BY <1>5 DEF Extended
<1>10. r.target = log[i].target
  BY <1>7, <1>8, <1>9
<1>11. QED
  BY <1>6, <1>10

(* So the rows of the table are as RowsPlain asks.                           *)
LEMMA StorePlain ==
  ASSUME LogsLegible, DestinationsPlain, TypeOK, NEW R \in SUBSET store
  PROVE  RowsPlain(R, HostsOf(log), AddressesOf(log))
<1>1. log \in Logs
  BY DEF TypeOK
<1>2. IsFiniteSet(R)
  BY StoreListable, FS_Subset DEF Listable
<1>3. HostsOf(log) \cap AddressesOf(log) = {}
  BY <1>1 DEF DestinationsPlain, HostsOf, AddressesOf, ConnectionsOf
<1>4. ASSUME NEW r \in R
      PROVE  /\ AtMostOne(Destination(r))
             /\ r.target.host # {} => Destination(r) = r.target.host /\ Destination(r) \subseteq HostsOf(log)
             /\ r.target.host = {} => Destination(r) \subseteq AddressesOf(log)
  <2>1. PICK e \in ConnectionsOf(log) : r.target = e.target
    BY RowIs
  <2>2. LegibleTarget(e.target)
    BY <1>1, ConnectionIs
  <2>3. Destination(r) = Destination(e)
    BY <2>1 DEF Destination
  <2>4. AtMostOne(e.target.host) /\ AtMostOne(e.target.ip)
    BY <2>2 DEF LegibleTarget
  <2>5. AtMostOne(Destination(e))
    BY <2>4 DEF Destination, AtMostOne
  <2>6. e.target.host # {} => Destination(e) = e.target.host /\ e.target.host \subseteq HostsOf(log)
    BY DEF Destination, HostsOf
  <2>7. e.target.host = {} => Destination(e) \subseteq AddressesOf(log)
    BY DEF AddressesOf
  <2>8. QED
    BY <2>1, <2>3, <2>5, <2>6, <2>7
<1>5. QED
  BY <1>2, <1>3, <1>4 DEF RowsPlain

-----------------------------------------------------------------------------
(* The suggestions.                                                         *)

LEMMA AtLeastTwo == ASSUME NEW m \in Nat PROVE Max({m, 2}) \in Nat \ {0} /\ Max({m, 2}) = Max({2, m})
<1>1. {m, 2} = {2, m}
  OBVIOUS
<1>2. CASE m <= 2
  BY <1>1, <1>2 DEF Max
<1>3. CASE 2 <= m
  BY <1>1, <1>3 DEF Max
<1>4. QED
  BY <1>2, <1>3

(* SuggestionsExact of one process, for one setting.                         *)
LEMMA SuggestionsAre ==
  ASSUME LogsLegible, DestinationsPlain, TypeOK, NEW opts \in Options, NEW process,
         NEW R, R = {r \in store : r.process.name = process},
         NEW S, S = SuggestTargets(store, process, opts)
  PROVE  Exact(S, R, opts) /\ Narrow(S, opts)
<1> DEFINE H == HostsOf(log)
           I == AddressesOf(log)
           hosts == CountOf(R, TRUE)
           ips == CountOf(R, FALSE)
           given == [opts EXCEPT !.min_hosts = Max({@, 2})]
           done == RolledOf(hosts, given.min_hosts)
<1>1. R \in SUBSET store /\ log \in Logs /\ Hosts \subseteq Text
  BY DEF TypeOK, DestinationsPlain
<1>2. RowsPlain(R, H, I)
  BY <1>1, StorePlain
<1>3. /\ given.min_hosts = Max({opts.min_hosts, 2}) /\ given.min_events = opts.min_events
      /\ given.include_ips = opts.include_ips /\ opts.min_hosts \in Nat
  BY LogTableAssumption
<1>4. S = Build(hosts, ips, given)
  <2>1. {q \in R : Destination(q) # {}} = {r \in store : r.process.name = process /\ Destination(r) # {}}
    OBVIOUS
  <2>2. QED
    BY <2>1 DEF SuggestTargets, CountOf, Telling, DestinationOf
<1> HIDE DEF H, I, given
<1>5. DOMAIN hosts \in SUBSET H /\ IsFiniteSet(DOMAIN hosts)
  BY <1>2, CountOfIs
<1>6. DOMAIN ips \in SUBSET I
  BY <1>2, CountOfIs
<1>7. Traffic(R, hosts, ips)
  BY <1>2, CountsTraffic
<1> HIDE DEF hosts, ips
<1>8. Tame(DOMAIN hosts, DOMAIN ips)
  BY <1>1, <1>5, <1>6, PlainIsTame DEF H, I
<1>9. given.min_hosts \in Nat \ {0} /\ given.min_hosts = Max({2, opts.min_hosts})
  BY <1>3, AtLeastTwo
<1>10. \A h \in DOMAIN hosts : Firm(h)
  BY <1>8 DEF Tame
<1>11. RollInv(hosts, given.min_hosts, Offered(DOMAIN hosts), done)
  BY <1>5, <1>9, <1>10, Rolled
<1>12. Finished(hosts, ips, given, done)
  BY <1>8, <1>11 DEF Finished
<1>13. S = Result(hosts, ips, given, done)
  BY <1>4, BuildIs
<1> HIDE DEF done
<1>14. Exact(S, R, given)
  BY <1>7, <1>12, <1>13, ExactHolds
<1>15. Exact(S, R, opts)
  BY <1>3, <1>14 DEF Exact
<1>16. Narrow(S, opts)
  BY <1>1, <1>9, <1>12, <1>13, NarrowHolds
<1>17. QED
  BY <1>15, <1>16

(* For every plain log and every setting, the targets that are suggested for *)
(* the rule of a process match each destination seen often enough, count     *)
(* just the connections that they match, and hold no wildcard wider than it  *)
(* has to be (SuggestionsExact).                                             *)
THEOREM SuggestionsAreExact == ASSUME LogsLegible, DestinationsPlain PROVE Spec => []SuggestionsExact
<1>1. TypeOK => SuggestionsExact
  BY SuggestionsAre DEF SuggestionsExact
<1>2. QED
  BY <1>1, TableTypeCorrect, PTL
=============================================================================
