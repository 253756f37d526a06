----------------------------- MODULE ListLemmas -----------------------------
(***************************************************************************)
(* Lemmas about the operators on lists and queues from which the modules   *)
(* are built: what stays, what goes, and that nothing comes twice; and     *)
(* about functions that are defined round by round.                        *)
(***************************************************************************)
EXTENDS Integers, SequencesExt, SequenceTheorems, FiniteSetTheorems,
        WellFoundedInduction, TLAPS

Distinct(s) == \A i, j \in DOMAIN s : s[i] = s[j] => i = j

LEMMA NatMinimum ==
  ASSUME NEW T, T \subseteq Nat, T # {}
  PROVE  Min(T) \in T /\ \A y \in T : Min(T) <= y
<1>1. PICK x \in T : \A y \in T : <<y, x>> \notin OpToRel(<, Nat)
  BY WFMin, NatLessThanWellFounded, Zenon
<1>2. \A y \in T : ~(y < x)
  BY <1>1, Zenon DEF OpToRel
<1>3. \A y \in T : x <= y
  BY <1>2
<1>4. QED BY <1>3, Zenon DEF Min

\* What every round keeps holds after each of them.
LEMMA LoopStays ==
  ASSUME NEW N \in Nat, NEW S, NEW f, f[0] \in S[0],
         \A n \in 1..N : f[n - 1] \in S[n - 1] => f[n] \in S[n]
  PROVE  \A n \in 0..N : f[n] \in S[n]
<1> DEFINE T == {n \in 0..N : f[n] \notin S[n]}
<1>1. SUFFICES ASSUME T # {} PROVE FALSE
  OBVIOUS
<1>2. T \subseteq Nat /\ T # {}
  BY <1>1
<1>3. PICK m \in T : \A y \in T : m <= y
  <2> HIDE DEF T
  <2> QED BY <1>2, NatMinimum
<1>4. m \in 1..N /\ m - 1 \notin T
  BY <1>3
<1> QED
  BY <1>3, <1>4

\* A loop of N rounds that begins with x, of which round n makes of y, one of
\* S[n - 1], G[n][y], one of S[n]; and its values.
Loop(N, U, S, x, G) ==
  /\ N \in Nat /\ S \in [0..N -> SUBSET U] /\ x \in S[0]
  /\ \A n \in 1..N : \A y \in S[n - 1] : G[n][y] \in S[n]
LoopRun(f, N, U, S, x, G) ==
  /\ f \in [0..N -> U] /\ f[0] = x
  /\ \A n \in 1..N : f[n] = G[n][f[n - 1]]
  /\ \A n \in 0..N : f[n] \in S[n]

LEMMA LoopRuns ==
  ASSUME NEW N, NEW U, NEW S, NEW x, NEW G, Loop(N, U, S, x, G)
  PROVE  \E f : LoopRun(f, N, U, S, x, G)
<1> USE DEF Loop
<1> DEFINE Run(k, f) == /\ f[0] = x
                        /\ \A n \in 1..k : f[n] = G[n][f[n - 1]]
                        /\ \A n \in 0..k : f[n] \in S[n]
           T == {k \in 0..N : ~(\E f \in [0..k -> U] : Run(k, f))}
<1>1. SUFFICES ASSUME T # {} PROVE FALSE
  <2>1. N \in 0..N
    OBVIOUS
  <2>2. PICK f \in [0..N -> U] : Run(N, f)
    BY <1>1, <2>1
  <2> QED BY <2>2 DEF LoopRun
<1>2. T \subseteq Nat /\ T # {}
  BY <1>1
<1>3. PICK m \in T : \A y \in T : m <= y
  <2> HIDE DEF T
  <2> QED BY <1>2, NatMinimum
<1>4. m \in 0..N
  BY <1>3
<1>5. CASE m = 0
  <2> DEFINE f == [n \in 0..0 |-> x]
  <2>1. 0 \in 0..N /\ 0 \in 0..0 /\ x \in U /\ \A n \in 0..0 : n = 0
    OBVIOUS
  <2>2. f[0] = x /\ f \in [0..0 -> U]
    BY <2>1
  <2> HIDE DEF f
  <2>3. Run(0, f)
    BY <2>1, <2>2
  <2> QED BY <1>3, <1>5, <2>2, <2>3
<1>6. CASE m # 0
  <2>1. m - 1 \in 0..N /\ m - 1 \notin T
    <3> HIDE DEF T
    <3> QED BY <1>3, <1>4, <1>6
  <2>2. PICK f \in [0..(m - 1) -> U] : Run(m - 1, f)
    BY <2>1
  <2> DEFINE g == [n \in 0..m |-> IF n < m THEN f[n] ELSE G[m][f[m - 1]]]
  <2>3. \A n \in 0..(m - 1) : g[n] = f[n]
    BY <1>4, <1>6
  <2>4. g[m] = G[m][f[m - 1]] /\ g[m - 1] = f[m - 1]
    BY <1>4, <1>6
  <2>5. G[m][f[m - 1]] \in S[m]
    BY <2>2, <1>4, <1>6
  <2>6. g \in [0..m -> U]
    BY <2>2, <2>5, <1>4, <1>6
  <2> HIDE DEF g
  <2>7. \A n \in 1..m : g[n] = G[n][g[n - 1]]
    <3> TAKE n \in 1..m
    <3>1. CASE n = m
      BY <3>1, <2>4
    <3>2. CASE n # m
      <4>1. n \in 0..(m - 1) /\ n - 1 \in 0..(m - 1) /\ n \in 1..(m - 1)
        BY <3>2, <1>4
      <4> QED BY <2>2, <2>3, <4>1
    <3> QED BY <3>1, <3>2
  <2>8. \A n \in 0..m : g[n] \in S[n]
    <3> TAKE n \in 0..m
    <3>1. CASE n = m
      BY <3>1, <2>4, <2>5
    <3>2. CASE n # m
      <4>1. n \in 0..(m - 1)
        BY <3>2, <1>4
      <4> QED BY <2>2, <2>3, <4>1
    <3> QED BY <3>1, <3>2
  <2>9. g[0] = x
    BY <2>2, <2>3, <1>4, <1>6
  <2>10. Run(m, g)
    BY <2>7, <2>8, <2>9
  <2> QED BY <1>3, <2>6, <2>10
<1> QED BY <1>5, <1>6

LEMMA RemoveAtFacts ==
  ASSUME NEW S, NEW s \in Seq(S), NEW i \in DOMAIN s
  PROVE  /\ RemoveAt(s, i) \in Seq(S)
         /\ DOMAIN RemoveAt(s, i) = 1 .. (Len(s) - 1)
         /\ Len(RemoveAt(s, i)) = Len(s) - 1
         /\ \A j \in 1 .. (Len(s) - 1) :
              RemoveAt(s, i)[j] = s[IF j < i THEN j ELSE j + 1]
<1> DEFINE r == RemoveAt(s, i)
           a == SubSeq(s, 1, i - 1)
           z == SubSeq(s, i + 1, Len(s))
<1>1. i \in 1 .. Len(s) /\ Len(s) \in Nat
  OBVIOUS
<1>2. a \in Seq(S) /\ Len(a) = i - 1 /\ \A j \in 1 .. (i - 1) : a[j] = s[j]
  BY <1>1
<1>3. z \in Seq(S) /\ Len(z) = Len(s) - i /\ \A j \in 1 .. (Len(s) - i) : z[j] = s[i + j]
  BY <1>1
<1>4. r = a \o z
  BY DEF RemoveAt
<1> HIDE DEF a, r, z
<1>5. /\ r \in Seq(S) /\ Len(r) = Len(s) - 1
      /\ \A j \in 1 .. (Len(s) - 1) : r[j] = IF j < i THEN a[j] ELSE z[j - i + 1]
  BY <1>1, <1>2, <1>3, <1>4
<1>6. ASSUME NEW j \in 1 .. (Len(s) - 1)
      PROVE  r[j] = s[IF j < i THEN j ELSE j + 1]
  <2>1. CASE j < i
    BY <1>1, <1>2, <1>5, <2>1
  <2>2. CASE ~(j < i)
    <3>1. j - i + 1 \in 1 .. (Len(s) - i) /\ i + (j - i + 1) = j + 1
      BY <1>1, <2>2
    <3>2. z[j - i + 1] = s[j + 1]
      BY <1>3, <3>1
    <3>3. QED BY <1>5, <2>2, <3>2
  <2>3. QED BY <2>1, <2>2
<1>7. DOMAIN r = 1 .. (Len(s) - 1)
  BY <1>5
<1>8. QED
  BY <1>5, <1>6, <1>7 DEF r

\* What is removed from a list that holds each element once is gone.
LEMMA RemoveAtKeeps ==
  ASSUME NEW S, NEW s \in Seq(S), Distinct(s), NEW i \in DOMAIN s
  PROVE  /\ RemoveAt(s, i) \in Seq(S) /\ Distinct(RemoveAt(s, i))
         /\ Range(RemoveAt(s, i)) = Range(s) \ {s[i]}
<1> DEFINE r == RemoveAt(s, i)
<1>1. /\ r \in Seq(S) /\ DOMAIN r = 1 .. (Len(s) - 1)
      /\ \A j \in 1 .. (Len(s) - 1) : r[j] = s[IF j < i THEN j ELSE j + 1]
  BY RemoveAtFacts
<1> HIDE DEF r
<1>2. DOMAIN s = 1 .. Len(s) /\ Len(s) \in Nat /\ i \in 1 .. Len(s)
  OBVIOUS
<1>3. \A j \in DOMAIN r : /\ (IF j < i THEN j ELSE j + 1) \in DOMAIN s
                          /\ (IF j < i THEN j ELSE j + 1) # i
  BY <1>1, <1>2
<1>4. Distinct(r)
  <2>1. ASSUME NEW j \in DOMAIN r, NEW k \in DOMAIN r, r[j] = r[k] PROVE j = k
    <3>1. (IF j < i THEN j ELSE j + 1) = (IF k < i THEN k ELSE k + 1)
      BY <1>1, <1>3, <2>1 DEF Distinct
    <3>2. QED BY <1>1, <1>2, <3>1
  <2>2. QED BY <2>1 DEF Distinct
<1>5. ASSUME NEW x \in Range(r) PROVE x \in Range(s) \ {s[i]}
  <2>1. PICK j \in DOMAIN r : x = r[j]
    BY <1>5 DEF Range
  <2>2. QED BY <1>1, <1>2, <1>3, <2>1 DEF Range, Distinct
<1>6. ASSUME NEW x \in Range(s), x # s[i] PROVE x \in Range(r)
  <2>1. PICK j \in DOMAIN s : x = s[j]
    BY <1>6 DEF Range
  <2>2. j # i
    BY <1>6, <2>1
  <2>3. CASE j < i
    <3>1. j \in DOMAIN r /\ r[j] = x
      BY <1>1, <1>2, <2>1, <2>3
    <3>2. QED BY <3>1 DEF Range
  <2>4. CASE j > i
    <3>1. j - 1 \in DOMAIN r /\ r[j - 1] = x
      BY <1>1, <1>2, <2>1, <2>4
    <3>2. QED BY <3>1 DEF Range
  <2>5. QED BY <1>2, <2>2, <2>3, <2>4
<1>7. QED BY <1>1, <1>4, <1>5, <1>6 DEF r

LEMMA RemovesOne ==
  ASSUME NEW S, NEW s \in Seq(S), NEW y, \E i \in 1 .. Len(s) : s[i] = y
  PROVE  \E k \in 1 .. Len(s) : s[k] = y /\ RemoveFirst(s, y) = RemoveAt(s, k)
<1> DEFINE I == {i \in 1 .. Len(s) : s[i] = y}
           k == Min(I)
<1>1. k \in I
  <2>1. I \subseteq Nat /\ I # {}
    OBVIOUS
  <2>2. QED BY <2>1, NatMinimum
<1>2. SelectInSeq(s, LAMBDA v : v = y) = k
  BY DEF SelectInSeq
<1>3. RemoveFirst(s, y) = RemoveAt(s, k)
  BY <1>2 DEF RemoveFirst
<1> HIDE DEF k
<1>4. QED BY <1>1, <1>3

LEMMA RemoveFirstKeeps ==
  ASSUME NEW S, NEW s \in Seq(S), Distinct(s), NEW x
  PROVE  /\ RemoveFirst(s, x) \in Seq(S) /\ Distinct(RemoveFirst(s, x))
         /\ Range(RemoveFirst(s, x)) = Range(s) \ {x}
<1>1. DOMAIN s = 1 .. Len(s) /\ Len(s) \in Nat
  OBVIOUS
<1>2. CASE \E i \in 1 .. Len(s) : s[i] = x
  <2>1. PICK k \in 1 .. Len(s) : s[k] = x /\ RemoveFirst(s, x) = RemoveAt(s, k)
    BY <1>1, <1>2, RemovesOne
  <2>2. QED BY <1>1, <2>1, RemoveAtKeeps
<1>3. CASE ~\E i \in 1 .. Len(s) : s[i] = x
  <2>1. RemoveFirst(s, x) = s
    BY <1>3 DEF RemoveFirst
  <2>2. x \notin Range(s)
    BY <1>1, <1>3 DEF Range
  <2>3. QED BY <2>1, <2>2
<1>4. QED BY <1>2, <1>3

\* Whatever else is removed from a list, x stays.
LEMMA OthersStay ==
  ASSUME NEW S, NEW s \in Seq(S), NEW y
  PROVE  /\ RemoveFirst(s, y) \in Seq(S)
         /\ Range(s) \ {y} \subseteq Range(RemoveFirst(s, y))
<1>1. DOMAIN s = 1 .. Len(s) /\ Len(s) \in Nat
  OBVIOUS
<1>2. CASE \E i \in 1 .. Len(s) : s[i] = y
  <2>1. PICK k \in 1 .. Len(s) : s[k] = y /\ RemoveFirst(s, y) = RemoveAt(s, k)
    BY <1>2, RemovesOne
  <2> DEFINE r == RemoveAt(s, k)
  <2>2. /\ r \in Seq(S) /\ DOMAIN r = 1 .. (Len(s) - 1)
        /\ \A j \in 1 .. (Len(s) - 1) : r[j] = s[IF j < k THEN j ELSE j + 1]
    BY <1>1, <2>1, RemoveAtFacts
  <2> HIDE DEF r
  <2>3. ASSUME NEW x \in Range(s), x # y PROVE x \in Range(r)
    <3>1. PICK i \in DOMAIN s : x = s[i]
      BY <2>3 DEF Range
    <3>2. i # k
      BY <2>1, <2>3, <3>1
    <3>3. CASE i < k
      <4>1. i \in DOMAIN r /\ r[i] = x
        BY <1>1, <2>1, <2>2, <3>1, <3>3
      <4>2. QED BY <4>1 DEF Range
    <3>4. CASE i > k
      <4>1. i - 1 \in DOMAIN r /\ r[i - 1] = x
        BY <1>1, <2>1, <2>2, <3>1, <3>4
      <4>2. QED BY <4>1 DEF Range
    <3>5. QED BY <1>1, <3>2, <3>3, <3>4
  <2>4. QED BY <2>1, <2>2, <2>3 DEF r
<1>3. CASE ~\E i \in 1 .. Len(s) : s[i] = y
  <2>1. RemoveFirst(s, y) = s
    BY <1>3 DEF RemoveFirst
  <2>2. QED BY <2>1
<1>4. QED BY <1>2, <1>3

LEMMA RemoveFirstShortens ==
  ASSUME NEW S, NEW s \in Seq(S), NEW y
  PROVE  Len(RemoveFirst(s, y)) <= Len(s)
<1>1. DOMAIN s = 1 .. Len(s) /\ Len(s) \in Nat
  OBVIOUS
<1>2. CASE \E i \in 1 .. Len(s) : s[i] = y
  <2>1. PICK k \in 1 .. Len(s) : RemoveFirst(s, y) = RemoveAt(s, k)
    BY <1>1, <1>2, RemovesOne
  <2>2. QED BY <1>1, <2>1, RemoveAtFacts
<1>3. CASE ~\E i \in 1 .. Len(s) : s[i] = y
  BY <1>1, <1>3 DEF RemoveFirst
<1>4. QED BY <1>2, <1>3

LEMMA PushKeeps ==
  ASSUME NEW S, NEW s \in Seq(S), Distinct(s), NEW x \in S, x \notin Range(s)
  PROVE  /\ <<x>> \o s \in Seq(S) /\ Distinct(<<x>> \o s)
         /\ Range(<<x>> \o s) = Range(s) \cup {x}
<1> DEFINE r == <<x>> \o s
<1>1. DOMAIN s = 1 .. Len(s) /\ Len(s) \in Nat
  OBVIOUS
<1>2. /\ r \in Seq(S) /\ DOMAIN r = 1 .. (Len(s) + 1) /\ r[1] = x
      /\ \A i \in 1 .. Len(s) : r[i + 1] = s[i]
  OBVIOUS
<1> HIDE DEF r
<1>3. \A j \in DOMAIN r : j # 1 => j - 1 \in DOMAIN s /\ r[j] = s[j - 1]
  <2>1. ASSUME NEW j \in DOMAIN r, j # 1 PROVE j - 1 \in DOMAIN s /\ r[j] = s[j - 1]
    <3>1. j - 1 \in 1 .. Len(s) /\ (j - 1) + 1 = j
      BY <1>1, <1>2, <2>1
    <3>2. QED BY <1>1, <1>2, <3>1
  <2>2. QED BY <2>1
<1>4. \A i \in DOMAIN s : s[i] # x
  BY DEF Range
<1>5. Distinct(r)
  <2>1. ASSUME NEW j \in DOMAIN r, NEW k \in DOMAIN r, r[j] = r[k] PROVE j = k
    <3>1. CASE j = 1
      BY <1>2, <1>3, <1>4, <2>1, <3>1
    <3>2. CASE k = 1
      BY <1>2, <1>3, <1>4, <2>1, <3>2
    <3>3. CASE j # 1 /\ k # 1
      <4>1. j - 1 = k - 1
        BY <1>3, <2>1, <3>3 DEF Distinct
      <4>2. QED BY <1>2, <4>1
    <3>4. QED BY <3>1, <3>2, <3>3
  <2>2. QED BY <2>1 DEF Distinct
<1>6. Range(r) = Range(s) \cup {x}
  <2>1. ASSUME NEW y \in Range(r) PROVE y \in Range(s) \cup {x}
    BY <1>2, <1>3, <2>1 DEF Range
  <2>2. ASSUME NEW y \in Range(s) PROVE y \in Range(r)
    <3>1. PICK i \in DOMAIN s : y = s[i]
      BY <2>2 DEF Range
    <3>2. i + 1 \in DOMAIN r /\ r[i + 1] = y
      BY <1>1, <1>2, <3>1
    <3>3. QED BY <3>2 DEF Range
  <2>3. x \in Range(r)
    BY <1>1, <1>2 DEF Range
  <2>4. QED BY <2>1, <2>2, <2>3
<1>7. QED BY <1>2, <1>5, <1>6 DEF r

LEMMA AppendKeeps ==
  ASSUME NEW S, NEW s \in Seq(S), Distinct(s), NEW x \in S, x \notin Range(s)
  PROVE  /\ Append(s, x) \in Seq(S) /\ Distinct(Append(s, x))
         /\ Append(s, x) # <<>>
         /\ s # <<>> => Head(Append(s, x)) = Head(s)
         /\ Range(Append(s, x)) = Range(s) \cup {x}
<1> DEFINE r == Append(s, x)
           n == Len(s)
<1>1. /\ n \in Nat /\ DOMAIN s = 1 .. n /\ DOMAIN r = 1 .. (n + 1)
      /\ r \in Seq(S) /\ r # <<>> /\ r[n + 1] = x /\ \A i \in 1 .. n : r[i] = s[i]
  BY AppendProperties
<1>2. s # <<>> => Head(r) = Head(s)
  BY HeadTailAppend
<1> HIDE DEF r, n
<1>3. \A i \in 1 .. n : s[i] # x
  BY <1>1 DEF Range
<1>4. Distinct(r)
  <2>1. ASSUME NEW i \in DOMAIN r, NEW j \in DOMAIN r, r[i] = r[j] PROVE i = j
    <3>1. CASE i \in 1 .. n /\ j \in 1 .. n
      BY <1>1, <2>1, <3>1 DEF Distinct
    <3>2. CASE i = n + 1 \/ j = n + 1
      BY <1>1, <1>3, <2>1, <3>2
    <3>3. QED BY <1>1, <3>1, <3>2
  <2>2. QED BY <2>1 DEF Distinct
<1>5. ASSUME NEW y \in Range(r) PROVE y \in Range(s) \cup {x}
  <2>1. PICK i \in DOMAIN r : y = r[i]
    BY <1>5 DEF Range
  <2>2. CASE i \in 1 .. n
    BY <1>1, <2>1, <2>2 DEF Range
  <2>3. CASE i = n + 1
    BY <1>1, <2>1, <2>3
  <2>4. QED BY <1>1, <2>2, <2>3
<1>6. ASSUME NEW y \in Range(s) PROVE y \in Range(r)
  <2>1. PICK i \in DOMAIN s : y = s[i]
    BY <1>6 DEF Range
  <2>2. i \in DOMAIN r /\ r[i] = y
    BY <1>1, <2>1
  <2>3. QED BY <2>2 DEF Range
<1>7. x \in Range(r)
  <2>1. n + 1 \in DOMAIN r
    BY <1>1
  <2>2. QED BY <1>1, <2>1 DEF Range
<1>8. Range(r) = Range(s) \cup {x}
  BY <1>5, <1>6, <1>7
<1>9. QED BY <1>1, <1>2, <1>4, <1>8 DEF r

LEMMA JoinKeeps ==
  ASSUME NEW S, NEW s \in Seq(S), Distinct(s), NEW t \in Seq(S), Distinct(t),
         Range(s) \cap Range(t) = {}
  PROVE  /\ s \o t \in Seq(S) /\ Distinct(s \o t)
         /\ Range(s \o t) = Range(s) \cup Range(t)
<1> DEFINE r == s \o t
<1>1. /\ Len(s) \in Nat /\ DOMAIN s = 1 .. Len(s) /\ Len(t) \in Nat /\ DOMAIN t = 1 .. Len(t)
      /\ r \in Seq(S) /\ DOMAIN r = 1 .. (Len(s) + Len(t))
      /\ \A i \in 1 .. Len(s) : r[i] = s[i]
      /\ \A i \in 1 .. Len(t) : r[Len(s) + i] = t[i]
  OBVIOUS
<1> HIDE DEF r
<1>2. \A k \in DOMAIN r : k \in DOMAIN s \/ \E i \in DOMAIN t : k = Len(s) + i
  <2>1. ASSUME NEW k \in DOMAIN r, k \notin DOMAIN s PROVE \E i \in DOMAIN t : k = Len(s) + i
    <3>1. k - Len(s) \in DOMAIN t /\ k = Len(s) + (k - Len(s))
      BY <1>1, <2>1
    <3>2. QED BY <3>1
  <2>2. QED BY <2>1
<1>3. \A i \in DOMAIN s : \A k \in DOMAIN t : s[i] # t[k]
  BY DEF Range
<1>4. Distinct(r)
  <2>1. ASSUME NEW i \in DOMAIN r, NEW j \in DOMAIN r, r[i] = r[j] PROVE i = j
    <3>1. CASE i \in DOMAIN s /\ j \in DOMAIN s
      BY <1>1, <2>1, <3>1 DEF Distinct
    <3>2. CASE i \in DOMAIN s /\ j \notin DOMAIN s
      BY <1>1, <1>2, <1>3, <2>1, <3>2
    <3>3. CASE i \notin DOMAIN s /\ j \in DOMAIN s
      BY <1>1, <1>2, <1>3, <2>1, <3>3
    <3>4. CASE i \notin DOMAIN s /\ j \notin DOMAIN s
      <4>1. PICK a \in DOMAIN t : i = Len(s) + a
        BY <1>2, <3>4
      <4>2. PICK c \in DOMAIN t : j = Len(s) + c
        BY <1>2, <3>4
      <4>3. a = c
        BY <1>1, <2>1, <4>1, <4>2 DEF Distinct
      <4>4. QED BY <4>1, <4>2, <4>3
    <3>5. QED BY <3>1, <3>2, <3>3, <3>4
  <2>2. QED BY <2>1 DEF Distinct
<1>5. \A x \in Range(r) : x \in Range(s) \cup Range(t)
  <2>1. ASSUME NEW k \in DOMAIN r PROVE r[k] \in Range(s) \cup Range(t)
    <3>1. CASE k \in DOMAIN s
      BY <1>1, <3>1 DEF Range
    <3>2. CASE \E i \in DOMAIN t : k = Len(s) + i
      BY <1>1, <3>2 DEF Range
    <3>3. QED BY <1>2, <3>1, <3>2
  <2>2. QED BY <2>1 DEF Range
<1>6. \A x \in Range(s) : x \in Range(r)
  <2>1. \A i \in DOMAIN s : i \in DOMAIN r /\ r[i] = s[i]
    BY <1>1
  <2>2. QED BY <2>1 DEF Range
<1>7. \A x \in Range(t) : x \in Range(r)
  <2>1. \A i \in DOMAIN t : Len(s) + i \in DOMAIN r /\ r[Len(s) + i] = t[i]
    BY <1>1
  <2>2. QED BY <2>1 DEF Range
<1>8. QED BY <1>1, <1>4, <1>5, <1>6, <1>7 DEF r

LEMMA HeadLeaves ==
  ASSUME NEW S, NEW s \in Seq(S), s # <<>>, Distinct(s)
  PROVE  /\ Tail(s) \in Seq(S) /\ Distinct(Tail(s)) /\ Head(s) \in S
         /\ Head(s) \in Range(s)
         /\ Range(Tail(s)) = Range(s) \ {Head(s)}
<1>1. /\ Len(s) \in Nat \ {0} /\ DOMAIN s = 1 .. Len(s) /\ Head(s) = s[1]
      /\ Tail(s) \in Seq(S) /\ Len(Tail(s)) = Len(s) - 1
      /\ \A i \in 1 .. (Len(s) - 1) : Tail(s)[i] = s[i + 1]
  BY HeadTailProperties, EmptySeq
<1>2. DOMAIN Tail(s) = 1 .. (Len(s) - 1)
  BY <1>1
<1> DEFINE r == Tail(s)
           n == Len(s)
<1>3. /\ n \in Nat \ {0} /\ DOMAIN s = 1 .. n /\ DOMAIN r = 1 .. (n - 1)
      /\ \A i \in 1 .. (n - 1) : r[i] = s[i + 1]
  BY <1>1, <1>2
<1> HIDE DEF r, n
<1>4. Distinct(r)
  <2>1. ASSUME NEW i \in DOMAIN r, NEW j \in DOMAIN r, r[i] = r[j] PROVE i = j
    <3>1. i + 1 \in 1 .. n /\ j + 1 \in 1 .. n /\ s[i + 1] = s[j + 1]
      BY <1>3, <2>1
    <3>2. i + 1 = j + 1
      BY <1>3, <3>1 DEF Distinct
    <3>3. QED BY <1>3, <3>2
  <2>2. QED BY <2>1 DEF Distinct
<1>5. ASSUME NEW x \in Range(r) PROVE x \in Range(s) /\ x # s[1]
  <2>1. PICK i \in DOMAIN r : x = r[i]
    BY <1>5 DEF Range
  <2>2. i + 1 \in DOMAIN s /\ i + 1 # 1 /\ 1 \in DOMAIN s /\ x = s[i + 1]
    BY <1>3, <2>1
  <2>3. QED BY <2>2 DEF Range, Distinct
<1>6. ASSUME NEW x \in Range(s), x # s[1] PROVE x \in Range(r)
  <2>1. PICK i \in DOMAIN s : x = s[i]
    BY <1>6 DEF Range
  <2>2. i - 1 \in 1 .. (n - 1) /\ (i - 1) + 1 = i
    BY <1>3, <1>6, <2>1
  <2>3. x = r[i - 1] /\ i - 1 \in DOMAIN r
    BY <1>3, <2>1, <2>2
  <2>4. QED BY <2>3 DEF Range
<1>7. Head(s) \in S /\ Head(s) \in Range(s)
  BY <1>1 DEF Range
<1>8. Range(r) = Range(s) \ {Head(s)}
  BY <1>1, <1>5, <1>6
<1>9. QED BY <1>1, <1>4, <1>7, <1>8 DEF r

=============================================================================
