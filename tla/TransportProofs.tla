--------------------------- MODULE TransportProofs ---------------------------
(* What is around the connection: the server pool, for any servers,        *)
(* gossip, failures and options, and the two buffers, for any sizes and    *)
(* any bytes.                                                              *)
EXTENDS Reconnect, Buffers, SequenceTheorems, WellFoundedInduction, TLAPS

(* Induction on numbers, as the least counterexample.                      *)
LEMMA LeastNat == ASSUME NEW T \in SUBSET Nat, T # {} PROVE \E n \in T : \A m \in T : n <= m
<1>. DEFINE R == OpToRel(<, Nat)
<1>1. IsWellFoundedOn(R, Nat)  BY NatLessThanWellFounded
<1>2. \A n, m \in Nat : <<n, m>> \in R <=> n < m  BY DEF OpToRel
<1>. HIDE DEF R
<1>3. T \subseteq Nat  OBVIOUS
<1>4. PICK n \in T : \A m \in T : ~(<<m, n>> \in R)  BY <1>1, <1>3, WFMin
<1>5. \A m \in T : ~(m < n)  BY <1>2, <1>3, <1>4
<1>6. \A m \in T : n <= m  BY <1>3, <1>5
<1>. QED  BY <1>6

LEMMA Induction ==
  ASSUME NEW P, NEW N \in Nat, 0 \in P, \A n \in 0..(N - 1) : n \in P => n + 1 \in P
  PROVE  \A n \in 0..N : n \in P
<1>. DEFINE T == {n \in 0..N : n \notin P}
<1>1. SUFFICES ASSUME T # {} PROVE FALSE  OBVIOUS
<1>2. T \subseteq Nat  OBVIOUS
<1>3. PICK n \in T : \A m \in T : n <= m  BY <1>1, <1>2, LeastNat
<1>4. n \in 0..N /\ n # 0  OBVIOUS
<1>5. n - 1 \in 0..(N - 1) /\ n - 1 \in 0..N /\ n - 1 \notin T  BY <1>3, <1>4
<1>6. n - 1 \in P /\ n = (n - 1) + 1  BY <1>4, <1>5
<1>. QED  BY <1>5, <1>6, <1>3

(* What filtering a sequence gives.                                        *)
Extended(g, q, S, n) == IF q[n] \in S THEN Append(g, q[n]) ELSE g
Filters(f, q, S, n) ==
  /\ DOMAIN f = 0..n /\ f = [i \in 0..n |-> f[i]] /\ f[0] = <<>>
  /\ \A i \in 1..n : f[i] = Extended(f[i - 1], q, S, i)

LEMMA FilterExists ==
  ASSUME NEW V, NEW q \in Seq(V), NEW S PROVE \E f : Filters(f, q, S, Len(q))
<1>. DEFINE P == {n \in Nat : \E f : Filters(f, q, S, n)}
<1>1. 0 \in P
  <2>. DEFINE f == [i \in 0..0 |-> <<>>]
  <2>1. Filters(f, q, S, 0)  BY DEF Filters
  <2>. QED  BY <2>1
<1>2. ASSUME NEW n \in 0..(Len(q) - 1), n \in P PROVE n + 1 \in P
  <2>1. PICK f : Filters(f, q, S, n)  BY <1>2
  <2>. DEFINE g == [i \in 0..(n + 1) |-> IF i = n + 1 THEN Extended(f[n], q, S, n + 1) ELSE f[i]]
  <2>2. n \in Nat  OBVIOUS
  <2>3. Filters(g, q, S, n + 1)
    <3>1. \A i \in 1..(n + 1) : g[i] = Extended(g[i - 1], q, S, i)
      <4>1. ASSUME NEW i \in 1..n PROVE g[i] = Extended(g[i - 1], q, S, i)
        <5>1. i \in 0..(n + 1) /\ i - 1 \in 0..(n + 1) /\ i # n + 1 /\ i - 1 # n + 1  BY <2>2
        <5>2. g[i] = f[i] /\ g[i - 1] = f[i - 1]  BY <5>1
        <5>. HIDE DEF g
        <5>. QED  BY <2>1, <5>2 DEF Filters
      <4>2. g[n + 1] = Extended(g[n], q, S, n + 1)
        <5>1. n + 1 \in 0..(n + 1) /\ n \in 0..(n + 1) /\ n # n + 1  BY <2>2
        <5>. QED  BY <5>1
      <4>. HIDE DEF g
      <4>. QED  BY <2>2, <4>1, <4>2
    <3>2. g[0] = <<>>  BY <2>1, <2>2 DEF Filters
    <3>. QED  BY <2>2, <3>1, <3>2 DEF Filters
  <2>. QED  BY <2>2, <2>3
<1>3. Len(q) \in Nat /\ Len(q) \in 0..Len(q)  OBVIOUS
<1>. HIDE DEF P
<1>4. \A n \in 0..Len(q) : n \in P  BY <1>1, <1>2, <1>3, Induction
<1>. QED  BY <1>3, <1>4 DEF P

LEMMA FilterIs ==
  ASSUME NEW V, NEW q \in Seq(V), NEW S
  PROVE  \E f : Filters(f, q, S, Len(q)) /\ Filter(q, S) = f[Len(q)]
<1>. DEFINE Step_(f) == [n \in 0..Len(q) |-> IF n = 0 THEN <<>>
                          ELSE IF q[n] \in S THEN Append(f[n - 1], q[n]) ELSE f[n - 1]]
            F == CHOOSE f : f = Step_(f)
<1>1. PICK f : Filters(f, q, S, Len(q))  BY FilterExists
<1>2. f = Step_(f)
  <2>1. \A n \in 0..Len(q) : f[n] = Step_(f)[n]  BY <1>1 DEF Filters, Extended
  <2>2. f = [i \in 0..Len(q) |-> f[i]]  BY <1>1 DEF Filters
  <2>3. [i \in 0..Len(q) |-> f[i]] = Step_(f)  BY <2>1
  <2>. QED  BY <2>2, <2>3
<1>3. F = Step_(F)  BY <1>2
<1>4. Filter(q, S) = F[Len(q)]  BY DEF Filter
<1>. HIDE DEF F
<1>5. Len(q) \in Nat  OBVIOUS
<1>6. Filters(F, q, S, Len(q))
  <2>1. DOMAIN F = 0..Len(q) /\ F = [i \in 0..Len(q) |-> F[i]] /\ F[0] = <<>>  BY <1>3, <1>5
  <2>2. ASSUME NEW i \in 1..Len(q) PROVE F[i] = Extended(F[i - 1], q, S, i)
    <3>1. i \in 0..Len(q) /\ i # 0  BY <1>5
    <3>2. F[i] = Step_(F)[i]  BY <1>3
    <3>. QED  BY <3>1, <3>2 DEF Extended
  <2>. QED  BY <2>1, <2>2 DEF Filters
<1>. QED  BY <1>4, <1>6

LEMMA FilterGives ==
  ASSUME NEW V, NEW q \in Seq(V), NEW S
  PROVE  /\ Filter(q, S) \in Seq(V)
         /\ Range(Filter(q, S)) = Range(q) \cap S
         /\ Distinct(q) => Distinct(Filter(q, S))
<1>1. PICK f : Filters(f, q, S, Len(q)) /\ Filter(q, S) = f[Len(q)]  BY FilterIs
<1>2. Len(q) \in Nat  OBVIOUS
<1>. DEFINE Seen(n) == {q[i] : i \in {j \in 1..n : q[j] \in S}}
            Good(n) == f[n] \in Seq(V) /\ Range(f[n]) = Seen(n) /\ (Distinct(q) => Distinct(f[n]))
            P == {n \in 0..Len(q) : Good(n)}
<1>3. 0 \in P
  <2>1. f[0] = <<>>  BY <1>1 DEF Filters
  <2>2. <<>> \in Seq(V) /\ Len(<<>>) = 0 /\ 1..0 = {}  OBVIOUS
  <2>3. Range(<<>>) = {} /\ Distinct(<<>>) /\ Seen(0) = {}  BY <2>2 DEF Range, Distinct
  <2>4. f[0] \in Seq(V) /\ Range(f[0]) = Seen(0) /\ Distinct(f[0])  BY <2>1, <2>2, <2>3
  <2>5. 0 \in 0..Len(q)  BY <1>2
  <2>. HIDE DEF Seen
  <2>. QED  BY <2>4, <2>5
<1>4. ASSUME NEW n \in 0..(Len(q) - 1), n \in P PROVE n + 1 \in P
  <2>1. n + 1 \in 1..Len(q) /\ n \in Nat /\ n + 1 \in 0..Len(q) /\ Good(n)  BY <1>2, <1>4
  <2>2. f[n + 1] = Extended(f[n], q, S, n + 1)
    <3>1. \A i \in 1..Len(q) : f[i] = Extended(f[i - 1], q, S, i)  BY <1>1 DEF Filters
    <3>2. f[n + 1] = Extended(f[(n + 1) - 1], q, S, n + 1)  BY <2>1, <3>1
    <3>3. (n + 1) - 1 = n  BY <2>1
    <3>. QED  BY <3>2, <3>3
  <2>3. CASE q[n + 1] \notin S
    <3>1. f[n + 1] = f[n]  BY <2>2, <2>3 DEF Extended
    <3>2. Seen(n + 1) = Seen(n)  BY <2>1, <2>3
    <3>. QED  BY <2>1, <3>1, <3>2
  <2>4. CASE q[n + 1] \in S
    <3>. DEFINE e == q[n + 1]
                g == f[n]
    <3>1. e \in V  BY <2>1
    <3>2. f[n + 1] = Append(g, e)  BY <2>2, <2>4 DEF Extended
    <3>3. Seen(n + 1) = Seen(n) \cup {e}  BY <2>1, <2>4
    <3>4. ASSUME Distinct(q) PROVE e \notin Seen(n)  BY <3>4, <2>1 DEF Distinct
    <3>5. g \in Seq(V) /\ Range(g) = Seen(n) /\ (Distinct(q) => Distinct(g))  BY <2>1
    <3>. HIDE DEF e, g, Seen
    <3>6. /\ Append(g, e) \in Seq(V) /\ Len(Append(g, e)) = Len(g) + 1
          /\ \A i \in 1..Len(g) : Append(g, e)[i] = g[i]
          /\ Append(g, e)[Len(g) + 1] = e /\ Len(g) \in Nat
      BY <3>1, <3>5
    <3>7. Range(Append(g, e)) = Range(g) \cup {e}  BY <3>6 DEF Range
    <3>8. ASSUME Distinct(q) PROVE Distinct(Append(g, e))
      <4>1. Distinct(g) /\ \A i \in 1..Len(g) : g[i] # e  BY <3>4, <3>5, <3>8 DEF Range
      <4>. QED  BY <3>6, <4>1 DEF Distinct
    <3>. QED  BY <2>1, <3>2, <3>3, <3>5, <3>6, <3>7, <3>8
  <2>. QED  BY <2>3, <2>4
<1>. HIDE DEF P
<1>5. \A n \in 0..Len(q) : n \in P  BY <1>2, <1>3, <1>4, Induction
<1>6. Good(Len(q))
  <2>1. Len(q) \in P  BY <1>2, <1>5
  <2>. QED  BY <2>1 DEF P
<1>7. Seen(Len(q)) = Range(q) \cap S  BY DEF Range
<1>. QED  BY <1>1, <1>6, <1>7

-----------------------------------------------------------------------------
(* The other operators of the pool.                                        *)
LEMMA RangeIn == ASSUME NEW V, NEW q \in Seq(V) PROVE Range(q) \subseteq V
BY DEF Range

LEMMA Elements ==
  ASSUME NEW V, NEW q \in Seq(V), NEW i \in 1..Len(q) PROVE q[i] \in Range(q)
BY DEF Range

LEMMA RemoveAtIs ==
  ASSUME NEW V, NEW q \in Seq(V), NEW i \in 1..Len(q)
  PROVE  RemoveAt(q, i) = [j \in 1..(Len(q) - 1) |-> IF j < i THEN q[j] ELSE q[j + 1]]
<1>. DEFINE x == SubSeq(q, 1, i - 1)
            y == SubSeq(q, i + 1, Len(q))
            n == Len(q)
<1>0. n \in Nat /\ i \in Nat \ {0} /\ i <= n  OBVIOUS
<1>1. x \in Seq(V) /\ Len(x) = i - 1 /\ \A j \in 1..(i - 1) : x[j] = q[j]
  <2>1. \A j \in 1..(i - 1) : q[j] \in V  BY <1>0
  <2>. QED  BY <1>0, <2>1, SubSeqProperties
<1>2. y \in Seq(V) /\ Len(y) = n - i /\ \A j \in 1..(n - i) : y[j] = q[i + j]
  <2>1. \A j \in (i + 1)..n : q[j] \in V  BY <1>0
  <2>. DEFINE k == i + 1
  <2>2. /\ k \in Int /\ n \in Int /\ n - k + 1 = n - i /\ (k <= n <=> i # n)
        /\ \A j \in 1..(n - i) : k + j - 1 = i + j
    BY <1>0
  <2>3. /\ SubSeq(q, k, n) \in Seq(V)
        /\ Len(SubSeq(q, k, n)) = IF k <= n THEN n - k + 1 ELSE 0
        /\ \A j \in 1..(n - k + 1) : SubSeq(q, k, n)[j] = q[k + j - 1]
    <3>1. \A j \in k..n : q[j] \in V  BY <2>1
    <3>. HIDE DEF k, n
    <3>. QED  BY <2>2, <3>1, SubSeqProperties
  <2>. HIDE DEF n
  <2>4. Len(SubSeq(q, k, n)) = n - i
    <3>1. CASE i = n  BY <1>0, <2>2, <2>3, <3>1
    <3>2. CASE i # n  BY <1>0, <2>2, <2>3, <3>2
    <3>. QED  BY <3>1, <3>2
  <2>. QED  BY <2>2, <2>3, <2>4 DEF n
<1>. HIDE DEF x, y, n
<1>3. /\ x \o y \in Seq(V) /\ Len(x \o y) = Len(x) + Len(y)
      /\ \A j \in 1..(Len(x) + Len(y)) : (x \o y)[j] = IF j <= Len(x) THEN x[j] ELSE y[j - Len(x)]
  BY <1>1, <1>2, ConcatProperties
<1>. DEFINE z == x \o y
<1>8. z \in Seq(V)  BY <1>3
<1>. HIDE DEF z
<1>4. z = [j \in 1..Len(z) |-> z[j]]  BY <1>8
<1>5. Len(z) = n - 1  BY <1>0, <1>1, <1>2, <1>3 DEF z
<1>6. ASSUME NEW j \in 1..(n - 1) PROVE z[j] = IF j < i THEN q[j] ELSE q[j + 1]
  <2>1. z[j] = IF j <= i - 1 THEN x[j] ELSE y[j - (i - 1)]  BY <1>0, <1>1, <1>2, <1>3 DEF z
  <2>2. CASE j < i
    <3>1. j \in 1..(i - 1) /\ j <= i - 1  BY <1>0, <2>2
    <3>. QED  BY <1>1, <2>1, <2>2, <3>1
  <2>3. CASE ~(j < i)
    <3>1. ~(j <= i - 1) /\ j - (i - 1) \in 1..(n - i) /\ i + (j - (i - 1)) = j + 1  BY <1>0, <2>3
    <3>. QED  BY <1>2, <2>1, <2>3, <3>1
  <2>. QED  BY <2>2, <2>3
<1>7. z = [j \in 1..(n - 1) |-> IF j < i THEN q[j] ELSE q[j + 1]]  BY <1>4, <1>5, <1>6
<1>. QED  BY <1>7 DEF RemoveAt, n, x, y, z

LEMMA RemovesOne ==
  ASSUME NEW V, NEW q \in Seq(V), Distinct(q), NEW l \in Range(q)
  PROVE  /\ removeServer(q, l) \in Seq(V) /\ Distinct(removeServer(q, l))
         /\ Range(removeServer(q, l)) = Range(q) \ {l}
<1>. DEFINE i == IndexOf(q, l)
            r == [j \in 1..(Len(q) - 1) |-> IF j < i THEN q[j] ELSE q[j + 1]]
<1>1. i \in 1..Len(q) /\ q[i] = l  BY DEF IndexOf, Range
<1>2. q # <<>> /\ Len(q) \in Nat \ {0}  BY <1>1
<1>3. removeServer(q, l) = r
  <2>1. removeServer(q, l) = RemoveAt(q, i)  BY <1>2 DEF removeServer
  <2>. HIDE DEF i
  <2>. QED  BY <1>1, <2>1, RemoveAtIs
<1>. HIDE DEF i
<1>4. r \in Seq(V) /\ Len(r) = Len(q) - 1
  <2>1. Len(q) - 1 \in Nat  BY <1>2
  <2>2. \A j \in 1..(Len(q) - 1) : j \in 1..Len(q) /\ j + 1 \in 1..Len(q)  BY <1>2
  <2>3. \A j \in 1..(Len(q) - 1) : r[j] \in V  BY <2>2
  <2>. QED  BY <2>1, <2>3
<1>5. \A j \in 1..(Len(q) - 1) : r[j] = IF j < i THEN q[j] ELSE q[j + 1]  OBVIOUS
<1>. HIDE DEF r
<1>6. Distinct(r)  BY <1>1, <1>2, <1>4, <1>5 DEF Distinct
<1>7. Range(r) \subseteq Range(q) \ {l}  BY <1>1, <1>2, <1>4, <1>5 DEF Distinct, Range
<1>8. ASSUME NEW x \in Range(q) \ {l} PROVE x \in Range(r)
  <2>1. PICK k \in 1..Len(q) : q[k] = x /\ k # i  BY <1>1 DEF Range
  <2>2. CASE k < i
    <3>1. k \in 1..(Len(q) - 1) /\ r[k] = x  BY <1>1, <1>2, <1>5, <2>1, <2>2
    <3>. QED  BY <1>4, <3>1 DEF Range
  <2>3. CASE k > i
    <3>1. k - 1 \in 1..(Len(q) - 1) /\ ~(k - 1 < i) /\ (k - 1) + 1 = k  BY <1>1, <1>2, <2>1, <2>3
    <3>2. r[k - 1] = x  BY <1>5, <2>1, <3>1
    <3>. QED  BY <1>4, <3>1, <3>2 DEF Range
  <2>. QED  BY <1>1, <2>1, <2>2, <2>3
<1>. QED  BY <1>3, <1>4, <1>6, <1>7, <1>8

LEMMA Rotates ==
  ASSUME NEW V, NEW q \in Seq(V), q # <<>>
  PROVE  LET r == Append(Tail(q), Head(q)) IN
         /\ r \in Seq(V) /\ Range(r) = Range(q) /\ Head(q) \in Range(r)
         /\ Distinct(q) => Distinct(r)
<1>. DEFINE r == Append(Tail(q), Head(q))
<1>1. /\ Len(q) \in Nat \ {0} /\ r \in Seq(V) /\ Len(r) = Len(q) /\ r[Len(q)] = q[1] /\ Head(q) = q[1]
      /\ \A i \in 1..(Len(q) - 1) : r[i] = q[i + 1]
  <2>1. /\ Tail(q) \in Seq(V) /\ Len(Tail(q)) = Len(q) - 1 /\ Head(q) = q[1] /\ Len(q) \in Nat \ {0}
        /\ \A i \in 1..(Len(q) - 1) : Tail(q)[i] = q[i + 1]
        /\ q[1] \in V
    OBVIOUS
  <2>. QED  BY <2>1
<1>. HIDE DEF r
<1>2. Range(r) \subseteq Range(q)  BY <1>1 DEF Range
<1>3. ASSUME NEW k \in 1..Len(q) PROVE q[k] \in Range(r)
  <2>1. CASE k = 1  BY <1>1, <2>1 DEF Range
  <2>2. CASE k # 1
    <3>1. k - 1 \in 1..(Len(q) - 1) /\ k - 1 \in 1..Len(r) /\ (k - 1) + 1 = k  BY <1>1, <2>2
    <3>2. r[k - 1] = q[k]  BY <1>1, <3>1
    <3>3. r[k - 1] \in Range(r)  BY <1>1, <3>1, Elements
    <3>. QED  BY <3>2, <3>3
  <2>. QED  BY <2>1, <2>2
<1>4. Distinct(q) => Distinct(r)
  <2>1. SUFFICES ASSUME Distinct(q), NEW i \in 1..Len(r), NEW j \in 1..Len(r), r[i] = r[j] PROVE i = j
    BY DEF Distinct
  <2>2. \A k \in 1..Len(r) : r[k] = q[IF k = Len(q) THEN 1 ELSE k + 1]  BY <1>1
  <2>. QED  BY <1>1, <2>1, <2>2 DEF Distinct
<1>5. Range(q) \subseteq Range(r)  BY <1>3 DEF Range
<1>6. Head(q) \in Range(r)  BY <1>1, <1>3
<1>. QED  BY <1>1, <1>2, <1>4, <1>5, <1>6 DEF r

LEMMA Joins ==
  ASSUME NEW V, NEW q \in Seq(V), NEW r \in Seq(V)
  PROVE  /\ q \o r \in Seq(V) /\ Range(q \o r) = Range(q) \cup Range(r)
         /\ Distinct(q) /\ Distinct(r) /\ Range(q) \cap Range(r) = {} => Distinct(q \o r)
<1>. DEFINE s == q \o r
<1>1. /\ s \in Seq(V) /\ Len(q) \in Nat /\ Len(r) \in Nat /\ Len(s) = Len(q) + Len(r)
      /\ \A i \in 1..Len(s) : s[i] = IF i <= Len(q) THEN q[i] ELSE r[i - Len(q)]
  OBVIOUS
<1>. HIDE DEF s
<1>2. Range(s) \subseteq Range(q) \cup Range(r)  BY <1>1 DEF Range
<1>3. ASSUME NEW i \in 1..Len(q) PROVE q[i] \in Range(s)
  <2>1. i \in 1..Len(s) /\ s[i] = q[i]  BY <1>1
  <2>. QED  BY <2>1 DEF Range
<1>4. ASSUME NEW i \in 1..Len(r) PROVE r[i] \in Range(s)
  <2>1. i + Len(q) \in 1..Len(s) /\ ~(i + Len(q) <= Len(q)) /\ (i + Len(q)) - Len(q) = i  BY <1>1
  <2>2. s[i + Len(q)] = r[i]  BY <1>1, <2>1
  <2>. QED  BY <2>1, <2>2 DEF Range
<1>5. ASSUME Distinct(q), Distinct(r), Range(q) \cap Range(r) = {} PROVE Distinct(s)
  <2>1. SUFFICES ASSUME NEW i \in 1..Len(s), NEW j \in 1..Len(s), s[i] = s[j] PROVE i = j  BY DEF Distinct
  <2>2. \A k \in 1..Len(s) : k > Len(q) => k - Len(q) \in 1..Len(r)  BY <1>1
  <2>3. CASE i <= Len(q) /\ j <= Len(q)  BY <1>1, <1>5, <2>1, <2>3 DEF Distinct
  <2>4. CASE i > Len(q) /\ j > Len(q)
    <3>1. r[i - Len(q)] = r[j - Len(q)]  BY <1>1, <2>1, <2>4
    <3>2. i - Len(q) = j - Len(q)  BY <1>5, <2>2, <2>4, <3>1 DEF Distinct
    <3>. QED  BY <1>1, <3>2
  <2>5. ASSUME NEW a \in 1..Len(s), NEW b \in 1..Len(s), a <= Len(q), b > Len(q) PROVE s[a] # s[b]
    <3>2. a \in 1..Len(q) /\ b - Len(q) \in 1..Len(r)  BY <1>1, <2>2, <2>5
    <3>3. s[a] = q[a] /\ s[b] = r[b - Len(q)]  BY <1>1, <2>5
    <3>1. s[a] \in Range(q) /\ s[b] \in Range(r)  BY <3>2, <3>3, Elements
    <3>. QED  BY <1>5, <3>1
  <2>. QED  BY <1>1, <2>1, <2>3, <2>4, <2>5
<1>6. Range(s) = Range(q) \cup Range(r)
  <2>1. Range(q) \subseteq Range(s)  BY <1>3 DEF Range
  <2>2. Range(r) \subseteq Range(s)  BY <1>4 DEF Range
  <2>. QED  BY <1>2, <2>1, <2>2
<1>. QED  BY <1>1, <1>5, <1>6 DEF s

-----------------------------------------------------------------------------
(* The server a loop works on is in the pool, once; the first selection    *)
(* comes before everything else; a connection and a dial exclude each      *)
(* other; and nothing was counted before the first connection, except what *)
(* is not in the pool any more.                                            *)
Working == loop \in {"delay", "resolve", "dial"} \/ online
PoolInv ==
  /\ TypeOK /\ Distinct(servers)
  /\ Working => current \in Range(servers)
  /\ firstSelect => /\ loop = "select" /\ ~online /\ ~closed /\ ~connectedOnce
                    /\ current \in Range(servers)
  /\ online => loop = "idle"
  /\ loop = "dial" => altsLeft > 0
  /\ ~connectedOnce => \A l \in Range(servers) : reconnects[l] = 0

LEMMA PoolInit == ASSUME ReconnectAssumption, Init PROVE PoolInv
<1>1. Configured \in Seq(Listen) /\ Len(Configured) \in Nat \ {0} /\ Distinct(Configured)
      /\ Configured[1] \in Listen
  BY DEF ReconnectAssumption
<1>2. Configured[1] \in Range(Configured)  BY <1>1 DEF Range
<1>3. Alts \in Nat  BY DEF ReconnectAssumption
<1>5. TypeOK
  <2>1. options \in Options /\ servers \in Seq(Listen) /\ current \in Listen  BY <1>1 DEF Init
  <2>2. firstSelect \in BOOLEAN /\ gossiped \subseteq Listen /\ recent \subseteq Listen  BY DEF Init
  <2>3. reconnects \in [Listen -> Nat] /\ tries \in [Listen -> Nat]  BY DEF Init
  <2>4. loop \in LoopState /\ altsLeft \in 0..Alts /\ inARow \in 0..2  BY <1>3 DEF Init, LoopState
  <2>5. /\ doomed \in BOOLEAN /\ online \in BOOLEAN /\ connectedOnce \in BOOLEAN /\ closed \in BOOLEAN
        /\ abortReconnect \in BOOLEAN /\ lastError \in ErrCode \cup {"none"}
    BY DEF Init
  <2>. QED  BY <2>1, <2>2, <2>3, <2>4, <2>5 DEF TypeOK
<1>4. \A l \in Range(Configured) : l \in Listen  BY <1>1 DEF Range
<1>. QED  BY <1>1, <1>2, <1>4, <1>5 DEF PoolInv, Working, Init

LEMMA Selects ==
  ASSUME ReconnectAssumption, PoolInv, selectServer, loop = "select"
  PROVE  /\ servers' \in Seq(Listen) /\ Distinct(servers') /\ current' \in Listen
         /\ firstSelect' = FALSE /\ UNCHANGED <<gossiped, reconnects>>
         /\ Range(servers') \subseteq Range(servers)
         /\ ~closed => Range(servers') = Range(servers)
         /\ HasServer => current' \in Range(servers') /\ current' = NextServer
<1>. USE DEF PoolInv, TypeOK
<1>1. firstSelect' = FALSE /\ UNCHANGED <<gossiped, reconnects>> /\ servers' = Rotated
      /\ current' = IF HasServer THEN NextServer ELSE current
  BY DEF selectServer
<1>2. CASE firstSelect  BY <1>1, <1>2 DEF Rotated, Pool, HasServer, NextServer
<1>3. CASE ~firstSelect /\ Pool = <<>>
  <2>1. Rotated = <<>> /\ ~HasServer  BY <1>3 DEF Rotated, HasServer
  <2>2. <<>> \in Seq(Listen) /\ Distinct(<<>>) /\ Range(<<>>) = {}  BY DEF Distinct, Range
  <2>3. ~closed => servers = <<>>  BY <1>3 DEF Pool
  <2>. QED  BY <1>1, <2>1, <2>2, <2>3
<1>4. CASE ~firstSelect /\ Pool # <<>>
  <2>1. Pool = servers /\ HasServer /\ NextServer = Head(servers) /\ servers # <<>>
        /\ Rotated = Append(Tail(servers), Head(servers))
    BY <1>4 DEF Pool, Rotated, HasServer, NextServer
  <2>2. Head(servers) \in Listen  BY <2>1
  <2>. QED  BY <1>1, <2>1, <2>2, Rotates
<1>. QED  BY <1>2, <1>3, <1>4

LEMMA Removes ==
  ASSUME NEW V, NEW q \in Seq(V), Distinct(q), NEW l
  PROVE  /\ removeServer(q, l) \in Seq(V) /\ Distinct(removeServer(q, l))
         /\ Range(removeServer(q, l)) \subseteq Range(q)
<1>1. CASE l \in Range(q)  BY <1>1, RemovesOne
<1>2. CASE l \notin Range(q) /\ q # <<>>
  <2>. DEFINE n == Len(q)
              r == [j \in 1..(n - 1) |-> IF j < n THEN q[j] ELSE q[j + 1]]
  <2>1. removeServer(q, l) = r
    <3>1. n \in 1..Len(q)  BY <1>2, EmptySeq
    <3>2. removeServer(q, l) = RemoveAt(q, n)  BY <1>2 DEF removeServer
    <3>. HIDE DEF n
    <3>. QED  BY <3>1, <3>2, RemoveAtIs DEF n
  <2>2. n \in Nat \ {0}  BY <1>2
  <2>3. \A j \in 1..(n - 1) : r[j] = q[j] /\ j \in 1..n /\ q[j] \in V  BY <2>2
  <2>4. r \in Seq(V) /\ Len(r) = n - 1  BY <2>2, <2>3
  <2>. HIDE DEF r
  <2>. QED  BY <2>1, <2>2, <2>3, <2>4 DEF Distinct, Range
<1>3. CASE q = <<>>  BY <1>3 DEF removeServer
<1>. QED  BY <1>1, <1>2, <1>3

LEMMA Fails ==
  ASSUME ReconnectAssumption, PoolInv, loop = "dial", afterFailure
  PROVE  /\ servers' \in Seq(Listen) /\ Distinct(servers') /\ reconnects' \in [Listen -> Nat]
         /\ Range(servers') \subseteq Range(servers)
         /\ ~connectedOnce => \A l \in Range(servers') : reconnects'[l] = 0
<1>. USE DEF PoolInv, TypeOK
<1>. DEFINE r == Count(reconnects[current])
            first == IF connectedOnce THEN servers ELSE removeServer(servers, current)
<1>1. current \in Range(servers) /\ current \in Listen /\ options \in Options  BY DEF Working
<1>2. CASE ~connectedOnce /\ options.waitOnFirstConnect  BY <1>2 DEF afterFailure
<1>3. CASE ~(~connectedOnce /\ options.waitOnFirstConnect)
  <2>1. /\ reconnects' = [reconnects EXCEPT ![current] = r]
        /\ servers' = first \/ servers' = removeServer(first, current)
    BY <1>3 DEF afterFailure
  <2>2. r \in Nat  BY <1>1 DEF Count
  <2>3. /\ first \in Seq(Listen) /\ Distinct(first) /\ Range(first) \subseteq Range(servers)
        /\ ~connectedOnce => current \notin Range(first)
    BY <1>1, RemovesOne
  <2>. HIDE DEF first, r
  <2>4. /\ servers' \in Seq(Listen) /\ Distinct(servers') /\ Range(servers') \subseteq Range(first)
    BY <2>1, <2>3, Removes
  <2>5. ASSUME ~connectedOnce, NEW l \in Range(servers') PROVE reconnects'[l] = 0
    <3>1. l \in Range(servers) /\ l # current  BY <2>3, <2>4, <2>5
    <3>2. l \in Listen  BY <3>1, RangeIn
    <3>. QED  BY <2>1, <2>5, <3>1, <3>2
  <2>. QED  BY <1>1, <2>1, <2>2, <2>3, <2>4, <2>5
<1>. QED  BY <1>2, <1>3

LEMMA Updates ==
  ASSUME ReconnectAssumption, PoolInv, NEW urls \in SUBSET Listen, update(urls)
  PROVE  /\ servers' \in Seq(Listen) /\ Distinct(servers')
         /\ Range(servers') = (Range(servers) \ Dropped(urls)) \cup Added(urls)
<1>. USE DEF PoolInv, TypeOK
<1>. DEFINE a == Filter(servers, Listen \ Dropped(urls))
            b == Filter(Listens, Added(urls))
<1>1. servers' = a \o b  BY DEF update
<1>2. servers \in Seq(Listen) /\ Listens \in Seq(Listen) /\ Distinct(servers) /\ Distinct(Listens)
  BY DEF ReconnectAssumption, Listen
<1>3. /\ a \in Seq(Listen) /\ b \in Seq(Listen) /\ Distinct(a) /\ Distinct(b)
      /\ Range(a) = Range(servers) \cap (Listen \ Dropped(urls)) /\ Range(b) = Range(Listens) \cap Added(urls)
  BY <1>2, FilterGives
<1>4. Range(servers) \subseteq Listen /\ Range(Listens) = Listen  BY <1>2, RangeIn DEF Listen
<1>5. Added(urls) \subseteq Listen /\ Added(urls) \cap Range(servers) = {}  BY DEF Added
<1>. HIDE DEF a, b
<1>6. Range(a) = Range(servers) \ Dropped(urls) /\ Range(b) = Added(urls) /\ Range(a) \cap Range(b) = {}
  BY <1>3, <1>4, <1>5
<1>. QED  BY <1>1, <1>3, <1>6, Joins

LEMMA StepKeeps == ASSUME ReconnectAssumption, PoolInv, Step PROVE PoolInv'
<1>. USE DEF PoolInv, TypeOK, Working, status, auth, pool, LoopState
<1>1. options' = options  BY DEF Step
<1>2. CASE dialServer
  <2>1. loop = "select" /\ selectServer /\ loop' = "resolve" /\ HasServer /\ recent' = recent \cup {NextServer}
        /\ UNCHANGED <<altsLeft, doomed, status, auth, tries>>
    BY <1>2 DEF dialServer
  <2>2. current' \in Range(servers') /\ recent' \subseteq Listen  BY <2>1, Selects
  <2>. QED  BY <1>1, <2>1, <2>2, Selects
<1>3. CASE delayDial
  <2>1. loop = "select" /\ selectServer /\ loop' = "delay" /\ HasServer
        /\ UNCHANGED <<recent, altsLeft, doomed, status, auth, tries>>
    BY <1>3 DEF delayDial
  <2>2. current' \in Range(servers')  BY <2>1, Selects
  <2>. QED  BY <1>1, <2>1, <2>2, Selects
<1>4. CASE stopLoop
  <2>1. loop = "select" /\ selectServer /\ loop' = "ended" /\ closed' = (closed \/ connectedOnce)
        /\ UNCHANGED <<recent, altsLeft, doomed, online, connectedOnce, auth, tries>>
    BY <1>4 DEF stopLoop
  <2>. QED  BY <1>1, <2>1, Selects
<1>5. CASE delayOver  BY <1>1, <1>5 DEF delayOver
<1>6. ASSUME NEW n \in 1..Alts, resolved(n) PROVE PoolInv'
  <2>1. n \in 0..Alts /\ n > 0  BY DEF ReconnectAssumption
  <2>. QED  BY <1>1, <1>6, <2>1 DEF resolved
<1>. QED  BY <1>2, <1>3, <1>4, <1>5, <1>6 DEF Step

LEMMA ErrorKeeps ==
  ASSUME TypeOK, NEW e \in ErrCode, receiveError(e)
  PROVE  abortReconnect' \in BOOLEAN /\ lastError' \in ErrCode \cup {"none"} /\ inARow' \in 0..2
<1>1. inARow' \in 0..2  BY DEF receiveError, TypeOK
<1>2. lastError' \in ErrCode \cup {"none"}  BY DEF receiveError
<1>3. abortReconnect' \in BOOLEAN  BY DEF receiveError, TypeOK
<1>. QED  BY <1>1, <1>2, <1>3

LEMMA AttemptKeeps == ASSUME ReconnectAssumption, PoolInv, Attempt PROVE PoolInv'
<1>. USE DEF PoolInv, TypeOK, Working, status, LoopState
<1>1. options' = options  BY DEF Attempt
<1>2. CASE dialed
  <2>1. /\ loop = "dial" /\ loop' = "idle" /\ online' = TRUE /\ connectedOnce' = TRUE
        /\ reconnects' = [reconnects EXCEPT ![current] = 0] /\ tries' = [tries EXCEPT ![current] = 0]
        /\ lastError' \in {lastError, "none"} /\ inARow' \in {0, inARow}
        /\ UNCHANGED <<servers, current, firstSelect, gossiped, recent, altsLeft, doomed, closed, abortReconnect>>
    BY <1>2 DEF dialed, clearExpired
  <2>2. inARow' \in 0..2 /\ lastError' \in ErrCode \cup {"none"}  BY <2>1
  <2>. QED  BY <1>1, <2>1, <2>2
<1>3. ASSUME NEW e \in ErrCode \cup {"none"}, dialFailed(e) PROVE PoolInv'
  <2>1. abortReconnect' \in BOOLEAN /\ lastError' \in ErrCode \cup {"none"} /\ inARow' \in 0..2
    <3>1. CASE e = "none"  BY <1>3, <3>1 DEF dialFailed, auth
    <3>2. CASE e # "none"
      <4>1. e \in ErrCode /\ receiveError(e)  BY <1>3, <3>2 DEF dialFailed
      <4>. QED  BY <4>1, ErrorKeeps
    <3>. QED  BY <3>1, <3>2
  <2>2. loop = "dial" /\ altsLeft' = altsLeft - 1 /\ altsLeft' \in 0..Alts
        /\ UNCHANGED <<current, firstSelect, gossiped, recent, status>>
    BY <1>3 DEF dialFailed, ReconnectAssumption
  <2>3. CASE altsLeft > 1
    <3>1. doomed' = FALSE /\ UNCHANGED <<servers, reconnects, loop, tries>>  BY <1>3, <2>3 DEF dialFailed
    <3>2. altsLeft' > 0  BY <2>2, <2>3
    <3>. QED  BY <1>1, <2>1, <2>2, <3>1, <3>2
  <2>4. CASE ~(altsLeft > 1)
    <3>1. /\ loop' = "select" /\ afterFailure /\ doomed' = doomed
          /\ tries' = [tries EXCEPT ![current] = IF connectedOnce THEN Count(@) ELSE CountCap]
      BY <1>3, <2>4 DEF dialFailed
    <3>2. tries' \in [Listen -> Nat]  BY <3>1 DEF Count, ReconnectAssumption
    <3>3. /\ servers' \in Seq(Listen) /\ Distinct(servers') /\ reconnects' \in [Listen -> Nat]
          /\ ~connectedOnce => \A l \in Range(servers') : reconnects'[l] = 0
      BY <2>2, <3>1, Fails
    <3>. QED  BY <1>1, <2>1, <2>2, <3>1, <3>2, <3>3
  <2>. QED  BY <2>3, <2>4
<1>. QED  BY <1>2, <1>3 DEF Attempt

LEMMA EventKeeps == ASSUME ReconnectAssumption, PoolInv, Event PROVE PoolInv'
<1>. USE DEF PoolInv, TypeOK, Working, status, LoopState, pool
<1>1. options' = options  BY DEF Event
<1>2. ASSUME NEW l \in Listen, waitOver(l) PROVE PoolInv'  BY <1>1, <1>2 DEF waitOver, auth
<1>3. ASSUME online, disconnected, abortReconnect' \in BOOLEAN, lastError' \in ErrCode \cup {"none"},
             inARow' \in 0..2
      PROVE  PoolInv'
  BY <1>1, <1>3 DEF disconnected
<1>4. ASSUME NEW e \in AuthCode, authError(e) PROVE PoolInv'
  <2>1. e \in ErrCode /\ receiveError(e) /\ online /\ disconnected  BY <1>4 DEF authError, ErrCode
  <2>. QED  BY <1>3, <2>1, ErrorKeeps
<1>5. CASE socketLost  BY <1>3, <1>5 DEF socketLost, auth
<1>6. CASE protocolError
  <2>1. "ProtocolError" \in ErrCode  BY DEF ErrCode
  <2>. QED  BY <1>1, <1>6, <2>1, ErrorKeeps DEF protocolError
<1>7. CASE close  BY <1>1, <1>7 DEF close, auth
<1>8. ASSUME NEW urls \in SUBSET Listen, update(urls) PROVE PoolInv'
  <2>1. /\ servers' \in Seq(Listen) /\ Distinct(servers')
        /\ Range(servers') = (Range(servers) \ Dropped(urls)) \cup Added(urls)
    BY <1>8, Updates
  <2>2. /\ gossiped' = gossiped \cup Added(urls) /\ recent' = recent \ Added(urls)
        /\ reconnects' = [l \in Listen |-> IF l \in Added(urls) THEN 0 ELSE reconnects[l]]
        /\ UNCHANGED <<current, firstSelect, loop, altsLeft, doomed, status, auth, tries>>
        /\ online \/ loop = "dial"
    BY <1>8 DEF update
  <2>3. current \notin Dropped(urls) /\ Added(urls) \subseteq Listen  BY DEF Dropped, Added
  <2>4. current \in Range(servers)  BY <2>2
  <2>5. current' \in Range(servers')  BY <2>1, <2>2, <2>3, <2>4
  <2>6. ~connectedOnce => \A l \in Range(servers') : reconnects'[l] = 0
    BY <2>1, <2>2, RangeIn
  <2>7. gossiped' \subseteq Listen /\ reconnects' \in [Listen -> Nat] /\ recent' \subseteq Listen
    BY <2>2, <2>3
  <2>. QED  BY <1>1, <2>1, <2>2, <2>5, <2>6, <2>7 DEF auth
<1>. QED  BY <1>2, <1>4, <1>5, <1>6, <1>7, <1>8 DEF Event

LEMMA PoolNext == ASSUME ReconnectAssumption, PoolInv, [Next]_vars PROVE PoolInv'
<1>1. CASE Next  BY <1>1, StepKeeps, AttemptKeeps, EventKeeps DEF Next
<1>2. CASE UNCHANGED vars
  BY <1>2 DEF PoolInv, TypeOK, Working, vars, pool, status, auth
<1>. QED  BY <1>1, <1>2

(* The pool keeps its shape under rotation, removal and gossip             *)
(* (servers.ts, protocol.ts dodialLoop()).                                 *)
THEOREM PoolStaysWellFormed == Spec => []PoolWellFormed
<1>1. Init => PoolInv  BY PoolInit, ReconnectAssumption
<1>2. PoolInv /\ [Next]_vars => PoolInv'  BY PoolNext, ReconnectAssumption
<1>3. PoolInv => PoolWellFormed  BY DEF PoolInv, PoolWellFormed, Working
<1>. QED  BY <1>1, <1>2, <1>3, PTL DEF Spec

-----------------------------------------------------------------------------
(* No other server is removed, unless a single attempt is given to a       *)
(* server that was never connected to.                                     *)
Patience == \A o \in Options : o.maxReconnectAttempts \notin {0, 1} \/ o.waitOnFirstConnect

LEMMA OnlyCurrentGoes ==
  ASSUME ReconnectAssumption, Patience, PoolInv, loop = "dial", afterFailure
  PROVE  Range(servers) \ Range(servers') \subseteq {current}
<1>. USE DEF PoolInv, TypeOK
<1>1. current \in Range(servers) /\ current \in Listen /\ options \in Options  BY DEF Working
<1>2. CASE servers' = servers  BY <1>2
<1>3. CASE servers' = removeServer(servers, current)  BY <1>1, <1>3, RemovesOne
<1>4. CASE ~connectedOnce /\ ~options.waitOnFirstConnect
  <2>1. Count(reconnects[current]) = 1
    <3>1. CountCap > 0 /\ reconnects[current] = 0  BY <1>1, <1>4 DEF ReconnectAssumption
    <3>. QED  BY <3>1 DEF Count
  <2>2. options.maxReconnectAttempts = -1 \/ options.maxReconnectAttempts > 1
    <3>1. options.maxReconnectAttempts \in -1..CountCap /\ CountCap \in Nat
      BY <1>1 DEF ReconnectAssumption
    <3>2. options.maxReconnectAttempts \notin {0, 1}  BY <1>1, <1>4 DEF Patience
    <3>. QED  BY <3>1, <3>2
  <2>3. servers' = removeServer(servers, current)  BY <1>4, <2>1, <2>2 DEF afterFailure
  <2>. QED  BY <1>3, <2>3
<1>. QED  BY <1>2, <1>3, <1>4 DEF afterFailure

LEMMA DialFails ==
  ASSUME loop = "dial", loop' = "select", PoolInv, [Next]_vars
  PROVE  /\ afterFailure /\ UNCHANGED <<current, gossiped, connectedOnce, closed>>
         /\ tries' = [tries EXCEPT ![current] = IF connectedOnce THEN Count(@) ELSE CountCap]
         /\ \E e \in ErrCode \cup {"none"} : dialFailed(e)
<1>1. ~online  BY DEF PoolInv
<1>2. ~Step  BY DEF Step, dialServer, delayDial, delayOver, stopLoop, resolved
<1>3. ~Event
  BY <1>1 DEF Event, waitOver, authError, update, socketLost, protocolError, close
<1>4. Attempt /\ ~dialed  BY <1>2, <1>3 DEF Next, vars, dialed
<1>5. PICK e \in ErrCode \cup {"none"} : dialFailed(e)  BY <1>4 DEF Attempt
<1>. QED  BY <1>5 DEF dialFailed, status

(* The failure of a dial removes no other server from the pool, unless a   *)
(* server has a single attempt before the first connection (protocol.ts    *)
(* 672 and 677, servers.ts removeServer()).                                *)
THEOREM OthersAreKept == ASSUME Patience PROVE Spec => OthersKept
<1>1. Init => PoolInv  BY PoolInit, ReconnectAssumption
<1>2. PoolInv /\ [Next]_vars => PoolInv'  BY PoolNext, ReconnectAssumption
<1>3. PoolInv /\ [Next]_vars =>
        [(loop = "dial" /\ loop' = "select") => Range(servers) \ Range(servers') \subseteq {current}]_vars
  BY DialFails, OnlyCurrentGoes, ReconnectAssumption
<1>. QED  BY <1>1, <1>2, <1>3, PTL DEF Spec, OthersKept

(* An expired authentication counts from the time it is remembered.        *)
Remembered == lastError = "AuthenticationExpired" => inARow > 0

LEMMA RememberedNext == ASSUME PoolInv, Remembered, [Next]_vars PROVE Remembered'
<1>. USE DEF Remembered
<1>1. inARow \in 0..2  BY DEF PoolInv, TypeOK
<1>2. ASSUME NEW e \in ErrCode, receiveError(e) PROVE Remembered'
  BY <1>1, <1>2 DEF receiveError, AuthCode
<1>3. CASE UNCHANGED auth  BY <1>3 DEF auth
<1>4. CASE dialed
  BY <1>4 DEF dialed, clearExpired
<1>5. CASE Step
  BY <1>3, <1>5 DEF Step, dialServer, delayDial, delayOver, stopLoop, resolved
<1>6. ASSUME NEW e \in ErrCode \cup {"none"}, dialFailed(e) PROVE Remembered'
  <2>1. CASE e = "none"  BY <1>3, <1>6, <2>1 DEF dialFailed
  <2>2. CASE e # "none"  BY <1>2, <1>6, <2>2 DEF dialFailed
  <2>. QED  BY <2>1, <2>2
<1>7. CASE Event
  <2>1. ASSUME NEW e \in AuthCode, authError(e) PROVE Remembered'
    BY <1>2, <2>1 DEF authError, ErrCode
  <2>2. CASE protocolError  BY <1>2, <2>2 DEF protocolError, ErrCode
  <2>. QED  BY <1>3, <1>7, <2>1, <2>2 DEF Event, waitOver, update, socketLost, close
<1>. QED  BY <1>3, <1>4, <1>5, <1>6, <1>7 DEF Next, Attempt, vars

LEMMA AbortsInARow ==
  ASSUME PoolInv, Remembered, [Next]_vars, abortReconnect', ~abortReconnect,
         lastError' = "AuthenticationExpired"
  PROVE  inARow' = 2
<1>1. ASSUME NEW e \in ErrCode, receiveError(e) PROVE inARow' = 2
  BY <1>1 DEF receiveError, Remembered, AuthCode
<1>2. ~Step  BY DEF Step, dialServer, delayDial, delayOver, stopLoop, resolved, auth
<1>3. ~dialed  BY DEF dialed
<1>4. ~UNCHANGED auth  BY DEF auth
<1>5. ASSUME NEW e \in ErrCode \cup {"none"}, dialFailed(e) PROVE inARow' = 2
  <2>1. e # "none"  BY <1>4, <1>5 DEF dialFailed
  <2>. QED  BY <1>1, <1>5, <2>1 DEF dialFailed
<1>6. ASSUME NEW e \in AuthCode, authError(e) PROVE inARow' = 2
  BY <1>1, <1>6 DEF authError, ErrCode
<1>7. CASE protocolError  BY <1>1, <1>7 DEF protocolError, ErrCode
<1>8. CASE Event
  BY <1>4, <1>6, <1>7, <1>8 DEF Event, waitOver, update, socketLost, close
<1>. QED  BY <1>2, <1>3, <1>4, <1>5, <1>8 DEF Next, Attempt, vars

(* An expired authentication aborts the reconnect policy only when it      *)
(* fails twice without a reconnect in between (protocol.ts                 *)
(* handleAuthError(), dialLoop()).                                         *)
THEOREM ExpiryIsForgiven == Spec => ExpiryAbortsOnlyInARow
<1>1. Init => PoolInv /\ Remembered
  BY PoolInit, ReconnectAssumption DEF Init, Remembered
<1>2. PoolInv /\ Remembered /\ [Next]_vars => PoolInv' /\ Remembered'
  BY PoolNext, RememberedNext, ReconnectAssumption
<1>3. PoolInv /\ Remembered /\ [Next]_vars =>
        [(abortReconnect' /\ ~abortReconnect /\ lastError' = "AuthenticationExpired") => inARow' = 2]_vars
  BY AbortsInARow
<1>. QED  BY <1>1, <1>2, <1>3, PTL DEF Spec, ExpiryAbortsOnlyInARow

-----------------------------------------------------------------------------
(* A configured server that gossip never withdrew is in the pool or has    *)
(* used up its attempts, which are not counted faster than it fails.       *)
SpentInv ==
  \A l \in Range(Configured) \ gossiped :
    /\ reconnects[l] <= tries[l]
    /\ ~closed /\ l \notin Range(servers) => tries[l] > 0 /\ tries[l] >= options.maxReconnectAttempts

LEMMA ConfiguredListen == ASSUME ReconnectAssumption PROVE Range(Configured) \subseteq Listen
BY RangeIn DEF ReconnectAssumption

LEMMA Counts ==
  ASSUME ReconnectAssumption, NEW n \in Nat, NEW m \in Nat, n <= m
  PROVE  Count(n) \in Nat /\ Count(n) <= Count(m) /\ Count(m) > 0
<1>1. CountCap \in Nat /\ CountCap > 0  BY DEF ReconnectAssumption
<1>2. CASE m < CountCap  BY <1>1, <1>2 DEF Count
<1>3. CASE ~(m < CountCap)  BY <1>1, <1>3 DEF Count
<1>. QED  BY <1>2, <1>3

(* The steps that select a server, and those that leave the pool alone.    *)
LEMMA SpentSame ==
  ASSUME PoolInv, SpentInv, UNCHANGED <<options, gossiped, reconnects, tries>>, closed => closed',
         Range(servers') = Range(servers) \/ closed
  PROVE  SpentInv'
BY DEF SpentInv

LEMMA SpentFails ==
  ASSUME ReconnectAssumption, Patience, PoolInv, SpentInv, loop = "dial", loop' = "select",
         options' = options, [Next]_vars
  PROVE  SpentInv'
<1>. USE DEF PoolInv, TypeOK
<1>. DEFINE c == current
            max == options.maxReconnectAttempts
            had == reconnects[c]
            failed == tries[c]
<1>1. /\ afterFailure /\ UNCHANGED <<current, gossiped, connectedOnce, closed>>
      /\ tries' = [tries EXCEPT ![c] = IF connectedOnce THEN Count(failed) ELSE CountCap]
  BY DialFails
<1>2. c \in Range(servers) /\ c \in Listen /\ options \in Options /\ had \in Nat /\ failed \in Nat
  BY DEF Working
<1>3. max \in Int /\ max <= CountCap /\ CountCap \in Nat /\ CountCap > 0
  BY <1>2 DEF ReconnectAssumption
<1>4. Range(servers) \ Range(servers') \subseteq {c}  BY <1>1, OnlyCurrentGoes
<1>5. reconnects' = reconnects \/ reconnects' = [reconnects EXCEPT ![c] = Count(had)]
  BY <1>1 DEF afterFailure
<1>6. ASSUME NEW l \in Range(Configured) \ gossiped, l # c
      PROVE  /\ reconnects'[l] <= tries'[l]
             /\ ~closed /\ l \notin Range(servers') => tries'[l] > 0 /\ tries'[l] >= max
  <2>1. l \in Listen  BY ConfiguredListen
  <2>2. reconnects'[l] = reconnects[l] /\ tries'[l] = tries[l]  BY <1>1, <1>5, <1>6, <2>1
  <2>. QED  BY <1>4, <1>6, <2>2 DEF SpentInv
<1>7. ASSUME c \in Range(Configured) \ gossiped
      PROVE  /\ reconnects'[c] <= tries'[c]
             /\ ~closed /\ c \notin Range(servers') => tries'[c] > 0 /\ tries'[c] >= max
  <2>1. reconnects'[c] \in {had, Count(had)}  BY <1>2, <1>5
  <2>2. CASE ~connectedOnce
    <3>1. tries'[c] = CountCap /\ had = 0  BY <1>1, <1>2, <2>2
    <3>2. Count(had) = 1  BY <1>3, <3>1 DEF Count
    <3>. HIDE DEF had, max
    <3>. QED  BY <1>3, <2>1, <3>1, <3>2
  <2>3. CASE connectedOnce
    <3>1. had <= failed  BY <1>7 DEF SpentInv
    <3>2. /\ reconnects'[c] = Count(had) /\ tries'[c] = Count(failed)
          /\ servers' = IF max # -1 /\ Count(had) >= max THEN removeServer(servers, c) ELSE servers
      BY <1>1, <1>2, <2>3 DEF afterFailure
    <3>3. Count(had) \in Nat /\ Count(had) <= Count(failed) /\ Count(failed) > 0 /\ Count(failed) \in Nat
      BY <1>2, <3>1, Counts
    <3>4. c \notin Range(servers') => Count(had) >= max  BY <1>2, <3>2
    <3>. HIDE DEF had, failed, max
    <3>. QED  BY <1>3, <3>2, <3>3, <3>4
  <2>. QED  BY <2>2, <2>3
<1>8. \A l \in Range(Configured) \ gossiped :
        /\ reconnects'[l] <= tries'[l]
        /\ ~closed /\ l \notin Range(servers') => tries'[l] > 0 /\ tries'[l] >= max
  BY <1>6, <1>7
<1>. QED  BY <1>1, <1>8 DEF SpentInv

LEMMA SpentNext ==
  ASSUME ReconnectAssumption, Patience, PoolInv, SpentInv, [Next]_vars PROVE SpentInv'
<1>. USE DEF PoolInv, TypeOK
<1>1. options' = options  BY DEF Next, Step, Attempt, Event, vars
<1>2. CASE loop = "select" /\ selectServer /\ tries' = tries /\ (closed => closed')
  BY <1>1, <1>2, Selects, SpentSame
<1>3. CASE UNCHANGED <<servers, gossiped, reconnects, tries>> /\ (closed => closed')
  BY <1>1, <1>3, SpentSame
<1>4. CASE Step
  BY <1>2, <1>3, <1>4 DEF Step, dialServer, delayDial, delayOver, stopLoop, resolved, pool, status
<1>5. CASE dialed
  <2>1. /\ reconnects' = [reconnects EXCEPT ![current] = 0] /\ tries' = [tries EXCEPT ![current] = 0]
        /\ UNCHANGED <<servers, gossiped, closed>> /\ current \in Range(servers)
    BY <1>5 DEF dialed, Working
  <2>2. ASSUME NEW l \in Range(Configured) \ gossiped
        PROVE  /\ reconnects'[l] <= tries'[l]
               /\ ~closed /\ l \notin Range(servers) => tries'[l] > 0 /\ tries'[l] >= options.maxReconnectAttempts
    <3>1. l \in Listen  BY ConfiguredListen
    <3>2. CASE l = current  BY <2>1, <3>1, <3>2
    <3>3. CASE l # current
      <4>1. reconnects'[l] = reconnects[l] /\ tries'[l] = tries[l]  BY <2>1, <3>1, <3>3
      <4>. QED  BY <4>1 DEF SpentInv
    <3>. QED  BY <3>2, <3>3
  <2>. QED  BY <1>1, <2>1, <2>2 DEF SpentInv
<1>6. ASSUME NEW e \in ErrCode \cup {"none"}, dialFailed(e) PROVE SpentInv'
  <2>1. CASE altsLeft > 1  BY <1>3, <1>6, <2>1 DEF dialFailed, status
  <2>2. CASE ~(altsLeft > 1)
    <3>1. loop = "dial" /\ loop' = "select"  BY <1>6, <2>2 DEF dialFailed
    <3>. QED  BY <1>1, <3>1, SpentFails
  <2>. QED  BY <2>1, <2>2
<1>7. ASSUME NEW urls \in SUBSET Listen, update(urls) PROVE SpentInv'
  <2>1. Range(servers') = (Range(servers) \ Dropped(urls)) \cup Added(urls)  BY <1>7, Updates
  <2>2. /\ gossiped' = gossiped \cup Added(urls) /\ UNCHANGED <<tries, closed>>
        /\ reconnects' = [l \in Listen |-> IF l \in Added(urls) THEN 0 ELSE reconnects[l]]
    BY <1>7 DEF update, status
  <2>3. ASSUME NEW l \in Range(Configured) \ gossiped'
        PROVE  /\ reconnects'[l] = reconnects[l] /\ l \notin gossiped
               /\ l \in Range(servers) => l \in Range(servers')
    <3>1. l \in Listen /\ l \notin Added(urls) /\ l \notin gossiped  BY <2>2, ConfiguredListen
    <3>2. l \notin Dropped(urls)  BY <3>1 DEF Dropped
    <3>. QED  BY <2>1, <2>2, <3>1, <3>2
  <2>. QED  BY <1>1, <2>2, <2>3 DEF SpentInv
<1>8. CASE Event
  <2>1. ASSUME NEW e \in AuthCode, authError(e) PROVE SpentInv'
    BY <1>3, <2>1 DEF authError, disconnected, pool, status
  <2>2. CASE socketLost  BY <1>3, <2>2 DEF socketLost, disconnected, pool, status
  <2>3. CASE protocolError  BY <1>3, <2>3 DEF protocolError, pool, status
  <2>4. CASE close  BY <1>3, <2>4 DEF close, pool
  <2>5. ASSUME NEW l \in Listen, waitOver(l) PROVE SpentInv'  BY <1>3, <2>5 DEF waitOver, pool, status
  <2>. QED  BY <1>7, <1>8, <2>1, <2>2, <2>3, <2>4, <2>5 DEF Event
<1>. QED  BY <1>3, <1>4, <1>5, <1>6, <1>8 DEF Next, Attempt, vars, pool, status

LEMMA EndsWithoutServers ==
  ASSUME PoolInv, [Next]_vars, loop = "select", loop' = "ended", ~closed, ~abortReconnect
  PROVE  Range(servers) = {} /\ UNCHANGED <<tries, gossiped, options>>
<1>. USE DEF PoolInv, TypeOK, Working
<1>1. ~online  OBVIOUS
<1>2. ~Attempt  BY DEF Attempt, dialed, dialFailed
<1>3. ~Event
  BY <1>1 DEF Event, waitOver, authError, update, socketLost, protocolError, close
<1>4. stopLoop /\ options' = options
  BY <1>2, <1>3 DEF Next, vars, Step, dialServer, delayDial, delayOver, resolved
<1>5. ~HasServer /\ selectServer /\ tries' = tries  BY <1>4 DEF stopLoop
<1>6. servers = <<>>  BY <1>5 DEF HasServer, Pool
<1>. QED  BY <1>4, <1>5, <1>6 DEF Range, selectServer

(* The loop gives up for lack of servers only when every server it was     *)
(* configured with has used up its attempts (protocol.ts dodialLoop()).    *)
THEOREM GivesUpLate == ASSUME Patience PROVE Spec => GivesUpOnlyWhenExhausted
<1>1. Init => PoolInv /\ SpentInv
  <2>1. ASSUME Init PROVE SpentInv
    <3>1. \A l \in Range(Configured) : l \in Listen  BY ConfiguredListen, ReconnectAssumption
    <3>. QED  BY <2>1, <3>1 DEF Init, SpentInv
  <2>. QED  BY <2>1, PoolInit, ReconnectAssumption
<1>2. PoolInv /\ SpentInv /\ [Next]_vars => PoolInv' /\ SpentInv'
  BY PoolNext, SpentNext, ReconnectAssumption
<1>3. PoolInv /\ SpentInv /\ [Next]_vars =>
        [(loop = "select" /\ loop' = "ended" /\ ~closed /\ ~abortReconnect)
           => \A l \in Range(Configured) \ gossiped :
                tries[l] > 0 /\ tries[l] >= options.maxReconnectAttempts]_vars
  BY EndsWithoutServers DEF SpentInv
<1>. QED  BY <1>1, <1>2, <1>3, PTL DEF Spec, GivesUpOnlyWhenExhausted

-----------------------------------------------------------------------------
(* BuffersAreQueues: what flattening a list of arrays gives.               *)
Arrays == Seq(Seq(Nat))
Flattens(f, q, n) ==
  /\ f \in [1..n -> Seq(Nat)]
  /\ \A i \in 1..n : f[i] = IF i = 1 THEN q[1] ELSE f[i - 1] \o q[i]

LEMMA FlattenExists ==
  ASSUME NEW q \in Arrays PROVE \E f : Flattens(f, q, Len(q))
<1>. DEFINE P == {n \in Nat : \E f : Flattens(f, q, n)}
<1>1. 0 \in P
  <2>. DEFINE f == [i \in 1..0 |-> <<>>]
  <2>1. Flattens(f, q, 0)  BY DEF Flattens
  <2>. QED  BY <2>1
<1>2. ASSUME NEW n \in 0..(Len(q) - 1), n \in P PROVE n + 1 \in P
  <2>1. PICK f : Flattens(f, q, n)  BY <1>2
  <2>0. n \in Nat /\ n + 1 \in 1..Len(q)  BY DEF Arrays
  <2>. DEFINE last == IF n = 0 THEN q[1] ELSE f[n] \o q[n + 1]
              g == [i \in 1..(n + 1) |-> IF i = n + 1 THEN last ELSE f[i]]
  <2>2. last \in Seq(Nat)
    <3>1. q[n + 1] \in Seq(Nat)  BY <2>0 DEF Arrays
    <3>2. CASE n = 0  BY <3>1, <3>2
    <3>3. CASE n # 0
      <4>1. f[n] \in Seq(Nat)  BY <2>0, <2>1, <3>3 DEF Flattens
      <4>. QED  BY <3>1, <3>3, <4>1, ConcatProperties
    <3>. QED  BY <3>2, <3>3
  <2>. HIDE DEF last
  <2>3. g \in [1..(n + 1) -> Seq(Nat)]
    <3>1. ASSUME NEW i \in 1..(n + 1) PROVE g[i] \in Seq(Nat)
      <4>1. CASE i = n + 1  BY <2>2, <4>1
      <4>2. CASE i # n + 1
        <5>1. i \in 1..n  BY <2>0, <4>2
        <5>. QED  BY <2>1, <4>2, <5>1 DEF Flattens
      <4>. QED  BY <4>1, <4>2
    <3>. QED  BY <3>1
  <2>4. ASSUME NEW i \in 1..(n + 1) PROVE g[i] = IF i = 1 THEN q[1] ELSE g[i - 1] \o q[i]
    <3>1. CASE i = n + 1
      <4>1. g[i] = last  BY <3>1
      <4>2. n # 0 => g[n] = f[n]  BY <2>0
      <4>. QED  BY <2>0, <3>1, <4>1, <4>2 DEF last
    <3>2. CASE i # n + 1
      <4>1. i \in 1..n /\ g[i] = f[i]  BY <2>0, <3>2
      <4>2. i # 1 => i - 1 \in 1..(n + 1) /\ i - 1 # n + 1  BY <2>0, <4>1
      <4>3. i # 1 => g[i - 1] = f[i - 1]  BY <4>2
      <4>. HIDE DEF g
      <4>. QED  BY <2>1, <4>1, <4>3 DEF Flattens
    <3>. QED  BY <3>1, <3>2
  <2>. HIDE DEF g
  <2>5. Flattens(g, q, n + 1)  BY <2>3, <2>4 DEF Flattens
  <2>. QED  BY <2>0, <2>5
<1>3. Len(q) \in Nat /\ Len(q) \in 0..Len(q)  BY DEF Arrays
<1>. HIDE DEF P
<1>4. \A n \in 0..Len(q) : n \in P  BY <1>1, <1>2, <1>3, Induction
<1>. QED  BY <1>3, <1>4 DEF P

LEMMA FlattenIs ==
  ASSUME NEW q \in Arrays, Len(q) # 0
  PROVE  \E f : Flattens(f, q, Len(q)) /\ FlattenSeq(q) = f[Len(q)]
<1>. DEFINE Step_(f) == [i \in 1..Len(q) |-> IF i = 1 THEN q[i] ELSE f[i - 1] \o q[i]]
            F == CHOOSE f : f = Step_(f)
<1>1. PICK f : Flattens(f, q, Len(q))  BY FlattenExists
<1>2. f = Step_(f)
  <2>1. f = [i \in 1..Len(q) |-> f[i]]  BY <1>1 DEF Flattens
  <2>2. \A i \in 1..Len(q) : f[i] = IF i = 1 THEN q[i] ELSE f[i - 1] \o q[i]  BY <1>1 DEF Flattens
  <2>. QED  BY <2>1, <2>2
<1>3. F = Step_(F)  BY <1>2
<1>4. FlattenSeq(q) = F[Len(q)]  BY DEF FlattenSeq
<1>. HIDE DEF F
<1>5. Len(q) \in Nat  BY DEF Arrays
<1>6. \A i \in 1..Len(q) : F[i] = IF i = 1 THEN q[1] ELSE F[i - 1] \o q[i]
  <2>1. ASSUME NEW i \in 1..Len(q) PROVE F[i] = IF i = 1 THEN q[i] ELSE F[i - 1] \o q[i]
    <3>1. F[i] = Step_(F)[i]  BY <1>3
    <3>. QED  BY <3>1
  <2>. QED  BY <2>1
<1>7. \A i \in 1..Len(q) : F[i] \in Seq(Nat)
  <2>. DEFINE P == {n \in 0..Len(q) : n = 0 \/ F[n] \in Seq(Nat)}
  <2>1. 0 \in P  BY <1>5
  <2>2. ASSUME NEW n \in 0..(Len(q) - 1), n \in P PROVE n + 1 \in P
    <3>1. n + 1 \in 1..Len(q) /\ n + 1 \in 0..Len(q) /\ q[n + 1] \in Seq(Nat) /\ (n + 1) - 1 = n
      BY <1>5 DEF Arrays
    <3>2. CASE n = 0  BY <1>6, <3>1, <3>2
    <3>3. CASE n # 0
      <4>1. F[n + 1] = F[n] \o q[n + 1]
        <5>1. n + 1 # 1  BY <3>3, <1>5
        <5>. QED  BY <1>6, <3>1, <5>1
      <4>2. F[n] \in Seq(Nat)  BY <2>2, <3>3
      <4>. QED  BY <3>1, <4>1, <4>2, ConcatProperties
    <3>. QED  BY <3>2, <3>3
  <2>. HIDE DEF P
  <2>3. \A n \in 0..Len(q) : n \in P  BY <1>5, <2>1, <2>2, Induction
  <2>. QED  BY <2>3, <1>5 DEF P
<1>8. Flattens(F, q, Len(q))
  <2>1. F = [i \in 1..Len(q) |-> F[i]]
    <3>1. DOMAIN F = 1..Len(q)  BY <1>3
    <3>. QED  BY <1>3, <3>1
  <2>. QED  BY <2>1, <1>6, <1>7 DEF Flattens
<1>. QED  BY <1>4, <1>8

LEMMA Associates ==
  ASSUME NEW x \in Seq(Nat), NEW y \in Seq(Nat), NEW z \in Seq(Nat)
  PROVE  (x \o y) \o z = x \o (y \o z)
BY SMTT(30), ConcatAssociative

(* r is the part of q behind its first k arrays, which flatten to p.       *)
Behind(q, f, n, k, p, r, g, m) ==
  /\ q \in Arrays /\ r \in Arrays /\ {n, k, m} \subseteq Nat /\ k + m <= n /\ m <= Len(r)
  /\ Flattens(f, q, n) /\ Flattens(g, r, m) /\ \A i \in 1..m : q[k + i] = r[i]
  /\ p \in Seq(Nat) /\ (k = 0 => p = <<>>) /\ (k # 0 => p = f[k])

Follows(f, k, p, g, m) == \A i \in 1..m : f[k + i] = p \o g[i]

LEMMA FlattenBehind ==
  ASSUME NEW q, NEW f, NEW n, NEW k, NEW p, NEW r, NEW g, NEW m, Behind(q, f, n, k, p, r, g, m)
  PROVE  Follows(f, k, p, g, m)
<1>. USE DEF Behind
<1>. DEFINE P == {i \in 0..m : i = 0 \/ f[k + i] = p \o g[i]}
<1>1. 0 \in P  OBVIOUS
<1>2. ASSUME NEW i \in 0..(m - 1), i \in P PROVE i + 1 \in P
  <2>1. i + 1 \in 1..m /\ k + (i + 1) \in 1..n /\ i + 1 \in 0..m  OBVIOUS
  <2>2. f[k + (i + 1)] = IF k + (i + 1) = 1 THEN q[1] ELSE f[k + i] \o r[i + 1]
    <3>1. (k + (i + 1)) - 1 = k + i  BY <2>1
    <3>2. q[k + (i + 1)] = r[i + 1]  BY <2>1
    <3>3. f[k + (i + 1)] = IF k + (i + 1) = 1 THEN q[1] ELSE f[(k + (i + 1)) - 1] \o q[k + (i + 1)]
      BY <2>1 DEF Flattens
    <3>. QED  BY <3>1, <3>2, <3>3
  <2>3. g[i + 1] = IF i = 0 THEN r[1] ELSE g[i] \o r[i + 1]
    <3>1. (i + 1) - 1 = i /\ (i + 1 = 1 <=> i = 0)  BY <2>1
    <3>2. g[i + 1] = IF i + 1 = 1 THEN r[1] ELSE g[(i + 1) - 1] \o r[i + 1]  BY <2>1 DEF Flattens
    <3>. QED  BY <3>1, <3>2
  <2>4. r[i + 1] \in Seq(Nat)
    <3>1. Len(r) \in Nat  BY DEF Arrays
    <3>2. i + 1 \in 1..Len(r)  BY <2>1, <3>1
    <3>. QED  BY <3>2 DEF Arrays
  <2>5. CASE i = 0 /\ k = 0
    <3>1. f[k + (i + 1)] = q[1] /\ g[i + 1] = r[1] /\ p = <<>> /\ q[1] = r[1] /\ r[1] \in Seq(Nat)
      <4>1. q[k + 1] = r[1] /\ k + 1 = 1  BY <2>1, <2>5
      <4>. QED  BY <2>1, <2>2, <2>3, <2>4, <2>5, <4>1
    <3>2. f[k + (i + 1)] = p \o g[i + 1]  BY <3>1, ConcatEmptySeq
    <3>. QED  BY <2>1, <3>2
  <2>6. CASE i = 0 /\ k # 0
    <3>0. k + (i + 1) # 1 /\ k + i = k /\ i + 1 = 1  BY <2>6
    <3>1. f[k + (i + 1)] = f[k] \o r[1] /\ g[i + 1] = r[1] /\ p = f[k]  BY <2>2, <2>3, <2>6, <3>0
    <3>. QED  BY <2>1, <3>1
  <2>7. CASE i # 0
    <3>0. k + (i + 1) # 1 /\ i \in 1..m  BY <2>7
    <3>1. f[k + (i + 1)] = f[k + i] \o r[i + 1] /\ g[i + 1] = g[i] \o r[i + 1]
      BY <2>2, <2>3, <2>7, <3>0
    <3>2. f[k + i] = p \o g[i]  BY <1>2, <2>7
    <3>3. g[i] \in Seq(Nat)  BY <3>0 DEF Flattens
    <3>4. (p \o g[i]) \o r[i + 1] = p \o (g[i] \o r[i + 1])
      <4>1. p \in Seq(Nat)  OBVIOUS
      <4>. HIDE DEF Behind
      <4>. QED  BY <2>4, <3>3, <4>1, Associates
    <3>5. f[k + (i + 1)] = p \o g[i + 1]  BY <3>1, <3>2, <3>4
    <3>. QED  BY <2>1, <3>5
  <2>. QED  BY <2>5, <2>6, <2>7
<1>. HIDE DEF P
<1>3. \A i \in 0..m : i \in P  BY <1>1, <1>2, Induction
<1>. QED  BY <1>3 DEF P, Follows

(* Flattening, by cases on the list.                                       *)
LEMMA FlattenEmpty == FlattenSeq(<<>>) = <<>>
BY DEF FlattenSeq

LEMMA FlattenType ==
  ASSUME NEW q \in Arrays PROVE FlattenSeq(q) \in Seq(Nat)
<1>1. CASE Len(q) = 0
  <2>1. q = <<>>  BY <1>1, EmptySeq DEF Arrays
  <2>2. <<>> \in Seq(Nat)  OBVIOUS
  <2>. QED  BY <2>1, <2>2, FlattenEmpty
<1>2. CASE Len(q) # 0
  <2>1. PICK f : Flattens(f, q, Len(q)) /\ FlattenSeq(q) = f[Len(q)]  BY <1>2, FlattenIs
  <2>2. Len(q) \in 1..Len(q)  BY <1>2 DEF Arrays
  <2>. QED  BY <2>1, <2>2 DEF Flattens
<1>. QED  BY <1>1, <1>2

LEMMA FlattenAppend ==
  ASSUME NEW q \in Arrays, NEW x \in Seq(Nat)
  PROVE  FlattenSeq(Append(q, x)) = FlattenSeq(q) \o x
<1>. DEFINE r == Append(q, x)
            l == Len(q)
<1>1. /\ r \in Arrays /\ Len(r) = l + 1 /\ l \in Nat
      /\ (\A i \in 1..l : r[i] = q[i]) /\ r[l + 1] = x
  BY AppendProperties DEF Arrays
<1>. HIDE DEF r
<1>2. PICK f : Flattens(f, r, l + 1) /\ FlattenSeq(r) = f[l + 1]
  <2>1. l + 1 # 0  BY <1>1
  <2>. HIDE DEF l
  <2>. QED  BY <1>1, <2>1, FlattenIs
<1>3. CASE l = 0
  <2>1. q = <<>>  BY <1>3, EmptySeq DEF Arrays
  <2>2. r[1] = x /\ 1 \in 1..(l + 1) /\ l + 1 = 1  BY <1>1, <1>3
  <2>3. FlattenSeq(r) = x  BY <1>2, <2>2 DEF Flattens
  <2>4. FlattenSeq(q) \o x = x  BY <2>1, FlattenEmpty, ConcatEmptySeq
  <2>. QED  BY <2>3, <2>4 DEF r
<1>4. CASE l # 0
  <2>1. PICK g : Flattens(g, q, l) /\ FlattenSeq(q) = g[l]  BY <1>4, FlattenIs
  <2>2. l \in 1..l /\ l + 1 \in 1..(l + 1) /\ l + 1 # 1 /\ (l + 1) - 1 = l  BY <1>1, <1>4
  <2>3. \A i \in 1..l : f[0 + i] = <<>> \o g[i]
    <3>0. <<>> \in Seq(Nat) /\ 0 \in Nat /\ l + 1 \in Nat /\ 0 + l <= l + 1 /\ l <= Len(q)  BY <1>1
    <3>1. \A i \in 1..l : r[0 + i] = q[i]  BY <1>1
    <3>2. (0 = 0 => <<>> = <<>>) /\ (0 # 0 => <<>> = f[0])  OBVIOUS
    <3>3. Flattens(g, q, l) /\ Flattens(f, r, l + 1) /\ l \in Nat /\ r \in Arrays  BY <1>1, <1>2, <2>1
    <3>4. Behind(r, f, l + 1, 0, <<>>, q, g, l)  BY <3>0, <3>1, <3>2, <3>3 DEF Behind
    <3>5. Follows(f, 0, <<>>, g, l)  BY <3>4, FlattenBehind
    <3>. QED  BY <3>5 DEF Follows
  <2>4. f[l] = <<>> \o g[l]
    <3>1. 0 + l = l  BY <1>1
    <3>. QED  BY <2>2, <2>3, <3>1
  <2>5. g[l] \in Seq(Nat)  BY <2>1, <2>2 DEF Flattens
  <2>6. f[l] = g[l]  BY <2>4, <2>5, ConcatEmptySeq
  <2>7. f[l + 1] = f[l] \o x
    <3>1. f[l + 1] = f[(l + 1) - 1] \o r[l + 1]  BY <1>2, <2>2 DEF Flattens
    <3>. QED  BY <1>1, <2>2, <3>1
  <2>. QED  BY <1>2, <2>1, <2>6, <2>7 DEF r
<1>. QED  BY <1>3, <1>4

LEMMA FlattenOne ==
  ASSUME NEW x \in Seq(Nat) PROVE <<x>> \in Arrays /\ FlattenSeq(<<x>>) = x
<1>1. <<>> \in Arrays /\ Append(<<>>, x) = <<x>>  BY DEF Arrays
<1>2. FlattenSeq(<<x>>) = <<>> \o x  BY <1>1, FlattenAppend, FlattenEmpty
<1>. QED  BY <1>1, <1>2, ConcatEmptySeq DEF Arrays

LEMMA FlattenHead ==
  ASSUME NEW q \in Arrays, q # <<>>
  PROVE  Head(q) \in Seq(Nat) /\ Tail(q) \in Arrays /\ FlattenSeq(q) = Head(q) \o FlattenSeq(Tail(q))
<1>. DEFINE t == Tail(q)
            l == Len(t)
<1>1. /\ Head(q) = q[1] /\ Head(q) \in Seq(Nat) /\ t \in Arrays /\ Len(q) = l + 1 /\ l \in Nat
      /\ \A i \in 1..l : q[1 + i] = t[i]
  <2>1. Len(q) \in Nat \ {0}  BY EmptySeq DEF Arrays
  <2>2. /\ Head(q) \in Seq(Nat) /\ t \in Arrays /\ Len(t) = Len(q) - 1
        /\ \A i \in 1..Len(t) : t[i] = q[i + 1]
    BY HeadTailProperties DEF Arrays
  <2>. QED  BY <2>1, <2>2
<1>. HIDE DEF t
<1>2. PICK f : Flattens(f, q, l + 1) /\ FlattenSeq(q) = f[l + 1]
  <2>1. l + 1 # 0  BY <1>1
  <2>. HIDE DEF l
  <2>. QED  BY <1>1, <2>1, FlattenIs
<1>3. f[1] = q[1]
  <2>1. 1 \in 1..(l + 1)  BY <1>1
  <2>. QED  BY <1>2, <2>1 DEF Flattens
<1>4. CASE l = 0
  <2>1. t = <<>>  BY <1>1, <1>4, EmptySeq DEF Arrays
  <2>2. Head(q) \o <<>> = Head(q)  BY <1>1, ConcatEmptySeq
  <2>3. FlattenSeq(q) = f[1]  BY <1>2, <1>4
  <2>. QED  BY <1>1, <1>3, <2>1, <2>2, <2>3, FlattenEmpty DEF t
<1>5. CASE l # 0
  <2>1. PICK g : Flattens(g, t, l) /\ FlattenSeq(t) = g[l]  BY <1>1, <1>5, FlattenIs
  <2>2. \A i \in 1..l : f[1 + i] = q[1] \o g[i]
    <3>0. 1 \in Nat /\ l + 1 \in Nat /\ 1 + l <= l + 1 /\ l <= Len(t) /\ q[1] \in Seq(Nat) /\ q[1] = f[1] /\ 1 # 0
      BY <1>1, <1>3
    <3>1. (1 = 0 => q[1] = <<>>) /\ (1 # 0 => q[1] = f[1])  BY <3>0
    <3>2. \A i \in 1..l : q[1 + i] = t[i]  BY <1>1
    <3>3. Flattens(g, t, l) /\ Flattens(f, q, l + 1) /\ l \in Nat /\ t \in Arrays  BY <1>1, <1>2, <2>1
    <3>4. Behind(q, f, l + 1, 1, q[1], t, g, l)  BY <3>0, <3>1, <3>2, <3>3 DEF Behind
    <3>5. Follows(f, 1, q[1], g, l)  BY <3>4, FlattenBehind
    <3>. QED  BY <3>5 DEF Follows
  <2>3. f[l + 1] = q[1] \o g[l]
    <3>1. l \in 1..l /\ 1 + l = l + 1  BY <1>1, <1>5
    <3>. QED  BY <2>2, <3>1
  <2>. QED  BY <1>1, <1>2, <2>1, <2>3 DEF t
<1>. QED  BY <1>1, <1>4, <1>5 DEF t

(* Parts of a sequence. *)
LEMMA Slice ==
  ASSUME NEW s \in Seq(Nat), NEW o \in Nat, NEW l \in Nat, o <= l, l <= Len(s)
  PROVE  /\ SubSeq(s, o + 1, l) \in Seq(Nat) /\ Len(SubSeq(s, o + 1, l)) = l - o
         /\ \A i \in 1..(l - o) : SubSeq(s, o + 1, l)[i] = s[o + i]
<1>1. \A i \in (o + 1)..l : s[i] \in Nat
  <2>1. \A i \in (o + 1)..l : i \in 1..Len(s)  OBVIOUS
  <2>. QED  BY <2>1
<1>2. o + 1 \in Int /\ l \in Int /\ l - (o + 1) + 1 = l - o /\ \A i \in 1..(l - o) : (o + 1) + i - 1 = o + i
  OBVIOUS
<1>3. /\ SubSeq(s, o + 1, l) \in Seq(Nat)
      /\ Len(SubSeq(s, o + 1, l)) = IF o + 1 <= l THEN l - (o + 1) + 1 ELSE 0
      /\ \A i \in 1..(l - (o + 1) + 1) : SubSeq(s, o + 1, l)[i] = s[(o + 1) + i - 1]
  BY <1>1, <1>2, SubSeqProperties
<1>4. Len(SubSeq(s, o + 1, l)) = l - o
  <2>. DEFINE n == Len(SubSeq(s, o + 1, l))
  <2>1. n = IF o + 1 <= l THEN l - (o + 1) + 1 ELSE 0  BY <1>3
  <2>. HIDE DEF n
  <2>2. n = l - o  BY <1>2, <2>1
  <2>. QED  BY <2>2 DEF n
<1>. QED  BY <1>2, <1>3, <1>4

LEMMA SliceTaken ==
  ASSUME NEW s \in Seq(Nat), NEW o \in Nat, NEW l \in Nat, o <= l, l <= Len(s),
         NEW n \in Nat, n <= l - o
  PROVE  SubSeq(SubSeq(s, o + 1, l), n + 1, l - o) = SubSeq(s, o + n + 1, l)
<1>. DEFINE q == SubSeq(s, o + 1, l)
            a == SubSeq(q, n + 1, l - o)
            b == SubSeq(s, (o + n) + 1, l)
<1>1. q \in Seq(Nat) /\ Len(q) = l - o /\ \A i \in 1..(l - o) : q[i] = s[o + i]  BY Slice
<1>. HIDE DEF q
<1>2. l - o \in Nat /\ o + n \in Nat /\ o + n <= l  OBVIOUS
<1>3. a \in Seq(Nat) /\ Len(a) = (l - o) - n /\ \A i \in 1..((l - o) - n) : a[i] = q[n + i]
  BY <1>1, <1>2, Slice
<1>4. b \in Seq(Nat) /\ Len(b) = l - (o + n) /\ \A i \in 1..(l - (o + n)) : b[i] = s[(o + n) + i]
  BY <1>2, Slice
<1>. HIDE DEF a, b
<1>5. \A i \in 1..Len(a) : a[i] = b[i]
  <2>1. ASSUME NEW i \in 1..Len(a) PROVE a[i] = b[i]
    <3>1. /\ i \in 1..((l - o) - n) /\ i \in 1..(l - (o + n)) /\ n + i \in 1..(l - o)
          /\ o + (n + i) = (o + n) + i
      BY <1>2, <1>3
    <3>. QED  BY <1>1, <1>3, <1>4, <3>1
  <2>. QED  BY <2>1
<1>6. Len(a) = Len(b)  BY <1>3, <1>4
<1>7. a = b  BY <1>3, <1>4, <1>5, <1>6, SeqEqual
<1>. QED  BY <1>7 DEF a, b, q

LEMMA SliceKept ==
  ASSUME NEW s \in Seq(Nat), NEW o \in Nat, NEW l \in Nat, o <= l, l <= Len(s),
         NEW n \in Nat, n <= l - o
  PROVE  SubSeq(SubSeq(s, o + 1, l), 1, n) = SubSeq(s, o + 1, o + n)
<1>. DEFINE q == SubSeq(s, o + 1, l)
            a == SubSeq(q, 0 + 1, n)
            b == SubSeq(s, o + 1, o + n)
<1>1. q \in Seq(Nat) /\ Len(q) = l - o /\ \A i \in 1..(l - o) : q[i] = s[o + i]  BY Slice
<1>. HIDE DEF q
<1>2. 0 \in Nat /\ 0 <= n /\ o + n \in Nat /\ o <= o + n /\ o + n <= Len(s) /\ (o + n) - o = n  OBVIOUS
<1>3. a \in Seq(Nat) /\ Len(a) = n - 0 /\ \A i \in 1..(n - 0) : a[i] = q[0 + i]
  BY <1>1, <1>2, Slice
<1>4. b \in Seq(Nat) /\ Len(b) = (o + n) - o /\ \A i \in 1..((o + n) - o) : b[i] = s[o + i]
  BY <1>2, Slice
<1>. HIDE DEF a, b
<1>5. \A i \in 1..Len(a) : a[i] = b[i]
  <2>1. ASSUME NEW i \in 1..Len(a) PROVE a[i] = b[i]
    <3>1. i \in 1..(n - 0) /\ i \in 1..((o + n) - o) /\ i \in 1..(l - o) /\ 0 + i = i  BY <1>3
    <3>. QED  BY <1>1, <1>3, <1>4, <3>1
  <2>. QED  BY <2>1
<1>6. Len(a) = Len(b)  BY <1>3, <1>4
<1>7. a = b  BY <1>3, <1>4, <1>5, <1>6, SeqEqual
<1>8. 0 + 1 = 1  OBVIOUS
<1>. QED  BY <1>7, <1>8 DEF a, b, q

(* copy(): what is written, behind what was there.                         *)
LEMMA Copies ==
  ASSUME NEW x \in Seq(Nat), NEW dst \in Seq(Nat), NEW i \in Nat, i + Len(x) <= Len(dst)
  PROVE  /\ copy(x, dst, i) \in Seq(Nat) /\ Len(copy(x, dst, i)) = Len(dst)
         /\ \A k \in 1..Len(dst) :
              copy(x, dst, i)[k] = IF k \in (i + 1)..(i + Len(x)) THEN x[k - i] ELSE dst[k]
<1>1. copy(x, dst, i) = [k \in 1..Len(dst) |-> IF k \in (i + 1)..(i + Len(x)) THEN x[k - i] ELSE dst[k]]
  BY DEF copy
<1>2. ASSUME NEW k \in 1..Len(dst)
      PROVE  (IF k \in (i + 1)..(i + Len(x)) THEN x[k - i] ELSE dst[k]) \in Nat
  <2>1. CASE k \in (i + 1)..(i + Len(x))
    <3>1. k - i \in 1..Len(x)  BY <2>1
    <3>. QED  BY <2>1, <3>1
  <2>2. CASE ~(k \in (i + 1)..(i + Len(x)))  BY <2>2
  <2>. QED  BY <2>1, <2>2
<1>3. Len(dst) \in Nat  OBVIOUS
<1>. QED  BY <1>1, <1>2, <1>3

LEMMA CopySlice ==
  ASSUME NEW x \in Seq(Nat), NEW dst \in Seq(Nat), NEW i \in Nat, i + Len(x) <= Len(dst),
         NEW o \in Nat, o <= i
  PROVE  SubSeq(copy(x, dst, i), o + 1, i + Len(x)) = SubSeq(dst, o + 1, i) \o x
<1>. DEFINE c == copy(x, dst, i)
            l == i + Len(x)
            a == SubSeq(c, o + 1, l)
            h == SubSeq(dst, o + 1, i)
            b == h \o x
<1>1. c \in Seq(Nat) /\ Len(c) = Len(dst) /\ \A k \in 1..Len(dst) :
        c[k] = IF k \in (i + 1)..l THEN x[k - i] ELSE dst[k]
  BY Copies
<1>. HIDE DEF c
<1>2. Len(x) \in Nat /\ Len(dst) \in Nat /\ l \in Nat /\ o <= l /\ l <= Len(dst) /\ i <= Len(dst)  OBVIOUS
<1>3. a \in Seq(Nat) /\ Len(a) = l - o /\ \A k \in 1..(l - o) : a[k] = c[o + k]
  <2>. HIDE DEF l
  <2>. QED  BY <1>1, <1>2, Slice
<1>4. h \in Seq(Nat) /\ Len(h) = i - o /\ \A k \in 1..(i - o) : h[k] = dst[o + k]  BY <1>2, Slice
<1>. HIDE DEF a, h
<1>5. b \in Seq(Nat) /\ Len(b) = (i - o) + Len(x)
      /\ \A k \in 1..((i - o) + Len(x)) : b[k] = IF k <= i - o THEN h[k] ELSE x[k - (i - o)]
  <2>1. /\ b \in Seq(Nat) /\ Len(b) = Len(h) + Len(x)
        /\ \A k \in 1..(Len(h) + Len(x)) : b[k] = IF k <= Len(h) THEN h[k] ELSE x[k - Len(h)]
    BY <1>4, ConcatProperties
  <2>. HIDE DEF b
  <2>. QED  BY <1>4, <2>1
<1>. HIDE DEF b
<1>6. ASSUME NEW k \in 1..Len(a) PROVE a[k] = b[k]
  <2>1. k \in 1..(l - o) /\ o + k \in 1..Len(dst) /\ k \in 1..((i - o) + Len(x))  BY <1>2, <1>3
  <2>2. CASE k <= i - o
    <3>1. ~(o + k \in (i + 1)..l) /\ k \in 1..(i - o)  BY <1>2, <2>1, <2>2
    <3>2. a[k] = dst[o + k]  BY <1>1, <1>3, <2>1, <3>1
    <3>3. b[k] = h[k]  BY <1>5, <2>1, <2>2
    <3>. QED  BY <1>4, <3>1, <3>2, <3>3
  <2>3. CASE ~(k <= i - o)
    <3>1. o + k \in (i + 1)..l /\ (o + k) - i = k - (i - o)  BY <1>2, <2>1, <2>3
    <3>2. a[k] = x[(o + k) - i]  BY <1>1, <1>3, <2>1, <3>1
    <3>3. b[k] = x[k - (i - o)]  BY <1>5, <2>1, <2>3
    <3>. QED  BY <3>1, <3>2, <3>3
  <2>. QED  BY <2>2, <2>3
<1>7. Len(a) = Len(b)  BY <1>2, <1>3, <1>5
<1>8. a = b  BY <1>3, <1>5, <1>6, <1>7, SeqEqual
<1>. QED  BY <1>8 DEF a, b, c, h

(* The same, with their conditions and what they say by name.              *)
Within(s, o, l, n) == s \in Seq(Nat) /\ {o, l, n} \subseteq Nat /\ o <= l /\ l <= Len(s) /\ n <= l - o
KeepsFirst(s, o, l, n) == SubSeq(SubSeq(s, o + 1, l), 1, n) = SubSeq(s, o + 1, o + n)
LEMMA Keeping ==
  ASSUME NEW s, NEW o, NEW l, NEW n, Within(s, o, l, n) PROVE KeepsFirst(s, o, l, n)
BY SliceKept DEF Within, KeepsFirst

HasRoom(x, dst, i, o) ==
  x \in Seq(Nat) /\ dst \in Seq(Nat) /\ {i, o} \subseteq Nat /\ i + Len(x) <= Len(dst) /\ o <= i
CopiesBehind(x, dst, i, o) ==
  SubSeq(copy(x, dst, i), o + 1, i + Len(x)) = SubSeq(dst, o + 1, i) \o x
LEMMA Copying ==
  ASSUME NEW x, NEW dst, NEW i, NEW o, HasRoom(x, dst, i, o) PROVE CopiesBehind(x, dst, i, o)
BY CopySlice DEF HasRoom, CopiesBehind

(* The next n bytes.                                                       *)
LEMMA News ==
  ASSUME turn \in Nat, NEW n \in Nat PROVE New(n) \in Seq(Nat) /\ Len(New(n)) = n
<1>1. \A k \in 1..n : ((turn + k - 1) % Turns) + 1 \in Nat
  <2>1. \A k \in 1..n : turn + k - 1 \in Nat  OBVIOUS
  <2>2. \A j \in Nat : (j % 3) + 1 \in Nat  OBVIOUS
  <2>. QED  BY <2>1, <2>2 DEF Turns
<1>. QED  BY <1>1 DEF New

LEMMA NewsApart ==
  ASSUME turn \in Nat, NEW m \in Nat, NEW n \in Nat
  PROVE  New(m) \o SubSeq(New(m + n), m + 1, m + n) = New(m + n)
<1>. DEFINE q == New(m + n)
<1>1. q \in Seq(Nat) /\ Len(q) = m + n /\ New(m) \in Seq(Nat) /\ Len(New(m)) = m  BY News
<1>2. m \in 1..m => TRUE  OBVIOUS
<1>3. New(m) = SubSeq(q, 1, m)
  <2>. DEFINE a == SubSeq(q, 0 + 1, m)
  <2>1. a \in Seq(Nat) /\ Len(a) = m - 0 /\ \A i \in 1..(m - 0) : a[i] = q[0 + i]
    <3>. HIDE DEF q
    <3>1. 0 \in Nat /\ 0 <= m /\ m <= Len(q)  BY <1>1
    <3>. QED  BY <1>1, <3>1, Slice
  <2>2. ASSUME NEW i \in 1..m PROVE New(m)[i] = a[i]
    <3>1. i \in 1..(m - 0) /\ 0 + i = i /\ i \in 1..(m + n)  OBVIOUS
    <3>2. New(m)[i] = ((turn + i - 1) % Turns) + 1 /\ q[i] = ((turn + i - 1) % Turns) + 1
      BY <3>1 DEF New
    <3>. HIDE DEF q
    <3>. QED  BY <2>1, <3>1, <3>2
  <2>3. Len(a) = m  BY <2>1
  <2>. HIDE DEF a
  <2>4. New(m) = a  BY <1>1, <2>1, <2>2, <2>3, SeqEqual
  <2>5. 0 + 1 = 1  OBVIOUS
  <2>. QED  BY <2>4, <2>5 DEF a
<1>. HIDE DEF q
<1>4. SubSeq(q, 1, m) \o SubSeq(q, m + 1, m + n) = SubSeq(q, 1, m + n)
  <2>1. 1 \in 1..(Len(q) + 1) /\ m \in (1 - 1)..Len(q) /\ m + n \in m..Len(q)  BY <1>1
  <2>. QED  BY <1>1, <2>1, ConcatAdjacentSubSeq
<1>5. SubSeq(q, 1, m + n) = q  BY <1>1, SubSeqFull
<1>. QED  BY <1>3, <1>4, <1>5 DEF q

(* DenoBuffer. *)
Deno == [mem : Seq(Nat), len : Nat, off : Nat]
Fits(b) == b \in Deno /\ b.off <= b.len /\ b.len <= Len(b.mem) /\ Len(b.mem) <= MAX_SIZE

LEMMA Contents ==
  ASSUME NEW b, Fits(b)
  PROVE  /\ bytes(b) \in Seq(Nat) /\ Len(bytes(b)) = length(b) /\ length(b) \in Nat
         /\ capacity(b) \in Nat /\ length(b) <= capacity(b)
BY Slice DEF Fits, Deno, bytes, length, capacity

LEMMA Minimum ==
  ASSUME NEW m \in Nat, NEW n \in Nat
  PROVE  Min({m, n}) \in {m, n} /\ Min({m, n}) <= m /\ Min({m, n}) <= n
<1>1. \E x \in {m, n} : \A y \in {m, n} : x <= y
  <2>1. CASE m <= n  BY <2>1
  <2>2. CASE ~(m <= n)  BY <2>2
  <2>. QED  BY <2>1, <2>2
<1>. QED  BY <1>1 DEF Min

(* Another length. *)
LEMMA Reslices ==
  ASSUME NEW b, b \in Deno, NEW n \in Nat
  PROVE  _reslice(b, n) \in Deno /\ _reslice(b, n).len = n
         /\ _reslice(b, n).off = b.off /\ _reslice(b, n).mem = b.mem
BY DEF _reslice, Deno

(* An empty buffer.                                                        *)
LEMMA Resets ==
  ASSUME NEW b, Fits(b)
  PROVE  /\ Fits(reset(b)) /\ reset(b).off = 0 /\ reset(b).len = 0 /\ reset(b).mem = b.mem
         /\ bytes(reset(b)) = <<>>
<1>. DEFINE z == _reslice(b, 0)
<1>0. 0 \in Nat  OBVIOUS
<1>1. z \in Deno /\ z.len = 0 /\ z.off = b.off /\ z.mem = b.mem  BY <1>0, Reslices DEF Fits
<1>. HIDE DEF z
<1>5. [z EXCEPT !.off = 0] \in Deno /\ [z EXCEPT !.off = 0].off = 0
      /\ [z EXCEPT !.off = 0].len = z.len /\ [z EXCEPT !.off = 0].mem = z.mem
  BY <1>0, <1>1 DEF Deno
<1>6. reset(b) = [z EXCEPT !.off = 0]  BY DEF reset, z
<1>2. reset(b) \in Deno /\ reset(b).off = 0 /\ reset(b).len = 0 /\ reset(b).mem = b.mem
  BY <1>1, <1>5, <1>6
<1>3. bytes(reset(b)) = SubSeq(b.mem, 0 + 1, 0)  BY <1>2 DEF bytes
<1>4. SubSeq(b.mem, 0 + 1, 0) = <<>>  BY SubSeqEmpty
<1>. QED  BY <1>2, <1>3, <1>4 DEF Fits, Deno

LEMMA Recovers ==
  ASSUME NEW b, Fits(b)
  PROVE  Fits(Recovered(b)) /\ bytes(Recovered(b)) = bytes(b) /\ length(Recovered(b)) = length(b)
<1>1. CASE length(b) # 0  BY <1>1 DEF Recovered
<1>2. CASE length(b) = 0
  <2>1. bytes(b) = <<>>  BY <1>2, Contents, EmptySeq
  <2>2. Recovered(b) = reset(b)  BY <1>2 DEF Recovered
  <2>3. length(reset(b)) = 0  BY Resets DEF length
  <2>. QED  BY <1>2, <2>1, <2>2, <2>3, Resets
<1>. QED  BY <1>1, <1>2

LEMMA Ascending ==
  ASSUME NEW z \in Nat PROVE [k \in 1..z |-> k] \in Seq(Nat) /\ Len([k \in 1..z |-> k]) = z
OBVIOUS

LEMMA Zeros ==
  ASSUME NEW z \in Nat PROVE [i \in 1..z |-> 0] \in Seq(Nat) /\ Len([i \in 1..z |-> 0]) = z
OBVIOUS

(* What _grow() returns: room for n bytes behind the contents.             *)
Room(g, n) ==
  /\ Fits(g.b) /\ g.i \in Nat /\ g.b.off <= g.i /\ g.b.len = g.i + n

LEMMA Grows ==
  ASSUME NEW b, Fits(b), NEW n \in Nat, ~Throws(b, n), MAX_SIZE \in Nat
  PROVE  Room(_grow(b, n), n) /\ SubSeq(_grow(b, n).b.mem, _grow(b, n).b.off + 1, _grow(b, n).i) = bytes(b)
<1>. DEFINE g == _grow(b, n)
<1>1. /\ b \in Deno /\ b.mem \in Seq(Nat) /\ b.len \in Nat /\ b.off \in Nat /\ length(b) = b.len - b.off
      /\ capacity(b) = Len(b.mem) /\ b.off <= b.len /\ b.len <= Len(b.mem) /\ Len(b.mem) <= MAX_SIZE
      /\ Len(b.mem) \in Nat
  BY DEF Fits, Deno, length, capacity
<1>2. bytes(b) \in Seq(Nat) /\ Len(bytes(b)) = length(b) /\ length(b) \in Nat  BY Contents
<1>3. CASE TryGrowByReslice(b, n)
  <2>1. g.b = _reslice(b, b.len + n) /\ g.i = b.len  BY <1>3 DEF _grow, Grown
  <2>2. b.len + n \in Nat /\ b.len + n <= Len(b.mem)  BY <1>1, <1>3 DEF TryGrowByReslice
  <2>3. g.b \in Deno /\ g.b.len = b.len + n /\ g.b.off = b.off /\ g.b.mem = b.mem
    <3>1. b \in Deno /\ b.len + n \in Nat  BY <1>1, <2>2
    <3>. DEFINE m == b.len + n
    <3>. HIDE DEF m, g
    <3>2. _reslice(b, m) \in Deno /\ _reslice(b, m).len = m /\ _reslice(b, m).off = b.off /\ _reslice(b, m).mem = b.mem
      BY <3>1, Reslices DEF m
    <3>. QED  BY <2>1, <3>2 DEF m
  <2>. HIDE DEF g
  <2>4. Room(g, n)  BY <1>1, <2>1, <2>2, <2>3 DEF Room, Fits
  <2>5. SubSeq(g.b.mem, g.b.off + 1, g.i) = bytes(b)  BY <2>1, <2>3 DEF bytes
  <2>. QED  BY <2>4, <2>5 DEF g
<1>4. CASE ~TryGrowByReslice(b, n)
  <2>. DEFINE dst == IF Slides(b, n) THEN b.mem ELSE [i \in 1..Min({2 * capacity(b) + n, MAX_SIZE}) |-> 0]
              k == IF Slides(b, n) THEN Slid(b) ELSE Reallocated(b, n)
  <2>1. dst \in Seq(Nat) /\ Len(dst) <= MAX_SIZE /\ length(b) + n <= Len(dst)
    <3>1. CASE Slides(b, n)
      <4>0. \A m \in Nat : m \div 2 \in Nat /\ m \div 2 <= m  OBVIOUS
      <4>. DEFINE half == Len(b.mem) \div 2
      <4>3. length(b) + n <= half  BY <1>1, <3>1 DEF Slides
      <4>4. half \in Nat /\ half <= Len(b.mem)  BY <1>1, <4>0
      <4>5. length(b) + n \in Nat  BY <1>2
      <4>. HIDE DEF half
      <4>1. length(b) + n <= Len(b.mem)  BY <1>1, <4>3, <4>4, <4>5
      <4>2. dst = b.mem  BY <3>1
      <4>. HIDE DEF dst
      <4>. QED  BY <1>1, <4>1, <4>2
    <3>2. CASE ~Slides(b, n)
      <4>1. Len(b.mem) + n <= MAX_SIZE
        BY <1>1, <1>4, <3>2 DEF Throws, TooLarge
      <4>2. 2 * capacity(b) + n \in Nat  BY <1>1
      <4>. DEFINE z == Min({2 * capacity(b) + n, MAX_SIZE})
      <4>3. z \in {2 * capacity(b) + n, MAX_SIZE} /\ z <= MAX_SIZE  BY <4>2, Minimum
      <4>. HIDE DEF z
      <4>4. z \in Nat /\ length(b) + n <= z  BY <1>1, <1>2, <4>1, <4>2, <4>3
      <4>5. dst = [i \in 1..z |-> 0]  BY <3>2 DEF z
      <4>. HIDE DEF dst
      <4>6. dst \in Seq(Nat) /\ Len(dst) = z
        <5>1. [i \in 1..z |-> 0] \in Seq(Nat) /\ Len([i \in 1..z |-> 0]) = z  BY <4>4, Zeros
        <5>. QED  BY <4>5, <5>1
      <4>. QED  BY <4>3, <4>4, <4>6
    <3>. QED  BY <3>1, <3>2
  <2>2. k = [b EXCEPT !.mem = copy(bytes(b), dst, 0), !.off = 0]
    BY DEF Slid, Reallocated
  <2>. HIDE DEF dst, k
  <2>3. copy(bytes(b), dst, 0) \in Seq(Nat) /\ Len(copy(bytes(b), dst, 0)) = Len(dst)
    BY <1>2, <2>1, Copies
  <2>4. k \in Deno /\ k.mem = copy(bytes(b), dst, 0) /\ k.off = 0  BY <1>1, <2>2, <2>3 DEF Deno
  <2>5. Min({length(b) + n, MAX_SIZE}) = length(b) + n
    <3>1. length(b) + n \in Nat /\ length(b) + n <= MAX_SIZE  BY <1>2, <2>1
    <3>2. /\ Min({length(b) + n, MAX_SIZE}) \in {length(b) + n, MAX_SIZE}
          /\ Min({length(b) + n, MAX_SIZE}) <= length(b) + n
      BY <3>1, Minimum
    <3>. QED  BY <3>1, <3>2
  <2>6. g.b = _reslice(k, length(b) + n) /\ g.i = length(b)
    BY <1>4, <2>5 DEF _grow, Grown, k
  <2>7. length(b) + n \in Nat  BY <1>2
  <2>8. g.b \in Deno /\ g.b.len = length(b) + n /\ g.b.off = 0 /\ g.b.mem = copy(bytes(b), dst, 0)
    BY <2>4, <2>6, <2>7, Reslices
  <2>. HIDE DEF g
  <2>9. Room(g, n)  BY <1>2, <2>1, <2>3, <2>6, <2>7, <2>8 DEF Room, Fits
  <2>10. SubSeq(g.b.mem, g.b.off + 1, g.i) = bytes(b)
    <3>1. SubSeq(copy(bytes(b), dst, 0), 0 + 1, 0 + length(b)) = SubSeq(dst, 0 + 1, 0) \o bytes(b)
      <4>1. 0 \in Nat /\ 0 + Len(bytes(b)) <= Len(dst) /\ 0 <= 0  BY <1>2, <2>1
      <4>2. SubSeq(copy(bytes(b), dst, 0), 0 + 1, 0 + Len(bytes(b))) = SubSeq(dst, 0 + 1, 0) \o bytes(b)
        BY <1>2, <2>1, <4>1, CopySlice
      <4>. QED  BY <1>2, <4>2
    <3>2. SubSeq(dst, 0 + 1, 0) = <<>>  BY SubSeqEmpty
    <3>3. <<>> \o bytes(b) = bytes(b)  BY <1>2, ConcatEmptySeq
    <3>4. 0 + length(b) = length(b)  BY <1>2
    <3>. QED  BY <2>6, <2>8, <3>1, <3>2, <3>3, <3>4
  <2>. QED  BY <2>9, <2>10 DEF g
<1>. QED  BY <1>3, <1>4

(* The invariant. *)
Data == [buffers : Arrays, byteLength : Nat]
BufInv ==
  /\ bufUse \in {"DataBuffer", "DenoBuffer"} /\ turn \in Nat /\ held \in Seq(Nat)
  /\ data \in Data /\ Fits(deno)
  /\ BuffersAreQueues

(* What is left of held, and what is behind it.                            *)
LEMMA Nothing ==
  ASSUME held \in Seq(Nat), Taken(0) PROVE held' = held /\ turn' = turn
<1>1. SubSeq(held, 1, Len(held)) = held  BY SubSeqFull
<1>2. 0 + 1 = 1  OBVIOUS
<1>. QED  BY <1>1, <1>2 DEF Taken

LEMMA Puts ==
  ASSUME held \in Seq(Nat), turn \in Nat, NEW n \in Nat, Put(n)
  PROVE  held' = held \o New(n) /\ held' \in Seq(Nat) /\ turn' \in Nat
<1>1. New(n) \in Seq(Nat)  BY News
<1>2. held \o New(n) \in Seq(Nat)  BY <1>1, ConcatProperties
<1>3. turn + n \in Nat /\ \A j \in Nat : j % 3 \in Nat  OBVIOUS
<1>4. (turn + n) % 3 \in Nat  BY <1>3
<1>. QED  BY <1>2, <1>4 DEF Put, Turns

LEMMA Remainder ==
  ASSUME NEW x \in Seq(Nat), NEW y \in Seq(Nat)
  PROVE  SubSeq(x \o y, Len(x) + 1, Len(x \o y)) = y
<1>. DEFINE z == x \o y
            a == SubSeq(z, Len(x) + 1, Len(z))
<1>1. /\ z \in Seq(Nat) /\ Len(z) = Len(x) + Len(y)
      /\ \A k \in 1..(Len(x) + Len(y)) : z[k] = IF k <= Len(x) THEN x[k] ELSE y[k - Len(x)]
  BY ConcatProperties
<1>. HIDE DEF z
<1>2. Len(x) \in Nat /\ Len(y) \in Nat /\ Len(z) \in Nat /\ Len(x) <= Len(z) /\ Len(z) - Len(x) = Len(y)
  BY <1>1
<1>3. a \in Seq(Nat) /\ Len(a) = Len(z) - Len(x) /\ \A k \in 1..(Len(z) - Len(x)) : a[k] = z[Len(x) + k]
  <2>. DEFINE o == Len(x)
              l == Len(z)
  <2>1. z \in Seq(Nat) /\ o \in Nat /\ l \in Nat /\ o <= l /\ l <= Len(z)  BY <1>1, <1>2
  <2>. HIDE DEF o, l
  <2>2. /\ SubSeq(z, o + 1, l) \in Seq(Nat) /\ Len(SubSeq(z, o + 1, l)) = l - o
        /\ \A k \in 1..(l - o) : SubSeq(z, o + 1, l)[k] = z[o + k]
    BY <2>1, Slice
  <2>. QED  BY <2>2 DEF o, l
<1>. HIDE DEF a
<1>4. ASSUME NEW k \in 1..Len(a) PROVE a[k] = y[k]
  <2>1. /\ k \in 1..(Len(z) - Len(x)) /\ Len(x) + k \in 1..(Len(x) + Len(y)) /\ ~(Len(x) + k <= Len(x))
        /\ (Len(x) + k) - Len(x) = k
    BY <1>2, <1>3
  <2>. QED  BY <1>1, <1>3, <2>1
<1>5. a = y  BY <1>2, <1>3, <1>4, SeqEqual
<1>. QED  BY <1>5 DEF a, z

(* DataBuffer: what is in its arrays is what is held.                      *)
Packed ==
  /\ data' \in Data /\ held' \in Seq(Nat) /\ turn' \in Nat
  /\ held' = FlattenSeq(data'.buffers) /\ data'.byteLength = Len(held')

LEMMA Fills ==
  ASSUME BufInv, bufUse = "DataBuffer", NEW m \in Nat, NEW n \in Nat, fill(m, n)
  PROVE  Packed
<1>. DEFINE q == data.buffers
            a == New(m)
            b == SubSeq(New(m + n), m + 1, m + n)
<1>1. /\ q \in Arrays /\ turn \in Nat /\ held \in Seq(Nat) /\ held = FlattenSeq(q)
      /\ data.byteLength \in Nat /\ data.byteLength = Len(held) /\ m + n \in Nat
  BY DEF BufInv, BuffersAreQueues, Data
<1>2. a \in Seq(Nat) /\ Len(a) = m /\ New(m + n) \in Seq(Nat) /\ Len(New(m + n)) = m + n
  BY <1>1, News
<1>3. b \in Seq(Nat)
  <2>. DEFINE w == New(m + n)
  <2>1. w \in Seq(Nat) /\ m + n \in Nat /\ m <= m + n /\ m + n <= Len(w)  BY <1>1, <1>2
  <2>. HIDE DEF w
  <2>2. SubSeq(w, m + 1, m + n) \in Seq(Nat)  BY <2>1, Slice
  <2>. QED  BY <2>2 DEF w
<1>4. a \o b = New(m + n)  BY <1>1, NewsApart
<1>5. Put(m + n) /\ data' = [buffers |-> Append(q, a) \o (IF n = 0 THEN <<>> ELSE <<b>>),
                             byteLength |-> data.byteLength + m + n]
  BY DEF fill
<1>6. held' = held \o New(m + n) /\ held' \in Seq(Nat) /\ turn' \in Nat  BY <1>1, <1>5, Puts
<1>7. Len(held') = data.byteLength + m + n
  <2>. DEFINE w == New(m + n)
  <2>1. w \in Seq(Nat) /\ Len(w) = m + n  BY <1>2
  <2>. HIDE DEF w
  <2>2. Len(held \o w) = Len(held) + Len(w)  BY <1>1, <2>1, ConcatProperties
  <2>3. Len(held \o w) = data.byteLength + m + n  BY <1>1, <2>1, <2>2
  <2>. QED  BY <1>6, <2>3 DEF w
<1>. HIDE DEF q, a, b
<1>8. Append(q, a) \in Arrays /\ FlattenSeq(Append(q, a)) = held \o a
  <2>1. Append(q, a) \in Arrays  BY <1>1, <1>2, AppendProperties DEF Arrays
  <2>. QED  BY <1>1, <1>2, <2>1, FlattenAppend
<1>9. data'.buffers \in Arrays /\ FlattenSeq(data'.buffers) = held \o New(m + n)
  <2>1. CASE n = 0
    <3>1. data'.buffers = Append(q, a)
      <4>1. data'.buffers = Append(q, a) \o <<>>  BY <1>5, <2>1
      <4>2. Append(q, a) \o <<>> = Append(q, a)  BY <1>8, ConcatEmptySeq DEF Arrays
      <4>. QED  BY <4>1, <4>2
    <3>2. m + n = m  BY <2>1
    <3>. QED  BY <1>8, <3>1, <3>2 DEF a
  <2>2. CASE n # 0
    <3>. DEFINE p == Append(q, a)
    <3>1. data'.buffers = p \o <<b>>  BY <1>5, <2>2
    <3>2. p \in Arrays /\ FlattenSeq(p) = held \o a  BY <1>8
    <3>. HIDE DEF p
    <3>3. p \o <<b>> = Append(p, b)  BY <1>3, <3>2, AppendIsConcat DEF Arrays
    <3>4. Append(p, b) \in Arrays  BY <1>3, <3>2, AppendProperties DEF Arrays
    <3>5. FlattenSeq(Append(p, b)) = FlattenSeq(p) \o b  BY <1>3, <3>2, FlattenAppend
    <3>6. (held \o a) \o b = held \o (a \o b)  BY <1>1, <1>2, <1>3, Associates
    <3>. QED  BY <1>4, <3>1, <3>2, <3>3, <3>4, <3>5, <3>6
  <2>. QED  BY <2>1, <2>2
<1>10. data'.byteLength = data.byteLength + m + n  BY <1>5
<1>11. data' \in Data
  <2>1. data' = [buffers |-> data'.buffers, byteLength |-> data'.byteLength]  BY <1>5
  <2>2. data'.byteLength \in Nat  BY <1>1, <1>10
  <2>. QED  BY <1>9, <2>1, <2>2 DEF Data
<1>. QED  BY <1>6, <1>7, <1>9, <1>10, <1>11 DEF Packed

LEMMA Single ==
  ASSUME NEW q \in Arrays, Len(q) = 1 PROVE q = <<q[1]>> /\ q[1] \in Seq(Nat)
<1>1. q \in Seq(Seq(Nat)) /\ q[1] \in Seq(Nat)  BY DEF Arrays
<1>. DEFINE x == q[1]
<1>2. x \in Seq(Nat)  BY <1>1
<1>. HIDE DEF x
<1>3. <<x>> \in Seq(Seq(Nat)) /\ Len(<<x>>) = 1 /\ <<x>>[1] = x  BY <1>2
<1>4. \A i \in 1..Len(q) : q[i] = <<x>>[i]  BY <1>3 DEF x
<1>5. Len(q) = Len(<<x>>)  BY <1>3
<1>6. q = <<x>>  BY <1>1, <1>3, <1>4, <1>5, SeqEqual
<1>. QED  BY <1>1, <1>6 DEF x

(* pack() leaves one array with everything.                                *)
LEMMA Packs ==
  ASSUME NEW d \in Data
  PROVE  /\ pack(d) \in Data /\ FlattenSeq(pack(d).buffers) = FlattenSeq(d.buffers)
         /\ pack(d).byteLength = d.byteLength
         /\ d.buffers # <<>> => pack(d).buffers = <<FlattenSeq(d.buffers)>>
<1>. DEFINE q == d.buffers
<1>1. q \in Arrays /\ Len(q) \in Nat  BY DEF Data, Arrays
<1>2. CASE Len(q) > 1
  <2>. DEFINE x == FlattenSeq(q)
  <2>1. x \in Seq(Nat)  BY <1>1, FlattenType
  <2>2. pack(d) = [d EXCEPT !.buffers = <<x>>]  BY <1>2 DEF pack
  <2>. HIDE DEF x
  <2>3. <<x>> \in Arrays /\ FlattenSeq(<<x>>) = x  BY <2>1, FlattenOne
  <2>4. pack(d) \in Data /\ pack(d).buffers = <<x>> /\ pack(d).byteLength = d.byteLength
    BY <2>2, <2>3 DEF Data
  <2>. QED  BY <2>3, <2>4 DEF x
<1>3. CASE ~(Len(q) > 1)
  <2>1. pack(d) = d  BY <1>3 DEF pack
  <2>2. q # <<>> => q = <<FlattenSeq(q)>>
    <3>1. SUFFICES ASSUME q # <<>> PROVE q = <<FlattenSeq(q)>>  OBVIOUS
    <3>. HIDE DEF q
    <3>5. Len(q) # 0  BY <1>1, <3>1, EmptySeq DEF Arrays
    <3>2. Len(q) = 1
      <4>. DEFINE l == Len(q)
      <4>1. l \in Nat /\ ~(l > 1) /\ l # 0  BY <1>1, <1>3, <3>5
      <4>. HIDE DEF l
      <4>2. l = 1  BY <4>1
      <4>. QED  BY <4>2 DEF l
    <3>3. q = <<q[1]>> /\ q[1] \in Seq(Nat)  BY <1>1, <3>2, Single
    <3>4. FlattenSeq(<<q[1]>>) = q[1]  BY <3>3, FlattenOne
    <3>. QED  BY <3>3, <3>4
  <2>. QED  BY <2>1, <2>2
<1>. QED  BY <1>2, <1>3

LEMMA Drains ==
  ASSUME BufInv, bufUse = "DataBuffer", NEW n \in Nat, drain(n)
  PROVE  Packed
<1>1. /\ data \in Data /\ turn \in Nat /\ held \in Seq(Nat) /\ held = FlattenSeq(data.buffers)
      /\ data.byteLength \in Nat /\ data.byteLength = Len(held)
  BY DEF BufInv, BuffersAreQueues, Data
<1>. DEFINE k == IF n > data.byteLength THEN data.byteLength ELSE n
<1>2. k \in Nat /\ k <= Len(held)  BY <1>1
<1>3. pack(data).buffers = <<held>>
  <2>1. data.buffers # <<>>  BY DEF drain
  <2>. QED  BY <1>1, <2>1, Packs
<1>4. Range(<<held>>) = {held}  BY DEF Range
<1>5. /\ Taken(k)
      /\ data' = [buffers |-> IF data.byteLength > k THEN <<SubSeq(held, k + 1, Len(held))>> ELSE <<>>,
                  byteLength |-> data.byteLength - k]
  BY <1>3, <1>4 DEF drain
<1>. HIDE DEF k
<1>. DEFINE x == SubSeq(held, k + 1, Len(held))
<1>6. held' = x /\ turn' = turn  BY <1>5 DEF Taken
<1>7. x \in Seq(Nat) /\ Len(x) = Len(held) - k  BY <1>1, <1>2, Slice
<1>. HIDE DEF x
<1>8. data'.byteLength = Len(held) - k /\ Len(held) - k \in Nat  BY <1>1, <1>2, <1>5
<1>9. data'.buffers \in Arrays /\ FlattenSeq(data'.buffers) = x
  <2>1. CASE data.byteLength > k
    <3>1. data'.buffers = <<x>>  BY <1>5, <2>1 DEF x
    <3>. QED  BY <1>7, <3>1, FlattenOne
  <2>2. CASE ~(data.byteLength > k)
    <3>1. data'.buffers = <<>>  BY <1>5, <2>2
    <3>2. Len(x) = 0  BY <1>1, <1>2, <1>7, <2>2
    <3>3. x = <<>>  BY <1>7, <3>2, EmptySeq
    <3>. QED  BY <3>1, <3>3, FlattenEmpty DEF Arrays
  <2>. QED  BY <2>1, <2>2
<1>10. data' \in Data
  <2>1. data' = [buffers |-> data'.buffers, byteLength |-> data'.byteLength]  BY <1>5
  <2>. QED  BY <1>8, <1>9, <2>1 DEF Data
<1>. QED  BY <1>1, <1>6, <1>7, <1>8, <1>9, <1>10 DEF Packed

LEMMA Shifts ==
  ASSUME BufInv, bufUse = "DataBuffer", shift
  PROVE  Packed
<1>. DEFINE q == data.buffers
            h == Head(q)
            t == FlattenSeq(Tail(q))
<1>1. /\ q \in Arrays /\ turn \in Nat /\ held \in Seq(Nat) /\ held = FlattenSeq(q)
      /\ data.byteLength \in Nat /\ data.byteLength = Len(held)
  BY DEF BufInv, BuffersAreQueues, Data
<1>2. q # <<>> /\ data' = [buffers |-> Tail(q), byteLength |-> data.byteLength - Len(h)] /\ Taken(Len(h))
  BY DEF shift
<1>. HIDE DEF q
<1>3. h \in Seq(Nat) /\ Tail(q) \in Arrays /\ held = h \o t  BY <1>1, <1>2, FlattenHead
<1>4. t \in Seq(Nat)  BY <1>3, FlattenType
<1>. HIDE DEF h, t
<1>5. held' = t
  <2>1. SubSeq(h \o t, Len(h) + 1, Len(h \o t)) = t  BY <1>3, <1>4, Remainder
  <2>. QED  BY <1>2, <1>3, <2>1 DEF Taken
<1>6. Len(held) = Len(h) + Len(t) /\ Len(t) \in Nat /\ Len(h) \in Nat  BY <1>3, <1>4, ConcatProperties
<1>7. data'.buffers = Tail(q) /\ data'.byteLength = Len(t)  BY <1>1, <1>2, <1>6
<1>8. data' \in Data
  <2>1. data' = [buffers |-> data'.buffers, byteLength |-> data'.byteLength]  BY <1>2
  <2>. QED  BY <1>3, <1>6, <1>7, <2>1 DEF Data
<1>9. turn' = turn  BY <1>2 DEF Taken
<1>. QED  BY <1>1, <1>4, <1>5, <1>7, <1>8, <1>9 DEF t, Packed

LEMMA DataSteps ==
  ASSUME BuffersAssumption, BufInv, bufUse = "DataBuffer", DataStep PROVE Packed
<1>0. 0..MaxArray \subseteq Nat  BY DEF BuffersAssumption
<1>1. /\ data \in Data /\ turn \in Nat /\ held \in Seq(Nat) /\ held = FlattenSeq(data.buffers)
      /\ data.byteLength = Len(held)
  BY DEF BufInv, BuffersAreQueues
<1>2. ASSUME NEW m \in 0..MaxArray, NEW n \in 0..MaxArray, fill(m, n) PROVE Packed
  BY <1>0, <1>2, Fills
<1>3. ASSUME NEW n \in 0..MaxArray, drain(n) PROVE Packed  BY <1>0, <1>3, Drains
<1>4. CASE shift  BY <1>4, Shifts
<1>5. CASE peek
  <2>1. data' = pack(data) /\ held' = held /\ turn' = turn  BY <1>1, <1>5, Nothing DEF peek
  <2>. QED  BY <1>1, <2>1, Packs DEF Packed
<1>6. CASE resetData
  <2>1. data' = NoData /\ turn' = turn /\ held' = SubSeq(held, 1, 0)  BY <1>6 DEF resetData, Kept
  <2>2. held' = <<>>  BY <2>1, SubSeqEmpty
  <2>3. NoData \in Data /\ NoData.buffers = <<>> /\ NoData.byteLength = 0  BY DEF NoData, Data, Arrays
  <2>4. <<>> \in Seq(Nat) /\ Len(<<>>) = 0  OBVIOUS
  <2>. QED  BY <1>1, <2>1, <2>2, <2>3, <2>4, FlattenEmpty DEF Packed
<1>. QED  BY <1>2, <1>3, <1>4, <1>5, <1>6 DEF DataStep

(* DenoBuffer: what lies between off and len is what is held.              *)
Queued ==
  /\ Fits(deno') /\ held' \in Seq(Nat) /\ turn' \in Nat /\ held' = bytes(deno')

LEMMA Queue ==
  ASSUME BuffersAssumption, BufInv, bufUse = "DenoBuffer"
  PROVE  /\ Fits(deno) /\ turn \in Nat /\ held \in Seq(Nat) /\ held = bytes(deno)
         /\ MAX_SIZE \in Nat /\ Len(held) = length(deno) /\ length(deno) \in Nat
         /\ length(deno) = deno.len - deno.off
         /\ deno.mem \in Seq(Nat) /\ deno.len \in Nat /\ deno.off \in Nat
         /\ deno.off <= deno.len /\ deno.len <= Len(deno.mem) /\ Len(deno.mem) <= MAX_SIZE
<1>1. Fits(deno) /\ turn \in Nat /\ held \in Seq(Nat) /\ held = bytes(deno)
  BY DEF BufInv, BuffersAreQueues
<1>2. Len(bytes(deno)) = length(deno) /\ length(deno) \in Nat  BY <1>1, Contents
<1>3. MAX_SIZE \in Nat  BY DEF BuffersAssumption
<1>. QED  BY <1>1, <1>2, <1>3 DEF Fits, Deno, length

(* The same array, cut to a length.                                        *)
LEMMA Cuts ==
  ASSUME NEW b, Fits(b), NEW o \in Nat, NEW l \in Nat, o <= l, l <= Len(b.mem),
         NEW c, c \in Deno, c.mem = b.mem, c.off = o, c.len = l
  PROVE  Fits(c) /\ bytes(c) = SubSeq(b.mem, o + 1, l)
BY DEF Fits, bytes

LEMMA Writes ==
  ASSUME BuffersAssumption, BufInv, bufUse = "DenoBuffer", NEW n \in Nat, write(n) PROVE Queued
<1>. DEFINE b == Recovered(deno)
<1>1. /\ Fits(deno) /\ turn \in Nat /\ held \in Seq(Nat) /\ held = bytes(deno) /\ MAX_SIZE \in Nat
  BY Queue
<1>2. Fits(b) /\ bytes(b) = held  BY <1>1, Recovers
<1>3. IF Throws(b, n)
      THEN deno' = b /\ Taken(0)
      ELSE deno' = [_grow(b, n).b EXCEPT !.mem = copy(New(n), @, _grow(b, n).i)] /\ Put(n)
  BY DEF write
<1>. HIDE DEF b
<1>4. CASE Throws(b, n)
  <2>1. deno' = b /\ Taken(0)  BY <1>3, <1>4
  <2>2. held' = held /\ turn' = turn  BY <1>1, <2>1, Nothing
  <2>. QED  BY <1>1, <1>2, <2>1, <2>2 DEF Queued
<1>5. CASE ~Throws(b, n)
  <2>. DEFINE g == _grow(b, n)
              m == g.b.mem
              w == New(n)
              c == copy(w, m, g.i)
  <2>1. Room(g, n) /\ SubSeq(m, g.b.off + 1, g.i) = held  BY <1>1, <1>2, <1>5, Grows
  <2>2. deno' = [g.b EXCEPT !.mem = c] /\ Put(n)  BY <1>3, <1>5
  <2>. HIDE DEF g
  <2>3. /\ g.b \in Deno /\ m \in Seq(Nat) /\ g.b.off \in Nat /\ g.b.len \in Nat /\ g.i \in Nat
        /\ g.b.off <= g.i /\ g.b.len = g.i + n /\ g.b.len <= Len(m) /\ Len(m) <= MAX_SIZE
        /\ g.b.off <= g.b.len
    BY <2>1 DEF Room, Fits, Deno
  <2>4. w \in Seq(Nat) /\ Len(w) = n  BY <1>1, News
  <2>5. held' = held \o w /\ held' \in Seq(Nat) /\ turn' \in Nat  BY <1>1, <2>2, Puts
  <2>. HIDE DEF w, m
  <2>6. g.i + Len(w) <= Len(m) /\ g.i + Len(w) = g.b.len  BY <2>3, <2>4
  <2>7. c \in Seq(Nat) /\ Len(c) = Len(m)  BY <2>3, <2>4, <2>6, Copies
  <2>8. SubSeq(c, g.b.off + 1, g.i + Len(w)) = SubSeq(m, g.b.off + 1, g.i) \o w
    <3>. DEFINE o == g.b.off
                i == g.i
    <3>1. HasRoom(w, m, i, o)  BY <2>3, <2>4, <2>6 DEF HasRoom
    <3>. HIDE DEF o, i, c
    <3>2. CopiesBehind(w, m, i, o)  BY <3>1, Copying
    <3>. QED  BY <3>2 DEF CopiesBehind, o, i, c
  <2>. HIDE DEF c
  <2>9. deno' \in Deno /\ deno'.mem = c /\ deno'.len = g.b.len /\ deno'.off = g.b.off
    BY <2>2, <2>3, <2>7 DEF Deno
  <2>10. Fits(deno')  BY <2>3, <2>7, <2>9 DEF Fits
  <2>11. bytes(deno') = held \o w  BY <2>1, <2>6, <2>8, <2>9 DEF bytes, m
  <2>. QED  BY <2>5, <2>10, <2>11 DEF Queued
<1>. QED  BY <1>4, <1>5

LEMMA GrowsRoom ==
  ASSUME BuffersAssumption, BufInv, bufUse = "DenoBuffer", NEW n \in Nat, grow(n) PROVE Queued
<1>. DEFINE b == Recovered(deno)
<1>1. /\ Fits(deno) /\ turn \in Nat /\ held \in Seq(Nat) /\ held = bytes(deno) /\ MAX_SIZE \in Nat
  BY Queue
<1>2. Fits(b) /\ bytes(b) = held  BY <1>1, Recovers
<1>3. /\ deno' = IF Throws(b, n) THEN b ELSE _reslice(_grow(b, n).b, _grow(b, n).i)
      /\ Taken(0)
  BY DEF grow
<1>4. held' = held /\ turn' = turn  BY <1>1, <1>3, Nothing
<1>. HIDE DEF b
<1>5. CASE Throws(b, n)
  <2>1. deno' = b  BY <1>3, <1>5
  <2>. QED  BY <1>1, <1>2, <1>4, <2>1 DEF Queued
<1>6. CASE ~Throws(b, n)
  <2>. DEFINE g == _grow(b, n)
              a == g.b
              i == g.i
  <2>1. Room(g, n) /\ SubSeq(a.mem, a.off + 1, i) = held  BY <1>1, <1>2, <1>6, Grows
  <2>2. deno' = _reslice(a, i)  BY <1>3, <1>6
  <2>. HIDE DEF g
  <2>3. Fits(a) /\ a \in Deno /\ i \in Nat /\ a.off \in Nat /\ a.off <= i /\ i <= Len(a.mem)
    <3>1. Fits(g.b) /\ g.i \in Nat /\ g.b.off <= g.i /\ g.b.len = g.i + n  BY <2>1 DEF Room
    <3>2. g.b \in Deno /\ g.b.len <= Len(g.b.mem) /\ g.b.off \in Nat /\ g.b.mem \in Seq(Nat)  BY <3>1 DEF Fits, Deno
    <3>3. Len(g.b.mem) \in Nat  BY <3>2
    <3>. QED  BY <3>1, <3>2, <3>3
  <2>. HIDE DEF a, i
  <2>4. deno' \in Deno /\ deno'.len = i /\ deno'.off = a.off /\ deno'.mem = a.mem
    BY <2>2, <2>3, Reslices
  <2>5. Fits(deno')  BY <2>3, <2>4 DEF Fits
  <2>6. bytes(deno') = held  BY <2>1, <2>4 DEF bytes
  <2>. QED  BY <1>1, <1>4, <2>5, <2>6 DEF Queued
<1>. QED  BY <1>5, <1>6

LEMMA Reads ==
  ASSUME BuffersAssumption, BufInv, bufUse = "DenoBuffer", NEW n \in Nat, read(n) PROVE Queued
<1>. DEFINE k == Min({n, length(deno)})
<1>1. /\ Fits(deno) /\ turn \in Nat /\ held \in Seq(Nat) /\ held = bytes(deno)
      /\ Len(held) = length(deno) /\ length(deno) \in Nat /\ length(deno) = deno.len - deno.off
      /\ deno.mem \in Seq(Nat) /\ deno.len \in Nat /\ deno.off \in Nat
      /\ deno.off <= deno.len /\ deno.len <= Len(deno.mem)
  BY Queue
<1>2. k \in {n, length(deno)} /\ k <= length(deno) /\ k <= n
  <2>. DEFINE l == length(deno)
  <2>1. l \in Nat  BY <1>1
  <2>. HIDE DEF l
  <2>2. Min({n, l}) \in {n, l} /\ Min({n, l}) <= l /\ Min({n, l}) <= n  BY <2>1, Minimum
  <2>. QED  BY <2>2 DEF l
<1>3. /\ deno' = IF length(deno) = 0 THEN reset(deno) ELSE [deno EXCEPT !.off = @ + k]
      /\ Taken(k)
  BY DEF read
<1>. HIDE DEF k
<1>4. k \in Nat /\ held' = SubSeq(held, k + 1, Len(held)) /\ turn' = turn  BY <1>1, <1>2, <1>3 DEF Taken
<1>5. held' \in Seq(Nat)
  <2>1. k \in Nat /\ Len(held) \in Nat /\ k <= Len(held) /\ Len(held) <= Len(held)  BY <1>1, <1>2, <1>4
  <2>2. SubSeq(held, k + 1, Len(held)) \in Seq(Nat)  BY <1>1, <2>1, Slice
  <2>. QED  BY <1>4, <2>2
<1>6. CASE length(deno) = 0
  <2>1. deno' = reset(deno)  BY <1>3, <1>6
  <2>2. held' = SubSeq(held, 0 + 1, 0)
    <3>1. k = 0 /\ Len(held) = 0  BY <1>1, <1>2, <1>4, <1>6
    <3>. QED  BY <1>4, <3>1
  <2>3. held' = <<>>  BY <2>2, SubSeqEmpty
  <2>4. Fits(reset(deno)) /\ bytes(reset(deno)) = <<>>  BY <1>1, Resets
  <2>. QED  BY <1>1, <1>4, <1>5, <2>1, <2>3, <2>4 DEF Queued
<1>7. CASE length(deno) # 0
  <2>1. deno' = [deno EXCEPT !.off = @ + k]  BY <1>3, <1>7
  <2>2. deno.off + k \in Nat /\ deno.off + k <= deno.len
    <3>1. k <= deno.len - deno.off  BY <1>1, <1>2
    <3>2. k \in Nat /\ deno.len \in Nat /\ deno.off \in Nat  BY <1>1, <1>4
    <3>. QED  BY <3>1, <3>2
  <2>3. deno \in Deno  BY <1>1 DEF Fits
  <2>4. deno' \in Deno /\ deno'.mem = deno.mem /\ deno'.len = deno.len /\ deno'.off = deno.off + k
    BY <2>1, <2>2, <2>3 DEF Deno
  <2>5. Fits(deno')  BY <1>1, <2>2, <2>4 DEF Fits
  <2>6. bytes(deno') = SubSeq(deno.mem, deno.off + k + 1, deno.len)  BY <2>4 DEF bytes
  <2>7. SubSeq(SubSeq(deno.mem, deno.off + 1, deno.len), k + 1, deno.len - deno.off)
          = SubSeq(deno.mem, deno.off + k + 1, deno.len)
    <3>. DEFINE s == deno.mem
                o == deno.off
                l == deno.len
    <3>1. s \in Seq(Nat) /\ o \in Nat /\ l \in Nat /\ o <= l /\ l <= Len(s) /\ k \in Nat /\ k <= l - o
      BY <1>1, <1>2, <1>4
    <3>. HIDE DEF s, o, l
    <3>2. SubSeq(SubSeq(s, o + 1, l), k + 1, l - o) = SubSeq(s, o + k + 1, l)  BY <3>1, SliceTaken
    <3>. QED  BY <3>2 DEF s, o, l
  <2>8. held' = bytes(deno')
    <3>1. held = SubSeq(deno.mem, deno.off + 1, deno.len)  BY <1>1 DEF bytes
    <3>. QED  BY <1>1, <1>4, <2>6, <2>7, <3>1
  <2>. QED  BY <1>1, <1>4, <1>5, <2>5, <2>8 DEF Queued
<1>. QED  BY <1>6, <1>7

LEMMA Truncates ==
  ASSUME BuffersAssumption, BufInv, bufUse = "DenoBuffer", NEW n \in Nat, truncate(n) PROVE Queued
<1>1. /\ Fits(deno) /\ turn \in Nat /\ held \in Seq(Nat) /\ held = bytes(deno)
      /\ Len(held) = length(deno) /\ length(deno) \in Nat /\ length(deno) = deno.len - deno.off
      /\ deno.mem \in Seq(Nat) /\ deno.len \in Nat /\ deno.off \in Nat
      /\ deno.off <= deno.len /\ deno.len <= Len(deno.mem)
  BY Queue
<1>2. /\ n <= length(deno) /\ held' = SubSeq(held, 1, n) /\ turn' = turn
      /\ deno' = IF n = 0 THEN reset(deno) ELSE _reslice(deno, deno.off + n)
  BY DEF truncate, Kept
<1>3. CASE n = 0
  <2>1. deno' = reset(deno) /\ held' = SubSeq(held, 1, 0)  BY <1>2, <1>3
  <2>2. held' = <<>>  BY <2>1, SubSeqEmpty
  <2>3. Fits(reset(deno)) /\ bytes(reset(deno)) = <<>>  BY <1>1, Resets
  <2>4. <<>> \in Seq(Nat)  OBVIOUS
  <2>. QED  BY <1>1, <1>2, <2>1, <2>2, <2>3, <2>4 DEF Queued
<1>4. CASE n # 0
  <2>. DEFINE s == deno.mem
              o == deno.off
              l == deno.len
              e == o + n
  <2>1. deno' = _reslice(deno, e)  BY <1>2, <1>4
  <2>2. /\ s \in Seq(Nat) /\ o \in Nat /\ l \in Nat /\ o <= l /\ l <= Len(s) /\ n <= l - o
        /\ Len(s) \in Nat
    BY <1>1, <1>2
  <2>3. deno \in Deno  BY <1>1 DEF Fits
  <2>4. e \in Nat /\ o <= e /\ e <= l /\ e <= Len(s)  BY <2>2
  <2>5. held = SubSeq(s, o + 1, l)  BY <1>1 DEF bytes
  <2>. HIDE DEF s, o, l
  <2>6. SubSeq(SubSeq(s, o + 1, l), 1, n) = SubSeq(s, o + 1, e)
    <3>1. Within(s, o, l, n)  BY <2>2 DEF Within
    <3>2. KeepsFirst(s, o, l, n)  BY <3>1, Keeping
    <3>. QED  BY <3>2 DEF KeepsFirst
  <2>7. SubSeq(s, o + 1, e) \in Seq(Nat)
    <3>. HIDE DEF e
    <3>. QED  BY <2>2, <2>4, Slice
  <2>. HIDE DEF e
  <2>8. deno' \in Deno /\ deno'.len = e /\ deno'.off = o /\ deno'.mem = s
    BY <2>1, <2>3, <2>4, Reslices DEF s, o
  <2>9. Fits(deno')  BY <1>1, <2>4, <2>8 DEF Fits, s
  <2>10. bytes(deno') = held'  BY <1>2, <2>5, <2>6, <2>8 DEF bytes
  <2>. QED  BY <1>1, <1>2, <2>5, <2>6, <2>7, <2>9, <2>10 DEF Queued
<1>. QED  BY <1>3, <1>4

LEMMA ReadsFrom ==
  ASSUME BuffersAssumption, BufInv, bufUse = "DenoBuffer", NEW n \in Nat, readFrom(n) PROVE Queued
<1>1. CASE capacity(deno) - length(deno) < MIN_READ
  <2>1. write(n)  BY <1>1 DEF readFrom
  <2>. QED  BY <2>1, Writes
<1>2. CASE ~(capacity(deno) - length(deno) < MIN_READ)
  <2>. DEFINE s == deno.mem
              l == deno.len
              w == New(n)
              c == copy(w, s, l)
  <2>1. /\ Fits(deno) /\ turn \in Nat /\ held \in Seq(Nat) /\ held = bytes(deno)
        /\ s \in Seq(Nat) /\ l \in Nat /\ l <= Len(s) /\ Len(s) <= MAX_SIZE
        /\ MAX_SIZE \in Nat /\ length(deno) = deno.len - deno.off
    BY Queue
  <2>2. /\ deno.off = 0 /\ n <= capacity(deno) - length(deno)
        /\ deno' = _reslice([deno EXCEPT !.mem = copy(New(n), @, length(deno))], length(deno) + n)
        /\ Put(n)
    BY <1>2 DEF readFrom
  <2>3. length(deno) = l  BY <2>1, <2>2
  <2>4. l + n <= Len(s) /\ l + n \in Nat /\ Len(s) \in Nat
    <3>1. n <= Len(s) - l  BY <2>2, <2>3 DEF capacity
    <3>. QED  BY <2>1, <3>1
  <2>5. w \in Seq(Nat) /\ Len(w) = n  BY <2>1, News
  <2>6. held' = held \o w /\ held' \in Seq(Nat) /\ turn' \in Nat  BY <2>1, <2>2, Puts
  <2>7. held = SubSeq(s, 0 + 1, l)  BY <2>1, <2>2 DEF bytes
  <2>8. deno' = _reslice([deno EXCEPT !.mem = c], l + n)  BY <2>2, <2>3
  <2>. HIDE DEF s, l, w
  <2>9. c \in Seq(Nat) /\ Len(c) = Len(s)  BY <2>1, <2>4, <2>5, Copies
  <2>10. SubSeq(c, 0 + 1, l + n) = held \o w
    <3>. DEFINE o == 0
    <3>1. HasRoom(w, s, l, o)  BY <2>1, <2>4, <2>5 DEF HasRoom
    <3>. HIDE DEF c, o
    <3>3. CopiesBehind(w, s, l, o)  BY <3>1, Copying
    <3>2. SubSeq(copy(w, s, l), 0 + 1, l + Len(w)) = SubSeq(s, 0 + 1, l) \o w
      BY <3>3 DEF CopiesBehind, o
    <3>. QED  BY <2>5, <2>7, <3>2 DEF c
  <2>. DEFINE d == [deno EXCEPT !.mem = c]
              e == l + n
  <2>. HIDE DEF c
  <2>11. deno \in Deno  BY <2>1 DEF Fits
  <2>12. d \in Deno /\ d.mem = c /\ d.len = deno.len /\ d.off = deno.off  BY <2>9, <2>11 DEF Deno
  <2>13. deno' = _reslice(d, e) /\ e \in Nat  BY <2>4, <2>8
  <2>. HIDE DEF d, e
  <2>14. deno' \in Deno /\ deno'.mem = c /\ deno'.len = e /\ deno'.off = 0
    <3>1. /\ _reslice(d, e) \in Deno /\ _reslice(d, e).len = e
          /\ _reslice(d, e).off = d.off /\ _reslice(d, e).mem = d.mem
      BY <2>12, <2>13, Reslices
    <3>. QED  BY <2>2, <2>12, <2>13, <3>1
  <2>15. Fits(deno')  BY <2>1, <2>4, <2>9, <2>14 DEF Fits, e
  <2>16. bytes(deno') = held'  BY <2>6, <2>10, <2>14 DEF bytes, e
  <2>. QED  BY <2>6, <2>15, <2>16 DEF Queued
<1>. QED  BY <1>1, <1>2

LEMMA DenoSteps ==
  ASSUME BuffersAssumption, BufInv, bufUse = "DenoBuffer", DenoStep PROVE Queued
<1>1. 0..MaxArray \subseteq Nat  BY DEF BuffersAssumption
<1>2. PICK n \in 0..MaxArray : write(n) \/ grow(n) \/ read(n) \/ truncate(n) \/ readFrom(n)
  BY DEF DenoStep
<1>3. n \in Nat  BY <1>1
<1>. QED  BY <1>2, <1>3, Writes, GrowsRoom, Reads, Truncates, ReadsFrom

-----------------------------------------------------------------------------
LEMMA BufStart == ASSUME BuffersAssumption, BuffersInit PROVE BufInv
<1>1. MAX_SIZE \in Nat /\ MAX_SIZE >= 3  BY DEF BuffersAssumption, Turns
<1>2. data = NoData /\ NoData \in Data /\ FlattenSeq(NoData.buffers) = <<>> /\ NoData.byteLength = Len(<<>>)
  BY FlattenEmpty DEF BuffersInit, DataBuffer, NoData, Data, Arrays
<1>3. data \in Data /\ FlattenSeq(data.buffers) = <<>> /\ data.byteLength = Len(FlattenSeq(data.buffers))
  BY <1>2
<1>4. ASSUME NEW ab \in Seq(Nat), Len(ab) <= MAX_SIZE
      PROVE  Fits(DenoBuffer(ab)) /\ bytes(DenoBuffer(ab)) = ab
  <2>1. Len(ab) \in Nat /\ 0 \in Nat /\ 0 + 1 = 1  BY <1>4
  <2>2. Fits(DenoBuffer(ab))  BY <1>4, <2>1 DEF Fits, Deno, DenoBuffer
  <2>3. bytes(DenoBuffer(ab)) = SubSeq(ab, 1, Len(ab))  BY <2>1 DEF bytes, DenoBuffer
  <2>4. SubSeq(ab, 1, Len(ab)) = ab  BY SubSeqFull
  <2>. QED  BY <2>2, <2>3, <2>4
<1>5. CASE bufUse = "DataBuffer" /\ DataBuffer
  <2>1. deno = DenoBuffer(<<>>) /\ turn = 0 /\ held = <<>>  BY <1>5 DEF DataBuffer
  <2>2. <<>> \in Seq(Nat) /\ Len(<<>>) <= MAX_SIZE  BY <1>1
  <2>3. Fits(deno)  BY <1>4, <2>1, <2>2
  <2>4. BuffersAreQueues
    <3>1. held = FlattenSeq(data.buffers)  BY <1>3, <2>1
    <3>2. deno.off <= deno.len /\ deno.len <= capacity(deno)  BY <2>3 DEF Fits, capacity
    <3>. QED  BY <1>3, <1>5, <3>1, <3>2 DEF BuffersAreQueues
  <2>. QED  BY <1>3, <1>5, <2>1, <2>2, <2>3, <2>4 DEF BufInv
<1>6. CASE /\ bufUse = "DenoBuffer" /\ data = NoData
           /\ turn \in 0 .. Turns - 1 /\ held = [k \in 1..turn |-> k] /\ deno = DenoBuffer(held)
  <2>1. turn \in Nat /\ turn <= MAX_SIZE  BY <1>1, <1>6 DEF Turns
  <2>2. held \in Seq(Nat) /\ Len(held) = turn  BY <1>6, <2>1, Ascending
  <2>3. Fits(deno) /\ bytes(deno) = held  BY <1>4, <1>6, <2>1, <2>2
  <2>4. BuffersAreQueues
    <3>1. deno.off <= deno.len /\ deno.len <= capacity(deno)  BY <2>3 DEF Fits, capacity
    <3>. QED  BY <1>3, <1>6, <2>3, <3>1 DEF BuffersAreQueues
  <2>. QED  BY <1>3, <1>6, <2>1, <2>2, <2>3, <2>4 DEF BufInv
<1>. QED  BY <1>5, <1>6 DEF BuffersInit

LEMMA BufStep == ASSUME BuffersAssumption, BufInv, [BuffersNext]_bufVars PROVE BufInv'
<1>1. CASE bufUse = "DataBuffer" /\ DataStep /\ UNCHANGED bufUse
  <2>1. Packed  BY <1>1, DataSteps
  <2>2. deno' = deno  BY <1>1 DEF DataStep
  <2>3. BuffersAreQueues'
    <3>1. deno.off <= deno.len /\ deno.len <= capacity(deno)  BY DEF BufInv, BuffersAreQueues
    <3>2. deno'.off <= deno'.len /\ deno'.len <= capacity(deno')  BY <2>2, <3>1
    <3>. QED  BY <1>1, <2>1, <3>2 DEF BuffersAreQueues, Packed
  <2>4. Fits(deno')  BY <2>2 DEF BufInv
  <2>5. data' \in Data /\ held' \in Seq(Nat) /\ turn' \in Nat  BY <2>1 DEF Packed
  <2>. QED  BY <1>1, <2>3, <2>4, <2>5 DEF BufInv
<1>2. CASE bufUse = "DenoBuffer" /\ DenoStep /\ UNCHANGED bufUse
  <2>1. Queued  BY <1>2, DenoSteps
  <2>2. data' = data  BY <1>2 DEF DenoStep
  <2>3. BuffersAreQueues'
    <3>1. data'.byteLength = Len(FlattenSeq(data'.buffers))  BY <2>2 DEF BufInv, BuffersAreQueues
    <3>2. deno'.off <= deno'.len /\ deno'.len <= capacity(deno')  BY <2>1 DEF Queued, Fits, capacity
    <3>. QED  BY <1>2, <2>1, <3>1, <3>2 DEF BuffersAreQueues, Queued
  <2>4. data' \in Data  BY <2>2 DEF BufInv
  <2>. QED  BY <1>2, <2>1, <2>3, <2>4 DEF BufInv, Queued
<1>3. CASE UNCHANGED bufVars
  BY <1>3 DEF bufVars, BufInv, BuffersAreQueues, Data, Fits, Deno, bytes, capacity
<1>. QED  BY <1>1, <1>2, <1>3 DEF BuffersNext

(* However a buffer grows, slides, packs or is cut, whatever its limits    *)
(* and the lengths that are written and asked for, what is in it are the   *)
(* bytes that were written, each once and in order, without those that     *)
(* were taken out or discarded (databuffer.ts, denobuffer.ts).             *)
THEOREM QueuesHold == BuffersSpec => []BuffersAreQueues
<1>1. BuffersInit => BufInv  BY BuffersAssumption, BufStart
<1>2. BufInv /\ [BuffersNext]_bufVars => BufInv'  BY BuffersAssumption, BufStep
<1>3. BufInv => BuffersAreQueues  BY DEF BufInv
<1>. QED  BY <1>1, <1>2, <1>3, PTL DEF BuffersSpec
=============================================================================
