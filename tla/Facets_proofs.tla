---------------------------- MODULE Facets_proofs ----------------------------
(***************************************************************************)
(* The buckets of every facet, for any records, facets, requests and       *)
(* interleaved writes.                                                     *)
(***************************************************************************)
EXTENDS Facets, NaturalsInduction, WellFoundedInduction, SequenceTheorems,
        FiniteSetTheorems, TLAPS

-----------------------------------------------------------------------------
(* Numbers and finite sets.                                                *)

\* In place of an induction: if there is a counterexample, there is a least one.
LEMMA LeastNat ==
    ASSUME NEW T \in SUBSET Nat, T # {}
    PROVE  \E n \in T : \A m \in T : n <= m
<1> DEFINE R == {ss \in Nat \X Nat : ss[1] < ss[2]}
<1>1. IsWellFoundedOn(R, Nat)
  BY NatLessThanWellFounded, Zenon DEF OpToRel
<1>2. PICK n \in T : \A m \in T : ~ (<<m, n>> \in R)
  <2> HIDE DEF R
  <2> QED
    BY <1>1, WFMin, Zenon
<1>3. \A m \in T : <<m, n>>[1] = m /\ <<m, n>>[2] = n /\ <<m, n>> \in Nat \X Nat
  OBVIOUS
<1>4. \A m \in T : ~ (m < n)
  BY <1>2, <1>3
<1> QED
  BY <1>4

\* The values of a function on a finite set are finitely many.
LEMMA FiniteImage ==
    ASSUME NEW S, IsFiniteSet(S), NEW f, S \subseteq DOMAIN f
    PROVE  IsFiniteSet({f[x] : x \in S})
<1> DEFINE T == {f[x] : x \in S}
           g == [x \in S |-> f[x]]
<1>1. g \in Surjection(S, T)
  BY DEF Surjection
<1> QED
  BY <1>1, FS_Surjection

\* A finite set of integers that is not empty has a greatest member.
LEMMA GreatestExists ==
    ASSUME NEW S \in SUBSET Int, IsFiniteSet(S), S # {}
    PROVE  \E x \in S : \A y \in S : x >= y
<1> DEFINE Bad(R) == R # {} /\ ~ \E x \in R : \A y \in R : x >= y
           T == {n \in Nat : \E R \in SUBSET S : Bad(R) /\ Cardinality(R) = n}
<1> SUFFICES ASSUME Bad(S) PROVE FALSE
  OBVIOUS
<1>1. \A R \in SUBSET S : IsFiniteSet(R) /\ Cardinality(R) \in Nat
  BY FS_Subset, FS_CardinalityType
<1>2. PICK n \in T : \A m \in T : n <= m
  <2>1. T \in SUBSET Nat /\ T # {}
    BY <1>1
  <2> HIDE DEF T
  <2> QED
    BY <2>1, LeastNat
<1>3. PICK R \in SUBSET S : Bad(R) /\ Cardinality(R) = n
  BY <1>2
<1>4. PICK x : x \in R
  BY <1>3
<1> DEFINE Q == R \ {x}
<1>5. Q \in SUBSET S /\ Cardinality(Q) = n - 1 /\ Cardinality(Q) \in Nat
  BY <1>1, <1>3, <1>4, FS_RemoveElement
<1>6. ~ Bad(Q)
  <2> HIDE DEF Bad
  <2> QED
    BY <1>2, <1>5
<1>7. Q # {}
  <2>1. x \in Int
    BY <1>4
  <2> QED
    BY <1>3, <1>4, <2>1
<1>8. PICK z \in Q : \A y \in Q : z >= y
  BY <1>6, <1>7
<1>9. x \in Int /\ z \in Int /\ Q \subseteq Int /\ R = Q \cup {x}
  BY <1>4, <1>8
<1> HIDE DEF Q
<1> QED
  BY <1>3, <1>4, <1>8, <1>9

\* What Max and Min choose.
LEMMA Extremes ==
    ASSUME NEW S \in SUBSET Int, IsFiniteSet(S), S # {}
    PROVE  /\ Max(S) \in S /\ \A y \in S : y <= Max(S)
           /\ Min(S) \in S /\ \A y \in S : Min(S) <= y
<1>1. \E x \in S : \A y \in S : x >= y
  BY GreatestExists
<1>2. Max(S) \in S /\ \A y \in S : Max(S) >= y
  BY <1>1 DEF Max
<1> DEFINE N == {-y : y \in S}
<1>3. \E x \in S : \A y \in S : x <= y
  <2> DEFINE f == [y \in S |-> -y]
  <2>1. N = {f[y] : y \in S}
    OBVIOUS
  <2>2. IsFiniteSet(N)
    <3>1. S \subseteq DOMAIN f
      OBVIOUS
    <3> HIDE DEF f, N
    <3> QED
      BY <2>1, <3>1, FiniteImage
  <2>3. N \in SUBSET Int /\ N # {}
    <3>1. \A y \in S : -y \in Int
      OBVIOUS
    <3> QED
      BY <3>1
  <2>4. PICK x \in N : \A y \in N : x >= y
    <3> HIDE DEF N
    <3> QED
      BY <2>2, <2>3, GreatestExists
  <2>5. PICK z \in S : x = -z
    BY <2>4
  <2>6. \A y \in S : -z >= -y
    BY <2>4, <2>5
  <2> QED
    BY <2>5, <2>6
<1>4. Min(S) \in S /\ \A y \in S : Min(S) <= y
  BY <1>3 DEF Min
<1> QED
  BY <1>2, <1>4

\* Division rounds down.
LEMMA Division ==
    ASSUME NEW x \in Int, NEW w \in Nat \ {0}, NEW k \in Int
    PROVE  /\ x \div w \in Int
           /\ k = x \div w <=> k * w <= x /\ x < k * w + w
<1> DEFINE q == x \div w
           r == x % w
<1>1. q \in Int /\ r \in 0 .. w - 1 /\ x = q * w + r
  BY SMTT(30)
<1> HIDE DEF q, r
<1>2. k = q => k * w = q * w
  OBVIOUS
<1>3. k + 1 <= q => k * w + w <= q * w
  BY <1>1, SMTT(30)
<1>4. q + 1 <= k => q * w + w <= k * w
  BY <1>1, SMTT(30)
<1> DEFINE qw == q * w
           kw == k * w
<1>5. qw \in Int /\ kw \in Int
  BY <1>1, SMTT(30)
<1>6. (k = q => kw = qw) /\ (k + 1 <= q => kw + w <= qw) /\ (q + 1 <= k => qw + w <= kw)
      /\ x = qw + r
  BY <1>1, <1>2, <1>3, <1>4
<1> SUFFICES k = q <=> kw <= x /\ x < kw + w
  BY <1>1 DEF q
<1> HIDE DEF qw, kw
<1> QED
  BY <1>1, <1>5, <1>6

-----------------------------------------------------------------------------
(* ORDER BY and LIMIT.                                                     *)

\* What the buckets of a facet are: finitely many, no two with the same key.
AreBuckets(B) ==
    /\ IsFiniteSet(B)
    /\ \A b \in B : b.key \in Int /\ b.count \in Int
    /\ \A b, c \in B : b.key = c.key => b = c

\* The order is total and strict.
LEMMA BeforeIsOrder ==
    ASSUME NEW B, AreBuckets(B), NEW sort \in Orders
    PROVE  /\ \A b \in B : ~ Before(sort, b, b)
           /\ \A b, c \in B : b # c => Before(sort, b, c) \/ Before(sort, c, b)
           /\ \A a, b, c \in B : Before(sort, a, b) /\ Before(sort, b, c) => Before(sort, a, c)
<1>1. \A b \in B : b.key \in Int /\ b.count \in Int
  BY DEF AreBuckets
<1>2. \A b, c \in B : b # c => b.key # c.key
  BY DEF AreBuckets
<1>3. CASE sort = "value_asc"
  BY <1>1, <1>2, <1>3 DEF Before
<1>4. CASE sort = "value_desc"
  BY <1>1, <1>2, <1>4 DEF Before
<1>5. CASE sort = "count_asc"
  BY <1>1, <1>2, <1>5 DEF Before
<1>6. CASE sort = "count_desc"
  BY <1>1, <1>2, <1>6 DEF Before
<1> QED
  BY <1>3, <1>4, <1>5, <1>6 DEF Orders

\* Each bucket has a place of its own: the number of those before it.
LEMMA Places ==
    ASSUME NEW B, AreBuckets(B), NEW sort \in Orders
    PROVE  LET place == [b \in B |-> Cardinality({c \in B : Before(sort, c, b)})] IN
           /\ Cardinality(B) \in Nat
           /\ place \in Bijection(B, 0 .. Cardinality(B) - 1)
           /\ \A b, c \in B : Before(sort, b, c) => place[b] < place[c]
<1> DEFINE first(b) == {c \in B : Before(sort, c, b)}
           n == Cardinality(B)
           place == [b \in B |-> Cardinality(first(b))]
<1>1. IsFiniteSet(B) /\ n \in Nat
  BY FS_CardinalityType DEF AreBuckets
<1>2. \A b \in B : first(b) \in SUBSET B /\ b \notin first(b)
  BY BeforeIsOrder
<1>3. \A b \in B : IsFiniteSet(first(b)) /\ Cardinality(first(b)) \in Nat
  BY <1>1, <1>2, FS_Subset, FS_CardinalityType
<1>4. \A b \in B : Cardinality(first(b)) < n
  <2> TAKE b \in B
  <2>1. first(b) # B /\ first(b) \in SUBSET B
    BY <1>2
  <2>2. Cardinality(first(b)) <= n /\ Cardinality(first(b)) # n
    <3> HIDE DEF first
    <3> QED
      BY <1>1, <2>1, FS_Subset
  <2> HIDE DEF first
  <2> QED
    BY <1>1, <1>3, <2>2
<1>5. \A b, c \in B : Before(sort, b, c) => Cardinality(first(b)) < Cardinality(first(c))
  <2> SUFFICES ASSUME NEW b \in B, NEW c \in B, Before(sort, b, c)
               PROVE  Cardinality(first(b)) < Cardinality(first(c))
    OBVIOUS
  <2>1. \A a \in B : Before(sort, a, b) => Before(sort, a, c)
    BY BeforeIsOrder
  <2>2. first(b) \in SUBSET first(c) /\ b \in first(c) /\ b \notin first(b)
    BY <1>2, <2>1
  <2> HIDE DEF first
  <2>3. Cardinality(first(b)) <= Cardinality(first(c)) /\ Cardinality(first(b)) # Cardinality(first(c))
    BY <1>3, <2>2, FS_Subset
  <2> QED
    BY <1>3, <2>3
<1>6. place \in Injection(B, 0 .. n - 1)
  <2>1. place \in [B -> 0 .. n - 1]
    BY <1>1, <1>3, <1>4
  <2>2. \A b, c \in B : place[b] = place[c] => b = c
    <3> SUFFICES ASSUME NEW b \in B, NEW c \in B, b # c PROVE place[b] # place[c]
      OBVIOUS
    <3>1. Before(sort, b, c) \/ Before(sort, c, b)
      BY BeforeIsOrder
    <3>2. place[b] = Cardinality(first(b)) /\ place[c] = Cardinality(first(c))
      OBVIOUS
    <3> HIDE DEF place, first
    <3> QED
      BY <1>3, <1>5, <3>1, <3>2
  <2> HIDE DEF place
  <2> QED
    BY <2>1, <2>2 DEF Injection, IsInjective
<1>7. IsFiniteSet(0 .. n - 1) /\ Cardinality(0 .. n - 1) = n
  BY <1>1, FS_Interval
<1>8. place \in Surjection(B, 0 .. n - 1)
  <2> HIDE DEF place
  <2> QED
    BY <1>6, <1>7, FS_Injection
<1>9. \A b \in B : place[b] = Cardinality(first(b))
  OBVIOUS
<1>10. \A b, c \in B : Before(sort, b, c) => place[b] < place[c]
  <2> HIDE DEF place, first
  <2> QED
    BY <1>5, <1>9
<1> QED
  BY <1>1, <1>6, <1>8, <1>10 DEF Bijection

\* InOrder lists every bucket once, none after one that it precedes.
LEMMA Ordered ==
    ASSUME NEW B, AreBuckets(B), NEW sort \in Orders
    PROVE  /\ InOrder(sort, B) \in Seq(B)
           /\ Len(InOrder(sort, B)) = Cardinality(B)
           /\ \A b \in B : \E i \in 1 .. Len(InOrder(sort, B)) : InOrder(sort, B)[i] = b
           /\ \A i, j \in 1 .. Len(InOrder(sort, B)) :
                  i < j => Before(sort, InOrder(sort, B)[i], InOrder(sort, B)[j])
<1> DEFINE first(b) == {c \in B : Before(sort, c, b)}
           n == Cardinality(B)
           place == [b \in B |-> Cardinality(first(b))]
           s == InOrder(sort, B)
<1>1. /\ n \in Nat /\ place \in Bijection(B, 0 .. n - 1)
      /\ \A b, c \in B : Before(sort, b, c) => place[b] < place[c]
  BY Places
<1>2. /\ \A b \in B : place[b] \in 0 .. n - 1
      /\ \A b, c \in B : place[b] = place[c] => b = c
      /\ \A k \in 0 .. n - 1 : \E b \in B : place[b] = k
  <2> HIDE DEF place
  <2> QED
    BY <1>1 DEF Bijection, Injection, Surjection, IsInjective
<1>3. s = [i \in 1 .. n |-> CHOOSE b \in B : Cardinality(first(b)) = i - 1]
  BY DEF InOrder
<1>4. \A b \in B : Cardinality(first(b)) = place[b]
  OBVIOUS
<1> HIDE DEF place, first, s
<1>5. \A i \in 1 .. n : s[i] \in B /\ place[s[i]] = i - 1
  <2> TAKE i \in 1 .. n
  <2>1. \E b \in B : Cardinality(first(b)) = i - 1
    <3>1. i - 1 \in 0 .. n - 1
      BY <1>1
    <3> QED
      BY <1>2, <1>4, <3>1
  <2>2. s[i] = CHOOSE b \in B : Cardinality(first(b)) = i - 1
    BY <1>3
  <2> QED
    BY <1>4, <2>1, <2>2
<1>6. s \in [1 .. n -> B] /\ s \in Seq(B) /\ Len(s) = n
  <2>1. s \in [1 .. n -> B]
    BY <1>3, <1>5
  <2>2. s \in Seq(B)
    BY <1>1, <2>1, SeqDef
  <2> QED
    BY <1>1, <2>1, <2>2
<1>7. \A b \in B : \E i \in 1 .. n : s[i] = b
  <2> TAKE b \in B
  <2> DEFINE i == place[b] + 1
  <2>1. i \in 1 .. n /\ i - 1 = place[b]
    BY <1>1, <1>2
  <2> HIDE DEF i
  <2>2. s[i] \in B /\ place[s[i]] = place[b]
    BY <1>5, <2>1
  <2> QED
    BY <1>2, <2>1, <2>2
<1>8. \A i, j \in 1 .. n : i < j => Before(sort, s[i], s[j])
  <2> SUFFICES ASSUME NEW i \in 1 .. n, NEW j \in 1 .. n, i < j
               PROVE  Before(sort, s[i], s[j])
    OBVIOUS
  <2>1. s[i] \in B /\ s[j] \in B /\ place[s[i]] = i - 1 /\ place[s[j]] = j - 1
    BY <1>5
  <2>2. place[s[i]] < place[s[j]]
    BY <1>1, <2>1
  <2>3. s[i] # s[j]
    BY <2>1, <1>1
  <2>4. Before(sort, s[i], s[j]) \/ Before(sort, s[j], s[i])
    BY <2>1, <2>3, BeforeIsOrder
  <2>5. ~ Before(sort, s[j], s[i])
    BY <1>1, <2>1
  <2> QED
    BY <2>4, <2>5
<1> QED
  BY <1>1, <1>6, <1>7, <1>8 DEF s

\* The bucket at each place is one of them, no two places hold the same key,
\* there are no more than were asked for, and when no more are announced, all of
\* them are there.
Lists(limited, B, count) ==
    LET s == limited.buckets IN
    /\ limited = [buckets |-> s, more |-> limited.more] /\ limited.more \in BOOLEAN
    /\ s \in Seq(B) /\ Len(s) <= count
    /\ \A i, j \in 1 .. Len(s) : s[i].key = s[j].key => i = j
    /\ ~ limited.more => \A b \in B : \E i \in 1 .. Len(s) : s[i] = b

LEMMA LimitedIs ==
    ASSUME NEW B, AreBuckets(B), NEW request \in Requests
    PROVE  Lists(Limited(request, B), B, request.count)
<1> DEFINE whole == InOrder(request.sort, B)
           count == request.count
           fetched == SubSeq(whole, 1, IF Len(whole) < count + 1 THEN Len(whole) ELSE count + 1)
           more == Len(fetched) > count
           s == IF more THEN SubSeq(fetched, 1, count) ELSE fetched
<1>1. Limited(request, B) = [buckets |-> s, more |-> more]
  BY DEF Limited, Fetched
<1>2. count \in Nat \ {0} /\ request.sort \in Orders
  BY DEF Requests
<1>3. /\ whole \in Seq(B) /\ Len(whole) \in Nat
      /\ \A b \in B : \E i \in 1 .. Len(whole) : whole[i] = b
      /\ \A i \in 1 .. Len(whole) : whole[i] \in B
  BY <1>2, Ordered, LenProperties, ElementOfSeq
<1>4. \A i, j \in 1 .. Len(whole) : whole[i].key = whole[j].key => i = j
  <2>1. \A i, j \in 1 .. Len(whole) : i < j => Before(request.sort, whole[i], whole[j])
    BY <1>2, Ordered
  <2>2. SUFFICES ASSUME NEW i \in 1 .. Len(whole), NEW j \in 1 .. Len(whole),
                        whole[i].key = whole[j].key, i < j
                 PROVE  FALSE
    BY <1>3
  <2>3. whole[i] = whole[j]
    BY <1>3, <2>2 DEF AreBuckets
  <2>4. Before(request.sort, whole[i], whole[i])
    BY <2>1, <2>2, <2>3
  <2> QED
    BY <1>2, <1>3, <2>4, BeforeIsOrder
<1>5. Len(whole) \in Nat /\ count \in Nat \ {0}
  BY <1>2, <1>3
<1> HIDE DEF whole, count
<1>6. SUFFICES /\ s \in Seq(B) /\ Len(s) <= count
               /\ \A i, j \in 1 .. Len(s) : s[i].key = s[j].key => i = j
               /\ ~ more => \A b \in B : \E i \in 1 .. Len(s) : s[i] = b
  <2>1. more \in BOOLEAN
    OBVIOUS
  <2> HIDE DEF s, more
  <2>2. /\ Limited(request, B).buckets = s /\ Limited(request, B).more = more
        /\ Limited(request, B) = [buckets |-> s, more |-> more]
    BY <1>1
  <2> QED
    BY <1>6, <2>1, <2>2 DEF count, Lists
<1>7. CASE Len(whole) < count + 1
  <2>1. fetched = whole
    BY <1>3, <1>7, SubSeqFull
  <2>2. ~ more
    BY <1>5, <1>7, <2>1
  <2>3. s = whole
    BY <2>1, <2>2
  <2> HIDE DEF s, more, fetched
  <2> QED
    BY <1>3, <1>4, <1>5, <1>7, <2>3
<1>8. CASE ~ Len(whole) < count + 1
  <2>1. fetched = SubSeq(whole, 1, count + 1)
    BY <1>8
  <2>2. \A i \in 1 .. count + 1 : i \in 1 .. Len(whole)
    BY <1>5, <1>8
  <2>3. fetched \in Seq(B) /\ Len(fetched) = count + 1
    <3>1. \A i \in 1 .. count + 1 : whole[i] \in B
      BY <1>3, <2>2
    <3>2. SubSeq(whole, 1, count + 1) \in Seq(B) /\ Len(SubSeq(whole, 1, count + 1)) = count + 1
      BY <1>5, <3>1, SubSeqProperties
    <3> HIDE DEF fetched
    <3> QED
      BY <2>1, <3>2
  <2>4. \A i \in 1 .. count + 1 : fetched[i] = whole[i]
    <3>1. \A i \in 1 .. count + 1 : whole[i] \in B
      BY <1>3, <2>2
    <3>2. \A i \in 1 .. (count + 1) - 1 + 1 : SubSeq(whole, 1, count + 1)[i] = whole[1 + i - 1]
      BY <1>5, <3>1, SubSeqProperties
    <3> HIDE DEF fetched
    <3> QED
      BY <1>5, <2>1, <3>2
  <2>5. more
    BY <1>5, <2>3
  <2>6. s = SubSeq(fetched, 1, count)
    BY <2>5
  <2> HIDE DEF more, fetched, s
  <2>7. \A i \in 1 .. count : i \in 1 .. count + 1
    BY <1>5
  <2>8. \A i \in 1 .. count : fetched[i] \in B /\ fetched[i] = whole[i]
    BY <1>3, <2>2, <2>4, <2>7
  <2>9. s \in Seq(B) /\ Len(s) = count
    <3>1. SubSeq(fetched, 1, count) \in Seq(B) /\ Len(SubSeq(fetched, 1, count)) = count
      BY <1>5, <2>8, SubSeqProperties
    <3> QED
      BY <2>6, <3>1
  <2>10. \A i \in 1 .. count : s[i] = whole[i]
    <3>1. \A i \in 1 .. count - 1 + 1 : SubSeq(fetched, 1, count)[i] = fetched[1 + i - 1]
      BY <1>5, <2>8, SubSeqProperties
    <3> QED
      BY <1>5, <2>6, <2>8, <3>1
  <2>11. \A i, j \in 1 .. count : s[i].key = s[j].key => i = j
    BY <1>4, <2>2, <2>7, <2>10
  <2> QED
    BY <1>5, <2>5, <2>9, <2>11
<1> QED
  BY <1>7, <1>8

-----------------------------------------------------------------------------
(* Sums of counts.                                                         *)

\* The function that Total computes, for the first n buckets.
Sums(sum, s, n) ==
    sum = [i \in 0 .. n |-> IF i = 0 THEN 0 ELSE sum[i - 1] + s[i].count]

LEMMA SumsExist ==
    ASSUME NEW s, NEW n \in Nat
    PROVE  \E sum : Sums(sum, s, n)
<1> DEFINE T == {k \in Nat : ~ \E sum : Sums(sum, s, k)}
<1> SUFFICES ASSUME T # {} PROVE FALSE
  OBVIOUS
<1>1. PICK k \in T : \A m \in T : k <= m
  BY LeastNat
<1>2. k # 0
  <2>1. Sums([i \in 0 .. 0 |-> 0], s, 0)
    BY DEF Sums
  <2> QED
    BY <2>1
<1>3. k - 1 \in Nat /\ k - 1 \notin T
  BY <1>1, <1>2
<1>4. PICK sum : Sums(sum, s, k - 1)
  BY <1>3
<1> DEFINE more == [i \in 0 .. k |-> IF i = k THEN sum[k - 1] + s[k].count ELSE sum[i]]
<1>5. Sums(more, s, k)
  <2>1. \A i \in 0 .. k - 1 : more[i] = sum[i]
    BY <1>3
  <2>2. more[k] = sum[k - 1] + s[k].count
    BY <1>3
  <2>3. \A i \in 0 .. k - 1 : sum[i] = IF i = 0 THEN 0 ELSE sum[i - 1] + s[i].count
    BY <1>3, <1>4 DEF Sums
  <2>4. \A i \in 0 .. k : more[i] = IF i = 0 THEN 0 ELSE more[i - 1] + s[i].count
    <3> HIDE DEF more
    <3> QED
      BY <1>2, <1>3, <2>1, <2>2, <2>3
  <2>5. more = [i \in 0 .. k |-> more[i]]
    OBVIOUS
  <2> HIDE DEF more
  <2> QED
    BY <2>4, <2>5 DEF Sums
<1> QED
  BY <1>1, <1>5

LEMMA TotalIs ==
    ASSUME NEW s, Len(s) \in Nat
    PROVE  \E sum : /\ Total(s) = sum[Len(s)] /\ sum[0] = 0
                    /\ \A i \in 1 .. Len(s) : sum[i] = sum[i - 1] + s[i].count
<1> DEFINE sum == CHOOSE g : Sums(g, s, Len(s))
<1>1. Sums(sum, s, Len(s))
  BY SumsExist
<1>2. Total(s) = sum[Len(s)]
  BY DEF Total, Sums
<1> HIDE DEF sum
<1>3. \A i \in 0 .. Len(s) : sum[i] = IF i = 0 THEN 0 ELSE sum[i - 1] + s[i].count
  BY <1>1 DEF Sums
<1> QED
  BY <1>2, <1>3

\* Buckets with different keys that count the members of a finite set by a key
\* of theirs.
Counts(s, O, key) ==
    /\ Len(s) \in Nat
    /\ \A i \in 1 .. Len(s) : s[i].count = Cardinality({o \in O : key[o] = s[i].key})
    /\ \A i, j \in 1 .. Len(s) : s[i].key = s[j].key => i = j

\* If every member has a bucket, the counts add up.
LEMMA CountsTotal ==
    ASSUME NEW O, IsFiniteSet(O), NEW key, NEW s, Counts(s, O, key),
           \A o \in O : \E i \in 1 .. Len(s) : s[i].key = key[o]
    PROVE  Total(s) = Cardinality(O)
<1> DEFINE upTo(n) == {o \in O : \E i \in 1 .. n : s[i].key = key[o]}
           at(n) == {o \in O : key[o] = s[n].key}
<1>1. /\ Len(s) \in Nat
      /\ \A i \in 1 .. Len(s) : s[i].count = Cardinality(at(i))
      /\ \A i, j \in 1 .. Len(s) : s[i].key = s[j].key => i = j
  BY DEF Counts
<1>2. PICK sum : /\ Total(s) = sum[Len(s)] /\ sum[0] = 0
                 /\ \A i \in 1 .. Len(s) : sum[i] = sum[i - 1] + s[i].count
  BY <1>1, TotalIs
<1> DEFINE T == {n \in 0 .. Len(s) : sum[n] # Cardinality(upTo(n))}
<1>3. T = {}
  <2> SUFFICES ASSUME T # {} PROVE FALSE
    OBVIOUS
  <2>1. PICK n \in T : \A m \in T : n <= m
    <3>1. T \in SUBSET Nat
      BY <1>1
    <3> HIDE DEF T
    <3> QED
      BY <3>1, LeastNat
  <2>2. n \in 0 .. Len(s) /\ sum[n] # Cardinality(upTo(n))
    BY <2>1
  <2>3. n # 0
    <3>1. upTo(0) = {}
      OBVIOUS
    <3> HIDE DEF upTo
    <3> QED
      BY <1>2, <2>2, <3>1, FS_EmptySet
  <2>4. n - 1 \in 0 .. Len(s) /\ n \in 1 .. Len(s)
    BY <1>1, <2>2, <2>3
  <2>5. sum[n - 1] = Cardinality(upTo(n - 1))
    <3>1. n - 1 \notin T
      BY <2>1, <2>2, <2>4
    <3> HIDE DEF upTo
    <3> QED
      BY <2>4, <3>1
  <2>6. upTo(n) = upTo(n - 1) \cup at(n)
    <3>1. \A i \in 1 .. n : i \in 1 .. n - 1 \/ i = n
      BY <2>4
    <3>2. \A i \in 1 .. n - 1 : i \in 1 .. n
      BY <2>4
    <3> QED
      BY <2>4, <3>1, <3>2
  <2>7. upTo(n - 1) \cap at(n) = {}
    <3>1. \A i \in 1 .. n - 1 : i \in 1 .. Len(s) /\ i # n
      BY <1>1, <2>4
    <3> QED
      BY <1>1, <2>4, <3>1
  <2>8. upTo(n - 1) \in SUBSET O /\ at(n) \in SUBSET O
    OBVIOUS
  <2> HIDE DEF upTo, at, T
  <2>9. /\ IsFiniteSet(upTo(n - 1)) /\ IsFiniteSet(at(n))
        /\ Cardinality(upTo(n - 1)) \in Nat /\ Cardinality(at(n)) \in Nat
    BY <2>8, FS_Subset, FS_CardinalityType
  <2>10. Cardinality(upTo(n)) = Cardinality(upTo(n - 1)) + Cardinality(at(n))
    <3>1. Cardinality(upTo(n)) = Cardinality(upTo(n - 1)) + Cardinality(at(n)) - Cardinality({})
      BY <2>6, <2>7, <2>9, FS_Union
    <3>2. Cardinality({}) = 0
      BY FS_EmptySet
    <3> QED
      BY <2>9, <3>1, <3>2
  <2>11. sum[n] = sum[n - 1] + s[n].count /\ s[n].count = Cardinality(at(n))
    BY <1>1, <1>2, <2>4
  <2> QED
    BY <2>2, <2>5, <2>10, <2>11
<1>4. sum[Len(s)] = Cardinality(upTo(Len(s)))
  <2>1. Len(s) \in 0 .. Len(s)
    BY <1>1
  <2> HIDE DEF upTo
  <2> QED
    BY <1>3, <2>1
<1>5. upTo(Len(s)) = O
  OBVIOUS
<1> HIDE DEF upTo, at, T
<1> QED
  BY <1>2, <1>4, <1>5

\* One bucket, or none.
LEMMA SmallTotals ==
    /\ Total(<<>>) = 0
    /\ \A b : b.count \in Int => Total(<<b>>) = b.count
<1>1. Total(<<>>) = 0
  <2>1. Len(<<>>) = 0
    OBVIOUS
  <2> QED
    BY <2>1, TotalIs
<1>2. ASSUME NEW b, b.count \in Int PROVE Total(<<b>>) = b.count
  <2> DEFINE s == <<b>>
  <2>1. Len(s) = 1 /\ s[1] = b
    OBVIOUS
  <2> HIDE DEF s
  <2>2. PICK sum : /\ Total(s) = sum[1] /\ sum[0] = 0
                   /\ \A i \in 1 .. 1 : sum[i] = sum[i - 1] + s[i].count
    BY <2>1, TotalIs
  <2>3. sum[1] = sum[0] + b.count
    BY <2>1, <2>2
  <2> QED
    BY <1>2, <2>2, <2>3 DEF s
<1> QED
  BY <1>1, <1>2

-----------------------------------------------------------------------------
(* Values and groups.                                                      *)

Properties == {"number", "integer", "date", "tags"}

LEMMA ElementsType ==
    ASSUME NEW t \in Searches, NEW property \in Properties, NEW r \in Records
    PROVE  Elements(t[r], property) \in Seq(Int)
<1> DEFINE row == t[r]
<1>1. row \in Rows \cup {Null}
  BY DEF Searches
<1> HIDE DEF row
<1>2. CASE row = Null
  <2>1. Elements(row, property) = <<>>
    BY <1>2 DEF Elements
  <2> QED
    BY <2>1 DEF row
<1>3. CASE row # Null /\ property = "tags"
  <2>1. Elements(row, property) = row.tags
    BY <1>3 DEF Elements
  <2> QED
    BY <1>1, <1>3, <2>1, RowsAssumption DEF row
<1>4. CASE row # Null /\ property # "tags"
  <2>1. row[property] \in Int \cup {Null}
    BY <1>1, <1>4, RowsAssumption DEF Properties
  <2>2. CASE row[property] = Null
    <3>1. Elements(row, property) = <<>>
      BY <2>2, <1>4 DEF Elements
    <3> QED
      BY <3>1 DEF row
  <2>3. CASE row[property] # Null
    <3>1. Elements(row, property) = <<row[property]>>
      BY <2>3, <1>4 DEF Elements
    <3>2. row[property] \in Int
      BY <2>1, <2>3
    <3> QED
      BY <3>1, <3>2 DEF row
  <2> QED
    BY <2>2, <2>3
<1> QED
  BY <1>2, <1>3, <1>4

\* There are finitely many occurrences of values, each an integer.
LEMMA OccurrencesFinite ==
    ASSUME NEW t \in Searches, NEW property \in Properties
    PROVE  /\ IsFiniteSet(Occurrences(t, property))
           /\ \A o \in Occurrences(t, property) : o.value \in Int
<1> DEFINE E(r) == Elements(t[r], property)
           of(r) == {[record |-> r, place |-> i, value |-> E(r)[i]] : i \in DOMAIN E(r)}
<1>1. \A r \in Records : E(r) \in Seq(Int)
  BY ElementsType
<1>2. \A r \in Records : IsFiniteSet(of(r))
  <2> TAKE r \in Records
  <2> DEFINE D == DOMAIN E(r)
             g == [i \in D |-> [record |-> r, place |-> i, value |-> E(r)[i]]]
  <2>1. D = 1 .. Len(E(r)) /\ Len(E(r)) \in Nat
    BY <1>1, LenProperties
  <2>2. IsFiniteSet(D)
    BY <2>1, FS_Interval
  <2>3. of(r) = {g[i] : i \in D}
    OBVIOUS
  <2>4. D \subseteq DOMAIN g
    OBVIOUS
  <2> HIDE DEF D, g, of
  <2> QED
    BY <2>2, <2>3, <2>4, FiniteImage
<1>3. \A r \in Records : \A o \in of(r) : o.value \in Int
  <2> SUFFICES ASSUME NEW r \in Records, NEW o \in of(r) PROVE o.value \in Int
    OBVIOUS
  <2>1. PICK i \in DOMAIN E(r) : o = [record |-> r, place |-> i, value |-> E(r)[i]]
    OBVIOUS
  <2>2. DOMAIN E(r) = 1 .. Len(E(r))
    BY <1>1, LenProperties
  <2>3. E(r)[i] \in Int
    BY <1>1, <2>2, ElementOfSeq
  <2> QED
    BY <2>1, <2>3
<1> DEFINE all == {of(r) : r \in Records}
<1>4. Occurrences(t, property) = UNION all
  BY DEF Occurrences
<1>5. IsFiniteSet(all)
  <2> DEFINE g == [r \in Records |-> of(r)]
  <2>1. all = {g[r] : r \in Records}
    OBVIOUS
  <2>2. Records \subseteq DOMAIN g
    OBVIOUS
  <2> HIDE DEF g, all
  <2> QED
    BY <2>1, <2>2, FiniteImage, FiniteAssumption
<1>6. \A S \in all : IsFiniteSet(S)
  BY <1>2
<1>7. \A o \in UNION all : o.value \in Int
  BY <1>3
<1> HIDE DEF all
<1> QED
  BY <1>4, <1>5, <1>6, <1>7, FS_UNION

LEMMA ValuesFinite ==
    ASSUME NEW t \in Searches, NEW property \in Properties
    PROVE  /\ IsFiniteSet(Values(t, property))
           /\ Values(t, property) \in SUBSET Int
           /\ Values(t, property) = {} => Occurrences(t, property) = {}
<1> DEFINE O == Occurrences(t, property)
           g == [o \in O |-> o.value]
<1>1. IsFiniteSet(O) /\ \A o \in O : o.value \in Int
  BY OccurrencesFinite
<1>2. Values(t, property) = {o.value : o \in O}
  BY DEF Values
<1> HIDE DEF O
<1>3. Values(t, property) = {g[o] : o \in O} /\ O \subseteq DOMAIN g
  BY <1>2
<1>4. IsFiniteSet(Values(t, property))
  <2> HIDE DEF g
  <2> QED
    BY <1>1, <1>3, FiniteImage
<1> QED
  BY <1>1, <1>2, <1>4 DEF O

\* The key of each occurrence.
KeyOf(key, property) == [o \in Occurrences(snap, property) |-> key[o.value]]

\* GROUP BY: one bucket for each key, and HAVING leaves out the rare ones.
AreGroups(B, key, property, minOccurs) ==
    LET O == Occurrences(snap, property)
        k == KeyOf(key, property)
    IN
    /\ AreBuckets(B)
    /\ \A b \in B : /\ b.key \in Range(key)
                    /\ b.count = Cardinality({o \in O : k[o] = b.key})
    /\ minOccurs <= 1 => \A o \in O : \E b \in B : b.key = k[o]

LEMMA GroupedIs ==
    ASSUME snap \in Searches, NEW property \in Properties, NEW key,
           DOMAIN key = Values(snap, property), \A v \in DOMAIN key : key[v] \in Int,
           NEW minOccurs \in Nat
    PROVE  AreGroups(Grouped(key, property, minOccurs), key, property, minOccurs)
<1> DEFINE O == Occurrences(snap, property)
           k == [o \in O |-> key[o.value]]
           at(x) == {o \in O : key[o.value] = x}
           g == [x \in Range(key) |-> [key |-> x, count |-> Cardinality(at(x))]]
           all == {g[x] : x \in Range(key)}
           B == {b \in all : b.count >= minOccurs}
<1>1. Grouped(key, property, minOccurs) = B
  BY DEF Grouped, Snapshot
<1>2. IsFiniteSet(O)
  BY OccurrencesFinite
<1>3. \A o \in O : o.value \in DOMAIN key /\ key[o.value] \in Range(key)
  BY DEF Values, Range
<1>4. Range(key) \subseteq Int
  BY DEF Range
<1>5. \A x : at(x) = {o \in O : k[o] = x} /\ at(x) \in SUBSET O
  OBVIOUS
<1>6. \A x : IsFiniteSet(at(x)) /\ Cardinality(at(x)) \in Nat
  <2> HIDE DEF at, O
  <2> QED
    BY <1>2, <1>5, FS_Subset, FS_CardinalityType
<1>7. \A x \in Range(key) : g[x].key = x /\ g[x].count = Cardinality(at(x))
  OBVIOUS
<1>8. IsFiniteSet(all)
  <2>1. IsFiniteSet(Range(key))
    <3>1. Range(key) = {key[x] : x \in DOMAIN key}
      BY DEF Range
    <3>2. IsFiniteSet(DOMAIN key)
      BY ValuesFinite
    <3> QED
      BY <3>1, <3>2, FiniteImage
  <2>2. Range(key) \subseteq DOMAIN g
    OBVIOUS
  <2> HIDE DEF g
  <2> QED
    BY <2>1, <2>2, FiniteImage
<1>9. B \in SUBSET all
  OBVIOUS
<1>10. \A b \in all : b.key \in Range(key) /\ b = g[b.key]
  BY <1>7
<1>11. AreBuckets(B)
  <2>1. IsFiniteSet(B)
    <3> HIDE DEF B, all
    <3> QED
      BY <1>8, <1>9, FS_Subset
  <2>2. \A b \in B : b.key \in Int /\ b.count \in Int
    <3> HIDE DEF B, all, g, at
    <3> QED
      BY <1>4, <1>6, <1>7, <1>9, <1>10
  <2>3. \A b, c \in B : b.key = c.key => b = c
    <3> HIDE DEF B, all, g
    <3> QED
      BY <1>9, <1>10
  <2> HIDE DEF B
  <2> QED
    BY <2>1, <2>2, <2>3 DEF AreBuckets
<1>12. \A b \in B : b.key \in Range(key) /\ b.count = Cardinality({o \in O : k[o] = b.key})
  <2> TAKE b \in B
  <2>1. b.key \in Range(key) /\ b = g[b.key]
    BY <1>9, <1>10
  <2>2. b.count = Cardinality(at(b.key))
    <3> HIDE DEF B, g, at
    <3> QED
      BY <1>7, <2>1
  <2>3. at(b.key) = {o \in O : k[o] = b.key}
    BY <1>5
  <2> HIDE DEF B, g, at, k, O
  <2> QED
    BY <2>1, <2>2, <2>3
<1>13. ASSUME minOccurs <= 1, NEW o \in O PROVE \E b \in B : b.key = k[o]
  <2> DEFINE x == key[o.value]
  <2>1. x \in Range(key) /\ k[o] = x
    BY <1>3
  <2>2. o \in at(x)
    OBVIOUS
  <2>3. Cardinality(at(x)) # 0
    <3> HIDE DEF at
    <3> QED
      BY <1>6, <2>2, FS_EmptySet
  <2>4. Cardinality(at(x)) >= minOccurs
    <3> HIDE DEF at, x
    <3> QED
      BY <1>6, <1>13, <2>3
  <2>5. g[x] \in B /\ g[x].key = x
    <3> HIDE DEF at, x
    <3> QED
      BY <2>1, <2>4
  <2> QED
    BY <2>1, <2>5
<1> HIDE DEF B
<1>14. KeyOf(key, property) = k
  BY DEF KeyOf
<1> HIDE DEF k, O
<1>15. AreGroups(B, key, property, minOccurs)
  BY <1>11, <1>12, <1>13, <1>14 DEF AreGroups, O
<1> QED
  BY <1>1, <1>15

-----------------------------------------------------------------------------
(* What is reported of one facet.                                          *)

\* What the buckets of a facet owe to the snapshot.
Reports(f, request, result) ==
    /\ result.more \in BOOLEAN \cup {Null}
    /\ Len(result.buckets) \in Nat /\ Len(result.buckets) <= request.count
    /\ result.more # TRUE /\ Definitions[f].minOccurs <= 1 =>
           Total(result.buckets) =
               IF Definitions[f].type = "filter"
               THEN Cardinality({x \in Records \X DOMAIN Definitions[f].filters :
                                     snap[x[1]] \in Definitions[f].filters[x[2]]})
               ELSE Cardinality(Occurrences(snap, Definitions[f].property))
    /\ IsHistogram(f) /\ KeepsWidth(f, request) =>
           LET O == Occurrences(snap, Definitions[f].property) IN
           \A i \in DOMAIN result.buckets : WithinHorizon(f, result.buckets[i]) =>
               /\ Cardinality({o \in O : Inside(o.value, result.buckets[i], f, request)})
                      <= result.buckets[i].count
               /\ result.buckets[i].count
                      <= Cardinality({o \in O : About(o.value, result.buckets[i])})

LEMMA DefinitionType ==
    ASSUME NEW f \in DOMAIN Definitions
    PROVE  /\ Definitions[f].type \in {"term", "fixedCount", "fixedInterval", "filter"}
           /\ Definitions[f].property \in Properties
           /\ IsHistogram(f) => Definitions[f].property \in {"number", "integer", "date"}
           /\ Definitions[f].minOccurs \in Nat /\ Definitions[f].interval \in Nat \ {0}
           /\ Definitions[f].bucketCount \in Nat \ {0}
           /\ Definitions[f].filters \in Seq(SUBSET Rows)
  BY DefinitionsAssumption DEF FacetDefinitions, Properties, IsHistogram

\* A facet of groups: its buckets count the occurrences by their keys, and when
\* nothing is left out, every occurrence has its bucket.
ListsGroups(limited, key, f, request) ==
    LET def == Definitions[f]
        s == limited.buckets
        O == Occurrences(snap, def.property)
        k == KeyOf(key, def.property)
    IN
    /\ limited = [buckets |-> s, more |-> limited.more] /\ limited.more \in BOOLEAN
    /\ DOMAIN s = 1 .. Len(s) /\ Len(s) \in Nat /\ Len(s) <= request.count
    /\ \A i \in 1 .. Len(s) : s[i].key \in Range(key)
    /\ Counts(s, O, k)
    /\ ~ limited.more /\ def.minOccurs <= 1 =>
           \A o \in O : \E i \in 1 .. Len(s) : s[i].key = k[o]

LEMMA GroupsLimited ==
    ASSUME snap \in Searches, NEW f \in DOMAIN Definitions, NEW request \in Requests,
           NEW key, DOMAIN key = Values(snap, Definitions[f].property),
           \A v \in DOMAIN key : key[v] \in Int
    PROVE  LET def == Definitions[f]
               limited == Limited(request, Grouped(key, def.property, def.minOccurs))
           IN ListsGroups(limited, key, f, request)
<1> DEFINE def == Definitions[f]
           property == def.property
           B == Grouped(key, property, def.minOccurs)
           limited == Limited(request, B)
           s == limited.buckets
           O == Occurrences(snap, property)
           k == KeyOf(key, property)
<1>1. property \in Properties /\ def.minOccurs \in Nat
  BY DefinitionType
<1>2. AreGroups(B, key, property, def.minOccurs)
  BY <1>1, GroupedIs
<1>3. /\ AreBuckets(B)
      /\ \A b \in B : b.key \in Range(key) /\ b.count = Cardinality({o \in O : k[o] = b.key})
      /\ def.minOccurs <= 1 => \A o \in O : \E b \in B : b.key = k[o]
  BY <1>2 DEF AreGroups
<1> HIDE DEF B
<1>4. Lists(limited, B, request.count)
  BY <1>3, LimitedIs
<1>5. /\ limited = [buckets |-> s, more |-> limited.more] /\ limited.more \in BOOLEAN
      /\ s \in Seq(B) /\ Len(s) <= request.count
      /\ \A i, j \in 1 .. Len(s) : s[i].key = s[j].key => i = j
      /\ ~ limited.more => \A b \in B : \E i \in 1 .. Len(s) : s[i] = b
  BY <1>4 DEF Lists
<1> HIDE DEF limited, k, O
<1>6. DOMAIN s = 1 .. Len(s) /\ Len(s) \in Nat
  BY <1>5, LenProperties
<1>7. \A i \in 1 .. Len(s) : s[i] \in B
  BY <1>5, ElementOfSeq
<1>8. Counts(s, O, k)
  BY <1>3, <1>5, <1>6, <1>7 DEF Counts
<1>9. ASSUME ~ limited.more, def.minOccurs <= 1, NEW o \in O
      PROVE  \E i \in 1 .. Len(s) : s[i].key = k[o]
  <2>1. PICK b \in B : b.key = k[o]
    BY <1>3, <1>9
  <2> QED
    BY <1>5, <1>9, <2>1
<1>10. \A i \in 1 .. Len(s) : s[i].key \in Range(key)
  BY <1>3, <1>7
<1>11. ListsGroups(limited, key, f, request)
  BY <1>5, <1>6, <1>8, <1>9, <1>10 DEF ListsGroups, k, O
<1> QED
  BY <1>11 DEF limited, B

\* termFacet.
LEMMA TermReports ==
    ASSUME snap \in Searches, NEW f \in DOMAIN Definitions, NEW request \in Requests,
           Definitions[f].type = "term"
    PROVE  LET def == Definitions[f]
               value == [v \in Values(Snapshot, def.property) |-> v]
           IN Reports(f, request, Limited(request, Grouped(value, def.property, def.minOccurs)))
<1> DEFINE def == Definitions[f]
           value == [v \in Values(snap, def.property) |-> v]
           limited == Limited(request, Grouped(value, def.property, def.minOccurs))
           s == limited.buckets
           O == Occurrences(snap, def.property)
           k == KeyOf(value, def.property)
<1>1. \A v \in DOMAIN value : value[v] \in Int
  BY DefinitionType, ValuesFinite
<1>2. DOMAIN value = Values(snap, def.property)
  OBVIOUS
<1> HIDE DEF value
<1>3. ListsGroups(limited, value, f, request)
  BY <1>1, <1>2, GroupsLimited
<1> HIDE DEF limited
<1>4. IsFiniteSet(O)
  BY DefinitionType, OccurrencesFinite
<1>5. /\ limited.more \in BOOLEAN
      /\ Len(s) \in Nat /\ Len(s) <= request.count
  BY <1>3 DEF ListsGroups
<1>6. ASSUME limited.more # TRUE, def.minOccurs <= 1 PROVE Total(s) = Cardinality(O)
  <2>1. Counts(s, O, k) /\ \A o \in O : \E i \in 1 .. Len(s) : s[i].key = k[o]
    BY <1>3, <1>5, <1>6 DEF ListsGroups
  <2> HIDE DEF O, k
  <2> QED
    BY <1>4, <2>1, CountsTotal
<1>7. Reports(f, request, limited)
  BY <1>5, <1>6 DEF Reports, IsHistogram
<1> QED
  BY <1>7 DEF limited, value, Snapshot

\* A histogram: its buckets are those of the groups, and a value is of a group
\* when it lies inside the bounds reported with the bucket, and only when it lies
\* about there.
LEMMA HistogramReports ==
    ASSUME snap \in Searches, NEW f \in DOMAIN Definitions, NEW request \in Requests,
           IsHistogram(f), NEW key, NEW limited, ListsGroups(limited, key, f, request),
           NEW result, result.more = limited.more,
           DOMAIN result.buckets = 1 .. Len(limited.buckets),
           Len(result.buckets) = Len(limited.buckets),
           \A i \in 1 .. Len(limited.buckets) :
               /\ result.buckets[i].key = limited.buckets[i].key
               /\ result.buckets[i].count = limited.buckets[i].count
               /\ KeepsWidth(f, request) /\ WithinHorizon(f, result.buckets[i]) =>
                  \A v \in Values(snap, Definitions[f].property) :
                      /\ Inside(v, result.buckets[i], f, request) => key[v] = limited.buckets[i].key
                      /\ key[v] = limited.buckets[i].key => About(v, result.buckets[i])
    PROVE  Reports(f, request, result)
<1> DEFINE def == Definitions[f]
           s == limited.buckets
           q == result.buckets
           O == Occurrences(snap, def.property)
           k == KeyOf(key, def.property)
<1>1. /\ limited.more \in BOOLEAN
      /\ Len(s) \in Nat /\ Len(s) <= request.count
      /\ Counts(s, O, k)
      /\ ~ limited.more /\ def.minOccurs <= 1 =>
             \A o \in O : \E i \in 1 .. Len(s) : s[i].key = k[o]
  BY DEF ListsGroups
<1>2. IsFiniteSet(O)
  BY DefinitionType, OccurrencesFinite
<1>3. \A i \in 1 .. Len(s) : q[i].key = s[i].key /\ q[i].count = s[i].count
  OBVIOUS
<1>4. Len(q) = Len(s) /\ DOMAIN q = 1 .. Len(s)
  OBVIOUS
<1>5. Counts(q, O, k)
  <2> HIDE DEF s, q, O, k
  <2> QED
    BY <1>1, <1>3, <1>4 DEF Counts
<1>6. ASSUME result.more # TRUE, def.minOccurs <= 1 PROVE Total(q) = Cardinality(O)
  <2>1. \A o \in O : \E i \in 1 .. Len(s) : s[i].key = k[o]
    BY <1>1, <1>6
  <2> HIDE DEF s, q, O, k
  <2>2. \A o \in O : \E i \in 1 .. Len(q) : q[i].key = k[o]
    BY <1>3, <1>4, <2>1
  <2> QED
    BY <1>2, <1>5, <2>2, CountsTotal
<1> DEFINE inside(i) == {o \in O : Inside(o.value, q[i], f, request)}
           about(i) == {o \in O : About(o.value, q[i])}
<1>7. ASSUME KeepsWidth(f, request), NEW i \in DOMAIN q, WithinHorizon(f, q[i])
      PROVE  Cardinality(inside(i)) <= q[i].count /\ q[i].count <= Cardinality(about(i))
  <2>1. i \in 1 .. Len(s)
    BY <1>4
  <2> DEFINE G == {o \in O : k[o] = s[i].key}
  <2>2. q[i].count = Cardinality(G)
    <3> HIDE DEF s, q, O, k
    <3> QED
      BY <1>1, <1>3, <2>1 DEF Counts
  <2>3. \A o \in O : k[o] = key[o.value] /\ o.value \in Values(snap, def.property)
    BY DEF KeyOf, Values
  <2>4. \A v \in Values(snap, def.property) :
            /\ Inside(v, q[i], f, request) => key[v] = s[i].key
            /\ key[v] = s[i].key => About(v, q[i])
    BY <1>7, <2>1
  <2>5. inside(i) \subseteq G /\ G \subseteq about(i) /\ about(i) \subseteq O
    <3> HIDE DEF s, q, O, k, def
    <3> QED
      BY <2>3, <2>4
  <2> HIDE DEF G, O, inside, about
  <2> QED
    BY <1>2, <2>2, <2>5, FS_Subset
<1>8. def.type # "filter"
  BY DEF IsHistogram
<1>9. result.more \in BOOLEAN /\ Len(q) \in Nat /\ Len(q) <= request.count
  BY <1>1, <1>4
<1> QED
  BY <1>6, <1>7, <1>8, <1>9 DEF Reports

\* No error exceeds Slack.
LEMMA ErrorsType ==
    ASSUME NEW f \in DOMAIN Definitions, NEW request \in Requests
    PROVE  /\ Slack \in Nat
           /\ \A error \in ErrorsOf(Definitions[f]) : error \in -Slack .. Slack
           /\ \A off \in Roundings(request, Definitions[f]) :
                  /\ off.top \in -Slack .. Slack
                  /\ \A v \in Values(snap, Definitions[f].property) : off.index[v] \in -Slack .. Slack
                  /\ \A i \in 1 .. request.count :
                         off.low[i] \in -Slack .. Slack /\ off.high[i] \in -Slack .. Slack
<1>1. Slack \in Nat /\ \A error \in ErrorsOf(Definitions[f]) : error \in -Slack .. Slack
  BY ErrorsAssumption DEF ErrorsOf
<1> QED
  BY <1>1 DEF Roundings, Snapshot

\* Intervals of a given width: the bounds of a bucket are, but for their errors, a
\* multiple of it from the anchor, and the next.
LEMMA FixedIntervalReports ==
    ASSUME snap \in Searches, NEW f \in DOMAIN Definitions, NEW request \in Requests,
           Definitions[f].type = "fixedInterval", NEW anchor \in Int,
           NEW off \in Roundings(request, Definitions[f])
    PROVE  Reports(f, request, FixedInterval(request, Definitions[f], anchor, off))
<1> DEFINE def == Definitions[f]
           d == def.interval
           V == Values(snap, def.property)
           index == [v \in V |-> (v - anchor + off.index[v]) \div d]
           limited == Limited(request, Grouped(index, def.property, def.minOccurs))
           s == limited.buckets
           start(b) == anchor + b.key * d
           q == [i \in 1 .. Len(s) |->
                    [key |-> s[i].key, count |-> s[i].count, unit |-> 1,
                     low |-> start(s[i]) + off.low[i], high |-> start(s[i]) + d + off.high[i]]]
           result == FixedInterval(request, def, anchor, off)
<1>1. d \in Nat \ {0} /\ V \in SUBSET Int
  BY DefinitionType, ValuesFinite
<1>2. /\ Slack \in Nat /\ \A v \in V : off.index[v] \in -Slack .. Slack
      /\ \A i \in 1 .. request.count : off.low[i] \in -Slack .. Slack /\ off.high[i] \in -Slack .. Slack
  BY ErrorsType
<1>3. DOMAIN index = V /\ \A v \in V : index[v] = (v - anchor + off.index[v]) \div d
  OBVIOUS
<1>4. \A v \in V : index[v] \in Int
  <2> TAKE v \in V
  <2>1. v - anchor + off.index[v] \in Int
    BY <1>1, <1>2
  <2> HIDE DEF d, V, index
  <2> QED
    BY <1>1, <1>3, <2>1, Division
<1>5. result = [limited EXCEPT !.buckets = [i \in DOMAIN s |->
                    [key |-> s[i].key, count |-> s[i].count, unit |-> 1,
                     low |-> start(s[i]) + off.low[i], high |-> start(s[i]) + d + off.high[i]]]]
  BY DEF FixedInterval, Snapshot
<1> HIDE DEF index
<1>6. ListsGroups(limited, index, f, request)
  BY <1>3, <1>4, GroupsLimited
<1> HIDE DEF limited
<1>7. /\ limited = [buckets |-> s, more |-> limited.more] /\ DOMAIN s = 1 .. Len(s)
      /\ Len(s) \in Nat /\ Len(s) <= request.count /\ \A i \in 1 .. Len(s) : s[i].key \in Range(index)
  BY <1>6 DEF ListsGroups
<1>8. \A i \in 1 .. Len(s) : s[i].key \in Int
  BY <1>3, <1>4, <1>7 DEF Range
<1> HIDE DEF result, s
<1>9. result = [buckets |-> q, more |-> limited.more]
  BY <1>5, <1>7
<1>10. \A i \in 1 .. Len(s) : /\ q[i].key = s[i].key /\ q[i].count = s[i].count
                              /\ q[i].unit = 1 /\ q[i].low = anchor + s[i].key * d + off.low[i]
                              /\ q[i].high = anchor + s[i].key * d + d + off.high[i]
  OBVIOUS
<1>11. DOMAIN q = 1 .. Len(s) /\ Len(q) = Len(s)
  BY <1>7
<1> HIDE DEF q
<1>12. ASSUME NEW i \in 1 .. Len(s), NEW v \in V
       PROVE  /\ Inside(v, q[i], f, request) => index[v] = s[i].key
              /\ index[v] = s[i].key => About(v, q[i])
  <2> DEFINE k == s[i].key
             kd == k * d
             e == off.index[v]
             el == off.low[i]
             eh == off.high[i]
  <2>1. v \in Int /\ k \in Int /\ index[v] = (v - anchor + e) \div d
    BY <1>1, <1>3, <1>8
  <2>2. e \in -Slack .. Slack /\ el \in -Slack .. Slack /\ eh \in -Slack .. Slack
    <3>1. request.count \in Nat /\ i \in 1 .. request.count
      BY <1>7 DEF Requests
    <3> QED
      BY <1>2, <3>1
  <2>3. v - anchor + e \in Int
    BY <1>2, <2>1, <2>2
  <2>4. k = (v - anchor + e) \div d <=> k * d <= v - anchor + e /\ v - anchor + e < k * d + d
    <3> HIDE DEF k, d, e
    <3> QED
      BY <1>1, <2>1, <2>3, Division
  <2>5. kd \in Int
    BY <1>1, <2>1, SMTT(30)
  <2>6. q[i].low = anchor + kd + el /\ q[i].high = anchor + kd + d + eh /\ q[i].unit = 1
    BY <1>10
  <2>7. index[v] = k <=> kd <= v - anchor + e /\ v - anchor + e < kd + d
    BY <2>1, <2>4
  <2>8. About(v, q[i]) <=> q[i].low - 2 * Slack <= v /\ v <= q[i].high + 2 * Slack
    BY <2>1, <2>6 DEF About
  <2>9. Inside(v, q[i], f, request) => q[i].low + 2 * Slack <= v /\ v < q[i].high - 2 * Slack
    BY <2>1, <2>6 DEF Inside
  <2> HIDE DEF kd, d, k, e, el, eh
  <2> DEFINE low == q[i].low
             high == q[i].high
  <2>10. v \in Int /\ d \in Nat /\ Slack \in Nat /\ e \in Int /\ el \in Int /\ eh \in Int
         /\ -Slack <= e /\ e <= Slack /\ -Slack <= el /\ el <= Slack /\ -Slack <= eh /\ eh <= Slack
    BY <1>1, <1>2, <2>1, <2>2
  <2>11. low = anchor + kd + el /\ high = anchor + kd + d + eh
    BY <2>6
  <2> HIDE DEF low, high, d
  <2>12. /\ low + 2 * Slack <= v => kd <= v - anchor + e
         /\ v < high - 2 * Slack => v - anchor + e < kd + d
         /\ kd <= v - anchor + e => low - 2 * Slack <= v
         /\ v - anchor + e < kd + d => v <= high + 2 * Slack
    BY <2>5, <2>10, <2>11
  <2>13. /\ Inside(v, q[i], f, request) => index[v] = k
         /\ index[v] = k => About(v, q[i])
    BY ONLY <2>7, <2>8, <2>9, <2>12 DEF low, high
  <2> QED
    BY <2>13 DEF k
<1>13. IsHistogram(f)
  BY DEF IsHistogram
<1>14. /\ result.more = limited.more /\ result.buckets = q
  BY <1>9
<1>15. Reports(f, request, result)
  BY <1>6, <1>10, <1>11, <1>12, <1>13, <1>14, HistogramReports DEF s
<1> QED
  BY <1>15 DEF result

LEMMA Times ==
    ASSUME NEW a \in Int, NEW b \in Int, NEW w \in Nat
    PROVE  /\ a * w \in Int /\ b * w \in Int
           /\ a <= b => a * w <= b * w
           /\ a < b => a * w + w <= b * w
<1>1. a * w \in Int /\ b * w \in Int
  BY SMTT(30)
<1>2. a <= b => a * w <= b * w
  BY SMTT(30)
<1>3. a < b => a * w + w <= b * w
  BY SMTT(30)
<1> QED
  BY <1>1, <1>2, <1>3

\* The interval that a value is put in, when count intervals of equal width,
\* counted from 0, go from the least value to the greatest.
Place(x, w, count, error) == Clamped((x + error) \div w, count)

\* It is the one that the value lies in, unless it lies at a bound of it.
LEMMA Position ==
    ASSUME NEW w \in Nat \ {0}, NEW n \in Nat \ {0}, NEW S \in Nat, NEW error \in -S .. S,
           NEW x \in Nat, x <= n * w
    PROVE  /\ Place(x, w, n, error) \in Int /\ Place(x, w, n, error) <= n - 1
           /\ \A k \in Int : k <= n - 1 =>
                  /\ Place(x, w, n, error) = k => k * w - S <= x /\ x <= k * w + w + S
                  /\ k * w + S <= x /\ (x < k * w + w - S \/ k = n - 1)
                     => Place(x, w, n, error) = k
<1> DEFINE y == x + error
           q == y \div w
           index == Clamped(q, n)
           nw == n * w
           qw == q * w
<1>1. y \in Int /\ y = x + error
  OBVIOUS
<1>2. Place(x, w, n, error) = index
  BY DEF Place
<1> HIDE DEF y
<1>3. q \in Int /\ q * w <= y /\ y < q * w + w
  <2>1. q \in Int
    BY <1>1, Division
  <2> QED
    BY <1>1, <2>1, Division
<1>4. index = IF q < n THEN q ELSE n - 1
  BY DEF Clamped
<1> HIDE DEF q, index
<1>5. \A a, b \in Int : /\ a * w \in Int /\ b * w \in Int
                        /\ a <= b => a * w <= b * w
                        /\ a < b => a * w + w <= b * w
  BY Times
<1>6. nw \in Int /\ qw \in Int /\ qw <= y /\ y < qw + w /\ x <= nw
  BY <1>3, <1>5
<1>7. n <= q => nw <= qw
  BY <1>3, <1>5
<1>8. ASSUME NEW k \in Int, k <= n - 1
      PROVE  /\ index = k => k * w - S <= x /\ x <= k * w + w + S
             /\ k * w + S <= x /\ (x < k * w + w - S \/ k = n - 1) => index = k
  <2> DEFINE kw == k * w
  <2>1. kw \in Int /\ kw + w <= nw /\ (k = n - 1 => kw + w = nw)
    <3>1. kw \in Int /\ kw + w <= nw
      BY <1>5, <1>8
    <3>2. k = n - 1 => kw + w = nw
      <4>1. (n - 1) * w + w = n * w
        BY SMTT(30)
      <4> QED
        BY <4>1
    <3> QED
      BY <3>1, <3>2
  <2>2. (q = k => qw = kw) /\ (q < k => qw + w <= kw) /\ (k < q => kw + w <= qw)
    BY <1>3, <1>5
  <2>3. /\ index = k => kw - S <= x /\ x <= kw + w + S
        /\ kw + S <= x /\ (x < kw + w - S \/ k = n - 1) => index = k
    <3> HIDE DEF kw, qw, nw
    <3>1. CASE q < n
      <4>1. index = q
        BY <1>4, <3>1
      <4>2. q = k => kw - S <= x /\ x <= kw + w + S
        BY <1>1, <1>6, <2>1, <2>2
      <4>3. ASSUME kw + S <= x PROVE ~ (q < k)
        BY <1>1, <1>6, <2>1, <2>2, <4>3
      <4>4. ASSUME x < kw + w - S \/ k = n - 1 PROVE ~ (k < q)
        BY <1>1, <1>3, <1>6, <2>1, <2>2, <3>1, <4>4
      <4> QED
        BY <1>3, <4>1, <4>2, <4>3, <4>4
    <3>2. CASE ~ (q < n)
      <4>1. index = n - 1 /\ nw <= qw
        BY <1>3, <1>4, <1>7, <3>2
      <4>2. nw <= x + error
        BY <1>1, <1>6, <4>1
      <4>3. k = n - 1 => kw - S <= x /\ x <= kw + w + S
        BY <1>6, <2>1, <4>2
      <4>4. ASSUME x < kw + w - S PROVE k = n - 1
        BY <1>6, <2>1, <4>2, <4>4
      <4> QED
        BY <4>1, <4>3, <4>4
    <3> QED
      BY <3>1, <3>2
  <2> QED
    BY <2>3
<1>9. index \in Int /\ index <= n - 1
  BY <1>3, <1>4
<1> QED
  BY <1>2, <1>8, <1>9

\* Dividing by a width that keeps its value as a bigint is dividing by the width.
LEMMA WholeDivision ==
    ASSUME NEW excess \in Nat, NEW a \in Nat \ {0}, NEW n \in Nat \ {0}
    PROVE  excess \div a = (excess * n) \div (a * n)
<1> DEFINE q == excess \div a
           qa == q * a
           qan == q * (a * n)
           an == a * n
<1>1. q \in Int /\ q * a <= excess /\ excess < q * a + a
  <2>1. q \in Int
    BY Division
  <2> QED
    BY <2>1, Division
<1>2. an \in Nat \ {0} /\ excess * n \in Nat
  BY SMTT(30)
<1> HIDE DEF q
<1>3. qa \in Int /\ qan = qa * n
  BY <1>1, SMTT(30)
<1>4. qa <= excess /\ excess < qa + a
  BY <1>1
<1> HIDE DEF qa
<1>5. qa * n <= excess * n
  BY <1>3, <1>4, Times
<1>6. excess * n + n <= qa * n + an
  <2>1. excess * n + n <= (qa + a) * n
    <3> DEFINE b == qa + a
    <3>1. b \in Int /\ excess < b
      BY <1>3, <1>4
    <3> HIDE DEF b
    <3>2. excess * n + n <= b * n
      BY <3>1, Times
    <3> QED
      BY <3>2 DEF b
  <2>2. (qa + a) * n = qa * n + a * n
    BY <1>3, SMTT(30)
  <2>3. qa * n \in Int
    BY <1>3, Times
  <2> QED
    BY <1>2, <2>1, <2>2, <2>3
<1>7. qan <= excess * n /\ excess * n < qan + an /\ qan \in Int
  <2> DEFINE en == excess * n
  <2>1. en \in Int /\ qan <= en /\ en + n <= qan + an /\ qan \in Int
    BY <1>2, <1>3, <1>5, <1>6, Times
  <2> HIDE DEF en, qan, an
  <2>2. en < qan + an
    BY <1>2, <2>1
  <2> QED
    BY <2>1, <2>2 DEF en
<1>8. q * an <= excess * n /\ excess * n < q * an + an
  BY <1>7
<1> HIDE DEF an
<1>9. q = (excess * n) \div an
  BY <1>1, <1>2, <1>8, Division
<1> QED
  BY <1>9 DEF q, an

\* The end of interval k, in units of 1/n, is not beyond that of the histogram.
LEMMA Ends ==
    ASSUME NEW least \in Int, NEW greatest \in Int, NEW n \in Nat \ {0},
           least < greatest, NEW k \in Int, k <= n - 1
    PROVE  LET w == greatest - least IN
           /\ k * w \in Int /\ least * n \in Int /\ greatest * n \in Int
           /\ least * n + k * w + w <= greatest * n
<1> DEFINE w == greatest - least
           kw == k * w
           nw == n * w
           ln == least * n
           gn == greatest * n
<1>1. w \in Nat \ {0}
  OBVIOUS
<1>2. kw \in Int /\ kw + w <= nw /\ nw \in Int
  <2> HIDE DEF w
  <2>1. k * w + w <= n * w /\ k * w \in Int /\ n * w \in Int
    BY <1>1, Times
  <2> QED
    BY <2>1
<1>3. ln \in Int /\ gn \in Int
  BY Times
<1>4. gn = ln + nw
  <2>1. greatest * n = least * n + n * (greatest - least)
    BY SMTT(30)
  <2> QED
    BY <2>1
<1>5. ln + kw + w <= gn
  <2> HIDE DEF kw, nw, ln, gn, w
  <2> QED
    BY <1>1, <1>2, <1>3, <1>4
<1> QED
  BY <1>2, <1>3, <1>5

\* A bound that is reported is what was computed, unless it is beyond the horizon.
LEMMA InstantIs ==
    ASSUME NEW f \in DOMAIN Definitions, Definitions[f].type = "fixedCount",
           NEW bucket, WithinHorizon(f, bucket), NEW x
    PROVE  /\ bucket.low = Instant(Definitions[f], x, bucket.unit) => bucket.low = x
           /\ bucket.high = Instant(Definitions[f], x, bucket.unit) => bucket.high = x
  BY DEF Instant, WithinHorizon

\* The bounds reported are those of the interval, but for their errors.
LEMMA BoundsAre ==
    ASSUME NEW f \in DOMAIN Definitions, Definitions[f].type = "fixedCount",
           NEW bucket, WithinHorizon(f, bucket),
           NEW start \in Int, NEW w \in Nat, NEW top \in Int, start + w <= top,
           NEW el \in -Slack .. Slack, NEW eh \in -Slack .. Slack, NEW et \in -Slack .. Slack,
           bucket.low = Instant(Definitions[f], start + el, bucket.unit),
           bucket.high = Instant(Definitions[f], CutOff(start + w + eh, top + et), bucket.unit)
    PROVE  /\ bucket.low \in Int /\ bucket.high \in Int
           /\ bucket.low - Slack <= start /\ start <= bucket.low + Slack
           /\ bucket.high - Slack <= start + w /\ start + w <= bucket.high + Slack
<1> DEFINE high == CutOff(start + w + eh, top + et)
<1>1. bucket.low = start + el
  BY InstantIs
<1>2. bucket.high = high
  BY InstantIs
<1>3. Slack \in Nat
  BY ErrorsAssumption
<1>4. high \in Int /\ high - Slack <= start + w /\ start + w <= high + Slack
  BY <1>3 DEF CutOff
<1> QED
  BY <1>1, <1>2, <1>3, <1>4

\* The index that the database computes is that of Place.
LEMMA IndexIs ==
    ASSUME NEW f \in DOMAIN Definitions, NEW w \in Nat \ {0}, NEW n \in Nat \ {0},
           NEW excess \in Nat, NEW error \in -Slack .. Slack,
           Definitions[f].property = "integer" => AsBigint(w, n) # 0
    PROVE  LET index == IndexOf(Definitions[f], excess, w, n, error) IN
           /\ Clamped(index, n) \in Int
           /\ (Definitions[f].property = "integer" => AsBigint(w, n) * n = w)
              => \E e \in -Slack .. Slack : Clamped(index, n) = Place(excess * n, w, n, e)
<1> DEFINE def == Definitions[f]
           a == AsBigint(w, n)
           x == excess * n
           index == IndexOf(def, excess, w, n, error)
<1>1. x \in Nat /\ Slack \in Nat
  BY ErrorsAssumption, SMTT(30)
<1>2. a \in Int /\ a * n <= w /\ w < a * n + n
  <2>1. a = w \div n /\ a \in Int
    BY Division DEF AsBigint
  <2> HIDE DEF a
  <2> QED
    BY <2>1, Division
<1>3. 0 <= a
  <2> HIDE DEF a
  <2>1. a < 0 => a * n + n <= 0 * n
    BY <1>2, Times
  <2>2. 0 * n = 0
    OBVIOUS
  <2> DEFINE an == a * n
  <2>3. an \in Int /\ (a < 0 => an + n <= 0) /\ w < an + n
    BY <1>2, <2>1, <2>2, Times
  <2> HIDE DEF an
  <2> QED
    BY <1>2, <2>3
<1> HIDE DEF a, x
<1>4. CASE def.property = "integer"
  <2>1. index = excess \div a /\ a \in Nat \ {0}
    BY <1>2, <1>3, <1>4 DEF IndexOf, a
  <2>2. index \in Int
    BY <2>1, Division
  <2>3. ASSUME a * n = w PROVE Clamped(index, n) = Place(x, w, n, 0)
    <3>1. excess \div a = (excess * n) \div (a * n)
      BY <2>1, WholeDivision
    <3>2. index = x \div w
      BY <2>1, <2>3, <3>1 DEF x
    <3>3. x + 0 = x
      BY <1>1
    <3> HIDE DEF index
    <3> QED
      BY <3>2, <3>3 DEF Place
  <2>4. 0 \in -Slack .. Slack
    BY <1>1
  <2> HIDE DEF index
  <2>5. Clamped(index, n) \in Int
    BY <2>2 DEF Clamped
  <2>6. a * n = w => \E e \in -Slack .. Slack : Clamped(index, n) = Place(x, w, n, e)
    BY <2>3, <2>4
  <2> QED
    BY <1>4, <2>5, <2>6 DEF index, a, x
<1>5. CASE def.property # "integer"
  <2> DEFINE y == x + error
  <2>1. index = y \div w
    BY <1>5 DEF IndexOf, x
  <2>2. y \in Int
    BY <1>1
  <2>3. Clamped(index, n) = Place(x, w, n, error)
    BY <2>1 DEF Place
  <2> HIDE DEF y, index
  <2>4. index \in Int
    BY <2>1, <2>2, Division
  <2>5. Clamped(index, n) \in Int
    BY <2>4 DEF Clamped
  <2> QED
    BY <2>3, <2>5 DEF index, x
<1> QED
  BY <1>4, <1>5

\* What a value in interval k says of its bounds, and what they say of the value.
LEMMA InBucket ==
    ASSUME NEW f \in DOMAIN Definitions, Definitions[f].type = "fixedCount",
           NEW request, request.count \in Nat \ {0},
           NEW k \in Int, k <= request.count - 1, NEW place, NEW w \in Nat,
           NEW v \in Int, NEW least \in Int, NEW bucket,
           bucket.key = k, bucket.unit = request.count, bucket.low \in Int, bucket.high \in Int,
           LET start == least * request.count + k * w IN
           /\ bucket.low - Slack <= start /\ start <= bucket.low + Slack
           /\ bucket.high - Slack <= start + w /\ start + w <= bucket.high + Slack,
           LET x == (v - least) * request.count IN
           /\ place = k => k * w - Slack <= x /\ x <= k * w + w + Slack
           /\ k * w + Slack <= x /\ (x < k * w + w - Slack \/ k = request.count - 1)
              => place = k
    PROVE  /\ Inside(v, bucket, f, request) => place = k
           /\ place = k => About(v, bucket)
<1> DEFINE n == request.count
           kw == k * w
           ln == least * n
           vn == v * n
           x == (v - least) * n
           start == ln + kw
           low == bucket.low
           high == bucket.high
<1>1. kw \in Int /\ ln \in Int /\ vn \in Int /\ Slack \in Nat /\ n \in Nat \ {0} /\ k \in Int
  BY Times, ErrorsAssumption
<1>2. x = vn - ln
  BY SMTT(30)
<1>3. /\ low - Slack <= start /\ start <= low + Slack
      /\ high - Slack <= start + w /\ start + w <= high + Slack
      /\ place = k => kw - Slack <= x /\ x <= kw + w + Slack
      /\ kw + Slack <= x /\ (x < kw + w - Slack \/ k = n - 1) => place = k
  OBVIOUS
<1>4. About(v, bucket) <=> low - 2 * Slack <= vn /\ vn <= high + 2 * Slack
  BY DEF About
<1>5. Inside(v, bucket, f, request) => /\ low + 2 * Slack <= vn
                                       /\ vn < high - 2 * Slack \/ k = n - 1
  BY DEF Inside
<1>6. low \in Int /\ high \in Int
  OBVIOUS
<1> HIDE DEF n, kw, ln, vn, x, low, high
<1>7. place = k => low - 2 * Slack <= vn /\ vn <= high + 2 * Slack
  BY <1>1, <1>2, <1>3, <1>6
<1>8. (low + 2 * Slack <= vn => kw + Slack <= x) /\ (vn < high - 2 * Slack => x < kw + w - Slack)
  BY <1>1, <1>2, <1>3, <1>6
<1> QED
  BY <1>3, <1>4, <1>5, <1>7, <1>8

\* Equal intervals from the least value to the greatest.
LEMMA FixedCountReports ==
    ASSUME snap \in Searches, NEW f \in DOMAIN Definitions, NEW request \in Requests,
           Definitions[f].type = "fixedCount",
           NEW least, NEW greatest, least # greatest,
           Values(snap, Definitions[f].property) # {},
           least = Min(Values(snap, Definitions[f].property)),
           greatest = Max(Values(snap, Definitions[f].property)),
           ~ DividesByZero(request, Definitions[f], least, greatest),
           NEW off \in Roundings(request, Definitions[f])
    PROVE  Reports(f, request, FixedCount(request, Definitions[f], least, greatest, off))
<1> DEFINE def == Definitions[f]
           n == request.count
           w == greatest - least
           V == Values(snap, def.property)
           index == [v \in V |-> Clamped(IndexOf(def, v - least, w, n, off.index[v]), n)]
           limited == Limited(request, Grouped(index, def.property, def.minOccurs))
           s == limited.buckets
           start(b) == least * n + b.key * w
           bucket(i) == [key |-> s[i].key, count |-> s[i].count, unit |-> n,
                         low |-> Instant(def, start(s[i]) + off.low[i], n),
                         high |-> Instant(def, CutOff(start(s[i]) + w + off.high[i],
                                                      greatest * n + off.top), n)]
           q == [i \in 1 .. Len(s) |-> bucket(i)]
           result == FixedCount(request, def, least, greatest, off)
<1>1. n \in Nat \ {0}
  BY DEF Requests
<1>2. /\ least \in V /\ greatest \in V /\ V \in SUBSET Int
      /\ \A v \in V : v <= greatest /\ least <= v
  BY DefinitionType, ValuesFinite, Extremes
<1>3. least \in Int /\ greatest \in Int /\ least < greatest /\ w \in Nat \ {0}
  BY <1>2
<1>4. /\ Slack \in Nat /\ off.top \in -Slack .. Slack
      /\ \A v \in V : off.index[v] \in -Slack .. Slack
      /\ \A i \in 1 .. n : off.low[i] \in -Slack .. Slack /\ off.high[i] \in -Slack .. Slack
  BY ErrorsType
<1>5. result = [limited EXCEPT !.buckets = [i \in DOMAIN s |-> bucket(i)]]
  BY DEF FixedCount, Snapshot
<1>6. DOMAIN index = V
      /\ \A v \in V : index[v] = Clamped(IndexOf(def, v - least, w, n, off.index[v]), n)
  OBVIOUS
<1>7. def.property = "integer" => AsBigint(w, n) # 0
  BY DEF DividesByZero
<1>8. KeepsWidth(f, request) => (def.property = "integer" => AsBigint(w, n) * n = w)
  BY DEF KeepsWidth
<1> HIDE DEF index, V, n, w
<1>10. \A v \in V : /\ index[v] \in Int
                    /\ KeepsWidth(f, request) =>
                           \E e \in -Slack .. Slack : index[v] = Place((v - least) * n, w, n, e)
  <2> TAKE v \in V
  <2>1. v - least \in Nat /\ off.index[v] \in -Slack .. Slack
    BY <1>2, <1>3, <1>4
  <2> DEFINE place == IndexOf(def, v - least, w, n, off.index[v])
  <2>2. /\ Clamped(place, n) \in Int
        /\ (def.property = "integer" => AsBigint(w, n) * n = w)
           => \E e \in -Slack .. Slack : Clamped(place, n) = Place((v - least) * n, w, n, e)
    BY <1>1, <1>3, <1>7, <2>1, IndexIs
  <2>3. index[v] = Clamped(place, n)
    BY <1>6
  <2> QED
    BY <1>8, <2>2, <2>3
<1>11. ListsGroups(limited, index, f, request)
  BY <1>6, <1>10, GroupsLimited DEF V
<1> HIDE DEF limited
<1>12. /\ limited = [buckets |-> s, more |-> limited.more] /\ DOMAIN s = 1 .. Len(s)
       /\ Len(s) \in Nat /\ Len(s) <= n /\ \A i \in 1 .. Len(s) : s[i].key \in Range(index)
  BY <1>11 DEF ListsGroups, n
<1> HIDE DEF result, s
<1>13. result = [buckets |-> q, more |-> limited.more]
  BY <1>5, <1>12
<1>14. DOMAIN q = 1 .. Len(s) /\ Len(q) = Len(s)
  BY <1>12
<1>15. \A i \in 1 .. Len(s) : /\ q[i] = bucket(i)
                              /\ q[i].key = s[i].key /\ q[i].count = s[i].count /\ q[i].unit = n
                              /\ q[i].low = Instant(def, start(s[i]) + off.low[i], n)
                              /\ q[i].high = Instant(def, CutOff(start(s[i]) + w + off.high[i],
                                                                greatest * n + off.top), n)
  OBVIOUS
<1> HIDE DEF q, bucket
<1>16. ASSUME KeepsWidth(f, request), NEW v \in V
       PROVE  /\ index[v] \in Int /\ index[v] <= n - 1
              /\ \A k \in Int : k <= n - 1 =>
                     LET x == (v - least) * n IN
                     /\ index[v] = k => k * w - Slack <= x /\ x <= k * w + w + Slack
                     /\ k * w + Slack <= x /\ (x < k * w + w - Slack \/ k = n - 1)
                        => index[v] = k
  <2> DEFINE excess == v - least
             x == excess * n
  <2>1. excess \in Nat /\ excess <= w /\ w \in Int
    BY <1>2, <1>3 DEF w
  <2>2. x \in Nat /\ x <= n * w
    <3> HIDE DEF excess
    <3>1. 0 * n = 0 /\ w * n = n * w
      BY <1>1, <2>1, SMTT(30)
    <3> QED
      BY <1>1, <2>1, <3>1, Times
  <2>3. PICK e \in -Slack .. Slack : index[v] = Place(x, w, n, e)
    BY <1>10, <1>16
  <2> HIDE DEF x
  <2>4. /\ Place(x, w, n, e) \in Int /\ Place(x, w, n, e) <= n - 1
        /\ \A k \in Int : k <= n - 1 =>
               /\ Place(x, w, n, e) = k => k * w - Slack <= x /\ x <= k * w + w + Slack
               /\ k * w + Slack <= x /\ (x < k * w + w - Slack \/ k = n - 1)
                  => Place(x, w, n, e) = k
    <3>1. /\ w \in Nat \ {0} /\ n \in Nat \ {0} /\ Slack \in Nat /\ e \in -Slack .. Slack
          /\ x \in Nat /\ x <= n * w
      BY <1>1, <1>3, <1>4, <2>2, <2>3
    <3> QED
      BY ONLY <3>1, Position
  <2> QED
    BY <2>3, <2>4 DEF x
<1>17. ASSUME KeepsWidth(f, request), NEW i \in 1 .. Len(s), WithinHorizon(f, q[i]), NEW v \in V
       PROVE  /\ Inside(v, q[i], f, request) => index[v] = s[i].key
              /\ index[v] = s[i].key => About(v, q[i])
  <2> DEFINE k == s[i].key
  <2>1. k \in Int /\ k <= n - 1
    BY <1>6, <1>12, <1>16, <1>17 DEF Range
  <2>2. i \in 1 .. n
    BY <1>1, <1>12
  <2> HIDE DEF k
  <2> DEFINE first == least * n + k * w
             top == greatest * n
  <2>3. first \in Int /\ top \in Int /\ first + w <= top
    <3> DEFINE kw == k * w
               ln == least * n
    <3>1. kw \in Int /\ ln \in Int /\ top \in Int /\ ln + kw + w <= top
      BY <1>1, <1>3, <2>1, Ends DEF w
    <3> HIDE DEF kw, ln, top
    <3>2. ln + kw \in Int /\ ln + kw + w <= top
      BY <3>1
    <3> QED
      BY <3>1, <3>2 DEF kw, ln
  <2>4. start(s[i]) = first
    BY DEF k
  <2>5. /\ q[i].low \in Int /\ q[i].high \in Int
        /\ q[i].low - Slack <= first /\ first <= q[i].low + Slack
        /\ q[i].high - Slack <= first + w /\ first + w <= q[i].high + Slack
    <3> DEFINE el == off.low[i]
               eh == off.high[i]
               et == off.top
               b == q[i]
    <3>1. w \in Nat /\ el \in -Slack .. Slack /\ eh \in -Slack .. Slack /\ et \in -Slack .. Slack
      BY <1>3, <1>4, <2>2
    <3> HIDE DEF first, start, top
    <3>2. /\ b.low = Instant(def, first + el, b.unit)
          /\ b.high = Instant(def, CutOff(first + w + eh, top + et), b.unit)
      BY <1>15, <1>17, <2>4 DEF top
    <3>3. Definitions[f].type = "fixedCount" /\ WithinHorizon(f, b)
      BY <1>17
    <3> HIDE DEF el, eh, et, b
    <3>4. /\ b.low \in Int /\ b.high \in Int
          /\ b.low - Slack <= first /\ first <= b.low + Slack
          /\ b.high - Slack <= first + w /\ first + w <= b.high + Slack
      BY ONLY f \in DOMAIN Definitions, <2>3, <3>1, <3>2, <3>3, BoundsAre
    <3> QED
      BY <3>4 DEF b
  <2> HIDE DEF first, start, top
  <2>6. LET x == (v - least) * n IN
        /\ index[v] = k => k * w - Slack <= x /\ x <= k * w + w + Slack
        /\ k * w + Slack <= x /\ (x < k * w + w - Slack \/ k = n - 1) => index[v] = k
    BY <1>16, <1>17, <2>1
  <2>7. v \in Int /\ q[i].key = k /\ q[i].unit = n
    BY <1>2, <1>15 DEF k
  <2>8. /\ Inside(v, q[i], f, request) => index[v] = k
        /\ index[v] = k => About(v, q[i])
    <3> DEFINE b == q[i]
               place == index[v]
    <3>1. /\ Definitions[f].type = "fixedCount" /\ request.count \in Nat \ {0}
          /\ k \in Int /\ k <= request.count - 1 /\ w \in Nat /\ v \in Int /\ least \in Int
          /\ b.key = k /\ b.unit = request.count /\ b.low \in Int /\ b.high \in Int
      BY <1>1, <1>3, <2>1, <2>5, <2>7 DEF n
    <3>2. LET origin == least * request.count + k * w IN
          /\ b.low - Slack <= origin /\ origin <= b.low + Slack
          /\ b.high - Slack <= origin + w /\ origin + w <= b.high + Slack
      BY <2>5 DEF n, first
    <3>3. LET x == (v - least) * request.count IN
          /\ place = k => k * w - Slack <= x /\ x <= k * w + w + Slack
          /\ k * w + Slack <= x /\ (x < k * w + w - Slack \/ k = request.count - 1) => place = k
      BY <2>6 DEF n
    <3> HIDE DEF b, place
    <3>4. (Inside(v, b, f, request) => place = k) /\ (place = k => About(v, b))
      BY ONLY f \in DOMAIN Definitions, <3>1, <3>2, <3>3, InBucket
    <3> QED
      BY <3>4 DEF b, place
  <2> QED
    BY <2>8 DEF k
<1>18. IsHistogram(f)
  BY DEF IsHistogram
<1>19. result.more = limited.more /\ result.buckets = q
  BY <1>13
<1>20. Reports(f, request, result)
  BY <1>11, <1>14, <1>15, <1>17, <1>18, <1>19, HistogramReports DEF s, V
<1> QED
  BY <1>20 DEF result

\* One value only.
LEMMA SingleValueReports ==
    ASSUME snap \in Searches, NEW f \in DOMAIN Definitions, NEW request \in Requests,
           Definitions[f].type = "fixedCount", NEW v,
           Values(snap, Definitions[f].property) # {},
           v = Min(Values(snap, Definitions[f].property)),
           v = Max(Values(snap, Definitions[f].property)),
           NEW error \in ErrorsOf(Definitions[f])
    PROVE  Reports(f, request, SingleValue(Definitions[f], v, error))
<1> DEFINE def == Definitions[f]
           O == Occurrences(snap, def.property)
           V == Values(snap, def.property)
           count == Cardinality(O)
           bound == Instant(def, v + error, 1)
           bucket == [key |-> 0, count |-> count, unit |-> 1, low |-> bound, high |-> bound]
           result == SingleValue(def, v, error)
           s == IF count >= def.minOccurs THEN <<bucket>> ELSE <<>>
<1>1. result = [buckets |-> s, more |-> Null]
  BY DEF SingleValue, Snapshot
<1>2. v \in V /\ V \in SUBSET Int /\ \A u \in V : u = v
  <2>1. V \in SUBSET Int /\ IsFiniteSet(V) /\ V # {} /\ v = Max(V) /\ v = Min(V)
    BY DefinitionType, ValuesFinite
  <2> HIDE DEF V
  <2>2. Max(V) \in V /\ \A u \in V : u <= Max(V)
    BY ONLY <2>1, Extremes
  <2>3. \A u \in V : Min(V) <= u
    BY ONLY <2>1, Extremes
  <2>4. v \in V /\ \A u \in V : u <= v /\ v <= u
    BY ONLY <2>1, <2>2, <2>3
  <2>5. \A u \in V : u \in Int
    BY <2>1
  <2>6. \A u \in V : u = v
    BY ONLY <2>4, <2>5
  <2> QED
    BY ONLY <2>1, <2>4, <2>6
<1>3. v \in Int /\ \A o \in O : o.value = v
  <2>1. \A o \in O : o.value \in V
    BY DEF Values
  <2> HIDE DEF V, O
  <2> QED
    BY <1>2, <2>1
<1>4. IsFiniteSet(O) /\ count \in Nat
  BY DefinitionType, OccurrencesFinite, FS_CardinalityType
<1>5. count # 0
  <2>1. O # {}
    BY <1>2 DEF Values
  <2> HIDE DEF O
  <2> QED
    BY <1>4, <2>1, FS_EmptySet
<1>6. bucket.key = 0 /\ bucket.count = count /\ bucket.unit = 1 /\ bucket.low = bound /\ bucket.high = bound
  OBVIOUS
<1>7. ASSUME WithinHorizon(f, bucket)
      PROVE  bound \in Int /\ bound - 2 * Slack <= v /\ v <= bound + 2 * Slack
  <2>1. Slack \in Nat /\ error \in -Slack .. Slack
    BY ErrorsType
  <2>2. bound = v + error
    BY <1>6, <1>7, InstantIs
  <2> HIDE DEF bound
  <2> QED
    BY <1>3, <2>1, <2>2
<1> HIDE DEF bucket, count, result
<1>8. Len(s) \in Nat /\ Len(s) <= request.count
  BY DEF Requests
<1>9. ASSUME def.minOccurs <= 1 PROVE Total(s) = count
  <2>1. def.minOccurs \in Nat
    BY DefinitionType
  <2>2. s = <<bucket>>
    BY <1>4, <1>5, <1>9, <2>1
  <2> QED
    BY <1>4, <1>6, <2>2, SmallTotals
<1>10. ASSUME NEW i \in DOMAIN s, WithinHorizon(f, s[i])
       PROVE  /\ Cardinality({o \in O : Inside(o.value, s[i], f, request)}) <= s[i].count
              /\ s[i].count <= Cardinality({o \in O : About(o.value, s[i])})
  <2> DEFINE inside == {o \in O : Inside(o.value, bucket, f, request)}
             about == {o \in O : About(o.value, bucket)}
  <2>1. s[i] = bucket
    OBVIOUS
  <2>2. \A o \in O : About(o.value, bucket)
    BY <1>3, <1>6, <1>7, <1>10, <2>1 DEF About
  <2>3. about = O /\ inside \subseteq O
    BY <2>2
  <2> HIDE DEF about, inside, O
  <2>4. Cardinality(inside) <= Cardinality(O)
    BY <1>4, <2>3, FS_Subset
  <2>5. Cardinality(inside) <= bucket.count /\ bucket.count <= Cardinality(about)
    BY <1>4, <1>6, <2>3, <2>4 DEF count
  <2> QED
    BY <2>1, <2>5 DEF about, inside
<1> HIDE DEF s
<1>11. result.buckets = s /\ result.more = Null
  BY <1>1
<1>12. Reports(f, request, result)
  BY <1>8, <1>9, <1>10, <1>11 DEF Reports, count
<1> QED
  BY <1>12 DEF result

\* No value at all.
LEMMA NoValueReports ==
    ASSUME snap \in Searches, NEW f \in DOMAIN Definitions, NEW request \in Requests,
           IsHistogram(f), Values(snap, Definitions[f].property) = {}
    PROVE  Reports(f, request, [buckets |-> <<>>, more |-> Null])
<1>1. Occurrences(snap, Definitions[f].property) = {}
  BY DefinitionType, ValuesFinite
<1>2. Total(<<>>) = Cardinality({})
  BY SmallTotals, FS_EmptySet
<1>3. Len(<<>>) = 0 /\ DOMAIN <<>> = {}
  OBVIOUS
<1> DEFINE result == [buckets |-> <<>>, more |-> Null]
<1>4. result.buckets = <<>> /\ result.more = Null
  OBVIOUS
<1> HIDE DEF result
<1>5. Definitions[f].type # "filter"
  BY DEF IsHistogram
<1>6. request.count \in Nat
  BY DEF Requests
<1>7. Total(result.buckets) = Cardinality(Occurrences(snap, Definitions[f].property))
  BY <1>1, <1>2, <1>4
<1>8. /\ Len(result.buckets) \in Nat /\ Len(result.buckets) <= request.count
      /\ DOMAIN result.buckets = {}
  BY <1>3, <1>4, <1>6
<1>9. Reports(f, request, result)
  BY <1>4, <1>5, <1>7, <1>8 DEF Reports
<1> QED
  BY <1>9 DEF result

\* How many records a filter selects.
Matches(f, i) == Cardinality({r \in Records : snap[r] \in Definitions[f].filters[i]})

\* filterFacet: one bucket for each filter.
LEMMA FilterReports ==
    ASSUME snap \in Searches, NEW f \in DOMAIN Definitions, NEW request \in Requests,
           Definitions[f].type = "filter",
           NEW counts, DOMAIN counts = DOMAIN Definitions[f].filters,
           \A i \in DOMAIN counts : counts[i] = Matches(f, i)
    PROVE  Reports(f, request, Limited(request,
               {b \in {[key |-> i, count |-> counts[i]] : i \in DOMAIN counts} :
                   b.count >= Definitions[f].minOccurs}))
<1> DEFINE def == Definitions[f]
           I == DOMAIN def.filters
           O == {x \in Records \X I : snap[x[1]] \in def.filters[x[2]]}
           k == [x \in O |-> x[2]]
           at(i) == {x \in O : k[x] = i}
           of(i) == {r \in Records : snap[r] \in def.filters[i]}
           g == [i \in I |-> [key |-> i, count |-> counts[i]]]
           all == {g[i] : i \in I}
           B == {b \in all : b.count >= def.minOccurs}
           limited == Limited(request, B)
           s == limited.buckets
<1>1. def.filters \in Seq(SUBSET Rows) /\ def.minOccurs \in Nat
  BY DefinitionType
<1>2. I = 1 .. Len(def.filters) /\ Len(def.filters) \in Nat
  BY <1>1, LenProperties
<1>3. IsFiniteSet(I) /\ I \subseteq Int
  <2> HIDE DEF I
  <2> QED
    BY <1>2, FS_Interval
<1>4. IsFiniteSet(O)
  <2>1. IsFiniteSet(Records \X I)
    <3> HIDE DEF I
    <3> QED
      BY <1>3, FiniteAssumption, FS_Product
  <2>2. O \in SUBSET (Records \X I)
    OBVIOUS
  <2> HIDE DEF O
  <2> QED
    BY <2>1, <2>2, FS_Subset
<1>5. \A i \in I : IsFiniteSet(of(i)) /\ Cardinality(of(i)) \in Nat /\ Cardinality(at(i)) = Cardinality(of(i))
  <2> TAKE i \in I
  <2>1. of(i) \in SUBSET Records
    OBVIOUS
  <2>2. IsFiniteSet(of(i)) /\ Cardinality(of(i)) \in Nat
    <3> HIDE DEF of
    <3> QED
      BY <2>1, FiniteAssumption, FS_Subset, FS_CardinalityType
  <2> DEFINE h == [r \in of(i) |-> <<r, i>>]
  <2>3. h \in [of(i) -> at(i)]
    <3>1. \A r \in of(i) : <<r, i>> \in O /\ k[<<r, i>>] = i
      OBVIOUS
    <3> HIDE DEF O, k, of
    <3> QED
      BY <3>1
  <2>4. \A q, r \in of(i) : h[q] = h[r] => q = r
    OBVIOUS
  <2>5. \A x \in at(i) : \E r \in of(i) : h[r] = x
    <3> SUFFICES ASSUME NEW x \in at(i) PROVE \E r \in of(i) : h[r] = x
      OBVIOUS
    <3>1. x \in Records \X I /\ x[2] = i /\ snap[x[1]] \in def.filters[i]
      OBVIOUS
    <3>2. x = <<x[1], i>> /\ x[1] \in of(i)
      BY <3>1
    <3>3. h[x[1]] = <<x[1], i>>
      BY <3>2
    <3> HIDE DEF h, of
    <3> QED
      BY <3>2, <3>3
  <2> HIDE DEF h, of, at
  <2>6. h \in Bijection(of(i), at(i))
    BY <2>3, <2>4, <2>5 DEF Bijection, Injection, Surjection, IsInjective
  <2>7. ExistsBijection(of(i), at(i))
    BY <2>6 DEF ExistsBijection
  <2> QED
    BY <2>2, <2>7, FS_Bijection
<1>6. \A i \in I : g[i].key = i /\ g[i].count = Cardinality(at(i)) /\ g[i].count \in Nat
  <2>1. \A i \in I : counts[i] = Cardinality(of(i))
    BY DEF Matches
  <2>2. \A i \in I : g[i].key = i /\ g[i].count = counts[i]
    OBVIOUS
  <2> HIDE DEF g, of, at, I
  <2> QED
    BY <1>5, <2>1, <2>2
<1>7. \A b \in all : b.key \in I /\ b = g[b.key]
  OBVIOUS
<1>8. IsFiniteSet(all)
  <2>1. I \subseteq DOMAIN g
    OBVIOUS
  <2> HIDE DEF g, I
  <2> QED
    BY <1>3, <2>1, FiniteImage
<1>9. B \in SUBSET all
  OBVIOUS
<1>10. AreBuckets(B)
  <2>1. IsFiniteSet(B)
    <3> HIDE DEF B, all
    <3> QED
      BY <1>8, <1>9, FS_Subset
  <2>2. \A b \in B : b.key \in Int /\ b.count \in Int
    <3> TAKE b \in B
    <3>1. b.key \in I /\ b = g[b.key]
      BY <1>7, <1>9
    <3>2. g[b.key].count \in Nat
      <4> HIDE DEF B, all, g, at, I
      <4> QED
        BY <1>6, <3>1
    <3>3. b.key \in Int
      <4> HIDE DEF I
      <4> QED
        BY <1>3, <3>1
    <3>4. b.count = g[b.key].count
      <4> HIDE DEF g
      <4> QED
        BY <3>1
    <3> QED
      BY ONLY <3>2, <3>3, <3>4
  <2>3. \A b, c \in B : b.key = c.key => b = c
    <3> HIDE DEF B, all, g
    <3> QED
      BY <1>7, <1>9
  <2> HIDE DEF B
  <2> QED
    BY <2>1, <2>2, <2>3 DEF AreBuckets
<1>11. \A b \in B : b.count = Cardinality(at(b.key))
  <2> HIDE DEF B, all, g, at, I
  <2> QED
    BY <1>6, <1>7, <1>9
<1>12. ASSUME def.minOccurs <= 1, NEW o \in O PROVE \E b \in B : b.key = k[o]
  <2> DEFINE i == o[2]
  <2>1. i \in I /\ k[o] = i /\ o \in at(i)
    OBVIOUS
  <2>2. at(i) \in SUBSET O /\ at(i) # {}
    BY <2>1
  <2>3. Cardinality(at(i)) # 0
    <3> HIDE DEF at, O, i
    <3> QED
      BY <1>4, <2>2, FS_Subset, FS_EmptySet
  <2>4. g[i].key = i /\ g[i].count >= def.minOccurs
    <3> HIDE DEF at, g, i, I
    <3> QED
      BY <1>1, <1>6, <1>12, <2>1, <2>3
  <2>5. g[i] \in all
    BY <2>1
  <2>6. g[i] \in B
    <3> HIDE DEF all, g, i
    <3> QED
      BY <2>4, <2>5
  <2> HIDE DEF g, B, i, k
  <2> QED
    BY <2>1, <2>4, <2>6
<1> HIDE DEF B
<1>13. Lists(limited, B, request.count)
  BY <1>10, LimitedIs
<1>14. /\ limited.more \in BOOLEAN /\ s \in Seq(B) /\ Len(s) <= request.count
       /\ \A i, j \in 1 .. Len(s) : s[i].key = s[j].key => i = j
       /\ ~ limited.more => \A b \in B : \E i \in 1 .. Len(s) : s[i] = b
  BY <1>13 DEF Lists
<1> HIDE DEF limited
<1>15. Len(s) \in Nat /\ \A i \in 1 .. Len(s) : s[i] \in B
  <2> HIDE DEF s
  <2> QED
    BY <1>14, LenProperties, ElementOfSeq
<1>16. Counts(s, O, k)
  <2>1. \A i \in 1 .. Len(s) : s[i].count = Cardinality(at(s[i].key))
    <3> HIDE DEF at, s
    <3> QED
      BY <1>11, <1>15
  <2> HIDE DEF O, k, s
  <2> QED
    BY <1>14, <1>15, <2>1 DEF Counts
<1>17. ASSUME limited.more # TRUE, def.minOccurs <= 1 PROVE Total(s) = Cardinality(O)
  <2>1. \A o \in O : \E i \in 1 .. Len(s) : s[i].key = k[o]
    <3> SUFFICES ASSUME NEW o \in O PROVE \E i \in 1 .. Len(s) : s[i].key = k[o]
      OBVIOUS
    <3>1. PICK b \in B : b.key = k[o]
      BY <1>12, <1>17
    <3>2. PICK i \in 1 .. Len(s) : s[i] = b
      BY <1>14, <1>17
    <3> HIDE DEF k, O, s
    <3> QED
      BY <3>1, <3>2
  <2> HIDE DEF O, k, s
  <2> QED
    BY <1>4, <1>16, <2>1, CountsTotal
<1>18. ~ IsHistogram(f)
  BY DEF IsHistogram
<1>19. Reports(f, request, limited)
  <2>1. limited.more \in BOOLEAN /\ Len(s) \in Nat /\ Len(s) <= request.count
    BY <1>14, <1>15
  <2> QED
    BY <1>17, <1>18, <2>1 DEF Reports
<1>20. B = {b \in {[key |-> i, count |-> counts[i]] : i \in DOMAIN counts} : b.count >= def.minOccurs}
  <2>1. all = {[key |-> i, count |-> counts[i]] : i \in DOMAIN counts}
    OBVIOUS
  <2> HIDE DEF all
  <2> QED
    BY <2>1 DEF B
<1> QED
  BY <1>19, <1>20 DEF limited

-----------------------------------------------------------------------------
(* The invariant.                                                          *)

\* The transaction has its snapshot before anything is computed.
SnapshotOK ==
    /\ phase \in {"open", "answered"} => snap \in Searches
    /\ phase \in {"idle", "refused", "failed"} => DOMAIN facets = {}

\* What the facet in progress has read is so in the snapshot.
WorkOK ==
    work # Null =>
        LET f   == Head(todo).name
            def == Definitions[f]
            V   == Values(snap, def.property)
        IN
        /\ IsHistogram(f) => V # {} /\ work.least = Min(V) /\ work.greatest = Max(V)
        /\ def.type = "filter" =>
               /\ DOMAIN work \subseteq DOMAIN def.filters
               /\ \A i \in DOMAIN work : work[i] = Matches(f, i)

\* Every facet computed owes the snapshot what the lemmas above say.
FacetsOK == \A f \in DOMAIN facets : Reports(f, facets[f].request, facets[f])

FInv == TypeOK /\ SnapshotOK /\ WorkOK /\ FacetsOK

\* The requests that a search selects.
LEMMA RequestType ==
    ASSUME NEW token, token.name \in DOMAIN Definitions,
           token.count \in {Null} \cup 1 .. MaxCount, token.sort \in Orders \cup {Null}
    PROVE  RequestOf(token) \in Requests
<1>1. Definitions[token.name].bucketCount \in Nat \ {0}
  BY DefinitionType
<1>2. DefaultSort(Definitions[token.name]) \in Orders
  BY DEF DefaultSort, Orders
<1>3. token.count # Null => token.count \in Nat \ {0}
  BY DEF MaxCount
<1> QED
  BY <1>1, <1>2, <1>3 DEF RequestOf, Requests

LEMMA SelectedType ==
    ASSUME NEW raw \in Parameters, ~ (raw # Null /\ ~ Acceptable(raw))
    PROVE  Selected(raw) \in Seq(Requests)
<1>1. CASE raw = Null
  <2> DEFINE S == {f \in DOMAIN Definitions : Definitions[f].default}
             n == Cardinality(S)
             defaults == SetToSeq(S)
             token(i) == [name |-> defaults[i], count |-> Null, sort |-> Null]
  <2>1. S \in SUBSET DOMAIN Definitions
    OBVIOUS
  <2> HIDE DEF S
  <2>2. IsFiniteSet(S) /\ n \in Nat /\ ExistsBijection(1 .. n, S)
    BY <2>1, FiniteAssumption, FS_Subset, FS_CardinalityType
  <2>3. \E f \in [1 .. n -> S] : IsInjective(f)
    BY <2>2 DEF ExistsBijection, Bijection, Injection
  <2>4. defaults \in [1 .. n -> S]
    BY <2>3 DEF SetToSeq
  <2> HIDE DEF defaults
  <2>5. \A i \in 1 .. n : RequestOf(token(i)) \in Requests
    <3> TAKE i \in 1 .. n
    <3>1. token(i).name \in DOMAIN Definitions /\ token(i).count = Null /\ token(i).sort = Null
      BY <2>1, <2>4
    <3> HIDE DEF token
    <3> QED
      BY <3>1, RequestType
  <2>6. Selected(raw) = [i \in 1 .. n |-> RequestOf(token(i))]
    <3>1. Selected(raw) = [i \in DOMAIN defaults |-> RequestOf(token(i))]
      BY <1>1 DEF Selected, S, defaults
    <3> QED
      BY <2>4, <3>1
  <2> HIDE DEF token, n
  <2>7. [i \in 1 .. n |-> RequestOf(token(i))] \in [1 .. n -> Requests]
    BY <2>5
  <2> QED
    BY <2>2, <2>6, <2>7, SeqDef
<1>2. CASE raw # Null
  <2>1. Acceptable(raw) /\ raw \in Seq(Range(raw))
    BY <1>2, ParametersAssumption
  <2>2. DOMAIN raw = 1 .. Len(raw) /\ Len(raw) \in Nat
    BY <2>1, LenProperties
  <2>3. \A i \in 1 .. Len(raw) : RequestOf(raw[i]) \in Requests
    BY <2>1, <2>2, RequestType DEF Acceptable
  <2>4. Selected(raw) = [i \in 1 .. Len(raw) |-> RequestOf(raw[i])]
    BY <1>2, <2>2 DEF Selected
  <2>5. [i \in 1 .. Len(raw) |-> RequestOf(raw[i])] \in [1 .. Len(raw) -> Requests]
    BY <2>3
  <2> QED
    BY <2>2, <2>4, <2>5, SeqDef
<1> QED
  BY <1>1, <1>2

\* A facet computed right keeps the invariant.
LEMMA FinishKeeps ==
    ASSUME FInv, phase = "open", todo # <<>>, NEW result, Finish(result),
           Reports(Head(todo).name, Head(todo), result)
    PROVE  FInv'
<1> DEFINE g == Head(todo).name
           facet == [request |-> Head(todo), buckets |-> result.buckets, more |-> result.more]
<1>1. /\ facets' = [f \in DOMAIN facets \cup {g} |-> IF f = g THEN facet ELSE facets[f]]
      /\ todo' = Tail(todo) /\ work' = Null /\ UNCHANGED <<table, writes, phase, snap>>
  BY DEF Finish
<1>2. Head(todo) \in Requests /\ g \in DOMAIN Definitions /\ todo' \in Seq(Requests)
  <2>1. todo \in Seq(Requests)
    BY DEF FInv, TypeOK
  <2>2. Head(todo) \in Requests /\ Tail(todo) \in Seq(Requests)
    BY <2>1, HeadTailProperties
  <2> QED
    BY <1>1, <2>2 DEF Requests
<1>3. facet.request = Head(todo) /\ facet.buckets = result.buckets /\ facet.more = result.more
  OBVIOUS
<1>4. Reports(g, facet.request, facet)
  <2> HIDE DEF facet
  <2> QED
    BY <1>3 DEF Reports
<1> HIDE DEF facet, g
<1>5. DOMAIN facets' = DOMAIN facets \cup {g} /\ facets'[g] = facet
      /\ \A f \in DOMAIN facets' : f # g => f \in DOMAIN facets /\ facets'[f] = facets[f]
  BY <1>1
<1>6. FacetsOK'
  <2> SUFFICES ASSUME NEW f \in DOMAIN facets'
               PROVE  Reports(f, facets[f].request, facets[f])'
    BY DEF FacetsOK
  <2>1. Reports(f, facets'[f].request, facets'[f])
    <3>1. CASE f = g
      BY <1>4, <1>5, <3>1
    <3>2. CASE f # g
      BY <1>5, <3>2 DEF FInv, FacetsOK
    <3> QED
      BY <3>1, <3>2
  <2> QED
    BY <1>1, <2>1 DEF Reports, KeepsWidth, WithinHorizon, Inside, About
<1>7. TypeOK'
  <2>1. \A f \in DOMAIN facets' :
            /\ facets'[f].request \in Requests
            /\ facets'[f].more \in BOOLEAN \cup {Null}
            /\ Len(facets'[f].buckets) <= facets'[f].request.count
    <3> TAKE f \in DOMAIN facets'
    <3>1. CASE f = g
      BY <1>2, <1>3, <1>4, <1>5, <3>1 DEF Reports
    <3>2. CASE f # g
      BY <1>5, <3>2 DEF FInv, TypeOK
    <3> QED
      BY <3>1, <3>2
  <2>2. DOMAIN facets' \subseteq DOMAIN Definitions
    BY <1>2, <1>5 DEF FInv, TypeOK
  <2> QED
    BY <1>1, <1>2, <2>1, <2>2 DEF FInv, TypeOK
<1>8. SnapshotOK'
  BY <1>1 DEF FInv, SnapshotOK
<1>9. WorkOK'
  BY <1>1 DEF WorkOK
<1> QED
  BY <1>6, <1>7, <1>8, <1>9 DEF FInv

\* Steps that compute nothing.
LEMMA OthersKeep ==
    ASSUME FInv, UNCHANGED <<snap, facets>>, TypeOK', SnapshotOK', WorkOK'
    PROVE  FInv'
<1>1. FacetsOK'
  <2> SUFFICES ASSUME NEW f \in DOMAIN facets'
               PROVE  Reports(f, facets[f].request, facets[f])'
    BY DEF FacetsOK
  <2>1. Reports(f, facets'[f].request, facets'[f])
    BY DEF FInv, FacetsOK
  <2> QED
    BY <2>1 DEF Reports, KeepsWidth, WithinHorizon, Inside, About
<1> QED
  BY <1>1 DEF FInv

LEMMA InitInv == Init => FInv
<1> SUFFICES ASSUME Init PROVE FInv
  OBVIOUS
<1>1. DOMAIN facets = {} /\ todo \in Seq(Requests)
  BY DEF Init
<1> QED
  BY <1>1, WritesAssumption DEF Init, FInv, TypeOK, SnapshotOK, WorkOK, FacetsOK, Searches

\* Every step keeps the invariant.
LEMMA Inductive == FInv /\ [Next]_vars => FInv'
<1> SUFFICES ASSUME FInv, [Next]_vars PROVE FInv'
  OBVIOUS
<1>0. TypeOK /\ SnapshotOK /\ WorkOK
  BY DEF FInv
<1>1. ASSUME NEW r \in Records, Write(r) PROVE FInv'
  <2>1. TypeOK'
    BY <1>0, <1>1, WritesAssumption DEF TypeOK, Write, Searches
  <2>2. SnapshotOK' /\ WorkOK'
    BY <1>0, <1>1 DEF SnapshotOK, WorkOK, Write, Matches
  <2> QED
    BY <1>1, <2>1, <2>2, OthersKeep DEF Write
<1>2. CASE Open
  <2>1. PICK raw \in Parameters :
            IF raw # Null /\ ~ Acceptable(raw)
            THEN phase' = "refused" /\ UNCHANGED <<snap, todo>>
            ELSE phase' = "open" /\ snap' = table /\ todo' = Selected(raw)
    BY <1>2 DEF Open
  <2>2. phase = "idle" /\ DOMAIN facets = {} /\ UNCHANGED <<table, writes, work, facets>>
    BY <1>0, <1>2 DEF Open, SnapshotOK
  <2>3. work = Null
    BY <1>0, <2>2 DEF TypeOK
  <2>4. todo' \in Seq(Requests)
    BY <1>0, <2>1, SelectedType DEF TypeOK
  <2>5. TypeOK'
    BY <1>0, <2>1, <2>2, <2>3, <2>4 DEF TypeOK
  <2>6. SnapshotOK'
    BY <1>0, <2>1, <2>2 DEF SnapshotOK, TypeOK
  <2>7. WorkOK' /\ FacetsOK'
    BY <2>2, <2>3 DEF WorkOK, FacetsOK
  <2> QED
    BY <2>5, <2>6, <2>7 DEF FInv
<1> DEFINE request == Head(todo)
           f == request.name
           def == Definitions[f]
<1>3. ASSUME todo # <<>> PROVE request \in Requests /\ f \in DOMAIN Definitions
  <2>1. todo \in Seq(Requests)
    BY <1>0 DEF TypeOK
  <2>2. request \in Requests
    BY <1>3, <2>1, HeadTailProperties
  <2> QED
    BY <2>2 DEF Requests
<1>4. phase = "open" => snap \in Searches
  BY <1>0 DEF SnapshotOK
<1>5. CASE ComputeAtOnce
  <2>1. phase = "open" /\ todo # <<>>
    BY <1>5 DEF ComputeAtOnce, Begin
  <2>2. request \in Requests /\ f \in DOMAIN Definitions /\ snap \in Searches
    BY <1>3, <1>4, <2>1
  <2> DEFINE value == [v \in Values(Snapshot, def.property) |-> v]
             terms == Limited(request, Grouped(value, def.property, def.minOccurs))
  <2>3. CASE def.type = "term" /\ Finish(terms)
    <3>1. Reports(f, request, terms)
      BY <2>2, <2>3, TermReports
    <3> HIDE DEF terms
    <3> QED
      BY <2>1, <2>3, <3>1, FinishKeeps
  <2>4. ASSUME def.type = "fixedInterval", NEW off \in Roundings(request, def),
               Finish(FixedInterval(request, def, 0, off))
        PROVE  FInv'
    <3>1. Reports(f, request, FixedInterval(request, def, 0, off))
      BY <2>2, <2>4, FixedIntervalReports
    <3> QED
      BY <2>1, <2>4, <3>1, FinishKeeps
  <2> QED
    BY <1>5, <2>3, <2>4 DEF ComputeAtOnce
<1>6. CASE ReadSpan
  <2> DEFINE V == Values(snap, def.property)
             span == [least |-> Min(V), greatest |-> Max(V)]
             nothing == [buckets |-> <<>>, more |-> Null]
  <2>1. /\ phase = "open" /\ todo # <<>> /\ IsHistogram(f)
        /\ IF V = {} THEN Finish(nothing) ELSE Continue(span)
    BY <1>6 DEF ReadSpan, Begin, IsHistogram, Snapshot
  <2>2. request \in Requests /\ f \in DOMAIN Definitions /\ snap \in Searches
    BY <1>3, <1>4, <2>1
  <2>3. CASE V = {}
    <3>1. Reports(f, request, nothing)
      BY <2>1, <2>2, <2>3, NoValueReports
    <3> HIDE DEF nothing
    <3> QED
      BY <2>1, <2>3, <3>1, FinishKeeps
  <2>4. CASE V # {}
    <3>1. work' = span /\ UNCHANGED <<table, writes, phase, snap, todo, facets>>
      BY <2>1, <2>4 DEF Continue
    <3>2. span.least = Min(V) /\ span.greatest = Max(V)
      OBVIOUS
    <3>3. WorkOK'
      <4> HIDE DEF span
      <4> QED
        BY <2>1, <2>4, <3>1, <3>2 DEF WorkOK, IsHistogram
    <3>4. TypeOK' /\ SnapshotOK'
      BY <1>0, <2>1, <3>1 DEF TypeOK, SnapshotOK
    <3> QED
      BY <3>1, <3>3, <3>4, OthersKeep
  <2> QED
    BY <2>3, <2>4
<1>7. CASE ComputeHistogram
  <2>1. work # Null /\ phase = "open" /\ todo # <<>>
    BY <1>0, <1>7 DEF ComputeHistogram, TypeOK
  <2>2. request \in Requests /\ f \in DOMAIN Definitions /\ snap \in Searches
    BY <1>3, <1>4, <2>1
  <2> DEFINE V == Values(snap, def.property)
  <2>3. IsHistogram(f) => V # {} /\ work.least = Min(V) /\ work.greatest = Max(V)
    BY <1>0, <2>1 DEF WorkOK
  <2>4. V # {} => Min(V) \in Int
    <3>1. V \in SUBSET Int /\ IsFiniteSet(V)
      BY <2>2, DefinitionType, ValuesFinite
    <3> HIDE DEF V
    <3> QED
      BY <3>1, Extremes
  <2>5. ASSUME def.type = "fixedInterval", NEW error \in ErrorsOf(def),
               NEW off \in Roundings(request, def),
               Finish(FixedInterval(request, def,
                          ((work.least + error) \div def.interval) * def.interval, off))
        PROVE  FInv'
    <3> DEFINE near == work.least + error
               anchor == (near \div def.interval) * def.interval
    <3>1. near \in Int /\ def.interval \in Nat \ {0}
      <4>1. work.least \in Int /\ def.interval \in Nat \ {0}
        BY <2>2, <2>3, <2>4, <2>5, DefinitionType DEF IsHistogram
      <4>2. error \in Int
        BY <2>2, <2>5, ErrorsType
      <4> QED
        BY <4>1, <4>2
    <3> HIDE DEF near
    <3>2. anchor \in Int
      BY <3>1, Division, Times
    <3> HIDE DEF anchor
    <3>3. Reports(f, request, FixedInterval(request, def, anchor, off))
      BY <2>2, <2>5, <3>2, FixedIntervalReports
    <3> QED
      BY <2>1, <2>5, <3>3, FinishKeeps DEF anchor, near
  <2>6. ASSUME def.type = "fixedCount", work.least = work.greatest, NEW error \in ErrorsOf(def),
               Finish(SingleValue(def, work.least, error))
        PROVE  FInv'
    <3>1. Reports(f, request, SingleValue(def, work.least, error))
      BY <2>2, <2>3, <2>6, SingleValueReports DEF IsHistogram
    <3> QED
      BY <2>1, <2>6, <3>1, FinishKeeps
  <2>7. ASSUME def.type = "fixedCount", work.least # work.greatest,
               ~ DividesByZero(request, def, work.least, work.greatest),
               NEW off \in Roundings(request, def),
               Finish(FixedCount(request, def, work.least, work.greatest, off))
        PROVE  FInv'
    <3>1. Reports(f, request, FixedCount(request, def, work.least, work.greatest, off))
      BY <2>2, <2>3, <2>7, FixedCountReports DEF IsHistogram
    <3> QED
      BY <2>1, <2>7, <3>1, FinishKeeps
  <2>8. CASE Fail
    <3>1. TypeOK' /\ SnapshotOK' /\ WorkOK'
      BY <1>0, <2>8 DEF Fail, TypeOK, SnapshotOK, WorkOK
    <3>2. FacetsOK'
      BY <2>8 DEF Fail, FacetsOK
    <3> QED
      BY <3>1, <3>2 DEF FInv
  <2> QED
    BY <1>7, <2>5, <2>6, <2>7, <2>8 DEF ComputeHistogram
<1>8. ASSUME phase = "open", todo # <<>>, NEW i \in DOMAIN def.filters, CountFilter(i)
      PROVE  FInv'
  <2> DEFINE counts == IF work = Null THEN <<>> ELSE work
             progress == [j \in DOMAIN counts \cup {i} |-> IF j = i THEN Matches(f, i) ELSE counts[j]]
  <2>1. /\ def.type = "filter" /\ work' = progress
        /\ UNCHANGED <<table, writes, phase, snap, todo, facets>>
    BY <1>8 DEF CountFilter, Continue, Snapshot, Matches
  <2>2. DOMAIN counts \subseteq DOMAIN def.filters /\ \A j \in DOMAIN counts : counts[j] = Matches(f, j)
    BY <1>0, <2>1 DEF WorkOK
  <2>3. DOMAIN progress \subseteq DOMAIN def.filters /\ \A j \in DOMAIN progress : progress[j] = Matches(f, j)
    <3> HIDE DEF counts
    <3> QED
      BY <1>8, <2>2
  <2>4. WorkOK'
    <3> HIDE DEF progress
    <3> QED
      BY <2>1, <2>3 DEF WorkOK, Matches, IsHistogram
  <2>5. TypeOK' /\ SnapshotOK'
    BY <1>0, <1>8, <2>1 DEF TypeOK, SnapshotOK
  <2> QED
    BY <2>1, <2>4, <2>5, OthersKeep
<1>9. CASE ComputeFilters
  <2> DEFINE B == {b \in {[key |-> i, count |-> work[i]] : i \in DOMAIN work} :
                      b.count >= def.minOccurs}
  <2>1. /\ work # Null /\ def.type = "filter" /\ DOMAIN work = DOMAIN def.filters
        /\ Finish(Limited(request, B))
    BY <1>9 DEF ComputeFilters
  <2>2. phase = "open" /\ todo # <<>>
    BY <1>0, <2>1 DEF TypeOK
  <2>3. request \in Requests /\ f \in DOMAIN Definitions /\ snap \in Searches
    BY <1>3, <1>4, <2>2
  <2>4. \A i \in DOMAIN work : work[i] = Matches(f, i)
    BY <1>0, <2>1 DEF WorkOK
  <2>5. Reports(f, request, Limited(request, B))
    BY <2>1, <2>3, <2>4, FilterReports
  <2> HIDE DEF B
  <2> QED
    BY <2>1, <2>2, <2>5, FinishKeeps
<1>10. CASE Answer
  <2>1. work = Null
    BY <1>0, <1>10 DEF Answer, TypeOK
  <2>2. TypeOK' /\ SnapshotOK' /\ WorkOK'
    BY <1>0, <1>10, <2>1 DEF Answer, TypeOK, SnapshotOK, WorkOK
  <2> QED
    BY <1>10, <2>2, OthersKeep DEF Answer
<1>11. CASE UNCHANGED vars
  <2>1. TypeOK' /\ SnapshotOK' /\ WorkOK'
    BY <1>0, <1>11 DEF vars, TypeOK, SnapshotOK, WorkOK, Matches, IsHistogram
  <2> QED
    BY <1>11, <2>1, OthersKeep DEF vars
<1> QED
  BY <1>1, <1>2, <1>5, <1>6, <1>7, <1>8, <1>9, <1>10, <1>11 DEF Next, Done

-----------------------------------------------------------------------------
(* The theorems.                                                           *)

\* Facets keep to their snapshot, whatever is written while they are computed.
THEOREM FacetsInvariant == Spec => []FInv
<1>1. Init => FInv
  BY InitInv
<1>2. FInv /\ [Next]_vars => FInv'
  BY Inductive
<1> QED
  BY <1>1, <1>2, PTL DEF Spec

\* The type invariant: above all, no facet of a search (selectFacets and LIMIT,
\* postgres/search.go) has more buckets than were asked for.
THEOREM TypeCorrect == Spec => []TypeOK
<1>1. FInv => TypeOK
  BY DEF FInv
<1> QED
  BY <1>1, FacetsInvariant, PTL

LEMMA BucketsFollow == ASSUME FInv PROVE BucketsHoldTheirValues
<1> SUFFICES ASSUME NEW f \in DOMAIN facets, IsHistogram(f),
                    KeepsWidth(f, facets[f].request),
                    NEW i \in DOMAIN facets[f].buckets, WithinHorizon(f, facets[f].buckets[i])
             PROVE  LET bucket == facets[f].buckets[i]
                        O == Occurrences(snap, Definitions[f].property)
                    IN
                    /\ Cardinality({o \in O : Inside(o.value, bucket, f, facets[f].request)})
                           <= bucket.count
                    /\ bucket.count <= Cardinality({o \in O : About(o.value, bucket)})
  BY DEF BucketsHoldTheirValues
<1>1. Reports(f, facets[f].request, facets[f])
  BY DEF FInv, FacetsOK
<1> QED
  BY <1>1 DEF Reports

\* Every bucket of a histogram (numericHistogram and temporalHistogram) counts the
\* values between its bounds, to within the errors of the index that SQL computes
\* and of the bounds that Go computes, whatever these are, for any rows, facets and
\* requests and any writes meanwhile; but for integers whose interval is a fraction
\* (KeepsWidth) and bounds beyond what an int64 holds (WithinHorizon).
THEOREM BucketsCorrect == Spec => []BucketsHoldTheirValues
<1>1. FInv => BucketsHoldTheirValues
  BY BucketsFollow
<1> QED
  BY <1>1, FacetsInvariant, PTL

LEMMA CountsFollow == ASSUME FInv PROVE CountsAddUp
<1> SUFFICES ASSUME NEW f \in DOMAIN facets,
                    facets[f].more # TRUE, Definitions[f].minOccurs <= 1
             PROVE  Total(facets[f].buckets) =
                        IF Definitions[f].type = "filter"
                        THEN Cardinality({x \in Records \X DOMAIN Definitions[f].filters :
                                             snap[x[1]] \in Definitions[f].filters[x[2]]})
                        ELSE Cardinality(Occurrences(snap, Definitions[f].property))
  BY DEF CountsAddUp
<1>1. Reports(f, facets[f].request, facets[f])
  BY DEF FInv, FacetsOK
<1> QED
  BY <1>1 DEF Reports

\* A facet that does not say there are more buckets accounts for every value of
\* every matching record, and a filter facet (filterFacet) for every match, for
\* any rows, facets and requests and any writes meanwhile.
THEOREM CountsCorrect == Spec => []CountsAddUp
<1>1. FInv => CountsAddUp
  BY CountsFollow
<1> QED
  BY <1>1, FacetsInvariant, PTL

=============================================================================
