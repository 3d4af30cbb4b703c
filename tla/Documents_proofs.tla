-------------------------- MODULE Documents_proofs --------------------------
(***************************************************************************)
(* Searches by time, and GET followed by PUT, for any documents, patches   *)
(* and queries.                                                            *)
(***************************************************************************)
EXTENDS Documents, NaturalsInduction, WellFoundedInduction, SequenceTheorems,
        FiniteSetTheorems, TLAPS

(* Filtering a sequence.                                                   *)

\* In place of an induction: if there is a counterexample, there is a least one.
LEMMA LeastNat ==
    ASSUME NEW T \in SUBSET Nat, T # {}
    PROVE  \E n \in T : \A m \in T : n <= m
<1> DEFINE R == {ss \in Nat \X Nat : ss[1] < ss[2]}
<1>1. IsWellFoundedOn(R, Nat)
  BY NatLessThanWellFounded, Zenon DEF OpToRel
<1>2. PICK n \in T : \A m \in T : ~ (<<m, n>> \in R)
  <2> HIDE DEF R
  <2> QED
    BY <1>1, WFMin, Zenon
<1>3. \A m \in T : <<m, n>>[1] = m /\ <<m, n>>[2] = n /\ <<m, n>> \in Nat \X Nat
  OBVIOUS
<1>4. \A m \in T : ~ (m < n)
  BY <1>2, <1>3
<1> QED
  BY <1>4

\* The function that Without computes, for the first n members.
Keeps(kept, s, bad, n) ==
    kept = [i \in 0 .. n |->
                IF i = 0 THEN <<>>
                ELSE IF s[i] \in bad THEN kept[i - 1] ELSE Append(kept[i - 1], s[i])]

LEMMA KeepsExists ==
    ASSUME NEW s, NEW bad, NEW n \in Nat
    PROVE  \E kept : Keeps(kept, s, bad, n)
<1> DEFINE T == {k \in Nat : ~ \E kept : Keeps(kept, s, bad, k)}
<1> SUFFICES ASSUME T # {} PROVE FALSE
  OBVIOUS
<1>1. PICK k \in T : \A m \in T : k <= m
  BY LeastNat
<1>2. k # 0
  <2>1. Keeps([i \in 0 .. 0 |-> <<>>], s, bad, 0)
    BY DEF Keeps
  <2> QED
    BY <2>1
<1>3. k - 1 \in Nat /\ k - 1 \notin T
  BY <1>1, <1>2
<1>4. PICK kept : Keeps(kept, s, bad, k - 1)
  BY <1>3
<1> DEFINE more == [i \in 0 .. k |->
                      IF i = k THEN IF s[k] \in bad THEN kept[k - 1] ELSE Append(kept[k - 1], s[k])
                      ELSE kept[i]]
<1>5. Keeps(more, s, bad, k)
  <2>1. \A i \in 0 .. k - 1 : more[i] = kept[i]
    BY <1>3
  <2>2. more[k] = IF s[k] \in bad THEN kept[k - 1] ELSE Append(kept[k - 1], s[k])
    BY <1>3
  <2>3. \A i \in 0 .. k - 1 : kept[i] = IF i = 0 THEN <<>>
                ELSE IF s[i] \in bad THEN kept[i - 1] ELSE Append(kept[i - 1], s[i])
    BY <1>3, <1>4 DEF Keeps
  <2>4. \A i \in 0 .. k : more[i] = IF i = 0 THEN <<>>
                ELSE IF s[i] \in bad THEN more[i - 1] ELSE Append(more[i - 1], s[i])
    <3> HIDE DEF more
    <3> QED
      BY <1>2, <1>3, <2>1, <2>2, <2>3
  <2>5. more = [i \in 0 .. k |-> more[i]]
    OBVIOUS
  <2> HIDE DEF more
  <2> QED
    BY <2>4, <2>5 DEF Keeps
<1> QED
  BY <1>1, <1>5

LEMMA WithoutKeeps ==
    ASSUME NEW s, NEW bad, Len(s) \in Nat
    PROVE  \E kept : Keeps(kept, s, bad, Len(s)) /\ Without(s, bad) = kept[Len(s)]
<1> DEFINE kept == CHOOSE g : Keeps(g, s, bad, Len(s))
<1>1. Keeps(kept, s, bad, Len(s))
  BY KeepsExists
<1>2. Without(s, bad) = kept[Len(s)]
  BY DEF Without, Keeps
<1> QED
  BY <1>1, <1>2

LEMMA WithoutType ==
    ASSUME NEW S, NEW s \in Seq(S), NEW bad
    PROVE  Without(s, bad) \in Seq(S \ bad)
<1>1. PICK kept : Keeps(kept, s, bad, Len(s)) /\ Without(s, bad) = kept[Len(s)]
  BY WithoutKeeps
<1>2. \A i \in 0 .. Len(s) : kept[i] = IF i = 0 THEN <<>>
                ELSE IF s[i] \in bad THEN kept[i - 1] ELSE Append(kept[i - 1], s[i])
  BY <1>1 DEF Keeps
<1> DEFINE T == {n \in 0 .. Len(s) : kept[n] \notin Seq(S \ bad)}
<1>3. T = {}
  <2> SUFFICES ASSUME T # {} PROVE FALSE
    OBVIOUS
  <2>1. PICK n \in T : \A m \in T : n <= m
    <3>1. T \in SUBSET Nat
      OBVIOUS
    <3> HIDE DEF T
    <3> QED
      BY <3>1, LeastNat
  <2>2. n # 0
    <3>1. <<>> \in Seq(S \ bad)
      OBVIOUS
    <3> QED
      BY <1>2, <3>1
  <2>3. n - 1 \in 0 .. Len(s) /\ kept[n - 1] \in Seq(S \ bad)
    BY <2>1, <2>2
  <2>4. s[n] \in S
    BY <2>2
  <2>5. kept[n] = IF s[n] \in bad THEN kept[n - 1] ELSE Append(kept[n - 1], s[n])
    BY <1>2, <2>2
  <2>6. s[n] \notin bad => Append(kept[n - 1], s[n]) \in Seq(S \ bad)
    BY <2>3, <2>4, AppendProperties
  <2> QED
    BY <2>3, <2>5, <2>6
<1> QED
  BY <1>1, <1>3

\* What is bad at the end goes, what is good before it stays.
LEMMA WithoutEnd ==
    ASSUME NEW S, NEW bad, NEW s \in Seq(S \ bad), NEW t \in Seq(S \cap bad)
    PROVE  Without(s \o t, bad) = s
<1> DEFINE st == s \o t
<1>0. s \in Seq(S) /\ t \in Seq(S)
  OBVIOUS
<1>1. /\ st \in Seq(S) /\ Len(st) = Len(s) + Len(t) /\ Len(s) \in Nat /\ Len(t) \in Nat
      /\ \A i \in 1 .. Len(st) : st[i] = IF i <= Len(s) THEN s[i] ELSE t[i - Len(s)]
  BY <1>0, ConcatProperties
<1>2. \A i \in 1 .. Len(st) : st[i] \in bad <=> i > Len(s)
  BY <1>1
<1> HIDE DEF st
<1>3. PICK kept : Keeps(kept, st, bad, Len(st)) /\ Without(st, bad) = kept[Len(st)]
  <2>1. Len(st) \in Nat
    BY <1>1
  <2> QED
    BY <2>1, WithoutKeeps
<1>4. \A i \in 0 .. Len(st) : kept[i] = IF i = 0 THEN <<>>
                ELSE IF st[i] \in bad THEN kept[i - 1] ELSE Append(kept[i - 1], st[i])
  BY <1>3 DEF Keeps
<1> DEFINE first(n) == IF n <= Len(s) THEN SubSeq(s, 1, n) ELSE s
<1> DEFINE T == {n \in 0 .. Len(st) : kept[n] # first(n)}
<1>5. T = {}
  <2> SUFFICES ASSUME T # {} PROVE FALSE
    OBVIOUS
  <2>1. PICK n \in T : \A m \in T : n <= m
    <3>1. T \in SUBSET Nat
      BY <1>1
    <3> HIDE DEF T
    <3> QED
      BY <3>1, LeastNat
  <2>0. /\ n \in 0 .. Len(st) /\ kept[n] # first(n)
        /\ \A m \in 0 .. Len(st) : kept[m] # first(m) => n <= m
    BY <2>1
  <2> HIDE DEF T
  <2>2. n # 0
    <3>1. kept[0] = <<>>
      BY <1>1, <1>4
    <3>2. first(0) = <<>>
      BY <1>1, SubSeqEmpty
    <3> HIDE DEF first
    <3> QED
      BY <1>1, <2>0, <3>1, <3>2
  <2>3. n - 1 \in 0 .. Len(st) /\ n \in 1 .. Len(st) /\ kept[n - 1] = first(n - 1)
    <3> HIDE DEF first
    <3> QED
      BY <1>1, <2>0, <2>2
  <2>4. kept[n] = IF st[n] \in bad THEN kept[n - 1] ELSE Append(kept[n - 1], st[n])
    BY <1>4, <2>3
  <2>5. CASE n <= Len(s)
    <3>1. st[n] \notin bad /\ st[n] = s[n] /\ s[n] \in S
      BY <1>1, <1>2, <2>3, <2>5
    <3>2. SubSeq(s, 1, n - 1) \in Seq(S) /\ SubSeq(s, 1, n) = SubSeq(s, 1, n - 1) \o <<s[n]>>
      <4>1. \A i \in 1 .. n - 1 : s[i] \in S
        BY <2>3, <2>5
      <4> QED
        BY <1>0, <1>1, <2>3, <2>5, <4>1, SubSeqRecursiveSecond, SubSeqProperties
    <3>3. Append(SubSeq(s, 1, n - 1), s[n]) = SubSeq(s, 1, n)
      BY <3>1, <3>2, AppendIsConcat
    <3> QED
      BY <1>1, <2>0, <2>3, <2>4, <2>5, <3>1, <3>3
  <2>6. CASE n > Len(s)
    <3>1. st[n] \in bad
      BY <1>2, <2>3, <2>6
    <3>2. first(n - 1) = s
      BY <1>0, <1>1, <2>3, <2>6, SubSeqFull
    <3>3. first(n) = s
      BY <2>3, <2>6
    <3> HIDE DEF first
    <3> QED
      BY <2>0, <2>3, <2>4, <3>1, <3>2, <3>3
  <2> QED
    BY <1>1, <2>3, <2>5, <2>6
<1>6. kept[Len(st)] = first(Len(st))
  BY <1>1, <1>5
<1>7. first(Len(st)) = s
  BY <1>0, <1>1, SubSeqFull
<1> QED
  BY <1>3, <1>6, <1>7 DEF st

-----------------------------------------------------------------------------
(* Ticks and microseconds.                                                 *)

LEMMA Division ==
    ASSUME NEW n \in Nat, NEW m \in Nat \ {0}
    PROVE  /\ n \div m \in Nat /\ n % m \in 0 .. m - 1
           /\ n = m * (n \div m) + (n % m)
<1>1. n \div m \in Nat /\ n % m \in 0 .. m - 1
  BY SMT
<1>2. n = m * (n \div m) + (n % m)
  BY SMT
<1> QED
  BY <1>1, <1>2

\* A quotient is the greatest number of whole parts.
LEMMA Quotient ==
    ASSUME NEW n \in Nat, NEW m \in Nat \ {0}, NEW q \in Nat
    PROVE  q <= n \div m <=> m * q <= n
<1> DEFINE d == n \div m
           r == n % m
<1>1. d \in Nat /\ r \in 0 .. m - 1 /\ n = m * d + r
  BY Division
<1> HIDE DEF d, r
<1>2. q <= d => m * q <= m * d
  BY <1>1, SMTT(30)
<1>3. d + 1 <= q => m * d + m <= m * q
  BY <1>1, SMTT(30)
<1> DEFINE md == m * d
           mq == m * q
<1>4. md \in Nat /\ mq \in Nat
  BY <1>1
<1> SUFFICES q <= d <=> mq <= n
  BY DEF d
<1> HIDE DEF md, mq
<1>5. (q <= d => mq <= md) /\ (d + 1 <= q => md + m <= mq) /\ n = md + r
  BY <1>1, <1>2, <1>3 DEF md, mq
<1> QED
  BY <1>1, <1>4, <1>5

LEMMA Monotonic ==
    ASSUME NEW a \in Nat, NEW b \in Nat, NEW m \in Nat \ {0}, a <= b
    PROVE  a \div m <= b \div m
<1> DEFINE q == a \div m
<1>1. q \in Nat /\ q <= q
  BY Division
<1>2. m * q \in Nat /\ m * q <= a
  BY <1>1, Quotient
<1>3. m * q <= b
  BY <1>2
<1> QED
  BY <1>1, <1>3, Quotient

LEMMA Multiple ==
    ASSUME NEW q \in Nat, NEW m \in Nat \ {0}
    PROVE  (m * q) \div m = q /\ (m * q) % m = 0 /\ m * q \in Nat
<1> DEFINE n == m * q
           d == n \div m
<1>1. n \in Nat /\ d \in Nat
  BY Division, SMTT(30)
<1>2. q <= d
  BY <1>1, Quotient
<1>3. m * d <= m * q
  BY <1>1, Quotient
<1>4. d <= q
  <2> HIDE DEF d
  <2> QED
    BY <1>1, <1>3, SMTT(30)
<1>5. d = q
  BY <1>1, <1>2, <1>4
<1>6. n = m * d + (n % m) /\ n % m \in 0 .. m - 1
  BY <1>1, Division
<1> DEFINE md == m * d
           r == n % m
<1>7. n = md /\ md \in Nat
  BY <1>1, <1>5
<1>8. n = md + r /\ r \in Nat
  BY <1>6
<1>9. r = 0
  <2> HIDE DEF n, md, r
  <2> QED
    BY <1>7, <1>8
<1> HIDE DEF d
<1> QED
  BY <1>1, <1>5, <1>9 DEF d

\* A day is a number of microseconds.
LEMMA DaysAreWhole ==
    ASSUME NEW d \in Nat
    PROVE  (Day * d) % Micro = 0 /\ Day * d \in Nat
<1> DEFINE k == Day \div Micro
<1>1. k \in Nat /\ Day = Micro * k
  <2>1. k \in Nat /\ Day = Micro * k + (Day % Micro)
    BY Division, TimeAssumption
  <2> QED
    BY <2>1, TimeAssumption
<1> HIDE DEF k
<1>2. k * d \in Nat /\ Day * d = Micro * (k * d)
  BY <1>1, TimeAssumption, SMTT(30)
<1> QED
  BY <1>2, Multiple, TimeAssumption

-----------------------------------------------------------------------------
(* Texts, intervals and the microseconds they stand for.                   *)

Ends == {Nil} \cup (0 .. Horizon)
Low(from) == IF from = Nil THEN 0 ELSE from \div Micro
High(to) == IF to = Nil THEN Horizon \div Micro ELSE to \div Micro

LEMMA Stamped ==
    ASSUME NEW t \in Nat
    PROVE  Timestamp(t) = Micro * (t \div Micro) /\ t \div Micro \in Nat /\ Timestamp(t) \in Nat
<1>1. t # Nil
  BY NilAssumption
<1> DEFINE q == t \div Micro
           mq == Micro * q
           r == t % Micro
<1>2. q \in Nat /\ r \in Nat /\ t = mq + r
  BY Division, TimeAssumption
<1>3. mq \in Nat
  BY <1>2, TimeAssumption
<1>4. t - r = mq
  <2> HIDE DEF mq, r
  <2> QED
    BY <1>2, <1>3
<1> QED
  BY <1>1, <1>2, <1>3, <1>4 DEF Timestamp

\* Two windows begin before the other ends, in stored timestamps and in microseconds.
LEMMA EndsMeet ==
    ASSUME NEW from \in Ends, NEW to \in Ends
    PROVE  (Timestamp(from) = Nil \/ Timestamp(to) = Nil \/ Timestamp(from) <= Timestamp(to))
                <=> Low(from) <= High(to)
<1>0. Horizon \in Nat /\ Micro \in Nat \ {0} /\ Horizon \div Micro \in Nat
  BY TimeAssumption, Division
<1>1. CASE from = Nil
  <2>1. Timestamp(from) = Nil /\ Low(from) = 0
    BY <1>1 DEF Timestamp, Low
  <2>2. High(to) \in Nat
    BY <1>0, Division DEF High, Ends
  <2> QED
    BY <2>1, <2>2
<1>2. CASE from # Nil /\ to = Nil
  <2>1. from \div Micro <= Horizon \div Micro
    BY <1>0, <1>2, Monotonic DEF Ends
  <2> QED
    BY <1>2, <2>1 DEF Low, High, Timestamp
<1>3. CASE from # Nil /\ to # Nil
  <2> DEFINE a == from \div Micro
             b == to \div Micro
  <2>1. from \in Nat /\ to \in Nat
    BY <1>3 DEF Ends
  <2>2. /\ Timestamp(from) = Micro * a /\ Timestamp(to) = Micro * b
        /\ a \in Nat /\ b \in Nat /\ Timestamp(from) \in Nat /\ Timestamp(to) \in Nat
    BY <2>1, Stamped
  <2>3. Low(from) = a /\ High(to) = b
    BY <1>3 DEF Low, High
  <2>4. Micro * a <= Micro * b <=> a <= b
    <3>1. (Micro * b) \div Micro = b /\ Micro * b \in Nat
      BY <1>0, <2>2, Multiple
    <3> HIDE DEF a, b
    <3> QED
      BY <1>0, <2>2, <3>1, Quotient
  <2>5. Timestamp(from) # Nil /\ Timestamp(to) # Nil
    BY <2>2, NilAssumption
  <2> QED
    BY <2>2, <2>3, <2>4, <2>5
<1> QED
  BY <1>1, <1>2, <1>3

Start(text) == ParseEndpoint(text, FALSE)
End(text) == ParseEndpoint(text, TRUE)

LEMMA Endpoint ==
    ASSUME NEW text \in Texts, Readable(text)
    PROVE  /\ Start(text) \in Ends /\ End(text) \in Ends
           /\ text.kind = "open" =>
                Start(text) = Nil /\ End(text) = Nil
           /\ text.kind = "instant" =>
                /\ Start(text) = text.at /\ End(text) = text.at
                /\ text.at \in 0 .. Horizon /\ text.at \in Nat
           /\ text.kind = "date" =>
                /\ Start(text) = Day * text.at
                /\ End(text) = Day * text.at + (Day - 1)
                /\ text.at \in Nat /\ Day * text.at \in Nat
           /\ text.kind \in {"open", "instant", "date"}
<1>1. CASE text = Open
  BY <1>1 DEF Open, ParseEndpoint, Start, End, Ends
<1>2. CASE \E t \in 0 .. Horizon : text = Instant(t)
  BY <1>2 DEF Instant, ParseEndpoint, Start, End, Ends
<1>3. CASE \E d \in 0 .. Horizon : text = Date(d) /\ Day * d + Day - 1 <= Horizon
  <2>1. PICK d \in 0 .. Horizon : text = Date(d) /\ Day * d + Day - 1 <= Horizon
    BY <1>3
  <2>2. text.kind = "date" /\ text.at = d
    BY <2>1 DEF Date
  <2> DEFINE dd == Day * d
  <2>3. dd \in Nat /\ dd + Day - 1 <= Horizon
    BY <2>1, DaysAreWhole
  <2>4. Start(text) = dd + 0 /\ End(text) = dd + (Day - 1)
    BY <2>2 DEF ParseEndpoint, Start, End
  <2>5. dd + 0 = dd /\ dd \in 0 .. Horizon /\ dd + (Day - 1) \in 0 .. Horizon
    <3> HIDE DEF dd
    <3> QED
      BY <2>3, TimeAssumption
  <2> QED
    BY <2>2, <2>3, <2>4, <2>5 DEF Ends
<1> QED
  BY <1>1, <1>2, <1>3 DEF Texts, Readable, Garbled, Number

Begun(first, u) ==
    CASE first.kind = "open" -> TRUE
      [] first.kind = "instant" -> u >= first.at - (first.at % Micro)
      [] first.kind = "date" -> u \div Day >= first.at

NotOver(last, u) ==
    CASE last.kind = "open" -> TRUE
      [] last.kind = "instant" -> u <= last.at
      [] last.kind = "date" -> u \div Day <= last.at

LEMMA BegunIs ==
    ASSUME NEW first \in Texts, Readable(first), NEW u \in Nat
    PROVE  Begun(first, u) <=> Low(Start(first)) <= u \div Micro
<1> DEFINE from == Start(first)
<1>0. u \div Micro \in Nat /\ Micro \in Nat \ {0} /\ Day \in Nat \ {0}
  BY TimeAssumption, Division
<1>1. CASE first.kind = "open"
  BY <1>0, <1>1, Endpoint DEF Begun, Low
<1>2. CASE first.kind = "instant"
  <2>1. from = first.at /\ first.at \in Nat /\ from # Nil
    BY <1>2, Endpoint, NilAssumption
  <2> DEFINE q == from \div Micro
  <2>2. Low(from) = q /\ q \in Nat
    BY <2>1, Stamped DEF Low
  <2>3. first.at - (first.at % Micro) = Micro * q
    BY <2>1, Stamped DEF Timestamp
  <2>4. Begun(first, u) <=> u >= Micro * q
    BY <1>2, <2>3 DEF Begun
  <2>5. Micro * q \in Nat /\ (q <= u \div Micro <=> Micro * q <= u)
    BY <1>0, <2>2, Multiple, Quotient
  <2> QED
    BY <2>2, <2>4, <2>5
<1>3. CASE first.kind = "date"
  <2> DEFINE d == first.at
             dd == Day * d
             q == dd \div Micro
  <2>1. from = dd /\ d \in Nat /\ dd \in Nat /\ from # Nil
    BY <1>3, Endpoint, NilAssumption
  <2>2. Low(from) = q /\ q \in Nat /\ dd = Micro * q
    <3>1. dd % Micro = 0 /\ q \in Nat /\ dd = Micro * q + (dd % Micro)
      BY <1>0, <2>1, DaysAreWhole, Division
    <3>2. Micro * q \in Nat
      BY <1>0, <3>1, Multiple
    <3>3. Low(from) = q
      BY <2>1 DEF Low
    <3> QED
      BY <3>1, <3>2, <3>3
  <2>3. Begun(first, u) <=> u \div Day >= d
    BY <1>3 DEF Begun
  <2>4. u \div Day \in Nat /\ (d <= u \div Day <=> dd <= u)
    BY <1>0, <2>1, Quotient, Division
  <2>5. q <= u \div Micro <=> Micro * q <= u
    BY <1>0, <2>2, Quotient
  <2> HIDE DEF dd, q, from
  <2> QED
    BY <1>0, <2>1, <2>2, <2>3, <2>4, <2>5 DEF from
<1> QED
  BY <1>1, <1>2, <1>3, Endpoint

LEMMA NotOverIs ==
    ASSUME NEW last \in Texts, Readable(last), NEW u \in 0 .. Horizon
    PROVE  LET to == End(last)
           IN  NotOver(last, u) <=> to = Nil \/ u <= to
<1> DEFINE to == End(last)
<1>0. u \in Nat /\ Day \in Nat \ {0}
  BY TimeAssumption
<1>1. CASE last.kind = "open"
  BY <1>1, Endpoint DEF NotOver
<1>2. CASE last.kind = "instant"
  BY <1>2, Endpoint, NilAssumption DEF NotOver
<1>3. CASE last.kind = "date"
  <2> DEFINE d == last.at
             dd == Day * d
             e == Day * (d + 1)
  <2>1. to = dd + (Day - 1) /\ d \in Nat /\ dd \in Nat
    BY <1>3, Endpoint
  <2>2. e = dd + Day
    BY <1>0, <2>1, SMT
  <2>3. NotOver(last, u) <=> u \div Day <= d
    BY <1>3 DEF NotOver
  <2>4. u \div Day \in Nat /\ (d + 1 <= u \div Day <=> e <= u)
    <3>1. d + 1 \in Nat
      BY <2>1
    <3> QED
      BY <1>0, <3>1, Quotient, Division
  <2>5. u \div Day <= d <=> u <= dd + (Day - 1)
    <3> HIDE DEF dd, e, d
    <3> QED
      BY <1>0, <2>1, <2>2, <2>4
  <2>6. to # Nil
    <3> HIDE DEF dd
    <3> QED
      BY <1>0, <2>1, NilAssumption
  <2> QED
    BY <2>1, <2>3, <2>5, <2>6
<1> QED
  BY <1>1, <1>2, <1>3, Endpoint

\* A readable pair of texts stands for all microseconds between its ends.
LEMMA Window ==
    ASSUME NEW first \in Texts, NEW last \in Texts, ParseInterval(first, last).ok
    PROVE  LET time == ParseInterval(first, last)
           IN  /\ time.has /\ time.from \in Ends /\ time.to \in Ends
               /\ Low(time.from) \in Nat /\ High(time.to) \in Nat
               /\ Low(time.from) <= High(time.to)
               /\ Microseconds(first, last) =
                     {q \in Nat : Low(time.from) <= q /\ q <= High(time.to)}
<1> DEFINE time == ParseInterval(first, last)
           from == Start(first)
           to == End(last)
<1>0. Micro \in Nat \ {0} /\ Horizon \in Nat /\ Horizon \div Micro \in Nat
  BY TimeAssumption, Division
<1>1. /\ Readable(first) /\ Readable(last) /\ (from # Nil /\ to # Nil => ~ (from > to))
      /\ time = Span(from, to)
  BY DEF ParseInterval, Error, Start, End
<1>2. time.has /\ time.from = from /\ time.to = to /\ from \in Ends /\ to \in Ends
  BY <1>1, Endpoint DEF Span
<1> DEFINE lo == Low(from)
           hi == High(to)
           top == IF to = Nil THEN Horizon ELSE to
<1>3. top \in 0 .. Horizon /\ hi = top \div Micro /\ lo \in Nat /\ hi \in Nat
  BY <1>0, <1>2, Division DEF Ends, Low, High
<1>4. lo <= hi
  <2>1. CASE from = Nil
    BY <1>3, <2>1 DEF Low
  <2>2. CASE from # Nil
    <3>1. from \in Nat /\ from <= top /\ top \in Nat
      BY <1>1, <1>2, <1>3, <2>2 DEF Ends
    <3>2. from \div Micro <= top \div Micro
      BY <1>0, <3>1, Monotonic
    <3> QED
      BY <1>3, <2>2, <3>2 DEF Low
  <2> QED
    BY <2>1, <2>2
<1> DEFINE meant == {u \in 0 .. Horizon : Begun(first, u) /\ NotOver(last, u)}
<1>5. Microseconds(first, last) = {u \div Micro : u \in meant}
  BY DEF Microseconds, Begun, NotOver
<1>6. \A u \in 0 .. Horizon : u \in meant <=> lo <= u \div Micro /\ u <= top
  <2> TAKE u \in 0 .. Horizon
  <2>1. u \in Nat
    OBVIOUS
  <2>2. Begun(first, u) <=> lo <= u \div Micro
    BY <1>1, <2>1, BegunIs
  <2>3. NotOver(last, u) <=> to = Nil \/ u <= to
    BY <1>1, NotOverIs
  <2> HIDE DEF lo, to
  <2> QED
    BY <1>0, <2>1, <2>2, <2>3
<1> DEFINE between == {q \in Nat : lo <= q /\ q <= hi}
<1> HIDE DEF time, from, to, lo, hi, top, meant
<1>7. ASSUME NEW u \in meant PROVE u \div Micro \in between
  <2>1. u \in 0 .. Horizon /\ u \in Nat /\ top \in Nat
    BY <1>3 DEF meant
  <2>2. lo <= u \div Micro /\ u <= top
    BY <1>6, <2>1
  <2>3. u \div Micro \in Nat /\ u \div Micro <= top \div Micro
    BY <1>0, <2>1, <2>2, Monotonic, Division
  <2> QED
    BY <1>3, <2>2, <2>3
<1>8. ASSUME NEW q \in between PROVE \E u \in meant : q = u \div Micro
  <2> DEFINE u == Micro * q
  <2>1. u \in Nat /\ u \div Micro = q
    BY <1>0, Multiple
  <2>2. u <= top
    <3>1. q <= top \div Micro /\ top \in Nat
      BY <1>3
    <3> QED
      BY <1>0, <3>1, Quotient
  <2> HIDE DEF u
  <2>3. u \in 0 .. Horizon
    BY <1>0, <1>3, <2>1, <2>2
  <2>4. u \in meant
    BY <1>6, <2>1, <2>2, <2>3
  <2> QED
    BY <2>1, <2>4
<1>9. Microseconds(first, last) = between
  BY <1>5, <1>7, <1>8
<1> QED
  BY <1>2, <1>3, <1>4, <1>9 DEF time, lo, hi

\* A time that is read is one interval, or has no time if it is of another type.
LEMMA Derived ==
    ASSUME NEW time, IsTime(time), DeriveTime(time).ok, time # Nil
    PROVE  \/ ~ DeriveTime(time).has /\ \E m \in DOMAIN time : time[m] = Mistyped
           \/ /\ \A m \in DOMAIN time : time[m] # Mistyped
              /\ \E first \in Texts, last \in Texts :
                    /\ DeriveTime(time) = ParseInterval(first, last)
                    /\ Meant(time) = Microseconds(first, last)
<1> DEFINE kinds == DOMAIN time
           texts == time[CHOOSE m \in kinds : TRUE].texts
<1>1. Cardinality(kinds) = 1
  BY DEF DeriveTime, Error
<1>2. PICK k : kinds = {k}
  <2>1. IsFiniteSet({"interval", "timestamp", "date"})
    <3>1. IsFiniteSet({} \cup {"interval"})
      BY FS_EmptySet, FS_AddElement, Zenon
    <3>2. IsFiniteSet(({} \cup {"interval"}) \cup {"timestamp"})
      BY <3>1, FS_AddElement, Zenon
    <3>3. IsFiniteSet((({} \cup {"interval"}) \cup {"timestamp"}) \cup {"date"})
      BY <3>2, FS_AddElement, Zenon
    <3>4. {"interval", "timestamp", "date"} = (({} \cup {"interval"}) \cup {"timestamp"}) \cup {"date"}
      OBVIOUS
    <3> QED
      BY <3>3, <3>4
  <2>2. IsFiniteSet(kinds)
    BY <2>1, FS_Subset DEF IsTime
  <2> QED
    BY <1>1, <2>2, FS_Singleton
<1>3. k \in {"interval", "timestamp", "date"} /\ texts = time[k].texts
  BY <1>2 DEF IsTime
<1>4. CASE time[k] = Mistyped
  BY <1>1, <1>2, <1>4 DEF DeriveTime, Timeless
<1>5. CASE time[k] # Mistyped
  <2>1. texts \in Seq(Texts) /\ (k # "interval" => Len(texts) = 1)
    BY <1>2, <1>3, <1>5 DEF IsTime
  <2>2. Meant(time) = Microseconds(texts[1], texts[Len(texts)])
    BY DEF Meant, Last
  <2>3. \A m \in kinds : time[m] # Mistyped
    BY <1>2, <1>5
  <2>4. CASE k = "interval"
    <3>1. Len(texts) = 2 /\ DeriveTime(time) = ParseInterval(texts[1], texts[2])
      BY <1>1, <1>2, <2>3, <2>4 DEF DeriveTime, Error
    <3>2. texts[1] \in Texts /\ texts[2] \in Texts
      BY <2>1, <3>1
    <3> QED
      BY <2>2, <2>3, <3>1, <3>2
  <2>5. CASE k = "timestamp"
    <3> DEFINE x == texts[1]
               t == x.at
    <3>1. x \in Texts /\ Meant(time) = Microseconds(x, x)
      BY <2>1, <2>2, <2>5
    <3>2. x.kind = "instant" /\ DeriveTime(time) = Span(t, t)
      BY <1>1, <1>2, <2>3, <2>5 DEF DeriveTime, Error
    <3> HIDE DEF x
    <3>3. ParseInterval(x, x) = Span(t, t)
      <4>1. Readable(x) /\ t \in Nat
        BY <3>1, <3>2, Endpoint DEF Readable
      <4>2. ParseEndpoint(x, FALSE) = t /\ ParseEndpoint(x, TRUE) = t
        BY <3>2 DEF ParseEndpoint
      <4> HIDE DEF t
      <4>3. ~ (t > t)
        BY <4>1
      <4> QED
        BY <4>1, <4>2, <4>3 DEF ParseInterval
    <3> QED
      BY <2>3, <3>1, <3>2, <3>3
  <2>6. CASE k = "date"
    <3> DEFINE x == texts[1]
               dd == Day * x.at
    <3>1. x \in Texts /\ Meant(time) = Microseconds(x, x)
      BY <2>1, <2>2, <2>6
    <3>2. x.kind = "date" /\ DeriveTime(time) = Span(dd, dd + Day - 1)
      BY <1>1, <1>2, <2>3, <2>6 DEF DeriveTime, Error
    <3> HIDE DEF x
    <3>3. ParseInterval(x, x) = Span(dd, dd + Day - 1)
      <4>1. Readable(x) /\ dd \in Nat
        BY <3>1, <3>2, Endpoint DEF Readable
      <4>2. ParseEndpoint(x, FALSE) = dd + 0 /\ ParseEndpoint(x, TRUE) = dd + (Day - 1)
        BY <3>2 DEF ParseEndpoint
      <4> HIDE DEF dd
      <4>3. dd + 0 = dd /\ dd + (Day - 1) = dd + Day - 1 /\ ~ (dd > dd + Day - 1)
        BY <4>1, TimeAssumption
      <4> QED
        BY <4>1, <4>2, <4>3 DEF ParseInterval
    <3> QED
      BY <2>3, <3>1, <3>2, <3>3
  <2> QED
    BY <1>3, <2>4, <2>5, <2>6
<1> QED
  BY <1>4, <1>5

-----------------------------------------------------------------------------
(* The inductive invariant: what is stored is a valid document, with its   *)
(* row and its partition.                                                  *)

Documented ==
    /\ stored # Nil => IsDocument(stored) /\ Valid(stored)
    /\ copy # Nil => IsDocument(copy)

Placed ==
    stored # Nil =>
        /\ row = Row(stored)
        /\ class = "temporal" => row.has /\ row.from # Nil /\ partition = row.from

DInv == Documented /\ Placed

Users == {link \in Links : link.rel \notin Managed}

LEMMA UserLinksType ==
    ASSUME NEW links, links = Nil \/ links \in Seq(Links)
    PROVE  UserLinks(links) \in Seq(Users)
<1>1. CASE links = Nil
  BY <1>1 DEF UserLinks
<1>2. CASE links # Nil
  <2> DEFINE tlons == {link \in ToSet(links) : link.rel \in Managed}
  <2>1. links \in Seq(ToSet(links)) /\ ToSet(links) \subseteq Links
    <3> DEFINE S == ToSet(links)
    <3>1. links \in Seq(Links)
      BY <1>2
    <3>2. S \subseteq Links /\ \A i \in 1 .. Len(links) : links[i] \in S
      BY <3>1 DEF ToSet
    <3> HIDE DEF S
    <3>3. links \in Seq(S)
      BY <3>1, <3>2
    <3> QED
      BY <3>2, <3>3 DEF S
  <2>2. Without(links, tlons) \in Seq(ToSet(links) \ tlons)
    <3> HIDE DEF tlons
    <3> QED
      BY <2>1, WithoutType
  <2>3. ToSet(links) \ tlons \subseteq Users
    BY <2>1 DEF Users
  <2>4. UserLinks(links) = Without(links, tlons)
    BY <1>2 DEF UserLinks
  <2> HIDE DEF tlons
  <2> QED
    BY <2>2, <2>3, <2>4
<1> QED
  BY <1>1, <1>2

LEMMA Navigation ==
    /\ NavigationLinks \in Seq(Links) /\ Len(NavigationLinks) = 3
    /\ NavigationLinks[1].rel = "self" /\ NavigationLinks[2].rel = "collection"
    /\ NavigationLinks[3].rel = "profile"
    /\ \A i \in 1 .. 3 : NavigationLinks[i].of = "tlon" /\ NavigationLinks[i].rel \in Managed
<1>1. NavigationLinks \in Seq(Links)
  BY DEF NavigationLinks, Links, Managed
<1>2. /\ Len(NavigationLinks) = 3
      /\ NavigationLinks[1].rel = "self" /\ NavigationLinks[2].rel = "collection"
      /\ NavigationLinks[3].rel = "profile"
      /\ \A i \in 1 .. 3 : NavigationLinks[i].of = "tlon" /\ NavigationLinks[i].rel \in Managed
  BY DEF NavigationLinks, Managed
<1> QED
  BY <1>1, <1>2

LEMMA WithNavigation ==
    ASSUME NEW users \in Seq(Links)
    PROVE  LET links == users \o NavigationLinks
               n == Len(users)
           IN  /\ links \in Seq(Links) /\ n \in Nat /\ DOMAIN links = 1 .. n + 3
               /\ \A i \in 1 .. n : links[i] = users[i]
               /\ \A i \in 1 .. 3 : n + i \in 1 .. n + 3 /\ links[n + i] = NavigationLinks[i]
<1> DEFINE links == users \o NavigationLinks
           n == Len(users)
           nav == NavigationLinks
<1>1. nav \in Seq(Links) /\ Len(nav) = 3 /\ n \in Nat
  BY Navigation, LenProperties
<1>2. /\ links \in Seq(Links) /\ Len(links) = n + 3
      /\ \A i \in 1 .. n + 3 : links[i] = IF i <= n THEN users[i] ELSE nav[i - n]
  <2>1. /\ users \o nav \in Seq(Links) /\ Len(users \o nav) = n + Len(nav)
        /\ \A i \in 1 .. n + Len(nav) :
              (users \o nav)[i] = IF i <= n THEN users[i] ELSE nav[i - n]
    <3> HIDE DEF nav
    <3> QED
      BY <1>1, ConcatProperties
  <2> HIDE DEF nav
  <2>2. Len(nav) = 3
    BY <1>1
  <2> QED
    BY <2>1, <2>2 DEF nav
<1> HIDE DEF links, n
<1>3. DOMAIN links = 1 .. n + 3
  BY <1>2, LenProperties
<1>4. \A i \in 1 .. n : links[i] = users[i]
  BY <1>1, <1>2
<1>5. ASSUME NEW i \in 1 .. 3 PROVE n + i \in 1 .. n + 3 /\ links[n + i] = NavigationLinks[i]
  <2>1. n + i \in 1 .. n + 3 /\ ~ (n + i <= n) /\ (n + i) - n = i
    BY <1>1
  <2> QED
    BY <1>2, <2>1
<1> QED
  BY <1>1, <1>2, <1>3, <1>4, <1>5 DEF links, n

LEMMA StrippedIsDocument ==
    ASSUME NEW doc, IsDocument(doc)
    PROVE  /\ IsDocument(ForPut(doc)) /\ ForPut(doc).time = doc.time
           /\ Valid(ForPut(doc)) = Valid(doc) /\ ForCreate(doc) = ForPut(doc)
<1> DEFINE put == ForPut(doc)
<1>1. /\ DOMAIN put = Fields /\ put.feature = doc.feature /\ put.time = doc.time
      /\ put.conformsTo = doc.conformsTo
      /\ put.links = IF doc.links = Nil THEN Nil ELSE UserLinks(doc.links)
  BY DEF ForPut, StripManaged, IsDocument, Fields
<1>2. doc.links = Nil \/ UserLinks(doc.links) \in Seq(Links)
  <2>1. doc.links = Nil \/ doc.links \in Seq(Links)
    BY DEF IsDocument, AreMembers, Fields
  <2>2. UserLinks(doc.links) \in Seq(Users)
    BY <2>1, UserLinksType
  <2>3. Users \subseteq Links
    BY DEF Users
  <2>4. Seq(Users) \subseteq Seq(Links)
    <3> QED
      BY <2>3
  <2> QED
    BY <2>2, <2>4
<1>3. doc.feature \in BOOLEAN /\ (doc.conformsTo = Nil \/ doc.conformsTo \in Seq(Conformances))
  BY DEF IsDocument, AreMembers, Fields
<1>4. doc.time = Nil \/ IsTime(doc.time)
  BY DEF IsDocument
<1>5. ForCreate(doc) = put
  BY DEF ForCreate, ForPut
<1> HIDE DEF put
<1>6. IsDocument(put)
  BY <1>1, <1>2, <1>3, <1>4 DEF IsDocument, AreMembers
<1>7. Valid(put) = Valid(doc)
  BY <1>1 DEF Valid
<1> QED
  BY <1>1, <1>5, <1>6, <1>7 DEF put

\* Every way of writing ends with a document that is placed.
LEMMA StoreKeeps ==
    ASSUME DInv, NEW body, IsDocument(body), Valid(body), Placeable(ForPut(body)),
           Store(ForPut(body))
    PROVE  DInv'
<1> DEFINE put == ForPut(body)
           time == DeriveTime(put.time)
<1>1. IsDocument(put) /\ Valid(put)
  BY StrippedIsDocument
<1>2. stored' = put /\ row' = Row(put) /\ class' = class /\ copy' = copy
  BY DEF Store
<1>3. partition' = IF class = "temporal" THEN Timestamp(time.from) ELSE Nil
  BY DEF Store
<1>4. Row(put).has = time.has /\ Row(put).from = Timestamp(time.from)
  BY DEF Row
<1>5. class = "temporal" => time.has /\ time.from # Nil
  BY DEF Placeable
<1>6. time.from # Nil => Timestamp(time.from) # Nil
  <2>1. put.time = Nil \/ IsTime(put.time)
    BY <1>1 DEF IsDocument
  <2>2. time.ok
    BY <1>1 DEF Valid
  <2>3. time.from \in Ends
    <3>1. CASE put.time = Nil
      BY <3>1 DEF DeriveTime, Timeless, Ends
    <3>2. CASE put.time # Nil
      <4>1. CASE ~ time.has /\ \E m \in DOMAIN put.time : put.time[m] = Mistyped
        <5>1. time = Timeless
          BY <3>2, <2>2, <4>1 DEF DeriveTime, Error
        <5> QED
          BY <5>1 DEF Timeless, Ends
      <4>2. CASE \E first \in Texts, last \in Texts : time = ParseInterval(first, last)
        BY <2>2, <4>2, Window
      <4> QED
        BY <2>1, <2>2, <3>2, <4>1, <4>2, Derived
    <3> QED
      BY <3>1, <3>2
  <2> QED
    BY <2>3, Stamped, NilAssumption DEF Ends
<1> HIDE DEF put, time
<1> QED
  BY <1>1, <1>2, <1>3, <1>4, <1>5, <1>6 DEF DInv, Documented, Placed

LEMMA ShownIsDocument ==
    ASSUME NEW doc, IsDocument(doc)
    PROVE  IsDocument(Materialize(doc)) /\ Materialize(doc).time = doc.time
<1> DEFINE shown == Materialize(doc)
           names == IF doc.conformsTo = Nil THEN <<>> ELSE Without(doc.conformsTo, {"", Profile})
<1>1. /\ DOMAIN shown = Fields /\ shown.feature = doc.feature /\ shown.time = doc.time
      /\ shown.conformsTo = Append(names, Profile)
      /\ shown.links = UserLinks(doc.links) \o NavigationLinks
  BY DEF Materialize, IsDocument, Fields
<1>2. /\ doc.links = Nil \/ doc.links \in Seq(Links)
      /\ doc.feature \in BOOLEAN
      /\ doc.conformsTo = Nil \/ doc.conformsTo \in Seq(Conformances)
      /\ doc.time = Nil \/ IsTime(doc.time)
  BY DEF IsDocument, AreMembers, Fields
<1>3. UserLinks(doc.links) \o NavigationLinks \in Seq(Links)
  <2>1. UserLinks(doc.links) \in Seq(Users) /\ Users \subseteq Links
    BY <1>2, UserLinksType DEF Users
  <2>2. NavigationLinks \in Seq(Links)
    BY Navigation
  <2>3. UserLinks(doc.links) \in Seq(Links)
    BY <2>1, SeqMonotonic
  <2> QED
    BY <2>2, <2>3, ConcatProperties
<1>4. Append(names, Profile) \in Seq(Conformances)
  <2>1. names \in Seq(Conformances)
    <3>1. CASE doc.conformsTo = Nil
      BY <3>1, EmptySeq
    <3>2. CASE doc.conformsTo # Nil
      <4>1. Without(doc.conformsTo, {"", Profile}) \in Seq(Conformances \ {"", Profile})
        BY <1>2, <3>2, WithoutType
      <4>2. Seq(Conformances \ {"", Profile}) \subseteq Seq(Conformances)
        <5> DEFINE C == Conformances \ {"", Profile}
        <5>1. C \subseteq Conformances
          OBVIOUS
        <5> HIDE DEF C
        <5>2. Seq(C) \subseteq Seq(Conformances)
          BY <5>1
        <5> QED
          BY <5>2 DEF C
      <4> QED
        BY <3>2, <4>1, <4>2
    <3> QED
      BY <3>1, <3>2
  <2>2. Profile \in Conformances
    BY DEF Conformances
  <2> HIDE DEF names
  <2> QED
    BY <2>1, <2>2, AppendProperties
<1> HIDE DEF shown, names
<1>5. IsDocument(shown)
  BY <1>1, <1>2, <1>3, <1>4 DEF IsDocument, AreMembers
<1> QED
  BY <1>1, <1>5 DEF shown

LEMMA MergedTime ==
    ASSUME NEW time, time = Nil \/ IsTime(time), NEW patch, IsTime(Present(patch))
    PROVE  IsTime(MergeTime(time, patch))
<1> DEFINE old == IF time = Nil THEN {} ELSE DOMAIN time
           merged == MergeTime(time, patch)
           given == Present(patch)
<1>1. \A m \in DOMAIN merged :
        \/ m \in DOMAIN given /\ merged[m] = given[m]
        \/ m \in old /\ merged[m] = time[m]
  BY DEF MergeTime, Present
<1>2. old = {} \/ (time # Nil /\ old = DOMAIN time)
  OBVIOUS
<1> HIDE DEF old, merged, given
<1>3. \A m \in DOMAIN merged :
        \/ m \in DOMAIN given /\ merged[m] = given[m]
        \/ m \in DOMAIN time /\ merged[m] = time[m] /\ IsTime(time)
  BY <1>1, <1>2
<1>4. IsTime(given)
  BY DEF given
<1>5. IsTime(merged)
  BY <1>3, <1>4 DEF IsTime
<1> QED
  BY <1>5 DEF merged

LEMMA MergedIsDocument ==
    ASSUME NEW doc, IsDocument(doc), NEW patch \in Patches
    PROVE  IsDocument(MergePatch(doc, SanitizePatch(patch)))
<1> DEFINE given == SanitizePatch(patch)
           merged == MergePatch(doc, given)
<1>0. IsPatch(patch)
  BY InputsAssumption
<1>1. /\ DOMAIN given = DOMAIN patch \ {"id", "created"}
      /\ \A m \in DOMAIN given : m # "links" => given[m] = patch[m]
      /\ "links" \in DOMAIN given =>
            given["links"] = IF patch["links"] # Nil THEN UserLinks(patch["links"]) ELSE patch["links"]
  BY DEF SanitizePatch
<1>2. /\ DOMAIN merged = DOMAIN doc
      /\ \A m \in DOMAIN doc : m \notin DOMAIN given => merged[m] = doc[m]
      /\ \A m \in DOMAIN doc : m \in DOMAIN given /\ m # "time" => merged[m] = given[m]
      /\ "time" \in DOMAIN doc /\ "time" \in DOMAIN given =>
            merged["time"] = IF given["time"] = Nil THEN Nil ELSE MergeTime(doc["time"], given["time"])
  BY DEF MergePatch
<1> HIDE DEF given, merged
<1>3. DOMAIN doc = Fields /\ (doc.time = Nil \/ IsTime(doc.time)) /\ AreMembers(doc)
  BY DEF IsDocument
<1>4. merged.feature \in BOOLEAN
  BY <1>0, <1>1, <1>2, <1>3 DEF IsPatch, AreMembers, Fields
<1>5. merged.links = Nil \/ merged.links \in Seq(Links)
  <2>1. "links" \in DOMAIN given /\ patch["links"] # Nil => UserLinks(patch["links"]) \in Seq(Links)
    <3> SUFFICES ASSUME "links" \in DOMAIN given, patch["links"] # Nil
                 PROVE  UserLinks(patch["links"]) \in Seq(Links)
      OBVIOUS
    <3>1. patch["links"] \in Seq(Links)
      BY <1>0, <1>1 DEF IsPatch, AreMembers
    <3>2. UserLinks(patch["links"]) \in Seq(Users) /\ Users \subseteq Links
      BY <3>1, UserLinksType DEF Users
    <3> QED
      BY <3>2, SeqMonotonic
  <2>2. doc.links = Nil \/ doc.links \in Seq(Links)
    BY <1>3 DEF AreMembers, Fields
  <2> QED
    BY <1>1, <1>2, <1>3, <2>1, <2>2 DEF Fields
<1>6. merged.conformsTo = Nil \/ merged.conformsTo \in Seq(Conformances)
  BY <1>0, <1>1, <1>2, <1>3 DEF IsPatch, AreMembers, Fields
<1>7. merged.time = Nil \/ IsTime(merged.time)
  <2>1. "time" \in DOMAIN given /\ given["time"] # Nil => IsTime(Present(given["time"]))
    BY <1>0, <1>1 DEF IsPatch
  <2> QED
    BY <1>2, <1>3, <2>1, MergedTime DEF Fields
<1>8. IsDocument(merged)
  BY <1>2, <1>3, <1>4, <1>5, <1>6, <1>7 DEF IsDocument, AreMembers
<1> QED
  BY <1>8 DEF merged, given

LEMMA Inductive == DInv /\ [Next]_vars => DInv'
<1> SUFFICES ASSUME DInv, [Next]_vars PROVE DInv'
  OBVIOUS
<1>1. ASSUME NEW body \in Bodies, Create(body) \/ BulkCreate(body) \/ Put(body) PROVE DInv'
  <2>1. IsDocument(body)
    BY InputsAssumption
  <2>2. ForCreate(body) = ForPut(body)
    BY <2>1, StrippedIsDocument
  <2>3. Valid(body) /\ Placeable(ForPut(body)) /\ Store(ForPut(body))
    BY <1>1, <2>2 DEF Create, BulkCreate, Put
  <2> QED
    BY <2>1, <2>3, StoreKeeps
<1>2. ASSUME PutBack PROVE DInv'
  <2>1. PICK body : IsDocument(body) /\ Put(body)
    <3>1. IsDocument(copy)
      BY <1>2 DEF PutBack, DInv, Documented
    <3>2. \A body \in Bodies : IsDocument([copy EXCEPT !.time = body.time])
      <4> SUFFICES ASSUME NEW body \in Bodies PROVE IsDocument([copy EXCEPT !.time = body.time])
        OBVIOUS
      <4>1. body.time = Nil \/ IsTime(body.time)
        BY InputsAssumption DEF IsDocument
      <4> DEFINE given == [copy EXCEPT !.time = body.time]
      <4>2. /\ DOMAIN given = Fields /\ given.time = body.time /\ given.feature = copy.feature
            /\ given.links = copy.links /\ given.conformsTo = copy.conformsTo
        BY <3>1 DEF IsDocument, Fields
      <4> HIDE DEF given
      <4>3. IsDocument(given)
        BY <3>1, <4>1, <4>2 DEF IsDocument, AreMembers, Fields
      <4> QED
        BY <4>3 DEF given
    <3> QED
      BY <1>2, <3>1, <3>2 DEF PutBack
  <2> QED
    BY <2>1, StoreKeeps DEF Put
<1>3. ASSUME NEW patch \in Patches, Patch(patch) PROVE DInv'
  <2> DEFINE merged == MergePatch(stored, SanitizePatch(patch))
  <2>1. IsDocument(merged)
    BY <1>3, MergedIsDocument DEF Patch, DInv, Documented
  <2>2. Valid(merged) /\ Placeable(ForPut(merged)) /\ Store(ForPut(merged))
    BY <1>3 DEF Patch
  <2> HIDE DEF merged
  <2> QED
    BY <2>1, <2>2, StoreKeeps
<1>4. ASSUME Get PROVE DInv'
  BY <1>4, ShownIsDocument DEF Get, DInv, Documented, Placed
<1>5. ASSUME Delete PROVE DInv'
  BY <1>5 DEF Delete, DInv, Documented, Placed
<1>6. ASSUME UNCHANGED vars PROVE DInv'
  BY <1>6 DEF vars, DInv, Documented, Placed
<1> QED
  BY <1>1, <1>2, <1>3, <1>4, <1>5, <1>6 DEF Next

\* What is stored is a valid document, its row is derived from it, and in a temporal
\* catalog it has a start and lies in the partition of that start (recordTarget).
THEOREM StoredIsPlaced == Spec => []DInv
<1>1. Init => DInv
  BY DEF Init, DInv, Documented, Placed
<1> QED
  BY <1>1, Inductive, PTL DEF Spec

-----------------------------------------------------------------------------

(* The properties.                                                         *)

LEMMA IntervalsMeet ==
    ASSUME NEW a \in Nat, NEW b \in Nat, NEW c \in Nat, NEW d \in Nat, a <= b, c <= d
    PROVE  {q \in Nat : a <= q /\ q <= b} \cap {q \in Nat : c <= q /\ q <= d} # {}
                <=> a <= d /\ c <= b
<1>1. ASSUME a <= d, c <= b, a <= c
      PROVE  c \in {q \in Nat : a <= q /\ q <= b} /\ c \in {q \in Nat : c <= q /\ q <= d}
  BY <1>1
<1>2. ASSUME a <= d, c <= b, c <= a
      PROVE  a \in {q \in Nat : a <= q /\ q <= b} /\ a \in {q \in Nat : c <= q /\ q <= d}
  BY <1>2
<1>3. a <= c \/ c <= a
  OBVIOUS
<1>4. ASSUME NEW q \in Nat, a <= q, q <= b, c <= q, q <= d PROVE a <= d /\ c <= b
  BY <1>4
<1> QED
  BY <1>1, <1>2, <1>3, <1>4

LEMMA SearchesFind == ASSUME DInv PROVE SearchesFindWhatOverlaps
<1> SUFFICES ASSUME stored # Nil, NEW query \in Queries, ParseDatetime(query).ok
             PROVE  Found(query) <=>
                      \/ stored.time = Nil \/ \E m \in DOMAIN stored.time : stored.time[m] = Mistyped
                      \/ Meant(stored.time) \cap Microseconds(query[1], Last(query)) # {}
  BY DEF SearchesFindWhatOverlaps
<1> DEFINE time == DeriveTime(stored.time)
           asked == ParseDatetime(query)
           window == [from |-> Timestamp(asked.from), to |-> Timestamp(asked.to)]
           x == query[1]
           y == Last(query)
<1>1. /\ IsDocument(stored) /\ Valid(stored) /\ row = Row(stored)
      /\ class = "temporal" => row.has /\ row.from # Nil /\ partition = row.from
  BY DEF DInv, Documented, Placed
<1>2. time.ok /\ (stored.time = Nil \/ IsTime(stored.time))
  BY <1>1 DEF Valid, IsDocument
<1>3. row.has = time.has /\ row.from = Timestamp(time.from) /\ row.to = Timestamp(time.to)
  BY <1>1 DEF Row
<1>4. x \in Texts /\ y \in Texts /\ asked = ParseInterval(x, y)
  BY InputsAssumption DEF ParseDatetime, Last
<1>5. Found(query) <=>
        /\ ~ row.has \/ Overlap(row, window)
        /\ class = "temporal" /\ window.to # Nil => partition <= window.to
  BY DEF Found
<1>6. CASE ~ time.has
  <2>1. stored.time = Nil \/ \E m \in DOMAIN stored.time : stored.time[m] = Mistyped
    <3> SUFFICES ASSUME stored.time # Nil
                 PROVE  \E m \in DOMAIN stored.time : stored.time[m] = Mistyped
      OBVIOUS
    <3>1. \A first \in Texts, last \in Texts :
            time = ParseInterval(first, last) => time.has
      BY <1>2, Window
    <3> QED
      BY <1>2, <1>6, <3>1, Derived
  <2> QED
    BY <1>1, <1>3, <1>5, <1>6, <2>1
<1>7. CASE time.has
  <2>1. stored.time # Nil
    BY <1>7 DEF DeriveTime, Timeless
  <2>2. ~ \E m \in DOMAIN stored.time : stored.time[m] = Mistyped
    BY <1>2, <1>7, <2>1, Derived
  <2>3. PICK first \in Texts : \E last \in Texts :
          /\ time = ParseInterval(first, last)
          /\ Meant(stored.time) = Microseconds(first, last)
    BY <1>2, <1>7, <2>1, Derived
  <2>4. PICK last \in Texts :
          /\ time = ParseInterval(first, last)
          /\ Meant(stored.time) = Microseconds(first, last)
    BY <2>3
  <2> DEFINE a == Low(time.from)
             b == High(time.to)
             c == Low(asked.from)
             d == High(asked.to)
  <2>5. /\ time.from \in Ends /\ time.to \in Ends /\ a \in Nat /\ b \in Nat /\ a <= b
        /\ Meant(stored.time) = {q \in Nat : a <= q /\ q <= b}
    BY <1>2, <2>4, Window
  <2>6. /\ asked.from \in Ends /\ asked.to \in Ends /\ c \in Nat /\ d \in Nat /\ c <= d
        /\ Microseconds(x, y) = {q \in Nat : c <= q /\ q <= d}
    BY <1>4, Window
  <2>7. Overlap(row, window) <=> a <= d /\ c <= b
    <3>1. (row.from = Nil \/ window.to = Nil \/ row.from <= window.to) <=> a <= d
      BY <1>3, <2>5, <2>6, EndsMeet
    <3>2. (window.from = Nil \/ row.to = Nil \/ window.from <= row.to) <=> c <= b
      BY <1>3, <2>5, <2>6, EndsMeet
    <3> HIDE DEF a, b, c, d, window
    <3> QED
      BY <3>1, <3>2 DEF Overlap
  <2>8. Overlap(row, window) => (class = "temporal" /\ window.to # Nil => partition <= window.to)
    <3> HIDE DEF window
    <3> QED
      BY <1>1 DEF Overlap
  <2>9. Meant(stored.time) \cap Microseconds(x, y) # {} <=> a <= d /\ c <= b
    <3> DEFINE A == {q \in Nat : a <= q /\ q <= b}
               C == {q \in Nat : c <= q /\ q <= d}
    <3>1. A \cap C # {} <=> a <= d /\ c <= b
      <4> HIDE DEF a, b, c, d
      <4> QED
        BY <2>5, <2>6, IntervalsMeet
    <3>2. Meant(stored.time) = A /\ Microseconds(x, y) = C
      BY <2>5, <2>6
    <3> HIDE DEF A, C, a, b, c, d, x, y
    <3> QED
      BY <3>1, <3>2
  <2> HIDE DEF a, b, c, d, time, asked, window
  <2> QED
    BY <1>3, <1>5, <1>7, <2>1, <2>2, <2>7, <2>8, <2>9
<1> QED
  BY <1>6, <1>7

LEMMA ShownIsStable ==
    ASSUME NEW doc, IsDocument(doc)
    PROVE  Materialize(ForPut(Materialize(doc))) = Materialize(doc)
<1> DEFINE shown == Materialize(doc)
           back == ForPut(shown)
           again == Materialize(back)
           names == IF doc.conformsTo = Nil THEN <<>> ELSE Without(doc.conformsTo, {"", Profile})
           users == UserLinks(doc.links)
           C == Conformances
           bad == {"", Profile}
<1>1. /\ DOMAIN shown = Fields /\ shown = [m \in Fields |-> shown[m]]
      /\ shown.feature = doc.feature /\ shown.time = doc.time
      /\ shown.id = "own" /\ shown.created = "tlon"
      /\ shown.conformsTo = Append(names, Profile) /\ shown.links = users \o NavigationLinks
  BY DEF Materialize, IsDocument, Fields
<1>2. /\ DOMAIN back = Fields /\ back.feature = shown.feature /\ back.time = shown.time
      /\ back.conformsTo = shown.conformsTo
      /\ back.links = IF shown.links = Nil THEN Nil ELSE UserLinks(shown.links)
  BY <1>1 DEF ForPut, StripManaged, Fields
<1>3. /\ DOMAIN again = Fields /\ again = [m \in Fields |-> again[m]]
      /\ again.feature = back.feature /\ again.time = back.time
      /\ again.id = "own" /\ again.created = "tlon"
      /\ again.links = UserLinks(back.links) \o NavigationLinks
      /\ again.conformsTo =
            Append(IF back.conformsTo = Nil THEN <<>> ELSE Without(back.conformsTo, {"", Profile}), Profile)
  BY <1>2 DEF Materialize, Fields
<1>4. /\ doc.links = Nil \/ doc.links \in Seq(Links)
      /\ doc.conformsTo = Nil \/ doc.conformsTo \in Seq(Conformances)
  BY DEF IsDocument, AreMembers, Fields
<1> HIDE DEF shown, back, again
<1>5. UserLinks(back.links) = users
  <2> DEFINE tlons(links) == {link \in ToSet(links) : link.rel \in Managed}
  <2>1. users \in Seq(Users) /\ Users \subseteq Links /\ NavigationLinks \in Seq(Links)
    BY <1>4, UserLinksType, Navigation DEF Users
  <2>2. users \in Seq(Links)
    BY <2>1, SeqMonotonic
  <2>3. \A link \in Users : link \notin tlons(users) /\ link \notin tlons(users \o NavigationLinks)
    BY DEF Users
  <2>4. UserLinks(users \o NavigationLinks) = users
    <3> DEFINE all == users \o NavigationLinks
               gone == tlons(all)
    <3>1. all # Nil
      BY <2>1, <2>2, ConcatProperties, NilAssumption
    <3>2. UserLinks(all) = Without(all, gone)
      BY <3>1 DEF UserLinks
    <3>3. users \in Seq(Links \ gone)
      <4> HIDE DEF gone
      <4>1. Users \subseteq Links \ gone
        BY <2>1, <2>3 DEF gone
      <4> QED
        BY <2>1, <4>1, SeqMonotonic
    <3>4. NavigationLinks \in Seq(Links \cap gone)
      <4>1. /\ Len(NavigationLinks) = 3
            /\ \A i \in 1 .. 3 : NavigationLinks[i].rel \in Managed
        BY Navigation
      <4>2. \A i \in 1 .. 3 : NavigationLinks[i] \in ToSet(all)
        <5> SUFFICES ASSUME NEW i \in 1 .. 3 PROVE NavigationLinks[i] \in ToSet(all)
          OBVIOUS
        <5>1. /\ Len(users) + i \in 1 .. Len(users) + 3 /\ DOMAIN all = 1 .. Len(users) + 3
              /\ all[Len(users) + i] = NavigationLinks[i]
          BY <2>2, WithNavigation
        <5> HIDE DEF all
        <5> QED
          BY <5>1 DEF ToSet
      <4>3. \A i \in 1 .. 3 : NavigationLinks[i] \in Links \cap gone
        <5>1. \A i \in 1 .. 3 : NavigationLinks[i] \in Links
          BY Navigation, ElementOfSeq
        <5> HIDE DEF all
        <5> QED
          BY <4>1, <4>2, <5>1
      <4> DEFINE L == Links \cap gone
      <4> HIDE DEF L
      <4>4. \A i \in 1 .. 3 : NavigationLinks[i] \in L
        BY <4>3 DEF L
      <4>5. NavigationLinks \in Seq(L)
        <5>1. NavigationLinks \in [1 .. 3 -> Links]
          BY <2>1, <4>1, LenProperties
        <5>2. NavigationLinks \in [1 .. 3 -> L]
          BY <4>4, <5>1
        <5> QED
          BY <5>2, SeqDef
      <4> QED
        BY <4>5 DEF L
    <3> HIDE DEF gone
    <3> QED
      BY <3>2, <3>3, <3>4, WithoutEnd
  <2>5. UserLinks(users) = users
    <3> DEFINE gone == tlons(users)
    <3>1. users # Nil
      BY <2>2, NilAssumption
    <3>2. UserLinks(users) = Without(users, gone)
      BY <3>1 DEF UserLinks
    <3>3. users \in Seq(Links \ gone)
      <4> HIDE DEF gone
      <4>1. Users \subseteq Links \ gone
        BY <2>1, <2>3 DEF gone
      <4> QED
        BY <2>1, <4>1, SeqMonotonic
    <3>4. <<>> \in Seq(Links \cap gone) /\ users \o <<>> = users
      BY <2>2, EmptySeq, ConcatEmptySeq
    <3> HIDE DEF gone
    <3> QED
      BY <3>2, <3>3, <3>4, WithoutEnd
  <2>6. users \o NavigationLinks # Nil
    BY <2>1, <2>2, ConcatProperties, NilAssumption
  <2> QED
    BY <1>1, <1>2, <2>4, <2>5, <2>6
<1>6. Without(shown.conformsTo, {"", Profile}) = names /\ shown.conformsTo # Nil
  <2>1. names \in Seq(C \ bad)
    <3>1. CASE doc.conformsTo = Nil
      BY <3>1, EmptySeq
    <3>2. CASE doc.conformsTo # Nil
      BY <1>4, <3>2, WithoutType
    <3> QED
      BY <3>1, <3>2
  <2>2. Profile \in C \cap bad
    BY DEF Conformances
  <2> HIDE DEF C, bad, names
  <2>3. names \in Seq(C)
    <3>1. C \ bad \subseteq C
      OBVIOUS
    <3> QED
      BY <2>1, <3>1, SeqMonotonic
  <2>4. Append(names, Profile) = names \o <<Profile>> /\ Append(names, Profile) \in Seq(C)
    BY <2>2, <2>3, AppendIsConcat, AppendProperties
  <2>5. <<Profile>> \in Seq(C \cap bad)
    BY <2>2
  <2>6. Without(names \o <<Profile>>, bad) = names
    BY <2>1, <2>5, WithoutEnd
  <2>7. Append(names, Profile) # Nil
    BY <2>4, NilAssumption DEF C
  <2> QED
    BY <1>1, <2>4, <2>6, <2>7 DEF bad
<1>7. /\ again.links = shown.links /\ again.conformsTo = shown.conformsTo
      /\ again.feature = shown.feature /\ again.time = shown.time
      /\ again.id = shown.id /\ again.created = shown.created
  BY <1>1, <1>2, <1>3, <1>5, <1>6
<1>8. \A m \in Fields : again[m] = shown[m]
  BY <1>7 DEF Fields
<1>9. again = shown
  BY <1>1, <1>3, <1>8
<1> QED
  BY <1>9 DEF again, back, shown

\* Tlon's links are once among those that are shown.
LEMMA NavigationOnce ==
    ASSUME NEW doc, IsDocument(doc), NEW rel \in Managed
    PROVE  LET links == Materialize(doc).links
           IN  \E i \in DOMAIN links :
                 /\ links[i].of = "tlon"
                 /\ \A j \in DOMAIN links : links[j].rel = rel => j = i
                 /\ links[i].rel = rel
<1> DEFINE users == UserLinks(doc.links)
           links == users \o NavigationLinks
           n == Len(users)
<1>1. Materialize(doc).links = links
  BY DEF Materialize, IsDocument, Fields
<1>2. doc.links = Nil \/ doc.links \in Seq(Links)
  BY DEF IsDocument, AreMembers, Fields
<1>3. users \in Seq(Users) /\ Users \subseteq Links /\ NavigationLinks \in Seq(Links)
  BY <1>2, UserLinksType, Navigation DEF Users
<1>4. users \in Seq(Links) /\ n \in Nat /\ \A i \in 1 .. n : users[i].rel \notin Managed
  <2>1. users \in Seq(Links) /\ n \in Nat
    BY <1>3, SeqMonotonic, LenProperties
  <2>2. \A i \in 1 .. n : users[i] \in Users
    BY <1>3, ElementOfSeq
  <2> QED
    BY <2>1, <2>2 DEF Users
<1>5. /\ NavigationLinks[1].rel = "self" /\ NavigationLinks[2].rel = "collection"
      /\ NavigationLinks[3].rel = "profile"
      /\ \A i \in 1 .. 3 : NavigationLinks[i].of = "tlon"
  BY Navigation
<1>6. /\ DOMAIN links = 1 .. n + 3 /\ \A i \in 1 .. n : links[i] = users[i]
      /\ \A i \in 1 .. 3 : links[n + i] = NavigationLinks[i]
  BY <1>4, WithNavigation
<1> HIDE DEF links, users, n
<1>7. DOMAIN links = 1 .. n + 3
  BY <1>6
<1>8. \A i \in 1 .. n : links[i].rel \notin Managed
  BY <1>4, <1>6
<1>9. /\ links[n + 1] = NavigationLinks[1] /\ links[n + 2] = NavigationLinks[2]
      /\ links[n + 3] = NavigationLinks[3]
  BY <1>4, <1>6
<1>10. \A j \in 1 .. n + 3 : j \in 1 .. n \/ j = n + 1 \/ j = n + 2 \/ j = n + 3
  BY <1>4
<1>11. n + 1 \in 1 .. n + 3 /\ n + 2 \in 1 .. n + 3 /\ n + 3 \in 1 .. n + 3
  BY <1>4
<1> DEFINE Once(i) == /\ links[i].of = "tlon" /\ links[i].rel = rel
                      /\ \A j \in DOMAIN links : links[j].rel = rel => j = i
<1>12. CASE rel = "self"
  <2>1. Once(n + 1)
    BY <1>5, <1>7, <1>8, <1>9, <1>10, <1>12
  <2> QED
    BY <1>1, <1>7, <1>11, <2>1
<1>13. CASE rel = "collection"
  <2>1. Once(n + 2)
    BY <1>5, <1>7, <1>8, <1>9, <1>10, <1>13
  <2> QED
    BY <1>1, <1>7, <1>11, <2>1
<1>14. CASE rel = "profile"
  <2>1. Once(n + 3)
    BY <1>5, <1>7, <1>8, <1>9, <1>10, <1>14
  <2> QED
    BY <1>1, <1>7, <1>11, <2>1
<1> QED
  BY <1>12, <1>13, <1>14 DEF Managed

LEMMA GetPutStable == ASSUME DInv PROVE GetPutIsInvisible
<1> SUFFICES ASSUME stored # Nil
             PROVE  LET shown == Materialize(stored)
                        back == ForPut(shown)
                    IN  /\ Valid(shown) /\ OwnId(shown)
                        /\ Materialize(back) = shown /\ Row(back) = row
                        /\ \A rel \in Managed : \E i \in DOMAIN shown.links :
                               /\ shown.links[i].of = "tlon"
                               /\ \A j \in DOMAIN shown.links : shown.links[j].rel = rel => j = i
                               /\ shown.links[i].rel = rel
  BY DEF GetPutIsInvisible
<1> DEFINE shown == Materialize(stored)
           back == ForPut(shown)
<1>1. IsDocument(stored) /\ Valid(stored) /\ row = Row(stored)
  BY DEF DInv, Documented, Placed
<1>2. IsDocument(shown) /\ shown.time = stored.time
  BY <1>1, ShownIsDocument
<1>3. shown.feature = stored.feature /\ shown.id = "own"
  BY <1>1 DEF Materialize, IsDocument, Fields
<1>4. back.time = stored.time
  <2> HIDE DEF shown
  <2> QED
    BY <1>2, StrippedIsDocument
<1>5. Materialize(back) = shown
  BY <1>1, ShownIsStable
<1>6. \A rel \in Managed : \E i \in DOMAIN shown.links :
         /\ shown.links[i].of = "tlon"
         /\ \A j \in DOMAIN shown.links : shown.links[j].rel = rel => j = i
         /\ shown.links[i].rel = rel
  BY <1>1, NavigationOnce
<1> HIDE DEF shown, back
<1>7. Valid(shown) /\ OwnId(shown) /\ Row(back) = row
  BY <1>1, <1>2, <1>3, <1>4 DEF Valid, OwnId, Row
<1> QED
  BY <1>5, <1>6, <1>7 DEF shown, back

-----------------------------------------------------------------------------

\* A search by datetime finds exactly the records that have a microsecond in common with
\* it, for any documents, patches and queries whose times lie before the horizon.
THEOREM SearchesCorrect == Spec => []SearchesFindWhatOverlaps
BY StoredIsPlaced, SearchesFind, PTL

\* What GET shows may be put back, which changes neither what is shown nor the row, and
\* it names Tlon's links once, for any documents and patches.
THEOREM GetPutCorrect == Spec => []GetPutIsInvisible
BY StoredIsPlaced, GetPutStable, PTL
=============================================================================
