--------------------------- MODULE RingCoreProofs ---------------------------
(***************************************************************************)
(* What every step of the channel core keeps, for every set of subscribers *)
(* and senders and every depth: the ring's shape, the soundness of         *)
(* positions, that every passed message was served or counted once, that   *)
(* no loss goes unreported; and which step of Feed each of them is.        *)
(***************************************************************************)
EXTENDS RingCore, Integers, TLAPS

USE ZenonT(30), SMTT(30)

-----------------------------------------------------------------------------
(* Sequences *)

\* A sequence has a length, and is defined up to it.
LEMMA SeqLen ==
    ASSUME NEW S, NEW s \in Seq(S)
    PROVE  Len(s) \in Nat /\ DOMAIN s = 1..Len(s)
OBVIOUS

\* What a sequence of rows holds is a row.
LEMMA SeqElement ==
    ASSUME NEW S, NEW s \in Seq(S), NEW i \in 1..Len(s)
    PROVE  s[i] \in S
OBVIOUS

\* The empty sequence, and the length of any other.
LEMMA SeqEmpty ==
    ASSUME NEW S
    PROVE  /\ << >> \in Seq(S) /\ Len(<< >>) = 0
           /\ \A s \in Seq(S) : s # << >> => Len(s) \in Nat \ {0}
OBVIOUS

\* Two sequences end to end (append after what is retained).
LEMMA SeqJoined ==
    ASSUME NEW S, NEW s \in Seq(S), NEW t \in Seq(S)
    PROVE  /\ s \o t \in Seq(S) /\ Len(s \o t) = Len(s) + Len(t)
           /\ \A i \in 1..Len(s) + Len(t) :
                 (s \o t)[i] = IF i <= Len(s) THEN s[i] ELSE t[i - Len(s)]
OBVIOUS

\* A contiguous part of a sequence (what a trim or a window keeps).
LEMMA SeqPart ==
    ASSUME NEW S, NEW s, NEW a \in Int, NEW b \in Int, \A i \in a..b : s[i] \in S
    PROVE  /\ SubSeq(s, a, b) \in Seq(S)
           /\ Len(SubSeq(s, a, b)) = IF a <= b THEN b - a + 1 ELSE 0
           /\ \A i \in 1..(b - a + 1) : SubSeq(s, a, b)[i] = s[a + i - 1]
OBVIOUS

-----------------------------------------------------------------------------
(* The ring *)

\* tail and trim: the newest n of a run are a run of the type it had, no
\* longer than n, holding the run's last entries.
LEMMA NewestProperties ==
    ASSUME NEW S, NEW s \in Seq(S), NEW n \in Nat
    PROVE  /\ Newest(s, n) \in Seq(S)
           /\ Len(Newest(s, n)) = IF Len(s) > n THEN n ELSE Len(s)
           /\ \A i \in 1..Len(Newest(s, n)) :
                 Newest(s, n)[i] = s[Len(s) - Len(Newest(s, n)) + i]
<1>0. Len(s) \in Nat BY SeqLen
<1>1. CASE Len(s) > n
    <2>1. Newest(s, n) = SubSeq(s, Len(s) - n + 1, Len(s)) BY <1>1 DEF Newest
    <2>2. \A i \in (Len(s) - n + 1)..Len(s) : s[i] \in S
        BY <1>0, <1>1, SeqElement
    <2>3. /\ SubSeq(s, Len(s) - n + 1, Len(s)) \in Seq(S)
          /\ Len(SubSeq(s, Len(s) - n + 1, Len(s))) =
                IF Len(s) - n + 1 <= Len(s) THEN Len(s) - (Len(s) - n + 1) + 1 ELSE 0
          /\ \A i \in 1..(Len(s) - (Len(s) - n + 1) + 1) :
                SubSeq(s, Len(s) - n + 1, Len(s))[i] = s[Len(s) - n + 1 + i - 1]
        <3> DEFINE m == Len(s) - n + 1
        <3>1. m \in Int /\ Len(s) \in Int BY <1>0
        <3>2. \A i \in m..Len(s) : s[i] \in S BY <2>2
        <3> HIDE DEF m
        <3>3. /\ SubSeq(s, m, Len(s)) \in Seq(S)
              /\ Len(SubSeq(s, m, Len(s))) = IF m <= Len(s) THEN Len(s) - m + 1 ELSE 0
              /\ \A i \in 1..(Len(s) - m + 1) : SubSeq(s, m, Len(s))[i] = s[m + i - 1]
            BY <3>1, <3>2, SeqPart, SMTT(30)
        <3> QED BY <3>3 DEF m
    <2>4. Newest(s, n) \in Seq(S) BY <2>1, <2>3
    <2>5. Len(Newest(s, n)) = n BY <1>0, <1>1, <2>1, <2>3
    <2>6. ASSUME NEW i \in 1..n
          PROVE  Newest(s, n)[i] = s[Len(s) - n + i]
        <3>1. i \in 1..(Len(s) - (Len(s) - n + 1) + 1) BY <1>0
        <3>2. Len(s) - n + 1 + i - 1 = Len(s) - n + i BY <1>0
        <3>3. Newest(s, n)[i] = s[Len(s) - n + 1 + i - 1] BY <2>1, <2>3, <3>1
        <3> QED BY <3>2, <3>3
    <2> QED BY <1>1, <2>4, <2>5, <2>6
<1>2. CASE ~(Len(s) > n)
    <2>1. Newest(s, n) = s BY <1>2 DEF Newest
    <2>2. ASSUME NEW i \in 1..Len(s)
          PROVE  s[i] = s[Len(s) - Len(s) + i]
        <3>1. Len(s) - Len(s) + i = i BY <1>0
        <3> QED BY <3>1
    <2> QED BY <1>2, <2>1, <2>2
<1> QED BY <1>1, <1>2

\* The newest n of a dense run are dense up to the same seq.
LEMMA NewestDense ==
    ASSUME NEW M, NEW s \in Seq(Row(M)), NEW n \in Nat, NEW last \in Int,
           Dense(s, last)
    PROVE  Dense(Newest(s, n), last)
<1> DEFINE t == Newest(s, n)
<1>1. /\ t \in Seq(Row(M))
      /\ Len(t) = IF Len(s) > n THEN n ELSE Len(s)
      /\ \A i \in 1..Len(t) : t[i] = s[Len(s) - Len(t) + i]
    BY NewestProperties
<1>2. Len(s) \in Nat /\ Len(t) \in Nat /\ Len(t) <= Len(s) BY <1>1, SeqLen
<1> HIDE DEF t
<1>3. SUFFICES ASSUME NEW i \in 1..Len(t)
               PROVE  t[i].seq + Len(t) = last + i
    BY DEF Dense, t
<1>4. Len(s) - Len(t) + i \in 1..Len(s) BY <1>2
<1>5. s[Len(s) - Len(t) + i].seq + Len(s) = last + (Len(s) - Len(t) + i)
    BY <1>4 DEF Dense
<1>6. s[Len(s) - Len(t) + i] \in Row(M) BY <1>4, SeqElement
<1>7. s[Len(s) - Len(t) + i].seq \in Nat BY <1>6 DEF Row
<1>8. t[i].seq + Len(s) = last + (Len(s) - Len(t) + i) BY <1>1, <1>5
<1>9. t[i].seq \in Nat BY <1>1, <1>7
<1>10. i \in Int BY <1>2
<1>11. PICK a \in Nat, b \in Nat, x \in Nat : a = Len(s) /\ b = Len(t) /\ x = t[i].seq
    BY <1>2, <1>9
<1>12. x + a = last + (a - b + i) BY ONLY <1>8, <1>11, Zenon
<1>13. x + b = last + i
    BY ONLY <1>12, a \in Nat, b \in Nat, x \in Nat, i \in Int, last \in Int, <1>10
<1> QED BY ONLY <1>11, <1>13, Zenon

\* append: a run of appends to a dense ring leaves a dense ring that ends at
\* the last seq assigned and is within its depth.
LEMMA AppendRunProperties ==
    ASSUME NEW M, NEW s \in Seq(Row(M)), NEW msgs \in Seq(M),
           NEW next \in Nat, NEW d \in Nat, Dense(s, next - 1)
    PROVE  /\ AppendRun(s, msgs, next, d) \in Seq(Row(M))
           /\ Len(AppendRun(s, msgs, next, d)) =
                 IF Len(s) + Len(msgs) > d THEN d ELSE Len(s) + Len(msgs)
           /\ Dense(AppendRun(s, msgs, next, d), next + Len(msgs) - 1)
<1> DEFINE t == Stamped(msgs, next)
           u == s \o t
<1>0. Len(s) \in Nat /\ Len(msgs) \in Nat BY SeqLen
<1>1. /\ t \in Seq(Row(M))
      /\ Len(t) = Len(msgs)
      /\ \A i \in 1..Len(msgs) : t[i] = [seq |-> next + i - 1, message |-> msgs[i]]
    <2>1. \A i \in 1..Len(msgs) : [seq |-> next + i - 1, message |-> msgs[i]] \in Row(M)
        BY <1>0, SeqElement, SMTT(30) DEF Row
    <2> QED BY <1>0, <2>1, SMTT(30) DEF Stamped
<1>1a. t \in Seq(Row(M)) BY <1>1
<1>1b. \A i \in 1..Len(msgs) : t[i].seq = next + i - 1
    <2> HIDE DEF t, u
    <2> TAKE i \in 1..Len(msgs)
    <2>1. t[i] = [seq |-> next + i - 1, message |-> msgs[i]] BY <1>1
    <2> QED BY <2>1
<1>2. /\ u \in Seq(Row(M))
      /\ Len(u) = Len(s) + Len(t)
      /\ \A i \in 1..Len(s) + Len(t) : u[i] = IF i <= Len(s) THEN s[i] ELSE t[i - Len(s)]
    <2> HIDE DEF t
    <2> QED BY <1>1a, SeqJoined
<1> HIDE DEF t, u
<1>2a. Len(u) = Len(s) + Len(msgs) BY <1>1, <1>2
<1>3. Dense(u, next + Len(msgs) - 1)
    <2>1. SUFFICES ASSUME NEW i \in 1..Len(u)
                   PROVE  u[i].seq + Len(u) = next + Len(msgs) - 1 + i
        BY DEF Dense
    <2>2. i \in Nat /\ i >= 1 /\ i <= Len(s) + Len(msgs) BY <1>0, <1>2a
    <2>3. CASE i <= Len(s)
        <3>1. i \in 1..Len(s) BY <2>2, <2>3
        <3>2. s[i].seq + Len(s) = next - 1 + i BY <3>1 DEF Dense
        <3>3. s[i] \in Row(M) BY <3>1, SeqElement
        <3>4. s[i].seq \in Nat BY <3>3 DEF Row
        <3>5. u[i] = s[i] BY <1>1, <1>2, <2>2, <2>3
        <3>6. PICK a \in Nat : a = s[i].seq BY <3>4
        <3>7. a + (Len(s) + Len(msgs)) = next + Len(msgs) - 1 + i
            <4>1. PICK l \in Nat, n \in Nat : l = Len(s) /\ n = Len(msgs) BY <1>0
            <4>2. a + l = next - 1 + i BY <3>2, <3>6, <4>1
            <4>3. a + (l + n) = next + n - 1 + i
                BY ONLY a \in Nat, l \in Nat, n \in Nat, i \in Nat, next \in Nat, <2>2, <4>2
            <4> QED BY <4>1, <4>3
        <3> QED BY <1>2a, <3>5, <3>6, <3>7
    <2>4. CASE ~(i <= Len(s))
        <3>1. i - Len(s) \in 1..Len(msgs) BY <1>0, <2>2, <2>4
        <3>2. u[i] = t[i - Len(s)] BY <1>1, <1>2, <2>2, <2>4
        <3>3. t[i - Len(s)].seq = next + (i - Len(s)) - 1 BY <1>1b, <3>1
        <3>4. u[i].seq = next + (i - Len(s)) - 1 BY <3>2, <3>3
        <3> QED BY <1>0, <1>2a, <2>2, <3>4
    <2> QED BY <2>3, <2>4
<1>4. AppendRun(s, msgs, next, d) = Newest(u, d) BY DEF AppendRun, Trim, u, t
<1>5. next + Len(msgs) - 1 \in Int BY <1>0
<1>6. Dense(Newest(u, d), next + Len(msgs) - 1) BY <1>2, <1>3, <1>5, NewestDense
<1>7. /\ Newest(u, d) \in Seq(Row(M))
      /\ Len(Newest(u, d)) = IF Len(u) > d THEN d ELSE Len(u)
    BY <1>2, NewestProperties
<1> QED BY <1>2a, <1>4, <1>6, <1>7

\* retention_frontier: on a dense ring the frontier is the number of messages
\* ever assigned less the number held, plus one.
LEMMA FrontierOfDense ==
    ASSUME NEW M, NEW s \in Seq(Row(M)), NEW next \in Nat,
           Dense(s, next - 1)
    PROVE  Frontier(s, next) = next - Len(s)
<1>0. Len(s) \in Nat BY SeqLen
<1>1. CASE s = << >> BY <1>1, SeqEmpty DEF Frontier
<1>2. CASE s # << >>
    <2>1. 1 \in 1..Len(s) BY <1>0, <1>2, SeqEmpty
    <2>2. s[1].seq + Len(s) = next - 1 + 1 BY <2>1 DEF Dense
    <2>3a. s[1] \in Row(M) BY <2>1, SeqElement
    <2>3. s[1].seq \in Nat BY <2>3a DEF Row
    <2> QED BY <1>0, <1>2, <2>2, <2>3 DEF Frontier
<1> QED BY <1>1, <1>2

\* trim: what is left of a faithful ring is faithful.
LEMMA NewestFaithful ==
    ASSUME NEW M, NEW s \in Seq(Row(M)), NEW n \in Nat, NEW past, Faithful(s, past)
    PROVE  Faithful(Newest(s, n), past)
<1> DEFINE t == Newest(s, n)
<1>1. /\ t \in Seq(Row(M))
      /\ Len(t) = IF Len(s) > n THEN n ELSE Len(s)
      /\ \A i \in 1..Len(t) : t[i] = s[Len(s) - Len(t) + i]
    BY NewestProperties
<1>2. Len(s) \in Nat /\ Len(t) \in Nat /\ Len(t) <= Len(s) BY <1>1, SeqLen
<1> HIDE DEF t
<1>3. SUFFICES ASSUME NEW i \in 1..Len(t)
               PROVE  t[i].seq \in 1..Len(past) /\ t[i].message = past[t[i].seq]
    BY DEF Faithful, t
<1>4. Len(s) - Len(t) + i \in 1..Len(s) BY <1>2
<1>5. t[i] = s[Len(s) - Len(t) + i] BY <1>1
<1> QED BY <1>4, <1>5 DEF Faithful

-----------------------------------------------------------------------------
(* The deferred vector *)

\* What the argument uses of the sizes of finite sets. It holds of all sets
\* (SizesHold, in RingTheorems), and is carried with the invariant.
Sizes ==
    /\ IsFiniteSet({}) /\ Cardinality({}) = 0
    /\ \A a, b \in Int : /\ IsFiniteSet(a..b)
                         /\ Cardinality(a..b) = IF a > b THEN 0 ELSE b - a + 1
    /\ \A S : IsFiniteSet(S) => Cardinality(S) \in Nat
    /\ \A S, T : IsFiniteSet(S) /\ T \subseteq S
                    => IsFiniteSet(T) /\ Cardinality(T) <= Cardinality(S)
    /\ \A S, T : IsFiniteSet(S) /\ IsFiniteSet(T) /\ S \cap T = {}
                    => /\ IsFiniteSet(S \cup T)
                       /\ Cardinality(S \cup T) = Cardinality(S) + Cardinality(T)

\* A selection of the positions of a vector of n entries.
LEMMA SelectionSize ==
    ASSUME Sizes, NEW n \in Nat, NEW K, K \subseteq 1..n
    PROVE  IsFiniteSet(K) /\ Cardinality(K) \in 0..n
<1>1. 1 \in Int /\ n \in Int OBVIOUS
<1>2. IsFiniteSet(1..n) /\ Cardinality(1..n) = IF 1 > n THEN 0 ELSE n - 1 + 1
    BY <1>1 DEF Sizes
<1>3. Cardinality(1..n) = n BY <1>2
<1>4. IsFiniteSet(K) /\ Cardinality(K) <= Cardinality(1..n) BY <1>2 DEF Sizes
<1>5. Cardinality(K) \in Nat BY <1>4 DEF Sizes
<1> QED BY <1>3, <1>4, <1>5

\* position_for lands within the vector, so an insertion keeps its type.
LEMMA InsertedType ==
    ASSUME Sizes, NEW S, NEW d \in Seq(S), NEW e \in S
    PROVE  Inserted(d, e) \in Seq(S)
<1> DEFINE K == {i \in 1..Len(d) : DueBefore(d[i], e)}
           k == Cardinality(K)
<1>0. Len(d) \in Nat BY SeqLen
<1>1. k \in Nat /\ k <= Len(d)
    <2>1. K \subseteq 1..Len(d) OBVIOUS
    <2>2. Cardinality(K) \in 0..Len(d) BY <1>0, <2>1, SelectionSize
    <2> QED BY <1>0, <2>2
<1>2. Inserted(d, e) = SubSeq(d, 1, k) \o <<e>> \o SubSeq(d, k + 1, Len(d))
    BY DEF Inserted
<1> HIDE DEF k
<1>3. SubSeq(d, 1, k) \in Seq(S) BY <1>0, <1>1, SeqElement, SeqPart, SMTT(30)
<1>4. SubSeq(d, k + 1, Len(d)) \in Seq(S)
    <2>1. \A i \in (k + 1)..Len(d) : d[i] \in S BY <1>0, <1>1, SeqElement
    <2>2. k + 1 \in Int /\ Len(d) \in Int BY <1>0, <1>1
    <2> QED BY <2>1, <2>2, SeqPart
<1>5. <<e>> \in Seq(S) OBVIOUS
<1>6. SubSeq(d, 1, k) \o <<e>> \in Seq(S) BY <1>3, <1>5, SeqJoined
<1> QED BY <1>2, <1>4, <1>6, SeqJoined

\* Removing the i-th parked entry, as cancel and edit do, leaves a deferred set.
LEMMA WithoutType ==
    ASSUME NEW S, NEW d \in Seq(S), NEW i \in 1..Len(d)
    PROVE  Without(d, i) \in Seq(S)
<1>0. Len(d) \in Nat BY SeqLen
<1>1. SubSeq(d, 1, i - 1) \in Seq(S)
    <2>1. \A j \in 1..(i - 1) : d[j] \in S BY <1>0, SeqElement
    <2>2. 1 \in Int /\ i - 1 \in Int BY <1>0
    <2> QED BY <2>1, <2>2, SeqPart
<1>2. SubSeq(d, i + 1, Len(d)) \in Seq(S)
    <2>1. \A j \in (i + 1)..Len(d) : d[j] \in S BY <1>0, SeqElement
    <2>2. i + 1 \in Int /\ Len(d) \in Int BY <1>0
    <2> QED BY <2>1, <2>2, SeqPart
<1> QED BY <1>1, <1>2, SeqJoined DEF Without

-----------------------------------------------------------------------------
(* The ring *)

\* The facts about the ring that everything else rests on.
RingInv ==
    /\ depth \in Nat /\ next_seq \in Nat \ {0} /\ entries \in Seq(Entry)
    /\ log \in Seq(Nat)
    /\ RetainedIsDenseSuffix

\* A run of appends keeps the ring a dense suffix of the log.
LEMMA AppendAllRing ==
    \A msgs \in Seq(Nat) :
        RingInv /\ AppendAll(msgs) =>
            RingInv'
\* append: the entries a run of appends leaves are faithful to the log the
\* run was added to.
<1>AppendRunFaithful. ASSUME NEW M, NEW s \in Seq(Row(M)), NEW msgs \in Seq(M), NEW past \in Seq(M),
             NEW d \in Nat, Faithful(s, past)
      PROVE  Faithful(AppendRun(s, msgs, Len(past) + 1, d), past \o msgs)
    <2> USE <1>AppendRunFaithful
    <2> DEFINE next == Len(past) + 1
               t == Stamped(msgs, next)
               u == s \o t
               l == past \o msgs
    <2>0. Len(s) \in Nat /\ Len(msgs) \in Nat /\ Len(past) \in Nat /\ next \in Nat
        BY SeqLen
    <2>1. /\ l \in Seq(M)
          /\ Len(l) = Len(past) + Len(msgs)
          /\ \A i \in 1..Len(past) + Len(msgs) :
                l[i] = IF i <= Len(past) THEN past[i] ELSE msgs[i - Len(past)]
        BY SeqJoined
    <2>2. t = [i \in 1..Len(msgs) |-> [seq |-> next + i - 1, message |-> msgs[i]]]
        BY DEF Stamped
    <2> HIDE DEF next
    <2>3. t \in Seq(Row(M)) /\ Len(t) = Len(msgs)
        <3>1. \A i \in 1..Len(msgs) : [seq |-> next + i - 1, message |-> msgs[i]] \in Row(M)
            BY <2>0, SeqElement, SMTT(30) DEF Row
        <3> QED BY <2>0, <2>2, <3>1, SMTT(30)
    <2>4. /\ u \in Seq(Row(M))
          /\ Len(u) = Len(s) + Len(t)
          /\ \A i \in 1..Len(s) + Len(t) : u[i] = IF i <= Len(s) THEN s[i] ELSE t[i - Len(s)]
        <3>1. t \in Seq(Row(M)) BY <2>3
        <3> HIDE DEF t
        <3> QED BY <3>1, SeqJoined
    <2>5. AppendRun(s, msgs, next, d) = Newest(u, d) BY DEF AppendRun, Trim
    <2> HIDE DEF t, u, l
    <2>6. ASSUME NEW j \in 1..Len(u)
          PROVE  u[j].seq \in 1..Len(l) /\ u[j].message = l[u[j].seq]
        <3>0. j \in Nat /\ j >= 1 /\ j <= Len(s) + Len(msgs) BY <2>0, <2>3, <2>4
        <3>1. CASE j <= Len(s)
            <4>1. u[j] = s[j] BY <2>3, <2>4, <3>0, <3>1
            <4>2. s[j].seq \in 1..Len(past) /\ s[j].message = past[s[j].seq]
                BY <3>0, <3>1, SMTT(30) DEF Faithful
            <4>3. s[j].seq \in 1..Len(past) + Len(msgs) /\ s[j].seq <= Len(past)
                BY <2>0, <4>2
            <4>4. l[s[j].seq] = past[s[j].seq] BY <2>1, <4>3
            <4> QED BY <2>1, <4>1, <4>2, <4>3, <4>4
        <3>2. CASE ~(j <= Len(s))
            <4> DEFINE m == j - Len(s)
            <4>1. m \in 1..Len(msgs) BY <2>0, <3>0, <3>2
            <4>2. u[j] = t[m] BY <2>3, <2>4, <3>0, <3>2
            <4>3. t[m] = [seq |-> next + m - 1, message |-> msgs[m]] BY <2>2, <4>1
            <4> HIDE DEF m
            <4>4. next + m - 1 = Len(past) + m BY <2>0, <4>1 DEF next
            <4>5. u[j].seq = Len(past) + m /\ u[j].message = msgs[m] BY <4>2, <4>3, <4>4
            <4>6. /\ Len(past) + m \in 1..Len(past) + Len(msgs)
                  /\ ~(Len(past) + m <= Len(past))
                  /\ Len(past) + m - Len(past) = m
                BY <2>0, <4>1
            <4> DEFINE q == Len(past) + m
            <4>7. l[q] = msgs[m]
                <5> HIDE DEF q
                <5>1. q \in 1..Len(past) + Len(msgs) /\ ~(q <= Len(past)) /\ q - Len(past) = m
                    BY <2>0, <4>1 DEF q
                <5>2. l[q] = msgs[q - Len(past)] BY <2>1, <5>1
                <5> QED BY <5>1, <5>2
            <4> QED BY <2>1, <4>5, <4>6, <4>7
        <3> QED BY <3>1, <3>2
    <2>7. Faithful(u, l) BY <2>6 DEF Faithful
    <2>8. Faithful(Newest(u, d), l) BY <2>4, <2>7, NewestFaithful
    <2> QED BY <2>5, <2>8 DEF next, l
<1> SUFFICES ASSUME RingInv, NEW msgs \in Seq(Nat), AppendAll(msgs)
             PROVE  RingInv'
    OBVIOUS
<1>0. /\ Len(msgs) \in Nat /\ Len(log) \in Nat /\ Len(entries) \in Nat
      /\ depth \in Nat /\ next_seq \in Nat \ {0} /\ entries \in Seq(Entry) /\ log \in Seq(Nat)
    BY SeqLen DEF RingInv
<1>1. /\ entries' \in Seq(Row(Nat))
      /\ Len(entries') = IF Len(entries) + Len(msgs) > depth
                         THEN depth ELSE Len(entries) + Len(msgs)
      /\ Dense(entries', next_seq + Len(msgs) - 1)
    <2>1. Dense(entries, next_seq - 1) BY DEF RingInv, RetainedIsDenseSuffix
    <2>2. entries' = AppendRun(entries, msgs, next_seq, depth) BY DEF AppendAll
    <2>3. entries \in Seq(Row(Nat)) /\ next_seq \in Nat BY <1>0 DEF Entry
    <2>4. /\ AppendRun(entries, msgs, next_seq, depth) \in Seq(Row(Nat))
          /\ Len(AppendRun(entries, msgs, next_seq, depth)) =
                IF Len(entries) + Len(msgs) > depth THEN depth ELSE Len(entries) + Len(msgs)
          /\ Dense(AppendRun(entries, msgs, next_seq, depth), next_seq + Len(msgs) - 1)
        BY <1>0, <2>1, <2>3, AppendRunProperties
    <2> QED BY <2>2, <2>4
<1>2. /\ log' \in Seq(Nat)
      /\ Len(log') = Len(log) + Len(msgs)
      /\ \A i \in 1..Len(log) + Len(msgs) :
            log'[i] = IF i <= Len(log) THEN log[i] ELSE msgs[i - Len(log)]
    BY <1>0, SeqJoined DEF AppendAll
<1>3. next_seq' = next_seq + Len(msgs) /\ depth' = depth BY DEF AppendAll
<1>4. Faithful(entries', log')
    <2>1. Len(log) + 1 = next_seq /\ Faithful(entries, log)
        BY DEF RingInv, RetainedIsDenseSuffix
    <2>2. Faithful(AppendRun(entries, msgs, Len(log) + 1, depth), log \o msgs)
        BY <1>0, <2>1, <1>AppendRunFaithful DEF Entry
    <2> QED BY <2>1, <2>2 DEF AppendAll
<1>5. Len(entries') <= depth' BY <1>0, <1>1, <1>3
<1>6. Len(log') + 1 = next_seq' /\ Len(entries') < next_seq'
    <2>1. Len(log) + 1 = next_seq /\ Len(entries) < next_seq
        BY DEF RingInv, RetainedIsDenseSuffix
    <2>2. Len(entries') \in Nat /\ Len(entries') <= Len(entries) + Len(msgs)
        BY <1>0, <1>1
    <2> QED BY <1>0, <1>2, <1>3, <2>1, <2>2
<1>7. next_seq' \in Nat \ {0} /\ depth' \in Nat BY <1>0, <1>3
<1>8. Dense(entries', next_seq' - 1)
    <2>1. next_seq' - 1 = next_seq + Len(msgs) - 1 BY <1>0, <1>3
    <2> QED BY <1>1, <2>1
<1> QED BY <1>1, <1>2, <1>4, <1>5, <1>6, <1>7, <1>8 DEF RingInv, RetainedIsDenseSuffix, Entry

\* The frontier of the channel's ring.
LEMMA RingFrontier ==
    ASSUME RingInv
    PROVE  /\ Len(entries) \in Nat /\ Len(entries) < next_seq
           /\ Frontier(entries, next_seq) = next_seq - Len(entries)
           /\ Frontier(entries, next_seq) \in Nat
<1>1. /\ entries \in Seq(Row(Nat)) /\ Len(entries) \in Nat /\ next_seq \in Nat
      /\ Dense(entries, next_seq - 1) /\ Len(entries) < next_seq
    BY SeqLen DEF RingInv, Entry, RetainedIsDenseSuffix
<1>2. Frontier(entries, next_seq) = next_seq - Len(entries) BY <1>1, FrontierOfDense
<1> QED BY <1>1, <1>2

\* The same of the next state's ring.
LEMMA RingFrontierNext ==
    ASSUME RingInv'
    PROVE  /\ Len(entries') \in Nat /\ Len(entries') < next_seq'
           /\ Frontier(entries', next_seq') = next_seq' - Len(entries')
           /\ Frontier(entries', next_seq') \in Nat
<1>1. /\ entries' \in Seq(Row(Nat)) /\ next_seq' \in Nat
      /\ Dense(entries', next_seq' - 1) /\ Len(entries') < next_seq'
    BY DEF RingInv, Entry, RetainedIsDenseSuffix
<1>2. Len(entries') \in Nat BY <1>1, SeqLen
<1>3. Frontier(entries', next_seq') = next_seq' - Len(entries') BY <1>1, FrontierOfDense
<1> QED BY <1>1, <1>2, <1>3

-----------------------------------------------------------------------------
(* Types *)

\* Every charge is a natural number.
LEMMA SatType ==
    ASSUME NEW a \in Nat, NEW b \in Nat
    PROVE  Sat(a, b) \in Nat /\ Larger(a, b) \in Nat
BY DEF Sat, Larger

\* A run of appends keeps the types of the ring and of the charges.
LEMMA AppendAllType ==
    ASSUME TypeOK, RingInv, NEW msgs \in Seq(Nat), AppendAll(msgs)
    PROVE  /\ depth' \in Nat /\ next_seq' \in Nat /\ entries' \in Seq(Entry)
           /\ log' \in Seq(Nat) /\ evicted' \in [Subscribers -> Nat]
<1>1. RingInv' BY AppendAllRing
<1>2. Frontier(entries, next_seq) \in Nat BY RingFrontier
<1>3. Frontier(entries', next_seq') \in Nat BY <1>1, RingFrontierNext
<1>4. \A s \in Subscribers :
         EvictedSince(s, Frontier(entries, next_seq), Frontier(entries', next_seq')) \in Nat
    BY <1>2, <1>3, SatType DEF EvictedSince, TypeOK
<1>5. evicted \in [Subscribers -> Nat] BY DEF TypeOK
<1>6. evicted' \in [Subscribers -> Nat]
    <2>1. CASE depth = 0 BY <1>5, <2>1 DEF AppendAll
    <2>2. CASE depth # 0
        <3>1. ChargeOverflow BY <2>2 DEF AppendAll
        <3> QED BY <1>4, <1>5, <3>1, SMTT(30) DEF ChargeOverflow
    <2> QED BY <2>1, <2>2
<1> QED BY <1>1, <1>6 DEF RingInv

-----------------------------------------------------------------------------
(* Arithmetic of the ledgers *)

\* The seqs a dense window carries are exactly those from its first to its
\* last.
LEMMA DenseWindow ==
    ASSUME NEW w \in Seq(Row(Nat)), w # << >>, Dense(w, Through(w))
    PROVE  /\ Through(w) \in Nat /\ SeenFloor(w) \in Nat
           /\ SeenFloor(w) <= Through(w)
           /\ {w[i].seq : i \in 1..Len(w)} = SeenFloor(w)..Through(w)
<1>0. Len(w) \in Nat /\ Len(w) >= 1 BY SeqEmpty, SeqLen
<1>1. \A i \in 1..Len(w) : w[i].seq \in Nat
    <2> TAKE i \in 1..Len(w)
    <2>1. w[i] \in Row(Nat) BY SeqElement
    <2> QED BY <2>1 DEF Row
<1>2. \A i \in 1..Len(w) : w[i].seq + Len(w) = Through(w) + i BY DEF Dense
<1>3. Through(w) \in Nat /\ SeenFloor(w) \in Nat
    BY <1>0, <1>1 DEF Through, SeenFloor
<1>4. SeenFloor(w) + Len(w) = Through(w) + 1 BY <1>0, <1>2 DEF SeenFloor
<1>5. ASSUME NEW q \in SeenFloor(w)..Through(w)
      PROVE  q \in {w[i].seq : i \in 1..Len(w)}
    <2> DEFINE i == q + 1 - SeenFloor(w)
    <2>1. i \in 1..Len(w) BY <1>0, <1>3, <1>4
    <2>2. i \in Nat /\ q \in Nat BY <1>3, <2>1
    <2>3. Through(w) + i = q + Len(w) BY <1>0, <1>3, <1>4, <2>2
    <2> HIDE DEF i
    <2>4. w[i].seq = q BY <1>0, <1>1, <1>2, <2>1, <2>2, <2>3
    <2> QED BY <2>1, <2>4
<1>6. ASSUME NEW i \in 1..Len(w)
      PROVE  w[i].seq \in SeenFloor(w)..Through(w)
    BY <1>0, <1>1, <1>2, <1>3, <1>4
<1> QED BY <1>0, <1>3, <1>4, <1>5, <1>6

\* The ledger of a position created at b and now at n: S served, D dropped.
Settled(S, b, n, D) ==
    /\ S \in SUBSET Nat /\ IsFiniteSet(S) /\ b \in Nat /\ n \in Nat /\ D \in Nat
    /\ b <= n /\ S \subseteq b..(n - 1) /\ Cardinality(S) + D = n - b

-----------------------------------------------------------------------------
(* The inductive invariant *)

\* A window a reader still holds is a dense run of seqs the channel has
\* assigned, however long ago it was cut.
WindowsAreDense ==
    \A s \in Subscribers : window[s] # << >> =>
        /\ Dense(window[s], Through(window[s]))
        /\ Through(window[s]) < next_seq

ServedIsFinite == \A s \in attached : IsFiniteSet(served[s])

Core == Sizes /\ TypeOK /\ RingInv /\ PositionsAreSound /\ WindowsAreDense
        /\ ServedIsFinite /\ ServedOrDroppedOnce

IndInv == Core /\ NoLossUnreported

\* A channel as constructed (an empty ring, no cursor, nothing parked) satisfies
\* the inductive invariant and owes no loss.
LEMMA InitEstablishes == Sizes /\ Init => IndInv /\ EachLossReportedOnce
<1> SUFFICES ASSUME Sizes, Init PROVE IndInv /\ EachLossReportedOnce OBVIOUS
<1> USE DEF Init
<1>1. TypeOK BY DepthsAssumption DEF TypeOK
<1>2. RingInv
    <2>1. depth \in Nat BY DepthsAssumption
    <2>2. Len(entries) = 0 /\ Len(log) = 0 OBVIOUS
    <2> QED BY <1>1, <2>1, <2>2 DEF TypeOK, RingInv, RetainedIsDenseSuffix, Dense, Faithful
<1>3. PositionsAreSound BY DEF PositionsAreSound
<1>4. WindowsAreDense BY DEF WindowsAreDense
<1> QED BY <1>1, <1>2, <1>3, <1>4
    DEF IndInv, Core, ServedIsFinite, ServedOrDroppedOnce, NoLossUnreported, EachLossReportedOnce

-----------------------------------------------------------------------------
(* Steps that only change what is retained *)

\* What a run of appends and a retune have in common: positions, windows and
\* ledgers stay, the frontier only rises, and every position is charged for
\* its rise.
Retires ==
    /\ RingInv' /\ next_seq <= next_seq'
    /\ Frontier(entries, next_seq) <= Frontier(entries', next_seq')
    /\ UNCHANGED <<cursorVars, window, floor, ledgerVars>>
    /\ evicted' \in [Subscribers -> Nat]
    /\ attached # {} => depth' # 0 /\ ChargeOverflow

\* A step that only moves the ring and charges evictions keeps every cursor
\* invariant.
LEMMA RetiresKeepsCore ==
    ASSUME Core, Retires
    PROVE  /\ RingInv' /\ PositionsAreSound' /\ WindowsAreDense'
           /\ ServedIsFinite' /\ ServedOrDroppedOnce'
<1> USE DEF Retires, cursorVars, ledgerVars
<1>1. next_seq \in Nat /\ next_seq' \in Nat BY DEF Core, RingInv
<1>2. PositionsAreSound'
    BY <1>1 DEF Core, TypeOK, PositionsAreSound
<1>3. WindowsAreDense'
    <2> SUFFICES ASSUME NEW s \in Subscribers, window[s] # << >>
                 PROVE  /\ Dense(window[s], Through(window[s]))
                        /\ Through(window[s]) < next_seq'
        BY DEF WindowsAreDense
    <2>1. Dense(window[s], Through(window[s])) /\ Through(window[s]) < next_seq
        BY DEF Core, WindowsAreDense
    <2>2. Through(window[s]) \in Nat
        BY <2>1, DenseWindow DEF Core, TypeOK, Entry
    <2> QED BY <1>1, <2>1, <2>2
<1>4. ServedIsFinite' /\ ServedOrDroppedOnce'
    BY DEF Core, ServedIsFinite, ServedOrDroppedOnce
<1> QED BY <1>2, <1>3, <1>4

\* A step that charges each attached cursor the retired messages it had not
\* passed keeps both loss ledgers in balance.
LEMMA RetiresKeepsReports ==
    Core /\ Retires =>
        /\ NoLossUnreported => NoLossUnreported'
        /\ EachLossReportedOnce => EachLossReportedOnce'
\* An eviction's charge covers what it makes outstanding, and no more.
<1>EvictionCovers. ASSUME NEW n \in Nat, NEW f \in Nat, NEW g \in Nat, f <= g
      PROVE  Sat(f, n) + Sat(g, Larger(n, f)) = Sat(g, n)
    BY <1>EvictionCovers DEF Sat, Larger
<1> SUFFICES ASSUME Core, Retires
             PROVE  /\ NoLossUnreported => NoLossUnreported'
                    /\ EachLossReportedOnce => EachLossReportedOnce'
    OBVIOUS
<1> DEFINE f == Frontier(entries, next_seq)
           g == Frontier(entries', next_seq')
<1>1. f \in Nat /\ g \in Nat /\ f <= g
    BY RingFrontier, RingFrontierNext DEF Core, Retires
<1>2. /\ attached' = attached /\ next_owed' = next_owed /\ push_depth' = push_depth
      /\ dropped' = dropped /\ noise' = noise
    BY DEF Retires, cursorVars, ledgerVars
<1>3. ASSUME NEW s \in attached
      PROVE  /\ next_owed[s] \in Nat /\ evicted[s] \in Nat /\ noise[s] \in Nat /\ dropped[s] \in Nat
             /\ evicted'[s] = evicted[s] + Sat(g, Larger(next_owed[s], f))
             /\ Outstanding(s) = Sat(f, next_owed[s])
             /\ Outstanding(s)' = Sat(g, next_owed[s])
    <2>1. s \in Subscribers /\ push_depth[s] > 0
        BY DEF Core, TypeOK, PositionsAreSound
    <2>2. /\ next_owed[s] \in Nat /\ evicted[s] \in Nat /\ noise[s] \in Nat /\ dropped[s] \in Nat
        BY <2>1 DEF Core, TypeOK
    <2>3. evicted'[s] = evicted[s] + EvictedSince(s, f, g)
        BY <2>1 DEF Retires, ChargeOverflow
    <2>4. EvictedSince(s, f, g) = Sat(g, Larger(next_owed[s], f))
        BY <2>1 DEF EvictedSince
    <2> QED BY <1>2, <2>2, <2>3, <2>4 DEF Outstanding
<1> HIDE DEF f, g
<1>4. ASSUME NEW s \in attached
      PROVE  /\ Sat(f, next_owed[s]) \in Nat /\ Sat(g, next_owed[s]) \in Nat
             /\ Sat(g, Larger(next_owed[s], f)) \in Nat
             /\ Sat(f, next_owed[s]) + Sat(g, Larger(next_owed[s], f)) = Sat(g, next_owed[s])
    BY <1>1, <1>3, SatType, <1>EvictionCovers
<1>5. ASSUME NoLossUnreported, NEW s \in attached
      PROVE  evicted'[s] + noise[s] >= dropped[s] + Outstanding(s)'
    <2>1. evicted[s] + noise[s] >= dropped[s] + Outstanding(s) BY <1>5 DEF NoLossUnreported
    <2> QED BY <1>3, <1>4, <2>1
<1>6. ASSUME EachLossReportedOnce, NEW s \in attached
      PROVE  evicted'[s] + noise[s] = dropped[s] + Outstanding(s)'
    <2>1. evicted[s] + noise[s] = dropped[s] + Outstanding(s) BY <1>6 DEF EachLossReportedOnce
    <2> QED BY <1>3, <1>4, <2>1
<1>7. NoLossUnreported => NoLossUnreported' BY <1>2, <1>5 DEF NoLossUnreported
<1>8. EachLossReportedOnce => EachLossReportedOnce' BY <1>2, <1>6 DEF EachLossReportedOnce
<1> QED BY <1>7, <1>8

\* RingCore::append and release_due: appending a run is such a step.
LEMMA AppendAllRetires ==
    ASSUME Core, NEW msgs \in Seq(Nat), AppendAll(msgs),
           UNCHANGED <<cursorVars, window, floor, ledgerVars>>
    PROVE  Retires
<1>1. RingInv /\ TypeOK BY DEF Core
<1>2. RingInv' BY <1>1, AppendAllRing
<1>3. evicted' \in [Subscribers -> Nat] BY <1>1, AppendAllType
<1>4. next_seq' = next_seq + Len(msgs) /\ depth' = depth
      /\ entries' = AppendRun(entries, msgs, next_seq, depth)
    BY DEF AppendAll
<1>5. Len(msgs) \in Nat /\ Len(entries) \in Nat /\ next_seq \in Nat /\ depth \in Nat
    BY <1>1, SeqLen DEF RingInv
<1>6. Len(entries') <= Len(entries) + Len(msgs)
    <2>1. entries \in Seq(Row(Nat)) /\ Dense(entries, next_seq - 1)
        BY <1>1 DEF RingInv, Entry, RetainedIsDenseSuffix
    <2>2. Len(AppendRun(entries, msgs, next_seq, depth)) =
            IF Len(entries) + Len(msgs) > depth THEN depth ELSE Len(entries) + Len(msgs)
        BY <1>5, <2>1, AppendRunProperties, SMTT(30)
    <2> QED BY <1>4, <1>5, <2>2
<1>7. Frontier(entries, next_seq) <= Frontier(entries', next_seq')
    <2>1. Frontier(entries, next_seq) = next_seq - Len(entries) BY <1>1, RingFrontier
    <2>2. Frontier(entries', next_seq') = next_seq' - Len(entries') /\ Len(entries') \in Nat
        BY <1>2, RingFrontierNext
    <2> QED BY <1>4, <1>5, <1>6, <2>1, <2>2
<1>8. attached # {} => depth' # 0 /\ ChargeOverflow
    BY <1>4 DEF Core, PositionsAreSound, AppendAll
<1> QED BY <1>2, <1>3, <1>4, <1>5, <1>7, <1>8 DEF Retires

\* RingCore::set_depth: so is retuning the depth, which may trim.
LEMMA SetDepthRetires ==
    \A d \in Nat :
        Core /\ SetDepth(d) =>
            Retires
\* A retune trims the ring in place.
<1>SetDepthRing. ASSUME RingInv, NEW d \in Nat, SetDepth(d)
      PROVE  RingInv'
    <2> USE <1>SetDepthRing
    <2>0. /\ entries \in Seq(Row(Nat)) /\ Len(entries) \in Nat /\ next_seq \in Nat \ {0}
          /\ next_seq - 1 \in Int
        BY SeqLen DEF RingInv, Entry
    <2>1. entries' = Newest(entries, d) /\ depth' = d /\ next_seq' = next_seq /\ log' = log
        BY DEF SetDepth, Trim
    <2>2. /\ Newest(entries, d) \in Seq(Row(Nat))
          /\ Len(Newest(entries, d)) = IF Len(entries) > d THEN d ELSE Len(entries)
        BY <2>0, NewestProperties
    <2>3. Dense(Newest(entries, d), next_seq - 1) /\ Faithful(Newest(entries, d), log)
        BY <2>0, NewestDense, NewestFaithful DEF RingInv, RetainedIsDenseSuffix
    <2>4. Len(entries') <= d /\ Len(entries') < next_seq
        BY <2>0, <2>1, <2>2 DEF RingInv, RetainedIsDenseSuffix
    <2> QED BY <2>1, <2>2, <2>3, <2>4 DEF RingInv, RetainedIsDenseSuffix, Entry
<1> SUFFICES ASSUME Core, NEW d \in Nat, SetDepth(d)
             PROVE  Retires
    OBVIOUS
<1>1. RingInv /\ TypeOK BY DEF Core
<1>2. RingInv' BY <1>1, <1>SetDepthRing
<1>3. next_seq' = next_seq /\ depth' = d /\ entries' = Newest(entries, d)
    BY DEF SetDepth, Trim
<1>4. Frontier(entries, next_seq) = next_seq - Len(entries) /\ Len(entries) \in Nat
      /\ Frontier(entries, next_seq) \in Nat /\ next_seq \in Nat
    BY <1>1, RingFrontier DEF RingInv
<1>5. Frontier(entries', next_seq') = next_seq' - Len(entries') /\ Len(entries') \in Nat
      /\ Frontier(entries', next_seq') \in Nat
    BY <1>2, RingFrontierNext
<1>6. Len(entries') <= Len(entries)
    <2>1. entries \in Seq(Entry) BY <1>1 DEF RingInv
    <2>2. Len(Newest(entries, d)) = IF Len(entries) > d THEN d ELSE Len(entries)
        BY <2>1, NewestProperties
    <2> QED BY <1>3, <1>4, <2>2
<1>7. Frontier(entries, next_seq) <= Frontier(entries', next_seq')
    BY <1>3, <1>4, <1>5, <1>6
<1>8. ChargeOverflow BY DEF SetDepth
<1>9. evicted' \in [Subscribers -> Nat]
    <2>1. \A s \in Subscribers :
            EvictedSince(s, Frontier(entries, next_seq), Frontier(entries', next_seq')) \in Nat
        BY <1>1, <1>4, <1>5, SatType DEF EvictedSince, TypeOK
    <2>2. evicted \in [Subscribers -> Nat] BY <1>1 DEF TypeOK
    <2> QED BY <1>8, <2>1, <2>2, SMTT(30) DEF ChargeOverflow
<1> QED BY <1>2, <1>3, <1>4, <1>7, <1>8, <1>9 DEF Retires, SetDepth

\* A publish (RingStore::append, the client's append_minted).
LEMMA AppendMessageStep ==
    ASSUME Core, AppendMessage
    PROVE  Core' /\ Retires
<1>1. TypeOK /\ RingInv BY DEF Core
<1>2. <<minted + 1>> \in Seq(Nat) /\ minted \in Nat BY <1>1, SMTT(30) DEF TypeOK
<1>3. AppendAll(<<minted + 1>>) BY DEF AppendMessage
<1>4. Retires BY <1>2, <1>3, AppendAllRetires DEF AppendMessage
<1>5. /\ depth' \in Nat /\ next_seq' \in Nat /\ entries' \in Seq(Entry)
      /\ log' \in Seq(Nat) /\ evicted' \in [Subscribers -> Nat]
    BY <1>1, <1>2, <1>3, AppendAllType
<1>6. TypeOK'
    BY SMTT(20), <1>1, <1>2, <1>5
    DEF TypeOK, AppendMessage, cursorVars, deferredVars, ledgerVars
<1> QED BY <1>4, <1>6, RetiresKeepsCore DEF Core

\* A depth retune (RingCore::set_depth).
LEMMA SetDepthStep ==
    ASSUME Core, NEW d \in Depths, SetDepth(d)
    PROVE  Core' /\ Retires
<1>1. TypeOK /\ RingInv /\ d \in Nat BY DepthsAssumption DEF Core
<1>2. Retires BY <1>1, SetDepthRetires
<1>3. TypeOK'
    BY <1>1, <1>2
    DEF TypeOK, SetDepth, cursorVars, deferredVars, ledgerVars, Retires, RingInv
<1> QED BY <1>2, <1>3, RetiresKeepsCore DEF Core

\* A release of the due prefix of the deferred set (RingStore::release_due).
LEMMA ReleaseDueStep ==
    Core /\ ReleaseDue =>
        Core' /\ Retires
\* take_while counts a prefix of the vector.
<1>DueCountBound. ASSUME Sizes, NEW S, NEW d \in Seq(S), NEW t
      PROVE  DueCount(d, t) \in 0..Len(d)
    <2> USE <1>DueCountBound
    <2> DEFINE K == {i \in 1..Len(d) : \A j \in 1..i : d[j].release_at <= t}
    <2>0. Len(d) \in Nat BY SeqLen
    <2>1. K \subseteq 1..Len(d) OBVIOUS
    <2>2. Cardinality(K) \in 0..Len(d) BY <2>0, <2>1, SelectionSize
    <2> QED BY <2>2 DEF DueCount
<1> SUFFICES ASSUME Core, ReleaseDue
             PROVE  Core' /\ Retires
    OBVIOUS
<1> DEFINE k == DueCount(deferred, now)
           msgs == [i \in 1..k |-> deferred[i].message]
<1>1. TypeOK /\ RingInv /\ deferred \in Seq(DeferredEntry) BY DEF Core, TypeOK
<1>S. Sizes BY DEF Core
<1>2. k \in 0..Len(deferred) /\ Len(deferred) \in Nat
    BY <1>1, <1>S, <1>DueCountBound, SeqLen
<1>3. AppendAll(msgs) /\ deferred' = SubSeq(deferred, k + 1, Len(deferred)) BY DEF ReleaseDue
<1> HIDE DEF k
<1>4. msgs \in Seq(Nat)
    <2>1. \A i \in 1..k : deferred[i].message \in Nat
        <3> TAKE i \in 1..k
        <3>1. i \in 1..Len(deferred) BY <1>2
        <3>2. deferred[i] \in DeferredEntry BY <1>1, <3>1, SeqElement
        <3> QED BY <3>2 DEF DeferredEntry
    <2>2. k \in Nat BY <1>2
    <2> QED BY <2>1, <2>2
<1> HIDE DEF msgs
<1>5. Retires BY <1>3, <1>4, AppendAllRetires DEF ReleaseDue
<1>6. /\ depth' \in Nat /\ next_seq' \in Nat /\ entries' \in Seq(Entry)
      /\ log' \in Seq(Nat) /\ evicted' \in [Subscribers -> Nat]
    BY <1>1, <1>3, <1>4, AppendAllType
<1>7. deferred' \in Seq(DeferredEntry)
    <2>1. \A i \in (k + 1)..Len(deferred) : deferred[i] \in DeferredEntry
        BY <1>1, <1>2, SeqElement
    <2>2. k + 1 \in Int /\ Len(deferred) \in Int BY <1>2
    <2>3. SubSeq(deferred, k + 1, Len(deferred)) \in Seq(DeferredEntry)
        BY <2>1, <2>2, SeqPart
    <2> QED BY <1>3, <2>3
<1>8. TypeOK'
    BY <1>1, <1>6, <1>7 DEF TypeOK, ReleaseDue, cursorVars, ledgerVars
<1> QED BY <1>5, <1>8, RetiresKeepsCore DEF Core

-----------------------------------------------------------------------------
(* Steps of the deferred set and of the clock *)

\* They leave the ring, the positions, the windows and the books alone.
Parks == UNCHANGED <<ringVars, cursorVars, window, floor, ledgerVars, evicted>>

\* A step that touches only the deferred set and the clock disturbs no cursor.
LEMMA ParksKeeps ==
    ASSUME Core, Parks, TypeOK'
    PROVE  /\ Core'
           /\ NoLossUnreported => NoLossUnreported'
           /\ EachLossReportedOnce => EachLossReportedOnce'
<1> USE DEF Parks, ringVars, cursorVars, ledgerVars
<1>1. RingInv' BY DEF Core, RingInv, RetainedIsDenseSuffix
<1>2. PositionsAreSound' BY DEF Core, PositionsAreSound
<1>3. WindowsAreDense' BY DEF Core, WindowsAreDense
<1>4. ServedIsFinite' /\ ServedOrDroppedOnce'
    BY DEF Core, ServedIsFinite, ServedOrDroppedOnce
<1>5. /\ NoLossUnreported => NoLossUnreported'
      /\ EachLossReportedOnce => EachLossReportedOnce'
    BY DEF NoLossUnreported, EachLossReportedOnce, Outstanding
<1> QED BY <1>1, <1>2, <1>3, <1>4, <1>5 DEF Core

\* Parking a message (RingStore::park).
LEMMA ParkStep ==
    ASSUME Core, NEW x \in Senders, NEW t \in 0..MaxTime, Park(x, t)
    PROVE  TypeOK' /\ Parks
<1>1. TypeOK BY DEF Core
<1>2. t \in Nat BY BoundsAssumption
<1> DEFINE e == [id |-> next_id, sender |-> x, release_at |-> t, message |-> minted + 1]
<1>3. e \in DeferredEntry BY <1>1, <1>2, SMTT(30) DEF DeferredEntry, TypeOK
<1>4. deferred' = Inserted(deferred, e) BY DEF Park
<1> HIDE DEF e
<1>S. Sizes BY DEF Core
<1>5. deferred' \in Seq(DeferredEntry) BY <1>1, <1>3, <1>4, <1>S, InsertedType DEF TypeOK
<1> QED BY SMTT(20), <1>1, <1>5 DEF TypeOK, Park, Parks, ringVars, cursorVars, ledgerVars

\* Cancelling a parked message (RingStore::cancel_deferred).
LEMMA CancelDeferredStep ==
    ASSUME Core, NEW x \in Senders, NEW i \in 1..Len(deferred), CancelDeferred(x, i)
    PROVE  TypeOK' /\ Parks
<1>1. TypeOK /\ deferred \in Seq(DeferredEntry) BY DEF Core, TypeOK
<1>2. deferred' \in Seq(DeferredEntry) BY <1>1, WithoutType DEF CancelDeferred
<1>3. deferred[i] \in DeferredEntry BY <1>1, SeqElement
<1>4. deferred[i].message \in Nat BY <1>3 DEF DeferredEntry
<1> QED BY <1>1, <1>2, <1>4 DEF TypeOK, CancelDeferred, Parks, ringVars, cursorVars, ledgerVars

\* Rescheduling a parked message (RingStore::edit_deferred).
LEMMA EditDeferredStep ==
    ASSUME Core, NEW x \in Senders, NEW i \in 1..Len(deferred), NEW t \in 0..MaxTime,
           EditDeferred(x, i, t)
    PROVE  TypeOK' /\ Parks
<1>1. TypeOK /\ deferred \in Seq(DeferredEntry) /\ t \in Nat
    BY BoundsAssumption, SMTT(30) DEF Core, TypeOK
<1>2. deferred[i] \in DeferredEntry BY <1>1, SeqElement
<1>3. [deferred[i] EXCEPT !.release_at = t] \in DeferredEntry
    BY <1>1, <1>2 DEF DeferredEntry
<1>4. Without(deferred, i) \in Seq(DeferredEntry) BY <1>1, WithoutType
<1>5. deferred' \in Seq(DeferredEntry)
    <2>1. Sizes BY DEF Core
    <2> QED BY <1>3, <1>4, <2>1, InsertedType DEF EditDeferred
<1> QED BY <1>1, <1>5 DEF TypeOK, EditDeferred, Parks, ringVars, cursorVars, ledgerVars

\* The caller's clock moves.
LEMMA TickStep ==
    ASSUME Core, Tick
    PROVE  TypeOK' /\ Parks
BY SMTT(30) DEF Core, TypeOK, Tick, Parks, ringVars, cursorVars, deferredVars, ledgerVars

-----------------------------------------------------------------------------
(* Steps of the subscribers *)

\* A position that comes into existence owes nothing that is already gone,
\* has settled nothing and has lost nothing.
LEMMA CreatePositionStep ==
    ASSUME Core, NEW s \in Subscribers, NEW p \in Nat \ {0}, NEW owed \in Nat,
           depth > 0, CreatePosition(s, p, owed),
           Frontier(entries, next_seq) <= owed, owed <= next_seq,
           UNCHANGED <<ringVars, deferredVars, window, floor, now, minted>>
    PROVE  /\ Core'
           /\ NoLossUnreported => NoLossUnreported'
           /\ EachLossReportedOnce => EachLossReportedOnce'
<1> USE DEF CreatePosition, ringVars, deferredVars
<1>S. Sizes /\ IsFiniteSet({}) /\ Cardinality({}) = 0 BY DEF Core, Sizes
<1>0. TypeOK /\ RingInv /\ next_seq \in Nat /\ depth \in Nat BY DEF Core, RingInv
<1>1. TypeOK' BY <1>0 DEF TypeOK
<1>2. RingInv' BY <1>0 DEF RingInv, RetainedIsDenseSuffix
<1>3. /\ Frontier(entries, next_seq) \in Nat /\ 1 <= Frontier(entries, next_seq)
    BY <1>0, RingFrontier
<1>4. PositionsAreSound'
    <2>1. PositionsAreSound BY DEF Core
    <2>2. ASSUME NEW r \in attached'
          PROVE  /\ push_depth'[r] > 0
                 /\ 1 <= base'[r] /\ base'[r] <= next_owed'[r] /\ next_owed'[r] <= next_seq
        <3>1. CASE r = s
            <4>1. push_depth'[r] = p /\ base'[r] = owed /\ next_owed'[r] = owed
                BY <1>0, <3>1 DEF TypeOK
            <4>2. p > 0 /\ 1 <= owed /\ owed <= owed BY <1>3
            <4> QED BY <4>1, <4>2
        <3>2. CASE r # s
            <4>1. r \in attached BY <3>2
            <4>2. push_depth'[r] = push_depth[r] /\ base'[r] = base[r] /\ next_owed'[r] = next_owed[r]
                BY <1>0, <3>2, <4>1 DEF TypeOK
            <4>3. /\ push_depth[r] > 0
                  /\ 1 <= base[r] /\ base[r] <= next_owed[r] /\ next_owed[r] <= next_seq
                BY <2>1, <4>1 DEF PositionsAreSound
            <4> QED BY ONLY <4>2, <4>3, Zenon
        <3> QED BY ONLY <3>1, <3>2, Zenon
    <2>3. floor <= next_seq BY <2>1 DEF PositionsAreSound
    <2>4. depth # 0 BY <1>0
    <2>5. depth' = depth /\ next_seq' = next_seq /\ floor' = floor OBVIOUS
    <2> QED BY ONLY <2>2, <2>3, <2>4, <2>5, Zenon DEF PositionsAreSound
<1>5. WindowsAreDense' BY DEF Core, WindowsAreDense
<1>6. ServedIsFinite'
    BY <1>0, <1>S, SMTT(30) DEF Core, TypeOK, ServedIsFinite
<1>7. ServedOrDroppedOnce'
    <2>1. ASSUME NEW r \in attached'
          PROVE  /\ served'[r] \subseteq base'[r]..(next_owed'[r] - 1)
                 /\ Cardinality(served'[r]) + dropped'[r] = next_owed'[r] - base'[r]
        <3>1. CASE r = s
            <4>1. served'[r] = {} /\ dropped'[r] = 0 /\ next_owed'[r] = owed /\ base'[r] = owed
                BY <1>0, <3>1 DEF TypeOK
            <4>2. Cardinality(served'[r]) = 0 BY <4>1, <1>S
            <4> QED BY <4>1, <4>2, SMTT(30)
        <3>2. CASE r # s
            <4>1. r \in attached BY <3>2
            <4>2. /\ served'[r] = served[r] /\ dropped'[r] = dropped[r]
                  /\ next_owed'[r] = next_owed[r] /\ base'[r] = base[r]
                BY <1>0, <3>2, <4>1 DEF TypeOK
            <4> QED BY <4>1, <4>2 DEF Core, ServedOrDroppedOnce
        <3> QED BY <3>1, <3>2
    <2> QED BY <2>1 DEF ServedOrDroppedOnce
<1>8. ASSUME NEW r \in attached'
      PROVE  \/ r = s /\ evicted'[r] + noise'[r] = dropped'[r] + Outstanding(r)'
             \/ /\ r \in attached /\ evicted'[r] = evicted[r] /\ noise'[r] = noise[r]
                /\ dropped'[r] = dropped[r] /\ Outstanding(r)' = Outstanding(r)
    <2>1. CASE r = s
        <3>1. evicted'[r] = 0 /\ noise'[r] = 0 /\ dropped'[r] = 0 /\ next_owed'[r] = owed
            BY <1>0, <2>1 DEF TypeOK
        <3>2. Outstanding(r)' = 0 BY <1>3, <3>1 DEF Outstanding, Sat
        <3> QED BY <2>1, <3>1, <3>2
    <2>2. CASE r # s
        BY <1>0, <2>2 DEF TypeOK, Outstanding
    <2> QED BY <2>1, <2>2
<1>9. \A r \in attached' : r = s =>
        evicted'[r] + noise'[r] >= dropped'[r] + Outstanding(r)'
    <2> TAKE r \in attached'
    <2> HAVE r = s
    <2>1. evicted'[r] = 0 /\ noise'[r] = 0 /\ dropped'[r] = 0 /\ next_owed'[r] = owed
        BY <1>0 DEF TypeOK
    <2>2. Outstanding(r)' = 0 BY <1>3, <2>1 DEF Outstanding, Sat
    <2> QED BY <2>1, <2>2
<1>10. NoLossUnreported => NoLossUnreported' BY <1>8, <1>9 DEF NoLossUnreported
<1>11. EachLossReportedOnce => EachLossReportedOnce' BY <1>8 DEF EachLossReportedOnce
<1> QED BY <1>1, <1>2, <1>4, <1>5, <1>6, <1>7, <1>10, <1>11 DEF Core

\* Retuning a position, or giving one up, settles and loses nothing.
Retunes ==
    /\ attached' \subseteq attached
    /\ push_depth' \in [Subscribers -> Nat]
    /\ \A s \in attached' : push_depth'[s] > 0
    /\ floor' \in Nat /\ floor' <= next_seq
    /\ UNCHANGED <<ringVars, next_owed, deferredVars, now, minted, ledgerVars, evicted>>

\* A step that changes only push depths and window snapshots disturbs no ledger.
LEMMA RetunesKeeps ==
    ASSUME Core, Retunes, WindowsAreDense', window' \in [Subscribers -> Seq(Entry)]
    PROVE  /\ Core'
           /\ NoLossUnreported => NoLossUnreported'
           /\ EachLossReportedOnce => EachLossReportedOnce'
<1> USE DEF Retunes, ringVars, deferredVars, ledgerVars
<1>1. TypeOK' BY DEF Core, TypeOK
<1>2. RingInv' BY DEF Core, RingInv, RetainedIsDenseSuffix
<1>3. PositionsAreSound' BY DEF Core, PositionsAreSound
<1>4. ServedIsFinite' /\ ServedOrDroppedOnce'
    BY DEF Core, ServedIsFinite, ServedOrDroppedOnce
<1>5. /\ NoLossUnreported => NoLossUnreported'
      /\ EachLossReportedOnce => EachLossReportedOnce'
    BY DEF NoLossUnreported, EachLossReportedOnce, Outstanding
<1> QED BY <1>1, <1>2, <1>3, <1>4, <1>5 DEF Core

\* The priming position is between the frontier and the next seq.
LEMMA PrimingInRange ==
    \A p \in Nat :
        Core =>
            /\ PrimedFrom(entries, next_seq, p) + 1 \in Nat
            /\ Frontier(entries, next_seq) <= PrimedFrom(entries, next_seq, p) + 1
            /\ PrimedFrom(entries, next_seq, p) + 1 <= next_seq
\* primed_from: a position primed with push depth p is owed the newest p of
\* what the ring holds, or all of it, and nothing the ring has lost.
<1>PrimedFromDense. ASSUME NEW M, NEW s \in Seq(Row(M)), NEW next \in Nat \ {0}, NEW p \in Nat,
             Dense(s, next - 1)
      PROVE  PrimedFrom(s, next, p) = next - 1 - (IF Len(s) > p THEN p ELSE Len(s))
    <2> USE <1>PrimedFromDense
    <2> DEFINE t == Newest(s, p)
    <2>1. /\ t \in Seq(Row(M))
          /\ Len(t) = IF Len(s) > p THEN p ELSE Len(s)
        BY NewestProperties
    <2>1a. Dense(t, next - 1)
        <3>1. next - 1 \in Int OBVIOUS
        <3> QED BY <3>1, NewestDense
    <2>2. PrimedFrom(s, next, p) = Frontier(t, next) - 1
        BY DEF PrimedFrom, Frontier
    <2> HIDE DEF t
    <2>3. Frontier(t, next) = next - Len(t) BY <2>1, <2>1a, FrontierOfDense
    <2>4. Len(s) \in Nat /\ Len(t) \in Nat BY <2>1, SeqLen
    <2> QED BY <2>1, <2>2, <2>3, <2>4
<1> SUFFICES ASSUME Core, NEW p \in Nat
             PROVE  /\ PrimedFrom(entries, next_seq, p) + 1 \in Nat
                    /\ Frontier(entries, next_seq) <= PrimedFrom(entries, next_seq, p) + 1
                    /\ PrimedFrom(entries, next_seq, p) + 1 <= next_seq
    OBVIOUS
<1>1. RingInv /\ entries \in Seq(Row(Nat)) /\ next_seq \in Nat \ {0}
      /\ Dense(entries, next_seq - 1)
    BY DEF Core, RingInv, Entry, RetainedIsDenseSuffix
<1>2. PrimedFrom(entries, next_seq, p) =
        next_seq - 1 - (IF Len(entries) > p THEN p ELSE Len(entries))
    BY <1>1, <1>PrimedFromDense
<1>3. /\ Len(entries) \in Nat /\ Len(entries) < next_seq
      /\ Frontier(entries, next_seq) = next_seq - Len(entries)
    BY <1>1, RingFrontier
<1> QED BY <1>1, <1>2, <1>3

\* Creating a cursor at the attach point, or retuning an existing one
\* (RingCore::attach).
LEMMA AttachStep ==
    ASSUME Core, NEW s \in Subscribers, NEW p \in PushDepths, Attach(s, p)
    PROVE  /\ Core'
           /\ NoLossUnreported => NoLossUnreported'
           /\ EachLossReportedOnce => EachLossReportedOnce'
<1>0. p \in Nat BY DepthsAssumption
<1>1. CASE p > 0 /\ s \notin attached
    <2> DEFINE owed == PrimedFrom(entries, next_seq, p) + 1
    <2>1. /\ owed \in Nat /\ Frontier(entries, next_seq) <= owed /\ owed <= next_seq
        BY <1>0, PrimingInRange
    <2>2. CreatePosition(s, p, owed) /\ depth > 0 BY <1>0, <1>1 DEF Attach
    <2>3. UNCHANGED <<ringVars, deferredVars, window, floor, now, minted>> BY DEF Attach
    <2>4. p \in Nat \ {0} BY <1>0, <1>1
    <2> HIDE DEF owed
    <2> QED BY <2>1, <2>2, <2>3, <2>4, CreatePositionStep
<1>2. CASE ~(p > 0 /\ s \notin attached)
    <2>1. Retunes
        BY <1>0, <1>2 DEF Core, TypeOK, PositionsAreSound, Retunes, Attach
    <2>2. window' = window /\ next_seq' = next_seq BY DEF Attach, ringVars
    <2>3. WindowsAreDense' BY <2>2 DEF Core, WindowsAreDense
    <2>4. window' \in [Subscribers -> Seq(Entry)] BY <2>2 DEF Core, TypeOK
    <2> QED BY <2>1, <2>3, <2>4, RetunesKeeps
<1> QED BY <1>1, <1>2

\* Creating a cursor from a saved position (RingCore::attach_from).
LEMMA AttachFromStep ==
    ASSUME Core, NEW s \in Subscribers, NEW p \in PushDepths, AttachFrom(s, p)
    PROVE  /\ Core'
           /\ NoLossUnreported => NoLossUnreported'
           /\ EachLossReportedOnce => EachLossReportedOnce'
<1>0. p \in Nat \ {0} BY DepthsAssumption DEF AttachFrom
<1>1. CASE s \notin attached
    <2> DEFINE primed == PrimedFrom(entries, next_seq, p) + 1
               owed == Larger(primed, floor)
    <2>1. /\ primed \in Nat /\ Frontier(entries, next_seq) <= primed /\ primed <= next_seq
        BY <1>0, PrimingInRange
    <2>2. floor \in Nat /\ floor <= next_seq /\ next_seq \in Nat
        BY DEF Core, TypeOK, PositionsAreSound
    <2>3. CreatePosition(s, p, owed) /\ depth > 0 BY <1>1 DEF AttachFrom
    <2> HIDE DEF primed
    <2>4. Frontier(entries, next_seq) \in Nat BY RingFrontier DEF Core
    <2>5. owed \in Nat /\ Frontier(entries, next_seq) <= owed /\ owed <= next_seq
        BY <2>1, <2>2, <2>4 DEF Larger
    <2>6. UNCHANGED <<ringVars, deferredVars, window, floor, now, minted>> BY DEF AttachFrom
    <2> HIDE DEF owed
    <2> QED BY <1>0, <2>3, <2>5, <2>6, CreatePositionStep
<1>2. CASE s \in attached
    <2>1. Retunes
        BY <1>0, <1>2 DEF Core, TypeOK, PositionsAreSound, Retunes, AttachFrom
    <2>2. window' = window /\ next_seq' = next_seq BY DEF AttachFrom, ringVars
    <2>3. WindowsAreDense' BY <2>2 DEF Core, WindowsAreDense
    <2>4. window' \in [Subscribers -> Seq(Entry)] BY <2>2 DEF Core, TypeOK
    <2> QED BY <2>1, <2>3, <2>4, RetunesKeeps
<1> QED BY <1>1, <1>2

\* Removing a cursor (RingCore::detach).
LEMMA DetachStep ==
    ASSUME Core, NEW s \in Subscribers, Detach(s)
    PROVE  /\ Core'
           /\ NoLossUnreported => NoLossUnreported'
           /\ EachLossReportedOnce => EachLossReportedOnce'
<1>1. Retunes
    BY DEF Core, TypeOK, PositionsAreSound, Retunes, Detach
<1>2. window' = window /\ next_seq' = next_seq BY DEF Detach, ringVars
<1>3. WindowsAreDense' BY <1>2 DEF Core, WindowsAreDense
<1>4. window' \in [Subscribers -> Seq(Entry)] BY <1>2 DEF Core, TypeOK
<1> QED BY <1>1, <1>3, <1>4, RetunesKeeps

-----------------------------------------------------------------------------
(* Reading *)

\* A window just cut ends at the newest seq and starts at or above the
\* frontier.
LEMMA CutWindowDense ==
    ASSUME Core, NEW p \in Nat, NEW r \in Nat
    PROVE  LET w == CutWindow(p, r) IN
           /\ w \in Seq(Row(Nat))
           /\ w # << >> => /\ Dense(w, Through(w)) /\ Through(w) < next_seq
                           /\ Frontier(entries, next_seq) <= SeenFloor(w)
<1> DEFINE w == CutWindow(p, r)
           n == Larger(p, r)
<1>0. n \in Nat BY DEF Larger
<1>1. RingInv /\ entries \in Seq(Row(Nat)) /\ next_seq \in Nat \ {0}
      /\ Dense(entries, next_seq - 1) /\ next_seq - 1 \in Int
    BY DEF Core, RingInv, Entry, RetainedIsDenseSuffix
<1>2. w = Newest(entries, n) BY DEF CutWindow
<1> HIDE DEF n, w
<1>3. /\ w \in Seq(Row(Nat))
      /\ Len(w) = IF Len(entries) > n THEN n ELSE Len(entries)
    BY <1>0, <1>1, <1>2, NewestProperties
<1>4. Dense(w, next_seq - 1) BY <1>0, <1>1, <1>2, NewestDense
<1>5. /\ Len(entries) \in Nat /\ Len(entries) < next_seq
      /\ Frontier(entries, next_seq) = next_seq - Len(entries)
    BY <1>1, RingFrontier
<1>6. ASSUME w # << >>
      PROVE  Through(w) = next_seq - 1 /\ SeenFloor(w) = next_seq - Len(w)
    <2>1. Len(w) \in Nat /\ Len(w) >= 1 BY <1>3, <1>6, SeqEmpty, SeqLen
    <2>2. 1 \in 1..Len(w) /\ Len(w) \in 1..Len(w) BY <2>1
    <2>3. w[1] \in Row(Nat) /\ w[Len(w)] \in Row(Nat) BY <1>3, <2>2, SeqElement
    <2>4. w[1].seq \in Nat /\ w[Len(w)].seq \in Nat BY <2>3 DEF Row
    <2>5. /\ w[1].seq + Len(w) = next_seq - 1 + 1
          /\ w[Len(w)].seq + Len(w) = next_seq - 1 + Len(w)
        BY <1>4, <2>2 DEF Dense
    <2>6. w[1].seq = next_seq - Len(w) BY <1>1, <2>1, <2>4, <2>5
    <2>7. w[Len(w)].seq = next_seq - 1
        <3> DEFINE l == Len(w)
                   b == w[l].seq
        <3>1. l \in Nat /\ b \in Nat /\ b + l = next_seq - 1 + l BY <2>1, <2>4, <2>5
        <3> HIDE DEF l, b
        <3>2. b = next_seq - 1 BY <1>1, <3>1
        <3> QED BY <3>2 DEF b, l
    <2> QED BY <2>6, <2>7 DEF Through, SeenFloor
<1>7. ASSUME w # << >>
      PROVE  /\ Dense(w, Through(w)) /\ Through(w) < next_seq
             /\ Frontier(entries, next_seq) <= SeenFloor(w)
    <2>1. Dense(w, Through(w)) BY <1>4, <1>6, <1>7
    <2>2. Len(w) \in Nat /\ Len(w) <= Len(entries) BY <1>0, <1>3, <1>5
    <2> QED BY <1>1, <1>5, <1>6, <1>7, <2>1, <2>2
<1> QED BY <1>3, <1>7 DEF w

\* Taking a window (RingCore::window) is a read.
LEMMA WindowStep ==
    ASSUME Core, NEW s \in Subscribers, NEW p \in PushDepths, NEW r \in RetainDepths,
           Window(s, p, r)
    PROVE  /\ Core'
           /\ NoLossUnreported => NoLossUnreported'
           /\ EachLossReportedOnce => EachLossReportedOnce'
<1>0. p \in Nat /\ r \in Nat BY DepthsAssumption
<1>1. Retunes
    BY <1>0 DEF Core, TypeOK, PositionsAreSound, Retunes, Window
<1> DEFINE w == CutWindow(p, r)
<1>2. /\ w \in Seq(Entry)
      /\ w # << >> => Dense(w, Through(w)) /\ Through(w) < next_seq
    BY <1>0, CutWindowDense DEF Entry
<1>3. window \in [Subscribers -> Seq(Entry)] BY DEF Core, TypeOK
<1>4. window' = [window EXCEPT ![s] = w] /\ next_seq' = next_seq BY DEF Window, ringVars
<1> HIDE DEF w
<1>5. window' \in [Subscribers -> Seq(Entry)] BY <1>2, <1>3, <1>4
<1>6. WindowsAreDense'
    <2> SUFFICES ASSUME NEW q \in Subscribers, window'[q] # << >>
                 PROVE  /\ Dense(window'[q], Through(window'[q]))
                        /\ Through(window'[q]) < next_seq
        BY <1>4 DEF WindowsAreDense
    <2>1. CASE q = s
        <3>1. window'[q] = w BY <1>3, <1>4, <2>1
        <3> QED BY <1>2, <3>1
    <2>2. CASE q # s
        <3>1. window'[q] = window[q] BY <1>3, <1>4, <2>2
        <3> QED BY <3>1 DEF Core, WindowsAreDense
    <2> QED BY <2>1, <2>2
<1> QED BY <1>1, <1>5, <1>6, RetunesKeeps

\* What an advance over a window w, stale or fresh, is to the invariants: w is
\* a dense run of assigned seqs, the position and its ledger move over it, and
\* at most the push depths and the window snapshots change besides.
Passes(s, w) ==
    /\ w \in Seq(Row(Nat)) /\ w # << >>
    /\ Dense(w, Through(w)) /\ Through(w) < next_seq
    /\ AdvanceOver(s, w)
    /\ attached' = attached /\ push_depth' \in [Subscribers -> Nat]
    /\ \A q \in attached : push_depth'[q] > 0
    /\ WindowsAreDense' /\ window' \in [Subscribers -> Seq(Entry)]
    /\ UNCHANGED <<ringVars, deferredVars, floor, now, minted, evicted>>

\* Advancing over any dense window of assigned seqs, stale or fresh, keeps the
\* ledger and covers the loss; over one at or above the frontier it keeps the
\* books equal.
LEMMA AdvanceOverStep ==
    \A s \in attached : \A w :
        Core /\ Passes(s, w) =>
            /\ Core'
            /\ NoLossUnreported => NoLossUnreported'
            /\ Frontier(entries, next_seq) <= SeenFloor(w)
                  => (EachLossReportedOnce => EachLossReportedOnce')
\* advance: passing a window settles every seq between the old position and
\* the new one, as served or as dropped, and settles none twice.
<1>AdvanceSettles. ASSUME Sizes, NEW S, NEW b, NEW n, NEW D, Settled(S, b, n, D),
             NEW sf \in Nat, NEW th \in Nat, sf <= th
      PROVE  Settled(S \cup {q \in sf..th : q >= n}, b, Larger(n, th + 1), D + Sat(sf, n))
    <2> USE <1>AdvanceSettles
    <2> USE DEF Settled
    <2> DEFINE m == Larger(n, th + 1)
    <2> DEFINE U == {q \in sf..th : q >= n}
               lo == Larger(sf, n)
    <2>1. lo \in Nat /\ m \in Nat BY SMTT(30) DEF Larger
    <2>2. U = lo..th BY DEF Larger
    <2>3. IsFiniteSet(U) /\ Cardinality(U) = IF lo > th THEN 0 ELSE th - lo + 1
        <3> HIDE DEF U, lo
        <3>1. lo \in Int /\ th \in Int BY <2>1
        <3> QED BY <2>2, <3>1 DEF Sizes
    <2>4. S \cap U = {} BY <2>1
    <2>5. IsFiniteSet(S \cup U) /\ Cardinality(S \cup U) = Cardinality(S) + Cardinality(U)
        <3> HIDE DEF U
        <3> QED BY <2>3, <2>4 DEF Sizes
    <2>6. S \cup U \in SUBSET Nat /\ S \cup U \subseteq b..(m - 1)
        <3>1. n <= m /\ th + 1 <= m /\ n <= lo BY DEF Larger
        <3> HIDE DEF m, lo, U
        <3>2. ASSUME NEW q \in S PROVE q \in Nat /\ q \in b..(m - 1) BY <2>1, <3>1
        <3>3. ASSUME NEW q \in U PROVE q \in Nat /\ q \in b..(m - 1) BY <2>1, <2>2, <3>1
        <3> QED BY <3>2, <3>3
    <2>7. Cardinality(S) \in Nat BY DEF Sizes
    <2>8. Cardinality(S \cup U) + (D + Sat(sf, n)) = m - b
        <3> DEFINE cS == Cardinality(S)
                   cU == Cardinality(U)
        <3>1. cS \in Nat /\ cS + D = n - b /\ cU = IF lo > th THEN 0 ELSE th - lo + 1
            BY <2>3, <2>7
        <3> HIDE DEF cS, cU
        <3>2. cS + cU + (D + Sat(sf, n)) = m - b
            BY <3>1 DEF Larger, Sat
        <3> QED BY <2>5, <3>2 DEF cS, cU
    <2>9. m \in Nat /\ D + Sat(sf, n) \in Nat /\ b <= m BY DEF Larger, Sat
    <2> QED BY <2>5, <2>6, <2>8, <2>9
\* advance: the charges cover what is dropped and what stays outstanding.
<1>AdvanceCovers. ASSUME NEW R \in Nat, NEW D \in Nat, NEW n \in Nat, NEW f \in Nat,
             NEW sf \in Nat, NEW th \in Nat, sf <= th,
             R >= D + Sat(f, n)
      PROVE  R + Sat(sf, Larger(n, f)) >= (D + Sat(sf, n)) + Sat(f, Larger(n, th + 1))
    BY <1>AdvanceCovers DEF Sat, Larger
<1> SUFFICES ASSUME Core, NEW s \in attached, NEW w, Passes(s, w)
             PROVE  /\ Core'
                    /\ NoLossUnreported => NoLossUnreported'
                    /\ Frontier(entries, next_seq) <= SeenFloor(w)
                          => (EachLossReportedOnce => EachLossReportedOnce')
    OBVIOUS
<1> DEFINE n == next_owed[s]
           f == Frontier(entries, next_seq)
           sf == SeenFloor(w)
           th == Through(w)
           m == Larger(n, th + 1)
           T == served[s] \cup {q \in sf..th : q >= n}
<1>0. TypeOK /\ RingInv /\ s \in Subscribers /\ next_seq \in Nat BY DEF Core, TypeOK
<1>a. /\ attached' = attached /\ evicted' = evicted /\ next_seq' = next_seq
      /\ entries' = entries /\ depth' = depth /\ log' = log /\ floor' = floor
    BY DEF Passes, ringVars
<1>1. /\ th \in Nat /\ sf \in Nat /\ sf <= th /\ th < next_seq
      /\ {w[i].seq : i \in 1..Len(w)} = sf..th
    BY DenseWindow DEF Passes
<1>2. /\ n \in Nat /\ base[s] \in Nat /\ dropped[s] \in Nat /\ noise[s] \in Nat
      /\ evicted[s] \in Nat /\ served[s] \in SUBSET Nat /\ f \in Nat
    BY <1>0, RingFrontier DEF TypeOK
<1>3. /\ 1 <= base[s] /\ base[s] <= n /\ n <= next_seq
      /\ IsFiniteSet(served[s]) /\ served[s] \subseteq base[s]..(n - 1)
      /\ Cardinality(served[s]) + dropped[s] = n - base[s]
    BY DEF Core, PositionsAreSound, ServedIsFinite, ServedOrDroppedOnce
<1>4. /\ dropped' = [dropped EXCEPT ![s] = dropped[s] + Sat(sf, n)]
      /\ noise' = [noise EXCEPT ![s] = noise[s] + Sat(sf, Larger(n, f))]
      /\ next_owed' = [next_owed EXCEPT ![s] = m]
      /\ served' = [served EXCEPT ![s] = T]
      /\ base' = base
    BY <1>1 DEF AdvanceOver, Passes
<1>5. /\ T \in SUBSET Nat /\ IsFiniteSet(T) /\ T \subseteq base[s]..(m - 1)
      /\ Cardinality(T) + (dropped[s] + Sat(sf, n)) = m - base[s]
    <2> HIDE DEF n, f, sf, th
    <2> DEFINE S == served[s]
               b == base[s]
               D == dropped[s]
    <2>1. sf \in Nat /\ th \in Nat /\ sf <= th BY <1>1
    <2>2. Settled(S, b, n, D) BY <1>2, <1>3 DEF Settled
    <2>3. Settled(T, b, m, D + Sat(sf, n))
        <3>1. Sizes BY DEF Core
        <3> HIDE DEF S, b, D
        <3> QED BY <2>1, <2>2, <3>1, <1>AdvanceSettles DEF S
    <2> HIDE DEF T, m
    <2> QED BY <2>3 DEF Settled
<1>6. m \in Nat /\ n <= m /\ m <= next_seq
    <2>1. n \in Nat /\ th \in Nat /\ next_seq \in Nat /\ n <= next_seq /\ th < next_seq
        BY <1>0, <1>1, <1>2, <1>3
    <2> HIDE DEF n, f, sf, th
    <2> QED BY <2>1 DEF Larger
<1>7. Sat(sf, n) \in Nat /\ Larger(n, f) \in Nat /\ Sat(sf, Larger(n, f)) \in Nat
    BY <1>1, <1>2, SatType
<1> HIDE DEF T, m, f, sf, th, n
<1>8. TypeOK'
    <2>1. next_owed' \in [Subscribers -> Nat] BY <1>0, <1>4, <1>6 DEF TypeOK
    <2>2. served' \in [Subscribers -> SUBSET Nat] BY <1>0, <1>4, <1>5 DEF TypeOK
    <2>3. dropped' \in [Subscribers -> Nat] /\ noise' \in [Subscribers -> Nat]
        <3>1. dropped[s] + Sat(sf, n) \in Nat /\ noise[s] + Sat(sf, Larger(n, f)) \in Nat
            BY SMTT(20), <1>2, <1>7
        <3> QED BY <1>0, <1>4, <3>1 DEF TypeOK
    <2> QED BY <1>0, <1>4, <2>1, <2>2, <2>3 DEF TypeOK, Passes, ringVars, deferredVars
<1>9. RingInv' BY <1>0, <1>a DEF RingInv, RetainedIsDenseSuffix
<1>10. PositionsAreSound'
    <2>1. ASSUME NEW q \in attached
          PROVE  /\ push_depth'[q] > 0
                 /\ 1 <= base'[q] /\ base'[q] <= next_owed'[q] /\ next_owed'[q] <= next_seq'
        <3>1. q \in Subscribers /\ base[q] \in Nat /\ next_owed[q] \in Nat BY <1>0 DEF TypeOK
        <3>2. /\ 1 <= base[q] /\ base[q] <= next_owed[q] /\ next_owed[q] <= next_seq
            BY DEF Core, PositionsAreSound
        <3>3. next_owed'[q] = IF q = s THEN m ELSE next_owed[q] BY <1>0, <1>4, <3>1 DEF TypeOK
        <3>4. m \in Nat /\ next_seq \in Nat /\ base[s] <= n /\ n <= m /\ m <= next_seq
              /\ 1 <= base[s] /\ base[s] \in Nat /\ n \in Nat
            BY <1>0, <1>2, <1>3, <1>6
        <3>5. base' = base /\ next_seq' = next_seq BY <1>a, <1>4
        <3>6. push_depth'[q] > 0 BY DEF Passes
        <3> QED BY SMTT(20), <3>1, <3>2, <3>3, <3>4, <3>5, <3>6
    <2> QED BY <1>a, <2>1 DEF Core, PositionsAreSound
<1>11. ServedIsFinite'
    BY <1>0, <1>a, <1>4, <1>5 DEF Core, TypeOK, ServedIsFinite
<1>12. ServedOrDroppedOnce'
    <2>1. ASSUME NEW q \in attached
          PROVE  /\ served'[q] \subseteq base'[q]..(next_owed'[q] - 1)
                 /\ Cardinality(served'[q]) + dropped'[q] = next_owed'[q] - base'[q]
        <3>1. CASE q = s
            <4>1. /\ served'[q] = T /\ next_owed'[q] = m /\ base'[q] = base[s]
                  /\ dropped'[q] = dropped[s] + Sat(sf, n)
                BY <1>0, <1>4, <3>1 DEF TypeOK
            <4> QED BY <1>5, <4>1
        <3>2. CASE q # s
            <4>1. /\ served'[q] = served[q] /\ next_owed'[q] = next_owed[q]
                  /\ base'[q] = base[q] /\ dropped'[q] = dropped[q]
                BY <1>0, <1>4, <3>2 DEF TypeOK
            <4> QED BY <4>1 DEF Core, ServedOrDroppedOnce
        <3> QED BY <3>1, <3>2
    <2> QED BY <1>a, <2>1 DEF ServedOrDroppedOnce
<1>13. Outstanding(s) = Sat(f, n) /\ Outstanding(s)' = Sat(f, m)
    BY <1>0, <1>a, <1>4 DEF Outstanding, TypeOK, f, n
<1>14. ASSUME NEW q \in attached, q # s
       PROVE  /\ evicted'[q] = evicted[q] /\ noise'[q] = noise[q] /\ dropped'[q] = dropped[q]
              /\ Outstanding(q)' = Outstanding(q)
    BY <1>0, <1>a, <1>4, <1>14 DEF TypeOK, Outstanding
<1>15. /\ evicted'[s] = evicted[s]
       /\ noise'[s] = noise[s] + Sat(sf, Larger(n, f))
       /\ dropped'[s] = dropped[s] + Sat(sf, n)
    BY <1>0, <1>a, <1>4 DEF TypeOK
<1>16. Sat(f, n) \in Nat /\ Sat(f, m) \in Nat BY <1>2, <1>6, SatType
<1>17. NoLossUnreported => NoLossUnreported'
    <2> SUFFICES ASSUME NoLossUnreported
                 PROVE  evicted'[s] + noise'[s] >= dropped'[s] + Outstanding(s)'
        BY <1>a, <1>14 DEF NoLossUnreported
    <2>1. evicted[s] + noise[s] >= dropped[s] + Sat(f, n) BY <1>13 DEF NoLossUnreported
    <2>2. evicted[s] + noise[s] \in Nat BY SMTT(20), <1>2
    <2>3. (evicted[s] + noise[s]) + Sat(sf, Larger(n, f))
             >= (dropped[s] + Sat(sf, n)) + Sat(f, m)
        <3>1. sf \in Nat /\ th \in Nat /\ sf <= th BY <1>1
        <3> QED BY <1>2, <2>1, <2>2, <3>1, <1>AdvanceCovers DEF m
    <2> QED BY SMTT(20), <1>2, <1>7, <1>13, <1>15, <1>16, <2>3
<1>18. ASSUME f <= sf
       PROVE  EachLossReportedOnce => EachLossReportedOnce'
    <2> SUFFICES ASSUME EachLossReportedOnce
                 PROVE  evicted'[s] + noise'[s] = dropped'[s] + Outstanding(s)'
        BY <1>a, <1>14 DEF EachLossReportedOnce
    <2>1. evicted[s] + noise[s] = dropped[s] + Sat(f, n) BY <1>13 DEF EachLossReportedOnce
    <2>2. evicted[s] + noise[s] \in Nat BY SMTT(20), <1>2
    <2>3. (evicted[s] + noise[s]) + Sat(sf, Larger(n, f))
             = (dropped[s] + Sat(sf, n)) + Sat(f, m)
        <3>1. sf \in Nat /\ th \in Nat /\ sf <= th BY <1>1
        <3> DEFINE R == evicted[s] + noise[s]
                   D == dropped[s]
        <3>2. R \in Nat /\ D \in Nat /\ n \in Nat /\ f \in Nat /\ R = D + Sat(f, n)
            BY <1>2, <2>1, <2>2
        <3> HIDE DEF R, D
        <3>3. R + Sat(sf, Larger(n, f)) = (D + Sat(sf, n)) + Sat(f, Larger(n, th + 1))
            BY <1>18, <3>1, <3>2 DEF Sat, Larger
        <3> QED BY <3>3 DEF R, D, m
    <2> QED BY SMTT(20), <1>2, <1>7, <1>13, <1>15, <1>16, <2>3
<1>19. WindowsAreDense' BY DEF Passes
<1> QED BY <1>8, <1>9, <1>10, <1>11, <1>12, <1>17, <1>18, <1>19 DEF Core, f, sf

\* The server host's advance over a window it read some steps ago keeps the
\* cursor invariants, and every loss still reported.
LEMMA AdvanceStep ==
    ASSUME Core, NEW s \in Subscribers, Advance(s)
    PROVE  /\ Core'
           /\ NoLossUnreported => NoLossUnreported'
<1>1. window \in [Subscribers -> Seq(Entry)] BY DEF Core, TypeOK
<1>2. window' = [window EXCEPT ![s] = << >>] /\ next_seq' = next_seq BY DEF Advance, ringVars
<1>3. window' \in [Subscribers -> Seq(Entry)] BY <1>1, <1>2, SMTT(30)
<1>4. WindowsAreDense' BY <1>1, <1>2 DEF Core, WindowsAreDense
<1>5. CASE s \notin attached
    <2>1. Retunes
        BY <1>5 DEF Core, TypeOK, PositionsAreSound, Retunes, Advance
    <2> QED BY <1>3, <1>4, <2>1, RetunesKeeps
<1>6. CASE s \in attached
    <2> DEFINE w == window[s]
    <2>1. /\ w \in Seq(Row(Nat)) /\ w # << >> /\ Dense(w, Through(w)) /\ Through(w) < next_seq
        BY <1>1 DEF Core, WindowsAreDense, Advance, Entry
    <2>2. AdvanceOver(s, w) BY <1>6 DEF Advance
    <2> HIDE DEF w
    <2>3. /\ attached' = attached /\ push_depth' = push_depth
          /\ UNCHANGED <<ringVars, deferredVars, floor, now, minted, evicted>>
        BY DEF Advance
    <2>4. push_depth' \in [Subscribers -> Nat] /\ \A q \in attached : push_depth'[q] > 0
        BY <2>3 DEF Core, TypeOK, PositionsAreSound
    <2>5. Passes(s, w) BY <1>3, <1>4, <2>1, <2>2, <2>3, <2>4 DEF Passes
    <2> QED BY <1>6, <2>5, AdvanceOverStep
<1> QED BY <1>5, <1>6

\* The client host's serve, which reads and passes a window in one call, also
\* keeps each loss reported once.
LEMMA ServeStep ==
    ASSUME Core, NEW s \in Subscribers, NEW p \in PushDepths, NEW r \in RetainDepths,
           Serve(s, p, r)
    PROVE  /\ Core'
           /\ NoLossUnreported => NoLossUnreported'
           /\ EachLossReportedOnce => EachLossReportedOnce'
<1>0. p \in Nat /\ p > 0 /\ r \in Nat /\ s \in attached BY DepthsAssumption DEF Serve
<1>1. window' = window /\ next_seq' = next_seq BY DEF Serve, ringVars
<1>2. window' \in [Subscribers -> Seq(Entry)] /\ WindowsAreDense'
    BY <1>1 DEF Core, TypeOK, WindowsAreDense
<1>3. push_depth' = [push_depth EXCEPT ![s] = p] BY DEF Serve
<1>4. push_depth' \in [Subscribers -> Nat] /\ \A q \in attached : push_depth'[q] > 0
    BY <1>0, <1>3 DEF Core, TypeOK, PositionsAreSound
<1> DEFINE w == CutWindow(p, r)
<1>5. CASE w = << >>
    <2>1. Retunes
        BY <1>4, <1>5 DEF Core, TypeOK, PositionsAreSound, Retunes, Serve
    <2> QED BY <1>2, <2>1, RetunesKeeps
<1>6. CASE w # << >>
    <2>1. AdvanceOver(s, w) BY <1>6 DEF Serve
    <2>2. /\ w \in Seq(Row(Nat)) /\ Dense(w, Through(w)) /\ Through(w) < next_seq
          /\ Frontier(entries, next_seq) <= SeenFloor(w)
        BY <1>0, <1>6, CutWindowDense
    <2>3. attached' = attached /\ UNCHANGED <<ringVars, deferredVars, floor, now, minted, evicted>>
        BY DEF Serve
    <2> HIDE DEF w
    <2>4. Passes(s, w) BY <1>2, <1>4, <1>6, <2>1, <2>2, <2>3 DEF Passes
    <2> QED BY <1>0, <2>2, <2>4, AdvanceOverStep
<1> QED BY <1>5, <1>6

-----------------------------------------------------------------------------
(* Every step *)

\* Every step both hosts take keeps the invariant and both loss ledgers.
LEMMA CommonStep ==
    ASSUME Core, Common
    PROVE  /\ Core'
           /\ NoLossUnreported => NoLossUnreported'
           /\ EachLossReportedOnce => EachLossReportedOnce'
<1>1. CASE AppendMessage BY <1>1, AppendMessageStep, RetiresKeepsReports
<1>2. ASSUME NEW d \in Depths, SetDepth(d)
      PROVE  /\ Core'
             /\ NoLossUnreported => NoLossUnreported'
             /\ EachLossReportedOnce => EachLossReportedOnce'
    BY <1>2, SetDepthStep, RetiresKeepsReports
<1>3. ASSUME NEW s \in Subscribers, NEW p \in PushDepths, Attach(s, p) \/ AttachFrom(s, p)
      PROVE  /\ Core'
             /\ NoLossUnreported => NoLossUnreported'
             /\ EachLossReportedOnce => EachLossReportedOnce'
    BY <1>3, AttachStep, AttachFromStep
<1>4. ASSUME NEW s \in Subscribers, Detach(s)
      PROVE  /\ Core'
             /\ NoLossUnreported => NoLossUnreported'
             /\ EachLossReportedOnce => EachLossReportedOnce'
    BY <1>4, DetachStep
<1>5. ASSUME NEW x \in Senders, NEW t \in 0..MaxTime, Park(x, t)
      PROVE  TypeOK' /\ Parks
    BY <1>5, ParkStep
<1>6. CASE ReleaseDue BY <1>6, ReleaseDueStep, RetiresKeepsReports
<1>7. ASSUME NEW x \in Senders, NEW i \in 1..Len(deferred),
             CancelDeferred(x, i) \/ \E t \in 0..MaxTime : EditDeferred(x, i, t)
      PROVE  TypeOK' /\ Parks
    BY <1>7, CancelDeferredStep, EditDeferredStep
<1>8. CASE Tick BY <1>8, TickStep, ParksKeeps
<1> QED BY <1>1, <1>2, <1>3, <1>4, <1>5, <1>6, <1>7, <1>8, ParksKeeps DEF Common

\* So does a step that changes nothing.
LEMMA StutterStep ==
    ASSUME Core, UNCHANGED vars
    PROVE  /\ Core'
           /\ NoLossUnreported => NoLossUnreported'
           /\ EachLossReportedOnce => EachLossReportedOnce'
<1>1. TypeOK' /\ Parks
    BY DEF Core, TypeOK, Parks, vars, ringVars, cursorVars, deferredVars, ledgerVars
<1> QED BY <1>1, ParksKeeps

\* Every step of the server's host keeps the inductive invariant.
LEMMA SplitKeepsIndInv ==
    ASSUME IndInv, [SplitNext]_vars
    PROVE  IndInv'
<1>1. Core /\ NoLossUnreported BY DEF IndInv
<1>2. CASE Common BY <1>1, <1>2, CommonStep DEF IndInv
<1>3. ASSUME NEW s \in Subscribers, NEW p \in PushDepths, NEW r \in RetainDepths,
             Window(s, p, r)
      PROVE  IndInv'
    BY <1>1, <1>3, WindowStep DEF IndInv
<1>4. ASSUME NEW s \in Subscribers, Advance(s) PROVE IndInv'
    BY <1>1, <1>4, AdvanceStep DEF IndInv
<1>5. CASE UNCHANGED vars BY <1>1, <1>5, StutterStep DEF IndInv
<1> QED BY <1>2, <1>3, <1>4, <1>5 DEF SplitNext

-----------------------------------------------------------------------------
(* The core as a feed *)

FeedStep == [F!Next]_(F!feedvars)

\* The number of the last message, from the next seq.
LEMMA Predecessors ==
    ASSUME NEW a \in Nat \ {0}, NEW b \in Nat \ {0}, a <= b, b # a
    PROVE  b - 1 \in Nat /\ b - 1 > a - 1
OBVIOUS

\* A step that appends or trims publishes to the feed, or does nothing to it.
LEMMA RetiresFeeds ==
    ASSUME Core, Retires
    PROVE  FeedStep
<1>1. next_seq \in Nat \ {0} /\ next_seq' \in Nat \ {0} /\ next_seq <= next_seq'
    BY DEF Core, Retires, RingInv
<1>2. UNCHANGED <<attached, next_owed, served, dropped>>
    BY DEF Retires, cursorVars, ledgerVars
<1>3. CASE next_seq' = next_seq
    BY <1>2, <1>3 DEF FeedStep, F!feedvars
<1>4. CASE next_seq' # next_seq
    <2>1. next_seq' - 1 \in Nat /\ next_seq' - 1 > next_seq - 1
        BY <1>1, <1>4, Predecessors
    <2>2. F!Publish BY <1>2, <2>1 DEF F!Publish
    <2> QED BY <2>2 DEF FeedStep, F!Next
<1> QED BY <1>3, <1>4

\* Parking, cancelling, rescheduling and time are nothing to the feed.
LEMMA ParksFeeds ==
    ASSUME Parks
    PROVE  FeedStep
BY DEF Parks, FeedStep, F!feedvars, ringVars, cursorVars, ledgerVars

\* A position that comes into existence opens a reader.
LEMMA CreatePositionFeeds ==
    ASSUME Core, NEW s \in Subscribers, s \notin attached, NEW p, NEW owed \in Nat,
           CreatePosition(s, p, owed), 1 <= owed, owed <= next_seq, next_seq' = next_seq
    PROVE  FeedStep
<1>1. next_seq \in Nat BY DEF Core, RingInv
<1>2. owed \in 1..(next_seq - 1) + 1 BY <1>1
<1>3. F!Open(s)
    BY <1>2 DEF F!Open, CreatePosition
<1> QED BY <1>3 DEF FeedStep, F!Next

\* RingCore::attach opens a reader, retunes one, or demotes it.
LEMMA AttachFeeds ==
    ASSUME Core, NEW s \in Subscribers, NEW p \in PushDepths, Attach(s, p)
    PROVE  FeedStep
<1>0. p \in Nat /\ next_seq' = next_seq BY DepthsAssumption DEF Attach, ringVars
<1>1. CASE p > 0 /\ s \notin attached
    <2> DEFINE owed == PrimedFrom(entries, next_seq, p) + 1
    <2>1. owed \in Nat /\ Frontier(entries, next_seq) <= owed /\ owed <= next_seq
        BY <1>0, PrimingInRange
    <2>2. Frontier(entries, next_seq) \in Nat /\ 1 <= Frontier(entries, next_seq)
        <3>1. RingInv /\ next_seq \in Nat \ {0} BY DEF Core, RingInv
        <3> QED BY <3>1, RingFrontier
    <2>3. CreatePosition(s, p, owed) BY <1>0, <1>1 DEF Attach
    <2> HIDE DEF owed
    <2>4. 1 <= owed BY <2>1, <2>2
    <2> QED BY <1>0, <1>1, <2>1, <2>3, <2>4, CreatePositionFeeds
<1>2. CASE p = 0 /\ s \in attached
    <2>1. F!Close(s) BY <1>0, <1>2, SMTT(30) DEF F!Close, Attach, ledgerVars
    <2> QED BY <2>1 DEF FeedStep, F!Next
<1>3. CASE (p = 0 /\ s \notin attached) \/ (p > 0 /\ s \in attached)
    <2>1. attached' = attached /\ UNCHANGED <<next_owed, ledgerVars>>
        BY <1>3 DEF Attach
    <2> QED BY <1>0, <2>1 DEF FeedStep, F!feedvars, ledgerVars
<1> QED BY <1>0, <1>1, <1>2, <1>3

\* RingCore::attach_from opens a reader at the floor or above it, or retunes one.
LEMMA AttachFromFeeds ==
    ASSUME Core, NEW s \in Subscribers, NEW p \in PushDepths, AttachFrom(s, p)
    PROVE  FeedStep
<1>0. p \in Nat /\ next_seq' = next_seq BY DepthsAssumption DEF AttachFrom, ringVars
<1>1. CASE s \notin attached
    <2> DEFINE primed == PrimedFrom(entries, next_seq, p) + 1
               owed == Larger(primed, floor)
    <2>1. primed \in Nat /\ Frontier(entries, next_seq) <= primed /\ primed <= next_seq
        BY <1>0, PrimingInRange
    <2>2. Frontier(entries, next_seq) \in Nat /\ 1 <= Frontier(entries, next_seq)
        <3>1. RingInv /\ next_seq \in Nat \ {0} BY DEF Core, RingInv
        <3> QED BY <3>1, RingFrontier
    <2>3. floor \in Nat /\ floor <= next_seq BY DEF Core, TypeOK, PositionsAreSound
    <2>4. CreatePosition(s, p, owed) BY <1>1 DEF AttachFrom
    <2> HIDE DEF primed
    <2>5. owed \in Nat /\ 1 <= owed /\ owed <= next_seq
        BY <2>1, <2>2, <2>3 DEF Larger
    <2> HIDE DEF owed
    <2> QED BY <1>0, <1>1, <2>4, <2>5, CreatePositionFeeds
<1>2. CASE s \in attached
    <2>1. attached' = attached /\ UNCHANGED <<next_owed, ledgerVars>>
        BY <1>2 DEF AttachFrom
    <2> QED BY <1>0, <2>1 DEF FeedStep, F!feedvars, ledgerVars
<1> QED BY <1>1, <1>2

\* Where a position and a window a..b of the numbers below e meet: what the
\* advance hands over, what it counts, and where the position ends.
LEMMA HandedPart ==
    ASSUME NEW n \in Nat, NEW a \in Nat, NEW b \in Nat, NEW e \in Nat, 1 <= n, a <= b, b < e
    PROVE  /\ n <= b => /\ {q \in a..b : q >= n} = Larger(n, a)..b
                        /\ Sat(a, n) = Larger(n, a) - n /\ Larger(n, b + 1) = b + 1
                        /\ Larger(n, a) \in 1..(e - 1) /\ b \in 1..(e - 1)
                        /\ n <= Larger(n, a) /\ Larger(n, a) <= b /\ b <= e - 1
           /\ n > b => {q \in a..b : q >= n} = {} /\ Sat(a, n) = 0 /\ Larger(n, b + 1) = n
           /\ n <= b \/ n > b
<1>1. CASE n <= a BY <1>1 DEF Larger, Sat
<1>2. CASE n > a BY <1>2 DEF Larger, Sat
<1> QED BY <1>1, <1>2

\* An advance over a dense window, however stale, hands over the part of it the
\* position has not passed and counts what lies before it; a window wholly
\* behind the position does nothing.
LEMMA PassesFeeds ==
    ASSUME Core, NEW s \in attached, NEW w, Passes(s, w)
    PROVE  FeedStep
<1> DEFINE n == next_owed[s]
           sf == SeenFloor(w)
           th == Through(w)
           from == Larger(n, sf)
<1>0. TypeOK /\ s \in Subscribers /\ next_seq \in Nat BY DEF Core, TypeOK
<1>1. /\ th \in Nat /\ sf \in Nat /\ sf <= th /\ th < next_seq
      /\ {w[i].seq : i \in 1..Len(w)} = sf..th
    BY DenseWindow DEF Passes
<1>2. n \in Nat /\ 1 <= n /\ dropped[s] \in Nat
    BY <1>0 DEF Core, TypeOK, PositionsAreSound
<1>3. /\ dropped' = [dropped EXCEPT ![s] = @ + Sat(sf, n)]
      /\ next_owed' = [next_owed EXCEPT ![s] = Larger(n, th + 1)]
      /\ served' = [served EXCEPT ![s] = @ \cup {q \in sf..th : q >= n}]
      /\ attached' = attached /\ next_seq' = next_seq
    BY <1>1 DEF Passes, AdvanceOver, ringVars
<1> HIDE DEF n, sf, th
<1> HIDE DEF from
<1>4. /\ n <= th => /\ {q \in sf..th : q >= n} = from..th
                    /\ Sat(sf, n) = from - n /\ Larger(n, th + 1) = th + 1
                    /\ from \in 1..(next_seq - 1) /\ th \in 1..(next_seq - 1)
                    /\ n <= from /\ from <= th /\ th <= next_seq - 1
      /\ n > th => {q \in sf..th : q >= n} = {} /\ Sat(sf, n) = 0 /\ Larger(n, th + 1) = n
      /\ n <= th \/ n > th
    BY <1>0, <1>1, <1>2, HandedPart DEF from
<1>5. CASE n <= th
    <2>1. F!Hand(s, from, th) BY <1>3, <1>4, <1>5 DEF F!Hand, n
    <2> QED BY <1>0, <1>4, <1>5, <2>1 DEF FeedStep, F!Next
<1>6. CASE n > th
    <2>1. dropped[s] + 0 = dropped[s] BY <1>2
    <2>2. /\ dropped' = dropped /\ next_owed' = next_owed /\ served' = served
        BY <1>0, <1>3, <1>4, <1>6, <2>1 DEF TypeOK, n
    <2> QED BY <1>3, <2>2 DEF FeedStep, F!feedvars
<1> QED BY <1>4, <1>5, <1>6

-----------------------------------------------------------------------------
\* Every step both hosts take is one of the feed's.
LEMMA CommonFeeds ==
    ASSUME Core, Common
    PROVE  FeedStep
<1>1. CASE AppendMessage BY <1>1, AppendMessageStep, RetiresFeeds
<1>2. ASSUME NEW d \in Depths, SetDepth(d) PROVE FeedStep
    BY <1>2, SetDepthStep, RetiresFeeds
<1>3. ASSUME NEW s \in Subscribers, NEW p \in PushDepths, Attach(s, p) \/ AttachFrom(s, p)
      PROVE  FeedStep
    BY <1>3, AttachFeeds, AttachFromFeeds
<1>4. ASSUME NEW s \in Subscribers, Detach(s) PROVE FeedStep
    <2>1. F!Close(s) BY <1>4 DEF F!Close, Detach, ringVars, ledgerVars
    <2> QED BY <2>1 DEF FeedStep, F!Next
<1>5. ASSUME NEW x \in Senders, NEW t \in 0..MaxTime, Park(x, t) PROVE FeedStep
    BY <1>5, ParkStep, ParksFeeds
<1>6. CASE ReleaseDue BY <1>6, ReleaseDueStep, RetiresFeeds
<1>7. ASSUME NEW x \in Senders, NEW i \in 1..Len(deferred),
             CancelDeferred(x, i) \/ \E t \in 0..MaxTime : EditDeferred(x, i, t)
      PROVE  FeedStep
    BY <1>7, CancelDeferredStep, EditDeferredStep, ParksFeeds
<1>8. CASE Tick BY <1>8, TickStep, ParksFeeds
<1> QED BY <1>1, <1>2, <1>3, <1>4, <1>5, <1>6, <1>7, <1>8 DEF Common

\* A step that leaves the cursors' books alone is no step of the feed.
LEMMA SameBooksFeed ==
    ASSUME UNCHANGED <<next_seq, attached, next_owed, served, dropped>>
    PROVE  FeedStep
BY DEF FeedStep, F!feedvars

\* The server host's advance over a window cut in an earlier lock hold.
LEMMA AdvanceFeeds ==
    ASSUME Core, NEW s \in Subscribers, Advance(s)
    PROVE  FeedStep
<1>1. CASE s \notin attached
    BY <1>1, SameBooksFeed DEF Advance, ringVars, ledgerVars
<1>2. CASE s \in attached
    <2> DEFINE w == window[s]
    <2>1. window \in [Subscribers -> Seq(Entry)] BY DEF Core, TypeOK
    <2>2. /\ w \in Seq(Row(Nat)) /\ w # << >> /\ Dense(w, Through(w)) /\ Through(w) < next_seq
        BY <2>1 DEF Core, WindowsAreDense, Advance, Entry
    <2>3. AdvanceOver(s, w) BY <1>2 DEF Advance
    <2>4. window' = [window EXCEPT ![s] = << >>] /\ next_seq' = next_seq
        BY DEF Advance, ringVars
    <2>5. window' \in [Subscribers -> Seq(Entry)] BY <2>1, <2>4
    <2>6. WindowsAreDense' BY <2>1, <2>4 DEF Core, WindowsAreDense
    <2> HIDE DEF w
    <2>7. /\ attached' = attached /\ push_depth' = push_depth
          /\ UNCHANGED <<ringVars, deferredVars, floor, now, minted, evicted>>
        BY DEF Advance
    <2>8. push_depth' \in [Subscribers -> Nat] /\ \A q \in attached : push_depth'[q] > 0
        BY <2>7 DEF Core, TypeOK, PositionsAreSound
    <2>9. Passes(s, w) BY <2>2, <2>3, <2>5, <2>6, <2>7, <2>8 DEF Passes
    <2> QED BY <1>2, <2>9, PassesFeeds
<1> QED BY <1>1, <1>2

\* The client host's window and advance in one call.
LEMMA ServeFeeds ==
    ASSUME Core, NEW s \in Subscribers, NEW p \in PushDepths, NEW r \in RetainDepths,
           Serve(s, p, r)
    PROVE  FeedStep
<1> DEFINE w == CutWindow(p, r)
<1>0. p \in Nat /\ p > 0 /\ r \in Nat /\ s \in attached BY DepthsAssumption DEF Serve
<1>1. CASE w = << >>
    BY <1>1, SameBooksFeed DEF Serve, ringVars, ledgerVars
<1>2. CASE w # << >>
    <2>1. AdvanceOver(s, w) BY <1>2 DEF Serve
    <2>2. w \in Seq(Row(Nat)) /\ Dense(w, Through(w)) /\ Through(w) < next_seq
        BY <1>0, <1>2, CutWindowDense
    <2>3. /\ attached' = attached /\ window' = window /\ push_depth' = [push_depth EXCEPT ![s] = p]
          /\ UNCHANGED <<ringVars, deferredVars, floor, now, minted, evicted>>
        BY DEF Serve
    <2>4. window' \in [Subscribers -> Seq(Entry)] /\ WindowsAreDense'
        BY <2>3 DEF Core, TypeOK, WindowsAreDense, ringVars
    <2>5. push_depth' \in [Subscribers -> Nat] /\ \A q \in attached : push_depth'[q] > 0
        BY <1>0, <2>3 DEF Core, TypeOK, PositionsAreSound
    <2> HIDE DEF w
    <2>6. Passes(s, w) BY <1>2, <2>1, <2>2, <2>3, <2>4, <2>5 DEF Passes
    <2> QED BY <1>0, <2>6, PassesFeeds
<1> QED BY <1>1, <1>2

\* A channel as constructed is a feed with nothing published and nobody reading.
LEMMA InitIsFeed == Init => F!Init
BY SMTT(30) DEF Init, F!Init

\* Every step of the attach client's host keeps the invariant and the books.
LEMMA AtomicKeepsBooks ==
    ASSUME Core, [AtomicNext]_vars
    PROVE  /\ Core'
           /\ EachLossReportedOnce => EachLossReportedOnce'
<1>1. CASE Common BY <1>1, CommonStep
<1>2. ASSUME NEW s \in Subscribers, NEW p \in PushDepths, NEW r \in RetainDepths,
             Serve(s, p, r)
      PROVE  Core' /\ (EachLossReportedOnce => EachLossReportedOnce')
    BY <1>2, ServeStep
<1>3. CASE UNCHANGED vars BY <1>3, StutterStep
<1> QED BY <1>1, <1>2, <1>3 DEF AtomicNext

\* Every step of the server's host is the feed's.
LEMMA SplitFeeds ==
    ASSUME Core, [SplitNext]_vars
    PROVE  FeedStep
<1>1. CASE Common BY <1>1, CommonFeeds
<1>2. ASSUME NEW s \in Subscribers, NEW p \in PushDepths, NEW r \in RetainDepths,
             Window(s, p, r)
      PROVE  FeedStep
    BY <1>2, SameBooksFeed DEF Window, ringVars, ledgerVars
<1>3. ASSUME NEW s \in Subscribers, Advance(s) PROVE FeedStep
    BY <1>3, AdvanceFeeds
<1>4. CASE UNCHANGED vars
    BY <1>4, SameBooksFeed DEF vars, ringVars, cursorVars, ledgerVars
<1> QED BY <1>1, <1>2, <1>3, <1>4 DEF SplitNext

\* And every step of the attach client's host.
LEMMA AtomicFeeds ==
    ASSUME Core, [AtomicNext]_vars
    PROVE  FeedStep
<1>1. CASE Common BY <1>1, CommonFeeds
<1>2. ASSUME NEW s \in Subscribers, NEW p \in PushDepths, NEW r \in RetainDepths,
             Serve(s, p, r)
      PROVE  FeedStep
    BY <1>2, ServeFeeds
<1>3. CASE UNCHANGED vars
    BY <1>3, SameBooksFeed DEF vars, ringVars, cursorVars, ledgerVars
<1> QED BY <1>1, <1>2, <1>3 DEF AtomicNext
=============================================================================
