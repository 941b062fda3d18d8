--------------------------- MODULE OutboxesProofs ---------------------------
(***************************************************************************)
(* Proofs about the client's outboxes, for any number of registrants, any  *)
(* queue depths and any number of connections: where a flush can be, that  *)
(* none is lost without a record or applied twice, and that none is        *)
(* offered ahead of an older one that is still owed.                       *)
(***************************************************************************)
EXTENDS Outboxes, Integers, TLAPS

\* Time for the provers on the steps of whole handlers.
USE ZenonT(30), SMTT(30)

-----------------------------------------------------------------------------
(* Sequences *)

\* The positions of a sequence, and what is there.
LEMMA Positions ==
    ASSUME NEW S, NEW s \in Seq(S)
    PROVE  Len(s) \in Nat /\ DOMAIN s = 1..Len(s) /\ \A i \in 1..Len(s) : s[i] \in S
OBVIOUS

\* A function on the first naturals is a sequence.
LEMMA Listed ==
    ASSUME NEW S, NEW n \in Nat, NEW s \in [1..n -> S]
    PROVE  s \in Seq(S) /\ Len(s) = n /\ DOMAIN s = 1..n
OBVIOUS

\* The head and the tail.
LEMMA Parts ==
    ASSUME NEW S, NEW s \in Seq(S), s # << >>
    PROVE  /\ Len(s) \in Nat \ {0} /\ DOMAIN s = 1..Len(s) /\ Head(s) = s[1] /\ Head(s) \in S
           /\ Tail(s) \in Seq(S) /\ Len(Tail(s)) = Len(s) - 1 /\ DOMAIN Tail(s) = 1..(Len(s) - 1)
           /\ \A i \in 1..(Len(s) - 1) : Tail(s)[i] = s[i + 1]
OBVIOUS

\* One element more.
LEMMA Longer ==
    ASSUME NEW S, NEW s \in Seq(S), NEW x \in S
    PROVE  /\ Append(s, x) \in Seq(S) /\ Len(Append(s, x)) = Len(s) + 1
           /\ Append(s, x)[Len(s) + 1] = x /\ \A i \in 1..Len(s) : Append(s, x)[i] = s[i]
OBVIOUS

\* Two sequences, one after the other.
LEMMA Joined ==
    ASSUME NEW S, NEW s \in Seq(S), NEW t \in Seq(S)
    PROVE  /\ s \o t \in Seq(S) /\ Len(s \o t) = Len(s) + Len(t)
           /\ \A i \in 1..(Len(s) + Len(t)) : (s \o t)[i] = IF i <= Len(s) THEN s[i] ELSE t[i - Len(s)]
OBVIOUS

\* A sequence without its first elements.
LEMMA Rest ==
    ASSUME NEW S, NEW s \in Seq(S), NEW m \in 0..Len(s)
    PROVE  /\ SubSeq(s, m + 1, Len(s)) \in Seq(S)
           /\ Len(SubSeq(s, m + 1, Len(s))) = Len(s) - m
           /\ DOMAIN SubSeq(s, m + 1, Len(s)) = 1..(Len(s) - m)
           /\ \A i \in 1..(Len(s) - m) : SubSeq(s, m + 1, Len(s))[i] = s[m + i]
OBVIOUS

\* A listing in increasing order repeats nothing.
LEMMA AscendingList ==
    ASSUME NEW S, S \subseteq Nat, NEW s \in Ascending(S)
    PROVE  /\ Len(s) \in Nat /\ DOMAIN s = 1..Len(s) /\ s \in [1..Len(s) -> S]
           /\ \A k \in S : \E n \in 1..Len(s) : s[n] = k
           /\ \A m, n \in 1..Len(s) : m < n => s[m] < s[n]
           /\ \A m, n \in 1..Len(s) : s[m] = s[n] => m = n
<1>1. PICK n \in 0..Cardinality(S) : s \in [1..n -> S] BY DEF Ascending
<1>2. S \subseteq Range(s) /\ \A i, j \in DOMAIN s : i < j => s[i] < s[j] BY DEF Ascending
<1>3. n \in Nat OBVIOUS
<1>4. Len(s) = n /\ DOMAIN s = 1..n BY <1>1, <1>3, Listed
<1>5. \A k \in S : \E i \in 1..n : s[i] = k BY <1>2, <1>4 DEF Range
<1>6. ASSUME NEW i \in 1..n, NEW j \in 1..n, s[i] = s[j], i # j PROVE FALSE
    <2>1. s[i] \in Nat /\ s[j] \in Nat BY <1>1
    <2>2. i < j \/ j < i BY <1>3, <1>6
    <2> QED BY <1>2, <1>4, <1>6, <2>1, <2>2
<1> QED BY <1>1, <1>2, <1>3, <1>4, <1>5, <1>6

-----------------------------------------------------------------------------
(* Queues and wires as sets *)

Batches == [id : Nat, generation : Nat]
Frames == [correlation : Nat, key : Keys, batch : Batches]

\* No batch is twice in a sequence of frames, and the batches there.
ByBatch(s) == \A i, j \in DOMAIN s : s[i].batch = s[j].batch => i = j
BatchesOf(s) == {s[i].batch : i \in DOMAIN s}

\* Taking the head off a queue of distinct batches leaves the others, still distinct.
LEMMA TailOfQueue ==
    ASSUME NEW T, NEW s \in Seq(T), s # << >>, IsInjective(s)
    PROVE  /\ Tail(s) \in Seq(T) /\ IsInjective(Tail(s))
           /\ Head(s) \in Range(s) /\ Head(s) \in T
           /\ Range(Tail(s)) = Range(s) \ {Head(s)}
<1>1. /\ Tail(s) \in Seq(T) /\ Head(s) \in T
      /\ \A i \in 1..(Len(s) - 1) : Tail(s)[i] = s[i + 1]
    BY Parts
<1>2. /\ DOMAIN s = 1..Len(s) /\ DOMAIN Tail(s) = 1..(Len(s) - 1)
      /\ Len(s) \in Nat \ {0} /\ Head(s) = s[1]
    BY Parts
<1>3. \A i \in 1..(Len(s) - 1) : i + 1 \in 1..Len(s) /\ Tail(s)[i] = s[i + 1] /\ i + 1 # 1
    BY <1>1, <1>2, SMTT(30)
<1>4. \A i \in 1..Len(s) : i # 1 => i - 1 \in 1..(Len(s) - 1) /\ Tail(s)[i - 1] = s[i]
    BY <1>1, <1>2, SMTT(30)
<1>5. IsInjective(Tail(s))
    BY <1>2, <1>3, SMTT(30) DEF IsInjective
<1>6. 1 \in 1..Len(s) BY <1>2
<1>7. Range(Tail(s)) \subseteq Range(s) \ {Head(s)}
    BY <1>2, <1>3, <1>6, SMTT(30) DEF Range, IsInjective
<1>8. Range(s) \ {Head(s)} \subseteq Range(Tail(s))
    <2> SUFFICES ASSUME NEW i \in 1..Len(s), s[i] # s[1] PROVE s[i] \in Range(Tail(s))
        BY <1>2 DEF Range
    <2>1. i - 1 \in DOMAIN Tail(s) /\ Tail(s)[i - 1] = s[i] BY <1>2, <1>4
    <2> QED BY <2>1 DEF Range
<1> QED BY <1>1, <1>2, <1>5, <1>6, <1>7, <1>8 DEF Range

\* Queueing a batch that is not there keeps a queue free of duplicates.
LEMMA AppendToQueue ==
    ASSUME NEW T, NEW s \in Seq(T), NEW x \in T, x \notin Range(s), IsInjective(s)
    PROVE  /\ Append(s, x) \in Seq(T) /\ IsInjective(Append(s, x))
           /\ Range(Append(s, x)) = Range(s) \cup {x}
<1> DEFINE t == Append(s, x)
<1>1. /\ t \in Seq(T) /\ Len(t) = Len(s) + 1 /\ t[Len(s) + 1] = x
      /\ \A i \in 1..Len(s) : t[i] = s[i]
    BY Longer, SMTT(30)
<1>2. DOMAIN s = 1..Len(s) /\ DOMAIN t = 1..(Len(s) + 1) /\ Len(s) \in Nat
    BY <1>1, Positions
<1> HIDE DEF t
<1>3. \A i \in DOMAIN t : i \in DOMAIN s \/ i = Len(s) + 1 BY <1>2
<1>4. DOMAIN s \subseteq DOMAIN t /\ Len(s) + 1 \in DOMAIN t BY <1>2
<1>5. \A i \in DOMAIN s : s[i] # x BY DEF Range
<1>6. IsInjective(t) BY <1>1, <1>2, <1>3, <1>5 DEF IsInjective
<1>7. Range(t) = Range(s) \cup {x} BY <1>1, <1>2, <1>3, <1>4 DEF Range
<1> QED BY <1>1, <1>6, <1>7 DEF t

\* A batch that is not there goes back in front of a queue.
LEMMA HeadOfQueue ==
    ASSUME NEW T, NEW s \in Seq(T), NEW x \in T, x \notin Range(s), IsInjective(s)
    PROVE  /\ <<x>> \o s \in Seq(T) /\ IsInjective(<<x>> \o s)
           /\ Range(<<x>> \o s) = Range(s) \cup {x}
<1> DEFINE t == <<x>> \o s
<1>0. <<x>> \in Seq(T) /\ Len(<<x>>) = 1 /\ <<x>>[1] = x OBVIOUS
<1>1. /\ t \in Seq(T) /\ Len(t) = 1 + Len(s)
      /\ \A i \in 1..(1 + Len(s)) : t[i] = IF i <= 1 THEN <<x>>[i] ELSE s[i - 1]
    BY <1>0, Joined
<1>2. DOMAIN s = 1..Len(s) /\ DOMAIN t = 1..(1 + Len(s)) /\ Len(s) \in Nat
    BY <1>1, Positions
<1> HIDE DEF t
<1>3. 1 \in DOMAIN t /\ t[1] = x BY <1>0, <1>1, <1>2, SMTT(30)
<1>4. \A i \in DOMAIN t : i # 1 => i - 1 \in DOMAIN s /\ t[i] = s[i - 1] BY <1>1, <1>2
<1>5. \A i \in DOMAIN s : i + 1 \in DOMAIN t /\ t[i + 1] = s[i] BY <1>1, <1>2
<1>6. \A i \in DOMAIN s : s[i] # x BY DEF Range
<1>7. IsInjective(t)
    <2> SUFFICES ASSUME NEW i \in DOMAIN t, NEW j \in DOMAIN t, t[i] = t[j] PROVE i = j
        BY DEF IsInjective
    <2>1. CASE i = 1 \/ j = 1 BY <2>1, <1>3, <1>4, <1>6
    <2>2. CASE i # 1 /\ j # 1
        <3>1. i - 1 = j - 1 BY <2>2, <1>4 DEF IsInjective
        <3> QED BY <3>1, <1>2
    <2> QED BY <2>1, <2>2
<1>8. Range(t) = Range(s) \cup {x} BY <1>3, <1>4, <1>5, SMTT(30) DEF Range
<1> QED BY <1>1, <1>7, <1>8 DEF t

\* What survives re-validation is a part of the queue, in the order of the queue.
LEMMA SurvivorsOfQueue ==
    ASSUME NEW T, NEW q \in Seq(T), IsInjective(q), NEW t \in Survivors(q)
    PROVE  /\ t \in Seq(T) /\ IsInjective(t) /\ Range(t) \subseteq Range(q)
           /\ \E s \in [DOMAIN t -> DOMAIN q] :
                 /\ \A n \in DOMAIN t : t[n] = q[s[n]]
                 /\ \A m, n \in DOMAIN t : m < n => s[m] < s[n]
<1>1. DOMAIN q = 1..Len(q) /\ Len(q) \in Nat /\ \A i \in DOMAIN q : q[i] \in T BY Positions
<1> PICK s \in UNION {Ascending(I) : I \in SUBSET DOMAIN q} : t = [n \in DOMAIN s |-> q[s[n]]]
    BY DEF Survivors
<1>2. PICK I \in SUBSET DOMAIN q : s \in Ascending(I) OBVIOUS
<1>3. I \subseteq Nat BY <1>1, SMTT(30)
<1>4. /\ Len(s) \in Nat /\ DOMAIN s = 1..Len(s) /\ s \in [1..Len(s) -> I]
      /\ \A m, n \in 1..Len(s) : m < n => s[m] < s[n]
      /\ \A m, n \in 1..Len(s) : s[m] = s[n] => m = n
    BY <1>2, <1>3, AscendingList
<1>5. t \in [1..Len(s) -> T] BY <1>1, <1>4
<1>6. t \in Seq(T) /\ DOMAIN t = 1..Len(s) BY <1>4, <1>5, Listed
<1>7. s \in [DOMAIN t -> DOMAIN q] /\ \A n \in DOMAIN t : t[n] = q[s[n]] /\ s[n] \in DOMAIN q
    BY <1>4, <1>6
<1>8. IsInjective(t) BY <1>4, <1>6, <1>7, SMTT(30) DEF IsInjective
<1>9. Range(t) \subseteq Range(q) BY <1>7 DEF Range
<1> QED BY <1>4, <1>6, <1>7, <1>8, <1>9

-----------------------------------------------------------------------------
(* Frames *)

\* Frames for other batches written behind those on a wire.
LEMMA WireAfterWire ==
    ASSUME NEW s \in Seq(Frames), NEW t \in Seq(Frames), ByBatch(s), ByBatch(t),
           BatchesOf(s) \cap BatchesOf(t) = {}
    PROVE  /\ s \o t \in Seq(Frames) /\ ByBatch(s \o t)
           /\ Range(s \o t) = Range(s) \cup Range(t)
           /\ BatchesOf(s \o t) = BatchesOf(s) \cup BatchesOf(t)
<1> DEFINE u == s \o t
<1>1. /\ u \in Seq(Frames) /\ Len(u) = Len(s) + Len(t)
      /\ \A i \in 1..(Len(s) + Len(t)) : u[i] = IF i <= Len(s) THEN s[i] ELSE t[i - Len(s)]
    BY Joined
<1>2. /\ DOMAIN s = 1..Len(s) /\ DOMAIN t = 1..Len(t) /\ DOMAIN u = 1..(Len(s) + Len(t))
      /\ Len(s) \in Nat /\ Len(t) \in Nat
    BY <1>1, Positions
<1> HIDE DEF u
<1>3. \A i \in DOMAIN u :
        (i \in DOMAIN s /\ u[i] = s[i]) \/ (i - Len(s) \in DOMAIN t /\ u[i] = t[i - Len(s)])
    BY <1>1, <1>2, SMTT(30)
<1>4. \A i \in DOMAIN s : i \in DOMAIN u /\ u[i] = s[i] BY <1>1, <1>2, SMTT(30)
<1>5. \A i \in DOMAIN t : i + Len(s) \in DOMAIN u /\ u[i + Len(s)] = t[i]
    <2> TAKE i \in DOMAIN t
    <2>1. /\ i + Len(s) \in 1..(Len(s) + Len(t)) /\ ~(i + Len(s) <= Len(s))
          /\ i + Len(s) - Len(s) = i
        BY <1>2, SMTT(30)
    <2> QED BY <2>1, <1>1, <1>2, SMTT(30)
<1>6. ByBatch(u)
    <2> SUFFICES ASSUME NEW i \in DOMAIN u, NEW j \in DOMAIN u, u[i].batch = u[j].batch
                 PROVE  i = j
        BY DEF ByBatch
    <2>1. \A a \in DOMAIN s, b \in DOMAIN t : s[a].batch # t[b].batch BY DEF BatchesOf
    <2>2. CASE i \in DOMAIN s /\ u[i] = s[i]
        BY <2>1, <2>2, <1>3 DEF ByBatch
    <2>3. CASE i - Len(s) \in DOMAIN t /\ u[i] = t[i - Len(s)]
        <3>1. j - Len(s) \in DOMAIN t /\ u[j] = t[j - Len(s)] BY <2>1, <2>3, <1>3
        <3>2. i - Len(s) = j - Len(s) BY <2>3, <3>1 DEF ByBatch
        <3> QED BY <3>2, <1>2, SMTT(30)
    <2> QED BY <2>2, <2>3, <1>3
<1>7. Range(u) = Range(s) \cup Range(t)
    <2>1. Range(u) \subseteq Range(s) \cup Range(t) BY <1>3 DEF Range
    <2>2. Range(s) \subseteq Range(u) BY <1>4 DEF Range
    <2>3. Range(t) \subseteq Range(u) BY <1>5 DEF Range
    <2> QED BY <2>1, <2>2, <2>3
<1>8. BatchesOf(u) = BatchesOf(s) \cup BatchesOf(t)
    <2>1. BatchesOf(u) \subseteq BatchesOf(s) \cup BatchesOf(t) BY <1>3 DEF BatchesOf
    <2>2. BatchesOf(s) \subseteq BatchesOf(u) BY <1>4 DEF BatchesOf
    <2>3. BatchesOf(t) \subseteq BatchesOf(u) BY <1>5 DEF BatchesOf
    <2> QED BY <2>1, <2>2, <2>3
<1> QED BY <1>1, <1>6, <1>7, <1>8 DEF u

-----------------------------------------------------------------------------
(* The invariant, of any queues, tables, wires and records *)

Outbox == [generation : Nat, depth : Nat, parked : Seq(Batches), in_flight : SUBSET Nat,
           dropped : Int, discarded : BOOLEAN, rate_limited : Nat]
Answers == [correlation : Nat, ok : BOOLEAN]

InQueues(regs) == UNION {Range(regs[k].parked) : k \in DOMAIN regs}
InWires(ws) == UNION {BatchesOf(ws[c]) : c \in 1..MaxConns}
InTable(table) == {p.batch : p \in table}

\* Batches refused, with the refusal on its way to the client.
Returning(table, ans) ==
    {p.batch : p \in {q \in table : \E i \in DOMAIN ans :
                                      ans[i].correlation = q.correlation /\ ~ans[i].ok}}

QueuesOK(regs) ==
    /\ DOMAIN regs \subseteq Keys /\ regs \in [DOMAIN regs -> Outbox]
    /\ \A k \in DOMAIN regs : IsInjective(regs[k].parked)
    /\ \A j, k \in DOMAIN regs : j # k => Range(regs[j].parked) \cap Range(regs[k].parked) = {}

WiresOK(ws) ==
    /\ ws \in [1..MaxConns -> Seq(Frames)]
    /\ \A c \in 1..MaxConns : ByBatch(ws[c])
    /\ \A c, d \in 1..MaxConns : c # d => BatchesOf(ws[c]) \cap BatchesOf(ws[d]) = {}

TableOK(table, nc) ==
    /\ nc \in Nat /\ table \subseteq Frames
    /\ \A p \in table : p.correlation < nc
    /\ \A p, q \in table : p.correlation = q.correlation \/ p.batch = q.batch => p = q

AnswersOK(ans, table) ==
    /\ ans \in Seq(Answers)
    /\ \A i \in DOMAIN ans : \E p \in table : p.correlation = ans[i].correlation
    /\ \A i, j \in DOMAIN ans : ans[i].correlation = ans[j].correlation => i = j

-----------------------------------------------------------------------------
(* What a pump sends *)

\* What QueuesOK says of one outbox.
LEMMA QueuesApart ==
    ASSUME NEW regs, QueuesOK(regs)
    PROVE  /\ \A k \in DOMAIN regs : /\ regs[k] \in Outbox /\ regs[k].parked \in Seq(Batches)
                                      /\ IsInjective(regs[k].parked)
           /\ \A j, k \in DOMAIN regs : \A f :
                  f \in Range(regs[j].parked) /\ f \in Range(regs[k].parked) => j = k
<1>1. \A k \in DOMAIN regs : regs[k] \in Outbox /\ IsInjective(regs[k].parked) BY DEF QueuesOK
<1>2. \A k \in DOMAIN regs : regs[k].parked \in Seq(Batches) BY <1>1 DEF Outbox
<1>3. ASSUME NEW j \in DOMAIN regs, NEW k \in DOMAIN regs, NEW f,
             f \in Range(regs[j].parked), f \in Range(regs[k].parked), j # k
      PROVE  FALSE
    <2>1. Range(regs[j].parked) \cap Range(regs[k].parked) = {} BY <1>3 DEF QueuesOK
    <2> QED BY <1>3, <2>1
<1> QED BY <1>1, <1>2, <1>3

\* What a pump over `keys` puts on a wire: `frames`, F[k] being the one for registrant
\* k, with correlations from nc on, below nc + n.
Offers(regs, keys, frames, F, nc, n) ==
    /\ n \in Nat /\ frames \in Seq(Frames) /\ ByBatch(frames)
    /\ F \in [Ready(regs, keys) -> Frames] /\ Range(frames) = Range(F)
    /\ \A k \in Ready(regs, keys) : /\ F[k].key = k /\ F[k].batch = Head(regs[k].parked)
                                    /\ F[k].correlation >= nc /\ F[k].correlation < nc + n
    /\ \A j, k \in Ready(regs, keys) : F[j].correlation = F[k].correlation => j = k

\* What a ready registrant has at the head of its queue.
LEMMA ReadyHeads ==
    ASSUME NEW regs, QueuesOK(regs), NEW keys
    PROVE  /\ Ready(regs, keys) \subseteq DOMAIN regs /\ Ready(regs, keys) \subseteq Keys
           /\ \A k \in Ready(regs, keys) :
                /\ regs[k].parked # << >> /\ regs[k].in_flight = {}
                /\ Tail(regs[k].parked) \in Seq(Batches) /\ IsInjective(Tail(regs[k].parked))
                /\ Head(regs[k].parked) \in Range(regs[k].parked)
                /\ Head(regs[k].parked) \in Batches
                /\ Range(Tail(regs[k].parked)) = Range(regs[k].parked) \ {Head(regs[k].parked)}
           /\ \A k \in Ready(regs, keys), j \in DOMAIN regs :
                Head(regs[k].parked) \in Range(regs[j].parked) => k = j
<1>1. /\ Ready(regs, keys) \subseteq DOMAIN regs /\ Ready(regs, keys) \subseteq Keys
      /\ \A k \in Ready(regs, keys) : regs[k].parked # << >> /\ regs[k].in_flight = {}
    BY DEF Ready, QueuesOK, None
<1>2. \A k \in DOMAIN regs : regs[k].parked \in Seq(Batches) /\ IsInjective(regs[k].parked)
    BY QueuesApart
<1>3. \A k \in Ready(regs, keys) :
        /\ Tail(regs[k].parked) \in Seq(Batches) /\ IsInjective(Tail(regs[k].parked))
        /\ Head(regs[k].parked) \in Range(regs[k].parked)
        /\ Head(regs[k].parked) \in Batches
        /\ Range(Tail(regs[k].parked)) = Range(regs[k].parked) \ {Head(regs[k].parked)}
    <2> TAKE k \in Ready(regs, keys)
    <2>1. regs[k].parked \in Seq(Batches) /\ IsInjective(regs[k].parked) /\ regs[k].parked # << >>
        BY <1>1, <1>2
    <2> QED BY ONLY <2>1, TailOfQueue, ZenonT(20)
<1>4. \A k \in Ready(regs, keys), j \in DOMAIN regs :
        Head(regs[k].parked) \in Range(regs[j].parked) => k = j
    BY <1>1, <1>3, QueuesApart
<1> QED BY <1>1, <1>3, <1>4

\* What Pump does, in terms of the frames it sends.
LEMMA PumpOffers ==
    \A regs, keys, table, con :
        QueuesOK(regs) /\ next_correlation \in Nat /\ Pump(regs, keys, table, con) =>
            \E frames, F, n :
               /\ Offers(regs, keys, frames, F, next_correlation, n)
               /\ registrants' = Sent(regs, Range(F)) /\ pending' = table \cup Range(F)
               /\ next_correlation' = next_correlation + n
               /\ wires' = [wires EXCEPT ![con] = @ \o frames]
               /\ RetryWakeup(registrants', TRUE)
\* Outboxes::pump writes one frame for each ready registrant, numbered upwards.
<1>PumpSends. ASSUME NEW regs, QueuesOK(regs), NEW keys, NEW order \in Ascending(Ready(regs, keys)),
             next_correlation \in Nat
      PROVE  \E F : Offers(regs, keys, Written(regs, order), F, next_correlation, Len(order))
    <2> USE <1>PumpSends
    <2> DEFINE ready == Ready(regs, keys)
               frames == Written(regs, order)
               N == Len(order)
    <2>1. /\ ready \subseteq Keys /\ ready \subseteq Nat
          /\ \A k \in ready : Head(regs[k].parked) \in Batches
          /\ \A j, k \in ready : Head(regs[j].parked) = Head(regs[k].parked) => j = k
        <3>1. /\ ready \subseteq Keys /\ ready \subseteq DOMAIN regs
              /\ \A k \in ready : /\ Head(regs[k].parked) \in Batches
                                  /\ Head(regs[k].parked) \in Range(regs[k].parked)
              /\ \A k \in ready, j \in DOMAIN regs :
                    Head(regs[k].parked) \in Range(regs[j].parked) => k = j
            BY ReadyHeads
        <3> HIDE DEF ready
        <3> QED BY <3>1, KeysAssumption
    <2> HIDE DEF ready
    <2>2. /\ N \in Nat /\ DOMAIN order = 1..N /\ order \in [1..N -> ready]
          /\ \A k \in ready : \E n \in 1..N : order[n] = k
          /\ \A m, n \in 1..N : order[m] = order[n] => m = n
        BY <2>1, AscendingList, SMTT(30) DEF ready
    <2> HIDE DEF N
    <2>3. /\ DOMAIN frames = 1..N
          /\ \A n \in 1..N : /\ frames[n].correlation = next_correlation + n - 1
                             /\ frames[n].key = order[n]
                             /\ frames[n].batch = Head(regs[order[n]].parked)
                             /\ frames[n] = [correlation |-> next_correlation + n - 1,
                                             key |-> order[n], batch |-> Head(regs[order[n]].parked)]
        BY <2>2 DEF Written, Frame
    <2> DEFINE At == [k \in ready |-> CHOOSE n \in 1..N : order[n] = k]
               F == [k \in ready |-> frames[At[k]]]
    <2>4. /\ \A k \in ready : At[k] \in 1..N /\ order[At[k]] = k
          /\ \A n \in 1..N : order[n] \in ready /\ At[order[n]] = n
        <3>1. \A k \in ready : At[k] \in 1..N /\ order[At[k]] = k BY <2>2
        <3> HIDE DEF At
        <3> QED BY <2>2, <3>1, SMTT(30)
    <2>5. \A n \in 1..N : frames[n] \in Frames
        <3> TAKE n \in 1..N
        <3>1. next_correlation + n - 1 \in Nat BY <2>2, SMTT(30)
        <3>2. order[n] \in Keys /\ Head(regs[order[n]].parked) \in Batches BY <2>1, <2>2
        <3> QED BY <2>3, <3>1, <3>2, SMTT(30) DEF Frames
    <2>6. frames \in Seq(Frames)
        <3>1. frames = [n \in 1..N |-> frames[n]] BY <2>2 DEF Written
        <3> HIDE DEF frames
        <3>2. frames \in [1..N -> Frames] BY <3>1, <2>5
        <3> QED BY <2>2, <3>2, Listed
    <2> HIDE DEF frames, At
    <2>7. \A m, n \in 1..N : frames[m].batch = frames[n].batch => m = n
        <3> TAKE m, n \in 1..N
        <3>1. order[m] \in ready /\ order[n] \in ready BY <2>2
        <3>2. /\ frames[m].batch = Head(regs[order[m]].parked)
              /\ frames[n].batch = Head(regs[order[n]].parked)
            BY <2>3
        <3>3. frames[m].batch = frames[n].batch => order[m] = order[n] BY <2>1, <3>1, <3>2
        <3> QED BY <2>2, <3>3
    <2>8. F \in [ready -> Frames] /\ \A k \in ready : F[k] = frames[At[k]] BY <2>4, <2>5
    <2> HIDE DEF F
    <2>9. Range(frames) = Range(F)
        <3>1. \A n \in 1..N : frames[n] = F[order[n]] /\ order[n] \in ready BY <2>4, <2>8
        <3>2. Range(frames) \subseteq Range(F) BY <2>3, <2>8, <3>1, SMTT(30) DEF Range
        <3>3. Range(F) \subseteq Range(frames) BY <2>3, <2>4, <2>8, SMTT(30) DEF Range
        <3> QED BY <3>2, <3>3
    <2>10. \A k \in ready : /\ F[k].key = k /\ F[k].batch = Head(regs[k].parked)
                             /\ F[k].correlation = next_correlation + At[k] - 1
        BY <2>3, <2>4, <2>8, SMTT(30)
    <2>11. \A k \in ready : F[k].correlation >= next_correlation /\ F[k].correlation < next_correlation + N
        <3> TAKE k \in ready
        <3>1. PICK n \in 1..N : n = At[k] BY <2>4
        <3> QED BY <2>2, <2>10, <3>1, SMTT(30)
    <2>12. ASSUME NEW j \in ready, NEW k \in ready, F[j].correlation = F[k].correlation PROVE j = k
        <3>1. PICK m \in 1..N : m = At[j] BY <2>4
        <3>2. PICK n \in 1..N : n = At[k] BY <2>4
        <3>3. m = n BY <2>2, <2>10, <2>12, <3>1, <3>2, SMTT(30)
        <3> QED BY <2>4, <3>1, <3>2, <3>3
    <2>13. ByBatch(frames) BY <2>3, <2>7 DEF ByBatch
    <2>14. Offers(regs, keys, frames, F, next_correlation, N)
        BY <2>2, <2>6, <2>8, <2>9, <2>10, <2>11, <2>12, <2>13 DEF Offers, ready
    <2> QED BY <2>14 DEF frames, N
<1> SUFFICES ASSUME NEW regs, QueuesOK(regs), NEW keys, NEW table, NEW con, next_correlation \in Nat,
                    Pump(regs, keys, table, con)
             PROVE  \E frames, F, n :
                       /\ Offers(regs, keys, frames, F, next_correlation, n)
                       /\ registrants' = Sent(regs, Range(F)) /\ pending' = table \cup Range(F)
                       /\ next_correlation' = next_correlation + n
                       /\ wires' = [wires EXCEPT ![con] = @ \o frames]
                       /\ RetryWakeup(registrants', TRUE)
    OBVIOUS
<1>1. PICK order \in Ascending(Ready(regs, keys)) :
        /\ registrants' = Sent(regs, Range(Written(regs, order)))
        /\ pending' = table \cup Range(Written(regs, order))
        /\ next_correlation' = next_correlation + Len(order)
        /\ wires' = [wires EXCEPT ![con] = @ \o Written(regs, order)]
        /\ RetryWakeup(registrants', TRUE)
    BY DEF Pump
<1>2. PICK F : Offers(regs, keys, Written(regs, order), F, next_correlation, Len(order))
    BY <1>PumpSends
<1>3. Range(Written(regs, order)) = Range(F) BY <1>2 DEF Offers
<1> QED BY <1>1, <1>2, <1>3

\* The frames of a pump are for distinct queued batches, under new correlations.
LEMMA OfferedFrames ==
    ASSUME NEW regs, QueuesOK(regs), NEW keys, NEW frames, NEW F, NEW nc, NEW n,
           Offers(regs, keys, frames, F, nc, n)
    PROVE  /\ InTable(Range(F)) = {Head(regs[k].parked) : k \in Ready(regs, keys)}
           /\ BatchesOf(frames) = InTable(Range(F)) /\ InTable(Range(F)) \subseteq InQueues(regs)
           /\ \A p \in Range(F) : p \in Frames /\ p.correlation >= nc /\ p.correlation < nc + n
           /\ \A p, q \in Range(F) : p.correlation = q.correlation \/ p.batch = q.batch => p = q
<1> DEFINE ready == Ready(regs, keys)
<1>1. /\ F \in [ready -> Frames] /\ Range(frames) = Range(F)
      /\ \A k \in ready : /\ F[k].key = k /\ F[k].batch = Head(regs[k].parked)
                          /\ F[k].correlation >= nc /\ F[k].correlation < nc + n
      /\ \A j, k \in ready : F[j].correlation = F[k].correlation => j = k
    BY DEF Offers
<1>2. /\ ready \subseteq DOMAIN regs
      /\ \A k \in ready : Head(regs[k].parked) \in Range(regs[k].parked)
      /\ \A k \in ready, j \in DOMAIN regs :
            Head(regs[k].parked) \in Range(regs[j].parked) => k = j
    BY ReadyHeads
<1> HIDE DEF ready
<1>3. Range(F) = {F[k] : k \in ready} BY <1>1 DEF Range
<1>4. InTable(Range(F)) = {Head(regs[k].parked) : k \in ready} BY <1>1, <1>3, SMTT(30) DEF InTable
<1>5. BatchesOf(frames) = InTable(Range(F))
    <2>1. BatchesOf(frames) = {f.batch : f \in Range(frames)} BY DEF BatchesOf, Range
    <2> QED BY <1>1, <2>1 DEF InTable
<1>6. InTable(Range(F)) \subseteq InQueues(regs) BY <1>2, <1>4, SMTT(30) DEF InQueues
<1>7. \A p \in Range(F) : p \in Frames /\ p.correlation >= nc /\ p.correlation < nc + n
    <2> TAKE p \in Range(F)
    <2>1. PICK k \in ready : p = F[k] BY <1>3
    <2> QED BY <1>1, <2>1
<1>8. \A j, k \in ready : F[j].batch = F[k].batch => j = k
    <2> SUFFICES ASSUME NEW j \in ready, NEW k \in ready, F[j].batch = F[k].batch PROVE j = k
        OBVIOUS
    <2>1. PICK h : h = Head(regs[j].parked) /\ h = Head(regs[k].parked) BY <1>1
    <2>2. h \in Range(regs[k].parked) /\ k \in DOMAIN regs BY <1>2, <2>1
    <2> QED BY <1>2, <2>1, <2>2
<1>9. \A p, q \in Range(F) : p.correlation = q.correlation \/ p.batch = q.batch => p = q
    BY <1>1, <1>3, <1>8, SMTT(30)
<1> QED BY <1>4, <1>5, <1>6, <1>7, <1>9 DEF ready

\* The outboxes after a pump: heads taken where there was one to send.
Pumped(regs, ready, F, after) ==
    /\ DOMAIN after = DOMAIN regs
    /\ \A k \in DOMAIN regs \ ready : after[k] = regs[k]
    /\ \A k \in ready : after[k] = [regs[k] EXCEPT !.parked = Tail(regs[k].parked),
                                                !.in_flight = {F[k].correlation}]

\* Sent leaves them so.
LEMMA PumpedOutboxes ==
    ASSUME NEW regs, QueuesOK(regs), NEW keys, NEW frames, NEW F, NEW nc, NEW n,
           Offers(regs, keys, frames, F, nc, n)
    PROVE  Pumped(regs, Ready(regs, keys), F, Sent(regs, Range(F)))
<1> DEFINE ready == Ready(regs, keys)
           after == Sent(regs, Range(F))
<1>1. /\ F \in [ready -> Frames] /\ \A k \in ready : F[k].key = k BY DEF Offers
<1>2. ready \subseteq DOMAIN regs BY ReadyHeads
<1> HIDE DEF ready
<1>3. Range(F) = {F[k] : k \in ready} BY <1>1 DEF Range
<1>4. \A k \in DOMAIN regs : (\E f \in Range(F) : f.key = k) <=> k \in ready BY <1>1, <1>3
<1>5. \A k \in ready : {f.correlation : f \in {g \in Range(F) : g.key = k}} = {F[k].correlation}
    <2> TAKE k \in ready
    <2>1. {g \in Range(F) : g.key = k} = {F[k]} BY <1>1, <1>3, SMTT(30)
    <2> QED BY <2>1
<1>6. /\ DOMAIN after = DOMAIN regs
      /\ \A k \in DOMAIN regs : after[k] =
            IF \E f \in Range(F) : f.key = k
            THEN [regs[k] EXCEPT !.parked = Tail(@),
                    !.in_flight = {f.correlation : f \in {g \in Range(F) : g.key = k}}]
            ELSE regs[k]
    BY DEF Sent
<1> HIDE DEF after
<1>7. \A k \in DOMAIN regs \ ready : after[k] = regs[k] BY <1>4, <1>6
<1>8. ASSUME NEW k \in ready
      PROVE  after[k] = [regs[k] EXCEPT !.parked = Tail(regs[k].parked),
                                        !.in_flight = {F[k].correlation}]
    <2>1. PICK r \in Outbox : r = regs[k] BY <1>2, QueuesApart
    <2>2. after[k] = [r EXCEPT !.parked = Tail(@),
                        !.in_flight = {f.correlation : f \in {g \in Range(F) : g.key = k}}]
        BY <1>2, <1>4, <1>6, <2>1
    <2>3. after[k] = [r EXCEPT !.parked = Tail(@), !.in_flight = {F[k].correlation}]
        BY <1>5, <2>2
    <2>4. [r EXCEPT !.parked = Tail(@), !.in_flight = {F[k].correlation}]
            = [r EXCEPT !.parked = Tail(r.parked), !.in_flight = {F[k].correlation}]
        BY DEF Outbox
    <2> QED BY <2>1, <2>3, <2>4
<1> QED BY <1>6, <1>7, <1>8 DEF after, ready, Pumped

-----------------------------------------------------------------------------
(* Edits of one queue, of all queues and of one wire *)

\* One queue replaced by one that shares no batch with the others.
LEMMA EditQueue ==
    ASSUME NEW regs, QueuesOK(regs), NEW k \in DOMAIN regs, NEW o \in Outbox,
           IsInjective(o.parked),
           Range(o.parked) \cap (InQueues(regs) \ Range(regs[k].parked)) = {}
    PROVE  /\ QueuesOK([regs EXCEPT ![k] = o])
           /\ InQueues([regs EXCEPT ![k] = o])
                = (InQueues(regs) \ Range(regs[k].parked)) \cup Range(o.parked)
<1> DEFINE after == [regs EXCEPT ![k] = o]
<1>1. /\ DOMAIN after = DOMAIN regs /\ after[k] = o
      /\ \A j \in DOMAIN regs : j # k => after[j] = regs[j]
    OBVIOUS
<1>2. DOMAIN regs \subseteq Keys /\ regs \in [DOMAIN regs -> Outbox] BY DEF QueuesOK
<1>3. after \in [DOMAIN after -> Outbox] BY <1>1, <1>2
<1> HIDE DEF after
<1>4. \A f : f \in InQueues(regs) <=> \E j \in DOMAIN regs : f \in Range(regs[j].parked)
    BY DEF InQueues
<1>5. \A f : f \in InQueues(after) <=> \E j \in DOMAIN regs : f \in Range(after[j].parked)
    BY <1>1 DEF InQueues
<1>6. \A j \in DOMAIN regs : j # k => Range(regs[j].parked) \cap Range(regs[k].parked) = {}
    BY DEF QueuesOK
<1>7. \A j \in DOMAIN regs : j # k => Range(regs[j].parked) \cap Range(o.parked) = {}
    BY <1>4, <1>6
<1>8. \A j \in DOMAIN after : IsInjective(after[j].parked) BY <1>1 DEF QueuesOK
<1>9. ASSUME NEW i \in DOMAIN after, NEW j \in DOMAIN after, i # j
      PROVE  Range(after[i].parked) \cap Range(after[j].parked) = {}
    <2>1. CASE i = k BY <1>1, <1>7, <1>9, <2>1
    <2>2. CASE j = k BY <1>1, <1>7, <1>9, <2>2
    <2>3. CASE i # k /\ j # k BY <1>1, <1>9, <2>3 DEF QueuesOK
    <2> QED BY <2>1, <2>2, <2>3
<1>10. QueuesOK(after) BY <1>1, <1>2, <1>3, <1>8, <1>9 DEF QueuesOK
<1>11. InQueues(after) = (InQueues(regs) \ Range(regs[k].parked)) \cup Range(o.parked)
    BY <1>1, <1>4, <1>5, <1>6
<1> QED BY <1>10, <1>11 DEF after

\* Every flush of a queue and the one parked are in the queue or dropped, and
\* not both.
LEMMA ParkOutbox ==
    \A o \in Outbox, f \in Batches, at_head \in BOOLEAN :
        IsInjective(o.parked) /\ f \notin Range(o.parked) =>
            /\ Park(o, f, at_head) \in Outbox /\ IsInjective(Park(o, f, at_head).parked)
            /\ Range(Park(o, f, at_head).parked) \cup ParkDropped(o, f, at_head)
                 = Range(o.parked) \cup {f}
            /\ Range(Park(o, f, at_head).parked) \cap ParkDropped(o, f, at_head) = {}
\* The cap keeps a suffix, and what it takes is what it does not keep.
<1>CapOfQueue. ASSUME NEW T, NEW q \in Seq(T), IsInjective(q), NEW depth \in Nat
      PROVE  LET over == Overflow(q, depth)
                 kept == SubSeq(q, over + 1, Len(q))
                 dropped == {q[i] : i \in 1..over}
             IN  /\ over \in Nat
                 /\ kept \in Seq(T) /\ IsInjective(kept)
                 /\ Range(kept) \cup dropped = Range(q) /\ Range(kept) \cap dropped = {}
    <2> USE <1>CapOfQueue
    <2> DEFINE over == Overflow(q, depth)
               kept == SubSeq(q, over + 1, Len(q))
               dropped == {q[i] : i \in 1..over}
    <2>0. Len(q) \in Nat /\ DOMAIN q = 1..Len(q) /\ \A i \in 1..Len(q) : q[i] \in T
        BY Positions
    <2>1. over \in 0..Len(q) BY <2>0 DEF Overflow
    <2> HIDE DEF over
    <2>3. kept \in Seq(T) /\ DOMAIN kept = 1..(Len(q) - over)
        BY <2>1, Rest
    <2>4. \A i \in 1..(Len(q) - over) : kept[i] = q[over + i] BY <2>1, Rest
    <2> HIDE DEF kept
    <2>5. \A i \in 1..(Len(q) - over) : over + i \in DOMAIN q /\ over + i > over /\ kept[i] = q[over + i]
        BY <2>0, <2>1, <2>4
    <2>6. \A i \in DOMAIN q : i > over => i - over \in DOMAIN kept /\ kept[i - over] = q[i]
        <3> SUFFICES ASSUME NEW i \in DOMAIN q, i > over
                     PROVE  i - over \in DOMAIN kept /\ kept[i - over] = q[i]
            OBVIOUS
        <3>1. i - over \in 1..(Len(q) - over) /\ over + (i - over) = i BY <2>0, <2>1
        <3> QED BY <3>1, <2>3, <2>5
    <2>7. IsInjective(kept)
        <3> SUFFICES ASSUME NEW i \in DOMAIN kept, NEW j \in DOMAIN kept, kept[i] = kept[j] PROVE i = j
            BY DEF IsInjective
        <3>1. over + i = over + j BY <2>3, <2>5 DEF IsInjective
        <3> QED BY <3>1, <2>0, <2>1, <2>3
    <2>8. Range(kept) \cup dropped = Range(q)
        <3>1. Range(kept) \subseteq Range(q) BY <2>3, <2>5 DEF Range
        <3>2. dropped \subseteq Range(q) BY <2>0, <2>1, SMTT(30) DEF Range
        <3>3. \A i \in DOMAIN q : q[i] \in Range(kept) \cup dropped
            <4> TAKE i \in DOMAIN q
            <4>1. CASE i > over BY <4>1, <2>6 DEF Range
            <4>2. CASE ~(i > over)
                <5>1. i \in 1..over BY <4>2, <2>0, <2>1
                <5> QED BY <5>1
            <4> QED BY <4>1, <4>2
        <3> QED BY <3>1, <3>2, <3>3 DEF Range
    <2>9. Range(kept) \cap dropped = {}
        <3> SUFFICES ASSUME NEW i \in DOMAIN kept, NEW j \in 1..over, kept[i] = q[j] PROVE FALSE
            BY DEF Range
        <3>1. over + i \in DOMAIN q /\ over + i > over /\ q[over + i] = q[j] BY <2>3, <2>5
        <3>2. j \in DOMAIN q BY <2>0, <2>1
        <3>3. over + i = j BY <3>1, <3>2 DEF IsInjective
        <3> QED BY <3>1, <3>3, <2>1
    <2>10. over \in Nat BY <2>0, <2>1
    <2> QED BY <2>3, <2>7, <2>8, <2>9, <2>10 DEF over, kept
<1> SUFFICES ASSUME NEW o \in Outbox, IsInjective(o.parked), NEW f \in Batches, f \notin Range(o.parked),
                    NEW at_head \in BOOLEAN
             PROVE  /\ Park(o, f, at_head) \in Outbox /\ IsInjective(Park(o, f, at_head).parked)
                    /\ Range(Park(o, f, at_head).parked) \cup ParkDropped(o, f, at_head)
                         = Range(o.parked) \cup {f}
                    /\ Range(Park(o, f, at_head).parked) \cap ParkDropped(o, f, at_head) = {}
    OBVIOUS
<1> DEFINE q == Queued(o, f, at_head)
           over == Overflow(q, o.depth)
           kept == SubSeq(q, over + 1, Len(q))
           dropped == {q[i] : i \in 1..over}
<1>1. o.parked \in Seq(Batches) /\ o.depth \in Nat /\ o.dropped \in Int BY DEF Outbox
<1>2. q \in Seq(Batches) /\ IsInjective(q) /\ Range(q) = Range(o.parked) \cup {f}
    BY <1>1, AppendToQueue, HeadOfQueue, SMTT(30) DEF Queued
<1> HIDE DEF q
<1>3. /\ over \in Nat /\ kept \in Seq(Batches) /\ IsInjective(kept)
      /\ Range(kept) \cup dropped = Range(q) /\ Range(kept) \cap dropped = {}
    BY <1>1, <1>2, <1>CapOfQueue
<1>4. Park(o, f, at_head) = [o EXCEPT !.parked = kept, !.dropped = @ + over] BY DEF Park, q
<1>5. ParkDropped(o, f, at_head) = dropped BY DEF ParkDropped, q
<1> HIDE DEF over, kept, dropped
<1>6. PICK n \in Int : n = o.dropped + over BY <1>1, <1>3, SMTT(30)
<1>7. Park(o, f, at_head) = [o EXCEPT !.parked = kept, !.dropped = n] BY <1>4, <1>6 DEF Outbox
<1>8. Park(o, f, at_head) \in Outbox /\ Park(o, f, at_head).parked = kept
    BY <1>3, <1>7 DEF Outbox
<1> QED BY <1>2, <1>3, <1>5, <1>8

\* Outbox::park queues a batch and evicts some, none of which stays queued.
LEMMA ParkInQueues ==
    ASSUME NEW regs, QueuesOK(regs), NEW k \in DOMAIN regs, NEW o \in Outbox,
           o.parked = regs[k].parked, NEW f \in Batches, f \notin InQueues(regs),
           NEW at_head \in BOOLEAN
    PROVE  /\ QueuesOK([regs EXCEPT ![k] = Park(o, f, at_head)])
           /\ InQueues([regs EXCEPT ![k] = Park(o, f, at_head)]) \cup ParkDropped(o, f, at_head)
                = InQueues(regs) \cup {f}
           /\ InQueues([regs EXCEPT ![k] = Park(o, f, at_head)]) \cap ParkDropped(o, f, at_head) = {}
<1> DEFINE new == Park(o, f, at_head)
           dropped == ParkDropped(o, f, at_head)
<1>1. IsInjective(o.parked) BY DEF QueuesOK
<1>2. Range(regs[k].parked) \subseteq InQueues(regs) BY DEF InQueues
<1>3. f \notin Range(o.parked) BY <1>2
<1>4. /\ new \in Outbox /\ IsInjective(new.parked)
      /\ Range(new.parked) \cup dropped = Range(o.parked) \cup {f}
      /\ Range(new.parked) \cap dropped = {}
    BY <1>1, <1>3, ParkOutbox
<1> HIDE DEF new, dropped
<1>5. Range(new.parked) \cap (InQueues(regs) \ Range(regs[k].parked)) = {} BY <1>4
<1>6. /\ QueuesOK([regs EXCEPT ![k] = new])
      /\ InQueues([regs EXCEPT ![k] = new])
           = (InQueues(regs) \ Range(regs[k].parked)) \cup Range(new.parked)
    <2>1. new \in Outbox /\ IsInjective(new.parked) BY <1>4
    <2> QED BY ONLY QueuesOK(regs), k \in DOMAIN regs, <2>1, <1>5, EditQueue, Zenon
<1>7. /\ InQueues([regs EXCEPT ![k] = new]) \cup dropped = InQueues(regs) \cup {f}
      /\ InQueues([regs EXCEPT ![k] = new]) \cap dropped = {}
    BY <1>2, <1>4, <1>6
<1> QED BY <1>6, <1>7 DEF new, dropped

\* Every queue keeps a part of itself.
LEMMA EditQueues ==
    ASSUME NEW regs, QueuesOK(regs), NEW after, DOMAIN after \subseteq DOMAIN regs,
           after \in [DOMAIN after -> Outbox], NEW gone,
           \A k \in DOMAIN after : /\ IsInjective(after[k].parked)
                                   /\ Range(after[k].parked) = Range(regs[k].parked) \ gone,
           \A k \in DOMAIN regs \ DOMAIN after : Range(regs[k].parked) \subseteq gone
    PROVE  QueuesOK(after) /\ InQueues(after) = InQueues(regs) \ gone
<1>1. QueuesOK(after)
    <2>1. \A j, k \in DOMAIN after : j # k => Range(after[j].parked) \cap Range(after[k].parked) = {}
        BY DEF QueuesOK
    <2> QED BY <2>1 DEF QueuesOK
<1>2. \A f : f \in InQueues(regs) <=> \E j \in DOMAIN regs : f \in Range(regs[j].parked)
    BY DEF InQueues
<1>3. \A f : f \in InQueues(after) <=> \E j \in DOMAIN after : f \in Range(after[j].parked)
    BY DEF InQueues
<1> QED BY <1>1, <1>2, <1>3, SMTT(30)

\* One wire replaced by one that shares no batch with the others.
LEMMA EditWire ==
    ASSUME NEW ws, WiresOK(ws), NEW c \in 1..MaxConns, NEW s \in Seq(Frames), ByBatch(s),
           BatchesOf(s) \cap (InWires(ws) \ BatchesOf(ws[c])) = {}
    PROVE  /\ WiresOK([ws EXCEPT ![c] = s])
           /\ InWires([ws EXCEPT ![c] = s]) = (InWires(ws) \ BatchesOf(ws[c])) \cup BatchesOf(s)
<1> DEFINE after == [ws EXCEPT ![c] = s]
<1>1. ws \in [1..MaxConns -> Seq(Frames)] BY DEF WiresOK
<1>2. /\ after \in [1..MaxConns -> Seq(Frames)] /\ after[c] = s
      /\ \A d \in 1..MaxConns : d # c => after[d] = ws[d]
    BY <1>1
<1> HIDE DEF after
<1>3. \A f : f \in InWires(ws) <=> \E d \in 1..MaxConns : f \in BatchesOf(ws[d]) BY DEF InWires
<1>4. \A f : f \in InWires(after) <=> \E d \in 1..MaxConns : f \in BatchesOf(after[d]) BY DEF InWires
<1>5. \A d \in 1..MaxConns : d # c => BatchesOf(ws[d]) \cap BatchesOf(ws[c]) = {} BY DEF WiresOK
<1>6. \A d \in 1..MaxConns : d # c => BatchesOf(ws[d]) \cap BatchesOf(s) = {} BY <1>3, <1>5
<1>7. \A d \in 1..MaxConns : ByBatch(after[d]) BY <1>2 DEF WiresOK
<1>8. ASSUME NEW d \in 1..MaxConns, NEW e \in 1..MaxConns, d # e
      PROVE  BatchesOf(after[d]) \cap BatchesOf(after[e]) = {}
    <2>1. CASE d = c BY <1>2, <1>6, <1>8, <2>1
    <2>2. CASE e = c BY <1>2, <1>6, <1>8, <2>2
    <2>3. CASE d # c /\ e # c BY <1>2, <1>8, <2>3 DEF WiresOK
    <2> QED BY <2>1, <2>2, <2>3
<1>9. WiresOK(after) BY <1>2, <1>7, <1>8 DEF WiresOK
<1>10. InWires(after) = (InWires(ws) \ BatchesOf(ws[c])) \cup BatchesOf(s)
    BY <1>2, <1>3, <1>4, <1>5
<1> QED BY <1>9, <1>10 DEF after

\* A server session reads one frame.
LEMMA TakeFromWire ==
    \A ws : \A c \in 1..MaxConns :
        WiresOK(ws) /\ ws[c] # << >> =>
            /\ WiresOK([ws EXCEPT ![c] = Tail(@)])
            /\ Head(ws[c]) \in Frames /\ Head(ws[c]) \in Range(ws[c])
            /\ Head(ws[c]).batch \in BatchesOf(ws[c]) /\ Head(ws[c]).batch \in InWires(ws)
            /\ InWires([ws EXCEPT ![c] = Tail(@)]) = InWires(ws) \ {Head(ws[c]).batch}
            /\ Range(Tail(ws[c])) = Range(ws[c]) \ {Head(ws[c])}
            /\ BatchesOf(Tail(ws[c])) = BatchesOf(ws[c]) \ {Head(ws[c]).batch}
\* Reading one frame off a wire leaves the others, each for a batch of its own.
<1>TailOfWire. ASSUME NEW s \in Seq(Frames), s # << >>, ByBatch(s)
      PROVE  /\ Tail(s) \in Seq(Frames) /\ ByBatch(Tail(s))
             /\ Head(s) \in Range(s) /\ Head(s) \in Frames /\ Head(s).batch \in BatchesOf(s)
             /\ Range(Tail(s)) = Range(s) \ {Head(s)}
             /\ BatchesOf(Tail(s)) = BatchesOf(s) \ {Head(s).batch}
    <2> USE <1>TailOfWire
    <2>1. /\ Tail(s) \in Seq(Frames) /\ Len(Tail(s)) = Len(s) - 1 /\ Head(s) \in Frames
          /\ \A i \in 1..Len(Tail(s)) : Tail(s)[i] = s[i + 1]
        BY Parts
    <2>2. /\ DOMAIN s = 1..Len(s) /\ DOMAIN Tail(s) = 1..(Len(s) - 1)
          /\ Len(s) \in Nat \ {0} /\ Head(s) = s[1] /\ 1 \in 1..Len(s)
        BY <2>1, Positions, Parts, SMTT(30)
    <2>3. \A i \in 1..(Len(s) - 1) : i + 1 \in 1..Len(s) /\ Tail(s)[i] = s[i + 1] /\ i + 1 # 1
        BY <2>1, <2>2, SMTT(30)
    <2>4. \A i \in 1..Len(s) : i # 1 => i - 1 \in 1..(Len(s) - 1) /\ Tail(s)[i - 1] = s[i]
        BY <2>1, <2>2, SMTT(30)
    <2>5. ByBatch(Tail(s))
        BY <2>2, <2>3, SMTT(30) DEF ByBatch
    <2>6. IsInjective(s) BY DEF IsInjective, ByBatch
    <2>7. Range(Tail(s)) = Range(s) \ {Head(s)} BY <2>6, TailOfQueue
    <2>8. BatchesOf(Tail(s)) \subseteq BatchesOf(s) \ {Head(s).batch}
        BY <2>2, <2>3, SMTT(30) DEF BatchesOf, ByBatch
    <2>9. BatchesOf(s) \ {Head(s).batch} \subseteq BatchesOf(Tail(s))
        <3> SUFFICES ASSUME NEW i \in 1..Len(s), s[i].batch # s[1].batch
                     PROVE  s[i].batch \in BatchesOf(Tail(s))
            BY <2>2 DEF BatchesOf
        <3>1. i - 1 \in DOMAIN Tail(s) /\ Tail(s)[i - 1] = s[i] BY <2>2, <2>4
        <3> QED BY <3>1 DEF BatchesOf
    <2> QED BY <2>1, <2>2, <2>5, <2>7, <2>8, <2>9 DEF Range, BatchesOf
<1> SUFFICES ASSUME NEW ws, WiresOK(ws), NEW c \in 1..MaxConns, ws[c] # << >>
             PROVE  /\ WiresOK([ws EXCEPT ![c] = Tail(@)])
                    /\ Head(ws[c]) \in Frames /\ Head(ws[c]) \in Range(ws[c])
                    /\ Head(ws[c]).batch \in BatchesOf(ws[c]) /\ Head(ws[c]).batch \in InWires(ws)
                    /\ InWires([ws EXCEPT ![c] = Tail(@)]) = InWires(ws) \ {Head(ws[c]).batch}
                    /\ Range(Tail(ws[c])) = Range(ws[c]) \ {Head(ws[c])}
                    /\ BatchesOf(Tail(ws[c])) = BatchesOf(ws[c]) \ {Head(ws[c]).batch}
    OBVIOUS
<1> DEFINE s == Tail(ws[c])
           h == Head(ws[c])
<1>1. ws[c] \in Seq(Frames) /\ ByBatch(ws[c]) BY DEF WiresOK
<1>2. /\ s \in Seq(Frames) /\ ByBatch(s) /\ h \in Frames /\ h \in Range(ws[c])
      /\ h.batch \in BatchesOf(ws[c])
      /\ Range(s) = Range(ws[c]) \ {h} /\ BatchesOf(s) = BatchesOf(ws[c]) \ {h.batch}
    BY <1>1, <1>TailOfWire
<1>3. [ws EXCEPT ![c] = Tail(@)] = [ws EXCEPT ![c] = s] OBVIOUS
<1> HIDE DEF s, h
<1>4. BatchesOf(ws[c]) \subseteq InWires(ws) BY DEF InWires
<1>5. BatchesOf(s) \cap (InWires(ws) \ BatchesOf(ws[c])) = {} BY <1>2
<1>6. /\ WiresOK([ws EXCEPT ![c] = s])
      /\ InWires([ws EXCEPT ![c] = s]) = (InWires(ws) \ BatchesOf(ws[c])) \cup BatchesOf(s)
    BY <1>2, <1>5, EditWire
<1>7. InWires([ws EXCEPT ![c] = s]) = InWires(ws) \ {h.batch} BY <1>2, <1>4, <1>6
<1> QED BY <1>2, <1>3, <1>4, <1>6, <1>7 DEF s, h

-----------------------------------------------------------------------------
(* The inductive invariant *)

\* Queued, on a wire, applied, reported, refused with the refusal on its way, and
\* in the pending table: the places of a batch that exclude one another.
Apart(Q, W, A, R, B, T) ==
    /\ Q \cap (W \cup A \cup R \cup T) = {}
    /\ W \cap (A \cup R \cup B) = {}
    /\ A \cap (R \cup B) = {} /\ R \cap B = {}

Places(regs, table, ws, ans, app, rep) ==
    /\ QueuesOK(regs) /\ WiresOK(ws) /\ app \in Seq(Frames) /\ ByBatch(app)
    /\ Apart(InQueues(regs), InWires(ws), BatchesOf(app), rep, Returning(table, ans), InTable(table))

\* What the live session has not handled is in the table and unanswered, what any
\* other still holds was cut, and what it answered ok is applied.
Session(table, ws, ans, app, con, att, nc, ct) ==
    /\ TableOK(table, nc) /\ AnswersOK(ans, table) /\ con \in 0..MaxConns
    /\ att => /\ con # 0 /\ Range(ws[con]) \subseteq table
              /\ \A f \in Range(ws[con]), i \in DOMAIN ans : f.correlation # ans[i].correlation
    /\ ~att => table = {} /\ ans = << >>
    /\ \A c \in 1..MaxConns : /\ c > con => ws[c] = << >>
                              /\ c < con \/ ~att => BatchesOf(ws[c]) \subseteq ct
    /\ \A p \in table, i \in DOMAIN ans :
          ans[i].ok /\ p.correlation = ans[i].correlation => p.batch \in BatchesOf(app)

\* The flushes with a record, and the identities they take up.
Known(regs, table, app, rep, ct) ==
    InQueues(regs) \cup InTable(table) \cup BatchesOf(app) \cup rep \cup ct
Account(known, nf) == nf \in Nat /\ known \subseteq Batches /\ {f.id : f \in known} = 0..(nf - 1)

TimerOK == retry_armed \in BOOLEAN /\ retry_wakeup = retry_armed /\ (retry_armed => attached)

IInv ==
    /\ Places(registrants, pending, wires, answers, applied, reported)
    /\ Session(pending, wires, answers, applied, conn, attached, next_correlation, cut)
    /\ Account(Known(registrants, pending, applied, reported, cut), next_flush)
    /\ TimerOK /\ attached \in BOOLEAN /\ next_generation \in Nat

\* A refusal on its way back is for a frame the client still waits on.
LEMMA ReturningIsPending ==
    ASSUME NEW table, NEW ans
    PROVE  Returning(table, ans) \subseteq InTable(table)
BY DEF Returning, InTable

\* Outboxes::pump, from any state of the invariant the rest of the step leaves.
LEMMA PumpKeeps ==
    \A regs, keys, table, ans, app, rep, ct, con, nf :
        /\ Places(regs, table, wires, ans, app, rep)
        /\ Session(table, wires, ans, app, con, TRUE, next_correlation, ct)
        /\ Account(Known(regs, table, app, rep, ct), nf)
        /\ Pump(regs, keys, table, con)
        =>  /\ Places(registrants', pending', wires', ans, app, rep)
            /\ Session(pending', wires', ans, app, con, TRUE, next_correlation', ct)
            /\ Account(Known(registrants', pending', app, rep, ct), nf)
\* A batch pump sends leaves its queue, and nothing else does.
<1>PumpTakesHeads. ASSUME NEW regs, QueuesOK(regs), NEW keys, NEW frames, NEW F, NEW nc, NEW n,
             Offers(regs, keys, frames, F, nc, n)
      PROVE  /\ QueuesOK(Sent(regs, Range(F)))
             /\ InQueues(Sent(regs, Range(F))) = InQueues(regs) \ InTable(Range(F))
    <2> USE <1>PumpTakesHeads
    <2> DEFINE ready == Ready(regs, keys)
               after == Sent(regs, Range(F))
               heads == {Head(regs[k].parked) : k \in ready}
    <2>0. Pumped(regs, ready, F, after) BY PumpedOutboxes
    <2>1. DOMAIN after = DOMAIN regs BY <2>0 DEF Pumped
    <2>a. \A k \in DOMAIN regs \ ready : after[k] = regs[k] BY <2>0 DEF Pumped
    <2>b. \A k \in ready : after[k] = [regs[k] EXCEPT !.parked = Tail(regs[k].parked),
                                                   !.in_flight = {F[k].correlation}]
        BY <2>0 DEF Pumped
    <2>2. /\ ready \subseteq DOMAIN regs
          /\ \A k \in ready :
                /\ Tail(regs[k].parked) \in Seq(Batches) /\ IsInjective(Tail(regs[k].parked))
                /\ Range(Tail(regs[k].parked)) = Range(regs[k].parked) \ {Head(regs[k].parked)}
          /\ \A k \in ready, j \in DOMAIN regs :
                Head(regs[k].parked) \in Range(regs[j].parked) => k = j
        BY ONLY QueuesOK(regs), ReadyHeads, ZenonT(30)
    <2>3. /\ DOMAIN regs \subseteq Keys
          /\ \A k \in DOMAIN regs : regs[k] \in Outbox /\ IsInjective(regs[k].parked)
        BY QueuesApart DEF QueuesOK
    <2>4. \A k \in ready : F[k].correlation \in Nat BY DEF Offers, Frames
    <2>5. InTable(Range(F)) = heads BY OfferedFrames
    <2>6. after \in [DOMAIN after -> Outbox] /\ \A k \in ready : after[k].parked = Tail(regs[k].parked)
        <3>0. after = [k \in DOMAIN after |-> after[k]] BY DEF Sent
        <3> HIDE DEF after, ready
        <3>1. ASSUME NEW k \in ready
              PROVE  after[k] \in Outbox /\ after[k].parked = Tail(regs[k].parked)
            <4>1. PICK m \in Nat : m = F[k].correlation BY <2>4
            <4>2. PICK q \in Seq(Batches) : q = Tail(regs[k].parked) BY <2>2
            <4>3. PICK r \in Outbox : r = regs[k] BY <2>2, <2>3
            <4>4. after[k] = [r EXCEPT !.parked = q, !.in_flight = {m}] BY <2>b, <4>1, <4>2, <4>3
            <4>5. [r EXCEPT !.parked = q, !.in_flight = {m}] \in Outbox BY DEF Outbox
            <4>6. [r EXCEPT !.parked = q, !.in_flight = {m}].parked = q BY DEF Outbox
            <4> QED BY <4>2, <4>4, <4>5, <4>6
        <3>2. \A k \in DOMAIN regs : after[k] \in Outbox BY <2>a, <2>3, <3>1
        <3>3. \A k \in DOMAIN after : after[k] \in Outbox BY <2>1, <3>2
        <3> QED BY <3>0, <3>1, <3>3
    <2> HIDE DEF after, ready
    <2>7. ASSUME NEW k \in DOMAIN after
          PROVE  IsInjective(after[k].parked) /\ Range(after[k].parked) = Range(regs[k].parked) \ heads
        <3>0. k \in DOMAIN regs BY <2>1
        <3>1. CASE k \notin ready
            <4>1. Range(regs[k].parked) \cap heads = {} BY <2>2, <3>0, <3>1
            <4> QED BY <2>a, <2>3, <3>0, <3>1, <4>1
        <3>2. CASE k \in ready
            <4>1. Head(regs[k].parked) \in heads BY <3>2
            <4>2. \A h \in heads : h \in Range(regs[k].parked) => h = Head(regs[k].parked)
                BY <2>2, <3>0
            <4> HIDE DEF heads
            <4>3. Range(regs[k].parked) \ {Head(regs[k].parked)} = Range(regs[k].parked) \ heads
                BY <4>1, <4>2
            <4> QED BY <2>2, <2>6, <3>2, <4>3
        <3> QED BY <3>1, <3>2
    <2> HIDE DEF heads
    <2>8. QueuesOK(after)
        <3>1. DOMAIN after \subseteq Keys BY <2>1, <2>3
        <3>2. \A j, k \in DOMAIN after : j # k => Range(after[j].parked) \cap Range(after[k].parked) = {}
            <4> SUFFICES ASSUME NEW j \in DOMAIN after, NEW k \in DOMAIN after, j # k
                         PROVE  Range(after[j].parked) \cap Range(after[k].parked) = {}
                OBVIOUS
            <4>1. Range(regs[j].parked) \cap Range(regs[k].parked) = {} BY <2>1 DEF QueuesOK
            <4> QED BY <2>7, <4>1
        <3> QED BY <2>6, <2>7, <3>1, <3>2 DEF QueuesOK
    <2>9. InQueues(after) = InQueues(regs) \ heads
        <3>1. \A f : f \in InQueues(after) <=> \E k \in DOMAIN regs : f \in Range(after[k].parked)
            BY <2>1 DEF InQueues
        <3>2. \A f : f \in InQueues(regs) <=> \E k \in DOMAIN regs : f \in Range(regs[k].parked)
            BY DEF InQueues
        <3>3. ASSUME NEW f PROVE f \in InQueues(after) <=> f \in InQueues(regs) \ heads
            BY <2>1, <2>7, <3>1, <3>2, SMTT(30)
        <3> QED BY <3>3
    <2> QED BY <2>5, <2>8, <2>9 DEF after
\* The client writes frames to one connection.
<1>AddToWire. ASSUME NEW ws, WiresOK(ws), NEW c \in 1..MaxConns, NEW t \in Seq(Frames), ByBatch(t),
             BatchesOf(t) \cap InWires(ws) = {}
      PROVE  /\ WiresOK([ws EXCEPT ![c] = @ \o t])
             /\ InWires([ws EXCEPT ![c] = @ \o t]) = InWires(ws) \cup BatchesOf(t)
             /\ \A d \in 1..MaxConns : d # c => [ws EXCEPT ![c] = @ \o t][d] = ws[d]
    <2> USE <1>AddToWire
    <2> DEFINE s == ws[c] \o t
    <2>1. ws[c] \in Seq(Frames) /\ ByBatch(ws[c]) /\ ws \in [1..MaxConns -> Seq(Frames)] BY DEF WiresOK
    <2>2. BatchesOf(ws[c]) \subseteq InWires(ws) BY DEF InWires
    <2>3. /\ s \in Seq(Frames) /\ ByBatch(s) /\ Range(s) = Range(ws[c]) \cup Range(t)
          /\ BatchesOf(s) = BatchesOf(ws[c]) \cup BatchesOf(t)
        BY <2>1, <2>2, WireAfterWire
    <2>4. [ws EXCEPT ![c] = @ \o t] = [ws EXCEPT ![c] = s] OBVIOUS
    <2> HIDE DEF s
    <2>5. BatchesOf(s) \cap (InWires(ws) \ BatchesOf(ws[c])) = {} BY <2>3
    <2>6. /\ WiresOK([ws EXCEPT ![c] = s])
          /\ InWires([ws EXCEPT ![c] = s]) = (InWires(ws) \ BatchesOf(ws[c])) \cup BatchesOf(s)
        BY <2>3, <2>5, EditWire
    <2>7. InWires([ws EXCEPT ![c] = s]) = InWires(ws) \cup BatchesOf(t) BY <2>2, <2>3, <2>6
    <2>8. \A d \in 1..MaxConns : d # c => [ws EXCEPT ![c] = s][d] = ws[d]
        BY <2>1
    <2> QED BY <2>4, <2>6, <2>7, <2>8
\* Every answer is older than the next correlation.
<1>AnswersAreOld. ASSUME NEW table, NEW nc, TableOK(table, nc), NEW ans, AnswersOK(ans, table), NEW i \in DOMAIN ans
      PROVE  nc \in Nat /\ ans[i].correlation \in Nat /\ ans[i].correlation < nc
    <2> USE <1>AnswersAreOld
    <2>1. PICK p \in table : p.correlation = ans[i].correlation BY DEF AnswersOK
    <2>2. p \in Frames /\ p.correlation < nc /\ nc \in Nat BY DEF TableOK
    <2>3. p.correlation \in Nat BY <2>2 DEF Frames
    <2> QED BY <2>1, <2>2, <2>3
\* An answer is for a frame written before it, so a pump disturbs none.
<1>AnswersAfterPump. ASSUME NEW table, NEW nc, TableOK(table, nc), NEW ans, AnswersOK(ans, table),
             NEW sent, \A p \in sent : p.correlation \in Nat /\ p.correlation >= nc
      PROVE  /\ AnswersOK(ans, table \cup sent)
             /\ Returning(table \cup sent, ans) = Returning(table, ans)
    <2> USE <1>AnswersAfterPump
    <2>1. \A p \in sent, i \in DOMAIN ans : p.correlation # ans[i].correlation
        <3> TAKE p \in sent, i \in DOMAIN ans
        <3>1. nc \in Nat /\ ans[i].correlation \in Nat /\ ans[i].correlation < nc BY <1>AnswersAreOld
        <3> QED BY <3>1
    <2>2. AnswersOK(ans, table \cup sent) BY DEF AnswersOK
    <2>3. Returning(table \cup sent, ans) = Returning(table, ans) BY <2>1 DEF Returning
    <2> QED BY <2>2, <2>3
<1> TAKE regs, keys, table, ans, app, rep, ct, con, nf
<1> HAVE /\ Places(regs, table, wires, ans, app, rep)
         /\ Session(table, wires, ans, app, con, TRUE, next_correlation, ct)
         /\ Account(Known(regs, table, app, rep, ct), nf)
         /\ Pump(regs, keys, table, con)
<1> DEFINE Q == InQueues(regs)
           W == InWires(wires)
           A == BatchesOf(app)
           B == Returning(table, ans)
           T == InTable(table)
<1>1. /\ QueuesOK(regs) /\ WiresOK(wires) /\ app \in Seq(Frames) /\ ByBatch(app)
      /\ Apart(Q, W, A, rep, B, T)
    BY DEF Places
<1>2. /\ TableOK(table, next_correlation) /\ AnswersOK(ans, table) /\ con \in 1..MaxConns
      /\ Range(wires[con]) \subseteq table
      /\ \A f \in Range(wires[con]), i \in DOMAIN ans : f.correlation # ans[i].correlation
    BY BoundsAssumption, SMTT(30) DEF Session
<1>4. next_correlation \in Nat BY <1>2 DEF TableOK
<1> PICK frames, F, N :
        /\ Offers(regs, keys, frames, F, next_correlation, N)
        /\ registrants' = Sent(regs, Range(F)) /\ pending' = table \cup Range(F)
        /\ next_correlation' = next_correlation + N
        /\ wires' = [wires EXCEPT ![con] = @ \o frames]
        /\ RetryWakeup(registrants', TRUE)
    BY <1>1, <1>4, PumpOffers
<1>a. PICK sent : sent = Range(F) OBVIOUS
<1> DEFINE S == InTable(sent)
<1>3. /\ registrants' = Sent(regs, sent) /\ pending' = table \cup sent
      /\ next_correlation' = next_correlation + N
      /\ wires' = [wires EXCEPT ![con] = @ \o frames]
    BY <1>a
<1>5. /\ N \in Nat /\ frames \in Seq(Frames) /\ ByBatch(frames) /\ Range(frames) = sent
      /\ BatchesOf(frames) = S /\ S \subseteq Q
      /\ \A p \in sent : /\ p \in Frames /\ p.correlation >= next_correlation
                         /\ p.correlation < next_correlation + N
      /\ \A p, q \in sent : p.correlation = q.correlation \/ p.batch = q.batch => p = q
    <2>1. N \in Nat /\ frames \in Seq(Frames) /\ ByBatch(frames) /\ Range(frames) = sent
        BY <1>a DEF Offers
    <2>2. /\ BatchesOf(frames) = S /\ S \subseteq Q
          /\ \A p \in sent : /\ p \in Frames /\ p.correlation >= next_correlation
                             /\ p.correlation < next_correlation + N
          /\ \A p, q \in sent : p.correlation = q.correlation \/ p.batch = q.batch => p = q
        BY <1>1, <1>a, OfferedFrames
    <2> QED BY <2>1, <2>2
<1>6. QueuesOK(registrants') /\ InQueues(registrants') = Q \ S
    BY <1>1, <1>3, <1>a, <1>PumpTakesHeads
<1>7. \A p \in sent : p.correlation \in Nat /\ p.correlation >= next_correlation
    BY <1>5 DEF Frames
<1>8. /\ AnswersOK(ans, table \cup sent) /\ Returning(table \cup sent, ans) = B
      /\ \A p \in sent, i \in DOMAIN ans : p.correlation # ans[i].correlation
    <2>1. TableOK(table, next_correlation) /\ AnswersOK(ans, table) BY <1>2
    <2>2. AnswersOK(ans, table \cup sent) BY ONLY <2>1, <1>7, <1>AnswersAfterPump, ZenonT(20)
    <2>3. Returning(table \cup sent, ans) = B BY ONLY <2>1, <1>7, <1>AnswersAfterPump
    <2>4. \A p \in sent, i \in DOMAIN ans : p.correlation # ans[i].correlation
        <3> TAKE p \in sent, i \in DOMAIN ans
        <3>1. /\ next_correlation \in Nat /\ ans[i].correlation \in Nat
              /\ ans[i].correlation < next_correlation
            BY ONLY i \in DOMAIN ans, <2>1, <1>AnswersAreOld, Zenon
        <3> QED BY <1>7, <3>1
    <2> QED BY <2>2, <2>3, <2>4
<1>9. InTable(table \cup sent) = T \cup S BY DEF InTable
<1>10. B \subseteq T BY ReturningIsPending
<1>11. \A p \in sent : p.batch \in S BY DEF InTable
<1>12. \A p \in table : p.batch \in T BY DEF InTable
<1> HIDE DEF Q, S, W, A, B, T
<1>13. BatchesOf(frames) \cap W = {} BY <1>1, <1>5 DEF Apart
<1>14. /\ WiresOK(wires') /\ InWires(wires') = W \cup S
       /\ Range(wires'[con]) = Range(wires[con]) \cup sent
       /\ \A d \in 1..MaxConns : d # con => wires'[d] = wires[d]
    <2>1. /\ WiresOK(wires) /\ con \in 1..MaxConns /\ frames \in Seq(Frames) /\ ByBatch(frames)
          /\ BatchesOf(frames) \cap InWires(wires) = {}
        BY <1>1, <1>2, <1>5, <1>13 DEF W
    <2>2. WiresOK([wires EXCEPT ![con] = @ \o frames]) BY ONLY <2>1, <1>AddToWire, Zenon
    <2>3. InWires([wires EXCEPT ![con] = @ \o frames]) = InWires(wires) \cup BatchesOf(frames)
        BY ONLY <2>1, <1>AddToWire, ZenonT(20)
    <2>4. Range(wires'[con]) = Range(wires[con]) \cup Range(frames)
        <3>1. Range(wires[con] \o frames) = Range(wires[con]) \cup Range(frames)
            <4>1. wires[con] \in Seq(Frames) /\ ByBatch(wires[con]) BY <2>1 DEF WiresOK
            <4>2. BatchesOf(wires[con]) \cap BatchesOf(frames) = {} BY <2>1 DEF InWires
            <4> QED BY ONLY <2>1, <4>1, <4>2, WireAfterWire, ZenonT(20)
        <3>2. wires'[con] = wires[con] \o frames BY <1>3, <2>1 DEF WiresOK
        <3> QED BY <3>1, <3>2
    <2>5. \A d \in 1..MaxConns : d # con => [wires EXCEPT ![con] = @ \o frames][d] = wires[d]
        BY ONLY <2>1, <1>AddToWire
    <2> QED BY <1>3, <1>5, <2>2, <2>3, <2>4, <2>5 DEF W
<1>15. Apart(Q \ S, W \cup S, A, rep, B, T \cup S) BY <1>1, <1>5, <1>10 DEF Apart
<1>16. Places(registrants', pending', wires', ans, app, rep)
    BY <1>1, <1>3, <1>6, <1>8, <1>9, <1>14, <1>15 DEF Places, A
<1>17. TableOK(table \cup sent, next_correlation + N)
    <2>1. \A p \in table : p \in Frames /\ p.correlation \in Nat /\ p.correlation < next_correlation
        BY <1>2 DEF TableOK, Frames
    <2>2. \A p \in table : p.correlation < next_correlation + N BY <1>4, <1>5, <2>1, SMTT(30)
    <2>3. \A p \in table, q \in sent : p.correlation # q.correlation
        <3> TAKE p \in table, q \in sent
        <3> QED BY <1>4, <1>5, <1>7, <2>1, SMTT(30)
    <2>4. \A p \in table, q \in sent : p.batch # q.batch BY <1>1, <1>5, <1>11, <1>12 DEF Apart
    <2>5. next_correlation + N \in Nat BY <1>4, <1>5, SMTT(30)
    <2>6. \A p, q \in table : p.correlation = q.correlation \/ p.batch = q.batch => p = q
        BY <1>2 DEF TableOK
    <2> QED BY <1>5, <2>1, <2>2, <2>3, <2>4, <2>5, <2>6 DEF TableOK
<1>18. Session(pending', wires', ans, app, con, TRUE, next_correlation', ct)
    <2>1. con \in 0..MaxConns /\ con # 0 BY DEF Session
    <2>2. Range(wires'[con]) \subseteq table \cup sent BY <1>2, <1>14
    <2>3. \A f \in Range(wires'[con]), i \in DOMAIN ans : f.correlation # ans[i].correlation
        BY <1>2, <1>8, <1>14
    <2>4. ASSUME NEW c \in 1..MaxConns
          PROVE  /\ c > con => wires'[c] = << >>
                 /\ c < con => BatchesOf(wires'[c]) \subseteq ct
        <3>1. CASE c = con BY <1>2, <3>1, BoundsAssumption, SMTT(30)
        <3>2. CASE c # con BY <1>14, <3>2 DEF Session
        <3> QED BY <3>1, <3>2
    <2>5. \A p \in table \cup sent, i \in DOMAIN ans :
             ans[i].ok /\ p.correlation = ans[i].correlation => p.batch \in BatchesOf(app)
        BY <1>8 DEF Session
    <2> QED BY <1>3, <1>8, <1>17, <2>1, <2>2, <2>3, <2>4, <2>5 DEF Session
<1>19. Known(registrants', pending', app, rep, ct) = Known(regs, table, app, rep, ct)
    BY <1>3, <1>5, <1>6, <1>9 DEF Known, Q, T
<1> QED BY <1>16, <1>18, <1>19

-----------------------------------------------------------------------------
(* Facts the steps share *)

\* A frame on a wire is waited on, or was cut off by a disconnect.
LEMMA WiresAreKnown ==
    ASSUME NEW table, NEW ws, NEW ans, NEW app, NEW con, NEW att \in BOOLEAN, NEW nc, NEW ct,
           Session(table, ws, ans, app, con, att, nc, ct)
    PROVE  InWires(ws) \subseteq InTable(table) \cup ct
<1> SUFFICES ASSUME NEW c \in 1..MaxConns
             PROVE  BatchesOf(ws[c]) \subseteq InTable(table) \cup ct
    BY DEF InWires
<1>1. con \in Nat /\ c \in Nat BY BoundsAssumption, SMTT(30) DEF Session
<1>2. CASE c > con
    <2>1. ws[c] = << >> BY <1>2 DEF Session
    <2> QED BY <2>1 DEF BatchesOf
<1>3. CASE c < con \/ ~att BY <1>3 DEF Session
<1>4. CASE c = con /\ att
    <2>1. Range(ws[c]) \subseteq table BY <1>4 DEF Session
    <2> QED BY <2>1 DEF BatchesOf, InTable, Range
<1> QED BY <1>1, <1>2, <1>3, <1>4

\* The identity of a new flush is nobody's.
LEMMA NewFlush ==
    ASSUME NEW known, NEW nf, Account(known, nf), NEW x \in Batches, x.id = nf
    PROVE  x \notin known /\ Account(known \cup {x}, nf + 1)
<1>1. nf \in Nat /\ known \subseteq Batches /\ {f.id : f \in known} = 0..(nf - 1) BY DEF Account
<1>2. x \notin known
    <2> SUFFICES ASSUME x \in known PROVE FALSE OBVIOUS
    <2>1. nf \in 0..(nf - 1) BY <1>1
    <2> QED BY <1>1, <2>1
<1>3. {f.id : f \in known \cup {x}} = {f.id : f \in known} \cup {nf} OBVIOUS
<1>4. 0..(nf - 1) \cup {nf} = 0..((nf + 1) - 1) BY <1>1, SMTT(30)
<1> QED BY <1>1, <1>2, <1>3, <1>4, SMTT(30) DEF Account

\* A new flush is nowhere yet.
LEMMA NewFlushIsApart ==
    ASSUME IInv, NEW x \in Batches, x.id = next_flush
    PROVE  /\ x \notin InQueues(registrants) /\ x \notin InWires(wires)
           /\ x \notin BatchesOf(applied) /\ x \notin reported /\ x \notin InTable(pending)
           /\ x \notin Returning(pending, answers)
<1>1. x \notin Known(registrants, pending, applied, reported, cut) BY NewFlush DEF IInv
<1>2. InWires(wires) \subseteq InTable(pending) \cup cut BY WiresAreKnown, SMTT(30) DEF IInv
<1>3. Returning(pending, answers) \subseteq InTable(pending) BY ReturningIsPending
<1> QED BY <1>1, <1>2, <1>3 DEF Known

\* An empty sequence holds no batch.
LEMMA NoQueue ==
    /\ << >> \in Seq(Batches) /\ IsInjective(<< >>) /\ Range(<< >>) = {}
    /\ << >> \in Seq(Frames) /\ ByBatch(<< >>) /\ BatchesOf(<< >>) = {}
    /\ << >> \in Seq(Answers) /\ DOMAIN << >> = {}
BY DEF IsInjective, Range, ByBatch, BatchesOf

-----------------------------------------------------------------------------
(* Steps of the embedder *)

-----------------------------------------------------------------------------
(* Steps of the connection *)

\* What re-validation takes from the queues.
Gone(regs, kept) == UNION {Range(regs[k].parked) \ Range(kept[k]) : k \in DOMAIN regs}

\* Every outbox after re-validation.
LEMMA RevalidatedQueues ==
    ASSUME NEW regs, QueuesOK(regs), NEW kept,
           \A k \in DOMAIN regs : kept[k] \in Survivors(regs[k].parked),
           NEW after, after = [k \in DOMAIN regs |-> Revalidated(regs[k], kept[k])]
    PROVE  /\ QueuesOK(after) /\ InQueues(after) = InQueues(regs) \ Gone(regs, kept)
           /\ DOMAIN after = DOMAIN regs
           /\ \A k \in DOMAIN regs : /\ after[k].parked = kept[k]
                                     /\ after[k].generation = regs[k].generation
                                     /\ after[k].in_flight = regs[k].in_flight
<1> DEFINE gone == Gone(regs, kept)
<1>1. DOMAIN after = DOMAIN regs /\ \A k \in DOMAIN regs : after[k] = Revalidated(regs[k], kept[k])
    OBVIOUS
<1>2. ASSUME NEW k \in DOMAIN regs
      PROVE  /\ after[k] \in Outbox /\ IsInjective(after[k].parked)
             /\ after[k].parked = kept[k] /\ Range(kept[k]) \subseteq Range(regs[k].parked)
             /\ after[k].generation = regs[k].generation /\ after[k].in_flight = regs[k].in_flight
    <2>1. PICK r \in Outbox : r = regs[k] BY QueuesApart
    <2>2. r.parked \in Seq(Batches) /\ r.dropped \in Int BY DEF Outbox
    <2>3. IsInjective(r.parked) BY <2>1, QueuesApart
    <2>4. PICK q \in Survivors(r.parked) : q = kept[k] BY <2>1
    <2>5. q \in Seq(Batches) /\ IsInjective(q) /\ Range(q) \subseteq Range(r.parked)
        BY <2>2, <2>3, SurvivorsOfQueue
    <2>6. PICK n \in Int : n = r.dropped + Len(r.parked) - Len(q) BY <2>2, <2>5, Positions, SMTT(30)
    <2>7. after[k] = [r EXCEPT !.parked = q, !.dropped = n]
        BY <1>1, <2>1, <2>4, <2>6 DEF Outbox, Revalidated
    <2>8. /\ after[k] \in Outbox /\ after[k].parked = q
          /\ after[k].generation = r.generation /\ after[k].in_flight = r.in_flight
        BY <2>5, <2>7 DEF Outbox
    <2> QED BY <2>1, <2>4, <2>5, <2>8
<1>3. after \in [DOMAIN after -> Outbox] BY <1>1, <1>2
<1>4. \A k \in DOMAIN after : /\ IsInjective(after[k].parked)
                              /\ Range(after[k].parked) = Range(regs[k].parked) \ gone
    <2> TAKE k \in DOMAIN after
    <2>1. /\ k \in DOMAIN regs /\ IsInjective(after[k].parked) /\ after[k].parked = kept[k]
          /\ Range(kept[k]) \subseteq Range(regs[k].parked)
        BY <1>1, <1>2
    <2>2. \A f \in Range(regs[k].parked) : f \in gone => f \notin Range(kept[k])
        <3> SUFFICES ASSUME NEW f \in Range(regs[k].parked), f \in gone
                     PROVE  f \notin Range(kept[k])
            OBVIOUS
        <3>1. PICK j \in DOMAIN regs : f \in Range(regs[j].parked) /\ f \notin Range(kept[j])
            BY DEF Gone
        <3>2. j = k BY <2>1, <3>1, QueuesApart
        <3> QED BY <3>1, <3>2
    <2>3. \A f \in Range(regs[k].parked) : f \notin Range(kept[k]) => f \in gone BY <2>1, SMTT(30) DEF Gone
    <2>4. Range(kept[k]) = Range(regs[k].parked) \ gone
        <3> HIDE DEF gone
        <3> QED BY <2>1, <2>2, <2>3
    <2> QED BY <2>1, <2>4
<1>5. \A k \in DOMAIN regs \ DOMAIN after : Range(regs[k].parked) \subseteq gone BY <1>1
<1>6. DOMAIN after \subseteq DOMAIN regs BY <1>1
<1>7. QueuesOK(after) BY ONLY QueuesOK(regs), <1>3, <1>4, <1>5, <1>6, EditQueues, ZenonT(20)
<1>8. InQueues(after) = InQueues(regs) \ gone
    <2> HIDE DEF gone
    <2>1. \A f : f \in InQueues(regs) <=> \E j \in DOMAIN regs : f \in Range(regs[j].parked)
        BY DEF InQueues
    <2>2. \A f : f \in InQueues(after) <=> \E j \in DOMAIN regs : f \in Range(after[j].parked)
        BY <1>1 DEF InQueues
    <2> QED BY <1>1, <1>4, <2>1, <2>2, SMTT(30)
<1> QED BY <1>1, <1>2, <1>7, <1>8

\* A result taken off the wire: its batch leaves the table.
LEMMA ResultTaken ==
    ASSUME IInv, attached, answers # << >>,
           NEW p \in pending, p.correlation = Head(answers).correlation
    PROVE  /\ Session(pending \ {p}, wires, Tail(answers), applied, conn, TRUE, next_correlation, cut)
           /\ InTable(pending \ {p}) = InTable(pending) \ {p.batch} /\ p.batch \in InTable(pending)
           /\ Returning(pending \ {p}, Tail(answers)) = Returning(pending, answers) \ {p.batch}
           /\ Head(answers).ok => p.batch \in BatchesOf(applied)
           /\ ~Head(answers).ok => p.batch \in Returning(pending, answers)
           /\ p \in Frames
<1>1. Session(pending, wires, answers, applied, conn, TRUE, next_correlation, cut)
    <2>1. attached = TRUE BY DEF IInv
    <2> QED BY <2>1 DEF IInv
<1>2. TableOK(pending, next_correlation) /\ AnswersOK(answers, pending) BY <1>1 DEF Session
<1>3. /\ TableOK(pending \ {p}, next_correlation) /\ AnswersOK(Tail(answers), pending \ {p})
      /\ InTable(pending \ {p}) = InTable(pending) \ {p.batch} /\ p.batch \in InTable(pending)
      /\ Returning(pending \ {p}, Tail(answers)) = Returning(pending, answers) \ {p.batch}
      /\ ~Head(answers).ok => p.batch \in Returning(pending, answers)
      /\ \E i \in DOMAIN answers : answers[i] = Head(answers)
      /\ \A i \in DOMAIN Tail(answers) : \E j \in DOMAIN answers : Tail(answers)[i] = answers[j]
    <2> DEFINE t == Tail(answers)
    <2>1. /\ answers \in Seq(Answers) /\ t \in Seq(Answers) /\ Len(t) = Len(answers) - 1
          /\ \A i \in 1..Len(t) : t[i] = answers[i + 1]
        BY <1>2, Parts DEF AnswersOK
    <2>2. /\ DOMAIN answers = 1..Len(answers) /\ DOMAIN t = 1..(Len(answers) - 1)
          /\ Len(answers) \in Nat \ {0} /\ Head(answers) = answers[1] /\ 1 \in DOMAIN answers
        BY <2>1, Parts, SMTT(30)
    <2>3. \A i \in DOMAIN t : i + 1 \in DOMAIN answers /\ i + 1 # 1 /\ t[i] = answers[i + 1]
        BY <2>1, <2>2, SMTT(30)
    <2>4. \A i \in DOMAIN answers : i # 1 => i - 1 \in DOMAIN t /\ t[i - 1] = answers[i]
        BY <2>1, <2>2, SMTT(30)
    <2> HIDE DEF t
    <2>5. \A q \in pending : q.batch = p.batch \/ q.correlation = p.correlation => q = p
        BY <1>2 DEF TableOK
    <2>6. \A i \in DOMAIN answers : answers[i].correlation = p.correlation => i = 1
        BY <1>2, <2>2 DEF AnswersOK
    <2>7. TableOK(pending \ {p}, next_correlation) BY <1>2 DEF TableOK
    <2>8. AnswersOK(t, pending \ {p})
        <3>1. ASSUME NEW i \in DOMAIN t PROVE \E q \in pending \ {p} : q.correlation = t[i].correlation
            <4>1. PICK q \in pending : q.correlation = answers[i + 1].correlation
                BY <1>2, <2>3 DEF AnswersOK
            <4>2. q # p BY <2>3, <2>6, <4>1
            <4> QED BY <2>3, <4>1, <4>2
        <3>2. ASSUME NEW i \in DOMAIN t, NEW j \in DOMAIN t, t[i].correlation = t[j].correlation
              PROVE  i = j
            <4>1. i + 1 = j + 1 BY <1>2, <2>3, <3>2, SMTT(30) DEF AnswersOK
            <4> QED BY <2>2, <4>1
        <3> QED BY <2>1, <3>1, <3>2 DEF AnswersOK
    <2>9. InTable(pending \ {p}) = InTable(pending) \ {p.batch} BY <2>5 DEF InTable
    <2>10. Returning(pending \ {p}, t) \subseteq Returning(pending, answers) \ {p.batch}
        <3> SUFFICES ASSUME NEW q \in pending \ {p}, NEW i \in DOMAIN t,
                            t[i].correlation = q.correlation, ~t[i].ok
                     PROVE  q.batch \in Returning(pending, answers) \ {p.batch}
            BY DEF Returning
        <3>1. /\ i + 1 \in DOMAIN answers /\ answers[i + 1].correlation = q.correlation
              /\ ~answers[i + 1].ok
            BY <2>3
        <3> QED BY <2>5, <3>1 DEF Returning
    <2>11. Returning(pending, answers) \ {p.batch} \subseteq Returning(pending \ {p}, t)
        <3> SUFFICES ASSUME NEW q \in pending, NEW i \in DOMAIN answers, q.batch # p.batch,
                            answers[i].correlation = q.correlation, ~answers[i].ok
                     PROVE  q.batch \in Returning(pending \ {p}, t)
            BY DEF Returning
        <3>1. q # p /\ q.correlation # p.correlation BY <2>5
        <3>2. i # 1 BY <2>2, <3>1
        <3>3. i - 1 \in DOMAIN t /\ t[i - 1].correlation = q.correlation /\ ~t[i - 1].ok BY <2>4, <3>2
        <3> QED BY <3>1, <3>3 DEF Returning
    <2>12. ~Head(answers).ok => p.batch \in Returning(pending, answers) BY <2>2 DEF Returning
    <2>13. p.batch \in InTable(pending) BY DEF InTable
    <2> QED BY <2>2, <2>3, <2>7, <2>8, <2>9, <2>10, <2>11, <2>12, <2>13 DEF t
<1>4. PICK h \in DOMAIN answers : answers[h] = Head(answers) BY <1>3
<1>5. Head(answers).ok => p.batch \in BatchesOf(applied) BY <1>1, <1>4 DEF Session
<1>6. p \notin Range(wires[conn]) BY <1>1, <1>4 DEF Session
<1>7. Range(wires[conn]) \subseteq pending \ {p} BY <1>1, <1>6 DEF Session
<1>8. \A f \in Range(wires[conn]), i \in DOMAIN Tail(answers) :
         f.correlation # Tail(answers)[i].correlation
    BY <1>1, <1>3 DEF Session
<1>9. \A q \in pending \ {p}, i \in DOMAIN Tail(answers) :
         Tail(answers)[i].ok /\ q.correlation = Tail(answers)[i].correlation
            => q.batch \in BatchesOf(applied)
    BY <1>1, <1>3 DEF Session
<1>10. Session(pending \ {p}, wires, Tail(answers), applied, conn, TRUE, next_correlation, cut)
    BY <1>1, <1>3, <1>7, <1>8, <1>9 DEF Session
<1>11. p \in Frames BY <1>2 DEF TableOK
<1> QED BY <1>3, <1>5, <1>10, <1>11

-----------------------------------------------------------------------------
(* Steps of the server sessions *)

\* The log of applied batches grows by one it does not hold.
LEMMA AppendApplied ==
    \A app \in Seq(Frames), h \in Frames :
        ByBatch(app) /\ h.batch \notin BatchesOf(app) =>
            /\ Append(app, h) \in Seq(Frames) /\ ByBatch(Append(app, h))
            /\ BatchesOf(Append(app, h)) = BatchesOf(app) \cup {h.batch}
\* A wire with a single frame.
<1>OneFrame. ASSUME NEW f \in Frames
      PROVE  /\ <<f>> \in Seq(Frames) /\ ByBatch(<<f>>)
             /\ Range(<<f>>) = {f} /\ BatchesOf(<<f>>) = {f.batch}
    BY <1>OneFrame DEF ByBatch, Range, BatchesOf
<1> SUFFICES ASSUME NEW app \in Seq(Frames), ByBatch(app), NEW h \in Frames, h.batch \notin BatchesOf(app)
             PROVE  /\ Append(app, h) \in Seq(Frames) /\ ByBatch(Append(app, h))
                    /\ BatchesOf(Append(app, h)) = BatchesOf(app) \cup {h.batch}
    OBVIOUS
<1>1. Append(app, h) = app \o <<h>> OBVIOUS
<1>2. <<h>> \in Seq(Frames) /\ ByBatch(<<h>>) /\ BatchesOf(<<h>>) = {h.batch} BY <1>OneFrame
<1>3. BatchesOf(app) \cap BatchesOf(<<h>>) = {} BY <1>2
<1> QED BY <1>1, <1>2, <1>3, WireAfterWire

-----------------------------------------------------------------------------
(* The theorems *)

\* No registrant, no connection, nothing sent.
LEMMA InitInv == Init => IInv
<1> SUFFICES ASSUME Init PROVE IInv OBVIOUS
<1>1. /\ registrants = << >> /\ pending = {} /\ next_correlation = 0 /\ next_generation = 0
      /\ attached = FALSE /\ retry_armed = FALSE /\ retry_wakeup = FALSE /\ conn = 0
      /\ wires = [c \in 1..MaxConns |-> << >>] /\ answers = << >> /\ next_flush = 0
      /\ applied = << >> /\ reported = {} /\ cut = {}
    BY DEF Init
<1>2. DOMAIN registrants = {} BY <1>1, NoQueue
<1>3. QueuesOK(registrants) /\ InQueues(registrants) = {}
    <2>1. registrants \in [DOMAIN registrants -> Outbox] BY <1>1, <1>2
    <2> QED BY <1>2, <2>1 DEF QueuesOK, InQueues
<1>4. \A c \in 1..MaxConns : wires[c] = << >> BY <1>1
<1>5. WiresOK(wires) /\ InWires(wires) = {}
    <2>1. wires \in [1..MaxConns -> Seq(Frames)] BY <1>1, NoQueue
    <2> QED BY <1>4, <2>1, NoQueue DEF WiresOK, InWires
<1>6. InTable(pending) = {} /\ Returning(pending, answers) = {} BY <1>1 DEF InTable, Returning
<1>7. Places(registrants, pending, wires, answers, applied, reported)
    BY <1>1, <1>3, <1>5, <1>6, NoQueue DEF Places, Apart
<1>8. TableOK(pending, next_correlation) /\ AnswersOK(answers, pending)
    BY <1>1, NoQueue DEF TableOK, AnswersOK
<1>9. Session(pending, wires, answers, applied, conn, attached, next_correlation, cut)
    BY <1>1, <1>4, <1>8, NoQueue, BoundsAssumption DEF Session
<1>10. Known(registrants, pending, applied, reported, cut) = {}
    BY <1>1, <1>3, <1>6, NoQueue DEF Known
<1>11. Account({}, 0) BY DEF Account
<1> QED BY <1>1, <1>7, <1>9, <1>10, <1>11 DEF IInv, TimerOK

\* Every step keeps the inductive invariant.
LEMMA NextInv ==
    IInv /\ [Next]_vars =>
        IInv'
\* Recomputing the retry wakeup at the end of a step restates the timer.
<1>TimerRestated. ASSUME TimerOK, NEW regs, NEW live \in BOOLEAN, RetryWakeup(regs, live), attached' = live
      PROVE  TimerOK'
    <2> USE <1>TimerRestated
    <2>1. Blocked(regs, live) \in BOOLEAN /\ (Blocked(regs, live) => live) BY DEF Blocked
    <2> QED BY <2>1 DEF TimerOK, RetryWakeup
\* Outboxes::register.
<1>RegisterStep.     \A k \in Keys, d \in Depths :
                         IInv /\ Register(k, d) =>
                             IInv'
                 \* A registrant with an empty queue.
    <2>NewQueue. ASSUME NEW regs, QueuesOK(regs), NEW k \in Keys, k \notin DOMAIN regs,
                 NEW o \in Outbox, o.parked = << >>,
                 NEW after, after = [j \in DOMAIN regs \cup {k} |-> IF j = k THEN o ELSE regs[j]]
          PROVE  QueuesOK(after) /\ InQueues(after) = InQueues(regs)
        <3> USE <2>NewQueue
        <3>1. /\ DOMAIN after = DOMAIN regs \cup {k} /\ after[k] = o
              /\ \A j \in DOMAIN regs : after[j] = regs[j]
            OBVIOUS
        <3>2. DOMAIN regs \subseteq Keys /\ regs \in [DOMAIN regs -> Outbox] BY DEF QueuesOK
        <3>3. after \in [DOMAIN after -> Outbox]
            <4>1. \A j \in DOMAIN regs \cup {k} : (IF j = k THEN o ELSE regs[j]) \in Outbox BY <3>2
            <4> QED BY <3>1, <4>1
        <3>4. Range(after[k].parked) = {} /\ IsInjective(after[k].parked) BY <3>1, NoQueue
        <3>5. \A j \in DOMAIN after : IsInjective(after[j].parked) BY <3>1, <3>4 DEF QueuesOK
        <3>6. ASSUME NEW i \in DOMAIN after, NEW j \in DOMAIN after, i # j
              PROVE  Range(after[i].parked) \cap Range(after[j].parked) = {}
            <4>1. CASE i = k \/ j = k BY <3>4, <4>1
            <4>2. CASE i # k /\ j # k BY <3>1, <3>6, <4>2 DEF QueuesOK
            <4> QED BY <4>1, <4>2
        <3>7. QueuesOK(after) BY <3>1, <3>2, <3>3, <3>5, <3>6 DEF QueuesOK
        <3>8. \A f : f \in InQueues(regs) <=> \E j \in DOMAIN regs : f \in Range(regs[j].parked)
            BY DEF InQueues
        <3>9. \A f : f \in InQueues(after) <=> \E j \in DOMAIN after : f \in Range(after[j].parked)
            BY DEF InQueues
        <3>10. InQueues(after) = InQueues(regs) BY <3>1, <3>4, <3>8, <3>9
        <3> QED BY <3>7, <3>10
    <2> SUFFICES ASSUME IInv, NEW k \in Keys, NEW d \in Depths, Register(k, d)
                 PROVE  IInv'
        OBVIOUS
    <2> DEFINE o == [generation |-> next_generation, depth |-> d, parked |-> << >>,
                     in_flight |-> None, dropped |-> 0, discarded |-> FALSE, rate_limited |-> 0]
    <2>1. o \in Outbox /\ o.parked = << >>
        BY NoQueue, DepthsAssumption, SMTT(30) DEF IInv, Outbox, None
    <2>2. /\ k \notin DOMAIN registrants /\ next_generation' = next_generation + 1
          /\ registrants' = [j \in DOMAIN registrants \cup {k} |-> IF j = k THEN o ELSE registrants[j]]
          /\ UNCHANGED <<pending, next_correlation, attached, retry_armed, retry_wakeup,
                         conn, wires, answers, applied, next_flush, reported, cut>>
        BY DEF Register, network, ghosts
    <2> HIDE DEF o
    <2>3. QueuesOK(registrants) BY DEF IInv, Places
    <2>4. QueuesOK(registrants') /\ InQueues(registrants') = InQueues(registrants)
        <3>1. k \notin DOMAIN registrants BY <2>2
        <3>2. registrants' = [j \in DOMAIN registrants \cup {k} |-> IF j = k THEN o ELSE registrants[j]]
            BY <2>2
        <3> QED BY ONLY k \in Keys, <2>1, <2>3, <3>1, <3>2, <2>NewQueue
    <2>5. Places(registrants', pending, wires, answers, applied, reported) BY <2>4 DEF IInv, Places
    <2>6. Account(Known(registrants', pending, applied, reported, cut), next_flush)
        BY <2>4 DEF IInv, Known
    <2>7. next_generation' \in Nat BY <2>2 DEF IInv
    <2>8. TimerOK' BY <2>2 DEF IInv, TimerOK
    <2> QED BY <2>2, <2>5, <2>6, <2>7, <2>8 DEF IInv
\* Outboxes::deregister: the queue goes to the report.
<1>DeregisterStep. ASSUME IInv, NEW k \in Keys, Deregister(k)
      PROVE  IInv'
    <2> USE <1>DeregisterStep
    <2> DEFINE P == Range(registrants[k].parked)
               Q == InQueues(registrants)
    <2>1. /\ k \in DOMAIN registrants /\ reported' = reported \cup P
          /\ registrants' = [j \in DOMAIN registrants \ {k} |-> registrants[j]]
          /\ UNCHANGED <<pending, next_correlation, next_generation, attached, retry_armed, retry_wakeup,
                         conn, wires, answers, applied, next_flush, cut>>
        BY DEF Deregister, network
    <2>2. QueuesOK(registrants) BY DEF IInv, Places
    <2>3. /\ DOMAIN registrants' = DOMAIN registrants \ {k}
          /\ \A j \in DOMAIN registrants' : registrants'[j] = registrants[j]
        BY <2>1
    <2>4. registrants' \in [DOMAIN registrants' -> Outbox] BY <2>1, <2>2, <2>3 DEF QueuesOK
    <2>5. \A j \in DOMAIN registrants' : /\ IsInjective(registrants'[j].parked)
                                         /\ Range(registrants'[j].parked) = Range(registrants[j].parked) \ P
        BY <2>1, <2>2, <2>3 DEF QueuesOK
    <2>6. \A j \in DOMAIN registrants \ DOMAIN registrants' : Range(registrants[j].parked) \subseteq P
        BY <2>3
    <2>7. P \subseteq Q BY <2>1 DEF InQueues
    <2> HIDE DEF P
    <2>8. QueuesOK(registrants') /\ InQueues(registrants') = Q \ P
        BY <2>2, <2>3, <2>4, <2>5, <2>6, EditQueues, SMTT(30)
    <2> HIDE DEF Q
    <2>9. Places(registrants', pending, wires, answers, applied, reported')
        <3>1. Apart(Q, InWires(wires), BatchesOf(applied), reported, Returning(pending, answers),
                    InTable(pending))
            BY DEF IInv, Places, Q
        <3>2. Returning(pending, answers) \subseteq InTable(pending) BY ReturningIsPending
        <3>3. Apart(Q \ P, InWires(wires), BatchesOf(applied), reported', Returning(pending, answers),
                    InTable(pending))
            BY <2>1, <2>7, <3>1, <3>2 DEF Apart
        <3> QED BY <2>8, <3>3 DEF IInv, Places
    <2>10. Known(registrants', pending, applied, reported', cut)
             = Known(registrants, pending, applied, reported, cut)
        BY <2>1, <2>7, <2>8 DEF Known, Q
    <2>11. TimerOK' BY <2>1 DEF IInv, TimerOK
    <2> QED BY <2>1, <2>9, <2>10, <2>11 DEF IInv
\* Outboxes::discard_parked.
<1>DiscardParkedStep. ASSUME IInv, NEW k \in Keys, DiscardParked(k)
      PROVE  IInv'
    <2> USE <1>DiscardParkedStep
    <2> DEFINE P == Range(registrants[k].parked)
               Q == InQueues(registrants)
               o == [registrants[k] EXCEPT !.parked = << >>, !.discarded = TRUE]
    <2>1. /\ k \in DOMAIN registrants /\ reported' = reported \cup P
          /\ registrants' = [registrants EXCEPT ![k] = o]
          /\ RetryWakeup(registrants', attached)
          /\ UNCHANGED <<pending, next_correlation, next_generation, attached,
                         conn, wires, answers, applied, next_flush, cut>>
        BY DEF DiscardParked, Hold
    <2>2. QueuesOK(registrants) BY DEF IInv, Places
    <2>3. registrants[k] \in Outbox BY <2>1, <2>2, QueuesApart
    <2>4. o \in Outbox /\ o.parked = << >> BY <2>3, NoQueue DEF Outbox
    <2>5. P \subseteq Q BY <2>1 DEF InQueues
    <2> HIDE DEF o
    <2>6. QueuesOK(registrants') /\ InQueues(registrants') = Q \ P
        <3>1. k \in DOMAIN registrants BY <2>1
        <3>2. o \in Outbox /\ IsInjective(o.parked) /\ Range(o.parked) = {} BY <2>4, NoQueue
        <3>3. Range(o.parked) \cap (InQueues(registrants) \ Range(registrants[k].parked)) = {} BY <3>2
        <3>4. /\ QueuesOK([registrants EXCEPT ![k] = o])
              /\ InQueues([registrants EXCEPT ![k] = o])
                   = (InQueues(registrants) \ Range(registrants[k].parked)) \cup Range(o.parked)
            BY ONLY <2>2, <3>1, <3>2, <3>3, EditQueue, ZenonT(20)
        <3> QED BY <2>1, <3>2, <3>4
    <2> HIDE DEF P, Q
    <2>7. Places(registrants', pending, wires, answers, applied, reported')
        <3>1. Apart(Q, InWires(wires), BatchesOf(applied), reported, Returning(pending, answers),
                    InTable(pending))
            BY DEF IInv, Places, Q
        <3>2. Returning(pending, answers) \subseteq InTable(pending) BY ReturningIsPending
        <3>3. Apart(Q \ P, InWires(wires), BatchesOf(applied), reported', Returning(pending, answers),
                    InTable(pending))
            BY <2>1, <2>5, <3>1, <3>2 DEF Apart
        <3> QED BY <2>6, <3>3 DEF IInv, Places
    <2>8. Known(registrants', pending, applied, reported', cut)
             = Known(registrants, pending, applied, reported, cut)
        BY <2>1, <2>5, <2>6 DEF Known, Q
    <2>9. TimerOK' BY <2>1, <1>TimerRestated DEF IInv
    <2> QED BY <2>1, <2>7, <2>8, <2>9 DEF IInv
\* Outboxes::flush: sent at once when the wire is free, else queued.
<1>FlushStep. ASSUME IInv, NEW k \in Keys, Flush(k)
      PROVE  IInv'
    <2> USE <1>FlushStep
    <2> DEFINE o == registrants[k]
               x == [id |-> next_flush, generation |-> o.generation]
               regs == [registrants EXCEPT ![k] = Park(o, x, FALSE)]
               D == ParkDropped(o, x, FALSE)
               Q == InQueues(registrants)
    <2>1. /\ k \in DOMAIN registrants /\ next_flush' = next_flush + 1 /\ reported' = reported \cup D
          /\ \/ attached /\ Pump(regs, {k}, pending, conn)
             \/ Hold(regs) /\ UNCHANGED pending
          /\ UNCHANGED <<next_generation, attached, conn, answers, applied, cut>>
        BY DEF Flush
    <2>2. QueuesOK(registrants) /\ next_flush \in Nat BY DEF IInv, Places, Account
    <2>3. o \in Outbox BY <2>1, <2>2, QueuesApart
    <2>4. x \in Batches /\ x.id = next_flush BY <2>2, <2>3 DEF Outbox, Batches
    <2> HIDE DEF x
    <2>5. /\ x \notin Q /\ x \notin InWires(wires) /\ x \notin BatchesOf(applied)
          /\ x \notin reported /\ x \notin InTable(pending) /\ x \notin Returning(pending, answers)
        BY <2>4, NewFlushIsApart
    <2>6. QueuesOK(regs) /\ InQueues(regs) \cup D = Q \cup {x} /\ InQueues(regs) \cap D = {}
        BY <2>1, <2>2, <2>3, <2>4, <2>5, ParkInQueues
    <2> HIDE DEF o, regs, D, Q
    <2>7. Places(regs, pending, wires, answers, applied, reported')
        <3>1. Apart(Q, InWires(wires), BatchesOf(applied), reported, Returning(pending, answers),
                    InTable(pending))
            BY DEF IInv, Places, Q
        <3>2. Returning(pending, answers) \subseteq InTable(pending) BY ReturningIsPending
        <3>3. Apart(InQueues(regs), InWires(wires), BatchesOf(applied), reported',
                    Returning(pending, answers), InTable(pending))
            BY <2>1, <2>5, <2>6, <3>1, <3>2, SMTT(30) DEF Apart
        <3> QED BY <2>6, <3>3 DEF IInv, Places
    <2>8. Known(regs, pending, applied, reported', cut)
            = Known(registrants, pending, applied, reported, cut) \cup {x}
        BY <2>1, <2>6 DEF Known, Q
    <2>9. Account(Known(regs, pending, applied, reported', cut), next_flush')
        <3>1. Account(Known(registrants, pending, applied, reported, cut), next_flush) BY DEF IInv
        <3>2. Account(Known(registrants, pending, applied, reported, cut) \cup {x}, next_flush + 1)
            BY ONLY <2>4, <3>1, NewFlush, Zenon
        <3> QED BY <2>1, <2>8, <3>2
    <2>10. CASE attached /\ Pump(regs, {k}, pending, conn)
        <3>1. attached = TRUE BY <2>10
        <3>2. Session(pending, wires, answers, applied, conn, TRUE, next_correlation, cut)
            BY <3>1 DEF IInv
        <3>3. /\ Places(registrants', pending', wires', answers, applied, reported')
              /\ Session(pending', wires', answers, applied, conn, TRUE, next_correlation', cut)
              /\ Account(Known(registrants', pending', applied, reported', cut), next_flush')
            <4>1. Pump(regs, {k}, pending, conn) BY <2>10
            <4>2. Places(registrants', pending', wires', answers, applied, reported')
                BY ONLY <2>7, <2>9, <3>2, <4>1, PumpKeeps, Zenon
            <4>3. Session(pending', wires', answers, applied, conn, TRUE, next_correlation', cut)
                BY ONLY <2>7, <2>9, <3>2, <4>1, PumpKeeps, Zenon
            <4>4. Account(Known(registrants', pending', applied, reported', cut), next_flush')
                BY ONLY <2>7, <2>9, <3>2, <4>1, PumpKeeps, Zenon
            <4> QED BY <4>2, <4>3, <4>4
        <3>4. RetryWakeup(registrants', TRUE) BY <2>10 DEF Pump
        <3>5. TimerOK' BY <2>1, <3>1, <3>4, <1>TimerRestated DEF IInv
        <3> QED BY <2>1, <3>1, <3>3, <3>5 DEF IInv
    <2>11. CASE Hold(regs) /\ UNCHANGED pending
        <3>1. registrants' = regs /\ RetryWakeup(regs, attached) /\ UNCHANGED <<next_correlation, wires>>
            BY <2>11 DEF Hold
        <3>2. TimerOK' BY <2>1, <3>1, <1>TimerRestated DEF IInv
        <3> QED BY <2>1, <2>7, <2>9, <2>11, <3>1, <3>2 DEF IInv
    <2> QED BY <2>1, <2>10, <2>11
\* Outboxes::refuse_flush: the contract in force refuses a batch just composed.
<1>RefuseFlushStep. ASSUME IInv, NEW k \in Keys, RefuseFlush(k)
      PROVE  IInv'
    <2> USE <1>RefuseFlushStep
    <2> DEFINE x == [id |-> next_flush, generation |-> registrants[k].generation]
               o == [registrants[k] EXCEPT !.dropped = @ + 1]
               Q == InQueues(registrants)
    <2>1. /\ k \in DOMAIN registrants /\ next_flush' = next_flush + 1 /\ reported' = reported \cup {x}
          /\ registrants' = [registrants EXCEPT ![k] = o] /\ RetryWakeup(registrants', attached)
          /\ UNCHANGED <<pending, next_correlation, wires, next_generation, attached, conn, answers,
                         applied, cut>>
        BY DEF RefuseFlush, Hold
    <2>2. QueuesOK(registrants) /\ next_flush \in Nat BY DEF IInv, Places, Account
    <2>3. registrants[k] \in Outbox BY <2>1, <2>2, QueuesApart
    <2>4. x \in Batches /\ x.id = next_flush BY <2>2, <2>3 DEF Outbox, Batches
    <2>5. o \in Outbox /\ o.parked = registrants[k].parked BY <2>3, SMTT(30) DEF Outbox
    <2> HIDE DEF x, o
    <2>6. /\ x \notin Q /\ x \notin InWires(wires) /\ x \notin BatchesOf(applied)
          /\ x \notin reported /\ x \notin InTable(pending) /\ x \notin Returning(pending, answers)
        BY <2>4, NewFlushIsApart
    <2>7. Range(registrants[k].parked) \subseteq Q BY <2>1 DEF InQueues
    <2>8. IsInjective(registrants[k].parked) BY <2>1, <2>2 DEF QueuesOK
    <2>9. QueuesOK(registrants') /\ InQueues(registrants') = Q
        <3>1. Range(o.parked) \cap (InQueues(registrants) \ Range(registrants[k].parked)) = {} BY <2>5
        <3>2. k \in DOMAIN registrants /\ QueuesOK(registrants) /\ o \in Outbox /\ IsInjective(o.parked)
            BY <2>1, <2>2, <2>5, <2>8
        <3>3. /\ QueuesOK([registrants EXCEPT ![k] = o])
              /\ InQueues([registrants EXCEPT ![k] = o])
                   = (InQueues(registrants) \ Range(registrants[k].parked)) \cup Range(o.parked)
            BY ONLY <3>1, <3>2, EditQueue, Zenon
        <3> QED BY <2>1, <2>5, <2>7, <3>3
    <2> HIDE DEF Q
    <2>10. Places(registrants', pending, wires, answers, applied, reported')
        <3>1. Apart(Q, InWires(wires), BatchesOf(applied), reported, Returning(pending, answers),
                    InTable(pending))
            BY DEF IInv, Places, Q
        <3>2. Apart(Q, InWires(wires), BatchesOf(applied), reported', Returning(pending, answers),
                    InTable(pending))
            BY <2>1, <2>6, <3>1 DEF Apart
        <3> QED BY <2>9, <3>2 DEF IInv, Places
    <2>11. Known(registrants', pending, applied, reported', cut)
            = Known(registrants, pending, applied, reported, cut) \cup {x}
        BY <2>1, <2>9 DEF Known, Q
    <2>12. Account(Known(registrants', pending, applied, reported', cut), next_flush')
        <3>1. Account(Known(registrants, pending, applied, reported, cut), next_flush) BY DEF IInv
        <3>2. Account(Known(registrants, pending, applied, reported, cut) \cup {x}, next_flush + 1)
            BY ONLY <2>4, <3>1, NewFlush, ZenonT(20)
        <3> QED BY <2>1, <2>11, <3>2
    <2>13. TimerOK' BY <2>1, <1>TimerRestated DEF IInv
    <2> QED BY <2>1, <2>10, <2>12, <2>13 DEF IInv
\* Outboxes::on_attached: re-validation, then a pump of every registrant.
<1>OnAttachedStep. ASSUME IInv, NEW kept, OnAttached(kept)
      PROVE  IInv'
    <2> USE <1>OnAttachedStep
    <2> DEFINE Q == InQueues(registrants)
               regs == [k \in DOMAIN registrants |-> Revalidated(registrants[k], kept[k])]
               gone == Gone(registrants, kept)
    <2>1. /\ ~attached /\ conn < MaxConns /\ conn' = conn + 1 /\ attached' = TRUE
          /\ reported' = reported \cup gone
          /\ Pump(regs, DOMAIN regs, pending, conn + 1)
          /\ UNCHANGED <<next_generation, answers, applied, next_flush, cut>>
        BY DEF OnAttached, Gone
    <2>2. QueuesOK(registrants) BY DEF IInv, Places
    <2>3. regs = [k \in DOMAIN registrants |-> Revalidated(registrants[k], kept[k])] OBVIOUS
    <2>4. \A k \in DOMAIN registrants : kept[k] \in Survivors(registrants[k].parked) BY DEF OnAttached
    <2> HIDE DEF regs
    <2>5. gone \subseteq Q BY DEF Gone, InQueues
    <2>6. QueuesOK(regs) /\ InQueues(regs) = Q \ gone
        <3>1. QueuesOK(regs) BY ONLY <2>2, <2>3, <2>4, RevalidatedQueues, Zenon
        <3>2. InQueues(regs) = Q \ gone BY ONLY <2>2, <2>3, <2>4, RevalidatedQueues, Zenon
        <3> QED BY <3>1, <3>2
    <2> HIDE DEF Q, gone
    <2>8. Places(regs, pending, wires, answers, applied, reported')
        <3>1. Apart(Q, InWires(wires), BatchesOf(applied), reported, Returning(pending, answers),
                    InTable(pending))
            BY DEF IInv, Places, Q
        <3>2. Returning(pending, answers) \subseteq InTable(pending) BY ReturningIsPending
        <3>3. Apart(InQueues(regs), InWires(wires), BatchesOf(applied), reported',
                    Returning(pending, answers), InTable(pending))
            BY <2>1, <2>5, <2>6, <3>1, <3>2 DEF Apart
        <3> QED BY <2>6, <3>3 DEF IInv, Places
    <2>9. Session(pending, wires, answers, applied, conn + 1, TRUE, next_correlation, cut)
        <3>1. Session(pending, wires, answers, applied, conn, attached, next_correlation, cut) BY DEF IInv
        <3>2. conn \in 0..MaxConns /\ MaxConns \in Nat BY <3>1, BoundsAssumption DEF Session
        <3>3. conn + 1 \in 1..MaxConns /\ conn + 1 \in 0..MaxConns /\ conn + 1 # 0 /\ conn + 1 > conn
            BY <2>1, <3>2
        <3>4. wires[conn + 1] = << >> BY <3>1, <3>3 DEF Session
        <3>5. Range(wires[conn + 1]) = {} BY <3>4, NoQueue
        <3>6. \A c \in 1..MaxConns : c > conn + 1 => c > conn BY <3>2
        <3>7. \A c \in 1..MaxConns : /\ c > conn + 1 => wires[c] = << >>
                                     /\ BatchesOf(wires[c]) \subseteq cut
            BY <2>1, <3>1, <3>6 DEF Session
        <3>8. TableOK(pending, next_correlation) /\ AnswersOK(answers, pending) /\ answers = << >>
            BY <2>1, <3>1 DEF Session
        <3> QED BY <3>3, <3>5, <3>7, <3>8, NoQueue DEF Session
    <2>10. Account(Known(regs, pending, applied, reported', cut), next_flush)
        <3>1. Known(regs, pending, applied, reported', cut)
                = Known(registrants, pending, applied, reported, cut)
            BY <2>1, <2>5, <2>6 DEF Known, Q
        <3> QED BY <3>1 DEF IInv
    <2>11. /\ Places(registrants', pending', wires', answers, applied, reported')
           /\ Session(pending', wires', answers, applied, conn + 1, TRUE, next_correlation', cut)
           /\ Account(Known(registrants', pending', applied, reported', cut), next_flush)
        <3>1. Pump(regs, DOMAIN regs, pending, conn + 1) BY <2>1
        <3>2. Places(registrants', pending', wires', answers, applied, reported')
            BY ONLY <2>8, <2>9, <2>10, <3>1, PumpKeeps, Zenon
        <3>3. Session(pending', wires', answers, applied, conn + 1, TRUE, next_correlation', cut)
            BY ONLY <2>8, <2>9, <2>10, <3>1, PumpKeeps, Zenon
        <3>4. Account(Known(registrants', pending', applied, reported', cut), next_flush)
            BY ONLY <2>8, <2>9, <2>10, <3>1, PumpKeeps, Zenon
        <3> QED BY <3>2, <3>3, <3>4
    <2>12. RetryWakeup(registrants', TRUE) BY <2>1 DEF Pump
    <2>13. TimerOK' BY <2>1, <2>12, <1>TimerRestated DEF IInv
    <2> QED BY <2>1, <2>11, <2>13 DEF IInv
\* Outboxes::on_detached: what is in flight is cut off.
<1>OnDetachedStep. ASSUME IInv, OnDetached
      PROVE  IInv'
    <2> USE <1>OnDetachedStep
    <2> DEFINE new(k) == [registrants[k] EXCEPT !.in_flight = None]
    <2>1. /\ attached' = FALSE /\ pending' = {} /\ answers' = << >> /\ retry_armed' = FALSE
          /\ cut' = cut \cup InTable(pending)
          /\ registrants' = [k \in DOMAIN registrants |-> new(k)]
          /\ retry_wakeup' = IF retry_armed THEN FALSE ELSE retry_wakeup
          /\ UNCHANGED <<next_correlation, next_generation, conn, wires, applied, next_flush, reported>>
        BY DEF OnDetached, InTable
    <2>2. QueuesOK(registrants) BY DEF IInv, Places
    <2>3. \A k \in DOMAIN registrants :
             new(k) \in Outbox /\ new(k).parked = registrants[k].parked /\ IsInjective(registrants[k].parked)
        BY <2>2, QueuesApart DEF Outbox, None
    <2> HIDE DEF new
    <2>4. QueuesOK(registrants') /\ InQueues(registrants') = InQueues(registrants)
        <3> DEFINE after == registrants'
                   gone == {}
        <3>1. /\ DOMAIN after = DOMAIN registrants
              /\ \A k \in DOMAIN registrants : after[k] = new(k)
            BY <2>1
        <3>2. after \in [DOMAIN after -> Outbox] BY <2>1, <2>3
        <3>3. \A k \in DOMAIN after : /\ IsInjective(after[k].parked)
                                     /\ Range(after[k].parked) = Range(registrants[k].parked) \ gone
            BY <2>3, <3>1
        <3>4. /\ DOMAIN after \subseteq DOMAIN registrants
              /\ \A k \in DOMAIN registrants \ DOMAIN after : Range(registrants[k].parked) \subseteq gone
            BY <3>1
        <3> HIDE DEF after, gone
        <3>5. QueuesOK(after) /\ InQueues(after) = InQueues(registrants) \ gone
            BY ONLY <2>2, <3>2, <3>3, <3>4, EditQueues, ZenonT(20)
        <3> QED BY <3>5 DEF after, gone
    <2>5. InTable(pending') = {} /\ Returning(pending', answers') = {}
        BY <2>1 DEF InTable, Returning
    <2>6. Places(registrants', pending', wires, answers', applied, reported)
        <3>1. Apart(InQueues(registrants), InWires(wires), BatchesOf(applied), reported, {}, {})
            BY DEF IInv, Places, Apart
        <3> QED BY <2>4, <2>5, <3>1 DEF IInv, Places
    <2>7. Session(pending', wires, answers', applied, conn, FALSE, next_correlation, cut')
        <3>1. Session(pending, wires, answers, applied, conn, attached, next_correlation, cut) BY DEF IInv
        <3>2. InWires(wires) \subseteq cut' BY <2>1, WiresAreKnown, SMTT(30) DEF IInv
        <3>3. \A c \in 1..MaxConns : BatchesOf(wires[c]) \subseteq cut' BY <3>2 DEF InWires
        <3>4. TableOK({}, next_correlation) BY <3>1 DEF Session, TableOK
        <3>5. AnswersOK(<< >>, {}) BY NoQueue DEF AnswersOK
        <3> QED BY <2>1, <3>1, <3>3, <3>4, <3>5, NoQueue DEF Session
    <2>8. Known(registrants', pending', applied, reported, cut')
            = Known(registrants, pending, applied, reported, cut)
        BY <2>1, <2>4, <2>5 DEF Known
    <2>9. TimerOK' BY <2>1 DEF IInv, TimerOK
    <2> QED BY <2>1, <2>6, <2>7, <2>8, <2>9 DEF IInv
\* Outboxes::on_batch_result: a refused batch goes back to its queue, or to the embedder.
<1>OnBatchResultStep. ASSUME IInv, OnBatchResult
      PROVE  IInv'
    <2> USE <1>OnBatchResultStep
    <2>1. PICK p \in pending : 
            /\ p.correlation = Head(answers).correlation
            /\ \/ /\ reported' = reported \cup IF Head(answers).ok THEN {} ELSE {p.batch}
                  /\ pending' = pending \ {p}
                  /\ UNCHANGED <<registrants, next_correlation, retry_armed, retry_wakeup, wires>>
               \/ /\ SenderIsLive(p) /\ Head(answers).ok
                  /\ Pump([registrants EXCEPT ![p.key].in_flight = None], {p.key}, pending \ {p}, conn)
                  /\ UNCHANGED reported
               \/ /\ SenderIsLive(p) /\ ~Head(answers).ok
                  /\ Refused(p)
                  /\ pending' = pending \ {p}
        BY DEF OnBatchResult
    <2>2. /\ attached /\ answers # << >> /\ answers' = Tail(answers)
          /\ UNCHANGED <<next_generation, attached, conn, applied, next_flush, cut>>
        BY DEF OnBatchResult
    <2> DEFINE k == p.key
               f == p.batch
               ok == Head(answers).ok
               Q == InQueues(registrants)
               W == InWires(wires)
               A == BatchesOf(applied)
               B == Returning(pending, answers)
               T == InTable(pending)
    <2>3. /\ Session(pending \ {p}, wires, answers', applied, conn, TRUE, next_correlation, cut)
          /\ InTable(pending \ {p}) = T \ {f} /\ f \in T
          /\ Returning(pending \ {p}, answers') = B \ {f}
          /\ ok => f \in A
          /\ ~ok => f \in B
          /\ p \in Frames
        BY <2>1, <2>2, ResultTaken
    <2>4. QueuesOK(registrants) /\ WiresOK(wires) /\ applied \in Seq(Frames) /\ ByBatch(applied)
          /\ Apart(Q, W, A, reported, B, T)
        BY DEF IInv, Places
    <2>5. attached = TRUE /\ attached' = TRUE BY <2>2 DEF IInv
    <2>6. f \in Batches /\ k \in Keys BY <2>3 DEF Frames
    <2>7. B \subseteq T BY ReturningIsPending
    <2>8. Known(registrants, pending, applied, reported, cut) = Q \cup T \cup A \cup reported \cup cut
        BY DEF Known
    <2> HIDE DEF k, f, ok, Q, W, A, B, T
    <2>9. CASE /\ reported' = reported \cup IF ok THEN {} ELSE {f}
               /\ pending' = pending \ {p}
               /\ UNCHANGED <<registrants, next_correlation, retry_armed, retry_wakeup, wires>>
        <3>1. Apart(Q, W, A, reported', B \ {f}, T \ {f})
            BY <2>3, <2>4, <2>7, <2>9 DEF Apart
        <3>2. Places(registrants', pending', wires', answers', applied, reported')
            BY <2>3, <2>4, <2>9, <3>1 DEF Places, Q, W, A
        <3>3. Known(registrants', pending', applied, reported', cut)
                = Known(registrants, pending, applied, reported, cut)
            BY <2>3, <2>8, <2>9 DEF Known, Q, A
        <3>4. TimerOK' BY <2>2, <2>9 DEF IInv, TimerOK
        <3> QED BY <2>2, <2>3, <2>5, <2>9, <3>2, <3>3, <3>4 DEF IInv
    <2>10. CASE /\ SenderIsLive(p) /\ ok
                /\ Pump([registrants EXCEPT ![k].in_flight = None], {k}, pending \ {p}, conn)
                /\ UNCHANGED reported
        <3> DEFINE o == [registrants[k] EXCEPT !.in_flight = None]
                   freed == [registrants EXCEPT ![k].in_flight = None]
        <3>1. k \in DOMAIN registrants BY <2>10 DEF SenderIsLive, k
        <3>2. /\ registrants[k] \in Outbox /\ IsInjective(registrants[k].parked)
              /\ Range(registrants[k].parked) \subseteq Q
            BY <2>4, <3>1, QueuesApart DEF InQueues, Q
        <3>3. o \in Outbox /\ o.parked = registrants[k].parked BY <3>2 DEF Outbox, None
        <3>4. freed = [registrants EXCEPT ![k] = o] BY <3>1
        <3> HIDE DEF o, freed
        <3>5. QueuesOK(freed) /\ InQueues(freed) = Q
            <4>1. Range(o.parked) \cap (InQueues(registrants) \ Range(registrants[k].parked)) = {} BY <3>3
            <4>0. QueuesOK(registrants) /\ o \in Outbox /\ IsInjective(o.parked) BY <2>4, <3>2, <3>3
            <4>2. /\ QueuesOK([registrants EXCEPT ![k] = o])
                  /\ InQueues([registrants EXCEPT ![k] = o])
                       = (Q \ Range(registrants[k].parked)) \cup Range(o.parked)
                BY ONLY <3>1, <4>0, <4>1, EditQueue, ZenonT(20) DEF Q
            <4> QED BY <3>2, <3>3, <3>4, <4>2
        <3>6. Apart(Q, W, A, reported, B \ {f}, T \ {f}) BY <2>4 DEF Apart
        <3>7. Places(freed, pending \ {p}, wires, answers', applied, reported)
            BY <2>3, <2>4, <3>5, <3>6 DEF Places, W, A
        <3>8. Pump(freed, {k}, pending \ {p}, conn) BY <2>10 DEF freed
        <3>9. Account(Known(freed, pending \ {p}, applied, reported, cut), next_flush)
            <4>1. Known(freed, pending \ {p}, applied, reported, cut)
                    = Known(registrants, pending, applied, reported, cut)
                BY <2>3, <2>8, <2>10, <3>5 DEF Known, A
            <4> QED BY <4>1 DEF IInv
        <3>10. /\ Places(registrants', pending', wires', answers', applied, reported)
               /\ Session(pending', wires', answers', applied, conn, TRUE, next_correlation', cut)
               /\ Account(Known(registrants', pending', applied, reported, cut), next_flush)
            <4>1. Session(pending \ {p}, wires, answers', applied, conn, TRUE, next_correlation, cut)
                BY <2>3
            <4>2. Places(registrants', pending', wires', answers', applied, reported)
                BY ONLY <3>7, <3>8, <3>9, <4>1, PumpKeeps, Zenon
            <4>3. Session(pending', wires', answers', applied, conn, TRUE, next_correlation', cut)
                BY ONLY <3>7, <3>8, <3>9, <4>1, PumpKeeps, Zenon
            <4>4. Account(Known(registrants', pending', applied, reported, cut), next_flush)
                BY ONLY <3>7, <3>8, <3>9, <4>1, PumpKeeps, Zenon
            <4> QED BY <4>2, <4>3, <4>4
        <3>11. TimerOK'
            <4>1. RetryWakeup(registrants', TRUE) BY <3>8 DEF Pump
            <4> QED BY <2>5, <4>1, <1>TimerRestated DEF IInv
        <3> QED BY <2>2, <2>5, <2>10, <3>10, <3>11 DEF IInv
    <2>11. CASE SenderIsLive(p) /\ ~ok /\ Refused(p) /\ pending' = pending \ {p}
        <3> DEFINE o == [registrants[k] EXCEPT !.in_flight = None, !.rate_limited = @ + 1]
        <3>1. k \in DOMAIN registrants BY <2>11 DEF SenderIsLive, k
        <3>2. /\ registrants[k] \in Outbox /\ IsInjective(registrants[k].parked)
              /\ Range(registrants[k].parked) \subseteq Q
            BY <2>4, <3>1, QueuesApart DEF InQueues, Q
        <3>3. o \in Outbox /\ o.parked = registrants[k].parked
            <4>1. PICK r \in Outbox : r = registrants[k] BY <3>2
            <4>2. PICK n \in Nat : n = r.rate_limited + 1 BY SMTT(30) DEF Outbox
            <4>3. o = [r EXCEPT !.in_flight = {}, !.rate_limited = n] BY <4>1, <4>2 DEF None, Outbox
            <4> HIDE DEF o
            <4> QED BY <4>1, <4>3 DEF Outbox
        <3>4. \/ /\ reported' = reported \cup {f}
                 /\ Hold([registrants EXCEPT ![k] = o])
              \/ /\ reported' = reported \cup ParkDropped(o, f, TRUE)
                 /\ Hold([registrants EXCEPT ![k] = Park(o, f, TRUE)])
            BY <2>11 DEF Refused, k, f
        <3> HIDE DEF o
        <3>5. f \notin Q BY <2>3, <2>4 DEF Apart
        <3>6. PICK regs, D : /\ reported' = reported \cup D /\ Hold(regs) /\ QueuesOK(regs)
                             /\ InQueues(regs) \cup D = Q \cup {f} /\ InQueues(regs) \cap D = {}
            <4>1. CASE /\ reported' = reported \cup {f}
                       /\ Hold([registrants EXCEPT ![k] = o])
                <5>1. /\ QueuesOK(registrants) /\ o \in Outbox /\ IsInjective(o.parked)
                      /\ Range(o.parked) \cap (InQueues(registrants) \ Range(registrants[k].parked)) = {}
                    BY <2>4, <3>2, <3>3
                <5>2. /\ QueuesOK([registrants EXCEPT ![k] = o])
                      /\ InQueues([registrants EXCEPT ![k] = o])
                           = (Q \ Range(registrants[k].parked)) \cup Range(o.parked)
                    BY ONLY <3>1, <5>1, EditQueue, Zenon DEF Q
                <5>3. InQueues([registrants EXCEPT ![k] = o]) = Q BY <3>2, <3>3, <5>2
                <5>4. /\ InQueues([registrants EXCEPT ![k] = o]) \cup {f} = Q \cup {f}
                      /\ InQueues([registrants EXCEPT ![k] = o]) \cap {f} = {}
                    BY <3>5, <5>3
                <5> QED BY <4>1, <5>2, <5>4
            <4>2. CASE /\ reported' = reported \cup ParkDropped(o, f, TRUE)
                       /\ Hold([registrants EXCEPT ![k] = Park(o, f, TRUE)])
                <5>1. /\ QueuesOK([registrants EXCEPT ![k] = Park(o, f, TRUE)])
                      /\ InQueues([registrants EXCEPT ![k] = Park(o, f, TRUE)]) \cup ParkDropped(o, f, TRUE)
                           = Q \cup {f}
                      /\ InQueues([registrants EXCEPT ![k] = Park(o, f, TRUE)])
                           \cap ParkDropped(o, f, TRUE) = {}
                    BY <2>4, <2>6, <3>1, <3>3, <3>5, ParkInQueues DEF Q
                <5> QED BY <4>2, <5>1
            <4> QED BY <3>4, <4>1, <4>2
        <3>7. registrants' = regs /\ RetryWakeup(regs, attached) /\ UNCHANGED <<next_correlation, wires>>
            BY <3>6 DEF Hold
        <3>8. Apart(InQueues(regs), W, A, reported', B \ {f}, T \ {f})
            BY <2>3, <2>4, <2>7, <2>11, <3>6, SMTT(30) DEF Apart
        <3>9. Places(registrants', pending', wires', answers', applied, reported')
            BY <2>3, <2>4, <2>11, <3>6, <3>7, <3>8 DEF Places, W, A
        <3>10. Known(registrants', pending', applied, reported', cut)
                 = Known(registrants, pending, applied, reported, cut)
            BY <2>3, <2>8, <2>11, <3>6, <3>7 DEF Known, A
        <3>11. TimerOK' BY <2>2, <3>7, <1>TimerRestated DEF IInv
        <3> QED BY <2>2, <2>3, <2>5, <2>11, <3>7, <3>9, <3>10, <3>11 DEF IInv
    <2> QED BY <2>1, <2>9, <2>10, <2>11 DEF k, f, ok
\* Outboxes::on_retry_tick.
<1>OnRetryTickStep. ASSUME IInv, OnRetryTick
      PROVE  IInv'
    <2> USE <1>OnRetryTickStep
    <2>1. /\ Pump(registrants, DOMAIN registrants, pending, conn)
          /\ UNCHANGED <<next_generation, attached, conn, answers, applied, next_flush, reported, cut>>
        BY DEF OnRetryTick, ghosts
    <2>2. attached = TRUE BY DEF OnRetryTick, IInv, TimerOK
    <2>3. /\ Places(registrants, pending, wires, answers, applied, reported)
          /\ Session(pending, wires, answers, applied, conn, TRUE, next_correlation, cut)
          /\ Account(Known(registrants, pending, applied, reported, cut), next_flush)
        BY <2>2 DEF IInv
    <2>4. /\ Places(registrants', pending', wires', answers, applied, reported)
          /\ Session(pending', wires', answers, applied, conn, TRUE, next_correlation', cut)
          /\ Account(Known(registrants', pending', applied, reported, cut), next_flush)
        <3>1. Pump(registrants, DOMAIN registrants, pending, conn) BY <2>1
        <3>2. Places(registrants', pending', wires', answers, applied, reported)
            BY ONLY <2>3, <3>1, PumpKeeps, Zenon
        <3>3. Session(pending', wires', answers, applied, conn, TRUE, next_correlation', cut)
            BY ONLY <2>3, <3>1, PumpKeeps, Zenon
        <3>4. Account(Known(registrants', pending', applied, reported, cut), next_flush)
            BY ONLY <2>3, <3>1, PumpKeeps, Zenon
        <3> QED BY <3>2, <3>3, <3>4
    <2>5. TimerOK'
        <3>1. RetryWakeup(registrants', TRUE) BY <2>1 DEF Pump
        <3> QED BY <2>1, <2>2, <3>1, <1>TimerRestated DEF IInv
    <2> QED BY <2>1, <2>2, <2>4, <2>5 DEF IInv
\* A server session applies or refuses the next frame, and answers a live client.
<1>HandlePublishBatchStep. ASSUME IInv, NEW c \in 1..MaxConns, NEW ok \in BOOLEAN, HandlePublishBatch(c, ok)
      PROVE  IInv'
    <2> USE <1>HandlePublishBatchStep
    <2> DEFINE h == Head(wires[c])
               Q == InQueues(registrants)
               W == InWires(wires)
               A == BatchesOf(applied)
               B == Returning(pending, answers)
               T == InTable(pending)
               live == c = conn /\ attached
    <2>1. /\ wires[c] # << >> /\ wires' = [wires EXCEPT ![c] = Tail(@)]
          /\ applied' = IF ok THEN Append(applied, h) ELSE applied
          /\ answers' = IF live THEN Append(answers, [correlation |-> h.correlation, ok |-> ok])
                        ELSE answers
          /\ UNCHANGED <<registrants, pending, next_correlation, next_generation, attached,
                         retry_armed, retry_wakeup, conn, next_flush, reported, cut>>
        BY DEF HandlePublishBatch, client, ghosts
    <2>2. QueuesOK(registrants) /\ WiresOK(wires) /\ applied \in Seq(Frames) /\ ByBatch(applied)
          /\ Apart(Q, W, A, reported, B, T)
        BY DEF IInv, Places
    <2>3. Session(pending, wires, answers, applied, conn, attached, next_correlation, cut) BY DEF IInv
    <2>4. /\ WiresOK(wires') /\ h \in Frames /\ h \in Range(wires[c])
          /\ h.batch \in BatchesOf(wires[c]) /\ h.batch \in W
          /\ InWires(wires') = W \ {h.batch}
          /\ Range(Tail(wires[c])) = Range(wires[c]) \ {h}
          /\ BatchesOf(Tail(wires[c])) = BatchesOf(wires[c]) \ {h.batch}
        BY <2>1, <2>2, TakeFromWire
    <2>5. /\ wires'[c] = Tail(wires[c])
          /\ \A d \in 1..MaxConns : d # c => wires'[d] = wires[d]
        BY <2>1, <2>2 DEF WiresOK
    <2>6. W \subseteq T \cup cut BY <2>3, WiresAreKnown, SMTT(30) DEF IInv
    <2>7. h.batch \notin A /\ h.batch \notin reported /\ h.batch \notin B /\ h.batch \notin Q
        BY <2>2, <2>4 DEF Apart
    <2> HIDE DEF h
    <2>8. applied' \in Seq(Frames) /\ ByBatch(applied') /\ BatchesOf(applied') = A \cup IF ok THEN {h.batch} ELSE {}
        <3>1. CASE ok BY <2>1, <2>2, <2>4, <2>7, <3>1, AppendApplied
        <3>2. CASE ~ok BY <2>1, <2>2, <3>2
        <3> QED BY <3>1, <3>2
    <2>9. Known(registrants', pending', applied', reported', cut')
            = Known(registrants, pending, applied, reported, cut)
        <3>1. h.batch \in T \cup cut BY <2>4, <2>6
        <3> HIDE DEF Q, T, A
        <3>2. Known(registrants, pending, applied, reported, cut) = Q \cup T \cup A \cup reported \cup cut
            BY DEF Known, Q, T, A
        <3>3. Known(registrants, pending, applied', reported, cut)
                = Q \cup T \cup (A \cup IF ok THEN {h.batch} ELSE {}) \cup reported \cup cut
            BY <2>8 DEF Known, Q, T
        <3>4. Known(registrants', pending', applied', reported', cut')
                = Known(registrants, pending, applied', reported, cut)
            BY <2>1
        <3> QED BY <3>1, <3>2, <3>3, <3>4
    <2>10. TimerOK' BY <2>1 DEF IInv, TimerOK
    <2>11. CASE live
        <3>1. attached = TRUE /\ c = conn BY <2>11 DEF IInv
        <3>2. /\ h \in pending
              /\ \A i \in DOMAIN answers : answers[i].correlation # h.correlation
              /\ TableOK(pending, next_correlation) /\ AnswersOK(answers, pending)
            BY <2>3, <2>4, <3>1 DEF Session
        <3>3. answers' = Append(answers, [correlation |-> h.correlation, ok |-> ok]) BY <2>1, <2>11
        <3>4. /\ AnswersOK(answers', pending)
              /\ Returning(pending, answers') = B \cup IF ok THEN {} ELSE {h.batch}
              /\ \A i \in DOMAIN answers' :
                    \/ i \in DOMAIN answers /\ answers'[i] = answers[i]
                    \/ answers'[i].correlation = h.correlation /\ answers'[i].ok = ok
            <4> DEFINE a == [correlation |-> h.correlation, ok |-> ok]
            <4>1. a \in Answers /\ a.correlation = h.correlation /\ a.ok = ok BY <2>4 DEF Answers, Frames
            <4>2. answers \in Seq(Answers) /\ answers' = Append(answers, a) BY <3>2, <3>3 DEF AnswersOK
            <4> HIDE DEF a
            <4>3. /\ answers' \in Seq(Answers) /\ Len(answers') = Len(answers) + 1
                  /\ answers'[Len(answers) + 1] = a
                  /\ \A i \in 1..Len(answers) : answers'[i] = answers[i]
                BY <4>1, <4>2, Longer, SMTT(30)
            <4>4. /\ DOMAIN answers = 1..Len(answers) /\ DOMAIN answers' = 1..(Len(answers) + 1)
                  /\ Len(answers) \in Nat
                BY <4>2, <4>3, Positions
            <4>5. \A i \in DOMAIN answers' :
                     \/ i \in DOMAIN answers /\ answers'[i] = answers[i]
                     \/ i = Len(answers) + 1 /\ answers'[i] = a
                BY <4>3, <4>4
            <4>6. DOMAIN answers \subseteq DOMAIN answers' /\ Len(answers) + 1 \in DOMAIN answers' BY <4>4
            <4>7. AnswersOK(answers', pending)
                <5>1. \A i \in DOMAIN answers' : \E p \in pending : p.correlation = answers'[i].correlation
                    BY <3>2, <4>1, <4>5 DEF AnswersOK
                <5>2. \A i, j \in DOMAIN answers' : answers'[i].correlation = answers'[j].correlation => i = j
                    BY <3>2, <4>1, <4>5, SMTT(30) DEF AnswersOK
                <5> QED BY <4>3, <5>1, <5>2 DEF AnswersOK
            <4>8. \A p \in pending : p.correlation = h.correlation => p = h BY <3>2 DEF TableOK
            <4>9. Returning(pending, answers) \subseteq Returning(pending, answers')
                BY <4>3, <4>4, <4>6 DEF Returning
            <4>10. ~ok => h.batch \in Returning(pending, answers') BY <3>2, <4>1, <4>3, <4>6 DEF Returning
            <4>11. Returning(pending, answers')
                     \subseteq Returning(pending, answers) \cup IF ok THEN {} ELSE {h.batch}
                <5> SUFFICES ASSUME NEW p \in pending, NEW i \in DOMAIN answers',
                                    answers'[i].correlation = p.correlation, ~answers'[i].ok
                             PROVE  p.batch \in Returning(pending, answers) \cup IF ok THEN {} ELSE {h.batch}
                    BY DEF Returning
                <5>1. CASE i \in DOMAIN answers /\ answers'[i] = answers[i] BY <5>1 DEF Returning
                <5>2. CASE answers'[i] = a BY <4>1, <4>8, <5>2
                <5> QED BY <4>5, <5>1, <5>2
            <4> QED BY <4>1, <4>5, <4>7, <4>9, <4>10, <4>11
        <3> HIDE DEF Q, W, A, B, T
        <3>5. h.batch \in T BY <3>2 DEF T, InTable
        <3>6. Apart(Q, W \ {h.batch}, A \cup IF ok THEN {h.batch} ELSE {}, reported,
                    B \cup IF ok THEN {} ELSE {h.batch}, T)
            BY <2>2, <2>7 DEF Apart
        <3>7. Places(registrants, pending, wires', answers', applied', reported)
            BY <2>2, <2>4, <2>8, <3>4, <3>6 DEF Places, Q, T
        <3>8. \A p \in pending : p.correlation = h.correlation => p = h BY <3>2 DEF TableOK
        <3>9. Range(wires'[conn]) = Range(wires[conn]) \ {h} BY <2>4, <2>5, <3>1
        <3>10. Range(wires'[conn]) \subseteq pending BY <2>3, <3>1, <3>9 DEF Session
        <3>11. ASSUME NEW f \in Range(wires'[conn]), NEW i \in DOMAIN answers'
               PROVE  f.correlation # answers'[i].correlation
            <4>1. f \in pending /\ f # h /\ f \in Range(wires[conn]) BY <3>9, <3>10
            <4>2. f.correlation # h.correlation BY <3>8, <4>1
            <4>3. \A j \in DOMAIN answers : f.correlation # answers[j].correlation
                BY <2>3, <3>1, <4>1 DEF Session
            <4> QED BY <3>4, <4>2, <4>3
        <3>12. ASSUME NEW p \in pending, NEW i \in DOMAIN answers',
                      answers'[i].ok, p.correlation = answers'[i].correlation
               PROVE  p.batch \in BatchesOf(applied')
            <4>1. CASE i \in DOMAIN answers /\ answers'[i] = answers[i]
                BY <2>3, <2>8, <3>12, <4>1 DEF Session, A
            <4>2. CASE answers'[i].correlation = h.correlation /\ answers'[i].ok = ok
                BY <2>8, <3>8, <3>12, <4>2
            <4> QED BY <3>4, <4>1, <4>2
        <3>13. ASSUME NEW d \in 1..MaxConns
               PROVE  /\ d > conn => wires'[d] = << >>
                      /\ d < conn => BatchesOf(wires'[d]) \subseteq cut
            <4>1. conn \in Nat /\ d \in Nat BY <2>3, BoundsAssumption, SMTT(30) DEF Session
            <4>2. CASE d = conn BY <4>1, <4>2
            <4>3. CASE d # conn BY <2>3, <2>5, <3>1, <4>3 DEF Session
            <4> QED BY <4>2, <4>3
        <3>14. Session(pending, wires', answers', applied', conn, TRUE, next_correlation, cut)
            BY <2>3, <3>1, <3>2, <3>4, <3>10, <3>11, <3>12, <3>13 DEF Session
        <3> QED BY <2>1, <2>9, <2>10, <3>1, <3>7, <3>14 DEF IInv
    <2>12. CASE ~live
        <3>1. answers' = answers BY <2>1, <2>12
        <3> HIDE DEF Q, W, A, B, T
        <3>2. Apart(Q, W \ {h.batch}, A \cup IF ok THEN {h.batch} ELSE {}, reported, B, T)
            BY <2>2, <2>7 DEF Apart
        <3>3. Places(registrants, pending, wires', answers, applied', reported)
            BY <2>2, <2>4, <2>8, <3>2 DEF Places, Q, B, T
        <3>4. conn \in Nat /\ c \in Nat /\ ~(c > conn)
            <4>1. conn \in 0..MaxConns BY <2>3 DEF Session
            <4>2. c > conn => wires[c] = << >> BY <2>3 DEF Session
            <4>3. wires[c] # << >> BY <2>1
            <4> QED BY <4>1, <4>2, <4>3, BoundsAssumption
        <3>5. c < conn \/ ~attached BY <2>12, <3>4
        <3>6. attached => wires'[conn] = wires[conn]
            <4>1. conn # 0 /\ conn \in 0..MaxConns => conn \in 1..MaxConns BY BoundsAssumption
            <4> QED BY <2>3, <2>5, <2>12, <4>1 DEF Session
        <3>7. ASSUME NEW d \in 1..MaxConns
              PROVE  /\ d > conn => wires'[d] = << >>
                     /\ d < conn \/ ~attached => BatchesOf(wires'[d]) \subseteq cut
            <4>1. CASE d = c BY <2>3, <2>4, <2>5, <3>4, <3>5, <4>1 DEF Session
            <4>2. CASE d # c BY <2>3, <2>5, <4>2 DEF Session
            <4> QED BY <4>1, <4>2
        <3>8. BatchesOf(applied) \subseteq BatchesOf(applied') BY <2>8 DEF A
        <3>9. Session(pending, wires', answers, applied', conn, attached, next_correlation, cut)
            BY <2>3, <3>6, <3>7, <3>8 DEF Session
        <3> QED BY <2>1, <2>9, <2>10, <3>1, <3>3, <3>9 DEF IInv
    <2> QED BY <2>11, <2>12
\* A server session gives up what is left on the wire of a lost connection.
<1>SessionEndsStep. ASSUME IInv, NEW c \in 1..MaxConns, SessionEnds(c)
      PROVE  IInv'
    <2> USE <1>SessionEndsStep
    <2>1. /\ c < conn \/ ~attached
          /\ wires' = [wires EXCEPT ![c] = << >>]
          /\ UNCHANGED <<registrants, pending, next_correlation, next_generation, attached, retry_armed,
                         retry_wakeup, conn, answers, applied, next_flush, reported, cut>>
        BY DEF SessionEnds, client, ghosts
    <2>2. /\ Places(registrants, pending, wires, answers, applied, reported)
          /\ Session(pending, wires, answers, applied, conn, attached, next_correlation, cut)
          /\ WiresOK(wires)
        BY DEF IInv, Places
    <2>3. /\ WiresOK(wires')
          /\ InWires(wires') = (InWires(wires) \ BatchesOf(wires[c])) \cup {}
        <3>1. /\ WiresOK(wires) /\ << >> \in Seq(Frames) /\ ByBatch(<< >>) /\ BatchesOf(<< >>) = {}
            BY <2>2, NoQueue
        <3>2. BatchesOf(<< >>) \cap (InWires(wires) \ BatchesOf(wires[c])) = {} BY <3>1
        <3>3. /\ WiresOK([wires EXCEPT ![c] = << >>])
              /\ InWires([wires EXCEPT ![c] = << >>])
                   = (InWires(wires) \ BatchesOf(wires[c])) \cup BatchesOf(<< >>)
            BY ONLY c \in 1..MaxConns, <3>1, <3>2, EditWire, Zenon
        <3> QED BY <2>1, <3>1, <3>3
    <2>4. /\ wires'[c] = << >>
          /\ \A d \in 1..MaxConns : d # c => wires'[d] = wires[d]
        BY <2>1, <2>2 DEF WiresOK
    <2>5. Places(registrants, pending, wires', answers, applied, reported)
        BY <2>2, <2>3 DEF Places, Apart
    <2>6. conn \in 0..MaxConns /\ conn \in Nat /\ c \in Nat
        <3>1. conn \in 0..MaxConns BY <2>2 DEF Session
        <3> QED BY <3>1, BoundsAssumption
    <2>7. attached => wires'[conn] = wires[conn]
        <3>1. conn # 0 => conn \in 1..MaxConns BY <2>6, BoundsAssumption
        <3> QED BY <2>1, <2>2, <2>4, <2>6, <3>1 DEF Session
    <2>8. \A d \in 1..MaxConns : /\ d > conn => wires'[d] = << >>
                                 /\ d < conn \/ ~attached => BatchesOf(wires'[d]) \subseteq cut
        BY <2>2, <2>4, NoQueue DEF Session
    <2>9. Session(pending, wires', answers, applied, conn, attached, next_correlation, cut)
        BY <2>2, <2>7, <2>8 DEF Session
    <2>10. TimerOK' BY <2>1 DEF IInv, TimerOK
    <2> QED BY <2>1, <2>5, <2>9, <2>10 DEF IInv
<1> SUFFICES ASSUME IInv, [Next]_vars PROVE IInv'
    OBVIOUS
<1>1. CASE \E k \in Keys, d \in Depths : Register(k, d) BY <1>1, <1>RegisterStep
<1>2. CASE \E k \in Keys : Deregister(k) BY <1>2, <1>DeregisterStep
<1>3. CASE \E k \in Keys : DiscardParked(k) BY <1>3, <1>DiscardParkedStep
<1>4. CASE \E k \in Keys : Flush(k) BY <1>4, <1>FlushStep
<1>5. CASE \E k \in Keys : RefuseFlush(k) BY <1>5, <1>RefuseFlushStep
<1>6. CASE Attach BY <1>6, <1>OnAttachedStep DEF Attach
<1>7. CASE OnDetached BY <1>7, <1>OnDetachedStep
<1>8. CASE OnBatchResult BY <1>8, <1>OnBatchResultStep
<1>9. CASE OnRetryTick BY <1>9, <1>OnRetryTickStep
<1>10. CASE Handle BY <1>10, <1>HandlePublishBatchStep DEF Handle
<1>11. CASE \E c \in 1..MaxConns : SessionEnds(c) BY <1>11, <1>SessionEndsStep
<1>12. CASE UNCHANGED vars
    BY <1>12 DEF vars, client, network, ghosts, IInv, TimerOK
<1> QED BY <1>1, <1>2, <1>3, <1>4, <1>5, <1>6, <1>7, <1>8, <1>9, <1>10, <1>11, <1>12 DEF Next

\* The sets the properties speak of are those of the invariant.
LEMMA NamesAgree ==
    /\ AllParked = InQueues(registrants) /\ Applied = BatchesOf(applied)
    /\ OnWire = InWires(wires) /\ {p.batch : p \in pending} = InTable(pending)
<1>1. AllParked = InQueues(registrants) BY DEF AllParked, Parked, InQueues
<1>2. \A s : {f.batch : f \in Range(s)} = BatchesOf(s) BY DEF Range, BatchesOf
<1>3. Applied = BatchesOf(applied) BY <1>2 DEF Applied
<1>4. OnWire = InWires(wires) BY <1>2 DEF OnWire, InWires
<1> QED BY <1>1, <1>3, <1>4 DEF InTable

\* What the inductive invariant says of the four safety properties.
LEMMA IInvImplies ==
    ASSUME IInv
    PROVE  AppliedAtMostOnce /\ AnswersReconcile /\ ReportedIsDead /\ LossIsAccounted
<1>1. AppliedAtMostOnce
    <2>1. applied \in Seq(Frames) /\ ByBatch(applied) BY DEF IInv, Places
    <2> QED BY <2>1, Positions, SMTT(30) DEF AppliedAtMostOnce, ByBatch
<1>2. AnswersReconcile
    <2>1. AnswersOK(answers, pending) BY DEF IInv, Session
    <2>2. DOMAIN answers = 1..Len(answers) BY <2>1, Positions DEF AnswersOK
    <2> QED BY <2>1, <2>2 DEF AnswersReconcile, AnswersOK
<1>3. ReportedIsDead
    <2>1. Apart(InQueues(registrants), InWires(wires), BatchesOf(applied), reported,
                Returning(pending, answers), InTable(pending))
        BY DEF IInv, Places
    <2> QED BY <2>1, NamesAgree DEF ReportedIsDead, Apart
<1>4. LossIsAccounted
    <2>1. Account(Known(registrants, pending, applied, reported, cut), next_flush) BY DEF IInv
    <2>2. Known(registrants, pending, applied, reported, cut)
            = AllParked \cup {p.batch : p \in pending} \cup Applied \cup reported \cup cut
        BY NamesAgree DEF Known
    <2> QED BY <2>1, <2>2 DEF LossIsAccounted, Account
<1> QED BY <1>1, <1>2, <1>3, <1>4

\* The client's tables and the server's record stay consistent: the invariant the
\* results below rest on, for any registrants, depths and numbers of connections.
THEOREM OutboxesAreSound == Spec => []IInv
<1>1. IInv /\ [Next]_vars => IInv' BY NextInv
<1> QED BY InitInv, <1>1, PTL DEF Spec

\* The server applies each flush at most once, although the client retries refused
\* flushes, sends again after a reconnect, and the session of a connection it has
\* replaced may still be working (handle_publish_batch).
THEOREM FlushesAreAppliedOnce == Spec => []AppliedAtMostOnce
<1>1. IInv => AppliedAtMostOnce BY IInvImplies
<1> QED BY OutboxesAreSound, <1>1, PTL

\* on_batch_result never meets a correlation it does not know: whatever the embedder
\* deregistered or registered again meanwhile, the batch answered is pending.
THEOREM ResultsAreKnown == Spec => []AnswersReconcile
<1>1. IInv => AnswersReconcile BY IInvImplies
<1> QED BY OutboxesAreSound, <1>1, PTL

\* What the client hands back as lost, on deregister, discard_parked, a full queue,
\* re-validation or a refusal, is neither queued nor on a wire and is not applied.
THEOREM LostIsLost == Spec => []ReportedIsDead
<1>1. IInv => ReportedIsDead BY IInvImplies
<1> QED BY OutboxesAreSound, <1>1, PTL

\* Every flush the embedder offered is queued, unanswered, applied, handed back, or
\* was unanswered when on_detached cleared the table: none is lost in silence.
THEOREM EveryFlushIsAccounted == Spec => []LossIsAccounted
<1>1. IInv => LossIsAccounted BY IInvImplies
<1> QED BY OutboxesAreSound, <1>1, PTL

-----------------------------------------------------------------------------
(* The order of flushes *)

Sorted(q) == \A i, j \in DOMAIN q : i < j => q[i].id < q[j].id

\* Of a registration with queue q and flight fl: its queue is in the order the flushes
\* were offered, its unanswered flush is older than those, and what the server was sent
\* is older than both or is the unanswered one.
InOrder(gen, q, fl, table, out) ==
    /\ Sorted(q) /\ \A g \in Range(q) : g.generation = gen
    /\ \A p \in table : p.batch.generation = gen =>
          fl = {p.correlation} /\ \A g \in Range(q) : p.batch.id < g.id
    /\ \A f \in out : f.generation = gen =>
          /\ \A g \in Range(q) : f.id < g.id
          /\ \A p \in table : p.batch.generation = gen => f = p.batch \/ f.id < p.batch.id

Order(regs, table, out, ng) ==
    /\ \A k \in DOMAIN regs :
          /\ regs[k].generation < ng
          /\ InOrder(regs[k].generation, regs[k].parked, regs[k].in_flight, table, out)
    /\ \A j, k \in DOMAIN regs : regs[j].generation = regs[k].generation => j = k
    /\ \A f \in out \cup InTable(table) : f.generation < ng

\* What the server was sent and has not refused.
Out(ws, app) == InWires(ws) \cup BatchesOf(app)

OInv == Order(registrants, pending, Out(wires, applied), next_generation)

-----------------------------------------------------------------------------
(* How an order survives *)

\* A registration keeps its order with fewer flushes queued, unanswered or sent.
LEMMA InOrderShrinks ==
    ASSUME NEW gen, NEW q, NEW fl, NEW table, NEW out, InOrder(gen, q, fl, table, out),
           NEW r, Sorted(r), Range(r) \subseteq Range(q),
           NEW less, less \subseteq table, NEW sent, sent \subseteq out,
           NEW fm, fm = fl \/ \A p \in less : p.batch.generation # gen
    PROVE  InOrder(gen, r, fm, less, sent)
<1>1. \A g \in Range(r) : g \in Range(q) OBVIOUS
<1> QED BY <1>1 DEF InOrder

\* So do all, when each keeps its generation and its order.
LEMMA OrderShrinks ==
    ASSUME NEW regs, NEW table, NEW out, NEW ng, Order(regs, table, out, ng),
           NEW after, DOMAIN after \subseteq DOMAIN regs,
           NEW less, less \subseteq table, NEW sent, sent \subseteq out,
           \A k \in DOMAIN after :
              /\ after[k].generation = regs[k].generation
              /\ InOrder(regs[k].generation, after[k].parked, after[k].in_flight, less, sent)
    PROVE  Order(after, less, sent, ng)
<1>1. \A k \in DOMAIN after : /\ k \in DOMAIN regs /\ after[k].generation < ng
                              /\ InOrder(after[k].generation, after[k].parked, after[k].in_flight, less, sent)
    BY DEF Order
<1>2. \A j, k \in DOMAIN after : after[j].generation = after[k].generation => j = k
    BY DEF Order
<1>3. \A f \in sent \cup InTable(less) : f \in out \cup InTable(table) BY DEF InTable
<1>4. \A f \in sent \cup InTable(less) : f.generation < ng BY <1>3 DEF Order
<1> QED BY <1>1, <1>2, <1>4 DEF Order

-----------------------------------------------------------------------------
(* The order is kept by every step *)

\* What the steps use of the state.
LEMMA OrderHere ==
    ASSUME IInv, OInv
    PROVE  /\ QueuesOK(registrants) /\ WiresOK(wires) /\ next_correlation \in Nat
           /\ next_generation \in Nat /\ pending \subseteq Frames
           /\ attached => conn \in 1..MaxConns
           /\ \A k \in DOMAIN registrants :
                /\ registrants[k] \in Outbox /\ registrants[k].parked \in Seq(Batches)
                /\ IsInjective(registrants[k].parked)
                /\ InOrder(registrants[k].generation, registrants[k].parked, registrants[k].in_flight,
                           pending, Out(wires, applied))
                /\ Sorted(registrants[k].parked)
<1>1. /\ QueuesOK(registrants) /\ WiresOK(wires) /\ next_generation \in Nat
      /\ Session(pending, wires, answers, applied, conn, attached, next_correlation, cut)
    BY DEF IInv, Places
<1>2. next_correlation \in Nat /\ pending \subseteq Frames BY <1>1 DEF Session, TableOK
<1>3. attached => conn \in 1..MaxConns BY <1>1, BoundsAssumption, SMTT(30) DEF Session
<1>4. \A k \in DOMAIN registrants :
        InOrder(registrants[k].generation, registrants[k].parked, registrants[k].in_flight,
                pending, Out(wires, applied))
    BY DEF OInv, Order
<1>5. \A k \in DOMAIN registrants : Sorted(registrants[k].parked) BY <1>4 DEF InOrder
<1> QED BY <1>1, <1>2, <1>3, <1>4, <1>5, QueuesApart

\* Nothing is queued and nothing is sent.
LEMMA InitOrder == Init => OInv
<1> SUFFICES ASSUME Init PROVE OInv OBVIOUS
<1>1. registrants = << >> /\ pending = {} /\ applied = << >> /\ \A c \in 1..MaxConns : wires[c] = << >>
    BY DEF Init
<1>2. DOMAIN registrants = {} BY <1>1, NoQueue
<1>3. InWires(wires) = {} /\ BatchesOf(applied) = {} BY <1>1, NoQueue DEF InWires
<1>4. InTable(pending) = {} BY <1>1 DEF InTable
<1> QED BY <1>2, <1>3, <1>4 DEF OInv, Order, Out

\* Every step keeps the order, given the inductive invariant.
LEMMA NextOrder ==
    IInv /\ OInv /\ [Next]_vars =>
        OInv'
\* Parking keeps the order when the flush goes to the end it belongs to.
<1>SortedPark.     \A o \in Outbox, f \in Batches, at_head \in BOOLEAN :
                       IsInjective(o.parked) /\ f \notin Range(o.parked) /\ Sorted(Queued(o, f, at_head)) =>
                           /\ Sorted(Park(o, f, at_head).parked)
                           /\ Range(Park(o, f, at_head).parked) \subseteq Range(o.parked) \cup {f}
                           /\ Park(o, f, at_head).generation = o.generation
                           /\ Park(o, f, at_head).in_flight = o.in_flight
               \* What Outbox::park keeps of a queue in order: all but its oldest.
    <2>SortedCap. ASSUME NEW q \in Seq(Batches), Sorted(q), NEW depth \in Nat
          PROVE  Sorted(SubSeq(q, Overflow(q, depth) + 1, Len(q)))
        <3> USE <2>SortedCap
        <3> DEFINE over == Overflow(q, depth)
                   kept == SubSeq(q, over + 1, Len(q))
        <3>0. Len(q) \in Nat /\ DOMAIN q = 1..Len(q) /\ \A i \in 1..Len(q) : q[i] \in Batches
            BY Positions, Positions
        <3>1. over \in 0..Len(q) BY <3>0 DEF Overflow
        <3> HIDE DEF over
        <3>2. /\ DOMAIN kept = 1..(Len(q) - over)
              /\ \A i \in 1..(Len(q) - over) : kept[i] = q[over + i]
            BY <3>1, Rest
        <3> HIDE DEF kept
        <3>5. \A i \in DOMAIN kept : over + i \in DOMAIN q /\ kept[i] = q[over + i]
            BY <3>0, <3>1, <3>2
        <3>6. \A i, j \in DOMAIN kept : i < j => over + i < over + j BY <3>0, <3>1, <3>2
        <3>7. Sorted(kept) BY <3>5, <3>6 DEF Sorted
        <3> QED BY <3>7 DEF kept, over
    <2> SUFFICES ASSUME NEW o \in Outbox, IsInjective(o.parked), NEW f \in Batches, f \notin Range(o.parked),
                        NEW at_head \in BOOLEAN, Sorted(Queued(o, f, at_head))
                 PROVE  /\ Sorted(Park(o, f, at_head).parked)
                        /\ Range(Park(o, f, at_head).parked) \subseteq Range(o.parked) \cup {f}
                        /\ Park(o, f, at_head).generation = o.generation
                        /\ Park(o, f, at_head).in_flight = o.in_flight
        OBVIOUS
    <2> DEFINE q == Queued(o, f, at_head)
               over == Overflow(q, o.depth)
               kept == SubSeq(q, over + 1, Len(q))
    <2>1. o.parked \in Seq(Batches) /\ o.depth \in Nat BY DEF Outbox
    <2>2. q \in Seq(Batches)
        BY <2>1, AppendToQueue, HeadOfQueue DEF Queued
    <2>3. Range(Park(o, f, at_head).parked) \subseteq Range(o.parked) \cup {f} BY ParkOutbox
    <2> HIDE DEF q
    <2>4. Sorted(kept)
        <3>1. Sorted(q) BY DEF q
        <3> QED BY ONLY <2>1, <2>2, <3>1, <2>SortedCap, Zenon
    <2>5. Park(o, f, at_head) = [o EXCEPT !.parked = kept, !.dropped = @ + over] BY DEF Park, q
    <2> HIDE DEF over, kept
    <2>6. /\ Park(o, f, at_head).parked = kept /\ Park(o, f, at_head).generation = o.generation
          /\ Park(o, f, at_head).in_flight = o.in_flight
        BY <2>5 DEF Outbox
    <2> QED BY <2>3, <2>4, <2>6
\* An edit of one outbox that keeps its generation and its order.
<1>OrderOfEdit. ASSUME NEW regs, NEW table, NEW out, NEW ng, Order(regs, table, out, ng),
             NEW k \in DOMAIN regs, NEW o, o.generation = regs[k].generation,
             NEW less, less \subseteq table,
             InOrder(o.generation, o.parked, o.in_flight, less, out)
      PROVE  Order([regs EXCEPT ![k] = o], less, out, ng)
    <2> USE <1>OrderOfEdit
    <2> DEFINE after == [regs EXCEPT ![k] = o]
    <2>1. /\ DOMAIN after = DOMAIN regs /\ after[k] = o
          /\ \A j \in DOMAIN regs : j # k => after[j] = regs[j]
        OBVIOUS
    <2> HIDE DEF after
    <2>2. ASSUME NEW j \in DOMAIN after
          PROVE  /\ after[j].generation = regs[j].generation
                 /\ InOrder(regs[j].generation, after[j].parked, after[j].in_flight, less, out)
        <3>1. CASE j = k BY <2>1, <3>1
        <3>2. CASE j # k
            <4>1. InOrder(regs[j].generation, regs[j].parked, regs[j].in_flight, table, out)
                BY <2>1 DEF Order
            <4>2. Sorted(regs[j].parked) BY <4>1 DEF InOrder
            <4>3. InOrder(regs[j].generation, regs[j].parked, regs[j].in_flight, less, out)
                BY <4>1, <4>2, InOrderShrinks
            <4> QED BY <2>1, <3>2, <4>3
        <3> QED BY <3>1, <3>2
    <2>3. DOMAIN after \subseteq DOMAIN regs BY <2>1
    <2>4. Order(after, less, out, ng)
        BY ONLY Order(regs, table, out, ng), less \subseteq table, <2>2, <2>3, OrderShrinks, ZenonT(20)
    <2> QED BY <2>4 DEF after
\* A pump sends the oldest flush of each queue it takes from, where nothing older of
\* that registration is unanswered.
<1>PumpInOrder.     \A regs : \A keys : \A table : \A con \in 1..MaxConns : \A app : \A ng :
                        QueuesOK(regs) /\ WiresOK(wires) /\ next_correlation \in Nat /\ Order(regs, table, Out(wires, app), ng) /\ Pump(regs, keys, table, con) =>
                            Order(registrants', pending', Out(wires', app), ng)
                \* A queue in order without its head, which is older than all the rest.
    <2>SortedTail. ASSUME NEW s \in Seq(Batches), s # << >>, Sorted(s)
          PROVE  Sorted(Tail(s)) /\ \A g \in Range(Tail(s)) : Head(s).id < g.id
        <3> USE <2>SortedTail
        <3>1. /\ Tail(s) \in Seq(Batches) /\ Len(Tail(s)) = Len(s) - 1
              /\ \A i \in 1..Len(Tail(s)) : Tail(s)[i] = s[i + 1]
            BY Parts
        <3>2. /\ DOMAIN s = 1..Len(s) /\ DOMAIN Tail(s) = 1..(Len(s) - 1)
              /\ Len(s) \in Nat \ {0} /\ Head(s) = s[1] /\ 1 \in DOMAIN s
            BY Parts, SMTT(30)
        <3>3. \A i \in DOMAIN Tail(s) : i + 1 \in DOMAIN s /\ Tail(s)[i] = s[i + 1] /\ 1 < i + 1
            BY <3>1, <3>2
        <3>4. \A i, j \in DOMAIN Tail(s) : i < j => i + 1 < j + 1 BY <3>2
        <3>5. Sorted(Tail(s)) BY <3>3, <3>4 DEF Sorted
        <3>6. \A i \in DOMAIN Tail(s) : Head(s).id < Tail(s)[i].id BY <3>2, <3>3 DEF Sorted
        <3> QED BY <3>5, <3>6 DEF Range
    \* Of the flushes on a longer wire, each is on one of its parts.
    <2>BatchesAfter. ASSUME NEW s \in Seq(Frames), NEW t \in Seq(Frames)
          PROVE  BatchesOf(s \o t) \subseteq BatchesOf(s) \cup BatchesOf(t)
        <3> USE <2>BatchesAfter
        <3> DEFINE u == s \o t
        <3>1. /\ u \in Seq(Frames) /\ Len(u) = Len(s) + Len(t)
              /\ \A i \in 1..(Len(s) + Len(t)) : u[i] = IF i <= Len(s) THEN s[i] ELSE t[i - Len(s)]
            BY Joined
        <3>2. /\ DOMAIN s = 1..Len(s) /\ DOMAIN t = 1..Len(t) /\ DOMAIN u = 1..(Len(s) + Len(t))
              /\ Len(s) \in Nat /\ Len(t) \in Nat
            BY <3>1, Positions
        <3> HIDE DEF u
        <3>3. \A i \in DOMAIN u :
                (i \in DOMAIN s /\ u[i] = s[i]) \/ (i - Len(s) \in DOMAIN t /\ u[i] = t[i - Len(s)])
            BY <3>1, <3>2, SMTT(30)
        <3>4. BatchesOf(u) \subseteq BatchesOf(s) \cup BatchesOf(t) BY <3>3 DEF BatchesOf
        <3> QED BY <3>4 DEF u
    <2> SUFFICES ASSUME NEW regs, QueuesOK(regs), NEW keys, NEW table, NEW con \in 1..MaxConns, WiresOK(wires),
                        next_correlation \in Nat, NEW app, NEW ng,
                        Order(regs, table, Out(wires, app), ng), Pump(regs, keys, table, con)
                 PROVE  Order(registrants', pending', Out(wires', app), ng)
        OBVIOUS
    <2> DEFINE ready == Ready(regs, keys)
               out == Out(wires, app)
               H(k) == Head(regs[k].parked)
    <2> PICK frames, F, N :
            /\ Offers(regs, keys, frames, F, next_correlation, N)
            /\ registrants' = Sent(regs, Range(F)) /\ pending' = table \cup Range(F)
            /\ next_correlation' = next_correlation + N
            /\ wires' = [wires EXCEPT ![con] = @ \o frames]
            /\ RetryWakeup(registrants', TRUE)
        BY PumpOffers
    <2>a. PICK sent : sent = Range(F) OBVIOUS
    <2>0. PICK S : S = InTable(sent) OBVIOUS
    <2>1. /\ registrants' = Sent(regs, Range(F)) /\ pending' = table \cup sent
          /\ wires' = [wires EXCEPT ![con] = @ \o frames]
        BY <2>a
    <2>2. frames \in Seq(Frames) /\ BatchesOf(frames) = S
        <3>1. frames \in Seq(Frames) BY DEF Offers
        <3> QED BY <2>0, <2>a, <3>1, OfferedFrames
    <2>3. /\ ready \subseteq DOMAIN regs
          /\ \A k \in ready : regs[k].parked # << >> /\ regs[k].in_flight = {}
          /\ \A k \in DOMAIN regs : regs[k] \in Outbox /\ regs[k].parked \in Seq(Batches)
        BY DEF Ready, QueuesOK, Outbox, None
    <2>b. F \in [ready -> Frames] /\ \A k \in ready : F[k].batch = H(k) BY DEF Offers
    <2>4. sent = {F[k] : k \in ready}
        <3> HIDE DEF ready
        <3> QED BY <2>a, <2>b DEF Range
    <2>5. S = {H(k) : k \in ready} BY <2>0, <2>a, OfferedFrames
    <2>c. Pumped(regs, ready, F, registrants') BY <2>1, PumpedOutboxes
    <2> HIDE DEF ready
    <2>6. Out(wires', app) \subseteq out \cup S
        <3>1. wires \in [1..MaxConns -> Seq(Frames)] BY DEF WiresOK
        <3>2. wires'[con] = wires[con] \o frames /\ \A d \in 1..MaxConns : d # con => wires'[d] = wires[d]
            BY <2>1, <3>1
        <3>3. BatchesOf(wires'[con]) \subseteq BatchesOf(wires[con]) \cup S
            BY <2>2, <3>1, <3>2, <2>BatchesAfter
        <3>4. \A d \in 1..MaxConns : BatchesOf(wires'[d]) \subseteq BatchesOf(wires[d]) \cup S
            BY <3>2, <3>3
        <3>5. InWires(wires') \subseteq InWires(wires) \cup S BY <3>4 DEF InWires
        <3> QED BY <3>5 DEF Out
    <2>7. \A k \in ready : /\ H(k) \in Range(regs[k].parked)
                            /\ Range(Tail(regs[k].parked)) \subseteq Range(regs[k].parked)
        BY <2>3, TailOfQueue DEF QueuesOK
    <2>8. \A k \in DOMAIN regs :
            /\ regs[k].generation < ng
            /\ InOrder(regs[k].generation, regs[k].parked, regs[k].in_flight, table, out)
        BY DEF Order
    <2>9. \A k \in ready : H(k).generation = regs[k].generation BY <2>3, <2>7, <2>8 DEF InOrder
    <2>10. \A j \in ready, k \in DOMAIN regs : H(j).generation = regs[k].generation => j = k
        BY <2>3, <2>9 DEF Order
    <2>11. \A k \in ready : \A p \in table : p.batch.generation # regs[k].generation
        <3> SUFFICES ASSUME NEW k \in ready, NEW p \in table, p.batch.generation = regs[k].generation
                     PROVE  FALSE
            OBVIOUS
        <3>1. regs[k].in_flight = {p.correlation} BY <2>3, <2>8 DEF InOrder
        <3> QED BY <2>3, <3>1
    <2>12. \A k \in ready : /\ Sorted(Tail(regs[k].parked))
                             /\ \A g \in Range(Tail(regs[k].parked)) : H(k).id < g.id
        <3> TAKE k \in ready
        <3>1. regs[k].parked \in Seq(Batches) /\ regs[k].parked # << >> BY <2>3
        <3>2. Sorted(regs[k].parked) BY <2>3, <2>8 DEF InOrder
        <3> QED BY <3>1, <3>2, <2>SortedTail
    <2>13. /\ DOMAIN registrants' = DOMAIN regs
           /\ \A k \in DOMAIN regs \ ready : registrants'[k] = regs[k]
           /\ \A k \in ready : /\ registrants'[k].generation = regs[k].generation
                               /\ registrants'[k].parked = Tail(regs[k].parked)
                               /\ registrants'[k].in_flight = {F[k].correlation}
        <3>1. DOMAIN registrants' = DOMAIN regs BY <2>c DEF Pumped
        <3>2. \A k \in DOMAIN regs \ ready : registrants'[k] = regs[k] BY <2>c DEF Pumped
        <3>3. ASSUME NEW k \in ready
              PROVE  /\ registrants'[k].generation = regs[k].generation
                     /\ registrants'[k].parked = Tail(regs[k].parked)
                     /\ registrants'[k].in_flight = {F[k].correlation}
            <4>1. registrants'[k] = [regs[k] EXCEPT !.parked = Tail(regs[k].parked),
                                                    !.in_flight = {F[k].correlation}]
                BY <2>c DEF Pumped
            <4>2. regs[k] \in Outbox BY <2>3
            <4> QED BY <4>1, <4>2 DEF Outbox
        <3> QED BY <3>1, <3>2, <3>3
    <2> HIDE DEF H, out
    <2>14. ASSUME NEW k \in DOMAIN regs
           PROVE  /\ registrants'[k].generation = regs[k].generation
                  /\ InOrder(regs[k].generation, registrants'[k].parked, registrants'[k].in_flight,
                             table \cup sent, out \cup S)
        <3> DEFINE gen == regs[k].generation
        <3>1. CASE k \notin ready
            <4>1. registrants'[k] = regs[k] BY <2>13, <3>1
            <4>2. \A f \in S : f.generation # gen BY <2>5, <2>10, <3>1
            <4>3. \A p \in sent : p.batch.generation # gen BY <2>4, <2>b, <2>10, <3>1
            <4>4. InOrder(gen, regs[k].parked, regs[k].in_flight, table, out) BY <2>8
            <4> HIDE DEF gen
            <4>5. InOrder(gen, regs[k].parked, regs[k].in_flight, table \cup sent, out \cup S)
                BY <4>2, <4>3, <4>4 DEF InOrder
            <4> QED BY <4>1, <4>5 DEF gen
        <3>2. CASE k \in ready
            <4> DEFINE q == regs[k].parked
                       t == Tail(regs[k].parked)
            <4>1. \A f \in S : f.generation = gen => f = H(k) BY <2>5, <2>10
            <4>2. \A p \in table \cup sent : p.batch.generation = gen => p = F[k] /\ p.batch = H(k)
                BY <2>4, <2>b, <2>10, <2>11, <3>2
            <4>3. InOrder(gen, q, regs[k].in_flight, table, out) BY <2>8
            <4>4. /\ Sorted(t) /\ H(k) \in Range(q) /\ Range(t) \subseteq Range(q)
                  /\ \A g \in Range(t) : H(k).id < g.id
                BY <2>7, <2>12, <3>2
            <4> HIDE DEF gen, q, t
            <4>5. \A f \in out : f.generation = gen => \A g \in Range(q) : f.id < g.id
                BY <4>3 DEF InOrder
            <4>6. \A f \in out \cup S : f.generation = gen =>
                     /\ \A g \in Range(t) : f.id < g.id
                     /\ f = H(k) \/ f.id < H(k).id
                BY <4>1, <4>4, <4>5
            <4>7. \A g \in Range(t) : g.generation = gen BY <4>3, <4>4 DEF InOrder
            <4>8. InOrder(gen, t, {F[k].correlation}, table \cup sent, out \cup S)
                BY <4>2, <4>4, <4>6, <4>7 DEF InOrder
            <4> QED BY <2>13, <3>2, <4>8 DEF gen, t
        <3> QED BY <3>1, <3>2
    <2>15. Order(registrants', table \cup sent, out \cup S, ng)
        <3>1. \A j, k \in DOMAIN regs : regs[j].generation = regs[k].generation => j = k BY DEF Order
        <3>2. \A f \in out \cup InTable(table) : f.generation < ng BY DEF Order, out
        <3>3. \A f \in S : f.generation < ng BY <2>3, <2>5, <2>8, <2>9
        <3>4. InTable(table \cup sent) = InTable(table) \cup S BY <2>0 DEF InTable
        <3>5. \A f \in (out \cup S) \cup InTable(table \cup sent) : f.generation < ng
            BY <3>2, <3>3, <3>4
        <3>6. \A j, k \in DOMAIN registrants' :
                 registrants'[j].generation = registrants'[k].generation => j = k
            BY <2>13, <2>14, <3>1
        <3>7. \A k \in DOMAIN registrants' :
                 /\ registrants'[k].generation < ng
                 /\ InOrder(registrants'[k].generation, registrants'[k].parked, registrants'[k].in_flight,
                            table \cup sent, out \cup S)
            BY <2>8, <2>13, <2>14
        <3> QED BY <3>5, <3>6, <3>7 DEF Order
    <2>16. ASSUME NEW k \in DOMAIN registrants'
           PROVE  InOrder(registrants'[k].generation, registrants'[k].parked, registrants'[k].in_flight,
                          table \cup sent, Out(wires', app))
        <3>1. InOrder(registrants'[k].generation, registrants'[k].parked, registrants'[k].in_flight,
                      table \cup sent, out \cup S)
            BY <2>15 DEF Order
        <3> QED BY <2>6, <3>1 DEF InOrder
    <2>17. Order(registrants', table \cup sent, Out(wires', app), ng)
        BY <2>6, <2>15, <2>16 DEF Order
    <2> QED BY <2>1, <2>17
\* Steps of the server only move flushes from a wire to the record of the applied.
<1>ServerOrder. ASSUME IInv, OInv, UNCHANGED <<registrants, pending, next_generation>>,
             Out(wires', applied') \subseteq Out(wires, applied)
      PROVE  OInv'
    <2> USE <1>ServerOrder
    <2>1. ASSUME NEW k \in DOMAIN registrants
          PROVE  InOrder(registrants[k].generation, registrants[k].parked, registrants[k].in_flight,
                         pending, Out(wires', applied'))
        <3>1. /\ Sorted(registrants[k].parked)
              /\ InOrder(registrants[k].generation, registrants[k].parked, registrants[k].in_flight,
                         pending, Out(wires, applied))
            BY OrderHere
        <3> QED BY <3>1, InOrderShrinks
    <2>2. Order(registrants, pending, Out(wires', applied'), next_generation)
        BY <2>1, OrderShrinks DEF OInv
    <2> QED BY <2>2 DEF OInv
\* A generation starts with nothing owed, so nothing can overtake.
<1>RegisterOrder. ASSUME IInv, OInv, NEW k \in Keys, NEW d \in Depths, Register(k, d)
      PROVE  OInv'
    <2> USE <1>RegisterOrder
    <2> DEFINE ng == next_generation
               out == Out(wires, applied)
               regs == registrants
    <2>1. /\ k \notin DOMAIN regs /\ next_generation' = ng + 1
          /\ DOMAIN registrants' = DOMAIN regs \cup {k}
          /\ \A j \in DOMAIN regs : registrants'[j] = regs[j]
          /\ registrants'[k].generation = ng /\ registrants'[k].parked = << >>
          /\ UNCHANGED <<pending, wires, applied>>
        BY DEF Register, network
    <2>2. ng \in Nat /\ \A j \in DOMAIN regs : regs[j].generation \in Nat
        <3>1. ng \in Nat BY OrderHere
        <3>2. \A j \in DOMAIN regs : regs[j] \in Outbox BY OrderHere
        <3> QED BY <3>1, <3>2 DEF Outbox
    <2>3. \A j \in DOMAIN regs : regs[j].generation < ng /\ regs[j].generation # ng BY <2>2 DEF OInv, Order
    <2>4. \A f \in out \cup InTable(pending) :
             f.generation < ng /\ f.generation # ng /\ f.generation \in Nat
        <3>1. \A f \in out \cup InTable(pending) : f \in Batches
            <4>1. InWires(wires) \subseteq InTable(pending) \cup cut BY WiresAreKnown, SMTT(30) DEF IInv
            <4>2. out \cup InTable(pending) \subseteq Known(registrants, pending, applied, reported, cut)
                BY <4>1 DEF Known, Out
            <4> QED BY <4>2 DEF IInv, Account
        <3>2. \A f \in out \cup InTable(pending) : f.generation \in Nat BY <3>1 DEF Batches
        <3>3. \A f \in out \cup InTable(pending) : f.generation < ng BY DEF OInv, Order
        <3> QED BY <2>2, <3>2, <3>3
    <2>5. \A p \in pending : p.batch \in InTable(pending) BY DEF InTable
    <2>6. Sorted(<< >>) /\ Range(<< >>) = {} BY NoQueue DEF Sorted
    <2> HIDE DEF ng, out, regs
    <2>7. InOrder(ng, << >>, registrants'[k].in_flight, pending, out)
        BY <2>4, <2>5, <2>6 DEF InOrder
    <2>8. \A j \in DOMAIN regs : InOrder(regs[j].generation, regs[j].parked, regs[j].in_flight, pending, out)
        BY OrderHere DEF regs, out
    <2>9. \A x \in Nat : x < ng => x < ng + 1 BY <2>2
    <2>10. ng < ng + 1 BY <2>2
    <2>11. \A j \in DOMAIN registrants' :
             /\ registrants'[j].generation < ng + 1
             /\ InOrder(registrants'[j].generation, registrants'[j].parked, registrants'[j].in_flight, pending, out)
        BY <2>1, <2>2, <2>3, <2>7, <2>8, <2>9, <2>10
    <2>12. \A i, j \in DOMAIN registrants' : registrants'[i].generation = registrants'[j].generation => i = j
        <3>1. \A i, j \in DOMAIN regs : regs[i].generation = regs[j].generation => i = j
            BY DEF OInv, Order, regs
        <3> QED BY <2>1, <2>3, <3>1
    <2>13. \A f \in out \cup InTable(pending) : f.generation < ng + 1 BY <2>4, <2>9
    <2> QED BY <2>1, <2>11, <2>12, <2>13 DEF OInv, Order, out
\* A registrant leaves; the order of the others is untouched.
<1>DeregisterOrder. ASSUME IInv, OInv, NEW k \in Keys, Deregister(k)
      PROVE  OInv'
    <2> USE <1>DeregisterOrder
    <2>1. /\ DOMAIN registrants' \subseteq DOMAIN registrants
          /\ \A j \in DOMAIN registrants' : registrants'[j] = registrants[j]
          /\ UNCHANGED <<pending, wires, applied, next_generation>>
        BY DEF Deregister, network
    <2>2. \A j \in DOMAIN registrants' :
            /\ registrants'[j].generation = registrants[j].generation
            /\ InOrder(registrants[j].generation, registrants'[j].parked, registrants'[j].in_flight,
                       pending, Out(wires, applied))
        BY <2>1, OrderHere
    <2>3. Order(registrants', pending, Out(wires, applied), next_generation)
        BY <2>1, <2>2, OrderShrinks DEF OInv
    <2> QED BY <2>1, <2>3 DEF OInv
\* An emptied queue is in order.
<1>DiscardParkedOrder. ASSUME IInv, OInv, NEW k \in Keys, DiscardParked(k)
      PROVE  OInv'
    <2> USE <1>DiscardParkedOrder
    <2> DEFINE o == [registrants[k] EXCEPT !.parked = << >>, !.discarded = TRUE]
               out == Out(wires, applied)
    <2>1. /\ k \in DOMAIN registrants /\ registrants' = [registrants EXCEPT ![k] = o]
          /\ UNCHANGED <<pending, wires, applied, next_generation>>
        BY DEF DiscardParked, Hold
    <2>2. /\ o.parked = << >> /\ o.generation = registrants[k].generation
          /\ o.in_flight = registrants[k].in_flight
        BY <2>1, OrderHere DEF Outbox
    <2>3. Sorted(<< >>) /\ Range(<< >>) = {} BY NoQueue DEF Sorted
    <2>4. InOrder(registrants[k].generation, registrants[k].parked, registrants[k].in_flight, pending, out)
        BY <2>1, OrderHere
    <2> HIDE DEF o, out
    <2>5. InOrder(o.generation, o.parked, o.in_flight, pending, out)
        BY <2>2, <2>3, <2>4, InOrderShrinks
    <2>6. Order([registrants EXCEPT ![k] = o], pending, out, next_generation)
        BY <2>1, <2>2, <2>5, <1>OrderOfEdit DEF OInv, out
    <2> QED BY <2>1, <2>6 DEF OInv, out
\* A new batch is newer than everything known, so it queues in order.
<1>FlushOrder.     \A k \in Keys :
                       IInv /\ OInv /\ Flush(k) =>
                           OInv'
               \* A newer batch behind a queue in order.
    <2>SortedAppend. ASSUME NEW s \in Seq(Batches), Sorted(s), NEW x \in Batches, \A g \in Range(s) : g.id < x.id
          PROVE  Sorted(Append(s, x))
        <3> USE <2>SortedAppend
        <3> DEFINE t == Append(s, x)
        <3>1. /\ t \in Seq(Batches) /\ Len(t) = Len(s) + 1 /\ t[Len(s) + 1] = x
              /\ \A i \in 1..Len(s) : t[i] = s[i]
            BY Longer, SMTT(30)
        <3>2. DOMAIN s = 1..Len(s) /\ DOMAIN t = 1..(Len(s) + 1) /\ Len(s) \in Nat
            BY <3>1, Positions
        <3> HIDE DEF t
        <3>3. \A i, j \in DOMAIN t : i < j => /\ i \in DOMAIN s /\ t[i] = s[i]
                                              /\ \/ j \in DOMAIN s /\ t[j] = s[j]
                                                 \/ t[j] = x
            BY <3>1, <3>2
        <3>4. \A i \in DOMAIN s : s[i].id < x.id BY DEF Range
        <3>5. Sorted(t) BY <3>3, <3>4 DEF Sorted
        <3> QED BY <3>5 DEF t
    \* Every flush the client or the server has a record of is older than the next.
    <2>KnownIsOlder. ASSUME IInv, NEW f \in InQueues(registrants) \cup InTable(pending) \cup Out(wires, applied)
          PROVE  f.id < next_flush
        <3> USE <2>KnownIsOlder
        <3>1. InWires(wires) \subseteq InTable(pending) \cup cut BY WiresAreKnown, SMTT(30) DEF IInv
        <3>2. f \in Known(registrants, pending, applied, reported, cut) BY <3>1 DEF Known, Out
        <3>3. f.id \in 0..(next_flush - 1) /\ next_flush \in Nat BY <3>2 DEF IInv, Account
        <3> QED BY <3>3
    <2> SUFFICES ASSUME IInv, OInv, NEW k \in Keys, Flush(k)
                 PROVE  OInv'
        OBVIOUS
    <2> DEFINE o == registrants[k]
               x == [id |-> next_flush, generation |-> o.generation]
               new == Park(o, x, FALSE)
               regs == [registrants EXCEPT ![k] = new]
               out == Out(wires, applied)
    <2>1. /\ k \in DOMAIN registrants
          /\ \/ attached /\ Pump(regs, {k}, pending, conn)
             \/ Hold(regs) /\ UNCHANGED pending
          /\ UNCHANGED <<next_generation, applied>>
        BY DEF Flush
    <2>2. /\ QueuesOK(registrants) /\ o \in Outbox /\ o.parked \in Seq(Batches) /\ IsInjective(o.parked)
          /\ Sorted(o.parked) /\ InOrder(o.generation, o.parked, o.in_flight, pending, out)
        BY <2>1, OrderHere
    <2>3. next_flush \in Nat BY DEF IInv, Account
    <2>4. x \in Batches /\ x.id = next_flush /\ x.generation = o.generation
        BY <2>2, <2>3 DEF Outbox, Batches
    <2> HIDE DEF x
    <2>5. x \notin InQueues(registrants) BY <2>4, NewFlushIsApart
    <2>6. Range(o.parked) \subseteq InQueues(registrants) BY <2>1 DEF InQueues
    <2>7. \A g \in Range(o.parked) : g.id < x.id BY <2>4, <2>6, <2>KnownIsOlder
    <2>8. \A f \in out : f.id < x.id BY <2>4, <2>KnownIsOlder
    <2>9. \A p \in pending : p.batch.id < x.id BY <2>4, <2>KnownIsOlder DEF InTable
    <2> HIDE DEF o, out
    <2>10. QueuesOK(regs)
        BY <2>1, <2>2, <2>4, <2>5, ParkInQueues DEF o
    <2>11. /\ Sorted(new.parked) /\ Range(new.parked) \subseteq Range(o.parked) \cup {x}
           /\ new.generation = o.generation /\ new.in_flight = o.in_flight
        <3>1. Sorted(Queued(o, x, FALSE)) BY <2>2, <2>4, <2>7, <2>SortedAppend DEF Queued
        <3>2. x \notin Range(o.parked) BY <2>5, <2>6
        <3> QED BY <2>2, <2>4, <3>1, <3>2, <1>SortedPark
    <2> HIDE DEF new
    <2>12. InOrder(o.generation, new.parked, new.in_flight, pending, out)
        BY <2>2, <2>4, <2>8, <2>9, <2>11 DEF InOrder
    <2>13. Order(regs, pending, out, next_generation)
        <3>1. Order(registrants, pending, out, next_generation) BY DEF OInv, out
        <3>2. k \in DOMAIN registrants /\ new.generation = registrants[k].generation BY <2>1, <2>11 DEF o
        <3>3. InOrder(new.generation, new.parked, new.in_flight, pending, out) BY <2>11, <2>12
        <3> QED BY <3>1, <3>2, <3>3, <1>OrderOfEdit
    <2> HIDE DEF regs
    <2>14. CASE attached /\ Pump(regs, {k}, pending, conn)
        <3>1. /\ conn \in 1..MaxConns /\ WiresOK(wires) /\ next_correlation \in Nat
              /\ Pump(regs, {k}, pending, conn)
            BY <2>14, OrderHere
        <3>2. Order(regs, pending, Out(wires, applied), next_generation) BY <2>13 DEF out
        <3>3. Order(registrants', pending', Out(wires', applied), next_generation)
            BY ONLY <2>10, <3>1, <3>2, <1>PumpInOrder, ZenonT(20)
        <3> QED BY <2>1, <3>3 DEF OInv
    <2>15. CASE Hold(regs) /\ UNCHANGED pending
        BY <2>1, <2>13, <2>15 DEF Hold, OInv, out
    <2> QED BY <2>1, <2>14, <2>15
\* A batch the contract refuses joins no queue.
<1>RefuseFlushOrder. ASSUME IInv, OInv, NEW k \in Keys, RefuseFlush(k)
      PROVE  OInv'
    <2> USE <1>RefuseFlushOrder
    <2> DEFINE o == [registrants[k] EXCEPT !.dropped = @ + 1]
               out == Out(wires, applied)
    <2>1. /\ k \in DOMAIN registrants /\ registrants' = [registrants EXCEPT ![k] = o]
          /\ UNCHANGED <<pending, wires, applied, next_generation>>
        BY DEF RefuseFlush, Hold
    <2>2. /\ o.parked = registrants[k].parked /\ o.generation = registrants[k].generation
          /\ o.in_flight = registrants[k].in_flight
        BY <2>1, OrderHere DEF Outbox
    <2>3. InOrder(registrants[k].generation, registrants[k].parked, registrants[k].in_flight, pending, out)
        BY <2>1, OrderHere
    <2> HIDE DEF o, out
    <2>4. Order([registrants EXCEPT ![k] = o], pending, out, next_generation)
        BY <2>1, <2>2, <2>3, <1>OrderOfEdit DEF OInv, out
    <2> QED BY <2>1, <2>4 DEF OInv, out
\* Re-validation keeps each queue in order, and the pump offers its head.
<1>OnAttachedOrder.     \A kept :
                            IInv /\ OInv /\ OnAttached(kept) =>
                                OInv'
                    \* Re-validation drops batches and keeps the order of the others.
    <2>SortedSurvivors. ASSUME NEW q \in Seq(Batches), IsInjective(q), Sorted(q), NEW t \in Survivors(q)
          PROVE  Sorted(t)
        <3> USE <2>SortedSurvivors
        <3>1. PICK s \in [DOMAIN t -> DOMAIN q] :
                 /\ \A n \in DOMAIN t : t[n] = q[s[n]]
                 /\ \A m, n \in DOMAIN t : m < n => s[m] < s[n]
            BY SurvivorsOfQueue, SMTT(30)
        <3>2. \A n \in DOMAIN t : s[n] \in DOMAIN q /\ t[n] = q[s[n]] BY <3>1
        <3> QED BY <3>1, <3>2 DEF Sorted
    <2> SUFFICES ASSUME IInv, OInv, NEW kept, OnAttached(kept)
                 PROVE  OInv'
        OBVIOUS
    <2> DEFINE regs == [k \in DOMAIN registrants |-> Revalidated(registrants[k], kept[k])]
               out == Out(wires, applied)
    <2>1. /\ conn < MaxConns /\ Pump(regs, DOMAIN regs, pending, conn + 1)
          /\ UNCHANGED <<next_generation, applied>>
        BY DEF OnAttached
    <2>2. QueuesOK(registrants) BY OrderHere
    <2>3. regs = [k \in DOMAIN registrants |-> Revalidated(registrants[k], kept[k])] OBVIOUS
    <2>a. \A k \in DOMAIN registrants : kept[k] \in Survivors(registrants[k].parked) BY DEF OnAttached
    <2> HIDE DEF regs
    <2>4. QueuesOK(regs) BY ONLY <2>2, <2>3, <2>a, RevalidatedQueues, Zenon
    <2>5. DOMAIN regs = DOMAIN registrants BY <2>3
    <2>6. \A k \in DOMAIN registrants : /\ regs[k].parked = kept[k]
                                        /\ regs[k].generation = registrants[k].generation
                                        /\ regs[k].in_flight = registrants[k].in_flight
        BY ONLY <2>2, <2>3, <2>a, RevalidatedQueues
    <2>7. ASSUME NEW k \in DOMAIN regs
          PROVE  /\ regs[k].generation = registrants[k].generation
                 /\ InOrder(registrants[k].generation, regs[k].parked, regs[k].in_flight, pending, out)
        <3> DEFINE q == registrants[k].parked
        <3>1. /\ q \in Seq(Batches) /\ IsInjective(q) /\ Sorted(q)
              /\ InOrder(registrants[k].generation, q, registrants[k].in_flight, pending, out)
            BY <2>5, OrderHere
        <3> HIDE DEF q, out
        <3>2. PICK t \in Survivors(q) : t = kept[k] BY <2>5, <2>a DEF q
        <3>3. Sorted(t) BY <3>1, <2>SortedSurvivors
        <3>4. Range(t) \subseteq Range(q) BY <3>1, SurvivorsOfQueue
        <3>5. InOrder(registrants[k].generation, t, registrants[k].in_flight, pending, out)
            BY <3>1, <3>3, <3>4, InOrderShrinks
        <3> QED BY <2>5, <2>6, <3>2, <3>5 DEF q
    <2>8. Order(regs, pending, out, next_generation)
        <3>1. Order(registrants, pending, out, next_generation) BY DEF OInv
        <3>2. DOMAIN regs \subseteq DOMAIN registrants BY <2>5
        <3> QED BY ONLY <2>7, <3>1, <3>2, OrderShrinks, ZenonT(20)
    <2>9. conn + 1 \in 1..MaxConns
        <3>1. conn \in 0..MaxConns BY DEF IInv, Session
        <3> QED BY <2>1, <3>1, BoundsAssumption
    <2>10. WiresOK(wires) /\ next_correlation \in Nat BY OrderHere
    <2>11. Pump(regs, DOMAIN regs, pending, conn + 1) BY <2>1
    <2>12. Order(registrants', pending', Out(wires', applied), next_generation)
        BY ONLY <2>4, <2>8, <2>9, <2>10, <2>11, <1>PumpInOrder, ZenonT(20)
    <2> QED BY <2>1, <2>12 DEF OInv
\* Nothing is in flight on a lost connection, so nothing is ahead of a queue.
<1>OnDetachedOrder. ASSUME IInv, OInv, OnDetached
      PROVE  OInv'
    <2> USE <1>OnDetachedOrder
    <2>1. /\ pending' = {} /\ DOMAIN registrants' = DOMAIN registrants
          /\ \A k \in DOMAIN registrants : registrants'[k] = [registrants[k] EXCEPT !.in_flight = None]
          /\ UNCHANGED <<next_generation, wires, applied>>
        BY DEF OnDetached
    <2>2. ASSUME NEW k \in DOMAIN registrants'
          PROVE  /\ registrants'[k].generation = registrants[k].generation
                 /\ InOrder(registrants[k].generation, registrants'[k].parked, registrants'[k].in_flight,
                            {}, Out(wires, applied))
        <3>1. /\ registrants'[k].generation = registrants[k].generation
              /\ registrants'[k].parked = registrants[k].parked
            BY <2>1, OrderHere DEF Outbox
        <3>2. InOrder(registrants[k].generation, registrants[k].parked, registrants[k].in_flight, pending,
                      Out(wires, applied))
            BY <2>1, OrderHere
        <3>3. InOrder(registrants[k].generation, registrants[k].parked, registrants'[k].in_flight, {},
                      Out(wires, applied))
            BY <3>2 DEF InOrder
        <3> QED BY <3>1, <3>3
    <2>3. Order(registrants', {}, Out(wires, applied), next_generation)
        BY <2>1, <2>2, OrderShrinks DEF OInv
    <2> QED BY <2>1, <2>3 DEF OInv
\* A result frees the slot: the next head, or the refused batch, is the oldest owed.
<1>OnBatchResultOrder.     IInv /\ OInv /\ OnBatchResult =>
                               OInv'
                       \* A refused batch, older than all those queued, back in front of them.
    <2>SortedPush. ASSUME NEW s \in Seq(Batches), Sorted(s), NEW x \in Batches, \A g \in Range(s) : x.id < g.id
          PROVE  Sorted(<<x>> \o s)
        <3> USE <2>SortedPush
        <3> DEFINE t == <<x>> \o s
        <3>0. <<x>> \in Seq(Batches) /\ Len(<<x>>) = 1 /\ <<x>>[1] = x OBVIOUS
        <3>1. /\ t \in Seq(Batches) /\ Len(t) = 1 + Len(s)
              /\ \A i \in 1..(1 + Len(s)) : t[i] = IF i <= 1 THEN <<x>>[i] ELSE s[i - 1]
            BY <3>0, Joined
        <3>2. DOMAIN s = 1..Len(s) /\ DOMAIN t = 1..(1 + Len(s)) /\ Len(s) \in Nat
            BY <3>1, Positions
        <3> HIDE DEF t
        <3>3. 1 \in DOMAIN t /\ t[1] = x BY <3>0, <3>1, <3>2, SMTT(30)
        <3>4. \A i \in DOMAIN t : i # 1 => i - 1 \in DOMAIN s /\ t[i] = s[i - 1] BY <3>1, <3>2
        <3>5. \A i, j \in DOMAIN t : i < j => j # 1 /\ (i = 1 \/ i - 1 < j - 1) BY <3>2
        <3>6. \A i \in DOMAIN s : x.id < s[i].id BY DEF Range
        <3>7. Sorted(t) BY <3>3, <3>4, <3>5, <3>6 DEF Sorted
        <3> QED BY <3>7 DEF t
    <2> SUFFICES ASSUME IInv, OInv, OnBatchResult
                 PROVE  OInv'
        OBVIOUS
    <2>1. PICK p \in pending :
            /\ p.correlation = Head(answers).correlation
            /\ \/ pending' = pending \ {p} /\ UNCHANGED <<registrants, wires>>
               \/ /\ SenderIsLive(p)
                  /\ Pump([registrants EXCEPT ![p.key].in_flight = None], {p.key}, pending \ {p}, conn)
               \/ /\ SenderIsLive(p) /\ ~Head(answers).ok
                  /\ Refused(p)
                  /\ pending' = pending \ {p}
        BY DEF OnBatchResult
    <2>2. attached /\ answers # << >> /\ UNCHANGED <<next_generation, applied>>
        BY DEF OnBatchResult
    <2> DEFINE k == p.key
               f == p.batch
               less == pending \ {p}
               out == Out(wires, applied)
               gen == registrants[k].generation
    <2>3. /\ \A q \in less : q.correlation # p.correlation
          /\ p \in Frames /\ f \in Batches
        BY DEF IInv, Session, TableOK, Frames
    <2>4. Order(registrants, pending, out, next_generation) BY DEF OInv
    <2>5. less \subseteq pending OBVIOUS
    <2>6. CASE pending' = pending \ {p} /\ UNCHANGED <<registrants, wires>>
        <3>1. ASSUME NEW j \in DOMAIN registrants
              PROVE  InOrder(registrants[j].generation, registrants[j].parked, registrants[j].in_flight,
                             less, out)
            <4>1. /\ Sorted(registrants[j].parked)
                  /\ InOrder(registrants[j].generation, registrants[j].parked, registrants[j].in_flight,
                             pending, out)
                BY OrderHere
            <4> QED BY <2>5, <4>1, InOrderShrinks
        <3> HIDE DEF less, out
        <3>2. Order(registrants, less, out, next_generation)
            BY <2>4, <2>5, <3>1, OrderShrinks
        <3> QED BY <2>2, <2>6, <3>2 DEF OInv, less, out
    <2>7. ASSUME SenderIsLive(p)
          PROVE  /\ k \in DOMAIN registrants /\ f.generation = gen
                 /\ QueuesOK(registrants) /\ registrants[k] \in Outbox
                 /\ registrants[k].parked \in Seq(Batches) /\ IsInjective(registrants[k].parked)
                 /\ Sorted(registrants[k].parked)
                 /\ InOrder(gen, registrants[k].parked, registrants[k].in_flight, pending, out)
                 /\ \A q \in less : q.batch.generation # gen
                 /\ \A g \in Range(registrants[k].parked) : f.id < g.id
        <3>1. k \in DOMAIN registrants /\ f.generation = gen BY <2>7 DEF SenderIsLive
        <3>2. /\ QueuesOK(registrants) /\ registrants[k] \in Outbox
              /\ registrants[k].parked \in Seq(Batches) /\ IsInjective(registrants[k].parked)
              /\ Sorted(registrants[k].parked)
              /\ InOrder(gen, registrants[k].parked, registrants[k].in_flight, pending, out)
            BY <3>1, OrderHere
        <3>3. \A q \in pending : q.batch.generation = gen => registrants[k].in_flight = {q.correlation}
            BY <3>2 DEF InOrder
        <3>4. \A q \in less : q.batch.generation # gen BY <2>3, <3>1, <3>3
        <3>5. \A g \in Range(registrants[k].parked) : f.id < g.id BY <3>1, <3>2 DEF InOrder
        <3> QED BY <3>1, <3>2, <3>4, <3>5
    <2> HIDE DEF less, out
    <2>8. CASE SenderIsLive(p) /\ Pump([registrants EXCEPT ![k].in_flight = None], {k}, less, conn)
        <3> DEFINE o == [registrants[k] EXCEPT !.in_flight = None]
                   freed == [registrants EXCEPT ![k].in_flight = None]
        <3>1. /\ k \in DOMAIN registrants /\ QueuesOK(registrants) /\ registrants[k] \in Outbox
              /\ IsInjective(registrants[k].parked) /\ Sorted(registrants[k].parked)
              /\ InOrder(gen, registrants[k].parked, registrants[k].in_flight, pending, out)
              /\ \A q \in less : q.batch.generation # gen
            BY <2>7, <2>8
        <3>2. o \in Outbox /\ o.parked = registrants[k].parked /\ o.generation = gen
            BY <3>1 DEF Outbox, None
        <3>3. freed = [registrants EXCEPT ![k] = o] BY <3>1
        <3>4. Pump(freed, {k}, less, conn) BY <2>8
        <3> HIDE DEF o, freed, gen
        <3>5. QueuesOK(freed)
            <4>1. /\ IsInjective(o.parked) /\ o \in Outbox /\ k \in DOMAIN registrants
                  /\ Range(o.parked) \cap (InQueues(registrants) \ Range(registrants[k].parked)) = {}
                BY <3>1, <3>2
            <4>2. QueuesOK(registrants) BY <3>1
            <4>3. QueuesOK([registrants EXCEPT ![k] = o]) BY ONLY <4>1, <4>2, EditQueue, ZenonT(20)
            <4> QED BY <3>3, <4>3
        <3>6. InOrder(gen, o.parked, o.in_flight, less, out)
            BY <2>5, <3>1, <3>2, InOrderShrinks, SMTT(30)
        <3>7. Order(freed, less, out, next_generation)
            <4>1. o.generation = registrants[k].generation BY <3>2 DEF gen
            <4>2. InOrder(o.generation, o.parked, o.in_flight, less, out) BY <3>2, <3>6
            <4>3. k \in DOMAIN registrants BY <3>1
            <4>4. Order([registrants EXCEPT ![k] = o], less, out, next_generation)
                BY ONLY <2>4, <2>5, <4>1, <4>2, <4>3, <1>OrderOfEdit, Zenon
            <4> QED BY <3>3, <4>4
        <3>8. conn \in 1..MaxConns /\ WiresOK(wires) /\ next_correlation \in Nat BY <2>2, OrderHere
        <3>9. Order(freed, less, Out(wires, applied), next_generation) BY <3>7 DEF out
        <3>10. Order(registrants', pending', Out(wires', applied), next_generation)
            BY ONLY <3>4, <3>5, <3>8, <3>9, <1>PumpInOrder, ZenonT(20)
        <3> QED BY <2>2, <3>10 DEF OInv
    <2>9. CASE SenderIsLive(p) /\ ~Head(answers).ok /\ Refused(p) /\ pending' = less
        <3> DEFINE o == [registrants[k] EXCEPT !.in_flight = None, !.rate_limited = @ + 1]
        <3>1. /\ k \in DOMAIN registrants /\ f.generation = gen /\ QueuesOK(registrants)
              /\ registrants[k] \in Outbox
              /\ registrants[k].parked \in Seq(Batches) /\ IsInjective(registrants[k].parked)
              /\ Sorted(registrants[k].parked)
              /\ InOrder(gen, registrants[k].parked, registrants[k].in_flight, pending, out)
              /\ \A q \in less : q.batch.generation # gen
              /\ \A g \in Range(registrants[k].parked) : f.id < g.id
            BY <2>7, <2>9
        <3>2. o \in Outbox /\ o.parked = registrants[k].parked /\ o.generation = gen
            <4>1. PICK r \in Outbox : r = registrants[k] BY <3>1
            <4>2. PICK n \in Nat : n = r.rate_limited + 1 BY SMTT(30) DEF Outbox
            <4>3. o = [r EXCEPT !.in_flight = {}, !.rate_limited = n] BY <4>1, <4>2 DEF None, Outbox
            <4> HIDE DEF o
            <4> QED BY <4>1, <4>3 DEF Outbox
        <3>3. \/ Hold([registrants EXCEPT ![k] = o])
              \/ Hold([registrants EXCEPT ![k] = Park(o, f, TRUE)])
            BY <2>9 DEF Refused
        <3> HIDE DEF o
        <3>4. f \notin InQueues(registrants) /\ f \notin out
            <4>1. Apart(InQueues(registrants), InWires(wires), BatchesOf(applied), reported,
                        Returning(pending, answers), InTable(pending))
                BY DEF IInv, Places
            <4>2. f \in Returning(pending, answers) /\ f \in InTable(pending) BY <2>1, <2>2, <2>9, ResultTaken
            <4> QED BY <4>1, <4>2 DEF Apart, Out, out
        <3> HIDE DEF k, f, gen
        <3>5. InOrder(gen, o.parked, o.in_flight, less, out)
            BY <2>5, <3>1, <3>2, InOrderShrinks, SMTT(30)
        <3>6. PICK n : /\ Hold([registrants EXCEPT ![k] = n]) /\ n.generation = gen
                       /\ InOrder(gen, n.parked, n.in_flight, less, out)
            <4>1. CASE Hold([registrants EXCEPT ![k] = o]) BY <3>2, <3>5, <4>1
            <4>2. CASE Hold([registrants EXCEPT ![k] = Park(o, f, TRUE)])
                <5> DEFINE n == Park(o, f, TRUE)
                <5>1. f \notin Range(o.parked) BY <3>1, <3>2, <3>4 DEF InQueues
                <5>2. Sorted(Queued(o, f, TRUE)) BY <2>3, <3>1, <3>2, <2>SortedPush DEF Queued, f
                <5>3. f \in Batches /\ IsInjective(o.parked) /\ o \in Outbox BY <2>3, <3>1, <3>2 DEF f
                <5>4. /\ Sorted(n.parked) /\ Range(n.parked) \subseteq Range(o.parked) \cup {f}
                      /\ n.generation = o.generation /\ n.in_flight = o.in_flight
                    BY <5>1, <5>2, <5>3, <1>SortedPark
                <5> HIDE DEF n
                <5>5. \A h \in out : h.generation = gen => h.id < f.id
                    <6>1. p \in pending /\ p.batch = f BY DEF f
                    <6> QED BY <3>1, <3>4, <6>1 DEF InOrder
                <5>6. \A g \in Range(n.parked) : g.generation = gen
                    BY <3>1, <3>2, <5>4 DEF InOrder
                <5>7. \A h \in out : h.generation = gen => \A g \in Range(n.parked) : h.id < g.id
                    BY <3>2, <3>5, <5>4, <5>5 DEF InOrder
                <5>8. InOrder(gen, n.parked, n.in_flight, less, out)
                    BY <3>1, <5>4, <5>6, <5>7 DEF InOrder
                <5>9. Hold([registrants EXCEPT ![k] = n]) /\ n.generation = gen BY <3>2, <4>2, <5>4 DEF n
                <5> QED BY <5>8, <5>9
            <4> QED BY <3>3, <4>1, <4>2
        <3>7. Order([registrants EXCEPT ![k] = n], less, out, next_generation)
            <4>1. k \in DOMAIN registrants /\ n.generation = registrants[k].generation
                BY <3>1, <3>6 DEF gen
            <4>2. InOrder(n.generation, n.parked, n.in_flight, less, out) BY <3>6
            <4> QED BY ONLY <2>4, <2>5, <4>1, <4>2, <1>OrderOfEdit, ZenonT(20)
        <3>8. registrants' = [registrants EXCEPT ![k] = n] /\ wires' = wires BY <3>6 DEF Hold
        <3> QED BY <2>2, <2>9, <3>7, <3>8 DEF OInv, out
    <2> QED BY <2>1, <2>6, <2>8, <2>9 DEF less
\* A retry offers a head that is the oldest owed.
<1>OnRetryTickOrder. ASSUME IInv, OInv, OnRetryTick
      PROVE  OInv'
    <2> USE <1>OnRetryTickOrder
    <2>1. /\ Pump(registrants, DOMAIN registrants, pending, conn)
          /\ UNCHANGED <<next_generation, applied>>
        BY DEF OnRetryTick, ghosts
    <2>2. attached BY DEF OnRetryTick, IInv, TimerOK
    <2>3. /\ QueuesOK(registrants) /\ WiresOK(wires) /\ next_correlation \in Nat /\ conn \in 1..MaxConns
          /\ Order(registrants, pending, Out(wires, applied), next_generation)
          /\ Pump(registrants, DOMAIN registrants, pending, conn)
        BY <2>1, <2>2, OrderHere DEF OInv
    <2>4. Order(registrants', pending', Out(wires', applied), next_generation)
        BY ONLY <2>3, <1>PumpInOrder, ZenonT(20)
    <2> QED BY <2>1, <2>4 DEF OInv
\* The session reads the wire in the order it was written.
<1>HandlePublishBatchOrder. ASSUME IInv, OInv, NEW c \in 1..MaxConns, NEW ok \in BOOLEAN, HandlePublishBatch(c, ok)
      PROVE  OInv'
    <2> USE <1>HandlePublishBatchOrder
    <2> DEFINE h == Head(wires[c])
    <2>1. /\ wires[c] # << >> /\ wires' = [wires EXCEPT ![c] = Tail(@)]
          /\ applied' = IF ok THEN Append(applied, h) ELSE applied
          /\ UNCHANGED <<registrants, pending, next_generation>>
        BY DEF HandlePublishBatch, client
    <2>2. /\ WiresOK(wires) /\ applied \in Seq(Frames) /\ ByBatch(applied)
          /\ Apart(InQueues(registrants), InWires(wires), BatchesOf(applied), reported,
                   Returning(pending, answers), InTable(pending))
        BY DEF IInv, Places
    <2>3. /\ h \in Frames /\ h.batch \in InWires(wires)
          /\ InWires(wires') = InWires(wires) \ {h.batch}
        BY <2>1, <2>2, TakeFromWire
    <2> HIDE DEF h
    <2>4. h.batch \notin BatchesOf(applied) BY <2>2, <2>3 DEF Apart
    <2>5. BatchesOf(applied') \subseteq BatchesOf(applied) \cup {h.batch}
        <3>1. CASE ok BY <2>1, <2>2, <2>3, <2>4, <3>1, AppendApplied
        <3>2. CASE ~ok BY <2>1, <3>2
        <3> QED BY <3>1, <3>2
    <2>6. Out(wires', applied') \subseteq Out(wires, applied) BY <2>3, <2>5 DEF Out
    <2> QED BY <2>1, <2>6, <1>ServerOrder
\* A wire given up is out of the race.
<1>SessionEndsOrder. ASSUME IInv, OInv, NEW c \in 1..MaxConns, SessionEnds(c)
      PROVE  OInv'
    <2> USE <1>SessionEndsOrder
    <2>1. /\ wires' = [wires EXCEPT ![c] = << >>]
          /\ UNCHANGED <<registrants, pending, next_generation, applied>>
        BY DEF SessionEnds, client, ghosts
    <2>2. wires \in [1..MaxConns -> Seq(Frames)] BY OrderHere DEF WiresOK
    <2>3. \A d \in 1..MaxConns : wires'[d] = wires[d] \/ wires'[d] = << >> BY <2>1, <2>2
    <2>4. \A d \in 1..MaxConns : BatchesOf(wires'[d]) \subseteq BatchesOf(wires[d]) BY <2>3, NoQueue
    <2>5. InWires(wires') \subseteq InWires(wires) BY <2>4 DEF InWires
    <2>6. Out(wires', applied') \subseteq Out(wires, applied) BY <2>1, <2>5 DEF Out
    <2> QED BY <2>1, <2>6, <1>ServerOrder
<1> SUFFICES ASSUME IInv, OInv, [Next]_vars PROVE OInv'
    OBVIOUS
<1>1. CASE \E k \in Keys, d \in Depths : Register(k, d) BY <1>1, <1>RegisterOrder
<1>2. CASE \E k \in Keys : Deregister(k) BY <1>2, <1>DeregisterOrder
<1>3. CASE \E k \in Keys : DiscardParked(k) BY <1>3, <1>DiscardParkedOrder
<1>4. CASE \E k \in Keys : Flush(k) BY <1>4, <1>FlushOrder
<1>5. CASE \E k \in Keys : RefuseFlush(k) BY <1>5, <1>RefuseFlushOrder
<1>6. CASE Attach BY <1>6, <1>OnAttachedOrder DEF Attach
<1>7. CASE OnDetached BY <1>7, <1>OnDetachedOrder
<1>8. CASE OnBatchResult BY <1>8, <1>OnBatchResultOrder
<1>9. CASE OnRetryTick BY <1>9, <1>OnRetryTickOrder
<1>10. CASE Handle BY <1>10, <1>HandlePublishBatchOrder DEF Handle
<1>11. CASE \E c \in 1..MaxConns : SessionEnds(c) BY <1>11, <1>SessionEndsOrder
<1>12. CASE UNCHANGED vars
    BY <1>12 DEF vars, client, network, ghosts, OInv
<1> QED BY <1>1, <1>2, <1>3, <1>4, <1>5, <1>6, <1>7, <1>8, <1>9, <1>10, <1>11, <1>12 DEF Next

\* Queues and wires in order let nothing owed be overtaken.
LEMMA OrderImplies ==
    ASSUME IInv, OInv
    PROVE  NothingOwedIsOvertaken
<1> SUFFICES ASSUME NEW k \in DOMAIN registrants, NEW f \in Applied,
                    f.generation = registrants[k].generation
             PROVE  /\ \A g \in Parked(k) : f.id <= g.id
                    /\ \A p \in PendingOf(k) : f.id <= p.batch.id
    BY DEF NothingOwedIsOvertaken
<1>1. f \in Out(wires, applied) /\ f \in Known(registrants, pending, applied, reported, cut)
    BY NamesAgree DEF Out, Known
<1>2. InOrder(registrants[k].generation, registrants[k].parked, registrants[k].in_flight, pending,
              Out(wires, applied))
    BY OrderHere
<1>3. \A g \in Known(registrants, pending, applied, reported, cut) : g.id \in Nat
    BY DEF IInv, Account, Batches
<1>4. \A g \in Parked(k) : g.id \in Nat /\ f.id < g.id
    <2>1. Parked(k) \subseteq InQueues(registrants) BY DEF Parked, InQueues
    <2> QED BY <1>1, <1>2, <1>3, <2>1 DEF InOrder, Parked, Known
<1>5. \A p \in PendingOf(k) : p.batch.id \in Nat /\ (f = p.batch \/ f.id < p.batch.id)
    BY <1>1, <1>2, <1>3 DEF InOrder, PendingOf, Known, InTable
<1>6. f.id \in Nat BY <1>1, <1>3
<1>7. \A p \in PendingOf(k) : f.id <= p.batch.id
    <2> TAKE p \in PendingOf(k)
    <2>1. CASE f = p.batch BY <1>6, <2>1
    <2>2. CASE f.id < p.batch.id BY <1>5, <1>6, <2>2
    <2> QED BY <1>5, <2>1, <2>2
<1> QED BY <1>4, <1>6, <1>7

\* The server never applies a flush while an older one of the same registration is
\* queued or unanswered: park puts a refused batch back at the head, pump takes only
\* heads, one unanswered at a time, and a generation is never given out again.
THEOREM OffersKeepTheirOrder == Spec => []NothingOwedIsOvertaken
<1>1. Init => IInv /\ OInv BY InitInv, InitOrder
<1>2. IInv /\ OInv /\ [Next]_vars => (IInv /\ OInv)' BY NextInv, NextOrder
<1>3. IInv /\ OInv => NothingOwedIsOvertaken BY OrderImplies
<1> QED BY <1>1, <1>2, <1>3, PTL DEF Spec
=============================================================================
