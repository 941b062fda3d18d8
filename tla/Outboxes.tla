------------------------------ MODULE Outboxes ------------------------------
(***************************************************************************)
(* The attach client's flush outboxes (attach/client/src/publish.rs), the  *)
(* driver's retry timer (attach/client/src/driver.rs), the embedder that   *)
(* feeds them (surface/kernel/src/outbound.rs, flush.rs, outward.rs), and  *)
(* the batch handler of the server sessions at the far end of the wire     *)
(* (attach/server/src/publish.rs).                                         *)
(*                                                                         *)
(* A registrant's activations each end in a flush, an atomic batch.  The   *)
(* client keeps one bounded queue per registrant and at most one flush of  *)
(* each on the wire; a refusal by the server's send budget puts a flush    *)
(* back at the head of its queue.  A lost connection clears what was       *)
(* unanswered, while the server session that read from it may still be     *)
(* working through what had arrived.                                       *)
(***************************************************************************)
EXTENDS Naturals, FiniteSets, Sequences, Functions

CONSTANTS
    Keys,            \* registrant keys, naturals (BTreeMap order is <)
    Depths,          \* the outbox depths a component entry may declare
    MaxFlushes,      \* bound: flushes the embedder offers
    MaxGenerations,  \* bound: registrations
    MaxConns,        \* bound: connections
    MaxRefusals      \* bound: refusals by the send budget, which refills

ASSUME KeysAssumption == Keys \subseteq Nat
ASSUME DepthsAssumption == Depths \subseteq Nat \ {0}
ASSUME BoundsAssumption ==
    {MaxFlushes, MaxGenerations, MaxConns, MaxRefusals} \subseteq Nat

\* An absent correlation; a present one is a singleton.
None == {}

VARIABLES
    registrants,       \* open outboxes, by key
    pending,           \* batches on the wire of the live attachment
    next_correlation,
    next_generation,
    attached,          \* body_cap is Some
    retry_armed,       \* the plane's belief about its timer
    retry_wakeup,      \* the driver's armed deadline
    conn,              \* the connection the client last opened; 0 before the first
    wires,             \* per connection, the batches the server has not handled
    answers,           \* results on their way to the client
    refusals,          \* refusals so far
    next_flush,        \* identities of offered flushes
    applied,           \* batches the server applied, in order
    reported,          \* flushes whose loss the embedder was told of
    cut                \* flushes unanswered when their attachment went away

client == <<registrants, pending, next_correlation, next_generation, attached,
            retry_armed, retry_wakeup>>
network == <<conn, wires, answers>>
ghosts == <<next_flush, reported, cut>>
vars == <<client, network, refusals, applied, ghosts>>

\* A finite set of naturals, listed in increasing order: one listing.
Ascending(S) ==
    {s \in UNION {[1..n -> S] : n \in 0..Cardinality(S)} :
        S \subseteq Range(s) /\ \A i, j \in DOMAIN s : i < j => s[i] < s[j]}

-----------------------------------------------------------------------------
(* Pure steps of the plane.                                                *)

\* A head counts as blocked only with another flush behind it.
BlockedWhenQueued(regs, live) ==
    live /\ \E k \in DOMAIN regs : regs[k].in_flight = None /\ Len(regs[k].parked) > 1

\* Some registrant has a head a tick could send.
Blocked(regs, live) ==
    live /\ \E k \in DOMAIN regs : regs[k].in_flight = None /\ regs[k].parked # <<>>

\* The queue with the flush added, before the cap is enforced.
Queued(outbox, flush, at_head) ==
    IF at_head THEN <<flush>> \o outbox.parked ELSE Append(outbox.parked, flush)

\* How many of the oldest flushes the cap takes from a queue.
Overflow(queue, depth) == IF Len(queue) > depth THEN Len(queue) - depth ELSE 0

Park(outbox, flush, at_head) ==
    LET queue == Queued(outbox, flush, at_head)
        over == Overflow(queue, outbox.depth)
    IN [outbox EXCEPT !.parked = SubSeq(queue, over + 1, Len(queue)),
                      !.dropped = @ + over]

ParkDropped(outbox, flush, at_head) ==
    LET queue == Queued(outbox, flush, at_head)
    IN {queue[i] : i \in 1..Overflow(queue, outbox.depth)}

\* The keys a pump over `keys` sends for: a head to send and a free wire.
Ready(regs, keys) ==
    {k \in keys \cap DOMAIN regs : regs[k].in_flight = None /\ regs[k].parked # <<>>}

\* The frame of the n-th key of `order`, and the frames in that order.
Frame(regs, order, n) ==
    [correlation |-> next_correlation + n - 1,
     key |-> order[n], batch |-> Head(regs[order[n]].parked)]
Written(regs, order) == [n \in DOMAIN order |-> Frame(regs, order, n)]

\* The outboxes once a set of frames is sent.
Sent(regs, frames) ==
    [k \in DOMAIN regs |->
        IF \E f \in frames : f.key = k
        THEN [regs[k] EXCEPT !.parked = Tail(@),
                             !.in_flight = {f.correlation : f \in {g \in frames : g.key = k}}]
        ELSE regs[k]]

\* Restate the retry timer; the driver hears only of a transition.
RetryWakeup(regs, live) ==
    /\ retry_armed' = Blocked(regs, live)
    /\ retry_wakeup' = IF retry_armed' = retry_armed THEN retry_wakeup ELSE retry_armed'

\* Replace the outboxes by `regs`, having pumped those of `keys`, on an attachment
\* over connection c whose pending table was `table`.
Pump(regs, keys, table, c) ==
    \E order \in Ascending(Ready(regs, keys)) :
        /\ registrants' = Sent(regs, Range(Written(regs, order)))
        /\ pending' = table \cup Range(Written(regs, order))
        /\ next_correlation' = next_correlation + Len(order)
        /\ wires' = [wires EXCEPT ![c] = @ \o Written(regs, order)]
        /\ RetryWakeup(registrants', TRUE)

\* Replace the outboxes by `regs` and send nothing.
Hold(regs) ==
    /\ registrants' = regs
    /\ RetryWakeup(regs, attached)
    /\ UNCHANGED <<next_correlation, wires>>

-----------------------------------------------------------------------------
Init ==
    /\ registrants = <<>>
    /\ pending = {}
    /\ next_correlation = 0
    /\ next_generation = 0
    /\ attached = FALSE
    /\ retry_armed = FALSE
    /\ retry_wakeup = FALSE
    /\ conn = 0
    /\ wires = [c \in 1..MaxConns |-> <<>>]
    /\ answers = <<>>
    /\ refusals = 0
    /\ next_flush = 0
    /\ applied = <<>>
    /\ reported = {}
    /\ cut = {}

\* Outboxes::register, under a new generation.
Register(k, depth) ==
    /\ k \notin DOMAIN registrants
    /\ next_generation < MaxGenerations
    /\ next_generation' = next_generation + 1
    /\ registrants' = [j \in DOMAIN registrants \cup {k} |->
        IF j = k
        THEN [generation |-> next_generation, depth |-> depth, parked |-> <<>>,
              in_flight |-> None, dropped |-> 0, discarded |-> FALSE, rate_limited |-> 0]
        ELSE registrants[j]]
    /\ UNCHANGED <<pending, next_correlation, attached, retry_armed, retry_wakeup,
                   network, refusals, applied, ghosts>>

\* A deregistration that forgets the correlation on the wire.
DeregisterForgetsPending(k) ==
    /\ k \in DOMAIN registrants
    /\ registrants' = [j \in DOMAIN registrants \ {k} |-> registrants[j]]
    /\ reported' = reported \cup Range(registrants[k].parked)
    /\ pending' = {p \in pending : p.key # k}
    /\ cut' = cut \cup {p.batch : p \in pending \ pending'}
    /\ UNCHANGED <<next_correlation, next_generation, attached, retry_armed,
                   retry_wakeup, network, refusals, applied, next_flush>>

\* Outboxes::deregister: the queue is answered to the embedder, the correlation of
\* a batch on the wire is kept, and the timer is not restated.
Deregister(k) ==
    /\ k \in DOMAIN registrants
    /\ registrants' = [j \in DOMAIN registrants \ {k} |-> registrants[j]]
    /\ reported' = reported \cup Range(registrants[k].parked)
    /\ UNCHANGED <<pending, next_correlation, next_generation, attached, retry_armed,
                   retry_wakeup, network, refusals, applied, next_flush, cut>>

\* Outboxes::discard_parked, from the kill of a trapped component.  A registration
\* is killed once.
DiscardParked(k) ==
    /\ k \in DOMAIN registrants
    /\ ~registrants[k].discarded
    /\ reported' = reported \cup Range(registrants[k].parked)
    /\ Hold([registrants EXCEPT ![k].parked = <<>>, ![k].discarded = TRUE])
    /\ UNCHANGED <<pending, next_generation, attached, conn, answers, refusals,
                   applied, next_flush, cut>>

\* An activation of a live instance completed ok and its batch passed the gates of
\* the contract in force: Outboxes::flush.
Flush(k) ==
    /\ k \in DOMAIN registrants
    /\ ~registrants[k].discarded
    /\ next_flush < MaxFlushes
    /\ next_flush' = next_flush + 1
    /\ LET outbox == registrants[k]
           flush == [id |-> next_flush, generation |-> outbox.generation]
           regs == [registrants EXCEPT ![k] = Park(outbox, flush, FALSE)]
           wire_free == attached /\ outbox.parked = <<>> /\ outbox.in_flight = None
       IN /\ reported' = reported \cup ParkDropped(outbox, flush, FALSE)
          /\ \/ wire_free /\ Pump(regs, {k}, pending, conn)
             \/ ~wire_free /\ Hold(regs) /\ UNCHANGED pending
    /\ UNCHANGED <<next_generation, attached, conn, answers, refusals, applied, cut>>

\* Outboxes::refuse_flush: the contract in force refuses a batch just composed.
RefuseFlush(k) ==
    /\ k \in DOMAIN registrants
    /\ ~registrants[k].discarded
    /\ next_flush < MaxFlushes
    /\ next_flush' = next_flush + 1
    /\ reported' = reported \cup
        {[id |-> next_flush, generation |-> registrants[k].generation]}
    /\ Hold([registrants EXCEPT ![k].dropped = @ + 1])
    /\ UNCHANGED <<pending, next_generation, attached, conn, answers, refusals, applied, cut>>

\* What re-validation can leave of a queue: some of its flushes, in their order.
Survivors(queue) ==
    {[n \in DOMAIN s |-> queue[s[n]]] : s \in UNION {Ascending(I) : I \in SUBSET DOMAIN queue}}

\* An outbox left with them; what it loses is counted.
Revalidated(outbox, kept) ==
    [outbox EXCEPT !.parked = kept, !.dropped = @ + Len(outbox.parked) - Len(kept)]

\* Outboxes::on_attached: drop the queued flushes that fail re-validation, then
\* offer each queue's head.
OnAttached(kept) ==
    /\ ~attached
    /\ conn < MaxConns
    /\ conn' = conn + 1
    /\ attached' = TRUE
    /\ \A k \in DOMAIN registrants : kept[k] \in Survivors(registrants[k].parked)
    /\ reported' = reported \cup
        UNION {Range(registrants[k].parked) \ Range(kept[k]) : k \in DOMAIN registrants}
    /\ LET regs == [k \in DOMAIN registrants |-> Revalidated(registrants[k], kept[k])]
       IN Pump(regs, DOMAIN regs, pending, conn + 1)
    /\ UNCHANGED <<next_generation, answers, refusals, applied, next_flush, cut>>

\* Outboxes::on_detached: unanswered batches die with the connection, queued ones
\* stay.  What the client had written may still reach the old server session.  The
\* last connection of the bound stays up.
OnDetached ==
    /\ attached
    /\ conn < MaxConns
    /\ attached' = FALSE
    /\ cut' = cut \cup {p.batch : p \in pending}
    /\ pending' = {}
    /\ answers' = <<>>
    /\ registrants' = [k \in DOMAIN registrants |-> [registrants[k] EXCEPT !.in_flight = None]]
    /\ retry_armed' = FALSE
    /\ retry_wakeup' = IF retry_armed THEN FALSE ELSE retry_wakeup
    /\ UNCHANGED <<next_correlation, next_generation, conn, wires, refusals, applied,
                   next_flush, reported>>

\* Whether the registration that sent a batch still holds the outbox under its key.
SenderIsLive(p) ==
    p.key \in DOMAIN registrants /\ registrants[p.key].generation = p.batch.generation

\* A refusal re-parked behind the flushes that queued meanwhile.
RefusedAtTail(p) ==
    LET outbox == [registrants[p.key] EXCEPT !.in_flight = None, !.rate_limited = @ + 1]
    IN IF outbox.discarded
       THEN /\ reported' = reported \cup {p.batch}
            /\ Hold([registrants EXCEPT ![p.key] = outbox])
       ELSE /\ reported' = reported \cup ParkDropped(outbox, p.batch, FALSE)
            /\ Hold([registrants EXCEPT ![p.key] = Park(outbox, p.batch, FALSE)])

\* A re-park whose cap drop is not reported.
RefusedUncounted(p) ==
    LET outbox == [registrants[p.key] EXCEPT !.in_flight = None, !.rate_limited = @ + 1]
    IN IF outbox.discarded
       THEN /\ reported' = reported \cup {p.batch}
            /\ Hold([registrants EXCEPT ![p.key] = outbox])
       ELSE /\ UNCHANGED reported
            /\ Hold([registrants EXCEPT ![p.key] = Park(outbox, p.batch, TRUE)])

\* What becomes of a refused batch of a live registration: handed back when the
\* embedder discarded the queue, otherwise back to the head of it.
Refused(p) ==
    LET outbox == [registrants[p.key] EXCEPT !.in_flight = None, !.rate_limited = @ + 1]
    IN IF outbox.discarded
       THEN /\ reported' = reported \cup {p.batch}
            /\ Hold([registrants EXCEPT ![p.key] = outbox])
       ELSE /\ reported' = reported \cup ParkDropped(outbox, p.batch, TRUE)
            /\ Hold([registrants EXCEPT ![p.key] = Park(outbox, p.batch, TRUE)])

\* Outboxes::on_batch_result for the oldest result that has reached the client.  It
\* errs on a correlation it does not know; AnswersReconcile says that never happens.
OnBatchResult ==
    /\ attached
    /\ answers # <<>>
    /\ answers' = Tail(answers)
    /\ \E p \in pending :
        /\ p.correlation = Head(answers).correlation
        /\ LET ok == Head(answers).ok
               freed == [registrants EXCEPT ![p.key].in_flight = None]
           IN \/ /\ ~SenderIsLive(p)
                 /\ reported' = reported \cup IF ok THEN {} ELSE {p.batch}
                 /\ pending' = pending \ {p}
                 /\ UNCHANGED <<registrants, next_correlation, retry_armed, retry_wakeup, wires>>
              \/ /\ SenderIsLive(p) /\ ok
                 /\ Pump(freed, {p.key}, pending \ {p}, conn)
                 /\ UNCHANGED reported
              \/ /\ SenderIsLive(p) /\ ~ok
                 /\ Refused(p)
                 /\ pending' = pending \ {p}
    /\ UNCHANGED <<next_generation, attached, conn, refusals, applied, next_flush, cut>>

\* A tick that also sends an unanswered batch again.
OnRetryTickResends ==
    /\ retry_wakeup
    /\ \E order \in Ascending(Ready(registrants, DOMAIN registrants)) :
        LET frames == Written(registrants, order)
        IN /\ registrants' = Sent(registrants, Range(frames))
           /\ pending' = pending \cup Range(frames)
           /\ next_correlation' = next_correlation + Len(order)
           /\ \E again \in {<<>>} \cup {<<p>> : p \in pending} :
                 wires' = [wires EXCEPT ![conn] = @ \o frames \o again]
    /\ RetryWakeup(registrants', TRUE)
    /\ UNCHANGED <<next_generation, attached, conn, answers, refusals, applied, ghosts>>

\* The driver's retry deadline passed: Outboxes::on_retry_tick.
OnRetryTick ==
    /\ retry_wakeup
    /\ Pump(registrants, DOMAIN registrants, pending, conn)
    /\ UNCHANGED <<next_generation, attached, conn, answers, refusals, applied, ghosts>>

\* A refusal whose entries were applied all the same.
HandlePublishBatchAppliesRefused(c, ok) ==
    /\ wires[c] # <<>>
    /\ ok \/ refusals < MaxRefusals
    /\ wires' = [wires EXCEPT ![c] = Tail(@)]
    /\ refusals' = IF ok THEN refusals ELSE refusals + 1
    /\ applied' = Append(applied, Head(wires[c]))
    /\ answers' = IF c = conn /\ attached
                  THEN Append(answers, [correlation |-> Head(wires[c]).correlation, ok |-> ok])
                  ELSE answers
    /\ UNCHANGED <<client, conn, ghosts>>

\* The server session of connection c handles the next batch it received.  The send
\* budget refuses it, or the batch is applied whole.  Only the session of the live
\* connection has a client to answer.
HandlePublishBatch(c, ok) ==
    /\ wires[c] # <<>>
    /\ ok \/ refusals < MaxRefusals
    /\ wires' = [wires EXCEPT ![c] = Tail(@)]
    /\ refusals' = IF ok THEN refusals ELSE refusals + 1
    /\ applied' = IF ok THEN Append(applied, Head(wires[c])) ELSE applied
    /\ answers' = IF c = conn /\ attached
                  THEN Append(answers, [correlation |-> Head(wires[c]).correlation, ok |-> ok])
                  ELSE answers
    /\ UNCHANGED <<client, conn, ghosts>>

\* The server session of a connection the client has left ends; what it had not
\* read is gone.
SessionEnds(c) ==
    /\ c < conn \/ ~attached
    /\ wires[c] # <<>>
    /\ wires' = [wires EXCEPT ![c] = <<>>]
    /\ UNCHANGED <<client, conn, answers, refusals, applied, ghosts>>

Attach == \E kept \in [DOMAIN registrants ->
                        UNION {Survivors(registrants[k].parked) : k \in DOMAIN registrants}] :
             OnAttached(kept)
Handle == \E c \in 1..MaxConns, ok \in BOOLEAN : HandlePublishBatch(c, ok)

Next ==
    \/ \E k \in Keys, d \in Depths : Register(k, d)
    \/ \E k \in Keys : Deregister(k)
    \/ \E k \in Keys : DiscardParked(k)
    \/ \E k \in Keys : Flush(k)
    \/ \E k \in Keys : RefuseFlush(k)
    \/ Attach
    \/ OnDetached
    \/ OnBatchResult
    \/ OnRetryTick
    \/ Handle
    \/ \E c \in 1..MaxConns : SessionEnds(c)

Spec == Init /\ [][Next]_vars

\* The session task and the client's loop run while they have something to do, the
\* armed timer fires, and a client that is not attached reconnects.
FairSpec == Spec /\ WF_vars(Attach) /\ WF_vars(OnBatchResult)
                 /\ WF_vars(OnRetryTick) /\ WF_vars(Handle)

-----------------------------------------------------------------------------
(* Properties.                                                             *)

Parked(k) == Range(registrants[k].parked)
AllParked == UNION {Parked(k) : k \in DOMAIN registrants}
OnWire == UNION {{f.batch : f \in Range(wires[c])} : c \in 1..MaxConns}
Applied == {f.batch : f \in Range(applied)}
PendingOf(k) == {p \in pending : p.batch.generation = registrants[k].generation}

\* Every result the server sends on a live attachment names a batch the client still
\* knows, whatever was deregistered, killed or registered again meanwhile; an unknown
\* correlation makes on_batch_result err and the client go fatal.
AnswersReconcile ==
    \A i \in 1..Len(answers) : \E p \in pending : p.correlation = answers[i].correlation

\* No flush is applied twice: not after a refusal that was retried, nor by the session
\* of a connection the client has replaced.
AppliedAtMostOnce ==
    \A i, j \in 1..Len(applied) : applied[i].batch = applied[j].batch => i = j

\* The server never applies a flush while an older one of the same registration is
\* still owed by the client, queued or unanswered: refused flushes keep their place.
NothingOwedIsOvertaken ==
    \A k \in DOMAIN registrants, f \in Applied :
        f.generation = registrants[k].generation =>
            /\ \A g \in Parked(k) : f.id <= g.id
            /\ \A p \in PendingOf(k) : f.id <= p.batch.id

\* Every flush offered is queued, on the wire, applied, told to the embedder as lost,
\* or was unanswered when its attachment went away: none disappears silently.
LossIsAccounted ==
    0..(next_flush - 1) =
        {f.id : f \in AllParked \cup {p.batch : p \in pending} \cup Applied \cup reported \cup cut}

\* A flush the embedder was told is lost is not queued, not on any wire, and never
\* applied.
ReportedIsDead == reported \cap (AllParked \cup OnWire \cup Applied) = {}

\* Queued flushes leave their queues in the end, once no more are made: each is
\* sent, dropped at the cap or by re-validation, or handed back.
QueuedIsOffered == []<>(AllParked = {})
=============================================================================
