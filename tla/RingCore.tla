------------------------------ MODULE RingCore ------------------------------
(***************************************************************************)
(* One non-durable channel: brenn-queue's RingCore, the retained ring, the *)
(* positions of its subscribers and the messages parked for later, as the  *)
(* server's RingStore and the attach client's ChannelStore drive it.       *)
(*                                                                         *)
(* Every RingCore call runs under its host's lock, so each is one action.  *)
(* What is not under one lock is a read: the server cuts a window in one   *)
(* lock hold and advances over it in a later one, with awaits between      *)
(* (Window, Advance); the attach client does both in one call (Serve).     *)
(* SplitSpec and AtomicSpec are the two hosts.                             *)
(***************************************************************************)
EXTENDS RetainedRing, FiniteSets

CONSTANTS
    Subscribers,    \* the keys positions are held under
    Senders,        \* the identities that park messages
    Depths,         \* the depths the ring is tuned to
    PushDepths,     \* the push depths subscribers attach and read with
    RetainDepths,   \* the context depths subscribers read with
    MaxMessages,    \* bound: messages ever published or parked
    MaxTime         \* bound: the last instant of the caller's clock

ASSUME DepthsAssumption ==
    /\ Depths \subseteq Nat /\ Depths # {}
    /\ PushDepths \subseteq Nat
    /\ RetainDepths \subseteq Nat

ASSUME BoundsAssumption == MaxMessages \in Nat /\ MaxTime \in Nat

VARIABLES
    depth, next_seq, entries,            \* RetainedRing; depth is also the deferred cap
    attached, next_owed, push_depth,     \* the cursors, by subscriber
    deferred, next_id,                   \* DeferredSet, sorted by (release_at, id)
    window,     \* the window a subscriber was handed and has not advanced over
    floor,      \* the next_owed of the position last given up; 0 when none
    now,        \* the caller's clock
    minted,     \* messages published or parked so far; message n is the n-th
    (***********************************************************************)
    (* History: what the calls returned to their callers, added up for     *)
    (* each position since it came into existence.                         *)
    (***********************************************************************)
    base,       \* the next_owed the position was created with
    served,     \* the unseen seqs an advanced-over window carried
    dropped,    \* Advance.dropped: the figure the subscriber is told
    evicted,    \* CursorOverflow.evicted: losses charged by evictions
    noise,      \* Advance.noise_charge: losses charged by advances
    log,        \* every message appended, in seq order
    cancelled,  \* parked messages that were cancelled
    actor       \* {}, or the identity whose cancel or edit was last accepted

ringVars     == <<depth, next_seq, entries, log>>
cursorVars   == <<attached, next_owed, push_depth>>
deferredVars == <<deferred, next_id, cancelled, actor>>
ledgerVars   == <<base, served, dropped, noise>>
vars == <<ringVars, cursorVars, deferredVars, window, floor, now, minted,
          ledgerVars, evicted>>

-----------------------------------------------------------------------------
Init ==
    /\ depth \in Depths
    /\ next_seq = 1
    /\ entries = << >>
    /\ attached = {}
    /\ next_owed = [s \in Subscribers |-> 1]
    /\ push_depth = [s \in Subscribers |-> 0]
    /\ deferred = << >>
    /\ next_id = 1
    /\ window = [s \in Subscribers |-> << >>]
    /\ floor = 0
    /\ now = 0
    /\ minted = 0
    /\ base = [s \in Subscribers |-> 1]
    /\ served = [s \in Subscribers |-> {}]
    /\ dropped = [s \in Subscribers |-> 0]
    /\ evicted = [s \in Subscribers |-> 0]
    /\ noise = [s \in Subscribers |-> 0]
    /\ log = << >>
    /\ cancelled = {}
    /\ actor = {}

-----------------------------------------------------------------------------
(* Retention *)

\* Mutants of EvictedSince: an exclusive bound; a charge from the position on
\* every eviction rather than from the old frontier.
EvictedSinceExclusive(s, old, new) ==
    IF s \in attached THEN Sat(new, Larger(next_owed[s], old) + 1) ELSE 0

EvictedSincePosition(s, old, new) ==
    IF s \in attached THEN Sat(new, next_owed[s]) ELSE 0

\* evicted_since: what the frontier's move from `old` to `new` took from s.
EvictedSince(s, old, new) ==
    IF s \in attached /\ push_depth[s] > 0
    THEN Sat(new, Larger(next_owed[s], old))
    ELSE 0

\* overflow_since, merged over the appends of one call: every cursor is
\* charged for the span the call evicted, and no cursor moves.
ChargeOverflow ==
    evicted' = [s \in Subscribers |-> evicted[s] +
                  EvictedSince(s, Frontier(entries, next_seq),
                                  Frontier(entries', next_seq'))]

\* RingCore::append over a run of messages.  An append to a ring of depth
\* zero evicts nothing, and so reports nothing.
AppendAll(msgs) ==
    /\ next_seq' = next_seq + Len(msgs)
    /\ entries' = AppendRun(entries, msgs, next_seq, depth)
    /\ log' = log \o msgs
    /\ IF depth = 0 THEN UNCHANGED evicted ELSE ChargeOverflow
    /\ UNCHANGED depth

\* RingCore::append.
AppendMessage ==
    /\ minted < MaxMessages
    /\ minted' = minted + 1
    /\ AppendAll(<<minted + 1>>)
    /\ UNCHANGED <<cursorVars, deferredVars, window, floor, now, ledgerVars>>

\* Mutant of SetDepth: one entry too many is trimmed.
SetDepthTrimsOneMore(d) ==
    /\ d = 0 => attached = {}
    /\ depth' = d
    /\ entries' = Trim(entries, Sat(d, 1))
    /\ UNCHANGED <<next_seq, log>>
    /\ ChargeOverflow
    /\ UNCHANGED <<cursorVars, deferredVars, window, floor, now, minted, ledgerVars>>

\* RingCore::set_depth.  A channel with push-enabled subscribers retains at
\* least one message: standing depth is the ceiling on every push depth.
SetDepth(d) ==
    /\ d = 0 => attached = {}
    /\ depth' = d
    /\ entries' = Trim(entries, d)
    /\ UNCHANGED <<next_seq, log>>
    /\ ChargeOverflow
    /\ UNCHANGED <<cursorVars, deferredVars, window, floor, now, minted, ledgerVars>>

-----------------------------------------------------------------------------
(* Subscribers *)

\* A position comes into existence at `owed`, with an empty ledger.
CreatePosition(s, p, owed) ==
    /\ attached' = attached \cup {s}
    /\ next_owed' = [next_owed EXCEPT ![s] = owed]
    /\ push_depth' = [push_depth EXCEPT ![s] = p]
    /\ base' = [base EXCEPT ![s] = owed]
    /\ served' = [served EXCEPT ![s] = {}]
    /\ dropped' = [dropped EXCEPT ![s] = 0]
    /\ noise' = [noise EXCEPT ![s] = 0]
    /\ evicted' = [evicted EXCEPT ![s] = 0]

\* RingCore::attach.  A sampled attach removes any position; an existing one
\* is retuned and keeps its place; a new one is primed behind the tail.
Attach(s, p) ==
    /\ p > 0 => depth > 0
    /\ \/ /\ p = 0
          /\ attached' = attached \ {s}
          /\ UNCHANGED <<next_owed, push_depth, ledgerVars, evicted>>
       \/ /\ p > 0 /\ s \in attached
          /\ push_depth' = [push_depth EXCEPT ![s] = p]
          /\ UNCHANGED <<attached, next_owed, ledgerVars, evicted>>
       \/ /\ p > 0 /\ s \notin attached
          /\ CreatePosition(s, p, PrimedFrom(entries, next_seq, p) + 1)
    /\ UNCHANGED <<ringVars, deferredVars, window, floor, now, minted>>

\* RingCore::attach_from: a position that inherits the floor another
\* subscriber gave up.
AttachFrom(s, p) ==
    /\ depth > 0 /\ p > 0 /\ floor > 0
    /\ IF s \in attached
       THEN /\ push_depth' = [push_depth EXCEPT ![s] = p]
            /\ UNCHANGED <<attached, next_owed, ledgerVars, evicted>>
       ELSE CreatePosition(s, p, Larger(PrimedFrom(entries, next_seq, p) + 1, floor))
    /\ UNCHANGED <<ringVars, deferredVars, window, floor, now, minted>>

\* RingCore::detach, which returns the position removed.
Detach(s) ==
    /\ s \in attached
    /\ attached' = attached \ {s}
    /\ floor' = next_owed[s]
    /\ UNCHANGED <<ringVars, next_owed, push_depth, deferredVars, window, now,
                   minted, ledgerVars, evicted>>

-----------------------------------------------------------------------------
(* Reading *)

\* Mutant of HasDeliverable: an off-by-one at the newest seq.
HasDeliverableStrict(s) == s \in attached /\ entries # << >> /\ next_seq - 1 > next_owed[s]

\* RingCore::has_deliverable: the wake question.
HasDeliverable(s) ==
    s \in attached /\ push_depth[s] > 0 /\ entries # << >> /\ next_seq - 1 >= next_owed[s]

\* SubscriberCursor::window, for a push-enabled read.
CutWindow(p, r) == Newest(entries, Larger(p, r))

\* Window::advance_span: the newest and the oldest seq the window carries.
Through(w) == w[Len(w)].seq

\* Mutant of SeenFloor: the seq after the oldest one carried.
SeenFloorExclusive(w) == w[1].seq + 1

SeenFloor(w) == w[1].seq

\* SubscriberCursor::advance over window w.
AdvanceOver(s, w) ==
    LET n == next_owed[s]
        f == Frontier(entries, next_seq)
    IN  /\ dropped' = [dropped EXCEPT ![s] = @ + Sat(SeenFloor(w), n)]
        /\ noise' = [noise EXCEPT ![s] = @ + Sat(SeenFloor(w), Larger(n, f))]
        /\ next_owed' = [next_owed EXCEPT ![s] = Larger(n, Through(w) + 1)]
        /\ served' = [served EXCEPT ![s] =
                        @ \cup {q \in {w[i].seq : i \in 1..Len(w)} : q >= n}]
        /\ UNCHANGED base

\* RingCore::window in a lock hold of its own: no position moves.  A
\* push-enabled read without a position has no window to cut, and a sampled
\* read is context that nothing advances over: neither changes any state.
Window(s, p, r) ==
    /\ p > 0 /\ s \in attached
    /\ push_depth' = [push_depth EXCEPT ![s] = p]
    /\ window' = [window EXCEPT ![s] = CutWindow(p, r)]
    /\ UNCHANGED <<ringVars, attached, next_owed, deferredVars, floor, now,
                   minted, ledgerVars, evicted>>

\* RingCore::advance in a later lock hold, over the window then held.
Advance(s) ==
    /\ window[s] # << >>
    /\ window' = [window EXCEPT ![s] = << >>]
    /\ IF s \in attached
       THEN AdvanceOver(s, window[s])
       ELSE UNCHANGED <<next_owed, ledgerVars>>
    /\ UNCHANGED <<ringVars, attached, push_depth, deferredVars, floor, now,
                   minted, evicted>>

\* ChannelStore::serve: the attach client's window and advance in one call.
Serve(s, p, r) ==
    /\ p > 0 /\ s \in attached
    /\ push_depth' = [push_depth EXCEPT ![s] = p]
    /\ LET w == CutWindow(p, r)
       IN  IF w = << >> THEN UNCHANGED <<next_owed, ledgerVars>>
                        ELSE AdvanceOver(s, w)
    /\ UNCHANGED <<ringVars, attached, deferredVars, window, floor, now,
                   minted, evicted>>

-----------------------------------------------------------------------------
(* Deferral *)

\* The order of the deferred vector.
DueBefore(a, b) ==
    \/ a.release_at < b.release_at
    \/ a.release_at = b.release_at /\ a.id < b.id

\* Mutant of Inserted: overwrites the entry at the position.
InsertedOver(d, e) ==
    LET k == Cardinality({i \in 1..Len(d) : DueBefore(d[i], e)})
    IN  SubSeq(d, 1, k) \o <<e>> \o SubSeq(d, k + 2, Len(d))

\* position_for, then the insertion there.
Inserted(d, e) ==
    LET k == Cardinality({i \in 1..Len(d) : DueBefore(d[i], e)})
    IN  SubSeq(d, 1, k) \o <<e>> \o SubSeq(d, k + 1, Len(d))

Without(d, i) == SubSeq(d, 1, i - 1) \o SubSeq(d, i + 1, Len(d))

\* DeferredSet::park: at the cap the message is refused, never another's
\* evicted.
Park(sender, t) ==
    /\ minted < MaxMessages
    /\ Len(deferred) < depth
    /\ minted' = minted + 1
    /\ deferred' = Inserted(deferred, [id |-> next_id, sender |-> sender,
                                       release_at |-> t, message |-> minted + 1])
    /\ next_id' = next_id + 1
    /\ UNCHANGED <<ringVars, cursorVars, cancelled, actor, window, floor, now,
                   ledgerVars, evicted>>

\* DeferredSet::release_due's take_while: how many leading entries are due.
DueCount(d, t) ==
    Cardinality({i \in 1..Len(d) : \A j \in 1..i : d[j].release_at <= t})

\* RingCore::release_due: what is due enters retention in release order.
ReleaseDue ==
    LET k == DueCount(deferred, now) IN
    /\ k > 0
    /\ AppendAll([i \in 1..k |-> deferred[i].message])
    /\ deferred' = SubSeq(deferred, k + 1, Len(deferred))
    /\ UNCHANGED <<cursorVars, next_id, cancelled, actor, window, floor, now, minted,
                   ledgerVars>>

\* Mutant of OwnedDeferred: no look at the sender.
OwnedDeferredByAnyone(sender, i) == deferred[i].release_at > now

\* RingCore::owned_deferred: the entry is the sender's and not yet due.
OwnedDeferred(sender, i) ==
    deferred[i].sender = sender /\ deferred[i].release_at > now

\* RingStore::cancel_deferred.
CancelDeferred(sender, i) ==
    /\ OwnedDeferred(sender, i)
    /\ deferred' = Without(deferred, i)
    /\ cancelled' = cancelled \cup {deferred[i].message}
    /\ actor' = {sender}
    /\ UNCHANGED <<ringVars, cursorVars, next_id, window, floor, now, minted,
                   ledgerVars, evicted>>

\* RingStore::edit_deferred, to a new release time.  Rewriting the payload
\* keeps the entry, its id and its place, and is no step here.
EditDeferred(sender, i, t) ==
    /\ OwnedDeferred(sender, i)
    /\ deferred' = Inserted(Without(deferred, i), [deferred[i] EXCEPT !.release_at = t])
    /\ actor' = {sender}
    /\ UNCHANGED <<ringVars, cursorVars, next_id, cancelled, window, floor, now,
                   minted, ledgerVars, evicted>>

Tick ==
    /\ now < MaxTime
    /\ now' = now + 1
    /\ UNCHANGED <<ringVars, cursorVars, deferredVars, window, floor, minted,
                   ledgerVars, evicted>>

-----------------------------------------------------------------------------
Common ==
    \/ AppendMessage
    \/ \E d \in Depths : SetDepth(d)
    \/ \E s \in Subscribers, p \in PushDepths : Attach(s, p) \/ AttachFrom(s, p)
    \/ \E s \in Subscribers : Detach(s)
    \/ \E x \in Senders, t \in 0..MaxTime : Park(x, t)
    \/ ReleaseDue
    \/ \E x \in Senders : \E i \in 1..Len(deferred) :
          CancelDeferred(x, i) \/ \E t \in 0..MaxTime : EditDeferred(x, i, t)
    \/ Tick

\* The server host: windows and advances are separate lock holds.
SplitNext ==
    \/ Common
    \/ \E s \in Subscribers, p \in PushDepths, r \in RetainDepths : Window(s, p, r)
    \/ \E s \in Subscribers : Advance(s)

\* The attach client host: one call serves and advances.
AtomicNext ==
    \/ Common
    \/ \E s \in Subscribers, p \in PushDepths, r \in RetainDepths : Serve(s, p, r)

SplitSpec  == Init /\ [][SplitNext]_vars
AtomicSpec == Init /\ [][AtomicNext]_vars

-----------------------------------------------------------------------------
(* Properties *)

Entry == Row(Nat)

DeferredEntry == [id : Nat, sender : Senders, release_at : Nat, message : Nat]

\* Every variable keeps the type of the Rust field it stands for.
TypeOK ==
    /\ depth \in Nat /\ next_seq \in Nat /\ entries \in Seq(Entry)
    /\ attached \subseteq Subscribers
    /\ next_owed \in [Subscribers -> Nat]
    /\ push_depth \in [Subscribers -> Nat]
    /\ deferred \in Seq(DeferredEntry)
    /\ next_id \in Nat
    /\ window \in [Subscribers -> Seq(Entry)]
    /\ floor \in Nat /\ now \in Nat /\ minted \in Nat
    /\ base \in [Subscribers -> Nat]
    /\ served \in [Subscribers -> SUBSET Nat]
    /\ dropped \in [Subscribers -> Nat]
    /\ evicted \in [Subscribers -> Nat]
    /\ noise \in [Subscribers -> Nat]
    /\ log \in Seq(Nat) /\ cancelled \subseteq Nat /\ actor \subseteq Senders

\* What the ring holds is the newest dense run of what was appended, within
\* its depth, each entry the message its seq was assigned to.  since, replay
\* and has_deliverable are arithmetic that is only right on such a run.
RetainedIsDenseSuffix ==
    /\ Len(entries) <= depth
    /\ Len(log) + 1 = next_seq
    /\ Len(entries) < next_seq
    /\ Dense(entries, next_seq - 1)
    /\ Faithful(entries, log)

\* No position ever holds a push depth of zero or runs ahead of the channel,
\* and neither does a floor a detach gave up: the assertions of
\* SubscriberCursor::advance and RingCore::attach_from cannot fail, whatever
\* order attaches, demotions, reads, detaches and stale advances come in.
PositionsAreSound ==
    /\ floor <= next_seq
    /\ \A s \in attached :
          /\ push_depth[s] > 0
          /\ 1 <= base[s] /\ base[s] <= next_owed[s] /\ next_owed[s] <= next_seq
    /\ depth = 0 => attached = {}

\* Every message published since a position came into existence, and that the
\* position has passed, was either carried by a window its subscriber advanced
\* over or is counted in the `dropped` figures it was told, exactly once,
\* although windows and advances interleave with appends, trims and other
\* subscribers' calls, and a window may be stale when it is advanced over.
ServedOrDroppedOnce ==
    \A s \in attached :
        /\ served[s] \subseteq base[s]..(next_owed[s] - 1)
        /\ Cardinality(served[s]) + dropped[s] = next_owed[s] - base[s]

\* The unseen messages retention has already taken from s.
Outstanding(s) == Sat(Frontier(entries, next_seq), next_owed[s])

\* No loss goes unreported: the charges the hosts enact, at evictions and at
\* advances, cover every message a subscriber was told it dropped and every
\* unseen message retention has already taken, at every moment.
NoLossUnreported ==
    \A s \in attached : evicted[s] + noise[s] >= dropped[s] + Outstanding(s)

\* The two books are one: with serve and advance in one call, the charges
\* equal the losses exactly, with no double report.
EachLossReportedOnce ==
    \A s \in attached : evicted[s] + noise[s] = dropped[s] + Outstanding(s)

\* The wake question and the window agree: a subscriber is deliverable exactly
\* when the window its dispatcher would cut carries something new.
WakeIffWindowHasNew ==
    \A s \in attached : \A p \in PushDepths \ {0}, r \in RetainDepths :
        LET w == CutWindow(p, r)
        IN  HasDeliverable(s) <=> NewFrom(w, next_owed[s], p) < Len(w)

\* A subscriber found deliverable stays deliverable until its own advance or
\* detach, whatever is published, evicted, trimmed or retuned in between: the
\* dispatcher reads the gate and the window in different lock holds and
\* panics on a delivery that carries nothing new.
DeliverableIsStable ==
    [][\A s \in Subscribers :
          HasDeliverable(s) => \/ HasDeliverable(s)'
                               \/ s \notin attached'
                               \/ next_owed'[s] > next_owed[s]]_vars

\* The channel is a Feed of everything ever appended, to each subscriber from
\* the position it attached at: what advances report as dropped is exactly what
\* they step over, although a window may be stale by the time it is advanced
\* over, evictions are reported elsewhere, and rings are trimmed and retuned.
F == INSTANCE Feed WITH Readers <- Subscribers, published <- next_seq - 1, open <- attached,
                        at <- next_owed, got <- served, lost <- dropped

ImplementsFeed == F!Spec

\* Where each message is: appended, parked or cancelled.
Parked == {deferred[i].message : i \in 1..Len(deferred)}

Logged == {log[i] : i \in 1..Len(log)}

\* Every message accepted by a publish or a park is in exactly one place, once:
\* retention's log, the deferred set, or cancelled.  Nothing scheduled is lost
\* to a cap, a retune or an edit, and no release repeats.
EachMessageInOnePlace ==
    /\ Logged \cup Parked \cup cancelled = 1..minted
    /\ Len(log) + Len(deferred) + Cardinality(cancelled) = minted

\* A parked entry that is due is past recall: it stays as it is until a sweep
\* appends its message.  One not yet due is changed or taken out by its own
\* sender only (owned_deferred stands before every cancel and edit).  A sweep
\* leaves nothing due behind, and a park never fills the set past the cap then
\* in force, whatever was trimmed, edited or released before.
DeferredLeavesRightfully ==
    [][/\ \A i \in 1..Len(deferred) :
            LET e == deferred[i]
            IN  \/ \E j \in 1..Len(deferred') : deferred'[j] = e
                \/ e.release_at <= now /\ e.message \in Logged'
                \/ e.release_at > now /\ actor' = {e.sender} /\ e.message \notin Logged'
       /\ Parked \cap Logged' # {} =>
            \A i \in 1..Len(deferred') : deferred'[i].release_at > now
       /\ Len(deferred') > Len(deferred) => Len(deferred') <= depth]_vars
=============================================================================
