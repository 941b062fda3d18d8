------------------------------ MODULE DurableBus ------------------------------
(***************************************************************************)
(* The durable channels of the bus as their users may rely on them:        *)
(* brenn-messaging-store/src/{store/db,db/*}.rs and the operations of      *)
(* brenn-messaging/src/{lib,edit,publish/mod}.rs over them.                *)
(*                                                                         *)
(* A channel's messages are rows.  A row with a release time is parked; a  *)
(* row with a retention position is retained.  Every statement on the rows *)
(* runs under the one connection lock and is one action; what an           *)
(* operation does in two lock holds is two.                                *)
(*                                                                         *)
(* One subscriber, the consumer, holds a position on every channel.  When  *)
(* a due message is released and when an owed consumer is woken is left    *)
(* open here: BusDispatcher is the loop that decides it.  Channels are     *)
(* taken as deep enough that the eviction pass finds nothing to evict.     *)
(***************************************************************************)
EXTENDS Naturals, FiniteSets, FiniteSetsExt, Functions

CONSTANTS
    Channels,       \* durable channels the consumer subscribes
    Apps,           \* senders that publish, cancel and edit from outside
    Component,      \* the consumer's own sender identity
    Deadlines,      \* the delivery deadlines a publish may carry, None among them
    DeferredCap,    \* messages a channel may hold parked
    MaxMessages,    \* bound: messages ever published
    MaxTime,        \* bound: the clock
    MaxEvents       \* bound: edits by apps, reloads and crashes together

None == 0

ASSUME BusBounds ==
    /\ MaxMessages \in Nat /\ MaxTime \in Nat /\ MaxEvents \in Nat
    /\ DeferredCap \in Nat /\ Deadlines \subseteq Nat /\ None \in Deadlines
    /\ Component \notin Apps

VARIABLES
    rows,           \* messaging_messages, by message id
    minted,         \* ids handed out
    last_seq,       \* messaging_channels.last_retained_seq
    next_owed,      \* messaging_subscriber_cursors.next_owed_seq of the consumer
    now,            \* the clock; it starts at 1, as None is 0
    unannounced,    \* channels with a message retained that no wake walk has looked at
    service,        \* the consumer in the directory and the binding table
    notify,         \* the permit of the consumer's Notify
    editing,        \* the message an app's edit found parked, None when no edit is under way
    torn,           \* history: messages an edit rescheduled after they were retained
    events          \* edits, reloads and crashes so far

store == <<rows, minted, last_seq, next_owed>>
edit == <<editing, torn>>
busvars == <<store, now, unannounced, service, notify, edit, events>>

Time == 1..MaxTime
Row == [channel : Channels, sender : Apps \union {Component}, release : Nat,
        deadline : Deadlines, seq : Nat]

-----------------------------------------------------------------------------
(* The store *)

Parked == {m \in DOMAIN rows : rows[m].release # None}
ParkedOn(c) == {m \in Parked : rows[m].channel = c}
Retained(c) == {m \in DOMAIN rows : rows[m].channel = c /\ rows[m].seq # None}
Unseen(c) == {m \in Retained(c) : rows[m].seq >= next_owed[c]}

\* deliverable_cursor_subscribers, cursor_has_deliverable
HasDeliverable(c) == Unseen(c) # {}

\* Release order: by release time, ties by id.
ReleasedBefore(m, n) ==
    \/ rows[m].release < rows[n].release
    \/ rows[m].release = rows[n].release /\ m < n

DueOn(c, t) == {m \in ParkedOn(c) : rows[m].release <= t}

\* release_due_for_channel: every due row gets the next position in release
\* order and stops carrying a release time.
ReleaseDueOn(c, t) ==
    LET due == DueOn(c, t)
        seq(m) == last_seq[c] + 1 + Cardinality({n \in due : ReleasedBefore(n, m)})
    IN  /\ rows' = [m \in DOMAIN rows |->
                       IF m \in due THEN [rows[m] EXCEPT !.release = None, !.seq = seq(m)]
                       ELSE rows[m]]
        /\ last_seq' = [last_seq EXCEPT ![c] = @ + Cardinality(due)]
        /\ unannounced' = unannounced \union {c}
        /\ UNCHANGED <<minted, next_owed>>

\* A publish's park or append.  Whether it is scheduled was decided once, on
\* the clock reading t the caller took before the lock.
Insert(s, c, r, d, t) ==
    LET m == minted + 1
        scheduled == r > t
        row == [channel |-> c, sender |-> s, deadline |-> d,
                release |-> IF scheduled THEN r ELSE None,
                seq |-> IF scheduled THEN None ELSE last_seq[c] + 1]
    IN  /\ minted < MaxMessages
        /\ scheduled => Cardinality(ParkedOn(c)) < DeferredCap
        /\ minted' = m
        /\ rows' = [n \in DOMAIN rows \union {m} |-> IF n = m THEN row ELSE rows[n]]
        /\ last_seq' = [last_seq EXCEPT ![c] = IF scheduled THEN @ ELSE @ + 1]
        /\ unannounced' = IF scheduled THEN unannounced ELSE unannounced \union {c}
        /\ UNCHANGED next_owed

Withdraw(m) ==
    /\ rows' = [n \in DOMAIN rows \ {m} |-> rows[n]]
    /\ UNCHANGED <<minted, last_seq, next_owed, unannounced>>

Reschedule(m, r) ==
    /\ rows' = [rows EXCEPT ![m].release = r]
    /\ UNCHANGED <<minted, last_seq, next_owed, unannounced>>

\* Mutant of OwnedDeferred: any message of the sender's will do.
OwnedByAuthor(s, m, t) == m \in DOMAIN rows /\ rows[m].sender = s

\* lookup_deferred and the checks of cancel_deferred and edit_deferred: parked,
\* the sender's own, and not due by the caller's clock reading.
OwnedDeferred(s, m, t) ==
    m \in Parked /\ rows[m].sender = s /\ rows[m].release > t

-----------------------------------------------------------------------------
(* Operations *)

Publish(s, c, r, d, t) ==
    /\ Insert(s, c, r, d, t)
    /\ UNCHANGED <<now, service, notify, edit, events>>

\* Messenger::cancel: lookup and withdrawal in one lock hold.
Cancel(m) ==
    /\ m \in Parked /\ rows[m].sender \in Apps
    /\ Withdraw(m)
    /\ UNCHANGED <<now, service, notify, edit, events>>

\* Messenger::edit, first lock hold: the message is found parked.
EditLookup(m) ==
    /\ editing = None /\ events < MaxEvents
    /\ m \in Parked /\ rows[m].sender \in Apps
    /\ editing' = m /\ events' = events + 1
    /\ UNCHANGED <<store, now, unannounced, service, notify, torn>>

\* Messenger::edit, second lock hold: update_parked_message finds the row by id
\* and writes the fields the edit carries, wherever the row is by now.  A
\* release time that is not ahead is written as now, which hands the row to
\* the next sweep.
EditUpdate(fields, r, d) ==
    LET row == rows[editing]
        release == IF "deliver_after" \in fields THEN Max({r, now}) ELSE row.release
        deadline == IF "delivery_deadline" \in fields THEN d ELSE row.deadline
    IN  /\ editing \in DOMAIN rows
        /\ rows' = [rows EXCEPT ![editing].release = release, ![editing].deadline = deadline]
        /\ torn' = IF "deliver_after" \in fields /\ row.seq # None
                   THEN torn \union {editing} ELSE torn
        /\ editing' = None
        /\ UNCHANGED <<minted, last_seq, next_owed, now, unannounced, service, notify, events>>

\* The row was withdrawn in between: update_parked_message panics, and with it
\* the tool call.
EditPanics ==
    /\ editing # None /\ editing \notin DOMAIN rows
    /\ editing' = None
    /\ UNCHANGED <<store, now, unannounced, service, notify, torn, events>>

\* cancel_deferred_for_sender and edit_deferred_for_sender, with the clock
\* reading t of the caller's drain.
CancelDeferred(s, m, t) ==
    /\ OwnedDeferred(s, m, t)
    /\ Withdraw(m)
    /\ UNCHANGED <<now, service, notify, edit, events>>

EditDeferred(s, m, r, t) ==
    /\ OwnedDeferred(s, m, t)
    /\ Reschedule(m, r)
    /\ UNCHANGED <<now, service, notify, edit, events>>

\* One channel of release_due_messages, on the clock reading t of its pass.
Release(c, t) ==
    /\ DueOn(c, t) # {}
    /\ ReleaseDueOn(c, t)
    /\ UNCHANGED <<now, service, notify, edit, events>>

\* One channel of wake_owed_subscribers.  A consumer that is owed something
\* and is in service gets its permit; one that is leaving may still get it, and
\* the wake of a retired binding is dropped.
Wake(c) ==
    /\ unannounced' = unannounced \ {c}
    /\ \/ /\ HasDeliverable(c) /\ service # "gone"
          /\ notify' = TRUE
       \/ /\ ~HasDeliverable(c) \/ service # "live"
          /\ UNCHANGED notify
    /\ UNCHANGED <<store, now, service, edit, events>>

\* Mutant of Advance: the position stops at the last message of the window.
AdvanceShort(c, through) ==
    /\ next_owed' = [next_owed EXCEPT ![c] = IF through >= @ THEN through ELSE @]
    /\ UNCHANGED <<rows, minted, last_seq, now, unannounced, service, notify, edit, events>>

\* DbStore::advance: the position moves over the window and never back.
Advance(c, through) ==
    /\ next_owed' = [next_owed EXCEPT ![c] = IF through >= @ THEN through + 1 ELSE @]
    /\ UNCHANGED <<rows, minted, last_seq, now, unannounced, service, notify, edit, events>>

\* The consumer's task takes its permit.
Notified ==
    /\ notify /\ notify' = FALSE
    /\ UNCHANGED <<store, now, unannounced, service, edit, events>>

\* retire_consumers: out of the directory first, the binding retired last; the
\* arrival binds a Notify of its own.  The positions stay, and what is retained
\* by the arrival is for the mount activation to find.
Depart ==
    /\ service = "live" /\ events < MaxEvents
    /\ service' = "leaving" /\ events' = events + 1
    /\ UNCHANGED <<store, now, unannounced, notify, edit>>

Retire ==
    /\ service = "leaving" /\ service' = "gone"
    /\ UNCHANGED <<store, now, unannounced, notify, edit, events>>

Arrive ==
    /\ service = "gone" /\ service' = "live"
    /\ notify' = FALSE /\ unannounced' = {}
    /\ UNCHANGED <<store, now, edit, events>>

Tick ==
    /\ now < MaxTime
    /\ now' = now + 1
    /\ UNCHANGED <<store, unannounced, service, notify, edit, events>>

\* The rows and positions survive; permits and calls under way do not.
Crash ==
    /\ events < MaxEvents /\ events' = events + 1
    /\ notify' = FALSE /\ unannounced' = {} /\ service' = "live" /\ editing' = None
    /\ UNCHANGED <<store, now, torn>>

BusInit ==
    /\ rows = << >> /\ minted = 0
    /\ last_seq = [c \in Channels |-> 0] /\ next_owed = [c \in Channels |-> 1]
    /\ now = 1 /\ unannounced = {}
    /\ service = "live" /\ notify = FALSE
    /\ editing = None /\ torn = {} /\ events = 0

\* What apps do that changes when something is due or owed, ...
AppWrites ==
    \/ \E s \in Apps, c \in Channels, r \in {None} \union Time, d \in Deadlines, t \in 1..now :
          Publish(s, c, r, d, t)
    \/ \E m \in DOMAIN rows : Cancel(m)
    \/ \E fields \in SUBSET {"deliver_after", "delivery_deadline"} \ {{}},
          r \in Time, d \in Deadlines : EditUpdate(fields, r, d)

\* ... and what does not.
AppSteps ==
    \/ \E m \in DOMAIN rows : EditLookup(m)
    \/ EditUpdate({}, None, None)
    \/ EditPanics

\* What the component's activations do to the store.
ComponentWrites ==
    \/ \E c \in Channels, r \in {None} \union Time, t \in 1..now :
          Publish(Component, c, r, None, t)
    \/ \E m \in DOMAIN rows, t \in 1..now : CancelDeferred(Component, m, t)
    \/ \E m \in DOMAIN rows, r \in Time, t \in 1..now : EditDeferred(Component, m, r, t)

ConsumerSteps ==
    \/ \E c \in Channels : \E through \in 1..last_seq[c] : Advance(c, through)
    \/ Notified
    \/ Depart \/ Retire \/ Arrive

ReleaseStep(c) == \E t \in 1..now : Release(c, t)

BusNext ==
    \/ AppWrites \/ AppSteps \/ ComponentWrites \/ ConsumerSteps
    \/ \E c \in Channels : ReleaseStep(c) \/ Wake(c)
    \/ Tick
    \/ Crash

\* What is due is released and what is retained is announced, in finite time.
BusSpec == BusInit /\ [][BusNext]_busvars
BusFairSpec ==
    /\ BusSpec
    /\ \A c \in Channels : WF_busvars(ReleaseStep(c))
    /\ \A c \in Channels : WF_busvars(c \in unannounced /\ Wake(c))

-----------------------------------------------------------------------------
(* Properties *)

BusTypeOK ==
    /\ DOMAIN rows \subseteq 1..minted /\ rows \in [DOMAIN rows -> Row]
    /\ minted \in 0..MaxMessages
    /\ last_seq \in [Channels -> Nat] /\ next_owed \in [Channels -> Nat \ {0}]
    /\ now \in Nat \ {0} /\ unannounced \subseteq Channels
    /\ service \in {"live", "leaving", "gone"} /\ notify \in BOOLEAN
    /\ editing \in 0..minted /\ torn \subseteq 1..minted /\ events \in Nat

\* "A row carries a release time iff it holds no retention position": what the
\* park decision of a publish is taken once for (publish/mod.rs).
ReleaseTimeIffUnpositioned ==
    \A m \in DOMAIN rows : rows[m].release # None <=> rows[m].seq = None

\* A message that entered retention is past recall: no cancel, edit or deferred
\* operation moves or removes it, whichever clock reading it acts on, unless an
\* app's edit rescheduled it after its release.
RetainedIsFinal ==
    [][\A m \in DOMAIN rows :
          rows[m].seq # None /\ m \notin torn'
              => /\ m \in DOMAIN rows' /\ rows'[m].seq = rows[m].seq
                 /\ rows'[m].release = rows[m].release]_busvars
=============================================================================
