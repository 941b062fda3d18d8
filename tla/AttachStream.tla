---------------------------- MODULE AttachStream ----------------------------
(***************************************************************************)
(* One channel's stream across an attachment: the client's subscription    *)
(* plane (attach/client/src/subs.rs), the server session's subscription    *)
(* plane (attach/server/src/subscription.rs), the store that answers       *)
(* resumes, and the router's live fan-out, joined by two FIFO wires.       *)
(*                                                                         *)
(* Publishers commit and fan out in two steps, so fan-outs overtake each   *)
(* other and race a subscribe's activation and its store read.  The        *)
(* connection drops and comes back, the server restarts, a reload          *)
(* re-creates the channel and a database is restored from backup.          *)
(*                                                                         *)
(* A message is its global publish number; a retained row pairs it with    *)
(* the position its store assigned.                                        *)
(***************************************************************************)
EXTENDS Integers, Sequences, Functions, RetainedRing

CONSTANTS
    Classes,        \* channel classes to start from: "durable", "ephemeral"
    Attachers,      \* attacher kinds to start from: "surface", "remote"
    Statements,     \* what a local subscriber may state: [push, retain, policy]
    Bounds,         \* depths boot may have resolved for the channel: [push, retain]
    Depth,          \* the channel's retain depth
    PushFrames,     \* PUSH_QUEUE_FRAMES, the session's live queue
    MaxPublishes, MaxHolds, MaxRefs,
    MaxConns, MaxRestarts, MaxRecreates, MaxRestores

\* The depths a conforming attacher states leave a window after the clamp.
ASSUME StatementsAreWindows ==
    \A s \in Statements, b \in Bounds :
        /\ s.push \in Nat /\ s.retain \in Nat /\ s.policy \in {"Resume", "Cursorless"}
        /\ Larger(s.push, s.retain) > 0
        /\ b.push \in Nat /\ b.retain \in Nat /\ Larger(b.push, b.retain) > 0
        /\ (s.push > 0 /\ b.push > 0) \/ (s.retain > 0 /\ b.retain > 0)

ASSUME DepthIsACount == Depth \in Nat

VARIABLES
    store,      \* the channel's retention and the store's identity
    backup,     \* << >>, or the durable store as a backup captured it
    dir,        \* the directory: [attacher, bound, present, entry]
    fanout,     \* committed rows whose publisher has not fanned them out yet
    ss,         \* the server session
    up,         \* whether an attachment is live
    c2s, s2c,   \* frames in flight
    sub,        \* the client's ChannelSubscription
    heard,      \* what the current holders have been told (history)
    dead,       \* which side tore the attachment down as a contract breach
    count       \* how many of each bounded event have happened

vars == <<store, backup, dir, fanout, ss, up, c2s, s2c, sub, heard, dead, count>>

Min2(a, b) == IF a < b THEN a ELSE b

-----------------------------------------------------------------------------
(***************************************************************************)
(* The server session.                                                     *)
(***************************************************************************)

\* SubscriptionFacts: the stated depths clamped to the boot-resolved fold.
Facts(stmt) == [push |-> Min2(stmt.push, dir.bound.push),
                retain |-> Min2(stmt.retain, dir.bound.retain)]

\* replay_clamp.
ReplayClamp(facts) == Larger(facts.push, facts.retain)

NoFacts == [push |-> 0, retain |-> 0]

\* A session with no subscription.  `span` and `pos` are WireCursors' entries
\* for the channel; `request` holds a Subscribe between activation and replay.
\* `hand` and `drain` are what is left of the turn under way: rows taken off the
\* push queue, and whether drain_all follows them.
Session(on) == [on |-> on, active |-> FALSE, facts |-> NoFacts, span |-> 0,
                pos |-> [epoch |-> 0, seq |-> 0], pushq |-> << >>,
                nudge |-> FALSE, request |-> << >>, hand |-> << >>, drain |-> FALSE]

\* WireCursors::next over the rows of a pass: each takes the next span seq and a
\* cursor at the position it brings the session to.
Minted(s, rows, dropped) ==
    [i \in 1..Len(rows) |->
        [seq |-> s.span + i,
         cursor |-> [inc |-> store.inc, life |-> store.life, epoch |-> s.pos.epoch,
                     seq |-> Larger(s.pos.seq, rows[i].seq)],
         dropped |-> IF i = 1 THEN dropped ELSE 0,
         message |-> rows[i].message]]

\* send_pass: a pass with rows is one Deliver frame.  `out` is the session
\* together with the frames it has queued.
SendPass(out, rows, dropped) ==
    IF rows = << >> THEN out
    ELSE [s |-> [out.s EXCEPT !.span = @ + Len(rows),
                              !.pos.seq = Larger(@, rows[Len(rows)].seq)],
          frames |-> Append(out.frames,
              [kind |-> "Deliver", rows |-> Minted(out.s, rows, dropped)])]

\* RetentionStore::replay_from under the subscription's clamp.
ReplayFrom(resume, facts) ==
    ClampReplay(Replay(store.ring, store.next, store.epoch, resume), ReplayClamp(facts))

\* Mutant of DrainChannel: steps over the interior span without saying so.
DrainUnreported(out) ==
    LET r == ReplayFrom(<<out.s.pos>>, out.s.facts)
        cut == GapSuffix(r.messages, out.s.pos.seq)
    IN  SendPass(out, cut.rows, 0)

\* drain_channel: the suffix above the position; on a gap the window is cut to
\* it and the positions stepped over ride the first row, if anything can wake.
DrainChannel(out) ==
    LET r == ReplayFrom(<<out.s.pos>>, out.s.facts)
        cut == GapSuffix(r.messages, out.s.pos.seq)
    IN  IF IsGap(r.decision)
        THEN SendPass(out, cut.rows, IF out.s.facts.push > 0 THEN cut.lost ELSE 0)
        ELSE SendPass(out, r.messages, 0)

\* Mutant of SendLive: the position does not decide, so a copy goes out twice.
SendLiveTwice(out, row) ==
    IF row.seq <= out.s.pos.seq + 1 THEN SendPass(out, <<row>>, 0) ELSE DrainChannel(out)

\* send_live for one queued row of an active channel.
SendLive(out, row) ==
    IF row.seq <= out.s.pos.seq THEN out
    ELSE IF row.seq = out.s.pos.seq + 1 THEN SendPass(out, <<row>>, 0)
    ELSE DrainChannel(out)

\* At its select: no turn is under way.
Running == ss.on /\ ss.request = << >> /\ ss.hand = << >> /\ ~ss.drain

\* The push arm of read_frames takes everything co-available.
TakePushes ==
    /\ Running
    /\ ss.pushq # << >>
    /\ ss' = [ss EXCEPT !.hand = ss.pushq, !.pushq = << >>]
    /\ UNCHANGED <<store, backup, dir, fanout, up, c2s, s2c, sub, heard, dead, count>>

\* The drain_notify arm: what is queued goes out first, then drain_all.
TakeNudge ==
    /\ Running
    /\ ss.nudge
    /\ ss' = [ss EXCEPT !.hand = ss.pushq, !.pushq = << >>, !.nudge = FALSE, !.drain = TRUE]
    /\ UNCHANGED <<store, backup, dir, fanout, up, c2s, s2c, sub, heard, dead, count>>

\* A step of the session's turn, and what it queued for the writer.
Turn(out) == ss' = out.s /\ s2c' = s2c \o out.frames

\* send_session_pushes, one row: its sends and its store reads await, so
\* publishers run between two rows.
SendPush ==
    /\ ss.on /\ ss.hand # << >>
    /\ LET out == [s |-> [ss EXCEPT !.hand = Tail(@)], frames |-> << >>]
       IN  Turn(IF ss.active THEN SendLive(out, Head(ss.hand)) ELSE out)
    /\ UNCHANGED <<store, backup, dir, fanout, up, c2s, sub, heard, dead, count>>

\* drain_all, once what was in hand is sent.
DrainAll ==
    /\ ss.on /\ ss.hand = << >> /\ ss.drain
    /\ LET out == [s |-> [ss EXCEPT !.drain = FALSE], frames |-> << >>]
       IN  Turn(IF ss.active THEN DrainChannel(out) ELSE out)
    /\ UNCHANGED <<store, backup, dir, fanout, up, c2s, sub, heard, dead, count>>

\* A protocol violation: the session is torn down with a security event.
Violates ==
    /\ dead' = "server"
    /\ up' = FALSE
    /\ ss' = Session(FALSE)
    /\ c2s' = << >> /\ s2c' = << >>

\* resume_answer: the gap the client is told of, and the span's anchor.
Gap(decision) == IF IsGap(decision) THEN
                    IF decision = "BeyondRetained" THEN decision ELSE "EpochChanged"
                 ELSE "none"

Anchor(decision, resume) ==
    IF decision \in {"UpToDate", "Exact"} THEN resume[1].seq ELSE 0

Result(outcome, gap) == [kind |-> "SubscribeResult", outcome |-> outcome, gap |-> gap]

\* handle_subscribe up to its store read: activate, then mint the directory
\* entry, so a commit the read misses is fanned out to this session.
Activate(frame) ==
    /\ ss' = [ss EXCEPT !.active = TRUE, !.facts = Facts(frame.stmt), !.request = <<frame>>]
    /\ dir' = [dir EXCEPT !.entry = TRUE]

\* handle_subscribe: a duplicate violates, a channel the directory lacks is
\* answered Unavailable, anything else activates.
HandleSubscribe ==
    /\ Running
    /\ c2s # << >> /\ Head(c2s).kind = "Subscribe"
    /\ IF ss.active THEN Violates /\ UNCHANGED dir
       ELSE /\ c2s' = Tail(c2s)
            /\ \/ /\ ~dir.present
                  /\ s2c' = Append(s2c, Result("Unavailable", "none"))
                  /\ UNCHANGED <<dir, ss>>
               \/ /\ dir.present
                  /\ Activate(Head(c2s))
                  /\ UNCHANGED s2c
            /\ UNCHANGED <<up, dead>>
    /\ UNCHANGED <<store, backup, fanout, sub, heard, count>>

\* Mutant of StaleCursor: a cursor from any earlier boot is taken as stale.
StaleCursorAnyBoot(resume) == resume # << >> /\ resume[1].inc # store.inc


\* A cursor minted under a boot this store never counted.
StaleCursor(resume) == resume # << >> /\ resume[1].inc > store.inc

\* The rest of handle_subscribe: read the store, anchor the span, answer, and
\* write the replay as one pass.  A stale cursor is answered as a fresh attach
\* under a forced gap.
HandleSubscribeReplay ==
    /\ ss.on /\ ss.request # << >>
    /\ LET claim == ss.request[1].resume
           stale == StaleCursor(claim)
           resume == IF stale THEN << >> ELSE claim
           r == ReplayFrom(resume, ss.facts)
           s == [ss EXCEPT !.request = << >>, !.span = 0, !.active = TRUE,
                           !.pos = [epoch |-> store.epoch,
                                    seq |-> Anchor(r.decision, resume)]]
           gap == IF stale THEN "EpochChanged" ELSE Gap(r.decision)
       IN  Turn(SendPass([s |-> s, frames |-> <<Result("Ok", gap)>>], r.messages, 0))
    /\ UNCHANGED <<store, backup, dir, fanout, up, c2s, sub, heard, dead, count>>

\* Mutant of HandleUnsubscribe: leaves the subscription open.
HandleUnsubscribeKeeps ==
    /\ Running
    /\ c2s # << >> /\ Head(c2s).kind = "Unsubscribe"
    /\ c2s' = Tail(c2s)
    /\ UNCHANGED <<store, backup, dir, fanout, ss, up, s2c, sub, heard, dead, count>>

\* handle_unsubscribe: deactivate and clear the span, with no answer.
HandleUnsubscribe ==
    /\ Running
    /\ c2s # << >> /\ Head(c2s).kind = "Unsubscribe"
    /\ IF ~ss.active THEN Violates
       ELSE /\ ss' = [Session(TRUE) EXCEPT !.pushq = ss.pushq, !.nudge = ss.nudge]
            /\ c2s' = Tail(c2s)
            /\ UNCHANGED <<up, s2c, dead>>
    /\ UNCHANGED <<store, backup, dir, fanout, sub, heard, count>>

-----------------------------------------------------------------------------
(***************************************************************************)
(* Publishers and the router.                                              *)
(***************************************************************************)

\* A publish commits: the row enters retention under the next position.
Commit ==
    /\ dir.present
    /\ count.publishes < MaxPublishes
    /\ LET row == [seq |-> store.next, message |-> count.publishes + 1]
       IN  /\ store' = [store EXCEPT !.ring = AppendRun(@, <<row.message>>, row.seq, Depth),
                                     !.next = @ + 1]
           /\ fanout' = fanout \cup {row}
    /\ count' = [count EXCEPT !.publishes = @ + 1]
    /\ UNCHANGED <<backup, dir, ss, up, c2s, s2c, sub, heard, dead>>

\* try_send onto a session's push queue.
TrySend(q, row) == IF Len(q) < PushFrames THEN Append(q, row) ELSE q

\* Mutant of Deliver: the live copy is trusted to arrive and nothing nudges.
DeliverUnnudged(row) == ss' = [ss EXCEPT !.pushq = TrySend(@, row)]

\* WakeRouter::deliver: queue the live copy, then nudge whether or not it fit.
Deliver(row) == ss' = [ss EXCEPT !.pushq = TrySend(@, row), !.nudge = TRUE]

\* WakeRouter::deliver_context, the feed of a subscriber with no push window.
DeliverContext(row) == ss' = [ss EXCEPT !.pushq = TrySend(@, row)]

\* fan_out_attach_feed, after the commit: the subscriber list and the session's
\* active set are read now.
FanOut ==
    /\ \E row \in fanout :
         /\ fanout' = fanout \ {row}
         /\ \/ /\ dir.entry /\ ss.on /\ ss.active
               /\ IF dir.bound.push > 0 THEN Deliver(row) ELSE DeliverContext(row)
            \/ /\ ~(dir.entry /\ ss.on /\ ss.active)
               /\ UNCHANGED ss
    /\ UNCHANGED <<store, backup, dir, up, c2s, s2c, sub, heard, dead, count>>

-----------------------------------------------------------------------------
(***************************************************************************)
(* The client's Subscriptions, for this channel.  `known` is whether the   *)
(* map holds an entry; `claimant` is the hold that put the resume claim on *)
(* the outstanding or open subscription (history, 0 for a claim-free one). *)
(***************************************************************************)

NoStatement == [push |-> 0, retain |-> 0, policy |-> "Resume"]

NoEntry == [known |-> FALSE, refcount |-> 0, stmt |-> NoStatement, wire |-> "Unsubscribed",
            token |-> << >>, span_hw |-> 0, has_been_active |-> FALSE,
            stated |-> << >>, claimant |-> 0]

\* What holders who have heard nothing yet know: whatever comes first is new.
NothingHeard == [last |-> 0, excused |-> TRUE, unexplained |-> 0]

\* prepare_subscribe's claim.
Claim(e) == IF e.stmt.policy = "Resume" THEN e.token ELSE << >>

\* prepare_subscribe and subscribe_frame.
Subscribing(e, hold) ==
    [e EXCEPT !.wire = "Pending", !.span_hw = 0, !.stated = <<e.stmt>>,
              !.claimant = IF Claim(e) = << >> THEN 0 ELSE hold]

SubscribeFrame(e) == [kind |-> "Subscribe", stmt |-> e.stmt, resume |-> Claim(e)]

UnsubscribeFrame == [kind |-> "Unsubscribe"]

\* Whether an acquisition emits a Subscribe.
Subscribes(e) == up /\ e.wire = "Unsubscribed"

\* acquire.  The first holder after none states the subscription afresh.  A
\* cursor survives to it only from an Unavailable answer, and then it resumes
\* what the earlier holders heard.
Acquire ==
    /\ sub.refcount < MaxRefs
    /\ sub.refcount = 0 => count.holds < MaxHolds
    /\ \E stmt \in Statements :
         /\ sub.refcount > 0 => stmt = sub.stmt
         /\ LET e == [sub EXCEPT !.known = TRUE, !.stmt = stmt, !.refcount = @ + 1]
                hold == count.holds + (IF sub.refcount = 0 THEN 1 ELSE 0)
            IN  /\ sub' = IF Subscribes(e) THEN Subscribing(e, hold) ELSE e
                /\ c2s' = IF Subscribes(e) THEN Append(c2s, SubscribeFrame(e)) ELSE c2s
                /\ count' = [count EXCEPT !.holds = hold]
                /\ heard' = IF sub.refcount = 0 /\ Claim(e) = << >> THEN NothingHeard ELSE heard
    /\ UNCHANGED <<store, backup, dir, fanout, ss, up, s2c, dead>>

\* Mutant of Release: the Unsubscribe does not wait for the SubscribeResult.
ReleaseEarly ==
    /\ sub.refcount > 0
    /\ sub' = [sub EXCEPT !.refcount = @ - 1, !.token = IF sub.refcount = 1 THEN << >> ELSE @,
                          !.wire = IF sub.refcount = 1 THEN "Unsubscribed" ELSE @]
    /\ c2s' = IF sub.refcount = 1 /\ sub.wire # "Unsubscribed"
              THEN Append(c2s, UnsubscribeFrame) ELSE c2s
    /\ UNCHANGED <<store, backup, dir, fanout, ss, up, s2c, heard, dead, count>>

\* release, with forget_if_spent: the last holder takes the cursor with it and
\* closes an open subscription; a pending one is closed by its result.
Release ==
    /\ sub.refcount > 0
    /\ \/ /\ sub.refcount > 1
          /\ sub' = [sub EXCEPT !.refcount = @ - 1]
          /\ UNCHANGED c2s
       \/ /\ sub.refcount = 1
          /\ LET e == [sub EXCEPT !.refcount = 0, !.token = << >>,
                                  !.wire = IF @ = "Active" THEN "Unsubscribed" ELSE @]
             IN  sub' = IF e.wire = "Unsubscribed" /\ ~e.has_been_active THEN NoEntry ELSE e
          /\ c2s' = IF sub.wire = "Active" THEN Append(c2s, UnsubscribeFrame) ELSE c2s
    /\ UNCHANGED <<store, backup, dir, fanout, ss, up, s2c, heard, dead, count>>

\* The client refuses a frame it cannot reconcile: fatal on its connection.
Refuses ==
    /\ dead' = "client"
    /\ up' = FALSE
    /\ ss' = Session(FALSE)
    /\ c2s' = << >> /\ s2c' = << >>
    /\ UNCHANGED <<sub, heard>>

Consumes == s2c' = Tail(s2c) /\ UNCHANGED <<ss, up, dead>>

\* A reported gap, or a subscribe that claimed nothing, excuses whatever the
\* next accepted row steps over or repeats.
Opens(e, gap) == IF gap # "none" \/ e.claimant = 0
                 THEN [heard EXCEPT !.excused = TRUE] ELSE heard

\* What an acknowledged Subscribe becomes: closed if nobody holds it, closed
\* and reopened if it was restated meanwhile, otherwise active.
Settle(e) ==
    IF e.refcount = 0 THEN [e EXCEPT !.wire = "Unsubscribed"]
    ELSE IF e.stated # <<e.stmt>> THEN Subscribing(e, count.holds)
    ELSE [e EXCEPT !.wire = "Active"]

SettleFrames(e) ==
    IF e.refcount = 0 THEN <<UnsubscribeFrame>>
    ELSE IF e.stated # <<e.stmt>> THEN <<UnsubscribeFrame, SubscribeFrame(e)>>
    ELSE << >>

\* on_subscribe_result.
OnSubscribeResult ==
    /\ s2c # << >> /\ Head(s2c).kind = "SubscribeResult"
    /\ LET f == Head(s2c)
           e == [sub EXCEPT !.has_been_active = TRUE]
       IN  IF sub.wire # "Pending" THEN Refuses
           ELSE /\ \/ /\ f.outcome = "Unavailable"
                      /\ sub' = [sub EXCEPT !.wire = "Unsubscribed", !.refcount = 0,
                                            !.span_hw = 0, !.stated = << >>]
                      /\ UNCHANGED <<c2s, heard>>
                   \/ /\ f.outcome = "Ok"
                      /\ sub' = Settle(e)
                      /\ c2s' = c2s \o SettleFrames(e)
                      /\ heard' = IF Settle(e).wire = "Active" THEN Opens(e, f.gap) ELSE heard
                /\ Consumes
    /\ UNCHANGED <<store, backup, dir, fanout, count>>

\* What the holders know after a pass: how many messages it stepped over that
\* neither a gap nor its own drop count explains (negative for repeats).
Hears(rows) ==
    LET last == rows[Len(rows)].message
    IN  [last |-> last, excused |-> FALSE,
         unexplained |-> IF heard.excused THEN 0
                         ELSE last - heard.last - Len(rows) - rows[1].dropped]

\* A row at or below the span high-water, or on a channel never active here.
Inexplicable(rows) ==
    \/ ~sub.has_been_active
    \/ /\ sub.wire = "Active"
       /\ \E i \in 1..Len(rows) :
             rows[i].seq <= (IF i = 1 THEN sub.span_hw ELSE rows[i - 1].seq)

\* The resume token after a pass: its last row's cursor, if one is kept.
Latest(rows) ==
    IF sub.stmt.policy = "Resume" THEN <<rows[Len(rows)].cursor>> ELSE sub.token

\* Mutant of OnDeliver: a straggler's cursor is taken although its rows are not.
OnDeliverKeepsStraggler ==
    /\ s2c # << >> /\ Head(s2c).kind = "Deliver"
    /\ LET rows == Head(s2c).rows
       IN  /\ sub' = [sub EXCEPT !.token = Latest(rows),
                      !.span_hw = IF sub.wire = "Active" THEN rows[Len(rows)].seq ELSE @]
           /\ heard' = IF sub.wire = "Active" THEN Hears(rows) ELSE heard
    /\ Consumes
    /\ UNCHANGED <<store, backup, dir, fanout, c2s, count>>

\* on_deliver: refuse an inexplicable or regressing pass, discard a straggler
\* whole, otherwise advance the span and take the last row's cursor.
OnDeliver ==
    /\ s2c # << >> /\ Head(s2c).kind = "Deliver"
    /\ LET rows == Head(s2c).rows
       IN  IF Inexplicable(rows) THEN Refuses
           ELSE /\ \/ /\ sub.wire # "Active"
                      /\ UNCHANGED <<sub, heard>>
                   \/ /\ sub.wire = "Active"
                      /\ sub' = [sub EXCEPT !.span_hw = rows[Len(rows)].seq,
                                            !.token = Latest(rows)]
                      /\ heard' = Hears(rows)
                /\ UNCHANGED c2s
                /\ Consumes
    /\ UNCHANGED <<store, backup, dir, fanout, count>>

-----------------------------------------------------------------------------
(***************************************************************************)
(* The connection, and what happens to the server under it.                *)
(***************************************************************************)

\* resubscribe_survivors' guard.
Attached(e) == e.refcount > 0 /\ e.wire = "Unsubscribed"

\* The attachment comes up: a fresh session, and on_attached on the client.
Attach ==
    /\ ~up /\ dead = "none"
    /\ count.conns < MaxConns
    /\ up' = TRUE
    /\ ss' = Session(TRUE)
    /\ sub' = IF Attached(sub) THEN Subscribing(sub, count.holds) ELSE sub
    /\ c2s' = IF Attached(sub) THEN <<SubscribeFrame(sub)>> ELSE << >>
    /\ count' = [count EXCEPT !.conns = @ + 1]
    /\ UNCHANGED <<store, backup, dir, fanout, s2c, heard, dead>>

\* on_detached: entries nobody holds go, spans end, cursors survive.
Detached(e) ==
    IF e.refcount = 0 THEN NoEntry
    ELSE [e EXCEPT !.wire = "Unsubscribed", !.span_hw = 0, !.has_been_active = FALSE]

\* The attachment goes away with everything in flight on it.
Lose ==
    /\ up' = FALSE
    /\ ss' = Session(FALSE)
    /\ c2s' = << >> /\ s2c' = << >>
    /\ sub' = Detached(sub)
    /\ UNCHANGED <<heard, dead>>

Detach ==
    /\ up
    /\ Lose
    /\ UNCHANGED <<store, backup, dir, fanout, count>>

\* A numbering no earlier store of the channel used (history).
FreshLife == count.boots + count.recreates + 1

\* Mutant of Booted: rings come up under the epoch they had.
BootedSameEpoch(s, boot) ==
    [s EXCEPT !.inc = @ + 1,
              !.life = IF s.class = "durable" THEN @ ELSE FreshLife,
              !.ring = IF s.class = "durable" THEN @ ELSE << >>,
              !.next = IF s.class = "durable" THEN @ ELSE 1]

\* A store identity after one more boot: bump_incarnation, and for rings a
\* fresh epoch and nothing retained.
Booted(s, boot) ==
    [s EXCEPT !.inc = @ + 1,
              !.life = IF s.class = "durable" THEN @ ELSE FreshLife,
              !.epoch = IF s.class = "durable" THEN @ ELSE boot,
              !.ring = IF s.class = "durable" THEN @ ELSE << >>,
              !.next = IF s.class = "durable" THEN @ ELSE 1]

Reboot(s) ==
    /\ store' = Booted(s, count.boots + 1)
    /\ dir' = [dir EXCEPT !.entry = dir.attacher = "surface"]
    /\ fanout' = {}
    /\ Lose

\* The server process restarts.
Restart ==
    /\ count.restarts < MaxRestarts
    /\ Reboot(store)
    /\ count' = [count EXCEPT !.restarts = @ + 1, !.boots = @ + 1]
    /\ UNCHANGED backup

\* A backup of the database is taken, and later the store is restored from it.
Backup ==
    /\ store.class = "durable" /\ backup = << >> /\ MaxRestores > 0
    /\ backup' = <<store>>
    /\ UNCHANGED <<store, dir, fanout, ss, up, c2s, s2c, sub, heard, dead, count>>

Restore ==
    /\ backup # << >> /\ count.restores < MaxRestores
    /\ Reboot([backup[1] EXCEPT !.life = FreshLife])
    /\ count' = [count EXCEPT !.restores = @ + 1, !.boots = @ + 1]
    /\ UNCHANGED backup

\* A reload changes a non-durable channel: deregister drops its ring and
\* register builds an empty one under the process's one epoch.  The surface's
\* sessions have been closed and awaited by then.
Recreate ==
    /\ store.class = "ephemeral" /\ dir.attacher = "surface"
    /\ ~ss.on
    /\ count.recreates < MaxRecreates
    /\ store' = [store EXCEPT !.ring = << >>, !.next = 1, !.life = FreshLife]
    /\ count' = [count EXCEPT !.recreates = @ + 1]
    /\ UNCHANGED <<backup, dir, fanout, ss, up, c2s, s2c, sub, heard, dead>>

\* A remote's channel is provisioned at run time.
Provision ==
    /\ ~dir.present
    /\ dir' = [dir EXCEPT !.present = TRUE]
    /\ UNCHANGED <<store, backup, fanout, ss, up, c2s, s2c, sub, heard, dead, count>>

-----------------------------------------------------------------------------
Init ==
    /\ \E class \in Classes, attacher \in Attachers :
         /\ store = [class |-> class, epoch |-> 1, inc |-> 1,
                     life |-> 1, ring |-> << >>, next |-> 1]
         /\ dir \in [attacher : {attacher}, present : {TRUE, attacher = "surface"},
                     entry : {attacher = "surface"}, bound : Bounds]
    /\ backup = << >>
    /\ fanout = {}
    /\ ss = Session(FALSE)
    /\ up = FALSE
    /\ c2s = << >> /\ s2c = << >>
    /\ sub = NoEntry
    /\ heard = NothingHeard
    /\ dead = "none"
    /\ count = [publishes |-> 0, holds |-> 0, conns |-> 0, boots |-> 1,
                restarts |-> 0, restores |-> 0, recreates |-> 0]

SessionStep == TakePushes \/ TakeNudge \/ SendPush \/ DrainAll
                 \/ HandleSubscribe \/ HandleSubscribeReplay \/ HandleUnsubscribe

ClientStep == OnSubscribeResult \/ OnDeliver

Next ==
    \/ SessionStep \/ ClientStep \/ FanOut
    \/ Commit \/ Acquire \/ Release
    \/ Attach \/ Detach \/ Restart \/ Backup \/ Restore \/ Recreate \/ Provision

Spec == Init /\ [][Next]_vars

\* The session loop, the client's reader, and a publisher that has committed
\* always take their next step; the client's driver always reconnects.
FairSpec == Spec /\ WF_vars(SessionStep) /\ WF_vars(ClientStep) /\ WF_vars(FanOut)
                 /\ WF_vars(Attach)

-----------------------------------------------------------------------------
\* Neither end ever finds the other in breach: the client never sends a
\* duplicate Subscribe or an Unsubscribe of nothing (handle_subscribe and
\* handle_unsubscribe would violate), and the server never sends a result
\* nobody awaits, a delivery on a channel never active, or a regressing seq
\* (on_subscribe_result and on_deliver would refuse), whatever crosses on the
\* wire.
PeersConform == dead = "none"

\* A subscription that can wake its attacher steps over nothing in silence:
\* between two rows its holders accept, every message is accounted for by the
\* second's drop count unless a gap was reported (drain_channel, resume_answer).
NoSilentLoss ==
    sub.known /\ sub.stmt.push > 0 /\ dir.bound.push > 0 => heard.unexplained <= 0

\* A message reaches the holders once: the replay racing the live fan-out and
\* the drain racing both are settled by the position (send_live).
NoSecondCopy == sub.known => heard.unexplained >= 0

\* An in-window blip is lossless: a SubscribeResult reports a gap only when the
\* client's cursor is of another numbering, or retention under the
\* subscription's clamp no longer reaches back to it.
GapIsReal ==
    \A f \in Range(s2c) :
        f.kind = "SubscribeResult" /\ f.gap # "none" /\ sub.token # << >> =>
            \/ sub.token[1].epoch # store.epoch
            \/ sub.token[1].seq >= store.next
            \/ store.next - 1 - sub.token[1].seq >
                   Min2(Depth, ReplayClamp(Facts(sub.stated[1])))

\* A cursor minted under a numbering the channel no longer has is answered with
\* a gap, whatever has been published since: parse_resume_cursor's incarnation
\* and the store's epoch stand guard over it.
DeadNumberingIsAGap ==
    \A f \in Range(s2c) :
        f.kind = "SubscribeResult" /\ f.outcome = "Ok" /\ f.gap = "none"
          /\ sub.token # << >> /\ sub.stmt.policy = "Resume"
            => sub.token[1].life = store.life


\* The client's cursor never covers a message its holders were neither handed
\* nor told of: the next resume starts right behind what they last accepted.
CursorFollowsAcceptance ==
    sub.token # << >> /\ sub.refcount > 0 /\ sub.token[1].life = store.life =>
        \A i \in 1..Len(store.ring) :
            store.ring[i].seq = sub.token[1].seq => store.ring[i].message = heard.last

\* Nothing in flight, nothing queued, nothing owed a turn.
Quiet ==
    /\ up /\ c2s = << >> /\ s2c = << >> /\ fanout = {}
    /\ ss.pushq = << >> /\ ~ss.nudge /\ ss.request = << >> /\ ss.hand = << >> /\ ~ss.drain

Newest1 == IF store.ring = << >> THEN 0 ELSE store.ring[Len(store.ring)].message

\* Once everything has settled the holders of a waking subscription have the
\* channel's newest message: a fan-out that found the queue full, or that
\* overtook another, is made good by the nudge's drain.  (Holders whose span
\* resumed on an earlier holder's claim start behind it.)
QuietMeansServed ==
    Quiet /\ sub.wire = "Active" /\ dir.bound.push > 0 =>
        \/ heard.last = Newest1 \/ store.ring = << >>
        \/ heard.last = 0 /\ sub.claimant \notin {0, count.holds}

\* Client and server agree on whether the channel is open once nothing is in
\* flight between them, and on the statement it is open under.
OpenOnBothEnds ==
    Quiet => /\ ss.active <=> sub.wire = "Active"
             /\ ss.active => ss.facts = Facts(sub.stmt)
             /\ ss.active <=> sub.refcount > 0

\* What the documentation of release promises: the holders of a fresh attach
\* take the retained tail, so an open subscription never rests on a resume
\* claim made by holders who have since gone.
FreshHoldTakesTail ==
    sub.wire = "Active" /\ sub.claimant # 0 => sub.claimant = count.holds

\* A channel that stays held by a waking subscription is eventually served its
\* newest message, and stays so, as long as nobody restores an old store or
\* recreates the channel: reconnects resubscribe, drains catch up, nothing
\* waits forever.
HeldIsServed ==
    LET waking == sub.refcount > 0 /\ sub.stmt.push > 0 /\ dir.bound.push > 0
        undisturbed == up /\ dir.present /\ count.recreates = 0 /\ count.restores = 0
    IN  <>[](waking /\ undisturbed /\ store.ring # << >>
                => heard.last = Newest1 \/ sub.claimant \notin {0, count.holds})
=============================================================================
